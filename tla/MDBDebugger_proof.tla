------------------------- MODULE MDBDebugger_proof -------------------------
(***************************************************************************)
(* Proofs about MDBDebugger, for any number of threads, any program and    *)
(* any choice of Is64Bit, Debuggee64, Garbage and Events, or for those that *)
(* a theorem names: the debugger's data are well typed, the program text is *)
(* never damaged, the debuggee stands still while the debugger works, what *)
(* the debugger knows of the threads is true, and a 32-bit debuggee executes *)
(* its own program.                                                        *)
(*                                                                         *)
(* What the actions do to memory and breakpoint list is one operation of   *)
(* MDBBreakpoint or none, so the lemmas of MDBBreakpoint_proof carry over. *)
(*                                                                         *)
(* Each part adds one invariant, proved inductive with the help of those   *)
(* before it:                                                              *)
(*                                                                         *)
(*   DInv       types, indices, program text                               *)
(*   SuspendOK  when the task is suspended                                 *)
(*   ViewOK     the list of threads and the copies of their registers      *)
(*   FlagOK     trap flags                                                 *)
(*   KeptOK     the breakpoints the client wants                           *)
(*   StepOK     suspend counts and trap flag during a single step          *)
(*   WaitOK     somebody can run during a wait                             *)
(*   ListOK     the breakpoint list of a plain client                      *)
(*   Patched    int 3 is in memory where findBreakpoint finds an enabled one *)
(*   MotionOK   where the threads are                                      *)
(***************************************************************************)
EXTENDS MDBDebugger, FiniteSetTheorems, TLAPS

P == INSTANCE MDBBreakpoint_proof WITH Volatile <- {}

-----------------------------------------------------------------------------
(* The operators of the two instances of MDBBreakpoint are the same.       *)

LEMMA Assumption == P!BreakpointAssumption
<1> QED BY DebuggerAssumption DEF P!BreakpointAssumption, P!Address, Address

LEMMA SameAddress == P!Address = Address /\ BP!Address = Address /\ P!Stable = Address /\ BP!Stable = Address
<1> QED BY DEF P!Address, BP!Address, Address, P!Stable, BP!Stable

LEMMA SameInvariants ==
  /\ BP!TypeOK <=> P!TypeOK
  /\ BP!PatchIsText <=> P!PatchIsText
  /\ BP!NoOrphanedInt3 <=> P!NoOrphanedInt3
<1>1. BP!TypeOK <=> P!TypeOK
  BY DEF BP!TypeOK, P!TypeOK, BP!Breakpoint, P!Breakpoint, BP!Address, P!Address
<1>2. BP!PatchIsText <=> P!PatchIsText
  BY SameAddress DEF BP!PatchIsText, P!PatchIsText
<1>3. BP!NoOrphanedInt3 <=> P!NoOrphanedInt3
  BY SameAddress DEF BP!NoOrphanedInt3, P!NoOrphanedInt3, BP!EnabledAt, P!EnabledAt
<1> QED BY <1>1, <1>2, <1>3

LEMMA SameEnable ==
  ASSUME NEW i, BP!EnableBreakpoint(i) PROVE P!EnableBreakpoint(i)
<1> QED BY DEF BP!EnableBreakpoint, P!EnableBreakpoint, BP!ArmedMemory, P!ArmedMemory,
      BP!Armed, P!Armed, BP!ReadReturn, P!ReadReturn, BP!WriteReturn, P!WriteReturn,
      BP!Written, P!Written, BP!ReadByte, P!ReadByte, BP!EnabledAt, P!EnabledAt,
      BP!LastEnabledAt, P!LastEnabledAt

LEMMA SameDisable ==
  ASSUME NEW i, BP!DisableBreakpoint(i) PROVE P!DisableBreakpoint(i)
<1> QED BY DEF BP!DisableBreakpoint, P!DisableBreakpoint, BP!Disarmed, P!Disarmed,
      BP!WriteReturn, P!WriteReturn, BP!Written, P!Written

LEMMA SameCreate ==
  ASSUME NEW a, BP!CreateBreakpoint(a) PROVE P!CreateBreakpoint(a)
<1> QED BY DEF BP!CreateBreakpoint, P!CreateBreakpoint, BP!NewBreakpoint, P!NewBreakpoint

LEMMA SameCreateEnabled ==
  ASSUME NEW a, BP!CreateEnabledBreakpoint(a) PROVE P!CreateEnabledBreakpoint(a)
<1> QED BY DEF BP!CreateEnabledBreakpoint, P!CreateEnabledBreakpoint,
      BP!NewBreakpoint, P!NewBreakpoint, BP!ArmedMemory, P!ArmedMemory,
      BP!Armed, P!Armed, BP!ReadReturn, P!ReadReturn, BP!WriteReturn, P!WriteReturn,
      BP!Written, P!Written, BP!ReadByte, P!ReadByte, BP!EnabledAt, P!EnabledAt,
      BP!LastEnabledAt, P!LastEnabledAt

-----------------------------------------------------------------------------
(* The inductive invariant.                                                *)

\* The types of what MDBDebugger adds to memory and breakpoint list.
ControlTypes ==
  /\ proc \in {"live", "exited", "signaled"}
  /\ alive \subseteq Thread
  /\ regs \in [Thread -> Regs]
  /\ suspend \in [Thread -> 0 .. 1]
  /\ blocked \in [Thread -> BOOLEAN]
  /\ taskSuspend \in 0 .. 1
  /\ status \in {"none", "trap", "signal"}
  /\ threads \in Seq(Thread)
  /\ state32 \in [Thread -> Regs]
  /\ running \in BOOLEAN
  /\ errno \in {"0", "EINTR"}
  /\ pc \in {"create", "idle", "check", "stepOver", "enterWait", "wait", "return"}
  /\ caller \in {"none", "check", "step", "stepOver", "resume"}
  /\ cursor \in Nat
  /\ pending \in Nat
  /\ result \in {"none", "stopped", "terminated", "unknown"}
  /\ requested \subseteq Nat
  /\ trapped \subseteq Thread

\* A command that is under way is about a thread of the list, and stepOver about
\* one that stands at a call.
CursorOK ==
  /\ pc \in {"enterWait", "wait", "return"} /\ caller \in {"check", "step"}
       => cursor \in DOMAIN threads
  /\ pc = "stepOver"
       => cursor \in DOMAIN threads /\ state32[threads[cursor]].eip \in Calls

\* What a live debuggee's memory looks like.
TextOK ==
  proc = "live" => mapped = Address /\ BP!PatchIsText /\ BP!NoOrphanedInt3

DInv ==
  /\ BP!TypeOK
  /\ ControlTypes
  /\ CursorOK
  /\ pending <= Len(breakpoints)
  /\ TextOK

-----------------------------------------------------------------------------
(* Memory and breakpoint list.                                             *)

BreakpointStep ==
  \/ UNCHANGED <<memory, breakpoints>>
  \/ \E a \in Address : BP!CreateBreakpoint(a) \/ BP!CreateEnabledBreakpoint(a)
  \/ \E i \in DOMAIN breakpoints : BP!EnableBreakpoint(i) \/ BP!DisableBreakpoint(i)

MemoryStep ==
  \/ BreakpointStep /\ UNCHANGED <<mapped, proc>>
  \/ UNCHANGED <<memory, breakpoints>> /\ mapped' = {} /\ proc' # "live"

\* Each operation keeps the types, lets no breakpoint disappear, and keeps the
\* text of a live debuggee intact.
LEMMA BreakpointStepPreserves ==
  ASSUME DInv, BreakpointStep, UNCHANGED <<mapped, proc>>
  PROVE  BP!TypeOK' /\ TextOK' /\ Len(breakpoints) <= Len(breakpoints')
<1>1. P!TypeOK /\ Len(breakpoints) \in Nat
  BY SameInvariants DEF DInv, P!TypeOK
<1>2. proc = "live" => P!IInv
  BY <1>1, SameInvariants, SameAddress DEF DInv, TextOK, P!IInv
<1>3. (P!TypeOK' => BP!TypeOK') /\ (P!IInv' => BP!PatchIsText' /\ BP!NoOrphanedInt3')
  <2>1. P!TypeOK' => BP!TypeOK'
    BY DEF BP!TypeOK, P!TypeOK, BP!Breakpoint, P!Breakpoint, BP!Address, P!Address
  <2>2. P!PatchIsText' => BP!PatchIsText'
    BY SameAddress DEF BP!PatchIsText, P!PatchIsText
  <2>3. P!NoOrphanedInt3' => BP!NoOrphanedInt3'
    BY SameAddress DEF BP!NoOrphanedInt3, P!NoOrphanedInt3, BP!EnabledAt, P!EnabledAt
  <2> QED BY <2>1, <2>2, <2>3 DEF P!IInv
<1>4. SUFFICES /\ P!TypeOK' /\ Len(breakpoints) <= Len(breakpoints')
               /\ P!IInv => P!IInv'
  BY <1>2, <1>3, <1>4 DEF TextOK, DInv
<1>5. CASE UNCHANGED <<memory, breakpoints>>
  BY <1>1, <1>5 DEF P!TypeOK, P!IInv, P!PatchIsText, P!NoOrphanedInt3, P!EnabledAt
<1>6. ASSUME NEW a \in Address, BP!CreateBreakpoint(a)
      PROVE  P!TypeOK' /\ Len(breakpoints) <= Len(breakpoints') /\ (P!IInv => P!IInv')
  <2>1. a \in P!Address /\ P!CreateBreakpoint(a)
    BY <1>6, SameCreate, SameAddress
  <2>2. P!TypeOK' /\ Len(breakpoints') = Len(breakpoints) + 1
    BY <1>1, <2>1, Assumption, P!CreateTypes
  <2>3. P!IInv => P!IInv'
    BY <2>1, Assumption, P!CreatePreserves
  <2> QED BY <1>1, <2>2, <2>3
<1>7. ASSUME NEW a \in Address, BP!CreateEnabledBreakpoint(a)
      PROVE  P!TypeOK' /\ Len(breakpoints) <= Len(breakpoints') /\ (P!IInv => P!IInv')
  <2>1. a \in P!Address /\ P!CreateEnabledBreakpoint(a)
    BY <1>7, SameCreateEnabled, SameAddress
  <2>2. P!TypeOK' /\ Len(breakpoints') = Len(breakpoints) + 1
    BY <1>1, <2>1, Assumption, P!CreateEnabledTypes
  <2>3. P!IInv => P!IInv'
    BY <2>1, Assumption, P!CreateEnabledPreserves
  <2> QED BY <1>1, <2>2, <2>3
<1>8. ASSUME NEW i \in DOMAIN breakpoints, BP!EnableBreakpoint(i)
      PROVE  P!TypeOK' /\ Len(breakpoints) <= Len(breakpoints') /\ (P!IInv => P!IInv')
  <2>1. P!EnableBreakpoint(i)
    BY <1>8, SameEnable
  <2>2. P!TypeOK' /\ Len(breakpoints') = Len(breakpoints)
    BY <1>1, <2>1, Assumption, P!EnableTypes
  <2>3. P!IInv => P!IInv'
    BY <2>1, Assumption, P!EnablePreserves
  <2> QED BY <1>1, <2>2, <2>3
<1>9. ASSUME NEW i \in DOMAIN breakpoints, BP!DisableBreakpoint(i)
      PROVE  P!TypeOK' /\ Len(breakpoints) <= Len(breakpoints') /\ (P!IInv => P!IInv')
  <2>1. P!DisableBreakpoint(i)
    BY <1>9, SameDisable
  <2>2. P!TypeOK' /\ Len(breakpoints') = Len(breakpoints)
    BY <1>1, <2>1, Assumption, P!DisableTypes
  <2>3. P!IInv => P!IInv'
    BY <2>1, Assumption, P!DisablePreserves
  <2> QED BY <1>1, <2>2, <2>3
<1> QED BY <1>5, <1>6, <1>7, <1>8, <1>9 DEF BreakpointStep

LEMMA MemoryStepPreserves ==
  ASSUME DInv, MemoryStep
  PROVE  BP!TypeOK' /\ TextOK' /\ Len(breakpoints) <= Len(breakpoints')
<1>1. CASE BreakpointStep /\ UNCHANGED <<mapped, proc>>
  BY <1>1, BreakpointStepPreserves
<1>2. CASE UNCHANGED <<memory, breakpoints>> /\ mapped' = {} /\ proc' # "live"
  <2>1. BP!TypeOK'
    BY <1>2 DEF DInv, BP!TypeOK
  <2>2. Len(breakpoints) \in Nat
    BY DEF DInv, BP!TypeOK
  <2> QED BY <1>2, <2>1, <2>2 DEF TextOK
<1> QED BY <1>1, <1>2 DEF MemoryStep

-----------------------------------------------------------------------------
(* Every step of the debugger and the debuggee is a MemoryStep.            *)

LEMMA LiftIsBreakpointStep ==
  ASSUME NEW a, LiftBreakpoint(a) PROVE BreakpointStep
<1> QED BY DEF LiftBreakpoint, BreakpointStep

LEMMA HooksAreBreakpointStep ==
  ASSUME DylinkerHooks PROVE BreakpointStep
<1> QED BY DebuggerAssumption DEF DylinkerHooks, BreakpointStep

LEMMA ReenableIsBreakpointStep ==
  ASSUME DInv, ReenablePending PROVE BreakpointStep
<1>1. CASE pending = 0
  BY <1>1 DEF ReenablePending, BreakpointStep
<1>2. CASE pending # 0
  <2>1. breakpoints \in Seq(BP!Breakpoint) /\ pending \in Nat /\ pending <= Len(breakpoints)
    BY DEF DInv, ControlTypes, BP!TypeOK
  <2>2. pending \in DOMAIN breakpoints
    BY <1>2, <2>1
  <2>3. BP!EnableBreakpoint(pending)
    BY <1>2 DEF ReenablePending
  <2> QED BY <2>2, <2>3 DEF BreakpointStep
<1> QED BY <1>1, <1>2

LEMMA ClientIsMemoryStep ==
  ASSUME DInv, ClientNext PROVE MemoryStep
<1>1. CASE CreateProcess
  BY <1>1, HooksAreBreakpointStep DEF CreateProcess, MemoryStep, kernelVars
<1>2. CASE InitializeDylinkerHooks
  BY <1>2, HooksAreBreakpointStep DEF InitializeDylinkerHooks, MemoryStep, kernelVars
<1>3. CASE Resume
  BY <1>3 DEF Resume, MemoryStep, BreakpointStep, kernelVars
<1>4. CASE KillProcess
  BY <1>4 DEF KillProcess, Die, MemoryStep
<1>5. CASE \E a \in BreakAddress : CreateBreakpoint(a)
  BY <1>5, DebuggerAssumption DEF CreateBreakpoint, MemoryStep, BreakpointStep, kernelVars
<1>6. CASE \E i \in DOMAIN breakpoints : EnableBreakpoint(i) \/ DisableBreakpoint(i)
  BY <1>6 DEF EnableBreakpoint, DisableBreakpoint, MemoryStep, BreakpointStep, kernelVars
<1>7. ASSUME NEW i \in DOMAIN threads, Step(i) PROVE MemoryStep
  BY <1>7, LiftIsBreakpointStep DEF Step, SingleStep, MemoryStep
<1>8. ASSUME NEW i \in DOMAIN threads, StepOver(i) PROVE MemoryStep
  BY <1>8, LiftIsBreakpointStep DEF StepOver, MemoryStep, kernelVars
<1> QED BY <1>1, <1>2, <1>3, <1>4, <1>5, <1>6, <1>7, <1>8 DEF ClientNext

LEMMA DebuggerIsMemoryStep ==
  ASSUME DInv, DebuggerNext PROVE MemoryStep
<1>1. CASE CheckStep
  BY <1>1, LiftIsBreakpointStep DEF CheckStep, SingleStep, MemoryStep
<1>2. CASE CheckNext \/ ResumeAll \/ EnterWait
  BY <1>2 DEF CheckNext, ResumeAll, EnterWait, MemoryStep, BreakpointStep, kernelVars
<1>3. CASE StepOverResume
  <2>1. state32[threads[cursor]].eip \in Calls
    BY <1>3 DEF StepOverResume, DInv, CursorOK
  <2>2. InstructionEnd[state32[threads[cursor]].eip] \in Address
    BY <2>1, DebuggerAssumption
  <2> QED BY <1>3, <2>2 DEF StepOverResume, ResumeAllThreadsAndTask,
       ResumeTask, MemoryStep, BreakpointStep
<1>4. CASE WaitTrapped \/ WaitSignal \/ WaitExited \/ WaitSignaled
  BY <1>4 DEF WaitTrapped, WaitSignal, WaitExited, WaitSignaled, MemoryStep,
       BreakpointStep, kernelVars
<1>5. CASE StepReturns
  BY <1>5, ReenableIsBreakpointStep DEF StepReturns, MemoryStep
<1>6. CASE CheckReturns
  <2>1. BreakpointStep
    BY <1>6, ReenableIsBreakpointStep DEF CheckReturns, BreakpointStep
  <2> QED BY <1>6, <2>1 DEF CheckReturns, MemoryStep
<1>7. CASE StepOverReturns
  <2>1. BreakpointStep
    BY <1>7, ReenableIsBreakpointStep DEF StepOverReturns, BreakpointStep
  <2> QED BY <1>7, <2>1 DEF StepOverReturns, MemoryStep, kernelVars
<1>8. CASE ResumeReturns
  BY <1>8 DEF ResumeReturns, MemoryStep, BreakpointStep
<1> QED BY <1>1, <1>2, <1>3, <1>4, <1>5, <1>6, <1>7, <1>8 DEF DebuggerNext

LEMMA DebuggeeIsMemoryStep ==
  ASSUME DInv, DebuggeeNext PROVE MemoryStep
<1>1. ASSUME NEW t \in Thread, Execute(t) \/ HitInt3(t) \/ ReceiveSignal(t) \/ ExitThread(t)
      PROVE  MemoryStep
  BY <1>1 DEF Execute, HitInt3, ReceiveSignal, ExitThread, MemoryStep, BreakpointStep
<1>2. ASSUME NEW t \in Thread, NEW u \in Thread, SpawnThread(t, u) PROVE MemoryStep
  BY <1>2 DEF SpawnThread, MemoryStep, BreakpointStep
<1>3. ASSUME NEW t \in Thread, ExitProcess(t) PROVE MemoryStep
  BY <1>3 DEF ExitProcess, Die, MemoryStep
<1>4. CASE DieOfSignal
  BY <1>4 DEF DieOfSignal, Die, MemoryStep
<1> QED BY <1>1, <1>2, <1>3, <1>4 DEF DebuggeeNext

LEMMA NextIsMemoryStep ==
  ASSUME DInv, [Next]_vars PROVE MemoryStep
<1>1. CASE UNCHANGED vars
  BY <1>1 DEF vars, kernelVars, MemoryStep, BreakpointStep
<1>2. CASE WaitInterrupted
  BY <1>2 DEF WaitInterrupted, kernelVars, MemoryStep, BreakpointStep
<1> QED BY <1>1, <1>2, ClientIsMemoryStep, DebuggerIsMemoryStep, DebuggeeIsMemoryStep
     DEF Next

-----------------------------------------------------------------------------
(* What the debugger's and the kernel's operators preserve.                *)

LEMMA AddressArithmetic ==
  ASSUME NEW a \in Address PROVE Before(a) \in Address /\ After(a) \in Address
<1> QED BY DebuggerAssumption DEF Before, After, Address

\* gatherThreads only appends to the list of threads.
LEMMA GatherTypes ==
  ASSUME ControlTypes, GatherThreads
  PROVE  /\ threads' \in Seq(Thread) /\ state32' \in [Thread -> Regs]
         /\ DOMAIN threads \subseteq DOMAIN threads'
<1> DEFINE new == alive \ Known
<1>1. new \subseteq Thread /\ Cardinality(new) \in Nat
  <2>1. new \subseteq Thread
    BY DEF ControlTypes
  <2>2. IsFiniteSet(new)
    BY <2>1, DebuggerAssumption, FS_Subset
  <2> QED BY <2>1, <2>2, FS_CardinalityType
<1>2. PICK order \in [1 .. Cardinality(new) -> new] : threads' = threads \o order
  BY DEF GatherThreads
<1>3. order \in Seq(Thread)
  <2>1. ASSUME NEW n \in Nat, NEW f \in [1 .. n -> Thread] PROVE f \in Seq(Thread)
    OBVIOUS
  <2>2. order \in [1 .. Cardinality(new) -> Thread]
    BY <1>1
  <2> QED BY <1>1, <2>1, <2>2
<1>4. threads \in Seq(Thread)
  BY DEF ControlTypes
<1>5. threads' \in Seq(Thread) /\ Len(threads') = Len(threads) + Len(order)
  BY <1>2, <1>3, <1>4
<1>6. DOMAIN threads \subseteq DOMAIN threads'
  BY <1>3, <1>4, <1>5
<1>7. state32' \in [Thread -> Regs]
  BY DEF GatherThreads, ControlTypes
<1> QED BY <1>5, <1>6, <1>7

LEMMA CommitTypes ==
  ASSUME ControlTypes, NEW ts, NEW view \in [Thread -> Regs], CommitThreads(ts, view)
  PROVE  regs' \in [Thread -> Regs] /\ trapped' \subseteq Thread
<1> QED BY DEF CommitThreads, ControlTypes

LEMMA TrapFlagTypes ==
  ASSUME ControlTypes, NEW t \in Thread, NEW enable \in BOOLEAN, SetTrapFlag(t, enable)
  PROVE  /\ state32' \in [Thread -> Regs] /\ regs' \in [Thread -> Regs]
         /\ trapped' \subseteq Thread
<1>1. state32[t] \in Regs /\ state32 \in [Thread -> Regs]
  BY DEF ControlTypes
<1>2. [state32[t] EXCEPT !.tf = enable] \in Regs
  BY <1>1 DEF Regs
<1>3. state32' = [state32 EXCEPT ![t] = [state32[t] EXCEPT !.tf = enable]]
  BY DEF SetTrapFlag
<1>4. state32' \in [Thread -> Regs]
  BY <1>1, <1>2, <1>3
<1>5. CommitThreads({t}, state32')
  BY DEF SetTrapFlag
<1> QED BY <1>4, <1>5, CommitTypes

LEMMA RunOnlyTypes ==
  ASSUME ControlTypes, NEW t \in Thread, RunOnly(t)
  PROVE  /\ suspend' \in [Thread -> 0 .. 1] /\ blocked' \in [Thread -> BOOLEAN]
         /\ taskSuspend' \in 0 .. 1
<1>1. suspend' \in [Thread -> 0 .. 1]
  BY DEF RunOnly, ControlTypes
<1>2. blocked' \in [Thread -> BOOLEAN]
  BY Zenon DEF RunOnly, ControlTypes
<1>3. taskSuspend' \in 0 .. 1
  BY DEF RunOnly, ControlTypes
<1> QED BY <1>1, <1>2, <1>3

LEMMA ResumeTypes ==
  ASSUME ControlTypes, ResumeThreadsAndTask
  PROVE  /\ suspend' \in [Thread -> 0 .. 1] /\ blocked' \in [Thread -> BOOLEAN]
         /\ taskSuspend' \in 0 .. 1
<1> DEFINE resumed == {t \in Known : \E j \in DOMAIN threads :
                         threads[j] = t /\ \A k \in 1 .. j : threads[k] \in alive}
<1>1. /\ suspend' = [t \in Thread |-> IF t \in resumed THEN 0 ELSE suspend[t]]
      /\ blocked' = [t \in Thread |-> blocked[t] /\ t \notin resumed]
      /\ taskSuspend' = IF resumed = Known /\ proc = "live" THEN 0 ELSE taskSuspend
  BY DEF ResumeThreadsAndTask
<1> HIDE DEF resumed
<1>2. suspend' \in [Thread -> 0 .. 1]
  BY <1>1 DEF ControlTypes
<1>3. blocked' \in [Thread -> BOOLEAN]
  <2>1. \A t \in Thread : (blocked[t] /\ t \notin resumed) \in BOOLEAN
    OBVIOUS
  <2> QED BY <1>1, <2>1, Zenon
<1>4. taskSuspend' \in 0 .. 1
  BY <1>1 DEF ControlTypes
<1> QED BY <1>2, <1>3, <1>4

\* Only a thread of a task that is not suspended traps: the count reaches 1.
LEMMA StopTypes ==
  ASSUME ControlTypes, NEW t \in Thread, Runnable(t),
         NEW why \in {"trap", "signal"}, Stop(t, why)
  PROVE  /\ taskSuspend' \in 0 .. 1 /\ blocked' \in [Thread -> BOOLEAN]
         /\ status' \in {"none", "trap", "signal"}
<1>1. taskSuspend' \in 0 .. 1
  BY DEF Runnable, Stop
<1>2. blocked' \in [Thread -> BOOLEAN]
  BY Zenon DEF Stop, ControlTypes
<1>3. status' \in {"none", "trap", "signal"}
  BY DEF Stop
<1> QED BY <1>1, <1>2, <1>3

-----------------------------------------------------------------------------
(* Each action preserves the types and the bounds of cursor and pending.   *)

\* DInv without the parts that MemoryStepPreserves takes care of.
ControlOK ==
  /\ ControlTypes
  /\ CursorOK
  /\ pending <= Len(breakpoints)

\* What MemoryStepPreserves tells about the breakpoint list.
Lengths ==
  /\ Len(breakpoints) \in Nat /\ Len(breakpoints') \in Nat
  /\ Len(breakpoints) <= Len(breakpoints')
  /\ DOMAIN breakpoints = 1 .. Len(breakpoints)

LEMMA LengthsFollow ==
  ASSUME DInv, BP!TypeOK', Len(breakpoints) <= Len(breakpoints') PROVE Lengths
<1> QED BY DEF DInv, BP!TypeOK, Lengths

LEMMA HooksRequestTypes ==
  ASSUME ControlOK, Lengths, DylinkerHooks PROVE requested' \subseteq Nat
<1>1. requested \subseteq Nat /\ Len(breakpoints) + 1 \in Nat
  BY DEF ControlOK, ControlTypes, Lengths
<1>2. requested' = requested \/ requested' = requested \union {Len(breakpoints) + 1}
  BY DEF DylinkerHooks
<1> QED BY <1>1, <1>2

LEMMA LiftPendingTypes ==
  ASSUME ControlOK, Lengths, NEW a, LiftBreakpoint(a)
  PROVE  pending' \in Nat /\ pending' <= Len(breakpoints')
<1> QED BY DEF Lengths, LiftBreakpoint

\* step() and checkForBreakpointsAndStep() up to the wait.
LEMMA SingleStepKeeps ==
  ASSUME ControlOK, Lengths, NEW a, LiftBreakpoint(a),
         cursor' \in DOMAIN threads, NEW from \in {"check", "step"}, SingleStep(from)
  PROVE  ControlOK'
<1>1. threads \in Seq(Thread) /\ ControlTypes
  BY DEF ControlOK, ControlTypes
<1>2. threads[cursor'] \in Thread /\ cursor' \in Nat
  BY <1>1
<1>3. SetTrapFlag(threads[cursor'], TRUE) /\ RunOnly(threads[cursor'])
  BY DEF SingleStep
<1>4. /\ state32' \in [Thread -> Regs] /\ regs' \in [Thread -> Regs]
      /\ trapped' \subseteq Thread
  BY <1>1, <1>2, <1>3, TrapFlagTypes
<1>5. /\ suspend' \in [Thread -> 0 .. 1] /\ blocked' \in [Thread -> BOOLEAN]
      /\ taskSuspend' \in 0 .. 1
  BY <1>1, <1>2, <1>3, RunOnlyTypes
<1>6. ControlTypes'
  BY <1>1, <1>2, <1>4, <1>5, LiftPendingTypes DEF ControlTypes, SingleStep
<1>7. CursorOK'
  BY DEF CursorOK, SingleStep
<1> QED BY <1>6, <1>7, LiftPendingTypes DEF ControlOK

LEMMA ClientKeeps ==
  ASSUME ControlOK, Lengths, ClientNext PROVE ControlOK'
<1> USE DEF ControlOK
<1>1. CASE CreateProcess
  <2>1. requested' \subseteq Nat
    BY <1>1, HooksRequestTypes DEF CreateProcess
  <2>2. threads' \in Seq(Thread) /\ state32' \in [Thread -> Regs]
    BY <1>1, GatherTypes DEF CreateProcess
  <2>3. ControlTypes'
    BY <1>1, <2>1, <2>2 DEF CreateProcess, ControlTypes, kernelVars
  <2> QED BY <1>1, <2>3 DEF CreateProcess, CursorOK, Lengths, ControlTypes
<1>2. CASE InitializeDylinkerHooks
  <2>1. requested' \subseteq Nat
    BY <1>2, HooksRequestTypes DEF InitializeDylinkerHooks
  <2> QED BY <1>2, <2>1 DEF InitializeDylinkerHooks, ControlTypes, CursorOK, Lengths,
        kernelVars, viewVars, controlVars
<1>3. CASE Resume
  BY <1>3 DEF Resume, ControlTypes, CursorOK, Lengths, kernelVars, viewVars, historyVars
<1>4. CASE KillProcess
  BY <1>4 DEF KillProcess, Die, ControlTypes, CursorOK, Lengths, viewVars, controlVars,
       historyVars
<1>5. ASSUME NEW a \in BreakAddress, CreateBreakpoint(a) PROVE ControlOK'
  BY <1>5 DEF CreateBreakpoint, ControlTypes, CursorOK, Lengths, kernelVars, viewVars,
       controlVars, historyVars
<1>6. ASSUME NEW i \in DOMAIN breakpoints, EnableBreakpoint(i) \/ DisableBreakpoint(i)
      PROVE  ControlOK'
  <2>1. requested \subseteq Nat /\ i \in Nat
    BY DEF ControlTypes, Lengths
  <2>2. requested' \subseteq Nat
    BY <1>6, <2>1 DEF EnableBreakpoint, DisableBreakpoint
  <2>3. UNCHANGED <<kernelVars, viewVars, controlVars, trapped>>
    BY <1>6 DEF EnableBreakpoint, DisableBreakpoint
  <2> QED BY <2>2, <2>3 DEF ControlTypes, CursorOK, Lengths, kernelVars, viewVars,
        controlVars
<1>7. ASSUME NEW i \in DOMAIN threads, Step(i) PROVE ControlOK'
  BY <1>7, SingleStepKeeps DEF Step
<1>8. ASSUME NEW i \in DOMAIN threads, StepOver(i) PROVE ControlOK'
  <2>1. pending' \in Nat /\ pending' <= Len(breakpoints')
    BY <1>8, LiftPendingTypes DEF StepOver
  <2>2. i \in Nat
    BY DEF ControlTypes
  <2> QED BY <1>8, <2>1, <2>2 DEF StepOver, ControlTypes, CursorOK, kernelVars, viewVars,
        historyVars
<1> QED BY <1>1, <1>2, <1>3, <1>4, <1>5, <1>6, <1>7, <1>8 DEF ClientNext

LEMMA ClearTrapFlagTypes ==
  ASSUME ControlTypes, cursor \in DOMAIN threads, ClearTrapFlagIfStopped
  PROVE  /\ state32' \in [Thread -> Regs] /\ regs' \in [Thread -> Regs]
         /\ trapped' \subseteq Thread
<1>1. threads[cursor] \in Thread
  BY DEF ControlTypes
<1>2. CASE result = "stopped"
  BY <1>1, <1>2, TrapFlagTypes DEF ClearTrapFlagIfStopped
<1>3. CASE result # "stopped"
  BY <1>3 DEF ClearTrapFlagIfStopped, ControlTypes
<1> QED BY <1>2, <1>3

LEMMA StepBackTypes ==
  ASSUME ControlTypes, ResumeReturns
  PROVE  /\ state32' \in [Thread -> Regs] /\ regs' \in [Thread -> Regs]
         /\ trapped' \subseteq Thread
<1> DEFINE hit == {t \in Known : BP!StopsAt(Before(state32[t].eip))}
           back == [t \in Thread |-> IF t \in hit
                      THEN [state32[t] EXCEPT !.eip = Before(@)] ELSE state32[t]]
<1>1. CASE result = "stopped"
  <2>1. state32' = back /\ CommitThreads(hit, back)
    BY <1>1 DEF ResumeReturns
  <2>2. ASSUME NEW t \in Thread PROVE back[t] \in Regs
    <3>1. state32[t] \in Regs
      BY DEF ControlTypes
    <3>2. Before(state32[t].eip) \in Address
      BY <3>1, AddressArithmetic DEF Regs
    <3>3. [state32[t] EXCEPT !.eip = Before(@)] \in Regs
      BY <3>1, <3>2 DEF Regs
    <3> QED BY <3>1, <3>3
  <2>3. back \in [Thread -> Regs]
    BY <2>2
  <2> HIDE DEF back, hit
  <2> QED BY <2>1, <2>3, CommitTypes
<1>2. CASE result # "stopped"
  BY <1>2 DEF ResumeReturns, ControlTypes
<1> QED BY <1>1, <1>2

LEMMA DebuggerKeeps ==
  ASSUME ControlOK, Lengths, DebuggerNext PROVE ControlOK'
<1> USE DEF ControlOK
<1>1. CASE CheckStep
  BY <1>1, SingleStepKeeps DEF CheckStep
<1>2. CASE CheckNext
  BY <1>2 DEF CheckNext, ControlTypes, CursorOK, Lengths, kernelVars, viewVars, historyVars
<1>3. CASE ResumeAll
  <2>1. /\ suspend' \in [Thread -> 0 .. 1] /\ blocked' \in [Thread -> BOOLEAN]
        /\ taskSuspend' \in 0 .. 1
    BY <1>3, ResumeTypes DEF ResumeAll
  <2> QED BY <1>3, <2>1 DEF ResumeAll, ControlTypes, CursorOK, Lengths, viewVars,
        historyVars
<1>4. CASE StepOverResume
  BY <1>4 DEF StepOverResume, ResumeAllThreadsAndTask, ResumeTask, ControlTypes,
              CursorOK, Lengths, viewVars, historyVars
<1>5. CASE EnterWait
  BY <1>5 DEF EnterWait, Return, ControlTypes, CursorOK, Lengths, kernelVars, viewVars,
       historyVars
<1>6. ASSUME GatherThreads, pc = "wait", pc' \in {"wait", "return"},
             UNCHANGED <<breakpoints, caller, cursor, pending>>
      PROVE  /\ threads' \in Seq(Thread) /\ state32' \in [Thread -> Regs]
             /\ CursorOK' /\ pending' <= Len(breakpoints')
  BY <1>6, GatherTypes DEF CursorOK
<1>7. CASE WaitTrapped
  BY <1>6, <1>7 DEF WaitTrapped, Return, ControlTypes, historyVars
<1>8. CASE WaitSignal
  <2>1. pc' \in {"wait", "return"} /\ result' \in {"none", "stopped", "terminated", "unknown"}
    BY <1>8 DEF WaitSignal, Return, ControlTypes
  <2>2. \A t \in Thread : (blocked[t] /\ t \notin alive) \in BOOLEAN
    OBVIOUS
  <2>3. blocked' = [t \in Thread |-> blocked[t] /\ t \notin alive]
    BY <1>8 DEF WaitSignal
  <2>4. blocked' \in [Thread -> BOOLEAN]
    BY <2>2, <2>3, Zenon
  <2>5. taskSuspend' \in 0 .. 1
    BY <1>8 DEF WaitSignal, ControlTypes
  <2> QED BY <1>6, <1>8, <2>1, <2>4, <2>5 DEF WaitSignal, ControlTypes, historyVars
<1>9. CASE WaitExited
  BY <1>9 DEF WaitExited, Return, ControlTypes, CursorOK, Lengths, kernelVars, historyVars
<1>10. CASE WaitSignaled
  BY <1>6, <1>10 DEF WaitSignaled, Return, ControlTypes, kernelVars, historyVars
<1>11. CASE StepReturns
  <2>1. cursor \in DOMAIN threads
    BY <1>11 DEF StepReturns, CursorOK
  <2>2. /\ state32' \in [Thread -> Regs] /\ regs' \in [Thread -> Regs]
        /\ trapped' \subseteq Thread
    BY <1>11, <2>1, ClearTrapFlagTypes DEF StepReturns
  <2> QED BY <1>11, <2>2 DEF StepReturns, ControlTypes, CursorOK, Lengths
<1>12. CASE CheckReturns
  <2>1. cursor \in DOMAIN threads
    BY <1>12 DEF CheckReturns, CursorOK
  <2>2. /\ state32' \in [Thread -> Regs] /\ regs' \in [Thread -> Regs]
        /\ trapped' \subseteq Thread
    BY <1>12, <2>1, ClearTrapFlagTypes DEF CheckReturns
  <2> QED BY <1>12, <2>2 DEF CheckReturns, ControlTypes, CursorOK, Lengths
<1>13. CASE StepOverReturns
  BY <1>13 DEF StepOverReturns, ControlTypes, CursorOK, Lengths, kernelVars, viewVars,
       historyVars
<1>14. CASE ResumeReturns
  BY <1>14, StepBackTypes DEF ResumeReturns, ControlTypes, CursorOK, Lengths
<1> QED BY <1>1, <1>2, <1>3, <1>4, <1>5, <1>7, <1>8, <1>9, <1>10, <1>11, <1>12, <1>13,
        <1>14 DEF DebuggerNext

\* The debuggee's steps are steps of a runnable thread, or the death of it all.
LEMMA DebuggeeKeeps ==
  ASSUME ControlOK, Lengths, DebuggeeNext PROVE ControlOK'
<1> USE DEF ControlOK
<1>1. ASSUME UNCHANGED <<breakpoints, viewVars, controlVars>>, ControlTypes'
      PROVE  ControlOK'
  BY <1>1 DEF CursorOK, Lengths, viewVars, controlVars
<1>2. ASSUME NEW t \in Thread, NEW a \in Address
      PROVE  [regs EXCEPT ![t].eip = a] \in [Thread -> Regs]
  <2>1. regs \in [Thread -> Regs] /\ regs[t] \in Regs
    BY DEF ControlTypes
  <2>2. [regs[t] EXCEPT !.eip = a] \in Regs
    BY <2>1 DEF Regs
  <2> QED BY <2>1, <2>2
<1>3. ASSUME NEW t \in Thread PROVE regs[t].eip \in Address
  BY DEF ControlTypes, Regs
<1>4. ASSUME NEW t \in Thread, Execute(t) PROVE ControlOK'
  <2>1. PICK a \in Successors[regs[t].eip] : regs' = [regs EXCEPT ![t].eip = a]
    BY <1>4 DEF Execute
  <2>2. a \in Address
    BY <1>3, DebuggerAssumption
  <2>3. regs' \in [Thread -> Regs]
    BY <1>2, <2>1, <2>2
  <2>4. /\ taskSuspend' \in 0 .. 1 /\ blocked' \in [Thread -> BOOLEAN]
        /\ status' \in {"none", "trap", "signal"}
    BY <1>4, StopTypes DEF Execute, ControlTypes
  <2> QED BY <1>1, <1>4, <2>3, <2>4 DEF Execute, ControlTypes, viewVars, controlVars
<1>5. ASSUME NEW t \in Thread, HitInt3(t) PROVE ControlOK'
  <2>1. regs' \in [Thread -> Regs]
    BY <1>2, <1>3, <1>5, AddressArithmetic DEF HitInt3
  <2>2. /\ taskSuspend' \in 0 .. 1 /\ blocked' \in [Thread -> BOOLEAN]
        /\ status' \in {"none", "trap", "signal"}
    BY <1>5, StopTypes DEF HitInt3
  <2> QED BY <1>1, <1>5, <2>1, <2>2 DEF HitInt3, ControlTypes, viewVars, controlVars
<1>6. ASSUME NEW t \in Thread, ReceiveSignal(t) PROVE ControlOK'
  <2>1. /\ taskSuspend' \in 0 .. 1 /\ blocked' \in [Thread -> BOOLEAN]
        /\ status' \in {"none", "trap", "signal"}
    BY <1>6, StopTypes DEF ReceiveSignal
  <2> QED BY <1>1, <1>6, <2>1 DEF ReceiveSignal, ControlTypes, viewVars, controlVars,
        historyVars
<1>7. ASSUME NEW t \in Thread, ExitThread(t) PROVE ControlOK'
  BY <1>1, <1>7 DEF ExitThread, ControlTypes, viewVars, controlVars, historyVars
<1>8. ASSUME NEW t \in Thread, NEW u \in Thread, SpawnThread(t, u) PROVE ControlOK'
  BY <1>1, <1>8 DEF SpawnThread, ControlTypes, viewVars, controlVars, historyVars
<1>9. ASSUME NEW t \in Thread, ExitProcess(t) PROVE ControlOK'
  BY <1>1, <1>9 DEF ExitProcess, Die, ControlTypes, viewVars, controlVars, historyVars
<1>10. CASE DieOfSignal
  BY <1>1, <1>10 DEF DieOfSignal, Die, ControlTypes, viewVars, controlVars, historyVars
<1> QED BY <1>4, <1>5, <1>6, <1>7, <1>8, <1>9, <1>10 DEF DebuggeeNext

-----------------------------------------------------------------------------
(* The theorems.                                                           *)

LEMMA InitDInv == Init => DInv
<1> SUFFICES ASSUME Init PROVE DInv
  OBVIOUS
<1>1. BP!TypeOK
  BY DebuggerAssumption, SameAddress DEF Init, BP!TypeOK
<1>2. ControlTypes
  <2>1. regs \in [Thread -> Regs]
    BY DebuggerAssumption DEF Init, Regs
  <2>2. state32 \in [Thread -> Regs]
    BY DebuggerAssumption DEF Init
  <2>3. blocked \in [Thread -> BOOLEAN]
    BY Zenon DEF Init
  <2>4. suspend \in [Thread -> 0 .. 1] /\ alive \subseteq Thread
    BY DebuggerAssumption DEF Init
  <2>5. /\ proc = "live" /\ taskSuspend = 1 /\ status = "none" /\ threads = <<>>
        /\ running = TRUE /\ errno = "0" /\ pc = "create" /\ caller = "none"
        /\ cursor = 0 /\ pending = 0 /\ result = "none" /\ requested = {} /\ trapped = {}
    BY DEF Init
  <2> QED BY <2>1, <2>2, <2>3, <2>4, <2>5 DEF ControlTypes
<1>3. CursorOK /\ pending <= Len(breakpoints)
  BY DEF Init, CursorOK
<1>4. TextOK
  BY SameAddress DEF Init, TextOK, BP!PatchIsText, BP!NoOrphanedInt3
<1> QED BY <1>1, <1>2, <1>3, <1>4 DEF DInv

LEMMA NextDInv == DInv /\ [Next]_vars => DInv'
<1> SUFFICES ASSUME DInv, [Next]_vars PROVE DInv'
  OBVIOUS
<1>1. BP!TypeOK' /\ TextOK' /\ Lengths
  BY NextIsMemoryStep, MemoryStepPreserves, LengthsFollow
<1>2. ControlOK
  BY DEF DInv, ControlOK
<1>3. ControlOK'
  <2>1. CASE UNCHANGED vars
    BY <1>2, <2>1 DEF vars, kernelVars, viewVars, controlVars, historyVars, ControlOK,
         ControlTypes, CursorOK
  <2>2. CASE WaitInterrupted
    BY <1>1, <1>2, <2>2 DEF WaitInterrupted, kernelVars, controlVars, historyVars,
         ControlOK, ControlTypes, CursorOK
  <2> QED BY <1>1, <1>2, <2>1, <2>2, ClientKeeps, DebuggerKeeps, DebuggeeKeeps DEF Next
<1> QED BY <1>1, <1>3 DEF DInv, ControlOK

LEMMA Inductive == Spec => []DInv
<1> QED BY InitDInv, NextDInv, PTL DEF Spec

\* Every variable keeps its type; in particular the suspend counts of threads and
\* task never pass 1, whatever sequence of suspends, resumes and traps: what the
\* test of suspend_count in machSuspendThread is for.
THEOREM TypesKept == Spec => []TypeOK
<1>1. DInv => TypeOK
  BY DEF DInv, ControlTypes, TypeOK
<1> QED BY <1>1, Inductive, PTL

\* Through every lift, step, resume, signal and command the text of a live
\* debuggee differs from its image only in int 3 bytes of enabled breakpoints, and
\* every saved byte is the program's own.
THEOREM TextKept == Spec => []MemoryIntact
<1>1. DInv => MemoryIntact
  BY DEF DInv, TextOK, MemoryIntact
<1> QED BY <1>1, Inductive, PTL

\* The list of threads and the indices the commands keep across a wait stay
\* valid: step() and checkForBreakpointsAndStep() clear the trap flag of a thread
\* that is still where they left it, and re-enable a breakpoint that exists.
THEOREM IndicesStayValid == Spec => [](CursorOK /\ pending <= Len(breakpoints))
<1>1. DInv => CursorOK /\ pending <= Len(breakpoints)
  BY DEF DInv
<1> QED BY <1>1, Inductive, PTL

-----------------------------------------------------------------------------
(* When the task is suspended.                                             *)

\* No signal is passed on after an interrupted wait has left EINTR in errno.
ErrnoIsFresh == ~ ({"eintr", "signal"} \subseteq Events)

\* A live debuggee is suspended while the debugger works; a stop not yet reported
\* has suspended it too; and internalWait() comes back with anything but "stopped"
\* only if there is no debuggee left.
SuspendOK ==
  /\ proc = "live" /\ Commanding => taskSuspend = 1
  /\ status # "none"
       => proc = "live" /\ taskSuspend = 1 /\ pc \in {"enterWait", "wait"}
  /\ pc = "return" /\ result # "stopped" => proc # "live"
  /\ errno # "0" => "eintr" \in Events
  /\ status = "signal" => "signal" \in Events

LEMMA ClientSuspends ==
  ASSUME DInv, SuspendOK, ClientNext PROVE SuspendOK'
<1> USE DEF SuspendOK, Commanding
<1>1. CASE CreateProcess \/ InitializeDylinkerHooks \/ Resume
  BY <1>1 DEF CreateProcess, InitializeDylinkerHooks, Resume, kernelVars, viewVars, controlVars
<1>2. CASE KillProcess
  BY <1>2 DEF KillProcess, Die, viewVars, controlVars
<1>3. ASSUME NEW a \in BreakAddress, CreateBreakpoint(a) PROVE SuspendOK'
  BY <1>3 DEF CreateBreakpoint, kernelVars, viewVars, controlVars
<1>4. ASSUME NEW i \in DOMAIN breakpoints, EnableBreakpoint(i) \/ DisableBreakpoint(i)
      PROVE  SuspendOK'
  BY <1>4 DEF EnableBreakpoint, DisableBreakpoint, kernelVars, viewVars, controlVars
<1>5. ASSUME NEW i \in DOMAIN threads, Step(i) PROVE SuspendOK'
  BY <1>5 DEF Step, SingleStep
<1>6. ASSUME NEW i \in DOMAIN threads, StepOver(i) PROVE SuspendOK'
  BY <1>6 DEF StepOver, kernelVars, viewVars
<1> QED BY <1>1, <1>2, <1>3, <1>4, <1>5, <1>6 DEF ClientNext

LEMMA DebuggerSuspends ==
  ASSUME ErrnoIsFresh, DInv, SuspendOK, DebuggerNext PROVE SuspendOK'
<1> USE DEF SuspendOK, Commanding
<1>1. CASE CheckStep \/ CheckNext
  BY <1>1 DEF CheckStep, CheckNext, SingleStep, kernelVars, viewVars
<1>2. CASE ResumeAll \/ StepOverResume
  BY <1>2 DEF ResumeAll, StepOverResume, kernelVars, viewVars
<1>3. CASE EnterWait
  BY <1>3 DEF EnterWait, Return, kernelVars, viewVars
<1>4. CASE WaitTrapped \/ WaitExited \/ WaitSignaled
  BY <1>4 DEF WaitTrapped, WaitExited, WaitSignaled, Return, kernelVars, viewVars
<1>5. CASE WaitSignal
  BY <1>5 DEF WaitSignal, Return, ErrnoIsFresh
<1>6. CASE StepReturns \/ CheckReturns
  BY <1>6 DEF StepReturns, CheckReturns
<1>7. CASE StepOverReturns \/ ResumeReturns
  BY <1>7 DEF StepOverReturns, ResumeReturns, kernelVars, viewVars
<1> QED BY <1>1, <1>2, <1>3, <1>4, <1>5, <1>6, <1>7 DEF DebuggerNext

\* The debuggee runs in internalWait() only, and only while no stop is to be reported.
LEMMA RunsInWait ==
  ASSUME DInv, SuspendOK, NEW t, Runnable(t)
  PROVE  proc = "live" /\ taskSuspend = 0 /\ pc \in {"enterWait", "wait"} /\ status = "none"
<1>1. pc \in {"create", "idle", "check", "stepOver", "enterWait", "wait", "return"}
  BY DEF DInv, ControlTypes
<1> QED BY <1>1 DEF SuspendOK, Commanding, Runnable

LEMMA DebuggeeSuspends ==
  ASSUME DInv, SuspendOK, DebuggeeNext PROVE SuspendOK'
<1> USE DEF SuspendOK, Commanding
<1>1. ASSUME NEW t \in Thread, Execute(t) \/ HitInt3(t) \/ ReceiveSignal(t) PROVE SuspendOK'
  <2>1. proc = "live" /\ taskSuspend = 0 /\ pc \in {"enterWait", "wait"} /\ status = "none"
    BY <1>1, RunsInWait DEF Execute, HitInt3, ReceiveSignal
  <2>2. UNCHANGED <<proc, viewVars, controlVars>>
    BY <1>1 DEF Execute, HitInt3, ReceiveSignal
  <2>3. \/ UNCHANGED <<taskSuspend, status>>
        \/ taskSuspend' = 1 /\ status' = "trap"
        \/ taskSuspend' = 1 /\ status' = "signal" /\ "signal" \in Events
    BY <1>1, <2>1 DEF Execute, HitInt3, ReceiveSignal, Stop
  <2> QED BY <2>1, <2>2, <2>3 DEF viewVars, controlVars
<1>2. ASSUME NEW t \in Thread, ExitThread(t) \/ \E u \in Thread : SpawnThread(t, u) PROVE SuspendOK'
  BY <1>2 DEF ExitThread, SpawnThread, viewVars, controlVars
<1>3. ASSUME NEW t \in Thread, ExitProcess(t) PROVE SuspendOK'
  BY <1>3 DEF ExitProcess, Die, viewVars, controlVars
<1>4. CASE DieOfSignal
  BY <1>4 DEF DieOfSignal, Die, viewVars, controlVars
<1> QED BY <1>1, <1>2, <1>3, <1>4 DEF DebuggeeNext

LEMMA SuspendInductive == ErrnoIsFresh => (Spec => []SuspendOK)
<1> SUFFICES ASSUME ErrnoIsFresh PROVE Spec => []SuspendOK
  OBVIOUS
<1>1. Init => SuspendOK
  BY DEF Init, SuspendOK, Commanding
<1>2. DInv /\ SuspendOK /\ [Next]_vars => SuspendOK'
  <2> SUFFICES ASSUME DInv, SuspendOK, [Next]_vars PROVE SuspendOK'
    OBVIOUS
  <2>1. CASE UNCHANGED vars
    BY <2>1 DEF vars, kernelVars, viewVars, controlVars, SuspendOK, Commanding
  <2>2. CASE WaitInterrupted
    BY <2>2 DEF WaitInterrupted, kernelVars, controlVars, SuspendOK, Commanding
  <2> QED BY <2>1, <2>2, ClientSuspends, DebuggerSuspends, DebuggeeSuspends DEF Next
<1> QED BY <1>1, <1>2, Inductive, PTL DEF Spec

\* When the debugger is about to read registers, write memory or ask the client, no
\* thread of the debuggee can run.
THEOREM DebuggeeStandsStill == ErrnoIsFresh => (Spec => []StoppedWhileCommanding)
<1>1. SuspendOK => StoppedWhileCommanding
  BY DEF SuspendOK, StoppedWhileCommanding, Runnable
<1> QED BY <1>1, SuspendInductive, PTL

-----------------------------------------------------------------------------
(* What the debugger knows of the threads.                                 *)

\* Whenever the debugger works on a live debuggee, its list has every thread, and
\* state32 is what the registers are.
ViewOK ==
  proc = "live" /\ Commanding /\ pc # "create" =>
    /\ alive \subseteq Known
    /\ UpdatesState32 => \A t \in alive : state32[t] = regs[t]

\* gatherThreads adds all live threads to the list and moves none.
LEMMA GatherKnows ==
  ASSUME ControlTypes, GatherThreads
  PROVE  /\ Known' = Known \union alive
         /\ \A i \in DOMAIN threads : i \in DOMAIN threads' /\ threads'[i] = threads[i]
<1> DEFINE new == alive \ Known
           n == Cardinality(new)
<1>1. IsFiniteSet(new) /\ n \in Nat
  <2>1. new \in SUBSET Thread
    BY DEF ControlTypes
  <2> QED BY <2>1, DebuggerAssumption, FS_Subset, FS_CardinalityType
<1>2. PICK order \in [1 .. n -> new] :
        /\ \A i, j \in DOMAIN order : order[i] = order[j] => i = j
        /\ threads' = threads \o order
  BY DEF GatherThreads
<1>3. order \in Injection(1 .. n, new)
  BY <1>2 DEF Injection, IsInjective
<1>4. Cardinality(1 .. n) = n
  BY <1>1, FS_Interval
<1>5. order \in Surjection(1 .. n, new)
  BY <1>1, <1>3, <1>4, FS_Injection
<1>6. \A t \in new : \E i \in 1 .. n : order[i] = t
  BY <1>5 DEF Surjection
<1> HIDE DEF new
<1>7. threads \in Seq(Thread) /\ order \in Seq(new)
  <2>1. ASSUME NEW m \in Nat, NEW S, NEW f \in [1 .. m -> S] PROVE f \in Seq(S)
    OBVIOUS
  <2> QED BY <1>1, <2>1 DEF ControlTypes
<1>8. /\ Len(threads) \in Nat /\ Len(order) = n
      /\ DOMAIN threads = 1 .. Len(threads) /\ DOMAIN order = 1 .. n
  BY <1>1, <1>7
<1>9. /\ DOMAIN threads' = 1 .. (Len(threads) + n)
      /\ \A i \in 1 .. (Len(threads) + n) :
           threads'[i] = IF i <= Len(threads) THEN threads[i] ELSE order[i - Len(threads)]
  BY <1>1, <1>2, <1>7, <1>8
<1>10. \A i \in DOMAIN threads : i \in DOMAIN threads' /\ threads'[i] = threads[i]
  BY <1>1, <1>8, <1>9
<1>11. ASSUME NEW t \in Known' PROVE t \in Known \union alive
  <2>1. PICK i \in DOMAIN threads' : threads'[i] = t
    BY DEF Known
  <2>2. CASE i <= Len(threads)
    BY <1>8, <1>9, <2>1, <2>2 DEF Known
  <2>3. CASE ~ i <= Len(threads)
    <3>1. i - Len(threads) \in 1 .. n /\ t = order[i - Len(threads)]
      BY <1>1, <1>8, <1>9, <2>1, <2>3
    <3> QED BY <3>1 DEF new
  <2> QED BY <2>2, <2>3
<1>12. ASSUME NEW t \in Known PROVE t \in Known'
  BY <1>10 DEF Known
<1>13. ASSUME NEW t \in new PROVE t \in Known'
  <2>1. PICK i \in 1 .. n : order[i] = t
    BY <1>6
  <2>2. Len(threads) + i \in DOMAIN threads' /\ threads'[Len(threads) + i] = t
    BY <1>1, <1>8, <1>9, <2>1
  <2> QED BY <2>2 DEF Known
<1> QED BY <1>10, <1>11, <1>12, <1>13 DEF new

LEMMA GatherRefreshes ==
  ASSUME ControlTypes, GatherThreads, UpdatesState32
  PROVE  \A t \in alive : state32'[t] = regs[t]
<1> QED BY DEF ControlTypes, GatherThreads

\* A commit of the copies of some threads leaves registers and copies equal.
LEMMA CommitKeepsView ==
  ASSUME ControlTypes, UpdatesState32, NEW ts, NEW view, view \in [Thread -> Regs],
         CommitThreads(ts, view), \A t \in Thread \ ts : view[t] = state32[t],
         \A t \in alive : state32[t] = regs[t]
  PROVE  \A t \in alive : view[t] = regs'[t]
<1> QED BY DEF ControlTypes, CommitThreads, UpdatesState32

LEMMA TrapFlagKeepsView ==
  ASSUME ControlTypes, UpdatesState32, NEW u \in Thread, NEW enable \in BOOLEAN,
         SetTrapFlag(u, enable), \A t \in alive : state32[t] = regs[t]
  PROVE  \A t \in alive : state32'[t] = regs'[t]
<1>1. state32' \in [Thread -> Regs]
  BY TrapFlagTypes
<1>2. \A t \in Thread \ {u} : state32'[t] = state32[t]
  BY DEF SetTrapFlag, ControlTypes
<1>3. CommitThreads({u}, state32')
  BY DEF SetTrapFlag
<1> DEFINE ts == {u}
<1>4. CommitThreads(ts, state32') /\ \A t \in Thread \ ts : state32'[t] = state32[t]
  BY <1>2, <1>3
<1> HIDE DEF ts
<1> QED BY <1>1, <1>4, CommitKeepsView

LEMMA ClientKeepsView ==
  ASSUME DInv, ViewOK, ClientNext PROVE ViewOK'
<1> USE DEF ViewOK
<1>1. CASE CreateProcess
  <2>1. ControlTypes /\ GatherThreads /\ UNCHANGED <<alive, regs>>
    BY <1>1 DEF DInv, CreateProcess, kernelVars
  <2> QED BY <2>1, GatherKnows, GatherRefreshes DEF UpdatesState32
<1>2. ASSUME UNCHANGED <<kernelVars, viewVars>>, pc = "idle", pc' \in {"idle", "check", "stepOver"}
      PROVE  ViewOK'
  BY <1>2 DEF kernelVars, viewVars, Commanding, Known, UpdatesState32
<1>3. CASE InitializeDylinkerHooks \/ Resume
  BY <1>2, <1>3 DEF InitializeDylinkerHooks, Resume, controlVars
<1>4. CASE KillProcess
  BY <1>4 DEF KillProcess, Die
<1>5. ASSUME NEW a \in BreakAddress, CreateBreakpoint(a) PROVE ViewOK'
  BY <1>2, <1>5 DEF CreateBreakpoint, controlVars
<1>6. ASSUME NEW i \in DOMAIN breakpoints, EnableBreakpoint(i) \/ DisableBreakpoint(i)
      PROVE  ViewOK'
  BY <1>2, <1>6 DEF EnableBreakpoint, DisableBreakpoint, controlVars
<1>7. ASSUME NEW i \in DOMAIN threads, Step(i) PROVE ViewOK'
  BY <1>7 DEF Step, SingleStep, Commanding
<1>8. ASSUME NEW i \in DOMAIN threads, StepOver(i) PROVE ViewOK'
  BY <1>2, <1>8 DEF StepOver
<1> QED BY <1>1, <1>3, <1>4, <1>5, <1>6, <1>7, <1>8 DEF ClientNext

LEMMA DebuggerKeepsView ==
  ASSUME DInv, SuspendOK, ViewOK, DebuggerNext PROVE ViewOK'
<1> USE DEF ViewOK
<1>1. CASE CheckStep \/ ResumeAll \/ StepOverResume
  BY <1>1 DEF CheckStep, ResumeAll, StepOverResume, SingleStep, Commanding
<1>2. CASE CheckNext
  BY <1>2 DEF CheckNext, kernelVars, viewVars, Commanding, Known, UpdatesState32
<1>3. CASE EnterWait \/ WaitSignal \/ WaitExited \/ WaitSignaled
  BY <1>3 DEF EnterWait, WaitSignal, WaitExited, WaitSignaled, Return, Commanding
<1>4. CASE WaitTrapped
  <2>1. ControlTypes /\ GatherThreads /\ UNCHANGED <<alive, regs>>
    BY <1>4 DEF DInv, WaitTrapped
  <2> QED BY <2>1, GatherKnows, GatherRefreshes DEF UpdatesState32
<1>6. ASSUME pc = "return", proc' = "live", UNCHANGED <<proc, alive, threads>>,
             UpdatesState32 /\ (\A t \in alive : state32[t] = regs[t])
               => \A t \in alive : state32'[t] = regs'[t]
      PROVE  ViewOK'
  <2>1. Commanding /\ pc # "create"
    BY <1>6 DEF SuspendOK, Commanding
  <2> QED BY <1>6, <2>1 DEF Known, UpdatesState32
<1>7. CASE StepReturns \/ CheckReturns
  <2>1. ControlTypes /\ cursor \in DOMAIN threads
    BY <1>7 DEF DInv, CursorOK, StepReturns, CheckReturns
  <2>2. threads[cursor] \in Thread
    BY <2>1 DEF ControlTypes
  <2>3. ClearTrapFlagIfStopped
    BY <1>7 DEF StepReturns, CheckReturns
  <2>4. UpdatesState32 /\ (\A t \in alive : state32[t] = regs[t])
               => \A t \in alive : state32'[t] = regs'[t]
    <3>1. CASE result = "stopped"
      BY <2>1, <2>2, <2>3, <3>1, TrapFlagKeepsView DEF ClearTrapFlagIfStopped
    <3>2. CASE result # "stopped"
      BY <2>3, <3>2 DEF ClearTrapFlagIfStopped
    <3> QED BY <3>1, <3>2
  <2> QED BY <1>6, <1>7, <2>4 DEF StepReturns, CheckReturns
<1>8. CASE StepOverReturns
  BY <1>6, <1>8 DEF StepOverReturns, kernelVars, viewVars
<1>9. CASE ResumeReturns
  <2>1. ControlTypes /\ state32' \in [Thread -> Regs]
    BY <1>9, StepBackTypes DEF DInv
  <2> DEFINE hit == {t \in Known : BP!StopsAt(Before(state32[t].eip))}
  <2>2. CASE result = "stopped"
    <3>1. CommitThreads(hit, state32') /\ \A t \in Thread \ hit : state32'[t] = state32[t]
      BY <1>9, <2>2 DEF ResumeReturns
    <3> HIDE DEF hit
    <3>2. UpdatesState32 /\ (\A t \in alive : state32[t] = regs[t])
               => \A t \in alive : state32'[t] = regs'[t]
      BY <2>1, <3>1, CommitKeepsView
    <3> QED BY <1>6, <1>9, <3>2 DEF ResumeReturns
  <2>3. CASE result # "stopped"
    BY <1>6, <1>9, <2>3 DEF ResumeReturns
  <2> QED BY <2>2, <2>3
<1> QED BY <1>1, <1>2, <1>3, <1>4, <1>7, <1>8, <1>9 DEF DebuggerNext

LEMMA DebuggeeKeepsView ==
  ASSUME DInv, SuspendOK, DebuggeeNext PROVE ViewOK'
<1>1. ASSUME NEW t, Runnable(t), UNCHANGED controlVars PROVE ViewOK'
  BY <1>1, RunsInWait DEF ViewOK, Commanding, controlVars
<1>2. ASSUME NEW t \in Thread, Execute(t) \/ HitInt3(t) \/ ReceiveSignal(t) PROVE ViewOK'
  BY <1>1, <1>2 DEF Execute, HitInt3, ReceiveSignal
<1>3. ASSUME NEW t \in Thread, ExitThread(t) \/ ExitProcess(t) PROVE ViewOK'
  BY <1>1, <1>3 DEF ExitThread, ExitProcess
<1>4. ASSUME NEW t \in Thread, NEW u \in Thread, SpawnThread(t, u) PROVE ViewOK'
  BY <1>1, <1>4 DEF SpawnThread
<1>5. CASE DieOfSignal
  BY <1>5 DEF DieOfSignal, Die, ViewOK
<1> QED BY <1>2, <1>3, <1>4, <1>5 DEF DebuggeeNext

LEMMA ViewInductive == ErrnoIsFresh => (Spec => []ViewOK)
<1> SUFFICES ASSUME ErrnoIsFresh PROVE Spec => []ViewOK
  OBVIOUS
<1>1. Init => ViewOK
  BY DEF Init, ViewOK
<1>2. DInv /\ SuspendOK /\ ViewOK /\ [Next]_vars => ViewOK'
  <2> SUFFICES ASSUME DInv, SuspendOK, ViewOK, [Next]_vars PROVE ViewOK'
    OBVIOUS
  <2>1. CASE UNCHANGED vars
    BY <2>1 DEF vars, kernelVars, viewVars, controlVars, ViewOK, Commanding, Known, UpdatesState32
  <2>2. CASE WaitInterrupted
    BY <2>2 DEF WaitInterrupted, controlVars, ViewOK, Commanding
  <2> QED BY <2>1, <2>2, ClientKeepsView, DebuggerKeepsView, DebuggeeKeepsView DEF Next
<1> QED BY <1>1, <1>2, Inductive, SuspendInductive, PTL DEF Spec

ThreadsListed == pc = "idle" /\ proc = "live" => alive \subseteq Known

\* gatherThreads(): whenever the client is asked it sees every thread, whatever the widths
\* of debugger and debuggee, as shipped too.
THEOREM ThreadsAreListed == ErrnoIsFresh => (Spec => []ThreadsListed)
<1>1. ViewOK => ThreadsListed
  BY DEF ViewOK, ThreadsListed, Commanding
<1> QED BY <1>1, ViewInductive, PTL

\* machUpdateThread() on the 32-bit branch: the client sees every thread of a 32-bit
\* debuggee, and its registers as they are, if machIs64Bit() says that it is one.  The
\* machIs64Bit() of this commit says that of none: it does not meet the hypothesis.
THEOREM ViewIsFresh ==
  ~ Is64Bit /\ ~ Debuggee64 /\ ErrnoIsFresh => (Spec => []ViewFresh)
<1> SUFFICES ASSUME ~ Is64Bit, ~ Debuggee64, ErrnoIsFresh PROVE Spec => []ViewFresh
  OBVIOUS
<1>1. ViewOK => ViewFresh
  BY DEF ViewOK, ViewFresh, Commanding, UpdatesState32
<1>2. Spec => []ViewOK
  BY ViewInductive
<1> QED BY <1>1, <1>2, PTL

-----------------------------------------------------------------------------
(* The trap flag.                                                          *)

\* The thread that is being single-stepped.
Stepped ==
  IF pc \in {"enterWait", "wait", "return"} /\ caller \in {"check", "step"}
    THEN {threads[cursor]} ELSE {}

\* The flags that may reach the registers of a 32-bit debuggee are flags it had, or
\* flags of an allocation that happens to have none.
FlagsTraceable == ~ Debuggee64 /\ (Is64Bit => \A g \in Garbage : ~ g.tf)

\* The copies that can be committed: those fetched, or the uninitialised ones.
Copied == IF Is64Bit THEN Thread ELSE alive \intersect Known

\* No thread but the stepped one has the trap flag set: not in its registers,
\* known to the debugger or not, and not in the copy that may be committed.
FlagOK ==
  /\ Debuggee64 => \A t \in Thread : ~ regs[t].tf
  /\ proc = "live" /\ FlagsTraceable =>
       /\ \A t \in (alive \union (Thread \ Known)) \ Stepped : ~ regs[t].tf
       /\ \A t \in Copied \ Stepped : ~ state32[t].tf

\* What enableSingleStep changes.
LEMMA TrapFlagIs ==
  ASSUME ControlTypes, NEW u \in Thread, NEW enable \in BOOLEAN, SetTrapFlag(u, enable)
  PROVE  /\ \A t \in Thread \ {u} : regs'[t] = regs[t] /\ state32'[t] = state32[t]
         /\ state32'[u].tf = enable /\ state32'[u].eip = state32[u].eip
         /\ regs'[u] = IF u \in alive /\ ~ Debuggee64 THEN state32'[u] ELSE regs[u]
<1>1. state32 \in [Thread -> Regs] /\ state32[u] \in Regs
  BY DEF ControlTypes
<1>2. state32' = [state32 EXCEPT ![u] = [state32[u] EXCEPT !.tf = enable]]
  BY DEF SetTrapFlag
<1>3. /\ \A t \in Thread \ {u} : state32'[t] = state32[t]
      /\ state32'[u] = [state32[u] EXCEPT !.tf = enable]
  BY <1>1, <1>2
<1>4. state32'[u].tf = enable /\ state32'[u].eip = state32[u].eip
  BY <1>1, <1>3 DEF Regs
<1>5. \A t \in Thread :
        regs'[t] = IF t \in {u} \intersect alive /\ ~ Debuggee64 THEN state32'[t] ELSE regs[t]
  BY DEF SetTrapFlag, CommitThreads
<1> QED BY <1>3, <1>4, <1>5

LEMMA CommitIsRefused ==
  ASSUME Debuggee64, NEW ts, NEW view, CommitThreads(ts, view)
  PROVE  \A t \in Thread : regs'[t] = regs[t]
<1> QED BY DEF CommitThreads

\* Steps that touch no register.
LEMMA FlagsUntouched ==
  ASSUME FlagOK, UNCHANGED <<proc, alive, regs, state32, threads>>, Stepped \subseteq Stepped'
  PROVE  FlagOK'
<1> QED BY DEF FlagOK, Known, Copied

LEMMA FlagsGathered ==
  ASSUME DInv, FlagOK, GatherThreads, UNCHANGED <<proc, alive, regs, caller, cursor>>,
         \/ pc = "create" /\ pc' = "idle"
         \/ pc = "wait" /\ pc' \in {"wait", "return"}
  PROVE  FlagOK'
<1>1. ControlTypes
  BY DEF DInv
<1>2. Known' = Known \union alive
  BY <1>1, GatherKnows
<1>3. Stepped' = Stepped
  <2>1. CASE pc = "create"
    BY <2>1 DEF Stepped
  <2>2. CASE pc = "wait" /\ caller \in {"check", "step"}
    <3>1. threads'[cursor] = threads[cursor]
      BY <1>1, <2>2, GatherKnows DEF DInv, CursorOK
    <3> QED BY <2>2, <3>1 DEF Stepped
  <2>3. CASE pc = "wait" /\ ~ caller \in {"check", "step"}
    BY <2>3 DEF Stepped
  <2> QED BY <2>1, <2>2, <2>3
<1>4. ~ Is64Bit /\ ~ Debuggee64 => \A t \in alive : state32'[t] = regs[t]
  BY <1>1, GatherRefreshes DEF UpdatesState32
<1>5. Is64Bit => \A t \in Thread : state32'[t] = state32[t]
  BY DEF GatherThreads, UpdatesState32
<1> QED BY <1>2, <1>3, <1>4, <1>5 DEF FlagOK, FlagsTraceable, Copied

LEMMA FlagsStep ==
  ASSUME DInv, FlagOK, pc \in {"idle", "check"}, cursor' \in DOMAIN threads,
         NEW from \in {"check", "step"}, SingleStep(from)
  PROVE  FlagOK'
<1>1. ControlTypes /\ threads[cursor'] \in Thread
  BY DEF DInv, ControlTypes
<1>2. SetTrapFlag(threads[cursor'], TRUE) /\ UNCHANGED <<proc, alive, threads>>
  BY DEF SingleStep
<1>3. \A t \in Thread \ {threads[cursor']} : regs'[t] = regs[t] /\ state32'[t] = state32[t]
  BY <1>1, <1>2, TrapFlagIs
<1>4. Stepped = {} /\ Stepped' = {threads[cursor']}
  BY <1>2 DEF Stepped, SingleStep
<1>5. Debuggee64 => \A t \in Thread : regs'[t] = regs[t]
  BY <1>2, CommitIsRefused DEF SetTrapFlag
<1>6. UNCHANGED Known /\ alive \subseteq Thread
  BY <1>1, <1>2 DEF Known, ControlTypes
<1> QED BY <1>2, <1>3, <1>4, <1>5, <1>6 DEF FlagOK, FlagsTraceable, Copied

LEMMA FlagsCleared ==
  ASSUME DInv, SuspendOK, FlagOK, pc = "return", caller \in {"check", "step"},
         ClearTrapFlagIfStopped, UNCHANGED <<proc, alive, threads>>, pc' \in {"idle", "check"}
  PROVE  FlagOK'
<1>1. ControlTypes /\ cursor \in DOMAIN threads
  BY DEF DInv, CursorOK
<1>2. threads[cursor] \in Thread /\ threads[cursor] \in Known /\ alive \subseteq Thread
  BY <1>1 DEF ControlTypes, Known
<1>3. Stepped = {threads[cursor]} /\ Stepped' = {} /\ UNCHANGED Known
  BY DEF Stepped, Known
<1>4. CASE result = "stopped"
  <2>1. SetTrapFlag(threads[cursor], FALSE)
    BY <1>4 DEF ClearTrapFlagIfStopped
  <2>2. Debuggee64 => \A t \in Thread : regs'[t] = regs[t]
    BY <2>1, CommitIsRefused DEF SetTrapFlag
  <2>3. \A t \in Thread \ {threads[cursor]} : regs'[t] = regs[t] /\ state32'[t] = state32[t]
    BY <1>1, <1>2, <2>1, TrapFlagIs
  <2>4. /\ ~ state32'[threads[cursor]].tf
        /\ threads[cursor] \in alive /\ ~ Debuggee64 => ~ regs'[threads[cursor]].tf
    BY <1>1, <1>2, <2>1, TrapFlagIs
  <2> QED BY <1>2, <1>3, <2>2, <2>3, <2>4 DEF FlagOK, FlagsTraceable, Copied
<1>5. CASE result # "stopped"
  BY <1>5 DEF SuspendOK, ClearTrapFlagIfStopped, FlagOK
<1> QED BY <1>4, <1>5

LEMMA ClientKeepsFlags ==
  ASSUME DInv, FlagOK, ClientNext PROVE FlagOK'
<1>1. CASE CreateProcess
  BY <1>1, FlagsGathered DEF CreateProcess, kernelVars
<1>2. ASSUME pc = "idle", UNCHANGED <<kernelVars, viewVars>> PROVE FlagOK'
  <2>1. Stepped = {}
    BY <1>2 DEF Stepped
  <2> QED BY <1>2, <2>1, FlagsUntouched DEF kernelVars, viewVars
<1>3. CASE InitializeDylinkerHooks \/ Resume
  BY <1>2, <1>3 DEF InitializeDylinkerHooks, Resume
<1>4. CASE KillProcess
  BY <1>4 DEF KillProcess, Die, FlagOK
<1>5. ASSUME NEW a \in BreakAddress, CreateBreakpoint(a) PROVE FlagOK'
  BY <1>2, <1>5 DEF CreateBreakpoint
<1>6. ASSUME NEW i \in DOMAIN breakpoints, EnableBreakpoint(i) \/ DisableBreakpoint(i)
      PROVE  FlagOK'
  BY <1>2, <1>6 DEF EnableBreakpoint, DisableBreakpoint
<1>7. ASSUME NEW i \in DOMAIN threads, Step(i) PROVE FlagOK'
  BY <1>7, FlagsStep DEF Step
<1>8. ASSUME NEW i \in DOMAIN threads, StepOver(i) PROVE FlagOK'
  BY <1>2, <1>8 DEF StepOver
<1> QED BY <1>1, <1>3, <1>4, <1>5, <1>6, <1>7, <1>8 DEF ClientNext

LEMMA StepBackKeepsFlags ==
  ASSUME DInv, FlagOK, ResumeReturns PROVE FlagOK'
<1> DEFINE hit == {t \in Known : BP!StopsAt(Before(state32[t].eip))}
<1>1. ControlTypes
  BY DEF DInv
<1>2. Stepped = {} /\ Stepped' = {} /\ UNCHANGED <<proc, alive, Known>>
  BY DEF ResumeReturns, Stepped, Known
<1>3. CASE result = "stopped"
  <2>1. /\ CommitThreads(hit, state32')
        /\ \A t \in Thread : state32'[t] = IF t \in hit
              THEN [state32[t] EXCEPT !.eip = Before(@)] ELSE state32[t]
    BY <1>3 DEF ResumeReturns
  <2>2. hit \subseteq Known
    OBVIOUS
  <2> HIDE DEF hit
  <2>3. \A t \in Thread : state32'[t].tf = state32[t].tf
    BY <1>1, <2>1 DEF ControlTypes, Regs
  <2>4. \A t \in Thread :
          regs'[t] = IF t \in hit \intersect alive /\ ~ Debuggee64 THEN state32'[t] ELSE regs[t]
    BY <2>1 DEF CommitThreads
  <2>5. alive \subseteq Thread
    BY <1>1 DEF ControlTypes
  <2> QED BY <1>2, <2>2, <2>3, <2>4, <2>5 DEF FlagOK, FlagsTraceable, Copied
<1>4. CASE result # "stopped"
  BY <1>2, <1>4, FlagsUntouched DEF ResumeReturns
<1> QED BY <1>3, <1>4

LEMMA DebuggerKeepsFlags ==
  ASSUME DInv, SuspendOK, FlagOK, DebuggerNext PROVE FlagOK'
<1>1. CASE CheckStep
  BY <1>1, FlagsStep DEF CheckStep
<1>2. CASE CheckNext \/ ResumeAll \/ StepOverResume \/ StepOverReturns
  <2>1. Stepped = {} /\ UNCHANGED <<proc, alive, regs, state32, threads>>
    BY <1>2 DEF CheckNext, ResumeAll, StepOverResume, StepOverReturns, Stepped, kernelVars, viewVars
  <2> QED BY <2>1, FlagsUntouched
<1>3. CASE EnterWait \/ WaitExited
  <2>1. UNCHANGED <<proc, alive, regs, state32, threads>>
    BY <1>3 DEF EnterWait, WaitExited, kernelVars, viewVars
  <2>2. Stepped' = Stepped
    BY <1>3 DEF EnterWait, WaitExited, Return, Stepped, viewVars
  <2> QED BY <2>1, <2>2, FlagsUntouched
<1>4. CASE WaitTrapped \/ WaitSignal \/ WaitSignaled
  BY <1>4, FlagsGathered DEF WaitTrapped, WaitSignal, WaitSignaled, Return, kernelVars
<1>5. CASE StepReturns \/ CheckReturns
  BY <1>5, FlagsCleared DEF StepReturns, CheckReturns
<1> QED BY <1>1, <1>2, <1>3, <1>4, <1>5, StepBackKeepsFlags DEF DebuggerNext

LEMMA DebuggeeKeepsFlags ==
  ASSUME DInv, FlagOK, DebuggeeNext PROVE FlagOK'
<1>1. ASSUME UNCHANGED controlVars, UNCHANGED viewVars
      PROVE  UNCHANGED <<Known, Stepped, state32>>
  BY <1>1 DEF controlVars, viewVars, Known, Stepped
<1>2. ASSUME NEW t \in Thread, NEW a, regs' = [regs EXCEPT ![t].eip = a]
      PROVE  \A u \in Thread : regs'[u].tf = regs[u].tf
  <2>1. regs \in [Thread -> Regs] /\ regs[t] \in Regs
    BY DEF DInv, ControlTypes
  <2>2. regs' = [regs EXCEPT ![t] = [regs[t] EXCEPT !.eip = a]]
    BY <1>2
  <2>3. [regs[t] EXCEPT !.eip = a].tf = regs[t].tf
    BY <2>1 DEF Regs
  <2> QED BY <2>1, <2>2, <2>3
<1>3. ASSUME NEW t \in Thread, Execute(t) \/ HitInt3(t) PROVE FlagOK'
  <2>1. PICK a : regs' = [regs EXCEPT ![t].eip = a]
    BY <1>3 DEF Execute, HitInt3
  <2>2. \A u \in Thread : regs'[u].tf = regs[u].tf
    BY <1>2, <2>1
  <2>3. UNCHANGED <<proc, alive, Known, Stepped, state32>> /\ alive \subseteq Thread
    BY <1>1, <1>3 DEF Execute, HitInt3, DInv, ControlTypes
  <2> QED BY <2>2, <2>3 DEF FlagOK, FlagsTraceable, Copied
<1>4. ASSUME NEW t \in Thread, ReceiveSignal(t) \/ ExitThread(t) PROVE FlagOK'
  <2>1. UNCHANGED <<proc, regs, Known, Stepped, state32>> /\ alive' \subseteq alive
    BY <1>1, <1>4 DEF ReceiveSignal, ExitThread
  <2> QED BY <2>1 DEF FlagOK, FlagsTraceable, Copied
<1>5. ASSUME NEW t \in Thread, NEW u \in Thread, SpawnThread(t, u) PROVE FlagOK'
  <2>1. /\ UNCHANGED <<proc, regs, Known, Stepped, state32>>
        /\ alive' = alive \union {u} /\ u \in Thread \ Known
    BY <1>1, <1>5 DEF SpawnThread
  <2> QED BY <2>1 DEF FlagOK, FlagsTraceable, Copied
<1>6. ASSUME NEW t \in Thread, ExitProcess(t) PROVE FlagOK'
  BY <1>6 DEF ExitProcess, Die, FlagOK
<1>7. CASE DieOfSignal
  BY <1>7 DEF DieOfSignal, Die, FlagOK
<1> QED BY <1>3, <1>4, <1>5, <1>6, <1>7 DEF DebuggeeNext

LEMMA FlagInductive == ErrnoIsFresh => (Spec => []FlagOK)
<1> SUFFICES ASSUME ErrnoIsFresh PROVE Spec => []FlagOK
  OBVIOUS
<1>1. Init => FlagOK
  <2> SUFFICES ASSUME Init PROVE FlagOK
    OBVIOUS
  <2>1. \A t \in Thread : ~ regs[t].tf
    BY DEF Init
  <2>2. Known = {} /\ alive \subseteq Thread
    BY DebuggerAssumption DEF Init, Known
  <2>3. FlagsTraceable => \A t \in Copied : ~ state32[t].tf
    BY <2>2 DEF Init, FlagsTraceable, Copied
  <2> QED BY <2>1, <2>2, <2>3 DEF FlagOK
<1>2. DInv /\ SuspendOK /\ FlagOK /\ [Next]_vars => FlagOK'
  <2> SUFFICES ASSUME DInv, SuspendOK, FlagOK, [Next]_vars PROVE FlagOK'
    OBVIOUS
  <2>1. CASE UNCHANGED vars \/ WaitInterrupted
    <3>1. UNCHANGED <<proc, alive, regs, state32, threads, Stepped>>
      BY <2>1 DEF vars, WaitInterrupted, kernelVars, viewVars, controlVars, Stepped
    <3> QED BY <3>1, FlagsUntouched
  <2> QED BY <2>1, ClientKeepsFlags, DebuggerKeepsFlags, DebuggeeKeepsFlags DEF Next
<1> QED BY <1>1, <1>2, Inductive, SuspendInductive, PTL DEF Spec

\* No trap flag is left behind by a single step, whatever the width of the debuggee and
\* the width the debugger takes it to have, unless the uninitialised copies that are then
\* written to 32-bit registers hold such a flag.
THEOREM NoTrapFlagLeft ==
  ErrnoIsFresh /\ (Debuggee64 \/ FlagsTraceable) => (Spec => []TrapFlagClean)
<1> SUFFICES ASSUME ErrnoIsFresh, Debuggee64 \/ FlagsTraceable PROVE Spec => []TrapFlagClean
  OBVIOUS
<1>1. DInv /\ FlagOK => TrapFlagClean
  <2> SUFFICES ASSUME DInv, FlagOK, pc = "idle", proc = "live", NEW t \in alive
               PROVE  ~ regs[t].tf
    BY DEF TrapFlagClean
  <2>1. t \in Thread /\ Stepped = {}
    BY DEF DInv, ControlTypes, Stepped
  <2> QED BY <2>1 DEF FlagOK
<1> QED BY <1>1, FlagInductive, Inductive, PTL

-----------------------------------------------------------------------------
(* The breakpoints the client wants.                                       *)

\* The breakpoint at index `pending' is lifted for the command under way.
Lifted ==
  \/ pc = "stepOver"
  \/ pc \in {"enterWait", "wait", "return"} /\ caller \in {"check", "step", "stepOver"}

\* What the client has enabled is enabled, but for the one that is lifted.
KeptOK ==
  proc = "live" =>
    \A i \in requested :
      i \in DOMAIN breakpoints /\ (breakpoints[i].enabled \/ (Lifted /\ i = pending))

\* The fields that arming and disarming change.
LEMMA ArmedRecord ==
  ASSUME NEW b, b \in BP!Breakpoint \/ \E a, u : b = BP!NewBreakpoint(a, u)
  PROVE  BP!Armed(b).enabled /\ BP!Armed(b).address = b.address
<1>1. BP!ReadReturn(b.address) # 0 /\ BP!WriteReturn # 0
  BY DEF BP!ReadReturn, BP!WriteReturn
<1>2. BP!Armed(b) = [b EXCEPT !.patch = BP!ReadByte(b.address, b.patch), !.enabled = TRUE]
  BY <1>1 DEF BP!Armed
<1> QED BY <1>2 DEF BP!Breakpoint, BP!NewBreakpoint

LEMMA DisarmedRecord ==
  ASSUME NEW b \in BP!Breakpoint
  PROVE  ~ BP!Disarmed(b).enabled /\ BP!Disarmed(b).address = b.address
<1>1. (BP!WriteReturn = 0) = FALSE
  BY DEF BP!WriteReturn
<1>2. BP!Disarmed(b) = [b EXCEPT !.enabled = FALSE]
  BY <1>1 DEF BP!Disarmed
<1> QED BY <1>2 DEF BP!Breakpoint

\* What the operations on breakpoints change in the list.
LEMMA EnableIs ==
  ASSUME BP!TypeOK, NEW i \in DOMAIN breakpoints, BP!EnableBreakpoint(i)
  PROVE  /\ DOMAIN breakpoints' = DOMAIN breakpoints
         /\ breakpoints'[i].enabled
         /\ \A j \in DOMAIN breakpoints \ {i} : breakpoints'[j] = breakpoints[j]
         /\ \A j \in DOMAIN breakpoints : breakpoints'[j].address = breakpoints[j].address
<1>1. breakpoints \in Seq(BP!Breakpoint) /\ breakpoints[i] \in BP!Breakpoint
  BY DEF BP!TypeOK
<1>2. CASE breakpoints[i].enabled
  BY <1>2 DEF BP!EnableBreakpoint
<1>3. CASE ~ breakpoints[i].enabled
  <2>1. breakpoints' = [breakpoints EXCEPT ![i] = BP!Armed(breakpoints[i])]
    BY <1>3 DEF BP!EnableBreakpoint
  <2>2. BP!Armed(breakpoints[i]).enabled /\ BP!Armed(breakpoints[i]).address = breakpoints[i].address
    BY <1>1, ArmedRecord
  <2>3. /\ DOMAIN breakpoints' = DOMAIN breakpoints
        /\ breakpoints'[i] = BP!Armed(breakpoints[i])
        /\ \A j \in DOMAIN breakpoints \ {i} : breakpoints'[j] = breakpoints[j]
    BY <1>1, <2>1
  <2> QED BY <2>2, <2>3
<1> QED BY <1>2, <1>3

LEMMA DisableIs ==
  ASSUME BP!TypeOK, NEW i \in DOMAIN breakpoints, BP!DisableBreakpoint(i)
  PROVE  /\ DOMAIN breakpoints' = DOMAIN breakpoints
         /\ ~ breakpoints'[i].enabled
         /\ \A j \in DOMAIN breakpoints \ {i} : breakpoints'[j] = breakpoints[j]
         /\ \A j \in DOMAIN breakpoints : breakpoints'[j].address = breakpoints[j].address
<1>1. breakpoints \in Seq(BP!Breakpoint) /\ breakpoints[i] \in BP!Breakpoint
  BY DEF BP!TypeOK
<1>2. CASE ~ breakpoints[i].enabled
  BY <1>2 DEF BP!DisableBreakpoint
<1>3. CASE breakpoints[i].enabled
  <2>1. breakpoints' = [breakpoints EXCEPT ![i] = BP!Disarmed(breakpoints[i])]
    BY <1>3 DEF BP!DisableBreakpoint
  <2>2. ~ BP!Disarmed(breakpoints[i]).enabled /\ BP!Disarmed(breakpoints[i]).address = breakpoints[i].address
    BY <1>1, DisarmedRecord
  <2>3. /\ DOMAIN breakpoints' = DOMAIN breakpoints
        /\ breakpoints'[i] = BP!Disarmed(breakpoints[i])
        /\ \A j \in DOMAIN breakpoints \ {i} : breakpoints'[j] = breakpoints[j]
    BY <1>1, <2>1
  <2> QED BY <2>2, <2>3
<1> QED BY <1>2, <1>3

LEMMA CreateIs ==
  ASSUME BP!TypeOK, NEW a, BP!CreateBreakpoint(a) \/ BP!CreateEnabledBreakpoint(a)
  PROVE  /\ DOMAIN breakpoints' = DOMAIN breakpoints \union {Len(breakpoints) + 1}
         /\ Len(breakpoints) + 1 \notin DOMAIN breakpoints
         /\ \A j \in DOMAIN breakpoints : breakpoints'[j] = breakpoints[j]
         /\ breakpoints'[Len(breakpoints) + 1].address = a
         /\ BP!CreateEnabledBreakpoint(a) => breakpoints'[Len(breakpoints) + 1].enabled
<1>1. breakpoints \in Seq(BP!Breakpoint)
  BY DEF BP!TypeOK
<1>2. ASSUME NEW b, breakpoints' = Append(breakpoints, b)
      PROVE  /\ DOMAIN breakpoints' = DOMAIN breakpoints \union {Len(breakpoints) + 1}
             /\ Len(breakpoints) + 1 \notin DOMAIN breakpoints
             /\ \A j \in DOMAIN breakpoints : breakpoints'[j] = breakpoints[j]
             /\ breakpoints'[Len(breakpoints) + 1] = b
  BY <1>1, <1>2
<1>3. CASE BP!CreateEnabledBreakpoint(a)
  <2>1. PICK b \in Byte : breakpoints' = Append(breakpoints, BP!Armed(BP!NewBreakpoint(a, b)))
    BY <1>3 DEF BP!CreateEnabledBreakpoint
  <2>2. BP!Armed(BP!NewBreakpoint(a, b)).enabled /\ BP!Armed(BP!NewBreakpoint(a, b)).address = a
    <3>1. BP!NewBreakpoint(a, b).address = a
      BY DEF BP!NewBreakpoint
    <3> QED BY <3>1, ArmedRecord
  <2> QED BY <1>2, <2>1, <2>2
<1>4. CASE BP!CreateBreakpoint(a) /\ ~ BP!CreateEnabledBreakpoint(a)
  <2>1. PICK b \in Byte : breakpoints' = Append(breakpoints, BP!NewBreakpoint(a, b))
    BY <1>4 DEF BP!CreateBreakpoint
  <2>2. BP!NewBreakpoint(a, b).address = a
    BY DEF BP!NewBreakpoint
  <2> QED BY <1>2, <1>4, <2>1, <2>2
<1> QED BY <1>3, <1>4

LEMMA KeptUntouched ==
  ASSUME KeptOK, UNCHANGED <<proc, requested, breakpoints>>, ~ Lifted \/ (Lifted' /\ UNCHANGED pending)
  PROVE  KeptOK'
<1> QED BY DEF KeptOK

LEMMA KeptLifting ==
  ASSUME DInv, KeptOK, ~ Lifted, NEW a, LiftBreakpoint(a), Lifted', UNCHANGED <<proc, requested>>
  PROVE  KeptOK'
<1>1. BP!TypeOK
  BY DEF DInv
<1>2. CASE UNCHANGED breakpoints
  BY <1>2 DEF KeptOK
<1>3. ASSUME NEW b \in DOMAIN breakpoints, BP!DisableBreakpoint(b), pending' = b PROVE KeptOK'
  BY <1>1, <1>3, DisableIs DEF KeptOK
<1> QED BY <1>2, <1>3 DEF LiftBreakpoint

LEMMA KeptReenabling ==
  ASSUME DInv, KeptOK, ReenablePending, UNCHANGED <<proc, requested>>
  PROVE  KeptOK'
<1>1. BP!TypeOK /\ breakpoints \in Seq(BP!Breakpoint) /\ pending \in Nat /\ pending <= Len(breakpoints)
  BY DEF DInv, BP!TypeOK, ControlTypes
<1>2. CASE pending = 0
  <2>1. 0 \notin DOMAIN breakpoints /\ UNCHANGED breakpoints
    BY <1>1, <1>2 DEF ReenablePending
  <2> QED BY <1>2, <2>1 DEF KeptOK
<1>3. CASE pending # 0
  <2>1. pending \in DOMAIN breakpoints
    BY <1>1, <1>3
  <2>2. BP!EnableBreakpoint(pending)
    BY <1>3 DEF ReenablePending
  <2> QED BY <1>1, <2>1, <2>2, EnableIs DEF KeptOK
<1> QED BY <1>2, <1>3

LEMMA KeptCreating ==
  ASSUME DInv, KeptOK, UNCHANGED <<proc, pending>>, Lifted => Lifted',
         NEW a, \/ BP!CreateBreakpoint(a) /\ UNCHANGED requested
                \/ BP!CreateEnabledBreakpoint(a)
                   /\ requested' \subseteq requested \union {Len(breakpoints) + 1}
  PROVE  KeptOK'
<1>1. BP!TypeOK
  BY DEF DInv
<1>2. CASE BP!CreateBreakpoint(a) /\ UNCHANGED requested
  BY <1>1, <1>2, CreateIs DEF KeptOK
<1>3. CASE BP!CreateEnabledBreakpoint(a) /\ requested' \subseteq requested \union {Len(breakpoints) + 1}
  BY <1>1, <1>3, CreateIs DEF KeptOK
<1> QED BY <1>2, <1>3

LEMMA HooksKeep ==
  ASSUME DInv, KeptOK, ~ Lifted, DylinkerHooks, UNCHANGED <<proc, pending>> PROVE KeptOK'
<1>1. CASE UNCHANGED <<memory, breakpoints, requested>>
  BY <1>1, KeptUntouched
<1>2. CASE BP!CreateEnabledBreakpoint(HookAddress) /\ requested' = requested \union {Len(breakpoints) + 1}
  BY <1>2, KeptCreating
<1> QED BY <1>1, <1>2 DEF DylinkerHooks

LEMMA ClientKeepsRequests ==
  ASSUME DInv, KeptOK, ClientNext PROVE KeptOK'
<1>1. CASE CreateProcess
  BY <1>1, HooksKeep DEF CreateProcess, Lifted, kernelVars
<1>2. CASE InitializeDylinkerHooks
  BY <1>2, HooksKeep DEF InitializeDylinkerHooks, Lifted, kernelVars, controlVars
<1>3. CASE Resume
  BY <1>3, KeptUntouched DEF Resume, Lifted, kernelVars, historyVars
<1>4. CASE KillProcess
  BY <1>4 DEF KillProcess, Die, KeptOK
<1>5. ASSUME NEW a \in BreakAddress, CreateBreakpoint(a) PROVE KeptOK'
  BY <1>5, KeptCreating DEF CreateBreakpoint, Lifted, kernelVars, controlVars, historyVars
<1>6. ASSUME NEW i \in DOMAIN breakpoints, EnableBreakpoint(i) PROVE KeptOK'
  <2>1. BP!TypeOK /\ BP!EnableBreakpoint(i) /\ requested' = requested \union {i} /\ UNCHANGED proc
    BY <1>6 DEF EnableBreakpoint, DInv, kernelVars
  <2>2. ~ Lifted
    BY <1>6 DEF EnableBreakpoint, Lifted
  <2> QED BY <2>1, <2>2, EnableIs DEF KeptOK
<1>7. ASSUME NEW i \in DOMAIN breakpoints, DisableBreakpoint(i) PROVE KeptOK'
  <2>1. BP!TypeOK /\ BP!DisableBreakpoint(i) /\ requested' = requested \ {i} /\ UNCHANGED proc
    BY <1>7 DEF DisableBreakpoint, DInv, kernelVars
  <2>2. ~ Lifted
    BY <1>7 DEF DisableBreakpoint, Lifted
  <2> QED BY <2>1, <2>2, DisableIs DEF KeptOK
<1>8. ASSUME NEW i \in DOMAIN threads, Step(i) PROVE KeptOK'
  BY <1>8, KeptLifting DEF Step, SingleStep, Lifted
<1>9. ASSUME NEW i \in DOMAIN threads, StepOver(i) PROVE KeptOK'
  BY <1>9, KeptLifting DEF StepOver, Lifted, kernelVars, historyVars
<1> QED BY <1>1, <1>2, <1>3, <1>4, <1>5, <1>6, <1>7, <1>8, <1>9 DEF ClientNext

LEMMA DebuggerKeepsRequests ==
  ASSUME DInv, SuspendOK, KeptOK, DebuggerNext PROVE KeptOK'
<1>1. CASE CheckStep
  BY <1>1, KeptLifting DEF CheckStep, SingleStep, Lifted
<1>2. CASE CheckNext \/ ResumeAll \/ ResumeReturns
  BY <1>2, KeptUntouched DEF CheckNext, ResumeAll, ResumeReturns, Lifted, kernelVars, historyVars
<1>3. CASE StepOverResume
  BY <1>3, KeptCreating DEF StepOverResume, Lifted, historyVars
<1>4. CASE EnterWait \/ WaitTrapped \/ WaitSignal \/ WaitExited \/ WaitSignaled
  <2>1. UNCHANGED <<proc, requested, breakpoints, pending>>
    BY <1>4 DEF EnterWait, WaitTrapped, WaitSignal, WaitExited, WaitSignaled, kernelVars, historyVars
  <2>2. Lifted' = Lifted
    BY <1>4 DEF EnterWait, WaitTrapped, WaitSignal, WaitExited, WaitSignaled, Return, Lifted
  <2> QED BY <2>1, <2>2, KeptUntouched
<1>5. ASSUME pc = "return", result # "stopped", UNCHANGED proc PROVE KeptOK'
  BY <1>5 DEF SuspendOK, KeptOK
<1>6. CASE StepReturns
  BY <1>6, KeptReenabling DEF StepReturns
<1>7. CASE CheckReturns
  BY <1>5, <1>7, KeptReenabling DEF CheckReturns
<1>8. CASE StepOverReturns
  BY <1>5, <1>8, KeptReenabling DEF StepOverReturns, kernelVars, historyVars
<1> QED BY <1>1, <1>2, <1>3, <1>4, <1>6, <1>7, <1>8 DEF DebuggerNext

LEMMA DebuggeeKeepsRequests ==
  ASSUME KeptOK, DebuggeeNext PROVE KeptOK'
<1>1. ASSUME UNCHANGED <<proc, requested, breakpoints, controlVars>> PROVE KeptOK'
  <2>1. Lifted' = Lifted /\ UNCHANGED pending
    BY <1>1 DEF Lifted, controlVars
  <2> QED BY <1>1, <2>1, KeptUntouched
<1>2. ASSUME NEW t \in Thread, Execute(t) \/ HitInt3(t) \/ ReceiveSignal(t) \/ ExitThread(t) PROVE KeptOK'
  BY <1>1, <1>2 DEF Execute, HitInt3, ReceiveSignal, ExitThread, historyVars
<1>3. ASSUME NEW t \in Thread, NEW u \in Thread, SpawnThread(t, u) PROVE KeptOK'
  BY <1>1, <1>3 DEF SpawnThread, historyVars
<1>4. ASSUME NEW t \in Thread, ExitProcess(t) PROVE KeptOK'
  BY <1>4 DEF ExitProcess, Die, KeptOK
<1>5. CASE DieOfSignal
  BY <1>5 DEF DieOfSignal, Die, KeptOK
<1> QED BY <1>2, <1>3, <1>4, <1>5 DEF DebuggeeNext

LEMMA KeptInductive == ErrnoIsFresh => (Spec => []KeptOK)
<1> SUFFICES ASSUME ErrnoIsFresh PROVE Spec => []KeptOK
  OBVIOUS
<1>1. Init => KeptOK
  BY DEF Init, KeptOK
<1>2. DInv /\ SuspendOK /\ KeptOK /\ [Next]_vars => KeptOK'
  <2> SUFFICES ASSUME DInv, SuspendOK, KeptOK, [Next]_vars PROVE KeptOK'
    OBVIOUS
  <2>1. CASE UNCHANGED vars \/ WaitInterrupted
    <3>1. UNCHANGED <<proc, requested, breakpoints, pending, Lifted>>
      BY <2>1 DEF vars, WaitInterrupted, kernelVars, controlVars, historyVars, Lifted
    <3> QED BY <3>1, KeptUntouched
  <2> QED BY <2>1, ClientKeepsRequests, DebuggerKeepsRequests, DebuggeeKeepsRequests DEF Next
<1> QED BY <1>1, <1>2, Inductive, SuspendInductive, PTL DEF Spec

\* A breakpoint the client has enabled is enabled whenever the client is asked for
\* the next command, through every lift and step, duplicates and hooks included.
THEOREM RequestsKept == ErrnoIsFresh => (Spec => []BreakpointsKept)
<1>1. KeptOK => BreakpointsKept
  BY DEF KeptOK, BreakpointsKept, Lifted
<1> QED BY <1>1, KeptInductive, PTL

-----------------------------------------------------------------------------
(* Single steps.                                                           *)

\* While one thread is single-stepped its trap flag is set and every other thread is
\* suspended.
StepOK ==
  proc = "live" /\ Stepping =>
    /\ threads[cursor] \in alive => regs[threads[cursor]].tf
    /\ \A t \in alive \ {threads[cursor]} : suspend[t] = 1

\* What machSuspendAllThreads and machResumeThread leave of the suspend counts.
LEMMA RunOnlyIs ==
  ASSUME ControlTypes, NEW u \in Thread, RunOnly(u)
  PROVE  /\ \A t \in (Known \intersect alive) \ {u} : suspend'[t] = 1
         /\ u \in alive => suspend'[u] = 0 /\ ~ blocked'[u]
<1>1. \A t \in Thread :
        suspend'[t] = CASE t = u /\ t \in alive -> 0
                        [] t \in (Known \intersect alive) \ {u} /\ suspend[t] = 0 -> 1
                        [] OTHER -> suspend[t]
  BY DEF RunOnly
<1>2. alive \subseteq Thread /\ \A t \in Thread : suspend[t] = 0 \/ suspend[t] = 1
  BY DEF ControlTypes
<1>3. \A t \in (Known \intersect alive) \ {u} : suspend'[t] = 1
  BY <1>1, <1>2
<1>4. u \in alive => suspend'[u] = 0
  BY <1>1
<1>5. u \in alive => ~ blocked'[u]
  BY Zenon DEF RunOnly, ControlTypes
<1> QED BY <1>3, <1>4, <1>5

LEMMA StepBegins ==
  ASSUME ~ Debuggee64, DInv, ViewOK, pc \in {"idle", "check"}, cursor' \in DOMAIN threads,
         NEW from \in {"check", "step"}, SingleStep(from)
  PROVE  StepOK'
<1> DEFINE u == threads[cursor']
<1>1. ControlTypes /\ u \in Thread /\ UNCHANGED <<proc, alive, threads>>
  BY DEF DInv, ControlTypes, SingleStep
<1>2. SetTrapFlag(u, TRUE) /\ RunOnly(u)
  BY DEF SingleStep
<1>3. proc = "live" => alive \subseteq Known
  BY DEF ViewOK, Commanding
<1>4. u \in alive => regs'[u].tf
  BY <1>1, <1>2, TrapFlagIs
<1>5. \A t \in (Known \intersect alive) \ {u} : suspend'[t] = 1
  BY <1>1, <1>2, RunOnlyIs
<1> QED BY <1>1, <1>3, <1>4, <1>5 DEF StepOK

LEMMA StepGoesOn ==
  ASSUME DInv, StepOK, UNCHANGED <<proc, caller, cursor>>, alive' \subseteq alive,
         Stepping' => pc \in {"enterWait", "wait"} /\ threads'[cursor] = threads[cursor]
                        /\ UNCHANGED suspend /\ \A t \in Thread : regs'[t].tf = regs[t].tf
  PROVE  StepOK'
<1> SUFFICES ASSUME proc' = "live", Stepping' PROVE StepOK'
  BY DEF StepOK
<1>1. Stepping /\ alive \subseteq Thread
  BY DEF Stepping, DInv, ControlTypes
<1> QED BY <1>1 DEF StepOK, Stepping

LEMMA NextStepOK ==
  ASSUME ~ Debuggee64, "spawnInStep" \notin Events, DInv, SuspendOK, ViewOK, StepOK, [Next]_vars
  PROVE  StepOK'
<1>1. ASSUME ~ pc' \in {"enterWait", "wait"} \/ ~ caller' \in {"check", "step"} PROVE StepOK'
  BY <1>1 DEF StepOK, Stepping
<1>2. CASE UNCHANGED vars \/ WaitInterrupted \/ EnterWait
  BY <1>2, StepGoesOn DEF vars, WaitInterrupted, EnterWait, kernelVars, viewVars, controlVars, Stepping
<1>3. CASE ClientNext
  <2>1. ASSUME NEW i \in DOMAIN threads, Step(i) PROVE StepOK'
    BY <2>1, StepBegins DEF Step
  <2>2. CASE CreateProcess \/ Resume \/ \E i \in DOMAIN threads : StepOver(i)
    BY <1>1, <2>2 DEF CreateProcess, Resume, StepOver
  <2>3. CASE InitializeDylinkerHooks \/ KillProcess \/ \E a \in BreakAddress : CreateBreakpoint(a)
    BY <1>1, <2>3 DEF InitializeDylinkerHooks, KillProcess, CreateBreakpoint, controlVars
  <2>4. CASE \E i \in DOMAIN breakpoints : EnableBreakpoint(i) \/ DisableBreakpoint(i)
    BY <1>1, <2>4 DEF EnableBreakpoint, DisableBreakpoint, controlVars
  <2> QED BY <1>3, <2>1, <2>2, <2>3, <2>4 DEF ClientNext
<1>4. CASE DebuggerNext
  <2>1. CASE CheckStep
    BY <2>1, StepBegins DEF CheckStep
  <2>2. CASE CheckNext \/ ResumeAll \/ StepOverResume
    BY <1>1, <2>2 DEF CheckNext, ResumeAll, StepOverResume
  <2>3. CASE WaitTrapped \/ WaitExited \/ WaitSignaled
    BY <1>1, <2>3 DEF WaitTrapped, WaitExited, WaitSignaled, Return
  <2>4. CASE WaitSignal
    <3>1. GatherThreads /\ pc = "wait" /\ UNCHANGED <<proc, alive, regs, suspend, caller, cursor>>
      BY <2>4 DEF WaitSignal
    <3>2. caller \in {"check", "step"} => threads'[cursor] = threads[cursor]
      BY <3>1, GatherKnows DEF DInv, CursorOK
    <3> QED BY <3>1, <3>2, StepGoesOn DEF Stepping
  <2>5. CASE StepReturns \/ CheckReturns \/ StepOverReturns \/ ResumeReturns
    BY <1>1, <2>5 DEF StepReturns, CheckReturns, StepOverReturns, ResumeReturns
  <2> QED BY <1>2, <1>4, <2>1, <2>2, <2>3, <2>4, <2>5 DEF DebuggerNext
<1>5. CASE DebuggeeNext
  <2>1. ASSUME NEW t \in Thread, NEW a, regs' = [regs EXCEPT ![t].eip = a]
        PROVE  \A u \in Thread : regs'[u].tf = regs[u].tf
    <3>1. regs \in [Thread -> Regs] /\ regs[t] \in Regs
      BY DEF DInv, ControlTypes
    <3>2. regs' = [regs EXCEPT ![t] = [regs[t] EXCEPT !.eip = a]]
      BY <2>1
    <3>3. [regs[t] EXCEPT !.eip = a].tf = regs[t].tf
      BY <3>1 DEF Regs
    <3> QED BY <3>1, <3>2, <3>3
  <2>2. ASSUME NEW t, Runnable(t), UNCHANGED <<proc, viewVars, controlVars, suspend>>,
               alive' \subseteq alive, \A u \in Thread : regs'[u].tf = regs[u].tf
        PROVE  StepOK'
    BY <2>2, RunsInWait, StepGoesOn DEF viewVars, controlVars
  <2>3. ASSUME NEW t \in Thread, Execute(t) \/ HitInt3(t) PROVE StepOK'
    <3>1. PICK a : regs' = [regs EXCEPT ![t].eip = a]
      BY <2>3 DEF Execute, HitInt3
    <3>2. \A u \in Thread : regs'[u].tf = regs[u].tf
      BY <2>1, <3>1
    <3> QED BY <2>2, <2>3, <3>2 DEF Execute, HitInt3
  <2>4. ASSUME NEW t \in Thread, ReceiveSignal(t) \/ ExitThread(t) PROVE StepOK'
    BY <2>2, <2>4 DEF ReceiveSignal, ExitThread
  <2>5. ASSUME NEW t \in Thread, NEW u \in Thread, SpawnThread(t, u) PROVE StepOK'
    BY <1>1, <2>5 DEF SpawnThread, controlVars
  <2>6. CASE DieOfSignal \/ \E t \in Thread : ExitProcess(t)
    BY <2>6 DEF DieOfSignal, ExitProcess, Die, StepOK
  <2> QED BY <1>5, <2>3, <2>4, <2>5, <2>6 DEF DebuggeeNext
<1> QED BY <1>2, <1>3, <1>4, <1>5 DEF Next

LEMMA StepInductive ==
  ErrnoIsFresh /\ ~ Debuggee64 /\ "spawnInStep" \notin Events => (Spec => []StepOK)
<1> SUFFICES ASSUME ErrnoIsFresh, ~ Debuggee64, "spawnInStep" \notin Events PROVE Spec => []StepOK
  OBVIOUS
<1>1. Init => StepOK
  BY DEF Init, StepOK, Stepping
<1>2. DInv /\ SuspendOK /\ ViewOK /\ StepOK /\ [Next]_vars => StepOK'
  BY NextStepOK
<1> QED BY <1>1, <1>2, Inductive, SuspendInductive, ViewInductive, PTL DEF Spec

\* A thread that does not change is where it was.
LEMMA IpUntouched ==
  ASSUME NEW t \in Thread, regs'[t] = regs[t], t \in trapped' <=> t \in trapped
  PROVE  Ip(t)' = Ip(t)
<1> QED BY DEF Ip, Before

\* Only the stepped thread can run during a step, and it traps at once.
LEMMA StepIsolates ==
  ASSUME DInv, StepOK, Stepping, [Next]_vars, NEW t \in Thread, Ip(t)' # Ip(t)
  PROVE  t = threads[cursor] /\ status' = "trap"
<1>1. ASSUME UNCHANGED <<regs, trapped>> PROVE FALSE
  BY <1>1, IpUntouched
<1>2. pc \in {"enterWait", "wait"}
  BY DEF Stepping
<1>3. ~ UNCHANGED vars /\ ~ WaitInterrupted
  BY <1>1 DEF vars, WaitInterrupted, kernelVars, historyVars
<1>4. ~ ClientNext
  BY <1>2 DEF ClientNext, CreateProcess, InitializeDylinkerHooks, Resume, KillProcess,
       CreateBreakpoint, EnableBreakpoint, DisableBreakpoint, Step, StepOver
<1>5. ~ DebuggerNext
  <2>1. ~ (EnterWait \/ WaitTrapped \/ WaitSignal \/ WaitExited \/ WaitSignaled)
    BY <1>1 DEF EnterWait, WaitTrapped, WaitSignal, WaitExited, WaitSignaled, kernelVars, historyVars
  <2> QED BY <1>2, <2>1 DEF DebuggerNext, CheckStep, CheckNext, ResumeAll, StepOverResume,
        StepReturns, CheckReturns, StepOverReturns, ResumeReturns
<1>6. PICK u \in Thread : Execute(u) \/ HitInt3(u)
  BY <1>1, <1>3, <1>4, <1>5 DEF Next, DebuggeeNext, ReceiveSignal, ExitThread, ExitProcess,
       SpawnThread, DieOfSignal, Die, historyVars
<1>7. u = threads[cursor] /\ u \in alive /\ proc = "live" /\ regs[u].tf
  BY <1>6 DEF Execute, HitInt3, Runnable, StepOK
<1>8. t = u
  <2> SUFFICES ASSUME t # u PROVE FALSE
    OBVIOUS
  <2>1. regs'[t] = regs[t]
    BY <1>6 DEF Execute, HitInt3, DInv, ControlTypes
  <2>2. t \in trapped' <=> t \in trapped
    BY <1>6 DEF Execute, HitInt3
  <2> QED BY <2>1, <2>2, IpUntouched
<1>9. status' = "trap"
  BY <1>6, <1>7 DEF Execute, HitInt3, Stop
<1> QED BY <1>7, <1>8, <1>9

\* While one thread is single-stepped no other moves, and it moves by one instruction,
\* provided the trap flag reaches it (a 32-bit debuggee) and no stepped instruction
\* starts a thread.
THEOREM StepsAreIsolated ==
  ErrnoIsFresh /\ ~ Debuggee64 /\ "spawnInStep" \notin Events => (Spec => SingleStepIsolated)
<1> SUFFICES ASSUME ErrnoIsFresh, ~ Debuggee64, "spawnInStep" \notin Events
             PROVE  Spec => SingleStepIsolated
  OBVIOUS
<1>1. DInv /\ StepOK /\ [Next]_vars
        => [\A t \in Thread : (Stepping /\ Ip(t)' # Ip(t))
              => t = threads[cursor] /\ status' = "trap"]_vars
  BY StepIsolates
<1> QED BY <1>1, Inductive, StepInductive, PTL DEF Spec, SingleStepIsolated

-----------------------------------------------------------------------------
(* Waiting.                                                                *)

\* When neither threads end nor the client uses stepOver, every known thread exists,
\* and the debugger waits for a debuggee of which a thread can run, now or once the
\* stop that waitpid reports has been dealt with.
WaitOK ==
  proc = "live" =>
    /\ Known \subseteq alive /\ alive # {} /\ pc # "stepOver"
    /\ pc \in {"enterWait", "wait"} =>
         /\ status = "none" => taskSuspend = 0
         /\ \E t \in alive : suspend[t] = 0 /\ (status = "none" => ~ blocked[t])

LEMMA WaitBegins ==
  ASSUME DInv, WaitOK, cursor' \in DOMAIN threads, NEW from, SingleStep(from)
  PROVE  WaitOK'
<1> DEFINE u == threads[cursor']
<1>1. ControlTypes /\ u \in Thread /\ u \in Known /\ UNCHANGED <<proc, alive, threads>>
  BY DEF DInv, ControlTypes, SingleStep, Known
<1>2. RunOnly(u) /\ pc' = "enterWait"
  BY DEF SingleStep
<1>3. proc = "live" => taskSuspend' = 0
  BY <1>2 DEF RunOnly
<1>4. u \in alive => suspend'[u] = 0 /\ ~ blocked'[u]
  BY <1>1, <1>2, RunOnlyIs
<1>5. UNCHANGED Known
  BY <1>1 DEF Known
<1> QED BY <1>1, <1>2, <1>3, <1>4, <1>5 DEF WaitOK

LEMMA WaitAfterResume ==
  ASSUME DInv, ViewOK, WaitOK, ResumeAll PROVE WaitOK'
<1> SUFFICES ASSUME proc = "live" PROVE WaitOK'
  BY DEF ResumeAll, WaitOK
<1> DEFINE resumed == {t \in Known : \E j \in DOMAIN threads :
                         threads[j] = t /\ \A k \in 1 .. j : threads[k] \in alive}
<1>1. threads \in Seq(Thread) /\ alive = Known /\ alive # {} /\ alive \subseteq Thread
  BY DEF DInv, ControlTypes, ViewOK, WaitOK, Commanding, ResumeAll
<1>2. resumed = Known
  <2>1. ASSUME NEW j \in DOMAIN threads, NEW k \in 1 .. j PROVE threads[k] \in alive
    BY <1>1, <2>1 DEF Known
  <2> QED BY <2>1 DEF Known
<1>3. /\ suspend' = [t \in Thread |-> IF t \in resumed THEN 0 ELSE suspend[t]]
      /\ blocked' = [t \in Thread |-> blocked[t] /\ t \notin resumed]
      /\ taskSuspend' = IF resumed = Known /\ proc = "live" THEN 0 ELSE taskSuspend
  BY DEF ResumeAll, ResumeThreadsAndTask
<1> HIDE DEF resumed
<1>4. PICK t \in alive : TRUE
  BY <1>1
<1>5. t \in Thread /\ t \in resumed
  BY <1>1, <1>2
<1>6. suspend'[t] = 0 /\ taskSuspend' = 0
  BY <1>2, <1>3, <1>5
<1>7. ~ blocked'[t]
  BY <1>3, <1>5, Zenon
<1>8. UNCHANGED <<proc, alive, Known, status>> /\ pc' = "enterWait"
  BY DEF ResumeAll, viewVars, Known
<1> QED BY <1>1, <1>6, <1>7, <1>8 DEF WaitOK

LEMMA WaitAfterSignal ==
  ASSUME DInv, WaitOK, WaitSignal PROVE WaitOK'
<1> SUFFICES ASSUME proc = "live" PROVE WaitOK'
  BY DEF WaitSignal, WaitOK
<1>1. ControlTypes /\ GatherThreads /\ UNCHANGED <<proc, alive, suspend>> /\ pc = "wait"
  BY DEF DInv, WaitSignal
<1>2. Known' = Known \union alive
  BY <1>1, GatherKnows
<1>3. PICK t \in alive : suspend[t] = 0
  BY <1>1 DEF WaitOK
<1>4. t \in Thread
  BY <1>1 DEF ControlTypes
<1>5. ~ blocked'[t]
  BY <1>4, Zenon DEF WaitSignal
<1>6. taskSuspend' = 0
  BY <1>1 DEF WaitSignal, ControlTypes
<1>7. pc' \in {"wait", "return"}
  BY DEF WaitSignal, Return
<1> QED BY <1>1, <1>2, <1>3, <1>5, <1>6, <1>7 DEF WaitOK

LEMMA NextWaitOK ==
  ASSUME "threadExit" \notin Events, "stepOver" \notin Events,
         DInv, SuspendOK, ViewOK, WaitOK, [Next]_vars
  PROVE  WaitOK'
<1>1. ASSUME UNCHANGED <<proc, alive, threads>>, pc' \in {"create", "idle", "check", "return"}
      PROVE  WaitOK'
  BY <1>1 DEF WaitOK, Known
<1>2. ASSUME GatherThreads, UNCHANGED <<proc, alive>>, pc' \in {"idle", "return"}
      PROVE  WaitOK'
  <2>1. Known' = Known \union alive
    BY <1>2, GatherKnows DEF DInv
  <2> QED BY <1>2, <2>1 DEF WaitOK
<1>3. CASE UNCHANGED vars \/ WaitInterrupted
  BY <1>3 DEF vars, WaitInterrupted, kernelVars, viewVars, controlVars, WaitOK, Known
<1>4. CASE ClientNext
  <2>1. CASE CreateProcess
    BY <1>2, <2>1 DEF CreateProcess, kernelVars
  <2>2. CASE InitializeDylinkerHooks \/ Resume
    BY <1>1, <2>2 DEF InitializeDylinkerHooks, Resume, kernelVars, viewVars, controlVars
  <2>3. CASE KillProcess
    BY <2>3 DEF KillProcess, Die, WaitOK
  <2>4. CASE \E a \in BreakAddress : CreateBreakpoint(a)
    BY <1>1, <2>4 DEF CreateBreakpoint, kernelVars, viewVars, controlVars
  <2>5. CASE \E i \in DOMAIN breakpoints : EnableBreakpoint(i) \/ DisableBreakpoint(i)
    BY <1>1, <2>5 DEF EnableBreakpoint, DisableBreakpoint, kernelVars, viewVars, controlVars
  <2>6. ASSUME NEW i \in DOMAIN threads, Step(i) PROVE WaitOK'
    BY <2>6, WaitBegins DEF Step
  <2>7. ASSUME NEW i \in DOMAIN threads PROVE ~ StepOver(i)
    BY DEF StepOver
  <2> QED BY <1>4, <2>1, <2>2, <2>3, <2>4, <2>5, <2>6, <2>7 DEF ClientNext
<1>5. CASE DebuggerNext
  <2>1. CASE CheckStep
    BY <2>1, WaitBegins DEF CheckStep
  <2>2. CASE CheckNext
    BY <1>1, <2>2 DEF CheckNext, kernelVars, viewVars
  <2>3. CASE StepOverResume
    BY <2>3 DEF StepOverResume, WaitOK
  <2>4. CASE EnterWait
    <3>1. pc' \in {"wait", "return"}
      BY <2>4 DEF EnterWait, Return
    <3> QED BY <2>4, <3>1 DEF EnterWait, WaitOK, Known, kernelVars, viewVars
  <2>5. CASE WaitTrapped \/ WaitSignaled
    BY <1>2, <2>5 DEF WaitTrapped, WaitSignaled, Return, kernelVars
  <2>6. CASE WaitExited
    BY <1>1, <2>6 DEF WaitExited, Return, kernelVars
  <2>7. CASE StepReturns \/ CheckReturns \/ StepOverReturns \/ ResumeReturns
    BY <1>1, <2>7 DEF StepReturns, CheckReturns, StepOverReturns, ResumeReturns, kernelVars, viewVars
  <2> QED BY <1>5, <2>1, <2>2, <2>3, <2>4, <2>5, <2>6, <2>7, WaitAfterResume, WaitAfterSignal
        DEF DebuggerNext
<1>6. CASE DebuggeeNext
  <2>1. ASSUME UNCHANGED <<proc, threads, pc, suspend>>, alive \subseteq alive',
               \/ UNCHANGED <<taskSuspend, blocked, status>>
               \/ status' # "none"
        PROVE  WaitOK'
    <3>1. UNCHANGED Known
      BY <2>1 DEF Known
    <3>2. CASE UNCHANGED <<taskSuspend, blocked, status>>
      BY <2>1, <3>1, <3>2 DEF WaitOK
    <3>3. CASE status' # "none"
      BY <2>1, <3>1, <3>3 DEF WaitOK
    <3> QED BY <2>1, <3>2, <3>3
  <2>2. ASSUME NEW t \in Thread, Execute(t) \/ HitInt3(t) \/ ReceiveSignal(t) PROVE WaitOK'
    <3>1. UNCHANGED <<proc, threads, pc, suspend, alive>>
      BY <2>2 DEF Execute, HitInt3, ReceiveSignal, viewVars, controlVars
    <3>2. \/ UNCHANGED <<taskSuspend, blocked, status>>
          \/ status' # "none"
      BY <2>2 DEF Execute, HitInt3, ReceiveSignal, Stop
    <3> QED BY <2>1, <3>1, <3>2
  <2>3. ASSUME NEW t \in Thread PROVE ~ ExitThread(t)
    BY DEF ExitThread
  <2>4. ASSUME NEW t \in Thread, NEW u \in Thread, SpawnThread(t, u) PROVE WaitOK'
    BY <2>1, <2>4 DEF SpawnThread, viewVars, controlVars
  <2>5. CASE DieOfSignal \/ \E t \in Thread : ExitProcess(t)
    BY <2>5 DEF DieOfSignal, ExitProcess, Die, WaitOK
  <2> QED BY <1>6, <2>2, <2>3, <2>4, <2>5 DEF DebuggeeNext
<1> QED BY <1>3, <1>4, <1>5, <1>6 DEF Next

\* internalWait() never waits for a debuggee of which no thread can run, unless threads
\* end or the client uses stepOver.
THEOREM WaitsCanEnd ==
  ErrnoIsFresh /\ {"threadExit", "stepOver"} \intersect Events = {} => (Spec => []WaitCanEnd)
<1> SUFFICES ASSUME ErrnoIsFresh, {"threadExit", "stepOver"} \intersect Events = {}
             PROVE  Spec => []WaitCanEnd
  OBVIOUS
<1>1. Init => WaitOK
  BY DEF Init, WaitOK, Known
<1>2. DInv /\ SuspendOK /\ ViewOK /\ WaitOK /\ [Next]_vars => WaitOK'
  BY NextWaitOK
<1>3. DInv /\ WaitOK => WaitCanEnd
  BY DEF WaitOK, WaitCanEnd, Runnable, DInv, ControlTypes
<1> QED BY <1>1, <1>2, <1>3, Inductive, SuspendInductive, ViewInductive, PTL DEF Spec

-----------------------------------------------------------------------------
(* The program and its breakpoints.                                        *)

\* The addresses at which the program's instructions begin: what can be reached
\* from Entry.
Instructions ==
  {a \in Address : \A S \in SUBSET Address :
     Entry \in S /\ (\A b \in S : Successors[b] \subseteq S) => a \in S}

\* Where the client and the debugger set breakpoints.
Patchable == BreakAddress \union {HookAddress}

\* No instruction is an int 3 of the program's own, and none begins one byte past a
\* place for a breakpoint.
ProgramIsPatchable == \A a \in Instructions : Text[a] # INT3 /\ Before(a) \notin Patchable

\* The client does without stepOver and without a second breakpoint at an address of its
\* own; it may repeat initializeDylinkerHooks, as the test does, if it sets no breakpoint
\* of its own where that sets one.
PlainClient ==
  /\ {"stepOver", "duplicate"} \intersect Events = {}
  /\ "hook" \in Events => HookAddress \notin BreakAddress

\* The breakpoint list of a plain client: doubles are hooks only, which are never
\* disabled, and a breakpoint is lifted only if findBreakpoint finds it.  And what
\* commands there are.
ListOK ==
  /\ \A i, j \in DOMAIN breakpoints :
       breakpoints[i].address = breakpoints[j].address
         => i = j \/ breakpoints[i].address \notin BreakAddress
  /\ \A i \in DOMAIN breakpoints : breakpoints[i].address \in Patchable
  /\ \A i \in DOMAIN breakpoints : breakpoints[i].address \notin BreakAddress => i \in requested
  /\ pending # 0 => pending \in DOMAIN breakpoints /\ BP!IsFound(pending, breakpoints[pending].address)
  /\ pc = "create" => breakpoints = <<>>
  /\ pc # "stepOver" /\ caller # "stepOver"
  /\ pc \in {"enterWait", "wait", "return"} => caller # "none"

LEMMA InstructionsClosed ==
  /\ Entry \in Instructions /\ Instructions \subseteq Address
  /\ \A a \in Instructions : Successors[a] \subseteq Instructions
<1>1. Entry \in Instructions
  BY DebuggerAssumption DEF Instructions
<1>2. ASSUME NEW a \in Instructions, NEW b \in Successors[a] PROVE b \in Instructions
  <2>1. a \in Address /\ b \in Address
    BY DebuggerAssumption DEF Instructions
  <2>2. ASSUME NEW S \in SUBSET Address, Entry \in S, \A c \in S : Successors[c] \subseteq S
        PROVE  b \in S
    BY <2>2 DEF Instructions
  <2> QED BY <2>1, <2>2 DEF Instructions
<1> QED BY <1>1, <1>2 DEF Instructions

LEMMA LiftIs ==
  ASSUME BP!TypeOK, NEW a, LiftBreakpoint(a)
  PROVE  /\ DOMAIN breakpoints' = DOMAIN breakpoints
         /\ \A j \in DOMAIN breakpoints : breakpoints'[j].address = breakpoints[j].address
<1>1. ASSUME NEW b \in DOMAIN breakpoints, BP!DisableBreakpoint(b)
      PROVE  /\ DOMAIN breakpoints' = DOMAIN breakpoints
             /\ \A j \in DOMAIN breakpoints : breakpoints'[j].address = breakpoints[j].address
  BY <1>1, DisableIs
<1> QED BY <1>1 DEF LiftBreakpoint

LEMMA ReenableIs ==
  ASSUME DInv, ReenablePending
  PROVE  /\ DOMAIN breakpoints' = DOMAIN breakpoints
         /\ \A j \in DOMAIN breakpoints : breakpoints'[j].address = breakpoints[j].address
<1>1. BP!TypeOK /\ breakpoints \in Seq(BP!Breakpoint) /\ pending \in Nat /\ pending <= Len(breakpoints)
  BY DEF DInv, BP!TypeOK, ControlTypes
<1>2. CASE pending = 0
  BY <1>2 DEF ReenablePending
<1>3. CASE pending # 0
  <2>1. pending \in DOMAIN breakpoints /\ BP!EnableBreakpoint(pending)
    BY <1>1, <1>3 DEF ReenablePending
  <2> QED BY <1>1, <2>1, EnableIs
<1> QED BY <1>2, <1>3

\* Of some indices one is the first.
LEMMA FirstExists ==
  ASSUME NEW n \in Nat, NEW S \in SUBSET (1 .. n), S # {}
  PROVE  \E j \in S : \A l \in S : j <= l
<1> DEFINE T == {n + 1 - j : j \in S}
<1>1. T \subseteq 1 .. n /\ T # {}
  <2>1. PICK i \in 1 .. n : i \in S
    OBVIOUS
  <2>2. n + 1 - i \in T
    BY <2>1
  <2>3. \A j \in 1 .. n : n + 1 - j \in 1 .. n
    OBVIOUS
  <2> QED BY <2>2, <2>3
<1>2. PICK k \in T : \A l \in T : l <= k
  <2> HIDE DEF T
  <2> QED BY <1>1, P!LastExists, Assumption
<1>3. PICK j \in S : k = n + 1 - j
  BY <1>2
<1>4. ASSUME NEW l \in S PROVE j <= l
  <2>1. n + 1 - l \in T
    OBVIOUS
  <2>2. n + 1 - l <= n + 1 - j
    BY <1>2, <1>3, <2>1
  <2> QED BY <2>2
<1> QED BY <1>4

LEMMA FoundOnce ==
  ASSUME BP!TypeOK, NEW a, NEW i, NEW j, BP!IsFound(i, a), BP!IsFound(j, a) PROVE i = j
<1>1. i \in Nat /\ j \in Nat /\ i > 0 /\ j > 0
  BY DEF BP!TypeOK, BP!IsFound
<1> QED BY <1>1 DEF BP!IsFound

\* findBreakpoint looks at addresses only.
LEMMA SameFound ==
  ASSUME BP!TypeOK, DOMAIN breakpoints' = DOMAIN breakpoints,
         \A j \in DOMAIN breakpoints : breakpoints'[j].address = breakpoints[j].address,
         NEW i, NEW a
  PROVE  BP!IsFound(i, a)' <=> BP!IsFound(i, a)
<1>1. ASSUME i \in DOMAIN breakpoints PROVE \A j \in 1 .. i - 1 : j \in DOMAIN breakpoints
  BY <1>1 DEF BP!TypeOK
<1> QED BY <1>1 DEF BP!IsFound

LEMMA AppendFound ==
  ASSUME BP!TypeOK, NEW b, BP!CreateBreakpoint(b) \/ BP!CreateEnabledBreakpoint(b), NEW a,
         NEW i \in DOMAIN breakpoints
  PROVE  BP!IsFound(i, a)' <=> BP!IsFound(i, a)
<1>1. i \in DOMAIN breakpoints' /\ \A j \in 1 .. i : j \in DOMAIN breakpoints
  BY CreateIs DEF BP!TypeOK
<1>2. \A j \in 1 .. i : breakpoints'[j] = breakpoints[j]
  BY <1>1, CreateIs
<1>3. i \in 1 .. i /\ \A j \in 1 .. i - 1 : j \in 1 .. i
  BY DEF BP!TypeOK
<1> QED BY <1>1, <1>2, <1>3 DEF BP!IsFound

LEMMA NextListOK ==
  ASSUME PlainClient, DInv, ListOK, [Next]_vars PROVE ListOK'
<1> USE DEF ListOK
<1>1. BP!TypeOK
  BY DEF DInv
<1>2. ASSUME DOMAIN breakpoints' = DOMAIN breakpoints,
             \A j \in DOMAIN breakpoints : breakpoints'[j].address = breakpoints[j].address,
             \A j \in requested : j \in DOMAIN breakpoints
                                    => j \in requested' \/ breakpoints[j].address \in BreakAddress,
             \/ UNCHANGED pending
             \/ pending' = 0
             \/ pending' \in DOMAIN breakpoints
                /\ BP!IsFound(pending', breakpoints[pending'].address),
             pc' # "create", pc' # "stepOver", caller' # "stepOver",
             pc' \in {"enterWait", "wait", "return"} => caller' # "none"
      PROVE  ListOK'
  <2>1. \A i, a : BP!IsFound(i, a)' <=> BP!IsFound(i, a)
    BY <1>1, <1>2, SameFound
  <2>2. ASSUME pending' # 0
        PROVE  pending' \in DOMAIN breakpoints' /\ BP!IsFound(pending, breakpoints[pending].address)'
    <3>1. pending' \in DOMAIN breakpoints /\ BP!IsFound(pending', breakpoints[pending'].address)
      BY <1>2, <2>2
    <3>2. PICK i : i = pending'
      OBVIOUS
    <3>3. PICK c : c = breakpoints[i].address
      OBVIOUS
    <3>4. BP!IsFound(i, c)'
      BY <2>1, <3>1, <3>2, <3>3
    <3>5. breakpoints'[pending'].address = c
      BY <1>2, <3>1, <3>2, <3>3
    <3> QED BY <1>2, <3>1, <3>2, <3>4, <3>5 DEF BP!IsFound
  <2> QED BY <1>2, <2>2
<1>3. ASSUME NEW a \in Patchable, BP!CreateBreakpoint(a) \/ BP!CreateEnabledBreakpoint(a),
             a \in BreakAddress => \A i \in DOMAIN breakpoints : breakpoints[i].address # a,
             \/ a \in BreakAddress /\ UNCHANGED requested
             \/ requested' = requested \union {Len(breakpoints) + 1},
             pc' = "idle", UNCHANGED <<caller, pending>>
      PROVE  ListOK'
  <2>1. /\ DOMAIN breakpoints' = DOMAIN breakpoints \union {Len(breakpoints) + 1}
        /\ \A j \in DOMAIN breakpoints : breakpoints'[j] = breakpoints[j]
        /\ breakpoints'[Len(breakpoints) + 1].address = a
    BY <1>1, <1>3, CreateIs
  <2>2. \A i, j \in DOMAIN breakpoints' :
          breakpoints'[i].address = breakpoints'[j].address
            => i = j \/ breakpoints'[i].address \notin BreakAddress
    BY <1>3, <2>1
  <2>3. \A i \in DOMAIN breakpoints' :
          /\ breakpoints'[i].address \in Patchable
          /\ breakpoints'[i].address \notin BreakAddress => i \in requested'
    BY <1>3, <2>1
  <2>4. pending' # 0 => pending' \in DOMAIN breakpoints' /\ BP!IsFound(pending, breakpoints[pending].address)'
    <3> SUFFICES ASSUME pending # 0
                 PROVE  pending \in DOMAIN breakpoints' /\ BP!IsFound(pending, breakpoints[pending].address)'
      BY <1>3
    <3>1. pending \in DOMAIN breakpoints /\ BP!IsFound(pending, breakpoints[pending].address)
      OBVIOUS
    <3>2. pending' = pending /\ breakpoints'[pending] = breakpoints[pending]
      BY <1>3, <2>1, <3>1
    <3>3. PICK c : c = breakpoints[pending].address
      OBVIOUS
    <3>4. PICK i \in DOMAIN breakpoints : i = pending /\ BP!IsFound(i, c)
      BY <3>1, <3>3
    <3>5. BP!IsFound(i, c)'
      BY <1>1, <1>3, <3>4, AppendFound
    <3> QED BY <2>1, <3>1, <3>2, <3>3, <3>4, <3>5 DEF BP!IsFound
  <2> QED BY <1>3, <2>2, <2>3, <2>4
<1>4. CASE UNCHANGED vars \/ WaitInterrupted
  BY <1>2, <1>4 DEF vars, WaitInterrupted, controlVars, historyVars
<1>5. ASSUME NEW a, LiftBreakpoint(a)
      PROVE  \/ pending' = 0
             \/ pending' \in DOMAIN breakpoints
                /\ BP!IsFound(pending', breakpoints[pending'].address)
  BY <1>5 DEF LiftBreakpoint, BP!IsFound
<1>6. CASE ClientNext
  <2>1. ASSUME CreateProcess \/ InitializeDylinkerHooks PROVE ListOK'
    <3>1. pc' = "idle" /\ UNCHANGED <<caller, pending>> /\ DylinkerHooks
      BY <2>1 DEF CreateProcess, InitializeDylinkerHooks, controlVars
    <3>2. HookAddress \in BreakAddress => breakpoints = <<>>
      BY <2>1 DEF CreateProcess, InitializeDylinkerHooks, PlainClient
    <3>3. caller # "stepOver"
      OBVIOUS
    <3>4. CASE UNCHANGED <<memory, breakpoints, requested>>
      BY <1>2, <3>1, <3>3, <3>4
    <3>5. CASE /\ BP!CreateEnabledBreakpoint(HookAddress)
               /\ requested' = requested \union {Len(breakpoints) + 1}
      BY <1>3, <3>1, <3>2, <3>5 DEF Patchable
    <3> QED BY <3>1, <3>4, <3>5 DEF DylinkerHooks
  <2>2. \A i \in DOMAIN threads : ~ StepOver(i)
    BY DEF StepOver, PlainClient
  <2>3. CASE Resume \/ KillProcess
    BY <1>2, <2>3 DEF Resume, KillProcess, controlVars, historyVars
  <2>4. ASSUME NEW a \in BreakAddress, CreateBreakpoint(a) PROVE ListOK'
    BY <1>3, <2>4 DEF CreateBreakpoint, PlainClient, Patchable, controlVars, historyVars
  <2>5. ASSUME NEW i \in DOMAIN breakpoints, EnableBreakpoint(i) PROVE ListOK'
    BY <1>1, <1>2, <2>5, EnableIs DEF EnableBreakpoint, controlVars
  <2>6. ASSUME NEW i \in DOMAIN breakpoints, DisableBreakpoint(i) PROVE ListOK'
    <3>1. \A j \in requested : j \in requested' \/ j = i
      BY <2>6 DEF DisableBreakpoint
    <3> QED BY <1>1, <1>2, <2>6, <3>1, DisableIs DEF DisableBreakpoint, controlVars
  <2>7. ASSUME NEW i \in DOMAIN threads, Step(i) PROVE ListOK'
    BY <1>1, <1>2, <1>5, <2>7, LiftIs DEF Step, SingleStep
  <2> QED BY <1>6, <2>1, <2>2, <2>3, <2>4, <2>5, <2>6, <2>7 DEF ClientNext
<1>7. CASE DebuggerNext
  <2>1. CASE CheckStep
    BY <1>1, <1>2, <1>5, <2>1, LiftIs DEF CheckStep, SingleStep
  <2>2. CASE CheckNext \/ ResumeAll
    BY <1>2, <2>2 DEF CheckNext, ResumeAll, historyVars
  <2>3. ~ StepOverResume /\ ~ StepOverReturns
    BY DEF StepOverResume, StepOverReturns
  <2>4. CASE EnterWait \/ WaitTrapped \/ WaitSignal \/ WaitExited \/ WaitSignaled
    <3>1. UNCHANGED <<breakpoints, caller, pending, requested>>
          /\ pc' \in {"wait", "return"} /\ pc \in {"enterWait", "wait"}
      BY <2>4 DEF EnterWait, WaitTrapped, WaitSignal, WaitExited, WaitSignaled, Return, historyVars
    <3> QED BY <1>2, <3>1
  <2>5. CASE StepReturns \/ CheckReturns \/ ResumeReturns
    <3>1. \/ UNCHANGED breakpoints
          \/ ReenablePending
      BY <2>5 DEF StepReturns, CheckReturns, ResumeReturns
    <3>2. /\ DOMAIN breakpoints' = DOMAIN breakpoints
          /\ \A j \in DOMAIN breakpoints : breakpoints'[j].address = breakpoints[j].address
      BY <3>1, ReenableIs
    <3> QED BY <1>2, <2>5, <3>2 DEF StepReturns, CheckReturns, ResumeReturns
  <2> QED BY <1>7, <2>1, <2>2, <2>3, <2>4, <2>5 DEF DebuggerNext
<1>8. CASE DebuggeeNext
  <2>1. UNCHANGED <<breakpoints, pc, caller, pending, requested>>
    BY <1>8 DEF DebuggeeNext, Execute, HitInt3, ReceiveSignal, SpawnThread, ExitThread,
         ExitProcess, DieOfSignal, controlVars, historyVars
  <2> QED BY <1>2, <2>1
<1> QED BY <1>4, <1>6, <1>7, <1>8 DEF Next

LEMMA ListInductive == PlainClient => (Spec => []ListOK)
<1> SUFFICES ASSUME PlainClient PROVE Spec => []ListOK
  OBVIOUS
<1>1. Init => ListOK
  BY DEF Init, ListOK
<1>2. DInv /\ ListOK /\ [Next]_vars => ListOK'
  BY NextListOK
<1> QED BY <1>1, <1>2, Inductive, PTL DEF Spec

\* Whenever none is lifted, findBreakpoint finds what the client has enabled, or
\* another one that is enabled at that address.
LEMMA RequestedStops ==
  ASSUME DInv, ListOK, KeptOK, proc = "live", ~ Lifted, NEW i \in requested
  PROVE  i \in DOMAIN breakpoints /\ BP!StopsAt(breakpoints[i].address)
<1>1. BP!TypeOK /\ i \in DOMAIN breakpoints
  BY DEF DInv, KeptOK
<1>2. PICK j \in DOMAIN breakpoints : BP!IsFound(j, breakpoints[i].address)
  <2>1. Len(breakpoints) \in Nat /\ DOMAIN breakpoints = 1 .. Len(breakpoints)
    BY <1>1 DEF BP!TypeOK
  <2> DEFINE S == {j \in 1 .. Len(breakpoints) : breakpoints[j].address = breakpoints[i].address}
  <2>2. S \in SUBSET (1 .. Len(breakpoints)) /\ i \in S
    BY <1>1, <2>1
  <2>3. PICK j \in S : \A l \in S : j <= l
    <3> HIDE DEF S
    <3> QED BY <2>1, <2>2, FirstExists
  <2>4. \A l \in 1 .. j - 1 : l \in 1 .. Len(breakpoints) /\ ~ j <= l
    BY <2>1, <2>3
  <2>5. \A l \in 1 .. j - 1 : breakpoints[l].address # breakpoints[i].address
    BY <2>3, <2>4
  <2> QED BY <2>1, <2>3, <2>5 DEF BP!IsFound
<1>3. breakpoints[j].address = breakpoints[i].address
  BY <1>2 DEF BP!IsFound
<1>4. j \in requested
  BY <1>1, <1>2, <1>3 DEF ListOK
<1> QED BY <1>1, <1>2, <1>4 DEF KeptOK, BP!StopsAt

-----------------------------------------------------------------------------
(* The int 3 bytes in the program are where findBreakpoint finds an        *)
(* enabled breakpoint.                                                     *)

Patched ==
  proc = "live" =>
    \A a \in Address : Text[a] # INT3 => (memory[a] = INT3 <=> BP!StopsAt(a))

\* What a plain client and the debugger do to memory and list: only a breakpoint
\* that is found is disabled or enabled, and one more is added where there is none or
\* where all are enabled.
PlainStep ==
  \/ UNCHANGED <<memory, breakpoints>>
  \/ \E a \in Address :
       /\ BP!CreateBreakpoint(a)
       /\ \A i \in DOMAIN breakpoints : breakpoints[i].address # a
  \/ \E a \in Address :
       /\ BP!CreateEnabledBreakpoint(a)
       /\ \A i \in DOMAIN breakpoints : breakpoints[i].address = a => breakpoints[i].enabled
  \/ \E i \in DOMAIN breakpoints :
       /\ BP!IsFound(i, breakpoints[i].address)
       /\ BP!EnableBreakpoint(i) \/ BP!DisableBreakpoint(i)

LEMMA WrittenIs ==
  ASSUME BP!TypeOK, mapped = Address, NEW a \in Address, NEW c \in Address, NEW byte
  PROVE  BP!Written(a, byte)[c] = IF c = a THEN byte ELSE memory[c]
<1> QED BY SameAddress DEF BP!Written, BP!TypeOK

LEMMA ArmedMemoryIs ==
  ASSUME NEW a PROVE BP!ArmedMemory(a) = BP!Written(a, INT3)
<1> QED BY DEF BP!ArmedMemory, BP!ReadReturn

\* At an address where a breakpoint is found, that one alone counts.
LEMMA FoundDecides ==
  ASSUME BP!TypeOK, NEW a, NEW i \in DOMAIN breakpoints, BP!IsFound(i, a)
  PROVE  BP!StopsAt(a) <=> breakpoints[i].enabled
<1> QED BY FoundOnce DEF BP!StopsAt

LEMMA SwitchPatched ==
  ASSUME DInv, Patched, proc = "live", NEW i \in DOMAIN breakpoints,
         BP!IsFound(i, breakpoints[i].address),
         BP!EnableBreakpoint(i) \/ BP!DisableBreakpoint(i), BP!TypeOK',
         NEW c \in Address, Text[c] # INT3
  PROVE  memory'[c] = INT3 <=> BP!StopsAt(c)'
<1> DEFINE a == breakpoints[i].address
<1>1. BP!TypeOK /\ mapped = Address /\ BP!PatchIsText /\ breakpoints[i] \in BP!Breakpoint
  BY DEF DInv, TextOK, BP!TypeOK
<1>2. a \in Address /\ BP!IsFound(i, a)
  BY <1>1, SameAddress DEF BP!Breakpoint
<1>3. /\ DOMAIN breakpoints' = DOMAIN breakpoints
      /\ \A j \in DOMAIN breakpoints \ {i} : breakpoints'[j] = breakpoints[j]
      /\ \A j \in DOMAIN breakpoints : breakpoints'[j].address = breakpoints[j].address
      /\ breakpoints'[i].enabled <=> ~ BP!DisableBreakpoint(i)
  BY <1>1, EnableIs, DisableIs
<1>4. \A j, d : BP!IsFound(j, d)' <=> BP!IsFound(j, d)
  BY <1>1, <1>3, SameFound
<1>5. memory[c] = INT3 <=> BP!StopsAt(c)
  BY DEF Patched
<1>6. CASE c # a
  <2>1. memory'[c] = memory[c]
    BY <1>1, <1>2, <1>6, WrittenIs, ArmedMemoryIs DEF BP!EnableBreakpoint, BP!DisableBreakpoint
  <2>2. \A j \in DOMAIN breakpoints : BP!IsFound(j, c) => breakpoints'[j] = breakpoints[j]
    BY <1>3, <1>6 DEF BP!IsFound
  <2>3. BP!StopsAt(c)' <=> BP!StopsAt(c)
    BY <1>3, <1>4, <2>2 DEF BP!StopsAt
  <2> QED BY <1>5, <2>1, <2>3
<1>7. CASE c = a
  <2>1. BP!StopsAt(c)' <=> breakpoints'[i].enabled
    <3>1. BP!IsFound(i, c)'
      BY <1>2, <1>4, <1>7
    <3>2. \A j : BP!IsFound(j, c)' => j = i
      BY <1>1, <1>2, <1>4, <1>7, FoundOnce
    <3> QED BY <1>3, <3>1, <3>2 DEF BP!StopsAt
  <2>2. memory[c] = INT3 <=> breakpoints[i].enabled
    BY <1>1, <1>2, <1>5, <1>7, FoundDecides
  <2>3. breakpoints[i].enabled => breakpoints[i].patch = Text[c]
    BY <1>1, <1>2, <1>7, SameAddress DEF BP!PatchIsText
  <2>4. CASE BP!DisableBreakpoint(i)
    <3>1. memory'[c] # INT3
      BY <1>1, <1>2, <1>7, <2>2, <2>3, <2>4, WrittenIs DEF BP!DisableBreakpoint
    <3> QED BY <1>3, <2>1, <2>4, <3>1
  <2>5. CASE ~ BP!DisableBreakpoint(i)
    <3>1. memory'[c] = INT3
      BY <1>1, <1>2, <1>7, <2>2, <2>5, WrittenIs, ArmedMemoryIs DEF BP!EnableBreakpoint
    <3> QED BY <1>3, <2>1, <2>5, <3>1
  <2> QED BY <2>4, <2>5
<1> QED BY <1>6, <1>7

LEMMA CreatePatched ==
  ASSUME DInv, Patched, proc = "live", BP!TypeOK', NEW a \in Address,
         \/ /\ BP!CreateBreakpoint(a)
            /\ \A i \in DOMAIN breakpoints : breakpoints[i].address # a
         \/ /\ BP!CreateEnabledBreakpoint(a)
            /\ \A i \in DOMAIN breakpoints : breakpoints[i].address = a => breakpoints[i].enabled,
         NEW c \in Address, Text[c] # INT3
  PROVE  memory'[c] = INT3 <=> BP!StopsAt(c)'
<1> DEFINE new == Len(breakpoints) + 1
<1>1. BP!TypeOK /\ mapped = Address
  BY DEF DInv, TextOK
<1>2. /\ DOMAIN breakpoints' = DOMAIN breakpoints \union {new} /\ new \notin DOMAIN breakpoints
      /\ \A j \in DOMAIN breakpoints : breakpoints'[j] = breakpoints[j]
      /\ breakpoints'[new].address = a
      /\ BP!CreateEnabledBreakpoint(a) => breakpoints'[new].enabled
  BY <1>1, CreateIs
<1>3. \A j \in DOMAIN breakpoints : \A d : BP!IsFound(j, d)' <=> BP!IsFound(j, d)
  BY <1>1, AppendFound
<1>4. memory[c] = INT3 <=> BP!StopsAt(c)
  BY DEF Patched
<1> HIDE DEF new
<1>5. CASE c # a
  <2>1. memory'[c] = memory[c]
    BY <1>1, <1>5, WrittenIs, ArmedMemoryIs DEF BP!CreateBreakpoint, BP!CreateEnabledBreakpoint
  <2>2. \A j \in DOMAIN breakpoints' : BP!IsFound(j, c)' => j \in DOMAIN breakpoints
    BY <1>2, <1>5 DEF BP!IsFound
  <2>3. BP!StopsAt(c)' <=> BP!StopsAt(c)
    BY <1>2, <1>3, <2>2 DEF BP!StopsAt
  <2> QED BY <1>4, <2>1, <2>3
<1>6. CASE c = a /\ BP!CreateEnabledBreakpoint(a)
  <2>1. memory'[c] = INT3
    BY <1>1, <1>6, WrittenIs, ArmedMemoryIs DEF BP!CreateEnabledBreakpoint
  <2>2. \A j \in DOMAIN breakpoints' : breakpoints'[j].address = a => breakpoints'[j].enabled
    <3>1. \A j \in DOMAIN breakpoints : breakpoints[j].address = a => breakpoints[j].enabled
      BY <1>6
    <3> QED BY <1>2, <1>6, <3>1
  <2>3. PICK j \in DOMAIN breakpoints' : BP!IsFound(j, a)'
    <3>1. Len(breakpoints') \in Nat /\ DOMAIN breakpoints' = 1 .. Len(breakpoints')
      BY DEF BP!TypeOK
    <3>2. new \in 1 .. Len(breakpoints')
      BY <1>2, <3>1
    <3> DEFINE S == {j \in 1 .. Len(breakpoints') : breakpoints'[j].address = a}
    <3>3. S \in SUBSET (1 .. Len(breakpoints')) /\ new \in S
      BY <1>2, <3>2
    <3>4. PICK j \in S : \A l \in S : j <= l
      <4> HIDE DEF S
      <4> QED BY <3>1, <3>3, FirstExists
    <3>5. \A l \in 1 .. j - 1 : l \in 1 .. Len(breakpoints') /\ ~ j <= l
      BY <3>1, <3>4
    <3>6. \A l \in 1 .. j - 1 : breakpoints'[l].address # a
      BY <3>4, <3>5
    <3> QED BY <3>1, <3>4, <3>6 DEF BP!IsFound
  <2>4. breakpoints'[j].enabled
    BY <2>2, <2>3 DEF BP!IsFound
  <2> QED BY <1>6, <2>1, <2>3, <2>4 DEF BP!StopsAt
<1>7. CASE c = a /\ ~ BP!CreateEnabledBreakpoint(a)
  <2>1. memory' = memory /\ \A j \in DOMAIN breakpoints : breakpoints[j].address # a
    BY <1>7 DEF BP!CreateBreakpoint
  <2>2. ~ BP!StopsAt(a)
    BY <2>1 DEF BP!StopsAt, BP!IsFound
  <2>3. ~ breakpoints'[new].enabled
    <3>1. PICK b \in Byte : breakpoints' = Append(breakpoints, BP!NewBreakpoint(a, b))
      BY <1>7 DEF BP!CreateBreakpoint
    <3>2. breakpoints \in Seq(BP!Breakpoint)
      BY <1>1 DEF BP!TypeOK
    <3>3. breakpoints'[new] = BP!NewBreakpoint(a, b)
      BY <3>1, <3>2 DEF new
    <3> QED BY <3>3 DEF BP!NewBreakpoint
  <2>4. ~ BP!StopsAt(a)'
    BY <1>2, <2>1, <2>3 DEF BP!StopsAt, BP!IsFound
  <2> QED BY <1>4, <1>7, <2>1, <2>2, <2>4
<1> QED BY <1>5, <1>6, <1>7

LEMMA PlainStepPatched ==
  ASSUME DInv, Patched, PlainStep, UNCHANGED <<mapped, proc>>, BP!TypeOK' PROVE Patched'
<1> SUFFICES ASSUME proc = "live", NEW c \in Address, Text[c] # INT3
             PROVE  memory'[c] = INT3 <=> BP!StopsAt(c)'
  BY DEF Patched
<1>1. CASE UNCHANGED <<memory, breakpoints>>
  BY <1>1 DEF Patched, BP!StopsAt, BP!IsFound
<1>2. CASE ~ UNCHANGED <<memory, breakpoints>>
  BY <1>2, SwitchPatched, CreatePatched DEF PlainStep
<1> QED BY <1>1, <1>2

\* A plain client takes plain steps.
LEMMA NextIsPlain ==
  ASSUME PlainClient, DInv, ListOK, KeptOK, [Next]_vars, proc' = "live"
  PROVE  PlainStep /\ UNCHANGED <<mapped, proc>>
<1>1. MemoryStep
  BY NextIsMemoryStep
<1>2. proc = "live" /\ BP!TypeOK
  BY <1>1 DEF MemoryStep, DInv
<1> SUFFICES PlainStep
  BY <1>1 DEF MemoryStep
<1>3. ASSUME NEW a, LiftBreakpoint(a) PROVE PlainStep
  <2>1. ASSUME NEW b \in DOMAIN breakpoints, BP!IsFound(b, a), BP!DisableBreakpoint(b)
        PROVE  PlainStep
    BY <2>1 DEF PlainStep, BP!IsFound
  <2> QED BY <1>3, <2>1 DEF LiftBreakpoint, PlainStep
<1>4. ASSUME ReenablePending PROVE PlainStep
  BY <1>4 DEF ReenablePending, ListOK, PlainStep
<1>5. ASSUME CreateProcess \/ InitializeDylinkerHooks PROVE PlainStep
  <2>1. \A i \in DOMAIN breakpoints : breakpoints[i].address = HookAddress => breakpoints[i].enabled
    <3>1. CASE pc = "create"
      BY <3>1 DEF ListOK
    <3>2. CASE pc = "idle" /\ HookAddress \notin BreakAddress
      BY <1>2, <3>2 DEF ListOK, KeptOK, Lifted
    <3> QED BY <1>5, <3>1, <3>2 DEF CreateProcess, InitializeDylinkerHooks, PlainClient
  <2>2. DylinkerHooks
    BY <1>5 DEF CreateProcess, InitializeDylinkerHooks
  <2> QED BY <2>1, <2>2, DebuggerAssumption DEF DylinkerHooks, PlainStep
<1>6. ASSUME NEW i \in DOMAIN breakpoints, breakpoints[i].address \in BreakAddress
      PROVE  BP!IsFound(i, breakpoints[i].address)
  <2>1. \A j \in 1 .. i - 1 : j \in DOMAIN breakpoints /\ j # i
    BY <1>2 DEF BP!TypeOK
  <2> QED BY <1>6, <2>1 DEF BP!IsFound, ListOK
<1>7. CASE UNCHANGED <<memory, breakpoints>>
  BY <1>7 DEF PlainStep
<1>8. CASE ClientNext
  <2>1. CASE Resume \/ KillProcess
    BY <1>7, <2>1 DEF Resume, KillProcess
  <2>2. ASSUME NEW a \in BreakAddress, CreateBreakpoint(a) PROVE PlainStep
    BY <2>2, DebuggerAssumption DEF CreateBreakpoint, PlainClient, PlainStep
  <2>3. ASSUME NEW i \in DOMAIN breakpoints, EnableBreakpoint(i) \/ DisableBreakpoint(i)
        PROVE  PlainStep
    BY <1>6, <2>3 DEF EnableBreakpoint, DisableBreakpoint, PlainStep
  <2>4. ASSUME NEW i \in DOMAIN threads, Step(i) \/ StepOver(i) PROVE PlainStep
    BY <1>3, <2>4 DEF Step, StepOver
  <2> QED BY <1>5, <1>8, <2>1, <2>2, <2>3, <2>4 DEF ClientNext
<1>9. CASE DebuggerNext
  <2>1. CASE CheckStep
    BY <1>3, <2>1 DEF CheckStep
  <2>2. ~ StepOverResume
    BY DEF StepOverResume, ListOK
  <2>3. CASE StepReturns \/ CheckReturns \/ StepOverReturns
    BY <1>4, <1>7, <2>3 DEF StepReturns, CheckReturns, StepOverReturns
  <2>4. CASE CheckNext \/ ResumeAll \/ EnterWait \/ WaitTrapped \/ WaitSignal \/ WaitExited
             \/ WaitSignaled \/ ResumeReturns
    BY <1>7, <2>4 DEF CheckNext, ResumeAll, EnterWait, WaitTrapped, WaitSignal, WaitExited,
         WaitSignaled, ResumeReturns
  <2> QED BY <1>9, <2>1, <2>2, <2>3, <2>4 DEF DebuggerNext
<1>10. CASE UNCHANGED vars \/ WaitInterrupted \/ DebuggeeNext
  BY <1>7, <1>10 DEF vars, WaitInterrupted, DebuggeeNext, Execute, HitInt3, ReceiveSignal,
       SpawnThread, ExitThread, ExitProcess, DieOfSignal
<1> QED BY <1>8, <1>9, <1>10 DEF Next

LEMMA PatchedInductive == ErrnoIsFresh /\ PlainClient => (Spec => []Patched)
<1> SUFFICES ASSUME ErrnoIsFresh, PlainClient PROVE Spec => []Patched
  OBVIOUS
<1>1. Init => Patched
  BY DebuggerAssumption DEF Init, Patched, BP!StopsAt, BP!IsFound
<1>2. DInv /\ DInv' /\ ListOK /\ KeptOK /\ Patched /\ [Next]_vars => Patched'
  <2> SUFFICES ASSUME DInv, DInv', ListOK, KeptOK, Patched, [Next]_vars, proc' = "live"
               PROVE  Patched'
    BY DEF Patched
  <2> QED BY NextIsPlain, PlainStepPatched DEF DInv
<1> QED BY <1>1, <1>2, Inductive, ListInductive, KeptInductive, PTL DEF Spec

-----------------------------------------------------------------------------
(* The debuggee executes its own program.                                  *)

\* Debugging that can be without a trace: of a 32-bit debuggee that machIs64Bit() says
\* is one (which the machIs64Bit() of this commit never does), patched only where step
\* backs cannot go wrong, for a client that asks for no more than resume, step and
\* breakpoints of its own.
PlainDebugging ==
  /\ ~ Is64Bit /\ ~ Debuggee64
  /\ ErrnoIsFresh /\ "spawnInStep" \notin Events
  /\ PlainClient /\ ProgramIsPatchable

ControlInv == DInv /\ SuspendOK /\ ViewOK /\ StepOK /\ ListOK /\ KeptOK /\ Patched

LEMMA ControlInductive == PlainDebugging => (Spec => []ControlInv)
<1> SUFFICES ASSUME PlainDebugging PROVE Spec => []ControlInv
  OBVIOUS
<1>1. DInv /\ SuspendOK /\ ViewOK /\ StepOK /\ ListOK /\ KeptOK /\ Patched => ControlInv
  BY DEF ControlInv
<1>2. ErrnoIsFresh /\ ~ Debuggee64 /\ "spawnInStep" \notin Events /\ PlainClient
  BY DEF PlainDebugging, UpdatesState32
<1> QED BY <1>1, <1>2, Inductive, SuspendInductive, ViewInductive, StepInductive, ListInductive,
          KeptInductive, PatchedInductive, PTL

\* A thread that has executed an int 3 waits for resume() to move it back.
TrapsOK ==
  proc = "live" => \A t \in trapped :
    /\ caller = "resume" /\ t \in alive /\ memory[Ip(t)] = INT3
    /\ pc = "return" \/ (pc \in {"enterWait", "wait"} /\ status = "trap")

\* The thread that is being stepped is at no int 3 until it has moved.
SteppedOff ==
  proc = "live" /\ Stepping /\ threads[cursor] \in alive /\ status # "trap"
    => memory[regs[threads[cursor]].eip] # INT3

\* Where the threads are: at instructions of the program.
MotionOK ==
  /\ proc # "live" => alive = {}
  /\ \A t \in Thread : Ip(t) \in Instructions
  /\ TrapsOK
  /\ SteppedOff

Still == \A t \in Thread : Ip(t)' = Ip(t)

LEMMA EipStill ==
  ASSUME \A t \in Thread : regs'[t].eip = regs[t].eip, trapped' = trapped PROVE Still
<1> QED BY DEF Still, Ip, Before

LEMMA AddressesWrap ==
  ASSUME NEW a \in Address PROVE Before(After(a)) = a
<1>1. AddressSpace \in Nat /\ AddressSpace > 0 /\ a \in 0 .. AddressSpace - 1
  BY DebuggerAssumption DEF Address
<1>2. CASE a + 1 < AddressSpace
  <2>1. (a + 1) % AddressSpace = a + 1
    BY <1>1, <1>2
  <2>2. a % AddressSpace = a
    BY <1>1
  <2> QED BY <1>1, <2>1, <2>2 DEF Before, After
<1>3. CASE a + 1 = AddressSpace
  <2>1. (a + 1) % AddressSpace = 0
    BY <1>1, <1>3
  <2>2. (0 - 1) % AddressSpace = AddressSpace - 1
    BY <1>1
  <2> QED BY <1>1, <1>3, <2>1, <2>2 DEF Before, After
<1> QED BY <1>1, <1>2, <1>3

\* No thread is trapped while the debugger works on a live debuggee, except at the
\* return from the wait of resume().
LEMMA TrappedInResume ==
  ASSUME ControlInv, MotionOK, proc = "live",
         \/ pc \in {"create", "idle", "check"}
         \/ caller # "resume"
         \/ pc # "return" /\ status # "trap"
  PROVE  trapped = {}
<1> QED BY DEF MotionOK, TrapsOK

\* The copies that the debugger commits are the registers.
LEMMA ViewIsExact ==
  ASSUME PlainDebugging, ControlInv, MotionOK, Commanding, pc # "create"
  PROVE  \A t \in alive : state32[t] = regs[t]
<1> QED BY DEF ControlInv, ViewOK, MotionOK, PlainDebugging, UpdatesState32

LEMMA TrapFlagStill ==
  ASSUME ControlTypes, NEW u \in Thread, NEW enable \in BOOLEAN, SetTrapFlag(u, enable),
         \A t \in alive : state32[t] = regs[t]
  PROVE  (\A t \in Thread : regs'[t].eip = regs[t].eip) /\ trapped' = trapped
<1>1. \A t \in Thread : regs'[t].eip = regs[t].eip
  BY TrapFlagIs
<1>2. trapped' = {t \in trapped : regs'[t].eip = regs[t].eip}
  BY DEF SetTrapFlag, CommitThreads
<1> QED BY <1>1, <1>2 DEF ControlTypes

LEMMA ClearStill ==
  ASSUME PlainDebugging, ControlInv, MotionOK, pc = "return", caller \in {"check", "step"},
         ClearTrapFlagIfStopped
  PROVE  (\A t \in Thread : regs'[t].eip = regs[t].eip) /\ trapped' = trapped
<1>1. ControlTypes /\ threads[cursor] \in Thread
  BY DEF ControlInv, DInv, CursorOK, ControlTypes
<1>2. CASE result = "stopped"
  <2>1. SetTrapFlag(threads[cursor], FALSE)
    BY <1>2 DEF ClearTrapFlagIfStopped
  <2>2. Commanding
    BY <1>2 DEF Commanding
  <2> QED BY <1>1, <2>1, <2>2, ViewIsExact, TrapFlagStill
<1>3. CASE result # "stopped"
  BY <1>3 DEF ClearTrapFlagIfStopped
<1> QED BY <1>2, <1>3

LEMMA LiftClears ==
  ASSUME BP!TypeOK, NEW a, LiftBreakpoint(a) PROVE ~ BP!StopsAt(a)'
<1>1. CASE UNCHANGED breakpoints /\ ~ BP!StopsAt(a)
  BY <1>1 DEF BP!StopsAt, BP!IsFound
<1>2. ASSUME NEW b \in DOMAIN breakpoints, BP!IsFound(b, a), BP!DisableBreakpoint(b)
      PROVE  ~ BP!StopsAt(a)'
  <2>1. /\ DOMAIN breakpoints' = DOMAIN breakpoints
        /\ ~ breakpoints'[b].enabled
        /\ \A j \in DOMAIN breakpoints : breakpoints'[j].address = breakpoints[j].address
    BY <1>2, DisableIs
  <2>2. breakpoints \in Seq(BP!Breakpoint) /\ breakpoints[b].address = a
    BY <1>2 DEF BP!TypeOK, BP!IsFound
  <2>3. ASSUME NEW c \in DOMAIN breakpoints', breakpoints'[c].address = a,
               \A j \in 1 .. c - 1 : breakpoints'[j].address # a, c # b
        PROVE  FALSE
    <3>1. CASE b < c
      BY <2>1, <2>2, <2>3, <3>1
    <3>2. CASE c < b
      BY <1>2, <2>1, <2>2, <2>3, <3>2 DEF BP!IsFound
    <3> QED BY <2>1, <2>2, <2>3, <3>1, <3>2
  <2> QED BY <2>1, <2>3 DEF BP!StopsAt, BP!IsFound
<1> QED BY <1>1, <1>2 DEF LiftBreakpoint

\* The step back moves the trapped threads, all of them and no other, to where their
\* int 3 is.
LEMMA StepBackStill ==
  ASSUME PlainDebugging, ControlInv, MotionOK, ResumeReturns
  PROVE  Still /\ (proc = "live" => trapped' = {})
<1> DEFINE hit == {t \in Known : BP!StopsAt(Before(state32[t].eip))}
           back == [t \in Thread |-> IF t \in hit
                      THEN [state32[t] EXCEPT !.eip = Before(@)] ELSE state32[t]]
<1>1. ControlTypes /\ regs \in [Thread -> Regs] /\ state32 \in [Thread -> Regs]
      /\ alive \subseteq Thread /\ trapped \subseteq Thread
  BY DEF ControlInv, DInv, ControlTypes
<1>2. CASE result # "stopped"
  <2>1. UNCHANGED <<regs, trapped>> /\ proc # "live"
    BY <1>2 DEF ResumeReturns, ControlInv, SuspendOK
  <2> QED BY <2>1, EipStill
<1>3. CASE result = "stopped"
  <2>1. CommitThreads(hit, back)
    BY <1>3 DEF ResumeReturns
  <2>2. /\ \A t \in Thread : regs'[t] = IF t \in hit \intersect alive THEN back[t] ELSE regs[t]
        /\ trapped' = {t \in trapped : regs'[t].eip = regs[t].eip}
    BY <2>1 DEF CommitThreads, PlainDebugging, UpdatesState32
  <2>3. \A t \in alive : state32[t] = regs[t]
    BY <1>3, ViewIsExact DEF ResumeReturns, Commanding
  <2>4. ASSUME NEW t \in hit \intersect alive PROVE regs'[t].eip = Before(regs[t].eip)
    <3>1. t \in Thread /\ state32[t] = regs[t] /\ regs[t] \in Regs
      BY <1>1, <2>3
    <3>2. regs'[t] = [regs[t] EXCEPT !.eip = Before(@)]
      BY <2>2, <3>1
    <3> QED BY <3>1, <3>2 DEF Regs
  <2>5. ASSUME NEW t \in Thread, BP!StopsAt(Before(regs[t].eip))
        PROVE  Before(regs[t].eip) \in Patchable
    BY <2>5 DEF BP!StopsAt, BP!IsFound, ControlInv, ListOK
  <2> HIDE DEF hit, back
  <2>6. ASSUME NEW t \in hit \intersect alive PROVE t \in trapped
    <3>1. BP!StopsAt(Before(regs[t].eip))
      BY <2>3 DEF hit
    <3>2. Before(regs[t].eip) \in Patchable /\ t \in Thread
      BY <1>1, <2>5, <3>1
    <3>3. ASSUME t \notin trapped PROVE FALSE
      <4>1. regs[t].eip \in Instructions
        BY <3>2, <3>3 DEF MotionOK, Ip
      <4> QED BY <3>2, <4>1 DEF PlainDebugging, ProgramIsPatchable
    <3> QED BY <3>3
  <2>7. ASSUME proc = "live", NEW t \in trapped
        PROVE  t \in hit \intersect alive /\ Before(regs[t].eip) # regs[t].eip
    <3> DEFINE a == Before(regs[t].eip)
    <3>1. t \in Thread /\ t \in alive /\ memory[Ip(t)] = INT3 /\ Ip(t) = a /\ a \in Instructions
      BY <1>1, <2>7 DEF MotionOK, TrapsOK, Ip
    <3>2. a \in Address /\ Text[a] # INT3 /\ Before(a) \notin Patchable
      BY <3>1, InstructionsClosed DEF PlainDebugging, ProgramIsPatchable
    <3> HIDE DEF a
    <3>3. BP!StopsAt(a)
      BY <2>7, <3>1, <3>2 DEF ControlInv, Patched
    <3>4. a \in Patchable
      BY <2>5, <3>1, <3>3 DEF a
    <3>5. a # regs[t].eip
      BY <3>2, <3>4 DEF a
    <3>6. alive \subseteq Known
      BY <1>3, <2>7 DEF ControlInv, ViewOK, Commanding, ResumeReturns
    <3> QED BY <2>3, <3>1, <3>3, <3>5, <3>6 DEF a, hit
  <2>8. ASSUME proc = "live" PROVE trapped' = {}
    BY <2>2, <2>4, <2>7, <2>8
  <2>9. Still
    <3>1. CASE proc # "live"
      <4>1. alive = {}
        BY <3>1 DEF MotionOK
      <4>2. \A t \in Thread : regs'[t].eip = regs[t].eip
        BY <2>2, <4>1
      <4> QED BY <1>1, <2>2, <4>2, EipStill
    <3>2. CASE proc = "live"
      <4> SUFFICES ASSUME NEW t \in Thread PROVE Ip(t)' = Ip(t)
        BY DEF Still
      <4>1. t \notin trapped' /\ Ip(t)' = regs'[t].eip
        BY <2>8, <3>2 DEF Ip
      <4>2. CASE t \in trapped
        <5>1. Ip(t) = Before(regs[t].eip)
          BY <4>2 DEF Ip
        <5> QED BY <2>4, <2>7, <3>2, <4>1, <4>2, <5>1
      <4>3. CASE t \notin trapped
        <5>1. regs'[t] = regs[t]
          BY <2>2, <2>6, <4>3
        <5> QED BY <4>1, <4>3, <5>1 DEF Ip
      <4> QED BY <4>2, <4>3
    <3> QED BY <3>1, <3>2
  <2> QED BY <2>8, <2>9
<1> QED BY <1>2, <1>3

\* A thread that can run is at its instruction, not at an int 3.
LEMMA RunnableIs ==
  ASSUME PlainDebugging, ControlInv, MotionOK, NEW t \in Thread, Runnable(t)
  PROVE  /\ t \in alive /\ trapped = {} /\ proc = "live" /\ status = "none"
         /\ pc \in {"enterWait", "wait"} /\ caller \in {"check", "step", "resume"}
         /\ Ip(t) = regs[t].eip /\ Ip(t) \in Address /\ Text[Ip(t)] # INT3
<1>1. proc = "live" /\ taskSuspend = 0 /\ pc \in {"enterWait", "wait"} /\ status = "none"
  BY RunsInWait DEF ControlInv
<1>2. trapped = {}
  BY <1>1, TrappedInResume
<1>3. caller \in {"check", "step", "resume"}
  BY <1>1 DEF ControlInv, ListOK, DInv, ControlTypes
<1>4. Ip(t) = regs[t].eip /\ Ip(t) \in Instructions
  BY <1>2 DEF Ip, MotionOK
<1>5. Ip(t) \in Address /\ Text[Ip(t)] # INT3
  BY <1>4, InstructionsClosed DEF PlainDebugging, ProgramIsPatchable
<1> QED BY <1>1, <1>2, <1>3, <1>4, <1>5 DEF Runnable

LEMMA ExecuteMoves ==
  ASSUME PlainDebugging, ControlInv, MotionOK, NEW t \in Thread, Execute(t)
  PROVE  /\ t \in alive /\ alive' = alive /\ trapped' = {}
         /\ Ip(t)' \in Successors[Ip(t)]
         /\ \A u \in Thread \ {t} : Ip(u)' = Ip(u)
         /\ ~ BP!StopsAt(Ip(t))
<1>1. /\ t \in alive /\ trapped = {} /\ proc = "live"
      /\ Ip(t) = regs[t].eip /\ Ip(t) \in Address /\ Text[Ip(t)] # INT3
  BY RunnableIs DEF Execute
<1>2. trapped' = {} /\ alive' = alive
  BY <1>1 DEF Execute
<1>3. regs \in [Thread -> Regs] /\ regs[t] \in Regs
  BY DEF ControlInv, DInv, ControlTypes
<1>4. PICK a \in Successors[regs[t].eip] : regs' = [regs EXCEPT ![t].eip = a]
  BY DEF Execute
<1>5. regs' = [regs EXCEPT ![t] = [regs[t] EXCEPT !.eip = a]] /\ [regs[t] EXCEPT !.eip = a].eip = a
  BY <1>3, <1>4 DEF Regs
<1>6. regs'[t].eip = a /\ \A u \in Thread \ {t} : regs'[u] = regs[u]
  BY <1>3, <1>5
<1>7. Ip(t)' = a /\ \A u \in Thread \ {t} : Ip(u)' = Ip(u)
  BY <1>1, <1>2, <1>6 DEF Ip
<1>8. ~ BP!StopsAt(Ip(t))
  BY <1>1 DEF Execute, ControlInv, Patched
<1> QED BY <1>1, <1>2, <1>4, <1>7, <1>8

LEMMA HitStill ==
  ASSUME PlainDebugging, ControlInv, MotionOK, NEW t \in Thread, HitInt3(t)
  PROVE  Still /\ trapped' = {t} /\ memory[Ip(t)] = INT3
<1>1. /\ trapped = {} /\ Ip(t) = regs[t].eip /\ Ip(t) \in Address
  BY RunnableIs DEF HitInt3
<1>2. trapped' = {t} /\ memory[Ip(t)] = INT3
  BY <1>1 DEF HitInt3
<1>3. regs \in [Thread -> Regs] /\ regs[t] \in Regs
  BY DEF ControlInv, DInv, ControlTypes
<1>4. regs' = [regs EXCEPT ![t] = [regs[t] EXCEPT !.eip = After(@)]]
      /\ [regs[t] EXCEPT !.eip = After(@)].eip = After(regs[t].eip)
  BY <1>3 DEF HitInt3, Regs
<1>5. regs'[t].eip = After(regs[t].eip) /\ \A u \in Thread \ {t} : regs'[u] = regs[u]
  BY <1>3, <1>4
<1>6. Ip(t)' = Before(regs'[t].eip) /\ \A u \in Thread \ {t} : Ip(u)' = regs'[u].eip
  BY <1>2 DEF Ip, Before
<1>7. Ip(t)' = Ip(t)
  BY <1>1, <1>5, <1>6, AddressesWrap
<1>8. \A u \in Thread \ {t} : Ip(u)' = Ip(u)
  BY <1>1, <1>5, <1>6 DEF Ip
<1> QED BY <1>2, <1>7, <1>8 DEF Still

\* What a step of the whole system is to the program.
Moves ==
  \/ Still /\ alive' = alive
  \/ \E t \in Thread : Execute(t)
  \/ Still /\ \E t \in Thread : t \in alive /\ alive' = alive \ {t}
  \/ Still /\ \E t, u \in Thread :
       t \in alive /\ u \notin alive /\ Ip(u) = Entry /\ alive' = alive \union {u}
  \/ Still /\ alive' = {}

LEMMA StepStill ==
  ASSUME PlainDebugging, ControlInv, MotionOK, pc \in {"idle", "check"},
         cursor' \in DOMAIN threads, NEW from, SingleStep(from)
  PROVE  (\A t \in Thread : regs'[t].eip = regs[t].eip) /\ trapped' = trapped
<1>1. ControlTypes /\ threads[cursor'] \in Thread
  BY DEF ControlInv, DInv, ControlTypes
<1>2. \A t \in alive : state32[t] = regs[t]
  BY ViewIsExact DEF Commanding
<1> QED BY <1>1, <1>2, TrapFlagStill DEF SingleStep

LEMMA NextMoves ==
  ASSUME PlainDebugging, ControlInv, MotionOK, [Next]_vars PROVE Moves
<1>1. ASSUME UNCHANGED <<regs, trapped>> PROVE Still
  BY <1>1, EipStill
<1>2. CASE UNCHANGED vars \/ WaitInterrupted
  BY <1>1, <1>2 DEF vars, WaitInterrupted, kernelVars, historyVars, Moves
<1>3. CASE ClientNext
  <2>1. CASE CreateProcess \/ InitializeDylinkerHooks \/ Resume \/ KillProcess
    BY <1>1, <2>1 DEF CreateProcess, InitializeDylinkerHooks, Resume, KillProcess, Die,
         kernelVars, historyVars, Moves
  <2>2. CASE \E a \in BreakAddress : CreateBreakpoint(a)
    BY <1>1, <2>2 DEF CreateBreakpoint, kernelVars, historyVars, Moves
  <2>3. CASE \E i \in DOMAIN breakpoints : EnableBreakpoint(i) \/ DisableBreakpoint(i)
    BY <1>1, <2>3 DEF EnableBreakpoint, DisableBreakpoint, kernelVars, Moves
  <2>4. ASSUME NEW i \in DOMAIN threads, Step(i) PROVE Moves
    BY <2>4, StepStill, EipStill DEF Step, SingleStep, Moves
  <2>5. ASSUME NEW i \in DOMAIN threads, StepOver(i) PROVE Moves
    BY <1>1, <2>5 DEF StepOver, kernelVars, historyVars, Moves
  <2> QED BY <1>3, <2>1, <2>2, <2>3, <2>4, <2>5 DEF ClientNext
<1>4. CASE DebuggerNext
  <2>1. CASE CheckStep
    BY <2>1, StepStill, EipStill DEF CheckStep, SingleStep, Moves
  <2>2. CASE CheckNext \/ ResumeAll \/ StepOverResume
    BY <1>1, <2>2 DEF CheckNext, ResumeAll, StepOverResume, kernelVars, historyVars, Moves
  <2>3. CASE EnterWait \/ WaitTrapped \/ WaitSignal \/ WaitExited \/ WaitSignaled
    BY <1>1, <2>3 DEF EnterWait, WaitTrapped, WaitSignal, WaitExited, WaitSignaled,
         kernelVars, historyVars, Moves
  <2>4. CASE StepReturns \/ CheckReturns
    BY <2>4, ClearStill, EipStill DEF StepReturns, CheckReturns, Moves
  <2>5. CASE StepOverReturns
    BY <1>1, <2>5 DEF StepOverReturns, kernelVars, historyVars, Moves
  <2>6. CASE ResumeReturns
    BY <2>6, StepBackStill DEF ResumeReturns, Moves
  <2> QED BY <1>4, <2>1, <2>2, <2>3, <2>4, <2>5, <2>6 DEF DebuggerNext
<1>5. CASE DebuggeeNext
  <2>1. ASSUME NEW t \in Thread, Execute(t) \/ HitInt3(t) PROVE Moves
    BY <2>1, HitStill DEF HitInt3, Moves
  <2>2. ASSUME NEW t \in Thread, ReceiveSignal(t) \/ ExitThread(t) \/ ExitProcess(t) PROVE Moves
    BY <1>1, <2>2 DEF ReceiveSignal, ExitThread, ExitProcess, Runnable, Die, historyVars, Moves
  <2>3. ASSUME NEW t \in Thread, NEW u \in Thread, SpawnThread(t, u) PROVE Moves
    <3>1. trapped = {} /\ t \in alive
      BY <2>3, RunnableIs DEF SpawnThread
    <3>2. Ip(u) = Entry /\ u \notin alive
      BY <2>3, <3>1 DEF SpawnThread, Ip
    <3> QED BY <1>1, <2>3, <3>1, <3>2 DEF SpawnThread, historyVars, Moves
  <2>4. CASE DieOfSignal
    BY <1>1, <2>4 DEF DieOfSignal, Die, historyVars, Moves
  <2> QED BY <1>5, <2>1, <2>2, <2>3, <2>4 DEF DebuggeeNext
<1> QED BY <1>2, <1>3, <1>4, <1>5 DEF Next

LEMMA NextLives ==
  ASSUME MotionOK, [Next]_vars PROVE proc' # "live" => alive' = {}
<1> USE DEF MotionOK
<1>1. CASE UNCHANGED <<proc, alive>>
  BY <1>1
<1>2. CASE KillProcess \/ DieOfSignal \/ \E t \in Thread : ExitProcess(t)
  BY <1>2 DEF KillProcess, DieOfSignal, ExitProcess, Die
<1>3. ASSUME NEW t, Runnable(t), UNCHANGED proc PROVE proc' = "live"
  BY <1>3 DEF Runnable
<1>4. ASSUME NEW t \in Thread, ExitThread(t) \/ \E u \in Thread : SpawnThread(t, u)
      PROVE  proc' = "live"
  BY <1>3, <1>4 DEF ExitThread, SpawnThread
<1>5. CASE ClientNext
  BY <1>1, <1>2, <1>5 DEF ClientNext, CreateProcess, InitializeDylinkerHooks, Resume,
       CreateBreakpoint, EnableBreakpoint, DisableBreakpoint, Step, SingleStep, StepOver, kernelVars
<1>6. CASE DebuggerNext
  BY <1>1, <1>6 DEF DebuggerNext, CheckStep, SingleStep, CheckNext, ResumeAll, StepOverResume,
       EnterWait, WaitTrapped, WaitSignal, WaitExited, WaitSignaled, StepReturns, CheckReturns,
       StepOverReturns, ResumeReturns, kernelVars
<1>7. CASE UNCHANGED vars \/ WaitInterrupted
  BY <1>1, <1>7 DEF vars, WaitInterrupted, kernelVars
<1>8. CASE DebuggeeNext
  BY <1>1, <1>2, <1>4, <1>8 DEF DebuggeeNext, Execute, HitInt3, ReceiveSignal
<1> QED BY <1>5, <1>6, <1>7, <1>8 DEF Next

LEMMA StepLeavesInt3 ==
  ASSUME PlainDebugging, ControlInv, Patched', MotionOK, pc \in {"idle", "check"},
         cursor' \in DOMAIN threads, NEW from, SingleStep(from),
         LiftBreakpoint(state32[threads[cursor']].eip)
  PROVE  TrapsOK' /\ SteppedOff'
<1> DEFINE u == threads[cursor']
<1>1. (\A t \in Thread : regs'[t].eip = regs[t].eip) /\ trapped' = trapped
  BY StepStill
<1>2. proc = "live" => trapped = {}
  BY TrappedInResume
<1>3. TrapsOK'
  BY <1>1, <1>2 DEF TrapsOK, SingleStep
<1>4. SteppedOff'
  <2> SUFFICES ASSUME proc = "live", u \in alive PROVE memory'[regs'[u].eip] # INT3
    BY DEF SteppedOff, SingleStep
  <2>1. u \in Thread /\ BP!TypeOK
    BY DEF ControlInv, DInv, ControlTypes
  <2>2. state32[u] = regs[u]
    BY ViewIsExact DEF Commanding
  <2>3. PICK e : e = regs[u].eip
    OBVIOUS
  <2>4. LiftBreakpoint(e)
    BY <2>2, <2>3
  <2>5. ~ BP!StopsAt(e)'
    BY <2>1, <2>4, LiftClears
  <2>6. e \in Instructions
    BY <1>2, <2>1, <2>3 DEF MotionOK, Ip
  <2>7. e \in Address /\ Text[e] # INT3
    BY <2>6, InstructionsClosed DEF PlainDebugging, ProgramIsPatchable
  <2>8. proc' = "live"
    BY DEF SingleStep
  <2>9. memory'[e] # INT3
    BY <2>5, <2>7, <2>8 DEF Patched, BP!StopsAt, BP!IsFound
  <2> QED BY <1>1, <2>1, <2>3, <2>9
<1> QED BY <1>3, <1>4

LEMMA NextTraps ==
  ASSUME PlainDebugging, ControlInv, Patched', MotionOK, [Next]_vars
  PROVE  TrapsOK' /\ SteppedOff'
<1>1. ASSUME proc' = "live" => proc = "live", pc \in {"create", "idle", "check"},
             UNCHANGED trapped, ~ pc' \in {"enterWait", "wait"} \/ caller' = "resume"
      PROVE  TrapsOK' /\ SteppedOff'
  BY <1>1, TrappedInResume DEF TrapsOK, SteppedOff, Stepping
<1>2. CASE UNCHANGED vars \/ WaitInterrupted \/ EnterWait \/ WaitExited
  <2>1. UNCHANGED <<memory, proc, alive, regs, status, trapped, caller, cursor, threads>>
    BY <1>2 DEF vars, WaitInterrupted, EnterWait, WaitExited, kernelVars, viewVars, controlVars,
         historyVars
  <2>2. pc' = pc \/ (pc \in {"enterWait", "wait"} /\ pc' \in {"wait", "return"})
    BY <1>2 DEF vars, WaitInterrupted, EnterWait, WaitExited, Return, controlVars
  <2>3. \A t \in Thread : Ip(t)' = Ip(t)
    BY <2>1, EipStill DEF Still
  <2>4. trapped \subseteq Thread
    BY DEF ControlInv, DInv, ControlTypes
  <2> QED BY <2>1, <2>2, <2>3, <2>4 DEF MotionOK, TrapsOK, SteppedOff, Stepping
<1>3. CASE ClientNext
  <2>1. CASE CreateProcess \/ InitializeDylinkerHooks \/ Resume
    BY <1>1, <2>1 DEF CreateProcess, InitializeDylinkerHooks, Resume, kernelVars, controlVars, historyVars
  <2>2. CASE KillProcess
    BY <2>2 DEF KillProcess, Die, TrapsOK, SteppedOff
  <2>3. CASE \E a \in BreakAddress : CreateBreakpoint(a)
    BY <1>1, <2>3 DEF CreateBreakpoint, kernelVars, controlVars, historyVars
  <2>4. CASE \E i \in DOMAIN breakpoints : EnableBreakpoint(i) \/ DisableBreakpoint(i)
    BY <1>1, <2>4 DEF EnableBreakpoint, DisableBreakpoint, kernelVars, controlVars
  <2>5. ASSUME NEW i \in DOMAIN threads, Step(i) PROVE TrapsOK' /\ SteppedOff'
    BY <2>5, StepLeavesInt3 DEF Step
  <2>6. ASSUME NEW i \in DOMAIN threads PROVE ~ StepOver(i)
    BY DEF StepOver, PlainDebugging, PlainClient
  <2> QED BY <1>3, <2>1, <2>2, <2>3, <2>4, <2>5, <2>6 DEF ClientNext
<1>4. CASE DebuggerNext
  <2>1. CASE CheckStep
    BY <2>1, StepLeavesInt3 DEF CheckStep
  <2>2. CASE CheckNext \/ ResumeAll
    BY <1>1, <2>2 DEF CheckNext, ResumeAll, kernelVars, historyVars
  <2>3. ~ StepOverResume /\ ~ StepOverReturns
    BY DEF StepOverResume, StepOverReturns, ControlInv, ListOK
  <2>4. CASE WaitTrapped \/ WaitSignaled
    <3>1. UNCHANGED <<memory, proc, alive, regs, trapped, caller>> /\ pc' = "return"
      BY <2>4 DEF WaitTrapped, WaitSignaled, Return, kernelVars, historyVars
    <3>2. \A t \in Thread : Ip(t)' = Ip(t)
      BY <3>1, EipStill DEF Still
    <3>3. trapped \subseteq Thread
      BY DEF ControlInv, DInv, ControlTypes
    <3> QED BY <3>1, <3>2, <3>3 DEF MotionOK, TrapsOK, SteppedOff, Stepping
  <2>5. CASE WaitSignal
    <3>1. /\ UNCHANGED <<memory, proc, alive, regs, trapped, caller, cursor>>
          /\ GatherThreads /\ pc = "wait" /\ status = "signal"
      BY <2>5 DEF WaitSignal, historyVars
    <3>2. proc = "live" => trapped = {}
      BY <3>1, TrappedInResume
    <3>3. caller \in {"check", "step"} => threads'[cursor] = threads[cursor]
      BY <3>1, GatherKnows DEF ControlInv, DInv, CursorOK
    <3> QED BY <3>1, <3>2, <3>3 DEF MotionOK, TrapsOK, SteppedOff, Stepping
  <2>6. CASE StepReturns \/ CheckReturns
    <3>1. trapped' = trapped
      BY <2>6, ClearStill DEF StepReturns, CheckReturns
    <3>2. proc' = proc /\ caller # "resume" /\ pc' \in {"idle", "check"}
      BY <2>6 DEF StepReturns, CheckReturns
    <3> QED BY <3>1, <3>2, TrappedInResume DEF TrapsOK, SteppedOff, Stepping
  <2>7. CASE ResumeReturns
    BY <2>7, StepBackStill DEF ResumeReturns, TrapsOK, SteppedOff, Stepping
  <2> QED BY <1>2, <1>4, <2>1, <2>2, <2>3, <2>4, <2>5, <2>6, <2>7 DEF DebuggerNext
<1>5. CASE DebuggeeNext
  <2>1. ASSUME NEW t \in Thread, Runnable(t), Stepping
        PROVE  t = threads[cursor] /\ regs[t].tf /\ memory[regs[t].eip] # INT3
    <3>1. proc = "live" /\ t \in alive /\ suspend[t] = 0 /\ status = "none"
      BY <2>1, RunnableIs DEF Runnable
    <3>2. t = threads[cursor]
      BY <2>1, <3>1 DEF ControlInv, StepOK
    <3> QED BY <2>1, <3>1, <3>2 DEF ControlInv, StepOK, MotionOK, SteppedOff
  <2>2. ASSUME NEW t \in Thread, Execute(t) PROVE TrapsOK' /\ SteppedOff'
    <3>1. trapped' = {}
      BY <2>2, ExecuteMoves
    <3>2. Stepping => status' = "trap"
      BY <2>1, <2>2 DEF Execute, Stop
    <3>3. Stepping' <=> Stepping
      BY <2>2 DEF Execute, Stepping, controlVars
    <3> QED BY <3>1, <3>2, <3>3 DEF TrapsOK, SteppedOff
  <2>3. ASSUME NEW t \in Thread, HitInt3(t) PROVE TrapsOK' /\ SteppedOff'
    <3>1. ~ Stepping /\ t \in alive /\ pc \in {"enterWait", "wait"} /\ caller = "resume"
      BY <2>1, <2>3, RunnableIs DEF HitInt3, Stepping
    <3>2. /\ UNCHANGED <<memory, alive, pc, caller>> /\ status' = "trap"
      BY <2>3 DEF HitInt3, Stop, controlVars
    <3>3. trapped' = {t} /\ Ip(t)' = Ip(t) /\ memory[Ip(t)] = INT3
      BY <2>3, HitStill DEF Still
    <3> QED BY <3>1, <3>2, <3>3 DEF TrapsOK, SteppedOff, Stepping
  <2>4. ASSUME NEW t \in Thread, ReceiveSignal(t) \/ ExitThread(t) PROVE TrapsOK' /\ SteppedOff'
    <3>1. trapped = {} /\ status = "none"
      BY <2>4, RunnableIs DEF ReceiveSignal, ExitThread
    <3>2. /\ UNCHANGED <<memory, regs, proc, viewVars, controlVars, trapped>>
          /\ alive' \subseteq alive
      BY <2>4 DEF ReceiveSignal, ExitThread, historyVars
    <3> QED BY <3>1, <3>2 DEF MotionOK, TrapsOK, SteppedOff, Stepping, viewVars, controlVars
  <2>5. ASSUME NEW t \in Thread, NEW u \in Thread, SpawnThread(t, u) PROVE TrapsOK' /\ SteppedOff'
    <3>1. trapped = {} /\ caller = "resume"
      BY <2>5, RunnableIs DEF SpawnThread, PlainDebugging
    <3> QED BY <2>5, <3>1 DEF SpawnThread, TrapsOK, SteppedOff, Stepping, controlVars, historyVars
  <2>6. CASE DieOfSignal \/ \E t \in Thread : ExitProcess(t)
    BY <2>6 DEF DieOfSignal, ExitProcess, Die, TrapsOK, SteppedOff
  <2> QED BY <1>5, <2>2, <2>3, <2>4, <2>5, <2>6 DEF DebuggeeNext
<1> QED BY <1>2, <1>3, <1>4, <1>5 DEF Next

LEMMA NextMotion ==
  ASSUME PlainDebugging, ControlInv, Patched', MotionOK, [Next]_vars PROVE MotionOK'
<1>1. ASSUME NEW t \in Thread PROVE Ip(t)' \in Instructions
  <2>1. Ip(t) \in Instructions
    BY DEF MotionOK
  <2>2. CASE Still
    BY <2>1, <2>2 DEF Still
  <2>3. ASSUME NEW u \in Thread, Execute(u) PROVE Ip(t)' \in Instructions
    <3>1. Ip(u) \in Instructions /\ Ip(u)' \in Successors[Ip(u)]
      BY <2>3, ExecuteMoves DEF MotionOK
    <3>2. t # u => Ip(t)' = Ip(t)
      BY <2>3, ExecuteMoves
    <3> QED BY <2>1, <3>1, <3>2, InstructionsClosed
  <2> QED BY <2>2, <2>3, NextMoves DEF Moves
<1> QED BY <1>1, NextLives, NextTraps DEF MotionOK

LEMMA MotionInductive == PlainDebugging => (Spec => []MotionOK)
<1> SUFFICES ASSUME PlainDebugging PROVE Spec => []MotionOK
  OBVIOUS
<1>1. Init => MotionOK
  <2> SUFFICES ASSUME Init PROVE MotionOK
    OBVIOUS
  <2>1. \A t \in Thread : Ip(t) = Entry
    BY DEF Init, Ip
  <2> QED BY <2>1, InstructionsClosed DEF Init, MotionOK, TrapsOK, SteppedOff, Stepping
<1>2. ControlInv /\ Patched' /\ MotionOK /\ [Next]_vars => MotionOK'
  BY NextMotion
<1>3. ControlInv => Patched
  BY DEF ControlInv
<1> QED BY <1>1, <1>2, <1>3, ControlInductive, PTL DEF Spec

-----------------------------------------------------------------------------
(* What follows for the program.                                           *)

LEMMA NextIsProgram ==
  ASSUME PlainDebugging, ControlInv, MotionOK, [Next]_vars PROVE [Prog!Next]_(Prog!progVars)
<1> DEFINE ip == [t \in Thread |-> Ip(t)]
<1>1. ASSUME Still PROVE ip' = ip
  BY <1>1 DEF Still
<1>2. CASE Still /\ alive' = alive
  BY <1>1, <1>2 DEF Prog!progVars
<1>3. ASSUME NEW t \in Thread, Execute(t) PROVE Prog!Next
  <2>1. /\ t \in alive /\ alive' = alive /\ Ip(t)' \in Successors[Ip(t)]
        /\ \A u \in Thread \ {t} : Ip(u)' = Ip(u)
    BY <1>3, ExecuteMoves
  <2>2. ip' = [ip EXCEPT ![t] = Ip(t)'] /\ ip[t] = Ip(t)
    BY <2>1
  <2>3. Prog!Execute(t)
    BY <2>1, <2>2 DEF Prog!Execute
  <2> QED BY <2>3 DEF Prog!Next
<1>4. ASSUME Still, NEW t \in Thread, t \in alive, alive' = alive \ {t} PROVE Prog!Next
  BY <1>1, <1>4 DEF Prog!Next, Prog!Exit
<1>5. ASSUME Still, NEW t \in Thread, NEW u \in Thread, t \in alive, u \notin alive,
             Ip(u) = Entry, alive' = alive \union {u}
      PROVE  Prog!Next
  <2>1. Prog!Spawn(t, u)
    BY <1>1, <1>5 DEF Prog!Spawn
  <2> QED BY <2>1 DEF Prog!Next
<1>6. CASE Still /\ alive' = {}
  BY <1>1, <1>6 DEF Prog!Next, Prog!Die
<1> QED BY <1>2, <1>3, <1>4, <1>5, <1>6, NextMoves DEF Moves

\* Under the 32-bit branch of the debugger (see PlainDebugging) the debuggee executes its
\* own program: through every lift, step, int 3, step back, signal and commit of registers
\* each step of the whole system is a step of Program or none.
THEOREM DebuggingIsTransparent == PlainDebugging => (Spec => Transparent)
<1> SUFFICES ASSUME PlainDebugging PROVE Spec => Transparent
  OBVIOUS
<1>1. Init => Prog!Init
  BY DEF Init, Prog!Init, Ip
<1>2. ControlInv /\ MotionOK /\ [Next]_vars => [Prog!Next]_(Prog!progVars)
  BY NextIsProgram
<1> QED BY <1>1, <1>2, ControlInductive, MotionInductive, PTL DEF Spec, Transparent, Prog!Spec

LEMMA StepPasses ==
  ASSUME PlainDebugging, ControlInv, MotionOK, [Next]_vars, NEW t \in Thread, Ip(t)' # Ip(t),
         NEW i \in requested, breakpoints[i].address = Ip(t)
  PROVE  Stepping /\ t = threads[cursor]
<1>1. CASE Stepping
  BY <1>1, StepIsolates DEF ControlInv
<1>2. CASE ~ Stepping
  <2>1. Execute(t)
    <3>1. PICK u \in Thread : Execute(u)
      BY NextMoves DEF Moves, Still
    <3> QED BY <3>1, ExecuteMoves
  <2>2. ~ BP!StopsAt(Ip(t))
    BY <2>1, ExecuteMoves
  <2>3. proc = "live" /\ pc \in {"enterWait", "wait"} /\ caller = "resume"
    BY <1>2, <2>1, RunnableIs DEF Execute, Stepping
  <2>4. BP!StopsAt(breakpoints[i].address)
    BY <2>3, RequestedStops DEF ControlInv, Lifted
  <2> QED BY <2>2, <2>4
<1> QED BY <1>1, <1>2

\* Under the 32-bit branch, too, no thread executes the instruction under a breakpoint the
\* client has enabled unless the debugger is stepping that very thread off it.
THEOREM BreakpointsHold == PlainDebugging => (Spec => PassedOnlyByStepping)
<1> SUFFICES ASSUME PlainDebugging PROVE Spec => PassedOnlyByStepping
  OBVIOUS
<1>1. ControlInv /\ MotionOK /\ [Next]_vars
        => [\A t \in Thread :
              (Ip(t)' # Ip(t) /\ \E i \in requested : breakpoints[i].address = Ip(t))
                => Stepping /\ t = threads[cursor]]_vars
  BY StepPasses
<1> QED BY <1>1, ControlInductive, MotionInductive, PTL DEF Spec, PassedOnlyByStepping
=============================================================================
