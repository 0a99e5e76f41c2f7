---------------------------- MODULE MDBDebugger ----------------------------
(***************************************************************************)
(* The control of the debugger over one debuggee: MDBDebugger.cpp and the  *)
(* thread and task operations of MDBProcess.cpp.                           *)
(*                                                                         *)
(* The debugger is one sequential program.  It runs a command to the point *)
(* where it blocks in waitpid (internalWait), and goes on when the         *)
(* debuggee has stopped; between two such points the debuggee is           *)
(* suspended, so each stretch of code between them is one action.  `pc'    *)
(* names the next stretch, `caller' the function that internalWait returns *)
(* to.  The debuggee's threads run whenever the kernel lets them: actions  *)
(* of their own, interleaved with the debugger's.                          *)
(*                                                                         *)
(* The kernel (task and thread suspend counts, traps, signals, waitpid) is *)
(* not part of the repository; it is modelled from what the code in src/   *)
(* expects of the calls it makes.                                          *)
(***************************************************************************)
EXTENDS Integers, Sequences, FiniteSets

CONSTANTS
  AddressSpace, Byte, INT3, Text, MaxBreakpoints,   \* of MDBBreakpoint
  Thread, MainThread, Entry, Successors,            \* of Program
  Calls,          \* the addresses of call instructions
  InstructionEnd, \* InstructionEnd[a]: the address after the call at a
  BreakAddress,   \* where the client sets breakpoints
  HookAddress,    \* dyld's notification function
  Is64Bit,        \* MDBProcess::is64Bit; this commit's machIs64Bit() is TRUE
  Debuggee64,     \* whether the debuggee's threads are 64-bit
  Garbage,        \* what the uninitialised state32 of a new MDBThread may hold
  Events          \* what the client and the environment do in this instance

Address == 0 .. AddressSpace - 1
Regs == [eip : Address, tf : BOOLEAN]

ASSUME DebuggerAssumption ==
  /\ AddressSpace \in Nat \ {0}
  /\ INT3 \in Byte
  /\ Text \in [Address -> Byte]
  /\ MaxBreakpoints \in Nat
  /\ IsFiniteSet(Thread) /\ MainThread \in Thread
  /\ Entry \in Address
  /\ Successors \in [Address -> SUBSET Address]
  /\ Calls \subseteq Address
  /\ InstructionEnd \in [Calls -> Address]
  /\ BreakAddress \subseteq Address
  /\ HookAddress \in Address
  /\ Is64Bit \in BOOLEAN
  /\ Debuggee64 \in BOOLEAN
  /\ Garbage \subseteq Regs

VARIABLES
  memory, mapped, breakpoints,   \* see MDBBreakpoint
  \* The kernel's view of the debuggee.
  proc,         \* "live", or how it died: "exited" or "signaled"
  alive,        \* the threads that exist
  regs,         \* their registers
  suspend,      \* thread suspend counts
  blocked,      \* threads in TH_STATE_WAITING because they stopped the task
  taskSuspend,  \* task suspend count
  status,       \* the stop that waitpid has to report, if any
  \* The debugger.
  threads,      \* MDBProcess::threads
  state32,      \* MDBThread::state32 of each thread in it
  running,      \* MDBProcess::running
  errno,
  pc, caller,   \* see above
  cursor,       \* index in threads of the thread the command is about
  pending,      \* index of the breakpoint to re-enable, or 0
  result,       \* what the last internalWait returned
  \* History variables: read by no action's guard.
  requested,    \* breakpoints the client wants enabled
  trapped       \* threads whose last instruction was a debugger's int 3

kernelVars == <<proc, alive, regs, suspend, blocked, taskSuspend, status>>
viewVars == <<threads, state32, running, errno>>
controlVars == <<pc, caller, cursor, pending, result>>
historyVars == <<requested, trapped>>
vars == <<memory, mapped, breakpoints, kernelVars, viewVars, controlVars, historyVars>>

BP == INSTANCE MDBBreakpoint WITH Volatile <- {}

-----------------------------------------------------------------------------
(* The kernel, as far as the debugger's calls reach.                       *)

Runnable(t) ==
  /\ proc = "live" /\ t \in alive
  /\ taskSuspend = 0 /\ suspend[t] = 0 /\ ~ blocked[t]

\* A trap or a signal in t suspends the task and leaves t waiting in the kernel.
Stop(t, why) ==
  /\ taskSuspend' = taskSuspend + 1
  /\ blocked' = [blocked EXCEPT ![t] = TRUE]
  /\ status' = why

\* The process is gone: its threads, its memory and a stop not yet reported.
Die(how) ==
  /\ proc' = how
  /\ alive' = {}
  /\ mapped' = {}
  /\ status' = "none"

Before(a) == (a - 1) % AddressSpace   \* uint32 arithmetic on __eip
After(a)  == (a + 1) % AddressSpace

\* thread_set_state(x86_THREAD_STATE32) on the threads in ts: fails for dead
\* threads and for 64-bit ones.
CommitThreads(ts, view) ==
  /\ regs' = [t \in Thread |->
       IF t \in ts \intersect alive /\ ~ Debuggee64 THEN view[t] ELSE regs[t]]
  /\ trapped' = {t \in trapped : regs'[t].eip = regs[t].eip}

-----------------------------------------------------------------------------
(* MDBProcess.                                                             *)

Known == {threads[i] : i \in DOMAIN threads}

\* machUpdateThread asks for the 64-bit registers when is64Bit, and for state32
\* otherwise; the kernel refuses the flavour that the thread does not have.
UpdatesState32 == ~ Is64Bit /\ ~ Debuggee64

\* Mutant: only the threads not known yet have their registers fetched.
GatherThreads_NewOnly ==
  LET new == alive \ Known IN
  /\ \E order \in [1 .. Cardinality(new) -> new] :
       /\ \A i, j \in DOMAIN order : order[i] = order[j] => i = j
       /\ threads' = threads \o order
  /\ state32' = [t \in Thread |->
       IF t \in new /\ UpdatesState32 THEN regs[t] ELSE state32[t]]

\* gatherThreads: append the threads not known yet, in the kernel's order, and
\* fetch the registers of all live ones.  Threads that ended stay in the list.
GatherThreads ==
  LET new == alive \ Known IN
  /\ \E order \in [1 .. Cardinality(new) -> new] :
       /\ \A i, j \in DOMAIN order : order[i] = order[j] => i = j
       /\ threads' = threads \o order
  /\ state32' = [t \in Thread |->
       IF t \in alive /\ UpdatesState32 THEN regs[t] ELSE state32[t]]

\* Mutants: thread_suspend without a look at suspend_count; no thread_abort of
\* the WAITING thread; no machSuspendAllThreads.
RunOnly_CountsUp(t) ==
  /\ suspend' = [u \in Thread |->
       IF u = t THEN 0 ELSE IF u \in Known THEN suspend[u] + 1 ELSE suspend[u]]
  /\ blocked' = [blocked EXCEPT ![t] = FALSE]
  /\ taskSuspend' = 0

RunOnly_NoAbort(t) ==
  /\ suspend' = [u \in Thread |-> IF u \in Known \ {t} THEN 1 ELSE 0]
  /\ taskSuspend' = 0
  /\ UNCHANGED blocked

RunOnly_NoSuspend(t) ==
  /\ blocked' = [blocked EXCEPT ![t] = FALSE]
  /\ taskSuspend' = 0
  /\ UNCHANGED suspend

\* machSuspendAllThreads, machResumeThread(t), machResumeTask.
RunOnly(t) ==
  /\ suspend' = [u \in Thread |->
       CASE u = t /\ u \in alive -> 0
         [] u \in (Known \intersect alive) \ {t} /\ suspend[u] = 0 -> 1
         [] OTHER -> suspend[u]]
  /\ blocked' = [blocked EXCEPT ![t] = @ /\ t \notin alive]
  /\ taskSuspend' = IF proc = "live" THEN 0 ELSE taskSuspend

\* machResumeThreadsAndTask: gives up at the first thread of which thread_info
\* fails, and then does not resume the task either.
ResumeThreadsAndTask ==
  LET resumed == {t \in Known : \E j \in DOMAIN threads :
                    threads[j] = t /\ \A k \in 1 .. j : threads[k] \in alive}
  IN
  /\ suspend' = [t \in Thread |-> IF t \in resumed THEN 0 ELSE suspend[t]]
  /\ blocked' = [t \in Thread |-> blocked[t] /\ t \notin resumed]
  /\ taskSuspend' =
       IF resumed = Known /\ proc = "live" THEN 0 ELSE taskSuspend

\* Mutant: the flag is changed in state32 and not committed.
SetTrapFlag_NoCommit(t, enable) ==
  /\ state32' = [state32 EXCEPT ![t].tf = enable]
  /\ UNCHANGED <<regs, trapped>>

\* enableSingleStep(thread, enable).
SetTrapFlag(t, enable) ==
  /\ state32' = [state32 EXCEPT ![t].tf = enable]
  /\ CommitThreads({t}, state32')

-----------------------------------------------------------------------------
(* The client's calls.  Each returns to pc = "idle".                       *)

\* initializeDylinkerHooks: nothing in a 64-bit process, or when dyld or its image
\* list cannot be read; else a breakpoint on dyld's notification function.
DylinkerHooks ==
  \/ UNCHANGED <<memory, breakpoints, requested>>
  \/ /\ ~ Is64Bit
     /\ BP!CreateEnabledBreakpoint(HookAddress)
     /\ requested' = requested \union {Len(breakpoints) + 1}

\* createProcess once task_for_pid has succeeded: the debuggee is stopped by
\* the SIGTRAP of its exec.
CreateProcess ==
  /\ pc = "create"
  /\ DylinkerHooks
  /\ GatherThreads
  /\ pc' = "idle"
  /\ UNCHANGED <<mapped, kernelVars, running, errno, caller, cursor, pending,
                 result, trapped>>

\* initializeDylinkerHooks is public, and the test calls it once more.
InitializeDylinkerHooks ==
  /\ pc = "idle" /\ "hook" \in Events
  /\ DylinkerHooks
  /\ UNCHANGED <<mapped, kernelVars, viewVars, controlVars, trapped>>

\* createBreakpoint does not look for duplicates; whether the client asks for
\* them is up to the instance.
CreateBreakpoint(a) ==
  /\ pc = "idle"
  /\ "duplicate" \in Events \/ \A i \in DOMAIN breakpoints : breakpoints[i].address # a
  /\ BP!CreateBreakpoint(a)
  /\ UNCHANGED <<mapped, kernelVars, viewVars, controlVars, historyVars>>

EnableBreakpoint(i) ==
  /\ pc = "idle" /\ breakpoints[i].address \in BreakAddress
  /\ BP!EnableBreakpoint(i)
  /\ requested' = requested \union {i}
  /\ UNCHANGED <<mapped, kernelVars, viewVars, controlVars, trapped>>

DisableBreakpoint(i) ==
  /\ pc = "idle" /\ breakpoints[i].address \in BreakAddress
  /\ BP!DisableBreakpoint(i)
  /\ requested' = requested \ {i}
  /\ UNCHANGED <<mapped, kernelVars, viewVars, controlVars, trapped>>

\* resume() calls checkForBreakpointsAndStep().
Resume ==
  /\ pc = "idle"
  /\ pc' = "check" /\ cursor' = 1
  /\ UNCHANGED <<memory, mapped, breakpoints, kernelVars, viewVars, caller,
                 pending, result, historyVars>>

\* The part that step() and checkForBreakpointsAndStep() share: set the trap
\* flag of the thread at the cursor, let nothing else run, and wait.
SingleStep(from) ==
  /\ SetTrapFlag(threads[cursor'], TRUE)
  /\ RunOnly(threads[cursor'])
  /\ pc' = "enterWait" /\ caller' = from
  /\ UNCHANGED <<mapped, proc, alive, status, threads, running, errno, result,
                 requested>>

\* If an enabled breakpoint is at address a, disable it for now.
LiftBreakpoint(a) ==
  \/ /\ \E b \in DOMAIN breakpoints :
          /\ BP!IsFound(b, a) /\ breakpoints[b].enabled
          /\ BP!DisableBreakpoint(b)
          /\ pending' = b
  \/ /\ ~ BP!StopsAt(a)
     /\ pending' = 0
     /\ UNCHANGED <<memory, breakpoints>>

Step(i) ==
  /\ pc = "idle" /\ i \in DOMAIN threads
  /\ cursor' = i
  /\ LiftBreakpoint(state32[threads[i]].eip)
  /\ SingleStep("step")

\* stepOver() of an instruction that is not a call is step().
StepOver(i) ==
  /\ pc = "idle" /\ i \in DOMAIN threads /\ "stepOver" \in Events
  /\ state32[threads[i]].eip \in Calls
  /\ LiftBreakpoint(state32[threads[i]].eip)
  /\ pc' = "stepOver" /\ cursor' = i
  /\ UNCHANGED <<mapped, kernelVars, viewVars, caller, result, historyVars>>

\* resumeTask(): once for every suspension.
ResumeTask == taskSuspend' = IF proc = "live" THEN 0 ELSE taskSuspend

\* resumeAllThreadsAndTask() walks MDBDebugger::threads, to which nothing is ever
\* added: it resumes the task only.
ResumeAllThreadsAndTask == ResumeTask /\ UNCHANGED <<suspend, blocked>>

\* The breakpoint after the call goes into `breakpoints', not into
\* `transientBreakpoints'.
StepOverResume ==
  /\ pc = "stepOver"
  /\ BP!CreateEnabledBreakpoint(InstructionEnd[state32[threads[cursor]].eip])
  /\ ResumeAllThreadsAndTask
  /\ pc' = "enterWait" /\ caller' = "stepOver"
  /\ UNCHANGED <<mapped, proc, alive, regs, status, viewVars, cursor, pending,
                 result, historyVars>>

\* killProcess() does not wait for the process to die.
KillProcess ==
  /\ pc = "idle" /\ "kill" \in Events /\ proc = "live"
  /\ Die("signaled")
  /\ UNCHANGED <<memory, breakpoints, regs, suspend, blocked, taskSuspend,
                 viewVars, controlVars, historyVars>>

-----------------------------------------------------------------------------
(* checkForBreakpointsAndStep(), one thread of the list at a time.         *)

CheckStep ==
  /\ pc = "check" /\ cursor \in DOMAIN threads
  /\ BP!StopsAt(state32[threads[cursor]].eip)
  /\ cursor' = cursor
  /\ LiftBreakpoint(state32[threads[cursor]].eip)
  /\ SingleStep("check")

\* Mutant: the loop does not advance.
CheckNext_Stuck ==
  /\ pc = "check" /\ cursor \in DOMAIN threads
  /\ ~ BP!StopsAt(state32[threads[cursor]].eip)
  /\ UNCHANGED vars

CheckNext ==
  /\ pc = "check" /\ cursor \in DOMAIN threads
  /\ ~ BP!StopsAt(state32[threads[cursor]].eip)
  /\ cursor' = cursor + 1
  /\ UNCHANGED <<memory, mapped, breakpoints, kernelVars, viewVars, pc, caller,
                 pending, result, historyVars>>

\* The rest of resume() up to its internalWait.
ResumeAll ==
  /\ pc = "check" /\ cursor \notin DOMAIN threads
  /\ ResumeThreadsAndTask
  /\ pc' = "enterWait" /\ caller' = "resume"
  /\ UNCHANGED <<memory, mapped, breakpoints, proc, alive, regs, status,
                 viewVars, cursor, pending, result, historyVars>>

-----------------------------------------------------------------------------
(* internalWait(SIG_TRAP).                                                 *)

Return(r) == pc' = "return" /\ result' = r

\* pid_for_task() fails once the task is gone, be the process reaped or not.
EnterWait ==
  /\ pc = "enterWait"
  /\ IF proc = "live" THEN pc' = "wait" /\ UNCHANGED result ELSE Return("unknown")
  /\ UNCHANGED <<memory, mapped, breakpoints, kernelVars, viewVars, caller,
                 cursor, pending, historyVars>>

\* A signal to the debugger interrupts waitpid; the loop calls it again, and no
\* later success resets errno.
WaitInterrupted ==
  /\ pc = "wait" /\ "eintr" \in Events
  /\ proc = "live" /\ status = "none"
  /\ errno' = "EINTR"
  /\ UNCHANGED <<memory, mapped, breakpoints, kernelVars, threads, state32,
                 running, controlVars, historyVars>>

\* SIGTRAP ends the wait, whatever raised it.
WaitTrapped ==
  /\ pc = "wait" /\ status = "trap"
  /\ GatherThreads
  /\ status' = "none"
  /\ Return("stopped")
  /\ UNCHANGED <<memory, mapped, breakpoints, proc, alive, regs, suspend,
                 blocked, taskSuspend, running, errno, caller, cursor, pending,
                 historyVars>>

\* Mutant: internalWait returns after it has passed the signal on.
WaitSignal_Returns ==
  /\ pc = "wait" /\ status = "signal"
  /\ GatherThreads
  /\ status' = "none"
  /\ blocked' = [t \in Thread |-> blocked[t] /\ t \notin alive]
  /\ taskSuspend' = 0
  /\ Return("stopped")
  /\ UNCHANGED <<memory, mapped, breakpoints, proc, alive, regs, suspend,
                 running, errno, caller, cursor, pending, historyVars>>

\* Any other signal is passed on with PT_CONTINUE.  What the code then takes for
\* the outcome of that call is errno.
WaitSignal ==
  /\ pc = "wait" /\ status = "signal"
  /\ GatherThreads
  /\ status' = "none"
  /\ blocked' = [t \in Thread |-> blocked[t] /\ t \notin alive]
  /\ taskSuspend' = IF taskSuspend > 0 THEN taskSuspend - 1 ELSE 0
  /\ IF errno # "0" THEN Return("unknown") ELSE UNCHANGED <<pc, result>>
  /\ UNCHANGED <<memory, mapped, breakpoints, proc, alive, regs, suspend,
                 running, errno, caller, cursor, pending, historyVars>>

\* Only a normal exit reaches machSignalTerminated().
WaitExited ==
  /\ pc = "wait" /\ proc = "exited"
  /\ running' = FALSE
  /\ Return("terminated")
  /\ UNCHANGED <<memory, mapped, breakpoints, kernelVars, threads, state32,
                 errno, caller, cursor, pending, historyVars>>

WaitSignaled ==
  /\ pc = "wait" /\ proc = "signaled"
  /\ GatherThreads
  /\ Return("terminated")
  /\ UNCHANGED <<memory, mapped, breakpoints, kernelVars, running, errno, caller,
                 cursor, pending, historyVars>>

-----------------------------------------------------------------------------
(* What each caller does when internalWait has returned.                   *)

ReenablePending ==
  IF pending # 0 THEN BP!EnableBreakpoint(pending)
                 ELSE UNCHANGED <<memory, breakpoints>>

\* Mutant: the trap flag stays set.
ClearTrapFlagIfStopped_Never == UNCHANGED <<state32, regs, trapped>>

ClearTrapFlagIfStopped ==
  IF result = "stopped" THEN SetTrapFlag(threads[cursor], FALSE)
                        ELSE UNCHANGED <<state32, regs, trapped>>

\* step(): re-enables the breakpoint whatever the wait returned.
StepReturns ==
  /\ pc = "return" /\ caller = "step"
  /\ ClearTrapFlagIfStopped
  /\ ReenablePending
  /\ pc' = "idle"
  /\ UNCHANGED <<mapped, proc, alive, suspend, blocked, taskSuspend, status,
                 threads, running, errno, caller, cursor, pending, result,
                 requested>>

\* Mutant: the breakpoint stays disabled.
CheckReturns_NoReenable ==
  /\ pc = "return" /\ caller = "check"
  /\ ClearTrapFlagIfStopped
  /\ pc' = "check" /\ cursor' = cursor + 1
  /\ UNCHANGED <<memory, breakpoints, mapped, proc, alive, suspend, blocked,
                 taskSuspend, status, threads, running, errno, caller, pending,
                 result, requested>>

\* checkForBreakpointsAndStep(): only when stopped, and on to the next thread.
CheckReturns ==
  /\ pc = "return" /\ caller = "check"
  /\ ClearTrapFlagIfStopped
  /\ IF result = "stopped" THEN ReenablePending
                           ELSE UNCHANGED <<memory, breakpoints>>
  /\ pc' = "check" /\ cursor' = cursor + 1
  /\ UNCHANGED <<mapped, proc, alive, suspend, blocked, taskSuspend, status,
                 threads, running, errno, caller, pending, result, requested>>

StepOverReturns ==
  /\ pc = "return" /\ caller = "stepOver"
  /\ IF result = "stopped" THEN ReenablePending
                           ELSE UNCHANGED <<memory, breakpoints>>
  /\ pc' = "idle"
  /\ UNCHANGED <<mapped, kernelVars, viewVars, caller, cursor, pending, result,
                 historyVars>>

\* Mutant: eip is corrected in state32 and not committed.
ResumeReturns_NoCommit ==
  /\ pc = "return" /\ caller = "resume"
  /\ state32' = [t \in Thread |->
       IF t \in Known /\ BP!StopsAt(Before(state32[t].eip)) /\ result = "stopped"
         THEN [state32[t] EXCEPT !.eip = Before(@)] ELSE state32[t]]
  /\ pc' = "idle"
  /\ UNCHANGED <<memory, mapped, breakpoints, proc, alive, regs, suspend, blocked,
                 taskSuspend, status, threads, running, errno, caller, cursor,
                 pending, result, historyVars>>

\* resume(): checkForBreakpointsAndStepBack() moves every thread that is one
\* byte past an enabled breakpoint back onto it.
ResumeReturns ==
  LET hit == {t \in Known : BP!StopsAt(Before(state32[t].eip))}
      back == [t \in Thread |-> IF t \in hit
                 THEN [state32[t] EXCEPT !.eip = Before(@)] ELSE state32[t]]
  IN
  /\ pc = "return" /\ caller = "resume"
  /\ IF result = "stopped"
       THEN state32' = back /\ CommitThreads(hit, back)
       ELSE UNCHANGED <<state32, regs, trapped>>
  /\ pc' = "idle"
  /\ UNCHANGED <<memory, mapped, breakpoints, proc, alive, suspend, blocked,
                 taskSuspend, status, threads, running, errno, caller, cursor,
                 pending, result, requested>>

-----------------------------------------------------------------------------
(* The debuggee.                                                           *)

\* An instruction of the program; with the trap flag set it traps afterwards.
Execute(t) ==
  /\ Runnable(t) /\ memory[regs[t].eip] # INT3
  /\ \E a \in Successors[regs[t].eip] : regs' = [regs EXCEPT ![t].eip = a]
  /\ IF regs[t].tf THEN Stop(t, "trap")
                   ELSE UNCHANGED <<taskSuspend, blocked, status>>
  /\ trapped' = trapped \ {t}
  /\ UNCHANGED <<memory, mapped, breakpoints, proc, alive, suspend, viewVars,
                 controlVars, requested>>

\* int 3 is one byte long: the thread stops with eip just after it.
HitInt3(t) ==
  /\ Runnable(t) /\ memory[regs[t].eip] = INT3
  /\ regs' = [regs EXCEPT ![t].eip = After(@)]
  /\ Stop(t, "trap")
  /\ trapped' = trapped \union {t}
  /\ UNCHANGED <<memory, mapped, breakpoints, proc, alive, suspend, viewVars,
                 controlVars, requested>>

ReceiveSignal(t) ==
  /\ Runnable(t) /\ "signal" \in Events
  /\ Stop(t, "signal")
  /\ UNCHANGED <<memory, mapped, breakpoints, proc, alive, regs, suspend,
                 viewVars, controlVars, historyVars>>

\* A thread identifier is used once: u has not run before.  With "spawn" alone,
\* the instruction that starts a thread is never one that is single-stepped.
SpawnThread(t, u) ==
  /\ Runnable(t)
  /\ "spawnInStep" \in Events \/ ("spawn" \in Events /\ caller = "resume")
  /\ u \in Thread \ (alive \union Known) /\ regs[u].eip = Entry
  /\ alive' = alive \union {u}
  /\ UNCHANGED <<memory, mapped, breakpoints, proc, regs, suspend, blocked,
                 taskSuspend, status, viewVars, controlVars, historyVars>>

ExitThread(t) ==
  /\ Runnable(t) /\ "threadExit" \in Events /\ alive # {t}
  /\ alive' = alive \ {t}
  /\ UNCHANGED <<memory, mapped, breakpoints, proc, regs, suspend, blocked,
                 taskSuspend, status, viewVars, controlVars, historyVars>>

ExitProcess(t) ==
  /\ Runnable(t) /\ "exit" \in Events
  /\ Die("exited")
  /\ UNCHANGED <<memory, breakpoints, regs, suspend, blocked, taskSuspend,
                 viewVars, controlVars, historyVars>>

\* A fatal signal, from the program itself or from outside.
DieOfSignal ==
  /\ proc = "live" /\ "fatal" \in Events /\ pc # "create"
  /\ Die("signaled")
  /\ UNCHANGED <<memory, breakpoints, regs, suspend, blocked, taskSuspend,
                 viewVars, controlVars, historyVars>>

-----------------------------------------------------------------------------
Init ==
  /\ memory = Text /\ mapped = Address /\ breakpoints = <<>>
  /\ proc = "live" /\ alive = {MainThread}
  /\ regs = [t \in Thread |-> [eip |-> Entry, tf |-> FALSE]]
  /\ suspend = [t \in Thread |-> 0]
  /\ blocked = [t \in Thread |-> t = MainThread]
  /\ taskSuspend = 1 /\ status = "none"
  /\ threads = <<>> /\ state32 \in [Thread -> Garbage]
  /\ running = TRUE /\ errno = "0"
  /\ pc = "create" /\ caller = "none" /\ cursor = 0 /\ pending = 0
  /\ result = "none"
  /\ requested = {} /\ trapped = {}

ClientNext ==
  \/ CreateProcess \/ InitializeDylinkerHooks \/ Resume \/ KillProcess
  \/ \E a \in BreakAddress : CreateBreakpoint(a)
  \/ \E i \in DOMAIN breakpoints : EnableBreakpoint(i) \/ DisableBreakpoint(i)
  \/ \E i \in DOMAIN threads : Step(i) \/ StepOver(i)

\* What the debugger does by itself once a command has been given.
DebuggerNext ==
  \/ CheckStep \/ CheckNext \/ ResumeAll \/ StepOverResume \/ EnterWait
  \/ WaitTrapped \/ WaitSignal \/ WaitExited \/ WaitSignaled
  \/ StepReturns \/ CheckReturns \/ StepOverReturns \/ ResumeReturns

DebuggeeNext ==
  \/ \E t \in Thread : Execute(t) \/ HitInt3(t) \/ ReceiveSignal(t)
  \/ \E t \in Thread : ExitThread(t) \/ ExitProcess(t)
  \/ \E t, u \in Thread : SpawnThread(t, u)
  \/ DieOfSignal

Next == ClientNext \/ DebuggerNext \/ WaitInterrupted \/ DebuggeeNext

Spec == Init /\ [][Next]_vars

(* The loops of the debugger run on their own thread of control, and the       *)
(* kernel schedules some runnable thread of the debuggee.                      *)
DebuggeeRuns == \E t \in Thread : Execute(t) \/ HitInt3(t)

FairSpec == Spec /\ WF_vars(DebuggerNext) /\ WF_vars(DebuggeeRuns)

-----------------------------------------------------------------------------
(* Properties.                                                             *)

\* Every variable holds a value of its type.  That suspend counts stay at 0 or
\* 1 is what the test of suspend_count in machSuspendThread is for.
TypeOK ==
  /\ BP!TypeOK
  /\ proc \in {"live", "exited", "signaled"}
  /\ alive \subseteq Thread
  /\ regs \in [Thread -> Regs]
  /\ suspend \in [Thread -> 0 .. 1]
  /\ blocked \in [Thread -> BOOLEAN]
  /\ taskSuspend \in 0 .. 1
  /\ status \in {"none", "trap", "signal"}
  /\ threads \in Seq(Thread)
  /\ state32 \in [Thread -> Regs]
  /\ running \in BOOLEAN
  /\ errno \in {"0", "EINTR"}
  /\ pc \in {"create", "idle", "check", "stepOver", "enterWait", "wait", "return"}
  /\ caller \in {"none", "check", "step", "stepOver", "resume"}
  /\ cursor \in Nat
  /\ pending \in Nat
  /\ result \in {"none", "stopped", "terminated", "unknown"}
  /\ requested \subseteq Nat
  /\ trapped \subseteq Thread

\* Where the program believes t is: an int 3 of the debugger is no instruction
\* of the program, and the thread that executed it has not moved.
Ip(t) == IF t \in trapped THEN Before(regs[t].eip) ELSE regs[t].eip

\* The debugger is executing code that the comments of resume() and step()
\* expect to find the debuggee stopped in.
Commanding ==
  \/ pc \in {"create", "idle", "check", "stepOver"}
  \/ pc = "return" /\ result = "stopped"

\* step() or checkForBreakpointsAndStep() is single-stepping threads[cursor].
Stepping == pc \in {"enterWait", "wait"} /\ caller \in {"check", "step"}

Prog == INSTANCE Program WITH ip <- [t \in Thread |-> Ip(t)], live <- alive

\* The debuggee still executes its own program: it never runs from the middle of
\* an instruction, skips one or repeats one because of int 3, the trap flag, the
\* step back or a commit of stale registers.
Transparent == Prog!Spec

\* No thread executes the instruction under a breakpoint the client has enabled
\* unless the debugger is stepping that very thread off it: while the breakpoint
\* is lifted no other thread slips past.
PassedOnlyByStepping ==
  [][\A t \in Thread :
       (Ip(t)' # Ip(t) /\ \E i \in requested : breakpoints[i].address = Ip(t))
         => Stepping /\ t = threads[cursor]]_vars

\* While one thread is single-stepped no other moves, and it moves by one
\* instruction: the comment above step().
SingleStepIsolated ==
  [][\A t \in Thread :
       (Stepping /\ Ip(t)' # Ip(t)) => t = threads[cursor] /\ status' = "trap"]_vars

\* internalWait() never waits for a debuggee of which no thread can run.
WaitCanEnd ==
  pc = "wait" /\ proc = "live" /\ status = "none" => \E t \in Thread : Runnable(t)

\* When the debugger is about to read registers, write memory or ask the client,
\* the debuggee stands still.
StoppedWhileCommanding == Commanding => \A t \in Thread : ~ Runnable(t)

\* A breakpoint the client has enabled is enabled whenever the client is asked
\* for the next command, through every lift and step.  So it is after it has
\* stopped a thread, which is not what a comment says (see StepBackDisables).
BreakpointsKept ==
  pc = "idle" /\ proc = "live" => \A i \in requested : breakpoints[i].enabled

\* No trap flag is left behind by a single step.
TrapFlagClean ==
  pc = "idle" /\ proc = "live" => \A t \in alive : ~ regs[t].tf

\* The client sees every thread, and its registers as they are.  Only the 32-bit branch
\* can have this: with machIs64Bit() TRUE, state32 is never fetched.
ViewFresh ==
  pc = "idle" /\ proc = "live"
    => alive \subseteq Known /\ \A t \in alive : state32[t] = regs[t]

\* The program text differs from the image only in int 3 bytes that enabled
\* breakpoints stand for, and every saved byte is the program's own.
MemoryIntact == proc = "live" => BP!NoOrphanedInt3 /\ BP!PatchIsText

\* The step back undoes an int 3 and nothing else: the comment above
\* checkForBreakpointsAndStepBack().
StepBackUndoesInt3 ==
  [][\A t \in Thread :
       (pc = "return" /\ caller = "resume" /\ regs'[t].eip # regs[t].eip)
         => t \in trapped]_vars

\* "... if so, we disable the breakpoint and step back", says the comment above
\* checkForBreakpointsAndStepBack(): where a thread is put back there is no enabled
\* breakpoint any more.
StepBackDisables ==
  [][\A t \in Thread :
       (pc = "return" /\ caller = "resume" /\ regs'[t].eip # regs[t].eip)
         => \A i \in DOMAIN breakpoints' :
              breakpoints'[i].address = regs'[t].eip => ~ breakpoints'[i].enabled]_vars

\* A step command comes back to the client.
StepReturnsToClient == (pc = "enterWait" /\ caller = "step") ~> (pc = "idle")

\* resume() gets all breakpoints out of the way and lets the debuggee run.
ResumeReachesDebuggee ==
  (pc = "check") ~> (pc \in {"enterWait", "wait"} /\ caller = "resume")
=============================================================================
