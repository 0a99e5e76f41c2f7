--------------------------- MODULE MDBLaunch_proof ---------------------------
(***************************************************************************)
(* Proofs about MDBLaunch, for any choice of failures and signals: as long *)
(* as no call of the parent has been interrupted, its console does not run *)
(* while the child does.                                                   *)
(*                                                                         *)
(* The property says so of the states in which createProcess() has come    *)
(* back and commands are read.  To be inductive it must hold wherever the  *)
(* parent has just heard of the child, and rest on what the kernel reports:*)
(* a child with a report does not run, and waitpid fails with ECHILD only  *)
(* for one that is dead.                                                   *)
(***************************************************************************)
EXTENDS MDBLaunch, TLAPS

ParentLabels ==
  {"acquire", "fork", "wait", "decide", "sleep", "prompt", "enterWait", "internalWait",
   "check", "ended"}
ChildLabels ==
  {"none", "traceMe", "exec", "sleep", "prompt", "crashing", "target", "ended"}
Labels == ParentLabels \union ChildLabels

Reports ==
  /\ report # "none" => child \in {"stopped", "dead"}
  /\ report \in {"trap", "signal"} \/ status \in {"trap", "signal"} => traced
  /\ errno = "ECHILD" => child = "dead"
  /\ pc["child"] \in {"exec", "sleep", "target"} => traced
  /\ pc["parent"] \in {"acquire", "fork"} => child = "unborn" /\ report = "none"

\* The parent is where no child runs: there is none yet, or it has been heard of.
Heard(label) == label \in {"acquire", "fork", "decide", "sleep", "prompt", "check"}

Settled == errno # "EINTR" => (Heard(pc["parent"]) => child # "running")

IInv ==
  /\ pc \in [{"parent", "child"} -> Labels] /\ TypeOK
  /\ Reports /\ Settled

-----------------------------------------------------------------------------
\* The parent goes on; the child stays where it is.
LEMMA ParentMoves ==
  ASSUME IInv, NEW label \in ParentLabels, Goto("parent", label)
  PROVE  /\ pc' \in [{"parent", "child"} -> Labels]
         /\ pc'["parent"] = label /\ pc'["child"] = pc["child"] /\ pc["child"] \in ChildLabels
BY DEF IInv, TypeOK, Goto, Labels, ChildLabels

\* The child ends or stops; nobody starts it.
LEMMA ChildHalts ==
  ASSUME IInv,
         \/ \E why \in {"exited", "signaled"} : ChildDies(why)
         \/ child # "dead" /\ ChildStops("trap") /\ traced
         \/ child # "dead" /\ ChildSignalled
         \/ ParentGone
  PROVE  /\ child' \in {child, "stopped", "dead"} /\ traced' = traced /\ image' = image
         /\ how' \in {"none", "exited", "signaled"} /\ (child' = "dead" <=> how' # "none")
         /\ report' \in {"none", "trap", "signal", "exited", "signaled"}
         /\ report' # "none" => child' \in {"stopped", "dead"}
         /\ report' \in {"trap", "signal"} => traced
         /\ child = "dead" => child' = "dead"
BY DEF IInv, TypeOK, Reports, ChildDies, ChildStops, ChildSignalled, ParentGone, childVars

\* A step that only halts the child, or leaves it alone, and moves one process.
LEMMA HaltKeepsInv ==
  ASSUME IInv, pc' \in [{"parent", "child"} -> Labels], UNCHANGED parentVars,
         pc'["parent"] \in ParentLabels, pc'["child"] \in ChildLabels,
         Heard(pc'["parent"]) => Heard(pc["parent"]) \/ child # "running",
         pc'["child"] \in {"exec", "sleep", "target"} => traced,
         pc'["parent"] \in {"acquire", "fork"} => pc' = pc /\ UNCHANGED childVars,
         \/ UNCHANGED childVars
         \/ \E why \in {"exited", "signaled"} : ChildDies(why)
         \/ child # "dead" /\ ChildStops("trap") /\ traced
         \/ child # "dead" /\ ChildSignalled
         \/ ParentGone
  PROVE  IInv'
<1>1. /\ child' \in {child, "stopped", "dead"} /\ traced' = traced /\ image' = image
      /\ how' \in {"none", "exited", "signaled"} /\ (child' = "dead" <=> how' # "none")
      /\ report' \in {"none", "trap", "signal", "exited", "signaled"}
      /\ report' # "none" => child' \in {"stopped", "dead"}
      /\ report' \in {"trap", "signal"} => traced
      /\ child = "dead" => child' = "dead"
  <2>1. CASE UNCHANGED childVars
    BY <2>1 DEF IInv, TypeOK, Reports, childVars
  <2> QED BY <2>1, ChildHalts
<1>2. errno' = errno /\ status' = status /\ process' = process /\ running' = running
  BY DEF parentVars
<1>3. TypeOK'
  BY <1>1, <1>2 DEF IInv, TypeOK, ParentLabels, ChildLabels
<1>4. Reports'
  BY <1>1, <1>2 DEF IInv, TypeOK, Reports, childVars
<1>5. Settled'
  BY <1>1, <1>2 DEF IInv, TypeOK, Settled
<1> QED BY <1>3, <1>4, <1>5 DEF IInv

\* The steps that move one process and at most halt the child.
LEMMA HaltingSteps ==
  ASSUME IInv,
         \/ EnterWait \/ CheckRunning \/ TargetTraps \/ TargetExits \/ SignalChild \/ KillChild
         \/ \E p \in {"parent", "child"} : Sleep(p) \/ Quit(p) \/ Crash(p)
  PROVE  IInv'
<1>1. /\ pc \in [{"parent", "child"} -> Labels] /\ UNCHANGED parentVars
      /\ pc["parent"] \in ParentLabels /\ pc["child"] \in ChildLabels
      /\ pc["child"] \in {"exec", "sleep", "target"} => traced
  BY DEF IInv, TypeOK, Reports, ParentLabels, ChildLabels, EnterWait, CheckRunning, TargetTraps,
         TargetExits, SignalChild, KillChild, Sleep, Quit, Crash, parentVars
<1>2. CASE EnterWait
  <2>1. PICK label \in {"check", "internalWait"} :
          Goto("parent", label) /\ (label = "check" => child = "dead") /\ UNCHANGED childVars
    BY <1>2 DEF EnterWait
  <2>2. pc' \in [{"parent", "child"} -> Labels] /\ pc'["parent"] = label /\ pc'["child"] = pc["child"]
    BY <1>1, <2>1 DEF Goto, Labels, ParentLabels, ChildLabels
  <2> QED BY <1>1, <2>1, <2>2, HaltKeepsInv DEF ParentLabels, Heard
<1>3. CASE CheckRunning
  <2>1. PICK label \in {"prompt", "ended"} :
          Goto("parent", label) /\ pc["parent"] = "check" /\ (UNCHANGED childVars \/ ParentGone)
    BY <1>3 DEF CheckRunning
  <2>2. pc' \in [{"parent", "child"} -> Labels] /\ pc'["parent"] = label /\ pc'["child"] = pc["child"]
    BY <1>1, <2>1 DEF Goto, Labels, ParentLabels, ChildLabels
  <2> QED BY <1>1, <2>1, <2>2, HaltKeepsInv DEF ParentLabels, Heard
<1>4. CASE TargetTraps \/ TargetExits \/ SignalChild \/ KillChild
  <2>1. pc' = pc
    BY <1>4 DEF TargetTraps, TargetExits, SignalChild, KillChild
  <2>2. \/ \E why \in {"exited", "signaled"} : ChildDies(why)
        \/ child # "dead" /\ ChildStops("trap") /\ traced
        \/ child # "dead" /\ ChildSignalled
    BY <1>1, <1>4 DEF TargetTraps, TargetExits, SignalChild, KillChild
  <2>3. pc["parent"] \notin {"acquire", "fork"}
    BY <1>4 DEF TargetTraps, TargetExits, SignalChild, KillChild, IInv, Reports
  <2> QED BY <1>1, <2>1, <2>2, <2>3, HaltKeepsInv
<1>5. ASSUME NEW p \in {"parent", "child"}, Sleep(p) \/ Quit(p) \/ Crash(p)
      PROVE  IInv'
  <2>1. PICK label \in {"prompt", "ended", "crashing"} :
          /\ Goto(p, label)
          /\ p = "parent" => label # "crashing" /\ Heard(pc["parent"])
          /\ \/ UNCHANGED childVars \/ ParentGone \/ ChildDies("exited")
             \/ child # "dead" /\ ChildSignalled
    BY <1>1, <1>5 DEF Sleep, Quit, Crash, Executing, Heard, ParentLabels, Attached
  <2>2. /\ pc' \in [{"parent", "child"} -> Labels] /\ pc'[p] = label
        /\ \A q \in {"parent", "child"} : q # p => pc'[q] = pc[q]
    BY <1>1, <2>1 DEF Goto, Labels, ParentLabels, ChildLabels
  <2>3. pc["parent"] \notin {"acquire", "fork"}
    BY <1>5 DEF Sleep, Quit, Crash, Executing, IInv, Reports
  <2> QED BY <1>1, <2>1, <2>2, <2>3, HaltKeepsInv DEF ParentLabels, ChildLabels, Heard
<1> QED BY <1>2, <1>3, <1>4, <1>5

\* createProcess(), in the parent and in the child, and what follows its return.
LEMMA LaunchSteps ==
  ASSUME IInv, Acquire \/ Fork \/ WaitReports \/ (\E error \in {"ECHILD", "EINTR"} :
                 WaitEnds(error) /\ (error = "ECHILD" => child = "dead"))
               \/ Decide \/ TraceMe \/ Exec
  PROVE  IInv'
<1>1. /\ pc \in [{"parent", "child"} -> Labels] /\ TypeOK /\ Reports /\ Settled
  BY DEF IInv
<1>2. CASE Acquire
  BY <1>1, <1>2 DEF Acquire, Goto, childVars, parentVars, IInv, TypeOK, Reports, Settled, Heard,
     Labels, ParentLabels, ChildLabels
<1>3. CASE Fork
  <2>1. /\ pc["parent"] = "fork"
        /\ \/ pc' = [parent |-> "wait", child |-> "traceMe"] /\ child' = "running"
           \/ Goto("parent", "prompt") /\ child' = child
        /\ UNCHANGED <<how, report, traced, image, errno, status, process, running>>
    BY <1>3 DEF Fork, parentVars
  <2>2. CASE pc' = [parent |-> "wait", child |-> "traceMe"] /\ child' = "running"
    <3>1. pc' \in [{"parent", "child"} -> Labels]
      BY <2>2 DEF Labels, ParentLabels, ChildLabels
    <3>2. pc'["parent"] = "wait" /\ pc'["child"] = "traceMe"
      BY <2>2
    <3>3. child = "unborn" /\ errno # "ECHILD" /\ report = "none"
      BY <1>1, <2>1 DEF Reports
    <3> QED BY <1>1, <2>1, <2>2, <3>1, <3>2, <3>3 DEF IInv, TypeOK, Reports, Settled, Heard
  <2>3. CASE Goto("parent", "prompt") /\ child' = child
    <3>1. /\ pc' \in [{"parent", "child"} -> Labels]
          /\ pc'["parent"] = "prompt" /\ pc'["child"] = pc["child"]
      BY <1>1, <2>3 DEF Goto, Labels, ParentLabels
    <3> QED BY <1>1, <2>1, <2>3, <3>1 DEF IInv, TypeOK, Reports, Settled, Heard
  <2> QED BY <2>1, <2>2, <2>3
<1>4. CASE WaitReports
  BY <1>1, <1>4 DEF WaitReports, Goto, IInv, TypeOK, Reports, Settled, Heard,
     Labels, ParentLabels, ChildLabels
<1>5. ASSUME NEW error \in {"ECHILD", "EINTR"}, WaitEnds(error), error = "ECHILD" => child = "dead"
      PROVE  IInv'
  <2>1. /\ pc["parent"] = "wait" /\ report = "none" /\ errno' = error /\ Goto("parent", "decide")
        /\ UNCHANGED <<child, how, report, traced, image, status, process, running>>
    BY <1>5 DEF WaitEnds, childVars
  <2>2. /\ pc' \in [{"parent", "child"} -> Labels]
        /\ pc'["parent"] = "decide" /\ pc'["child"] = pc["child"]
    BY <2>1, ParentMoves DEF ParentLabels
  <2>3. TypeOK'
    BY <1>1, <2>1, <2>2 DEF TypeOK
  <2>4. Reports' /\ Settled'
    BY <1>1, <1>5, <2>1, <2>2 DEF Reports, Settled, Heard
  <2> QED BY <2>2, <2>3, <2>4 DEF IInv
<1>6. CASE Decide
  <2>1. PICK label \in {"prompt", "sleep"} :
          /\ pc["parent"] = "decide" /\ Goto("parent", label)
          /\ \/ process' = process /\ running' = running
             \/ process' = TRUE /\ running' = TRUE /\ status \in {"trap", "signal"}
          /\ UNCHANGED <<child, how, report, traced, image, errno, status>>
    BY <1>6 DEF Decide, childVars
  <2>2. /\ pc' \in [{"parent", "child"} -> Labels]
        /\ pc'["parent"] = label /\ pc'["child"] = pc["child"]
    BY <2>1, ParentMoves DEF ParentLabels
  <2>3. process' \in BOOLEAN /\ running' \in BOOLEAN /\ (process' => traced)
    <3>1. /\ process \in BOOLEAN /\ running \in BOOLEAN /\ (process => traced)
          /\ status \in {"trap", "signal"} => traced = TRUE
      BY <1>1 DEF TypeOK, Reports
    <3>2. CASE process' = process /\ running' = running
      BY <3>1, <3>2
    <3>3. CASE process' = TRUE /\ running' = TRUE /\ status \in {"trap", "signal"}
      BY <3>1, <3>3
    <3> QED BY <2>1, <3>2, <3>3
  <2>4. TypeOK'
    BY <1>1, <2>1, <2>2, <2>3 DEF TypeOK
  <2>5. Reports' /\ Settled'
    BY <1>1, <2>1, <2>2 DEF Reports, Settled, Heard
  <2> QED BY <2>2, <2>4, <2>5 DEF IInv
<1>7. CASE TraceMe
  <2>1. PICK label \in {"exec", "prompt"} :
          /\ pc["child"] = "traceMe" /\ child = "running" /\ Goto("child", label)
          /\ \/ label = "exec" /\ traced' = TRUE
             \/ label = "prompt" /\ traced' = traced
          /\ UNCHANGED <<child, how, report, image, errno, status, process, running>>
    BY <1>7 DEF TraceMe, Executing, parentVars
  <2>2. /\ pc' \in [{"parent", "child"} -> Labels]
        /\ pc'["child"] = label /\ pc'["parent"] = pc["parent"]
    BY <1>1, <2>1 DEF Goto, Labels, ChildLabels
  <2>3. traced' \in BOOLEAN /\ (process' => traced')
    <3>1. process \in BOOLEAN /\ traced \in BOOLEAN /\ (process => traced) /\ process' = process
      BY <1>1, <2>1 DEF TypeOK
    <3>2. CASE traced' = TRUE
      BY <3>1, <3>2
    <3>3. CASE traced' = traced
      BY <3>1, <3>3
    <3> QED BY <2>1, <3>2, <3>3
  <2>4. TypeOK'
    BY <1>1, <2>1, <2>2, <2>3 DEF TypeOK
  <2>5. Reports' /\ Settled'
    BY <1>1, <2>1, <2>2 DEF Reports, Settled, Heard
  <2> QED BY <2>2, <2>4, <2>5 DEF IInv
<1>8. CASE Exec
  BY <1>1, <1>8 DEF Exec, Executing, Goto, parentVars, IInv, TypeOK, Reports, Settled, Heard,
     Labels, ParentLabels, ChildLabels
<1> QED BY <1>2, <1>3, <1>4, <1>5, <1>6, <1>7, <1>8

\* resume or step, and internalWait().
LEMMA WaitingSteps ==
  ASSUME IInv, Resume \/ WaitInterrupted \/ WaitReturns \/ WaitSignal
  PROVE  IInv'
<1>1. /\ pc \in [{"parent", "child"} -> Labels] /\ TypeOK /\ Reports /\ Settled
  BY DEF IInv
<1>2. CASE Resume
  <2>1. /\ pc["parent"] = "prompt" /\ Goto("parent", "enterWait")
        /\ \/ child = "stopped" /\ child' = "running" /\ report' = "none"
           \/ child' = child /\ report' = report
        /\ UNCHANGED <<how, traced, image, errno, status, process, running>>
    BY <1>2 DEF Resume, parentVars
  <2>2. /\ pc' \in [{"parent", "child"} -> Labels]
        /\ pc'["parent"] = "enterWait" /\ pc'["child"] = pc["child"]
    BY <2>1, ParentMoves DEF ParentLabels
  <2>3. TypeOK'
    BY <1>1, <2>1, <2>2 DEF TypeOK
  <2>4. Reports' /\ Settled'
    BY <1>1, <2>1, <2>2 DEF TypeOK, Reports, Settled, Heard
  <2> QED BY <2>2, <2>3, <2>4 DEF IInv
<1>3. CASE WaitInterrupted
  BY <1>1, <1>3 DEF WaitInterrupted, childVars, IInv, TypeOK, Reports, Settled, Heard,
     Labels, ParentLabels, ChildLabels
<1>4. CASE WaitReturns
  BY <1>1, <1>4 DEF WaitReturns, Goto, IInv, TypeOK, Reports, Settled, Heard,
     Labels, ParentLabels, ChildLabels
<1>5. CASE WaitSignal
  <2>1. PICK label \in {"internalWait", "check"} :
          /\ pc["parent"] = "internalWait" /\ report = "signal" /\ Goto("parent", label)
          /\ \/ /\ child # "dead" /\ child' = "running" /\ report' = "none" /\ how' = how
                /\ label = "check" => errno # "0"
             \/ child' = "dead" /\ report' = "signaled" /\ how' = "signaled"
          /\ UNCHANGED <<traced, image, errno, status, process, running>>
    BY <1>1, <1>5 DEF WaitSignal, ChildDies, Goto, parentVars
  <2>2. /\ pc' \in [{"parent", "child"} -> Labels]
        /\ pc'["parent"] = label /\ pc'["child"] = pc["child"]
    BY <2>1, ParentMoves DEF ParentLabels
  <2>3. TypeOK'
    BY <1>1, <2>1, <2>2 DEF TypeOK
  <2>4. Reports'
    BY <1>1, <2>1, <2>2 DEF TypeOK, Reports
  <2>5. Settled'
    BY <1>1, <2>1, <2>2 DEF TypeOK, Reports, Settled, Heard
  <2> QED BY <2>2, <2>3, <2>4, <2>5 DEF IInv
<1> QED BY <1>2, <1>3, <1>4, <1>5

-----------------------------------------------------------------------------
(* The theorems.                                                           *)

\* The invariant, in every state of every launch and every session after it.
THEOREM LaunchInvariant == Spec => []IInv
<1>1. Init => IInv
  <2> SUFFICES ASSUME Init PROVE IInv
    OBVIOUS
  <2>1. pc["parent"] = "acquire" /\ pc["child"] = "none"
    BY DEF Init
  <2>2. pc \in [{"parent", "child"} -> Labels]
    BY DEF Init, Labels, ParentLabels, ChildLabels
  <2>3. errno \in {"0", "EINTR"}
    BY DEF Init
  <2> QED BY <2>1, <2>2, <2>3 DEF Init, IInv, TypeOK, Reports, Settled, Heard
<1>2. IInv /\ [Next]_vars => IInv'
  <2> SUFFICES ASSUME IInv, [Next]_vars PROVE IInv'
    OBVIOUS
  <2>1. CASE LaunchNext
    <3>1. WaitFails => WaitEnds("ECHILD") /\ child = "dead"
      BY DEF WaitFails
    <3> QED BY <2>1, <3>1, LaunchSteps, HaltingSteps, WaitingSteps DEF LaunchNext
  <2>2. CASE ChildNext
    BY <2>2, LaunchSteps, HaltingSteps DEF ChildNext
  <2>3. CASE UserNext
    BY <2>3, WaitingSteps, HaltingSteps DEF UserNext
  <2>4. CASE LaunchInterrupted
    BY <2>4, LaunchSteps DEF LaunchInterrupted
  <2>5. CASE WaitInterrupted \/ TargetTraps \/ TargetExits \/ SignalChild \/ KillChild
    BY <2>5, WaitingSteps, HaltingSteps
  <2>6. CASE UNCHANGED vars
    BY <2>6 DEF vars, childVars, parentVars, IInv, TypeOK, Reports, Settled, Heard,
     Labels, ParentLabels, ChildLabels
  <2> QED BY <2>1, <2>2, <2>3, <2>4, <2>5, <2>6 DEF Next
<1> QED BY <1>1, <1>2, PTL DEF Spec

\* Whatever fails and whoever is killed when, the console and the child do not run at the
\* same time, until a call of the parent is interrupted.
THEOREM LaunchChildSettled == Spec => []ChildSettled
<1>1. IInv => ChildSettled
  BY DEF IInv, Settled, Heard, ChildSettled, LaunchWaits
<1> QED BY <1>1, LaunchInvariant, PTL

\* The parent and the child stay within the steps of launch(), and what the parent has
\* read of the child fits what has become of it.
THEOREM LaunchTypes == Spec => []TypeOK
<1>1. IInv => TypeOK
  BY DEF IInv
<1> QED BY <1>1, LaunchInvariant, PTL
=============================================================================
