------------------------------ MODULE MDBLaunch ------------------------------
(***************************************************************************)
(* How a debuggee is launched and how the console lives with it:           *)
(* MDBDebugger::createProcess() and the command loop MDBConsole::run().    *)
(*                                                                         *)
(* fork() makes a second process that executes the same code until its     *)
(* execv succeeds; when PT_TRACE_ME or execv fails it returns from         *)
(* createProcess() like its parent and runs the console loop too.  So both *)
(* processes have a `pc', and the actions of the console are theirs alike. *)
(* What a resumed debuggee does under the debugger is MDBDebugger's        *)
(* business: here it runs, stops, exits or dies while the parent waits.    *)
(***************************************************************************)
EXTENDS Naturals

CONSTANT Events \* the failures and signals that happen in this instance

ASSUME LaunchAssumption ==
  Events \subseteq {"acquireFails", "forkFails", "traceFails", "execFails",
                    "taskFails", "stale", "eintr", "signal", "kill", "eof"}

VARIABLES
  pc,        \* of "parent" and "child"
  child,     \* the kernel's state of the child: "unborn", "running", "stopped", "dead"
  how,       \* how it died: "exited" or "signaled"
  report,    \* what waitpid has to report of it
  traced,    \* PT_TRACE_ME
  image,     \* the program it executes
  errno,     \* the parent's
  status,    \* createProcess's local, 0 before waitpid has filled it in
  process,   \* MDBDebugger::process # NULL, in the parent
  running    \* MDBProcess::running, in the parent

childVars == <<child, how, report, traced, image>>
parentVars == <<errno, status, process, running>>
vars == <<pc, childVars, parentVars>>

Goto(p, label) == pc' = [pc EXCEPT ![p] = label]

-----------------------------------------------------------------------------
(* The kernel.                                                             *)

\* A process that is stopped or dead executes nothing.
Executing(p) == p = "child" => child = "running"

\* The child ends; its parent can wait for it.
ChildDies(why) ==
  /\ child' = "dead" /\ how' = why /\ report' = why
  /\ UNCHANGED <<traced, image>>

ChildStops(why) ==
  /\ child' = "stopped" /\ report' = why
  /\ UNCHANGED <<how, traced, image>>

\* A signal with no handler: a traced process stops and the tracer hears of it.
ChildSignalled == IF traced THEN ChildStops("signal") ELSE ChildDies("signaled")

\* When its tracer is gone, the kernel kills a traced process.
ParentGone ==
  IF traced /\ child # "dead" THEN ChildDies("signaled") ELSE UNCHANGED childVars

-----------------------------------------------------------------------------
(* createProcess().                                                        *)

Acquire ==
  /\ pc["parent"] = "acquire"
  /\ \/ Goto("parent", "fork")
     \/ "acquireFails" \in Events /\ Goto("parent", "prompt")
  /\ UNCHANGED <<childVars, parentVars>>

Fork ==
  /\ pc["parent"] = "fork"
  /\ \/ /\ pc' = [parent |-> "wait", child |-> "traceMe"]
        /\ child' = "running"
     \/ /\ "forkFails" \in Events
        /\ Goto("parent", "prompt")
        /\ UNCHANGED child
  /\ UNCHANGED <<how, report, traced, image, parentVars>>

TraceMe ==
  /\ pc["child"] = "traceMe" /\ Executing("child")
  /\ \/ traced' = TRUE /\ Goto("child", "exec")
     \/ /\ "traceFails" \in Events
        /\ Goto("child", "prompt")
        /\ UNCHANGED traced
  /\ UNCHANGED <<child, how, report, image, parentVars>>

\* A traced process stops with SIGTRAP after its exec.
Exec ==
  /\ pc["child"] = "exec" /\ Executing("child")
  /\ \/ /\ image' = "target" /\ child' = "stopped" /\ report' = "trap"
        /\ Goto("child", "target")
     \/ /\ "execFails" \in Events
        /\ Goto("child", "sleep")
        /\ UNCHANGED <<child, report, image>>
  /\ UNCHANGED <<how, traced, parentVars>>

\* Mutants: the test of errno the wrong way round; waitpid with WNOHANG.
WaitReports_Inverted ==
  /\ pc["parent"] = "wait" /\ report # "none"
  /\ status' = report /\ report' = "none"
  /\ IF errno # "EINTR" THEN UNCHANGED pc ELSE Goto("parent", "decide")
  /\ UNCHANGED <<child, how, traced, image, errno, process, running>>

WaitReports_NoHang ==
  /\ pc["parent"] = "wait"
  /\ status' = (IF report = "none" THEN status ELSE report) /\ report' = "none"
  /\ Goto("parent", "decide")
  /\ UNCHANGED <<child, how, traced, image, errno, process, running>>

\* The loop around waitpid goes on while it succeeds with errno = EINTR, which no
\* success resets.
WaitReports ==
  /\ pc["parent"] = "wait" /\ report # "none"
  /\ status' = report /\ report' = "none"
  /\ IF errno = "EINTR" THEN UNCHANGED pc ELSE Goto("parent", "decide")
  /\ UNCHANGED <<child, how, traced, image, errno, process, running>>

\* It ends when waitpid fails: the child is reaped, or a signal comes first.
WaitEnds(error) ==
  /\ pc["parent"] = "wait" /\ report = "none"
  /\ errno' = error
  /\ Goto("parent", "decide")
  /\ UNCHANGED <<childVars, status, process, running>>

WaitFails == child = "dead" /\ WaitEnds("ECHILD")
LaunchInterrupted == "eintr" \in Events /\ WaitEnds("EINTR")

\* Mutant: a status that says neither stopped nor signaled is success.
Decide_ZeroIsStopped ==
  /\ pc["parent"] = "decide"
  /\ IF status \in {"trap", "signal", "exited"}
       THEN process' = TRUE /\ running' = TRUE /\ Goto("parent", "prompt")
       ELSE UNCHANGED <<process, running>> /\ Goto("parent", "sleep")
  /\ UNCHANGED <<childVars, errno, status>>

\* WIFSTOPPED: task_for_pid, and a return either way; the -1 of its failure is a
\* true too.  WIFEXITED holds of the initial 0.
Decide ==
  /\ pc["parent"] = "decide"
  /\ \/ /\ status \in {"trap", "signal"}
        /\ \/ child # "dead" /\ process' = TRUE /\ running' = TRUE
           \/ /\ child = "dead" \/ "taskFails" \in Events
              /\ UNCHANGED <<process, running>>
        /\ Goto("parent", "prompt")
     \/ /\ status \in {"zero", "exited", "signaled"}
        /\ Goto("parent", "sleep")
        /\ UNCHANGED <<process, running>>
  /\ UNCHANGED <<childVars, errno, status>>

\* sleep(1000); return false;
Sleep(p) ==
  /\ pc[p] = "sleep" /\ Executing(p)
  /\ Goto(p, "prompt")
  /\ UNCHANGED <<childVars, parentVars>>

-----------------------------------------------------------------------------
(* MDBConsole::run(), in whichever process has come back from              *)
(* createProcess(); its result is not looked at.                           *)

Attached(p) == p = "parent" /\ process

\* commandQuit() calls exit(0).
Quit(p) ==
  /\ pc[p] = "prompt" /\ Executing(p)
  /\ Goto(p, "ended")
  /\ IF p = "parent" THEN ParentGone ELSE ChildDies("exited")
  /\ UNCHANGED parentVars

\* Whatever else is typed, debugger.process is dereferenced; and readline returns
\* NULL at the end of input.
Crash(p) ==
  /\ pc[p] \in {"prompt", "crashing"} /\ Executing(p)
  /\ ~ Attached(p) \/ "eof" \in Events
  /\ IF p = "parent"
       THEN Goto(p, "ended") /\ ParentGone
       ELSE Goto(p, "crashing") /\ ChildSignalled
  /\ UNCHANGED parentVars

\* resume and step.  The other commands change nothing here.  A process that runs again
\* has no stop to report.
Resume ==
  /\ pc["parent"] = "prompt" /\ Attached("parent")
  /\ IF child = "stopped" THEN child' = "running" /\ report' = "none"
                          ELSE UNCHANGED <<child, report>>
  /\ Goto("parent", "enterWait")
  /\ UNCHANGED <<how, traced, image, parentVars>>

\* internalWait(): pid_for_task fails once the child is dead.
EnterWait ==
  /\ pc["parent"] = "enterWait"
  /\ Goto("parent", IF child = "dead" THEN "check" ELSE "internalWait")
  /\ UNCHANGED <<childVars, parentVars>>

\* internalWait() repeats an interrupted waitpid.
WaitInterrupted ==
  /\ pc["parent"] = "internalWait" /\ report = "none" /\ child # "dead"
  /\ "eintr" \in Events
  /\ errno' = "EINTR"
  /\ UNCHANGED <<pc, childVars, status, process, running>>

\* Mutant: machSignalTerminated() is not called.
WaitReturns_NotSignalled ==
  /\ pc["parent"] = "internalWait" /\ report \in {"exited", "signaled", "trap"}
  /\ report' = "none"
  /\ Goto("parent", "check")
  /\ UNCHANGED <<child, how, traced, image, parentVars>>

WaitReturns ==
  /\ pc["parent"] = "internalWait" /\ report \in {"exited", "signaled", "trap"}
  /\ running' = (running /\ report # "exited")
  /\ report' = "none"
  /\ Goto("parent", "check")
  /\ UNCHANGED <<child, how, traced, image, errno, status, process>>

\* Any signal but SIGTRAP is passed on, and the wait goes on unless errno is set.
\* The child may die of it; a crash is fatal.
WaitSignal ==
  /\ pc["parent"] = "internalWait" /\ report = "signal"
  /\ \/ /\ pc["child"] # "crashing" /\ child # "dead"
        /\ child' = "running" /\ report' = "none"
        /\ UNCHANGED <<how, traced, image>>
     \/ ChildDies("signaled")
  /\ IF errno = "0" THEN UNCHANGED pc ELSE Goto("parent", "check")
  /\ UNCHANGED parentVars

\* if (debugger.process->running == false) break;
CheckRunning ==
  /\ pc["parent"] = "check"
  /\ IF running THEN Goto("parent", "prompt") /\ UNCHANGED childVars
                ELSE Goto("parent", "ended") /\ ParentGone
  /\ UNCHANGED parentVars

-----------------------------------------------------------------------------
(* The child once it executes the target, and signals.                     *)

\* Breakpoints and single steps.
TargetTraps ==
  /\ pc["child"] = "target" /\ child = "running"
  /\ ChildStops("trap")
  /\ UNCHANGED <<pc, parentVars>>

TargetExits ==
  /\ pc["child"] = "target" /\ child = "running"
  /\ ChildDies("exited")
  /\ UNCHANGED <<pc, parentVars>>

SignalChild ==
  /\ child = "running" /\ "signal" \in Events
  /\ ChildSignalled
  /\ UNCHANGED <<pc, parentVars>>

KillChild ==
  /\ child \in {"running", "stopped"} /\ "kill" \in Events
  /\ ChildDies("signaled")
  /\ UNCHANGED <<pc, parentVars>>

-----------------------------------------------------------------------------
\* errno may be left over from an earlier call that was interrupted.
Init ==
  /\ pc = [parent |-> "acquire", child |-> "none"]
  /\ child = "unborn" /\ how = "none" /\ report = "none"
  /\ traced = FALSE /\ image = "debugger"
  /\ errno \in {"0"} \union (IF "stale" \in Events THEN {"EINTR"} ELSE {})
  /\ status = "zero" /\ process = FALSE /\ running = FALSE

\* What the two processes do by themselves, and what is typed.
LaunchNext ==
  \/ Acquire \/ Fork \/ WaitReports \/ WaitFails \/ Decide \/ Sleep("parent")
  \/ EnterWait \/ WaitReturns \/ WaitSignal \/ CheckRunning
ChildNext == TraceMe \/ Exec \/ Sleep("child")
UserNext == Resume \/ \E p \in {"parent", "child"} : Quit(p) \/ Crash(p)

Next ==
  \/ LaunchNext \/ ChildNext \/ UserNext
  \/ LaunchInterrupted \/ WaitInterrupted \/ TargetTraps \/ TargetExits \/ SignalChild \/ KillChild

Spec == Init /\ [][Next]_vars

(* Each process gets the processor; nothing is assumed of the user, of     *)
(* signals, or of what the target does.                                    *)
FairSpec == Spec /\ WF_vars(LaunchNext) /\ WF_vars(ChildNext)

-----------------------------------------------------------------------------
(* Properties.                                                             *)

\* Every variable holds a value of its type; a dead child says how it died, and an
\* attached one has been traced.
TypeOK ==
  /\ pc["parent"] \in {"acquire", "fork", "wait", "decide", "sleep", "prompt",
                       "enterWait", "internalWait", "check", "ended"}
  /\ pc["child"] \in {"none", "traceMe", "exec", "sleep", "prompt", "crashing",
                      "target", "ended"}
  /\ child \in {"unborn", "running", "stopped", "dead"}
  /\ how \in {"none", "exited", "signaled"} /\ (child = "dead" <=> how # "none")
  /\ report \in {"none", "trap", "signal", "exited", "signaled"}
  /\ traced \in BOOLEAN /\ image \in {"debugger", "target"}
  /\ errno \in {"0", "EINTR", "ECHILD"}
  /\ status \in {"zero", "trap", "signal", "exited", "signaled"}
  /\ process \in BOOLEAN /\ running \in BOOLEAN /\ (process => traced)

\* createProcess() does not come back before its child has stopped or ended: the
\* comment at its waitpid.  It covers all that a failed launch returns from.
LaunchWaits ==
  pc["parent"] \in {"sleep", "prompt"} => child # "running"

\* The same, for as long as no call of the parent has been interrupted: whatever
\* fails in the child, the parent's console and the child, be it the target or a
\* second debugger at the same terminal, never run at the same time.
ChildSettled == errno # "EINTR" => LaunchWaits

\* A wait for the launch ends, unless the child has become a second debugger and
\* sits at its prompt.
LaunchSettles ==
  (pc["parent"] = "wait" /\ errno = "0")
    ~> (pc["parent"] # "wait" \/ pc["child"] \in {"prompt", "crashing"})

\* A target that exits while the debugger is in internalWait ends the console.
ExitEndsConsole ==
  (pc["parent"] = "internalWait" /\ how = "exited") ~> (pc["parent"] = "ended")
=============================================================================
