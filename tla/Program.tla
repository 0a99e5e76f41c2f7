------------------------------ MODULE Program ------------------------------
(***************************************************************************)
(* What a multithreaded program does when no debugger is attached: every   *)
(* step advances one thread from an instruction to one of its successors,  *)
(* starts a thread, ends one, or ends the process.  This is the            *)
(* specification that the debuggee must still implement under the          *)
(* debugger: MDBDebugger refines it through a mapping that undoes the int  *)
(* 3 bytes (Transparent in MDBDebugger.tla).                               *)
(***************************************************************************)
CONSTANTS
  Thread,       \* thread identifiers
  MainThread,   \* the thread the process starts with
  Entry,        \* the address at which every thread starts
  Successors    \* Successors[a]: where control may go from a

VARIABLES
  ip,           \* ip[t]: the instruction that t executes next
  live          \* the threads that exist

progVars == <<ip, live>>

Init ==
  /\ ip = [t \in Thread |-> Entry]
  /\ live = {MainThread}

Execute(t) ==
  /\ t \in live
  /\ \E a \in Successors[ip[t]] : ip' = [ip EXCEPT ![t] = a]
  /\ UNCHANGED live

Spawn(t, u) ==
  /\ t \in live /\ u \notin live /\ ip[u] = Entry
  /\ live' = live \union {u}
  /\ UNCHANGED ip

Exit(t) ==
  /\ t \in live
  /\ live' = live \ {t}
  /\ UNCHANGED ip

Die ==
  /\ live' = {}
  /\ UNCHANGED ip

Next ==
  \/ \E t \in Thread : Execute(t) \/ Exit(t)
  \/ \E t, u \in Thread : Spawn(t, u)
  \/ Die

Spec == Init /\ [][Next]_progVars
=============================================================================
