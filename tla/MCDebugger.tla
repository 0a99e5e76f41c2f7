----------------------------- MODULE MCDebugger -----------------------------
(***************************************************************************)
(* MDBDebugger for TLC.  The program is a loop that calls a function:      *)
(*                                                                         *)
(*     0: call 4       (two bytes long, like every instruction)            *)
(*     2: jmp 0                                                            *)
(*     4: ret          (to 2)                                              *)
(*                                                                         *)
(* From an odd address, the middle of an instruction, control may go       *)
(* anywhere: a debuggee that gets there has been derailed.                 *)
(***************************************************************************)
EXTENDS MDBDebugger, TLC

CONSTANTS t1, t2

MCAddress == 0 .. AddressSpace - 1
MCText == [a \in MCAddress |-> "op"]
MCCalls == {0}
MCInstructionEnd == 0 :> 2
MCSuccessors ==
  [a \in MCAddress |->
     CASE a = 0 -> {4} [] a = 2 -> {0} [] a = 4 -> {2} [] OTHER -> MCAddress]

\* A program with a one-byte instruction at 0.
MCOneByteSuccessors ==
  [a \in MCAddress |->
     CASE a = 0 -> {1} [] a = 1 -> {3} [] a = 3 -> {0} [] OTHER -> MCAddress]

MCZero == {[eip |-> 0, tf |-> FALSE]}
\* Copies that are stepped back when there is a breakpoint at 0 or at 2, with a trap flag
\* and without one, and one that never is.
MCGarbage ==
  {[eip |-> 0, tf |-> FALSE]} \union {[eip |-> a, tf |-> f] : a \in {1, 3}, f \in BOOLEAN}
=============================================================================
