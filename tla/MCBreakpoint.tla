---------------------------- MODULE MCBreakpoint ----------------------------
(***************************************************************************)
(* MDBBreakpoint for TLC.                                                  *)
(***************************************************************************)
EXTENDS MDBBreakpoint, TLC

CONSTANTS int3, op, junk   \* bytes

MCText == [a \in 0 .. AddressSpace - 1 |-> op]
=============================================================================
