---------------------------- MODULE Lexicographic ----------------------------
(***************************************************************************)
(* The order in which loops and recursions come to an end.  What is left to*)
(* do is a function on 1 .. n, what counts most first: for a recursion, the*)
(* outermost call.                                                         *)
(***************************************************************************)
EXTENDS Naturals

\* Less is left to do: less where the two first differ, and any amount after that.
LessWork(f, g) ==
  \E j \in DOMAIN g : f[j] < g[j] /\ \A i \in 1 .. j - 1 : f[i] = g[i]
=============================================================================
