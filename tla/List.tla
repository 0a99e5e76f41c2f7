--------------------------------- MODULE List ---------------------------------
(***************************************************************************)
(* What a list promises its users: a sequence, and for every operation the *)
(* value it returns.  MBList implements it, and the other modules of this  *)
(* project model every MBList as such a sequence.                          *)
(***************************************************************************)
EXTENDS Integers, Sequences

CONSTANTS Value, MaxLength

VARIABLES
  list,
  ret    \* the last operation and what it returned

vars == <<list, ret>>

\* The first index with value v, counted from 0; -1 when there is none.
FirstIndex(v) ==
  LET at == {i \in DOMAIN list : list[i] = v}
  IN IF at = {} THEN -1 ELSE (CHOOSE i \in at : \A j \in at : i <= j) - 1

Add(v) ==
  /\ Len(list) < MaxLength
  /\ list' = Append(list, v) /\ ret' = <<"add", v>>

Push(v) ==
  /\ Len(list) < MaxLength
  /\ list' = Append(list, v) /\ ret' = <<"push", Len(list)>>

Pop ==
  /\ list # <<>>
  /\ list' = SubSeq(list, 1, Len(list) - 1) /\ ret' = <<"pop", list[Len(list)]>>

Get(i) == i + 1 \in DOMAIN list /\ ret' = <<"get", list[i + 1]>> /\ UNCHANGED list

Set(i, v) ==
  /\ i + 1 \in DOMAIN list
  /\ list' = [list EXCEPT ![i + 1] = v] /\ ret' = <<"set", v>>

Replace(old, new) ==
  /\ ret' = <<"replace", FirstIndex(old) >= 0>>
  /\ list' = IF FirstIndex(old) < 0 THEN list
             ELSE [list EXCEPT ![FirstIndex(old) + 1] = new]

IndexOf(v) == ret' = <<"indexOf", FirstIndex(v)>> /\ UNCHANGED list

Clear == list' = <<>> /\ ret' = <<"clear">>

Init == list = <<>> /\ ret = <<"none">>

Next ==
  \/ \E v \in Value : Add(v) \/ Push(v) \/ IndexOf(v)
  \/ Pop \/ Clear
  \/ \E i \in 0 .. MaxLength - 1 : Get(i) \/ \E v \in Value : Set(i, v)
  \/ \E old, new \in Value : Replace(old, new)

Spec == Init /\ [][Next]_vars
=============================================================================
