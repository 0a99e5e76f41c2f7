-------------------------------- MODULE MBList --------------------------------
(***************************************************************************)
(* MBList.h: a growable array, and the operations its users call.  pop(),  *)
(* get() and operator[] check nothing; every caller in the repository      *)
(* looks at isEmpty() or length() first.  malloc and realloc succeed.      *)
(***************************************************************************)
EXTENDS Integers

CONSTANTS
  Value,
  Junk,             \* what malloc and realloc leave in new elements
  InitialCapacity,  \* INITIAL_CAPACITY, 8 in the code
  MaxLength         \* bound of the instance: the longest list the client makes

ASSUME ListAssumption ==
  InitialCapacity \in Nat \ {0} /\ MaxLength \in Nat /\ Junk \notin Value

VARIABLES
  data,      \* _data: [0 .. capacity - 1 -> Value or Junk]
  length,    \* _length
  capacity,  \* _capacity
  ret        \* the last operation and what it returned

listVars == <<data, length, capacity, ret>>

Elements == [0 .. capacity - 1 -> Value \union {Junk}]

\* indexOf(): the first index below length, or -1.
FoundAt(v) ==
  LET at == {i \in 0 .. length - 1 : data[i] = v}
  IN IF at = {} THEN -1 ELSE CHOOSE i \in at : \A j \in at : i <= j

\* Mutant: an array that is full is not grown.
Extended_TooLate(v) ==
  /\ capacity' = IF length > capacity THEN capacity * 2 ELSE capacity
  /\ data' = [i \in 0 .. capacity' - 1 |-> IF i = length THEN v
                ELSE IF i < capacity THEN data[i] ELSE Junk]
  /\ length' = length + 1

\* What add() and push() have in common.
Extended(v) ==
  /\ capacity' = IF length = capacity THEN capacity * 2 ELSE capacity
  /\ data' = [i \in 0 .. capacity' - 1 |-> IF i = length THEN v
                ELSE IF i < capacity THEN data[i] ELSE Junk]
  /\ length' = length + 1

Add(v) == length < MaxLength /\ Extended(v) /\ ret' = <<"add", v>>

Push(v) == length < MaxLength /\ Extended(v) /\ ret' = <<"push", length' - 1>>

\* Mutant: _data[_length --].
Pop_PostDecrement ==
  /\ length > 0
  /\ length' = length - 1 /\ ret' = <<"pop", IF length < capacity THEN data[length] ELSE Junk>>
  /\ UNCHANGED <<data, capacity>>

Pop ==
  /\ length > 0
  /\ length' = length - 1 /\ ret' = <<"pop", data[length']>>
  /\ UNCHANGED <<data, capacity>>

\* get() and reading through operator[].
Get(i) ==
  /\ i < length
  /\ ret' = <<"get", data[i]>>
  /\ UNCHANGED <<data, length, capacity>>

\* Writing through the reference that operator[] returns.
Set(i, v) ==
  /\ i < length
  /\ data' = [data EXCEPT ![i] = v] /\ ret' = <<"set", v>>
  /\ UNCHANGED <<length, capacity>>

Replace(old, new) ==
  /\ ret' = <<"replace", FoundAt(old) >= 0>>
  /\ data' = IF FoundAt(old) < 0 THEN data ELSE [data EXCEPT ![FoundAt(old)] = new]
  /\ UNCHANGED <<length, capacity>>

IndexOf(v) == ret' = <<"indexOf", FoundAt(v)>> /\ UNCHANGED <<data, length, capacity>>

\* Mutant: the capacity is forgotten too; the next push writes to no memory.
Clear_All == length' = 0 /\ capacity' = 0 /\ ret' = <<"clear">> /\ UNCHANGED data

\* The elements and the capacity stay.
Clear == length' = 0 /\ ret' = <<"clear">> /\ UNCHANGED <<data, capacity>>

-----------------------------------------------------------------------------
ListInit ==
  /\ length = 0 /\ capacity = InitialCapacity /\ ret = <<"none">>
  /\ data = [i \in 0 .. InitialCapacity - 1 |-> Junk]

ListNext ==
  \/ \E v \in Value : Add(v) \/ Push(v) \/ IndexOf(v)
  \/ Pop \/ Clear
  \/ \E i \in 0 .. MaxLength - 1 : Get(i) \/ \E v \in Value : Set(i, v)
  \/ \E old, new \in Value : Replace(old, new)

ListSpec == ListInit /\ [][ListNext]_listVars

-----------------------------------------------------------------------------
(* Properties.                                                             *)

ListTypeOK ==
  /\ capacity \in Nat \ {0}
  /\ length \in 0 .. MaxLength
  /\ data \in Elements

\* The array never holds more than it was allocated for, and every element that a
\* user can see has been written: growth in time, and no read of fresh memory.
WithinCapacity ==
  /\ length <= capacity
  /\ \A i \in 0 .. length - 1 : data[i] \in Value

Abstract == INSTANCE List WITH list <- [i \in 1 .. length |-> data[i - 1]]

\* An MBList is a list: every operation does to the array, and returns, what it does
\* to a sequence, through growth, clear() and reuse of what pop() and clear() left.
IsList == Abstract!Spec
=============================================================================
