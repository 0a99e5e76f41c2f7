---------------------------- MODULE MBList_proof ----------------------------
(***************************************************************************)
(* Proofs about MBList, for any values, any initial capacity and any bound *)
(* on the client's lists: the array has room for the list, and it          *)
(* implements the sequence of module List.                                 *)
(***************************************************************************)
EXTENDS MBList, Sequences, SequenceTheorems, FiniteSetTheorems, TLAPS

ListInv == ListTypeOK /\ WithinCapacity

-----------------------------------------------------------------------------
(* The array.                                                              *)

\* Indices of an array with n elements.
LEMMA IndexBelow ==
  ASSUME NEW n \in Nat, NEW k \in Nat, k < n
  PROVE  k \in 0 .. n - 1
OBVIOUS

\* Growing in time: whatever add() and push() do, the new element has a place.
LEMMA ExtendedKeepsInv ==
  ASSUME ListInv, NEW v \in Value, length < MaxLength, Extended(v)
  PROVE  /\ ListInv'
         /\ capacity <= capacity' /\ length < capacity'
         /\ data'[length] = v
         /\ \A i \in 0 .. length - 1 : data'[i] = data[i]
<1>1. /\ capacity \in Nat /\ capacity > 0 /\ length \in Nat /\ MaxLength \in Nat
      /\ length <= capacity
  BY ListAssumption DEF ListInv, ListTypeOK, WithinCapacity
<1>2. /\ data \in [0 .. capacity - 1 -> Value \union {Junk}]
      /\ \A i \in 0 .. length - 1 : data[i] \in Value
  BY DEF ListInv, ListTypeOK, WithinCapacity, Elements
<1>3. /\ capacity' \in Nat /\ capacity' > 0
      /\ capacity <= capacity' /\ length < capacity' /\ length' = length + 1
  BY <1>1 DEF Extended
<1>4. data' = [i \in 0 .. capacity' - 1 |-> IF i = length THEN v
                 ELSE IF i < capacity THEN data[i] ELSE Junk]
  BY DEF Extended
<1>5. data' \in [0 .. capacity' - 1 -> Value \union {Junk}]
  <2>1. \A i \in 0 .. capacity' - 1 : i < capacity => i \in 0 .. capacity - 1
    BY <1>1, <1>3
  <2>2. \A i \in 0 .. capacity' - 1 :
          (IF i = length THEN v ELSE IF i < capacity THEN data[i] ELSE Junk)
            \in Value \union {Junk}
    BY <1>2, <2>1
  <2> QED BY <1>4, <2>2
<1>6. data'[length] = v
  <2>1. length \in 0 .. capacity' - 1
    BY <1>1, <1>3, IndexBelow
  <2> QED BY <1>4, <2>1
<1>7. \A i \in 0 .. length - 1 : data'[i] = data[i]
  <2> SUFFICES ASSUME NEW i \in 0 .. length - 1 PROVE data'[i] = data[i]
    OBVIOUS
  <2>1. i \in Nat /\ i # length /\ i < capacity /\ i < capacity'
    BY <1>1, <1>3
  <2>2. i \in 0 .. capacity' - 1
    BY <1>3, <2>1, IndexBelow
  <2> QED BY <1>4, <2>1, <2>2
<1>8. \A i \in 0 .. length' - 1 : data'[i] \in Value
  <2> SUFFICES ASSUME NEW i \in 0 .. length' - 1 PROVE data'[i] \in Value
    OBVIOUS
  <2>1. i = length \/ i \in 0 .. length - 1
    BY <1>1, <1>3
  <2> QED BY <2>1, <1>2, <1>6, <1>7
<1>9. ListTypeOK'
  <2>1. capacity' \in Nat \ {0} /\ length' \in 0 .. MaxLength
    BY <1>1, <1>3
  <2> QED BY <1>5, <2>1 DEF ListTypeOK, Elements
<1>10. WithinCapacity'
  <2>1. length' <= capacity'
    BY <1>1, <1>3
  <2> QED BY <1>8, <2>1 DEF WithinCapacity
<1> QED BY <1>3, <1>6, <1>7, <1>9, <1>10 DEF ListInv

\* A nonempty set of indices has a least one: a smallest initial segment of the set.
LEMMA LeastExists ==
  ASSUME NEW n \in Nat, NEW S \in SUBSET (0 .. n - 1), S # {}
  PROVE  \E i \in S : \A j \in S : i <= j
<1> DEFINE UpTo(i) == {j \in S : j <= i}
           Segments == {UpTo(i) : i \in S}
<1>1. IsWellFoundedOn(StrictSubsetOrdering(0 .. n - 1), SUBSET (0 .. n - 1))
  <2>1. IsFiniteSet(0 .. n - 1)
    BY FS_Interval
  <2> QED BY <2>1, FS_FiniteSubsetsOfFinite, FS_StrictSubsetOrderingWellFounded
<1>2. Segments \subseteq SUBSET (0 .. n - 1) /\ Segments # {}
  OBVIOUS
<1>3. PICK m \in Segments :
        \A y \in Segments : ~ (<<y, m>> \in StrictSubsetOrdering(0 .. n - 1))
  <2> HIDE DEF Segments
  <2> QED BY <1>1, <1>2, WFMin
<1>4. PICK i \in S : m = UpTo(i)
  OBVIOUS
<1>5. ASSUME NEW j \in S, j < i  PROVE FALSE
  <2>1. j \in Int /\ i \in Int /\ j < i /\ \A k \in S : k \in Int
    BY <1>5
  <2>2. \A k \in S : k <= j => k <= i
    BY <2>1
  <2>3. UpTo(j) \subseteq UpTo(i)
    BY <2>2
  <2>4. i \in UpTo(i) /\ i \notin UpTo(j)
    BY <2>1
  <2>5. <<UpTo(j), UpTo(i)>> \in StrictSubsetOrdering(0 .. n - 1)
    BY <2>3, <2>4, <1>2 DEF StrictSubsetOrdering
  <2> QED BY <2>5, <1>3, <1>4
<1> QED BY <1>5

\* What indexOf() finds is the first of the elements in use that have the value.
LEMMA FoundAtIsFirst ==
  ASSUME ListInv, NEW v
  PROVE  LET at == {i \in 0 .. length - 1 : data[i] = v}
         IN \/ at = {} /\ FoundAt(v) = -1
            \/ FoundAt(v) \in at /\ \A j \in at : FoundAt(v) <= j
<1> DEFINE at == {i \in 0 .. length - 1 : data[i] = v}
<1>1. CASE at = {}
  BY <1>1 DEF FoundAt
<1>2. CASE at # {}
  <2>1. at \subseteq 0 .. length - 1 /\ length \in Nat
    BY DEF ListInv, ListTypeOK
  <2> HIDE DEF at
  <2>2. \E i \in at : \A j \in at : i <= j
    BY <1>2, <2>1, LeastExists
  <2> QED BY <1>2, <2>2 DEF FoundAt, at
<1> QED BY <1>1, <1>2

\* A shorter list shows no further elements.
LEMMA IndicesShrink ==
  ASSUME NEW m \in Nat, NEW n \in Nat, m <= n
  PROVE  0 .. m - 1 \subseteq 0 .. n - 1
OBVIOUS

\* Overwriting an element leaves a written element wherever there was one.
LEMMA WriteKeepsInv ==
  ASSUME ListInv, NEW k, NEW v \in Value, data' = [data EXCEPT ![k] = v],
         UNCHANGED <<length, capacity>>
  PROVE  ListInv'
<1>1. /\ data \in [0 .. capacity - 1 -> Value \union {Junk}]
      /\ \A i \in 0 .. length - 1 : data[i] \in Value
  BY DEF ListInv, ListTypeOK, WithinCapacity, Elements
<1>2. data' \in [0 .. capacity - 1 -> Value \union {Junk}]
  BY <1>1
<1>3. 0 .. length - 1 \subseteq 0 .. capacity - 1
  <2>1. length \in Nat /\ capacity \in Nat /\ length <= capacity
    BY DEF ListInv, ListTypeOK, WithinCapacity
  <2> QED BY <2>1, IndicesShrink
<1>4. \A i \in 0 .. capacity - 1 : data'[i] = IF i = k THEN v ELSE data[i]
  BY <1>1
<1>5. \A i \in 0 .. length - 1 : data'[i] \in Value
  BY <1>1, <1>3, <1>4
<1> QED BY <1>2, <1>5 DEF ListInv, ListTypeOK, WithinCapacity, Elements

\* Every operation keeps the length, the capacity and the array in step.
LEMMA NextKeepsInv ==
  ASSUME ListInv, [ListNext]_listVars
  PROVE  ListInv'
<1>1. /\ capacity \in Nat \ {0} /\ length \in 0 .. MaxLength /\ MaxLength \in Nat
      /\ length <= capacity /\ length \in Nat /\ capacity \in Nat
  BY ListAssumption DEF ListInv, ListTypeOK, WithinCapacity
<1>2. /\ data \in [0 .. capacity - 1 -> Value \union {Junk}]
      /\ \A i \in 0 .. length - 1 : data[i] \in Value
  BY DEF ListInv, ListTypeOK, WithinCapacity, Elements
<1>3. CASE UNCHANGED <<data, length, capacity>>
  BY <1>1, <1>2, <1>3 DEF ListInv, ListTypeOK, WithinCapacity, Elements
<1>4. ASSUME NEW v \in Value, Add(v) \/ Push(v) PROVE ListInv'
  BY <1>4, ExtendedKeepsInv DEF Add, Push
<1>5. CASE Pop \/ Clear
  <2>1. length' \in 0 .. MaxLength /\ length' <= length /\ length' \in Nat
    BY <1>1, <1>5 DEF Pop, Clear
  <2>2. capacity' = capacity /\ data' = data
    BY <1>5 DEF Pop, Clear
  <2>3. 0 .. length' - 1 \subseteq 0 .. length - 1
    BY <1>1, <2>1, IndicesShrink
  <2>4. length' <= capacity
    BY <1>1, <2>1
  <2> QED BY <1>1, <1>2, <2>1, <2>2, <2>3, <2>4
          DEF ListInv, ListTypeOK, WithinCapacity, Elements
<1>6. ASSUME NEW i \in 0 .. MaxLength - 1, NEW v \in Value, Set(i, v)
      PROVE  ListInv'
  BY <1>6, WriteKeepsInv DEF Set
<1>7. ASSUME NEW old \in Value, NEW new \in Value, Replace(old, new)
      PROVE  ListInv'
  <2>1. CASE FoundAt(old) < 0
    BY <1>7, <1>3, <2>1 DEF Replace
  <2>2. CASE ~ (FoundAt(old) < 0)
    BY <1>7, <2>2, WriteKeepsInv DEF Replace
  <2> QED BY <2>1, <2>2
<1>8. \A v \in Value : IndexOf(v) => UNCHANGED <<data, length, capacity>>
  BY DEF IndexOf
<1>9. \A i \in 0 .. MaxLength - 1 : Get(i) => UNCHANGED <<data, length, capacity>>
  BY DEF Get
<1> QED BY <1>4, <1>5, <1>6, <1>7, <1>3, <1>8, <1>9 DEF ListNext, listVars

\* A new list has room for INITIAL_CAPACITY elements and shows none.
LEMMA InitHasInv ==
  ASSUME ListInit
  PROVE  ListInv
<1>1. length = 0 /\ 0 .. length - 1 = {}
  BY DEF ListInit
<1>2. data \in Elements
  BY DEF ListInit, Elements
<1> QED BY <1>1, <1>2, ListAssumption DEF ListInit, ListInv, ListTypeOK, WithinCapacity

\* The invariant of the whole list, in every state of every use of it.
THEOREM ListInvariant == ListSpec => []ListInv
<1>1. ListInit => ListInv
  BY InitHasInv
<1>2. ListInv /\ [ListNext]_listVars => ListInv'
  BY NextKeepsInv
<1> QED BY <1>1, <1>2, PTL DEF ListSpec

\* Length, capacity and elements are what their types say.
THEOREM ListTypes == ListSpec => []ListTypeOK
<1>1. ListInv => ListTypeOK
  BY DEF ListInv
<1> QED BY <1>1, ListInvariant, PTL

\* MBList.h never reads or writes past what it has allocated for, and shows no element
\* that was not written, whatever the initial capacity and however long the list gets.
THEOREM ListWithinCapacity == ListSpec => []WithinCapacity
<1>1. ListInv => WithinCapacity
  BY DEF ListInv
<1> QED BY <1>1, ListInvariant, PTL

-----------------------------------------------------------------------------
(* The list that the array shows.                                          *)

Shown(array, n) == [i \in 1 .. n |-> array[i - 1]]
Written(array, n) == \A i \in 0 .. n - 1 : array[i] \in Value

\* What is shown is a sequence.
LEMMA ShownIsSeq ==
  ASSUME NEW n \in Nat, NEW array, Written(array, n)
  PROVE  /\ Shown(array, n) \in Seq(Value)
         /\ Len(Shown(array, n)) = n /\ DOMAIN Shown(array, n) = 1 .. n
         /\ \A i \in 1 .. n : Shown(array, n)[i] = array[i - 1]
<1>1. \A i \in 1 .. n : i - 1 \in 0 .. n - 1
  OBVIOUS
<1>2. \A i \in 1 .. n : array[i - 1] \in Value
  BY <1>1 DEF Written
<1>3. Shown(array, n) \in [1 .. n -> Value]
  BY <1>2 DEF Shown
<1>4. Shown(array, n) \in Seq(Value)
  BY <1>3, SeqDef
<1>5. DOMAIN Shown(array, n) = 1 .. n
  BY <1>3
<1>6. Len(Shown(array, n)) = n
  BY <1>4, <1>5, LenProperties
<1> QED BY <1>4, <1>5, <1>6 DEF Shown

\* The element after the last is appended.
LEMMA ShownAppend ==
  ASSUME NEW n \in Nat, NEW array, NEW grown, NEW v \in Value, Written(array, n),
         grown[n] = v, \A i \in 0 .. n - 1 : grown[i] = array[i]
  PROVE  Shown(grown, n + 1) = Append(Shown(array, n), v)
<1> DEFINE s == Shown(array, n)
           t == Shown(grown, n + 1)
<1>1. s \in Seq(Value) /\ Len(s) = n /\ \A i \in 1 .. n : s[i] = array[i - 1]
  BY ShownIsSeq
<1>2. Written(grown, n + 1)
  <2> SUFFICES ASSUME NEW i \in 0 .. (n + 1) - 1 PROVE grown[i] \in Value
    BY DEF Written
  <2>1. i = n \/ i \in 0 .. n - 1
    OBVIOUS
  <2> QED BY <2>1 DEF Written
<1>3. /\ t \in Seq(Value) /\ Len(t) = n + 1
      /\ \A i \in 1 .. n + 1 : t[i] = grown[i - 1]
  BY <1>2, ShownIsSeq
<1>4. /\ Append(s, v) \in Seq(Value) /\ Len(Append(s, v)) = n + 1
      /\ Append(s, v)[n + 1] = v /\ \A i \in 1 .. n : Append(s, v)[i] = s[i]
  <2> HIDE DEF s
  <2> QED BY <1>1
<1> HIDE DEF s, t
<1>5. ASSUME NEW i \in 1 .. n + 1 PROVE t[i] = Append(s, v)[i]
  <2>1. CASE i = n + 1
    <3>1. t[i] = grown[n]
      BY <1>3, <2>1
    <3> QED BY <3>1, <1>4, <2>1
  <2>2. CASE i \in 1 .. n
    <3>1. i - 1 \in 0 .. n - 1
      BY <2>2
    <3>2. t[i] = grown[i - 1] /\ s[i] = array[i - 1]
      BY <1>1, <1>3, <1>5, <2>2
    <3>3. grown[i - 1] = array[i - 1]
      BY <3>1
    <3> QED BY <1>4, <2>2, <3>2, <3>3
  <2>3. i = n + 1 \/ i \in 1 .. n
    OBVIOUS
  <2> QED BY <2>1, <2>2, <2>3
<1>6. t = Append(s, v)
  BY <1>3, <1>4, <1>5, SeqEqual
<1> QED BY <1>6 DEF s, t

\* Without its last element.
LEMMA ShownPop ==
  ASSUME NEW n \in Nat, n > 0, NEW array, Written(array, n)
  PROVE  Shown(array, n - 1) = SubSeq(Shown(array, n), 1, n - 1)
<1> DEFINE s == Shown(array, n)
           t == Shown(array, n - 1)
<1>1. /\ s \in Seq(Value) /\ Len(s) = n /\ \A i \in 1 .. n : s[i] \in Value
      /\ \A i \in 1 .. n : s[i] = array[i - 1]
  <2>1. s \in Seq(Value) /\ Len(s) = n /\ \A i \in 1 .. n : s[i] = array[i - 1]
    BY ShownIsSeq
  <2> HIDE DEF s
  <2> QED BY <2>1, ElementOfSeq
<1>2. Written(array, n - 1) /\ n - 1 \in Nat
  BY DEF Written
<1>3. /\ t \in Seq(Value) /\ Len(t) = n - 1
      /\ \A i \in 1 .. n - 1 : t[i] = array[i - 1]
  BY <1>2, ShownIsSeq
<1> HIDE DEF s, t
<1>4. /\ SubSeq(s, 1, n - 1) \in Seq(Value)
      /\ Len(SubSeq(s, 1, n - 1)) = n - 1
      /\ \A i \in 1 .. n - 1 : SubSeq(s, 1, n - 1)[i] = s[i]
  <2>1. 1 .. n - 1 \subseteq 1 .. n
    OBVIOUS
  <2> QED BY <1>1, <1>2, <2>1, SubSeqProperties
<1>5. t = SubSeq(s, 1, n - 1)
  <2>1. \A i \in 1 .. n - 1 : t[i] = SubSeq(s, 1, n - 1)[i]
    BY <1>1, <1>3, <1>4
  <2> QED BY <1>3, <1>4, <2>1, SeqEqual
<1> QED BY <1>5 DEF s, t

\* With one element replaced.
LEMMA ShownExcept ==
  ASSUME NEW n \in Nat, NEW array, NEW k \in 0 .. n - 1, NEW v \in Value, Written(array, n),
         NEW new, \A i \in 0 .. n - 1 : new[i] = IF i = k THEN v ELSE array[i]
  PROVE  Shown(new, n) = [Shown(array, n) EXCEPT ![k + 1] = v]
<1>1. /\ DOMAIN Shown(array, n) = 1 .. n
      /\ \A i \in 1 .. n : Shown(array, n)[i] = array[i - 1]
  BY DEF Shown
<1>2. ASSUME NEW i \in 1 .. n
      PROVE  new[i - 1] = IF i = k + 1 THEN v ELSE array[i - 1]
  <2>1. i - 1 \in 0 .. n - 1 /\ (i - 1 = k <=> i = k + 1)
    OBVIOUS
  <2> QED BY <2>1
<1>3. Shown(new, n) = [i \in 1 .. n |-> IF i = k + 1 THEN v ELSE array[i - 1]]
  BY <1>2 DEF Shown
<1>4. [Shown(array, n) EXCEPT ![k + 1] = v]
        = [i \in 1 .. n |-> IF i = k + 1 THEN v ELSE array[i - 1]]
  BY <1>1
<1> QED BY <1>3, <1>4

-----------------------------------------------------------------------------
(* MBList implements List.                                                 *)

\* The list as the users see it, in terms of the array.
LEMMA InvShown ==
  ASSUME ListInv
  PROVE  /\ length \in Nat /\ Written(data, length)
         /\ DOMAIN Shown(data, length) = 1 .. length
         /\ Len(Shown(data, length)) = length
         /\ \A i \in 1 .. length : Shown(data, length)[i] = data[i - 1]
<1>1. length \in Nat /\ Written(data, length)
  BY DEF ListInv, ListTypeOK, WithinCapacity, Written
<1> QED BY <1>1, ShownIsSeq

\* indexOf() finds, counted from 0, what the sequence has first.
LEMMA FirstIndexIsFoundAt ==
  ASSUME ListInv, NEW v
  PROVE  Abstract!FirstIndex(v) = FoundAt(v)
<1> DEFINE s == Shown(data, length)
           at == {i \in 0 .. length - 1 : data[i] = v}
           in == {i \in DOMAIN s : s[i] = v}
<1>1. /\ length \in Nat /\ DOMAIN s = 1 .. length
      /\ \A i \in 1 .. length : s[i] = data[i - 1]
  BY InvShown
<1>2. Abstract!FirstIndex(v)
        = IF in = {} THEN -1 ELSE (CHOOSE i \in in : \A j \in in : i <= j) - 1
  BY DEF Abstract!FirstIndex, Shown
<1>3. \A i \in in : i \in Int /\ i - 1 \in at
  <2> SUFFICES ASSUME NEW i \in in PROVE i \in Int /\ i - 1 \in at
    OBVIOUS
  <2>1. i \in 1 .. length /\ data[i - 1] = v
    BY <1>1
  <2>2. i - 1 \in 0 .. length - 1
    BY <1>1, <2>1
  <2> QED BY <2>1, <2>2
<1>4. \A i \in at : i \in Int /\ i + 1 \in in
  <2> SUFFICES ASSUME NEW i \in at PROVE i \in Int /\ i + 1 \in in
    OBVIOUS
  <2>1. i \in 0 .. length - 1 /\ data[i] = v
    OBVIOUS
  <2>2. i + 1 \in 1 .. length /\ (i + 1) - 1 = i
    BY <1>1, <2>1
  <2>3. s[i + 1] = data[i]
    BY <1>1, <2>2
  <2> QED BY <1>1, <2>1, <2>2, <2>3
<1>5. \/ at = {} /\ FoundAt(v) = -1
      \/ FoundAt(v) \in at /\ \A j \in at : FoundAt(v) <= j
  BY FoundAtIsFirst
<1> HIDE DEF s, at, in
<1>6. CASE at = {}
  BY <1>2, <1>3, <1>5, <1>6
<1>7. CASE FoundAt(v) \in at /\ \A j \in at : FoundAt(v) <= j
  <2>1. /\ FoundAt(v) \in Int /\ FoundAt(v) + 1 \in in
        /\ \A j \in in : FoundAt(v) + 1 <= j
    BY <1>3, <1>4, <1>7
  <2>2. \A i \in in : (\A j \in in : i <= j) => i = FoundAt(v) + 1
    BY <1>3, <2>1
  <2>3. (CHOOSE i \in in : \A j \in in : i <= j) = FoundAt(v) + 1
    BY <2>1, <2>2
  <2>4. Abstract!FirstIndex(v) = (FoundAt(v) + 1) - 1
    BY <1>2, <2>1, <2>3
  <2> QED BY <2>1, <2>4
<1> QED BY <1>5, <1>6, <1>7

\* add() and push() append, and push() returns the new element's index.
LEMMA ExtendedAppends ==
  ASSUME ListInv, NEW v \in Value
  PROVE  (Add(v) => Abstract!Add(v)) /\ (Push(v) => Abstract!Push(v))
<1> SUFFICES ASSUME length < MaxLength, Extended(v)
             PROVE  /\ Len(Shown(data, length)) < MaxLength
                    /\ Len(Shown(data, length)) = length' - 1
                    /\ Shown(data', length') = Append(Shown(data, length), v)
  BY DEF Add, Push, Abstract!Add, Abstract!Push, Shown
<1>1. /\ length \in Nat /\ Written(data, length)
      /\ Len(Shown(data, length)) = length
  BY InvShown
<1>2. length' = length + 1
  BY DEF Extended
<1>3. data'[length] = v /\ \A i \in 0 .. length - 1 : data'[i] = data[i]
  BY ExtendedKeepsInv
<1>4. Shown(data', length + 1) = Append(Shown(data, length), v)
  BY <1>1, <1>3, ShownAppend
<1> QED BY <1>1, <1>2, <1>4

\* pop() takes the last element and returns it; clear() empties the list.
LEMMA PopAndClearShrink ==
  ASSUME ListInv
  PROVE  (Pop => Abstract!Pop) /\ (Clear => Abstract!Clear)
<1>1. /\ length \in Nat /\ Written(data, length)
      /\ Len(Shown(data, length)) = length
      /\ \A i \in 1 .. length : Shown(data, length)[i] = data[i - 1]
  BY InvShown
<1>2. ASSUME Pop PROVE Abstract!Pop
  <2>1. length > 0 /\ length' = length - 1 /\ data' = data /\ ret' = <<"pop", data[length - 1]>>
    BY <1>2 DEF Pop
  <2>2. Shown(data', length') = SubSeq(Shown(data, length), 1, length - 1)
    BY <1>1, <2>1, ShownPop
  <2>3. Shown(data, length) # <<>>
    BY <1>1, <2>1
  <2>4. Shown(data, length)[length] = data[length - 1]
    BY <1>1, <2>1
  <2> QED BY <1>1, <2>1, <2>2, <2>3, <2>4 DEF Abstract!Pop, Shown
<1>3. ASSUME Clear PROVE Abstract!Clear
  <2>1. length' = 0 /\ ret' = <<"clear">>
    BY <1>3 DEF Clear
  <2>2. Shown(data', 0) = <<>>
    BY DEF Shown
  <2> QED BY <2>1, <2>2 DEF Abstract!Clear, Shown
<1> QED BY <1>2, <1>3

\* Overwriting an element in use overwrites it in the list, and no other.
LEMMA WriteIsExcept ==
  ASSUME ListInv, NEW k \in 0 .. length - 1, NEW v \in Value,
         data' = [data EXCEPT ![k] = v], length' = length
  PROVE  Shown(data', length') = [Shown(data, length) EXCEPT ![k + 1] = v]
<1>1. length \in Nat /\ Written(data, length)
  BY InvShown
<1>2. 0 .. length - 1 \subseteq 0 .. capacity - 1
  <2>1. length \in Nat /\ capacity \in Nat /\ length <= capacity
    BY DEF ListInv, ListTypeOK, WithinCapacity
  <2> QED BY <2>1, IndicesShrink
<1>3. data \in [0 .. capacity - 1 -> Value \union {Junk}]
  BY DEF ListInv, ListTypeOK, Elements
<1>4. \A i \in 0 .. length - 1 : data'[i] = IF i = k THEN v ELSE data[i]
  BY <1>2, <1>3
<1>5. Shown(data', length) = [Shown(data, length) EXCEPT ![k + 1] = v]
  <2> DEFINE new == data'
  <2>1. \A i \in 0 .. length - 1 : new[i] = IF i = k THEN v ELSE data[i]
    BY <1>4
  <2> HIDE DEF new
  <2>2. Shown(new, length) = [Shown(data, length) EXCEPT ![k + 1] = v]
    BY <1>1, <2>1, ShownExcept
  <2> QED BY <2>2 DEF new
<1> QED BY <1>5

\* get(), the two uses of operator[], replace() and indexOf() do to the array and
\* answer from it what they do to and answer from the sequence.
LEMMA ElementsAgree ==
  ASSUME ListInv
  PROVE  /\ \A i \in 0 .. MaxLength - 1 : Get(i) => Abstract!Get(i)
         /\ \A i \in 0 .. MaxLength - 1, v \in Value : Set(i, v) => Abstract!Set(i, v)
         /\ \A old, new \in Value : Replace(old, new) => Abstract!Replace(old, new)
         /\ \A v \in Value : IndexOf(v) => Abstract!IndexOf(v)
<1>1. /\ length \in Nat /\ MaxLength \in Nat /\ DOMAIN Shown(data, length) = 1 .. length
      /\ \A i \in 1 .. length : Shown(data, length)[i] = data[i - 1]
  BY InvShown, ListAssumption
<1>2. ASSUME NEW i \in 0 .. MaxLength - 1, i < length
      PROVE  /\ i \in 0 .. length - 1 /\ i + 1 \in DOMAIN Shown(data, length)
             /\ Shown(data, length)[i + 1] = data[i]
  <2>1. i + 1 \in 1 .. length /\ (i + 1) - 1 = i /\ i \in 0 .. length - 1
    BY <1>1, <1>2
  <2> QED BY <1>1, <2>1
<1>3. ASSUME NEW i \in 0 .. MaxLength - 1, Get(i) PROVE Abstract!Get(i)
  BY <1>2, <1>3 DEF Get, Abstract!Get, Shown
<1>4. ASSUME NEW i \in 0 .. MaxLength - 1, NEW v \in Value, Set(i, v)
      PROVE  Abstract!Set(i, v)
  <2>1. i < length /\ data' = [data EXCEPT ![i] = v] /\ length' = length /\ ret' = <<"set", v>>
    BY <1>4 DEF Set
  <2>2. Shown(data', length') = [Shown(data, length) EXCEPT ![i + 1] = v]
    BY <1>2, <2>1, WriteIsExcept
  <2> QED BY <1>2, <2>1, <2>2 DEF Abstract!Set, Shown
<1>5. ASSUME NEW old \in Value, NEW new \in Value, Replace(old, new)
      PROVE  Abstract!Replace(old, new)
  <2>1. Abstract!FirstIndex(old) = FoundAt(old)
    BY FirstIndexIsFoundAt
  <2>2. length' = length /\ ret' = <<"replace", FoundAt(old) >= 0>>
    BY <1>5 DEF Replace
  <2>3. Shown(data', length')
          = IF FoundAt(old) < 0 THEN Shown(data, length)
            ELSE [Shown(data, length) EXCEPT ![FoundAt(old) + 1] = new]
    <3>1. CASE FoundAt(old) < 0
      BY <1>5, <2>2, <3>1 DEF Replace
    <3>2. CASE ~ (FoundAt(old) < 0)
      <4>1. FoundAt(old) \in 0 .. length - 1
        BY <3>2, FoundAtIsFirst
      <4>2. data' = [data EXCEPT ![FoundAt(old)] = new]
        BY <1>5, <3>2 DEF Replace
      <4> QED BY <2>2, <3>2, <4>1, <4>2, WriteIsExcept
    <3> QED BY <3>1, <3>2
  <2> QED BY <2>1, <2>2, <2>3 DEF Abstract!Replace, Shown
<1>6. ASSUME NEW v \in Value, IndexOf(v) PROVE Abstract!IndexOf(v)
  BY <1>6, FirstIndexIsFoundAt DEF IndexOf, Abstract!IndexOf
<1> QED BY <1>3, <1>4, <1>5, <1>6

\* MBList implements List, for any values and any initial capacity: growth and what
\* pop() and clear() leave behind in the array are never seen.
THEOREM ListImplemented == ListSpec => IsList
<1>1. ListInit => Abstract!Init
  <2>1. length = 0 => Shown(data, length) = <<>>
    BY DEF Shown
  <2> QED BY <2>1 DEF ListInit, Abstract!Init, Shown
<1>2. ListInv /\ [ListNext]_listVars => [Abstract!Next]_(Abstract!vars)
  <2> SUFFICES ASSUME ListInv, [ListNext]_listVars
               PROVE  Abstract!Next \/ UNCHANGED Abstract!vars
    OBVIOUS
  <2>1. CASE \E v \in Value : Add(v) \/ Push(v)
    BY <2>1, ExtendedAppends DEF Abstract!Next
  <2>2. CASE Pop \/ Clear
    BY <2>2, PopAndClearShrink DEF Abstract!Next
  <2>3. CASE \/ \E i \in 0 .. MaxLength - 1 : Get(i) \/ \E v \in Value : Set(i, v)
             \/ \E old, new \in Value : Replace(old, new)
             \/ \E v \in Value : IndexOf(v)
    BY <2>3, ElementsAgree DEF Abstract!Next
  <2>4. CASE UNCHANGED listVars
    BY <2>4 DEF listVars, Abstract!vars
  <2> QED BY <2>1, <2>2, <2>3, <2>4 DEF ListNext
<1> QED BY <1>1, <1>2, ListInvariant, PTL DEF ListSpec, IsList, Abstract!Spec
=============================================================================
