------------------------ MODULE MDBBreakpoint_proof ------------------------
(***************************************************************************)
(* Proofs about MDBBreakpoint, for any address space, program image, set   *)
(* of volatile pages and number of breakpoints.                            *)
(*                                                                         *)
(* The properties rest on each other: what enable() saves is right because *)
(* reads see the program, reads see the program because the saved patches  *)
(* are right and every foreign byte is some breakpoint's int 3.  Their     *)
(* conjunction IInv is inductive; no part of it is.                        *)
(***************************************************************************)
EXTENDS MDBBreakpoint, FiniteSetTheorems, TLAPS

IInv ==
  /\ TypeOK
  /\ Stable \subseteq mapped
  /\ PatchIsText
  /\ NoOrphanedInt3

-----------------------------------------------------------------------------
(* read().                                                                 *)

\* A nonempty set of list indices has a last one.
LEMMA LastExists ==
  ASSUME NEW n \in Nat, NEW S \in SUBSET (1 .. n), S # {}
  PROVE  \E i \in S : \A j \in S : j <= i
<1> DEFINE From(i) == {j \in S : j >= i}
           T == {From(i) : i \in S}
<1>0. \A k \in S : k \in Int
  OBVIOUS
<1>1. IsWellFoundedOn(StrictSubsetOrdering(1 .. n), SUBSET (1 .. n))
  <2>1. IsFiniteSet(1 .. n)
    BY FS_Interval
  <2>2. FiniteSubsetsOf(1 .. n) = SUBSET (1 .. n)
    BY <2>1, FS_FiniteSubsetsOfFinite
  <2> QED BY <2>2, FS_StrictSubsetOrderingWellFounded
<1>2. T \subseteq SUBSET (1 .. n) /\ T # {}
  OBVIOUS
<1>3. PICK m \in T : \A y \in T : ~ (<<y, m>> \in StrictSubsetOrdering(1 .. n))
  <2> HIDE DEF T
  <2> QED BY <1>1, <1>2, WFMin
<1>4. PICK i \in S : m = From(i)
  OBVIOUS
<1>5. ASSUME NEW j \in S, ~ (j <= i)
      PROVE  FALSE
  <2>1. i \in Int /\ j \in Int /\ i < j
    BY <1>0, <1>5
  <2>2. \A k \in S : k >= j => k >= i
    BY <2>1, <1>0
  <2>3. From(j) \subseteq From(i)
    BY <2>2
  <2>4. i \in From(i) /\ i \notin From(j)
    BY <2>1
  <2>5. <<From(j), From(i)>> \in StrictSubsetOrdering(1 .. n)
    BY <2>3, <2>4, <1>2 DEF StrictSubsetOrdering
  <2> QED BY <2>5, <1>3, <1>4
<1> QED BY <1>5

\* The breakpoint whose patch read() returns is one of the enabled ones.
LEMMA LastEnabledAtIsEnabled ==
  ASSUME TypeOK, NEW a \in Address, EnabledAt(a) # {}
  PROVE  LastEnabledAt(a) \in EnabledAt(a)
<1>1. EnabledAt(a) \in SUBSET (1 .. Len(breakpoints)) /\ Len(breakpoints) \in Nat
  BY DEF TypeOK, EnabledAt
<1>2. \E i \in EnabledAt(a) : \A j \in EnabledAt(a) : j <= i
  BY <1>1, LastExists
<1> QED BY <1>2 DEF LastEnabledAt

\* read() yields a byte, whatever it finds.
LEMMA ReadByteType ==
  ASSUME TypeOK, NEW a \in Address, NEW b \in Byte
  PROVE  ReadByte(a, b) \in Byte
<1>1. CASE EnabledAt(a) # {}
  <2>1. LastEnabledAt(a) \in DOMAIN breakpoints
    BY <1>1, LastEnabledAtIsEnabled DEF EnabledAt
  <2>2. breakpoints[LastEnabledAt(a)] \in Breakpoint
    BY <2>1 DEF TypeOK
  <2> QED BY <1>1, <2>2 DEF ReadByte, Breakpoint
<1>2. CASE EnabledAt(a) = {}
  BY <1>2 DEF ReadByte, TypeOK
<1> QED BY <1>1, <1>2

\* Where the page stays mapped, read() yields the byte of the program image.
LEMMA ReadByteIsText ==
  ASSUME IInv, NEW a \in Stable, NEW b \in Byte
  PROVE  ReadByte(a, b) = Text[a]
<1>1. a \in Address /\ a \in mapped
  BY DEF IInv, Stable
<1>2. CASE EnabledAt(a) # {}
  <2>1. LastEnabledAt(a) \in EnabledAt(a)
    BY <1>1, <1>2, LastEnabledAtIsEnabled DEF IInv
  <2> QED BY <1>2, <2>1 DEF ReadByte, EnabledAt, IInv, PatchIsText
<1>3. CASE EnabledAt(a) = {}
  BY <1>1, <1>3 DEF ReadByte, IInv, NoOrphanedInt3
<1> QED BY <1>2, <1>3

-----------------------------------------------------------------------------
(* enable(true) as a function of the breakpoint.                           *)

LEMMA ArmedFields ==
  ASSUME TypeOK, NEW b \in Breakpoint
  PROVE  /\ Armed(b) \in Breakpoint
         /\ Armed(b).address = b.address
         /\ Armed(b).enabled = TRUE
         /\ Armed(b).patch = ReadByte(b.address, b.patch)
<1>1. b.address \in Address /\ b.patch \in Byte
  BY DEF Breakpoint
<1>2. ReadByte(b.address, b.patch) \in Byte
  BY <1>1, ReadByteType
<1>3. ReadReturn(b.address) # 0 /\ WriteReturn # 0
  BY DEF ReadReturn, WriteReturn
<1>4. Armed(b) = [b EXCEPT !.patch = ReadByte(b.address, b.patch), !.enabled = TRUE]
  BY <1>3 DEF Armed
<1> QED BY <1>2, <1>4 DEF Breakpoint

LEMMA ArmedMemoryIs ==
  ASSUME TypeOK, NEW a \in Address
  PROVE  /\ ArmedMemory(a) = Written(a, INT3)
         /\ Written(a, INT3) \in [Address -> Byte]
<1>1. ReadReturn(a) # 0
  BY DEF ReadReturn
<1>2. INT3 \in Byte
  BY BreakpointAssumption
<1> QED BY <1>1, <1>2 DEF ArmedMemory, Written, TypeOK
-----------------------------------------------------------------------------
(* The actions preserve the invariant.                                     *)

LEMMA InitIInv == Init => IInv
<1> SUFFICES ASSUME Init PROVE IInv
  OBVIOUS
<1>1. TypeOK /\ Stable \subseteq mapped
  BY BreakpointAssumption DEF Init, TypeOK, Stable
<1>2. PatchIsText /\ NoOrphanedInt3
  BY DEF Init, PatchIsText, NoOrphanedInt3, Stable
<1> QED BY <1>1, <1>2 DEF IInv

\* Types alone: these also hold of a debuggee whose memory is gone.
LEMMA EnableTypes ==
  ASSUME TypeOK, NEW i \in DOMAIN breakpoints, EnableBreakpoint(i), UNCHANGED mapped
  PROVE  TypeOK' /\ Len(breakpoints') = Len(breakpoints)
<1>1. breakpoints[i] \in Breakpoint
  BY DEF TypeOK
<1>2. breakpoints[i].address \in Address
  BY <1>1 DEF Breakpoint
<1>3. CASE breakpoints[i].enabled
  BY <1>3 DEF EnableBreakpoint, TypeOK
<1>4. CASE ~ breakpoints[i].enabled
  <2>1. /\ breakpoints' = [breakpoints EXCEPT ![i] = Armed(breakpoints[i])]
        /\ memory' \in [Address -> Byte]
        /\ Armed(breakpoints[i]) \in Breakpoint
    BY <1>1, <1>2, <1>4, ArmedMemoryIs, ArmedFields DEF EnableBreakpoint
  <2> QED BY <2>1 DEF TypeOK
<1> QED BY <1>3, <1>4

LEMMA DisableTypes ==
  ASSUME TypeOK, NEW i \in DOMAIN breakpoints, DisableBreakpoint(i), UNCHANGED mapped
  PROVE  TypeOK' /\ Len(breakpoints') = Len(breakpoints)
<1>1. breakpoints[i] \in Breakpoint
  BY DEF TypeOK
<1>2. breakpoints[i].address \in Address /\ breakpoints[i].patch \in Byte
  BY <1>1 DEF Breakpoint
<1>3. CASE ~ breakpoints[i].enabled
  BY <1>3 DEF DisableBreakpoint, TypeOK
<1>4. CASE breakpoints[i].enabled
  <2>. DEFINE d == Disarmed(breakpoints[i])
  <2>1. d \in Breakpoint
    <3>1. (WriteReturn = 0) = FALSE
      BY DEF WriteReturn
    <3>2. d = [breakpoints[i] EXCEPT !.enabled = FALSE]
      BY <3>1 DEF Disarmed
    <3>. QED BY <1>1, <3>2 DEF Breakpoint
  <2>2. /\ breakpoints' = [breakpoints EXCEPT ![i] = d]
        /\ memory' = Written(breakpoints[i].address, breakpoints[i].patch)
    BY <1>4 DEF DisableBreakpoint
  <2>. HIDE DEF d
  <2> QED BY <1>2, <2>1, <2>2 DEF TypeOK, Written
<1> QED BY <1>3, <1>4

LEMMA CreateTypes ==
  ASSUME TypeOK, NEW a \in Address, CreateBreakpoint(a), UNCHANGED mapped
  PROVE  TypeOK' /\ Len(breakpoints') = Len(breakpoints) + 1
<1>1. PICK p \in Byte : breakpoints' = Append(breakpoints, NewBreakpoint(a, p))
  BY DEF CreateBreakpoint
<1>2. NewBreakpoint(a, p) \in Breakpoint
  BY DEF NewBreakpoint, Breakpoint
<1> QED BY <1>1, <1>2 DEF CreateBreakpoint, TypeOK

LEMMA CreateEnabledTypes ==
  ASSUME TypeOK, NEW a \in Address, CreateEnabledBreakpoint(a), UNCHANGED mapped
  PROVE  TypeOK' /\ Len(breakpoints') = Len(breakpoints) + 1
<1>1. PICK p \in Byte : breakpoints' = Append(breakpoints, Armed(NewBreakpoint(a, p)))
  BY DEF CreateEnabledBreakpoint
<1>2. NewBreakpoint(a, p) \in Breakpoint
  BY DEF NewBreakpoint, Breakpoint
<1>3. Armed(NewBreakpoint(a, p)) \in Breakpoint
  BY <1>2, ArmedFields
<1>4. memory' \in [Address -> Byte]
  BY ArmedMemoryIs DEF CreateEnabledBreakpoint
<1> QED BY <1>1, <1>3, <1>4 DEF TypeOK

LEMMA EnablePreserves ==
  ASSUME IInv, NEW i \in DOMAIN breakpoints, EnableBreakpoint(i), UNCHANGED mapped
  PROVE  IInv'
<1> DEFINE b == breakpoints[i]
           a == b.address
<1>1. CASE b.enabled
  BY <1>1 DEF EnableBreakpoint, IInv, TypeOK, PatchIsText, NoOrphanedInt3, EnabledAt
<1>2. CASE ~ b.enabled
  <2>0. b \in Breakpoint
    BY DEF IInv, TypeOK
  <2>1. b \in Breakpoint /\ a \in Address
    BY <2>0 DEF Breakpoint
  <2>2. /\ breakpoints' = [breakpoints EXCEPT ![i] = Armed(b)]
        /\ memory' = Written(a, INT3)
        /\ memory' \in [Address -> Byte]
    BY <1>2, <2>1, ArmedMemoryIs DEF EnableBreakpoint, IInv
  <2>3. /\ Armed(b) \in Breakpoint
        /\ Armed(b).address = a
        /\ Armed(b).enabled = TRUE
        /\ a \in Stable => Armed(b).patch = Text[a]
    BY <2>1, ArmedFields, ReadByteIsText DEF IInv, Breakpoint
  <2>4. TypeOK'
    BY <2>2, <2>3 DEF IInv, TypeOK
  <2>5. PatchIsText'
    BY <2>2, <2>3 DEF IInv, TypeOK, PatchIsText
  <2>6. NoOrphanedInt3'
    <3> SUFFICES ASSUME NEW c \in Stable, memory'[c] # Text[c]
                 PROVE  memory'[c] = INT3 /\ EnabledAt(c)' # {}
      BY DEF NoOrphanedInt3
    <3>1. CASE c = a
      <4>1. i \in EnabledAt(c)'
        BY <3>1, <2>2, <2>3 DEF EnabledAt, IInv, TypeOK
      <4>2. memory'[c] = INT3
        BY <3>1, <2>2 DEF Written, IInv, TypeOK, Stable
      <4> QED BY <4>1, <4>2
    <3>2. CASE c # a
      <4>1. memory'[c] = memory[c]
        BY <3>2, <2>2 DEF Written, IInv, TypeOK, Stable
      <4>2. PICK j \in EnabledAt(c) : TRUE
        BY <4>1 DEF IInv, NoOrphanedInt3
      <4>3. j \in EnabledAt(c)'
        BY <4>2, <3>2, <2>2 DEF EnabledAt, IInv, TypeOK
      <4> QED BY <4>1, <4>3 DEF IInv, NoOrphanedInt3
    <3> QED BY <3>1, <3>2
  <2> QED BY <2>4, <2>5, <2>6 DEF IInv
<1> QED BY <1>1, <1>2

LEMMA DisablePreserves ==
  ASSUME IInv, NEW i \in DOMAIN breakpoints, DisableBreakpoint(i), UNCHANGED mapped
  PROVE  IInv'
<1> DEFINE b == breakpoints[i]
           a == b.address
<1>1. CASE ~ b.enabled
  BY <1>1 DEF DisableBreakpoint, IInv, TypeOK, PatchIsText, NoOrphanedInt3, EnabledAt
<1>2. CASE b.enabled
  <2>0. b \in Breakpoint
    BY DEF IInv, TypeOK
  <2>1. a \in Address /\ b.patch \in Byte
    BY <2>0 DEF Breakpoint
  <2>. DEFINE d == Disarmed(b)
  <2>2. breakpoints' = [breakpoints EXCEPT ![i] = d] /\ memory' = Written(a, b.patch)
    BY <1>2 DEF DisableBreakpoint
  <2>3. d \in Breakpoint /\ d.address = a /\ d.enabled = FALSE
    <3>1. (WriteReturn = 0) = FALSE
      BY DEF WriteReturn
    <3>2. d = [b EXCEPT !.enabled = FALSE]
      BY <3>1 DEF Disarmed
    <3>. QED BY <2>0, <3>2 DEF Breakpoint
  <2>. HIDE DEF d
  <2>4. a \in Stable => b.patch = Text[a]
    BY <1>2 DEF IInv, PatchIsText
  <2>5. TypeOK'
    BY <2>1, <2>2, <2>3 DEF IInv, TypeOK, Written
  <2>6. PatchIsText'
    BY <2>2, <2>3 DEF IInv, TypeOK, PatchIsText
  <2>7. NoOrphanedInt3'
    <3> SUFFICES ASSUME NEW c \in Stable, memory'[c] # Text[c]
                 PROVE  memory'[c] = INT3 /\ EnabledAt(c)' # {}
      BY DEF NoOrphanedInt3
    <3>1. c # a
      BY <2>2, <2>4 DEF Written, IInv, TypeOK, Stable
    <3>2. memory'[c] = memory[c]
      BY <3>1, <2>2 DEF Written, IInv, TypeOK, Stable
    <3>3. PICK j \in EnabledAt(c) : TRUE
      BY <3>2 DEF IInv, NoOrphanedInt3
    <3>4. j \in EnabledAt(c)'
      BY <3>3, <3>1, <2>2, <2>3 DEF EnabledAt, IInv, TypeOK
    <3> QED BY <3>2, <3>4 DEF IInv, NoOrphanedInt3
  <2> QED BY <2>5, <2>6, <2>7 DEF IInv
<1> QED BY <1>1, <1>2

\* What appending a breakpoint leaves alone.
LEMMA AppendKeepsEnabled ==
  ASSUME TypeOK, NEW b \in Breakpoint, breakpoints' = Append(breakpoints, b)
  PROVE  /\ breakpoints' \in Seq(Breakpoint)
         /\ DOMAIN breakpoints' = DOMAIN breakpoints \union {Len(breakpoints) + 1}
         /\ breakpoints'[Len(breakpoints) + 1] = b
         /\ \A j \in DOMAIN breakpoints : breakpoints'[j] = breakpoints[j]
         /\ \A a \in Address : EnabledAt(a) \subseteq EnabledAt(a)'
<1>1. /\ breakpoints' \in Seq(Breakpoint)
      /\ DOMAIN breakpoints' = DOMAIN breakpoints \union {Len(breakpoints) + 1}
      /\ breakpoints'[Len(breakpoints) + 1] = b
      /\ \A j \in DOMAIN breakpoints : breakpoints'[j] = breakpoints[j]
  BY DEF TypeOK
<1> QED BY <1>1 DEF EnabledAt

LEMMA CreatePreserves ==
  ASSUME IInv, NEW a \in Address, CreateBreakpoint(a), UNCHANGED mapped
  PROVE  IInv'
<1>1. PICK p \in Byte : breakpoints' = Append(breakpoints, NewBreakpoint(a, p))
  BY DEF CreateBreakpoint
<1>2. NewBreakpoint(a, p) \in Breakpoint /\ ~ NewBreakpoint(a, p).enabled
  BY DEF NewBreakpoint, Breakpoint
<1>3. UNCHANGED memory
  BY DEF CreateBreakpoint
<1> HIDE DEF CreateBreakpoint
<1>4. TypeOK'
  BY <1>1, <1>2, <1>3, AppendKeepsEnabled DEF IInv, TypeOK
<1>5. PatchIsText'
  BY <1>1, <1>2, AppendKeepsEnabled DEF IInv, PatchIsText
<1>6. NoOrphanedInt3'
  BY <1>1, <1>2, <1>3, AppendKeepsEnabled DEF IInv, NoOrphanedInt3, Stable
<1> QED BY <1>4, <1>5, <1>6 DEF IInv

LEMMA CreateEnabledPreserves ==
  ASSUME IInv, NEW a \in Address, CreateEnabledBreakpoint(a), UNCHANGED mapped
  PROVE  IInv'
<1>1. PICK p \in Byte : breakpoints' = Append(breakpoints, Armed(NewBreakpoint(a, p)))
  BY DEF CreateEnabledBreakpoint
<1> DEFINE b == Armed(NewBreakpoint(a, p))
<1>2. /\ b \in Breakpoint
      /\ b.address = a
      /\ b.enabled = TRUE
      /\ a \in Stable => b.patch = Text[a]
  <2>. DEFINE n == NewBreakpoint(a, p)
  <2>1. n \in Breakpoint /\ n.address = a /\ n.patch = p
    BY DEF NewBreakpoint, Breakpoint
  <2>. HIDE DEF n
  <2>2. /\ Armed(n) \in Breakpoint
        /\ Armed(n).address = a
        /\ Armed(n).enabled = TRUE
        /\ Armed(n).patch = ReadByte(a, p)
    BY <2>1, ArmedFields DEF IInv
  <2>3. a \in Stable => ReadByte(a, p) = Text[a]
    BY ReadByteIsText
  <2> QED BY <2>2, <2>3 DEF n
<1>3. memory' = Written(a, INT3) /\ memory' \in [Address -> Byte]
  BY ArmedMemoryIs DEF CreateEnabledBreakpoint, IInv
<1> HIDE DEF b
<1>4. breakpoints' = Append(breakpoints, b)
  BY <1>1 DEF b
<1>5. TypeOK'
  BY <1>2, <1>3, <1>4, AppendKeepsEnabled DEF IInv, TypeOK
<1>6. PatchIsText'
  BY <1>2, <1>4, AppendKeepsEnabled DEF IInv, PatchIsText
<1>7. NoOrphanedInt3'
  <2> SUFFICES ASSUME NEW c \in Stable, memory'[c] # Text[c]
               PROVE  memory'[c] = INT3 /\ EnabledAt(c)' # {}
    BY DEF NoOrphanedInt3
  <2>1. CASE c = a
    <3>1. Len(breakpoints) + 1 \in EnabledAt(c)'
      BY <2>1, <1>2, <1>4, AppendKeepsEnabled DEF EnabledAt, IInv
    <3>2. memory'[c] = INT3
      BY <2>1, <1>3 DEF Written, IInv, TypeOK, Stable
    <3> QED BY <3>1, <3>2
  <2>2. CASE c # a
    <3>1. memory'[c] = memory[c]
      BY <2>2, <1>3 DEF Written, IInv, TypeOK, Stable
    <3> QED BY <3>1, <1>2, <1>4, AppendKeepsEnabled DEF IInv, NoOrphanedInt3, Stable
  <2> QED BY <2>1, <2>2
<1> QED BY <1>5, <1>6, <1>7 DEF IInv

\* Mapping and unmapping a volatile page.
LEMMA PagesPreserve ==
  ASSUME IInv, NEW a \in Volatile, MapPage(a) \/ UnmapPage(a)
  PROVE  IInv'
<1>1. /\ UNCHANGED breakpoints
      /\ \A c \in Stable : memory'[c] = memory[c]
      /\ memory' \in [Address -> Byte]
  BY BreakpointAssumption DEF MapPage, UnmapPage, IInv, TypeOK, Stable
<1>2. mapped' \subseteq Address /\ Stable \subseteq mapped'
  BY BreakpointAssumption DEF MapPage, UnmapPage, IInv, TypeOK, Stable
<1> QED BY <1>1, <1>2 DEF IInv, TypeOK, PatchIsText, NoOrphanedInt3, EnabledAt

LEMMA NextIInv == IInv /\ [Next]_bpVars => IInv'
<1> SUFFICES ASSUME IInv, [Next]_bpVars PROVE IInv'
  OBVIOUS
<1>1. ASSUME NEW a \in Address, CreateBreakpoint(a), UNCHANGED mapped PROVE IInv'
  BY <1>1, CreatePreserves
<1>2. ASSUME NEW a \in Address, CreateEnabledBreakpoint(a), UNCHANGED mapped PROVE IInv'
  BY <1>2, CreateEnabledPreserves
<1>3. ASSUME NEW i \in DOMAIN breakpoints, EnableBreakpoint(i), UNCHANGED mapped
      PROVE  IInv'
  BY <1>3, EnablePreserves
<1>4. ASSUME NEW i \in DOMAIN breakpoints, DisableBreakpoint(i), UNCHANGED mapped
      PROVE  IInv'
  BY <1>4, DisablePreserves
<1>5. ASSUME NEW a \in Volatile, MapPage(a) \/ UnmapPage(a) PROVE IInv'
  BY <1>5, PagesPreserve
<1>6. CASE UNCHANGED bpVars
  BY <1>6 DEF bpVars, IInv, TypeOK, PatchIsText, NoOrphanedInt3, EnabledAt
<1> QED BY <1>1, <1>2, <1>3, <1>4, <1>5, <1>6 DEF Next

-----------------------------------------------------------------------------
(* A breakpoint that has its address to itself.                            *)

Alone(i) ==
  \A j \in DOMAIN breakpoints : breakpoints[j].address = breakpoints[i].address => j = i

LEMMA ArmedIs ==
  EnabledIsArmed <=>
    \A i \in DOMAIN breakpoints :
      breakpoints[i].enabled /\ breakpoints[i].address \in Stable /\ Alone(i)
        => memory[breakpoints[i].address] = INT3
<1> QED BY DEF EnabledIsArmed, Alone

\* A breakpoint that is alone after an append was alone before it.
LEMMA AppendAlone ==
  ASSUME TypeOK, NEW b \in Breakpoint, breakpoints' = Append(breakpoints, b),
         NEW i \in DOMAIN breakpoints, Alone(i)'
  PROVE  Alone(i) /\ b.address # breakpoints[i].address
<1>1. Len(breakpoints) + 1 # i
  BY DEF TypeOK
<1> QED BY <1>1, AppendKeepsEnabled DEF Alone

LEMMA EnabledIsArmedInductive ==
  ASSUME IInv, EnabledIsArmed, [Next]_bpVars
  PROVE  EnabledIsArmed'
<1> USE DEF IInv
<1> SUFFICES ASSUME NEW i \in DOMAIN breakpoints',
                    breakpoints'[i].enabled, breakpoints'[i].address \in Stable,
                    Alone(i)'
             PROVE  memory'[breakpoints'[i].address] = INT3
  BY DEF EnabledIsArmed, Alone, Stable
<1> DEFINE a == breakpoints'[i].address
<1>0. a \in Address /\ a \in mapped
  BY DEF Stable
<1>1. ASSUME NEW c \in Address, CreateBreakpoint(c) PROVE memory'[a] = INT3
  <2>1. PICK p \in Byte : breakpoints' = Append(breakpoints, NewBreakpoint(c, p))
    BY <1>1 DEF CreateBreakpoint
  <2>2. NewBreakpoint(c, p) \in Breakpoint /\ ~ NewBreakpoint(c, p).enabled
    BY DEF NewBreakpoint, Breakpoint
  <2>3. i \in DOMAIN breakpoints /\ breakpoints'[i] = breakpoints[i]
    BY <2>1, <2>2, AppendKeepsEnabled
  <2>4. Alone(i)
    BY <2>1, <2>2, <2>3, AppendAlone
  <2> QED BY <2>3, <2>4, <1>1, ArmedIs DEF CreateBreakpoint
<1>2. ASSUME NEW c \in Address, CreateEnabledBreakpoint(c) PROVE memory'[a] = INT3
  <2>1. PICK p \in Byte : breakpoints' = Append(breakpoints, Armed(NewBreakpoint(c, p)))
    BY <1>2 DEF CreateEnabledBreakpoint
  <2>2. NewBreakpoint(c, p) \in Breakpoint /\ NewBreakpoint(c, p).address = c
    BY DEF NewBreakpoint, Breakpoint
  <2>3. Armed(NewBreakpoint(c, p)) \in Breakpoint /\ Armed(NewBreakpoint(c, p)).address = c
    BY <2>2, ArmedFields
  <2>4. memory' = Written(c, INT3)
    BY <1>2, ArmedMemoryIs DEF CreateEnabledBreakpoint
  <2>5. CASE i \in DOMAIN breakpoints
    <3>1. breakpoints'[i] = breakpoints[i]
      BY <2>1, <2>3, <2>5, AppendKeepsEnabled
    <3>2. Alone(i) /\ c # a
      BY <2>1, <2>3, <2>5, <3>1, AppendAlone
    <3>3. memory'[a] = memory[a]
      BY <2>4, <3>2, <1>0 DEF Written, TypeOK
    <3> QED BY <2>5, <3>1, <3>2, <3>3, ArmedIs
  <2>6. CASE i = Len(breakpoints) + 1
    <3>1. a = c
      BY <2>1, <2>3, <2>6, AppendKeepsEnabled
    <3> QED BY <3>1, <2>4, <1>0 DEF Written, TypeOK
  <2> QED BY <2>1, <2>3, <2>5, <2>6, AppendKeepsEnabled
<1>3. ASSUME NEW k \in DOMAIN breakpoints, EnableBreakpoint(k) PROVE memory'[a] = INT3
  <2>1. breakpoints[k] \in Breakpoint /\ breakpoints[k].address \in Address
    <3>1. breakpoints[k] \in Breakpoint
      BY DEF TypeOK
    <3> QED BY <3>1 DEF Breakpoint
  <2>2. CASE breakpoints[k].enabled
    <3>1. UNCHANGED <<memory, breakpoints>>
      BY <1>3, <2>2 DEF EnableBreakpoint
    <3> QED BY <3>1, ArmedIs DEF Alone
  <2>3. CASE ~ breakpoints[k].enabled
    <3>1. /\ breakpoints' = [breakpoints EXCEPT ![k] = Armed(breakpoints[k])]
          /\ memory' = Written(breakpoints[k].address, INT3)
          /\ Armed(breakpoints[k]).address = breakpoints[k].address
      BY <1>3, <2>1, <2>3, ArmedMemoryIs, ArmedFields DEF EnableBreakpoint
    <3>2. /\ DOMAIN breakpoints' = DOMAIN breakpoints
          /\ \A j \in DOMAIN breakpoints : breakpoints'[j].address = breakpoints[j].address
          /\ \A j \in DOMAIN breakpoints : j # k => breakpoints'[j] = breakpoints[j]
      BY <3>1 DEF TypeOK
    <3>3. Alone(i)
      BY <3>2 DEF Alone
    <3>4. CASE i = k
      BY <3>1, <3>2, <3>4, <1>0 DEF Written, TypeOK
    <3>5. CASE i # k
      <4>1. breakpoints[k].address # a
        BY <3>2, <3>3, <3>5 DEF Alone
      <4>2. memory'[a] = memory[a]
        BY <4>1, <3>1, <1>0 DEF Written, TypeOK
      <4> QED BY <4>2, <3>2, <3>3, <3>5, ArmedIs
    <3> QED BY <3>4, <3>5
  <2> QED BY <2>2, <2>3
<1>4. ASSUME NEW k \in DOMAIN breakpoints, DisableBreakpoint(k) PROVE memory'[a] = INT3
  <2>1. CASE ~ breakpoints[k].enabled
    <3>1. UNCHANGED <<memory, breakpoints>>
      BY <1>4, <2>1 DEF DisableBreakpoint
    <3> QED BY <3>1, ArmedIs DEF Alone
  <2>2. CASE breakpoints[k].enabled
    <3>. DEFINE d == Disarmed(breakpoints[k])
    <3>1. d.address = breakpoints[k].address /\ d.enabled = FALSE
      <4>1. breakpoints[k] \in Breakpoint /\ (WriteReturn = 0) = FALSE
        BY DEF TypeOK, WriteReturn
      <4>2. d = [breakpoints[k] EXCEPT !.enabled = FALSE]
        BY <4>1 DEF Disarmed
      <4> QED BY <4>1, <4>2 DEF Breakpoint
    <3>2. /\ breakpoints' = [breakpoints EXCEPT ![k] = d]
          /\ memory' = Written(breakpoints[k].address, breakpoints[k].patch)
      BY <1>4, <2>2 DEF DisableBreakpoint
    <3>. HIDE DEF d
    <3>3. /\ DOMAIN breakpoints' = DOMAIN breakpoints
          /\ \A j \in DOMAIN breakpoints : breakpoints'[j].address = breakpoints[j].address
          /\ \A j \in DOMAIN breakpoints : j # k => breakpoints'[j] = breakpoints[j]
          /\ ~ breakpoints'[k].enabled
      BY <3>1, <3>2 DEF TypeOK
    <3>4. i # k /\ Alone(i)
      BY <3>3 DEF Alone
    <3>5. breakpoints[k].address # a
      BY <3>3, <3>4 DEF Alone
    <3>6. memory'[a] = memory[a]
      BY <3>2, <3>5, <1>0 DEF Written, TypeOK
    <3> QED BY <3>3, <3>4, <3>6, ArmedIs
  <2> QED BY <2>1, <2>2
<1>5. ASSUME NEW c \in Volatile, MapPage(c) \/ UnmapPage(c) PROVE memory'[a] = INT3
  <2>1. UNCHANGED breakpoints /\ memory'[a] = memory[a]
    BY <1>5, <1>0 DEF MapPage, UnmapPage, Stable, TypeOK
  <2> QED BY <2>1, ArmedIs DEF Alone
<1>6. CASE UNCHANGED bpVars
  BY <1>6, ArmedIs DEF bpVars, Alone
<1> QED BY <1>1, <1>2, <1>3, <1>4, <1>5, <1>6 DEF Next

-----------------------------------------------------------------------------
(* The theorems.                                                           *)

\* The invariant holds in every reachable state.
THEOREM Inductive == Spec => []IInv
<1> QED BY InitIInv, NextIInv, PTL DEF Spec

\* The debugger's data stay well typed, in particular no patch is ever
\* something else than a byte (MDBBreakpoint::enable, MDBDebugger::read).
THEOREM TypeCorrect == Spec => []TypeOK
<1>1. IInv => TypeOK
  BY DEF IInv
<1> QED BY <1>1, Inductive, PTL

\* No sequence of createBreakpoint, enable and disable calls, duplicates
\* included, leaves an int 3 behind or loses a byte of the program.
THEOREM NeverOrphaned == Spec => []NoOrphanedInt3
<1>1. IInv => NoOrphanedInt3
  BY DEF IInv
<1> QED BY <1>1, Inductive, PTL

\* MDBDebugger::read hides every breakpoint from its callers.
THEOREM BreakpointsInvisible == Spec => []ReadsSeeProgram
<1>1. IInv => ReadsSeeProgram
  BY ReadByteIsText DEF ReadsSeeProgram
<1> QED BY <1>1, Inductive, PTL

\* A breakpoint that enable() reports as enabled and that shares its address
\* with no other is in the debuggee's memory.
THEOREM EnabledMeansArmed == Spec => []EnabledIsArmed
<1>1. Init => EnabledIsArmed
  BY DEF Init, EnabledIsArmed
<1>2. IInv /\ EnabledIsArmed /\ [Next]_bpVars => EnabledIsArmed'
  BY EnabledIsArmedInductive
<1> QED BY <1>1, <1>2, Inductive, PTL DEF Spec
=============================================================================
