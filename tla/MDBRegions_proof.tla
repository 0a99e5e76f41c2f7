-------------------------- MODULE MDBRegions_proof --------------------------
(***************************************************************************)
(* Proofs about MDBRegions, for any set of programs, any buffer, any C     *)
(* stack and any memory that cannot be read: the regions are the           *)
(* procedures of the program as far as it could be read, what they call is *)
(* in one or begins where one ends, and a procedure is scanned again in    *)
(* its own scan only if that has found no ret.                             *)
(*                                                                         *)
(* What a procedure is, is defined by recursion over the offsets of its    *)
(* instructions.  The library's induction theorems have an operator as a   *)
(* parameter; what is needed of them is derived here for sets instead,     *)
(* from the theorem that every set of naturals has a least element.        *)
(***************************************************************************)
EXTENDS MDBRegions, WellFoundedInduction, TLAPS

-----------------------------------------------------------------------------
(* Induction and recursion.                                                *)

Less == {p \in Nat \X Nat : p[1] < p[2]}

LEMMA LeastElement ==
  ASSUME NEW S, S \subseteq Nat, S # {} PROVE \E n \in S : \A m \in S : n <= m
<1>1. IsWellFoundedOn(Less, Nat)
  BY NatLessThanWellFounded DEF OpToRel, Less
<1>2. PICK n \in S : \A m \in S : <<m, n>> \notin Less
  BY <1>1, WFMin
<1>3. ASSUME NEW m \in S PROVE n <= m
  <2>1. m \in Nat /\ n \in Nat
    OBVIOUS
  <2>2. <<m, n>> \in Nat \X Nat /\ <<m, n>>[1] = m /\ <<m, n>>[2] = n
    BY <2>1
  <2>3. ~ (m < n)
    BY <1>2, <2>2 DEF Less
  <2> QED BY <2>1, <2>3
<1> QED BY <1>3

LEMMA SetInduction ==
  ASSUME NEW S, 0 \in S, \A n \in Nat : n \in S => n + 1 \in S PROVE Nat \subseteq S
<1> SUFFICES ASSUME Nat \ S # {} PROVE FALSE
  OBVIOUS
<1> DEFINE T == Nat \ S
<1>1. PICK n \in T : \A m \in T : n <= m
  <2>1. T \subseteq Nat /\ T # {}
    OBVIOUS
  <2> HIDE DEF T
  <2> QED BY <2>1, LeastElement
<1>2. n # 0 /\ n - 1 \in Nat /\ n - 1 \notin T
  BY <1>1
<1> QED BY <1>1, <1>2

\* A function over 0 .. N is given by its value at each argument in `last' and, at any
\* other p, by what step[p] makes of its value at succ[p], a greater argument.
IsForward(N, V, last, value, step, succ) ==
  /\ N \in Nat /\ value \in [0 .. N -> V] /\ step \in [0 .. N -> [V -> V]]
  /\ \A p \in (0 .. N) \ last : succ[p] \in 0 .. N /\ succ[p] > p

IsSolvable(N, V, last, value, step, succ) ==
  \E f \in [0 .. N -> V] : \A p \in 0 .. N :
    f[p] = IF p \in last THEN value[p] ELSE step[p][f[succ[p]]]

LEMMA ForwardRecursion ==
  ASSUME NEW N, NEW V, NEW last, NEW value, NEW step, NEW succ,
         IsForward(N, V, last, value, step, succ)
  PROVE  IsSolvable(N, V, last, value, step, succ)
<1> USE DEF IsForward
<1> DEFINE Solves(k, f) ==
             \A p \in N - k .. N : f[p] = IF p \in last THEN value[p] ELSE step[p][f[succ[p]]]
           S == {k \in Nat : k <= N => \E f \in [N - k .. N -> V] : Solves(k, f)}
<1>1. 0 \in S
  <2> DEFINE f == [p \in N - 0 .. N |-> value[N]]
  <2>1. N \in last
    OBVIOUS
  <2>2. f \in [N - 0 .. N -> V] /\ \A p \in N - 0 .. N : p = N /\ f[p] = value[p]
    OBVIOUS
  <2>3. Solves(0, f)
    BY <2>1, <2>2
  <2> QED BY <2>2, <2>3
<1>2. ASSUME NEW k \in Nat, k \in S, k + 1 <= N PROVE k + 1 \in S
  <2>1. PICK f \in [N - k .. N -> V] : Solves(k, f)
    BY <1>2
  <2> DEFINE q == N - (k + 1)
             g == [p \in q .. N |->
                     IF p # q THEN f[p] ELSE IF q \in last THEN value[q] ELSE step[q][f[succ[q]]]]
  <2>2. q \in 0 .. N /\ \A p \in q .. N : p # q <=> p \in N - k .. N
    BY <1>2
  <2>3. q \notin last => succ[q] \in N - k .. N
    BY <1>2, <2>2
  <2>4. q \notin last => f[succ[q]] \in V /\ step[q] \in [V -> V]
    BY <2>2, <2>3
  <2>5. g \in [q .. N -> V]
    BY <2>2, <2>4
  <2>6. ASSUME NEW p \in N - k .. N PROVE g[p] = f[p]
    BY <2>2, <2>6
  <2>7. ASSUME NEW p \in q .. N, p \notin last PROVE succ[p] \in N - k .. N
    BY <1>2, <2>2, <2>7
  <2>8. ASSUME NEW p \in q .. N
        PROVE  g[p] = IF p \in last THEN value[p] ELSE step[p][g[succ[p]]]
    <3>1. CASE p = q
      BY <2>2, <2>6, <2>7, <3>1
    <3>2. CASE p # q
      <4>1. p \in N - k .. N /\ g[p] = f[p]
        BY <2>2, <2>6, <3>2
      <4>2. f[p] = IF p \in last THEN value[p] ELSE step[p][f[succ[p]]]
        BY <2>1, <4>1
      <4> QED BY <2>6, <2>7, <4>1, <4>2
    <3> QED BY <3>1, <3>2
  <2>9. \E h \in [N - (k + 1) .. N -> V] : Solves(k + 1, h)
    <3> HIDE DEF g
    <3> QED BY <2>5, <2>8
  <2> HIDE DEF Solves
  <2> QED BY <2>9
<1>3. Nat \subseteq S
  <2>1. ASSUME NEW k \in Nat, k \in S PROVE k + 1 \in S
    <3>1. CASE k + 1 <= N
      BY <1>2, <2>1, <3>1
    <3>2. CASE ~ k + 1 <= N
      BY <2>1, <3>2
    <3> QED BY <3>1, <3>2
  <2> HIDE DEF S
  <2> QED BY <1>1, <2>1, SetInduction
<1>4. N \in S
  <2> HIDE DEF S
  <2> QED BY <1>3
<1>5. \E f \in [N - N .. N -> V] : Solves(N, f)
  <2> HIDE DEF Solves
  <2> QED BY <1>4
<1>6. N - N = 0
  OBVIOUS
<1> QED BY <1>5, <1>6 DEF IsSolvable

-----------------------------------------------------------------------------
(* Procedures.                                                             *)

\* The program that is being scanned consists of instructions.
CodeOK == \A a \in DOMAIN code : code[a] \in Operation

\* What is read, or left in the buffer, is a buffer.
LEMMA BuffersAre ==
  ASSUME CodeOK, NEW a PROVE Block(a) \in Buffer /\ Buffers(a) \subseteq Buffer
<1> DEFINE other == [op |-> "other", size |-> 1, target |-> 0]
<1>1. other \in Operation
  BY DEF Operation
<1> HIDE DEF other
<1>2. \A pc \in 0 .. BufferSize - 1 :
        (IF a + pc \in DOMAIN code THEN code[a + pc] ELSE other) \in Operation
  BY <1>1 DEF CodeOK
<1>3. Block(a) \in Buffer
  BY <1>2 DEF Block, Buffer, other
<1> QED BY <1>3, RegionsAssumption DEF Buffers

LEMMA InstructionIs ==
  ASSUME NEW b \in Buffer, NEW pc \in 0 .. BufferSize, pc # BufferSize
  PROVE  /\ pc < BufferSize /\ Instruction(b, pc) \in Operation
         /\ Instruction(b, pc).op # "bad"
              => Instruction(b, pc).size > 0 /\ pc + Instruction(b, pc).size \in 0 .. BufferSize
<1>1. BufferSize \in Nat /\ pc \in Nat /\ pc < BufferSize /\ BufferSize - pc \in Nat \ {0}
  BY RegionsAssumption
<1>2. pc \in 0 .. BufferSize - 1
  BY <1>1
<1>3. b[pc] \in Operation
  BY <1>2 DEF Buffer
<1>4. CASE b[pc].size > BufferSize - pc
  <2>1. Instruction(b, pc) = [op |-> "other", size |-> BufferSize - pc, target |-> 0]
    BY <1>4 DEF Instruction
  <2> QED BY <1>1, <2>1 DEF Operation
<1>5. CASE ~ b[pc].size > BufferSize - pc
  <2>1. Instruction(b, pc) = b[pc]
    BY <1>5 DEF Instruction
  <2> QED BY <1>1, <1>3, <1>5, <2>1 DEF Operation
<1> QED BY <1>1, <1>4, <1>5

\* The recursive definitions of ProcedureEnd and CalledFrom do define them.
LEMMA EndUnfolds ==
  ASSUME NEW b \in Buffer, NEW pc \in 0 .. BufferSize
  PROVE  ProcedureEnd(b)[pc] =
           IF pc = BufferSize \/ Instruction(b, pc).op = "bad" THEN 0
           ELSE IF Instruction(b, pc).op = "ret" THEN pc + Instruction(b, pc).size
           ELSE ProcedureEnd(b)[pc + Instruction(b, pc).size]
<1> DEFINE I(p) == Instruction(b, p)
           Domain == 0 .. BufferSize
           last == {p \in Domain : p = BufferSize \/ I(p).op = "bad" \/ I(p).op = "ret"}
           value == [p \in Domain |->
                       IF p # BufferSize /\ I(p).op = "ret" THEN p + I(p).size ELSE 0]
           step == [p \in Domain |-> [v \in Nat |-> v]]
           succ == [p \in Domain |-> p + I(p).size]
           Body(f, p) == IF p = BufferSize \/ I(p).op = "bad" THEN 0
                         ELSE IF I(p).op = "ret" THEN p + I(p).size
                         ELSE f[p + I(p).size]
<1>1. BufferSize \in Nat
  BY RegionsAssumption
<1>2. ASSUME NEW p \in Domain
      PROVE  /\ p \in Nat /\ p <= BufferSize
             /\ p # BufferSize => I(p).size \in Nat
             /\ p # BufferSize /\ I(p).op # "bad" => I(p).size > 0 /\ p + I(p).size \in Domain
  BY <1>1, InstructionIs DEF Operation
<1> HIDE DEF I
<1>3. \A p \in Domain \ last : succ[p] \in Domain /\ succ[p] > p
  BY <1>1, <1>2
<1>4. value \in [Domain -> Nat] /\ step \in [Domain -> [Nat -> Nat]]
  BY <1>1, <1>2
<1>5. PICK f \in [Domain -> Nat] : \A p \in Domain :
        f[p] = IF p \in last THEN value[p] ELSE step[p][f[succ[p]]]
  <2> HIDE DEF last, value, step, succ
  <2>1. IsForward(BufferSize, Nat, last, value, step, succ)
    BY <1>1, <1>3, <1>4 DEF IsForward
  <2> QED BY <2>1, ForwardRecursion DEF IsSolvable
<1>6. ASSUME NEW p \in Domain PROVE f[p] = Body(f, p)
  <2>1. CASE p \in last
    <3>1. f[p] = value[p]
      BY <1>5, <2>1
    <3>2. CASE p = BufferSize \/ I(p).op = "bad"
      <4>1. value[p] = 0
        BY <1>1, <3>2
      <4> QED BY <3>1, <3>2, <4>1
    <3>3. CASE p # BufferSize /\ I(p).op = "ret"
      <4>1. I(p).op # "bad" /\ value[p] = p + I(p).size
        BY <3>3
      <4> QED BY <3>1, <3>3, <4>1
    <3> QED BY <2>1, <3>2, <3>3
  <2>2. CASE p \notin last
    <3>1. succ[p] \in Domain /\ f[succ[p]] \in Nat
      BY <1>3, <1>5, <2>2
    <3>2. f[p] = f[succ[p]]
      BY <1>5, <2>2, <3>1
    <3> QED BY <2>2, <3>2
  <2> QED BY <2>1, <2>2
<1>7. \E g : g = [p \in Domain |-> Body(g, p)]
  <2>1. f = [p \in Domain |-> Body(f, p)]
    BY <1>6
  <2> QED BY <2>1
<1>8. ProcedureEnd(b) = CHOOSE g : g = [p \in Domain |-> Body(g, p)]
  BY DEF ProcedureEnd, I
<1>9. ProcedureEnd(b) = [p \in Domain |-> Body(ProcedureEnd(b), p)]
  BY <1>7, <1>8
<1>10. ProcedureEnd(b)[pc] = Body(ProcedureEnd(b), pc)
  BY <1>9
<1> QED BY <1>1, <1>2, <1>10 DEF I

LEMMA CalledUnfolds ==
  ASSUME NEW b \in Buffer, NEW pc \in 0 .. BufferSize
  PROVE  CalledFrom(b)[pc] =
           IF pc = BufferSize \/ Instruction(b, pc).op \in {"bad", "ret"} THEN {}
           ELSE CalledFrom(b)[pc + Instruction(b, pc).size]
                  \union (IF Instruction(b, pc).op = "call" THEN {Instruction(b, pc).target} \ {0}
                                                           ELSE {})
<1> DEFINE I(p) == Instruction(b, p)
           Called(p) == IF I(p).op = "call" THEN {I(p).target} \ {0} ELSE {}
           Domain == 0 .. BufferSize
           last == {p \in Domain : p = BufferSize \/ I(p).op \in {"bad", "ret"}}
           value == [p \in Domain |-> {}]
           step == [p \in Domain |-> [v \in SUBSET Nat |-> v \union (Called(p) \intersect Nat)]]
           succ == [p \in Domain |-> p + I(p).size]
           Body(f, p) == IF p = BufferSize \/ I(p).op \in {"bad", "ret"} THEN {}
                         ELSE f[p + I(p).size] \union Called(p)
<1>1. BufferSize \in Nat
  BY RegionsAssumption
<1>2. ASSUME NEW p \in Domain
      PROVE  /\ p \in Nat /\ p <= BufferSize
             /\ p # BufferSize => I(p).size \in Nat /\ Called(p) \subseteq Nat
             /\ p # BufferSize /\ I(p).op # "bad" => I(p).size > 0 /\ p + I(p).size \in Domain
  BY <1>1, InstructionIs DEF Operation
<1>3. CalledFrom(b) = CHOOSE g : g = [p \in Domain |-> Body(g, p)]
  BY DEF CalledFrom
<1> HIDE DEF I, Called
<1>4. \A p \in Domain \ last : succ[p] \in Domain /\ succ[p] > p
  BY <1>1, <1>2
<1>5. value \in [Domain -> SUBSET Nat] /\ step \in [Domain -> [SUBSET Nat -> SUBSET Nat]]
  BY <1>2
<1>6. PICK f \in [Domain -> SUBSET Nat] : \A p \in Domain :
        f[p] = IF p \in last THEN value[p] ELSE step[p][f[succ[p]]]
  <2> HIDE DEF last, value, step, succ
  <2>1. IsForward(BufferSize, SUBSET Nat, last, value, step, succ)
    BY <1>1, <1>4, <1>5 DEF IsForward
  <2> QED BY <2>1, ForwardRecursion DEF IsSolvable
<1>7. ASSUME NEW p \in Domain PROVE f[p] = Body(f, p)
  <2>1. CASE p \in last
    BY <1>6, <2>1
  <2>2. CASE p \notin last
    <3>1. succ[p] \in Domain /\ f[succ[p]] \in SUBSET Nat
      BY <1>4, <1>6, <2>2
    <3>2. f[p] = f[succ[p]] \union Called(p)
      <4>1. f[p] = f[succ[p]] \union (Called(p) \intersect Nat)
        BY <1>6, <2>2, <3>1
      <4>2. Called(p) \subseteq Nat
        BY <1>2, <2>2
      <4> QED BY <4>1, <4>2
    <3> QED BY <2>2, <3>2
  <2> QED BY <2>1, <2>2
<1>8. \E g : g = [p \in Domain |-> Body(g, p)]
  <2>1. f = [p \in Domain |-> Body(f, p)]
    BY <1>7
  <2> QED BY <2>1
<1>9. CalledFrom(b) = [p \in Domain |-> Body(CalledFrom(b), p)]
  BY <1>3, <1>8
<1>10. CalledFrom(b)[pc] = Body(CalledFrom(b), pc)
  BY <1>9
<1> QED BY <1>10 DEF I, Called

\* Call targets are addresses.
LEMMA CalledAreNaturals ==
  ASSUME NEW b \in Buffer, NEW pc \in 0 .. BufferSize PROVE CalledFrom(b)[pc] \subseteq Nat
<1> DEFINE S == {k \in Nat : \A p \in 0 .. BufferSize : p >= BufferSize - k => CalledFrom(b)[p] \subseteq Nat}
<1>1. BufferSize \in Nat
  BY RegionsAssumption
<1>2. 0 \in S
  <2>1. ASSUME NEW p \in 0 .. BufferSize, p >= BufferSize PROVE CalledFrom(b)[p] \subseteq Nat
    <3>1. p = BufferSize
      BY <1>1, <2>1
    <3>2. CalledFrom(b)[p] = {}
      BY <3>1, CalledUnfolds
    <3> QED BY <3>2
  <2> QED BY <1>1, <2>1
<1>3. ASSUME NEW k \in Nat, k \in S PROVE k + 1 \in S
  <2> SUFFICES ASSUME NEW p \in 0 .. BufferSize, p >= BufferSize - (k + 1)
               PROVE  CalledFrom(b)[p] \subseteq Nat
    OBVIOUS
  <2>1. CASE p = BufferSize \/ Instruction(b, p).op \in {"bad", "ret"}
    BY <2>1, CalledUnfolds
  <2>2. CASE ~ (p = BufferSize \/ Instruction(b, p).op \in {"bad", "ret"})
    <3> DEFINE insn == Instruction(b, p)
               q == p + insn.size
    <3>1. insn \in Operation /\ insn.size > 0 /\ q \in 0 .. BufferSize
      BY <2>2, InstructionIs
    <3>2. insn.size \in Nat /\ insn.target \in Nat
      BY <3>1 DEF Operation
    <3>3. q >= BufferSize - k
      BY <1>1, <3>1, <3>2
    <3>4. CalledFrom(b)[q] \subseteq Nat
      BY <1>3, <3>1, <3>3
    <3>5. CalledFrom(b)[p] = CalledFrom(b)[q] \union (IF insn.op = "call" THEN {insn.target} \ {0} ELSE {})
      BY <2>2, CalledUnfolds
    <3> QED BY <3>2, <3>4, <3>5
  <2> QED BY <2>1, <2>2
<1>4. Nat \subseteq S
  <2> HIDE DEF S
  <2> QED BY <1>2, <1>3, SetInduction
<1>5. BufferSize \in S
  <2> HIDE DEF S
  <2> QED BY <1>1, <1>4
<1> QED BY <1>1, <1>5

\* A procedure goes on after an instruction that is neither a ret nor undecodable.
LEMMA GoesOn ==
  ASSUME NEW b \in Buffer, NEW pc \in 0 .. BufferSize, NEW insn, insn = Instruction(b, pc),
         pc < BufferSize, insn.op \notin {"bad", "ret"}, NEW q, q = pc + insn.size
  PROVE  /\ ProcedureEnd(b)[q] = ProcedureEnd(b)[pc]
         /\ insn.op # "call" => CalledFrom(b)[pc] = CalledFrom(b)[q]
         /\ insn.op = "call" => CalledFrom(b)[pc] = CalledFrom(b)[q] \union ({insn.target} \ {0})
<1>1. pc # BufferSize
  BY RegionsAssumption
<1>2. ProcedureEnd(b)[q] = ProcedureEnd(b)[pc]
  BY <1>1, EndUnfolds
<1>3. CalledFrom(b)[pc] = CalledFrom(b)[q] \union (IF insn.op = "call" THEN {insn.target} \ {0} ELSE {})
  BY <1>1, CalledUnfolds
<1> QED BY <1>2, <1>3

-----------------------------------------------------------------------------
(* The inductive invariant.                                                *)

Call == [address : Nat, buffer : Buffer, pc : 0 .. BufferSize, decoding : BOOLEAN,
         targets : Seq(Nat), next : Nat \ {0}]

ScanTypes ==
  /\ CodeOK
  /\ regions \in Seq([address : Nat, size : Nat \ {0}])
  /\ scans \in Seq(Call)
  /\ overflow \in BOOLEAN
  /\ code = <<>> => regions = <<>> /\ scans = <<>>

\* The addresses in the list of call targets of the call c.
TargetSet(c) == {c.targets[m] : m \in DOMAIN c.targets}

\* The call c will scan address a, or is doing so.
Awaits(c, a) ==
  IF c.decoding THEN c.address = a
  ELSE \E m \in DOMAIN c.targets : m >= c.next /\ c.targets[m] = a

\* A call that decodes has found what its procedure has up to pc, and nobody else has
\* found that procedure; after that there is a region, unless there is no ret.
CallOK(c) ==
  /\ c.buffer \in Buffers(c.address)
  /\ IF c.decoding
       THEN /\ c.next = 1 /\ ~ HasRegion(c.address)
            /\ ProcedureEnd(c.buffer)[c.pc] = ProcedureSize(c.buffer)
            /\ CalledFrom(c.buffer)[c.pc] \union TargetSet(c) = Callees(c.buffer)
       ELSE ProcedureSize(c.buffer) # 0 => HasRegion(c.address)

\* Only the innermost call is decoding, and an address is scanned inside of its own scan
\* only if the outer one found no ret.  (The invariants speak of c and a, not of the terms
\* that are equal to them, so that a lemma about every c and a applies to the next state.)
ScansOK ==
  /\ \A i \in DOMAIN scans, c \in Call : c = scans[i] => CallOK(c) /\ (c.decoding => i = Len(scans))
  /\ \A i, j \in DOMAIN scans, c \in Call :
       c = scans[i] /\ i < j /\ scans[j].address = c.address => ProcedureSize(c.buffer) = 0

RegionsOK ==
  /\ \A i \in DOMAIN regions, a \in Nat : a = regions[i].address =>
       \E b \in Buffers(a) : regions[i].size = ProcedureSize(b)
  /\ \A i, j \in DOMAIN regions : regions[i].address = regions[j].address => i = j

\* The procedures that can be read, have a ret, and are called by the one at r.
CalledReadably(r) ==
  {a \in Callees(Block(r)) \intersect readable : ProcedureSize(Block(a)) # 0}

\* What a procedure with a region calls has been found, or will be.
CalleesOK ==
  \A i \in DOMAIN regions, r \in readable : r = regions[i].address =>
    \A a \in CalledReadably(r) : HasRegion(a) \/ \E k \in DOMAIN scans : Awaits(scans[k], a)

ScanInv == ScanTypes /\ ScansOK /\ RegionsOK /\ CalleesOK

\* What a call read from memory that can be read.
LEMMA ReadIs ==
  ASSUME NEW c, CallOK(c), c.address \in readable PROVE c.buffer = Block(c.address)
<1> QED BY DEF CallOK, Buffers

LEMMA ReadsFixed ==
  ASSUME UNCHANGED <<code, readable>>, NEW a
  PROVE  /\ Block(a)' = Block(a) /\ Buffers(a)' = Buffers(a)
         /\ CalledReadably(a)' = CalledReadably(a)
<1>1. \A r : Block(r)' = Block(r)
  BY DEF Block
<1> QED BY <1>1 DEF Buffers, CalledReadably

LEMMA RegionsFixed ==
  ASSUME UNCHANGED regions, NEW a PROVE HasRegion(a)' <=> HasRegion(a)
<1> QED BY DEF HasRegion, Contains, GetOffset

LEMMA CallFixed ==
  ASSUME UNCHANGED <<code, readable, regions>>, NEW c PROVE CallOK(c)' <=> CallOK(c)
<1>1. Buffers(c.address)' = Buffers(c.address) /\ (HasRegion(c.address)' <=> HasRegion(c.address))
  BY ReadsFixed, RegionsFixed
<1> QED BY <1>1 DEF CallOK, TargetSet

LEMMA TopIs ==
  ASSUME ScanTypes, scans # <<>>
  PROVE  Len(scans) \in DOMAIN scans /\ Len(scans) \in Nat /\ TopScan = scans[Len(scans)] /\ TopScan \in Call
<1> QED BY DEF ScanTypes, TopScan

LEMMA CallIs == ASSUME ScanTypes, NEW i \in DOMAIN scans PROVE scans[i] \in Call
BY DEF ScanTypes

LEMMA SetTopIs ==
  ASSUME ScanTypes, scans # <<>>, NEW c \in Call, SetTop(c)
  PROVE  /\ scans' \in Seq(Call) /\ DOMAIN scans' = DOMAIN scans /\ Len(scans') = Len(scans)
         /\ scans'[Len(scans)] = c
         /\ \A i \in DOMAIN scans : i # Len(scans) => scans'[i] = scans[i]
<1> QED BY DEF ScanTypes, SetTop

\* The innermost call goes on, and no region is made.
LEMMA TopGoesOn ==
  ASSUME ScanInv, scans # <<>>, UNCHANGED <<code, readable, regions, overflow>>, NEW c \in Call, SetTop(c),
         c.address = TopScan.address, c.buffer = TopScan.buffer, CallOK(c),
         \A a \in readable : Awaits(TopScan, a) /\ ProcedureSize(Block(a)) # 0
                              => HasRegion(a) \/ Awaits(c, a)
  PROVE  ScanInv'
<1> DEFINE n == Len(scans)
<1>1. n \in DOMAIN scans /\ n \in Nat /\ TopScan = scans[n]
  BY TopIs DEF ScanInv
<1>2. /\ scans' \in Seq(Call) /\ DOMAIN scans' = DOMAIN scans /\ Len(scans') = n
      /\ scans'[n] = c
      /\ \A i \in DOMAIN scans : i # n => scans'[i] = scans[i]
  BY SetTopIs DEF ScanInv
<1> HIDE DEF n
<1>3. ScanTypes'
  BY <1>1, <1>2 DEF ScanInv, ScanTypes, CodeOK
<1>4. \A i \in DOMAIN scans : /\ scans'[i].address = scans[i].address
                               /\ scans'[i].buffer = scans[i].buffer
  BY <1>1, <1>2
<1>5. ScansOK'
  <2>1. ASSUME NEW i \in DOMAIN scans', NEW d \in Call, d = scans'[i]
        PROVE  CallOK(d)' /\ (d.decoding => i = Len(scans'))
    <3>1. CASE i = n
      BY <1>2, <2>1, <3>1, CallFixed
    <3>2. CASE i # n
      <4>1. i \in DOMAIN scans /\ d = scans[i]
        BY <1>2, <2>1, <3>2
      <4>2. CallOK(d) /\ (d.decoding => i = n)
        BY <4>1 DEF ScanInv, ScansOK, n
      <4> QED BY <1>2, <4>2, CallFixed
    <3> QED BY <3>1, <3>2
  <2>2. ASSUME NEW i \in DOMAIN scans', NEW j \in DOMAIN scans', NEW d \in Call, d = scans'[i],
               i < j, scans'[j].address = d.address
        PROVE  ProcedureSize(d.buffer) = 0
    <3>1. PICK e \in Call : e = scans[i]
      BY <1>2, CallIs DEF ScanInv
    <3>2. e.address = d.address /\ e.buffer = d.buffer /\ scans[j].address = d.address
      BY <1>2, <1>4, <2>2, <3>1
    <3> QED BY <1>2, <2>2, <3>1, <3>2 DEF ScanInv, ScansOK
  <2> QED BY <2>1, <2>2 DEF ScansOK
<1>6. RegionsOK'
  BY ReadsFixed DEF ScanInv, RegionsOK
<1>7. CalleesOK'
  <2> SUFFICES ASSUME NEW i \in DOMAIN regions, NEW r \in readable, r = regions[i].address,
                      NEW a \in CalledReadably(r), ~ HasRegion(a)
               PROVE  \E k \in DOMAIN scans' : Awaits(scans'[k], a)
    BY ReadsFixed, RegionsFixed DEF CalleesOK, Awaits
  <2>1. PICK k \in DOMAIN scans : Awaits(scans[k], a)
    BY DEF ScanInv, CalleesOK
  <2>2. CASE k = n
    BY <1>1, <1>2, <2>1, <2>2 DEF CalledReadably
  <2>3. CASE k # n
    BY <1>2, <2>1, <2>3
  <2> QED BY <2>2, <2>3
<1> QED BY <1>3, <1>5, <1>6, <1>7 DEF ScanInv

\* The innermost call, while it decodes.
LEMMA DecodingIs ==
  ASSUME ScanInv, Decoding
  PROVE  /\ TopScan \in Call /\ TopScan.decoding /\ CallOK(TopScan)
         /\ TopScan.buffer \in Buffer /\ TopScan.address \in Nat
         /\ TopScan.pc \in 0 .. BufferSize /\ TopScan.next = 1
         /\ Insn = Instruction(TopScan.buffer, TopScan.pc)
         /\ TopScan.pc < BufferSize => TopScan.pc # BufferSize /\ Insn \in Operation
         /\ TopScan.pc < BufferSize /\ Insn.op # "bad"
              => Insn.size > 0 /\ TopScan.pc + Insn.size \in 0 .. BufferSize
<1>1. /\ Len(scans) \in DOMAIN scans /\ TopScan = scans[Len(scans)] /\ TopScan \in Call
      /\ TopScan.decoding
  BY TopIs DEF ScanInv, Decoding
<1>2. CallOK(TopScan)
  BY <1>1 DEF ScanInv, ScansOK
<1>3. TopScan.buffer \in Buffer /\ TopScan.address \in Nat /\ TopScan.pc \in 0 .. BufferSize
  BY <1>1 DEF Call
<1>4. TopScan.pc < BufferSize => TopScan.pc # BufferSize
  BY <1>3, RegionsAssumption
<1> QED BY <1>1, <1>2, <1>3, <1>4, InstructionIs DEF CallOK, Insn

LEMMA OtherStep == ScanInv /\ DecodeOther => ScanInv'
<1> SUFFICES ASSUME ScanInv, DecodeOther PROVE ScanInv'
  OBVIOUS
<1> DEFINE top == TopScan
           c == [top EXCEPT !.pc = @ + Insn.size]
<1>1. Decoding /\ scans # <<>> /\ top.pc < BufferSize /\ Insn.op = "other" /\ SetTop(c)
      /\ UNCHANGED <<code, readable, regions, overflow>>
  BY DEF DecodeOther, Decoding
<1>2. /\ top \in Call /\ top.decoding /\ CallOK(top)
      /\ top.buffer \in Buffer /\ top.pc \in 0 .. BufferSize /\ top.next = 1
      /\ Insn = Instruction(top.buffer, top.pc) /\ Insn \in Operation
      /\ Insn.size > 0 /\ top.pc + Insn.size \in 0 .. BufferSize
  BY <1>1, DecodingIs
<1>3. /\ c \in Call /\ c.address = top.address /\ c.buffer = top.buffer /\ c.pc = top.pc + Insn.size
      /\ c.decoding = top.decoding /\ c.targets = top.targets /\ c.next = 1
  BY <1>2 DEF Call
<1> HIDE DEF c, top
<1>4. ProcedureEnd(c.buffer)[c.pc] = ProcedureEnd(top.buffer)[top.pc]
      /\ CalledFrom(c.buffer)[c.pc] = CalledFrom(top.buffer)[top.pc]
  <2>1. Insn.op \notin {"bad", "ret"} /\ Insn.op # "call"
    BY <1>1
  <2>2. ProcedureEnd(c.buffer)[c.pc] = ProcedureEnd(top.buffer)[top.pc]
    BY <1>1, <1>2, <1>3, <2>1, GoesOn
  <2>3. CalledFrom(top.buffer)[top.pc] = CalledFrom(c.buffer)[c.pc]
    BY <1>1, <1>2, <1>3, <2>1, GoesOn
  <2> QED BY <2>2, <2>3
<1>5. CallOK(c)
  BY <1>2, <1>3, <1>4 DEF CallOK, TargetSet
<1>6. \A a : Awaits(top, a) => Awaits(c, a)
  BY <1>2, <1>3 DEF Awaits
<1> QED BY <1>1, <1>3, <1>5, <1>6, TopGoesOn DEF top

LEMMA CallStep == ScanInv /\ DecodeCall => ScanInv'
<1> SUFFICES ASSUME ScanInv, DecodeCall PROVE ScanInv'
  OBVIOUS
<1> DEFINE top == TopScan
           listed == \E i \in DOMAIN top.targets : top.targets[i] = Insn.target
           targets == IF Insn.target = 0 \/ listed THEN top.targets ELSE Append(top.targets, Insn.target)
           c == [top EXCEPT !.pc = @ + Insn.size, !.targets = targets]
<1>1. Decoding /\ scans # <<>> /\ top.pc < BufferSize /\ Insn.op = "call" /\ SetTop(c)
      /\ UNCHANGED <<code, readable, regions, overflow>>
  BY DecodingIs DEF DecodeCall, Decoding, Call
<1>2. /\ top \in Call /\ top.decoding /\ CallOK(top)
      /\ top.buffer \in Buffer /\ top.pc \in 0 .. BufferSize /\ top.next = 1 /\ top.targets \in Seq(Nat)
      /\ Insn = Instruction(top.buffer, top.pc) /\ Insn \in Operation /\ Insn.target \in Nat
      /\ Insn.size > 0 /\ top.pc + Insn.size \in 0 .. BufferSize
  BY <1>1, DecodingIs DEF Operation, Call
<1>3. targets \in Seq(Nat)
  BY <1>2
<1>4. {targets[m] : m \in DOMAIN targets} = TargetSet(top) \union ({Insn.target} \ {0})
  <2>1. CASE Insn.target = 0 \/ listed
    BY <1>2, <2>1 DEF TargetSet
  <2>2. CASE ~ (Insn.target = 0 \/ listed)
    <3> DEFINE s == top.targets
    <3>1. targets = Append(s, Insn.target) /\ s \in Seq(Nat)
      BY <1>2, <2>2
    <3> HIDE DEF s, targets
    <3>2. DOMAIN targets = DOMAIN s \union {Len(s) + 1} /\ targets[Len(s) + 1] = Insn.target
          /\ \A m \in DOMAIN s : targets[m] = s[m]
      BY <3>1, <1>2
    <3>3. {targets[m] : m \in DOMAIN targets} = {s[m] : m \in DOMAIN s} \union {Insn.target}
      BY <3>2
    <3> QED BY <2>2, <3>3 DEF TargetSet, s
  <2> QED BY <2>1, <2>2
<1> HIDE DEF targets, top
<1>5. /\ c \in Call /\ c.address = top.address /\ c.buffer = top.buffer /\ c.pc = top.pc + Insn.size
      /\ c.decoding = top.decoding /\ c.targets = targets /\ c.next = 1
  BY <1>2, <1>3 DEF Call
<1> HIDE DEF c
<1>6. Insn.op \notin {"bad", "ret"}
  BY <1>1
<1>7. /\ ProcedureEnd(c.buffer)[c.pc] = ProcedureEnd(top.buffer)[top.pc]
      /\ CalledFrom(top.buffer)[top.pc] = CalledFrom(c.buffer)[c.pc] \union ({Insn.target} \ {0})
  BY <1>1, <1>2, <1>5, <1>6, GoesOn
<1>8. CalledFrom(c.buffer)[c.pc] \union TargetSet(c) = CalledFrom(top.buffer)[top.pc] \union TargetSet(top)
  BY <1>4, <1>5, <1>7 DEF TargetSet
<1>9. CallOK(c)
  BY <1>2, <1>5, <1>7, <1>8 DEF CallOK
<1>10. \A a : Awaits(top, a) => Awaits(c, a)
  BY <1>2, <1>5 DEF Awaits
<1> QED BY <1>1, <1>5, <1>9, <1>10, TopGoesOn DEF top

LEMMA StopStep == ScanInv /\ DecodeStops => ScanInv'
<1> SUFFICES ASSUME ScanInv, DecodeStops PROVE ScanInv'
  OBVIOUS
<1> DEFINE top == TopScan
           c == [top EXCEPT !.decoding = FALSE]
<1>1. Decoding /\ scans # <<>> /\ SetTop(c) /\ UNCHANGED <<code, readable, regions, overflow>>
      /\ (top.pc < BufferSize => Insn.op = "bad")
  BY DEF DecodeStops, Decoding
<1>2. /\ top \in Call /\ top.decoding /\ CallOK(top)
      /\ top.buffer \in Buffer /\ top.pc \in 0 .. BufferSize
      /\ Insn = Instruction(top.buffer, top.pc)
  BY <1>1, DecodingIs
<1>3. c \in Call /\ c.address = top.address /\ c.buffer = top.buffer /\ c.decoding = FALSE
  BY <1>2 DEF Call
<1> HIDE DEF c, top
<1>4. ProcedureEnd(top.buffer)[top.pc] = 0
  <2>1. top.pc = BufferSize \/ Insn.op = "bad"
    BY <1>1, <1>2, RegionsAssumption
  <2> QED BY <1>2, <2>1, EndUnfolds
<1>5. ProcedureSize(c.buffer) = 0
  BY <1>2, <1>3, <1>4 DEF CallOK
<1>6. CallOK(c)
  BY <1>2, <1>3, <1>5 DEF CallOK
<1>7. \A a \in readable : Awaits(top, a) => ProcedureSize(Block(a)) = 0
  BY <1>2, <1>3, <1>5, ReadIs DEF Awaits
<1> QED BY <1>1, <1>3, <1>6, <1>7, TopGoesOn DEF top

\* The innermost call, while it scans its call targets.
LEMMA ScanningIs ==
  ASSUME ScanInv, Scanning
  PROVE  /\ TopScan \in Call /\ ~ TopScan.decoding /\ CallOK(TopScan) /\ TopScan.address \in Nat
         /\ TopScan.next \in DOMAIN TopScan.targets /\ TopScan.next \in Nat \ {0}
         /\ Target = TopScan.targets[TopScan.next] /\ Target \in Nat
<1>1. /\ Len(scans) \in DOMAIN scans /\ TopScan = scans[Len(scans)] /\ TopScan \in Call
      /\ ~ TopScan.decoding /\ TopScan.next \in DOMAIN TopScan.targets
  BY TopIs DEF ScanInv, Scanning
<1>2. CallOK(TopScan)
  BY <1>1 DEF ScanInv, ScansOK
<1>3. TopScan.address \in Nat /\ TopScan.targets \in Seq(Nat) /\ TopScan.next \in Nat \ {0}
  BY <1>1 DEF Call
<1> QED BY <1>1, <1>2, <1>3 DEF Target

LEMMA SkipStep == ScanInv /\ SkipTarget => ScanInv'
<1> SUFFICES ASSUME ScanInv, SkipTarget PROVE ScanInv'
  OBVIOUS
<1> DEFINE top == TopScan
           c == [top EXCEPT !.next = @ + 1]
<1>1. Scanning /\ scans # <<>> /\ HasRegion(Target) /\ SetTop(c)
      /\ UNCHANGED <<code, readable, regions, overflow>>
  BY DEF SkipTarget, Scanning
<1>2. /\ top \in Call /\ ~ top.decoding /\ CallOK(top) /\ top.next \in Nat \ {0}
      /\ Target = top.targets[top.next] /\ top.targets \in Seq(Nat)
  BY <1>1, ScanningIs DEF Call
<1>3. /\ c \in Call /\ c.address = top.address /\ c.buffer = top.buffer /\ c.decoding = top.decoding
      /\ c.targets = top.targets /\ c.next = top.next + 1
  BY <1>2 DEF Call
<1> HIDE DEF c, top
<1>4. CallOK(c)
  BY <1>2, <1>3 DEF CallOK
<1>5. \A a : Awaits(top, a) => HasRegion(a) \/ Awaits(c, a)
  BY <1>1, <1>2, <1>3 DEF Awaits
<1> QED BY <1>1, <1>3, <1>4, <1>5, TopGoesOn DEF top

LEMMA RegionIs ==
  ASSUME ScanTypes, NEW i \in DOMAIN regions
  PROVE  regions[i].address \in Nat /\ regions[i].size \in Nat \ {0}
<1> DEFINE R == [address : Nat, size : Nat \ {0}]
<1>1. regions \in Seq(R)
  BY DEF ScanTypes
<1>2. \A r \in R : r.address \in Nat /\ r.size \in Nat \ {0}
  OBVIOUS
<1> HIDE DEF R
<1> QED BY <1>1, <1>2

\* A region contains its own address.
LEMMA RegionOfItsAddress ==
  ASSUME ScanTypes, NEW i \in DOMAIN regions PROVE HasRegion(regions[i].address)
<1>1. regions[i].address \in Nat /\ regions[i].size \in Nat
  BY RegionIs
<1> QED BY <1>1 DEF HasRegion, Contains, GetOffset

LEMMA RegionsGrow ==
  ASSUME ScanTypes, NEW r, regions' = Append(regions, r), NEW a
  PROVE  HasRegion(a)' <=> HasRegion(a) \/ Contains(r, a)
<1>1. /\ DOMAIN regions' = DOMAIN regions \union {Len(regions) + 1}
      /\ regions'[Len(regions) + 1] = r /\ Len(regions) \in Nat
      /\ \A i \in DOMAIN regions : regions'[i] = regions[i]
  BY DEF ScanTypes
<1> QED BY <1>1 DEF HasRegion, Contains, GetOffset

LEMMA RetStep == ScanInv /\ DecodeRet => ScanInv'
<1> SUFFICES ASSUME ScanInv, DecodeRet, NEW top, top = TopScan, NEW insn, insn = Insn PROVE ScanInv'
  OBVIOUS
<1> DEFINE n == Len(scans)
           k == Len(regions) + 1
           c == [top EXCEPT !.pc = @ + insn.size, !.decoding = FALSE]
           r == [address |-> top.address, size |-> top.pc + insn.size]
<1>1. Decoding /\ scans # <<>> /\ top.pc < BufferSize /\ insn.op = "ret" /\ SetTop(c)
      /\ regions' = Append(regions, r) /\ UNCHANGED <<code, readable, overflow>>
  BY DEF DecodeRet, Decoding
<1>2. /\ top \in Call /\ top.decoding /\ CallOK(top)
      /\ top.address \in Nat /\ top.buffer \in Buffer /\ top.pc \in 0 .. BufferSize /\ top.next = 1
      /\ insn = Instruction(top.buffer, top.pc) /\ top.pc # BufferSize
      /\ insn.size \in Nat \ {0} /\ top.pc + insn.size \in 0 .. BufferSize
  BY <1>1, DecodingIs DEF Operation
<1>3. /\ c \in Call /\ c.address = top.address /\ c.buffer = top.buffer /\ c.decoding = FALSE
      /\ c.targets = top.targets /\ c.next = 1
  BY <1>2 DEF Call
<1>4. r \in [address : Nat, size : Nat \ {0}] /\ r.address = top.address /\ r.size = top.pc + insn.size
  BY <1>2
<1>5. n \in DOMAIN scans /\ n \in Nat /\ top = scans[n]
  BY <1>1, TopIs DEF ScanInv
<1>6. /\ scans' \in Seq(Call) /\ DOMAIN scans' = DOMAIN scans /\ Len(scans') = n
      /\ scans'[n] = c
      /\ \A i \in DOMAIN scans : i # n => scans'[i] = scans[i]
  BY <1>1, <1>3, SetTopIs DEF ScanInv
<1>7. /\ regions' \in Seq([address : Nat, size : Nat \ {0}])
      /\ DOMAIN regions' = DOMAIN regions \union {k} /\ regions'[k] = r /\ k \notin DOMAIN regions
      /\ \A i \in DOMAIN regions : regions'[i] = regions[i]
  <2> HIDE DEF r
  <2> QED BY <1>1, <1>4 DEF ScanInv, ScanTypes
<1>8. ScanTypes'
  BY <1>1, <1>6, <1>7 DEF ScanInv, ScanTypes, CodeOK
<1> HIDE DEF c, r, n, k
<1>9. r.size = ProcedureSize(top.buffer) /\ Callees(top.buffer) = TargetSet(top)
  <2>1. ProcedureEnd(top.buffer)[top.pc] = r.size
    BY <1>1, <1>2, <1>4, EndUnfolds
  <2>2. CalledFrom(top.buffer)[top.pc] = {}
    <3>1. insn.op \in {"bad", "ret"}
      BY <1>1
    <3>2. top.pc \in 0 .. BufferSize /\ top.buffer \in Buffer /\ insn = Instruction(top.buffer, top.pc)
      BY <1>2
    <3> QED BY <3>1, <3>2, CalledUnfolds
  <2> QED BY <1>2, <2>1, <2>2 DEF CallOK
<1>10. \A a : HasRegion(a) => HasRegion(a)'
  BY <1>1, RegionsGrow DEF ScanInv
<1>11. HasRegion(top.address)'
  <2>1. Contains(r, top.address)
    BY <1>2, <1>4 DEF Contains, GetOffset
  <2> QED BY <1>1, <2>1, RegionsGrow DEF ScanInv
<1>12. ScansOK'
  <2>1. ASSUME NEW i \in DOMAIN scans', NEW d \in Call, d = scans'[i]
        PROVE  CallOK(d)' /\ (d.decoding => i = Len(scans'))
    <3>1. CASE i = n
      <4>1. d = c /\ i = Len(scans') /\ d.buffer \in Buffers(d.address)
        BY <1>2, <1>3, <1>6, <2>1, <3>1 DEF CallOK
      <4> QED BY <1>1, <1>3, <1>11, <4>1, ReadsFixed DEF CallOK
    <3>2. CASE i # n
      <4>1. CallOK(d) /\ ~ d.decoding
        BY <1>6, <2>1, <3>2 DEF ScanInv, ScansOK, n
      <4> QED BY <1>1, <1>10, <4>1, ReadsFixed DEF CallOK
    <3> QED BY <3>1, <3>2
  <2>2. \A i \in DOMAIN scans : /\ scans'[i].address = scans[i].address
                                 /\ scans'[i].buffer = scans[i].buffer
    BY <1>3, <1>5, <1>6
  <2>3. ASSUME NEW i \in DOMAIN scans', NEW j \in DOMAIN scans', NEW d \in Call, d = scans'[i],
               i < j, scans'[j].address = d.address
        PROVE  ProcedureSize(d.buffer) = 0
    <3>1. PICK e \in Call : e = scans[i]
      BY <1>6, CallIs DEF ScanInv
    <3>2. e.address = d.address /\ e.buffer = d.buffer /\ scans[j].address = d.address
      BY <1>6, <2>2, <2>3, <3>1
    <3> QED BY <1>6, <2>3, <3>1, <3>2 DEF ScanInv, ScansOK
  <2> QED BY <2>1, <2>3 DEF ScansOK
<1>13. RegionsOK'
  <2>1. ASSUME NEW i \in DOMAIN regions', NEW a \in Nat, a = regions'[i].address
        PROVE  \E b \in Buffers(a)' : regions'[i].size = ProcedureSize(b)
    <3>1. CASE i = k
      <4>1. top.buffer \in Buffers(a) /\ regions'[i].size = ProcedureSize(top.buffer)
        <5>1. a = top.address /\ regions'[i].size = r.size
          BY <1>4, <1>7, <2>1, <3>1
        <5> QED BY <1>2, <1>9, <5>1 DEF CallOK
      <4>2. Buffers(a)' = Buffers(a)
        BY <1>1, ReadsFixed
      <4> QED BY <4>1, <4>2
    <3>2. CASE i # k
      <4>1. i \in DOMAIN regions /\ regions'[i] = regions[i] /\ Buffers(a)' = Buffers(a)
        BY <1>1, <1>7, <3>2, ReadsFixed
      <4>2. \E b \in Buffers(a) : regions[i].size = ProcedureSize(b)
        BY <2>1, <4>1 DEF ScanInv, RegionsOK
      <4> QED BY <4>1, <4>2
    <3> QED BY <3>1, <3>2
  <2>2. \A i \in DOMAIN regions : regions[i].address # top.address
    BY <1>2, RegionOfItsAddress DEF ScanInv, CallOK
  <2>3. ASSUME NEW i \in DOMAIN regions', NEW j \in DOMAIN regions',
               regions'[i].address = regions'[j].address
        PROVE  i = j
    BY <1>4, <1>7, <2>2, <2>3 DEF ScanInv, RegionsOK
  <2> QED BY <2>1, <2>3 DEF RegionsOK
<1>14. CalleesOK'
  <2> SUFFICES ASSUME NEW i \in DOMAIN regions', NEW a0 \in readable, a0 = regions'[i].address,
                      NEW a \in CalledReadably(a0), ~ HasRegion(a)'
               PROVE  \E j \in DOMAIN scans' : Awaits(scans'[j], a)
    BY <1>1, ReadsFixed DEF CalleesOK, Awaits
  <2>1. CASE i = k
    <3>1. a \in TargetSet(top)
      BY <1>2, <1>4, <1>7, <1>9, <2>1, ReadIs DEF CalledReadably
    <3>2. PICK m \in DOMAIN top.targets : top.targets[m] = a
      BY <3>1 DEF TargetSet
    <3>3. m >= 1
      BY <1>2 DEF Call
    <3>4. Awaits(c, a)
      BY <1>3, <3>2, <3>3 DEF Awaits
    <3> QED BY <1>5, <1>6, <3>4
  <2>2. CASE i # k
    <3>1. i \in DOMAIN regions /\ a0 = regions[i].address /\ ~ HasRegion(a)
      BY <1>7, <1>10, <2>2
    <3>2. PICK j \in DOMAIN scans : Awaits(scans[j], a)
      BY <3>1 DEF ScanInv, CalleesOK
    <3>3. j # n
      BY <1>2, <1>5, <1>11, <3>2 DEF Awaits
    <3> QED BY <1>6, <3>2, <3>3
  <2> QED BY <2>1, <2>2
<1> QED BY <1>8, <1>12, <1>13, <1>14 DEF ScanInv

LEMMA NewCallIs ==
  ASSUME NEW a \in Nat, NEW b \in Buffer
  PROVE  /\ NewCall(a, b) \in Call /\ NewCall(a, b).decoding = TRUE
         /\ NewCall(a, b).address = a /\ NewCall(a, b).buffer = b
         /\ ~ HasRegion(a) /\ b \in Buffers(a) => CallOK(NewCall(a, b))
         /\ \A e : Awaits(NewCall(a, b), e) <=> a = e
<1> DEFINE d == NewCall(a, b)
<1>1. 0 \in 0 .. BufferSize
  BY RegionsAssumption
<1>2. d \in Call /\ d.address = a /\ d.buffer = b /\ d.decoding = TRUE
      /\ d.pc = 0 /\ d.next = 1 /\ d.targets = <<>>
  BY <1>1 DEF NewCall, Call
<1> HIDE DEF d
<1>3. TargetSet(d) = {}
  BY <1>2 DEF TargetSet
<1>4. ~ HasRegion(a) /\ b \in Buffers(a) => CallOK(d)
  BY <1>2, <1>3 DEF CallOK, ProcedureSize, Callees
<1>5. \A e : Awaits(d, e) <=> a = e
  BY <1>2 DEF Awaits
<1> QED BY <1>2, <1>4, <1>5 DEF d

LEMMA TargetStep == ScanInv /\ ScanTarget => ScanInv'
<1> SUFFICES ASSUME ScanInv, ScanTarget PROVE ScanInv'
  OBVIOUS
<1> DEFINE top == TopScan
           n == Len(scans)
           c == [top EXCEPT !.next = @ + 1]
<1>1. Scanning /\ scans # <<>> /\ ~ HasRegion(Target) /\ UNCHANGED <<code, readable, regions>>
  BY DEF ScanTarget, Scanning
<1>2. /\ top \in Call /\ ~ top.decoding /\ CallOK(top) /\ top.next \in Nat \ {0}
      /\ Target = top.targets[top.next] /\ Target \in Nat /\ top.targets \in Seq(Nat)
  BY <1>1, ScanningIs DEF Call
<1>3. n \in DOMAIN scans /\ n \in Nat /\ top = scans[n]
  BY <1>1, TopIs DEF ScanInv
<1>4. CASE n = MaxCalls
  <2>1. overflow' = TRUE /\ UNCHANGED <<code, readable, regions, scans>>
    BY <1>1, <1>4 DEF ScanTarget
  <2>2. ScanTypes'
    BY <2>1 DEF ScanInv, ScanTypes, CodeOK
  <2>3. ScansOK'
    BY <2>1, CallFixed, ReadsFixed DEF ScanInv, ScansOK
  <2>4. RegionsOK'
    BY <2>1, ReadsFixed DEF ScanInv, RegionsOK
  <2>5. CalleesOK'
    BY <2>1, ReadsFixed, RegionsFixed DEF ScanInv, CalleesOK, Awaits
  <2> QED BY <2>2, <2>3, <2>4, <2>5 DEF ScanInv
<1>5. CASE n # MaxCalls
  <2>0. UNCHANGED <<code, readable, regions, overflow>>
    BY <1>1, <1>5 DEF ScanTarget
  <2>1. PICK b \in Buffers(Target) : scans' = Append([scans EXCEPT ![n].next = @ + 1], NewCall(Target, b))
    BY <1>5 DEF ScanTarget
  <2>2. /\ c \in Call /\ c.address = top.address /\ c.buffer = top.buffer
        /\ c.decoding = top.decoding /\ c.targets = top.targets /\ c.next = top.next + 1
    <3>1. top \in Call /\ top.next + 1 \in Nat \ {0}
      BY <1>2
    <3> HIDE DEF top
    <3> QED BY <3>1 DEF Call
  <2> DEFINE d == NewCall(Target, b)
  <2>3. /\ d \in Call /\ d.address = Target /\ d.decoding /\ CallOK(d)
        /\ \A e : Awaits(d, e) <=> Target = e
    <3>1. b \in Buffer
      BY BuffersAre DEF ScanInv, ScanTypes
    <3>2. Target \in Nat /\ ~ HasRegion(Target)
      BY <1>1, <1>2
    <3> QED BY <3>1, <3>2, NewCallIs
  <2>4. [scans EXCEPT ![n].next = @ + 1] = [scans EXCEPT ![n] = c]
    BY <1>3 DEF ScanInv, ScanTypes
  <2> HIDE DEF c, d, top, n
  <2>5. /\ scans' \in Seq(Call) /\ DOMAIN scans' = DOMAIN scans \union {n + 1} /\ Len(scans') = n + 1
        /\ n + 1 \notin DOMAIN scans /\ scans'[n] = c /\ scans'[n + 1] = d
        /\ \A i \in DOMAIN scans : i # n => scans'[i] = scans[i]
    <3> DEFINE s == [scans EXCEPT ![n] = c]
    <3>1. s \in Seq(Call) /\ Len(s) = n /\ DOMAIN s = DOMAIN scans /\ s[n] = c
          /\ \A i \in DOMAIN scans : i # n => s[i] = scans[i]
      BY <1>3, <2>2 DEF ScanInv, ScanTypes, n
    <3>2. scans' = Append(s, d)
      BY <2>1, <2>4 DEF d
    <3>3. DOMAIN scans = 1 .. n
      BY DEF ScanInv, ScanTypes, n
    <3> HIDE DEF s
    <3> QED BY <1>3, <2>3, <3>1, <3>2, <3>3
  <2>6. ScanTypes'
    BY <1>1, <2>0, <2>5 DEF ScanInv, ScanTypes, CodeOK
  <2>7. \A i \in DOMAIN scans : /\ scans'[i].address = scans[i].address
                                 /\ scans'[i].buffer = scans[i].buffer
    BY <1>3, <2>2, <2>5
  <2>8. \A i \in DOMAIN scans, e \in Call : e = scans[i] => CallOK(e) /\ ~ e.decoding
    BY <1>2, <1>3 DEF ScanInv, ScansOK, n
  <2>9. ScansOK'
    <3>1. ASSUME NEW i \in DOMAIN scans', NEW e \in Call, e = scans'[i]
          PROVE  CallOK(e)' /\ (e.decoding => i = Len(scans'))
      <4>1. CASE i = n + 1
        BY <1>1, <2>3, <2>5, <3>1, <4>1, CallFixed
      <4>2. CASE i = n
        <5>1. CallOK(c)
          BY <1>2, <2>2 DEF CallOK
        <5> QED BY <1>1, <1>2, <2>2, <2>5, <3>1, <4>2, <5>1, CallFixed
      <4>3. CASE i \in DOMAIN scans /\ i # n
        BY <1>1, <2>5, <2>8, <3>1, <4>3, CallFixed
      <4> QED BY <2>5, <4>1, <4>2, <4>3
    <3>2. ASSUME NEW e \in Call, NEW i \in DOMAIN scans, e = scans[i], e.address = Target
          PROVE  ProcedureSize(e.buffer) = 0
      BY <1>1, <2>8, <3>2 DEF CallOK
    <3>3. ASSUME NEW i \in DOMAIN scans', NEW j \in DOMAIN scans', NEW f \in Call, f = scans'[i],
                 i < j, scans'[j].address = f.address
          PROVE  ProcedureSize(f.buffer) = 0
      <4>1. DOMAIN scans = 1 .. n
        BY DEF ScanInv, ScanTypes, n
      <4>2. i \in DOMAIN scans
        BY <1>3, <2>5, <3>3, <4>1
      <4>3. PICK e \in Call : e = scans[i] /\ e.address = f.address /\ e.buffer = f.buffer
        BY <2>7, <3>3, <4>2 DEF ScanInv, ScanTypes
      <4>4. CASE j = n + 1
        BY <2>3, <2>5, <3>2, <3>3, <4>2, <4>3, <4>4
      <4>5. CASE j # n + 1
        BY <2>5, <2>7, <3>3, <4>2, <4>3, <4>5 DEF ScanInv, ScansOK
      <4> QED BY <4>4, <4>5
    <3> QED BY <3>1, <3>3 DEF ScansOK
  <2>10. RegionsOK'
    BY <1>1, ReadsFixed DEF ScanInv, RegionsOK
  <2>11. CalleesOK'
    <3> SUFFICES ASSUME NEW i \in DOMAIN regions, NEW r \in readable, r = regions[i].address,
                        NEW a \in CalledReadably(r), ~ HasRegion(a)
                 PROVE  \E k \in DOMAIN scans' : Awaits(scans'[k], a)
      BY <1>1, ReadsFixed, RegionsFixed DEF CalleesOK, Awaits
    <3>1. PICK k \in DOMAIN scans : Awaits(scans[k], a)
      BY DEF ScanInv, CalleesOK
    <3>2. CASE k # n
      BY <2>5, <3>1, <3>2
    <3>3. CASE k = n
      <4>1. PICK m \in DOMAIN top.targets : m >= top.next /\ top.targets[m] = a
        BY <1>2, <1>3, <3>1, <3>3 DEF Awaits
      <4>2. CASE m = top.next
        BY <1>2, <2>3, <2>5, <4>1, <4>2
      <4>3. CASE m # top.next
        <5>1. m >= c.next
          BY <1>2, <2>2, <4>1, <4>3
        <5>2. Awaits(c, a)
          BY <1>2, <2>2, <4>1, <5>1 DEF Awaits
        <5> QED BY <1>3, <2>5, <5>2
      <4> QED BY <4>2, <4>3
    <3> QED BY <3>2, <3>3
  <2> QED BY <2>6, <2>9, <2>10, <2>11 DEF ScanInv
<1> QED BY <1>4, <1>5

LEMMA ReturnStep == ScanInv /\ ScanReturns => ScanInv'
<1> SUFFICES ASSUME ScanInv, ScanReturns PROVE ScanInv'
  OBVIOUS
<1> DEFINE n == Len(scans)
<1>1. scans # <<>> /\ ~ TopScan.decoding /\ TopScan.next \notin DOMAIN TopScan.targets
      /\ scans' = SubSeq(scans, 1, n - 1) /\ UNCHANGED <<code, readable, regions, overflow>>
  BY DEF ScanReturns, Scanning
<1>2. n \in DOMAIN scans /\ n \in Nat /\ TopScan = scans[n] /\ TopScan \in Call
  BY <1>1, TopIs DEF ScanInv
<1>3. DOMAIN scans = 1 .. n
  BY DEF ScanInv, ScanTypes
<1>4. /\ scans' \in Seq(Call) /\ DOMAIN scans' = DOMAIN scans \ {n}
      /\ \A i \in DOMAIN scans' : scans'[i] = scans[i]
  <2>1. n >= 1 /\ n - 1 \in Nat
    BY <1>2, <1>3
  <2>2. \A i \in 1 .. n - 1 : scans[i] \in Call
    BY <1>3 DEF ScanInv, ScanTypes
  <2>3. scans' \in Seq(Call) /\ Len(scans') = n - 1
        /\ \A i \in 1 .. n - 1 : scans'[i] = scans[i]
    <3> HIDE DEF n
    <3> QED BY <1>1, <1>2, <2>1, <2>2 DEF ScanInv, ScanTypes
  <2>4. DOMAIN scans' = 1 .. n - 1
    BY <2>3
  <2> HIDE DEF n
  <2> QED BY <1>2, <1>3, <2>1, <2>3, <2>4
<1>0. UNCHANGED <<code, readable, regions, overflow>>
  BY <1>1
<1> HIDE DEF n
<1>5. ScanTypes'
  BY <1>1, <1>4 DEF ScanInv, ScanTypes, CodeOK
<1>6. ScansOK'
  <2>1. ASSUME NEW i \in DOMAIN scans', NEW d \in Call, d = scans'[i]
        PROVE  CallOK(d)' /\ ~ d.decoding
    <3>1. CallOK(d) /\ ~ d.decoding
      BY <1>4, <2>1 DEF ScanInv, ScansOK, n
    <3> QED BY <1>1, <3>1, CallFixed
  <2>2. ASSUME NEW i \in DOMAIN scans', NEW j \in DOMAIN scans', NEW d \in Call, d = scans'[i],
               i < j, scans'[j].address = d.address
        PROVE  ProcedureSize(d.buffer) = 0
    BY <1>4, <2>2 DEF ScanInv, ScansOK
  <2> QED BY <2>1, <2>2 DEF ScansOK
<1>7. RegionsOK'
  BY <1>1, ReadsFixed DEF ScanInv, RegionsOK
<1>8. \A a : ~ Awaits(scans[n], a)
  BY <1>1, <1>2 DEF Awaits, Call
<1>9. CalleesOK'
  <2> SUFFICES ASSUME NEW i \in DOMAIN regions, NEW r \in readable, r = regions[i].address,
                      NEW a \in CalledReadably(r), ~ HasRegion(a)
               PROVE  \E k \in DOMAIN scans' : Awaits(scans'[k], a)
    BY <1>0, ReadsFixed, RegionsFixed DEF CalleesOK, Awaits
  <2>1. PICK k \in DOMAIN scans : Awaits(scans[k], a)
    BY DEF ScanInv, CalleesOK
  <2> QED BY <1>4, <1>8, <2>1
<1> QED BY <1>5, <1>6, <1>7, <1>9 DEF ScanInv

LEMMA FirstStep == ScanInv /\ Scan => ScanInv'
<1> SUFFICES ASSUME ScanInv, Scan, NEW a \in DOMAIN code', NEW b \in Buffers(a)',
                    scans' = <<NewCall(a, b)>>
             PROVE  ScanInv'
  BY DEF Scan
<1>1. /\ code = <<>> /\ code' \in Codes /\ UNCHANGED <<regions, overflow>> /\ regions' = <<>>
      /\ a \in Nat /\ CodeOK'
  BY RegionsAssumption DEF Scan, ScanInv, ScanTypes, CodeOK
<1> DEFINE d == NewCall(a, b)
<1>2. b \in Buffer
  <2>1. (Buffers(a) \subseteq Buffer)'
    BY <1>1, BuffersAre, PTL
  <2> QED BY <2>1 DEF Buffer
<1>3. /\ d \in Call /\ d.address = a /\ d.buffer = b /\ d.decoding = TRUE
      /\ d.pc = 0 /\ d.next = 1 /\ d.targets = <<>>
  BY <1>1, <1>2, NewCallIs DEF NewCall
<1> HIDE DEF d
<1>4. scans' \in Seq(Call) /\ DOMAIN scans' = {1} /\ Len(scans') = 1 /\ scans'[1] = d
  <2>1. scans' = <<d>>
    BY DEF d
  <2> QED BY <1>3, <2>1
<1>5. ScanTypes'
  BY <1>1, <1>4 DEF ScanInv, ScanTypes
<1>6. CallOK(d)'
  <2>1. ~ HasRegion(a)'
    BY <1>1 DEF HasRegion
  <2>2. TargetSet(d) = {}
    BY <1>3 DEF TargetSet
  <2> QED BY <1>3, <2>1, <2>2 DEF CallOK, ProcedureSize, Callees
<1>7. ScansOK'
  BY <1>4, <1>6 DEF ScansOK
<1>8. RegionsOK' /\ CalleesOK'
  BY <1>1 DEF RegionsOK, CalleesOK
<1> QED BY <1>5, <1>7, <1>8 DEF ScanInv

LEMMA RegionsInitOK == RegionsInit => ScanInv
<1> SUFFICES ASSUME RegionsInit PROVE ScanInv
  OBVIOUS
<1>1. ScanTypes
  <2>1. CodeOK
    BY DEF RegionsInit, CodeOK
  <2>2. \A S : <<>> \in Seq(S)
    OBVIOUS
  <2> QED BY <2>1, <2>2 DEF RegionsInit, ScanTypes
<1>2. ScansOK /\ RegionsOK /\ CalleesOK
  BY DEF RegionsInit, ScansOK, RegionsOK, CalleesOK
<1> QED BY <1>1, <1>2 DEF ScanInv

LEMMA RegionsStep == ScanInv /\ [RegionsNext]_regionsVars => ScanInv'
<1> SUFFICES ASSUME ScanInv, [RegionsNext]_regionsVars PROVE ScanInv'
  OBVIOUS
<1>1. CASE Scan
  BY <1>1, FirstStep
<1>2. CASE DecodeOther
  BY <1>2, OtherStep
<1>3. CASE DecodeCall
  BY <1>3, CallStep
<1>4. CASE DecodeRet
  BY <1>4, RetStep
<1>5. CASE DecodeStops
  BY <1>5, StopStep
<1>6. CASE SkipTarget
  BY <1>6, SkipStep
<1>7. CASE ScanTarget
  BY <1>7, TargetStep
<1>8. CASE ScanReturns
  BY <1>8, ReturnStep
<1>9. CASE UNCHANGED regionsVars
  <2>1. UNCHANGED <<code, readable, regions, scans, overflow>>
    BY <1>9 DEF regionsVars
  <2>2. ScanTypes'
    BY <2>1 DEF ScanInv, ScanTypes, CodeOK
  <2>3. ScansOK'
    BY <2>1, CallFixed, ReadsFixed DEF ScanInv, ScansOK
  <2>4. RegionsOK' /\ CalleesOK'
    BY <2>1, ReadsFixed, RegionsFixed DEF ScanInv, RegionsOK, CalleesOK, Awaits
  <2> QED BY <2>2, <2>3, <2>4 DEF ScanInv
<1> QED BY <1>1, <1>2, <1>3, <1>4, <1>5, <1>6, <1>7, <1>8, <1>9 DEF RegionsNext, ScanNext

-----------------------------------------------------------------------------
(* The regions are the procedures.                                         *)

LEMMA RegionsInv == RegionsSpec => []ScanInv
<1> QED BY RegionsInitOK, RegionsStep, PTL DEF RegionsSpec

\* scanProcedure() decodes inside of its buffer, and no region is empty.
THEOREM RegionsTypes == RegionsSpec => []RegionsTypeOK
<1>1. ScanInv => RegionsTypeOK
  <2> SUFFICES ASSUME ScanInv PROVE RegionsTypeOK
    OBVIOUS
  <2>1. regions \in Seq([address : Nat, size : Nat \ {0}]) /\ scans \in Seq(Call) /\ overflow \in BOOLEAN
    BY DEF ScanInv, ScanTypes
  <2>2. \A i \in DOMAIN regions : regions[i].address \in Nat /\ regions[i].size \in Nat \ {0}
    BY RegionIs DEF ScanInv
  <2>3. \A i \in DOMAIN scans : scans[i].pc \in 0 .. BufferSize
    <3>1. \A c \in Call : c.pc \in 0 .. BufferSize
      BY DEF Call
    <3> QED BY <2>1, <3>1
  <2> QED BY <2>1, <2>2, <2>3 DEF RegionsTypeOK
<1> QED BY <1>1, RegionsInv, PTL

\* scanProcedure() and its recursion: in any program, however much of it can be read, an
\* address gets at most one region, and where the code could be read the region ends with
\* the procedure's first ret.  Where it could not, the region is that of one of the possible
\* contents of the buffer: nothing ties it to the program.
THEOREM RegionsAreProcedures == RegionsSpec => []RegionIsProcedure
<1>1. ScanInv => RegionIsProcedure
  <2> SUFFICES ASSUME ScanInv, NEW i \in DOMAIN regions
               PROVE  /\ \E b \in Buffers(regions[i].address) : regions[i].size = ProcedureSize(b)
                      /\ \A j \in DOMAIN regions : regions[i].address = regions[j].address => i = j
    BY DEF RegionIsProcedure
  <2>1. regions[i].address \in Nat
    BY RegionIs DEF ScanInv
  <2> QED BY <2>1 DEF ScanInv, RegionsOK
<1> QED BY <1>1, RegionsInv, PTL

\* The loop over the call targets and the test with getRegion() that ends the recursion:
\* when the first call returns, every procedure with a ret that the code of a region calls
\* directly lies in a region, or begins where one ends, if both could be read.
THEOREM CalleesAreFound == RegionsSpec => []TargetsFound
<1>1. ScanInv => TargetsFound
  <2> SUFFICES ASSUME ScanInv, scans = <<>>, NEW i \in DOMAIN regions, regions[i].address \in readable,
                      NEW a \in Callees(Block(regions[i].address)) \intersect readable,
                      ProcedureSize(Block(a)) # 0
               PROVE  \E j \in DOMAIN regions :
                        a \in regions[j].address .. regions[j].address + regions[j].size
    BY DEF TargetsFound
  <2>1. HasRegion(a)
    BY DEF ScanInv, CalleesOK, CalledReadably
  <2>2. PICK j \in DOMAIN regions : Contains(regions[j], a)
    BY <2>1 DEF HasRegion
  <2>3. regions[j].address \in Nat /\ regions[j].size \in Nat
    BY RegionIs DEF ScanInv
  <2>4. a \in Nat
    <3>1. Block(regions[i].address) \in Buffer /\ 0 \in 0 .. BufferSize
      BY BuffersAre, RegionsAssumption DEF ScanInv, ScanTypes
    <3> QED BY <3>1, CalledAreNaturals DEF Callees
  <2>5. a - regions[j].address <= regions[j].size /\ a - regions[j].address >= 0
    BY <2>2, <2>3, <2>4 DEF Contains, GetOffset
  <2> QED BY <2>3, <2>4, <2>5
<1> QED BY <1>1, RegionsInv, PTL

\* The recursion of scanProcedure(), however small the C stack is: a procedure is scanned
\* inside of its own scan only if the outer one found no ret.
THEOREM RescansAreEndless == RegionsSpec => []RescanNeedsEndless
<1>1. ScanInv => RescanNeedsEndless
  <2> SUFFICES ASSUME ScanInv, NEW i \in DOMAIN scans, NEW j \in DOMAIN scans,
                      i < j, scans[i].address = scans[j].address
               PROVE  ProcedureSize(scans[i].buffer) = 0
    BY DEF RescanNeedsEndless
  <2>1. PICK c \in Call : c = scans[i]
    BY DEF ScanInv, ScanTypes
  <2> QED BY <2>1 DEF ScanInv, ScansOK
<1> QED BY <1>1, RegionsInv, PTL

-----------------------------------------------------------------------------
(* The end of the scan.                                                    *)

\* A call is not past the end of its list, and the calls fit on the stack.
BoundOK ==
  /\ Len(scans) <= MaxCalls
  /\ \A i \in DOMAIN scans, c \in Call : c = scans[i] => c.next <= Len(c.targets) + 1

LEMMA Doubles ==
  ASSUME NEW b \in Nat, NEW p \in 0 .. b, NEW size \in Nat
  PROVE  /\ 2 * (b - p) \in Nat
         /\ size > 0 /\ p + size \in 0 .. b
              => 2 * (b - (p + size)) \in Nat /\ 2 * (b - (p + size)) + 2 <= 2 * (b - p)
<1>1. b - p \in Nat
  OBVIOUS
<1>2. ASSUME size > 0, p + size \in 0 .. b
      PROVE  2 * (b - (p + size)) \in Nat /\ 2 * (b - (p + size)) + 2 <= 2 * (b - p)
  <2>1. b - (p + size) \in Nat /\ b - (p + size) + 1 <= b - p
    BY <1>2
  <2> QED BY <1>1, <2>1
<1> QED BY <1>1, <1>2

\* A call has always something to do, if only to return.
LEMMA LeftIsPositive ==
  ASSUME NEW c \in Call, c.next <= Len(c.targets) + 1 PROVE WorkLeft(c) \in Nat \ {0}
<1>1. c.pc \in 0 .. BufferSize /\ c.next \in Nat /\ Len(c.targets) \in Nat /\ BufferSize \in Nat
  BY RegionsAssumption DEF Call
<1>2. 2 * (BufferSize - c.pc) \in Nat
  BY <1>1, Doubles
<1> HIDE DEF Call
<1>3. CASE c.decoding
  <2>1. PICK x \in Nat : x = 2 * (BufferSize - c.pc)
    BY <1>2
  <2>2. WorkLeft(c) = x + Len(c.targets) + 3
    BY <1>3, <2>1 DEF WorkLeft
  <2> QED BY <1>1, <2>2
<1>4. CASE ~ c.decoding
  BY <1>1, <1>4 DEF WorkLeft
<1> QED BY <1>3, <1>4

\* The innermost call, between two steps.
LEMMA TopHasWork ==
  ASSUME ScanInv, BoundOK, scans # <<>>
  PROVE  /\ Len(scans) \in 1 .. MaxCalls /\ Len(scans) \in DOMAIN scans
         /\ DOMAIN scans = 1 .. Len(scans)
         /\ TopScan = scans[Len(scans)] /\ TopScan \in Call
         /\ TopScan.next <= Len(TopScan.targets) + 1 /\ WorkLeft(TopScan) \in Nat \ {0}
<1>1. /\ Len(scans) \in DOMAIN scans /\ Len(scans) \in Nat
      /\ TopScan = scans[Len(scans)] /\ TopScan \in Call
  BY TopIs DEF ScanInv
<1>2. DOMAIN scans = 1 .. Len(scans) /\ Len(scans) \in 1 .. MaxCalls
  BY <1>1, RegionsAssumption DEF ScanInv, ScanTypes, BoundOK
<1>3. TopScan.next <= Len(TopScan.targets) + 1
  BY <1>1 DEF BoundOK
<1> QED BY <1>1, <1>2, <1>3, LeftIsPositive

\* The innermost call moves on as the call c.
Moves(c) ==
  /\ c \in Call /\ c.next <= Len(c.targets) + 1
  /\ WorkLeft(c) < WorkLeft(TopScan)

LEMMA DecodeMoves ==
  ASSUME ScanInv, BoundOK, DecodeOther \/ DecodeCall \/ DecodeRet \/ DecodeStops
  PROVE  /\ Decoding /\ overflow' = overflow
         /\ \E c \in Call : SetTop(c) /\ Moves(c)
<1> DEFINE top == TopScan
<1>1. Decoding /\ overflow' = overflow
  BY DEF DecodeOther, DecodeCall, DecodeRet, DecodeStops
<1>2. /\ top \in Call /\ top.decoding /\ top.pc \in 0 .. BufferSize /\ top.next = 1
      /\ top.pc < BufferSize /\ Insn.op # "bad"
           => Insn.size > 0 /\ top.pc + Insn.size \in 0 .. BufferSize
      /\ top.pc < BufferSize => Insn.size \in Nat /\ Insn.target \in Nat
  BY <1>1, DecodingIs DEF Operation
<1>3. top.targets \in Seq(Nat) /\ Len(top.targets) \in Nat /\ BufferSize \in Nat /\ top.pc \in Nat
  BY <1>2, RegionsAssumption DEF Call
<1> HIDE DEF top
<1>4. CASE DecodeOther
  <2> DEFINE c == [top EXCEPT !.pc = @ + Insn.size]
  <2>1. SetTop(c) /\ top.pc < BufferSize /\ Insn.op = "other"
    BY <1>4 DEF DecodeOther, top
  <2>2. /\ c \in Call /\ c.pc = top.pc + Insn.size /\ c.decoding = top.decoding
        /\ c.targets = top.targets /\ c.next = 1
    BY <1>2, <2>1 DEF Call
  <2> HIDE DEF c
  <2>3. /\ WorkLeft(c) = 2 * (BufferSize - (top.pc + Insn.size)) + Len(top.targets) + 3
        /\ WorkLeft(top) = 2 * (BufferSize - top.pc) + Len(top.targets) + 3
    BY <1>2, <2>2 DEF WorkLeft
  <2>4. WorkLeft(c) < WorkLeft(top)
    <3>1. /\ 2 * (BufferSize - top.pc) \in Nat /\ 2 * (BufferSize - (top.pc + Insn.size)) \in Nat
          /\ 2 * (BufferSize - (top.pc + Insn.size)) + 2 <= 2 * (BufferSize - top.pc)
      BY <1>2, <1>3, <2>1, Doubles
    <3> QED BY <1>3, <2>3, <3>1
  <2>5. Moves(c)
    BY <1>3, <2>2, <2>4 DEF Moves, top
  <2> QED BY <1>1, <2>1, <2>2, <2>5
<1>5. CASE DecodeCall
  <2> DEFINE t == IF \/ Insn.target = 0
                     \/ \E i \in DOMAIN top.targets : top.targets[i] = Insn.target
                    THEN top.targets ELSE Append(top.targets, Insn.target)
             c == [top EXCEPT !.pc = @ + Insn.size, !.targets = t]
  <2>1. SetTop(c) /\ top.pc < BufferSize /\ Insn.op = "call"
    BY <1>2, <1>5 DEF DecodeCall, top
  <2>2. t \in Seq(Nat) /\ Len(t) \in Nat /\ Len(t) <= Len(top.targets) + 1
    BY <1>2, <1>3, <2>1
  <2> HIDE DEF t
  <2>3. /\ c \in Call /\ c.pc = top.pc + Insn.size /\ c.decoding = top.decoding
        /\ c.targets = t /\ c.next = 1
    BY <1>2, <2>1, <2>2 DEF Call
  <2> HIDE DEF c
  <2>4. /\ WorkLeft(c) = 2 * (BufferSize - (top.pc + Insn.size)) + Len(t) + 3
        /\ WorkLeft(top) = 2 * (BufferSize - top.pc) + Len(top.targets) + 3
    BY <1>2, <2>3 DEF WorkLeft
  <2>5. WorkLeft(c) < WorkLeft(top)
    <3>1. /\ 2 * (BufferSize - top.pc) \in Nat /\ 2 * (BufferSize - (top.pc + Insn.size)) \in Nat
          /\ 2 * (BufferSize - (top.pc + Insn.size)) + 2 <= 2 * (BufferSize - top.pc)
      BY <1>2, <1>3, <2>1, Doubles
    <3>2. PICK x, y \in Nat : /\ x = 2 * (BufferSize - top.pc)
                              /\ y = 2 * (BufferSize - (top.pc + Insn.size))
      BY <3>1
    <3>3. WorkLeft(c) = y + Len(t) + 3 /\ WorkLeft(top) = x + Len(top.targets) + 3 /\ y + 2 <= x
      BY <2>4, <3>1, <3>2
    <3> QED BY <1>3, <2>2, <3>3
  <2>6. Moves(c)
    BY <2>2, <2>3, <2>5 DEF Moves, top
  <2> QED BY <1>1, <2>1, <2>3, <2>6
<1>6. CASE DecodeRet
  <2> DEFINE c == [top EXCEPT !.pc = @ + Insn.size, !.decoding = FALSE]
  <2>1. SetTop(c) /\ top.pc < BufferSize /\ Insn.op = "ret"
    BY <1>6 DEF DecodeRet, top
  <2>2. /\ c \in Call /\ c.decoding = FALSE /\ c.targets = top.targets /\ c.next = 1
    BY <1>2, <2>1 DEF Call
  <2> HIDE DEF c
  <2>3. Moves(c)
    BY <1>2, <1>3, <2>2 DEF Moves, WorkLeft, top
  <2> QED BY <1>1, <2>1, <2>2, <2>3
<1>7. CASE DecodeStops
  <2> DEFINE c == [top EXCEPT !.decoding = FALSE]
  <2>1. SetTop(c)
    BY <1>7 DEF DecodeStops, top
  <2>2. /\ c \in Call /\ c.decoding = FALSE /\ c.targets = top.targets /\ c.next = 1
    BY <1>2 DEF Call
  <2> HIDE DEF c
  <2>3. Moves(c)
    BY <1>2, <1>3, <2>2 DEF Moves, WorkLeft, top
  <2> QED BY <1>1, <2>1, <2>2, <2>3
<1> QED BY <1>4, <1>5, <1>6, <1>7

\* The loop over the targets: past one that has a region, into a call, and out of stack.
LEMMA VisitMoves ==
  ASSUME ScanInv, BoundOK, SkipTarget \/ ScanTarget
  PROVE  /\ Scanning
         /\ \E c \in Call :
              /\ Moves(c)
              /\ \/ SetTop(c) /\ overflow' = overflow
                 \/ /\ overflow' = overflow /\ Len(scans) < MaxCalls
                    /\ \E d \in Call : /\ d.next = 1 /\ Len(d.targets) = 0
                                       /\ scans' = Append([scans EXCEPT ![Len(scans)] = c], d)
                 \/ ~ overflow /\ overflow' /\ UNCHANGED scans
<1> DEFINE top == TopScan
           c == [top EXCEPT !.next = @ + 1]
<1>1. Scanning /\ scans # <<>> /\ ~ overflow
  BY DEF SkipTarget, ScanTarget, Scanning
<1>2. /\ top \in Call /\ ~ top.decoding /\ top.next \in DOMAIN top.targets
      /\ top.next \in Nat \ {0} /\ Target \in Nat
  BY <1>1, ScanningIs
<1>3. top.targets \in Seq(Nat) /\ Len(top.targets) \in Nat
  BY <1>2 DEF Call
<1>4. /\ c \in Call /\ c.targets = top.targets /\ c.decoding = top.decoding
      /\ c.next = top.next + 1
  BY <1>2 DEF Call
<1>5. top = scans[Len(scans)] /\ Len(scans) \in 1 .. MaxCalls /\ Len(scans) \in DOMAIN scans
  BY <1>1, TopHasWork
<1>6. [scans EXCEPT ![Len(scans)].next = @ + 1] = [scans EXCEPT ![Len(scans)] = c]
  BY <1>5
<1>7. SkipTarget => SetTop(c) /\ overflow' = overflow
  BY DEF SkipTarget
<1> HIDE DEF c, top
<1>8. Moves(c)
  <2>1. top.next <= Len(top.targets)
    BY <1>2, <1>3
  <2> QED BY <1>2, <1>3, <1>4, <2>1 DEF Moves, WorkLeft, top
<1>9. CASE SkipTarget
  BY <1>1, <1>4, <1>7, <1>8, <1>9
<1>10. CASE ScanTarget /\ Len(scans) = MaxCalls
  BY <1>1, <1>4, <1>8, <1>10 DEF ScanTarget
<1>11. CASE ScanTarget /\ Len(scans) # MaxCalls
  <2>0. PICK b \in Buffers(Target) :
          scans' = Append([scans EXCEPT ![Len(scans)].next = @ + 1], NewCall(Target, b))
    BY <1>11 DEF ScanTarget
  <2> DEFINE d == NewCall(Target, b)
  <2>1. d \in Call /\ d.next = 1 /\ Len(d.targets) = 0
    <3>1. d.next = 1 /\ d.targets = <<>>
      BY DEF NewCall
    <3>2. b \in Buffer
      BY BuffersAre DEF ScanInv, ScanTypes
    <3> QED BY <1>2, <3>1, <3>2, NewCallIs
  <2>2. scans' = Append([scans EXCEPT ![Len(scans)] = c], d) /\ overflow' = overflow
    BY <1>6, <1>11, <2>0 DEF ScanTarget
  <2>3. Len(scans) < MaxCalls
    BY <1>5, <1>11, RegionsAssumption
  <2> HIDE DEF d
  <2> QED BY <1>1, <1>4, <1>8, <2>1, <2>2, <2>3
<1> QED BY <1>9, <1>10, <1>11

LEMMA Below ==
  \A n \in Nat : \A i \in 1 .. n - 1 : i \in 1 .. n /\ i # n
OBVIOUS

\* A call that moves on and makes another.
LEMMA AppendedIs ==
  ASSUME ScanInv, BoundOK, scans # <<>>, NEW c \in Call, NEW d \in Call,
         scans' = Append([scans EXCEPT ![Len(scans)] = c], d)
  PROVE  /\ Len(scans') = Len(scans) + 1 /\ DOMAIN scans' = 1 .. Len(scans) + 1
         /\ scans'[Len(scans)] = c /\ scans'[Len(scans) + 1] = d
         /\ \A i \in 1 .. Len(scans) - 1 : scans'[i] = scans[i]
<1>1. PICK n \in Nat : n = Len(scans) /\ n \in 1 .. n /\ scans \in [1 .. n -> Call]
  <2>1. Len(scans) \in DOMAIN scans /\ Len(scans) \in Nat /\ scans \in [1 .. Len(scans) -> Call]
    BY TopIs DEF ScanInv, ScanTypes
  <2> QED BY <2>1
<1> DEFINE s == [scans EXCEPT ![n] = c]
<1>2. /\ s \in [1 .. n -> Call] /\ s[n] = c
      /\ \A i \in 1 .. n - 1 : s[i] = scans[i]
  <2>1. \A i \in 1 .. n - 1 : i \in 1 .. n /\ i # n
    BY Below
  <2>2. n \in 1 .. n /\ DOMAIN scans = 1 .. n
    BY <1>1
  <2>3. s \in [1 .. n -> Call]
    BY <1>1
  <2> QED BY <2>1, <2>2, <2>3
<1>3. s \in Seq(Call) /\ Len(s) = n
  <2> HIDE DEF s
  <2> QED BY <1>2
<1>4. scans' = Append(s, d)
  BY <1>1
<1> HIDE DEF s
<1>5. /\ Len(scans') = n + 1 /\ DOMAIN scans' = 1 .. n + 1
      /\ \A i \in 1 .. n : scans'[i] = s[i]
      /\ scans'[n + 1] = d
  BY <1>3, <1>4
<1>6. n \in 1 .. n /\ \A i \in 1 .. n - 1 : i \in 1 .. n
  BY <1>1, Below
<1>7. scans'[n] = c /\ \A i \in 1 .. n - 1 : scans'[i] = scans[i]
  BY <1>2, <1>5, <1>6
<1> QED BY <1>1, <1>5, <1>7

LEMMA NextBoundOK ==
  ASSUME ScanInv, BoundOK, [RegionsNext]_regionsVars PROVE BoundOK'
<1>1. CASE Scan
  <2>1. PICK a, b : scans' = <<NewCall(a, b)>>
    BY <1>1 DEF Scan
  <2> DEFINE d == NewCall(a, b)
  <2>2. d.next = 1 /\ d.targets = <<>> /\ scans' = <<d>>
    BY <2>1 DEF NewCall
  <2> HIDE DEF d
  <2>3. DOMAIN scans' = {1} /\ scans'[1] = d /\ Len(scans') = 1 /\ Len(d.targets) = 0
    BY <2>2
  <2> QED BY <2>2, <2>3, RegionsAssumption DEF BoundOK
<1>2. ASSUME NEW c \in Call, SetTop(c), Moves(c), scans # <<>> PROVE BoundOK'
  <2>1. /\ DOMAIN scans' = DOMAIN scans /\ Len(scans') = Len(scans) /\ scans'[Len(scans)] = c
        /\ \A i \in DOMAIN scans : i # Len(scans) => scans'[i] = scans[i]
    BY <1>2, SetTopIs DEF ScanInv
  <2> QED BY <1>2, <2>1 DEF BoundOK, Moves
<1>3. CASE DecodeOther \/ DecodeCall \/ DecodeRet \/ DecodeStops
  BY <1>2, <1>3, DecodeMoves DEF Decoding
<1>4. CASE SkipTarget \/ ScanTarget
  <2>1. scans # <<>>
    BY <1>4 DEF SkipTarget, ScanTarget, Scanning
  <2>2. PICK c \in Call :
          /\ Moves(c)
          /\ \/ SetTop(c)
             \/ /\ Len(scans) < MaxCalls
                /\ \E d \in Call : /\ d.next = 1 /\ Len(d.targets) = 0
                                   /\ scans' = Append([scans EXCEPT ![Len(scans)] = c], d)
             \/ UNCHANGED scans
    BY <1>4, VisitMoves
  <2>3. ASSUME NEW d \in Call, d.next = 1, Len(d.targets) = 0, Len(scans) < MaxCalls,
               scans' = Append([scans EXCEPT ![Len(scans)] = c], d)
        PROVE  BoundOK'
    <3>1. /\ Len(scans') = Len(scans) + 1 /\ DOMAIN scans' = 1 .. Len(scans) + 1
          /\ scans'[Len(scans)] = c /\ scans'[Len(scans) + 1] = d
          /\ \A i \in 1 .. Len(scans) - 1 : scans'[i] = scans[i]
      BY <2>1, <2>3, AppendedIs
    <3>2. /\ Len(scans) \in 1 .. MaxCalls /\ DOMAIN scans = 1 .. Len(scans)
      BY <2>1, TopHasWork
    <3>3. Len(scans') <= MaxCalls
      <4>1. MaxCalls \in Nat /\ Len(scans) \in Nat
        BY <3>2, RegionsAssumption
      <4> QED BY <2>3, <3>1, <4>1
    <3>4. ASSUME NEW i \in DOMAIN scans', NEW e \in Call, e = scans'[i]
          PROVE  e.next <= Len(e.targets) + 1
      <4>1. i = Len(scans) + 1 \/ i = Len(scans) \/ i \in 1 .. Len(scans) - 1
        BY <3>1, <3>2
      <4>2. CASE i = Len(scans) + 1
        BY <2>3, <3>1, <3>4, <4>2
      <4>3. CASE i = Len(scans)
        BY <2>2, <3>1, <3>4, <4>3 DEF Moves
      <4>4. CASE i \in 1 .. Len(scans) - 1
        <5>1. i \in DOMAIN scans /\ e = scans[i]
          BY <3>1, <3>2, <3>4, <4>4
        <5> QED BY <5>1 DEF BoundOK
      <4> QED BY <4>1, <4>2, <4>3, <4>4
    <3> QED BY <3>3, <3>4 DEF BoundOK
  <2>4. UNCHANGED scans => BoundOK'
    BY DEF BoundOK
  <2> QED BY <1>2, <2>1, <2>2, <2>3, <2>4
<1>5. CASE ScanReturns
  <2>1. scans # <<>> /\ scans' = SubSeq(scans, 1, Len(scans) - 1)
    BY <1>5 DEF ScanReturns
  <2>2. /\ Len(scans) \in 1 .. MaxCalls /\ DOMAIN scans = 1 .. Len(scans) /\ scans \in Seq(Call)
    BY <2>1, TopHasWork DEF ScanInv, ScanTypes
  <2>3. /\ Len(scans') = Len(scans) - 1 /\ DOMAIN scans' = 1 .. Len(scans) - 1
        /\ \A i \in 1 .. Len(scans) - 1 : scans'[i] = scans[i]
    BY <2>1, <2>2
  <2>4. DOMAIN scans' \subseteq DOMAIN scans /\ \A i \in DOMAIN scans' : scans'[i] = scans[i]
    BY <2>2, <2>3
  <2>5. Len(scans') <= MaxCalls
    BY <2>2, <2>3, RegionsAssumption
  <2> QED BY <2>4, <2>5 DEF BoundOK
<1>6. CASE UNCHANGED regionsVars
  BY <1>6 DEF regionsVars, BoundOK
<1> QED BY <1>1, <1>3, <1>4, <1>5, <1>6 DEF RegionsNext, ScanNext

LEMMA BoundInductive == RegionsSpec => []BoundOK
<1>1. RegionsInit => BoundOK
  BY RegionsAssumption DEF RegionsInit, BoundOK
<1> QED BY <1>1, NextBoundOK, RegionsInv, PTL DEF RegionsSpec

LEMMA ScanWorkIs ==
  /\ DOMAIN ScanWork = 1 .. MaxCalls + 1
  /\ ScanWork[MaxCalls + 1] = IF overflow THEN 0 ELSE 1
  /\ ScanWork'[MaxCalls + 1] = IF overflow' THEN 0 ELSE 1
  /\ \A i \in 1 .. MaxCalls :
       /\ ScanWork[i] = IF i \in DOMAIN scans THEN WorkLeft(scans[i]) ELSE 0
       /\ ScanWork'[i] = IF i \in DOMAIN scans' THEN WorkLeft(scans'[i]) ELSE 0
BY RegionsAssumption DEF ScanWork, WorkLeft

LEMMA ScanWorkIsNatural ==
  ASSUME ScanInv, BoundOK PROVE ScanWork \in [1 .. MaxCalls + 1 -> Nat]
<1>1. ASSUME NEW i \in DOMAIN scans PROVE WorkLeft(scans[i]) \in Nat
  <2>1. PICK c \in Call : c = scans[i]
    BY DEF ScanInv, ScanTypes
  <2> QED BY <2>1, LeftIsPositive DEF BoundOK
<1> QED BY <1>1 DEF ScanWork

\* The innermost call has less to do, or is gone, and the others have as much as before.
LEMMA TopFalls ==
  ASSUME ScanInv, BoundOK, scans # <<>>,
         \A i \in 1 .. Len(scans) - 1 : i \in DOMAIN scans' /\ scans'[i] = scans[i],
         Len(scans) \in DOMAIN scans' => WorkLeft(scans'[Len(scans)]) < WorkLeft(TopScan)
  PROVE  LessWork(ScanWork', ScanWork)
<1>1. PICK n \in 1 .. MaxCalls : n = Len(scans)
  BY TopHasWork
<1>2. DOMAIN scans = 1 .. n /\ TopScan = scans[n] /\ WorkLeft(TopScan) \in Nat \ {0}
  BY <1>1, TopHasWork
<1>3. MaxCalls \in Nat /\ n \in 1 .. MaxCalls + 1
  BY RegionsAssumption
<1>4. ScanWork'[n] < ScanWork[n]
  <2>1. ScanWork[n] = WorkLeft(TopScan)
    BY <1>2, ScanWorkIs
  <2>2. CASE n \in DOMAIN scans'
    <3>1. ScanWork'[n] = WorkLeft(scans'[n])
      BY <2>2, ScanWorkIs
    <3> QED BY <1>1, <2>1, <2>2, <3>1
  <2>3. CASE n \notin DOMAIN scans'
    <3>1. ScanWork'[n] = 0
      BY <2>3, ScanWorkIs
    <3> QED BY <1>2, <2>1, <3>1
  <2> QED BY <2>2, <2>3
<1>5. ASSUME NEW i \in 1 .. n - 1 PROVE ScanWork'[i] = ScanWork[i]
  <2>1. i \in 1 .. MaxCalls /\ i \in DOMAIN scans /\ i \in DOMAIN scans' /\ scans'[i] = scans[i]
    BY <1>1, <1>2, <1>3
  <2> QED BY <2>1, ScanWorkIs
<1> QED BY <1>3, <1>4, <1>5, ScanWorkIs DEF LessWork

LEMMA ScanStepFalls ==
  ASSUME ScanInv, BoundOK, ScanNext PROVE LessWork(ScanWork', ScanWork)
<1>1. scans # <<>>
  BY DEF ScanNext, DecodeOther, DecodeCall, DecodeRet, DecodeStops, Decoding, SkipTarget,
         ScanTarget, Scanning, ScanReturns
<1>2. Len(scans) \in 1 .. MaxCalls /\ DOMAIN scans = 1 .. Len(scans) /\ MaxCalls \in Nat
  BY <1>1, TopHasWork, RegionsAssumption
<1>3. ASSUME NEW c \in Call, SetTop(c), Moves(c) PROVE LessWork(ScanWork', ScanWork)
  <2>1. /\ DOMAIN scans' = DOMAIN scans /\ scans'[Len(scans)] = c
        /\ \A i \in DOMAIN scans : i # Len(scans) => scans'[i] = scans[i]
    BY <1>1, <1>3, SetTopIs DEF ScanInv
  <2>2. \A i \in 1 .. Len(scans) - 1 : i \in DOMAIN scans' /\ scans'[i] = scans[i]
    BY <1>2, <2>1
  <2> QED BY <1>1, <1>3, <2>1, <2>2, TopFalls DEF Moves
<1>4. CASE DecodeOther \/ DecodeCall \/ DecodeRet \/ DecodeStops
  BY <1>3, <1>4, DecodeMoves
<1>5. CASE SkipTarget \/ ScanTarget
  <2>1. PICK c \in Call :
          /\ Moves(c)
          /\ \/ SetTop(c)
             \/ \E d \in Call : scans' = Append([scans EXCEPT ![Len(scans)] = c], d)
             \/ ~ overflow /\ overflow' /\ UNCHANGED scans
    BY <1>5, VisitMoves
  <2>2. ASSUME NEW d \in Call, scans' = Append([scans EXCEPT ![Len(scans)] = c], d)
        PROVE  LessWork(ScanWork', ScanWork)
    <3>1. /\ DOMAIN scans' = 1 .. Len(scans) + 1 /\ scans'[Len(scans)] = c
          /\ \A i \in 1 .. Len(scans) - 1 : scans'[i] = scans[i]
      BY <1>1, <2>2, AppendedIs
    <3>2. \A i \in 1 .. Len(scans) - 1 : i \in DOMAIN scans'
      BY <1>2, <3>1
    <3>3. WorkLeft(scans'[Len(scans)]) < WorkLeft(TopScan)
      BY <2>1, <3>1 DEF Moves
    <3> QED BY <1>1, <3>1, <3>2, <3>3, TopFalls
  <2>3. CASE ~ overflow /\ overflow' /\ UNCHANGED scans
    <3>1. PICK m \in Nat : m = MaxCalls + 1
      BY <1>2
    <3>2. ScanWork'[m] < ScanWork[m] /\ m \in DOMAIN ScanWork
      BY <1>2, <2>3, <3>1, ScanWorkIs
    <3>3. \A i \in 1 .. m - 1 : ScanWork'[i] = ScanWork[i]
      BY <1>2, <2>3, <3>1, ScanWorkIs
    <3> QED BY <3>2, <3>3 DEF LessWork
  <2> QED BY <1>3, <2>1, <2>2, <2>3
<1>6. CASE ScanReturns
  <2>1. scans' = SubSeq(scans, 1, Len(scans) - 1) /\ scans \in Seq(Call)
    BY <1>6 DEF ScanReturns, ScanInv, ScanTypes
  <2>2. /\ DOMAIN scans' = 1 .. Len(scans) - 1
        /\ \A i \in 1 .. Len(scans) - 1 : scans'[i] = scans[i]
    BY <1>2, <2>1
  <2>3. Len(scans) \notin DOMAIN scans'
    BY <1>2, <2>2
  <2> QED BY <1>1, <2>2, <2>3, TopFalls
<1> QED BY <1>4, <1>5, <1>6 DEF ScanNext

\* In any program, each step of scanProcedure() leaves less to do, also where a procedure
\* without a ret is scanned for every call of it.
THEOREM ScanningMovesOn ==
  RegionsSpec => [](ScanWork \in [1 .. MaxCalls + 1 -> Nat]) /\ ScanMovesOn
<1>1. ScanInv /\ BoundOK /\ [RegionsNext]_regionsVars
        => [ScanNext => LessWork(ScanWork', ScanWork)]_regionsVars
  BY ScanStepFalls
<1> QED BY <1>1, ScanWorkIsNatural, BoundInductive, RegionsInv, PTL DEF RegionsSpec, ScanMovesOn
==============================================================================
