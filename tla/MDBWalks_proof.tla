---------------------------- MODULE MDBWalks_proof ----------------------------
(***************************************************************************)
(* Proofs about what the debugger reads of a debuggee that stands still.   *)
(*                                                                         *)
(* MDBStack, for any contents of the debuggee's memory, any frame pointer  *)
(* and any cut-off: the backtrace is bounded, and it is the chain of saved *)
(* frame pointers.  The invariant says what is true of the frames found so *)
(* far, and that the locals of updateState() hold what the next frame will *)
(* be made of.                                                             *)
(*                                                                         *)
(* MDBMemoryMap, for address spaces of any length with any regions:        *)
(* findAddress() finds dyld where it is first seen, the copies of regions  *)
(* are freed, whenever the debuggee dies, and the walks come to an end.    *)
(***************************************************************************)
EXTENDS MDBStack, MDBMemoryMap, Integers, SequenceTheorems, TLAPS

Frame == [address : Int, code : Int, size : 0 .. 256, parent : Nat]

StackShape ==
  /\ stackPc \in {"idle", "walk", "link"}
  /\ frames \in Seq(Frame) /\ frame \in 0 .. 1
  /\ ebp \in Int /\ eip \in Int /\ frameAddress \in Int /\ codeAddress \in Int
  /\ frameSize \in 0 .. 256
  /\ \A a \in DOMAIN memory : memory[a] \in Int

\* The address and the code address of the frame after the first n.
NextAddress(n) == IF n = 0 THEN ebp ELSE Caller(frames[n].address)
NextCode(n) ==
  IF n = 0 THEN eip ELSE ReadWord(frames[n].address + 16, frames[n].code)

Chain ==
  \A i \in DOMAIN frames :
    /\ frames[i].address = NextAddress(i - 1) /\ frames[i].address # 0
    /\ frames[i].code = NextCode(i - 1)

\* What the walk goes on with, and when it is over.
Walking ==
  /\ stackPc = "walk" => Len(frames) <= MaxFrames /\ codeAddress = NextCode(Len(frames))
  /\ stackPc = "link" => frameAddress = 0 \/ Len(frames) = MaxFrames + 1
  /\ stackPc # "idle" => /\ frameAddress = NextAddress(Len(frames))
                    /\ \A i \in DOMAIN frames : frames[i].parent = 0

Linked ==
  stackPc = "idle" =>
    /\ (frame = 0) = (frames = <<>>) /\ (frame = 0) = (ebp = 0)
    /\ \A i \in DOMAIN frames : frames[i].parent = IF i < Len(frames) THEN i + 1 ELSE 0
    /\ frames # <<>> => \/ Caller(frames[Len(frames)].address) = 0
                        \/ Len(frames) = MaxFrames + 1

StackInv == StackShape /\ Chain /\ Walking /\ Linked /\ FramesBounded

-----------------------------------------------------------------------------
\* The frames as the invariant has them.
LEMMA FrameTypes ==
  ASSUME StackShape
  PROVE  /\ Len(frames) \in Nat /\ DOMAIN frames = 1 .. Len(frames)
         /\ \A i \in DOMAIN frames : frames[i] \in Frame
         /\ frames = <<>> <=> Len(frames) = 0
BY LenProperties, ElementOfSeq, EmptySeq DEF StackShape

\* A word is an integer, whether it can be read or not.
LEMMA ReadWordType ==
  ASSUME StackShape, NEW a, NEW old \in Int
  PROVE  ReadWord(a, old) \in Int
BY DEF StackShape, ReadWord

\* The test for interior pointers never succeeds, so a frame's caller is always looked
\* up in the same way.
LEMMA NoInteriorPointer ==
  ASSUME StackShape, NEW a \in Int
  PROVE  ~ IsInteriorPointer(a)
BY DEF StackShape, IsInteriorPointer, MaxStackSize

\* updateState() begins.
LEMMA UpdateStateKeepsInv ==
  ASSUME StackInv, UpdateState
  PROVE  StackInv'
<1>1. /\ memory' \in Memories /\ ebp' \in Int /\ eip' \in Int /\ frame' = frame
      /\ frameAddress' = ebp' /\ codeAddress' = eip' /\ frameSize' = 128
      /\ frames' = <<>> /\ stackPc' = "walk"
  BY StackAssumption DEF UpdateState
<1>2. frames' \in Seq(Frame) /\ Len(frames') = 0 /\ DOMAIN frames' = {}
  BY <1>1
<1>3. \A a \in DOMAIN memory' : memory'[a] \in Int
  BY <1>1, StackAssumption
<1>4. StackShape'
  BY <1>1, <1>2, <1>3 DEF StackInv, StackShape
<1>5. Chain' /\ Linked' /\ FramesBounded'
  BY <1>1, <1>2, StackAssumption DEF Chain, Linked, FramesBounded
<1>6. Walking'
  BY <1>1, <1>2, StackAssumption DEF Walking, NextAddress, NextCode
<1> QED BY <1>4, <1>5, <1>6 DEF StackInv

\* One frame more: it is the next of the chain.
LEMMA WalkFrameKeepsInv ==
  ASSUME StackInv, WalkFrame
  PROVE  StackInv'
<1> DEFINE first == ReadWord(frameAddress, 0)
           new == [address |-> frameAddress, code |-> codeAddress, size |-> frameSize, parent |-> 0]
           n == Len(frames)
<1>1. /\ StackShape /\ Chain /\ Walking /\ stackPc = "walk" /\ frameAddress # 0
      /\ n \in Nat /\ DOMAIN frames = 1 .. n /\ frames \in Seq(Frame) /\ n <= MaxFrames
      /\ frameAddress = NextAddress(n) /\ codeAddress = NextCode(n)
      /\ \A i \in DOMAIN frames : frames[i].parent = 0
  BY FrameTypes DEF StackInv, StackShape, Walking, WalkFrame
<1>2. first \in Int /\ ~ IsInteriorPointer(first)
  BY <1>1, ReadWordType, NoInteriorPointer
<1>3. /\ frames' = Append(frames, new)
      /\ codeAddress' = ReadWord(frameAddress + 16, codeAddress)
      /\ frameAddress' = Caller(frameAddress)
      /\ frameSize' = IF Caller(frameAddress) - frameAddress \in 0 .. 256
                        THEN Caller(frameAddress) - frameAddress ELSE 256
      /\ stackPc' = IF Len(frames') > MaxFrames THEN "link" ELSE "walk"
      /\ UNCHANGED <<memory, ebp, eip, frame>>
  <2>1. 12 + 4 = 16 /\ frameAddress + 12 + 4 = frameAddress + 16
    BY <1>1 DEF StackShape
  <2> QED BY <1>1, <1>2, <2>1 DEF WalkFrame, Caller
<1>4. new \in Frame /\ new.address = frameAddress /\ new.code = codeAddress /\ new.parent = 0
  BY <1>1 DEF StackShape, Frame
<1> HIDE DEF new, n
<1>5. /\ frames' \in Seq(Frame) /\ Len(frames') = n + 1 /\ DOMAIN frames' = 1 .. n + 1
      /\ \A i \in 1 .. n : frames'[i] = frames[i]
      /\ frames'[n + 1] = new
  <2>1. /\ frames' \in Seq(Frame) /\ Len(frames') = n + 1
        /\ \A i \in 1 .. n : frames'[i] = frames[i]
        /\ frames'[n + 1] = new
    BY <1>1, <1>3, <1>4, AppendProperties DEF n
  <2> QED BY <2>1, LenProperties
<1>6. \A i \in 1 .. n + 1 : i \in 1 .. n \/ i = n + 1
  BY <1>1
<1>7. \A a, old : ReadWord(a, old)' = ReadWord(a, old)
  BY <1>3 DEF ReadWord
<1>8. StackShape'
  <2>1. Caller(frameAddress) \in Int /\ ReadWord(frameAddress + 16, codeAddress) \in Int
    BY <1>1, ReadWordType DEF Caller, StackShape
  <2>2. frameSize' \in 0 .. 256
    BY <1>1, <1>3, <2>1 DEF StackShape
  <2> QED BY <1>1, <1>3, <1>5, <2>1, <2>2 DEF StackShape
<1>9. Chain'
  <2> SUFFICES ASSUME NEW i \in 1 .. n + 1
               PROVE  /\ frames'[i].address = NextAddress(i - 1)' /\ frames'[i].address # 0
                      /\ frames'[i].code = NextCode(i - 1)'
    BY <1>5 DEF Chain
  <2>1. i - 1 \in Nat /\ (i - 1 # 0 => i - 1 \in 1 .. n)
    BY <1>1
  <2>2. NextAddress(i - 1)' = NextAddress(i - 1) /\ NextCode(i - 1)' = NextCode(i - 1)
    BY <1>3, <1>5, <1>7, <2>1 DEF NextAddress, NextCode, Caller
  <2>3. CASE i \in 1 .. n
    BY <1>1, <1>5, <2>2, <2>3 DEF Chain
  <2>4. CASE i = n + 1
    <3>1. i - 1 = n
      BY <1>1, <2>4
    <3> QED BY <1>1, <1>4, <1>5, <2>2, <2>4, <3>1
  <2> QED BY <1>6, <2>3, <2>4
<1>10. Walking'
  <2>1. Len(frames') # 0 /\ Len(frames') <= MaxFrames + 1
    BY <1>1, <1>5, StackAssumption
  <2>2. /\ NextAddress(Len(frames))' = Caller(frameAddress)
        /\ NextCode(Len(frames))' = ReadWord(frameAddress + 16, codeAddress)
    <3>1. frames'[Len(frames')].address = frameAddress /\ frames'[Len(frames')].code = codeAddress
      BY <1>4, <1>5
    <3> QED BY <1>7, <2>1, <3>1 DEF NextAddress, NextCode, Caller
  <2>3. \A i \in DOMAIN frames' : frames'[i].parent = 0
    BY <1>1, <1>4, <1>5, <1>6
  <2>4. /\ stackPc' = "walk" => Len(frames') <= MaxFrames
        /\ stackPc' = "link" => Len(frames') = MaxFrames + 1
    BY <1>1, <1>3, <1>5, <2>1, StackAssumption
  <2> QED BY <1>3, <1>5, <2>2, <2>3, <2>4 DEF Walking
<1>11. Linked' /\ FramesBounded'
  BY <1>1, <1>3, <1>5, StackAssumption DEF Linked, FramesBounded
<1> QED BY <1>8, <1>9, <1>10, <1>11 DEF StackInv

\* The end of the chain.
LEMMA WalkDoneKeepsInv ==
  ASSUME StackInv, WalkDone
  PROVE  StackInv'
<1>1. /\ stackPc = "walk" /\ frameAddress = 0 /\ stackPc' = "link"
      /\ UNCHANGED <<memory, ebp, eip, frameAddress, codeAddress, frameSize, frames, frame>>
  BY DEF WalkDone
<1>2. \A k : NextAddress(k)' = NextAddress(k) /\ NextCode(k)' = NextCode(k)
  BY <1>1 DEF NextAddress, NextCode, Caller, ReadWord
<1>3. StackShape' /\ Chain' /\ FramesBounded'
  BY <1>1, <1>2 DEF StackInv, StackShape, Chain, FramesBounded
<1>4. Walking' /\ Linked'
  <2>1. NextAddress(Len(frames))' = NextAddress(Len(frames))
    BY <1>1 DEF NextAddress, Caller, ReadWord
  <2> QED BY <1>1, <2>1 DEF StackInv, Walking, Linked
<1> QED BY <1>3, <1>4 DEF StackInv

\* A frame with another parent.
LEMMA Reparented ==
  ASSUME NEW r \in Frame, NEW p \in Nat
  PROVE  LET new == [r EXCEPT !.parent = p]
         IN new \in Frame /\ new.parent = p /\ new.address = r.address /\ new.code = r.code
BY DEF Frame

\* The frames get their parents.
LEMMA LinkFramesKeepsInv ==
  ASSUME StackInv, LinkFrames
  PROVE  StackInv'
<1> DEFINE n == Len(frames)
           Parent(i) == IF i < n THEN i + 1 ELSE 0
<1>1. /\ stackPc = "link" /\ stackPc' = "idle"
      /\ frames' = [i \in DOMAIN frames |->
                     [frames[i] EXCEPT !.parent = IF i < n THEN i + 1 ELSE @]]
      /\ frame' = IF frames = <<>> THEN 0 ELSE 1
      /\ UNCHANGED <<memory, ebp, eip, frameAddress, codeAddress, frameSize>>
  BY DEF LinkFrames
<1>2. /\ StackShape /\ Chain /\ n \in Nat /\ DOMAIN frames = 1 .. n
      /\ \A i \in 1 .. n : frames[i] \in Frame /\ frames[i].parent = 0
      /\ frames = <<>> <=> n = 0
      /\ frameAddress = NextAddress(n) /\ (frameAddress = 0 \/ n = MaxFrames + 1)
      /\ FramesBounded
  BY <1>1, FrameTypes DEF StackInv, Walking
<1>3. ASSUME NEW i \in 1 .. n
      PROVE  /\ frames'[i] \in Frame /\ frames'[i].parent = Parent(i)
             /\ frames'[i].address = frames[i].address /\ frames'[i].code = frames[i].code
  <2>1. frames'[i] = [frames[i] EXCEPT !.parent = Parent(i)]
    <3>1. frames'[i] = [frames[i] EXCEPT !.parent = IF i < n THEN i + 1 ELSE frames[i].parent]
      BY <1>1, <1>2
    <3>2. (IF i < n THEN i + 1 ELSE frames[i].parent) = Parent(i)
      BY <1>2
    <3> QED BY <3>1, <3>2
  <2>2. Parent(i) \in Nat
    BY <1>2
  <2> HIDE DEF Parent
  <2>3. frames[i] \in Frame
    BY <1>2
  <2> QED BY <2>1, <2>2, <2>3, Reparented
<1>4. frames' \in Seq(Frame) /\ Len(frames') = n /\ DOMAIN frames' = 1 .. n
  <2>1. DOMAIN frames' = 1 .. n
    BY <1>1, <1>2
  <2>2. frames' \in [1 .. n -> Frame]
    BY <1>1, <1>2, <1>3
  <2>3. frames' \in Seq(Frame)
    BY <1>2, <2>2, SeqDef
  <2> QED BY <1>2, <2>1, <2>3, LenProperties
<1> HIDE DEF Parent
<1>5. \A a, old : ReadWord(a, old)' = ReadWord(a, old)
  BY <1>1 DEF ReadWord
<1>6. StackShape'
  BY <1>1, <1>2, <1>4 DEF StackShape
<1>7. Chain'
  <2> SUFFICES ASSUME NEW i \in 1 .. n
               PROVE  /\ frames'[i].address = NextAddress(i - 1)' /\ frames'[i].address # 0
                      /\ frames'[i].code = NextCode(i - 1)'
    BY <1>4 DEF Chain
  <2>1. i - 1 # 0 => i - 1 \in 1 .. n
    BY <1>2
  <2>2. NextAddress(i - 1)' = NextAddress(i - 1) /\ NextCode(i - 1)' = NextCode(i - 1)
    BY <1>1, <1>3, <1>5, <2>1 DEF NextAddress, NextCode, Caller
  <2> QED BY <1>2, <1>3, <2>2 DEF Chain
<1>8. Linked'
  <2>1. frames' = <<>> <=> frames = <<>>
    BY <1>2, <1>4, EmptySeq
  <2>2. CASE n = 0
    <3>1. frame' = 0 /\ frames' = <<>> /\ DOMAIN frames' = {}
      BY <1>1, <1>2, <1>4, <2>1, <2>2
    <3>2. ebp' = 0
      <4>1. n # MaxFrames + 1
        BY <2>2, StackAssumption
      <4> QED BY <1>1, <1>2, <2>2, <4>1 DEF NextAddress
    <3> QED BY <3>1, <3>2 DEF Linked
  <2>3. CASE n # 0
    <3>1. frame' = 1 /\ frames' # <<>>
      BY <1>1, <1>2, <2>1, <2>3
    <3>2. ebp' # 0
      <4>1. 1 \in 1 .. n
        BY <1>2, <2>3
      <4>2. frames[1].address # 0 /\ frames[1].address = NextAddress(1 - 1)
        BY <1>2, <4>1 DEF Chain
      <4>3. NextAddress(1 - 1) = ebp
        BY DEF NextAddress
      <4> QED BY <1>1, <4>2, <4>3
    <3>3. \A i \in DOMAIN frames' :
            frames'[i].parent = IF i < Len(frames') THEN i + 1 ELSE 0
      BY <1>3, <1>4 DEF Parent
    <3>4. \/ Caller(frames[Len(frames)].address)' = 0
          \/ Len(frames') = MaxFrames + 1
      <4>1. n \in 1 .. n /\ Len(frames') = n /\ frames'[n].address = frames[n].address
        BY <1>2, <1>3, <1>4, <2>3
      <4>2. Caller(frames[Len(frames)].address)' = Caller(frames[n].address)
        BY <1>5, <4>1 DEF Caller
      <4>3. Caller(frames[n].address) = frameAddress
        BY <1>2, <2>3 DEF NextAddress
      <4> QED BY <1>2, <4>1, <4>2, <4>3
    <3> QED BY <3>1, <3>2, <3>3, <3>4 DEF Linked
  <2> QED BY <2>2, <2>3
<1>9. Walking' /\ FramesBounded'
  BY <1>1, <1>2, <1>4 DEF Walking, FramesBounded
<1> QED BY <1>6, <1>7, <1>8, <1>9 DEF StackInv

-----------------------------------------------------------------------------
(* The theorems.                                                           *)

\* The invariant, in every state of every backtrace.
THEOREM StackInvariant == StackSpec => []StackInv
<1>1. StackInit => StackInv
  <2> SUFFICES ASSUME StackInit PROVE StackInv
    OBVIOUS
  <2>1. frames = <<>> /\ frames \in Seq(Frame) /\ Len(frames) = 0 /\ DOMAIN frames = {}
    BY DEF StackInit
  <2>2. memory = <<>> /\ DOMAIN memory = {}
    BY DEF StackInit
  <2> QED BY <2>1, <2>2, StackAssumption DEF StackInit, StackInv, StackShape, Chain, Walking, Linked, FramesBounded
<1>2. StackInv /\ [StackNext]_stackVars => StackInv'
  <2> SUFFICES ASSUME StackInv, [StackNext]_stackVars PROVE StackInv'
    OBVIOUS
  <2>1. CASE UpdateState
    BY <2>1, UpdateStateKeepsInv
  <2>2. CASE WalkFrame
    BY <2>2, WalkFrameKeepsInv
  <2>3. CASE WalkDone
    BY <2>3, WalkDoneKeepsInv
  <2>4. CASE LinkFrames
    BY <2>4, LinkFramesKeepsInv
  <2>5. CASE UNCHANGED stackVars
    BY <2>5 DEF stackVars, StackInv, StackShape, Chain, Walking, Linked, FramesBounded, NextAddress, NextCode,
                Caller, ReadWord
  <2> QED BY <2>1, <2>2, <2>3, <2>4, <2>5 DEF StackNext, FramesNext
<1> QED BY <1>1, <1>2, PTL DEF StackSpec

\* The links of the backtrace stay within it, and no frame is taken for larger than 256
\* bytes.
THEOREM StackTypes == StackSpec => []StackTypeOK
<1>1. StackInv => StackTypeOK
  <2> SUFFICES ASSUME StackInv PROVE StackTypeOK
    OBVIOUS
  <2>1. Len(frames) \in Nat /\ DOMAIN frames = 1 .. Len(frames) /\ \A i \in DOMAIN frames : frames[i] \in Frame
    BY FrameTypes DEF StackInv
  <2>2. ASSUME NEW i \in DOMAIN frames
        PROVE  frames[i].size \in 0 .. 256 /\ frames[i].parent \in 0 .. Len(frames)
    <3>1. frames[i].size \in 0 .. 256
      BY <2>1 DEF Frame
    <3>2. frames[i].parent = 0 \/ (frames[i].parent = i + 1 /\ i < Len(frames))
      <4>1. CASE stackPc = "idle"
        BY <4>1 DEF StackInv, Linked
      <4>2. CASE stackPc # "idle"
        BY <4>2 DEF StackInv, Walking
      <4> QED BY <4>1, <4>2
    <3> QED BY <2>1, <3>1, <3>2
  <2> QED BY <2>2 DEF StackInv, StackShape, StackTypeOK
<1> QED BY <1>1, StackInvariant, PTL

\* No contents of the debuggee's memory make the backtrace grow past the cut-off.
THEOREM StackFramesBounded == StackSpec => []FramesBounded
<1>1. StackInv => FramesBounded
  BY DEF StackInv
<1> QED BY <1>1, StackInvariant, PTL

\* The backtrace that updateState() leaves is the chain of saved frame pointers, whole or
\* cut off, with parents all the way, whatever the memory holds.
THEOREM StackIsChain == StackSpec => []BacktraceIsChain
<1>1. StackInv => BacktraceIsChain
  <2> SUFFICES ASSUME StackInv, stackPc = "idle"
      PROVE  /\ (frame = 0) = (ebp = 0) /\ (frame = 0) = (frames = <<>>)
             /\ \A i \in DOMAIN frames :
                  /\ frames[i].address = IF i = 1 THEN ebp ELSE Caller(frames[i - 1].address)
                  /\ frames[i].code =
                       IF i = 1 THEN eip
                                ELSE ReadWord(frames[i - 1].address + 16, frames[i - 1].code)
                  /\ frames[i].parent = IF i < Len(frames) THEN i + 1 ELSE 0
                  /\ i = Len(frames) => \/ Caller(frames[i].address) = 0
                                        \/ Len(frames) = MaxFrames + 1
    BY DEF BacktraceIsChain
  <2>1. Linked /\ Chain /\ DOMAIN frames = 1 .. Len(frames) /\ Len(frames) \in Nat
    BY FrameTypes DEF StackInv
  <2>2. ASSUME NEW i \in DOMAIN frames
        PROVE  /\ NextAddress(i - 1) = IF i = 1 THEN ebp ELSE Caller(frames[i - 1].address)
               /\ NextCode(i - 1) =
                    IF i = 1 THEN eip
                             ELSE ReadWord(frames[i - 1].address + 16, frames[i - 1].code)
    <3>1. i - 1 = 0 <=> i = 1
      BY <2>1
    <3> QED BY <3>1 DEF NextAddress, NextCode
  <2>3. /\ (frame = 0) = (ebp = 0) /\ (frame = 0) = (frames = <<>>)
        /\ \A i \in DOMAIN frames : frames[i].parent = IF i < Len(frames) THEN i + 1 ELSE 0
    BY <2>1 DEF Linked
  <2>4. ASSUME NEW i \in DOMAIN frames, i = Len(frames)
        PROVE  Caller(frames[i].address) = 0 \/ Len(frames) = MaxFrames + 1
    <3>1. frames # <<>>
      BY <2>1
    <3> QED BY <2>1, <2>4, <3>1 DEF Linked
  <2>5. ASSUME NEW i \in DOMAIN frames
        PROVE  /\ frames[i].address = NextAddress(i - 1)
               /\ frames[i].code = NextCode(i - 1)
    BY <2>1 DEF Chain
  <2> QED BY <2>2, <2>3, <2>4, <2>5
<1> QED BY <1>1, StackInvariant, PTL

-----------------------------------------------------------------------------
(* The memory map.                                                         *)

Seen == {i \in DOMAIN map : /\ map[i].readable /\ map[i].large /\ map[i].copies
                            /\ map[i].header = WantedType}

\* What the loops know of the region that they are at.
AtRegion ==
  /\ mapPc \in {"findHeader", "logHeader"} => at \in DOMAIN map
  /\ mapPc = "findHeader" => info = map[at] /\ info.readable /\ info.large /\ info.copies
  /\ mapPc = "name" => images > 0

\* The search has passed no region with the header it looks for.
SearchedSoFar ==
  mapPc \in {"find", "findHeader"} => found = 0 /\ \A i \in Seen : at <= i

MapInv ==
  /\ map \in Seq(Region) /\ MapTypeOK
  /\ AtRegion /\ SearchedSoFar
  /\ FindsDylinker /\ BuffersFreed

-----------------------------------------------------------------------------
\* The address space as the invariant has it.
LEMMA MapTypes ==
  ASSUME map \in Seq(Region)
  PROVE  Len(map) \in Nat /\ DOMAIN map = 1 .. Len(map) /\ \A i \in DOMAIN map : map[i] \in Region
BY LenProperties, ElementOfSeq

\* A region is described when there is one, and the last one again when not.
LEMMA QueryRegionTypes ==
  ASSUME MapInv, QueryRegion
  PROVE  /\ info' \in Region /\ kr' \in {"success", "invalidTask", "invalidAddress"}
         /\ kr' = "success" => at \in DOMAIN map /\ info' = map[at] /\ at + 1 \in 1 .. Len(map) + 1
         /\ kr' = "invalidAddress" => alive /\ at \notin DOMAIN map
BY MapTypes DEF MapInv, MapTypeOK, QueryRegion

\* One conjunct that every step but a few leaves alone.
LEMMA SearchUndisturbed ==
  ASSUME MapInv, UNCHANGED <<map, found>>, mapPc # "found" => mapPc' # "found",
         mapPc = "found" => alive' = alive
  PROVE  FindsDylinker'
BY DEF MapInv, FindsDylinker

\* findAddress() step by step.
LEMMA FindKeepsInv ==
  ASSUME MapInv, FindSkip \/ FindCopy \/ FindMatch \/ FindNext
  PROVE  MapInv'
<1>1. /\ map \in Seq(Region) /\ MapTypeOK /\ AtRegion /\ SearchedSoFar /\ BuffersFreed
      /\ FindsDylinker /\ Len(map) \in Nat /\ DOMAIN map = 1 .. Len(map)
  BY MapTypes DEF MapInv
<1>2. map' = map /\ Seen' = Seen
  BY DEF FindSkip, FindCopy, FindMatch, FindNext, Seen
<1>3. found = 0 /\ (\A i \in Seen : at <= i) /\ at \in Nat
  BY <1>1 DEF SearchedSoFar, MapTypeOK, FindSkip, FindCopy, FindMatch, FindNext
<1>4. CASE FindSkip
  <2>1. /\ mapPc = "find" /\ QueryRegion /\ ~ (info'.readable /\ info'.large /\ Copies)
        /\ at' = IF kr' = "success" THEN at + 1 ELSE at
        /\ mapPc' = IF kr' = "invalidAddress" THEN "found" ELSE "find"
        /\ UNCHANGED <<map, alive, found, caller, images, buffers, kept>>
    BY <1>4 DEF FindSkip
  <2>2. /\ info' \in Region /\ kr' \in {"success", "invalidTask", "invalidAddress"}
        /\ kr' = "success" => at \in DOMAIN map /\ info' = map[at] /\ at + 1 \in 1 .. Len(map) + 1
        /\ kr' = "invalidAddress" => alive /\ at \notin DOMAIN map
    BY <2>1, QueryRegionTypes
  <2>3. \A i \in Seen : at' <= i
    <3>1. CASE kr' = "success"
      <4>1. at \notin Seen
        BY <2>1, <2>2, <3>1 DEF Copies, Seen
      <4>2. \A i \in Seen : i \in Nat /\ i # at
        BY <1>1, <4>1 DEF Seen
      <4> QED BY <1>3, <2>1, <3>1, <4>2
    <3>2. CASE kr' # "success"
      BY <1>3, <2>1, <3>2
    <3> QED BY <3>1, <3>2
  <2>4. FindsDylinker'
    <3>1. mapPc' = "found" => Seen = {}
      <4> SUFFICES ASSUME kr' = "invalidAddress", NEW i \in Seen PROVE FALSE
        BY <2>1
      <4>1. at \in 1 .. Len(map) + 1 /\ at \notin 1 .. Len(map) /\ at <= i /\ i \in 1 .. Len(map)
        BY <1>1, <1>3, <2>2 DEF Seen, MapTypeOK
      <4> QED BY <1>1, <4>1
    <3> QED BY <1>3, <2>1, <3>1 DEF FindsDylinker, Seen
  <2>5. MapTypeOK'
    BY <1>1, <2>1, <2>2 DEF MapTypeOK
  <2>6. AtRegion' /\ SearchedSoFar' /\ BuffersFreed'
    BY <1>1, <1>2, <1>3, <2>1, <2>3 DEF AtRegion, SearchedSoFar, BuffersFreed
  <2> QED BY <1>1, <1>2, <2>4, <2>5, <2>6 DEF MapInv
<1>5. CASE FindCopy
  <2>1. /\ mapPc = "find" /\ QueryRegion /\ info'.readable /\ info'.large /\ Copies
        /\ buffers' = buffers + 1 /\ mapPc' = "findHeader"
        /\ UNCHANGED <<map, alive, at, found, caller, images, kept>>
    BY <1>5 DEF FindCopy
  <2>2. /\ info' \in Region /\ kr' \in {"success", "invalidTask", "invalidAddress"}
        /\ kr' = "success" => at \in DOMAIN map /\ info' = map[at]
    BY <2>1, QueryRegionTypes
  <2>3. kr' = "success" /\ map[at].copies
    BY <2>1 DEF Copies
  <2>4. MapTypeOK' /\ BuffersFreed'
    BY <1>1, <2>1, <2>2 DEF MapTypeOK, BuffersFreed
  <2>5. AtRegion' /\ SearchedSoFar'
    BY <1>2, <1>3, <2>1, <2>2, <2>3 DEF AtRegion, SearchedSoFar
  <2>6. FindsDylinker'
    BY <1>3, <2>1 DEF FindsDylinker
  <2> QED BY <1>1, <1>2, <2>4, <2>5, <2>6 DEF MapInv
<1>6. CASE FindMatch
  <2>1. /\ mapPc = "findHeader" /\ info.header = WantedType /\ found' = at
        /\ buffers' = buffers - 1 /\ mapPc' = "found"
        /\ UNCHANGED <<map, alive, at, info, kr, caller, images, kept>>
    BY <1>6 DEF FindMatch
  <2>2. at \in DOMAIN map /\ at \in Seen
    BY <1>1, <2>1 DEF AtRegion, Seen
  <2>3. buffers' = kept /\ buffers' \in Nat
    BY <1>1, <2>1 DEF MapTypeOK, BuffersFreed
  <2>4. MapTypeOK' /\ BuffersFreed'
    BY <1>1, <2>1, <2>2, <2>3 DEF MapTypeOK, BuffersFreed
  <2>5. AtRegion' /\ SearchedSoFar'
    BY <2>1 DEF AtRegion, SearchedSoFar
  <2>6. FindsDylinker'
    <3>1. found' # 0 /\ found' \in Seen /\ \A i \in Seen : found' <= i
      BY <1>1, <1>3, <2>1, <2>2
    <3> QED BY <1>2, <3>1 DEF FindsDylinker, Seen
  <2> QED BY <1>1, <1>2, <2>4, <2>5, <2>6 DEF MapInv
<1>7. CASE FindNext
  <2>1. /\ mapPc = "findHeader" /\ info.header # WantedType /\ at' = at + 1
        /\ buffers' = buffers - 1 /\ mapPc' = "find"
        /\ UNCHANGED <<map, alive, info, kr, found, caller, images, kept>>
    BY <1>7 DEF FindNext
  <2>2. at \in DOMAIN map /\ at \notin Seen
    BY <1>1, <2>1 DEF AtRegion, Seen
  <2>3. \A i \in Seen : i \in Nat /\ i # at
    BY <1>1, <2>2 DEF Seen
  <2>4. \A i \in Seen : at' <= i
    BY <1>3, <2>1, <2>3
  <2>5. buffers' = kept /\ buffers' \in Nat /\ at' \in 1 .. Len(map) + 1
    BY <1>1, <2>1, <2>2 DEF MapTypeOK, BuffersFreed
  <2>6. MapTypeOK' /\ BuffersFreed'
    BY <1>1, <2>1, <2>5 DEF MapTypeOK, BuffersFreed
  <2>7. AtRegion' /\ SearchedSoFar'
    BY <1>2, <1>3, <2>1, <2>4 DEF AtRegion, SearchedSoFar
  <2>8. FindsDylinker'
    BY <1>3, <2>1 DEF FindsDylinker
  <2> QED BY <1>1, <1>2, <2>6, <2>7, <2>8 DEF MapInv
<1> QED BY <1>4, <1>5, <1>6, <1>7

\* logMemoryState() step by step.
LEMMA LogKeepsInv ==
  ASSUME MapInv, LogEnds \/ LogSkip \/ LogCopy \/ LogHeader
  PROVE  MapInv'
<1>1. /\ map \in Seq(Region) /\ MapTypeOK /\ AtRegion /\ SearchedSoFar /\ BuffersFreed
      /\ FindsDylinker /\ Len(map) \in Nat /\ DOMAIN map = 1 .. Len(map)
  BY MapTypes DEF MapInv
<1>2. /\ map' = map /\ found' = found /\ alive' = alive /\ mapPc # "found"
      /\ mapPc' \in {"done", "log", "logHeader"}
  BY DEF LogEnds, LogSkip, LogCopy, LogHeader
<1>3. FindsDylinker' /\ SearchedSoFar'
  BY <1>2, SearchUndisturbed DEF SearchedSoFar
<1>4. CASE LogEnds \/ LogSkip \/ LogCopy
  <2>1. QueryRegion /\ mapPc = "log"
    BY <1>4 DEF LogEnds, LogSkip, LogCopy
  <2>2. /\ info' \in Region /\ kr' \in {"success", "invalidTask", "invalidAddress"}
        /\ kr' = "success" => at \in DOMAIN map /\ at + 1 \in 1 .. Len(map) + 1
    BY <2>1, QueryRegionTypes
  <2>3. at' \in 1 .. Len(map) + 1
    BY <1>1, <1>4, <2>2 DEF LogEnds, LogSkip, LogCopy, MapTypeOK
  <2>4. /\ buffers' = IF mapPc' = "logHeader" THEN buffers + 1 ELSE buffers
        /\ UNCHANGED <<caller, images, kept>>
    BY <1>4, <2>1 DEF LogEnds, LogSkip, LogCopy
  <2>5. MapTypeOK' /\ BuffersFreed'
    BY <1>1, <1>2, <2>1, <2>2, <2>3, <2>4 DEF MapTypeOK, BuffersFreed
  <2>6. AtRegion'
    BY <1>2, <1>4, <2>2 DEF AtRegion, LogEnds, LogSkip, LogCopy, Copies
  <2> QED BY <1>1, <1>2, <1>3, <2>5, <2>6 DEF MapInv
<1>5. CASE LogHeader
  <2>1. /\ mapPc = "logHeader" /\ mapPc' = "log" /\ buffers' = buffers - 1 /\ at' = at + 1
        /\ UNCHANGED <<info, kr, caller, images, kept>>
    BY <1>5 DEF LogHeader
  <2>2. at' \in 1 .. Len(map) + 1 /\ buffers' = kept /\ buffers' \in Nat
    BY <1>1, <2>1 DEF MapTypeOK, AtRegion, BuffersFreed
  <2>3. MapTypeOK' /\ BuffersFreed' /\ AtRegion'
    BY <1>1, <1>2, <2>1, <2>2 DEF MapTypeOK, BuffersFreed, AtRegion
  <2> QED BY <1>1, <1>2, <1>3, <2>3 DEF MapInv
<1> QED BY <1>4, <1>5

\* The callers of findAddress() count as kept whatever they copy.
LEMMA CallersKeepInv ==
  ASSUME MapInv,
         HooksReturn \/ NoImages \/ ReadInfos \/ ReadImage \/ ImagesEnd \/ ReadName
  PROVE  MapInv'
<1>1. /\ map \in Seq(Region) /\ MapTypeOK /\ AtRegion /\ SearchedSoFar /\ BuffersFreed
      /\ FindsDylinker /\ Len(map) \in Nat
  BY MapTypes DEF MapInv
<1>2. /\ map' = map /\ found' = found /\ alive' = alive /\ caller' = caller /\ kr' = kr
      /\ mapPc \in {"found", "images", "name"}
      /\ mapPc' \in {"done", "images", "name", "crashed", "log"}
  BY DEF HooksReturn, NoImages, ReadInfos, ReadImage, ImagesEnd, ReadName, LogBegins,
         DylinkerStateReturns, walkVars
<1>3. FindsDylinker' /\ SearchedSoFar'
  BY <1>2, SearchUndisturbed DEF SearchedSoFar
<1>4. \/ buffers' = buffers /\ kept' = kept
      \/ buffers' = buffers + 1 /\ kept' = kept + 1
  BY DEF HooksReturn, NoImages, ReadInfos, ReadImage, ImagesEnd, ReadName, Keep
<1>5. BuffersFreed' /\ buffers' \in Nat /\ kept' \in Nat
  BY <1>1, <1>2, <1>4 DEF BuffersFreed, MapTypeOK
<1>6. at' \in 1 .. Len(map) + 1 /\ info' \in Region
  BY <1>1 DEF HooksReturn, NoImages, ReadInfos, ReadImage, ImagesEnd, ReadName, LogBegins,
              DylinkerStateReturns, walkVars, MapTypeOK
<1>7. images' \in Nat /\ (mapPc' = "name" => images' > 0)
  <2>1. CASE ReadInfos
    BY <2>1, MapAssumption DEF ReadInfos
  <2>2. CASE ReadImage
    BY <1>1, <2>2 DEF ReadImage, MapTypeOK
  <2>3. CASE ReadName
    BY <1>1, <2>3 DEF ReadName, AtRegion, MapTypeOK
  <2>4. CASE HooksReturn \/ NoImages \/ ImagesEnd
    BY <1>1, <2>4 DEF HooksReturn, NoImages, ImagesEnd, DylinkerStateReturns, LogBegins, MapTypeOK
  <2> QED BY <2>1, <2>2, <2>3, <2>4
<1>8. MapTypeOK' /\ AtRegion'
  BY <1>1, <1>2, <1>5, <1>6, <1>7 DEF MapTypeOK, AtRegion
<1> QED BY <1>1, <1>2, <1>3, <1>5, <1>8 DEF MapInv

\* The invariant, in every state of every walk.
THEOREM MapInvariant == MapSpec => []MapInv
<1>1. MapInit => MapInv
  <2> SUFFICES ASSUME MapInit PROVE MapInv
    OBVIOUS
  <2>1. map = <<>> /\ map \in Seq(Region) /\ Len(map) = 0 /\ info \in Region
    BY MapAssumption DEF MapInit
  <2> QED BY <2>1 DEF MapInit, MapInv, MapTypeOK, AtRegion, SearchedSoFar, FindsDylinker, BuffersFreed
<1>2. MapInv /\ [MapNext]_mapVars => MapInv'
  <2> SUFFICES ASSUME MapInv, [MapNext]_mapVars PROVE MapInv'
    OBVIOUS
  <2>1. CASE Walk
    <3>1. /\ mapPc = "idle" /\ map' \in Seq(Region) /\ info' \in Region /\ mapPc' = "find"
          /\ caller' \in {"initializeDylinkerHooks", "onLibraryLoaded"}
          /\ at' = 1 /\ found' = 0 /\ UNCHANGED <<alive, kr, images, buffers, kept>>
      BY <2>1, MapAssumption DEF Walk
    <3>2. Len(map') \in Nat /\ DOMAIN map' = 1 .. Len(map')
      BY <3>1, LenProperties
    <3>3. \A i \in Seen' : at' <= i
      BY <3>1, <3>2 DEF Seen
    <3>4. MapTypeOK' /\ BuffersFreed'
      BY <3>1, <3>2 DEF MapInv, MapTypeOK, BuffersFreed
    <3> QED BY <3>1, <3>3, <3>4 DEF MapInv, AtRegion, SearchedSoFar, FindsDylinker
  <2>2. CASE FindSkip \/ FindCopy \/ FindMatch \/ FindNext
    BY <2>2, FindKeepsInv
  <2>3. CASE LogEnds \/ LogSkip \/ LogCopy \/ LogHeader
    BY <2>3, LogKeepsInv
  <2>4. CASE HooksReturn \/ NoImages \/ ReadInfos \/ ReadImage \/ ImagesEnd \/ ReadName
    BY <2>4, CallersKeepInv
  <2>5. CASE TaskDies
    BY <2>5 DEF TaskDies, walkVars, MapInv, MapTypeOK, AtRegion, SearchedSoFar, Seen, FindsDylinker,
                BuffersFreed
  <2>6. CASE UNCHANGED mapVars
    BY <2>6 DEF mapVars, walkVars, MapInv, MapTypeOK, AtRegion, SearchedSoFar, Seen, FindsDylinker,
                BuffersFreed
  <2> QED BY <2>1, <2>2, <2>3, <2>4, <2>5, <2>6 DEF MapNext, WalkNext
<1> QED BY <1>1, <1>2, PTL DEF MapSpec

\* The walks stay within the address space.
THEOREM MapTypesHold == MapSpec => []MapTypeOK
<1>1. MapInv => MapTypeOK
  BY DEF MapInv
<1> QED BY <1>1, MapInvariant, PTL

\* findAddress() returns the first region with the wanted header that can be seen, and 0
\* for a living task only when there is none, however long the address space is.
THEOREM MapFindsDylinker == MapSpec => []FindsDylinker
<1>1. MapInv => FindsDylinker
  BY DEF MapInv
<1> QED BY <1>1, MapInvariant, PTL

\* The walks free every copy of a region, however they end.
THEOREM MapBuffersFreed == MapSpec => []BuffersFreed
<1>1. MapInv => BuffersFreed
  BY DEF MapInv
<1> QED BY <1>1, MapInvariant, PTL

-----------------------------------------------------------------------------
(* The walks come to an end.                                               *)

\* What is left to do, as three numbers.
Stage(label) ==
  CASE label = "idle" -> 5 [] label \in {"find", "findHeader"} -> 4
    [] label = "found" -> 3 [] label \in {"images", "name"} -> 2
    [] label \in {"log", "logHeader"} -> 1 [] OTHER -> 0
ImagesLeft(label, n) == 2 * n + (IF label = "images" THEN 1 ELSE 0)
RegionsLeft(label, n) == 2 * n + (IF label \in {"find", "log"} THEN 1 ELSE 0)

LEMMA WorkIs ==
  /\ DOMAIN WalkWork = 1 .. 3
  /\ WalkWork[1] = Stage(mapPc)
  /\ WalkWork[2] = ImagesLeft(mapPc, images)
  /\ WalkWork[3] = RegionsLeft(mapPc, Len(map) + 1 - at)
  /\ WalkWork'[1] = Stage(mapPc')
  /\ WalkWork'[2] = ImagesLeft(mapPc', images')
  /\ WalkWork'[3] = RegionsLeft(mapPc', Len(map') + 1 - at')
BY DEF WalkWork, Stage, ImagesLeft, RegionsLeft

LEMMA WorkIsNatural ==
  ASSUME MapInv PROVE WalkWork \in [1 .. 3 -> Nat]
<1>1. MapTypeOK /\ Len(map) \in Nat
  BY MapTypes DEF MapInv
<1>2. images \in Nat /\ Len(map) + 1 - at \in Nat
  BY <1>1 DEF MapTypeOK
<1>3. 2 * images \in Nat /\ 2 * (Len(map) + 1 - at) \in Nat
  BY <1>2
<1>4. WalkWork[1] \in Nat /\ WalkWork[2] \in Nat /\ WalkWork[3] \in Nat
  BY <1>2, <1>3, WorkIs DEF Stage, ImagesLeft, RegionsLeft
<1> QED BY <1>4, WorkIs DEF WalkWork

\* A step to a later stage, past an image, or past a region.
LEMMA WorkFalls ==
  ASSUME \/ WalkWork'[1] < WalkWork[1]
         \/ WalkWork'[1] = WalkWork[1] /\ WalkWork'[2] < WalkWork[2]
         \/ WalkWork'[1] = WalkWork[1] /\ WalkWork'[2] = WalkWork[2] /\ WalkWork'[3] < WalkWork[3]
  PROVE  LessWork(WalkWork', WalkWork)
<1>1. DOMAIN WalkWork = 1 .. 3
  BY WorkIs
<1>2. CASE WalkWork'[1] < WalkWork[1]
  <2>1. 1 \in DOMAIN WalkWork /\ \A i \in 1 .. 1 - 1 : WalkWork'[i] = WalkWork[i]
    BY <1>1
  <2> QED BY <1>2, <2>1 DEF LessWork
<1>3. CASE WalkWork'[1] = WalkWork[1] /\ WalkWork'[2] < WalkWork[2]
  <2>1. 2 \in DOMAIN WalkWork /\ \A i \in 1 .. 2 - 1 : WalkWork'[i] = WalkWork[i]
    BY <1>1, <1>3
  <2> QED BY <1>3, <2>1 DEF LessWork
<1>4. CASE /\ WalkWork'[1] = WalkWork[1] /\ WalkWork'[2] = WalkWork[2]
           /\ WalkWork'[3] < WalkWork[3]
  <2>1. 3 \in DOMAIN WalkWork /\ \A i \in 1 .. 3 - 1 : WalkWork'[i] = WalkWork[i]
    BY <1>1, <1>4
  <2> QED BY <1>4, <2>1 DEF LessWork
<1> QED BY <1>2, <1>3, <1>4

LEMMA WalkStepFalls ==
  ASSUME MapInv, MapInv', WalkNext, alive PROVE LessWork(WalkWork', WalkWork)
<1>1. MapTypeOK /\ MapTypeOK' /\ Len(map) \in Nat /\ map' = map /\ at \in Nat /\ images \in Nat
  <2>1. Len(map) \in Nat
    BY MapTypes DEF MapInv
  <2>2. map' = map
    BY DEF WalkNext, FindSkip, FindCopy, FindMatch, FindNext, LogEnds, LogSkip, LogCopy,
           LogHeader, HooksReturn, NoImages, ReadInfos, ReadImage, ImagesEnd, ReadName
  <2> QED BY <2>1, <2>2 DEF MapInv, MapTypeOK
<1> USE <1>1, WorkIs DEF Stage, ImagesLeft, RegionsLeft
<1>2. ASSUME QueryRegion PROVE kr' = "success" \/ kr' = "invalidAddress"
  BY <1>2 DEF QueryRegion
<1>3. CASE FindSkip
  <2>1. /\ mapPc = "find" /\ kr' \in {"success", "invalidAddress"} /\ images' = images
        /\ at' = IF kr' = "success" THEN at + 1 ELSE at
        /\ mapPc' = IF kr' = "invalidAddress" THEN "found" ELSE "find"
    BY <1>2, <1>3 DEF FindSkip
  <2>2. CASE kr' = "invalidAddress"
    BY <2>1, <2>2, WorkFalls
  <2>3. CASE kr' = "success"
    BY <2>1, <2>3, WorkFalls
  <2> QED BY <2>1, <2>2, <2>3
<1>4. CASE FindCopy \/ LogCopy
  <2>1. /\ \/ mapPc = "find" /\ mapPc' = "findHeader"
           \/ mapPc = "log" /\ mapPc' = "logHeader"
        /\ at' = at /\ images' = images
    BY <1>4 DEF FindCopy, LogCopy
  <2> QED BY <2>1, WorkFalls
<1>5. CASE FindMatch \/ LogEnds
  <2>1. \/ mapPc = "findHeader" /\ mapPc' = "found"
        \/ mapPc = "log" /\ mapPc' = "done"
    BY <1>5 DEF FindMatch, LogEnds
  <2> QED BY <2>1, WorkFalls
<1>6. CASE FindNext \/ LogHeader
  <2>1. /\ \/ mapPc = "findHeader" /\ mapPc' = "find"
           \/ mapPc = "logHeader" /\ mapPc' = "log"
        /\ at' = at + 1 /\ images' = images
    BY <1>6 DEF FindNext, LogHeader
  <2> QED BY <2>1, WorkFalls
<1>7. CASE LogSkip
  <2>1. mapPc = "log" /\ mapPc' = "log" /\ at' = at + 1 /\ images' = images
    BY <1>2, <1>7 DEF LogSkip
  <2> QED BY <2>1, WorkFalls
<1>8. CASE HooksReturn \/ NoImages \/ ReadInfos \/ ImagesEnd
  <2>1. \/ mapPc = "found" /\ mapPc' \in {"done", "log", "images"}
        \/ mapPc = "images" /\ mapPc' = "log"
    BY <1>8 DEF HooksReturn, NoImages, ReadInfos, ImagesEnd, DylinkerStateReturns, LogBegins
  <2> QED BY <2>1, WorkFalls
<1>9. CASE ReadImage
  <2>1. mapPc = "images" /\ mapPc' = "name" /\ images' = images
    BY <1>9 DEF ReadImage
  <2> QED BY <2>1, WorkFalls
<1>10. CASE ReadName
  <2>1. mapPc = "name" /\ mapPc' \in {"images", "crashed"} /\ images' = images - 1
    BY <1>10 DEF ReadName
  <2> QED BY <2>1, WorkFalls
<1> QED BY <1>3, <1>4, <1>5, <1>6, <1>7, <1>8, <1>9, <1>10 DEF WalkNext

\* However long the address space is and however many images there are, each step of the
\* walks through a living debuggee leaves less to do.
THEOREM WalksMoveOn == MapSpec => [](WalkWork \in [1 .. 3 -> Nat]) /\ WalkMovesOn
<1>1. MapInv /\ MapInv' /\ [MapNext]_mapVars
        => [WalkNext /\ alive => LessWork(WalkWork', WalkWork)]_mapVars
  BY WalkStepFalls
<1> QED BY <1>1, WorkIsNatural, MapInvariant, PTL DEF MapSpec, WalkMovesOn
==============================================================================
