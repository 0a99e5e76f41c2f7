------------------------------- MODULE MDBStack -------------------------------
(***************************************************************************)
(* The backtrace of a stopped thread: MDBStack::updateState().  It follows *)
(* the saved frame pointers that it finds in the debuggee's memory, which  *)
(* may hold anything: cycles, and addresses that cannot be read.           *)
(***************************************************************************)
EXTENDS Integers, Sequences

CONSTANTS
  Memories,  \* the memories considered: [readable addresses of words -> word]
  Pointers,  \* the values of ebp considered
  CodeWord,  \* the values of eip and of saved code addresses considered
  MaxFrames  \* 64 in the code

ASSUME StackAssumption ==
  /\ MaxFrames \in Nat
  /\ Pointers \subseteq Int /\ CodeWord \subseteq Int
  /\ \A m \in Memories : \A a \in DOMAIN m : m[a] \in Int

VARIABLES
  memory, ebp, eip,                        \* of the debuggee
  stackPc,
  frameAddress, codeAddress, frameSize,    \* locals of updateState()
  frames,  \* MDBStack::frames; `parent' is the index of a frame, or 0 for NULL
  frame    \* MDBStack::frame, an index or 0

stackVars == <<memory, ebp, eip, stackPc, frameAddress, codeAddress, frameSize, frames, frame>>

MaxStackSize == 64 * 1024

\* MDBDebugger::read() of a word: when it fails, the destination keeps its value.
ReadWord(a, old) == IF a \in DOMAIN memory THEN memory[a] ELSE old

\* No address satisfies it: the sum does not wrap in 64 bits.
IsInteriorPointer(a) == a >= ebp + MaxStackSize /\ a <= ebp

\* Mutant: the list keeps the frames of the last time.
UpdateState_NoClear ==
  /\ stackPc = "idle"
  /\ memory' \in Memories /\ ebp' \in Pointers /\ eip' \in CodeWord
  /\ frameAddress' = ebp' /\ codeAddress' = eip' /\ frameSize' = 128
  /\ stackPc' = "walk"
  /\ UNCHANGED <<frames, frame>>

\* The thread has stopped somewhere, and the client asks for its stack.
UpdateState ==
  /\ stackPc = "idle"
  /\ memory' \in Memories /\ ebp' \in Pointers /\ eip' \in CodeWord
  /\ frameAddress' = ebp' /\ codeAddress' = eip' /\ frameSize' = 128
  /\ frames' = <<>>
  /\ stackPc' = "walk"
  /\ UNCHANGED frame

\* Mutant: the cut-off is missing.
WalkFrame_NoLimit ==
  LET first == ReadWord(frameAddress, 0)
      offset == IF IsInteriorPointer(first) THEN 0 ELSE 12
      previous == IF offset = 12 THEN ReadWord(frameAddress + 12, first) ELSE first
  IN
  /\ stackPc = "walk" /\ frameAddress # 0
  /\ frames' = Append(frames, [address |-> frameAddress, code |-> codeAddress,
                               size |-> frameSize, parent |-> 0])
  /\ codeAddress' = ReadWord(frameAddress + offset + 4, codeAddress)
  /\ frameSize' = IF previous - frameAddress \in 0 .. 256
                    THEN previous - frameAddress ELSE 256
  /\ frameAddress' = previous
  /\ UNCHANGED <<memory, ebp, eip, stackPc, frame>>

\* One round of the loop.  The size is unsigned: a negative one is large, and cut.
WalkFrame ==
  LET first == ReadWord(frameAddress, 0)
      offset == IF IsInteriorPointer(first) THEN 0 ELSE 12
      previous == IF offset = 12 THEN ReadWord(frameAddress + 12, first) ELSE first
  IN
  /\ stackPc = "walk" /\ frameAddress # 0
  /\ frames' = Append(frames, [address |-> frameAddress, code |-> codeAddress,
                               size |-> frameSize, parent |-> 0])
  /\ codeAddress' = ReadWord(frameAddress + offset + 4, codeAddress)
  /\ frameSize' = IF previous - frameAddress \in 0 .. 256
                    THEN previous - frameAddress ELSE 256
  /\ frameAddress' = previous
  /\ stackPc' = IF Len(frames') > MaxFrames THEN "link" ELSE stackPc
  /\ UNCHANGED <<memory, ebp, eip, frame>>

WalkDone ==
  /\ stackPc = "walk" /\ frameAddress = 0
  /\ stackPc' = "link"
  /\ UNCHANGED <<memory, ebp, eip, frameAddress, codeAddress, frameSize, frames, frame>>

\* The loop that links the frames.
LinkFrames ==
  /\ stackPc = "link"
  /\ frames' = [i \in DOMAIN frames |->
       [frames[i] EXCEPT !.parent = IF i < Len(frames) THEN i + 1 ELSE @]]
  /\ frame' = IF frames = <<>> THEN 0 ELSE 1
  /\ stackPc' = "idle"
  /\ UNCHANGED <<memory, ebp, eip, frameAddress, codeAddress, frameSize>>

-----------------------------------------------------------------------------
StackInit ==
  /\ memory = <<>> /\ ebp = 0 /\ eip = 0 /\ stackPc = "idle"
  /\ frameAddress = 0 /\ codeAddress = 0 /\ frameSize = 128
  /\ frames = <<>> /\ frame = 0

FramesNext == WalkFrame \/ WalkDone \/ LinkFrames
StackNext == UpdateState \/ FramesNext

StackSpec == StackInit /\ [][StackNext]_stackVars

-----------------------------------------------------------------------------
(* Properties.                                                             *)

StackTypeOK ==
  /\ stackPc \in {"idle", "walk", "link"}
  /\ frameSize \in 0 .. 256
  /\ \A i \in DOMAIN frames : frames[i].size \in 0 .. 256
                              /\ frames[i].parent \in 0 .. Len(frames)
  /\ frame \in 0 .. 1

\* The frame that the code takes for the caller's: the word at +12, failing that the
\* word at the frame itself, failing that none.
Caller(a) == ReadWord(a + 12, ReadWord(a, 0))

\* The backtrace is the chain of saved frame pointers from ebp on: nothing is left of
\* an earlier one, parents lead through all of it and out at its end, each frame has
\* the code address that its callee saved, and it is whole unless it was cut off.
BacktraceIsChain ==
  stackPc = "idle" =>
    LET last == Len(frames)
    IN
    /\ (frame = 0) = (ebp = 0) /\ (frame = 0) = (frames = <<>>)
    /\ \A i \in DOMAIN frames :
         /\ frames[i].address =
              IF i = 1 THEN ebp ELSE Caller(frames[i - 1].address)
         /\ frames[i].code =
              IF i = 1 THEN eip
                       ELSE ReadWord(frames[i - 1].address + 16, frames[i - 1].code)
         /\ frames[i].parent = IF i < last THEN i + 1 ELSE 0
         /\ i = last => Caller(frames[i].address) = 0 \/ last = MaxFrames + 1

\* A cycle of frame pointers does not make the backtrace grow without end.
FramesBounded == Len(frames) <= MaxFrames + 1
=============================================================================
