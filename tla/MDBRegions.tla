------------------------------ MODULE MDBRegions ------------------------------
(***************************************************************************)
(* Finding procedures in machine code: MDBCode::scanProcedure(), the       *)
(* regions it makes, and MDBCodeRegion::getOffset(), contains() and        *)
(* MDBCode::getRegion().  At this commit nothing calls scanProcedure();    *)
(* the stack walk calls getRegion().                                       *)
(*                                                                         *)
(* The disassembler (udis86) is external: an instruction has a length, an  *)
(* operation, and for a direct near call the target.  A read that fails is *)
(* logged, and the buffer on the stack is disassembled as it is.           *)
(***************************************************************************)
EXTENDS Integers, Sequences, Lexicographic

CONSTANTS
  Codes,       \* the programs considered: [address -> instruction]
  Readables,   \* from which addresses BufferSize bytes can be read
  Leftovers,   \* what the buffer may hold when nothing was read into it
  BufferSize,  \* bytes that are disassembled at most; 8K in the code
  MaxCalls     \* calls of scanProcedure() for which the C stack has room

\* What is disassembled has bytes; "bad" is what is not.
Operation ==
  {o \in [op : {"ret", "call", "other", "bad"}, size : Nat, target : Nat] :
     o.op # "bad" => o.size > 0}

\* The instruction that begins at each offset of the buffer of scanProcedure().
Buffer == [0 .. BufferSize - 1 -> Operation]

ASSUME RegionsAssumption ==
  /\ BufferSize \in Nat
  /\ MaxCalls \in Nat \ {0}
  /\ \A c \in Codes : DOMAIN c \subseteq Nat /\ \A a \in DOMAIN c : c[a] \in Operation
  /\ Leftovers \subseteq Buffer

VARIABLES
  code,
  readable, \* the addresses from which debugger->read() fills the buffer
  regions,  \* MDBCode::regions, in the order of their discovery
  scans,    \* the active calls of scanProcedure()
  overflow  \* the C stack is exhausted

regionsVars == <<code, readable, regions, scans, overflow>>

-----------------------------------------------------------------------------
(* MDBCodeRegion and getRegion().                                          *)

\* Mutant: the start is outside.
GetOffset_Strict(r, a) ==
  IF a - r.address > r.size \/ a = r.address THEN -1 ELSE a - r.address

\* The address just past the region passes.
GetOffset(r, a) == IF a - r.address > r.size THEN -1 ELSE a - r.address

Contains(r, a) == GetOffset(r, a) >= 0

\* getRegion(a) # NULL
HasRegion(a) == \E i \in DOMAIN regions : Contains(regions[i], a)

-----------------------------------------------------------------------------
(* scanProcedure().                                                        *)

\* The code from address a on; what is not in `code' is some other instruction.
Block(a) ==
  [pc \in 0 .. BufferSize - 1 |->
     IF a + pc \in DOMAIN code THEN code[a + pc] ELSE [op |-> "other", size |-> 1, target |-> 0]]

\* What debugger->read() may leave in the buffer: it is all read, or nothing is.
Buffers(a) == IF a \in readable THEN {Block(a)} ELSE Leftovers

\* ud_disassemble at offset `pc' of the buffer.  What its end cuts off is no instruction.
Instruction(buffer, pc) ==
  IF buffer[pc].size > BufferSize - pc
    THEN [op |-> "other", size |-> BufferSize - pc, target |-> 0] ELSE buffer[pc]

NewCall(a, b) ==
  [address |-> a, buffer |-> b, pc |-> 0, decoding |-> TRUE, targets |-> <<>>, next |-> 1]

TopScan == scans[Len(scans)]
SetTop(c) == scans' = [scans EXCEPT ![Len(scans)] = c]

\* The first call: no region exists yet.  One program in a behaviour.
Scan ==
  /\ code = <<>>
  /\ code' \in Codes /\ readable' \in Readables
  /\ \E a \in DOMAIN code' : \E b \in Buffers(a)' : scans' = <<NewCall(a, b)>>
  /\ UNCHANGED <<regions, overflow>>

Decoding == scans # <<>> /\ ~ overflow /\ TopScan.decoding
Insn == Instruction(TopScan.buffer, TopScan.pc)

\* Mutant: the decoder does not move on.
DecodeOther_Stuck ==
  /\ Decoding /\ TopScan.pc < BufferSize
  /\ Insn.op = "other"
  /\ UNCHANGED regionsVars

DecodeOther ==
  /\ Decoding /\ TopScan.pc < BufferSize
  /\ Insn.op = "other"
  /\ SetTop([TopScan EXCEPT !.pc = @ + Insn.size])
  /\ UNCHANGED <<code, readable, regions, overflow>>

\* Mutant: only the last target is kept.
DecodeCall_KeepsLast ==
  /\ Decoding /\ TopScan.pc < BufferSize
  /\ Insn.op = "call"
  /\ SetTop([TopScan EXCEPT !.pc = @ + Insn.size,
               !.targets = IF Insn.target = 0 THEN @ ELSE <<Insn.target>>])
  /\ UNCHANGED <<code, readable, regions, overflow>>

\* An indirect call has no target, and a target is listed once.
DecodeCall ==
  /\ Decoding /\ TopScan.pc < BufferSize
  /\ Insn.op = "call"
  /\ SetTop([TopScan EXCEPT !.pc = @ + Insn.size,
               !.targets = IF \/ Insn.target = 0
                              \/ \E i \in DOMAIN @ : @[i] = Insn.target
                             THEN @ ELSE Append(@, Insn.target)])
  /\ UNCHANGED <<code, readable, regions, overflow>>

\* Mutant: the region ends before the ret.
DecodeRet_Short ==
  /\ Decoding /\ TopScan.pc < BufferSize
  /\ Insn.op = "ret"
  /\ regions' = Append(regions, [address |-> TopScan.address, size |-> TopScan.pc])
  /\ SetTop([TopScan EXCEPT !.pc = @ + Insn.size, !.decoding = FALSE])
  /\ UNCHANGED <<code, readable, overflow>>

\* The first ret ends the procedure.
DecodeRet ==
  /\ Decoding /\ TopScan.pc < BufferSize
  /\ Insn.op = "ret"
  /\ regions' = Append(regions, [address |-> TopScan.address, size |-> TopScan.pc + Insn.size])
  /\ SetTop([TopScan EXCEPT !.pc = @ + Insn.size, !.decoding = FALSE])
  /\ UNCHANGED <<code, readable, overflow>>

\* The end of the buffer, or insnSize = 0: no region is made, and the targets found
\* so far are scanned all the same.
DecodeStops ==
  /\ Decoding
  /\ TopScan.pc < BufferSize => Insn.op = "bad"
  /\ SetTop([TopScan EXCEPT !.decoding = FALSE])
  /\ UNCHANGED <<code, readable, regions, overflow>>

Scanning == scans # <<>> /\ ~ overflow /\ ~ TopScan.decoding /\ TopScan.next \in DOMAIN TopScan.targets
Target == TopScan.targets[TopScan.next]

\* A region already exists.
SkipTarget ==
  /\ Scanning /\ HasRegion(Target)
  /\ SetTop([TopScan EXCEPT !.next = @ + 1])
  /\ UNCHANGED <<code, readable, regions, overflow>>

\* Mutant: the loop gets past a target only when it has a region.
ScanTarget_Again ==
  /\ Scanning /\ ~ HasRegion(Target)
  /\ IF Len(scans) = MaxCalls
       THEN overflow' = TRUE /\ UNCHANGED scans
       ELSE /\ \E b \in Buffers(Target) : scans' = Append(scans, NewCall(Target, b))
            /\ UNCHANGED overflow
  /\ UNCHANGED <<code, readable, regions>>

\* The recursive call.
ScanTarget ==
  /\ Scanning /\ ~ HasRegion(Target)
  /\ IF Len(scans) = MaxCalls
       THEN overflow' = TRUE /\ UNCHANGED scans
       ELSE /\ \E b \in Buffers(Target) :
                 scans' = Append([scans EXCEPT ![Len(scans)].next = @ + 1], NewCall(Target, b))
            /\ UNCHANGED overflow
  /\ UNCHANGED <<code, readable, regions>>

ScanReturns ==
  /\ scans # <<>> /\ ~ overflow /\ ~ TopScan.decoding /\ ~ Scanning
  /\ scans' = SubSeq(scans, 1, Len(scans) - 1)
  /\ UNCHANGED <<code, readable, regions, overflow>>

-----------------------------------------------------------------------------
RegionsInit ==
  /\ code = <<>> /\ readable = {}
  /\ regions = <<>> /\ scans = <<>> /\ overflow = FALSE

ScanNext ==
  \/ DecodeOther \/ DecodeCall \/ DecodeRet \/ DecodeStops
  \/ SkipTarget \/ ScanTarget \/ ScanReturns
RegionsNext == Scan \/ ScanNext

RegionsSpec == RegionsInit /\ [][RegionsNext]_regionsVars

-----------------------------------------------------------------------------
(* Properties.  What a procedure is, by definition: straight-line code from *)
(* the beginning of a buffer to the first ret.                             *)

\* Its size, as found from each of its offsets; 0 when it has no ret within reach.
ProcedureEnd(b) ==
  LET end[pc \in 0 .. BufferSize] ==
        LET insn == Instruction(b, pc)
        IN IF pc = BufferSize \/ insn.op = "bad" THEN 0
           ELSE IF insn.op = "ret" THEN pc + insn.size
           ELSE end[pc + insn.size]
  IN end

ProcedureSize(b) == ProcedureEnd(b)[0]

\* The addresses it calls, from each of its offsets on.
CalledFrom(b) ==
  LET from[pc \in 0 .. BufferSize] ==
        LET insn == Instruction(b, pc)
        IN IF pc = BufferSize \/ insn.op \in {"bad", "ret"} THEN {}
           ELSE from[pc + insn.size]
                  \union (IF insn.op = "call" THEN {insn.target} \ {0} ELSE {})
  IN from

Callees(b) == CalledFrom(b)[0]

RegionsTypeOK ==
  /\ \A i \in DOMAIN regions : regions[i].address \in Nat /\ regions[i].size \in Nat \ {0}
  /\ \A i \in DOMAIN scans : scans[i].pc \in 0 .. BufferSize
  /\ overflow \in BOOLEAN

\* The regions that scanProcedure() appends: an address has at most one, and it ends with
\* the first ret of the code that is there; only where the code could not be read it ends
\* with the first ret of whatever was left in the buffer.
RegionIsProcedure ==
  \A i \in DOMAIN regions :
    /\ \E b \in Buffers(regions[i].address) : regions[i].size = ProcedureSize(b)
    /\ \A j \in DOMAIN regions : regions[i].address = regions[j].address => i = j

\* The loop over the call targets: once the scan is over, what a procedure with a region
\* calls directly, if it has a ret at all, lies in a region or begins where one ends.  Only
\* the former is as it should be; in the latter case getRegion() took the callee for
\* scanned, and it has no region of its own (see OutsideIsNegative).  Of code that could
\* not be read nothing is said.
TargetsFound ==
  scans = <<>> =>
    \A i \in DOMAIN regions : regions[i].address \in readable =>
      \A a \in Callees(Block(regions[i].address)) \intersect readable :
        ProcedureSize(Block(a)) # 0 =>
          \E j \in DOMAIN regions : a \in regions[j].address .. regions[j].address + regions[j].size

\* The recursion: a procedure is scanned again inside of its own scan only if no ret was
\* found in the outer one.  So the C stack, with a buffer in every frame, is exhausted by a
\* chain of calls through as many procedures as it has frames, or by one without a ret.
RescanNeedsEndless ==
  \A i, j \in DOMAIN scans :
    i < j /\ scans[i].address = scans[j].address => ProcedureSize(scans[i].buffer) = 0

\* What is left to do for the calls of scanProcedure(), outermost first: two units for a
\* byte that is not decoded, since it may be a call, and one for a target that is not
\* visited; and at the end the overflow, if it has not happened.
WorkLeft(c) ==
  IF c.decoding THEN 2 * (BufferSize - c.pc) + Len(c.targets) + 3 ELSE Len(c.targets) + 2 - c.next
ScanWork ==
  [i \in 1 .. MaxCalls + 1 |->
     IF i = MaxCalls + 1 THEN IF overflow THEN 0 ELSE 1
     ELSE IF i \in DOMAIN scans THEN WorkLeft(scans[i]) ELSE 0]

\* Every step of scanProcedure() leaves less to do, also for procedures that have no ret
\* and are scanned again and again.
ScanMovesOn == [][ScanNext => LessWork(ScanWork', ScanWork)]_regionsVars

\* The scan comes to an end, or out of stack.
ScanEnds == (scans # <<>>) ~> (scans = <<>> \/ overflow)

\* The comment above getOffset(): an address outside of a region has a negative offset.
OutsideIsNegative ==
  \A i \in DOMAIN regions : \A a \in DOMAIN code :
    a \notin regions[i].address .. regions[i].address + regions[i].size - 1
      => GetOffset(regions[i], a) < 0
=============================================================================
