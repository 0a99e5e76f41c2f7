--------------------------- MODULE MDBBreakpoint ---------------------------
(***************************************************************************)
(* The breakpoints of the debugger and the memory of the debuggee that     *)
(* they patch (MDBBreakpoint.cpp; read, write, createBreakpoint and        *)
(* findBreakpoint of MDBDebugger.cpp).                                     *)
(*                                                                         *)
(* An enabled breakpoint overwrites one byte of the program with int 3 and *)
(* keeps the byte it replaced in `patch'.  MDBDebugger::read hides the     *)
(* patched bytes from its callers by laying the patches of the enabled     *)
(* breakpoints over what it fetched; enable() itself obtains the patch     *)
(* through that same read.  The list never shrinks and createBreakpoint    *)
(* does not look for an earlier breakpoint at the same address, so several *)
(* breakpoints may share an address.                                       *)
(*                                                                         *)
(* MDBDebugger.tla INSTANCEs this module for its memory and its list.      *)
(***************************************************************************)
EXTENDS Integers, Sequences

CONSTANTS
  AddressSpace,     \* addresses are 0 .. AddressSpace-1 (the width of eip)
  Byte,             \* the values a byte of memory may have
  INT3,             \* 0xCC
  Text,             \* Text[a]: the byte the program image has at address a
  Volatile,         \* addresses whose pages are mapped or unmapped at run time
  MaxBreakpoints    \* bound: at most this many breakpoints are created

Address == 0 .. AddressSpace - 1

ASSUME BreakpointAssumption ==
  /\ AddressSpace \in Nat \ {0}
  /\ INT3 \in Byte
  /\ Text \in [Address -> Byte]
  /\ Volatile \subseteq Address
  /\ MaxBreakpoints \in Nat

VARIABLES
  memory,       \* the debuggee's memory
  mapped,       \* the addresses at which a page is mapped
  breakpoints   \* MDBDebugger::breakpoints, in creation order

bpVars == <<memory, mapped, breakpoints>>

Breakpoint == [address : Address, patch : Byte, enabled : BOOLEAN]

Stable == Address \ Volatile

-----------------------------------------------------------------------------
(* MDBDebugger::read and MDBDebugger::write, one byte at a time.           *)

EnabledAt(a) ==
  {i \in DOMAIN breakpoints : breakpoints[i].address = a /\ breakpoints[i].enabled}

\* The loop of read() lets the patch of the last enabled breakpoint win.
LastEnabledAt(a) ==
  CHOOSE i \in EnabledAt(a) : \A j \in EnabledAt(a) : j <= i

\* Mutant: read() without the loop that lays the patches over the bytes.
ReadByte_NoOverlay(a, before) == IF a \in mapped THEN memory[a] ELSE before

\* The byte of the caller's buffer after read(): `before' is what the buffer
\* held, and still holds where the kernel could fetch nothing.
ReadByte(a, before) ==
  IF EnabledAt(a) # {} THEN breakpoints[LastEnabledAt(a)].patch
  ELSE IF a \in mapped THEN memory[a]
  ELSE before

\* The int that read() returns: the number of bytes, or -1.
ReadReturn(a) == IF a \in mapped THEN 1 ELSE -1

\* write() makes the page writable when the first attempt fails, and reaches
\* memory only where a page is mapped...
Written(a, byte) ==
  IF a \in mapped THEN [memory EXCEPT ![a] = byte] ELSE memory

\* ...but it returns its size argument either way.
WriteReturn == 1

-----------------------------------------------------------------------------
(* MDBBreakpoint.                                                          *)

\* The constructor leaves patch uninitialised.
NewBreakpoint(a, uninitialised) ==
  [address |-> a, patch |-> uninitialised, enabled |-> FALSE]

\* Mutant: the result of read() is taken for the byte.
Armed_PatchIsCount(b) ==
  [b EXCEPT !.patch = ReadReturn(b.address), !.enabled = TRUE]

\* enable(true) of a disabled breakpoint: C++ truth of  read(..) && write(..).
Armed(b) ==
  [b EXCEPT !.patch   = ReadByte(b.address, b.patch),
            !.enabled = ReadReturn(b.address) # 0 /\ WriteReturn # 0]

\* && short-circuits: the int 3 is written unless read() returned 0.
ArmedMemory(a) == IF ReadReturn(a) # 0 THEN Written(a, INT3) ELSE memory

\* enable(false) of an enabled one:  enabled = write(..) == false.
Disarmed(b) == [b EXCEPT !.enabled = (WriteReturn = 0)]

\* Mutants: enable() without the write of int 3, disable() without the write
\* of the patch.
EnableBreakpoint_NoWrite(i) ==
  /\ breakpoints' = [breakpoints EXCEPT ![i] = Armed(breakpoints[i])]
  /\ UNCHANGED memory

DisableBreakpoint_NoRestore(i) ==
  /\ breakpoints' = [breakpoints EXCEPT ![i].enabled = FALSE]
  /\ UNCHANGED memory

EnableBreakpoint(i) ==
  IF breakpoints[i].enabled
    THEN UNCHANGED <<memory, breakpoints>>
    ELSE /\ memory' = ArmedMemory(breakpoints[i].address)
         /\ breakpoints' = [breakpoints EXCEPT ![i] = Armed(breakpoints[i])]

DisableBreakpoint(i) ==
  IF breakpoints[i].enabled
    THEN /\ memory' = Written(breakpoints[i].address, breakpoints[i].patch)
         /\ breakpoints' = [breakpoints EXCEPT ![i] = Disarmed(breakpoints[i])]
    ELSE UNCHANGED <<memory, breakpoints>>

\* MDBDebugger::createBreakpoint.
CreateBreakpoint(a) ==
  /\ Len(breakpoints) < MaxBreakpoints
  /\ \E b \in Byte : breakpoints' = Append(breakpoints, NewBreakpoint(a, b))
  /\ UNCHANGED memory

\* createBreakpoint(a)->enable(true), as initializeDylinkerHooks, stepOver and
\* the test call it.
CreateEnabledBreakpoint(a) ==
  /\ Len(breakpoints) < MaxBreakpoints
  /\ \E b \in Byte :
       breakpoints' = Append(breakpoints, Armed(NewBreakpoint(a, b)))
  /\ memory' = ArmedMemory(a)

\* MDBDebugger::findBreakpoint(a) returns the breakpoint at index i: the first
\* of the list.  (It then searches transientBreakpoints, to which nothing adds.)
IsFound(i, a) ==
  /\ i \in DOMAIN breakpoints
  /\ breakpoints[i].address = a
  /\ \A j \in 1 .. i - 1 : breakpoints[j].address # a

\* findBreakpoint(a) returns an enabled breakpoint.
StopsAt(a) == \E i \in DOMAIN breakpoints : IsFound(i, a) /\ breakpoints[i].enabled

-----------------------------------------------------------------------------
(* The component on its own: a client that creates, enables and disables   *)
(* breakpoints in any order, and a debuggee that maps and unmaps libraries.*)

MapPage(a) ==
  /\ a \in Volatile \ mapped
  /\ mapped' = mapped \union {a}
  /\ memory' = [memory EXCEPT ![a] = Text[a]]
  /\ UNCHANGED breakpoints

UnmapPage(a) ==
  /\ a \in Volatile \intersect mapped
  /\ mapped' = mapped \ {a}
  /\ UNCHANGED <<memory, breakpoints>>

Init ==
  /\ memory = Text
  /\ mapped = Stable
  /\ breakpoints = <<>>

Next ==
  \/ \E a \in Address : CreateBreakpoint(a) /\ UNCHANGED mapped
  \/ \E a \in Address : CreateEnabledBreakpoint(a) /\ UNCHANGED mapped
  \/ \E i \in DOMAIN breakpoints : EnableBreakpoint(i) /\ UNCHANGED mapped
  \/ \E i \in DOMAIN breakpoints : DisableBreakpoint(i) /\ UNCHANGED mapped
  \/ \E a \in Volatile : MapPage(a)
  \/ \E a \in Volatile : UnmapPage(a)

Spec == Init /\ [][Next]_bpVars

-----------------------------------------------------------------------------
(* Properties.                                                             *)

\* Every variable holds a value of its type.
TypeOK ==
  /\ memory \in [Address -> Byte]
  /\ mapped \subseteq Address
  /\ breakpoints \in Seq(Breakpoint)

\* What enable() saved and disable() will write back is the program's own byte,
\* also when another breakpoint at the address was armed at the time.
PatchIsText ==
  \A i \in DOMAIN breakpoints :
    breakpoints[i].enabled /\ breakpoints[i].address \in Stable
      => breakpoints[i].patch = Text[breakpoints[i].address]

\* A byte that differs from the program image is an int 3 that some enabled
\* breakpoint answers for: whatever the order of enable and disable calls, no
\* int 3 is left behind and no program byte is lost.
NoOrphanedInt3 ==
  \A a \in Stable :
    memory[a] # Text[a] => memory[a] = INT3 /\ EnabledAt(a) # {}

\* Breakpoints are invisible to the debugger's own reads: the disassembler,
\* the stack walk and enable() itself see the program as it was loaded.
ReadsSeeProgram ==
  \A a \in Stable : \A before \in Byte : ReadByte(a, before) = Text[a]

\* A breakpoint that claims to be enabled does stop the program, provided no
\* other breakpoint shares its address.
EnabledIsArmed ==
  \A i \in DOMAIN breakpoints :
    LET a == breakpoints[i].address IN
    (/\ breakpoints[i].enabled
     /\ a \in Stable
     /\ \A j \in DOMAIN breakpoints : breakpoints[j].address = a => j = i)
      => memory[a] = INT3
=============================================================================
