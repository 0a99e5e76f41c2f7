----------------------------- MODULE MDBMemoryMap -----------------------------
(***************************************************************************)
(* Walking the debuggee's address space region by region:                  *)
(* MDBProcess::findAddress(), which looks for dyld, and logMemoryState().  *)
(* Both copy each region into the debugger with MDBProcess::read(), look   *)
(* at the Mach header there, and give the copy back with free().  Around   *)
(* them their callers, initializeDylinkerHooks() and onLibraryLoaded() with *)
(* logDylinkerState(), which copy dyld's list of images.  That the former  *)
(* sets a breakpoint is MDBDebugger's DylinkerHooks.                       *)
(* All of it is reached in the branch for 32-bit processes only.           *)
(*                                                                         *)
(* Addresses are counted in regions: `at' = i is an address from which     *)
(* mach_vm_region() finds the i-th.  Both callers of findAddress() pass    *)
(* NULL for imageName, so the names are never compared.                    *)
(***************************************************************************)
EXTENDS Naturals, Sequences, Lexicographic

CONSTANTS
  Region,      \* [readable, large, shared, copies : BOOLEAN, header : type of the Mach image or "none"]
  Maps,        \* the address spaces considered: sequences of regions
  WantedType,  \* MH_DYLINKER
  Images       \* the numbers of images that dyld may have listed

ASSUME MapAssumption == Region # {} /\ Maps \subseteq Seq(Region) /\ Images \subseteq Nat

VARIABLES
  map,
  alive,    \* the task exists
  mapPc,
  at,       \* address
  info,     \* what mach_vm_region filled in last
  kr,       \* its result
  found,    \* foundAddress
  caller,   \* "initializeDylinkerHooks" or "onLibraryLoaded"
  images,   \* images that logDylinkerState() has not yet come to
  buffers,  \* copies in the debugger that have not been freed
  kept      \* history: how many of them were copied by the callers

walkVars == <<at, info, kr, found>>
mapVars == <<map, alive, mapPc, walkVars, caller, images, buffers, kept>>

\* mach_vm_region(): when it fails, it leaves address, size and info alone.
QueryRegion ==
  /\ kr' = IF ~ alive THEN "invalidTask"
           ELSE IF at \in DOMAIN map THEN "success" ELSE "invalidAddress"
  /\ info' = IF kr' = "success" THEN map[at] ELSE info

\* MDBProcess::read() of the region just reported.
Copies == kr' = "success" /\ map[at].copies

-----------------------------------------------------------------------------
(* findAddress().                                                          *)

\* Mutant: `continue' without address += size.
FindSkip_Stays ==
  /\ mapPc = "find"
  /\ QueryRegion
  /\ ~ (info'.readable /\ info'.large /\ Copies)
  /\ mapPc' = IF kr' = "invalidAddress" THEN "found" ELSE mapPc
  /\ UNCHANGED <<map, alive, at, found, caller, images, buffers, kept>>

\* A region that is not readable, too small for a header, or cannot be copied.  The
\* loop ends only when there is no region from here on.
FindSkip ==
  /\ mapPc = "find"
  /\ QueryRegion
  /\ ~ (info'.readable /\ info'.large /\ Copies)
  /\ at' = IF kr' = "success" THEN at + 1 ELSE at
  /\ mapPc' = IF kr' = "invalidAddress" THEN "found" ELSE mapPc
  /\ UNCHANGED <<map, alive, found, caller, images, buffers, kept>>

FindCopy ==
  /\ mapPc = "find"
  /\ QueryRegion
  /\ info'.readable /\ info'.large /\ Copies
  /\ buffers' = buffers + 1
  /\ mapPc' = "findHeader"
  /\ UNCHANGED <<map, alive, at, found, caller, images, kept>>

FindMatch ==
  /\ mapPc = "findHeader" /\ info.header = WantedType
  /\ found' = at
  /\ buffers' = buffers - 1
  /\ mapPc' = "found"
  /\ UNCHANGED <<map, alive, at, info, kr, caller, images, kept>>

\* Mutants: the copy is freed on a match only; the search ends at any image.
FindNext_NoFree ==
  /\ mapPc = "findHeader" /\ info.header # WantedType
  /\ at' = at + 1
  /\ mapPc' = "find"
  /\ UNCHANGED <<map, alive, info, kr, found, caller, images, buffers, kept>>

FindNext_AnyImage ==
  /\ mapPc = "findHeader" /\ info.header # WantedType
  /\ buffers' = buffers - 1
  /\ at' = at + 1
  /\ mapPc' = IF info.header = "none" THEN "find" ELSE "found"
  /\ UNCHANGED <<map, alive, info, kr, found, caller, images, kept>>

FindNext ==
  /\ mapPc = "findHeader" /\ info.header # WantedType
  /\ buffers' = buffers - 1
  /\ at' = at + 1
  /\ mapPc' = "find"
  /\ UNCHANGED <<map, alive, info, kr, found, caller, images, kept>>

-----------------------------------------------------------------------------
(* logMemoryState().                                                       *)

\* Its locals begin uninitialised.
LogBegins == mapPc' = "log" /\ at' = 1 /\ info' \in Region

LogEnds ==
  /\ mapPc = "log"
  /\ QueryRegion
  /\ kr' = "invalidAddress"
  /\ mapPc' = "done"
  /\ UNCHANGED <<map, alive, at, found, caller, images, buffers, kept>>

LogSkip ==
  /\ mapPc = "log"
  /\ QueryRegion
  /\ kr' # "invalidAddress"
  /\ ~ (info'.readable /\ info'.large /\ ~ info'.shared /\ Copies)
  /\ at' = IF kr' = "success" THEN at + 1 ELSE at
  /\ UNCHANGED <<map, alive, mapPc, found, caller, images, buffers, kept>>

LogCopy ==
  /\ mapPc = "log"
  /\ QueryRegion
  /\ info'.readable /\ info'.large /\ ~ info'.shared /\ Copies
  /\ buffers' = buffers + 1
  /\ mapPc' = "logHeader"
  /\ UNCHANGED <<map, alive, at, found, caller, images, kept>>

LogHeader ==
  /\ mapPc = "logHeader"
  /\ buffers' = buffers - 1
  /\ at' = at + 1
  /\ mapPc' = "log"
  /\ UNCHANGED <<map, alive, info, kr, found, caller, images, kept>>

-----------------------------------------------------------------------------
(* logDylinkerState() and initializeDylinkerHooks() after findAddress().   *)
(* Any of their reads may fail; what they have read they never free.       *)

Keep == alive /\ buffers' = buffers + 1 /\ kept' = kept + 1

\* Back in onLibraryLoaded(), which goes on with logMemoryState().
DylinkerStateReturns == LogBegins /\ UNCHANGED <<kr, found>>

\* initializeDylinkerHooks(), whether it finds dyld or not.
HooksReturn ==
  /\ mapPc = "found" /\ caller = "initializeDylinkerHooks"
  /\ \/ found # 0 /\ Keep
     \/ UNCHANGED <<buffers, kept>>
  /\ mapPc' = "done"
  /\ UNCHANGED <<map, alive, walkVars, caller, images>>

\* logDylinkerState(): no dyld, or no list of images.
NoImages ==
  /\ mapPc = "found" /\ caller = "onLibraryLoaded"
  /\ DylinkerStateReturns
  /\ UNCHANGED <<map, alive, caller, images, buffers, kept>>

ReadInfos ==
  /\ mapPc = "found" /\ caller = "onLibraryLoaded" /\ found # 0
  /\ Keep
  /\ images' \in Images
  /\ mapPc' = "images"
  /\ UNCHANGED <<map, alive, walkVars, caller>>

ReadImage ==
  /\ mapPc = "images" /\ images > 0
  /\ Keep
  /\ mapPc' = "name"
  /\ UNCHANGED <<map, alive, walkVars, caller, images>>

\* The loop is over, or an image cannot be read.
ImagesEnd ==
  /\ mapPc = "images"
  /\ DylinkerStateReturns
  /\ UNCHANGED <<map, alive, caller, images, buffers, kept>>

\* When the name cannot be read, what is printed as a string is an uninitialised
\* pointer: anything, or the end of the debugger.
ReadName ==
  /\ mapPc = "name"
  /\ \/ Keep /\ mapPc' = "images"
     \/ UNCHANGED <<buffers, kept>> /\ mapPc' \in {"images", "crashed"}
  /\ images' = images - 1
  /\ UNCHANGED <<map, alive, walkVars, caller>>

-----------------------------------------------------------------------------
\* The hooks are initialised, or the breakpoint at dyld's notification is reached.
\* The address space is what it is: the debuggee stands still.
Walk ==
  /\ mapPc = "idle"
  /\ map' \in Maps /\ info' \in Region /\ mapPc' = "find"
  /\ caller' \in {"initializeDylinkerHooks", "onLibraryLoaded"}
  /\ at' = 1 /\ found' = 0
  /\ UNCHANGED <<alive, kr, images, buffers, kept>>

\* But it can be killed.
TaskDies ==
  /\ mapPc # "idle" /\ alive
  /\ alive' = FALSE
  /\ UNCHANGED <<map, mapPc, walkVars, caller, images, buffers, kept>>

MapInit ==
  /\ map = <<>> /\ alive = TRUE /\ mapPc = "idle" /\ at = 1
  /\ info = (CHOOSE r \in Region : TRUE) /\ kr = "success" /\ found = 0
  /\ caller = "none" /\ images = 0 /\ buffers = 0 /\ kept = 0

WalkNext ==
  \/ FindSkip \/ FindCopy \/ FindMatch \/ FindNext
  \/ LogEnds \/ LogSkip \/ LogCopy \/ LogHeader
  \/ HooksReturn \/ NoImages \/ ReadInfos \/ ReadImage \/ ImagesEnd \/ ReadName
MapNext == Walk \/ WalkNext \/ TaskDies

MapSpec == MapInit /\ [][MapNext]_mapVars

-----------------------------------------------------------------------------
(* Properties.                                                             *)

MapTypeOK ==
  /\ alive \in BOOLEAN
  /\ mapPc \in {"idle", "find", "findHeader", "found", "images", "name",
             "log", "logHeader", "done", "crashed"}
  /\ at \in 1 .. Len(map) + 1
  /\ info \in Region
  /\ kr \in {"success", "invalidTask", "invalidAddress"}
  /\ found \in 0 .. Len(map)
  /\ caller \in {"none", "initializeDylinkerHooks", "onLibraryLoaded"}
  /\ images \in Nat /\ buffers \in Nat /\ kept \in Nat

\* findAddress() of a living task returns the first region with a dyld header that can
\* be seen at all, and 0 only when there is none: other images, small regions and
\* unreadable ones before it do not end the search.
FindsDylinker ==
  LET seen == {i \in DOMAIN map : /\ map[i].readable /\ map[i].large /\ map[i].copies
                                  /\ map[i].header = WantedType}
  IN
  /\ found # 0 => found \in seen /\ \A i \in seen : found <= i
  /\ mapPc = "found" /\ alive /\ found = 0 => seen = {}

\* A walk holds the copy of one region at a time and frees every one, however it ends,
\* also when the debuggee dies during it: all that is left over is what
\* initializeDylinkerHooks() and logDylinkerState() have copied.
BuffersFreed ==
  buffers = kept + (IF mapPc \in {"findHeader", "logHeader"} THEN 1 ELSE 0)

\* What is left to do in a walk: its stages, images to be read, regions to be visited.
WalkWork ==
  LET stage == CASE mapPc = "idle" -> 5 [] mapPc \in {"find", "findHeader"} -> 4
                 [] mapPc = "found" -> 3 [] mapPc \in {"images", "name"} -> 2
                 [] mapPc \in {"log", "logHeader"} -> 1 [] OTHER -> 0
  IN <<stage,
       2 * images + (IF mapPc = "images" THEN 1 ELSE 0),
       2 * (Len(map) + 1 - at) + (IF mapPc \in {"find", "log"} THEN 1 ELSE 0)>>

\* As long as the debuggee lives, every step of the walks leaves less to do: a region or
\* an image is behind them, or a stage.
WalkMovesOn == [][WalkNext /\ alive => LessWork(WalkWork', WalkWork)]_mapVars

\* The notification of a library comes to an end, unless the debuggee dies during it:
\* then mach_vm_region() fails with something else than KERN_INVALID_ADDRESS for ever.
WalkEnds == (mapPc = "find") ~> (mapPc \in {"done", "crashed"} \/ ~ alive)
=============================================================================
