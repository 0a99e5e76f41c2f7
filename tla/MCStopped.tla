------------------------------ MODULE MCStopped ------------------------------
(***************************************************************************)
(* What the debugger computes while its debuggee stands still, for TLC:    *)
(* symbols, code regions, backtraces, the memory map, and the list that    *)
(* all of them use.  The parts share no state, so that a behaviour is      *)
(* about one of them (`part'); what one needs of another is in its inputs. *)
(***************************************************************************)
EXTENDS MDBSymbols, MDBRegions, MDBStack, MDBMemoryMap, MBList, FiniteSets

CONSTANTS Parts, main, libA, libB

ASSUME PartsAssumption == Parts \subseteq {"symbols", "regions", "stack", "map", "list"}

VARIABLE part

vars == <<part, symbolsVars, regionsVars, stackVars, mapVars, listVars>>

-----------------------------------------------------------------------------
\* Programs with a __text section, libraries that name any two files, in any order,
\* themselves included, with or without a symbol table.
DylibLists ==
  {<<>>} \union {<<f>> : f \in FileName}
    \union {<<p[1], p[2]>> : p \in {q \in FileName \X FileName : q[1] # q[2]}}

Image(symtab, text, dylibs) ==
  [format |-> "mach", symtab |-> symtab, text |-> text, dylibs |-> dylibs,
   nlist |-> <<[name |-> "undefined", section |-> 0, strx |-> 5, address |-> 0],
               [name |-> "f", section |-> 1, strx |-> 5, address |-> 0]>>]
Foreign == [format |-> "other", symtab |-> FALSE, text |-> 0, dylibs |-> <<>>, nlist |-> <<>>]

Programs == {Foreign} \union {Image(TRUE, 7, d) : d \in DylibLists}
Libraries == {Foreign, Image(FALSE, 7, <<>>)} \union {Image(TRUE, 7, d) : d \in DylibLists}
MCDisks ==
  {[f \in FileName |-> CASE f = main -> p [] f = libA -> a [] f = libB -> b] :
     p \in Programs, a \in Libraries, b \in Libraries}

\* All code of four bytes, with calls of one byte, indirect ones among them.
InstructionOf(op, size, target) == [op |-> op, size |-> size, target |-> target]
MCCodes ==
  [1 .. 4 -> {InstructionOf("ret", 1, 0), InstructionOf("other", 2, 0), InstructionOf("bad", 0, 0)}
              \union {InstructionOf("call", 1, t) : t \in 0 .. 4}]

\* The code that begins at its last byte cannot be read: the mapping ends too soon.  The
\* buffer then holds nothing, or a procedure with a call.
MCReadables == {1 .. 3}
MCLeftovers ==
  {[pc \in 0 .. 3 |-> InstructionOf("bad", 0, 0)],
   [pc \in 0 .. 3 |-> IF pc = 0 THEN InstructionOf("call", 1, 2) ELSE InstructionOf("ret", 1, 0)]}

\* Two places for a frame, each with a link to either or none; some words cannot be
\* read.  The word at a frame's own address is looked at only when its link cannot.
MCPointers == {0, 4, 404}
MCMemories ==
  UNION {{[a \in {4, 404, 16, 416, 20, 420} \ hole |->
             CASE a = 4 -> 404 [] a = 404 -> 0 [] a = 16 -> p [] a = 416 -> q
               [] OTHER -> a + 1000] :
            p \in MCPointers, q \in MCPointers} :
         hole \in {{}, {16}, {20}, {4, 16}, {404, 416, 420}}}

RegionOf(r, l, s, c, h) == [readable |-> r, large |-> l, shared |-> s, copies |-> c, header |-> h]
MCRegion ==
  {RegionOf(FALSE, TRUE, FALSE, FALSE, "none"), RegionOf(TRUE, FALSE, FALSE, TRUE, "dylinker"),
   RegionOf(TRUE, TRUE, FALSE, FALSE, "dylinker"), RegionOf(TRUE, TRUE, TRUE, TRUE, "none"),
   RegionOf(TRUE, TRUE, FALSE, TRUE, "dylib"), RegionOf(TRUE, TRUE, FALSE, TRUE, "dylinker")}
MCMaps == UNION {[1 .. n -> MCRegion] : n \in 0 .. 3}

-----------------------------------------------------------------------------
Init ==
  /\ part \in Parts
  /\ SymbolsInit /\ RegionsInit /\ StackInit /\ MapInit /\ ListInit

Next ==
  \/ /\ part = "symbols" /\ SymbolsNext
     /\ UNCHANGED <<part, regionsVars, stackVars, mapVars, listVars>>
  \/ /\ part = "regions" /\ RegionsNext
     /\ UNCHANGED <<part, symbolsVars, stackVars, mapVars, listVars>>
  \/ /\ part = "stack" /\ StackNext
     /\ UNCHANGED <<part, symbolsVars, regionsVars, mapVars, listVars>>
  \/ /\ part = "map" /\ MapNext
     /\ UNCHANGED <<part, symbolsVars, regionsVars, stackVars, listVars>>
  \/ /\ part = "list" /\ ListNext
     /\ UNCHANGED <<part, symbolsVars, regionsVars, stackVars, mapVars>>

\* The debugger runs what it has begun.
Spec ==
  /\ Init /\ [][Next]_vars
  /\ WF_symbolsVars(LoadNext /\ UNCHANGED part)
  /\ WF_regionsVars(ScanNext /\ UNCHANGED part)
  /\ WF_mapVars(WalkNext /\ UNCHANGED part)

\* Every variable of every part holds a value of its type.
TypeOK == SymbolsTypeOK /\ RegionsTypeOK /\ StackTypeOK /\ MapTypeOK /\ ListTypeOK

\* Every step of loadSymbols(), of scanProcedure() and, while the debuggee lives, of the
\* walks over the memory map leaves less to do, whatever is cyclic in their inputs.
MovesOn == LoadMovesOn /\ ScanMovesOn /\ WalkMovesOn
=============================================================================
