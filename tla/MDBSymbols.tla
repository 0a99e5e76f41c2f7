------------------------------ MODULE MDBSymbols ------------------------------
(***************************************************************************)
(* Loading symbols: MDBCode::loadSymbols(), which reads a program file and,*)
(* depth first, the libraries it names, MDBMachFile::parse(), which reads  *)
(* one file, and findSymbolByNameOrAddress().                              *)
(*                                                                         *)
(* A file on disk is a record of what parse() takes from it: `format' is   *)
(* "mach" when a 32-bit x86 image is found, alone or in a fat file;        *)
(* `symtab' says whether it has a symbol table, `nlist' what that holds;   *)
(* `text' is the address of its __text section, 0 when it has none;        *)
(* `dylibs' are the libraries named by its load commands, in their order.  *)
(* The recursion is a stack of calls.                                      *)
(***************************************************************************)
EXTENDS Naturals, Sequences, FiniteSets, Lexicographic

CONSTANTS
  FileName,
  Root,        \* the program
  Disks,       \* the file systems considered: [FileName -> content]
  EntryPoint   \* ENTRY_POINT_SYMBOL_NAME

ASSUME SymbolsAssumption ==
  /\ Root \in FileName
  /\ \A d \in Disks, f \in FileName :
       d[f].dylibs \in Seq(FileName) /\ DOMAIN d[f].nlist \subseteq Nat \ {0}

VARIABLES
  disk,
  files,   \* MDBCode::files, by name
  loads,   \* the calls of loadSymbols() that are looking through file.dylibs
  loaded   \* what loadSymbols(Root) has returned

symbolsVars == <<disk, files, loads, loaded>>

Known(f) == \E i \in DOMAIN files : files[i] = f

-----------------------------------------------------------------------------
(* MDBMachFile::parse().  A file that fails leaves nothing behind: its     *)
(* MDBMachFile is never added to `files'.                                  *)

\* fopen, a 32-bit x86 image, the file type, and a symbol table.
Parses(content) == content.format = "mach" /\ content.symtab

\* The symbols of a file by position, in the order of its list: the entry point goes
\* in when the __text section is met, before the symbol table, of which undefined and
\* unnamed symbols are left out.
Symbols(f) ==
  LET Symbol(name, address) == [name |-> name, file |-> f, address |-> address]
      text == disk[f].text
      nlist == disk[f].nlist
      defined == {i \in DOMAIN nlist : nlist[i].section > 0 /\ nlist[i].strx > 1}
  IN [i \in defined \union (IF text = 0 THEN {} ELSE {0}) |->
        IF i = 0 THEN Symbol(EntryPoint, text) ELSE Symbol(nlist[i].name, nlist[i].address)]

Dylibs(f) == disk[f].dylibs

-----------------------------------------------------------------------------
(* loadSymbols().                                                          *)

\* The client's call, the first and only one.
Load ==
  /\ loaded = "no" /\ loads = <<>>
  /\ disk' \in Disks
  /\ IF Parses(disk'[Root])
       THEN /\ files' = <<Root>>
            /\ loads' = <<[file |-> Root, next |-> 1]>>
            /\ UNCHANGED loaded
       ELSE loaded' = "false" /\ UNCHANGED <<files, loads>>

TopLoad == loads[Len(loads)]
Advanced == [loads EXCEPT ![Len(loads)].next = @ + 1]
Looking == loads # <<>> /\ TopLoad.next \in DOMAIN Dylibs(TopLoad.file)
Dylib == Dylibs(TopLoad.file)[TopLoad.next]

\* Mutant: the loop does not get past a library that is known.
SkipDylib_Stuck ==
  /\ Looking /\ Known(Dylib) /\ UNCHANGED symbolsVars

\* Known already, or not to be parsed: then it is tried again by the next that
\* names it.
SkipDylib ==
  /\ Looking
  /\ Known(Dylib) \/ ~ Parses(disk[Dylib])
  /\ loads' = Advanced
  /\ UNCHANGED <<disk, files, loaded>>

\* Mutants: no look at the files known; the file is added after its libraries,
\* when its call returns; the call looks only at its first library.
LoadDylib_NoLookup ==
  /\ Looking /\ Parses(disk[Dylib])
  /\ files' = Append(files, Dylib)
  /\ loads' = Append(Advanced, [file |-> Dylib, next |-> 1])
  /\ UNCHANGED <<disk, loaded>>

LoadDylib_AddedInFront ==
  /\ Looking /\ ~ Known(Dylib) /\ Parses(disk[Dylib])
  /\ files' = <<Dylib>> \o files
  /\ loads' = Append(Advanced, [file |-> Dylib, next |-> 1])
  /\ UNCHANGED <<disk, loaded>>

LoadDylib_NoRecursion ==
  /\ Looking /\ ~ Known(Dylib) /\ Parses(disk[Dylib])
  /\ files' = Append(files, Dylib)
  /\ loads' = Advanced
  /\ UNCHANGED <<disk, loaded>>

\* The file is added before its libraries are looked at.
LoadDylib ==
  /\ Looking /\ ~ Known(Dylib) /\ Parses(disk[Dylib])
  /\ files' = Append(files, Dylib)
  /\ loads' = Append(Advanced, [file |-> Dylib, next |-> 1])
  /\ UNCHANGED <<disk, loaded>>

LoadReturns ==
  /\ loads # <<>> /\ ~ Looking
  /\ loads' = SubSeq(loads, 1, Len(loads) - 1)
  /\ loaded' = IF Len(loads) = 1 THEN "true" ELSE loaded
  /\ UNCHANGED <<disk, files>>

-----------------------------------------------------------------------------
(* findSymbolByNameOrAddress(): the first match, file by file.             *)

Matches(name, address) ==
  {p \in UNION {{i} \X DOMAIN Symbols(files[i]) : i \in DOMAIN files} :
     LET s == Symbols(files[p[1]])[p[2]] IN s.name = name \/ s.address = address}

FindSymbol(name, address) ==
  LET first == CHOOSE p \in Matches(name, address) :
                 \A q \in Matches(name, address) :
                   p[1] < q[1] \/ (p[1] = q[1] /\ p[2] <= q[2])
  IN Symbols(files[first[1]])[first[2]]

-----------------------------------------------------------------------------
SymbolsInit == disk = <<>> /\ files = <<>> /\ loads = <<>> /\ loaded = "no"

LoadNext == SkipDylib \/ LoadDylib \/ LoadReturns
SymbolsNext == Load \/ LoadNext

SymbolsSpec == SymbolsInit /\ [][SymbolsNext]_symbolsVars

-----------------------------------------------------------------------------
(* Properties.                                                             *)

SymbolsTypeOK ==
  /\ files \in Seq(FileName)
  /\ \A i \in DOMAIN loads :
       Known(loads[i].file) /\ loads[i].next \in Nat \ {0}
  /\ loaded \in {"no", "true", "false"}

\* No file is loaded twice, however the libraries name one another: self-
\* references and cycles of libraries included.
LoadedOnce == \A i, j \in DOMAIN files : files[i] = files[j] => i = j

\* At the end exactly the files are loaded that a chain of parsable files leads to
\* from the program: a library that fails hides nothing that others name too.
LoadedReachable ==
  LET Closed(S) == /\ Root \in S
                   /\ \A f \in S : \A i \in DOMAIN Dylibs(f) :
                        Parses(disk[Dylibs(f)[i]]) => Dylibs(f)[i] \in S
      names == {files[i] : i \in DOMAIN files}
  IN loaded = "true"
       => /\ Closed(names)
          /\ \A S \in SUBSET names : Closed(S) => S = names

\* The lookup with which the test driver finds the address of its first breakpoint
\* finds the program's own entry point, not a library's, at any time from the moment
\* the program has been read.
EntryPointFound ==
  files # <<>> /\ disk[Root].text # 0
    => LET s == FindSymbol(EntryPoint, 0)
       IN s.name = EntryPoint /\ s.file = Root

\* The recursion of loadSymbols() is never deeper than there are files loaded, however
\* the libraries name one another: each of its calls is for a file of its own.
LoadDepthBounded == Len(loads) <= Cardinality({files[i] : i \in DOMAIN files})

\* What is left to do for the calls of loadSymbols(), outermost first: libraries still to
\* look at, and the return.
LoadWork ==
  [i \in 1 .. Cardinality(FileName) |->
     IF i \in DOMAIN loads THEN Len(Dylibs(loads[i].file)) + 2 - loads[i].next ELSE 0]

\* Every step of loadSymbols() leaves less to do: its call gets past a library, or
\* returns, and what it adds is one more level at the end.
LoadMovesOn == [][LoadNext => LessWork(LoadWork', LoadWork)]_symbolsVars

\* Loading ends, whatever the libraries name.
LoadEnds == (loads # <<>>) ~> (loaded = "true")
=============================================================================
