--------------------------- MODULE MDBSymbols_proof ---------------------------
(***************************************************************************)
(* Proofs about MDBSymbols, for any file systems: a file is loaded once,   *)
(* and what is loaded at the end is what can be reached from the program.  *)
(*                                                                         *)
(* The latter rests on two invariants of the recursion.  Nothing is left   *)
(* out: a library that a known file names is known too, cannot be parsed,  *)
(* or is still ahead of one of the calls.  And nothing is there without    *)
(* reason: every set closed under `names a parsable library' holds all     *)
(* the files known.                                                        *)
(***************************************************************************)
EXTENDS MDBSymbols, Integers, SequenceTheorems, FiniteSetTheorems, TLAPS

LoadCall == [file : FileName, next : Nat \ {0}]

Names == {files[i] : i \in DOMAIN files}

Closed(S) ==
  /\ Root \in S
  /\ \A f \in S : \A i \in DOMAIN Dylibs(f) :
       Parses(disk[Dylibs(f)[i]]) => Dylibs(f)[i] \in S

LoadTypes ==
  /\ files \in Seq(FileName)
  /\ loads \in Seq(LoadCall)
  /\ loaded \in {"no", "true", "false"}
  /\ \A i \in DOMAIN loads : loads[i].file \in Names

Phase ==
  /\ files = <<>> <=> loads = <<>> /\ loaded # "true"
  /\ files # <<>> => Root \in Names /\ \A f \in FileName : Dylibs(f) \in Seq(FileName)
  /\ loaded # "no" => loads = <<>>

NothingMissed ==
  \A f \in Names : \A k \in DOMAIN Dylibs(f) :
    Parses(disk[Dylibs(f)[k]]) =>
      \/ Dylibs(f)[k] \in Names
      \/ \E i \in DOMAIN loads : loads[i].file = f /\ loads[i].next <= k

NothingStray ==
  files # <<>> => \A S \in SUBSET FileName : Closed(S) => Names \subseteq S

\* The program stays in front of its libraries, and the disk is one of those considered.
ProgramFirst == files # <<>> => files[1] = Root /\ disk \in Disks

LoadInv == LoadTypes /\ Phase /\ NothingMissed /\ NothingStray /\ LoadedOnce /\ ProgramFirst

-----------------------------------------------------------------------------
(* Files and calls as sequences.                                           *)

\* Known() is membership.
LEMMA KnownIsNamed == \A f : Known(f) <=> f \in Names
BY DEF Known, Names

\* Adding a file that is not known.
LEMMA AddFile ==
  ASSUME LoadTypes, LoadedOnce, NEW f \in FileName, f \notin Names, files' = Append(files, f)
  PROVE  files' \in Seq(FileName) /\ files' # <<>> /\ Names' = Names \union {f} /\ LoadedOnce'
<1>1. files \in Seq(FileName) /\ Len(files) \in Nat /\ DOMAIN files = 1 .. Len(files)
  BY LenProperties DEF LoadTypes
<1>2. /\ files' \in Seq(FileName) /\ Len(files') = Len(files) + 1
      /\ DOMAIN files' = 1 .. Len(files) + 1
      /\ \A i \in 1 .. Len(files) : files'[i] = files[i]
      /\ files'[Len(files) + 1] = f
  BY <1>1
<1>3. \A i \in DOMAIN files' : i \in DOMAIN files \/ i = Len(files) + 1
  BY <1>1, <1>2
<1>4. DOMAIN files \subseteq DOMAIN files' /\ Len(files) + 1 \in DOMAIN files'
  BY <1>1, <1>2
<1>5. Names' = Names \union {f}
  BY <1>1, <1>2, <1>3, <1>4 DEF Names
<1>6. ASSUME NEW i \in DOMAIN files', NEW j \in DOMAIN files', files'[i] = files'[j]
      PROVE  i = j
  <2>1. \A k \in DOMAIN files : files'[k] = files[k] /\ files[k] # f
    BY <1>1, <1>2 DEF Names
  <2> QED BY <1>2, <1>3, <1>6, <2>1 DEF LoadedOnce
<1>7. files' # <<>>
  BY <1>1, <1>2
<1> QED BY <1>2, <1>5, <1>6, <1>7 DEF LoadedOnce

\* A call that looks on.
LEMMA AdvancedIsCalls ==
  ASSUME LoadTypes, loads # <<>>
  PROVE  /\ Len(loads) \in Nat \ {0} /\ DOMAIN loads = 1 .. Len(loads)
         /\ TopLoad \in LoadCall
         /\ Advanced \in Seq(LoadCall) /\ Len(Advanced) = Len(loads)
         /\ DOMAIN Advanced = DOMAIN loads
         /\ \A i \in DOMAIN loads :
              Advanced[i] = IF i = Len(loads)
                              THEN [file |-> TopLoad.file, next |-> TopLoad.next + 1] ELSE loads[i]
<1>1. /\ loads \in Seq(LoadCall) /\ Len(loads) \in Nat \ {0}
      /\ DOMAIN loads = 1 .. Len(loads) /\ loads \in [1 .. Len(loads) -> LoadCall]
  BY LenProperties, EmptySeq DEF LoadTypes
<1>2. Len(loads) \in 1 .. Len(loads) /\ TopLoad \in LoadCall
  BY <1>1 DEF TopLoad
<1>3. [TopLoad EXCEPT !.next = @ + 1] = [file |-> TopLoad.file, next |-> TopLoad.next + 1]
  BY <1>2 DEF LoadCall
<1> DEFINE new == [file |-> TopLoad.file, next |-> TopLoad.next + 1]
<1>4. new \in LoadCall
  BY <1>2 DEF LoadCall
<1>5. Advanced = [loads EXCEPT ![Len(loads)] = new]
  BY <1>1, <1>3 DEF Advanced, TopLoad
<1> HIDE DEF new
<1>6. /\ Advanced \in Seq(LoadCall) /\ Len(Advanced) = Len(loads)
      /\ \A i \in 1 .. Len(loads) : Advanced[i] = IF i = Len(loads) THEN new ELSE loads[i]
  BY <1>1, <1>2, <1>4, <1>5, ExceptSeq
<1>7. DOMAIN Advanced = DOMAIN loads
  BY <1>1, <1>5
<1> QED BY <1>1, <1>2, <1>6, <1>7 DEF new

\* Whose libraries a call looks through, and what it has come to.
LEMMA LookingAt ==
  ASSUME LoadTypes, Phase, Looking
  PROVE  /\ TopLoad.file \in Names /\ TopLoad.file \in FileName
         /\ TopLoad.next \in DOMAIN Dylibs(TopLoad.file) /\ TopLoad.next \in Nat
         /\ Dylib \in FileName /\ files # <<>>
<1>1. loads # <<>> /\ TopLoad.next \in DOMAIN Dylibs(TopLoad.file)
  BY DEF Looking
<1>2. TopLoad \in LoadCall /\ Len(loads) \in DOMAIN loads
  BY <1>1, AdvancedIsCalls
<1>3. TopLoad.file \in Names /\ files # <<>>
  BY <1>1, <1>2 DEF LoadTypes, Phase, TopLoad
<1>4. TopLoad.file \in FileName /\ TopLoad.next \in Nat
  BY <1>2 DEF LoadCall
<1>5. Dylib \in FileName
  <2>1. Dylibs(TopLoad.file) \in Seq(FileName)
    BY <1>3, <1>4 DEF Phase
  <2>2. DOMAIN Dylibs(TopLoad.file) = 1 .. Len(Dylibs(TopLoad.file))
    BY <2>1, LenProperties
  <2> QED BY <1>1, <2>1, <2>2, ElementOfSeq DEF Dylib
<1> QED BY <1>1, <1>3, <1>4, <1>5

-----------------------------------------------------------------------------
(* The steps.                                                              *)

\* loadSymbols(Root): all that is known is the program, and its call is at its start.
LEMMA LoadKeepsInv ==
  ASSUME LoadInv, Load
  PROVE  LoadInv'
<1>1. loaded = "no" /\ loads = <<>> /\ disk' \in Disks
  BY DEF Load
<1>2. CASE Parses(disk'[Root])
  <2>1. files' = <<Root>> /\ loads' = <<[file |-> Root, next |-> 1]>> /\ loaded' = "no"
    BY <1>1, <1>2 DEF Load
  <2>2. DOMAIN files' = {1} /\ files'[1] = Root /\ files' \in Seq(FileName) /\ files' # <<>>
    BY <2>1, SymbolsAssumption
  <2>3. Names' = {Root}
    BY <2>2 DEF Names
  <2>4. [file |-> Root, next |-> 1] \in LoadCall
    BY SymbolsAssumption DEF LoadCall
  <2> DEFINE call == [file |-> Root, next |-> 1]
  <2>5. call.file = Root /\ call.next = 1
    OBVIOUS
  <2> HIDE DEF call
  <2>6. /\ loads' \in Seq(LoadCall) /\ DOMAIN loads' = {1} /\ loads'[1] = call
    BY <2>1, <2>4 DEF call
  <2>7. \A f \in FileName : Dylibs(f)' \in Seq(FileName)
    BY <1>1, SymbolsAssumption DEF Dylibs
  <2>8. LoadTypes'
    BY <2>1, <2>2, <2>3, <2>5, <2>6 DEF LoadTypes
  <2>9. Phase'
    BY <2>1, <2>2, <2>3, <2>7 DEF Phase
  <2>10. NothingMissed'
    <3>1. \A k \in DOMAIN Dylibs(Root)' : 1 <= k
      <4>1. Dylibs(Root)' \in Seq(FileName)
        BY <2>7, SymbolsAssumption
      <4> QED BY <4>1, LenProperties
    <3>2. 1 \in DOMAIN loads' /\ loads'[1].file = Root /\ loads'[1].next = 1
      BY <2>5, <2>6
    <3> QED BY <2>3, <3>1, <3>2 DEF NothingMissed
  <2>11. NothingStray'
    BY <2>3 DEF NothingStray, Closed
  <2>12. LoadedOnce'
    BY <2>2 DEF LoadedOnce
  <2>13. ProgramFirst'
    BY <1>1, <2>2 DEF ProgramFirst
  <2> QED BY <2>8, <2>9, <2>10, <2>11, <2>12, <2>13 DEF LoadInv
<1>3. CASE ~ Parses(disk'[Root])
  <2>1. loaded' = "false" /\ files' = files /\ loads' = loads
    BY <1>3 DEF Load
  <2>2. files = <<>> /\ DOMAIN loads = {}
    BY <1>1 DEF LoadInv, Phase
  <2>3. Names' = {} /\ files' = <<>> /\ DOMAIN loads' = {} /\ Names = {}
    BY <2>1, <2>2 DEF Names
  <2>4. LoadTypes'
    BY <2>1, <2>3 DEF LoadInv, LoadTypes
  <2>5. Phase' /\ LoadedOnce'
    BY <1>1, <2>1, <2>3 DEF Phase, LoadedOnce
  <2> QED BY <2>3, <2>4, <2>5 DEF LoadInv, NothingMissed, NothingStray, ProgramFirst
<1> QED BY <1>2, <1>3

\* The next library: one that is known or cannot be parsed is left behind.
LEMMA SkipDylibKeepsInv ==
  ASSUME LoadInv, SkipDylib
  PROVE  LoadInv'
<1>1. /\ Looking /\ (Known(Dylib) \/ ~ Parses(disk[Dylib])) /\ loads' = Advanced
      /\ disk' = disk /\ files' = files /\ loaded' = loaded
  BY DEF SkipDylib
<1>2. loads # <<>> /\ LoadTypes /\ Phase /\ NothingMissed /\ NothingStray /\ LoadedOnce
  BY <1>1 DEF Looking, LoadInv
<1>3. /\ Len(loads) \in Nat \ {0} /\ DOMAIN loads = 1 .. Len(loads)
      /\ loads' \in Seq(LoadCall) /\ Len(loads') = Len(loads) /\ DOMAIN loads' = DOMAIN loads
      /\ \A i \in DOMAIN loads :
           loads'[i] = IF i = Len(loads)
                         THEN [file |-> TopLoad.file, next |-> TopLoad.next + 1] ELSE loads[i]
  BY <1>1, <1>2, AdvancedIsCalls
<1>4. \A i \in DOMAIN loads :
        /\ loads'[i].file = loads[i].file
        /\ loads'[i].next = IF i = Len(loads) THEN TopLoad.next + 1 ELSE loads[i].next
  BY <1>3 DEF TopLoad
<1>5. Names' = Names /\ (\A f : Dylibs(f)' = Dylibs(f)) /\ loads' # <<>>
  BY <1>1, <1>3 DEF Names, Dylibs
<1>6. LoadTypes'
  BY <1>1, <1>2, <1>3, <1>4, <1>5 DEF LoadTypes
<1>7. Phase'
  BY <1>1, <1>2, <1>5 DEF Phase
<1>8. NothingMissed'
  <2> SUFFICES ASSUME NEW f \in Names, NEW k \in DOMAIN Dylibs(f),
                      Parses(disk[Dylibs(f)[k]]), Dylibs(f)[k] \notin Names
               PROVE  \E i \in DOMAIN loads' : loads'[i].file = f /\ loads'[i].next <= k
    BY <1>1, <1>5 DEF NothingMissed
  <2>1. PICK i \in DOMAIN loads : loads[i].file = f /\ loads[i].next <= k
    BY <1>2 DEF NothingMissed
  <2>2. CASE i # Len(loads)
    BY <1>3, <1>4, <2>1, <2>2
  <2>3. CASE i = Len(loads)
    <3>1. TopLoad.file = f /\ TopLoad.next <= k
      BY <2>1, <2>3 DEF TopLoad
    <3>2. k # TopLoad.next
      BY <1>1, <3>1, KnownIsNamed DEF Dylib
    <3>3. TopLoad.next \in Nat /\ k \in Int
      <4>1. f \in FileName /\ Dylibs(f) \in Seq(FileName)
        BY <1>1, <1>2, <3>1, LookingAt DEF Phase
      <4> QED BY <1>1, <1>2, <4>1, LookingAt, LenProperties
    <3>4. TopLoad.next + 1 <= k
      BY <3>1, <3>2, <3>3
    <3> QED BY <1>3, <1>4, <2>1, <2>3, <3>4
  <2> QED BY <2>2, <2>3
<1>9. NothingStray' /\ LoadedOnce'
  BY <1>1, <1>2, <1>5 DEF NothingStray, LoadedOnce, Closed
<1>10. ProgramFirst'
  BY <1>1 DEF LoadInv, ProgramFirst
<1> QED BY <1>6, <1>7, <1>8, <1>9, <1>10 DEF LoadInv

\* A library that is new: it is known from here on, and the call for it is at its start.
LEMMA LoadDylibKeepsInv ==
  ASSUME LoadInv, LoadDylib
  PROVE  LoadInv'
<1> DEFINE f0 == Dylib
           call == [file |-> f0, next |-> 1]
<1>1. /\ Looking /\ ~ Known(f0) /\ Parses(disk[f0])
      /\ files' = Append(files, f0) /\ loads' = Append(Advanced, call)
      /\ disk' = disk /\ loaded' = loaded
  BY DEF LoadDylib
<1>2. loads # <<>> /\ LoadTypes /\ Phase /\ NothingMissed /\ NothingStray /\ LoadedOnce
  BY <1>1 DEF Looking, LoadInv
<1>3. /\ f0 \in FileName /\ files # <<>> /\ TopLoad.file \in Names /\ TopLoad.file \in FileName
      /\ TopLoad.next \in DOMAIN Dylibs(TopLoad.file) /\ TopLoad.next \in Nat
      /\ f0 = Dylibs(TopLoad.file)[TopLoad.next]
  BY <1>1, <1>2, LookingAt DEF Dylib
<1>4. call \in LoadCall /\ call.file = f0 /\ call.next = 1
  BY <1>3 DEF LoadCall
<1> HIDE DEF f0, call
<1>5. /\ files' \in Seq(FileName) /\ files' # <<>> /\ Names' = Names \union {f0}
      /\ LoadedOnce'
  BY <1>1, <1>2, <1>3, AddFile, KnownIsNamed
<1>6. /\ Len(loads) \in Nat \ {0} /\ DOMAIN loads = 1 .. Len(loads)
      /\ Advanced \in Seq(LoadCall) /\ Len(Advanced) = Len(loads)
      /\ \A i \in DOMAIN loads :
           Advanced[i] = IF i = Len(loads)
                           THEN [file |-> TopLoad.file, next |-> TopLoad.next + 1] ELSE loads[i]
  BY <1>2, AdvancedIsCalls
<1>7. /\ loads' \in Seq(LoadCall) /\ DOMAIN loads' = 1 .. Len(loads) + 1 /\ loads' # <<>>
      /\ \A i \in DOMAIN loads : loads'[i] = Advanced[i]
      /\ loads'[Len(loads) + 1] = call
  <2> DEFINE advanced == Advanced
  <2>1. advanced \in Seq(LoadCall) /\ Len(advanced) = Len(loads) /\ loads' = Append(advanced, call)
    BY <1>1, <1>6
  <2> HIDE DEF advanced
  <2>2. /\ loads' \in Seq(LoadCall) /\ Len(loads') = Len(advanced) + 1
        /\ \A i \in 1 .. Len(advanced) : loads'[i] = advanced[i]
        /\ loads'[Len(advanced) + 1] = call
    BY <1>4, <2>1, AppendProperties
  <2>3. DOMAIN loads' = 1 .. Len(loads) + 1 /\ loads' # <<>>
    BY <1>6, <2>1, <2>2, LenProperties, EmptySeq
  <2> QED BY <1>6, <2>1, <2>2, <2>3 DEF advanced
<1>8. /\ \A i \in DOMAIN loads :
           /\ i \in DOMAIN loads' /\ loads'[i].file = loads[i].file
           /\ loads'[i].next = IF i = Len(loads) THEN TopLoad.next + 1 ELSE loads[i].next
      /\ Len(loads) + 1 \in DOMAIN loads'
      /\ \A i \in DOMAIN loads' : i \in DOMAIN loads \/ i = Len(loads) + 1
  BY <1>6, <1>7 DEF TopLoad
<1>9. \A f : Dylibs(f)' = Dylibs(f)
  BY <1>1 DEF Dylibs
<1>10. LoadTypes'
  <2>1. \A i \in DOMAIN loads' : loads'[i].file \in Names'
    BY <1>2, <1>4, <1>5, <1>7, <1>8 DEF LoadTypes
  <2> QED BY <1>1, <1>2, <1>5, <1>7, <2>1 DEF LoadTypes
<1>11. Phase'
  BY <1>1, <1>2, <1>3, <1>5, <1>7, <1>9 DEF Phase
<1>12. NothingMissed'
  <2> SUFFICES ASSUME NEW f \in Names \union {f0}, NEW k \in DOMAIN Dylibs(f),
                      Parses(disk[Dylibs(f)[k]]), Dylibs(f)[k] \notin Names \union {f0}
               PROVE  \E i \in DOMAIN loads' : loads'[i].file = f /\ loads'[i].next <= k
    BY <1>1, <1>5, <1>9 DEF NothingMissed
  <2>1. k \in Nat /\ k >= 1
    <3>1. f \in FileName
      BY <1>3, LenProperties DEF LoadInv, LoadTypes, Names
    <3>2. Dylibs(f) \in Seq(FileName)
      BY <1>2, <1>3, <3>1 DEF Phase
    <3> QED BY <3>2, LenProperties
  <2>2. CASE f = f0
    BY <1>4, <1>7, <1>8, <2>1, <2>2
  <2>3. CASE f # f0
    <3>1. PICK i \in DOMAIN loads : loads[i].file = f /\ loads[i].next <= k
      BY <1>2, <2>3 DEF NothingMissed
    <3>2. CASE i # Len(loads)
      BY <1>8, <3>1, <3>2
    <3>3. CASE i = Len(loads)
      <4>1. TopLoad.file = f /\ TopLoad.next <= k
        BY <3>1, <3>3 DEF TopLoad
      <4>2. k # TopLoad.next
        BY <1>3, <4>1
      <4>3. TopLoad.next + 1 <= k
        BY <1>3, <2>1, <4>1, <4>2
      <4> QED BY <1>8, <3>1, <3>3, <4>3
    <3> QED BY <3>2, <3>3
  <2> QED BY <2>2, <2>3
<1>13. NothingStray'
  <2> SUFFICES ASSUME NEW S \in SUBSET FileName, Closed(S)
               PROVE  Names \union {f0} \subseteq S
    BY <1>1, <1>5, <1>9 DEF NothingStray, Closed
  <2>1. Names \subseteq S
    BY <1>2, <1>3 DEF NothingStray
  <2>2. f0 \in S
    BY <1>1, <1>3, <2>1 DEF Closed
  <2> QED BY <2>1, <2>2
<1>14. ProgramFirst'
  <2>1. files \in Seq(FileName)
    BY <1>2 DEF LoadTypes
  <2>2. files'[1] = files[1]
    BY <1>1, <1>3, <2>1
  <2> QED BY <1>1, <1>3, <2>2 DEF LoadInv, ProgramFirst
<1> QED BY <1>5, <1>10, <1>11, <1>12, <1>13, <1>14 DEF LoadInv

\* A call that has come to the end of its libraries has missed none.
LEMMA LoadReturnsKeepsInv ==
  ASSUME LoadInv, LoadReturns
  PROVE  LoadInv'
<1>1. /\ loads # <<>> /\ ~ Looking
      /\ loads' = SubSeq(loads, 1, Len(loads) - 1)
      /\ loaded' = IF Len(loads) = 1 THEN "true" ELSE loaded
      /\ disk' = disk /\ files' = files
  BY DEF LoadReturns
<1>2. LoadTypes /\ Phase /\ NothingMissed /\ NothingStray /\ LoadedOnce
  BY DEF LoadInv
<1>3. /\ loads \in Seq(LoadCall) /\ Len(loads) \in Nat \ {0} /\ DOMAIN loads = 1 .. Len(loads)
      /\ Len(loads) \in DOMAIN loads /\ \A i \in DOMAIN loads : loads[i] \in LoadCall
  BY <1>1, <1>2, EmptySeq, LenProperties, ElementOfSeq DEF LoadTypes
<1>4. /\ loads' \in Seq(LoadCall) /\ Len(loads') = Len(loads) - 1
      /\ DOMAIN loads' = 1 .. Len(loads) - 1
      /\ \A i \in DOMAIN loads' : i \in DOMAIN loads /\ loads'[i] = loads[i]
  BY <1>1, <1>3
<1>5. Names' = Names /\ (\A f : Dylibs(f)' = Dylibs(f)) /\ files # <<>>
  BY <1>1, <1>2 DEF Names, Dylibs, Phase
<1>6. LoadTypes'
  BY <1>1, <1>2, <1>4, <1>5 DEF LoadTypes
<1>7. Phase'
  <2>1. loads' = <<>> <=> Len(loads) = 1
    BY <1>3, <1>4, EmptySeq
  <2>2. loaded = "no"
    BY <1>1, <1>2 DEF Phase, LoadTypes
  <2> QED BY <1>1, <1>2, <1>5, <2>1, <2>2 DEF Phase
<1>8. NothingMissed'
  <2> SUFFICES ASSUME NEW f \in Names, NEW k \in DOMAIN Dylibs(f),
                      Parses(disk[Dylibs(f)[k]]), Dylibs(f)[k] \notin Names
               PROVE  \E i \in DOMAIN loads' : loads'[i].file = f /\ loads'[i].next <= k
    BY <1>1, <1>5 DEF NothingMissed
  <2>1. PICK i \in DOMAIN loads : loads[i].file = f /\ loads[i].next <= k
    BY <1>2 DEF NothingMissed
  <2>2. i # Len(loads)
    <3> SUFFICES ASSUME i = Len(loads) PROVE FALSE
      OBVIOUS
    <3>1. TopLoad.file = f /\ TopLoad.next <= k /\ TopLoad.next \in Nat \ {0} /\ f \in FileName
      BY <1>3, <2>1 DEF TopLoad, LoadCall
    <3>2. Dylibs(f) \in Seq(FileName)
      BY <1>2, <1>5, <3>1 DEF Phase
    <3>3. DOMAIN Dylibs(f) = 1 .. Len(Dylibs(f)) /\ Len(Dylibs(f)) \in Nat
      BY <3>2, LenProperties
    <3>4. TopLoad.next \in DOMAIN Dylibs(f)
      BY <3>1, <3>3
    <3> QED BY <1>1, <3>1, <3>4 DEF Looking
  <2>3. i \in DOMAIN loads'
    BY <1>3, <1>4, <2>2
  <2> QED BY <1>4, <2>1, <2>3
<1>9. NothingStray' /\ LoadedOnce'
  BY <1>1, <1>2, <1>5 DEF NothingStray, LoadedOnce, Closed
<1>10. ProgramFirst'
  BY <1>1 DEF LoadInv, ProgramFirst
<1> QED BY <1>6, <1>7, <1>8, <1>9, <1>10 DEF LoadInv

-----------------------------------------------------------------------------
(* The theorems.                                                           *)

\* The invariant, in every state of every load.
THEOREM SymbolsInvariant == SymbolsSpec => []LoadInv
<1>1. SymbolsInit => LoadInv
  <2> SUFFICES ASSUME SymbolsInit PROVE LoadInv
    OBVIOUS
  <2>1. files = <<>> /\ loads = <<>> /\ loaded = "no" /\ Names = {}
    BY DEF SymbolsInit, Names
  <2> QED BY <2>1 DEF LoadInv, LoadTypes, Phase, NothingMissed, NothingStray, LoadedOnce, ProgramFirst
<1>2. LoadInv /\ [SymbolsNext]_symbolsVars => LoadInv'
  <2> SUFFICES ASSUME LoadInv, [SymbolsNext]_symbolsVars PROVE LoadInv'
    OBVIOUS
  <2>1. CASE Load
    BY <2>1, LoadKeepsInv
  <2>2. CASE SkipDylib
    BY <2>2, SkipDylibKeepsInv
  <2>3. CASE LoadDylib
    BY <2>3, LoadDylibKeepsInv
  <2>4. CASE LoadReturns
    BY <2>4, LoadReturnsKeepsInv
  <2>5. CASE UNCHANGED symbolsVars
    BY <2>5 DEF symbolsVars, LoadInv, LoadTypes, Phase, NothingMissed, NothingStray, LoadedOnce,
                ProgramFirst, Names, Closed, Dylibs
  <2> QED BY <2>1, <2>2, <2>3, <2>4, <2>5 DEF SymbolsNext, LoadNext
<1> QED BY <1>1, <1>2, PTL DEF SymbolsSpec

\* loadSymbols() looks only through libraries of files that are known.
THEOREM SymbolsTypes == SymbolsSpec => []SymbolsTypeOK
<1>1. LoadInv => SymbolsTypeOK
  <2> SUFFICES ASSUME LoadInv PROVE SymbolsTypeOK
    OBVIOUS
  <2>1. \A i \in DOMAIN loads : loads[i].next \in Nat \ {0}
    <3>1. \A i \in DOMAIN loads : loads[i] \in LoadCall
      BY LenProperties, ElementOfSeq DEF LoadInv, LoadTypes
    <3> QED BY <3>1 DEF LoadCall
  <2> QED BY <2>1, KnownIsNamed DEF LoadInv, LoadTypes, SymbolsTypeOK
<1> QED BY <1>1, SymbolsInvariant, PTL

\* No file is loaded twice, whatever the libraries of whatever program name.
THEOREM SymbolsLoadedOnce == SymbolsSpec => []LoadedOnce
<1>1. LoadInv => LoadedOnce
  BY DEF LoadInv
<1> QED BY <1>1, SymbolsInvariant, PTL

\* When loadSymbols() returns, the files loaded are those that can be reached from the
\* program: none is missing, and none is there without reason.
THEOREM SymbolsLoadedReachable == SymbolsSpec => []LoadedReachable
<1>1. LoadInv => LoadedReachable
  <2> SUFFICES ASSUME LoadInv, loaded = "true"
               PROVE  Closed(Names) /\ \A S \in SUBSET Names : Closed(S) => S = Names
    BY DEF LoadedReachable, Closed, Names
  <2>1. /\ loads = <<>> /\ DOMAIN loads = {} /\ files # <<>>
        /\ Root \in Names /\ Names \subseteq FileName
    BY LenProperties DEF LoadInv, LoadTypes, Phase, Names
  <2>2. Closed(Names)
    BY <2>1 DEF LoadInv, NothingMissed, Closed
  <2>3. ASSUME NEW S \in SUBSET Names, Closed(S) PROVE S = Names
    BY <2>1, <2>3 DEF LoadInv, NothingStray
  <2> QED BY <2>2, <2>3
<1> QED BY <1>1, SymbolsInvariant, PTL

\* findSymbolByNameOrAddress() for the name of the entry point and no address: whatever
\* the libraries hold, symbols of that name or of address 0 among them, it returns the
\* program's own entry point as soon as the program has been read.
THEOREM EntryPointIsThePrograms == SymbolsSpec => []EntryPointFound
<1>1. LoadInv => EntryPointFound
  <2> SUFFICES ASSUME LoadInv, files # <<>>, disk[Root].text # 0
               PROVE  LET s == FindSymbol(EntryPoint, 0) IN s.name = EntryPoint /\ s.file = Root
    BY DEF EntryPointFound
  <2> DEFINE Precedes(p, q) == p[1] < q[1] \/ (p[1] = q[1] /\ p[2] <= q[2])
             Positions == UNION {{i} \X DOMAIN Symbols(files[i]) : i \in DOMAIN files}
             M == Matches(EntryPoint, 0)
  <2>1. files \in Seq(FileName) /\ files[1] = Root /\ disk \in Disks
    BY DEF LoadInv, LoadTypes, ProgramFirst
  <2>2. DOMAIN files \subseteq Nat /\ 1 \in DOMAIN files /\ \A i \in DOMAIN files : 1 <= i /\ files[i] \in FileName
    BY <2>1, LenProperties, EmptySeq
  <2>3. \A f \in FileName : DOMAIN Symbols(f) \subseteq Nat
    BY <2>1, SymbolsAssumption DEF Symbols
  <2>4. /\ 0 \in DOMAIN Symbols(Root)
        /\ Symbols(Root)[0] = [name |-> EntryPoint, file |-> Root, address |-> disk[Root].text]
    BY DEF Symbols
  <2>5. <<1, 0>> \in Positions /\ <<1, 0>>[1] = 1 /\ <<1, 0>>[2] = 0
    BY <2>1, <2>2, <2>4
  <2>6. \A p \in Positions : p = <<p[1], p[2]>> /\ p[1] \in Nat /\ 1 <= p[1] /\ p[2] \in Nat
    BY <2>2, <2>3
  <2>7. M = {p \in Positions : LET s == Symbols(files[p[1]])[p[2]] IN s.name = EntryPoint \/ s.address = 0}
    BY DEF Matches
  <2> HIDE DEF Positions, M
  <2>8. <<1, 0>> \in M
    <3>1. Symbols(files[<<1, 0>>[1]])[<<1, 0>>[2]].name = EntryPoint
      BY <2>1, <2>4, <2>5
    <3> QED BY <2>5, <2>7, <3>1
  <2>9. \A q \in M : Precedes(<<1, 0>>, q)
    BY <2>5, <2>6, <2>7
  <2>10. ASSUME NEW p \in M, \A q \in M : Precedes(p, q) PROVE p = <<1, 0>>
    <3>1. p \in Positions /\ Precedes(p, <<1, 0>>)
      BY <2>7, <2>8, <2>10
    <3>2. p[1] = 1 /\ p[2] = 0
      BY <2>5, <2>6, <3>1
    <3> QED BY <2>6, <3>1, <3>2
  <2>11. (CHOOSE p \in M : \A q \in M : Precedes(p, q)) = <<1, 0>>
    <3> HIDE DEF Precedes
    <3> QED BY <2>8, <2>9, <2>10
  <2>12. FindSymbol(EntryPoint, 0) = Symbols(files[<<1, 0>>[1]])[<<1, 0>>[2]]
    BY <2>11 DEF FindSymbol, M
  <2> QED BY <2>1, <2>4, <2>5, <2>12
<1> QED BY <1>1, SymbolsInvariant, PTL

-----------------------------------------------------------------------------
(* The depth of the recursion, and its end.                                *)

\* The active calls are for different files, and none is beyond its list of libraries.
CallsOK ==
  /\ \A i, j \in DOMAIN loads : loads[i].file = loads[j].file => i = j
  /\ \A i \in DOMAIN loads : loads[i].next <= Len(Dylibs(loads[i].file)) + 1

\* The list of a call.
LEMMA DylibsOfCall ==
  ASSUME LoadInv, NEW i \in DOMAIN loads
  PROVE  /\ loads[i] \in LoadCall /\ loads[i].file \in FileName
         /\ Len(Dylibs(loads[i].file)) \in Nat
         /\ DOMAIN Dylibs(loads[i].file) = 1 .. Len(Dylibs(loads[i].file))
<1>1. loads \in Seq(LoadCall) /\ loads[i] \in LoadCall
  BY LenProperties, ElementOfSeq DEF LoadInv, LoadTypes
<1>2. files # <<>> /\ loads[i].file \in FileName
  BY <1>1, EmptySeq DEF LoadInv, Phase, LoadCall
<1>3. Dylibs(loads[i].file) \in Seq(FileName)
  BY <1>2 DEF LoadInv, Phase
<1> QED BY <1>1, <1>2, <1>3, LenProperties

\* What a step does to the calls: the first, one that moves on, one that moves on and
\* makes another, and a return.
LEMMA SkipMoves ==
  ASSUME LoadInv, SkipDylib \/ LoadDylib
  PROVE  /\ loads # <<>> /\ Len(loads) \in Nat \ {0} /\ DOMAIN loads = 1 .. Len(loads)
         /\ DOMAIN loads \subseteq DOMAIN loads'
         /\ \A i \in DOMAIN loads : loads'[i].file = loads[i].file
         /\ \A i \in DOMAIN loads :
              loads'[i].next = IF i = Len(loads) THEN loads[i].next + 1 ELSE loads[i].next
         /\ loads[Len(loads)].next \in DOMAIN Dylibs(loads[Len(loads)].file)
         /\ \/ SkipDylib /\ DOMAIN loads' = DOMAIN loads
            \/ /\ LoadDylib /\ DOMAIN loads' = 1 .. Len(loads) + 1
               /\ loads'[Len(loads) + 1].file \in FileName \ Names
               /\ loads'[Len(loads) + 1].next = 1
<1>1. Looking /\ loads # <<>> /\ TopLoad.next \in DOMAIN Dylibs(TopLoad.file) /\ LoadTypes
  BY DEF SkipDylib, LoadDylib, Looking, LoadInv
<1>2. /\ Len(loads) \in Nat \ {0} /\ DOMAIN loads = 1 .. Len(loads)
      /\ TopLoad \in LoadCall
      /\ Advanced \in Seq(LoadCall) /\ Len(Advanced) = Len(loads)
      /\ DOMAIN Advanced = DOMAIN loads
      /\ \A i \in DOMAIN loads :
           Advanced[i] = IF i = Len(loads)
                           THEN [file |-> TopLoad.file, next |-> TopLoad.next + 1] ELSE loads[i]
  BY <1>1, AdvancedIsCalls
<1>3. \A i \in DOMAIN loads :
        /\ Advanced[i].file = loads[i].file
        /\ Advanced[i].next = IF i = Len(loads) THEN loads[i].next + 1 ELSE loads[i].next
  BY <1>2 DEF TopLoad
<1>4. CASE SkipDylib
  BY <1>1, <1>2, <1>3, <1>4 DEF SkipDylib, TopLoad
<1>5. CASE LoadDylib
  <2> DEFINE call == [file |-> Dylib, next |-> 1]
             advanced == Advanced
  <2>1. loads' = Append(advanced, call) /\ Dylib \notin Names
    BY <1>5, KnownIsNamed DEF LoadDylib
  <2>2. call \in LoadCall /\ call.file = Dylib /\ call.next = 1 /\ Dylib \in FileName
    BY <1>1, LookingAt DEF LoadCall, LoadInv
  <2>3. advanced \in Seq(LoadCall) /\ Len(advanced) = Len(loads)
    BY <1>2
  <2> HIDE DEF call, advanced
  <2>4. /\ DOMAIN loads' = 1 .. Len(loads) + 1 /\ loads'[Len(loads) + 1] = call
        /\ \A i \in 1 .. Len(loads) : loads'[i] = advanced[i]
    BY <2>1, <2>2, <2>3, AppendProperties, LenProperties
  <2>5. /\ DOMAIN loads \subseteq DOMAIN loads'
        /\ \A i \in DOMAIN loads : loads'[i] = Advanced[i]
    BY <1>2, <2>4 DEF advanced
  <2>6. loads'[Len(loads) + 1].file \in FileName \ Names /\ loads'[Len(loads) + 1].next = 1
    BY <2>1, <2>2, <2>4
  <2>7. loads[Len(loads)].next \in DOMAIN Dylibs(loads[Len(loads)].file)
    BY <1>1 DEF TopLoad
  <2>8. /\ \A i \in DOMAIN loads : loads'[i].file = loads[i].file
        /\ \A i \in DOMAIN loads :
             loads'[i].next = IF i = Len(loads) THEN loads[i].next + 1 ELSE loads[i].next
    BY <1>3, <2>5
  <2> QED BY <1>1, <1>2, <1>5, <2>4, <2>5, <2>6, <2>7, <2>8
<1> QED BY <1>4, <1>5

LEMMA ReturnMoves ==
  ASSUME LoadInv, LoadReturns
  PROVE  /\ loads # <<>> /\ Len(loads) \in Nat \ {0} /\ DOMAIN loads = 1 .. Len(loads)
         /\ DOMAIN loads' = 1 .. Len(loads) - 1
         /\ \A i \in DOMAIN loads' : loads'[i] = loads[i]
<1>1. loads # <<>> /\ loads' = SubSeq(loads, 1, Len(loads) - 1) /\ loads \in Seq(LoadCall)
  BY DEF LoadReturns, LoadInv, LoadTypes
<1>2. Len(loads) \in Nat \ {0} /\ DOMAIN loads = 1 .. Len(loads)
  BY <1>1, LenProperties, EmptySeq
<1>3. \A i \in 1 .. Len(loads) - 1 : loads[i] \in LoadCall
  BY <1>1, <1>2, ElementOfSeq
<1> QED BY <1>1, <1>2, <1>3

LEMMA NextCallsOK ==
  ASSUME LoadInv, CallsOK, [SymbolsNext]_symbolsVars PROVE CallsOK'
<1>1. CASE Load
  <2>1. CASE Parses(disk'[Root])
    <3> DEFINE call == [file |-> Root, next |-> 1]
    <3>1. loads' = <<call>> /\ call.file = Root /\ call.next = 1
      BY <1>1, <2>1 DEF Load
    <3> HIDE DEF call
    <3>2. DOMAIN loads' = {1} /\ loads'[1].file = Root /\ loads'[1].next = 1
      BY <3>1
    <3>3. Len(Dylibs(Root)') \in Nat
      <4>1. Dylibs(Root)' \in Seq(FileName)
        BY <1>1, SymbolsAssumption DEF Load, Dylibs
      <4> QED BY <4>1, LenProperties
    <3> QED BY <3>2, <3>3 DEF CallsOK
  <2>2. CASE ~ Parses(disk'[Root])
    <3>1. loads' = <<>>
      BY <1>1, <2>2 DEF Load
    <3> QED BY <3>1 DEF CallsOK
  <2> QED BY <2>1, <2>2
<1>2. CASE SkipDylib \/ LoadDylib
  <2>1. \A i \in DOMAIN loads : loads[i].file \in Names
    BY DEF LoadInv, LoadTypes
  <2>2. \A f : Dylibs(f)' = Dylibs(f)
    BY <1>2 DEF SkipDylib, LoadDylib, Dylibs
  <2>3. ASSUME NEW i \in DOMAIN loads', NEW j \in DOMAIN loads', loads'[i].file = loads'[j].file
        PROVE  i = j
    BY <1>2, <2>1, <2>3, SkipMoves DEF CallsOK
  <2>4. ASSUME NEW i \in DOMAIN loads' PROVE loads'[i].next <= Len(Dylibs(loads'[i].file)) + 1
    <3>1. CASE i \notin DOMAIN loads
      <4>1. loads'[i].next = 1 /\ loads'[i].file \in FileName
        BY <1>2, <2>4, <3>1, SkipMoves
      <4>2. Dylibs(loads'[i].file) \in Seq(FileName)
        <5>1. files # <<>>
          BY <1>2, SkipMoves DEF LoadInv, Phase
        <5> QED BY <4>1, <5>1 DEF LoadInv, Phase
      <4> QED BY <4>1, <4>2, LenProperties
    <3>2. CASE i \in DOMAIN loads /\ i # Len(loads)
      BY <1>2, <3>2, SkipMoves DEF CallsOK
    <3>3. CASE i \in DOMAIN loads /\ i = Len(loads)
      <4>1. loads'[i].file = loads[i].file /\ loads'[i].next = loads[i].next + 1
            /\ loads[i].next \in DOMAIN Dylibs(loads[i].file)
        BY <1>2, <3>3, SkipMoves
      <4>2. loads[i].next \in 1 .. Len(Dylibs(loads[i].file)) /\ Len(Dylibs(loads[i].file)) \in Nat
        BY <3>3, <4>1, DylibsOfCall
      <4> QED BY <4>1, <4>2
    <3> QED BY <3>1, <3>2, <3>3
  <2> QED BY <2>2, <2>3, <2>4 DEF CallsOK
<1>3. CASE LoadReturns
  <2>1. DOMAIN loads' \subseteq DOMAIN loads /\ \A i \in DOMAIN loads' : loads'[i] = loads[i]
    BY <1>3, ReturnMoves
  <2>2. \A f : Dylibs(f)' = Dylibs(f)
    BY <1>3 DEF LoadReturns, Dylibs
  <2> QED BY <2>1, <2>2 DEF CallsOK
<1>4. CASE UNCHANGED symbolsVars
  BY <1>4 DEF symbolsVars, CallsOK, Dylibs
<1> QED BY <1>1, <1>2, <1>3, <1>4 DEF SymbolsNext, LoadNext

LEMMA CallsInductive == SymbolsSpec => []CallsOK
<1>1. SymbolsInit => CallsOK
  BY DEF SymbolsInit, CallsOK
<1> QED BY <1>1, NextCallsOK, SymbolsInvariant, PTL DEF SymbolsSpec

\* There are no more calls than files.
LEMMA CallsAreFew ==
  ASSUME LoadInv, CallsOK
  PROVE  IsFiniteSet(Names) /\ Len(loads) \in Nat /\ Len(loads) <= Cardinality(Names)
<1>1. files \in Seq(FileName) /\ loads \in Seq(LoadCall) /\ \A i \in DOMAIN loads : loads[i].file \in Names
  BY DEF LoadInv, LoadTypes
<1>2. Len(files) \in Nat /\ DOMAIN files = 1 .. Len(files)
      /\ Len(loads) \in Nat /\ DOMAIN loads = 1 .. Len(loads)
  BY <1>1, LenProperties
<1>3. IsFiniteSet(Names)
  <2> DEFINE g == [i \in DOMAIN files |-> files[i]]
  <2>1. IsFiniteSet(DOMAIN files)
    BY <1>2, FS_Interval
  <2>2. g \in Surjection(DOMAIN files, Names)
    BY DEF Surjection, Names
  <2> QED BY <2>1, <2>2, FS_Surjection
<1>4. Len(loads) <= Cardinality(Names)
  <2> DEFINE h == [i \in 1 .. Len(loads) |-> loads[i].file]
  <2>1. h \in Injection(1 .. Len(loads), Names)
    BY <1>1, <1>2 DEF Injection, IsInjective, CallsOK
  <2>2. Cardinality(1 .. Len(loads)) = Len(loads)
    <3>1. \A n \in Nat : Cardinality(1 .. n) = n
      BY FS_Interval
    <3> QED BY <1>2, <3>1
  <2> HIDE DEF h
  <2> QED BY <1>3, <2>1, <2>2, FS_Injection
<1> QED BY <1>2, <1>3, <1>4

\* The recursion of loadSymbols() is never deeper than there are files loaded, whatever
\* the libraries name.
THEOREM SymbolsDepthBounded == SymbolsSpec => []LoadDepthBounded
<1>1. LoadInv /\ CallsOK => LoadDepthBounded
  BY CallsAreFew DEF LoadDepthBounded, Names
<1> QED BY <1>1, SymbolsInvariant, CallsInductive, PTL

LEMMA LoadWorkIs ==
  ASSUME disk' = disk, NEW i \in 1 .. Cardinality(FileName)
  PROVE  /\ LoadWork[i] = IF i \in DOMAIN loads
                            THEN Len(Dylibs(loads[i].file)) + 2 - loads[i].next ELSE 0
         /\ LoadWork'[i] = IF i \in DOMAIN loads'
                             THEN Len(Dylibs(loads'[i].file)) + 2 - loads'[i].next ELSE 0
BY DEF LoadWork, Dylibs

\* An active call has something to do, if only to return.
LEMMA LoadWorkIsNatural ==
  ASSUME LoadInv, CallsOK
  PROVE  /\ LoadWork \in [1 .. Cardinality(FileName) -> Nat]
         /\ \A i \in DOMAIN loads :
              Len(Dylibs(loads[i].file)) + 2 - loads[i].next \in Nat \ {0}
<1>1. ASSUME NEW i \in DOMAIN loads
      PROVE  Len(Dylibs(loads[i].file)) + 2 - loads[i].next \in Nat \ {0}
  <2>1. loads[i].next <= Len(Dylibs(loads[i].file)) + 1
    BY DEF CallsOK
  <2>2. loads[i].next \in Nat /\ Len(Dylibs(loads[i].file)) \in Nat
    BY DylibsOfCall DEF LoadCall
  <2> QED BY <2>1, <2>2
<1> QED BY <1>1 DEF LoadWork

\* What is left for the last call falls, and those below it are where they were.
LEMMA LoadStepFalls ==
  ASSUME IsFiniteSet(FileName), LoadInv, CallsOK, LoadNext
  PROVE  LessWork(LoadWork', LoadWork)
<1> DEFINE n == Len(loads)
<1>1. n \in Nat \ {0} /\ DOMAIN loads = 1 .. n
  BY SkipMoves, ReturnMoves DEF LoadNext
<1>2. n \in 1 .. Cardinality(FileName)
  <2>1. Names \in SUBSET FileName
    BY LenProperties, ElementOfSeq DEF LoadInv, LoadTypes, Names
  <2>2. n <= Cardinality(Names) /\ Cardinality(Names) <= Cardinality(FileName)
    BY <2>1, CallsAreFew, FS_Subset
  <2>3. Cardinality(Names) \in Nat /\ Cardinality(FileName) \in Nat
    BY CallsAreFew, FS_CardinalityType
  <2> QED BY <1>1, <2>2, <2>3
<1>3. disk' = disk
  BY DEF LoadNext, SkipDylib, LoadDylib, LoadReturns
<1>4. n \in DOMAIN loads /\ Len(Dylibs(loads[n].file)) \in Nat /\ loads[n].next \in Nat
  BY <1>1, DylibsOfCall DEF LoadCall
<1>5. LoadWork'[n] < LoadWork[n]
  <2>1. LoadWork[n] = Len(Dylibs(loads[n].file)) + 2 - loads[n].next
    BY <1>2, <1>3, <1>4, LoadWorkIs
  <2>2. CASE SkipDylib \/ LoadDylib
    <3>1. n \in DOMAIN loads' /\ loads'[n].file = loads[n].file /\ loads'[n].next = loads[n].next + 1
      BY <1>4, <2>2, SkipMoves
    <3>2. LoadWork'[n] = Len(Dylibs(loads[n].file)) + 2 - (loads[n].next + 1)
      BY <1>2, <1>3, <3>1, LoadWorkIs
    <3> QED BY <1>4, <2>1, <3>2
  <2>3. CASE LoadReturns
    <3>1. n \notin DOMAIN loads'
      BY <1>1, <2>3, ReturnMoves
    <3>2. LoadWork'[n] = 0
      BY <1>2, <1>3, <3>1, LoadWorkIs
    <3>3. LoadWork[n] \in Nat \ {0}
      BY <1>4, <2>1, LoadWorkIsNatural
    <3> QED BY <3>2, <3>3
  <2> QED BY <2>2, <2>3 DEF LoadNext
<1>6. ASSUME NEW i \in 1 .. n - 1 PROVE LoadWork'[i] = LoadWork[i]
  <2>1. i \in DOMAIN loads /\ i # n /\ i \in 1 .. Cardinality(FileName)
    <3>1. Cardinality(FileName) \in Nat
      BY FS_CardinalityType
    <3> HIDE DEF n
    <3>2. i \in 1 .. n /\ i # n
      BY <1>1
    <3> QED BY <1>1, <1>2, <3>1, <3>2
  <2>2. i \in DOMAIN loads' /\ loads'[i].file = loads[i].file /\ loads'[i].next = loads[i].next
    <3>1. CASE SkipDylib \/ LoadDylib
      BY <2>1, <3>1, SkipMoves
    <3>2. CASE LoadReturns
      BY <1>1, <2>1, <3>2, ReturnMoves
    <3> QED BY <3>1, <3>2 DEF LoadNext
  <2> QED BY <1>3, <2>1, <2>2, LoadWorkIs
<1>7. DOMAIN LoadWork = 1 .. Cardinality(FileName)
  BY DEF LoadWork
<1> HIDE DEF n
<1> QED BY <1>2, <1>5, <1>6, <1>7 DEF LessWork

\* If there are finitely many files at all, each step of loadSymbols() leaves less to do,
\* whatever the libraries name.
THEOREM LoadingMovesOn ==
  IsFiniteSet(FileName) =>
    (SymbolsSpec => [](LoadWork \in [1 .. Cardinality(FileName) -> Nat]) /\ LoadMovesOn)
<1> SUFFICES ASSUME IsFiniteSet(FileName)
             PROVE  SymbolsSpec => [](LoadWork \in [1 .. Cardinality(FileName) -> Nat]) /\ LoadMovesOn
  OBVIOUS
<1>1. LoadInv /\ CallsOK /\ [SymbolsNext]_symbolsVars
        => [LoadNext => LessWork(LoadWork', LoadWork)]_symbolsVars
  BY LoadStepFalls
<1>2. LoadInv /\ CallsOK => LoadWork \in [1 .. Cardinality(FileName) -> Nat]
  BY LoadWorkIsNatural
<1> QED BY <1>1, <1>2, SymbolsInvariant, CallsInductive, PTL DEF SymbolsSpec, LoadMovesOn
==============================================================================
