--------------------------- MODULE MCStopped_proof ---------------------------
(***************************************************************************)
(* The debugger while its debuggee stands still, its parts together.  A    *)
(* behaviour of MCStopped is, for each part, a behaviour of that part, so  *)
(* that what the parts' proofs show holds here: all their types, which is  *)
(* what MCStopped's TypeOK says.  And the measures of the three            *)
(* computations, by which each of their steps leaves less to do, cannot    *)
(* fall for ever.                                                          *)
(***************************************************************************)
EXTENDS MCStopped, MDBSymbols_proof, MDBRegions_proof, MDBWalks_proof, MBList_proof,
        WellFoundedInduction, TLAPS

-----------------------------------------------------------------------------
(* The parts.                                                              *)

\* What one part does is a step of its own and leaves the state of the others alone.
LEMMA PartsStep ==
  [Next]_vars => /\ [SymbolsNext]_symbolsVars /\ [RegionsNext]_regionsVars
                 /\ [StackNext]_stackVars /\ [MapNext]_mapVars /\ [ListNext]_listVars
<1> SUFFICES ASSUME [Next]_vars
             PROVE  /\ [SymbolsNext]_symbolsVars /\ [RegionsNext]_regionsVars
                    /\ [StackNext]_stackVars /\ [MapNext]_mapVars /\ [ListNext]_listVars
  OBVIOUS
<1>1. CASE SymbolsNext /\ UNCHANGED <<regionsVars, stackVars, mapVars, listVars>>
  BY <1>1
<1>2. CASE RegionsNext /\ UNCHANGED <<symbolsVars, stackVars, mapVars, listVars>>
  BY <1>2
<1>3. CASE StackNext /\ UNCHANGED <<symbolsVars, regionsVars, mapVars, listVars>>
  BY <1>3
<1>4. CASE MapNext /\ UNCHANGED <<symbolsVars, regionsVars, stackVars, listVars>>
  BY <1>4
<1>5. CASE ListNext /\ UNCHANGED <<symbolsVars, regionsVars, stackVars, mapVars>>
  BY <1>5
<1>6. CASE UNCHANGED <<symbolsVars, regionsVars, stackVars, mapVars, listVars>>
  BY <1>6
<1> QED BY <1>1, <1>2, <1>3, <1>4, <1>5, <1>6 DEF Next, vars

\* Whatever is computed while the debuggee stands still, symbols, regions, backtraces, the
\* memory map and lists each behave as their own specifications say.
THEOREM PartsBehave == Spec => SymbolsSpec /\ RegionsSpec /\ StackSpec /\ MapSpec /\ ListSpec
<1>1. Init => SymbolsInit /\ RegionsInit /\ StackInit /\ MapInit /\ ListInit
  BY DEF Init
<1> QED BY <1>1, PartsStep, PTL DEF Spec, SymbolsSpec, RegionsSpec, StackSpec, MapSpec, ListSpec

\* With any files, code, memory and values, every variable of every part holds a value of
\* its type.
THEOREM StoppedTypes == Spec => []TypeOK
<1>1. SymbolsTypeOK /\ RegionsTypeOK /\ StackTypeOK /\ MapTypeOK /\ ListTypeOK => TypeOK
  BY DEF TypeOK
<1> QED BY <1>1, PartsBehave, SymbolsTypes, RegionsTypes, StackTypes, MapTypesHold, ListTypes, PTL

-----------------------------------------------------------------------------
(* Loops and recursions that move on.                                      *)

\* In any inputs, with finitely many files, each step of loadSymbols(), scanProcedure() and
\* of the walks over the memory map of a live debuggee leaves less to do, in measures that
\* stay functions to the naturals.
THEOREM StoppedMovesOn ==
  IsFiniteSet(FileName) =>
    (Spec => /\ MovesOn
             /\ [](/\ LoadWork \in [1 .. Cardinality(FileName) -> Nat]
                  /\ ScanWork \in [1 .. MaxCalls + 1 -> Nat]
                  /\ WalkWork \in [1 .. 3 -> Nat]))
<1> SUFFICES ASSUME IsFiniteSet(FileName)
             PROVE  Spec => /\ MovesOn
                            /\ [](/\ LoadWork \in [1 .. Cardinality(FileName) -> Nat]
                                 /\ ScanWork \in [1 .. MaxCalls + 1 -> Nat]
                                 /\ WalkWork \in [1 .. 3 -> Nat])
  OBVIOUS
<1>1. SymbolsSpec => [](LoadWork \in [1 .. Cardinality(FileName) -> Nat]) /\ LoadMovesOn
  BY LoadingMovesOn
<1> QED BY <1>1, ScanningMovesOn, WalksMoveOn, PartsBehave, PTL DEF MovesOn

\* What is left to do, in the measures of loadSymbols(), scanProcedure() and the walk over
\* the memory map, cannot become less for ever: every set of measures has a least one.
THEOREM WorkRunsOut ==
  ASSUME NEW n \in Nat, NEW W, W \subseteq [1 .. n -> Nat], W # {}
  PROVE  \E f \in W : \A g \in W : ~ LessWork(g, f)
<1> DEFINE R == OpToRel(<, Nat)
           L == LexProductOrdering(R, Nat, n)
<1>1. IsWellFoundedOn(L, [1 .. n -> Nat])
  <2>1. IsWellFoundedOn(R, Nat)
    BY NatLessThanWellFounded
  <2> HIDE DEF R
  <2> QED BY <2>1, WFLexProductOrdering
<1>2. PICK f \in W : \A g \in W : <<g, f>> \notin L
  <2> HIDE DEF L
  <2> QED BY <1>1, WFMin
<1>3. ASSUME NEW g \in W, LessWork(g, f) PROVE <<g, f>> \in L
  <2>1. f \in [1 .. n -> Nat] /\ g \in [1 .. n -> Nat]
    OBVIOUS
  <2>2. PICK j \in 1 .. n : g[j] < f[j] /\ \A i \in 1 .. j - 1 : g[i] = f[i]
    BY <1>3, <2>1 DEF LessWork
  <2>3. <<g[j], f[j]>> \in R
    BY <2>1, <2>2 DEF OpToRel
  <2> HIDE DEF R
  <2> QED BY <2>1, <2>2, <2>3 DEF LexProductOrdering
<1> QED BY <1>2, <1>3
==============================================================================
