------------------------ MODULE RelationStoreProofs ------------------------
(***************************************************************************)
(* The invariants of RelationStore for every set of term arrays, pools of  *)
(* any length and any number of correction rounds.                         *)
(*                                                                         *)
(* None of them is inductive alone.  That the EDB facts stay where they    *)
(* are depends, at the end of a round, on the Incons facts having been     *)
(* restored (RestoredSoFar) and on the uniqueness of terms, and the        *)
(* counter of a correction round on the EDB facts having stayed.           *)
(***************************************************************************)
EXTENDS RelationStore, RuleEvalProofs

\* The facts that the restore loop has passed are Incons again.
RestoredSoFar ==
  /\ phase = "correct" => cursor = 1
  /\ phase = "restore" =>
       \A i \in InconsIn(backup) : i < cursor => HasIncons(rel.facts, backup[i].terms)

\* Loading ends with finalize, and before it nothing is derived.
LoadedOnce ==
  /\ rel.finalized <=> phase # "loading"
  /\ phase = "loading" => rel.facts = << >> /\ backup = << >>

IInv ==
  /\ TypeOK
  /\ PoolsHaveUniqueTerms
  /\ LoadedOnce
  /\ EdbCounterExact
  /\ CorrectionCounts
  /\ RestoredSoFar
  /\ InconsSurvive
  /\ EdbFactsStay

USE DEF Tuple, Relation

LEMMA TypeOKFacts ==
  ASSUME TypeOK
  PROVE  /\ rel \in RelationOf(Terms)
         /\ rel.facts \in PoolOf(Terms)
         /\ rel.edbFacts \in PoolOf(Terms)
         /\ backup \in PoolOf(Terms)
         /\ rel.inconsFactsNumber \in Nat
         /\ rel.edbInconsFactsNumber \in Nat
BY DEF TypeOK, PoolOf, RelationOf

\* Init.
LEMMA InitInvariant == Init => IInv
<1> SUFFICES ASSUME Init PROVE IInv
  OBVIOUS
<1> USE DEF Init, EmptyRelation
<1>1. TypeOK
  BY DEF TypeOK, RelationOf, Phases
<1>2. PoolsHaveUniqueTerms
  BY DEF PoolsHaveUniqueTerms, UniqueTerms
<1>3. EdbCounterExact
  <2>1. InconsIn(rel.edbFacts) = {}
    BY DEF InconsIn
  <2>2. QED
    BY <2>1, FS_EmptySet, Zenon DEF EdbCounterExact
<1>4. LoadedOnce /\ CorrectionCounts /\ RestoredSoFar /\ InconsSurvive /\ EdbFactsStay
  BY DEF LoadedOnce, CorrectionCounts, RestoredSoFar, InconsSurvive, EdbFactsStay
<1>5. QED
  BY <1>1, <1>2, <1>3, <1>4 DEF IInv

\* addEdbTuple
LEMMA AddEdbFactInvariant ==
  ASSUME IInv, NEW terms \in Terms, NEW value \in {False, True}, AddEdbFact(terms, value)
  PROVE  IInv'
<1> DEFINE tuple == [terms |-> terms, value |-> value]
           put == PutTuple(rel.edbFacts, tuple)
           count == PutCount(rel.edbInconsFactsNumber, rel.edbFacts, tuple)
<1>1. /\ rel \in RelationOf(Terms)
      /\ rel.edbFacts \in PoolOf(Terms)
      /\ tuple \in TuplesOver(Terms)
      /\ tuple.value # Incons
  BY TypeOKFacts DEF IInv, TuplesOver, TruthValue, False, True, Incons
<1>2. ~rel.finalized /\ phase = "loading"
  BY DEF IInv, LoadedOnce, AddEdbFact
<1> HIDE DEF tuple
<1>3. put \in PoolOf(Terms) /\ UniqueTerms(put)
  BY <1>1, PutTupleFacts, PutTupleUnique DEF IInv, PoolsHaveUniqueTerms
<1>4. count = Cardinality(InconsIn(put)) /\ count \in Nat
  <2>1. rel.edbInconsFactsNumber = 0 + Cardinality(InconsIn(rel.edbFacts))
    BY <1>1 DEF IInv, EdbCounterExact, RelationOf
  <2>2. count = 0 + Cardinality(InconsIn(put))
    BY <1>1, <2>1, PutCountExact
  <2>3. QED
    BY <1>3, <2>2, InconsFinite
<1>5. rel' = [rel EXCEPT !.edbFacts = put, !.edbInconsFactsNumber = count]
  BY <1>2 DEF AddEdbFact, AddEdbTuple, tuple
<1>6. UNCHANGED <<phase, backup, cursor>>
  BY DEF AddEdbFact
<1> HIDE DEF put, count
<1>7. /\ rel'.edbFacts = put
      /\ rel'.facts = rel.facts
      /\ rel'.edbInconsFactsNumber = count
      /\ rel'.finalized = rel.finalized
      /\ rel' \in RelationOf(Terms)
  BY <1>1, <1>3, <1>4, <1>5 DEF RelationOf, PoolOf
<1>8. TypeOK'
  BY <1>6, <1>7 DEF IInv, TypeOK
<1>9. PoolsHaveUniqueTerms'
  BY <1>3, <1>6, <1>7 DEF IInv, PoolsHaveUniqueTerms
<1>10. EdbCounterExact'
  BY <1>4, <1>7 DEF EdbCounterExact
<1>11. /\ LoadedOnce' /\ CorrectionCounts' /\ RestoredSoFar' /\ InconsSurvive'
       /\ EdbFactsStay'
  BY <1>2, <1>6, <1>7 DEF IInv, LoadedOnce, CorrectionCounts, RestoredSoFar,
                          InconsSurvive, EdbFactsStay
<1>12. QED
  BY <1>8, <1>9, <1>10, <1>11 DEF IInv

\* finalize
LEMMA FinishLoadingInvariant == IInv /\ FinishLoading => IInv'
<1> SUFFICES ASSUME IInv, FinishLoading PROVE IInv'
  OBVIOUS
<1>1. /\ rel \in RelationOf(Terms)
      /\ ~rel.finalized
      /\ backup = << >>
  BY TypeOKFacts DEF IInv, LoadedOnce, FinishLoading
<1>2. phase' = "derive" /\ UNCHANGED <<backup, cursor>>
  BY DEF FinishLoading
<1>3. rel' = [rel EXCEPT !.facts = rel.edbFacts, !.finalized = TRUE,
                         !.inconsFactsNumber = rel.edbInconsFactsNumber]
  BY <1>1 DEF FinishLoading, Finalize
<1>4. /\ rel'.edbFacts = rel.edbFacts
      /\ rel'.facts = rel.edbFacts
      /\ rel'.edbInconsFactsNumber = rel.edbInconsFactsNumber
      /\ rel'.finalized
      /\ rel' \in RelationOf(Terms)
  BY <1>1, <1>3 DEF RelationOf
<1>5. TypeOK'
  BY <1>2, <1>4 DEF IInv, TypeOK, Phases
<1>6. PoolsHaveUniqueTerms' /\ EdbCounterExact'
  BY <1>2, <1>4 DEF IInv, PoolsHaveUniqueTerms, EdbCounterExact
<1>7. InconsSurvive' /\ EdbFactsStay'
  BY <1>1, <1>2, <1>4 DEF InconsSurvive, EdbFactsStay, InconsIn, InfoLeq
<1>8. LoadedOnce' /\ CorrectionCounts' /\ RestoredSoFar'
  BY <1>2, <1>4 DEF LoadedOnce, CorrectionCounts, RestoredSoFar
<1>9. QED
  BY <1>5, <1>6, <1>7, <1>8 DEF IInv

\* addTuple, of a rule result or of the restore loop: whatever its counter
\* does, it keeps what the invariant says of the facts.
LEMMA PutKeepsFacts ==
  ASSUME IInv, phase # "loading", NEW tuple \in TuplesOver(Terms),
         rel' \in RelationOf(Terms),
         rel'.facts = PutTuple(rel.facts, tuple),
         rel'.edbFacts = rel.edbFacts,
         rel'.edbInconsFactsNumber = rel.edbInconsFactsNumber,
         rel'.finalized = rel.finalized,
         UNCHANGED <<phase, backup>>,
         cursor' \in Nat \ {0}
  PROVE  /\ TypeOK' /\ PoolsHaveUniqueTerms' /\ LoadedOnce' /\ EdbCounterExact'
         /\ InconsSurvive' /\ EdbFactsStay'
         /\ \A terms : HasIncons(rel.facts, terms) => HasIncons(rel'.facts, terms)
<1> DEFINE put == PutTuple(rel.facts, tuple)
<1>1. rel.facts \in PoolOf(Terms)
  BY TypeOKFacts DEF IInv
<1>2. \A terms : HasIncons(rel.facts, terms) => HasIncons(put, terms)
  BY <1>1, PutTupleKeepsIncons
<1>3. /\ UniqueTerms(put)
      /\ \A i \in DOMAIN rel.facts : /\ i \in DOMAIN put
                                      /\ put[i].terms = rel.facts[i].terms
                                      /\ InfoLeq(rel.facts[i].value, put[i].value)
  BY <1>1, PutTupleFacts, PutTupleUnique DEF IInv, PoolsHaveUniqueTerms
<1> HIDE DEF put
<1>4. rel'.facts = put
  BY DEF put
<1>5. TypeOK'
  BY DEF IInv, TypeOK
<1>6. PoolsHaveUniqueTerms' /\ EdbCounterExact' /\ LoadedOnce'
  BY <1>3, <1>4 DEF IInv, PoolsHaveUniqueTerms, EdbCounterExact, LoadedOnce
<1>7. InconsSurvive'
  BY <1>2, <1>4 DEF IInv, InconsSurvive
<1>8. EdbFactsStay'
  <2> SUFFICES ASSUME rel.finalized, NEW i \in DOMAIN rel.edbFacts
               PROVE  /\ i \in DOMAIN put
                      /\ put[i].terms = rel.edbFacts[i].terms
                      /\ \/ InfoLeq(rel.edbFacts[i].value, put[i].value)
                         \/ /\ phase \in {"correct", "restore"}
                            /\ HasIncons(backup, rel.edbFacts[i].terms)
    BY <1>4 DEF EdbFactsStay
  <2>1. /\ i \in DOMAIN rel.facts
        /\ rel.facts[i].terms = rel.edbFacts[i].terms
        /\ \/ InfoLeq(rel.edbFacts[i].value, rel.facts[i].value)
           \/ /\ phase \in {"correct", "restore"}
              /\ HasIncons(backup, rel.edbFacts[i].terms)
    BY DEF IInv, EdbFactsStay
  <2>2. InfoLeq(rel.edbFacts[i].value, rel.facts[i].value)
          => InfoLeq(rel.edbFacts[i].value, put[i].value)
    BY <1>3, <2>1 DEF InfoLeq, Incons, Unknown
  <2>3. QED
    BY <1>3, <2>1, <2>2
<1>9. QED
  BY <1>2, <1>4, <1>5, <1>6, <1>7, <1>8

\* addTuple of a rule result
LEMMA AddResultInvariant ==
  ASSUME IInv, NEW terms \in Terms, NEW value \in KnownValues, AddResult(terms, value)
  PROVE  IInv'
<1> DEFINE tuple == [terms |-> terms, value |-> value]
           put == PutTuple(rel.facts, tuple)
           count == PutCount(rel.inconsFactsNumber, rel.facts, tuple)
<1>1. /\ rel \in RelationOf(Terms)
      /\ rel.facts \in PoolOf(Terms)
      /\ tuple \in TuplesOver(Terms)
      /\ tuple.value = value
  BY TypeOKFacts DEF IInv, TuplesOver, KnownValues, TruthValue, False, True, Incons
<1>2. /\ phase \in {"derive", "correct"}
      /\ phase = "correct" => value # Incons
      /\ UNCHANGED <<phase, backup, cursor>>
      /\ rel' = [rel EXCEPT !.facts = put, !.inconsFactsNumber = count]
  BY DEF AddResult, AddTuple
<1> HIDE DEF tuple
<1>3. put \in PoolOf(Terms)
  BY <1>1, PutTupleFacts
<1>4. count \in Nat
  BY <1>1 DEF PutCount, RelationOf
<1>5. phase = "correct" => count = rel.edbInconsFactsNumber + Cardinality(InconsIn(put))
  <2> SUFFICES ASSUME phase = "correct"
               PROVE  count = rel.edbInconsFactsNumber + Cardinality(InconsIn(put))
    OBVIOUS
  <2>1. rel.inconsFactsNumber = rel.edbInconsFactsNumber + Cardinality(InconsIn(rel.facts))
    BY DEF IInv, CorrectionCounts
  <2>2. rel.edbInconsFactsNumber \in Nat
    BY <1>1 DEF RelationOf
  <2>3. QED
    BY <1>1, <1>2, <2>1, <2>2, PutCountExact
<1> HIDE DEF put, count
<1>6. /\ rel'.edbFacts = rel.edbFacts
      /\ rel'.facts = put
      /\ rel'.edbInconsFactsNumber = rel.edbInconsFactsNumber
      /\ rel'.inconsFactsNumber = count
      /\ rel'.finalized = rel.finalized
      /\ rel' \in RelationOf(Terms)
  BY <1>1, <1>2, <1>3, <1>4 DEF RelationOf, PoolOf
<1>7. /\ TypeOK' /\ PoolsHaveUniqueTerms' /\ LoadedOnce' /\ EdbCounterExact'
      /\ InconsSurvive' /\ EdbFactsStay'
  <2>1. phase # "loading" /\ cursor' \in Nat \ {0}
    BY <1>2 DEF IInv, TypeOK
  <2>2. rel'.facts = PutTuple(rel.facts, tuple)
    BY <1>6 DEF put
  <2>3. QED
    BY <1>1, <1>2, <1>6, <2>1, <2>2, PutKeepsFacts
<1>8. CorrectionCounts'
  BY <1>2, <1>5, <1>6 DEF CorrectionCounts
<1>9. RestoredSoFar'
  BY <1>2 DEF IInv, RestoredSoFar
<1>10. QED
  BY <1>7, <1>8, <1>9 DEF IInv

\* clear and clearIncons.  Every EDB fact that is Incons was an Incons fact of
\* the round before, so that none is left.
LEMMA StartCorrectionInvariant == IInv /\ StartCorrection => IInv'
<1> SUFFICES ASSUME IInv, StartCorrection PROVE IInv'
  OBVIOUS
<1> DEFINE cleared == ClearIncons(Clear(rel), rel.facts)
<1>1. /\ rel \in RelationOf(Terms)
      /\ rel.facts \in PoolOf(Terms)
      /\ rel.edbFacts \in PoolOf(Terms)
      /\ rel.finalized
      /\ phase = "derive"
      /\ phase' = "correct" /\ cursor' = 1 /\ backup' = rel.facts /\ rel' = cleared
  BY TypeOKFacts DEF IInv, LoadedOnce, StartCorrection
<1>2. /\ Clear(rel) \in RelationOf(Terms)
      /\ Clear(rel).facts = rel.edbFacts
      /\ Clear(rel).edbFacts = rel.edbFacts
      /\ Clear(rel).inconsFactsNumber = rel.edbInconsFactsNumber
      /\ Clear(rel).edbInconsFactsNumber = rel.edbInconsFactsNumber
      /\ Clear(rel).finalized
  BY <1>1 DEF Clear, RelationOf
<1>3. /\ cleared = [Clear(rel) EXCEPT !.facts = cleared.facts]
      /\ cleared.facts \in PoolOf(Terms)
      /\ DOMAIN cleared.facts = DOMAIN rel.edbFacts
      /\ \A i \in DOMAIN rel.edbFacts :
           /\ cleared.facts[i].terms = rel.edbFacts[i].terms
           /\ cleared.facts[i].value = IF HasIncons(rel.facts, rel.edbFacts[i].terms)
                                       THEN Unknown ELSE rel.edbFacts[i].value
  BY <1>2, ClearInconsFacts
<1> HIDE DEF cleared
<1>4. /\ rel' \in RelationOf(Terms)
      /\ rel'.edbFacts = rel.edbFacts
      /\ rel'.inconsFactsNumber = rel.edbInconsFactsNumber
      /\ rel'.edbInconsFactsNumber = rel.edbInconsFactsNumber
      /\ rel'.finalized
      /\ rel'.facts = cleared.facts
  BY <1>1, <1>2, <1>3 DEF RelationOf, PoolOf
<1>5. TypeOK'
  BY <1>1, <1>4 DEF TypeOK, Phases, PoolOf
<1>6. PoolsHaveUniqueTerms'
  <2>1. UniqueTerms(rel.facts) /\ UniqueTerms(rel.edbFacts)
    BY DEF IInv, PoolsHaveUniqueTerms
  <2>2. UniqueTerms(cleared.facts)
    BY <1>3, <2>1 DEF UniqueTerms
  <2>3. QED
    BY <1>1, <1>4, <2>1, <2>2 DEF PoolsHaveUniqueTerms
<1>7. EdbCounterExact'
  BY <1>4 DEF IInv, EdbCounterExact
<1>8. InconsIn(cleared.facts) = {}
  <2> SUFFICES ASSUME NEW i \in DOMAIN rel.edbFacts, cleared.facts[i].value = Incons
               PROVE  FALSE
    BY <1>3 DEF InconsIn
  <2>1. rel.edbFacts[i].value = Incons /\ ~HasIncons(rel.facts, rel.edbFacts[i].terms)
    BY <1>3 DEF Incons, Unknown
  <2>2. /\ i \in DOMAIN rel.facts
        /\ rel.facts[i].terms = rel.edbFacts[i].terms
        /\ InfoLeq(Incons, rel.facts[i].value)
    BY <1>1, <2>1 DEF IInv, EdbFactsStay
  <2>3. rel.facts[i].value = Incons
    BY <2>2 DEF InfoLeq, Incons, Unknown
  <2>4. rel.facts[i] = [terms |-> rel.edbFacts[i].terms, value |-> Incons]
    BY <1>1, <2>2, <2>3, PoolDomain DEF TuplesOver
  <2>5. QED
    BY <2>1, <2>2, <2>4 DEF HasIncons
<1>9. CorrectionCounts'
  <2>1. Cardinality(InconsIn(rel'.facts)) = 0
    BY <1>4, <1>8, FS_EmptySet, Zenon
  <2>2. QED
    BY <1>4, <2>1 DEF CorrectionCounts, RelationOf
<1>10. LoadedOnce' /\ RestoredSoFar' /\ InconsSurvive'
  BY <1>1, <1>4 DEF LoadedOnce, RestoredSoFar, InconsSurvive
<1>11. EdbFactsStay'
  BY <1>1, <1>3, <1>4 DEF EdbFactsStay, InfoLeq
<1>12. QED
  BY <1>5, <1>6, <1>7, <1>9, <1>10, <1>11 DEF IInv

LEMMA StartRestoreInvariant == IInv /\ StartRestore => IInv'
<1> SUFFICES ASSUME IInv, StartRestore PROVE IInv'
  OBVIOUS
<1>1. phase = "correct" /\ phase' = "restore" /\ UNCHANGED <<rel, backup, cursor>>
  BY DEF StartRestore
<1>2. TypeOK' /\ PoolsHaveUniqueTerms' /\ LoadedOnce' /\ EdbCounterExact'
  BY <1>1 DEF IInv, TypeOK, Phases, PoolsHaveUniqueTerms, LoadedOnce, EdbCounterExact
<1>3. CorrectionCounts' /\ InconsSurvive' /\ EdbFactsStay'
  BY <1>1 DEF IInv, CorrectionCounts, InconsSurvive, EdbFactsStay
<1>4. RestoredSoFar'
  <2>1. cursor = 1 /\ backup \in PoolOf(Terms)
    BY <1>1, TypeOKFacts DEF IInv, RestoredSoFar
  <2>2. \A i \in InconsIn(backup) : ~(i < cursor)
    BY <2>1, PoolDomain DEF InconsIn
  <2>3. QED
    BY <1>1, <2>2 DEF RestoredSoFar
<1>5. QED
  BY <1>2, <1>3, <1>4 DEF IInv

\* One round of the addIncons loop.
LEMMA RestoreTupleInvariant == IInv /\ RestoreTuple => IInv'
<1> SUFFICES ASSUME IInv, RestoreTuple PROVE IInv'
  OBVIOUS
<1> DEFINE tuple == backup[cursor]
           put == PutTuple(rel.facts, tuple)
           count == PutCount(rel.inconsFactsNumber, rel.facts, tuple) + 1
<1>1. /\ rel \in RelationOf(Terms)
      /\ rel.facts \in PoolOf(Terms)
      /\ backup \in PoolOf(Terms)
      /\ cursor \in Nat \ {0}
      /\ phase = "restore"
      /\ cursor <= Len(backup)
      /\ cursor' = cursor + 1
      /\ UNCHANGED <<phase, backup>>
      /\ rel' = AddInconsTuple(rel, tuple)
  BY TypeOKFacts DEF IInv, TypeOK, RestoreTuple
<1>2. cursor \in DOMAIN backup /\ tuple \in TuplesOver(Terms)
  BY <1>1, PoolDomain
<1> HIDE DEF tuple
<1>3. CASE tuple.value = Incons
  <2>1. rel' = [rel EXCEPT !.facts = put, !.inconsFactsNumber = count]
    BY <1>1, <1>3 DEF AddInconsTuple, AddTuple, RelationOf
  <2>2. put \in PoolOf(Terms)
    BY <1>1, <1>2, PutTupleFacts
  <2>3. count \in Nat
    BY <1>1 DEF PutCount, RelationOf
  <2> HIDE DEF put, count
  <2>4. /\ rel'.edbFacts = rel.edbFacts
        /\ rel'.facts = put
        /\ rel'.edbInconsFactsNumber = rel.edbInconsFactsNumber
        /\ rel'.finalized = rel.finalized
        /\ rel' \in RelationOf(Terms)
    BY <1>1, <2>1, <2>2, <2>3 DEF RelationOf, PoolOf
  <2>5. rel'.facts = PutTuple(rel.facts, tuple)
    BY <2>4 DEF put
  <2>6. cursor' \in Nat \ {0} /\ phase # "loading"
    BY <1>1
  <2>7. /\ TypeOK' /\ PoolsHaveUniqueTerms' /\ LoadedOnce' /\ EdbCounterExact'
        /\ InconsSurvive' /\ EdbFactsStay'
        /\ \A terms : HasIncons(rel.facts, terms) => HasIncons(rel'.facts, terms)
    BY <1>1, <1>2, <2>4, <2>5, <2>6, PutKeepsFacts
  <2>8. HasIncons(rel'.facts, tuple.terms)
    <3>1. PICK k \in DOMAIN put : put[k].terms = tuple.terms /\ InfoLeq(Incons, put[k].value)
      BY <1>1, <1>2, <1>3, PutTupleFacts DEF put
    <3>2. put[k].value = Incons /\ put[k] \in TuplesOver(Terms)
      BY <2>2, <3>1, PoolDomain DEF InfoLeq, Incons, Unknown
    <3>3. put[k] = [terms |-> tuple.terms, value |-> Incons]
      BY <3>1, <3>2 DEF TuplesOver
    <3>4. QED
      BY <2>4, <3>3 DEF HasIncons
  <2>9. RestoredSoFar'
    <3> SUFFICES ASSUME NEW i \in InconsIn(backup), i < cursor + 1
                 PROVE  HasIncons(rel'.facts, backup[i].terms)
      BY <1>1 DEF RestoredSoFar
    <3>1. i \in Nat
      BY <1>1, PoolDomain DEF InconsIn
    <3>2. CASE i < cursor
      BY <1>1, <2>7, <3>2 DEF IInv, RestoredSoFar
    <3>3. CASE i = cursor
      BY <2>8, <3>3 DEF tuple
    <3>4. QED
      BY <1>1, <3>1, <3>2, <3>3
  <2>10. CorrectionCounts'
    BY <1>1 DEF CorrectionCounts
  <2>11. QED
    BY <2>7, <2>9, <2>10 DEF IInv
<1>4. CASE tuple.value # Incons
  <2>1. rel' = rel
    BY <1>1, <1>4 DEF AddInconsTuple
  <2>2. TypeOK' /\ PoolsHaveUniqueTerms' /\ LoadedOnce' /\ EdbCounterExact'
    BY <1>1, <2>1 DEF IInv, TypeOK, PoolsHaveUniqueTerms, LoadedOnce, EdbCounterExact
  <2>3. CorrectionCounts' /\ InconsSurvive' /\ EdbFactsStay'
    BY <1>1, <2>1 DEF IInv, CorrectionCounts, InconsSurvive, EdbFactsStay
  <2>4. \A i \in InconsIn(backup) : i < cursor + 1 => i < cursor
    BY <1>1, <1>4, PoolDomain DEF InconsIn, tuple
  <2>5. RestoredSoFar'
    BY <1>1, <2>1, <2>4 DEF IInv, RestoredSoFar
  <2>6. QED
    BY <2>2, <2>3, <2>5 DEF IInv
<1>5. QED
  BY <1>3, <1>4

\* The end of a round: all Incons facts of before are back, and with them the
\* EDB facts that clearIncons had blanked.
LEMMA FinishRestoreInvariant == IInv /\ FinishRestore => IInv'
<1> SUFFICES ASSUME IInv, FinishRestore PROVE IInv'
  OBVIOUS
<1>1. /\ rel.facts \in PoolOf(Terms)
      /\ backup \in PoolOf(Terms)
      /\ cursor \in Nat
      /\ phase = "restore"
      /\ cursor > Len(backup)
      /\ phase' = "derive"
      /\ UNCHANGED <<rel, backup, cursor>>
  BY TypeOKFacts DEF IInv, TypeOK, FinishRestore
<1>2. TypeOK' /\ PoolsHaveUniqueTerms' /\ LoadedOnce' /\ EdbCounterExact'
  BY <1>1 DEF IInv, TypeOK, Phases, PoolsHaveUniqueTerms, LoadedOnce, EdbCounterExact
<1>3. \A i \in InconsIn(backup) : HasIncons(rel.facts, backup[i].terms)
  BY <1>1, PoolDomain DEF IInv, RestoredSoFar, InconsIn
<1>4. CorrectionCounts' /\ RestoredSoFar' /\ InconsSurvive'
  BY <1>1, <1>3 DEF CorrectionCounts, RestoredSoFar, InconsSurvive
<1>5. EdbFactsStay'
  <2> SUFFICES ASSUME rel.finalized, NEW i \in DOMAIN rel.edbFacts
               PROVE  /\ i \in DOMAIN rel.facts
                      /\ rel.facts[i].terms = rel.edbFacts[i].terms
                      /\ InfoLeq(rel.edbFacts[i].value, rel.facts[i].value)
    BY <1>1 DEF EdbFactsStay
  <2>1. /\ i \in DOMAIN rel.facts
        /\ rel.facts[i].terms = rel.edbFacts[i].terms
        /\ \/ InfoLeq(rel.edbFacts[i].value, rel.facts[i].value)
           \/ HasIncons(backup, rel.edbFacts[i].terms)
    BY DEF IInv, EdbFactsStay
  <2>2. ASSUME HasIncons(backup, rel.edbFacts[i].terms)
        PROVE  rel.facts[i].value = Incons
    <3>1. HasIncons(rel.facts, rel.edbFacts[i].terms)
      BY <1>3, <2>2 DEF HasIncons, InconsIn
    <3>2. PICK k \in DOMAIN rel.facts :
            rel.facts[k] = [terms |-> rel.edbFacts[i].terms, value |-> Incons]
      BY <3>1 DEF HasIncons
    <3>3. k = i
      BY <2>1, <3>2 DEF IInv, PoolsHaveUniqueTerms, UniqueTerms
    <3>4. QED
      BY <3>2, <3>3
  <2>3. QED
    BY <2>1, <2>2 DEF InfoLeq
<1>6. QED
  BY <1>2, <1>4, <1>5 DEF IInv

LEMMA NextInvariant == IInv /\ [Next]_vars => IInv'
<1> SUFFICES ASSUME IInv, [Next]_vars PROVE IInv'
  OBVIOUS
<1>1. ASSUME NEW terms \in Terms, NEW value \in {False, True}, AddEdbFact(terms, value)
      PROVE  IInv'
  BY <1>1, AddEdbFactInvariant
<1>2. CASE FinishLoading
  BY <1>2, FinishLoadingInvariant
<1>3. ASSUME NEW terms \in Terms, NEW value \in KnownValues, AddResult(terms, value)
      PROVE  IInv'
  BY <1>3, AddResultInvariant
<1>4. CASE StartCorrection
  BY <1>4, StartCorrectionInvariant
<1>5. CASE StartRestore
  BY <1>5, StartRestoreInvariant
<1>6. CASE RestoreTuple
  BY <1>6, RestoreTupleInvariant
<1>7. CASE FinishRestore
  BY <1>7, FinishRestoreInvariant
<1>8. CASE UNCHANGED vars
  BY <1>8 DEF vars, IInv, TypeOK, PoolsHaveUniqueTerms, LoadedOnce, EdbCounterExact,
              CorrectionCounts, RestoredSoFar, InconsSurvive, EdbFactsStay
<1>9. QED
  BY <1>1, <1>2, <1>3, <1>4, <1>5, <1>6, <1>7, <1>8 DEF Next

LEMMA SpecInvariant == Spec => []IInv
BY InitInvariant, NextInvariant, PTL DEF Spec
------------------------------------------------------------------------------
\* The relation's record keeps its type; its counters never go below zero,
\* which would wrap them (unsigned in KBRelation.h).
THEOREM StoreTypeOK == Spec => []TypeOK
<1>1. IInv => TypeOK
  BY DEF IInv
<1>2. QED
  BY <1>1, SpecInvariant, PTL

\* No pool ever has two tuples with the same terms (the unique hash index of
\* FactsPool).
THEOREM StoreUniqueTerms == Spec => []PoolsHaveUniqueTerms
<1>1. IInv => PoolsHaveUniqueTerms
  BY DEF IInv
<1>2. QED
  BY <1>1, SpecInvariant, PTL

\* The counter of the EDB facts is exact (addEdbTuple).
THEOREM StoreEdbCounter == Spec => []EdbCounterExact
<1>1. IInv => EdbCounterExact
  BY DEF IInv
<1>2. QED
  BY <1>1, SpecInvariant, PTL

\* The counter of the facts is exact while a correction round derives
\* (addTuple, clear, clearIncons).
THEOREM StoreCounts == Spec => []CorrectionCounts
<1>1. IInv => CorrectionCounts
  BY DEF IInv
<1>2. QED
  BY <1>1, SpecInvariant, PTL

\* After any number of correction rounds the Incons facts of before the last
\* one are Incons (clearIncons, addIncons).
THEOREM StoreCorrectionKeeps == Spec => []InconsSurvive
<1>1. IInv => InconsSurvive
  BY DEF IInv
<1>2. QED
  BY <1>1, SpecInvariant, PTL

\* Every EDB fact is at its place with its value or more, whatever rounds
\* there were (clear, clearIncons, addIncons).
THEOREM StoreEdbFactsStay == Spec => []EdbFactsStay
<1>1. IInv => EdbFactsStay
  BY DEF IInv
<1>2. QED
  BY <1>1, SpecInvariant, PTL
------------------------------------------------------------------------------
(***************************************************************************)
(* What a step may do to the record.                                       *)
(***************************************************************************)
Frozen == /\ rel'.edbFacts = rel.edbFacts
          /\ rel'.edbInconsFactsNumber = rel.edbInconsFactsNumber
          /\ rel'.finalized

Grown == \A i \in DOMAIN rel.facts :
           /\ i \in DOMAIN rel'.facts
           /\ rel'.facts[i].terms = rel.facts[i].terms
           /\ InfoLeq(rel.facts[i].value, rel'.facts[i].value)

LEMMA AddTupleStep ==
  ASSUME IInv, phase # "loading", NEW tuple \in TuplesOver(Terms), NEW n,
         rel' = [rel EXCEPT !.facts = PutTuple(rel.facts, tuple), !.inconsFactsNumber = n]
  PROVE  Frozen /\ Grown
<1>1. /\ rel \in RelationOf(Terms) /\ rel.facts \in PoolOf(Terms)
      /\ rel.finalized
  BY TypeOKFacts DEF IInv, LoadedOnce
<1>2. Frozen /\ rel'.facts = PutTuple(rel.facts, tuple)
  BY <1>1 DEF RelationOf, Frozen
<1>3. QED
  BY <1>1, <1>2, PutTupleFacts DEF Grown

LEMMA StepFrozenGrown ==
  ASSUME IInv, [Next]_vars
  PROVE  /\ rel.finalized => Frozen
         /\ StartCorrection \/ Grown
<1>1. /\ rel \in RelationOf(Terms)
      /\ rel.finalized <=> phase # "loading"
      /\ backup \in PoolOf(Terms)
      /\ cursor \in Nat \ {0}
  BY TypeOKFacts DEF IInv, TypeOK, LoadedOnce
<1>2. CASE UNCHANGED rel
  BY <1>2 DEF Frozen, Grown, InfoLeq
<1>3. ASSUME NEW terms \in Terms, NEW value \in {False, True}, AddEdbFact(terms, value)
      PROVE  ~rel.finalized /\ Grown
  BY <1>1, <1>3 DEF AddEdbFact, AddEdbTuple, Grown, InfoLeq, RelationOf
<1>4. CASE FinishLoading
  <2>1. ~rel.finalized /\ rel.facts = << >>
    BY <1>1, <1>4 DEF FinishLoading, IInv, LoadedOnce
  <2>2. QED
    BY <2>1 DEF Grown
<1>5. ASSUME NEW terms \in Terms, NEW value \in KnownValues, AddResult(terms, value)
      PROVE  Frozen /\ Grown
  <2>1. [terms |-> terms, value |-> value] \in TuplesOver(Terms) /\ phase # "loading"
    BY <1>5 DEF AddResult, TuplesOver, KnownValues, TruthValue, False, True, Incons
  <2>2. QED
    BY <1>5, <2>1, AddTupleStep DEF AddResult, AddTuple
<1>6. CASE StartCorrection
  <2>1. /\ Clear(rel) \in RelationOf(Terms)
        /\ Clear(rel).edbFacts = rel.edbFacts
        /\ Clear(rel).edbInconsFactsNumber = rel.edbInconsFactsNumber
        /\ Clear(rel).finalized = rel.finalized
    BY <1>1 DEF Clear, RelationOf
  <2>2. rel' = [Clear(rel) EXCEPT !.facts = rel'.facts]
    BY <1>6, <2>1, ClearInconsFacts DEF StartCorrection
  <2>3. rel.finalized => Frozen
    BY <2>1, <2>2 DEF Frozen, RelationOf
  <2>4. QED
    BY <1>6, <2>3
<1>7. CASE RestoreTuple
  <2>1. backup[cursor] \in TuplesOver(Terms) /\ phase # "loading"
    BY <1>1, <1>7, PoolDomain DEF RestoreTuple
  <2>2. CASE backup[cursor].value = Incons
    <3>1. rel' = [rel EXCEPT !.facts = PutTuple(rel.facts, backup[cursor]),
                             !.inconsFactsNumber =
                               PutCount(rel.inconsFactsNumber, rel.facts, backup[cursor]) + 1]
      BY <1>1, <1>7, <2>2 DEF RestoreTuple, AddInconsTuple, AddTuple, RelationOf
    <3>2. QED
      BY <2>1, <3>1, AddTupleStep
  <2>3. CASE backup[cursor].value # Incons
    BY <1>2, <1>7, <2>3 DEF RestoreTuple, AddInconsTuple
  <2>4. QED
    BY <2>2, <2>3
<1>8. QED
  BY <1>2, <1>3, <1>4, <1>5, <1>6, <1>7
     DEF Next, vars, StartRestore, FinishRestore

\* The facts of the program text and their counter do not change after
\* finalize (addEdbTuple's test of finalized, clear).
THEOREM StoreEdbFrozen == Spec => EdbFrozen
<1>1. IInv /\ [Next]_vars =>
        [rel.finalized => /\ rel'.edbFacts = rel.edbFacts
                          /\ rel'.edbInconsFactsNumber = rel.edbInconsFactsNumber
                          /\ rel'.finalized]_vars
  BY StepFrozenGrown DEF Frozen
<1>2. QED
  BY <1>1, SpecInvariant, PTL DEF Spec, EdbFrozen

\* A relation only learns, except where a correction round takes it back to
\* its EDB facts (addTuple, addIncons, finalize).
THEOREM StoreFactsOnlyGrow == Spec => FactsOnlyGrow
<1>1. StartCorrection => phase = "derive" /\ phase' = "correct"
  BY DEF StartCorrection
<1>2. IInv /\ [Next]_vars =>
        [\/ phase = "derive" /\ phase' = "correct"
         \/ \A i \in DOMAIN rel.facts :
              /\ i \in DOMAIN rel'.facts
              /\ rel'.facts[i].terms = rel.facts[i].terms
              /\ InfoLeq(rel.facts[i].value, rel'.facts[i].value)]_vars
  BY <1>1, StepFrozenGrown DEF Grown
<1>3. QED
  BY <1>2, SpecInvariant, PTL DEF Spec, FactsOnlyGrow
==============================================================================
