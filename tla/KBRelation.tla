----------------------------- MODULE KBRelation -----------------------------
(***************************************************************************)
(* The relation store of KBRelation.h and KBRelation.cc.                   *)
(*                                                                         *)
(* A FactsPool is a multi-index container: it is read in the order of      *)
(* insertion and holds at most one tuple for an array of terms.  It is a   *)
(* sequence of tuples [terms, value] here, because the order decides what  *)
(* an aggregated rule result is.  The counters count Incons facts; they    *)
(* stay far below the width of an unsigned and are natural numbers here.   *)
(***************************************************************************)
EXTENDS TruthValues, FiniteSets

TuplesOver(T) == [terms : T, value : TruthValue]

Has(pool, terms) == \E i \in DOMAIN pool : pool[i].terms = terms

IndexOf(pool, terms) == CHOOSE i \in DOMAIN pool : pool[i].terms = terms

ValueIn(pool, terms) == pool[IndexOf(pool, terms)].value

HasIncons(pool, terms) == \E i \in DOMAIN pool : pool[i] = [terms |-> terms, value |-> Incons]

InconsIn(pool) == {i \in DOMAIN pool : pool[i].value = Incons}

UniqueTerms(pool) ==
  \A i, j \in DOMAIN pool : pool[i].terms = pool[j].terms => i = j

RelationOf(T) ==
  [facts : Seq(TuplesOver(T)), edbFacts : Seq(TuplesOver(T)),
   inconsFactsNumber : Nat, edbInconsFactsNumber : Nat, finalized : BOOLEAN]

EmptyRelation ==
  [facts |-> << >>, edbFacts |-> << >>,
   inconsFactsNumber |-> 0, edbInconsFactsNumber |-> 0, finalized |-> FALSE]

(***************************************************************************)
(* addTuple and addEdbTuple on a pool and its counter: a tuple with new    *)
(* terms goes to the end and is not counted, whatever its value; otherwise *)
(* the two values are merged, and only a merge that makes the fact Incons  *)
(* is counted.                                                             *)
(***************************************************************************)
Merged(pool, tuple) == DisjunctionWrtOrdering(ValueIn(pool, tuple.terms), tuple.value)

BecomesIncons(pool, tuple) ==
  /\ Has(pool, tuple.terms)
  /\ ValueIn(pool, tuple.terms) # Incons
  /\ Merged(pool, tuple) = Incons

\* Mutants of the next definitions: plausible slips that some property tells from them.
PutTupleOverwrites(pool, tuple) ==
  IF Has(pool, tuple.terms)
  THEN [pool EXCEPT ![IndexOf(pool, tuple.terms)].value = tuple.value]
  ELSE Append(pool, tuple)

PutTupleByValue(pool, tuple) ==
  IF Has(pool, tuple.terms) /\ ValueIn(pool, tuple.terms) = tuple.value
  THEN pool ELSE Append(pool, tuple)

PutCountAnyIncons(count, pool, tuple) ==
  IF Has(pool, tuple.terms) /\ Merged(pool, tuple) = Incons THEN count + 1 ELSE count

PutCountNever(count, pool, tuple) == count

PutTuple(pool, tuple) ==
  IF Has(pool, tuple.terms)
  THEN [pool EXCEPT ![IndexOf(pool, tuple.terms)].value = Merged(pool, tuple)]
  ELSE Append(pool, tuple)

PutCount(count, pool, tuple) == IF BecomesIncons(pool, tuple) THEN count + 1 ELSE count

AddEdbTuple(rel, tuple) ==
  IF rel.finalized
  THEN rel
  ELSE [rel EXCEPT !.edbFacts = PutTuple(@, tuple),
                   !.edbInconsFactsNumber = PutCount(@, rel.edbFacts, tuple)]

AddTupleToEdb(rel, tuple) ==
  [rel EXCEPT !.edbFacts = PutTuple(@, tuple),
              !.edbInconsFactsNumber = PutCount(@, rel.edbFacts, tuple)]

AddTuple(rel, tuple) ==
  [rel EXCEPT !.facts = PutTuple(@, tuple),
              !.inconsFactsNumber = PutCount(@, rel.facts, tuple)]

\* What addTuple returns: whether the tuple counts as added (a change of an
\* Unknown fact to True or False does not) and the value it then has.
AddInfo(pool, tuple) ==
  [added |-> ~Has(pool, tuple.terms) \/ BecomesIncons(pool, tuple),
   value |-> IF ~Has(pool, tuple.terms) THEN tuple.value
             ELSE IF BecomesIncons(pool, tuple) THEN Incons
             ELSE ValueIn(pool, tuple.terms)]

Finalize(rel) ==
  IF rel.finalized
  THEN rel
  ELSE [rel EXCEPT !.facts = rel.edbFacts, !.finalized = TRUE,
                   !.inconsFactsNumber = rel.edbInconsFactsNumber]

ClearFactsOnly(rel) == [rel EXCEPT !.facts = rel.edbFacts]

ClearAll(rel) == [rel EXCEPT !.facts = << >>, !.inconsFactsNumber = rel.edbInconsFactsNumber]

Clear(rel) ==
  [rel EXCEPT !.facts = rel.edbFacts, !.inconsFactsNumber = rel.edbInconsFactsNumber]

ClearInconsCountsAll(rel, removed) ==
  LET cleared == {i \in DOMAIN rel.facts : /\ HasIncons(removed, rel.facts[i].terms)
                                           /\ rel.facts[i].value # Unknown}
  IN  [rel EXCEPT !.facts = [i \in DOMAIN rel.facts |->
                               IF i \in cleared THEN [rel.facts[i] EXCEPT !.value = Unknown]
                                                ELSE rel.facts[i]],
                  !.inconsFactsNumber = @ - Cardinality(cleared)]

\* The facts that are Incons in removed become Unknown.  The counter is to
\* go down for the facts among them that were Incons, but the value is
\* tested after it has been overwritten.
ClearIncons(rel, removed) ==
  LET cleared == {i \in DOMAIN rel.facts : /\ HasIncons(removed, rel.facts[i].terms)
                                           /\ rel.facts[i].value # Unknown}
      facts   == [i \in DOMAIN rel.facts |->
                    IF i \in cleared THEN [rel.facts[i] EXCEPT !.value = Unknown]
                                     ELSE rel.facts[i]]
      stillIncons == {i \in cleared : facts[i].value = Incons}
  IN  [rel EXCEPT !.facts = facts,
                  !.inconsFactsNumber = @ - Cardinality(stillIncons)]

\* One round of addIncons's loop.  The counter goes up here and, when the
\* tuple makes a fact Incons, in addTuple too.
AddInconsTuple(rel, tuple) ==
  IF tuple.value = Incons
  THEN [AddTuple(rel, tuple) EXCEPT !.inconsFactsNumber = @ + 1]
  ELSE rel
==============================================================================
