---------------------------- MODULE RelationStore ----------------------------
(***************************************************************************)
(* The life of one relation, as the parser's facts and the two evaluators  *)
(* drive it: EDB facts arrive until the relation is finalized, then every  *)
(* evaluation adds derived tuples, and a correction round takes the        *)
(* relation back to its EDB facts, derives again, puts the Incons facts of *)
(* before the round back, and derives again from them.                     *)
(*                                                                         *)
(* Which tuples are derived, and in which order, is left open: this is     *)
(* what the relation promises to every rule set and to either algorithm.   *)
(***************************************************************************)
EXTENDS KBRelation

CONSTANT Terms          \* the arrays of ground terms the relation may hold

VARIABLES
  rel,      \* the relation's record (facts, edbFacts, counters, finalized)
  phase,    \* what the evaluator is doing with it
  backup,   \* its entry of prevIdbRelations
  cursor    \* position of the addIncons loop in backup

vars == <<rel, phase, backup, cursor>>

\* loading: before finalize.  derive: rule results are added to the facts of
\* before.  correct: rule results are added to what is left of the EDB facts.
\* restore: the addIncons loop.
Phases == {"loading", "derive", "correct", "restore"}

KnownValues == {False, Incons, True}

Tuple == TuplesOver(Terms)

Relation == RelationOf(Terms)

TypeOK ==
  /\ rel \in Relation
  /\ phase \in Phases
  /\ backup \in Seq(Tuple)
  /\ cursor \in Nat \ {0}

Init ==
  /\ rel = EmptyRelation
  /\ phase = "loading"
  /\ backup = << >>
  /\ cursor = 1

\* KnowledgeBase::addFact: a fact of the program text is True or False.
AddEdbFact(terms, value) ==
  /\ phase = "loading"
  /\ rel' = AddEdbTuple(rel, [terms |-> terms, value |-> value])
  /\ UNCHANGED <<phase, backup, cursor>>

FinishLoading ==
  /\ phase = "loading"
  /\ rel' = Finalize(rel)
  /\ phase' = "derive"
  /\ UNCHANGED <<backup, cursor>>

\* A rule result.  While the facts are corrected no Incons result is added.
AddResult(terms, value) ==
  /\ phase \in {"derive", "correct"}
  /\ phase = "correct" => value # Incons
  /\ rel' = AddTuple(rel, [terms |-> terms, value |-> value])
  /\ UNCHANGED <<phase, backup, cursor>>

\* The start of a correction round: the facts are moved to prevIdbRelations,
\* clear brings the EDB facts back and clearIncons blanks those of them that
\* were Incons.
StartCorrection ==
  /\ phase = "derive"
  /\ backup' = rel.facts
  /\ rel' = ClearIncons(Clear(rel), rel.facts)
  /\ phase' = "correct"
  /\ cursor' = 1

StartRestore ==
  /\ phase = "correct"
  /\ phase' = "restore"
  /\ UNCHANGED <<rel, backup, cursor>>

RestoreTuple ==
  /\ phase = "restore"
  /\ cursor <= Len(backup)
  /\ rel' = AddInconsTuple(rel, backup[cursor])
  /\ cursor' = cursor + 1
  /\ UNCHANGED <<phase, backup>>

\* A mutant: the loop leaves out the last tuple of the backup.
FinishRestoreEarly ==
  /\ phase = "restore"
  /\ cursor >= Len(backup)
  /\ phase' = "derive"
  /\ UNCHANGED <<rel, backup, cursor>>

FinishRestore ==
  /\ phase = "restore"
  /\ cursor > Len(backup)
  /\ phase' = "derive"
  /\ UNCHANGED <<rel, backup, cursor>>

Next ==
  \/ \E terms \in Terms, value \in {False, True} : AddEdbFact(terms, value)
  \/ FinishLoading
  \/ \E terms \in Terms, value \in KnownValues : AddResult(terms, value)
  \/ StartCorrection
  \/ StartRestore
  \/ RestoreTuple
  \/ FinishRestore

Spec == Init /\ [][Next]_vars
------------------------------------------------------------------------------
(***************************************************************************)
(* Properties.                                                             *)
(***************************************************************************)

\* The hash index: no pool of the relation ever holds two tuples with the
\* same terms, although tuples arrive from the text, from rules and from the
\* backup of an earlier round (FactsPool, KBRelation.h).
PoolsHaveUniqueTerms ==
  UniqueTerms(rel.facts) /\ UniqueTerms(rel.edbFacts) /\ UniqueTerms(backup)

\* addEdbTuple counts only merges, and a fact of the text is never Incons by
\* itself: the EDB counter is the number of Incons EDB facts, so that clear
\* restores a counter that fits the facts it restores.
EdbCounterExact == rel.edbInconsFactsNumber = Cardinality(InconsIn(rel.edbFacts))

\* While a round derives, the counter is the EDB counter plus one for every
\* fact that is Incons now: clearIncons leaves no Incons fact and takes
\* nothing off the counter, and each merge to Incons since then was counted.
CorrectionCounts ==
  phase = "correct" =>
    rel.inconsFactsNumber = rel.edbInconsFactsNumber + Cardinality(InconsIn(rel.facts))

\* Once finalized, the EDB facts and their counter never change: every
\* correction round starts from the facts of the program text.
EdbFrozen ==
  [][rel.finalized => /\ rel'.edbFacts = rel.edbFacts
                      /\ rel'.edbInconsFactsNumber = rel.edbInconsFactsNumber
                      /\ rel'.finalized]_vars

\* Incons facts survive a correction round: the facts that were Incons when
\* the round began are Incons again when its restore loop is over, whatever
\* the round derived for them meanwhile.
InconsSurvive ==
  phase = "derive" => \A i \in InconsIn(backup) : HasIncons(rel.facts, backup[i].terms)

\* Outside the start of a correction round a relation only learns: no fact
\* disappears, moves in the insertion order or loses information.
FactsOnlyGrow ==
  [][\/ phase = "derive" /\ phase' = "correct"
     \/ \A i \in DOMAIN rel.facts :
          /\ i \in DOMAIN rel'.facts
          /\ rel'.facts[i].terms = rel.facts[i].terms
          /\ InfoLeq(rel.facts[i].value, rel'.facts[i].value)]_vars

\* A correction round forgets only what it can derive again: every EDB fact
\* keeps its place at the head of the facts, with its EDB value or more,
\* except that an EDB fact that was Incons may start as Unknown.
EdbFactsStay ==
  rel.finalized =>
    \A i \in DOMAIN rel.edbFacts :
      /\ i \in DOMAIN rel.facts
      /\ rel.facts[i].terms = rel.edbFacts[i].terms
      /\ \/ InfoLeq(rel.edbFacts[i].value, rel.facts[i].value)
         \/ phase \in {"correct", "restore"} /\ HasIncons(backup, rel.edbFacts[i].terms)
==============================================================================
