--------------------------- MODULE NaiveEvaluation ---------------------------
(***************************************************************************)
(* NaiveEvaluation.cc: generate evaluates every rule of the module on the  *)
(* whole relations, pass after pass, until a pass leaves the number of     *)
(* facts and the counter of Incons facts of the module as they were.       *)
(***************************************************************************)
EXTENDS Evaluation

VARIABLE passInfo     \* prevFactsNumber and prevInconsFactsNumber of generate

NaiveInit == BaseInit /\ passInfo = NoGenInfo

\* A mutant: the counts of the previous pass are taken only once.
NaiveEvaluateRuleOldCounts ==
  /\ RuleDue
  /\ pending' = ToAdd(EvalRule(Rules[rule], RelationRefs(Rules[rule])))
  /\ rule' = rule + 1
  /\ passInfo' = IF rule = 1 /\ passInfo = NoGenInfo THEN GenInfo ELSE passInfo
  /\ UNCHANGED <<program, rels, loaded, evaluations, mod, phase, backup, cursor, genInfos>>

NaiveEvaluateRule ==
  /\ RuleDue
  /\ pending' = ToAdd(EvalRule(Rules[rule], RelationRefs(Rules[rule])))
  /\ rule' = rule + 1
  /\ passInfo' = IF rule = 1 THEN GenInfo ELSE passInfo
  /\ UNCHANGED <<program, rels, loaded, evaluations, mod, phase, backup, cursor, genInfos>>

NaiveAddPending ==
  /\ pending # << >>
  /\ rels' = [rels EXCEPT ![Rules[rule - 1].head.rel] = AddTuple(@, Head(pending))]
  /\ pending' = Tail(pending)
  /\ UNCHANGED <<program, loaded, evaluations, mod, phase, rule, backup, cursor, genInfos, passInfo>>

NaiveNextPass ==
  /\ PassDone
  /\ GenInfo # passInfo
  /\ rule' = 1
  /\ UNCHANGED <<program, rels, loaded, evaluations, mod, phase, pending,
                 backup, cursor, genInfos, passInfo>>

\* A mutant: generate is over after a single pass.
NaiveGenerateOverOnce == PassDone

\* A module without rules has nothing to do in its only pass.
NaiveGenerateOver == PassDone /\ (Rules = << >> \/ GenInfo = passInfo)

NaiveEvaluator ==
  \/ NaiveEvaluateRule
  \/ NaiveAddPending
  \/ NaiveNextPass
  \/ Rounds(NaiveGenerateOver) /\ UNCHANGED passInfo
==============================================================================
