------------------------- MODULE SemiNaiveEvaluation -------------------------
(***************************************************************************)
(* SemiNaiveEvaluation.cc: after a first pass on the whole relations a     *)
(* rule is evaluated once for every literal of its body whose relation has *)
(* new facts, with the delta in place of that relation, until a pass adds  *)
(* nothing.  In the incons phase the rules are evaluated naively and the   *)
(* deltas only tell when to stop.                                          *)
(***************************************************************************)
EXTENDS Evaluation

VARIABLES
  deltas,      \* relationDeltas
  newDeltas,   \* newDeltaRelations; in the first pass, relationDeltas
  firstPass    \* whether firstPass is running, and not evaluateRules

semiVars == <<deltas, newDeltas, firstPass>>

NoDeltas == [r \in Relations |-> << >>]

SemiInit ==
  /\ BaseInit
  /\ deltas = NoDeltas
  /\ newDeltas = NoDeltas
  /\ firstPass = TRUE

\* A mutant: only the last literal of the body takes a delta.
DeltaLiteralsLast(evaluated) ==
  LET literals == Literals(evaluated)
  IN  Ascending({k \in DOMAIN literals :
        k = Len(literals) /\ literals[k].rel \in Heads /\ deltas[literals[k].rel] # << >>})

\* The literals whose relations are heads of the module and have a delta, in
\* the order of the body.
DeltaLiterals(evaluated) ==
  LET literals == Literals(evaluated)
  IN  Ascending({k \in DOMAIN literals :
        literals[k].rel \in Heads /\ deltas[literals[k].rel] # << >>})

RefsWithDelta(evaluated, k) ==
  [RelationRefs(evaluated) EXCEPT ![k] = deltas[Literals(evaluated)[k].rel]]

\* A rule with a disjunction can only be evaluated naively.
EvaluatedWhole(evaluated) ==
  firstPass \/ phase = "incons" \/ Len(evaluated.disjuncts) > 1

\* What the rule is evaluated on, one evaluation after the other.
RefsInTurn(evaluated) ==
  IF EvaluatedWhole(evaluated)
  THEN <<RelationRefs(evaluated)>>
  ELSE [n \in DOMAIN DeltaLiterals(evaluated) |->
          RefsWithDelta(evaluated, DeltaLiterals(evaluated)[n])]

SemiEvaluateRule ==
  /\ RuleDue
  /\ LET inTurn(refs) == FlattenSeq([n \in DOMAIN refs |-> EvalRule(Rules[rule], refs[n])])
     IN  pending' = ToAdd(inTurn(RefsInTurn(Rules[rule])))
  /\ rule' = rule + 1
  /\ UNCHANGED <<program, rels, loaded, evaluations, mod, phase, backup, cursor,
                 genInfos, deltas, newDeltas, firstPass>>

\* AddToDeltaRelation: the tuple with the value the fact has now; one that
\* is in the delta already only takes that value.
PutDelta(delta, tuple, value) ==
  IF ~Has(delta, tuple.terms)
  THEN Append(delta, [tuple EXCEPT !.value = value])
  ELSE IF value # tuple.value
       THEN [delta EXCEPT ![IndexOf(delta, tuple.terms)].value = value]
       ELSE delta

SemiAddPending ==
  /\ pending # << >>
  /\ LET head  == Rules[rule - 1].head.rel
         tuple == Head(pending)
         info  == AddInfo(rels[head].facts, tuple)
     IN  /\ rels' = [rels EXCEPT ![head] = AddTuple(@, tuple)]
         /\ newDeltas' = IF info.added
                         THEN [newDeltas EXCEPT ![head] = PutDelta(@, tuple, info.value)]
                         ELSE newDeltas
  /\ pending' = Tail(pending)
  /\ UNCHANGED <<program, loaded, evaluations, mod, phase, rule, backup, cursor,
                 genInfos, deltas, firstPass>>

\* areDeltasEmpty, after relationDeltas = std::move(newDeltaRelations)
SemiNextPass ==
  /\ PassDone
  /\ newDeltas # NoDeltas
  /\ deltas' = newDeltas
  /\ newDeltas' = NoDeltas
  /\ firstPass' = FALSE
  /\ rule' = 1
  /\ UNCHANGED <<program, rels, loaded, evaluations, mod, phase, pending,
                 backup, cursor, genInfos>>

SemiGenerateOver == PassDone /\ newDeltas = NoDeltas

ForgetDeltas ==
  /\ deltas' = NoDeltas
  /\ firstPass' = TRUE
  /\ UNCHANGED newDeltas

SemiEvaluator ==
  \/ SemiEvaluateRule
  \/ SemiAddPending
  \/ SemiNextPass
  \/ Rounds(SemiGenerateOver) /\ ForgetDeltas
==============================================================================
