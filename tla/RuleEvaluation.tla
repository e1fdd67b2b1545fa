--------------------------- MODULE RuleEvaluation ---------------------------
(***************************************************************************)
(* One call of EvalRule::operator(), from a rule and the pools of its body *)
(* literals to its result, and what the result has to be: a definition by  *)
(* instances of the rule, with no sorting and no merge join.               *)
(***************************************************************************)
EXTENDS RuleEval

CONSTANT Cases    \* sets of rules, each with the pools that relations a and b may have

Term == [isVar : BOOLEAN, id : Nat]
Comparison == [op : STRING, terms : Seq(Term)]
Literal == [rel : {"a", "b"}, terms : Seq(Term), set : SUBSET TruthValue]
RuleRecord == [head : [rel : STRING, isTrue : BOOLEAN, terms : Seq(Term)],
               disjuncts : Seq([body : Seq(Literal), functions : Seq(Comparison)])]
Pool == Seq(TuplesOver(Seq(Nat)))

\* A rule of one disjunct that the validation lets pass: its literals bind the
\* variables of the head and of the comparisons.  The order of the literals is
\* any.
Evaluable(head, disjunct) ==
  LET bound == UNION {VarIds(lit.terms) : lit \in ToSet(disjunct.body)}
  IN  /\ VarIds(head.terms) \subseteq bound
      /\ \A f \in ToSet(disjunct.functions) : VarIds(f.terms) \subseteq bound

ASSUME CasesAssumption ==
  \A case \in Cases :
    /\ case.pools \subseteq Pool
    /\ \A q \in case.rules :
         /\ q \in RuleRecord
         /\ q.disjuncts # << >> /\ \A d \in DOMAIN q.disjuncts : q.disjuncts[d].body # << >>
         /\ \A lit \in ToSet(Literals(q)) : \A pool \in case.pools : \A i \in DOMAIN pool :
              Len(pool[i].terms) = Len(lit.terms)
         /\ Len(q.disjuncts) = 1 => Evaluable(q.head, q.disjuncts[1])

VARIABLES
  rule, pools, result,
  evaluated,    \* the call has returned
  thrown        \* no evaluation was made for the rule, but an exception

vars == <<rule, pools, result, evaluated, thrown>>

Init ==
  /\ \E case \in Cases :
       /\ rule \in case.rules
       /\ pools \in [{"a", "b"} -> case.pools]
  /\ result = << >>
  /\ evaluated = FALSE
  /\ thrown = FALSE

\* CreateEvalRule throws.
Throw ==
  /\ ~evaluated /\ ~thrown /\ FirstUnsafe(rule)
  /\ thrown' = TRUE
  /\ UNCHANGED <<rule, pools, result, evaluated>>

\* CreateEvalRule, GetRelationRefs and the call.
Evaluate ==
  /\ ~evaluated /\ ~FirstUnsafe(rule)
  /\ result' = EvalRule(rule, [k \in DOMAIN Literals(rule) |-> pools[Literals(rule)[k].rel]])
  /\ evaluated' = TRUE
  /\ UNCHANGED <<rule, pools, thrown>>

Next == Evaluate \/ Throw

Spec == Init /\ [][Next]_vars
------------------------------------------------------------------------------
(***************************************************************************)
(* Instances of a rule without disjunction.  A choice takes a fact of the  *)
(* relation for every literal; 0 stands for a fact that the relation does  *)
(* not have, and only a literal that accepts Unknown can do without one.   *)
(***************************************************************************)
Disjuncts == Len(rule.disjuncts)
body == rule.disjuncts[1].body
functions == rule.disjuncts[1].functions

Fact(choice, k) == pools[body[k].rel][choice[k]]

FactChoices ==
  {c \in [DOMAIN body -> 0..Max({0} \cup {Len(pools[r]) : r \in DOMAIN pools})] :
     \A k \in DOMAIN c : c[k] <= Len(pools[body[k].rel]) /\ (c[k] = 0 => IsUnsafe(body[k]))}

\* The value of variable v under a choice is that of its first occurrence in
\* a literal that was given a fact.
Chosen(c) == {k \in DOMAIN c : c[k] # 0}

BindingOf(c, v) ==
  LET k == Min({i \in Chosen(c) : v \in VarIds(body[i].terms)})
  IN  Fact(c, k).terms[FrontIndex(body[k].terms, v)]

Ground(c, terms) ==
  [i \in DOMAIN terms |-> IF terms[i].isVar THEN BindingOf(c, terms[i].id) ELSE terms[i].id]

\* The facts chosen agree with each other and with the literals; where no
\* fact was chosen the relation has none, or only an Unknown one.
IsInstance(c) ==
  \A k \in DOMAIN c :
    LET lit == body[k]
        pool == pools[lit.rel]
    IN  IF c[k] = 0
        THEN ~\E i \in DOMAIN pool :
                /\ pool[i].terms = Ground(c, lit.terms)
                /\ pool[i].value # Unknown
        ELSE /\ Fact(c, k).terms = Ground(c, lit.terms)
             /\ Fact(c, k).value # Unknown
             /\ MatchesTruthValue(lit, Fact(c, k).value)

\* The last of several subgoals evaluates the comparisons of the body.  A body
\* of one literal has none that does, so that its comparisons do not count.
FunctionsHold(c) ==
  Len(body) # 1 =>
    \A k \in DOMAIN functions :
      LET args == Ground(c, functions[k].terms)
      IN  HoldsFor(functions[k].op, args[1], args[2])

\* The value of the first fact as it is, every other one True unless Incons.
BodyValue(c) ==
  LET values == {Fact(c, 1).value} \cup
                {ResolveToTrueOrIncons(Fact(c, k).value) : k \in Chosen(c) \ {1}}
  IN  Min(values)

Outcome(c) == [terms |-> Ground(c, rule.head.terms),
               value |-> ResolveTruthValue(BodyValue(c), rule.head.isTrue)]

Instances == {c \in FactChoices : IsInstance(c) /\ FunctionsHold(c)}

Occurrences(t) == Cardinality({k \in DOMAIN result : result[k] = t})
------------------------------------------------------------------------------
(***************************************************************************)
(* Properties.                                                             *)
(***************************************************************************)

\* No fact has the integer -1, whose number stands for a missing value.
ValuesKnown == \A r \in DOMAIN pools : \A i \in DOMAIN pools[r] : Null \notin ToSet(pools[r][i].terms)

OutcomesOnly == \A k \in DOMAIN result : \E c \in Instances : Outcome(c) = result[k]

\* Every variable of a literal that accepts Unknown is in a literal before it
\* that does not.  The order of a body is so if all its literals share their
\* variables (RulesCovered in Session), but not always (RuleProcessing.cc:15).
BoundInOrder ==
  \A k \in DOMAIN body : IsUnsafe(body[k]) =>
    \A v \in VarIds(body[k].terms) :
      \E j \in 1..k - 1 : ~IsUnsafe(body[j]) /\ v \in VarIds(body[j].terms)

\* If the order of the body binds what its literals that accept Unknown test,
\* every result is the outcome of an instance of the rule: sorting, merging
\* and projecting never make up a tuple, and with more than one literal none
\* gets past a comparison (EvalRule.cc, EvalSubgoal.cc).
ResultSound == evaluated /\ Disjuncts = 1 /\ ValuesKnown /\ BoundInOrder => OutcomesOnly

\* The same of facts with any integer: joined rows have equal values in the
\* columns that the literals share (Join.h).
JoinedForEquality == evaluated /\ Disjuncts = 1 /\ BoundInOrder => OutcomesOnly

\* The merge join finds every instance exactly as often as a nested loop over
\* the body would: skipping rows on both sides at once after a run of equal
\* keys neither loses a pair nor gives it twice.
ResultComplete ==
  evaluated /\ Disjuncts = 1 /\ ValuesKnown /\ ~(\E k \in DOMAIN body : IsUnsafe(body[k])) =>
    LET outcomes == {Outcome(c) : c \in Instances}
    IN  \A t \in outcomes : Occurrences(t) = Cardinality({c \in Instances : Outcome(c) = t})

------------------------------------------------------------------------------
(***************************************************************************)
(* Rules with a disjunction, whose disjuncts all have the variables of the *)
(* head, against what each disjunct gives by itself.                       *)
(***************************************************************************)
Alone(d) ==
  LET literals == rule.disjuncts[d].body
  IN  EvalDisjunct(rule.disjuncts[d], [k \in DOMAIN literals |-> pools[literals[k].rel]],
                   rule.head.terms, rule.head.isTrue)

RowsAlone == UNION {{Alone(d)[i] : i \in DOMAIN Alone(d)} : d \in DOMAIN rule.disjuncts}

\* The outer join brings disjuncts together, it does not make up answers:
\* the head of every result is the head of a row of one of the disjuncts.
DisjunctionSound ==
  evaluated /\ Disjuncts > 1 => \A k \in DOMAIN result : \E row \in RowsAlone : row.terms = result[k].terms
==============================================================================
