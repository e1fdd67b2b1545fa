-------------------------- MODULE MCRuleEvaluation --------------------------
(* Rules and pools for TLC: two binary relations a and b over 1 and 2. *)
EXTENDS RuleEvaluation

X == Var(1)
Y == Var(2)
Z == Var(3)
W == Var(4)

Lit(rel, terms)  == [rel |-> rel, terms |-> terms, set |-> {True, Incons}]
NLit(rel, terms) == [rel |-> rel, terms |-> terms, set |-> {False, Incons}]
In(rel, terms, set) == [rel |-> rel, terms |-> terms, set |-> set]

Rule(sign, head, bd, funs) ==
  [head |-> [rel |-> "h", isTrue |-> sign, terms |-> head],
   disjuncts |-> << [body |-> bd, functions |-> funs] >>]
Disjoined(sign, head, bodies) ==
  [head |-> [rel |-> "h", isTrue |-> sign, terms |-> head],
   disjuncts |-> [d \in DOMAIN bodies |-> [body |-> bodies[d], functions |-> << >>]]]
Fun(op, x, y) == [op |-> op, terms |-> <<x, y>>]

\* A pool for every choice of a value, or of none (-1), for each of the given
\* arrays of terms, in their order.
PoolsOver(order, values) ==
  { SelectSeq([i \in DOMAIN order |-> [terms |-> order[i], value |-> f[i]]],
              LAMBDA t : t.value # -1) : f \in [DOMAIN order -> values] }

Pairs == << <<2, 2>>, <<1, 2>>, <<2, 1>>, <<1, 1>> >>

JoinRules == {
  Rule(TRUE,  <<X, Z>>, <<Lit("a", <<X, Y>>), Lit("b", <<Y, Z>>)>>, << >>),
  Rule(TRUE,  <<X, Y>>, <<Lit("a", <<X, Y>>), Lit("b", <<Y, X>>)>>, << >>),
  Rule(FALSE, <<X>>,    <<Lit("a", <<X, X>>), Lit("b", <<Y, X>>)>>, << >>),
  Rule(TRUE,  <<X, W>>, <<Lit("a", <<X, Y>>), Lit("b", <<Y, Z>>), Lit("a", <<Z, W>>)>>, << >>),
  Rule(TRUE,  <<Const(1), Y>>, <<Lit("a", <<Const(2), Y>>), NLit("b", <<Z, Y>>)>>, << >>),
  Rule(FALSE, <<X, Y>>, <<Lit("a", <<X, X>>), Lit("b", <<Y, Z>>)>>, <<Fun("!=", Y, Z)>>),
  Rule(TRUE,  <<X, Z>>, <<Lit("a", <<X, Y>>), Lit("b", <<Y, Z>>)>>, <<Fun(">=", X, Z), Fun(">", Y, Const(Null))>>),
  Rule(TRUE,  <<Y, X>>, <<NLit("a", <<X, Y>>)>>, <<Fun("<", X, Y)>>) }

\* Some pools are full of True facts, so that long runs of equal keys meet;
\* the others are short and have all the values.
Short == << <<2, 2>>, <<1, 2>>, <<1, 1>> >>

JoinPools == PoolsOver(Pairs, {-1, True}) \cup PoolsOver(Short, {-1, False, Incons, True})

\* The last two have the order that SortRuleLiterals gives to their bodies: a
\* literal that tests Z before Z is bound, and one without variables first.
UnknownRules == {
  Rule(TRUE,  <<X, Y>>, <<Lit("a", <<X, Y>>), In("b", <<X, Y>>, {Unknown})>>, << >>),
  Rule(TRUE,  <<X, Y>>, <<Lit("a", <<X, Y>>), In("b", <<Y, X>>, {Unknown, True})>>, << >>),
  Rule(FALSE, <<X>>,    <<Lit("a", <<X, Y>>), In("b", <<Y, Y>>, {Unknown, Incons})>>, << >>),
  Rule(TRUE,  <<Y, Const(1)>>, <<Lit("a", <<X, Y>>), In("b", <<Const(2), Y>>, {Unknown, False})>>, << >>),
  Rule(TRUE,  <<X, Y>>, <<Lit("a", <<X, Y>>), In("b", <<X, Y>>, {Unknown})>>, <<Fun("<", X, Y)>>),
  Rule(TRUE,  <<X, Z>>, <<Lit("a", <<X, X>>), In("b", <<Z, X>>, {Unknown}), In("b", <<X, Z>>, {Unknown}),
                          Lit("a", <<W, W>>), Lit("a", <<Z, Z>>)>>, << >>),
  Rule(TRUE,  <<X, Y>>, <<In("b", <<Const(1), Const(2)>>, {Unknown}), Lit("a", <<X, Y>>)>>, << >>) }

UnknownPools == PoolsOver(Pairs, {-1, True}) \cup PoolsOver(Short, {-1, False, Unknown, True})

DisjunctionRules == {
  Disjoined(TRUE,  <<X>>,    << <<Lit("a", <<X, Y>>)>>, <<Lit("b", <<X, Z>>)>> >>),
  Disjoined(TRUE,  <<Z>>,    << <<Lit("a", <<X, Z>>)>>, <<Lit("b", <<X, Z>>)>> >>),
  Disjoined(FALSE, <<X, Y>>, << <<Lit("a", <<X, Y>>), Lit("b", <<Y, X>>)>>, <<NLit("b", <<X, Y>>)>>,
                                <<Lit("b", <<X, Y>>)>> >>),
  Disjoined(TRUE,  <<Y>>,    << <<Lit("a", <<X, Y>>)>>, <<Lit("b", <<Y, Z>>)>>,
                                <<Lit("a", <<Y, Z>>)>> >>),
  Disjoined(TRUE,  <<X>>,    << <<Lit("a", <<X, Y>>)>>, <<Lit("a", <<X, Z>>)>>,
                                <<Lit("a", <<X, Z>>), Lit("b", <<X, W>>)>>, <<Lit("b", <<X, Z>>)>> >>) }

Case(rules, poolSet) == [rules |-> rules, pools |-> poolSet]

AllCases == {Case(JoinRules, JoinPools), Case(UnknownRules, UnknownPools),
             Case(DisjunctionRules, UnknownPools)}

\* An integer -1 has the number that stands for a missing value.
NullPools == PoolsOver(<< <<1, Null>>, <<Null, 2>>, <<1, 1>>, <<2, 2>> >>, {-1, True})
NullCases == {Case(JoinRules, NullPools)}

==============================================================================
