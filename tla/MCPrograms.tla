------------------------------ MODULE MCPrograms ------------------------------
(***************************************************************************)
(* Programs for TLC, most of them scripts of test/functional whose facts   *)
(* are left open.                                                          *)
(***************************************************************************)
EXTENDS RuleEval

X == Var(1)
Y == Var(2)
Z == Var(3)

\* Constants in the order of their interned numbers.
a == Const(1)
b == Const(2)
c == Const(3)

Lit(rel, terms)  == [rel |-> rel, terms |-> terms, set |-> {True, Incons}]
NLit(rel, terms) == [rel |-> rel, terms |-> terms, set |-> {False, Incons}]
In(rel, terms, set) == [rel |-> rel, terms |-> terms, set |-> set]

Disjuncts(bodies) == [d \in DOMAIN bodies |-> [body |-> bodies[d], functions |-> << >>]]
DRule(rel, terms, bodies) ==
  [head |-> [rel |-> rel, isTrue |-> TRUE, terms |-> terms], disjuncts |-> Disjuncts(bodies)]
Rule(rel, terms, body) == DRule(rel, terms, <<body>>)
NRule(rel, terms, body) == [Rule(rel, terms, body) EXCEPT !.head.isTrue = FALSE]

\* The facts over an array of constants with one of the given values.
FactsWith(rel, arrays, values) ==
  {[rel |-> rel, terms |-> t, value |-> v] : t \in arrays, v \in values}

OneModule(relations, rules, facts) ==
  [modules |-> << [relations |-> relations, rules |-> rules] >>, facts |-> facts]

\* simple_incons.4ql
SimpleIncons ==
  OneModule(<<"q">>,
    << Rule("q", <<b>>, <<Lit("q", <<c>>)>>),
       Rule("q", <<a>>, <<Lit("q", <<b>>)>>),
       NRule("q", <<c>>, <<Lit("q", <<a>>)>>) >>,
    FactsWith("q", {<<1>>, <<3>>}, {True, False}))

\* different_rules.4ql, whose two rules have the same head
DifferentRules ==
  OneModule(<<"r", "q">>,
    << Rule("r", <<a>>, <<Lit("q", <<X>>)>>),
       Rule("r", <<a>>, <<Lit("q", <<a>>)>>) >>,
    FactsWith("q", {<<1>>, <<2>>}, {True, False}))

\* same_rule.4ql: two facts give the rule one result
SameRule ==
  OneModule(<<"r", "q">>, << Rule("r", <<a>>, <<Lit("q", <<X>>)>>) >>,
    FactsWith("q", {<<1>>, <<2>>}, {True, False}))

\* pq.4ql with a third rule that takes back what the second derives
MutualRecursion ==
  OneModule(<<"p", "q">>,
    << Rule("q", <<X>>, <<Lit("p", <<X>>)>>),
       Rule("p", <<X>>, <<Lit("q", <<X>>)>>),
       NRule("q", <<X>>, <<Lit("p", <<X>>), NLit("q", <<Y>>)>>) >>,
    FactsWith("q", {<<1>>, <<2>>}, {True, False}))

\* tc.4ql: transitive closure, joined with the delta on either side
Closure ==
  OneModule(<<"t", "e">>,
    << Rule("t", <<X, Y>>, <<Lit("e", <<X, Y>>)>>),
       Rule("t", <<X, Y>>, <<Lit("t", <<X, Z>>), Lit("e", <<Z, Y>>)>>) >>,
    FactsWith("e", {<<1, 2>>, <<2, 3>>, <<3, 1>>}, {True}) \cup
    FactsWith("e", {<<2, 3>>}, {False}))

\* A module that asks an earlier one for what is not known there.
External ==
  [modules |->
     << [relations |-> <<"s">>,
         rules |-> << Rule("s", <<b>>, <<Lit("s", <<a>>)>>) >>],
        [relations |-> <<"u", "w">>,
         rules |-> << Rule("u", <<X>>, <<Lit("w", <<X>>), In("s", <<X>>, {Unknown, False})>>),
                      NRule("u", <<X>>, <<Lit("s", <<X>>)>>) >>] >>,
   facts |-> FactsWith("s", {<<1>>}, {True, False}) \cup
             FactsWith("w", {<<1>>, <<2>>, <<3>>}, {True})]

\* overload.4ql, with a, b, c for overloaded, rest_time and wait
Overload ==
  OneModule(<<"q">>,
    << DRule("q", <<c>>, << <<Lit("q", <<a>>)>>, <<Lit("q", <<b>>)>> >>),
       Rule("q", <<b>>, <<Lit("q", <<c>>)>>),
       NRule("q", <<a>>, <<Lit("q", <<b>>)>>) >>,
    FactsWith("q", {<<1>>, <<2>>}, {True, False}))

\* disjunction_null.4ql with two disjuncts
TwoDisjuncts ==
  OneModule(<<"r", "p", "t">>,
    << DRule("r", <<X>>, << <<Lit("p", <<X>>)>>, <<Lit("t", <<X, Y>>)>> >>) >>,
    FactsWith("p", {<<1>>, <<2>>}, {True}) \cup FactsWith("t", {<<1, 2>>, <<3, 1>>}, {True, False}))

\* An inconsistent fact among others, copied.
Copy ==
  OneModule(<<"r", "q">>, << Rule("r", <<X>>, <<Lit("q", <<X>>)>>) >>,
    FactsWith("q", {<<1>>}, {True, False}) \cup FactsWith("q", {<<2>>, <<3>>}, {True}))

\* Transitive closure with two literals of the closure in one body.
NonLinear ==
  OneModule(<<"t", "e">>,
    << Rule("t", <<X, Y>>, <<Lit("e", <<X, Y>>)>>),
       Rule("t", <<X, Y>>, <<Lit("t", <<X, Z>>), Lit("t", <<Z, Y>>)>>) >>,
    FactsWith("e", {<<1, 2>>, <<2, 3>>, <<3, 1>>}, {True}))

\* What the passing runs evaluate.
OpenPrograms ==
  {SimpleIncons, DifferentRules, SameRule, MutualRecursion, Closure, NonLinear, External, Overload}

AllRelations == {"p", "q", "r", "t", "e", "s", "u", "w"}
ArraysOver(values) == {<<x>> : x \in values} \cup (values \X values)
Arrays == ArraysOver(1..3 \cup {Null})
==============================================================================
