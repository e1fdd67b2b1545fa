---------------------------- MODULE MCAlgorithms ----------------------------
(***************************************************************************)
(* Programs for both algorithms: the open ones, and the scripts of         *)
(* test/functional with the answers of their csv files.  A script fixes    *)
(* which facts the text holds and in which order; constants are numbered   *)
(* in the order in which the text names them.                              *)
(***************************************************************************)
EXTENDS Algorithms, MCPrograms

T(rel, terms) == [rel |-> rel, terms |-> terms, value |-> True]
F(rel, terms) == [rel |-> rel, terms |-> terms, value |-> False]
U(rel, term)  == [rel |-> rel, terms |-> <<term>>, value |-> True]

Script(relations, rules, text, rel, csv) ==
  [program |-> OneModule(relations, rules, {text[i] : i \in DOMAIN text}),
   text |-> text, rel |-> rel, csv |-> csv]

Ans(n, value) == [terms |-> <<n>>, value |-> value]

Scripts == {
  Script(<<"q">>, SimpleIncons.modules[1].rules, <<U("q", 3)>>,
    "q", {Ans(1, Incons), Ans(2, Incons), Ans(3, Incons)}),
  Script(<<"q">>,
    << Rule("q", <<c>>, <<Lit("q", <<a>>)>>), NRule("q", <<c>>, <<Lit("q", <<a>>)>>) >>,
    <<U("q", 1)>>, "q", {Ans(3, Incons), Ans(1, True)}),
  Script(<<"r", "q">>, SameRule.modules[1].rules,
    <<U("q", 2), U("q", 1), F("q", <<1>>)>>, "r", {Ans(1, True)}),
  Script(<<"r", "q">>, DifferentRules.modules[1].rules,
    <<U("q", 2), U("q", 1), F("q", <<1>>)>>, "r", {Ans(1, Incons)}),
  Script(<<"p">>, << NRule("p", <<a>>, <<Lit("p", <<b>>)>>) >>,
    <<U("p", 2)>>, "p", {Ans(1, False), Ans(2, True)}),
  Script(<<"p">>,
    << Rule("p", <<Const(4)>>, <<Lit("p", <<b>>)>>), Rule("p", <<a>>, <<NLit("p", <<c>>)>>) >>,
    <<F("p", <<2>>), U("p", 3)>>, "p", {Ans(2, False), Ans(3, True)}),
  Script(<<"q">>, Overload.modules[1].rules, <<U("q", 1)>>,
    "q", {Ans(1, Incons), Ans(2, Incons), Ans(3, Incons)}),
  Script(<<"q", "r">>,
    << DRule("q", <<a>>, << <<Lit("r", <<b>>)>>, <<Lit("q", <<c>>)>> >>),
       Rule("q", <<c>>, <<Lit("q", <<Const(4)>>)>>) >>,
    <<U("q", 4), U("r", 2), F("r", <<2>>)>>,
    "q", {Ans(1, True), Ans(3, True), Ans(4, True)}),
  Script(<<"q">>,
    << NRule("q", <<a>>, <<Lit("q", <<b>>)>>),
       DRule("q", <<b>>, << <<Lit("q", <<a>>)>>, <<Lit("q", <<c>>)>> >>),
       Rule("q", <<Const(4)>>, <<Lit("q", <<a>>)>>),
       Rule("q", <<Const(4)>>, <<Lit("q", <<c>>)>>) >>,
    <<U("q", 1), U("q", 3)>>,
    "q", {Ans(4, Incons), Ans(1, Incons), Ans(2, True), Ans(3, True)}),
  Script(<<"t", "e", "r">>,
    << DRule("r", <<X>>, << <<Lit("t", <<X, Y>>)>>, <<Lit("e", <<X, Y>>)>> >>) >>,
    << T("t", <<1, 2>>), F("t", <<1, 2>>), T("e", <<1, 2>>),
       T("t", <<1, 3>>), F("e", <<1, 3>>), T("e", <<1, 3>>) >>,
    "r", {Ans(1, True)}),
  Script(<<"r", "e", "t", "p">>,
    << DRule("r", <<X>>, << <<Lit("p", <<X>>)>>, <<Lit("t", <<X, Z>>)>>, <<Lit("e", <<X, Z>>)>> >>) >>,
    << U("p", 1), T("e", <<1, 2>>), F("e", <<1, 2>>), U("p", 3), T("t", <<4, 5>>), T("e", <<6, 7>>) >>,
    "r", {Ans(1, True), Ans(3, True), Ans(4, True), Ans(6, True)}) }

ScriptArrays == ArraysOver(1..7 \cup {Null})

MCProgs == OpenPrograms \cup {s.program : s \in Scripts}

\* Every relation's EDB facts are those of the text, in its order.
Loaded(s) ==
  \A r \in RelationsOf(1) :
    LET inText == SelectSeq(s.text, LAMBDA f : f.rel = r)
        put(pool, f) == PutTuple(pool, [terms |-> f.terms, value |-> f.value])
    IN  rels[r].edbFacts = FoldLeft(put, << >>, inText)

\* The functional tests: every script is answered as its csv says, by both
\* algorithms (test/functional, run_tests.py).
ScriptsAnswered ==
  phase = "idle" /\ evaluations > 0 =>
    \A s \in Scripts : s.program = program /\ Loaded(s) => Model[s.rel] = s.csv
==============================================================================
