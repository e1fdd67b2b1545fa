------------------------------ MODULE MCSession ------------------------------
(***************************************************************************)
(* Texts for Session: modules that are accepted, and modules that are      *)
(* wrong in one way each.                                                  *)
(***************************************************************************)
EXTENDS Session

MCVariables == {"X", "Y", "Z"}

Rel(name, types) == [name |-> name, types |-> types]
HeadLit(rel, terms) == [rel |-> rel, isTrue |-> TRUE, terms |-> terms]
Lit(rel, terms) == [module |-> Own, rel |-> rel, isTrue |-> TRUE, terms |-> terms, set |-> {}]
Ext(module, rel, terms, set) ==
  [module |-> module, rel |-> rel, isTrue |-> TRUE, terms |-> terms, set |-> set]
NegExt(module, rel, terms) == [Ext(module, rel, terms, {}) EXCEPT !.isTrue = FALSE]
Disjunct(body, functions) == [body |-> body, functions |-> functions]
Rule(head, disjuncts) == [head |-> head, disjuncts |-> disjuncts]
Fact(rel, terms) == [rel |-> rel, terms |-> terms]
Text(name, rels, rls, facts) == [name |-> name, relations |-> rels, rules |-> rls, facts |-> facts]

X == <<"X">>
Y == <<"Y">>
ABC == <<Rel("a", <<"id">>), Rel("b", <<"integer">>)>>
aX == Lit("a", X)
bY == Lit("b", Y)

\* m has two relations, a fact said twice and a rule.
M == Text("m", ABC, <<Rule(HeadLit("a", X), <<Disjunct(<<aX>>, << >>)>>)>>,
          <<Fact("a", <<"idString">>), Fact("a", <<"idString">>), Fact("b", <<"integer">>)>>)

\* n reads m under a constraint, and has a relation of the same name.
N == Text("n", <<Rel("a", <<"id">>), Rel("c", <<"integer", "id">>)>>,
          <<Rule(HeadLit("a", X), <<Disjunct(<<Ext("m", "a", X, {Unknown}), aX>>, << >>)>>),
            Rule(HeadLit("c", <<"Y", "X">>),
                 <<Disjunct(<<Ext("m", "a", X, {}), Lit("c", <<"Y", "X">>), Ext("m", "b", Y, {Unknown, True})>>,
                            << <<"Y", "integer">> >>)>>)>>,
          <<Fact("c", <<"integer", "id">>)>>)

\* o has a negated literal of m.
O == Text("o", <<Rel("a", <<"id">>)>>,
          <<Rule(HeadLit("a", X), <<Disjunct(<<NegExt("m", "a", X), aX>>, << >>)>>)>>, << >>)

\* p has a literal that shares no variable with the one that accepts Unknown.
P == Text("p", ABC,
          <<Rule(HeadLit("a", X), <<Disjunct(<<aX, bY, Ext("m", "b", Y, {Unknown})>>, << >>)>>)>>, << >>)

\* The second disjunct compares what only the first one binds, and the third
\* one has no variable of the head.
Q == Text("q", ABC,
          <<Rule(HeadLit("a", X), <<Disjunct(<<aX, bY>>, << >>), Disjunct(<<aX>>, << <<"Y", "integer">> >>),
                                    Disjunct(<<bY>>, << >>)>>)>>, << >>)

\* The last fact of r is of the wrong type.
R == Text("r", ABC, << >>, <<Fact("b", <<"integer">>), Fact("b", <<"string">>)>>)

Refused == {
  R,
  Text("m", ABC, << >>, << >>),
  Text("r", <<Rel("a", <<"id">>), Rel("a", <<"id">>)>>, << >>, << >>),
  Text("r", ABC, <<Rule(HeadLit("a", X), <<Disjunct(<<Ext("r", "a", X, {})>>, << >>)>>)>>, << >>),
  Text("r", ABC, <<Rule(HeadLit("a", X), <<Disjunct(<<Ext("m", "c", X, {})>>, << >>)>>)>>, << >>),
  Text("r", ABC, <<Rule(HeadLit("a", X), <<Disjunct(<<Lit("b", X)>>, << >>)>>)>>, << >>),
  Text("r", ABC, <<Rule(HeadLit("a", X), <<Disjunct(<<bY, Ext("m", "a", X, {Unknown})>>, << >>)>>)>>, << >>),
  Text("r", ABC, <<Rule(HeadLit("a", X), <<Disjunct(<<aX>>, << <<"Y", "integer">> >>)>>)>>, << >>),
  Text("r", ABC, <<Rule(HeadLit("a", X), <<Disjunct(<<aX>>, << <<"X", "integer">> >>)>>)>>, << >>),
  Text("r", ABC, <<Rule(HeadLit("a", <<"X", "Y">>), <<Disjunct(<<aX, bY>>, << >>)>>)>>, << >>)}

MCTexts == {M, N, O, P, Q} \cup Refused \cup {
  Text("s", <<Rel("a", <<"id">>), Rel("b", <<"integer", "id">>)>>, << >>, << >>),
  Text("t", <<Rel("a", <<"id">>)>>, << >>, << >>),
  Text("u", <<Rel("a", <<"id">>)>>, << >>, << >>)}

\* A module as it is written.
Block(t, domains) ==
  [name |-> t.name, domains |-> domains, relations |-> t.relations,
   rules |-> t.rules, facts |-> t.facts]

Domain(type, alias) == [type |-> type, alias |-> alias]

File(texts) == [blocks |-> [i \in DOMAIN texts |-> Block(texts[i], << >>)], wellFormed |-> TRUE]

\* A domain that is given twice, one that is not given, and one without a
\* section of domains.
Aliased ==
  {<<Block(Text("s", <<Rel("a", <<"name">>), Rel("b", <<"integer", "name">>)>>, << >>, << >>),
           <<Domain("id", "name"), Domain("integer", "name")>>)>>,
   <<Block(Text("t", <<Rel("a", <<"name">>), Rel("b", <<"age">>)>>, << >>, << >>),
           <<Domain("id", "name")>>)>>,
   <<Block(Text("u", <<Rel("a", <<"id">>), Rel("b", <<"age">>)>>, << >>, << >>), << >>)>>}

MCFiles ==
  {File(<<M, O, N>>), File(<<P, R, Q>>), [File(<<M>>) EXCEPT !.wellFormed = FALSE]}
    \cup {File(<<t>>) : t \in {M, N, O, P, Q} \cup Refused}
    \cup {[blocks |-> blocks, wellFormed |-> TRUE] : blocks \in Aliased}
==============================================================================
