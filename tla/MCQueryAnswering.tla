-------------------------- MODULE MCQueryAnswering --------------------------
(* Queries for TLC, over a binary relation. *)
EXTENDS QueryAnswering

ConstantNames == {"a", "b"}
VariableNames == {"X", "Y"}

Token(code) == [code |-> code, name |-> ""]
Word(name) == [code |-> IF name \in VariableNames THEN "VAR" ELSE "ID", name |-> name]

Opening(module, rel) == <<Word(module), Token("DOT"), Word(rel), Token("LRB")>>

Text(terms) ==
  Opening("m", "p") \o [i \in 1..2 * Len(terms) |->
    IF i % 2 = 1 THEN Word(terms[(i + 1) \div 2])
    ELSE Token(IF i = 2 * Len(terms) THEN "RRB" ELSE "COMMA")]

\* Every query, with a constant that no text has.
AllQueries == [1..Arity -> ConstantNames \cup VariableNames \cup {"c"}]

\* Texts that are cut off, that have tokens out of place, too few terms or
\* too many, or that ask for what is not there.
OddTexts ==
  {Opening("m", "p"), Opening("m", "p") \o <<Token("RRB")>>,
   Opening("m", "p") \o <<Token("COMMA"), Token("COMMA"), Word("X"), Token("COMMA"), Word("a"), Token("RRB")>>,
   Opening("m", "p") \o <<Word("X"), Word("a"), Token("RRB")>>,
   Opening("m", "p") \o <<Word("X"), Token("COMMA"), Token("RRB")>>,
   <<Word("m"), Word("p")>>,
   Text(<<"X", "a">>) \o <<Word("b")>>, Text(<<"X">>), Text(<<"X", "a", "Y">>),
   Opening("m", "c") \o <<Word("X"), Token("COMMA"), Word("Y"), Token("RRB")>>}

Texts == {Text(q) : q \in AllQueries} \cup OddTexts
==============================================================================
