---------------------------- MODULE QueryAnswering ----------------------------
(***************************************************************************)
(* Names, numbers and queries: the interning of terms (TermMapper,         *)
(* DataPool), the reading and conversion of a query (Query.cc,             *)
(* KnowledgeBase::convertQuery) and its answer from one relation           *)
(* (Evaluation::queryKB).                                                  *)
(*                                                                         *)
(* The constants of facts and the constants and variables of rules share   *)
(* the pool of strings, and are numbered from 0 in the order in which they *)
(* are met.  A query interns nothing: it numbers its own variables from 0  *)
(* and looks its constants up.                                             *)
(***************************************************************************)
EXTENDS KBRelation, QueryText

CONSTANTS
  Names,      \* names of constants
  VarNames,   \* names of variables
  Arity,      \* of the relation
  Queries,    \* the texts of queries
  MaxFacts    \* how many facts the relation gets at most

\* A text is a sequence of tokens.
ASSUME QueriesAreTexts == Queries \subseteq Seq([code : STRING, name : STRING])

ASSUME NamesAssumption == Names \cap VarNames = {} /\ Arity \in Nat \ {0} /\ MaxFacts \in Nat

VARIABLES
  strTermPool,   \* the strings in the order in which they were interned
  facts,         \* the relation's facts
  written,       \* the facts as the text has them
  query,         \* the last query
  answer         \* and its answer

vars == <<strTermPool, facts, written, query, answer>>

\* The number of a string, for the pool that has it.
QueryId(pool, name) == (CHOOSE i \in DOMAIN pool : pool[i] = name) - 1

\* DataPool::insert, and for the strings of a literal from left to right.
Insert(pool, name) == IF Contains(pool, name) THEN pool ELSE Append(pool, name)

Intern(pool, names) == FoldLeft(Insert, pool, names)

\* The relation is p of the module m; a query may name another one.
TheModule == "m"
TheRelation == "p"

Outcome(outcome) == [outcome |-> outcome, facts |-> << >>]

NoAnswer == Outcome("none")

Init ==
  /\ strTermPool = << >>
  /\ facts = << >>
  /\ written = {}
  /\ query = << >>
  /\ answer = NoAnswer

\* A fact of the text.  Equal terms meet in addEdbTuple.
AddFact(names, value) ==
  /\ query = << >>
  /\ Len(facts) < MaxFacts
  /\ LET pool == Intern(strTermPool, names)
     IN  /\ strTermPool' = pool
         /\ facts' = PutTuple(facts, [terms |-> [i \in DOMAIN names |-> QueryId(pool, names[i])],
                                      value |-> value])
  /\ written' = written \cup {[terms |-> names, value |-> value]}
  /\ UNCHANGED <<query, answer>>

\* A literal of a rule, or a fact of another relation, names a term.
InternTerm(name) ==
  /\ query = << >>
  /\ strTermPool' = Intern(strTermPool, <<name>>)
  /\ UNCHANGED <<facts, written, query, answer>>

\* varMap: the variables in the order in which they are met.
NumberTerm(varMap, t) == IF t \in VarNames THEN Insert(varMap, t) ELSE varMap

VarMap(q) == FoldLeft(NumberTerm, << >>, q)

\* convertQuery: a term is [val, isVar], and a constant that was never
\* interned is an InvalidInputException.
ConvertQuery(q) ==
  [i \in DOMAIN q |-> IF q[i] \in VarNames
                      THEN [val |-> QueryId(VarMap(q), q[i]), isVar |-> TRUE]
                      ELSE [val |-> QueryId(strTermPool, q[i]), isVar |-> FALSE]]

\* A mutant: the variables are looked up too.
ConvertibleIfInterned(read) ==
  /\ read.module = TheModule /\ read.predicate = TheRelation
  /\ Len(read.terms) = Arity
  /\ \A i \in 1..Arity : Contains(strTermPool, read.terms[i])

Convertible(read) ==
  /\ read.module = TheModule /\ read.predicate = TheRelation
  /\ Len(read.terms) = Arity
  /\ \A i \in 1..Arity : read.terms[i] \in VarNames \/ Contains(strTermPool, read.terms[i])

\* A mutant: a constant may stand for another one.
CanBeUnifiedLoosely(terms, tuple) ==
  \E i \in DOMAIN terms : terms[i].isVar \/ terms[i].val = tuple[i]

\* canBeUnified.  The terms of a variable that occurs more than once are
\* compared with the number of the variable, not with each other.
CanBeUnified(terms, tuple) ==
  /\ \A i, j \in DOMAIN terms :
       i # j /\ terms[i].isVar /\ terms[i] = terms[j] => tuple[i] = terms[i].val
  /\ \A i \in DOMAIN terms : terms[i].val = tuple[i] \/ terms[i].isVar

\* queryKB
QueryKB(terms) ==
  FoldLeft(LAMBDA result, f : IF CanBeUnified(terms, f.terms) THEN Append(result, f) ELSE result,
           << >>, facts)

\* Program::query, with the terms of the answer as queryTerm names them.  A
\* query is asked between the scripts, never while one is read.
Answered(terms) ==
  LET found == QueryKB(terms)
  IN  [outcome |-> "answered",
       facts |-> [k \in DOMAIN found |->
                    [terms |-> [i \in 1..Arity |-> strTermPool[found[k].terms[i] + 1]],
                     value |-> found[k].value]]]

Ask(text) ==
  LET read == ReadQuery(text)
  IN  /\ query = << >>
      /\ query' = text
      /\ \/ read.status # "read" /\ answer' = Outcome("syntax")
         \/ read.status = "read" /\ ~Convertible(read) /\ answer' = Outcome("refused")
         \/ read.status = "read" /\ Convertible(read) /\ answer' = Answered(ConvertQuery(read.terms))
      /\ UNCHANGED <<strTermPool, facts, written>>

\* The caller has read the answer.
Forget ==
  /\ query # << >>
  /\ query' = << >>
  /\ answer' = NoAnswer
  /\ UNCHANGED <<strTermPool, facts, written>>

Next ==
  \/ \E names \in [1..Arity -> Names], value \in {False, True} : AddFact(names, value)
  \/ \E name \in Names \cup VarNames : InternTerm(name)
  \/ \E q \in Queries : Ask(q)
  \/ Forget

Spec == Init /\ [][Next]_vars
------------------------------------------------------------------------------
(***************************************************************************)
(* Properties.                                                             *)
(***************************************************************************)

\* What the text says of an array of names.
Said(names) == {f.value : f \in {g \in written : g.terms = names}}

Matches(q, names) ==
  /\ Len(q) = Len(names)
  /\ \A i \in DOMAIN q : q[i] \in VarNames \/ q[i] = names[i]
  /\ \A i, j \in DOMAIN q : q[i] \in VarNames /\ q[i] = q[j] => names[i] = names[j]

\* The text asks for the relation.
Named == Len(query) >= 3 /\ query[1].name = TheModule /\ query[3].name = TheRelation

Expected ==
  {[terms |-> names, value |-> IF Said(names) = {True, False} THEN Incons
                               ELSE CHOOSE v \in Said(names) : TRUE] :
     names \in {n \in {f.terms : f \in written} : Named /\ Matches(TermsWritten(query), n)}}

NoVariableTwice(q) == \A i, j \in DOMAIN q : q[i] \in VarNames /\ q[i] = q[j] => i = j

\* A query in which no variable occurs twice is answered with the facts of the
\* script that it matches, each once, under the names that the script gave
\* them and contradicted where it contradicts itself: neither the order of
\* interning nor the names that other relations and rules bring lead it to
\* another fact (queryKB, canBeUnified).  For a repeated variable the code does
\* not promise that; see canBeUnified above.
AnswerExact ==
  answer.outcome = "answered" /\ NoVariableTwice(TermsWritten(query)) =>
    /\ {answer.facts[k] : k \in DOMAIN answer.facts} = Expected
    /\ Len(answer.facts) = Cardinality(Expected)

\* "Term not found": a query that is refused has no answer.
RefusalJustified == answer.outcome = "refused" => Expected = {}

\* The two ways to read a query agree: what is a query in a script (QlParse.y
\* 485) is read when it is asked at the prompt or in an option (Query.cc 51).
\* The second one also takes a comma, a dot or a parenthesis for a term.
SyntaxErrorJustified == answer.outcome = "syntax" => ~Sentence(query)
==============================================================================
