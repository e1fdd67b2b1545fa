------------------------------ MODULE QueryText ------------------------------
(***************************************************************************)
(* The reading of a query from its text (Query.cc), which does without the *)
(* grammar: a loop over the tokens whose state is how many there were.     *)
(*                                                                         *)
(* A token is [code, name].  The codes of constants that are not names are *)
(* left out; they are read like names.                                     *)
(***************************************************************************)
EXTENDS Naturals, SequencesExt

\* tokens
Beginning == <<"ID", "DOT", "ID", "LRB">>

tokensLen == Len(Beginning)

NothingRead ==
  [tokIdx |-> 0, module |-> "", predicate |-> "", terms |-> << >>, status |-> "reading"]

OutOfPlace(tokIdx, code) ==
  IF tokIdx < tokensLen THEN code # Beginning[tokIdx + 1]
                        ELSE tokIdx % 2 = 1 /\ code # "COMMA"

\* A mutant: the parenthesis may close from the second term on.
ClosesLate(tokIdx, code) == OutOfPlace(tokIdx, code) /\ code = "RRB" /\ tokIdx > tokensLen + 1

Closes(tokIdx, code) == OutOfPlace(tokIdx, code) /\ code = "RRB" /\ tokIdx > tokensLen

\* Where a term is due, the loop takes a comma, a dot and a parenthesis too.
Taken(tokIdx, code) ==
  ~OutOfPlace(tokIdx, code) /\ code \in {"ID", "VAR", "DOT", "LRB", "COMMA"}

ReadToken(read, token) ==
  LET i == read.tokIdx
      isTerm == token.code = "VAR" \/ (token.code = "ID" /\ i >= tokensLen)
  IN  CASE read.status # "reading" -> read
        [] read.status = "reading" /\ Closes(i, token.code) -> [read EXCEPT !.status = "read"]
        [] read.status = "reading" /\ Taken(i, token.code) ->
             [read EXCEPT !.tokIdx = i + 1,
                          !.module = IF i = 0 THEN token.name ELSE @,
                          !.predicate = IF i = 2 THEN token.name ELSE @,
                          !.terms = IF isTerm THEN Append(@, token.name) ELSE @]
        [] OTHER -> [read EXCEPT !.status = "failed"]

\* makeQueryFromRawString.  The text ends with a token that is never taken.
ReadQuery(text) ==
  FoldLeft(ReadToken, NothingRead, Append(text, [code |-> "END", name |-> ""]))
------------------------------------------------------------------------------
\* The query of the grammar (QlParse.y), but for its question mark.
Sentence(text) ==
  LET n == Len(text)
  IN  /\ n >= tokensLen + 2 /\ n % 2 = 0
      /\ \A i \in 1..tokensLen : text[i].code = Beginning[i]
      /\ \A i \in tokensLen + 1..n - 1 :
           IF i % 2 = 1 THEN text[i].code \in {"ID", "VAR"} ELSE text[i].code = "COMMA"
      /\ text[n].code = "RRB"

\* The names that a text has between its parentheses.
TermsWritten(text) ==
  LET inside == {i \in tokensLen + 1..Len(text) :
                   /\ text[i].code \in {"ID", "VAR"}
                   /\ \A j \in 1..i : text[j].code # "RRB"}
  IN  [k \in 1..Cardinality(inside) |->
         text[CHOOSE i \in inside : Cardinality({j \in inside : j <= i}) = k].name]
==============================================================================
