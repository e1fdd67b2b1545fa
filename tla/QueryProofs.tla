----------------------------- MODULE QueryProofs -----------------------------
(***************************************************************************)
(* Queries are answered exactly, for relations of any arity, any names,    *)
(* any order of interning and texts of any length.                         *)
(***************************************************************************)
EXTENDS QueryAnswering, RuleEvalProofs

(***************************************************************************)
(* The folds of the model go from value to value.                          *)
(***************************************************************************)

\* The loop over the tokens.
ReadsWithin(V, E, n, s) ==
  /\ n \in Nat /\ s \in [1..n -> E] /\ NothingRead \in V
  /\ \A x \in V, y \in E : ReadToken(x, y) \in V

ReadAll(tokens) == FoldLeft(ReadToken, NothingRead, tokens)

Reading(h, V, n, s) ==
  /\ h \in [0..n -> V]
  /\ h[0] = NothingRead
  /\ \A k \in 1..n : h[k] = ReadToken(h[k - 1], s[k])
  /\ ReadAll(s) = h[n]

LEMMA ReadSteps ==
  ASSUME NEW V, NEW E, NEW n, NEW s, ReadsWithin(V, E, n, s)
  PROVE  \E h : Reading(h, V, n, s)
<1>0. /\ n \in Nat /\ s \in [1..n -> E] /\ NothingRead \in V
      /\ \A x \in V, y \in E : ReadToken(x, y) \in V
  BY DEF ReadsWithin
<1> USE <1>0
<1> DEFINE D == SUBSET (1..n)
           F == [x \in V \X E |-> ReadToken(x[1], x[2])]
           Eq(g) == [d \in D |-> IF d = {} THEN NothingRead ELSE ReadToken(g[d \ {Max(d)}], s[Max(d)])]
           iter == CHOOSE g : g = Eq(g)
<1>1. F \in [V \X E -> V] /\ \A x \in V, y \in E : F[<<x, y>>] = ReadToken(x, y)
  OBVIOUS
<1>2. PICK g : IsFold(g, F, NothingRead, s, n, V)
  <2> HIDE DEF F
  <2> QED
    BY <1>1, FoldExists
<1>3. /\ g \in [D -> V]
      /\ \A d \in D : g[d] = IF d = {} THEN NothingRead ELSE F[<<g[d \ {Max(d)}], s[Max(d)]>>]
  BY <1>2, Zenon DEF IsFold
<1>4. \A d \in D : d # {} => Max(d) \in 1..n /\ d \ {Max(d)} \in D
  BY WithoutLast
<1>5. g = Eq(g)
  <2>1. \A d \in D : g[d] = IF d = {} THEN NothingRead ELSE ReadToken(g[d \ {Max(d)}], s[Max(d)])
    <3> HIDE DEF F, D
    <3> QED
      BY <1>1, <1>3, <1>4
  <2> HIDE DEF F, D
  <2> QED
    BY <1>3, <2>1
<1>6. iter = Eq(iter)
  <2> HIDE DEF Eq
  <2> QED
    BY <1>5
<1>7. ReadAll(s) = iter[1..n]
  <2>1. DOMAIN s = 1..n
    OBVIOUS
  <2>2. ReadAll(s) = iter[DOMAIN s]
    BY <2>1, Zenon DEF ReadAll, FoldLeft, MapThenFoldSet
  <2> HIDE DEF iter
  <2> QED
    BY <2>1, <2>2
<1>8. iter[{}] = NothingRead
  BY <1>6
<1>9. \A d \in D : d # {} /\ iter[d \ {Max(d)}] \in V =>
        iter[d] = F[<<iter[d \ {Max(d)}], s[Max(d)]>>]
  <2> HIDE DEF iter, F
  <2>1. \A d \in D : d # {} => iter[d] = ReadToken(iter[d \ {Max(d)}], s[Max(d)])
    BY <1>6
  <2>2. \A d \in D : d # {} => s[Max(d)] \in E
    BY <1>4
  <2> HIDE DEF D
  <2> QED
    BY <1>1, <2>1, <2>2
<1>10. FoldsWith(iter, F, NothingRead, s, n, V, E)
  <2> HIDE DEF iter, F
  <2> QED
    BY <1>1, <1>8, <1>9 DEF FoldsWith
<1>11. PICK h : IsRun(h, F, NothingRead, s, n, V) /\ iter[1..n] = h[n]
  <2> HIDE DEF iter, F
  <2> QED
    BY <1>10, FoldValues
<1>12. /\ h \in [0..n -> V] /\ h[0] = NothingRead /\ iter[1..n] = h[n]
       /\ \A k \in 1..n : h[k] = F[<<h[k - 1], s[k]>>]
  BY <1>11, Zenon DEF IsRun
<1>13. ASSUME NEW k \in 1..n
       PROVE  h[k] = ReadToken(h[k - 1], s[k])
  <2>1. k - 1 \in 0..n /\ s[k] \in E
    OBVIOUS
  <2> HIDE DEF F
  <2> QED
    BY <1>1, <1>12, <2>1
<1> HIDE DEF iter
<1> QED
  BY <1>7, <1>12, <1>13 DEF Reading

\* The strings of a literal from left to right.
InsertsWithin(V, E, pool, n, s) ==
  /\ n \in Nat /\ s \in [1..n -> E] /\ pool \in V
  /\ \A x \in V, y \in E : Insert(x, y) \in V

Interning(h, V, pool, n, s) ==
  /\ h \in [0..n -> V]
  /\ h[0] = pool
  /\ \A k \in 1..n : h[k] = Insert(h[k - 1], s[k])
  /\ Intern(pool, s) = h[n]

LEMMA InsertSteps ==
  ASSUME NEW V, NEW E, NEW pool, NEW n, NEW s, InsertsWithin(V, E, pool, n, s)
  PROVE  \E h : Interning(h, V, pool, n, s)
<1>0. /\ n \in Nat /\ s \in [1..n -> E] /\ pool \in V
      /\ \A x \in V, y \in E : Insert(x, y) \in V
  BY DEF InsertsWithin
<1> USE <1>0
<1> DEFINE D == SUBSET (1..n)
           F == [x \in V \X E |-> Insert(x[1], x[2])]
           Eq(g) == [d \in D |-> IF d = {} THEN pool ELSE Insert(g[d \ {Max(d)}], s[Max(d)])]
           iter == CHOOSE g : g = Eq(g)
<1>1. F \in [V \X E -> V] /\ \A x \in V, y \in E : F[<<x, y>>] = Insert(x, y)
  OBVIOUS
<1>2. PICK g : IsFold(g, F, pool, s, n, V)
  <2> HIDE DEF F
  <2> QED
    BY <1>1, FoldExists
<1>3. /\ g \in [D -> V]
      /\ \A d \in D : g[d] = IF d = {} THEN pool ELSE F[<<g[d \ {Max(d)}], s[Max(d)]>>]
  BY <1>2, Zenon DEF IsFold
<1>4. \A d \in D : d # {} => Max(d) \in 1..n /\ d \ {Max(d)} \in D
  BY WithoutLast
<1>5. g = Eq(g)
  <2>1. \A d \in D : g[d] = IF d = {} THEN pool ELSE Insert(g[d \ {Max(d)}], s[Max(d)])
    <3> HIDE DEF F, D
    <3> QED
      BY <1>1, <1>3, <1>4
  <2> HIDE DEF F, D
  <2> QED
    BY <1>3, <2>1
<1>6. iter = Eq(iter)
  <2> HIDE DEF Eq
  <2> QED
    BY <1>5
<1>7. Intern(pool, s) = iter[1..n]
  <2>1. DOMAIN s = 1..n
    OBVIOUS
  <2>2. Intern(pool, s) = iter[DOMAIN s]
    BY <2>1, Zenon DEF Intern, FoldLeft, MapThenFoldSet
  <2> HIDE DEF iter
  <2> QED
    BY <2>1, <2>2
<1>8. iter[{}] = pool
  BY <1>6
<1>9. \A d \in D : d # {} /\ iter[d \ {Max(d)}] \in V =>
        iter[d] = F[<<iter[d \ {Max(d)}], s[Max(d)]>>]
  <2> HIDE DEF iter, F
  <2>1. \A d \in D : d # {} => iter[d] = Insert(iter[d \ {Max(d)}], s[Max(d)])
    BY <1>6
  <2>2. \A d \in D : d # {} => s[Max(d)] \in E
    BY <1>4
  <2> HIDE DEF D
  <2> QED
    BY <1>1, <2>1, <2>2
<1>10. FoldsWith(iter, F, pool, s, n, V, E)
  <2> HIDE DEF iter, F
  <2> QED
    BY <1>1, <1>8, <1>9 DEF FoldsWith
<1>11. PICK h : IsRun(h, F, pool, s, n, V) /\ iter[1..n] = h[n]
  <2> HIDE DEF iter, F
  <2> QED
    BY <1>10, FoldValues
<1>12. /\ h \in [0..n -> V] /\ h[0] = pool /\ iter[1..n] = h[n]
       /\ \A k \in 1..n : h[k] = F[<<h[k - 1], s[k]>>]
  BY <1>11, Zenon DEF IsRun
<1>13. ASSUME NEW k \in 1..n
       PROVE  h[k] = Insert(h[k - 1], s[k])
  <2>1. k - 1 \in 0..n /\ s[k] \in E
    OBVIOUS
  <2> HIDE DEF F
  <2> QED
    BY <1>1, <1>12, <2>1
<1> HIDE DEF iter
<1> QED
  BY <1>7, <1>12, <1>13 DEF Interning

\* The terms of a query from left to right.
Nothing == << >>

NumbersWithin(V, E, n, s) ==
  /\ n \in Nat /\ s \in [1..n -> E] /\ Nothing \in V
  /\ \A x \in V, y \in E : NumberTerm(x, y) \in V

Numbers(h, V, n, s) ==
  /\ h \in [0..n -> V]
  /\ h[0] = Nothing
  /\ \A k \in 1..n : h[k] = NumberTerm(h[k - 1], s[k])
  /\ VarMap(s) = h[n]

LEMMA VarMapSteps ==
  ASSUME NEW V, NEW E, NEW n, NEW s, NumbersWithin(V, E, n, s)
  PROVE  \E h : Numbers(h, V, n, s)
<1>0. /\ n \in Nat /\ s \in [1..n -> E] /\ Nothing \in V
      /\ \A x \in V, y \in E : NumberTerm(x, y) \in V
  BY DEF NumbersWithin
<1> USE <1>0
<1> DEFINE D == SUBSET (1..n)
           F == [x \in V \X E |-> NumberTerm(x[1], x[2])]
           Eq(g) == [d \in D |-> IF d = {} THEN Nothing ELSE NumberTerm(g[d \ {Max(d)}], s[Max(d)])]
           iter == CHOOSE g : g = Eq(g)
<1>1. F \in [V \X E -> V] /\ \A x \in V, y \in E : F[<<x, y>>] = NumberTerm(x, y)
  OBVIOUS
<1>2. PICK g : IsFold(g, F, Nothing, s, n, V)
  <2> HIDE DEF F
  <2> QED
    BY <1>1, FoldExists
<1>3. /\ g \in [D -> V]
      /\ \A d \in D : g[d] = IF d = {} THEN Nothing ELSE F[<<g[d \ {Max(d)}], s[Max(d)]>>]
  BY <1>2, Zenon DEF IsFold
<1>4. \A d \in D : d # {} => Max(d) \in 1..n /\ d \ {Max(d)} \in D
  BY WithoutLast
<1>5. g = Eq(g)
  <2>1. \A d \in D : g[d] = IF d = {} THEN Nothing ELSE NumberTerm(g[d \ {Max(d)}], s[Max(d)])
    <3> HIDE DEF F, D
    <3> QED
      BY <1>1, <1>3, <1>4
  <2> HIDE DEF F, D
  <2> QED
    BY <1>3, <2>1
<1>6. iter = Eq(iter)
  <2> HIDE DEF Eq
  <2> QED
    BY <1>5
<1>7. VarMap(s) = iter[1..n]
  <2>1. DOMAIN s = 1..n
    OBVIOUS
  <2>2. VarMap(s) = iter[DOMAIN s]
    BY <2>1, Zenon DEF VarMap, Nothing, FoldLeft, MapThenFoldSet
  <2> HIDE DEF iter
  <2> QED
    BY <2>1, <2>2
<1>8. iter[{}] = Nothing
  BY <1>6
<1>9. \A d \in D : d # {} /\ iter[d \ {Max(d)}] \in V =>
        iter[d] = F[<<iter[d \ {Max(d)}], s[Max(d)]>>]
  <2> HIDE DEF iter, F
  <2>1. \A d \in D : d # {} => iter[d] = NumberTerm(iter[d \ {Max(d)}], s[Max(d)])
    BY <1>6
  <2>2. \A d \in D : d # {} => s[Max(d)] \in E
    BY <1>4
  <2> HIDE DEF D
  <2> QED
    BY <1>1, <2>1, <2>2
<1>10. FoldsWith(iter, F, Nothing, s, n, V, E)
  <2> HIDE DEF iter, F
  <2> QED
    BY <1>1, <1>8, <1>9 DEF FoldsWith
<1>11. PICK h : IsRun(h, F, Nothing, s, n, V) /\ iter[1..n] = h[n]
  <2> HIDE DEF iter, F
  <2> QED
    BY <1>10, FoldValues
<1>12. /\ h \in [0..n -> V] /\ h[0] = Nothing /\ iter[1..n] = h[n]
       /\ \A k \in 1..n : h[k] = F[<<h[k - 1], s[k]>>]
  BY <1>11, Zenon DEF IsRun
<1>13. ASSUME NEW k \in 1..n
       PROVE  h[k] = NumberTerm(h[k - 1], s[k])
  <2>1. k - 1 \in 0..n /\ s[k] \in E
    OBVIOUS
  <2> HIDE DEF F
  <2> QED
    BY <1>1, <1>12, <2>1
<1> HIDE DEF iter
<1> QED
  BY <1>7, <1>12, <1>13 DEF Numbers

\* What queryKB does with a fact.
KeepIfUnified(terms, result, f) ==
  IF CanBeUnified(terms, f.terms) THEN Append(result, f) ELSE result

\* The facts of the relation from first to last.
KeepsWithin(V, E, terms, n, s) ==
  /\ n \in Nat /\ s \in [1..n -> E] /\ s = facts /\ Nothing \in V
  /\ \A x \in V, y \in E : KeepIfUnified(terms, x, y) \in V

Keeps(h, V, terms, n, s) ==
  /\ h \in [0..n -> V]
  /\ h[0] = Nothing
  /\ \A k \in 1..n : h[k] = KeepIfUnified(terms, h[k - 1], s[k])
  /\ QueryKB(terms) = h[n]

LEMMA QuerySteps ==
  ASSUME NEW V, NEW E, NEW terms, NEW n, NEW s, KeepsWithin(V, E, terms, n, s)
  PROVE  \E h : Keeps(h, V, terms, n, s)
<1>0. /\ n \in Nat /\ s \in [1..n -> E] /\ s = facts /\ Nothing \in V
      /\ \A x \in V, y \in E : KeepIfUnified(terms, x, y) \in V
  BY DEF KeepsWithin
<1> USE <1>0
<1> DEFINE D == SUBSET (1..n)
           F == [x \in V \X E |-> KeepIfUnified(terms, x[1], x[2])]
           Eq(g) == [d \in D |-> IF d = {} THEN Nothing ELSE KeepIfUnified(terms, g[d \ {Max(d)}], s[Max(d)])]
           iter == CHOOSE g : g = Eq(g)
<1>1. F \in [V \X E -> V] /\ \A x \in V, y \in E : F[<<x, y>>] = KeepIfUnified(terms, x, y)
  OBVIOUS
<1>2. PICK g : IsFold(g, F, Nothing, s, n, V)
  <2> HIDE DEF F
  <2> QED
    BY <1>1, FoldExists
<1>3. /\ g \in [D -> V]
      /\ \A d \in D : g[d] = IF d = {} THEN Nothing ELSE F[<<g[d \ {Max(d)}], s[Max(d)]>>]
  BY <1>2, Zenon DEF IsFold
<1>4. \A d \in D : d # {} => Max(d) \in 1..n /\ d \ {Max(d)} \in D
  BY WithoutLast
<1>5. g = Eq(g)
  <2>1. \A d \in D : g[d] = IF d = {} THEN Nothing ELSE KeepIfUnified(terms, g[d \ {Max(d)}], s[Max(d)])
    <3> HIDE DEF F, D
    <3> QED
      BY <1>1, <1>3, <1>4
  <2> HIDE DEF F, D
  <2> QED
    BY <1>3, <2>1
<1>6. iter = Eq(iter)
  <2> HIDE DEF Eq
  <2> QED
    BY <1>5
<1>7. QueryKB(terms) = iter[1..n]
  <2>1. DOMAIN s = 1..n
    OBVIOUS
  <2>2. QueryKB(terms) = iter[DOMAIN s]
    BY <2>1, Zenon DEF QueryKB, Nothing, KeepIfUnified, FoldLeft, MapThenFoldSet
  <2> HIDE DEF iter
  <2> QED
    BY <2>1, <2>2
<1>8. iter[{}] = Nothing
  BY <1>6
<1>9. \A d \in D : d # {} /\ iter[d \ {Max(d)}] \in V =>
        iter[d] = F[<<iter[d \ {Max(d)}], s[Max(d)]>>]
  <2> HIDE DEF iter, F
  <2>1. \A d \in D : d # {} => iter[d] = KeepIfUnified(terms, iter[d \ {Max(d)}], s[Max(d)])
    BY <1>6
  <2>2. \A d \in D : d # {} => s[Max(d)] \in E
    BY <1>4
  <2> HIDE DEF D
  <2> QED
    BY <1>1, <2>1, <2>2
<1>10. FoldsWith(iter, F, Nothing, s, n, V, E)
  <2> HIDE DEF iter, F
  <2> QED
    BY <1>1, <1>8, <1>9 DEF FoldsWith
<1>11. PICK h : IsRun(h, F, Nothing, s, n, V) /\ iter[1..n] = h[n]
  <2> HIDE DEF iter, F
  <2> QED
    BY <1>10, FoldValues
<1>12. /\ h \in [0..n -> V] /\ h[0] = Nothing /\ iter[1..n] = h[n]
       /\ \A k \in 1..n : h[k] = F[<<h[k - 1], s[k]>>]
  BY <1>11, Zenon DEF IsRun
<1>13. ASSUME NEW k \in 1..n
       PROVE  h[k] = KeepIfUnified(terms, h[k - 1], s[k])
  <2>1. k - 1 \in 0..n /\ s[k] \in E
    OBVIOUS
  <2> HIDE DEF F
  <2> QED
    BY <1>1, <1>12, <2>1
<1> HIDE DEF iter
<1> QED
  BY <1>7, <1>12, <1>13 DEF Keeps

(***************************************************************************)
(* Reading.                                                                *)
(***************************************************************************)

\* The provers know of no literal that it is a string.
Strings == STRING \cup {"", "END"}

Tokens == [code : Strings, name : Strings]

Reads == [tokIdx : Nat, module : Strings, predicate : Strings, terms : Seq(Strings),
          status : {"reading", "read", "failed"}]

End == [code |-> "END", name |-> ""]

LEMMA QueriesAreTokens ==
  ASSUME NEW text \in Queries
  PROVE  text \in Seq(Tokens)
<1>1. text \in Seq([code : STRING, name : STRING])
  BY QueriesAreTexts
<1>2. [code : STRING, name : STRING] \subseteq Tokens
  BY DEF Tokens, Strings
<1> QED
  BY <1>1, <1>2, SeqMonotonic, Zenon

LEMMA BeginningCodes ==
  /\ tokensLen = 4
  /\ Beginning[1] = "ID" /\ Beginning[2] = "DOT" /\ Beginning[3] = "ID" /\ Beginning[4] = "LRB"
  BY DEF tokensLen, Beginning

\* The token is taken: next is what is read with it.
Advanced(read, token, next) ==
  /\ next.status = "reading"
  /\ next.tokIdx = read.tokIdx + 1
  /\ next.module = IF read.tokIdx = 0 THEN token.name ELSE read.module
  /\ next.predicate = IF read.tokIdx = 2 THEN token.name ELSE read.predicate
  /\ next.terms = IF token.code = "VAR" \/ (token.code = "ID" /\ read.tokIdx >= tokensLen)
                  THEN Append(read.terms, token.name) ELSE read.terms

\* The cases of one turn of the loop.
LEMMA TurnOfTheLoop ==
  ASSUME NEW read \in Reads, NEW token \in Tokens
  PROVE  /\ ReadToken(read, token) \in Reads
         /\ read.status # "reading" => ReadToken(read, token) = read
         /\ read.status = "reading" /\ Closes(read.tokIdx, token.code) =>
              ReadToken(read, token) = [read EXCEPT !.status = "read"]
         /\ read.status = "reading" /\ Taken(read.tokIdx, token.code) =>
              Advanced(read, token, ReadToken(read, token))
         /\ read.status = "reading" /\ ~Closes(read.tokIdx, token.code)
              /\ ~Taken(read.tokIdx, token.code) =>
              ReadToken(read, token).status = "failed"
<1> DEFINE i == read.tokIdx
           isTerm == token.code = "VAR" \/ (token.code = "ID" /\ i >= tokensLen)
           taken == [read EXCEPT !.tokIdx = i + 1,
                                 !.module = IF i = 0 THEN token.name ELSE @,
                                 !.predicate = IF i = 2 THEN token.name ELSE @,
                                 !.terms = IF isTerm THEN Append(@, token.name) ELSE @]
<1>1. ~(Closes(i, token.code) /\ Taken(i, token.code))
  BY DEF Closes, Taken
<1>2. token.name \in Strings /\ read.terms \in Seq(Strings)
  BY DEF Tokens, Reads
<1>3. Append(read.terms, token.name) \in Seq(Strings)
  BY <1>2, AppendProperties
<1>4. CASE read.status # "reading"
  <2>1. ReadToken(read, token) = read
    BY <1>4, Zenon DEF ReadToken
  <2>2. ReadToken(read, token) \in Reads
    BY <2>1
  <2> QED
    BY <1>4, <2>1, <2>2
<1>5. CASE read.status = "reading" /\ Closes(i, token.code)
  <2>1. ReadToken(read, token) = [read EXCEPT !.status = "read"]
    BY <1>1, <1>5, Zenon DEF ReadToken
  <2>2. [read EXCEPT !.status = "read"] \in Reads
    BY DEF Reads
  <2> QED
    BY <1>1, <1>5, <2>1, <2>2
<1>6. CASE read.status = "reading" /\ Taken(i, token.code) /\ ~Closes(i, token.code)
  <2>1. ReadToken(read, token) = taken
    BY <1>6 DEF ReadToken
  <2>2. taken \in Reads
    <3> DEFINE module == IF i = 0 THEN token.name ELSE read.module
               predicate == IF i = 2 THEN token.name ELSE read.predicate
               terms == IF isTerm THEN Append(read.terms, token.name) ELSE read.terms
    <3>1. /\ i + 1 \in Nat /\ module \in Strings /\ predicate \in Strings
          /\ terms \in Seq(Strings)
      BY <1>2, <1>3 DEF Reads
    <3>2. taken = [read EXCEPT !.tokIdx = i + 1, !.module = module,
                               !.predicate = predicate, !.terms = terms]
      OBVIOUS
    <3> HIDE DEF module, predicate, terms, taken
    <3> QED
      BY <3>1, <3>2 DEF Reads
  <2>3. /\ taken.status = "reading" /\ taken.tokIdx = i + 1
        /\ taken.module = (IF i = 0 THEN token.name ELSE read.module)
        /\ taken.predicate = (IF i = 2 THEN token.name ELSE read.predicate)
        /\ taken.terms = (IF isTerm THEN Append(read.terms, token.name) ELSE read.terms)
    BY <1>6 DEF Reads
  <2>4. Advanced(read, token, taken)
    <3> HIDE DEF taken
    <3> QED
      BY <2>3 DEF Advanced
  <2> HIDE DEF taken
  <2> QED
    BY <1>6, <2>1, <2>2, <2>4
<1>7. CASE read.status = "reading" /\ ~Closes(i, token.code) /\ ~Taken(i, token.code)
  <2>1. ReadToken(read, token) = [read EXCEPT !.status = "failed"]
    BY <1>7 DEF ReadToken
  <2>2. [read EXCEPT !.status = "failed"] \in Reads
    BY DEF Reads
  <2> QED
    BY <1>7, <2>1, <2>2 DEF Reads
<1> QED
  BY <1>1, <1>4, <1>5, <1>6, <1>7

\* What the loop has read after every token, and at last.
RunOf(h, text) ==
  /\ h \in [0..(Len(text) + 1) -> Reads]
  /\ h[0] = NothingRead
  /\ \A k \in 1..Len(text) : h[k] = ReadToken(h[k - 1], text[k])
  /\ h[Len(text) + 1] = ReadToken(h[Len(text)], End)
  /\ ReadQuery(text) = h[Len(text) + 1]

LEMMA ReadingIsARun ==
  ASSUME NEW text \in Seq(Tokens)
  PROVE  \E h : RunOf(h, text)
<1> DEFINE s == Append(text, End)
           n == Len(text) + 1
<1>1. End \in Tokens /\ NothingRead \in Reads
  <2>1. End \in Tokens
    BY DEF End, Tokens, Strings
  <2>2. << >> \in Seq(Strings)
    OBVIOUS
  <2>3. NothingRead \in Reads
    BY <2>2 DEF NothingRead, Reads, Strings
  <2> QED
    BY <2>1, <2>3
<1>2. /\ n \in Nat /\ s \in [1..n -> Tokens]
      /\ \A k \in 1..Len(text) : s[k] = text[k]
      /\ s[n] = End
  <2>1. /\ s \in Seq(Tokens) /\ Len(s) = n
        /\ \A k \in 1..Len(text) : s[k] = text[k]
        /\ s[n] = End
    BY <1>1, AppendProperties
  <2>2. n \in Nat
    OBVIOUS
  <2> HIDE DEF s, n
  <2> QED
    BY <2>1, <2>2
<1>3. \A x \in Reads, y \in Tokens : ReadToken(x, y) \in Reads
  BY TurnOfTheLoop
<1>4. ReadQuery(text) = ReadAll(s)
  BY Zenon DEF ReadQuery, ReadAll, End
<1>5. PICK h \in [0..n -> Reads] :
        /\ h[0] = NothingRead
        /\ \A k \in 1..n : h[k] = ReadToken(h[k - 1], s[k])
        /\ ReadAll(s) = h[n]
  <2>1. ReadsWithin(Reads, Tokens, n, s)
    <3> HIDE DEF s, n
    <3> QED
      BY <1>1, <1>2, <1>3 DEF ReadsWithin
  <2> HIDE DEF s, n
  <2>2. PICK h : Reading(h, Reads, n, s)
    BY <2>1, ReadSteps
  <2> QED
    BY <2>2 DEF Reading
<1>6. \A k \in 1..Len(text) : h[k] = ReadToken(h[k - 1], text[k])
  <2> HIDE DEF s
  <2> QED
    BY <1>2, <1>5
<1>7. h[n] = ReadToken(h[Len(text)], End)
  <2>1. n \in 1..n /\ n - 1 = Len(text)
    OBVIOUS
  <2> HIDE DEF s
  <2> QED
    BY <1>2, <1>5, <2>1
<1> HIDE DEF s
<1> QED
  BY <1>4, <1>5, <1>6, <1>7 DEF RunOf

\* A query of the grammar is read: no token of it is out of place, and the
\* parenthesis closes at an even place behind the beginning.
LEMMA SentencesAreRead ==
  ASSUME NEW text \in Seq(Tokens), Sentence(text)
  PROVE  ReadQuery(text).status = "read"
<1>1. PICK h : RunOf(h, text)
  BY ReadingIsARun
<1> DEFINE n == Len(text)
           S == {k \in 0..(n - 1) : h[k].status = "reading" /\ h[k].tokIdx = k}
<1>2. n \in Nat /\ n >= 6 /\ n % 2 = 0 /\ text[n].code = "RRB"
  BY BeginningCodes DEF Sentence
<1>3. 0 \in S
  <2>1. h[0].status = "reading" /\ h[0].tokIdx = 0
    <3>1. h[0] = NothingRead
      BY <1>1 DEF RunOf
    <3>2. NothingRead.status = "reading" /\ NothingRead.tokIdx = 0
      BY DEF NothingRead
    <3> QED
      BY <3>1, <3>2
  <2> QED
    BY <1>2, <2>1
<1>4. ASSUME NEW k \in 0..(n - 1), k < n - 1, k \in S
      PROVE  k + 1 \in S
  <2>1. h[k] \in Reads /\ text[k + 1] \in Tokens /\ h[k + 1] = ReadToken(h[k], text[k + 1])
    BY <1>1, <1>2, <1>4 DEF RunOf
  <2>2. h[k].status = "reading" /\ h[k].tokIdx = k
    BY <1>4
  <2>3. Taken(k, text[k + 1].code)
    <3>1. CASE k < 4
      <4>1. k + 1 \in 1..4
        BY <3>1
      <4>2. text[k + 1].code = Beginning[k + 1]
        BY <4>1, BeginningCodes DEF Sentence
      <4>3. Beginning[k + 1] \in {"ID", "DOT", "LRB"}
        BY <4>1, BeginningCodes
      <4> QED
        BY <3>1, <4>2, <4>3, BeginningCodes DEF Taken, OutOfPlace
    <3>2. CASE k >= 4
      <4>1. k + 1 \in 5..(n - 1)
        BY <1>4, <3>2
      <4>2. IF (k + 1) % 2 = 1 THEN text[k + 1].code \in {"ID", "VAR"} ELSE text[k + 1].code = "COMMA"
        BY <4>1, BeginningCodes DEF Sentence
      <4>3. k % 2 = 1 <=> ~((k + 1) % 2 = 1)
        OBVIOUS
      <4> QED
        BY <3>2, <4>2, <4>3, BeginningCodes DEF Taken, OutOfPlace
    <3> QED
      BY <3>1, <3>2
  <2>4. h[k + 1].status = "reading" /\ h[k + 1].tokIdx = k + 1
    BY <2>1, <2>2, <2>3, TurnOfTheLoop DEF Advanced
  <2> QED
    BY <1>4, <2>4
<1>5. n - 1 \in S
  <2>1. n - 1 \in Nat
    BY <1>2
  <2>2. 0..(n - 1) \subseteq S
    <3> HIDE DEF S, n
    <3> QED
      BY <1>3, <1>4, <2>1, InductionUpto
  <2> QED
    BY <2>1, <2>2
<1>6. h[n].status = "read"
  <2>1. h[n - 1] \in Reads /\ text[n] \in Tokens /\ h[n] = ReadToken(h[n - 1], text[n])
    BY <1>1, <1>2 DEF RunOf
  <2>2. Closes(n - 1, text[n].code)
    <3>1. (n - 1) % 2 = 1 /\ n - 1 > 4
      BY <1>2
    <3> QED
      BY <1>2, <3>1, BeginningCodes DEF Closes, OutOfPlace
  <2>3. h[n - 1].status = "reading" /\ h[n - 1].tokIdx = n - 1
    BY <1>5
  <2>4. h[n] = [h[n - 1] EXCEPT !.status = "read"]
    <3>1. h[n - 1].status = "reading" /\ Closes(h[n - 1].tokIdx, text[n].code)
      BY <2>2, <2>3
    <3> HIDE DEF n, S
    <3> QED
      BY <2>1, <3>1, TurnOfTheLoop
  <2> QED
    BY <2>1, <2>4 DEF Reads
<1>7. h[n + 1] = h[n]
  <2>1. h[n] \in Reads /\ End \in Tokens /\ h[n + 1] = ReadToken(h[n], End)
    <3>1. n \in 0..(n + 1)
      BY <1>2
    <3>2. End \in Tokens
      BY DEF End, Tokens, Strings
    <3> QED
      BY <1>1, <3>1, <3>2 DEF RunOf
  <2> HIDE DEF n, S
  <2> QED
    BY <1>6, <2>1, TurnOfTheLoop
<1> QED
  BY <1>1, <1>6, <1>7 DEF RunOf

\* How many of the numbers of S there are up to k.
Number(S, k) == Cardinality({l \in S : l <= k})

Numbered(S, n) ==
  /\ Number(S, 0) = 0 /\ Number(S, n) = Cardinality(S)
  /\ \A k \in 0..n : Number(S, k) \in Nat
  /\ \A k \in 0..n : k < n =>
       Number(S, k + 1) = IF k + 1 \in S THEN Number(S, k) + 1 ELSE Number(S, k)
  /\ \A k, l \in 0..n : k <= l => Number(S, k) <= Number(S, l)
  /\ \A m \in 1..Cardinality(S) : \E i \in S : Number(S, i) = m

LEMMA Numbering ==
  ASSUME NEW n \in Nat, NEW S \in SUBSET (1..n)
  PROVE  Numbered(S, n)
<1> DEFINE Upto(k) == {l \in S : l <= k}
<1>0. \A l \in S : l \in Nat /\ 1 <= l /\ l <= n
  OBVIOUS
<1>1. IsFiniteSet(S)
  <2>1. IsFiniteSet(1..n)
    BY FS_Interval
  <2> QED
    BY <2>1, FS_Subset
<1>2. \A k \in 0..n : IsFiniteSet(Upto(k)) /\ Number(S, k) = Cardinality(Upto(k))
                      /\ Number(S, k) \in Nat
  <2> TAKE k \in 0..n
  <2>1. Upto(k) \subseteq S
    OBVIOUS
  <2>2. IsFiniteSet(Upto(k))
    <3> HIDE DEF Upto
    <3> QED
      BY <1>1, <2>1, FS_Subset
  <2>3. Number(S, k) = Cardinality(Upto(k))
    BY DEF Number
  <2> HIDE DEF Upto
  <2> QED
    BY <2>2, <2>3, FS_CardinalityType
<1>3. Number(S, 0) = 0 /\ Number(S, n) = Cardinality(S)
  <2>1. Upto(0) = {} /\ Upto(n) = S
    <3>1. \A l \in S : ~(l <= 0) /\ l <= n
      BY <1>0
    <3> QED
      BY <3>1
  <2>2. Number(S, 0) = Cardinality(Upto(0)) /\ Number(S, n) = Cardinality(Upto(n))
    BY <1>2
  <2> HIDE DEF Upto
  <2> QED
    BY <2>1, <2>2, FS_EmptySet
<1>4. ASSUME NEW k \in 0..n, k < n
      PROVE  Number(S, k + 1) = IF k + 1 \in S THEN Number(S, k) + 1 ELSE Number(S, k)
  <2>1. Number(S, k + 1) = Cardinality(Upto(k + 1)) /\ Number(S, k) = Cardinality(Upto(k))
    BY <1>2, <1>4
  <2>2. CASE k + 1 \in S
    <3>1. Upto(k + 1) = Upto(k) \cup {k + 1} /\ k + 1 \notin Upto(k)
      <4>1. \A l \in S : l <= k + 1 <=> l <= k \/ l = k + 1
        BY <1>0
      <4>2. ~(k + 1 <= k)
        OBVIOUS
      <4> QED
        BY <2>2, <4>1, <4>2
    <3> HIDE DEF Upto
    <3>2. Cardinality(Upto(k) \cup {k + 1}) = Cardinality(Upto(k)) + 1
      BY <1>2, <3>1, FS_AddElement
    <3> QED
      BY <2>1, <2>2, <3>1, <3>2
  <2>3. CASE k + 1 \notin S
    <3>1. Upto(k + 1) = Upto(k)
      <4>1. \A l \in S : l <= k + 1 <=> l <= k \/ l = k + 1
        BY <1>0
      <4> QED
        BY <2>3, <4>1
    <3> HIDE DEF Upto
    <3> QED
      BY <2>1, <2>3, <3>1
  <2> QED
    BY <2>2, <2>3
<1>5. ASSUME NEW k \in 0..n, NEW l \in 0..n, k <= l
      PROVE  Number(S, k) <= Number(S, l)
  <2>1. Upto(k) \subseteq Upto(l)
    <3>1. \A x \in S : x <= k => x <= l
      BY <1>0, <1>5
    <3> QED
      BY <3>1
  <2> HIDE DEF Upto
  <2>2. Cardinality(Upto(k)) <= Cardinality(Upto(l))
    BY <1>2, <2>1, FS_Subset
  <2> QED
    BY <1>2, <2>2
<1>6. ASSUME NEW m \in 1..Cardinality(S)
      PROVE  \E i \in S : Number(S, i) = m
  <2> DEFINE T == {k \in 0..n : Number(S, k) >= m => \E i \in S : Number(S, i) = m}
  <2>1. Cardinality(S) \in Nat /\ m \in Nat /\ m >= 1
    BY <1>1, FS_CardinalityType
  <2>2. 0 \in T
    BY <1>3, <2>1
  <2>3. ASSUME NEW k \in 0..n, k < n, k \in T
        PROVE  k + 1 \in T
    <3>1. SUFFICES ASSUME Number(S, k + 1) >= m, ~(Number(S, k) >= m)
                   PROVE  \E i \in S : Number(S, i) = m
      BY <2>3
    <3>2. k + 1 \in S /\ Number(S, k + 1) = m
      <4>1. Number(S, k) \in Nat
        BY <1>2
      <4>2. ~(Number(S, k + 1) = Number(S, k))
        BY <3>1
      <4>3. k + 1 \in S /\ Number(S, k + 1) = Number(S, k) + 1
        BY <1>4, <2>3, <4>2
      <4> QED
        BY <2>1, <3>1, <4>1, <4>3
    <3> QED
      BY <3>2
  <2>4. 0..n \subseteq T
    <3> HIDE DEF T
    <3> QED
      BY <2>2, <2>3, InductionUpto
  <2>5. n \in T
    BY <2>4
  <2> QED
    BY <1>3, <2>1, <2>5
<1> HIDE DEF Upto
<1> QED
  BY <1>2, <1>3, <1>4, <1>5, <1>6 DEF Numbered

\* The places of the terms of a text.
Inside(text) ==
  {i \in tokensLen + 1..Len(text) :
     /\ text[i].code \in {"ID", "VAR"}
     /\ \A j \in 1..i : text[j].code # "RRB"}

\* The first k tokens of a text have been read.
IsReading(text, k, read) ==
  /\ read.tokIdx = k
  /\ \A i \in 1..k : text[i].code # "RRB"
  /\ k >= 1 => read.module = text[1].name
  /\ k >= 3 => read.predicate = text[3].name
  /\ Len(read.terms) = Number(Inside(text), k)
  /\ \A i \in Inside(text) : i <= k => read.terms[Number(Inside(text), i)] = text[i].name

HasRead(text, read) ==
  /\ Len(text) >= 3
  /\ read.module = text[1].name
  /\ read.predicate = text[3].name
  /\ read.terms = TermsWritten(text)

LEMMA InsideNumbered ==
  ASSUME NEW text \in Seq(Tokens)
  PROVE  /\ Inside(text) \in SUBSET (1..Len(text)) /\ Len(text) \in Nat
         /\ TermsWritten(text) =
              [k \in 1..Cardinality(Inside(text)) |->
                 text[CHOOSE i \in Inside(text) : Number(Inside(text), i) = k].name]
<1>1. Inside(text) \in SUBSET (1..Len(text)) /\ Len(text) \in Nat
  BY BeginningCodes DEF Inside
<1>2. TermsWritten(text) =
        [k \in 1..Cardinality(Inside(text)) |->
           text[CHOOSE i \in Inside(text) : Number(Inside(text), i) = k].name]
  BY Zenon DEF TermsWritten, Inside, Number
<1> QED
  BY <1>1, <1>2

\* A token that is taken.
LEMMA ReadingGoesOn ==
  ASSUME NEW text \in Seq(Tokens), NEW k \in 0..Len(text), k < Len(text),
         NEW read \in Reads, IsReading(text, k, read), NEW next,
         Taken(k, text[k + 1].code), Advanced(read, text[k + 1], next)
  PROVE  IsReading(text, k + 1, next)
<1> DEFINE S == Inside(text)
           n == Len(text)
           token == text[k + 1]
<1>1. /\ n \in Nat /\ S \in SUBSET (1..n) /\ k + 1 \in 1..n
      /\ read.tokIdx = k /\ read.terms \in Seq(Strings) /\ token.name \in Strings
  <2>1. n \in Nat /\ S \in SUBSET (1..n)
    BY InsideNumbered
  <2>2. k + 1 \in 1..n /\ token \in Tokens
    BY <2>1
  <2> HIDE DEF S, n, token
  <2> QED
    BY <2>1, <2>2 DEF IsReading, Reads, Tokens
<1>2. /\ \A i \in 0..n : Number(S, i) \in Nat
      /\ Number(S, k + 1) = IF k + 1 \in S THEN Number(S, k) + 1 ELSE Number(S, k)
      /\ Number(S, 0) = 0
      /\ \A i \in 0..n : i < n =>
           Number(S, i + 1) = IF i + 1 \in S THEN Number(S, i) + 1 ELSE Number(S, i)
      /\ \A i, l \in 0..n : i <= l => Number(S, i) <= Number(S, l)
  <2> HIDE DEF S, n
  <2>1. /\ \A i \in 0..n : Number(S, i) \in Nat
        /\ Number(S, 0) = 0
        /\ \A i \in 0..n : i < n =>
             Number(S, i + 1) = IF i + 1 \in S THEN Number(S, i) + 1 ELSE Number(S, i)
        /\ \A i, l \in 0..n : i <= l => Number(S, i) <= Number(S, l)
    <3>1. Numbered(S, n)
      BY <1>1, Numbering
    <3> QED
      BY <3>1 DEF Numbered
  <2>2. k \in 0..n /\ k < n
    BY DEF n
  <2> QED
    BY <2>1, <2>2
<1>3. token.code # "RRB"
  BY DEF Taken
<1>4. \A i \in 1..k + 1 : text[i].code # "RRB"
  <2>1. \A i \in 1..k : text[i].code # "RRB"
    BY DEF IsReading
  <2> QED
    BY <1>3, <2>1
<1>5. k + 1 \in S <=> token.code = "VAR" \/ (token.code = "ID" /\ k >= tokensLen)
  <2>1. token.code = "VAR" => k >= 4
    <3> SUFFICES ASSUME token.code = "VAR", k < 4
                 PROVE  FALSE
      BY <1>1
    <3>1. k + 1 \in 1..4
      BY <1>1
    <3>2. Beginning[k + 1] # "VAR"
      BY <3>1, BeginningCodes
    <3> QED
      BY <3>2, BeginningCodes DEF Taken, OutOfPlace
  <2>2. k + 1 \in S <=> k + 1 >= 5 /\ token.code \in {"ID", "VAR"}
    BY <1>1, <1>4, BeginningCodes DEF Inside
  <2> QED
    BY <1>1, <2>1, <2>2, BeginningCodes
<1>6. /\ next.tokIdx = k + 1
      /\ next.module = IF k = 0 THEN token.name ELSE read.module
      /\ next.predicate = IF k = 2 THEN token.name ELSE read.predicate
      /\ next.terms = IF k + 1 \in S THEN Append(read.terms, token.name) ELSE read.terms
  <2> HIDE DEF S, n, token
  <2> QED
    BY <1>1, <1>5 DEF Advanced, token
<1>7. k + 1 >= 1 => next.module = text[1].name
  BY <1>1, <1>6 DEF IsReading
<1>8. k + 1 >= 3 => next.predicate = text[3].name
  BY <1>1, <1>6 DEF IsReading
<1>9. /\ Len(read.terms) = Number(S, k)
      /\ \A i \in S : i <= k => read.terms[Number(S, i)] = text[i].name
  BY DEF IsReading
<1>10. /\ Len(next.terms) = Number(S, k + 1)
       /\ \A i \in S : i <= k + 1 => next.terms[Number(S, i)] = text[i].name
  <2> HIDE DEF S, n
  <2>1. CASE k + 1 \notin S
    BY <1>1, <1>2, <1>6, <1>9, <2>1
  <2>2. CASE k + 1 \in S
    <3>1. /\ Len(next.terms) = Len(read.terms) + 1
          /\ \A i \in 1..Len(read.terms) : next.terms[i] = read.terms[i]
          /\ next.terms[Len(read.terms) + 1] = token.name
      <4> HIDE DEF token
      <4> QED
        BY <1>1, <1>6, <2>2, AppendProperties
    <3>2. ASSUME NEW i \in S, i <= k
          PROVE  Number(S, i) \in 1..Number(S, k)
      <4>1. i \in 1..n /\ i - 1 \in 0..n /\ (i - 1) + 1 = i /\ i - 1 < n /\ i \in 0..n
        BY <1>1
      <4>2. Number(S, i) = Number(S, i - 1) + 1
        BY <1>2, <4>1
      <4>3. Number(S, i - 1) \in Nat /\ Number(S, i) <= Number(S, k)
        BY <1>1, <1>2, <3>2, <4>1
      <4> QED
        BY <1>2, <4>1, <4>2, <4>3
    <3>3. ASSUME NEW i \in S, i <= k + 1
          PROVE  next.terms[Number(S, i)] = text[i].name
      <4>1. CASE i <= k
        BY <1>9, <3>1, <3>2, <4>1
      <4>2. CASE i = k + 1
        BY <1>2, <1>9, <2>2, <3>1, <4>2
      <4> QED
        BY <1>1, <3>3, <4>1, <4>2
    <3> QED
      BY <1>2, <1>9, <2>2, <3>1, <3>3
  <2> QED
    BY <2>1, <2>2
<1> QED
  BY <1>4, <1>6, <1>7, <1>8, <1>10 DEF IsReading

\* The closing parenthesis.
LEMMA ReadingEnds ==
  ASSUME NEW text \in Seq(Tokens), NEW k \in 0..Len(text), k < Len(text),
         NEW read \in Reads, IsReading(text, k, read),
         Closes(k, text[k + 1].code)
  PROVE  HasRead(text, [read EXCEPT !.status = "read"])
<1> DEFINE S == Inside(text)
           n == Len(text)
<1>1. n \in Nat /\ S \in SUBSET (1..n) /\ k + 1 \in 1..n /\ read.terms \in Seq(Strings)
  <2>1. n \in Nat /\ S \in SUBSET (1..n)
    BY InsideNumbered
  <2> QED
    BY <2>1 DEF Reads
<1>2. k > 4 /\ text[k + 1].code = "RRB"
  BY BeginningCodes DEF Closes
<1>3. \A i \in S : i <= k
  <2> SUFFICES ASSUME NEW i \in S, ~(i <= k)
               PROVE  FALSE
    OBVIOUS
  <2>1. k + 1 \in 1..i
    BY <1>1
  <2>2. \A j \in 1..i : text[j].code # "RRB"
    BY DEF Inside
  <2> QED
    BY <1>2, <2>1, <2>2
<1>4. Number(S, k) = Cardinality(S)
  <2>1. {l \in S : l <= k} = S
    BY <1>3
  <2> HIDE DEF S
  <2> QED
    BY <2>1 DEF Number
<1>5. /\ Len(read.terms) = Cardinality(S)
      /\ \A i \in S : read.terms[Number(S, i)] = text[i].name
  <2> HIDE DEF n
  <2> QED
    BY <1>3, <1>4 DEF IsReading
<1>6. \A m \in 1..Cardinality(S) : \E i \in S : Number(S, i) = m
  <2> HIDE DEF S, n
  <2>1. Numbered(S, n)
    BY <1>1, Numbering
  <2> QED
    BY <2>1 DEF Numbered
<1>7. read.terms = TermsWritten(text)
  <2>1. TermsWritten(text) =
          [m \in 1..Cardinality(S) |-> text[CHOOSE i \in S : Number(S, i) = m].name]
    BY InsideNumbered
  <2> HIDE DEF S, n
  <2>2. ASSUME NEW m \in 1..Cardinality(S)
        PROVE  read.terms[m] = TermsWritten(text)[m]
    <3> DEFINE i == CHOOSE i \in S : Number(S, i) = m
    <3>1. i \in S /\ Number(S, i) = m
      BY <1>6
    <3>2. TermsWritten(text)[m] = text[i].name
      BY <2>1
    <3> HIDE DEF i
    <3> QED
      BY <1>5, <3>1, <3>2
  <2>3. DOMAIN read.terms = 1..Cardinality(S) /\ read.terms = [m \in DOMAIN read.terms |-> read.terms[m]]
    BY <1>1, <1>5
  <2> QED
    BY <2>1, <2>2, <2>3
<1>8. read.module = text[1].name /\ read.predicate = text[3].name
  BY <1>2 DEF IsReading
<1>9. /\ [read EXCEPT !.status = "read"].module = read.module
      /\ [read EXCEPT !.status = "read"].predicate = read.predicate
      /\ [read EXCEPT !.status = "read"].terms = read.terms
  BY DEF Reads
<1> HIDE DEF S
<1> QED
  BY <1>1, <1>2, <1>7, <1>8, <1>9 DEF HasRead

\* What is read is what the text has.
LEMMA ReadIsWritten ==
  ASSUME NEW text \in Seq(Tokens), ReadQuery(text).status = "read"
  PROVE  ReadQuery(text) \in Reads /\ HasRead(text, ReadQuery(text))
<1>1. PICK h : RunOf(h, text)
  BY ReadingIsARun
<1> DEFINE n == Len(text)
           Right(k) == /\ h[k].status = "reading" => IsReading(text, k, h[k])
                       /\ h[k].status = "read" => HasRead(text, h[k])
           S == {k \in 0..n : Right(k)}
<1>2. n \in Nat
  OBVIOUS
<1>3. 0 \in S
  <2>1. h[0].status = "reading" /\ h[0].tokIdx = 0 /\ h[0].terms = << >>
    <3>1. h[0] = NothingRead
      BY <1>1 DEF RunOf
    <3>2. NothingRead.status = "reading" /\ NothingRead.tokIdx = 0 /\ NothingRead.terms = << >>
      BY DEF NothingRead
    <3> QED
      BY <3>1, <3>2
  <2>2. Number(Inside(text), 0) = 0 /\ \A i \in Inside(text) : ~(i <= 0)
    <3>1. Inside(text) \in SUBSET (1..n)
      BY InsideNumbered
    <3>2. Numbered(Inside(text), n)
      BY <1>2, <3>1, Numbering
    <3> QED
      BY <1>2, <3>1, <3>2 DEF Numbered
  <2> QED
    BY <1>2, <2>1, <2>2 DEF IsReading
<1>4. ASSUME NEW k \in 0..n, k < n, k \in S
      PROVE  k + 1 \in S
  <2>1. h[k] \in Reads /\ text[k + 1] \in Tokens /\ h[k + 1] = ReadToken(h[k], text[k + 1])
    <3>1. k \in 0..(n + 1) /\ k + 1 \in 1..n /\ (k + 1) - 1 = k
      BY <1>2, <1>4
    <3> HIDE DEF S, Right
    <3> QED
      BY <1>1, <3>1 DEF RunOf
  <2>2. Right(k)
    BY <1>4
  <2> HIDE DEF n, S
  <2>3. Right(k + 1)
    <3>1. CASE h[k].status # "reading"
      <4>1. h[k + 1] = h[k]
        BY <2>1, <3>1, TurnOfTheLoop
      <4> QED
        BY <2>2, <3>1, <4>1
    <3>2. CASE h[k].status = "reading" /\ Closes(h[k].tokIdx, text[k + 1].code)
      <4>1. h[k + 1] = [h[k] EXCEPT !.status = "read"]
        BY <2>1, <3>2, TurnOfTheLoop
      <4>2. IsReading(text, k, h[k]) /\ h[k].tokIdx = k
        BY <2>2, <3>2 DEF IsReading
      <4>3. HasRead(text, h[k + 1])
        BY <1>4, <2>1, <3>2, <4>1, <4>2, ReadingEnds DEF n
      <4>4. h[k + 1].status = "read"
        BY <2>1, <4>1 DEF Reads
      <4> QED
        BY <4>3, <4>4
    <3>3. CASE h[k].status = "reading" /\ Taken(h[k].tokIdx, text[k + 1].code)
      <4>1. Advanced(h[k], text[k + 1], h[k + 1])
        BY <2>1, <3>3, TurnOfTheLoop
      <4>2. IsReading(text, k, h[k]) /\ h[k].tokIdx = k
        BY <2>2, <3>3 DEF IsReading
      <4>3. IsReading(text, k + 1, h[k + 1])
        BY <1>4, <2>1, <3>3, <4>1, <4>2, ReadingGoesOn DEF n
      <4>4. h[k + 1].status = "reading"
        BY <4>1 DEF Advanced
      <4> QED
        BY <4>3, <4>4
    <3>4. CASE /\ h[k].status = "reading"
               /\ ~Closes(h[k].tokIdx, text[k + 1].code) /\ ~Taken(h[k].tokIdx, text[k + 1].code)
      <4>1. h[k + 1].status = "failed"
        BY <2>1, <3>4, TurnOfTheLoop
      <4> QED
        BY <4>1
    <3> QED
      BY <3>1, <3>2, <3>3, <3>4
  <2> QED
    BY <1>2, <1>4, <2>3 DEF S
<1>5. Right(n)
  <2>1. 0..n \subseteq S
    <3> HIDE DEF S, n
    <3> QED
      BY <1>2, <1>3, <1>4, InductionUpto
  <2>2. n \in S
    BY <1>2, <2>1
  <2> QED
    BY <2>2
<1>6. h[n] \in Reads /\ End \in Tokens /\ h[n + 1] = ReadToken(h[n], End) /\ ReadQuery(text) = h[n + 1]
  <2>1. n \in 0..(n + 1)
    BY <1>2
  <2>2. End \in Tokens
    BY DEF End, Tokens, Strings
  <2> QED
    BY <1>1, <2>1, <2>2 DEF RunOf
<1>7. h[n].status = "reading" => h[n + 1].status = "failed"
  <2>1. End.code = "END"
    BY DEF End
  <2>2. ~Closes(h[n].tokIdx, End.code) /\ ~Taken(h[n].tokIdx, End.code)
    BY <2>1 DEF Closes, Taken
  <2> HIDE DEF n, S, Right
  <2> QED
    BY <1>6, <2>2, TurnOfTheLoop
<1>8. h[n].status # "reading" => h[n + 1] = h[n]
  <2> HIDE DEF n, S, Right
  <2> QED
    BY <1>6, TurnOfTheLoop
<1> HIDE DEF n, S
<1> QED
  BY <1>5, <1>6, <1>7, <1>8

(***************************************************************************)
(* Interning.                                                              *)
(***************************************************************************)

\* A string is in a pool once, and a pool only grows at its end.
IsPool(pool, W) ==
  /\ pool \in Seq(W)
  /\ \A i, l \in 1..Len(pool) : pool[i] = pool[l] => i = l

Grows(pool, more) ==
  /\ Len(pool) <= Len(more)
  /\ \A i \in 1..Len(pool) : more[i] = pool[i]

LEMMA InsertFacts ==
  ASSUME NEW W, NEW pool, IsPool(pool, W), NEW name \in W
  PROVE  /\ IsPool(Insert(pool, name), W) /\ Grows(pool, Insert(pool, name))
         /\ Contains(Insert(pool, name), name)
<1>1. pool \in Seq(W) /\ Len(pool) \in Nat
  BY DEF IsPool
<1>2. CASE Contains(pool, name)
  BY <1>1, <1>2 DEF Insert, Grows
<1>3. CASE ~Contains(pool, name)
  <2> DEFINE more == Append(pool, name)
  <2>1. Insert(pool, name) = more
    BY <1>3 DEF Insert
  <2>2. /\ more \in Seq(W) /\ Len(more) = Len(pool) + 1
        /\ \A i \in 1..Len(pool) : more[i] = pool[i]
        /\ more[Len(pool) + 1] = name
    BY <1>1, AppendProperties
  <2> HIDE DEF more
  <2>3. \A i \in 1..Len(pool) : pool[i] # name
    BY <1>3 DEF Contains
  <2>4. ASSUME NEW i \in 1..Len(more), NEW l \in 1..Len(more), more[i] = more[l]
        PROVE  i = l
    <3>1. (i \in 1..Len(pool) \/ i = Len(pool) + 1) /\ (l \in 1..Len(pool) \/ l = Len(pool) + 1)
      BY <1>1, <2>2
    <3>2. CASE i \in 1..Len(pool) /\ l \in 1..Len(pool)
      BY <2>2, <2>4, <3>2 DEF IsPool
    <3>3. CASE ~(i \in 1..Len(pool) /\ l \in 1..Len(pool))
      BY <2>2, <2>3, <2>4, <3>1, <3>3
    <3> QED
      BY <3>2, <3>3
  <2>5. Contains(more, name)
    <3>1. Len(pool) + 1 \in 1..Len(more)
      BY <1>1, <2>2
    <3> QED
      BY <2>2, <3>1 DEF Contains
  <2>6. IsPool(more, W)
    BY <2>2, <2>4 DEF IsPool
  <2>7. Grows(pool, more)
    BY <1>1, <2>2 DEF Grows
  <2> QED
    BY <2>1, <2>5, <2>6, <2>7
<1> QED
  BY <1>2, <1>3

LEMMA GrowingKeeps ==
  ASSUME NEW W, NEW pool, IsPool(pool, W), NEW more, IsPool(more, W), Grows(pool, more), NEW name,
         Contains(pool, name)
  PROVE  Contains(more, name)
<1>1. Len(pool) \in Nat /\ Len(more) \in Nat
  BY DEF IsPool
<1>2. PICK i \in 1..Len(pool) : pool[i] = name
  BY DEF Contains
<1>3. i \in 1..Len(more) /\ more[i] = name
  BY <1>1, <1>2 DEF Grows
<1> QED
  BY <1>3 DEF Contains

LEMMA GrowingIsTransitive ==
  ASSUME NEW W, NEW p, IsPool(p, W), NEW q, IsPool(q, W), NEW r, IsPool(r, W),
         Grows(p, q), Grows(q, r)
  PROVE  Grows(p, r)
<1>1. Len(p) \in Nat /\ Len(q) \in Nat /\ Len(r) \in Nat
  BY DEF IsPool
<1> QED
  BY <1>1 DEF Grows

\* The strings of a literal are all in the pool afterwards, and those that
\* were there keep their numbers.
LEMMA InternFacts ==
  ASSUME NEW W, NEW pool, IsPool(pool, W), NEW n \in Nat, NEW s \in [1..n -> W]
  PROVE  /\ IsPool(Intern(pool, s), W) /\ Grows(pool, Intern(pool, s))
         /\ \A i \in 1..n : Contains(Intern(pool, s), s[i])
<1> DEFINE V == {p \in Seq(W) : IsPool(p, W)}
<1>1. InsertsWithin(V, W, pool, n, s)
  <2>1. pool \in V
    BY DEF IsPool
  <2>2. ASSUME NEW x \in V, NEW y \in W
        PROVE  Insert(x, y) \in V
    <3>1. IsPool(Insert(x, y), W)
      BY InsertFacts
    <3> QED
      BY <3>1 DEF IsPool
  <2> HIDE DEF V
  <2> QED
    BY <2>1, <2>2 DEF InsertsWithin
<1>2. PICK h \in [0..n -> V] :
        /\ h[0] = pool
        /\ \A k \in 1..n : h[k] = Insert(h[k - 1], s[k])
        /\ Intern(pool, s) = h[n]
  <2> HIDE DEF V
  <2>1. PICK h : Interning(h, V, pool, n, s)
    BY <1>1, InsertSteps
  <2> QED
    BY <2>1 DEF Interning
<1> DEFINE Right(k) == Grows(pool, h[k]) /\ \A i \in 1..k : Contains(h[k], s[i])
           S == {k \in 0..n : Right(k)}
<1>3. \A k \in 0..n : IsPool(h[k], W)
  BY <1>2
<1>4. 0 \in S
  <2>1. Grows(pool, pool)
    BY DEF Grows, IsPool
  <2> QED
    BY <1>2, <2>1
<1>5. ASSUME NEW k \in 0..n, k < n, k \in S
      PROVE  k + 1 \in S
  <2>1. k + 1 \in 0..n /\ k + 1 \in 1..n /\ (k + 1) - 1 = k
    BY <1>5
  <2>2. h[k + 1] = Insert(h[k], s[k + 1]) /\ s[k + 1] \in W
    BY <1>2, <2>1
  <2>3. IsPool(h[k], W) /\ IsPool(h[k + 1], W)
    BY <1>3, <2>1
  <2>4. Grows(h[k], h[k + 1]) /\ Contains(h[k + 1], s[k + 1])
    BY <2>2, <2>3, InsertFacts
  <2>5. Grows(pool, h[k]) /\ \A i \in 1..k : Contains(h[k], s[i])
    BY <1>5
  <2>6. Grows(pool, h[k + 1])
    BY <2>3, <2>4, <2>5, GrowingIsTransitive
  <2>7. \A i \in 1..k : Contains(h[k + 1], s[i])
    BY <2>3, <2>4, <2>5, GrowingKeeps
  <2>8. \A i \in 1..k + 1 : i \in 1..k \/ i = k + 1
    OBVIOUS
  <2> QED
    BY <2>1, <2>4, <2>6, <2>7, <2>8
<1>6. n \in S
  <2>1. 0..n \subseteq S
    <3> HIDE DEF S
    <3> QED
      BY <1>4, <1>5, InductionUpto
  <2> QED
    BY <2>1
<1> QED
  BY <1>2, <1>3, <1>6

\* Every variable of a query gets a number, and each its own.
LEMMA VarMapFacts ==
  ASSUME NEW W, NEW n \in Nat, NEW s \in [1..n -> W]
  PROVE  /\ IsPool(VarMap(s), W)
         /\ \A i \in 1..n : s[i] \in VarNames => Contains(VarMap(s), s[i])
<1> DEFINE V == {p \in Seq(W) : IsPool(p, W)}
<1>1. NumbersWithin(V, W, n, s)
  <2>1. Nothing \in V
    BY DEF IsPool, Nothing
  <2>2. ASSUME NEW x \in V, NEW y \in W
        PROVE  NumberTerm(x, y) \in V
    <3>1. IsPool(Insert(x, y), W)
      BY InsertFacts
    <3> QED
      BY <3>1 DEF IsPool, NumberTerm
  <2> HIDE DEF V
  <2> QED
    BY <2>1, <2>2 DEF NumbersWithin
<1>2. PICK h : /\ h \in [0..n -> V]
               /\ h[0] = Nothing
               /\ \A k \in 1..n : h[k] = NumberTerm(h[k - 1], s[k])
               /\ VarMap(s) = h[n]
  <2> HIDE DEF V
  <2>1. PICK h : Numbers(h, V, n, s)
    BY <1>1, VarMapSteps
  <2> QED
    BY <2>1 DEF Numbers
<1> DEFINE Right(k) == \A i \in 1..k : s[i] \in VarNames => Contains(h[k], s[i])
           S == {k \in 0..n : Right(k)}
<1>3. \A k \in 0..n : IsPool(h[k], W)
  BY <1>2
<1>4. 0 \in S
  OBVIOUS
<1>5. ASSUME NEW k \in 0..n, k < n, k \in S
      PROVE  k + 1 \in S
  <2>1. k + 1 \in 0..n /\ k + 1 \in 1..n /\ (k + 1) - 1 = k
    BY <1>5
  <2>2. h[k + 1] = NumberTerm(h[k], s[k + 1]) /\ s[k + 1] \in W
    BY <1>2, <2>1
  <2>3. IsPool(h[k], W) /\ IsPool(h[k + 1], W)
    BY <1>3, <2>1
  <2>4. \A i \in 1..k : s[i] \in VarNames => Contains(h[k], s[i])
    BY <1>5
  <2>5. \A i \in 1..k + 1 : i \in 1..k \/ i = k + 1
    OBVIOUS
  <2>6. CASE s[k + 1] \in VarNames
    <3>1. h[k + 1] = Insert(h[k], s[k + 1])
      BY <2>2, <2>6 DEF NumberTerm
    <3>2. Grows(h[k], h[k + 1]) /\ Contains(h[k + 1], s[k + 1])
      BY <2>2, <2>3, <3>1, InsertFacts
    <3>3. \A i \in 1..k : s[i] \in VarNames => Contains(h[k + 1], s[i])
      BY <2>3, <2>4, <3>2, GrowingKeeps
    <3> QED
      BY <2>1, <2>5, <3>2, <3>3
  <2>7. CASE s[k + 1] \notin VarNames
    <3>1. h[k + 1] = h[k]
      BY <2>2, <2>7 DEF NumberTerm
    <3> QED
      BY <2>1, <2>4, <2>5, <2>7, <3>1
  <2> QED
    BY <2>6, <2>7
<1>6. n \in S
  <2>1. 0..n \subseteq S
    <3> HIDE DEF S
    <3> QED
      BY <1>4, <1>5, InductionUpto
  <2> QED
    BY <2>1
<1> QED
  BY <1>2, <1>3, <1>6

\* The number of a string leads back to it.
LEMMA NumbersLeadBack ==
  ASSUME NEW W, NEW pool, IsPool(pool, W), NEW name, Contains(pool, name)
  PROVE  /\ QueryId(pool, name) \in Nat /\ QueryId(pool, name) + 1 \in 1..Len(pool)
         /\ pool[QueryId(pool, name) + 1] = name
         /\ \A i \in Nat : i + 1 \in 1..Len(pool) => (QueryId(pool, name) = i <=> pool[i + 1] = name)
<1>1. Len(pool) \in Nat /\ DOMAIN pool = 1..Len(pool)
  BY DEF IsPool
<1> DEFINE i == CHOOSE i \in DOMAIN pool : pool[i] = name
<1>2. i \in 1..Len(pool) /\ pool[i] = name
  BY <1>1 DEF Contains
<1>3. QueryId(pool, name) = i - 1
  BY DEF QueryId
<1> HIDE DEF i
<1>4. (i - 1) + 1 = i /\ i - 1 \in Nat
  BY <1>1, <1>2
<1>5. ASSUME NEW l \in Nat, l + 1 \in 1..Len(pool)
      PROVE  i - 1 = l <=> pool[l + 1] = name
  BY <1>1, <1>2, <1>5 DEF IsPool
<1> QED
  BY <1>2, <1>3, <1>4, <1>5

(***************************************************************************)
(* The relation has what the script says, under its names.                 *)
(***************************************************************************)
Words == Names \cup VarNames

Tuples == [1..Arity -> Nat]

NamesIn(pool, terms) == [i \in 1..Arity |-> pool[terms[i] + 1]]

Interned(pool, terms) == \A i \in 1..Arity : terms[i] + 1 \in 1..Len(pool)

SaidIn(w, names) == {f.value : f \in {g \in w : g.terms = names}}

Agrees(value, said) ==
  \/ value = True /\ said = {True}
  \/ value = False /\ said = {False}
  \/ value = Incons /\ said = {True, False}

Sayings == [terms : [1..Arity -> Names], value : {False, True}]

Consistent(pool, fs, w) ==
  /\ IsPool(pool, Words)
  /\ fs \in PoolOf(Tuples) /\ UniqueTerms(fs)
  /\ w \subseteq Sayings
  /\ \A k \in DOMAIN fs : /\ Interned(pool, fs[k].terms)
                          /\ Agrees(fs[k].value, SaidIn(w, NamesIn(pool, fs[k].terms)))
  /\ \A g \in w : \E k \in DOMAIN fs : NamesIn(pool, fs[k].terms) = g.terms

\* Terms are named alike in a pool that has grown, and apart in any.
LEMMA NamesStay ==
  ASSUME NEW pool, IsPool(pool, Words), NEW more, IsPool(more, Words), Grows(pool, more),
         NEW terms \in Tuples, Interned(pool, terms)
  PROVE  Interned(more, terms) /\ NamesIn(more, terms) = NamesIn(pool, terms)
<1>1. Len(pool) \in Nat /\ Len(more) \in Nat /\ \A i \in 1..Arity : terms[i] \in Nat
  BY DEF IsPool, Tuples
<1>2. \A i \in 1..Arity : terms[i] + 1 \in 1..Len(more) /\ more[terms[i] + 1] = pool[terms[i] + 1]
  BY <1>1 DEF Grows, Interned
<1> QED
  BY <1>2 DEF Interned, NamesIn

LEMMA NamesTellApart ==
  ASSUME NEW pool, IsPool(pool, Words), NEW t \in Tuples, NEW u \in Tuples,
         Interned(pool, t), Interned(pool, u), NamesIn(pool, t) = NamesIn(pool, u)
  PROVE  t = u
<1>1. ASSUME NEW i \in 1..Arity
      PROVE  t[i] = u[i]
  <2>1. t[i] + 1 \in 1..Len(pool) /\ u[i] + 1 \in 1..Len(pool) /\ t[i] \in Nat /\ u[i] \in Nat
    BY DEF Interned, Tuples
  <2>2. pool[t[i] + 1] = pool[u[i] + 1]
    <3>1. NamesIn(pool, t)[i] = NamesIn(pool, u)[i]
      OBVIOUS
    <3> QED
      BY <3>1 DEF NamesIn
  <2>3. t[i] + 1 = u[i] + 1
    BY <2>1, <2>2 DEF IsPool
  <2> QED
    BY <2>1, <2>3
<1>2. t \in [1..Arity -> Nat] /\ u \in [1..Arity -> Nat]
  BY DEF Tuples
<1>3. t = [i \in 1..Arity |-> t[i]] /\ u = [i \in 1..Arity |-> u[i]]
  BY <1>2
<1>4. [i \in 1..Arity |-> t[i]] = [i \in 1..Arity |-> u[i]]
  BY <1>1
<1> QED
  BY <1>3, <1>4

\* Other names that are interned leave the relation as it is.
LEMMA InterningIsConsistent ==
  ASSUME NEW pool, NEW fs, NEW w, Consistent(pool, fs, w),
         NEW more, IsPool(more, Words), Grows(pool, more)
  PROVE  Consistent(more, fs, w)
<1>1. /\ IsPool(pool, Words) /\ fs \in PoolOf(Tuples) /\ UniqueTerms(fs) /\ w \subseteq Sayings
      /\ \A k \in DOMAIN fs : /\ Interned(pool, fs[k].terms)
                              /\ Agrees(fs[k].value, SaidIn(w, NamesIn(pool, fs[k].terms)))
      /\ \A g \in w : \E k \in DOMAIN fs : NamesIn(pool, fs[k].terms) = g.terms
  BY DEF Consistent
<1>2. ASSUME NEW k \in DOMAIN fs
      PROVE  /\ Interned(more, fs[k].terms)
             /\ NamesIn(more, fs[k].terms) = NamesIn(pool, fs[k].terms)
  <2>1. fs[k].terms \in Tuples
    BY <1>1, PoolDomain
  <2> QED
    BY <1>1, <2>1, NamesStay
<1> QED
  BY <1>1, <1>2, Zenon DEF Consistent

\* What the merge of addEdbTuple makes of what was said.
LEMMA MergeOfSaid ==
  ASSUME NEW v \in TruthValue, NEW said, Agrees(v, said), NEW value \in {False, True}
  PROVE  Agrees(DisjunctionWrtOrdering(v, value), said \cup {value})
<1> USE DEF Agrees, DisjunctionWrtOrdering, DisjWrtOrd, False, Incons, True, TruthValue
<1>1. CASE v = True /\ said = {True}
  BY <1>1
<1>2. CASE v = False /\ said = {False}
  BY <1>2
<1>3. CASE v = Incons /\ said = {True, False}
  BY <1>3
<1> QED
  BY <1>1, <1>2, <1>3

LEMMA SayingMore ==
  ASSUME NEW w, NEW g, NEW other
  PROVE  SaidIn(w \cup {g}, other) =
           IF other = g.terms THEN SaidIn(w, other) \cup {g.value} ELSE SaidIn(w, other)
<1>1. CASE other = g.terms
  <2>1. {f \in w \cup {g} : f.terms = other} = {f \in w : f.terms = other} \cup {g}
    BY <1>1
  <2> QED
    BY <1>1, <2>1 DEF SaidIn
<1>2. CASE other # g.terms
  <2>1. {f \in w \cup {g} : f.terms = other} = {f \in w : f.terms = other}
    BY <1>2
  <2> QED
    BY <1>2, <2>1 DEF SaidIn
<1> QED
  BY <1>1, <1>2

\* A fact of the text whose names are interned.
LEMMA AddingIsConsistent ==
  ASSUME NEW pool, NEW fs, NEW w, Consistent(pool, fs, w),
         NEW names \in [1..Arity -> Names], NEW value \in {False, True},
         \A i \in 1..Arity : Contains(pool, names[i])
  PROVE  Consistent(pool,
                    PutTuple(fs, [terms |-> [i \in DOMAIN names |-> QueryId(pool, names[i])],
                                  value |-> value]),
                    w \cup {[terms |-> names, value |-> value]})
<1> DEFINE tt == [i \in DOMAIN names |-> QueryId(pool, names[i])]
           tuple == [terms |-> tt, value |-> value]
           said == [terms |-> names, value |-> value]
           put == PutTuple(fs, tuple)
           more == w \cup {said}
<1>1. /\ IsPool(pool, Words) /\ fs \in PoolOf(Tuples) /\ UniqueTerms(fs) /\ w \subseteq Sayings
      /\ \A k \in DOMAIN fs : /\ Interned(pool, fs[k].terms)
                              /\ Agrees(fs[k].value, SaidIn(w, NamesIn(pool, fs[k].terms)))
      /\ \A g \in w : \E k \in DOMAIN fs : NamesIn(pool, fs[k].terms) = g.terms
  BY DEF Consistent
<1>2. \A i \in 1..Arity : /\ QueryId(pool, names[i]) \in Nat
                          /\ QueryId(pool, names[i]) + 1 \in 1..Len(pool)
                          /\ pool[QueryId(pool, names[i]) + 1] = names[i]
  BY <1>1, NumbersLeadBack
<1>3. tt \in Tuples /\ Interned(pool, tt) /\ NamesIn(pool, tt) = names
  <2>1. DOMAIN names = 1..Arity
    OBVIOUS
  <2>2. tt \in Tuples
    BY <1>2, <2>1 DEF Tuples
  <2>3. \A i \in 1..Arity : tt[i] = QueryId(pool, names[i])
    BY <2>1
  <2> HIDE DEF tt
  <2>4. Interned(pool, tt)
    BY <1>2, <2>3 DEF Interned
  <2>5. \A i \in 1..Arity : NamesIn(pool, tt)[i] = names[i]
    BY <1>2, <2>3 DEF NamesIn
  <2> QED
    BY <2>2, <2>4, <2>5 DEF NamesIn
<1> HIDE DEF tt
<1>4. /\ tuple \in TuplesOver(Tuples) /\ tuple.terms = tt /\ tuple.value = value
      /\ said \in Sayings /\ said.terms = names /\ said.value = value
  BY <1>3 DEF TuplesOver, TruthValue, False, True, Sayings
<1> HIDE DEF tuple, said
<1>5. /\ put \in PoolOf(Tuples) /\ UniqueTerms(put)
      /\ DOMAIN fs \subseteq DOMAIN put
      /\ \A k \in DOMAIN fs : put[k].terms = fs[k].terms
      /\ \A k \in DOMAIN put \ DOMAIN fs : ~Has(fs, tt) /\ put[k] = tuple
      /\ \E k \in DOMAIN put : put[k].terms = tt
  <2>1. UniqueTerms(put)
    BY <1>1, <1>4, PutTupleUnique
  <2>2. /\ put \in PoolOf(Tuples)
        /\ DOMAIN fs \subseteq DOMAIN put
        /\ \A k \in DOMAIN fs : put[k].terms = fs[k].terms
        /\ \A k \in DOMAIN put \ DOMAIN fs : ~Has(fs, tuple.terms) /\ put[k] = tuple
        /\ \E k \in DOMAIN put : put[k].terms = tuple.terms
    <3> HIDE DEF put
    <3> QED
      BY <1>1, <1>4, PutTupleFacts DEF put
  <2> HIDE DEF put
  <2> QED
    BY <1>4, <2>1, <2>2
<1>6. \A other : SaidIn(more, other) = IF other = names THEN SaidIn(w, other) \cup {value} ELSE SaidIn(w, other)
  <2> TAKE other
  <2>1. SaidIn(w \cup {said}, other) =
          IF other = said.terms THEN SaidIn(w, other) \cup {said.value} ELSE SaidIn(w, other)
    BY SayingMore
  <2> QED
    BY <1>4, <2>1
<1>7. ASSUME NEW k \in DOMAIN fs
      PROVE  /\ fs[k].terms \in Tuples /\ Interned(pool, fs[k].terms) /\ fs[k].value \in TruthValue
             /\ NamesIn(pool, fs[k].terms) = names => fs[k].terms = tt
             /\ put[k].value = IF fs[k].terms = tt THEN DisjunctionWrtOrdering(fs[k].value, value)
                                                   ELSE fs[k].value
  <2>1. fs[k] \in TuplesOver(Tuples) /\ fs[k].terms \in Tuples /\ fs[k].value \in TruthValue
    BY <1>1, PoolDomain
  <2>2. Interned(pool, fs[k].terms)
    BY <1>1
  <2>3. NamesIn(pool, fs[k].terms) = names => fs[k].terms = tt
    BY <1>1, <1>3, <2>1, <2>2, NamesTellApart
  <2>4. CASE fs[k].terms = tt
    <3>1. Has(fs, tt)
      BY <2>4 DEF Has
    <3>2. IndexOf(fs, tt) = k
      <4>1. IndexOf(fs, tt) \in DOMAIN fs /\ fs[IndexOf(fs, tt)].terms = tt
        BY <3>1, IndexOfFinds
      <4> QED
        BY <1>1, <2>4, <4>1 DEF UniqueTerms
    <3>3. put = [fs EXCEPT ![k].value = DisjunctionWrtOrdering(fs[k].value, value)]
      BY <1>4, <3>1, <3>2 DEF PutTuple, Merged, ValueIn
    <3>4. put[k] = [fs[k] EXCEPT !.value = DisjunctionWrtOrdering(fs[k].value, value)]
      <4> HIDE DEF put
      <4> QED
        BY <3>3
    <3>5. put[k].value = DisjunctionWrtOrdering(fs[k].value, value)
      <4> HIDE DEF put
      <4> QED
        BY <2>1, <3>4 DEF TuplesOver
    <3> QED
      BY <2>1, <2>2, <2>3, <2>4, <3>5
  <2>5. CASE fs[k].terms # tt
    <3>1. put[k] = fs[k]
      <4>1. CASE Has(fs, tt)
        <5>1. IndexOf(fs, tt) \in DOMAIN fs /\ fs[IndexOf(fs, tt)].terms = tt
          BY <4>1, IndexOfFinds
        <5>2. put = [fs EXCEPT ![IndexOf(fs, tt)].value = Merged(fs, tuple)]
          BY <1>4, <4>1 DEF PutTuple
        <5> HIDE DEF put
        <5> QED
          BY <2>5, <5>1, <5>2
      <4>2. CASE ~Has(fs, tt)
        <5>1. put = Append(fs, tuple)
          BY <1>4, <4>2 DEF PutTuple
        <5>2. fs \in Seq(TuplesOver(Tuples)) /\ DOMAIN fs = 1..Len(fs)
          BY <1>1 DEF PoolOf
        <5> HIDE DEF put
        <5> QED
          BY <1>4, <5>1, <5>2, AppendProperties
      <4> QED
        BY <4>1, <4>2
    <3> QED
      BY <2>1, <2>2, <2>3, <2>5, <3>1
  <2> QED
    BY <2>4, <2>5
<1> HIDE DEF put, more
<1>8. ASSUME NEW k \in DOMAIN put
      PROVE  /\ Interned(pool, put[k].terms)
             /\ Agrees(put[k].value, SaidIn(more, NamesIn(pool, put[k].terms)))
  <2>1. CASE k \in DOMAIN fs /\ fs[k].terms = tt
    <3>1. put[k].terms = tt /\ put[k].value = DisjunctionWrtOrdering(fs[k].value, value)
      BY <1>5, <1>7, <2>1
    <3>2. Agrees(fs[k].value, SaidIn(w, names))
      BY <1>1, <1>3, <2>1
    <3>3. SaidIn(more, names) = SaidIn(w, names) \cup {value}
      BY <1>6
    <3>4. Agrees(DisjunctionWrtOrdering(fs[k].value, value), SaidIn(w, names) \cup {value})
      BY <1>7, <2>1, <3>2, MergeOfSaid
    <3> QED
      BY <1>3, <3>1, <3>3, <3>4
  <2>2. CASE k \in DOMAIN fs /\ fs[k].terms # tt
    <3>1. put[k].terms = fs[k].terms /\ put[k].value = fs[k].value
      BY <1>5, <1>7, <2>2
    <3>2. NamesIn(pool, fs[k].terms) # names
      BY <1>7, <2>2
    <3>3. SaidIn(more, NamesIn(pool, fs[k].terms)) = SaidIn(w, NamesIn(pool, fs[k].terms))
      BY <1>6, <3>2
    <3> QED
      BY <1>1, <2>2, <3>1, <3>3
  <2>3. CASE k \notin DOMAIN fs
    <3>1. ~Has(fs, tt) /\ put[k].terms = tt /\ put[k].value = value
      BY <1>4, <1>5, <2>3
    <3>2. ASSUME NEW g \in w, g.terms = names
          PROVE  FALSE
      <4>1. PICK l \in DOMAIN fs : NamesIn(pool, fs[l].terms) = g.terms
        BY <1>1
      <4>2. fs[l].terms = tt
        BY <1>7, <3>2, <4>1
      <4> QED
        BY <3>1, <4>2 DEF Has
    <3>3. SaidIn(w, names) = {}
      BY <3>2 DEF SaidIn
    <3>4. SaidIn(more, names) = {value}
      BY <1>6, <3>3
    <3>5. Agrees(value, {value})
      BY DEF Agrees
    <3> QED
      BY <1>3, <3>1, <3>4, <3>5
  <2> QED
    BY <2>1, <2>2, <2>3
<1>9. ASSUME NEW g \in more
      PROVE  \E k \in DOMAIN put : NamesIn(pool, put[k].terms) = g.terms
  <2>1. CASE g \in w
    BY <1>1, <1>5, <2>1
  <2>2. CASE g = said
    BY <1>3, <1>4, <1>5, <2>2
  <2> QED
    BY <2>1, <2>2 DEF more
<1>10. more \subseteq Sayings
  BY <1>1, <1>4 DEF more
<1>11. Consistent(pool, put, more)
  BY <1>1, <1>5, <1>8, <1>9, <1>10, Zenon DEF Consistent
<1> QED
  BY <1>11 DEF put, more, tuple, said, tt

(***************************************************************************)
(* Answers.                                                                *)
(***************************************************************************)
ReadyFor(q) ==
  /\ q \in Seq(Strings) /\ Len(q) = Arity
  /\ \A i \in 1..Arity : q[i] \in VarNames \/ Contains(strTermPool, q[i])

\* canBeUnified on numbers is the match of names, when no variable occurs
\* twice.
LEMMA UnifiedIffMatches ==
  ASSUME IsPool(strTermPool, Words), NEW q, ReadyFor(q), NoVariableTwice(q),
         NEW tuple \in Tuples, Interned(strTermPool, tuple)
  PROVE  CanBeUnified(ConvertQuery(q), tuple) <=> Matches(q, NamesIn(strTermPool, tuple))
<1> DEFINE terms == ConvertQuery(q)
           names == NamesIn(strTermPool, tuple)
           varMap == VarMap(q)
<1>1. /\ Arity \in Nat /\ q \in [1..Arity -> Strings] /\ DOMAIN q = 1..Arity /\ Len(q) = Arity
  BY NamesAssumption DEF ReadyFor
<1>2. /\ IsPool(varMap, Strings)
      /\ \A i \in 1..Arity : q[i] \in VarNames => Contains(varMap, q[i])
  BY <1>1, VarMapFacts
<1>3. /\ DOMAIN terms = 1..Arity
      /\ \A i \in 1..Arity :
           /\ q[i] \in VarNames => terms[i] = [val |-> QueryId(varMap, q[i]), isVar |-> TRUE]
           /\ q[i] \notin VarNames => terms[i] = [val |-> QueryId(strTermPool, q[i]), isVar |-> FALSE]
  BY <1>1 DEF ConvertQuery
<1>4. \A i \in 1..Arity : /\ terms[i].isVar <=> q[i] \in VarNames
                          /\ terms[i].val = IF q[i] \in VarNames THEN QueryId(varMap, q[i])
                                                                 ELSE QueryId(strTermPool, q[i])
  <2> HIDE DEF terms, varMap
  <2> TAKE i \in 1..Arity
  <2>1. CASE q[i] \in VarNames
    <3>1. terms[i].val = QueryId(varMap, q[i]) /\ terms[i].isVar = TRUE
      <4>1. terms[i] = [val |-> QueryId(varMap, q[i]), isVar |-> TRUE]
        BY <1>3, <2>1
      <4> QED
        BY <4>1
    <3> QED
      BY <2>1, <3>1, Zenon
  <2>2. CASE q[i] \notin VarNames
    <3>1. terms[i].val = QueryId(strTermPool, q[i]) /\ terms[i].isVar = FALSE
      <4>1. terms[i] = [val |-> QueryId(strTermPool, q[i]), isVar |-> FALSE]
        BY <1>3, <2>2
      <4> QED
        BY <4>1
    <3> QED
      BY <2>2, <3>1, Zenon
  <2> QED
    BY <2>1, <2>2
<1>5. DOMAIN names = 1..Arity /\ Len(names) = Arity
      /\ \A i \in 1..Arity : names[i] = strTermPool[tuple[i] + 1]
  <2>1. DOMAIN names = 1..Arity /\ \A i \in 1..Arity : names[i] = strTermPool[tuple[i] + 1]
    BY DEF NamesIn
  <2>2. names \in Seq(Words)
    <3>1. \A i \in 1..Arity : strTermPool[tuple[i] + 1] \in Words
      BY DEF Interned, IsPool
    <3> QED
      BY <1>1, <3>1 DEF NamesIn
  <2> HIDE DEF names
  <2> QED
    BY <1>1, <2>1, <2>2
<1> HIDE DEF terms, names, varMap
<1>6. ASSUME NEW i \in 1..Arity, NEW l \in 1..Arity, i # l
      PROVE  ~(terms[i].isVar /\ terms[i] = terms[l])
  <2> SUFFICES ASSUME terms[i].isVar, terms[i] = terms[l]
               PROVE  FALSE
    OBVIOUS
  <2>1. q[i] \in VarNames /\ q[l] \in VarNames
    BY <1>4
  <2>2. QueryId(varMap, q[i]) = QueryId(varMap, q[l])
    BY <1>4, <2>1
  <2>3. varMap[QueryId(varMap, q[i]) + 1] = q[i] /\ varMap[QueryId(varMap, q[l]) + 1] = q[l]
    BY <1>2, <2>1, NumbersLeadBack
  <2>4. q[i] = q[l]
    BY <2>2, <2>3
  <2> QED
    BY <1>1, <1>6, <2>1, <2>4 DEF NoVariableTwice
<1>7. ASSUME NEW i \in 1..Arity
      PROVE  terms[i].val = tuple[i] \/ terms[i].isVar <=> q[i] \in VarNames \/ q[i] = names[i]
  <2>1. tuple[i] \in Nat /\ tuple[i] + 1 \in 1..Len(strTermPool)
    BY DEF Tuples, Interned
  <2>2. CASE q[i] \in VarNames
    BY <1>4, <2>2
  <2>3. CASE q[i] \notin VarNames
    <3>1. Contains(strTermPool, q[i])
      BY <2>3 DEF ReadyFor
    <3>2. QueryId(strTermPool, q[i]) = tuple[i] <=> strTermPool[tuple[i] + 1] = q[i]
      BY <2>1, <3>1, NumbersLeadBack
    <3> QED
      BY <1>4, <1>5, <2>3, <3>2
  <2> QED
    BY <2>2, <2>3
<1>8. CanBeUnified(terms, tuple) <=> \A i \in 1..Arity : terms[i].val = tuple[i] \/ terms[i].isVar
  BY <1>3, <1>6 DEF CanBeUnified
<1>9. Matches(q, names) <=> \A i \in 1..Arity : q[i] \in VarNames \/ q[i] = names[i]
  <2>1. \A i, l \in 1..Arity : q[i] \in VarNames /\ q[i] = q[l] => names[i] = names[l]
    BY <1>1 DEF NoVariableTwice
  <2> QED
    BY <1>1, <1>5, <2>1 DEF Matches
<1>10. CanBeUnified(terms, tuple) <=> Matches(q, names)
  BY <1>7, <1>8, <1>9
<1> QED
  BY <1>10 DEF terms, names

\* queryKB finds the facts that can be unified, each once.
Finds(found, fs, terms) ==
  /\ found \in PoolOf(Tuples) /\ UniqueTerms(found)
  /\ \A i \in DOMAIN found : \E l \in DOMAIN fs :
       found[i] = fs[l] /\ CanBeUnified(terms, fs[l].terms)
  /\ \A l \in DOMAIN fs : CanBeUnified(terms, fs[l].terms) => \E i \in DOMAIN found : found[i] = fs[l]

LEMMA QueryKBFinds ==
  ASSUME facts \in PoolOf(Tuples), UniqueTerms(facts), NEW terms
  PROVE  Finds(QueryKB(terms), facts, terms)
<1> DEFINE V == PoolOf(Tuples)
           E == TuplesOver(Tuples)
           n == Len(facts)
<1>1. n \in Nat /\ facts \in [1..n -> E] /\ DOMAIN facts = 1..n
  BY DEF PoolOf
<1>2. KeepsWithin(V, E, terms, n, facts)
  <2>1. Nothing \in V
    BY DEF Nothing, PoolOf
  <2>2. ASSUME NEW x \in V, NEW y \in E
        PROVE  KeepIfUnified(terms, x, y) \in V
    <3>1. Append(x, y) \in V
      BY AppendProperties DEF PoolOf
    <3> QED
      BY <3>1 DEF KeepIfUnified
  <2> HIDE DEF V, E, n
  <2> QED
    BY <1>1, <2>1, <2>2 DEF KeepsWithin
<1>3. PICK h : /\ h \in [0..n -> V] /\ h[0] = Nothing
               /\ \A k \in 1..n : h[k] = KeepIfUnified(terms, h[k - 1], facts[k])
               /\ QueryKB(terms) = h[n]
  <2> HIDE DEF V, E, n
  <2>1. PICK h : Keeps(h, V, terms, n, facts)
    BY <1>2, QuerySteps
  <2> QED
    BY <2>1 DEF Keeps
<1> DEFINE Right(k) ==
             /\ UniqueTerms(h[k])
             /\ \A i \in DOMAIN h[k] : \E l \in 1..k :
                  h[k][i] = facts[l] /\ CanBeUnified(terms, facts[l].terms)
             /\ \A l \in 1..k : CanBeUnified(terms, facts[l].terms) => \E i \in DOMAIN h[k] : h[k][i] = facts[l]
           S == {k \in 0..n : Right(k)}
<1>4. 0 \in S
  <2>1. DOMAIN h[0] = {}
    BY <1>3 DEF Nothing
  <2>2. Right(0)
    BY <2>1 DEF UniqueTerms
  <2> HIDE DEF Right, n
  <2> QED
    BY <1>1, <2>2
<1>5. ASSUME NEW k \in 0..n, k < n, k \in S
      PROVE  k + 1 \in S
  <2>1. k + 1 \in 0..n /\ k + 1 \in 1..n /\ (k + 1) - 1 = k
    BY <1>1, <1>5
  <2>2. h[k + 1] = KeepIfUnified(terms, h[k], facts[k + 1]) /\ facts[k + 1] \in E /\ h[k] \in V
    <3> HIDE DEF V, E, n, S
    <3> QED
      BY <1>1, <1>3, <2>1
  <2>3. Right(k)
    BY <1>5
  <2>4. \A l \in 1..k + 1 : l \in 1..k \/ l = k + 1
    OBVIOUS
  <2>5. 1..k \subseteq 1..k + 1 /\ 1..k \subseteq DOMAIN facts /\ k + 1 \in DOMAIN facts /\ k + 1 \notin 1..k
    BY <1>1, <2>1
  <2>6. CASE ~CanBeUnified(terms, facts[k + 1].terms)
    <3>1. h[k + 1] = h[k]
      BY <2>2, <2>6 DEF KeepIfUnified
    <3>2. Right(k + 1)
      BY <2>3, <2>4, <2>5, <2>6, <3>1
    <3> HIDE DEF Right
    <3> QED
      BY <2>1, <3>2
  <2>7. CASE CanBeUnified(terms, facts[k + 1].terms)
    <3> DEFINE x == h[k]
               y == h[k + 1]
    <3>1. y = Append(x, facts[k + 1])
      BY <2>2, <2>7 DEF KeepIfUnified
    <3>2. /\ Len(x) \in Nat /\ DOMAIN x = 1..Len(x) /\ DOMAIN y = 1..(Len(x) + 1)
          /\ \A i \in 1..Len(x) : y[i] = x[i]
          /\ y[Len(x) + 1] = facts[k + 1]
      <4>1. x \in Seq(E)
        BY <2>2 DEF PoolOf
      <4> HIDE DEF x, y, E
      <4> QED
        BY <2>2, <3>1, <4>1, AppendProperties
    <3>3. \A i \in DOMAIN x : x[i].terms # facts[k + 1].terms
      <4> SUFFICES ASSUME NEW i \in DOMAIN x, x[i].terms = facts[k + 1].terms
                   PROVE  FALSE
        OBVIOUS
      <4>1. PICK l \in 1..k : x[i] = facts[l]
        BY <2>3
      <4>2. l = k + 1
        BY <2>5, <4>1 DEF UniqueTerms
      <4> QED
        BY <2>5, <4>2
    <3>4. \A i \in DOMAIN y : i \in DOMAIN x \/ i = Len(x) + 1
      <4> HIDE DEF x, y
      <4> QED
        BY <3>2
    <3>5. DOMAIN x \subseteq DOMAIN y /\ Len(x) + 1 \in DOMAIN y
      <4> HIDE DEF x, y
      <4> QED
        BY <3>2
    <3>6. UniqueTerms(x)
      BY <2>3
    <3>7. UniqueTerms(y)
      <4> HIDE DEF x, y
      <4> SUFFICES ASSUME NEW i \in DOMAIN y, NEW l \in DOMAIN y, y[i].terms = y[l].terms
                   PROVE  i = l
        BY DEF UniqueTerms
      <4>1. CASE i \in DOMAIN x /\ l \in DOMAIN x
        BY <3>2, <3>6, <4>1 DEF UniqueTerms
      <4>2. CASE i \in DOMAIN x /\ l = Len(x) + 1
        BY <3>2, <3>3, <4>2
      <4>3. CASE i = Len(x) + 1 /\ l \in DOMAIN x
        BY <3>2, <3>3, <4>3
      <4>4. CASE i = Len(x) + 1 /\ l = Len(x) + 1
        BY <4>4
      <4> QED
        BY <3>4, <4>1, <4>2, <4>3, <4>4
    <3>8. \A i \in DOMAIN y : \E l \in 1..k + 1 :
            y[i] = facts[l] /\ CanBeUnified(terms, facts[l].terms)
      <4>1. \A i \in DOMAIN x : \E l \in 1..k :
              x[i] = facts[l] /\ CanBeUnified(terms, facts[l].terms)
        BY <2>3
      <4>2. k + 1 \in 1..k + 1
        OBVIOUS
      <4> HIDE DEF x, y
      <4> QED
        BY <2>5, <2>7, <3>2, <3>4, <4>1, <4>2
    <3>9. \A l \in 1..k + 1 : CanBeUnified(terms, facts[l].terms) => \E i \in DOMAIN y : y[i] = facts[l]
      <4>1. \A l \in 1..k : CanBeUnified(terms, facts[l].terms) => \E i \in DOMAIN x : x[i] = facts[l]
        BY <2>3
      <4> HIDE DEF x, y
      <4> QED
        BY <2>4, <3>2, <3>5, <4>1
    <3>10. Right(k + 1)
      BY <3>7, <3>8, <3>9
    <3> HIDE DEF Right
    <3> QED
      BY <2>1, <3>10
  <2> QED
    BY <2>6, <2>7
<1>6. Right(n)
  <2>1. 0..n \subseteq S
    <3> HIDE DEF S, n
    <3> QED
      BY <1>1, <1>4, <1>5, InductionUpto
  <2>2. n \in S
    BY <1>1, <2>1
  <2> HIDE DEF Right
  <2> QED
    BY <2>2
<1>7. h[n] \in V
  BY <1>1, <1>3
<1>8. QueryKB(terms) = h[n]
  BY <1>3
<1> HIDE DEF S, n
<1>9. h[n] \in PoolOf(Tuples)
  BY <1>7
<1> HIDE DEF V, E
<1> QED
  BY <1>1, <1>6, <1>8, <1>9 DEF Finds

ValueOf(said) == IF said = {True, False} THEN Incons ELSE CHOOSE v \in said : TRUE

LEMMA ValueOfSaid ==
  ASSUME NEW value, NEW said, Agrees(value, said)
  PROVE  ValueOf(said) = value /\ said # {}
<1>1. True # False
  BY DEF True, False
<1>2. CASE value = Incons /\ said = {True, False}
  BY <1>2 DEF ValueOf
<1>3. CASE said = {value} /\ value \in {True, False}
  <2>1. said # {True, False}
    BY <1>1, <1>3
  <2>2. (CHOOSE v \in said : TRUE) = value
    BY <1>3
  <2> QED
    BY <1>3, <2>1, <2>2 DEF ValueOf
<1> QED
  BY <1>2, <1>3 DEF Agrees

\* What a text of a query should get from the facts of a script.
NamedIn(text) == Len(text) >= 3 /\ text[1].name = TheModule /\ text[3].name = TheRelation

Asked(w, text) == {n \in {f.terms : f \in w} : NamedIn(text) /\ Matches(TermsWritten(text), n)}

FactFor(w, names) == [terms |-> names, value |-> ValueOf(SaidIn(w, names))]

ExpectedFor(w, text) == {FactFor(w, names) : names \in Asked(w, text)}

\* A fact of the relation and what was said of its names.
LEMMA FactsAreSaid ==
  ASSUME NEW pool, NEW fs, NEW w, Consistent(pool, fs, w), NEW k \in DOMAIN fs
  PROVE  /\ fs[k].terms \in Tuples /\ Interned(pool, fs[k].terms)
         /\ [terms |-> NamesIn(pool, fs[k].terms), value |-> fs[k].value] =
              FactFor(w, NamesIn(pool, fs[k].terms))
         /\ NamesIn(pool, fs[k].terms) \in {f.terms : f \in w}
<1> DEFINE names == NamesIn(pool, fs[k].terms)
<1>1. fs[k].terms \in Tuples
  BY PoolDomain DEF Consistent
<1>2. Interned(pool, fs[k].terms) /\ Agrees(fs[k].value, SaidIn(w, names))
  BY DEF Consistent
<1> HIDE DEF names
<1>3. ValueOf(SaidIn(w, names)) = fs[k].value /\ SaidIn(w, names) # {}
  BY <1>2, ValueOfSaid
<1>4. names \in {f.terms : f \in w}
  <2>1. PICK g \in w : g.terms = names
    BY <1>3 DEF SaidIn
  <2> QED
    BY <2>1
<1>5. [terms |-> names, value |-> fs[k].value] = FactFor(w, names)
  BY <1>3 DEF FactFor
<1> QED
  BY <1>1, <1>2, <1>4, <1>5 DEF names

\* A query that is read is ready unless it is refused.
LEMMA ReadyUnlessRefused ==
  ASSUME Consistent(strTermPool, facts, written),
         NEW text \in Seq(Tokens), ReadQuery(text).status = "read", Convertible(ReadQuery(text))
  PROVE  /\ ReadyFor(TermsWritten(text)) /\ NamedIn(text)
         /\ ReadQuery(text).terms = TermsWritten(text)
<1> DEFINE read == ReadQuery(text)
<1>1. read \in Reads /\ HasRead(text, read)
  BY ReadIsWritten
<1> HIDE DEF read
<1>2. /\ read.module = TheModule /\ read.predicate = TheRelation /\ Len(read.terms) = Arity
      /\ \A i \in 1..Arity : read.terms[i] \in VarNames \/ Contains(strTermPool, read.terms[i])
  BY DEF Convertible, read
<1>3. read.terms \in Seq(Strings)
  BY <1>1 DEF Reads
<1>4. /\ Len(text) >= 3 /\ read.module = text[1].name /\ read.predicate = text[3].name
      /\ read.terms = TermsWritten(text)
  BY <1>1 DEF HasRead
<1>5. ReadyFor(TermsWritten(text))
  BY <1>2, <1>3, <1>4 DEF ReadyFor
<1>6. NamedIn(text)
  BY <1>2, <1>4 DEF NamedIn
<1> QED
  BY <1>4, <1>5, <1>6 DEF read

LEMMA AnswerIsExpected ==
  ASSUME Consistent(strTermPool, facts, written),
         NEW text \in Seq(Tokens), ReadQuery(text).status = "read", Convertible(ReadQuery(text)),
         NoVariableTwice(TermsWritten(text)), NEW a,
         a = Answered(ConvertQuery(ReadQuery(text).terms)).facts
  PROVE  /\ {a[k] : k \in DOMAIN a} = ExpectedFor(written, text)
         /\ Len(a) = Cardinality(ExpectedFor(written, text))
<1> DEFINE q == TermsWritten(text)
           terms == ConvertQuery(q)
           found == QueryKB(terms)
           Naming(t) == NamesIn(strTermPool, t)
           EE == ExpectedFor(written, text)
<1>1. ReadyFor(q) /\ NamedIn(text) /\ ReadQuery(text).terms = q
  BY ReadyUnlessRefused
<1>2. /\ IsPool(strTermPool, Words) /\ facts \in PoolOf(Tuples) /\ UniqueTerms(facts)
      /\ \A g \in written : \E k \in DOMAIN facts : Naming(facts[k].terms) = g.terms
  BY DEF Consistent
<1>3. Finds(found, facts, terms)
  <2> HIDE DEF terms
  <2> QED
    BY <1>2, QueryKBFinds
<1>4. a = [k \in DOMAIN found |-> [terms |-> Naming(found[k].terms), value |-> found[k].value]]
  <2>1. a = Answered(terms).facts
    BY <1>1
  <2> HIDE DEF terms
  <2> QED
    BY <2>1 DEF Answered, NamesIn
<1>5. \A l \in DOMAIN facts : /\ facts[l].terms \in Tuples /\ Interned(strTermPool, facts[l].terms)
                              /\ [terms |-> Naming(facts[l].terms), value |-> facts[l].value] =
                                   FactFor(written, Naming(facts[l].terms))
                              /\ Naming(facts[l].terms) \in {f.terms : f \in written}
  BY FactsAreSaid
<1> HIDE DEF q, Naming
<1>6. \A l \in DOMAIN facts : CanBeUnified(terms, facts[l].terms) <=> Matches(q, Naming(facts[l].terms))
  <2> TAKE l \in DOMAIN facts
  <2>1. NoVariableTwice(q)
    BY DEF q
  <2>2. facts[l].terms \in Tuples /\ Interned(strTermPool, facts[l].terms)
    BY <1>5
  <2> QED
    BY <1>1, <1>2, <2>1, <2>2, UnifiedIffMatches DEF Naming
<1> HIDE DEF terms, found
<1>7. /\ found \in PoolOf(Tuples) /\ UniqueTerms(found)
      /\ \A i \in DOMAIN found : \E l \in DOMAIN facts :
           found[i] = facts[l] /\ CanBeUnified(terms, facts[l].terms)
      /\ \A l \in DOMAIN facts :
           CanBeUnified(terms, facts[l].terms) => \E i \in DOMAIN found : found[i] = facts[l]
  BY <1>3 DEF Finds
<1>8. /\ DOMAIN a = DOMAIN found
      /\ \A i \in DOMAIN found :
           a[i] = [terms |-> Naming(found[i].terms), value |-> found[i].value]
  BY <1>4
<1>9. ASSUME NEW i \in DOMAIN found
      PROVE  /\ a[i] \in EE /\ a[i].terms = Naming(found[i].terms)
             /\ found[i].terms \in Tuples /\ Interned(strTermPool, found[i].terms)
  <2>1. PICK l \in DOMAIN facts : found[i] = facts[l] /\ CanBeUnified(terms, facts[l].terms)
    BY <1>7
  <2>2. Matches(q, Naming(facts[l].terms))
    BY <1>6, <2>1
  <2>3. Naming(facts[l].terms) \in Asked(written, text)
    BY <1>1, <1>5, <2>2 DEF Asked, q
  <2>4. a[i] = FactFor(written, Naming(facts[l].terms))
    BY <1>5, <1>8, <2>1
  <2>5. a[i].terms = Naming(found[i].terms)
    <3>1. a[i] = [terms |-> Naming(found[i].terms), value |-> found[i].value]
      BY <1>8
    <3> QED
      BY <3>1
  <2> QED
    BY <1>5, <2>1, <2>3, <2>4, <2>5 DEF ExpectedFor
<1>10. ASSUME NEW e \in EE
       PROVE  \E i \in DOMAIN found : a[i] = e
  <2>1. PICK names \in Asked(written, text) : e = FactFor(written, names)
    BY DEF ExpectedFor
  <2>2. PICK g \in written : g.terms = names
    BY DEF Asked
  <2>3. PICK l \in DOMAIN facts : Naming(facts[l].terms) = names
    BY <1>2, <2>2
  <2>4. Matches(q, Naming(facts[l].terms))
    BY <2>3 DEF Asked, q
  <2>5. PICK i \in DOMAIN found : found[i] = facts[l]
    BY <1>6, <1>7, <2>4
  <2>6. a[i] = e
    BY <1>5, <1>8, <2>1, <2>3, <2>5
  <2> QED
    BY <2>6
<1>11. {a[k] : k \in DOMAIN a} = EE
  <2> HIDE DEF EE
  <2> QED
    BY <1>8, <1>9, <1>10
<1>12. Len(found) \in Nat /\ DOMAIN found = 1..Len(found)
  BY <1>7, PoolDomain
<1>13. ASSUME NEW i \in 1..Len(found), NEW l \in 1..Len(found), a[i] = a[l]
       PROVE  i = l
  <2>1. Naming(found[i].terms) = Naming(found[l].terms)
    BY <1>9, <1>12, <1>13
  <2>2. found[i].terms = found[l].terms
    BY <1>2, <1>9, <1>12, <2>1, NamesTellApart DEF Naming
  <2> QED
    BY <1>7, <1>12, <2>2 DEF UniqueTerms
<1> HIDE DEF EE
<1>14. a \in [1..Len(found) -> EE]
  BY <1>4, <1>8, <1>9, <1>12
<1>15. a \in Bijection(1..Len(found), EE)
  <2>1. \A e \in EE : \E i \in 1..Len(found) : a[i] = e
    BY <1>10, <1>12
  <2> QED
    BY <1>13, <1>14, <2>1 DEF Bijection, Injection, Surjection, IsInjective
<1>16. Cardinality(EE) = Len(found)
  <2>1. ExistsBijection(1..Len(found), EE)
    BY <1>15 DEF ExistsBijection
  <2> QED
    BY <1>12, <2>1, FS_CountingElements
<1>17. Len(a) = Len(found)
  BY <1>12, <1>14
<1> QED
  BY <1>11, <1>16, <1>17 DEF EE

\* A query that is refused matches nothing that was said.
LEMMA RefusedMatchNothing ==
  ASSUME Consistent(strTermPool, facts, written),
         NEW text \in Seq(Tokens), ReadQuery(text).status = "read", ~Convertible(ReadQuery(text))
  PROVE  ExpectedFor(written, text) = {}
<1> DEFINE read == ReadQuery(text)
<1> SUFFICES ASSUME NEW names \in Asked(written, text)
             PROVE  FALSE
  BY DEF ExpectedFor
<1>1. /\ Len(text) >= 3 /\ read.module = text[1].name /\ read.predicate = text[3].name
      /\ read.terms = TermsWritten(text)
  BY ReadIsWritten DEF HasRead
<1> HIDE DEF read
<1>2. NamedIn(text) /\ Matches(read.terms, names)
  BY <1>1 DEF Asked
<1>3. PICK g \in written : g.terms = names
  BY DEF Asked
<1>4. PICK k \in DOMAIN facts : NamesIn(strTermPool, facts[k].terms) = names
  BY <1>3 DEF Consistent
<1>5. g.terms \in [1..Arity -> Names]
  BY DEF Consistent, Sayings
<1>6. Len(names) = Arity /\ DOMAIN names = 1..Arity /\ Arity \in Nat
  BY <1>3, <1>5, NamesAssumption
<1>7. Len(read.terms) = Arity
  BY <1>2, <1>6 DEF Matches
<1>8. ASSUME NEW i \in 1..Arity, read.terms[i] \notin VarNames
      PROVE  Contains(strTermPool, read.terms[i])
  <2>1. i \in DOMAIN read.terms
    <3>1. read \in Reads
      BY ReadIsWritten DEF read
    <3>2. read.terms \in Seq(Strings)
      BY <3>1 DEF Reads
    <3> QED
      BY <1>7, <3>2
  <2>2. read.terms[i] = names[i]
    BY <1>2, <1>8, <2>1 DEF Matches
  <2>3. names[i] = strTermPool[facts[k].terms[i] + 1]
    BY <1>4 DEF NamesIn
  <2>4. facts[k].terms[i] + 1 \in 1..Len(strTermPool)
    BY DEF Consistent, Interned
  <2> QED
    BY <2>2, <2>3, <2>4 DEF Contains
<1>9. Convertible(read)
  BY <1>1, <1>2, <1>7, <1>8 DEF Convertible, NamedIn
<1> QED
  BY <1>9 DEF read

\* What the grammar takes for a query is never answered with a syntax error.
THEOREM SyntaxErrorsAreJustified == Spec => []SyntaxErrorJustified
<1>1. Init => SyntaxErrorJustified
  BY DEF Init, SyntaxErrorJustified, NoAnswer, Outcome
<1>2. SyntaxErrorJustified /\ [Next]_vars => SyntaxErrorJustified'
  <2> SUFFICES ASSUME SyntaxErrorJustified, [Next]_vars
               PROVE  SyntaxErrorJustified'
    OBVIOUS
  <2>1. ASSUME NEW text \in Queries, Ask(text)
        PROVE  SyntaxErrorJustified'
    <3>1. query' = text /\ text \in Seq(Tokens)
      BY <2>1, QueriesAreTokens DEF Ask
    <3>2. answer'.outcome = "syntax" => ReadQuery(text).status # "read"
      BY <2>1 DEF Ask, Outcome, Answered
    <3> QED
      BY <3>1, <3>2, SentencesAreRead DEF SyntaxErrorJustified
  <2>2. CASE Forget
    BY <2>2 DEF Forget, SyntaxErrorJustified, NoAnswer, Outcome
  <2>3. CASE UNCHANGED <<query, answer>>
    BY <2>3 DEF SyntaxErrorJustified
  <2>4. Next => \/ UNCHANGED <<query, answer>> \/ Forget
                \/ \E text \in Queries : Ask(text)
    BY DEF Next, AddFact, InternTerm
  <2> QED
    BY <2>1, <2>2, <2>3, <2>4 DEF vars
<1> QED
  BY <1>1, <1>2, PTL DEF Spec

(***************************************************************************)
(* Answers and refusals.  The invariant says that the relation is that of  *)
(* the script, and that nothing is added to it while an answer is read.    *)
(***************************************************************************)
QueryIInv ==
  /\ Consistent(strTermPool, facts, written)
  /\ answer.outcome \in {"refused", "answered"} => query # << >>
  /\ AnswerExact
  /\ RefusalJustified

LEMMA QueryInit == Init => QueryIInv
<1> SUFFICES ASSUME Init
             PROVE  QueryIInv
  OBVIOUS
<1>1. answer.outcome = "none"
  BY DEF Init, NoAnswer, Outcome
<1>2. Consistent(strTermPool, facts, written)
  <2>1. strTermPool = << >> /\ facts = << >> /\ written = {}
    BY DEF Init
  <2>2. IsPool(<< >>, Words) /\ << >> \in PoolOf(Tuples) /\ UniqueTerms(<< >>)
    BY DEF IsPool, PoolOf, UniqueTerms
  <2> QED
    BY <2>1, <2>2 DEF Consistent
<1> QED
  BY <1>1, <1>2 DEF QueryIInv, AnswerExact, RefusalJustified

\* Before a query there is nothing to answer.
LEMMA NothingAsked ==
  ASSUME QueryIInv, query = << >>, query' = query, answer' = answer,
         Consistent(strTermPool', facts', written')
  PROVE  QueryIInv'
<1>1. ~(answer'.outcome \in {"refused", "answered"})
  BY DEF QueryIInv
<1> QED
  BY <1>1 DEF QueryIInv, AnswerExact, RefusalJustified

LEMMA AddFactKeeps ==
  ASSUME QueryIInv, NEW names \in [1..Arity -> Names], NEW value \in {False, True},
         AddFact(names, value)
  PROVE  QueryIInv'
<1> DEFINE pool == Intern(strTermPool, names)
<1>1. IsPool(strTermPool, Words) /\ Consistent(strTermPool, facts, written)
  BY DEF QueryIInv, Consistent
<1>2. names \in [1..Arity -> Words] /\ Arity \in Nat
  BY NamesAssumption DEF Words
<1>3. /\ IsPool(pool, Words) /\ Grows(strTermPool, pool)
      /\ \A i \in 1..Arity : Contains(pool, names[i])
  BY <1>1, <1>2, InternFacts
<1>4. /\ query = << >> /\ query' = query /\ answer' = answer
      /\ strTermPool' = pool
      /\ facts' = PutTuple(facts, [terms |-> [i \in DOMAIN names |-> QueryId(pool, names[i])],
                                   value |-> value])
      /\ written' = written \cup {[terms |-> names, value |-> value]}
  BY DEF AddFact
<1> HIDE DEF pool
<1>5. Consistent(pool, facts, written)
  BY <1>1, <1>3, InterningIsConsistent
<1>6. Consistent(strTermPool', facts', written')
  BY <1>3, <1>4, <1>5, AddingIsConsistent
<1> QED
  BY <1>4, <1>6, NothingAsked

LEMMA InternTermKeeps ==
  ASSUME QueryIInv, NEW name \in Words, InternTerm(name)
  PROVE  QueryIInv'
<1> DEFINE pool == Intern(strTermPool, <<name>>)
<1>1. IsPool(strTermPool, Words) /\ Consistent(strTermPool, facts, written)
  BY DEF QueryIInv, Consistent
<1>2. <<name>> \in [1..1 -> Words]
  OBVIOUS
<1>3. IsPool(pool, Words) /\ Grows(strTermPool, pool)
  BY <1>1, <1>2, InternFacts
<1>4. /\ query = << >> /\ query' = query /\ answer' = answer
      /\ strTermPool' = pool /\ facts' = facts /\ written' = written
  BY DEF InternTerm
<1> HIDE DEF pool
<1>5. Consistent(strTermPool', facts', written')
  BY <1>1, <1>3, <1>4, InterningIsConsistent
<1> QED
  BY <1>4, <1>5, NothingAsked

LEMMA AskKeeps ==
  ASSUME QueryIInv, NEW text \in Queries, Ask(text)
  PROVE  QueryIInv'
<1> DEFINE read == ReadQuery(text)
<1>1. text \in Seq(Tokens)
  BY QueriesAreTokens
<1>2. Consistent(strTermPool, facts, written)
  BY DEF QueryIInv
<1>3. /\ query' = text
      /\ strTermPool' = strTermPool /\ facts' = facts /\ written' = written
      /\ \/ read.status # "read" /\ answer' = Outcome("syntax")
         \/ read.status = "read" /\ ~Convertible(read) /\ answer' = Outcome("refused")
         \/ read.status = "read" /\ Convertible(read) /\ answer' = Answered(ConvertQuery(read.terms))
  BY DEF Ask
<1>4. Consistent(strTermPool', facts', written')
  BY <1>2, <1>3
<1>5. Expected' = ExpectedFor(written, text)
  <2>1. Expected' = ExpectedFor(written', query')
    BY Zenon DEF Expected, ExpectedFor, FactFor, ValueOf, Asked, Said, SaidIn, Named, NamedIn
  <2> QED
    BY <1>3, <2>1
<1>6. read.status = "read" => query' # << >>
  BY <1>1, <1>3, ReadIsWritten DEF HasRead
<1> HIDE DEF read
<1>7. CASE read.status # "read" /\ answer' = Outcome("syntax")
  <2>1. answer'.outcome = "syntax"
    BY <1>7 DEF Outcome
  <2> QED
    BY <1>4, <2>1 DEF QueryIInv, AnswerExact, RefusalJustified
<1>8. CASE read.status = "read" /\ ~Convertible(read) /\ answer' = Outcome("refused")
  <2>1. answer'.outcome = "refused"
    BY <1>8 DEF Outcome
  <2>2. Expected' = {}
    BY <1>1, <1>2, <1>5, <1>8, RefusedMatchNothing DEF read
  <2> QED
    BY <1>4, <1>6, <1>8, <2>1, <2>2 DEF QueryIInv, AnswerExact, RefusalJustified
<1>9. CASE read.status = "read" /\ Convertible(read) /\ answer' = Answered(ConvertQuery(read.terms))
  <2> DEFINE a == Answered(ConvertQuery(read.terms)).facts
  <2>1. answer'.outcome = "answered" /\ answer'.facts = a
    BY <1>9 DEF Answered
  <2>2. NoVariableTwice(TermsWritten(text)) =>
          /\ {a[k] : k \in DOMAIN a} = ExpectedFor(written, text)
          /\ Len(a) = Cardinality(ExpectedFor(written, text))
    BY <1>1, <1>2, <1>9, AnswerIsExpected DEF read
  <2> HIDE DEF a
  <2>3. AnswerExact'
    BY <1>3, <1>5, <2>1, <2>2 DEF AnswerExact
  <2> QED
    BY <1>4, <1>6, <1>9, <2>1, <2>3 DEF QueryIInv, RefusalJustified
<1> QED
  BY <1>3, <1>7, <1>8, <1>9

LEMMA ForgetKeeps ==
  ASSUME QueryIInv, Forget
  PROVE  QueryIInv'
<1>1. answer'.outcome = "none"
  BY DEF Forget, NoAnswer, Outcome
<1>2. Consistent(strTermPool', facts', written')
  BY DEF Forget, QueryIInv
<1> QED
  BY <1>1, <1>2 DEF QueryIInv, AnswerExact, RefusalJustified

LEMMA QueryNext == QueryIInv /\ [Next]_vars => QueryIInv'
<1> SUFFICES ASSUME QueryIInv, [Next]_vars
             PROVE  QueryIInv'
  OBVIOUS
<1>1. ASSUME NEW names \in [1..Arity -> Names], NEW value \in {False, True}, AddFact(names, value)
      PROVE  QueryIInv'
  BY <1>1, AddFactKeeps
<1>2. ASSUME NEW name \in Names \cup VarNames, InternTerm(name)
      PROVE  QueryIInv'
  BY <1>2, InternTermKeeps DEF Words
<1>3. ASSUME NEW text \in Queries, Ask(text)
      PROVE  QueryIInv'
  BY <1>3, AskKeeps
<1>4. CASE Forget
  BY <1>4, ForgetKeeps
<1>5. CASE UNCHANGED vars
  <2>1. Expected' = Expected
    BY <1>5 DEF vars, Expected, Said, Named
  <2> QED
    BY <1>5, <2>1 DEF vars, QueryIInv, AnswerExact, RefusalJustified
<1> QED
  BY <1>1, <1>2, <1>3, <1>4, <1>5 DEF Next

LEMMA QuerySafe == Spec => []QueryIInv
  BY QueryInit, QueryNext, PTL DEF Spec

\* A query without a repeated variable is answered with exactly the facts of
\* the script that it matches, each once and under the names of the script.
THEOREM AnswersAreExact == Spec => []AnswerExact
<1>1. QueryIInv => AnswerExact
  BY DEF QueryIInv
<1> QED
  BY <1>1, QuerySafe, PTL

\* A query is only refused when nothing that the script says matches it.
THEOREM RefusalsAreJustified == Spec => []RefusalJustified
<1>1. QueryIInv => RefusalJustified
  BY DEF QueryIInv
<1> QED
  BY <1>1, QuerySafe, PTL
==============================================================================
