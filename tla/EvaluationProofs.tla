--------------------------- MODULE EvaluationProofs ---------------------------
(***************************************************************************)
(* Every relation of a program lives the life of RelationStore, whatever   *)
(* the program, its rules and the algorithm: the types of what the         *)
(* evaluators make, then one lemma per action.  And the counters of Incons *)
(* facts tell evaluateKBModule when it may end: what they count, again one *)
(* lemma per action.                                                       *)
(***************************************************************************)
EXTENDS Program, RuleEvalProofs

\* The operators of a relation's store are those of KBRelation.
LEMMA StoresConstants ==
  ASSUME NEW r
  PROVE  /\ Stores(r)!False = False /\ Stores(r)!True = True /\ Stores(r)!Incons = Incons
         /\ Stores(r)!Unknown = Unknown
         /\ Stores(r)!KnownValues = {False, Incons, True}
         /\ Stores(r)!EmptyRelation = EmptyRelation
BY DEF Stores!False, Stores!True, Stores!Incons, Stores!Unknown, Stores!KnownValues, False, True,
       Incons, Unknown, Stores!EmptyRelation, EmptyRelation

\* The operators on pools.
LEMMA StoresPools ==
  ASSUME NEW r, NEW pool, NEW tuple, NEW terms, NEW count
  PROVE  /\ Stores(r)!Has(pool, terms) <=> Has(pool, terms)
         /\ Stores(r)!IndexOf(pool, terms) = IndexOf(pool, terms)
         /\ Stores(r)!ValueIn(pool, terms) = ValueIn(pool, terms)
         /\ Stores(r)!Merged(pool, tuple) = Merged(pool, tuple)
         /\ Stores(r)!BecomesIncons(pool, tuple) <=> BecomesIncons(pool, tuple)
         /\ Stores(r)!PutTuple(pool, tuple) = PutTuple(pool, tuple)
         /\ Stores(r)!PutCount(count, pool, tuple) = PutCount(count, pool, tuple)
         /\ Stores(r)!HasIncons(pool, terms) <=> HasIncons(pool, terms)
<1>1. \A t : Stores(r)!Has(pool, t) <=> Has(pool, t)
  BY Zenon DEF Stores!Has, Has
<1>2. \A t : Stores(r)!IndexOf(pool, t) = IndexOf(pool, t)
  BY Zenon DEF Stores!IndexOf, IndexOf
<1>3. \A t : Stores(r)!ValueIn(pool, t) = ValueIn(pool, t)
  BY <1>2, Zenon DEF Stores!ValueIn, ValueIn
<1>4. \A x, y : Stores(r)!DisjunctionWrtOrdering(x, y) = DisjunctionWrtOrdering(x, y)
  <2>1. Stores(r)!DisjWrtOrd = DisjWrtOrd
    BY StoresConstants, Zenon DEF Stores!DisjWrtOrd, DisjWrtOrd
  <2> QED
    BY <2>1, Zenon DEF Stores!DisjunctionWrtOrdering, DisjunctionWrtOrdering
<1>5. Stores(r)!Merged(pool, tuple) = Merged(pool, tuple)
  BY <1>3, <1>4, Zenon DEF Stores!Merged, Merged
<1>6. Stores(r)!BecomesIncons(pool, tuple) <=> BecomesIncons(pool, tuple)
  BY <1>1, <1>3, <1>5, StoresConstants, Zenon DEF Stores!BecomesIncons, BecomesIncons
<1>7. Stores(r)!PutTuple(pool, tuple) = PutTuple(pool, tuple)
  BY <1>1, <1>2, <1>5, Zenon DEF Stores!PutTuple, PutTuple
<1>8. Stores(r)!PutCount(count, pool, tuple) = PutCount(count, pool, tuple)
  BY <1>6, Zenon DEF Stores!PutCount, PutCount
<1>9. Stores(r)!HasIncons(pool, terms) <=> HasIncons(pool, terms)
  BY StoresConstants, Zenon DEF Stores!HasIncons, HasIncons
<1> QED
  BY <1>1, <1>2, <1>3, <1>5, <1>6, <1>7, <1>8, <1>9

\* The operators on relations.
LEMMA StoresOperations ==
  ASSUME NEW r, NEW rel, NEW tuple, NEW removed
  PROVE  /\ Stores(r)!AddEdbTuple(rel, tuple) = AddEdbTuple(rel, tuple)
         /\ Stores(r)!AddTuple(rel, tuple) = AddTuple(rel, tuple)
         /\ Stores(r)!AddInconsTuple(rel, tuple) = AddInconsTuple(rel, tuple)
         /\ Stores(r)!Finalize(rel) = Finalize(rel)
         /\ Stores(r)!Clear(rel) = Clear(rel)
         /\ Stores(r)!ClearIncons(rel, removed) = ClearIncons(rel, removed)
<1>1. Stores(r)!AddEdbTuple(rel, tuple) = AddEdbTuple(rel, tuple)
  BY StoresPools, Zenon DEF Stores!AddEdbTuple, AddEdbTuple
<1>2. Stores(r)!AddTuple(rel, tuple) = AddTuple(rel, tuple)
  BY StoresPools, Zenon DEF Stores!AddTuple, AddTuple
<1>3. Stores(r)!AddInconsTuple(rel, tuple) = AddInconsTuple(rel, tuple)
  BY <1>2, StoresConstants, Zenon DEF Stores!AddInconsTuple, AddInconsTuple
<1>4. Stores(r)!Finalize(rel) = Finalize(rel) /\ Stores(r)!Clear(rel) = Clear(rel)
  BY Zenon DEF Stores!Finalize, Finalize, Stores!Clear, Clear
<1>0. \A S : Stores(r)!Cardinality(S) = Cardinality(S)
  BY Zenon DEF Stores!Cardinality, Cardinality, Stores!IsFiniteSet, IsFiniteSet
<1>5. Stores(r)!ClearIncons(rel, removed) = ClearIncons(rel, removed)
  BY <1>0, Zenon DEF Stores!ClearIncons, ClearIncons, Stores!HasIncons, HasIncons, Stores!Unknown, Unknown, Stores!Incons, Incons
<1> QED
  BY <1>1, <1>2, <1>3, <1>4, <1>5
------------------------------------------------------------------------------
\* The phase of a relation.
StorePhase(r) ==
  IF ~rels[r].finalized THEN "loading"
  ELSE IF phase \in {"correct", "restore"} /\ r \in Heads THEN phase
  ELSE "derive"

StoreStep(r) == [Stores(r)!Next]_(Stores(r)!vars)

\* What a step may do to one relation: nothing,
LEMMA StoreStutters ==
  ASSUME NEW r, rels'[r] = rels[r], StorePhase(r)' = StorePhase(r),
         backup'[r] = backup[r], cursor'[r] = cursor[r]
  PROVE  StoreStep(r)
BY DEF StoreStep, StorePhase, Stores!vars

\* take a fact of the text,
LEMMA StoreAddsEdbFact ==
  ASSUME NEW r, NEW terms \in TermArrays, NEW value \in {False, True},
         StorePhase(r) = "loading", StorePhase(r)' = StorePhase(r),
         rels'[r] = AddEdbTuple(rels[r], [terms |-> terms, value |-> value]),
         backup'[r] = backup[r], cursor'[r] = cursor[r]
  PROVE  StoreStep(r)
<1>1. Stores(r)!AddEdbFact(terms, value)
  BY StoresOperations DEF StorePhase, Stores!AddEdbFact
<1>2. value \in {Stores(r)!False, Stores(r)!True}
  BY StoresConstants
<1> QED
  BY <1>1, <1>2 DEF StoreStep, Stores!Next

\* finish the loading,
LEMMA StoreFinalizes ==
  ASSUME NEW r, StorePhase(r) = "loading", StorePhase(r)' = "derive",
         rels'[r] = Finalize(rels[r]), backup'[r] = backup[r], cursor'[r] = cursor[r]
  PROVE  StoreStep(r)
<1>1. Stores(r)!FinishLoading
  BY StoresOperations DEF StorePhase, Stores!FinishLoading
<1> QED
  BY <1>1 DEF StoreStep, Stores!Next

\* add a result,
LEMMA StoreAddsResult ==
  ASSUME NEW r, NEW terms \in TermArrays, NEW value \in {False, Incons, True},
         StorePhase(r) \in {"derive", "correct"}, StorePhase(r) = "correct" => value # Incons,
         StorePhase(r)' = StorePhase(r),
         rels'[r] = AddTuple(rels[r], [terms |-> terms, value |-> value]),
         backup'[r] = backup[r], cursor'[r] = cursor[r]
  PROVE  StoreStep(r)
<1>1. Stores(r)!AddResult(terms, value)
  BY StoresOperations, StoresConstants DEF StorePhase, Stores!AddResult
<1>2. value \in Stores(r)!KnownValues
  BY StoresConstants
<1> QED
  BY <1>1, <1>2 DEF StoreStep, Stores!Next

\* start a correction round,
LEMMA StoreStartsCorrection ==
  ASSUME NEW r, StorePhase(r) = "derive", StorePhase(r)' = "correct",
         rels'[r] = ClearIncons(Clear(rels[r]), rels[r].facts),
         backup'[r] = rels[r].facts, cursor'[r] = 1
  PROVE  StoreStep(r)
<1>1. Stores(r)!StartCorrection
  BY StoresOperations DEF StorePhase, Stores!StartCorrection
<1> QED
  BY <1>1 DEF StoreStep, Stores!Next

\* end its derivation,
LEMMA StoreStartsRestore ==
  ASSUME NEW r, StorePhase(r) = "correct", StorePhase(r)' = "restore",
         rels'[r] = rels[r], backup'[r] = backup[r], cursor'[r] = cursor[r]
  PROVE  StoreStep(r)
<1>1. Stores(r)!StartRestore
  BY DEF StorePhase, Stores!StartRestore
<1> QED
  BY <1>1 DEF StoreStep, Stores!Next

\* put one tuple of the backup back,
LEMMA StoreRestoresTuple ==
  ASSUME NEW r, StorePhase(r) = "restore", StorePhase(r)' = "restore", cursor[r] <= Len(backup[r]),
         rels'[r] = AddInconsTuple(rels[r], backup[r][cursor[r]]),
         backup'[r] = backup[r], cursor'[r] = cursor[r] + 1
  PROVE  StoreStep(r)
<1>1. Stores(r)!RestoreTuple
  BY StoresOperations DEF StorePhase, Stores!RestoreTuple
<1> QED
  BY <1>1 DEF StoreStep, Stores!Next

\* and end the restoration.
LEMMA StoreFinishesRestore ==
  ASSUME NEW r, StorePhase(r) = "restore", StorePhase(r)' = "derive", cursor[r] > Len(backup[r]),
         rels'[r] = rels[r], backup'[r] = backup[r], cursor'[r] = cursor[r]
  PROVE  StoreStep(r)
<1>1. Stores(r)!FinishRestore
  BY DEF StorePhase, Stores!FinishRestore
<1> QED
  BY <1>1 DEF StoreStep, Stores!Next
------------------------------------------------------------------------------
\* The term arrays that fit a relation of a program.
TermsFor(p, r) == {t \in TermArrays : \A atom \in Mentions(p) : atom.rel = r => Len(t) = atom.arity}

\* Tuples with terms of T that say something, and those a rule may give a relation.
Results(T) == [terms : T, value : KnownValue]

Derived(p, r) == Results(TermsFor(p, r))

Literal == [rel : Relations, terms : Seq(Term), set : SUBSET TruthValue]

\* The terms of the programs are the terms of the rules.
LEMMA TermIsAnyTerm == Term = AnyTerm
BY DEF Term, AnyTerm

\* An array of terms is a row of values.
LEMMA ArrayIsRow ==
  ASSUME NEW t \in TermArrays
  PROVE  Len(t) \in Nat /\ t \in RowTerms(Values, Len(t))
<1>1. t \in Seq(Nat)
  BY ArraysAreSequences
<1>2. Len(t) \in Nat /\ DOMAIN t = 1..Len(t) /\ t = [i \in 1..Len(t) |-> t[i]]
  BY <1>1
<1>3. ASSUME NEW i \in 1..Len(t)
      PROVE  t[i] \in Values
  <2>1. t[i] \in ToSet(t)
    BY <1>2 DEF ToSet
  <2> QED
    BY <2>1 DEF Values
<1> HIDE DEF Values
<1>4. t \in [1..Len(t) -> Values]
  BY <1>2, <1>3
<1> QED
  BY <1>2, <1>4 DEF RowTerms

\* Null may stand for a variable that a disjunct does not bind.
LEMMA NullIsValue == Null \in Values
BY DEF Values

\* What a module of a program consists of.
LEMMA ModuleFacts ==
  ASSUME NEW p \in Programs, NEW m \in DOMAIN p.modules
  PROVE  /\ p.modules[m].relations \in Seq(Relations)
         /\ p.modules[m].rules \in Seq(RuleRecord)
         /\ \A i \in DOMAIN p.modules[m].rules :
              /\ p.modules[m].rules[i] \in RulesIn(p)
              /\ p.modules[m].rules[i].head.rel \in ToSet(p.modules[m].relations)
<1>1. /\ p.modules \in Seq([relations : Seq(Relations), rules : Seq(RuleRecord)])
      /\ \A q \in ToSet(p.modules[m].rules) : q.head.rel \in ToSet(p.modules[m].relations)
  BY ProgramsAssumption
<1> DEFINE R == [relations : Seq(Relations), rules : Seq(RuleRecord)]
           modules == p.modules
<1>2. p.modules[m] \in [relations : Seq(Relations), rules : Seq(RuleRecord)]
  <2>1. modules \in Seq(R) /\ m \in DOMAIN modules
    BY <1>1
  <2> HIDE DEF R, modules
  <2>2. modules[m] \in R
    BY <2>1
  <2> QED
    BY <2>2 DEF R, modules
<1> HIDE DEF R, modules
<1>3. p.modules[m].relations \in Seq(Relations) /\ p.modules[m].rules \in Seq(RuleRecord)
  BY <1>2
<1>4. \A i \in DOMAIN p.modules[m].rules : p.modules[m].rules[i] \in ToSet(p.modules[m].rules)
  BY DEF ToSet
<1>5. \A i \in DOMAIN p.modules[m].rules : p.modules[m].rules[i] \in RulesIn(p)
  BY <1>4 DEF RulesIn
<1> QED
  BY <1>1, <1>3, <1>4, <1>5

\* The rules of a program can be evaluated.
LEMMA RuleFacts ==
  ASSUME NEW p \in Programs, NEW q \in RulesIn(p)
  PROVE  /\ q \in RuleRecord
         /\ Evaluable(q) /\ InBounds(q) /\ Representable(q)
         /\ EvaluableRule(q, Values, Literal)
         /\ Literals(q) \in Seq(Literal)
         /\ \A k \in DOMAIN Literals(q) : Atom(Literals(q)[k]) \in Mentions(p)
         /\ Atom(q.head) \in Mentions(p)
<1>1. Evaluable(q) /\ InBounds(q) /\ Representable(q)
  BY ProgramsAssumption
<1>2. q \in RuleRecord
  <2>1. PICK m \in DOMAIN p.modules : q \in ToSet(p.modules[m].rules)
    BY DEF RulesIn
  <2>2. PICK i \in DOMAIN p.modules[m].rules : q = p.modules[m].rules[i]
    BY <2>1 DEF ToSet
  <2>3. p.modules[m].rules \in Seq(RuleRecord)
    BY ModuleFacts
  <2> QED
    BY <2>2, <2>3
<1>3. /\ q.head.terms \in Seq(Term) /\ q.head.isTrue \in BOOLEAN
      /\ q.disjuncts \in Seq(Disjunct)
  <2>1. q.head \in [rel : Relations, isTrue : BOOLEAN, terms : Seq(Term)] /\ q.disjuncts \in Seq(Disjunct)
    BY <1>2 DEF RuleRecord
  <2>2. q.head.isTrue \in BOOLEAN
    BY <2>1, Zenon
  <2> QED
    BY <2>1, <2>2
<1>4. \A d \in DOMAIN q.disjuncts : q.disjuncts[d].body \in Seq(Literal)
  <2> TAKE d \in DOMAIN q.disjuncts
  <2>1. q.disjuncts[d] \in Disjunct
    BY <1>3
  <2> QED
    BY <2>1 DEF Disjunct, Literal
<1> DEFINE disjuncts == q.disjuncts
           bodies == [d \in DOMAIN disjuncts |-> disjuncts[d].body]
<1>5. bodies \in Seq(Seq(Literal))
  BY <1>3, <1>4
<1>6. Literals(q) = FlattenSeq(bodies)
  BY DEF Literals, LiteralsOf
<1>7. Literals(q) \in Seq(Literal)
  <2> HIDE DEF bodies
  <2> QED
    BY <1>5, <1>6, FlattenFacts
<1>8. q.head.terms \in Seq(TermsOver(Values))
  <2> DEFINE terms == q.head.terms
  <2>1. terms \in Seq(AnyTerm) /\ Len(terms) \in Nat /\ DOMAIN terms = 1..Len(terms)
    BY <1>3, TermIsAnyTerm
  <2>2. \A i \in DOMAIN terms : terms[i].isVar \/ terms[i].id \in Values
    BY <1>1 DEF Representable
  <2> HIDE DEF terms
  <2>3. \A i \in DOMAIN terms : terms[i] \in TermsOver(Values)
    <3> TAKE i \in DOMAIN terms
    <3>1. terms[i] \in AnyTerm
      BY <2>1
    <3> QED
      BY <2>2, <3>1 DEF TermsOver
  <2>4. terms = [i \in 1..Len(terms) |-> terms[i]]
    BY <2>1
  <2>5. terms \in [1..Len(terms) -> TermsOver(Values)]
    BY <2>1, <2>3, <2>4
  <2>6. terms \in Seq(TermsOver(Values))
    BY <2>1, <2>5, SeqDef
  <2> QED
    BY <2>6 DEF terms
<1>9. \A lit \in Literal : lit.terms \in Seq(AnyTerm)
  BY TermIsAnyTerm DEF Literal
<1>10. VarIds(q.head.terms) \subseteq BodyIds(Literals(q))
  <2> SUFFICES ASSUME NEW v \in VarIds(q.head.terms)
               PROVE  v \in BodyIds(Literals(q))
    OBVIOUS
  <2>1. PICK lit \in ToSet(Literals(q)) : v \in VarIds(lit.terms)
    BY <1>1 DEF Evaluable
  <2>2. PICK k \in DOMAIN Literals(q) : lit = Literals(q)[k]
    BY <2>1 DEF ToSet
  <2> QED
    BY <2>1, <2>2 DEF BodyIds
<1>11. EvaluableRule(q, Values, Literal)
  <2>1. /\ q.disjuncts # << >>
        /\ \A d \in DOMAIN q.disjuncts : q.disjuncts[d].body \in Seq(Literal) /\ q.disjuncts[d].body # << >>
    BY <1>1, <1>4 DEF Evaluable
  <2>2. \E S : q.disjuncts \in Seq(S)
    BY <1>3
  <2> QED
    BY <1>1, <1>3, <1>8, <1>9, <1>10, <2>1, <2>2, Zenon DEF EvaluableRule, InBounds
<1>12. \A k \in DOMAIN Literals(q) : Atom(Literals(q)[k]) \in Mentions(p)
  <2> TAKE k \in DOMAIN Literals(q)
  <2>1. Literals(q)[k] \in ToSet(Literals(q))
    BY DEF ToSet
  <2>2. Atom(Literals(q)[k]) \in {Atom(lit) : lit \in ToSet(Literals(q))}
    BY <2>1
  <2> QED
    BY <2>2 DEF Mentions
<1>13. Atom(q.head) \in Mentions(p)
  BY DEF Mentions
<1> QED
  BY <1>1, <1>2, <1>7, <1>11, <1>12, <1>13

\* What a rule of a program makes of pools that fit their relations fits the
\* relation of its head.
LEMMA ResultTyped ==
  ASSUME NEW p \in Programs, NEW q \in RulesIn(p), NEW refs,
         \E P : refs \in Seq(P), Len(refs) = Len(Literals(q)),
         \A k \in DOMAIN Literals(q) : refs[k] \in PoolOf(TermsFor(p, Literals(q)[k].rel))
  PROVE  EvalRule(q, refs) \in Seq(Derived(p, q.head.rel))
<1>1. /\ EvaluableRule(q, Values, Literal) /\ Representable(q) /\ q \in RuleRecord
      /\ \A k \in DOMAIN Literals(q) : Atom(Literals(q)[k]) \in Mentions(p)
      /\ Atom(q.head) \in Mentions(p)
  BY RuleFacts
<1>2. ASSUME NEW k \in DOMAIN Literals(q)
      PROVE  refs[k] \in Seq(FactsOf(Values, Len(Literals(q)[k].terms)))
  <2> DEFINE lit == Literals(q)[k]
             n == Len(lit.terms)
  <2>1. Atom(lit) \in Mentions(p) /\ Atom(lit).rel = lit.rel /\ Atom(lit).arity = n
    BY <1>1 DEF Atom
  <2> HIDE DEF lit, n
  <2>2. \A t \in TermsFor(p, lit.rel) : t \in RowTerms(Values, n)
    BY <2>1, ArrayIsRow DEF TermsFor
  <2>3. TuplesOver(TermsFor(p, lit.rel)) \subseteq FactsOf(Values, n)
    BY <2>2 DEF TuplesOver, FactsOf
  <2>4. refs[k] \in Seq(TuplesOver(TermsFor(p, lit.rel)))
    BY DEF PoolOf, lit
  <2>5. refs[k] \in Seq(FactsOf(Values, n))
    BY <2>3, <2>4, SeqOfMore
  <2> QED
    BY <2>5 DEF n, lit
<1>3. PoolsFor(q, refs, Values)
  BY <1>2 DEF PoolsFor
<1>4. EvalRule(q, refs) \in Seq(RowsOf(Values, Len(q.head.terms)))
  BY <1>1, <1>3, NullIsValue, RuleTyped
<1>5. RowsOf(Values, Len(q.head.terms)) \subseteq Derived(p, q.head.rel)
  <2> DEFINE n == Len(q.head.terms)
             r == q.head.rel
  <2>1. Atom(q.head).rel = r /\ Atom(q.head).arity = n
    BY DEF Atom
  <2>2. \A atom \in Mentions(p) : atom.rel = r => atom.arity = n
    BY <1>1, <2>1, ProgramsAssumption
  <2>3. DOMAIN q.head.terms = 1..n /\ n \in Nat
    <3>1. q.head.terms \in Seq(Term)
      BY <1>1 DEF RuleRecord
    <3> QED
      BY <3>1
  <2>4. RowTerms(Values, n) \subseteq TermArrays
    BY <1>1, <2>3 DEF RowTerms, Representable
  <2> HIDE DEF n, r
  <2>5. ASSUME NEW t \in RowTerms(Values, n)
        PROVE  t \in TermsFor(p, r)
    <3>1. t \in TermArrays
      BY <2>4
    <3>2. t \in Seq(Nat)
      BY <3>1, ArraysAreSequences
    <3>3. DOMAIN t = 1..n
      BY DEF RowTerms
    <3>4. Len(t) = n
      BY <2>3, <3>2, <3>3
    <3> QED
      BY <2>2, <3>1, <3>4 DEF TermsFor
  <2>6. RowsOf(Values, n) \subseteq Derived(p, r)
    BY <2>5 DEF RowsOf, Derived, Results, KnownValue
  <2> QED
    BY <2>6 DEF n, r
<1> QED
  BY <1>4, <1>5, SeqOfMore
------------------------------------------------------------------------------
\* A rule's result is aggregated to tuples with the terms and values of tuples.
LEMMA AggregatedTyped ==
  ASSUME NEW T, NEW result \in Seq(Results(T))
  PROVE  Aggregated(result) \in Seq(Results(T))
<1> DEFINE R == Results(T)
           rows == Tail(result)
           n == Len(rows)
           V == [out : Seq(R), tuple : R, best : KnownValue]
           base == [out |-> << >>, tuple |-> result[1], best |-> result[1].value]
           step(acc, next) ==
             IF next.terms = acc.tuple.terms
             THEN [acc EXCEPT !.best = IF next.value \in {@, Incons} THEN @ ELSE Incons]
             ELSE [acc EXCEPT !.out = Append(@, [acc.tuple EXCEPT !.value = acc.best]),
                              !.tuple = next]
           D == SUBSET (1..n)
           F == [x \in V \X R |-> step(x[1], x[2])]
           Eq(g) == [d \in D |-> IF d = {} THEN base ELSE step(g[d \ {Max(d)}], rows[Max(d)])]
           iter == CHOOSE g : g = Eq(g)
           iterOver(places) ==
             CHOOSE g : g = [d \in SUBSET places |->
                               IF d = {} THEN base ELSE step(g[d \ {Max(d)}], rows[Max(d)])]
<1>a. CASE result = << >>
  BY <1>a, Zenon DEF Aggregated
<1>b. CASE result # << >>
  <2>0. result[1] \in R /\ rows \in Seq(R)
    BY <1>b
  <2>1. n \in Nat /\ rows \in [1..n -> R] /\ DOMAIN rows = 1..n
    <3> HIDE DEF R, rows
    <3> QED
      BY <2>0
  <2>2. base \in V
    <3>1. result[1].value \in KnownValue
      BY <2>0 DEF Results
    <3>2. << >> \in Seq(R)
      OBVIOUS
    <3> HIDE DEF R
    <3> QED
      BY <2>0, <3>1, <3>2
  <2>3. ASSUME NEW acc \in V, NEW next \in R
        PROVE  step(acc, next) \in V
    <3>1. /\ acc.out \in Seq(R) /\ acc.tuple \in R /\ acc.best \in KnownValue
          /\ acc = [out |-> acc.out, tuple |-> acc.tuple, best |-> acc.best]
      OBVIOUS
    <3>2. CASE next.terms = acc.tuple.terms
      <4>1. (IF next.value \in {acc.best, Incons} THEN acc.best ELSE Incons) \in KnownValue
        BY <3>1 DEF KnownValue
      <4> DEFINE best == IF next.value \in {acc.best, Incons} THEN acc.best ELSE Incons
      <4>2. step(acc, next) = [acc EXCEPT !.best = best]
        BY <3>2
      <4> HIDE DEF best, R
      <4>3. [acc EXCEPT !.best = best] \in V
        BY <3>1, <4>1 DEF best
      <4> QED
        BY <4>2, <4>3
    <3>3. CASE next.terms # acc.tuple.terms
      <4> DEFINE tuple == [acc.tuple EXCEPT !.value = acc.best]
                 out == Append(acc.out, tuple)
      <4>1. tuple \in R
        BY <3>1 DEF Results
      <4>2. out \in Seq(R)
        <5> HIDE DEF tuple, R
        <5> QED
          BY <3>1, <4>1
      <4>3. step(acc, next) = [acc EXCEPT !.out = out, !.tuple = next]
        BY <3>3
      <4> HIDE DEF out, R
      <4>4. [acc EXCEPT !.out = out, !.tuple = next] \in V
        BY <3>1, <4>2
      <4> QED
        BY <4>3, <4>4
    <3> QED
      BY <3>2, <3>3
  <2> HIDE DEF step, iterOver
  <2>4. F \in [V \X R -> V] /\ \A x \in V, y \in R : F[<<x, y>>] = step(x, y)
    BY <2>3
  <2>5. PICK g : IsFold(g, F, base, rows, n, V)
    <3> HIDE DEF F, V, base, rows
    <3> QED
      BY <2>1, <2>2, <2>4, FoldExists
  <2>6. /\ g \in [D -> V]
        /\ \A d \in D : g[d] = IF d = {} THEN base ELSE F[<<g[d \ {Max(d)}], rows[Max(d)]>>]
    BY <2>5, Zenon DEF IsFold
  <2>7. \A d \in D : d # {} => Max(d) \in 1..n /\ d \ {Max(d)} \in D
    BY <2>1, WithoutLast
  <2>8. g = Eq(g)
    <3>1. \A d \in D : g[d] = IF d = {} THEN base ELSE step(g[d \ {Max(d)}], rows[Max(d)])
      <4> HIDE DEF F, D, V, base, rows, R
      <4> QED
        BY <2>1, <2>4, <2>6, <2>7
    <3> HIDE DEF F, D, V, base, rows
    <3> QED
      BY <2>6, <3>1
  <2>9. iter = Eq(iter)
    <3> HIDE DEF Eq
    <3> QED
      BY <2>8
  <2>10. Aggregated(result) = Append(iter[1..n].out, iter[1..n].tuple)
    <3> DEFINE whole == iterOver(DOMAIN rows)[DOMAIN rows]
    <3>1. Aggregated(result) = Append(whole.out, whole.tuple)
      BY <1>b, Zenon DEF Aggregated, FoldLeft, MapThenFoldSet, step, iterOver
    <3>2. iter = iterOver(1..n)
      BY DEF iterOver
    <3> HIDE DEF iter, iterOver, rows
    <3> QED
      BY <2>1, <3>1, <3>2
  <2>11. iter[{}] = base
    BY <2>9
  <2>12. \A d \in D : d # {} /\ iter[d \ {Max(d)}] \in V =>
           iter[d] = F[<<iter[d \ {Max(d)}], rows[Max(d)]>>]
    <3> HIDE DEF iter, F, base, V, R, rows
    <3>1. \A d \in D : d # {} => iter[d] = step(iter[d \ {Max(d)}], rows[Max(d)])
      BY <2>9
    <3>2. \A d \in D : d # {} => rows[Max(d)] \in R
      BY <2>1, <2>7
    <3> HIDE DEF D
    <3> QED
      BY <2>4, <3>1, <3>2
  <2>13. FoldsWith(iter, F, base, rows, n, V, R)
    <3> HIDE DEF iter, F, V, n, base, rows, R
    <3> QED
      BY <2>1, <2>2, <2>4, <2>11, <2>12 DEF FoldsWith
  <2>14. PICK h : IsRun(h, F, base, rows, n, V) /\ iter[1..n] = h[n]
    <3> HIDE DEF iter, F, base, V, rows, R
    <3> QED
      BY <2>13, FoldValues
  <2>15. h[n] \in V
    <3>1. h \in [0..n -> V] /\ n \in 0..n
      BY <2>1, <2>14 DEF IsRun
    <3> HIDE DEF V, rows
    <3> QED
      BY <3>1
  <2>16. h[n].out \in Seq(R) /\ h[n].tuple \in R
    <3> HIDE DEF R
    <3> QED
      BY <2>15
  <2> HIDE DEF iter, F, R, V
  <2>17. Append(h[n].out, h[n].tuple) \in Seq(R)
    BY <2>16
  <2> QED
    BY <2>10, <2>14, <2>17 DEF R
<1> QED
  BY <1>a, <1>b

\* What a phase adds are results; only the incons phase adds Incons facts.
LEMMA ToAddTyped ==
  ASSUME NEW T, NEW result \in Seq(Results(T))
  PROVE  /\ ToAdd(result) \in Seq(Results(T))
         /\ phase # "incons" => \A k \in DOMAIN ToAdd(result) : ToAdd(result)[k].value # Incons
<1> DEFINE R == Results(T)
<1>1. ASSUME NEW s \in Seq(R)
      PROVE  /\ Wanted(s) \in Seq(R)
             /\ phase # "incons" => \A k \in DOMAIN Wanted(s) : Wanted(s)[k].value # Incons
  <2> DEFINE P == {k \in DOMAIN s : (s[k].value = Incons) <=> (phase = "incons")}
  <2>1. P \in SUBSET (DOMAIN s) /\ Wanted(s) = ElementsAt(s, P)
    BY DEF Wanted
  <2>2. \A k \in P : phase # "incons" => s[k].value # Incons
    OBVIOUS
  <2> HIDE DEF P, R
  <2>3. /\ ElementsAt(s, P) \in Seq(R)
        /\ \A k \in DOMAIN ElementsAt(s, P) : \E i \in P : ElementsAt(s, P)[k] = s[i]
    BY <2>1, ElementsAtFacts
  <2> QED
    BY <2>1, <2>2, <2>3
<1>2. Aggregated(result) \in Seq(R)
  BY AggregatedTyped
<1>3. CASE phase = "incons"
  <2>1. ToAdd(result) = Wanted(Aggregated(result))
    BY <1>3 DEF ToAdd
  <2> QED
    BY <1>1, <1>2, <1>3, <2>1
<1>4. CASE phase # "incons"
  <2>1. ToAdd(result) = Wanted(result)
    BY <1>4 DEF ToAdd
  <2> QED
    BY <1>1, <1>4, <2>1
<1> QED
  BY <1>3, <1>4

\* The relations that addIncons goes through are heads.
LEMMA IdbIsHeads ==
  ASSUME NEW k \in DOMAIN Idb, \E S : Module(mod).relations \in Seq(S)
  PROVE  Idb[k] \in Heads
<1> DEFINE relations == Module(mod).relations
           P == {i \in DOMAIN relations : relations[i] \in Heads}
<1>1. PICK S : relations \in Seq(S)
  OBVIOUS
<1>2. Idb = ElementsAt(relations, P) /\ P \in SUBSET (DOMAIN relations)
  BY DEF Idb
<1>3. \A i \in P : relations[i] \in Heads
  OBVIOUS
<1> HIDE DEF relations, P
<1>4. \A j \in DOMAIN ElementsAt(relations, P) : \E i \in P : ElementsAt(relations, P)[j] = relations[i]
  BY <1>1, <1>2, ElementsAtFacts
<1> QED
  BY <1>2, <1>3, <1>4

\* A delta keeps its type.
LEMMA PutDeltaTyped ==
  ASSUME NEW T, NEW delta \in PoolOf(T), NEW tuple \in TuplesOver(T), NEW value \in TruthValue
  PROVE  PutDelta(delta, tuple, value) \in PoolOf(T)
<1>1. [tuple EXCEPT !.value = value] \in TuplesOver(T)
  BY DEF TuplesOver
<1>2. CASE ~Has(delta, tuple.terms)
  <2> DEFINE new == [tuple EXCEPT !.value = value]
  <2>1. PutDelta(delta, tuple, value) = Append(delta, new)
    BY <1>2 DEF PutDelta
  <2> HIDE DEF new
  <2> QED
    BY <1>1, <2>1 DEF PoolOf, new
<1>3. CASE Has(delta, tuple.terms) /\ value # tuple.value
  <2> DEFINE k == IndexOf(delta, tuple.terms)
             new == [delta[k] EXCEPT !.value = value]
  <2>1. k \in DOMAIN delta
    BY <1>3, IndexOfFinds
  <2>2. delta[k] \in TuplesOver(T)
    BY <2>1, PoolDomain
  <2>3. new \in TuplesOver(T)
    BY <2>2 DEF TuplesOver
  <2>4. PutDelta(delta, tuple, value) = [delta EXCEPT ![k] = new]
    BY <1>3 DEF PutDelta
  <2> HIDE DEF k, new
  <2> QED
    BY <2>1, <2>3, <2>4 DEF PoolOf
<1>4. CASE Has(delta, tuple.terms) /\ value = tuple.value
  BY <1>4 DEF PutDelta
<1> QED
  BY <1>2, <1>3, <1>4
------------------------------------------------------------------------------
IsMap(f) == f = [r \in Relations |-> f[r]]

\* The calls come in their order.
OrderKept ==
  /\ program \in Programs
  /\ phase \in Phases
  /\ loaded \in 0..Len(program.modules)
  /\ phase = "load" => loaded < Len(program.modules)
  /\ Running => mod \in 1..loaded
  /\ rule \in Nat \ {0}

StoreTyped(r) ==
  /\ rels[r] \in RelationOf(TermsFor(program, r))
  /\ backup[r] \in PoolOf(TermsFor(program, r))
  /\ cursor[r] \in Nat \ {0}

StoresTyped ==
  /\ IsMap(rels) /\ IsMap(backup) /\ IsMap(cursor)
  /\ \A r \in Relations : StoreTyped(r)

\* The results that are still to be added are results of the rule before.
PendingTyped ==
  pending # << >> =>
    /\ phase \in Generating
    /\ rule - 1 \in DOMAIN Rules
    /\ pending \in Seq(Derived(program, Rules[rule - 1].head.rel))
    /\ phase # "incons" => \A k \in DOMAIN pending : pending[k].value # Incons

LoadedFinalized ==
  \A m \in 1..loaded : \A r \in RelationsOf(m) : rels[r].finalized

BaseInv == OrderKept /\ StoresTyped /\ PendingTyped /\ LoadedFinalized

DeltasTyped ==
  /\ IsMap(deltas) /\ IsMap(newDeltas)
  /\ \A r \in Relations : /\ deltas[r] \in PoolOf(TermsFor(program, r))
                          /\ newDeltas[r] \in PoolOf(TermsFor(program, r))

EInv == BaseInv /\ DeltasTyped
------------------------------------------------------------------------------
\* Adding a tuple keeps the type of a relation and does not finalize it.
LEMMA AddsTyped ==
  ASSUME NEW T, NEW r \in RelationOf(T), NEW tuple \in TuplesOver(T)
  PROVE  /\ AddEdbTuple(r, tuple) \in RelationOf(T) /\ AddEdbTuple(r, tuple).finalized = r.finalized
         /\ AddTuple(r, tuple) \in RelationOf(T) /\ AddTuple(r, tuple).finalized = r.finalized
         /\ AddInconsTuple(r, tuple) \in RelationOf(T)
         /\ AddInconsTuple(r, tuple).finalized = r.finalized
<1> DEFINE P == PoolOf(T)
<1>1. /\ r.facts \in P /\ r.edbFacts \in P
      /\ r.inconsFactsNumber \in Nat /\ r.edbInconsFactsNumber \in Nat
      /\ r = [facts |-> r.facts, edbFacts |-> r.edbFacts, inconsFactsNumber |-> r.inconsFactsNumber,
              edbInconsFactsNumber |-> r.edbInconsFactsNumber, finalized |-> r.finalized]
  BY DEF RelationOf, PoolOf
<1>2. r.finalized \in BOOLEAN
  BY Zenon DEF RelationOf
<1>3. RelationOf(T) = [facts : P, edbFacts : P, inconsFactsNumber : Nat,
                       edbInconsFactsNumber : Nat, finalized : BOOLEAN]
  BY DEF RelationOf, PoolOf
<1>4. PutTuple(r.facts, tuple) \in P /\ PutTuple(r.edbFacts, tuple) \in P
  BY <1>1, PutTupleFacts
<1>5. /\ PutCount(r.inconsFactsNumber, r.facts, tuple) \in Nat
      /\ PutCount(r.edbInconsFactsNumber, r.edbFacts, tuple) \in Nat
  BY <1>1 DEF PutCount
<1> HIDE DEF P
<1>6. AddEdbTuple(r, tuple) \in RelationOf(T) /\ AddEdbTuple(r, tuple).finalized = r.finalized
  <2>1. CASE r.finalized
    BY <2>1 DEF AddEdbTuple
  <2>2. CASE ~r.finalized
    <3> DEFINE new == [r EXCEPT !.edbFacts = PutTuple(r.edbFacts, tuple),
                                !.edbInconsFactsNumber = PutCount(r.edbInconsFactsNumber, r.edbFacts, tuple)]
    <3>1. AddEdbTuple(r, tuple) = new
      BY <2>2 DEF AddEdbTuple
    <3>2. new \in RelationOf(T) /\ new.finalized = r.finalized
      BY <1>1, <1>2, <1>3, <1>4, <1>5
    <3> QED
      BY <3>1, <3>2
  <2> QED
    BY <2>1, <2>2
<1>7. AddTuple(r, tuple) \in RelationOf(T) /\ AddTuple(r, tuple).finalized = r.finalized
  BY <1>1, <1>2, <1>3, <1>4, <1>5 DEF AddTuple
<1>8. AddInconsTuple(r, tuple) \in RelationOf(T) /\ AddInconsTuple(r, tuple).finalized = r.finalized
  <2> DEFINE added == AddTuple(r, tuple)
  <2>1. added.inconsFactsNumber + 1 \in Nat
    BY <1>3, <1>7
  <2>2. added.finalized = r.finalized /\ added \in RelationOf(T)
    BY <1>7
  <2> HIDE DEF added
  <2>3. /\ [added EXCEPT !.inconsFactsNumber = added.inconsFactsNumber + 1] \in RelationOf(T)
        /\ [added EXCEPT !.inconsFactsNumber = added.inconsFactsNumber + 1].finalized = r.finalized
    BY <1>3, <2>1, <2>2
  <2>4. \/ AddInconsTuple(r, tuple) = [added EXCEPT !.inconsFactsNumber = added.inconsFactsNumber + 1]
        \/ AddInconsTuple(r, tuple) = r
    BY DEF AddInconsTuple, added
  <2> QED
    BY <2>3, <2>4
<1> QED
  BY <1>6, <1>7, <1>8

\* So does the start of a correction round.
LEMMA ResetsTyped ==
  ASSUME NEW T, NEW r \in RelationOf(T), NEW removed
  PROVE  /\ Clear(r) \in RelationOf(T)
         /\ ClearIncons(Clear(r), removed) \in RelationOf(T)
         /\ ClearIncons(Clear(r), removed).finalized = r.finalized
<1> DEFINE P == PoolOf(T)
<1>1. /\ r.facts \in P /\ r.edbFacts \in P
      /\ r.inconsFactsNumber \in Nat /\ r.edbInconsFactsNumber \in Nat
      /\ r = [facts |-> r.facts, edbFacts |-> r.edbFacts, inconsFactsNumber |-> r.inconsFactsNumber,
              edbInconsFactsNumber |-> r.edbInconsFactsNumber, finalized |-> r.finalized]
  BY DEF RelationOf, PoolOf
<1>2. r.finalized \in BOOLEAN
  BY Zenon DEF RelationOf
<1>3. RelationOf(T) = [facts : P, edbFacts : P, inconsFactsNumber : Nat,
                       edbInconsFactsNumber : Nat, finalized : BOOLEAN]
  BY DEF RelationOf, PoolOf
<1> HIDE DEF P
<1>10. Clear(r) \in RelationOf(T) /\ Clear(r).finalized = r.finalized
  BY <1>1, <1>2, <1>3 DEF Clear
<1>11. /\ ClearIncons(Clear(r), removed) \in RelationOf(T)
       /\ ClearIncons(Clear(r), removed).finalized = r.finalized
  <2> DEFINE c == Clear(r)
             cleared == ClearIncons(c, removed)
  <2>1. c \in RelationOf(T) /\ c.finalized = r.finalized
    BY <1>10
  <2> HIDE DEF c
  <2>2. cleared = [c EXCEPT !.facts = cleared.facts] /\ cleared.facts \in PoolOf(T)
    BY <2>1, ClearInconsFacts
  <2> HIDE DEF cleared
  <2>3. cleared \in RelationOf(T) /\ cleared.finalized = c.finalized
    <3> DEFINE facts == cleared.facts
    <3>1. [c EXCEPT !.facts = facts] \in RelationOf(T) /\ [c EXCEPT !.facts = facts].finalized = c.finalized
      <4>1. facts \in P
        BY <2>2 DEF P
      <4> HIDE DEF facts
      <4> QED
        BY <1>3, <2>1, <4>1
    <3> QED
      BY <2>2, <3>1
  <2> QED
    BY <2>1, <2>3 DEF c, cleared
<1> QED
  BY <1>10, <1>11

\* Finalizing keeps the type.
LEMMA FinalizeTyped ==
  ASSUME NEW T, NEW r \in RelationOf(T)
  PROVE  Finalize(r) \in RelationOf(T) /\ Finalize(r).finalized
<1> DEFINE P == PoolOf(T)
<1>1. /\ r.facts \in P /\ r.edbFacts \in P
      /\ r.inconsFactsNumber \in Nat /\ r.edbInconsFactsNumber \in Nat
      /\ r = [facts |-> r.facts, edbFacts |-> r.edbFacts, inconsFactsNumber |-> r.inconsFactsNumber,
              edbInconsFactsNumber |-> r.edbInconsFactsNumber, finalized |-> r.finalized]
  BY DEF RelationOf, PoolOf
<1>2. r.finalized \in BOOLEAN
  BY Zenon DEF RelationOf
<1>3. RelationOf(T) = [facts : P, edbFacts : P, inconsFactsNumber : Nat,
                       edbInconsFactsNumber : Nat, finalized : BOOLEAN]
  BY DEF RelationOf, PoolOf
<1> HIDE DEF P
<1>9. Finalize(r) \in RelationOf(T) /\ Finalize(r).finalized
  <2> DEFINE new == [r EXCEPT !.facts = r.edbFacts, !.finalized = TRUE,
                              !.inconsFactsNumber = r.edbInconsFactsNumber]
  <2>1. new \in RelationOf(T) /\ new.finalized
    BY <1>1, <1>2, <1>3
  <2>2. Finalize(r) = IF r.finalized THEN r ELSE new
    BY DEF Finalize
  <2> HIDE DEF new
  <2> QED
    BY <2>1, <2>2
<1> QED
  BY <1>9

\* The relations of the modules are relations.
LEMMA ModulesRelations ==
  ASSUME BaseInv
  PROVE  /\ 1..loaded \subseteq DOMAIN program.modules
         /\ phase = "load" => loaded + 1 \in DOMAIN program.modules
         /\ \A m \in DOMAIN program.modules : RelationsOf(m) \subseteq Relations
<1> DEFINE modules == program.modules
<1>1. program \in Programs /\ \E S : modules \in Seq(S)
  BY ProgramsAssumption DEF BaseInv, OrderKept
<1>2. loaded \in 0..Len(modules) /\ (phase = "load" => loaded < Len(modules))
  BY DEF BaseInv, OrderKept
<1>3. 1..loaded \subseteq DOMAIN modules /\ (phase = "load" => loaded + 1 \in DOMAIN modules)
  <2> HIDE DEF modules
  <2>1. DOMAIN modules = 1..Len(modules) /\ Len(modules) \in Nat
    BY <1>1
  <2> QED
    BY <1>2, <2>1
<1>4. \A m \in DOMAIN modules : RelationsOf(m) \subseteq Relations
  <2> TAKE m \in DOMAIN modules
  <2> DEFINE relations == Module(m).relations
  <2>1. relations \in Seq(Relations)
    BY <1>1, ModuleFacts DEF Module
  <2>2. \A i \in DOMAIN relations : relations[i] \in Relations
    <3> HIDE DEF relations
    <3> QED
      BY <2>1
  <2> QED
    BY <2>2 DEF RelationsOf
<1> QED
  BY <1>3, <1>4

\* What evaluateKBModule may rely on.
RunningOK ==
  /\ mod \in DOMAIN program.modules
  /\ Rules \in Seq(RuleRecord)
  /\ Module(mod).relations \in Seq(Relations)
  /\ \A i \in DOMAIN Rules : Rules[i] \in RulesIn(program) /\ Rules[i].head.rel \in Heads
  /\ \A r \in Heads : r \in Relations /\ rels[r].finalized
  /\ \A r \in Relations : StorePhase(r) = IF ~rels[r].finalized THEN "loading"
                                          ELSE IF phase \in {"correct", "restore"} /\ r \in Heads
                                               THEN phase ELSE "derive"

\* It follows from the invariant.
LEMMA RunningFacts ==
  ASSUME BaseInv, Running
  PROVE  RunningOK
<1>1. /\ program \in Programs /\ mod \in 1..loaded /\ loaded \in 0..Len(program.modules)
      /\ \A m \in 1..loaded : \A r \in RelationsOf(m) : rels[r].finalized
  BY DEF BaseInv, OrderKept, LoadedFinalized
<1>2. mod \in DOMAIN program.modules
  <2> DEFINE modules == program.modules
  <2>1. \E S : modules \in Seq(S)
    BY <1>1, ProgramsAssumption
  <2>2. DOMAIN modules = 1..Len(modules) /\ Len(modules) \in Nat
    <3> HIDE DEF modules
    <3> QED
      BY <2>1
  <2> HIDE DEF modules
  <2>3. mod \in 1..loaded /\ loaded \in 0..Len(modules)
    BY <1>1 DEF modules
  <2>4. mod \in DOMAIN modules
    BY <2>2, <2>3
  <2> QED
    BY <2>4 DEF modules
<1>3. /\ Rules \in Seq(RuleRecord) /\ Module(mod).relations \in Seq(Relations)
      /\ \A i \in DOMAIN Rules : /\ Rules[i] \in RulesIn(program)
                                 /\ Rules[i].head.rel \in ToSet(Module(mod).relations)
  BY <1>1, <1>2, ModuleFacts DEF Rules, Module
<1>4. ToSet(Module(mod).relations) = RelationsOf(mod)
  BY DEF RelationsOf, ToSet
<1>5. \A r \in RelationsOf(mod) : r \in Relations
  <2> DEFINE relations == Module(mod).relations
  <2>1. \A i \in DOMAIN relations : relations[i] \in Relations
    <3> HIDE DEF relations
    <3>1. relations \in Seq(Relations)
      BY <1>3 DEF relations
    <3> QED
      BY <3>1
  <2> QED
    BY <2>1 DEF RelationsOf
<1>6. \A r \in Heads : r \in RelationsOf(mod)
  BY <1>3, <1>4 DEF Heads
<1>7. \A i \in DOMAIN Rules : Rules[i].head.rel \in Heads
  BY DEF Heads
<1> QED
  BY <1>1, <1>2, <1>3, <1>5, <1>6, <1>7 DEF RunningOK, StorePhase

\* What depends on the module being evaluated only.
LEMMA HeadsStay ==
  ASSUME UNCHANGED <<program, mod>>
  PROVE  Heads' = Heads /\ Rules' = Rules /\ Idb' = Idb
BY DEF Heads, Rules, Module, Idb

\* What depends on the program only.
LEMMA RelationsStay ==
  ASSUME UNCHANGED program
  PROVE  /\ \A m : RelationsOf(m)' = RelationsOf(m)
         /\ \A r : TermsFor(program, r)' = TermsFor(program, r)
         /\ \A r : Derived(program, r)' = Derived(program, r)
BY DEF RelationsOf, Module
------------------------------------------------------------------------------
\* What a step has to keep and how the relations may see it.
StepOK == BaseInv' /\ \A r \in Relations : StoreStep(r)

\* A relation stays in its phase where no correction starts or ends.
LEMMA PhaseStays ==
  ASSUME NEW r, rels'[r].finalized = rels[r].finalized,
         \/ phase \notin {"correct", "restore"} /\ phase' \notin {"correct", "restore"}
         \/ UNCHANGED <<program, mod, phase>>
  PROVE  StorePhase(r)' = StorePhase(r)
BY HeadsStay DEF StorePhase

\* A step that leaves the relations alone and starts or ends no correction.
LEMMA StoresStay ==
  ASSUME BaseInv, UNCHANGED <<program, loaded, rels, backup, cursor>>,
         \/ phase \notin {"correct", "restore"} /\ phase' \notin {"correct", "restore"}
         \/ UNCHANGED <<mod, phase>>,
         OrderKept', PendingTyped'
  PROVE  StepOK
<1>1. StoresTyped'
  BY RelationsStay DEF BaseInv, StoresTyped, StoreTyped, IsMap
<1>2. LoadedFinalized'
  BY RelationsStay DEF BaseInv, LoadedFinalized
<1>3. \A r \in Relations : StoreStep(r)
  <2> TAKE r \in Relations
  <2>1. StorePhase(r)' = StorePhase(r)
    BY PhaseStays
  <2> QED
    BY <2>1, StoreStutters
<1> QED
  BY <1>1, <1>2, <1>3 DEF StepOK, BaseInv

\* Without pending results there is nothing to keep.
LEMMA NothingPending ==
  ASSUME pending' = << >>
  PROVE  PendingTyped'
BY DEF PendingTyped

\* AddModule.
LEMMA AddModuleStep == BaseInv /\ AddModule => StepOK
<1> SUFFICES ASSUME BaseInv, AddModule
             PROVE  StepOK
  OBVIOUS
<1> USE DEF AddModule
<1>1. pending = << >>
  BY DEF BaseInv, PendingTyped, Generating
<1>2. OrderKept'
  BY DEF BaseInv, OrderKept, Running, Phases
<1> QED
  BY <1>1, <1>2, NothingPending, StoresStay

\* StartEvaluate.
LEMMA StartEvaluateStep == BaseInv /\ StartEvaluate => StepOK
<1> SUFFICES ASSUME BaseInv, StartEvaluate
             PROVE  StepOK
  OBVIOUS
<1> USE DEF StartEvaluate
<1>1. pending = << >>
  BY DEF BaseInv, PendingTyped, Generating
<1>2. OrderKept'
  <2>1. loaded \in 0..Len(program.modules) /\ program \in Programs
    BY DEF BaseInv, OrderKept
  <2>2. \E n : loaded \in 0..n
    BY <2>1
  <2>3. 1 \in 1..loaded
    <3> DEFINE n == Len(program.modules)
    <3> HIDE DEF n
    <3>1. loaded \in 0..n
      BY <2>1 DEF n
    <3> QED
      BY <3>1
  <2> QED
    BY <2>1, <2>3 DEF OrderKept, Running, Phases, Generating
<1> QED
  BY <1>1, <1>2, NothingPending, StoresStay

\* Wait, and every other step that changes nothing.
LEMMA WaitStep == BaseInv /\ UNCHANGED baseVars => StepOK
<1> SUFFICES ASSUME BaseInv, UNCHANGED baseVars
             PROVE  StepOK
  OBVIOUS
<1> USE DEF baseVars
<1>1. OrderKept'
  BY DEF BaseInv, OrderKept, Running
<1>2. PendingTyped'
  BY RelationsStay, HeadsStay DEF BaseInv, PendingTyped
<1> QED
  BY <1>1, <1>2, StoresStay

\* The end of a module, in ReturnConsistent and LastRound.
LEMMA EndOfModuleStep ==
  ASSUME BaseInv, PassDone, phase \in {"first", "incons"}, EndOfModule,
         UNCHANGED <<program, rels, loaded, evaluations, pending, backup, cursor>>
  PROVE  StepOK
<1>1. pending = << >>
  BY DEF PassDone
<1>2. OrderKept'
  <2>1. /\ program \in Programs /\ loaded \in 0..Len(program.modules)
        /\ mod \in 1..loaded /\ rule \in Nat \ {0}
    BY DEF BaseInv, OrderKept, Running
  <2>2. mod < loaded => mod + 1 \in 1..loaded
    <3> DEFINE n == Len(program.modules)
    <3> HIDE DEF n
    <3>1. loaded \in 0..n /\ mod \in 1..loaded
      BY <2>1 DEF n
    <3> QED
      BY <3>1
  <2>3. CASE mod < loaded
    BY <2>1, <2>2, <2>3 DEF EndOfModule, OrderKept, Running, Phases, Generating
  <2>4. CASE ~(mod < loaded)
    BY <2>1, <2>4 DEF EndOfModule, OrderKept, Running, Phases, Generating
  <2> QED
    BY <2>3, <2>4
<1>3. phase' \notin {"correct", "restore"}
  BY DEF EndOfModule
<1> QED
  BY <1>1, <1>2, <1>3, NothingPending, StoresStay

\* AddFact.
LEMMA AddFactStep ==
  ASSUME BaseInv, NEW fact \in program.facts, AddFact(fact)
  PROVE  StepOK
<1> DEFINE f == fact.rel
           tuple == [terms |-> fact.terms, value |-> fact.value]
<1> USE DEF AddFact
<1>1. program \in Programs /\ pending = << >>
  BY DEF BaseInv, OrderKept, PendingTyped, Generating
<1>2. /\ f \in Relations /\ fact.terms \in TermArrays /\ fact.value \in {False, True}
      /\ tuple \in TuplesOver(TermsFor(program, f))
  <2>1. fact \in [rel : Relations, terms : TermArrays, value : {False, True}]
    BY <1>1, ProgramsAssumption
  <2>2. f \in Relations /\ fact.terms \in TermArrays /\ fact.value \in {False, True}
    BY <2>1
  <2>3. fact.value \in TruthValue
    BY <2>2 DEF False, True, TruthValue
  <2>4. Atom(fact) \in Mentions(program) /\ Atom(fact).rel = f /\ Atom(fact).arity = Len(fact.terms)
    BY DEF Mentions, Atom
  <2>5. fact.terms \in TermsFor(program, f)
    BY <1>1, <2>2, <2>4, ProgramsAssumption DEF TermsFor
  <2> QED
    BY <2>2, <2>3, <2>5 DEF TuplesOver
<1>3. IsMap(rels) /\ \A r \in Relations : StoreTyped(r)
  BY DEF BaseInv, StoresTyped
<1>4. /\ rels'[f] = AddEdbTuple(rels[f], tuple)
      /\ \A r \in Relations : r # f => rels'[r] = rels[r]
  BY <1>2, <1>3 DEF IsMap
<1> HIDE DEF tuple
<1>5. \A r \in Relations : /\ rels'[r] \in RelationOf(TermsFor(program, r))
                           /\ rels'[r].finalized = rels[r].finalized
  <2>1. rels[f] \in RelationOf(TermsFor(program, f))
    BY <1>2, <1>3 DEF StoreTyped
  <2> HIDE DEF f
  <2>2. /\ AddEdbTuple(rels[f], tuple) \in RelationOf(TermsFor(program, f))
        /\ AddEdbTuple(rels[f], tuple).finalized = rels[f].finalized
    BY <1>2, <2>1, AddsTyped
  <2> QED
    BY <1>3, <1>4, <2>2 DEF StoreTyped
<1>6. OrderKept'
  BY DEF BaseInv, OrderKept, Running
<1>7. StoresTyped'
  <2>1. IsMap(rels)'
    BY <1>3 DEF IsMap
  <2>2. \A r \in Relations : StoreTyped(r)'
    BY <1>3, <1>5, RelationsStay DEF StoreTyped
  <2> QED
    BY <1>3, <2>1, <2>2 DEF StoresTyped, IsMap, BaseInv
<1>8. LoadedFinalized'
  <2>1. \A m \in 1..loaded : \A r \in RelationsOf(m) : rels[r].finalized
    BY DEF BaseInv, LoadedFinalized
  <2>2. \A r : r \notin Relations => rels'[r] = rels[r]
    BY <1>2, <1>3 DEF IsMap
  <2>3. \A m \in 1..loaded : \A r \in RelationsOf(m) : rels'[r].finalized
    BY <1>5, <2>1, <2>2
  <2> QED
    BY <2>3, RelationsStay DEF LoadedFinalized
<1>9. \A r \in Relations : StoreStep(r)
  <2> TAKE r \in Relations
  <2>1. StorePhase(r)' = StorePhase(r)
    BY <1>5, PhaseStays
  <2>2. CASE r # f
    BY <1>4, <2>1, <2>2, StoreStutters
  <2>3. CASE r = f /\ rels[f].finalized
    <3>1. rels'[f] = rels[f]
      BY <1>4, <2>3 DEF AddEdbTuple
    <3> QED
      BY <2>1, <2>3, <3>1, StoreStutters
  <2>4. CASE r = f /\ ~rels[f].finalized
    <3>1. StorePhase(r) = "loading"
      BY <2>4 DEF StorePhase
    <3>2. rels'[r] = AddEdbTuple(rels[r], [terms |-> fact.terms, value |-> fact.value])
      BY <1>4, <2>4 DEF tuple
    <3>3. backup'[r] = backup[r] /\ cursor'[r] = cursor[r]
      OBVIOUS
    <3> HIDE DEF f
    <3> QED
      BY <1>2, <2>1, <3>1, <3>2, <3>3, StoreAddsEdbFact
  <2> QED
    BY <2>2, <2>3, <2>4
<1>10. PendingTyped'
  BY <1>1, NothingPending
<1> QED
  BY <1>6, <1>7, <1>8, <1>9, <1>10 DEF StepOK, BaseInv

\* FinishModule.
LEMMA FinishModuleStep == BaseInv /\ FinishModule => StepOK
<1> SUFFICES ASSUME BaseInv, FinishModule
             PROVE  StepOK
  OBVIOUS
<1> USE DEF FinishModule
<1> DEFINE added == RelationsOf(loaded + 1)
<1>1. program \in Programs /\ pending = << >> /\ \A r \in Relations : StoreTyped(r)
  BY DEF BaseInv, OrderKept, PendingTyped, Generating, StoresTyped
<1>2. \A r \in Relations : rels'[r] = IF r \in added THEN Finalize(rels[r]) ELSE rels[r]
  OBVIOUS
<1> HIDE DEF added
<1>3. \A r \in Relations : /\ rels'[r] \in RelationOf(TermsFor(program, r))
                           /\ rels[r].finalized => rels'[r] = rels[r]
                           /\ r \in added => rels'[r].finalized
  <2> TAKE r \in Relations
  <2>1. rels[r] \in RelationOf(TermsFor(program, r))
    BY <1>1 DEF StoreTyped
  <2>2. Finalize(rels[r]) \in RelationOf(TermsFor(program, r)) /\ Finalize(rels[r]).finalized
    BY <2>1, FinalizeTyped
  <2> QED
    BY <1>2, <2>1, <2>2 DEF Finalize
<1>4. OrderKept'
  <2> DEFINE n == Len(program.modules)
  <2>1. n \in Nat
    <3> DEFINE modules == program.modules
    <3>1. \E S : modules \in Seq(S)
      BY <1>1, ProgramsAssumption
    <3> HIDE DEF modules
    <3>2. Len(modules) \in Nat
      BY <3>1
    <3> QED
      BY <3>2 DEF modules
  <2>2. loaded \in 0..n /\ loaded < n /\ rule \in Nat \ {0}
    BY DEF BaseInv, OrderKept
  <2> HIDE DEF n
  <2>3. loaded + 1 \in 0..n
    BY <2>1, <2>2
  <2> QED
    BY <1>1, <2>2, <2>3 DEF OrderKept, Running, Phases, n
<1>5. StoresTyped'
  <2>1. IsMap(rels)'
    BY DEF IsMap
  <2>2. \A r \in Relations : StoreTyped(r)'
    BY <1>1, <1>3, RelationsStay DEF StoreTyped
  <2> QED
    BY <2>1, <2>2 DEF StoresTyped, IsMap, BaseInv
<1>6. LoadedFinalized'
  <2>1. \A m \in 1..loaded : \A r \in RelationsOf(m) : rels[r].finalized
    BY DEF BaseInv, LoadedFinalized
  <2>2. \A m \in 1..loaded + 1 : \A r \in RelationsOf(m) : r \in Relations
    <3>1. \A m \in 1..loaded + 1 : m \in 1..loaded \/ m = loaded + 1
      <4> DEFINE n == Len(program.modules)
      <4>1. loaded \in 0..n
        BY DEF BaseInv, OrderKept
      <4> HIDE DEF n
      <4> QED
        BY <4>1
    <3>2. \A m \in 1..loaded + 1 : m \in DOMAIN program.modules
      BY <3>1, ModulesRelations
    <3> QED
      BY <3>2, ModulesRelations
  <2>3. loaded \in Int
    <3> DEFINE n == Len(program.modules)
    <3>1. loaded \in 0..n
      BY DEF BaseInv, OrderKept
    <3> HIDE DEF n
    <3> QED
      BY <3>1
  <2>4. \A m \in 1..loaded + 1 : m \in 1..loaded \/ m = loaded + 1
    BY <2>3
  <2>5. \A m \in 1..loaded + 1 : \A r \in RelationsOf(m) : rels'[r].finalized
    BY <1>3, <2>1, <2>2, <2>4 DEF added
  <2> QED
    BY <2>5, RelationsStay DEF LoadedFinalized
<1>7. \A r \in Relations : StoreStep(r)
  <2> TAKE r \in Relations
  <2>1. backup'[r] = backup[r] /\ cursor'[r] = cursor[r]
    OBVIOUS
  <2>2. CASE rels'[r] = rels[r]
    <3>1. StorePhase(r)' = StorePhase(r)
      BY <2>2, PhaseStays
    <3> QED
      BY <2>1, <2>2, <3>1, StoreStutters
  <2>3. CASE rels'[r] # rels[r]
    <3>1. rels'[r] = Finalize(rels[r]) /\ ~rels[r].finalized /\ rels'[r].finalized
      BY <1>2, <1>3, <2>3
    <3>2. StorePhase(r) = "loading" /\ StorePhase(r)' = "derive"
      BY <3>1 DEF StorePhase
    <3> QED
      BY <2>1, <3>1, <3>2, StoreFinalizes
  <2> QED
    BY <2>2, <2>3
<1>8. PendingTyped'
  BY <1>1, NothingPending
<1> QED
  BY <1>4, <1>5, <1>6, <1>7, <1>8 DEF StepOK, BaseInv
------------------------------------------------------------------------------
\* Pools that fit the literals of a rule, one for each.
RefsFit(q, refs) ==
  /\ \E P : refs \in Seq(P)
  /\ Len(refs) = Len(Literals(q))
  /\ \A k \in DOMAIN Literals(q) : refs[k] \in PoolOf(TermsFor(program, Literals(q)[k].rel))

\* The facts of the relations fit the literals,
LEMMA RelationRefsFit ==
  ASSUME BaseInv, NEW q \in RulesIn(program)
  PROVE  RefsFit(q, RelationRefs(q))
<1> DEFINE literals == Literals(q)
           n == Len(literals)
           refs == RelationRefs(q)
           P == {rels[r].facts : r \in Relations}
<1>1. program \in Programs /\ \A r \in Relations : StoreTyped(r)
  BY DEF BaseInv, OrderKept, StoresTyped
<1>2. literals \in Seq(Literal)
  BY <1>1, RuleFacts
<1>3. refs = [k \in DOMAIN literals |-> rels[literals[k].rel].facts]
  BY DEF RelationRefs
<1> HIDE DEF literals, refs
<1>4. n \in Nat /\ DOMAIN literals = 1..n /\ \A k \in 1..n : literals[k] \in Literal
  BY <1>2
<1>5. \A k \in 1..n : literals[k].rel \in Relations
  BY <1>4 DEF Literal
<1>6. \A k \in 1..n : refs[k] = rels[literals[k].rel].facts /\ refs[k] \in P
  BY <1>3, <1>4, <1>5
<1> HIDE DEF n, P
<1>7. refs \in Seq(P) /\ Len(refs) = n
  <2>1. refs = [k \in 1..n |-> refs[k]]
    BY <1>3, <1>4
  <2>2. refs \in [1..n -> P]
    BY <1>6, <2>1
  <2> QED
    BY <1>4, <2>2
<1>8. \A k \in 1..n : refs[k] \in PoolOf(TermsFor(program, literals[k].rel))
  <2> TAKE k \in 1..n
  <2>1. rels[literals[k].rel] \in RelationOf(TermsFor(program, literals[k].rel))
    BY <1>1, <1>5 DEF StoreTyped
  <2> DEFINE r == rels[literals[k].rel]
             T == TermsFor(program, literals[k].rel)
  <2> HIDE DEF r, T
  <2>2. r.facts \in PoolOf(T)
    BY <2>1 DEF RelationOf, PoolOf, r, T
  <2> QED
    BY <1>6, <2>2 DEF r, T
<1> QED
  BY <1>4, <1>7, <1>8 DEF RefsFit, literals, n, refs

\* and still do when a delta takes the place of one of them.
LEMMA DeltaRefsFit ==
  ASSUME EInv, NEW q \in RulesIn(program), NEW k \in DOMAIN Literals(q)
  PROVE  RefsFit(q, RefsWithDelta(q, k))
<1> DEFINE literals == Literals(q)
           n == Len(literals)
           old == RelationRefs(q)
           delta == deltas[literals[k].rel]
           refs == RefsWithDelta(q, k)
<1>1. program \in Programs /\ \A r \in Relations : deltas[r] \in PoolOf(TermsFor(program, r))
  BY DEF EInv, BaseInv, OrderKept, DeltasTyped
<1>2. literals \in Seq(Literal)
  BY <1>1, RuleFacts
<1>3. RefsFit(q, old)
  BY RelationRefsFit DEF EInv
<1>4. refs = [old EXCEPT ![k] = delta]
  BY DEF RefsWithDelta
<1>5. literals[k] \in Literal
  <2> HIDE DEF literals
  <2>1. k \in DOMAIN literals
    BY DEF literals
  <2> QED
    BY <1>2, <2>1
<1>6. delta \in PoolOf(TermsFor(program, literals[k].rel))
  BY <1>1, <1>5 DEF Literal
<1>7. PICK P : old \in Seq(P) /\ Len(old) = n
  BY <1>3 DEF RefsFit
<1>8. n \in Nat /\ DOMAIN literals = 1..n /\ k \in 1..n
  <2>1. k \in DOMAIN literals
    OBVIOUS
  <2> HIDE DEF literals
  <2> QED
    BY <1>2, <2>1
<1>9. \A j \in 1..n : old[j] \in PoolOf(TermsFor(program, literals[j].rel))
  BY <1>3, <1>8 DEF RefsFit
<1> HIDE DEF n, old, delta, refs, literals
<1>10. DOMAIN refs = 1..n /\ refs[k] = delta /\ \A j \in 1..n : j # k => refs[j] = old[j]
  BY <1>4, <1>7, <1>8
<1>11. refs \in Seq(P \cup {delta}) /\ Len(refs) = n
  <2>1. old \in [1..n -> P]
    BY <1>7
  <2>2. refs \in [1..n -> P \cup {delta}]
    BY <1>4, <1>8, <2>1
  <2> QED
    BY <1>8, <2>2
<1>12. \A j \in 1..n : refs[j] \in PoolOf(TermsFor(program, literals[j].rel))
  BY <1>6, <1>9, <1>10
<1> QED
  BY <1>8, <1>11, <1>12 DEF RefsFit, literals, n, refs

\* What a rule of the program makes of such pools.
LEMMA EvaluatedTyped ==
  ASSUME BaseInv, NEW q \in RulesIn(program), NEW refs, RefsFit(q, refs)
  PROVE  EvalRule(q, refs) \in Seq(Derived(program, q.head.rel))
<1>1. program \in Programs
  BY DEF BaseInv, OrderKept
<1> QED
  BY <1>1, ResultTyped DEF RefsFit

\* The evaluation of a rule gives results that wait to be added.
LEMMA StartPending ==
  ASSUME BaseInv, RuleDue, NEW result \in Seq(Derived(program, Rules[rule].head.rel)),
         pending' = ToAdd(result), rule' = rule + 1,
         UNCHANGED <<program, rels, loaded, evaluations, mod, phase, backup, cursor>>
  PROVE  StepOK
<1>1. Running /\ phase \in Generating /\ rule <= Len(Rules) /\ rule \in Nat \ {0}
  BY DEF RuleDue, Running, Generating, BaseInv, OrderKept
<1>2. RunningOK
  BY <1>1, RunningFacts
<1>3. rule \in DOMAIN Rules /\ rule + 1 - 1 = rule
  BY <1>1, <1>2 DEF RunningOK
<1>4. Rules' = Rules /\ rule' - 1 = rule
  <2>1. rule' - 1 = rule
    BY <1>1
  <2> QED
    BY <2>1, HeadsStay
<1>5. PendingTyped'
  <2> DEFINE T == TermsFor(program, Rules[rule].head.rel)
  <2>1. result \in Seq(Results(T))
    BY DEF Derived
  <2> HIDE DEF T
  <2>2. /\ ToAdd(result) \in Seq(Results(T))
        /\ phase # "incons" => \A k \in DOMAIN ToAdd(result) : ToAdd(result)[k].value # Incons
    BY <2>1, ToAddTyped
  <2>3. ToAdd(result) \in Seq(Derived(program, Rules[rule].head.rel))
    BY <2>2 DEF Derived, T
  <2>4. pending' \in Seq(Derived(program', Rules'[rule' - 1].head.rel))
    BY <1>4, <2>3
  <2>5. phase' # "incons" => \A k \in DOMAIN pending' : pending'[k].value # Incons
    BY <2>2
  <2>6. phase' \in Generating /\ rule' - 1 \in DOMAIN Rules'
    BY <1>1, <1>3, <1>4
  <2> QED
    BY <2>4, <2>5, <2>6 DEF PendingTyped
<1>6. OrderKept'
  BY <1>1 DEF BaseInv, OrderKept, Running
<1> QED
  BY <1>5, <1>6, StoresStay

\* NaiveEvaluateRule.
LEMMA NaiveEvaluateRuleStep == BaseInv /\ NaiveEvaluateRule => StepOK
<1> SUFFICES ASSUME BaseInv, NaiveEvaluateRule
             PROVE  StepOK
  OBVIOUS
<1>1. RuleDue /\ Running
  BY DEF NaiveEvaluateRule, RuleDue, Running, Generating
<1>2. Rules[rule] \in RulesIn(program)
  <2>1. RunningOK
    BY <1>1, RunningFacts
  <2>2. rule \in DOMAIN Rules
    BY <1>1, <2>1 DEF RuleDue, RunningOK, BaseInv, OrderKept
  <2> QED
    BY <2>1, <2>2 DEF RunningOK
<1>3. EvalRule(Rules[rule], RelationRefs(Rules[rule])) \in Seq(Derived(program, Rules[rule].head.rel))
  BY <1>2, RelationRefsFit, EvaluatedTyped
<1> QED
  BY <1>1, <1>3, StartPending DEF NaiveEvaluateRule

\* SemiEvaluateRule.
LEMMA SemiEvaluateRuleStep == EInv /\ SemiEvaluateRule => StepOK
<1> SUFFICES ASSUME EInv, SemiEvaluateRule
             PROVE  StepOK
  OBVIOUS
<1>1. RuleDue /\ Running /\ BaseInv
  BY DEF SemiEvaluateRule, RuleDue, Running, Generating, EInv
<1> DEFINE q == Rules[rule]
           R == Derived(program, q.head.rel)
           refs == RefsInTurn(q)
           results == [n \in DOMAIN refs |-> EvalRule(q, refs[n])]
<1>2. q \in RulesIn(program)
  <2>1. RunningOK
    BY <1>1, RunningFacts
  <2>2. rule \in DOMAIN Rules
    BY <1>1, <2>1 DEF RuleDue, RunningOK, BaseInv, OrderKept
  <2> QED
    BY <2>1, <2>2 DEF RunningOK
<1> HIDE DEF q
<1>3. \E n \in Nat : DOMAIN refs = 1..n /\ \A i \in 1..n : RefsFit(q, refs[i])
  <2>1. CASE EvaluatedWhole(q)
    <3>1. refs = <<RelationRefs(q)>>
      BY <2>1 DEF RefsInTurn
    <3>2. RefsFit(q, RelationRefs(q))
      BY <1>1, <1>2, RelationRefsFit
    <3> HIDE DEF refs
    <3>3. DOMAIN refs = 1..1 /\ refs[1] = RelationRefs(q)
      BY <3>1
    <3> QED
      BY <3>2, <3>3
  <2>2. CASE ~EvaluatedWhole(q)
    <3> DEFINE literals == Literals(q)
               places == {k \in DOMAIN literals : literals[k].rel \in Heads /\ deltas[literals[k].rel] # << >>}
               turns == Ascending(places)
    <3>1. DeltaLiterals(q) = turns
      BY DEF DeltaLiterals
    <3>2. refs = [n \in DOMAIN turns |-> RefsWithDelta(q, turns[n])]
      BY <2>2, <3>1 DEF RefsInTurn
    <3>3. places \in SUBSET (DOMAIN literals) /\ literals \in Seq(Literal)
      <4>1. program \in Programs
        BY <1>1 DEF BaseInv, OrderKept
      <4> QED
        BY <1>2, <4>1, RuleFacts
    <3>4. places \in SUBSET Nat /\ IsFiniteSet(places)
      <4> HIDE DEF literals, places
      <4>1. Len(literals) \in Nat /\ DOMAIN literals = 1..Len(literals)
        BY <3>3
      <4> DEFINE n == Len(literals)
      <4> HIDE DEF n
      <4>2. IsFiniteSet(1..n)
        BY <4>1, FS_Interval DEF n
      <4> QED
        BY <3>3, <4>1, <4>2, FS_Subset DEF n
    <3> HIDE DEF places, literals
    <3>5. \E n \in Nat : DOMAIN turns = 1..n /\ \A i \in 1..n : turns[i] \in places
      BY <3>4, AscendingFacts
    <3> QED
      BY <1>2, <3>2, <3>3, <3>5, DeltaRefsFit DEF literals
  <2> QED
    BY <2>1, <2>2
<1>4. results \in Seq(Seq(R))
  <2> HIDE DEF refs
  <2>1. PICK n \in Nat : DOMAIN refs = 1..n /\ \A i \in 1..n : RefsFit(q, refs[i])
    BY <1>3
  <2>2. \A i \in 1..n : EvalRule(q, refs[i]) \in Seq(R)
    BY <1>1, <1>2, <2>1, EvaluatedTyped
  <2> HIDE DEF R
  <2>3. results \in [1..n -> Seq(R)]
    BY <2>1, <2>2
  <2> QED
    BY <2>1, <2>3
<1>5. FlattenSeq(results) \in Seq(R)
  <2> HIDE DEF results, R
  <2> QED
    BY <1>4, FlattenFacts
<1>6. pending' = ToAdd(FlattenSeq(results))
  BY DEF SemiEvaluateRule, q
<1> HIDE DEF results
<1>7. FlattenSeq(results) \in Seq(Derived(program, Rules[rule].head.rel))
  BY <1>5 DEF q
<1> QED
  BY <1>1, <1>6, <1>7, StartPending DEF SemiEvaluateRule
------------------------------------------------------------------------------
\* The next pass of generate, of either algorithm.
LEMMA NextPassStep ==
  ASSUME BaseInv, PassDone, rule' = 1,
         UNCHANGED <<program, rels, loaded, evaluations, mod, phase, pending, backup, cursor>>
  PROVE  StepOK
<1>1. pending' = << >>
  BY DEF PassDone
<1>2. OrderKept'
  BY DEF BaseInv, OrderKept, Running
<1> QED
  BY <1>1, <1>2, NothingPending, StoresStay

\* What the head of the pending results is.
LEMMA PendingFacts ==
  ASSUME BaseInv, pending # << >>
  PROVE  LET head  == Rules[rule - 1].head.rel
             tuple == Head(pending)
         IN  /\ Running /\ phase \in Generating /\ RunningOK
             /\ rule - 1 \in DOMAIN Rules
             /\ head \in Relations /\ head \in Heads
             /\ StorePhase(head) \in {"derive", "correct"}
             /\ tuple \in Derived(program, head)
             /\ tuple \in TuplesOver(TermsFor(program, head))
             /\ tuple.terms \in TermArrays
             /\ tuple.value \in {False, Incons, True}
             /\ tuple = [terms |-> tuple.terms, value |-> tuple.value]
             /\ StorePhase(head) = "correct" => tuple.value # Incons
             /\ Tail(pending) \in Seq(Derived(program, head))
             /\ phase # "incons" => \A k \in DOMAIN Tail(pending) : Tail(pending)[k].value # Incons
<1> DEFINE head == Rules[rule - 1].head.rel
           tuple == Head(pending)
           R == Derived(program, head)
<1>1. /\ phase \in Generating /\ rule - 1 \in DOMAIN Rules /\ pending \in Seq(R)
      /\ phase # "incons" => \A k \in DOMAIN pending : pending[k].value # Incons
  BY DEF BaseInv, PendingTyped
<1>2. Running /\ RunningOK
  <2>1. Running
    BY <1>1 DEF Running, Generating
  <2> QED
    BY <2>1, RunningFacts
<1>3. head \in Heads /\ head \in Relations /\ StorePhase(head) \in {"derive", "correct"}
  <2>1. head \in Heads
    BY <1>1, <1>2 DEF RunningOK
  <2> HIDE DEF head
  <2> QED
    BY <1>1, <1>2, <2>1 DEF RunningOK, Generating
<1>4. /\ tuple \in R /\ Tail(pending) \in Seq(R) /\ 1 \in DOMAIN pending /\ tuple = pending[1]
      /\ \A k \in DOMAIN Tail(pending) : k + 1 \in DOMAIN pending /\ Tail(pending)[k] = pending[k + 1]
  <2> HIDE DEF R
  <2> QED
    BY <1>1
<1>5. /\ tuple.terms \in TermArrays /\ tuple.terms \in TermsFor(program, head)
      /\ tuple.value \in {False, Incons, True}
      /\ tuple = [terms |-> tuple.terms, value |-> tuple.value]
  <2> HIDE DEF tuple, head
  <2>1. tuple \in [terms : TermsFor(program, head), value : KnownValue]
    BY <1>4 DEF Derived, Results
  <2>2. tuple.terms \in TermsFor(program, head) /\ tuple.value \in KnownValue
    BY <2>1
  <2>3. tuple = [terms |-> tuple.terms, value |-> tuple.value]
    BY <2>1
  <2> QED
    BY <2>2, <2>3 DEF TermsFor, KnownValue
<1>6. tuple \in TuplesOver(TermsFor(program, head))
  <2> HIDE DEF tuple, head
  <2>1. tuple.value \in TruthValue
    BY <1>5 DEF False, Incons, True, TruthValue
  <2> QED
    BY <1>5, <2>1 DEF TuplesOver
<1>7. StorePhase(head) = "correct" => tuple.value # Incons
  <2> HIDE DEF head
  <2>1. StorePhase(head) = "correct" => phase = "correct"
    BY DEF StorePhase
  <2> QED
    BY <1>1, <1>4, <2>1
<1>8. phase # "incons" => \A k \in DOMAIN Tail(pending) : Tail(pending)[k].value # Incons
  BY <1>1, <1>4
<1> HIDE DEF R
<1> QED
  BY <1>1, <1>2, <1>3, <1>4, <1>5, <1>6, <1>7, <1>8 DEF R

\* The addition of a result to the head relation.
AddsPending ==
  /\ pending # << >>
  /\ rels' = [rels EXCEPT ![Rules[rule - 1].head.rel] = AddTuple(@, Head(pending))]
  /\ pending' = Tail(pending)
  /\ UNCHANGED <<program, loaded, evaluations, mod, phase, rule, backup, cursor, genInfos>>

\* NaiveAddPending and SemiAddPending.
LEMMA AddPendingStep == BaseInv /\ AddsPending => StepOK
<1> SUFFICES ASSUME BaseInv, AddsPending
             PROVE  StepOK
  OBVIOUS
<1> DEFINE head == Rules[rule - 1].head.rel
           tuple == Head(pending)
           rest == Tail(pending)
<1>1. /\ phase \in Generating /\ rule - 1 \in DOMAIN Rules
      /\ head \in Relations /\ StorePhase(head) \in {"derive", "correct"}
      /\ tuple \in TuplesOver(TermsFor(program, head)) /\ tuple.terms \in TermArrays
      /\ tuple.value \in {False, Incons, True} /\ tuple = [terms |-> tuple.terms, value |-> tuple.value]
      /\ StorePhase(head) = "correct" => tuple.value # Incons
      /\ rest \in Seq(Derived(program, head))
      /\ phase # "incons" => \A k \in DOMAIN rest : rest[k].value # Incons
  BY PendingFacts DEF AddsPending
<1>2. /\ rels' = [rels EXCEPT ![head] = AddTuple(rels[head], tuple)] /\ pending' = rest
      /\ UNCHANGED <<program, loaded, evaluations, mod, phase, rule, backup, cursor>>
  BY DEF AddsPending
<1>3. IsMap(rels) /\ \A r \in Relations : StoreTyped(r)
  BY DEF BaseInv, StoresTyped
<1>4. PendingTyped'
  <2>1. Rules' = Rules
    BY <1>2, HeadsStay
  <2>2. Rules'[rule' - 1].head.rel = head
    BY <1>2, <2>1
  <2>3. pending' \in Seq(Derived(program', Rules'[rule' - 1].head.rel))
    BY <1>1, <1>2, <2>2
  <2>4. phase' # "incons" => \A k \in DOMAIN pending' : pending'[k].value # Incons
    BY <1>1, <1>2
  <2>5. phase' \in Generating /\ rule' - 1 \in DOMAIN Rules'
    BY <1>1, <1>2, <2>1
  <2> QED
    BY <2>3, <2>4, <2>5 DEF PendingTyped
<1>5. OrderKept'
  BY <1>2 DEF BaseInv, OrderKept, Running
<1> HIDE DEF head, tuple, rest
<1>6. rels'[head] = AddTuple(rels[head], tuple) /\ \A r : r # head => rels'[r] = rels[r]
  BY <1>1, <1>2, <1>3 DEF IsMap
<1>7. \A r \in Relations : /\ rels'[r] \in RelationOf(TermsFor(program, r))
                           /\ rels'[r].finalized = rels[r].finalized
  <2>1. rels[head] \in RelationOf(TermsFor(program, head))
    BY <1>1, <1>3 DEF StoreTyped
  <2>2. /\ AddTuple(rels[head], tuple) \in RelationOf(TermsFor(program, head))
        /\ AddTuple(rels[head], tuple).finalized = rels[head].finalized
    BY <1>1, <2>1, AddsTyped
  <2> QED
    BY <1>3, <1>6, <2>2 DEF StoreTyped
<1>8. StoresTyped'
  <2>1. IsMap(rels)'
    BY <1>2, <1>3 DEF IsMap
  <2>2. \A r \in Relations : StoreTyped(r)'
    BY <1>2, <1>3, <1>7, RelationsStay DEF StoreTyped
  <2> QED
    BY <1>2, <1>3, <2>1, <2>2 DEF StoresTyped, IsMap, BaseInv
<1>9. LoadedFinalized'
  <2>1. \A m \in 1..loaded : \A r \in RelationsOf(m) : rels[r].finalized
    BY DEF BaseInv, LoadedFinalized
  <2>2. \A m \in 1..loaded : \A r \in RelationsOf(m) : rels'[r].finalized
    BY <1>1, <1>6, <1>7, <2>1
  <2> QED
    BY <1>2, <2>2, RelationsStay DEF LoadedFinalized
<1>10. \A r \in Relations : StoreStep(r)
  <2> TAKE r \in Relations
  <2>1. StorePhase(r)' = StorePhase(r)
    BY <1>2, <1>7, PhaseStays
  <2>2. backup'[r] = backup[r] /\ cursor'[r] = cursor[r]
    BY <1>2
  <2>3. CASE r # head
    BY <1>6, <2>1, <2>2, <2>3, StoreStutters
  <2>4. CASE r = head
    <3>1. rels'[r] = AddTuple(rels[r], [terms |-> tuple.terms, value |-> tuple.value])
      BY <1>1, <1>6, <2>4
    <3>2. /\ StorePhase(r) \in {"derive", "correct"}
          /\ StorePhase(r) = "correct" => tuple.value # Incons
      BY <1>1, <2>4
    <3> QED
      BY <1>1, <2>1, <2>2, <3>1, <3>2, StoreAddsResult
  <2> QED
    BY <2>3, <2>4
<1> QED
  BY <1>4, <1>5, <1>8, <1>9, <1>10 DEF StepOK, BaseInv

\* ResetIdb, in FirstRound and AnotherRound.
LEMMA ResetIdbStep ==
  ASSUME BaseInv, PassDone, phase \in {"first", "incons"}, ResetIdb
  PROVE  StepOK
<1> DEFINE reset(r) == ClearIncons(Clear(rels[r]), rels[r].facts)
<1>1. pending' = << >> /\ Running
  BY DEF PassDone, ResetIdb, Running
<1>2. RunningOK
  BY <1>1, RunningFacts
<1>3. /\ \A r \in Relations : rels'[r] = IF r \in Heads THEN reset(r) ELSE rels[r]
      /\ \A r \in Relations : backup'[r] = IF r \in Heads THEN rels[r].facts ELSE backup[r]
      /\ \A r \in Relations : cursor'[r] = IF r \in Heads THEN 1 ELSE cursor[r]
      /\ IsMap(rels)' /\ IsMap(backup)' /\ IsMap(cursor)'
      /\ phase' = "correct" /\ rule' = 1 /\ UNCHANGED <<program, loaded, mod>>
  BY DEF ResetIdb, IsMap
<1>4. IsMap(rels) /\ \A r \in Relations : StoreTyped(r)
  BY DEF BaseInv, StoresTyped
<1>5. OrderKept'
  BY <1>3, <1>1 DEF BaseInv, OrderKept, Running, Phases, Generating
<1>6. \A r \in Relations : /\ rels'[r] \in RelationOf(TermsFor(program, r))
                           /\ rels'[r].finalized = rels[r].finalized
                           /\ rels[r].facts \in PoolOf(TermsFor(program, r))
  <2> TAKE r \in Relations
  <2> DEFINE T == TermsFor(program, r)
             s == rels[r]
  <2>1. s \in RelationOf(T)
    BY <1>4 DEF StoreTyped
  <2>2. reset(r) \in RelationOf(T) /\ reset(r).finalized = s.finalized
    <3> HIDE DEF T
    <3> QED
      BY <2>1, ResetsTyped
  <2>3. s.facts \in PoolOf(T)
    <3> HIDE DEF T, s
    <3> QED
      BY <2>1 DEF RelationOf, PoolOf
  <2> QED
    BY <1>3, <2>1, <2>2, <2>3
<1>7. StoresTyped'
  <2>1. \A r \in Relations : StoreTyped(r)'
    <3> TAKE r \in Relations
    <3>1. backup'[r] \in PoolOf(TermsFor(program, r)) /\ cursor'[r] \in Nat \ {0}
      BY <1>3, <1>4, <1>6 DEF StoreTyped
    <3> QED
      BY <1>3, <1>6, <3>1, RelationsStay DEF StoreTyped
  <2> QED
    BY <1>3, <2>1 DEF StoresTyped
<1>8. LoadedFinalized'
  <2>1. \A m \in 1..loaded : \A r \in RelationsOf(m) : rels[r].finalized
    BY DEF BaseInv, LoadedFinalized
  <2>2. \A m \in 1..loaded : \A r \in RelationsOf(m) : r \in Relations
    BY ModulesRelations
  <2>3. \A m \in 1..loaded : \A r \in RelationsOf(m) : rels'[r].finalized
    BY <1>6, <2>1, <2>2
  <2> QED
    BY <1>3, <2>3, RelationsStay DEF LoadedFinalized
<1>9. \A r \in Relations : StoreStep(r)
  <2> TAKE r \in Relations
  <2>1. Heads' = Heads
    BY <1>3, HeadsStay
  <2>2. CASE r \in Heads
    <3>1. StorePhase(r) = "derive" /\ StorePhase(r)' = "correct"
      BY <1>2, <1>3, <1>6, <2>1, <2>2 DEF RunningOK, StorePhase
    <3> QED
      BY <1>3, <2>2, <3>1, StoreStartsCorrection
  <2>3. CASE r \notin Heads
    <3>1. StorePhase(r)' = StorePhase(r)
      BY <1>6, <2>1, <2>3 DEF StorePhase
    <3> QED
      BY <1>3, <2>3, <3>1, StoreStutters
  <2> QED
    BY <2>2, <2>3
<1>10. PendingTyped'
  BY <1>1, NothingPending
<1> QED
  BY <1>5, <1>7, <1>8, <1>9, <1>10 DEF StepOK, BaseInv
------------------------------------------------------------------------------
\* StartRestore.
LEMMA StartRestoreStep ==
  ASSUME BaseInv, PassDone, phase = "correct", phase' = "restore",
         UNCHANGED <<program, rels, loaded, evaluations, mod, rule, pending, backup, cursor>>
  PROVE  StepOK
<1>1. pending' = << >> /\ Running
  BY DEF PassDone, Running
<1>2. RunningOK
  BY <1>1, RunningFacts
<1>3. OrderKept'
  BY <1>1 DEF BaseInv, OrderKept, Running, Phases
<1>4. StoresTyped' /\ LoadedFinalized'
  BY RelationsStay DEF BaseInv, StoresTyped, StoreTyped, IsMap, LoadedFinalized
<1>5. \A r \in Relations : StoreStep(r)
  <2> TAKE r \in Relations
  <2>1. Heads' = Heads
    BY HeadsStay
  <2>2. CASE r \in Heads
    <3>1. StorePhase(r) = "correct" /\ StorePhase(r)' = "restore"
      BY <1>2, <2>1, <2>2 DEF RunningOK, StorePhase
    <3> QED
      BY <3>1, StoreStartsRestore
  <2>3. CASE r \notin Heads
    <3>1. StorePhase(r)' = StorePhase(r)
      BY <2>1, <2>3 DEF StorePhase
    <3> QED
      BY <3>1, StoreStutters
  <2> QED
    BY <2>2, <2>3
<1>6. PendingTyped'
  BY <1>1, NothingPending
<1> QED
  BY <1>3, <1>4, <1>5, <1>6 DEF StepOK, BaseInv

\* FinishRestore.
LEMMA FinishRestoreStep == BaseInv /\ FinishRestore => StepOK
<1> SUFFICES ASSUME BaseInv, FinishRestore
             PROVE  StepOK
  OBVIOUS
<1> USE DEF FinishRestore
<1>1. pending' = << >> /\ Running
  BY DEF BaseInv, PendingTyped, Generating, Running
<1>2. RunningOK
  BY <1>1, RunningFacts
<1>3. OrderKept'
  BY <1>1 DEF BaseInv, OrderKept, Running, Phases, Generating
<1>4. StoresTyped' /\ LoadedFinalized'
  BY RelationsStay DEF BaseInv, StoresTyped, StoreTyped, IsMap, LoadedFinalized
<1>5. \A r \in Relations : StoreStep(r)
  <2> TAKE r \in Relations
  <2>1. Heads' = Heads
    BY HeadsStay
  <2>2. CASE r \in Heads
    <3>1. StorePhase(r) = "restore" /\ StorePhase(r)' = "derive"
      BY <1>2, <2>1, <2>2 DEF RunningOK, StorePhase
    <3>2. cursor[r] > Len(backup[r])
      BY <2>2 DEF Restored
    <3> QED
      BY <3>1, <3>2, StoreFinishesRestore
  <2>3. CASE r \notin Heads
    <3>1. StorePhase(r)' = StorePhase(r)
      BY <2>1, <2>3 DEF StorePhase
    <3> QED
      BY <3>1, StoreStutters
  <2> QED
    BY <2>2, <2>3
<1>6. PendingTyped'
  BY <1>1, NothingPending
<1> QED
  BY <1>3, <1>4, <1>5, <1>6 DEF StepOK, BaseInv

\* RestoreTuple.
LEMMA RestoreTupleStep == BaseInv /\ RestoreTuple => StepOK
<1> SUFFICES ASSUME BaseInv, RestoreTuple
             PROVE  StepOK
  OBVIOUS
<1>1. /\ phase = "restore"
      /\ UNCHANGED <<program, loaded, evaluations, mod, phase, rule, pending, backup>>
  BY DEF RestoreTuple
<1>2. pending' = << >> /\ Running
  BY <1>1 DEF BaseInv, PendingTyped, Generating, Running
<1>3. RunningOK
  BY <1>2, RunningFacts
<1>4. IsMap(rels) /\ IsMap(cursor) /\ \A r \in Relations : StoreTyped(r)
  BY DEF BaseInv, StoresTyped
<1>5. PICK k \in DOMAIN Idb :
        LET r == Idb[k]
        IN  /\ ~Restored(r)
            /\ rels' = [rels EXCEPT ![r] = AddInconsTuple(@, backup[r][cursor[r]])]
            /\ cursor' = [cursor EXCEPT ![r] = @ + 1]
  BY DEF RestoreTuple
<1> DEFINE head == Idb[k]
           tuple == backup[head][cursor[head]]
<1>6. head \in Heads /\ head \in Relations
  <2>1. head \in Heads
    BY <1>3, IdbIsHeads DEF RunningOK
  <2> HIDE DEF head
  <2> QED
    BY <1>3, <2>1 DEF RunningOK
<1> HIDE DEF head
<1>7. /\ cursor[head] <= Len(backup[head]) /\ cursor[head] \in Nat \ {0}
      /\ cursor[head] \in DOMAIN backup[head]
      /\ backup[head] \in PoolOf(TermsFor(program, head))
  <2>1. cursor[head] \in Nat \ {0} /\ backup[head] \in PoolOf(TermsFor(program, head))
    BY <1>4, <1>6 DEF StoreTyped
  <2>2. ~(cursor[head] > Len(backup[head]))
    BY <1>5 DEF Restored, head
  <2>3. Len(backup[head]) \in Nat /\ DOMAIN backup[head] = 1..Len(backup[head])
    BY <2>1, PoolDomain
  <2> QED
    BY <2>1, <2>2, <2>3
<1>8. tuple \in TuplesOver(TermsFor(program, head))
  BY <1>7, PoolDomain
<1>9. /\ rels' = [rels EXCEPT ![head] = AddInconsTuple(rels[head], tuple)]
      /\ cursor' = [cursor EXCEPT ![head] = cursor[head] + 1]
  BY <1>5 DEF head
<1>10. /\ rels'[head] = AddInconsTuple(rels[head], backup[head][cursor[head]])
       /\ cursor'[head] = cursor[head] + 1
       /\ \A r : r # head => rels'[r] = rels[r] /\ cursor'[r] = cursor[r]
  BY <1>4, <1>6, <1>9 DEF IsMap
<1>11. \A r \in Relations : /\ rels'[r] \in RelationOf(TermsFor(program, r))
                            /\ rels'[r].finalized = rels[r].finalized
                            /\ cursor'[r] \in Nat \ {0}
  <2>1. rels[head] \in RelationOf(TermsFor(program, head))
    BY <1>4, <1>6 DEF StoreTyped
  <2> HIDE DEF tuple
  <2>2. /\ AddInconsTuple(rels[head], tuple) \in RelationOf(TermsFor(program, head))
        /\ AddInconsTuple(rels[head], tuple).finalized = rels[head].finalized
    BY <1>8, <2>1, AddsTyped
  <2>3. cursor[head] + 1 \in Nat \ {0}
    BY <1>7
  <2> QED
    BY <1>4, <1>10, <2>2, <2>3 DEF StoreTyped, tuple
<1> HIDE DEF tuple
<1>12. OrderKept'
  BY <1>1, <1>2 DEF BaseInv, OrderKept, Running
<1>13. StoresTyped'
  <2>1. IsMap(rels)' /\ IsMap(cursor)'
    BY <1>4, <1>9 DEF IsMap
  <2>2. \A r \in Relations : StoreTyped(r)'
    BY <1>1, <1>4, <1>11, RelationsStay DEF StoreTyped
  <2>3. IsMap(backup)'
    BY <1>1 DEF BaseInv, StoresTyped, IsMap
  <2> QED
    BY <2>1, <2>2, <2>3 DEF StoresTyped
<1>14. LoadedFinalized'
  <2>1. \A m \in 1..loaded : \A r \in RelationsOf(m) : rels[r].finalized
    BY DEF BaseInv, LoadedFinalized
  <2>2. \A m \in 1..loaded : \A r \in RelationsOf(m) : rels'[r].finalized
    BY <1>6, <1>10, <1>11, <2>1
  <2> QED
    BY <1>1, <2>2, RelationsStay DEF LoadedFinalized
<1>15. \A r \in Relations : StoreStep(r)
  <2> TAKE r \in Relations
  <2>1. StorePhase(r)' = StorePhase(r)
    BY <1>1, <1>11, PhaseStays
  <2>2. backup'[r] = backup[r]
    BY <1>1
  <2>3. CASE r # head
    BY <1>10, <2>1, <2>2, <2>3, StoreStutters
  <2>4. CASE r = head
    <3>1. StorePhase(r) = "restore"
      BY <1>1, <1>3, <1>6, <2>4 DEF RunningOK
    <3> QED
      BY <1>7, <1>10, <2>1, <2>2, <2>4, <3>1, StoreRestoresTuple
  <2> QED
    BY <2>3, <2>4
<1>16. PendingTyped'
  BY <1>2, NothingPending
<1> QED
  BY <1>12, <1>13, <1>14, <1>15, <1>16 DEF StepOK, BaseInv

\* The correction rounds, whichever generate they call.
LEMMA RoundsStep == BaseInv /\ Rounds(PassDone) => StepOK
<1> SUFFICES ASSUME BaseInv, Rounds(PassDone)
             PROVE  StepOK
  OBVIOUS
<1>1. CASE ReturnConsistent(PassDone)
  BY <1>1, EndOfModuleStep DEF ReturnConsistent
<1>2. CASE FirstRound(PassDone)
  BY <1>2, ResetIdbStep DEF FirstRound
<1>3. CASE StartRestore(PassDone)
  BY <1>3, StartRestoreStep DEF StartRestore
<1>4. CASE RestoreTuple
  BY <1>4, RestoreTupleStep
<1>5. CASE FinishRestore
  BY <1>5, FinishRestoreStep
<1>6. CASE AnotherRound(PassDone)
  BY <1>6, ResetIdbStep DEF AnotherRound
<1>7. CASE LastRound(PassDone)
  BY <1>7, EndOfModuleStep DEF LastRound
<1> QED
  BY <1>1, <1>2, <1>3, <1>4, <1>5, <1>6, <1>7 DEF Rounds

\* The correction rounds go on when generate returns, after a pass.
LEMMA RoundsAreOver ==
  /\ Rounds(NaiveGenerateOver) => Rounds(PassDone)
  /\ Rounds(SemiGenerateOver) => Rounds(PassDone)
BY DEF Rounds, NaiveGenerateOver, SemiGenerateOver, ReturnConsistent, FirstRound, StartRestore,
       AnotherRound, LastRound

\* The caller.
LEMMA CallerStep == BaseInv /\ Caller => StepOK
<1> SUFFICES ASSUME BaseInv, Caller
             PROVE  StepOK
  OBVIOUS
<1> QED
  BY AddFactStep, FinishModuleStep, AddModuleStep, StartEvaluateStep, WaitStep DEF Caller, Wait

\* The naive evaluator.
LEMMA NaiveStep == BaseInv /\ NaiveEvaluator => StepOK
<1> SUFFICES ASSUME BaseInv, NaiveEvaluator
             PROVE  StepOK
  OBVIOUS
<1>1. CASE NaiveEvaluateRule
  BY <1>1, NaiveEvaluateRuleStep
<1>2. CASE NaiveAddPending
  <2>1. AddsPending
    BY <1>2 DEF NaiveAddPending, AddsPending
  <2> QED
    BY <2>1, AddPendingStep
<1>3. CASE NaiveNextPass
  BY <1>3, NextPassStep DEF NaiveNextPass
<1>4. CASE Rounds(NaiveGenerateOver)
  BY <1>4, RoundsAreOver, RoundsStep
<1> QED
  BY <1>1, <1>2, <1>3, <1>4 DEF NaiveEvaluator

\* The semi-naive evaluator.
LEMMA SemiStep == EInv /\ SemiEvaluator => StepOK
<1> SUFFICES ASSUME EInv, SemiEvaluator
             PROVE  StepOK
  OBVIOUS
<1>0. BaseInv
  BY DEF EInv
<1>1. CASE SemiEvaluateRule
  BY <1>1, SemiEvaluateRuleStep
<1>2. CASE SemiAddPending
  <2>1. AddsPending
    BY <1>2 DEF SemiAddPending, AddsPending
  <2> QED
    BY <1>0, <2>1, AddPendingStep
<1>3. CASE SemiNextPass
  BY <1>0, <1>3, NextPassStep DEF SemiNextPass
<1>4. CASE Rounds(SemiGenerateOver)
  BY <1>0, <1>4, RoundsAreOver, RoundsStep
<1> QED
  BY <1>1, <1>2, <1>3, <1>4 DEF SemiEvaluator
------------------------------------------------------------------------------
\* addTuple returns a truth value.
LEMMA AddInfoTyped ==
  ASSUME NEW T, NEW pool \in PoolOf(T), NEW tuple \in TuplesOver(T)
  PROVE  AddInfo(pool, tuple).value \in TruthValue
<1>1. Has(pool, tuple.terms) => ValueIn(pool, tuple.terms) \in TruthValue
  BY IndexOfFinds, PoolDomain DEF ValueIn
<1>2. tuple.value \in TruthValue /\ Incons \in TruthValue
  BY DEF TuplesOver, Incons, TruthValue
<1> QED
  BY <1>1, <1>2 DEF AddInfo

\* The deltas keep their type when they stay.
LEMMA DeltasStay ==
  ASSUME DeltasTyped, UNCHANGED <<program, deltas, newDeltas>>
  PROVE  DeltasTyped'
BY RelationsStay DEF DeltasTyped, IsMap

\* Empty deltas have it.
LEMMA NoDeltasTyped == IsMap(NoDeltas) /\ \A p, r : r \in Relations => NoDeltas[r] \in PoolOf(TermsFor(p, r))
<1>1. \A r \in Relations : NoDeltas[r] = << >>
  BY DEF NoDeltas
<1>2. \A S : << >> \in Seq(S)
  OBVIOUS
<1> QED
  BY <1>1, <1>2 DEF IsMap, PoolOf, NoDeltas

\* SemiAddPending keeps it.
LEMMA SemiAddPendingDeltas == EInv /\ SemiAddPending => DeltasTyped'
<1> SUFFICES ASSUME EInv, SemiAddPending
             PROVE  DeltasTyped'
  OBVIOUS
<1> DEFINE head == Rules[rule - 1].head.rel
           tuple == Head(pending)
           info == AddInfo(rels[head].facts, tuple)
           new == PutDelta(newDeltas[head], tuple, info.value)
<1>1. head \in Relations /\ tuple \in TuplesOver(TermsFor(program, head))
  BY PendingFacts DEF EInv, SemiAddPending
<1>2. /\ newDeltas' = IF info.added THEN [newDeltas EXCEPT ![head] = new] ELSE newDeltas
      /\ UNCHANGED <<program, deltas>>
  BY DEF SemiAddPending
<1>3. IsMap(newDeltas) /\ \A r \in Relations : newDeltas[r] \in PoolOf(TermsFor(program, r))
  BY DEF EInv, DeltasTyped
<1> HIDE DEF head, tuple
<1>4. info.value \in TruthValue
  <2> DEFINE s == rels[head]
             T == TermsFor(program, head)
  <2>1. s \in RelationOf(T)
    BY <1>1 DEF EInv, BaseInv, StoresTyped, StoreTyped
  <2>2. tuple \in TuplesOver(T)
    BY <1>1
  <2> HIDE DEF T, s
  <2>3. s.facts \in PoolOf(T)
    BY <2>1 DEF RelationOf, PoolOf
  <2>4. AddInfo(s.facts, tuple).value \in TruthValue
    BY <2>2, <2>3, AddInfoTyped
  <2> QED
    BY <2>4 DEF s
<1> HIDE DEF info
<1>5. new \in PoolOf(TermsFor(program, head))
  BY <1>1, <1>3, <1>4, PutDeltaTyped
<1> HIDE DEF new
<1>6. IsMap(newDeltas)' /\ \A r \in Relations : newDeltas'[r] \in PoolOf(TermsFor(program, r))
  BY <1>1, <1>2, <1>3, <1>5 DEF IsMap
<1> QED
  BY <1>2, <1>6, RelationsStay DEF DeltasTyped, EInv, IsMap

\* No step changes the program.
LEMMA ProgramStays ==
  /\ Caller => UNCHANGED program
  /\ NaiveEvaluator => UNCHANGED program
  /\ SemiEvaluator => UNCHANGED program
<1>1. Caller => UNCHANGED program
  BY DEF Caller, AddFact, FinishModule, AddModule, StartEvaluate, Wait, baseVars
<1>2. ASSUME NEW STATE over
      PROVE  Rounds(over) => UNCHANGED program
  BY DEF Rounds, ReturnConsistent, FirstRound, StartRestore, RestoreTuple, FinishRestore,
         AnotherRound, LastRound, ResetIdb
<1>3. NaiveEvaluator => UNCHANGED program
  BY <1>2 DEF NaiveEvaluator, NaiveEvaluateRule, NaiveAddPending, NaiveNextPass
<1>4. SemiEvaluator => UNCHANGED program
  BY <1>2 DEF SemiEvaluator, SemiEvaluateRule, SemiAddPending, SemiNextPass
<1> QED
  BY <1>1, <1>3, <1>4

\* Every step keeps the type of the deltas.
LEMMA DeltasStep == EInv /\ [Next]_vars => DeltasTyped'
<1> SUFFICES ASSUME EInv, [Next]_vars
             PROVE  DeltasTyped'
  OBVIOUS
<1>0. DeltasTyped
  BY DEF EInv
<1>1. CASE Caller /\ UNCHANGED semiVars
  BY <1>0, <1>1, ProgramStays, DeltasStay DEF semiVars
<1>2. CASE NaiveEvaluator /\ UNCHANGED semiVars
  BY <1>0, <1>2, ProgramStays, DeltasStay DEF semiVars
<1>3. CASE SemiEvaluator
  <2>1. UNCHANGED program
    BY <1>3, ProgramStays
  <2>2. CASE SemiEvaluateRule
    BY <1>0, <2>1, <2>2, DeltasStay DEF SemiEvaluateRule
  <2>3. CASE SemiAddPending
    BY <2>3, SemiAddPendingDeltas
  <2>4. CASE SemiNextPass
    BY <1>0, <2>1, <2>4, NoDeltasTyped, RelationsStay DEF SemiNextPass, DeltasTyped, IsMap, NoDeltas
  <2>5. CASE Rounds(SemiGenerateOver) /\ ForgetDeltas
    BY <1>0, <2>1, <2>5, NoDeltasTyped, RelationsStay DEF ForgetDeltas, DeltasTyped, IsMap, NoDeltas
  <2> QED
    BY <1>3, <2>2, <2>3, <2>4, <2>5 DEF SemiEvaluator
<1>4. CASE UNCHANGED vars
  BY <1>0, <1>4, DeltasStay DEF vars, baseVars, semiVars
<1> QED
  BY <1>1, <1>2, <1>3, <1>4 DEF Next, EvaluateKB

\* Every step of the program keeps the rest of the invariant and is a step of
\* every relation's life.
LEMMA NextStep == EInv /\ [Next]_vars => StepOK
<1> SUFFICES ASSUME EInv, [Next]_vars
             PROVE  StepOK
  OBVIOUS
<1>0. BaseInv
  BY DEF EInv
<1>1. CASE Caller
  BY <1>0, <1>1, CallerStep
<1>2. CASE NaiveEvaluator
  BY <1>0, <1>2, NaiveStep
<1>3. CASE SemiEvaluator
  BY <1>3, SemiStep
<1>4. CASE UNCHANGED vars
  BY <1>0, <1>4, WaitStep DEF vars
<1> QED
  BY <1>1, <1>2, <1>3, <1>4 DEF Next, EvaluateKB

\* The program starts with it, and every relation at the start of its life.
LEMMA InitInvariant == Init => EInv /\ \A r \in Relations : Stores(r)!Init
<1> SUFFICES ASSUME Init
             PROVE  EInv /\ \A r \in Relations : Stores(r)!Init
  OBVIOUS
<1>1. BaseInit /\ deltas = NoDeltas /\ newDeltas = NoDeltas
  BY DEF Init, NaiveInit, SemiInit
<1>2. OrderKept
  <2> DEFINE modules == program.modules
  <2>1. program \in Programs /\ loaded = 0 /\ phase = "load" /\ rule = 1 /\ mod = 1
    BY <1>1 DEF BaseInit
  <2>2. modules # << >> /\ \E S : modules \in Seq(S)
    BY <2>1, ProgramsAssumption
  <2>3. 0 < Len(modules) /\ Len(modules) \in Nat
    <3> HIDE DEF modules
    <3> QED
      BY <2>2
  <2> QED
    BY <2>1, <2>3 DEF OrderKept, Running, Phases
<1>3. \A T : << >> \in PoolOf(T)
  BY DEF PoolOf
<1>4. \A T : EmptyRelation \in RelationOf(T)
  <2> TAKE T
  <2>1. << >> \in Seq(TuplesOver(T))
    OBVIOUS
  <2> QED
    BY <2>1 DEF EmptyRelation, RelationOf
<1>5. StoresTyped
  BY <1>1, <1>3, <1>4 DEF BaseInit, StoresTyped, StoreTyped, IsMap
<1>6. PendingTyped /\ LoadedFinalized
  <2>1. loaded = 0 /\ 1..0 = {}
    BY <1>1 DEF BaseInit
  <2> QED
    BY <1>1, <2>1 DEF BaseInit, PendingTyped, LoadedFinalized
<1>7. DeltasTyped
  BY <1>1, NoDeltasTyped DEF DeltasTyped
<1>8. \A r \in Relations : Stores(r)!Init
  <2> TAKE r \in Relations
  <2>1. rels[r] = EmptyRelation /\ backup[r] = << >> /\ cursor[r] = 1
    BY <1>1 DEF BaseInit
  <2>2. ~rels[r].finalized
    BY <2>1 DEF EmptyRelation
  <2> QED
    BY <2>1, <2>2, StoresConstants DEF Stores!Init
<1> QED
  BY <1>2, <1>5, <1>6, <1>7, <1>8 DEF EInv, BaseInv

\* The invariant is inductive.
LEMMA NextInvariant == EInv /\ [Next]_vars => EInv'
BY DeltasStep, NextStep DEF EInv, StepOK

\* For every program and either algorithm, relations, backups, deltas and
\* pending results hold tuples that fit the relation they are for, the cursors
\* of addIncons stay at tuples, the results that wait are those of the rule
\* before and are Incons in the incons phase only, and the relations of a module
\* that was added are finalized (evaluateKBModule, generate, addModule).
THEOREM EvaluationTyped == Spec => []EInv
<1>1. Init => EInv
  BY InitInvariant
<1> QED
  BY <1>1, NextInvariant, PTL DEF Spec

\* Whatever the rules and the algorithm, the two evaluators load, derive,
\* clear and restore the facts of every relation only in the order of
\* RelationStore, so that what is proved of it holds for every relation
\* (NaiveEvaluation.cc, SemiNaiveEvaluation.cc, KBRelation.cc).
THEOREM EveryStoreImplemented == Spec => StoresImplemented
<1>1. Init => \A r \in Relations : Stores(r)!Init
  BY InitInvariant
<1>2. EInv /\ [Next]_vars => [\A r \in Relations : [Stores(r)!Next]_(Stores(r)!vars)]_baseVars
  BY NextStep DEF StepOK, StoreStep
<1>3. Spec => []EInv
  BY EvaluationTyped
<1> QED
  BY <1>1, <1>2, <1>3, PTL DEF Spec, StoresImplemented
------------------------------------------------------------------------------
\* The counters of a relation.
RecordCounts(x) ==
  /\ InconsIn(x.edbFacts) # {} => x.edbInconsFactsNumber > 0
  /\ x.inconsFactsNumber > 0 => InconsIn(x.facts) # {} \/ x.edbInconsFactsNumber > 0
  /\ ~x.finalized => x.facts = << >>

\* A counter of module m is not zero.
Counted(m) == \E r \in RelationsOf(m) : rels[r].inconsFactsNumber > 0

\* A fact of module m is Incons.
Contradicted(m) == \E r \in RelationsOf(m) : InconsIn(rels[r].facts) # {}

\* An Incons fact of the backup that addIncons has not put back yet.
StillToRestore ==
  \E r \in Heads : \E i \in InconsIn(backup[r]) : cursor[r] <= i

\* Of every module that was added a fact can be Incons only if a counter is not
\* zero; for the module in a correction this is not so yet.
InconsCounted ==
  \A m \in 1..loaded :
    (m = mod => phase \notin {"correct", "restore"}) /\ Contradicted(m) => Counted(m)

\* There a counter that was not zero stays so, or an Incons fact of the backup
\* will be counted when it is put back.
RoundCounted ==
  \A m : m = mod =>
    /\ phase = "incons" => Counted(m)
    /\ phase \in {"correct", "restore"} => Counted(m) \/ StillToRestore

\* A relation is finalized only with its module.
OnlyLoaded == \A r \in Relations : rels[r].finalized => \E m \in 1..loaded : r \in RelationsOf(m)

CountInv == (\A r \in Relations : RecordCounts(rels[r])) /\ InconsCounted /\ RoundCounted /\ OnlyLoaded

\* A place of a pool holds an Incons fact.
LEMMA InconsPlace ==
  ASSUME NEW pool
  PROVE  InconsIn(pool) # {} <=> \E i \in DOMAIN pool : pool[i].value = Incons
BY DEF InconsIn

\* Merging counts what becomes Incons.
LEMMA PutCounts ==
  ASSUME NEW T, NEW pool \in PoolOf(T), NEW tuple \in TuplesOver(T), NEW count \in Nat
  PROVE  /\ PutCount(count, pool, tuple) \in Nat /\ PutCount(count, pool, tuple) >= count
         /\ InconsIn(pool) # {} => InconsIn(PutTuple(pool, tuple)) # {}
         /\ PutCount(count, pool, tuple) > count => InconsIn(PutTuple(pool, tuple)) # {}
         /\ tuple.value # Incons /\ InconsIn(pool) = {} /\ InconsIn(PutTuple(pool, tuple)) # {} =>
              PutCount(count, pool, tuple) > count
<1> DEFINE put == PutTuple(pool, tuple)
           k == IndexOf(pool, tuple.terms)
<1>1. /\ PutCount(count, pool, tuple) \in Nat /\ PutCount(count, pool, tuple) >= count
      /\ PutCount(count, pool, tuple) > count <=> BecomesIncons(pool, tuple)
  BY DEF PutCount
<1>2. InconsIn(pool) # {} => InconsIn(put) # {}
  <2>1. ASSUME NEW i \in DOMAIN pool, pool[i].value = Incons
        PROVE  i \in DOMAIN put /\ put[i].value = Incons
    <3>1. i \in DOMAIN put /\ InfoLeq(pool[i].value, put[i].value) /\ put \in PoolOf(T)
      BY PutTupleFacts
    <3>2. put[i].value \in TruthValue
      <4> HIDE DEF put
      <4> QED
        BY <3>1, PoolDomain
    <3> HIDE DEF put
    <3> QED
      BY <2>1, <3>1, <3>2 DEF InfoLeq, Incons, Unknown, True, False, TruthValue
  <2> HIDE DEF put
  <2> QED
    BY <2>1, InconsPlace
<1>3. CASE Has(pool, tuple.terms)
  <2>1. k \in DOMAIN pool /\ pool[k].terms = tuple.terms
    BY <1>3, IndexOfFinds
  <2>2. put = [pool EXCEPT ![k].value = Merged(pool, tuple)]
    BY <1>3 DEF PutTuple
  <2>3. pool[k] \in TuplesOver(T)
    BY <2>1, PoolDomain
  <2>4. /\ DOMAIN put = DOMAIN pool /\ put[k].value = Merged(pool, tuple)
        /\ \A i \in DOMAIN pool : i # k => put[i] = pool[i]
    <3> HIDE DEF k
    <3> QED
      BY <2>1, <2>2, <2>3 DEF TuplesOver
  <2>5. pool[k].value = ValueIn(pool, tuple.terms)
    BY DEF ValueIn
  <2> HIDE DEF put, k
  <2>6. BecomesIncons(pool, tuple) => InconsIn(put) # {}
    BY <2>1, <2>4, InconsPlace DEF BecomesIncons
  <2>7. InconsIn(pool) = {} /\ InconsIn(put) # {} => BecomesIncons(pool, tuple)
    <3> SUFFICES ASSUME InconsIn(pool) = {}, InconsIn(put) # {}
                 PROVE  BecomesIncons(pool, tuple)
      OBVIOUS
    <3>1. PICK i \in DOMAIN put : put[i].value = Incons
      BY InconsPlace
    <3>2. pool[i].value # Incons /\ pool[k].value # Incons
      BY <2>1, <2>4, InconsPlace
    <3>3. i = k
      BY <2>4, <3>1, <3>2
    <3> QED
      BY <1>3, <2>4, <2>5, <3>1, <3>2, <3>3 DEF BecomesIncons
  <2> QED
    BY <1>1, <1>2, <2>6, <2>7 DEF put
<1>4. CASE ~Has(pool, tuple.terms)
  <2>1. ~BecomesIncons(pool, tuple) /\ put = Append(pool, tuple)
    BY <1>4 DEF BecomesIncons, PutTuple
  <2>2. tuple.value # Incons /\ InconsIn(pool) = {} => InconsIn(put) = {}
    <3>1. /\ DOMAIN put = 1..Len(pool) + 1 /\ put[Len(pool) + 1] = tuple
          /\ \A i \in DOMAIN pool : put[i] = pool[i]
          /\ DOMAIN pool = 1..Len(pool) /\ Len(pool) \in Nat
      BY <2>1, PoolDomain DEF PoolOf
    <3> HIDE DEF put
    <3>2. \A i \in DOMAIN put : i \in DOMAIN pool \/ i = Len(pool) + 1
      BY <3>1
    <3> QED
      BY <3>1, <3>2, InconsPlace
  <2> QED
    BY <1>1, <1>2, <2>1, <2>2
<1> QED
  BY <1>3, <1>4
------------------------------------------------------------------------------
\* The parts of a relation.
LEMMA RelationParts ==
  ASSUME NEW T, NEW x \in RelationOf(T)
  PROVE  /\ x.facts \in PoolOf(T) /\ x.edbFacts \in PoolOf(T)
         /\ x.inconsFactsNumber \in Nat /\ x.edbInconsFactsNumber \in Nat
         /\ x = [facts |-> x.facts, edbFacts |-> x.edbFacts, inconsFactsNumber |-> x.inconsFactsNumber,
                 edbInconsFactsNumber |-> x.edbInconsFactsNumber, finalized |-> x.finalized]
<1> DEFINE P == PoolOf(T)
<1>1. RelationOf(T) = [facts : P, edbFacts : P, inconsFactsNumber : Nat,
                       edbInconsFactsNumber : Nat, finalized : BOOLEAN]
  BY DEF RelationOf, PoolOf
<1> HIDE DEF P
<1>2. x.facts \in P /\ x.edbFacts \in P /\ x.inconsFactsNumber \in Nat /\ x.edbInconsFactsNumber \in Nat
  BY <1>1
<1>3. x = [facts |-> x.facts, edbFacts |-> x.edbFacts, inconsFactsNumber |-> x.inconsFactsNumber,
           edbInconsFactsNumber |-> x.edbInconsFactsNumber, finalized |-> x.finalized]
  BY <1>1
<1> QED
  BY <1>2, <1>3 DEF P

\* A fact of the text leaves the facts and their counter alone.
LEMMA AddEdbCounts ==
  ASSUME NEW T, NEW x \in RelationOf(T), NEW tuple \in TuplesOver(T), tuple.value # Incons, RecordCounts(x)
  PROVE  LET y == AddEdbTuple(x, tuple)
         IN  /\ RecordCounts(y) /\ y.facts = x.facts /\ y.inconsFactsNumber = x.inconsFactsNumber
<1>1. CASE x.finalized
  BY <1>1 DEF AddEdbTuple
<1>2. CASE ~x.finalized
  <2> DEFINE pool == PutTuple(x.edbFacts, tuple)
             count == PutCount(x.edbInconsFactsNumber, x.edbFacts, tuple)
             y == [x EXCEPT !.edbFacts = pool, !.edbInconsFactsNumber = count]
  <2>1. AddEdbTuple(x, tuple) = y
    BY <1>2 DEF AddEdbTuple
  <2>2. /\ count \in Nat /\ count >= x.edbInconsFactsNumber
        /\ InconsIn(x.edbFacts) = {} /\ InconsIn(pool) # {} => count > x.edbInconsFactsNumber
    BY RelationParts, PutCounts
  <2> HIDE DEF pool, count
  <2>3. /\ y.facts = x.facts /\ y.edbFacts = pool /\ y.inconsFactsNumber = x.inconsFactsNumber
        /\ y.edbInconsFactsNumber = count /\ y.finalized = x.finalized
    BY RelationParts
  <2> HIDE DEF y
  <2>4. x.inconsFactsNumber \in Nat /\ x.edbInconsFactsNumber \in Nat
    BY RelationParts
  <2>5. RecordCounts(y)
    BY <2>2, <2>3, <2>4 DEF RecordCounts
  <2> QED
    BY <2>1, <2>3, <2>5
<1> QED
  BY <1>1, <1>2

\* A result that makes the relation inconsistent is counted, unless it is
\* Incons itself.
LEMMA AddCounts ==
  ASSUME NEW T, NEW x \in RelationOf(T), NEW tuple \in TuplesOver(T), RecordCounts(x), x.finalized
  PROVE  LET y == AddTuple(x, tuple)
         IN  /\ RecordCounts(y) /\ y.inconsFactsNumber >= x.inconsFactsNumber
             /\ tuple.value # Incons /\ InconsIn(x.facts) = {} /\ InconsIn(y.facts) # {} =>
                  y.inconsFactsNumber > 0
<1> DEFINE pool == PutTuple(x.facts, tuple)
           count == PutCount(x.inconsFactsNumber, x.facts, tuple)
           y == [x EXCEPT !.facts = pool, !.inconsFactsNumber = count]
<1>0. x = [facts |-> x.facts, edbFacts |-> x.edbFacts, inconsFactsNumber |-> x.inconsFactsNumber,
           edbInconsFactsNumber |-> x.edbInconsFactsNumber, finalized |-> x.finalized]
  BY RelationParts
<1>1. AddTuple(x, tuple) = y
  BY DEF AddTuple
<1>2. /\ count \in Nat /\ count >= x.inconsFactsNumber
      /\ InconsIn(x.facts) # {} => InconsIn(pool) # {}
      /\ count > x.inconsFactsNumber => InconsIn(pool) # {}
      /\ tuple.value # Incons /\ InconsIn(x.facts) = {} /\ InconsIn(pool) # {} =>
           count > x.inconsFactsNumber
  BY RelationParts, PutCounts
<1> HIDE DEF pool, count
<1>3. /\ y.facts = pool /\ y.edbFacts = x.edbFacts /\ y.inconsFactsNumber = count
      /\ y.edbInconsFactsNumber = x.edbInconsFactsNumber /\ y.finalized = x.finalized
  BY <1>0
<1> HIDE DEF y
<1>4. x.inconsFactsNumber \in Nat /\ x.edbInconsFactsNumber \in Nat
  BY RelationParts
<1>5. RecordCounts(y)
  BY <1>2, <1>3, <1>4 DEF RecordCounts
<1> QED
  BY <1>1, <1>2, <1>3, <1>4, <1>5

\* addIncons counts every tuple that it puts back.
LEMMA RestoreCounts ==
  ASSUME NEW T, NEW x \in RelationOf(T), NEW tuple \in TuplesOver(T), RecordCounts(x), x.finalized
  PROVE  LET y == AddInconsTuple(x, tuple)
         IN  /\ RecordCounts(y) /\ y.inconsFactsNumber >= x.inconsFactsNumber
             /\ tuple.value = Incons => y.inconsFactsNumber > 0
<1> DEFINE y == AddTuple(x, tuple)
           z == [y EXCEPT !.inconsFactsNumber = y.inconsFactsNumber + 1]
<1>1. /\ RecordCounts(y) /\ y \in RelationOf(T) /\ y.finalized
      /\ y.inconsFactsNumber >= x.inconsFactsNumber
  BY AddCounts, AddsTyped
<1>2. x.inconsFactsNumber \in Nat
  BY RelationParts
<1>3. CASE tuple.value # Incons
  BY <1>2, <1>3 DEF AddInconsTuple
<1>4. CASE tuple.value = Incons
  <2>1. AddInconsTuple(x, tuple) = z
    BY <1>4 DEF AddInconsTuple
  <2>2. y.facts = PutTuple(x.facts, tuple)
    BY RelationParts DEF AddTuple
  <2> HIDE DEF y
  <2>3. InconsIn(y.facts) # {}
    <3> DEFINE pool == PutTuple(x.facts, tuple)
    <3>1. PICK i \in DOMAIN pool : InfoLeq(tuple.value, pool[i].value)
      BY RelationParts, PutTupleFacts
    <3>2. pool \in PoolOf(T)
      BY RelationParts, PutTupleFacts
    <3> HIDE DEF pool
    <3>3. pool[i].value \in TruthValue
      BY <3>1, <3>2, PoolDomain
    <3>4. pool[i].value = Incons
      BY <1>4, <3>1, <3>3 DEF InfoLeq, Incons, Unknown, True, False, TruthValue
    <3>5. InconsIn(pool) # {}
      BY <3>1, <3>4, InconsPlace
    <3> QED
      BY <2>2, <3>5 DEF pool
  <2>4. /\ z.facts = y.facts /\ z.edbFacts = y.edbFacts /\ z.inconsFactsNumber = y.inconsFactsNumber + 1
        /\ z.edbInconsFactsNumber = y.edbInconsFactsNumber /\ z.finalized = y.finalized
        /\ y.inconsFactsNumber \in Nat
    <3>1. y = [facts |-> y.facts, edbFacts |-> y.edbFacts, inconsFactsNumber |-> y.inconsFactsNumber,
               edbInconsFactsNumber |-> y.edbInconsFactsNumber, finalized |-> y.finalized]
      BY <1>1, RelationParts
    <3>2. y.inconsFactsNumber \in Nat
      BY <1>1, RelationParts
    <3> QED
      BY <3>1, <3>2
  <2> HIDE DEF z
  <2>5. RecordCounts(z)
    BY <1>1, <2>3, <2>4 DEF RecordCounts
  <2> QED
    BY <1>1, <1>2, <2>1, <2>4, <2>5
<1> QED
  BY <1>3, <1>4

\* Finalizing copies the counter with the facts.
LEMMA FinalizeCounts ==
  ASSUME NEW T, NEW x \in RelationOf(T), RecordCounts(x), ~x.finalized
  PROVE  LET y == Finalize(x)
         IN  RecordCounts(y) /\ (InconsIn(y.facts) # {} => y.inconsFactsNumber > 0)
<1> DEFINE y == [x EXCEPT !.facts = x.edbFacts, !.finalized = TRUE,
                          !.inconsFactsNumber = x.edbInconsFactsNumber]
<1>1. Finalize(x) = y
  BY DEF Finalize
<1>2. /\ y.facts = x.edbFacts /\ y.edbFacts = x.edbFacts
      /\ y.inconsFactsNumber = x.edbInconsFactsNumber
      /\ y.edbInconsFactsNumber = x.edbInconsFactsNumber /\ y.finalized
  BY RelationParts
<1> HIDE DEF y
<1> QED
  BY <1>1, <1>2 DEF RecordCounts

\* A correction round starts with the counter of the EDB facts, although it
\* blanks the Incons facts among them.
LEMMA ResetCounts ==
  ASSUME NEW T, NEW x \in RelationOf(T), NEW removed, RecordCounts(x), x.finalized
  PROVE  LET y == ClearIncons(Clear(x), removed)
         IN  RecordCounts(y) /\ y.inconsFactsNumber = x.edbInconsFactsNumber
<1> DEFINE c == Clear(x)
           y == ClearIncons(c, removed)
<1>1. /\ c.facts = x.edbFacts /\ c.edbFacts = x.edbFacts
      /\ c.inconsFactsNumber = x.edbInconsFactsNumber
      /\ c.edbInconsFactsNumber = x.edbInconsFactsNumber /\ c.finalized
  BY RelationParts DEF Clear
<1>2. c \in RelationOf(T)
  BY ResetsTyped
<1> HIDE DEF c
<1>3. y = [c EXCEPT !.facts = y.facts]
  BY <1>2, ClearInconsFacts
<1> HIDE DEF y
<1>4. /\ y.edbFacts = c.edbFacts /\ y.inconsFactsNumber = c.inconsFactsNumber
      /\ y.edbInconsFactsNumber = c.edbInconsFactsNumber /\ y.finalized = c.finalized
  BY <1>2, <1>3, RelationParts
<1>5. RecordCounts(y)
  BY <1>1, <1>4 DEF RecordCounts
<1> QED
  BY <1>1, <1>4, <1>5 DEF c, y
------------------------------------------------------------------------------
\* A step that leaves the relations alone and starts or ends no correction.
LEMMA CountsStay ==
  ASSUME CountInv, UNCHANGED <<program, loaded, rels, backup, cursor>>,
         \/ phase \notin {"correct", "restore"}
         \/ UNCHANGED <<mod, phase>>,
         RoundCounted'
  PROVE  CountInv'
<1>1. /\ \A m : RelationsOf(m)' = RelationsOf(m)
      /\ \A m : Counted(m)' <=> Counted(m)
      /\ \A m : Contradicted(m)' <=> Contradicted(m)
  BY RelationsStay DEF Counted, Contradicted
<1>2. (\A r \in Relations : RecordCounts(rels[r]))' /\ OnlyLoaded'
  BY <1>1 DEF CountInv, OnlyLoaded
<1>3. InconsCounted'
  BY <1>1 DEF CountInv, InconsCounted
<1> QED
  BY <1>2, <1>3 DEF CountInv

\* Outside a round nothing is said of it.
LEMMA NoRound ==
  ASSUME phase' \notin {"correct", "restore", "incons"}
  PROVE  RoundCounted'
BY DEF RoundCounted

\* A step inside a phase of a round.
LEMMA RoundStays ==
  ASSUME CountInv, UNCHANGED <<program, rels, mod, phase, backup, cursor>>
  PROVE  RoundCounted'
<1>1. \A m : Counted(m)' <=> Counted(m)
  BY RelationsStay DEF Counted
<1>2. StillToRestore' <=> StillToRestore
  BY HeadsStay DEF StillToRestore, InconsIn
<1> QED
  BY <1>1, <1>2 DEF CountInv, RoundCounted

\* AddModule.
LEMMA AddModuleCounts == CountInv /\ AddModule => CountInv'
BY CountsStay, NoRound DEF AddModule

\* StartEvaluate.
LEMMA StartEvaluateCounts == CountInv /\ StartEvaluate => CountInv'
BY CountsStay, NoRound DEF StartEvaluate

\* A step that leaves everything the counters are about.
LEMMA SameCounts ==
  ASSUME CountInv, UNCHANGED <<program, loaded, rels, mod, phase, backup, cursor>>
  PROVE  CountInv'
BY CountsStay, RoundStays

\* The end of a module, in ReturnConsistent and LastRound.
LEMMA EndOfModuleCounts ==
  ASSUME CountInv, phase \in {"first", "incons"}, EndOfModule,
         UNCHANGED <<program, rels, loaded, backup, cursor>>
  PROVE  CountInv'
<1>1. phase' \notin {"correct", "restore", "incons"}
  BY DEF EndOfModule
<1> QED
  BY <1>1, CountsStay, NoRound

\* StartRestore.
LEMMA StartRestoreCounts ==
  ASSUME CountInv, phase = "correct", phase' = "restore",
         UNCHANGED <<program, rels, loaded, mod, backup, cursor>>
  PROVE  CountInv'
<1>1. /\ \A m : RelationsOf(m)' = RelationsOf(m)
      /\ \A m : Counted(m)' <=> Counted(m)
      /\ \A m : Contradicted(m)' <=> Contradicted(m)
  BY RelationsStay DEF Counted, Contradicted
<1>2. StillToRestore' <=> StillToRestore
  BY HeadsStay DEF StillToRestore, InconsIn
<1>3. (\A r \in Relations : RecordCounts(rels[r]))' /\ OnlyLoaded'
  BY <1>1 DEF CountInv, OnlyLoaded
<1>4. InconsCounted'
  BY <1>1 DEF CountInv, InconsCounted
<1>5. RoundCounted'
  BY <1>1, <1>2 DEF CountInv, RoundCounted
<1> QED
  BY <1>3, <1>4, <1>5 DEF CountInv

\* FinishRestore: nothing of the backup is left, so that a counter is not
\* zero.
LEMMA FinishRestoreCounts == BaseInv /\ CountInv /\ FinishRestore => CountInv'
<1> SUFFICES ASSUME BaseInv, CountInv, FinishRestore
             PROVE  CountInv'
  OBVIOUS
<1> USE DEF FinishRestore
<1>1. /\ \A m : RelationsOf(m)' = RelationsOf(m)
      /\ \A m : Counted(m)' <=> Counted(m)
      /\ \A m : Contradicted(m)' <=> Contradicted(m)
  BY RelationsStay DEF Counted, Contradicted
<1>2. ~StillToRestore
  <2> SUFFICES ASSUME NEW r \in Heads, NEW i \in InconsIn(backup[r]), cursor[r] <= i
               PROVE  FALSE
    BY DEF StillToRestore
  <2>1. RunningOK
    BY RunningFacts DEF Running
  <2>2. StoreTyped(r)
    BY <2>1 DEF RunningOK, BaseInv, StoresTyped
  <2>3. /\ i \in DOMAIN backup[r] /\ DOMAIN backup[r] = 1..Len(backup[r]) /\ Len(backup[r]) \in Nat
        /\ cursor[r] \in Nat
    BY <2>2, PoolDomain DEF InconsIn, StoreTyped
  <2>4. cursor[r] > Len(backup[r])
    BY DEF Restored
  <2> QED
    BY <2>3, <2>4
<1>3. \A m : m = mod => Counted(m)
  BY <1>2 DEF CountInv, RoundCounted
<1>4. (\A r \in Relations : RecordCounts(rels[r]))' /\ OnlyLoaded'
  BY <1>1 DEF CountInv, OnlyLoaded
<1>5. InconsCounted'
  <2>1. \A m \in 1..loaded : Contradicted(m) => Counted(m)
    BY <1>3 DEF CountInv, InconsCounted
  <2> QED
    BY <1>1, <2>1 DEF InconsCounted
<1>6. RoundCounted'
  BY <1>1, <1>3 DEF RoundCounted
<1> QED
  BY <1>4, <1>5, <1>6 DEF CountInv

\* AddFact.
LEMMA AddFactCounts ==
  ASSUME BaseInv, CountInv, NEW fact \in program.facts, AddFact(fact)
  PROVE  CountInv'
<1> DEFINE f == fact.rel
           tuple == [terms |-> fact.terms, value |-> fact.value]
<1> USE DEF AddFact
<1>1. program \in Programs
  BY DEF BaseInv, OrderKept
<1>2. /\ f \in Relations /\ fact.terms \in TermArrays /\ fact.value \in {False, True}
      /\ tuple \in TuplesOver(TermsFor(program, f)) /\ tuple.value # Incons
  <2>1. fact \in [rel : Relations, terms : TermArrays, value : {False, True}]
    BY <1>1, ProgramsAssumption
  <2>2. f \in Relations /\ fact.terms \in TermArrays /\ fact.value \in {False, True}
    BY <2>1
  <2>3. fact.value \in TruthValue /\ fact.value # Incons
    BY <2>2 DEF False, True, Incons, TruthValue
  <2>4. Atom(fact) \in Mentions(program) /\ Atom(fact).rel = f /\ Atom(fact).arity = Len(fact.terms)
    BY DEF Mentions, Atom
  <2>5. fact.terms \in TermsFor(program, f)
    BY <1>1, <2>2, <2>4, ProgramsAssumption DEF TermsFor
  <2> QED
    BY <2>2, <2>3, <2>5 DEF TuplesOver
<1>3. IsMap(rels) /\ rels[f] \in RelationOf(TermsFor(program, f)) /\ RecordCounts(rels[f])
  BY <1>2 DEF BaseInv, StoresTyped, StoreTyped, CountInv
<1>4. /\ rels'[f] = AddEdbTuple(rels[f], tuple)
      /\ \A r : r # f => rels'[r] = rels[r]
  BY <1>2, <1>3 DEF IsMap
<1> HIDE DEF tuple, f
<1>5. /\ RecordCounts(rels'[f]) /\ rels'[f].facts = rels[f].facts
      /\ rels'[f].inconsFactsNumber = rels[f].inconsFactsNumber
  BY <1>2, <1>3, <1>4, AddEdbCounts
<1>6. rels'[f].finalized = rels[f].finalized
  BY <1>2, <1>3, <1>4, AddsTyped
<1>7. \A r : /\ rels'[r].facts = rels[r].facts /\ rels'[r].finalized = rels[r].finalized
             /\ rels'[r].inconsFactsNumber = rels[r].inconsFactsNumber
  BY <1>4, <1>5, <1>6
<1>8. (\A r \in Relations : RecordCounts(rels[r]))'
  BY <1>4, <1>5 DEF CountInv
<1>9. /\ \A m : RelationsOf(m)' = RelationsOf(m)
      /\ \A m : Counted(m)' <=> Counted(m)
      /\ \A m : Contradicted(m)' <=> Contradicted(m)
  BY <1>7, RelationsStay DEF Counted, Contradicted
<1>10. InconsCounted'
  BY <1>9 DEF CountInv, InconsCounted
<1>11. OnlyLoaded'
  BY <1>7, <1>9 DEF CountInv, OnlyLoaded
<1>12. RoundCounted'
  BY NoRound
<1> QED
  BY <1>8, <1>10, <1>11, <1>12 DEF CountInv

\* FinishModule: the relations of the new module were not finalized before,
\* so that they hold no facts yet.
LEMMA FinishModuleCounts == BaseInv /\ CountInv /\ FinishModule => CountInv'
<1> SUFFICES ASSUME BaseInv, CountInv, FinishModule
             PROVE  CountInv'
  OBVIOUS
<1> USE DEF FinishModule
<1> DEFINE new == loaded + 1
           added == RelationsOf(new)
<1>1. /\ program \in Programs /\ \A r \in Relations : rels[r] \in RelationOf(TermsFor(program, r))
      /\ \A r \in Relations : RecordCounts(rels[r])
      /\ \A m \in 1..loaded : \A r \in RelationsOf(m) : rels[r].finalized
  BY DEF BaseInv, OrderKept, StoresTyped, StoreTyped, CountInv, LoadedFinalized
<1>2. \A r \in Relations : rels'[r] = IF r \in added THEN Finalize(rels[r]) ELSE rels[r]
  OBVIOUS
<1>3. /\ 1..loaded \subseteq DOMAIN program.modules /\ new \in DOMAIN program.modules
      /\ \A m \in DOMAIN program.modules : RelationsOf(m) \subseteq Relations
  BY ModulesRelations
<1>4. loaded \in Nat /\ 1..new = 1..loaded \cup {new} /\ new \notin 1..loaded
  <2>1. loaded \in Nat
    <3> DEFINE n == Len(program.modules)
    <3>1. loaded \in 0..n
      BY DEF BaseInv, OrderKept
    <3> HIDE DEF n
    <3> QED
      BY <3>1
  <2> QED
    BY <2>1
<1> HIDE DEF new
<1>5. \A m \in 1..loaded : RelationsOf(m) \cap added = {}
  <2> TAKE m \in 1..loaded
  <2>1. /\ ToSet(program.modules[m].relations) = RelationsOf(m)
        /\ ToSet(program.modules[new].relations) = added
    BY DEF RelationsOf, Module, ToSet
  <2>2. m \in DOMAIN program.modules /\ new \in DOMAIN program.modules /\ m # new
    BY <1>3, <1>4
  <2> QED
    BY <1>1, <2>1, <2>2, ProgramsAssumption
<1>6. \A r \in added : r \in Relations /\ ~rels[r].finalized
  <2> TAKE r \in added
  <2>1. r \in Relations
    BY <1>3
  <2> QED
    BY <1>5, <2>1 DEF CountInv, OnlyLoaded
<1> HIDE DEF added
<1>7. \A r \in added : /\ RecordCounts(rels'[r]) /\ rels'[r].finalized
                       /\ InconsIn(rels'[r].facts) # {} => rels'[r].inconsFactsNumber > 0
  <2> TAKE r \in added
  <2>1. r \in Relations /\ rels[r] \in RelationOf(TermsFor(program, r)) /\ RecordCounts(rels[r])
        /\ ~rels[r].finalized /\ rels'[r] = Finalize(rels[r])
    BY <1>1, <1>2, <1>6
  <2> QED
    BY <2>1, FinalizeCounts, FinalizeTyped
<1>8. (\A r \in Relations : RecordCounts(rels[r]))'
  BY <1>1, <1>2, <1>7
<1>9. \A m \in 1..loaded : \A r \in RelationsOf(m) : rels'[r] = rels[r]
  BY <1>2, <1>3, <1>5
<1>10. InconsCounted'
  <2>1. ASSUME NEW m \in 1..loaded, \E r \in RelationsOf(m) : InconsIn(rels'[r].facts) # {}
        PROVE  \E r \in RelationsOf(m) : rels'[r].inconsFactsNumber > 0
    <3>1. Contradicted(m)
      BY <1>9, <2>1 DEF Contradicted
    <3>2. Counted(m)
      BY <3>1 DEF CountInv, InconsCounted
    <3> QED
      BY <1>9, <3>2 DEF Counted
  <2>2. ASSUME \E r \in added : InconsIn(rels'[r].facts) # {}
        PROVE  \E r \in added : rels'[r].inconsFactsNumber > 0
    BY <1>7, <2>2
  <2>3. \A m \in 1..new : (\E r \in RelationsOf(m) : InconsIn(rels'[r].facts) # {}) =>
                          (\E r \in RelationsOf(m) : rels'[r].inconsFactsNumber > 0)
    BY <1>4, <2>1, <2>2 DEF added
  <2>4. \A m : RelationsOf(m)' = RelationsOf(m)
    BY RelationsStay
  <2> QED
    BY <2>3, <2>4 DEF InconsCounted, Counted, Contradicted, new
<1>11. OnlyLoaded'
  <2>1. \A r \in Relations : rels'[r].finalized => \E m \in 1..new : r \in RelationsOf(m)
    BY <1>2, <1>4 DEF CountInv, OnlyLoaded, added
  <2>2. \A m : RelationsOf(m)' = RelationsOf(m)
    BY RelationsStay
  <2> QED
    BY <2>1, <2>2 DEF OnlyLoaded, new
<1>12. RoundCounted'
  BY NoRound
<1> QED
  BY <1>8, <1>10, <1>11, <1>12 DEF CountInv
------------------------------------------------------------------------------
\* Where the heads of the module that is evaluated are.
HeadsOwn ==
  /\ mod \in 1..loaded
  /\ \A r \in Heads : r \in RelationsOf(mod)
  /\ \A m \in 1..loaded : m # mod => RelationsOf(m) \cap Heads = {}

\* Modules share no relations.
LEMMA HeadsAreOwn ==
  ASSUME BaseInv, Running
  PROVE  HeadsOwn
<1>1. program \in Programs /\ mod \in 1..loaded
  BY DEF BaseInv, OrderKept
<1>2. 1..loaded \subseteq DOMAIN program.modules
  BY ModulesRelations
<1>3. \A m : ToSet(program.modules[m].relations) = RelationsOf(m)
  BY DEF RelationsOf, Module, ToSet
<1>4. \A r \in Heads : r \in RelationsOf(mod)
  <2>1. \A i \in DOMAIN Rules : Rules[i].head.rel \in ToSet(program.modules[mod].relations)
    BY <1>1, <1>2, ModuleFacts DEF Rules, Module
  <2> QED
    BY <1>3, <2>1 DEF Heads
<1>5. \A m \in 1..loaded : m # mod => RelationsOf(m) \cap RelationsOf(mod) = {}
  BY <1>1, <1>2, <1>3, ProgramsAssumption
<1> QED
  BY <1>1, <1>4, <1>5 DEF HeadsOwn

\* What a step does that changes one head relation, without taking anything
\* off its counter.
HeadGrows(head) ==
  /\ head \in Heads /\ head \in Relations
  /\ \A r : r # head => rels'[r] = rels[r]
  /\ RecordCounts(rels'[head]) /\ rels'[head].finalized = rels[head].finalized
  /\ rels[head].inconsFactsNumber \in Nat /\ rels'[head].inconsFactsNumber \in Nat
  /\ rels'[head].inconsFactsNumber >= rels[head].inconsFactsNumber
  /\ UNCHANGED <<program, loaded, mod, phase>>

\* It changes neither another module nor a counter that was not zero.
LEMMA HeadGrowsFacts ==
  ASSUME BaseInv, CountInv, Running, NEW head, HeadGrows(head)
  PROVE  /\ (\A r \in Relations : RecordCounts(rels[r]))'
         /\ OnlyLoaded'
         /\ \A m : Counted(m) => Counted(m)'
         /\ \A m \in 1..loaded : m # mod => (Contradicted(m)' <=> Contradicted(m))
         /\ rels'[head].inconsFactsNumber > 0 => \A m : m = mod => Counted(m)'
<1>1. HeadsOwn
  BY HeadsAreOwn
<1>2. \A m : RelationsOf(m)' = RelationsOf(m)
  BY RelationsStay DEF HeadGrows
<1>3. (\A r \in Relations : RecordCounts(rels[r]))'
  BY DEF CountInv, HeadGrows
<1>4. OnlyLoaded'
  <2>1. \A r : rels'[r].finalized = rels[r].finalized
    BY DEF HeadGrows
  <2> QED
    BY <1>2, <2>1 DEF OnlyLoaded, CountInv, HeadGrows
<1>5. \A r : rels[r].inconsFactsNumber > 0 => rels'[r].inconsFactsNumber > 0
  BY DEF HeadGrows
<1>6. \A m : Counted(m) => Counted(m)'
  BY <1>2, <1>5 DEF Counted
<1>7. \A m \in 1..loaded : m # mod => (Contradicted(m)' <=> Contradicted(m))
  <2> TAKE m \in 1..loaded
  <2> HAVE m # mod
  <2>1. \A r \in RelationsOf(m) : rels'[r] = rels[r]
    BY <1>1 DEF HeadGrows, HeadsOwn
  <2> QED
    BY <1>2, <2>1 DEF Contradicted
<1>8. rels'[head].inconsFactsNumber > 0 => \A m : m = mod => Counted(m)'
  <2>1. \A m : m = mod => head \in RelationsOf(m)
    BY <1>1 DEF HeadGrows, HeadsOwn
  <2> QED
    BY <1>2, <2>1 DEF Counted
<1> QED
  BY <1>3, <1>4, <1>6, <1>7, <1>8

\* NaiveAddPending and SemiAddPending. Outside the incons phase the result is
\* not Incons, so that a fact that becomes Incons is counted.
LEMMA AddPendingCounts == BaseInv /\ CountInv /\ AddsPending => CountInv'
<1> SUFFICES ASSUME BaseInv, CountInv, AddsPending
             PROVE  CountInv'
  OBVIOUS
<1> DEFINE head == Rules[rule - 1].head.rel
           tuple == Head(pending)
<1>1. /\ Running /\ phase \in Generating /\ RunningOK
      /\ head \in Relations /\ head \in Heads
      /\ tuple \in TuplesOver(TermsFor(program, head))
      /\ phase # "incons" => tuple.value # Incons
  <2>1. /\ Running /\ phase \in Generating /\ RunningOK
        /\ head \in Relations /\ head \in Heads
        /\ tuple \in TuplesOver(TermsFor(program, head))
    BY PendingFacts DEF AddsPending
  <2>2. phase # "incons" => \A k \in DOMAIN pending : pending[k].value # Incons
    BY DEF BaseInv, PendingTyped, AddsPending
  <2>3. 1 \in DOMAIN pending /\ tuple = pending[1]
    <3>1. \E S : pending \in Seq(S)
      BY DEF BaseInv, PendingTyped, AddsPending
    <3> QED
      BY <3>1 DEF AddsPending
  <2> QED
    BY <2>1, <2>2, <2>3
<1>2. /\ rels' = [rels EXCEPT ![head] = AddTuple(rels[head], tuple)]
      /\ UNCHANGED <<program, loaded, mod, phase, backup, cursor>>
  BY DEF AddsPending
<1>3. IsMap(rels) /\ rels[head] \in RelationOf(TermsFor(program, head)) /\ RecordCounts(rels[head])
      /\ rels[head].finalized
  BY <1>1 DEF BaseInv, StoresTyped, StoreTyped, CountInv, RunningOK
<1> HIDE DEF tuple, head
<1>4. rels'[head] = AddTuple(rels[head], tuple) /\ \A r : r # head => rels'[r] = rels[r]
  BY <1>1, <1>2, <1>3 DEF IsMap
<1>5. /\ RecordCounts(rels'[head]) /\ rels'[head].finalized = rels[head].finalized
      /\ rels'[head] \in RelationOf(TermsFor(program, head))
      /\ rels'[head].inconsFactsNumber >= rels[head].inconsFactsNumber
      /\ phase # "incons" /\ InconsIn(rels[head].facts) = {} /\ InconsIn(rels'[head].facts) # {} =>
           rels'[head].inconsFactsNumber > 0
  BY <1>1, <1>3, <1>4, AddCounts, AddsTyped
<1>6. HeadGrows(head)
  BY <1>1, <1>2, <1>3, <1>4, <1>5, RelationParts DEF HeadGrows
<1>7. /\ (\A r \in Relations : RecordCounts(rels[r]))' /\ OnlyLoaded'
      /\ \A m : Counted(m) => Counted(m)'
      /\ \A m \in 1..loaded : m # mod => (Contradicted(m)' <=> Contradicted(m))
      /\ rels'[head].inconsFactsNumber > 0 => \A m : m = mod => Counted(m)'
  BY <1>1, <1>6, HeadGrowsFacts
<1>8. RoundCounted'
  <2>1. StillToRestore' <=> StillToRestore
    BY <1>2, HeadsStay DEF StillToRestore, InconsIn
  <2> QED
    BY <1>2, <1>7, <2>1 DEF CountInv, RoundCounted
<1>9. InconsCounted'
  <2>1. ASSUME NEW m \in 1..loaded, m # mod, Contradicted(m)'
        PROVE  Counted(m)'
    BY <1>7, <2>1 DEF CountInv, InconsCounted
  <2>2. ASSUME NEW m \in 1..loaded, m = mod, phase = "incons"
        PROVE  Counted(m)'
    BY <1>7, <2>2 DEF CountInv, RoundCounted
  <2>3. ASSUME NEW m \in 1..loaded, m = mod, phase = "first", Contradicted(m)'
        PROVE  Counted(m)'
    <3>1. CASE Contradicted(m)
      BY <1>7, <2>3, <3>1 DEF CountInv, InconsCounted
    <3>2. CASE ~Contradicted(m)
      <4>1. PICK r \in RelationsOf(m) : InconsIn(rels'[r].facts) # {}
        BY <1>2, <2>3, RelationsStay DEF Contradicted
      <4>2. InconsIn(rels[r].facts) = {}
        BY <3>2 DEF Contradicted
      <4>3. r = head
        BY <1>4, <4>1, <4>2
      <4> QED
        BY <1>5, <1>7, <2>3, <4>1, <4>2, <4>3
    <3> QED
      BY <3>1, <3>2
  <2> QED
    BY <1>1, <1>2, <2>1, <2>2, <2>3 DEF InconsCounted, Generating
<1> QED
  BY <1>7, <1>8, <1>9 DEF CountInv

\* RestoreTuple: an Incons tuple is counted when it leaves the backup.
LEMMA RestoreTupleCounts == BaseInv /\ CountInv /\ RestoreTuple => CountInv'
<1> SUFFICES ASSUME BaseInv, CountInv, RestoreTuple
             PROVE  CountInv'
  OBVIOUS
<1>1. /\ phase = "restore" /\ Running
      /\ UNCHANGED <<program, loaded, mod, phase, backup>>
  BY DEF RestoreTuple, Running
<1>2. RunningOK
  BY <1>1, RunningFacts
<1>3. IsMap(rels) /\ IsMap(cursor) /\ \A r \in Relations : StoreTyped(r)
  BY DEF BaseInv, StoresTyped
<1>4. PICK k \in DOMAIN Idb :
        LET r == Idb[k]
        IN  /\ ~Restored(r)
            /\ rels' = [rels EXCEPT ![r] = AddInconsTuple(@, backup[r][cursor[r]])]
            /\ cursor' = [cursor EXCEPT ![r] = @ + 1]
  BY DEF RestoreTuple
<1> DEFINE head == Idb[k]
           tuple == backup[head][cursor[head]]
<1>5. head \in Heads /\ head \in Relations
  <2>1. head \in Heads
    BY <1>2, IdbIsHeads DEF RunningOK
  <2> HIDE DEF head
  <2> QED
    BY <1>2, <2>1 DEF RunningOK
<1>6. /\ rels' = [rels EXCEPT ![head] = AddInconsTuple(rels[head], tuple)]
      /\ cursor' = [cursor EXCEPT ![head] = cursor[head] + 1]
      /\ ~(cursor[head] > Len(backup[head]))
  BY <1>4 DEF Restored
<1> HIDE DEF head
<1>7. /\ cursor[head] \in Nat \ {0} /\ cursor[head] \in DOMAIN backup[head]
      /\ tuple \in TuplesOver(TermsFor(program, head))
  <2>1. cursor[head] \in Nat \ {0} /\ backup[head] \in PoolOf(TermsFor(program, head))
    BY <1>3, <1>5 DEF StoreTyped
  <2>2. Len(backup[head]) \in Nat /\ DOMAIN backup[head] = 1..Len(backup[head])
    BY <2>1, PoolDomain
  <2>3. cursor[head] \in DOMAIN backup[head]
    BY <1>6, <2>1, <2>2
  <2> QED
    BY <2>1, <2>3, PoolDomain
<1>8. /\ rels'[head] = AddInconsTuple(rels[head], tuple)
      /\ cursor'[head] = cursor[head] + 1
      /\ \A r : r # head => rels'[r] = rels[r] /\ cursor'[r] = cursor[r]
  BY <1>3, <1>5, <1>6 DEF IsMap
<1>9. /\ rels[head] \in RelationOf(TermsFor(program, head)) /\ RecordCounts(rels[head])
      /\ rels[head].finalized
  BY <1>2, <1>3, <1>5 DEF StoreTyped, CountInv, RunningOK
<1>10. tuple.value = Incons <=> cursor[head] \in InconsIn(backup[head])
  BY <1>7 DEF InconsIn
<1> HIDE DEF tuple
<1>11. /\ RecordCounts(rels'[head]) /\ rels'[head].finalized = rels[head].finalized
       /\ rels'[head] \in RelationOf(TermsFor(program, head))
       /\ rels'[head].inconsFactsNumber >= rels[head].inconsFactsNumber
       /\ tuple.value = Incons => rels'[head].inconsFactsNumber > 0
  <2> DEFINE T == TermsFor(program, head)
             old == rels[head]
             new == rels'[head]
  <2>1. old \in RelationOf(T) /\ RecordCounts(old) /\ old.finalized /\ tuple \in TuplesOver(T)
        /\ new = AddInconsTuple(old, tuple)
    BY <1>7, <1>8, <1>9
  <2> HIDE DEF T, old, new
  <2>2. /\ RecordCounts(new) /\ new.inconsFactsNumber >= old.inconsFactsNumber
        /\ tuple.value = Incons => new.inconsFactsNumber > 0
    BY <2>1, RestoreCounts
  <2>3. new \in RelationOf(T) /\ new.finalized = old.finalized
    BY <2>1, AddsTyped
  <2> QED
    BY <2>2, <2>3 DEF T, old, new
<1>12. HeadGrows(head)
  BY <1>1, <1>5, <1>8, <1>9, <1>11, RelationParts DEF HeadGrows
<1>13. /\ (\A r \in Relations : RecordCounts(rels[r]))' /\ OnlyLoaded'
       /\ \A m : Counted(m) => Counted(m)'
       /\ \A m \in 1..loaded : m # mod => (Contradicted(m)' <=> Contradicted(m))
       /\ rels'[head].inconsFactsNumber > 0 => \A m : m = mod => Counted(m)'
  BY <1>1, <1>12, HeadGrowsFacts
<1>14. InconsCounted'
  BY <1>1, <1>13 DEF CountInv, InconsCounted
<1>15. RoundCounted'
  <2> SUFFICES ASSUME NEW m, m = mod
               PROVE  Counted(m)' \/ StillToRestore'
    BY <1>1 DEF RoundCounted
  <2>1. Heads' = Heads
    BY <1>1, HeadsStay
  <2>2. CASE Counted(m)
    BY <1>13, <2>2
  <2>3. CASE ~Counted(m)
    <3>1. StillToRestore
      BY <1>1, <2>3 DEF CountInv, RoundCounted
    <3>2. PICK r \in Heads : \E i \in InconsIn(backup[r]) : cursor[r] <= i
      BY <3>1 DEF StillToRestore
    <3>3. PICK i \in InconsIn(backup[r]) : cursor[r] <= i
      BY <3>2
    <3>4. CASE r = head /\ i = cursor[head]
      BY <1>10, <1>11, <1>13, <3>3, <3>4
    <3>5. CASE r = head /\ i # cursor[head]
      <4>1. i \in Nat /\ cursor[head] \in Nat
        <5>1. i \in DOMAIN backup[head] /\ backup[head] \in PoolOf(TermsFor(program, head))
          BY <1>3, <1>5, <3>3, <3>5 DEF InconsIn, StoreTyped
        <5> QED
          BY <1>7, <5>1, PoolDomain
      <4>2. cursor'[head] <= i
        BY <1>8, <3>3, <3>5, <4>1
      <4> QED
        BY <1>1, <2>1, <3>3, <3>5, <4>2 DEF StillToRestore, InconsIn
    <3>6. CASE r # head
      BY <1>1, <1>8, <2>1, <3>3, <3>6 DEF StillToRestore, InconsIn
    <3> QED
      BY <3>4, <3>5, <3>6
  <2> QED
    BY <2>2, <2>3
<1> QED
  BY <1>13, <1>14, <1>15 DEF CountInv

\* ResetIdb: what was counted is in the text, in a relation that is no head,
\* or in the backup.
LEMMA ResetIdbCounts ==
  ASSUME BaseInv, CountInv, phase \in {"first", "incons"}, ResetIdb, \A m : m = mod => Counted(m)
  PROVE  CountInv'
<1> DEFINE reset(r) == ClearIncons(Clear(rels[r]), rels[r].facts)
<1>1. Running
  BY DEF Running
<1>2. RunningOK /\ HeadsOwn
  BY <1>1, RunningFacts, HeadsAreOwn
<1>3. /\ \A r \in Relations : rels'[r] = IF r \in Heads THEN reset(r) ELSE rels[r]
      /\ \A r \in Relations : backup'[r] = IF r \in Heads THEN rels[r].facts ELSE backup[r]
      /\ \A r \in Relations : cursor'[r] = IF r \in Heads THEN 1 ELSE cursor[r]
      /\ phase' = "correct" /\ UNCHANGED <<program, loaded, mod>>
  BY DEF ResetIdb
<1>4. \A r \in Relations : rels[r] \in RelationOf(TermsFor(program, r)) /\ RecordCounts(rels[r])
  BY DEF BaseInv, StoresTyped, StoreTyped, CountInv
<1>5. \A r \in Heads : /\ r \in Relations /\ RecordCounts(rels'[r])
                       /\ rels'[r].finalized = rels[r].finalized
                       /\ rels'[r].inconsFactsNumber = rels[r].edbInconsFactsNumber
  <2> TAKE r \in Heads
  <2>1. /\ r \in Relations /\ rels[r].finalized /\ rels'[r] = reset(r)
        /\ rels[r] \in RelationOf(TermsFor(program, r)) /\ RecordCounts(rels[r])
    BY <1>2, <1>3, <1>4 DEF RunningOK
  <2>2. /\ RecordCounts(reset(r)) /\ reset(r).inconsFactsNumber = rels[r].edbInconsFactsNumber
        /\ reset(r).finalized = rels[r].finalized
    BY <2>1, ResetCounts, ResetsTyped
  <2> HIDE DEF reset
  <2> QED
    BY <2>1, <2>2
<1> HIDE DEF reset
<1>6. (\A r \in Relations : RecordCounts(rels[r]))'
  BY <1>3, <1>4, <1>5
<1>7. \A m : RelationsOf(m)' = RelationsOf(m)
  BY <1>3, RelationsStay
<1>8. OnlyLoaded'
  <2>1. \A r \in Relations : rels'[r].finalized = rels[r].finalized
    BY <1>3, <1>5
  <2> QED
    BY <1>3, <1>7, <2>1 DEF CountInv, OnlyLoaded
<1>9. \A m \in 1..loaded : \A r \in RelationsOf(m) : r \in Relations
  BY ModulesRelations
<1>10. InconsCounted'
  <2> SUFFICES ASSUME NEW m \in 1..loaded, m # mod, Contradicted(m)'
               PROVE  Counted(m)'
    BY <1>3 DEF InconsCounted
  <2>1. \A r \in RelationsOf(m) : rels'[r] = rels[r]
    BY <1>2, <1>3, <1>9 DEF HeadsOwn
  <2> QED
    BY <1>7, <2>1 DEF CountInv, InconsCounted, Counted, Contradicted
<1>11. RoundCounted'
  <2> SUFFICES ASSUME NEW m, m = mod
               PROVE  Counted(m)' \/ StillToRestore'
    BY <1>3 DEF RoundCounted
  <2>1. Heads' = Heads
    BY <1>3, HeadsStay
  <2>2. PICK r \in RelationsOf(m) : rels[r].inconsFactsNumber > 0
    BY DEF Counted
  <2>3. r \in Relations
    BY <1>2, <1>9, <2>2 DEF HeadsOwn
  <2>4. CASE r \notin Heads
    BY <1>3, <1>7, <2>2, <2>3, <2>4 DEF Counted
  <2>5. CASE r \in Heads /\ rels[r].edbInconsFactsNumber > 0
    BY <1>5, <1>7, <2>2, <2>5 DEF Counted
  <2>6. CASE r \in Heads /\ InconsIn(rels[r].facts) # {}
    <3>1. PICK i \in InconsIn(rels[r].facts) : TRUE
      BY <2>6
    <3>2. i \in Nat \ {0}
      <4>1. rels[r].facts \in PoolOf(TermsFor(program, r)) /\ i \in DOMAIN rels[r].facts
        BY <1>4, <2>3, <3>1, RelationParts DEF InconsIn
      <4> QED
        BY <4>1, PoolDomain
    <3>3. backup'[r] = rels[r].facts /\ cursor'[r] = 1 /\ 1 <= i
      BY <1>3, <2>3, <2>6, <3>2
    <3> QED
      BY <2>1, <2>6, <3>1, <3>3 DEF StillToRestore, InconsIn
  <2> QED
    BY <1>4, <2>2, <2>3, <2>4, <2>5, <2>6 DEF RecordCounts
<1> QED
  BY <1>6, <1>8, <1>10, <1>11 DEF CountInv
------------------------------------------------------------------------------
\* The counter that evaluateKBModule tests is zero when every relation's is.
LEMMA CounterZero ==
  ASSUME BaseInv, Running
  PROVE  GenInfo[2] = 0 <=> \A r \in RelationsOf(mod) : rels[r].inconsFactsNumber = 0
<1> DEFINE S == RelationsOf(mod)
           D == SUBSET S
           f == [r \in S |-> rels[r].inconsFactsNumber]
           Eq(g) == [s \in D |-> IF s = {} THEN 0
                                 ELSE LET x == CHOOSE x \in s : TRUE
                                      IN  rels[x].inconsFactsNumber + g[s \ {x}]]
           iter == CHOOSE g : g = Eq(g)
<1>1. RunningOK /\ mod \in DOMAIN program.modules
  BY RunningFacts DEF RunningOK
<1>2. IsFiniteSet(S)
  <2> DEFINE relations == Module(mod).relations
             n == Len(relations)
  <2>1. relations \in Seq(Relations)
    BY <1>1 DEF RunningOK
  <2> HIDE DEF relations
  <2>2. n \in Nat /\ DOMAIN relations = 1..n
    BY <2>1
  <2> HIDE DEF n
  <2>3. IsFiniteSet(1..n)
    BY <2>2, FS_Interval
  <2>4. IsFiniteSet({relations[i] : i \in 1..n})
    <3> DEFINE T == {relations[i] : i \in 1..n}
               place == [i \in 1..n |-> relations[i]]
    <3>1. place \in Surjection(1..n, T)
      BY DEF Surjection
    <3> HIDE DEF place, T
    <3>2. IsFiniteSet(T)
      BY <2>3, <3>1, FS_Surjection
    <3> QED
      BY <3>2 DEF T
  <2> QED
    BY <2>2, <2>4 DEF RelationsOf, relations
<1>3. f \in [S -> Nat]
  <2>1. \A r \in S : r \in Relations
    BY <1>1, ModulesRelations
  <2>2. \A r \in Relations : rels[r] \in RelationOf(TermsFor(program, r))
    BY DEF BaseInv, StoresTyped, StoreTyped
  <2>3. \A r \in S : rels[r].inconsFactsNumber \in Nat
    BY <2>1, <2>2, RelationParts
  <2> HIDE DEF S
  <2> QED
    BY <2>3
<1>4. PICK g \in [D -> Nat] : SumsWith(g, f, S)
  <2> HIDE DEF S, f
  <2> QED
    BY <1>2, <1>3, SumExists
<1>5. \A s \in D : s # {} => ElementOf(s) \in S /\ f[ElementOf(s)] = rels[ElementOf(s)].inconsFactsNumber
  <2> HIDE DEF S
  <2>1. \A s \in D : s # {} => ElementOf(s) \in S
    BY DEF ElementOf
  <2> QED
    BY <2>1
<1>6. g = Eq(g)
  <2>1. \A s \in D : g[s] = IF s = {} THEN 0 ELSE rels[ElementOf(s)].inconsFactsNumber + g[s \ {ElementOf(s)}]
    <3> HIDE DEF S, f
    <3> QED
      BY <1>4, <1>5 DEF SumsWith
  <2> HIDE DEF S, f
  <2>2. g = [s \in D |-> g[s]]
    BY <1>4
  <2> QED
    BY <2>1, <2>2, Zenon DEF ElementOf
<1>7. iter = Eq(iter)
  <2> HIDE DEF Eq
  <2> QED
    BY <1>6
<1>8. inconsFactsNumber = iter[S]
  BY Zenon DEF inconsFactsNumber, MapThenSumSet, MapThenFoldSet
<1>9. SumsWith(iter, f, S)
  <2> HIDE DEF iter, S, f
  <2>1. \A s \in D : iter[s] = IF s = {} THEN 0 ELSE rels[ElementOf(s)].inconsFactsNumber + iter[s \ {ElementOf(s)}]
    BY <1>7, Zenon DEF ElementOf
  <2> HIDE DEF Eq
  <2> QED
    BY <1>5, <2>1 DEF SumsWith
<1>10. iter[S] = 0 <=> \A x \in S : f[x] = 0
  <2> HIDE DEF iter, S, f
  <2> QED
    BY <1>2, <1>3, <1>9, SumZero
<1>11. GenInfo[2] = inconsFactsNumber
  BY DEF GenInfo
<1> HIDE DEF iter
<1> QED
  BY <1>8, <1>10, <1>11
------------------------------------------------------------------------------
\* Where evaluateKBModule ends its rounds the counter it tests says what
\* Counted says.
LEMMA CountedByCounter ==
  ASSUME BaseInv, Running
  PROVE  GenInfo[2] # 0 <=> \A m : m = mod => Counted(m)
<1> DEFINE S == RelationsOf(mod)
<1>1. GenInfo[2] = 0 <=> \A r \in S : rels[r].inconsFactsNumber = 0
  BY CounterZero
<1>2. \A r \in S : rels[r].inconsFactsNumber \in Nat
  <2>1. RunningOK
    BY RunningFacts
  <2>2. \A r \in S : r \in Relations
    BY <2>1, ModulesRelations DEF RunningOK
  <2>3. \A r \in Relations : rels[r] \in RelationOf(TermsFor(program, r))
    BY DEF BaseInv, StoresTyped, StoreTyped
  <2> HIDE DEF S
  <2> QED
    BY <2>2, <2>3, RelationParts
<1>3. GenInfo[2] # 0 <=> \E r \in S : rels[r].inconsFactsNumber > 0
  <2> HIDE DEF S
  <2> QED
    BY <1>1, <1>2
<1> QED
  BY <1>3, Zenon DEF Counted

\* The correction rounds.
LEMMA RoundsCounts == BaseInv /\ CountInv /\ Rounds(PassDone) => CountInv'
<1> SUFFICES ASSUME BaseInv, CountInv, Rounds(PassDone)
             PROVE  CountInv'
  OBVIOUS
<1>1. CASE ReturnConsistent(PassDone)
  BY <1>1, EndOfModuleCounts DEF ReturnConsistent
<1>2. CASE FirstRound(PassDone)
  <2>1. phase = "first" /\ Running /\ GenInfo[2] # 0 /\ ResetIdb
    BY <1>2 DEF FirstRound, Running
  <2>2. \A m : m = mod => Counted(m)
    BY <2>1, CountedByCounter
  <2> QED
    BY <2>1, <2>2, ResetIdbCounts
<1>3. CASE StartRestore(PassDone)
  BY <1>3, StartRestoreCounts DEF StartRestore
<1>4. CASE RestoreTuple
  BY <1>4, RestoreTupleCounts
<1>5. CASE FinishRestore
  BY <1>5, FinishRestoreCounts
<1>6. CASE AnotherRound(PassDone)
  <2>1. phase = "incons" /\ ResetIdb
    BY <1>6 DEF AnotherRound
  <2>2. \A m : m = mod => Counted(m)
    BY <2>1 DEF CountInv, RoundCounted
  <2> QED
    BY <2>1, <2>2, ResetIdbCounts
<1>7. CASE LastRound(PassDone)
  BY <1>7, EndOfModuleCounts DEF LastRound
<1> QED
  BY <1>1, <1>2, <1>3, <1>4, <1>5, <1>6, <1>7 DEF Rounds

\* The caller.
LEMMA CallerCounts == BaseInv /\ CountInv /\ Caller => CountInv'
<1> SUFFICES ASSUME BaseInv, CountInv, Caller
             PROVE  CountInv'
  OBVIOUS
<1>1. CASE Wait
  BY <1>1, SameCounts DEF Wait, baseVars
<1> QED
  BY <1>1, AddFactCounts, FinishModuleCounts, AddModuleCounts, StartEvaluateCounts DEF Caller

\* The evaluators.
LEMMA NaiveCounts == BaseInv /\ CountInv /\ NaiveEvaluator => CountInv'
<1> SUFFICES ASSUME BaseInv, CountInv, NaiveEvaluator
             PROVE  CountInv'
  OBVIOUS
<1>1. CASE NaiveEvaluateRule
  BY <1>1, SameCounts DEF NaiveEvaluateRule
<1>2. CASE NaiveAddPending
  <2>1. AddsPending
    BY <1>2 DEF NaiveAddPending, AddsPending
  <2> QED
    BY <2>1, AddPendingCounts
<1>3. CASE NaiveNextPass
  BY <1>3, SameCounts DEF NaiveNextPass
<1>4. CASE Rounds(NaiveGenerateOver)
  BY <1>4, RoundsAreOver, RoundsCounts
<1> QED
  BY <1>1, <1>2, <1>3, <1>4 DEF NaiveEvaluator

\* The same for the semi-naive evaluator.
LEMMA SemiCounts == BaseInv /\ CountInv /\ SemiEvaluator => CountInv'
<1> SUFFICES ASSUME BaseInv, CountInv, SemiEvaluator
             PROVE  CountInv'
  OBVIOUS
<1>1. CASE SemiEvaluateRule
  BY <1>1, SameCounts DEF SemiEvaluateRule
<1>2. CASE SemiAddPending
  <2>1. AddsPending
    BY <1>2 DEF SemiAddPending, AddsPending
  <2> QED
    BY <2>1, AddPendingCounts
<1>3. CASE SemiNextPass
  BY <1>3, SameCounts DEF SemiNextPass
<1>4. CASE Rounds(SemiGenerateOver)
  BY <1>4, RoundsAreOver, RoundsCounts
<1> QED
  BY <1>1, <1>2, <1>3, <1>4 DEF SemiEvaluator

\* Every step keeps the counters right.
LEMMA NextCounts == BaseInv /\ CountInv /\ [Next]_vars => CountInv'
<1> SUFFICES ASSUME BaseInv, CountInv, [Next]_vars
             PROVE  CountInv'
  OBVIOUS
<1>1. CASE UNCHANGED vars
  BY <1>1, SameCounts DEF vars, baseVars
<1> QED
  BY <1>1, CallerCounts, NaiveCounts, SemiCounts DEF Next, EvaluateKB

\* They start at zero.
LEMMA InitCounts == Init => CountInv
<1> SUFFICES ASSUME Init
             PROVE  CountInv
  OBVIOUS
<1>1. loaded = 0 /\ phase = "load" /\ \A r \in Relations : rels[r] = EmptyRelation
  BY DEF Init, NaiveInit, BaseInit
<1>2. InconsIn(<< >>) = {}
  BY DEF InconsIn
<1>3. RecordCounts(EmptyRelation) /\ ~EmptyRelation.finalized
  BY <1>2 DEF RecordCounts, EmptyRelation
<1>4. InconsCounted /\ RoundCounted /\ OnlyLoaded
  <2>1. 1..0 = {}
    OBVIOUS
  <2> QED
    BY <1>1, <1>3, <2>1 DEF InconsCounted, RoundCounted, OnlyLoaded
<1> QED
  BY <1>1, <1>3, <1>4 DEF CountInv

\* What the invariant says of the test that ends an evaluation.
LEMMA CountsTell == BaseInv /\ CountInv => NoInconsMissed
<1> SUFFICES ASSUME BaseInv, CountInv, phase \in {"first", "incons"}, GenInfo[2] = 0
             PROVE  \A r \in RelationsOf(mod) : InconsIn(rels[r].facts) = {}
  BY DEF NoInconsMissed
<1>1. Running /\ mod \in 1..loaded
  BY DEF BaseInv, OrderKept, Running
<1>2. \E m : m = mod /\ ~Counted(m)
  BY <1>1, CountedByCounter
<1>3. PICK m : m = mod /\ ~Counted(m)
  BY <1>2
<1>4. ~Contradicted(m)
  BY <1>1, <1>3 DEF CountInv, InconsCounted
<1> QED
  BY <1>3, <1>4 DEF Contradicted

\* "no incons facts in module - we can end": whatever the program and the
\* algorithm, the counter that evaluateKBModule tests is not zero while a fact
\* of the module is Incons, although only some of the ways by which a fact
\* becomes Incons are counted.
THEOREM EveryInconsCounted == Spec => []NoInconsMissed
<1>1. Init => CountInv
  BY InitCounts
<1>2. BaseInv /\ CountInv /\ [Next]_vars => CountInv'
  BY NextCounts
<1>3. Spec => []EInv
  BY EvaluationTyped
<1>4. EInv => BaseInv
  BY DEF EInv
<1> QED
  BY <1>1, <1>2, <1>3, <1>4, CountsTell, PTL DEF Spec
==============================================================================
