------------------------------ MODULE RuleEval ------------------------------
(***************************************************************************)
(* Evaluation of one rule: EvalRule.cc, EvalSubgoal.cc and the selection,  *)
(* projection and join classes they use.                                   *)
(*                                                                         *)
(* A term is a variable or an interned constant, and both are numbers, as  *)
(* in KBTerm.  A tuple is [terms, value] with the constants' numbers.  A   *)
(* literal of a body is [rel, terms, set] with its set of accepted truth   *)
(* values; a function predicate is [op, terms]; a rule is [head,           *)
(* disjuncts] with head [rel, isTrue, terms] and disjuncts                 *)
(* [body, functions].                                                      *)
(*                                                                         *)
(* The results are sequences, since their order reaches the aggregation of *)
(* Evaluation.cc.  std::sort keeps no promise for equal elements; on the   *)
(* short sequences of the models (at most 16 elements) libstdc++ sorts by  *)
(* insertion, which is stable.                                             *)
(***************************************************************************)
EXTENDS KBRelation, SequencesExt

Var(id)   == [isVar |-> TRUE, id |-> id]
Const(id) == [isVar |-> FALSE, id |-> id]

\* 0xFFFFFFFF in the code: above every other constant, here of 8 bits.
Null == 255

VarIds(terms) == {terms[i].id : i \in {j \in DOMAIN terms : terms[j].isVar}}

\* getVarIndices()[v].front()
FrontIndex(terms, v) == Min({i \in DOMAIN terms : terms[i] = Var(v)})

\* The elements of a finite set of numbers in increasing order.
Ascending(S) ==
  [k \in 1..Cardinality(S) |-> CHOOSE x \in S : Cardinality({y \in S : y < x}) = k - 1]

\* The elements of s at these places, in their order.
ElementsAt(s, places) ==
  LET order == Ascending(places) IN [k \in DOMAIN order |-> s[order[k]]]

\* Lexicographic order of two sequences of equal length, without the places
\* where one of them has an ignored element.
Ordering(a, b, ignored) ==
  LET differ == {k \in DOMAIN a : a[k] # b[k] /\ {a[k], b[k]} \cap ignored = {}}
  IN  IF differ = {} THEN 0 ELSE IF a[Min(differ)] < b[Min(differ)] THEN -1 ELSE 1

\* Join::compare and Join::compareWithoutNull on the columns to be joined;
\* joinable and joinableWithoutNull say whether the result is 0.
Compare(a, b)            == Ordering(a, b, {Null})
CompareWithoutNull(a, b) == Ordering(a, b, {})

\* The columns of the given variables in a row of a relation with these terms.
Key(vars, terms, row) == [k \in DOMAIN vars |-> row.terms[FrontIndex(terms, vars[k])]]
Keys(vars, terms, rows) == [i \in DOMAIN rows |-> Key(vars, terms, rows[i])]

\* sortRelation, by the columns of the given variables: each row in turn goes
\* behind those that are not above it.
StableSort(rows, vars, terms) ==
  LET insert(sorted, row) ==
        LET k == Cardinality({i \in DOMAIN sorted :
                   CompareWithoutNull(Key(vars, terms, sorted[i]), Key(vars, terms, row)) # 1})
        IN  InsertAt(sorted, k + 1, row)
  IN  FoldLeft(insert, << >>, rows)
------------------------------------------------------------------------------
(***************************************************************************)
(* Selection and projection.                                               *)
(***************************************************************************)

\* A mutant: repeated variables are not compared.
SelectableByConstants(lit, terms) ==
  \A i \in DOMAIN terms : lit.terms[i].isVar \/ terms[i] = lit.terms[i].id

Selectable(lit, terms) ==
  /\ \A i \in DOMAIN terms : lit.terms[i].isVar \/ terms[i] = lit.terms[i].id
  /\ \A i, j \in DOMAIN terms :
       lit.terms[i].isVar /\ lit.terms[i] = lit.terms[j] => terms[i] = terms[j]

MatchesTruthValue(lit, value) ==
  \/ lit.set = {}
  \/ lit.set # {Unknown} /\ value \in lit.set

IsUnsafe(lit) == Unknown \in lit.set

\* The terms of dest that JoinProjection::makeProjectionIds keeps: constants
\* and the variables that occur in one of the two relations.
Kept(dest, left, right) ==
  ElementsAt(dest, {i \in DOMAIN dest :
                      dest[i].isVar => dest[i].id \in VarIds(left) \cup VarIds(right)})

\* JoinProjection::project.  A variable of both relations is taken from the
\* left one unless it is Null there.
Project(dest, left, right, l, r) ==
  LET term(t) ==
        IF ~t.isVar THEN t.id
        ELSE IF /\ t.id \in VarIds(left)
                /\ t.id \in VarIds(right) => l[FrontIndex(left, t.id)] # Null
             THEN l[FrontIndex(left, t.id)]
             ELSE r[FrontIndex(right, t.id)]
      kept == Kept(dest, left, right)
  IN  [i \in DOMAIN kept |-> term(kept[i])]

\* A mutant: a variable that the left row has not is looked up in it all the same.
LeftComplementShifted(dest, left, right, l) ==
  LET kept == Kept(dest, left, right)
  IN  [i \in DOMAIN kept |-> IF ~kept[i].isVar THEN kept[i].id ELSE l[1]]

LeftComplement(dest, left, right, l) ==
  LET term(t) == IF ~t.isVar THEN t.id
                 ELSE IF t.id \in VarIds(left) THEN l[FrontIndex(left, t.id)] ELSE Null
      kept == Kept(dest, left, right)
  IN  [i \in DOMAIN kept |-> term(kept[i])]
\* A variable of both relations is looked up at its index in the left one:
\* idOrConstant shares its storage with the pair of indices.
RighComplement(dest, left, right, r) ==
  LET term(t) == IF ~t.isVar THEN t.id
                 ELSE IF t.id \notin VarIds(right) THEN Null
                 ELSE r[FrontIndex(IF t.id \in VarIds(left) THEN left ELSE right, t.id)]
      kept == Kept(dest, left, right)
  IN  [i \in DOMAIN kept |-> term(kept[i])]
------------------------------------------------------------------------------
(***************************************************************************)
(* The subgoals.  EvalSubgoalFirst selects and projects the first literal  *)
(* and keeps the values of the facts; every later literal's facts count as *)
(* True unless they are Incons.  A first literal that accepts Unknown never *)
(* gets here, see FirstUnsafe.                                             *)
(***************************************************************************)

EvalSubgoalFirst(lit, pool, dest, isTrue) ==
  LET selected == ElementsAt(pool, {i \in DOMAIN pool : /\ Selectable(lit, pool[i].terms)
                                                        /\ MatchesTruthValue(lit, pool[i].value)
                                                        /\ pool[i].value # Unknown})
  IN  [i \in DOMAIN selected |->
         [terms |-> Project(dest, lit.terms, << >>, selected[i].terms, << >>),
          value |-> ResolveTruthValue(selected[i].value, isTrue)]]

\* selectKBTupleRefAndMatch
SelectAndMatch(lit, pool) ==
  LET selected == ElementsAt(pool, {i \in DOMAIN pool : /\ pool[i].value # Unknown
                                                        /\ Selectable(lit, pool[i].terms)})
  IN  [i \in DOMAIN selected |->
         [terms |-> selected[i].terms,
          value |-> ResolveToTrueOrIncons(selected[i].value),
          match |-> MatchesTruthValue(lit, selected[i].value)]]

\* The numbers from, from + 1, ... that are in S without a gap, as a sequence.
RunFrom(from, S) ==
  LET end == Max({k \in S \cup {from - 1} : from..k \subseteq S})
  IN  [k \in 1..end - from + 1 |-> from + k - 1]

LeftRun(i, j, joinable) == RunFrom(i, {p[1] : p \in {q \in joinable : q[2] = j}})
RightRun(i, j, joinable) == RunFrom(j, {p[2] : p \in {q \in joinable : q[1] = i}})

\* A mutant of the next definition: the run of the right rows is left out.
JoinedAtLeft(i, j, joinable) ==
  LET lefts == LeftRun(i + 1, j, joinable)
  IN  << <<i, j>> >> \o [k \in DOMAIN lefts |-> <<lefts[k], j>>]

\* The pairs of rows with which an equal pair <<i, j>> is joined: i with j,
\* the left rows after i with j, then i with the right rows after j.
JoinedAt(i, j, joinable) ==
  LET lefts  == LeftRun(i + 1, j, joinable)
      rights == RightRun(i, j + 1, joinable)
  IN  << <<i, j>> >> \o [k \in DOMAIN lefts |-> <<lefts[k], j>>]
                     \o [k \in DOMAIN rights |-> <<i, rights[k]>>]

\* The places <<i, j>> where the loop of a merge join stands, one after the
\* other.  order says of two rows whether the left one is above the right one
\* (1), below it (-1) or neither.  At the last place one side is at its end.
MergePath(m, n, order) ==
  LET next(p) == CASE order[p] =  1 -> <<p[1], p[2] + 1>>
                   [] order[p] = -1 -> <<p[1] + 1, p[2]>>
                   [] OTHER         -> <<p[1] + 1, p[2] + 1>>
      path[p \in (1..m + 1) \X (1..n + 1)] ==
        <<p>> \o (IF p[1] > m \/ p[2] > n THEN << >> ELSE path[next(p)])
  IN  path[<<1, 1>>]

\* The places where the loop compares two rows.
Compared(path) == 1..Len(path) - 1

\* The loop of EvalSubgoalNextWithoutUnknown over the sorted keys of the two
\* relations, as the sequence of pairs of rows it joins.
MergeJoin(l, r) ==
  LET rows == (DOMAIN l) \X (DOMAIN r)
      order == [p \in rows |-> Compare(l[p[1]], r[p[2]])]
      joinable == {p \in rows : l[p[1]] = r[p[2]]}
      joinAt(p) == IF order[p] = 0 THEN JoinedAt(p[1], p[2], joinable) ELSE << >>
      join(path) == FlattenSeq([k \in Compared(path) |-> joinAt(path[k])])
  IN  join(MergePath(Len(l), Len(r), order))

\* The loop of EvalSubgoalNext, for a literal that accepts Unknown.  A pair
\* <<i, 0>> is a left row for which the right relation has no row.
MergeJoinUnknown(l, r, match, onlyUnknown) ==
  LET rows == (DOMAIN l) \X (DOMAIN r)
      order == [p \in rows |-> CompareWithoutNull(l[p[1]], r[p[2]])]
      joinable == {p \in rows : Compare(l[p[1]], r[p[2]]) = 0}
      unmatched(p) == p[2] # 1 /\ l[p[1]] # r[p[2] - 1]
      matching(pairs) == ElementsAt(pairs, {k \in DOMAIN pairs : match[pairs[k][2]]})
      joinAt(p) ==
        CASE order[p] =  1 -> << >>
          [] order[p] = -1 -> IF unmatched(p) THEN << <<p[1], 0>> >> ELSE << >>
          [] OTHER -> IF onlyUnknown THEN << >> ELSE matching(JoinedAt(p[1], p[2], joinable))
      \* the left rows that are left over when the right relation is at its end
      rest(p) ==
        LET skipped == IF p[2] = 1 THEN << >>
                       ELSE RunFrom(p[1], {k \in p[1]..Len(l) : l[k] = r[p[2] - 1]})
            first == p[1] + Len(skipped)
        IN  [k \in 1..Len(l) - first + 1 |-> <<first + k - 1, 0>>]
      join(path) == FlattenSeq([k \in Compared(path) |-> joinAt(path[k])]) \o rest(Last(path))
  IN  join(MergePath(Len(l), Len(r), order))

\* The loop of EvalSubgoalNextDisjunction, an outer join of two disjuncts.
\* Left rows are left over when the right relation is at its end, unless it
\* is empty; a right row stands alone unless its pair was the first of a run.
MergeOuterJoin(l, r) ==
  LET rows == (DOMAIN l) \X (DOMAIN r)
      order == [p \in rows |-> Compare(l[p[1]], r[p[2]])]
      joinable == {p \in rows : order[p] = 0}
      joinAt(p) == CASE order[p] =  1 -> << >>
                     [] order[p] = -1 -> << <<p[1], 0>> >>
                     [] OTHER         -> JoinedAt(p[1], p[2], joinable)
      pairs(path) == IF r = << >> THEN [i \in DOMAIN l |-> <<i, 0>>]
                     ELSE FlattenSeq([k \in Compared(path) |-> joinAt(path[k])])
      first(path) == {path[k][2] : k \in {q \in Compared(path) : path[q] \in joinable}}
      join(path) == pairs(path) \o
                    ElementsAt([j \in DOMAIN r |-> <<0, j>>], DOMAIN r \ first(path))
  IN  join(MergePath(Len(l), Len(r), order))

\* The integer of an interned number, which TermMapper::queryTerm casts.
Signed(x) == IF x > Null \div 2 THEN x - (Null + 1) ELSE x

\* A comparison of two operands.  convertRuleFunction gives every operand the
\* type of a default element, Integer, so that the interned numbers are what
\* is compared, whatever the declared type.
HoldsFor(op, x, y) ==
  CASE op = "<"  -> Signed(x) < Signed(y)
    [] op = "<=" -> Signed(x) <= Signed(y)
    [] op = ">"  -> Signed(x) > Signed(y)
    [] op = ">=" -> Signed(x) >= Signed(y)
    [] op = "="  -> x = y
    [] op = "!=" -> x # y

\* allFunctionsMatch on a pair of rows; a missing right row has no terms.
AllFunctionsMatch(functions, left, right, l, r) ==
  \A k \in DOMAIN functions :
    LET holds(args) == HoldsFor(functions[k].op, args[1], args[2])
    IN  holds(Project(functions[k].terms, left, right, l, r))

\* EvalSubgoalNext, EvalSubgoalNextWithoutUnknown and their variants with
\* functions.  left are the terms of the temporary relation and tmp its rows.
EvalSubgoalNext(left, tmp, lit, pool, dest, isTrue, functions) ==
  LET shared == Ascending(VarIds(left) \cap VarIds(lit.terms))
      pairs(lkeys, rkeys, right) ==
        IF IsUnsafe(lit)
        THEN MergeJoinUnknown(lkeys, rkeys, [j \in DOMAIN right |-> right[j].match],
                              lit.set = {Unknown})
        ELSE MergeJoin(lkeys, rkeys)
      joined(p, rows, right) ==
        IF p[2] = 0
        THEN [terms |-> LeftComplement(dest, left, lit.terms, rows[p[1]].terms),
              value |-> ResolveTruthValue(rows[p[1]].value, isTrue)]
        ELSE [terms |-> Project(dest, left, lit.terms, rows[p[1]].terms, right[p[2]].terms),
              value |-> ResolveTruthValue(
                          Conjunction(rows[p[1]].value, right[p[2]].value), isTrue)]
      results(matching, rows, right) ==
        [k \in DOMAIN matching |-> joined(matching[k], rows, right)]
      holding(matching, rows, right) ==
        ElementsAt(matching, {k \in DOMAIN matching :
          AllFunctionsMatch(functions, left, lit.terms, rows[matching[k][1]].terms,
                            IF matching[k][2] = 0 THEN << >> ELSE right[matching[k][2]].terms)})
      join(rows, right) ==
        results(holding(pairs(Keys(shared, left, rows), Keys(shared, lit.terms, right), right),
                        rows, right),
                rows, right)
      acceptable(rows) == ElementsAt(rows, {i \in DOMAIN rows : IsUnsafe(lit) \/ rows[i].match})
      accepted == acceptable(SelectAndMatch(lit, pool))
  IN  join(StableSort(tmp, shared, left), StableSort(accepted, shared, lit.terms))
------------------------------------------------------------------------------
(***************************************************************************)
(* EvaluateRuleWithoutDisjunction and EvalRuleWithDisj.                    *)
(***************************************************************************)

\* The variables in the order of MakeVarsCounter: the head's, then those of
\* the literals.  RemoveFromRuleVars never takes a count to zero, so that
\* every intermediate relation is projected to all the variables seen so far.
VarsOf(head, literals) ==
  LET first(terms) == ElementsAt(terms, {i \in DOMAIN terms : /\ terms[i].isVar
                                                              /\ i = FrontIndex(terms, terms[i].id)})
  IN  first(FlattenSeq(<<head>> \o [k \in DOMAIN literals |-> literals[k].terms]))

\* The variables among vars that these literals have: the terms of the
\* temporary relation after them.
Seen(vars, literals) ==
  ElementsAt(vars, {i \in DOMAIN vars :
                      \E k \in DOMAIN literals : vars[i].id \in VarIds(literals[k].terms)})

\* The result of a disjunct for the pools of its literals.  A body of one
\* literal is projected straight to the head; its functions are not
\* evaluated.
EvalDisjunct(disjunct, pools, dest, isTrue) ==
  LET body == disjunct.body
      n    == Len(body)
      results(vars) ==
        LET tmp[k \in 1..n] ==
              IF k = 1
              THEN EvalSubgoalFirst(body[1], pools[1],
                     IF n = 1 THEN dest ELSE vars, n = 1 => isTrue)
              ELSE EvalSubgoalNext(Seen(vars, SubSeq(body, 1, k - 1)), tmp[k - 1], body[k], pools[k],
                     IF k = n THEN dest ELSE vars, k = n => isTrue,
                     IF k = n THEN disjunct.functions ELSE << >>)
        IN  tmp[n]
  IN  results(VarsOf(dest, body))

\* EvalSubgoalNextDisjunction.  Results of the right disjunct that are False
\* are not selected; a left row that stands alone keeps its value, whatever
\* the sign of the head.
EvalNextDisjunction(left, tmp, right, results, dest, isTrue) ==
  LET shared == Ascending(VarIds(left) \cap VarIds(right))
      joined(p, rows, news) ==
        CASE p[2] = 0 -> [terms |-> LeftComplement(dest, left, right, rows[p[1]].terms),
                          value |-> rows[p[1]].value]
          [] p[1] = 0 -> [terms |-> RighComplement(dest, left, right, news[p[2]].terms),
                          value |-> ResolveTruthValue(news[p[2]].value, isTrue)]
          [] OTHER -> [terms |-> Project(dest, left, right, rows[p[1]].terms, news[p[2]].terms),
                       value |-> ResolveTruthValue(
                                   Disjunction(rows[p[1]].value, news[p[2]].value), isTrue)]
      joinAt(pairs, rows, news) == [k \in DOMAIN pairs |-> joined(pairs[k], rows, news)]
      join(rows, news) ==
        joinAt(MergeOuterJoin(Keys(shared, left, rows), Keys(shared, right, news)), rows, news)
  IN  join(StableSort(tmp, shared, left),
           StableSort(ElementsAt(results, {i \in DOMAIN results : results[i].value \in {True, Incons}}),
                      shared, right))

\* No evaluation is made for such a rule: CreateEvalSubgoalFirst throws.
FirstUnsafe(rule) == \E d \in DOMAIN rule.disjuncts : IsUnsafe(rule.disjuncts[d].body[1])

LiteralsOf(disjuncts) == FlattenSeq([d \in DOMAIN disjuncts |-> disjuncts[d].body])

Literals(rule) == LiteralsOf(rule.disjuncts)

\* The result of a rule for the pools of all its literals, in their order.
\* With a disjunction every disjunct is evaluated to all the variables of the
\* rule that it has, and the results are joined from left to right.
EvalRule(rule, pools) ==
  LET disjuncts == rule.disjuncts
      n == Len(disjuncts)
      before(d)  == LiteralsOf(SubSeq(disjuncts, 1, d - 1))
      poolsOf(d) == SubSeq(pools, Len(before(d)) + 1, Len(before(d)) + Len(disjuncts[d].body))
      result(d, vars) ==
        EvalDisjunct(disjuncts[d], poolsOf(d), IF n = 1 THEN rule.head.terms ELSE vars,
                     n = 1 => rule.head.isTrue)
      \* the rows of the first d disjuncts; the last ones are for the head
      joined(vars, results) ==
        LET tmp[d \in 1..n] ==
              IF d = 1 THEN results[1]
              ELSE EvalNextDisjunction(Seen(vars, before(d)), tmp[d - 1],
                     Seen(vars, disjuncts[d].body), results[d],
                     IF d = n THEN rule.head.terms ELSE vars, d = n => rule.head.isTrue)
        IN  tmp[n]
      evaluate(vars) == joined(vars, [d \in 1..n |-> result(d, vars)])
  IN  evaluate(VarsOf(rule.head.terms, Literals(rule)))
==============================================================================
