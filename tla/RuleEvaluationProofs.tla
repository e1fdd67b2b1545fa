------------------------- MODULE RuleEvaluationProofs -------------------------
(***************************************************************************)
(* What a rule without disjunction gives is what its instances give.  The  *)
(* rows of the temporary relation are, after every literal of the body,    *)
(* outcomes of choices of a fact for the literals so far; when no literal  *)
(* accepts Unknown they are the outcomes of all of them, each once.        *)
(*                                                                         *)
(* The keys are totally ordered, sortRelation sorts the rows by them       *)
(* without losing one, and the loop of the merge join passes every pair of *)
(* equal keys exactly once, on its first row or column.                    *)
(***************************************************************************)
EXTENDS RuleEvaluation, RuleEvalProofs

\* Keys of d columns.
KeyOf(d) == [1..d -> Nat]

\* The lexicographic order, without a minimum.
KeyLess(d, a, b) == \E p \in 1..d : a[p] < b[p] /\ \A j \in 1..d : j < p => a[j] = b[j]

\* Where two keys differ first.
LEMMA FirstDifference ==
  ASSUME NEW d \in Nat, NEW a \in KeyOf(d), NEW b \in KeyOf(d), a # b
  PROVE  LET differ == {k \in 1..d : a[k] # b[k]}
         IN  /\ Min(differ) \in 1..d /\ a[Min(differ)] # b[Min(differ)]
             /\ \A j \in 1..d : j < Min(differ) => a[j] = b[j]
<1> DEFINE differ == {k \in 1..d : a[k] # b[k]}
<1>1. differ # {} /\ differ \in SUBSET Nat
  BY DEF KeyOf
<1>2. \A k : k \in differ <=> k \in 1..d /\ a[k] # b[k]
  OBVIOUS
<1> HIDE DEF differ
<1>3. Min(differ) \in differ /\ \A y \in differ : Min(differ) <= y
  BY <1>1, MinOf
<1>4. \A j \in 1..d : j < Min(differ) => a[j] = b[j]
  <2> TAKE j \in 1..d
  <2>1. Min(differ) \in 1..d
    BY <1>2, <1>3
  <2>2. j < Min(differ) => j \notin differ
    BY <1>3, <2>1
  <2> QED
    BY <1>2, <2>2
<1> QED
  BY <1>2, <1>3, <1>4 DEF differ

\* The comparison of two keys is that of the lexicographic order.
LEMMA ComparisonIsLess ==
  ASSUME NEW d \in Nat, NEW a \in KeyOf(d), NEW b \in KeyOf(d)
  PROVE  /\ CompareWithoutNull(a, b) \in {-1, 0, 1}
         /\ CompareWithoutNull(a, b) = 0 <=> a = b
         /\ CompareWithoutNull(a, b) = -1 <=> KeyLess(d, a, b)
         /\ CompareWithoutNull(a, b) = 1 <=> KeyLess(d, b, a)
<1> DEFINE differ == {k \in 1..d : a[k] # b[k]}
           least == Min(differ)
<1>1. CompareWithoutNull(a, b) = IF differ = {} THEN 0 ELSE IF a[least] < b[least] THEN -1 ELSE 1
  <2>1. DOMAIN a = 1..d
    BY DEF KeyOf
  <2>2. {k \in DOMAIN a : a[k] # b[k] /\ {a[k], b[k]} \cap {} = {}} = differ
    BY <2>1
  <2> QED
    BY <2>2, Zenon DEF CompareWithoutNull, Ordering
<1>2. CASE a = b
  <2>1. differ = {}
    BY <1>2
  <2>2. ~KeyLess(d, a, b) /\ ~KeyLess(d, b, a)
    BY <1>2 DEF KeyLess, KeyOf
  <2> QED
    BY <1>1, <1>2, <2>1, <2>2
<1>3. CASE a # b
  <2>1. least \in 1..d /\ a[least] # b[least] /\ \A j \in 1..d : j < least => a[j] = b[j]
    BY <1>3, FirstDifference
  <2>2. differ # {}
    BY <2>1
  <2> HIDE DEF differ, least
  <2>3. a[least] \in Nat /\ b[least] \in Nat
    BY <2>1 DEF KeyOf
  <2>4. \A j \in 1..d : a[j] \in Nat /\ b[j] \in Nat
    BY DEF KeyOf
  <2>5. KeyLess(d, a, b) <=> a[least] < b[least]
    <3>1. a[least] < b[least] => KeyLess(d, a, b)
      BY <2>1 DEF KeyLess
    <3>2. ASSUME KeyLess(d, a, b) PROVE a[least] < b[least]
      <4>1. PICK p \in 1..d : a[p] < b[p] /\ \A j \in 1..d : j < p => a[j] = b[j]
        BY <3>2 DEF KeyLess
      <4>2. p = least
        BY <2>1, <2>4, <4>1
      <4> QED
        BY <4>1, <4>2
    <3> QED
      BY <3>1, <3>2
  <2>6. KeyLess(d, b, a) <=> b[least] < a[least]
    <3>1. b[least] < a[least] => KeyLess(d, b, a)
      BY <2>1 DEF KeyLess
    <3>2. ASSUME KeyLess(d, b, a) PROVE b[least] < a[least]
      <4>1. PICK p \in 1..d : b[p] < a[p] /\ \A j \in 1..d : j < p => b[j] = a[j]
        BY <3>2 DEF KeyLess
      <4>2. p = least
        BY <2>1, <2>4, <4>1
      <4> QED
        BY <4>1, <4>2
    <3> QED
      BY <3>1, <3>2
  <2> QED
    BY <1>1, <1>3, <2>1, <2>2, <2>3, <2>5, <2>6
<1> QED
  BY <1>2, <1>3

KeyLeq(a, b) == CompareWithoutNull(a, b) # 1

\* It is a total order.
LEMMA KeyOrder ==
  ASSUME NEW d \in Nat
  PROVE  /\ \A a, b \in KeyOf(d) : KeyLeq(a, b) \/ KeyLeq(b, a)
         /\ \A a, b \in KeyOf(d) : KeyLeq(a, b) /\ KeyLeq(b, a) => a = b
         /\ \A a, b, c \in KeyOf(d) : KeyLeq(a, b) /\ KeyLeq(b, c) => KeyLeq(a, c)
         /\ \A a \in KeyOf(d) : KeyLeq(a, a)
         /\ \A a, b \in KeyOf(d) : CompareWithoutNull(a, b) = 0 <=> a = b
         /\ \A a, b \in KeyOf(d) : CompareWithoutNull(a, b) = -1 <=> ~KeyLeq(b, a)
         /\ \A a, b \in KeyOf(d) : CompareWithoutNull(a, b) \in {-1, 0, 1}
<1>1. \A a, b \in KeyOf(d) :
        /\ CompareWithoutNull(a, b) \in {-1, 0, 1}
        /\ CompareWithoutNull(a, b) = 0 <=> a = b
        /\ CompareWithoutNull(a, b) = -1 <=> KeyLess(d, a, b)
        /\ CompareWithoutNull(a, b) = 1 <=> KeyLess(d, b, a)
  BY ComparisonIsLess
<1>2. \A a, b \in KeyOf(d) : KeyLeq(a, b) <=> ~KeyLess(d, b, a)
  BY <1>1 DEF KeyLeq
<1>3. \A a, b \in KeyOf(d) : a = b \/ KeyLess(d, a, b) \/ KeyLess(d, b, a)
  BY <1>1
<1>4. \A a, b \in KeyOf(d) : KeyLess(d, a, b) => ~KeyLess(d, b, a) /\ a # b
  <2> TAKE a, b \in KeyOf(d)
  <2>1. CompareWithoutNull(a, b) = -1 => CompareWithoutNull(a, b) # 1 /\ CompareWithoutNull(a, b) # 0
    OBVIOUS
  <2> QED
    BY <1>1, <2>1
<1>5. ASSUME NEW a \in KeyOf(d), NEW b \in KeyOf(d), NEW c \in KeyOf(d), KeyLess(d, a, b), KeyLess(d, b, c)
      PROVE  KeyLess(d, a, c)
  <2>1. PICK p \in 1..d : a[p] < b[p] /\ \A j \in 1..d : j < p => a[j] = b[j]
    BY <1>5 DEF KeyLess
  <2>2. PICK q \in 1..d : b[q] < c[q] /\ \A j \in 1..d : j < q => b[j] = c[j]
    BY <1>5 DEF KeyLess
  <2>3. \A j \in 1..d : a[j] \in Nat /\ b[j] \in Nat /\ c[j] \in Nat
    BY DEF KeyOf
  <2>4. CASE p < q
    <3>1. a[p] < c[p] /\ \A j \in 1..d : j < p => a[j] = c[j]
      BY <2>1, <2>2, <2>3, <2>4
    <3> QED
      BY <3>1 DEF KeyLess
  <2>5. CASE ~(p < q)
    <3>1. a[q] < c[q] /\ \A j \in 1..d : j < q => a[j] = c[j]
      BY <2>1, <2>2, <2>3, <2>5
    <3> QED
      BY <3>1 DEF KeyLess
  <2> QED
    BY <2>4, <2>5
<1>6. \A a, b, c \in KeyOf(d) : KeyLeq(a, b) /\ KeyLeq(b, c) => KeyLeq(a, c)
  <2> SUFFICES ASSUME NEW a \in KeyOf(d), NEW b \in KeyOf(d), NEW c \in KeyOf(d),
                      KeyLeq(a, b), KeyLeq(b, c)
               PROVE  KeyLeq(a, c)
    OBVIOUS
  <2>1. (a = b \/ KeyLess(d, a, b)) /\ (b = c \/ KeyLess(d, b, c))
    BY <1>2, <1>3
  <2>2. a = c \/ KeyLess(d, a, c)
    BY <1>5, <2>1
  <2> QED
    BY <1>2, <1>4, <2>2
<1> QED
  BY <1>1, <1>2, <1>3, <1>4, <1>6

\* A missing constant makes the only difference between the two comparisons.
LEMMA CompareKnown ==
  ASSUME NEW d \in Nat, NEW a \in KeyOf(d), NEW b \in KeyOf(d),
         \A k \in 1..d : a[k] # Null /\ b[k] # Null
  PROVE  Compare(a, b) = CompareWithoutNull(a, b)
<1>1. DOMAIN a = 1..d
  BY DEF KeyOf
<1>2. {k \in DOMAIN a : a[k] # b[k] /\ {a[k], b[k]} \cap {Null} = {}}
        = {k \in DOMAIN a : a[k] # b[k] /\ {a[k], b[k]} \cap {} = {}}
  BY <1>1
<1> QED
  BY <1>2, Zenon DEF Compare, CompareWithoutNull, Ordering
------------------------------------------------------------------------------
\* Numbers without a gap from 1 on are counted by the greatest.
LEMMA InitialSegment ==
  ASSUME NEW k \in Nat, NEW P \in SUBSET (1..k), \A i \in P : \A j \in 1..k : j < i => j \in P
  PROVE  Cardinality(P) \in 0..k /\ P = 1..Cardinality(P)
<1>1. CASE P = {}
  <2>1. Cardinality(P) = 0
    BY <1>1, FS_EmptySet
  <2> QED
    BY <1>1, <2>1
<1>2. CASE P # {}
  <2> DEFINE top == Max(P)
  <2>1. P \in SUBSET 0..k
    OBVIOUS
  <2>2. top \in P /\ \A y \in P : top >= y
    BY <1>2, <2>1, MaxOf
  <2> HIDE DEF top
  <2>3. top \in 1..k /\ top \in Nat
    BY <2>2
  <2>4. P = 1..top
    <3>1. \A j \in 1..top : j \in P
      <4> TAKE j \in 1..top
      <4>1. j \in 1..k /\ (j < top \/ j = top)
        BY <2>3
      <4> QED
        BY <2>2, <4>1
    <3>2. \A j \in P : j \in 1..top
      <4> TAKE j \in P
      <4>1. j \in 1..k /\ top >= j
        BY <2>2
      <4> QED
        BY <2>3, <4>1
    <3> QED
      BY <3>1, <3>2
  <2>5. Cardinality(1..top) = top
    BY <2>3, FS_Interval
  <2> QED
    BY <2>3, <2>4, <2>5
<1> QED
  BY <1>1, <1>2

\* The first k rows in another order.
Arranged(s, rows, k) ==
  \E perm \in [1..k -> 1..k] :
    /\ \A i, j \in 1..k : perm[i] = perm[j] => i = j
    /\ \A j \in 1..k : \E i \in 1..k : perm[i] = j
    /\ \A i \in 1..k : s[i] = rows[perm[i]]

\* The rows are in the order of their keys.
InOrder(s, cols, terms) ==
  \A i, j \in 1..Len(s) : i <= j => KeyLeq(Key(cols, terms, s[i]), Key(cols, terms, s[j]))

\* A row more keeps the arrangement.
LEMMA ArrangedGrows ==
  ASSUME NEW R, NEW k \in Nat, NEW s \in Seq(R), Len(s) = k, NEW rows, Arranged(s, rows, k),
         NEW at \in 1..k + 1, NEW t, InsertedAt(t, s, at, rows[k + 1])
  PROVE  Arranged(t, rows, k + 1)
<1>1. PICK perm \in [1..k -> 1..k] :
        /\ \A i, j \in 1..k : perm[i] = perm[j] => i = j
        /\ \A j \in 1..k : \E i \in 1..k : perm[i] = j
        /\ \A i \in 1..k : s[i] = rows[perm[i]]
  BY DEF Arranged
<1> DEFINE longer == [i \in 1..k + 1 |-> IF i < at THEN perm[i] ELSE IF i = at THEN k + 1 ELSE perm[i - 1]]
<1>2. /\ \A i \in 1..k + 1 : i < at => i \in 1..k /\ longer[i] = perm[i]
      /\ longer[at] = k + 1
      /\ \A i \in 1..k + 1 : i > at => i - 1 \in 1..k /\ longer[i] = perm[i - 1]
      /\ \A i \in 1..k + 1 : i < at \/ i = at \/ i > at
  OBVIOUS
<1>3. \A i \in 1..k : perm[i] \in 1..k /\ perm[i] \in 1..k + 1 /\ perm[i] # k + 1
  <2> TAKE i \in 1..k
  <2>1. perm[i] \in 1..k
    OBVIOUS
  <2> QED
    BY <2>1
<1>4. \A i \in 1..k + 1 : longer[i] \in 1..k + 1 /\ (longer[i] = k + 1 => i = at)
  BY <1>2, <1>3
<1>5. longer \in [1..k + 1 -> 1..k + 1]
  BY <1>4
<1> HIDE DEF longer
<1>6. ASSUME NEW i \in 1..k + 1, NEW j \in 1..k + 1, longer[i] = longer[j]
      PROVE  i = j
  <2>1. CASE i = at \/ j = at
    BY <1>2, <1>4, <1>6, <2>1
  <2>2. CASE i # at /\ j # at
    <3> DEFINE a == IF i < at THEN i ELSE i - 1
               b == IF j < at THEN j ELSE j - 1
    <3>1. a \in 1..k /\ b \in 1..k /\ longer[i] = perm[a] /\ longer[j] = perm[b]
      BY <1>2, <2>2
    <3>2. a = b
      <4> HIDE DEF a, b
      <4>1. perm[a] = perm[b]
        BY <1>6, <3>1
      <4>2. a \in 1..k /\ b \in 1..k
        BY <3>1
      <4> QED
        BY <1>1, <4>1, <4>2, Zenon
    <3> QED
      BY <2>2, <3>2
  <2> QED
    BY <2>1, <2>2
<1>7. ASSUME NEW j \in 1..k + 1
      PROVE  \E i \in 1..k + 1 : longer[i] = j
  <2>1. CASE j = k + 1
    BY <1>2, <2>1
  <2>2. CASE j # k + 1
    <3>1. PICK i \in 1..k : perm[i] = j
      <4>1. j \in 1..k
        BY <2>2
      <4> QED
        BY <1>1, <4>1
    <3>2. CASE i < at
      <4>1. i \in 1..k + 1
        OBVIOUS
      <4> QED
        BY <1>2, <3>1, <3>2, <4>1
    <3>3. CASE ~(i < at)
      <4>1. i + 1 \in 1..k + 1 /\ i + 1 > at /\ (i + 1) - 1 = i
        BY <3>3
      <4> QED
        BY <1>2, <3>1, <4>1
    <3> QED
      BY <3>2, <3>3
  <2> QED
    BY <2>1, <2>2
<1>8. ASSUME NEW i \in 1..k + 1
      PROVE  t[i] = rows[longer[i]]
  <2>1. t[i] = IF i < at THEN s[i] ELSE IF i = at THEN rows[k + 1] ELSE s[i - 1]
    BY DEF InsertedAt
  <2>2. CASE i < at
    BY <1>1, <1>2, <2>1, <2>2
  <2>3. CASE i = at
    BY <1>2, <2>1, <2>3
  <2>4. CASE i > at
    <3>1. i - 1 \in 1..k /\ longer[i] = perm[i - 1] /\ t[i] = s[i - 1]
      BY <1>2, <2>1, <2>4
    <3> QED
      BY <1>1, <3>1
  <2> QED
    BY <1>2, <2>2, <2>3, <2>4
<1> QED
  BY <1>5, <1>6, <1>7, <1>8 DEF Arranged

\* A round keeps the rows in order.
LEMMA SortStepInOrder ==
  ASSUME NEW R, NEW cols, NEW terms, NEW d \in Nat, \A row \in R : Key(cols, terms, row) \in KeyOf(d),
         NEW s \in Seq(R), InOrder(s, cols, terms), NEW row \in R
  PROVE  InOrder(SortStep(s, row, cols, terms), cols, terms)
<1> DEFINE key(x) == Key(cols, terms, x)
           P == NotAbove(s, row, cols, terms)
           c == Cardinality(P)
           t == SortStep(s, row, cols, terms)
           n == Len(s)
<1>1. n \in Nat /\ DOMAIN s = 1..n /\ \A i \in 1..n : s[i] \in R
  OBVIOUS
<1>2. \A i : i \in P <=> i \in 1..n /\ KeyLeq(key(s[i]), key(row))
  BY <1>1 DEF NotAbove, KeyLeq
<1>3. /\ \A a, b \in KeyOf(d) : KeyLeq(a, b) \/ KeyLeq(b, a)
      /\ \A a, b, e \in KeyOf(d) : KeyLeq(a, b) /\ KeyLeq(b, e) => KeyLeq(a, e)
      /\ \A a \in KeyOf(d) : KeyLeq(a, a)
  BY KeyOrder
<1>4. /\ \A i \in 1..n : key(s[i]) \in KeyOf(d)
      /\ key(row) \in KeyOf(d)
      /\ \A i, j \in 1..n : i <= j => KeyLeq(key(s[i]), key(s[j]))
  BY <1>1 DEF InOrder
<1> HIDE DEF P, key, n
<1>5. c \in 0..n /\ P = 1..c
  <2>1. P \in SUBSET (1..n)
    BY <1>2
  <2>2. \A i \in P : \A j \in 1..n : j < i => j \in P
    <3> TAKE i \in P
    <3> TAKE j \in 1..n
    <3>1. i \in 1..n /\ KeyLeq(key(s[i]), key(row))
      BY <1>2
    <3>2. j < i => KeyLeq(key(s[j]), key(s[i]))
      BY <1>1, <1>4, <3>1
    <3> QED
      BY <1>2, <1>3, <1>4, <3>1, <3>2
  <2> QED
    BY <1>1, <2>1, <2>2, InitialSegment
<1>6. InsertedAt(t, s, c + 1, row)
  BY SortStepFacts DEF P
<1> HIDE DEF c, t
<1>7. /\ Len(t) = n + 1
      /\ \A i \in 1..n + 1 : t[i] = IF i < c + 1 THEN s[i] ELSE IF i = c + 1 THEN row ELSE s[i - 1]
  BY <1>6 DEF InsertedAt, n
<1>8. ASSUME NEW i \in 1..n + 1, NEW j \in 1..n + 1, i <= j
      PROVE  KeyLeq(key(t[i]), key(t[j]))
  <2>1. CASE i = c + 1 /\ j = c + 1
    <3>1. t[i] = row /\ t[j] = row
      BY <1>1, <1>5, <1>7, <2>1
    <3> QED
      BY <1>3, <1>4, <3>1
  <2>2. CASE i = c + 1 /\ j > c + 1
    <3>1. t[i] = row /\ t[j] = s[j - 1] /\ j - 1 \in 1..n /\ j - 1 \notin 1..c
      BY <1>1, <1>5, <1>7, <2>2
    <3>2. ~KeyLeq(key(s[j - 1]), key(row))
      BY <1>2, <1>5, <3>1
    <3> QED
      BY <1>3, <1>4, <3>1, <3>2
  <2>3. CASE i < c + 1 /\ j = c + 1
    <3>1. t[i] = s[i] /\ t[j] = row /\ i \in 1..c
      BY <1>1, <1>5, <1>7, <2>3
    <3> QED
      BY <1>2, <1>5, <3>1
  <2>4. CASE i # c + 1 /\ j # c + 1
    <3> DEFINE a == IF i < c + 1 THEN i ELSE i - 1
               b == IF j < c + 1 THEN j ELSE j - 1
    <3>1. a \in 1..n /\ b \in 1..n /\ a <= b
      BY <1>1, <1>5, <1>8, <2>4
    <3>2. t[i] = s[a] /\ t[j] = s[b]
      BY <1>1, <1>5, <1>7, <2>4
    <3> HIDE DEF a, b
    <3> QED
      BY <1>4, <3>1, <3>2
  <2>5. \/ i = c + 1 /\ j = c + 1
        \/ i = c + 1 /\ j > c + 1
        \/ i < c + 1 /\ j = c + 1
        \/ i # c + 1 /\ j # c + 1
    BY <1>1, <1>5, <1>8
  <2> QED
    BY <2>1, <2>2, <2>3, <2>4, <2>5
<1> QED
  BY <1>7, <1>8 DEF InOrder, t, key

\* sortRelation arranges all rows in the order of their keys.
LEMMA StableSortFacts ==
  ASSUME NEW R, NEW rows \in Seq(R), NEW cols, NEW terms, NEW d \in Nat,
         \A row \in R : Key(cols, terms, row) \in KeyOf(d)
  PROVE  LET sorted == StableSort(rows, cols, terms)
         IN  /\ sorted \in Seq(R) /\ Len(sorted) = Len(rows)
             /\ Arranged(sorted, rows, Len(rows))
             /\ InOrder(sorted, cols, terms)
<1> DEFINE n == Len(rows)
<1>1. PICK h : SortRun(h, R, rows, cols, terms) /\ StableSort(rows, cols, terms) = h[n]
  BY StableSortRun
<1>2. /\ n \in Nat /\ \A k \in 1..n : rows[k] \in R
      /\ h \in [0..n -> Seq(R)] /\ h[0] = << >>
      /\ \A k \in 1..n : h[k] = SortStep(h[k - 1], rows[k], cols, terms)
  BY <1>1 DEF SortRun
<1> DEFINE S == {k \in 0..n : Len(h[k]) = k /\ Arranged(h[k], rows, k) /\ InOrder(h[k], cols, terms)}
<1>3. 0 \in S
  <2>1. Len(h[0]) = 0 /\ 0 \in 0..n /\ 1..0 = {}
    BY <1>2
  <2>2. InOrder(h[0], cols, terms)
    BY <2>1 DEF InOrder
  <2>3. Arranged(h[0], rows, 0)
    <3>1. [i \in 1..0 |-> i] \in [1..0 -> 1..0]
      OBVIOUS
    <3> QED
      BY <2>1, <3>1 DEF Arranged
  <2> QED
    BY <2>1, <2>2, <2>3
<1>4. ASSUME NEW k \in 0..n, k < n, k \in S
      PROVE  k + 1 \in S
  <2> DEFINE s == h[k]
             row == rows[k + 1]
             at == Cardinality(NotAbove(s, row, cols, terms)) + 1
  <2>1. k + 1 \in 1..n /\ k + 1 \in 0..n /\ (k + 1) - 1 = k /\ k \in Nat
    BY <1>2, <1>4
  <2>2. s \in Seq(R) /\ row \in R /\ Len(s) = k /\ Arranged(s, rows, k) /\ InOrder(s, cols, terms)
    BY <1>2, <1>4, <2>1
  <2>3. h[k + 1] = SortStep(s, row, cols, terms)
    <3>1. h[k + 1] = SortStep(h[(k + 1) - 1], rows[k + 1], cols, terms)
      BY <1>2, <2>1
    <3> QED
      BY <2>1, <3>1
  <2> HIDE DEF s
  <2>4. at \in 1..k + 1 /\ InsertedAt(h[k + 1], s, at, row)
    BY <2>2, <2>3, SortStepFacts
  <2> HIDE DEF at
  <2>5. Arranged(h[k + 1], rows, k + 1)
    BY <2>1, <2>2, <2>4, ArrangedGrows
  <2>6. InOrder(h[k + 1], cols, terms)
    BY <2>2, <2>3, SortStepInOrder
  <2>7. Len(h[k + 1]) = k + 1
    BY <2>2, <2>4 DEF InsertedAt
  <2> QED
    BY <2>1, <2>5, <2>6, <2>7
<1>5. n \in S
  <2>1. 0..n \subseteq S /\ n \in 0..n
    <3> HIDE DEF S, n
    <3>1. 0..n \subseteq S
      BY <1>2, <1>3, <1>4, InductionUpto
    <3> QED
      BY <1>2, <3>1
  <2> HIDE DEF S
  <2> QED
    BY <2>1
<1>6. h[n] \in Seq(R)
  BY <1>2
<1> QED
  BY <1>1, <1>5, <1>6
------------------------------------------------------------------------------
Distinct(s) == \A i, j \in DOMAIN s : s[i] = s[j] => i = j

\* s has every element of S once, and no other.
Enumerates(s, S) == s \in Seq(S) /\ Distinct(s) /\ \A x \in S : \E k \in DOMAIN s : s[k] = x

\* u is s, of length a, and behind it t, of length b.
Joins(u, E, s, a, t, b) ==
  /\ u \in Seq(E) /\ Len(u) = a + b /\ DOMAIN u = 1..a + b
  /\ \A k \in 1..a : u[k] = s[k]
  /\ \A k \in 1..b : u[a + k] = t[k]
  /\ \A k \in 1..a + b : k \in 1..a \/ \E e \in 1..b : k = a + e

\* So is the concatenation.
LEMMA Concatenated ==
  ASSUME NEW E, NEW a \in Nat, NEW b \in Nat, NEW s \in Seq(E), NEW t \in Seq(E), Len(s) = a, Len(t) = b
  PROVE  Joins(s \o t, E, s, a, t, b)
<1> DEFINE u == s \o t
<1>1. u \in Seq(E) /\ Len(u) = a + b
  OBVIOUS
<1>2. \A k \in 1..a : u[k] = s[k]
  OBVIOUS
<1>3. ASSUME NEW k \in 1..b
      PROVE  u[a + k] = t[k]
  <2>1. a + k \in 1..a + b /\ ~(a + k <= a) /\ (a + k) - a = k
    OBVIOUS
  <2>2. u[a + k] = t[(a + k) - a]
    BY <2>1
  <2> QED
    BY <2>1, <2>2
<1>4. ASSUME NEW k \in 1..a + b, k \notin 1..a
      PROVE  \E e \in 1..b : k = a + e
  <2>1. k - a \in 1..b /\ k = a + (k - a)
    BY <1>4
  <2> QED
    BY <2>1
<1>5. DOMAIN u = 1..a + b
  BY <1>1
<1> HIDE DEF u
<1>6. Joins(u, E, s, a, t, b)
  BY <1>1, <1>2, <1>3, <1>4, <1>5 DEF Joins
<1> QED
  BY <1>6 DEF u

\* The elements at some places come from these places, each from one.
LEMMA ElementsAtPlaces ==
  ASSUME NEW E, NEW s \in Seq(E), NEW P \in SUBSET (DOMAIN s)
  PROVE  \E place \in [DOMAIN ElementsAt(s, P) -> P] :
           /\ \A i, j \in DOMAIN ElementsAt(s, P) : place[i] = place[j] => i = j
           /\ \A x \in P : \E k \in DOMAIN ElementsAt(s, P) : place[k] = x
           /\ \A k \in DOMAIN ElementsAt(s, P) : ElementsAt(s, P)[k] = s[place[k]]
<1> DEFINE c == Cardinality(P)
           order == Ascending(P)
<1>1. P \in SUBSET Nat /\ IsFiniteSet(P)
  <2>1. Len(s) \in Nat /\ DOMAIN s = 1..Len(s)
    OBVIOUS
  <2>2. IsFiniteSet(1..Len(s))
    BY <2>1, FS_Interval
  <2>3. P \in SUBSET (1..Len(s)) /\ 1..Len(s) \subseteq Nat
    BY <2>1
  <2> QED
    BY <2>2, <2>3, FS_Subset
<1>2. /\ c \in Nat /\ DOMAIN order = 1..c
      /\ \A k \in 1..c : order[k] \in P
      /\ \A x \in P : \E k \in 1..c : order[k] = x
  BY <1>1, AscendingFacts
<1>3. order = [k \in 1..c |-> order[k]]
  BY <1>2 DEF Ascending
<1>4. order \in [1..c -> P]
  BY <1>2, <1>3
<1>5. ElementsAt(s, P) = [k \in 1..c |-> s[order[k]]]
  BY <1>2 DEF ElementsAt
<1> HIDE DEF order, c
<1>6. \A i, j \in 1..c : order[i] = order[j] => i = j
  <2>1. order \in Surjection(1..c, P)
    BY <1>2, <1>4 DEF Surjection
  <2>2. IsFiniteSet(1..c) /\ Cardinality(1..c) = c
    BY <1>2, FS_Interval
  <2>3. order \in Injection(1..c, P)
    BY <2>1, <2>2, FS_Surjection DEF c
  <2>4. \A i, j \in DOMAIN order : order[i] = order[j] => i = j
    BY <2>3 DEF Injection, IsInjective
  <2> QED
    BY <1>2, <2>4
<1>7. DOMAIN ElementsAt(s, P) = 1..c /\ \A k \in 1..c : ElementsAt(s, P)[k] = s[order[k]]
  BY <1>5
<1> QED
  <2>1. order \in [DOMAIN ElementsAt(s, P) -> P]
    BY <1>4, <1>7
  <2>2. /\ \A i, j \in DOMAIN ElementsAt(s, P) : order[i] = order[j] => i = j
        /\ \A x \in P : \E k \in DOMAIN ElementsAt(s, P) : order[k] = x
        /\ \A k \in DOMAIN ElementsAt(s, P) : ElementsAt(s, P)[k] = s[order[k]]
    BY <1>2, <1>6, <1>7, Zenon
  <2> QED
    BY <2>1, <2>2

\* A run takes the numbers up to the first gap.
LEMMA RunFromExact ==
  ASSUME NEW n \in Nat, NEW from \in 1..n + 1, NEW S \in SUBSET (1..n)
  PROVE  LET run == RunFrom(from, S)
         IN  /\ Len(run) \in Nat /\ DOMAIN run = 1..Len(run) /\ from + Len(run) <= n + 1
             /\ \A k \in 1..Len(run) : run[k] = from + k - 1 /\ run[k] \in S
             /\ from + Len(run) \notin S
             /\ \A x \in 1..n : x >= from /\ from..x \subseteq S => x - from + 1 \in 1..Len(run)
<1> DEFINE T == {k \in S \cup {from - 1} : from..k \subseteq S}
           end == Max(T)
<1>1. T \in SUBSET 0..n
  <2>1. from - 1 \in 0..n /\ S \subseteq 0..n
    OBVIOUS
  <2>2. T \subseteq S \cup {from - 1}
    OBVIOUS
  <2> HIDE DEF T
  <2> QED
    BY <2>1, <2>2
<1>2. from - 1 \in T
  <2>1. from..(from - 1) = {}
    OBVIOUS
  <2> QED
    BY <2>1
<1>3. end \in T /\ end >= from - 1 /\ \A k \in T : end >= k
  <2> HIDE DEF T
  <2> QED
    BY <1>1, <1>2, MaxOf
<1>4. from..end \subseteq S
  BY <1>3
<1>5. \A x \in S : from..x \subseteq S => x \in T
  OBVIOUS
<1>6. RunFrom(from, S) = [k \in 1..end - from + 1 |-> from + k - 1]
  BY DEF RunFrom
<1> DEFINE len == end - from + 1
<1>7. end \in 0..n /\ len \in Nat /\ from + len <= n + 1 /\ from + len = end + 1
  <2> HIDE DEF T, end
  <2> QED
    BY <1>1, <1>3
<1> HIDE DEF T, end
<1>8. Len(RunFrom(from, S)) = len /\ DOMAIN RunFrom(from, S) = 1..len
  <2> HIDE DEF len
  <2>1. RunFrom(from, S) = [k \in 1..len |-> from + k - 1]
    BY <1>6 DEF len
  <2> QED
    BY <1>7, <2>1
<1>9. \A k \in 1..len : RunFrom(from, S)[k] = from + k - 1 /\ from + k - 1 \in S
  <2> TAKE k \in 1..len
  <2>1. from + k - 1 \in from..end
    BY <1>7
  <2> QED
    BY <1>4, <1>6, <2>1
<1>10. end + 1 \notin S
  <2> SUFFICES ASSUME end + 1 \in S PROVE FALSE
    OBVIOUS
  <2>1. \A x \in from..end + 1 : x \in from..end \/ x = end + 1
    BY <1>7
  <2>2. end + 1 \in T
    BY <1>4, <1>5, <2>1
  <2> QED
    BY <1>3, <1>7, <2>2
<1>11. \A x \in 1..n : x >= from /\ from..x \subseteq S => x - from + 1 \in 1..len
  <2> SUFFICES ASSUME NEW x \in 1..n, x >= from, from..x \subseteq S
               PROVE  x - from + 1 \in 1..len
    OBVIOUS
  <2>1. x \in from..x
    OBVIOUS
  <2>2. end >= x
    BY <1>3, <1>5, <2>1
  <2> QED
    BY <1>7, <2>2
<1> QED
  BY <1>7, <1>8, <1>9, <1>10, <1>11

\* The run behind place i.
LEMMA RunBehind ==
  ASSUME NEW n \in Nat, NEW i \in 1..n, NEW S \in SUBSET (1..n)
  PROVE  LET run == RunFrom(i + 1, S)
         IN  /\ Len(run) \in Nat /\ DOMAIN run = 1..Len(run)
             /\ \A k \in 1..Len(run) : run[k] = i + k /\ run[k] \in S
             /\ \A x \in 1..n : x > i /\ i + 1..x \subseteq S => x - i \in 1..Len(run)
<1> DEFINE from == i + 1
           run == RunFrom(from, S)
           len == Len(run)
<1>1. from \in 1..n + 1
  OBVIOUS
<1>2. from = i + 1
  OBVIOUS
<1> HIDE DEF from
<1>3. /\ len \in Nat /\ DOMAIN run = 1..len
      /\ \A k \in 1..len : run[k] = from + k - 1 /\ run[k] \in S
      /\ \A x \in 1..n : x >= from /\ from..x \subseteq S => x - from + 1 \in 1..len
  BY <1>1, RunFromExact
<1> HIDE DEF len
<1>4. \A k \in 1..len : run[k] = i + k /\ run[k] \in S
  <2> TAKE k \in 1..len
  <2>1. run[k] = from + k - 1 /\ run[k] \in S
    BY <1>3
  <2>2. from + k - 1 = i + k
    BY <1>2, <1>3
  <2> QED
    BY <2>1, <2>2
<1>5. \A x \in 1..n : x > i /\ from..x \subseteq S => x - i \in 1..len
  <2> TAKE x \in 1..n
  <2>1. x > i => x >= from
    BY <1>2
  <2>2. x - from + 1 = x - i
    BY <1>2
  <2> QED
    BY <1>3, <2>1, <2>2
<1> QED
  BY <1>3, <1>4, <1>5 DEF from, len

\* Row x of the left side and row y of the right one are joined at <<i, j>>.
OnHook(i, j, joinable, x, y) ==
  \/ x = i /\ y = j
  \/ y = j /\ x > i /\ \A z \in i + 1..x : <<z, j>> \in joinable
  \/ x = i /\ y > j /\ \A z \in j + 1..y : <<i, z>> \in joinable

\* s has the pairs of the hook at <<i, j>>, each once.
Hooked(s, m, n, i, j, joinable) ==
  /\ s \in Seq(Rows2(m, n))
  /\ Distinct(s)
  /\ \A k \in DOMAIN s : /\ s[k] = <<i, j>> \/ s[k] \in joinable
                         /\ s[k][1] = i \/ s[k][2] = j
                         /\ s[k][1] >= i /\ s[k][2] >= j
  /\ \A x \in 1..m, y \in 1..n : OnHook(i, j, joinable, x, y) => \E k \in DOMAIN s : s[k] = <<x, y>>

\* An equal pair is joined with what follows it on either side, each pair once.
LEMMA JoinedAtExact ==
  ASSUME NEW m \in Nat, NEW n \in Nat, NEW i \in 1..m, NEW j \in 1..n, NEW joinable \in SUBSET Rows2(m, n)
  PROVE  Hooked(JoinedAt(i, j, joinable), m, n, i, j, joinable)
<1> DEFINE lefts == LeftRun(i + 1, j, joinable)
           rights == RightRun(i, j + 1, joinable)
           L == {p[1] : p \in {q \in joinable : q[2] = j}}
           R == {p[2] : p \in {q \in joinable : q[1] = i}}
           a == Len(lefts)
           b == Len(rights)
<1>1. /\ L \in SUBSET (1..m) /\ \A x \in 1..m : x \in L <=> <<x, j>> \in joinable
      /\ R \in SUBSET (1..n) /\ \A y \in 1..n : y \in R <=> <<i, y>> \in joinable
  <2>1. \A q \in joinable : q = <<q[1], q[2]>> /\ q[1] \in 1..m /\ q[2] \in 1..n
    BY DEF Rows2
  <2> QED
    BY <2>1
<1>2. lefts = RunFrom(i + 1, L) /\ rights = RunFrom(j + 1, R)
  BY DEF LeftRun, RightRun
<1> HIDE DEF L, R, lefts, rights
<1>3. /\ a \in Nat /\ DOMAIN lefts = 1..a
      /\ \A k \in 1..a : lefts[k] = i + k /\ lefts[k] \in L
      /\ \A x \in 1..m : x > i /\ i + 1..x \subseteq L => x - i \in 1..a
  <2>1. L \in SUBSET (1..m)
    BY <1>1
  <2> DEFINE run == RunFrom(i + 1, L)
  <2>2. /\ Len(run) \in Nat /\ DOMAIN run = 1..Len(run)
        /\ \A k \in 1..Len(run) : run[k] = i + k /\ run[k] \in L
        /\ \A x \in 1..m : x > i /\ i + 1..x \subseteq L => x - i \in 1..Len(run)
    BY <2>1, RunBehind
  <2>3. run = lefts
    BY <1>2
  <2> HIDE DEF run
  <2> QED
    BY <2>2, <2>3
<1>4. /\ b \in Nat /\ DOMAIN rights = 1..b
      /\ \A k \in 1..b : rights[k] = j + k /\ rights[k] \in R
      /\ \A y \in 1..n : y > j /\ j + 1..y \subseteq R => y - j \in 1..b
  BY <1>1, <1>2, RunBehind
<1>0. a \in Nat /\ b \in Nat
  BY <1>3, <1>4
<1> HIDE DEF a, b
<1> DEFINE s1 == << <<i, j>> >>
           s2 == [k \in DOMAIN lefts |-> <<lefts[k], j>>]
           s3 == [k \in DOMAIN rights |-> <<i, rights[k]>>]
           s == s1 \o s2 \o s3
<1>5. JoinedAt(i, j, joinable) = s
  BY DEF JoinedAt, lefts, rights
<1>6. /\ s1 \in Seq(Rows2(m, n)) /\ Len(s1) = 1 /\ s1[1] = <<i, j>>
      /\ s2 \in Seq(Rows2(m, n)) /\ Len(s2) = a /\ \A k \in 1..a : s2[k] = <<i + k, j>> /\ s2[k] \in joinable
      /\ s3 \in Seq(Rows2(m, n)) /\ Len(s3) = b /\ \A k \in 1..b : s3[k] = <<i, j + k>> /\ s3[k] \in joinable
  <2>1. <<i, j>> \in Rows2(m, n)
    BY DEF Rows2
  <2>2. \A k \in 1..a : s2[k] = <<i + k, j>> /\ s2[k] \in joinable /\ s2[k] \in Rows2(m, n)
    BY <1>1, <1>3
  <2>3. \A k \in 1..b : s3[k] = <<i, j + k>> /\ s3[k] \in joinable /\ s3[k] \in Rows2(m, n)
    BY <1>1, <1>4
  <2>4. s2 \in [1..a -> Rows2(m, n)] /\ s3 \in [1..b -> Rows2(m, n)]
    BY <1>3, <1>4, <2>2, <2>3
  <2>5. s2 \in Seq(Rows2(m, n)) /\ Len(s2) = a /\ s3 \in Seq(Rows2(m, n)) /\ Len(s3) = b
    <3> HIDE DEF s2, s3
    <3> QED
      BY <1>3, <1>4, <2>4, SeqDef
  <2> QED
    BY <2>1, <2>2, <2>3, <2>5
<1> HIDE DEF s1, s2, s3
<1>7. /\ s \in Seq(Rows2(m, n)) /\ DOMAIN s = 1..1 + a + b
      /\ s[1] = <<i, j>>
      /\ \A k \in 1..a : s[1 + k] = <<i + k, j>> /\ s[1 + k] \in joinable
      /\ \A k \in 1..b : s[1 + a + k] = <<i, j + k>> /\ s[1 + a + k] \in joinable
  <2> DEFINE t == s1 \o s2
  <2>1. /\ t \in Seq(Rows2(m, n)) /\ Len(t) = 1 + a
        /\ \A k \in 1..1 : t[k] = s1[k]
        /\ \A k \in 1..a : t[1 + k] = s2[k]
    <3>1. s1 \in Seq(Rows2(m, n)) /\ s2 \in Seq(Rows2(m, n)) /\ Len(s1) = 1 /\ Len(s2) = a
      BY <1>6
    <3>2. Joins(t, Rows2(m, n), s1, 1, s2, a)
      BY <1>0, <3>1, Concatenated
    <3> HIDE DEF t
    <3> QED
      BY <3>2 DEF Joins
  <2> HIDE DEF t
  <2>2. /\ s \in Seq(Rows2(m, n)) /\ DOMAIN s = 1..1 + a + b
        /\ \A k \in 1..1 + a : s[k] = t[k]
        /\ \A k \in 1..b : s[1 + a + k] = s3[k]
    <3>1. s = t \o s3
      BY DEF t
    <3> HIDE DEF s
    <3> DEFINE c == 1 + a
    <3> HIDE DEF c
    <3>2. /\ s \in Seq(Rows2(m, n)) /\ DOMAIN s = 1..c + b
          /\ \A k \in 1..c : s[k] = t[k]
          /\ \A k \in 1..b : s[c + k] = s3[k]
      <4>1. Len(t) = c
        BY <2>1 DEF c
      <4>2. t \in Seq(Rows2(m, n)) /\ s3 \in Seq(Rows2(m, n)) /\ Len(s3) = b
        BY <1>6, <2>1
      <4>3. c \in Nat
        BY <1>0 DEF c
      <4>4. Joins(t \o s3, Rows2(m, n), t, c, s3, b)
        BY <1>0, <4>1, <4>2, <4>3, Concatenated
      <4>5. Joins(s, Rows2(m, n), t, c, s3, b)
        BY <3>1, <4>4
      <4> QED
        BY <4>5 DEF Joins
    <3> QED
      BY <3>2 DEF c
  <2> HIDE DEF s
  <2>3. s[1] = <<i, j>>
    <3>1. 1 \in 1..1 + a /\ 1 \in 1..1
      BY <1>0
    <3> QED
      BY <1>6, <2>1, <2>2, <3>1
  <2>4. ASSUME NEW k \in 1..a PROVE s[1 + k] = s2[k]
    <3>1. 1 + k \in 1..1 + a
      BY <1>0
    <3> QED
      BY <2>1, <2>2, <3>1
  <2> QED
    BY <1>6, <2>2, <2>3, <2>4
<1> HIDE DEF s
<1>8. ASSUME NEW k \in DOMAIN s
      PROVE  \/ k = 1
             \/ \E e \in 1..a : k = 1 + e
             \/ \E e \in 1..b : k = 1 + a + e
  <2>1. k \in 1..1 + a + b
    BY <1>7
  <2>2. CASE k > 1 /\ k <= 1 + a
    <3>1. k - 1 \in 1..a /\ k = 1 + (k - 1)
      BY <1>0, <2>1, <2>2
    <3> QED
      BY <3>1
  <2>3. CASE k > 1 + a
    <3>1. k - 1 - a \in 1..b /\ k = 1 + a + (k - 1 - a)
      BY <1>0, <2>1, <2>3
    <3> QED
      BY <3>1
  <2> QED
    BY <1>0, <2>1, <2>2, <2>3
<1>9. \A k \in DOMAIN s : /\ s[k] = <<i, j>> \/ s[k] \in joinable
                          /\ s[k][1] = i \/ s[k][2] = j
                          /\ s[k][1] >= i /\ s[k][2] >= j
  <2> TAKE k \in DOMAIN s
  <2>1. CASE k = 1
    BY <1>7, <2>1
  <2>2. ASSUME NEW e \in 1..a, k = 1 + e
        PROVE  s[k] \in joinable /\ s[k][1] >= i /\ s[k][2] = j
    BY <1>3, <1>7, <2>2
  <2>3. ASSUME NEW e \in 1..b, k = 1 + a + e
        PROVE  s[k] \in joinable /\ s[k][1] = i /\ s[k][2] >= j
    BY <1>4, <1>7, <2>3
  <2> QED
    BY <1>8, <2>1, <2>2, <2>3
<1>10. ASSUME NEW x \in 1..m, NEW y \in 1..n, OnHook(i, j, joinable, x, y)
       PROVE  \E k \in DOMAIN s : s[k] = <<x, y>>
  <2>1. CASE x = i /\ y = j
    <3>1. 1 \in DOMAIN s
      BY <1>0, <1>7
    <3> QED
      BY <1>7, <2>1, <3>1
  <2>2. CASE y = j /\ x > i /\ \A z \in i + 1..x : <<z, j>> \in joinable
    <3>1. i + 1..x \subseteq L
      <4> SUFFICES ASSUME NEW z \in i + 1..x PROVE z \in L
        OBVIOUS
      <4>1. z \in 1..m /\ <<z, j>> \in joinable
        BY <2>2
      <4> QED
        BY <1>1, <4>1
    <3> DEFINE e == x - i
    <3>2. e \in 1..a
      BY <1>3, <2>2, <3>1
    <3>3. i + e = x
      OBVIOUS
    <3> HIDE DEF e
    <3>4. 1 + e \in DOMAIN s
      BY <1>0, <1>7, <3>2
    <3>5. s[1 + e] = <<i + e, j>>
      BY <1>7, <3>2
    <3> QED
      BY <2>2, <3>3, <3>4, <3>5
  <2>3. CASE x = i /\ y > j /\ \A z \in j + 1..y : <<i, z>> \in joinable
    <3>1. j + 1..y \subseteq R
      <4> SUFFICES ASSUME NEW z \in j + 1..y PROVE z \in R
        OBVIOUS
      <4>1. z \in 1..n /\ <<i, z>> \in joinable
        BY <2>3
      <4> QED
        BY <1>1, <4>1
    <3> DEFINE e == y - j
    <3>2. e \in 1..b
      BY <1>4, <2>3, <3>1
    <3>3. j + e = y
      OBVIOUS
    <3> HIDE DEF e
    <3>4. 1 + a + e \in DOMAIN s
      BY <1>0, <1>7, <3>2
    <3>5. s[1 + a + e] = <<i, j + e>>
      BY <1>7, <3>2
    <3> QED
      BY <2>3, <3>3, <3>4, <3>5
  <2> QED
    BY <1>10, <2>1, <2>2, <2>3 DEF OnHook
<1>11. Distinct(s)
  <2> DEFINE at(k) == IF k <= 1 + a THEN <<i + (k - 1), j>> ELSE <<i, j + (k - 1 - a)>>
  <2>1. \A k \in DOMAIN s : s[k] = at(k)
    <3> TAKE k \in DOMAIN s
    <3>1. CASE k = 1
      <4>1. k <= 1 + a /\ i + (k - 1) = i
        BY <1>0, <3>1
      <4> QED
        BY <1>7, <3>1, <4>1
    <3>2. ASSUME NEW e \in 1..a, k = 1 + e PROVE s[k] = at(k)
      <4>1. k - 1 = e /\ k <= 1 + a
        BY <1>0, <3>2
      <4>2. s[k] = <<i + e, j>>
        BY <1>7, <3>2
      <4> QED
        BY <4>1, <4>2
    <3>3. ASSUME NEW e \in 1..b, k = 1 + a + e PROVE s[k] = at(k)
      <4>1. k - 1 - a = e /\ ~(k <= 1 + a)
        BY <1>0, <3>3
      <4>2. s[k] = <<i, j + e>>
        BY <1>7, <3>3
      <4> QED
        BY <4>1, <4>2
    <3> QED
      BY <1>8, <3>1, <3>2, <3>3
  <2>2. \A k, e \in 1..1 + a + b : at(k) = at(e) => k = e
    BY <1>0
  <2>3. ASSUME NEW k \in DOMAIN s, NEW e \in DOMAIN s, s[k] = s[e]
        PROVE  k = e
    <3>1. at(k) = at(e) /\ k \in 1..1 + a + b /\ e \in 1..1 + a + b
      <4> HIDE DEF at
      <4> QED
        BY <1>7, <2>1, <2>3
    <3> HIDE DEF at
    <3> QED
      BY <2>2, <3>1
  <2> QED
    BY <2>3 DEF Distinct
<1>12. Hooked(s, m, n, i, j, joinable)
  BY <1>7, <1>9, <1>10, <1>11 DEF Hooked
<1> QED
  BY <1>5, <1>12
------------------------------------------------------------------------------
LEMMA JoinsDistinct ==
  ASSUME NEW u, NEW E, NEW s, NEW a \in Nat, NEW t, NEW b \in Nat, Joins(u, E, s, a, t, b),
         DOMAIN s = 1..a, DOMAIN t = 1..b, Distinct(s), Distinct(t),
         \A i \in 1..a, j \in 1..b : s[i] # t[j]
  PROVE  Distinct(u)
<1>1. /\ DOMAIN u = 1..a + b
      /\ \A k \in 1..a : u[k] = s[k]
      /\ \A k \in 1..b : u[a + k] = t[k]
      /\ \A k \in 1..a + b : k \in 1..a \/ \E e \in 1..b : k = a + e
  BY DEF Joins
<1>2. /\ \A i, j \in 1..a : s[i] = s[j] => i = j
      /\ \A i, j \in 1..b : t[i] = t[j] => i = j
  BY DEF Distinct
<1>3. ASSUME NEW k \in DOMAIN u, NEW e \in DOMAIN u, u[k] = u[e]
      PROVE  k = e
  <2>1. /\ k \in 1..a \/ \E f \in 1..b : k = a + f
        /\ e \in 1..a \/ \E f \in 1..b : e = a + f
    BY <1>1
  <2>2. CASE k \in 1..a /\ e \in 1..a
    <3>1. s[k] = s[e]
      BY <1>1, <1>3, <2>2
    <3> QED
      BY <1>2, <2>2, <3>1, Zenon
  <2>3. ASSUME NEW f \in 1..b, k \in 1..a, e = a + f
        PROVE  FALSE
    <3>1. s[k] = t[f]
      BY <1>1, <1>3, <2>3
    <3> QED
      BY <2>3, <3>1
  <2>4. ASSUME NEW f \in 1..b, e \in 1..a, k = a + f
        PROVE  FALSE
    <3>1. s[e] = t[f]
      BY <1>1, <1>3, <2>4
    <3> QED
      BY <2>4, <3>1
  <2>5. ASSUME NEW f \in 1..b, NEW g \in 1..b, k = a + f, e = a + g
        PROVE  k = e
    <3>1. t[f] = t[g]
      BY <1>1, <1>3, <2>5
    <3>2. f = g
      BY <1>2, <3>1, Zenon
    <3> QED
      BY <2>5, <3>2
  <2> QED
    BY <2>1, <2>2, <2>3, <2>4, <2>5
<1> QED
  BY <1>3 DEF Distinct

\* No two of the sequences have an element in common.
Separate(seqs) ==
  \A d, e \in DOMAIN seqs : d < e =>
    \A i \in DOMAIN seqs[d], j \in DOMAIN seqs[e] : seqs[d][i] # seqs[e][j]

LEMMA FlattenDistinct ==
  ASSUME NEW E, NEW seqs \in Seq(Seq(E)), \A d \in DOMAIN seqs : Distinct(seqs[d]), Separate(seqs)
  PROVE  Distinct(FlattenSeq(seqs))
<1> DEFINE n == Len(seqs)
<1>1. PICK h : Flattening(h, E, seqs) /\ FlattenSeq(seqs) = h[n]
  BY FlattenSteps
<1>2. /\ n \in Nat /\ DOMAIN seqs = 1..n
      /\ h \in [0..n -> Seq(E)] /\ h[0] = << >>
      /\ \A k \in 1..n : h[k] = h[k - 1] \o seqs[k]
      /\ \A k \in 1..n : seqs[k] \in Seq(E)
  <2>1. n \in Nat /\ DOMAIN seqs = 1..n /\ \A k \in 1..n : seqs[k] \in Seq(E)
    OBVIOUS
  <2> QED
    BY <1>1, <2>1 DEF Flattening
<1> HIDE DEF n
<1> DEFINE Comes(k) == \A i \in DOMAIN h[k] : \E d \in 1..k : \E j \in DOMAIN seqs[d] : h[k][i] = seqs[d][j]
           S == {k \in 0..n : Distinct(h[k]) /\ Comes(k)}
<1>3. 0 \in S
  <2>1. DOMAIN h[0] = {} /\ 0 \in 0..n
    BY <1>2
  <2> QED
    BY <2>1 DEF Distinct
<1>4. ASSUME NEW k \in 0..n, k < n, k \in S
      PROVE  k + 1 \in S
  <2> DEFINE s == h[k]
             t == seqs[k + 1]
             u == h[k + 1]
             a == Len(s)
             b == Len(t)
  <2>1. k + 1 \in 1..n /\ k + 1 \in 0..n /\ (k + 1) - 1 = k /\ k \in Nat
    BY <1>2, <1>4
  <2>2. s \in Seq(E) /\ t \in Seq(E) /\ a \in Nat /\ b \in Nat /\ DOMAIN s = 1..a /\ DOMAIN t = 1..b
    <3>1. s \in Seq(E) /\ t \in Seq(E)
      BY <1>2, <2>1
    <3> HIDE DEF s, t
    <3> QED
      BY <3>1
  <2>3. u = s \o t
    <3>1. h[k + 1] = h[(k + 1) - 1] \o seqs[k + 1]
      BY <1>2, <2>1
    <3> QED
      BY <2>1, <3>1
  <2>4. Distinct(s) /\ Comes(k)
    BY <1>4
  <2>5. Distinct(t)
    BY <1>2, <2>1
  <2>6. ASSUME NEW i \in 1..a, NEW j \in 1..b
        PROVE  s[i] # t[j]
    <3>1. PICK d \in 1..k : \E f \in DOMAIN seqs[d] : s[i] = seqs[d][f]
      BY <2>2, <2>4
    <3>2. PICK f \in DOMAIN seqs[d] : s[i] = seqs[d][f]
      BY <3>1
    <3>3. d \in DOMAIN seqs /\ k + 1 \in DOMAIN seqs /\ d < k + 1
      BY <1>2, <2>1
    <3>4. j \in DOMAIN seqs[k + 1]
      BY <2>2
    <3> QED
      BY <3>2, <3>3, <3>4 DEF Separate
  <2> HIDE DEF s, t, u, a, b
  <2>7. Joins(u, E, s, a, t, b)
    <3>1. Joins(s \o t, E, s, a, t, b)
      BY <2>2, Concatenated DEF a, b
    <3> QED
      BY <2>3, <3>1
  <2>8. Distinct(u)
    BY <2>2, <2>4, <2>5, <2>6, <2>7, JoinsDistinct
  <2>9. ASSUME NEW i \in DOMAIN u
        PROVE  \E d \in 1..k + 1 : \E j \in DOMAIN seqs[d] : u[i] = seqs[d][j]
    <3>1. /\ i \in 1..a \/ \E e \in 1..b : i = a + e
          /\ \A e \in 1..a : u[e] = s[e]
          /\ \A e \in 1..b : u[a + e] = t[e]
      BY <2>7 DEF Joins
    <3>2. CASE i \in 1..a
      <4>1. i \in DOMAIN h[k] /\ u[i] = h[k][i]
        BY <2>2, <3>1, <3>2 DEF s
      <4>2. PICK d \in 1..k : \E j \in DOMAIN seqs[d] : h[k][i] = seqs[d][j]
        BY <2>4, <4>1
      <4>3. d \in 1..k + 1
        BY <2>1
      <4> QED
        BY <4>1, <4>2, <4>3
    <3>3. ASSUME NEW e \in 1..b, i = a + e
          PROVE  \E d \in 1..k + 1 : \E j \in DOMAIN seqs[d] : u[i] = seqs[d][j]
      <4>1. u[i] = seqs[k + 1][e] /\ e \in DOMAIN seqs[k + 1]
        BY <2>2, <3>1, <3>3 DEF t
      <4>2. k + 1 \in 1..k + 1
        BY <2>1
      <4> QED
        BY <4>1, <4>2
    <3> QED
      BY <3>1, <3>2, <3>3
  <2>10. Comes(k + 1)
    BY <2>9 DEF u
  <2> QED
    BY <2>1, <2>8, <2>10 DEF u
<1>5. n \in S
  <2> HIDE DEF S
  <2>1. 0..n \subseteq S
    BY <1>2, <1>3, <1>4, InductionUpto
  <2> QED
    BY <1>2, <2>1
<1> QED
  BY <1>1, <1>5 DEF n
------------------------------------------------------------------------------
\* A path goes down and to the right, and both after two rows that are equal.
Descends(path, order) ==
  /\ \A k, e \in 1..Len(path) : k <= e => path[k][1] <= path[e][1] /\ path[k][2] <= path[e][2]
  /\ \A k, e \in 1..Len(path) :
       k < e /\ order[path[k]] # 1 /\ order[path[k]] # -1 => path[k][1] < path[e][1] /\ path[k][2] < path[e][2]

\* One step of a path.
LEMMA PathStep ==
  ASSUME NEW m \in Nat, NEW n \in Nat, NEW order, NEW path, IsMergePath(path, m, n, order, <<1, 1>>),
         NEW k \in 1..Len(path) - 1
  PROVE  LET p == path[k]
             q == path[k + 1]
         IN  /\ p \in Rows2(m, n) /\ p[1] \in 1..m /\ p[2] \in 1..n /\ p = <<p[1], p[2]>>
             /\ q[1] \in 1..m + 1 /\ q[2] \in 1..n + 1
             /\ order[p] = 1 => q[1] = p[1] /\ q[2] = p[2] + 1
             /\ order[p] = -1 => q[1] = p[1] + 1 /\ q[2] = p[2]
             /\ order[p] # 1 /\ order[p] # -1 => q[1] = p[1] + 1 /\ q[2] = p[2] + 1
<1>1. /\ path \in Seq(Places(m, n)) /\ path[k] \in Rows2(m, n) /\ path[k + 1] = NextPlace(path[k], order)
      /\ Len(path) \in Nat /\ Len(path) >= 1
  BY DEF IsMergePath, IsPath
<1>2. path[k + 1] \in Places(m, n)
  <2>1. k + 1 \in 1..Len(path)
    BY <1>1
  <2> QED
    BY <1>1, <2>1
<1>3. path[k + 1][1] \in 1..m + 1 /\ path[k + 1][2] \in 1..n + 1
  BY <1>2 DEF Places
<1>4. path[k][1] \in 1..m /\ path[k][2] \in 1..n /\ path[k] = <<path[k][1], path[k][2]>>
  BY <1>1 DEF Rows2
<1>5. /\ order[path[k]] = 1 => NextPlace(path[k], order) = <<path[k][1], path[k][2] + 1>>
      /\ order[path[k]] = -1 => NextPlace(path[k], order) = <<path[k][1] + 1, path[k][2]>>
      /\ order[path[k]] # 1 /\ order[path[k]] # -1 => NextPlace(path[k], order) = <<path[k][1] + 1, path[k][2] + 1>>
  <2>1. order[path[k]] = -1 => order[path[k]] # 1
    OBVIOUS
  <2> QED
    BY <2>1 DEF NextPlace
<1> QED
  BY <1>1, <1>3, <1>4, <1>5

LEMMA PathDescends ==
  ASSUME NEW m \in Nat, NEW n \in Nat, NEW order, NEW path, IsMergePath(path, m, n, order, <<1, 1>>)
  PROVE  Descends(path, order)
<1> DEFINE len == Len(path)
<1>1. /\ len \in Nat /\ len >= 1
      /\ \A k \in 1..len : path[k][1] \in Nat /\ path[k][2] \in Nat
  <2>1. path \in Seq(Places(m, n)) /\ Len(path) \in Nat /\ Len(path) >= 1
    BY DEF IsMergePath, IsPath
  <2>2. \A k \in 1..len : path[k] \in Places(m, n)
    BY <2>1
  <2> QED
    BY <2>1, <2>2 DEF Places
<1>2. ASSUME NEW k \in 1..len - 1
      PROVE  /\ path[k + 1][1] = path[k][1] \/ path[k + 1][1] = path[k][1] + 1
             /\ path[k + 1][2] = path[k][2] \/ path[k + 1][2] = path[k][2] + 1
             /\ order[path[k]] # 1 /\ order[path[k]] # -1 =>
                  path[k + 1][1] = path[k][1] + 1 /\ path[k + 1][2] = path[k][2] + 1
  BY PathStep
<1> HIDE DEF len
<1> DEFINE Above(e) == \A k \in 1..e : path[k][1] <= path[e][1] /\ path[k][2] <= path[e][2]
           S == {e \in 0..len : Above(e)}
<1>3. 0 \in S
  <2>1. 1..0 = {} /\ 0 \in 0..len
    BY <1>1
  <2> QED
    BY <2>1
<1>4. ASSUME NEW e \in 0..len, e < len, e \in S
      PROVE  e + 1 \in S
  <2>1. e + 1 \in 0..len /\ e + 1 \in 1..len
    BY <1>1, <1>4
  <2>2. ASSUME NEW k \in 1..e + 1
        PROVE  path[k][1] <= path[e + 1][1] /\ path[k][2] <= path[e + 1][2]
    <3>1. CASE k = e + 1
      BY <1>1, <2>1, <3>1
    <3>2. CASE k # e + 1
      <4>1. k \in 1..e /\ e \in 1..len - 1 /\ k \in 1..len /\ e \in 1..len
        BY <1>1, <1>4, <3>2
      <4>2. path[k][1] <= path[e][1] /\ path[k][2] <= path[e][2]
        BY <1>4, <4>1
      <4>3. /\ path[e + 1][1] = path[e][1] \/ path[e + 1][1] = path[e][1] + 1
            /\ path[e + 1][2] = path[e][2] \/ path[e + 1][2] = path[e][2] + 1
        BY <1>2, <4>1
      <4>4. path[k][1] \in Nat /\ path[k][2] \in Nat /\ path[e][1] \in Nat /\ path[e][2] \in Nat
        BY <1>1, <4>1
      <4> QED
        BY <4>2, <4>3, <4>4
    <3> QED
      BY <3>1, <3>2
  <2> QED
    BY <2>1, <2>2
<1>5. 0..len \subseteq S
  <2> HIDE DEF S
  <2> QED
    BY <1>1, <1>3, <1>4, InductionUpto
<1>6. ASSUME NEW k \in 1..len, NEW e \in 1..len, k <= e
      PROVE  path[k][1] <= path[e][1] /\ path[k][2] <= path[e][2]
  <2>1. e \in 0..len /\ k \in 1..e
    BY <1>6
  <2> QED
    BY <1>5, <2>1
<1>7. ASSUME NEW k \in 1..len, NEW e \in 1..len, k < e, order[path[k]] # 1, order[path[k]] # -1
      PROVE  path[k][1] < path[e][1] /\ path[k][2] < path[e][2]
  <2>1. k \in 1..len - 1 /\ k + 1 \in 1..len /\ k + 1 <= e
    BY <1>1, <1>7
  <2>2. path[k + 1][1] = path[k][1] + 1 /\ path[k + 1][2] = path[k][2] + 1
    BY <1>2, <1>7, <2>1
  <2>3. path[k + 1][1] <= path[e][1] /\ path[k + 1][2] <= path[e][2]
    BY <1>6, <2>1
  <2>4. path[k][1] \in Nat /\ path[k][2] \in Nat /\ path[e][1] \in Nat /\ path[e][2] \in Nat
    BY <1>1
  <2> QED
    BY <2>2, <2>3, <2>4
<1> QED
  BY <1>6, <1>7 DEF Descends, len

\* Where a path leaves the rows that are not behind <<x, y>>.
LEMMA PathLeaves ==
  ASSUME NEW m \in Nat, NEW n \in Nat, NEW order, NEW path, IsMergePath(path, m, n, order, <<1, 1>>),
         NEW x \in 1..m, NEW y \in 1..n
  PROVE  \E k \in 1..Len(path) - 1 :
           /\ path[k][1] <= x /\ path[k][2] <= y
           /\ path[k + 1][1] > x \/ path[k + 1][2] > y
<1> DEFINE len == Len(path)
           T == {k \in 1..len : path[k][1] <= x /\ path[k][2] <= y}
           last == Max(T)
<1>1. /\ len \in Nat /\ len >= 1 /\ path[1] = <<1, 1>>
      /\ path[len][1] > m \/ path[len][2] > n
      /\ \A k \in 1..len : path[k][1] \in Nat /\ path[k][2] \in Nat
  <2>1. path \in Seq(Places(m, n)) /\ Len(path) \in Nat /\ Len(path) >= 1
    BY DEF IsMergePath, IsPath
  <2>2. \A k \in 1..len : path[k] \in Places(m, n)
    BY <2>1
  <2>3. \A k \in 1..len : path[k][1] \in Nat /\ path[k][2] \in Nat
    BY <2>2 DEF Places
  <2> QED
    BY <2>1, <2>3 DEF IsMergePath
<1> HIDE DEF len
<1>2. 1 \in T
  BY <1>1
<1>3. last \in T /\ \A k \in T : last >= k
  <2>1. T \in SUBSET 0..len
    OBVIOUS
  <2> HIDE DEF T
  <2> QED
    BY <1>1, <1>2, <2>1, MaxOf
<1> HIDE DEF last
<1>4. last \in 1..len /\ path[last][1] <= x /\ path[last][2] <= y
  BY <1>3
<1>5. last # len
  <2> SUFFICES ASSUME last = len PROVE FALSE
    OBVIOUS
  <2>1. path[len][1] <= x /\ path[len][2] <= y /\ path[len][1] \in Nat /\ path[len][2] \in Nat
    BY <1>1, <1>4
  <2> QED
    BY <1>1, <2>1
<1>6. last \in 1..len - 1 /\ last + 1 \in 1..len /\ last + 1 > last
  BY <1>1, <1>4, <1>5
<1>7. last + 1 \notin T
  BY <1>3, <1>6
<1>8. path[last + 1][1] > x \/ path[last + 1][2] > y
  <2>1. path[last + 1][1] \in Nat /\ path[last + 1][2] \in Nat
    BY <1>1, <1>6
  <2> QED
    BY <1>6, <1>7, <2>1
<1> QED
  BY <1>4, <1>6, <1>8 DEF len
------------------------------------------------------------------------------
\* Keys in their order.
Sorted(l) == \A i, j \in DOMAIN l : i <= j => KeyLeq(l[i], l[j])

\* order compares the keys of two rows, and joinable has the pairs that are equal.
Compares(order, l, r, m, n) ==
  \A p \in Rows2(m, n) : order[p] = CompareWithoutNull(l[p[1]], r[p[2]])

HasEqual(joinable, l, r, m, n) == \A p \in Rows2(m, n) : l[p[1]] = r[p[2]] => p \in joinable

\* A place with equal keys on whose hook <<x, y>> is.
Reached(path, order, joinable, x, y) ==
  \E k \in 1..Len(path) - 1 :
    /\ order[path[k]] = 0
    /\ OnHook(path[k][1], path[k][2], joinable, x, y)

\* The loop passes every pair of equal keys on its row or column: a place
\* with equal keys whose run reaches it.
LEMMA PairOnHook ==
  ASSUME NEW d \in Nat, NEW m \in Nat, NEW n \in Nat,
         NEW l \in [1..m -> KeyOf(d)], NEW r \in [1..n -> KeyOf(d)], Sorted(l), Sorted(r),
         NEW order, Compares(order, l, r, m, n),
         NEW path, IsMergePath(path, m, n, order, <<1, 1>>),
         NEW joinable, HasEqual(joinable, l, r, m, n),
         NEW x \in 1..m, NEW y \in 1..n, l[x] = r[y]
  PROVE  Reached(path, order, joinable, x, y)
<1>1. PICK k \in 1..Len(path) - 1 :
           /\ path[k][1] <= x /\ path[k][2] <= y
           /\ path[k + 1][1] > x \/ path[k + 1][2] > y
  BY PathLeaves
<1> DEFINE p == path[k]
           q == path[k + 1]
           i == p[1]
           j == p[2]
<1>2. /\ p \in Rows2(m, n) /\ i \in 1..m /\ j \in 1..n
      /\ q[1] \in 1..m + 1 /\ q[2] \in 1..n + 1
      /\ order[p] = 1 => q[1] = i /\ q[2] = j + 1
      /\ order[p] = -1 => q[1] = i + 1 /\ q[2] = j
      /\ order[p] # 1 /\ order[p] # -1 => q[1] = i + 1 /\ q[2] = j + 1
  BY PathStep
<1>3. i <= x /\ j <= y /\ (q[1] > x \/ q[2] > y)
  BY <1>1
<1>4. order[p] = CompareWithoutNull(l[i], r[j])
  BY <1>2 DEF Compares
<1> HIDE DEF p, q, i, j
<1>5. /\ \A a, b \in KeyOf(d) : KeyLeq(a, b) /\ KeyLeq(b, a) => a = b
      /\ \A a, b, c \in KeyOf(d) : KeyLeq(a, b) /\ KeyLeq(b, c) => KeyLeq(a, c)
      /\ \A a, b \in KeyOf(d) : CompareWithoutNull(a, b) = 0 <=> a = b
      /\ \A a, b \in KeyOf(d) : CompareWithoutNull(a, b) = -1 <=> ~KeyLeq(b, a)
      /\ \A a, b \in KeyOf(d) : CompareWithoutNull(a, b) \in {-1, 0, 1}
  BY KeyOrder
<1>6. /\ \A a \in 1..m : l[a] \in KeyOf(d)
      /\ \A b \in 1..n : r[b] \in KeyOf(d)
      /\ \A a, b \in 1..m : a <= b => KeyLeq(l[a], l[b])
      /\ \A a, b \in 1..n : a <= b => KeyLeq(r[a], r[b])
  BY DEF Sorted
<1>7. KeyLeq(l[i], l[x]) /\ KeyLeq(r[j], r[y])
  BY <1>2, <1>3, <1>6
<1>8. order[p] # 1
  <2> SUFFICES ASSUME order[p] = 1 PROVE FALSE
    OBVIOUS
  <2>1. ~KeyLeq(l[i], r[j])
    BY <1>4 DEF KeyLeq
  <2>2. j = y
    BY <1>2, <1>3
  <2> QED
    BY <1>7, <2>1, <2>2
<1>9. order[p] # -1
  <2> SUFFICES ASSUME order[p] = -1 PROVE FALSE
    OBVIOUS
  <2>1. ~KeyLeq(r[j], l[i])
    BY <1>2, <1>4, <1>5, <1>6
  <2>2. i = x
    BY <1>2, <1>3
  <2> QED
    BY <1>7, <2>1, <2>2
<1>10. order[p] = 0 /\ l[i] = r[j]
  <2>1. l[i] \in KeyOf(d) /\ r[j] \in KeyOf(d)
    BY <1>2, <1>6
  <2>2. order[p] \in {-1, 0, 1}
    BY <1>4, <1>5, <2>1
  <2>3. order[p] = 0
    BY <1>8, <1>9, <2>2
  <2> QED
    BY <1>4, <1>5, <2>1, <2>3
<1>11. \A a \in 1..m, b \in 1..n : l[a] = r[b] => <<a, b>> \in joinable
  <2> TAKE a \in 1..m, b \in 1..n
  <2>1. <<a, b>> \in Rows2(m, n) /\ <<a, b>>[1] = a /\ <<a, b>>[2] = b
    BY DEF Rows2
  <2> QED
    BY <2>1 DEF HasEqual
<1>12. CASE i = x
  <2>1. ASSUME NEW z \in j + 1..y
        PROVE  <<i, z>> \in joinable
    <3>1. z \in 1..n /\ j <= z /\ z <= y
      BY <1>2, <2>1
    <3>2. KeyLeq(r[j], r[z]) /\ KeyLeq(r[z], r[y])
      BY <1>2, <1>6, <3>1
    <3>3. r[y] = r[j]
      BY <1>10, <1>12
    <3>4. r[z] = r[j]
      BY <1>2, <1>5, <1>6, <3>1, <3>2, <3>3
    <3> QED
      BY <1>2, <1>10, <1>11, <3>1, <3>4
  <2>2. j = y \/ y > j
    BY <1>2, <1>3
  <2>3. OnHook(i, j, joinable, x, y)
    BY <1>12, <2>1, <2>2 DEF OnHook
  <2> QED
    BY <1>10, <2>3 DEF Reached, p, i, j
<1>13. CASE i # x
  <2>1. j = y /\ x > i
    BY <1>2, <1>3, <1>8, <1>9, <1>13
  <2>2. ASSUME NEW z \in i + 1..x
        PROVE  <<z, j>> \in joinable
    <3>1. z \in 1..m /\ i <= z /\ z <= x
      BY <1>2, <2>2
    <3>2. KeyLeq(l[i], l[z]) /\ KeyLeq(l[z], l[x])
      BY <1>2, <1>6, <3>1
    <3>3. l[x] = l[i]
      BY <1>10, <2>1
    <3>4. l[z] = l[i]
      BY <1>2, <1>5, <1>6, <3>1, <3>2, <3>3
    <3> QED
      BY <1>2, <1>10, <1>11, <3>1, <3>4
  <2>3. OnHook(i, j, joinable, x, y)
    BY <2>1, <2>2 DEF OnHook
  <2> QED
    BY <1>10, <2>3 DEF Reached, p, i, j
<1> QED
  BY <1>12, <1>13

\* No key has a missing constant.
Known(d, l) == \A i \in DOMAIN l : \A k \in 1..d : l[i][k] # Null

\* The pairs of rows with equal keys.
EqualPairs(l, r, m, n) == {p \in Rows2(m, n) : l[p[1]] = r[p[2]]}

\* The merge join of EvalSubgoalNextWithoutUnknown gives every pair of rows
\* with equal keys, and each once.
THEOREM MergeJoinExact ==
  ASSUME NEW d \in Nat, NEW m \in Nat, NEW n \in Nat,
         NEW l \in [1..m -> KeyOf(d)], NEW r \in [1..n -> KeyOf(d)],
         Sorted(l), Sorted(r), Known(d, l), Known(d, r)
  PROVE  Enumerates(MergeJoin(l, r), EqualPairs(l, r, m, n))
<1> DEFINE rows == (DOMAIN l) \X (DOMAIN r)
           order == [p \in rows |-> Compare(l[p[1]], r[p[2]])]
           joinable == {p \in rows : l[p[1]] = r[p[2]]}
           joinAt(p) == IF order[p] = 0 THEN JoinedAt(p[1], p[2], joinable) ELSE << >>
           path == MergePath(m, n, order)
           at == [k \in Compared(path) |-> joinAt(path[k])]
<1>1. MergeJoin(l, r) = FlattenSeq(at)
  <2>1. Len(l) = m /\ Len(r) = n
    BY SeqDef
  <2> QED
    BY <2>1 DEF MergeJoin
<1>2. rows = Rows2(m, n)
  BY DEF Rows2
<1>3. /\ joinable \in SUBSET Rows2(m, n)
      /\ \A p \in Rows2(m, n) : p \in joinable <=> l[p[1]] = r[p[2]]
      /\ joinable = {p \in Rows2(m, n) : l[p[1]] = r[p[2]]}
  BY <1>2
<1>4. \A p \in Rows2(m, n) : order[p] = CompareWithoutNull(l[p[1]], r[p[2]])
  <2> TAKE p \in Rows2(m, n)
  <2>1. p[1] \in 1..m /\ p[2] \in 1..n
    BY DEF Rows2
  <2>2. l[p[1]] \in KeyOf(d) /\ r[p[2]] \in KeyOf(d)
    BY <2>1
  <2>3. \A k \in 1..d : l[p[1]][k] # Null /\ r[p[2]][k] # Null
    BY <2>1 DEF Known
  <2>4. Compare(l[p[1]], r[p[2]]) = CompareWithoutNull(l[p[1]], r[p[2]])
    BY <2>2, <2>3, CompareKnown
  <2> QED
    BY <1>2, <2>4
<1>5. \A p \in Rows2(m, n) : order[p] = 0 => p \in joinable
  <2> TAKE p \in Rows2(m, n)
  <2>1. p[1] \in 1..m /\ p[2] \in 1..n
    BY DEF Rows2
  <2>2. l[p[1]] \in KeyOf(d) /\ r[p[2]] \in KeyOf(d)
    BY <2>1
  <2>3. CompareWithoutNull(l[p[1]], r[p[2]]) = 0 => l[p[1]] = r[p[2]]
    BY <2>2, KeyOrder
  <2> QED
    BY <1>3, <1>4, <2>3
<1>6. IsPath(path, m, n) /\ IsMergePath(path, m, n, order, <<1, 1>>)
  BY MergePathFacts
<1> HIDE DEF rows, order, joinable, path
<1>7. Descends(path, order)
  BY <1>6, PathDescends
<1>8. /\ Len(path) \in Nat /\ Compared(path) = 1..Len(path) - 1
      /\ \A k \in Compared(path) : /\ path[k] \in Rows2(m, n)
                                   /\ path[k][1] \in 1..m /\ path[k][2] \in 1..n
                                   /\ path[k] = <<path[k][1], path[k][2]>>
  <2>1. Len(path) \in Nat /\ Compared(path) = 1..Len(path) - 1
    BY <1>6 DEF IsPath, Compared
  <2>2. \A k \in Compared(path) : path[k] \in Rows2(m, n)
    BY <1>6, <2>1 DEF IsPath
  <2>3. \A q \in Rows2(m, n) : q[1] \in 1..m /\ q[2] \in 1..n /\ q = <<q[1], q[2]>>
    BY DEF Rows2
  <2> QED
    BY <2>1, <2>2, <2>3
<1> DEFINE Good(s, p) ==
             /\ s \in Seq(joinable) /\ Distinct(s)
             /\ \A e \in DOMAIN s : /\ s[e][1] = p[1] \/ s[e][2] = p[2]
                                    /\ s[e][1] >= p[1] /\ s[e][2] >= p[2]
                                    /\ order[p] = 0
             /\ order[p] = 0 => \A x \in 1..m, y \in 1..n :
                  OnHook(p[1], p[2], joinable, x, y) => \E e \in DOMAIN s : s[e] = <<x, y>>
<1>9. ASSUME NEW k \in Compared(path)
      PROVE  Good(joinAt(path[k]), path[k])
  <2>1. CASE order[path[k]] # 0
    <3>1. joinAt(path[k]) = << >>
      BY <2>1
    <3> QED
      BY <2>1, <3>1 DEF Distinct
  <2>2. CASE order[path[k]] = 0
    <3> DEFINE s == joinAt(path[k])
               i == path[k][1]
               j == path[k][2]
    <3>1. s = JoinedAt(i, j, joinable)
      BY <2>2
    <3>2. i \in 1..m /\ j \in 1..n /\ <<i, j>> \in joinable
      BY <1>5, <1>8, <2>2
    <3> HIDE DEF s, i, j
    <3>3. /\ s \in Seq(Rows2(m, n))
          /\ Distinct(s)
          /\ \A e \in DOMAIN s : /\ s[e] = <<i, j>> \/ s[e] \in joinable
                                 /\ s[e][1] = i \/ s[e][2] = j
                                 /\ s[e][1] >= i /\ s[e][2] >= j
          /\ \A x \in 1..m, y \in 1..n : OnHook(i, j, joinable, x, y) => \E e \in DOMAIN s : s[e] = <<x, y>>
      <4>1. Hooked(JoinedAt(i, j, joinable), m, n, i, j, joinable)
        BY <1>3, <3>2, JoinedAtExact
      <4> QED
        BY <3>1, <4>1 DEF Hooked
    <3>4. s \in Seq(joinable)
      <4>1. \A e \in DOMAIN s : s[e] \in joinable
        BY <3>2, <3>3
      <4>2. Len(s) \in Nat /\ DOMAIN s = 1..Len(s) /\ s = [e \in 1..Len(s) |-> s[e]]
        BY <3>3
      <4>3. s \in [1..Len(s) -> joinable]
        BY <4>1, <4>2
      <4> QED
        BY <4>2, <4>3, SeqDef
    <3> QED
      BY <2>2, <3>3, <3>4 DEF s, i, j
  <2> QED
    BY <2>1, <2>2
<1> HIDE DEF joinAt
<1>10. at \in Seq(Seq(joinable)) /\ DOMAIN at = Compared(path) /\ \A k \in Compared(path) : at[k] = joinAt(path[k])
  <2>1. \A k \in Compared(path) : joinAt(path[k]) \in Seq(joinable)
    BY <1>9
  <2>2. Len(path) - 1 \in Nat
    BY <1>6 DEF IsPath
  <2> QED
    BY <1>8, <2>1, <2>2
<1> HIDE DEF at
<1>11. /\ \A k \in DOMAIN at : Good(at[k], path[k])
       /\ \A k \in DOMAIN at : Distinct(at[k])
  <2>1. \A k \in DOMAIN at : Good(at[k], path[k])
    <3> HIDE DEF Good
    <3> QED
      BY <1>9, <1>10
  <2> QED
    BY <2>1
<1>12. Separate(at)
  <2> SUFFICES ASSUME NEW k \in Compared(path), NEW e \in Compared(path), k < e,
                      NEW a \in DOMAIN at[k], NEW b \in DOMAIN at[e], at[k][a] = at[e][b]
               PROVE  FALSE
    BY <1>10 DEF Separate
  <2>1. /\ order[path[k]] = 0
        /\ at[k][a][1] = path[k][1] \/ at[k][a][2] = path[k][2]
    <3>1. Good(at[k], path[k])
      BY <1>10, <1>11
    <3> QED
      BY <3>1
  <2>2. at[e][b][1] >= path[e][1] /\ at[e][b][2] >= path[e][2]
    <3>1. Good(at[e], path[e])
      BY <1>10, <1>11
    <3> QED
      BY <3>1
  <2>3. path[k][1] < path[e][1] /\ path[k][2] < path[e][2]
    <3>1. k \in 1..Len(path) /\ e \in 1..Len(path) /\ order[path[k]] # 1 /\ order[path[k]] # -1
      BY <1>8, <2>1
    <3> QED
      BY <1>7, <2>1, <3>1 DEF Descends
  <2>4. path[k][1] \in Nat /\ path[e][1] \in Nat /\ path[k][2] \in Nat /\ path[e][2] \in Nat
    BY <1>8
  <2> QED
    BY <2>1, <2>2, <2>3, <2>4
<1>13. FlattenSeq(at) \in Seq(joinable) /\ Distinct(FlattenSeq(at))
  BY <1>10, <1>11, <1>12, FlattenDistinct, FlattenFacts
<1>14. ASSUME NEW p \in joinable
       PROVE  \E i \in DOMAIN FlattenSeq(at) : FlattenSeq(at)[i] = p
  <2>1. p \in Rows2(m, n) /\ l[p[1]] = r[p[2]]
    BY <1>3
  <2>2. p[1] \in 1..m /\ p[2] \in 1..n /\ p = <<p[1], p[2]>>
    BY <2>1 DEF Rows2
  <2>3. PICK k \in 1..Len(path) - 1 :
           /\ order[path[k]] = 0
           /\ OnHook(path[k][1], path[k][2], joinable, p[1], p[2])
    <3> DEFINE x == p[1]
               y == p[2]
    <3>1. x \in 1..m /\ y \in 1..n /\ l[x] = r[y]
      BY <2>1, <2>2
    <3> HIDE DEF x, y
    <3>2. Compares(order, l, r, m, n) /\ HasEqual(joinable, l, r, m, n)
      BY <1>3, <1>4 DEF Compares, HasEqual
    <3>3. Reached(path, order, joinable, x, y)
      BY <1>6, <3>1, <3>2, PairOnHook
    <3> QED
      BY <3>3 DEF Reached, x, y
  <2>4. PICK e \in DOMAIN at[k] : at[k][e] = p
    <3>1. Good(at[k], path[k])
      BY <1>8, <1>10, <1>11
    <3>2. \A x \in 1..m, y \in 1..n :
            OnHook(path[k][1], path[k][2], joinable, x, y) => \E e \in DOMAIN at[k] : at[k][e] = <<x, y>>
      BY <2>3, <3>1
    <3>3. \E e \in DOMAIN at[k] : at[k][e] = <<p[1], p[2]>>
      BY <2>2, <2>3, <3>2, Zenon
    <3> QED
      BY <2>2, <3>3
  <2>5. k \in DOMAIN at
    BY <1>8, <1>10
  <2> QED
    BY <1>10, <2>4, <2>5, FlattenFacts
<1> QED
  BY <1>1, <1>3, <1>13, <1>14 DEF Enumerates, EqualPairs
------------------------------------------------------------------------------
\* The right rows passed before a place are not above the left rows from it on.
Passed(path, l, r, m) ==
  \A k \in 1..Len(path) : \A i \in 1..m : \A j \in 1..path[k][2] - 1 :
    i >= path[k][1] => KeyLeq(r[j], l[i])

LEMMA PathPasses ==
  ASSUME NEW d \in Nat, NEW m \in Nat, NEW n \in Nat,
         NEW l \in [1..m -> KeyOf(d)], NEW r \in [1..n -> KeyOf(d)], Sorted(l), Sorted(r),
         NEW order, Compares(order, l, r, m, n),
         NEW path, IsMergePath(path, m, n, order, <<1, 1>>)
  PROVE  Passed(path, l, r, m)
<1> DEFINE len == Len(path)
           At(k) == \A i \in 1..m : \A j \in 1..path[k][2] - 1 : i >= path[k][1] => KeyLeq(r[j], l[i])
           S == {k \in 0..len : k # 0 => At(k)}
<1>1. len \in Nat /\ path[1] = <<1, 1>>
  BY DEF IsMergePath, IsPath
<1>2. /\ \A a, b \in KeyOf(d) : KeyLeq(a, b) \/ KeyLeq(b, a)
      /\ \A a, b, c \in KeyOf(d) : KeyLeq(a, b) /\ KeyLeq(b, c) => KeyLeq(a, c)
      /\ \A a, b \in KeyOf(d) : CompareWithoutNull(a, b) = -1 <=> ~KeyLeq(b, a)
  BY KeyOrder
<1>3. /\ \A a \in 1..m : l[a] \in KeyOf(d)
      /\ \A b \in 1..n : r[b] \in KeyOf(d)
      /\ \A a, b \in 1..m : a <= b => KeyLeq(l[a], l[b])
  BY DEF Sorted
<1>4. 0 \in S
  BY <1>1
<1>5. ASSUME NEW k \in 0..len, k < len, k \in S
      PROVE  k + 1 \in S
  <2>1. k + 1 \in 0..len
    BY <1>1, <1>5
  <2>2. CASE k = 0
    <3>1. path[k + 1] = <<1, 1>>
      BY <1>1, <2>2
    <3>2. 1..path[k + 1][2] - 1 = {}
      BY <3>1
    <3> QED
      BY <2>1, <3>2
  <2>3. CASE k # 0
    <3> DEFINE p == path[k]
               q == path[k + 1]
               i == p[1]
               j == p[2]
    <3>1. k \in 1..Len(path) - 1
      BY <1>1, <1>5, <2>3
    <3>2. /\ p \in Rows2(m, n) /\ i \in 1..m /\ j \in 1..n
          /\ order[p] = 1 => q[1] = i /\ q[2] = j + 1
          /\ order[p] = -1 => q[1] = i + 1 /\ q[2] = j
          /\ order[p] # 1 /\ order[p] # -1 => q[1] = i + 1 /\ q[2] = j + 1
      BY <3>1, PathStep
    <3>3. At(k)
      BY <1>5, <2>3
    <3>4. order[p] = CompareWithoutNull(l[i], r[j])
      BY <3>2 DEF Compares
    <3> HIDE DEF p, q, i, j
    <3>5. \A a \in 1..m : \A b \in 1..j - 1 : a >= i => KeyLeq(r[b], l[a])
      BY <3>3 DEF p, i, j
    <3>6. ASSUME NEW a \in 1..m, NEW b \in 1..q[2] - 1, a >= q[1]
          PROVE  KeyLeq(r[b], l[a])
      <4>1. CASE order[p] = -1
        <5>1. a >= i /\ b \in 1..j - 1
          BY <3>2, <3>6, <4>1
        <5> QED
          BY <3>5, <5>1
      <4>2. CASE order[p] # -1
        <5>1. KeyLeq(r[j], l[i])
          BY <1>2, <1>3, <3>2, <3>4, <4>2
        <5>2. a >= i /\ (b \in 1..j - 1 \/ b = j)
          BY <3>2, <3>6, <4>2
        <5>3. b = j => KeyLeq(r[b], l[a])
          <6>1. KeyLeq(l[i], l[a])
            BY <1>3, <3>2, <5>2
          <6>2. r[j] \in KeyOf(d) /\ l[i] \in KeyOf(d) /\ l[a] \in KeyOf(d)
            BY <1>3, <3>2
          <6> QED
            BY <1>2, <5>1, <6>1, <6>2
        <5> QED
          BY <3>5, <5>2, <5>3
      <4> QED
        BY <4>1, <4>2
    <3>7. At(k + 1)
      BY <3>6 DEF q
    <3> QED
      BY <2>1, <3>7
  <2> QED
    BY <2>2, <2>3
<1>6. 0..len \subseteq S
  <2> HIDE DEF S
  <2> QED
    BY <1>1, <1>4, <1>5, InductionUpto
<1>7. \A k \in 1..len : At(k)
  <2> TAKE k \in 1..len
  <2>1. k \in 0..len /\ k # 0
    OBVIOUS
  <2>2. k \in S
    BY <1>6, <2>1
  <2> QED
    BY <2>1, <2>2
<1> QED
  BY <1>7 DEF Passed

\* A pair of rows with equal keys whose right one has an accepted value, or a
\* left row that no right row is equal to.
SoundPairs(l, r, match, m, n) ==
  {p \in LeftPairs(m, n) : IF p[2] = 0 THEN \A j \in 1..n : l[p[1]] # r[j]
                           ELSE l[p[1]] = r[p[2]] /\ match[p[2]]}

\* No right row has the key of left row i.
Lacking(l, r, i, n) == \A k \in 1..n : l[i] # r[k]

\* A left row that is above the right row before a place, and below the one
\* at it, has none.
LEMMA Unmatched ==
  ASSUME NEW d \in Nat, NEW m \in Nat, NEW n \in Nat,
         NEW l \in [1..m -> KeyOf(d)], NEW r \in [1..n -> KeyOf(d)], Sorted(r),
         NEW i \in 1..m, NEW j \in 2..n + 1,
         KeyLeq(r[j - 1], l[i]), r[j - 1] # l[i], j <= n => ~KeyLeq(r[j], l[i])
  PROVE  Lacking(l, r, i, n)
<1>1. /\ \A a, b \in KeyOf(d) : KeyLeq(a, b) /\ KeyLeq(b, a) => a = b
      /\ \A a, b, c \in KeyOf(d) : KeyLeq(a, b) /\ KeyLeq(b, c) => KeyLeq(a, c)
  BY KeyOrder
<1>2. /\ l[i] \in KeyOf(d) /\ \A b \in 1..n : r[b] \in KeyOf(d)
      /\ \A a, b \in 1..n : a <= b => KeyLeq(r[a], r[b])
  BY DEF Sorted
<1> SUFFICES ASSUME NEW k \in 1..n, l[i] = r[k]
             PROVE  FALSE
  BY DEF Lacking
<1>3. CASE k <= j - 1
  <2>1. j - 1 \in 1..n
    OBVIOUS
  <2>2. KeyLeq(l[i], r[j - 1])
    BY <1>2, <1>3, <2>1
  <2>3. r[j - 1] \in KeyOf(d)
    BY <1>2, <2>1
  <2>4. r[j - 1] = l[i]
    BY <1>1, <1>2, <2>2, <2>3
  <2> QED
    BY <2>4
<1>4. CASE ~(k <= j - 1)
  <2>1. j \in 1..n /\ j <= k
    BY <1>4
  <2>2. KeyLeq(r[j], l[i])
    BY <1>2, <2>1
  <2> QED
    BY <2>1, <2>2
<1> QED
  BY <1>3, <1>4

\* EvalSubgoalNext joins a left row with a right row of an equal key, and
\* with none only when no right row has its key.
THEOREM MergeJoinUnknownSound ==
  ASSUME NEW d \in Nat, NEW m \in Nat, NEW n \in Nat,
         NEW l \in [1..m -> KeyOf(d)], NEW r \in [1..n -> KeyOf(d)],
         Sorted(l), Sorted(r), Known(d, l), Known(d, r), NEW match, NEW onlyUnknown
  PROVE  MergeJoinUnknown(l, r, match, onlyUnknown) \in Seq(SoundPairs(l, r, match, m, n))
<1> DEFINE rows == (DOMAIN l) \X (DOMAIN r)
           order == [p \in rows |-> CompareWithoutNull(l[p[1]], r[p[2]])]
           joinable == {p \in rows : Compare(l[p[1]], r[p[2]]) = 0}
           unmatched(p) == p[2] # 1 /\ l[p[1]] # r[p[2] - 1]
           matching(pairs) == ElementsAt(pairs, {k \in DOMAIN pairs : match[pairs[k][2]]})
           joinAt(p) ==
             CASE order[p] =  1 -> << >>
               [] order[p] = -1 -> IF unmatched(p) THEN << <<p[1], 0>> >> ELSE << >>
               [] OTHER -> IF onlyUnknown THEN << >> ELSE matching(JoinedAt(p[1], p[2], joinable))
           skipped(p) == IF p[2] = 1 THEN << >>
                         ELSE RunFrom(p[1], {k \in p[1]..Len(l) : l[k] = r[p[2] - 1]})
           first(p) == p[1] + Len(skipped(p))
           rest(p) == [k \in 1..Len(l) - first(p) + 1 |-> <<first(p) + k - 1, 0>>]
           path == MergePath(m, n, order)
           at == [k \in Compared(path) |-> joinAt(path[k])]
           Sound == SoundPairs(l, r, match, m, n)
<1>0. Len(l) = m /\ Len(r) = n
  BY SeqDef
<1>1. MergeJoinUnknown(l, r, match, onlyUnknown) = FlattenSeq(at) \o rest(Last(path))
  BY <1>0 DEF MergeJoinUnknown
<1>2. rows = Rows2(m, n)
  BY DEF Rows2
<1>3. \A p \in Rows2(m, n) : p[1] \in 1..m /\ p[2] \in 1..n /\ p = <<p[1], p[2]>>
  BY DEF Rows2
<1>4. Compares(order, l, r, m, n)
  BY <1>2 DEF Compares
<1>5. /\ joinable \in SUBSET Rows2(m, n)
      /\ \A p \in joinable : l[p[1]] = r[p[2]]
  <2>1. joinable \in SUBSET Rows2(m, n) /\ \A p \in joinable : Compare(l[p[1]], r[p[2]]) = 0
    BY <1>2
  <2> HIDE DEF joinable
  <2>2. ASSUME NEW p \in joinable
        PROVE  l[p[1]] = r[p[2]]
    <3>1. p[1] \in 1..m /\ p[2] \in 1..n
      BY <1>3, <2>1
    <3>2. l[p[1]] \in KeyOf(d) /\ r[p[2]] \in KeyOf(d)
      BY <3>1
    <3>3. \A k \in 1..d : l[p[1]][k] # Null /\ r[p[2]][k] # Null
      BY <3>1 DEF Known
    <3>4. CompareWithoutNull(l[p[1]], r[p[2]]) = 0
      BY <2>1, <3>2, <3>3, CompareKnown
    <3> QED
      BY <3>2, <3>4, KeyOrder
  <2> QED
    BY <2>1, <2>2
<1>6. IsPath(path, m, n) /\ IsMergePath(path, m, n, order, <<1, 1>>)
  BY MergePathFacts
<1>7. /\ \A a, b \in KeyOf(d) : CompareWithoutNull(a, b) = 0 <=> a = b
      /\ \A a, b \in KeyOf(d) : CompareWithoutNull(a, b) = -1 <=> ~KeyLeq(b, a)
      /\ \A a, b \in KeyOf(d) : CompareWithoutNull(a, b) \in {-1, 0, 1}
  BY KeyOrder
<1> HIDE DEF rows, order, joinable, path
<1>8. Passed(path, l, r, m)
  BY <1>4, <1>6, PathPasses
<1>9. /\ \A p : p \in Sound <=> p \in LeftPairs(m, n) /\ IF p[2] = 0 THEN \A j \in 1..n : l[p[1]] # r[j]
                                                       ELSE l[p[1]] = r[p[2]] /\ match[p[2]]
      /\ \A i \in 1..m : (\A j \in 1..n : l[i] # r[j]) => <<i, 0>> \in Sound
  <2>1. \A i \in 1..m : <<i, 0>> \in LeftPairs(m, n)
    BY DEF LeftPairs
  <2> QED
    BY <2>1 DEF SoundPairs
<1> HIDE DEF Sound
<1>10. ASSUME NEW k \in Compared(path)
       PROVE  joinAt(path[k]) \in Seq(Sound)
  <2> DEFINE p == path[k]
             pairs == JoinedAt(p[1], p[2], joinable)
  <2>1. p \in Rows2(m, n) /\ k \in 1..Len(path)
    <3>1. k \in 1..Len(path) - 1 /\ Len(path) \in Nat
      BY <1>6 DEF IsPath, Compared
    <3> QED
      BY <1>6, <3>1 DEF IsPath
  <2>2. p[1] \in 1..m /\ p[2] \in 1..n /\ l[p[1]] \in KeyOf(d) /\ r[p[2]] \in KeyOf(d)
    BY <1>3, <2>1
  <2>3. order[p] = CompareWithoutNull(l[p[1]], r[p[2]])
    BY <1>4, <2>1 DEF Compares
  <2>4. \A i \in 1..m : \A j \in 1..p[2] - 1 : i >= p[1] => KeyLeq(r[j], l[i])
    BY <1>8, <2>1 DEF Passed
  <2> HIDE DEF p
  <2>5. << >> \in Seq(Sound)
    OBVIOUS
  <2>6. CASE order[p] = 1
    <3>1. joinAt(p) = << >>
      BY <2>6
    <3> QED
      BY <2>5, <3>1 DEF p
  <2>7. CASE order[p] = -1
    <3>1. joinAt(p) = IF unmatched(p) THEN << <<p[1], 0>> >> ELSE << >>
      <4>1. order[p] # 1
        BY <2>7
      <4> HIDE DEF unmatched
      <4> QED
        BY <2>7, <4>1
    <3>2. ASSUME unmatched(p)
          PROVE  \A j \in 1..n : l[p[1]] # r[j]
      <4>1. p[2] \in 2..n + 1 /\ r[p[2] - 1] # l[p[1]] /\ p[2] - 1 \in 1..p[2] - 1 /\ p[1] >= p[1]
        BY <2>2, <3>2
      <4>2. KeyLeq(r[p[2] - 1], l[p[1]])
        BY <2>2, <2>4, <4>1
      <4>3. ~KeyLeq(r[p[2]], l[p[1]])
        BY <1>7, <2>2, <2>3, <2>7
      <4> DEFINE i == p[1]
                 j == p[2]
      <4>4. i \in 1..m /\ j \in 2..n + 1 /\ KeyLeq(r[j - 1], l[i]) /\ r[j - 1] # l[i] /\ (j <= n => ~KeyLeq(r[j], l[i]))
        BY <2>2, <4>1, <4>2, <4>3
      <4> HIDE DEF i, j, unmatched
      <4>5. Lacking(l, r, i, n)
        BY <4>4, Unmatched
      <4> QED
        BY <4>5 DEF Lacking, i
    <3>3. joinAt(p) \in Seq(Sound)
      <4> HIDE DEF unmatched, joinAt
      <4>1. CASE unmatched(p)
        <5>1. <<p[1], 0>> \in Sound
          BY <1>9, <2>2, <3>2, <4>1
        <5> QED
          BY <3>1, <4>1, <5>1
      <4>2. CASE ~unmatched(p)
        BY <2>5, <3>1, <4>2
      <4> QED
        BY <4>1, <4>2
    <3> QED
      BY <3>3 DEF p
  <2>8. CASE order[p] # 1 /\ order[p] # -1
    <3>1. joinAt(p) = IF onlyUnknown THEN << >> ELSE matching(pairs)
      <4> HIDE DEF matching, unmatched
      <4> QED
        BY <2>8
    <3>2. l[p[1]] = r[p[2]]
      <4>1. order[p] = 0
        BY <1>7, <2>2, <2>3, <2>8
      <4> QED
        BY <1>7, <2>2, <2>3, <4>1
    <3>3. Hooked(pairs, m, n, p[1], p[2], joinable)
      BY <1>5, <2>2, JoinedAtExact
    <3> HIDE DEF pairs
    <3>4. pairs \in Seq(Rows2(m, n)) /\ \A e \in DOMAIN pairs : l[pairs[e][1]] = r[pairs[e][2]]
      <4>1. /\ pairs \in Seq(Rows2(m, n))
            /\ \A e \in DOMAIN pairs : pairs[e] = <<p[1], p[2]>> \/ pairs[e] \in joinable
        BY <3>3 DEF Hooked
      <4>2. ASSUME NEW e \in DOMAIN pairs
            PROVE  l[pairs[e][1]] = r[pairs[e][2]]
        <5>1. CASE pairs[e] = <<p[1], p[2]>>
          <6>1. pairs[e][1] = p[1] /\ pairs[e][2] = p[2]
            BY <5>1
          <6> QED
            BY <3>2, <6>1
        <5>2. CASE pairs[e] \in joinable
          BY <1>5, <5>2
        <5> QED
          BY <4>1, <5>1, <5>2
      <4> QED
        BY <4>1, <4>2
    <3>5. matching(pairs) \in Seq(Sound)
      <4> DEFINE P == {i \in DOMAIN pairs : match[pairs[i][2]]}
                 E == {q \in Rows2(m, n) : l[q[1]] = r[q[2]]}
                 chosen == ElementsAt(pairs, P)
      <4>1. P \in SUBSET (DOMAIN pairs)
        OBVIOUS
      <4>2. \A i \in P : match[pairs[i][2]]
        OBVIOUS
      <4> HIDE DEF P
      <4>3. chosen \in Seq(Rows2(m, n)) /\ \A e \in DOMAIN chosen : \E i \in P : chosen[e] = pairs[i]
        BY <3>4, <4>1, ElementsAtFacts
      <4> HIDE DEF chosen
      <4>4. \A e \in DOMAIN chosen : chosen[e] \in Sound
        <5> TAKE e \in DOMAIN chosen
        <5>1. PICK i \in P : chosen[e] = pairs[i]
          BY <4>3
        <5>2. match[chosen[e][2]] /\ l[chosen[e][1]] = r[chosen[e][2]] /\ chosen[e] \in Rows2(m, n)
          BY <3>4, <4>1, <4>2, <4>3, <5>1
        <5>3. chosen[e] \in LeftPairs(m, n) /\ chosen[e][2] # 0
          BY <5>2 DEF LeftPairs, Rows2
        <5> QED
          BY <1>9, <5>2, <5>3
      <4>5. chosen \in Seq(Sound)
        <5>1. Len(chosen) \in Nat /\ DOMAIN chosen = 1..Len(chosen) /\ chosen = [e \in 1..Len(chosen) |-> chosen[e]]
          BY <4>3
        <5>2. chosen \in [1..Len(chosen) -> Sound]
          BY <4>4, <5>1
        <5> QED
          BY <5>1, <5>2, SeqDef
      <4> QED
        BY <4>5 DEF chosen, P
    <3> HIDE DEF matching, joinAt
    <3>6. joinAt(p) \in Seq(Sound)
      BY <2>5, <3>1, <3>5
    <3> QED
      BY <3>6 DEF p
  <2> QED
    BY <2>6, <2>7, <2>8 DEF p
<1> HIDE DEF joinAt
<1>11. FlattenSeq(at) \in Seq(Sound)
  BY <1>6, <1>10, JoinedOnPath
<1>12. rest(Last(path)) \in Seq(Sound)
  <2> DEFINE p == Last(path)
             run == skipped(p)
             i == p[1] + Len(run)
             c == m - i + 1
  <2>1. /\ p = path[Len(path)] /\ p \in Places(m, n) /\ Len(path) \in 1..Len(path)
        /\ p[1] > m \/ p[2] > n
    BY <1>6 DEF IsPath, Last, IsMergePath
  <2>2. p[1] \in 1..m + 1 /\ p[2] \in 1..n + 1
    BY <2>1 DEF Places
  <2>3. \A a \in 1..m : \A j \in 1..p[2] - 1 : a >= p[1] => KeyLeq(r[j], l[a])
    BY <1>8, <2>1 DEF Passed
  <2> HIDE DEF p
  <2>4. /\ Len(run) \in Nat /\ p[1] + Len(run) <= m + 1
        /\ p[2] # 1 /\ i <= m => l[i] # r[p[2] - 1]
    <3>1. CASE p[2] = 1
      <4>1. Len(run) = 0
        BY <3>1
      <4> HIDE DEF run
      <4> QED
        BY <2>2, <3>1, <4>1
    <3>2. CASE p[2] # 1
      <4> DEFINE from == p[1]
                 S == {k \in from..m : l[k] = r[p[2] - 1]}
      <4>1. S \in SUBSET (1..m) /\ from \in 1..m + 1 /\ \A k \in from..m : k \notin S => l[k] # r[p[2] - 1]
        BY <2>2
      <4>2. run = RunFrom(from, S)
        BY <1>0, <3>2
      <4> HIDE DEF S, run, from
      <4>3. Len(run) \in Nat /\ from + Len(run) <= m + 1 /\ from + Len(run) \notin S
        BY <4>1, <4>2, RunFromExact
      <4>4. from + Len(run) <= m => from + Len(run) \in from..m
        BY <4>1, <4>3
      <4> QED
        BY <4>1, <4>3, <4>4 DEF from
    <3> QED
      BY <3>1, <3>2
  <2>5. rest(p) = [k \in 1..c |-> <<i + k - 1, 0>>]
    BY <1>0
  <2> HIDE DEF run
  <2>6. i \in 1..m + 1 /\ i >= p[1] /\ c \in Nat
    <3> DEFINE from == p[1]
               more == Len(run)
    <3>1. from \in 1..m + 1 /\ more \in Nat /\ from + more <= m + 1
      BY <2>2, <2>4
    <3> HIDE DEF from, more
    <3>2. from + more \in 1..m + 1 /\ from + more >= from /\ m - (from + more) + 1 \in Nat
      BY <3>1
    <3> QED
      BY <3>2 DEF from, more
  <2>7. ASSUME NEW a \in i..m
        PROVE  \A j \in 1..n : l[a] # r[j]
    <3>1. a \in 1..m /\ a >= p[1] /\ i <= m /\ i \in 1..m
      <4> DEFINE from == p[1]
      <4>1. from \in 1..m + 1 /\ i \in 1..m + 1 /\ i >= from
        BY <2>2, <2>6
      <4> HIDE DEF i, from
      <4>2. a \in 1..m /\ a >= from /\ i <= m /\ i \in 1..m
        BY <4>1
      <4> QED
        BY <4>2 DEF from
    <3>2. p[2] = n + 1
      BY <2>1, <2>2, <3>1
    <3>3. CASE n = 0
      BY <3>3
    <3>4. CASE n # 0
      <4> DEFINE j == n + 1
      <4>1. j \in 2..n + 1 /\ j - 1 = n /\ p[2] # 1 /\ n \in 1..n /\ n \in 1..p[2] - 1
        BY <3>2, <3>4
      <4>2. KeyLeq(r[n], l[a]) /\ KeyLeq(r[n], l[i])
        BY <2>3, <2>6, <3>1, <4>1
      <4>3. l[i] # r[n]
        BY <2>4, <3>1, <3>2, <4>1
      <4>4. KeyLeq(l[i], l[a])
        BY <3>1 DEF Sorted
      <4>5. r[n] # l[a]
        <5>1. l[i] \in KeyOf(d) /\ l[a] \in KeyOf(d) /\ r[n] \in KeyOf(d)
          BY <3>1, <4>1
        <5>2. \A x, y \in KeyOf(d) : KeyLeq(x, y) /\ KeyLeq(y, x) => x = y
          BY KeyOrder
        <5> QED
          BY <4>2, <4>3, <4>4, <5>1, <5>2
      <4>6. ~(j <= n)
        OBVIOUS
      <4> HIDE DEF j
      <4> QED
        <5>1. a \in 1..m /\ KeyLeq(r[j - 1], l[a]) /\ r[j - 1] # l[a] /\ (j <= n => ~KeyLeq(r[j], l[a]))
          BY <3>1, <4>1, <4>2, <4>5, <4>6
        <5>2. Lacking(l, r, a, n)
          BY <4>1, <5>1, Unmatched
        <5> QED
          BY <5>2 DEF Lacking
    <3> QED
      BY <3>3, <3>4
  <2> HIDE DEF i, rest
  <2>8. \A k \in 1..c : <<i + k - 1, 0>> \in Sound
    <3> TAKE k \in 1..c
    <3>1. i + k - 1 \in i..m /\ i + k - 1 \in 1..m
      BY <2>6
    <3> QED
      BY <1>9, <2>7, <3>1
  <2> HIDE DEF c
  <2>9. rest(p) \in [1..c -> Sound]
    BY <2>5, <2>8
  <2>10. rest(p) \in Seq(Sound)
    BY <2>6, <2>9, SeqDef
  <2> QED
    BY <2>10 DEF p
<1> HIDE DEF rest, at
<1>13. MergeJoinUnknown(l, r, match, onlyUnknown) \in Seq(Sound)
  BY <1>1, <1>11, <1>12, ConcatProperties
<1> QED
  BY <1>13 DEF Sound
------------------------------------------------------------------------------
\* g tells of every row which element of A it comes from; exact says that
\* every element gives one row.
IsListing(g, rows, A, src, exact) ==
  /\ g \in [DOMAIN rows -> A]
  /\ \A k \in DOMAIN rows : rows[k] = src[g[k]]
  /\ exact => /\ \A i, j \in DOMAIN rows : g[i] = g[j] => i = j
              /\ \A x \in A : \E k \in DOMAIN rows : g[k] = x

\* The rows are what src gives for elements of A.
Lists(rows, A, src, exact) == \E g : IsListing(g, rows, A, src, exact)

\* The elements at some places list these places.
LEMMA ElementsListed ==
  ASSUME NEW E, NEW s \in Seq(E), NEW P \in SUBSET (DOMAIN s), NEW exact
  PROVE  Lists(ElementsAt(s, P), P, s, exact)
<1>1. PICK place \in [DOMAIN ElementsAt(s, P) -> P] :
        /\ \A i, j \in DOMAIN ElementsAt(s, P) : place[i] = place[j] => i = j
        /\ \A x \in P : \E k \in DOMAIN ElementsAt(s, P) : place[k] = x
        /\ \A k \in DOMAIN ElementsAt(s, P) : ElementsAt(s, P)[k] = s[place[k]]
  BY ElementsAtPlaces
<1>2. IsListing(place, ElementsAt(s, P), P, s, exact)
  BY <1>1, Zenon DEF IsListing
<1> QED
  BY <1>2 DEF Lists

\* A selection of the rows lists a part of A.
LEMMA PartListed ==
  ASSUME NEW E, NEW s \in Seq(E), NEW A, NEW src, NEW exact, Lists(s, A, src, exact),
         NEW P \in SUBSET (DOMAIN s), NEW B \in SUBSET A,
         NEW R, P = {i \in DOMAIN s : s[i] \in R}, B = {x \in A : src[x] \in R}
  PROVE  Lists(ElementsAt(s, P), B, src, exact)
<1> DEFINE t == ElementsAt(s, P)
<1>1. PICK g : IsListing(g, s, A, src, exact)
  BY DEF Lists
<1>2. PICK place : IsListing(place, t, P, s, exact)
  <2>1. Lists(t, P, s, exact)
    BY ElementsListed
  <2> QED
    BY <2>1 DEF Lists
<1> DEFINE h == [k \in DOMAIN t |-> g[place[k]]]
<1>3. ASSUME NEW i \in P
      PROVE  g[i] \in B /\ s[i] = src[g[i]]
  <2>1. i \in DOMAIN s /\ s[i] \in R
    OBVIOUS
  <2>2. g[i] \in A /\ s[i] = src[g[i]]
    BY <1>1, <2>1 DEF IsListing
  <2> QED
    BY <2>1, <2>2
<1> HIDE DEF t
<1>4. h \in [DOMAIN t -> B] /\ \A k \in DOMAIN t : t[k] = src[h[k]]
  <2>1. place \in [DOMAIN t -> P] /\ \A k \in DOMAIN t : t[k] = s[place[k]]
    BY <1>2 DEF IsListing
  <2> QED
    BY <1>3, <2>1
<1>5. ASSUME exact, NEW i \in DOMAIN t, NEW j \in DOMAIN t, h[i] = h[j]
      PROVE  i = j
  <2>1. place[i] \in DOMAIN s /\ place[j] \in DOMAIN s
    BY <1>2 DEF IsListing
  <2>2. g[place[i]] = g[place[j]]
    BY <1>5
  <2>3. \A x, y \in DOMAIN s : g[x] = g[y] => x = y
    BY <1>1, <1>5, Zenon DEF IsListing
  <2>4. place[i] = place[j]
    BY <2>1, <2>2, <2>3
  <2>5. \A x, y \in DOMAIN t : place[x] = place[y] => x = y
    BY <1>2, <1>5, Zenon DEF IsListing
  <2> QED
    BY <2>4, <2>5
<1>6. ASSUME exact, NEW x \in B
      PROVE  \E k \in DOMAIN t : h[k] = x
  <2>1. x \in A /\ src[x] \in R
    OBVIOUS
  <2>2. PICK i \in DOMAIN s : g[i] = x
    BY <1>1, <1>6, <2>1, Zenon DEF IsListing
  <2>3. s[i] = src[g[i]]
    BY <1>1 DEF IsListing
  <2>4. i \in P
    BY <2>1, <2>2, <2>3
  <2>5. PICK k \in DOMAIN t : place[k] = i
    BY <1>2, <1>6, <2>4, Zenon DEF IsListing
  <2> QED
    BY <2>2, <2>5
<1> HIDE DEF h
<1>7. IsListing(h, t, B, src, exact)
  BY <1>4, <1>5, <1>6, Zenon DEF IsListing
<1>8. Lists(t, B, src, exact)
  BY <1>7 DEF Lists
<1> QED
  BY <1>8 DEF t

\* Rows in another order list the same.
LEMMA ArrangedListed ==
  ASSUME NEW E, NEW s \in Seq(E), NEW t \in Seq(E), Len(t) = Len(s), Arranged(t, s, Len(s)),
         NEW A, NEW src, NEW exact, Lists(s, A, src, exact)
  PROVE  Lists(t, A, src, exact)
<1> DEFINE n == Len(s)
<1>1. DOMAIN s = 1..n /\ DOMAIN t = 1..n
  OBVIOUS
<1>2. PICK g : IsListing(g, s, A, src, exact)
  BY DEF Lists
<1> HIDE DEF n
<1>3. PICK perm \in [1..n -> 1..n] :
        /\ \A i, j \in 1..n : perm[i] = perm[j] => i = j
        /\ \A j \in 1..n : \E i \in 1..n : perm[i] = j
        /\ \A i \in 1..n : t[i] = s[perm[i]]
  BY DEF Arranged, n
<1> DEFINE h == [k \in 1..n |-> g[perm[k]]]
<1>4. g \in [1..n -> A] /\ \A k \in 1..n : s[k] = src[g[k]]
  BY <1>1, <1>2 DEF IsListing
<1>5. h \in [1..n -> A] /\ \A k \in 1..n : t[k] = src[h[k]]
  BY <1>3, <1>4
<1>6. ASSUME exact, NEW i \in 1..n, NEW j \in 1..n, h[i] = h[j]
      PROVE  i = j
  <2>1. perm[i] \in DOMAIN s /\ perm[j] \in DOMAIN s
    BY <1>1, <1>3
  <2>2. g[perm[i]] = g[perm[j]]
    BY <1>6
  <2>3. \A x, y \in DOMAIN s : g[x] = g[y] => x = y
    BY <1>2, <1>6, Zenon DEF IsListing
  <2>4. perm[i] = perm[j]
    BY <2>1, <2>2, <2>3
  <2> QED
    BY <1>3, <2>4
<1>7. ASSUME exact, NEW x \in A
      PROVE  \E k \in 1..n : h[k] = x
  <2>1. PICK j \in DOMAIN s : g[j] = x
    BY <1>2, <1>7, Zenon DEF IsListing
  <2>2. j \in 1..n
    BY <1>1
  <2>3. PICK k \in 1..n : perm[k] = j
    BY <1>3, <2>2
  <2> QED
    BY <2>1, <2>3
<1> HIDE DEF h
<1>8. IsListing(h, t, A, src, exact)
  BY <1>1, <1>5, <1>6, <1>7, Zenon DEF IsListing
<1> QED
  BY <1>8 DEF Lists

\* The rows of t are made of those of s as new is made of src.
Follows(t, s, A, src, new) ==
  /\ DOMAIN t = DOMAIN s
  /\ \A k \in DOMAIN s : \A x \in A : s[k] = src[x] => t[k] = new[x]

LEMMA MapListed ==
  ASSUME NEW s, NEW t, NEW A, NEW src, NEW new, NEW exact,
         Lists(s, A, src, exact), Follows(t, s, A, src, new)
  PROVE  Lists(t, A, new, exact)
<1>1. PICK g : IsListing(g, s, A, src, exact)
  BY DEF Lists
<1>2. DOMAIN t = DOMAIN s
  BY DEF Follows
<1>3. ASSUME NEW k \in DOMAIN s
      PROVE  t[k] = new[g[k]]
  <2>1. g[k] \in A /\ s[k] = src[g[k]]
    BY <1>1 DEF IsListing
  <2> QED
    BY <2>1 DEF Follows
<1>4. IsListing(g, t, A, new, exact)
  BY <1>1, <1>2, <1>3, Zenon DEF IsListing
<1> QED
  BY <1>4 DEF Lists

------------------------------------------------------------------------------
(***************************************************************************)
(* Choices of a fact for the first literals of a body.                     *)
(***************************************************************************)
Value == Nat \ {Null}
Relation(k) == pools[body[k].rel]
FactsFor(k) == FactsOf(Value, Len(body[k].terms))

\* What the cases make sure of, for a rule without disjunction whose literals
\* are in an order that binds what they test.
Ready ==
  /\ Disjuncts = 1
  /\ body \in Seq(Literal) /\ body # << >>
  /\ functions \in Seq(Comparison)
  /\ rule.head.terms \in Seq(AnyTerm) /\ rule.head.isTrue \in BOOLEAN
  /\ \A k \in DOMAIN body : Relation(k) \in Seq(FactsFor(k))
  /\ Evaluable(rule.head, rule.disjuncts[1])
  /\ BoundInOrder /\ ~IsUnsafe(body[1])

\* The variables of the first k literals.
Ids(k) == UNION {VarIds(body[j].terms) : j \in 1..k}

PartialChoices(k) ==
  {c \in [1..k -> Nat] : \A j \in 1..k : c[j] <= Len(Relation(j)) /\ (c[j] = 0 => IsUnsafe(body[j]))}

\* The literals that have variable v and were given a fact.
Occurring(c, v) == {i \in Chosen(c) : v \in VarIds(body[i].terms)}

LEMMA LiteralFacts ==
  ASSUME Ready, NEW k \in 1..Len(body)
  PROVE  /\ body[k].terms \in Seq(AnyTerm) /\ Len(body[k].terms) \in Nat
         /\ DOMAIN body[k].terms = 1..Len(body[k].terms)
         /\ VarIds(body[k].terms) \in SUBSET Nat /\ IsFiniteSet(VarIds(body[k].terms))
         /\ body[k].set \in SUBSET TruthValue
         /\ Relation(k) \in Seq(FactsFor(k)) /\ Len(Relation(k)) \in Nat
         /\ DOMAIN Relation(k) = 1..Len(Relation(k))
<1>1. body \in Seq(Literal) /\ k \in DOMAIN body
  BY DEF Ready
<1>2. body[k] \in Literal
  BY <1>1
<1>3. body[k].terms \in Seq(AnyTerm) /\ body[k].set \in SUBSET TruthValue
  BY <1>2 DEF Literal, Term, AnyTerm
<1> DEFINE m == Len(body[k].terms)
           t == body[k].terms
<1>4. m \in Nat /\ t \in [1..m -> AnyTerm]
  BY <1>3
<1> HIDE DEF m
<1>5. VarIds(t) \in SUBSET Nat /\ IsFiniteSet(VarIds(t))
  <2> HIDE DEF t
  <2> QED
    BY <1>4, VarIdsFacts
<1>6. Relation(k) \in Seq(FactsFor(k))
  BY <1>1 DEF Ready
<1> QED
  BY <1>3, <1>5, <1>6

LEMMA FactTyped ==
  ASSUME Ready, NEW k \in 1..Len(body), NEW x \in 1..Len(Relation(k))
  PROVE  /\ Relation(k)[x].terms \in RowTerms(Value, Len(body[k].terms))
         /\ DOMAIN Relation(k)[x].terms = DOMAIN body[k].terms
         /\ \A i \in DOMAIN body[k].terms : Relation(k)[x].terms[i] \in Value
         /\ Relation(k)[x].value \in TruthValue
<1>1. Relation(k)[x] \in FactsFor(k)
  BY LiteralFacts
<1>2. DOMAIN body[k].terms = 1..Len(body[k].terms)
  BY LiteralFacts
<1> QED
  BY <1>1, <1>2 DEF FactsFor, FactsOf, RowTerms

\* Every variable so far is in a literal with a fact.
LEMMA FirstOccurrence ==
  ASSUME Ready, NEW k \in 0..Len(body), NEW c \in PartialChoices(k), NEW v \in Ids(k)
  PROVE  /\ Occurring(c, v) \in SUBSET (1..k)
         /\ Min(Occurring(c, v)) \in Occurring(c, v)
         /\ \A j \in Occurring(c, v) : Min(Occurring(c, v)) <= j
<1>1. DOMAIN c = 1..k /\ 1..k \subseteq 1..Len(body) /\ DOMAIN body = 1..Len(body) /\ Len(body) \in Nat
  BY DEF PartialChoices, Ready
<1>2. Occurring(c, v) \in SUBSET (1..k)
  BY <1>1 DEF Occurring, Chosen
<1>3. PICK j \in 1..k : v \in VarIds(body[j].terms)
  BY DEF Ids
<1>4. Occurring(c, v) # {}
  <2>1. CASE c[j] # 0
    BY <1>1, <1>3, <2>1 DEF Occurring, Chosen
  <2>2. CASE c[j] = 0
    <3>1. IsUnsafe(body[j])
      BY <2>2 DEF PartialChoices
    <3>2. BoundInOrder
      BY DEF Ready
    <3>3. PICK i \in 1..j - 1 : ~IsUnsafe(body[i]) /\ v \in VarIds(body[i].terms)
      BY <1>1, <1>3, <3>1, <3>2 DEF BoundInOrder
    <3>4. i \in 1..k
      OBVIOUS
    <3>5. c[i] # 0
      BY <3>3, <3>4 DEF PartialChoices
    <3> QED
      BY <1>1, <3>3, <3>4, <3>5 DEF Occurring, Chosen
  <2> QED
    BY <2>1, <2>2
<1>5. Occurring(c, v) \in SUBSET Nat
  BY <1>2
<1> QED
  BY <1>2, <1>4, <1>5, MinOf

LEMMA BindingTyped ==
  ASSUME Ready, NEW k \in 0..Len(body), NEW c \in PartialChoices(k), NEW v \in Ids(k)
  PROVE  BindingOf(c, v) \in Value
<1> DEFINE i == Min(Occurring(c, v))
<1>1. i \in Occurring(c, v) /\ i \in 1..k
  BY FirstOccurrence
<1>2. BindingOf(c, v) = Fact(c, i).terms[FrontIndex(body[i].terms, v)]
  BY DEF BindingOf, Occurring
<1> HIDE DEF i
<1>3. i \in Chosen(c) /\ v \in VarIds(body[i].terms) /\ c[i] # 0 /\ i \in 1..Len(body)
  BY <1>1 DEF Occurring, Chosen
<1>4. c[i] \in 1..Len(Relation(i))
  <2>1. Len(Relation(i)) \in Nat
    BY <1>3, LiteralFacts
  <2>2. c[i] \in Nat /\ c[i] <= Len(Relation(i))
    BY <1>1 DEF PartialChoices
  <2> QED
    BY <1>3, <2>1, <2>2
<1>5. Fact(c, i) = Relation(i)[c[i]]
  BY DEF Fact, Relation
<1>6. FrontIndex(body[i].terms, v) \in DOMAIN body[i].terms
  <2>1. body[i].terms \in Seq(AnyTerm)
    BY <1>3, LiteralFacts
  <2> QED
    BY <1>3, <2>1, FrontIndexFacts
<1> QED
  BY <1>2, <1>3, <1>4, <1>5, <1>6, FactTyped

\* Two choices of facts for the first k literals.
Agree(c, e, k) == \A j \in 1..k : c[j] = e[j]

\* A further literal leaves the bindings.
LEMMA BindingKept ==
  ASSUME Ready, NEW k \in 0..Len(body) - 1, NEW c \in PartialChoices(k), NEW e \in PartialChoices(k + 1),
         Agree(c, e, k), NEW v \in Ids(k)
  PROVE  BindingOf(e, v) = BindingOf(c, v)
<1> DEFINE i == Min(Occurring(c, v))
           j == Min(Occurring(e, v))
<1>1. k \in 0..Len(body) /\ k + 1 \in 0..Len(body) /\ k \in Nat
  BY DEF Ready
<1>2. v \in Ids(k + 1)
  BY <1>1 DEF Ids
<1>3. Occurring(c, v) \in SUBSET (1..k) /\ i \in Occurring(c, v) /\ \A x \in Occurring(c, v) : i <= x
  BY <1>1, FirstOccurrence
<1>4. Occurring(e, v) \in SUBSET (1..k + 1) /\ j \in Occurring(e, v) /\ \A x \in Occurring(e, v) : j <= x
  BY <1>1, <1>2, FirstOccurrence
<1>5. DOMAIN c = 1..k /\ DOMAIN e = 1..k + 1
  BY DEF PartialChoices
<1>6. \A x \in 1..k : x \in Occurring(c, v) <=> x \in Occurring(e, v)
  BY <1>1, <1>5 DEF Occurring, Chosen, Agree
<1>7. BindingOf(c, v) = Fact(c, i).terms[FrontIndex(body[i].terms, v)]
  BY DEF BindingOf, Occurring
<1>8. BindingOf(e, v) = Fact(e, j).terms[FrontIndex(body[j].terms, v)]
  BY DEF BindingOf, Occurring
<1> HIDE DEF i, j
<1>9. i = j /\ i \in 1..k
  <2>1. i \in 1..k /\ i \in Occurring(e, v) /\ j <= i /\ j \in 1..k + 1
    BY <1>3, <1>4, <1>6
  <2>2. j \in 1..k
    BY <1>1, <2>1
  <2>3. i <= j
    BY <1>3, <1>4, <1>6, <2>2
  <2> QED
    BY <2>1, <2>2, <2>3
<1>10. Fact(c, i) = Fact(e, i)
  BY <1>9 DEF Fact, Agree
<1> QED
  BY <1>7, <1>8, <1>9, <1>10

\* The variables of the last literal that are new get the values of its fact.
LEMMA BindingNew ==
  ASSUME Ready, NEW k \in 0..Len(body) - 1, NEW e \in PartialChoices(k + 1), e[k + 1] # 0,
         NEW v \in VarIds(body[k + 1].terms), v \notin Ids(k)
  PROVE  BindingOf(e, v) = Relation(k + 1)[e[k + 1]].terms[FrontIndex(body[k + 1].terms, v)]
<1> DEFINE j == Min(Occurring(e, v))
           next == k + 1
<1>1. next \in 0..Len(body) /\ k \in Nat /\ next \in 1..next /\ next \in Nat
  BY DEF Ready
<1>2. v \in Ids(next)
  BY <1>1 DEF Ids
<1>3. Occurring(e, v) \in SUBSET (1..next) /\ j \in Occurring(e, v)
  BY <1>1, <1>2, FirstOccurrence
<1>4. \A x \in 1..k : v \notin VarIds(body[x].terms)
  BY DEF Ids
<1>5. BindingOf(e, v) = Fact(e, j).terms[FrontIndex(body[j].terms, v)]
  BY DEF BindingOf, Occurring
<1> HIDE DEF j
<1>6. j = next
  <2>1. j \in 1..next /\ v \in VarIds(body[j].terms)
    BY <1>3 DEF Occurring
  <2>2. j \notin 1..k
    BY <1>4, <2>1
  <2> QED
    BY <1>1, <2>1, <2>2
<1> QED
  BY <1>5, <1>6 DEF Fact, Relation

------------------------------------------------------------------------------
\* The constants t give these variables of terms the values they have under e.
Shows(e, terms, t, ids) == \A v \in VarIds(terms) \cap ids : t[FrontIndex(terms, v)] = BindingOf(e, v)

LEMMA GroundTerms ==
  ASSUME NEW e, NEW terms
  PROVE  /\ DOMAIN Ground(e, terms) = DOMAIN terms
         /\ \A i \in DOMAIN terms : Ground(e, terms)[i] =
              IF terms[i].isVar THEN BindingOf(e, terms[i].id) ELSE terms[i].id
         /\ \A i \in DOMAIN terms : terms[i].isVar => terms[i].id \in VarIds(terms)
  BY DEF Ground, VarIds

\* What is bound by e shows its bindings.
LEMMA GroundShows ==
  ASSUME NEW e, NEW terms \in Seq(AnyTerm), NEW ids
  PROVE  Shows(e, terms, Ground(e, terms), ids)
<1> SUFFICES ASSUME NEW v \in VarIds(terms)
             PROVE  Ground(e, terms)[FrontIndex(terms, v)] = BindingOf(e, v)
  BY DEF Shows
<1>1. FrontIndex(terms, v) \in DOMAIN terms /\ terms[FrontIndex(terms, v)] = Var(v)
  BY FrontIndexFacts
<1>2. terms[FrontIndex(terms, v)].isVar /\ terms[FrontIndex(terms, v)].id = v
  BY <1>1 DEF Var
<1> QED
  BY <1>1, <1>2, GroundTerms

\* The constants of a fact are those of the literal under e when the fact is
\* selected and has the values of the variables that are bound already.
LEMMA FactFits ==
  ASSUME NEW lit, lit.terms \in Seq(AnyTerm), NEW t \in RowTerms(Value, Len(lit.terms)),
         NEW e, NEW ids, Shows(e, lit.terms, t, VarIds(lit.terms) \ ids)
  PROVE  t = Ground(e, lit.terms) <=> Selectable(lit, t) /\ Shows(e, lit.terms, t, ids)
<1> DEFINE terms == lit.terms
           m == Len(terms)
<1>1. DOMAIN terms = 1..m /\ DOMAIN t = 1..m /\ t = [i \in 1..m |-> t[i]]
  BY DEF RowTerms
<1>2. \A i \in 1..m : terms[i] \in AnyTerm
  BY <1>1
<1> HIDE DEF m
<1>3. DOMAIN Ground(e, terms) = 1..m /\ Ground(e, terms) = [i \in 1..m |-> Ground(e, terms)[i]]
  BY <1>1 DEF Ground
<1>4. \A i \in 1..m : Ground(e, terms)[i] =
         IF terms[i].isVar THEN BindingOf(e, terms[i].id) ELSE terms[i].id
  <2> HIDE DEF terms
  <2>1. \A i \in DOMAIN terms : Ground(e, terms)[i] =
          IF terms[i].isVar THEN BindingOf(e, terms[i].id) ELSE terms[i].id
    BY GroundTerms
  <2> QED
    BY <1>1, <2>1, Zenon
<1>5. ASSUME t = Ground(e, terms)
      PROVE  Selectable(lit, t) /\ Shows(e, terms, t, ids)
  <2>1. Shows(e, terms, t, ids)
    BY <1>5, GroundShows
  <2>2. \A i \in 1..m : t[i] = IF terms[i].isVar THEN BindingOf(e, terms[i].id) ELSE terms[i].id
    BY <1>4, <1>5, Zenon
  <2>3. \A i \in DOMAIN t : lit.terms[i].isVar \/ t[i] = lit.terms[i].id
    BY <1>1, <2>2, Zenon
  <2>4. \A i, j \in DOMAIN t : lit.terms[i].isVar /\ lit.terms[i] = lit.terms[j] => t[i] = t[j]
    BY <1>1, <2>2, Zenon
  <2> QED
    BY <2>1, <2>3, <2>4 DEF Selectable
<1>6. ASSUME Selectable(lit, t), Shows(e, terms, t, ids)
      PROVE  t = Ground(e, terms)
  <2>1. ASSUME NEW i \in 1..m, ~terms[i].isVar
        PROVE  t[i] = Ground(e, terms)[i]
    <3>1. \A j \in 1..m : terms[j].isVar \/ t[j] = terms[j].id
      BY <1>1, <1>6, Zenon DEF Selectable
    <3>2. t[i] = terms[i].id
      BY <2>1, <3>1, Zenon
    <3>3. Ground(e, terms)[i] = terms[i].id
      BY <1>4, <2>1, Zenon
    <3> QED
      BY <3>2, <3>3
  <2>2. ASSUME NEW i \in 1..m, terms[i].isVar
        PROVE  t[i] = Ground(e, terms)[i]
    <3> DEFINE v == terms[i].id
               f == FrontIndex(terms, v)
    <3>1. v \in VarIds(terms) /\ Ground(e, terms)[i] = BindingOf(e, v)
      BY <1>1, <2>2, GroundTerms
    <3>2. f \in DOMAIN terms /\ terms[f] = Var(v)
      BY <3>1, FrontIndexFacts
    <3>3. terms[i] = Var(v)
      BY <1>2, <2>2, Zenon DEF AnyTerm, Var
    <3> HIDE DEF v, f
    <3>4. t[i] = t[f]
      BY <1>1, <1>6, <2>2, <3>2, <3>3 DEF Selectable
    <3>5. t[f] = BindingOf(e, v)
      BY <1>6, <3>1 DEF Shows, f
    <3> QED
      BY <3>1, <3>4, <3>5
  <2>3. \A i \in 1..m : t[i] = Ground(e, terms)[i]
    BY <2>1, <2>2
  <2> QED
    BY <1>1, <1>3, <2>3
<1> QED
  BY <1>5, <1>6

\* JoinProjection::project fills in the bindings.
LEMMA ProjectIsGround ==
  ASSUME NEW e, NEW dest \in Seq(TermsOver(Nat)), NEW left, NEW right, NEW l, NEW r,
         Shows(e, left, l, VarIds(left)), \A v \in VarIds(left) : BindingOf(e, v) # Null,
         Shows(e, right, r, VarIds(right) \ VarIds(left))
  PROVE  Project(dest, left, right, l, r) = Ground(e, Kept(dest, left, right))
<1> DEFINE kept == Kept(dest, left, right)
           value(t) == IF ~t.isVar THEN t.id
                       ELSE IF /\ t.id \in VarIds(left)
                               /\ t.id \in VarIds(right) => l[FrontIndex(left, t.id)] # Null
                            THEN l[FrontIndex(left, t.id)]
                            ELSE r[FrontIndex(right, t.id)]
<1>1. Project(dest, left, right, l, r) = [i \in DOMAIN kept |-> value(kept[i])]
  BY DEF Project
<1>2. ASSUME NEW i \in DOMAIN kept
      PROVE  value(kept[i]) = IF kept[i].isVar THEN BindingOf(e, kept[i].id) ELSE kept[i].id
  <2> DEFINE v == kept[i].id
  <2>1. kept[i].isVar => v \in VarIds(left) \cup VarIds(right)
    BY KeptFacts
  <2>2. v \in VarIds(left) => l[FrontIndex(left, v)] = BindingOf(e, v) /\ BindingOf(e, v) # Null
    BY DEF Shows
  <2>3. v \in VarIds(right) /\ v \notin VarIds(left) => r[FrontIndex(right, v)] = BindingOf(e, v)
    BY DEF Shows
  <2> HIDE DEF kept
  <2> QED
    BY <2>1, <2>2, <2>3
<1> QED
  BY <1>1, <1>2 DEF Ground

\* So does leftComplement when the left row has all variables.
LEMMA ComplementIsGround ==
  ASSUME NEW e, NEW dest \in Seq(TermsOver(Nat)), NEW left, NEW right, NEW l,
         Shows(e, left, l, VarIds(left)), VarIds(right) \subseteq VarIds(left)
  PROVE  LeftComplement(dest, left, right, l) = Ground(e, Kept(dest, left, right))
<1> DEFINE kept == Kept(dest, left, right)
           value(t) == IF ~t.isVar THEN t.id
                       ELSE IF t.id \in VarIds(left) THEN l[FrontIndex(left, t.id)] ELSE Null
<1>1. LeftComplement(dest, left, right, l) = [i \in DOMAIN kept |-> value(kept[i])]
  BY DEF LeftComplement
<1>2. ASSUME NEW i \in DOMAIN kept
      PROVE  value(kept[i]) = IF kept[i].isVar THEN BindingOf(e, kept[i].id) ELSE kept[i].id
  <2> DEFINE v == kept[i].id
  <2>1. kept[i].isVar => v \in VarIds(left) \cup VarIds(right)
    BY KeptFacts
  <2>2. v \in VarIds(left) => l[FrontIndex(left, v)] = BindingOf(e, v)
    BY DEF Shows
  <2> HIDE DEF kept
  <2> QED
    BY <2>1, <2>2
<1> QED
  BY <1>1, <1>2 DEF Ground

\* Terms whose variables are bound keep their constants.
LEMMA GroundKept ==
  ASSUME Ready, NEW k \in 0..Len(body) - 1, NEW c \in PartialChoices(k), NEW e \in PartialChoices(k + 1),
         Agree(c, e, k), NEW terms, VarIds(terms) \subseteq Ids(k)
  PROVE  Ground(e, terms) = Ground(c, terms)
<1>1. \A v \in VarIds(terms) : BindingOf(e, v) = BindingOf(c, v)
  BY BindingKept
<1>2. \A i \in DOMAIN terms : Ground(e, terms)[i] = Ground(c, terms)[i]
  BY <1>1, GroundTerms
<1>3. Ground(e, terms) = [i \in DOMAIN terms |-> Ground(e, terms)[i]]
  BY DEF Ground
<1>4. Ground(c, terms) = [i \in DOMAIN terms |-> Ground(c, terms)[i]]
  BY DEF Ground
<1> QED
  BY <1>2, <1>3, <1>4

\* The condition of IsInstance on one literal.
InstanceAt(c, k) ==
  IF c[k] = 0
  THEN ~\E i \in DOMAIN Relation(k) :
          Relation(k)[i].terms = Ground(c, body[k].terms) /\ Relation(k)[i].value # Unknown
  ELSE /\ Fact(c, k).terms = Ground(c, body[k].terms)
       /\ Fact(c, k).value # Unknown
       /\ MatchesTruthValue(body[k], Fact(c, k).value)

LEMMA InstanceParts ==
  ASSUME NEW c
  PROVE  IsInstance(c) <=> \A k \in DOMAIN c : InstanceAt(c, k)
  BY Zenon DEF IsInstance, InstanceAt, Relation

LEMMA InstanceKept ==
  ASSUME Ready, NEW k \in 0..Len(body) - 1, NEW c \in PartialChoices(k), NEW e \in PartialChoices(k + 1),
         Agree(c, e, k), NEW j \in 1..k
  PROVE  InstanceAt(e, j) <=> InstanceAt(c, j)
<1>1. VarIds(body[j].terms) \subseteq Ids(k)
  BY DEF Ids
<1>2. Ground(e, body[j].terms) = Ground(c, body[j].terms)
  BY <1>1, GroundKept
<1>3. c[j] = e[j] /\ Fact(c, j) = Fact(e, j)
  BY DEF Agree, Fact
<1> QED
  BY <1>2, <1>3, Zenon DEF InstanceAt

\* The variables of a literal that accepts Unknown are bound before it.
LEMMA UnsafeBound ==
  ASSUME Ready, NEW k \in 0..Len(body) - 1, IsUnsafe(body[k + 1])
  PROVE  VarIds(body[k + 1].terms) \subseteq Ids(k) /\ k # 0
<1> DEFINE next == k + 1
<1>1. next \in DOMAIN body /\ k \in Nat
  BY DEF Ready
<1>2. BoundInOrder /\ ~IsUnsafe(body[1])
  BY DEF Ready
<1>3. next # 1 /\ \A v \in VarIds(body[next].terms) : \E j \in 1..next - 1 : v \in VarIds(body[j].terms)
  BY <1>1, <1>2 DEF BoundInOrder
<1>4. next - 1 = k /\ k # 0
  BY <1>1, <1>3
<1> HIDE DEF next
<1>5. VarIds(body[next].terms) \subseteq Ids(k)
  BY <1>3, <1>4 DEF Ids
<1> QED
  BY <1>4, <1>5 DEF next

\* A fact is that of the last literal under e when it is selected and has the
\* values of the variables that the literals before share with it.
LEMMA LastFits ==
  ASSUME Ready, NEW k \in 0..Len(body) - 1, NEW c \in PartialChoices(k), NEW e \in PartialChoices(k + 1),
         Agree(c, e, k), NEW x \in 1..Len(Relation(k + 1)), e[k + 1] \in {0, x}
  PROVE  LET t == Relation(k + 1)[x].terms
             lit == body[k + 1]
         IN  t = Ground(e, lit.terms) <=> Selectable(lit, t) /\ Shows(c, lit.terms, t, Ids(k))
<1> DEFINE next == k + 1
           t == Relation(next)[x].terms
           lit == body[next]
<1>1. next \in 1..Len(body) /\ k \in Nat
  BY DEF Ready
<1>2. lit.terms \in Seq(AnyTerm)
  BY <1>1, LiteralFacts
<1>3. t \in RowTerms(Value, Len(lit.terms))
  BY <1>1, FactTyped
<1>4. x # 0
  OBVIOUS
<1>5. Shows(e, lit.terms, t, VarIds(lit.terms) \ Ids(k))
  <2>1. CASE e[next] = 0
    <3>1. IsUnsafe(lit)
      <4>1. next \in 1..next
        BY <1>1
      <4> QED
        BY <2>1, <4>1 DEF PartialChoices
    <3>2. VarIds(lit.terms) \subseteq Ids(k)
      BY <3>1, UnsafeBound
    <3> QED
      BY <3>2 DEF Shows
  <2>2. CASE e[next] = x
    <3>1. e[next] # 0
      BY <1>4, <2>2
    <3>2. \A v \in VarIds(lit.terms) : v \notin Ids(k) => BindingOf(e, v) = Relation(next)[e[next]].terms[FrontIndex(lit.terms, v)]
      BY <3>1, BindingNew
    <3> QED
      BY <2>2, <3>2 DEF Shows
  <2> QED
    BY <2>1, <2>2
<1>6. Shows(e, lit.terms, t, Ids(k)) <=> Shows(c, lit.terms, t, Ids(k))
  <2>1. \A v \in Ids(k) : BindingOf(e, v) = BindingOf(c, v)
    BY BindingKept
  <2> QED
    BY <2>1 DEF Shows
<1> HIDE DEF t, lit
<1>7. t = Ground(e, lit.terms) <=> Selectable(lit, t) /\ Shows(e, lit.terms, t, Ids(k))
  BY <1>2, <1>3, <1>5, FactFits
<1>8. t = Ground(e, lit.terms) <=> Selectable(lit, t) /\ Shows(c, lit.terms, t, Ids(k))
  BY <1>6, <1>7
<1> QED
  BY <1>8 DEF t, lit

------------------------------------------------------------------------------
\* All places, in their order, give the sequence itself.
LEMMA AllElements ==
  ASSUME NEW E, NEW s \in Seq(E)
  PROVE  ElementsAt(s, DOMAIN s) = s
<1> DEFINE n == Len(s)
           order == Ascending(1..n)
<1>1. n \in Nat /\ DOMAIN s = 1..n
  OBVIOUS
<1> HIDE DEF n
<1>2. Cardinality(1..n) = n
  BY <1>1, FS_Interval
<1>3. ASSUME NEW x \in 1..n
      PROVE  Cardinality({y \in 1..n : y < x}) = x - 1
  <2>1. {y \in 1..n : y < x} = 1..x - 1
    BY <1>1
  <2>2. x - 1 \in Nat
    BY <1>1
  <2>3. Cardinality(1..x - 1) = x - 1
    BY <2>2, FS_Interval
  <2> QED
    BY <2>1, <2>3
<1>4. ASSUME NEW k \in 1..n
      PROVE  (CHOOSE x \in 1..n : Cardinality({y \in 1..n : y < x}) = k - 1) = k
  <2>1. \A x \in 1..n : Cardinality({y \in 1..n : y < x}) = k - 1 => x = k
    BY <1>1, <1>3
  <2>2. Cardinality({y \in 1..n : y < k}) = k - 1
    BY <1>3
  <2> QED
    BY <2>1, <2>2
<1>5. order = [k \in 1..n |-> k]
  BY <1>2, <1>4 DEF Ascending
<1>6. DOMAIN order = 1..n /\ \A k \in 1..n : order[k] = k
  BY <1>5
<1>7. ElementsAt(s, DOMAIN s) = [k \in 1..n |-> s[order[k]]]
  BY <1>1, <1>6 DEF ElementsAt
<1> HIDE DEF order
<1>8. s = [k \in 1..n |-> s[k]]
  BY <1>1
<1> QED
  BY <1>6, <1>7, <1>8

\* Terms with no other variables are kept.
LEMMA KeptAll ==
  ASSUME NEW dest \in Seq(AnyTerm), NEW left, NEW right, VarIds(dest) \subseteq VarIds(left) \cup VarIds(right)
  PROVE  Kept(dest, left, right) = dest
<1>1. \A i \in DOMAIN dest : dest[i].isVar => dest[i].id \in VarIds(left) \cup VarIds(right)
  BY DEF VarIds
<1>2. {i \in DOMAIN dest : dest[i].isVar => dest[i].id \in VarIds(left) \cup VarIds(right)} = DOMAIN dest
  BY <1>1
<1>3. Kept(dest, left, right) = ElementsAt(dest, DOMAIN dest)
  BY <1>2 DEF Kept
<1> QED
  BY <1>3, AllElements

\* The body binds the variables of the head and of the comparisons.
LEMMA BodyBinds ==
  ASSUME Ready
  PROVE  /\ VarIds(rule.head.terms) \subseteq Ids(Len(body))
         /\ \A k \in DOMAIN functions : /\ VarIds(functions[k].terms) \subseteq Ids(Len(body))
                                        /\ functions[k].terms \in Seq(AnyTerm)
<1> DEFINE bound == UNION {VarIds(lit.terms) : lit \in ToSet(body)}
<1>1. DOMAIN body = 1..Len(body)
  BY DEF Ready
<1>2. bound = Ids(Len(body))
  BY <1>1 DEF Ids, ToSet
<1> HIDE DEF bound
<1>3. /\ VarIds(rule.head.terms) \subseteq bound
      /\ \A f \in ToSet(functions) : VarIds(f.terms) \subseteq bound
  BY Zenon DEF Ready, Evaluable, bound, body, functions
<1>4. \A k \in DOMAIN functions : functions[k] \in ToSet(functions) /\ functions[k] \in Comparison
  BY DEF ToSet, Ready
<1>5. \A k \in DOMAIN functions : functions[k].terms \in Seq(AnyTerm)
  BY <1>4 DEF Comparison, Term, AnyTerm
<1> QED
  BY <1>2, <1>3, <1>4, <1>5

\* allFunctionsMatch on a pair of rows that show the bindings of e.
LEMMA FunctionsAgree ==
  ASSUME Ready, Len(body) # 1, NEW e, NEW left, NEW right, NEW l, NEW r,
         Shows(e, left, l, VarIds(left)), \A v \in VarIds(left) : BindingOf(e, v) # Null,
         Shows(e, right, r, VarIds(right) \ VarIds(left)),
         Ids(Len(body)) \subseteq VarIds(left) \cup VarIds(right)
  PROVE  AllFunctionsMatch(functions, left, right, l, r) <=> FunctionsHold(e)
<1>1. ASSUME NEW k \in DOMAIN functions
      PROVE  Project(functions[k].terms, left, right, l, r) = Ground(e, functions[k].terms)
  <2> DEFINE dest == functions[k].terms
  <2>1. dest \in Seq(AnyTerm) /\ VarIds(dest) \subseteq VarIds(left) \cup VarIds(right)
    BY BodyBinds
  <2>2. AnyTerm = TermsOver(Nat)
    BY DEF AnyTerm, TermsOver
  <2> HIDE DEF dest
  <2>3. Kept(dest, left, right) = dest
    BY <2>1, KeptAll
  <2>4. dest \in Seq(TermsOver(Nat))
    BY <2>1, <2>2
  <2>5. Project(dest, left, right, l, r) = Ground(e, Kept(dest, left, right))
    BY <2>4, ProjectIsGround
  <2> QED
    BY <2>3, <2>5 DEF dest
<1>2. AllFunctionsMatch(functions, left, right, l, r) <=>
        \A k \in DOMAIN functions :
          HoldsFor(functions[k].op, Project(functions[k].terms, left, right, l, r)[1],
                   Project(functions[k].terms, left, right, l, r)[2])
  BY Zenon DEF AllFunctionsMatch
<1>3. FunctionsHold(e) <=>
        \A k \in DOMAIN functions :
          HoldsFor(functions[k].op, Ground(e, functions[k].terms)[1], Ground(e, functions[k].terms)[2])
  BY Zenon DEF FunctionsHold
<1> QED
  BY <1>1, <1>2, <1>3, Zenon

\* One known value more: the conjunction takes the smaller one.
LEMMA MinOfValues ==
  ASSUME NEW S \in SUBSET KnownValue, S # {}
  PROVE  /\ Min(S) \in S
         /\ \A x \in {Incons, True} : Min(S \cup {x}) = Conjunction(Min(S), x)
<1>1. KnownValue \subseteq Nat /\ {Incons, True} \subseteq KnownValue
  BY DEF KnownValue, False, Incons, True
<1>2. Min(S) \in S /\ \A y \in S : Min(S) <= y
  BY <1>1, MinOf
<1>3. ASSUME NEW x \in {Incons, True}
      PROVE  Min(S \cup {x}) = Conjunction(Min(S), x)
  <2> DEFINE U == S \cup {x}
             a == Min(S)
             b == Min(U)
  <2>1. U \in SUBSET Nat /\ U # {}
    BY <1>1
  <2>2. b \in U /\ \A y \in U : b <= y
    BY <2>1, MinOf
  <2>3. a \in KnownValue /\ b \in KnownValue
    BY <1>1, <1>2, <2>2
  <2>4. b <= a /\ b <= x /\ (b = x \/ a <= b)
    BY <1>2, <2>2
  <2> HIDE DEF a, b
  <2>5. b = IF a <= x THEN a ELSE x
    BY <2>3, <2>4 DEF KnownValue, False, Incons, True
  <2>6. Conjunction(a, x) = IF a <= x THEN a ELSE x
    BY <2>3 DEF KnownValue, False, Incons, True, Conjunction, AndArr, Unknown
  <2> QED
    BY <2>5, <2>6 DEF a, b
<1> QED
  BY <1>2, <1>3

------------------------------------------------------------------------------
\* A fact, or none, for one literal more, and one literal less.
Extend(c, k, x) == [j \in 1..k + 1 |-> IF j \in 1..k THEN c[j] ELSE x]
Shorten(e, k) == [j \in 1..k |-> e[j]]

\* The facts that may be chosen for literal k, or 0.
Choosable(k) == {x \in 0..Len(Relation(k)) : x = 0 => IsUnsafe(body[k])}

LEMMA Extended ==
  ASSUME Ready, NEW k \in 0..Len(body) - 1, NEW c \in PartialChoices(k), NEW x \in Choosable(k + 1)
  PROVE  /\ Extend(c, k, x) \in PartialChoices(k + 1)
         /\ Agree(c, Extend(c, k, x), k)
         /\ Extend(c, k, x)[k + 1] = x
<1> DEFINE next == k + 1
           e == Extend(c, k, x)
<1>1. next \in 1..next /\ next \notin 1..k /\ k \in Nat /\ \A j \in 1..next : j \in 1..k \/ j = next
  OBVIOUS
<1>2. next \in 1..Len(body)
  BY <1>1 DEF Ready
<1>3. Len(Relation(next)) \in Nat
  BY <1>2, LiteralFacts
<1>4. x \in Nat /\ x <= Len(Relation(next)) /\ (x = 0 => IsUnsafe(body[next]))
  BY <1>3 DEF Choosable
<1>5. /\ c \in [1..k -> Nat]
      /\ \A j \in 1..k : c[j] <= Len(Relation(j)) /\ (c[j] = 0 => IsUnsafe(body[j]))
  BY DEF PartialChoices
<1>6. e = [j \in 1..next |-> IF j \in 1..k THEN c[j] ELSE x]
  BY DEF Extend
<1> HIDE DEF next, e
<1>7. \A j \in 1..k : e[j] = c[j] /\ j \in 1..next
  BY <1>1, <1>6 DEF next
<1>8. e[next] = x
  BY <1>1, <1>6
<1>9. e \in [1..next -> Nat]
  BY <1>4, <1>5, <1>6
<1>10. \A j \in 1..next : e[j] <= Len(Relation(j)) /\ (e[j] = 0 => IsUnsafe(body[j]))
  BY <1>1, <1>4, <1>5, <1>7, <1>8
<1>11. e \in PartialChoices(next)
  BY <1>9, <1>10 DEF PartialChoices
<1>12. Agree(c, e, k)
  BY <1>7 DEF Agree
<1> QED
  BY <1>8, <1>11, <1>12 DEF e, next

LEMMA Restricted ==
  ASSUME Ready, NEW k \in 0..Len(body) - 1, NEW e \in PartialChoices(k + 1)
  PROVE  /\ Shorten(e, k) \in PartialChoices(k)
         /\ Agree(Shorten(e, k), e, k)
         /\ e[k + 1] \in Choosable(k + 1)
         /\ Extend(Shorten(e, k), k, e[k + 1]) = e
<1> DEFINE next == k + 1
           c == Shorten(e, k)
<1>1. next \in 1..next /\ next \notin 1..k /\ k \in Nat /\ \A j \in 1..next : j \in 1..k \/ j = next
  OBVIOUS
<1>2. /\ e \in [1..next -> Nat]
      /\ \A j \in 1..next : e[j] <= Len(Relation(j)) /\ (e[j] = 0 => IsUnsafe(body[j]))
  BY DEF PartialChoices
<1>3. \A j \in 1..k : j \in 1..next
  BY <1>1
<1>4. c = [j \in 1..k |-> e[j]]
  BY DEF Shorten
<1>5. next \in 1..Len(body)
  BY <1>1 DEF Ready
<1>6. Len(Relation(next)) \in Nat
  BY <1>5, LiteralFacts
<1>7. e[next] \in Choosable(next)
  BY <1>1, <1>2, <1>6 DEF Choosable
<1> HIDE DEF c
<1>8. c \in PartialChoices(k)
  BY <1>2, <1>3, <1>4 DEF PartialChoices
<1>9. Agree(c, e, k)
  BY <1>4 DEF Agree
<1>10. Extend(c, k, e[next]) = e
  <2>1. Extend(c, k, e[next]) = [j \in 1..next |-> IF j \in 1..k THEN c[j] ELSE e[next]]
    BY DEF Extend
  <2>2. \A j \in 1..next : (IF j \in 1..k THEN c[j] ELSE e[next]) = e[j]
    BY <1>1, <1>4
  <2>3. e = [j \in 1..next |-> e[j]]
    BY <1>2
  <2> HIDE DEF next
  <2> QED
    BY <2>1, <2>2, <2>3
<1> QED
  BY <1>7, <1>8, <1>9, <1>10 DEF c

\* A choice and one that extends it.
Extends(e, c, k) == c \in PartialChoices(k) /\ e \in PartialChoices(k + 1) /\ Agree(c, e, k)

LEMMA ExtensionIsInstance ==
  ASSUME Ready, NEW k \in 0..Len(body) - 1, NEW c, NEW e, Extends(e, c, k)
  PROVE  IsInstance(e) <=> IsInstance(c) /\ InstanceAt(e, k + 1)
<1> DEFINE next == k + 1
<1>1. DOMAIN c = 1..k /\ DOMAIN e = 1..next
  BY DEF Extends, PartialChoices
<1>2. next \in 1..next /\ k \in Nat /\ (\A j \in 1..next : j \in 1..k \/ j = next) /\ \A j \in 1..k : j \in 1..next
  OBVIOUS
<1>3. \A j \in 1..k : InstanceAt(e, j) <=> InstanceAt(c, j)
  BY InstanceKept DEF Extends
<1> HIDE DEF next
<1>4. IsInstance(e) <=> \A j \in 1..next : InstanceAt(e, j)
  BY <1>1, InstanceParts
<1>5. IsInstance(c) <=> \A j \in 1..k : InstanceAt(c, j)
  BY <1>1, InstanceParts
<1>6. IsInstance(e) <=> IsInstance(c) /\ InstanceAt(e, next)
  BY <1>2, <1>3, <1>4, <1>5
<1> QED
  BY <1>6 DEF next

\* Fact x of literal k is selected, and known.
Selected(k) ==
  {x \in DOMAIN Relation(k) : /\ Relation(k)[x].value # Unknown
                              /\ Selectable(body[k], Relation(k)[x].terms)}

LEMMA InstanceByFact ==
  ASSUME Ready, NEW k \in 0..Len(body) - 1, NEW c, NEW e, Extends(e, c, k), e[k + 1] # 0
  PROVE  LET x == e[k + 1]
             t == Relation(k + 1)[x].terms
         IN  InstanceAt(e, k + 1) <=>
               /\ x \in Selected(k + 1)
               /\ MatchesTruthValue(body[k + 1], Relation(k + 1)[x].value)
               /\ Shows(c, body[k + 1].terms, t, Ids(k))
<1> DEFINE next == k + 1
           x == e[next]
           t == Relation(next)[x].terms
           lit == body[next]
<1>1. next \in 1..Len(body) /\ next \in 1..next
  BY DEF Ready
<1>2. x \in Nat /\ x <= Len(Relation(next)) /\ x # 0 /\ Len(Relation(next)) \in Nat
      /\ DOMAIN Relation(next) = 1..Len(Relation(next))
  BY <1>1, LiteralFacts DEF Extends, PartialChoices
<1>3. x \in 1..Len(Relation(next)) /\ x \in DOMAIN Relation(next)
  BY <1>2
<1>4. Fact(e, next) = Relation(next)[x]
  BY DEF Fact, Relation
<1>5. c \in PartialChoices(k) /\ e \in PartialChoices(next) /\ Agree(c, e, k)
  BY DEF Extends
<1>6. t = Ground(e, lit.terms) <=> Selectable(lit, t) /\ Shows(c, lit.terms, t, Ids(k))
  BY <1>3, <1>5, LastFits
<1>7. InstanceAt(e, next) <=> /\ Relation(next)[x].terms = Ground(e, body[next].terms)
                              /\ Relation(next)[x].value # Unknown
                              /\ MatchesTruthValue(body[next], Relation(next)[x].value)
  BY <1>2, <1>4 DEF InstanceAt
<1>8. x \in Selected(next) <=> Relation(next)[x].value # Unknown /\ Selectable(lit, t)
  BY <1>3 DEF Selected
<1> HIDE DEF next, x
<1> QED
  BY <1>6, <1>7, <1>8 DEF next, x

LEMMA InstanceWithoutFact ==
  ASSUME Ready, NEW k \in 0..Len(body) - 1, NEW c, NEW e, Extends(e, c, k), e[k + 1] = 0
  PROVE  InstanceAt(e, k + 1) <=>
           ~\E x \in Selected(k + 1) : Shows(c, body[k + 1].terms, Relation(k + 1)[x].terms, Ids(k))
<1> DEFINE next == k + 1
           lit == body[next]
<1>1. next \in 1..Len(body)
  BY DEF Ready
<1>2. DOMAIN Relation(next) = 1..Len(Relation(next))
  BY <1>1, LiteralFacts
<1>3. c \in PartialChoices(k) /\ e \in PartialChoices(next) /\ Agree(c, e, k)
  BY DEF Extends
<1>4. ASSUME NEW x \in DOMAIN Relation(next)
      PROVE  Relation(next)[x].terms = Ground(e, lit.terms) <=>
               Selectable(lit, Relation(next)[x].terms) /\ Shows(c, lit.terms, Relation(next)[x].terms, Ids(k))
  <2>1. x \in 1..Len(Relation(next)) /\ e[next] \in {0, x}
    BY <1>2
  <2> QED
    BY <1>3, <2>1, LastFits
<1>5. InstanceAt(e, next) <=> ~\E x \in DOMAIN Relation(next) :
        Relation(next)[x].terms = Ground(e, lit.terms) /\ Relation(next)[x].value # Unknown
  BY DEF InstanceAt
<1> HIDE DEF next
<1>6. InstanceAt(e, next) <=> ~\E x \in Selected(next) : Shows(c, lit.terms, Relation(next)[x].terms, Ids(k))
  BY <1>4, <1>5, Zenon DEF Selected, lit
<1> QED
  BY <1>6 DEF next

------------------------------------------------------------------------------
\* The values of the facts of a choice, as BodyValue takes them.
ValuesOf(c) ==
  {Fact(c, 1).value} \cup {ResolveToTrueOrIncons(Fact(c, k).value) : k \in Chosen(c) \ {1}}

LEMMA InstanceValues ==
  ASSUME Ready, NEW k \in 1..Len(body), NEW c \in PartialChoices(k), IsInstance(c)
  PROVE  /\ c[1] # 0 /\ Fact(c, 1).value \in KnownValue
         /\ ValuesOf(c) \in SUBSET KnownValue /\ ValuesOf(c) # {}
         /\ BodyValue(c) = Min(ValuesOf(c)) /\ BodyValue(c) \in KnownValue
<1>1. /\ 1 \in 1..k /\ 1..k \subseteq 1..Len(body) /\ DOMAIN c = 1..k
      /\ DOMAIN body = 1..Len(body) /\ Len(body) \in Nat
  BY DEF PartialChoices, Ready
<1>2. c[1] # 0
  <2>1. ~IsUnsafe(body[1])
    BY DEF Ready
  <2> QED
    BY <1>1, <2>1 DEF PartialChoices
<1>3. ASSUME NEW j \in 1..k, c[j] # 0
      PROVE  Fact(c, j).value \in KnownValue
  <2>1. j \in 1..Len(body)
    BY <1>1
  <2>2. Len(Relation(j)) \in Nat
    BY <2>1, LiteralFacts
  <2>3. c[j] \in 1..Len(Relation(j))
    BY <1>3, <2>2 DEF PartialChoices
  <2>4. Relation(j)[c[j]].value \in TruthValue
    BY <2>1, <2>3, FactTyped
  <2>5. InstanceAt(c, j)
    BY <1>1, InstanceParts
  <2>6. Fact(c, j).value # Unknown /\ Fact(c, j) = Relation(j)[c[j]]
    BY <1>3, <2>5 DEF InstanceAt, Fact, Relation
  <2> QED
    BY <2>4, <2>6 DEF TruthValue, KnownValue, False, Unknown, Incons, True
<1>4. \A v : ResolveToTrueOrIncons(v) \in KnownValue
  BY DEF ResolveToTrueOrIncons, KnownValue
<1>5. Fact(c, 1).value \in KnownValue
  BY <1>1, <1>2, <1>3
<1>6. ValuesOf(c) \in SUBSET KnownValue /\ ValuesOf(c) # {}
  BY <1>4, <1>5 DEF ValuesOf
<1>7. BodyValue(c) = Min(ValuesOf(c))
  BY DEF BodyValue, ValuesOf
<1>8. BodyValue(c) \in KnownValue
  BY <1>6, <1>7, MinOfValues
<1> QED
  BY <1>2, <1>5, <1>6, <1>7, <1>8

\* The value of the first fact is kept.
LEMMA ValueOfFirst ==
  ASSUME Ready, NEW e \in PartialChoices(1), IsInstance(e)
  PROVE  BodyValue(e) = Relation(1)[e[1]].value
<1>1. 1 \in 1..Len(body)
  BY DEF Ready
<1>2. DOMAIN e = 1..1
  BY DEF PartialChoices
<1>3. ValuesOf(e) = {Fact(e, 1).value}
  BY <1>2 DEF ValuesOf, Chosen
<1>4. BodyValue(e) = Min(ValuesOf(e)) /\ ValuesOf(e) \in SUBSET KnownValue
  BY <1>1, InstanceValues
<1>5. Min(ValuesOf(e)) \in ValuesOf(e)
  BY <1>3, <1>4, MinOfValues
<1> QED
  BY <1>3, <1>4, <1>5 DEF Fact, Relation

\* A further fact is joined in; without one the value stays.
LEMMA ValueExtended ==
  ASSUME Ready, NEW k \in 1..Len(body) - 1, NEW c, NEW e, Extends(e, c, k), IsInstance(c)
  PROVE  BodyValue(e) = IF e[k + 1] = 0 THEN BodyValue(c)
                        ELSE Conjunction(BodyValue(c), ResolveToTrueOrIncons(Relation(k + 1)[e[k + 1]].value))
<1> DEFINE next == k + 1
           w == ResolveToTrueOrIncons(Relation(next)[e[next]].value)
<1>1. /\ k \in 1..Len(body) /\ k \in Nat /\ next \in 1..next /\ next \notin 1..k /\ next # 1 /\ 1 \in 1..k
      /\ \A j \in 1..next : j \in 1..k \/ j = next
      /\ \A j \in 1..k : j \in 1..next
  BY DEF Ready
<1>2. c \in PartialChoices(k) /\ DOMAIN c = 1..k /\ DOMAIN e = 1..next /\ \A j \in 1..k : c[j] = e[j]
  BY DEF Extends, PartialChoices, Agree
<1>3. \A j \in 1..k : Fact(c, j) = Fact(e, j)
  BY <1>2 DEF Fact
<1>4. Fact(e, next) = Relation(next)[e[next]]
  BY DEF Fact, Relation
<1>5. BodyValue(e) = Min(ValuesOf(e))
  BY DEF BodyValue, ValuesOf
<1>6. ValuesOf(c) \in SUBSET KnownValue /\ ValuesOf(c) # {} /\ BodyValue(c) = Min(ValuesOf(c))
  BY <1>1, <1>2, InstanceValues
<1> HIDE DEF next
<1>7. Chosen(e) = IF e[next] = 0 THEN Chosen(c) ELSE Chosen(c) \cup {next}
  <2>1. \A j \in Chosen(e) : j \in Chosen(c) \/ j = next
    BY <1>1, <1>2 DEF Chosen
  <2>2. \A j \in Chosen(c) : j \in Chosen(e)
    BY <1>1, <1>2 DEF Chosen
  <2>3. next \notin Chosen(c) /\ (next \in Chosen(e) <=> e[next] # 0)
    BY <1>1, <1>2 DEF Chosen
  <2>4. e[next] = 0 => Chosen(e) = Chosen(c)
    BY <2>1, <2>2, <2>3, Zenon
  <2>5. e[next] # 0 => Chosen(e) = Chosen(c) \cup {next}
    BY <2>1, <2>2, <2>3, Zenon
  <2> QED
    BY <2>4, <2>5
<1>8. Chosen(c) \subseteq 1..k
  BY <1>2 DEF Chosen
<1>9. ValuesOf(e) = IF e[next] = 0 THEN ValuesOf(c) ELSE ValuesOf(c) \cup {w}
  <2>1. Fact(c, 1) = Fact(e, 1)
    BY <1>1, <1>3
  <2>2. CASE e[next] = 0
    BY <1>3, <1>7, <1>8, <2>1, <2>2 DEF ValuesOf
  <2>3. CASE e[next] # 0
    <3>1. Chosen(e) \ {1} = (Chosen(c) \ {1}) \cup {next}
      BY <1>1, <1>7, <2>3
    <3>2. {ResolveToTrueOrIncons(Fact(e, j).value) : j \in Chosen(e) \ {1}} =
            {ResolveToTrueOrIncons(Fact(c, j).value) : j \in Chosen(c) \ {1}} \cup {w}
      BY <1>3, <1>4, <1>8, <3>1
    <3> HIDE DEF w
    <3> QED
      BY <2>1, <2>3, <3>2 DEF ValuesOf
  <2> QED
    BY <2>2, <2>3
<1>10. w \in {Incons, True}
  BY DEF ResolveToTrueOrIncons
<1> HIDE DEF w
<1>11. BodyValue(e) = IF e[next] = 0 THEN BodyValue(c) ELSE Conjunction(BodyValue(c), w)
  BY <1>5, <1>6, <1>9, <1>10, MinOfValues
<1> QED
  BY <1>11 DEF w, next

\* The instances of the first k literals; with the last one, those that the
\* comparisons accept.
Found(k) == {c \in PartialChoices(k) : IsInstance(c) /\ (k = Len(body) => FunctionsHold(c))}

RowOf(c, cols, isTrue) ==
  [terms |-> Ground(c, cols), value |-> ResolveTruthValue(BodyValue(c), isTrue)]
RowsFor(k, cols, isTrue) == [c \in Found(k) |-> RowOf(c, cols, isTrue)]

AllSafe == \A k \in DOMAIN body : ~IsUnsafe(body[k])

\* The rows of the temporary relation after k literals: those of instances,
\* and when all literals are safe those of all instances, each once.
Stage(rows, k, cols, isTrue) ==
  /\ rows \in Seq({RowOf(c, cols, isTrue) : c \in Found(k)})
  /\ Lists(rows, Found(k), RowsFor(k, cols, isTrue), AllSafe)

\* No fact for no literal.
None == [j \in 1..0 |-> 0]

LEMMA NoneIsInstance ==
  ASSUME Ready
  PROVE  None \in PartialChoices(0) /\ IsInstance(None) /\ Ids(0) = {}
<1>1. 1..0 = {}
  OBVIOUS
<1>2. None \in PartialChoices(0)
  BY <1>1 DEF None, PartialChoices
<1>3. DOMAIN None = {}
  BY <1>1 DEF None
<1>4. IsInstance(None)
  BY <1>3, InstanceParts
<1> QED
  BY <1>1, <1>2, <1>4 DEF Ids

\* The facts that EvalSubgoalFirst selects.
FirstSelected == {x \in Selected(1) : MatchesTruthValue(body[1], Relation(1)[x].value)}

LEMMA FirstIsSafe ==
  ASSUME Ready
  PROVE  ~IsUnsafe(body[1]) /\ 1 \in 1..Len(body)
  BY DEF Ready

\* They are the instances of the first literal.
LEMMA FirstFound ==
  ASSUME Ready
  PROVE  /\ \A x \in FirstSelected : Extend(None, 0, x) \in Found(1) /\ Extend(None, 0, x)[1] = x
         /\ \A e \in Found(1) : e[1] \in FirstSelected /\ Extend(None, 0, e[1]) = e
<1>1. None \in PartialChoices(0) /\ IsInstance(None) /\ Ids(0) = {}
  BY NoneIsInstance
<1>2. 0 \in 0..Len(body) - 1 /\ 1 \in 1..Len(body) /\ 0 + 1 = 1
  BY DEF Ready
<1>3. DOMAIN Relation(1) = 1..Len(Relation(1)) /\ Len(Relation(1)) \in Nat
  BY <1>2, LiteralFacts
<1>4. ASSUME NEW e, Extends(e, None, 0), e[1] # 0
      PROVE  IsInstance(e) <=> e[1] \in FirstSelected
  <2>1. Shows(None, body[1].terms, Relation(1)[e[1]].terms, Ids(0))
    BY <1>1 DEF Shows
  <2>2. InstanceAt(e, 0 + 1) <=>
          /\ e[0 + 1] \in Selected(0 + 1)
          /\ MatchesTruthValue(body[0 + 1], Relation(0 + 1)[e[0 + 1]].value)
          /\ Shows(None, body[0 + 1].terms, Relation(0 + 1)[e[0 + 1]].terms, Ids(0))
    BY <1>2, <1>4, InstanceByFact
  <2>3. IsInstance(e) <=> InstanceAt(e, 0 + 1)
    BY <1>1, <1>2, <1>4, ExtensionIsInstance
  <2>4. IsInstance(e) <=> e[1] \in Selected(1) /\ MatchesTruthValue(body[1], Relation(1)[e[1]].value)
    BY <1>2, <2>1, <2>2, <2>3
  <2> QED
    BY <2>4 DEF FirstSelected
<1>5. Len(body) = 1 => \A e : FunctionsHold(e)
  BY DEF FunctionsHold
<1>6. ASSUME NEW x \in FirstSelected
      PROVE  Extend(None, 0, x) \in Found(1) /\ Extend(None, 0, x)[1] = x
  <2> DEFINE e == Extend(None, 0, x)
  <2>1. x \in 1..Len(Relation(1)) /\ x # 0
    BY <1>3 DEF FirstSelected, Selected
  <2>2. x \in Choosable(0 + 1)
    BY <1>2, <1>3, <2>1 DEF Choosable
  <2>3. e \in PartialChoices(0 + 1) /\ Agree(None, e, 0) /\ e[0 + 1] = x
    BY <1>1, <1>2, <2>2, Extended
  <2> HIDE DEF e
  <2>4. Extends(e, None, 0) /\ e[1] = x /\ e \in PartialChoices(1)
    BY <1>1, <1>2, <2>3 DEF Extends
  <2>5. IsInstance(e)
    BY <1>4, <2>1, <2>4
  <2>6. e \in Found(1)
    BY <1>5, <2>4, <2>5 DEF Found
  <2> QED
    BY <2>4, <2>6 DEF e
<1>7. ASSUME NEW e \in Found(1)
      PROVE  e[1] \in FirstSelected /\ Extend(None, 0, e[1]) = e
  <2>1. e \in PartialChoices(1) /\ IsInstance(e)
    BY DEF Found
  <2>2. e \in PartialChoices(0 + 1)
    BY <1>2, <2>1
  <2>3. /\ Shorten(e, 0) \in PartialChoices(0)
        /\ Agree(Shorten(e, 0), e, 0)
        /\ e[0 + 1] \in Choosable(0 + 1)
        /\ Extend(Shorten(e, 0), 0, e[0 + 1]) = e
    BY <1>2, <2>2, Restricted
  <2>4. Shorten(e, 0) = None
    BY DEF Shorten, None
  <2>5. Extends(e, None, 0)
    BY <1>1, <2>2, <2>3, <2>4 DEF Extends
  <2>6. e[1] # 0
    BY <1>2, <2>1, InstanceValues
  <2>7. e[1] \in FirstSelected
    BY <1>4, <2>1, <2>5, <2>6
  <2> QED
    BY <1>2, <2>3, <2>4, <2>7
<1> QED
  BY <1>6, <1>7

\* EvalSubgoalFirst lists the instances of the first literal.
LEMMA FirstStage ==
  ASSUME Ready, NEW dest \in Seq(AnyTerm), NEW isTrue \in BOOLEAN
  PROVE  Stage(EvalSubgoalFirst(body[1], Relation(1), dest, isTrue), 1,
               Kept(dest, body[1].terms, << >>), isTrue)
<1> DEFINE lit == body[1]
           pool == Relation(1)
           selected == ElementsAt(pool, FirstSelected)
           kept == Kept(dest, lit.terms, << >>)
           rowAt(x) == [terms |-> Project(dest, lit.terms, << >>, pool[x].terms, << >>),
                        value |-> ResolveTruthValue(pool[x].value, isTrue)]
           rows == EvalSubgoalFirst(lit, pool, dest, isTrue)
<1>1. 1 \in 1..Len(body) /\ 0 \in 0..Len(body) /\ 1 \in 0..Len(body)
  BY DEF Ready
<1>2. lit.terms \in Seq(AnyTerm) /\ pool \in Seq(FactsFor(1))
  BY <1>1, LiteralFacts
<1>3. FirstSelected \in SUBSET (DOMAIN pool)
  BY DEF FirstSelected, Selected
<1>4. Lists(selected, FirstSelected, pool, AllSafe) /\ selected \in Seq(FactsFor(1))
  BY <1>2, <1>3, ElementsListed, ElementsAtFacts
<1>5. FirstSelected = {i \in DOMAIN pool : /\ Selectable(lit, pool[i].terms)
                                           /\ MatchesTruthValue(lit, pool[i].value)
                                           /\ pool[i].value # Unknown}
  BY DEF FirstSelected, Selected
<1>6. rows = [i \in DOMAIN selected |->
                [terms |-> Project(dest, lit.terms, << >>, selected[i].terms, << >>),
                 value |-> ResolveTruthValue(selected[i].value, isTrue)]]
  BY <1>5 DEF EvalSubgoalFirst
<1>7. PICK place : IsListing(place, selected, FirstSelected, pool, AllSafe)
  BY <1>4 DEF Lists
<1>8. place \in [DOMAIN selected -> FirstSelected] /\ \A k \in DOMAIN selected : selected[k] = pool[place[k]]
  BY <1>7 DEF IsListing
<1>9. ASSUME NEW x \in FirstSelected
      PROVE  rowAt(x) = RowOf(Extend(None, 0, x), kept, isTrue)
  <2> DEFINE e == Extend(None, 0, x)
             t == pool[x].terms
  <2>1. e \in Found(1) /\ e[1] = x
    BY FirstFound
  <2> HIDE DEF e
  <2>2. e \in PartialChoices(1) /\ IsInstance(e)
    BY <2>1 DEF Found
  <2>3. DOMAIN e = 1..1 /\ 1 \in 1..1
    BY <2>2 DEF PartialChoices
  <2>4. InstanceAt(e, 1) /\ e[1] # 0
    BY <1>1, <2>2, <2>3, InstanceParts, InstanceValues
  <2>5. t = Ground(e, lit.terms)
    BY <2>1, <2>4 DEF InstanceAt, Fact, Relation
  <2>6. Shows(e, lit.terms, t, VarIds(lit.terms))
    BY <1>2, <2>5, GroundShows
  <2>7. VarIds(lit.terms) = Ids(1)
    <3>1. 1..1 = {1}
      OBVIOUS
    <3> QED
      BY <3>1 DEF Ids
  <2>8. \A v \in VarIds(lit.terms) : BindingOf(e, v) # Null
    BY <1>1, <2>2, <2>7, BindingTyped DEF Value
  <2>9. Shows(e, << >>, << >>, VarIds(<< >>) \ VarIds(lit.terms))
    <3>1. VarIds(<< >>) = {}
      BY DEF VarIds
    <3> QED
      BY <3>1 DEF Shows
  <2>10. dest \in Seq(TermsOver(Nat))
    <3>1. AnyTerm = TermsOver(Nat)
      BY DEF AnyTerm, TermsOver
    <3> QED
      BY <3>1
  <2> HIDE DEF t, lit
  <2>11. Project(dest, lit.terms, << >>, t, << >>) = Ground(e, kept)
    BY <2>6, <2>8, <2>9, <2>10, ProjectIsGround
  <2>12. BodyValue(e) = pool[x].value
    BY <2>1, <2>2, ValueOfFirst
  <2> QED
    BY <2>11, <2>12 DEF RowOf, t, e
<1> DEFINE h == [k \in DOMAIN selected |-> Extend(None, 0, place[k])]
<1> HIDE DEF selected, kept, lit, pool
<1>10. ASSUME NEW k \in DOMAIN selected
       PROVE  /\ h[k] \in Found(1) /\ h[k][1] = place[k]
              /\ rows[k] = RowOf(h[k], kept, isTrue)
  <2>1. place[k] \in FirstSelected /\ selected[k] = pool[place[k]]
    BY <1>8
  <2>2. rows[k] = rowAt(place[k])
    BY <1>6, <2>1
  <2>3. h[k] = Extend(None, 0, place[k])
    OBVIOUS
  <2> HIDE DEF h, rows, rowAt
  <2> QED
    BY <1>9, <2>1, <2>2, <2>3, FirstFound
<1>11. DOMAIN rows = DOMAIN selected
  BY <1>6
<1>12. h \in [DOMAIN rows -> Found(1)] /\ \A k \in DOMAIN rows : rows[k] = RowsFor(1, kept, isTrue)[h[k]]
  <2> HIDE DEF rows
  <2> QED
    BY <1>10, <1>11 DEF RowsFor
<1>13. ASSUME AllSafe, NEW i \in DOMAIN rows, NEW j \in DOMAIN rows, h[i] = h[j]
       PROVE  i = j
  <2> HIDE DEF rows, h
  <2>1. place[i] = place[j] /\ i \in DOMAIN selected /\ j \in DOMAIN selected
    BY <1>10, <1>11, <1>13
  <2>2. \A a, b \in DOMAIN selected : place[a] = place[b] => a = b
    BY <1>7, <1>13, Zenon DEF IsListing
  <2> QED
    BY <2>1, <2>2
<1>14. ASSUME AllSafe, NEW e \in Found(1)
       PROVE  \E k \in DOMAIN rows : h[k] = e
  <2>1. e[1] \in FirstSelected /\ Extend(None, 0, e[1]) = e
    BY FirstFound
  <2>2. PICK k \in DOMAIN selected : place[k] = e[1]
    BY <1>7, <1>14, <2>1, Zenon DEF IsListing
  <2> HIDE DEF rows
  <2> QED
    BY <1>11, <2>1, <2>2
<1> HIDE DEF h, rows, rowAt
<1>15. IsListing(h, rows, Found(1), RowsFor(1, kept, isTrue), AllSafe)
  BY <1>12, <1>13, <1>14, Zenon DEF IsListing
<1>16. rows \in Seq({RowOf(c, kept, isTrue) : c \in Found(1)})
  <2> DEFINE S == {RowOf(c, kept, isTrue) : c \in Found(1)}
  <2>1. DOMAIN selected = 1..Len(selected) /\ Len(selected) \in Nat
    BY <1>4 DEF selected, pool
  <2>2. \A k \in 1..Len(selected) : rows[k] \in S
    BY <1>10, <2>1
  <2>3. rows = [k \in 1..Len(selected) |-> rows[k]]
    BY <1>6, <2>1 DEF rows
  <2> HIDE DEF S
  <2>4. rows \in [1..Len(selected) -> S]
    BY <2>2, <2>3
  <2>5. rows \in Seq(S)
    BY <2>1, <2>4
  <2> QED
    BY <2>5 DEF S
<1>17. Stage(rows, 1, kept, isTrue)
  BY <1>15, <1>16 DEF Stage, Lists
<1> QED
  BY <1>17 DEF rows, kept, lit, pool

------------------------------------------------------------------------------
(***************************************************************************)
(* The two sides of a join: the rows of the temporary relation and the     *)
(* facts of the next literal, both sorted by the variables they share.     *)
(***************************************************************************)
SharedIds(k) == Ids(k) \cap VarIds(body[k + 1].terms)
SharedVars(k) == Ascending(SharedIds(k))
Width(k) == Cardinality(SharedIds(k))

\* The keys of a choice and of a fact.
ChoiceKey(c, k) == [a \in 1..Width(k) |-> BindingOf(c, SharedVars(k)[a])]
FactKey(x, k) ==
  [a \in 1..Width(k) |-> Relation(k + 1)[x].terms[FrontIndex(body[k + 1].terms, SharedVars(k)[a])]]

\* Key is without a missing constant.
NoNull(d, key) == key \in KeyOf(d) /\ \A a \in 1..d : key[a] # Null

LEMMA SharedFacts ==
  ASSUME Ready, NEW k \in 0..Len(body) - 1
  PROVE  /\ Width(k) \in Nat
         /\ DOMAIN SharedVars(k) = 1..Width(k)
         /\ \A a \in 1..Width(k) : SharedVars(k)[a] \in SharedIds(k)
         /\ \A v \in SharedIds(k) : \E a \in 1..Width(k) : SharedVars(k)[a] = v
<1> DEFINE next == k + 1
<1>1. next \in 1..Len(body)
  BY DEF Ready
<1>2. VarIds(body[next].terms) \in SUBSET Nat /\ IsFiniteSet(VarIds(body[next].terms))
  BY <1>1, LiteralFacts
<1>3. SharedIds(k) \in SUBSET Nat /\ IsFiniteSet(SharedIds(k))
  BY <1>2, FS_Subset DEF SharedIds
<1> QED
  BY <1>3, AscendingFacts DEF SharedVars, Width

LEMMA KeyOfChoice ==
  ASSUME Ready, NEW k \in 0..Len(body) - 1, NEW c \in PartialChoices(k),
         NEW left \in Seq(AnyTerm), VarIds(left) = Ids(k), NEW row, row.terms = Ground(c, left)
  PROVE  Key(SharedVars(k), left, row) = ChoiceKey(c, k) /\ NoNull(Width(k), ChoiceKey(c, k))
<1>1. Width(k) \in Nat /\ DOMAIN SharedVars(k) = 1..Width(k)
      /\ \A a \in 1..Width(k) : SharedVars(k)[a] \in SharedIds(k)
  BY SharedFacts
<1>2. k \in 0..Len(body)
  BY DEF Ready
<1>3. ASSUME NEW a \in 1..Width(k)
      PROVE  /\ row.terms[FrontIndex(left, SharedVars(k)[a])] = BindingOf(c, SharedVars(k)[a])
             /\ BindingOf(c, SharedVars(k)[a]) \in Value
  <2>1. SharedVars(k)[a] \in Ids(k)
    BY <1>1 DEF SharedIds
  <2>2. BindingOf(c, SharedVars(k)[a]) \in Value
    BY <1>2, <2>1, BindingTyped
  <2>3. Shows(c, left, Ground(c, left), VarIds(left))
    BY GroundShows
  <2> QED
    BY <2>1, <2>2, <2>3 DEF Shows
<1>4. Key(SharedVars(k), left, row) = [a \in 1..Width(k) |-> row.terms[FrontIndex(left, SharedVars(k)[a])]]
  BY <1>1 DEF Key
<1>5. Key(SharedVars(k), left, row) = ChoiceKey(c, k)
  BY <1>3, <1>4 DEF ChoiceKey
<1>6. NoNull(Width(k), ChoiceKey(c, k))
  BY <1>3 DEF NoNull, ChoiceKey, KeyOf, Value
<1> QED
  BY <1>5, <1>6

LEMMA KeyOfFact ==
  ASSUME Ready, NEW k \in 0..Len(body) - 1, NEW x \in DOMAIN Relation(k + 1),
         NEW row, row.terms = Relation(k + 1)[x].terms
  PROVE  Key(SharedVars(k), body[k + 1].terms, row) = FactKey(x, k) /\ NoNull(Width(k), FactKey(x, k))
<1> DEFINE next == k + 1
           terms == body[next].terms
           t == Relation(next)[x].terms
<1>1. Width(k) \in Nat /\ DOMAIN SharedVars(k) = 1..Width(k)
      /\ \A a \in 1..Width(k) : SharedVars(k)[a] \in SharedIds(k)
  BY SharedFacts
<1>2. next \in 1..Len(body)
  BY DEF Ready
<1>3. terms \in Seq(AnyTerm) /\ x \in 1..Len(Relation(next))
  BY <1>2, LiteralFacts
<1>4. \A i \in DOMAIN terms : t[i] \in Value
  BY <1>2, <1>3, FactTyped
<1>5. ASSUME NEW a \in 1..Width(k)
      PROVE  t[FrontIndex(terms, SharedVars(k)[a])] \in Value
  <2>1. SharedVars(k)[a] \in VarIds(terms)
    BY <1>1 DEF SharedIds
  <2> HIDE DEF terms, t
  <2>2. FrontIndex(terms, SharedVars(k)[a]) \in DOMAIN terms
    BY <1>3, <2>1, FrontIndexFacts
  <2> QED
    BY <1>4, <2>2
<1>6. Key(SharedVars(k), terms, row) = FactKey(x, k)
  BY <1>1 DEF Key, FactKey
<1>7. NoNull(Width(k), FactKey(x, k))
  BY <1>5 DEF NoNull, FactKey, KeyOf, Value
<1> QED
  BY <1>6, <1>7

\* Equal keys are equal bindings.
LEMMA KeysShow ==
  ASSUME Ready, NEW k \in 0..Len(body) - 1, NEW c, NEW x
  PROVE  ChoiceKey(c, k) = FactKey(x, k) <=>
           Shows(c, body[k + 1].terms, Relation(k + 1)[x].terms, Ids(k))
<1> DEFINE terms == body[k + 1].terms
           t == Relation(k + 1)[x].terms
<1>1. /\ \A a \in 1..Width(k) : SharedVars(k)[a] \in SharedIds(k)
      /\ \A v \in SharedIds(k) : \E a \in 1..Width(k) : SharedVars(k)[a] = v
  BY SharedFacts
<1>2. ChoiceKey(c, k) = FactKey(x, k) <=>
        \A a \in 1..Width(k) : BindingOf(c, SharedVars(k)[a]) = t[FrontIndex(terms, SharedVars(k)[a])]
  BY DEF ChoiceKey, FactKey
<1>3. Shows(c, terms, t, Ids(k)) <=> \A v \in SharedIds(k) : t[FrontIndex(terms, v)] = BindingOf(c, v)
  BY DEF Shows, SharedIds
<1> HIDE DEF terms, t
<1>4. ChoiceKey(c, k) = FactKey(x, k) <=> Shows(c, terms, t, Ids(k))
  BY <1>1, <1>2, <1>3, Zenon
<1> QED
  BY <1>4 DEF terms, t

\* The rows that the facts of literal k make.
MatchRow(k, x) ==
  [terms |-> Relation(k)[x].terms, value |-> ResolveToTrueOrIncons(Relation(k)[x].value),
   match |-> MatchesTruthValue(body[k], Relation(k)[x].value)]
MatchRows(k) == [x \in DOMAIN Relation(k) |-> MatchRow(k, x)]
Accepted(k) == {x \in Selected(k) : IsUnsafe(body[k]) \/ MatchesTruthValue(body[k], Relation(k)[x].value)}

\* selectKBTupleRefAndMatch, without the rows that are not acceptable.
AcceptedRows(k) ==
  LET rows == SelectAndMatch(body[k], Relation(k))
  IN  ElementsAt(rows, {i \in DOMAIN rows : IsUnsafe(body[k]) \/ rows[i].match})

LEMMA AcceptedListed ==
  ASSUME Ready, NEW k \in 1..Len(body), NEW exact
  PROVE  /\ Lists(AcceptedRows(k), Accepted(k), MatchRows(k), exact)
         /\ AcceptedRows(k) \in Seq({MatchRow(k, x) : x \in Accepted(k)})
<1> DEFINE lit == body[k]
           pool == Relation(k)
           selected == ElementsAt(pool, Selected(k))
           rows == SelectAndMatch(lit, pool)
           places == {i \in DOMAIN rows : IsUnsafe(lit) \/ rows[i].match}
           R == {row \in {MatchRow(k, x) : x \in Selected(k)} : IsUnsafe(lit) \/ row.match}
<1>1. pool \in Seq(FactsFor(k))
  BY LiteralFacts
<1>2. Selected(k) \in SUBSET (DOMAIN pool)
  BY DEF Selected
<1>3. Lists(selected, Selected(k), pool, exact) /\ selected \in Seq(FactsFor(k))
  BY <1>1, <1>2, ElementsListed, ElementsAtFacts
<1>4. rows = [i \in DOMAIN selected |->
                [terms |-> selected[i].terms, value |-> ResolveToTrueOrIncons(selected[i].value),
                 match |-> MatchesTruthValue(lit, selected[i].value)]]
  BY Zenon DEF SelectAndMatch, Selected
<1>5. DOMAIN selected = 1..Len(selected) /\ Len(selected) \in Nat
  BY <1>3
<1> HIDE DEF selected, rows
<1>6. DOMAIN rows = DOMAIN selected
  BY <1>4
<1>7. ASSUME NEW i \in DOMAIN selected, NEW x \in Selected(k), selected[i] = pool[x]
      PROVE  rows[i] = MatchRow(k, x)
  BY <1>4, <1>7 DEF MatchRow
<1>8. \A x \in Selected(k) : MatchRows(k)[x] = MatchRow(k, x)
  BY <1>2 DEF MatchRows
<1>9. Follows(rows, selected, Selected(k), pool, MatchRows(k))
  BY <1>6, <1>7, <1>8 DEF Follows
<1>10. Lists(rows, Selected(k), MatchRows(k), exact)
  BY <1>3, <1>9, MapListed
<1> DEFINE S == {MatchRow(k, x) : x \in Selected(k)}
<1>11. rows \in Seq(S)
  <2>1. PICK g : IsListing(g, rows, Selected(k), MatchRows(k), exact)
    BY <1>10 DEF Lists
  <2>2. ASSUME NEW i \in DOMAIN rows
        PROVE  rows[i] \in S
    <3>1. g[i] \in Selected(k) /\ rows[i] = MatchRows(k)[g[i]]
      BY <2>1 DEF IsListing
    <3>2. rows[i] = MatchRow(k, g[i])
      BY <1>8, <3>1
    <3> QED
      BY <3>1, <3>2
  <2>3. rows = [i \in 1..Len(selected) |-> rows[i]]
    BY <1>4, <1>5
  <2> HIDE DEF S
  <2>4. rows \in [1..Len(selected) -> S]
    BY <1>5, <1>6, <2>2, <2>3
  <2> QED
    BY <1>5, <2>4
<1>12. places \in SUBSET (DOMAIN rows) /\ places = {i \in DOMAIN rows : rows[i] \in R}
  <2>1. \A i \in DOMAIN rows : rows[i] \in S
    BY <1>11
  <2>2. R = {row \in S : IsUnsafe(lit) \/ row.match}
    OBVIOUS
  <2> HIDE DEF S, R
  <2> QED
    BY <2>1, <2>2, Zenon
<1>13. Accepted(k) \in SUBSET Selected(k)
       /\ Accepted(k) = {x \in Selected(k) : MatchRows(k)[x] \in R}
  <2>1. \A x \in Selected(k) : MatchRow(k, x) \in S
    OBVIOUS
  <2>2. \A x : MatchRow(k, x).match = MatchesTruthValue(lit, pool[x].value)
    BY DEF MatchRow
  <2>3. R = {row \in S : IsUnsafe(lit) \/ row.match}
    OBVIOUS
  <2> HIDE DEF S, R
  <2>4. \A x \in Selected(k) : MatchRows(k)[x] \in R <=> IsUnsafe(lit) \/ MatchesTruthValue(lit, pool[x].value)
    BY <1>8, <2>1, <2>2, <2>3, Zenon
  <2> QED
    BY <2>4, Zenon DEF Accepted
<1> HIDE DEF R, places
<1>14. AcceptedRows(k) = ElementsAt(rows, places)
  BY Zenon DEF AcceptedRows, rows, places
<1>15. Lists(ElementsAt(rows, places), Accepted(k), MatchRows(k), exact)
  <2> HIDE DEF S
  <2> QED
    BY <1>10, <1>11, <1>12, <1>13, PartListed
<1>16. ElementsAt(rows, places) \in Seq({MatchRow(k, x) : x \in Accepted(k)})
  <2> DEFINE U == {MatchRow(k, x) : x \in Accepted(k)}
             t == ElementsAt(rows, places)
  <2>1. t \in Seq(S)
    <3> HIDE DEF S
    <3> QED
      BY <1>11, <1>12, ElementsAtFacts
  <2>2. PICK g : IsListing(g, t, Accepted(k), MatchRows(k), exact)
    BY <1>15 DEF Lists
  <2> HIDE DEF t
  <2>3. ASSUME NEW i \in DOMAIN t
        PROVE  t[i] \in U
    <3>1. g[i] \in Accepted(k) /\ t[i] = MatchRows(k)[g[i]]
      BY <2>2 DEF IsListing
    <3>2. t[i] = MatchRow(k, g[i])
      BY <1>8, <1>13, <3>1
    <3> QED
      BY <3>1, <3>2
  <2> HIDE DEF S, U
  <2>4. DOMAIN t = 1..Len(t) /\ Len(t) \in Nat /\ t = [i \in 1..Len(t) |-> t[i]]
    BY <2>1
  <2>5. t \in [1..Len(t) -> U]
    BY <2>3, <2>4
  <2>6. t \in Seq(U)
    BY <2>4, <2>5
  <2> QED
    BY <2>6 DEF t, U
<1> QED
  BY <1>14, <1>15, <1>16

\* Every row has a key without a missing constant.
KeysKnown(d, cols, terms, R) == \A row \in R : NoNull(d, Key(cols, terms, row))

\* A side of the join after the sort.
IsSide(sorted, R, A, src, exact, d, cols, terms) ==
  /\ sorted \in Seq(R) /\ Len(sorted) \in Nat /\ DOMAIN sorted = 1..Len(sorted)
  /\ Lists(sorted, A, src, exact)
  /\ Keys(cols, terms, sorted) \in [1..Len(sorted) -> KeyOf(d)]
  /\ Sorted(Keys(cols, terms, sorted))
  /\ Known(d, Keys(cols, terms, sorted))

LEMMA SortedSide ==
  ASSUME NEW R, NEW rows \in Seq(R), NEW A, NEW src, NEW exact, Lists(rows, A, src, exact),
         NEW d \in Nat, NEW cols, NEW terms, KeysKnown(d, cols, terms, R)
  PROVE  IsSide(StableSort(rows, cols, terms), R, A, src, exact, d, cols, terms)
<1> DEFINE sorted == StableSort(rows, cols, terms)
           keys == Keys(cols, terms, sorted)
<1>1. \A row \in R : Key(cols, terms, row) \in KeyOf(d)
  BY DEF KeysKnown, NoNull
<1>2. /\ sorted \in Seq(R) /\ Len(sorted) = Len(rows)
      /\ Arranged(sorted, rows, Len(rows))
      /\ InOrder(sorted, cols, terms)
  BY <1>1, StableSortFacts
<1> HIDE DEF sorted
<1>3. Len(sorted) \in Nat /\ DOMAIN sorted = 1..Len(sorted)
  BY <1>2
<1>4. Lists(sorted, A, src, exact)
  BY <1>2, ArrangedListed
<1>5. keys = [i \in 1..Len(sorted) |-> Key(cols, terms, sorted[i])]
  BY <1>3 DEF Keys
<1>6. \A i \in 1..Len(sorted) : sorted[i] \in R
  BY <1>2, <1>3
<1>7. \A i \in 1..Len(sorted) : keys[i] \in KeyOf(d)
  BY <1>1, <1>5, <1>6
<1>8. keys \in [1..Len(sorted) -> KeyOf(d)]
  BY <1>5, <1>7
<1>9. Sorted(keys)
  BY <1>2, <1>5 DEF Sorted, InOrder
<1>10. Known(d, keys)
  BY <1>5, <1>6 DEF Known, KeysKnown, NoNull
<1> HIDE DEF keys
<1>11. IsSide(sorted, R, A, src, exact, d, cols, terms)
  BY <1>2, <1>3, <1>4, <1>8, <1>9, <1>10 DEF IsSide, keys
<1> QED
  BY <1>11 DEF sorted

\* Whether a pair of rows passes the comparisons of the last literal.
FunctionsAt(k) == IF k = Len(body) THEN functions ELSE << >>

\* The row that a join makes of a choice and the fact of the extension, or of
\* the choice alone when the extension has no fact.
LEMMA JoinedRow ==
  ASSUME Ready, NEW k \in 1..Len(body) - 1, NEW c, NEW e, Extends(e, c, k), IsInstance(c), IsInstance(e),
         NEW left \in Seq(AnyTerm), VarIds(left) = Ids(k), NEW dest \in Seq(AnyTerm),
         NEW t, t = IF e[k + 1] = 0 THEN << >> ELSE Relation(k + 1)[e[k + 1]].terms
  PROVE  LET lit == body[k + 1]
         IN  /\ Project(dest, left, lit.terms, Ground(c, left), t) = Ground(e, Kept(dest, left, lit.terms))
             /\ e[k + 1] = 0 =>
                  LeftComplement(dest, left, lit.terms, Ground(c, left)) = Ground(e, Kept(dest, left, lit.terms))
             /\ AllFunctionsMatch(FunctionsAt(k + 1), left, lit.terms, Ground(c, left), t) <=>
                  (k + 1 = Len(body) => FunctionsHold(e))
<1> DEFINE next == k + 1
           lit == body[next]
           l == Ground(c, left)
<1>1. /\ next \in 1..Len(body) /\ next \in 0..Len(body) /\ next \in 1..next /\ k \in 0..Len(body) - 1
      /\ \A j \in 1..k : j \in 1..next
      /\ \A j \in 1..next : j \in 1..k \/ j = next
  BY DEF Ready
<1>15. Len(body) # 1
  <2> DEFINE size == Len(body)
  <2>1. k \in 1..size - 1
    OBVIOUS
  <2>2. size \in Nat
    BY DEF Ready
  <2> HIDE DEF size
  <2>3. size # 1
    BY <2>1, <2>2
  <2> QED
    BY <2>3 DEF size
<1>2. c \in PartialChoices(k) /\ e \in PartialChoices(next) /\ Agree(c, e, k) /\ DOMAIN e = 1..next
  BY DEF Extends, PartialChoices
<1>3. lit.terms \in Seq(AnyTerm)
  BY <1>1, LiteralFacts
<1>4. Ids(next) = Ids(k) \cup VarIds(lit.terms)
  BY <1>1 DEF Ids
<1>5. Ground(e, left) = l
  BY <1>1, <1>2, GroundKept
<1>6. Shows(e, left, l, VarIds(left))
  BY <1>5, GroundShows
<1>7. \A v \in VarIds(left) : BindingOf(e, v) # Null
  <2>1. \A v \in Ids(next) : BindingOf(e, v) \in Value
    BY <1>1, <1>2, BindingTyped
  <2> HIDE DEF next, lit
  <2> QED
    BY <1>4, <2>1 DEF Value
<1>8. InstanceAt(e, next)
  BY <1>1, <1>2, InstanceParts
<1>9. e[next] = 0 => VarIds(lit.terms) \subseteq VarIds(left)
  <2>1. e[next] = 0 => IsUnsafe(lit)
    BY <1>1, <1>2 DEF PartialChoices
  <2> QED
    BY <1>1, <2>1, UnsafeBound
<1>10. Shows(e, lit.terms, t, VarIds(lit.terms) \ VarIds(left))
  <2>1. CASE e[next] = 0
    BY <1>9, <2>1 DEF Shows
  <2>2. CASE e[next] # 0
    <3>1. t = Ground(e, lit.terms)
      BY <1>8, <2>2 DEF InstanceAt, Fact, Relation
    <3> QED
      BY <1>3, <3>1, GroundShows
  <2> QED
    BY <2>1, <2>2
<1>11. dest \in Seq(TermsOver(Nat))
  <2>1. AnyTerm = TermsOver(Nat)
    BY DEF AnyTerm, TermsOver
  <2> QED
    BY <2>1
<1> HIDE DEF lit, l, next
<1>12. Project(dest, left, lit.terms, l, t) = Ground(e, Kept(dest, left, lit.terms))
  BY <1>6, <1>7, <1>10, <1>11, ProjectIsGround
<1>13. e[next] = 0 => LeftComplement(dest, left, lit.terms, l) = Ground(e, Kept(dest, left, lit.terms))
  BY <1>6, <1>9, <1>11, ComplementIsGround
<1>14. AllFunctionsMatch(FunctionsAt(next), left, lit.terms, l, t) <=> (next = Len(body) => FunctionsHold(e))
  <2>1. CASE next = Len(body)
    <3>1. Ids(Len(body)) \subseteq VarIds(left) \cup VarIds(lit.terms)
      BY <1>4, <2>1
    <3>2. AllFunctionsMatch(functions, left, lit.terms, l, t) <=> FunctionsHold(e)
      BY <1>6, <1>7, <1>10, <1>15, <3>1, FunctionsAgree
    <3> QED
      BY <2>1, <3>2 DEF FunctionsAt
  <2>2. CASE next # Len(body)
    BY <2>2 DEF FunctionsAt, AllFunctionsMatch
  <2> QED
    BY <2>1, <2>2
<1> QED
  BY <1>12, <1>13, <1>14 DEF lit, l, next

------------------------------------------------------------------------------
(***************************************************************************)
(* A join: pairs of rows are extensions of choices.                        *)
(***************************************************************************)

\* The rows of both sides, and where they come from.  The right side always
\* has every fact.
Sides(k, left, rows, right, gl, gr) ==
  /\ IsListing(gl, rows, Found(k), RowsFor(k, left, TRUE), AllSafe)
  /\ IsListing(gr, right, Accepted(k + 1), MatchRows(k + 1), TRUE)

LeftKey(k, left, row) == Key(SharedVars(k), left, row)
RightKey(k, row) == Key(SharedVars(k), body[k + 1].terms, row)

\* Rows i and j may be joined; 0 stands for no right row.
Meet(k, left, rows, right, i, j) ==
  IF j = 0
  THEN /\ IsUnsafe(body[k + 1])
       /\ \A b \in DOMAIN right : LeftKey(k, left, rows[i]) # RightKey(k, right[b])
  ELSE /\ j \in DOMAIN right
       /\ LeftKey(k, left, rows[i]) = RightKey(k, right[j])
       /\ right[j].match

PairChoice(k, gl, gr, i, j) == Extend(gl[i], k, IF j = 0 THEN 0 ELSE gr[j])
RightTerms(right, j) == IF j = 0 THEN << >> ELSE right[j].terms

\* What EvalSubgoalNext makes of the pair.
PairRow(k, left, rows, right, dest, isTrue, i, j) ==
  LET lit == body[k + 1]
  IN  IF j = 0
      THEN [terms |-> LeftComplement(dest, left, lit.terms, rows[i].terms),
            value |-> ResolveTruthValue(rows[i].value, isTrue)]
      ELSE [terms |-> Project(dest, left, lit.terms, rows[i].terms, right[j].terms),
            value |-> ResolveTruthValue(Conjunction(rows[i].value, right[j].value), isTrue)]

LEMMA SideRows ==
  ASSUME Ready, NEW k \in 1..Len(body) - 1, NEW left \in Seq(AnyTerm), VarIds(left) = Ids(k),
         NEW rows, NEW right, NEW gl, NEW gr, Sides(k, left, rows, right, gl, gr)
  PROVE  /\ \A i \in DOMAIN rows :
              /\ gl[i] \in PartialChoices(k) /\ IsInstance(gl[i])
              /\ rows[i].terms = Ground(gl[i], left) /\ rows[i].value = BodyValue(gl[i])
              /\ LeftKey(k, left, rows[i]) = ChoiceKey(gl[i], k)
         /\ \A j \in DOMAIN right :
              /\ gr[j] \in Accepted(k + 1) /\ right[j] = MatchRow(k + 1, gr[j])
              /\ RightKey(k, right[j]) = FactKey(gr[j], k)
<1>1. k \in 0..Len(body) - 1
  OBVIOUS
<1>2. ASSUME NEW i \in DOMAIN rows
      PROVE  /\ gl[i] \in PartialChoices(k) /\ IsInstance(gl[i])
             /\ rows[i].terms = Ground(gl[i], left) /\ rows[i].value = BodyValue(gl[i])
             /\ LeftKey(k, left, rows[i]) = ChoiceKey(gl[i], k)
  <2>1. gl[i] \in Found(k) /\ rows[i] = RowsFor(k, left, TRUE)[gl[i]]
    BY DEF Sides, IsListing
  <2>2. rows[i] = RowOf(gl[i], left, TRUE)
    BY <2>1 DEF RowsFor
  <2>3. gl[i] \in PartialChoices(k) /\ IsInstance(gl[i])
    BY <2>1 DEF Found
  <2>4. rows[i].terms = Ground(gl[i], left) /\ rows[i].value = BodyValue(gl[i])
    BY <2>2 DEF RowOf, ResolveTruthValue
  <2>5. LeftKey(k, left, rows[i]) = ChoiceKey(gl[i], k)
    BY <1>1, <2>3, <2>4, KeyOfChoice DEF LeftKey
  <2> QED
    BY <2>3, <2>4, <2>5
<1>3. ASSUME NEW j \in DOMAIN right
      PROVE  /\ gr[j] \in Accepted(k + 1) /\ right[j] = MatchRow(k + 1, gr[j])
             /\ RightKey(k, right[j]) = FactKey(gr[j], k)
  <2>1. gr[j] \in Accepted(k + 1) /\ right[j] = MatchRows(k + 1)[gr[j]]
    BY DEF Sides, IsListing
  <2>2. gr[j] \in DOMAIN Relation(k + 1)
    BY <2>1 DEF Accepted, Selected
  <2>3. right[j] = MatchRow(k + 1, gr[j])
    BY <2>1, <2>2 DEF MatchRows
  <2>4. right[j].terms = Relation(k + 1)[gr[j]].terms
    BY <2>3 DEF MatchRow
  <2>5. RightKey(k, right[j]) = FactKey(gr[j], k)
    BY <1>1, <2>2, <2>4, KeyOfFact DEF RightKey
  <2> QED
    BY <2>1, <2>3, <2>5
<1> QED
  BY <1>2, <1>3

\* A pair of rows means a choice of one literal more.
MeansChoice(k, left, rows, right, gl, gr, dest, isTrue, i, j) ==
  LET e == PairChoice(k, gl, gr, i, j)
      lit == body[k + 1]
  IN  /\ Extends(e, gl[i], k) /\ IsInstance(e)
      /\ e[k + 1] = IF j = 0 THEN 0 ELSE gr[j]
      /\ PairRow(k, left, rows, right, dest, isTrue, i, j) = RowOf(e, Kept(dest, left, lit.terms), isTrue)
      /\ AllFunctionsMatch(FunctionsAt(k + 1), left, lit.terms, rows[i].terms, RightTerms(right, j))
           <=> (k + 1 = Len(body) => FunctionsHold(e))

\* A pair that meets is an instance of one literal more, and its row is the
\* row of this instance.
LEMMA PairMeans ==
  ASSUME Ready, NEW k \in 1..Len(body) - 1, NEW left \in Seq(AnyTerm), VarIds(left) = Ids(k),
         NEW rows, NEW right, NEW gl, NEW gr, Sides(k, left, rows, right, gl, gr),
         NEW dest \in Seq(AnyTerm), NEW isTrue,
         NEW i \in DOMAIN rows, NEW j, Meet(k, left, rows, right, i, j)
  PROVE  MeansChoice(k, left, rows, right, gl, gr, dest, isTrue, i, j)
<1> DEFINE next == k + 1
           lit == body[next]
           c == gl[i]
           x == IF j = 0 THEN 0 ELSE gr[j]
           e == PairChoice(k, gl, gr, i, j)
           kept == Kept(dest, left, lit.terms)
<1>1. k \in 0..Len(body) - 1 /\ next \in 1..Len(body)
  BY DEF Ready
<1>2. DOMAIN Relation(next) = 1..Len(Relation(next)) /\ Len(Relation(next)) \in Nat
  BY <1>1, LiteralFacts
<1>3. /\ c \in PartialChoices(k) /\ IsInstance(c)
      /\ rows[i].terms = Ground(c, left) /\ rows[i].value = BodyValue(c)
      /\ LeftKey(k, left, rows[i]) = ChoiceKey(c, k)
  BY SideRows
<1>4. \A b \in DOMAIN right : /\ gr[b] \in Accepted(next) /\ right[b] = MatchRow(next, gr[b])
                              /\ RightKey(k, right[b]) = FactKey(gr[b], k)
  BY SideRows
<1>5. j # 0 => /\ j \in DOMAIN right /\ right[j].match /\ x \in Accepted(next) /\ x # 0
               /\ right[j] = MatchRow(next, x) /\ ChoiceKey(c, k) = FactKey(x, k)
  <2>1. ASSUME j # 0
        PROVE  j \in DOMAIN right /\ right[j].match /\ LeftKey(k, left, rows[i]) = RightKey(k, right[j])
    BY <2>1 DEF Meet
  <2>2. ASSUME NEW y \in Accepted(next)
        PROVE  y # 0
    BY <1>2 DEF Accepted, Selected
  <2> HIDE DEF next
  <2> QED
    BY <1>3, <1>4, <2>1, <2>2
<1>6. j = 0 => IsUnsafe(lit) /\ \A b \in DOMAIN right : ChoiceKey(c, k) # FactKey(gr[b], k)
  BY <1>3, <1>4 DEF Meet
<1>7. x \in Choosable(next)
  <2>1. \A y \in Accepted(next) : y \in 1..Len(Relation(next))
    BY <1>2 DEF Accepted, Selected
  <2>2. x = 0 => j = 0
    BY <1>5
  <2>3. x \in 0..Len(Relation(next))
    BY <1>2, <1>5, <2>1
  <2> HIDE DEF x
  <2> QED
    BY <1>6, <2>2, <2>3 DEF Choosable
<1>8. Extends(e, c, k) /\ e[next] = x
  <2>1. e = Extend(c, k, x)
    BY DEF PairChoice
  <2> HIDE DEF x, c, e
  <2> QED
    BY <1>1, <1>3, <1>7, <2>1, Extended DEF Extends
<1> HIDE DEF c, e, x
<1>9. InstanceAt(e, next)
  <2>1. CASE j = 0
    <3>1. e[next] = 0
      BY <1>8, <2>1 DEF x
    <3>2. ASSUME NEW y \in Selected(next), Shows(c, lit.terms, Relation(next)[y].terms, Ids(k))
          PROVE  FALSE
      <4>1. y \in Accepted(next)
        BY <1>6, <2>1 DEF Accepted
      <4>2. PICK b \in DOMAIN right : gr[b] = y
        BY <4>1, Zenon DEF Sides, IsListing
      <4>3. ChoiceKey(c, k) = FactKey(y, k)
        BY <1>1, <3>2, KeysShow
      <4> QED
        BY <1>6, <2>1, <4>2, <4>3
    <3>3. ~\E y \in Selected(next) : Shows(c, lit.terms, Relation(next)[y].terms, Ids(k))
      BY <3>2
    <3> QED
      BY <1>1, <1>8, <3>1, <3>3, InstanceWithoutFact
  <2>2. CASE j # 0
    <3>1. e[next] = x /\ x # 0 /\ x \in Selected(next)
      BY <1>5, <1>8, <2>2 DEF Accepted
    <3>2. MatchesTruthValue(lit, Relation(next)[x].value)
      <4>1. right[j].match /\ right[j] = MatchRow(next, x)
        BY <1>5, <2>2
      <4>2. MatchRow(next, x).match = MatchesTruthValue(lit, Relation(next)[x].value)
        BY DEF MatchRow
      <4> QED
        BY <4>1, <4>2, Zenon
    <3>3. Shows(c, lit.terms, Relation(next)[x].terms, Ids(k))
      BY <1>1, <1>5, <2>2, KeysShow
    <3> QED
      BY <1>1, <1>8, <3>1, <3>2, <3>3, InstanceByFact
  <2> QED
    BY <2>1, <2>2
<1>10. IsInstance(e)
  BY <1>1, <1>3, <1>8, <1>9, ExtensionIsInstance
<1> DEFINE t == RightTerms(right, j)
<1>11. x = 0 <=> j = 0
  BY <1>5 DEF x
<1>12. t = IF e[next] = 0 THEN << >> ELSE Relation(next)[e[next]].terms
  BY <1>5, <1>8, <1>11 DEF RightTerms, MatchRow
<1> HIDE DEF t
<1>13. /\ Project(dest, left, lit.terms, Ground(c, left), t) = Ground(e, kept)
       /\ e[next] = 0 => LeftComplement(dest, left, lit.terms, Ground(c, left)) = Ground(e, kept)
       /\ AllFunctionsMatch(FunctionsAt(next), left, lit.terms, Ground(c, left), t) <=>
            (next = Len(body) => FunctionsHold(e))
  BY <1>3, <1>8, <1>10, <1>12, JoinedRow
<1>14. BodyValue(e) = IF e[next] = 0 THEN BodyValue(c)
                      ELSE Conjunction(BodyValue(c), ResolveToTrueOrIncons(Relation(next)[e[next]].value))
  BY <1>3, <1>8, ValueExtended
<1> HIDE DEF kept, lit
<1>15. PairRow(k, left, rows, right, dest, isTrue, i, j) = RowOf(e, kept, isTrue)
  <2>1. CASE j = 0
    <3>1. e[next] = 0
      BY <1>8, <1>11, <2>1
    <3> QED
      BY <1>3, <1>13, <1>14, <2>1, <3>1 DEF PairRow, RowOf, lit
  <2>2. CASE j # 0
    <3>1. e[next] # 0 /\ e[next] = x
      BY <1>8, <1>11, <2>2
    <3>2. right[j].terms = t
      BY <2>2 DEF t, RightTerms
    <3>3. right[j].value = ResolveToTrueOrIncons(Relation(next)[e[next]].value)
      BY <1>5, <2>2, <3>1 DEF MatchRow
    <3> HIDE DEF next
    <3>4. PairRow(k, left, rows, right, dest, isTrue, i, j) =
            [terms |-> Project(dest, left, lit.terms, rows[i].terms, right[j].terms),
             value |-> ResolveTruthValue(Conjunction(rows[i].value, right[j].value), isTrue)]
      BY <2>2 DEF PairRow, lit, next
    <3> QED
      BY <1>3, <1>13, <1>14, <3>1, <3>2, <3>3, <3>4 DEF RowOf
  <2> QED
    BY <2>1, <2>2
<1>16. AllFunctionsMatch(FunctionsAt(next), left, lit.terms, rows[i].terms, t) <=>
         (next = Len(body) => FunctionsHold(e))
  BY <1>3, <1>13
<1> QED
  BY <1>8, <1>10, <1>15, <1>16 DEF MeansChoice, e, kept, lit, c, x, t, next

\* The pairs that the loops find.
PairsOf(k, left, rows, right) ==
  LET lit == body[k + 1]
      lkeys == Keys(SharedVars(k), left, rows)
      rkeys == Keys(SharedVars(k), lit.terms, right)
  IN  IF IsUnsafe(lit)
      THEN MergeJoinUnknown(lkeys, rkeys, [j \in DOMAIN right |-> right[j].match], lit.set = {Unknown})
      ELSE MergeJoin(lkeys, rkeys)

\* All pairs meet, and with safe literals they are all that do.
IsPairing(pairs, k, left, rows, right) ==
  /\ pairs \in Seq(LeftPairs(Len(rows), Len(right)))
  /\ \A a \in DOMAIN pairs : Meet(k, left, rows, right, pairs[a][1], pairs[a][2])
  /\ AllSafe =>
       /\ Distinct(pairs)
       /\ \A i \in DOMAIN rows, j \in DOMAIN right : LeftKey(k, left, rows[i]) = RightKey(k, right[j]) =>
            \E a \in DOMAIN pairs : pairs[a] = <<i, j>>

AllAcceptable(k, right) == \A j \in DOMAIN right : IsUnsafe(body[k + 1]) \/ right[j].match

LEMMA JoinPairs ==
  ASSUME Ready, NEW k \in 1..Len(body) - 1, NEW left,
         NEW rows, NEW right, NEW R1, NEW R2, NEW A1, NEW A2, NEW src1, NEW src2, NEW exact1, NEW exact2,
         IsSide(rows, R1, A1, src1, exact1, Width(k), SharedVars(k), left),
         IsSide(right, R2, A2, src2, exact2, Width(k), SharedVars(k), body[k + 1].terms),
         AllAcceptable(k, right)
  PROVE  IsPairing(PairsOf(k, left, rows, right), k, left, rows, right)
<1> DEFINE next == k + 1
           lit == body[next]
           d == Width(k)
           m == Len(rows)
           n == Len(right)
           l == Keys(SharedVars(k), left, rows)
           r == Keys(SharedVars(k), lit.terms, right)
           match == [j \in DOMAIN right |-> right[j].match]
           pairs == PairsOf(k, left, rows, right)
<1>1. k \in 0..Len(body) - 1 /\ next \in DOMAIN body
  BY DEF Ready
<1>2. d \in Nat
  BY <1>1, SharedFacts
<1>3. /\ m \in Nat /\ DOMAIN rows = 1..m /\ l \in [1..m -> KeyOf(d)] /\ Sorted(l) /\ Known(d, l)
      /\ n \in Nat /\ DOMAIN right = 1..n /\ r \in [1..n -> KeyOf(d)] /\ Sorted(r) /\ Known(d, r)
  BY DEF IsSide
<1>4. ASSUME NEW i \in 1..m
      PROVE  l[i] = LeftKey(k, left, rows[i])
  BY <1>3 DEF Keys, LeftKey
<1>5. ASSUME NEW j \in 1..n
      PROVE  r[j] = RightKey(k, right[j])
  BY <1>3 DEF Keys, RightKey
<1>6. pairs = IF IsUnsafe(lit) THEN MergeJoinUnknown(l, r, match, lit.set = {Unknown}) ELSE MergeJoin(l, r)
  BY DEF PairsOf
<1>7. \A j \in 1..n : match[j] = right[j].match
  BY <1>3
<1> HIDE DEF d, m, n, l, r, match, pairs
<1>8. CASE IsUnsafe(lit)
  <2> DEFINE only == (lit.set = {Unknown})
  <2> HIDE DEF only
  <2>1. MergeJoinUnknown(l, r, match, only) \in Seq(SoundPairs(l, r, match, m, n))
    BY <1>2, <1>3, MergeJoinUnknownSound
  <2>2. pairs \in Seq(SoundPairs(l, r, match, m, n))
    BY <1>6, <1>8, <2>1 DEF only
  <2>3. SoundPairs(l, r, match, m, n) \subseteq LeftPairs(m, n)
    BY DEF SoundPairs
  <2>4. pairs \in Seq(LeftPairs(m, n))
    <3> DEFINE S == SoundPairs(l, r, match, m, n)
               U == LeftPairs(m, n)
    <3> HIDE DEF S, U
    <3>1. S \subseteq U /\ pairs \in Seq(S)
      BY <2>2, <2>3 DEF S, U
    <3>2. pairs \in Seq(U)
      BY <3>1, SeqOfMore
    <3> QED
      BY <3>2 DEF U
  <2>5. ASSUME NEW a \in DOMAIN pairs
        PROVE  Meet(k, left, rows, right, pairs[a][1], pairs[a][2])
    <3> DEFINE i == pairs[a][1]
               j == pairs[a][2]
    <3>1. pairs[a] \in SoundPairs(l, r, match, m, n)
      BY <2>2
    <3>2. i \in 1..m /\ j \in 0..n
      BY <3>1 DEF SoundPairs, LeftPairs
    <3>3. IF j = 0 THEN \A b \in 1..n : l[i] # r[b] ELSE l[i] = r[j] /\ match[j]
      BY <3>1 DEF SoundPairs
    <3> HIDE DEF i, j
    <3>4. CASE j = 0
      <4>1. \A b \in DOMAIN right : LeftKey(k, left, rows[i]) # RightKey(k, right[b])
        BY <1>3, <1>4, <1>5, <3>2, <3>3, <3>4
      <4>2. Meet(k, left, rows, right, i, j)
        BY <1>8, <3>4, <4>1 DEF Meet
      <4> QED
        BY <4>2 DEF i, j
    <3>5. CASE j # 0
      <4>1. j \in 1..n
        BY <1>3, <3>2, <3>5
      <4>2. l[i] = r[j] /\ match[j]
        BY <3>3, <3>5
      <4>3. right[j].match
        BY <1>7, <4>1, <4>2, Zenon
      <4>4. LeftKey(k, left, rows[i]) = RightKey(k, right[j])
        BY <1>4, <1>5, <3>2, <4>1, <4>2
      <4>5. Meet(k, left, rows, right, i, j)
        BY <1>3, <3>5, <4>1, <4>3, <4>4, Zenon DEF Meet
      <4> QED
        BY <4>5 DEF i, j
    <3> QED
      BY <3>4, <3>5
  <2>6. ~AllSafe
    BY <1>1, <1>8 DEF AllSafe
  <2>7. IsPairing(pairs, k, left, rows, right)
    BY <2>4, <2>5, <2>6 DEF IsPairing, m, n
  <2> QED
    BY <2>7 DEF pairs
<1>9. CASE ~IsUnsafe(lit)
  <2> DEFINE S == EqualPairs(l, r, m, n)
  <2>1. Enumerates(MergeJoin(l, r), S)
    BY <1>2, <1>3, MergeJoinExact
  <2>2. pairs = MergeJoin(l, r)
    BY <1>6, <1>9
  <2>3. pairs \in Seq(S) /\ Distinct(pairs) /\ \A x \in S : \E a \in DOMAIN pairs : pairs[a] = x
    BY <2>1, <2>2 DEF Enumerates
  <2>4. S \subseteq LeftPairs(m, n)
    BY <1>3 DEF EqualPairs, Rows2, LeftPairs
  <2>5. pairs \in Seq(LeftPairs(m, n))
    <3> DEFINE U == LeftPairs(m, n)
    <3> HIDE DEF S, U
    <3>1. S \subseteq U /\ pairs \in Seq(S)
      BY <2>3, <2>4 DEF U
    <3>2. pairs \in Seq(U)
      BY <3>1, SeqOfMore
    <3> QED
      BY <3>2 DEF U
  <2>6. ASSUME NEW a \in DOMAIN pairs
        PROVE  Meet(k, left, rows, right, pairs[a][1], pairs[a][2])
    <3> DEFINE i == pairs[a][1]
               j == pairs[a][2]
    <3>1. pairs[a] \in S
      BY <2>3
    <3>2. i \in 1..m /\ j \in 1..n /\ l[i] = r[j]
      BY <3>1 DEF EqualPairs, Rows2
    <3> HIDE DEF i, j
    <3>3. j # 0 /\ j \in DOMAIN right
      BY <1>3, <3>2
    <3>4. right[j].match
      BY <1>9, <3>3, Zenon DEF AllAcceptable
    <3>5. LeftKey(k, left, rows[i]) = RightKey(k, right[j])
      BY <1>4, <1>5, <3>2
    <3>6. Meet(k, left, rows, right, i, j)
      BY <3>3, <3>4, <3>5, Zenon DEF Meet
    <3> QED
      BY <3>6 DEF i, j
  <2>7. ASSUME NEW i \in DOMAIN rows, NEW j \in DOMAIN right, LeftKey(k, left, rows[i]) = RightKey(k, right[j])
        PROVE  \E a \in DOMAIN pairs : pairs[a] = <<i, j>>
    <3>1. i \in 1..m /\ j \in 1..n
      BY <1>3
    <3>2. l[i] = r[j]
      BY <1>4, <1>5, <2>7, <3>1
    <3>3. <<i, j>> \in S
      BY <3>1, <3>2 DEF EqualPairs, Rows2
    <3> QED
      BY <2>3, <3>3
  <2>8. IsPairing(pairs, k, left, rows, right)
    BY <2>3, <2>5, <2>6, <2>7 DEF IsPairing, m, n
  <2> QED
    BY <2>8 DEF pairs
<1> QED
  BY <1>8, <1>9

\* EvalSubgoalNext lists the instances of one literal more.
LEMMA NextStage ==
  ASSUME Ready, NEW k \in 1..Len(body) - 1, NEW left \in Seq(AnyTerm), VarIds(left) = Ids(k),
         NEW tmp, Stage(tmp, k, left, TRUE), NEW dest \in Seq(AnyTerm), NEW isTrue \in BOOLEAN
  PROVE  Stage(EvalSubgoalNext(left, tmp, body[k + 1], Relation(k + 1), dest, isTrue, FunctionsAt(k + 1)),
               k + 1, Kept(dest, left, body[k + 1].terms), isTrue)
<1> DEFINE next == k + 1
           lit == body[next]
           shared == SharedVars(k)
           rows == StableSort(tmp, shared, left)
           right == StableSort(AcceptedRows(next), shared, lit.terms)
           pairs == PairsOf(k, left, rows, right)
           passing == {a \in DOMAIN pairs :
             AllFunctionsMatch(FunctionsAt(next), left, lit.terms, rows[pairs[a][1]].terms,
                               RightTerms(right, pairs[a][2]))}
           matching == ElementsAt(pairs, passing)
           joined == [a \in DOMAIN matching |->
             PairRow(k, left, rows, right, dest, isTrue, matching[a][1], matching[a][2])]
           kept == Kept(dest, left, lit.terms)
<1>1. EvalSubgoalNext(left, tmp, lit, Relation(next), dest, isTrue, FunctionsAt(next)) = joined
  <2> DEFINE pool == Relation(next)
             fs == FunctionsAt(next)
             shared0 == Ascending(VarIds(left) \cap VarIds(lit.terms))
             selected == SelectAndMatch(lit, pool)
             accepted == ElementsAt(selected, {i \in DOMAIN selected : IsUnsafe(lit) \/ selected[i].match})
             rows0 == StableSort(tmp, shared0, left)
             right0 == StableSort(accepted, shared0, lit.terms)
             lkeys == Keys(shared0, left, rows0)
             rkeys == Keys(shared0, lit.terms, right0)
             match == [j \in DOMAIN right0 |-> right0[j].match]
             pairs0 == IF IsUnsafe(lit) THEN MergeJoinUnknown(lkeys, rkeys, match, lit.set = {Unknown})
                                        ELSE MergeJoin(lkeys, rkeys)
             passing0 == {a \in DOMAIN pairs0 :
               AllFunctionsMatch(fs, left, lit.terms, rows0[pairs0[a][1]].terms,
                                 IF pairs0[a][2] = 0 THEN << >> ELSE right0[pairs0[a][2]].terms)}
             matching0 == ElementsAt(pairs0, passing0)
             combined(p) ==
               IF p[2] = 0
               THEN [terms |-> LeftComplement(dest, left, lit.terms, rows0[p[1]].terms),
                     value |-> ResolveTruthValue(rows0[p[1]].value, isTrue)]
               ELSE [terms |-> Project(dest, left, lit.terms, rows0[p[1]].terms, right0[p[2]].terms),
                     value |-> ResolveTruthValue(Conjunction(rows0[p[1]].value, right0[p[2]].value), isTrue)]
             result0 == [a \in DOMAIN matching0 |-> combined(matching0[a])]
  <2>1. EvalSubgoalNext(left, tmp, lit, pool, dest, isTrue, fs) = result0
    <3> HIDE DEF lit, pool, fs
    <3> QED
      BY Zenon DEF EvalSubgoalNext
  <2>2. shared0 = shared
    BY DEF SharedVars, SharedIds
  <2>3. accepted = AcceptedRows(next)
    BY Zenon DEF AcceptedRows
  <2> HIDE DEF shared0, accepted, shared
  <2>4. rows0 = rows /\ right0 = right
    BY <2>2, <2>3
  <2>5. pairs0 = PairsOf(k, left, rows0, right0)
    BY <2>2 DEF PairsOf, shared
  <2> HIDE DEF rows0, right0, rows, right, pairs0
  <2>6. pairs0 = pairs
    BY <2>4, <2>5
  <2>7. passing0 = passing
    BY <2>4, <2>6 DEF RightTerms
  <2> HIDE DEF passing0, passing, pairs
  <2>8. matching0 = matching
    BY <2>6, <2>7
  <2>9. \A p : combined(p) = PairRow(k, left, rows, right, dest, isTrue, p[1], p[2])
    BY <2>4, Zenon DEF PairRow
  <2> HIDE DEF combined, matching0, matching
  <2>10. result0 = joined
    BY <2>8, <2>9
  <2> QED
    BY <2>1, <2>10
<1>2. k \in 0..Len(body) - 1 /\ next \in 1..Len(body) /\ Width(k) \in Nat
  BY SharedFacts DEF Ready
<1> DEFINE R1 == {RowOf(c, left, TRUE) : c \in Found(k)}
           R2 == {MatchRow(next, x) : x \in Accepted(next)}
<1>3. IsSide(rows, R1, Found(k), RowsFor(k, left, TRUE), AllSafe, Width(k), shared, left)
  <2>1. KeysKnown(Width(k), shared, left, R1)
    <3> SUFFICES ASSUME NEW c \in Found(k), NEW row, row = RowOf(c, left, TRUE)
                 PROVE  NoNull(Width(k), Key(shared, left, row))
      BY DEF KeysKnown
    <3>1. c \in PartialChoices(k) /\ row.terms = Ground(c, left)
      BY DEF Found, RowOf
    <3> QED
      BY <1>2, <3>1, KeyOfChoice
  <2>2. tmp \in Seq(R1) /\ Lists(tmp, Found(k), RowsFor(k, left, TRUE), AllSafe)
    BY DEF Stage
  <2> HIDE DEF R1, shared
  <2> QED
    BY <1>2, <2>1, <2>2, SortedSide
<1>4. IsSide(right, R2, Accepted(next), MatchRows(next), TRUE, Width(k), shared, lit.terms)
  <2>1. KeysKnown(Width(k), shared, lit.terms, R2)
    <3> SUFFICES ASSUME NEW x \in Accepted(next), NEW row, row = MatchRow(next, x)
                 PROVE  NoNull(Width(k), Key(shared, lit.terms, row))
      BY DEF KeysKnown
    <3>1. x \in DOMAIN Relation(k + 1) /\ row.terms = Relation(k + 1)[x].terms
      BY DEF Accepted, Selected, MatchRow
    <3> QED
      BY <1>2, <3>1, KeyOfFact
  <2>2. AcceptedRows(next) \in Seq(R2) /\ Lists(AcceptedRows(next), Accepted(next), MatchRows(next), TRUE)
    BY <1>2, AcceptedListed
  <2> HIDE DEF R2, shared
  <2> QED
    BY <1>2, <2>1, <2>2, SortedSide
<1> HIDE DEF rows, right
<1>5. PICK gl : IsListing(gl, rows, Found(k), RowsFor(k, left, TRUE), AllSafe)
  BY <1>3 DEF IsSide, Lists
<1>6. PICK gr : IsListing(gr, right, Accepted(next), MatchRows(next), TRUE)
  BY <1>4 DEF IsSide, Lists
<1>7. Sides(k, left, rows, right, gl, gr)
  BY <1>5, <1>6 DEF Sides
<1>8. AllAcceptable(k, right)
  <2>1. ASSUME NEW j \in DOMAIN right
        PROVE  IsUnsafe(lit) \/ right[j].match
    <3>1. gr[j] \in Accepted(next) /\ right[j] = MatchRow(next, gr[j])
      BY <1>7, SideRows
    <3>2. IsUnsafe(lit) \/ MatchesTruthValue(lit, Relation(next)[gr[j]].value)
      BY <3>1 DEF Accepted
    <3>3. MatchRow(next, gr[j]).match = MatchesTruthValue(lit, Relation(next)[gr[j]].value)
      BY DEF MatchRow
    <3> QED
      BY <3>1, <3>2, <3>3, Zenon
  <2> QED
    BY <2>1 DEF AllAcceptable
<1>9. IsPairing(pairs, k, left, rows, right)
  BY <1>3, <1>4, <1>8, JoinPairs
<1>10. DOMAIN rows = 1..Len(rows) /\ Len(rows) \in Nat /\ DOMAIN right = 1..Len(right) /\ Len(right) \in Nat
  BY <1>3, <1>4 DEF IsSide
<1> HIDE DEF pairs
<1>11. pairs \in Seq(LeftPairs(Len(rows), Len(right)))
       /\ \A a \in DOMAIN pairs : Meet(k, left, rows, right, pairs[a][1], pairs[a][2])
  BY <1>9 DEF IsPairing
<1>12. \A a \in DOMAIN pairs : pairs[a][1] \in DOMAIN rows /\ pairs[a][2] \in 0..Len(right)
                              /\ pairs[a] = <<pairs[a][1], pairs[a][2]>>
  BY <1>10, <1>11 DEF LeftPairs
<1> DEFINE choice(p) == PairChoice(k, gl, gr, p[1], p[2])
<1>13. ASSUME NEW a \in DOMAIN pairs
       PROVE  LET p == pairs[a]
              IN  /\ Extends(choice(p), gl[p[1]], k) /\ IsInstance(choice(p))
                  /\ choice(p)[next] = IF p[2] = 0 THEN 0 ELSE gr[p[2]]
                  /\ PairRow(k, left, rows, right, dest, isTrue, p[1], p[2]) = RowOf(choice(p), kept, isTrue)
                  /\ a \in passing => choice(p) \in Found(next)
                  /\ choice(p) \in Found(next) => a \in passing
  <2> DEFINE i == pairs[a][1]
             j == pairs[a][2]
             e == PairChoice(k, gl, gr, i, j)
  <2>1. i \in DOMAIN rows /\ Meet(k, left, rows, right, i, j)
    BY <1>11, <1>12
  <2>2. a \in passing <=> AllFunctionsMatch(FunctionsAt(next), left, lit.terms, rows[i].terms, RightTerms(right, j))
    OBVIOUS
  <2> HIDE DEF i, j, passing
  <2>3. /\ Extends(e, gl[i], k) /\ IsInstance(e)
        /\ e[next] = IF j = 0 THEN 0 ELSE gr[j]
        /\ PairRow(k, left, rows, right, dest, isTrue, i, j) = RowOf(e, kept, isTrue)
        /\ AllFunctionsMatch(FunctionsAt(next), left, lit.terms, rows[i].terms, RightTerms(right, j))
             <=> (next = Len(body) => FunctionsHold(e))
    <3>1. MeansChoice(k, left, rows, right, gl, gr, dest, isTrue, i, j)
      BY <1>7, <2>1, PairMeans
    <3> QED
      BY <3>1, Zenon DEF MeansChoice
  <2>4. e \in Found(next) <=> (next = Len(body) => FunctionsHold(e))
    BY <2>3 DEF Found, Extends
  <2>5. choice(pairs[a]) = e
    BY DEF i, j
  <2> HIDE DEF e
  <2> QED
    BY <2>2, <2>3, <2>4, <2>5 DEF i, j
<1>14. passing \in SUBSET (DOMAIN pairs)
  OBVIOUS
<1> HIDE DEF passing, choice, kept
<1>15. PICK place : IsListing(place, matching, passing, pairs, TRUE)
  <2>1. Lists(matching, passing, pairs, TRUE)
    BY <1>11, <1>14, ElementsListed
  <2> QED
    BY <2>1 DEF Lists
<1>16. matching \in Seq(LeftPairs(Len(rows), Len(right)))
  BY <1>11, <1>14, ElementsAtFacts
<1>17. DOMAIN matching = 1..Len(matching) /\ Len(matching) \in Nat
  BY <1>16
<1> HIDE DEF matching
<1>18. ASSUME NEW a \in DOMAIN matching
       PROVE  place[a] \in passing /\ place[a] \in DOMAIN pairs /\ matching[a] = pairs[place[a]]
  BY <1>14, <1>15 DEF IsListing
<1> DEFINE h == [a \in DOMAIN joined |-> choice(matching[a])]
<1>19. DOMAIN joined = DOMAIN matching
  OBVIOUS
<1>20. ASSUME NEW a \in DOMAIN joined
       PROVE  h[a] = choice(matching[a]) /\ h[a] \in Found(next) /\ joined[a] = RowOf(h[a], kept, isTrue)
  <2>1. a \in DOMAIN matching
    BY <1>19
  <2>2. h[a] = choice(matching[a])
    OBVIOUS
  <2>3. joined[a] = PairRow(k, left, rows, right, dest, isTrue, matching[a][1], matching[a][2])
    BY <2>1
  <2> HIDE DEF joined, h
  <2> QED
    BY <1>13, <1>18, <2>1, <2>2, <2>3
<1>21. h \in [DOMAIN joined -> Found(next)] /\ \A a \in DOMAIN joined : joined[a] = RowsFor(next, kept, isTrue)[h[a]]
  <2>1. h = [a \in DOMAIN joined |-> h[a]]
    OBVIOUS
  <2> HIDE DEF joined, h
  <2> QED
    BY <1>20, <2>1 DEF RowsFor
<1>22. ASSUME AllSafe, NEW a \in DOMAIN joined, NEW b \in DOMAIN joined, h[a] = h[b]
       PROVE  a = b
  <2> HIDE DEF joined, h
  <2>1. a \in DOMAIN matching /\ b \in DOMAIN matching
    BY <1>19
  <2> DEFINE p == pairs[place[a]]
             q == pairs[place[b]]
  <2>2. choice(p) = choice(q) /\ place[a] \in DOMAIN pairs /\ place[b] \in DOMAIN pairs
    BY <1>18, <1>20, <1>22, <2>1
  <2>3. /\ Extends(choice(p), gl[p[1]], k) /\ choice(p)[next] = IF p[2] = 0 THEN 0 ELSE gr[p[2]]
        /\ Extends(choice(q), gl[q[1]], k) /\ choice(q)[next] = IF q[2] = 0 THEN 0 ELSE gr[q[2]]
    BY <1>13, <2>2
  <2>4. Meet(k, left, rows, right, p[1], p[2]) /\ Meet(k, left, rows, right, q[1], q[2])
        /\ p[1] \in DOMAIN rows /\ q[1] \in DOMAIN rows /\ p = <<p[1], p[2]>> /\ q = <<q[1], q[2]>>
    BY <1>11, <1>12, <2>2
  <2>5. ~IsUnsafe(lit)
    BY <1>2, <1>22 DEF AllSafe, Ready
  <2> HIDE DEF p, q
  <2>6. p[2] # 0 /\ q[2] # 0 /\ p[2] \in DOMAIN right /\ q[2] \in DOMAIN right
    BY <2>4, <2>5 DEF Meet
  <2>7. gr[p[2]] = gr[q[2]]
    BY <2>2, <2>3, <2>6
  <2>8. p[2] = q[2]
    <3>1. \A x, y \in DOMAIN right : gr[x] = gr[y] => x = y
      BY <1>6, Zenon DEF IsListing
    <3> QED
      BY <2>6, <2>7, <3>1
  <2>9. gl[p[1]] = gl[q[1]]
    <3> DEFINE c == gl[p[1]]
               f == gl[q[1]]
               e == choice(p)
    <3>1. Extends(e, c, k) /\ Extends(e, f, k)
      BY <2>2, <2>3
    <3> HIDE DEF c, f, e
    <3>2. \A x \in 1..k : c[x] = f[x]
      BY <3>1 DEF Extends, Agree
    <3>3. c = [x \in 1..k |-> c[x]] /\ f = [x \in 1..k |-> f[x]]
      BY <3>1 DEF Extends, PartialChoices
    <3>4. c = f
      BY <3>2, <3>3
    <3> QED
      BY <3>4 DEF c, f
  <2>10. p[1] = q[1]
    <3>1. \A x, y \in DOMAIN rows : gl[x] = gl[y] => x = y
      BY <1>5, <1>22, Zenon DEF IsListing
    <3> QED
      BY <2>4, <2>9, <3>1
  <2>11. pairs[place[a]] = pairs[place[b]]
    BY <2>4, <2>8, <2>10 DEF p, q
  <2>12. Distinct(pairs)
    BY <1>9, <1>22 DEF IsPairing
  <2>13. place[a] = place[b]
    BY <2>2, <2>11, <2>12 DEF Distinct
  <2>14. \A x, y \in DOMAIN matching : place[x] = place[y] => x = y
    BY <1>15, Zenon DEF IsListing
  <2> QED
    BY <2>1, <2>13, <2>14
<1>23. ASSUME AllSafe, NEW e \in Found(next)
       PROVE  \E a \in DOMAIN joined : h[a] = e
  <2> DEFINE c == Shorten(e, k)
             x == e[next]
  <2>1. e \in PartialChoices(next) /\ IsInstance(e)
    BY DEF Found
  <2>2. c \in PartialChoices(k) /\ Agree(c, e, k) /\ x \in Choosable(next) /\ Extend(c, k, x) = e
    BY <1>2, <2>1, Restricted
  <2> HIDE DEF c
  <2>3. Extends(e, c, k)
    BY <2>1, <2>2 DEF Extends
  <2>4. ~IsUnsafe(lit)
    BY <1>2, <1>23 DEF AllSafe, Ready
  <2>5. x # 0
    BY <2>2, <2>4 DEF Choosable
  <2>6. IsInstance(c) /\ InstanceAt(e, next)
    BY <1>2, <2>1, <2>3, ExtensionIsInstance
  <2>7. x \in Selected(next) /\ MatchesTruthValue(lit, Relation(next)[x].value)
        /\ Shows(c, lit.terms, Relation(next)[x].terms, Ids(k))
    BY <1>2, <2>3, <2>5, <2>6, InstanceByFact
  <2>8. c \in Found(k)
    <3>1. k # Len(body)
      BY DEF Ready
    <3> QED
      BY <2>2, <2>6, <3>1 DEF Found
  <2>9. x \in Accepted(next)
    BY <2>7 DEF Accepted
  <2>10. ChoiceKey(c, k) = FactKey(x, k)
    BY <1>2, <2>7, KeysShow
  <2>11. PICK i \in DOMAIN rows : gl[i] = c
    BY <1>5, <1>23, <2>8, Zenon DEF IsListing
  <2>12. PICK j \in DOMAIN right : gr[j] = x
    BY <1>6, <2>9, Zenon DEF IsListing
  <2>13. LeftKey(k, left, rows[i]) = RightKey(k, right[j])
    <3>1. LeftKey(k, left, rows[i]) = ChoiceKey(gl[i], k) /\ RightKey(k, right[j]) = FactKey(gr[j], k)
      BY <1>7, SideRows
    <3> QED
      BY <2>10, <2>11, <2>12, <3>1
  <2>14. PICK b \in DOMAIN pairs : pairs[b] = <<i, j>>
    BY <1>9, <1>23, <2>13 DEF IsPairing
  <2>15. choice(pairs[b]) = e
    <3>1. j # 0
      BY <1>10
    <3>2. choice(pairs[b]) = Extend(gl[i], k, gr[j])
      BY <2>14, <3>1 DEF choice, PairChoice
    <3> QED
      BY <2>2, <2>11, <2>12, <3>2
  <2>16. b \in passing
    BY <1>13, <2>15
  <2>17. PICK a \in DOMAIN matching : place[a] = b
    BY <1>15, <2>16, Zenon DEF IsListing
  <2>18. matching[a] = pairs[b]
    BY <1>18, <2>17
  <2> QED
    BY <1>19, <1>20, <2>15, <2>17, <2>18
<1> DEFINE S == {RowOf(c, kept, isTrue) : c \in Found(next)}
<1>24. joined \in Seq(S)
  <2>1. \A a \in 1..Len(matching) : joined[a] \in S
    BY <1>17, <1>19, <1>20
  <2>2. joined = [a \in 1..Len(matching) |-> joined[a]]
    BY <1>17
  <2> HIDE DEF S, joined
  <2>3. joined \in [1..Len(matching) -> S]
    BY <2>1, <2>2
  <2> QED
    BY <1>17, <2>3
<1> HIDE DEF joined, h
<1>25. IsListing(h, joined, Found(next), RowsFor(next, kept, isTrue), AllSafe)
  BY <1>21, <1>22, <1>23, Zenon DEF IsListing
<1>26. Stage(joined, next, kept, isTrue)
  BY <1>24, <1>25 DEF Stage, Lists
<1> QED
  BY <1>1, <1>26 DEF kept

------------------------------------------------------------------------------
(***************************************************************************)
(* The body from its first literal to its last.                            *)
(***************************************************************************)
\* The variables of the first k literals, however they are written.
LEMMA IdsSteps ==
  ASSUME Ready
  PROVE  /\ Ids(0) = {} /\ BodyIds(body) = Ids(Len(body))
         /\ \A k \in 0..Len(body) : BodyIds(SubSeq(body, 1, k)) = Ids(k)
         /\ \A k \in 1..Len(body) : Ids(k) = Ids(k - 1) \cup VarIds(body[k].terms)
         /\ \A k \in 0..Len(body) : Ids(k) \subseteq Ids(Len(body))
<1> DEFINE n == Len(body)
<1>1. n \in Nat /\ n >= 1 /\ DOMAIN body = 1..n /\ body \in Seq(Literal)
  BY DEF Ready
<1>2. \A k \in 0..n : BodyIds(SubSeq(body, 1, k)) = Ids(k)
  <2> TAKE k \in 0..n
  <2> DEFINE prefix == SubSeq(body, 1, k)
  <2>1. DOMAIN prefix = 1..k /\ \A i \in 1..k : prefix[i] = body[i]
    BY <1>1
  <2> HIDE DEF prefix
  <2>2. BodyIds(prefix) = UNION {VarIds(prefix[i].terms) : i \in 1..k}
    BY <2>1 DEF BodyIds
  <2>3. {VarIds(prefix[i].terms) : i \in 1..k} = {VarIds(body[i].terms) : i \in 1..k}
    BY <2>1
  <2> QED
    BY <2>2, <2>3 DEF Ids, prefix
<1>3. /\ BodyIds(SubSeq(body, 1, 0)) = {}
      /\ \A k \in DOMAIN body : BodyIds(SubSeq(body, 1, k)) =
           BodyIds(SubSeq(body, 1, k - 1)) \cup VarIds(body[k].terms)
      /\ BodyIds(SubSeq(body, 1, Len(body))) = BodyIds(body)
  BY <1>1, PrefixIds
<1>4. 0 \in 0..n /\ n \in 0..n /\ \A k \in 1..n : k \in 0..n /\ k - 1 \in 0..n
  BY <1>1
<1>5. \A k \in 0..n : Ids(k) \subseteq Ids(n)
  BY <1>1 DEF Ids
<1> QED
  BY <1>1, <1>2, <1>3, <1>4, <1>5

\* EvalDisjunct lists the instances of the body: with no unsafe literal all
\* of them, each once.
LEMMA DisjunctStage ==
  ASSUME Ready, NEW ps, \A k \in DOMAIN body : ps[k] = Relation(k)
  PROVE  Stage(EvalDisjunct(rule.disjuncts[1], ps, rule.head.terms, rule.head.isTrue),
               Len(body), rule.head.terms, rule.head.isTrue)
<1> DEFINE n == Len(body)
           dest == rule.head.terms
           isTrue == rule.head.isTrue
           columns == VarsOf(dest, body)
           destOf(k) == IF k = n THEN dest ELSE columns
           cols(k) == Having(destOf(k), Ids(k))
           sign(k) == k = n => isTrue
           T == [k \in 1..n |-> {rows \in Seq({RowOf(c, cols(k), sign(k)) : c \in Found(k)}) :
                                   Stage(rows, k, cols(k), sign(k))}]
           first == EvalSubgoalFirst(body[1], ps[1], IF n = 1 THEN dest ELSE columns, n = 1 => isTrue)
           next(x, k) ==
             EvalSubgoalNext(Seen(columns, SubSeq(body, 1, k - 1)), x, body[k], ps[k],
                             IF k = n THEN dest ELSE columns, k = n => isTrue,
                             IF k = n THEN functions ELSE << >>)
           V == UNION {T[k] : k \in 1..n}
           F == [p \in V \X (1..n) |-> next(p[1], p[2])]
           Eq(g) == [k \in 1..n |-> IF k = 1 THEN first ELSE next(g[k - 1], k)]
           tmp == CHOOSE g : g = Eq(g)
<1>1. EvalDisjunct(rule.disjuncts[1], ps, dest, isTrue) = tmp[n]
  BY Zenon DEF EvalDisjunct, body, functions
<1>2. n \in Nat /\ n >= 1 /\ DOMAIN body = 1..n /\ 1 \in 1..n /\ n \in 1..n /\ body \in Seq(Literal)
  BY DEF Ready
<1>3. \A k \in 1..n : ps[k] = Relation(k) /\ body[k].terms \in Seq(AnyTerm)
  BY <1>2, LiteralFacts
<1>4. dest \in Seq(AnyTerm) /\ isTrue \in BOOLEAN
  BY DEF Ready
<1>5. columns \in Seq(VariableTerms) /\ Ids(n) \subseteq VarIds(columns)
  <2>1. \A lit \in Literal : lit.terms \in Seq(AnyTerm)
    BY DEF Literal, Term, AnyTerm
  <2>2. BodyIds(body) = Ids(n)
    BY IdsSteps
  <2> QED
    BY <1>2, <1>4, <2>1, <2>2, VarsOfFacts
<1> HIDE DEF columns
<1>6. columns \in Seq(AnyTerm) /\ \A k \in 1..n : destOf(k) \in Seq(AnyTerm)
  BY <1>4, <1>5, VariablesAreTerms
<1>7. /\ Ids(0) = {}
      /\ \A k \in 0..n : BodyIds(SubSeq(body, 1, k)) = Ids(k)
      /\ \A k \in 1..n : Ids(k) = Ids(k - 1) \cup VarIds(body[k].terms)
      /\ \A k \in 0..n : Ids(k) \subseteq Ids(n)
  BY IdsSteps
<1>8. ASSUME NEW k \in 1..n, NEW x
      PROVE  x \in T[k] <=> Stage(x, k, cols(k), sign(k))
  BY <1>8 DEF Stage
<1>9. ASSUME NEW k \in 1..n - 1
      PROVE  LET left == Seen(columns, SubSeq(body, 1, k))
             IN  /\ left \in Seq(AnyTerm)
                 /\ VarIds(left) = Ids(k)
                 /\ cols(k) = left
  <2> DEFINE left == Seen(columns, SubSeq(body, 1, k))
  <2>1. k \in 0..n /\ k # n /\ k \in 1..n
    <3> HIDE DEF n, left
    <3> QED
      BY <1>2
  <2>2. /\ left = Having(columns, BodyIds(SubSeq(body, 1, k)))
        /\ left \in Seq(VariableTerms)
        /\ VarIds(left) = VarIds(columns) \cap BodyIds(SubSeq(body, 1, k))
    BY <1>5, SeenFacts
  <2>3. left \in Seq(AnyTerm)
    BY <2>2, VariablesAreTerms
  <2>4. destOf(k) = columns
    BY <2>1
  <2>5. BodyIds(SubSeq(body, 1, k)) = Ids(k) /\ Ids(k) \subseteq VarIds(columns)
    BY <1>5, <1>7, <2>1
  <2> HIDE DEF left, destOf
  <2>6. VarIds(left) = Ids(k)
    BY <2>2, <2>5
  <2>7. cols(k) = left
    BY <2>2, <2>4, <2>5
  <2> QED
    BY <2>3, <2>6, <2>7 DEF left, destOf
<1>10. first \in T[1]
  <2>1. (n = 1 => isTrue) \in BOOLEAN
    OBVIOUS
  <2> DEFINE to == destOf(1)
             s == n = 1 => isTrue
  <2>2. to \in Seq(AnyTerm)
    BY <1>2, <1>6
  <2>3. first = EvalSubgoalFirst(body[1], Relation(1), to, s)
    BY <1>2, <1>3
  <2>4. Kept(to, body[1].terms, << >>) = cols(1)
    <3>1. VarIds(<< >>) = {}
      BY DEF VarIds
    <3>2. Ids(1) = Ids(1 - 1) \cup VarIds(body[1].terms) /\ 1 - 1 = 0
      BY <1>2, <1>7
    <3>3. Ids(1) = VarIds(body[1].terms) \cup VarIds(<< >>)
      BY <1>7, <3>1, <3>2
    <3> HIDE DEF to
    <3>4. Kept(to, body[1].terms, << >>) = Having(to, Ids(1))
      BY <3>3, KeptIsHaving
    <3> QED
      BY <3>4 DEF to
  <2>5. sign(1) = s
    BY Zenon
  <2> HIDE DEF to, s, first, cols, sign, T
  <2>6. s \in BOOLEAN
    BY <2>1 DEF s
  <2>7. Stage(EvalSubgoalFirst(body[1], Relation(1), to, s), 1, Kept(to, body[1].terms, << >>), s)
    BY <2>2, <2>6, FirstStage
  <2>8. Stage(first, 1, cols(1), sign(1))
    BY <2>3, <2>4, <2>5, <2>7
  <2> QED
    BY <1>2, <1>8, <2>8
<1>11. ASSUME NEW k \in 1..n - 1, NEW x \in T[k]
       PROVE  next(x, k + 1) \in T[k + 1]
  <2> DEFINE m == k + 1
             left == Seen(columns, SubSeq(body, 1, k))
             to == destOf(m)
             s == m = n => isTrue
             fs == FunctionsAt(m)
  <2>1. k \in 1..n /\ m \in 1..n /\ m - 1 = k /\ k # n
    <3> HIDE DEF n, left, T, to, s, fs, next
    <3> QED
      BY <1>2
  <2>2. left \in Seq(AnyTerm) /\ VarIds(left) = Ids(k) /\ cols(k) = left
    BY <1>9
  <2>3. Stage(x, k, left, TRUE)
    <3>1. sign(k) = TRUE
      BY <2>1
    <3>2. Stage(x, k, cols(k), sign(k))
      BY <1>8, <2>1
    <3> HIDE DEF cols, sign, left
    <3> QED
      BY <2>2, <3>1, <3>2
  <2>4. to \in Seq(AnyTerm)
    BY <1>6, <2>1
  <2>5. s \in BOOLEAN
    OBVIOUS
  <2>6. next(x, m) = EvalSubgoalNext(left, x, body[m], Relation(m), to, s, fs)
    <3>1. SubSeq(body, 1, m - 1) = SubSeq(body, 1, k)
      BY <2>1
    <3>2. fs = IF m = n THEN functions ELSE << >>
      BY DEF FunctionsAt
    <3>3. ps[m] = Relation(m)
      BY <1>3, <2>1
    <3> HIDE DEF m, fs
    <3> QED
      BY <3>1, <3>2, <3>3
  <2>7. Kept(to, left, body[m].terms) = cols(m)
    <3>1. Ids(m) = Ids(m - 1) \cup VarIds(body[m].terms)
      BY <1>7, <2>1
    <3>2. Ids(m) = VarIds(left) \cup VarIds(body[m].terms)
      BY <2>1, <2>2, <3>1
    <3> HIDE DEF to, left, m
    <3>3. Kept(to, left, body[m].terms) = Having(to, Ids(m))
      BY <3>2, KeptIsHaving
    <3> QED
      BY <3>3 DEF to
  <2>8. sign(m) = s
    BY Zenon
  <2> HIDE DEF to, s, fs, next, cols, sign, T, left
  <2>9. Stage(EvalSubgoalNext(left, x, body[m], Relation(m), to, s, fs), m, Kept(to, left, body[m].terms), s)
    BY <2>2, <2>3, <2>4, <2>5, NextStage DEF fs
  <2> HIDE DEF m
  <2>10. Stage(next(x, m), m, cols(m), sign(m))
    BY <2>6, <2>7, <2>8, <2>9
  <2>11. next(x, m) \in T[m]
    BY <1>8, <2>1, <2>10
  <2> QED
    BY <2>11 DEF m
<1> HIDE DEF T, first, next
<1>12. ASSUME NEW k \in 2..n, NEW x \in T[k - 1]
       PROVE  next(x, k) \in T[k]
  <2> DEFINE j == k - 1
  <2>1. j \in 1..n - 1 /\ j + 1 = k
    BY <1>2
  <2>2. x \in T[j]
    OBVIOUS
  <2> HIDE DEF j
  <2>3. next(x, j + 1) \in T[j + 1]
    BY <1>11, <2>1, <2>2
  <2> QED
    BY <2>1, <2>3
<1>13. \A k \in 2..n : \A x \in T[k - 1] : F[<<x, k>>] = next(x, k)
  <2> TAKE k \in 2..n
  <2> TAKE x \in T[k - 1]
  <2>1. k \in 1..n /\ k - 1 \in 1..n
    BY <1>2
  <2>2. x \in V
    BY <2>1
  <2> HIDE DEF V
  <2> QED
    BY <2>1, <2>2
<1> HIDE DEF F, V
<1>14. ChainOf(n, T, first, F)
  BY <1>2, <1>10, <1>12, <1>13 DEF ChainOf
<1>15. PICK g : IsChain(g, n, T, first, F)
  BY <1>14, ChainExists
<1>16. g = Eq(g)
  <2>1. DOMAIN g = 1..n /\ g = [k \in 1..n |-> g[k]]
    BY <1>15 DEF IsChain
  <2>2. ASSUME NEW k \in 1..n
        PROVE  g[k] = IF k = 1 THEN first ELSE next(g[k - 1], k)
    <3>1. CASE k = 1
      BY <1>15, <3>1 DEF IsChain
    <3>2. CASE k # 1
      <4>1. k \in 2..n /\ k - 1 \in 1..n
        BY <1>2, <3>2
      <4>2. g[k] = F[<<g[k - 1], k>>] /\ g[k - 1] \in T[k - 1]
        BY <1>15, <4>1 DEF IsChain
      <4> QED
        BY <1>13, <3>2, <4>1, <4>2
    <3> QED
      BY <3>1, <3>2
  <2> QED
    BY <2>1, <2>2
<1>17. tmp = Eq(tmp)
  <2> HIDE DEF Eq
  <2> QED
    BY <1>16
<1> HIDE DEF tmp
<1>18. tmp[n] \in T[n]
  <2>1. tmp[1] = first
    BY <1>2, <1>17
  <2>2. ASSUME NEW k \in 2..n, tmp[k - 1] \in T[k - 1]
        PROVE  tmp[k] = F[<<tmp[k - 1], k>>]
    <3>1. k \in 1..n /\ k # 1
      BY <1>2
    <3>2. tmp[k] = next(tmp[k - 1], k)
      BY <1>17, <3>1
    <3> QED
      BY <1>13, <2>2, <3>2
  <2> QED
    BY <1>14, <2>1, <2>2, ChainTyped
<1>19. Stage(tmp[n], n, cols(n), sign(n))
  BY <1>2, <1>8, <1>18
<1>20. cols(n) = dest
  <2>1. VarIds(dest) \subseteq Ids(n) /\ destOf(n) = dest
    BY BodyBinds
  <2> HIDE DEF destOf
  <2>2. \A i \in DOMAIN dest : dest[i].isVar => dest[i].id \in Ids(n)
    BY <2>1 DEF VarIds
  <2>3. {i \in DOMAIN dest : dest[i].isVar => dest[i].id \in Ids(n)} = DOMAIN dest
    BY <2>2
  <2>4. Having(dest, Ids(n)) = ElementsAt(dest, DOMAIN dest)
    BY <2>3 DEF Having
  <2>5. Having(dest, Ids(n)) = dest
    BY <1>4, <2>4, AllElements
  <2> QED
    BY <2>1, <2>5
<1>21. sign(n) = isTrue
  BY <1>4
<1> HIDE DEF cols, sign
<1> QED
  BY <1>1, <1>19, <1>20, <1>21

------------------------------------------------------------------------------
\* The literals of a rule with one disjunct are those of its body.
LEMMA LiteralsOfOne ==
  ASSUME Disjuncts = 1, body \in Seq(Literal), NEW S, rule.disjuncts \in Seq(S)
  PROVE  /\ Literals(rule) = body
         /\ LiteralsOf(SubSeq(rule.disjuncts, 1, 0)) = << >>
<1>1. /\ DOMAIN rule.disjuncts = 1..1 /\ Len(rule.disjuncts) = 1
      /\ rule.disjuncts[1].body = body /\ body \in Seq(Literal)
  BY DEF Disjuncts, body
<1>2. Literals(rule) = body
  <2> DEFINE seqs == [d \in DOMAIN rule.disjuncts |-> rule.disjuncts[d].body]
  <2>1. seqs = [d \in 1..1 |-> body]
    BY <1>1
  <2>2. seqs \in Seq(Seq(Literal)) /\ Len(seqs) = 1 /\ seqs[1] = body
    BY <1>1, <2>1
  <2>3. Literals(rule) = FlattenSeq(seqs)
    BY DEF Literals, LiteralsOf
  <2> HIDE DEF seqs
  <2>4. PICK h : Flattening(h, Literal, seqs) /\ FlattenSeq(seqs) = h[Len(seqs)]
    BY <2>2, FlattenSteps
  <2>5. h[0] = << >> /\ h[1] = h[1 - 1] \o seqs[1] /\ 1 - 1 = 0
    BY <2>2, <2>4 DEF Flattening
  <2>6. h[1] = << >> \o body
    BY <2>2, <2>5
  <2>7. << >> \o body = body
    BY <1>1
  <2> QED
    BY <2>2, <2>3, <2>4, <2>6, <2>7
<1>3. LiteralsOf(SubSeq(rule.disjuncts, 1, 0)) = << >>
  <2> DEFINE part == SubSeq(rule.disjuncts, 1, 0)
             seqs == [d \in DOMAIN part |-> part[d].body]
  <2>1. DOMAIN part = {}
    BY <1>1
  <2>2. seqs = << >>
    BY <2>1
  <2>3. LiteralsOf(part) = FlattenSeq(seqs)
    BY DEF LiteralsOf
  <2>4. seqs \in Seq(Seq(Literal)) /\ Len(seqs) = 0
    BY <2>2
  <2> HIDE DEF part, seqs
  <2>5. PICK h : Flattening(h, Literal, seqs) /\ FlattenSeq(seqs) = h[Len(seqs)]
    BY <2>4, FlattenSteps
  <2> QED
    BY <2>3, <2>4, <2>5 DEF Flattening, part
<1> QED
  BY <1>2, <1>3

\* What a rule reads.
ReadsOf(q, ps) == [k \in DOMAIN Literals(q) |-> ps[Literals(q)[k].rel]]
Reads == ReadsOf(rule, pools)

\* EvalRule of a rule with one disjunct is EvalDisjunct of it for the head.
LEMMA RuleOfOne ==
  ASSUME Ready, NEW S, rule.disjuncts \in Seq(S)
  PROVE  \E ps : /\ \A k \in DOMAIN body : ps[k] = Relation(k)
                 /\ EvalRule(rule, Reads) =
                      EvalDisjunct(rule.disjuncts[1], ps, rule.head.terms, rule.head.isTrue)
<1> DEFINE disjuncts == rule.disjuncts
           head == rule.head.terms
           n == Len(disjuncts)
           columns == VarsOf(head, Literals(rule))
           before(d) == LiteralsOf(SubSeq(disjuncts, 1, d - 1))
           poolsOf(d) == SubSeq(Reads, Len(before(d)) + 1, Len(before(d)) + Len(disjuncts[d].body))
           ofDisjunct(d) == EvalDisjunct(disjuncts[d], poolsOf(d), IF n = 1 THEN head ELSE columns,
                                     n = 1 => rule.head.isTrue)
           results == [d \in 1..n |-> ofDisjunct(d)]
           next(x, d) ==
             EvalNextDisjunction(Seen(columns, before(d)), x, Seen(columns, disjuncts[d].body), results[d],
                                 IF d = n THEN head ELSE columns, d = n => rule.head.isTrue)
           Eq(g) == [d \in 1..n |-> IF d = 1 THEN results[1] ELSE next(g[d - 1], d)]
           tmp == CHOOSE g : g = Eq(g)
           ps == poolsOf(1)
           known == [d \in 1..n |-> results[1]]
<1>1. EvalRule(rule, Reads) = tmp[n]
  BY Zenon DEF EvalRule
<1>2. n = 1 /\ rule.head.isTrue \in BOOLEAN
  BY DEF Ready, Disjuncts
<1>3. results[1] = EvalDisjunct(disjuncts[1], ps, head, rule.head.isTrue)
  <2> DEFINE to == IF n = 1 THEN head ELSE columns
             s == n = 1 => rule.head.isTrue
  <2>1. results = [d \in 1..1 |-> ofDisjunct(d)]
    BY <1>2
  <2>2. results[1] = ofDisjunct(1)
    <3> HIDE DEF results, ofDisjunct
    <3> QED
      BY <2>1
  <2>3. ofDisjunct(1) = EvalDisjunct(disjuncts[1], ps, to, s)
    BY Zenon
  <2>4. to = head /\ s = rule.head.isTrue
    BY <1>2
  <2> HIDE DEF results, ofDisjunct, to, s, ps, disjuncts
  <2> QED
    BY <2>2, <2>3, <2>4
<1> HIDE DEF next, results
<1>4. \A g : Eq(g) = known
  <2> TAKE g
  <2>1. \A d \in 1..n : d = 1
    BY <1>2
  <2> HIDE DEF n
  <2> QED
    BY <2>1
<1>5. tmp = known
  <2> HIDE DEF Eq
  <2>1. known = Eq(known)
    BY <1>4
  <2>2. tmp = Eq(tmp)
    BY <2>1
  <2> HIDE DEF tmp, known
  <2> QED
    BY <1>4, <2>2
<1>6. tmp[n] = results[1]
  BY <1>2, <1>5
<1>7. \A k \in DOMAIN body : ps[k] = Relation(k)
  <2>1. before(1) = << >>
    <3>1. LiteralsOf(SubSeq(rule.disjuncts, 1, 0)) = << >>
      BY LiteralsOfOne DEF Ready
    <3>2. 1 - 1 = 0
      OBVIOUS
    <3> QED
      BY <3>1, <3>2
  <2>2. disjuncts[1].body = body
    BY DEF body
  <2>3. ps = SubSeq(Reads, 1, Len(body))
    <3>1. Len(before(1)) = 0
      BY <2>1
    <3> HIDE DEF before, disjuncts
    <3> QED
      BY <2>2, <3>1
  <2> HIDE DEF ps
  <2>4. Literals(rule) = body
    BY LiteralsOfOne DEF Ready
  <2>5. Reads = [k \in DOMAIN body |-> Relation(k)]
    BY <2>4 DEF Reads, ReadsOf, Relation
  <2>6. DOMAIN body = 1..Len(body) /\ Len(body) \in Nat
    BY DEF Ready
  <2>7. SubSeq(Reads, 1, Len(body)) = [k \in 1..Len(body) |-> Reads[k]]
    <3> DEFINE m == Len(body)
               R == {Relation(k) : k \in 1..m}
    <3>1. Reads \in Seq(R)
      BY <2>5, <2>6
    <3>2. Len(Reads) = m
      BY <2>5, <2>6
    <3> HIDE DEF m, R
    <3> QED
      BY <2>6, <3>1, <3>2 DEF m
  <2> QED
    BY <2>3, <2>5, <2>6, <2>7
<1> HIDE DEF ps, tmp
<1>8. EvalRule(rule, Reads) = EvalDisjunct(rule.disjuncts[1], ps, rule.head.terms, rule.head.isTrue)
  BY <1>1, <1>3, <1>6
<1> QED
  BY <1>7, <1>8

\* The ofDisjunct lists the instances of the rule.
LEMMA RuleStage ==
  ASSUME Ready, NEW S, rule.disjuncts \in Seq(S)
  PROVE  Stage(EvalRule(rule, Reads), Len(body), rule.head.terms, rule.head.isTrue)
<1>1. PICK ps : /\ \A k \in DOMAIN body : ps[k] = Relation(k)
                /\ EvalRule(rule, Reads) =
                     EvalDisjunct(rule.disjuncts[1], ps, rule.head.terms, rule.head.isTrue)
  BY RuleOfOne
<1>2. Stage(EvalDisjunct(rule.disjuncts[1], ps, rule.head.terms, rule.head.isTrue),
            Len(body), rule.head.terms, rule.head.isTrue)
  BY <1>1, DisjunctStage
<1> QED
  BY <1>1, <1>2

------------------------------------------------------------------------------
(***************************************************************************)
(* The theorems.                                                           *)
(***************************************************************************)
\* The instances are the choices found with the whole body, and their
\* outcomes the rows for the head.
LEMMA InstancesFound ==
  ASSUME Ready, NEW S, pools \in [{"a", "b"} -> Seq(S)]
  PROVE  Instances = Found(Len(body))
<1> DEFINE n == Len(body)
           lengths == {0} \cup {Len(pools[r]) : r \in DOMAIN pools}
<1>1. /\ n \in Nat /\ DOMAIN body = 1..n /\ n = Len(body)
      /\ \A k \in 1..n : body[k].rel \in DOMAIN pools
      /\ \A k \in 1..n : Relation(k) = pools[body[k].rel]
  <2>1. body \in Seq(Literal)
    BY DEF Ready
  <2>2. \A k \in 1..n : body[k] \in Literal
    BY <2>1
  <2>3. \A k \in 1..n : body[k].rel \in DOMAIN pools
    BY <2>2 DEF Literal
  <2> QED
    BY <2>1, <2>3 DEF Relation
<1>2. ASSUME NEW r \in DOMAIN pools
      PROVE  Len(pools[r]) \in Nat
  OBVIOUS
<1>3. Max(lengths) \in Nat /\ \A k \in 1..n : Len(Relation(k)) \in 0..Max(lengths)
  <2>1. DOMAIN pools = {"a", "b"}
    OBVIOUS
  <2>2. PICK m \in Nat : lengths \in SUBSET (0..m)
    <3> DEFINE la == Len(pools["a"])
               lb == Len(pools["b"])
    <3>1. la \in Nat /\ lb \in Nat
      BY <1>2, <2>1
    <3>2. lengths = {0, la, lb}
      BY <2>1
    <3> HIDE DEF la, lb, lengths
    <3>3. lengths \in SUBSET (0..la + lb) /\ la + lb \in Nat
      BY <3>1, <3>2
    <3> QED
      BY <3>3
  <2>3. 0 \in lengths /\ \A r \in DOMAIN pools : Len(pools[r]) \in lengths
    OBVIOUS
  <2> HIDE DEF lengths
  <2>4. Max(lengths) \in lengths /\ \A y \in lengths : Max(lengths) >= y
    BY <2>2, <2>3, MaxOf
  <2>5. Max(lengths) \in Nat
    <3>1. \A y \in lengths : y \in Nat
      BY <2>2
    <3> QED
      BY <2>4, <3>1, Zenon
  <2> SUFFICES ASSUME NEW k \in 1..n
               PROVE  Len(Relation(k)) \in 0..Max(lengths)
    BY <2>5
  <2>6. Len(Relation(k)) \in Nat /\ Len(Relation(k)) \in lengths
    BY <1>1, <1>2, <2>3
  <2> QED
    BY <2>4, <2>5, <2>6
<1> DEFINE most == Max(lengths)
<1>4. most \in Nat
  BY <1>3
<1>5. FactChoices = {c \in [1..n -> 0..most] :
                       \A k \in DOMAIN c : c[k] <= Len(Relation(k)) /\ (c[k] = 0 => IsUnsafe(body[k]))}
  BY <1>1 DEF FactChoices, Relation
<1> HIDE DEF n, most
<1>6. ASSUME NEW c
      PROVE  c \in FactChoices <=> c \in PartialChoices(n)
  <2>1. ASSUME c \in FactChoices
        PROVE  c \in PartialChoices(n)
    <3>1. c \in [1..n -> 0..most] /\ \A k \in 1..n : c[k] <= Len(Relation(k)) /\ (c[k] = 0 => IsUnsafe(body[k]))
      BY <1>5, <2>1
    <3>2. c \in [1..n -> Nat]
      BY <1>4, <3>1
    <3> QED
      BY <3>1, <3>2 DEF PartialChoices
  <2>2. ASSUME c \in PartialChoices(n)
        PROVE  c \in FactChoices
    <3>1. c \in [1..n -> Nat] /\ \A k \in 1..n : c[k] <= Len(Relation(k)) /\ (c[k] = 0 => IsUnsafe(body[k]))
      BY <2>2 DEF PartialChoices
    <3>2. \A k \in 1..n : c[k] \in 0..most
      BY <1>3, <1>4, <3>1 DEF most
    <3>3. c \in [1..n -> 0..most]
      BY <3>1, <3>2
    <3> QED
      BY <1>5, <3>1, <3>3
  <2> QED
    BY <2>1, <2>2
<1>7. n = Len(body)
  BY DEF n
<1>8. \A c : c \in Instances <=> c \in Found(n)
  BY <1>6, <1>7 DEF Instances, Found
<1> QED
  BY <1>7, <1>8

\* Where a row is, and what gives it.
PlacesOf(rows, t) == {k \in DOMAIN rows : rows[k] = t}
SourcesOf(A, src, t) == {x \in A : src[x] = t}

\* A listing by all elements of A has a row as often as elements of A give it.
LEMMA ListingCounts ==
  ASSUME NEW E, NEW rows \in Seq(E), NEW A, NEW src, NEW exact, exact, Lists(rows, A, src, exact), NEW t
  PROVE  Cardinality(PlacesOf(rows, t)) = Cardinality(SourcesOf(A, src, t))
<1> DEFINE P == PlacesOf(rows, t)
           B == SourcesOf(A, src, t)
<1>0. P = {k \in DOMAIN rows : rows[k] = t} /\ B = {x \in A : src[x] = t}
  BY DEF PlacesOf, SourcesOf
<1> HIDE DEF P, B
<1>1. PICK g : IsListing(g, rows, A, src, exact)
  BY DEF Lists
<1>2. /\ g \in [DOMAIN rows -> A] /\ \A k \in DOMAIN rows : rows[k] = src[g[k]]
      /\ \A i, j \in DOMAIN rows : g[i] = g[j] => i = j
      /\ \A x \in A : \E k \in DOMAIN rows : g[k] = x
  BY <1>1, Zenon DEF IsListing
<1> DEFINE h == [k \in P |-> g[k]]
<1>3. IsFiniteSet(P)
  <2>1. IsFiniteSet(1..Len(rows))
    BY FS_Interval
  <2>2. P \subseteq 1..Len(rows)
    BY <1>0
  <2> QED
    BY <2>1, <2>2, FS_Subset
<1>4. h \in [P -> B]
  BY <1>0, <1>2
<1>5. \A i, j \in P : h[i] = h[j] => i = j
  BY <1>0, <1>2
<1>6. \A x \in B : \E k \in P : h[k] = x
  <2> TAKE x \in B
  <2>1. PICK k \in DOMAIN rows : g[k] = x
    BY <1>0, <1>2
  <2>2. rows[k] = t
    BY <1>0, <1>2, <2>1
  <2> QED
    BY <1>0, <2>1, <2>2
<1> HIDE DEF h
<1>7. ExistsBijection(P, B)
  <2>1. h \in Bijection(P, B)
    BY <1>4, <1>5, <1>6 DEF Bijection, Injection, Surjection, IsInjective
  <2> QED
    BY <2>1 DEF ExistsBijection
<1>8. Cardinality(B) = Cardinality(P)
  BY <1>3, <1>7, FS_Bijection
<1> QED
  BY <1>8 DEF P, B

\* The call is for the rule and the pools of a case, and its result is that
\* of EvalRule for what the rule reads.
CallInv ==
  /\ \E case \in Cases : rule \in case.rules /\ pools \in [{"a", "b"} -> case.pools]
  /\ evaluated \in BOOLEAN
  /\ evaluated => ~FirstUnsafe(rule) /\ result = EvalRule(rule, Reads)

LEMMA CallInvariant == Spec => []CallInv
<1>1. Init => CallInv
  BY DEF Init, CallInv
<1>2. CallInv /\ [Next]_vars => CallInv'
  <2> SUFFICES ASSUME CallInv, [Next]_vars
               PROVE  CallInv'
    OBVIOUS
  <2>1. CASE Evaluate
    <3>1. /\ result' = EvalRule(rule, Reads) /\ evaluated' = TRUE /\ rule' = rule /\ pools' = pools
          /\ ~FirstUnsafe(rule)
      BY <2>1 DEF Evaluate, Reads, ReadsOf
    <3>2. Reads' = ReadsOf(rule', pools')
      BY DEF Reads
    <3>3. Reads' = Reads
      BY <3>1, <3>2 DEF Reads
    <3>4. result' = EvalRule(rule', Reads')
      BY <3>1, <3>3
    <3> QED
      BY <3>1, <3>4 DEF CallInv
  <2>2. CASE Throw \/ UNCHANGED vars
    <3>1. result' = result /\ evaluated' = evaluated /\ rule' = rule /\ pools' = pools
      BY <2>2 DEF Throw, vars
    <3>2. Reads' = ReadsOf(rule', pools')
      BY DEF Reads
    <3>3. Reads' = Reads
      BY <3>1, <3>2 DEF Reads
    <3> QED
      BY <3>1, <3>3 DEF CallInv
  <2> QED
    BY <2>1, <2>2 DEF Next
<1> QED
  BY <1>1, <1>2, PTL DEF Spec

\* A rule with one disjunct, from a case without Null, whose body binds in
\* order what it tests, is ready for the stages.
LEMMA CaseIsReady ==
  ASSUME CallInv, evaluated, Disjuncts = 1, ValuesKnown, BoundInOrder
  PROVE  Ready /\ (\E S : rule.disjuncts \in Seq(S)) /\ (\E S : pools \in [{"a", "b"} -> Seq(S)])
<1>1. PICK case \in Cases : rule \in case.rules /\ pools \in [{"a", "b"} -> case.pools]
  BY DEF CallInv
<1>2. case.pools \subseteq Pool
  BY <1>1, CasesAssumption
<1>3. /\ rule \in RuleRecord
      /\ \A d \in DOMAIN rule.disjuncts : rule.disjuncts[d].body # << >>
      /\ \A lit \in ToSet(Literals(rule)) : \A pool \in case.pools : \A i \in DOMAIN pool :
           Len(pool[i].terms) = Len(lit.terms)
      /\ Len(rule.disjuncts) = 1 => Evaluable(rule.head, rule.disjuncts[1])
  BY <1>1, CasesAssumption
<1> DEFINE D == [body : Seq(Literal), functions : Seq(Comparison)]
<1>4. /\ rule.disjuncts \in Seq(D) /\ rule.head.isTrue \in BOOLEAN
      /\ rule.head.terms \in Seq(Term)
  BY <1>3 DEF RuleRecord
<1>5. 1 \in DOMAIN rule.disjuncts /\ rule.disjuncts[1] \in D
  <2>1. Len(rule.disjuncts) = 1 /\ rule.disjuncts \in Seq(D)
    BY <1>4 DEF Disjuncts
  <2> HIDE DEF D
  <2> QED
    BY <2>1
<1>6. body \in Seq(Literal) /\ functions \in Seq(Comparison)
  BY <1>5 DEF body, functions
<1>7. body # << >>
  BY <1>3, <1>5 DEF body
<1>8. Term = AnyTerm
  BY DEF Term, AnyTerm
<1>9. rule.head.terms \in Seq(AnyTerm)
  BY <1>4, <1>8
<1>10. Evaluable(rule.head, rule.disjuncts[1])
  BY <1>3 DEF Disjuncts
<1>11. Literals(rule) = body
  BY <1>4, <1>6, LiteralsOfOne
<1>12. pools \in [{"a", "b"} -> Seq(TuplesOver(Seq(Nat)))]
  BY <1>1, <1>2 DEF Pool
<1>13. ASSUME NEW k \in DOMAIN body
       PROVE  Relation(k) \in Seq(FactsFor(k))
  <2> DEFINE pool == Relation(k)
             m == Len(body[k].terms)
  <2>1. body[k] \in Literal
    BY <1>6
  <2>2. body[k].rel \in {"a", "b"} /\ m \in Nat
    BY <2>1 DEF Literal
  <2>3. pool \in case.pools /\ pool \in Seq(TuplesOver(Seq(Nat)))
    BY <1>1, <1>12, <2>2 DEF Relation
  <2>4. body[k] \in ToSet(Literals(rule))
    BY <1>11 DEF ToSet
  <2>5. /\ \A i \in DOMAIN pool : Len(pool[i].terms) = m
        /\ \A i \in DOMAIN pool : Null \notin ToSet(pool[i].terms)
    BY <1>3, <1>12, <2>2, <2>3, <2>4 DEF ValuesKnown, Relation
  <2> HIDE DEF pool, m
  <2>6. \A i \in DOMAIN pool : pool[i] \in FactsOf(Value, m)
    <3> TAKE i \in DOMAIN pool
    <3>1. pool[i] \in TuplesOver(Seq(Nat))
      BY <2>3
    <3>2. pool[i] \in [terms : Seq(Nat), value : TruthValue]
      BY <3>1 DEF TuplesOver
    <3> DEFINE t == pool[i].terms
    <3>3. t \in Seq(Nat) /\ Len(t) = m /\ Null \notin ToSet(t)
      BY <2>5, <3>2
    <3> HIDE DEF t
    <3>4. t \in [1..m -> Value]
      <4>1. DOMAIN t = 1..m /\ \A j \in 1..m : t[j] \in Nat
        BY <2>2, <3>3
      <4>2. \A j \in 1..m : t[j] \in ToSet(t)
        BY <4>1 DEF ToSet
      <4>3. t = [j \in 1..m |-> t[j]]
        BY <2>2, <3>3, <4>1
      <4> QED
        BY <3>3, <4>1, <4>2, <4>3 DEF Value
    <3>5. pool[i].terms \in RowTerms(Value, m)
      BY <3>4 DEF t, RowTerms
    <3> QED
      BY <3>2, <3>5 DEF FactsOf
  <2>7. pool \in Seq(FactsOf(Value, m))
    BY <2>3, <2>6
  <2> QED
    BY <2>7 DEF FactsFor, pool, m
<1>14. ~IsUnsafe(body[1])
  BY <1>5 DEF CallInv, FirstUnsafe, body
<1>15. Ready
  BY <1>4, <1>6, <1>7, <1>9, <1>10, <1>13, <1>14, Zenon DEF Ready
<1> QED
  BY <1>4, <1>12, <1>15

\* What the result lists.
LEMMA ResultListed ==
  ASSUME CallInv, evaluated, Disjuncts = 1, ValuesKnown, BoundInOrder
  PROVE  /\ result \in Seq({Outcome(c) : c \in Instances})
         /\ Lists(result, Instances, [c \in Instances |-> Outcome(c)], AllSafe)
<1> DEFINE n == Len(body)
           terms == rule.head.terms
           isTrue == rule.head.isTrue
<1>1. Ready
  BY CaseIsReady
<1>2. PICK S : rule.disjuncts \in Seq(S)
  BY CaseIsReady
<1>3. PICK E : pools \in [{"a", "b"} -> Seq(E)]
  BY CaseIsReady
<1>4. result = EvalRule(rule, Reads)
  BY DEF CallInv
<1>5. Stage(result, n, terms, isTrue)
  BY <1>1, <1>2, <1>4, RuleStage
<1>6. Instances = Found(n)
  BY <1>1, <1>3, InstancesFound
<1>7. \A c : Outcome(c) = RowOf(c, terms, isTrue)
  BY DEF Outcome, RowOf
<1>8. RowsFor(n, terms, isTrue) = [c \in Instances |-> Outcome(c)]
  BY <1>6, <1>7 DEF RowsFor
<1>9. {RowOf(c, terms, isTrue) : c \in Found(n)} = {Outcome(c) : c \in Instances}
  BY <1>6, <1>7
<1> QED
  BY <1>5, <1>6, <1>8, <1>9 DEF Stage

\* A rule without disjunction whose order binds what its literals that accept
\* Unknown test never gives a row that is not the outcome of an instance of it,
\* whatever its literals, its comparisons (which do not count for a body of one
\* literal) and its relations, where no fact has the integer -1 (EvalRule.cc,
\* EvalSubgoal.cc: selection, sorting, merge join, projection).
THEOREM ResultIsSound == Spec => []ResultSound
<1>1. CallInv => ResultSound
  <2> SUFFICES ASSUME CallInv, evaluated, Disjuncts = 1, ValuesKnown, BoundInOrder, NEW k \in DOMAIN result
               PROVE  \E c \in Instances : Outcome(c) = result[k]
    BY Zenon DEF ResultSound, OutcomesOnly
  <2>1. result \in Seq({Outcome(c) : c \in Instances})
    BY ResultListed
  <2>2. result[k] \in {Outcome(c) : c \in Instances}
    BY <2>1
  <2> QED
    BY <2>2
<1> QED
  BY <1>1, CallInvariant, PTL

\* When every literal is safe, a rule without disjunction gives every row as
\* often as it has instances with that outcome: the merge join neither misses
\* a pair of rows nor gives one twice.
THEOREM ResultIsComplete == Spec => []ResultComplete
<1>1. CallInv => ResultComplete
  <2> SUFFICES ASSUME CallInv, evaluated, Disjuncts = 1, ValuesKnown,
                      ~(\E k \in DOMAIN body : IsUnsafe(body[k])), NEW t
               PROVE  Occurrences(t) = Cardinality({c \in Instances : Outcome(c) = t})
    BY Zenon DEF ResultComplete
  <2> DEFINE outcomes == {Outcome(c) : c \in Instances}
             src == [c \in Instances |-> Outcome(c)]
             P == PlacesOf(result, t)
             B == SourcesOf(Instances, src, t)
  <2>1. result \in Seq(outcomes) /\ Lists(result, Instances, src, AllSafe)
    <3>1. BoundInOrder
      BY DEF BoundInOrder
    <3> QED
      BY <3>1, ResultListed
  <2>2. AllSafe
    BY DEF AllSafe
  <2>3. P = {k \in DOMAIN result : result[k] = t} /\ B = {c \in Instances : Outcome(c) = t}
    BY DEF PlacesOf, SourcesOf
  <2> HIDE DEF src, outcomes, P, B
  <2>4. Cardinality(P) = Cardinality(B)
    BY <2>1, <2>2, ListingCounts DEF P, B
  <2> QED
    BY <2>3, <2>4 DEF Occurrences
<1> QED
  BY <1>1, CallInvariant, PTL
==============================================================================
