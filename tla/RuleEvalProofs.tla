--------------------------- MODULE RuleEvalProofs ---------------------------
(***************************************************************************)
(* The facts that the other proofs cite, about any values of the constants.*)
(*                                                                         *)
(* First induction and recursion over natural numbers, without an operator *)
(* as a parameter: a predicate is the set of the numbers that satisfy it,  *)
(* and the step of a recursion is a function.  They come from the least    *)
(* element of a set of natural numbers.  Also the folds over a sequence,   *)
(* which are recursions over the sets of places that remain, the insertion *)
(* of an element into one, concatenations, chains of typed values and sums *)
(* over a finite set.                                                      *)
(*                                                                         *)
(* Then what the operators of the relation store and of the rule           *)
(* evaluation return, for pools of any length over any set T of term       *)
(* arrays, and for any rule.  The proofs about the machines that use them  *)
(* cite these facts and never expand the operators.                        *)
(***************************************************************************)
EXTENDS RuleEval, SequencesExt, SequenceTheorems, FiniteSetTheorems, WellFoundedInduction, TLAPS

LEMMA SmallestOf ==
  ASSUME NEW T \in SUBSET Nat, T # {}
  PROVE  \E x \in T : \A y \in T : x <= y
<1> DEFINE R == {ss \in Nat \X Nat : ss[1] < ss[2]}
<1>1. IsWellFoundedOn(R, Nat)
  BY NatLessThanWellFounded DEF OpToRel
<1>2. PICK x \in T : \A y \in T : ~ (<<y, x>> \in R)
  BY <1>1, WFMin
<1>3. ASSUME NEW y \in T
      PROVE  x <= y
  <2>1. ~ (y < x)
    BY <1>2
  <2> QED
    BY <2>1
<1> QED
  BY <1>3

\* Min and Max of a set of numbers that has them.
LEMMA MinOf ==
  ASSUME NEW T \in SUBSET Nat, T # {}
  PROVE  Min(T) \in T /\ \A y \in T : Min(T) <= y
  BY SmallestOf DEF Min

LEMMA MaxOf ==
  ASSUME NEW n \in Nat, NEW T \in SUBSET 0..n, T # {}
  PROVE  Max(T) \in T /\ \A y \in T : Max(T) >= y
<1> DEFINE U == {i \in Nat : i <= n /\ n - i \in T}
<1>1. U # {}
  <2>1. PICK y \in T : TRUE
    OBVIOUS
  <2>2. n - y \in U
    <3>1. n - y \in Nat /\ n - (n - y) = y /\ n - y <= n
      BY <2>1
    <3> QED
      BY <2>1, <3>1
  <2> QED
    BY <2>2
<1>2. PICK x \in U : \A y \in U : x <= y
  <2>1. U \in SUBSET Nat
    OBVIOUS
  <2> HIDE DEF U
  <2> QED
    BY <1>1, <2>1, SmallestOf
<1>3. n - x \in T
  BY <1>2
<1>4. ASSUME NEW y \in T
      PROVE  n - x >= y
  <2>1. n - y \in Nat /\ n - (n - y) = y /\ n - y <= n /\ y \in Nat
    BY <1>4
  <2>2. n - y \in U
    BY <2>1
  <2>3. x <= n - y
    BY <1>2, <2>2
  <2>4. x \in Nat
    OBVIOUS
  <2> HIDE DEF U
  <2> QED
    BY <2>1, <2>3, <2>4
<1> QED
  BY <1>3, <1>4 DEF Max

\* A set that has 0 and with n also n + 1 has every natural number.
LEMMA InductionOnNat ==
  ASSUME NEW S, 0 \in S, \A n \in Nat : n \in S => n + 1 \in S
  PROVE  Nat \subseteq S
<1> SUFFICES ASSUME Nat \ S # {} PROVE FALSE
  OBVIOUS
<1>1. PICK x \in Nat \ S : \A y \in Nat \ S : x <= y
  BY SmallestOf
<1>2. x # 0 /\ x - 1 \in Nat
  BY <1>1
<1>3. x - 1 \in S
  BY <1>1, <1>2
<1> QED
  BY <1>1, <1>2, <1>3

\* The same for the numbers up to a bound.
LEMMA InductionUpto ==
  ASSUME NEW m \in Nat, NEW S, 0 \in S, \A n \in 0..m : n < m /\ n \in S => n + 1 \in S
  PROVE  0..m \subseteq S
<1> DEFINE T == {n \in Nat : n <= m => n \in S}
<1>1. 0 \in T /\ \A n \in Nat : n \in T => n + 1 \in T
  OBVIOUS
<1>2. Nat \subseteq T
  <2> HIDE DEF T
  <2> QED
    BY <1>1, InductionOnNat
<1> QED
  BY <1>2

\* What Step gives a function at a place depends on the places of lower rank
\* alone.
IsRecursion(Step, rank, bound, D, V) ==
  /\ Step \in [[D -> V] \X D -> V]
  /\ rank \in [D -> Nat]
  /\ bound \in Nat /\ \A d \in D : rank[d] < bound
  /\ \A g, h \in [D -> V] : \A d \in D :
       (\A e \in D : rank[e] < rank[d] => g[e] = h[e]) => Step[<<g, d>>] = Step[<<h, d>>]

\* Then there is a function that satisfies the equation of the recursion.
LEMMA BoundedRecursion ==
  ASSUME NEW D, NEW V, NEW Step, NEW rank, NEW bound, IsRecursion(Step, rank, bound, D, V),
         NEW start \in V
  PROVE  \E g \in [D -> V] : \A d \in D : g[d] = Step[<<g, d>>]
<1> USE DEF IsRecursion
<1> DEFINE Upto(n) == {g \in [D -> V] : \A d \in D : rank[d] < n => g[d] = Step[<<g, d>>]}
           S == {n \in Nat : Upto(n) # {}}
<1>1. 0 \in S
  <2>1. [d \in D |-> start] \in Upto(0)
    OBVIOUS
  <2> QED
    BY <2>1
<1>2. ASSUME NEW n \in Nat, n \in S
      PROVE  n + 1 \in S
  <2>1. PICK g \in Upto(n) : TRUE
    BY <1>2
  <2> DEFINE h == [d \in D |-> Step[<<g, d>>]]
  <2>2. h \in [D -> V]
    OBVIOUS
  <2>3. ASSUME NEW d \in D, rank[d] < n + 1
        PROVE  h[d] = Step[<<h, d>>]
    <3>1. ASSUME NEW e \in D, rank[e] < rank[d]
          PROVE  g[e] = h[e]
      <4>1. rank[e] < n
        BY <2>3, <3>1
      <4>2. g[e] = Step[<<g, e>>]
        BY <2>1, <4>1
      <4> QED
        BY <4>2
    <3> QED
      BY <2>1, <2>2, <3>1
  <2>4. h \in Upto(n + 1)
    BY <2>2, <2>3
  <2> HIDE DEF Upto
  <2> QED
    BY <2>4
<1>3. bound \in S
  <2> HIDE DEF S
  <2> QED
    BY <1>1, <1>2, InductionOnNat
<1>4. PICK g \in Upto(bound) : TRUE
  BY <1>3
<1> QED
  BY <1>4

\* The places of a sequence without the last one end before it.
LEMMA WithoutLast ==
  ASSUME NEW n \in Nat, NEW s \in SUBSET (1..n), s # {}
  PROVE  /\ Max(s) \in s /\ Max(s) \in 1..n
         /\ s \ {Max(s)} \in SUBSET (1..n)
         /\ s \ {Max(s)} # {} => Max(s \ {Max(s)}) \in Nat /\ Max(s \ {Max(s)}) < Max(s)
<1>0. \A t \in SUBSET (1..n) : t \in SUBSET 0..n
  <2>1. 1..n \subseteq 0..n
    OBVIOUS
  <2> QED
    BY <2>1
<1>1. Max(s) \in s /\ \A y \in s : Max(s) >= y
  BY <1>0, MaxOf
<1> DEFINE rest == s \ {Max(s)}
<1>2. rest \in SUBSET (1..n)
  OBVIOUS
<1>3. rest # {} => Max(rest) \in rest
  <2> HIDE DEF rest
  <2> QED
    BY <1>0, <1>2, MaxOf
<1>4. ASSUME rest # {}
      PROVE  Max(rest) \in Nat /\ Max(rest) < Max(s)
  <2>1. Max(rest) \in s /\ Max(rest) # Max(s)
    BY <1>3, <1>4
  <2>2. Max(rest) \in 1..n /\ Max(s) \in 1..n
    BY <1>1, <2>1
  <2> QED
    BY <1>1, <2>1, <2>2
<1> QED
  BY <1>1, <1>2, <1>4

\* A fold from the left with the function F: the recursion over sets of places
\* that MapThenFoldSet chooses a function for has a solution.
IsFold(g, F, base, seq, n, V) ==
  /\ g \in [SUBSET (1..n) -> V]
  /\ \A s \in SUBSET (1..n) :
       g[s] = IF s = {} THEN base ELSE F[<<g[s \ {Max(s)}], seq[Max(s)]>>]

LEMMA FoldExists ==
  ASSUME NEW V, NEW E, NEW F \in [V \X E -> V], NEW base \in V,
         NEW n \in Nat, NEW seq \in [1..n -> E]
  PROVE  \E g : IsFold(g, F, base, seq, n, V)
<1> DEFINE D == SUBSET (1..n)
           Step == [p \in [D -> V] \X D |->
                      IF p[2] = {} THEN base ELSE F[<<p[1][p[2] \ {Max(p[2])}], seq[Max(p[2])]>>]]
           rank == [s \in D |-> IF s = {} THEN 0 ELSE Max(s)]
<1>1. ASSUME NEW s \in D, s # {}
      PROVE  /\ Max(s) \in 1..n /\ s \ {Max(s)} \in D
             /\ rank[s] = Max(s) /\ rank[s \ {Max(s)}] < Max(s)
  <2>1. /\ Max(s) \in 1..n /\ s \ {Max(s)} \in D
        /\ s \ {Max(s)} # {} => Max(s \ {Max(s)}) \in Nat /\ Max(s \ {Max(s)}) < Max(s)
    BY <1>1, WithoutLast
  <2>2. rank[s] = Max(s)
    BY <1>1
  <2>3. rank[s \ {Max(s)}] = IF s \ {Max(s)} = {} THEN 0 ELSE Max(s \ {Max(s)})
    BY <2>1
  <2> HIDE DEF rank
  <2> QED
    BY <2>1, <2>2, <2>3
<1>2. Step \in [[D -> V] \X D -> V]
  BY <1>1
<1>3. rank \in [D -> Nat] /\ \A s \in D : rank[s] < n + 1
  <2>1. ASSUME NEW s \in D
        PROVE  rank[s] \in 0..n /\ rank[s] < n + 1
    <3>1. CASE s = {}
      BY <3>1
    <3>2. CASE s # {}
      <4>1. Max(s) \in 1..n /\ rank[s] = Max(s)
        BY <1>1, <3>2
      <4> HIDE DEF rank
      <4> QED
        BY <4>1
    <3> QED
      BY <3>1, <3>2
  <2>2. rank \in [D -> Nat]
    <3>1. \A s \in D : rank[s] \in Nat
      <4> HIDE DEF rank, D
      <4> QED
        BY <2>1
    <3> QED
      BY <3>1, Zenon
  <2> QED
    BY <2>1, <2>2
<1>4. ASSUME NEW g \in [D -> V], NEW h \in [D -> V], NEW s \in D,
             \A e \in D : rank[e] < rank[s] => g[e] = h[e]
      PROVE  Step[<<g, s>>] = Step[<<h, s>>]
  <2>1. CASE s = {}
    BY <2>1
  <2>2. CASE s # {}
    <3>1. g[s \ {Max(s)}] = h[s \ {Max(s)}]
      BY <1>1, <1>4, <2>2
    <3> QED
      BY <3>1
  <2> QED
    BY <2>1, <2>2
<1>5. IsRecursion(Step, rank, n + 1, D, V)
  <2>1. n + 1 \in Nat
    OBVIOUS
  <2> HIDE DEF D, Step, rank
  <2> QED
    BY <1>2, <1>3, <1>4, <2>1 DEF IsRecursion
<1>6. PICK g \in [D -> V] : \A s \in D : g[s] = Step[<<g, s>>]
  <2> HIDE DEF D, Step, rank
  <2> QED
    BY <1>5, BoundedRecursion
<1>7. ASSUME NEW s \in D
      PROVE  g[s] = IF s = {} THEN base ELSE F[<<g[s \ {Max(s)}], seq[Max(s)]>>]
  BY <1>6
<1> QED
  BY <1>7, Zenon DEF IsFold

\* The places up to k + 1, without the last one.
LEMMA LastPlace ==
  ASSUME NEW k \in Nat
  PROVE  Max(1..k + 1) = k + 1 /\ (1..k + 1) \ {k + 1} = 1..k /\ 1..k + 1 # {}
<1>1. k + 1 \in 1..k + 1 /\ 1..k + 1 \in SUBSET 0..k + 1
  OBVIOUS
<1>2. Max(1..k + 1) \in 1..k + 1 /\ \A y \in 1..k + 1 : Max(1..k + 1) >= y
  <2>1. k + 1 \in Nat
    OBVIOUS
  <2>2. 1..k + 1 # {}
    BY <1>1, Zenon
  <2> QED
    BY <1>1, <2>1, <2>2, MaxOf
<1>3. Max(1..k + 1) = k + 1
  BY <1>1, <1>2
<1>4. 1..k + 1 # {}
  BY <1>1, Zenon
<1> QED
  BY <1>3, <1>4

\* The values of a fold, from the first to the last.
FoldsWith(iter, F, base, seq, n, V, E) ==
  /\ F \in [V \X E -> V] /\ base \in V /\ n \in Nat /\ seq \in [1..n -> E]
  /\ iter[{}] = base
  /\ \A s \in SUBSET (1..n) : s # {} /\ iter[s \ {Max(s)}] \in V =>
       iter[s] = F[<<iter[s \ {Max(s)}], seq[Max(s)]>>]

IsRun(h, F, base, seq, n, V) ==
  /\ h \in [0..n -> V]
  /\ h[0] = base
  /\ \A k \in 1..n : h[k] = F[<<h[k - 1], seq[k]>>]

LEMMA FoldValues ==
  ASSUME NEW V, NEW E, NEW F, NEW base, NEW n, NEW seq, NEW iter,
         FoldsWith(iter, F, base, seq, n, V, E)
  PROVE  \E h : IsRun(h, F, base, seq, n, V) /\ iter[1..n] = h[n]
<1> USE DEF FoldsWith, IsRun
<1> DEFINE h == [k \in 0..n |-> iter[1..k]]
           S == {k \in 0..n : h[k] \in V}
<1>1. 1..0 = {} /\ 0 \in 0..n /\ n \in 0..n
  OBVIOUS
<1>2. h[0] = base
  BY <1>1
<1>3. ASSUME NEW k \in 0..n, k < n, h[k] \in V
      PROVE  h[k + 1] = F[<<h[k], seq[k + 1]>>] /\ h[k + 1] \in V
  <2>1. Max(1..k + 1) = k + 1 /\ (1..k + 1) \ {k + 1} = 1..k /\ 1..k + 1 # {}
    <3>1. k \in Nat
      OBVIOUS
    <3> QED
      BY <3>1, LastPlace
  <2>2. 1..k + 1 \in SUBSET (1..n) /\ k + 1 \in 0..n /\ k + 1 \in 1..n
    BY <1>3
  <2>3. iter[1..k] \in V
    BY <1>3
  <2>4. iter[(1..k + 1) \ {Max(1..k + 1)}] \in V
    BY <2>1, <2>3
  <2>5. iter[1..k + 1] = F[<<iter[(1..k + 1) \ {Max(1..k + 1)}], seq[Max(1..k + 1)]>>]
    BY <2>1, <2>2, <2>4
  <2>6. h[k + 1] = iter[1..k + 1] /\ h[k] = iter[1..k]
    BY <2>2
  <2>7. h[k + 1] = F[<<h[k], seq[k + 1]>>]
    <3> HIDE DEF h
    <3> QED
      BY <2>1, <2>5, <2>6
  <2>8. <<h[k], seq[k + 1]>> \in V \X E
    <3> HIDE DEF h
    <3> QED
      BY <1>3, <2>2
  <2> HIDE DEF h
  <2> QED
    BY <2>7, <2>8
<1>4. 0..n \subseteq S
  <2>1. 0 \in S
    BY <1>1, <1>2
  <2>2. ASSUME NEW k \in 0..n, k < n, k \in S
        PROVE  k + 1 \in S
    <3>1. k + 1 \in 0..n
      BY <2>2
    <3> HIDE DEF h
    <3> QED
      BY <1>3, <2>2, <3>1
  <2> HIDE DEF S
  <2> QED
    BY <2>1, <2>2, InductionUpto
<1>5. h \in [0..n -> V]
  BY <1>4
<1>6. \A k \in 1..n : h[k] = F[<<h[k - 1], seq[k]>>]
  <2> TAKE k \in 1..n
  <2>1. k - 1 \in 0..n /\ k - 1 < n /\ (k - 1) + 1 = k
    OBVIOUS
  <2>2. h[k - 1] \in V
    <3> HIDE DEF h
    <3> QED
      BY <1>4, <2>1
  <2> HIDE DEF h
  <2> QED
    BY <1>3, <2>1, <2>2
<1>7. iter[1..n] = h[n]
  BY <1>1
<1> QED
  BY <1>2, <1>5, <1>6, <1>7

------------------------------------------------------------------------------
\* t is s with e at place k.
InsertedAt(t, s, k, e) ==
  /\ Len(t) = Len(s) + 1
  /\ \A i \in 1..Len(s) + 1 : t[i] = IF i < k THEN s[i] ELSE IF i = k THEN e ELSE s[i - 1]

LEMMA InsertAtPlace ==
  ASSUME NEW L, NEW s \in Seq(L), NEW e \in L, NEW k \in 1..Len(s) + 1
  PROVE  InsertAt(s, k, e) \in Seq(L) /\ InsertedAt(InsertAt(s, k, e), s, k, e)
<1> DEFINE n == Len(s)
           a == SubSeq(s, 1, k - 1)
           b == SubSeq(s, k, n)
<1>1. n \in Nat
  OBVIOUS
<1>2. a \in Seq(L) /\ Len(a) = k - 1 /\ \A i \in 1..k - 1 : a[i] = s[i]
  <2>1. \A i \in 1..k - 1 : i \in 1..n
    BY <1>1
  <2> QED
    BY <1>1, <2>1
<1>3. b \in Seq(L) /\ Len(b) = n - k + 1 /\ \A i \in 1..n - k + 1 : b[i] = s[k + i - 1]
  <2>1. \A i \in k..n : i \in 1..n
    BY <1>1
  <2> QED
    BY <1>1, <2>1
<1> DEFINE c == a \o <<e>>
<1>4. c \in Seq(L) /\ Len(c) = k /\ (\A i \in 1..k - 1 : c[i] = s[i]) /\ c[k] = e
  <2> HIDE DEF a
  <2> QED
    BY <1>1, <1>2
<1>5. InsertAt(s, k, e) = c \o b
  BY DEF InsertAt
<1>6. c \o b \in Seq(L) /\ Len(c \o b) = n + 1
  <2> HIDE DEF c, b, n
  <2> QED
    BY <1>1, <1>3, <1>4
<1>7. ASSUME NEW i \in 1..n + 1
      PROVE  (c \o b)[i] = IF i < k THEN s[i] ELSE IF i = k THEN e ELSE s[i - 1]
  <2>1. (c \o b)[i] = IF i <= k THEN c[i] ELSE b[i - k]
    <3> HIDE DEF c, b, n
    <3> QED
      BY <1>1, <1>3, <1>4
  <2>2. CASE i <= k
    <3> HIDE DEF c
    <3> QED
      BY <1>4, <2>1, <2>2
  <2>3. CASE i > k
    <3>1. i - k \in 1..n - k + 1 /\ k + (i - k) - 1 = i - 1
      BY <1>1, <2>3
    <3> HIDE DEF b
    <3> QED
      BY <1>3, <2>1, <2>3, <3>1
  <2>4. i <= k \/ i > k
    BY <1>1
  <2> HIDE DEF b, c
  <2> QED
    BY <2>2, <2>3, <2>4
<1> QED
  BY <1>5, <1>6, <1>7 DEF InsertedAt
------------------------------------------------------------------------------
\* h[k] is the concatenation of the first k sequences.
Flattening(h, E, seqs) ==
  /\ h \in [0..Len(seqs) -> Seq(E)]
  /\ h[0] = << >>
  /\ \A k \in 1..Len(seqs) : h[k] = h[k - 1] \o seqs[k]

\* FlattenSeq concatenates step by step.
LEMMA FlattenSteps ==
  ASSUME NEW E, NEW seqs \in Seq(Seq(E))
  PROVE  \E h : Flattening(h, E, seqs) /\ FlattenSeq(seqs) = h[Len(seqs)]
<1> DEFINE n == Len(seqs)
           D == 1..n
           V == Seq(E)
           Step == [p \in [D -> V] \X D |-> IF p[2] = 1 THEN seqs[p[2]] ELSE p[1][p[2] - 1] \o seqs[p[2]]]
           rank == [k \in D |-> k]
           Eq(f) == [k \in D |-> IF k = 1 THEN seqs[k] ELSE f[k - 1] \o seqs[k]]
           flatten == CHOOSE f : f = Eq(f)
<1>1. n \in Nat /\ DOMAIN seqs = D /\ \A k \in D : seqs[k] \in V
  OBVIOUS
<1>2. ASSUME NEW g \in [D -> V], NEW k \in D
      PROVE  (IF k = 1 THEN seqs[k] ELSE g[k - 1] \o seqs[k]) \in V
  <2>1. CASE k = 1
    BY <1>1, <2>1
  <2>2. CASE k # 1
    <3>1. k - 1 \in D
      BY <1>1, <2>2
    <3>2. g[k - 1] \in V /\ seqs[k] \in V
      BY <1>1, <3>1
    <3> QED
      BY <2>2, <3>2
  <2> QED
    BY <2>1, <2>2
<1>3. Step \in [[D -> V] \X D -> V]
  BY <1>2
<1>4. IsRecursion(Step, rank, n + 1, D, V)
  <2>1. rank \in [D -> Nat] /\ n + 1 \in Nat /\ \A k \in D : rank[k] < n + 1
    BY <1>1
  <2>2. ASSUME NEW g \in [D -> V], NEW h \in [D -> V], NEW k \in D,
               \A e \in D : rank[e] < rank[k] => g[e] = h[e]
        PROVE  Step[<<g, k>>] = Step[<<h, k>>]
    <3>1. CASE k = 1
      BY <3>1
    <3>2. CASE k # 1
      <4>1. k - 1 \in D /\ rank[k - 1] < rank[k]
        BY <1>1, <3>2
      <4>2. g[k - 1] = h[k - 1]
        <5> HIDE DEF rank, D
        <5> QED
          BY <2>2, <4>1
      <4> QED
        BY <4>2
    <3> QED
      BY <3>1, <3>2
  <2> HIDE DEF D, V, Step, rank, n
  <2> QED
    BY <1>3, <2>1, <2>2 DEF IsRecursion
<1>5. PICK g \in [D -> V] : \A k \in D : g[k] = Step[<<g, k>>]
  <2>1. << >> \in V
    OBVIOUS
  <2> HIDE DEF D, V, Step, rank, n
  <2> QED
    BY <1>4, <2>1, BoundedRecursion
<1>6. g = Eq(g)
  BY <1>5
<1>7. flatten = Eq(flatten)
  <2> HIDE DEF Eq
  <2> QED
    BY <1>6
<1> DEFINE h == [k \in 0..n |-> IF k = 0 THEN << >> ELSE flatten[k]]
<1>8. flatten = [k \in D |-> IF k = 1 THEN seqs[k] ELSE flatten[k - 1] \o seqs[k]]
  BY <1>7
<1> HIDE DEF flatten
<1>9. \A k \in D : flatten[k] \in V
  <2> DEFINE S == {k \in 0..n : k \in D => flatten[k] \in V}
  <2>1. 0 \in S
    BY <1>1
  <2>2. ASSUME NEW k \in 0..n, k < n, k \in S
        PROVE  k + 1 \in S
    <3>1. k + 1 \in D /\ k + 1 \in 0..n /\ (k + 1) - 1 = k
      BY <1>1, <2>2
    <3>2. flatten[k + 1] = IF k + 1 = 1 THEN seqs[k + 1] ELSE flatten[k] \o seqs[k + 1]
      <4>1. flatten[k + 1] = IF k + 1 = 1 THEN seqs[k + 1] ELSE flatten[(k + 1) - 1] \o seqs[k + 1]
        BY <1>8, <3>1
      <4> QED
        BY <3>1, <4>1
    <3>3. CASE k = 0
      BY <1>1, <3>1, <3>2, <3>3
    <3>4. CASE k # 0
      <4>1. k \in D
        BY <1>1, <3>4
      <4>2. flatten[k] \in V
        BY <2>2, <4>1
      <4>3. flatten[k] \o seqs[k + 1] \in V
        BY <1>1, <3>1, <4>2
      <4>4. k + 1 # 1
        BY <1>1, <3>4
      <4>5. flatten[k + 1] = flatten[k] \o seqs[k + 1]
        BY <3>2, <4>4, Zenon
      <4> QED
        BY <3>1, <4>3, <4>5
    <3> QED
      BY <3>3, <3>4
  <2>3. 0..n \subseteq S
    <3> HIDE DEF S, D, V
    <3> QED
      BY <1>1, <2>1, <2>2, InductionUpto
  <2>4. \A k \in D : k \in 0..n
    BY <1>1
  <2> HIDE DEF V, D
  <2> QED
    BY <2>3, <2>4
<1>10. h \in [0..n -> V]
  BY <1>1, <1>9
<1>11. ASSUME NEW k \in 1..n
       PROVE  h[k] = h[k - 1] \o seqs[k]
  <2>1. k \in 0..n /\ k - 1 \in 0..n /\ k # 0 /\ (k - 1 = 0 <=> k = 1)
    BY <1>1
  <2>2. h[k] = flatten[k] /\ h[k - 1] = IF k = 1 THEN << >> ELSE flatten[k - 1]
    BY <2>1
  <2>3. flatten[k] = IF k = 1 THEN seqs[k] ELSE flatten[k - 1] \o seqs[k]
    BY <1>8
  <2>4. seqs[k] \in Seq(E)
    BY <1>1
  <2>5. << >> \o seqs[k] = seqs[k]
    BY <2>4
  <2> HIDE DEF h
  <2> QED
    BY <2>2, <2>3, <2>5
<1>12. FlattenSeq(seqs) = h[n]
  <2>1. CASE n = 0
    <3>1. seqs = << >>
      BY <2>1
    <3>2. h[n] = << >>
      BY <2>1
    <3> QED
      BY <2>1, <3>1, <3>2 DEF FlattenSeq
  <2>2. CASE n # 0
    <3>1. FlattenSeq(seqs) = flatten[n]
      BY <2>2, Zenon DEF FlattenSeq, flatten
    <3>2. n \in 0..n
      BY <1>1
    <3> QED
      BY <2>2, <3>1, <3>2
  <2> QED
    BY <2>1, <2>2
<1>13. h[0] = << >>
  BY <1>1
<1>14. Flattening(h, E, seqs)
  <2> HIDE DEF h
  <2> QED
    BY <1>10, <1>11, <1>13 DEF Flattening
<1> HIDE DEF h
<1> QED
  BY <1>12, <1>14

\* The first d sequences make the first part.
LEMMA FlattenPrefix ==
  ASSUME NEW E, NEW seqs \in Seq(Seq(E)), NEW h, Flattening(h, E, seqs), NEW d \in 0..Len(seqs)
  PROVE  FlattenSeq(SubSeq(seqs, 1, d)) = h[d]
<1> DEFINE first == SubSeq(seqs, 1, d)
<1>1. first \in Seq(Seq(E)) /\ Len(first) = d /\ \A k \in 1..d : first[k] = seqs[k]
  OBVIOUS
<1> HIDE DEF first
<1>2. PICK g : Flattening(g, E, first) /\ FlattenSeq(first) = g[d]
  BY <1>1, FlattenSteps
<1> DEFINE S == {k \in 0..d : g[k] = h[k]}
<1>3. 0 \in S
  BY <1>2 DEF Flattening
<1>4. ASSUME NEW k \in 0..d, k < d, k \in S
      PROVE  k + 1 \in S
  <2>1. k + 1 \in 1..d /\ k + 1 \in 1..Len(seqs) /\ k + 1 \in 0..d /\ (k + 1) - 1 = k
    BY <1>4
  <2>2. g[k + 1] = g[k] \o first[k + 1]
    <3>1. g[k + 1] = g[(k + 1) - 1] \o first[k + 1]
      BY <1>1, <1>2, <2>1 DEF Flattening
    <3> QED
      BY <2>1, <3>1
  <2>3. h[k + 1] = h[k] \o seqs[k + 1]
    <3>1. h[k + 1] = h[(k + 1) - 1] \o seqs[k + 1]
      BY <2>1 DEF Flattening
    <3> QED
      BY <2>1, <3>1
  <2> QED
    BY <1>1, <1>4, <2>1, <2>2, <2>3
<1>5. 0..d \subseteq S
  <2>1. d \in Nat
    OBVIOUS
  <2> HIDE DEF S
  <2> QED
    BY <1>3, <1>4, <2>1, InductionUpto
<1>6. d \in 0..d
  OBVIOUS
<1> QED
  BY <1>2, <1>5, <1>6 DEF first

\* The sequences stand one behind the other.
LEMMA FlattenFacts ==
  ASSUME NEW E, NEW seqs \in Seq(Seq(E))
  PROVE  /\ FlattenSeq(seqs) \in Seq(E)
         /\ \A i \in DOMAIN FlattenSeq(seqs) :
              \E d \in DOMAIN seqs : \E j \in DOMAIN seqs[d] : FlattenSeq(seqs)[i] = seqs[d][j]
         /\ \A d \in DOMAIN seqs : \A j \in DOMAIN seqs[d] :
              LET i == Len(FlattenSeq(SubSeq(seqs, 1, d - 1))) + j
              IN  i \in DOMAIN FlattenSeq(seqs) /\ FlattenSeq(seqs)[i] = seqs[d][j]
<1> DEFINE n == Len(seqs)
<1>1. PICK h : Flattening(h, E, seqs) /\ FlattenSeq(seqs) = h[n]
  BY FlattenSteps
<1>2. /\ n \in Nat /\ DOMAIN seqs = 1..n
      /\ h \in [0..n -> Seq(E)] /\ h[0] = << >>
      /\ \A k \in 1..n : h[k] = h[k - 1] \o seqs[k]
      /\ \A k \in 1..n : seqs[k] \in Seq(E)
  <2>1. n \in Nat /\ DOMAIN seqs = 1..n /\ \A k \in 1..n : seqs[k] \in Seq(E)
    OBVIOUS
  <2> QED
    BY <1>1, <2>1, Zenon DEF Flattening
<1> DEFINE From(m) == \A i \in DOMAIN h[m] : \E d \in 1..m : \E j \in DOMAIN seqs[d] : h[m][i] = seqs[d][j]
           To(m) == \A d \in 1..m : \A j \in DOMAIN seqs[d] :
                      Len(h[d - 1]) + j \in DOMAIN h[m] /\ h[m][Len(h[d - 1]) + j] = seqs[d][j]
           S == {m \in 0..n : From(m) /\ To(m)}
<1>3. 0 \in S
  BY <1>2
<1>4. ASSUME NEW m \in 0..n, m < n, m \in S
      PROVE  m + 1 \in S
  <2>1. m + 1 \in 1..n /\ m + 1 \in 0..n /\ (m + 1) - 1 = m
    BY <1>2, <1>4
  <2>2. h[m + 1] = h[m] \o seqs[m + 1] /\ h[m] \in Seq(E) /\ seqs[m + 1] \in Seq(E)
    <3>1. h[m + 1] = h[(m + 1) - 1] \o seqs[m + 1]
      BY <1>2, <2>1
    <3> QED
      BY <1>2, <2>1, <3>1
  <2> DEFINE a == Len(h[m])
             b == Len(seqs[m + 1])
  <2>3. /\ a \in Nat /\ b \in Nat
        /\ DOMAIN h[m] = 1..a /\ DOMAIN seqs[m + 1] = 1..b /\ DOMAIN h[m + 1] = 1..a + b
        /\ \A i \in 1..a : h[m + 1][i] = h[m][i]
        /\ \A j \in 1..b : h[m + 1][a + j] = seqs[m + 1][j]
    <3> DEFINE s == h[m]
               t == seqs[m + 1]
    <3>1. s \in Seq(E) /\ t \in Seq(E) /\ h[m + 1] = s \o t
      BY <2>2
    <3>2. a = Len(s) /\ b = Len(t)
      OBVIOUS
    <3> HIDE DEF s, t, a, b
    <3>3. /\ a \in Nat /\ b \in Nat
          /\ DOMAIN s = 1..a /\ DOMAIN t = 1..b /\ DOMAIN h[m + 1] = 1..a + b
          /\ \A i \in 1..a : h[m + 1][i] = s[i]
      BY <3>1, <3>2
    <3>4. \A j \in 1..b : a + j \in 1..a + b /\ a + j > a /\ (a + j) - a = j
      BY <3>3
    <3>5. \A j \in 1..b : h[m + 1][a + j] = t[j]
      BY <3>1, <3>2, <3>3, <3>4
    <3> QED
      BY <3>3, <3>5 DEF s, t
  <2> HIDE DEF a, b
  <2>4. ASSUME NEW i \in DOMAIN h[m + 1]
        PROVE  \E d \in 1..m + 1 : \E j \in DOMAIN seqs[d] : h[m + 1][i] = seqs[d][j]
    <3>1. CASE i \in 1..a
      <4>1. PICK d \in 1..m : \E j \in DOMAIN seqs[d] : h[m][i] = seqs[d][j]
        BY <1>4, <2>3, <3>1
      <4>2. d \in 1..m + 1
        OBVIOUS
      <4> QED
        BY <2>3, <3>1, <4>1, <4>2
    <3>2. CASE i \notin 1..a
      <4>1. i - a \in 1..b /\ a + (i - a) = i
        BY <2>3, <3>2
      <4>2. m + 1 \in 1..m + 1
        OBVIOUS
      <4> QED
        BY <2>3, <4>1, <4>2
    <3> QED
      BY <3>1, <3>2
  <2>5. ASSUME NEW d \in 1..m + 1, NEW j \in DOMAIN seqs[d]
        PROVE  Len(h[d - 1]) + j \in DOMAIN h[m + 1] /\ h[m + 1][Len(h[d - 1]) + j] = seqs[d][j]
    <3>1. CASE d \in 1..m
      <4>1. Len(h[d - 1]) + j \in 1..a /\ h[m][Len(h[d - 1]) + j] = seqs[d][j]
        BY <1>4, <2>3, <3>1
      <4>2. 1..a \subseteq 1..a + b
        BY <2>3
      <4> QED
        BY <2>3, <4>1, <4>2
    <3>2. CASE d = m + 1
      <4>1. d - 1 = m /\ j \in 1..b
        BY <2>3, <3>2
      <4>2. a + j \in 1..a + b
        BY <2>3, <4>1
      <4> QED
        BY <2>3, <3>2, <4>1, <4>2 DEF a
    <3> QED
      BY <3>1, <3>2
  <2> QED
    BY <2>1, <2>4, <2>5
<1>5. n \in S
  <2>1. 0..n \subseteq S
    <3> HIDE DEF S, n
    <3> QED
      BY <1>2, <1>3, <1>4, InductionUpto
  <2>2. n \in 0..n
    BY <1>2
  <2> HIDE DEF S
  <2> QED
    BY <2>1, <2>2
<1>6. FlattenSeq(seqs) \in Seq(E)
  BY <1>1, <1>2
<1>7. ASSUME NEW d \in DOMAIN seqs
      PROVE  FlattenSeq(SubSeq(seqs, 1, d - 1)) = h[d - 1]
  <2>1. d - 1 \in 0..n
    BY <1>2
  <2> QED
    BY <1>1, <2>1, FlattenPrefix
<1>8. From(n) /\ To(n)
  <2> HIDE DEF From, To
  <2> QED
    BY <1>5
<1>9. ASSUME NEW i \in DOMAIN FlattenSeq(seqs)
      PROVE  \E d \in DOMAIN seqs : \E j \in DOMAIN seqs[d] : FlattenSeq(seqs)[i] = seqs[d][j]
  <2>1. i \in DOMAIN h[n]
    BY <1>1
  <2>2. From(n)
    <3> HIDE DEF From, To
    <3> QED
      BY <1>8
  <2>3. PICK d \in 1..n : \E j \in DOMAIN seqs[d] : h[n][i] = seqs[d][j]
    <3> HIDE DEF n
    <3> QED
      BY <2>1, <2>2, Zenon
  <2>4. PICK j \in DOMAIN seqs[d] : h[n][i] = seqs[d][j]
    BY <2>3
  <2>5. d \in DOMAIN seqs /\ FlattenSeq(seqs)[i] = seqs[d][j]
    BY <1>1, <1>2, <2>4
  <2> QED
    BY <2>4, <2>5, Zenon
<1>10. ASSUME NEW d \in DOMAIN seqs, NEW j \in DOMAIN seqs[d]
       PROVE  /\ Len(FlattenSeq(SubSeq(seqs, 1, d - 1))) + j \in DOMAIN FlattenSeq(seqs)
              /\ FlattenSeq(seqs)[Len(FlattenSeq(SubSeq(seqs, 1, d - 1))) + j] = seqs[d][j]
  <2>1. /\ Len(h[d - 1]) + j \in DOMAIN h[n]
        /\ h[n][Len(h[d - 1]) + j] = seqs[d][j]
    <3> HIDE DEF n, From
    <3> QED
      BY <1>2, <1>8
  <2> HIDE DEF n
  <2> QED
    BY <1>1, <1>7, <2>1
<1> QED
  BY <1>6, <1>9, <1>10

\* A sequence over a set is one over every larger set.
LEMMA SeqOfMore ==
  ASSUME NEW A, NEW B, A \subseteq B, NEW s \in Seq(A)
  PROVE  s \in Seq(B)
<1>1. Len(s) \in Nat /\ s \in [1..Len(s) -> A]
  OBVIOUS
<1>2. s \in [1..Len(s) -> B]
  BY <1>1
<1> QED
  BY <1>1, <1>2, SeqDef

\* A sequence is the longest of its prefixes.
LEMMA WholePrefix ==
  ASSUME NEW E, NEW s \in Seq(E)
  PROVE  SubSeq(s, 1, Len(s)) = s
<1> DEFINE n == Len(s)
           whole == SubSeq(s, 1, n)
<1>1. n \in Nat /\ s = [i \in 1..n |-> s[i]]
  OBVIOUS
<1>2. whole = [i \in 1..n |-> whole[i]] /\ \A i \in 1..n : whole[i] = s[i]
  OBVIOUS
<1> HIDE DEF whole, n
<1>3. whole = s
  BY <1>1, <1>2
<1> QED
  BY <1>3 DEF whole, n

\* A chain of values, each of the type of its place, made from the one before.
IsChain(g, n, T, first, F) ==
  /\ DOMAIN g = 1..n /\ g = [k \in 1..n |-> g[k]]
  /\ g[1] = first
  /\ \A k \in 1..n : g[k] \in T[k]
  /\ \A k \in 2..n : g[k] = F[<<g[k - 1], k>>]

ChainOf(n, T, first, F) ==
  /\ n \in Nat /\ n >= 1
  /\ first \in T[1]
  /\ \A k \in 2..n : \A x \in T[k - 1] : F[<<x, k>>] \in T[k]

\* A chain whose every value has the type of its place exists.
LEMMA ChainExists ==
  ASSUME NEW n, NEW T, NEW first, NEW F, ChainOf(n, T, first, F)
  PROVE  \E g : IsChain(g, n, T, first, F)
<1> DEFINE D == 1..n
           V == UNION {T[k] : k \in D}
           next(x, k) == IF k = 1 \/ x \notin T[k - 1] THEN first ELSE F[<<x, k>>]
           Step == [p \in [D -> V] \X D |-> next(p[1][p[2] - 1], p[2])]
           rank == [k \in D |-> k]
<1>1. /\ n \in Nat /\ n + 1 \in Nat /\ 1 \in D /\ first \in T[1] /\ first \in V
      /\ \A k \in D : k # 1 => k \in 2..n /\ k - 1 \in D
      /\ \A k \in 2..n : k \in D /\ k # 1 /\ k - 1 \in D
      /\ \A k \in 2..n : \A x \in T[k - 1] : F[<<x, k>>] \in T[k]
  BY DEF ChainOf
<1>2. /\ rank \in [D -> Nat] /\ \A k \in D : rank[k] < n + 1
      /\ \A k \in D : k # 1 => rank[k - 1] < rank[k]
  BY <1>1
<1> HIDE DEF D, rank
<1>3. ASSUME NEW x, NEW k \in D
      PROVE  /\ next(x, k) \in V
             /\ k = 1 => next(x, k) = first
             /\ k # 1 /\ x \in T[k - 1] => next(x, k) = F[<<x, k>>]
  <2>1. k = 1 \/ x \notin T[k - 1] => next(x, k) = first
    OBVIOUS
  <2>2. k # 1 /\ x \in T[k - 1] => next(x, k) = F[<<x, k>>] /\ next(x, k) \in T[k]
    BY <1>1
  <2> HIDE DEF next
  <2> QED
    BY <1>1, <2>1, <2>2
<1>4. \A h \in [D -> V], k \in D : Step[<<h, k>>] = next(h[k - 1], k)
  <2> HIDE DEF V, next
  <2> QED
    OBVIOUS
<1>5. Step \in [[D -> V] \X D -> V]
  <2> HIDE DEF V, next
  <2> QED
    BY <1>3
<1>6. ASSUME NEW g \in [D -> V], NEW h \in [D -> V], NEW d \in D,
             \A e \in D : rank[e] < rank[d] => g[e] = h[e]
      PROVE  Step[<<g, d>>] = Step[<<h, d>>]
  <2>1. CASE d = 1
    <3>1. Step[<<g, d>>] = next(g[d - 1], d) /\ Step[<<h, d>>] = next(h[d - 1], d)
      <4> HIDE DEF Step, next, V
      <4> QED
        BY <1>4
    <3>2. next(g[d - 1], d) = first /\ next(h[d - 1], d) = first
      BY <2>1
    <3> QED
      BY <3>1, <3>2
  <2>2. CASE d # 1
    <3>1. g[d - 1] = h[d - 1]
      <4> HIDE DEF V
      <4> QED
        BY <1>1, <1>2, <1>6, <2>2
    <3> HIDE DEF Step, next, V
    <3> QED
      BY <1>4, <3>1
  <2> QED
    BY <2>1, <2>2
<1>7. IsRecursion(Step, rank, n + 1, D, V)
  <2> HIDE DEF V, Step
  <2> QED
    BY <1>1, <1>2, <1>5, <1>6 DEF IsRecursion
<1>8. PICK g \in [D -> V] : \A k \in D : g[k] = Step[<<g, k>>]
  <2> HIDE DEF V, Step
  <2> QED
    BY <1>1, <1>7, BoundedRecursion
<1>9. \A k \in D : /\ k = 1 => g[k] = first
                   /\ k # 1 /\ g[k - 1] \in T[k - 1] => g[k] = F[<<g[k - 1], k>>]
  <2> TAKE k \in D
  <2>1. g[k] = next(g[k - 1], k)
    <3> HIDE DEF V, Step, next
    <3> QED
      BY <1>4, <1>8
  <2> HIDE DEF V, Step, next
  <2> QED
    BY <1>3, <2>1
<1> HIDE DEF V, Step
<1> DEFINE S == {k \in 0..n : k # 0 => g[k] \in T[k]}
<1>10. ASSUME NEW k \in 0..n, k < n, k \in S
       PROVE  k + 1 \in S
  <2>1. k + 1 \in D /\ k + 1 \in 0..n /\ (k + 1) - 1 = k /\ (k + 1 = 1 <=> k = 0) /\ (k # 0 => k + 1 \in 2..n)
    BY <1>1, <1>10 DEF D
  <2>2. CASE k = 0
    <3>1. g[k + 1] = first /\ k + 1 = 1
      BY <1>9, <2>1, <2>2
    <3> QED
      BY <1>1, <2>1, <3>1
  <2>3. CASE k # 0
    <3> DEFINE next1 == k + 1
    <3>1. g[k] \in T[k]
      BY <1>10, <2>3
    <3>2. next1 \in D /\ next1 # 1 /\ next1 - 1 = k /\ next1 \in 2..n /\ next1 \in 0..n
      BY <2>1, <2>3
    <3> HIDE DEF next1
    <3>3. g[next1] = F[<<g[k], next1>>]
      BY <1>9, <3>1, <3>2
    <3>4. F[<<g[k], next1>>] \in T[next1]
      BY <1>1, <3>1, <3>2
    <3> QED
      BY <3>2, <3>3, <3>4 DEF next1
  <2> QED
    BY <2>2, <2>3
<1>11. \A k \in D : g[k] \in T[k]
  <2>1. 0..n \subseteq S
    <3>1. 0 \in S
      BY <1>1
    <3> HIDE DEF S
    <3> QED
      BY <1>1, <1>10, <3>1, InductionUpto
  <2> TAKE k \in D
  <2>2. k \in 0..n /\ k # 0
    BY <1>1 DEF D
  <2> QED
    BY <2>1, <2>2
<1>12. \A k \in 2..n : g[k] = F[<<g[k - 1], k>>]
  BY <1>1, <1>9, <1>11
<1>13. IsChain(g, n, T, first, F)
  <2>1. g[1] = first
    BY <1>1, <1>9
  <2>2. DOMAIN g = 1..n /\ g = [k \in 1..n |-> g[k]]
    BY DEF D
  <2> QED
    BY <1>11, <1>12, <2>1, <2>2 DEF IsChain, D
<1> QED
  BY <1>13
\* Whatever satisfies the equations of a chain has its types.
LEMMA ChainTyped ==
  ASSUME NEW n, NEW T, NEW first, NEW F, ChainOf(n, T, first, F),
         NEW tmp, tmp[1] = first,
         \A k \in 2..n : tmp[k - 1] \in T[k - 1] => tmp[k] = F[<<tmp[k - 1], k>>]
  PROVE  tmp[n] \in T[n]
<1> DEFINE S == {k \in 0..n : k # 0 => tmp[k] \in T[k]}
<1>1. /\ n \in Nat /\ n \in 0..n /\ n # 0 /\ first \in T[1]
      /\ \A k \in 2..n : \A x \in T[k - 1] : F[<<x, k>>] \in T[k]
  BY DEF ChainOf
<1>2. ASSUME NEW k \in 0..n, k < n, k # 0 => tmp[k] \in T[k]
      PROVE  tmp[k + 1] \in T[k + 1]
  <2> DEFINE i == k + 1
  <2>1. (k = 0 <=> i = 1) /\ (k # 0 => i \in 2..n) /\ i - 1 = k
    BY <1>1, <1>2
  <2> HIDE DEF i
  <2>2. tmp[i] \in T[i]
    BY <1>1, <1>2, <2>1
  <2> QED
    BY <2>2 DEF i
<1>3. 0..n \subseteq S
  <2>1. 0 \in S
    BY <1>1
  <2>2. \A k \in 0..n : k < n /\ k \in S => k + 1 \in S
    <3> TAKE k \in 0..n
    <3>1. k < n => k + 1 \in 0..n
      BY <1>1
    <3> QED
      BY <1>2, <3>1
  <2> HIDE DEF S
  <2> QED
    BY <1>1, <2>1, <2>2, InductionUpto
<1> QED
  BY <1>1, <1>3
------------------------------------------------------------------------------
\* A sum over the elements of a finite set, one element after the other.
ElementOf(s) == CHOOSE x \in s : TRUE

SumsWith(g, f, S) ==
  \A s \in SUBSET S : g[s] = IF s = {} THEN 0 ELSE f[ElementOf(s)] + g[s \ {ElementOf(s)}]

\* Without one of its elements a finite set is smaller.
LEMMA WithoutElement ==
  ASSUME NEW S, IsFiniteSet(S), NEW s \in SUBSET S, s # {}
  PROVE  /\ ElementOf(s) \in s /\ s \ {ElementOf(s)} \in SUBSET S
         /\ Cardinality(s) \in Nat /\ Cardinality(s \ {ElementOf(s)}) \in Nat
         /\ Cardinality(s) = Cardinality(s \ {ElementOf(s)}) + 1
<1>1. ElementOf(s) \in s
  BY DEF ElementOf
<1>2. IsFiniteSet(s) /\ IsFiniteSet(s \ {ElementOf(s)}) /\ s \ {ElementOf(s)} \in SUBSET S
  BY FS_Subset
<1>3. Cardinality(s) \in Nat /\ Cardinality(s \ {ElementOf(s)}) \in Nat
  BY <1>2, FS_CardinalityType
<1>4. Cardinality(s \ {ElementOf(s)}) = Cardinality(s) - 1
  BY <1>1, <1>2, FS_RemoveElement
<1> QED
  BY <1>1, <1>2, <1>3, <1>4

\* There is such a sum.
LEMMA SumExists ==
  ASSUME NEW S, IsFiniteSet(S), NEW f \in [S -> Nat]
  PROVE  \E g \in [SUBSET S -> Nat] : SumsWith(g, f, S)
<1> DEFINE D == SUBSET S
           n == Cardinality(S)
           Step == [p \in [D -> Nat] \X D |->
                      IF p[2] = {} THEN 0 ELSE f[ElementOf(p[2])] + p[1][p[2] \ {ElementOf(p[2])}]]
           rank == [s \in D |-> Cardinality(s)]
<1>1. ASSUME NEW s \in D, s # {}
      PROVE  /\ ElementOf(s) \in S /\ s \ {ElementOf(s)} \in D
             /\ rank[s \ {ElementOf(s)}] < rank[s]
  <2>1. /\ ElementOf(s) \in s /\ s \ {ElementOf(s)} \in D /\ Cardinality(s \ {ElementOf(s)}) \in Nat
        /\ Cardinality(s) = Cardinality(s \ {ElementOf(s)}) + 1
    BY <1>1, WithoutElement
  <2> QED
    BY <2>1
<1>2. Step \in [[D -> Nat] \X D -> Nat]
  <2>1. ASSUME NEW g \in [D -> Nat], NEW s \in D, s # {}
        PROVE  f[ElementOf(s)] + g[s \ {ElementOf(s)}] \in Nat
    <3>1. ElementOf(s) \in S /\ s \ {ElementOf(s)} \in D
      BY <1>1, <2>1
    <3> DEFINE a == f[ElementOf(s)]
               b == g[s \ {ElementOf(s)}]
    <3>2. a \in Nat
      BY <3>1
    <3>3. b \in Nat
      <4> HIDE DEF D
      <4> QED
        BY <3>1
    <3> HIDE DEF a, b
    <3>4. a + b \in Nat
      BY <3>2, <3>3
    <3> QED
      BY <3>4 DEF a, b
  <2> HIDE DEF D
  <2> QED
    BY <2>1
<1>3. rank \in [D -> Nat] /\ n + 1 \in Nat /\ \A s \in D : rank[s] < n + 1
  <2>1. ASSUME NEW s \in D
        PROVE  Cardinality(s) \in Nat /\ Cardinality(s) <= n
    BY FS_Subset, FS_CardinalityType
  <2>2. n \in Nat
    BY FS_CardinalityType
  <2> HIDE DEF D, n
  <2> QED
    BY <2>1, <2>2
<1>4. ASSUME NEW g \in [D -> Nat], NEW h \in [D -> Nat], NEW s \in D,
             \A e \in D : rank[e] < rank[s] => g[e] = h[e]
      PROVE  Step[<<g, s>>] = Step[<<h, s>>]
  <2>1. CASE s = {}
    BY <2>1
  <2>2. CASE s # {}
    <3>1. g[s \ {ElementOf(s)}] = h[s \ {ElementOf(s)}]
      BY <1>1, <1>4, <2>2
    <3> QED
      BY <3>1
  <2> QED
    BY <2>1, <2>2
<1>5. IsRecursion(Step, rank, n + 1, D, Nat)
  <2> HIDE DEF D, Step, rank, n
  <2> QED
    BY <1>2, <1>3, <1>4 DEF IsRecursion
<1>6. PICK g \in [D -> Nat] : \A s \in D : g[s] = Step[<<g, s>>]
  <2> HIDE DEF D, Step, rank, n
  <2> QED
    BY <1>5, BoundedRecursion
<1>7. ASSUME NEW s \in D
      PROVE  g[s] = IF s = {} THEN 0 ELSE f[ElementOf(s)] + g[s \ {ElementOf(s)}]
  BY <1>6
<1> QED
  BY <1>7, Zenon DEF SumsWith

\* A sum is zero when and only when each of its elements is.
LEMMA SumZero ==
  ASSUME NEW S, IsFiniteSet(S), NEW f \in [S -> Nat], NEW g, SumsWith(g, f, S)
  PROVE  g[S] \in Nat /\ (g[S] = 0 <=> \A x \in S : f[x] = 0)
<1> DEFINE OK(s) == g[s] \in Nat /\ (g[s] = 0 <=> \A x \in s : f[x] = 0)
           U == {n \in Nat : \A s \in SUBSET S : Cardinality(s) = n => OK(s)}
<1>1. 0 \in U
  <2>1. \A s \in SUBSET S : Cardinality(s) = 0 => s = {}
    BY FS_Subset, FS_EmptySet
  <2>2. g[{}] = 0
    BY DEF SumsWith
  <2>3. OK({})
    BY <2>2
  <2> HIDE DEF OK
  <2> QED
    BY <2>1, <2>3
<1>2. ASSUME NEW n \in Nat, n \in U
      PROVE  n + 1 \in U
  <2> SUFFICES ASSUME NEW s \in SUBSET S, Cardinality(s) = n + 1
               PROVE  OK(s)
    BY DEF U
  <2> DEFINE rest == s \ {ElementOf(s)}
  <2>1. s # {}
    BY FS_EmptySet
  <2>2. ElementOf(s) \in s /\ rest \in SUBSET S /\ Cardinality(rest) \in Nat /\ n + 1 = Cardinality(rest) + 1
    BY <2>1, WithoutElement
  <2>3. OK(rest)
    BY <1>2, <2>2
  <2>4. g[s] = f[ElementOf(s)] + g[rest]
    BY <2>1 DEF SumsWith
  <2>5. f[ElementOf(s)] \in Nat /\ g[rest] \in Nat
    BY <2>2, <2>3
  <2>6. g[s] \in Nat /\ (g[s] = 0 <=> f[ElementOf(s)] = 0 /\ g[rest] = 0)
    BY <2>4, <2>5
  <2>7. (\A x \in s : f[x] = 0) <=> (f[ElementOf(s)] = 0 /\ \A x \in rest : f[x] = 0)
    BY <2>2
  <2> QED
    BY <2>3, <2>6, <2>7
<1>3. Nat \subseteq U
  <2> HIDE DEF U
  <2> QED
    BY <1>1, <1>2, InductionOnNat
<1>4. Cardinality(S) \in Nat
  BY FS_CardinalityType
<1>5. OK(S)
  BY <1>3, <1>4
<1> QED
  BY <1>5

------------------------------------------------------------------------------
\* The table a stored value and a new value are merged with is the join of
\* the information order: merging never loses what was known, and gives no
\* more than is known from the two values (KBRelation::addTuple).
THEOREM MergeIsJoin ==
  ASSUME NEW a \in TruthValue, NEW b \in TruthValue
  PROVE  /\ DisjunctionWrtOrdering(a, b) \in TruthValue
         /\ InfoLeq(a, DisjunctionWrtOrdering(a, b))
         /\ InfoLeq(b, DisjunctionWrtOrdering(a, b))
         /\ \A c \in TruthValue :
              InfoLeq(a, c) /\ InfoLeq(b, c) => InfoLeq(DisjunctionWrtOrdering(a, b), c)
<1> USE DEF TruthValue, InfoLeq, DisjunctionWrtOrdering, DisjWrtOrd,
            False, Unknown, Incons, True
<1>1. CASE a = 0
  BY <1>1
<1>2. CASE a = 1
  BY <1>2
<1>3. CASE a = 2
  BY <1>3
<1>4. CASE a = 3
  BY <1>4
<1>5. QED
  BY <1>1, <1>2, <1>3, <1>4
------------------------------------------------------------------------------
PoolOf(T) == Seq(TuplesOver(T))

\* The operators as functions of a sequence and its domain.
LEMMA PoolDomain ==
  ASSUME NEW T, NEW pool \in PoolOf(T)
  PROVE  /\ Len(pool) \in Nat
         /\ DOMAIN pool = 1..Len(pool)
         /\ \A i \in DOMAIN pool : /\ pool[i] \in TuplesOver(T)
                                   /\ pool[i].terms \in T
                                   /\ pool[i].value \in TruthValue
<1>1. Len(pool) \in Nat /\ DOMAIN pool = 1..Len(pool)
  BY DEF PoolOf
<1>2. ASSUME NEW i \in DOMAIN pool
      PROVE  pool[i] \in TuplesOver(T)
  BY <1>1 DEF PoolOf
<1>3. QED
  BY <1>1, <1>2 DEF TuplesOver

\* find() on the hash index returns the tuple with these terms.
LEMMA IndexOfFinds ==
  ASSUME NEW pool, NEW terms, Has(pool, terms)
  PROVE  IndexOf(pool, terms) \in DOMAIN pool /\ pool[IndexOf(pool, terms)].terms = terms
BY DEF Has, IndexOf

\* addTuple and addEdbTuple on a pool: nothing moves, nothing loses
\* information, the new tuple is known afterwards, and only a tuple with new
\* terms makes the pool longer.
LEMMA PutTupleFacts ==
  ASSUME NEW T, NEW pool \in PoolOf(T), NEW tuple \in TuplesOver(T)
  PROVE  LET put == PutTuple(pool, tuple)
         IN  /\ put \in PoolOf(T)
             /\ DOMAIN pool \subseteq DOMAIN put
             /\ \A i \in DOMAIN pool : /\ put[i].terms = pool[i].terms
                                       /\ InfoLeq(pool[i].value, put[i].value)
             /\ \A i \in DOMAIN put \ DOMAIN pool :
                  ~Has(pool, tuple.terms) /\ i = Len(pool) + 1 /\ put[i] = tuple
             /\ \E i \in DOMAIN put : /\ put[i].terms = tuple.terms
                                      /\ InfoLeq(tuple.value, put[i].value)
<1> DEFINE put == PutTuple(pool, tuple)
           k == IndexOf(pool, tuple.terms)
           merged == Merged(pool, tuple)
<1>1. tuple.terms \in T /\ tuple.value \in TruthValue
  BY DEF TuplesOver
<1>2. CASE Has(pool, tuple.terms)
  <2>1. k \in DOMAIN pool /\ pool[k].terms = tuple.terms
    BY <1>2, IndexOfFinds
  <2>2. pool[k].value \in TruthValue
    BY <2>1, PoolDomain
  <2>3. /\ merged \in TruthValue
        /\ InfoLeq(pool[k].value, merged)
        /\ InfoLeq(tuple.value, merged)
    BY <2>2, <1>1, MergeIsJoin DEF Merged, ValueIn
  <2>4. put = [pool EXCEPT ![k].value = merged]
    BY <1>2 DEF PutTuple
  <2> HIDE DEF merged, k
  <2>5. [pool[k] EXCEPT !.value = merged] \in TuplesOver(T)
    BY <2>1, <2>3, PoolDomain DEF TuplesOver
  <2>6. put \in PoolOf(T) /\ Len(put) = Len(pool)
    BY <2>1, <2>4, <2>5, PoolDomain DEF PoolOf
  <2>7. DOMAIN put = DOMAIN pool
    BY <2>4
  <2>8. put[k].terms = tuple.terms /\ put[k].value = merged
    BY <2>1, <2>4, PoolDomain DEF TuplesOver
  <2>9. \A i \in DOMAIN pool : i # k => put[i] = pool[i]
    BY <2>4
  <2>10. QED
    BY <2>1, <2>3, <2>6, <2>7, <2>8, <2>9 DEF InfoLeq
<1>3. CASE ~Has(pool, tuple.terms)
  <2>1. put = Append(pool, tuple)
    BY <1>3 DEF PutTuple
  <2>2. /\ put \in PoolOf(T)
        /\ DOMAIN put = 1..Len(pool) + 1
        /\ \A i \in DOMAIN pool : put[i] = pool[i]
        /\ put[Len(pool) + 1] = tuple
    BY <2>1, PoolDomain DEF PoolOf
  <2>3. QED
    BY <1>3, <2>2, PoolDomain DEF InfoLeq
<1>4. QED
  BY <1>2, <1>3

\* The hash index stays unique.
LEMMA PutTupleUnique ==
  ASSUME NEW T, NEW pool \in PoolOf(T), NEW tuple \in TuplesOver(T), UniqueTerms(pool)
  PROVE  UniqueTerms(PutTuple(pool, tuple))
<1> DEFINE put == PutTuple(pool, tuple)
<1> HIDE DEF put
<1>1. /\ DOMAIN pool \subseteq DOMAIN put
      /\ \A i \in DOMAIN pool : put[i].terms = pool[i].terms
      /\ \A i \in DOMAIN put \ DOMAIN pool :
           ~Has(pool, tuple.terms) /\ i = Len(pool) + 1 /\ put[i] = tuple
  BY PutTupleFacts DEF put
<1>2. SUFFICES ASSUME NEW i \in DOMAIN put, NEW j \in DOMAIN put,
                      put[i].terms = put[j].terms
               PROVE  i = j
  BY DEF UniqueTerms, put
<1>3. CASE i \in DOMAIN pool /\ j \in DOMAIN pool
  BY <1>1, <1>2, <1>3 DEF UniqueTerms
<1>4. CASE i \notin DOMAIN pool /\ j \notin DOMAIN pool
  BY <1>1, <1>4
<1>5. CASE (i \in DOMAIN pool) # (j \in DOMAIN pool)
  BY <1>1, <1>2, <1>5 DEF Has
<1>6. QED
  BY <1>3, <1>4, <1>5

\* A fact that is Incons stays Incons.
LEMMA PutTupleKeepsIncons ==
  ASSUME NEW T, NEW pool \in PoolOf(T), NEW tuple \in TuplesOver(T),
         NEW terms, HasIncons(pool, terms)
  PROVE  HasIncons(PutTuple(pool, tuple), terms)
<1>1. PICK i \in DOMAIN pool : pool[i] = [terms |-> terms, value |-> Incons]
  BY DEF HasIncons
<1> DEFINE put == PutTuple(pool, tuple)
<1> HIDE DEF put
<1>2. /\ i \in DOMAIN put
      /\ put \in PoolOf(T)
      /\ put[i].terms = terms
      /\ InfoLeq(Incons, put[i].value)
  BY <1>1, PutTupleFacts DEF put
<1>3. put[i].value = Incons /\ put[i] \in TuplesOver(T)
  BY <1>2, PoolDomain DEF InfoLeq, Incons, Unknown
<1>4. put[i] = [terms |-> terms, value |-> Incons]
  BY <1>2, <1>3 DEF TuplesOver
<1>5. QED
  BY <1>2, <1>4 DEF HasIncons, put

LEMMA InconsFinite ==
  ASSUME NEW T, NEW pool \in PoolOf(T)
  PROVE  IsFiniteSet(InconsIn(pool)) /\ Cardinality(InconsIn(pool)) \in Nat
<1>1. InconsIn(pool) \in SUBSET (1..Len(pool)) /\ Len(pool) \in Nat
  BY PoolDomain DEF InconsIn
<1>2. IsFiniteSet(1..Len(pool))
  BY <1>1, FS_Interval
<1>3. QED
  BY <1>1, <1>2, FS_Subset, FS_CardinalityType

\* A counter that was ahead of the Incons facts by some base stays ahead by
\* it, as long as no tuple arrives that is Incons by itself.
LEMMA PutCountExact ==
  ASSUME NEW T, NEW pool \in PoolOf(T), NEW tuple \in TuplesOver(T),
         tuple.value # Incons, NEW base \in Nat
  PROVE  PutCount(base + Cardinality(InconsIn(pool)), pool, tuple) =
         base + Cardinality(InconsIn(PutTuple(pool, tuple)))
<1> DEFINE put == PutTuple(pool, tuple)
           k == IndexOf(pool, tuple.terms)
           merged == Merged(pool, tuple)
<1>1. tuple.value \in TruthValue
  BY DEF TuplesOver
<1>2. CASE Has(pool, tuple.terms)
  <2>1. k \in DOMAIN pool /\ pool[k].value \in TruthValue
    BY <1>2, IndexOfFinds, PoolDomain
  <2>2. pool[k].value = Incons => merged = Incons
    BY <1>1, <2>1, MergeIsJoin DEF Merged, ValueIn, InfoLeq, Incons, Unknown
  <2>3. put = [pool EXCEPT ![k].value = merged]
    BY <1>2 DEF PutTuple
  <2> HIDE DEF merged, k, put
  <2>4. DOMAIN put = DOMAIN pool
    BY <2>3
  <2>5. put[k].value = merged
    BY <2>1, <2>3, PoolDomain DEF TuplesOver
  <2>6. \A i \in DOMAIN pool : i # k => put[i] = pool[i]
    BY <2>3
  <2>7. CASE merged = Incons
    <3>1. InconsIn(put) = InconsIn(pool) \cup {k}
      BY <2>1, <2>2, <2>4, <2>5, <2>6, <2>7 DEF InconsIn
    <3>2. Cardinality(InconsIn(put)) =
            IF k \in InconsIn(pool) THEN Cardinality(InconsIn(pool))
                                    ELSE Cardinality(InconsIn(pool)) + 1
      BY <3>1, InconsFinite, FS_AddElement
    <3>3. k \in InconsIn(pool) <=> ValueIn(pool, tuple.terms) = Incons
      BY <2>1 DEF InconsIn, ValueIn, k
    <3>4. BecomesIncons(pool, tuple) <=> k \notin InconsIn(pool)
      BY <1>2, <2>7, <3>3 DEF BecomesIncons, merged
    <3>5. QED
      BY <3>2, <3>4, InconsFinite DEF PutCount, put
  <2>8. CASE merged # Incons
    <3>1. InconsIn(put) = InconsIn(pool)
      BY <2>1, <2>2, <2>4, <2>5, <2>6, <2>8 DEF InconsIn
    <3>2. ~BecomesIncons(pool, tuple)
      BY <2>8 DEF BecomesIncons, merged
    <3>3. QED
      BY <3>1, <3>2 DEF PutCount, put
  <2>9. QED
    BY <2>7, <2>8
<1>3. CASE ~Has(pool, tuple.terms)
  <2>1. put = Append(pool, tuple)
    BY <1>3 DEF PutTuple
  <2>2. InconsIn(put) = InconsIn(pool)
    BY <2>1, PoolDomain DEF InconsIn, PoolOf
  <2>3. ~BecomesIncons(pool, tuple)
    BY <1>3 DEF BecomesIncons
  <2>4. QED
    BY <2>2, <2>3 DEF PutCount
<1>4. QED
  BY <1>2, <1>3

\* clearIncons blanks exactly the facts that were Incons before the round,
\* and takes nothing off the counter.
LEMMA ClearInconsFacts ==
  ASSUME NEW T, NEW r \in RelationOf(T), NEW removed
  PROVE  LET cleared == ClearIncons(r, removed)
         IN  /\ cleared = [r EXCEPT !.facts = cleared.facts]
             /\ cleared.facts \in PoolOf(T)
             /\ DOMAIN cleared.facts = DOMAIN r.facts
             /\ \A i \in DOMAIN r.facts :
                  /\ cleared.facts[i].terms = r.facts[i].terms
                  /\ cleared.facts[i].value = IF HasIncons(removed, r.facts[i].terms)
                                              THEN Unknown ELSE r.facts[i].value
<1> DEFINE cleared == {i \in DOMAIN r.facts : /\ HasIncons(removed, r.facts[i].terms)
                                                /\ r.facts[i].value # Unknown}
           facts == [i \in DOMAIN r.facts |->
                       IF i \in cleared THEN [r.facts[i] EXCEPT !.value = Unknown]
                                        ELSE r.facts[i]]
           stillIncons == {i \in cleared : facts[i].value = Incons}
<1>1. r.facts \in PoolOf(T)
  BY DEF RelationOf, PoolOf
<1>2. \A i \in DOMAIN r.facts :
        /\ facts[i] \in TuplesOver(T)
        /\ facts[i].terms = r.facts[i].terms
        /\ facts[i].value = IF i \in cleared THEN Unknown ELSE r.facts[i].value
  BY <1>1, PoolDomain DEF TuplesOver, TruthValue, Unknown
<1>3. facts \in PoolOf(T)
  <2>1. Len(r.facts) \in Nat /\ DOMAIN r.facts = 1..Len(r.facts)
    BY <1>1, PoolDomain
  <2>2. facts \in [1..Len(r.facts) -> TuplesOver(T)]
    BY <1>2, <2>1
  <2> HIDE DEF facts
  <2>3. QED
    BY <2>1, <2>2, SeqDef DEF PoolOf
<1>4. stillIncons = {}
  BY <1>2 DEF Unknown, Incons
<1>5. r.inconsFactsNumber - Cardinality(stillIncons) = r.inconsFactsNumber
  <2>1. Cardinality(stillIncons) = 0
    BY <1>4, FS_EmptySet, Zenon
  <2>2. r.inconsFactsNumber \in Nat
    BY DEF RelationOf
  <2> HIDE DEF stillIncons
  <2>3. QED
    BY <2>1, <2>2
<1>6. ClearIncons(r, removed) =
        [r EXCEPT !.facts = facts,
                    !.inconsFactsNumber = r.inconsFactsNumber - Cardinality(stillIncons)]
  BY DEF ClearIncons
<1> HIDE DEF facts, cleared, stillIncons
<1>7. ClearIncons(r, removed) = [r EXCEPT !.facts = facts]
  BY <1>5, <1>6 DEF RelationOf
<1>8. ClearIncons(r, removed).facts = facts
  BY <1>7 DEF RelationOf
<1>9. \A i \in DOMAIN r.facts :
        facts[i].value = IF HasIncons(removed, r.facts[i].terms)
                         THEN Unknown ELSE r.facts[i].value
  BY <1>2 DEF cleared
<1>10. DOMAIN facts = DOMAIN r.facts
  BY DEF facts
<1>11. QED
  BY <1>2, <1>3, <1>7, <1>8, <1>9, <1>10
------------------------------------------------------------------------------
Smaller(S, x) == {y \in S : y < x}

\* How many elements of a set are below one of them.
LEMMA BelowCounts ==
  ASSUME NEW S \in SUBSET Nat, IsFiniteSet(S)
  PROVE  /\ Cardinality(S) \in Nat
         /\ \A x \in Nat : Cardinality(Smaller(S, x)) \in Nat
         /\ \A x \in S : Cardinality(Smaller(S, x)) + 1 <= Cardinality(S)
         /\ \A x, z \in S : x < z => Cardinality(Smaller(S, x)) + 1 <= Cardinality(Smaller(S, z))
<1>1. IsFiniteSet(S) /\ Cardinality(S) \in Nat
  BY FS_CardinalityType
<1>2. \A T \in SUBSET S : IsFiniteSet(T) /\ Cardinality(T) \in Nat /\ Cardinality(T) <= Cardinality(S)
  BY <1>1, FS_Subset, FS_CardinalityType
<1>3. \A x \in Nat : Smaller(S, x) \in SUBSET S
  BY DEF Smaller
<1>4. ASSUME NEW x \in S, NEW T \in SUBSET S, Smaller(S, x) \cup {x} \subseteq T
      PROVE  Cardinality(Smaller(S, x)) + 1 <= Cardinality(T)
  <2>1. x \notin Smaller(S, x) /\ x \in Nat
    BY DEF Smaller
  <2>2. IsFiniteSet(Smaller(S, x)) /\ IsFiniteSet(T)
    BY <1>2, <1>3, <2>1
  <2>3. Cardinality(Smaller(S, x) \cup {x}) = Cardinality(Smaller(S, x)) + 1
    BY <2>1, <2>2, FS_AddElement
  <2>4. Cardinality(Smaller(S, x) \cup {x}) <= Cardinality(T)
    BY <1>4, <2>2, FS_Subset
  <2> QED
    BY <2>3, <2>4
<1>5. ASSUME NEW x \in S
      PROVE  Cardinality(Smaller(S, x)) + 1 <= Cardinality(S)
  <2>1. Smaller(S, x) \cup {x} \subseteq S
    BY DEF Smaller
  <2> QED
    BY <1>4, <2>1
<1>6. ASSUME NEW x \in S, NEW z \in S, x < z
      PROVE  Cardinality(Smaller(S, x)) + 1 <= Cardinality(Smaller(S, z))
  <2>1. Smaller(S, x) \cup {x} \subseteq Smaller(S, z) /\ z \in Nat
    <3>1. \A y \in S : y < x => y < z
      BY <1>6
    <3> QED
      BY <1>6, <3>1 DEF Smaller
  <2> QED
    BY <1>3, <1>4, <2>1
<1> QED
  BY <1>1, <1>2, <1>3, <1>5, <1>6

\* Ascending(S) has every element of S.
LEMMA AscendingFacts ==
  ASSUME NEW S \in SUBSET Nat, IsFiniteSet(S)
  PROVE  /\ Cardinality(S) \in Nat
         /\ DOMAIN Ascending(S) = 1..Cardinality(S)
         /\ \A k \in 1..Cardinality(S) : Ascending(S)[k] \in S
         /\ \A x \in S : \E k \in 1..Cardinality(S) : Ascending(S)[k] = x
<1> DEFINE c == Cardinality(S)
           rank(x) == Cardinality(Smaller(S, x))
<1>1. /\ IsFiniteSet(S) /\ c \in Nat
      /\ \A x \in S : rank(x) \in Nat /\ rank(x) + 1 <= c
      /\ \A x, z \in S : x < z => rank(x) + 1 <= rank(z)
  <2>1. \A x \in S : x \in Nat
    OBVIOUS
  <2> QED
    BY <2>1, BelowCounts
<1>2. \A x, z \in S : rank(x) = rank(z) => x = z
  <2> SUFFICES ASSUME NEW x \in S, NEW z \in S, rank(x) = rank(z), x # z
               PROVE  FALSE
    OBVIOUS
  <2>1. x < z \/ z < x
    OBVIOUS
  <2> HIDE DEF rank
  <2> QED
    BY <1>1, <2>1
<1>3. \A k \in 0..c : k < c => \E x \in S : rank(x) = k
  <2> DEFINE P == {k \in 0..c : k < c => \E x \in S : rank(x) = k}
  <2>1. 0 \in P
    <3> SUFFICES ASSUME 0 < c PROVE \E x \in S : rank(x) = 0
      BY <1>1
    <3>1. S # {}
      BY FS_EmptySet
    <3>2. Min(S) \in S /\ \A y \in S : Min(S) <= y
      BY <3>1, MinOf
    <3>3. Smaller(S, Min(S)) = {}
      <4>1. \A y \in S : Min(S) \in Nat /\ y \in Nat /\ Min(S) <= y
        BY <3>2
      <4>2. \A y \in S : ~(y < Min(S))
        BY <4>1
      <4> QED
        BY <4>2 DEF Smaller
    <3> QED
      BY <3>2, <3>3, FS_EmptySet
  <2>2. ASSUME NEW k \in 0..c, k < c, k \in P
        PROVE  k + 1 \in P
    <3>0. k + 1 \in 0..c
      BY <1>1, <2>2
    <3> SUFFICES ASSUME k + 1 < c PROVE \E x \in S : rank(x) = k + 1
      BY <3>0
    <3>1. PICK x \in S : rank(x) = k
      BY <2>2
    <3> DEFINE T == {y \in S : x < y}
               U == Smaller(S, x) \cup {x}
    <3>2. Cardinality(U) = k + 1
      <4>1. x \notin Smaller(S, x) /\ IsFiniteSet(Smaller(S, x))
        BY <1>1, FS_Subset DEF Smaller
      <4> QED
        BY <3>1, <4>1, FS_AddElement
    <3>3. T # {}
      <4> SUFFICES ASSUME T = {} PROVE FALSE
        OBVIOUS
      <4>1. \A y \in S : y \in Nat /\ x \in Nat /\ ~(x < y)
        OBVIOUS
      <4>2. \A y \in S : y < x \/ y = x
        BY <4>1
      <4>3. U = S
        BY <4>2 DEF Smaller
      <4> HIDE DEF U
      <4> QED
        BY <1>1, <3>0, <3>2, <4>3
    <3>4. Min(T) \in T /\ \A y \in T : Min(T) <= y
      <4> HIDE DEF T
      <4>1. T \in SUBSET Nat
        <5>1. T \subseteq S /\ S \subseteq Nat
          BY DEF T
        <5> QED
          BY <5>1
      <4> QED
        BY <3>3, <4>1, MinOf
    <3>5. Smaller(S, Min(T)) = U
      <4>1. ASSUME NEW y \in S
            PROVE  y < Min(T) <=> y \in U
        <5>1. Min(T) \in S /\ x < Min(T) /\ (x < y => Min(T) <= y)
          BY <3>4
        <5>2. Min(T) \in Nat /\ x \in Nat /\ y \in Nat
          BY <5>1
        <5> HIDE DEF T
        <5>3. y < Min(T) <=> y < x \/ y = x
          BY <5>1, <5>2
        <5> QED
          BY <5>3 DEF Smaller
      <4> QED
        BY <4>1 DEF Smaller
    <3> QED
      BY <3>2, <3>4, <3>5
  <2>3. 0..c \subseteq P
    <3> HIDE DEF P, c, rank
    <3> QED
      BY <1>1, <2>1, <2>2, InductionUpto
  <2> QED
    BY <2>3
<1>4. DOMAIN Ascending(S) = 1..c
  BY DEF Ascending
<1>5. ASSUME NEW k \in 1..c
      PROVE  Ascending(S)[k] \in S /\ rank(Ascending(S)[k]) = k - 1
  <2>1. k - 1 \in 0..c /\ k - 1 < c
    BY <1>1
  <2>2. Ascending(S)[k] = CHOOSE x \in S : rank(x) = k - 1
    BY DEF Ascending, Smaller
  <2>3. \E x \in S : rank(x) = k - 1
    <3> HIDE DEF rank
    <3> QED
      BY <1>3, <2>1
  <2> HIDE DEF rank
  <2> QED
    BY <2>2, <2>3
<1>6. ASSUME NEW x \in S
      PROVE  \E k \in 1..c : Ascending(S)[k] = x
  <2>1. PICK k \in 1..c : k - 1 = rank(x)
    <3>1. rank(x) + 1 \in 1..c /\ (rank(x) + 1) - 1 = rank(x)
      <4> HIDE DEF rank
      <4> QED
        BY <1>1
    <3> HIDE DEF rank
    <3> QED
      BY <3>1
  <2>2. Ascending(S)[k] \in S /\ rank(Ascending(S)[k]) = k - 1
    BY <1>5
  <2> HIDE DEF rank
  <2> QED
    BY <1>2, <2>1, <2>2
<1> QED
  BY <1>1, <1>4, <1>5, <1>6

\* The elements at some places are elements of s, one for every place.
LEMMA ElementsAtFacts ==
  ASSUME NEW E, NEW s \in Seq(E), NEW P \in SUBSET (DOMAIN s)
  PROVE  /\ ElementsAt(s, P) \in Seq(E)
         /\ Len(ElementsAt(s, P)) = Cardinality(P)
         /\ P = DOMAIN s => Len(ElementsAt(s, P)) = Len(s)
         /\ \A k \in DOMAIN ElementsAt(s, P) : \E i \in P : ElementsAt(s, P)[k] = s[i]
         /\ \A i \in P : \E k \in DOMAIN ElementsAt(s, P) : ElementsAt(s, P)[k] = s[i]
<1> DEFINE c == Cardinality(P)
           t == ElementsAt(s, P)
           order == Ascending(P)
<1>1. Len(s) \in Nat /\ DOMAIN s = 1..Len(s)
  OBVIOUS
<1>2. P \in SUBSET Nat /\ IsFiniteSet(P)
  <2>1. IsFiniteSet(1..Len(s))
    BY <1>1, FS_Interval
  <2>2. P \in SUBSET (1..Len(s)) /\ 1..Len(s) \subseteq Nat
    BY <1>1
  <2> QED
    BY <2>1, <2>2, FS_Subset
<1>3. /\ c \in Nat /\ DOMAIN order = 1..c
      /\ \A k \in 1..c : order[k] \in P
      /\ \A x \in P : \E k \in 1..c : order[k] = x
  BY <1>1, <1>2, AscendingFacts
<1>4. t = [k \in 1..c |-> s[order[k]]]
  BY <1>3 DEF ElementsAt
<1> HIDE DEF t, order, c
<1>5. \A k \in 1..c : t[k] = s[order[k]] /\ s[order[k]] \in E
  BY <1>1, <1>3, <1>4
<1>6. t \in [1..c -> E]
  BY <1>4, <1>5
<1>7. t \in Seq(E) /\ Len(t) = c /\ DOMAIN t = 1..c
  BY <1>3, <1>6, SeqDef
<1>8. P = DOMAIN s => c = Len(s)
  BY <1>1, FS_Interval DEF c
<1> QED
  BY <1>3, <1>5, <1>7, <1>8 DEF t, c

AnyTerm == [isVar : BOOLEAN, id : Nat]

\* Terms whose constants are in D.
TermsOver(D) == {t \in AnyTerm : t.isVar \/ t.id \in D}

\* A variable of some terms has a first place there.
LEMMA FrontIndexFacts ==
  ASSUME NEW terms \in Seq(AnyTerm), NEW v \in VarIds(terms)
  PROVE  /\ FrontIndex(terms, v) \in DOMAIN terms
         /\ terms[FrontIndex(terms, v)] = Var(v)
         /\ \A i \in DOMAIN terms : terms[i] = Var(v) => FrontIndex(terms, v) <= i
<1> DEFINE places == {i \in DOMAIN terms : terms[i] = Var(v)}
<1>1. PICK j \in DOMAIN terms : terms[j].isVar /\ terms[j].id = v
  BY DEF VarIds
<1>2. terms[j] = Var(v)
  <2>1. terms[j] \in AnyTerm
    BY <1>1
  <2>2. PICK b \in BOOLEAN, n \in Nat : terms[j] = [isVar |-> b, id |-> n]
    BY <2>1 DEF AnyTerm
  <2>3. b = TRUE /\ n = v
    BY <1>1, <2>2
  <2> QED
    BY <2>2, <2>3 DEF Var
<1>3. places # {} /\ places \in SUBSET Nat
  BY <1>2
<1>4. Min(places) \in places /\ \A i \in places : Min(places) <= i
  <2> HIDE DEF places
  <2> QED
    BY <1>3, MinOf
<1>5. FrontIndex(terms, v) = Min(places)
  BY DEF FrontIndex
<1> QED
  BY <1>4, <1>5

\* The variables of some terms are numbers.
LEMMA VarIdsFacts ==
  ASSUME NEW n \in Nat, NEW terms \in [1..n -> AnyTerm]
  PROVE  VarIds(terms) \in SUBSET Nat /\ IsFiniteSet(VarIds(terms))
<1> DEFINE places == {j \in DOMAIN terms : terms[j].isVar}
           id == [j \in places |-> terms[j].id]
<1>1. VarIds(terms) \in SUBSET Nat
  BY DEF VarIds, AnyTerm
<1>2. IsFiniteSet(places)
  <2>1. IsFiniteSet(1..n)
    BY FS_Interval
  <2>2. places \in SUBSET (1..n)
    OBVIOUS
  <2> HIDE DEF places
  <2> QED
    BY <2>1, <2>2, FS_Subset
<1>3. VarIds(terms) = {terms[j].id : j \in places}
  BY DEF VarIds
<1>4. id \in Surjection(places, VarIds(terms))
  <2>1. id \in [places -> VarIds(terms)]
    BY <1>3
  <2>2. \A t \in VarIds(terms) : \E s \in places : id[s] = t
    BY <1>3
  <2> HIDE DEF id, places
  <2> QED
    BY <2>1, <2>2 DEF Surjection
<1>5. IsFiniteSet(VarIds(terms))
  <2> HIDE DEF id, places
  <2> QED
    BY <1>2, <1>4, FS_Surjection
<1> QED
  BY <1>1, <1>5

\* What a row of the result keeps of its terms.
LEMMA KeptFacts ==
  ASSUME NEW D, NEW dest \in Seq(TermsOver(D)), NEW left, NEW right
  PROVE  /\ Kept(dest, left, right) \in Seq(TermsOver(D))
         /\ \A k \in DOMAIN Kept(dest, left, right) :
              LET t == Kept(dest, left, right)[k]
              IN  t.isVar => t.id \in VarIds(left) \cup VarIds(right)
         /\ (\A i \in DOMAIN dest : dest[i].isVar => dest[i].id \in VarIds(left) \cup VarIds(right)) =>
              Len(Kept(dest, left, right)) = Len(dest)
<1> DEFINE P == {i \in DOMAIN dest : dest[i].isVar => dest[i].id \in VarIds(left) \cup VarIds(right)}
<1>1. Kept(dest, left, right) = ElementsAt(dest, P)
  BY DEF Kept
<1>2. P \in SUBSET (DOMAIN dest)
  OBVIOUS
<1>3. \A i \in P : dest[i].isVar => dest[i].id \in VarIds(left) \cup VarIds(right)
  OBVIOUS
<1>4. (\A i \in DOMAIN dest : dest[i].isVar => dest[i].id \in VarIds(left) \cup VarIds(right)) =>
        P = DOMAIN dest
  OBVIOUS
<1> HIDE DEF P
<1>5. /\ ElementsAt(dest, P) \in Seq(TermsOver(D))
      /\ P = DOMAIN dest => Len(ElementsAt(dest, P)) = Len(dest)
      /\ \A k \in DOMAIN ElementsAt(dest, P) : \E i \in P : ElementsAt(dest, P)[k] = dest[i]
  BY <1>2, ElementsAtFacts
<1> QED
  BY <1>1, <1>3, <1>4, <1>5

\* Rows of n terms.
RowTerms(D, n) == [1..n -> D]

\* The projections make rows of the kept terms, whose values come from the
\* rows that are joined.
LEMMA ProjectTyped ==
  ASSUME NEW D, NEW dest \in Seq(TermsOver(D)), NEW left \in Seq(AnyTerm), NEW right \in Seq(AnyTerm),
         NEW l \in RowTerms(D, Len(left)), NEW r \in RowTerms(D, Len(right))
  PROVE  Project(dest, left, right, l, r) \in RowTerms(D, Len(Kept(dest, left, right)))
<1> DEFINE kept == Kept(dest, left, right)
           term(t) ==
             IF ~t.isVar THEN t.id
             ELSE IF /\ t.id \in VarIds(left)
                     /\ t.id \in VarIds(right) => l[FrontIndex(left, t.id)] # Null
                  THEN l[FrontIndex(left, t.id)]
                  ELSE r[FrontIndex(right, t.id)]
<1>1. /\ kept \in Seq(TermsOver(D)) /\ Len(kept) \in Nat /\ DOMAIN kept = 1..Len(kept)
      /\ \A k \in DOMAIN kept : kept[k].isVar => kept[k].id \in VarIds(left) \cup VarIds(right)
  BY KeptFacts
<1>2. Project(dest, left, right, l, r) = [i \in DOMAIN kept |-> term(kept[i])]
  BY DEF Project
<1>3. \A v \in VarIds(left) : l[FrontIndex(left, v)] \in D
  BY FrontIndexFacts DEF RowTerms
<1>4. \A v \in VarIds(right) : r[FrontIndex(right, v)] \in D
  BY FrontIndexFacts DEF RowTerms
<1> HIDE DEF kept
<1>5. ASSUME NEW i \in DOMAIN kept
      PROVE  term(kept[i]) \in D
  <2>1. kept[i].isVar \/ kept[i].id \in D
    BY <1>1 DEF TermsOver
  <2>2. kept[i].isVar => kept[i].id \in VarIds(left) \cup VarIds(right)
    BY <1>1
  <2> QED
    BY <1>3, <1>4, <2>1, <2>2
<1> HIDE DEF term
<1>6. [i \in DOMAIN kept |-> term(kept[i])] \in RowTerms(D, Len(kept))
  BY <1>1, <1>5 DEF RowTerms
<1> QED
  BY <1>2, <1>6 DEF kept

\* A left row that stands alone is filled up with Null.
LEMMA LeftComplementTyped ==
  ASSUME NEW D, Null \in D,
         NEW dest \in Seq(TermsOver(D)), NEW left \in Seq(AnyTerm), NEW right \in Seq(AnyTerm),
         NEW l \in RowTerms(D, Len(left))
  PROVE  LeftComplement(dest, left, right, l) \in RowTerms(D, Len(Kept(dest, left, right)))
<1> DEFINE kept == Kept(dest, left, right)
           term(t) == IF ~t.isVar THEN t.id
                      ELSE IF t.id \in VarIds(left) THEN l[FrontIndex(left, t.id)] ELSE Null
<1>1. kept \in Seq(TermsOver(D)) /\ Len(kept) \in Nat /\ DOMAIN kept = 1..Len(kept)
  BY KeptFacts
<1>2. LeftComplement(dest, left, right, l) = [i \in DOMAIN kept |-> term(kept[i])]
  BY DEF LeftComplement
<1>3. \A v \in VarIds(left) : l[FrontIndex(left, v)] \in D
  BY FrontIndexFacts DEF RowTerms
<1> HIDE DEF kept
<1>5. ASSUME NEW i \in DOMAIN kept
      PROVE  term(kept[i]) \in D
  <2>1. kept[i].isVar \/ kept[i].id \in D
    BY <1>1 DEF TermsOver
  <2> QED
    BY <1>3, <2>1
<1> HIDE DEF term
<1>6. [i \in DOMAIN kept |-> term(kept[i])] \in RowTerms(D, Len(kept))
  BY <1>1, <1>5 DEF RowTerms
<1> QED
  BY <1>2, <1>6 DEF kept

\* The right one only if the indices of the left terms that it takes are
\* inside the right row.
LEMMA RighComplementTyped ==
  ASSUME NEW D, Null \in D,
         NEW dest \in Seq(TermsOver(D)), NEW left \in Seq(AnyTerm), NEW right \in Seq(AnyTerm),
         NEW r \in RowTerms(D, Len(right)),
         \A v \in VarIds(left) \cap VarIds(right) : FrontIndex(left, v) <= Len(right)
  PROVE  RighComplement(dest, left, right, r) \in RowTerms(D, Len(Kept(dest, left, right)))
<1> DEFINE kept == Kept(dest, left, right)
           term(t) == IF ~t.isVar THEN t.id
                      ELSE IF t.id \notin VarIds(right) THEN Null
                      ELSE r[FrontIndex(IF t.id \in VarIds(left) THEN left ELSE right, t.id)]
<1>1. kept \in Seq(TermsOver(D)) /\ Len(kept) \in Nat /\ DOMAIN kept = 1..Len(kept)
  BY KeptFacts
<1>2. RighComplement(dest, left, right, r) = [i \in DOMAIN kept |-> term(kept[i])]
  BY DEF RighComplement
<1>3. \A v \in VarIds(right) : r[FrontIndex(right, v)] \in D
  BY FrontIndexFacts DEF RowTerms
<1>4. \A v \in VarIds(left) \cap VarIds(right) : r[FrontIndex(left, v)] \in D
  <2> TAKE v \in VarIds(left) \cap VarIds(right)
  <2>1. FrontIndex(left, v) \in 1..Len(left)
    BY FrontIndexFacts
  <2>2. FrontIndex(left, v) \in 1..Len(right)
    BY <2>1
  <2> QED
    BY <2>2 DEF RowTerms
<1> HIDE DEF kept
<1>5. ASSUME NEW i \in DOMAIN kept
      PROVE  term(kept[i]) \in D
  <2>1. kept[i].isVar \/ kept[i].id \in D
    BY <1>1 DEF TermsOver
  <2> QED
    BY <1>3, <1>4, <2>1
<1> HIDE DEF term
<1>6. [i \in DOMAIN kept |-> term(kept[i])] \in RowTerms(D, Len(kept))
  BY <1>1, <1>5 DEF RowTerms
<1> QED
  BY <1>2, <1>6 DEF kept

RowsOf(D, n) == [terms : RowTerms(D, n), value : {False, Incons, True}]
FactsOf(D, n) == [terms : RowTerms(D, n), value : TruthValue]

KnownValue == {False, Incons, True}

\* The connectives never make a known value Unknown.
LEMMA ConnectivesOnKnown ==
  ASSUME NEW a \in KnownValue, NEW b \in {Incons, True}, NEW isTrue \in BOOLEAN
  PROVE  /\ ResolveTruthValue(a, isTrue) \in KnownValue
         /\ ResolveTruthValue(Conjunction(a, b), isTrue) \in KnownValue
         /\ ResolveTruthValue(Disjunction(a, b), isTrue) \in KnownValue
<1>1. /\ Conjunction(a, b) \in KnownValue /\ Disjunction(a, b) \in KnownValue
  BY DEF KnownValue, Conjunction, Disjunction, AndArr, OrArr, False, Unknown, Incons, True
<1>2. ASSUME NEW c \in KnownValue
      PROVE  ResolveTruthValue(c, isTrue) \in KnownValue
  <2>1. Negation(c) \in KnownValue
    BY DEF KnownValue, Negation, NegationArr, False, Unknown, Incons, True
  <2> QED
    BY <2>1 DEF ResolveTruthValue
<1> QED
  BY <1>1, <1>2

\* The first literal: its facts become rows of what is kept.
LEMMA FirstTyped ==
  ASSUME NEW D, NEW dest \in Seq(TermsOver(D)), NEW lit, lit.terms \in Seq(AnyTerm),
         NEW pool \in Seq(FactsOf(D, Len(lit.terms))), NEW isTrue \in BOOLEAN
  PROVE  EvalSubgoalFirst(lit, pool, dest, isTrue) \in Seq(RowsOf(D, Len(Kept(dest, lit.terms, << >>))))
<1> DEFINE P == {i \in DOMAIN pool : /\ Selectable(lit, pool[i].terms)
                                     /\ MatchesTruthValue(lit, pool[i].value)
                                     /\ pool[i].value # Unknown}
           selected == ElementsAt(pool, P)
           n == Len(Kept(dest, lit.terms, << >>))
           row(i) == [terms |-> Project(dest, lit.terms, << >>, selected[i].terms, << >>),
                      value |-> ResolveTruthValue(selected[i].value, isTrue)]
<1>1. EvalSubgoalFirst(lit, pool, dest, isTrue) = [i \in DOMAIN selected |-> row(i)]
  BY DEF EvalSubgoalFirst
<1>2. P \in SUBSET (DOMAIN pool) /\ \A i \in P : pool[i].value # Unknown
  OBVIOUS
<1> HIDE DEF P
<1>3. /\ selected \in Seq(FactsOf(D, Len(lit.terms)))
      /\ \A k \in DOMAIN selected : \E i \in P : selected[k] = pool[i]
  BY <1>2, ElementsAtFacts
<1>4. \A k \in DOMAIN selected : selected[k].value # Unknown
  BY <1>2, <1>3
<1> HIDE DEF selected, n
<1>5. ASSUME NEW i \in DOMAIN selected
      PROVE  row(i) \in RowsOf(D, n)
  <2>1. /\ selected[i].terms \in RowTerms(D, Len(lit.terms))
        /\ selected[i].value \in KnownValue
    <3>1. selected[i] \in FactsOf(D, Len(lit.terms))
      BY <1>3
    <3>2. selected[i].terms \in RowTerms(D, Len(lit.terms)) /\ selected[i].value \in TruthValue
      BY <3>1 DEF FactsOf
    <3> QED
      BY <1>4, <3>2 DEF TruthValue, KnownValue, False, Unknown, Incons, True
  <2>2. << >> \in Seq(AnyTerm) /\ << >> \in RowTerms(D, Len(<< >>))
    BY DEF RowTerms
  <2>3. Project(dest, lit.terms, << >>, selected[i].terms, << >>) \in RowTerms(D, n)
    BY <2>1, <2>2, ProjectTyped DEF n
  <2>4. ResolveTruthValue(selected[i].value, isTrue) \in KnownValue
    BY <2>1, ConnectivesOnKnown
  <2> QED
    BY <2>3, <2>4 DEF RowsOf, KnownValue
<1>6. Len(selected) \in Nat /\ DOMAIN selected = 1..Len(selected)
  BY <1>3
<1> HIDE DEF row
<1>7. [i \in DOMAIN selected |-> row(i)] \in Seq(RowsOf(D, n))
  BY <1>5, <1>6
<1> QED
  BY <1>1, <1>7 DEF n

\* A later literal: every accepted fact counts as True or Incons.
MatchedOf(D, n) == [terms : RowTerms(D, n), value : {Incons, True}, match : BOOLEAN]

\* selectKBTupleRefAndMatch makes True or Incons of every fact.
LEMMA SelectAndMatchTyped ==
  ASSUME NEW D, NEW lit, lit.terms \in Seq(AnyTerm), NEW pool \in Seq(FactsOf(D, Len(lit.terms)))
  PROVE  SelectAndMatch(lit, pool) \in Seq(MatchedOf(D, Len(lit.terms)))
<1> DEFINE P == {i \in DOMAIN pool : /\ pool[i].value # Unknown
                                     /\ Selectable(lit, pool[i].terms)}
           selected == ElementsAt(pool, P)
           n == Len(lit.terms)
           row(i) == [terms |-> selected[i].terms,
                      value |-> ResolveToTrueOrIncons(selected[i].value),
                      match |-> MatchesTruthValue(lit, selected[i].value)]
<1>1. SelectAndMatch(lit, pool) = [i \in DOMAIN selected |-> row(i)]
  BY DEF SelectAndMatch
<1>2. P \in SUBSET (DOMAIN pool)
  OBVIOUS
<1> HIDE DEF P
<1>3. selected \in Seq(FactsOf(D, n))
  BY <1>2, ElementsAtFacts
<1> HIDE DEF selected, n
<1>5. ASSUME NEW i \in DOMAIN selected
      PROVE  row(i) \in MatchedOf(D, n)
  <2>1. selected[i].terms \in RowTerms(D, n)
    <3>1. selected[i] \in FactsOf(D, n)
      BY <1>3
    <3> QED
      BY <3>1 DEF FactsOf
  <2>2. ResolveToTrueOrIncons(selected[i].value) \in {Incons, True}
    BY DEF ResolveToTrueOrIncons
  <2>3. MatchesTruthValue(lit, selected[i].value) \in BOOLEAN
    BY DEF MatchesTruthValue
  <2> QED
    BY <2>1, <2>2, <2>3 DEF MatchedOf
<1>6. Len(selected) \in Nat /\ DOMAIN selected = 1..Len(selected)
  BY <1>3
<1> HIDE DEF row
<1>7. [i \in DOMAIN selected |-> row(i)] \in Seq(MatchedOf(D, n))
  BY <1>5, <1>6
<1> QED
  BY <1>1, <1>7 DEF n

\* One round of sortRelation: the row goes behind those that are not above it.
NotAbove(sorted, row, vars, terms) ==
  {i \in DOMAIN sorted : CompareWithoutNull(Key(vars, terms, sorted[i]), Key(vars, terms, row)) # 1}

SortStep(sorted, row, vars, terms) ==
  InsertAt(sorted, Cardinality(NotAbove(sorted, row, vars, terms)) + 1, row)

\* The rows that are sorted after each round.
SortRun(h, R, rows, vars, terms) ==
  /\ h \in [0..Len(rows) -> Seq(R)] /\ h[0] = << >>
  /\ \A k \in 1..Len(rows) : h[k] = SortStep(h[k - 1], rows[k], vars, terms)

\* A round keeps rows rows.
LEMMA SortStepFacts ==
  ASSUME NEW R, NEW sorted \in Seq(R), NEW row \in R, NEW vars, NEW terms
  PROVE  LET k == Cardinality(NotAbove(sorted, row, vars, terms)) + 1
         IN  /\ k \in 1..Len(sorted) + 1
             /\ SortStep(sorted, row, vars, terms) \in Seq(R)
             /\ InsertedAt(SortStep(sorted, row, vars, terms), sorted, k, row)
<1> DEFINE S == NotAbove(sorted, row, vars, terms)
<1>1. S \in SUBSET (1..Len(sorted)) /\ Len(sorted) \in Nat
  BY DEF NotAbove
<1> HIDE DEF S
<1>2. Cardinality(S) \in Nat /\ Cardinality(S) <= Len(sorted)
  <2>1. IsFiniteSet(1..Len(sorted)) /\ Cardinality(1..Len(sorted)) = Len(sorted)
    <3> DEFINE k == Len(sorted)
    <3>1. k \in Nat
      BY <1>1
    <3> HIDE DEF k
    <3>2. IsFiniteSet(1..k) /\ Cardinality(1..k) = k
      BY <3>1, FS_Interval
    <3> QED
      BY <3>2 DEF k
  <2> QED
    BY <1>1, <2>1, FS_Subset, FS_CardinalityType
<1> DEFINE k == Cardinality(S) + 1
<1>3. k \in 1..Len(sorted) + 1
  BY <1>1, <1>2
<1>4. SortStep(sorted, row, vars, terms) = InsertAt(sorted, k, row)
  BY DEF SortStep, S
<1> HIDE DEF k
<1>5. InsertAt(sorted, k, row) \in Seq(R) /\ InsertedAt(InsertAt(sorted, k, row), sorted, k, row)
  BY <1>3, InsertAtPlace
<1> QED
  BY <1>3, <1>4, <1>5 DEF k, S

\* Sorting is a round for every row.
LEMMA StableSortRun ==
  ASSUME NEW R, NEW rows \in Seq(R), NEW vars, NEW terms
  PROVE  \E h : SortRun(h, R, rows, vars, terms) /\ StableSort(rows, vars, terms) = h[Len(rows)]
<1> DEFINE n == Len(rows)
           V == Seq(R)
           insert(sorted, row) ==
             LET k == Cardinality({i \in DOMAIN sorted :
                        CompareWithoutNull(Key(vars, terms, sorted[i]), Key(vars, terms, row)) # 1})
             IN  InsertAt(sorted, k + 1, row)
           D == SUBSET (1..n)
           F == [x \in V \X R |-> insert(x[1], x[2])]
           Eq(g) == [d \in D |-> IF d = {} THEN << >> ELSE insert(g[d \ {Max(d)}], rows[Max(d)])]
           iter == CHOOSE g : g = Eq(g)
<1>0. n \in Nat /\ rows \in [1..n -> R] /\ << >> \in V
  OBVIOUS
<1>1. ASSUME NEW sorted \in V, NEW row \in R
      PROVE  insert(sorted, row) \in V /\ insert(sorted, row) = SortStep(sorted, row, vars, terms)
  BY SortStepFacts DEF SortStep, NotAbove
<1> HIDE DEF insert
<1>2. F \in [V \X R -> V] /\ \A x \in V, y \in R : F[<<x, y>>] = insert(x, y)
  BY <1>1
<1>3. PICK g : IsFold(g, F, << >>, rows, n, V)
  <2> HIDE DEF F
  <2> QED
    BY <1>0, <1>2, FoldExists
<1>4. /\ g \in [D -> V]
      /\ \A d \in D : g[d] = IF d = {} THEN << >> ELSE F[<<g[d \ {Max(d)}], rows[Max(d)]>>]
  BY <1>3, Zenon DEF IsFold
<1>5. \A d \in D : d # {} => Max(d) \in 1..n /\ d \ {Max(d)} \in D
  BY <1>0, WithoutLast
<1>6. g = Eq(g)
  <2>1. \A d \in D : g[d] = IF d = {} THEN << >> ELSE insert(g[d \ {Max(d)}], rows[Max(d)])
    <3> HIDE DEF F, D
    <3> QED
      BY <1>0, <1>2, <1>4, <1>5
  <2> HIDE DEF F, D
  <2> QED
    BY <1>4, <2>1
<1>7. iter = Eq(iter)
  <2> HIDE DEF Eq
  <2> QED
    BY <1>6
<1>8. StableSort(rows, vars, terms) = iter[1..n]
  <2>1. DOMAIN rows = 1..n
    OBVIOUS
  <2>2. StableSort(rows, vars, terms) = iter[DOMAIN rows]
    BY <2>1, Zenon DEF StableSort, FoldLeft, MapThenFoldSet, insert
  <2> HIDE DEF iter
  <2> QED
    BY <2>1, <2>2
<1>9. iter[{}] = << >>
  BY <1>7
<1>10. \A d \in D : d # {} /\ iter[d \ {Max(d)}] \in V =>
         iter[d] = F[<<iter[d \ {Max(d)}], rows[Max(d)]>>]
  <2> HIDE DEF iter, F
  <2>1. \A d \in D : d # {} => iter[d] = insert(iter[d \ {Max(d)}], rows[Max(d)])
    BY <1>7
  <2>2. \A d \in D : d # {} => rows[Max(d)] \in R
    BY <1>0, <1>5
  <2> HIDE DEF D
  <2> QED
    BY <1>2, <2>1, <2>2
<1>11. FoldsWith(iter, F, << >>, rows, n, V, R)
  <2> HIDE DEF iter, F, V, n
  <2> QED
    BY <1>0, <1>2, <1>9, <1>10 DEF FoldsWith
<1>12. PICK h : IsRun(h, F, << >>, rows, n, V) /\ iter[1..n] = h[n]
  <2> HIDE DEF iter, F
  <2> QED
    BY <1>11, FoldValues
<1>13. /\ h \in [0..n -> V] /\ h[0] = << >>
       /\ \A k \in 1..n : h[k] = F[<<h[k - 1], rows[k]>>]
  BY <1>0, <1>12 DEF IsRun
<1> HIDE DEF iter, F
<1>14. \A k \in 1..n : h[k] = SortStep(h[k - 1], rows[k], vars, terms)
  <2> TAKE k \in 1..n
  <2>1. k - 1 \in 0..n /\ rows[k] \in R
    BY <1>0
  <2>2. h[k - 1] \in V
    BY <1>13, <2>1
  <2> HIDE DEF V
  <2> QED
    BY <1>1, <1>2, <1>13, <2>1, <2>2
<1>15. SortRun(h, R, rows, vars, terms)
  BY <1>13, <1>14 DEF SortRun
<1> QED
  BY <1>8, <1>12, <1>15

\* Sorting keeps rows rows.
LEMMA StableSortTyped ==
  ASSUME NEW R, NEW rows \in Seq(R), NEW vars, NEW terms
  PROVE  StableSort(rows, vars, terms) \in Seq(R)
<1>1. PICK h : SortRun(h, R, rows, vars, terms) /\ StableSort(rows, vars, terms) = h[Len(rows)]
  BY StableSortRun
<1>2. Len(rows) \in 0..Len(rows)
  OBVIOUS
<1> QED
  BY <1>1, <1>2 DEF SortRun
------------------------------------------------------------------------------
Places(m, n) == (1..m + 1) \X (1..n + 1)
Rows2(m, n) == (1..m) \X (1..n)

\* A path through the rows of two relations: it compares two rows at every
\* place but the last.
IsPath(path, m, n) ==
  /\ path \in Seq(Places(m, n))
  /\ Len(path) \in Nat /\ Len(path) >= 1
  /\ \A k \in 1..Len(path) - 1 : path[k] \in Rows2(m, n)

\* Where the loop goes from a place.
NextPlace(p, order) ==
  CASE order[p] =  1 -> <<p[1], p[2] + 1>>
    [] order[p] = -1 -> <<p[1] + 1, p[2]>>
    [] OTHER         -> <<p[1] + 1, p[2] + 1>>

\* The path of a loop that starts at p and ends where one side is at its end.
IsMergePath(path, m, n, order, p) ==
  /\ IsPath(path, m, n)
  /\ path[1] = p
  /\ \A k \in 1..Len(path) - 1 : path[k + 1] = NextPlace(path[k], order)
  /\ path[Len(path)][1] > m \/ path[Len(path)][2] > n

\* A place on a path is followed by a path.
LEMMA PathGrows ==
  ASSUME NEW m \in Nat, NEW n \in Nat, NEW order, NEW p \in Rows2(m, n),
         NEW path, IsMergePath(path, m, n, order, NextPlace(p, order))
  PROVE  IsMergePath(<<p>> \o path, m, n, order, p)
<1>1. p \in Places(m, n)
  BY DEF Places, Rows2
<1>2. path \in Seq(Places(m, n)) /\ Len(path) \in Nat /\ Len(path) >= 1
  BY DEF IsMergePath, IsPath
<1> DEFINE t == <<p>> \o path
<1>3. t \in Seq(Places(m, n)) /\ Len(t) = Len(path) + 1 /\ t[1] = p
  BY <1>1, <1>2
<1>4. \A k \in 2..Len(path) + 1 : t[k] = path[k - 1]
  BY <1>1, <1>2
<1> HIDE DEF t
<1>5. ASSUME NEW k \in 1..Len(t) - 1
      PROVE  t[k] \in Rows2(m, n) /\ t[k + 1] = NextPlace(t[k], order)
  <2>1. CASE k = 1
    <3>1. t[2] = path[1]
      <4>1. 2 \in 2..Len(path) + 1 /\ 2 - 1 = 1
        BY <1>2
      <4> QED
        BY <1>4, <4>1
    <3> QED
      BY <1>3, <2>1, <3>1 DEF IsMergePath
  <2>2. CASE k # 1
    <3>1. k \in 2..Len(path) + 1 /\ k - 1 \in 1..Len(path) - 1
      BY <1>2, <1>3, <2>2
    <3>2. k + 1 \in 2..Len(path) + 1 /\ (k + 1) - 1 = (k - 1) + 1
      BY <1>2, <1>3, <2>2
    <3>3. t[k] = path[k - 1] /\ t[k + 1] = path[(k - 1) + 1]
      BY <1>4, <3>1, <3>2
    <3> QED
      BY <3>1, <3>3 DEF IsMergePath, IsPath
  <2> QED
    BY <2>1, <2>2
<1>6. t[Len(t)] = path[Len(path)]
  <2>1. Len(t) \in 2..Len(path) + 1 /\ Len(t) - 1 = Len(path)
    BY <1>2, <1>3
  <2> QED
    BY <1>4, <2>1
<1>7. IsPath(t, m, n)
  BY <1>2, <1>3, <1>5 DEF IsPath
<1> QED
  BY <1>3, <1>5, <1>6, <1>7 DEF IsMergePath, t

\* The loop of a merge join stays inside the two relations until one of them
\* is at its end.
LEMMA MergePathFacts ==
  ASSUME NEW m \in Nat, NEW n \in Nat, NEW order
  PROVE  /\ IsPath(MergePath(m, n, order), m, n)
         /\ IsMergePath(MergePath(m, n, order), m, n, order, <<1, 1>>)
<1> DEFINE D == Places(m, n)
           V == Seq(D)
           next(p) == CASE order[p] =  1 -> <<p[1], p[2] + 1>>
                        [] order[p] = -1 -> <<p[1] + 1, p[2]>>
                        [] OTHER         -> <<p[1] + 1, p[2] + 1>>
           Step == [x \in [D -> V] \X D |->
                      <<x[2]>> \o (IF x[2][1] > m \/ x[2][2] > n THEN << >> ELSE x[1][next(x[2])])]
           rank == [p \in D |-> (m + 1 - p[1]) + (n + 1 - p[2])]
           Eq(f) == [p \in (1..m + 1) \X (1..n + 1) |->
                       <<p>> \o (IF p[1] > m \/ p[2] > n THEN << >> ELSE f[next(p)])]
           path == CHOOSE f : f = Eq(f)
<1>1. \A p \in D : p[1] \in 1..m + 1 /\ p[2] \in 1..n + 1 /\ rank[p] \in 0..m + n
  <2> TAKE p \in D
  <2>1. p[1] \in 1..m + 1 /\ p[2] \in 1..n + 1
    BY DEF Places
  <2> QED
    BY <2>1
<1>2. \A p \in D : ~(p[1] > m \/ p[2] > n) => p \in Rows2(m, n)
  BY DEF Places, Rows2
<1>3. ASSUME NEW p \in D, ~(p[1] > m \/ p[2] > n)
      PROVE  next(p) \in D /\ rank[next(p)] < rank[p]
  <2>1. p[1] \in 1..m /\ p[2] \in 1..n
    BY <1>1, <1>3
  <2>2. next(p) \in {<<p[1], p[2] + 1>>, <<p[1] + 1, p[2]>>, <<p[1] + 1, p[2] + 1>>}
    OBVIOUS
  <2> HIDE DEF next
  <2>3. next(p) \in D
    BY <2>1, <2>2 DEF Places
  <2>4. rank[next(p)] = (m + 1 - next(p)[1]) + (n + 1 - next(p)[2])
    BY <2>3
  <2>5. rank[p] = (m + 1 - p[1]) + (n + 1 - p[2])
    OBVIOUS
  <2> HIDE DEF rank
  <2> QED
    BY <2>1, <2>2, <2>3, <2>4, <2>5
<1> HIDE DEF next
<1>4. Step \in [[D -> V] \X D -> V]
  <2> SUFFICES ASSUME NEW g \in [D -> V], NEW p \in D
               PROVE  <<p>> \o (IF p[1] > m \/ p[2] > n THEN << >> ELSE g[next(p)]) \in V
    OBVIOUS
  <2>1. (IF p[1] > m \/ p[2] > n THEN << >> ELSE g[next(p)]) \in V
    <3>1. << >> \in V
      OBVIOUS
    <3> HIDE DEF D, V
    <3> QED
      BY <1>3, <3>1
  <2>2. <<p>> \in V
    OBVIOUS
  <2> HIDE DEF D
  <2> QED
    BY <2>1, <2>2
<1>5. IsRecursion(Step, rank, m + n + 1, D, V)
  <2>1. rank \in [D -> Nat] /\ m + n + 1 \in Nat /\ \A p \in D : rank[p] < m + n + 1
    <3>1. \A p \in D : rank[p] \in Nat /\ rank[p] < m + n + 1
      <4> HIDE DEF rank
      <4> QED
        BY <1>1
    <3>2. rank \in [D -> Nat]
      BY <3>1
    <3> HIDE DEF rank
    <3> QED
      BY <3>1, <3>2
  <2>2. ASSUME NEW g \in [D -> V], NEW h \in [D -> V], NEW p \in D,
               \A e \in D : rank[e] < rank[p] => g[e] = h[e]
        PROVE  Step[<<g, p>>] = Step[<<h, p>>]
    <3>1. CASE p[1] > m \/ p[2] > n
      BY <3>1
    <3>2. CASE ~(p[1] > m \/ p[2] > n)
      <4>1. g[next(p)] = h[next(p)]
        <5> HIDE DEF rank, D
        <5> QED
          BY <1>3, <2>2, <3>2
      <4> QED
        BY <4>1
    <3> QED
      BY <3>1, <3>2
  <2> HIDE DEF D, V, Step, rank
  <2> QED
    BY <1>4, <2>1, <2>2 DEF IsRecursion
<1>6. PICK g \in [D -> V] : \A p \in D : g[p] = Step[<<g, p>>]
  <2>1. << >> \in V
    OBVIOUS
  <2> HIDE DEF D, V, Step, rank
  <2> QED
    BY <1>5, <2>1, BoundedRecursion
<1>7. g = Eq(g)
  <2>1. \A p \in D : g[p] = <<p>> \o (IF p[1] > m \/ p[2] > n THEN << >> ELSE g[next(p)])
    BY <1>6
  <2> QED
    BY <2>1 DEF Places
<1>8. path = Eq(path)
  <2> HIDE DEF Eq
  <2> QED
    BY <1>7
<1>9. MergePath(m, n, order) = path[<<1, 1>>]
  BY Zenon DEF MergePath, next
<1> HIDE DEF path
<1>10. \A p \in D : path[p] = <<p>> \o (IF p[1] > m \/ p[2] > n THEN << >> ELSE path[next(p)])
  BY <1>8 DEF Places
<1> DEFINE Good(r) == \A p \in D : rank[p] <= r => IsMergePath(path[p], m, n, order, p)
           S == {r \in 0..m + n + 1 : r > 0 => Good(r - 1)}
<1>11. 0 \in S
  OBVIOUS
<1>12. ASSUME NEW r \in 0..m + n + 1, r < m + n + 1, r \in S
       PROVE  r + 1 \in S
  <2>1. r + 1 \in 0..m + n + 1 /\ (r + 1) - 1 = r
    BY <1>12
  <2> SUFFICES ASSUME NEW p \in D, rank[p] <= r
               PROVE  IsMergePath(path[p], m, n, order, p)
    BY <2>1
  <2>2. CASE p[1] > m \/ p[2] > n
    <3>1. path[p] = <<p>> \o << >>
      BY <1>10, <2>2
    <3>2. path[p] = <<p>>
      BY <3>1
    <3>3. <<p>> \in Seq(Places(m, n)) /\ Len(<<p>>) = 1
      OBVIOUS
    <3> QED
      BY <2>2, <3>2, <3>3 DEF IsMergePath, IsPath
  <2>3. CASE ~(p[1] > m \/ p[2] > n)
    <3>1. path[p] = <<p>> \o path[next(p)]
      BY <1>10, <2>3
    <3>2. next(p) \in D /\ rank[next(p)] < rank[p] /\ p \in Rows2(m, n)
      BY <1>2, <1>3, <2>3
    <3>3. r > 0 /\ rank[next(p)] <= r - 1
      <4>1. rank[next(p)] \in 0..m + n /\ rank[p] \in 0..m + n
        <5> HIDE DEF rank, D
        <5> QED
          BY <1>1, <3>2
      <4> HIDE DEF rank, D
      <4> QED
        BY <3>2, <4>1
    <3>4. IsMergePath(path[next(p)], m, n, order, next(p))
      <4> HIDE DEF rank, D
      <4> QED
        BY <1>12, <3>2, <3>3
    <3>5. next(p) = NextPlace(p, order)
      BY DEF next, NextPlace
    <3> QED
      BY <3>1, <3>2, <3>4, <3>5, PathGrows
  <2> QED
    BY <2>2, <2>3
<1>13. m + n + 1 \in S
  <2>1. 0..m + n + 1 \subseteq S
    <3>1. m + n + 1 \in Nat
      OBVIOUS
    <3> HIDE DEF S
    <3> QED
      BY <1>11, <1>12, <3>1, InductionUpto
  <2>2. m + n + 1 \in 0..m + n + 1
    OBVIOUS
  <2> HIDE DEF S
  <2> QED
    BY <2>1, <2>2
<1>14. IsMergePath(path[<<1, 1>>], m, n, order, <<1, 1>>)
  <2>1. Good((m + n + 1) - 1) /\ (m + n + 1) - 1 = m + n
    <3> HIDE DEF Good
    <3> QED
      BY <1>13
  <2>2. <<1, 1>> \in D
    BY DEF Places
  <2>3. rank[<<1, 1>>] <= m + n
    <3> HIDE DEF rank, D
    <3> QED
      BY <1>1, <2>2
  <2> HIDE DEF rank, D
  <2> QED
    BY <2>1, <2>2, <2>3
<1> QED
  BY <1>9, <1>14 DEF IsMergePath

\* A run without a gap, from a place on.
LEMMA RunFromFacts ==
  ASSUME NEW n \in Nat, NEW from \in 1..n + 1, NEW S \in SUBSET (1..n)
  PROVE  /\ RunFrom(from, S) \in Seq(S)
         /\ Len(RunFrom(from, S)) \in Nat /\ Len(RunFrom(from, S)) <= n - from + 1
<1> DEFINE T == {k \in S \cup {from - 1} : from..k \subseteq S}
           end == Max(T)
<1>1. T \in SUBSET 0..n
  <2>1. from - 1 \in 0..n /\ S \subseteq 0..n
    OBVIOUS
  <2>2. T \subseteq S \cup {from - 1}
    OBVIOUS
  <2> HIDE DEF T
  <2> QED
    BY <2>1, <2>2
<1>2. from - 1 \in T
  <2>1. from..(from - 1) = {}
    OBVIOUS
  <2> QED
    BY <2>1
<1>3. end \in T /\ end >= from - 1
  <2> HIDE DEF T
  <2> QED
    BY <1>1, <1>2, MaxOf
<1>4. from..end \subseteq S
  BY <1>3
<1>5. end \in 0..n /\ end - from + 1 \in Nat /\ end - from + 1 <= n - from + 1
  <2> HIDE DEF T, end
  <2> QED
    BY <1>1, <1>3
<1>6. RunFrom(from, S) = [k \in 1..end - from + 1 |-> from + k - 1]
  BY DEF RunFrom
<1> HIDE DEF T, end
<1>7. \A k \in 1..end - from + 1 : from + k - 1 \in S
  <2> TAKE k \in 1..end - from + 1
  <2>1. from + k - 1 \in from..end
    BY <1>5
  <2> QED
    BY <1>4, <2>1
<1>8. RunFrom(from, S) \in Seq(S) /\ Len(RunFrom(from, S)) = end - from + 1
  <2> DEFINE c == end - from + 1
  <2>1. c \in Nat /\ RunFrom(from, S) \in [1..c -> S]
    BY <1>5, <1>6, <1>7
  <2> HIDE DEF c
  <2>2. RunFrom(from, S) \in Seq(S) /\ Len(RunFrom(from, S)) = c
    BY <2>1, SeqDef
  <2> QED
    BY <2>2 DEF c
<1> QED
  BY <1>5, <1>8

\* The pairs that an equal pair brings are pairs of rows.
LEMMA JoinedAtFacts ==
  ASSUME NEW m \in Nat, NEW n \in Nat, NEW i \in 1..m, NEW j \in 1..n, NEW joinable \in SUBSET Rows2(m, n)
  PROVE  JoinedAt(i, j, joinable) \in Seq(Rows2(m, n))
<1> DEFINE lefts == LeftRun(i + 1, j, joinable)
           rights == RightRun(i, j + 1, joinable)
<1>1. lefts \in Seq(1..m)
  <2> DEFINE S == {p[1] : p \in {q \in joinable : q[2] = j}}
  <2>1. S \in SUBSET (1..m) /\ i + 1 \in 1..m + 1
    BY DEF Rows2
  <2> HIDE DEF S
  <2>2. RunFrom(i + 1, S) \in Seq(S)
    BY <2>1, RunFromFacts
  <2>3. RunFrom(i + 1, S) \in Seq(1..m)
    BY <2>1, <2>2, SeqOfMore
  <2> QED
    BY <2>3 DEF LeftRun, S
<1>2. rights \in Seq(1..n)
  <2> DEFINE S == {p[2] : p \in {q \in joinable : q[1] = i}}
  <2>1. S \in SUBSET (1..n) /\ j + 1 \in 1..n + 1
    BY DEF Rows2
  <2> HIDE DEF S
  <2>2. RunFrom(j + 1, S) \in Seq(S)
    BY <2>1, RunFromFacts
  <2>3. RunFrom(j + 1, S) \in Seq(1..n)
    BY <2>1, <2>2, SeqOfMore
  <2> QED
    BY <2>3 DEF RightRun, S
<1>3. JoinedAt(i, j, joinable) = << <<i, j>> >> \o [k \in DOMAIN lefts |-> <<lefts[k], j>>]
                                                 \o [k \in DOMAIN rights |-> <<i, rights[k]>>]
  BY DEF JoinedAt
<1> HIDE DEF lefts, rights
<1>4. [k \in DOMAIN lefts |-> <<lefts[k], j>>] \in Seq(Rows2(m, n))
  <2>1. Len(lefts) \in Nat /\ DOMAIN lefts = 1..Len(lefts) /\ \A k \in DOMAIN lefts : <<lefts[k], j>> \in Rows2(m, n)
    BY <1>1 DEF Rows2
  <2> QED
    BY <2>1
<1>5. [k \in DOMAIN rights |-> <<i, rights[k]>>] \in Seq(Rows2(m, n))
  <2>1. Len(rights) \in Nat /\ DOMAIN rights = 1..Len(rights) /\ \A k \in DOMAIN rights : <<i, rights[k]>> \in Rows2(m, n)
    BY <1>2 DEF Rows2
  <2> QED
    BY <2>1
<1>6. << <<i, j>> >> \in Seq(Rows2(m, n))
  <2>1. <<i, j>> \in Rows2(m, n)
    BY DEF Rows2
  <2> QED
    BY <2>1
<1> QED
  BY <1>3, <1>4, <1>5, <1>6, ConcatProperties

\* What is joined at the places of a path, one after the other.
LEMMA JoinedOnPath ==
  ASSUME NEW E, NEW m \in Nat, NEW n \in Nat, NEW path, IsPath(path, m, n),
         NEW at, at = [k \in Compared(path) |-> at[k]], \A k \in Compared(path) : at[k] \in Seq(E)
  PROVE  FlattenSeq(at) \in Seq(E)
<1>1. Len(path) - 1 \in Nat /\ Compared(path) = 1..Len(path) - 1
  BY DEF IsPath, Compared
<1>2. at \in Seq(Seq(E))
  BY <1>1
<1> QED
  BY <1>2, FlattenFacts

\* EvalSubgoalNextWithoutUnknown joins pairs of rows.
LEMMA MergeJoinFacts ==
  ASSUME NEW m \in Nat, NEW n \in Nat, NEW l, NEW r,
         DOMAIN l = 1..m, DOMAIN r = 1..n, Len(l) = m, Len(r) = n
  PROVE  MergeJoin(l, r) \in Seq(Rows2(m, n))
<1> DEFINE rows == (DOMAIN l) \X (DOMAIN r)
           order == [p \in rows |-> Compare(l[p[1]], r[p[2]])]
           joinable == {p \in rows : l[p[1]] = r[p[2]]}
           joinAt(p) == IF order[p] = 0 THEN JoinedAt(p[1], p[2], joinable) ELSE << >>
           path == MergePath(m, n, order)
           at == [k \in Compared(path) |-> joinAt(path[k])]
<1>1. MergeJoin(l, r) = FlattenSeq(at)
  BY DEF MergeJoin
<1>2. joinable \in SUBSET Rows2(m, n)
  BY DEF Rows2
<1>3. IsPath(path, m, n)
  BY MergePathFacts
<1> HIDE DEF joinable, order, path
<1>4. ASSUME NEW k \in Compared(path)
      PROVE  joinAt(path[k]) \in Seq(Rows2(m, n))
  <2>1. path[k] \in Rows2(m, n)
    BY <1>3 DEF IsPath, Compared
  <2>2. path[k][1] \in 1..m /\ path[k][2] \in 1..n
    BY <2>1 DEF Rows2
  <2>3. JoinedAt(path[k][1], path[k][2], joinable) \in Seq(Rows2(m, n))
    BY <1>2, <2>2, JoinedAtFacts
  <2>4. << >> \in Seq(Rows2(m, n))
    OBVIOUS
  <2> QED
    BY <2>3, <2>4
<1> HIDE DEF joinAt
<1>5. FlattenSeq(at) \in Seq(Rows2(m, n))
  BY <1>3, <1>4, JoinedOnPath
<1> QED
  BY <1>1, <1>5

\* A left row with a right row, or with none (0).
LeftPairs(m, n) == (1..m) \X (0..n)

\* The left rows that are left over are left rows.
LEMMA RestFacts ==
  ASSUME NEW m \in Nat, NEW n \in Nat, NEW from \in 1..m + 1, NEW run \in Nat, run <= m - from + 1
  PROVE  [k \in 1..m - (from + run) + 1 |-> <<from + run + k - 1, 0>>] \in Seq(LeftPairs(m, n))
<1> DEFINE c == m - (from + run) + 1
<1>1. c \in Nat
  OBVIOUS
<1>2. \A k \in 1..c : <<from + run + k - 1, 0>> \in LeftPairs(m, n)
  <2> TAKE k \in 1..c
  <2>1. from + run + k - 1 \in 1..m /\ 0 \in 0..n
    OBVIOUS
  <2> QED
    BY <2>1 DEF LeftPairs
<1> HIDE DEF c
<1>3. [k \in 1..c |-> <<from + run + k - 1, 0>>] \in [1..c -> LeftPairs(m, n)]
  BY <1>2
<1>4. [k \in 1..c |-> <<from + run + k - 1, 0>>] \in Seq(LeftPairs(m, n))
  BY <1>1, <1>3, SeqDef
<1> QED
  BY <1>4 DEF c

\* EvalSubgoalNext joins a left row with a right one or with none.
LEMMA MergeJoinUnknownFacts ==
  ASSUME NEW m \in Nat, NEW n \in Nat, NEW l, NEW r, NEW match, NEW onlyUnknown,
         DOMAIN l = 1..m, DOMAIN r = 1..n, Len(l) = m, Len(r) = n
  PROVE  MergeJoinUnknown(l, r, match, onlyUnknown) \in Seq(LeftPairs(m, n))
<1> DEFINE rows == (DOMAIN l) \X (DOMAIN r)
           order == [p \in rows |-> CompareWithoutNull(l[p[1]], r[p[2]])]
           joinable == {p \in rows : Compare(l[p[1]], r[p[2]]) = 0}
           unmatched(p) == p[2] # 1 /\ l[p[1]] # r[p[2] - 1]
           matching(pairs) == ElementsAt(pairs, {k \in DOMAIN pairs : match[pairs[k][2]]})
           joinAt(p) ==
             CASE order[p] =  1 -> << >>
               [] order[p] = -1 -> IF unmatched(p) THEN << <<p[1], 0>> >> ELSE << >>
               [] OTHER -> IF onlyUnknown THEN << >> ELSE matching(JoinedAt(p[1], p[2], joinable))
           skipped(p) == IF p[2] = 1 THEN << >>
                         ELSE RunFrom(p[1], {k \in p[1]..Len(l) : l[k] = r[p[2] - 1]})
           first(p) == p[1] + Len(skipped(p))
           rest(p) == [k \in 1..Len(l) - first(p) + 1 |-> <<first(p) + k - 1, 0>>]
           path == MergePath(m, n, order)
           at == [k \in Compared(path) |-> joinAt(path[k])]
<1>1. MergeJoinUnknown(l, r, match, onlyUnknown) = FlattenSeq(at) \o rest(Last(path))
  BY DEF MergeJoinUnknown
<1>2. joinable \in SUBSET Rows2(m, n)
  BY DEF Rows2
<1>3. IsPath(path, m, n)
  BY MergePathFacts
<1> HIDE DEF joinable, order, path, unmatched
<1>4. ASSUME NEW k \in Compared(path)
      PROVE  joinAt(path[k]) \in Seq(LeftPairs(m, n))
  <2> DEFINE p == path[k]
             pairs == JoinedAt(p[1], p[2], joinable)
  <2>1. p \in Rows2(m, n)
    BY <1>3 DEF IsPath, Compared
  <2>2. p[1] \in 1..m /\ p[2] \in 1..n
    BY <2>1 DEF Rows2
  <2> HIDE DEF p
  <2>3. pairs \in Seq(Rows2(m, n))
    BY <1>2, <2>2, JoinedAtFacts
  <2>4. matching(pairs) \in Seq(LeftPairs(m, n))
    <3> DEFINE P == {i \in DOMAIN pairs : match[pairs[i][2]]}
    <3>1. P \in SUBSET (DOMAIN pairs)
      OBVIOUS
    <3> HIDE DEF P, pairs
    <3>2. ElementsAt(pairs, P) \in Seq(Rows2(m, n))
      BY <2>3, <3>1, ElementsAtFacts
    <3>3. Rows2(m, n) \subseteq LeftPairs(m, n)
      BY DEF Rows2, LeftPairs
    <3>4. ElementsAt(pairs, P) \in Seq(LeftPairs(m, n))
      BY <3>2, <3>3, SeqOfMore
    <3> QED
      BY <3>4 DEF P
  <2>5. << <<p[1], 0>> >> \in Seq(LeftPairs(m, n)) /\ << >> \in Seq(LeftPairs(m, n))
    <3>1. <<p[1], 0>> \in LeftPairs(m, n)
      BY <2>2 DEF LeftPairs
    <3> QED
      BY <3>1
  <2> HIDE DEF matching, pairs
  <2>6. joinAt(p) \in {<< >>, << <<p[1], 0>> >>, matching(pairs)}
    BY DEF pairs
  <2> HIDE DEF joinAt
  <2>7. joinAt(p) \in Seq(LeftPairs(m, n))
    BY <2>4, <2>5, <2>6
  <2> QED
    BY <2>7 DEF p
<1> HIDE DEF joinAt
<1>5. FlattenSeq(at) \in Seq(LeftPairs(m, n))
  BY <1>3, <1>4, JoinedOnPath
<1>6. rest(Last(path)) \in Seq(LeftPairs(m, n))
  <2> DEFINE p == Last(path)
             run == Len(skipped(p))
  <2>1. p \in Places(m, n)
    BY <1>3 DEF IsPath, Last
  <2>2. p[1] \in 1..m + 1 /\ p[2] \in 1..n + 1
    BY <2>1 DEF Places
  <2> HIDE DEF p
  <2>3. run \in Nat /\ run <= m - p[1] + 1
    <3>1. CASE p[2] = 1
      <4>1. run = 0
        BY <3>1
      <4> HIDE DEF run
      <4> QED
        BY <2>2, <4>1
    <3>2. CASE p[2] # 1
      <4> DEFINE S == {k \in p[1]..Len(l) : l[k] = r[p[2] - 1]}
      <4>1. S \in SUBSET (1..m)
        BY <2>2
      <4>2. run = Len(RunFrom(p[1], S))
        BY <3>2
      <4> HIDE DEF S, run
      <4> QED
        BY <2>2, <4>1, <4>2, RunFromFacts
    <3> QED
      BY <3>1, <3>2
  <2>4. rest(p) = [k \in 1..m - (p[1] + run) + 1 |-> <<p[1] + run + k - 1, 0>>]
    OBVIOUS
  <2> HIDE DEF run, rest
  <2>5. rest(p) \in Seq(LeftPairs(m, n))
    <3> DEFINE from == p[1]
    <3>1. from \in 1..m + 1
      BY <2>2
    <3>2. run <= m - from + 1
      BY <2>3
    <3>3. rest(p) = [k \in 1..m - (from + run) + 1 |-> <<from + run + k - 1, 0>>]
      BY <2>4
    <3> HIDE DEF from
    <3>4. [k \in 1..m - (from + run) + 1 |-> <<from + run + k - 1, 0>>] \in Seq(LeftPairs(m, n))
      BY <2>3, <3>1, <3>2, RestFacts
    <3> QED
      BY <3>3, <3>4
  <2> QED
    BY <2>5 DEF p
<1> HIDE DEF rest, at
<1> QED
  BY <1>1, <1>5, <1>6, ConcatProperties

\* A row of one of the two sides, or of both.
OuterPairs(m, n) == {p \in (0..m) \X (0..n) : p[1] # 0 \/ p[2] # 0}

\* EvalSubgoalNextDisjunction joins rows or leaves one of them alone.
LEMMA MergeOuterJoinFacts ==
  ASSUME NEW m \in Nat, NEW n \in Nat, NEW l, NEW r,
         DOMAIN l = 1..m, DOMAIN r = 1..n, Len(l) = m, Len(r) = n
  PROVE  MergeOuterJoin(l, r) \in Seq(OuterPairs(m, n))
<1> DEFINE rows == (DOMAIN l) \X (DOMAIN r)
           order == [p \in rows |-> Compare(l[p[1]], r[p[2]])]
           joinable == {p \in rows : order[p] = 0}
           joinAt(p) == CASE order[p] =  1 -> << >>
                          [] order[p] = -1 -> << <<p[1], 0>> >>
                          [] OTHER         -> JoinedAt(p[1], p[2], joinable)
           path == MergePath(m, n, order)
           at == [k \in Compared(path) |-> joinAt(path[k])]
           lone == [i \in DOMAIN l |-> <<i, 0>>]
           pairs == IF r = << >> THEN lone ELSE FlattenSeq(at)
           first == {path[k][2] : k \in {q \in Compared(path) : path[q] \in joinable}}
           news == [j \in DOMAIN r |-> <<0, j>>]
           P == DOMAIN r \ first
<1>1. MergeOuterJoin(l, r) = pairs \o ElementsAt(news, P)
  BY DEF MergeOuterJoin
<1>2. joinable \in SUBSET Rows2(m, n)
  BY DEF Rows2
<1>3. IsPath(path, m, n)
  BY MergePathFacts
<1> HIDE DEF joinable, order, path, first
<1>4. ASSUME NEW k \in Compared(path)
      PROVE  joinAt(path[k]) \in Seq(OuterPairs(m, n))
  <2> DEFINE p == path[k]
             joined == JoinedAt(p[1], p[2], joinable)
  <2>1. p \in Rows2(m, n)
    BY <1>3 DEF IsPath, Compared
  <2>2. p[1] \in 1..m /\ p[2] \in 1..n
    BY <2>1 DEF Rows2
  <2> HIDE DEF p
  <2>3. joined \in Seq(Rows2(m, n))
    BY <1>2, <2>2, JoinedAtFacts
  <2> HIDE DEF joined
  <2>4. joined \in Seq(OuterPairs(m, n))
    <3>1. Rows2(m, n) \subseteq OuterPairs(m, n)
      BY DEF Rows2, OuterPairs
    <3> QED
      BY <2>3, <3>1, SeqOfMore
  <2>5. << <<p[1], 0>> >> \in Seq(OuterPairs(m, n)) /\ << >> \in Seq(OuterPairs(m, n))
    <3>1. <<p[1], 0>> \in OuterPairs(m, n)
      BY <2>2 DEF OuterPairs
    <3> QED
      BY <3>1
  <2>6. joinAt(p) \in {<< >>, << <<p[1], 0>> >>, joined}
    BY DEF joined
  <2> HIDE DEF joinAt
  <2>7. joinAt(p) \in Seq(OuterPairs(m, n))
    BY <2>4, <2>5, <2>6
  <2> QED
    BY <2>7 DEF p
<1> HIDE DEF joinAt
<1>5. FlattenSeq(at) \in Seq(OuterPairs(m, n))
  BY <1>3, <1>4, JoinedOnPath
<1>6. lone \in Seq(OuterPairs(m, n))
  <2>1. \A i \in 1..m : <<i, 0>> \in OuterPairs(m, n)
    BY DEF OuterPairs
  <2> QED
    BY <2>1
<1>7. news \in Seq(OuterPairs(m, n)) /\ DOMAIN news = DOMAIN r
  <2>1. \A j \in 1..n : <<0, j>> \in OuterPairs(m, n)
    BY DEF OuterPairs
  <2> QED
    BY <2>1
<1>8. P \in SUBSET (DOMAIN news)
  BY <1>7
<1> HIDE DEF news, P, at, lone
<1>9. ElementsAt(news, P) \in Seq(OuterPairs(m, n))
  BY <1>7, <1>8, ElementsAtFacts
<1>10. pairs \in Seq(OuterPairs(m, n))
  BY <1>5, <1>6
<1> HIDE DEF pairs
<1> QED
  BY <1>1, <1>9, <1>10, ConcatProperties
------------------------------------------------------------------------------
\* Keys has one key for each row.
LEMMA KeysDomain ==
  ASSUME NEW R, NEW rows \in Seq(R), NEW vars, NEW terms
  PROVE  LET m == Len(rows)
         IN  /\ m \in Nat
             /\ DOMAIN rows = 1..m
             /\ DOMAIN Keys(vars, terms, rows) = 1..m
             /\ Len(Keys(vars, terms, rows)) = m
<1> DEFINE m == Len(rows)
           key(i) == Key(vars, terms, rows[i])
<1>1. m \in Nat /\ DOMAIN rows = 1..m
  OBVIOUS
<1>2. Keys(vars, terms, rows) = [i \in 1..m |-> key(i)]
  BY <1>1 DEF Keys
<1> HIDE DEF key, m
<1>3. Len([i \in 1..m |-> key(i)]) = m
  BY <1>1
<1> QED
  BY <1>1, <1>2, <1>3 DEF m

\* A later literal joins its facts with the rows so far.
LEMMA NextTyped ==
  ASSUME NEW D, Null \in D,
         NEW dest \in Seq(TermsOver(D)), NEW left \in Seq(AnyTerm), NEW tmp \in Seq(RowsOf(D, Len(left))),
         NEW lit, lit.terms \in Seq(AnyTerm), NEW pool \in Seq(FactsOf(D, Len(lit.terms))),
         NEW isTrue \in BOOLEAN, NEW functions
  PROVE  EvalSubgoalNext(left, tmp, lit, pool, dest, isTrue, functions) \in
           Seq(RowsOf(D, Len(Kept(dest, left, lit.terms))))
<1> DEFINE shared == Ascending(VarIds(left) \cap VarIds(lit.terms))
           selected == SelectAndMatch(lit, pool)
           P == {i \in DOMAIN selected : IsUnsafe(lit) \/ selected[i].match}
           accepted == ElementsAt(selected, P)
           rows == StableSort(tmp, shared, left)
           right == StableSort(accepted, shared, lit.terms)
           m == Len(rows)
           n == Len(right)
           lkeys == Keys(shared, left, rows)
           rkeys == Keys(shared, lit.terms, right)
           match == [j \in DOMAIN right |-> right[j].match]
           only == lit.set = {Unknown}
           pairs == IF IsUnsafe(lit) THEN MergeJoinUnknown(lkeys, rkeys, match, only)
                                     ELSE MergeJoin(lkeys, rkeys)
           Q == {k \in DOMAIN pairs :
                   AllFunctionsMatch(functions, left, lit.terms, rows[pairs[k][1]].terms,
                                     IF pairs[k][2] = 0 THEN << >> ELSE right[pairs[k][2]].terms)}
           matching == ElementsAt(pairs, Q)
           joined(p) ==
             IF p[2] = 0
             THEN [terms |-> LeftComplement(dest, left, lit.terms, rows[p[1]].terms),
                   value |-> ResolveTruthValue(rows[p[1]].value, isTrue)]
             ELSE [terms |-> Project(dest, left, lit.terms, rows[p[1]].terms, right[p[2]].terms),
                   value |-> ResolveTruthValue(
                               Conjunction(rows[p[1]].value, right[p[2]].value), isTrue)]
           kept == Len(Kept(dest, left, lit.terms))
<1>1. EvalSubgoalNext(left, tmp, lit, pool, dest, isTrue, functions) =
        [k \in DOMAIN matching |-> joined(matching[k])]
  BY Zenon DEF EvalSubgoalNext
<1>2. P \in SUBSET (DOMAIN selected) /\ Q \in SUBSET (DOMAIN pairs)
  OBVIOUS
<1> HIDE DEF P, Q, shared
<1>3. rows \in Seq(RowsOf(D, Len(left)))
  BY StableSortTyped
<1>4. right \in Seq(MatchedOf(D, Len(lit.terms)))
  <2>1. selected \in Seq(MatchedOf(D, Len(lit.terms)))
    BY SelectAndMatchTyped
  <2> HIDE DEF selected
  <2>2. accepted \in Seq(MatchedOf(D, Len(lit.terms)))
    BY <1>2, <2>1, ElementsAtFacts
  <2> HIDE DEF accepted
  <2> QED
    BY <2>2, StableSortTyped
<1> HIDE DEF rows, right
<1>5. m \in Nat /\ DOMAIN rows = 1..m /\ DOMAIN lkeys = 1..m /\ Len(lkeys) = m
  BY <1>3, KeysDomain
<1>6. n \in Nat /\ DOMAIN right = 1..n /\ DOMAIN rkeys = 1..n /\ Len(rkeys) = n
  BY <1>4, KeysDomain
<1> HIDE DEF lkeys, rkeys, match, only, m, n
<1>7. pairs \in Seq(LeftPairs(m, n))
  <2>1. MergeJoinUnknown(lkeys, rkeys, match, only) \in Seq(LeftPairs(m, n))
    BY <1>5, <1>6, MergeJoinUnknownFacts
  <2>2. MergeJoin(lkeys, rkeys) \in Seq(Rows2(m, n))
    BY <1>5, <1>6, MergeJoinFacts
  <2>3. Rows2(m, n) \subseteq LeftPairs(m, n)
    BY DEF Rows2, LeftPairs
  <2>4. MergeJoin(lkeys, rkeys) \in Seq(LeftPairs(m, n))
    BY <2>2, <2>3, SeqOfMore
  <2> QED
    BY <2>1, <2>4
<1> HIDE DEF pairs
<1>8. matching \in Seq(LeftPairs(m, n))
  BY <1>2, <1>7, ElementsAtFacts
<1> HIDE DEF matching
<1>9. ASSUME NEW p \in LeftPairs(m, n)
      PROVE  joined(p) \in RowsOf(D, kept)
  <2>1. p[1] \in DOMAIN rows /\ (p[2] # 0 => p[2] \in DOMAIN right)
    BY <1>5, <1>6 DEF LeftPairs
  <2>2. rows[p[1]].terms \in RowTerms(D, Len(left)) /\ rows[p[1]].value \in KnownValue
    <3>1. rows[p[1]] \in RowsOf(D, Len(left))
      BY <1>3, <2>1
    <3> QED
      BY <3>1 DEF RowsOf, KnownValue
  <2>3. CASE p[2] = 0
    <3>1. LeftComplement(dest, left, lit.terms, rows[p[1]].terms) \in RowTerms(D, kept)
      BY <2>2, LeftComplementTyped
    <3>2. Incons \in {Incons, True}
      OBVIOUS
    <3>3. ResolveTruthValue(rows[p[1]].value, isTrue) \in KnownValue
      BY <2>2, <3>2, ConnectivesOnKnown
    <3> HIDE DEF kept
    <3> QED
      BY <2>3, <3>1, <3>3 DEF RowsOf, KnownValue
  <2>4. CASE p[2] # 0
    <3>1. right[p[2]].terms \in RowTerms(D, Len(lit.terms)) /\ right[p[2]].value \in {Incons, True}
      <4>1. right[p[2]] \in MatchedOf(D, Len(lit.terms))
        BY <1>4, <2>1, <2>4
      <4> QED
        BY <4>1 DEF MatchedOf
    <3>2. Project(dest, left, lit.terms, rows[p[1]].terms, right[p[2]].terms) \in RowTerms(D, kept)
      BY <2>2, <3>1, ProjectTyped
    <3>3. ResolveTruthValue(Conjunction(rows[p[1]].value, right[p[2]].value), isTrue) \in KnownValue
      BY <2>2, <3>1, ConnectivesOnKnown
    <3> HIDE DEF kept
    <3> QED
      BY <2>4, <3>2, <3>3 DEF RowsOf, KnownValue
  <2> QED
    BY <2>3, <2>4
<1> HIDE DEF joined, kept
<1>10. Len(matching) \in Nat /\ DOMAIN matching = 1..Len(matching)
       /\ \A k \in DOMAIN matching : matching[k] \in LeftPairs(m, n)
  BY <1>8
<1>11. [k \in DOMAIN matching |-> joined(matching[k])] \in Seq(RowsOf(D, kept))
  BY <1>9, <1>10
<1> QED
  BY <1>1, <1>11 DEF kept

\* Two disjuncts are joined.  The index of a shared variable on the left has
\* to be one of the row on the right.
LEMMA NextDisjunctionTyped ==
  ASSUME NEW D, Null \in D,
         NEW dest \in Seq(TermsOver(D)), NEW left \in Seq(AnyTerm), NEW tmp \in Seq(RowsOf(D, Len(left))),
         NEW right \in Seq(AnyTerm), NEW results \in Seq(RowsOf(D, Len(right))), NEW isTrue \in BOOLEAN,
         \A v \in VarIds(left) \cap VarIds(right) : FrontIndex(left, v) <= Len(right)
  PROVE  EvalNextDisjunction(left, tmp, right, results, dest, isTrue) \in
           Seq(RowsOf(D, Len(Kept(dest, left, right))))
<1> DEFINE shared == Ascending(VarIds(left) \cap VarIds(right))
           P == {i \in DOMAIN results : results[i].value \in {True, Incons}}
           accepted == ElementsAt(results, P)
           rows == StableSort(tmp, shared, left)
           news == StableSort(accepted, shared, right)
           m == Len(rows)
           n == Len(news)
           lkeys == Keys(shared, left, rows)
           rkeys == Keys(shared, right, news)
           pairs == MergeOuterJoin(lkeys, rkeys)
           joined(p) ==
             CASE p[2] = 0 -> [terms |-> LeftComplement(dest, left, right, rows[p[1]].terms),
                               value |-> rows[p[1]].value]
               [] p[1] = 0 -> [terms |-> RighComplement(dest, left, right, news[p[2]].terms),
                               value |-> ResolveTruthValue(news[p[2]].value, isTrue)]
               [] OTHER -> [terms |-> Project(dest, left, right, rows[p[1]].terms, news[p[2]].terms),
                            value |-> ResolveTruthValue(
                                        Disjunction(rows[p[1]].value, news[p[2]].value), isTrue)]
           kept == Len(Kept(dest, left, right))
           Accepted == [terms : RowTerms(D, Len(right)), value : {Incons, True}]
<1>1. EvalNextDisjunction(left, tmp, right, results, dest, isTrue) =
        [k \in DOMAIN pairs |-> joined(pairs[k])]
  BY Zenon DEF EvalNextDisjunction
<1>2. P \in SUBSET (DOMAIN results) /\ \A i \in P : results[i].value \in {True, Incons}
  OBVIOUS
<1> HIDE DEF P, shared
<1>3. rows \in Seq(RowsOf(D, Len(left)))
  BY StableSortTyped
<1>4. news \in Seq(Accepted)
  <2>1. /\ accepted \in Seq(RowsOf(D, Len(right)))
        /\ \A k \in DOMAIN accepted : \E i \in P : accepted[k] = results[i]
    BY <1>2, ElementsAtFacts
  <2> HIDE DEF accepted
  <2>2. \A k \in DOMAIN accepted : accepted[k] \in Accepted
    <3> TAKE k \in DOMAIN accepted
    <3>1. accepted[k] \in RowsOf(D, Len(right))
      BY <2>1
    <3>2. accepted[k].value \in {Incons, True}
      BY <1>2, <2>1
    <3> QED
      BY <3>1, <3>2 DEF RowsOf
  <2>3. accepted \in Seq(Accepted)
    <3>1. Len(accepted) \in Nat /\ DOMAIN accepted = 1..Len(accepted)
          /\ accepted = [k \in DOMAIN accepted |-> accepted[k]]
      BY <2>1
    <3> HIDE DEF Accepted
    <3>2. accepted \in [1..Len(accepted) -> Accepted]
      BY <2>2, <3>1
    <3> QED
      BY <3>1, <3>2, SeqDef
  <2> HIDE DEF Accepted
  <2> QED
    BY <2>3, StableSortTyped
<1> HIDE DEF rows, news, Accepted
<1>5. m \in Nat /\ DOMAIN rows = 1..m /\ DOMAIN lkeys = 1..m /\ Len(lkeys) = m
  BY <1>3, KeysDomain
<1>6. n \in Nat /\ DOMAIN news = 1..n /\ DOMAIN rkeys = 1..n /\ Len(rkeys) = n
  BY <1>4, KeysDomain
<1> HIDE DEF lkeys, rkeys, m, n
<1>7. pairs \in Seq(OuterPairs(m, n))
  BY <1>5, <1>6, MergeOuterJoinFacts
<1> HIDE DEF pairs
<1>8. ASSUME NEW i \in DOMAIN rows
      PROVE  rows[i].terms \in RowTerms(D, Len(left)) /\ rows[i].value \in KnownValue
  <2>1. rows[i] \in RowsOf(D, Len(left))
    BY <1>3
  <2> QED
    BY <2>1 DEF RowsOf, KnownValue
<1>9. ASSUME NEW i \in DOMAIN news
      PROVE  news[i].terms \in RowTerms(D, Len(right)) /\ news[i].value \in {Incons, True}
  <2>1. news[i] \in Accepted
    BY <1>4
  <2> QED
    BY <2>1 DEF Accepted
<1>10. ASSUME NEW p \in OuterPairs(m, n)
       PROVE  joined(p) \in RowsOf(D, kept)
  <2>1. /\ p[1] # 0 => p[1] \in DOMAIN rows
        /\ p[2] # 0 => p[2] \in DOMAIN news
        /\ p[1] # 0 \/ p[2] # 0
    BY <1>5, <1>6 DEF OuterPairs
  <2>2. CASE p[2] = 0
    <3>1. LeftComplement(dest, left, right, rows[p[1]].terms) \in RowTerms(D, kept)
      BY <1>8, <2>1, <2>2, LeftComplementTyped
    <3>2. rows[p[1]].value \in KnownValue
      BY <1>8, <2>1, <2>2
    <3>3. joined(p) = [terms |-> LeftComplement(dest, left, right, rows[p[1]].terms),
                       value |-> rows[p[1]].value]
      BY <2>1, <2>2
    <3> HIDE DEF kept, joined
    <3> QED
      BY <3>1, <3>2, <3>3 DEF RowsOf, KnownValue
  <2>3. CASE p[2] # 0 /\ p[1] = 0
    <3>1. RighComplement(dest, left, right, news[p[2]].terms) \in RowTerms(D, kept)
      BY <1>9, <2>1, <2>3, RighComplementTyped
    <3>2. news[p[2]].value \in KnownValue /\ Incons \in {Incons, True}
      BY <1>9, <2>1, <2>3 DEF KnownValue
    <3>3. ResolveTruthValue(news[p[2]].value, isTrue) \in KnownValue
      BY <3>2, ConnectivesOnKnown
    <3>4. joined(p) = [terms |-> RighComplement(dest, left, right, news[p[2]].terms),
                       value |-> ResolveTruthValue(news[p[2]].value, isTrue)]
      BY <2>3
    <3> HIDE DEF kept, joined
    <3> QED
      BY <3>1, <3>3, <3>4 DEF RowsOf, KnownValue
  <2>4. CASE p[2] # 0 /\ p[1] # 0
    <3>1. Project(dest, left, right, rows[p[1]].terms, news[p[2]].terms) \in RowTerms(D, kept)
      BY <1>8, <1>9, <2>1, <2>4, ProjectTyped
    <3>2. rows[p[1]].value \in KnownValue /\ news[p[2]].value \in {Incons, True}
      BY <1>8, <1>9, <2>1, <2>4
    <3>3. ResolveTruthValue(Disjunction(rows[p[1]].value, news[p[2]].value), isTrue) \in KnownValue
      BY <3>2, ConnectivesOnKnown
    <3>4. joined(p) = [terms |-> Project(dest, left, right, rows[p[1]].terms, news[p[2]].terms),
                       value |-> ResolveTruthValue(
                                   Disjunction(rows[p[1]].value, news[p[2]].value), isTrue)]
      BY <2>4
    <3> HIDE DEF kept, joined
    <3> QED
      BY <3>1, <3>3, <3>4 DEF RowsOf, KnownValue
  <2> QED
    BY <2>2, <2>3, <2>4
<1> HIDE DEF joined, kept
<1>11. Len(pairs) \in Nat /\ DOMAIN pairs = 1..Len(pairs)
       /\ \A k \in DOMAIN pairs : pairs[k] \in OuterPairs(m, n)
  BY <1>7
<1>12. [k \in DOMAIN pairs |-> joined(pairs[k])] \in Seq(RowsOf(D, kept))
  BY <1>10, <1>11
<1> QED
  BY <1>1, <1>12 DEF kept
------------------------------------------------------------------------------
\* The variables of some literals.
BodyIds(literals) == UNION {VarIds(literals[k].terms) : k \in DOMAIN literals}

\* The terms that are kept where these variables are known.
Having(dest, ids) == ElementsAt(dest, {i \in DOMAIN dest : dest[i].isVar => dest[i].id \in ids})

VariableTerms == {t \in AnyTerm : t.isVar}

\* What is kept of some terms are the constants and the variables known.
LEMMA HavingFacts ==
  ASSUME NEW E \in SUBSET AnyTerm, NEW dest \in Seq(E), NEW ids
  PROVE  /\ Having(dest, ids) \in Seq(E)
         /\ VarIds(dest) \subseteq ids => Len(Having(dest, ids)) = Len(dest)
         /\ VarIds(Having(dest, ids)) = VarIds(dest) \cap ids
<1> DEFINE P == {i \in DOMAIN dest : dest[i].isVar => dest[i].id \in ids}
           kept == ElementsAt(dest, P)
<1>1. Having(dest, ids) = kept
  BY DEF Having
<1>2. P \in SUBSET (DOMAIN dest)
  OBVIOUS
<1>3. \A i \in DOMAIN dest : i \in P <=> (dest[i].isVar => dest[i].id \in ids)
  OBVIOUS
<1> HIDE DEF P
<1>4. /\ kept \in Seq(E)
      /\ P = DOMAIN dest => Len(kept) = Len(dest)
      /\ \A k \in DOMAIN kept : \E i \in P : kept[k] = dest[i]
      /\ \A i \in P : \E k \in DOMAIN kept : kept[k] = dest[i]
  BY <1>2, ElementsAtFacts
<1> HIDE DEF kept
<1>5. VarIds(dest) \subseteq ids => P = DOMAIN dest
  BY <1>2, <1>3 DEF VarIds
<1>6. VarIds(kept) \subseteq VarIds(dest) \cap ids
  <2> SUFFICES ASSUME NEW v \in VarIds(kept)
               PROVE  v \in VarIds(dest) \cap ids
    OBVIOUS
  <2>1. PICK k \in DOMAIN kept : kept[k].isVar /\ v = kept[k].id
    BY DEF VarIds
  <2>2. PICK i \in P : kept[k] = dest[i]
    BY <1>4
  <2> QED
    BY <1>2, <1>3, <2>1, <2>2 DEF VarIds
<1>7. VarIds(dest) \cap ids \subseteq VarIds(kept)
  <2> SUFFICES ASSUME NEW v \in VarIds(dest) \cap ids
               PROVE  v \in VarIds(kept)
    OBVIOUS
  <2>1. PICK i \in DOMAIN dest : dest[i].isVar /\ v = dest[i].id
    BY DEF VarIds
  <2>2. i \in P
    BY <1>3, <2>1
  <2>3. PICK k \in DOMAIN kept : kept[k] = dest[i]
    BY <1>4, <2>2
  <2> QED
    BY <2>1, <2>3 DEF VarIds
<1> QED
  BY <1>1, <1>4, <1>5, <1>6, <1>7

\* The projections keep the variables of either side.
LEMMA KeptIsHaving ==
  ASSUME NEW dest, NEW left, NEW right
  PROVE  Kept(dest, left, right) = Having(dest, VarIds(left) \cup VarIds(right))
BY DEF Kept, Having

\* The temporary relation has the variables of the literals so far.
LEMMA SeenFacts ==
  ASSUME NEW vars \in Seq(VariableTerms), NEW literals
  PROVE  /\ Seen(vars, literals) = Having(vars, BodyIds(literals))
         /\ Seen(vars, literals) \in Seq(VariableTerms)
         /\ VarIds(Seen(vars, literals)) = VarIds(vars) \cap BodyIds(literals)
<1> DEFINE P == {i \in DOMAIN vars : vars[i].isVar => vars[i].id \in BodyIds(literals)}
           Q == {i \in DOMAIN vars : \E k \in DOMAIN literals : vars[i].id \in VarIds(literals[k].terms)}
<1>1. \A i \in DOMAIN vars : vars[i] \in VariableTerms
  OBVIOUS
<1>2. \A i \in DOMAIN vars : vars[i].isVar
  BY <1>1 DEF VariableTerms
<1>3. P = Q
  BY <1>2 DEF BodyIds
<1>4. Seen(vars, literals) = ElementsAt(vars, Q) /\ Having(vars, BodyIds(literals)) = ElementsAt(vars, P)
  BY DEF Seen, Having
<1> HIDE DEF P, Q
<1>5. Seen(vars, literals) = Having(vars, BodyIds(literals))
  BY <1>3, <1>4
<1>6. VariableTerms \in SUBSET AnyTerm
  BY DEF VariableTerms
<1> QED
  BY <1>5, <1>6, HavingFacts

\* VariableTerms are terms whatever the constants.
LEMMA VariablesAreTerms ==
  ASSUME NEW D, NEW vars \in Seq(VariableTerms)
  PROVE  vars \in Seq(TermsOver(D)) /\ vars \in Seq(AnyTerm)
<1>1. VariableTerms \subseteq TermsOver(D) /\ VariableTerms \subseteq AnyTerm
  BY DEF VariableTerms, TermsOver
<1> QED
  BY <1>1, SeqOfMore

\* Terms over some constants are terms.
LEMMA TermsAreTerms ==
  ASSUME NEW D, NEW terms \in Seq(TermsOver(D))
  PROVE  terms \in Seq(AnyTerm)
<1>1. TermsOver(D) \subseteq AnyTerm
  BY DEF TermsOver
<1> QED
  BY <1>1, SeqOfMore

\* MakeVarsCounter counts all variables of the rule.
LEMMA VarsOfFacts ==
  ASSUME NEW L, \A lit \in L : lit.terms \in Seq(AnyTerm),
         NEW head \in Seq(AnyTerm), NEW literals \in Seq(L)
  PROVE  /\ VarsOf(head, literals) \in Seq(VariableTerms)
         /\ VarIds(head) \cup BodyIds(literals) \subseteq VarIds(VarsOf(head, literals))
<1> DEFINE lists == <<head>> \o [k \in DOMAIN literals |-> literals[k].terms]
           all == FlattenSeq(lists)
           P == {i \in DOMAIN all : all[i].isVar /\ i = FrontIndex(all, all[i].id)}
           vars == ElementsAt(all, P)
<1>1. VarsOf(head, literals) = vars
  BY DEF VarsOf
<1>2. /\ lists \in Seq(Seq(AnyTerm))
      /\ 1 \in DOMAIN lists /\ lists[1] = head
      /\ \A k \in DOMAIN literals : k + 1 \in DOMAIN lists /\ lists[k + 1] = literals[k].terms
  <2>1. \A k \in DOMAIN literals : literals[k] \in L
    OBVIOUS
  <2>2. \A k \in DOMAIN literals : literals[k].terms \in Seq(AnyTerm)
    BY <2>1
  <2> DEFINE terms == [k \in DOMAIN literals |-> literals[k].terms]
             first == <<head>>
  <2>3. /\ terms \in Seq(Seq(AnyTerm)) /\ DOMAIN terms = DOMAIN literals /\ DOMAIN terms = 1..Len(terms)
        /\ \A k \in DOMAIN literals : terms[k] = literals[k].terms
    BY <2>2
  <2>4. first \in Seq(Seq(AnyTerm)) /\ Len(first) = 1 /\ first[1] = head
    OBVIOUS
  <2> HIDE DEF terms, first
  <2>5. first \o terms \in Seq(Seq(AnyTerm)) /\ Len(first \o terms) = Len(first) + Len(terms)
        /\ \A i \in 1..Len(first) + Len(terms) :
             (first \o terms)[i] = IF i <= Len(first) THEN first[i] ELSE terms[i - Len(first)]
    BY <2>3, <2>4, ConcatProperties
  <2>6. Len(terms) \in Nat /\ DOMAIN (first \o terms) = 1..1 + Len(terms)
    BY <2>3, <2>4, <2>5
  <2>7. (first \o terms)[1] = head
    BY <2>4, <2>5, <2>6
  <2>8. \A k \in DOMAIN literals : k + 1 \in DOMAIN (first \o terms)
                                   /\ (first \o terms)[k + 1] = literals[k].terms
    BY <2>3, <2>4, <2>5, <2>6
  <2> QED
    BY <2>5, <2>6, <2>7, <2>8 DEF first, terms
<1> HIDE DEF lists
<1>3. /\ all \in Seq(AnyTerm)
      /\ \A d \in DOMAIN lists : \A j \in DOMAIN lists[d] :
           \E i \in DOMAIN all : all[i] = lists[d][j]
  BY <1>2, FlattenFacts
<1>4. P \in SUBSET (DOMAIN all)
  OBVIOUS
<1>5. \A i \in DOMAIN all : i \in P <=> all[i].isVar /\ i = FrontIndex(all, all[i].id)
  OBVIOUS
<1> HIDE DEF all, P
<1>6. /\ vars \in Seq(AnyTerm)
      /\ \A k \in DOMAIN vars : \E i \in P : vars[k] = all[i]
      /\ \A i \in P : \E k \in DOMAIN vars : vars[k] = all[i]
  BY <1>3, <1>4, ElementsAtFacts
<1> HIDE DEF vars
<1>7. vars \in Seq(VariableTerms)
  <2>1. \A k \in DOMAIN vars : vars[k] \in AnyTerm
    BY <1>6
  <2>2. \A k \in DOMAIN vars : vars[k].isVar
    BY <1>4, <1>5, <1>6
  <2>3. \A k \in DOMAIN vars : vars[k] \in VariableTerms
    BY <2>1, <2>2 DEF VariableTerms
  <2>4. Len(vars) \in Nat /\ DOMAIN vars = 1..Len(vars) /\ vars = [k \in DOMAIN vars |-> vars[k]]
    BY <1>6
  <2>5. vars \in [1..Len(vars) -> VariableTerms]
    BY <2>3, <2>4
  <2> QED
    BY <2>4, <2>5, SeqDef
<1>8. VarIds(all) \subseteq VarIds(vars)
  <2> SUFFICES ASSUME NEW v \in VarIds(all)
               PROVE  v \in VarIds(vars)
    OBVIOUS
  <2> DEFINE i == FrontIndex(all, v)
  <2>1. i \in DOMAIN all /\ all[i] = Var(v)
    BY <1>3, FrontIndexFacts
  <2>2. all[i].isVar /\ all[i].id = v
    BY <2>1 DEF Var
  <2>3. i = FrontIndex(all, all[i].id)
    BY <2>2
  <2> HIDE DEF i
  <2>4. i \in P
    BY <1>5, <2>1, <2>2, <2>3
  <2>5. PICK k \in DOMAIN vars : vars[k] = all[i]
    BY <1>6, <2>4
  <2> QED
    BY <2>2, <2>5 DEF VarIds
<1>9. \A d \in DOMAIN lists : VarIds(lists[d]) \subseteq VarIds(all)
  <2> SUFFICES ASSUME NEW d \in DOMAIN lists, NEW v \in VarIds(lists[d])
               PROVE  v \in VarIds(all)
    OBVIOUS
  <2>1. PICK j \in DOMAIN lists[d] : lists[d][j].isVar /\ v = lists[d][j].id
    BY DEF VarIds
  <2>2. PICK i \in DOMAIN all : all[i] = lists[d][j]
    BY <1>3
  <2> QED
    BY <2>1, <2>2 DEF VarIds
<1>10. VarIds(head) \subseteq VarIds(vars)
  BY <1>2, <1>8, <1>9
<1>11. \A k \in DOMAIN literals : VarIds(literals[k].terms) \subseteq VarIds(vars)
  <2> TAKE k \in DOMAIN literals
  <2>1. k + 1 \in DOMAIN lists /\ lists[k + 1] = literals[k].terms
    BY <1>2
  <2> QED
    BY <1>8, <1>9, <2>1
<1>12. BodyIds(literals) \subseteq VarIds(vars)
  BY <1>11 DEF BodyIds
<1> QED
  BY <1>1, <1>7, <1>10, <1>12

\* The variables of a body, literal after literal.
LEMMA PrefixIds ==
  ASSUME NEW L, NEW body \in Seq(L)
  PROVE  /\ BodyIds(SubSeq(body, 1, 0)) = {}
         /\ \A k \in DOMAIN body : BodyIds(SubSeq(body, 1, k)) =
              BodyIds(SubSeq(body, 1, k - 1)) \cup VarIds(body[k].terms)
         /\ BodyIds(SubSeq(body, 1, Len(body))) = BodyIds(body)
<1> DEFINE n == Len(body)
           ids(i) == VarIds(body[i].terms)
<1>1. n \in Nat /\ DOMAIN body = 1..n
  OBVIOUS
<1>2. ASSUME NEW k \in 0..n
      PROVE  BodyIds(SubSeq(body, 1, k)) = UNION {ids(i) : i \in 1..k}
  <2> DEFINE prefix == SubSeq(body, 1, k)
  <2>1. DOMAIN prefix = 1..k /\ \A i \in 1..k : prefix[i] = body[i]
    BY <1>1
  <2> HIDE DEF prefix
  <2>2. BodyIds(prefix) = UNION {VarIds(prefix[i].terms) : i \in 1..k}
    BY <2>1 DEF BodyIds
  <2>3. \A i \in 1..k : VarIds(prefix[i].terms) = ids(i)
    BY <2>1
  <2> HIDE DEF ids
  <2>4. BodyIds(prefix) = UNION {ids(i) : i \in 1..k}
    BY <2>2, <2>3
  <2> QED
    BY <2>4 DEF prefix
<1>3. BodyIds(body) = UNION {ids(i) : i \in 1..n}
  BY <1>1 DEF BodyIds
<1> HIDE DEF ids
<1>4. BodyIds(SubSeq(body, 1, 0)) = {}
  BY <1>1, <1>2
<1>5. ASSUME NEW k \in 1..n
      PROVE  BodyIds(SubSeq(body, 1, k)) = BodyIds(SubSeq(body, 1, k - 1)) \cup ids(k)
  <2>1. k \in 0..n /\ k - 1 \in 0..n /\ \A i \in Int : i \in 1..k <=> i \in 1..k - 1 \/ i = k
    BY <1>1
  <2>2. /\ BodyIds(SubSeq(body, 1, k)) = UNION {ids(i) : i \in 1..k}
        /\ BodyIds(SubSeq(body, 1, k - 1)) = UNION {ids(i) : i \in 1..k - 1}
    BY <1>2, <2>1
  <2> DEFINE all == 1..k
             before == 1..k - 1
  <2>3. \A i : i \in all <=> i \in before \/ i = k
    BY <2>1
  <2> HIDE DEF all, before
  <2>4. UNION {ids(i) : i \in all} = (UNION {ids(i) : i \in before}) \cup ids(k)
    <3> DEFINE A == UNION {ids(i) : i \in all}
               B == UNION {ids(i) : i \in before}
    <3>1. \A v : v \in A <=> \E i \in all : v \in ids(i)
      OBVIOUS
    <3>2. \A v : v \in B <=> \E i \in before : v \in ids(i)
      OBVIOUS
    <3> HIDE DEF A, B
    <3>3. \A v : v \in A <=> v \in B \/ v \in ids(k)
      BY <2>3, <3>1, <3>2
    <3>4. A = B \cup ids(k)
      BY <3>3
    <3> QED
      BY <3>4 DEF A, B
  <2> QED
    BY <2>2, <2>4 DEF all, before
<1>6. BodyIds(SubSeq(body, 1, n)) = BodyIds(body)
  <2>1. n \in 0..n
    BY <1>1
  <2> QED
    BY <1>2, <1>3, <2>1
<1> QED
  BY <1>1, <1>4, <1>5, <1>6 DEF ids

\* A disjunct makes rows of the terms of dest that its literals have.
LEMMA DisjunctTyped ==
  ASSUME NEW D, Null \in D, NEW L, \A lit \in L : lit.terms \in Seq(AnyTerm),
         NEW disjunct, disjunct.body \in Seq(L), disjunct.body # << >>,
         NEW pools, \A k \in DOMAIN disjunct.body :
                      pools[k] \in Seq(FactsOf(D, Len(disjunct.body[k].terms))),
         NEW dest \in Seq(TermsOver(D)), NEW isTrue \in BOOLEAN
  PROVE  EvalDisjunct(disjunct, pools, dest, isTrue) \in
           Seq(RowsOf(D, Len(Having(dest, BodyIds(disjunct.body)))))
<1> DEFINE body == disjunct.body
           functions == disjunct.functions
           n == Len(body)
           vars == VarsOf(dest, body)
           destOf(k) == IF k = n THEN dest ELSE vars
           known(k) == BodyIds(SubSeq(body, 1, k))
           T == [k \in 1..n |-> Seq(RowsOf(D, Len(Having(destOf(k), known(k)))))]
           first == EvalSubgoalFirst(body[1], pools[1], IF n = 1 THEN dest ELSE vars, n = 1 => isTrue)
           next(x, k) ==
             EvalSubgoalNext(Seen(vars, SubSeq(body, 1, k - 1)), x, body[k], pools[k],
                             IF k = n THEN dest ELSE vars, k = n => isTrue,
                             IF k = n THEN functions ELSE << >>)
           V == UNION {T[k] : k \in 1..n}
           F == [p \in V \X (1..n) |-> next(p[1], p[2])]
           Eq(g) == [k \in 1..n |-> IF k = 1 THEN first ELSE next(g[k - 1], k)]
           tmp == CHOOSE g : g = Eq(g)
<1>1. EvalDisjunct(disjunct, pools, dest, isTrue) = tmp[n]
  BY Zenon DEF EvalDisjunct
<1>2. n \in Nat /\ n >= 1 /\ DOMAIN body = 1..n /\ 1 \in 1..n /\ n \in 1..n
  OBVIOUS
<1>3. \A k \in 1..n : body[k].terms \in Seq(AnyTerm) /\ pools[k] \in Seq(FactsOf(D, Len(body[k].terms)))
  BY <1>2
<1>4. dest \in Seq(AnyTerm)
  BY TermsAreTerms
<1>5. vars \in Seq(VariableTerms) /\ BodyIds(body) \subseteq VarIds(vars)
  BY <1>4, VarsOfFacts
<1>6. /\ known(0) = {} /\ known(n) = BodyIds(body)
      /\ \A k \in 1..n : known(k) = known(k - 1) \cup VarIds(body[k].terms)
  BY <1>2, PrefixIds
<1> HIDE DEF vars
<1>7. \A k \in 1..n : destOf(k) \in Seq(TermsOver(D))
  BY <1>5, VariablesAreTerms
<1>8. \A k \in 0..n : known(k) \subseteq BodyIds(body)
  <2> TAKE k \in 0..n
  <2>1. \A i \in 1..k : SubSeq(body, 1, k)[i] = body[i]
    BY <1>2
  <2>2. DOMAIN SubSeq(body, 1, k) = 1..k /\ 1..k \subseteq DOMAIN body
    BY <1>2
  <2> QED
    BY <2>1, <2>2 DEF BodyIds
<1>9. ASSUME NEW k \in 2..n
      PROVE  LET left == Seen(vars, SubSeq(body, 1, k - 1))
             IN  /\ left \in Seq(AnyTerm)
                 /\ VarIds(left) = known(k - 1)
                 /\ T[k - 1] = Seq(RowsOf(D, Len(left)))
  <2> DEFINE left == Seen(vars, SubSeq(body, 1, k - 1))
  <2>1. k - 1 \in 0..n /\ k - 1 \in 1..n /\ k - 1 # n
    BY <1>2
  <2>2. /\ left = Having(vars, known(k - 1))
        /\ left \in Seq(VariableTerms)
        /\ VarIds(left) = VarIds(vars) \cap known(k - 1)
    BY <1>5, SeenFacts
  <2>3. known(k - 1) \subseteq BodyIds(body)
    BY <1>8, <2>1
  <2>4. left \in Seq(AnyTerm)
    BY <2>2, VariablesAreTerms
  <2>5. destOf(k - 1) = vars
    BY <2>1
  <2> HIDE DEF known, left, destOf
  <2>6. T[k - 1] = Seq(RowsOf(D, Len(left)))
    BY <2>1, <2>2, <2>5
  <2> HIDE DEF T
  <2>7. VarIds(left) = known(k - 1)
    BY <1>5, <2>2, <2>3
  <2> QED
    BY <2>4, <2>6, <2>7 DEF left
<1>10. first \in T[1]
  <2>1. first \in Seq(RowsOf(D, Len(Kept(destOf(1), body[1].terms, << >>))))
    <3>1. first = EvalSubgoalFirst(body[1], pools[1], destOf(1), n = 1 => isTrue)
      OBVIOUS
    <3>2. (n = 1 => isTrue) \in BOOLEAN
      OBVIOUS
    <3>3. destOf(1) \in Seq(TermsOver(D)) /\ body[1].terms \in Seq(AnyTerm)
          /\ pools[1] \in Seq(FactsOf(D, Len(body[1].terms)))
      BY <1>2, <1>3, <1>7
    <3> HIDE DEF first, destOf
    <3> QED
      BY <3>1, <3>2, <3>3, FirstTyped
  <2>2. Kept(destOf(1), body[1].terms, << >>) = Having(destOf(1), known(1))
    <3>1. VarIds(<< >>) = {}
      BY DEF VarIds
    <3>2. known(1) = known(1 - 1) \cup VarIds(body[1].terms) /\ 1 - 1 = 0
      BY <1>2, <1>6
    <3>3. known(1) = VarIds(body[1].terms) \cup VarIds(<< >>)
      BY <1>6, <3>1, <3>2
    <3> HIDE DEF known, destOf
    <3> QED
      BY <3>3, KeptIsHaving
  <2> HIDE DEF known, destOf, first
  <2> QED
    BY <1>2, <2>1, <2>2
<1>11. ASSUME NEW k \in 2..n, NEW x \in T[k - 1]
       PROVE  next(x, k) \in T[k]
  <2> DEFINE left == Seen(vars, SubSeq(body, 1, k - 1))
             to == destOf(k)
             lit == body[k]
             pool == pools[k]
  <2>1. k \in 1..n
    BY <1>2
  <2>2. /\ left \in Seq(AnyTerm)
        /\ VarIds(left) = known(k - 1)
        /\ x \in Seq(RowsOf(D, Len(left)))
    BY <1>9
  <2>3. lit.terms \in Seq(AnyTerm) /\ pool \in Seq(FactsOf(D, Len(lit.terms)))
    BY <1>3, <2>1
  <2>4. to \in Seq(TermsOver(D))
    BY <1>7, <2>1
  <2>5. (k = n => isTrue) \in BOOLEAN
    OBVIOUS
  <2>6. Kept(to, left, lit.terms) = Having(to, known(k))
    <3>1. known(k) = known(k - 1) \cup VarIds(lit.terms)
      BY <1>6, <2>1
    <3> HIDE DEF known, to, left
    <3> QED
      BY <2>2, <3>1, KeptIsHaving
  <2>7. T[k] = Seq(RowsOf(D, Len(Having(to, known(k)))))
    BY <2>1
  <2>8. next(x, k) = EvalSubgoalNext(left, x, lit, pool, to, k = n => isTrue,
                                     IF k = n THEN functions ELSE << >>)
    OBVIOUS
  <2> HIDE DEF T, known, to, left, lit, pool, next, functions
  <2>9. EvalSubgoalNext(left, x, lit, pool, to, k = n => isTrue, IF k = n THEN functions ELSE << >>)
          \in Seq(RowsOf(D, Len(Kept(to, left, lit.terms))))
    BY <2>2, <2>3, <2>4, <2>5, NextTyped
  <2> QED
    BY <2>6, <2>7, <2>8, <2>9
<1> HIDE DEF T, first, next, known
<1>12. \A k \in 2..n : \A x \in T[k - 1] : F[<<x, k>>] = next(x, k)
  <2> TAKE k \in 2..n
  <2> TAKE x \in T[k - 1]
  <2>1. k \in 1..n /\ k - 1 \in 1..n
    BY <1>2
  <2>2. x \in V
    BY <2>1
  <2> HIDE DEF V
  <2> QED
    BY <2>1, <2>2
<1> HIDE DEF F, V
<1>13. ChainOf(n, T, first, F)
  BY <1>2, <1>10, <1>11, <1>12 DEF ChainOf
<1>14. PICK g : IsChain(g, n, T, first, F)
  BY <1>13, ChainExists
<1>15. g = Eq(g)
  <2>1. DOMAIN g = 1..n /\ g = [k \in 1..n |-> g[k]]
    BY <1>14 DEF IsChain
  <2>2. ASSUME NEW k \in 1..n
        PROVE  g[k] = IF k = 1 THEN first ELSE next(g[k - 1], k)
    <3>1. CASE k = 1
      BY <1>14, <3>1 DEF IsChain
    <3>2. CASE k # 1
      <4>1. k \in 2..n /\ k - 1 \in 1..n
        BY <1>2, <3>2
      <4>2. g[k] = F[<<g[k - 1], k>>] /\ g[k - 1] \in T[k - 1]
        BY <1>14, <4>1 DEF IsChain
      <4> QED
        BY <1>12, <3>2, <4>1, <4>2
    <3> QED
      BY <3>1, <3>2
  <2> QED
    BY <2>1, <2>2
<1>16. tmp = Eq(tmp)
  <2> HIDE DEF Eq
  <2> QED
    BY <1>15
<1> HIDE DEF tmp
<1>17. tmp[n] \in T[n]
  <2>1. tmp[1] = first
    BY <1>2, <1>16
  <2>2. ASSUME NEW k \in 2..n, tmp[k - 1] \in T[k - 1]
        PROVE  tmp[k] = F[<<tmp[k - 1], k>>]
    <3>1. k \in 1..n /\ k # 1
      BY <1>2
    <3>2. tmp[k] = next(tmp[k - 1], k)
      BY <1>16, <3>1
    <3> QED
      BY <1>12, <2>2, <3>2
  <2> QED
    BY <1>13, <2>1, <2>2, ChainTyped
<1>18. T[n] = Seq(RowsOf(D, Len(Having(dest, BodyIds(body)))))
  <2>1. T[n] = Seq(RowsOf(D, Len(Having(destOf(n), known(n)))))
    BY <1>2 DEF T
  <2> QED
    BY <1>6, <2>1
<1> QED
  BY <1>1, <1>17, <1>18

\* The variables of a rule, disjunct after disjunct.
LEMMA FlattenIds ==
  ASSUME NEW L, NEW bodies \in Seq(Seq(L))
  PROVE  BodyIds(FlattenSeq(bodies)) = UNION {BodyIds(bodies[d]) : d \in DOMAIN bodies}
<1> DEFINE all == FlattenSeq(bodies)
<1>1. /\ \A i \in DOMAIN all : \E d \in DOMAIN bodies : \E j \in DOMAIN bodies[d] : all[i] = bodies[d][j]
      /\ \A d \in DOMAIN bodies : \A j \in DOMAIN bodies[d] : \E i \in DOMAIN all : all[i] = bodies[d][j]
  BY FlattenFacts
<1> HIDE DEF all
<1>2. \A v : v \in BodyIds(all) <=> \E i \in DOMAIN all : v \in VarIds(all[i].terms)
  BY DEF BodyIds
<1>3. \A d \in DOMAIN bodies : \A v :
        v \in BodyIds(bodies[d]) <=> \E j \in DOMAIN bodies[d] : v \in VarIds(bodies[d][j].terms)
  BY DEF BodyIds
<1> DEFINE ids == UNION {BodyIds(bodies[d]) : d \in DOMAIN bodies}
<1>4. \A v : v \in ids <=> \E d \in DOMAIN bodies : v \in BodyIds(bodies[d])
  OBVIOUS
<1> HIDE DEF ids
<1>5. ASSUME NEW v
      PROVE  v \in BodyIds(all) <=> v \in ids
  <2>1. ASSUME v \in BodyIds(all)
        PROVE  v \in ids
    <3>1. PICK i \in DOMAIN all : v \in VarIds(all[i].terms)
      BY <1>2, <2>1
    <3>2. PICK d \in DOMAIN bodies : \E j \in DOMAIN bodies[d] : all[i] = bodies[d][j]
      BY <1>1
    <3> QED
      BY <1>3, <1>4, <3>1, <3>2
  <2>2. ASSUME v \in ids
        PROVE  v \in BodyIds(all)
    <3>1. PICK d \in DOMAIN bodies : v \in BodyIds(bodies[d])
      BY <1>4, <2>2
    <3>2. PICK j \in DOMAIN bodies[d] : v \in VarIds(bodies[d][j].terms)
      BY <1>3, <3>1
    <3>3. PICK i \in DOMAIN all : all[i] = bodies[d][j]
      BY <1>1
    <3> QED
      BY <1>2, <3>2, <3>3
  <2> QED
    BY <2>1, <2>2
<1>6. BodyIds(all) = ids
  BY <1>5
<1> QED
  BY <1>6 DEF all, ids

\* The variables of the first disjuncts.
LEMMA PrefixFlattenIds ==
  ASSUME NEW L, NEW bodies \in Seq(Seq(L))
  PROVE  /\ BodyIds(FlattenSeq(SubSeq(bodies, 1, 0))) = {}
         /\ \A d \in DOMAIN bodies : BodyIds(FlattenSeq(SubSeq(bodies, 1, d))) =
              BodyIds(FlattenSeq(SubSeq(bodies, 1, d - 1))) \cup BodyIds(bodies[d])
         /\ \A d \in DOMAIN bodies : BodyIds(bodies[d]) \subseteq BodyIds(FlattenSeq(bodies))
<1> DEFINE n == Len(bodies)
           prefix(d) == SubSeq(bodies, 1, d)
<1>1. n \in Nat /\ DOMAIN bodies = 1..n
  OBVIOUS
<1>2. ASSUME NEW d \in 0..n, NEW v
      PROVE  v \in BodyIds(FlattenSeq(prefix(d))) <=> \E e \in 1..d : v \in BodyIds(bodies[e])
  <2>1. prefix(d) \in Seq(Seq(L)) /\ DOMAIN prefix(d) = 1..d /\ \A e \in 1..d : prefix(d)[e] = bodies[e]
    BY <1>1
  <2> HIDE DEF prefix
  <2> DEFINE ids == UNION {BodyIds(prefix(d)[e]) : e \in DOMAIN prefix(d)}
  <2>2. BodyIds(FlattenSeq(prefix(d))) = ids
    BY <2>1, FlattenIds
  <2>3. v \in ids <=> \E e \in DOMAIN prefix(d) : v \in BodyIds(prefix(d)[e])
    OBVIOUS
  <2> HIDE DEF ids
  <2> QED
    BY <2>1, <2>2, <2>3
<1>3. prefix(n) = bodies
  <2>1. bodies = [i \in 1..n |-> bodies[i]] /\ \A i \in 1..n : prefix(n)[i] = bodies[i]
    BY <1>1
  <2>2. prefix(n) = [i \in 1..n |-> prefix(n)[i]]
    BY <1>1
  <2> HIDE DEF prefix, n
  <2> QED
    BY <2>1, <2>2
<1> HIDE DEF prefix
<1>4. BodyIds(FlattenSeq(prefix(0))) = {}
  <2>1. 0 \in 0..n /\ \A e : e \notin 1..0
    BY <1>1
  <2> QED
    BY <1>2, <2>1
<1>5. ASSUME NEW d \in 1..n
      PROVE  BodyIds(FlattenSeq(prefix(d))) = BodyIds(FlattenSeq(prefix(d - 1))) \cup BodyIds(bodies[d])
  <2> DEFINE before == d - 1
  <2>1. d \in 0..n /\ before \in 0..n /\ \A e : e \in 1..d <=> e \in 1..before \/ e = d
    BY <1>1
  <2> HIDE DEF before
  <2>2. \A v : v \in BodyIds(FlattenSeq(prefix(d))) <=>
                 v \in BodyIds(FlattenSeq(prefix(before))) \/ v \in BodyIds(bodies[d])
    BY <1>2, <2>1
  <2>3. BodyIds(FlattenSeq(prefix(d))) = BodyIds(FlattenSeq(prefix(before))) \cup BodyIds(bodies[d])
    BY <2>2
  <2> QED
    BY <2>3 DEF before
<1>6. ASSUME NEW d \in 1..n
      PROVE  BodyIds(bodies[d]) \subseteq BodyIds(FlattenSeq(bodies))
  <2>1. n \in 0..n /\ d \in 1..n
    BY <1>1
  <2> QED
    BY <1>2, <1>3, <2>1
<1> QED
  BY <1>1, <1>4, <1>5, <1>6 DEF prefix

------------------------------------------------------------------------------
\* A rule that can be evaluated, with constants in D and literals in L.
EvaluableRule(rule, D, L) ==
  LET vars == VarsOf(rule.head.terms, Literals(rule))
  IN  /\ rule.head.terms \in Seq(TermsOver(D)) /\ rule.head.isTrue \in BOOLEAN
      /\ \A lit \in L : lit.terms \in Seq(AnyTerm)
      /\ (\E S : rule.disjuncts \in Seq(S)) /\ rule.disjuncts # << >>
      /\ \A d \in DOMAIN rule.disjuncts :
           rule.disjuncts[d].body \in Seq(L) /\ rule.disjuncts[d].body # << >>
      /\ VarIds(rule.head.terms) \subseteq BodyIds(Literals(rule))
      /\ \A d \in DOMAIN rule.disjuncts :
           LET left  == Seen(vars, LiteralsOf(SubSeq(rule.disjuncts, 1, d - 1)))
               right == Seen(vars, rule.disjuncts[d].body)
           IN  \A v \in VarIds(left) \cap VarIds(right) : FrontIndex(left, v) <= Len(right)

\* The pools of its literals.
PoolsFor(rule, pools, D) ==
  /\ \E P : pools \in Seq(P)
  /\ Len(pools) = Len(Literals(rule))
  /\ \A k \in DOMAIN Literals(rule) : pools[k] \in Seq(FactsOf(D, Len(Literals(rule)[k].terms)))

\* Whatever the rule and the pools its literals read, the evaluation gives rows
\* of the head's length, of constants that occur, each True, False or Incons
\* (EvalRule.cc, EvalSubgoal.cc).
THEOREM RuleTyped ==
  ASSUME NEW D, Null \in D, NEW L, NEW rule, EvaluableRule(rule, D, L),
         NEW pools, PoolsFor(rule, pools, D)
  PROVE  EvalRule(rule, pools) \in Seq(RowsOf(D, Len(rule.head.terms)))
<1> DEFINE head == rule.head.terms
           disjuncts == rule.disjuncts
           literals == Literals(rule)
           bodies == [d \in DOMAIN disjuncts |-> disjuncts[d].body]
           n == Len(disjuncts)
           vars == VarsOf(head, literals)
           destOf(d) == IF d = n THEN head ELSE vars
           before(d) == LiteralsOf(SubSeq(disjuncts, 1, d - 1))
           poolsOf(d) == SubSeq(pools, Len(before(d)) + 1, Len(before(d)) + Len(disjuncts[d].body))
           result(d) == EvalDisjunct(disjuncts[d], poolsOf(d), IF n = 1 THEN head ELSE vars,
                                     n = 1 => rule.head.isTrue)
           results == [d \in 1..n |-> result(d)]
           known(d) == BodyIds(LiteralsOf(SubSeq(disjuncts, 1, d)))
           T == [d \in 1..n |-> Seq(RowsOf(D, Len(Having(destOf(d), known(d)))))]
           first == results[1]
           next(x, d) ==
             EvalNextDisjunction(Seen(vars, before(d)), x, Seen(vars, disjuncts[d].body), results[d],
                                 IF d = n THEN head ELSE vars, d = n => rule.head.isTrue)
           V == UNION {T[d] : d \in 1..n}
           F == [p \in V \X (1..n) |-> next(p[1], p[2])]
           Eq(g) == [d \in 1..n |-> IF d = 1 THEN first ELSE next(g[d - 1], d)]
           tmp == CHOOSE g : g = Eq(g)
<1>1. EvalRule(rule, pools) = tmp[n]
  BY Zenon DEF EvalRule
<1>2. /\ head \in Seq(TermsOver(D)) /\ rule.head.isTrue \in BOOLEAN
      /\ \A lit \in L : lit.terms \in Seq(AnyTerm)
      /\ \A d \in DOMAIN disjuncts : disjuncts[d].body \in Seq(L) /\ disjuncts[d].body # << >>
      /\ VarIds(head) \subseteq BodyIds(literals)
      /\ \A d \in DOMAIN disjuncts :
           \A v \in VarIds(Seen(vars, before(d))) \cap VarIds(Seen(vars, disjuncts[d].body)) :
             FrontIndex(Seen(vars, before(d)), v) <= Len(Seen(vars, disjuncts[d].body))
  BY Zenon DEF EvaluableRule
<1>3. PICK S : disjuncts \in Seq(S)
  BY DEF EvaluableRule
<1>4. n \in Nat /\ n >= 1 /\ DOMAIN disjuncts = 1..n /\ 1 \in 1..n /\ n \in 1..n
  <2>1. disjuncts # << >>
    BY DEF EvaluableRule
  <2> QED
    BY <1>3, <2>1
<1>5. /\ bodies \in Seq(Seq(L)) /\ Len(bodies) = n /\ DOMAIN bodies = 1..n
      /\ \A d \in 1..n : bodies[d] = disjuncts[d].body
  <2> HIDE DEF n
  <2> QED
    BY <1>2, <1>4
<1>6. \A d \in 0..n : LiteralsOf(SubSeq(disjuncts, 1, d)) = FlattenSeq(SubSeq(bodies, 1, d))
  <2> SUFFICES ASSUME NEW d \in 0..n
               PROVE  LiteralsOf(SubSeq(disjuncts, 1, d)) = FlattenSeq(SubSeq(bodies, 1, d))
    OBVIOUS
  <2> DEFINE part == SubSeq(disjuncts, 1, d)
             bodiesOf == [i \in DOMAIN part |-> part[i].body]
             prefix == SubSeq(bodies, 1, d)
  <2>1. DOMAIN part = 1..d /\ \A i \in 1..d : part[i] = disjuncts[i] /\ i \in 1..n
    BY <1>3, <1>4
  <2>2. prefix = [i \in 1..d |-> bodies[i]]
    <3> HIDE DEF bodies, n
    <3> QED
      BY <1>4, <1>5
  <2>3. LiteralsOf(part) = FlattenSeq(bodiesOf)
    BY DEF LiteralsOf
  <2> HIDE DEF part, bodies, prefix, n
  <2>4. bodiesOf = [i \in 1..d |-> bodies[i]]
    BY <1>5, <2>1
  <2> QED
    BY <2>2, <2>3, <2>4 DEF part, prefix
<1>7. literals = FlattenSeq(bodies) /\ literals = LiteralsOf(SubSeq(disjuncts, 1, n))
  <2>1. SubSeq(disjuncts, 1, n) = disjuncts
    BY <1>3, WholePrefix
  <2> HIDE DEF bodies, n
  <2>2. SubSeq(bodies, 1, n) = bodies
    BY <1>5, WholePrefix
  <2>3. n \in 0..n
    BY <1>4
  <2> QED
    BY <1>6, <2>1, <2>2, <2>3 DEF Literals
<1> HIDE DEF bodies
<1>8. /\ literals \in Seq(L)
      /\ \A d \in 1..n : \A j \in DOMAIN bodies[d] :
           /\ Len(before(d)) + j \in DOMAIN literals
           /\ literals[Len(before(d)) + j] = disjuncts[d].body[j]
  <2>1. literals \in Seq(L)
    BY <1>5, <1>7, FlattenFacts
  <2> SUFFICES ASSUME NEW d \in 1..n, NEW j \in DOMAIN bodies[d]
               PROVE  /\ Len(before(d)) + j \in DOMAIN literals
                      /\ literals[Len(before(d)) + j] = disjuncts[d].body[j]
    BY <2>1
  <2>2. before(d) = FlattenSeq(SubSeq(bodies, 1, d - 1))
    <3>1. d - 1 \in 0..n
      BY <1>4
    <3> QED
      BY <1>6, <3>1
  <2>3. LET i == Len(FlattenSeq(SubSeq(bodies, 1, d - 1))) + j
        IN  i \in DOMAIN FlattenSeq(bodies) /\ FlattenSeq(bodies)[i] = bodies[d][j]
    <3>1. d \in DOMAIN bodies
      BY <1>5
    <3>2. bodies \in Seq(Seq(L))
      BY <1>5
    <3>3. \A e \in DOMAIN bodies : \A k \in DOMAIN bodies[e] :
            LET i == Len(FlattenSeq(SubSeq(bodies, 1, e - 1))) + k
            IN  i \in DOMAIN FlattenSeq(bodies) /\ FlattenSeq(bodies)[i] = bodies[e][k]
      BY <3>2, FlattenFacts
    <3> QED
      BY <3>1, <3>3, Zenon
  <2> HIDE DEF before, literals, n
  <2> QED
    BY <1>5, <1>7, <2>2, <2>3
<1>9. /\ known(0) = {} /\ known(n) = BodyIds(literals)
      /\ \A d \in 1..n : known(d) = known(d - 1) \cup BodyIds(disjuncts[d].body)
      /\ \A d \in 1..n : BodyIds(disjuncts[d].body) \subseteq BodyIds(literals)
  <2> DEFINE ids(d) == BodyIds(FlattenSeq(SubSeq(bodies, 1, d)))
  <2>1. /\ ids(0) = {}
        /\ \A d \in DOMAIN bodies : ids(d) = ids(d - 1) \cup BodyIds(bodies[d])
        /\ \A d \in DOMAIN bodies : BodyIds(bodies[d]) \subseteq BodyIds(FlattenSeq(bodies))
    BY <1>5, PrefixFlattenIds
  <2>2. \A d \in 0..n : known(d) = ids(d)
    BY <1>6
  <2>3. known(n) = BodyIds(literals)
    BY <1>7
  <2>4. 0 \in 0..n /\ \A d \in 1..n : d \in 0..n /\ d - 1 \in 0..n
    BY <1>4
  <2> HIDE DEF known, ids, literals, n
  <2> QED
    BY <1>5, <1>7, <2>1, <2>2, <2>3, <2>4
<1>10. vars \in Seq(VariableTerms) /\ BodyIds(literals) \subseteq VarIds(vars)
  <2>1. head \in Seq(AnyTerm)
    BY <1>2, TermsAreTerms
  <2> HIDE DEF head, literals
  <2> QED
    BY <1>2, <1>8, <2>1, VarsOfFacts
<1>11. \A d \in 0..n : known(d) \subseteq BodyIds(literals)
  <2> DEFINE U == {d \in 0..n : known(d) \subseteq BodyIds(literals)}
  <2> HIDE DEF known, literals
  <2>1. 0 \in U
    BY <1>4, <1>9
  <2>2. \A d \in 0..n : d < n /\ d \in U => d + 1 \in U
    <3> TAKE d \in 0..n
    <3> DEFINE e == d + 1
    <3>1. d < n => e \in 1..n /\ e \in 0..n /\ e - 1 = d
      BY <1>4
    <3> HIDE DEF e
    <3>2. d < n /\ d \in U => e \in U
      BY <1>9, <3>1
    <3> QED
      BY <3>2 DEF e
  <2> HIDE DEF U
  <2>3. 0..n \subseteq U
    BY <1>4, <2>1, <2>2, InductionUpto
  <2> QED
    BY <2>3 DEF U
<1>12. \A d \in 1..n : destOf(d) \in Seq(TermsOver(D))
  BY <1>2, <1>10, VariablesAreTerms
<1>13. ASSUME NEW d \in 1..n
       PROVE  results[d] \in Seq(RowsOf(D, Len(Having(IF n = 1 THEN head ELSE vars,
                                                      BodyIds(disjuncts[d].body)))))
  <2> DEFINE body == disjuncts[d].body
             base == Len(before(d))
             part == poolsOf(d)
             to == IF n = 1 THEN head ELSE vars
             disjunct == disjuncts[d]
  <2>1. body \in Seq(L) /\ body # << >> /\ bodies[d] = body
    BY <1>2, <1>4, <1>5
  <2>2. base \in Nat
    <3>1. d - 1 \in 0..n
      BY <1>4
    <3>2. before(d) = FlattenSeq(SubSeq(bodies, 1, d - 1))
      BY <1>6, <3>1
    <3>3. SubSeq(bodies, 1, d - 1) \in Seq(Seq(L))
      <4> HIDE DEF n
      <4> QED
        BY <1>4, <1>5
    <3>4. before(d) \in Seq(L)
      BY <3>2, <3>3, FlattenFacts
    <3> HIDE DEF before
    <3> QED
      BY <3>4
  <2>3. PICK P : pools \in Seq(P)
    BY DEF PoolsFor
  <2>4. /\ Len(pools) = Len(literals)
        /\ \A k \in DOMAIN literals : pools[k] \in Seq(FactsOf(D, Len(literals[k].terms)))
    BY DEF PoolsFor
  <2>5. \A j \in DOMAIN body : base + j \in DOMAIN literals /\ literals[base + j] = body[j]
    <3> HIDE DEF before, literals
    <3> QED
      BY <1>8, <2>1
  <2> HIDE DEF base, literals
  <2>6. \A j \in DOMAIN body : part[j] = pools[base + j]
    <3> TAKE j \in DOMAIN body
    <3> DEFINE to2 == base + Len(body)
    <3>1. part = SubSeq(pools, base + 1, to2)
      BY DEF base
    <3>2. j \in 1..Len(body) /\ Len(body) \in Nat
      BY <2>1
    <3> HIDE DEF part, body
    <3>3. SubSeq(pools, base + 1, to2)[j] = pools[(base + 1) + j - 1]
      BY <2>2, <2>3, <3>2
    <3>4. (base + 1) + j - 1 = base + j
      BY <2>2, <3>2
    <3> QED
      BY <3>1, <3>3, <3>4
  <2>7. \A j \in DOMAIN body : part[j] \in Seq(FactsOf(D, Len(body[j].terms)))
    <3> HIDE DEF part, body
    <3> QED
      BY <2>4, <2>5, <2>6
  <2>8. to \in Seq(TermsOver(D))
    BY <1>2, <1>10, VariablesAreTerms
  <2>9. (n = 1 => rule.head.isTrue) \in BOOLEAN
    OBVIOUS
  <2>10. results[d] = EvalDisjunct(disjunct, part, to, n = 1 => rule.head.isTrue) /\ body = disjunct.body
    OBVIOUS
  <2> HIDE DEF part, to, results, disjunct, n
  <2>11. EvalDisjunct(disjunct, part, to, n = 1 => rule.head.isTrue) \in
           Seq(RowsOf(D, Len(Having(to, BodyIds(disjunct.body)))))
    <3>1. disjunct.body \in Seq(L) /\ disjunct.body # << >>
      BY <2>1, <2>10
    <3>2. \A k \in DOMAIN disjunct.body : part[k] \in Seq(FactsOf(D, Len(disjunct.body[k].terms)))
      BY <2>7, <2>10
    <3> HIDE DEF body
    <3> QED
      BY <1>2, <2>8, <2>9, <3>1, <3>2, DisjunctTyped
  <2> QED
    BY <2>10, <2>11 DEF to, disjunct
<1> HIDE DEF results, literals
<1>14. first \in T[1]
  <2>1. destOf(1) = IF n = 1 THEN head ELSE vars
    BY <1>4
  <2>2. known(1) = BodyIds(disjuncts[1].body)
    <3>1. known(1) = known(1 - 1) \cup BodyIds(disjuncts[1].body) /\ 1 - 1 = 0
      BY <1>4, <1>9
    <3> HIDE DEF known
    <3> QED
      BY <1>9, <3>1
  <2> HIDE DEF known, destOf, vars
  <2>3. T[1] = Seq(RowsOf(D, Len(Having(IF n = 1 THEN head ELSE vars, BodyIds(disjuncts[1].body)))))
    BY <1>4, <2>1, <2>2
  <2> QED
    BY <1>4, <1>13, <2>3
<1>15. ASSUME NEW d \in 2..n, NEW x \in T[d - 1]
       PROVE  next(x, d) \in T[d]
  <2> DEFINE left == Seen(vars, before(d))
             right == Seen(vars, disjuncts[d].body)
             to == destOf(d)
             old == d - 1
  <2>1. d \in 1..n /\ old \in 0..n /\ old \in 1..n /\ old # n /\ n # 1 /\ d \in DOMAIN disjuncts
    <3> HIDE DEF T, n
    <3> QED
      BY <1>4
  <2>2. /\ left = Having(vars, known(old))
        /\ left \in Seq(VariableTerms) /\ left \in Seq(AnyTerm)
        /\ VarIds(left) = VarIds(vars) \cap known(old)
    BY <1>10, SeenFacts, VariablesAreTerms
  <2>3. /\ right = Having(vars, BodyIds(disjuncts[d].body))
        /\ right \in Seq(VariableTerms) /\ right \in Seq(AnyTerm)
        /\ VarIds(right) = VarIds(vars) \cap BodyIds(disjuncts[d].body)
    BY <1>10, SeenFacts, VariablesAreTerms
  <2>4. \A v \in VarIds(left) \cap VarIds(right) : FrontIndex(left, v) <= Len(right)
    BY <1>2, <2>1
  <2>5. destOf(old) = vars
    BY <2>1
  <2>6. to \in Seq(TermsOver(D))
    BY <1>12, <2>1
  <2>7. (d = n => rule.head.isTrue) \in BOOLEAN
    OBVIOUS
  <2>8. next(x, d) = EvalNextDisjunction(left, x, right, results[d], to, d = n => rule.head.isTrue)
    OBVIOUS
  <2>9. T[d] = Seq(RowsOf(D, Len(Having(to, known(d)))))
    BY <2>1
  <2>10. T[old] = Seq(RowsOf(D, Len(Having(destOf(old), known(old)))))
    BY <2>1
  <2>11. known(d) = known(old) \cup BodyIds(disjuncts[d].body)
    BY <1>9, <2>1
  <2>12. known(old) \subseteq VarIds(vars) /\ BodyIds(disjuncts[d].body) \subseteq VarIds(vars)
    <3>1. known(old) \subseteq BodyIds(literals) /\ BodyIds(disjuncts[d].body) \subseteq BodyIds(literals)
      BY <1>9, <1>11, <2>1
    <3> HIDE DEF known, vars, old
    <3> QED
      BY <1>10, <3>1
  <2>13. x \in T[old]
    OBVIOUS
  <2>14. results[d] \in Seq(RowsOf(D, Len(Having(vars, BodyIds(disjuncts[d].body)))))
    BY <1>13, <2>1
  <2> HIDE DEF T, known, to, left, right, next, vars, destOf, old
  <2>15. VarIds(left) \cup VarIds(right) = known(d)
    BY <2>2, <2>3, <2>11, <2>12
  <2>16. x \in Seq(RowsOf(D, Len(left)))
    BY <2>2, <2>5, <2>10, <2>13
  <2>17. results[d] \in Seq(RowsOf(D, Len(right)))
    BY <2>3, <2>14
  <2>18. EvalNextDisjunction(left, x, right, results[d], to, d = n => rule.head.isTrue)
           \in Seq(RowsOf(D, Len(Kept(to, left, right))))
    BY <2>2, <2>3, <2>4, <2>6, <2>7, <2>16, <2>17, NextDisjunctionTyped
  <2>19. Kept(to, left, right) = Having(to, known(d))
    BY <2>15, KeptIsHaving
  <2> QED
    BY <2>8, <2>9, <2>18, <2>19
<1> HIDE DEF T, first, next, known
<1>16. \A d \in 2..n : \A x \in T[d - 1] : F[<<x, d>>] = next(x, d)
  <2> TAKE d \in 2..n
  <2> TAKE x \in T[d - 1]
  <2>1. d \in 1..n /\ d - 1 \in 1..n
    BY <1>4
  <2>2. x \in V
    BY <2>1
  <2> HIDE DEF V
  <2> QED
    BY <2>1, <2>2
<1> HIDE DEF F, V
<1>17. ChainOf(n, T, first, F)
  BY <1>4, <1>14, <1>15, <1>16 DEF ChainOf
<1>18. PICK g : IsChain(g, n, T, first, F)
  BY <1>17, ChainExists
<1>19. g = Eq(g)
  <2>1. DOMAIN g = 1..n /\ g = [d \in 1..n |-> g[d]]
    BY <1>18 DEF IsChain
  <2>2. ASSUME NEW d \in 1..n
        PROVE  g[d] = IF d = 1 THEN first ELSE next(g[d - 1], d)
    <3>1. CASE d = 1
      BY <1>18, <3>1 DEF IsChain
    <3>2. CASE d # 1
      <4>1. d \in 2..n /\ d - 1 \in 1..n
        BY <1>4, <3>2
      <4>2. g[d] = F[<<g[d - 1], d>>] /\ g[d - 1] \in T[d - 1]
        BY <1>18, <4>1 DEF IsChain
      <4> QED
        BY <1>16, <3>2, <4>1, <4>2
    <3> QED
      BY <3>1, <3>2
  <2> QED
    BY <2>1, <2>2
<1>20. tmp = Eq(tmp)
  <2> HIDE DEF Eq
  <2> QED
    BY <1>19
<1> HIDE DEF tmp
<1>21. tmp[n] \in T[n]
  <2>1. tmp[1] = first
    BY <1>4, <1>20
  <2>2. ASSUME NEW d \in 2..n, tmp[d - 1] \in T[d - 1]
        PROVE  tmp[d] = F[<<tmp[d - 1], d>>]
    <3>1. d \in 1..n /\ d # 1
      BY <1>4
    <3>2. tmp[d] = next(tmp[d - 1], d)
      BY <1>20, <3>1
    <3> QED
      BY <1>16, <2>2, <3>2
  <2> QED
    BY <1>17, <2>1, <2>2, ChainTyped
<1>22. T[n] = Seq(RowsOf(D, Len(head)))
  <2>1. T[n] = Seq(RowsOf(D, Len(Having(head, known(n)))))
    BY <1>4 DEF T
  <2>2. TermsOver(D) \in SUBSET AnyTerm
    BY DEF TermsOver
  <2>3. Len(Having(head, known(n))) = Len(head)
    BY <1>2, <1>9, <2>2, HavingFacts
  <2> QED
    BY <2>1, <2>3
<1> QED
  BY <1>1, <1>21, <1>22
==============================================================================
