--------------------------- MODULE ParallelProofs ---------------------------
(***************************************************************************)
(* The parallel selection and the parallel mergesort, for every relation,  *)
(* number of threads, division of the work among them and order of steps.  *)
(*                                                                         *)
(* Selection.  The rank of a place, the number of facts selected up to it, *)
(* says where a fact belongs in the table.  While the threads count, each  *)
(* counter is a difference of ranks; after the sums, each entry is the     *)
(* rank of the end of a thread's part; while they fill, the local j of     *)
(* each thread is the rank of where it is.                                 *)
(*                                                                         *)
(* Mergesort.  The calls that live are a tree, in which a call has a part  *)
(* of its caller's part and calls that are not above each other have parts *)
(* that are apart.  Only the leaves run.  So what a call knows about its   *)
(* part stays true while others run, and every part is sorted on return.   *)
(***************************************************************************)
EXTENDS ParallelSort, RuleEvalProofs, FiniteSetTheorems, SequenceTheorems, TLAPS

TypeOK ==
  /\ facts \in Seq(Tuples)
  /\ stage \in {"start", "scanning", "counting", "adding", "filling", "selected"}
  /\ team \in Threads
  /\ position \in [Threads -> Nat]
  /\ startIndexes \in [Threads -> Nat]
  /\ added \in 0..MaxThreads
  /\ rsize \in Nat
  /\ begun \subseteq Threads
  /\ j \in [Threads -> Nat]
  /\ curTmpTable \in Seq(Nat)

N == Len(facts)

Region == stage \in {"counting", "adding", "filling"}

ChunkOK ==
  /\ chunk \in [0..team -> 0..N]
  /\ chunk[0] = 0 /\ chunk[team] = N
  /\ \A t, u \in 0..team : t <= u => chunk[t] <= chunk[u]

Within ==
  \A t \in 1..team : chunk[t - 1] <= position[t] /\ position[t] <= chunk[t]

\* Where the part of a thread ends; threads beyond the team have none.
End(t) == IF t <= team THEN chunk[t] ELSE N

Scanned ==
  stage = "scanning" =>
    /\ position[1] <= N
    /\ Len(curTmpTable) = Rank(position[1])
    /\ \A k \in 1..position[1] : Selected(k) => curTmpTable[Rank(k)] = k

Counted ==
  stage = "counting" =>
    /\ Within
    /\ \A t \in 1..team : startIndexes[t] + Rank(chunk[t - 1]) = Rank(position[t])
    /\ \A t \in Threads : t > team => startIndexes[t] = 0

Added ==
  stage = "adding" =>
    /\ rsize = Rank(End(added))
    /\ \A t \in 1..added : startIndexes[t] = Rank(End(t))
    /\ \A t \in added + 1..MaxThreads : startIndexes[t] + Rank(End(t - 1)) = Rank(End(t))

Sums == \A t \in Threads : startIndexes[t] = Rank(End(t))

Cursors ==
  \A t \in 1..team : IF t \in begun THEN j[t] = Rank(position[t])
                    ELSE position[t] = chunk[t - 1]

Done(t) == chunk[t - 1] + 1..position[t]

Written ==
  \A t \in 1..team : \A k \in Done(t) : Selected(k) => curTmpTable[Rank(k)] = k

NothingElse ==
  \A i \in 1..Rank(N) : curTmpTable[i] # Unset =>
    \E t \in 1..team : \E k \in Done(t) : Selected(k) /\ i = Rank(k)

Filled ==
  stage = "filling" =>
    /\ Within
    /\ begun \subseteq 1..team
    /\ Sums /\ Cursors
    /\ Len(curTmpTable) = Rank(N)
    /\ Written /\ NothingElse

NothingYet ==
  /\ stage \in {"start", "scanning"} => team = 1
  /\ stage = "start" => position = Zeros /\ curTmpTable = << >>
  /\ stage \in {"start", "counting"} => added = 0 /\ rsize = 0
  /\ stage \in {"start", "counting", "adding"} => begun = {}
  /\ stage = "start" => startIndexes = Zeros

IInv ==
  /\ TypeOK
  /\ Region => ChunkOK
  /\ NothingYet /\ Scanned /\ Counted /\ Added /\ Filled
  /\ SelectionExact
------------------------------------------------------------------------------
(***************************************************************************)
(* Facts about ranks.                                                      *)
(***************************************************************************)
LEMMA SelectedFinite == \A k \in Nat : IsFiniteSet({i \in 1..k : Selected(i)})
<1>1. TAKE k \in Nat
<1>2. IsFiniteSet(1..k)
  BY FS_Interval
<1>3. QED
  BY <1>2, FS_Subset

LEMMA RankNat == \A k \in Nat : Rank(k) \in Nat
BY SelectedFinite, FS_CardinalityType DEF Rank

LEMMA RankZero == Rank(0) = 0
<1>1. {i \in 1..0 : Selected(i)} = {}
  OBVIOUS
<1>2. QED
  BY <1>1, FS_EmptySet DEF Rank

LEMMA RankStep ==
  \A k \in Nat : Rank(k + 1) = IF Selected(k + 1) THEN Rank(k) + 1 ELSE Rank(k)
<1>1. TAKE k \in Nat
<1> DEFINE S == {i \in 1..k : Selected(i)}
           T == {i \in 1..k + 1 : Selected(i)}
<1>2. IsFiniteSet(S) /\ k + 1 \notin S
  BY SelectedFinite
<1>3. CASE Selected(k + 1)
  <2>1. T = S \cup {k + 1}
    BY <1>3
  <2>2. Cardinality(T) = Cardinality(S) + 1
    BY <1>2, <2>1, FS_AddElement
  <2>3. QED
    BY <1>3, <2>2 DEF Rank
<1>4. CASE ~Selected(k + 1)
  <2>1. T = S
    BY <1>4
  <2>2. QED
    BY <1>4, <2>1 DEF Rank
<1>5. QED
  BY <1>3, <1>4

LEMMA RankMonotone == \A k, l \in Nat : k <= l => Rank(k) <= Rank(l)
<1>1. TAKE k, l \in Nat
<1>2. HAVE k <= l
<1>3. {i \in 1..k : Selected(i)} \in SUBSET {i \in 1..l : Selected(i)}
  BY <1>2
<1>4. QED
  BY <1>3, SelectedFinite, FS_Subset DEF Rank

\* Two selected facts have different places in the table, in their order.
LEMMA RankOrder ==
  \A k, l \in Nat : k < l /\ Selected(l) => Rank(k) < Rank(l)
<1>1. TAKE k, l \in Nat
<1>2. HAVE k < l /\ Selected(l)
<1>3. l - 1 \in Nat /\ k <= l - 1 /\ (l - 1) + 1 = l
  BY <1>2
<1>7. Rank(k) \in Nat /\ Rank(l - 1) \in Nat
  BY <1>3, RankNat
<1>4. Rank(l) = Rank(l - 1) + 1
  BY <1>2, <1>3, RankStep
<1>5. Rank(k) <= Rank(l - 1)
  BY <1>3, RankMonotone
<1>6. QED
  BY <1>7, <1>4, <1>5

LEMMA RankInjective ==
  \A k, l \in Nat : Selected(k) /\ Selected(l) /\ Rank(k) = Rank(l) => k = l
BY RankOrder, RankNat

\* The place of a selected fact is inside the table.
LEMMA RankPlace ==
  \A n \in Nat : \A k \in 1..n : Selected(k) => Rank(k) \in 1..Rank(n)
<1>1. TAKE n \in Nat
<1>2. TAKE k \in 1..n
<1>3. HAVE Selected(k)
<1>4. 0 \in Nat /\ k \in Nat /\ 0 < k /\ k <= n
  OBVIOUS
<1>5. Rank(0) < Rank(k)
  BY <1>3, <1>4, RankOrder
<1>6. Rank(k) <= Rank(n)
  BY <1>4, RankMonotone
<1>7. Rank(k) \in Nat /\ Rank(n) \in Nat
  BY <1>4, RankNat
<1>8. QED
  BY <1>5, <1>6, <1>7, RankZero

\* A function from a finite set to that set without one element has a collision.
LEMMA Collision ==
  ASSUME NEW S, IsFiniteSet(S), NEW z \in S, NEW f \in [S -> S \ {z}]
  PROVE  \E x, y \in S : x # y /\ f[x] = f[y]
<1>1. IsFiniteSet(S \ {z}) /\ Cardinality(S \ {z}) = Cardinality(S) - 1
  BY FS_RemoveElement
<1>2. Cardinality(S) \in Nat
  BY FS_CardinalityType
<1>3. Cardinality(S \ {z}) < Cardinality(S)
  BY <1>1, <1>2
<1>4. QED
  BY <1>1, <1>3, FS_PigeonHole

\* Every iteration belongs to a thread.  Otherwise every end before it has a
\* successor before it, and counting them one further would lose one of them.
LEMMA Covering ==
  ASSUME team \in Nat, ChunkOK, NEW k \in 1..N
  PROVE  \E t \in 1..team : k \in chunk[t - 1] + 1..chunk[t]
<1> DEFINE T == {t \in 0..team : chunk[t] < k}
           next == [t \in T |-> t + 1]
<1>1. SUFFICES ASSUME \A t \in 1..team : ~(chunk[t - 1] < k /\ k <= chunk[t])
               PROVE  FALSE
  BY DEF ChunkOK
<1>2. IsFiniteSet(T)
  <2>1. IsFiniteSet(0..team)
    BY FS_Interval
  <2>2. QED
    BY <2>1, FS_Subset
<1>3. 0 \in T /\ team \notin T
  BY DEF ChunkOK
<1>4. \A t \in T : t + 1 \in T \ {0}
  <2>1. TAKE t \in T
  <2>2. t \in 0..team /\ t # team /\ chunk[t] < k
    BY <1>3
  <2>3. t + 1 \in 1..team /\ (t + 1) - 1 = t
    BY <2>2
  <2>4. ~(k <= chunk[t + 1])
    BY <1>1, <2>2, <2>3
  <2>5. chunk[t + 1] \in Nat /\ k \in Nat
    BY <2>3 DEF ChunkOK
  <2>6. QED
    BY <2>3, <2>4, <2>5
<1>5. next \in [T -> T \ {0}]
  BY <1>4
<1>6. \A x, y \in T : next[x] = next[y] => x = y
  OBVIOUS
<1>7. T \subseteq 0..team
  OBVIOUS
<1> HIDE DEF T, next
<1>8. PICK x, y \in T : x # y /\ next[x] = next[y]
  BY <1>2, <1>3, <1>5, Collision
<1>9. QED
  BY <1>6, <1>8
------------------------------------------------------------------------------
(***************************************************************************)
(* The facts do not change while they are selected, and so no rank does.   *)
(***************************************************************************)
LEMMA SameFacts ==
  ASSUME facts' = facts
  PROVE  /\ N' = N
         /\ \A k \in Nat : Selected(k)' = Selected(k)
         /\ \A k \in Nat : Rank(k)' = Rank(k)
BY DEF N, Rank, Selected
------------------------------------------------------------------------------
LEMMA InitIInv == Init => IInv
<1>1. SUFFICES ASSUME Init
               PROVE  IInv
  OBVIOUS
<1>2. TypeOK
  <2>1. 1 \in Threads /\ Zeros \in [Threads -> Nat] /\ MaxThreads \in Nat
    BY MaxThreadsIsPositive DEF Threads, Zeros
  <2>2. << >> \in Seq(Nat)
    OBVIOUS
  <2>3. facts \in Seq(Tuples)
    BY <1>1, ListsAreSequences DEF Init
  <2>4. QED
    BY <1>1, <2>1, <2>2, <2>3 DEF Init, TypeOK
<1>3. stage = "start" /\ NothingYet
  BY <1>1 DEF Init, NothingYet
<1>4. QED
  BY <1>2, <1>3 DEF IInv, Region, Scanned, Counted, Added, Filled, SelectionExact

LEMMA StartScanStep ==
  ASSUME IInv, StartScan
  PROVE  IInv'
<1>1. TypeOK' /\ NothingYet'
  BY DEF IInv, TypeOK, NothingYet, StartScan
<1>2. Scanned'
  <2>1. position'[1] = 0 /\ curTmpTable' = << >> /\ facts' = facts
    BY MaxThreadsIsPositive DEF IInv, NothingYet, StartScan, Zeros, Threads
  <2>2. N' \in Nat /\ Rank(position[1])' = 0
    BY <1>1, <2>1, RankZero DEF TypeOK, N, Rank
  <2>3. QED
    BY <2>1, <2>2 DEF Scanned
<1>3. QED
  BY <1>1, <1>2 DEF IInv, StartScan, Region, Counted, Added, Filled, SelectionExact

LEMMA ScanStep ==
  ASSUME IInv, Scan
  PROVE  IInv'
<1> DEFINE k == position[1] + 1
<1>1. /\ TypeOK /\ Scanned /\ stage = "scanning" /\ stage' = "scanning"
      /\ facts' = facts /\ position[1] < Len(facts)
  BY DEF IInv, Scan
<1>2. position[1] \in Nat /\ N \in Nat /\ 1 \in Threads
  BY <1>1, MaxThreadsIsPositive DEF TypeOK, N, Threads
<1>3. k \in 1..N /\ k \in Nat /\ position'[1] = k
  BY <1>1, <1>2 DEF Scan, N, TypeOK
<1>4. TypeOK' /\ NothingYet'
  <2>1. curTmpTable' \in Seq(Nat)
    BY <1>1, <1>3 DEF Scan, TypeOK
  <2>2. position' \in [Threads -> Nat]
    BY <1>1, <1>3 DEF Scan, TypeOK
  <2>3. QED
    BY <2>1, <2>2 DEF Scan, IInv, TypeOK, NothingYet
<1>5. Len(curTmpTable) = Rank(position[1]) /\ Rank(position[1]) \in Nat
  BY <1>1, <1>2, RankNat DEF Scanned
<1>6. /\ Len(curTmpTable') = Rank(k)
      /\ \A l \in 1..k : Selected(l) => curTmpTable'[Rank(l)] = l
  <2>1. CASE Selected(k)
    <3>1. Rank(k) = Rank(position[1]) + 1 /\ curTmpTable' = Append(curTmpTable, k)
      BY <1>2, <2>1, RankStep DEF Scan
    <3>2. Len(curTmpTable') = Rank(k) /\ curTmpTable'[Rank(k)] = k
      BY <1>1, <1>3, <1>5, <3>1 DEF TypeOK
    <3>3. ASSUME NEW l \in 1..position[1], Selected(l)
          PROVE  curTmpTable'[Rank(l)] = l
      <4>1. Rank(l) \in 1..Len(curTmpTable)
        BY <1>2, <1>5, <3>3, RankPlace
      <4>2. curTmpTable'[Rank(l)] = curTmpTable[Rank(l)]
        BY <1>1, <1>3, <3>1, <4>1 DEF TypeOK
      <4>3. QED
        BY <1>1, <3>3, <4>2 DEF Scanned
    <3>4. \A l \in 1..k : l = k \/ l \in 1..position[1]
      BY <1>2
    <3>5. QED
      BY <3>2, <3>3, <3>4
  <2>2. CASE ~Selected(k)
    <3>1. Rank(k) = Rank(position[1]) /\ curTmpTable' = curTmpTable
      BY <1>2, <2>2, RankStep DEF Scan
    <3>2. \A l \in 1..k : l = k \/ l \in 1..position[1]
      BY <1>2
    <3>3. QED
      BY <1>1, <1>5, <2>2, <3>1, <3>2 DEF Scanned
  <2>3. QED
    BY <2>1, <2>2
<1>7. Scanned'
  <2>1. N' = N /\ Rank(position[1])' = Rank(k) /\ \A l \in 1..k : Selected(l)' = Selected(l) /\ Rank(l)' = Rank(l)
    BY <1>1, <1>3 DEF N, Rank, Selected
  <2>2. QED
    BY <1>2, <1>3, <1>6, <2>1 DEF Scanned
<1>8. QED
  BY <1>1, <1>4, <1>7 DEF IInv, Region, Counted, Added, Filled, SelectionExact

LEMMA EndScanStep ==
  ASSUME IInv, EndScan
  PROVE  IInv'
<1>1. TypeOK /\ Scanned /\ stage = "scanning" /\ position[1] = N /\ facts' = facts /\ curTmpTable' = curTmpTable
  BY DEF IInv, EndScan, N
<1>2. stage' = "selected" /\ TypeOK' /\ NothingYet'
  BY DEF IInv, TypeOK, NothingYet, EndScan, Zeros
<1>3. DOMAIN curTmpTable = 1..Rank(N) /\ \A k \in 1..N : Selected(k) => curTmpTable[Rank(k)] = k
  BY <1>1 DEF Scanned, TypeOK
<1>4. SelectionExact'
  <2>1. DOMAIN facts = 1..N /\ N = Len(facts)
    BY <1>1 DEF TypeOK, N
  <2>2. Rank(Len(facts))' = Rank(N) /\ \A k \in 1..N : Selected(k)' = Selected(k) /\ Rank(k)' = Rank(k)
    BY <1>1 DEF N, Rank, Selected
  <2>3. QED
    BY <1>1, <1>3, <2>1, <2>2 DEF SelectionExact
<1>6. QED
  BY <1>2, <1>4 DEF IInv, Region, Scanned, Counted, Added, Filled

LEMMA ForkStep ==
  ASSUME IInv, Fork
  PROVE  IInv'
<1>1. /\ TypeOK /\ stage = "start" /\ stage' = "counting" /\ facts' = facts
      /\ startIndexes = Zeros /\ startIndexes' = Zeros
  BY DEF IInv, NothingYet, Fork
<1>2a. PICK size \in Teams : \E c \in Chunks(Len(facts), size) :
        /\ team' = size /\ chunk' = c
        /\ position' = [t \in Threads |-> IF t <= size THEN c[t - 1] ELSE 0]
  BY DEF Fork
<1>2. PICK c \in Chunks(Len(facts), size) :
        /\ team' = size /\ chunk' = c
        /\ position' = [t \in Threads |-> IF t <= size THEN c[t - 1] ELSE 0]
  BY <1>2a
<1>3. size \in Threads /\ size \in Nat /\ N \in Nat /\ N' = N /\ Threads \subseteq Nat \ {0}
  BY <1>1, TeamsFit, MaxThreadsIsPositive DEF Threads, TypeOK, N
<1>4. ChunkOK'
  BY <1>2, <1>3 DEF Chunks, ChunkOK, N
<1>5. c \in [0..size -> Nat]
  BY <1>3 DEF Chunks, N
<1>6. position' \in [Threads -> Nat]
  BY <1>2, <1>3, <1>5
<1>7. TypeOK' /\ NothingYet'
  BY <1>1, <1>2, <1>3, <1>6 DEF Fork, IInv, TypeOK, NothingYet
<1>8. \A t \in 1..team' : /\ t \in Threads /\ t - 1 \in 0..size /\ t \in 0..size /\ t - 1 <= t
                          /\ position'[t] = chunk'[t - 1]
  BY <1>2, <1>3, MaxThreadsIsPositive DEF Threads
<1>9. Within'
  <2>1. SUFFICES ASSUME NEW t \in 1..team'
                 PROVE  chunk'[t - 1] <= position'[t] /\ position'[t] <= chunk'[t]
    BY DEF Within
  <2>2. chunk'[t - 1] <= chunk'[t]
    BY <1>2, <1>4, <1>8 DEF ChunkOK
  <2>3. chunk'[t - 1] \in Nat
    BY <1>2, <1>5, <1>8
  <2>4. QED
    BY <1>8, <2>2, <2>3
<1>10. Counted'
  <2>1. \A t \in 1..team' : startIndexes'[t] + Rank(chunk[t - 1])' = Rank(position[t])'
    <3>1. TAKE t \in 1..team'
    <3>2. startIndexes'[t] = 0 /\ position'[t] = c[t - 1] /\ chunk'[t - 1] = c[t - 1] /\ c[t - 1] \in Nat
      BY <1>1, <1>2, <1>5, <1>8 DEF Zeros
    <3>3. Rank(c[t - 1]) \in Nat
      BY <3>2, RankNat
    <3>4. Rank(chunk[t - 1])' = Rank(c[t - 1]) /\ Rank(position[t])' = Rank(c[t - 1])
      BY <1>1, <3>2 DEF Rank, Selected
    <3>5. QED
      BY <3>2, <3>3, <3>4
  <2>2. \A t \in Threads : startIndexes'[t] = 0
    BY <1>1 DEF Zeros
  <2>3. QED
    BY <1>9, <2>1, <2>2 DEF Counted
<1>11. QED
  BY <1>1, <1>4, <1>7, <1>10 DEF IInv, Region, Scanned, Added, Filled, SelectionExact

LEMMA CountStep ==
  ASSUME IInv, NEW t \in Threads, Count(t)
  PROVE  IInv'
<1>1. /\ TypeOK /\ ChunkOK /\ NothingYet /\ Within /\ Counted /\ stage = "counting" /\ stage' = "counting"
      /\ facts' = facts /\ team' = team /\ chunk' = chunk /\ t \in 1..team /\ position[t] < chunk[t]
  BY DEF IInv, Region, Counted, Count, Threads
<1>2. team \in Nat /\ 1..team \subseteq Threads /\ N' = N /\ N \in Nat
  BY <1>1, MaxThreadsIsPositive DEF TypeOK, Threads, N
<1>3. \A u \in 1..team : chunk[u] \in Nat /\ chunk[u - 1] \in Nat /\ position[u] \in Nat /\ startIndexes[u] \in Nat
  <2>1. TAKE u \in 1..team
  <2>2. u \in 0..team /\ u - 1 \in 0..team /\ u \in Threads
    BY <1>2
  <2>3. \A n \in 0..N : n \in Nat
    OBVIOUS
  <2>4. QED
    BY <1>1, <2>2, <2>3 DEF ChunkOK, TypeOK
<1>4. position' \in [Threads -> Nat] /\ startIndexes' \in [Threads -> Nat]
  <2>1. \A n \in Nat : n + 1 \in Nat
    OBVIOUS
  <2>2. QED
    BY <1>1, <2>1 DEF Count, TypeOK
<1>5. TypeOK' /\ NothingYet' /\ ChunkOK'
  BY <1>1, <1>2, <1>4 DEF Count, TypeOK, NothingYet, ChunkOK
<1>6. /\ position'[t] = position[t] + 1
      /\ \A u \in Threads : u # t => position'[u] = position[u] /\ startIndexes'[u] = startIndexes[u]
  BY <1>1 DEF Count, TypeOK
<1>7. Within'
  BY <1>1, <1>2, <1>3, <1>6 DEF Within
<1>8. \A u \in 1..team : startIndexes'[u] + Rank(chunk[u - 1]) = Rank(position'[u])
  <2>1. TAKE u \in 1..team
  <2>2. startIndexes[u] + Rank(chunk[u - 1]) = Rank(position[u])
    BY <1>1 DEF Counted
  <2>3. CASE u # t
    BY <1>2, <1>6, <2>2, <2>3
  <2>4. CASE u = t
    <3>1. startIndexes'[t] = IF Selected(position[t] + 1) THEN startIndexes[t] + 1 ELSE startIndexes[t]
      BY <1>1 DEF Count, TypeOK
    <3>2. Rank(position[t] + 1) = IF Selected(position[t] + 1) THEN Rank(position[t]) + 1 ELSE Rank(position[t])
      BY <1>1, <1>3, RankStep
    <3>3. startIndexes[t] \in Nat /\ Rank(chunk[t - 1]) \in Nat /\ Rank(position[t]) \in Nat
      BY <1>1, <1>3, RankNat
    <3>4. QED
      BY <1>6, <2>2, <2>4, <3>1, <3>2, <3>3
  <2>5. QED
    BY <2>3, <2>4
<1>9. Counted'
  <2>1. \A u \in 1..team : startIndexes'[u] + Rank(chunk[u - 1])' = Rank(position[u])'
    <3>1. \A u \in 1..team : Rank(chunk[u - 1])' = Rank(chunk[u - 1]) /\ Rank(position[u])' = Rank(position'[u])
      BY <1>1 DEF Rank, Selected
    <3>2. QED
      BY <1>8, <3>1
  <2>2. \A u \in Threads : u > team => startIndexes'[u] = 0
    BY <1>1, <1>2, <1>6 DEF Counted
  <2>3. QED
    BY <1>1, <1>7, <2>1, <2>2 DEF Counted
<1>10. QED
  BY <1>1, <1>5, <1>9 DEF IInv, Region, Scanned, Added, Filled, SelectionExact

\* Where the parts of the threads end, while there is a team.
LEMMA Ends ==
  ASSUME TypeOK, ChunkOK
  PROVE  /\ N \in Nat /\ MaxThreads \in Nat \ {0} /\ team \in 1..MaxThreads
         /\ \A t \in 0..MaxThreads : End(t) \in Nat /\ Rank(End(t)) \in Nat
         /\ End(0) = 0 /\ End(MaxThreads) = N
         /\ \A t \in 0..team : End(t) = chunk[t]
         /\ \A t \in 0..MaxThreads : t >= team => End(t) = N
<1>1. N \in Nat /\ MaxThreads \in Nat \ {0} /\ team \in 1..MaxThreads
  BY MaxThreadsIsPositive DEF TypeOK, N, Threads
<1>2. \A t \in 0..team : chunk[t] \in Nat
  BY <1>1 DEF ChunkOK
<1>3. \A t \in 0..MaxThreads : End(t) \in Nat
  BY <1>1, <1>2 DEF End
<1>4. \A t \in 0..MaxThreads : Rank(End(t)) \in Nat
  BY <1>3, RankNat
<1>5. QED
  BY <1>1, <1>3, <1>4 DEF End, ChunkOK

LEMMA DoneTypes ==
  ASSUME TypeOK, ChunkOK, NEW t \in 1..team
  PROVE  /\ t \in Threads /\ t \in Nat /\ t - 1 \in 0..team /\ t \in 0..team
         /\ chunk[t - 1] \in Nat /\ chunk[t] \in Nat /\ chunk[t] <= N /\ position[t] \in Nat
<1>1. N \in Nat /\ team \in 1..MaxThreads /\ MaxThreads \in Nat
  BY Ends
<1>2. t \in Threads /\ t \in Nat /\ t - 1 \in 0..team /\ t \in 0..team
  BY <1>1 DEF Threads
<1>3. \A n \in 0..N : n \in Nat /\ n <= N
  BY <1>1
<1>4. QED
  BY <1>2, <1>3 DEF ChunkOK, TypeOK

LEMMA SameEnds ==
  ASSUME facts' = facts, team' = team, chunk' = chunk
  PROVE  /\ N' = N
         /\ \A t \in Nat : Rank(End(t))' = Rank(End(t))
         /\ ChunkOK => ChunkOK'
BY DEF End, N, Rank, Selected, ChunkOK

LEMMA JoinCountingStep ==
  ASSUME IInv, JoinCounting
  PROVE  IInv'
<1>1. /\ TypeOK /\ ChunkOK /\ NothingYet /\ Counted /\ stage = "counting" /\ stage' = "adding"
      /\ facts' = facts /\ team' = team /\ chunk' = chunk /\ position' = position
      /\ startIndexes' = startIndexes /\ added' = 0 /\ rsize' = 0
  BY DEF IInv, Region, NothingYet, JoinCounting
<1>2. TypeOK' /\ NothingYet' /\ ChunkOK'
  BY <1>1, SameEnds DEF JoinCounting, TypeOK, NothingYet
<1>3. Rank(End(0)) = 0
  BY <1>1, Ends, RankZero
<1>4. \A t \in 1..MaxThreads : startIndexes[t] + Rank(End(t - 1)) = Rank(End(t))
  <2>1. TAKE t \in 1..MaxThreads
  <2>2. t \in Threads /\ t - 1 \in 0..MaxThreads /\ team \in 1..MaxThreads /\ MaxThreads \in Nat
    BY <1>1, Ends DEF Threads
  <2>3. CASE t <= team
    <3>1. t \in 1..team /\ t \in 0..team /\ t - 1 \in 0..team
      BY <2>2, <2>3
    <3>2. End(t) = chunk[t] /\ End(t - 1) = chunk[t - 1]
      BY <1>1, <3>1, Ends
    <3>3. position[t] = chunk[t]
      BY <3>1 DEF JoinCounting, AtEnd
    <3>4. startIndexes[t] + Rank(chunk[t - 1]) = Rank(position[t])
      BY <1>1, <3>1 DEF Counted
    <3>5. QED
      BY <3>2, <3>3, <3>4
  <2>4. CASE t > team
    <3>1. End(t) = N /\ End(t - 1) = N /\ Rank(N) \in Nat
      BY <1>1, <2>2, <2>4, Ends, RankNat
    <3>2. startIndexes[t] = 0
      BY <1>1, <2>2, <2>4 DEF Counted
    <3>3. QED
      BY <3>1, <3>2
  <2>5. QED
    BY <2>2, <2>3, <2>4
<1>5. Added'
  <2>1. Rank(End(added))' = 0
    BY <1>1, <1>3 DEF Rank, Selected, End, N
  <2>2. \A t \in 1..MaxThreads : Rank(End(t))' = Rank(End(t)) /\ Rank(End(t - 1))' = Rank(End(t - 1))
    BY <1>1, SameEnds
  <2>3. QED
    BY <1>1, <1>4, <2>1, <2>2 DEF Added
<1>6. QED
  BY <1>1, <1>2, <1>5 DEF IInv, Region, Scanned, Counted, Filled, SelectionExact

LEMMA AddUpStep ==
  ASSUME IInv, AddUp
  PROVE  IInv'
<1> DEFINE a == added + 1
<1>1. /\ TypeOK /\ ChunkOK /\ NothingYet /\ Added /\ stage = "adding" /\ stage' = "adding"
      /\ facts' = facts /\ team' = team /\ chunk' = chunk /\ added' = a
  BY DEF IInv, Region, AddUp
<1>2. /\ added \in 0..MaxThreads /\ a \in 1..MaxThreads /\ a \in Threads /\ a - 1 = added
      /\ MaxThreads \in Nat /\ added \in Nat
  BY <1>1, MaxThreadsIsPositive DEF AddUp, TypeOK, Threads
<1>3. startIndexes[a] \in Nat /\ Rank(End(added)) \in Nat /\ Rank(End(a)) \in Nat
  <2>1. startIndexes[a] \in Nat
    BY <1>1, <1>2 DEF TypeOK
  <2>2. added \in 0..MaxThreads /\ a \in 0..MaxThreads
    BY <1>2
  <2>3. QED
    BY <1>1, <2>1, <2>2, Ends
<1>4. startIndexes[a] + Rank(End(added)) = Rank(End(a))
  BY <1>1, <1>2 DEF Added
<1>5. rsize' = Rank(End(a))
  BY <1>1, <1>2, <1>3, <1>4 DEF AddUp, Added
<1>6. startIndexes'[a] = Rank(End(a))
  <2>1. CASE added = 0
    <3>1. Rank(End(added)) = 0
      BY <1>1, <2>1, Ends, RankZero
    <3>2. startIndexes' = startIndexes
      BY <2>1 DEF AddUp
    <3>3. QED
      BY <1>3, <1>4, <3>1, <3>2
  <2>2. CASE added > 0
    <3>1. startIndexes[added] = Rank(End(added))
      BY <1>1, <1>2, <2>2 DEF Added
    <3>2. startIndexes'[a] = startIndexes[a] + startIndexes[added]
      BY <1>1, <1>2, <2>2 DEF AddUp, TypeOK
    <3>3. QED
      BY <1>4, <3>1, <3>2
  <2>3. QED
    BY <1>2, <2>1, <2>2
<1>7. \A t \in Threads : t # a => startIndexes'[t] = startIndexes[t]
  BY <1>1 DEF AddUp, TypeOK
<1>8. TypeOK'
  <2>1. startIndexes' \in [Threads -> Nat]
    <3>1. startIndexes' = [startIndexes EXCEPT ![a] = startIndexes'[a]]
      BY <1>1, <1>2 DEF AddUp, TypeOK
    <3>2. startIndexes'[a] \in Nat
      BY <1>3, <1>6
    <3>3. QED
      BY <1>1, <3>1, <3>2 DEF TypeOK
  <2>2. rsize' \in Nat /\ added' \in 0..MaxThreads
    BY <1>1, <1>2, <1>3, <1>5
  <2>3. QED
    BY <2>1, <2>2 DEF IInv, AddUp, TypeOK
<1>9. NothingYet' /\ ChunkOK'
  BY <1>1, SameEnds DEF AddUp, NothingYet
<1>10. Added'
  <2>1. \A t \in 1..a : startIndexes'[t] = Rank(End(t))
    BY <1>1, <1>2, <1>6, <1>7 DEF Added, Threads
  <2>2. \A t \in a + 1..MaxThreads : startIndexes'[t] + Rank(End(t - 1)) = Rank(End(t))
    BY <1>1, <1>2, <1>7 DEF Added, Threads
  <2>3. Rank(End(added))' = Rank(End(a))
    BY <1>1 DEF Rank, Selected, End, N
  <2>4. \A t \in 1..MaxThreads : Rank(End(t))' = Rank(End(t)) /\ Rank(End(t - 1))' = Rank(End(t - 1))
    BY <1>1, SameEnds
  <2>5. QED
    BY <1>1, <1>2, <1>5, <2>1, <2>2, <2>3, <2>4 DEF Added
<1>11. QED
  BY <1>1, <1>8, <1>9, <1>10 DEF IInv, Region, Scanned, Counted, Filled, SelectionExact

LEMMA ForkAgainStep ==
  ASSUME IInv, ForkAgain
  PROVE  IInv'
<1>1. /\ TypeOK /\ ChunkOK /\ NothingYet /\ Added /\ stage = "adding" /\ stage' = "filling"
      /\ facts' = facts /\ team' = team /\ chunk' = chunk /\ added = MaxThreads
      /\ startIndexes' = startIndexes /\ begun' = {} /\ curTmpTable' = [i \in 1..rsize |-> Unset]
  BY DEF IInv, Region, ForkAgain, NothingYet
<1>2. N \in Nat /\ MaxThreads \in Nat \ {0} /\ team \in 1..MaxThreads /\ End(MaxThreads) = N
  BY <1>1, Ends
<1>3. \A t \in 1..team : /\ t \in Threads /\ t - 1 \in 0..team /\ t \in 0..team /\ t - 1 <= t
                         /\ chunk[t - 1] \in Nat /\ chunk[t - 1] <= chunk[t]
  <2>1. TAKE t \in 1..team
  <2>2. t \in Threads /\ t - 1 \in 0..team /\ t \in 0..team /\ t - 1 <= t
    BY <1>2 DEF Threads
  <2>3. \A n \in 0..N : n \in Nat
    BY <1>2
  <2>4. QED
    BY <1>1, <2>2, <2>3 DEF ChunkOK
<1>4. \A t \in 1..team : position'[t] = chunk[t - 1]
  BY <1>3 DEF ForkAgain
<1>5. TypeOK'
  <2>1. position' \in [Threads -> Nat]
    <3>1. position' = [t \in Threads |-> IF t <= team THEN chunk[t - 1] ELSE 0]
      BY DEF ForkAgain
    <3>2. \A t \in Threads : (IF t <= team THEN chunk[t - 1] ELSE 0) \in Nat
      BY <1>2, <1>3 DEF Threads
    <3>3. QED
      BY <3>1, <3>2
  <2>2. rsize \in Nat
    BY <1>1 DEF TypeOK
  <2>3. curTmpTable' \in Seq(Nat)
    BY <1>1, <2>2 DEF Unset
  <2>4. QED
    BY <1>1, <2>1, <2>3 DEF ForkAgain, TypeOK
<1>6. Within'
  BY <1>1, <1>3, <1>4 DEF Within
<1>7. rsize = Rank(N) /\ Rank(N) \in Nat /\ \A t \in Threads : startIndexes[t] = Rank(End(t))
  <2>1. rsize = Rank(End(added)) /\ \A t \in 1..added : startIndexes[t] = Rank(End(t))
    BY <1>1 DEF Added
  <2>2. QED
    BY <1>1, <1>2, <2>1, RankNat DEF Threads
<1>8. Filled'
  <2>1. N' = N /\ \A t \in Threads : Rank(End(t))' = Rank(End(t))
    BY <1>1, SameEnds, MaxThreadsIsPositive DEF Threads
  <2>2. Rank(N)' = Rank(N)
    BY <1>1 DEF N, Rank, Selected
  <2>3. Len(curTmpTable') = Rank(N)' /\ \A i \in 1..Rank(N)' : curTmpTable'[i] = Unset
    BY <1>1, <1>7, <2>2
  <2>4. \A t \in 1..team' : chunk'[t - 1] + 1..position'[t] = {}
    BY <1>1, <1>3, <1>4
  <2>5. \A t \in Threads : startIndexes'[t] = Rank(End(t))'
    BY <1>1, <1>7, <2>1
  <2>6. QED
    BY <1>1, <1>4, <1>6, <2>3, <2>4, <2>5 DEF Filled, Sums, Cursors, Done, Written, NothingElse
<1>9. QED
  BY <1>1, <1>5, <1>8, SameEnds DEF IInv, Region, NothingYet, Scanned, Counted, Added, SelectionExact

LEMMA BeginStep ==
  ASSUME IInv, NEW t \in Threads, Begin(t)
  PROVE  IInv'
<1>1. /\ TypeOK /\ ChunkOK /\ Filled /\ Within /\ stage = "filling" /\ stage' = "filling"
      /\ facts' = facts /\ team' = team /\ chunk' = chunk /\ position' = position
      /\ startIndexes' = startIndexes /\ curTmpTable' = curTmpTable
      /\ t <= team /\ t \notin begun /\ begun' = begun \cup {t}
  BY DEF IInv, Region, Begin, Filled
<1>2. N \in Nat /\ MaxThreads \in Nat \ {0} /\ team \in 1..MaxThreads /\ t \in 1..team /\ t \in Nat
  BY <1>1, Ends DEF Threads
<1>3. \A n \in Nat : Rank(n)' = Rank(n) /\ Selected(n)' = Selected(n)
  BY <1>1, SameFacts
<1>4. j'[t] = Rank(chunk[t - 1]) /\ j'[t] \in Nat
  <2>1. t - 1 \in 0..team /\ t - 1 \in 0..MaxThreads
    BY <1>2
  <2>2. End(t - 1) = chunk[t - 1] /\ Rank(End(t - 1)) \in Nat
    BY <1>1, <2>1, Ends
  <2>3. CASE t = 1
    <3>1. j'[t] = 0
      BY <1>1, <2>3 DEF Begin, TypeOK
    <3>2. chunk[t - 1] = 0
      BY <1>1, <2>3 DEF ChunkOK
    <3>3. QED
      BY <3>1, <3>2, RankZero
  <2>4. CASE t > 1
    <3>1. j'[t] = startIndexes[t - 1]
      BY <1>1, <2>4 DEF Begin, TypeOK
    <3>2. t - 1 \in Threads
      BY <1>2, <2>4 DEF Threads
    <3>3. startIndexes[t - 1] = Rank(End(t - 1))
      BY <1>1, <3>2 DEF Filled, Sums
    <3>4. QED
      BY <2>2, <3>1, <3>3
  <2>5. QED
    BY <1>2, <2>3, <2>4
<1>5. \A u \in Threads : u # t => j'[u] = j[u]
  BY <1>1 DEF Begin, TypeOK
<1>6. TypeOK'
  <2>1. j' \in [Threads -> Nat]
    <3>1. j' = [j EXCEPT ![t] = j'[t]]
      BY <1>1 DEF Begin, TypeOK
    <3>2. QED
      BY <1>1, <1>4, <3>1 DEF TypeOK
  <2>2. QED
    BY <1>1, <2>1 DEF Begin, TypeOK
<1>7. position[t] = chunk[t - 1] /\ position[t] \in Nat
  BY <1>1, <1>2 DEF Filled, Cursors, TypeOK
<1>8. \A u \in 1..team : IF u \in begun' THEN j'[u] = Rank(position[u]) ELSE position[u] = chunk[u - 1]
  BY <1>1, <1>2, <1>4, <1>5, <1>7 DEF Filled, Cursors, Threads
<1>9. Filled'
  <2>1. N' = N /\ Rank(N)' = Rank(N) /\ \A u \in Threads : Rank(End(u))' = Rank(End(u))
    BY <1>1, <1>2, SameEnds DEF Threads, Rank, Selected, N
  <2>2. \A u \in 1..team : Rank(position[u])' = Rank(position[u])
    BY <1>1 DEF Rank, Selected
  <2>3. \A u \in 1..team : Done(u)' = Done(u) /\ Done(u) \subseteq Nat
    <3>1. TAKE u \in 1..team
    <3>2. chunk[u - 1] \in Nat /\ position[u] \in Nat
      BY <1>1, <1>2, DoneTypes
    <3>3. QED
      BY <1>1, <3>2 DEF Done
  <2>4. Written'
    BY <1>1, <1>3, <2>3 DEF Filled, Written
  <2>5. NothingElse'
    <3>1. SUFFICES ASSUME NEW i \in 1..Rank(N), curTmpTable[i] # Unset
                   PROVE  \E u \in 1..team : \E k \in Done(u)' : Selected(k)' /\ i = Rank(k)'
      BY <1>1, <2>1 DEF NothingElse
    <3>2. PICK u \in 1..team : \E k \in Done(u) : Selected(k) /\ i = Rank(k)
      BY <1>1, <3>1 DEF Filled, NothingElse
    <3>3. PICK k \in Done(u) : Selected(k) /\ i = Rank(k)
      BY <3>2
    <3>4. k \in Done(u)' /\ Selected(k)' /\ i = Rank(k)'
      BY <1>3, <2>3, <3>3
    <3>5. QED
      BY <3>4
  <2>6. Sums' /\ Cursors'
    BY <1>1, <1>8, <2>1, <2>2 DEF Filled, Sums, Cursors
  <2>7. QED
    BY <1>1, <1>2, <2>1, <2>4, <2>5, <2>6 DEF Filled, Within
<1>10. QED
  BY <1>1, <1>6, <1>9, SameEnds DEF Begin, IInv, Region, NothingYet, Scanned, Counted, Added, SelectionExact

LEMMA FillStep ==
  ASSUME IInv, NEW t \in Threads, Fill(t)
  PROVE  IInv'
<1> DEFINE k == position[t] + 1
<1>1. /\ TypeOK /\ ChunkOK /\ Filled /\ Within /\ stage = "filling" /\ stage' = "filling"
      /\ facts' = facts /\ team' = team /\ chunk' = chunk /\ startIndexes' = startIndexes
      /\ t <= team /\ t \in begun /\ begun' = begun /\ position[t] < chunk[t]
      /\ position' = [position EXCEPT ![t] = k]
  BY DEF IInv, Region, Fill, Filled
<1>2. N \in Nat /\ MaxThreads \in Nat \ {0} /\ team \in 1..MaxThreads /\ t \in 1..team /\ t \in Nat
  BY <1>1, Ends DEF Threads
<1>3. \A n \in Nat : Rank(n)' = Rank(n) /\ Selected(n)' = Selected(n)
  BY <1>1, SameFacts
<1>4. position[t] \in Nat /\ k \in 1..N /\ k \in Nat /\ k <= chunk[t] /\ k \in chunk[t - 1] + 1..k
  <2>1. chunk[t - 1] \in Nat /\ chunk[t] \in Nat /\ chunk[t] <= N /\ position[t] \in Nat
    BY <1>1, <1>2, DoneTypes
  <2>2. chunk[t - 1] <= position[t]
    BY <1>1, <1>2 DEF Within
  <2>3. QED
    BY <1>1, <1>2, <2>1, <2>2
<1>5. position'[t] = k /\ \A u \in Threads : u # t => position'[u] = position[u]
  BY <1>1 DEF TypeOK
<1>6. /\ j[t] = Rank(position[t]) /\ Rank(position[t]) \in Nat /\ Rank(N) \in Nat
      /\ curTmpTable \in [1..Rank(N) -> Nat]
  <2>1. j[t] = Rank(position[t]) /\ Rank(position[t]) \in Nat /\ Rank(N) \in Nat /\ Len(curTmpTable) = Rank(N)
    BY <1>1, <1>2, <1>4, RankNat DEF Filled, Cursors
  <2>2. curTmpTable \in [1..Rank(N) -> Nat]
    BY <1>1, <2>1 DEF TypeOK
  <2>3. QED
    BY <2>1, <2>2
<1>7. j'[t] = Rank(k) /\ j' \in [Threads -> Nat] /\ \A u \in Threads : u # t => j'[u] = j[u]
  <2>1. Rank(k) = IF Selected(k) THEN Rank(position[t]) + 1 ELSE Rank(position[t])
    BY <1>4, RankStep
  <2>2. j' = [j EXCEPT ![t] = Rank(k)]
    BY <1>1, <1>6, <2>1 DEF Fill, TypeOK
  <2>3. Rank(k) \in Nat
    BY <1>4, RankNat
  <2>4. QED
    BY <1>1, <2>2, <2>3 DEF TypeOK
<1>8. /\ Selected(k) => curTmpTable' = [curTmpTable EXCEPT ![Rank(k)] = k] /\ Rank(k) \in 1..Rank(N)
      /\ ~Selected(k) => curTmpTable' = curTmpTable
  <2>1. CASE Selected(k)
    <3>1. Rank(k) = j[t] + 1
      BY <1>4, <1>6, <2>1, RankStep
    <3>2. Rank(k) \in 1..Rank(N)
      BY <1>2, <1>4, <2>1, RankPlace
    <3>3. QED
      BY <2>1, <3>1, <3>2 DEF Fill
  <2>2. CASE ~Selected(k)
    BY <2>2 DEF Fill
  <2>3. QED
    BY <2>1, <2>2
<1>9. TypeOK'
  <2>1. curTmpTable' \in Seq(Nat)
    <3>1. curTmpTable' \in [1..Rank(N) -> Nat]
      BY <1>4, <1>6, <1>8
    <3>2. QED
      BY <1>6, <3>1, SeqDef
  <2>2. position' \in [Threads -> Nat]
    BY <1>1, <1>4 DEF TypeOK
  <2>3. QED
    BY <1>1, <1>7, <2>1, <2>2 DEF Fill, TypeOK
<1>10. \A u \in 1..team : \A l \in Done(u)' : l \in Nat /\ (l = k \/ l \in Done(u))
  <2>1. TAKE u \in 1..team
  <2>2. chunk[u - 1] \in Nat /\ position[u] \in Nat /\ u \in Threads
    BY <1>1, DoneTypes
  <2>3. CASE u = t
    <3>1. Done(u)' = chunk[t - 1] + 1..k
      BY <1>1, <1>5, <2>3 DEF Done
    <3>2. \A l \in chunk[t - 1] + 1..k : l \in Nat /\ (l = k \/ l \in chunk[t - 1] + 1..position[t])
      BY <1>4, <2>2, <2>3
    <3>3. QED
      BY <2>3, <3>1, <3>2 DEF Done
  <2>4. CASE u # t
    <3>1. Done(u)' = Done(u)
      BY <1>1, <1>5, <2>2, <2>4 DEF Done
    <3>2. \A l \in chunk[u - 1] + 1..position[u] : l \in Nat
      BY <2>2
    <3>3. QED
      BY <3>1, <3>2 DEF Done
  <2>5. QED
    BY <2>3, <2>4
<1>11. \A u \in 1..team : \A l \in Done(u) : l \in Done(u)' /\ l \in 1..N /\ l \in Nat
  <2>1. TAKE u \in 1..team
  <2>2. /\ chunk[u - 1] \in Nat /\ position[u] \in Nat /\ u \in Threads
        /\ chunk[u] \in Nat /\ chunk[u] <= N
    BY <1>1, DoneTypes
  <2>3. position[u] <= chunk[u]
    BY <1>1 DEF Within
  <2>4. position'[u] \in Nat /\ position[u] <= position'[u]
    BY <1>4, <1>5, <2>2
  <2>5. Done(u)' = chunk[u - 1] + 1..position'[u]
    BY <1>1 DEF Done
  <2>6. \A l \in chunk[u - 1] + 1..position[u] :
          l \in chunk[u - 1] + 1..position'[u] /\ l \in 1..N /\ l \in Nat
    BY <1>2, <2>2, <2>3, <2>4
  <2>7. QED
    BY <2>5, <2>6 DEF Done
<1>12. Written'
  <2>1. SUFFICES ASSUME NEW u \in 1..team, NEW l \in Done(u)', Selected(l)
                 PROVE  curTmpTable'[Rank(l)] = l
    BY <1>1, <1>3, <1>10 DEF Written
  <2>2. l \in Nat /\ (l = k \/ l \in Done(u))
    BY <1>10, <2>1
  <2>3. CASE l = k
    BY <1>6, <1>8, <2>1, <2>3
  <2>4. CASE l # k
    <3>1. curTmpTable[Rank(l)] = l /\ l \in 1..N
      BY <1>1, <1>11, <2>1, <2>2, <2>4 DEF Filled, Written
    <3>2. Selected(k) => Rank(l) # Rank(k)
      BY <1>4, <2>1, <2>2, <2>4, RankInjective
    <3>3. Rank(l) \in 1..Rank(N)
      BY <1>2, <2>1, <3>1, RankPlace
    <3>4. QED
      BY <1>6, <1>8, <3>1, <3>2, <3>3
  <2>5. QED
    BY <2>3, <2>4
<1>13. NothingElse'
  <2>1. Rank(N)' = Rank(N)
    BY <1>1 DEF N, Rank, Selected
  <2>2. SUFFICES ASSUME NEW i \in 1..Rank(N), curTmpTable'[i] # Unset
                 PROVE  \E u \in 1..team : \E l \in Done(u)' : Selected(l) /\ i = Rank(l)
    BY <1>1, <1>3, <1>10, <2>1 DEF NothingElse
  <2>3. CASE Selected(k) /\ i = Rank(k)
    <3>1. k \in Done(t)'
      BY <1>1, <1>4, <1>5 DEF Done
    <3>2. QED
      BY <1>2, <2>3, <3>1
  <2>4. CASE ~(Selected(k) /\ i = Rank(k))
    <3>1. curTmpTable[i] # Unset
      BY <1>6, <1>8, <2>2, <2>4
    <3>2. PICK u \in 1..team : \E l \in Done(u) : Selected(l) /\ i = Rank(l)
      BY <1>1, <3>1 DEF Filled, NothingElse
    <3>3. QED
      BY <1>11, <3>2
  <2>5. QED
    BY <2>3, <2>4
<1>14. Within'
  <2>1. \A u \in 1..team : chunk[u - 1] <= position'[u] /\ position'[u] <= chunk[u]
    <3>1. TAKE u \in 1..team
    <3>2. chunk[u - 1] \in Nat /\ chunk[u] \in Nat /\ position[u] \in Nat /\ u \in Threads
      BY <1>1, DoneTypes
    <3>3. chunk[u - 1] <= position[u] /\ position[u] <= chunk[u]
      BY <1>1 DEF Within
    <3>4. QED
      BY <1>4, <1>5, <3>2, <3>3
  <2>2. QED
    BY <1>1, <2>1 DEF Within
<1>15. Sums' /\ Cursors'
  <2>1. \A u \in Threads : Rank(End(u))' = Rank(End(u))
    BY <1>1, <1>2, SameEnds DEF Threads
  <2>2. \A u \in 1..team : Rank(position[u])' = Rank(position'[u])
    BY <1>1 DEF Rank, Selected
  <2>3. \A u \in 1..team : IF u \in begun THEN j'[u] = Rank(position'[u]) ELSE position'[u] = chunk[u - 1]
    BY <1>1, <1>2, <1>5, <1>7 DEF Filled, Cursors, Threads
  <2>4. QED
    BY <1>1, <2>1, <2>2, <2>3 DEF Filled, Sums, Cursors
<1>16. Filled'
  <2>1. N' = N /\ Rank(N)' = Rank(N)
    BY <1>1 DEF N, Rank, Selected
  <2>2. Len(curTmpTable') = Rank(N)
    <3>1. DOMAIN curTmpTable' = 1..Rank(N)
      BY <1>6, <1>8
    <3>2. QED
      BY <1>6, <1>9, <3>1 DEF TypeOK
  <2>3. QED
    BY <1>1, <1>12, <1>13, <1>14, <1>15, <2>1, <2>2 DEF Filled
<1>17. QED
  BY <1>1, <1>9, <1>16, SameEnds DEF Fill, IInv, Region, NothingYet, Scanned, Counted, Added, SelectionExact

LEMMA JoinFillingStep ==
  ASSUME IInv, JoinFilling
  PROVE  IInv'
<1>1. /\ TypeOK /\ ChunkOK /\ Filled /\ stage = "filling" /\ stage' = "selected"
      /\ facts' = facts /\ curTmpTable' = curTmpTable /\ AtEnd
  BY DEF IInv, Region, JoinFilling
<1>2. TypeOK' /\ NothingYet'
  <2>1. 1 \in Threads /\ Zeros \in [Threads -> Nat] /\ MaxThreads \in Nat
    BY MaxThreadsIsPositive DEF Threads, Zeros
  <2>2. QED
    BY <1>1, <2>1 DEF JoinFilling, TypeOK, NothingYet
<1>3. \A k \in 1..N : Selected(k) => curTmpTable[Rank(k)] = k
  <2>1. TAKE k \in 1..N
  <2>2. HAVE Selected(k)
  <2>3. team \in Nat
    BY <1>1, Ends
  <2>4. PICK t \in 1..team : k \in chunk[t - 1] + 1..chunk[t]
    BY <1>1, <2>3, Covering
  <2>5. k \in Done(t)
    BY <1>1, <2>4 DEF AtEnd, Done
  <2>6. QED
    BY <1>1, <2>2, <2>5 DEF Filled, Written
<1>4. DOMAIN curTmpTable = 1..Rank(N)
  BY <1>1 DEF Filled, TypeOK
<1>5. SelectionExact'
  <2>1. DOMAIN facts = 1..N /\ N = Len(facts)
    BY <1>1 DEF TypeOK, N
  <2>2. Rank(Len(facts))' = Rank(N) /\ \A k \in 1..N : Selected(k)' = Selected(k) /\ Rank(k)' = Rank(k)
    BY <1>1 DEF N, Rank, Selected
  <2>3. QED
    BY <1>1, <1>3, <1>4, <2>1, <2>2 DEF SelectionExact
<1>6. QED
  BY <1>1, <1>2, <1>5 DEF IInv, Region, Scanned, Counted, Added, Filled
------------------------------------------------------------------------------
\* The parts of two threads have no iteration in common, and so the places
\* that they write to are different.
LEMMA IInvWritesApart == IInv => WritesApart
<1>1. SUFFICES ASSUME IInv, stage = "filling", NEW t \in 1..team, t \in begun,
                      position[t] < chunk[t], Selected(position[t] + 1)
               PROVE  j[t] + 1 \in DOMAIN curTmpTable /\ curTmpTable[j[t] + 1] = Unset
  BY DEF WritesApart
<1> DEFINE k == position[t] + 1
<1>2. TypeOK /\ ChunkOK /\ Filled /\ Within /\ N \in Nat /\ team \in Nat
  <2>1. TypeOK /\ ChunkOK /\ Filled /\ Within
    BY <1>1 DEF IInv, Region, Filled
  <2>2. QED
    BY <2>1, Ends
<1>3. k \in 1..N /\ position[t] \in Nat /\ chunk[t] \in Nat /\ t \in Nat
  <2>1. chunk[t] \in Nat /\ chunk[t] <= N /\ position[t] \in Nat /\ t \in Nat
    BY <1>2, DoneTypes
  <2>2. QED
    BY <1>1, <1>2, <2>1
<1>4. Rank(k) = j[t] + 1
  BY <1>1, <1>2, <1>3, RankStep DEF Filled, Cursors
<1>5. Rank(k) \in 1..Rank(N) /\ DOMAIN curTmpTable = 1..Rank(N)
  BY <1>1, <1>2, <1>3, RankPlace DEF Filled, TypeOK
<1>6. ASSUME curTmpTable[Rank(k)] # Unset
      PROVE  FALSE
  <2>1. PICK u \in 1..team : \E l \in Done(u) : Selected(l) /\ Rank(k) = Rank(l)
    BY <1>1, <1>2, <1>5, <1>6 DEF Filled, NothingElse
  <2>2. PICK l \in Done(u) : Selected(l) /\ Rank(k) = Rank(l)
    BY <2>1
  <2>3. /\ u \in Nat /\ u - 1 \in 0..team /\ u \in 0..team
        /\ chunk[u - 1] \in Nat /\ chunk[u] \in Nat /\ position[u] \in Nat
    BY <1>2, DoneTypes
  <2>4. l \in Nat /\ chunk[u - 1] < l /\ l <= position[u]
    BY <2>3 DEF Done
  <2>5. l = k
    BY <1>1, <1>3, <2>2, <2>4, RankInjective
  <2>6. CASE u = t
    BY <1>3, <2>4, <2>5, <2>6
  <2>7. CASE u < t
    <3>1. t - 1 \in 0..team /\ chunk[t - 1] \in Nat
      BY <1>2, DoneTypes
    <3>2. chunk[u] <= chunk[t - 1]
      BY <1>2, <1>3, <2>3, <2>7, <3>1 DEF ChunkOK
    <3>3. position[u] <= chunk[u] /\ chunk[t - 1] <= position[t]
      BY <1>2 DEF Within
    <3>4. QED
      BY <1>3, <2>3, <2>4, <2>5, <3>1, <3>2, <3>3
  <2>8. CASE u > t
    <3>1. chunk[t] <= chunk[u - 1]
      BY <1>2, <1>3, <2>3, <2>8 DEF ChunkOK
    <3>2. QED
      BY <1>1, <1>3, <2>3, <2>4, <2>5, <3>1
  <2>9. QED
    BY <1>3, <2>3, <2>6, <2>7, <2>8
<1>7. QED
  BY <1>4, <1>5, <1>6

LEMMA NextIInv ==
  ASSUME IInv, [Next]_selectionVars
  PROVE  IInv'
<1>2. CASE UNCHANGED selectionVars
  <2>1. TypeOK' /\ NothingYet' /\ (Region => ChunkOK)'
    BY <1>2 DEF selectionVars, IInv, TypeOK, NothingYet, Region, ChunkOK, N
  <2>2. (Scanned /\ Counted)'
    BY <1>2 DEF selectionVars, IInv, Scanned, Counted, Within, N, Rank, Selected
  <2>3. Added'
    BY <1>2 DEF selectionVars, IInv, Added, End, N, Rank, Selected
  <2>4. Filled'
    <3>1. Within => Within'
      BY <1>2 DEF selectionVars, Within
    <3>2. (Sums => Sums') /\ (Cursors => Cursors')
      BY <1>2 DEF selectionVars, Sums, Cursors, End, N, Rank, Selected
    <3>3. Written => Written'
      BY <1>2 DEF selectionVars, Written, Done, Rank, Selected
    <3>4. NothingElse => NothingElse'
      <4>1. /\ \A k : Rank(k)' = Rank(k) /\ Selected(k)' = Selected(k)
            /\ \A t : Done(t)' = Done(t)
            /\ N' = N /\ team' = team /\ curTmpTable' = curTmpTable
        BY <1>2 DEF selectionVars, Done, N, Rank, Selected
      <4>2. Rank(N)' = Rank(N)
        BY <1>2 DEF selectionVars, N, Rank, Selected
      <4>3. QED
        BY <4>1, <4>2 DEF NothingElse
    <3>5. Rank(N)' = Rank(N)
      BY <1>2 DEF selectionVars, N, Rank, Selected
    <3>6. QED
      BY <1>2, <3>1, <3>2, <3>3, <3>4, <3>5 DEF selectionVars, IInv, Filled
  <2>5. SelectionExact'
    BY <1>2 DEF selectionVars, IInv, SelectionExact, Rank, Selected
  <2>6. QED
    BY <2>1, <2>2, <2>3, <2>4, <2>5 DEF IInv
<1>3. CASE MainStep
  BY <1>3, StartScanStep, ScanStep, EndScanStep, ForkStep, JoinCountingStep, AddUpStep,
     ForkAgainStep, JoinFillingStep DEF MainStep
<1>4. ASSUME NEW t \in Threads, ThreadStep(t)
      PROVE  IInv'
  BY <1>4, CountStep, BeginStep, FillStep DEF ThreadStep
<1>5. QED
  BY <1>2, <1>3, <1>4 DEF Next

LEMMA Inductive == Spec => []IInv
BY InitIInv, NextIInv, PTL DEF Spec

\* For every relation, team and schedule the table of a parallel selection is
\* that of the serial loop (EvalSubgoal.cc 115-230).
THEOREM SelectionIsExact == Spec => []SelectionExact
<1>1. IInv => SelectionExact
  BY DEF IInv
<1>2. QED
  BY Inductive, <1>1, PTL

\* No thread of the second loop writes outside the table or over the result
\* of another one (EvalSubgoal.cc 217-228).
THEOREM WritesAreApart == Spec => []WritesApart
BY Inductive, IInvWritesApart, PTL
------------------------------------------------------------------------------
Path == Seq({1, 2})

\* q is below p in the tree of the calls.
Below(q, p) == Len(p) < Len(q) /\ \A i \in 1..Len(p) : q[i] = p[i]

LEMMA HalfBelow ==
  ASSUME NEW p \in Path, NEW h \in {1, 2}
  PROVE  Append(p, h) \in Path /\ Below(Append(p, h), p) /\ Append(p, h) # p
BY DEF Path, Below

LEMMA HalvesDiffer ==
  ASSUME NEW p \in Path, NEW q \in Path, NEW h \in {1, 2}, NEW k \in {1, 2}
  PROVE  /\ Append(p, h) = Append(q, k) => p = q /\ h = k
         /\ ~Below(Append(p, h), Append(p, k))
<1>1. ASSUME Append(p, h) = Append(q, k)
      PROVE  p = q /\ h = k
  <2>1. Len(p) = Len(q)
    BY <1>1, AppendProperties DEF Path
  <2>2. \A i \in 1..Len(p) : p[i] = q[i]
    BY <1>1, <2>1, AppendProperties DEF Path
  <2>3. Append(p, h)[Len(p) + 1] = h /\ Append(q, k)[Len(q) + 1] = k
    BY AppendProperties DEF Path
  <2>4. p = q
    BY <2>1, <2>2, SeqEqual DEF Path
  <2> QED
    BY <1>1, <2>1, <2>3, <2>4
<1>2. ~Below(Append(p, h), Append(p, k))
  BY AppendProperties DEF Path, Below
<1> QED
  BY <1>1, <1>2

\* Below is transitive.
LEMMA BelowBelow ==
  ASSUME NEW p \in Path, NEW q \in Path, NEW r \in Path, Below(r, q), Below(q, p)
  PROVE  Below(r, p)
<1>1. \A i \in 1..Len(p) : i \in 1..Len(q)
  BY DEF Below, Path
<1>2. Len(p) < Len(r)
  BY DEF Below, Path
<1> QED
  BY <1>1, <1>2 DEF Below

\* What is above a half is the whole or above it.
LEMMA AboveHalf ==
  ASSUME NEW p \in Path, NEW r \in Path, NEW h \in {1, 2}, Below(Append(p, h), r)
  PROVE  r = p \/ Below(p, r)
<1>1. Len(Append(p, h)) = Len(p) + 1 /\ \A i \in 1..Len(p) : Append(p, h)[i] = p[i]
  BY AppendProperties DEF Path
<1>2. Len(r) <= Len(p) /\ \A i \in 1..Len(r) : p[i] = r[i]
  BY <1>1 DEF Below, Path
<1>3. CASE Len(r) = Len(p)
  BY <1>2, <1>3, SeqEqual DEF Path
<1>4. CASE Len(r) # Len(p)
  BY <1>2, <1>4 DEF Below, Path
<1> QED
  BY <1>3, <1>4

LEMMA NotBelowItself ==
  ASSUME NEW p \in Path
  PROVE  ~Below(p, p)
BY DEF Path, Below
------------------------------------------------------------------------------
(***************************************************************************)
(* The tree of the calls and their parts.                                  *)
(***************************************************************************)
M == Len(curTmpTable)

PartMid(t) == t.lo + t.size \div 2
PartEnd(t) == t.lo + t.size

TempEnd(t) == t.tempLo + t.size

Fields == {"lo", "size", "tempLo", "threads", "pc", "i1", "i2", "tempi"}

TaskOK(t) ==
  /\ DOMAIN t = Fields
  /\ t.pc \in {"called", "sections", "first", "second", "merging", "returned"}
  /\ t.threads \in Nat \ {0}
  /\ t.lo \in Nat /\ t.size \in Nat /\ t.tempLo \in Nat
  /\ PartEnd(t) <= M /\ TempEnd(t) <= M

\* Those who wait for a call do so in the tree.
Tree ==
  \A p \in DOMAIN tasks :
    /\ Calls(p, tasks[p].pc) \subseteq DOMAIN tasks
    /\ \A q \in DOMAIN tasks :
         Below(q, p) => \E c \in Calls(p, tasks[p].pc) : q = c \/ Below(q, c)

\* The parts of t are parts of u's.
Inside(t, u) ==
  /\ u.lo <= t.lo /\ PartEnd(t) <= PartEnd(u)
  /\ u.tempLo <= t.tempLo /\ TempEnd(t) <= TempEnd(u)

Distinct(t, u) ==
  /\ PartEnd(t) <= u.lo \/ PartEnd(u) <= t.lo
  /\ TempEnd(t) <= u.tempLo \/ TempEnd(u) <= t.tempLo

Nested == \A p, q \in DOMAIN tasks : Below(q, p) => Inside(tasks[q], tasks[p])

Apart ==
  \A p, q \in DOMAIN tasks : p # q /\ ~Below(q, p) /\ ~Below(p, q) => Distinct(tasks[p], tasks[q])

IsHalf(c, t, h) ==
  /\ c.lo = IF h = 1 THEN t.lo ELSE PartMid(t)
  /\ PartEnd(c) = IF h = 1 THEN PartMid(t) ELSE PartEnd(t)

Halved ==
  \A p \in DOMAIN tasks : \A h \in {1, 2} :
    Append(p, h) \in DOMAIN tasks => IsHalf(tasks[Append(p, h)], tasks[p], h)

TasksOK == M \in Nat /\ DOMAIN tasks \subseteq Path /\ \A p \in DOMAIN tasks : TaskOK(tasks[p])

Shape == TasksOK /\ Tree /\ Nested /\ Apart /\ Halved

\* What a call gets.
LEMMA HalfTask ==
  ASSUME M \in Nat, NEW t, TaskOK(t)
  PROVE  /\ t.pc = "called" => t.threads = 1 \/ t.threads > 1
         /\ TaskOK(FirstHalf(t)) /\ Inside(FirstHalf(t), t) /\ IsHalf(FirstHalf(t), t, 1)
         /\ TaskOK(SecondHalf(t)) /\ Inside(SecondHalf(t), t) /\ IsHalf(SecondHalf(t), t, 2)
         /\ t.threads > 1 => Distinct(FirstHalf(t), SecondHalf(t)) /\ Distinct(SecondHalf(t), FirstHalf(t))
         /\ FirstHalf(t).pc = "called" /\ SecondHalf(t).pc = "called"
<1> DEFINE half == t.size \div 2
           rest == t.size - t.size \div 2
<1>1. half \in Nat /\ rest \in Nat /\ half + rest = t.size
  BY DEF TaskOK
<1>2. t.threads > 1 => t.threads \div 2 \in Nat \ {0} /\ t.threads - t.threads \div 2 \in Nat \ {0}
  BY DEF TaskOK
<1>3. t.threads = 1 => t.threads - t.threads \div 2 = 1
  BY DEF TaskOK
<1>4. t.threads = 1 \/ t.threads > 1
  BY DEF TaskOK
<1> DEFINE f == FirstHalf(t)
           s == SecondHalf(t)
<1>5. /\ f.lo = t.lo /\ f.size = half /\ f.tempLo = t.tempLo /\ f.pc = "called"
      /\ f.threads = IF t.threads = 1 THEN 1 ELSE t.threads \div 2
      /\ DOMAIN f = Fields
  BY DEF FirstHalf, Task, Fields
<1>6. /\ s.lo = t.lo + half /\ s.size = rest /\ s.pc = "called"
      /\ s.tempLo = IF t.threads = 1 THEN t.tempLo ELSE t.tempLo + half
      /\ s.threads = t.threads - t.threads \div 2
      /\ DOMAIN s = Fields
  BY DEF SecondHalf, Task, Fields
<1>7. f.threads \in Nat \ {0} /\ s.threads \in Nat \ {0}
  BY <1>2, <1>3, <1>4, <1>5, <1>6
<1>8. PartMid(t) = t.lo + half
  BY DEF PartMid
<1>9. /\ t.lo \in Nat /\ t.size \in Nat /\ t.tempLo \in Nat /\ M \in Nat
      /\ t.lo + t.size <= M /\ t.tempLo + t.size <= M
  <2>1. t.lo \in Nat /\ t.size \in Nat /\ t.tempLo \in Nat /\ t.lo + t.size <= M /\ t.tempLo + t.size <= M
    BY DEF TaskOK, PartEnd, TempEnd
  <2> QED
    BY <2>1
<1> HIDE DEF half, rest, f, s
<1>10. TaskOK(f) /\ Inside(f, t) /\ IsHalf(f, t, 1)
  BY <1>1, <1>5, <1>7, <1>8, <1>9 DEF TaskOK, Inside, IsHalf, PartEnd, TempEnd
<1>11. TaskOK(s) /\ Inside(s, t) /\ IsHalf(s, t, 2)
  <2>1. s.lo \in Nat /\ s.size \in Nat /\ s.tempLo \in Nat /\ t.tempLo <= s.tempLo
    BY <1>1, <1>6, <1>9
  <2>2. s.lo + s.size = t.lo + t.size /\ s.tempLo + s.size <= t.tempLo + t.size /\ t.lo <= s.lo
    BY <1>1, <1>6, <1>9
  <2> QED
    BY <1>1, <1>6, <1>7, <1>8, <1>9, <2>1, <2>2 DEF TaskOK, Inside, IsHalf, PartEnd, TempEnd
<1>12. t.threads > 1 => Distinct(f, s) /\ Distinct(s, f)
  BY <1>1, <1>5, <1>6, <1>9 DEF Distinct, PartEnd, TempEnd
<1> QED
  BY <1>4, <1>5, <1>6, <1>10, <1>11, <1>12 DEF f, s

\* The places in the program where a call goes on from one to the other.
Goes(t, pc) ==
  \/ t.pc = "called" /\ t.threads > 1 /\ pc = "sections"
  \/ t.pc = "called" /\ pc = "first"
  \/ t.pc = "first" /\ pc = "second"
  \/ t.pc \in {"sections", "second"} /\ pc = "merging"

\* What going on does to the tree.
LEMMA GoOnTasks ==
  ASSUME Shape, NEW p \in DOMAIN tasks, NEW pc, GoOn(p, pc), Goes(tasks[p], pc)
  PROVE  /\ p \in Path /\ p \in DOMAIN tasks'
         /\ DOMAIN tasks' = (DOMAIN tasks \ Calls(p, tasks[p].pc)) \cup Calls(p, pc)
         /\ Calls(p, pc) \subseteq {Append(p, 1), Append(p, 2)}
         /\ \A q \in DOMAIN tasks \ Calls(p, tasks[p].pc) : ~Below(q, p)
         /\ \A q \in Calls(p, pc) : q \in Path /\ Below(q, p) /\ q # p
         /\ tasks'[p] = [tasks[p] EXCEPT !.pc = pc]
         /\ Append(p, 1) \in Calls(p, pc) => tasks'[Append(p, 1)] = FirstHalf(tasks[p])
         /\ Append(p, 2) \in Calls(p, pc) => tasks'[Append(p, 2)] = SecondHalf(tasks[p])
         /\ \A q \in DOMAIN tasks' : q # p /\ q \notin Calls(p, pc) =>
              q \in DOMAIN tasks /\ q \notin Calls(p, tasks[p].pc) /\ tasks'[q] = tasks[q]
         /\ Append(p, 1) \in Calls(p, pc) /\ Append(p, 2) \in Calls(p, pc) => tasks[p].threads > 1
<1> DEFINE Old == Calls(p, tasks[p].pc)
           New == Calls(p, pc)
           a == Append(p, 1)
           b == Append(p, 2)
<1>1. p \in Path /\ \A q \in DOMAIN tasks : q \in Path
  BY DEF Shape, TasksOK
<1>2. /\ a \in Path /\ b \in Path /\ Below(a, p) /\ Below(b, p) /\ a # p /\ b # p /\ a # b
  BY <1>1, HalfBelow, HalvesDiffer
<1>3. Old \subseteq {a, b} /\ New \subseteq {a, b}
  BY DEF Calls, Awaited
<1>4. \A q \in Old : tasks[q].pc = "returned"
  BY DEF GoOn
<1>5. ASSUME NEW q \in DOMAIN tasks \ Old
      PROVE  ~Below(q, p)
  <2>1. SUFFICES ASSUME Below(q, p)
                 PROVE  FALSE
    OBVIOUS
  <2>2. PICK c \in Old : q = c \/ Below(q, c)
    BY <2>1 DEF Shape, Tree
  <2>3. Below(q, c) /\ c \in DOMAIN tasks /\ Calls(c, tasks[c].pc) = {}
    BY <1>4, <2>2 DEF Shape, Tree, Calls, Awaited
  <2> QED
    BY <2>3 DEF Shape, Tree
<1>6. DOMAIN tasks' = (DOMAIN tasks \ Old) \cup New
  BY DEF GoOn
<1>7. p \in DOMAIN tasks' /\ p \notin New
  BY <1>2, <1>3, <1>6
<1>8. tasks'[p] = [tasks[p] EXCEPT !.pc = pc]
  BY <1>6, <1>7 DEF GoOn
<1>9. ASSUME a \in New
      PROVE  tasks'[a] = FirstHalf(tasks[p])
  BY <1>2, <1>6, <1>9 DEF GoOn
<1>10. ASSUME b \in New
       PROVE  tasks'[b] = SecondHalf(tasks[p])
  BY <1>2, <1>6, <1>10 DEF GoOn
<1>11. ASSUME NEW q \in DOMAIN tasks', q # p, q \notin New
       PROVE  q \in DOMAIN tasks /\ q \notin Old /\ tasks'[q] = tasks[q]
  <2>1. q \in DOMAIN tasks \ Old
    BY <1>6, <1>11
  <2>2. q # a /\ q # b
    BY <1>2, <1>5, <2>1
  <2> QED
    BY <1>6, <1>11, <2>1, <2>2 DEF GoOn
<1>12. ASSUME a \in New, b \in New
       PROVE  tasks[p].threads > 1
  <2>1. pc = "sections"
    <3>1. \A h \in {1, 2} : Append(p, h) \in New => h \in Awaited(pc)
      BY <1>1, HalvesDiffer DEF Calls, Awaited
    <3> QED
      BY <1>12, <3>1 DEF Goes, Awaited
  <2> QED
    BY <2>1 DEF Goes
<1> QED
  BY <1>1, <1>2, <1>3, <1>5, <1>6, <1>7, <1>8, <1>9, <1>10, <1>11, <1>12

LEMMA GoOnShape ==
  ASSUME Shape, NEW p \in DOMAIN tasks, NEW pc, GoOn(p, pc), Goes(tasks[p], pc), M' = M
  PROVE  Shape'
<1> DEFINE Old == Calls(p, tasks[p].pc)
           New == Calls(p, pc)
           a == Append(p, 1)
           b == Append(p, 2)
           t == tasks[p]
<1>1. /\ p \in Path /\ p \in DOMAIN tasks' /\ DOMAIN tasks' = (DOMAIN tasks \ Old) \cup New
      /\ New \subseteq {a, b}
      /\ \A q \in DOMAIN tasks \ Old : ~Below(q, p)
      /\ \A q \in New : q \in Path /\ Below(q, p) /\ q # p
      /\ tasks'[p] = [t EXCEPT !.pc = pc]
      /\ a \in New => tasks'[a] = FirstHalf(t)
      /\ b \in New => tasks'[b] = SecondHalf(t)
      /\ \A q \in DOMAIN tasks' : q # p /\ q \notin New =>
           q \in DOMAIN tasks /\ q \notin Old /\ tasks'[q] = tasks[q]
      /\ a \in New /\ b \in New => t.threads > 1
  BY GoOnTasks
<1>2. M \in Nat /\ (\A q \in DOMAIN tasks : q \in Path /\ TaskOK(tasks[q])) /\ Tree /\ Nested /\ Apart /\ Halved
  BY DEF Shape, TasksOK
<1>3. /\ TaskOK(FirstHalf(t)) /\ Inside(FirstHalf(t), t) /\ IsHalf(FirstHalf(t), t, 1)
      /\ TaskOK(SecondHalf(t)) /\ Inside(SecondHalf(t), t) /\ IsHalf(SecondHalf(t), t, 2)
      /\ t.threads > 1 => Distinct(FirstHalf(t), SecondHalf(t)) /\ Distinct(SecondHalf(t), FirstHalf(t))
      /\ FirstHalf(t).pc = "called" /\ SecondHalf(t).pc = "called"
  BY <1>2, HalfTask
<1>4. \A q \in New : TaskOK(tasks'[q]) /\ Inside(tasks'[q], t) /\ tasks'[q].pc = "called"
  BY <1>1, <1>3
<1>5. \A q, r \in New : q # r => Distinct(tasks'[q], tasks'[r])
  BY <1>1, <1>3
<1>6. /\ tasks'[p].lo = t.lo /\ tasks'[p].size = t.size /\ tasks'[p].tempLo = t.tempLo
      /\ tasks'[p].threads = t.threads /\ tasks'[p].pc = pc /\ DOMAIN tasks'[p] = Fields
  <2>1. DOMAIN t = Fields
    BY <1>2 DEF TaskOK
  <2> QED
    BY <1>1, <2>1 DEF Fields
<1>7. \A q \in DOMAIN tasks' : q \in Path
  BY <1>1, <1>2
<1>8. ASSUME NEW q \in New, NEW r \in New
      PROVE  ~Below(q, r)
  <2>1. q \in {a, b} /\ r \in {a, b}
    BY <1>1
  <2>2. ~Below(a, a) /\ ~Below(a, b) /\ ~Below(b, a) /\ ~Below(b, b)
    BY <1>1, HalvesDiffer
  <2> HIDE DEF a, b, New
  <2> QED
    BY <2>1, <2>2
\* The new calls are below what is above their caller.
<1>9. ASSUME NEW q \in New, NEW r \in DOMAIN tasks, Below(q, r)
      PROVE  r = p \/ Below(p, r)
  <2>1. q \in {a, b} /\ r \in Path
    BY <1>1, <1>2
  <2>2. Below(a, r) => r = p \/ Below(p, r)
    BY <1>1, <2>1, AboveHalf
  <2>3. Below(b, r) => r = p \/ Below(p, r)
    BY <1>1, <2>1, AboveHalf
  <2> HIDE DEF a, b, New
  <2> QED
    BY <1>9, <2>1, <2>2, <2>3
<1>15. /\ Old = Calls(p, t.pc) /\ New = Calls(p, pc) /\ t = tasks[p]
       /\ \A r \in Path : \A x : \A c \in Calls(r, x) : c \in Old => r = p
  <2>1. \A r \in Path : \A h, k \in {1, 2} : Append(r, h) = Append(p, k) => r = p
    BY <1>1, HalvesDiffer
  <2>2. \A r : \A x : \A c \in Calls(r, x) : \E h \in {1, 2} : c = Append(r, h)
    BY DEF Calls, Awaited
  <2> QED
    BY <2>1, <2>2
<1> HIDE DEF Old, New, a, b, t
<1>16. ASSUME NEW q \in DOMAIN tasks', Below(q, p)
       PROVE  q \in New
  BY <1>1, <1>16
<1>17. ASSUME NEW r \in New, NEW q \in DOMAIN tasks'
       PROVE  ~Below(q, r)
  <2>1. SUFFICES ASSUME Below(q, r)
                 PROVE  FALSE
    OBVIOUS
  <2>2. Below(q, p)
    BY <1>1, <1>7, <2>1, BelowBelow
  <2> QED
    BY <1>8, <1>16, <2>1, <2>2
<1>10. TasksOK'
  <2>1. ASSUME NEW q \in DOMAIN tasks'
        PROVE  TaskOK(tasks'[q])
    <3>1. CASE q = p
      <4>1. TaskOK(t)
        BY <1>2 DEF t
      <4> QED
        BY <1>6, <3>1, <4>1 DEF TaskOK, PartEnd, TempEnd, Goes
    <3>2. CASE q \in New
      BY <1>4, <3>2
    <3>3. CASE q # p /\ q \notin New
      BY <1>1, <1>2, <3>3
    <3> QED
      BY <3>1, <3>2, <3>3
  <2> QED
    BY <1>2, <1>7, <2>1 DEF TasksOK, TaskOK
<1>11. Tree'
  <2>1. ASSUME NEW r \in DOMAIN tasks', NEW q \in DOMAIN tasks', Below(q, r)
        PROVE  \E c \in Calls(r, tasks'[r].pc) : q = c \/ Below(q, c)
    <3>1. CASE r = p
      BY <1>6, <1>15, <1>16, <2>1, <3>1
    <3>2. CASE r # p /\ r \notin New /\ q \notin New
      <4>1. r \in DOMAIN tasks /\ tasks'[r] = tasks[r] /\ q \in DOMAIN tasks
        BY <1>1, <3>2
      <4> QED
        BY <1>2, <2>1, <4>1 DEF Tree
    <3>3. CASE r # p /\ r \notin New /\ q \in New
      <4>1. r \in DOMAIN tasks /\ tasks'[r] = tasks[r]
        BY <1>1, <3>3
      <4>2. Below(p, r)
        BY <1>9, <2>1, <3>3, <4>1
      <4>3. PICK c \in Calls(r, tasks[r].pc) : p = c \/ Below(p, c)
        BY <1>2, <4>1, <4>2 DEF Tree
      <4>4. c \in Path
        BY <1>2, <4>1 DEF Tree
      <4>5. Below(q, c)
        BY <1>1, <3>3, <4>3, <4>4, BelowBelow
      <4> QED
        BY <4>1, <4>5
    <3> QED
      BY <1>17, <2>1, <3>1, <3>2, <3>3
  <2>2. ASSUME NEW r \in DOMAIN tasks'
        PROVE  Calls(r, tasks'[r].pc) \subseteq DOMAIN tasks'
    <3>1. CASE r = p
      BY <1>1, <1>6, <1>15, <3>1
    <3>2. CASE r \in New
      BY <1>4, <3>2 DEF Calls, Awaited
    <3>3. CASE r # p /\ r \notin New
      <4>1. r \in DOMAIN tasks /\ tasks'[r] = tasks[r] /\ r \in Path
        BY <1>1, <1>2, <3>3
      <4>2. Calls(r, tasks[r].pc) \subseteq DOMAIN tasks
        BY <1>2, <4>1 DEF Tree
      <4>3. \A c \in Calls(r, tasks[r].pc) : c \notin Old
        BY <1>15, <3>3, <4>1
      <4> QED
        BY <1>1, <4>1, <4>2, <4>3
    <3> QED
      BY <3>1, <3>2, <3>3
  <2> QED
    BY <2>1, <2>2 DEF Tree, Calls
\* p has the part that it had.
<1>18. ASSUME NEW q \in DOMAIN tasks', q \notin New
       PROVE  /\ q \in DOMAIN tasks
              /\ tasks'[q].lo = tasks[q].lo /\ tasks'[q].size = tasks[q].size
              /\ tasks'[q].tempLo = tasks[q].tempLo
  BY <1>1, <1>6, <1>15, <1>18
<1>19. TaskOK(t)
  BY <1>2, <1>15
<1>12. Nested'
  <2> SUFFICES ASSUME NEW r \in DOMAIN tasks', NEW q \in DOMAIN tasks', Below(q, r)
               PROVE  Inside(tasks'[q], tasks'[r])
    BY DEF Nested, Inside, PartEnd, TempEnd
  <2>1. r \notin New
    BY <1>17
  <2>2. CASE q \notin New
    BY <1>2, <1>18, <2>1, <2>2 DEF Nested, Inside, PartEnd, TempEnd
  <2>3. CASE q \in New
    <3>1. r \in DOMAIN tasks /\ TaskOK(tasks[r])
      BY <1>2, <1>18, <2>1
    <3>2. r = p \/ Inside(t, tasks[r])
      BY <1>2, <1>9, <1>15, <2>3, <3>1 DEF Nested
    <3>3. Inside(tasks'[q], t) /\ TaskOK(tasks'[q])
      BY <1>4, <2>3
    <3>4. Inside(tasks'[q], tasks[r])
      BY <1>15, <1>19, <1>2, <3>1, <3>2, <3>3 DEF Inside, TaskOK, PartEnd, TempEnd
    <3> QED
      BY <1>18, <2>1, <3>4 DEF Inside, PartEnd, TempEnd
  <2> QED
    BY <2>2, <2>3
<1>13. Apart'
  \* A new call and one that was there.
  <2>1. ASSUME NEW r \in DOMAIN tasks', NEW q \in New, r \notin New, ~Below(q, r), ~Below(r, q)
        PROVE  Distinct(tasks'[r], tasks'[q]) /\ Distinct(tasks'[q], tasks'[r])
    <3>1. r \in DOMAIN tasks /\ TaskOK(tasks[r]) /\ r # p
      BY <1>1, <1>2, <1>18, <2>1
    <3>2. ~Below(p, r)
      BY <1>1, <1>2, <2>1, <3>1, BelowBelow
    <3>3. ~Below(r, p)
      BY <1>16, <2>1
    <3>4. Distinct(tasks[r], t)
      BY <1>2, <1>15, <3>1, <3>2, <3>3 DEF Apart
    <3>5. Inside(tasks'[q], t) /\ TaskOK(tasks'[q])
      BY <1>4
    <3>6. Distinct(tasks[r], tasks'[q]) /\ Distinct(tasks'[q], tasks[r])
      BY <1>2, <1>19, <3>1, <3>4, <3>5 DEF Inside, Distinct, TaskOK, PartEnd, TempEnd
    <3> QED
      BY <1>18, <2>1, <3>6 DEF Distinct, PartEnd, TempEnd
  <2> SUFFICES ASSUME NEW r \in DOMAIN tasks', NEW q \in DOMAIN tasks', r # q, ~Below(q, r), ~Below(r, q)
               PROVE  Distinct(tasks'[r], tasks'[q])
    BY DEF Apart, Distinct, PartEnd, TempEnd
  <2>2. CASE q \notin New /\ r \notin New
    BY <1>2, <1>18, <2>2 DEF Apart, Distinct, PartEnd, TempEnd
  <2> QED
    BY <1>5, <2>1, <2>2
<1>14. Halved'
  <2> SUFFICES ASSUME NEW r \in DOMAIN tasks', NEW h \in {1, 2}, Append(r, h) \in DOMAIN tasks'
               PROVE  IsHalf(tasks'[Append(r, h)], tasks'[r], h)
    BY DEF Halved, IsHalf, PartEnd, PartMid
  <2> DEFINE c == Append(r, h)
  <2>1. r \in Path /\ Below(c, r)
    BY <1>7, HalfBelow
  <2>2. r \notin New
    BY <1>17, <2>1
  <2>3. CASE r = p
    <3>1. c \in New
      BY <1>16, <2>1, <2>3
    <3>2. IsHalf(tasks'[c], t, h)
      BY <1>1, <1>3, <2>3, <3>1 DEF a, b
    <3> QED
      BY <1>6, <2>3, <3>2 DEF IsHalf, PartEnd, PartMid
  <2>4. CASE r # p
    <3>1. c \notin New
      <4>1. \A k \in {1, 2} : c # Append(p, k)
        BY <1>1, <2>1, <2>4, HalvesDiffer
      <4> QED
        BY <1>1, <4>1 DEF a, b
    <3>2. IsHalf(tasks[c], tasks[r], h)
      BY <1>2, <1>18, <2>2, <3>1 DEF Halved
    <3> QED
      BY <1>18, <2>2, <3>1, <3>2 DEF IsHalf, PartEnd, PartMid
  <2> QED
    BY <2>3, <2>4
<1> QED
  BY <1>10, <1>11, <1>12, <1>13, <1>14 DEF Shape

Running == {"called", "merging", "returned"}

\* A step that makes and ends no calls and leaves the parts alone.
LEMMA StayShape ==
  ASSUME Shape, M' = M, DOMAIN tasks' = DOMAIN tasks,
         NEW p \in DOMAIN tasks, tasks[p].pc \in Running, tasks'[p].pc \in Running,
         \A q \in DOMAIN tasks : q # p => tasks'[q] = tasks[q],
         DOMAIN tasks'[p] = Fields, tasks'[p].lo = tasks[p].lo, tasks'[p].size = tasks[p].size,
         tasks'[p].tempLo = tasks[p].tempLo, tasks'[p].threads = tasks[p].threads
  PROVE  Shape'
<1>1. /\ M \in Nat /\ Tree /\ Nested /\ Apart /\ Halved
      /\ \A q \in DOMAIN tasks : q \in Path /\ TaskOK(tasks[q])
  BY DEF Shape, TasksOK
<1>2. ASSUME NEW q \in DOMAIN tasks
      PROVE  /\ tasks'[q].lo = tasks[q].lo /\ tasks'[q].size = tasks[q].size
             /\ tasks'[q].tempLo = tasks[q].tempLo /\ tasks'[q].threads = tasks[q].threads
             /\ Calls(q, tasks'[q].pc) = Calls(q, tasks[q].pc)
  <2>1. \A pc \in Running : Awaited(pc) = {}
    BY DEF Running, Awaited
  <2> QED
    BY <2>1 DEF Calls
<1>3. TasksOK'
  BY <1>1, <1>2 DEF TasksOK, TaskOK, PartEnd, TempEnd, Running, Fields
<1>4. Tree'
  <2>1. \A q \in DOMAIN tasks : Calls(q, tasks[q].pc)' = Calls(q, tasks[q].pc)
    BY <1>2 DEF Calls
  <2> QED
    BY <1>1, <1>2 DEF Tree, Calls
<1>5. Nested'
  BY <1>1, <1>2 DEF Nested, Inside, PartEnd, TempEnd
<1>6. Apart'
  BY <1>1, <1>2 DEF Apart, Distinct, PartEnd, TempEnd
<1>7. Halved'
  BY <1>1, <1>2 DEF Halved, IsHalf, PartEnd, PartMid
<1> QED
  BY <1>3, <1>4, <1>5, <1>6, <1>7 DEF Shape

\* Those who run are apart.
LEMMA LeavesApart ==
  ASSUME Shape, NEW p \in DOMAIN tasks, NEW q \in DOMAIN tasks, p # q,
         tasks[p].pc \in Running, tasks[q].pc \in Running
  PROVE  Distinct(tasks[p], tasks[q])
<1>1. Calls(p, tasks[p].pc) = {} /\ Calls(q, tasks[q].pc) = {}
  BY DEF Calls, Awaited, Running
<1>2. ~Below(p, q) /\ ~Below(q, p)
  BY <1>1 DEF Shape, Tree
<1> QED
  BY <1>2 DEF Shape, Apart

LEMMA ShapeNoDataRaces == Shape => NoDataRaces
<1> SUFFICES ASSUME Shape, NEW p \in DOMAIN tasks, NEW q \in DOMAIN tasks, p # q, Active(p), Active(q)
             PROVE  /\ Part(tasks[p].lo, tasks[p]) \cap Part(tasks[q].lo, tasks[q]) = {}
                    /\ Part(tasks[p].tempLo, tasks[p]) \cap Part(tasks[q].tempLo, tasks[q]) = {}
  BY DEF NoDataRaces
<1>1. Distinct(tasks[p], tasks[q])
  BY LeavesApart DEF Active, Running
<1>2. TaskOK(tasks[p]) /\ TaskOK(tasks[q])
  BY DEF Shape, TasksOK
<1>3. \A a, b, c, d, x \in Nat : a + b <= c => (x \notin a + 1..a + b \/ x \notin c + 1..c + d)
  OBVIOUS
<1>4. \A a, b \in Nat : a + 1..a + b \subseteq Nat
  OBVIOUS
<1> QED
  BY <1>1, <1>2, <1>3, <1>4 DEF Distinct, TaskOK, Part, PartEnd, TempEnd
------------------------------------------------------------------------------
(***************************************************************************)
(* The order that the mergesort makes.                                     *)
(***************************************************************************)
Before(a, b) == Cmp(a, b) \/ (~Cmp(b, a) /\ a > b)

\* The table has references to facts.
Readable ==
  /\ M \in Nat
  /\ \A i \in 1..M : curTmpTable[i] \in DOMAIN facts /\ facts[curTmpTable[i]].key \in Nat

LEMMA BeforeIsOrder ==
  ASSUME Readable, NEW a \in 1..M, NEW b \in 1..M, NEW c \in 1..M
  PROVE  /\ Before(a, b) /\ Before(b, c) => Before(a, c)
         /\ a # b => Before(a, b) \/ Before(b, a)
         /\ Before(a, b) => ~Cmp(b, a) /\ a # b
         /\ Before(a, b) /\ ~Cmp(a, b) => a > b
         /\ ~Cmp(a, b) /\ b > a => Before(b, a)
<1> DEFINE K(i) == facts[curTmpTable[i]].key
<1>1. K(a) \in Nat /\ K(b) \in Nat /\ K(c) \in Nat
  BY DEF Readable
<1>2. M \in Nat
  BY DEF Readable
<1>3. \A x, y : Cmp(x, y) <=> K(x) < K(y)
  BY DEF Cmp
<1> HIDE DEF K
<1> QED
  BY <1>1, <1>2, <1>3 DEF Before

\* The part of a from lo to hi is as it was in the beginning, or sorted.
Fresh(a, lo, hi) == \A i \in lo + 1..hi : a[i] = i

Settled(a, lo, hi) ==
  /\ \A i \in lo + 1..hi : a[i] \in lo + 1..hi
  /\ \A i, k \in lo + 1..hi : i < k => Before(a[i], a[k])

\* The first k places of b after tl have what is first in the two sorted parts
\* of a after lo.
IsMerged(a, b, lo, size, half, tl, i1, i2, k) ==
  /\ k \in 0..size /\ i1 \in 0..half /\ i2 \in half..size /\ i1 + i2 = k + half
  /\ \A x \in 1..k : b[tl + x] \in lo + 1..lo + size
  /\ \A x, y \in 1..k : x < y => Before(b[tl + x], b[tl + y])
  /\ \A x \in 1..k : \A i \in i1 + 1..half : Before(b[tl + x], a[lo + i])
  /\ \A x \in 1..k : \A i \in i2 + 1..size : Before(b[tl + x], a[lo + i])

IsNext(a, lo, size, half, i1, i2) ==
  i1 < half /\ (i2 < size => Cmp(a[lo + i1 + 1], a[lo + i2 + 1]))

LEMMA MergeStep ==
  ASSUME Readable,
         NEW lo \in Nat, NEW size \in Nat, NEW half \in Nat, half <= size, lo + size <= M,
         NEW tl \in Nat, tl + size <= M, NEW i1 \in Nat, NEW i2 \in Nat, NEW k \in Nat, k < size,
         NEW a, NEW b, DOMAIN b = 1..M,
         Settled(a, lo, lo + half), Settled(a, lo + half, lo + size),
         IsMerged(a, b, lo, size, half, tl, i1, i2, k),
         NEW left \in BOOLEAN, left <=> IsNext(a, lo, size, half, i1, i2),
         NEW from, from = IF left THEN i1 ELSE i2
  PROVE  /\ tl + k + 1 \in 1..M
         /\ IsMerged(a, [b EXCEPT ![tl + k + 1] = a[lo + from + 1]], lo, size, half, tl,
                     IF left THEN i1 + 1 ELSE i1, IF left THEN i2 ELSE i2 + 1, k + 1)
<1> DEFINE c == [b EXCEPT ![tl + k + 1] = a[lo + from + 1]]
           v == a[lo + from + 1]
           j1 == IF left THEN i1 + 1 ELSE i1
           j2 == IF left THEN i2 ELSE i2 + 1
           A(i) == a[lo + i]
<1>1. M \in Nat /\ tl + k + 1 \in 1..M
  BY DEF Readable
<1>2. /\ c[tl + (k + 1)] = v
      /\ \A x \in 1..k : c[tl + x] = b[tl + x]
  BY <1>1
<1>3. i1 <= half /\ half <= i2 /\ i2 <= size /\ i1 + i2 = k + half
  BY DEF IsMerged
<1>4. \A i \in 1..half : A(i) \in lo + 1..lo + half
  BY DEF Settled
<1>5. \A i \in half + 1..size : A(i) \in lo + half + 1..lo + size
  BY DEF Settled
<1>6. \A i, l \in 1..half : i < l => Before(A(i), A(l))
  BY DEF Settled
<1>7. \A i, l \in half + 1..size : i < l => Before(A(i), A(l))
  BY DEF Settled
<1>8. \A i \in 1..size : A(i) \in 1..M /\ A(i) \in lo + 1..lo + size
  <2>1. \A i \in 1..size : i \in 1..half \/ i \in half + 1..size
    OBVIOUS
  <2>2. lo + 1..lo + half \subseteq 1..M /\ lo + half + 1..lo + size \subseteq 1..M
    BY <1>1
  <2>3. lo + 1..lo + half \subseteq lo + 1..lo + size /\ lo + half + 1..lo + size \subseteq lo + 1..lo + size
    OBVIOUS
  <2> HIDE DEF A
  <2> QED
    BY <1>4, <1>5, <2>1, <2>2, <2>3
<1>9. left => i1 < half
  BY DEF IsNext
<1>10. ~left => i2 < size
  BY <1>3 DEF IsNext
<1>11. /\ from + 1 \in 1..size /\ v = A(from + 1)
       /\ left => from + 1 = i1 + 1 /\ i1 + 1 \in i1 + 1..half
       /\ ~left => from + 1 = i2 + 1 /\ i2 + 1 \in i2 + 1..size
  BY <1>3, <1>9, <1>10
<1>16. /\ left => (i2 < size => Cmp(A(i1 + 1), A(i2 + 1)))
       /\ ~left => (i1 < half => ~Cmp(A(i1 + 1), A(i2 + 1)))
  <2>1. A(i1 + 1) = a[lo + i1 + 1] /\ A(i2 + 1) = a[lo + i2 + 1]
    OBVIOUS
  <2> HIDE DEF A
  <2> QED
    BY <1>10, <2>1 DEF IsNext
<1>17. /\ \A x \in 1..k : \A i \in i1 + 1..half : Before(b[tl + x], A(i))
       /\ \A x \in 1..k : \A i \in i2 + 1..size : Before(b[tl + x], A(i))
  BY DEF IsMerged
<1>18. (left => v = A(i1 + 1)) /\ (~left => v = A(i2 + 1))
  BY <1>11
<1> HIDE DEF A, v
<1>12. v \in 1..M /\ v \in lo + 1..lo + size
  BY <1>8, <1>11
\* What is in b already is before the next value.
<1>13. \A x \in 1..k : Before(b[tl + x], v)
  BY <1>11, <1>17, <1>18
<1>14. \A i \in j1 + 1..half : Before(v, A(i))
  <2> TAKE i \in j1 + 1..half
  <2>1. i \in 1..half /\ i \in 1..size
    BY <1>3
  <2>2. CASE left
    <3>1. i1 + 1 \in 1..half /\ i1 + 1 < i
      BY <1>3, <1>9, <2>1, <2>2
    <3> QED
      BY <1>6, <1>18, <2>1, <2>2, <3>1
  <2>3. CASE ~left
    <3>1. i1 + 1 \in 1..half /\ i1 + 1 \in 1..size /\ i2 + 1 \in 1..size /\ i2 + 1 \in half + 1..size /\ i1 < half
      BY <1>3, <1>10, <2>3
    <3> DEFINE x == A(i1 + 1)
               y == A(i2 + 1)
               z == A(i)
    <3>2. x \in 1..M /\ y \in 1..M /\ z \in 1..M /\ ~Cmp(x, y) /\ v = y
      BY <1>8, <1>16, <1>18, <2>1, <2>3, <3>1
    <3>3. y > x
      <4>1. x \in lo + 1..lo + half /\ y \in lo + half + 1..lo + size
        BY <1>4, <1>5, <3>1
      <4> HIDE DEF x, y
      <4> QED
        BY <4>1
    <3>5. i = i1 + 1 \/ i1 + 1 < i
      BY <1>3, <2>1, <2>3
    <3>6. x = z \/ Before(x, z)
      BY <1>6, <2>1, <3>1, <3>5
    <3> HIDE DEF x, y, z
    <3>4. Before(y, x)
      BY <3>2, <3>3, BeforeIsOrder
    <3>7. Before(y, z)
      BY <3>2, <3>4, <3>6, BeforeIsOrder
    <3> QED
      BY <3>2, <3>7 DEF z
  <2> QED
    BY <2>2, <2>3
<1>15. \A i \in j2 + 1..size : Before(v, A(i))
  <2> TAKE i \in j2 + 1..size
  <2>1. i \in half + 1..size /\ i \in 1..size
    BY <1>3
  <2>2. CASE ~left
    <3>1. i2 + 1 \in half + 1..size /\ i2 + 1 < i
      BY <1>3, <1>10, <2>1, <2>2
    <3> QED
      BY <1>7, <1>18, <2>1, <2>2, <3>1
  <2>3. CASE left
    <3>1. i1 + 1 \in 1..size /\ i2 + 1 \in 1..size /\ i2 + 1 \in half + 1..size /\ i2 < size
      BY <1>3, <1>9, <2>1, <2>3
    <3> DEFINE x == A(i1 + 1)
               y == A(i2 + 1)
               z == A(i)
    <3>2. x \in 1..M /\ y \in 1..M /\ z \in 1..M /\ Cmp(x, y) /\ v = x
      BY <1>8, <1>16, <1>18, <2>1, <2>3, <3>1
    <3>5. i = i2 + 1 \/ i2 + 1 < i
      BY <1>3, <2>1, <2>3
    <3>6. y = z \/ Before(y, z)
      BY <1>7, <2>1, <3>1, <3>5
    <3>3. Before(x, y)
      BY <3>2 DEF Before
    <3> HIDE DEF x, y, z
    <3>7. Before(x, z)
      BY <3>2, <3>3, <3>6, BeforeIsOrder
    <3> QED
      BY <3>2, <3>7 DEF z
  <2> QED
    BY <2>2, <2>3
<1> QED
  <2>1. k + 1 \in 0..size /\ j1 \in 0..half /\ j2 \in half..size /\ j1 + j2 = (k + 1) + half
    BY <1>3, <1>9, <1>10
  <2>2. \A x \in 1..k + 1 : x \in 1..k \/ x = k + 1
    OBVIOUS
  <2>3. \A i \in j1 + 1..half : i \in i1 + 1..half
    BY <1>3
  <2>4. \A i \in j2 + 1..size : i \in i2 + 1..size
    BY <1>3
  <2> HIDE DEF c, v, j1, j2
  <2>5. \A x \in 1..k + 1 : c[tl + x] \in lo + 1..lo + size
    BY <1>2, <1>12, <2>2 DEF IsMerged
  <2>6. \A x, y \in 1..k + 1 : x < y => Before(c[tl + x], c[tl + y])
    <3> TAKE x, y \in 1..k + 1
    <3> HAVE x < y
    <3>1. x \in 1..k
      OBVIOUS
    <3>2. CASE y \in 1..k
      BY <1>2, <3>1, <3>2 DEF IsMerged
    <3>3. CASE y = k + 1
      BY <1>2, <1>13, <3>1, <3>3
    <3> QED
      BY <2>2, <3>2, <3>3
  <2>7. \A x \in 1..k + 1 : \A i \in j1 + 1..half : Before(c[tl + x], a[lo + i])
    BY <1>2, <1>14, <1>17, <2>2, <2>3 DEF A
  <2>8. \A x \in 1..k + 1 : \A i \in j2 + 1..size : Before(c[tl + x], a[lo + i])
    BY <1>2, <1>15, <1>17, <2>2, <2>4 DEF A
  <2>9. IsMerged(a, c, lo, size, half, tl, j1, j2, k + 1)
    BY <2>1, <2>5, <2>6, <2>7, <2>8 DEF IsMerged
  <2> QED
    BY <1>1, <2>9 DEF c, v, j1, j2

\* insertion_sort puts a value that comes from behind the others among them.
LEMMA InsertValueOrder ==
  ASSUME Readable, NEW lo \in Nat, NEW k \in Nat, lo + k < M,
         NEW s \in Seq(Nat), Len(s) = k, Settled([i \in 1..M |-> s[i - lo]], lo, lo + k)
  PROVE  LET t == InsertValue(s, lo + k + 1)
         IN  /\ t \in Seq(Nat) /\ Len(t) = k + 1
             /\ Settled([i \in 1..M |-> t[i - lo]], lo, lo + k + 1)
<1> DEFINE v == lo + k + 1
           smaller == {i \in DOMAIN s : Cmp(s[i], v)}
           m == Max(smaller \cup {0})
           t == InsertValue(s, v)
<1>1. M \in Nat /\ v \in 1..M /\ DOMAIN s = 1..k /\ v \in Nat
  BY DEF Readable
<1>2. /\ \A i \in 1..k : s[i] \in lo + 1..lo + k /\ s[i] \in 1..M /\ v > s[i]
      /\ \A i, l \in 1..k : i < l => Before(s[i], s[l])
  <2> DEFINE a == [i \in 1..M |-> s[i - lo]]
  <2>1. \A i \in 1..k : lo + i \in lo + 1..lo + k /\ lo + i \in 1..M /\ (lo + i) - lo = i
    BY <1>1
  <2>2. \A i \in 1..k : a[lo + i] = s[i]
    BY <2>1
  <2>3. \A i \in 1..k : s[i] \in lo + 1..lo + k
    BY <2>1, <2>2 DEF Settled
  <2>4. \A i, l \in 1..k : i < l => lo + i < lo + l
    OBVIOUS
  <2>5. \A i, l \in 1..k : i < l => Before(s[i], s[l])
    BY <2>1, <2>2, <2>4 DEF Settled
  <2>6. \A x \in lo + 1..lo + k : x \in 1..M /\ v > x
    BY <1>1
  <2> QED
    BY <2>3, <2>5, <2>6
<1>3. m \in smaller \cup {0} /\ \A i \in smaller \cup {0} : m >= i
  <2>1. smaller \cup {0} \in SUBSET 0..k /\ smaller \cup {0} # {}
    BY <1>1
  <2> HIDE DEF smaller
  <2> QED
    BY <2>1, MaxOf
<1>4. m \in 0..k
  BY <1>1, <1>3
<1>5. t \in Seq(Nat) /\ InsertedAt(t, s, m + 1, v)
  <2>1. t = InsertAt(s, m + 1, v)
    BY DEF InsertValue
  <2>2. m + 1 \in 1..Len(s) + 1
    <3> HIDE DEF m
    <3> QED
      BY <1>4
  <2> HIDE DEF m, v, t
  <2> QED
    BY <1>1, <2>1, <2>2, InsertAtPlace
<1>6. ASSUME NEW i \in 1..k, i <= m
      PROVE  Before(s[i], v)
  <2>1. m \in smaller
    BY <1>3, <1>6
  <2>2. m \in 1..k /\ Before(s[m], v)
    BY <1>1, <2>1 DEF Before
  <2>3. i = m \/ Before(s[i], s[m])
    <3> HIDE DEF m
    <3> QED
      BY <1>2, <1>6, <2>2
  <2> HIDE DEF m, v
  <2> QED
    BY <1>1, <1>2, <2>2, <2>3, BeforeIsOrder
<1>7. ASSUME NEW i \in 1..k, i > m
      PROVE  Before(v, s[i])
  <2>1. ~Cmp(s[i], v)
    <3>1. i \notin smaller
      <4> HIDE DEF m, smaller
      <4> QED
        BY <1>3, <1>4, <1>7
    <3> QED
      BY <1>1, <3>1
  <2> HIDE DEF m, v
  <2> QED
    BY <1>1, <1>2, <2>1, BeforeIsOrder
<1> HIDE DEF m, smaller, v, t
<1>8. ASSUME NEW i \in 1..k + 1
      PROVE  \/ i < m + 1 /\ i \in 1..k /\ i <= m /\ t[i] = s[i]
             \/ i = m + 1 /\ t[i] = v
             \/ i > m + 1 /\ i - 1 \in 1..k /\ i - 1 > m /\ t[i] = s[i - 1]
  BY <1>4, <1>5 DEF InsertedAt
<1>9. Len(t) = k + 1 /\ v = lo + k + 1
  BY <1>5 DEF InsertedAt, v
<1>10. \A i \in 1..k + 1 : t[i] \in lo + 1..lo + k + 1
  <2>1. lo + 1..lo + k \subseteq lo + 1..lo + k + 1 /\ v \in lo + 1..lo + k + 1
    BY <1>9
  <2> QED
    BY <1>2, <1>8, <2>1
<1>11. \A i, l \in 1..k + 1 : i < l => Before(t[i], t[l])
  <2> SUFFICES ASSUME NEW i \in 1..k + 1, NEW l \in 1..k + 1, i < l
               PROVE  Before(t[i], t[l])
    OBVIOUS
  <2>1. CASE i < m + 1 /\ i \in 1..k /\ i <= m /\ t[i] = s[i]
    <3>1. CASE l < m + 1 /\ l \in 1..k /\ t[l] = s[l]
      BY <1>2, <2>1, <3>1
    <3>2. CASE l = m + 1 /\ t[l] = v
      BY <1>6, <2>1, <3>2
    <3>3. CASE l > m + 1 /\ l - 1 \in 1..k /\ t[l] = s[l - 1]
      BY <1>2, <1>4, <2>1, <3>3
    <3> QED
      BY <1>8, <3>1, <3>2, <3>3
  <2>2. CASE i = m + 1 /\ t[i] = v
    <3>1. l > m + 1 /\ l - 1 \in 1..k /\ l - 1 > m /\ t[l] = s[l - 1]
      <4>1. l # m + 1 /\ ~(l < m + 1)
        BY <1>4, <2>2
      <4> QED
        BY <1>8, <4>1
    <3> QED
      BY <1>7, <2>2, <3>1
  <2>3. CASE i > m + 1 /\ i - 1 \in 1..k /\ t[i] = s[i - 1]
    <3>1. l > m + 1 /\ l - 1 \in 1..k /\ t[l] = s[l - 1]
      <4>1. l # m + 1 /\ ~(l < m + 1)
        BY <1>4, <2>3
      <4> QED
        BY <1>8, <4>1
    <3>2. i - 1 < l - 1
      BY <2>3, <3>1
    <3> QED
      BY <1>2, <2>3, <3>1, <3>2
  <2> QED
    BY <1>8, <2>1, <2>2, <2>3
<1>12. Settled([i \in 1..M |-> t[i - lo]], lo, lo + k + 1)
  <2>1. \A i \in lo + 1..lo + k + 1 : i \in 1..M /\ i - lo \in 1..k + 1
    BY <1>1
  <2>2. \A i, l \in lo + 1..lo + k + 1 : i < l => i - lo < l - lo
    OBVIOUS
  <2> QED
    BY <1>10, <1>11, <2>1, <2>2 DEF Settled
<1> QED
  BY <1>5, <1>9, <1>12 DEF t, v

LEMMA InsertValueSeq ==
  ASSUME NEW s \in Seq(Nat), NEW v \in Nat
  PROVE  InsertValue(s, v) \in Seq(Nat)
<1> DEFINE k == Len(s)
           smaller == {i \in DOMAIN s : Cmp(s[i], v)}
           m == Max(smaller \cup {0})
<1>1. k \in Nat /\ DOMAIN s = 1..k
  OBVIOUS
<1>2. m \in smaller \cup {0}
  <2>1. smaller \cup {0} \in SUBSET 0..k /\ smaller \cup {0} # {}
    BY <1>1
  <2> HIDE DEF smaller
  <2> QED
    BY <1>1, <2>1, MaxOf
<1>3. m + 1 \in 1..k + 1
  <2>1. m \in 0..k
    BY <1>1, <1>2
  <2> HIDE DEF m
  <2> QED
    BY <1>1, <2>1
<1>4. InsertValue(s, v) = InsertAt(s, m + 1, v)
  BY DEF InsertValue
<1> HIDE DEF m
<1> QED
  BY <1>3, <1>4, InsertAtPlace

\* insertion_sort is the insertion of one value after the other.
LEMMA InsertionSteps ==
  ASSUME NEW n \in Nat, NEW s \in [1..n -> Nat]
  PROVE  \E h \in [0..n -> Seq(Nat)] :
           /\ h[0] = << >>
           /\ \A k \in 1..n : h[k] = InsertValue(h[k - 1], s[k])
           /\ InsertionSort(s) = h[n]
<1> DEFINE V == Seq(Nat)
           D == SUBSET (1..n)
           F == [x \in V \X Nat |-> InsertValue(x[1], x[2])]
           Eq(g) == [d \in D |-> IF d = {} THEN << >> ELSE InsertValue(g[d \ {Max(d)}], s[Max(d)])]
           iter == CHOOSE g : g = Eq(g)
<1>1. DOMAIN s = 1..n /\ << >> \in V
  OBVIOUS
<1>2. F \in [V \X Nat -> V]
  BY InsertValueSeq
<1>3. \A x \in V, y \in Nat : F[<<x, y>>] = InsertValue(x, y)
  <2> HIDE DEF V
  <2> QED
    OBVIOUS
<1>4. PICK g : IsFold(g, F, << >>, s, n, V)
  <2> HIDE DEF F, V
  <2> QED
    BY <1>1, <1>2, FoldExists
<1>5. /\ g \in [D -> V]
      /\ \A d \in D : g[d] = IF d = {} THEN << >> ELSE F[<<g[d \ {Max(d)}], s[Max(d)]>>]
  BY <1>4, Zenon DEF IsFold
<1>6. \A d \in D : d # {} => Max(d) \in 1..n /\ d \ {Max(d)} \in D
  BY WithoutLast
<1>7. g = Eq(g)
  <2>1. \A d \in D : g[d] = IF d = {} THEN << >> ELSE InsertValue(g[d \ {Max(d)}], s[Max(d)])
    <3> HIDE DEF F, V, D
    <3> QED
      BY <1>3, <1>5, <1>6
  <2> HIDE DEF F, V, D
  <2> QED
    BY <1>5, <2>1
<1>8. iter = Eq(iter)
  <2> HIDE DEF Eq
  <2> QED
    BY <1>7
<1>9. InsertionSort(s) = iter[1..n]
  <2>1. InsertionSort(s) = iter[DOMAIN s]
    BY <1>1, Zenon DEF InsertionSort, FoldLeft, MapThenFoldSet
  <2> HIDE DEF iter
  <2> QED
    BY <1>1, <2>1
<1>10. iter[{}] = << >>
  BY <1>8
<1>11. \A d \in D : d # {} /\ iter[d \ {Max(d)}] \in V =>
         iter[d] = F[<<iter[d \ {Max(d)}], s[Max(d)]>>]
  <2> HIDE DEF iter, F, V
  <2>1. \A d \in D : d # {} => iter[d] = InsertValue(iter[d \ {Max(d)}], s[Max(d)])
    BY <1>8
  <2>2. \A d \in D : d # {} => s[Max(d)] \in Nat
    BY <1>6
  <2> HIDE DEF D
  <2> QED
    BY <1>3, <2>1, <2>2
<1>14. FoldsWith(iter, F, << >>, s, n, V, Nat)
  <2> HIDE DEF iter, F, V
  <2> QED
    BY <1>1, <1>2, <1>10, <1>11 DEF FoldsWith
<1>12. PICK h : IsRun(h, F, << >>, s, n, V) /\ iter[1..n] = h[n]
  <2> HIDE DEF iter, F, V
  <2> QED
    BY <1>14, FoldValues
<1>15. /\ h \in [0..n -> V] /\ h[0] = << >> /\ iter[1..n] = h[n]
       /\ \A k \in 1..n : h[k] = F[<<h[k - 1], s[k]>>]
  BY <1>12, Zenon DEF IsRun
<1>13. ASSUME NEW k \in 1..n
       PROVE  h[k] = InsertValue(h[k - 1], s[k])
  <2>1. k - 1 \in 0..n /\ s[k] \in Nat
    OBVIOUS
  <2> HIDE DEF F, V
  <2> QED
    BY <1>3, <1>15, <2>1
<1> HIDE DEF iter
<1> QED
  BY <1>9, <1>13, <1>15

LEMMA InsertionSorts ==
  ASSUME Readable, NEW lo \in Nat, NEW n \in Nat, lo + n <= M,
         NEW s \in [1..n -> Nat], \A i \in 1..n : s[i] = lo + i
  PROVE  /\ InsertionSort(s) \in Seq(Nat) /\ Len(InsertionSort(s)) = n
         /\ Settled([i \in 1..M |-> InsertionSort(s)[i - lo]], lo, lo + n)
<1>1. PICK h \in [0..n -> Seq(Nat)] :
        /\ h[0] = << >>
        /\ \A k \in 1..n : h[k] = InsertValue(h[k - 1], s[k])
        /\ InsertionSort(s) = h[n]
  BY InsertionSteps
<1> DEFINE S == {k \in 0..n : Len(h[k]) = k /\ Settled([i \in 1..M |-> h[k][i - lo]], lo, lo + k)}
<1>2. 0 \in S
  <2>1. lo + 1..lo + 0 = {} /\ 0 \in 0..n
    OBVIOUS
  <2> QED
    BY <1>1, <2>1 DEF Settled
<1>3. ASSUME NEW k \in 0..n, k < n, k \in S
      PROVE  k + 1 \in S
  <2>1. k + 1 \in 1..n /\ k + 1 \in 0..n /\ (k + 1) - 1 = k /\ k \in Nat /\ lo + k < M
    BY <1>3 DEF Readable
  <2>2. h[k + 1] = InsertValue(h[k], lo + (k + 1))
    BY <1>1, <2>1
  <2>3. lo + (k + 1) = lo + k + 1
    BY <2>1
  <2>4. h[k] \in Seq(Nat) /\ Len(h[k]) = k /\ Settled([i \in 1..M |-> h[k][i - lo]], lo, lo + k)
    BY <1>1, <1>3, <2>1
  <2>5. /\ Len(InsertValue(h[k], lo + k + 1)) = k + 1
        /\ Settled([i \in 1..M |-> InsertValue(h[k], lo + k + 1)[i - lo]], lo, lo + k + 1)
    <3> DEFINE r == h[k]
    <3>1. r \in Seq(Nat) /\ Len(r) = k /\ Settled([i \in 1..M |-> r[i - lo]], lo, lo + k)
      BY <2>4
    <3> HIDE DEF r
    <3>2. /\ Len(InsertValue(r, lo + k + 1)) = k + 1
          /\ Settled([i \in 1..M |-> InsertValue(r, lo + k + 1)[i - lo]], lo, lo + k + 1)
      BY <2>1, <3>1, InsertValueOrder
    <3> QED
      BY <3>2 DEF r
  <2> QED
    BY <2>1, <2>2, <2>3, <2>5
<1>4. n \in S
  <2>1. 0..n \subseteq S
    <3> HIDE DEF S
    <3> QED
      BY <1>2, <1>3, InductionUpto
  <2>2. n \in 0..n
    OBVIOUS
  <2> HIDE DEF S
  <2> QED
    BY <2>1, <2>2
<1>5. h[n] \in Seq(Nat)
  BY <1>1
<1> QED
  BY <1>1, <1>4, <1>5
------------------------------------------------------------------------------
(***************************************************************************)
(* What the calls know about the array.                                    *)
(***************************************************************************)
MergedTo(t, a, b) ==
  IsMerged(a, b, t.lo, t.size, t.size \div 2, t.tempLo, t.i1, t.i2, t.tempi)

ContentOK(t, a, b) ==
  /\ t.pc = "called"  => Fresh(a, t.lo, PartEnd(t))
  /\ t.pc = "first"   => Fresh(a, PartMid(t), PartEnd(t))
  /\ t.pc = "second"  => Settled(a, t.lo, PartMid(t))
  /\ t.pc = "merging" => /\ Settled(a, t.lo, PartMid(t)) /\ Settled(a, PartMid(t), PartEnd(t))
                         /\ MergedTo(t, a, b)
  /\ t.pc = "returned" => Settled(a, t.lo, PartEnd(t))
  /\ t.pc \in {"called", "sections", "first", "second"} =>
       t.i1 = 0 /\ t.i2 = t.size \div 2 /\ t.tempi = 0

Contents == \A p \in DOMAIN tasks : ContentOK(tasks[p], array, temp)

Control ==
  /\ sorting \in {"no", "yes", "done"}
  /\ sorting # "yes" => tasks = << >>
  /\ sorting # "no" => stage = "selected"
  /\ sorting = "yes" =>
       /\ << >> \in DOMAIN tasks /\ tasks[<< >>].lo = 0 /\ tasks[<< >>].size = M
       /\ array \in [1..M -> 1..M] /\ temp \in [1..M -> Nat]

SortIInv == IInv /\ Control /\ Shape /\ Contents /\ SortExact

\* What the order of the facts does not change.
LEMMA SameOrder ==
  ASSUME UNCHANGED selectionVars
  PROVE  /\ M' = M /\ (Readable => Readable')
         /\ \A a, b : Cmp(a, b)' = Cmp(a, b) /\ Before(a, b)' = Before(a, b)
         /\ \A t, a, b : ContentOK(t, a, b)' <=> ContentOK(t, a, b)
<1>1. facts' = facts /\ curTmpTable' = curTmpTable
  BY DEF selectionVars
<1>2. M' = M /\ (Readable => Readable')
  BY <1>1 DEF M, Readable
<1>3. \A a, b : Cmp(a, b)' = Cmp(a, b) /\ Before(a, b)' = Before(a, b)
  BY <1>1 DEF Cmp, Before
<1>4. \A a, lo, hi : Settled(a, lo, hi)' <=> Settled(a, lo, hi)
  BY <1>3 DEF Settled
<1>5. \A t, a, b : MergedTo(t, a, b)' <=> MergedTo(t, a, b)
  BY <1>3 DEF MergedTo, IsMerged
<1>6. \A t, a, b : ContentOK(t, a, b)' <=> ContentOK(t, a, b)
  <2> TAKE t, a, b
  <2>1. /\ PartMid(t)' = PartMid(t) /\ PartEnd(t)' = PartEnd(t)
        /\ \A lo, hi : Fresh(a, lo, hi)' <=> Fresh(a, lo, hi)
    BY DEF PartMid, PartEnd, Fresh
  <2> QED
    BY <1>4, <1>5, <2>1 DEF ContentOK
<1> QED
  BY <1>2, <1>3, <1>6

\* A selected table refers to facts.
LEMMA SelectedReadable ==
  ASSUME IInv, stage = "selected"
  PROVE  Readable
<1>1. /\ facts \in Seq(Tuples) /\ curTmpTable \in Seq(Nat) /\ N \in Nat /\ N = Len(facts)
      /\ DOMAIN curTmpTable = 1..Rank(N)
      /\ \A k \in DOMAIN facts : Selected(k) => curTmpTable[Rank(k)] = k
  BY DEF IInv, TypeOK, SelectionExact, N
<1>2. M \in Nat /\ DOMAIN curTmpTable = 1..M /\ DOMAIN facts = 1..N
  BY <1>1 DEF M
<1>3. ASSUME NEW r \in 1..M
      PROVE  curTmpTable[r] \in DOMAIN facts
  <2> DEFINE T == {k \in 0..N : Rank(k) >= r}
  <2>1. N \in T /\ T \in SUBSET Nat
    <3>1. r \in 1..Rank(N) /\ N \in 0..N
      <4>1. r \in DOMAIN curTmpTable
        BY <1>2
      <4>2. r \in 1..Rank(N)
        BY <1>1, <4>1, Zenon
      <4>3. N \in 0..N
        <5> HIDE DEF N
        <5> QED
          BY <1>1
      <4> QED
        BY <4>2, <4>3
    <3>2. Rank(N) \in Nat
      BY <1>1, RankNat
    <3> QED
      BY <3>1, <3>2
  <2>2. PICK k \in T : \A l \in T : k <= l
    <3> HIDE DEF T
    <3> QED
      BY <2>1, SmallestOf
  <2>3. k # 0 /\ k \in 1..N /\ k - 1 \in 0..N /\ (k - 1) + 1 = k /\ k - 1 \in Nat
    <3>1. k # 0
      BY <2>2, RankZero
    <3> QED
      BY <1>1, <2>2, <3>1
  <2>4. ~(Rank(k - 1) >= r)
    BY <2>2, <2>3
  <2>5. Rank(k) = IF Selected(k) THEN Rank(k - 1) + 1 ELSE Rank(k - 1)
    BY <2>3, RankStep
  <2>6. Selected(k) /\ Rank(k) = r
    <3>1. Rank(k - 1) \in Nat /\ Rank(k) >= r
      BY <2>2, <2>3, RankNat
    <3> QED
      BY <2>4, <2>5, <3>1
  <2> QED
    BY <1>1, <1>2, <2>3, <2>6
<1>4. \A i \in 1..N : facts[i].key \in Nat
  BY <1>1, <1>2, KeysAreNumbers
<1> QED
  BY <1>2, <1>3, <1>4 DEF Readable

\* Where the parts of the others are when p runs.
LEMMA Elsewhere ==
  ASSUME Shape, NEW p \in DOMAIN tasks, tasks[p].pc \in Running, NEW q \in DOMAIN tasks, q # p
  PROVE  \/ Distinct(tasks[p], tasks[q])
         \/ tasks[q].pc = "sections"
         \/ tasks[q].pc = "first" /\ PartEnd(tasks[p]) <= PartMid(tasks[q])
         \/ tasks[q].pc = "second" /\ PartMid(tasks[q]) <= tasks[p].lo
<1>1. /\ Tree /\ Nested /\ Apart /\ Halved
      /\ \A r \in DOMAIN tasks : r \in Path /\ TaskOK(tasks[r])
  BY DEF Shape, TasksOK
<1>2. ~Below(q, p)
  BY <1>1 DEF Tree, Calls, Awaited, Running
<1>3. CASE ~Below(p, q)
  BY <1>1, <1>2, <1>3 DEF Apart
<1>4. CASE Below(p, q)
  <2>1. PICK c \in Calls(q, tasks[q].pc) : p = c \/ Below(p, c)
    BY <1>1, <1>4 DEF Tree
  <2>2. PICK h \in Awaited(tasks[q].pc) : c = Append(q, h)
    BY <2>1 DEF Calls
  <2>3. h \in {1, 2} /\ c \in DOMAIN tasks /\ (tasks[q].pc = "first" => h = 1) /\ (tasks[q].pc = "second" => h = 2)
    BY <1>1, <2>1, <2>2 DEF Awaited, Tree
  <2>4. tasks[q].pc \in {"sections", "first", "second"}
    BY <2>2 DEF Awaited
  <2>5. /\ tasks[c].lo = IF h = 1 THEN tasks[q].lo ELSE PartMid(tasks[q])
        /\ PartEnd(tasks[c]) = IF h = 1 THEN PartMid(tasks[q]) ELSE PartEnd(tasks[q])
    BY <1>1, <2>2, <2>3 DEF Halved, IsHalf
  <2>6. tasks[c].lo <= tasks[p].lo /\ PartEnd(tasks[p]) <= PartEnd(tasks[c])
    <3>1. CASE p = c
      BY <1>1, <3>1 DEF TaskOK, PartEnd
    <3>2. CASE Below(p, c)
      BY <1>1, <2>3, <3>2 DEF Nested, Inside
    <3> QED
      BY <2>1, <3>1, <3>2
  <2> QED
    BY <2>3, <2>4, <2>5, <2>6
<1> QED
  BY <1>3, <1>4

\* What the others know stays true when a call writes where it may.
LEMMA OthersKeep ==
  ASSUME Shape, NEW p \in DOMAIN tasks, tasks[p].pc \in Running, NEW q \in DOMAIN tasks, q # p,
         NEW a, NEW b, ContentOK(tasks[q], array, temp),
         \A i \in 1..M : i \notin tasks[p].lo + 1..PartEnd(tasks[p]) => a[i] = array[i],
         \A i \in 1..M : i \notin tasks[p].tempLo + 1..TempEnd(tasks[p]) => b[i] = temp[i]
  PROVE  ContentOK(tasks[q], a, b)
<1> DEFINE t == tasks[q]
           u == tasks[p]
<1>1. TaskOK(t) /\ TaskOK(u) /\ M \in Nat
  BY DEF Shape, TasksOK
<1>2. \/ Distinct(u, t)
      \/ t.pc = "sections"
      \/ t.pc = "first" /\ PartEnd(u) <= PartMid(t)
      \/ t.pc = "second" /\ PartMid(t) <= u.lo
  BY Elsewhere
<1> HIDE DEF t, u
<1>3. ASSUME Distinct(u, t)
      PROVE  /\ \A i \in t.lo + 1..PartEnd(t) : a[i] = array[i]
             /\ \A i \in t.tempLo + 1..TempEnd(t) : b[i] = temp[i]
  <2>1. \A i \in t.lo + 1..PartEnd(t) : i \in 1..M /\ i \notin u.lo + 1..PartEnd(u)
    BY <1>1, <1>3 DEF Distinct, TaskOK, PartEnd
  <2>2. \A i \in t.tempLo + 1..TempEnd(t) : i \in 1..M /\ i \notin u.tempLo + 1..TempEnd(u)
    BY <1>1, <1>3 DEF Distinct, TaskOK, TempEnd
  <2> QED
    BY <2>1, <2>2 DEF u
<1>4. t.lo \in Nat /\ t.size \in Nat /\ t.size \div 2 \in Nat /\ t.size \div 2 <= t.size /\ t.tempLo \in Nat
  BY <1>1 DEF TaskOK
<1>5. t.lo <= PartMid(t) /\ PartMid(t) <= PartEnd(t) /\ PartMid(t) \in Nat /\ PartEnd(t) \in Nat /\ PartEnd(t) <= M
  BY <1>1, <1>4 DEF PartMid, PartEnd, TaskOK
\* What is known about an unchanged part.
<1>6. ASSUME NEW lo \in Nat, NEW hi \in Nat, \A i \in lo + 1..hi : a[i] = array[i]
      PROVE  /\ Fresh(array, lo, hi) => Fresh(a, lo, hi)
             /\ Settled(array, lo, hi) => Settled(a, lo, hi)
  BY <1>6 DEF Fresh, Settled
<1>7. ASSUME Distinct(u, t), t.pc = "merging"
      PROVE  MergedTo(t, a, b)
  <2>1. MergedTo(t, array, temp)
    BY <1>7 DEF ContentOK, t
  <2> DEFINE half == t.size \div 2
  <2>2. t.i1 \in 0..half /\ t.i2 \in half..t.size
    BY <2>1 DEF MergedTo, IsMerged
  <2>3. t.tempi \in Nat /\ t.tempi <= t.size
    BY <1>4, <2>1 DEF MergedTo, IsMerged
  <2>4. \A x \in 1..t.tempi : b[t.tempLo + x] = temp[t.tempLo + x]
    <3>1. \A x \in 1..t.tempi : t.tempLo + x \in t.tempLo + 1..TempEnd(t)
      BY <1>4, <2>3 DEF TempEnd
    <3> QED
      BY <1>3, <1>7, <3>1
  <2>5. \A i \in t.i1 + 1..half : a[t.lo + i] = array[t.lo + i]
    <3>1. \A i \in t.i1 + 1..half : t.lo + i \in t.lo + 1..PartEnd(t)
      BY <1>4, <2>2 DEF PartEnd
    <3> QED
      BY <1>3, <1>7, <3>1
  <2>6. \A i \in t.i2 + 1..t.size : a[t.lo + i] = array[t.lo + i]
    <3>1. \A i \in t.i2 + 1..t.size : t.lo + i \in t.lo + 1..PartEnd(t)
      BY <1>4, <2>2 DEF PartEnd
    <3> QED
      BY <1>3, <1>7, <3>1
  <2> QED
    BY <2>1, <2>4, <2>5, <2>6 DEF MergedTo, IsMerged
<1>8. CASE Distinct(u, t)
  <2>1. /\ \A i \in t.lo + 1..PartMid(t) : a[i] = array[i]
        /\ \A i \in PartMid(t) + 1..PartEnd(t) : a[i] = array[i]
    <3>1. \A i \in t.lo + 1..PartMid(t) : i \in t.lo + 1..PartEnd(t)
      BY <1>4, <1>5
    <3>2. \A i \in PartMid(t) + 1..PartEnd(t) : i \in t.lo + 1..PartEnd(t)
      BY <1>4, <1>5
    <3> QED
      BY <1>3, <1>8, <3>1, <3>2
  <2>2. /\ Fresh(array, t.lo, PartEnd(t)) => Fresh(a, t.lo, PartEnd(t))
        /\ Fresh(array, PartMid(t), PartEnd(t)) => Fresh(a, PartMid(t), PartEnd(t))
        /\ Settled(array, t.lo, PartEnd(t)) => Settled(a, t.lo, PartEnd(t))
        /\ Settled(array, t.lo, PartMid(t)) => Settled(a, t.lo, PartMid(t))
        /\ Settled(array, PartMid(t), PartEnd(t)) => Settled(a, PartMid(t), PartEnd(t))
    BY <1>3, <1>4, <1>5, <1>6, <1>8, <2>1
  <2> QED
    BY <1>7, <1>8, <2>2, Zenon DEF ContentOK, t
<1>9. CASE t.pc = "sections"
  BY <1>9 DEF ContentOK, t
<1>10. CASE t.pc = "first" /\ PartEnd(u) <= PartMid(t)
  <2>1. \A i \in PartMid(t) + 1..PartEnd(t) : i \in 1..M /\ i \notin u.lo + 1..PartEnd(u)
    <3>1. PartEnd(u) \in Nat /\ u.lo \in Nat
      BY <1>1 DEF TaskOK, PartEnd
    <3> QED
      BY <1>1, <1>5, <1>10, <3>1
  <2>2. Fresh(a, PartMid(t), PartEnd(t))
    BY <1>5, <1>6, <1>10, <2>1 DEF ContentOK, t, u
  <2> QED
    BY <1>10, <2>2 DEF ContentOK, t
<1>11. CASE t.pc = "second" /\ PartMid(t) <= u.lo
  <2>1. \A i \in t.lo + 1..PartMid(t) : i \in 1..M /\ i \notin u.lo + 1..PartEnd(u)
    BY <1>1, <1>4, <1>5, <1>11 DEF TaskOK
  <2>2. Settled(a, t.lo, PartMid(t))
    BY <1>4, <1>5, <1>6, <1>11, <2>1 DEF ContentOK, t, u
  <2> QED
    BY <1>11, <2>2 DEF ContentOK, t
<1> QED
  BY <1>2, <1>8, <1>9, <1>10, <1>11 DEF t
------------------------------------------------------------------------------
\* An empty part of a merge.
LEMMA MergeBegins ==
  ASSUME NEW lo, NEW size \in Nat, NEW half \in 0..size, NEW tl, NEW a, NEW b
  PROVE  IsMerged(a, b, lo, size, half, tl, 0, half, 0)
<1>1. 1..0 = {} /\ 0 \in 0..size /\ 0 \in 0..half /\ half \in half..size /\ 0 + half = 0 + half
  OBVIOUS
<1> QED
  BY <1>1 DEF IsMerged

\* A call that goes on knows what it has to, and gives the calls that it makes
\* a part that is as it was.
LEMMA GoOnContents ==
  ASSUME Shape, Contents, NEW p \in DOMAIN tasks, NEW pc, GoOn(p, pc), Goes(tasks[p], pc)
  PROVE  \A q \in DOMAIN tasks' : ContentOK(tasks'[q], array, temp)
<1> DEFINE Old == Calls(p, tasks[p].pc)
           New == Calls(p, pc)
           a == Append(p, 1)
           b == Append(p, 2)
           t == tasks[p]
           mid == PartMid(t)
           end == PartEnd(t)
<1>1. /\ p \in Path /\ DOMAIN tasks' = (DOMAIN tasks \ Old) \cup New
      /\ New \subseteq {a, b}
      /\ tasks'[p] = [t EXCEPT !.pc = pc]
      /\ a \in New => tasks'[a] = FirstHalf(t)
      /\ b \in New => tasks'[b] = SecondHalf(t)
      /\ \A q \in DOMAIN tasks' : q # p /\ q \notin New => q \in DOMAIN tasks /\ tasks'[q] = tasks[q]
  BY GoOnTasks
<1>2. M \in Nat /\ TaskOK(t) /\ ContentOK(t, array, temp) /\ DOMAIN tasks \subseteq Path
  BY DEF Shape, TasksOK, Contents
<1>3. /\ t.lo \in Nat /\ t.size \in Nat /\ t.size \div 2 \in 0..t.size /\ t.tempLo \in Nat
      /\ mid = t.lo + t.size \div 2 /\ end = t.lo + t.size /\ mid \in Nat /\ end \in Nat
      /\ t.lo <= mid /\ mid <= end
  BY <1>2 DEF TaskOK, PartMid, PartEnd
<1>4. \A c \in Old : c \in DOMAIN tasks /\ Settled(array, tasks[c].lo, PartEnd(tasks[c]))
  BY DEF GoOn, Shape, Tree, Contents, ContentOK
<1>5. /\ t.pc \in {"sections", "first"} => Settled(array, t.lo, mid)
      /\ t.pc \in {"sections", "second"} => Settled(array, mid, end)
  <2>1. (t.pc \in {"sections", "first"} => a \in Old) /\ (t.pc \in {"sections", "second"} => b \in Old)
    BY DEF Calls, Awaited
  <2>2. a \in Old => tasks[a].lo = t.lo /\ PartEnd(tasks[a]) = mid
    BY <1>4 DEF Shape, Halved, IsHalf
  <2>3. b \in Old => tasks[b].lo = mid /\ PartEnd(tasks[b]) = end
    BY <1>4 DEF Shape, Halved, IsHalf
  <2> QED
    BY <1>4, <2>1, <2>2, <2>3
<1>6. /\ tasks'[p].lo = t.lo /\ tasks'[p].size = t.size /\ tasks'[p].tempLo = t.tempLo /\ tasks'[p].pc = pc
      /\ tasks'[p].i1 = t.i1 /\ tasks'[p].i2 = t.i2 /\ tasks'[p].tempi = t.tempi
      /\ PartMid(tasks'[p]) = mid /\ PartEnd(tasks'[p]) = end
  <2>1. DOMAIN t = Fields
    BY <1>2 DEF TaskOK
  <2> QED
    BY <1>1, <2>1 DEF Fields, PartMid, PartEnd
<1>7. /\ t.pc = "called" => Fresh(array, t.lo, mid) /\ Fresh(array, mid, end)
      /\ t.pc = "first" => Fresh(array, mid, end)
      /\ t.pc = "second" => Settled(array, t.lo, mid)
      /\ t.i1 = 0 /\ t.i2 = t.size \div 2 /\ t.tempi = 0
  <2>1. Fresh(array, t.lo, end) => Fresh(array, t.lo, mid) /\ Fresh(array, mid, end)
    BY <1>3 DEF Fresh
  <2>2. t.pc \in {"called", "sections", "first", "second"}
    BY DEF Goes
  <2> QED
    BY <1>2, <2>1, <2>2 DEF ContentOK
<1>8. ContentOK(tasks'[p], array, temp)
  <2>1. pc = "merging" => MergedTo(tasks'[p], array, temp)
    BY <1>3, <1>6, <1>7, MergeBegins DEF MergedTo
  <2>2. pc \in {"sections", "first", "second", "merging"}
    BY DEF Goes
  <2>3. pc = "first" => Fresh(array, mid, end)
    BY <1>7 DEF Goes
  <2>4. pc = "second" => Settled(array, t.lo, mid)
    BY <1>5 DEF Goes
  <2>5. pc = "merging" => Settled(array, t.lo, mid) /\ Settled(array, mid, end)
    BY <1>5, <1>7 DEF Goes
  <2> HIDE DEF t, mid, end
  <2> QED
    BY <1>6, <1>7, <2>1, <2>2, <2>3, <2>4, <2>5 DEF ContentOK
<1>9. ASSUME NEW q \in New
      PROVE  ContentOK(tasks'[q], array, temp)
  <2>1. /\ FirstHalf(t).pc = "called" /\ FirstHalf(t).i1 = 0 /\ FirstHalf(t).tempi = 0
        /\ FirstHalf(t).i2 = FirstHalf(t).size \div 2
        /\ SecondHalf(t).pc = "called" /\ SecondHalf(t).i1 = 0 /\ SecondHalf(t).tempi = 0
        /\ SecondHalf(t).i2 = SecondHalf(t).size \div 2
    BY DEF FirstHalf, SecondHalf, Task
  <2>2. IsHalf(FirstHalf(t), t, 1) /\ IsHalf(SecondHalf(t), t, 2)
    BY <1>2, HalfTask
  <2>3. a \in New => t.pc = "called"
    <3>1. a \in New => 1 \in Awaited(pc)
      BY <1>1, HalvesDiffer DEF Calls, Awaited
    <3> QED
      BY <3>1 DEF Awaited, Goes
  <2>4. b \in New => t.pc \in {"called", "first"}
    <3>1. b \in New => 2 \in Awaited(pc)
      BY <1>1, HalvesDiffer DEF Calls, Awaited
    <3> QED
      BY <3>1 DEF Awaited, Goes
  <2>5. CASE q = a
    <3>1. Fresh(array, FirstHalf(t).lo, PartEnd(FirstHalf(t)))
      BY <1>7, <2>2, <2>3, <2>5 DEF IsHalf
    <3> QED
      BY <1>1, <2>1, <2>5, <3>1 DEF ContentOK
  <2>6. CASE q = b
    <3>1. Fresh(array, SecondHalf(t).lo, PartEnd(SecondHalf(t)))
      BY <1>7, <2>2, <2>4, <2>6 DEF IsHalf
    <3> QED
      BY <1>1, <2>1, <2>6, <3>1 DEF ContentOK
  <2> QED
    BY <1>1, <2>5, <2>6
<1>10. ASSUME NEW q \in DOMAIN tasks', q # p, q \notin New
       PROVE  ContentOK(tasks'[q], array, temp)
  BY <1>1, <1>10 DEF Contents
<1> QED
  BY <1>8, <1>9, <1>10

LEMMA ContentsLater ==
  ASSUME UNCHANGED selectionVars, \A q \in DOMAIN tasks' : ContentOK(tasks'[q], array', temp')
  PROVE  Contents'
<1>1. facts' = facts /\ curTmpTable' = curTmpTable
  BY DEF selectionVars
<1> QED
  BY <1>1 DEF Contents, ContentOK, Settled, Fresh, MergedTo, IsMerged, Before, Cmp, PartMid, PartEnd

LEMMA SortExactLater ==
  ASSUME UNCHANGED selectionVars, SortExact, sorting' # "done"
  PROVE  SortExact'
BY DEF SortExact

\* A call that runs writes in its part and goes on to another point.
LEMMA WriteStep ==
  ASSUME SortIInv, sorting = "yes", UNCHANGED <<selectionVars, sorting>>,
         NEW p \in DOMAIN tasks, tasks[p].pc \in Running,
         NEW u, tasks' = [tasks EXCEPT ![p] = u], u.pc \in Running, DOMAIN u = Fields,
         u.lo = tasks[p].lo, u.size = tasks[p].size,
         u.tempLo = tasks[p].tempLo, u.threads = tasks[p].threads,
         array' \in [1..M -> 1..M], temp' \in [1..M -> Nat],
         \A i \in 1..M : i \notin tasks[p].lo + 1..PartEnd(tasks[p]) => array'[i] = array[i],
         \A i \in 1..M : i \notin tasks[p].tempLo + 1..TempEnd(tasks[p]) => temp'[i] = temp[i],
         ContentOK(u, array', temp')
  PROVE  SortIInv'
<1>1. IInv'
  BY NextIInv DEF SortIInv
<1>2. M' = M
  BY SameOrder
<1>3. DOMAIN tasks' = DOMAIN tasks /\ tasks'[p] = u /\ \A q \in DOMAIN tasks : q # p => tasks'[q] = tasks[q]
  OBVIOUS
<1>4. Shape'
  BY <1>2, <1>3, StayShape DEF SortIInv
<1>5. Control'
  <2>1. tasks'[<< >>].lo = tasks[<< >>].lo /\ tasks'[<< >>].size = tasks[<< >>].size
    BY <1>3 DEF SortIInv, Control
  <2> QED
    BY <1>2, <1>3, <2>1 DEF SortIInv, Control, selectionVars
<1>6. ASSUME NEW q \in DOMAIN tasks, q # p
      PROVE  ContentOK(tasks[q], array', temp')
  <2>1. ContentOK(tasks[q], array, temp) /\ Shape
    BY DEF SortIInv, Contents
  <2>2. PICK a, b : a = array' /\ b = temp'
    OBVIOUS
  <2>3. ContentOK(tasks[q], a, b)
    BY <1>6, <2>1, <2>2, OthersKeep
  <2> QED
    BY <2>2, <2>3
<1>7. Contents'
  BY <1>3, <1>6, ContentsLater
<1> QED
  BY <1>1, <1>4, <1>5, <1>7, SortExactLater DEF SortIInv

LEMMA GoOnStep ==
  ASSUME SortIInv, sorting = "yes", NEW p \in DOMAIN tasks, NEW pc, GoOn(p, pc), Goes(tasks[p], pc)
  PROVE  SortIInv'
<1>1. UNCHANGED <<selectionVars, sorting, array, temp>> /\ M' = M
  BY SameOrder DEF GoOn
<1>2. IInv' /\ Shape' /\ Contents'
  BY <1>1, NextIInv, GoOnShape, GoOnContents, ContentsLater DEF SortIInv
<1>3. << >> \in DOMAIN tasks' /\ tasks'[<< >>].lo = 0 /\ tasks'[<< >>].size = M
  <2>1. << >> \notin Calls(p, tasks[p].pc) /\ << >> \notin Calls(p, pc)
    <3>1. p \in Path
      BY DEF SortIInv, Shape, TasksOK
    <3>2. \A h \in {1, 2} : Append(p, h) # << >>
      BY <3>1, AppendProperties DEF Path
    <3> QED
      BY <3>2 DEF Calls, Awaited
  <2>2. << >> \in DOMAIN tasks /\ tasks[<< >>].lo = 0 /\ tasks[<< >>].size = M
    BY DEF SortIInv, Control
  <2>3. << >> \in DOMAIN tasks'
    <3>1. DOMAIN tasks' = (DOMAIN tasks \ Calls(p, tasks[p].pc)) \cup Calls(p, pc)
      BY GoOnTasks DEF SortIInv
    <3> QED
      BY <2>1, <2>2, <3>1
  <2>4. CASE p = << >>
    <3>1. tasks'[p] = [tasks[p] EXCEPT !.pc = pc] /\ DOMAIN tasks[p] = Fields
      BY GoOnTasks DEF SortIInv, Shape, TasksOK, TaskOK
    <3> QED
      BY <2>2, <2>3, <2>4, <3>1 DEF Fields
  <2>5. CASE p # << >>
    BY <2>1, <2>2, <2>3, <2>5, GoOnTasks DEF SortIInv
  <2> QED
    BY <2>3, <2>4, <2>5
<1>4. Control'
  BY <1>1, <1>3 DEF SortIInv, Control, selectionVars
<1> QED
  BY <1>1, <1>2, <1>4, SortExactLater DEF SortIInv

LEMMA StartMergesortStep ==
  ASSUME SortIInv, StartMergesort
  PROVE  SortIInv'
<1>1. UNCHANGED selectionVars /\ M' = M /\ stage = "selected" /\ sorting' = "yes"
  BY SameOrder DEF StartMergesort
<1>2. Readable /\ M \in Nat /\ DOMAIN curTmpTable = 1..M
  <2>1. Readable /\ curTmpTable \in Seq(Nat)
    BY <1>1, SelectedReadable DEF SortIInv, IInv, TypeOK
  <2> QED
    BY <2>1 DEF Readable, M
<1> DEFINE root == Task(0, M, 0, MaxThreads)
<1>3. DOMAIN tasks' = {<< >>} /\ tasks'[<< >>] = root
  <2>1. tasks' = [p \in {<< >>} |-> root]
    BY DEF StartMergesort, M
  <2> QED
    BY <2>1
<1>4. array' = [i \in 1..M |-> i] /\ temp' = [i \in 1..M |-> 0]
  BY <1>2, Zenon DEF StartMergesort, Unset
<1>5. /\ root.lo = 0 /\ root.size = M /\ root.tempLo = 0 /\ root.threads = MaxThreads
      /\ root.pc = "called" /\ root.i1 = 0 /\ root.i2 = M \div 2 /\ root.tempi = 0
      /\ DOMAIN root = Fields
  BY DEF Task, Fields
<1> HIDE DEF root
<1>6. TaskOK(root)
  BY <1>2, <1>5, MaxThreadsIsPositive DEF TaskOK, PartEnd, TempEnd
<1>7. Shape'
  <2>1. << >> \in Path /\ ~Below(<< >>, << >>)
    BY DEF Path, Below
  <2>2. \A h \in {1, 2} : Append(<< >>, h) # << >>
    BY <2>1, AppendProperties DEF Path
  <2>3. TasksOK'
    BY <1>1, <1>2, <1>3, <1>6, <2>1 DEF TasksOK, TaskOK
  <2>4. Tree'
    BY <1>3, <1>5, <2>1 DEF Tree, Calls, Awaited
  <2> QED
    BY <1>3, <2>1, <2>2, <2>3, <2>4 DEF Shape, Nested, Apart, Halved
<1>8. ContentOK(root, array', temp')
  BY <1>2, <1>4, <1>5 DEF ContentOK, Fresh, PartEnd
<1>9. Contents'
  BY <1>1, <1>3, <1>8, ContentsLater
<1>10. Control'
  BY <1>1, <1>2, <1>3, <1>4, <1>5 DEF Control, selectionVars
<1>11. IInv'
  BY <1>1, NextIInv DEF SortIInv
<1> QED
  BY <1>1, <1>7, <1>9, <1>10, <1>11, SortExactLater DEF SortIInv

\* c is a with a part put back in order.
PutBack(c, part, a, lo, n) ==
  /\ M \in Nat /\ lo \in Nat /\ n \in Nat /\ lo + n <= M
  /\ c = Overwritten(a, lo, part)
  /\ a \in [1..M -> 1..M] /\ DOMAIN part = 1..n
  /\ \A i \in 1..n : part[i] \in lo + 1..lo + n
  /\ \A i, k \in 1..n : i < k => Before(part[i], part[k])

LEMMA PlacedInOrder ==
  ASSUME NEW lo, NEW n, NEW a, NEW part, NEW c, PutBack(c, part, a, lo, n)
  PROVE  /\ c \in [1..M -> 1..M] /\ Settled(c, lo, lo + n)
         /\ \A i \in 1..M : i \notin lo + 1..lo + n => c[i] = a[i]
<1>d. M \in Nat /\ lo \in Nat /\ n \in Nat /\ lo + n <= M
  BY DEF PutBack
<1>c. /\ a \in [1..M -> 1..M] /\ DOMAIN part = 1..n
      /\ \A i \in 1..n : part[i] \in lo + 1..lo + n
      /\ \A i, k \in 1..n : i < k => Before(part[i], part[k])
  BY DEF PutBack
<1>1. c = [i \in 1..M |-> IF i - lo \in 1..n THEN part[i - lo] ELSE a[i]]
  BY <1>c DEF PutBack, Overwritten
<1>2. \A i \in lo + 1..lo + n : i \in 1..M /\ i - lo \in 1..n
  BY <1>d
<1>3. \A i \in 1..M : i \notin lo + 1..lo + n => i - lo \notin 1..n
  BY <1>d
<1>4. lo + 1..lo + n \subseteq 1..M
  BY <1>d
<1>5. \A i \in lo + 1..lo + n : c[i] = part[i - lo] /\ c[i] \in lo + 1..lo + n
  BY <1>c, <1>1, <1>2
<1>6. \A i \in 1..M : i \notin lo + 1..lo + n => c[i] = a[i]
  BY <1>1, <1>3
<1>7. DOMAIN c = 1..M
  BY <1>1
<1>8. c = [i \in 1..M |-> c[i]]
  BY <1>1
<1>9. \A i \in 1..M : c[i] \in 1..M
  <2> TAKE i \in 1..M
  <2>1. CASE i \in lo + 1..lo + n
    BY <1>4, <1>5, <2>1
  <2>2. CASE i \notin lo + 1..lo + n
    BY <1>c, <1>6, <2>2
  <2> QED
    BY <2>1, <2>2
<1>10. c \in [1..M -> 1..M]
  BY <1>8, <1>9
<1>11. Settled(c, lo, lo + n)
  <2>1. ASSUME NEW i \in lo + 1..lo + n, NEW k \in lo + 1..lo + n, i < k
        PROVE  Before(c[i], c[k])
    <3>1. i - lo \in 1..n /\ k - lo \in 1..n /\ i - lo < k - lo
      BY <1>d, <2>1
    <3>2. Before(part[i - lo], part[k - lo])
      BY <1>c, <3>1
    <3> QED
      BY <1>5, <3>2
  <2> QED
    BY <1>5, <2>1 DEF Settled
<1> QED
  BY <1>6, <1>10, <1>11

LEMMA SortPartStep ==
  ASSUME SortIInv, sorting = "yes", NEW p \in DOMAIN tasks, SortPart(p)
  PROVE  SortIInv'
<1> DEFINE t == tasks[p]
           n == t.size
           lo == t.lo
           s == SubSeq(array, lo + 1, lo + n)
           part == InsertionSort(s)
           u == [t EXCEPT !.pc = "returned"]
<1>1. Readable /\ M \in Nat /\ TaskOK(t) /\ ContentOK(t, array, temp) /\ array \in [1..M -> 1..M] /\ temp \in [1..M -> Nat]
  BY SelectedReadable DEF SortIInv, Control, Shape, TasksOK, Contents
<1>2. /\ t.pc = "called" /\ array' = Overwritten(array, lo, part) /\ temp' = temp
      /\ tasks' = [tasks EXCEPT ![p] = u] /\ UNCHANGED <<selectionVars, sorting>>
  BY DEF SortPart
<1>3. lo \in Nat /\ n \in Nat /\ lo + n <= M /\ DOMAIN t = Fields /\ PartEnd(t) = lo + n
  BY <1>1 DEF TaskOK, PartEnd
<1>4. Fresh(array, lo, lo + n)
  BY <1>1, <1>2, <1>3 DEF ContentOK
<1>5. /\ u.pc = "returned" /\ DOMAIN u = Fields /\ u.lo = lo /\ u.size = n
      /\ u.tempLo = t.tempLo /\ u.threads = t.threads
  BY <1>3 DEF Fields
<1>6. t.pc \in Running /\ u.pc \in Running
  BY <1>2, <1>5 DEF Running
<1> HIDE DEF n, lo, u
<1>7. s \in [1..n -> Nat] /\ \A i \in 1..n : s[i] = lo + i
  <2>1. array \in Seq(Nat) /\ Len(array) = M
    BY <1>1
  <2>2. \A i \in lo + 1..lo + n : i \in 1..M /\ array[i] = i
    BY <1>1, <1>3, <1>4 DEF Fresh
  <2>3. s = [i \in 1..n |-> array[lo + 1 + i - 1]]
    <3>1. lo + 1 \in 1..M + 1 /\ lo + n \in lo..M /\ lo + n - (lo + 1) + 1 = n
      BY <1>1, <1>3
    <3> QED
      BY <1>3, <2>1, <3>1
  <2>4. \A i \in 1..n : lo + 1 + i - 1 = lo + i /\ lo + i \in lo + 1..lo + n
    BY <1>3
  <2>5. \A i \in 1..n : array[lo + 1 + i - 1] \in Nat /\ array[lo + 1 + i - 1] = lo + i
    <3> TAKE i \in 1..n
    <3>1. array[lo + i] = lo + i /\ lo + i \in Nat
      BY <1>3, <2>2, <2>4
    <3> QED
      BY <2>4, <3>1
  <2> HIDE DEF s
  <2> QED
    BY <2>3, <2>5
<1>8. /\ part \in Seq(Nat) /\ Len(part) = n
      /\ Settled([i \in 1..M |-> part[i - lo]], lo, lo + n)
  <2> HIDE DEF s
  <2> QED
    BY <1>1, <1>3, <1>7, InsertionSorts
<1> HIDE DEF s, part
<1>9. /\ DOMAIN part = 1..n
      /\ \A i \in 1..n : part[i] \in lo + 1..lo + n
      /\ \A i, k \in 1..n : i < k => Before(part[i], part[k])
  <2> DEFINE c == [i \in 1..M |-> part[i - lo]]
  <2>1. \A i \in 1..n : lo + i \in lo + 1..lo + n /\ lo + i \in 1..M /\ (lo + i) - lo = i
    BY <1>1, <1>3
  <2>2. \A i \in 1..n : c[lo + i] = part[i]
    BY <2>1
  <2> HIDE DEF c
  <2>3. ASSUME NEW i \in 1..n, NEW k \in 1..n, i < k
        PROVE  Before(part[i], part[k])
    <3>1. lo + i < lo + k
      BY <1>3, <2>3
    <3>2. Before(c[lo + i], c[lo + k])
      BY <1>8, <2>1, <3>1 DEF Settled, c
    <3> QED
      BY <2>2, <3>2
  <2>4. ASSUME NEW i \in 1..n
        PROVE  part[i] \in lo + 1..lo + n
    <3>1. c[lo + i] \in lo + 1..lo + n
      BY <1>8, <2>1 DEF Settled, c
    <3> QED
      BY <2>2, <3>1
  <2> QED
    BY <1>3, <1>8, <2>3, <2>4
<1>10. /\ array' \in [1..M -> 1..M] /\ Settled(array', lo, lo + n)
       /\ \A i \in 1..M : i \notin lo + 1..lo + n => array'[i] = array[i]
  <2>1. PutBack(array', part, array, lo, n)
    BY <1>1, <1>2, <1>3, <1>9 DEF PutBack
  <2> QED
    BY <2>1, PlacedInOrder
<1>11. ContentOK(u, array', temp')
  BY <1>3, <1>5, <1>10 DEF ContentOK, PartEnd
<1> QED
  BY <1>1, <1>2, <1>3, <1>5, <1>6, <1>10, <1>11, WriteStep DEF n, lo

LEMMA MergeTaskStep ==
  ASSUME SortIInv, sorting = "yes", NEW p \in DOMAIN tasks, Merge(p)
  PROVE  SortIInv'
<1> DEFINE t == tasks[p]
           lo == t.lo
           size == t.size
           half == t.size \div 2
           tl == t.tempLo
           i1 == t.i1
           i2 == t.i2
           k == t.tempi
           left == LeftIsNext(t)
           from == IF left THEN i1 ELSE i2
           j1 == IF left THEN i1 + 1 ELSE i1
           j2 == IF left THEN i2 ELSE i2 + 1
           b == [temp EXCEPT ![tl + k + 1] = array[lo + from + 1]]
           u == [t EXCEPT !.tempi = k + 1, !.i1 = j1, !.i2 = j2]
<1>1. /\ Readable /\ M \in Nat /\ TaskOK(t) /\ ContentOK(t, array, temp)
      /\ array \in [1..M -> 1..M] /\ temp \in [1..M -> Nat]
  BY SelectedReadable DEF SortIInv, Control, Shape, TasksOK, Contents
<1>2. t.pc = "merging" /\ k < size /\ temp' = b /\ UNCHANGED <<selectionVars, sorting, array>>
  BY DEF Merge
<1>3. tasks' = [tasks EXCEPT ![p] = u]
  BY DEF Merge
<1>4. /\ lo \in Nat /\ size \in Nat /\ half \in Nat /\ half <= size /\ lo + size <= M
      /\ tl \in Nat /\ tl + size <= M /\ DOMAIN t = Fields /\ PartEnd(t) = lo + size
      /\ PartMid(t) = lo + half /\ TempEnd(t) = tl + size
  BY <1>1 DEF TaskOK, PartEnd, PartMid, TempEnd
<1>5. /\ Settled(array, lo, lo + half) /\ Settled(array, lo + half, lo + size)
      /\ IsMerged(array, temp, lo, size, half, tl, i1, i2, k)
  BY <1>1, <1>2, <1>4 DEF ContentOK, MergedTo
<1>6. i1 \in Nat /\ i2 \in Nat /\ k \in Nat /\ i1 <= half /\ i2 <= size /\ half <= i2 /\ i1 + i2 = k + half
  <2> HIDE DEF lo, size, half, tl, i1, i2, k
  <2> QED
    BY <1>4, <1>5 DEF IsMerged
<1>7. left \in BOOLEAN /\ (left <=> IsNext(array, lo, size, half, i1, i2))
  BY DEF LeftIsNext, IsNext
<1>8. /\ u.pc = "merging" /\ DOMAIN u = Fields /\ u.lo = lo /\ u.size = size /\ u.tempLo = tl
      /\ u.threads = t.threads /\ u.i1 = j1 /\ u.i2 = j2 /\ u.tempi = k + 1
  BY <1>2, <1>4 DEF Fields
<1>9. t.pc \in Running /\ u.pc \in Running /\ u.size \div 2 = half
  BY <1>2, <1>8 DEF Running
<1>10. PartEnd(u) = lo + size /\ PartMid(u) = lo + half
  BY <1>8 DEF PartEnd, PartMid
<1> HIDE DEF lo, size, half, tl, i1, i2, k, left, u
<1>11. /\ tl + k + 1 \in 1..M
       /\ IsMerged(array, b, lo, size, half, tl, j1, j2, k + 1)
  <2>1. DOMAIN temp = 1..M
    BY <1>1
  <2> QED
    BY <1>1, <1>2, <1>4, <1>5, <1>6, <1>7, <2>1, MergeStep
<1>12. temp' \in [1..M -> Nat]
  <2>1. array[lo + from + 1] \in Nat
    <3>1. from < size /\ from \in Nat
      <4>1. CASE left
        <5>1. i1 < half
          BY <1>7, <4>1 DEF IsNext
        <5> QED
          BY <1>4, <1>6, <4>1, <5>1
      <4>2. CASE ~left
        <5>1. i2 # size
          BY <1>2, <1>4, <1>6, <1>7, <4>2 DEF IsNext
        <5> QED
          BY <1>4, <1>6, <4>2, <5>1
      <4> QED
        BY <4>1, <4>2
    <3>2. lo + from + 1 \in 1..M
      <4> HIDE DEF from
      <4> QED
        BY <1>1, <1>4, <3>1
    <3> HIDE DEF from
    <3> QED
      BY <1>1, <3>2
  <2> QED
    BY <1>1, <1>2, <1>11, <2>1
<1>13. \A i \in 1..M : i \notin tl + 1..tl + size => temp'[i] = temp[i]
  <2>1. tl + k + 1 \in tl + 1..tl + size
    BY <1>2, <1>4, <1>6
  <2>2. DOMAIN temp = 1..M
    BY <1>1
  <2> QED
    BY <1>2, <2>1, <2>2
<1> HIDE DEF b, j1, j2
<1>14. ContentOK(u, array, b)
  BY <1>5, <1>8, <1>9, <1>10, <1>11 DEF ContentOK, MergedTo
<1>15. ContentOK(u, array', temp')
  BY <1>2, <1>14
<1> QED
  BY <1>1, <1>2, <1>3, <1>4, <1>8, <1>9, <1>12, <1>13, <1>15, WriteStep DEF lo, size, tl

LEMMA CopyBackStep ==
  ASSUME SortIInv, sorting = "yes", NEW p \in DOMAIN tasks, CopyBack(p)
  PROVE  SortIInv'
<1> DEFINE t == tasks[p]
           n == t.size
           lo == t.lo
           tl == t.tempLo
           part == SubSeq(temp, tl + 1, tl + n)
           u == [t EXCEPT !.pc = "returned"]
<1>1. /\ Readable /\ M \in Nat /\ TaskOK(t) /\ ContentOK(t, array, temp)
      /\ array \in [1..M -> 1..M] /\ temp \in [1..M -> Nat]
  BY SelectedReadable DEF SortIInv, Control, Shape, TasksOK, Contents
<1>2. /\ t.pc = "merging" /\ t.tempi = n /\ array' = Overwritten(array, lo, part) /\ temp' = temp
      /\ tasks' = [tasks EXCEPT ![p] = u] /\ UNCHANGED <<selectionVars, sorting>>
  BY DEF CopyBack
<1>3. /\ lo \in Nat /\ n \in Nat /\ lo + n <= M /\ DOMAIN t = Fields /\ PartEnd(t) = lo + n
      /\ tl \in Nat /\ tl + n <= M
  BY <1>1 DEF TaskOK, PartEnd, TempEnd
<1>4. /\ \A x \in 1..n : temp[tl + x] \in lo + 1..lo + n
      /\ \A x, y \in 1..n : x < y => Before(temp[tl + x], temp[tl + y])
  BY <1>1, <1>2 DEF ContentOK, MergedTo, IsMerged
<1>5. /\ u.pc = "returned" /\ DOMAIN u = Fields /\ u.lo = lo /\ u.size = n
      /\ u.tempLo = tl /\ u.threads = t.threads
  BY <1>3 DEF Fields
<1>6. t.pc \in Running /\ u.pc \in Running
  BY <1>2, <1>5 DEF Running
<1> HIDE DEF n, lo, tl, u
<1>7. part = [i \in 1..n |-> temp[tl + 1 + i - 1]]
  <2>1. temp \in Seq(Nat) /\ Len(temp) = M
    BY <1>1
  <2>2. tl + 1 \in 1..M + 1 /\ tl + n \in tl..M /\ tl + n - (tl + 1) + 1 = n
    BY <1>1, <1>3
  <2> QED
    BY <1>3, <2>1, <2>2
<1>8. \A i \in 1..n : part[i] = temp[tl + i]
  <2>1. \A i \in 1..n : tl + 1 + i - 1 = tl + i
    BY <1>3
  <2> QED
    BY <1>7, <2>1
<1>9. DOMAIN part = 1..n
  BY <1>7
<1> HIDE DEF part
<1>10. PutBack(array', part, array, lo, n)
  BY <1>1, <1>2, <1>3, <1>4, <1>8, <1>9 DEF PutBack
<1>11. /\ array' \in [1..M -> 1..M] /\ Settled(array', lo, lo + n)
       /\ \A i \in 1..M : i \notin lo + 1..lo + n => array'[i] = array[i]
  BY <1>10, PlacedInOrder
<1>12. ContentOK(u, array', temp')
  BY <1>3, <1>5, <1>11 DEF ContentOK, PartEnd
<1> QED
  BY <1>1, <1>2, <1>3, <1>5, <1>6, <1>11, <1>12, WriteStep DEF n, lo, tl

\* An injection into a finite set of the same size leaves nothing out.
LEMMA NothingLeftOut ==
  ASSUME NEW n \in Nat, NEW a \in [1..n -> 1..n], IsInjective(a)
  PROVE  ToSet(a) = 1..n
<1>1. ToSet(a) \subseteq 1..n
  BY DEF ToSet
<1>2. ASSUME NEW z \in 1..n, z \notin ToSet(a)
      PROVE  FALSE
  <2> DEFINE S == 1..n
  <2>1. IsFiniteSet(S)
    BY FS_Interval
  <2>2. a \in [S -> S \ {z}]
    BY <1>2 DEF ToSet
  <2>3. z \in S
    OBVIOUS
  <2> HIDE DEF S
  <2>4. \E x, y \in S : x # y /\ a[x] = a[y]
    BY <2>1, <2>2, <2>3, Collision
  <2> QED
    BY <2>4 DEF IsInjective, S
<1> QED
  BY <1>1, <1>2

\* What the whole of the array is when the first call has returned.
LEMMA SettledIsExact ==
  ASSUME Readable, NEW a \in [1..M -> 1..M], Settled(a, 0, M)
  PROVE  /\ IsInjective(a) /\ ToSet(a) = 1..M /\ Sorted(a)
         /\ \A x, y \in DOMAIN a : x < y /\ ~Cmp(a[x], a[y]) => a[x] > a[y]
<1>1. M \in Nat
  BY DEF Readable
<1>2. DOMAIN a = 1..M /\ \A x \in 1..M : a[x] \in 1..M
  OBVIOUS
<1>3. \A x, y \in 1..M : x < y => Before(a[x], a[y])
  <2>1. 0 + 1..M = 1..M
    OBVIOUS
  <2> QED
    BY <2>1 DEF Settled
<1>4. \A x, y \in 1..M : Before(x, y) => ~Cmp(y, x) /\ x # y /\ (~Cmp(x, y) => x > y)
  BY BeforeIsOrder
<1>5. \A x, y \in 1..M : x < y => ~Cmp(a[y], a[x]) /\ a[x] # a[y] /\ (~Cmp(a[x], a[y]) => a[x] > a[y])
  BY <1>2, <1>3, <1>4
<1>6. IsInjective(a)
  <2>1. \A x, y \in 1..M : x < y \/ y < x \/ x = y
    BY <1>1
  <2> QED
    BY <1>2, <1>5, <2>1 DEF IsInjective
<1>7. ToSet(a) = 1..M
  BY <1>1, <1>6, NothingLeftOut
<1> QED
  BY <1>2, <1>5, <1>6, <1>7 DEF Sorted

\* When nothing sorts there are no calls.
LEMMA NoTasks ==
  ASSUME DOMAIN tasks = {}, M \in Nat
  PROVE  Shape /\ Contents
BY DEF Shape, TasksOK, Tree, Nested, Apart, Halved, Contents

LEMMA FinishStep ==
  ASSUME SortIInv, Finish
  PROVE  SortIInv'
<1>1. /\ sorting = "yes" /\ tasks[<< >>].pc = "returned" /\ UNCHANGED selectionVars
      /\ array' = array /\ sorting' = "done" /\ tasks' = << >> /\ M' = M
  BY SameOrder DEF Finish
<1>2. /\ IInv' /\ stage = "selected" /\ Readable /\ M \in Nat /\ array \in [1..M -> 1..M]
      /\ DOMAIN curTmpTable = 1..M
  <2>1. stage = "selected" /\ array \in [1..M -> 1..M]
    BY <1>1 DEF SortIInv, Control
  <2>2. Readable /\ curTmpTable \in Seq(Nat)
    BY <2>1, SelectedReadable DEF SortIInv, IInv, TypeOK
  <2> QED
    BY <1>1, <2>1, <2>2, NextIInv DEF SortIInv, Readable, M
<1>3. Settled(array, 0, M)
  <2>1. << >> \in DOMAIN tasks /\ tasks[<< >>].lo = 0 /\ tasks[<< >>].size = M
    BY <1>1 DEF SortIInv, Control
  <2>2. Settled(array, 0, 0 + M)
    BY <1>1, <2>1 DEF SortIInv, Contents, ContentOK, PartEnd
  <2> QED
    BY <1>2, <2>2
<1>4. DOMAIN tasks' = {}
  BY <1>1
<1>5. Shape' /\ Contents'
  <2>1. M' \in Nat
    BY <1>1, <1>2
  <2> QED
    BY <1>4, <2>1 DEF Shape, TasksOK, Tree, Nested, Apart, Halved, Contents
<1>6. Control'
  BY <1>1, <1>2 DEF Control, selectionVars
<1>7. SortExact'
  <2>1. facts' = facts /\ curTmpTable' = curTmpTable
    BY <1>1 DEF selectionVars
  <2>2. /\ IsInjective(array) /\ ToSet(array) = DOMAIN curTmpTable /\ Sorted(array)
        /\ \A x, y \in DOMAIN array : x < y /\ ~Cmp(array[x], array[y]) => array[x] > array[y]
    BY <1>2, <1>3, SettledIsExact
  <2>3. Sorted(array)' /\ (\A x, y : Cmp(x, y)' = Cmp(x, y))
    BY <1>1, <2>1, <2>2 DEF Sorted, Cmp
  <2> QED
    BY <1>1, <2>1, <2>2, <2>3 DEF SortExact
<1> QED
  BY <1>2, <1>5, <1>6, <1>7 DEF SortIInv

LEMMA SortShortStep ==
  ASSUME SortIInv, SortShort
  PROVE  SortIInv'
<1>1. /\ stage = "selected" /\ UNCHANGED selectionVars /\ sorting' = "done" /\ tasks = << >>
      /\ tasks' = << >> /\ M' = M /\ M < Threshold
      /\ array' \in [DOMAIN curTmpTable -> DOMAIN curTmpTable] /\ IsInjective(array') /\ Sorted(array')
  <2>1. Control /\ sorting = "no"
    BY DEF SortIInv, SortShort
  <2> QED
    BY <2>1, SameOrder DEF SortShort, Control, M
<1>2. IInv' /\ M \in Nat /\ DOMAIN curTmpTable = 1..M
  <2>1. curTmpTable \in Seq(Nat)
    BY DEF SortIInv, IInv, TypeOK
  <2> QED
    BY <1>1, <2>1, NextIInv DEF SortIInv, M
<1>3. DOMAIN tasks' = {}
  BY <1>1
<1>4. Shape' /\ Contents'
  <2>1. M' \in Nat
    BY <1>1, <1>2
  <2> QED
    BY <1>3, <2>1 DEF Shape, TasksOK, Tree, Nested, Apart, Halved, Contents
<1>5. Control'
  BY <1>1 DEF Control, selectionVars
<1>6. SortExact'
  <2>1. facts' = facts /\ curTmpTable' = curTmpTable
    BY <1>1 DEF selectionVars
  <2>2. PICK a : a = array'
    OBVIOUS
  <2>3. a \in [1..M -> 1..M] /\ IsInjective(a)
    BY <1>1, <1>2, <2>2
  <2>4. ToSet(a) = 1..M /\ Len(a) = M
    <3>1. a \in Seq(Nat)
      BY <1>2, <2>3
    <3> QED
      BY <1>2, <2>3, <3>1, NothingLeftOut
  <2>5. ~(Len(a) >= Threshold)
    BY <1>1, <1>2, <2>4, ThresholdAssumption
  <2>6. Sorted(array)'
    BY <1>1, <2>1 DEF Sorted, Cmp
  <2> QED
    BY <1>2, <2>1, <2>2, <2>3, <2>4, <2>5, <2>6 DEF SortExact
<1> QED
  BY <1>2, <1>4, <1>5, <1>6 DEF SortIInv

\* The selection goes on while nothing sorts.
LEMMA SelectionStep ==
  ASSUME SortIInv, Next, UNCHANGED sortVars
  PROVE  SortIInv'
<1>1. stage # "selected"
  BY DEF Next, MainStep, ThreadStep, StartScan, Scan, EndScan, Fork, JoinCounting, AddUp,
         ForkAgain, JoinFilling, Count, Begin, Fill
<1>2. sorting = "no" /\ tasks = << >> /\ sorting' = sorting /\ tasks' = tasks
  BY <1>1 DEF SortIInv, Control, sortVars
<1>3. IInv'
  BY NextIInv DEF SortIInv
<1>4. M' \in Nat /\ DOMAIN tasks' = {}
  BY <1>2, <1>3 DEF IInv, TypeOK, M
<1>5. Shape' /\ Contents'
  BY <1>4 DEF Shape, TasksOK, Tree, Nested, Apart, Halved, Contents
<1>6. Control' /\ SortExact'
  BY <1>2 DEF Control, SortExact
<1> QED
  BY <1>3, <1>5, <1>6 DEF SortIInv

LEMMA SortStutters ==
  ASSUME SortIInv, UNCHANGED vars
  PROVE  SortIInv'
<1>1. UNCHANGED selectionVars /\ sorting' = sorting /\ array' = array /\ temp' = temp /\ tasks' = tasks
  BY DEF vars, sortVars
<1>2. IInv'
  BY <1>1, NextIInv DEF SortIInv
<1>3. M' = M
  BY <1>1, SameOrder
<1>4. Shape'
  BY <1>1, <1>3 DEF SortIInv, Shape, TasksOK, TaskOK, Tree, Nested, Apart, Halved, Inside, Distinct,
                    IsHalf, PartEnd, PartMid, TempEnd, Calls
<1>5. Contents'
  BY <1>1, ContentsLater DEF SortIInv, Contents
<1>6. Control'
  BY <1>1, <1>3 DEF SortIInv, Control, selectionVars
<1>7. SortExact'
  <2>1. facts' = facts /\ curTmpTable' = curTmpTable
    BY <1>1 DEF selectionVars
  <2> QED
    BY <1>1, <2>1 DEF SortIInv, SortExact, Sorted, Cmp
<1> QED
  BY <1>2, <1>4, <1>5, <1>6, <1>7 DEF SortIInv

LEMMA TaskSteps ==
  ASSUME SortIInv, sorting = "yes", NEW p \in DOMAIN tasks, TaskStep(p)
  PROVE  SortIInv'
<1>1. TaskOK(tasks[p])
  BY DEF SortIInv, Shape, TasksOK
<1>2. CASE Split(p)
  BY <1>2, GoOnStep DEF Split, Goes
<1>3. CASE CallFirst(p)
  BY <1>3, GoOnStep DEF CallFirst, Goes
<1>4. CASE CallSecond(p)
  BY <1>4, GoOnStep DEF CallSecond, Goes
<1>5. CASE Join(p)
  BY <1>5, GoOnStep DEF Join, Goes
<1> QED
  BY <1>2, <1>3, <1>4, <1>5, SortPartStep, MergeTaskStep, CopyBackStep DEF TaskStep

LEMMA SortInduction == EvalSpec => []SortIInv
<1>1. SortInit => SortIInv
  <2> SUFFICES ASSUME SortInit
               PROVE  SortIInv
    OBVIOUS
  <2>1. IInv /\ sorting = "no" /\ tasks = << >>
    BY InitIInv DEF SortInit
  <2>2. M \in Nat /\ DOMAIN tasks = {}
    BY <2>1 DEF IInv, TypeOK, M
  <2>3. Control /\ SortExact
    BY <2>1 DEF Control, SortExact
  <2> QED
    BY <2>1, <2>2, <2>3, NoTasks DEF SortIInv
<1>2. SortIInv /\ [EvalNext]_vars => SortIInv'
  BY SelectionStep, SortShortStep, StartMergesortStep, FinishStep, TaskSteps, SortStutters DEF EvalNext
<1> QED
  BY <1>1, <1>2, PTL DEF EvalSpec

\* For every relation, number of threads and order of their steps, the merge
\* join gets each selected fact once, in the order of the keys, and equal keys
\* in the reverse order of the relation if the mergesort sorted them
\* (omp_mergesort.h 44-141, EvalSubgoal.cc 286-322).
THEOREM SortIsExact == EvalSpec => []SortExact
<1>1. SortIInv => SortExact
  BY DEF SortIInv
<1> QED
  BY <1>1, SortInduction, PTL

\* Two calls of the mergesort that run at the same time never touch the same
\* places of the array or of temp, at any depth of the recursion
\* (omp_mergesort.h 44-80).
THEOREM NoDataRacesAnywhere == EvalSpec => []NoDataRaces
<1>1. SortIInv => NoDataRaces
  BY ShapeNoDataRaces DEF SortIInv
<1> QED
  BY <1>1, SortInduction, PTL
==============================================================================
