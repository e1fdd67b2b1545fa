-------------------------- MODULE ParallelSelection --------------------------
(***************************************************************************)
(* The selection of the facts of a relation that match a literal, by a     *)
(* team of OpenMP threads (EvalSubgoal.cc 115-230): one parallel loop      *)
(* counts, the sums of the counts say where each thread may write, and a   *)
(* second parallel loop writes.                                            *)
(*                                                                         *)
(* A selected fact is a reference into the relation, here its place.       *)
(* Threads and arrays start at 1 here and at 0 in the code.                *)
(***************************************************************************)
EXTENDS Naturals, Sequences, FiniteSets

CONSTANTS
  Tuples,         \* the facts that there may be
  Matching,       \* those the literal selects
  FactLists,      \* the relations
  Threshold,      \* MtFactNumThreshold
  MaxThreads,     \* MaxThreadsNumber, read once when the process starts
  Teams           \* the sizes that the runtime may give to a team

ASSUME ListsAreSequences == FactLists \subseteq Seq(Tuples)
ASSUME MaxThreadsIsPositive == MaxThreads \in Nat \ {0}
\* The option -t may ask for a larger team (Cli.cc 158).
ASSUME TeamsFit == Teams \subseteq 1..MaxThreads

VARIABLES
  facts,
  stage,          \* start, scanning, counting, adding, filling or selected
  team,           \* the number of threads of the two parallel regions
  chunk,          \* the iterations of thread t are those after chunk[t - 1], up to chunk[t]
  position,       \* how far each thread is
  startIndexes,
  added,          \* how far the loop over startIndexes is
  rsize,
  begun,          \* the threads that have initialized their local j
  j,              \* the local j of each thread
  curTmpTable

selectionVars == <<facts, stage, team, chunk, position, startIndexes, added, rsize, begun, j, curTmpTable>>

Unset == 0              \* a default element of curTmpTable

Threads == 1..MaxThreads

Selected(k) == facts[k] \in Matching

\* How many of the first k facts are selected.
Rank(k) == Cardinality({i \in 1..k : Selected(i)})

\* schedule(static) without a chunk size: contiguous parts of about the same
\* size, in the order of the threads; the two loops of a team get the same.
Chunks(n, size) ==
  {c \in [0..size -> 0..n] :
     /\ c[0] = 0 /\ c[size] = n
     /\ \A t, u \in 0..size : t <= u => c[t] <= c[u]
     /\ \A t, u \in 1..size : c[t] - c[t - 1] <= c[u] - c[u - 1] + 1}

NoChunk == [t \in 0..1 |-> 0]
Zeros == [t \in Threads |-> 0]

Init ==
  /\ facts \in FactLists
  /\ stage = "start"
  /\ team = 1 /\ chunk = NoChunk /\ position = Zeros
  /\ startIndexes = Zeros /\ added = 0 /\ rsize = 0
  /\ begun = {} /\ j = Zeros
  /\ curTmpTable = << >>

\* Short relations, and those of a process with one or two processors, are
\* selected by a plain loop.
StartScan ==
  /\ stage = "start"
  /\ Len(facts) < Threshold \/ MaxThreads <= 2
  /\ stage' = "scanning"
  /\ UNCHANGED <<facts, team, chunk, position, startIndexes, added, rsize, begun, j, curTmpTable>>

Scan ==
  /\ stage = "scanning"
  /\ position[1] < Len(facts)
  /\ position' = [position EXCEPT ![1] = @ + 1]
  /\ curTmpTable' = IF Selected(position[1] + 1) THEN Append(curTmpTable, position[1] + 1)
                    ELSE curTmpTable
  /\ UNCHANGED <<facts, stage, team, chunk, startIndexes, added, rsize, begun, j>>

EndScan ==
  /\ stage = "scanning"
  /\ position[1] = Len(facts)
  /\ stage' = "selected"
  /\ position' = Zeros
  /\ UNCHANGED <<facts, team, chunk, startIndexes, added, rsize, begun, j, curTmpTable>>

Fork ==
  /\ stage = "start"
  /\ Len(facts) >= Threshold /\ MaxThreads > 2
  /\ \E size \in Teams : \E c \in Chunks(Len(facts), size) :
       /\ team' = size /\ chunk' = c
       /\ position' = [t \in Threads |-> IF t <= size THEN c[t - 1] ELSE 0]
  /\ stage' = "counting"
  /\ UNCHANGED <<facts, startIndexes, added, rsize, begun, j, curTmpTable>>

Count(t) ==
  /\ stage = "counting" /\ t <= team
  /\ position[t] < chunk[t]
  /\ position' = [position EXCEPT ![t] = @ + 1]
  /\ startIndexes' = IF Selected(position[t] + 1) THEN [startIndexes EXCEPT ![t] = @ + 1]
                     ELSE startIndexes
  /\ UNCHANGED <<facts, stage, team, chunk, added, rsize, begun, j, curTmpTable>>

\* The barrier at the end of a parallel loop.
AtEnd == \A t \in 1..team : position[t] = chunk[t]

JoinCounting ==
  /\ stage = "counting" /\ AtEnd
  /\ stage' = "adding"
  /\ UNCHANGED <<facts, team, chunk, position, startIndexes, added, rsize, begun, j, curTmpTable>>

\* A mutant: the addition starts one entry late.
AddUpShifted ==
  /\ stage = "adding" /\ added < MaxThreads
  /\ added' = added + 1
  /\ rsize' = rsize + startIndexes[added + 1]
  /\ startIndexes' = IF added > 1 THEN [startIndexes EXCEPT ![added + 1] = @ + startIndexes[added]]
                     ELSE startIndexes
  /\ UNCHANGED <<facts, stage, team, chunk, position, begun, j, curTmpTable>>

AddUp ==
  /\ stage = "adding" /\ added < MaxThreads
  /\ added' = added + 1
  /\ rsize' = rsize + startIndexes[added + 1]
  /\ startIndexes' = IF added > 0 THEN [startIndexes EXCEPT ![added + 1] = @ + startIndexes[added]]
                     ELSE startIndexes
  /\ UNCHANGED <<facts, stage, team, chunk, position, begun, j, curTmpTable>>

ForkAgain ==
  /\ stage = "adding" /\ added = MaxThreads
  /\ stage' = "filling"
  /\ curTmpTable' = [i \in 1..rsize |-> Unset]
  /\ position' = [t \in Threads |-> IF t <= team THEN chunk[t - 1] ELSE 0]
  /\ UNCHANGED <<facts, team, chunk, startIndexes, added, rsize, begun, j>>

\* A mutant: a thread starts at its own sum.
BeginAtOwn(t) ==
  /\ stage = "filling" /\ t <= team /\ t \notin begun
  /\ begun' = begun \cup {t}
  /\ j' = [j EXCEPT ![t] = startIndexes[t]]
  /\ UNCHANGED <<facts, stage, team, chunk, position, startIndexes, added, rsize, curTmpTable>>

Begin(t) ==
  /\ stage = "filling" /\ t <= team /\ t \notin begun
  /\ begun' = begun \cup {t}
  /\ j' = [j EXCEPT ![t] = IF t > 1 THEN startIndexes[t - 1] ELSE 0]
  /\ UNCHANGED <<facts, stage, team, chunk, position, startIndexes, added, rsize, curTmpTable>>

Fill(t) ==
  /\ stage = "filling" /\ t <= team /\ t \in begun
  /\ position[t] < chunk[t]
  /\ position' = [position EXCEPT ![t] = @ + 1]
  /\ IF Selected(position[t] + 1)
     THEN /\ curTmpTable' = [curTmpTable EXCEPT ![j[t] + 1] = position[t] + 1]
          /\ j' = [j EXCEPT ![t] = @ + 1]
     ELSE UNCHANGED <<curTmpTable, j>>
  /\ UNCHANGED <<facts, stage, team, chunk, startIndexes, added, rsize, begun>>

\* A mutant: the barrier waits for as many threads as there may be.
JoinFillingOfAll ==
  /\ stage = "filling" /\ AtEnd /\ begun = Threads
  /\ stage' = "selected"
  /\ UNCHANGED <<facts, team, chunk, position, startIndexes, added, rsize, begun, j, curTmpTable>>

\* The function returns the table and forgets the rest.
JoinFilling ==
  /\ stage = "filling" /\ AtEnd /\ begun = 1..team
  /\ stage' = "selected"
  /\ team' = 1 /\ chunk' = NoChunk /\ position' = Zeros
  /\ startIndexes' = Zeros /\ added' = 0 /\ rsize' = 0
  /\ begun' = {} /\ j' = Zeros
  /\ UNCHANGED <<facts, curTmpTable>>

ThreadStep(t) == Count(t) \/ Begin(t) \/ Fill(t)

MainStep == StartScan \/ Scan \/ EndScan \/ Fork \/ JoinCounting \/ AddUp \/ ForkAgain \/ JoinFilling

Next == MainStep \/ \E t \in Threads : ThreadStep(t)

Spec == Init /\ [][Next]_selectionVars
------------------------------------------------------------------------------
\* Whatever the threads do first, the table is that of the serial loop
\* (EvalSubgoal.cc 187-195): the k-th selected fact is at place k, none is
\* missing and none is there twice.
SelectionExact ==
  stage = "selected" =>
    /\ DOMAIN curTmpTable = 1..Rank(Len(facts))
    /\ \A k \in DOMAIN facts : Selected(k) => curTmpTable[Rank(k)] = k

\* While the threads write, every thread writes inside the table and none
\* over what another one has written (EvalSubgoal.cc 217-228).
WritesApart ==
  stage = "filling" =>
    \A t \in 1..team :
      t \in begun /\ position[t] < chunk[t] /\ Selected(position[t] + 1) =>
        j[t] + 1 \in DOMAIN curTmpTable /\ curTmpTable[j[t] + 1] = Unset
==============================================================================
