---------------------------- MODULE ParallelSort ----------------------------
(***************************************************************************)
(* The table that was selected is sorted for a merge join (EvalSubgoal.cc  *)
(* 286-322): by std::sort if it is short, otherwise by the recursive       *)
(* mergesort of omp_mergesort.h, whose halves are parallel sections.       *)
(*                                                                         *)
(* A call of the mergesort, parallel or, with one thread, serial, is a     *)
(* task.  It is named by the path of halves that leads to it, and lives    *)
(* until its caller goes on.  It has the part of the array after lo and    *)
(* the part of temp after tempLo.                                          *)
(* Tuples are records whose key is what the join compares, a number.       *)
(***************************************************************************)
EXTENDS ParallelSelection, SequencesExt

CONSTANT Small      \* a part that is shorter is sorted by insertion

ASSUME ThresholdAssumption == Threshold \in Nat
ASSUME SmallAssumption == Small \in Nat /\ Small > 1

\* Keys are compared as numbers.
ASSUME KeysAreNumbers == \A t \in Tuples : t.key \in Nat

VARIABLES
  sorting,      \* no, yes or done
  array,        \* relationToSort: references into curTmpTable
  temp,         \* tmpTable
  tasks

sortVars == <<sorting, array, temp, tasks>>
vars == <<selectionVars, sortVars>>

\* The comparator, TupleCompareFunctor, for references into curTmpTable.
Cmp(a, b) == facts[curTmpTable[a]].key < facts[curTmpTable[b]].key

Sorted(s) == \A a, b \in DOMAIN s : a < b => ~Cmp(s[b], s[a])

Task(lo, size, tempLo, threads) ==
  [lo |-> lo, size |-> size, tempLo |-> tempLo, threads |-> threads,
   pc |-> "called", i1 |-> 0, i2 |-> size \div 2, tempi |-> 0]

SortInit ==
  /\ Init
  /\ sorting = "no" /\ array = << >> /\ temp = << >> /\ tasks = << >>

SortShort ==
  /\ stage = "selected" /\ sorting = "no"
  /\ Len(curTmpTable) < Threshold
  /\ array' \in {s \in [DOMAIN curTmpTable -> DOMAIN curTmpTable] : IsInjective(s) /\ Sorted(s)}
  /\ sorting' = "done"
  /\ UNCHANGED <<selectionVars, temp, tasks>>

StartMergesort ==
  /\ stage = "selected" /\ sorting = "no"
  /\ Len(curTmpTable) >= Threshold
  /\ array' = [i \in DOMAIN curTmpTable |-> i]
  /\ temp' = [i \in DOMAIN curTmpTable |-> Unset]
  /\ tasks' = [p \in {<< >>} |-> Task(0, Len(curTmpTable), 0, MaxThreads)]
  /\ sorting' = "yes"
  /\ UNCHANGED selectionVars
------------------------------------------------------------------------------
\* insertion_sort: a value goes behind the last one that is less than it.
InsertValue(sorted, v) ==
  InsertAt(sorted, Max({i \in DOMAIN sorted : Cmp(sorted[i], v)} \cup {0}) + 1, v)

InsertionSort(s) == FoldLeft(InsertValue, << >>, s)

\* s with the values of part after the first lo places.
Overwritten(s, lo, part) ==
  [i \in DOMAIN s |-> IF i - lo \in DOMAIN part THEN part[i - lo] ELSE s[i]]

\* The end of the recursion.
SortPart(p) ==
  LET task == tasks[p]
  IN  /\ task.pc = "called" /\ task.threads = 1 /\ task.size < Small
      /\ array' = Overwritten(array, task.lo,
                              InsertionSort(SubSeq(array, task.lo + 1, task.lo + task.size)))
      /\ tasks' = [tasks EXCEPT ![p].pc = "returned"]
      /\ UNCHANGED <<selectionVars, sorting, temp>>

\* The calls for the halves.  The parallel version divides temp and the
\* threads; the serial one uses temp twice.
FirstHalf(task) ==
  Task(task.lo, task.size \div 2, task.tempLo,
       IF task.threads = 1 THEN 1 ELSE task.threads \div 2)

\* A mutant: both halves work in the first part of temp, as in the serial version.
SecondHalfSameTemp(task) ==
  Task(task.lo + task.size \div 2, task.size - task.size \div 2, task.tempLo,
       task.threads - task.threads \div 2)

SecondHalf(task) ==
  Task(task.lo + task.size \div 2, task.size - task.size \div 2,
       IF task.threads = 1 THEN task.tempLo ELSE task.tempLo + task.size \div 2,
       task.threads - task.threads \div 2)

\* The halves whose calls a task waits for.
Awaited(pc) == CASE pc = "sections" -> {1, 2}
                 [] pc = "first"    -> {1}
                 [] pc = "second"   -> {2}
                 [] OTHER           -> {}

Calls(p, pc) == {Append(p, half) : half \in Awaited(pc)}

\* The task goes on: the calls it waited for have returned, and it makes those
\* that it waits for next.
GoOn(p, pc) ==
  /\ \A q \in Calls(p, tasks[p].pc) : tasks[q].pc = "returned"
  /\ tasks' = [q \in (DOMAIN tasks \ Calls(p, tasks[p].pc)) \cup Calls(p, pc) |->
                 CASE q = p               -> [tasks[p] EXCEPT !.pc = pc]
                   [] q = Append(p, 1)    -> FirstHalf(tasks[p])
                   [] q = Append(p, 2)    -> SecondHalf(tasks[p])
                   [] OTHER               -> tasks[q]]
  /\ UNCHANGED <<selectionVars, sorting, array, temp>>

Split(p) ==
  /\ tasks[p].pc = "called" /\ tasks[p].threads > 1
  /\ GoOn(p, "sections")

CallFirst(p) ==
  /\ tasks[p].pc = "called" /\ tasks[p].threads = 1 /\ tasks[p].size >= Small
  /\ GoOn(p, "first")

CallSecond(p) == tasks[p].pc = "first" /\ GoOn(p, "second")

Join(p) == tasks[p].pc \in {"sections", "second"} /\ GoOn(p, "merging")

\* A mutant: on a tie the left value is taken.
LeftIsNextOnTies(task) ==
  /\ task.i1 < task.size \div 2
  /\ task.i2 < task.size => ~Cmp(array[task.lo + task.i2 + 1], array[task.lo + task.i1 + 1])

LeftIsNext(task) ==
  /\ task.i1 < task.size \div 2
  /\ task.i2 < task.size => Cmp(array[task.lo + task.i1 + 1], array[task.lo + task.i2 + 1])

Merge(p) ==
  LET task == tasks[p]
      from == IF LeftIsNext(task) THEN task.i1 ELSE task.i2
  IN  /\ task.pc = "merging" /\ task.tempi < task.size
      /\ temp' = [temp EXCEPT ![task.tempLo + task.tempi + 1] = array[task.lo + from + 1]]
      /\ tasks' = [tasks EXCEPT ![p].tempi = @ + 1,
                                ![p].i1 = IF LeftIsNext(task) THEN @ + 1 ELSE @,
                                ![p].i2 = IF LeftIsNext(task) THEN @ ELSE @ + 1]
      /\ UNCHANGED <<selectionVars, sorting, array>>

CopyBack(p) ==
  LET task == tasks[p]
  IN  /\ task.pc = "merging" /\ task.tempi = task.size
      /\ array' = Overwritten(array, task.lo, SubSeq(temp, task.tempLo + 1, task.tempLo + task.size))
      /\ tasks' = [tasks EXCEPT ![p].pc = "returned"]
      /\ UNCHANGED <<selectionVars, sorting, temp>>

Finish ==
  /\ sorting = "yes" /\ tasks[<< >>].pc = "returned"
  /\ sorting' = "done" /\ tasks' = << >>
  /\ UNCHANGED <<selectionVars, array, temp>>

TaskStep(p) ==
  SortPart(p) \/ Split(p) \/ CallFirst(p) \/ CallSecond(p) \/ Join(p) \/ Merge(p) \/ CopyBack(p)

EvalNext ==
  \/ Next /\ UNCHANGED sortVars
  \/ SortShort \/ StartMergesort \/ Finish
  \/ sorting = "yes" /\ \E p \in DOMAIN tasks : TaskStep(p)

\* Some thread of the process runs on.
EvalSpec == SortInit /\ [][EvalNext]_vars /\ WF_vars(EvalNext)
------------------------------------------------------------------------------
\* The merge join gets every selected fact once and in the order of its keys;
\* and facts with equal keys, which std::sort may leave in any order, come out
\* of the mergesort in the reverse order of the relation, however many threads
\* sort and whatever they do first (omp_mergesort.h 99-141).
SortExact ==
  sorting = "done" =>
    /\ IsInjective(array) /\ ToSet(array) = DOMAIN curTmpTable /\ Sorted(array)
    /\ Len(array) >= Threshold =>
         \A a, b \in DOMAIN array : a < b /\ ~Cmp(array[a], array[b]) => array[a] > array[b]

\* The part of the array that a task may read and write now.
Active(p) == tasks[p].pc \in {"called", "merging"}

Part(lo, task) == lo + 1..lo + task.size

\* Two calls that run at the same time share no part of the array and no part
\* of temp: "The above use of temp + size/2 is an essential change from the
\* serial version" (omp_mergesort.h 66).
NoDataRaces ==
  \A p, q \in DOMAIN tasks :
    p # q /\ Active(p) /\ Active(q) =>
      /\ Part(tasks[p].lo, tasks[p]) \cap Part(tasks[q].lo, tasks[q]) = {}
      /\ Part(tasks[p].tempLo, tasks[p]) \cap Part(tasks[q].tempLo, tasks[q]) = {}

\* A selection and its sort end, whatever the sizes of the teams are.
SelectionEnds == <>(sorting = "done")
==============================================================================
