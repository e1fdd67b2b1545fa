# FOVRiS in TLA+

TLA+ modules, TLC models and TLAPS proofs for FOVRiS, the four-valued reasoning
engine for 4QL in this repository.  Every definition is translated from the
source; `PROJECT.json` (`map`) names the lines.  Paths below are relative to the
repository; a file without a directory is in `src/src` or `src/src/Eval`.

    tlc -config Program.cfg MCProgram.tla      # model-check one run
    tlapm SessionProofs.tla                    # check the proofs of one module

## What the system does

A 4QL script declares modules; a module declares domains, relations, rules and
facts.  Facts and rule results are True or False; a fact that is said to be both
is Incons(istent), one that is not there is Unknown.  `Program::evaluate`
computes the model of every module in the order in which the modules were added,
with one of two algorithms, and `Program::query` reads it.  A command line client
and an HTTP server make the calls.

## Inventory

| Component | Source | State | Operations | What makes it correct |
|---|---|---|---|---|
| Four-valued logic | `TruthValue*.cc` | none | tables, negation and complement of sets | the merge of two values is their join in the information order |
| Relation store | `KB/KBRelation.*` | `facts`, `edbFacts`, two counters of Incons facts, `finalized` | addEdbTuple, finalize, addTuple, clear, clearIncons, addIncons | unique terms, counters that fit the facts, EDB facts frozen, Incons facts survive a round |
| Rule evaluation | `Eval/*` | sorted temporary tables of one call | first subgoal, merge joins (safe, Unknown, outer), projection | a result is exactly what the instances of the rule give |
| Naive evaluation | `NaiveEvaluation.cc`, `Evaluation.cc` | phase of the module, backup of its IDB relations, four counts | generate, rounds | it ends; the model is closed under the rules and supported by them |
| Semi-naive evaluation | `SemiNaiveEvaluation.cc` | the same and deltas | first pass, delta passes, rounds | the same, and the same answers as the naive one |
| Module validation | `KnowledgeBase.cc` (validateModule, check*) | `varsDiff`, the types of variables | names, arities, types, variables of rules | what passes can be converted without an error and evaluated without an unbound variable |
| Knowledge base | `KnowledgeBase.cc`, `KB/KBModule.*`, `DataPool.h`, `Program.cc` | pools of module and relation names, relations, modules, the locals of addModule | addModule, conversion, listModules, listRelations, clear | the pools fit each other; a refused module leaves nothing behind |
| Order of literals | `RuleProcessing.cc` | none | SortRuleLiterals | unsafe literals after the safe ones that bind their variables |
| Parallel selection and sort | `EvalSubgoal.cc`, `omp_mergesort.h` | per-thread index arrays, the shared table, the tree of tasks | two parallel loops, parallel mergesort | same rows and same order whatever the threads do; no two write to one place |
| Term interning | `TermMapper.cc`, `DataPool.h` | pools of strings, dates, reals | internTerm, queryTermId, queryTerm | answers do not depend on the numbers |
| Queries | `Query.cc`, `Evaluation.cc` (queryKB), `KnowledgeBase.cc` (convertQuery) | the tokens read so far | parseQuery, convertQuery, canBeUnified, queryKB | exactly the matching facts; refused only for a reason |
| Parser | `QlParse.y`, `QlParseUtils.h`, `QlDeserializer.cc` | domains of the module, error flag | resolveDomains, parse | a module is what its text says, or an error |
| Dates | `DateTime.cc` | the process's `TZ` | my_timegm, validation | TZ is what it was; the time is in UTC |
| Command line client | `src/cli/Cli.cc` | a Program, its prompt | import, evaluate, query, clear | an import is evaluated before it is queried |
| HTTP server | `src/server/fovrisd.cc` | a Program per request | queryPost | an answer depends on its request alone; every request is answered |
| Values and printers | `Term.cc`, `include/fovris/*` ... | none | | output format |

How they interact.  The client or the server parses a script and gives the
modules to `Program::addModules`, which validates and converts them one by one
and fills the relation stores.  An exception leaves behind what was added before
it; the client ends with it, a user of the library may go on.  `evaluate` hands
each module to the algorithm, which calls the rule evaluation with references to
the pools of the relations a rule reads (`GetRelationRefs`), aggregates the result
and adds it to the head's relation tuple by tuple.  All this is a call in the
caller's thread: the hard part is the long protocol of phases, counters and
copies by which a module with inconsistent facts is re-evaluated until it is
stable, and the merge joins, whose special cases depend on run lengths and on
which side ends first.  Concurrency exists in two places: the OpenMP regions that
select and sort long relations, and the threads of the server, which share
nothing but the environment variable `TZ`.  Nothing is persisted and nothing is
sent between processes but one HTTP request and its answer, so that crashes,
restarts and lost messages are not behaviours of this code.

The hard behaviours, each with its line and the property that is about it, are
the `hazards` of `PROJECT.json`.

## Modules

| Module | Models | Extends / uses |
|---|---|---|
| `TruthValues` | values and tables | |
| `KBRelation` | the operations of a relation as operators on a record | `TruthValues` |
| `RelationStore` | the life of one relation under any rules: the abstract specification of what the evaluators do to it | `KBRelation` |
| `RuleEval` | one rule, from pools to result, in the order the code produces it | `KBRelation` |
| `RuleEvaluation` | one call of a rule and what its result must be | `RuleEval` |
| `Evaluation` | modules, their order, phases and correction rounds, shared by both algorithms | `RuleEval`, instantiates `RelationStore` |
| `NaiveEvaluation`, `SemiNaiveEvaluation` | the two algorithms: their state, its initial value and the steps of `evaluate()` | `Evaluation` |
| `Program` | a program object, which takes one of the algorithms when it is made, and its caller | `NaiveEvaluation`, `SemiNaiveEvaluation` |
| `Algorithms` | one script under both, twice each | `NaiveEvaluation`, `SemiNaiveEvaluation` |
| `LiteralOrder` | the comparator of literals and what libstdc++'s sort does with it | `TruthValues` |
| `KnowledgeBase` | addModule: validation, conversion, exceptions, clear | `LiteralOrder` |
| `Parsing` | what the grammar's actions make of a file | |
| `Session` | a program and its caller, the client or a user of the library: imports of several files, evaluations, clears | `KnowledgeBase`, `Parsing`, instantiates `Catalog` |
| `Catalog` | the abstract specification of a knowledge base: whole modules or nothing | |
| `QueryText` | the reader of single queries, token by token | |
| `QueryAnswering` | interning, query conversion, answers | `KBRelation`, `QueryText` |
| `ParallelSelection` | the two parallel loops that select facts | |
| `ParallelSort` | the sort behind them, and the specification of both | `ParallelSelection` |
| `Server` | requests, threads, conversions of dates | |
| `MC*` | rules, pools, programs, texts, queries and scripts for TLC | |
| `RuleEvalProofs` | lemmas about induction, recursion, folds, concatenations, chains of typed values and sums, without an operator as a parameter, which the other proofs use; lemmas about relations; the types of rule results | `RuleEval`, `SequencesExt`, `TLAPS` |
| `RuleEvaluationProofs` | selection, sort, merge joins, projection and the chain of literals, down to what a rule gives | `RuleEvaluation`, `RuleEvalProofs` |
| `RelationStoreProofs`, `EvaluationProofs`, `SessionProofs`, `ParallelProofs`, `QueryProofs`, `ServerProofs` | theorems | the module they are about, `RuleEvalProofs` (not `ServerProofs`), `TLAPS` |

### State and actions

*Relation store.*  A `FactsPool` is a random-access index with a unique hash
index on the terms, so it is a sequence of `[terms, value]`; the order matters
because aggregation reads it.  `PutTuple`/`PutCount` are the body of `addTuple`,
including that a new tuple is never counted, whatever its value; `ClearIncons`
tests the value after it was overwritten, as the code does; `AddInconsTuple`
counts twice.  `RelationStore` has one action per call: a fact of the text,
`finalize`, a rule result, the move-clear-clearIncons at the start of a round,
one step of the `addIncons` loop.

*Rule evaluation.*  `EvalSubgoalFirst`, `EvalSubgoalNext` and
`EvalNextDisjunction` select, sort, merge and project like the classes of those
names, row by row and in the same order; `MergeJoin`, `MergeJoinUnknown` and
`MergeOuterJoin` are the three loops.  `Null` is a number, as in the code, above
all others.  Comparisons compare the interned numbers, as signed integers, because
`convertRuleFunction` leaves every operand with the type of a default element.
No evaluation is made for a rule with a body whose first literal accepts Unknown
(`FirstUnsafe`): `RuleEvaluation` throws then (`Throw`), and in a session it is the
call of `evaluate` that throws.

*Evaluation.*  A step evaluates one rule (`EvaluateRule`), adds one tuple of its
result (`AddPending`), restores one tuple (`RestoreTuple`) or moves the module
to its next phase: `first` -> (`correct` -> `restore` -> `incons`)* -> next module.
`Caller` adds the facts of a module in any order and selection, evaluates, adds
another module, evaluates again.  `Program` runs the steps of the algorithm it was
made with, so that one specification has the behaviours of both; `Algorithms`
runs them one after the other on the same facts.

*Knowledge base.*  A text is a parsed module; pools and deques are sequences, and
a number is a place in one.  `StartAddModule` takes a text; `Validate` is the
whole of `validateModule`, which changes nothing, and raises, aborts in a failed
assertion or starts the conversion; then each relation, rule and fact is one
step (`AddRelation`, `AddRule`, `AddFact`), so that an error in the middle would
leave a part of the module behind, and `FinishModule` finalizes.  `TypesMet`,
`VarsMet` and `Satisfied` accumulate over the disjuncts of a rule, as `varsDiff`
and the map of types do, which live longer than the disjunct they are for.
`AddRule` aborts where `termTypes.at` or an assertion would, and `AddRelation`
and `AddRule` raise when a name is there already or is not found, although the
validation should leave no such case: that it leaves none is `PoolsFit`.

*Order of literals.*  `Precedes` is the comparator; it is not a strict weak
order.  libstdc++ sorts up to 16 elements by insertion, and `Insert` is its step,
with the unguarded search the library uses for elements that do not precede the
first.  Longer bodies are outside the model.

*Parsing and sessions.*  `ParseModule` resolves the domains of a block and drops
what the grammar's actions drop; `ParseFails` says when `parse` throws, and then
nothing of the file is added.  `Session` reads a file, adds its texts one after
the other and, in the client, evaluates once after all files of the command line
or after an import.  `FailImport`, `FailParse`, `FailEvaluate` end the client;
`CatchImport`, `CatchParse`, `CatchEvaluate` are the library's user, who goes on with
what is there.  `Evaluate` is one step here: what it does is `Program`'s question.  It
throws if a module has a rule that cannot be evaluated (`FailingModules`); by then the
modules before it have been evaluated (`CatchEvaluate`).  The programs of `Program` and
`Algorithms` have no such rule (`FirstLiteralsSafe`).

*Queries.*  `ReadToken` is one turn of the loop of `Query.cc`, which knows its
place by the parity of a counter.  `Intern` numbers strings from 0 in the order
they are met, for facts and for the terms of rules alike; `ConvertQuery` numbers
the query's variables from 0 and looks constants up; `CanBeUnified` is the code's
test.

*Parallel selection and sort.*  Both loops run one iteration per step and
thread.  A static schedule gives each thread a contiguous part (`chunk`), the same
one in both loops as long as both teams have the same size; which size the runtime
gives is open.  `AddUp` is the serial loop between them.  A call of
`mergesort_parallel_omp` or `mergesort_serial` is a task named by the path of
halves that leads to it.  `Split` starts the two sections of a parallel call, which
run at the same time; `CallFirst` and `CallSecond` are the calls of a serial one,
which run one after the other and use the same part of `temp`; `Join` is where the
halves have returned.  `Merge` moves one value, so that merges of different calls
interleave; `SortPart` and `CopyBack` are one step each: that no other call reads
or writes their part meanwhile is the property `NoDataRaces`.

*Server.*  A thread accepts a request, converts the dates of its script one after
the other, and responds in one of the ways of `queryPost`: an answer, an error in
the script, a module that is refused or cannot be evaluated, a query that is not understood, or an
exception that nobody catches but crow, which answers 500.  A conversion is
`getenv`, `setenv`, `mktime`, restore.  `getenv` and `setenv` in two threads at once are
a data race in C; the model takes each as an atomic step, so that what it shows
happens even with a C library that locks the environment.

## Runs

Passing runs:

| Run | Question | Bounds |
|---|---|---|
| `RelationStore` | does one relation keep its promises under every sequence of results | two term arrays; the pools are unique, so nothing else needs a bound except that the counter is bounded by the protocol. Two arrays let one fact change while another stays, and every value meet every value |
| `RuleEval` | do the joins give exactly the instances of a rule; do outer joins and joins with Unknown make up results | rules without disjunction (projection, repeated variables, constants, three literals and more, comparisons also with one literal, negated heads, literals that accept Unknown, one of them before its variable is bound, one that comes first) and with it (also with shared variables at different places of the two sides), over all pools of four pairs True or absent, and of three pairs with every known value: runs of equal keys of length up to 2 on both sides, adjacent runs, either side ending first |
| `Program` | does `evaluate` end, is its model right, does it use the store as promised, whichever the algorithm | eight programs (scripts of `src/test/functional` with their facts left open, transitive closure linear and not, two modules), every selection and order of their facts, two evaluations |
| `Algorithms` | same answers from both algorithms, and again; the answers the functional tests expect | the same programs and eleven scripts with their csv files, four evaluations |
| `Queries` | is a text read as the query it is, and answered exactly | two names, a constant that no text has, two variables, a binary relation of at most two facts, any interning between them; every query, and ten texts that are cut off, have tokens out of place, too few terms or too many, or ask for what is not there |
| `Session` | what is a knowledge base after imports that fail anywhere, and does every import end | five modules that refer to each other, ten that are refused, each for another reason, files with several modules, with domains, without, and one that is no sentence; up to two files at the start; no import once there are four modules. Every reason of refusal meets an empty, a partly loaded and a full program |
| `Parallel` | is the parallel selection the serial one, and the parallel sort a sort, however the threads interleave | relations of five facts with two keys and of fewer, threshold 4, teams of 1, 3 and 4 threads of at most 4, parts of less than 2 sorted by insertion: uneven parts, threads without a part, equal keys across halves, two levels of halves |
| `Server` | what may threads that share `TZ` do to an answer, and is every request answered | two threads, three requests, five kinds of scripts (two dates, a valid and an invalid date, a refused module, a syntax error, a bad query), TZ set or not at the start |

Violation runs are disagreements between the code and what its documentation or
comments say; `findings` in `PROJECT.json` quotes both.

| Run | What it shows |
|---|---|
| `Copy` | Incons is carried over from one aggregated tuple to the next |
| `LiteralOrder` | a literal that accepts Unknown is put before the safe one that binds its variable, when another safe literal shares no variable with it; if it comes first, `evaluate` throws |
| `NegatedExternal` | a negated literal of another module without `in` accepts every value |
| `NullJoined` | facts with -1 are joined with facts that differ from them: the integer has the number of a missing value |

The passing runs check the properties that hold around these: their rules and
programs are of all other kinds, and each property is an implication whose
hypothesis names the kind it is about (`AnswerExact` speaks of queries in which no
variable occurs twice, although the others are asked too and their answers must be
justified when they are refused; `ResultSound` and `ResultComplete` speak of facts
without the integer -1, for which `NullJoined` refutes them, `ResultSound` asks that
the order of the body binds what it tests (`BoundInOrder`), `ResultComplete` is not
asked of rules with a literal that accepts Unknown, `RulesCovered` asks for the order of a body
only when its literals share variables, `OverlapNeeded` speaks of requests whose
conversions overlapped none).  The programs of `Program` and `Algorithms` include
inconsistent facts that are copied and derived, with rules where the aggregation
has one tuple or equal ones.

Deadlock is checked in all runs but those of `RuleEvaluation`, `Session`,
`ParallelSort` and `Server`, where it would be the end of the system: a call has
returned, the client has exited, the sort is done, all requests are answered.
That those ends are reached is `ImportEnds`, `SelectionEnds` and
`RequestsAnswered`.

`TermArrays`, `MaxEvaluations`, `MaxFacts`, `MaxModules` and the numbers of threads
and requests are the only bounds that the code does not have; the counters of the
code stay below their width by many orders of magnitude and are natural numbers.
`Threshold` and `Small` stand for constants of the code that are larger
(`MtFactNumThreshold`, the size below which `omp_mergesort.h` sorts by insertion);
nothing depends on their value but how long a relation must be for the branch.

### Disagreements without a run

The definitions reproduce these too.

*Joins.*  The outer join of two disjuncts drops the left rows that remain behind
the last right row (`EvalSubgoal.cc:1191`), so completeness is not asked of
disjunctions.  A left row that no right row joins keeps its own value whatever
the sign of the head (`EvalSubgoal.cc:1140`).  A left row that joins with nothing
is dropped when no right row precedes it (`EvalSubgoal.cc:722`).  The False of the
first literal of a body reaches the head (`EvalSubgoal.cc:381`).

*Rules.*  Comparisons are not evaluated in a body with one literal
(`EvalRule.cc:115`), so that `h(X) :- a(X), X < 2` derives `h` of every `a`; the
properties about results count them in longer bodies only (`FunctionsHold`).  A rule
that the validation accepts may have a literal that accepts Unknown first in its body,
when it shares no variable with the others; then `evaluate` throws
(`EvalSubgoal.cc:1217`).  The disjuncts of a rule share the variables that the
validation has met (`KnowledgeBase.cc:386`), so that a later one may lack variables of
the head, which are Null in its rows: `RulesCovered` promises of each disjunct only what
is bound up to it.  A disjunct of comparisons alone passes the validation when
another one binds its variables, and its evaluation takes the front of an empty
vector (`EvalRule.cc:113`); the behaviour is undefined and no rule of the models
is like that.  The result of a rule with one literal is in the order of insertion,
although it is aggregated as sorted (`Evaluation.cc:52`).  A module is left early
when its own counter is zero, so that an inconsistent fact of an earlier module
is not always taken over (`NaiveEvaluation.cc:118`).

*Sorting.*  The mergesort leaves equal keys in the reverse of their order; it does
so whatever the threads do, and `SortExact` says so, since an evaluation would
otherwise depend on scheduling.

*Server.*  Two conversions that overlap take a date in the zone of the server, although
the server is said to be stateless (`fovrisd.cc:25`); `DateTime.cc:92` says that the
conversion is not safe for threads.

*Texts.*  Without a section of domains a relation with an unknown alias, and all
after it, are dropped without the message "Unrecognized domain" (`QlParse.y:211`).
An alias that is given twice keeps its first type.  A query may have a comma, a
dot or a parenthesis where a term is due, which is no term (`Query.cc:93`).  A
variable that occurs twice in a query is compared with its number
(`Evaluation.cc:29`).

### Fairness

Fairness is assumed of code that runs, never of whoever calls it.

- Weak fairness of `EvaluateKB` in `Program`: `evaluate()` runs in the thread of its
  caller and takes no lock and does no I/O, so that as long as it runs its next step
  happens.  It is spelled out, with `Running` for `ENABLED EvaluateKB`: while
  `evaluate()` runs it always has a next step (otherwise TLC would report a deadlock
  in the same run), and TLC is spared evaluating a rule to find out.
  `EvaluationReturns` is checked under this fairness alone.
- `WF_vars(Running)` in `Session`, for the same reason: the thread in `addModules`
  goes on until it returns or throws.  The user may wait at the prompt for ever.
- `WF_vars(EvalNext)` in `ParallelSort`: some thread of the team goes on while one
  can.  No thread waits for another but at the barriers at the ends of the regions,
  so that more is not needed.
- `WF_vars(ThreadStep(t))` for every thread of the server: each is a thread of the
  operating system and takes no lock.

### Refinement

`StoresImplemented` says that under both algorithms every relation behaves as
`RelationStore`, with `rel <- rels[r]` and the phase derived from the module's:
the store is `correct` or `restore` when its module is and the relation is a head
of one of its rules, `loading` until it is finalized, `derive` otherwise.  What is
proved of `RelationStore` for every set of terms and every sequence of results
therefore speaks about the relations of both evaluators.

`CatalogImplemented` says that what `listModules`, `listRelations` and the rules
show of a knowledge base (`Listed`, which reads the pools by number as those
functions do) behaves as `Catalog`: a module is there as a whole, as its text
declares it, or not at all; it is added only if it is well formed and all that
its rules name is in it or in a module before it; and nothing but `clear` takes
one away.  The many steps of `addModule`, the refused imports and the evaluations
are stutters.

## Proofs

| Theorem | Statement |
|---|---|
| `MergeIsJoin` | the merge of two values is their least upper bound |
| `StoreTypeOK` | type correctness of the store; the counter never goes below zero |
| `StoreUniqueTerms` | no pool has two tuples with the same terms |
| `StoreEdbCounter`, `StoreCounts` | the EDB counter is exact; during a round the counter is the EDB counter plus the Incons facts |
| `StoreCorrectionKeeps`, `StoreEdbFactsStay` | a round loses no Incons fact and no fact of the text |
| `StoreEdbFrozen`, `StoreFactsOnlyGrow` | the two action properties |
| `SelectionIsExact` | the table of the parallel selection is that of the serial loop |
| `WritesAreApart` | no thread writes outside the table or over what another wrote |
| `RuleTyped` | what a rule gives are tuples of the head's arity, of the values that the pools hold, True, False or Incons |
| `MergeJoinExact` | the merge join of two sorted tables gives each pair of rows with equal keys once, and no other |
| `MergeJoinUnknownSound` | the join with a literal that accepts Unknown gives pairs that join, and left rows alone only if none joins |
| `ResultIsSound` | every result of a rule without disjunction is the outcome of an instance of it, if its order binds what it tests and no fact has the integer -1 (`ResultSound`) |
| `ResultIsComplete` | without a literal that accepts Unknown and without the integer -1, every outcome is in the result as often as instances have it (`ResultComplete`) |
| `EvaluationTyped` | relations, backups, deltas and waiting results hold tuples that fit their relation; results wait only for the rule before; what is added is finalized |
| `EveryStoreImplemented` | under either algorithm every relation behaves as `RelationStore` (`StoresImplemented`) |
| `EveryInconsCounted` | the counter that ends a module or leads to a round is not zero while a fact of the module is Incons (`NoInconsMissed`) |
| `TZIsRestored` | TZ is as it was, or empty; and as it was when nobody converts and nobody overlapped |
| `OnlyOverlapsMisread` | a request none of whose conversions overlapped another is answered as if it were alone |
| `SessionTypeOK` | the pools and the locals of addModule keep their types |
| `PoolsAlwaysFit` | whatever is refused and whoever catches it, the number of a module is its place, and every relation is finalized and found under its module |
| `PromptIsEvaluated` | whoever sees the client's prompt asks about the modules that were evaluated |
| `AbortIsJustified` | an assertion fails only for a head of the wrong arity or a comparison in a rule of several disjuncts |
| `RulesAreCovered` | the safe literals up to a disjunct bind the variables of the head and of its comparisons, and the order of the first body binds the tested ones when all literals share one |
| `DomainsAreResolved` | a relation has the types that its file gives the aliases of its columns |
| `CatalogIsImplemented` | the knowledge base implements `Catalog`: modules appear whole, well formed and as their text says, or not at all |
| `SortIsExact` | the sorted table has each selected fact once, in the order of the keys, and equal keys in a fixed order |
| `NoDataRacesAnywhere` | two calls of the mergesort that run at the same time share no part of the array and none of `temp`, at any depth |
| `AnswersAreExact` | a query without repeated variables gets the facts of the script that it matches, each once and under its names |
| `RefusalsAreJustified` | what is refused matches no fact |
| `SyntaxErrorsAreJustified` | what the reader refuses is no query of the grammar |

*Induction.*  The prover cannot instantiate the induction theorems of the library,
which take an operator as a parameter.  `RuleEvalProofs` states what is needed
without one: a set of numbers that has 0 and is closed under successor has all of
`Nat` (from the library's least elements); a function on `Nat` that is defined by
recursion exists and satisfies its equation; and a fold of the community modules
over a sequence is the last state of a *run*, a function of the prefix, so that an
invariant of the loop body holds after the loop.  The operator under the fold is
fixed by an equation of functions in the hypotheses.  With these, loops that the model writes
as `FoldLeft` (reading a query, interning, insertion into sorted parts, covering
variables, selecting answers) are proved for every input.

*Store.*  For every value of `Terms`; no assumption is made on it.  None of the
invariants is inductive alone.  `IInv` adds to them what the phases promise each
other: in `restore`, the Incons tuples of the backup before the cursor are Incons
in the facts (`RestoredSoFar`), which becomes `InconsSurvive` when the cursor
reaches the end; while loading there are no facts and no backup (`LoadedOnce`);
and uniqueness of terms, without which `IndexOf` might change another tuple than
the one that was counted.  `RuleEvalProofs` has the lemmas about one operation
each: what `PutTuple` does to the domain, to every other tuple and to the values;
that `PutCount` goes up exactly when a new Incons position appears, which is
where cardinalities are needed; and that `ClearIncons` leaves no Incons fact that
the backup had.

*Rule evaluation.*  For every rule with a literal in each disjunct and its head
covered, and all pools that fit its literals, `RuleTyped` follows the tables through
`EvalRule`: selection, each of the three joins, projection, the chain of literals and
the fold of the disjuncts.  Tables are typed by the length of their rows, which
differs from step to step, so that the chains are chains of types (`ChainTyped`).
`InBounds` is needed for disjunctions: `righComplement` reads a row at an index that
belongs to another one, and where that is behind its end the code reads whatever is
there.  No property can be proved, or run, of what it reads.

*Results.*  For every rule without disjunction (`CasesAssumption`: arities agree, the
body has a literal, and the variables of the head and of the comparisons occur in it,
all of which the validation sees to), with any number of literals in any order, any
comparisons and any relations.  The hypotheses are in the properties themselves, and
the runs reach states in which they fail: no relation has the integer -1 (`ValuesKnown`,
refuted without it by `NullJoined`), and for `ResultSound` the order binds the variables
that literals accepting Unknown test (`BoundInOrder`).  Without the latter it is false:
among the rules of `MCRuleEvaluation` is one, in the order that `SortRuleLiterals` gives
it, where a literal tests Z before Z is bound and the rows it lets pass are no instances.
A rule for which the call throws has no result to speak of.  The
proof goes bottom up, each part in the order of the code.  Keys are compared
lexicographically, which is a total order with Null above the rest, and `StableSort`
keeps the rows and puts them in that order.  A merge join is a path through the grid of
left and right rows: each step moves the cursor of the smaller side, or both when the
keys are equal, and there the rest of the right run is joined with the left row and the
rest of the left run with the right one.  The difficulty is that both cursors move after
a match.  So the path does not meet every pair of equal keys, but it passes each on its
row or its column, at a place with equal keys whose run reaches it (`PairOnHook`), and
it leaves a row or a column for good; hence each pair is given there, and once.  With
this a stage of the chain of literals is exact: `Stage(rows, k, ...)` says that the table
after k literals is a list of what the instances of the first k literals bind
(`Found(k)`), restricted to the variables that are still wanted, and of each of them if
all literals are safe.  With a literal that accepts Unknown only that nothing else is
listed remains: the join drops rows (see above), so that completeness is false there.
The comparisons are applied with the last of several literals, whose stage is projected
to the head.
`Found(n)` is then the set of instances as the specification has it, without tables and
order, and `CallInv` carries the equation over the call.

*Evaluation.*  For every set of relations, all programs and any number of calls of
`evaluate()`, under both algorithms.  `ArraysAreSequences` is a type.
`ProgramsAssumption` says what `validateModule`, the grammar and the pools leave to
hold: arities agree, a rule is in the module of its head, modules share no relations,
rules can be evaluated (`Evaluable`, `InBounds`), and the constants that occur make
arrays of `TermArrays` (`Representable`).  `EInv` has four parts: the order of modules
and the rule that is due; every relation, its backup and its cursor typed by the
relation's arity; results that wait are of the head of the rule before, and not Incons
before the incons phase; relations of added modules are finalized.  It is inductive
because `RuleTyped` gives the type of new results, and `AggregatedTyped` that of merged
ones.  Then each action of `Next` is, seen from one relation, an action of
`RelationStore` or a stutter, one lemma each; a phase change of the module is a step of
each of its heads.  `EveryStoreImplemented` is their sum.

*Counters.*  `NoInconsMissed` is not obvious: a fact that is added as Incons is not
counted, `clear` sets the counter back to that of the text, `addIncons` may count a
tuple twice, and the test looks at a sum.  `CountInv` says why it holds.  A counter
above zero means an Incons fact or one of the text (`RecordCounts`).  A fact becomes
Incons uncounted only in the incons phase, and there a counter of the module is above
zero (`RoundCounted`): the round started with one, and what the start took from it was
of the text, or of a relation that is no head, or is an Incons fact of the backup,
which is counted when it is put back (`StillToRestore`); when the cursors are at the
end none is left.  Other modules are not touched, because modules share no relations
(`HeadsAreOwn`), and a new module has no facts before it is finalized (`OnlyLoaded`).
That the sum of the counters is zero exactly when each of them is needs an induction
over the set of relations (`CounterZero`).

*Parallel selection.*  For every set of relations, every threshold, number of
threads and division of the iterations into contiguous parts.  `ListsAreSequences`
and `MaxThreadsIsPositive` are types; `TeamsFit` says that no team is larger than
the array of counters.  The code does not guarantee it: the option `-t` may ask
for more (`Cli.cc:158`), and then the threads write behind the array.  The
argument is one number, the rank of a place: how many facts are selected up to it.
While the threads count, each counter is a difference of ranks; after the serial
sums it is the rank of the end of the thread's part; while they fill, the local `j`
of a thread is the rank of where it stands, so that a place of the table belongs to
exactly one fact and so to one thread.

*Parallel sort.*  For every relation, `Threshold`, `Small` of at least two
(`SmallAssumption`; a smaller one would recurse for ever) and keys that are numbers.
`SortIInv` adds to the invariant of the selection what the calls know of each other.
`Shape`: the tasks are a tree of halves, a half lies within its call's part of the
array and of `temp`, two calls neither of which is above the other lie apart in the
array, and apart in `temp` unless a serial call runs them in turn.  `NoDataRaces`
follows, because only leaves of the tree are active.  `Contents`: the part of a call
that has returned is settled, sorted and a rearrangement of what it had; one that was
just called still has the selected facts in their order; and in a merge, `temp` has
the values of both halves before the two cursors, sorted, and none behind them is
less.  Stability in reverse is part of "sorted": the order is by key and then by
place, downwards, which is a strict order, so that there is one result.

*Queries.*  For all texts (`QueriesAreTexts` is a type), names and variables that are
apart, an arity above zero and any bound on facts (`NamesAssumption`).  `QueryIInv`
adds `Consistent`: the pool of strings has no name twice, and the facts are those of
the script with numbers for names, each with the merge of the values the script says of
it.  That one step keeps it rests on the pool being appended to, so that old numbers
lead back to old names and no two names share one.  The reader's loop is a run of
tokens; its invariant `IsReading` says which terms have been read when a token is due
and that everything before was a sentence so far.  An answer is then the image of the
facts that unify, and a tuple unifies with a converted query exactly when its names
match (`UnifiedIffMatches`), where a variable that occurs once unifies with anything.

*Server.*  For every number of threads and requests, all scripts and zones
(`ScriptsAreRecords` is a type).  `IInv` says which zones a thread may have read
(`ZonesRead`), that two threads in a conversion overlap (`PairsOverlap`), that as
long as nobody overlapped the one who converts holds the zone of the start
(`NobodyOverlaps`), and that the times of a request that overlapped none are in UTC
(`Converted`).

*Session.*  For all texts and files.  `TextsAssumption` says that the relations,
rules, facts and disjuncts of a text are sequences and that a comparison has two
operands; `FilesHaveTexts` that a file declares texts.  The properties speak of
times when nothing is being converted, and a conversion takes many steps, each of
which has a branch that throws.  The heart of `IInv` is therefore `Converting`: the
name of the module is the last of its pool, the relations so far are those of the
text in their order, and `Validated`: what the validation saw of the text still
holds.  It does because the pools are only appended to (`ValidatedStays`), and from
it follows that no step of a conversion raises anything, so that a name never
stays in its pool without a module.

*Catalog.*  On top of the invariant of the session, `ContentInv` relates what is
loaded to the texts it came from: no relation has its number twice
(`SymbolsDistinct`), the rules of a module refer to relations that are there
(`RulesKnown`), their bodies are covered (`AllCovered`), relations and rules read back
through the pools are those of the text, one by one (`Translated`), and every text
has the domains of its file (`AllRead`).  Then each step of a conversion leaves
`Listed` as it is, `FinishModule` adds the entry of the text, and the validation that
was passed gives the guard of `Catalog`'s step.  That the order of literals covers
what it can, after any insertion of the sort, is a lemma about the fold.

The theorems rest on no other assumption than those named here, each an `ASSUME` of
the module that declares the constants, which TLC evaluates in the runs:
`TextsAssumption`, `FilesHaveTexts`, `ListsAreSequences`, `MaxThreadsIsPositive`,
`TeamsFit`, `ThresholdAssumption`, `SmallAssumption`, `KeysAreNumbers`,
`QueriesAreTexts`, `NamesAssumption`, `ScriptsAreRecords`, `ArraysAreSequences`,
`ProgramsAssumption`, `FirstLiteralsSafe` and `CasesAssumption`.

### Only model-checked

- Disjunctions (`DisjunctionSound`): the outer join of disjuncts reads rows at indices
  that belong to other rows, and the proofs of results are about one disjunct.
- What an evaluation computes (`ModelClosed`, `ModelSupported`) and the agreement of
  the algorithms (`AlgorithmsAgree`, `AnswersStay`, `ScriptsAnswered`).  They need the
  results of rules over facts that change while rules are evaluated, fixpoints told by
  counts alone, and hold of programs without the disagreements above, which their
  definitions do not name but the programs of the runs leave out.
- Liveness: `EvaluationReturns`, `ImportEnds`, `SelectionEnds`, `RequestsAnswered`.
  Neither fairness nor `ENABLED` is within the prover's reach.

## Not modelled

- `remove` and `addFact` of `KBRelation`, `retrieveModule` and `retrieveRelation`:
  nothing in the programs calls them.
- The order `std::sort` gives equal keys, and bodies, of more than 16 elements.
- The dispatch of comparisons on types other than integers: no knowledge base
  reaches it.
- The pools of dates and reals (they work as that of strings), the patterns of
  dates and the arithmetic of calendars: pure functions.
- Scanners and tables of parsers, which re2c and lemon generate, and the actions
  of the grammar that only build terms.
- Options, completion and output of the client; printers and value classes;
  `healthz` and the preflight answer of the server, which have no state.
- What a team larger than the array of counters does, and what a racing
  `getenv`/`setenv` does inside the C library: undefined behaviour with no
  outcome to choose from.
- Third-party code: `include/fovris/date.h`, `thirdparty/` (lemon, linenoise-ng,
  optionparser, crow with its HTTP parser and json), and the generated scanners.
  This is five sixths of the lines of the repository that count as implementation.
  The hand-written code of FOVRiS is about 8,000 lines, the models stand for
  about 3,700 of them, and what is left is output, options, value classes and
  declarations.  `PROJECT.json` gives the reason for each part.

## Plan

Done: truth values, store, rule evaluation, both algorithms and their agreement,
interning and queries; the order of literals, the knowledge base with its
validation and exceptions, sessions and their abstract specification, domains,
the reader of queries, the parallel selection and sort, the server; the proofs of
the store, the types of rule results, the results of rules without disjunction, the
evaluators as users of the store, the
counters of Incons facts, the selection and the sort, the server, the session, the
catalog and the queries.

Left, in this order:

1. `ModelClosed` for the naive algorithm: the last pass changes no count, hence no
   fact, so that what its rules gave is there; `ResultIsComplete` says what that is.
2. `DisjunctionSound`, with the lemmas about one disjunct for each of them.
3. Comparisons of more types, should `convertRuleFunction` come to give them.
