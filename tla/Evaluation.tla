------------------------------ MODULE Evaluation ------------------------------
(***************************************************************************)
(* What NaiveEvaluation.cc and SemiNaiveEvaluation.cc have in common: the  *)
(* knowledge base with its modules, the order in which modules are added   *)
(* and evaluated, and the correction rounds of a module with Incons facts. *)
(*                                                                         *)
(* A program is [modules, facts]: the modules in the order in which they   *)
(* are added, each [relations, rules] with its relations in the order of   *)
(* their ids, and a set of facts that the program text may hold.  Which of *)
(* them it holds, and in which order, is chosen while the module is added. *)
(*                                                                         *)
(* An evaluator step either evaluates a rule, or adds one tuple of its     *)
(* result to the head relation, or moves the module to its next phase.     *)
(***************************************************************************)
EXTENDS RuleEval

CONSTANTS
  Relations,        \* names of the relations of all programs
  TermArrays,       \* the arrays of constants a tuple may have; Null is one of them
  Programs,         \* the programs
  MaxEvaluations    \* how often evaluate() is called at most

Term == [isVar : BOOLEAN, id : Nat]
Disjunct ==
  [body : Seq([rel : Relations, terms : Seq(Term), set : SUBSET TruthValue]),
   functions : Seq([op : STRING, terms : Seq(Term)])]
RuleRecord ==
  [head : [rel : Relations, isTrue : BOOLEAN, terms : Seq(Term)], disjuncts : Seq(Disjunct)]

RulesIn(p) == UNION {ToSet(p.modules[m].rules) : m \in DOMAIN p.modules}

\* The relations a program mentions, each with the number of its terms there.
Atom(of) == [rel |-> of.rel, arity |-> Len(of.terms)]
Mentions(p) ==
  {Atom(fact) : fact \in p.facts} \cup {Atom(q.head) : q \in RulesIn(p)} \cup
  UNION {{Atom(lit) : lit \in ToSet(Literals(q))} : q \in RulesIn(p)}

Values == {Null} \cup UNION {ToSet(terms) : terms \in TermArrays}

\* What the validation of a module makes sure of: a rule has a literal in every
\* disjunct and the variables of its head in some literal.
Evaluable(q) ==
  /\ q.disjuncts # << >> /\ \A d \in DOMAIN q.disjuncts : q.disjuncts[d].body # << >>
  /\ \A v \in VarIds(q.head.terms) : \E lit \in ToSet(Literals(q)) : v \in VarIds(lit.terms)

\* righComplement reads a row of the right disjunct at an index of the left
\* one.  Where that index is behind the row the code reads other memory.
InBounds(q) ==
  LET vars == VarsOf(q.head.terms, Literals(q))
  IN  \A d \in DOMAIN q.disjuncts :
        LET left  == Seen(vars, LiteralsOf(SubSeq(q.disjuncts, 1, d - 1)))
            right == Seen(vars, q.disjuncts[d].body)
        IN  \A v \in VarIds(left) \cap VarIds(right) : FrontIndex(left, v) <= Len(right)

\* The results of a rule are among TermArrays.
Representable(q) ==
  /\ \A i \in DOMAIN q.head.terms : q.head.terms[i].isVar \/ q.head.terms[i].id \in Values
  /\ [DOMAIN q.head.terms -> Values] \subseteq TermArrays

ASSUME ArraysAreSequences == TermArrays \subseteq Seq(Nat)

ASSUME ProgramsAssumption ==
  \A p \in Programs :
    /\ p.modules \in Seq([relations : Seq(Relations), rules : Seq(RuleRecord)])
    /\ p.modules # << >>
    /\ p.facts \subseteq [rel : Relations, terms : TermArrays, value : {False, True}]
    /\ \A a, b \in Mentions(p) : a.rel = b.rel => a.arity = b.arity
    /\ \A m \in DOMAIN p.modules : \A q \in ToSet(p.modules[m].rules) :
         q.head.rel \in ToSet(p.modules[m].relations)
    /\ \A m, n \in DOMAIN p.modules :
         ToSet(p.modules[m].relations) \cap ToSet(p.modules[n].relations) # {} => m = n
    /\ \A q \in RulesIn(p) : Evaluable(q) /\ InBounds(q) /\ Representable(q)

\* Otherwise evaluate() throws before it evaluates the module (see Session).
ASSUME FirstLiteralsSafe == \A p \in Programs : \A q \in RulesIn(p) : ~FirstUnsafe(q)

VARIABLES
  program,      \* the program that is run
  rels,         \* knowledge base: record of every relation
  loaded,       \* number of modules added
  evaluations,  \* number of calls of evaluate()
  mod,          \* module being evaluated
  phase,        \* see Phases
  rule,         \* rule of the module that is evaluated next
  pending,      \* results of rule - 1 that are still to be added
  backup,       \* prevIdbRelations
  cursor,       \* positions of the addIncons loops in backup
  genTrueInfo,  \* the counts after the true phase of this round,
  genTruePrev,  \* of the round before,
  genInconsPrev \* and after the incons phase of the round before

genInfos == <<genTrueInfo, genTruePrev, genInconsPrev>>

baseVars == <<program, rels, loaded, evaluations, mod, phase, rule, pending,
              backup, cursor, genInfos>>

\* load: a module is being added.  idle: evaluate() has not been called since
\* the start, or has returned.  The others are inside evaluateKBModule:
\* first, correct and incons are its three calls of generate, restore the
\* addIncons loops.
Generating == {"first", "correct", "incons"}
Phases == {"load", "idle", "restore"} \cup Generating

Running == phase \notin {"load", "idle"}

Module(m) == program.modules[m]
Rules == Module(mod).rules
Heads == {Rules[i].head.rel : i \in DOMAIN Rules}
Idb == LET relations == Module(mod).relations
       IN  ElementsAt(relations, {k \in DOMAIN relations : relations[k] \in Heads})
RelationsOf(m) == {Module(m).relations[i] : i \in DOMAIN Module(m).relations}

factsNumber       == MapThenSumSet(LAMBDA r : Len(rels[r].facts), RelationsOf(mod))
inconsFactsNumber == MapThenSumSet(LAMBDA r : rels[r].inconsFactsNumber, RelationsOf(mod))
GenInfo == <<factsNumber, inconsFactsNumber>>

NoGenInfo == <<0, 0>>

BaseInit ==
  /\ program \in Programs
  /\ rels = [r \in Relations |-> EmptyRelation]
  /\ loaded = 0
  /\ evaluations = 0
  /\ mod = 1
  /\ phase = "load"
  /\ rule = 1
  /\ pending = << >>
  /\ backup = [r \in Relations |-> << >>]
  /\ cursor = [r \in Relations |-> 1]
  /\ genTrueInfo = NoGenInfo
  /\ genTruePrev = NoGenInfo
  /\ genInconsPrev = NoGenInfo
------------------------------------------------------------------------------
(***************************************************************************)
(* The knowledge base and its caller.  addModule is atomic for everyone    *)
(* else; its steps are apart so that every selection of facts occurs.      *)
(***************************************************************************)

AddFact(fact) ==
  /\ phase = "load"
  /\ fact.rel \in RelationsOf(loaded + 1)
  /\ rels' = [rels EXCEPT ![fact.rel] =
                AddEdbTuple(@, [terms |-> fact.terms, value |-> fact.value])]
  /\ UNCHANGED <<program, loaded, evaluations, mod, phase, rule, pending,
                 backup, cursor, genInfos>>

FinishModule ==
  /\ phase = "load"
  /\ rels' = [r \in Relations |-> IF r \in RelationsOf(loaded + 1)
                                  THEN Finalize(rels[r]) ELSE rels[r]]
  /\ loaded' = loaded + 1
  /\ phase' = "idle"
  /\ UNCHANGED <<program, evaluations, mod, rule, pending, backup, cursor, genInfos>>

\* readProgramFromFiles adds several modules before it evaluates, the import
\* command of the interactive client adds modules to an evaluated program.
AddModule ==
  /\ phase = "idle"
  /\ loaded < Len(program.modules)
  /\ phase' = "load"
  /\ UNCHANGED <<program, rels, loaded, evaluations, mod, rule, pending,
                 backup, cursor, genInfos>>

\* Program::evaluate, from the first module on, whatever was evaluated before.
StartEvaluate ==
  /\ phase = "idle"
  /\ loaded > 0
  /\ evaluations < MaxEvaluations
  /\ evaluations' = evaluations + 1
  /\ mod' = 1
  /\ phase' = "first"
  /\ rule' = 1
  /\ UNCHANGED <<program, rels, loaded, pending, backup, cursor, genInfos>>

\* The interactive client waits for its next line.
Wait == phase = "idle" /\ UNCHANGED baseVars

Caller ==
  \/ \E fact \in program.facts : AddFact(fact)
  \/ FinishModule
  \/ AddModule
  \/ StartEvaluate
  \/ Wait
------------------------------------------------------------------------------
(***************************************************************************)
(* evaluateKBModule.  over says that the running call of generate returns. *)
(***************************************************************************)

\* The results the phase adds: NotEqualsIncons or EqualsIncons.
Wanted(result) ==
  ElementsAt(result, {k \in DOMAIN result : (result[k].value = Incons) <=> (phase = "incons")})

\* AggregateSortedRuleResult.  A tuple is kept when the next one has other
\* terms, and takes the best value; the last one keeps its own value, and
\* the best value goes on to the next tuple.
Aggregated(result) ==
  LET step(acc, next) ==
        IF next.terms = acc.tuple.terms
        THEN [acc EXCEPT !.best = IF next.value \in {@, Incons} THEN @ ELSE Incons]
        ELSE [acc EXCEPT !.out = Append(@, [acc.tuple EXCEPT !.value = acc.best]),
                         !.tuple = next]
      all == FoldLeft(step, [out |-> << >>, tuple |-> result[1], best |-> result[1].value],
                      Tail(result))
  IN  IF result = << >> THEN << >> ELSE Append(all.out, all.tuple)

\* The tuples of a rule's result that the phase gives to AddResultsToRelation.
ToAdd(result) == Wanted(IF phase = "incons" THEN Aggregated(result) ELSE result)

\* GetRelationRefs
RelationRefs(evaluated) ==
  LET literals == Literals(evaluated)
  IN  [k \in DOMAIN literals |-> rels[literals[k].rel].facts]

RuleDue == phase \in Generating /\ pending = << >> /\ rule <= Len(Rules)
PassDone == phase \in Generating /\ pending = << >> /\ rule > Len(Rules)

EndOfModule ==
  IF mod < loaded THEN mod' = mod + 1 /\ phase' = "first" /\ rule' = 1
                  ELSE phase' = "idle" /\ UNCHANGED <<mod, rule>>

\* "no incons facts in module - we can end"
ReturnConsistent(over) ==
  /\ phase = "first" /\ over
  /\ GenInfo[2] = 0
  /\ EndOfModule
  /\ UNCHANGED <<program, rels, loaded, evaluations, pending, backup, cursor, genInfos>>

\* A mutant: the EDB facts that were Incons are not blanked.
ResetIdbWithoutClearIncons ==
  /\ backup' = [r \in Relations |-> IF r \in Heads THEN rels[r].facts ELSE backup[r]]
  /\ rels' = [r \in Relations |-> IF r \in Heads THEN Clear(rels[r]) ELSE rels[r]]
  /\ cursor' = [r \in Relations |-> IF r \in Heads THEN 1 ELSE cursor[r]]
  /\ phase' = "correct"
  /\ rule' = 1
  /\ UNCHANGED <<program, loaded, evaluations, mod, pending>>

ResetIdb ==
  /\ backup' = [r \in Relations |-> IF r \in Heads THEN rels[r].facts ELSE backup[r]]
  /\ rels' = [r \in Relations |-> IF r \in Heads
                                  THEN ClearIncons(Clear(rels[r]), rels[r].facts)
                                  ELSE rels[r]]
  /\ cursor' = [r \in Relations |-> IF r \in Heads THEN 1 ELSE cursor[r]]
  /\ phase' = "correct"
  /\ rule' = 1
  /\ UNCHANGED <<program, loaded, evaluations, mod, pending>>

FirstRound(over) ==
  /\ phase = "first" /\ over
  /\ GenInfo[2] # 0
  /\ genTruePrev' = NoGenInfo
  /\ genInconsPrev' = NoGenInfo
  /\ UNCHANGED genTrueInfo
  /\ ResetIdb

StartRestore(over) ==
  /\ phase = "correct" /\ over
  /\ genTrueInfo' = GenInfo
  /\ phase' = "restore"
  /\ UNCHANGED <<program, rels, loaded, evaluations, mod, rule, pending, backup, cursor, genTruePrev, genInconsPrev>>

Restored(r) == cursor[r] > Len(backup[r])

\* One round of the addIncons loop of the relation whose turn it is.
RestoreTuple ==
  /\ phase = "restore"
  /\ \E k \in DOMAIN Idb :
       LET r == Idb[k] IN
       /\ ~Restored(r)
       /\ \A j \in 1..k - 1 : Restored(Idb[j])
       /\ rels' = [rels EXCEPT ![r] = AddInconsTuple(@, backup[r][cursor[r]])]
       /\ cursor' = [cursor EXCEPT ![r] = @ + 1]
  /\ UNCHANGED <<program, loaded, evaluations, mod, phase, rule, pending, backup, genInfos>>

FinishRestore ==
  /\ phase = "restore"
  /\ \A r \in Heads : Restored(r)
  /\ phase' = "incons"
  /\ rule' = 1
  /\ UNCHANGED <<program, rels, loaded, evaluations, mod, pending, backup, cursor, genInfos>>

RoundChanged == genTrueInfo # genTruePrev \/ GenInfo # genInconsPrev

AnotherRound(over) ==
  /\ phase = "incons" /\ over
  /\ RoundChanged
  /\ genTruePrev' = genTrueInfo
  /\ genInconsPrev' = GenInfo
  /\ UNCHANGED genTrueInfo
  /\ ResetIdb

LastRound(over) ==
  /\ phase = "incons" /\ over
  /\ ~RoundChanged
  /\ EndOfModule
  /\ UNCHANGED <<program, rels, loaded, evaluations, pending, backup, cursor, genInfos>>

Rounds(over) ==
  \/ ReturnConsistent(over)
  \/ FirstRound(over)
  \/ StartRestore(over)
  \/ RestoreTuple
  \/ FinishRestore
  \/ AnotherRound(over)
  \/ LastRound(over)
------------------------------------------------------------------------------
(***************************************************************************)
(* Properties.                                                             *)
(***************************************************************************)

Stores(r) ==
  INSTANCE RelationStore WITH
    Terms  <- TermArrays,
    rel    <- rels[r],
    phase  <- IF ~rels[r].finalized THEN "loading"
              ELSE IF phase \in {"correct", "restore"} /\ r \in Heads THEN phase
              ELSE "derive",
    backup <- backup[r],
    cursor <- cursor[r]

\* Every relation lives the life of RelationStore: whatever the rules, the
\* evaluators add, clear and restore its facts only in that order.
StoresImplemented ==
  /\ \A r \in Relations : Stores(r)!Init
  /\ [][\A r \in Relations : [Stores(r)!Next]_(Stores(r)!vars)]_baseVars

\* A call of evaluate() returns: neither a pass of generate nor a correction
\* round can change the counts for ever (the do loops of generate and of
\* evaluateKBModule).
EvaluationReturns == Running ~> ~Running

\* The modules 1..mod have been evaluated and evaluate() has returned.
Evaluated == phase = "idle" /\ evaluations > 0

RulesOf(m) == {Module(m).rules[i] : i \in DOMAIN Module(m).rules}

ResultsOf(evaluated) == ToSet(EvalRule(evaluated, RelationRefs(evaluated)))

\* The model is closed under its rules: what a rule says True or False of its
\* head is in the head relation, or contradicted there.  The passes of
\* generate end on counts, and the delta passes never see a fact that turns
\* from Unknown to True, so that either could end too early.
ModelClosed ==
  Evaluated =>
    \A m \in 1..mod : \A evaluated \in RulesOf(m) : \A tuple \in ResultsOf(evaluated) :
      LET facts == rels[evaluated.head.rel].facts
      IN  tuple.value # Incons =>
            Has(facts, tuple.terms) /\ InfoLeq(tuple.value, ValueIn(facts, tuple.terms))

\* The model is supported: what is True or False in it and not in the text is
\* what some rule still says when the evaluation has returned, although the
\* facts it was derived from may have changed since.
ModelSupported ==
  Evaluated =>
    \A m \in 1..mod : \A r \in RelationsOf(m) : \A i \in DOMAIN rels[r].facts :
      LET fact == rels[r].facts[i]
      IN  \/ fact.value = Incons
          \/ Has(rels[r].edbFacts, fact.terms)
          \/ \E evaluated \in RulesOf(m) :
               evaluated.head.rel = r /\ fact \in ResultsOf(evaluated)

\* "no incons facts in module - we can end": the counter that is tested is
\* never zero while a fact of the module is Incons, although a fact that is
\* derived as Incons is not counted.
NoInconsMissed ==
  phase \in {"first", "incons"} /\ GenInfo[2] = 0 =>
    \A r \in RelationsOf(mod) : InconsIn(rels[r].facts) = {}

\* "Facts that are both true and false are considered to be inconsistent"
\* (README.md): a fact that is Incons has a rule that says so, or the text and
\* the rules together say True and False of it.
InconsJustified ==
  Evaluated =>
    \A m \in 1..mod : \A r \in RelationsOf(m) : \A i \in InconsIn(rels[r].facts) :
      LET terms == rels[r].facts[i].terms
          said  == {rels[r].edbFacts[j] : j \in DOMAIN rels[r].edbFacts} \cup
                   UNION {ResultsOf(evaluated) : evaluated \in
                            {q \in RulesOf(m) : q.head.rel = r}}
          values == {tuple.value : tuple \in {t \in said : t.terms = terms}}
      IN  Incons \in values \/ {True, False} \subseteq values
==============================================================================
