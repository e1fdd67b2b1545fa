------------------------------- MODULE Session -------------------------------
(***************************************************************************)
(* A program and its caller (Cli.cc, Program.cc): imports, evaluations and *)
(* clears, and where an exception of an import or an evaluation leaves     *)
(* them.  The client evaluates after each import and ends with any         *)
(* exception; a user of the library catches it and goes on with what the   *)
(* call left behind.                                                       *)
(***************************************************************************)
EXTENDS KnowledgeBase, Parsing

CONSTANTS
  Files,        \* that may be imported
  MaxModules    \* a caller that has as many does not import more

\* What a file and its blocks have are sequences.
ASSUME FilesHaveTexts ==
  \A file \in Files :
    /\ Parse(file) \in Seq(Texts)
    /\ \A b \in DOMAIN file.blocks :
         IsSequence(file.blocks[b].domains) /\ IsSequence(file.blocks[b].relations)

VARIABLES
  caller,       \* "client" or "library"
  mode,         \* of the caller: loading, evaluating, ready or exited
  files,        \* the files that are still to be read
  todo,         \* the texts of the last one that are still to be added
  evaluated     \* the number of modules that the last evaluation got through

callerVars == <<caller, mode, files, todo, evaluated>>
vars == <<kbVars, callerVars>>

SessionInit ==
  /\ Init
  /\ caller \in {"client", "library"}
  /\ mode = "loading"
  /\ files \in {<< >>} \cup {<<f>> : f \in Files} \cup {<<f, g>> : f, g \in Files}
  /\ todo = << >>
  /\ evaluated = 0

\* readProgramFromFiles parses a file when the modules of those before it have
\* been added.
Reading == mode = "loading" /\ todo = << >> /\ phase = "idle" /\ files # << >>

ReadFile ==
  /\ Reading /\ ~ParseFails(Head(files))
  /\ files' = Tail(files)
  /\ todo' = Parse(Head(files))
  /\ UNCHANGED <<kbVars, caller, mode, evaluated>>

\* addModules calls addModule for one text after the other.
AddNext ==
  /\ mode = "loading" /\ todo # << >>
  /\ StartAddModule(Head(todo))
  /\ todo' = Tail(todo)
  /\ UNCHANGED <<caller, mode, files, evaluated>>

AddStep ==
  /\ mode = "loading"
  /\ AddModuleStep
  /\ UNCHANGED callerVars

Loaded ==
  /\ mode = "loading" /\ todo = << >> /\ phase = "idle" /\ files = << >>
  /\ mode' = IF caller = "client" THEN "evaluating" ELSE "ready"
  /\ UNCHANGED <<kbVars, caller, files, todo, evaluated>>

\* The rest of the import is lost.
CatchImport ==
  /\ caller = "library"
  /\ Catch
  /\ mode' = "ready" /\ files' = << >> /\ todo' = << >>
  /\ UNCHANGED <<caller, evaluated>>

CatchParse ==
  /\ caller = "library"
  /\ Reading /\ ParseFails(Head(files))
  /\ mode' = "ready" /\ files' = << >>
  /\ UNCHANGED <<kbVars, caller, todo, evaluated>>

Exit ==
  /\ mode' = "exited"
  /\ UNCHANGED <<kbVars, caller, files, todo, evaluated>>

\* A mutant: the exception is caught at the prompt.
FailImportCaught ==
  /\ caller = "client" /\ mode = "loading"
  /\ Catch
  /\ mode' = "ready" /\ files' = << >> /\ todo' = << >>
  /\ UNCHANGED <<caller, evaluated>>

\* main catches what addModules and the parser throw, prints it and returns.
FailImport == caller = "client" /\ mode = "loading" /\ phase = "raised" /\ Exit

FailParse == caller = "client" /\ Reading /\ ParseFails(Head(files)) /\ Exit

\* The exit command, a query that does not parse or asks for what is not there.
EndClient == caller = "client" /\ mode = "ready" /\ Exit

\* The modules with a rule whose first literal, as the order of the body has
\* it, accepts Unknown: CreateEvalSubgoalFirst throws when it comes to them.
FailingModules ==
  {i \in DOMAIN modules : \E rule \in ToSet(modules[i].rules) : \E d \in DOMAIN rule.disjuncts :
     rule.disjuncts[d].body # << >> /\ Unsafe(rule.disjuncts[d].body[1])}

\* The client evaluates when the files are read, a user of the library any time.
Evaluating == mode = (IF caller = "client" THEN "evaluating" ELSE "ready")

Evaluate ==
  /\ Evaluating /\ FailingModules = {}
  /\ mode' = "ready"
  /\ evaluated' = Len(modules)
  /\ UNCHANGED <<kbVars, caller, files, todo>>

\* An AssertionException, which main does not catch.
FailEvaluate == caller = "client" /\ Evaluating /\ FailingModules # {} /\ Exit

\* The modules before the first that fails have been evaluated.
CatchEvaluate ==
  /\ caller = "library" /\ Evaluating /\ FailingModules # {}
  /\ evaluated' = Min(FailingModules) - 1
  /\ UNCHANGED <<kbVars, caller, mode, files, todo>>

Import(file) ==
  /\ mode = "ready" /\ Len(modules) < MaxModules
  /\ mode' = "loading" /\ files' = <<file>>
  /\ UNCHANGED <<kbVars, caller, todo, evaluated>>

ClearProgram ==
  /\ mode = "ready"
  /\ ProgramClear
  /\ evaluated' = 0
  /\ UNCHANGED <<caller, mode, files, todo>>

Running ==
  \/ ReadFile \/ AddNext \/ AddStep \/ Loaded
  \/ CatchImport \/ CatchParse \/ FailImport \/ FailParse

SessionNext ==
  \/ Running \/ Evaluate \/ FailEvaluate \/ CatchEvaluate \/ EndClient \/ ClearProgram
  \/ \E file \in Files : Import(file)

\* The thread that called addModules runs on until the call is over.
Spec == SessionInit /\ [][SessionNext]_vars /\ WF_vars(Running)
------------------------------------------------------------------------------
\* The modules as listModules, listRelations and the rules show them.
NamesOf(rel) == <<moduleNamePool[relSymPool[rel][1]], relSymPool[rel][2]>>

ListedRelation(rel) ==
  [name |-> NamesOf(rel)[2], types |-> relations[rel].types, facts |-> relations[rel].edbFacts]

ListedLiteral(lit) == [rel |-> NamesOf(lit.rel), terms |-> lit.terms]

ListedRule(rule) ==
  [head |-> ListedLiteral(rule.head),
   bodies |-> [d \in DOMAIN rule.disjuncts |-> {ListedLiteral(lit) : lit \in ToSet(rule.disjuncts[d].body)}]]

Listed ==
  [i \in DOMAIN modules |->
     [name |-> modules[i].name,
      relations |-> [k \in DOMAIN modules[i].relationIds |-> ListedRelation(modules[i].relationIds[k])],
      rules |-> [r \in DOMAIN modules[i].rules |-> ListedRule(modules[i].rules[r])]]]

\* The entry of the catalog that a text asks for.
EntryRelation(t, def) ==
  [name |-> def.name, types |-> def.types,
   facts |-> {f.terms : f \in {g \in ToSet(t.facts) : g.rel = def.name}}]

EntryLiteral(t, lit) ==
  [rel |-> <<IF lit.module = Own THEN t.name ELSE lit.module, lit.rel>>, terms |-> lit.terms]

EntryRule(t, rule) ==
  [head |-> [rel |-> <<t.name, rule.head.rel>>, terms |-> rule.head.terms],
   bodies |-> [d \in DOMAIN rule.disjuncts |-> {EntryLiteral(t, lit) : lit \in ToSet(rule.disjuncts[d].body)}]]

EntryOf(t) ==
  [name |-> t.name,
   relations |-> [k \in DOMAIN t.relations |-> EntryRelation(t, t.relations[k])],
   rules |-> [r \in DOMAIN t.rules |-> EntryRule(t, t.rules[r])]]

Promised == INSTANCE Catalog WITH
  catalog <- Listed, Entries <- {EntryOf(t) : t \in Texts}, Variables <- Variables

\* A module is listed as a whole or not at all, as its text declares it, and
\* only if all that its rules name was there before (KnowledgeBase.cc 436-466),
\* also while and after another import fails.
CatalogImplemented == Promised!Spec

\* Every import comes to an end (Cli.cc 284-302, Program.cc 91).
ImportEnds == mode = "loading" ~> mode # "loading" \/ phase = "aborted"
------------------------------------------------------------------------------
TypeOK ==
  /\ \A i \in DOMAIN relSymPool : relSymPool[i][1] \in DOMAIN moduleNamePool
  /\ Len(relSymPool) = Len(relations)
  /\ ToSet(relationIds) \subseteq DOMAIN relations
  /\ phase \in {"idle", "validating", "converting", "raised", "aborted"}
  /\ mode \in {"loading", "evaluating", "ready", "exited"}
  /\ caller \in {"client", "library"}
  /\ ToSet(files) \subseteq Files /\ ToSet(todo) \subseteq Texts
  /\ evaluated \in Nat /\ factsAdded \in Nat
  /\ Len(rules) <= Len(text.rules) /\ factsAdded <= Len(text.facts)

\* Whatever was refused before, a module is found at the place of its name in
\* the pool, which listRelations and getRelationDef rely on (KnowledgeBase.cc
\* 562), and every relation is finalized and belongs to one module: what
\* addModule throws, it throws before it changes anything.
PoolsFit ==
  phase \in {"idle", "validating", "raised"} =>
    /\ Len(moduleNamePool) = Len(modules)
    /\ \A i \in DOMAIN modules :
         /\ modules[i].id = i /\ modules[i].name = moduleNamePool[i]
         /\ \A rel \in ToSet(modules[i].relationIds) : relSymPool[rel][1] = i
    /\ \A rel \in DOMAIN relations :
         relations[rel].finalized /\ \E i \in DOMAIN modules : rel \in ToSet(modules[i].relationIds)

\* The variables in safe literals of the first d disjuncts of a rule.
BoundUpTo(rule, d) ==
  UNION {BoundBefore(rule.disjuncts[e].body, Len(rule.disjuncts[e].body) + 1) : e \in 1..d}

\* A rule as it is evaluated.
RuleCovered(rule) ==
  \A d \in DOMAIN rule.disjuncts :
    LET disjunct == rule.disjuncts[d]
    IN  /\ VarSet(rule.head) \subseteq BoundUpTo(rule, d)
        /\ \A k \in DOMAIN disjunct.functions :
             ToSet(disjunct.functions[k]) \cap Variables \subseteq BoundUpTo(rule, d)
        /\ d = 1 /\ AllShare(disjunct.body) => UnsafeBound(disjunct.body)

\* What the safe literals of the first disjunct of a rule bind covers the head
\* and the comparisons; of a later disjunct, what is bound up to it does
\* (KnowledgeBase.cc 390-431).  If every literal of the first one that accepts
\* Unknown shares a variable with every one that does not, the order of the
\* body binds its variables first (RuleProcessing.cc 5-41).
RulesCovered == \A i \in DOMAIN modules : \A rule \in ToSet(modules[i].rules) : RuleCovered(rule)

\* A module is the reading of a block of a file.  With a section of domains it
\* has every relation of the block, each alias standing for the type it got
\* first; without one it has those before the first alias (QlParseUtils.h
\* 44-67, and the rules for declaration_section in QlParse.y).
ReadingOf(block, i) ==
  LET defs == modules[i].relationIds
      StandsFor(type) ==
        IF type \in Types THEN type
        ELSE block.domains[CHOOSE k \in DOMAIN block.domains :
               /\ block.domains[k].alias = type
               /\ \A n \in 1..k - 1 : block.domains[n].alias # type].type
      whole(k) == relations[defs[k]].types = [c \in DOMAIN block.relations[k].types |->
                                                StandsFor(block.relations[k].types[c])]
  IN  /\ block.name = modules[i].name
      /\ Len(defs) <= Len(block.relations)
      /\ \A k \in DOMAIN defs : NamesOf(defs[k])[2] = block.relations[k].name /\ whole(k)
      /\ Len(defs) < Len(block.relations) =>
           /\ block.domains = << >>
           /\ ~(ToSet(block.relations[Len(defs) + 1].types) \subseteq Types)

DomainsResolved ==
  \A i \in DOMAIN modules : \E file \in Files : \E b \in DOMAIN file.blocks :
    ReadingOf(file.blocks[b], i)

\* Whoever sees the client's prompt asks about modules that were evaluated: a
\* failed import leaves modules behind, but no prompt (Cli.cc 203-237, 432).
PromptEvaluated == caller = "client" /\ mode = "ready" => evaluated = Len(modules)

\* The assertions of an import can only fail for a head of the wrong arity
\* (KnowledgeBase.cc 30, before the check at 388) and for a comparison in a
\* disjunct that is not the only one of its rule (KnowledgeBase.cc 773).
AbortJustified ==
  phase = "aborted" =>
    \E rule \in ToSet(text.rules) :
      \/ ~HeadArity(rule)
      \/ Len(rule.disjuncts) > 1 /\ \E d \in DOMAIN rule.disjuncts : rule.disjuncts[d].functions # << >>
------------------------------------------------------------------------------
\* RuleProcessing.h:11 "The safe literals must be evaluated before unsafe":
\* the order of a body binds the variables of a literal that accepts Unknown
\* before it.
UnsafeEvaluatedLast ==
  \A i \in DOMAIN modules : \A rule \in ToSet(modules[i].rules) :
    Len(rule.disjuncts) = 1 => UnsafeBound(rule.disjuncts[1].body)

\* README.md:83 "Negated literals will evaluate to false logical value": a
\* negated literal of another module, without a constraint, accepts no fact
\* that is just true and none that is not there.
NegatedIsFalse ==
  \A r \in DOMAIN rules : \A lit \in LiteralsUpTo(text.rules[r], Len(text.rules[r].disjuncts)) :
    ~lit.isTrue /\ lit.set = {} => ConvertRuleLiteral(lit).set \subseteq {False, Incons}
==============================================================================
