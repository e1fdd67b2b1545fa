---------------------------- MODULE KnowledgeBase ----------------------------
(***************************************************************************)
(* Adding a module to the knowledge base: the validation, the conversion   *)
(* from names to numbers and what an exception leaves behind               *)
(* (KnowledgeBase.cc, KBModule.h, DataPool.h).                             *)
(*                                                                         *)
(* A text is a parsed module [name, relations, rules, facts].  A term of a *)
(* rule is a variable or stands for a constant of a kind.  A literal of a  *)
(* rule is [module, rel, isTrue, terms, set], where the module Own stands  *)
(* for none and the set {} for no constraint.  Pools and deques start at 1 *)
(* here and at 0 in the code; the number of an entry is its place.         *)
(***************************************************************************)
EXTENDS LiteralOrder

CONSTANT Texts      \* the modules that scripts may declare

IsSequence(s) == s \in Seq(ToSet(s))

\* What a module and a rule have are sequences, and a comparison has two
\* operands.
ASSUME TextsAssumption ==
  \A t \in Texts :
    /\ IsSequence(t.relations) /\ IsSequence(t.rules) /\ IsSequence(t.facts)
    /\ \A rule \in ToSet(t.rules) :
         /\ IsSequence(rule.disjuncts)
         /\ \A d \in ToSet(rule.disjuncts) :
              IsSequence(d.body) /\ \A f \in ToSet(d.functions) : DOMAIN f = 1..2

Own == ""

NoText == [name |-> Own, relations |-> << >>, rules |-> << >>, facts |-> << >>]

\* A constant stands for its type, but for the strings that could be ids.
TypeOf(constant) == IF constant = "idString" THEN "string" ELSE constant

CanBe(constant, type) ==
  TypeOf(constant) = type \/ (constant = "idString" /\ type = "id")

VARIABLES
  moduleNamePool,   \* the names of modules
  relSymPool,       \* pairs of the number of a module and the name of a relation
  relations,        \* the relations, of which only the declaration and the EDB facts matter
  modules,          \* the modules that were added
  phase,            \* of the running call of addModule
  text,             \* its argument
  relationIds,      \* its local vectors
  rules,
  factsAdded        \* how many of the facts have been added

pools == <<moduleNamePool, relSymPool, relations, modules>>
locals == <<relationIds, rules, factsAdded>>
kbVars == <<pools, phase, text, locals>>

Init ==
  /\ moduleNamePool = << >> /\ relSymPool = << >> /\ relations = << >> /\ modules = << >>
  /\ phase = "idle" /\ text = NoText
  /\ relationIds = << >> /\ rules = << >> /\ factsAdded = 0
------------------------------------------------------------------------------
Exists(pool, x) == \E i \in DOMAIN pool : pool[i] = x

QueryId(pool, x) == CHOOSE i \in DOMAIN pool : pool[i] = x

Defined(rel) == \E i \in DOMAIN text.relations : text.relations[i].name = rel

TypesInText(rel) ==
  text.relations[CHOOSE i \in DOMAIN text.relations : text.relations[i].name = rel].types

\* The pair that stands for the relation of a literal of the text's rules.
Symbol(lit) ==
  <<QueryId(moduleNamePool, IF lit.module = Own THEN text.name ELSE lit.module), lit.rel>>

\* The logic constraint of a rule literal: a negated one has the complement.
LogicConstraint(lit) ==
  IF lit.module = Own \/ lit.isTrue THEN lit.set ELSE GetComplement(lit.set)

HasConstraint(lit) == LogicConstraint(lit) # {}

LiteralDefined(lit) ==
  IF lit.module = Own THEN Defined(lit.rel) /\ ~HasConstraint(lit)
  ELSE Exists(moduleNamePool, lit.module) /\ Exists(relSymPool, Symbol(lit))

LiteralTypes(lit) ==
  IF lit.module = Own THEN TypesInText(lit.rel)
  ELSE relations[QueryId(relSymPool, Symbol(lit))].types

\* checkDomainsTerms
WellTyped(types, terms) ==
  /\ Len(types) = Len(terms)
  /\ \A i \in DOMAIN terms : terms[i] \in Variables \/ types[i] = TypeOf(terms[i])

FactValid(fact) ==
  /\ Defined(fact.rel)
  /\ Len(TypesInText(fact.rel)) = Len(fact.terms)
  /\ \A i \in DOMAIN fact.terms : CanBe(fact.terms[i], TypesInText(fact.rel)[i])
------------------------------------------------------------------------------
(***************************************************************************)
(* checkRule.  varsDiff maps the variables met so far to their type and to *)
(* whether a safe literal satisfies them; it is shared by the disjuncts of *)
(* a rule.                                                                 *)
(***************************************************************************)
VarTypes(types, terms) ==
  {<<terms[i], types[i]>> : i \in {j \in DOMAIN terms : terms[j] \in Variables}}

LiteralsUpTo(rule, d) == UNION {ToSet(rule.disjuncts[e].body) : e \in 1..d}

TypesMet(rule, d) ==
  VarTypes(TypesInText(rule.head.rel), rule.head.terms)
    \cup UNION {VarTypes(LiteralTypes(lit), lit.terms) : lit \in LiteralsUpTo(rule, d)}

VarsMet(rule, d) == {p[1] : p \in TypesMet(rule, d)}

\* A mutant: a literal with a constraint satisfies its variables too.
SatisfiedByAll(rule, d) == UNION {VarSet(lit) : lit \in LiteralsUpTo(rule, d)}

Satisfied(rule, d) == UNION {VarSet(lit) : lit \in {l \in LiteralsUpTo(rule, d) : ~HasConstraint(l)}}

\* A mutant: a variable that was not met compares with anything.
ComparableIfMet(rule, d, function) ==
  LET types(term) == IF term \in Variables THEN {p[2] : p \in {q \in TypesMet(rule, d) : q[1] = term}}
                     ELSE {TypeOf(term)}
  IN  types(function[1]) = {} \/ types(function[2]) = {}
        \/ types(function[1]) \cap types(function[2]) # {}

\* checkTermsForBuiltinPredicate
Comparable(rule, d, function) ==
  LET types(term) == IF term \in Variables THEN {p[2] : p \in {q \in TypesMet(rule, d) : q[1] = term}}
                     ELSE {TypeOf(term)}
  IN  \E a \in types(function[1]), b \in types(function[2]) :
        a = b \/ {a, b} = {"integer", "real"}

HeadArity(rule) == Len(TypesInText(rule.head.rel)) = Len(rule.head.terms)

RuleValid(rule) ==
  /\ Defined(rule.head.rel)
  /\ WellTyped(TypesInText(rule.head.rel), rule.head.terms)
  /\ \A lit \in LiteralsUpTo(rule, Len(rule.disjuncts)) :
       LiteralDefined(lit) /\ WellTyped(LiteralTypes(lit), lit.terms)
  /\ \A p, q \in TypesMet(rule, Len(rule.disjuncts)) : p[1] = q[1] => p[2] = q[2]
  /\ \A d \in DOMAIN rule.disjuncts :
       /\ \A i \in DOMAIN rule.disjuncts[d].functions :
            Comparable(rule, d, rule.disjuncts[d].functions[i])
       /\ VarsMet(rule, d) \subseteq Satisfied(rule, d)

RelationsDistinct ==
  \A i, j \in DOMAIN text.relations : text.relations[i].name = text.relations[j].name => i = j

\* validateModule throws nothing.
TextValid ==
  /\ ~Exists(moduleNamePool, text.name)
  /\ RelationsDistinct
  /\ \A i \in DOMAIN text.rules : RuleValid(text.rules[i])
  /\ \A i \in DOMAIN text.facts : FactValid(text.facts[i])

\* The types of the head's variables are read before its arity is checked.
HeadMisread ==
  /\ ~Exists(moduleNamePool, text.name) /\ RelationsDistinct
  /\ \E i \in DOMAIN text.rules : /\ \A j \in 1..i - 1 : RuleValid(text.rules[j])
                                  /\ Defined(text.rules[i].head.rel)
                                  /\ ~HeadArity(text.rules[i])
------------------------------------------------------------------------------
(***************************************************************************)
(* The steps of addModule.  Raised is the end of a call by an exception;   *)
(* Aborted is an assertion that fails, which ends the process in the       *)
(* default build.  A build without assertions goes on.                     *)
(***************************************************************************)
StartAddModule(t) ==
  /\ phase = "idle"
  /\ phase' = "validating"
  /\ text' = t
  /\ UNCHANGED <<pools, locals>>

Raise ==
  /\ phase' = "raised"
  /\ UNCHANGED <<pools, text, locals>>

Abort ==
  /\ phase' = "aborted"
  /\ UNCHANGED <<pools, text, locals>>

\* A mutant: the name is interned before the module is validated.
ValidateInterned ==
  /\ phase = "validating"
  /\ phase' = IF TextValid THEN "converting" ELSE "raised"
  /\ moduleNamePool' = Append(moduleNamePool, text.name)
  /\ UNCHANGED <<relSymPool, relations, modules, text, locals>>

Validate ==
  /\ phase = "validating"
  /\ \/ TextValid /\ phase' = "converting" /\ moduleNamePool' = Append(moduleNamePool, text.name)
        /\ UNCHANGED <<relSymPool, relations, modules, text, locals>>
     \/ ~TextValid /\ Raise
     \/ HeadMisread /\ Abort

\* A mutant: the number of the relation is taken one too low.
AddRelationBelow ==
  /\ phase = "converting"
  /\ Len(relationIds) < Len(text.relations)
  /\ LET def == text.relations[Len(relationIds) + 1]
     IN  /\ relSymPool' = Append(relSymPool, <<QueryId(moduleNamePool, text.name), def.name>>)
         /\ relations' = Append(relations, [types |-> def.types, edbFacts |-> {}, finalized |-> FALSE])
         /\ relationIds' = Append(relationIds, Len(relSymPool))
         /\ UNCHANGED <<moduleNamePool, modules, phase, text, rules, factsAdded>>

AddRelation ==
  /\ phase = "converting"
  /\ Len(relationIds) < Len(text.relations)
  /\ LET def == text.relations[Len(relationIds) + 1]
         symbol == <<QueryId(moduleNamePool, text.name), def.name>>
     IN  IF Exists(relSymPool, symbol)
         THEN Raise
         ELSE /\ relSymPool' = Append(relSymPool, symbol)
              /\ relations' = Append(relations,
                   [types |-> def.types, edbFacts |-> {}, finalized |-> FALSE])
              /\ relationIds' = Append(relationIds, Len(relSymPool) + 1)
              /\ UNCHANGED <<moduleNamePool, modules, phase, text, rules, factsAdded>>
------------------------------------------------------------------------------
\* The set of truth values that a literal of the knowledge base accepts.
AcceptedSet(lit) ==
  IF LogicConstraint(lit) = {}
  THEN {IF lit.isTrue THEN True ELSE False, Incons}
  ELSE IF lit.isTrue THEN LogicConstraint(lit) ELSE GetNegation(LogicConstraint(lit))

\* A mutant: a relation is found by its name alone.
ConvertRuleLiteralByName(lit) ==
  [rel |-> CHOOSE i \in DOMAIN relSymPool : relSymPool[i][2] = lit.rel,
   terms |-> lit.terms, set |-> AcceptedSet(lit)]

ConvertRuleLiteral(lit) ==
  [rel |-> QueryId(relSymPool, Symbol(lit)), terms |-> lit.terms, set |-> AcceptedSet(lit)]

ConvertDisjunct(disjunct) ==
  [body |-> SortRuleLiterals([i \in DOMAIN disjunct.body |-> ConvertRuleLiteral(disjunct.body[i])]),
   functions |-> disjunct.functions]

ConvertRule(rule) ==
  [head |-> [rel |-> QueryId(relSymPool, <<QueryId(moduleNamePool, text.name), rule.head.rel>>),
             isTrue |-> rule.head.isTrue, terms |-> rule.head.terms],
   disjuncts |-> [d \in DOMAIN rule.disjuncts |-> ConvertDisjunct(rule.disjuncts[d])]]

\* queryModuleId and queryRelationId throw for a name that is not there.
Resolves(rule) ==
  /\ Exists(relSymPool, <<QueryId(moduleNamePool, text.name), rule.head.rel>>)
  /\ \A lit \in LiteralsUpTo(rule, Len(rule.disjuncts)) :
       /\ lit.module # Own => Exists(moduleNamePool, lit.module)
       /\ Exists(relSymPool, Symbol(lit))

\* makeTypeMap has the variables of the literals of one disjunct.
TypeMapMisses(disjunct) ==
  \E i \in DOMAIN disjunct.functions :
    ~(ToSet(disjunct.functions[i]) \cap Variables \subseteq UNION {VarSet(lit) : lit \in ToSet(disjunct.body)})

AddRule ==
  /\ phase = "converting"
  /\ Len(relationIds) = Len(text.relations) /\ Len(rules) < Len(text.rules)
  /\ LET rule == text.rules[Len(rules) + 1]
     IN  \/ ~Resolves(rule) /\ Raise
         \/ Resolves(rule) /\ (\E d \in DOMAIN rule.disjuncts : TypeMapMisses(rule.disjuncts[d])) /\ Abort
         \/ /\ Resolves(rule)
            /\ rules' = Append(rules, ConvertRule(rule))
            /\ UNCHANGED <<pools, phase, text, relationIds, factsAdded>>

\* A mutant: the facts added are counted by what the relation got.
AddFactCounted ==
  /\ phase = "converting"
  /\ Len(relationIds) = Len(text.relations) /\ Len(rules) = Len(text.rules)
  /\ factsAdded < Len(text.facts)
  /\ LET fact == text.facts[factsAdded + 1]
         rel == QueryId(relSymPool, <<QueryId(moduleNamePool, text.name), fact.rel>>)
     IN  /\ relations' = [relations EXCEPT ![rel].edbFacts = @ \cup {fact.terms}]
         /\ factsAdded' = IF fact.terms \in relations[rel].edbFacts THEN factsAdded ELSE factsAdded + 1
         /\ UNCHANGED <<moduleNamePool, relSymPool, modules, phase, text, relationIds, rules>>

AddFact ==
  /\ phase = "converting"
  /\ Len(relationIds) = Len(text.relations) /\ Len(rules) = Len(text.rules)
  /\ factsAdded < Len(text.facts)
  /\ LET fact == text.facts[factsAdded + 1]
         symbol == <<QueryId(moduleNamePool, text.name), fact.rel>>
     IN  IF ~Exists(relSymPool, symbol)
         THEN Raise
         ELSE /\ relations' = [relations EXCEPT ![QueryId(relSymPool, symbol)].edbFacts =
                                IF relations[QueryId(relSymPool, symbol)].finalized THEN @
                                ELSE @ \cup {fact.terms}]
              /\ factsAdded' = factsAdded + 1
              /\ UNCHANGED <<moduleNamePool, relSymPool, modules, phase, text, relationIds, rules>>

FinishModule ==
  /\ phase = "converting"
  /\ Len(relationIds) = Len(text.relations) /\ Len(rules) = Len(text.rules)
  /\ factsAdded = Len(text.facts)
  /\ relations' = [i \in DOMAIN relations |->
                     IF i \in ToSet(relationIds) THEN [relations[i] EXCEPT !.finalized = TRUE]
                     ELSE relations[i]]
  /\ modules' = Append(modules, [name |-> text.name, id |-> QueryId(moduleNamePool, text.name),
                                 rules |-> rules, relationIds |-> relationIds])
  /\ phase' = "idle" /\ text' = NoText
  /\ relationIds' = << >> /\ rules' = << >> /\ factsAdded' = 0
  /\ UNCHANGED <<moduleNamePool, relSymPool>>

AddModuleStep == Validate \/ AddRelation \/ AddRule \/ AddFact \/ FinishModule

\* The caller takes an exception, which frees the locals of the call.
Catch ==
  /\ phase = "raised"
  /\ phase' = "idle" /\ text' = NoText
  /\ relationIds' = << >> /\ rules' = << >> /\ factsAdded' = 0
  /\ UNCHANGED pools

\* Program::clear
ProgramClear ==
  /\ phase = "idle"
  /\ moduleNamePool' = << >> /\ relSymPool' = << >> /\ relations' = << >> /\ modules' = << >>
  /\ UNCHANGED <<phase, text, locals>>

Next == (\E t \in Texts : StartAddModule(t)) \/ AddModuleStep \/ Catch \/ ProgramClear
==============================================================================
