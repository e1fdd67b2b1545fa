---------------------------- MODULE SessionProofs ----------------------------
(***************************************************************************)
(* For all files: whatever imports fail and whoever catches what they      *)
(* throw, the pools of the knowledge base fit each other, the prompt       *)
(* speaks of evaluated modules, and an assertion fails only for a text of  *)
(* one of two kinds.                                                       *)
(*                                                                         *)
(* The argument is that addModule throws nothing once the module is        *)
(* validated: what validateModule saw of the text still holds when its     *)
(* relations, rules and facts are converted (Converting), because names    *)
(* are only ever added behind the others.                                  *)
(*                                                                         *)
(* On top of that: the modules of a knowledge base are what their files    *)
(* declare, each as a whole and with all that its rules name (Catalog),    *)
(* and the order of their rules' bodies binds the variables that are       *)
(* tested.  The names and numbers of what was listed do not change, so     *)
(* that the catalog changes when a module is finished and not before.      *)
(* What the validation saw makes the text fit into the catalog, and both   *)
(* stay as they are until the module is finished.                          *)
(***************************************************************************)
EXTENDS Session, RuleEvalProofs

Sequences ==
  /\ IsSequence(moduleNamePool) /\ IsSequence(relSymPool)
  /\ IsSequence(relations) /\ IsSequence(modules)
  /\ IsSequence(relationIds) /\ IsSequence(rules)

\* The locals of addModule are empty when it does not convert.
Locals ==
  /\ phase \in {"idle", "validating", "converting", "raised", "aborted"}
  /\ phase \in {"validating", "converting"} => text \in Texts
  /\ phase \in {"idle", "validating", "raised"} =>
       relationIds = << >> /\ rules = << >> /\ factsAdded = 0
  /\ text \in Texts \cup {NoText}
  /\ factsAdded \in Nat
  /\ Len(relationIds) <= Len(text.relations)
  /\ Len(rules) <= Len(text.rules) /\ factsAdded <= Len(text.facts)

\* One name is not yet a module when addModule converts.
NamesFit ==
  /\ Len(moduleNamePool) = Len(modules) + (IF phase = "converting" THEN 1 ELSE 0)
  /\ \A i, j \in DOMAIN moduleNamePool : moduleNamePool[i] = moduleNamePool[j] => i = j

ModulesFit ==
  \A i \in DOMAIN modules :
    /\ modules[i].id = i /\ modules[i].name = moduleNamePool[i]
    /\ \A rel \in ToSet(modules[i].relationIds) : rel \in DOMAIN relations /\ relSymPool[rel][1] = i

RelationsPaired ==
  /\ Len(relSymPool) = Len(relations)
  /\ \A rel \in DOMAIN relSymPool : relSymPool[rel][1] \in DOMAIN moduleNamePool
  /\ ToSet(relationIds) \subseteq DOMAIN relations

\* A relation is finalized and belongs to a module, or to the one that is
\* being converted.
RelationsFit ==
  \A rel \in DOMAIN relations :
    /\ relations[rel] = [types |-> relations[rel].types, edbFacts |-> relations[rel].edbFacts,
                         finalized |-> relations[rel].finalized]
    /\ \/ relations[rel].finalized /\ \E i \in DOMAIN modules : rel \in ToSet(modules[i].relationIds)
       \/ phase = "converting" /\ rel \in ToSet(relationIds)

\* What a literal of the text names is in the text or was there before it.
Known(lit) ==
  IF lit.module = Own THEN Defined(lit.rel)
  ELSE Exists(moduleNamePool, lit.module) /\ Exists(relSymPool, Symbol(lit))

\* What the validation established.
Validated ==
  /\ RelationsDistinct
  /\ \A i \in DOMAIN text.rules :
       /\ Defined(text.rules[i].head.rel)
       /\ \A lit \in LiteralsUpTo(text.rules[i], Len(text.rules[i].disjuncts)) : Known(lit)
       /\ Len(text.rules[i].disjuncts) = 1 => ~TypeMapMisses(text.rules[i].disjuncts[1])
  /\ \A i \in DOMAIN text.facts : Defined(text.facts[i].rel)

\* The last name is that of the text, and the relations under it are those
\* that were added.
Converting ==
  phase = "converting" =>
    LET n == Len(moduleNamePool)
    IN  /\ n > 0 /\ moduleNamePool[n] = text.name
        /\ \A k \in DOMAIN relationIds :
             /\ relationIds[k] \in DOMAIN relSymPool
             /\ relSymPool[relationIds[k]] = <<n, text.relations[k].name>>
        /\ \A rel \in DOMAIN relSymPool : relSymPool[rel][1] = n =>
             \E k \in DOMAIN relationIds : relSymPool[rel] = <<n, text.relations[k].name>>
        /\ Validated

Fit == NamesFit /\ ModulesFit /\ RelationsFit /\ Converting

KBInv ==
  /\ Sequences /\ Locals /\ RelationsPaired
  /\ phase # "aborted" => Fit
  /\ AbortJustified

CallerInv ==
  /\ caller \in {"client", "library"}
  /\ mode \in {"loading", "evaluating", "ready", "exited"}
  /\ files \in Seq(Files) /\ todo \in Seq(Texts)
  /\ evaluated \in Nat
  /\ PromptEvaluated

IInv == KBInv /\ CallerInv
------------------------------------------------------------------------------
\* The parts of a sequence after Append, whatever its elements are.
LEMMA AppendIsSequence ==
  ASSUME NEW s, IsSequence(s), NEW e
  PROVE  /\ IsSequence(Append(s, e))
         /\ Len(Append(s, e)) = Len(s) + 1
         /\ Len(s) \in Nat
         /\ DOMAIN s = 1..Len(s)
         /\ DOMAIN Append(s, e) = 1..Len(s) + 1
         /\ \A i \in 1..Len(s) : Append(s, e)[i] = s[i]
         /\ Append(s, e)[Len(s) + 1] = e
<1> DEFINE S == ToSet(s) \cup {e}
           t == Append(s, e)
<1>1. s \in Seq(S)
  BY SeqMonotonic DEF IsSequence
<1>2. /\ t \in Seq(S) /\ Len(t) = Len(s) + 1
      /\ \A i \in 1..Len(s) : t[i] = s[i]
      /\ t[Len(s) + 1] = e
  BY <1>1, AppendProperties
<1>3. Len(s) \in Nat /\ DOMAIN s = 1..Len(s) /\ DOMAIN t = 1..Len(s) + 1
  BY <1>1, <1>2, LenProperties
<1>4. t \in Seq(ToSet(t))
  BY <1>2, <1>3 DEF ToSet
<1> QED
  BY <1>2, <1>3, <1>4 DEF IsSequence

LEMMA SequenceDomain ==
  ASSUME NEW s, IsSequence(s)
  PROVE  Len(s) \in Nat /\ DOMAIN s = 1..Len(s)
  BY LenProperties DEF IsSequence

\* One more index.
LEMMA NextInterval ==
  \A i \in Nat : 1..i \subseteq 1..i + 1 /\ i + 1 \in 1..i + 1 /\ 1..i + 1 = 1..i \cup {i + 1}
  OBVIOUS

LEMMA EmptyIsSequence == IsSequence(<< >>) /\ Len(<< >>) = 0 /\ DOMAIN << >> = {}
  BY EmptySeq, LenProperties DEF IsSequence

\* The parts of a text.
LEMMA TextParts ==
  ASSUME NEW t \in Texts \cup {NoText}
  PROVE  IsSequence(t.relations) /\ IsSequence(t.rules) /\ IsSequence(t.facts)
  BY TextsAssumption, EmptyIsSequence DEF NoText

\* A name that occurs once is found at its place.
LEMMA QueryIdOf ==
  ASSUME NEW pool, NEW i \in DOMAIN pool,
         \A j \in DOMAIN pool : pool[j] = pool[i] => j = i
  PROVE  QueryId(pool, pool[i]) = i
  BY DEF QueryId
------------------------------------------------------------------------------
LEMMA InitIInv == SessionInit => IInv
<1> SUFFICES ASSUME SessionInit PROVE IInv
  OBVIOUS
<1> USE EmptyIsSequence
<1>1. Sequences
  BY DEF SessionInit, Init, Sequences
<1>2. Locals
  BY DEF SessionInit, Init, Locals, NoText
<1>3. RelationsPaired
  BY DEF SessionInit, Init, RelationsPaired, ToSet
<1>4. Fit
  BY DEF SessionInit, Init, Fit, NamesFit, ModulesFit, RelationsFit, Converting
<1>5. AbortJustified
  BY DEF SessionInit, Init, AbortJustified
<1>6. CallerInv
  <2>1. \A f \in Files : <<f>> \in Seq(Files)
    OBVIOUS
  <2>2. \A f, g \in Files : <<f, g>> \in Seq(Files)
    OBVIOUS
  <2>3. files \in Seq(Files) /\ todo \in Seq(Texts)
    <3>1. files = << >> \/ (\E f \in Files : files = <<f>>) \/ (\E f, g \in Files : files = <<f, g>>)
      BY SMT DEF SessionInit
    <3>2. << >> \in Seq(Files) /\ << >> \in Seq(Texts)
      BY EmptySeq
    <3> QED
      BY <2>1, <2>2, <3>1, <3>2, Zenon DEF SessionInit
  <2>4. PromptEvaluated
    BY DEF SessionInit, PromptEvaluated
  <2> QED
    BY <2>3, <2>4 DEF SessionInit, CallerInv
<1> QED
  BY <1>1, <1>2, <1>3, <1>4, <1>5, <1>6 DEF IInv, KBInv

\* Validated depends on the names and the text alone.
LEMMA ValidatedStays ==
  ASSUME Validated, UNCHANGED <<moduleNamePool, relSymPool, text>>
  PROVE  Validated'
<1>1. \A lit : Known(lit) = Known(lit)'
  BY DEF Known, Defined, Exists, Symbol, QueryId
<1>2. \A rel : Defined(rel) = Defined(rel)'
  BY DEF Defined
<1> QED
  BY <1>1, <1>2 DEF Validated, RelationsDistinct

\* Nothing of the knowledge base changes.
LEMMA UnchangedStep ==
  ASSUME KBInv, UNCHANGED kbVars
  PROVE  KBInv'
<1> USE DEF kbVars, pools, locals
<1>1. Sequences' /\ Locals' /\ RelationsPaired'
  BY DEF KBInv, Sequences, Locals, RelationsPaired
<1>2. phase' # "aborted" => NamesFit' /\ ModulesFit' /\ RelationsFit'
  BY DEF KBInv, Fit, NamesFit, ModulesFit, RelationsFit
<1>3. phase' # "aborted" => Converting'
  <2>1. Validated => Validated'
    BY ValidatedStays
  <2> QED
    BY <2>1 DEF KBInv, Fit, Converting
<1>4. AbortJustified'
  BY DEF KBInv, AbortJustified, HeadArity, TypesInText
<1> QED
  BY <1>1, <1>2, <1>3, <1>4 DEF KBInv, Fit

\* A call of addModule starts or ends with an exception before it converts.
LEMMA StartStep ==
  ASSUME KBInv, NEW t \in Texts, StartAddModule(t)
  PROVE  KBInv'
<1>1. IsSequence(t.relations) /\ IsSequence(t.rules) /\ IsSequence(t.facts)
  BY TextParts
<1>2. Len(t.relations) \in Nat /\ Len(t.rules) \in Nat /\ Len(t.facts) \in Nat
  BY <1>1, SequenceDomain
<1>3. Locals'
  BY <1>2, EmptyIsSequence DEF KBInv, StartAddModule, Locals, pools, locals
<1>4. Sequences' /\ RelationsPaired'
  BY DEF KBInv, StartAddModule, Sequences, RelationsPaired, pools, locals
<1>5. Fit'
  BY DEF KBInv, StartAddModule, Fit, NamesFit, ModulesFit, RelationsFit, Converting, pools, locals
<1> QED
  BY <1>3, <1>4, <1>5 DEF KBInv, StartAddModule, AbortJustified

LEMMA RaiseStep ==
  ASSUME KBInv, phase = "validating", Raise
  PROVE  KBInv'
  BY DEF KBInv, Raise, Sequences, Locals, RelationsPaired, Fit, NamesFit, ModulesFit,
         RelationsFit, Converting, AbortJustified, pools, locals

LEMMA CatchStep ==
  ASSUME KBInv, Catch
  PROVE  KBInv'
<1> USE EmptyIsSequence
<1>1. Sequences' /\ Locals' /\ RelationsPaired'
  BY DEF KBInv, Catch, Sequences, Locals, RelationsPaired, NoText, ToSet, pools
<1>2. NamesFit' /\ ModulesFit' /\ RelationsFit' /\ Converting'
  BY DEF KBInv, Catch, Fit, NamesFit, ModulesFit, RelationsFit, Converting, pools
<1> QED
  BY <1>1, <1>2 DEF KBInv, Catch, Fit, AbortJustified

LEMMA ClearStep ==
  ASSUME KBInv, ProgramClear
  PROVE  KBInv'
<1> USE EmptyIsSequence
<1>1. Sequences' /\ Locals' /\ RelationsPaired'
  BY DEF KBInv, ProgramClear, Sequences, Locals, RelationsPaired, NoText, ToSet, locals
<1>2. NamesFit' /\ ModulesFit' /\ RelationsFit' /\ Converting'
  BY DEF KBInv, ProgramClear, Fit, NamesFit, ModulesFit, RelationsFit, Converting, locals
<1> QED
  BY <1>1, <1>2 DEF KBInv, ProgramClear, Fit, AbortJustified, locals
------------------------------------------------------------------------------
(***************************************************************************)
(* The validation.                                                         *)
(***************************************************************************)

\* A variable of a comparison that passed the check was met in the head or in
\* a literal.
LEMMA OperandsMet ==
  ASSUME text \in Texts, NEW i \in DOMAIN text.rules, RuleValid(text.rules[i]),
         NEW e \in DOMAIN text.rules[i].disjuncts, NEW k \in DOMAIN text.rules[i].disjuncts[e].functions
  PROVE  ToSet(text.rules[i].disjuncts[e].functions[k]) \cap Variables \subseteq VarsMet(text.rules[i], e)
<1> DEFINE rule == text.rules[i]
           d == rule.disjuncts[e]
<1>1. \A f \in ToSet(d.functions) : DOMAIN f = 1..2
  <2>1. rule \in ToSet(text.rules) /\ d \in ToSet(rule.disjuncts)
    BY DEF ToSet
  <2> QED
    BY <2>1, TextsAssumption
<1>2. SUFFICES ASSUME NEW v \in ToSet(d.functions[k]) \cap Variables
               PROVE  v \in VarsMet(rule, e)
  OBVIOUS
<1>3. Comparable(rule, e, d.functions[k])
  BY DEF RuleValid
<1>4. v = d.functions[k][1] \/ v = d.functions[k][2]
  <2>1. d.functions[k] \in ToSet(d.functions)
    BY DEF ToSet
  <2>2. DOMAIN d.functions[k] = 1..2
    BY <1>1, <2>1
  <2> QED
    BY <2>2 DEF ToSet
<1>5. \E p \in TypesMet(rule, e) : p[1] = v
  BY <1>3, <1>4 DEF Comparable
<1> QED
  BY <1>5 DEF VarsMet

\* So that it is bound by a literal when the rule has one disjunct.
LEMMA OperandsBound ==
  ASSUME text \in Texts, NEW i \in DOMAIN text.rules, RuleValid(text.rules[i]),
         Len(text.rules[i].disjuncts) = 1
  PROVE  ~TypeMapMisses(text.rules[i].disjuncts[1])
<1> DEFINE rule == text.rules[i]
           d == rule.disjuncts[1]
<1>1. 1 \in DOMAIN rule.disjuncts
  <2>1. rule \in ToSet(text.rules)
    BY DEF ToSet
  <2> QED
    BY <2>1, TextsAssumption, SequenceDomain
<1>2. VarsMet(rule, 1) \subseteq UNION {VarSet(lit) : lit \in ToSet(d.body)}
  <2>1. VarsMet(rule, 1) \subseteq Satisfied(rule, 1)
    BY <1>1 DEF RuleValid
  <2>2. LiteralsUpTo(rule, 1) = ToSet(d.body)
    BY DEF LiteralsUpTo
  <2> QED
    BY <2>1, <2>2 DEF Satisfied
<1>3. \A k \in DOMAIN d.functions : ToSet(d.functions[k]) \cap Variables \subseteq VarsMet(rule, 1)
  BY <1>1, OperandsMet
<1> QED
  BY <1>2, <1>3 DEF TypeMapMisses

\* Whatever a validated text names is known before its own name is interned.
LEMMA ValidationKnows ==
  ASSUME text \in Texts, TextValid
  PROVE  Validated /\ \A lit : Known(lit) /\ lit.module # Own => lit.module # text.name
<1>1. ASSUME NEW i \in DOMAIN text.rules
      PROVE  /\ Defined(text.rules[i].head.rel)
             /\ \A lit \in LiteralsUpTo(text.rules[i], Len(text.rules[i].disjuncts)) : Known(lit)
             /\ Len(text.rules[i].disjuncts) = 1 => ~TypeMapMisses(text.rules[i].disjuncts[1])
  <2>1. RuleValid(text.rules[i])
    BY DEF TextValid
  <2>2. \A lit \in LiteralsUpTo(text.rules[i], Len(text.rules[i].disjuncts)) : LiteralDefined(lit)
    BY <2>1 DEF RuleValid
  <2>3. \A lit : LiteralDefined(lit) => Known(lit)
    BY DEF LiteralDefined, Known
  <2>4. Defined(text.rules[i].head.rel)
    BY <2>1 DEF RuleValid
  <2> QED
    BY <2>1, <2>2, <2>3, <2>4, OperandsBound
<1>2. \A i \in DOMAIN text.facts : Defined(text.facts[i].rel)
  BY DEF TextValid, FactValid
<1>3. Validated
  BY <1>1, <1>2 DEF Validated, TextValid
<1> QED
  BY <1>3 DEF Known, TextValid

LEMMA ValidateStep ==
  ASSUME KBInv, Validate
  PROVE  KBInv'
<1> USE DEF locals, pools
<1>1. CASE ~TextValid /\ Raise
  BY <1>1, RaiseStep DEF Validate
<1>2. CASE HeadMisread /\ Abort
  <2>1. Sequences' /\ Locals' /\ RelationsPaired' /\ phase' = "aborted"
    BY <1>2 DEF KBInv, Validate, Abort, Sequences, Locals, RelationsPaired
  <2>2. AbortJustified'
    BY <1>2 DEF Abort, AbortJustified, HeadMisread, HeadArity, TypesInText, ToSet
  <2> QED
    BY <2>1, <2>2 DEF KBInv
<1>3. CASE TextValid /\ phase' = "converting"
  <2> DEFINE n == Len(moduleNamePool)
  <2>1. /\ moduleNamePool' = Append(moduleNamePool, text.name)
        /\ UNCHANGED <<relSymPool, relations, modules, text, relationIds, rules, factsAdded>>
        /\ phase = "validating" /\ text \in Texts
        /\ relationIds = << >> /\ rules = << >> /\ factsAdded = 0
    BY <1>3 DEF Validate, Raise, Abort, KBInv, Locals
  <2>2. KBInv /\ Fit /\ n = Len(modules)
    BY <2>1 DEF KBInv, Fit, NamesFit
  <2>3. /\ IsSequence(moduleNamePool') /\ Len(moduleNamePool') = n + 1
        /\ n \in Nat /\ DOMAIN moduleNamePool = 1..n /\ DOMAIN moduleNamePool' = 1..n + 1
        /\ \A i \in 1..n : moduleNamePool'[i] = moduleNamePool[i]
        /\ moduleNamePool'[n + 1] = text.name
    BY <2>1, <2>2, AppendIsSequence DEF KBInv, Sequences
  <2>4. Sequences' /\ Locals'
    BY <2>1, <2>2, <2>3, <1>3 DEF KBInv, Sequences, Locals
  <2>5. RelationsPaired'
    BY <2>1, <2>2, <2>3 DEF KBInv, RelationsPaired
  <2>6. NamesFit'
    <3>1. \A i \in 1..n : moduleNamePool[i] # text.name
      BY <1>3, <2>3 DEF TextValid, Exists
    <3> QED
      BY <1>3, <2>1, <2>2, <2>3, <3>1 DEF Fit, NamesFit
  <2>7. ModulesFit' /\ RelationsFit'
    <3>1. DOMAIN modules = 1..n
      BY <2>2, SequenceDomain DEF KBInv, Sequences
    <3> QED
      BY <2>1, <2>2, <2>3, <3>1 DEF Fit, ModulesFit, RelationsFit
  <2>8. Validated'
    <3>1. Validated /\ \A lit : Known(lit) /\ lit.module # Own => lit.module # text.name
      BY <1>3, <2>1, ValidationKnows
    <3>2. ASSUME NEW lit, Known(lit), lit.module # Own
          PROVE  Known(lit)'
      <4>1. PICK i \in 1..n : moduleNamePool[i] = lit.module
        BY <2>3, <3>2 DEF Known, Exists
      <4>2. QueryId(moduleNamePool, lit.module) = i
        BY <4>1, <2>2, <2>3, QueryIdOf DEF Fit, NamesFit
      <4>3. QueryId(moduleNamePool', lit.module) = i
        <5>1. i \in DOMAIN moduleNamePool' /\ moduleNamePool'[i] = lit.module
          BY <4>1, <2>3
        <5>2. \A j \in DOMAIN moduleNamePool' : moduleNamePool'[j] = moduleNamePool'[i] => j = i
          BY <5>1, <2>6 DEF NamesFit
        <5> QED
          BY <5>1, <5>2, QueryIdOf
      <4>4. Exists(moduleNamePool', lit.module)
        BY <4>1, <2>3 DEF Exists
      <4>5. Exists(relSymPool, <<i, lit.rel>>)
        BY <3>2, <4>2 DEF Known, Symbol
      <4> QED
        BY <2>1, <3>2, <4>3, <4>4, <4>5 DEF Known, Symbol, Exists
    <3>3. \A lit : Known(lit) => Known(lit)'
      BY <2>1, <3>2 DEF Known, Defined
    <3> QED
      BY <2>1, <3>1, <3>3 DEF Validated, RelationsDistinct, Defined
  <2>9. Converting'
    <3>1. \A rel \in DOMAIN relSymPool : relSymPool[rel][1] # n + 1
      BY <2>2, <2>3 DEF KBInv, RelationsPaired
    <3> QED
      BY <2>1, <2>3, <2>8, <3>1, EmptyIsSequence DEF Converting
  <2> QED
    BY <1>3, <2>4, <2>5, <2>6, <2>7, <2>9 DEF KBInv, Fit, AbortJustified
<1> QED
  BY <1>1, <1>2, <1>3 DEF Validate
------------------------------------------------------------------------------
(***************************************************************************)
(* The conversion.                                                         *)
(***************************************************************************)

\* What holds while addModule converts.
LEMMA WhileConverting ==
  ASSUME KBInv, phase = "converting"
  PROVE  LET n == Len(moduleNamePool)
         IN  /\ Fit /\ text \in Texts /\ Validated
             /\ n \in Nat /\ DOMAIN moduleNamePool = 1..n /\ n = Len(modules) + 1
             /\ DOMAIN modules = 1..n - 1
             /\ QueryId(moduleNamePool, text.name) = n
             /\ Len(text.relations) \in Nat /\ DOMAIN text.relations = 1..Len(text.relations)
             /\ Len(text.rules) \in Nat /\ DOMAIN text.rules = 1..Len(text.rules)
             /\ Len(text.facts) \in Nat /\ DOMAIN text.facts = 1..Len(text.facts)
             /\ Len(relationIds) \in Nat /\ DOMAIN relationIds = 1..Len(relationIds)
             /\ Len(relations) \in Nat /\ DOMAIN relations = 1..Len(relations)
             /\ DOMAIN relSymPool = DOMAIN relations
<1> DEFINE n == Len(moduleNamePool)
<1>1. Fit /\ text \in Texts /\ Validated /\ moduleNamePool[n] = text.name /\ n > 0
  BY DEF KBInv, Locals, Fit, Converting
<1>2. /\ n \in Nat /\ DOMAIN moduleNamePool = 1..n
      /\ Len(modules) \in Nat /\ DOMAIN modules = 1..Len(modules)
      /\ Len(relationIds) \in Nat /\ DOMAIN relationIds = 1..Len(relationIds)
      /\ Len(relations) \in Nat /\ DOMAIN relations = 1..Len(relations)
      /\ Len(relSymPool) \in Nat /\ DOMAIN relSymPool = 1..Len(relSymPool)
  BY SequenceDomain DEF KBInv, Sequences
<1>3. n = Len(modules) + 1 /\ DOMAIN modules = 1..n - 1 /\ DOMAIN relSymPool = DOMAIN relations
  BY <1>1, <1>2 DEF KBInv, RelationsPaired, Fit, NamesFit
<1>4. QueryId(moduleNamePool, text.name) = n
  <2>1. n \in DOMAIN moduleNamePool
    BY <1>1, <1>2
  <2>2. \A j \in DOMAIN moduleNamePool : moduleNamePool[j] = moduleNamePool[n] => j = n
    BY <1>1, <2>1 DEF Fit, NamesFit
  <2>3. QueryId(moduleNamePool, moduleNamePool[n]) = n
    BY <2>1, <2>2, QueryIdOf
  <2> QED
    BY <1>1, <2>3
<1>5. /\ Len(text.relations) \in Nat /\ DOMAIN text.relations = 1..Len(text.relations)
      /\ Len(text.rules) \in Nat /\ DOMAIN text.rules = 1..Len(text.rules)
      /\ Len(text.facts) \in Nat /\ DOMAIN text.facts = 1..Len(text.facts)
  BY <1>1, TextParts, SequenceDomain
<1> QED
  BY <1>1, <1>2, <1>3, <1>4, <1>5, Zenon

\* The relations of the text that were added are under its name, and no other
\* one is, so that the next one is new and goes behind the others.
LEMMA RelationAdded ==
  ASSUME KBInv, AddRelation
  PROVE  LET n == Len(moduleNamePool)
             m == Len(relationIds)
             r == Len(relations)
             def == text.relations[m + 1]
             symbol == <<n, def.name>>
             added == [types |-> def.types, edbFacts |-> {}, finalized |-> FALSE]
         IN  /\ phase = "converting" /\ m < Len(text.relations)
             /\ UNCHANGED <<moduleNamePool, modules, phase, text, rules, factsAdded>>
             /\ ~Exists(relSymPool, symbol)
             /\ IsSequence(relSymPool') /\ IsSequence(relations') /\ IsSequence(relationIds')
             /\ Len(relSymPool) = r /\ Len(relSymPool') = r + 1 /\ Len(relations') = r + 1 /\ Len(relationIds') = m + 1
             /\ DOMAIN relSymPool' = 1..r + 1 /\ DOMAIN relations' = 1..r + 1 /\ DOMAIN relationIds' = 1..m + 1
             /\ \A i \in 1..r : relSymPool'[i] = relSymPool[i] /\ relations'[i] = relations[i]
             /\ relSymPool'[r + 1] = symbol /\ relations'[r + 1] = added
             /\ \A k \in 1..m : relationIds'[k] = relationIds[k]
             /\ relationIds'[m + 1] = r + 1
<1> DEFINE n == Len(moduleNamePool)
           m == Len(relationIds)
           def == text.relations[m + 1]
           symbol == <<n, def.name>>
           r == Len(relations)
           added == [types |-> def.types, edbFacts |-> {}, finalized |-> FALSE]
<1>1. phase = "converting" /\ m < Len(text.relations)
  BY DEF AddRelation
<1>2. /\ Fit /\ text \in Texts /\ Validated
      /\ n \in Nat /\ DOMAIN moduleNamePool = 1..n /\ n = Len(modules) + 1
      /\ DOMAIN modules = 1..n - 1
      /\ QueryId(moduleNamePool, text.name) = n
      /\ Len(text.relations) \in Nat /\ DOMAIN text.relations = 1..Len(text.relations)
      /\ m \in Nat /\ DOMAIN relationIds = 1..m
      /\ Len(relations) \in Nat /\ DOMAIN relations = 1..Len(relations)
      /\ DOMAIN relSymPool = DOMAIN relations
  BY <1>1, WhileConverting
<1>3. /\ \A k \in 1..m : relationIds[k] \in DOMAIN relSymPool
                         /\ relSymPool[relationIds[k]] = <<n, text.relations[k].name>>
      /\ \A rel \in DOMAIN relSymPool : relSymPool[rel][1] = n =>
           \E k \in 1..m : relSymPool[rel] = <<n, text.relations[k].name>>
  BY <1>1, <1>2 DEF Fit, Converting
<1>4. ~Exists(relSymPool, symbol)
  <2>1. SUFFICES ASSUME NEW rel \in DOMAIN relSymPool, relSymPool[rel] = symbol
                 PROVE  FALSE
    BY DEF Exists
  <2>2. PICK k \in 1..m : relSymPool[rel] = <<n, text.relations[k].name>>
    BY <1>3, <2>1
  <2>3. text.relations[k].name = def.name /\ k # m + 1
    BY <2>1, <2>2, <1>2
  <2>4. k \in DOMAIN text.relations /\ m + 1 \in DOMAIN text.relations
    BY <1>1, <1>2
  <2> QED
    BY <1>2, <2>3, <2>4 DEF Validated, RelationsDistinct
<1>5. /\ relSymPool' = Append(relSymPool, symbol)
      /\ relations' = Append(relations, added)
      /\ relationIds' = Append(relationIds, Len(relSymPool) + 1)
      /\ UNCHANGED <<moduleNamePool, modules, phase, text, rules, factsAdded>>
  BY <1>2, <1>4 DEF AddRelation
<1>6. /\ IsSequence(relSymPool') /\ IsSequence(relations') /\ IsSequence(relationIds')
      /\ Len(relSymPool) = r /\ Len(relSymPool') = r + 1 /\ Len(relations') = r + 1 /\ Len(relationIds') = m + 1
      /\ DOMAIN relSymPool' = 1..r + 1 /\ DOMAIN relations' = 1..r + 1 /\ DOMAIN relationIds' = 1..m + 1
      /\ \A i \in 1..r : relSymPool'[i] = relSymPool[i] /\ relations'[i] = relations[i]
      /\ relSymPool'[r + 1] = symbol /\ relations'[r + 1] = added
      /\ \A k \in 1..m : relationIds'[k] = relationIds[k]
      /\ relationIds'[m + 1] = r + 1
  BY <1>2, <1>5, AppendIsSequence DEF KBInv, Sequences, RelationsPaired
<1> QED
  BY <1>1, <1>4, <1>5, <1>6

LEMMA AddRelationStep ==
  ASSUME KBInv, AddRelation
  PROVE  KBInv'
<1> DEFINE n == Len(moduleNamePool)
           m == Len(relationIds)
           def == text.relations[m + 1]
           symbol == <<n, def.name>>
           r == Len(relations)
           added == [types |-> def.types, edbFacts |-> {}, finalized |-> FALSE]
<1>1. phase = "converting" /\ m < Len(text.relations)
  BY DEF AddRelation
<1>2. /\ Fit /\ text \in Texts /\ Validated
      /\ n \in Nat /\ DOMAIN moduleNamePool = 1..n /\ n = Len(modules) + 1
      /\ DOMAIN modules = 1..n - 1
      /\ QueryId(moduleNamePool, text.name) = n
      /\ Len(text.relations) \in Nat /\ DOMAIN text.relations = 1..Len(text.relations)
      /\ m \in Nat /\ DOMAIN relationIds = 1..m
      /\ Len(relations) \in Nat /\ DOMAIN relations = 1..Len(relations)
      /\ DOMAIN relSymPool = DOMAIN relations
  BY <1>1, WhileConverting
<1>3. /\ \A k \in 1..m : relationIds[k] \in DOMAIN relSymPool
                         /\ relSymPool[relationIds[k]] = <<n, text.relations[k].name>>
      /\ \A rel \in DOMAIN relSymPool : relSymPool[rel][1] = n =>
           \E k \in 1..m : relSymPool[rel] = <<n, text.relations[k].name>>
  BY <1>1, <1>2 DEF Fit, Converting
<1>5. UNCHANGED <<moduleNamePool, modules, phase, text, rules, factsAdded>>
  BY RelationAdded
<1>6. /\ IsSequence(relSymPool') /\ IsSequence(relations') /\ IsSequence(relationIds')
      /\ Len(relSymPool) = r /\ Len(relSymPool') = r + 1 /\ Len(relations') = r + 1 /\ Len(relationIds') = m + 1
      /\ DOMAIN relSymPool' = 1..r + 1 /\ DOMAIN relations' = 1..r + 1 /\ DOMAIN relationIds' = 1..m + 1
      /\ \A i \in 1..r : relSymPool'[i] = relSymPool[i] /\ relations'[i] = relations[i]
      /\ relSymPool'[r + 1] = symbol /\ relations'[r + 1] = added
      /\ \A k \in 1..m : relationIds'[k] = relationIds[k]
      /\ relationIds'[m + 1] = r + 1
  BY RelationAdded
<1>7. ToSet(relationIds') = ToSet(relationIds) \cup {r + 1}
  <2>1. \A k \in 1..m + 1 : relationIds'[k] \in {relationIds[j] : j \in 1..m} \cup {r + 1}
    BY <1>2, <1>6
  <2>2. 1..m + 1 = 1..m \cup {m + 1}
    BY <1>2
  <2>3. \A k \in 1..m + 1 : relationIds'[k] \in ToSet(relationIds')
    BY <1>6 DEF ToSet
  <2>4. \A k \in 1..m : relationIds[k] \in ToSet(relationIds')
    BY <1>6, <2>2, <2>3
  <2>5. r + 1 \in ToSet(relationIds')
    BY <1>6, <2>2, <2>3
  <2>6. ToSet(relationIds) = {relationIds[j] : j \in 1..m}
    BY <1>2 DEF ToSet
  <2>7. ToSet(relationIds') = {relationIds'[k] : k \in 1..m + 1}
    BY <1>6 DEF ToSet
  <2> QED
    BY <2>1, <2>4, <2>5, <2>6, <2>7
<1>8. Sequences' /\ Locals'
  BY <1>1, <1>2, <1>5, <1>6 DEF KBInv, Sequences, Locals
<1>9. RelationsPaired'
  <2>1. \A rel \in 1..r + 1 : relSymPool'[rel][1] \in 1..n
    <3>1. n \in 1..n /\ 1..r + 1 = 1..r \cup {r + 1}
      BY <1>2
    <3>2. \A rel \in 1..r : relSymPool[rel][1] \in 1..n
      BY <1>2 DEF KBInv, RelationsPaired
    <3>3. \A rel \in 1..r : relSymPool'[rel] = relSymPool[rel]
      BY <1>6
    <3>4. relSymPool'[r + 1] = <<n, def.name>>
      BY <1>6
    <3> QED
      BY <3>1, <3>2, <3>3, <3>4
  <2> QED
    BY <1>2, <1>5, <1>6, <1>7, <2>1 DEF KBInv, RelationsPaired
<1>10. NamesFit'
  BY <1>2, <1>5 DEF Fit, NamesFit
<1>11. ModulesFit'
  <2>1. \A i \in DOMAIN modules :
          /\ modules[i].id = i /\ modules[i].name = moduleNamePool[i]
          /\ \A rel \in ToSet(modules[i].relationIds) : rel \in 1..r /\ relSymPool[rel][1] = i
    BY <1>2 DEF Fit, ModulesFit
  <2>2. 1..r \subseteq DOMAIN relations' /\ \A rel \in 1..r : relSymPool'[rel] = relSymPool[rel]
    BY <1>2, <1>6
  <2> QED
    BY <1>5, <2>1, <2>2 DEF ModulesFit
<1>12. RelationsFit'
  <2>1. SUFFICES ASSUME NEW rel \in 1..r + 1
                 PROVE  /\ relations'[rel] = [types |-> relations'[rel].types,
                              edbFacts |-> relations'[rel].edbFacts, finalized |-> relations'[rel].finalized]
                        /\ \/ relations'[rel].finalized
                              /\ \E i \in DOMAIN modules : rel \in ToSet(modules[i].relationIds)
                           \/ rel \in ToSet(relationIds')
    BY <1>1, <1>5, <1>6 DEF RelationsFit
  <2>2. CASE rel \in 1..r
    BY <1>2, <1>6, <1>7, <2>2 DEF Fit, RelationsFit
  <2>3. CASE rel = r + 1
    BY <1>6, <1>7, <2>3
  <2> QED
    BY <1>2, <2>2, <2>3
<1>13. Validated'
  <2>1. \A lit : Known(lit) => Known(lit)'
    <3>1. \A x : Exists(relSymPool, x) => Exists(relSymPool', x)
      BY <1>2, <1>6 DEF Exists
    <3> QED
      BY <1>5, <3>1 DEF Known, Defined, Symbol
  <2> QED
    BY <1>2, <1>5, <2>1 DEF Validated, RelationsDistinct, Defined
<1>14. Converting'
  <2>0. /\ 1..m \subseteq 1..m + 1 /\ m + 1 \in 1..m + 1 /\ 1..m + 1 = 1..m \cup {m + 1}
        /\ r + 1 \in 1..r + 1 /\ 1..r + 1 = 1..r \cup {r + 1}
    <3>1. m \in Nat /\ r \in Nat
      BY <1>2
    <3> QED
      BY <3>1, NextInterval
  <2>1. \A k \in 1..m + 1 : relationIds'[k] \in 1..r + 1
                            /\ relSymPool'[relationIds'[k]] = <<n, text.relations[k].name>>
    <3>2. ASSUME NEW k \in 1..m
          PROVE  /\ relationIds'[k] \in 1..r + 1
                 /\ relSymPool'[relationIds'[k]] = <<n, text.relations[k].name>>
      <4>1. relationIds[k] \in 1..r /\ relSymPool[relationIds[k]] = <<n, text.relations[k].name>>
        BY <1>2, <1>3
      <4> QED
        BY <1>6, <2>0, <4>1
    <3>3. /\ relationIds'[m + 1] \in 1..r + 1
          /\ relSymPool'[relationIds'[m + 1]] = <<n, text.relations[m + 1].name>>
      BY <1>6, <2>0
    <3> QED
      BY <2>0, <3>2, <3>3
  <2>2. \A rel \in 1..r + 1 : relSymPool'[rel][1] = n =>
          \E k \in 1..m + 1 : relSymPool'[rel] = <<n, text.relations[k].name>>
    <3>2. \A rel \in 1..r : relSymPool[rel][1] = n =>
            \E k \in 1..m : relSymPool[rel] = <<n, text.relations[k].name>>
      BY <1>2, <1>3
    <3>3. ASSUME NEW rel \in 1..r, relSymPool'[rel][1] = n
          PROVE  \E k \in 1..m + 1 : relSymPool'[rel] = <<n, text.relations[k].name>>
      BY <1>6, <2>0, <3>2, <3>3
    <3>4. \E k \in 1..m + 1 : relSymPool'[r + 1] = <<n, text.relations[k].name>>
      BY <1>6, <2>0
    <3> QED
      BY <2>0, <3>3, <3>4
  <2>3. n > 0 /\ moduleNamePool[n] = text.name
    BY <1>1, <1>2 DEF Fit, Converting
  <2>4. UNCHANGED <<moduleNamePool, text>>
    BY <1>5
  <2>5. /\ Len(moduleNamePool') = n /\ moduleNamePool'[n] = text'.name
        /\ \A k \in DOMAIN relationIds' :
             /\ relationIds'[k] \in DOMAIN relSymPool'
             /\ relSymPool'[relationIds'[k]] = <<n, text'.relations[k].name>>
    BY <1>6, <2>1, <2>3, <2>4
  <2>6. \A rel \in DOMAIN relSymPool' : relSymPool'[rel][1] = n =>
          \E k \in DOMAIN relationIds' : relSymPool'[rel] = <<n, text'.relations[k].name>>
    BY <1>6, <2>2, <2>4
  <2> QED
    BY <1>13, <2>3, <2>5, <2>6 DEF Converting
<1> QED
  BY <1>1, <1>5, <1>8, <1>9, <1>10, <1>11, <1>12, <1>14 DEF KBInv, Fit, AbortJustified

\* When all relations of the text have been added, what it defines is found.
LEMMA DefinedExists ==
  ASSUME KBInv, phase = "converting", Len(relationIds) = Len(text.relations),
         NEW rel, Defined(rel)
  PROVE  Exists(relSymPool, <<QueryId(moduleNamePool, text.name), rel>>)
<1> DEFINE n == Len(moduleNamePool)
<1>1. /\ Fit /\ QueryId(moduleNamePool, text.name) = n
      /\ DOMAIN text.relations = 1..Len(text.relations)
      /\ DOMAIN relationIds = 1..Len(relationIds)
  BY WhileConverting
<1>2. PICK k \in DOMAIN text.relations : text.relations[k].name = rel
  BY DEF Defined
<1>3. relationIds[k] \in DOMAIN relSymPool /\ relSymPool[relationIds[k]] = <<n, rel>>
  BY <1>1, <1>2 DEF Fit, Converting
<1> QED
  BY <1>1, <1>3 DEF Exists

\* The names of a validated rule are found.
LEMMA RuleResolves ==
  ASSUME KBInv, phase = "converting", Len(relationIds) = Len(text.relations),
         NEW k \in DOMAIN text.rules
  PROVE  Resolves(text.rules[k])
<1> DEFINE rule == text.rules[k]
<1>1. Validated
  BY WhileConverting
<1>2. Exists(relSymPool, <<QueryId(moduleNamePool, text.name), rule.head.rel>>)
  BY <1>1, DefinedExists DEF Validated
<1>3. ASSUME NEW lit \in LiteralsUpTo(rule, Len(rule.disjuncts))
      PROVE  (lit.module # Own => Exists(moduleNamePool, lit.module)) /\ Exists(relSymPool, Symbol(lit))
  <2>1. Known(lit)
    BY <1>1 DEF Validated
  <2>2. CASE lit.module = Own
    BY <2>1, <2>2, DefinedExists DEF Known, Symbol
  <2>3. CASE lit.module # Own
    BY <2>1, <2>3 DEF Known
  <2> QED
    BY <2>2, <2>3
<1> QED
  BY <1>2, <1>3 DEF Resolves

LEMMA AddRuleStep ==
  ASSUME KBInv, AddRule
  PROVE  KBInv'
<1> DEFINE k == Len(rules) + 1
           rule == text.rules[k]
<1>1. /\ phase = "converting" /\ Len(relationIds) = Len(text.relations)
      /\ Len(rules) < Len(text.rules)
  BY DEF AddRule
<1>2. /\ Fit /\ text \in Texts /\ Validated
      /\ Len(text.rules) \in Nat /\ DOMAIN text.rules = 1..Len(text.rules)
  BY <1>1, WhileConverting
<1>3. Len(rules) \in Nat /\ k \in DOMAIN text.rules
  BY <1>1, <1>2, SequenceDomain DEF KBInv, Sequences
<1>4. Resolves(rule)
  BY <1>1, <1>3, RuleResolves
<1>5. CASE (\E d \in DOMAIN rule.disjuncts : TypeMapMisses(rule.disjuncts[d])) /\ Abort
  <2>1. Sequences' /\ Locals' /\ RelationsPaired' /\ phase' = "aborted" /\ text' = text
    BY <1>1, <1>2, <1>5 DEF KBInv, Abort, Sequences, Locals, RelationsPaired, pools, locals
  <2>2. PICK d \in DOMAIN rule.disjuncts : TypeMapMisses(rule.disjuncts[d])
    BY <1>5
  <2>3. rule \in ToSet(text.rules)
    BY <1>3 DEF ToSet
  <2>4. Len(rule.disjuncts) \in Nat /\ DOMAIN rule.disjuncts = 1..Len(rule.disjuncts)
    <3>1. IsSequence(rule.disjuncts)
      BY <1>2, <2>3, TextsAssumption
    <3> QED
      BY <3>1, SequenceDomain
  <2>5. Len(rule.disjuncts) > 1
    <3>1. Len(rule.disjuncts) # 1
      <4>1. SUFFICES ASSUME Len(rule.disjuncts) = 1 PROVE FALSE
        OBVIOUS
      <4>2. d = 1
        BY <2>4, <4>1
      <4> QED
        BY <1>2, <1>3, <2>2, <4>1, <4>2 DEF Validated
    <3>2. d \in 1..Len(rule.disjuncts)
      BY <2>2, <2>4
    <3>3. \A n \in Nat : \A e \in 1..n : n # 1 => n > 1
      OBVIOUS
    <3> QED
      BY <2>4, <3>1, <3>2, <3>3, Zenon
  <2>6. rule.disjuncts[d].functions # << >>
    BY <2>2, EmptyIsSequence DEF TypeMapMisses
  <2>7. AbortJustified'
    BY <2>1, <2>3, <2>5, <2>6 DEF AbortJustified
  <2> QED
    BY <2>1, <2>7 DEF KBInv
<1>6. CASE /\ rules' = Append(rules, ConvertRule(rule))
           /\ UNCHANGED <<pools, phase, text, relationIds, factsAdded>>
  <2> USE DEF pools
  <2>1. IsSequence(rules') /\ Len(rules') = Len(rules) + 1
    BY <1>6, AppendIsSequence DEF KBInv, Sequences
  <2>2. Sequences' /\ Locals' /\ RelationsPaired'
    BY <1>1, <1>2, <1>3, <1>6, <2>1 DEF KBInv, Sequences, Locals, RelationsPaired
  <2>3. NamesFit' /\ ModulesFit' /\ RelationsFit'
    BY <1>2, <1>6 DEF Fit, NamesFit, ModulesFit, RelationsFit
  <2>4. Converting'
    BY <1>1, <1>2, <1>6, ValidatedStays DEF Fit, Converting
  <2> QED
    BY <1>1, <1>6, <2>2, <2>3, <2>4 DEF KBInv, Fit, AbortJustified
<1> QED
  BY <1>4, <1>5, <1>6 DEF AddRule

\* The relation of a validated fact is found, and the fact is added to it.
LEMMA FactAdded ==
  ASSUME KBInv, AddFact
  PROVE  LET fact == text.facts[factsAdded + 1]
             symbol == <<QueryId(moduleNamePool, text.name), fact.rel>>
             r == QueryId(relSymPool, symbol)
             edbFacts == IF relations[r].finalized THEN relations[r].edbFacts
                         ELSE relations[r].edbFacts \cup {fact.terms}
         IN  /\ factsAdded \in Nat /\ factsAdded + 1 \in DOMAIN text.facts
             /\ Exists(relSymPool, symbol) /\ r \in DOMAIN relations
             /\ relations' = [relations EXCEPT ![r] = [@ EXCEPT !.edbFacts = edbFacts]]
             /\ factsAdded' = factsAdded + 1
             /\ UNCHANGED <<moduleNamePool, relSymPool, modules, phase, text, relationIds, rules>>
<1> DEFINE fact == text.facts[factsAdded + 1]
           symbol == <<QueryId(moduleNamePool, text.name), fact.rel>>
           r == QueryId(relSymPool, symbol)
           edbFacts == IF relations[r].finalized THEN relations[r].edbFacts
                       ELSE relations[r].edbFacts \cup {fact.terms}
<1>1. /\ phase = "converting" /\ Len(relationIds) = Len(text.relations)
      /\ Len(rules) = Len(text.rules) /\ factsAdded < Len(text.facts)
  BY DEF AddFact
<1>2. /\ Validated /\ DOMAIN text.facts = 1..Len(text.facts) /\ Len(text.facts) \in Nat
      /\ DOMAIN relSymPool = DOMAIN relations
  BY <1>1, WhileConverting
<1>3. factsAdded \in Nat /\ factsAdded + 1 \in DOMAIN text.facts
  BY <1>1, <1>2 DEF KBInv, Locals
<1>4. Exists(relSymPool, symbol)
  BY <1>1, <1>2, <1>3, DefinedExists DEF Validated
<1>5. r \in DOMAIN relations
  BY <1>2, <1>4 DEF Exists, QueryId
<1>6. /\ relations' = [relations EXCEPT ![r] = [@ EXCEPT !.edbFacts = edbFacts]]
      /\ factsAdded' = factsAdded + 1
      /\ UNCHANGED <<moduleNamePool, relSymPool, modules, phase, text, relationIds, rules>>
  BY <1>4, Zenon DEF AddFact
<1> QED
  BY <1>3, <1>4, <1>5, <1>6

LEMMA AddFactStep ==
  ASSUME KBInv, AddFact
  PROVE  KBInv'
<1> DEFINE fact == text.facts[factsAdded + 1]
           symbol == <<QueryId(moduleNamePool, text.name), fact.rel>>
           r == QueryId(relSymPool, symbol)
           edbFacts == IF relations[r].finalized THEN relations[r].edbFacts
                       ELSE relations[r].edbFacts \cup {fact.terms}
<1>1. /\ phase = "converting" /\ Len(relationIds) = Len(text.relations)
      /\ Len(rules) = Len(text.rules) /\ factsAdded < Len(text.facts)
  BY DEF AddFact
<1>2. /\ Fit /\ text \in Texts /\ Validated
      /\ Len(text.facts) \in Nat /\ DOMAIN text.facts = 1..Len(text.facts)
      /\ Len(relations) \in Nat /\ DOMAIN relations = 1..Len(relations)
      /\ DOMAIN relSymPool = DOMAIN relations
  BY <1>1, WhileConverting
<1>3. factsAdded \in Nat /\ factsAdded + 1 \in DOMAIN text.facts /\ r \in DOMAIN relations
  BY FactAdded
<1>6. /\ relations' = [relations EXCEPT ![r] = [@ EXCEPT !.edbFacts = edbFacts]]
      /\ factsAdded' = factsAdded + 1
      /\ UNCHANGED <<moduleNamePool, relSymPool, modules, phase, text, relationIds, rules>>
  BY FactAdded
<1>7. /\ IsSequence(relations') /\ Len(relations') = Len(relations)
      /\ DOMAIN relations' = DOMAIN relations
  <2>1. DOMAIN relations' = 1..Len(relations)
    BY <1>2, <1>6
  <2>2. relations' \in [1..Len(relations) -> ToSet(relations')]
    BY <1>6, <2>1 DEF ToSet
  <2>3. relations' \in Seq(ToSet(relations'))
    BY <1>2, <2>2
  <2> QED
    BY <1>2, <2>1, <2>3, SequenceDomain DEF IsSequence
<1>8. Sequences' /\ Locals' /\ RelationsPaired'
  <2>1. Sequences'
    BY <1>6, <1>7 DEF KBInv, Sequences
  <2>2. Locals'
    BY <1>1, <1>2, <1>3, <1>6 DEF KBInv, Locals
  <2>3. RelationsPaired'
    BY <1>6, <1>7 DEF KBInv, RelationsPaired
  <2> QED
    BY <2>1, <2>2, <2>3
<1>9. NamesFit' /\ ModulesFit'
  BY <1>2, <1>6, <1>7 DEF Fit, NamesFit, ModulesFit
<1>10. RelationsFit'
  <2>1. \A rel \in DOMAIN relations : relations[rel] =
          [types |-> relations[rel].types, edbFacts |-> relations[rel].edbFacts,
           finalized |-> relations[rel].finalized]
    BY <1>2 DEF Fit, RelationsFit
  <2>2. relations'[r] = [types |-> relations[r].types, edbFacts |-> edbFacts,
                         finalized |-> relations[r].finalized]
    <3>1. relations'[r] = [relations[r] EXCEPT !.edbFacts = edbFacts]
      BY <1>3, <1>6
    <3> HIDE DEF r, edbFacts
    <3> QED
      BY <1>3, <2>1, <3>1
  <2>3. \A rel \in DOMAIN relations : rel # r => relations'[rel] = relations[rel]
    BY <1>6
  <2>4. \A rel \in DOMAIN relations : relations'[rel].finalized = relations[rel].finalized
    BY <2>2, <2>3
  <2>5. \A rel \in DOMAIN relations : relations'[rel] =
          [types |-> relations'[rel].types, edbFacts |-> relations'[rel].edbFacts,
           finalized |-> relations'[rel].finalized]
    BY <2>1, <2>2, <2>3
  <2> QED
    BY <1>2, <1>6, <1>7, <2>4, <2>5 DEF Fit, RelationsFit
<1>11. Converting'
  BY <1>1, <1>2, <1>6, ValidatedStays DEF Fit, Converting
<1> QED
  BY <1>1, <1>6, <1>8, <1>9, <1>10, <1>11 DEF KBInv, Fit, AbortJustified

LEMMA FinishModuleStep ==
  ASSUME KBInv, FinishModule
  PROVE  KBInv'
<1> DEFINE n == Len(moduleNamePool)
           module == [name |-> text.name, id |-> n, rules |-> rules, relationIds |-> relationIds]
<1>1. phase = "converting" /\ Len(relationIds) = Len(text.relations)
  BY DEF FinishModule
<1>2. /\ Fit /\ n \in Nat /\ DOMAIN moduleNamePool = 1..n /\ n = Len(modules) + 1
      /\ DOMAIN modules = 1..n - 1
      /\ QueryId(moduleNamePool, text.name) = n
      /\ DOMAIN relationIds = 1..Len(relationIds)
      /\ Len(relations) \in Nat /\ DOMAIN relations = 1..Len(relations)
      /\ DOMAIN relSymPool = DOMAIN relations
  BY <1>1, WhileConverting
<1>3. /\ relations' = [i \in DOMAIN relations |->
                          IF i \in ToSet(relationIds) THEN [relations[i] EXCEPT !.finalized = TRUE]
                          ELSE relations[i]]
      /\ modules' = Append(modules, module)
      /\ phase' = "idle" /\ text' = NoText
      /\ relationIds' = << >> /\ rules' = << >> /\ factsAdded' = 0
      /\ UNCHANGED <<moduleNamePool, relSymPool>>
  BY <1>2 DEF FinishModule
<1>4. /\ IsSequence(relations') /\ Len(relations') = Len(relations)
      /\ DOMAIN relations' = DOMAIN relations
  <2>1. DOMAIN relations' = 1..Len(relations)
    BY <1>2, <1>3
  <2>2. relations' \in [1..Len(relations) -> ToSet(relations')]
    BY <1>3, <2>1 DEF ToSet
  <2>3. relations' \in Seq(ToSet(relations'))
    BY <1>2, <2>2
  <2> QED
    BY <1>2, <2>1, <2>3, SequenceDomain DEF IsSequence
<1>5. /\ IsSequence(modules') /\ Len(modules') = n /\ DOMAIN modules' = 1..n
      /\ \A i \in 1..n - 1 : modules'[i] = modules[i]
      /\ modules'[n] = module
  BY <1>2, <1>3, AppendIsSequence DEF KBInv, Sequences
<1>6. n \in 1..n /\ 1..n = 1..n - 1 \cup {n}
  <2>1. n > 0
    BY <1>1, <1>2 DEF Fit, Converting
  <2> QED
    BY <1>2, <2>1
<1>7. Sequences' /\ Locals' /\ RelationsPaired'
  <2>1. Sequences'
    BY <1>3, <1>4, <1>5, EmptyIsSequence DEF KBInv, Sequences
  <2>2. Locals'
    BY <1>3, EmptyIsSequence DEF Locals, NoText
  <2>3. RelationsPaired'
    BY <1>3, <1>4, EmptyIsSequence DEF KBInv, RelationsPaired, ToSet
  <2> QED
    BY <2>1, <2>2, <2>3
<1>8. NamesFit'
  <2>1. moduleNamePool' = moduleNamePool /\ phase' # "converting" /\ Len(modules') = n + 0
    BY <1>2, <1>3, <1>5
  <2>2. \A i, j \in DOMAIN moduleNamePool : moduleNamePool[i] = moduleNamePool[j] => i = j
    BY <1>2 DEF Fit, NamesFit
  <2> QED
    BY <1>2, <2>1, <2>2 DEF NamesFit
<1>9. ModulesFit'
  <2>1. \A rel \in ToSet(relationIds) : rel \in DOMAIN relations /\ relSymPool[rel][1] = n
    BY <1>1, <1>2 DEF Fit, Converting, ToSet
  <2>2. moduleNamePool[n] = text.name
    BY <1>1 DEF KBInv, Fit, Converting
  <2>3. \A i \in 1..n - 1 :
          /\ modules[i].id = i /\ modules[i].name = moduleNamePool[i]
          /\ \A rel \in ToSet(modules[i].relationIds) : rel \in DOMAIN relations /\ relSymPool[rel][1] = i
    BY <1>2 DEF Fit, ModulesFit
  <2> QED
    BY <1>3, <1>4, <1>5, <1>6, <2>1, <2>2, <2>3 DEF ModulesFit
<1>10. RelationsFit'
  <2>1. SUFFICES ASSUME NEW rel \in DOMAIN relations
                 PROVE  /\ relations'[rel] = [types |-> relations'[rel].types,
                              edbFacts |-> relations'[rel].edbFacts, finalized |-> relations'[rel].finalized]
                        /\ relations'[rel].finalized
                        /\ \E i \in 1..n : rel \in ToSet(modules'[i].relationIds)
    BY <1>4, <1>5 DEF RelationsFit
  <2>2. relations[rel] = [types |-> relations[rel].types, edbFacts |-> relations[rel].edbFacts,
                          finalized |-> relations[rel].finalized]
    BY <1>2 DEF Fit, RelationsFit
  <2>3. CASE rel \in ToSet(relationIds)
    <3>1. relations'[rel] = [relations[rel] EXCEPT !.finalized = TRUE]
      BY <1>3, <2>3
    <3>2. relations'[rel] = [types |-> relations[rel].types, edbFacts |-> relations[rel].edbFacts,
                             finalized |-> TRUE]
      BY <2>2, <3>1
    <3> QED
      BY <1>5, <1>6, <2>3, <3>2
  <2>4. CASE rel \notin ToSet(relationIds)
    <3>1. relations'[rel] = relations[rel]
      BY <1>3, <2>4
    <3>2. relations[rel].finalized /\ \E i \in 1..n - 1 : rel \in ToSet(modules[i].relationIds)
      BY <1>2, <2>4 DEF Fit, RelationsFit
    <3> QED
      BY <1>5, <1>6, <2>2, <3>1, <3>2
  <2> QED
    BY <2>3, <2>4
<1>11. Converting'
  BY <1>3 DEF Converting
<1> QED
  BY <1>3, <1>7, <1>8, <1>9, <1>10, <1>11 DEF KBInv, Fit, AbortJustified
------------------------------------------------------------------------------
(***************************************************************************)
(* The caller.                                                             *)
(***************************************************************************)

\* Every step of the caller is one of the steps above, or leaves the knowledge
\* base alone.
LEMMA KBStep ==
  ASSUME IInv, [SessionNext]_vars
  PROVE  KBInv'
<1>1. KBInv
  BY DEF IInv
<1>2. CASE UNCHANGED kbVars
  BY <1>1, <1>2, UnchangedStep
<1>3. CASE AddNext
  <2>1. Head(todo) \in Texts
    BY <1>3, HeadTailProperties DEF IInv, CallerInv, AddNext
  <2> QED
    BY <1>1, <1>3, <2>1, StartStep DEF AddNext
<1>4. CASE AddStep
  BY <1>1, <1>4, ValidateStep, AddRelationStep, AddRuleStep, AddFactStep, FinishModuleStep
     DEF AddStep, AddModuleStep
<1>5. CASE CatchImport
  BY <1>1, <1>5, CatchStep DEF CatchImport
<1>6. CASE ClearProgram
  BY <1>1, <1>6, ClearStep DEF ClearProgram
<1>7. CASE ReadFile \/ Loaded \/ CatchParse \/ FailImport \/ FailParse \/ Evaluate \/ FailEvaluate
             \/ CatchEvaluate \/ EndClient \/ (\E file \in Files : Import(file)) \/ UNCHANGED vars
  <2>1. UNCHANGED kbVars
    BY <1>7 DEF ReadFile, Loaded, CatchParse, FailImport, FailParse, Evaluate, FailEvaluate, CatchEvaluate,
                EndClient, Import, Exit, vars
  <2> QED
    BY <1>1, <2>1, UnchangedStep
<1> QED
  BY <1>3, <1>4, <1>5, <1>6, <1>7 DEF SessionNext, Running

LEMMA CallerStep ==
  ASSUME IInv, [SessionNext]_vars
  PROVE  CallerInv'
<1> USE DEF IInv, CallerInv, PromptEvaluated
<1>1. Len(modules) \in Nat /\ Len(<< >>) = 0
  BY SequenceDomain, EmptyIsSequence DEF KBInv, Sequences
<1>2. << >> \in Seq(Files) /\ << >> \in Seq(Texts) /\ \A f \in Files : <<f>> \in Seq(Files)
  BY EmptySeq
<1>3. CASE ReadFile
  <2>1. files # << >> /\ Head(files) \in Files /\ Tail(files) \in Seq(Files)
    BY <1>3, HeadTailProperties DEF ReadFile, Reading
  <2>2. todo' \in Seq(Texts)
    BY <1>3, <2>1, FilesHaveTexts DEF ReadFile
  <2> QED
    BY <1>3, <2>1, <2>2 DEF ReadFile, Reading, kbVars, pools
<1>4. CASE AddNext
  <2>1. Tail(todo) \in Seq(Texts)
    BY <1>4, HeadTailProperties DEF AddNext
  <2> QED
    BY <1>4, <2>1 DEF AddNext
<1>5. CASE AddStep
  BY <1>5 DEF AddStep, callerVars
<1>6. CASE Loaded
  BY <1>6 DEF Loaded, kbVars, pools
<1>7. CASE CatchImport \/ CatchParse
  BY <1>2, <1>7 DEF CatchImport, CatchParse
<1>8. CASE FailImport \/ FailParse \/ FailEvaluate \/ EndClient
  BY <1>8 DEF FailImport, FailParse, FailEvaluate, EndClient, Exit
<1>9. CASE Evaluate
  BY <1>1, <1>9 DEF Evaluate, Evaluating, kbVars, pools
<1>13. CASE CatchEvaluate
  <2>1. FailingModules \in SUBSET Nat /\ FailingModules # {} /\ \A i \in FailingModules : i >= 1
    BY <1>13, SequenceDomain DEF CatchEvaluate, FailingModules, KBInv, Sequences
  <2>2. Min(FailingModules) \in FailingModules
    BY <2>1, MinOf
  <2> DEFINE first == Min(FailingModules)
  <2>3. first \in Nat /\ first >= 1 /\ evaluated' = first - 1
    BY <1>13, <2>1, <2>2 DEF CatchEvaluate
  <2> HIDE DEF first
  <2>4. evaluated' \in Nat
    BY <2>3
  <2> QED
    BY <1>13, <2>3 DEF CatchEvaluate
<1>10. CASE ClearProgram
  BY <1>1, <1>10 DEF ClearProgram, ProgramClear
<1>11. ASSUME NEW file \in Files, Import(file)
       PROVE  CallerInv'
  BY <1>2, <1>11 DEF Import
<1>12. CASE UNCHANGED vars
  BY <1>12 DEF vars, callerVars, kbVars, pools
<1> QED
  BY <1>3, <1>4, <1>5, <1>6, <1>7, <1>8, <1>9, <1>10, <1>11, <1>12, <1>13 DEF SessionNext, Running

LEMMA Inductive == Spec => []IInv
<1>1. IInv /\ [SessionNext]_vars => IInv'
  BY KBStep, CallerStep DEF IInv
<1> QED
  BY InitIInv, <1>1, PTL DEF Spec
------------------------------------------------------------------------------
\* The types of the pools and of the locals of addModule (KnowledgeBase.cc
\* 435-467): every relation has a module to belong to, and the numbers that a
\* call has collected are those of relations.
THEOREM SessionTypeOK == Spec => []TypeOK
<1>1. IInv => TypeOK
  <2> SUFFICES ASSUME IInv PROVE TypeOK
    OBVIOUS
  <2>1. ToSet(files) \subseteq Files /\ ToSet(todo) \subseteq Texts
    BY LenProperties DEF IInv, CallerInv, ToSet
  <2> QED
    BY <2>1 DEF IInv, KBInv, CallerInv, Locals, RelationsPaired, TypeOK
<1> QED
  BY Inductive, <1>1, PTL

\* Whatever is refused or raised, and whoever catches it, the number of a
\* module is its place and its relations are found under it (KnowledgeBase.cc
\* 435-467, 562): addModule raises nothing after the validation.
THEOREM PoolsAlwaysFit == Spec => []PoolsFit
<1>1. IInv => PoolsFit
  <2> SUFFICES ASSUME IInv, phase \in {"idle", "validating", "raised"}
               PROVE  /\ Len(moduleNamePool) = Len(modules)
                      /\ ModulesFit /\ RelationsFit /\ phase # "converting"
    BY Zenon DEF PoolsFit, ModulesFit, RelationsFit
  <2>1. Len(modules) \in Nat
    BY SequenceDomain DEF IInv, KBInv, Sequences
  <2> QED
    BY <2>1 DEF IInv, KBInv, Fit, NamesFit
<1> QED
  BY Inductive, <1>1, PTL

\* Whoever sees the client's prompt asks about the modules that were evaluated
\* (Cli.cc 203-237, 432).
THEOREM PromptIsEvaluated == Spec => []PromptEvaluated
<1>1. IInv => PromptEvaluated
  BY DEF IInv, CallerInv
<1> QED
  BY Inductive, <1>1, PTL

\* The assertions of an import fail only for a head of the wrong arity and for
\* a comparison in a rule of several disjuncts (KnowledgeBase.cc 30, 773).
THEOREM AbortIsJustified == Spec => []AbortJustified
<1>1. IInv => AbortJustified
  BY DEF IInv, KBInv
<1> QED
  BY Inductive, <1>1, PTL
------------------------------------------------------------------------------

(***************************************************************************)
(* What the order of a body keeps, for bodies of any length: its literals, *)
(* and, if every literal that accepts Unknown shares a variable with every *)
(* one that does not, the literals that bind variables before those that   *)
(* only test them.                                                         *)
(***************************************************************************)
SafeFirst(s) == \A i, j \in DOMAIN s : Unsafe(s[i]) /\ ~Unsafe(s[j]) => j < i

\* AllShare of the literals themselves.
MixedShare(L) == \A a, b \in L : Unsafe(a) /\ ~Unsafe(b) => HaveCommonVariables(a, b)

\* A literal goes behind the safe ones if it is unsafe, and before the unsafe
\* ones if it is safe.
LEMMA InsertPlace ==
  ASSUME NEW L, NEW s \in Seq(L), NEW lit \in L
  PROVE  /\ Insert(s, lit) \in Seq(L)
         /\ \E k \in 1..Len(s) + 1 :
              /\ InsertedAt(Insert(s, lit), s, k, lit)
              /\ MixedShare(L) /\ SafeFirst(s) =>
                   \A i \in 1..Len(s) : /\ Unsafe(lit) /\ ~Unsafe(s[i]) => i < k
                                        /\ ~Unsafe(lit) /\ Unsafe(s[i]) => k <= i
<1> DEFINE n == Len(s)
<1>1. n \in Nat /\ DOMAIN s = 1..n /\ \A i \in 1..n : s[i] \in L
  OBVIOUS
<1>2. ASSUME MixedShare(L), NEW i \in 1..n
      PROVE  /\ Unsafe(lit) /\ ~Unsafe(s[i]) => ~Precedes(lit, s[i])
             /\ ~Unsafe(lit) /\ Unsafe(s[i]) => Precedes(lit, s[i])
  <2>1. s[i] \in L
    BY <1>1
  <2>2. Unsafe(lit) /\ ~Unsafe(s[i]) => HaveCommonVariables(lit, s[i])
    BY <1>2, <2>1 DEF MixedShare
  <2>3. ~Unsafe(lit) /\ Unsafe(s[i]) => HaveCommonVariables(lit, s[i])
    <3>1. HaveCommonVariables(lit, s[i]) = HaveCommonVariables(s[i], lit)
      BY DEF HaveCommonVariables
    <3> QED
      BY <1>2, <2>1, <3>1 DEF MixedShare
  <2>4. Unsafe(lit) \in BOOLEAN /\ Unsafe(s[i]) \in BOOLEAN
    BY DEF Unsafe
  <2> QED
    BY <2>2, <2>3, <2>4, Zenon DEF Precedes
<1>3. CASE s # << >> /\ Precedes(lit, s[1])
  <2> DEFINE t == <<lit>> \o s
  <2>1. Insert(s, lit) = t
    BY <1>3 DEF Insert
  <2>2. t \in Seq(L) /\ InsertedAt(t, s, 1, lit)
    BY <1>1 DEF InsertedAt
  <2>3. 1 \in 1..n + 1 /\ 1 \in 1..n
    BY <1>1, <1>3, EmptySeq
  <2>4. ASSUME MixedShare(L), SafeFirst(s), NEW i \in 1..n
        PROVE  /\ Unsafe(lit) /\ ~Unsafe(s[i]) => i < 1
               /\ ~Unsafe(lit) /\ Unsafe(s[i]) => 1 <= i
    <3>1. Unsafe(lit) => Unsafe(s[1])
      BY <1>2, <1>3, <2>3, <2>4
    <3>2. Unsafe(lit) /\ ~Unsafe(s[i]) => i < 1
      BY <1>1, <2>3, <2>4, <3>1 DEF SafeFirst
    <3> QED
      BY <3>2
  <2> HIDE DEF t
  <2> QED
    BY <2>1, <2>2, <2>3, <2>4
<1>4. CASE ~(s # << >> /\ Precedes(lit, s[1]))
  <2> DEFINE stays == {i \in DOMAIN s : ~Precedes(lit, s[i])}
             m == Max(stays \cup {0})
             k == m + 1
  <2>1. m \in stays \cup {0} /\ \A i \in stays \cup {0} : m >= i
    <3>1. stays \cup {0} \in SUBSET 0..n /\ stays \cup {0} # {}
      BY <1>1
    <3> HIDE DEF stays
    <3> QED
      BY <1>1, <3>1, MaxOf
  <2>2. m \in 0..n /\ k \in 1..n + 1
    <3>1. m \in 0..n
      BY <1>1, <2>1
    <3> HIDE DEF m
    <3> QED
      BY <1>1, <3>1
  <2>3. Insert(s, lit) = InsertAt(s, k, lit)
    BY <1>4, Zenon DEF Insert
  <2>4. InsertAt(s, k, lit) \in Seq(L) /\ InsertedAt(InsertAt(s, k, lit), s, k, lit)
    <3> HIDE DEF k
    <3> QED
      BY <2>2, InsertAtPlace
  <2>5. ASSUME MixedShare(L), SafeFirst(s), NEW i \in 1..n
        PROVE  /\ Unsafe(lit) /\ ~Unsafe(s[i]) => i < k
               /\ ~Unsafe(lit) /\ Unsafe(s[i]) => k <= i
    <3>1. ASSUME Unsafe(lit), ~Unsafe(s[i])
          PROVE  i < k
      <4>1. i \in stays
        BY <1>1, <1>2, <2>5, <3>1
      <4>2. m >= i
        BY <2>1, <4>1
      <4> HIDE DEF m
      <4> QED
        BY <2>2, <4>2
    <3>2. ASSUME ~Unsafe(lit), Unsafe(s[i])
          PROVE  k <= i
      <4>1. CASE m = 0
        <5> HIDE DEF m
        <5> QED
          BY <4>1
      <4>2. CASE m \in stays
        <5>1. m \in 1..n /\ ~Precedes(lit, s[m])
          BY <1>1, <4>2
        <5>2. ~Unsafe(s[m])
          <6> HIDE DEF m
          <6> QED
            BY <1>2, <2>5, <3>2, <5>1
        <5>3. m < i
          <6> HIDE DEF m
          <6> QED
            BY <1>1, <2>5, <3>2, <5>1, <5>2 DEF SafeFirst
        <5> HIDE DEF m
        <5> QED
          BY <2>2, <5>3
      <4> QED
        BY <2>1, <4>1, <4>2
    <3> QED
      BY <3>1, <3>2
  <2> HIDE DEF k
  <2> QED
    BY <2>2, <2>3, <2>4, <2>5
<1> QED
  BY <1>3, <1>4

\* The elements after one more literal, and that the safe ones stay first.
LEMMA InsertKeeps ==
  ASSUME NEW L, NEW s \in Seq(L), NEW lit \in L
  PROVE  /\ Insert(s, lit) \in Seq(L)
         /\ ToSet(Insert(s, lit)) = ToSet(s) \cup {lit}
         /\ MixedShare(L) /\ SafeFirst(s) => SafeFirst(Insert(s, lit))
<1> DEFINE n == Len(s)
           t == Insert(s, lit)
<1>1. PICK k \in 1..n + 1 :
        /\ InsertedAt(t, s, k, lit)
        /\ MixedShare(L) /\ SafeFirst(s) =>
             \A i \in 1..n : /\ Unsafe(lit) /\ ~Unsafe(s[i]) => i < k
                             /\ ~Unsafe(lit) /\ Unsafe(s[i]) => k <= i
  BY InsertPlace
<1>2. t \in Seq(L)
  BY InsertPlace
<1> HIDE DEF t
<1>3. n \in Nat /\ DOMAIN s = 1..n /\ DOMAIN t = 1..n + 1
  BY <1>1, <1>2 DEF InsertedAt
<1>4. \A i \in 1..n + 1 : t[i] = IF i < k THEN s[i] ELSE IF i = k THEN lit ELSE s[i - 1]
  BY <1>1 DEF InsertedAt
\* Where an element of t comes from.
<1>5. ASSUME NEW i \in 1..n + 1
      PROVE  \/ i < k /\ i \in 1..n /\ t[i] = s[i]
             \/ i = k /\ t[i] = lit
             \/ i > k /\ i - 1 \in 1..n /\ t[i] = s[i - 1]
  <2>1. k \in Nat /\ k >= 1 /\ k <= n + 1
    BY <1>3
  <2> HIDE DEF n
  <2> QED
    BY <1>3, <1>4, <2>1
<1>6. ToSet(t) = ToSet(s) \cup {lit}
  <2>1. \A i \in 1..n + 1 : t[i] \in ToSet(s) \cup {lit}
    BY <1>3, <1>5 DEF ToSet
  <2>2. \A i \in 1..n : \E e \in 1..n + 1 : t[e] = s[i]
    <3>1. ASSUME NEW i \in 1..n
          PROVE  \E e \in 1..n + 1 : t[e] = s[i]
      <4>1. CASE i < k
        <5>1. i \in 1..n + 1 /\ t[i] = s[i]
          BY <1>3, <1>4, <4>1
        <5> QED
          BY <5>1
      <4>2. CASE ~(i < k)
        <5>1. i + 1 \in 1..n + 1 /\ ~(i + 1 < k) /\ i + 1 # k /\ (i + 1) - 1 = i
          BY <1>3, <4>2
        <5>2. t[i + 1] = s[i]
          BY <1>4, <5>1
        <5> QED
          BY <5>1, <5>2
      <4> QED
        BY <4>1, <4>2
    <3> QED
      BY <3>1
  <2>3. t[k] = lit
    BY <1>4
  <2>4. ToSet(t) = {t[i] : i \in 1..n + 1} /\ ToSet(s) = {s[i] : i \in 1..n}
    BY <1>3 DEF ToSet
  <2> HIDE DEF n
  <2> QED
    BY <2>1, <2>2, <2>3, <2>4
<1>7. ASSUME MixedShare(L), SafeFirst(s)
      PROVE  SafeFirst(t)
  <2>1. SUFFICES ASSUME NEW i \in 1..n + 1, NEW j \in 1..n + 1, Unsafe(t[i]), ~Unsafe(t[j])
                 PROVE  j < i
    BY <1>3 DEF SafeFirst
  <2>2. \A a \in 1..n : /\ Unsafe(lit) /\ ~Unsafe(s[a]) => a < k
                        /\ ~Unsafe(lit) /\ Unsafe(s[a]) => k <= a
    BY <1>1, <1>7
  <2>3. \A a, b \in 1..n : Unsafe(s[a]) /\ ~Unsafe(s[b]) => b < a
    BY <1>3, <1>7 DEF SafeFirst
  <2>4. k \in Nat /\ i \in Nat /\ j \in Nat
    BY <1>3
  <2>5. CASE i < k /\ i \in 1..n /\ t[i] = s[i]
    BY <1>5, <2>1, <2>2, <2>3, <2>4, <2>5
  <2>6. CASE i = k /\ t[i] = lit
    BY <1>5, <2>1, <2>2, <2>3, <2>4, <2>6
  <2>7. CASE i > k /\ i - 1 \in 1..n /\ t[i] = s[i - 1]
    BY <1>5, <2>1, <2>2, <2>3, <2>4, <2>7
  <2> QED
    BY <1>5, <2>5, <2>6, <2>7
<1> QED
  BY <1>2, <1>6, <1>7 DEF t

\* The sort is the insertion of one literal after the other.
LEMMA SortedByInsertion ==
  ASSUME NEW L, NEW body \in Seq(L)
  PROVE  \E h \in [0..Len(body) -> Seq(L)] :
           /\ h[0] = << >>
           /\ \A k \in 1..Len(body) : h[k] = Insert(h[k - 1], body[k])
           /\ FoldLeft(Insert, << >>, body) = h[Len(body)]
<1> DEFINE n == Len(body)
           V == Seq(L)
           F == [p \in V \X L |-> Insert(p[1], p[2])]
           D == SUBSET (1..n)
           Eq(g) == [s \in D |-> IF s = {} THEN << >> ELSE Insert(g[s \ {Max(s)}], body[Max(s)])]
           iter == CHOOSE g : g = Eq(g)
           h == [k \in 0..n |-> iter[1..k]]
<1>1. n \in Nat /\ DOMAIN body = 1..n /\ body \in [1..n -> L] /\ << >> \in V
  OBVIOUS
<1>2. F \in [V \X L -> V]
  BY InsertKeeps
<1>3. PICK g : IsFold(g, F, << >>, body, n, V)
  <2> HIDE DEF F, V, n
  <2> QED
    BY <1>1, <1>2, FoldExists
<1>4. /\ g \in [D -> V]
      /\ \A s \in D : g[s] = IF s = {} THEN << >> ELSE F[<<g[s \ {Max(s)}], body[Max(s)]>>]
  BY <1>3, Zenon DEF IsFold
<1>5. g = Eq(g)
  <2>1. ASSUME NEW s \in D, s # {}
        PROVE  F[<<g[s \ {Max(s)}], body[Max(s)]>>] = Insert(g[s \ {Max(s)}], body[Max(s)])
    <3>1. Max(s) \in 1..n /\ s \ {Max(s)} \in D
      BY <1>1, <2>1, WithoutLast
    <3>2. g[s \ {Max(s)}] \in V /\ body[Max(s)] \in L
      BY <1>1, <1>4, <3>1
    <3> HIDE DEF V, D
    <3> QED
      BY <3>2
  <2>2. \A s \in D : g[s] = IF s = {} THEN << >> ELSE Insert(g[s \ {Max(s)}], body[Max(s)])
    <3> HIDE DEF F, V, D
    <3> QED
      BY <1>4, <2>1
  <2> HIDE DEF F, V, D
  <2> QED
    BY <1>4, <2>2
<1>6. iter = Eq(iter)
  <2> HIDE DEF Eq
  <2> QED
    BY <1>5
<1>7. FoldLeft(Insert, << >>, body) = iter[1..n]
  <2>1. FoldLeft(Insert, << >>, body) = iter[DOMAIN body]
    BY <1>1, Zenon DEF FoldLeft, MapThenFoldSet
  <2> HIDE DEF iter
  <2> QED
    BY <1>1, <2>1
<1>8. iter[{}] = << >>
  BY <1>6
<1>9. ASSUME NEW k \in 1..n
      PROVE  iter[1..k] = Insert(iter[1..k - 1], body[k])
  <2>1. Max(1..k) = k /\ (1..k) \ {k} = 1..k - 1 /\ 1..k # {}
    <3>1. k - 1 \in Nat /\ (k - 1) + 1 = k
      BY <1>1
    <3> QED
      BY <3>1, LastPlace
  <2>2. 1..k \in D
    BY <1>1
  <2>3. iter[1..k] = Insert(iter[(1..k) \ {Max(1..k)}], body[Max(1..k)])
    <3> HIDE DEF iter
    <3> QED
      BY <1>6, <2>1, <2>2
  <2> HIDE DEF iter
  <2> QED
    BY <2>1, <2>3
<1> HIDE DEF iter
<1>10. h[0] = << >> /\ \A k \in 1..n : h[k] = Insert(h[k - 1], body[k])
  <2>1. 1..0 = {}
    OBVIOUS
  <2>2. \A k \in 1..n : k - 1 \in 0..n /\ k \in 0..n
    BY <1>1
  <2> QED
    BY <1>1, <1>8, <1>9, <2>1, <2>2
<1>11. h \in [0..n -> V]
  <2> DEFINE S == {k \in 0..n : h[k] \in V}
  <2>1. 0 \in S
    <3>1. h[0] \in V /\ 0 \in 0..n
      <4> HIDE DEF h, V
      <4> QED
        BY <1>1, <1>10
    <3> HIDE DEF h, V
    <3> QED
      BY <3>1
  <2>2. ASSUME NEW k \in 0..n, k < n, k \in S
        PROVE  k + 1 \in S
    <3>1. k + 1 \in 1..n /\ (k + 1) - 1 = k /\ k + 1 \in 0..n
      BY <1>1, <2>2
    <3>2. h[k + 1] = Insert(h[k], body[k + 1])
      <4> HIDE DEF h
      <4> QED
        BY <1>10, <3>1
    <3>3. h[k] \in V /\ body[k + 1] \in L
      BY <1>1, <2>2, <3>1
    <3>4. Insert(h[k], body[k + 1]) \in V
      <4> HIDE DEF h
      <4> QED
        BY <3>3, InsertKeeps
    <3> HIDE DEF h, V
    <3> QED
      BY <3>1, <3>2, <3>4
  <2>3. 0..n \subseteq S
    <3> HIDE DEF S
    <3> QED
      BY <1>1, <2>1, <2>2, InductionUpto
  <2> HIDE DEF V
  <2> QED
    BY <2>3
<1>12. n \in 0..n
  BY <1>1
<1> QED
  BY <1>7, <1>10, <1>11, <1>12

\* A body keeps its literals, and if those that accept Unknown and those that
\* do not share variables, the latter come first.
LEMMA SortKeeps ==
  ASSUME NEW L, NEW body \in Seq(L)
  PROVE  /\ SortRuleLiterals(body) \in Seq(L)
         /\ ToSet(SortRuleLiterals(body)) = ToSet(body)
         /\ MixedShare(L) => SafeFirst(SortRuleLiterals(body))
<1> DEFINE n == Len(body)
<1>1. n \in Nat /\ DOMAIN body = 1..n
  OBVIOUS
<1>2. CASE \E i \in DOMAIN body : Unsafe(body[i])
  <2>1. PICK h \in [0..n -> Seq(L)] :
          /\ h[0] = << >>
          /\ \A k \in 1..n : h[k] = Insert(h[k - 1], body[k])
          /\ FoldLeft(Insert, << >>, body) = h[n]
    BY SortedByInsertion
  <2> DEFINE S == {k \in 0..n : ToSet(h[k]) = {body[i] : i \in 1..k} /\ (MixedShare(L) => SafeFirst(h[k]))}
  <2>2. 0 \in S
    <3>1. ToSet(<< >>) = {} /\ {body[i] : i \in 1..0} = {} /\ SafeFirst(<< >>)
      BY DEF ToSet, SafeFirst
    <3> QED
      BY <1>1, <2>1, <3>1
  <2>3. ASSUME NEW k \in 0..n, k < n, k \in S
        PROVE  k + 1 \in S
    <3>1. k + 1 \in 1..n /\ (k + 1) - 1 = k /\ k + 1 \in 0..n
      BY <1>1, <2>3
    <3>2. h[k + 1] = Insert(h[k], body[k + 1]) /\ h[k] \in Seq(L) /\ body[k + 1] \in L
      BY <2>1, <3>1
    <3>3. /\ ToSet(h[k + 1]) = ToSet(h[k]) \cup {body[k + 1]}
          /\ MixedShare(L) /\ SafeFirst(h[k]) => SafeFirst(h[k + 1])
      <4>1. \A s \in Seq(L), lit \in L :
              /\ ToSet(Insert(s, lit)) = ToSet(s) \cup {lit}
              /\ MixedShare(L) /\ SafeFirst(s) => SafeFirst(Insert(s, lit))
        BY InsertKeeps
      <4> QED
        BY <3>2, <4>1, Zenon
    <3>4. {body[i] : i \in 1..k + 1} = {body[i] : i \in 1..k} \cup {body[k + 1]}
      <4>1. 1..k + 1 = 1..k \cup {k + 1}
        BY <2>3
      <4> QED
        BY <4>1
    <3>5. ToSet(h[k + 1]) = {body[i] : i \in 1..k + 1}
      BY <2>3, <3>3, <3>4
    <3>6. MixedShare(L) => SafeFirst(h[k + 1])
      BY <2>3, <3>3, Zenon
    <3> QED
      BY <3>1, <3>5, <3>6
  <2>4. n \in S
    <3>1. 0..n \subseteq S
      <4> HIDE DEF S
      <4> QED
        BY <1>1, <2>2, <2>3, InductionUpto
    <3> QED
      BY <1>1, <3>1
  <2>5. SortRuleLiterals(body) = h[n]
    BY <1>2, <2>1, Zenon DEF SortRuleLiterals
  <2>6. ToSet(body) = {body[i] : i \in 1..n}
    BY <1>1 DEF ToSet
  <2>7. h[n] \in Seq(L)
    BY <1>1, <2>1
  <2>8. ToSet(h[n]) = ToSet(body) /\ (MixedShare(L) => SafeFirst(h[n]))
    BY <2>4, <2>6
  <2> QED
    BY <2>5, <2>7, <2>8, Zenon
<1>3. CASE ~\E i \in DOMAIN body : Unsafe(body[i])
  <2>1. SortRuleLiterals(body) = body
    BY <1>3, Zenon DEF SortRuleLiterals
  <2>2. SafeFirst(body)
    BY <1>3 DEF SafeFirst
  <2> QED
    BY <2>1, <2>2
<1> QED
  BY <1>2, <1>3
------------------------------------------------------------------------------

\* What the parser made of the files that it could read.
Readings == UNION {ToSet(Parse(file)) : file \in {f \in Files : ~ParseFails(f)}}

\* A symbol is a pair, and is in its pool once.
SymbolsDistinct ==
  /\ \A a \in DOMAIN relSymPool : relSymPool[a] = <<relSymPool[a][1], relSymPool[a][2]>>
  /\ \A a, b \in DOMAIN relSymPool : relSymPool[a] = relSymPool[b] => a = b

RuleKnown(rule) ==
  /\ rule.head.rel \in DOMAIN relSymPool
  /\ \A d \in DOMAIN rule.disjuncts : \A lit \in ToSet(rule.disjuncts[d].body) : lit.rel \in DOMAIN relSymPool

RulesKnown ==
  /\ \A i \in DOMAIN modules : \A rule \in ToSet(modules[i].rules) : RuleKnown(rule)
  /\ \A rule \in ToSet(rules) : RuleKnown(rule)

AllCovered ==
  /\ RulesCovered
  /\ \A rule \in ToSet(rules) : RuleCovered(rule)

\* The facts of a relation of the text among the first n.
FactsUpto(n, rel) == {text.facts[f].terms : f \in {g \in 1..n : text.facts[g].rel = rel}}

\* The variables of each disjunct of a rule, and of the head, occur in literals
\* without a constraint up to it.
VariablesBound(rule) ==
  \A d \in DOMAIN rule.disjuncts :
    LET disjunct == rule.disjuncts[d]
    IN  /\ VarSet(rule.head) \subseteq Satisfied(rule, d)
        /\ \A lit \in ToSet(disjunct.body) : VarSet(lit) \subseteq Satisfied(rule, d)
        /\ \A k \in DOMAIN disjunct.functions :
             ToSet(disjunct.functions[k]) \cap Variables \subseteq Satisfied(rule, d)

\* What has been converted is what the entry will show.
Translated ==
  phase = "converting" =>
    /\ Promised!WellFormed(EntryOf(text))
    /\ \A r \in DOMAIN text.rules : VariablesBound(text.rules[r])
    /\ Len(relationIds) < Len(text.relations) => rules = << >> /\ factsAdded = 0
    /\ \A k \in DOMAIN relationIds :
         /\ relations[relationIds[k]].types = text.relations[k].types
         /\ relations[relationIds[k]].edbFacts = FactsUpto(factsAdded, text.relations[k].name)
         /\ ~relations[relationIds[k]].finalized
    /\ \A k \in DOMAIN rules : ListedRule(rules[k]) = EntryRule(text, text.rules[k])

AllRead ==
  /\ todo \in Seq(Readings)
  /\ phase \in {"validating", "converting"} => text \in Readings
  /\ \A i \in DOMAIN modules : \E t \in Readings : Listed[i] = EntryOf(t)

ContentInv == SymbolsDistinct /\ RulesKnown /\ AllCovered /\ Translated /\ AllRead
------------------------------------------------------------------------------
(***************************************************************************)
(* The catalog does not change while a module is converted.                *)
(***************************************************************************)

LEMMA ListedParts ==
  /\ DOMAIN Listed = DOMAIN modules
  /\ \A i \in DOMAIN modules : Listed[i] =
       [name |-> modules[i].name,
        relations |-> [k \in DOMAIN modules[i].relationIds |-> ListedRelation(modules[i].relationIds[k])],
        rules |-> [r \in DOMAIN modules[i].rules |-> ListedRule(modules[i].rules[r])]]
  BY DEF Listed

\* A rule shows the names of its relations, which only change places when they
\* are cleared.
LEMMA RuleStays ==
  ASSUME NEW rule, RuleKnown(rule),
         \A rel \in DOMAIN relSymPool : NamesOf(rel) = NamesOf(rel)'
  PROVE  ListedRule(rule) = ListedRule(rule)'
<1>1. ListedLiteral(rule.head) = ListedLiteral(rule.head)'
  BY DEF RuleKnown, ListedLiteral
<1>2. ASSUME NEW d \in DOMAIN rule.disjuncts
      PROVE  {ListedLiteral(lit) : lit \in ToSet(rule.disjuncts[d].body)} =
             {ListedLiteral(lit)' : lit \in ToSet(rule.disjuncts[d].body)}
  BY DEF RuleKnown, ListedLiteral
<1> QED
  BY <1>1, <1>2 DEF ListedRule

LEMMA EntryStays ==
  ASSUME NEW i \in DOMAIN modules, i \in DOMAIN modules', modules'[i] = modules[i], RulesKnown,
         \A rel \in DOMAIN relSymPool : NamesOf(rel) = NamesOf(rel)',
         \A rel \in ToSet(modules[i].relationIds) :
           /\ rel \in DOMAIN relSymPool
           /\ relations'[rel].types = relations[rel].types
           /\ relations'[rel].edbFacts = relations[rel].edbFacts
  PROVE  Listed'[i] = Listed[i]
<1>1. ASSUME NEW k \in DOMAIN modules[i].relationIds
      PROVE  ListedRelation(modules[i].relationIds[k]) = ListedRelation(modules[i].relationIds[k])'
  <2>1. modules[i].relationIds[k] \in ToSet(modules[i].relationIds)
    BY DEF ToSet
  <2> QED
    BY <2>1 DEF ListedRelation
<1>2. ASSUME NEW r \in DOMAIN modules[i].rules
      PROVE  ListedRule(modules[i].rules[r]) = ListedRule(modules[i].rules[r])'
  <2>1. modules[i].rules[r] \in ToSet(modules[i].rules)
    BY DEF ToSet
  <2> QED
    BY <2>1, RuleStays DEF RulesKnown
<1> QED
  BY <1>1, <1>2 DEF Listed

\* The pools have grown behind what they had, and what belongs to a module is
\* as it was.
LEMMA PoolsGrow ==
  ASSUME KBInv, phase # "aborted", RulesKnown, UNCHANGED modules,
         \A i \in DOMAIN moduleNamePool : moduleNamePool'[i] = moduleNamePool[i],
         \A rel \in DOMAIN relSymPool : relSymPool'[rel] = relSymPool[rel],
         \A rel \in DOMAIN relations : relations[rel].finalized =>
           relations'[rel].types = relations[rel].types /\ relations'[rel].edbFacts = relations[rel].edbFacts,
         phase = "converting" => \A rel \in ToSet(relationIds) : ~relations[rel].finalized
  PROVE  /\ Listed' = Listed
         /\ \A rel \in DOMAIN relSymPool : NamesOf(rel) = NamesOf(rel)'
<1>1. \A rel \in DOMAIN relSymPool : NamesOf(rel) = NamesOf(rel)'
  BY DEF KBInv, RelationsPaired, NamesOf
<1>2. DOMAIN relSymPool = DOMAIN relations
  BY SequenceDomain DEF KBInv, Sequences, RelationsPaired
<1>3. ASSUME NEW i \in DOMAIN modules, NEW rel \in ToSet(modules[i].relationIds)
      PROVE  rel \in DOMAIN relations /\ relations[rel].finalized
  <2>1. rel \in DOMAIN relations /\ relSymPool[rel][1] = i
    BY <1>3 DEF KBInv, Fit, ModulesFit
  <2>2. CASE phase = "converting" /\ rel \in ToSet(relationIds)
    <3>1. relSymPool[rel][1] = Len(moduleNamePool) /\ Len(moduleNamePool) = Len(modules) + 1
      BY <2>2, WhileConverting DEF KBInv, Fit, Converting, ToSet
    <3>2. i \in 1..Len(modules) /\ Len(modules) \in Nat
      BY SequenceDomain DEF KBInv, Sequences
    <3> QED
      BY <2>1, <3>1, <3>2
  <2>3. CASE ~(phase = "converting" /\ rel \in ToSet(relationIds))
    BY <2>1, <2>3 DEF KBInv, Fit, RelationsFit
  <2> QED
    BY <2>1, <2>2, <2>3
<1>4. \A i \in DOMAIN modules : Listed'[i] = Listed[i]
  BY <1>1, <1>2, <1>3, EntryStays
<1> QED
  BY <1>1, <1>4 DEF Listed
------------------------------------------------------------------------------
(***************************************************************************)
(* What the validation makes of a rule.                                    *)
(***************************************************************************)

\* The variables that the check has met are those of the head and of the
\* literals.
LEMMA VariablesMet ==
  ASSUME NEW rule, NEW d
  PROVE  VarsMet(rule, d) = VarSet(rule.head) \cup UNION {VarSet(lit) : lit \in LiteralsUpTo(rule, d)}
<1>1. ASSUME NEW types, NEW terms
      PROVE  {p[1] : p \in VarTypes(types, terms)} = ToSet(terms) \cap Variables
  <2>1. ASSUME NEW v \in ToSet(terms) \cap Variables
        PROVE  \E p \in VarTypes(types, terms) : p[1] = v
    <3>1. PICK i \in DOMAIN terms : terms[i] = v
      BY DEF ToSet
    <3>2. <<terms[i], types[i]>> \in VarTypes(types, terms)
      BY <3>1 DEF VarTypes
    <3> QED
      BY <3>1, <3>2
  <2>2. \A p \in VarTypes(types, terms) : p[1] \in ToSet(terms) \cap Variables
    BY DEF VarTypes, ToSet
  <2> QED
    BY <2>1, <2>2
<1>2. {p[1] : p \in VarTypes(TypesInText(rule.head.rel), rule.head.terms)} = VarSet(rule.head)
  BY <1>1 DEF VarSet
<1>3. \A lit : {p[1] : p \in VarTypes(LiteralTypes(lit), lit.terms)} = VarSet(lit)
  BY <1>1 DEF VarSet
<1> QED
  BY <1>2, <1>3 DEF VarsMet, TypesMet

LEMMA ValidBinds ==
  ASSUME text \in Texts, TextValid, NEW r \in DOMAIN text.rules
  PROVE  VariablesBound(text.rules[r])
<1> DEFINE rule == text.rules[r]
<1>1. RuleValid(rule) /\ rule \in ToSet(text.rules)
  BY DEF TextValid, ToSet
<1>2. IsSequence(rule.disjuncts)
  BY <1>1, TextsAssumption
<1> SUFFICES ASSUME NEW d \in DOMAIN rule.disjuncts
             PROVE  /\ VarSet(rule.head) \subseteq Satisfied(rule, d)
                    /\ \A lit \in ToSet(rule.disjuncts[d].body) : VarSet(lit) \subseteq Satisfied(rule, d)
                    /\ \A k \in DOMAIN rule.disjuncts[d].functions :
                         ToSet(rule.disjuncts[d].functions[k]) \cap Variables \subseteq Satisfied(rule, d)
  BY DEF VariablesBound
<1>3. VarsMet(rule, d) \subseteq Satisfied(rule, d)
  BY <1>1 DEF RuleValid
<1>4. ToSet(rule.disjuncts[d].body) \subseteq LiteralsUpTo(rule, d)
  <2>1. d \in 1..d
    BY <1>2, SequenceDomain
  <2> QED
    BY <2>1 DEF LiteralsUpTo
<1>5. VarsMet(rule, d) = VarSet(rule.head) \cup UNION {VarSet(lit) : lit \in LiteralsUpTo(rule, d)}
  BY VariablesMet
<1>6. \A k \in DOMAIN rule.disjuncts[d].functions :
        ToSet(rule.disjuncts[d].functions[k]) \cap Variables \subseteq VarsMet(rule, d)
  BY <1>1, OperandsMet
<1> QED
  BY <1>3, <1>4, <1>5, <1>6

\* A literal without a constraint accepts one known value and Incons.
LEMMA FreeIsSafe ==
  ASSUME NEW lit, ~HasConstraint(lit)
  PROVE  ~Unsafe(ConvertRuleLiteral(lit))
  BY DEF HasConstraint, Unsafe, ConvertRuleLiteral, AcceptedSet, True, False, Unknown, Incons

\* The body of a converted disjunct.
LEMMA BodyConverted ==
  ASSUME NEW disjunct, IsSequence(disjunct.body)
  PROVE  LET body == ConvertDisjunct(disjunct).body
         IN  /\ DOMAIN body = 1..Len(body) /\ Len(body) \in Nat
             /\ ToSet(body) = {ConvertRuleLiteral(lit) : lit \in ToSet(disjunct.body)}
             /\ MixedShare(ToSet(body)) => SafeFirst(body)
<1> DEFINE n == Len(disjunct.body)
           c == [i \in DOMAIN disjunct.body |-> ConvertRuleLiteral(disjunct.body[i])]
           L == ToSet(c)
           body == SortRuleLiterals(c)
<1>1. n \in Nat /\ DOMAIN disjunct.body = 1..n
  BY SequenceDomain
<1>2. c \in Seq(L)
  <2>1. c \in [1..n -> L]
    BY <1>1 DEF ToSet
  <2> QED
    BY <1>1, <2>1
<1>3. L = {ConvertRuleLiteral(lit) : lit \in ToSet(disjunct.body)}
  BY DEF ToSet
<1>4. body \in Seq(L) /\ ToSet(body) = ToSet(c) /\ (MixedShare(L) => SafeFirst(body))
  <2> HIDE DEF c
  <2> QED
    BY <1>2, SortKeeps, Zenon
<1>5. ConvertDisjunct(disjunct).body = body
  BY DEF ConvertDisjunct
<1>6. DOMAIN body = 1..Len(body) /\ Len(body) \in Nat
  <2> HIDE DEF body
  <2> QED
    BY <1>4
<1> HIDE DEF body, c
<1> QED
  BY <1>3, <1>4, <1>5, <1>6

\* Every literal without a constraint is a safe one of the converted body.
LEMMA FreeInBody ==
  ASSUME NEW disjunct, IsSequence(disjunct.body), NEW lit \in ToSet(disjunct.body), ~HasConstraint(lit)
  PROVE  LET body == ConvertDisjunct(disjunct).body
         IN  \E i \in 1..Len(body) : ~Unsafe(body[i]) /\ VarSet(body[i]) = VarSet(lit)
<1> DEFINE body == ConvertDisjunct(disjunct).body
<1>1. DOMAIN body = 1..Len(body) /\ ToSet(body) = {ConvertRuleLiteral(l) : l \in ToSet(disjunct.body)}
  BY BodyConverted
<1>2. VarSet(ConvertRuleLiteral(lit)) = VarSet(lit)
  BY DEF VarSet, ConvertRuleLiteral
<1> HIDE DEF body
<1>3. ConvertRuleLiteral(lit) \in ToSet(body)
  BY <1>1
<1>4. PICK i \in 1..Len(body) : body[i] = ConvertRuleLiteral(lit)
  BY <1>1, <1>3 DEF ToSet
<1> QED
  BY <1>2, <1>4, FreeIsSafe DEF body

\* If its literals share their variables, the order of a converted body binds
\* what the literals that accept Unknown test.
LEMMA ConvertedInOrder ==
  ASSUME NEW disjunct, IsSequence(disjunct.body),
         \A unsafe \in ToSet(disjunct.body) : VarSet(unsafe) \subseteq
           UNION {VarSet(lit) : lit \in {l \in ToSet(disjunct.body) : ~HasConstraint(l)}},
         AllShare(ConvertDisjunct(disjunct).body)
  PROVE  UnsafeBound(ConvertDisjunct(disjunct).body)
<1> DEFINE body == ConvertDisjunct(disjunct).body
           n == Len(body)
           free == {l \in ToSet(disjunct.body) : ~HasConstraint(l)}
<1>1. /\ DOMAIN body = 1..n /\ n \in Nat
      /\ ToSet(body) = {ConvertRuleLiteral(lit) : lit \in ToSet(disjunct.body)}
      /\ MixedShare(ToSet(body)) => SafeFirst(body)
  BY BodyConverted
<1>2. ASSUME NEW lit \in free
      PROVE  \E i \in 1..n : ~Unsafe(body[i]) /\ VarSet(body[i]) = VarSet(lit)
  BY FreeInBody
<1>3. \A lit : VarSet(ConvertRuleLiteral(lit)) = VarSet(lit)
  BY DEF VarSet, ConvertRuleLiteral
<1>4. AllShare(body)
  OBVIOUS
<1> HIDE DEF body
<1>5. SafeFirst(body)
  <2>1. MixedShare(ToSet(body))
    BY <1>4 DEF AllShare, MixedShare, ToSet
  <2> QED
    BY <1>1, <2>1
<1>6. SUFFICES ASSUME NEW i \in 1..n, Unsafe(body[i]), NEW v \in VarSet(body[i])
               PROVE  v \in BoundBefore(body, i)
  BY <1>1 DEF UnsafeBound, body
<1>7. PICK unsafe \in ToSet(disjunct.body) : body[i] = ConvertRuleLiteral(unsafe)
  <2>1. body[i] \in ToSet(body)
    BY <1>1 DEF ToSet
  <2> QED
    BY <1>1, <2>1
<1>8. PICK lit \in free : v \in VarSet(lit)
  BY <1>3, <1>6, <1>7
<1>9. PICK j \in 1..n : ~Unsafe(body[j]) /\ VarSet(body[j]) = VarSet(lit)
  BY <1>2
<1>10. j \in 1..i - 1
  <2>1. j < i
    BY <1>1, <1>5, <1>6, <1>9 DEF SafeFirst
  <2> QED
    BY <1>1, <2>1
<1> QED
  BY <1>8, <1>9, <1>10 DEF BoundBefore

\* A rule that the validation let pass is covered when it is converted.
LEMMA ConvertedIsCovered ==
  ASSUME NEW rule, VariablesBound(rule), IsSequence(rule.disjuncts),
         \A d \in ToSet(rule.disjuncts) : IsSequence(d.body)
  PROVE  RuleCovered(ConvertRule(rule))
<1> DEFINE converted == ConvertRule(rule)
           body(d) == ConvertDisjunct(rule.disjuncts[d]).body
<1>1. /\ DOMAIN converted.disjuncts = DOMAIN rule.disjuncts
      /\ VarSet(converted.head) = VarSet(rule.head)
      /\ \A d \in DOMAIN rule.disjuncts : /\ converted.disjuncts[d].body = body(d)
                                          /\ converted.disjuncts[d].functions = rule.disjuncts[d].functions
  BY DEF ConvertRule, ConvertDisjunct, VarSet
<1>2. \A d \in DOMAIN rule.disjuncts : IsSequence(rule.disjuncts[d].body)
  BY DEF ToSet
<1> HIDE DEF converted
<1>3. ASSUME NEW d \in DOMAIN rule.disjuncts, NEW v \in Satisfied(rule, d)
      PROVE  v \in BoundUpTo(converted, d)
  <2>1. PICK lit \in LiteralsUpTo(rule, d) : ~HasConstraint(lit) /\ v \in VarSet(lit)
    BY <1>3 DEF Satisfied
  <2>2. PICK e \in 1..d : lit \in ToSet(rule.disjuncts[e].body)
    BY <2>1 DEF LiteralsUpTo
  <2>3. e \in DOMAIN rule.disjuncts
    BY SequenceDomain
  <2>4. Len(body(e)) \in Nat
    BY <1>2, <2>3, BodyConverted
  <2>5. PICK i \in 1..Len(body(e)) : ~Unsafe(body(e)[i]) /\ VarSet(body(e)[i]) = VarSet(lit)
    BY <1>2, <2>1, <2>2, <2>3, FreeInBody
  <2> DEFINE b == body(e)
  <2>6. converted.disjuncts[e].body = b
    BY <1>1, <2>3
  <2>7. v \in BoundBefore(b, Len(b) + 1)
    <3> HIDE DEF b
    <3>1. i \in 1..(Len(b) + 1) - 1 /\ ~Unsafe(b[i]) /\ v \in VarSet(b[i])
      BY <2>1, <2>4, <2>5 DEF b
    <3> QED
      BY <3>1 DEF BoundBefore
  <2> QED
    BY <2>6, <2>7 DEF BoundUpTo
<1>4. ASSUME 1 \in DOMAIN rule.disjuncts, AllShare(body(1))
      PROVE  UnsafeBound(body(1))
  <2>1. \A lit \in ToSet(rule.disjuncts[1].body) : VarSet(lit) \subseteq Satisfied(rule, 1)
    BY <1>4 DEF VariablesBound
  <2>2. LiteralsUpTo(rule, 1) = ToSet(rule.disjuncts[1].body)
    BY DEF LiteralsUpTo
  <2> QED
    BY <1>2, <1>4, <2>1, <2>2, ConvertedInOrder DEF Satisfied
<1> SUFFICES ASSUME NEW d \in DOMAIN rule.disjuncts
             PROVE  /\ VarSet(converted.head) \subseteq BoundUpTo(converted, d)
                    /\ \A k \in DOMAIN converted.disjuncts[d].functions :
                         ToSet(converted.disjuncts[d].functions[k]) \cap Variables \subseteq BoundUpTo(converted, d)
                    /\ d = 1 /\ AllShare(converted.disjuncts[d].body) => UnsafeBound(converted.disjuncts[d].body)
  BY <1>1, Zenon DEF RuleCovered, converted
<1> HIDE DEF body
<1>5. Satisfied(rule, d) \subseteq BoundUpTo(converted, d)
  BY <1>3
<1>6. /\ VarSet(rule.head) \subseteq Satisfied(rule, d)
      /\ \A k \in DOMAIN rule.disjuncts[d].functions :
           ToSet(rule.disjuncts[d].functions[k]) \cap Variables \subseteq Satisfied(rule, d)
  BY DEF VariablesBound
<1> QED
  BY <1>1, <1>4, <1>5, <1>6
------------------------------------------------------------------------------
(***************************************************************************)
(* A text that the validation let pass fits into the catalog.              *)
(***************************************************************************)

\* The types of a relation that an entry declares once.
LEMMA TypesOfRelation ==
  ASSUME NEW entry, NEW k \in DOMAIN entry.relations,
         \A j \in DOMAIN entry.relations :
           entry.relations[j].name = entry.relations[k].name =>
             entry.relations[j].types = entry.relations[k].types
  PROVE  /\ Promised!Declares(entry, entry.relations[k].name)
         /\ Promised!TypesOf(entry, entry.relations[k].name) = entry.relations[k].types
  BY DEF Promised!Declares, Promised!TypesOf

LEMMA EntryParts ==
  ASSUME NEW t
  PROVE  /\ EntryOf(t).name = t.name
         /\ DOMAIN EntryOf(t).relations = DOMAIN t.relations
         /\ \A k \in DOMAIN t.relations : EntryOf(t).relations[k] = EntryRelation(t, t.relations[k])
         /\ \A k \in DOMAIN t.relations : /\ EntryOf(t).relations[k].name = t.relations[k].name
                                          /\ EntryOf(t).relations[k].types = t.relations[k].types
         /\ DOMAIN EntryOf(t).rules = DOMAIN t.rules
         /\ \A r \in DOMAIN t.rules : EntryOf(t).rules[r] = EntryRule(t, t.rules[r])
  BY DEF EntryOf, EntryRelation

\* What the text declares.
LEMMA OwnInCatalog ==
  ASSUME RelationsDistinct, NEW rel, Defined(rel)
  PROVE  /\ Promised!Declares(EntryOf(text), rel)
         /\ Promised!TypesOf(EntryOf(text), rel) = TypesInText(rel)
<1>1. PICK k \in DOMAIN text.relations : text.relations[k].name = rel
  BY DEF Defined
<1>2. \A j \in DOMAIN text.relations : text.relations[j].name = rel => j = k
  BY <1>1 DEF RelationsDistinct
<1>3. TypesInText(rel) = text.relations[k].types
  BY <1>1, <1>2 DEF TypesInText
<1>4. /\ k \in DOMAIN EntryOf(text).relations
      /\ EntryOf(text).relations[k].name = rel /\ EntryOf(text).relations[k].types = text.relations[k].types
      /\ \A j \in DOMAIN EntryOf(text).relations : EntryOf(text).relations[j].name = rel => j = k
  BY <1>1, <1>2, EntryParts
<1> QED
  BY <1>3, <1>4, TypesOfRelation

\* What a module declares that was added before.
LEMMA OtherInCatalog ==
  ASSUME KBInv, phase = "validating", SymbolsDistinct,
         NEW lit, lit.module # Own, LiteralDefined(lit)
  PROVE  \E i \in DOMAIN Listed :
           /\ Listed[i].name = lit.module
           /\ Promised!Declares(Listed[i], lit.rel)
           /\ Promised!TypesOf(Listed[i], lit.rel) = LiteralTypes(lit)
<1>1. Fit /\ DOMAIN moduleNamePool = DOMAIN modules /\ DOMAIN relSymPool = DOMAIN relations
  BY SequenceDomain DEF KBInv, Sequences, RelationsPaired, Fit, NamesFit
<1>2. Exists(moduleNamePool, lit.module) /\ Exists(relSymPool, Symbol(lit))
  BY DEF LiteralDefined
<1>3. PICK i \in DOMAIN modules : moduleNamePool[i] = lit.module
  BY <1>1, <1>2 DEF Exists
<1>4. QueryId(moduleNamePool, lit.module) = i
  BY <1>1, <1>3, QueryIdOf DEF Fit, NamesFit
<1>5. PICK rel \in DOMAIN relSymPool : relSymPool[rel] = <<i, lit.rel>>
  BY <1>2, <1>4 DEF Symbol, Exists
<1>6. LiteralTypes(lit) = relations[rel].types
  <2>1. QueryId(relSymPool, Symbol(lit)) = rel
    BY <1>4, <1>5, QueryIdOf DEF Symbol, SymbolsDistinct
  <2> QED
    BY <2>1 DEF LiteralTypes
<1>7. PICK k \in DOMAIN modules[i].relationIds : modules[i].relationIds[k] = rel
  <2>1. PICK m \in DOMAIN modules : rel \in ToSet(modules[m].relationIds)
    BY <1>1, <1>5 DEF Fit, RelationsFit
  <2>2. m = i
    BY <1>1, <1>5, <2>1 DEF Fit, ModulesFit
  <2> QED
    BY <2>1, <2>2 DEF ToSet
<1>8. /\ DOMAIN Listed[i].relations = DOMAIN modules[i].relationIds
      /\ \A j \in DOMAIN modules[i].relationIds :
           Listed[i].relations[j] = ListedRelation(modules[i].relationIds[j])
      /\ Listed[i].name = modules[i].name
  BY ListedParts
<1>9. \A j \in DOMAIN modules[i].relationIds :
        ListedRelation(modules[i].relationIds[j]).name = lit.rel => modules[i].relationIds[j] = rel
  <2>1. SUFFICES ASSUME NEW j \in DOMAIN modules[i].relationIds,
                        ListedRelation(modules[i].relationIds[j]).name = lit.rel
                 PROVE  modules[i].relationIds[j] = rel
    OBVIOUS
  <2> DEFINE other == modules[i].relationIds[j]
  <2>2. other \in DOMAIN relSymPool /\ relSymPool[other][1] = i
    BY <1>1 DEF Fit, ModulesFit, ToSet
  <2>3. relSymPool[other][2] = lit.rel
    BY <2>1 DEF ListedRelation, NamesOf
  <2>4. relSymPool[other] = <<relSymPool[other][1], relSymPool[other][2]>>
    BY <2>2 DEF SymbolsDistinct
  <2>5. relSymPool[other] = relSymPool[rel]
    BY <1>5, <2>2, <2>3, <2>4
  <2> QED
    BY <2>2, <2>5 DEF SymbolsDistinct
<1>10. ListedRelation(rel).name = lit.rel /\ ListedRelation(rel).types = relations[rel].types
  BY <1>5 DEF ListedRelation, NamesOf
<1>11. Promised!Declares(Listed[i], lit.rel) /\ Promised!TypesOf(Listed[i], lit.rel) = relations[rel].types
  BY <1>7, <1>8, <1>9, <1>10, TypesOfRelation
<1>12. modules[i].name = lit.module /\ i \in DOMAIN Listed
  BY <1>1, <1>3, ListedParts DEF Fit, ModulesFit
<1> QED
  BY <1>6, <1>8, <1>11, <1>12

\* The entries that a literal may mean have different names, so that its
\* variables have the types that the check has seen.
LEMMA VarTypesInCatalog ==
  ASSUME NEW entry, NEW lit, NEW types,
         NEW m \in Promised!Visible(entry), m.name = lit.rel[1],
         \A v \in Promised!Visible(entry) : v.name = m.name => v = m,
         Promised!TypesOf(m, lit.rel[2]) = types
  PROVE  Promised!VarTypes(entry, lit) = VarTypes(types, lit.terms)
<1>1. {v \in Promised!Visible(entry) : v.name = lit.rel[1]} = {m}
  OBVIOUS
<1>2. Promised!VarTypes(entry, lit) =
        {<<lit.terms[k], Promised!TypesOf(m, lit.rel[2])[k]>> : k \in {j \in DOMAIN lit.terms : lit.terms[j] \in Variables}}
  BY <1>1 DEF Promised!VarTypes
<1> QED
  BY <1>2 DEF VarTypes

LEMMA LiteralsShown ==
  ASSUME NEW rule, IsSequence(rule.disjuncts)
  PROVE  Promised!LiteralsOf(EntryRule(text, rule)) =
           {EntryRule(text, rule).head}
             \cup {EntryLiteral(text, lit) : lit \in LiteralsUpTo(rule, Len(rule.disjuncts))}
<1>1. DOMAIN rule.disjuncts = 1..Len(rule.disjuncts)
  BY SequenceDomain
<1>2. /\ DOMAIN EntryRule(text, rule).bodies = DOMAIN rule.disjuncts
      /\ \A d \in DOMAIN rule.disjuncts : EntryRule(text, rule).bodies[d] =
           {EntryLiteral(text, lit) : lit \in ToSet(rule.disjuncts[d].body)}
  BY DEF EntryRule
<1>3. UNION {EntryRule(text, rule).bodies[d] : d \in DOMAIN rule.disjuncts} =
        {EntryLiteral(text, lit) : lit \in LiteralsUpTo(rule, Len(rule.disjuncts))}
  BY <1>1, <1>2 DEF LiteralsUpTo
<1> QED
  BY <1>2, <1>3 DEF Promised!LiteralsOf

LEMMA EntryFits ==
  ASSUME KBInv, phase = "validating", SymbolsDistinct, TextValid
  PROVE  Promised!WellFormed(EntryOf(text))
<1> DEFINE e == EntryOf(text)
<1>1. text \in Texts /\ Fit
  BY DEF KBInv, Locals
<1>2. /\ DOMAIN Listed = DOMAIN modules /\ DOMAIN moduleNamePool = DOMAIN modules
      /\ \A i \in DOMAIN Listed : Listed[i].name = moduleNamePool[i]
  <2>1. \A i \in DOMAIN Listed : Listed[i].name = modules[i].name
    BY ListedParts
  <2> QED
    BY <1>1, <2>1, SequenceDomain, ListedParts DEF KBInv, Sequences, Fit, NamesFit, ModulesFit
<1>3. \A i \in DOMAIN Listed : Listed[i].name # e.name
  BY <1>2, EntryParts DEF TextValid, Exists
<1>4. /\ Promised!Visible(e) = {e} \cup {Listed[i] : i \in DOMAIN Listed}
      /\ \A v, w \in Promised!Visible(e) : v.name = w.name => v = w
  <2>1. Promised!Visible(e) = {e} \cup {Listed[i] : i \in DOMAIN Listed}
    BY DEF Promised!Visible
  <2>2. \A i, j \in DOMAIN Listed : Listed[i].name = Listed[j].name => i = j
    BY <1>1, <1>2 DEF Fit, NamesFit
  <2> HIDE DEF e
  <2> QED
    BY <1>3, <2>1, <2>2
\* The relation of a literal, and its types.
<1>5. ASSUME NEW rel, Defined(rel)
      PROVE  \E m \in Promised!Visible(e) : /\ m.name = text.name
                                            /\ Promised!Declares(m, rel)
                                            /\ Promised!TypesOf(m, rel) = TypesInText(rel)
  BY <1>4, <1>5, OwnInCatalog, EntryParts DEF TextValid
<1>6. ASSUME NEW lit, LiteralDefined(lit)
      PROVE  \E m \in Promised!Visible(e) : /\ m.name = EntryLiteral(text, lit).rel[1]
                                            /\ Promised!Declares(m, lit.rel)
                                            /\ Promised!TypesOf(m, lit.rel) = LiteralTypes(lit)
  <2>1. CASE lit.module = Own
    <3>1. Defined(lit.rel) /\ LiteralTypes(lit) = TypesInText(lit.rel)
      BY <1>6, <2>1 DEF LiteralDefined, LiteralTypes
    <3>2. EntryLiteral(text, lit).rel[1] = text.name
      BY <2>1 DEF EntryLiteral
    <3> HIDE DEF e
    <3> QED
      BY <1>5, <3>1, <3>2
  <2>2. CASE lit.module # Own
    <3>1. PICK i \in DOMAIN Listed : /\ Listed[i].name = lit.module
                                     /\ Promised!Declares(Listed[i], lit.rel)
                                     /\ Promised!TypesOf(Listed[i], lit.rel) = LiteralTypes(lit)
      BY <1>6, <2>2, OtherInCatalog
    <3>2. EntryLiteral(text, lit).rel[1] = lit.module
      BY <2>2 DEF EntryLiteral
    <3> HIDE DEF e
    <3> QED
      BY <1>4, <3>1, <3>2
  <2> QED
    BY <2>1, <2>2
<1>7. ASSUME NEW r \in DOMAIN text.rules
      PROVE  LET rule == EntryRule(text, text.rules[r])
             IN  /\ rule.head.rel[1] = text.name
                 /\ \A lit \in Promised!LiteralsOf(rule) : Promised!Grounded(e, lit)
                 /\ \A p, q \in UNION {Promised!VarTypes(e, lit) : lit \in Promised!LiteralsOf(rule)} :
                      p[1] = q[1] => p[2] = q[2]
  <2> DEFINE rule == text.rules[r]
             entry == EntryRule(text, rule)
             all == LiteralsUpTo(rule, Len(rule.disjuncts))
  <2>1. RuleValid(rule) /\ IsSequence(rule.disjuncts)
    BY <1>1, TextsAssumption DEF TextValid, ToSet
  <2>2. entry.head.rel[1] = text.name /\ entry.head.rel[2] = rule.head.rel /\ entry.head.terms = rule.head.terms
    BY DEF EntryRule
  <2>3. Promised!LiteralsOf(entry) = {entry.head} \cup {EntryLiteral(text, lit) : lit \in all}
    BY <2>1, LiteralsShown
  <2>4. /\ Promised!Grounded(e, entry.head)
        /\ Promised!VarTypes(e, entry.head) = VarTypes(TypesInText(rule.head.rel), rule.head.terms)
    <3>1. Defined(rule.head.rel) /\ Len(TypesInText(rule.head.rel)) = Len(rule.head.terms)
      BY <2>1 DEF RuleValid, WellTyped
    <3>2. PICK m \in Promised!Visible(e) : /\ m.name = text.name
                                           /\ Promised!Declares(m, rule.head.rel)
                                           /\ Promised!TypesOf(m, rule.head.rel) = TypesInText(rule.head.rel)
      BY <1>5, <3>1
    <3> HIDE DEF e, entry, rule
    <3>3. Promised!Grounded(e, entry.head)
      BY <2>2, <3>1, <3>2 DEF Promised!Grounded
    <3>4. Promised!VarTypes(e, entry.head) = VarTypes(TypesInText(rule.head.rel), entry.head.terms)
      BY <1>4, <2>2, <3>2, VarTypesInCatalog
    <3> QED
      BY <2>2, <3>3, <3>4
  <2>5. ASSUME NEW lit \in all
        PROVE  /\ Promised!Grounded(e, EntryLiteral(text, lit))
               /\ Promised!VarTypes(e, EntryLiteral(text, lit)) = VarTypes(LiteralTypes(lit), lit.terms)
    <3>1. LiteralDefined(lit) /\ Len(LiteralTypes(lit)) = Len(lit.terms)
      BY <2>1 DEF RuleValid, WellTyped
    <3>2. PICK m \in Promised!Visible(e) : /\ m.name = EntryLiteral(text, lit).rel[1]
                                           /\ Promised!Declares(m, lit.rel)
                                           /\ Promised!TypesOf(m, lit.rel) = LiteralTypes(lit)
      BY <1>6, <3>1
    <3>3. EntryLiteral(text, lit).rel[2] = lit.rel /\ EntryLiteral(text, lit).terms = lit.terms
      BY DEF EntryLiteral
    <3> HIDE DEF e
    <3>4. Promised!Grounded(e, EntryLiteral(text, lit))
      BY <3>1, <3>2, <3>3 DEF Promised!Grounded
    <3>5. Promised!VarTypes(e, EntryLiteral(text, lit)) = VarTypes(LiteralTypes(lit), EntryLiteral(text, lit).terms)
      <4>1. \A v \in Promised!Visible(e) : v.name = m.name => v = m
        BY <1>4
      <4>2. Promised!TypesOf(m, EntryLiteral(text, lit).rel[2]) = LiteralTypes(lit)
        BY <3>2, <3>3
      <4> QED
        BY <3>2, <4>1, <4>2, VarTypesInCatalog
    <3> QED
      BY <3>3, <3>4, <3>5
  <2>6. UNION {Promised!VarTypes(e, lit) : lit \in Promised!LiteralsOf(entry)} = TypesMet(rule, Len(rule.disjuncts))
    <3> HIDE DEF e, entry
    <3> QED
      BY <2>3, <2>4, <2>5 DEF TypesMet
  <2>7. \A p, q \in TypesMet(rule, Len(rule.disjuncts)) : p[1] = q[1] => p[2] = q[2]
    BY <2>1 DEF RuleValid
  <2>8. \A lit \in Promised!LiteralsOf(entry) : Promised!Grounded(e, lit)
    <3> HIDE DEF e, entry, all
    <3> QED
      BY <2>3, <2>4, <2>5
  <2> HIDE DEF e
  <2> QED
    BY <2>2, <2>6, <2>7, <2>8
<1>8. \A i, j \in DOMAIN e.relations : e.relations[i].name = e.relations[j].name => i = j
  BY EntryParts DEF TextValid, RelationsDistinct
<1>9. e.name = text.name /\ DOMAIN e.rules = DOMAIN text.rules
      /\ \A r \in DOMAIN text.rules : e.rules[r] = EntryRule(text, text.rules[r])
  BY EntryParts
<1> HIDE DEF e
<1> QED
  BY <1>3, <1>7, <1>8, <1>9 DEF Promised!WellFormed, e
------------------------------------------------------------------------------
(***************************************************************************)
(* The steps.                                                              *)
(***************************************************************************)

LEMMA InitContent == SessionInit => ContentInv
<1> SUFFICES ASSUME SessionInit PROVE ContentInv
  OBVIOUS
<1> USE EmptyIsSequence DEF SessionInit, Init
<1>1. SymbolsDistinct
  BY DEF SymbolsDistinct
<1>2. RulesKnown /\ AllCovered
  BY DEF RulesKnown, AllCovered, RulesCovered, ToSet
<1>3. Translated
  BY DEF Translated
<1>4. AllRead
  BY EmptySeq DEF AllRead
<1> QED
  BY <1>1, <1>2, <1>3, <1>4 DEF ContentInv

\* The knowledge base is as it was.
LEMMA ContentStays ==
  ASSUME ContentInv, UNCHANGED kbVars, todo' \in Seq(Readings)
  PROVE  ContentInv' /\ Listed' = Listed
<1> USE DEF kbVars, pools, locals
<1>1. Listed' = Listed
  BY DEF Listed, ListedRelation, ListedRule, ListedLiteral, NamesOf
<1>2. SymbolsDistinct'
  BY DEF ContentInv, SymbolsDistinct
<1>3. RulesKnown' /\ AllCovered'
  BY DEF ContentInv, RulesKnown, RuleKnown, AllCovered, RulesCovered
<1>4. Translated'
  <2>1. Promised!WellFormed(EntryOf(text))' = Promised!WellFormed(EntryOf(text))
    BY <1>1 DEF Promised!WellFormed, Promised!Grounded, Promised!VarTypes, Promised!Visible
  <2> QED
    BY <2>1 DEF ContentInv, Translated, ListedRule, ListedLiteral, NamesOf, FactsUpto
<1>5. AllRead'
  BY <1>1 DEF ContentInv, AllRead
<1> QED
  BY <1>1, <1>2, <1>3, <1>4, <1>5 DEF ContentInv

\* The pools are as they were, and the call does not convert.
LEMMA PhaseMoves ==
  ASSUME ContentInv, UNCHANGED pools, rules' = rules \/ rules' = << >>, phase' # "converting",
         todo' \in Seq(Readings), phase' = "validating" => text' \in Readings
  PROVE  ContentInv' /\ Listed' = Listed
<1> USE DEF pools
<1>1. Listed' = Listed
  BY DEF Listed, ListedRelation, ListedRule, ListedLiteral, NamesOf
<1>2. SymbolsDistinct' /\ Translated'
  BY DEF ContentInv, SymbolsDistinct, Translated
<1>3. RulesKnown' /\ AllCovered'
  <2>1. ToSet(rules') \subseteq ToSet(rules)
    BY DEF ToSet
  <2> QED
    BY <2>1 DEF ContentInv, RulesKnown, RuleKnown, AllCovered, RulesCovered
<1>4. AllRead'
  BY <1>1 DEF ContentInv, AllRead
<1> QED
  BY <1>1, <1>2, <1>3, <1>4 DEF ContentInv

LEMMA ClearContent ==
  ASSUME KBInv, ContentInv, ProgramClear, UNCHANGED todo
  PROVE  ContentInv' /\ Listed' = << >>
<1> USE EmptyIsSequence DEF ProgramClear, locals
<1>1. rules = << >> /\ phase' = "idle" /\ modules' = << >> /\ relSymPool' = << >> /\ rules' = << >>
  BY DEF KBInv, Locals
<1>2. SymbolsDistinct' /\ Translated'
  BY <1>1 DEF SymbolsDistinct, Translated
<1>3. RulesKnown' /\ AllCovered'
  BY <1>1 DEF RulesKnown, AllCovered, RulesCovered, ToSet
<1>4. Listed' = << >>
  BY <1>1 DEF Listed
<1>5. AllRead'
  BY <1>1 DEF ContentInv, AllRead
<1> QED
  BY <1>2, <1>3, <1>4, <1>5 DEF ContentInv

LEMMA WellFormedStays ==
  ASSUME Listed' = Listed, text' = text, Promised!WellFormed(EntryOf(text))
  PROVE  Promised!WellFormed(EntryOf(text))'
  BY DEF Promised!WellFormed, Promised!Grounded, Promised!VarTypes, Promised!Visible

LEMMA ValidateContent ==
  ASSUME KBInv, ContentInv, Validate, UNCHANGED todo
  PROVE  ContentInv' /\ Listed' = Listed
<1> USE DEF locals, pools
<1>1. CASE (~TextValid /\ Raise) \/ (HeadMisread /\ Abort)
  BY <1>1, PhaseMoves DEF Raise, Abort, ContentInv, AllRead
<1>2. CASE /\ TextValid /\ phase' = "converting" /\ moduleNamePool' = Append(moduleNamePool, text.name)
           /\ UNCHANGED <<relSymPool, relations, modules, text, locals>>
  <2>1. /\ phase = "validating" /\ text \in Texts
        /\ relationIds = << >> /\ rules = << >> /\ factsAdded = 0
    BY DEF KBInv, Locals, Validate
  <2>2. Listed' = Listed
    <3>1. \A i \in DOMAIN moduleNamePool : moduleNamePool'[i] = moduleNamePool[i]
      BY <1>2, AppendIsSequence DEF KBInv, Sequences
    <3> QED
      BY <1>2, <2>1, <3>1, PoolsGrow DEF ContentInv
  <2>3. SymbolsDistinct' /\ RulesKnown' /\ AllCovered'
    BY <1>2 DEF ContentInv, SymbolsDistinct, RulesKnown, RuleKnown, AllCovered, RulesCovered
  <2>4. Translated'
    <3>1. Promised!WellFormed(EntryOf(text))
      BY <1>2, <2>1, EntryFits DEF ContentInv
    <3>2. Promised!WellFormed(EntryOf(text))'
      BY <1>2, <2>2, <3>1, WellFormedStays
    <3>3. \A r \in DOMAIN text.rules : VariablesBound(text.rules[r])
      BY <1>2, <2>1, ValidBinds
    <3> QED
      BY <1>2, <2>1, <3>2, <3>3, EmptyIsSequence DEF Translated
  <2>5. AllRead'
    BY <1>2, <2>1, <2>2 DEF ContentInv, AllRead
  <2> QED
    BY <2>2, <2>3, <2>4, <2>5 DEF ContentInv
<1> QED
  BY <1>1, <1>2 DEF Validate

\* While addModule converts, the catalog and the text are as they were.
LEMMA FitStays ==
  ASSUME ContentInv, phase = "converting", text' = text, Listed' = Listed
  PROVE  /\ Promised!WellFormed(EntryOf(text))'
         /\ \A r \in DOMAIN text'.rules : VariablesBound(text'.rules[r])
<1>1. Promised!WellFormed(EntryOf(text)) /\ \A r \in DOMAIN text.rules : VariablesBound(text.rules[r])
  BY DEF ContentInv, Translated
<1> QED
  BY <1>1, WellFormedStays

LEMMA AddRelationContent ==
  ASSUME KBInv, ContentInv, AddRelation, UNCHANGED todo
  PROVE  ContentInv' /\ Listed' = Listed
<1> DEFINE n == Len(moduleNamePool)
           m == Len(relationIds)
           r == Len(relations)
           def == text.relations[m + 1]
<1>1. /\ phase = "converting" /\ m < Len(text.relations)
      /\ UNCHANGED <<moduleNamePool, modules, phase, text, rules, factsAdded>>
      /\ ~Exists(relSymPool, <<n, def.name>>)
      /\ Len(relSymPool) = r
      /\ DOMAIN relSymPool' = 1..r + 1 /\ DOMAIN relationIds' = 1..m + 1 /\ Len(relationIds') = m + 1
      /\ \A i \in 1..r : relSymPool'[i] = relSymPool[i] /\ relations'[i] = relations[i]
      /\ relSymPool'[r + 1] = <<n, def.name>>
      /\ relations'[r + 1] = [types |-> def.types, edbFacts |-> {}, finalized |-> FALSE]
      /\ \A k \in 1..m : relationIds'[k] = relationIds[k]
      /\ relationIds'[m + 1] = r + 1
  BY RelationAdded
<1>2. /\ m \in Nat /\ DOMAIN relationIds = 1..m
      /\ r \in Nat /\ DOMAIN relations = 1..r /\ DOMAIN relSymPool = 1..r
      /\ Fit /\ Len(text.relations) \in Nat
  BY <1>1, WhileConverting
<1>3. /\ 1..r + 1 = 1..r \cup {r + 1} /\ r + 1 \notin 1..r
      /\ 1..m + 1 = 1..m \cup {m + 1}
  BY <1>2
<1>4. /\ rules = << >> /\ factsAdded = 0
      /\ \A k \in 1..m : /\ relations[relationIds[k]].types = text.relations[k].types
                         /\ relations[relationIds[k]].edbFacts = FactsUpto(0, text.relations[k].name)
                         /\ ~relations[relationIds[k]].finalized
                         /\ relationIds[k] \in 1..r
  BY <1>1, <1>2 DEF ContentInv, Translated, Fit, Converting
<1> HIDE DEF def, n
<1>5. Listed' = Listed
  <2>1. \A rel \in ToSet(relationIds) : ~relations[rel].finalized
    BY <1>2, <1>4 DEF ToSet
  <2>2. \A i \in DOMAIN moduleNamePool : moduleNamePool'[i] = moduleNamePool[i]
    BY <1>1
  <2>3. \A rel \in DOMAIN relations : relations'[rel] = relations[rel]
    BY <1>1, <1>2
  <2>4. \A rel \in DOMAIN relSymPool : relSymPool'[rel] = relSymPool[rel]
    BY <1>1, <1>2
  <2> QED
    BY <1>1, <2>1, <2>2, <2>3, <2>4, PoolsGrow DEF ContentInv
<1>6. SymbolsDistinct'
  <2>1. \A a \in 1..r : relSymPool'[a] = <<relSymPool'[a][1], relSymPool'[a][2]>>
    BY <1>1, <1>2 DEF ContentInv, SymbolsDistinct
  <2>2. \A a, b \in 1..r : relSymPool'[a] = relSymPool'[b] => a = b
    BY <1>1, <1>2 DEF ContentInv, SymbolsDistinct
  <2>3. \A a \in 1..r : relSymPool'[a] # relSymPool'[r + 1]
    BY <1>1, <1>2 DEF Exists
  <2>4. relSymPool'[r + 1] = <<relSymPool'[r + 1][1], relSymPool'[r + 1][2]>>
    BY <1>1
  <2>5. \A a \in 1..r + 1 : a \in 1..r \/ a = r + 1
    BY <1>3
  <2>6. DOMAIN relSymPool' = 1..r + 1
    BY <1>1
  <2> QED
    BY <2>1, <2>2, <2>3, <2>4, <2>5, <2>6, Zenon DEF SymbolsDistinct
<1>7. RulesKnown' /\ AllCovered'
  <2>1. DOMAIN relSymPool \subseteq DOMAIN relSymPool'
    BY <1>1, <1>2, <1>3
  <2> QED
    BY <1>1, <2>1 DEF ContentInv, RulesKnown, RuleKnown, AllCovered, RulesCovered
<1>8. Translated'
  <2>1. /\ Promised!WellFormed(EntryOf(text))'
        /\ \A k \in DOMAIN text'.rules : VariablesBound(text'.rules[k])
    BY <1>1, <1>5, FitStays
  <2>2. ASSUME NEW k \in DOMAIN relationIds'
        PROVE  /\ relations'[relationIds'[k]].types = text.relations[k].types
               /\ relations'[relationIds'[k]].edbFacts = FactsUpto(0, text.relations[k].name)
               /\ ~relations'[relationIds'[k]].finalized
    <3>1. CASE k \in 1..m
      BY <1>1, <1>4, <3>1
    <3>2. CASE k = m + 1
      <4>1. FactsUpto(0, text.relations[k].name) = {}
        BY DEF FactsUpto
      <4>2. relations'[relationIds'[k]] = [types |-> def.types, edbFacts |-> {}, finalized |-> FALSE]
        BY <1>1, <3>2
      <4>3. def = text.relations[k]
        BY <3>2 DEF def
      <4> QED
        BY <4>1, <4>2, <4>3
    <3> QED
      BY <1>1, <1>3, <3>1, <3>2
  <2>3. \A name : FactsUpto(0, name)' = FactsUpto(0, name)
    BY <1>1 DEF FactsUpto
  <2>4. rules' = << >> /\ factsAdded' = 0
    BY <1>1, <1>4
  <2> QED
    BY <1>1, <2>1, <2>2, <2>3, <2>4, EmptyIsSequence DEF Translated
<1>9. AllRead'
  BY <1>1, <1>5 DEF ContentInv, AllRead
<1> QED
  BY <1>5, <1>6, <1>7, <1>8, <1>9 DEF ContentInv

\* The relation that a symbol names.
LEMMA NamesFound ==
  ASSUME NEW module, NEW rel, Exists(moduleNamePool, module),
         Exists(relSymPool, <<QueryId(moduleNamePool, module), rel>>)
  PROVE  LET found == QueryId(relSymPool, <<QueryId(moduleNamePool, module), rel>>)
         IN  found \in DOMAIN relSymPool /\ NamesOf(found) = <<module, rel>>
<1>1. moduleNamePool[QueryId(moduleNamePool, module)] = module
  BY DEF Exists, QueryId
<1> DEFINE symbol == <<QueryId(moduleNamePool, module), rel>>
<1>2. QueryId(relSymPool, symbol) \in DOMAIN relSymPool /\ relSymPool[QueryId(relSymPool, symbol)] = symbol
  BY DEF Exists, QueryId
<1> QED
  BY <1>1, <1>2 DEF NamesOf

\* A rule shows what its text says.
LEMMA RuleListed ==
  ASSUME KBInv, phase = "converting", NEW rule \in ToSet(text.rules), Resolves(rule)
  PROVE  RuleKnown(ConvertRule(rule)) /\ ListedRule(ConvertRule(rule)) = EntryRule(text, rule)
<1> DEFINE converted == ConvertRule(rule)
<1>1. Exists(moduleNamePool, text.name)
  <2>1. LET n == Len(moduleNamePool) IN n > 0 /\ moduleNamePool[n] = text.name
    BY WhileConverting DEF Fit, Converting
  <2>2. Len(moduleNamePool) \in DOMAIN moduleNamePool
    BY <2>1, WhileConverting
  <2> QED
    BY <2>1, <2>2 DEF Exists
<1>2. IsSequence(rule.disjuncts) /\ \A d \in DOMAIN rule.disjuncts : IsSequence(rule.disjuncts[d].body)
  <2>1. text \in Texts
    BY WhileConverting
  <2> QED
    BY <2>1, TextsAssumption DEF ToSet
<1>3. DOMAIN rule.disjuncts = 1..Len(rule.disjuncts)
  BY <1>2, SequenceDomain
<1>4. /\ converted.head.rel \in DOMAIN relSymPool
      /\ ListedLiteral(converted.head) = [rel |-> <<text.name, rule.head.rel>>, terms |-> rule.head.terms]
  <2>1. /\ converted.head.rel = QueryId(relSymPool, <<QueryId(moduleNamePool, text.name), rule.head.rel>>)
        /\ converted.head.terms = rule.head.terms
    BY DEF ConvertRule
  <2> HIDE DEF converted
  <2>2. /\ converted.head.rel \in DOMAIN relSymPool
        /\ NamesOf(converted.head.rel) = <<text.name, rule.head.rel>>
    BY <1>1, <2>1, NamesFound DEF Resolves
  <2> QED
    BY <2>1, <2>2 DEF ListedLiteral
<1>5. ASSUME NEW lit \in LiteralsUpTo(rule, Len(rule.disjuncts))
      PROVE  /\ ConvertRuleLiteral(lit).rel \in DOMAIN relSymPool
             /\ ListedLiteral(ConvertRuleLiteral(lit)) = EntryLiteral(text, lit)
  <2> DEFINE module == IF lit.module = Own THEN text.name ELSE lit.module
  <2>1. Exists(moduleNamePool, module) /\ Exists(relSymPool, Symbol(lit))
    BY <1>1 DEF Resolves
  <2>2. Symbol(lit) = <<QueryId(moduleNamePool, module), lit.rel>>
    BY DEF Symbol
  <2>3. EntryLiteral(text, lit) = [rel |-> <<module, lit.rel>>, terms |-> lit.terms]
    BY DEF EntryLiteral
  <2>4. /\ ConvertRuleLiteral(lit).rel = QueryId(relSymPool, Symbol(lit))
        /\ ConvertRuleLiteral(lit).terms = lit.terms
    BY DEF ConvertRuleLiteral
  <2> HIDE DEF module
  <2>5. /\ ConvertRuleLiteral(lit).rel \in DOMAIN relSymPool
        /\ NamesOf(ConvertRuleLiteral(lit).rel) = <<module, lit.rel>>
    BY <2>1, <2>2, <2>4, NamesFound
  <2> QED
    BY <2>3, <2>4, <2>5 DEF ListedLiteral
<1>6. /\ DOMAIN converted.disjuncts = DOMAIN rule.disjuncts
      /\ \A d \in DOMAIN rule.disjuncts : converted.disjuncts[d] = ConvertDisjunct(rule.disjuncts[d])
  BY DEF ConvertRule
<1>7. ASSUME NEW d \in DOMAIN rule.disjuncts
      PROVE  /\ \A lit \in ToSet(converted.disjuncts[d].body) : lit.rel \in DOMAIN relSymPool
             /\ {ListedLiteral(lit) : lit \in ToSet(converted.disjuncts[d].body)} =
                  {EntryLiteral(text, lit) : lit \in ToSet(rule.disjuncts[d].body)}
  <2>1. ToSet(converted.disjuncts[d].body) = {ConvertRuleLiteral(lit) : lit \in ToSet(rule.disjuncts[d].body)}
    BY <1>2, <1>6, BodyConverted
  <2>2. ToSet(rule.disjuncts[d].body) \subseteq LiteralsUpTo(rule, Len(rule.disjuncts))
    BY <1>3 DEF LiteralsUpTo
  <2> HIDE DEF converted
  <2> QED
    BY <1>5, <2>1, <2>2
<1> HIDE DEF converted
<1>8. RuleKnown(converted)
  BY <1>4, <1>6, <1>7 DEF RuleKnown
<1>9. ListedRule(converted) = EntryRule(text, rule)
  BY <1>4, <1>6, <1>7 DEF ListedRule, EntryRule
<1> QED
  BY <1>8, <1>9 DEF converted

LEMMA AddRuleContent ==
  ASSUME KBInv, ContentInv, AddRule, UNCHANGED todo
  PROVE  ContentInv' /\ Listed' = Listed
<1> DEFINE n == Len(rules)
           rule == text.rules[n + 1]
<1> USE DEF pools, locals
<1>1. /\ phase = "converting" /\ Len(relationIds) = Len(text.relations)
      /\ n < Len(text.rules)
  BY DEF AddRule
<1>2. CASE Raise \/ Abort
  BY <1>2, PhaseMoves DEF Raise, Abort, ContentInv, AllRead
<1>3. CASE /\ rules' = Append(rules, ConvertRule(rule))
           /\ UNCHANGED <<pools, phase, text, relationIds, factsAdded>>
  <2>1. /\ n \in Nat /\ DOMAIN rules = 1..n /\ DOMAIN rules' = 1..n + 1
        /\ \A k \in 1..n : rules'[k] = rules[k]
        /\ rules'[n + 1] = ConvertRule(rule)
    BY <1>3, AppendIsSequence DEF KBInv, Sequences
  <2>2. n + 1 \in DOMAIN text.rules /\ text \in Texts /\ Len(relationIds) \in Nat
    BY <1>1, <2>1, WhileConverting
  <2>3. rule \in ToSet(text.rules)
    BY <2>2 DEF ToSet
  <2>4. Resolves(rule)
    BY <1>1, <2>2, RuleResolves
  <2> HIDE DEF rule
  <2>5. RuleKnown(ConvertRule(rule)) /\ ListedRule(ConvertRule(rule)) = EntryRule(text, rule)
    BY <1>1, <2>3, <2>4, RuleListed
  <2>6. RuleCovered(ConvertRule(rule))
    <3>1. VariablesBound(rule)
      BY <1>1, <2>2 DEF ContentInv, Translated, rule
    <3>2. IsSequence(rule.disjuncts) /\ \A d \in ToSet(rule.disjuncts) : IsSequence(d.body)
      BY <2>2, <2>3, TextsAssumption
    <3> QED
      BY <3>1, <3>2, ConvertedIsCovered
  <2>7. ToSet(rules') = ToSet(rules) \cup {ConvertRule(rule)}
    <3>1. 1..n + 1 = 1..n \cup {n + 1}
      BY <2>1
    <3>2. ToSet(rules) = {rules[k] : k \in 1..n} /\ ToSet(rules') = {rules'[k] : k \in 1..n + 1}
      BY <2>1 DEF ToSet
    <3> QED
      BY <2>1, <3>1, <3>2
  <2>8. Listed' = Listed
    BY <1>3 DEF Listed, ListedRelation, ListedRule, ListedLiteral, NamesOf
  <2>9. SymbolsDistinct'
    BY <1>3 DEF ContentInv, SymbolsDistinct
  <2>10. RulesKnown' /\ AllCovered'
    BY <1>3, <2>5, <2>6, <2>7 DEF ContentInv, RulesKnown, RuleKnown, AllCovered, RulesCovered
  <2>11. Translated'
    <3>1. /\ Promised!WellFormed(EntryOf(text))'
          /\ \A k \in DOMAIN text'.rules : VariablesBound(text'.rules[k])
      BY <1>1, <1>3, <2>8, FitStays
    <3>2. ASSUME NEW k \in DOMAIN rules'
          PROVE  ListedRule(rules'[k]) = EntryRule(text, text.rules[k])
      <4>1. CASE k \in 1..n
        BY <1>1, <2>1, <4>1 DEF ContentInv, Translated
      <4>2. CASE k = n + 1
        BY <2>1, <2>5, <4>2 DEF rule
      <4> QED
        BY <2>1, <4>1, <4>2
    <3>3. \A x : ListedRule(x)' = ListedRule(x)
      BY <1>3 DEF ListedRule, ListedLiteral, NamesOf
    <3>4. \A f, name : FactsUpto(f, name)' = FactsUpto(f, name)
      BY <1>3 DEF FactsUpto
    <3>5. \A x : EntryRule(text, x)' = EntryRule(text, x)
      BY <1>3 DEF EntryRule, EntryLiteral
    <3>6. ~(Len(relationIds') < Len(text'.relations))
      BY <1>1, <1>3, <2>2
    <3>7. \A k \in DOMAIN relationIds' :
            /\ relations'[relationIds'[k]].types = text'.relations[k].types
            /\ relations'[relationIds'[k]].edbFacts = FactsUpto(factsAdded, text.relations[k].name)'
            /\ ~relations'[relationIds'[k]].finalized
      BY <1>1, <1>3, <3>4 DEF ContentInv, Translated
    <3>8. \A k \in DOMAIN rules' : ListedRule(rules[k])' = EntryRule(text, text.rules[k])'
      BY <1>3, <3>2, <3>3, <3>5
    <3> QED
      BY <3>1, <3>6, <3>7, <3>8 DEF Translated
  <2>12. AllRead'
    BY <1>3, <2>8 DEF ContentInv, AllRead
  <2> QED
    BY <2>8, <2>9, <2>10, <2>11, <2>12 DEF ContentInv
<1> QED
  BY <1>2, <1>3 DEF AddRule

\* The relation that a fact of the text is added to is one of the text's, and
\* the only one of its name.
LEMMA FactPlace ==
  ASSUME KBInv, SymbolsDistinct, AddFact
  PROVE  LET fact == text.facts[factsAdded + 1]
             r == QueryId(relSymPool, <<QueryId(moduleNamePool, text.name), fact.rel>>)
         IN  \E k \in DOMAIN relationIds :
               /\ relationIds[k] = r /\ text.relations[k].name = fact.rel
               /\ \A j \in DOMAIN relationIds :
                    j # k => relationIds[j] # r /\ text.relations[j].name # fact.rel
<1> DEFINE n == Len(moduleNamePool)
           fact == text.facts[factsAdded + 1]
           r == QueryId(relSymPool, <<QueryId(moduleNamePool, text.name), fact.rel>>)
<1>1. phase = "converting" /\ Len(relationIds) = Len(text.relations)
  BY DEF AddFact
<1>2. /\ QueryId(moduleNamePool, text.name) = n /\ Validated /\ Fit
      /\ DOMAIN relationIds = DOMAIN text.relations
  BY <1>1, WhileConverting
<1>3. r \in DOMAIN relSymPool /\ relSymPool[r] = <<n, fact.rel>>
  <2>1. Exists(relSymPool, <<QueryId(moduleNamePool, text.name), fact.rel>>)
    BY FactAdded
  <2> QED
    BY <1>2, <2>1 DEF Exists, QueryId
<1> HIDE DEF n, fact, r
<1>4. \A k \in DOMAIN relationIds : /\ relationIds[k] \in DOMAIN relSymPool
                                    /\ relSymPool[relationIds[k]] = <<n, text.relations[k].name>>
  BY <1>1, <1>2 DEF Fit, Converting, n
<1>5. PICK k \in DOMAIN relationIds : relSymPool[r] = <<n, text.relations[k].name>>
  <2>1. relSymPool[r][1] = n
    BY <1>3
  <2> QED
    BY <1>1, <1>2, <1>3, <2>1 DEF Fit, Converting, n
<1>6. text.relations[k].name = fact.rel /\ relationIds[k] = r
  BY <1>3, <1>4, <1>5 DEF SymbolsDistinct
<1>7. ASSUME NEW j \in DOMAIN relationIds, j # k
      PROVE  relationIds[j] # r /\ text.relations[j].name # fact.rel
  <2>1. text.relations[j].name # text.relations[k].name
    BY <1>2, <1>7 DEF Validated, RelationsDistinct
  <2>2. relSymPool[relationIds[j]] # relSymPool[r]
    BY <1>4, <1>5, <2>1
  <2> QED
    BY <1>6, <2>1, <2>2
<1> QED
  BY <1>6, <1>7 DEF fact, r

LEMMA AddFactContent ==
  ASSUME KBInv, ContentInv, AddFact, UNCHANGED todo
  PROVE  ContentInv' /\ Listed' = Listed
<1> DEFINE fact == text.facts[factsAdded + 1]
           r == QueryId(relSymPool, <<QueryId(moduleNamePool, text.name), fact.rel>>)
           edbFacts == IF relations[r].finalized THEN relations[r].edbFacts
                       ELSE relations[r].edbFacts \cup {fact.terms}
<1>1. /\ phase = "converting" /\ Len(relationIds) = Len(text.relations)
  BY DEF AddFact
<1>2. /\ factsAdded \in Nat /\ r \in DOMAIN relations
      /\ relations' = [relations EXCEPT ![r] = [@ EXCEPT !.edbFacts = edbFacts]]
      /\ factsAdded' = factsAdded + 1
      /\ UNCHANGED <<moduleNamePool, relSymPool, modules, phase, text, relationIds, rules>>
  BY FactAdded
<1>3. PICK k \in DOMAIN relationIds :
        /\ relationIds[k] = r /\ text.relations[k].name = fact.rel
        /\ \A j \in DOMAIN relationIds :
             j # k => relationIds[j] # r /\ text.relations[j].name # fact.rel
  BY FactPlace DEF ContentInv
<1>4. \A j \in DOMAIN relationIds :
        /\ relations[relationIds[j]].types = text.relations[j].types
        /\ relations[relationIds[j]].edbFacts = FactsUpto(factsAdded, text.relations[j].name)
        /\ ~relations[relationIds[j]].finalized
  BY <1>1 DEF ContentInv, Translated
<1>5. /\ relations[r] = [types |-> relations[r].types, edbFacts |-> relations[r].edbFacts,
                         finalized |-> relations[r].finalized]
      /\ ~relations[r].finalized
  <2>1. RelationsFit
    BY <1>1, WhileConverting DEF Fit
  <2> HIDE DEF r, edbFacts, fact
  <2> QED
    BY <1>2, <1>3, <1>4, <2>1 DEF RelationsFit
<1>6. /\ relations'[r] = [types |-> relations[r].types,
                          edbFacts |-> relations[r].edbFacts \cup {fact.terms},
                          finalized |-> relations[r].finalized]
      /\ \A rel \in DOMAIN relations : rel # r => relations'[rel] = relations[rel]
  <2>1. edbFacts = relations[r].edbFacts \cup {fact.terms}
    BY <1>5
  <2>2. relations'[r] = [relations[r] EXCEPT !.edbFacts = edbFacts]
    BY <1>2
  <2>3. \A rel \in DOMAIN relations : rel # r => relations'[rel] = relations[rel]
    BY <1>2
  <2> HIDE DEF edbFacts, r, fact
  <2> QED
    BY <1>5, <2>1, <2>2, <2>3
<1> HIDE DEF edbFacts, r, fact
<1>7. Listed' = Listed
  <2>1. \A rel \in ToSet(relationIds) : ~relations[rel].finalized
    BY <1>4 DEF ToSet
  <2>2. \A rel \in DOMAIN relations : relations[rel].finalized =>
          relations'[rel].types = relations[rel].types /\ relations'[rel].edbFacts = relations[rel].edbFacts
    BY <1>5, <1>6
  <2> QED
    BY <1>1, <1>2, <2>1, <2>2, PoolsGrow DEF ContentInv
<1>8. SymbolsDistinct' /\ RulesKnown' /\ AllCovered'
  BY <1>2 DEF ContentInv, SymbolsDistinct, RulesKnown, RuleKnown, AllCovered, RulesCovered
<1>9. Translated'
  <2>1. /\ Promised!WellFormed(EntryOf(text))'
        /\ \A j \in DOMAIN text'.rules : VariablesBound(text'.rules[j])
    BY <1>1, <1>2, <1>7, FitStays
  <2>2. /\ FactsUpto(factsAdded + 1, fact.rel) = FactsUpto(factsAdded, fact.rel) \cup {fact.terms}
        /\ \A name : name # fact.rel => FactsUpto(factsAdded + 1, name) = FactsUpto(factsAdded, name)
    <3>1. 1..factsAdded + 1 = 1..factsAdded \cup {factsAdded + 1}
      BY <1>2
    <3>2. text.facts[factsAdded + 1] = fact
      BY DEF fact
    <3> QED
      BY <3>1, <3>2 DEF FactsUpto
  <2>3. ASSUME NEW j \in DOMAIN relationIds
        PROVE  /\ relations'[relationIds[j]].types = text.relations[j].types
               /\ relations'[relationIds[j]].edbFacts = FactsUpto(factsAdded + 1, text.relations[j].name)
               /\ ~relations'[relationIds[j]].finalized
    <3>1. CASE j = k
      <4>1. relationIds[j] = r /\ text.relations[j].name = fact.rel
        BY <1>3, <3>1
      <4>2. /\ relations[r].types = text.relations[j].types
            /\ relations[r].edbFacts = FactsUpto(factsAdded, fact.rel)
        BY <1>4, <4>1
      <4>3. /\ relations'[r].types = relations[r].types /\ ~relations'[r].finalized
            /\ relations'[r].edbFacts = relations[r].edbFacts \cup {fact.terms}
        BY <1>5, <1>6
      <4> QED
        BY <2>2, <4>1, <4>2, <4>3
    <3>2. CASE j # k
      <4>1. relationIds[j] \in DOMAIN relations
        BY <1>1, WhileConverting DEF Fit, Converting
      <4>2. relations'[relationIds[j]] = relations[relationIds[j]]
        BY <1>3, <1>6, <3>2, <4>1
      <4> QED
        BY <1>3, <1>4, <2>2, <3>2, <4>2
    <3> QED
      BY <3>1, <3>2
  <2>4. \A f, name : FactsUpto(f, name)' = FactsUpto(f', name)
    BY <1>2 DEF FactsUpto
  <2>5. \A j \in DOMAIN rules : ListedRule(rules[j])' = EntryRule(text, text.rules[j])'
    <3>1. \A x : ListedRule(x)' = ListedRule(x)
      BY <1>2 DEF ListedRule, ListedLiteral, NamesOf
    <3>2. \A j \in DOMAIN rules : ListedRule(rules[j]) = EntryRule(text, text.rules[j])
      BY <1>1 DEF ContentInv, Translated
    <3> QED
      BY <1>2, <3>1, <3>2
  <2>6. ~(Len(relationIds') < Len(text'.relations))
    BY <1>1, <1>2, WhileConverting
  <2>7. \A j \in DOMAIN relationIds' :
          /\ relations'[relationIds'[j]].types = text'.relations[j].types
          /\ relations'[relationIds'[j]].edbFacts = FactsUpto(factsAdded, text.relations[j].name)'
          /\ ~relations'[relationIds'[j]].finalized
    <3>1. \A name : FactsUpto(factsAdded, name)' = FactsUpto(factsAdded + 1, name)
      BY <1>2 DEF FactsUpto
    <3> QED
      BY <1>2, <2>3, <3>1
  <2> QED
    BY <1>2, <2>1, <2>5, <2>6, <2>7 DEF Translated
<1>10. AllRead'
  BY <1>2, <1>7 DEF ContentInv, AllRead
<1> QED
  BY <1>7, <1>8, <1>9, <1>10 DEF ContentInv

\* The module that is finished is the entry of its text, behind the others.
LEMMA FinishModuleContent ==
  ASSUME KBInv, ContentInv, FinishModule, UNCHANGED todo
  PROVE  ContentInv' /\ text \in Readings /\ Promised!Add(EntryOf(text))
<1>0. PICK n : n = Len(moduleNamePool)
  OBVIOUS
<1>1. /\ phase = "converting" /\ Len(relationIds) = Len(text.relations)
      /\ Len(rules) = Len(text.rules) /\ factsAdded = Len(text.facts)
  BY DEF FinishModule
<1>2. /\ Fit /\ n \in Nat /\ n = Len(modules) + 1 /\ DOMAIN modules = 1..n - 1
      /\ QueryId(moduleNamePool, text.name) = n
      /\ DOMAIN relationIds = DOMAIN text.relations
      /\ DOMAIN text.facts = 1..Len(text.facts) /\ DOMAIN text.rules = 1..Len(text.rules)
      /\ DOMAIN relSymPool = DOMAIN relations
  BY <1>1, <1>0, WhileConverting
<1>3. /\ relations' = [i \in DOMAIN relations |->
                          IF i \in ToSet(relationIds) THEN [relations[i] EXCEPT !.finalized = TRUE]
                          ELSE relations[i]]
      /\ modules' = Append(modules, [name |-> text.name, id |-> n, rules |-> rules,
                                    relationIds |-> relationIds])
      /\ phase' = "idle" /\ rules' = << >>
      /\ UNCHANGED <<moduleNamePool, relSymPool>>
  BY <1>2, <1>0 DEF FinishModule
<1>4. /\ DOMAIN modules' = 1..n /\ n \in 1..n /\ 1..n = 1..n - 1 \cup {n}
      /\ modules'[n].name = text.name /\ modules'[n].rules = rules /\ modules'[n].relationIds = relationIds
      /\ \A i \in 1..n - 1 : modules'[i] = modules[i]
  BY <1>2, <1>3, AppendIsSequence DEF KBInv, Sequences
<1>5. /\ \A rel \in DOMAIN relations : /\ relations'[rel].types = relations[rel].types
                                       /\ relations'[rel].edbFacts = relations[rel].edbFacts
      /\ \A rel : NamesOf(rel)' = NamesOf(rel)
  <2>1. ASSUME NEW rel \in DOMAIN relations
        PROVE  relations'[rel].types = relations[rel].types /\ relations'[rel].edbFacts = relations[rel].edbFacts
    <3>1. relations[rel] = [types |-> relations[rel].types, edbFacts |-> relations[rel].edbFacts,
                            finalized |-> relations[rel].finalized]
      BY <1>2 DEF Fit, RelationsFit
    <3>2. relations'[rel] = IF rel \in ToSet(relationIds) THEN [relations[rel] EXCEPT !.finalized = TRUE]
                            ELSE relations[rel]
      BY <1>3
    <3> QED
      BY <3>1, <3>2
  <2>2. \A rel : NamesOf(rel)' = NamesOf(rel)
    BY <1>3 DEF NamesOf
  <2> QED
    BY <2>1, <2>2
<1>6. \A i \in 1..n - 1 : Listed'[i] = Listed[i]
  <2>1. SUFFICES ASSUME NEW i \in DOMAIN modules PROVE Listed'[i] = Listed[i]
    BY <1>2
  <2>2. i \in DOMAIN modules' /\ modules'[i] = modules[i]
    BY <1>2, <1>4
  <2>3. \A rel \in ToSet(modules[i].relationIds) : rel \in DOMAIN relations
    BY <1>2 DEF Fit, ModulesFit
  <2> QED
    BY <1>2, <1>5, <2>2, <2>3, EntryStays DEF ContentInv
<1>7. Listed'[n] = EntryOf(text)
  <2>1. ASSUME NEW k \in DOMAIN relationIds
        PROVE  ListedRelation(modules[n].relationIds[k])' = EntryRelation(text, text.relations[k])
    <3>1. PICK rel : rel = relationIds[k]
      OBVIOUS
    <3>2. modules'[n].relationIds[k] = rel
      BY <1>4, <3>1
    <3>3. rel \in DOMAIN relations /\ relSymPool[rel] = <<n, text.relations[k].name>>
      BY <1>0, <1>1, <1>2, <3>1 DEF Fit, Converting
    <3>4. NamesOf(modules[n].relationIds[k])'[2] = text.relations[k].name
      <4>1. relSymPool'[modules'[n].relationIds[k]] = <<n, text.relations[k].name>>
        BY <1>3, <3>2, <3>3
      <4>2. NamesOf(modules[n].relationIds[k])'[2] = relSymPool'[modules'[n].relationIds[k]][2]
        BY DEF NamesOf
      <4> QED
        BY <4>1, <4>2
    <3>5. /\ relations'[rel].types = text.relations[k].types
          /\ relations'[rel].edbFacts = FactsUpto(Len(text.facts), text.relations[k].name)
      BY <1>1, <1>5, <3>1, <3>3 DEF ContentInv, Translated
    <3>6. FactsUpto(Len(text.facts), text.relations[k].name) =
            {f.terms : f \in {g \in ToSet(text.facts) : g.rel = text.relations[k].name}}
      BY <1>2 DEF FactsUpto, ToSet
    <3>7. ListedRelation(modules[n].relationIds[k])' =
            [name |-> NamesOf(modules[n].relationIds[k])'[2],
             types |-> relations'[rel].types, facts |-> relations'[rel].edbFacts]
      BY <3>2 DEF ListedRelation
    <3> QED
      BY <3>4, <3>5, <3>6, <3>7 DEF EntryRelation
  <2>2. DOMAIN rules = DOMAIN text.rules
    BY <1>1, <1>2, SequenceDomain DEF KBInv, Sequences
  <2>3. ASSUME NEW k \in DOMAIN rules
        PROVE  ListedRule(modules[n].rules[k])' = EntryRule(text, text.rules[k])
    <3>1. PICK rule : rule = rules[k]
      OBVIOUS
    <3>2. modules'[n].rules[k] = rule
      BY <1>4, <3>1
    <3>3. RuleKnown(rule)
      BY <3>1 DEF ContentInv, RulesKnown, ToSet
    <3>4. ListedRule(rule)' = ListedRule(rule)
      BY <1>5, <3>3, RuleStays
    <3>5. ListedRule(rule) = EntryRule(text, text.rules[k])
      BY <1>1, <3>1 DEF ContentInv, Translated
    <3> QED
      BY <3>2, <3>4, <3>5 DEF ListedRule, ListedLiteral
  <2>4. Listed'[n] =
          [name |-> modules'[n].name,
           relations |-> [k \in DOMAIN modules'[n].relationIds |-> ListedRelation(modules[n].relationIds[k])'],
           rules |-> [k \in DOMAIN modules'[n].rules |-> ListedRule(modules[n].rules[k])']]
    BY <1>4 DEF Listed
  <2> QED
    BY <1>2, <1>4, <2>1, <2>2, <2>3, <2>4 DEF EntryOf
<1>8. Listed' = Append(Listed, EntryOf(text))
  <2>1. DOMAIN Listed = 1..n - 1 /\ DOMAIN Listed' = 1..n
    BY <1>2, <1>4 DEF Listed
  <2>2. Len(Listed) = n - 1
    <3>1. n - 1 \in Nat
      BY <1>2, SequenceDomain DEF KBInv, Sequences
    <3> QED
      BY <2>1, <3>1
  <2>3. IsSequence(Listed)
    <3>1. n - 1 \in Nat
      BY <1>2, SequenceDomain DEF KBInv, Sequences
    <3>2. Listed \in [1..n - 1 -> ToSet(Listed)]
      BY <2>1 DEF Listed, ToSet
    <3> QED
      BY <3>1, <3>2 DEF IsSequence
  <2>4. \A i \in 1..n : Append(Listed, EntryOf(text))[i] = Listed'[i]
    <3>1. \A i \in 1..n : i = n \/ i \in 1..n - 1
      BY <1>4
    <3>2. (n - 1) + 1 = n
      BY <1>2
    <3>3. /\ \A i \in 1..n - 1 : Append(Listed, EntryOf(text))[i] = Listed[i]
          /\ Append(Listed, EntryOf(text))[n] = EntryOf(text)
      BY <2>2, <2>3, <3>2, AppendIsSequence
    <3> QED
      BY <1>6, <1>7, <3>1, <3>3
  <2>5. Append(Listed, EntryOf(text)) = [i \in 1..n |-> Append(Listed, EntryOf(text))[i]]
    <3>1. IsSequence(Append(Listed, EntryOf(text))) /\ Len(Append(Listed, EntryOf(text))) = n
      BY <1>2, <2>2, <2>3, AppendIsSequence
    <3>2. Append(Listed, EntryOf(text)) \in [1..n -> ToSet(Append(Listed, EntryOf(text)))]
      BY <3>1, LenProperties DEF IsSequence
    <3> QED
      BY <3>2, Zenon
  <2>6. Listed' = [i \in 1..n |-> Listed'[i]]
    BY <2>1 DEF Listed
  <2> QED
    BY <2>4, <2>5, <2>6
<1>9. text \in Readings /\ Promised!WellFormed(EntryOf(text))
  BY <1>1 DEF ContentInv, AllRead, Translated
<1>10. SymbolsDistinct' /\ Translated'
  BY <1>3 DEF ContentInv, SymbolsDistinct, Translated
<1>11. RulesKnown' /\ AllCovered'
  <2>1. \A i \in DOMAIN modules' : \A rule \in ToSet(modules'[i].rules) :
          rule \in ToSet(rules) \/ \E j \in DOMAIN modules : rule \in ToSet(modules[j].rules)
    <3>1. SUFFICES ASSUME NEW i \in 1..n
                   PROVE  modules'[i].rules = rules \/ (i \in DOMAIN modules /\ modules'[i] = modules[i])
      BY <1>4
    <3> QED
      BY <1>2, <1>4
  <2>2. ToSet(rules') = {}
    BY <1>3 DEF ToSet
  <2> QED
    BY <1>3, <2>1, <2>2 DEF ContentInv, RulesKnown, RuleKnown, AllCovered, RulesCovered
<1>12. AllRead'
  <2>1. \A i \in DOMAIN modules' : \E t \in Readings : Listed'[i] = EntryOf(t)
    BY <1>2, <1>4, <1>6, <1>7, <1>9 DEF ContentInv, AllRead
  <2> QED
    BY <1>3, <2>1 DEF ContentInv, AllRead
<1> QED
  BY <1>8, <1>9, <1>10, <1>11, <1>12 DEF ContentInv, Promised!Add
------------------------------------------------------------------------------
(***************************************************************************)
(* The caller.                                                             *)
(***************************************************************************)

\* What is read are the texts of a file that the parser accepted.
LEMMA ReadContent ==
  ASSUME IInv, ReadFile
  PROVE  todo' \in Seq(Readings)
<1>1. Head(files) \in Files /\ ~ParseFails(Head(files)) /\ todo' = Parse(Head(files))
  BY HeadTailProperties DEF IInv, CallerInv, ReadFile, Reading
<1> DEFINE texts == Parse(Head(files))
<1>2. texts \in Seq(Texts) /\ ToSet(texts) \subseteq Readings
  BY <1>1, FilesHaveTexts DEF Readings
<1> HIDE DEF texts
<1>3. Len(texts) \in Nat /\ texts \in [1..Len(texts) -> Readings]
  BY <1>2, LenProperties DEF ToSet
<1> QED
  BY <1>1, <1>3 DEF texts

\* A step of the session is one of the catalog or leaves it alone.
LEMMA ContentStep ==
  ASSUME IInv, ContentInv, [SessionNext]_vars
  PROVE  ContentInv' /\ [Promised!Next]_Listed
<1>1. KBInv /\ todo \in Seq(Readings)
  BY DEF IInv, ContentInv, AllRead
<1>2. CASE ReadFile
  <2>1. UNCHANGED kbVars /\ todo' \in Seq(Readings)
    BY <1>2, ReadContent DEF ReadFile
  <2> QED
    BY <2>1, ContentStays
<1>3. CASE AddNext
  <2>1. Head(todo) \in Readings /\ Tail(todo) \in Seq(Readings)
    BY <1>1, <1>3, HeadTailProperties DEF AddNext
  <2>2. /\ UNCHANGED pools /\ rules' = rules /\ phase' = "validating" /\ text' = Head(todo)
        /\ todo' = Tail(todo)
    BY <1>3 DEF AddNext, StartAddModule, locals
  <2> QED
    BY <2>1, <2>2, PhaseMoves
<1>4. CASE AddStep
  <2>1. UNCHANGED todo
    BY <1>4 DEF AddStep, callerVars
  <2>2. CASE Validate \/ AddRelation \/ AddRule \/ AddFact
    BY <1>1, <2>1, <2>2, ValidateContent, AddRelationContent, AddRuleContent, AddFactContent
  <2>3. CASE FinishModule
    <3>1. ContentInv' /\ text \in Readings /\ Promised!Add(EntryOf(text))
      BY <1>1, <2>1, <2>3, FinishModuleContent
    <3>2. text \in Texts
      BY <1>1, <2>3 DEF FinishModule, KBInv, Locals
    <3> QED
      BY <3>1, <3>2 DEF Promised!Next
  <2> QED
    BY <1>4, <2>2, <2>3 DEF AddStep, AddModuleStep
<1>5. CASE CatchImport
  <2>1. UNCHANGED pools /\ rules' = << >> /\ phase' = "idle" /\ todo' \in Seq(Readings)
    BY <1>5, EmptySeq DEF CatchImport, Catch
  <2> QED
    BY <2>1, PhaseMoves
<1>6. CASE ClearProgram
  <2>1. ContentInv' /\ Listed' = << >>
    BY <1>1, <1>6, ClearContent DEF ClearProgram
  <2> QED
    BY <2>1 DEF Promised!Next, Promised!Clear
<1>7. CASE Loaded \/ CatchParse \/ FailImport \/ FailParse \/ Evaluate \/ FailEvaluate \/ CatchEvaluate
             \/ EndClient \/ (\E file \in Files : Import(file)) \/ UNCHANGED vars
  <2>1. UNCHANGED kbVars /\ todo' = todo
    BY <1>7 DEF Loaded, CatchParse, FailImport, FailParse, Evaluate, FailEvaluate, CatchEvaluate, EndClient,
                Import, Exit, vars, callerVars
  <2> QED
    BY <1>1, <2>1, ContentStays
<1> QED
  BY <1>2, <1>3, <1>4, <1>5, <1>6, <1>7 DEF SessionNext, Running

LEMMA ContentInductive == Spec => [](IInv /\ ContentInv)
<1>1. IInv /\ IInv' /\ ContentInv /\ [SessionNext]_vars => (IInv /\ ContentInv)'
  BY ContentStep
<1>2. SessionInit => ContentInv
  BY InitContent
<1> QED
  BY Inductive, <1>1, <1>2, PTL DEF Spec
------------------------------------------------------------------------------
\* A module is listed as a whole or not at all, as its text declares it, and
\* only if all that its rules name is there, also while and after another
\* import fails (KnowledgeBase.cc 436-466): every step of a session is a step
\* of the catalog or none.
THEOREM CatalogIsImplemented == Spec => CatalogImplemented
<1>1. SessionInit => Promised!Init
  BY EmptyIsSequence DEF SessionInit, Init, Promised!Init, Listed
<1>2. IInv /\ ContentInv /\ [SessionNext]_vars => [Promised!Next]_Listed
  BY ContentStep
<1>3. CatalogImplemented <=> Promised!Init /\ [][Promised!Next]_Listed
  BY DEF CatalogImplemented, Promised!Spec
<1> QED
  BY <1>1, <1>2, <1>3, ContentInductive, PTL DEF Spec

\* What safe literals bind up to a disjunct covers the head and its comparisons,
\* and if the literals of the first disjunct share their variables, its order
\* binds what those that accept Unknown test (KnowledgeBase.cc 390-431,
\* RuleProcessing.cc 5-41).
THEOREM RulesAreCovered == Spec => []RulesCovered
<1>1. ContentInv => RulesCovered
  BY DEF ContentInv, AllCovered
<1> QED
  BY <1>1, ContentInductive, PTL
------------------------------------------------------------------------------
(***************************************************************************)
(* The parser.                                                             *)
(***************************************************************************)

\* The first domain with an alias is the one that the map of the domains has.
LEMMA FirstDomain ==
  ASSUME NEW domains, IsSequence(domains), NEW type \in AliasesOf(domains)
  PROVE  DomainsMap(domains)[type] =
           domains[CHOOSE k \in DOMAIN domains :
             /\ domains[k].alias = type
             /\ \A n \in 1..k - 1 : domains[n].alias # type].type
<1> DEFINE T == {i \in DOMAIN domains : domains[i].alias = type}
           First(k) == domains[k].alias = type /\ \A n \in 1..k - 1 : domains[n].alias # type
<1>1. Len(domains) \in Nat /\ DOMAIN domains = 1..Len(domains)
  BY SequenceDomain
<1>2. Min(T) \in T /\ \A i \in T : Min(T) <= i
  <2>1. T \in SUBSET Nat /\ T # {}
    BY <1>1 DEF AliasesOf
  <2> HIDE DEF T
  <2> QED
    BY <2>1, MinOf
<1>3. \A k \in DOMAIN domains : First(k) <=> k = Min(T)
  <2>1. \A n \in 1..Min(T) - 1 : domains[n].alias # type
    <3>1. SUFFICES ASSUME NEW n \in 1..Min(T) - 1, domains[n].alias = type PROVE FALSE
      OBVIOUS
    <3>2. n \in DOMAIN domains /\ ~(Min(T) <= n)
      BY <1>1, <1>2
    <3> QED
      BY <1>2, <3>1, <3>2
  <2>2. ASSUME NEW k \in DOMAIN domains, First(k)
        PROVE  k = Min(T)
    <3>1. k \in T /\ Min(T) <= k
      BY <1>2, <2>2
    <3>2. Min(T) \notin 1..k - 1
      BY <1>2, <2>2
    <3> QED
      BY <1>1, <1>2, <3>1, <3>2
  <2> QED
    BY <1>2, <2>1, <2>2
<1>4. (CHOOSE k \in DOMAIN domains : First(k)) = Min(T)
  BY <1>2, <1>3
<1>5. DomainsMap(domains)[type] = domains[Min(T)].type
  BY DEF DomainsMap
<1> QED
  BY <1>4, <1>5

\* The parser reads the first n relations of a block, with their aliases resolved.
ReadUpTo(read, block, n) ==
  LET map == DomainsMap(block.domains)
  IN  /\ DOMAIN read = 1..n
      /\ \A k \in 1..n :
           /\ k \in DOMAIN block.relations
           /\ read[k].name = block.relations[k].name
           /\ ToSet(block.relations[k].types) \subseteq Types \cup DOMAIN map
           /\ read[k].types = [c \in DOMAIN block.relations[k].types |->
                IF block.relations[k].types[c] \in Types THEN block.relations[k].types[c]
                ELSE map[block.relations[k].types[c]]]
      /\ n < Len(block.relations) =>
           /\ block.domains = << >>
           /\ ~(ToSet(block.relations[n + 1].types) \subseteq Types)

\* What the parser makes of the relations of a block that it accepts.
LEMMA RelationsRead ==
  ASSUME NEW block, IsSequence(block.domains), IsSequence(block.relations),
         ~DeclarationSection(block).failed
  PROVE  \E n \in 0..Len(block.relations) : ReadUpTo(ParseModule(block).relations, block, n)
<1> DEFINE map == DomainsMap(block.domains)
           relations0 == block.relations
           unknown == {i \in DOMAIN relations0 : ~(ToSet(relations0[i].types) \subseteq Types \cup DOMAIN map)}
           n == IF unknown = {} THEN Len(relations0) ELSE Min(unknown) - 1
           read == ParseModule(block).relations
<1>1. Len(relations0) \in Nat /\ DOMAIN relations0 = 1..Len(relations0)
  BY SequenceDomain
<1>2. unknown # {} => Min(unknown) \in unknown /\ \A i \in unknown : Min(unknown) <= i
  <2>1. unknown \in SUBSET Nat
    BY <1>1
  <2> HIDE DEF unknown
  <2> QED
    BY <2>1, MinOf
<1>3. n \in 0..Len(relations0)
  BY <1>1, <1>2
<1>4. read = [i \in 1..n |-> [name |-> relations0[i].name,
                              types |-> [k \in DOMAIN relations0[i].types |->
                                IF relations0[i].types[k] \in Types THEN relations0[i].types[k]
                                ELSE map[relations0[i].types[k]]]]]
  BY DEF ParseModule, DeclarationSection, ResolveDomains
<1>5. unknown # {} => block.domains = << >>
  BY DEF DeclarationSection, ResolveDomains
<1>6. ASSUME NEW k \in 1..n
      PROVE  k \in DOMAIN relations0 /\ k \notin unknown
  <2>1. CASE unknown = {}
    BY <1>1, <2>1
  <2>2. CASE unknown # {}
    <3>1. n = Min(unknown) - 1
      BY <2>2
    <3>2. Min(unknown) \in 1..Len(relations0)
      BY <1>1, <1>2, <2>2
    <3> HIDE DEF unknown, n, relations0
    <3>3. k \in 1..Len(relations0) /\ ~(Min(unknown) <= k)
      BY <1>1, <3>1, <3>2
    <3> QED
      BY <1>1, <1>2, <2>2, <3>3
  <2> QED
    BY <2>1, <2>2
<1>7. ASSUME n < Len(relations0)
      PROVE  block.domains = << >> /\ ~(ToSet(relations0[n + 1].types) \subseteq Types)
  <2>1. unknown # {} /\ Min(unknown) \in unknown
    <3>1. unknown = {} => n = Len(relations0)
      OBVIOUS
    <3> HIDE DEF unknown, n
    <3> QED
      BY <1>1, <1>2, <1>7, <3>1
  <2>2. n + 1 = Min(unknown)
    BY <1>1, <2>1
  <2> QED
    BY <1>5, <2>1, <2>2
<1>8. ASSUME NEW k \in 1..n
      PROVE  /\ k \in DOMAIN relations0
             /\ read[k].name = relations0[k].name
             /\ ToSet(relations0[k].types) \subseteq Types \cup DOMAIN map
             /\ read[k].types = [c \in DOMAIN relations0[k].types |->
                  IF relations0[k].types[c] \in Types THEN relations0[k].types[c]
                  ELSE map[relations0[k].types[c]]]
  <2>1. k \in DOMAIN relations0 /\ ToSet(relations0[k].types) \subseteq Types \cup DOMAIN map
    BY <1>6
  <2> HIDE DEF n, map
  <2> QED
    BY <1>4, <2>1
<1>9. ReadUpTo(read, block, n)
  <2> HIDE DEF n, unknown, read
  <2>1. DOMAIN read = 1..n
    BY <1>4
  <2> QED
    BY <2>1, <1>7, <1>8 DEF ReadUpTo
<1> HIDE DEF n, map, unknown
<1> QED
  BY <1>3, <1>9

\* A module is the reading of a block of its file, whose aliases stand for the
\* types that they got first (QlParseUtils.h 44-67, QlParse.y).
THEOREM DomainsAreResolved == Spec => []DomainsResolved
<1>1. ContentInv => DomainsResolved
  <2> SUFFICES ASSUME ContentInv, NEW i \in DOMAIN modules
               PROVE  \E file \in Files : \E b \in DOMAIN file.blocks : ReadingOf(file.blocks[b], i)
    BY DEF DomainsResolved
  <2>1. PICK t \in Readings : Listed[i] = EntryOf(t)
    BY DEF ContentInv, AllRead
  <2>2. PICK file \in Files : ~ParseFails(file) /\ t \in ToSet(Parse(file))
    BY <2>1 DEF Readings
  <2>3. PICK b \in DOMAIN file.blocks : t = ParseModule(file.blocks[b])
    BY <2>2 DEF Parse, ToSet
  <2> DEFINE block == file.blocks[b]
             map == DomainsMap(block.domains)
             defs == modules[i].relationIds
  <2>4. IsSequence(block.domains) /\ IsSequence(block.relations) /\ ~DeclarationSection(block).failed
    BY <2>2, <2>3, FilesHaveTexts DEF ParseFails
  <2>0. PICK n \in 0..Len(block.relations) : ReadUpTo(ParseModule(block).relations, block, n)
    <3> HIDE DEF block
    <3> QED
      BY <2>4, RelationsRead
  <2>5. /\ DOMAIN t.relations = 1..n
        /\ \A k \in 1..n :
             /\ k \in DOMAIN block.relations
             /\ t.relations[k].name = block.relations[k].name
             /\ ToSet(block.relations[k].types) \subseteq Types \cup DOMAIN map
             /\ t.relations[k].types = [c \in DOMAIN block.relations[k].types |->
                  IF block.relations[k].types[c] \in Types THEN block.relations[k].types[c]
                  ELSE map[block.relations[k].types[c]]]
        /\ n < Len(block.relations) =>
             /\ block.domains = << >>
             /\ ~(ToSet(block.relations[n + 1].types) \subseteq Types)
    <3> HIDE DEF block
    <3> QED
      BY <2>0, <2>3 DEF ReadUpTo, block
  <2>6. /\ modules[i].name = t.name /\ DOMAIN defs = 1..n
        /\ \A k \in 1..n : ListedRelation(defs[k]) = EntryRelation(t, t.relations[k])
    <3>1. /\ Listed[i].name = modules[i].name /\ DOMAIN Listed[i].relations = DOMAIN defs
          /\ \A k \in DOMAIN defs : Listed[i].relations[k] = ListedRelation(defs[k])
      BY ListedParts
    <3> QED
      BY <2>1, <2>5, <3>1, EntryParts
  <2>7. Len(defs) = n
    BY <2>5, <2>6, SequenceDomain
  <2>8. block.name = modules[i].name
    BY <2>3, <2>6 DEF ParseModule
  <2>9. ASSUME NEW k \in DOMAIN defs
        PROVE  /\ NamesOf(defs[k])[2] = block.relations[k].name
               /\ relations[defs[k]].types = t.relations[k].types
    BY <2>5, <2>6 DEF ListedRelation, EntryRelation
  <2>10. ASSUME NEW k \in 1..n, NEW c \in DOMAIN block.relations[k].types, block.relations[k].types[c] \notin Types
         PROVE  map[block.relations[k].types[c]] =
                  block.domains[CHOOSE d \in DOMAIN block.domains :
                    /\ block.domains[d].alias = block.relations[k].types[c]
                    /\ \A e \in 1..d - 1 : block.domains[e].alias # block.relations[k].types[c]].type
    <3>1. block.relations[k].types[c] \in AliasesOf(block.domains)
      <4>1. block.relations[k].types[c] \in Types \cup DOMAIN map
        BY <2>5 DEF ToSet
      <4> QED
        BY <2>10, <4>1 DEF DomainsMap
    <3> QED
      BY <2>4, <3>1, FirstDomain
  <2>11. ReadingOf(block, i)
    <3> DEFINE StandsFor(type) ==
          IF type \in Types THEN type
          ELSE block.domains[CHOOSE d \in DOMAIN block.domains :
                 /\ block.domains[d].alias = type
                 /\ \A e \in 1..d - 1 : block.domains[e].alias # type].type
    <3>1. \A k \in DOMAIN defs :
            relations[defs[k]].types = [c \in DOMAIN block.relations[k].types |->
                                          StandsFor(block.relations[k].types[c])]
      <4>1. SUFFICES ASSUME NEW k \in 1..n
                     PROVE  relations[defs[k]].types = [c \in DOMAIN block.relations[k].types |->
                                                          StandsFor(block.relations[k].types[c])]
        BY <2>6
      <4>2. \A c \in DOMAIN block.relations[k].types :
              (IF block.relations[k].types[c] \in Types THEN block.relations[k].types[c]
               ELSE map[block.relations[k].types[c]]) = StandsFor(block.relations[k].types[c])
        BY <2>10
      <4>3. k \in DOMAIN defs /\ relations[defs[k]].types = t.relations[k].types
        BY <2>6, <2>9
      <4>4. t.relations[k].types = [c \in DOMAIN block.relations[k].types |->
              IF block.relations[k].types[c] \in Types THEN block.relations[k].types[c]
              ELSE map[block.relations[k].types[c]]]
        <5> HIDE DEF StandsFor, map, block, defs
        <5> QED
          BY <2>5, Zenon
      <4> HIDE DEF StandsFor, map, block, defs
      <4> QED
        BY <4>2, <4>3, <4>4
    <3>2. Len(defs) <= Len(block.relations)
      BY <2>4, <2>7, SequenceDomain
    <3>3. \A k \in DOMAIN defs : NamesOf(defs[k])[2] = block.relations[k].name
      BY <2>9
    <3>4. Len(defs) < Len(block.relations) =>
            /\ block.domains = << >>
            /\ ~(ToSet(block.relations[Len(defs) + 1].types) \subseteq Types)
      BY <2>5, <2>7
    <3> HIDE DEF block, map
    <3> QED
      BY <2>8, <3>1, <3>2, <3>3, <3>4, Zenon DEF ReadingOf
  <2> QED
    BY <2>11 DEF block
<1> QED
  BY <1>1, ContentInductive, PTL
==============================================================================
