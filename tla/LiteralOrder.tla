---------------------------- MODULE LiteralOrder ----------------------------
(***************************************************************************)
(* The order in which the literals of a rule's body are evaluated          *)
(* (RuleProcessing.cc), fixed when a disjunct is made (KBRuleDisjunct.cc). *)
(*                                                                         *)
(* A literal has its terms and the set of truth values it accepts; it is   *)
(* unsafe when it accepts Unknown, because it then stands for facts that   *)
(* are not there and only tests the values its variables already have.     *)
(***************************************************************************)
EXTENDS TruthValues, SequencesExt

CONSTANT Variables      \* every other term is a constant

VarSet(lit) == ToSet(lit.terms) \cap Variables

Unsafe(lit) == Unknown \in lit.set

HaveCommonVariables(a, b) == VarSet(a) \cap VarSet(b) # {}

\* The comparator given to std::sort.
Precedes(a, b) ==
  IF Unsafe(a) = Unsafe(b)
  THEN Cardinality(VarSet(a)) > Cardinality(VarSet(b))
  ELSE Unsafe(a) <=> ~HaveCommonVariables(a, b)

\* The comparator is not a strict weak order, so that what std::sort does
\* depends on its algorithm.  libstdc++ sorts up to 16 elements by insertion:
\* an element that precedes the first goes to the front, any other goes
\* behind the last element that it does not precede.
Insert(sorted, lit) ==
  IF sorted # << >> /\ Precedes(lit, sorted[1])
  THEN << lit >> \o sorted
  ELSE LET stays == {i \in DOMAIN sorted : ~Precedes(lit, sorted[i])}
       IN  InsertAt(sorted, Max(stays \cup {0}) + 1, lit)

SortRuleLiterals(body) ==
  IF \E i \in DOMAIN body : Unsafe(body[i]) THEN FoldLeft(Insert, << >>, body) ELSE body
------------------------------------------------------------------------------
\* What an evaluation from left to right needs of a body.
BoundBefore(body, i) == UNION {VarSet(body[j]) : j \in {k \in 1..i - 1 : ~Unsafe(body[k])}}

UnsafeBound(body) ==
  \A i \in DOMAIN body : Unsafe(body[i]) => VarSet(body[i]) \subseteq BoundBefore(body, i)

\* Every literal that accepts Unknown shares a variable with every literal
\* that does not.
AllShare(body) ==
  \A i, j \in DOMAIN body :
    Unsafe(body[i]) /\ ~Unsafe(body[j]) => HaveCommonVariables(body[i], body[j])
==============================================================================
