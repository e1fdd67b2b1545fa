----------------------------- MODULE TruthValues -----------------------------
(***************************************************************************)
(* The four truth values of 4QL and the tables the evaluator looks them up *)
(* in (TruthValue.h, TruthValue.cc), and the value sets of a rule          *)
(* literal's constraint (TruthValueSet.cc).  The values keep the numbers   *)
(* of the enumeration, because the tables are indexed by them.             *)
(***************************************************************************)
EXTENDS Integers, Sequences

False   == 0
Unknown == 1
Incons  == 2
True    == 3

TruthValue == 0..3

\* A table indexed by two truth values: Table[a + 1][b + 1].
OrArr == << <<False,   Unknown, Incons, True>>,
            <<Unknown, Unknown, Incons, True>>,
            <<Incons,  Incons,  Incons, True>>,
            <<True,    True,    True,   True>> >>

AndArr == << <<False, False,   False,   False>>,
             <<False, Unknown, Unknown, Unknown>>,
             <<False, Unknown, Incons,  Incons>>,
             <<False, Unknown, Incons,  True>> >>

DisjWrtOrd == << <<False,  False,   Incons, Incons>>,
                 <<False,  Unknown, Incons, True>>,
                 <<Incons, Incons,  Incons, Incons>>,
                 <<Incons, True,    Incons, True>> >>

NegationArr == <<True, Unknown, Incons, False>>

Negation(a) == NegationArr[a + 1]

Disjunction(a, b) == OrArr[a + 1][b + 1]

Conjunction(a, b) == AndArr[a + 1][b + 1]

DisjunctionWrtOrdering(a, b) == DisjWrtOrd[a + 1][b + 1]

ResolveToTrueOrIncons(val) == IF val = Incons THEN val ELSE True

ResolveTruthValue(val, isTrue) == IF isTrue THEN val ELSE Negation(val)

\* The constraint of a rule literal is a set of truth values.  A negated
\* literal swaps True and False in it; unless exactly one of them is there,
\* the set stays as it is.
GetNegation(set) ==
  IF {True, False} \subseteq set \/ {True, False} \cap set = {}
  THEN set
  ELSE (set \ {True, False}) \cup ({True, False} \ set)

GetComplement(set) == TruthValue \ set

(***************************************************************************)
(* The order by information that DisjunctionWrtOrdering joins in: nothing  *)
(* is known below False and True, and both of them are below Incons.       *)
(***************************************************************************)
InfoLeq(a, b) == a = b \/ a = Unknown \/ b = Incons
==============================================================================
