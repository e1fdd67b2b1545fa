------------------------------- MODULE Catalog -------------------------------
(***************************************************************************)
(* What a knowledge base promises of its modules: a module is added as a   *)
(* whole or not at all, and only if all that its rules name is there, in   *)
(* itself or in a module that was added before it.                         *)
(*                                                                         *)
(* An entry is a text [name, relations, rules, facts] without what the     *)
(* knowledge base does not keep: relations are [name, types, facts] with   *)
(* the set of their facts, and a rule is [head, bodies], where the head    *)
(* and every literal name their relation by a pair of names.               *)
(***************************************************************************)
EXTENDS Naturals, Sequences

CONSTANTS Entries, Variables

VARIABLE catalog

Init == catalog = << >>

Declares(entry, rel) == \E i \in DOMAIN entry.relations : entry.relations[i].name = rel

TypesOf(entry, rel) ==
  entry.relations[CHOOSE i \in DOMAIN entry.relations : entry.relations[i].name = rel].types

\* The modules that a rule of the entry may read.
Visible(entry) == {entry} \cup {catalog[i] : i \in DOMAIN catalog}

\* A literal has a relation to read, with a column for each of its terms.
Grounded(entry, lit) ==
  \E m \in Visible(entry) : /\ m.name = lit.rel[1]
                            /\ Declares(m, lit.rel[2])
                            /\ Len(TypesOf(m, lit.rel[2])) = Len(lit.terms)

\* A variable has one type in all the literals of a rule.
VarTypes(entry, lit) ==
  {<<lit.terms[k], TypesOf(m, lit.rel[2])[k]>> :
     k \in {j \in DOMAIN lit.terms : lit.terms[j] \in Variables},
     m \in {v \in Visible(entry) : v.name = lit.rel[1]}}

LiteralsOf(rule) == {rule.head} \cup UNION {rule.bodies[d] : d \in DOMAIN rule.bodies}

WellFormed(entry) ==
  /\ \A i \in DOMAIN catalog : catalog[i].name # entry.name
  /\ \A i, j \in DOMAIN entry.relations :
       entry.relations[i].name = entry.relations[j].name => i = j
  /\ \A r \in DOMAIN entry.rules :
       /\ entry.rules[r].head.rel[1] = entry.name
       /\ \A lit \in LiteralsOf(entry.rules[r]) : Grounded(entry, lit)
       /\ \A p, q \in UNION {VarTypes(entry, lit) : lit \in LiteralsOf(entry.rules[r])} :
            p[1] = q[1] => p[2] = q[2]

Add(entry) == WellFormed(entry) /\ catalog' = Append(catalog, entry)

Clear == catalog' = << >>

Next == (\E entry \in Entries : Add(entry)) \/ Clear

Spec == Init /\ [][Next]_catalog
==============================================================================
