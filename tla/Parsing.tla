------------------------------- MODULE Parsing -------------------------------
(***************************************************************************)
(* What the parser makes of a file (QlDeserializer.cc, QlParse.y,          *)
(* QlParseUtils.h): the modules it declares, with the types of their       *)
(* relations resolved, or a ParsingError.                                  *)
(*                                                                         *)
(* A file is [blocks, wellFormed]; wellFormed says whether it is a         *)
(* sentence of the grammar.  A block is a module as it is written:         *)
(* [name, domains, relations, rules, facts], where a domain gives an alias *)
(* to a type and the columns of a relation have types or aliases.  The     *)
(* sequence of domains is empty when the module has no such section.       *)
(***************************************************************************)
EXTENDS SequencesExt, FiniteSetsExt

Types == {"id", "string", "integer", "real", "date", "datetime", "logic"}

AliasesOf(domains) == {domains[i].alias : i \in DOMAIN domains}

\* map::insert leaves an alias that is there alone.
DomainsMap(domains) ==
  [alias \in AliasesOf(domains) |->
     domains[Min({i \in DOMAIN domains : domains[i].alias = alias})].type]

\* The relations before the first one with an unknown alias, and whether
\* there is one.
ResolveDomains(map, relations) ==
  LET unknown == {i \in DOMAIN relations : ~(ToSet(relations[i].types) \subseteq Types \cup DOMAIN map)}
      n == IF unknown = {} THEN Len(relations) ELSE Min(unknown) - 1
      resolve(type) == IF type \in Types THEN type ELSE map[type]
  IN  [relations |-> [i \in 1..n |-> [name |-> relations[i].name,
                                      types |-> [k \in DOMAIN relations[i].types |->
                                                   resolve(relations[i].types[k])]]],
       failed |-> unknown # {}]

\* A mutant: nobody looks at the error.
DeclarationSectionUnchecked(block) ==
  [ResolveDomains(DomainsMap(block.domains), block.relations) EXCEPT !.failed = FALSE]

\* Without a domain section nobody looks at the error.
DeclarationSection(block) ==
  LET resolved == ResolveDomains(DomainsMap(block.domains), block.relations)
  IN  [resolved EXCEPT !.failed = @ /\ block.domains # << >>]

ParseModule(block) ==
  [name |-> block.name, relations |-> DeclarationSection(block).relations,
   rules |-> block.rules, facts |-> block.facts]

ParseFails(file) ==
  ~file.wellFormed \/ \E i \in DOMAIN file.blocks : DeclarationSection(file.blocks[i]).failed

\* getModules, after a parse that did not fail.
Parse(file) == [i \in DOMAIN file.blocks |-> ParseModule(file.blocks[i])]
==============================================================================
