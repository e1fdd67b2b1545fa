----------------------------- MODULE MCParallel -----------------------------
(***************************************************************************)
(* Relations of at most five facts with two keys, and a threshold of four. *)
(***************************************************************************)
EXTENDS ParallelSort

Fact(key, matching) == [key |-> key, matching |-> matching]

MCTuples == {Fact(1, TRUE), Fact(2, TRUE), Fact(1, FALSE)}

MCMatching == {Fact(1, TRUE), Fact(2, TRUE)}

\* Every relation of five facts that are selected but for one, some more with
\* repeated facts, and shorter ones.
MCFactLists ==
  {f \in [1..5 -> MCTuples] : \/ Cardinality({i \in 1..5 : f[i] \notin MCMatching}) <= 1
                              \/ f[1] = f[2] /\ f[4] = f[5]}
    \cup {<< >>, <<Fact(2, TRUE), Fact(1, FALSE), Fact(1, TRUE)>>}
==============================================================================
