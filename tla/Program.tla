------------------------------- MODULE Program -------------------------------
(***************************************************************************)
(* Program.cc: a program takes its algorithm when it is made and keeps it. *)
(* Modules are added to it and it is evaluated as its caller likes.        *)
(***************************************************************************)
EXTENDS NaiveEvaluation, SemiNaiveEvaluation

VARIABLE algorithm     \* Algorithm::Naive or Algorithm::Seminaive

vars == <<algorithm, baseVars, passInfo, semiVars>>

Init ==
  /\ algorithm \in {"Naive", "Seminaive"}
  /\ NaiveInit
  /\ SemiInit

EvaluateKB ==
  \/ algorithm = "Naive" /\ NaiveEvaluator /\ UNCHANGED <<algorithm, semiVars>>
  \/ algorithm = "Seminaive" /\ SemiEvaluator /\ UNCHANGED <<algorithm, passInfo>>

Next == EvaluateKB \/ (Caller /\ UNCHANGED <<algorithm, passInfo, semiVars>>)

\* evaluate() runs in the caller's thread until it returns: weak fairness of
\* EvaluateKB, with Running for its ENABLED (as long as evaluate() runs it
\* has a next step, or TLC would report a deadlock).
Spec == Init /\ [][Next]_vars /\ ([]<>~Running \/ []<><<EvaluateKB>>_vars)
==============================================================================
