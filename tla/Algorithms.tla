------------------------------ MODULE Algorithms ------------------------------
(***************************************************************************)
(* One program under both algorithms.  The functional tests run every      *)
(* script with `-a SN' and with `-a N' and expect the same answers         *)
(* (test/functional/run_tests.py); Program takes the algorithm when it is  *)
(* made.  Here the script is loaded once and evaluated four times: naively *)
(* and naively again, as an import that adds nothing does, then from the   *)
(* loaded knowledge base semi-naively and semi-naively again.              *)
(***************************************************************************)
EXTENDS NaiveEvaluation, SemiNaiveEvaluation

VARIABLES
  given,    \* the knowledge base before any evaluation
  answer    \* its facts after the first one

vars == <<baseVars, passInfo, semiVars, given, answer>>

\* A query reads the facts as a set.
Model == [r \in Relations |-> {rels[r].facts[i] : i \in DOMAIN rels[r].facts}]

Init == NaiveInit /\ SemiInit /\ given = rels /\ answer = Model

Load ==
  /\ evaluations = 0
  /\ (\E fact \in program.facts : AddFact(fact)) \/ FinishModule \/ AddModule
  /\ UNCHANGED <<passInfo, semiVars, given, answer>>

Call ==
  /\ loaded = Len(program.modules)
  /\ evaluations # 2
  /\ StartEvaluate
  /\ given' = IF evaluations = 0 THEN rels ELSE given
  /\ answer' = IF evaluations = 1 THEN Model ELSE answer
  /\ UNCHANGED <<passInfo, semiVars>>

\* Another program object, with the other algorithm, reads the same script.
CallAfresh ==
  /\ phase = "idle"
  /\ evaluations = 2
  /\ evaluations' = 3
  /\ rels' = given
  /\ mod' = 1
  /\ phase' = "first"
  /\ rule' = 1
  /\ backup' = [r \in Relations |-> << >>]
  /\ UNCHANGED <<program, loaded, pending, cursor, genInfos, passInfo, semiVars, given, answer>>

Evaluate ==
  /\ IF evaluations <= 2 THEN NaiveEvaluator /\ UNCHANGED semiVars
                         ELSE SemiEvaluator /\ UNCHANGED passInfo
  /\ UNCHANGED <<given, answer>>

Next == Load \/ Call \/ CallAfresh \/ Evaluate \/ (Wait /\ UNCHANGED <<passInfo, semiVars, given, answer>>)

Spec == Init /\ [][Next]_vars

\* Both algorithms give the same answers: no delta pass misses a result that
\* the naive passes find, in the first model and in every correction round
\* (run_tests.py expects one csv from both).
AlgorithmsAgree == phase = "idle" /\ evaluations = 3 => Model = answer

\* Evaluating once more changes no answer: the counts, the Incons facts and
\* the order of insertion that the first evaluation left behind do not lead
\* the second one elsewhere (handleCliInput evaluates after every import).
AnswersStay == phase = "idle" /\ evaluations \in {2, 4} => Model = answer
==============================================================================
