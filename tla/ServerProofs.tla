---------------------------- MODULE ServerProofs ----------------------------
(***************************************************************************)
(* For every number of threads and every sequence of requests: a request   *)
(* whose conversions did not run during another one gets the answer that   *)
(* it would get alone, and TZ is as it was when no conversion runs or ran  *)
(* during another one.                                                     *)
(*                                                                         *)
(* The argument is about pairs of threads: the requests of two threads     *)
(* that convert at the same time are both in overlapped.  So a request     *)
(* that is not was the only one to change TZ while it converted a date.    *)
(***************************************************************************)
EXTENDS Server, TLAPS

InPcs == {"got", "set", "made"}

TZs == Zones \cup {Unset, Utc}

TypeOK ==
  /\ job \in [Threads -> Requests \cup {Idle}]
  /\ script \in [Threads -> Scripts \cup {NoScript}]
  /\ pc \in [Threads -> InPcs \cup {"idle", "parsing"}]
  /\ TZ \in TZs /\ initialTZ \in TZs
  /\ tz \in [Threads -> TZs]
  /\ times \in [Threads -> Seq(TZs)]
  /\ answers = [r \in Requests |-> answers[r]]

\* Whoever is in my_timegm while another thread is, overlaps.
PairsOverlap ==
  \A t, u \in Threads :
    t # u /\ InTimegm(t) /\ InTimegm(u) => job[t] \in overlapped /\ job[u] \in overlapped

\* What the threads have read of TZ and may write to it.
ZonesRead ==
  /\ TZ \in {initialTZ, Utc}
  /\ \A t \in Threads : InTimegm(t) => tz[t] \in {initialTZ, Utc}

\* As long as no conversion overlapped, there is one that can restore TZ.
NobodyOverlaps ==
  overlapped = {} =>
    /\ \A t \in Threads : InTimegm(t) => tz[t] = initialTZ
    /\ \A t \in Threads : pc[t] = "got" => TZ = initialTZ
    /\ (\A t \in Threads : ~InTimegm(t)) => TZ = initialTZ

\* The dates that a thread has met are valid, and were taken in UTC if the
\* request does not overlap.
Converted ==
  \A t \in Threads :
    /\ Len(times[t]) <= Len(script[t].dates)
    /\ \A i \in DOMAIN times[t] : script[t].dates[i]
    /\ pc[t] \in {"got", "set"} =>
         Len(times[t]) < Len(script[t].dates) /\ script[t].dates[Len(times[t]) + 1]
    /\ job[t] \notin overlapped => \A i \in DOMAIN times[t] : times[t][i] = Utc
    /\ job[t] \notin overlapped /\ pc[t] = "set" => TZ = Utc

IInv == TypeOK /\ PairsOverlap /\ ZonesRead /\ NobodyOverlaps /\ Converted /\ OverlapNeeded
------------------------------------------------------------------------------
LEMMA ScriptTypes ==
  ASSUME NEW s \in Scripts \cup {NoScript}
  PROVE  s.dates \in Seq(BOOLEAN)
<1>1. CASE s \in Scripts
  BY <1>1, ScriptsAreRecords
<1>2. CASE s = NoScript
  <2>1. << >> \in Seq(BOOLEAN)
    OBVIOUS
  <2>2. QED
    BY <1>2, <2>1 DEF NoScript
<1>3. QED
  BY <1>1, <1>2

LEMMA AppendElements ==
  ASSUME NEW S, NEW seq \in Seq(S), NEW e \in S
  PROVE  /\ Len(Append(seq, e)) = Len(seq) + 1
         /\ \A i \in DOMAIN Append(seq, e) :
              \/ i \in DOMAIN seq /\ Append(seq, e)[i] = seq[i]
              \/ i = Len(seq) + 1 /\ Append(seq, e)[i] = e
OBVIOUS

LEMMA InitIInv == Init => IInv
<1>1. SUFFICES ASSUME Init
               PROVE  IInv
  OBVIOUS
<1>2. TypeOK
  <2>1. << >> \in Seq(TZs)
    OBVIOUS
  <2>2. QED
    BY <1>1, <2>1 DEF Init, TypeOK, TZs
<1>3. PairsOverlap /\ ZonesRead /\ NobodyOverlaps
  BY <1>1 DEF Init, PairsOverlap, ZonesRead, NobodyOverlaps, InTimegm
<1>4. Converted
  <2>1. Len(<< >>) = 0 /\ DOMAIN << >> = {}
    OBVIOUS
  <2>2. \A t \in Threads : times[t] = << >> /\ script[t].dates = << >> /\ pc[t] = "idle"
    BY <1>1 DEF Init, NoScript
  <2> DEFINE empty == << >>
  <2>3. \A t \in Threads : Len(times[t]) <= Len(script[t].dates) /\ DOMAIN times[t] = {} /\ pc[t] = "idle"
    <3>1. \A t \in Threads : times[t] = empty /\ script[t].dates = empty
      BY <2>2
    <3>2. Len(empty) <= Len(empty) /\ DOMAIN empty = {}
      BY <2>1
    <3> HIDE DEF empty
    <3>3. QED
      BY <2>2, <3>1, <3>2
  <2>4. QED
    BY <2>3 DEF Converted
<1>5. OverlapNeeded
  BY <1>1 DEF Init, OverlapNeeded
<1>6. QED
  BY <1>2, <1>3, <1>4, <1>5 DEF IInv

LEMMA AcceptStep ==
  ASSUME IInv, NEW t \in Threads, Accept(t)
  PROVE  IInv'
<1>1. /\ TypeOK /\ pc[t] = "idle" /\ pc' = [pc EXCEPT ![t] = "parsing"] /\ times' = [times EXCEPT ![t] = << >>]
      /\ TZ' = TZ /\ initialTZ' = initialTZ /\ tz' = tz /\ answers' = answers /\ overlapped' = overlapped
  BY DEF IInv, Accept
<1>2. PICK r \in Requests : \E s \in Scripts :
        job' = [job EXCEPT ![t] = r] /\ script' = [script EXCEPT ![t] = s]
  BY DEF Accept
<1>3. PICK s \in Scripts : job' = [job EXCEPT ![t] = r] /\ script' = [script EXCEPT ![t] = s]
  BY <1>2
<1>4. TypeOK'
  <2>1. << >> \in Seq(TZs)
    OBVIOUS
  <2>2. QED
    BY <1>1, <1>3, <2>1 DEF TypeOK, TZs
<1>5. \A u \in Threads : /\ InTimegm(u)' <=> InTimegm(u)
                         /\ pc'[u] \in {"got", "set"} => u # t /\ pc[u] = pc'[u]
                         /\ u # t => job'[u] = job[u] /\ script'[u] = script[u] /\ times'[u] = times[u]
  BY <1>1, <1>3 DEF InTimegm, TypeOK
<1>6. ~InTimegm(t)
  BY <1>1 DEF InTimegm
<1>7. PairsOverlap' /\ ZonesRead' /\ NobodyOverlaps'
  BY <1>1, <1>5, <1>6 DEF IInv, PairsOverlap, ZonesRead, NobodyOverlaps
<1>8. Converted'
  <2>1. times'[t] = << >> /\ script'[t] = s /\ Len(s.dates) \in Nat
    BY <1>1, <1>3, ScriptTypes DEF TypeOK
  <2>2. Len(times'[t]) = 0 /\ DOMAIN times'[t] = {}
    BY <2>1
  <2>3. QED
    BY <1>1, <1>5, <2>1, <2>2 DEF IInv, Converted
<1>9. OverlapNeeded'
  BY <1>1 DEF IInv, OverlapNeeded
<1>10. QED
  BY <1>4, <1>7, <1>8, <1>9 DEF IInv

LEMMA GetEnvStep ==
  ASSUME IInv, NEW t \in Threads, GetEnv(t)
  PROVE  IInv'
<1> DEFINE others == {u \in Threads \ {t} : InTimegm(u)}
<1>1. /\ TypeOK /\ pc[t] = "parsing" /\ pc' = [pc EXCEPT ![t] = "got"] /\ tz' = [tz EXCEPT ![t] = TZ]
      /\ Len(times[t]) < Len(script[t].dates) /\ script[t].dates[Len(times[t]) + 1]
      /\ UNCHANGED <<TZ, initialTZ, job, script, times, answers>>
  BY DEF IInv, GetEnv, AtDate, DateIsValid
<1>2. overlapped' = overlapped \cup {job[u] : u \in others} \cup (IF others = {} THEN {} ELSE {job[t]})
  BY DEF GetEnv
<1>3. TypeOK'
  BY <1>1 DEF TypeOK, InPcs
<1>4. /\ ~InTimegm(t) /\ pc'[t] = "got" /\ tz'[t] = TZ
      /\ \A u \in Threads : u # t => (InTimegm(u)' <=> InTimegm(u)) /\ pc'[u] = pc[u] /\ tz'[u] = tz[u]
  BY <1>1 DEF InTimegm, TypeOK
<1>5. overlapped \subseteq overlapped'
  BY <1>2
<1>6. PairsOverlap'
  <2>1. SUFFICES ASSUME NEW u \in Threads, NEW v \in Threads, u # v, InTimegm(u)', InTimegm(v)'
                 PROVE  job[u] \in overlapped' /\ job[v] \in overlapped'
    BY <1>1 DEF PairsOverlap
  <2>2. CASE u # t /\ v # t
    BY <1>4, <1>5, <2>1, <2>2 DEF IInv, PairsOverlap
  <2>3. CASE u = t
    <3>1. v \in others
      BY <1>4, <2>1, <2>3
    <3>2. QED
      BY <1>2, <2>3, <3>1
  <2>4. CASE v = t
    <3>1. u \in others
      BY <1>4, <2>1, <2>4
    <3>2. QED
      BY <1>2, <2>4, <3>1
  <2>5. QED
    BY <2>2, <2>3, <2>4
<1>7. ZonesRead'
  BY <1>1, <1>4 DEF IInv, ZonesRead
<1>8. NobodyOverlaps'
  <2>1. SUFFICES ASSUME overlapped' = {}
                 PROVE  NobodyOverlaps'
    BY DEF NobodyOverlaps
  <2>2. overlapped = {} /\ others = {}
    BY <1>2, <2>1
  <2>3. \A u \in Threads : ~InTimegm(u)
    BY <1>4, <2>2
  <2>4. TZ = initialTZ
    BY <2>2, <2>3 DEF IInv, NobodyOverlaps
  <2>5. \A u \in Threads : InTimegm(u)' => u = t
    BY <1>4, <2>3
  <2>6. pc'[t] = "got" /\ InTimegm(t)'
    BY <1>4 DEF InTimegm
  <2>7. QED
    BY <1>1, <1>4, <2>4, <2>5, <2>6 DEF NobodyOverlaps
<1>9. Converted'
  BY <1>1, <1>4, <1>5 DEF IInv, Converted
<1>10. OverlapNeeded'
  BY <1>1, <1>5 DEF IInv, OverlapNeeded
<1>11. QED
  BY <1>3, <1>6, <1>7, <1>8, <1>9, <1>10 DEF IInv

LEMMA SetEnvStep ==
  ASSUME IInv, NEW t \in Threads, SetEnv(t)
  PROVE  IInv'
<1>1. /\ TypeOK /\ pc[t] = "got" /\ pc' = [pc EXCEPT ![t] = "set"] /\ TZ' = Utc
      /\ UNCHANGED <<initialTZ, job, script, tz, times, answers, overlapped>>
  BY DEF IInv, SetEnv
<1>2. TypeOK'
  BY <1>1 DEF TypeOK, InPcs, TZs
<1>3. /\ pc'[t] = "set" /\ \A u \in Threads : u # t => pc'[u] = pc[u]
      /\ \A u \in Threads : InTimegm(u)' <=> InTimegm(u)
      /\ InTimegm(t)
  BY <1>1 DEF InTimegm, TypeOK
<1>4. PairsOverlap' /\ ZonesRead'
  BY <1>1, <1>3 DEF IInv, PairsOverlap, ZonesRead
<1>5. NobodyOverlaps'
  <2>1. \A u \in Threads : pc'[u] = "got" => u # t /\ InTimegm(u)
    BY <1>3 DEF InTimegm
  <2>2. overlapped = {} => \A u \in Threads : pc'[u] # "got"
    BY <1>3, <2>1 DEF IInv, PairsOverlap
  <2>3. QED
    BY <1>1, <1>3, <2>2 DEF IInv, NobodyOverlaps
<1>6. Converted'
  BY <1>1, <1>3 DEF IInv, Converted
<1>7. OverlapNeeded'
  BY <1>1 DEF IInv, OverlapNeeded
<1>8. QED
  BY <1>2, <1>4, <1>5, <1>6, <1>7 DEF IInv

LEMMA MakeTimeStep ==
  ASSUME IInv, NEW t \in Threads, MakeTime(t)
  PROVE  IInv'
<1>1. /\ TypeOK /\ pc[t] = "set" /\ pc' = [pc EXCEPT ![t] = "made"]
      /\ times' = [times EXCEPT ![t] = Append(times[t], TZ)]
      /\ UNCHANGED <<TZ, initialTZ, job, script, tz, answers, overlapped>>
  BY DEF IInv, MakeTime
<1>2. times[t] \in Seq(TZs) /\ TZ \in TZs
  BY <1>1 DEF TypeOK
<1>3. TypeOK'
  <2>1. Append(times[t], TZ) \in Seq(TZs)
    BY <1>2
  <2>2. QED
    BY <1>1, <2>1 DEF TypeOK, InPcs
<1>4. /\ pc'[t] = "made"
      /\ \A u \in Threads : u # t => pc'[u] = pc[u] /\ times'[u] = times[u]
      /\ \A u \in Threads : InTimegm(u)' <=> InTimegm(u)
  BY <1>1 DEF InTimegm, TypeOK
<1>5. PairsOverlap' /\ ZonesRead' /\ NobodyOverlaps'
  BY <1>1, <1>4 DEF IInv, PairsOverlap, ZonesRead, NobodyOverlaps
<1>6. Converted'
  <2>1. SUFFICES ASSUME NEW u \in Threads
                 PROVE  /\ Len(times'[u]) <= Len(script[u].dates)
                        /\ \A i \in DOMAIN times'[u] : script[u].dates[i]
                        /\ pc'[u] \in {"got", "set"} =>
                             Len(times'[u]) < Len(script[u].dates) /\ script[u].dates[Len(times'[u]) + 1]
                        /\ job[u] \notin overlapped => \A i \in DOMAIN times'[u] : times'[u][i] = Utc
                        /\ job[u] \notin overlapped /\ pc'[u] = "set" => TZ = Utc
    BY <1>1 DEF Converted
  <2>2. CASE u # t
    BY <1>4, <2>2 DEF IInv, Converted
  <2>3. CASE u = t
    <3>1. times'[t] = Append(times[t], TZ)
      BY <1>1 DEF TypeOK
    <3>2. /\ Len(times'[t]) = Len(times[t]) + 1
          /\ \A i \in DOMAIN times'[t] :
               \/ i \in DOMAIN times[t] /\ times'[t][i] = times[t][i]
               \/ i = Len(times[t]) + 1 /\ times'[t][i] = TZ
      BY <1>2, <3>1, AppendElements
    <3>3. Len(times[t]) < Len(script[t].dates) /\ script[t].dates[Len(times[t]) + 1]
      BY <1>1 DEF IInv, Converted
    <3>4. Len(times[t]) \in Nat /\ Len(script[t].dates) \in Nat
      BY <1>1, <1>2, ScriptTypes DEF TypeOK
    <3>5. \A i \in DOMAIN times[t] : script[t].dates[i]
      BY DEF IInv, Converted
    <3>6. job[t] \notin overlapped => TZ = Utc /\ \A i \in DOMAIN times[t] : times[t][i] = Utc
      BY <1>1 DEF IInv, Converted
    <3>7. QED
      BY <1>4, <2>3, <3>2, <3>3, <3>4, <3>5, <3>6
  <2>4. QED
    BY <2>2, <2>3
<1>7. OverlapNeeded'
  BY <1>1 DEF IInv, OverlapNeeded
<1>8. QED
  BY <1>3, <1>5, <1>6, <1>7 DEF IInv

LEMMA RestoreStep ==
  ASSUME IInv, NEW t \in Threads, Restore(t)
  PROVE  IInv'
<1>1. /\ TypeOK /\ pc[t] = "made" /\ pc' = [pc EXCEPT ![t] = "parsing"] /\ TZ' = tz[t]
      /\ UNCHANGED <<initialTZ, job, script, tz, times, answers, overlapped>>
  BY DEF IInv, Restore
<1>2. TypeOK'
  BY <1>1 DEF TypeOK, InPcs
<1>3. /\ InTimegm(t) /\ ~InTimegm(t)' /\ pc'[t] = "parsing"
      /\ \A u \in Threads : u # t => pc'[u] = pc[u] /\ (InTimegm(u)' <=> InTimegm(u))
  BY <1>1 DEF InTimegm, TypeOK
<1>4. PairsOverlap'
  BY <1>1, <1>3 DEF IInv, PairsOverlap
<1>5. ZonesRead'
  BY <1>1, <1>3 DEF IInv, ZonesRead
<1>6. NobodyOverlaps'
  BY <1>1, <1>3 DEF IInv, NobodyOverlaps
<1>7. Converted'
  <2>1. \A u \in Threads : pc'[u] = "set" => u # t /\ InTimegm(u) /\ pc[u] = "set"
    BY <1>3 DEF InTimegm
  <2>2. \A u \in Threads : pc'[u] = "set" => job[u] \in overlapped
    BY <1>3, <2>1 DEF IInv, PairsOverlap
  <2>3. QED
    BY <1>1, <1>3, <2>2 DEF IInv, Converted
<1>8. OverlapNeeded'
  BY <1>1 DEF IInv, OverlapNeeded
<1>9. QED
  BY <1>2, <1>4, <1>5, <1>6, <1>7, <1>8 DEF IInv

LEMMA RespondStep ==
  ASSUME IInv, NEW t \in Threads, NEW answer, pc[t] = "parsing", Respond(t, answer),
         job[t] \notin overlapped => answer = AnswerAlone(script[t])
  PROVE  IInv'
<1>1. /\ TypeOK /\ job' = [job EXCEPT ![t] = Idle] /\ pc' = [pc EXCEPT ![t] = "idle"]
      /\ script' = [script EXCEPT ![t] = NoScript] /\ times' = [times EXCEPT ![t] = << >>]
      /\ tz' = [tz EXCEPT ![t] = Unset]
      /\ answers' = [answers EXCEPT ![job[t]] = [script |-> script[t], answer |-> answer]]
      /\ UNCHANGED <<TZ, initialTZ, overlapped>>
  BY DEF IInv, Respond
<1>2. TypeOK'
  <2>1. << >> \in Seq(TZs)
    OBVIOUS
  <2>2. answers' = [r \in Requests |-> answers'[r]]
    BY <1>1 DEF TypeOK
  <2>3. QED
    BY <1>1, <2>1, <2>2 DEF TypeOK, TZs
<1>3. /\ ~InTimegm(t) /\ ~InTimegm(t)' /\ pc'[t] = "idle"
      /\ \A u \in Threads : u # t => /\ pc'[u] = pc[u] /\ job'[u] = job[u] /\ tz'[u] = tz[u]
                                   /\ script'[u] = script[u] /\ times'[u] = times[u]
                                   /\ (InTimegm(u)' <=> InTimegm(u))
  BY <1>1 DEF InTimegm, TypeOK
<1>4. PairsOverlap' /\ ZonesRead' /\ NobodyOverlaps'
  BY <1>1, <1>3 DEF IInv, PairsOverlap, ZonesRead, NobodyOverlaps
<1>5. Converted'
  <2>1. times'[t] = << >> /\ script'[t].dates = << >>
    BY <1>1 DEF TypeOK, NoScript
  <2>2. Len(times'[t]) = 0 /\ DOMAIN times'[t] = {} /\ Len(script'[t].dates) = 0
    BY <2>1
  <2>3. QED
    BY <1>1, <1>3, <2>2 DEF IInv, Converted
<1>6. OverlapNeeded'
  <2>1. SUFFICES ASSUME NEW r \in Requests, r \notin overlapped, answers'[r] # Waiting
                 PROVE  answers'[r].answer = AnswerAlone(answers'[r].script)
    BY <1>1 DEF OverlapNeeded
  <2>2. CASE r = job[t]
    <3>1. answers'[r] = [script |-> script[t], answer |-> answer]
      BY <1>1, <2>2 DEF TypeOK
    <3>2. QED
      BY <2>1, <2>2, <3>1
  <2>3. CASE r # job[t]
    <3>1. answers'[r] = answers[r]
      BY <1>1, <2>3 DEF TypeOK
    <3>2. QED
      BY <2>1, <3>1 DEF IInv, OverlapNeeded
  <2>4. QED
    BY <2>2, <2>3
<1>7. QED
  BY <1>2, <1>4, <1>5, <1>6 DEF IInv

LEMMA FailDateStep ==
  ASSUME IInv, NEW t \in Threads, FailDate(t)
  PROVE  IInv'
<1>1. /\ TypeOK /\ pc[t] = "parsing" /\ Respond(t, [code |-> 500, times |-> << >>])
      /\ Len(times[t]) < Len(script[t].dates) /\ ~script[t].dates[Len(times[t]) + 1]
  BY DEF IInv, FailDate, AtDate, DateIsValid
<1>2. script[t].dates \in Seq(BOOLEAN) /\ Len(times[t]) \in Nat
  BY <1>1, ScriptTypes DEF TypeOK
<1>3. Len(times[t]) + 1 \in DOMAIN script[t].dates
  BY <1>1, <1>2
<1>4. AnswerAlone(script[t]) = [code |-> 500, times |-> << >>]
  BY <1>1, <1>3 DEF AnswerAlone
<1>5. QED
  BY <1>1, <1>4, RespondStep

LEMMA AnswerStep ==
  ASSUME IInv, NEW t \in Threads, Answer(t)
  PROVE  IInv'
<1>1. /\ TypeOK /\ pc[t] = "parsing" /\ Respond(t, AnswerTo(script[t].end, times[t]))
      /\ Len(times[t]) = Len(script[t].dates)
  BY DEF IInv, Answer
<1>2. script[t].dates \in Seq(BOOLEAN) /\ times[t] \in Seq(TZs)
  BY <1>1, ScriptTypes DEF TypeOK
<1>3. DOMAIN times[t] = DOMAIN script[t].dates
  BY <1>1, <1>2
<1>4. \A i \in DOMAIN script[t].dates : script[t].dates[i]
  BY <1>3 DEF IInv, Converted
<1>5. ASSUME job[t] \notin overlapped
      PROVE  AnswerTo(script[t].end, times[t]) = AnswerAlone(script[t])
  <2>1. \A i \in DOMAIN times[t] : times[t][i] = Utc
    BY <1>5 DEF IInv, Converted
  <2>2. times[t] = [i \in DOMAIN times[t] |-> times[t][i]]
    BY <1>2
  <2>3. times[t] = [i \in DOMAIN script[t].dates |-> Utc]
    BY <1>3, <2>1, <2>2
  <2>4. QED
    BY <1>4, <2>3 DEF AnswerAlone
<1>6. QED
  BY <1>1, <1>5, RespondStep

LEMMA Inductive == Spec => []IInv
<1>1. IInv /\ [Next]_vars => IInv'
  <2>1. SUFFICES ASSUME IInv, [Next]_vars
                 PROVE  IInv'
    OBVIOUS
  <2>2. CASE UNCHANGED vars
    BY <2>1, <2>2 DEF vars, locals, IInv, TypeOK, PairsOverlap, ZonesRead, NobodyOverlaps, Converted,
       OverlapNeeded, InTimegm
  <2>3. ASSUME NEW t \in Threads, ThreadStep(t)
        PROVE  IInv'
    BY <2>1, <2>3, AcceptStep, GetEnvStep, SetEnvStep, MakeTimeStep, RestoreStep, FailDateStep, AnswerStep
       DEF ThreadStep
  <2>4. QED
    BY <2>1, <2>2, <2>3 DEF Next
<1>2. QED
  BY InitIInv, <1>1, PTL DEF Spec

\* An answer can only be wrong if a conversion of its request ran during
\* another one (DateTime.cc 18-32), for any number of threads and requests.
THEOREM OnlyOverlapsMisread == Spec => []OverlapNeeded
<1>1. IInv => OverlapNeeded
  BY DEF IInv
<1>2. QED
  BY Inductive, <1>1, PTL

\* As long as no two conversions run at the same time, each leaves TZ as the
\* server found it (DateTime.cc 25-30).
THEOREM TZIsRestored == Spec => []TZRestored
<1>1. IInv => TZRestored
  BY DEF IInv, ZonesRead, NobodyOverlaps, TZRestored
<1>2. QED
  BY Inductive, <1>1, PTL
==============================================================================
