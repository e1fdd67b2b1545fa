------------------------------- MODULE Server -------------------------------
(***************************************************************************)
(* The HTTP server (fovrisd.cc) and the conversion of dates (DateTime.cc). *)
(* Every request has a program of its own; what the threads of the server  *)
(* share is the variable TZ of the process, which a conversion clears and  *)
(* restores around mktime.                                                 *)
(*                                                                         *)
(* A script is the sequence of its dates, which are valid or not, and the  *)
(* way it ends.  A time is the zone in which mktime took a date.           *)
(***************************************************************************)
EXTENDS Naturals, Sequences

CONSTANTS
  Threads,      \* of the server; crow takes one for each processor
  Requests,
  Scripts,      \* records [dates, end], the dates a sequence of Booleans
  Zones         \* the values that TZ may have when the server starts

ASSUME ScriptsAreRecords == Scripts \subseteq [dates : Seq(BOOLEAN), end : STRING]

Unset == "unset"
Utc == ""

VARIABLES
  TZ,           \* a variable of the environment
  initialTZ,
  job,          \* the request of each thread, or Idle
  script,
  pc,           \* idle, parsing, or where in my_timegm the thread is
  tz,           \* its local tz
  times,        \* of the dates it has converted
  answers,      \* of each request: Waiting, or its script and the answer
  overlapped    \* the requests with a conversion during another one

locals == <<job, script, pc, tz, times>>
vars == <<TZ, initialTZ, locals, answers, overlapped>>

Idle == "idle"
NoScript == [dates |-> << >>, end |-> "ok"]
Waiting == [script |-> NoScript, answer |-> [code |-> 0, times |-> << >>]]

Init ==
  /\ TZ \in Zones \cup {Unset, Utc}
  /\ initialTZ = TZ
  /\ job = [t \in Threads |-> Idle]
  /\ script = [t \in Threads |-> NoScript]
  /\ pc = [t \in Threads |-> "idle"]
  /\ tz = [t \in Threads |-> Unset]
  /\ times = [t \in Threads |-> << >>]
  /\ answers = [r \in Requests |-> Waiting]
  /\ overlapped = {}

InTimegm(t) == pc[t] \notin {"idle", "parsing"}

Untaken(r) == answers[r] = Waiting /\ \A t \in Threads : job[t] # r

Accept(t) ==
  /\ pc[t] = "idle"
  /\ \E r \in Requests, s \in Scripts :
       /\ Untaken(r)
       /\ job' = [job EXCEPT ![t] = r]
       /\ script' = [script EXCEPT ![t] = s]
  /\ pc' = [pc EXCEPT ![t] = "parsing"]
  /\ times' = [times EXCEPT ![t] = << >>]
  /\ UNCHANGED <<TZ, initialTZ, tz, answers, overlapped>>

\* The parser meets the next date.
AtDate(t) == pc[t] = "parsing" /\ Len(times[t]) < Len(script[t].dates)

DateIsValid(t) == script[t].dates[Len(times[t]) + 1]

GetEnv(t) ==
  /\ AtDate(t) /\ DateIsValid(t)
  /\ tz' = [tz EXCEPT ![t] = TZ]
  /\ pc' = [pc EXCEPT ![t] = "got"]
  /\ LET others == {u \in Threads \ {t} : InTimegm(u)}
     IN  overlapped' = overlapped \cup {job[u] : u \in others}
                         \cup (IF others = {} THEN {} ELSE {job[t]})
  /\ UNCHANGED <<TZ, initialTZ, job, script, times, answers>>

\* A mutant: setenv is told not to overwrite.
SetEnvIfUnset(t) ==
  /\ pc[t] = "got"
  /\ TZ' = IF TZ = Unset THEN Utc ELSE TZ
  /\ pc' = [pc EXCEPT ![t] = "set"]
  /\ UNCHANGED <<initialTZ, job, script, tz, times, answers, overlapped>>

SetEnv(t) ==
  /\ pc[t] = "got"
  /\ TZ' = Utc
  /\ pc' = [pc EXCEPT ![t] = "set"]
  /\ UNCHANGED <<initialTZ, job, script, tz, times, answers, overlapped>>

\* mktime reads TZ again.
MakeTime(t) ==
  /\ pc[t] = "set"
  /\ times' = [times EXCEPT ![t] = Append(@, TZ)]
  /\ pc' = [pc EXCEPT ![t] = "made"]
  /\ UNCHANGED <<TZ, initialTZ, job, script, tz, answers, overlapped>>

\* A mutant: a variable that was not set is not unset again.
RestoreIfSet(t) ==
  /\ pc[t] = "made"
  /\ TZ' = IF tz[t] = Unset THEN TZ ELSE tz[t]
  /\ pc' = [pc EXCEPT ![t] = "parsing"]
  /\ UNCHANGED <<initialTZ, job, script, tz, times, answers, overlapped>>

Restore(t) ==
  /\ pc[t] = "made"
  /\ TZ' = tz[t]
  /\ pc' = [pc EXCEPT ![t] = "parsing"]
  /\ UNCHANGED <<initialTZ, job, script, tz, times, answers, overlapped>>

Respond(t, answer) ==
  /\ answers' = [answers EXCEPT ![job[t]] = [script |-> script[t], answer |-> answer]]
  /\ job' = [job EXCEPT ![t] = Idle]
  /\ pc' = [pc EXCEPT ![t] = "idle"]
  /\ script' = [script EXCEPT ![t] = NoScript]
  /\ times' = [times EXCEPT ![t] = << >>]
  /\ tz' = [tz EXCEPT ![t] = Unset]
  /\ UNCHANGED <<TZ, initialTZ, overlapped>>

\* What queryPost answers when the parser has read all dates.  It does not
\* catch the exception of a wrong module, or of evaluate(), for which crow
\* answers 500.
AnswerTo(end, converted) ==
  CASE end = "syntax" -> [code |-> 400, times |-> << >>]
    [] end = "module" -> [code |-> 500, times |-> << >>]
    [] end = "query" -> [code |-> 400, times |-> << >>]
    [] OTHER -> [code |-> 200, times |-> converted]

\* A mutant: nobody catches that exception, and the thread ends.
FailDateUncaught(t) ==
  /\ AtDate(t) /\ ~DateIsValid(t)
  /\ pc' = [pc EXCEPT ![t] = "ended"]
  /\ UNCHANGED <<TZ, initialTZ, job, script, tz, times, answers, overlapped>>

\* Neither is the exception of a date that does not exist a ParsingError.
FailDate(t) == AtDate(t) /\ ~DateIsValid(t) /\ Respond(t, [code |-> 500, times |-> << >>])

Answer(t) ==
  /\ pc[t] = "parsing" /\ Len(times[t]) = Len(script[t].dates)
  /\ Respond(t, AnswerTo(script[t].end, times[t]))

ThreadStep(t) ==
  Accept(t) \/ GetEnv(t) \/ SetEnv(t) \/ MakeTime(t) \/ Restore(t) \/ FailDate(t) \/ Answer(t)

Next == \E t \in Threads : ThreadStep(t)

\* No thread of the server stops while it has work.
Spec == Init /\ [][Next]_vars /\ \A t \in Threads : WF_vars(ThreadStep(t))
------------------------------------------------------------------------------
\* What a server with one thread and no TZ would answer.
AnswerAlone(s) ==
  IF \E i \in DOMAIN s.dates : ~s.dates[i] THEN [code |-> 500, times |-> << >>]
  ELSE AnswerTo(s.end, [i \in DOMAIN s.dates |-> Utc])

\* A request none of whose conversions ran during another one is answered as
\* if it were alone, even if conversions of others ran at the same time
\* before and left TZ wrong (DateTime.cc 18-32).
OverlapNeeded ==
  \A r \in Requests \ overlapped :
    answers[r] # Waiting => answers[r].answer = AnswerAlone(answers[r].script)

\* TZ is either as it was when the server started or empty; and it is as it
\* was whenever no thread converts a date and none has during another one.
TZRestored ==
  /\ TZ \in {initialTZ, Utc}
  /\ overlapped = {} /\ (\A t \in Threads : ~InTimegm(t)) => TZ = initialTZ

\* Every request is answered, whatever error its script has.
RequestsAnswered == \A r \in Requests : <>(answers[r] # Waiting)
==============================================================================
