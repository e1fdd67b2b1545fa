CONSTANTS
  t1 = t1
  t2 = t2
  Threads = {t1, t2}
  r1 = r1
  r2 = r2
  r3 = r3
  Requests = {r1, r2, r3}
  Scripts <- MCScripts
  Zones = {"Europe/Warsaw"}
SPECIFICATION Spec
INVARIANTS OverlapNeeded TZRestored
PROPERTY RequestsAnswered
CHECK_DEADLOCK FALSE
