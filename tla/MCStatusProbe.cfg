SPECIFICATION Spec
CONSTANTS
  Requests = {q1, q2}
  Refs = {r1, r2}
  Hosts = {h1}
  Down = {}
  NoFile = NoFile
  NoEntry = NoEntry
  TTL = 2
  Dial = 1
  MaxRev = 2
  MaxTime = 2
  MaxChanges = 1
  MaxStarts = 2
INVARIANTS
  StatusHonest
PROPERTIES
  HealthFresh
  Answered
CHECK_DEADLOCK FALSE
