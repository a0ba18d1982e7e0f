SPECIFICATION Spec
CONSTANTS
  Requests = {q1, q2}
  Refs = {r1, r2}
  Hosts = {h1}
  Down = {}
  NoFile = NoFile
  NoEntry = NoEntry
  TTL = 2
  Dial = 1
  MaxRev = 2
  MaxTime = 2
  MaxChanges = 0
  MaxStarts = 2
INVARIANT TestDependsOnConfigAlone
CHECK_DEADLOCK FALSE
