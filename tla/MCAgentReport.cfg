SPECIFICATION Spec
CONSTANTS
  Pids = {1, 2}
  Images = {"web", "db"}
  Starts <- SomeStarts
  TopN = 1
  MaxProcs = 1
  SmartTTL = 2
  FactsTTL = 2
  SecurityTTL = 2
  Width = 3
  MaxTime = 3
  MaxChanges = 1
  MaxFaults = 1
INVARIANTS
  NumbersTrue
  JoinsComplete
PROPERTIES
  ThrottleHolds
  Reported
\* The clock stops at its bound.
CHECK_DEADLOCK FALSE
