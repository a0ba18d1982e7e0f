SPECIFICATION Spec
CONSTANTS
  Commands = {c1, c2}
  NoCmd = NoCmd
  Second = 2
  Wait = 3
  Margin = 4
  Latency = 1
  IdleDelay = 1
  Initial = 1
  Max = 4
  Factor = 2
  FailedBound = 3
  Attempts = 2
  MaxFaults = 2
  MaxOutages = 1
INVARIANTS
  BackoffSound
  LeasedIsHeld
PROPERTIES
  Settles
