SPECIFICATION FairSpec
CONSTANTS
  sh = sh
  c1 = c1
  c2 = c2
  Shell = sh
  Children = {c1, c2}
  MaxWritten = 2
  PipeLines = 1
INVARIANTS
  ReturnSound
PROPERTIES
  ExecuteReturns
