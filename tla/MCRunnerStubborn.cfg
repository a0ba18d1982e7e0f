SPECIFICATION FairSpec
CONSTANTS
  sh = sh
  c1 = c1
  c2 = c2
  Shell = sh
  Children = {c1}
  MaxWritten = 1
  PipeLines = 1
INVARIANTS
  NobodyStays
PROPERTIES
  AlwaysReturns
