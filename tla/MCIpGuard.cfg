SPECIFICATION Spec
CONSTANTS
  plain6 = plain6
  slash6 = slash6
  loop6 = loop6
  NoFile = NoFile
  Idle = Idle
  W = 3
  Addr6 = {plain6, slash6, loop6}
  Protected <- MCProtected
  Loopback <- MCLoopback
  Loopback6 <- MCLoopback6
  Policies <- MCPolicies
  Runs = {r1, r2}
  MaxFaults = 1
SYMMETRY Calls
INVARIANTS
  AppliedIsKept
  ProtectedNeverBlocked
PROPERTIES
  WantedStays
