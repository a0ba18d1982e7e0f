SPECIFICATION ReplaySpec
CONSTANTS
  p1 = p1
  p2 = p2
  n1 = n1
  n2 = n2
  EmptyNonce = EmptyNonce
  NoRequest = NoRequest
  Handlers = {p1, p2}
  Nonces = {n1, n2}
  Requests <- MCRequests
  Window = 1
  Stall = 1
  MaxSkew = 1
  TTL = 5
  MaxTime = 9
SYMMETRY MCSymmetry
INVARIANTS
  ReplayTypeOK
  NoReplay
PROPERTIES
  RefusedOnlyIfAccepted
