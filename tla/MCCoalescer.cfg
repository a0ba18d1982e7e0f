SPECIFICATION FairSpec
CONSTANTS
  p1 = p1
  p2 = p2
  p3 = p3
  r1 = r1
  r2 = r2
  repo1 = repo1
  k1 = k1
  k2 = k2
  None = None
  Procs = {p1, p2, p3}
  Refs = {r1, r2}
  Repos = {repo1}
  Keys = {k1, k2}
  Payloads <- MCPayloads
  MaxQueueLen = 1
INVARIANTS
  SlotSound
PROPERTIES
  SettledCovers
  EveryRequestAnswered
