CONSTANTS
  web = web  api = api
  w1 = w1  w2 = w2  a1 = a1
  Procs = {p1, p2}
  Pools = {web, api}
  Backends = {w1, a1}
  PoolOf <- MCPoolOf
  MaxClock = 0
SPECIFICATION Spec
INVARIANT AckedStays
