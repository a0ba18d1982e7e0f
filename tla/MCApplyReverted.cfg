SPECIFICATION Spec
CONSTANTS
  a = a
  b = b
  h = h
  repoA = repoA
  repoB = repoB
  d1 = d1
  d2 = d2
  D1 = D1
  p1 = p1
  p2 = p2
  NoFile = NoFile
  NoRef = NoRef
  NoProc = NoProc
  NoJob = NoJob
  NoTree = NoTree
  Unread = Unread
  Procs = {p1, p2}
  Refs = {a, b, h}
  Repos = {repoA, repoB}
  Domains = {d1, d2, D1}
  Fold <- CaseFold
  Keys <- MCKeys
  Bodies <- MCBodies
  Payloads <- MCPayloads
  InitTrees <- MCInitTrees
  Accepts <- MCAccepts

PROPERTY RevertedIsReverted
