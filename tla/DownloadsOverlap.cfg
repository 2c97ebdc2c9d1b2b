\* Two requests about the same model at a time.
CONSTANTS
  a = a
  b = b
  v1 = v1
  v2 = v2
  Repos = {a}
  Revs = {v1, v2}
  RevsOf <- BothOfA
  Threads = {t1, t2}
  MaxParallel = 1
  Overlap = {a}
  SpawnMayFail = FALSE
  MaxCalls = 2
  MaxCrashes = 0
  NoItem = NoItem
  NoProc = NoProc
  NoRev = NoRev
  NoReq = NoReq
SPECIFICATION Spec
PROPERTIES ActiveNotReplaced
