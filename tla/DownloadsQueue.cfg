\* Two clients beside the background loop; requests about b may overlap, those about a
\* may not, and a is asked for in two revisions.
CONSTANTS
  a = a
  b = b
  v1 = v1
  v2 = v2
  Repos = {a, b}
  Revs = {v1, v2}
  RevsOf <- TwoOfA
  Threads = {t1, t2}
  MaxParallel = 1
  Overlap = {b}
  SpawnMayFail = TRUE
  MaxCalls = 3
  MaxCrashes = 1
  NoItem = NoItem
  NoProc = NoProc
  NoRev = NoRev
  NoReq = NoReq
SPECIFICATION FairSpec
INVARIANTS TypeOK   RestartKeepsQueue NoOvertaking
PROPERTIES ReadyStaysReady DownloadsSettle
