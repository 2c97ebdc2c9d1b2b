\* The loop and a move take samples, SQLite fails, the service restarts at any time.
CONSTANTS
  Movers = {m1}
  NoOne = NoOne
  NoTime = NoTime
  Temps = {1, 2}
  Interval = 2
  RingKeep = 2
  DbKeep = 1
  PruneEvery = 2
  MaxTime = 4
  MaxMoves = 1
SPECIFICATION Spec
INVARIANTS TypeOK SeesItsStop RingInOrder PeakIsKept ShownIsTheWorst
