\* A first start against the poll loop.
CONSTANTS
  Names = {a}
  Cards = {0}
  Ports = {p1}
  Threads = {t1}
  Requests = {"start"}
  Asks = {0}
  Ceilings = {95}
  DefaultFraction = 95
  MemFree = {60}
  MaxAttempts = 2
  Files <- MCEmpty
  LaunchMayFail = FALSE
  StopMayFail = FALSE
  MaxCalls = 1
  MaxLaunches = 3
  MaxCrashes = 0
  NoServer = NoServer
  NoUnit = NoUnit
  NoJob = NoJob
  NoWatch = NoWatch
  NoPlace = NoPlace
SPECIFICATION Spec
INVARIANTS NoOrphanUnit
