\* Every start comes to an end; one request at a time.
CONSTANTS
  Names = {a}
  Cards = {0}
  Ports = {p1, p2}
  Threads = {t1}
  Requests = {"start", "stop", "move"}
  Asks = {0}
  Ceilings = {95}
  DefaultFraction = 95
  MemFree = {60}
  MaxAttempts = 2
  Files <- MCOne
  LaunchMayFail = TRUE
  StopMayFail = FALSE
  MaxCalls = 2
  MaxLaunches = 12
  MaxCrashes = 0
  NoServer = NoServer
  NoUnit = NoUnit
  NoJob = NoJob
  NoWatch = NoWatch
  NoPlace = NoPlace
SPECIFICATION FairSpec
INVARIANTS StoppedIsDown UnitServesItsPort
PROPERTIES StartSettles
