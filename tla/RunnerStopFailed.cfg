\* A stop that fails after its port was given away.
CONSTANTS
  Names = {a, b}
  Cards = {0}
  Ports = {p1}
  Threads = {t1, t2}
  Requests = {"start", "stop"}
  Asks = {0}
  Ceilings = {95}
  DefaultFraction = 95
  MemFree = {60}
  MaxAttempts = 2
  Files <- MCOne
  LaunchMayFail = FALSE
  StopMayFail = TRUE
  MaxCalls = 2
  MaxLaunches = 3
  MaxCrashes = 0
  NoServer = NoServer
  NoUnit = NoUnit
  NoJob = NoJob
  NoWatch = NoWatch
  NoPlace = NoPlace
SPECIFICATION Spec
INVARIANTS DistinctPorts
