\* Requests of any kind about one model overlap, systemctl stop may fail, the manager may restart.
CONSTANTS
  Names = {a}
  Cards = {0}
  Ports = {p1, p2}
  Threads = {t1, t2}
  Requests = {"start", "stop", "move"}
  Asks = {0}
  Ceilings = {95}
  DefaultFraction = 95
  MemFree = {60}
  MaxAttempts = 2
  Files <- MCOne
  LaunchMayFail = FALSE
  StopMayFail = TRUE
  MaxCalls = 3
  MaxLaunches = 3
  MaxCrashes = 1
  NoServer = NoServer
  NoUnit = NoUnit
  NoJob = NoJob
  NoWatch = NoWatch
  NoPlace = NoPlace
SPECIFICATION Spec
SYMMETRY Symmetry
INVARIANTS TypeOK SavedIsCurrent StoppedStaysStopped
PROPERTIES PollJudgesItsLaunch
