\* One request at a time, the manager restarted at any point, shares that grow and shrink.
CONSTANTS
  Names = {a, b}
  Cards = {0}
  Ports = {p1, p2}
  Threads = {t1}
  Requests = {"start", "stop", "move"}
  Asks = {0}
  Ceilings = {95}
  DefaultFraction = 95
  MemFree = {60, 95}
  MaxAttempts = 2
  Files <- MCOne
  LaunchMayFail = FALSE
  StopMayFail = FALSE
  MaxCalls = 2
  MaxLaunches = 3
  MaxCrashes = 1
  NoServer = NoServer
  NoUnit = NoUnit
  NoJob = NoJob
  NoWatch = NoWatch
  NoPlace = NoPlace
SPECIFICATION Spec
SYMMETRY Symmetry
INVARIANTS DistinctPorts SharesFit
PROPERTIES ImplementsPlaces
