\* Two starts of one model, the troubles of vLLM, changes of the card and of the profile file.
CONSTANTS
  NoValue = NoValue
  Model = m
  Others = {o}
  Card = 100000
  Slack = 1000
  DefaultShare = 95
  FitShare = 90
  FitOverhead = 2000
  MaxNumSeqs = 32
  Needs <- MCNeeds
  Usages = {0, 30000}
  Asks <- MCAsks
  Profiles <- MCProfiles
  MaxStarts = 2
  MaxChanges = 1
  NoServer = NoServer
  NoUnit = NoUnit
  NoProfile = NoProfile
  NoError = NoError
SPECIFICATION Spec
INVARIANTS TypeOK FitRuns RunsFit ReplayRuns OthersKept
