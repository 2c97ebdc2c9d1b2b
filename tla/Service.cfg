\* The event loop beside two worker threads, a call each; work outside the service may hang.
CONSTANTS
  w1 = w1
  w2 = w2
  loop = loop
  Workers = {w1, w2}
  Loop = loop
  CallsOf <- MCCallsOf
  MaxCalls = 1
SPECIFICATION FairSpec
INVARIANTS NoWaitingCycle
PROPERTIES LoopNeverStuck
CHECK_DEADLOCK FALSE
