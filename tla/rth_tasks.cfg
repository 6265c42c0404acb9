SPECIFICATION FairSpec
CONSTANTS
  o1 = o1
  o2 = o2
  a3 = a3
  Onu = {o1, o2}
  Ani = {a3}
  PathPrefix <- MCPathPrefix
  MaxChecks = 2
  MaxCallbacks = 3
INVARIANTS TypeOK TimerOrPass OneTaskPerObject
PROPERTIES ExaminedOnce PassIsOneStep ImplementsRequests
CHECK_DEADLOCK FALSE
