SPECIFICATION FairSpec
CONSTANTS
  o1 = o1
  o2 = o2
  a1 = a1
  a2 = a2
  u1 = u1
  Onu = {o1, o2}
  Ani = {a1, a2}
  Uni = {u1}
  OnuOf <- MCOnuOf
  PathPrefix <- MCPathPrefix
  Switched = {o1, a2}
  DefaultOnu = {o1}
  MaxChecks = 4
  MaxEvents = 2
  CallStyle = {"index"}
  Reports = {"none", "hal"}
  Faults = {}
INVARIANTS CrashSafe QueueTruthful SettledEnable SettledDisable PersistedIsRestored
PROPERTIES EnableReachesHal
