SPECIFICATION Spec
CONSTANTS
  o1 = o1
  o2 = o2
  a1 = a1
  a2 = a2
  u1 = u1
  Onu = {o1}
  Ani = {a1}
  Uni = {u1}
  OnuOf <- MCOnuOf
  PathPrefix <- MCPathPrefix
  Switched = {o1, a1}
  DefaultOnu = {o1}
  MaxChecks = 4
  MaxEvents = 2
  CallStyle = {"index", "full_path"}
  Reports = {"none", "hal"}
  Faults = {"apply", "file"}
INVARIANTS TimerArmed OneTaskPerObject
PROPERTIES NoPrematureOnuEnable
