SPECIFICATION FairSpec
CONSTANTS
  o1 = o1
  o2 = o2
  far = far
  uni = uni
  ani = ani
  gem = gem
  XponOnu = XponOnu
  EthernetUNI = EthernetUNI
  ANI = ANI
  GemPort = GemPort
  Alarms = Alarms
  Onu = {o1, o2}
  FarOnu = {far}
  Child = {uni, ani, gem}
  Single = {Alarms}
  Templ = {EthernetUNI, ANI, GemPort}
  Root = XponOnu
  TemplateOf <- MCTemplateOf
  Owner <- MCOwner
  Singletons <- MCSingletons
  Templates <- MCTemplates
  NrTimes = 3
  MaxFailures = 1
  SelfAdded = {o1, far, uni, gem}
  Removed = {}
INVARIANTS WalkComplete
PROPERTIES StopsPollingWhenFound OnuFound
CHECK_DEADLOCK FALSE
