SPECIFICATION Spec
CONSTANTS
  o1 = o1
  o2 = o2
  far = far
  uni = uni
  ani = ani
  gem = gem
  XponOnu = XponOnu
  EthernetUNI = EthernetUNI
  ANI = ANI
  GemPort = GemPort
  Alarms = Alarms
  Onu = {o1}
  FarOnu = {far}
  Child = {uni, ani, gem}
  Single = {Alarms}
  Templ = {EthernetUNI, ANI, GemPort}
  Root = XponOnu
  TemplateOf <- MCTemplateOf
  Owner <- MCOwner
  Singletons <- MCSingletons
  Templates <- MCTemplates
  NrTimes = 2
  MaxFailures = 1
  SelfAdded = {o1, ani, gem}
  Removed = {o1, ani}
INVARIANTS TypeOK TasksTimerArmed ChildrenNotForgotten
CHECK_DEADLOCK FALSE
