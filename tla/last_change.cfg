SPECIFICATION Spec
CONSTANTS
  uni = uni
  ani = ani
  Never = Never
  Intf = {uni, ani}
  Uni = {uni}
  Statuses = {"Up", "Down"}
  MaxTime = 3
  MaxEvents = 3
INVARIANTS NeverOverstated Attached OnlyOvertakenLeaks
