SPECIFICATION Spec
CONSTANTS
  Objects = {o1}
  MaxStarts = 3
INVARIANTS FreedOnce NothingLeft Served StartedOrShown PasswordFound CallsReachModule
CHECK_DEADLOCK FALSE
