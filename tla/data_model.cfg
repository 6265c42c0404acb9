SPECIFICATION Spec
CONSTANTS
  Index = {"1", "2"}
  Names <- MCNames
  Values = {"Up", "Down"}
  MayFail = TRUE
INVARIANTS TypeOK SuccessIsTrue ResetClears ReadsAnswerable IdsAsDenoted
PROPERTIES RefusedChangesNothing ImplementsTree
CHECK_DEADLOCK FALSE
