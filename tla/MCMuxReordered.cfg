SPECIFICATION Spec
CONSTANTS
  NPorts = 3
  Requests <- MCRequests
  DefaultLength = 2
  MaxIn = 3
  MaxOut = 2
  ProgramOrder = FALSE
INVARIANT
  NoAbort
CHECK_DEADLOCK FALSE
