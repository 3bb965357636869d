SPECIFICATION Spec
CONSTANTS
  NPorts = 3
  Requests <- MCRequests
  DefaultLength = 2
  MaxIn = 3
  MaxOut = 2
  ProgramOrder = TRUE
INVARIANTS
  TypeOK
  NoTornSlot
  NoAbort
  OnAirIsWhole
PROPERTIES
  SlotServed
  KeepsPromise
CHECK_DEADLOCK FALSE
