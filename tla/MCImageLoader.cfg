SPECIFICATION Spec
CONSTANT MaxRounds = 4
INVARIANTS
  TypeOK
  ImageIsWhole
PROPERTIES
  EndIsNoticed
  IsJob
CHECK_DEADLOCK FALSE
