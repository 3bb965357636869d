SPECIFICATION Spec
CONSTANTS
  Samples = 2
  MaxData = 3
INVARIANTS
  TypeOK
  NoDataRace
  SuccessMeansComplete
PROPERTIES
  WaitEnds
  IsJob
