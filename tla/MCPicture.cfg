SPECIFICATION Spec
\* All durations in units of 100 ns, as the constructors set them.
CONSTANTS
  Leader = 3000000
  Break = 100000
  StartBit = 300000
  Bit = 300000
  StopBit = 300000
  VisTolerance = 10000
  Code = 44
  SyncPulse = 48620
  SyncPorch = 5720
  Separator = 5720
  Pixel = 4576
  Width = 4
  Height = 3
  LineTolerance = 100
  PixelsTolerance = 100
  TotalTolerance = 10000
  Modes <- MCModes
INVARIANTS
  TypeOK
  NeverThrows
  RightRow
  OnSchedule
  HeaderRight
  PaintedRight
