SPECIFICATION Spec
CONSTANTS
  Second = 10
  SampleRate = 3
  ExpectedDuration = 10
  Symbols <- MCSymbols
  MaxData = 3
INVARIANTS
  SampleInSymbol
  PhaseContinuous
  SignalFits
PROPERTY
  IsOfflineCompute
