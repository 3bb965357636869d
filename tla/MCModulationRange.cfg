SPECIFICATION Spec
CONSTANTS
  Second = 10
  SampleRate = 3
  ExpectedDuration = 13
  Symbols <- MCSymbols
  MaxData = 2
INVARIANT
  OutOfRangeRecovered
