SPECIFICATION AudioSpec
CONSTANTS
  MsgSources = {1, 2}
  ConstLength <- MCConstLength
  Signals = {1, 3}
  BufferSize = 1
INVARIANTS
  AudioTypeOK
  StreamsAligned
  ConstantsAligned
PROPERTIES
  SignalsDrain
CHECK_DEADLOCK FALSE
