SPECIFICATION BeaconSpec
CONSTANTS
  MsgSources = {1}
  ConstLength <- MCConstLength
  Signals <- MCSignals
  BufferSize = 1
  SstvSrc = 1
  MorseSrc = 2
  Pause = 1
  Image = 2
  BeaconTime = 2
  AudioMayFail = FALSE
  MaxInterrupts = 0
PROPERTY
  FailureSkips
