SPECIFICATION BeaconSpec
CONSTANTS
  MsgSources = {1}
  ConstLength <- MCConstLength
  Signals <- MCSignals
  BufferSize = 1
  SstvSrc = 1
  MorseSrc = 2
  Pause = 1
  Image = 2
  BeaconTime = 2
  AudioMayFail = TRUE
  MaxInterrupts = 3
INVARIANTS
  BeaconTypeOK
  AssertsHold
  NoStaleTimer
  IdentifiedFirst
  ScheduledOnAir
  NeverStuck
  JobsOver
PROPERTIES
  DisciplinedClient
  KeepsIdentifying
CHECK_DEADLOCK FALSE
