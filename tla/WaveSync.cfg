SPECIFICATION Spec
CONSTANTS
  Full = 64
  NoiseBit = 2
  WidthUnit = 1
  SampleCycles = 4
  ResetDelay = 6
  FloatDuration = 3
  Writes <- SongWrites
  Tunings <- TuningsByVoice
  Mutable = {2}
  SumSize = 2048
  MaxCycles = 28
  MaxWrites = 3
CHECK_DEADLOCK FALSE
PROPERTIES
  SyncOnRise
