SPECIFICATION FairEnvelope
CONSTANTS
  LfsrLimit = 8
  Periods <- SomePeriods
  FirstPeriod = 2
  MaxLevel = 3
  Delays <- SmallDelays
  Levels <- SustainLevels
  MaxPokes = 5
  MaxSince = 15
INVARIANTS
  SilenceIsLocked
  StepsInTime
PROPERTIES
  ReleaseEndsInSilence
