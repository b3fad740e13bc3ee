SPECIFICATION SpecTiming
CONSTANTS
  ByteSize = 2
  Programs <- MCPrograms
INVARIANT NoLostInterrupt
PROPERTIES
  TransitionTable
  Period
  LinkedTicks
