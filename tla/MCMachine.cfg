SPECIFICATION Spec
CONSTANTS
  CyclesPerRaster = 8
  LinesPerScreen = 4
  LowLines = 3
  ResetLine = 2
  Rows = 2
  FirstBadLine = 2
  LastBadLine = 3
  StunFrom = 2
  BlockFrom = 5
  BlockTo = 6
  Songs <- AllSongs
INVARIANTS
  RasterOncePerFrame
PROPERTIES
  RasterIRQRaised
  IRQOnTime
  NMIOnEdge
