CONSTANTS
  p1 = p1
  p2 = p2
  Players <- MCPlayers
  Pokes <- MCPokes
  Songs <- MCSongs
  MaxTime = 5
SPECIFICATION Spec
CONSTRAINT Calm
SYMMETRY Alike
INVARIANTS
  Unwound
  ThreadHasBoard
PROPERTY Delivered
