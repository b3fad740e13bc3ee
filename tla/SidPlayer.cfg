SPECIFICATION Spec
CONSTANT Callers <- EachCaller
INVARIANTS
  BuffersFit
  StartsAlike
  SnapshotsInside
