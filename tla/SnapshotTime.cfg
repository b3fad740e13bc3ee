SPECIFICATION Spec
CONSTANT Callers <- LongListener
INVARIANTS
  SnapshotOfBuffer
