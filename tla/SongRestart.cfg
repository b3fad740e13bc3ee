SPECIFICATION Spec
CONSTANT Callers <- RsidListener
INVARIANTS
  StartsAlike
