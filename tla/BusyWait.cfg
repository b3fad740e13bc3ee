SPECIFICATION WaitSpec
CONSTANTS
  MaxTime = 31
  Timeout = 5
  MaxGap = 2
  Horizon = 31
INVARIANTS
  Patient
  Prompt
