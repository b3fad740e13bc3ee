SPECIFICATION Spec
CONSTANTS
  Sessions = 1
  Scripts = 2
  LongScripts = FALSE
  Killable = FALSE
  CloseAnyTime = TRUE
  Overflow = FALSE
INVARIANT MuteWhenClosed
