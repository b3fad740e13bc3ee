SPECIFICATION MCSpec
CONSTANTS
  Sessions = 3
  Scripts = 4
  LongScripts = TRUE
  Killable = TRUE
  CloseAnyTime = TRUE
  Overflow = TRUE
INVARIANTS
  ExclusiveWhileCalm
  CleanWhileCalm
PROPERTIES
  InOrderWhileCalm
  ClientEnds
