SPECIFICATION MCSpec
CONSTANTS
  Headers <- OneOrThree
  Targets <- DigiTargets
  Gaps = {4, 140}
  Models = {8580}
  UserMutes = {3}
  MaxWrites = 4
  MaxCalls = 1
INVARIANTS
  SourceOfSample
  ReadsBack
PROPERTIES
  Documented
  Forgotten
