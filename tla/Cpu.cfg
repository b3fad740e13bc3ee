SPECIFICATION Spec
CONSTANTS
  MaxNesting = 2
  MaxInterrupts = 2
  SingleOps = TRUE
PROPERTIES
  ArithmeticRight
  DurationRight
  Contained
  Transparent
  HandlersEnd
