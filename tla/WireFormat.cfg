SPECIFICATION Spec
CONSTANTS
  Lists <- ListsDef
  Cap = 24
INVARIANTS
  IndInv
  AnswerWhole
  PrintsWholeMarkets
PROPERTIES
  ClientPrints
CHECK_DEADLOCK FALSE
