CONSTANTS
  Width32 = 2
  Width64 = 3
  NoType = NoType
  RecursionLimit = 4
  Schema <- MCSchema
  Inputs <- MCInputs
  Unconvertible <- MCUnconvertible
SPECIFICATION Spec
INVARIANTS
  ReadsOwnBytes
  TypeOK
  StacksDisjoint
  DepthCountsOpenFields
  IdleVisitorsAreClean
  RecursionIsBounded
PROPERTIES
  SelectsMatchingFields
  Termination
  StepsMoveOn
