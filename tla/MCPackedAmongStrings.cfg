CONSTANTS
  Width32 = 2
  Width64 = 3
  NoType = NoType
  RecursionLimit = 4
  Schema <- MCSchema
  Inputs <- PackedAmongStrings
  Unconvertible <- MCUnconvertible
SPECIFICATION Spec
PROPERTIES
  SelectsMatchingFields
