CONSTANTS
  Width32 = 2
  Width64 = 3
  NoType = NoType
  RecursionLimit = 4
  Schema <- MCSchema
  Inputs <- PackedInTwoChunks
  Unconvertible <- MCUnconvertible
SPECIFICATION Spec
PROPERTIES
  SelectsMatchingFields
