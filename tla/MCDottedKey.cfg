CONSTANTS
  Width32 = 2
  Width64 = 3
  NoType = NoType
  Schema <- WithoutEnumMap
  RootTypes <- MCRoots
  InnerParts = {}
  LastParts = {}
  MaxVisitors = 100
  Queries <- DottedKey
  DescSets <- MCDescSets
  FieldName <- MCFieldName
  IntRange = 1000
SPECIFICATION TextSpec
INVARIANTS
  UnderstandsQueries
