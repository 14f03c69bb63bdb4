CONSTANTS
  Width32 = 2
  Width64 = 3
  NoType = NoType
  Schema <- WithEnumMap
  RootTypes <- MCRoots
  InnerParts = {}
  LastParts = {}
  MaxVisitors = 100
  Queries <- EnumMapQueries
  DescSets <- MCDescSets
  FieldName <- MCFieldName
  IntRange = 1000
SPECIFICATION TextSpec
INVARIANTS
  EmitterHasDescriptor
