CONSTANTS
  KeyTypes <- MCKeyTypes
  Columns <- MCColumns
  Texts <- MCTexts
  Half = 4
SPECIFICATION Spec
INVARIANTS
  PrintsKeys
  SelectsNoOtherKey
  KeysFindTheirEntries
