CONSTANTS
  Values <- MCValues
  Declared <- MCDeclared
  Texts <- MCTexts
  Unit = 4
  Tiny = 2
  Million = 10
  Half = 16
  Long = 64
  Precise = 32
  MaxCalls = 2
SPECIFICATION Spec
CHECK_DEADLOCK FALSE
INVARIANTS ReferencesReadAlike GettersAgree ListsAreJson
