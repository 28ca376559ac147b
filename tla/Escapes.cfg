SPECIFICATION Spec
CONSTANTS
  LargestUIntMax = 255
  UIntMax = 15
  ExponentNeedsDigit = TRUE
  StackLimit = 4
  MaxTokens = 1
  FeatureSets <- DefaultsOnly
  Tokens <- NoTokens
  GivenDocuments <- PlaneZero
CHECK_DEADLOCK FALSE
INVARIANTS
  OnlySurrogatesReplaced
