SPECIFICATION FairSpec
CONSTANTS
  LargestUIntMax = 255
  UIntMax = 15
  ExponentNeedsDigit = TRUE
  StackLimit = 4
  MaxTokens = 6
  FeatureSets <- MCFeatureSets
  Tokens <- MCTokens
  GivenDocuments <- MCGivenDocuments
CHECK_DEADLOCK FALSE
INVARIANTS
  TypeOK
  ReadsJson
  ReadsOnlyJson
  ErrorsTell
  NumbersExact
PROPERTIES
  RoundTrip
  Terminates
