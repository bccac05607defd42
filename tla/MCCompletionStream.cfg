\* Four tokens, and one more that a split character may bring.
CONSTANTS
  Vocab <- MCVocab
  StopLists <- MCStopLists
  MaxTokens = 4
  MaxLen = 5
SPECIFICATION Spec
INVARIANT TypeOK StopsAreHeldBack StreamIsWhole StreamIsAnswer NothingHeldNeedlessly
CHECK_DEADLOCK FALSE
