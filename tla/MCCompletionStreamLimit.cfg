\* Characters of three bytes in two tokens, and six tokens where three are asked for.
CONSTANTS
  Vocab <- MCPieces
  StopLists <- MCStopLists
  MaxTokens = 3
  MaxLen = 6
SPECIFICATION Spec
INVARIANT MaxTokensGenerated
CHECK_DEADLOCK FALSE
