CONSTANTS
  Values <- MCValues
  Tokens <- MCTokens
  Beyond <- MCBeyond
SPECIFICATION Spec
INVARIANTS ReadsBackAsPrinted NumbersAsWritten
CHECK_DEADLOCK FALSE
