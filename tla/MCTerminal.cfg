CONSTANTS
  Char <- MCChar
  DivValues <- MCDivValues
  TxValues <- MCChar
  Hello <- MCHello
  Prompt <- MCPrompt
  Replies <- MCReplies
  Scratch <- MCScratch
  CtlC = 3
  NL = 10
  LineLen = 2
  TicksMod = 2
  MaxTyped = 4
  MaxPrinted = 20
SPECIFICATION TerminalFairSpec
INVARIANTS ReadlineHasRoom LineAsReceived NoStaleRead
PROPERTIES InputInOrder NoTransmitOverrun PrintingEnds DeliveredWithTheNext
