CONSTANTS
  Char <- MCChar
  DivValues <- MCDivValues
  TxValues <- MCChar
  TicksMod = 4
  MaxTyped = 2
  MaxPrinted = 2
SPECIFICATION FairSpec
INVARIANTS TxFlagsMatchFrame
PROPERTIES ReceiverKeepsByte TxIntMarksFrameEnd FrameCompletes
