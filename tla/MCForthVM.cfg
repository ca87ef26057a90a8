CONSTANTS
  Char <- MCChar
  DivValues <- MCWords
  TxValues <- MCBytes
  Garbage <- MCGarbage
  Dividends <- MCDividends
  Highs <- MCHighs
  Divisors <- MCDivisors
  StackTop = 120
  TicksMod = 65536
  MaxTyped = 1
  MaxPrinted = 3
  Width = 16
  RamStart = 0
  RamEnd = 128
  RomStart = 128
  RomEnd = 160
  RomByte = 255
  UartStart = 65504
  UartEnd = 65511
SPECIFICATION ProgramFairSpec
INVARIANTS DivisionCorrect TxReturns
PROPERTY Halts
CHECK_DEADLOCK FALSE
