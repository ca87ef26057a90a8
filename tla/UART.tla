------------------------------- MODULE UART --------------------------------
(***************************************************************************)
(* The emulated UART (runtime/ForthCPU/UART.h) with the program that       *)
(* drives it left open: any access, in any order.  ForthVM::step runs one  *)
(* instruction, which reads or writes at most one register, and then calls *)
(* tick(); `ticking' says that the tick of the current instruction is due. *)
(***************************************************************************)
EXTENDS FSerial

CONSTANTS
  TicksMod,   \* the tick counter wraps at this value (2^32 in the code)
  DivValues,  \* the values programs write to the clock divider registers
  TxValues    \* the bytes they send

ASSUME UARTAssumption ==
  /\ TicksMod \in Nat \ {0}
  /\ DivValues \subseteq 0..(TicksMod - 1)
  /\ 1 \in DivValues
  /\ Char \subseteq TxValues /\ TxValues \subseteq 0..255

FrameBits == 10   \* start bit, eight data bits, stop bit

VARIABLES
  txInt, rxInt,          \* interrupt flags
  txDone, txActive,      \* transmitter status
  rxAvailable, rxD,      \* a received byte is waiting; the byte
  rxClkDiv, txClkDiv,    \* clock dividers
  txTicks, txBits,       \* ticks left of this bit, bits left of this frame
  ticking                \* an instruction ran and its tick() is due

txVars   == <<txInt, txDone, txActive, txTicks, txBits>>
rxVars   == <<rxInt, rxAvailable, rxD>>
divVars  == <<rxClkDiv, txClkDiv>>
uartVars == <<txVars, rxVars, divVars, ticking>>
vars     == <<serialVars, uartVars>>

TypeOK ==
  /\ SerialTypeOK
  /\ txInt \in BOOLEAN /\ rxInt \in BOOLEAN
  /\ txDone \in BOOLEAN /\ txActive \in BOOLEAN
  /\ rxAvailable \in BOOLEAN /\ rxD \in Char \cup {0}
  /\ rxClkDiv \in DivValues /\ txClkDiv \in DivValues
  /\ txTicks \in 0..(TicksMod - 1) /\ txBits \in 0..FrameBits
  /\ ticking \in BOOLEAN

(* The one UART object is global, so rxD, which has no initialiser, is 0.  *)
UARTInit ==
  /\ txInt = FALSE /\ rxInt = FALSE
  /\ txDone = TRUE /\ txActive = FALSE
  /\ rxAvailable = FALSE /\ rxD = 0
  /\ rxClkDiv = 1 /\ txClkDiv = 1
  /\ txTicks = 0 /\ txBits = 0
  /\ ticking = FALSE

Init == SerialInit /\ UARTInit
----------------------------------------------------------------------------
(* tick(), the transmitter: count the ticks of a bit and the bits of a     *)
(* frame.  txTicks is decremented before it is compared with 0, so with a  *)
(* divider of 0 it wraps.                                                  *)
(* Names that begin with Bug are mutants: the definition that follows them *)
(* with a plausible mistake.  No specification uses them.                  *)
TicksLeft == (txTicks + TicksMod - 1) % TicksMod

TxIdle ==
  /\ txBits = 0
  /\ txActive' = FALSE
  /\ txDone' = TRUE
  /\ UNCHANGED <<txInt, txTicks, txBits>>

TxCount ==
  /\ txBits > 0 /\ TicksLeft # 0
  /\ txTicks' = TicksLeft
  /\ UNCHANGED <<txInt, txDone, txActive, txBits>>

BugIntEachBit ==
  /\ txBits > 1 /\ TicksLeft = 0
  /\ txBits' = txBits - 1
  /\ txTicks' = txClkDiv
  /\ txActive' = TRUE
  /\ txInt' = TRUE
  /\ UNCHANGED txDone

BugBitNotCounted ==
  /\ txBits > 1 /\ TicksLeft = 0
  /\ txTicks' = txClkDiv
  /\ txActive' = TRUE
  /\ UNCHANGED <<txInt, txDone, txBits>>

TxNextBit ==
  /\ txBits > 1 /\ TicksLeft = 0
  /\ txBits' = txBits - 1
  /\ txTicks' = txClkDiv
  /\ txActive' = TRUE
  /\ UNCHANGED <<txInt, txDone>>

BugNoInterrupt ==
  /\ txBits = 1 /\ TicksLeft = 0
  /\ txBits' = 0
  /\ txTicks' = 0
  /\ txDone' = TRUE
  /\ txActive' = FALSE
  /\ UNCHANGED txInt

TxLastBit ==
  /\ txBits = 1 /\ TicksLeft = 0
  /\ txBits' = 0
  /\ txTicks' = 0
  /\ txInt' = TRUE
  /\ txDone' = TRUE
  /\ txActive' = FALSE

TickTx == TxIdle \/ TxCount \/ TxNextBit \/ TxLastBit

(* tick(), the receiver: take a character when the last one has been read. *)
BugOverwritesWaiting ==
  /\ Available
  /\ rxInt' = TRUE
  /\ rxAvailable' = TRUE
  /\ rxD' = NextChar
  /\ Getc

RxLatch ==
  /\ ~rxAvailable /\ Available
  /\ rxInt' = TRUE
  /\ rxAvailable' = TRUE
  /\ rxD' = NextChar
  /\ Getc

RxHold ==
  /\ rxAvailable \/ ~Available
  /\ UNCHANGED <<rxVars, typed, fetched, got>>

TickRx == RxLatch \/ RxHold

TickEffect ==
  /\ TickTx
  /\ TickRx
  /\ UNCHANGED <<divVars, printed>>

(* ForthVM::step: after the instruction, ram.clk().                        *)
Tick == ticking /\ ticking' = FALSE /\ TickEffect
----------------------------------------------------------------------------
(* write(): the register is selected by its offset from the base address.  *)
WriteStatus ==
  /\ txInt' = FALSE
  /\ UNCHANGED <<txDone, txActive, txTicks, txBits, divVars, printed>>

BugDoneNotCleared(data) ==
  /\ Putc(data % 256)
  /\ txActive' = TRUE
  /\ txTicks' = txClkDiv
  /\ txBits' = FrameBits
  /\ UNCHANGED <<txInt, txDone, divVars>>

WriteTxData(data) ==
  /\ Putc(data % 256)
  /\ txDone' = FALSE
  /\ txActive' = TRUE
  /\ txTicks' = txClkDiv
  /\ txBits' = FrameBits
  /\ UNCHANGED <<txInt, divVars>>

WriteRxClkDiv(data) == rxClkDiv' = data /\ UNCHANGED <<txClkDiv, txVars, printed>>
WriteTxClkDiv(data) == txClkDiv' = data /\ UNCHANGED <<rxClkDiv, txVars, printed>>

Write(addr, data) ==
  /\ \/ addr = 0 /\ WriteStatus
     \/ addr = 2 /\ WriteTxData(data)
     \/ addr = 3 /\ WriteRxClkDiv(data)
     \/ addr = 4 /\ WriteTxClkDiv(data)
     \/ addr \notin {0, 2, 3, 4} /\ UNCHANGED <<txVars, divVars, printed>>
  /\ UNCHANGED <<rxVars, typed, fetched, got>>

(* read(): only the data register has a side effect.                       *)
ReadRxData ==
  /\ rxAvailable' = FALSE
  /\ UNCHANGED <<rxInt, rxD>>

Bit(flag, mask) == IF flag THEN mask ELSE 0

Status ==
  Bit(rxAvailable, 1) + Bit(txActive, 2) + Bit(txDone, 4) + Bit(txInt, 8) + Bit(rxInt, 16)

Read(addr) ==
  /\ \/ addr = 2 /\ ReadRxData
     \/ addr # 2 /\ UNCHANGED rxVars
  /\ UNCHANGED <<serialVars, txVars, divVars>>
----------------------------------------------------------------------------
(* One instruction of an arbitrary program, before its tick.               *)
Offsets == 0..7

WriteAccess(addr, data) == ~ticking /\ ticking' = TRUE /\ Write(addr, data)
ReadAccess(addr)        == ~ticking /\ ticking' = TRUE /\ Read(addr)

(* An instruction that leaves the UART alone, with its tick.               *)
OtherInstruction == ~ticking /\ UNCHANGED ticking /\ TickEffect

Typing(c) == HostTypes(c) /\ UNCHANGED uartVars

Next ==
  \/ \E addr \in Offsets \ {2}, data \in DivValues : WriteAccess(addr, data)
  \/ \E c \in TxValues : WriteAccess(2, c)
  \/ \E addr \in Offsets : ReadAccess(addr)
  \/ OtherInstruction
  \/ Tick
  \/ \E c \in Char : Typing(c)

(* The run loop keeps stepping: every instruction is followed by its tick  *)
(* and another instruction.                                                *)
Running == WF_vars(Tick) /\ WF_vars(OtherInstruction)

Spec == Init /\ [][Next]_vars
FairSpec == Spec /\ Running
----------------------------------------------------------------------------
(* The status flags tell the truth about the frame on the line: the        *)
(* transmitter is active exactly while bits of a frame are left, and done  *)
(* exactly when none are.  TX_BYTE polls `done' to decide that it may      *)
(* write the next byte.                                                    *)
TxFlagsMatchFrame ==
  /\ txActive <=> txBits > 0
  /\ txDone <=> txBits = 0

(* A byte that waits in the data register is the last one getchar()        *)
(* returned.                                                               *)
RxHoldsLastByte == rxAvailable => got > 0 /\ rxD = typed[got]

(* It waits until the program reads register 2, and no tick before that    *)
(* puts another byte in its place or takes one from the host.              *)
WaitingByteStays ==
  rxAvailable => (rxAvailable' \/ ReadAccess(2)) /\ UNCHANGED <<rxD, got>>

ReceiverKeepsByte == []RxHoldsLastByte /\ [][WaitingByteStays]_vars

(* The transmit interrupt is raised by the step that ends a frame, and by  *)
(* no other; it then stays until the status register is written.           *)
FrameEnds     == txActive /\ ~txActive'
StatusWritten == \E data \in DivValues : WriteAccess(0, data)
InterruptStep == txInt' <=> FrameEnds \/ (txInt /\ ~StatusWritten)

TxIntMarksFrameEnd == [][InterruptStep]_vars

(* A frame ends once the program stops sending: no setting of the divider, *)
(* 0 included, leaves the transmitter active for ever.                     *)
FrameCompletes == txActive ~> txDone
============================================================================
