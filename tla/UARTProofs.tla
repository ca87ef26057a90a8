----------------------------- MODULE UARTProofs ----------------------------
(* Theorems about UART, for every program that drives it: its type         *)
(* invariant, that the status flags and the data register tell the truth,  *)
(* and that the interrupt marks the end of a frame.                        *)
EXTENDS UART, TLAPS

(* The transmitter's part of tick() keeps the transmitter well typed.      *)
LEMMA TickTxType ==
  ASSUME TypeOK, TickTx, UNCHANGED divVars
  PROVE  /\ txInt' \in BOOLEAN /\ txDone' \in BOOLEAN /\ txActive' \in BOOLEAN
         /\ txTicks' \in 0..(TicksMod - 1) /\ txBits' \in 0..FrameBits
<1>1. TicksLeft \in 0..(TicksMod - 1)
  BY UARTAssumption DEF UARTAssumption, TypeOK, TicksLeft
<1>2. txClkDiv \in 0..(TicksMod - 1)
  BY UARTAssumption DEF UARTAssumption, TypeOK
<1>3. CASE TxIdle    BY <1>3 DEF TxIdle, TypeOK
<1>4. CASE TxCount   BY <1>1, <1>4 DEF TxCount, TypeOK
<1>5. CASE TxNextBit BY <1>2, <1>5 DEF TxNextBit, TypeOK, FrameBits
<1>6. CASE TxLastBit
  <2>1. txTicks' \in 0..(TicksMod - 1) /\ txBits' \in 0..FrameBits
    BY <1>6, UARTAssumption DEF UARTAssumption, TxLastBit, FrameBits
  <2>2. QED BY <1>6, <2>1 DEF TxLastBit
<1>7. QED BY <1>3, <1>4, <1>5, <1>6 DEF TickTx

(* The receiver's part of tick() keeps the receiver and the host's buffers *)
(* well typed.                                                             *)
LEMMA TickRxType ==
  ASSUME TypeOK, TickRx
  PROVE  /\ rxInt' \in BOOLEAN /\ rxAvailable' \in BOOLEAN
         /\ rxD' \in Char \cup {0}
         /\ typed' = typed
         /\ fetched' \in 0..Len(typed) /\ got' \in 0..fetched'
<1>1. CASE RxLatch
  <2>1. got + 1 \in 1..Len(typed)
    BY <1>1 DEF RxLatch, Getc, TypeOK, SerialTypeOK
  <2>2. NextChar \in Char
    BY <2>1 DEF NextChar, TypeOK, SerialTypeOK
  <2>3. fetched' \in 0..Len(typed) /\ got' \in 0..fetched'
    BY <1>1, <2>1 DEF RxLatch, Getc, TypeOK, SerialTypeOK
  <2>4. QED BY <1>1, <2>2, <2>3 DEF RxLatch, Getc
<1>2. CASE RxHold
  BY <1>2 DEF RxHold, rxVars, TypeOK, SerialTypeOK
<1>3. QED BY <1>1, <1>2 DEF TickRx

LEMMA TickEffectType ==
  ASSUME TypeOK, TickEffect, ticking' \in BOOLEAN
  PROVE  TypeOK'
<1>1. TickTx /\ TickRx /\ UNCHANGED divVars /\ printed' = printed
  BY DEF TickEffect, divVars
<1>2. rxClkDiv' \in DivValues /\ txClkDiv' \in DivValues /\ printed' \in Seq(0..255)
  BY <1>1 DEF TypeOK, SerialTypeOK, divVars
<1>3. QED
  BY <1>1, <1>2, TickTxType, TickRxType DEF TypeOK, SerialTypeOK

(* A register access keeps everything well typed, for any byte sent.       *)
LEMMA WriteType ==
  ASSUME TypeOK, NEW addr \in Offsets, NEW data \in Nat, Write(addr, data),
         addr \in {3, 4} => data \in DivValues, ticking' \in BOOLEAN
  PROVE  TypeOK'
<1>1. UNCHANGED <<rxVars, typed, fetched, got>>
  BY DEF Write
<1>2. CASE addr = 0 /\ WriteStatus
  BY <1>1, <1>2 DEF WriteStatus, TypeOK, SerialTypeOK, rxVars, divVars
<1>3. CASE addr = 2 /\ WriteTxData(data)
  <2>1. data % 256 \in 0..255
    OBVIOUS
  <2>2. printed' \in Seq(0..255)
    BY <1>3, <2>1 DEF WriteTxData, Putc, TypeOK, SerialTypeOK
  <2>3. txTicks' \in 0..(TicksMod - 1) /\ txBits' \in 0..FrameBits
    BY <1>3, UARTAssumption DEF UARTAssumption, WriteTxData, TypeOK, FrameBits
  <2>4. QED BY <1>1, <1>3, <2>2, <2>3 DEF WriteTxData, TypeOK, SerialTypeOK, rxVars, divVars
<1>4. CASE addr = 3 /\ WriteRxClkDiv(data)
  BY <1>1, <1>4 DEF WriteRxClkDiv, TypeOK, SerialTypeOK, rxVars, txVars
<1>5. CASE addr = 4 /\ WriteTxClkDiv(data)
  BY <1>1, <1>5 DEF WriteTxClkDiv, TypeOK, SerialTypeOK, rxVars, txVars
<1>6. CASE addr \notin {0, 2, 3, 4} /\ UNCHANGED <<txVars, divVars, printed>>
  BY <1>1, <1>6 DEF TypeOK, SerialTypeOK, rxVars, txVars, divVars
<1>7. QED BY <1>2, <1>3, <1>4, <1>5, <1>6 DEF Write

LEMMA ReadType ==
  ASSUME TypeOK, NEW addr, Read(addr), ticking' \in BOOLEAN
  PROVE  TypeOK'
BY DEF Read, ReadRxData, TypeOK, SerialTypeOK, serialVars, txVars, divVars, rxVars

LEMMA TypingType ==
  ASSUME TypeOK, NEW c \in Char, Typing(c)
  PROVE  TypeOK'
<1>1. typed' \in Seq(Char) /\ Len(typed') = Len(typed) + 1
  BY DEF Typing, HostTypes, TypeOK, SerialTypeOK
<1>2. QED
  BY <1>1 DEF Typing, HostTypes, TypeOK, SerialTypeOK, uartVars, txVars, rxVars, divVars

(* One step of any program keeps the UART and the buffers well typed.      *)
LEMMA TypeStep ==
  ASSUME TypeOK, [Next]_vars
  PROVE  TypeOK'
<1>1. ASSUME NEW addr \in Offsets \ {2}, NEW data \in DivValues, WriteAccess(addr, data)
      PROVE  TypeOK'
  <2>1. data \in Nat /\ addr \in Offsets
    BY UARTAssumption DEF UARTAssumption
  <2>2. QED BY <1>1, <2>1, WriteType DEF WriteAccess
<1>2. ASSUME NEW c \in TxValues, WriteAccess(2, c)
      PROVE  TypeOK'
  <2>1. c \in Nat /\ 2 \in Offsets
    BY UARTAssumption DEF UARTAssumption, Offsets
  <2>2. QED BY <1>2, <2>1, WriteType DEF WriteAccess
<1>3. ASSUME NEW addr \in Offsets, ReadAccess(addr)
      PROVE  TypeOK'
  BY <1>3, ReadType DEF ReadAccess
<1>4. CASE OtherInstruction
  BY <1>4, TickEffectType DEF OtherInstruction, TypeOK
<1>5. CASE Tick
  BY <1>5, TickEffectType DEF Tick
<1>6. ASSUME NEW c \in Char, Typing(c)
      PROVE  TypeOK'
  BY <1>6, TypingType
<1>7. CASE UNCHANGED vars
  BY <1>7 DEF vars, serialVars, uartVars, txVars, rxVars, divVars, TypeOK, SerialTypeOK
<1>8. QED BY <1>1, <1>2, <1>3, <1>4, <1>5, <1>6, <1>7 DEF Next

(* A UART just constructed is well typed.                                  *)
LEMMA InitType == Init => TypeOK
<1> SUFFICES ASSUME Init PROVE TypeOK
  OBVIOUS
<1>1. SerialTypeOK
  BY DEF Init, SerialInit, SerialTypeOK
<1>2. /\ txTicks \in 0..(TicksMod - 1) /\ txBits \in 0..FrameBits
      /\ rxClkDiv \in DivValues /\ txClkDiv \in DivValues
  BY UARTAssumption DEF UARTAssumption, Init, UARTInit, FrameBits
<1>3. QED BY <1>1, <1>2 DEF Init, UARTInit, TypeOK

(* Everything UART.h keeps stays in its type under any program.            *)
THEOREM UARTTypeCorrect == Spec => []TypeOK
<1>1. Init => TypeOK
  BY InitType
<1>2. TypeOK /\ [Next]_vars => TypeOK'
  BY TypeStep
<1>3. QED BY <1>1, <1>2, PTL DEF Spec
----------------------------------------------------------------------------
(* tick() and the registers keep the flags and the bit count in step.      *)
LEMMA TickTxFlags ==
  ASSUME TypeOK, TxFlagsMatchFrame, TickTx
  PROVE  TxFlagsMatchFrame'
<1>1. CASE TxIdle
  BY <1>1 DEF TxIdle, TxFlagsMatchFrame, TypeOK
<1>2. CASE TxCount
  BY <1>2 DEF TxCount, TxFlagsMatchFrame
<1>3. CASE TxNextBit
  <2>1. txBits' > 0 /\ txBits' # 0 /\ txBits > 0 /\ txBits # 0
    BY <1>3 DEF TxNextBit, TypeOK, FrameBits
  <2>2. QED BY <1>3, <2>1 DEF TxNextBit, TxFlagsMatchFrame
<1>4. CASE TxLastBit
  BY <1>4 DEF TxLastBit, TxFlagsMatchFrame
<1>5. QED BY <1>1, <1>2, <1>3, <1>4 DEF TickTx

(* One step of any program keeps the flags and the bit count in step.      *)
LEMMA FlagsStep ==
  ASSUME TypeOK, TxFlagsMatchFrame, [Next]_vars
  PROVE  TxFlagsMatchFrame'
<1>1. ASSUME NEW addr, NEW data, Write(addr, data)
      PROVE  TxFlagsMatchFrame'
  <2>1. CASE WriteTxData(data)
    BY <2>1 DEF WriteTxData, TxFlagsMatchFrame, FrameBits
  <2>2. CASE UNCHANGED <<txDone, txActive, txBits>>
    BY <2>2 DEF TxFlagsMatchFrame
  <2>3. QED BY <1>1, <2>1, <2>2 DEF Write, WriteStatus, WriteRxClkDiv, WriteTxClkDiv, txVars
<1>2. ASSUME NEW addr, Read(addr)
      PROVE  TxFlagsMatchFrame'
  BY <1>2 DEF Read, txVars, TxFlagsMatchFrame
<1>3. CASE TickEffect
  BY <1>3, TickTxFlags DEF TickEffect
<1>4. ASSUME NEW c \in Char, Typing(c)
      PROVE  TxFlagsMatchFrame'
  BY <1>4 DEF Typing, uartVars, txVars, TxFlagsMatchFrame
<1>5. CASE UNCHANGED vars
  BY <1>5 DEF vars, uartVars, txVars, TxFlagsMatchFrame
<1>6. QED
  BY <1>1, <1>2, <1>3, <1>4, <1>5
  DEF Next, WriteAccess, ReadAccess, OtherInstruction, Tick

(* The status flags match the frame on the line in every reachable state.  *)
THEOREM UARTFlagsCorrect == Spec => []TxFlagsMatchFrame
<1>1. Init => TxFlagsMatchFrame
  BY DEF Init, UARTInit, TxFlagsMatchFrame
<1>2. TypeOK /\ TxFlagsMatchFrame /\ [Next]_vars => TxFlagsMatchFrame'
  BY FlagsStep
<1>3. QED BY <1>1, <1>2, UARTTypeCorrect, PTL DEF Spec

(* The byte that waits in the data register is the last one that was       *)
(* fetched, in every reachable state.                                      *)
LEMMA TickRxHolds ==
  ASSUME TypeOK, RxHoldsLastByte, TickRx
  PROVE  RxHoldsLastByte'
<1>1. CASE RxLatch
  <2>1. got' = got + 1 /\ got \in Nat /\ typed' = typed /\ rxD' = typed[got + 1]
    BY <1>1 DEF RxLatch, Getc, NextChar, TypeOK, SerialTypeOK
  <2>2. QED BY <2>1 DEF RxHoldsLastByte
<1>2. CASE RxHold
  BY <1>2 DEF RxHold, rxVars, RxHoldsLastByte
<1>3. QED BY <1>1, <1>2 DEF TickRx

LEMMA TypingHolds ==
  ASSUME TypeOK, RxHoldsLastByte, NEW c \in Char, Typing(c)
  PROVE  RxHoldsLastByte'
<1>1. \A i \in 1..Len(typed) : typed'[i] = typed[i]
  BY DEF Typing, HostTypes, TypeOK, SerialTypeOK
<1>2. rxAvailable => got \in 1..Len(typed)
  BY DEF RxHoldsLastByte, TypeOK, SerialTypeOK
<1>3. QED
  BY <1>1, <1>2 DEF Typing, HostTypes, uartVars, rxVars, RxHoldsLastByte

(* One step of any program keeps the waiting byte.                         *)
LEMMA ReceiverStep ==
  ASSUME TypeOK, RxHoldsLastByte, [Next]_vars
  PROVE  RxHoldsLastByte'
<1>1. ASSUME NEW addr, NEW data, Write(addr, data)
      PROVE  RxHoldsLastByte'
  BY <1>1 DEF Write, rxVars, RxHoldsLastByte
<1>2. ASSUME NEW addr, Read(addr)
      PROVE  RxHoldsLastByte'
  BY <1>2 DEF Read, ReadRxData, serialVars, rxVars, RxHoldsLastByte
<1>3. CASE TickEffect
  BY <1>3, TickRxHolds DEF TickEffect
<1>4. ASSUME NEW c \in Char, Typing(c)
      PROVE  RxHoldsLastByte'
  BY <1>4, TypingHolds
<1>5. CASE UNCHANGED vars
  BY <1>5 DEF vars, serialVars, uartVars, rxVars, RxHoldsLastByte
<1>6. QED
  BY <1>1, <1>2, <1>3, <1>4, <1>5
  DEF Next, WriteAccess, ReadAccess, OtherInstruction, Tick

(* Nothing but a read of the data register takes the byte away.            *)
LEMMA WaitingStep ==
  ASSUME Next
  PROVE  WaitingByteStays
<1>1. ASSUME NEW addr, NEW data, Write(addr, data)
      PROVE  WaitingByteStays
  BY <1>1 DEF Write, rxVars, WaitingByteStays
<1>2. ASSUME NEW addr \in Offsets, ReadAccess(addr)
      PROVE  WaitingByteStays
  <2>1. UNCHANGED <<rxD, got>> /\ (addr # 2 => rxAvailable' = rxAvailable)
    BY <1>2 DEF ReadAccess, Read, ReadRxData, serialVars, rxVars
  <2>2. QED BY <1>2, <2>1 DEF WaitingByteStays
<1>3. CASE TickEffect
  BY <1>3 DEF TickEffect, TickRx, RxLatch, RxHold, rxVars, WaitingByteStays
<1>4. ASSUME NEW c \in Char, Typing(c)
      PROVE  WaitingByteStays
  BY <1>4 DEF Typing, HostTypes, uartVars, rxVars, WaitingByteStays
<1>5. QED
  BY <1>1, <1>2, <1>3, <1>4 DEF Next, WriteAccess, OtherInstruction, Tick

(* For every program: a waiting byte is the last one taken from the host   *)
(* and stays until the program reads it.                                   *)
THEOREM UARTReceiverCorrect == Spec => ReceiverKeepsByte
<1>1. Init => RxHoldsLastByte
  BY DEF Init, UARTInit, RxHoldsLastByte
<1>2. TypeOK /\ RxHoldsLastByte /\ [Next]_vars => RxHoldsLastByte'
  BY ReceiverStep
<1>3. [Next]_vars => [WaitingByteStays]_vars
  BY WaitingStep
<1>4. QED BY <1>1, <1>2, <1>3, UARTTypeCorrect, PTL DEF Spec, ReceiverKeepsByte

(* A tick raises the interrupt exactly as it ends the frame, and keeps one *)
(* that is pending.                                                        *)
LEMMA TickTxInt ==
  ASSUME TypeOK, TxFlagsMatchFrame, TickTx
  PROVE  txInt' <=> FrameEnds \/ txInt
<1>1. CASE TxIdle
  <2>1. ~txActive /\ txInt' = txInt
    BY <1>1 DEF TxIdle, TxFlagsMatchFrame
  <2>2. QED BY <2>1 DEF FrameEnds
<1>2. CASE TxCount
  BY <1>2 DEF TxCount, FrameEnds
<1>3. CASE TxNextBit
  BY <1>3 DEF TxNextBit, FrameEnds
<1>4. CASE TxLastBit
  BY <1>4 DEF TxLastBit, TxFlagsMatchFrame, FrameEnds
<1>5. QED BY <1>1, <1>2, <1>3, <1>4 DEF TickTx

(* A write is one to the status register or leaves the interrupt alone.    *)
LEMMA WriteTxInt ==
  ASSUME TypeOK, NEW addr, NEW data, Write(addr, data)
  PROVE  /\ ~FrameEnds
         /\ \/ addr = 0 /\ txInt' = FALSE
            \/ addr # 0 /\ txInt' = txInt
<1>1. CASE addr = 0 /\ WriteStatus
  BY <1>1 DEF WriteStatus, FrameEnds
<1>2. CASE addr = 2 /\ WriteTxData(data)
  BY <1>2 DEF WriteTxData, FrameEnds
<1>3. CASE addr = 3 /\ WriteRxClkDiv(data)
  BY <1>3 DEF WriteRxClkDiv, txVars, FrameEnds
<1>4. CASE addr = 4 /\ WriteTxClkDiv(data)
  BY <1>4 DEF WriteTxClkDiv, txVars, FrameEnds
<1>5. CASE addr \notin {0, 2, 3, 4} /\ UNCHANGED <<txVars, divVars, printed>>
  BY <1>5 DEF txVars, FrameEnds
<1>6. QED BY <1>1, <1>2, <1>3, <1>4, <1>5 DEF Write

LEMMA TxIntStep ==
  ASSUME TypeOK, TxFlagsMatchFrame, Next
  PROVE  InterruptStep
<1>1. ASSUME NEW addr, NEW data, Write(addr, data), addr = 0 => StatusWritten
      PROVE  InterruptStep
  <2>1. addr # 0 /\ StatusWritten => txInt' = FALSE
    BY WriteTxInt, UARTAssumption DEF StatusWritten, WriteAccess
  <2>2. QED BY <1>1, <2>1, WriteTxInt DEF InterruptStep
<1>3. ASSUME StatusWritten
      PROVE  ~txInt' /\ ~FrameEnds
  BY <1>3, WriteTxInt DEF StatusWritten, WriteAccess
<1>4. ASSUME NEW c \in Char, Typing(c)
      PROVE  InterruptStep
  BY <1>3, <1>4 DEF Typing, uartVars, txVars, FrameEnds, InterruptStep
<1>5. CASE TickEffect
  BY <1>3, <1>5, TickTxInt DEF TickEffect, InterruptStep
<1>6. ASSUME NEW addr, Read(addr)
      PROVE  InterruptStep
  BY <1>3, <1>6 DEF Read, txVars, FrameEnds, InterruptStep
<1>7. ASSUME NEW addr \in Offsets \ {2}, NEW data \in DivValues, WriteAccess(addr, data)
      PROVE  InterruptStep
  <2>1. addr = 0 => StatusWritten
    BY <1>7 DEF StatusWritten
  <2>2. QED BY <1>1, <1>7, <2>1 DEF WriteAccess
<1>8. ASSUME NEW c \in TxValues, WriteAccess(2, c)
      PROVE  InterruptStep
  BY <1>1, <1>8 DEF WriteAccess
<1>9. QED
  BY <1>4, <1>5, <1>6, <1>7, <1>8 DEF Next, ReadAccess, OtherInstruction, Tick

(* The interrupt is raised by the end of a frame and stays until the       *)
(* status is written, for every program and every setting of the divider.  *)
THEOREM UARTInterruptCorrect == Spec => TxIntMarksFrameEnd
<1>1. TypeOK /\ TxFlagsMatchFrame /\ [Next]_vars => [InterruptStep]_vars
  BY TxIntStep
<1>2. QED
  BY <1>1, UARTTypeCorrect, UARTFlagsCorrect, PTL DEF Spec, TxIntMarksFrameEnd
=============================================================================
