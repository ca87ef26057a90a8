--------------------------- MODULE TerminalProofs --------------------------
(* Theorems about Terminal: that the kernel's loop is one of the programs  *)
(* UART allows, so that what UARTProofs shows of them all holds for it,    *)
(* its inductive invariant TerminalInv, the safety properties that follow  *)
(* from it, and that input through the loop is a byte stream.              *)
EXTENDS Terminal, UARTProofs

(* The bits TX_BYTE and READLINE test are the flags they mean.             *)
LEMMA StatusBits ==
  ASSUME TypeOK
  PROVE  (StatusHas(1) <=> rxAvailable) /\ (StatusHas(4) <=> txDone)
<1> DEFINE r == Bit(rxAvailable, 1)
           a == Bit(txActive, 2)
           d == Bit(txDone, 4)
           t == Bit(txInt, 8)
           x == Bit(rxInt, 16)
<1>1. r \in {0, 1} /\ (rxAvailable <=> r = 1)
  BY DEF Bit, TypeOK
<1>2. d \in {0, 4} /\ (txDone <=> d = 4)
  BY DEF Bit, TypeOK
<1>3. a \in {0, 2} /\ t \in {0, 8} /\ x \in {0, 16}
  BY DEF Bit
<1>4. Status = r + a + d + t + x
  BY DEF Status
<1> HIDE DEF r, a, d, t, x
<1>5. (Status \div 1) % 2 = 1 <=> r = 1
  BY <1>1, <1>2, <1>3, <1>4
<1>6. (Status \div 4) % 2 = 1 <=> d = 4
  BY <1>1, <1>2, <1>3, <1>4
<1>7. QED BY <1>1, <1>2, <1>5, <1>6 DEF StatusHas

(* The kernel's loop is one of the programs UART allows: each of its steps *)
(* is a UART step or leaves the UART alone.                                *)
LEMMA TerminalStepIsUARTStep ==
  ASSUME TerminalTypeOK, PrintingHasText, [TerminalNext]_tvars
  PROVE  [Next]_vars
<1>1. 0 \in Offsets /\ 2 \in Offsets
  BY DEF Offsets
<1>2. CASE TxByte
  <2>1. Head(toPrint) \in TxValues
    <3>1. Head(toPrint) \in Char
      BY <1>2 DEF TxByte, TerminalTypeOK, PrintingHasText
    <3>2. QED BY <3>1, UARTAssumption DEF UARTAssumption
  <2>2. QED BY <1>2, <2>1 DEF TxByte, Next
<1>3. CASE TxWaitReady \/ ReadlineEntry \/ Readline \/ ReadlineWait
  BY <1>1, <1>3 DEF TxWaitReady, ReadlineEntry, Readline, ReadlineWait, ReadChar,
     ReadlineCtlC, ReadlineEmpty, ReadlineEnd, ReadlineStore, Next
<1>4. CASE OuterDispatch \/ ProcessTokens \/ ProcessRestart
  BY <1>4 DEF OuterDispatch, ProcessTokens, ProcessRestart
<1>5. CASE Environment
  BY <1>5 DEF Environment, Next
<1>6. CASE UNCHANGED tvars
  BY <1>6 DEF tvars
<1>7. QED BY <1>2, <1>3, <1>4, <1>5, <1>6 DEF TerminalNext, Cpu

(* The receiver from one step to the next: a read of the data register     *)
(* empties it, a tick may fill it, and nothing else touches it.            *)
LEMMA StatusReadEffect ==
  ASSUME ReadAccess(0)
  PROVE  got' = got /\ txDone' = txDone /\ rxAvailable' = rxAvailable /\ printed' = printed
BY DEF ReadAccess, Read, serialVars, txVars, rxVars

LEMMA DataReadEffect ==
  ASSUME ReadAccess(2)
  PROVE  typed' = typed /\ got' = got /\ rxAvailable' = FALSE /\ printed' = printed
BY DEF ReadAccess, Read, ReadRxData, serialVars

LEMMA WriteAccessEffect ==
  ASSUME NEW addr, NEW data, WriteAccess(addr, data)
  PROVE  typed' = typed /\ got' = got /\ rxD' = rxD /\ rxAvailable' = rxAvailable
BY DEF WriteAccess, Write, rxVars

LEMMA EnvironmentEffect ==
  ASSUME TypeOK, TxFlagsMatchFrame, Environment
  PROVE  /\ UNCHANGED <<pc, toPrint, lineVars, status, callVars>>
         /\ printed' = printed
         /\ rxAvailable => rxAvailable' /\ got' = got
         /\ ~rxAvailable => got' = got + (IF rxAvailable' THEN 1 ELSE 0)
         /\ txDone => txDone'
<1>1. CASE TickEffect
  <2>1. /\ rxAvailable => rxAvailable' /\ got' = got
        /\ ~rxAvailable => got' = got + (IF rxAvailable' THEN 1 ELSE 0)
    BY <1>1 DEF TickEffect, TickRx, RxLatch, RxHold, Getc, rxVars, TypeOK, SerialTypeOK
  <2>2. txDone => txDone'
    <3> SUFFICES ASSUME txDone PROVE txDone'
      OBVIOUS
    <3>1. txBits = 0
      BY DEF TxFlagsMatchFrame
    <3>2. TxIdle
      BY <1>1, <3>1 DEF TickEffect, TickTx, TxCount, TxNextBit, TxLastBit
    <3>3. QED BY <3>2 DEF TxIdle
  <2>3. QED BY <1>1, <2>1, <2>2 DEF Environment, TickEffect
<1>2. ASSUME NEW c \in Char, Typing(c)
      PROVE  /\ got' = got /\ rxAvailable' = rxAvailable /\ txDone' = txDone
             /\ printed' = printed
  BY <1>2 DEF Typing, HostTypes, uartVars, txVars, rxVars
<1>3. QED
  BY <1>1, <1>2 DEF Environment, Tick, OtherInstruction, TypeOK, SerialTypeOK
----------------------------------------------------------------------------
(* The parts of TerminalInv that are about the kernel's own state.         *)
KernelInv ==
  /\ ReadlineHasRoom /\ NoStaleRead /\ PrintingHasText /\ SendsWhenDone
  /\ ReceivedAllButWaiting /\ BufferHoldsCall /\ LineHandedOver
  /\ pc = "process" => status \notin {0, 2}

(* What UART's invariants make of one step of the kernel.                  *)
LEMMA UARTPartStep ==
  ASSUME TerminalInv, [TerminalNext]_tvars
  PROVE  TypeOK' /\ TxFlagsMatchFrame' /\ RxHoldsLastByte'
BY TerminalStepIsUARTStep, TypeStep, FlagsStep, ReceiverStep DEF TerminalInv, TerminalTypeOK

LEMMA TxWaitReadyStep ==
  ASSUME TerminalInv, TypeOK', TxWaitReady
  PROVE  TerminalTypeOK' /\ KernelInv'
<1>1. StatusHas(4) <=> txDone
  BY StatusBits DEF TerminalInv, TerminalTypeOK
<1>2. got' = got /\ rxAvailable' = rxAvailable /\ txDone' = txDone
  BY StatusReadEffect DEF TxWaitReady
<1>3. TerminalTypeOK'
  <2>1. pc' \in {"send", "type"}
    BY DEF TxWaitReady
  <2>2. QED BY <2>1 DEF TxWaitReady, TerminalInv, TerminalTypeOK, lineVars, callVars
<1>4. KernelInv'
  BY <1>1, <1>2 DEF TxWaitReady, TerminalInv, KernelInv, lineVars, callVars, ReadlineHasRoom,
     NoStaleRead, PrintingHasText, SendsWhenDone, ReceivedAllButWaiting,
     BufferHoldsCall, LineHandedOver, EndedByNL, EndedByCtlC, BufferFilled, Stored
<1>5. QED BY <1>3, <1>4

LEMMA TxByteStep ==
  ASSUME TerminalInv, TypeOK', TxByte
  PROVE  TerminalTypeOK' /\ KernelInv'
<1>1. got' = got /\ rxAvailable' = rxAvailable
  BY WriteAccessEffect DEF TxByte
<1>2. Tail(toPrint) \in Seq(Char)
  BY DEF TxByte, TerminalInv, TerminalTypeOK, PrintingHasText
<1>3. TerminalTypeOK'
  BY <1>2 DEF TxByte, TerminalInv, TerminalTypeOK, lineVars, callVars
<1>4. KernelInv'
  BY <1>1 DEF TxByte, TerminalInv, KernelInv, lineVars, callVars, ReadlineHasRoom,
     NoStaleRead, PrintingHasText, SendsWhenDone, ReceivedAllButWaiting,
     BufferHoldsCall, LineHandedOver, EndedByNL, EndedByCtlC, BufferFilled, Stored
<1>5. QED BY <1>3, <1>4

LEMMA ReadlineEntryStep ==
  ASSUME TerminalInv, TypeOK', ReadlineEntry
  PROVE  TerminalTypeOK' /\ KernelInv'
<1>1. StatusHas(1) <=> rxAvailable
  BY StatusBits DEF TerminalInv, TerminalTypeOK
<1>2. got' = got /\ rxAvailable' = rxAvailable
  BY StatusReadEffect DEF ReadlineEntry
<1>3. LineLen \in Nat /\ LineLen > 0
  BY TerminalAssumption DEF TerminalAssumption
<1>4. Len(rcvd) \in Nat
  BY DEF TerminalInv, TerminalTypeOK
<1>5. TerminalTypeOK'
  <2>1. pc' \in {"read", "outer"} /\ status' \in Statuses
    BY DEF ReadlineEntry, TerminalInv, TerminalTypeOK, Statuses
  <2>2. lbufIdx' \in 0..(LineLen + 1) /\ entry' \in 0..Len(rcvd')
    BY <1>3, <1>4 DEF ReadlineEntry
  <2>3. bufptr' \in 0..LineLen /\ buflen' \in 0..LineLen /\ nread' \in 0..LineLen
    BY <1>3 DEF ReadlineEntry
  <2>4. QED BY <2>1, <2>2, <2>3 DEF ReadlineEntry, TerminalInv, TerminalTypeOK
<1>6. KernelInv'
  BY <1>1, <1>2, <1>3, <1>4 DEF ReadlineEntry, TerminalInv, KernelInv, ReadlineHasRoom,
     NoStaleRead, PrintingHasText, SendsWhenDone, ReceivedAllButWaiting,
     BufferHoldsCall, LineHandedOver, Stored
<1>7. QED BY <1>5, <1>6

(* READLINE takes the byte that waits: it is the next one that was typed.  *)
TakesNext ==
  /\ rxD \in Char /\ typed' = typed
  /\ rcvd' \in Seq(Char) /\ Len(rcvd') = Len(rcvd) + 1 /\ Len(rcvd) \in Nat
  /\ rcvd'[Len(rcvd')] = rxD
  /\ \A i \in 1..Len(rcvd) : rcvd'[i] = rcvd[i]
  /\ Len(rcvd) < Len(typed) /\ rxD = typed[Len(rcvd) + 1]
  /\ got' = Len(rcvd') /\ rxAvailable' = FALSE

LEMMA ReadCharEffect ==
  ASSUME TerminalInv, ReadChar
  PROVE  TakesNext
<1>1. rxAvailable /\ got = Len(rcvd) + 1
  BY DEF ReadChar, TerminalInv, NoStaleRead, ReceivedAllButWaiting
<1>2. got \in 1..Len(typed) /\ rxD = typed[got]
  BY <1>1 DEF TerminalInv, RxHoldsLastByte, TerminalTypeOK, TypeOK, SerialTypeOK
<1>3. rxD \in Char
  BY <1>2 DEF TerminalInv, TerminalTypeOK, TypeOK, SerialTypeOK
<1>4. got' = got /\ typed' = typed /\ rxAvailable' = FALSE
  BY DataReadEffect DEF ReadChar
<1>5. rcvd \in Seq(Char) /\ rcvd' = Append(rcvd, rxD)
  BY DEF ReadChar, TerminalInv, TerminalTypeOK
<1>6. QED BY <1>1, <1>2, <1>3, <1>4, <1>5 DEF TakesNext

(* What READLINE has stored of this call it keeps when it takes another.   *)
LEMMA StoredStays ==
  ASSUME TerminalInv, TakesNext, Len(rcvd) = entry + bufptr, Stored(bufptr),
         UNCHANGED <<buf, bufptr, entry>>
  PROVE  Stored(bufptr)'
<1>1. bufptr \in Nat /\ entry \in Nat
  BY DEF TerminalInv, TerminalTypeOK
<1>2. ASSUME NEW i \in 1..bufptr PROVE buf[i] = rcvd'[entry + i]
  <2>1. entry + i \in 1..Len(rcvd)
    BY <1>1
  <2>2. QED BY <2>1 DEF TakesNext, Stored
<1>3. QED BY <1>2 DEF Stored

LEMMA ReadlineQuitStep ==
  ASSUME TerminalInv, TypeOK', ReadlineCtlC \/ ReadlineEmpty
  PROVE  TerminalTypeOK' /\ KernelInv'
<1>1. ReadChar /\ pc' = "outer" /\ status' \in {0, 3}
      /\ UNCHANGED <<lbufEnd, buf, bufptr, buflen, nread, lbufIdx, toPrint, entry, before>>
  BY DEF ReadlineCtlC, ReadlineEmpty, ReadChar
<1>takes. TakesNext
  BY <1>1, ReadCharEffect
<1>2. LineHandedOver'
  <2>1. lbufIdx = 0 /\ Len(rcvd) = entry + bufptr /\ Stored(bufptr) /\ lbufEnd = before.end
    BY <1>1 DEF ReadChar, TerminalInv, BufferHoldsCall
  <2>2. Stored(bufptr)'
    BY <1>1, <2>1, <1>takes, StoredStays
  <2>3. EndedByNL' \/ EndedByCtlC'
    <3>1. bufptr = nread /\ bufptr \in Nat /\ entry \in Nat
      BY <1>1 DEF ReadChar, TerminalInv, TerminalTypeOK, ReadlineHasRoom
    <3>2. Len(rcvd') = entry' + bufptr' + 1
      BY <1>1, <2>1, <3>1, <1>takes DEF TakesNext
    <3>3. CASE ReadlineCtlC
      BY <1>1, <2>1, <3>2, <3>3, <1>takes DEF TakesNext, ReadlineCtlC, EndedByCtlC
    <3>4. CASE ReadlineEmpty
      BY <1>1, <3>1, <3>2, <3>4, <1>takes DEF TakesNext, ReadlineEmpty, EndedByNL
    <3>5. QED BY <3>3, <3>4
  <2>4. QED BY <1>1, <2>1, <2>2, <2>3 DEF LineHandedOver
<1>3. entry' \in 0..Len(rcvd')
  BY <1>1, <1>takes DEF TakesNext, TerminalInv, TerminalTypeOK
<1>4. TerminalTypeOK'
  BY <1>1, <1>3, <1>takes DEF TakesNext, TerminalInv, TerminalTypeOK, Statuses
<1>5. KernelInv'
  BY <1>1, <1>2, <1>takes DEF TakesNext, TerminalInv, KernelInv, ReadlineHasRoom,
     NoStaleRead, PrintingHasText, SendsWhenDone, ReceivedAllButWaiting,
     BufferHoldsCall, LineHandedOver, EndedByNL, EndedByCtlC, BufferFilled, Stored
<1>6. QED BY <1>4, <1>5

LEMMA ReadlineEndStep ==
  ASSUME TerminalInv, TypeOK', ReadlineEnd
  PROVE  TerminalTypeOK' /\ KernelInv'
<1>1. ReadChar /\ pc' = "outer" /\ status' = 1 /\ lbufEnd' = bufptr
      /\ UNCHANGED <<buf, bufptr, buflen, nread, lbufIdx, toPrint, entry, before>>
  BY DEF ReadlineEnd, ReadChar
<1>takes. TakesNext
  BY <1>1, ReadCharEffect
<1>2. entry' \in 0..Len(rcvd')
  BY <1>1, <1>takes DEF TakesNext, TerminalInv, TerminalTypeOK
<1>3. TerminalTypeOK'
  BY <1>1, <1>2, <1>takes DEF TakesNext, TerminalInv, TerminalTypeOK, Statuses
<1>4. /\ lbufIdx = 0 /\ Len(rcvd) = entry + bufptr /\ Stored(bufptr)
      /\ bufptr = nread /\ nread > 0
  BY <1>1 DEF ReadlineEnd, ReadChar, TerminalInv, BufferHoldsCall, ReadlineHasRoom
<1>5. LineHandedOver'
  <2>1. bufptr \in Nat /\ entry \in Nat /\ Len(rcvd) \in Nat
    BY DEF TerminalInv, TerminalTypeOK
  <2>2. Stored(bufptr)'
    BY <1>1, <1>4, <1>takes, StoredStays
  <2>3. Len(rcvd') = entry' + bufptr' + 1 /\ rcvd'[Len(rcvd')] = NL
    BY <1>1, <1>4, <2>1, <1>takes DEF TakesNext, ReadlineEnd
  <2>4. EndedByNL'
    BY <1>1, <1>4, <2>3 DEF EndedByNL
  <2>5. QED BY <1>1, <1>4, <2>2, <2>4 DEF LineHandedOver
<1>6. KernelInv'
  BY <1>1, <1>5, <1>takes DEF TakesNext, KernelInv, ReadlineHasRoom, NoStaleRead,
     PrintingHasText, SendsWhenDone, ReceivedAllButWaiting, BufferHoldsCall
<1>7. QED BY <1>3, <1>6

LEMMA ReadlineStoreStep ==
  ASSUME TerminalInv, TypeOK', ReadlineStore
  PROVE  TerminalTypeOK' /\ KernelInv'
<1>1. ReadChar /\ pc = "read" /\ UNCHANGED <<lbufIdx, toPrint, entry, before, lbufEnd, status>>
  BY DEF ReadlineStore, ReadChar
<1>takes. TakesNext
  BY <1>1, ReadCharEffect
<1>2. bufptr < LineLen /\ nread = bufptr /\ buflen = LineLen - bufptr
  BY <1>1 DEF TerminalInv, ReadlineHasRoom
<1>3. LineLen \in Nat /\ bufptr \in Nat /\ entry \in Nat /\ Len(rcvd) \in Nat
  BY TerminalAssumption DEF TerminalAssumption, TerminalInv, TerminalTypeOK
<1>4. bufptr + 1 \in 1..LineLen
  BY <1>2, <1>3
<1>5. buf' = [buf EXCEPT ![bufptr + 1] = rxD] /\ bufptr' = bufptr + 1
      /\ nread' = nread + 1 /\ buflen' = buflen - 1
      /\ pc' = IF buflen - 1 = 0 THEN "outer" ELSE "wait"
  BY DEF ReadlineStore
<1>6. rxD # NL /\ rxD \in Char
  BY <1>takes, <1>1 DEF TakesNext, ReadlineStore
<1>7. buf' \in [1..LineLen -> Char \cup {0}]
  BY <1>5, <1>6, <1>4 DEF TerminalInv, TerminalTypeOK
<1>8. TerminalTypeOK'
  <2>1. bufptr' \in 0..LineLen /\ nread' \in 0..LineLen /\ buflen' \in 0..LineLen
    BY <1>2, <1>3, <1>5
  <2>2. entry' \in 0..Len(rcvd') /\ rcvd' \in Seq(Char)
    BY <1>1, <1>takes DEF TakesNext, TerminalInv, TerminalTypeOK
  <2>3. pc' \in {"outer", "wait"}
    BY <1>5
  <2>4. QED BY <1>1, <1>7, <2>1, <2>2, <2>3 DEF TerminalInv, TerminalTypeOK
<1>9. ReadlineHasRoom'
  BY <1>2, <1>3, <1>5 DEF ReadlineHasRoom
<1>10. BufferHoldsCall' /\ Stored(bufptr)' /\ Len(rcvd') = entry' + bufptr'
       /\ lbufIdx' = 0 /\ lbufEnd' = before'.end /\ status' = before'.status
  <2>1. /\ lbufIdx = 0 /\ Len(rcvd) = entry + bufptr /\ Stored(bufptr)
        /\ lbufEnd = before.end /\ status = before.status
    BY <1>1 DEF TerminalInv, BufferHoldsCall
  <2>2. ASSUME NEW i \in 1..(bufptr + 1) PROVE buf'[i] = rcvd'[entry + i]
    <3>1. i \in 1..LineLen
      BY <1>3, <1>4
    <3>2. CASE i = bufptr + 1
      <4>1. entry + i = Len(rcvd')
        BY <1>1, <1>3, <2>1, <3>2, <1>takes DEF TakesNext
      <4>2. buf'[i] = rxD
        BY <1>4, <1>5, <3>2 DEF TerminalInv, TerminalTypeOK
      <4>3. QED BY <1>1, <4>1, <4>2, <1>takes DEF TakesNext
    <3>3. CASE i # bufptr + 1
      <4>1. i \in 1..bufptr /\ entry + i \in 1..Len(rcvd)
        BY <1>3, <2>1, <3>3
      <4>2. buf'[i] = buf[i]
        BY <1>5, <3>1, <3>3 DEF TerminalInv, TerminalTypeOK
      <4>3. QED BY <1>1, <2>1, <4>1, <4>2, <1>takes DEF TakesNext, Stored
    <3>4. QED BY <3>2, <3>3
  <2>3. Stored(bufptr)'
    BY <1>1, <1>5, <2>2 DEF Stored
  <2>4. Len(rcvd') = entry' + bufptr'
    BY <1>1, <1>3, <1>5, <2>1, <1>takes DEF TakesNext
  <2>5. QED BY <1>1, <2>1, <2>3, <2>4 DEF BufferHoldsCall
<1>11. LineHandedOver'
  <2>1. rcvd'[Len(rcvd')] \notin {NL, CtlC}
    BY <1>1, <1>takes DEF TakesNext, ReadlineStore
  <2>2. pc' \in {"outer", "process"} => bufptr' = LineLen
    BY <1>2, <1>3, <1>5
  <2>3. QED BY <1>10, <2>1, <2>2 DEF LineHandedOver, BufferFilled
<1>12. pc' \in {"outer", "wait"}
  BY <1>5
<1>13. KernelInv'
  BY <1>1, <1>9, <1>10, <1>11, <1>12, <1>takes
  DEF TakesNext, KernelInv, NoStaleRead, PrintingHasText, SendsWhenDone, ReceivedAllButWaiting
<1>14. QED BY <1>8, <1>13

LEMMA ReadlineWaitStep ==
  ASSUME TerminalInv, TypeOK', ReadlineWait
  PROVE  TerminalTypeOK' /\ KernelInv'
<1>1. StatusHas(1) <=> rxAvailable
  BY StatusBits DEF TerminalInv, TerminalTypeOK
<1>2. got' = got /\ rxAvailable' = rxAvailable
  BY StatusReadEffect DEF ReadlineWait
<1>3. pc' \in {"read", "wait"}
  BY DEF ReadlineWait
<1>4. TerminalTypeOK'
  BY <1>3 DEF ReadlineWait, TerminalInv, TerminalTypeOK, lineVars, callVars
<1>5. KernelInv'
  BY <1>1, <1>2 DEF ReadlineWait, lineVars, callVars, Stored, TerminalInv, KernelInv, ReadlineHasRoom,
     NoStaleRead, PrintingHasText, SendsWhenDone, ReceivedAllButWaiting,
     BufferHoldsCall, LineHandedOver, EndedByNL, EndedByCtlC, BufferFilled, Stored
<1>6. QED BY <1>4, <1>5

LEMMA OuterDispatchStep ==
  ASSUME TerminalInv, TypeOK', OuterDispatch
  PROVE  TerminalTypeOK' /\ KernelInv'
<1>1. UNCHANGED <<got, rxAvailable, lineVars, status, callVars>>
  BY DEF OuterDispatch, vars, serialVars, uartVars, rxVars
<1>2. pc' \in {"readline", "type", "process"} /\ toPrint' \in Seq(Char)
  BY TerminalAssumption DEF OuterDispatch, TerminalAssumption, TerminalInv, TerminalTypeOK
<1>3. TerminalTypeOK'
  BY <1>1, <1>2 DEF TerminalInv, TerminalTypeOK, lineVars, callVars
<1>4. pc' = "type" => toPrint' # <<>>
  BY TerminalAssumption DEF OuterDispatch, TerminalAssumption
<1>5. pc = "outer" /\ (pc' = "process" => status \notin {0, 2})
  BY DEF OuterDispatch
<1>6. KernelInv'
  BY <1>1, <1>2, <1>4, <1>5 DEF lineVars, callVars, Stored, TerminalInv, KernelInv, ReadlineHasRoom,
     NoStaleRead, PrintingHasText, SendsWhenDone, ReceivedAllButWaiting,
     BufferHoldsCall, LineHandedOver, EndedByNL, EndedByCtlC, BufferFilled, Stored
<1>7. QED BY <1>3, <1>6

(* A text that ends with the prompt has a first byte.                      *)
LEMMA PromptedText ==
  ASSUME NEW s \in Seq(Char)
  PROVE  s \o Prompt \in Seq(Char) /\ s \o Prompt # <<>>
<1>1. Prompt \in Seq(Char) /\ Len(Prompt) > 0
  BY TerminalAssumption DEF TerminalAssumption
<1>2. s \o Prompt \in Seq(Char) /\ Len(s \o Prompt) = Len(s) + Len(Prompt)
  BY <1>1
<1>3. Len(s) \in Nat /\ Len(s \o Prompt) > 0
  BY <1>1, <1>2
<1>4. QED BY <1>2, <1>3

LEMMA ProcessStep ==
  ASSUME TerminalInv, TypeOK', ProcessTokens \/ ProcessRestart
  PROVE  TerminalTypeOK' /\ KernelInv'
<1>1. /\ pc' = "type" /\ status' \in Statuses
      /\ before' = [end |-> lbufEnd', status |-> status']
      /\ UNCHANGED <<got, rxAvailable, buf, bufptr, buflen, nread, rcvd, entry>>
  BY DEF ProcessTokens, ProcessRestart, vars, serialVars, uartVars, rxVars, Statuses
<1>2. toPrint' \in Seq(Char) /\ toPrint' # <<>>
  <2>1. CASE ProcessTokens
    <3>1. PICK reply \in Replies : toPrint' = reply \o Prompt
      BY <2>1 DEF ProcessTokens
    <3>2. reply \in Seq(Char)
      BY TerminalAssumption DEF TerminalAssumption
    <3>3. QED BY <3>1, <3>2, PromptedText
  <2>2. CASE ProcessRestart
    <3>1. PICK reply \in Replies : toPrint' = (reply \o Hello) \o Prompt
      BY <2>2 DEF ProcessRestart
    <3>2. reply \in Seq(Char) /\ Hello \in Seq(Char)
      BY TerminalAssumption DEF TerminalAssumption
    <3>3. reply \o Hello \in Seq(Char)
      BY <3>2
    <3>4. QED BY <3>1, <3>3, PromptedText
  <2>3. QED BY <2>1, <2>2
<1>3. lbufEnd' \in 0..LineLen /\ lbufIdx' \in 0..(LineLen + 1)
  <2>1. lbufEnd \in 0..LineLen /\ LineLen \in Nat
    BY TerminalAssumption DEF TerminalAssumption, TerminalInv, TerminalTypeOK
  <2>2. lbufEnd' \in {0, lbufEnd} /\ lbufIdx' \in {0, lbufEnd + 1}
    BY DEF ProcessTokens, ProcessRestart
  <2>3. QED BY <2>1, <2>2
<1>4. TerminalTypeOK'
  BY <1>1, <1>2, <1>3 DEF TerminalInv, TerminalTypeOK
<1>5. KernelInv'
  BY <1>1, <1>2 DEF TerminalInv, KernelInv, ReadlineHasRoom,
     NoStaleRead, PrintingHasText, SendsWhenDone, ReceivedAllButWaiting,
     BufferHoldsCall, LineHandedOver, EndedByNL, EndedByCtlC, BufferFilled, Stored
<1>6. QED BY <1>4, <1>5

LEMMA EnvironmentStep ==
  ASSUME TerminalInv, TypeOK', Environment
  PROVE  TerminalTypeOK' /\ KernelInv'
<1>1. /\ UNCHANGED <<pc, toPrint, lineVars, status, callVars>>
      /\ rxAvailable => rxAvailable' /\ got' = got
      /\ ~rxAvailable => got' = got + (IF rxAvailable' THEN 1 ELSE 0)
      /\ txDone => txDone'
  BY EnvironmentEffect DEF TerminalInv, TerminalTypeOK
<1>2. TerminalTypeOK'
  BY <1>1 DEF TerminalInv, TerminalTypeOK, lineVars, callVars
<1>3. ReceivedAllButWaiting'
  <2>1. got = Len(rcvd) + (IF rxAvailable THEN 1 ELSE 0) /\ Len(rcvd) \in Nat
    BY DEF TerminalInv, TerminalTypeOK, ReceivedAllButWaiting
  <2>2. rcvd' = rcvd
    BY <1>1 DEF callVars
  <2>3. CASE rxAvailable
    BY <1>1, <2>1, <2>2, <2>3 DEF ReceivedAllButWaiting
  <2>4. CASE ~rxAvailable
    <3>1. got = Len(rcvd) /\ got' = got + (IF rxAvailable' THEN 1 ELSE 0)
      BY <1>1, <2>1, <2>4
    <3>2. QED BY <2>2, <3>1 DEF ReceivedAllButWaiting
  <2>5. QED BY <2>3, <2>4
<1>4. KernelInv'
  BY <1>1, <1>3 DEF lineVars, callVars, Stored, TerminalInv, KernelInv, ReadlineHasRoom, NoStaleRead,
     PrintingHasText, SendsWhenDone, BufferHoldsCall, LineHandedOver, EndedByNL, EndedByCtlC, BufferFilled, Stored
<1>5. QED BY <1>2, <1>4

(* TerminalInv is inductive.                                               *)
LEMMA TerminalInvInit == TerminalInit => TerminalInv
<1> SUFFICES ASSUME TerminalInit PROVE TerminalInv
  OBVIOUS
<1>1. TypeOK /\ TxFlagsMatchFrame /\ RxHoldsLastByte
  BY InitType DEF TerminalInit, Init, UARTInit, TxFlagsMatchFrame, RxHoldsLastByte
<1>2. toPrint \in Seq(Char) /\ toPrint # <<>>
  BY PromptedText, TerminalAssumption DEF TerminalAssumption, TerminalInit
<1>3. TerminalTypeOK
  BY <1>1, <1>2, TerminalAssumption
  DEF TerminalAssumption, TerminalInit, TerminalTypeOK, Statuses
<1>4. got = Len(rcvd) /\ ~rxAvailable
  BY DEF TerminalInit, Init, SerialInit, UARTInit
<1>5. QED
  BY <1>1, <1>2, <1>3, <1>4 DEF TerminalInit, TerminalInv, ReadlineHasRoom, NoStaleRead,
     PrintingHasText, SendsWhenDone, ReceivedAllButWaiting, BufferHoldsCall, LineHandedOver, EndedByNL, EndedByCtlC, BufferFilled, Stored

LEMMA TerminalInvStep ==
  ASSUME TerminalInv, [TerminalNext]_tvars
  PROVE  TerminalInv'
<1>1. TypeOK' /\ TxFlagsMatchFrame' /\ RxHoldsLastByte'
  BY UARTPartStep DEF TerminalInv
<1>2. TerminalTypeOK' /\ KernelInv'
  <2>1. CASE TxWaitReady              BY <1>1, <2>1, TxWaitReadyStep
  <2>2. CASE TxByte                   BY <1>1, <2>2, TxByteStep
  <2>3. CASE ReadlineEntry            BY <1>1, <2>3, ReadlineEntryStep
  <2>4. CASE ReadlineCtlC \/ ReadlineEmpty
                                      BY <1>1, <2>4, ReadlineQuitStep
  <2>5. CASE ReadlineEnd              BY <1>1, <2>5, ReadlineEndStep
  <2>6. CASE ReadlineStore            BY <1>1, <2>6, ReadlineStoreStep
  <2>7. CASE ReadlineWait             BY <1>1, <2>7, ReadlineWaitStep
  <2>8. CASE OuterDispatch            BY <1>1, <2>8, OuterDispatchStep
  <2>9. CASE ProcessTokens \/ ProcessRestart
                                      BY <1>1, <2>9, ProcessStep
  <2>10. CASE Environment             BY <1>1, <2>10, EnvironmentStep
  <2>11. CASE UNCHANGED tvars
    BY <1>1, <2>11 DEF tvars, vars, serialVars, uartVars, txVars, rxVars, lineVars, callVars, Stored,
       TerminalInv, TerminalTypeOK, KernelInv, ReadlineHasRoom, NoStaleRead, PrintingHasText,
       SendsWhenDone, ReceivedAllButWaiting, BufferHoldsCall, LineHandedOver, EndedByNL, EndedByCtlC, BufferFilled, Stored
  <2>12. QED
    BY <2>1, <2>2, <2>3, <2>4, <2>5, <2>6, <2>7, <2>8, <2>9, <2>10, <2>11
    DEF TerminalNext, Cpu, Readline
<1>3. QED BY <1>1, <1>2 DEF TerminalInv, KernelInv

LEMMA TerminalInvariant == TerminalSpec => []TerminalInv
<1>1. TerminalInv /\ [TerminalNext]_tvars => TerminalInv'
  BY TerminalInvStep
<1>2. QED BY TerminalInvInit, <1>1, PTL DEF TerminalSpec
----------------------------------------------------------------------------
(* The kernel's variables stay in their types: no offset leaves the line   *)
(* buffer, for any length of it and anything typed.                        *)
THEOREM TerminalTypeCorrect == TerminalSpec => []TerminalTypeOK
<1>1. TerminalInv => TerminalTypeOK
  BY DEF TerminalInv
<1>2. QED BY <1>1, TerminalInvariant, PTL

(* READLINE never stores beyond the buffer.                                *)
THEOREM ReadlineBounded == TerminalSpec => []ReadlineHasRoom
<1>1. TerminalInv => ReadlineHasRoom
  BY DEF TerminalInv
<1>2. QED BY <1>1, TerminalInvariant, PTL

(* READLINE never reads the receiver empty.                                *)
THEOREM NeverReadsStale == TerminalSpec => []NoStaleRead
<1>1. TerminalInv => NoStaleRead
  BY DEF TerminalInv
<1>2. QED BY <1>1, TerminalInvariant, PTL

(* What this call took, when its last character was not stored.            *)
LEMMA TakenBeforeLast ==
  ASSUME TerminalInv, Len(rcvd) = entry + bufptr + 1, Stored(bufptr)
  PROVE  /\ Taken # <<>> /\ Taken[Len(Taken)] = rcvd[Len(rcvd)]
         /\ SubSeq(Taken, 1, Len(Taken) - 1) = SubSeq(buf, 1, bufptr)
         /\ Len(SubSeq(Taken, 1, Len(Taken) - 1)) = bufptr
<1>1. /\ buf \in [1..LineLen -> Char \cup {0}] /\ bufptr \in 0..LineLen
      /\ LineLen \in Nat /\ rcvd \in Seq(Char) /\ entry \in Nat
  BY TerminalAssumption DEF TerminalAssumption, TerminalInv, TerminalTypeOK
<1>2. /\ Taken \in Seq(Char) /\ Len(Taken) = bufptr + 1
      /\ \A i \in 1..(bufptr + 1) : Taken[i] = rcvd[entry + i]
  BY <1>1 DEF Taken
<1>3. SubSeq(Taken, 1, bufptr) = [i \in 1..bufptr |-> Taken[i]]
  BY <1>1, <1>2
<1>4. SubSeq(buf, 1, bufptr) = [i \in 1..bufptr |-> buf[i]]
  <2>1. buf \in Seq(Char \cup {0}) /\ Len(buf) = LineLen
    BY <1>1
  <2>2. QED BY <1>1, <2>1
<1>5. \A i \in 1..bufptr : Taken[i] = buf[i]
  BY <1>1, <1>2 DEF Stored
<1>6. SubSeq(Taken, 1, bufptr) = SubSeq(buf, 1, bufptr)
  BY <1>3, <1>4, <1>5
<1>7. Len(Taken) - 1 = bufptr /\ Taken # <<>> /\ Taken[bufptr + 1] = rcvd[Len(rcvd)]
  BY <1>1, <1>2
<1>8. Len(SubSeq(Taken, 1, bufptr)) = bufptr
  BY <1>1, <1>2
<1>9. QED BY <1>2, <1>6, <1>7, <1>8

(* A call that filled the buffer.                                          *)
LEMMA TakenFills ==
  ASSUME TerminalInv, Len(rcvd) = entry + LineLen, Stored(LineLen)
  PROVE  Taken # <<>> /\ Taken[Len(Taken)] = rcvd[Len(rcvd)] /\ buf = Taken
<1>1. /\ buf \in [1..LineLen -> Char \cup {0}]
      /\ LineLen \in Nat \ {0} /\ rcvd \in Seq(Char) /\ entry \in Nat
  BY TerminalAssumption DEF TerminalAssumption, TerminalInv, TerminalTypeOK
<1>2. /\ Taken = [i \in 1..LineLen |-> rcvd[entry + i]] /\ Len(Taken) = LineLen
  BY <1>1 DEF Taken
<1>3. buf = [i \in 1..LineLen |-> buf[i]]
  BY <1>1
<1>4. buf = Taken
  BY <1>2, <1>3 DEF Stored
<1>5. LineLen \in 1..LineLen /\ entry + LineLen = Len(rcvd)
  BY <1>1
<1>6. Taken[Len(Taken)] = rcvd[Len(rcvd)]
  BY <1>2, <1>5
<1>7. QED BY <1>1, <1>2, <1>4, <1>6

(* What READLINE leaves on each of its exits, for every length of the      *)
(* buffer and everything that is typed.                                    *)
THEOREM LinesIntact == TerminalSpec => []LineAsReceived
<1>1. TerminalInv => LineAsReceived
  <2> SUFFICES ASSUME TerminalInv, pc \in {"outer", "process"}
               PROVE  LineAsReceived
    BY DEF LineAsReceived
  <2>1. pc = "process" => status \notin {0, 2}
    BY DEF TerminalInv
  <2>2. CASE Len(rcvd) = entry /\ status = 0
    <3>1. Taken = <<>>
      BY <2>2 DEF Taken, TerminalInv, TerminalTypeOK
    <3>2. QED BY <2>1, <2>2, <3>1 DEF LineAsReceived
  <2>3. CASE lbufIdx = 0 /\ Stored(bufptr) /\ EndedByNL
    <3> DEFINE others == SubSeq(Taken, 1, Len(Taken) - 1)
    <3>1. /\ Taken # <<>> /\ Taken[Len(Taken)] = NL
          /\ others = SubSeq(buf, 1, bufptr) /\ Len(others) = bufptr
      BY <2>3, TakenBeforeLast DEF EndedByNL
    <3>2. CASE bufptr > 0 /\ lbufEnd = bufptr /\ status = 1
      <4>1. others # <<>>
        <5>1. Len(<<>>) = 0 /\ Len(others) # 0
          BY <3>1, <3>2
        <5> HIDE DEF others
        <5>2. QED BY <5>1
      <4>2. Line = others
        BY <2>3, <3>1, <3>2 DEF Line
      <4>3. QED BY <2>1, <2>3, <3>1, <3>2, <4>1, <4>2 DEF LineAsReceived
    <3>3. CASE bufptr = 0 /\ status = 0
      <4>1. others = <<>>
        BY <3>1, <3>3 DEF Taken, TerminalInv, TerminalTypeOK
      <4>2. QED BY <2>1, <2>3, <3>1, <3>3, <4>1 DEF LineAsReceived
    <3>4. QED BY <2>3, <3>2, <3>3 DEF EndedByNL
  <2>4. CASE lbufIdx = 0 /\ Stored(bufptr) /\ EndedByCtlC
    <3>1. /\ Taken # <<>> /\ Taken[Len(Taken)] = CtlC
          /\ SubSeq(Taken, 1, Len(Taken) - 1) = SubSeq(buf, 1, bufptr)
          /\ Len(SubSeq(Taken, 1, Len(Taken) - 1)) = bufptr
      BY <2>4, TakenBeforeLast DEF EndedByCtlC
    <3>2. QED BY <2>1, <2>4, <3>1 DEF LineAsReceived, EndedByCtlC
  <2>5. CASE lbufIdx = 0 /\ Stored(bufptr) /\ BufferFilled
    <3>1. Taken # <<>> /\ Taken[Len(Taken)] \notin {NL, CtlC} /\ buf = Taken
      BY <2>5, TakenFills DEF BufferFilled
    <3>2. QED BY <2>1, <2>5, <3>1 DEF LineAsReceived, BufferFilled
  <2>6. QED BY <2>2, <2>3, <2>4, <2>5 DEF TerminalInv, LineHandedOver
<1>2. QED BY <1>1, TerminalInvariant, PTL

(* No byte is stored into the transmitter while a frame is on the line.    *)
THEOREM TransmitterNotOverrun == TerminalSpec => NoTransmitOverrun
<1>1. TerminalInv /\ [TerminalNext]_tvars => [printed' # printed => txDone]_tvars
  <2> SUFFICES ASSUME TerminalInv, TerminalNext, printed' # printed PROVE txDone
    BY DEF tvars, vars, serialVars
  <2>1. CASE TxByte
    BY <2>1 DEF TxByte, TerminalInv, SendsWhenDone
  <2>2. CASE TxWaitReady \/ ReadlineEntry \/ ReadlineWait
    BY <2>2, StatusReadEffect DEF TxWaitReady, ReadlineEntry, ReadlineWait
  <2>3. CASE Readline
    BY <2>3, DataReadEffect
    DEF Readline, ReadlineCtlC, ReadlineEmpty, ReadlineEnd, ReadlineStore, ReadChar
  <2>4. CASE OuterDispatch \/ ProcessTokens \/ ProcessRestart
    BY <2>4 DEF OuterDispatch, ProcessTokens, ProcessRestart, vars, serialVars
  <2>5. CASE Environment
    BY <2>5, EnvironmentEffect DEF TerminalInv, TerminalTypeOK
  <2>6. QED BY <2>1, <2>2, <2>3, <2>4, <2>5 DEF TerminalNext, Cpu
<1>2. QED BY <1>1, TerminalInvariant, PTL DEF TerminalSpec, NoTransmitOverrun

(* The kernel's loop, the UART and the host's buffers together implement a *)
(* byte stream from the keyboard to READLINE.                              *)
THEOREM InputIsByteStream == TerminalSpec => InputInOrder
<1>1. TerminalInit => Input!Init
  BY DEF TerminalInit, Init, SerialInit, Input!Init
<1>2. TerminalInv /\ [TerminalNext]_tvars => [Input!Next]_<<typed, rcvd>>
  <2> SUFFICES ASSUME TerminalInv, [TerminalNext]_tvars
               PROVE  Input!Next \/ UNCHANGED <<typed, rcvd>>
    OBVIOUS
  <2>1. CASE Readline
    <3>1. ReadChar /\ rcvd' = Append(rcvd, rxD)
      BY <2>1 DEF Readline, ReadlineCtlC, ReadlineEmpty, ReadlineEnd, ReadlineStore, ReadChar
    <3>2. TakesNext
      BY <3>1, ReadCharEffect
    <3>3. QED BY <3>1, <3>2 DEF TakesNext, Input!Next, Input!Receive
  <2>2. ASSUME NEW c \in Char, Typing(c), rcvd' = rcvd
        PROVE  Input!Next
    BY <2>2 DEF Typing, HostTypes, Input!Next, Input!Send
  <2>3. CASE TxWaitReady \/ ReadlineEntry \/ ReadlineWait
    BY <2>3 DEF TxWaitReady, ReadlineEntry, ReadlineWait, ReadAccess, Read, serialVars, callVars
  <2>4. CASE TxByte
    BY <2>4, WriteAccessEffect DEF TxByte, callVars
  <2>5. CASE OuterDispatch \/ ProcessTokens \/ ProcessRestart
    BY <2>5 DEF OuterDispatch, ProcessTokens, ProcessRestart, vars, serialVars, callVars
  <2>6. CASE TickEffect /\ rcvd' = rcvd
    BY <2>6 DEF TickEffect, TickRx, RxLatch, RxHold, Getc
  <2>7. CASE UNCHANGED tvars
    BY <2>7 DEF tvars, vars, serialVars, callVars
  <2>8. QED
    BY <2>1, <2>2, <2>3, <2>4, <2>5, <2>6, <2>7
    DEF TerminalNext, Cpu, Environment, Tick, OtherInstruction, callVars
<1>3. QED BY <1>1, <1>2, TerminalInvariant, PTL DEF TerminalSpec, InputInOrder, Input!Spec
============================================================================
