------------------------------ MODULE Terminal -----------------------------
(***************************************************************************)
(* The Forth kernel's terminal loop on top of the UART (fasm/core.fasm):   *)
(* OUTER prints its prompt byte by byte through SYSCALL_TYPE and           *)
(* SYSCALL_UART_TX_BYTE, calls SYSCALL_UART_READLINE until a line is in    *)
(* the line buffer, and lets PROCESS-TOKENS interpret the buffer.          *)
(*                                                                         *)
(* An action is one access to the UART with the register instructions      *)
(* that follow it up to the next access.  Its tick follows; the ticks of   *)
(* the register instructions are the OtherInstruction steps, which may     *)
(* come between any two accesses.  What PROCESS-TOKENS does with a line is *)
(* left open here: it prints a reply and returns, or restarts the system.  *)
(***************************************************************************)
EXTENDS UART

CONSTANTS
  LineLen,   \* #LBUF_LEN
  CtlC, NL,  \* the two characters READLINE treats specially
  Hello,     \* MSG_HELLO
  Prompt,    \* a new line and MSG_PROMPT
  Replies,   \* what interpreting a line may print
  Scratch    \* what other routines leave in R6

(* SYSCALL_TYPE is a do-while loop: a text it prints has a first byte.     *)
ASSUME TerminalAssumption ==
  /\ LineLen \in Nat \ {0}
  /\ CtlC \in Char /\ NL \in Char /\ CtlC # NL
  /\ Hello \in Seq(Char) \ {<<>>} /\ Prompt \in Seq(Char) \ {<<>>}
  /\ Replies \subseteq Seq(Char)

VARIABLES
  pc,        \* where the program is
  toPrint,   \* what SYSCALL_TYPE has left to send
  lbufIdx,   \* %LBUF_IDX, as an offset from LBUF_DATA
  lbufEnd,   \* %LBUF_END, likewise
  buf,       \* %LBUF_DATA
  bufptr,    \* register BUFPTR of READLINE, likewise
  buflen,    \* register BUFLEN of READLINE
  nread,     \* register RECEIVED of READLINE
  status,    \* register R6, READLINE's STATUS
  rcvd,      \* every byte READLINE took from the data register, in order
  entry,     \* how many of them before the current call of READLINE
  before     \* what %LBUF_END and R6 were before that call

lineVars == <<lbufIdx, lbufEnd, buf, bufptr, buflen, nread>>
callVars == <<rcvd, entry, before>>
tvars == <<vars, pc, toPrint, lineVars, status, callVars>>

(* R6 is READLINE's STATUS and other routines' scratch register.           *)
Statuses == 0..3 \cup Scratch

TerminalTypeOK ==
  /\ TypeOK
  /\ pc \in {"type", "send", "readline", "read", "wait", "outer", "process"}
  /\ toPrint \in Seq(Char)
  /\ lbufIdx \in 0..(LineLen + 1) /\ lbufEnd \in 0..LineLen
  /\ buf \in [1..LineLen -> Char \cup {0}]
  /\ bufptr \in 0..LineLen /\ buflen \in 0..LineLen /\ nread \in 0..LineLen
  /\ status \in Statuses
  /\ rcvd \in Seq(Char) /\ entry \in 0..Len(rcvd)
  /\ before \in [end : 0..LineLen, status : Statuses]

(* COLD has run into STAR_RESTART; R6 holds whatever it did at power-on.   *)
TerminalInit ==
  /\ Init
  /\ pc = "type" /\ toPrint = Hello \o Prompt
  /\ lbufIdx = 0 /\ lbufEnd = 0
  /\ buf = [i \in 1..LineLen |-> 0]
  /\ bufptr = 0 /\ buflen = 0 /\ nread = 0
  /\ status \in Scratch
  /\ rcvd = <<>> /\ entry = 0
  /\ before = [end |-> 0, status |-> status]
----------------------------------------------------------------------------
StatusHas(mask) == (Status \div mask) % 2 = 1

(* Names that begin with Bug are mutants of the definition that follows.   *)
BugNoPoll ==
  /\ pc = "type"
  /\ ReadAccess(0)
  /\ pc' = "send"
  /\ UNCHANGED <<toPrint, lineVars, status, callVars>>

BugPollsTxActive ==
  /\ pc = "type"
  /\ ReadAccess(0)
  /\ pc' = IF StatusHas(2) THEN "send" ELSE "type"
  /\ UNCHANGED <<toPrint, lineVars, status, callVars>>

(* SYSCALL_UART_TX_BYTE polls for TX_DONE, then stores the byte; the rest  *)
(* of SYSCALL_TYPE's loop counts it.                                       *)
TxWaitReady ==
  /\ pc = "type"
  /\ ReadAccess(0)
  /\ pc' = IF StatusHas(4) THEN "send" ELSE "type"
  /\ UNCHANGED <<toPrint, lineVars, status, callVars>>

TxByte ==
  /\ pc = "send"
  /\ WriteAccess(2, Head(toPrint))
  /\ toPrint' = Tail(toPrint)
  /\ pc' = IF Tail(toPrint) = <<>> THEN "readline" ELSE "type"
  /\ UNCHANGED <<lineVars, status, callVars>>

BugBufptrNotReset ==
  /\ pc = "readline"
  /\ ReadAccess(0)
  /\ lbufIdx' = 0 /\ nread' = 0 /\ buflen' = LineLen
  /\ entry' = Len(rcvd) /\ before' = [end |-> lbufEnd, status |-> status]
  /\ \/ StatusHas(1) /\ pc' = "read" /\ UNCHANGED status
     \/ ~StatusHas(1) /\ pc' = "outer" /\ status' = 0
  /\ UNCHANGED <<toPrint, lbufEnd, buf, bufptr, rcvd>>

BugPollsTxDone ==
  /\ pc = "readline"
  /\ ReadAccess(0)
  /\ lbufIdx' = 0 /\ bufptr' = 0 /\ nread' = 0 /\ buflen' = LineLen
  /\ entry' = Len(rcvd) /\ before' = [end |-> lbufEnd, status |-> status]
  /\ \/ StatusHas(4) /\ pc' = "read" /\ UNCHANGED status
     \/ ~StatusHas(4) /\ pc' = "outer" /\ status' = 0
  /\ UNCHANGED <<toPrint, lbufEnd, buf, rcvd>>

(* INLINE calls READLINE, which sets up the buffer and looks once whether  *)
(* a character is there.                                                   *)
ReadlineEntry ==
  /\ pc = "readline"
  /\ ReadAccess(0)
  /\ lbufIdx' = 0 /\ bufptr' = 0 /\ nread' = 0 /\ buflen' = LineLen
  /\ entry' = Len(rcvd) /\ before' = [end |-> lbufEnd, status |-> status]
  /\ \/ StatusHas(1) /\ pc' = "read" /\ UNCHANGED status
     \/ ~StatusHas(1) /\ pc' = "outer" /\ status' = 0
  /\ UNCHANGED <<toPrint, lbufEnd, buf, rcvd>>

ReadChar ==
  /\ pc = "read"
  /\ ReadAccess(2)
  /\ rcvd' = Append(rcvd, rxD)
  /\ UNCHANGED <<toPrint, lbufIdx, entry, before>>

ReadlineCtlC ==
  /\ ReadChar /\ rxD = CtlC
  /\ status' = 3 /\ pc' = "outer"
  /\ UNCHANGED <<lbufEnd, buf, bufptr, buflen, nread>>

ReadlineEmpty ==
  /\ ReadChar /\ rxD = NL /\ nread = 0
  /\ status' = 0 /\ pc' = "outer"
  /\ UNCHANGED <<lbufEnd, buf, bufptr, buflen, nread>>

BugEndNotStored ==
  /\ ReadChar /\ rxD = NL /\ nread > 0
  /\ status' = 1 /\ pc' = "outer"
  /\ UNCHANGED <<lbufEnd, buf, bufptr, buflen, nread>>

ReadlineEnd ==
  /\ ReadChar /\ rxD = NL /\ nread > 0
  /\ status' = 1 /\ pc' = "outer"
  /\ lbufEnd' = bufptr
  /\ UNCHANGED <<buf, bufptr, buflen, nread>>

(* Store the character; when that fills the buffer READLINE returns        *)
(* without having set STATUS or %LBUF_END.                                 *)
ReadlineStore ==
  /\ ReadChar /\ rxD \notin {CtlC, NL}
  /\ buf' = [buf EXCEPT ![bufptr + 1] = rxD]
  /\ bufptr' = bufptr + 1
  /\ nread' = nread + 1
  /\ buflen' = buflen - 1
  /\ pc' = IF buflen - 1 = 0 THEN "outer" ELSE "wait"
  /\ UNCHANGED <<lbufEnd, status>>

ReadlineWait ==
  /\ pc = "wait"
  /\ ReadAccess(0)
  /\ pc' = IF StatusHas(1) THEN "read" ELSE "wait"
  /\ UNCHANGED <<toPrint, lineVars, status, callVars>>

BugWaitsForLine ==
  /\ pc = "outer" /\ ~ticking
  /\ \/ status = 0 /\ pc' = "outer" /\ UNCHANGED toPrint
     \/ status = 2 /\ pc' = "type" /\ toPrint' = Prompt
     \/ status \notin {0, 2} /\ pc' = "process" /\ UNCHANGED toPrint
  /\ UNCHANGED <<vars, lineVars, status, callVars>>

(* OUTER: 0 reads again, 2 prompts and reads again, all else is a line.    *)
OuterDispatch ==
  /\ pc = "outer" /\ ~ticking
  /\ \/ status = 0 /\ pc' = "readline" /\ UNCHANGED toPrint
     \/ status = 2 /\ pc' = "type" /\ toPrint' = Prompt
     \/ status \notin {0, 2} /\ pc' = "process" /\ UNCHANGED toPrint
  /\ UNCHANGED <<vars, lineVars, status, callVars>>

(* PROCESS-TOKENS interprets LBUF_DATA .. LBUF_END, prints, and returns to *)
(* the loop.                                                               *)
ProcessTokens ==
  /\ pc = "process" /\ ~ticking
  /\ pc' = "type"
  /\ \E reply \in Replies : toPrint' = reply \o Prompt
  /\ lbufIdx' \in {0, lbufEnd + 1}   \* nothing scanned, everything scanned
  /\ status' \in Scratch
  /\ before' = [end |-> lbufEnd, status |-> status']
  /\ UNCHANGED <<vars, lbufEnd, buf, bufptr, buflen, nread, rcvd, entry>>

(* Or it fails and restarts the system: STAR_RESTART empties the buffer    *)
(* and OUTER starts with its greeting.                                     *)
ProcessRestart ==
  /\ pc = "process" /\ ~ticking
  /\ pc' = "type"
  /\ \E reply \in Replies : toPrint' = reply \o Hello \o Prompt
  /\ lbufEnd' = 0
  /\ lbufIdx' \in {0, lbufEnd + 1}
  /\ status' \in Scratch
  /\ before' = [end |-> 0, status |-> status']
  /\ UNCHANGED <<vars, buf, bufptr, buflen, nread, rcvd, entry>>
----------------------------------------------------------------------------
Readline == ReadlineCtlC \/ ReadlineEmpty \/ ReadlineEnd \/ ReadlineStore

Cpu ==
  \/ TxWaitReady \/ TxByte
  \/ ReadlineEntry \/ Readline \/ ReadlineWait
  \/ OuterDispatch \/ ProcessTokens \/ ProcessRestart

Environment ==
  /\ Tick \/ OtherInstruction \/ \E c \in Char : Typing(c)
  /\ UNCHANGED <<pc, toPrint, lineVars, status, callVars>>

TerminalNext == Cpu \/ Environment

TerminalSpec == TerminalInit /\ [][TerminalNext]_tvars

(* The run loop never stops stepping, and interpreting a line ends.        *)
TerminalFairSpec ==
  /\ TerminalSpec
  /\ WF_tvars(Cpu)
  /\ WF_tvars(Tick /\ UNCHANGED <<pc, toPrint, lineVars, status, callVars>>)
----------------------------------------------------------------------------
(* READLINE takes the characters as they were typed: none lost, repeated   *)
(* or overtaken on the way through the two host buffers and the one-byte   *)
(* receiver, however long the program is away printing or interpreting.    *)
Input == INSTANCE ByteStream WITH Byte <- Char, sent <- typed, received <- rcvd
InputInOrder == Input!Spec

(* Whenever READLINE is about to take a character there is room for it in  *)
(* the line buffer, and its three registers agree on how much.             *)
ReadlineHasRoom ==
  pc \in {"read", "wait"} => bufptr < LineLen /\ nread = bufptr /\ buflen = LineLen - bufptr

(* What this call of READLINE took, and what PROCESS-TOKENS would read.    *)
Taken == SubSeq(rcvd, entry + 1, Len(rcvd))
Line  == SubSeq(buf, lbufIdx + 1, lbufEnd)

(* What a call of READLINE leaves behind on each of its exits              *)
(* (core.fasm:159-203), and that OUTER interprets nothing else:            *)
(*   - a new line behind other characters: the line is what this call took *)
(*     before it, with nothing of an earlier line around it;               *)
(*   - a new line alone: the status of no input;                           *)
(*   - Ctl-C: what was taken lies in the buffer, but the line still ends   *)
(*     where the one before it did;                                        *)
(*   - a full buffer: likewise, and the status is still what it was, so    *)
(*     that OUTER drops the characters when that was 0 and otherwise reads *)
(*     as many of them as the line before had.                             *)
(* The header (core.fasm:138-142) says 1 for data and 2 for an empty line: *)
(* the code does that in the first case only, and gives 2 in none.         *)
LineAsReceived ==
  /\ pc = "process" => Taken # <<>> /\ status \notin {0, 2}
  /\ pc \in {"outer", "process"} /\ Taken # <<>> =>
       LET last   == Taken[Len(Taken)]
           others == SubSeq(Taken, 1, Len(Taken) - 1)
           held   == SubSeq(buf, 1, Len(others)) = others
       IN  /\ lbufIdx = 0
           /\ \/ last = NL   /\ others # <<>> /\ Line = others /\ status = 1
              \/ last = NL   /\ others = <<>> /\ status = 0
              \/ last = CtlC /\ held /\ lbufEnd = before.end /\ status = 3
              \/ last \notin {NL, CtlC} /\ buf = Taken
                   /\ lbufEnd = before.end /\ status = before.status

(* TX_BYTE never stores a byte while a frame is still on the line: on the  *)
(* hardware it would be lost.                                              *)
NoTransmitOverrun == [][printed' # printed => txDone]_tvars

(* The receiver is read only when a byte waits in it.                      *)
NoStaleRead == pc = "read" => rxAvailable

(* The inductive invariant behind those four.  Its parts: a text that is   *)
(* being printed has a byte left; a byte is sent with the transmitter      *)
(* done; what READLINE took is all getchar() returned but the byte that    *)
(* waits; the buffer holds what this call received, and still holds it     *)
(* when OUTER hands a finished line over.                                  *)
PrintingHasText == pc \in {"type", "send"} => toPrint # <<>>

SendsWhenDone == pc = "send" => txDone

ReceivedAllButWaiting == got = Len(rcvd) + (IF rxAvailable THEN 1 ELSE 0)

Stored(n) == \A i \in 1..n : buf[i] = rcvd[entry + i]

BufferHoldsCall ==
  pc \in {"read", "wait"} =>
    /\ lbufIdx = 0 /\ Len(rcvd) = entry + bufptr /\ Stored(bufptr)
    /\ lbufEnd = before.end /\ status = before.status

EndedByNL ==
  /\ Len(rcvd) = entry + bufptr + 1 /\ rcvd[Len(rcvd)] = NL
  /\ \/ bufptr > 0 /\ lbufEnd = bufptr /\ status = 1
     \/ bufptr = 0 /\ status = 0

EndedByCtlC ==
  /\ Len(rcvd) = entry + bufptr + 1 /\ rcvd[Len(rcvd)] = CtlC
  /\ lbufEnd = before.end /\ status = 3

BufferFilled ==
  /\ Len(rcvd) = entry + bufptr /\ rcvd[Len(rcvd)] \notin {NL, CtlC}
  /\ bufptr = LineLen /\ lbufEnd = before.end /\ status = before.status

LineHandedOver ==
  pc \in {"outer", "process"} =>
    \/ Len(rcvd) = entry /\ status = 0
    \/ lbufIdx = 0 /\ Stored(bufptr) /\ (EndedByNL \/ EndedByCtlC \/ BufferFilled)

TerminalInv ==
  /\ TerminalTypeOK /\ TxFlagsMatchFrame /\ RxHoldsLastByte
  /\ ReadlineHasRoom /\ NoStaleRead
  /\ PrintingHasText /\ SendsWhenDone /\ ReceivedAllButWaiting
  /\ BufferHoldsCall /\ LineHandedOver
  /\ pc = "process" => status \notin {0, 2}

(* What is being printed gets printed, and the program is back to read.    *)
PrintingEnds == pc = "type" ~> pc = "readline"

(* UART.h:17 says that bit 0 of the status means data is available, but    *)
(* available() sees only the kernel's queue (FSerial.h:45).  So a character *)
(* in the C library's buffer is reported when more is typed and not before *)
(* it: the queue does not stay filled and gives up more only after all     *)
(* that came before has reached READLINE, but while it holds nothing, what *)
(* is left in the C library's buffer stays there.                          *)
DeliveredWithTheNext ==
  /\ Available ~> ~Available
  /\ [][/\ fetched' # fetched => Len(rcvd) = fetched
        /\ ~Available => got' = got]_tvars
============================================================================
