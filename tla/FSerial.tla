------------------------------ MODULE FSerial ------------------------------
(***************************************************************************)
(* The host's side of the serial line (runtime/ForthCPU/FSerial.h): the    *)
(* emulated UART's input is the emulator's standard input.  A typed        *)
(* character passes two buffers before the UART sees it: the kernel's      *)
(* queue for file descriptor 0, which available() asks with FIONREAD, and  *)
(* the C library's buffer behind getchar(), which FIONREAD knows nothing   *)
(* about.  Both are FIFOs, so their contents are intervals of the sequence *)
(* `typed' of everything typed so far:                                     *)
(*                                                                         *)
(*    1 .. got                 returned by getchar()                       *)
(*    got+1 .. fetched         in the C library's buffer                   *)
(*    fetched+1 .. Len(typed)  in the kernel's queue                       *)
(***************************************************************************)
EXTENDS Naturals, Sequences

CONSTANTS
  Char,       \* the byte values that occur on the line
  MaxTyped,   \* bound: how many characters are typed
  MaxPrinted  \* bound: how many characters are printed

ASSUME FSerialAssumption ==
  /\ Char \subseteq 0..255
  /\ MaxTyped \in Nat
  /\ MaxPrinted \in Nat

VARIABLES
  typed,    \* every character the user has typed, in order
  fetched,  \* how many of them read(2) has moved into the C library's buffer
  got,      \* how many of them getchar() has returned
  printed   \* every character given to putchar(), in order

serialVars == <<typed, fetched, got, printed>>

SerialTypeOK ==
  /\ typed \in Seq(Char)
  /\ fetched \in 0..Len(typed)
  /\ got \in 0..fetched
  /\ printed \in Seq(0..255)

SerialInit ==
  /\ typed = <<>>
  /\ fetched = 0
  /\ got = 0
  /\ printed = <<>>

(* The user types a character; it joins the kernel's queue.                *)
HostTypes(c) ==
  /\ Len(typed) < MaxTyped
  /\ typed' = Append(typed, c)
  /\ UNCHANGED <<fetched, got, printed>>

(* available(): FIONREAD reports what is still in the kernel's queue.      *)
Available == fetched < Len(typed)

(* getc() is getchar().  It takes the next character of the C library's    *)
(* buffer; when that is empty read(2) first moves some of the kernel's     *)
(* queue there: a terminal gives up one line, a pipe all it holds.         *)
Getc ==
  /\ got < Len(typed)
  /\ got' = got + 1
  /\ IF got < fetched
       THEN fetched' = fetched
       ELSE fetched' \in (fetched + 1)..Len(typed)
  /\ UNCHANGED typed

NextChar == typed[got + 1]

(* putc() is putchar(); the guard is the bound on the output remembered.   *)
Putc(c) ==
  /\ Len(printed) < MaxPrinted
  /\ printed' = Append(printed, c)
============================================================================
