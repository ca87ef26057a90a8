----------------------------- MODULE ByteStream ----------------------------
(***************************************************************************)
(* What a serial line promises: the receiver takes the bytes the sender    *)
(* gave, each once and in their order.                                     *)
(***************************************************************************)
EXTENDS Naturals, Sequences

CONSTANT Byte

VARIABLES sent, received

Init == sent = <<>> /\ received = <<>>

Send == \E b \in Byte : sent' = Append(sent, b) /\ UNCHANGED received

Receive ==
  /\ Len(received) < Len(sent)
  /\ received' = Append(received, sent[Len(received) + 1])
  /\ UNCHANGED sent

Next == Send \/ Receive

Spec == Init /\ [][Next]_<<sent, received>>
============================================================================
