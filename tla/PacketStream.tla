---------------------------- MODULE PacketStream ----------------------------
(***************************************************************************)
(* What cutting packets out of a byte stream must amount to, however the   *)
(* bytes arrive: the packets that come out are the packets that went in,   *)
(* whole, in order, none twice and none left out.                          *)
(***************************************************************************)
EXTENDS Integers, Sequences

VARIABLES
    sent,       \* the packets the server has sent
    delivered   \* the packets the client has been handed

vars == <<sent, delivered>>

Init == sent = <<>> /\ delivered = <<>>

Send ==
    /\ Len(sent') = Len(sent) + 1
    /\ SubSeq(sent', 1, Len(sent)) = sent
    /\ UNCHANGED delivered

Deliver ==
    /\ \E n \in Len(delivered) + 1 .. Len(sent) : delivered' = SubSeq(sent, 1, n)
    /\ UNCHANGED sent

Next == Send \/ Deliver

Spec == Init /\ [][Next]_vars
=============================================================================
