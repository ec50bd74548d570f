---------------------------- MODULE PacketCodec -----------------------------
(***************************************************************************)
(* The packet codecs of src/packet/packet.go and                           *)
(* src/pitaya_cpp/src/packet.cpp: a byte for the type, three bytes for the *)
(* length of the payload, most significant first, and the payload.         *)
(*                                                                         *)
(* A byte is a number.  The digits of a length are in base Radix, 256 in   *)
(* the code; with a small Radix the largest packet is small too.           *)
(***************************************************************************)
EXTENDS Integers, Sequences

CONSTANT Radix

ASSUME RadixAssumption == Radix \in Nat \ {0, 1}

Handshake    == 1
HandshakeAck == 2
Heartbeat    == 3
Data         == 4
Kick         == 5

Types         == Handshake .. Kick
HeadLength    == 4
MaxPacketSize == Radix * Radix * Radix      \* 1 << 24

IntToBytes(n) == << (n \div (Radix * Radix)) % Radix, (n \div Radix) % Radix, n % Radix >>

BytesToInt(b) == (b[1] * Radix + b[2]) * Radix + b[3]

\* The checks of both Encode functions.  The size check lets MaxPacketSize itself
\* pass, whose length does not fit in three bytes.
Encodable(typ, data) == typ \in Types /\ Len(data) <= MaxPacketSize

\* The bytes of a packet that passes them.
Encode(typ, data) == <<typ>> \o IntToBytes(Len(data)) \o data

-----------------------------------------------------------------------------
(* A packet cut from the bytes s at position p, when it is all there.      *)

HeaderAt(s, p)  == p + HeadLength <= Len(s)
SizeAt(s, p)    == BytesToInt(SubSeq(s, p + 2, p + HeadLength))
NextAt(s, p)    == p + HeadLength + SizeAt(s, p)
PacketAt(s, p)  == [type |-> s[p + 1], data |-> SubSeq(s, p + HeadLength + 1, NextAt(s, p))]

\* packet.Decode: the packets at the front of s, and from its position p on.  A type
\* out of range is an error, also behind packets that are fine, and then there are no
\* packets.  (ParseHeader also checks the size against MaxPacketSize, which three
\* bytes cannot exceed.)
GoDecodeFrom(s) ==
    LET from[p \in 0 .. Len(s)] ==
            IF ~HeaderAt(s, p) THEN [err |-> FALSE, packets |-> <<>>]
            ELSE IF s[p + 1] \notin Types THEN [err |-> TRUE, packets |-> <<>>]
            ELSE IF NextAt(s, p) > Len(s) THEN [err |-> FALSE, packets |-> <<>>]
            ELSE LET rest == from[NextAt(s, p)]
                 IN  IF rest.err THEN rest
                     ELSE [rest EXCEPT !.packets = <<PacketAt(s, p)>> \o @]
    IN from

GoDecode(s) == GoDecodeFrom(s)[0]

\* Codec::Decode does not look at the type.
CppDecodeFrom(s) ==
    LET from[p \in 0 .. Len(s)] ==
            IF ~HeaderAt(s, p) \/ NextAt(s, p) > Len(s) THEN <<>>
            ELSE <<PacketAt(s, p)>> \o from[NextAt(s, p)]
    IN from

CppDecode(s) == CppDecodeFrom(s)[0]

\* The bytes that the packets ps were cut from, totalProcessed and consumed: up to
\* the end of the first i of them, and of all.
ConsumedUpto(ps) ==
    LET upto[i \in 0 .. Len(ps)] ==
            IF i = 0 THEN 0 ELSE upto[i - 1] + HeadLength + Len(ps[i].data)
    IN upto

Consumed(ps) == ConsumedUpto(ps)[Len(ps)]

\* The bytes of buf after n of them have been consumed.
Drop(buf, n) == SubSeq(buf, n + 1, Len(buf))
=============================================================================
