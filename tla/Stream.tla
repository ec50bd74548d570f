------------------------------- MODULE Stream -------------------------------
(***************************************************************************)
(* How the clients cut packets out of the TCP stream.                      *)
(*   "go"   readPackets of src/client/client.go, as handleHandshakeResponse *)
(*          calls it once and readLoop calls it again and again            *)
(*   "cpp"  recvSome and readPackets of src/pitaya_cpp/src/client.cpp, as   *)
(*          handleHandshakeResponse calls them once and RecvThreadFunc     *)
(*          again and again                                                *)
(* In both, the handshake and the loop have a buffer of their own.         *)
(*                                                                         *)
(* The server encodes what it sends the way packet.Encode does.  It sends  *)
(* its handshake response first, and nothing else before it has the        *)
(* client's HandshakeAck.                                                  *)
(***************************************************************************)
EXTENDS PacketCodec, FiniteSetsExt

CONSTANTS
    Payloads,   \* the payloads the server sends
    Chunk,      \* the size of a read: 1024 bytes in Go, kChunk = 4096 in C++
    MaxSent     \* bound: packets the server sends

ASSUME StreamAssumption ==
    /\ Payloads \subseteq Seq(Nat)
    /\ Chunk \in Nat \ {0}
    /\ MaxSent \in Nat

VARIABLES
    client,     \* which of the clients is connected
    sent,       \* the packets the server has sent
    wire,       \* the bytes TCP carries to the client
    peer,       \* is the server at the other end?
    buf,        \* the buffer handed to readPackets
    delivered,  \* the packets the client has handled
    phase       \* where the client is

vars == <<client, sent, wire, peer, buf, delivered, phase>>

Init ==
    /\ client \in {"go", "cpp"}
    /\ sent = <<>>
    /\ wire = <<>>
    /\ peer = "up"
    /\ buf = <<>>
    /\ delivered = <<>>
    /\ phase = "handshake"

Reading == phase \in {"handshake", "loop"}

-----------------------------------------------------------------------------
(* Slips the code does not make; see the properties below.                 *)

\* packet.Decode without its check that the payload is all there.
DecodedShort(got) ==
    LET packets == GoDecode(got).packets
        rest    == Drop(got, Consumed(packets))
    IN  IF HeaderAt(rest, 0)
        THEN Append(packets, [type |-> rest[1], data |-> Drop(rest, HeadLength)])
        ELSE packets

\* packet.Decode that returns, with its error, the packets in front of the bytes
\* it cannot decode.
DecodedFront(got) == SelectSeq(CppDecode(got), LAMBDA p : p.type \in Types)

\* buffer.erase and buf.Next of nothing, and of everything.
RemainderAll(got, packets)  == got
RemainderNone(got, packets) == <<>>

\* readPackets that goes on reading while packets may be behind the one it has.
ReadsOnWhileUseful(n) == n >= HeadLength

-----------------------------------------------------------------------------
(* The server: not part of the repository                                  *)

\* The first packet is the handshake response, or a kick; the readers tell no
\* others apart.
ServerSend ==
    /\ peer = "up"
    /\ Len(sent) < MaxSent
    /\ sent = <<>> \/ phase = "loop"
    /\ \E d \in Payloads, t \in IF sent = <<>> THEN {Handshake, Kick} ELSE {Data} :
          /\ Encodable(t, d)
          /\ sent' = Append(sent, [type |-> t, data |-> d])
          /\ wire' = wire \o Encode(t, d)
    /\ UNCHANGED <<client, peer, buf, delivered, phase>>

ServerGone ==
    /\ peer = "up"
    /\ peer' = "down"
    /\ UNCHANGED <<client, sent, wire, buf, delivered, phase>>

-----------------------------------------------------------------------------
(* The clients                                                             *)

\* What is done with the packets that one readPackets has cut out of its buffer.
Handle(packets, rest) ==
    \/ /\ phase = "loop"
       /\ buf' = rest
       /\ delivered' = delivered \o packets
       /\ UNCHANGED phase
    \/ \* The first packet is no handshake, or one that does not parse.
       /\ phase = "handshake" /\ packets # <<>>
       /\ phase' = "failed"
       /\ UNCHANGED <<buf, delivered>>
    \/ \* A handshake, which is no empty string since it parses as JSON: the loop
       \* starts with an empty buffer of its own.
       /\ phase = "handshake" /\ packets # <<>>
       /\ packets[1].type = Handshake /\ packets[1].data # <<>>
       /\ phase' = "loop"
       /\ delivered' = <<packets[1]>>
       /\ buf' = <<>>

\* for n == len(data): a Read that comes back full is followed by another one,
\* which waits for more bytes, before anything is decoded.
ReadsOn(n) == n = Chunk

\* The packets of readPackets: none when Decode fails, which is only logged.
Decoded(got) == GoDecode(got).packets

\* What buf.Next(totalProcessed) leaves.
Remainder(got, packets) == Drop(got, Consumed(packets))

GoRead ==
    /\ client = "go" /\ Reading
    /\ \E n \in 1 .. Min({Chunk, Len(wire)}) :
          LET got     == buf \o SubSeq(wire, 1, n)
              packets == Decoded(got)
          IN
          /\ wire' = Drop(wire, n)
          /\ \/ /\ ReadsOn(n)
                /\ buf' = got
                /\ UNCHANGED <<delivered, phase>>
             \/ /\ ~ReadsOn(n)
                /\ Handle(packets, Remainder(got, packets))
             \/ \* handleHandshakeResponse: packets[0] of no packets panics.
                /\ ~ReadsOn(n) /\ phase = "handshake" /\ packets = <<>>
                /\ phase' = "panicked"
                /\ UNCHANGED <<buf, delivered>>
    /\ UNCHANGED <<client, sent, peer>>

\* readPackets returns false when no packet is complete: then Start fails, or the
\* receive thread leaves its loop.
CppRead ==
    /\ client = "cpp" /\ Reading
    /\ \E n \in 1 .. Min({Chunk, Len(wire)}) :
          LET got     == buf \o SubSeq(wire, 1, n)
              packets == CppDecode(got)
          IN
          /\ wire' = Drop(wire, n)
          /\ \/ /\ packets = <<>>
                /\ phase' = IF phase = "loop" THEN "ended" ELSE "failed"
                /\ UNCHANGED <<buf, delivered>>
             \/ /\ packets # <<>>
                /\ Handle(packets, Remainder(got, packets))
    /\ UNCHANGED <<client, sent, peer>>

\* The read fails or meets the end of the stream: what buf holds is dropped,
\* whole packets too.
ReadError ==
    /\ Reading
    /\ peer = "down"
    /\ phase' = IF phase = "loop" THEN "ended" ELSE "failed"
    /\ UNCHANGED <<client, sent, wire, peer, buf, delivered>>

-----------------------------------------------------------------------------
Next == ServerSend \/ ServerGone \/ GoRead \/ CppRead \/ ReadError

Spec == Init /\ [][Next]_vars

\* The goroutine or thread that reads runs when it can; the server owes nothing.
FairSpec == Spec /\ WF_vars(GoRead \/ CppRead \/ ReadError)

-----------------------------------------------------------------------------
(* Properties                                                              *)

\* The packets sent before the first one whose length is lost in the header.
Sound(packets) ==
    LET lost == {i \in DOMAIN packets : Len(packets[i].data) = MaxPacketSize}
    IN  IF lost = {} THEN packets ELSE SubSeq(packets, 1, Min(lost) - 1)

TypeOK ==
    /\ client \in {"go", "cpp"}
    /\ phase \in {"handshake", "loop", "failed", "panicked", "ended"}
    /\ peer \in {"up", "down"}
    /\ Len(sent) <= MaxSent
    /\ Consumed(delivered) + Len(buf) + Len(wire) <= Consumed(sent)

\* Whatever pieces TCP delivers the bytes in, the packets handled are the packets
\* sent, in order, up to a packet of the largest size Encode lets through.  The two
\* buffers do not lose the bytes between them, because a server sends nothing behind
\* its handshake response until it is acknowledged.
Whole ==
    INSTANCE PacketStream WITH
        sent      <- Sound(sent),
        delivered <- SubSeq(delivered, 1, Min({Len(delivered), Len(Sound(sent))}))

ImplementsPacketStream == Whole!Spec

\* Has the Go client read a whole packet that it has not handled?
Held == client = "go" /\ Decoded(buf) # <<>>

\* Only a Read that came back full holds packets back.
HeldOnlyByFullRead == Reading /\ Held => Len(buf) >= Chunk

\* Has the Go client bytes in its buffer that Decode fails at?
Poisoned == client = "go" /\ phase = "loop" /\ GoDecode(buf).err

\* Bytes that cannot be decoded stay in the buffer of readLoop: from then on the
\* client is deaf until the connection ends, also to the packets in front of them.
DeafOncePoisoned ==
    [][Poisoned => delivered' = delivered /\ (phase' = "loop" => Poisoned')]_vars

\* Every packet sent is handled, unless the client stops reading; or else it was
\* read by a Go Read that came back full and waits for bytes that need not come (when
\* it is the handshake response, both ends wait for each other), or the Go client
\* has become deaf.  A C++ client keeps no packet in its buffer, but takes anything
\* for packets behind one whose length was lost.
HandedOver ==
    \A n \in 1 .. MaxSent :
        Len(sent) = n ~>
            \/ Len(delivered) >= n
            \/ ~Reading
            \/ wire = <<>> /\ Held
            \/ Poisoned
            \/ client = "cpp" /\ Sound(sent) # sent

\* "数据不足，等待更多字节" (not enough data, wait for more bytes): a packet that comes
\* in pieces does not make the C++ client stop; only the end of the stream does.
WaitsForMoreBytes == client = "cpp" /\ phase = "ended" => peer = "down"
=============================================================================
