---------------------------- MODULE StreamProofs ----------------------------
(***************************************************************************)
(* Proofs about Stream: whatever pieces TCP delivers the bytes in, however *)
(* large a read and the base of the length field are, the packets handled  *)
(* are the packets sent.                                                   *)
(***************************************************************************)
EXTENDS Stream, PacketCodecProofs

\* The number of packets sent before the first one whose length is lost.
Safe == Len(Sound(sent))

\* The inductive invariant, part by part: what the state is made of,
StateTypes ==
    /\ client \in {"go", "cpp"}
    /\ phase \in {"handshake", "loop", "failed", "panicked", "ended"}
    /\ peer \in {"up", "down"}
    /\ sent \in Seq(Packet) /\ Len(sent) <= MaxSent
    /\ wire \in Seq(Nat) /\ buf \in Seq(Nat)
    /\ delivered \in Seq(Packet)

\* that the server sends what Encode accepts,
Accepted ==
    \A i \in 1 .. Len(sent) : sent[i].type \in Types /\ Len(sent[i].data) <= MaxPacketSize

\* that no bytes are handled twice,
NothingInvented == Consumed(delivered) + Len(buf) + Len(wire) <= Consumed(sent)

\* that there is one packet at most before the handshake is done,
HandshakeFirst == phase = "handshake" => delivered = <<>> /\ Len(sent) <= 1

\* that the Go client holds whole packets back only behind a Read that came back full,
HeldBack == client = "go" /\ Reading => GoDecode(buf).packets = <<>> \/ Len(buf) >= Chunk

\* that the packets handled are those sent, while their lengths were not lost, and that
\* the bytes on their way are those of the packets sent and not handled.
InOrder == Follows(delivered, sent, Safe, 0)
OnTheWay == Reading /\ Len(delivered) <= Safe => Pending(buf \o wire, sent, Len(delivered))

-----------------------------------------------------------------------------
(* Sound                                                                   *)

\* Min of numbers is one of them, and the least.
LEMMA MinProperties ==
    ASSUME NEW S, S \subseteq Nat, S # {}
    PROVE  Min(S) \in S /\ \A y \in S : Min(S) <= y
BY LeastNumber DEF Min

\* Sound cuts the packets in front of the first one of the largest size.
LEMMA SoundProperties ==
    ASSUME NEW qs \in Seq(Packet)
    PROVE  LET m == Len(Sound(qs))
           IN  /\ m \in 0 .. Len(qs)
               /\ Sound(qs) \in Seq(Packet)
               /\ \A i \in 1 .. m : Sound(qs)[i] = qs[i] /\ Len(qs[i].data) # MaxPacketSize
               /\ m < Len(qs) => Len(qs[m + 1].data) = MaxPacketSize
<1> DEFINE n    == Len(qs)
           lost == {i \in DOMAIN qs : Len(qs[i].data) = MaxPacketSize}
<1>1. n \in Nat /\ DOMAIN qs = 1 .. n
  BY LenProperties
<1>2. CASE lost = {}
  <2>1. Sound(qs) = qs
    BY <1>2 DEF Sound
  <2>2. \A i \in 1 .. n : Len(qs[i].data) # MaxPacketSize
    BY <1>1, <1>2
  <2>3. QED
    BY <1>1, <2>1, <2>2
<1>3. CASE lost # {}
  <2> DEFINE x == Min(lost)
             z == SubSeq(qs, 1, x - 1)
  <2>1. lost \subseteq Nat
    BY <1>1
  <2> HIDE DEF lost
  <2>2. x \in lost /\ \A y \in lost : x <= y
    BY <1>3, <2>1, MinProperties
  <2>3. Sound(qs) = z
    BY <1>3 DEF Sound, lost
  <2> HIDE DEF x
  <2>4. x \in 1 .. n /\ Len(qs[x].data) = MaxPacketSize
    BY <1>1, <2>2 DEF lost
  <2>5. \A i \in 1 .. n : Len(qs[i].data) = MaxPacketSize => x <= i
    BY <1>1, <2>2 DEF lost
  <2>6. /\ z \in Seq(Packet) /\ Len(z) = x - 1
        /\ \A i \in 1 .. x - 1 : z[i] = qs[i]
    <3> DEFINE y == x - 1
    <3>1. y \in 0 .. n /\ y \in Nat
      BY <1>1, <2>4
    <3> HIDE DEF y
    <3>2. /\ SubSeq(qs, 0 + 1, y) \in Seq(Packet)
          /\ Len(SubSeq(qs, 0 + 1, y)) = IF 0 <= y THEN y - 0 ELSE 0
          /\ \A i \in 1 .. y - 0 : SubSeq(qs, 0 + 1, y)[i] = qs[0 + i]
      BY <3>1, Part
    <3>3. /\ SubSeq(qs, 1, y) \in Seq(Packet)
          /\ Len(SubSeq(qs, 1, y)) = y
          /\ \A i \in 1 .. y : SubSeq(qs, 1, y)[i] = qs[i]
      BY <3>1, <3>2
    <3>4. QED
      BY <3>3 DEF y
  <2> HIDE DEF z
  <2>7. x - 1 \in 0 .. n /\ (x - 1) + 1 = x /\ \A i \in 1 .. x - 1 : i \in 1 .. n /\ ~(x <= i)
    BY <1>1, <2>4
  <2>8. QED
    BY ONLY <2>3, <2>4, <2>5, <2>6, <2>7
<1>4. QED
  BY <1>2, <1>3

\* One more packet is behind the first lost length, or the first to lose it, or safe.
LEMMA SoundAppend ==
    ASSUME NEW qs \in Seq(Packet), NEW q \in Packet
    PROVE  LET m  == Len(Sound(qs))
               mm == Len(Sound(Append(qs, q)))
           IN  /\ m < Len(qs) => mm = m
               /\ m = Len(qs) => mm = m \/ mm = m + 1
               /\ mm = m => Sound(Append(qs, q)) = Sound(qs)
               /\ SubSeq(Sound(Append(qs, q)), 1, m) = Sound(qs)
<1> DEFINE n  == Len(qs)
           z  == Append(qs, q)
           a  == Sound(qs)
           b  == Sound(z)
           m  == Len(a)
           mm == Len(b)
           c  == SubSeq(b, 1, m)
<1>1. /\ z \in Seq(Packet) /\ Len(z) = n + 1 /\ n \in Nat
      /\ \A i \in 1 .. n : z[i] = qs[i]
  BY AppendProperties, LenProperties
<1>2. /\ m \in 0 .. n /\ a \in Seq(Packet)
      /\ \A i \in 1 .. m : a[i] = qs[i] /\ Len(qs[i].data) # MaxPacketSize
      /\ m < n => Len(qs[m + 1].data) = MaxPacketSize
  BY SoundProperties
<1> HIDE DEF z
<1>3. /\ mm \in 0 .. Len(z) /\ b \in Seq(Packet)
      /\ \A i \in 1 .. mm : b[i] = z[i] /\ Len(z[i].data) # MaxPacketSize
      /\ mm < Len(z) => Len(z[mm + 1].data) = MaxPacketSize
  BY <1>1, SoundProperties
<1>4. m \in Nat /\ mm \in Nat /\ m <= n /\ mm <= n + 1
  BY <1>1, <1>2, <1>3
<1> HIDE DEF a, b, n, m, mm
<1>5. m <= mm
  <2> SUFFICES ASSUME mm < m PROVE FALSE
    BY <1>4
  <2>1. mm + 1 \in 1 .. m /\ mm + 1 \in 1 .. n /\ mm < n + 1
    BY <1>1, <1>4
  <2>2. Len(qs[mm + 1].data) # MaxPacketSize
    BY ONLY <1>2, <2>1
  <2>3. Len(z[mm + 1].data) = MaxPacketSize /\ z[mm + 1] = qs[mm + 1]
    BY ONLY <1>1, <1>3, <2>1
  <2>4. QED
    BY ONLY <2>2, <2>3
<1>6. ASSUME m < n PROVE mm = m
  <2> SUFFICES ASSUME m < mm PROVE FALSE
    BY <1>4, <1>5
  <2>1. m + 1 \in 1 .. mm /\ m + 1 \in 1 .. n
    BY <1>1, <1>4, <1>6
  <2>2. Len(qs[m + 1].data) = MaxPacketSize
    BY ONLY <1>2, <1>6
  <2>3. Len(z[m + 1].data) # MaxPacketSize /\ z[m + 1] = qs[m + 1]
    BY ONLY <1>1, <1>3, <2>1
  <2>4. QED
    BY ONLY <2>2, <2>3
<1>7. ASSUME m = n PROVE mm = m \/ mm = m + 1
  BY <1>1, <1>4, <1>5, <1>7
<1>8. \A i \in 1 .. m : i \in 1 .. mm /\ i \in 1 .. n
  BY <1>1, <1>4, <1>5
<1>9. \A i \in 1 .. m : a[i] = b[i]
  BY ONLY <1>1, <1>2, <1>3, <1>8
<1>10. /\ c \in Seq(Packet) /\ Len(c) = m /\ \A i \in 1 .. m : c[i] = b[i]
  <2>1. m \in Nat /\ m \in 0 .. Len(b)
    BY <1>4, <1>5 DEF mm
  <2>2. /\ SubSeq(b, 0 + 1, m) \in Seq(Packet)
        /\ Len(SubSeq(b, 0 + 1, m)) = IF 0 <= m THEN m - 0 ELSE 0
        /\ \A i \in 1 .. m - 0 : SubSeq(b, 0 + 1, m)[i] = b[0 + i]
    BY <1>3, <2>1, Part
  <2>3. QED
    BY <2>1, <2>2
<1> HIDE DEF c
<1>11. c = a
  <2>1. Len(c) = Len(a) /\ \A i \in 1 .. Len(c) : c[i] = a[i]
    BY <1>9, <1>10 DEF m
  <2>2. QED
    BY <1>2, <1>10, <2>1, SeqEqual
<1>12. ASSUME mm = m PROVE b = a
  <2>1. Len(b) = Len(a) /\ \A i \in 1 .. Len(b) : b[i] = a[i]
    BY <1>9, <1>12 DEF m, mm
  <2>2. QED
    BY <1>2, <1>3, <2>1, SeqEqual
<1>13. QED
  BY <1>6, <1>7, <1>11, <1>12 DEF a, b, m, mm, n, z, c

\* What was handled stays in order when one more packet is sent.
LEMMA FollowsAppend ==
    ASSUME NEW qs \in Seq(Packet), NEW q \in Packet, NEW r \in Seq(Packet),
           Follows(r, qs, Len(Sound(qs)), 0)
    PROVE  Follows(r, Append(qs, q), Len(Sound(Append(qs, q))), 0)
<1> DEFINE n  == Len(qs)
           z  == Append(qs, q)
           m  == Len(Sound(qs))
           mm == Len(Sound(z))
           U  == ConsumedUpto(qs)
           V  == ConsumedUpto(z)
           c  == Len(r)
<1>1. /\ z \in Seq(Packet) /\ Len(z) = n + 1 /\ n \in Nat /\ c \in Nat
      /\ \A i \in 1 .. n : z[i] = qs[i]
      /\ \A i \in 0 .. n : V[i] = U[i]
  BY EndsAppend, LenProperties
<1>2. m \in 0 .. n /\ (m < n => mm = m) /\ (m = n => mm = m \/ mm = m + 1)
  BY SoundProperties, SoundAppend
<1>3. /\ \A l \in 1 .. c : 0 + l <= m => r[l] = qs[0 + l]
      /\ 0 + c > m => m < n
      /\ 0 + c <= m => Consumed(r) = U[0 + c] - U[0]
  BY DEF Follows
<1> HIDE DEF n, m, mm, U, V, c, z
<1>4. 0 + c = c /\ m \in Nat /\ m <= n
  BY <1>1, <1>2
<1>5. ASSUME NEW l \in 1 .. c, 0 + l <= mm PROVE r[l] = z[0 + l]
  <2>1. l \in 1 .. n /\ 0 + l <= m /\ 0 + l = l
    BY <1>1, <1>2, <1>3, <1>4, <1>5
  <2>2. QED
    BY <1>1, <1>3, <2>1
<1>6. 0 + c > mm => mm < n + 1
  BY <1>1, <1>2, <1>3, <1>4
<1>7. ASSUME 0 + c <= mm PROVE Consumed(r) = V[0 + c] - V[0]
  <2>1. 0 + c <= m /\ 0 + c \in 0 .. n /\ 0 \in 0 .. n
    BY <1>1, <1>2, <1>3, <1>4, <1>7
  <2>2. QED
    BY ONLY <1>1, <1>3, <2>1
<1>8. QED
  BY <1>1, <1>5, <1>6, <1>7 DEF Follows, mm, V, c, z

\* What is handled next stays in order.
LEMMA FollowsConcat ==
    ASSUME NEW qs \in Seq(Packet), NEW m \in 0 .. Len(qs), NEW a \in Seq(Packet),
           NEW r \in Seq(Packet), Follows(a, qs, m, 0),
           Len(a) <= m => Follows(r, qs, m, Len(a))
    PROVE  Follows(a \o r, qs, m, 0)
<1> DEFINE n == Len(qs)
           U == ConsumedUpto(qs)
           k == Len(a)
           c == Len(r)
           z == a \o r
<1>1. /\ n \in Nat /\ k \in Nat /\ c \in Nat /\ z \in Seq(Packet) /\ Len(z) = k + c
      /\ m \in Nat /\ m <= n
      /\ \A i \in 1 .. k + c : z[i] = IF i <= k THEN a[i] ELSE r[i - k]
  BY LenProperties, ConcatProperties
<1>2. /\ \A l \in 1 .. k : 0 + l <= m => a[l] = qs[0 + l]
      /\ 0 + k > m => m < n
      /\ 0 + k <= m => Consumed(a) = U[0 + k] - U[0]
  BY DEF Follows
<1>3. k <= m => /\ \A l \in 1 .. c : k + l <= m => r[l] = qs[k + l]
                /\ k + c > m => m < n
                /\ k + c <= m => Consumed(r) = U[k + c] - U[k]
  BY DEF Follows
<1>4. Consumed(z) = Consumed(a) + Consumed(r) /\ Consumed(r) \in Nat /\ Consumed(a) \in Nat
  BY ConsumedConcat, ConsumedNat
<1>5. \A i \in 0 .. n : U[i] \in Nat
  BY Ends
<1> HIDE DEF n, U, k, c, z
<1>6. ASSUME NEW l \in 1 .. k + c, 0 + l <= m PROVE z[l] = qs[0 + l]
  <2>1. CASE l <= k
    <3>1. l \in 1 .. k
      BY <1>1, <2>1
    <3>2. QED
      BY <1>1, <1>2, <1>6, <2>1, <3>1
  <2>2. CASE ~(l <= k)
    <3>1. l - k \in 1 .. c /\ k + (l - k) = 0 + l /\ k + (l - k) <= m /\ k <= m
      BY <1>1, <1>6, <2>2
    <3>2. r[l - k] = qs[k + (l - k)]
      BY <1>3, <3>1
    <3>3. z[l] = r[l - k]
      BY <1>1, <2>2
    <3>4. QED
      BY ONLY <3>1, <3>2, <3>3
  <2>3. QED
    BY <2>1, <2>2
<1>7. 0 + (k + c) > m => m < n
  BY <1>1, <1>2, <1>3
<1>8. ASSUME 0 + (k + c) <= m PROVE Consumed(z) = U[0 + (k + c)] - U[0]
  <2>1. k <= m /\ 0 + k = k /\ 0 + (k + c) = k + c /\ k \in 0 .. n /\ k + c \in 0 .. n /\ 0 \in 0 .. n
    BY <1>1, <1>8
  <2>2. Consumed(a) = U[k] - U[0] /\ Consumed(r) = U[k + c] - U[k]
    BY ONLY <1>2, <1>3, <1>8, <2>1
  <2>3. U[k] \in Nat /\ U[0] \in Nat /\ U[k + c] \in Nat
    BY ONLY <1>5, <2>1
  <2>4. QED
    BY <1>4, <2>1, <2>2, <2>3
<1>9. QED
  BY <1>1, <1>6, <1>7, <1>8 DEF Follows, U, k, c, z, n

-----------------------------------------------------------------------------
(* The two reads, as one                                                   *)

Got(j)  == buf \o SubSeq(wire, 1, j)
Cuts(j) == IF client = "go" THEN GoDecode(Got(j)).packets ELSE CppDecode(Got(j))
Rest(j) == Drop(Got(j), Consumed(Cuts(j)))

\* A read is kept for the next one, or what is cut out of the bytes is handled, or the
\* first packet of it, or nothing.
Kept(j) ==
    /\ client = "go" /\ j = Chunk
    /\ buf' = Got(j)
    /\ UNCHANGED <<delivered, phase>>
Taken(j) ==
    /\ phase = "loop"
    /\ buf' = Rest(j)
    /\ delivered' = delivered \o Cuts(j)
    /\ UNCHANGED phase
TakenFirst(j) ==
    /\ phase = "handshake" /\ Cuts(j) # <<>>
    /\ phase' = "loop"
    /\ delivered' = <<Cuts(j)[1]>>
    /\ buf' = <<>>
Stopped ==
    /\ phase' \in {"failed", "panicked", "ended"}
    /\ UNCHANGED <<buf, delivered>>

Read(j) ==
    /\ Reading
    /\ wire' = Drop(wire, j)
    /\ UNCHANGED <<client, sent, peer>>
    /\ Kept(j) \/ Taken(j) \/ TakenFirst(j) \/ Stopped

LEMMA Reads ==
    ASSUME StateTypes, GoRead \/ CppRead
    PROVE  \E j \in 1 .. Len(wire) : Read(j)
<1>1. Len(wire) \in Nat /\ Chunk \in Nat
  BY LenProperties, StreamAssumption DEF StateTypes
<1>2. Min({Chunk, Len(wire)}) \in {Chunk, Len(wire)} /\ Min({Chunk, Len(wire)}) <= Len(wire)
  BY <1>1, MinProperties
<1>3. \A j \in 1 .. Min({Chunk, Len(wire)}) : j \in 1 .. Len(wire)
  BY <1>1, <1>2
<1>4. CASE GoRead
  <2>1. PICK j \in 1 .. Min({Chunk, Len(wire)}) :
           /\ wire' = Drop(wire, j)
           /\ \/ /\ ReadsOn(j)
                 /\ buf' = Got(j)
                 /\ UNCHANGED <<delivered, phase>>
              \/ /\ ~ReadsOn(j)
                 /\ Handle(Cuts(j), Rest(j))
              \/ /\ ~ReadsOn(j) /\ phase = "handshake" /\ Cuts(j) = <<>>
                 /\ phase' = "panicked"
                 /\ UNCHANGED <<buf, delivered>>
    BY <1>4 DEF GoRead, Got, Cuts, Rest, Decoded, Remainder
  <2>2. client = "go" /\ Reading /\ UNCHANGED <<client, sent, peer>>
    BY <1>4 DEF GoRead
  <2>3. Handle(Cuts(j), Rest(j)) => Taken(j) \/ TakenFirst(j) \/ Stopped
    BY DEF Handle, Taken, TakenFirst, Stopped
  <2>4. Read(j)
    BY <2>1, <2>2, <2>3 DEF Read, Kept, Stopped, ReadsOn
  <2>5. QED
    BY <1>3, <2>4
<1>5. CASE CppRead
  <2>1. PICK j \in 1 .. Min({Chunk, Len(wire)}) :
           /\ wire' = Drop(wire, j)
           /\ \/ /\ Cuts(j) = <<>>
                 /\ phase' = IF phase = "loop" THEN "ended" ELSE "failed"
                 /\ UNCHANGED <<buf, delivered>>
              \/ /\ Cuts(j) # <<>>
                 /\ Handle(Cuts(j), Rest(j))
    BY <1>5 DEF CppRead, Got, Cuts, Rest, Remainder
  <2>2. Reading /\ UNCHANGED <<client, sent, peer>>
    BY <1>5 DEF CppRead
  <2>3. Handle(Cuts(j), Rest(j)) => Taken(j) \/ TakenFirst(j) \/ Stopped
    BY DEF Handle, Taken, TakenFirst, Stopped
  <2>4. Read(j)
    BY <2>1, <2>2, <2>3 DEF Read, Stopped
  <2>5. QED
    BY <1>3, <2>4
<1>6. QED
  BY <1>4, <1>5

\* What there is after a read.
LEMMA AfterRead ==
    ASSUME StateTypes, NEW j \in 1 .. Len(wire)
    PROVE  /\ Got(j) \in Seq(Nat) /\ Len(Got(j)) = Len(buf) + j
           /\ Drop(wire, j) \in Seq(Nat) /\ Len(Drop(wire, j)) = Len(wire) - j
           /\ Got(j) \o Drop(wire, j) = buf \o wire
           /\ Cuts(j) \in Seq(Packet) /\ Rest(j) \in Seq(Nat)
           /\ Consumed(Cuts(j)) \in Nat /\ Consumed(Cuts(j)) + Len(Rest(j)) = Len(Got(j))
           /\ client = "go" => GoDecode(Rest(j)).packets = <<>>
           /\ client = "go" /\ GoDecode(Got(j)).err => Cuts(j) = <<>> /\ Rest(j) = Got(j)
<1>1. buf \in Seq(Nat) /\ wire \in Seq(Nat) /\ client \in {"go", "cpp"} /\ j \in 0 .. Len(wire)
  BY LenProperties DEF StateTypes
<1>2. /\ Got(j) \in Seq(Nat) /\ Len(Got(j)) = Len(buf) + j
      /\ Drop(wire, j) \in Seq(Nat) /\ Len(Drop(wire, j)) = Len(wire) - j
      /\ Got(j) \o Drop(wire, j) = buf \o wire
  BY <1>1, ReadSplits DEF Got
<1>3. CASE client = "go"
  <2>1. Cuts(j) = GoDecode(Got(j)).packets
    BY <1>3 DEF Cuts
  <2>2. /\ Cuts(j) \in Seq(Packet) /\ Rest(j) \in Seq(Nat)
        /\ Consumed(Cuts(j)) \in Nat /\ Consumed(Cuts(j)) + Len(Rest(j)) = Len(Got(j))
        /\ GoDecode(Rest(j)).packets = <<>>
        /\ GoDecode(Got(j)).err => Cuts(j) = <<>> /\ Rest(j) = Got(j)
    BY <1>2, <2>1, GoRemainder DEF Rest
  <2>3. QED
    BY <1>2, <2>2
<1>4. CASE client = "cpp"
  <2>1. Cuts(j) = CppDecode(Got(j))
    BY <1>4 DEF Cuts
  <2>2. /\ Cuts(j) \in Seq(Packet) /\ Rest(j) \in Seq(Nat)
        /\ Consumed(Cuts(j)) \in Nat /\ Consumed(Cuts(j)) + Len(Rest(j)) = Len(Got(j))
    BY <1>2, <2>1, CppRemainder DEF Rest
  <2>3. QED
    BY <1>2, <1>4, <2>2
<1>5. QED
  BY <1>1, <1>3, <1>4

\* When all packets handled are safe ones, what a read cuts out goes on in order.
LEMMA CutsFollow ==
    ASSUME StateTypes, Accepted, InOrder, OnTheWay, Reading, Len(delivered) <= Safe,
           NEW j \in 1 .. Len(wire)
    PROVE  Follows(Cuts(j), sent, Safe, Len(delivered))
<1> DEFINE k == Len(delivered)
           m == Safe
<1>1. sent \in Seq(Packet) /\ k \in Nat /\ m \in 0 .. Len(sent) /\ k \in 0 .. m /\ Len(sent) \in Nat
  <2>1. sent \in Seq(Packet) /\ k \in Nat /\ Len(sent) \in Nat
    BY LenProperties DEF StateTypes
  <2>2. m \in 0 .. Len(sent)
    BY <2>1, SoundProperties DEF Safe
  <2>3. QED
    BY <2>1, <2>2
<1>2. Pending(Got(j) \o Drop(wire, j), sent, k)
  BY AfterRead DEF OnTheWay
<1>3. ASSUME NEW l \in 1 .. m PROVE Short(sent[l]) /\ sent[l].type \in Types
  <2>1. l \in 1 .. Len(sent)
    BY <1>1
  <2>2. Len(sent[l].data) # MaxPacketSize
    BY <1>1, SoundProperties DEF Safe
  <2>3. Len(sent[l].data) <= MaxPacketSize /\ sent[l].type \in Types
    BY <2>1 DEF Accepted
  <2>4. sent[l] \in Packet
    BY <1>1, <2>1, ElementOfSeq
  <2> DEFINE x == Len(sent[l].data)
  <2>5. x \in Nat /\ MaxPacketSize \in Nat
    BY <2>4, LenProperties, RadixAssumption DEF Packet, MaxPacketSize
  <2> HIDE DEF x
  <2>6. x < MaxPacketSize
    BY <2>2, <2>3, <2>5 DEF x
  <2>7. QED
    BY <2>3, <2>6 DEF Short, x
<1>4. Got(j) \in Seq(Nat) /\ Drop(wire, j) \in Seq(Nat)
  BY AfterRead
<1> HIDE DEF k, m
<1>5. (\A l \in 1 .. m : Short(sent[l])) /\ (\A l \in 1 .. m : sent[l].type \in Types)
  BY <1>3
<1>6. Follows(CppDecode(Got(j)), sent, m, k) /\ Follows(GoDecode(Got(j)).packets, sent, m, k)
  BY <1>1, <1>2, <1>4, <1>5, DecodeFollows
<1>7. QED
  BY <1>6 DEF Cuts, k, m

-----------------------------------------------------------------------------
(* The invariant                                                           *)

StreamInv ==
    /\ StateTypes
    /\ Accepted
    /\ NothingInvented
    /\ HandshakeFirst
    /\ HeldBack
    /\ InOrder
    /\ OnTheWay

\* Nothing is cut out of nothing.
LEMMA EmptyDecode == GoDecode(<<>>).packets = <<>>
<1>1. <<>> \in Seq(Nat) /\ 0 \in 0 .. Len(<<>>) /\ Len(<<>>) = 0
  BY EmptySeq
<1>2. Cut(<<>>, 0) /\ ~BadType(<<>>, 0)
  BY <1>1 DEF Cut, BadType, HeaderAt, HeadLength
<1>3. GoDecode(<<>>) = Nothing
  BY <1>1, <1>2, GoDecodeFromDef DEF GoDecode
<1>4. QED
  BY <1>3 DEF Nothing

LEMMA StreamInitInv == Init => StreamInv
<1> SUFFICES ASSUME Init PROVE StreamInv
  OBVIOUS
<1> USE DEF Init
<1>1. StateTypes
  BY EmptySeq, StreamAssumption DEF StateTypes
<1>2. Len(<<>>) = 0
  BY EmptySeq
<1>3. Accepted
  BY <1>2 DEF Accepted
<1>4. NothingInvented
  BY <1>2, ConsumedNone DEF NothingInvented
<1>5. HandshakeFirst
  BY <1>2 DEF HandshakeFirst
<1>7. HeldBack
  BY EmptyDecode DEF HeldBack
<1>8. sent \in Seq(Packet) /\ Safe = 0 /\ 0 \in 0 .. Len(sent)
  <2>1. sent \in Seq(Packet) /\ Len(sent) = 0
    BY <1>2, EmptySeq
  <2>2. Safe \in 0 .. Len(sent)
    BY <2>1, SoundProperties DEF Safe
  <2>3. QED
    BY <2>1, <2>2
<1>9. InOrder
  BY <1>8, FollowsNone DEF InOrder
<1>10. OnTheWay
  <2>1. <<>> \o <<>> = <<>>
    OBVIOUS
  <2>2. ConsumedUpto(sent)[0] = 0
    BY <1>8, Ends
  <2>3. Pending(<<>>, sent, 0)
    BY <1>2, <2>2 DEF Pending
  <2>4. QED
    BY <1>2, <2>1, <2>3 DEF OnTheWay
<1>11. QED
  BY <1>1, <1>3, <1>4, <1>5, <1>7, <1>9, <1>10 DEF StreamInv

\* The server sends a packet.
LEMMA SendInv ==
    ASSUME StreamInv, ServerSend
    PROVE  StreamInv'
<1>1. PICK d \in Payloads, t \in (IF sent = <<>> THEN {Handshake, Kick} ELSE {Data}) :
         /\ Encodable(t, d)
         /\ sent' = Append(sent, [type |-> t, data |-> d])
         /\ wire' = wire \o Encode(t, d)
  BY DEF ServerSend
<1> DEFINE q == [type |-> t, data |-> d]
           E == Encode(q.type, q.data)
           x == Len(d)
<1>2. /\ UNCHANGED <<client, peer, buf, delivered, phase>> /\ Len(sent) < MaxSent
      /\ sent = <<>> \/ phase = "loop"
  BY DEF ServerSend
<1>3. StateTypes /\ Accepted /\ NothingInvented /\ HandshakeFirst /\ HeldBack /\ InOrder /\ OnTheWay
  BY DEF StreamInv
<1>4. d \in Seq(Nat) /\ t \in Types /\ t \in Nat /\ x <= MaxPacketSize /\ x \in Nat
  BY <1>1, StreamAssumption, LenProperties DEF Encodable, Types, Handshake, Kick, Data
<1>5. q \in Packet /\ q.type = t /\ q.data = d
  BY <1>4 DEF Packet
<1>6. sent' = Append(sent, q) /\ wire' = wire \o E
  BY <1>1
<1> HIDE DEF q
<1>7. E \in Seq(Nat) /\ Len(E) = 4 + x
  BY <1>5, EncodeBytes
<1>8. /\ sent \in Seq(Packet) /\ wire \in Seq(Nat) /\ buf \in Seq(Nat) /\ delivered \in Seq(Packet)
      /\ Len(sent) \in Nat /\ Len(wire) \in Nat /\ Len(buf) \in Nat /\ Len(delivered) \in Nat
  BY <1>3, LenProperties DEF StateTypes
<1>9. /\ sent' \in Seq(Packet) /\ Len(sent') = Len(sent) + 1
      /\ \A i \in 1 .. Len(sent) : sent'[i] = sent[i]
      /\ sent'[Len(sent) + 1] = q
      /\ Consumed(sent') = Consumed(sent) + 4 + x
  BY <1>5, <1>6, <1>8, EndsAppend
<1> HIDE DEF E
<1>10. wire' \in Seq(Nat) /\ Len(wire') = Len(wire) + (4 + x)
  <2>1. wire \in Seq(Nat) /\ E \in Seq(Nat)
    BY <1>7, <1>8
  <2>2. wire \o E \in Seq(Nat) /\ Len(wire \o E) = Len(wire) + Len(E)
    BY ONLY <2>1, ConcatProperties
  <2>3. QED
    BY <1>6, <1>7, <2>2
<1>11. StateTypes'
  <2>1. Len(sent') <= MaxSent
    BY <1>2, <1>8, <1>9, StreamAssumption
  <2>2. QED
    BY <1>2, <1>3, <1>9, <1>10, <2>1 DEF StateTypes
<1>12. Accepted'
  <2> SUFFICES ASSUME NEW i \in 1 .. Len(sent')
               PROVE  sent'[i].type \in Types /\ Len(sent'[i].data) <= MaxPacketSize
    BY DEF Accepted
  <2>1. CASE i = Len(sent) + 1
    BY <1>4, <1>5, <1>9, <2>1
  <2>2. CASE i # Len(sent) + 1
    <3>1. i \in 1 .. Len(sent)
      BY <1>8, <1>9, <2>2
    <3>2. QED
      BY <1>3, <1>9, <3>1 DEF Accepted
  <2>3. QED
    BY <2>1, <2>2
<1>13. NothingInvented'
  <2>1. Consumed(delivered) \in Nat /\ Consumed(sent) \in Nat
    BY <1>8, ConsumedNat
  <2> DEFINE y == Consumed(delivered)
             z == Consumed(sent)
             zz == Consumed(sent')
  <2>2. y + Len(buf) + Len(wire) <= z
    BY <1>3 DEF NothingInvented
  <2> HIDE DEF x, y, z, zz
  <2>3. y + Len(buf) + Len(wire') <= zz
    <3>1. y \in Nat /\ z \in Nat /\ zz = z + 4 + x /\ x \in Nat
      BY <1>4, <1>9, <2>1 DEF x, y, z, zz
    <3>2. QED
      BY <1>8, <1>10, <2>2, <3>1
  <2>4. QED
    BY <1>2, <2>3 DEF NothingInvented, y, zz
<1>14. HandshakeFirst'
  <2> SUFFICES ASSUME phase' = "handshake" PROVE delivered' = <<>> /\ Len(sent') <= 1
    BY DEF HandshakeFirst
  <2>1. phase = "handshake" /\ delivered' = delivered /\ sent = <<>>
    BY <1>2
  <2>2. delivered = <<>>
    BY <1>3, <2>1 DEF HandshakeFirst
  <2>3. Len(sent) = 0
    BY <2>1, EmptySeq
  <2>4. QED
    BY <1>9, <2>1, <2>2, <2>3
<1>15. HeldBack'
  BY <1>2, <1>3 DEF HeldBack, Reading
<1>16. /\ Safe \in 0 .. Len(sent)
       /\ Safe < Len(sent) => Safe' = Safe
       /\ Safe = Len(sent) => Safe' = Safe \/ Safe' = Safe + 1
  BY <1>5, <1>6, <1>8, SoundProperties, SoundAppend DEF Safe
<1>17. InOrder'
  <2>1. Follows(delivered, Append(sent, q), Len(Sound(Append(sent, q))), 0)
    BY <1>3, <1>5, <1>8, FollowsAppend DEF InOrder, Safe
  <2>2. QED
    BY <1>2, <1>6, <2>1 DEF InOrder, Safe
<1>18. OnTheWay'
  <2> SUFFICES ASSUME Reading', Len(delivered') <= Safe'
               PROVE  Pending((buf \o wire)', sent', Len(delivered'))
    BY DEF OnTheWay
  <2> DEFINE k == Len(delivered)
  <2>1. Reading /\ delivered' = delivered
    BY <1>2 DEF Reading
  <2>2. k <= Safe
    <3>1. 0 + k > Safe => Safe < Len(sent)
      BY <1>3 DEF InOrder, Follows
    <3>2. k <= Safe'
      BY <2>1
    <3> HIDE DEF k
    <3>3. QED
      BY <1>8, <1>16, <3>1, <3>2 DEF k
  <2>3. Pending(buf \o wire, sent, k) /\ buf \o wire \in Seq(Nat) /\ k \in 0 .. Len(sent)
    <3>1. k \in 0 .. Len(sent)
      BY <1>8, <1>16, <2>2
    <3>2. QED
      BY <1>3, <1>8, <2>1, <2>2, <3>1, ConcatProperties DEF OnTheWay
  <2>4. Pending((buf \o wire) \o Encode(q.type, q.data), Append(sent, q), k)
    BY <1>5, <1>8, <2>3, PendingAppend
  <2>5. (buf \o wire) \o E = buf \o (wire \o E)
    <3>1. buf \in Seq(Nat) /\ wire \in Seq(Nat) /\ E \in Seq(Nat)
      BY <1>7, <1>8
    <3>2. QED
      BY ONLY <3>1, ConcatAssociative
  <2>6. QED
    BY <1>2, <1>6, <2>1, <2>4, <2>5 DEF E
<1>19. QED
  BY <1>11, <1>12, <1>13, <1>14, <1>15, <1>17, <1>18 DEF StreamInv

\* A client reads.
LEMMA ReadInv ==
    ASSUME StreamInv, NEW j \in 1 .. Len(wire), Read(j)
    PROVE  StreamInv'
<1> DEFINE g == Got(j)
           p == Cuts(j)
           e == Rest(j)
           w == Drop(wire, j)
           k == Len(delivered)
           m == Safe
           n == Len(sent)
           U == ConsumedUpto(sent)
<1>1. StateTypes /\ Accepted /\ NothingInvented /\ HandshakeFirst /\ HeldBack /\ InOrder /\ OnTheWay
  BY DEF StreamInv
<1>2. /\ Reading /\ wire' = w /\ client' = client /\ sent' = sent /\ peer' = peer
      /\ Kept(j) \/ Taken(j) \/ TakenFirst(j) \/ Stopped
  BY DEF Read
<1>3. /\ sent \in Seq(Packet) /\ wire \in Seq(Nat) /\ buf \in Seq(Nat) /\ delivered \in Seq(Packet)
      /\ n \in Nat /\ Len(wire) \in Nat /\ Len(buf) \in Nat /\ k \in Nat /\ j \in Nat
      /\ client \in {"go", "cpp"}
  BY <1>1, LenProperties DEF StateTypes
<1>4. /\ g \in Seq(Nat) /\ Len(g) = Len(buf) + j
      /\ w \in Seq(Nat) /\ Len(w) = Len(wire) - j /\ Len(w) \in Nat
      /\ g \o w = buf \o wire
      /\ p \in Seq(Packet) /\ e \in Seq(Nat)
      /\ Consumed(p) \in Nat /\ Len(e) \in Nat /\ Consumed(p) + Len(e) = Len(g)
      /\ client = "go" => GoDecode(e).packets = <<>>
  <2>1. Rest(j) \in Seq(Nat) /\ Drop(wire, j) \in Seq(Nat)
    BY <1>1, AfterRead
  <2>2. Len(Rest(j)) \in Nat /\ Len(Drop(wire, j)) \in Nat
    BY <2>1, LenProperties
  <2>3. QED
    BY <1>1, <2>1, <2>2, AfterRead
<1>5. m \in 0 .. n /\ m' = m
  BY <1>2, <1>3, SoundProperties DEF Safe
<1>6. k <= m => Follows(p, sent, m, k) /\ Pending(g \o w, sent, k) /\ k \in 0 .. m /\ k \in 0 .. n
  <2> SUFFICES ASSUME k <= m
               PROVE  Follows(p, sent, m, k) /\ Pending(g \o w, sent, k) /\ k \in 0 .. m /\ k \in 0 .. n
    OBVIOUS
  <2>1. Follows(p, sent, m, k)
    BY <1>1, <1>2, CutsFollow
  <2>2. Pending(g \o w, sent, k)
    BY <1>1, <1>2, <1>4 DEF OnTheWay
  <2>3. QED
    BY <1>3, <1>5, <2>1, <2>2
<1>7. Consumed(delivered) \in Nat /\ Consumed(sent) \in Nat
  BY <1>3, ConsumedNat
<1>8. Consumed(delivered) + Len(buf) + Len(wire) <= Consumed(sent)
  BY <1>1 DEF NothingInvented
<1>9. Accepted'
  BY <1>1, <1>2 DEF Accepted
<1> DEFINE a  == Consumed(delivered)
           c  == Consumed(p)
           z  == Consumed(sent)
           lb == Len(buf)
           le == Len(e)
           lg == Len(g)
           lw == Len(wire)
           ww == Len(w)
<1>0. /\ a \in Nat /\ c \in Nat /\ z \in Nat /\ lb \in Nat /\ le \in Nat /\ lw \in Nat
      /\ ww \in Nat /\ j \in Nat
      /\ lg = lb + j /\ ww = lw - j /\ c + le = lg /\ a + lb + lw <= z
  BY <1>3, <1>4, <1>7, <1>8
<1> HIDE DEF g, p, e, w, k, m, n, U, a, c, z, lb, le, lg, lw, ww
<1>10. CASE Kept(j)
  <2>1. client = "go" /\ j = Chunk /\ buf' = g /\ delivered' = delivered /\ phase' = phase
    BY <1>10 DEF Kept, g
  <2>2. StateTypes'
    BY <1>1, <1>2, <1>4, <2>1 DEF StateTypes
  <2>3. NothingInvented'
    <3>1. a + lg + ww <= z
      BY <1>0
    <3>2. QED
      BY <1>2, <2>1, <3>1 DEF NothingInvented, a, lg, ww, z
  <2>4. HandshakeFirst'
    BY <1>1, <1>2, <2>1 DEF HandshakeFirst
  <2>5. HeldBack'
    <3>1. Len(buf') >= Chunk
      BY <1>3, <1>4, <2>1
    <3>2. QED
      BY <3>1 DEF HeldBack
  <2>6. InOrder'
    BY <1>1, <1>2, <1>5, <2>1 DEF InOrder, m
  <2>7. OnTheWay'
    <3>1. (buf \o wire)' = buf \o wire
      BY <1>2, <1>4, <2>1
    <3>2. QED
      BY <1>1, <1>2, <1>5, <2>1, <3>1 DEF OnTheWay, Reading, m
  <2>8. QED
    BY <1>9, <2>2, <2>3, <2>4, <2>5, <2>6, <2>7 DEF StreamInv
<1>11. CASE Taken(j)
  <2>1. phase = "loop" /\ buf' = e /\ delivered' = delivered \o p /\ phase' = phase
    BY <1>11 DEF Taken, e, p
  <2>2. /\ delivered \o p \in Seq(Packet) /\ Len(delivered \o p) = k + Len(p)
        /\ Len(p) \in Nat
    <3>1. delivered \in Seq(Packet) /\ p \in Seq(Packet)
      BY <1>3, <1>4
    <3>2. QED
      BY ONLY <3>1, ConcatProperties, LenProperties DEF k
  <2>3. StateTypes'
    BY <1>1, <1>2, <1>4, <2>1, <2>2 DEF StateTypes
  <2>4. NothingInvented'
    <3>1. Consumed(delivered \o p) = a + c
      BY <1>3, <1>4, ConsumedConcat DEF a, c
    <3>2. (a + c) + le + ww <= z
      BY <1>0
    <3>3. QED
      BY <1>2, <2>1, <3>1, <3>2 DEF NothingInvented, le, ww, z
  <2>5. HandshakeFirst'
    BY <2>1 DEF HandshakeFirst
  <2>6. HeldBack'
    BY <1>2, <1>4, <2>1 DEF HeldBack
  <2>7. InOrder'
    <3>1. Follows(delivered, sent, m, 0)
      BY <1>1 DEF InOrder, m
    <3>2. m \in 0 .. Len(sent) /\ (Len(delivered) <= m => Follows(p, sent, m, Len(delivered)))
      BY <1>5, <1>6 DEF k, n
    <3>3. Follows(delivered \o p, sent, m, 0)
      BY <1>3, <1>4, <3>1, <3>2, FollowsConcat
    <3>4. QED
      BY <1>2, <1>5, <2>1, <3>3 DEF InOrder, m
  <2>8. OnTheWay'
    <3> SUFFICES ASSUME k + Len(p) <= m
                 PROVE  Pending(e \o w, sent, k + Len(p))
      BY <1>2, <1>5, <2>1, <2>2 DEF OnTheWay, m
    <3> USE DEF c
    <3> DEFINE l == k + Len(p)
               s == g \o w
    <3>1. k <= m /\ k \in 0 .. n /\ l \in k .. n
      BY <1>3, <1>5, <2>2
    <3>2. Pending(s, sent, k) /\ Follows(p, sent, m, k)
      BY <1>6, <3>1
    <3>3. c = U[l] - U[k]
      BY <3>2 DEF Follows, U
    <3>4. s \in Seq(Nat)
      BY <1>4, ConcatProperties
    <3> HIDE DEF l, s
    <3>5. Pending(Drop(s, c), sent, l)
      BY <1>3, <3>1, <3>2, <3>3, <3>4, PendingDrop DEF U, n
    <3>6. c \in 0 .. Len(g)
      BY <1>3, <1>4
    <3>7. Drop(g, c) \o w = Drop(s, c)
      BY <1>4, <3>6, DropConcat DEF s
    <3>8. e = Drop(g, c)
      BY DEF e, g, p, Rest
    <3>9. QED
      BY <3>5, <3>7, <3>8 DEF l
  <2>9. QED
    BY <1>9, <2>3, <2>4, <2>5, <2>6, <2>7, <2>8 DEF StreamInv
<1>12. CASE TakenFirst(j)
  <2> DEFINE h == <<p[1]>>
  <2>1. /\ phase = "handshake" /\ p # <<>> /\ phase' = "loop"
        /\ delivered' = h /\ buf' = <<>>
    BY <1>12 DEF TakenFirst, p
  <2>2. delivered = <<>> /\ n <= 1 /\ k = 0
    BY <1>1, <2>1, EmptySeq DEF HandshakeFirst, n, k
  <2>3. p[1] \in Packet /\ h \in Seq(Packet) /\ Consumed(h) \in Nat /\ Consumed(h) <= Consumed(p)
    BY <1>4, <2>1, ConsumedFirst
  <2>4. Len(h) = 1 /\ h[1] = p[1]
    OBVIOUS
  <2> HIDE DEF h
  <2>5. <<>> \in Seq(Nat) /\ Len(<<>>) = 0
    BY EmptySeq
  <2>6. StateTypes'
    BY <1>1, <1>2, <1>4, <2>1, <2>3, <2>5 DEF StateTypes
  <2>7. NothingInvented'
    <3> DEFINE y == Consumed(h)
    <3>1. y \in Nat /\ y <= c
      BY <2>3 DEF c
    <3> HIDE DEF y
    <3>2. y + 0 + ww <= z
      BY <1>0, <3>1
    <3>3. QED
      BY <1>2, <2>1, <2>5, <3>2 DEF NothingInvented, ww, z, y
  <2>8. HandshakeFirst'
    BY <2>1 DEF HandshakeFirst
  <2>9. HeldBack'
    BY <2>1, EmptyDecode DEF HeldBack
  <2>10. /\ Follows(p, sent, m, 0) /\ Pending(g \o w, sent, 0)
         /\ Len(p) \in Nat /\ Len(p) > 0 /\ m \in Nat /\ m <= n
    <3>1. k <= m /\ m \in Nat /\ m <= n
      BY <1>3, <1>5, <2>2
    <3>2. Len(p) \in Nat /\ Len(p) # 0
      BY <1>4, <2>1, EmptySeq, LenProperties
    <3>3. QED
      BY <1>6, <2>2, <3>1, <3>2
  <2>11. m = 0 => m < n
    <3>1. 0 + Len(p) > m => m < Len(sent)
      BY <2>10 DEF Follows
    <3>2. QED
      BY <2>10, <3>1 DEF n
  <2>12. ASSUME m # 0 PROVE m = 1 /\ n = 1 /\ Len(p) = 1 /\ p = h
    <3>1. m = 1 /\ n = 1
      BY <1>3, <2>2, <2>10, <2>12
    <3>2. 0 + Len(p) > m => m < Len(sent)
      BY <2>10 DEF Follows
    <3>3. Len(p) = 1
      <4>1. ~(0 + Len(p) > m)
        BY <3>1, <3>2 DEF n
      <4>2. Len(p) \in Nat /\ Len(p) > 0
        BY <2>10
      <4>3. QED
        BY ONLY <3>1, <4>1, <4>2
    <3>4. Len(p) = Len(h) /\ \A i \in 1 .. Len(p) : p[i] = h[i]
      BY <2>4, <3>3
    <3>5. p = h
      BY <1>4, <2>3, <3>4, SeqEqual
    <3>6. QED
      BY <3>1, <3>3, <3>5
  <2>13. InOrder'
    <3>1. CASE m = 0
      <4>1. m \in 0 .. Len(sent) /\ m < Len(sent)
        BY <1>5, <2>11, <3>1 DEF n
      <4>2. Follows(h, sent, m, m)
        BY <1>3, <2>3, <4>1, FollowsBeyond
      <4>3. QED
        BY <1>2, <1>5, <2>1, <3>1, <4>2 DEF InOrder, m
    <3>2. CASE m # 0
      BY <1>2, <1>5, <2>1, <2>10, <2>12, <3>2 DEF InOrder, m
    <3>3. QED
      BY <3>1, <3>2
  <2>14. OnTheWay'
    <3> SUFFICES ASSUME 1 <= m PROVE Pending(<<>> \o w, sent, 1)
      BY <1>2, <1>5, <2>1, <2>4 DEF OnTheWay, m
    <3>1. m = 1 /\ n = 1 /\ Len(p) = 1
      BY <2>10, <2>12
    <3>2. U[0] \in Nat /\ U[1] \in Nat
      <4>1. 0 \in 0 .. Len(sent) /\ 1 \in 0 .. Len(sent)
        BY <3>1 DEF n
      <4>2. QED
        BY <1>3, <4>1, Ends DEF U
    <3>3. Consumed(p) = U[1] - U[0]
      <4>1. 0 + Len(p) <= m => Consumed(p) = U[0 + Len(p)] - U[0]
        BY <2>10 DEF Follows, U
      <4>2. 0 + 1 = 1 /\ 1 <= 1
        OBVIOUS
      <4>3. QED
        BY <3>1, <4>1, <4>2
    <3>4. Len(g \o w) = U[1] - U[0]
      BY <2>10, <3>1 DEF Pending, U, n
    <3>5. Len(g \o w) = Len(g) + Len(w)
      BY <1>4, ConcatProperties
    <3>6. Len(g) \in Nat
      BY <1>3, <1>4
    <3>7. Len(w) = 0
      BY <1>4, <3>2, <3>3, <3>4, <3>5, <3>6
    <3>8. w = <<>>
      BY <1>4, <3>7, EmptySeq
    <3>9. <<>> \o w = <<>>
      BY <3>8
    <3>10. Len(<<>>) = U[1] - U[1]
      BY <2>5, <3>2
    <3>11. Pending(<<>>, sent, 1)
      <4>1. \A l \in 1 + 1 .. 1 : FALSE
        OBVIOUS
      <4>2. QED
        BY <3>1, <3>10, <4>1 DEF Pending, U, n
    <3>12. QED
      BY <3>9, <3>11
  <2>15. QED
    BY <1>9, <2>6, <2>7, <2>8, <2>9, <2>13, <2>14 DEF StreamInv
<1>13. CASE Stopped
  <2>1. phase' \in {"failed", "panicked", "ended"} /\ buf' = buf /\ delivered' = delivered
    BY <1>13 DEF Stopped
  <2>2. ~Reading' /\ phase' # "handshake"
    BY <2>1 DEF Reading
  <2>3. StateTypes'
    BY <1>1, <1>2, <1>4, <2>1 DEF StateTypes
  <2>4. NothingInvented'
    <3>1. a + lb + ww <= z
      BY <1>0
    <3>2. QED
      BY <1>2, <2>1, <3>1 DEF NothingInvented, a, lb, ww, z
  <2>5. HandshakeFirst' /\ HeldBack' /\ OnTheWay'
    BY <2>2 DEF HandshakeFirst, HeldBack, OnTheWay
  <2>6. InOrder'
    BY <1>1, <1>2, <1>5, <2>1 DEF InOrder, m
  <2>7. QED
    BY <1>9, <2>3, <2>4, <2>5, <2>6 DEF StreamInv
<1>14. QED
  BY <1>2, <1>10, <1>11, <1>12, <1>13

\* The server goes, the connection ends, or nothing happens.
LEMMA QuietInv ==
    ASSUME StreamInv, ServerGone \/ ReadError \/ UNCHANGED vars
    PROVE  StreamInv'
<1>1. /\ UNCHANGED <<client, sent, wire, buf, delivered>>
      /\ peer' \in {"up", "down"}
      /\ phase' = phase \/ phase' \in {"ended", "failed"}
  BY DEF ServerGone, ReadError, vars, StreamInv, StateTypes
<1>2. Reading' => Reading /\ phase' = phase
  BY <1>1 DEF Reading
<1>3. StateTypes' /\ Accepted' /\ NothingInvented'
  BY <1>1 DEF StreamInv, StateTypes, Accepted, NothingInvented
<1>4. HandshakeFirst' /\ HeldBack' /\ InOrder'
  BY <1>1, <1>2 DEF StreamInv, HandshakeFirst, HeldBack, InOrder, Safe
<1>5. OnTheWay'
  BY <1>1, <1>2 DEF StreamInv, OnTheWay, Safe
<1>6. QED
  BY <1>3, <1>4, <1>5 DEF StreamInv

LEMMA StreamStepInv == StreamInv /\ [Next]_vars => StreamInv'
<1> SUFFICES ASSUME StreamInv, [Next]_vars PROVE StreamInv'
  OBVIOUS
<1>1. CASE ServerSend
  BY <1>1, SendInv
<1>2. CASE GoRead \/ CppRead
  <2>1. StateTypes
    BY DEF StreamInv
  <2>2. PICK j \in 1 .. Len(wire) : Read(j)
    BY <1>2, <2>1, Reads
  <2>3. QED
    BY <2>2, ReadInv
<1>3. CASE ServerGone \/ ReadError \/ UNCHANGED vars
  BY <1>3, QuietInv
<1>4. QED
  BY <1>1, <1>2, <1>3 DEF Next

\* The invariant holds in every state.
THEOREM StreamInvAlways == Spec => []StreamInv
BY StreamInitInv, StreamStepInv, PTL DEF Spec

-----------------------------------------------------------------------------
(* Safety                                                                  *)

\* The clients take no more bytes than the server has sent, whatever they take for
\* packets, and the states of the two loops are what they are meant to be.
THEOREM TypeCorrect == Spec => []TypeOK
<1>1. StreamInv => TypeOK
  BY DEF StreamInv, StateTypes, NothingInvented, TypeOK
<1>2. QED
  BY <1>1, StreamInvAlways, PTL

\* readPackets of client.go holds back no whole packet, unless its last Read came back
\* full.
THEOREM HeldOnlyByFullReadAlways == Spec => []HeldOnlyByFullRead
<1>1. StreamInv => HeldOnlyByFullRead
  BY DEF StreamInv, HeldBack, HeldOnlyByFullRead, Held, Decoded
<1>2. QED
  BY <1>1, StreamInvAlways, PTL

\* A read of bytes that Decode fails at handles nothing and leaves them where they are.
LEMMA PoisonStays ==
    ASSUME StreamInv, [Next]_vars, Poisoned
    PROVE  delivered' = delivered /\ (phase' = "loop" => Poisoned')
<1>1. client = "go" /\ phase = "loop" /\ GoDecode(buf).err
  BY DEF Poisoned
<1>2. StateTypes /\ buf \in Seq(Nat) /\ wire \in Seq(Nat) /\ delivered \in Seq(Packet)
  BY DEF StreamInv, StateTypes
<1>3. CASE ServerSend \/ ServerGone \/ ReadError \/ UNCHANGED vars
  <2>1. client' = client /\ buf' = buf /\ delivered' = delivered
    BY <1>3 DEF ServerSend, ServerGone, ReadError, vars
  <2>2. QED
    BY <1>1, <2>1 DEF Poisoned
<1>4. CASE GoRead \/ CppRead
  <2>1. PICK j \in 1 .. Len(wire) : Read(j)
    BY <1>2, <1>4, Reads
  <2>2. client' = client
    BY <2>1 DEF Read
  <2>3. GoDecode(Got(j)).err
    <3>1. SubSeq(wire, 1, j) \in Seq(Nat)
      <4>1. j \in 0 .. Len(wire) /\ 0 \in Nat /\ 0 + 1 = 1
        BY <1>2, LenProperties
      <4>2. SubSeq(wire, 0 + 1, j) \in Seq(Nat)
        BY <1>2, <4>1, Part
      <4>3. QED
        BY <4>1, <4>2
    <3>2. QED
      BY <1>1, <1>2, <3>1, FailureStays DEF Got
  <2>4. Cuts(j) = <<>> /\ Rest(j) = Got(j)
    BY <1>1, <1>2, <2>3, AfterRead
  <2>5. CASE Kept(j)
    BY <1>1, <2>2, <2>3, <2>5 DEF Kept, Poisoned
  <2>6. CASE Taken(j)
    <3>1. delivered' = delivered
      BY <1>2, <2>4, <2>6, ConcatEmptySeq DEF Taken
    <3>2. QED
      BY <1>1, <2>2, <2>3, <2>4, <2>6, <3>1 DEF Taken, Poisoned
  <2>7. CASE TakenFirst(j)
    BY <1>1, <2>7 DEF TakenFirst
  <2>8. CASE Stopped
    BY <2>8 DEF Stopped
  <2>9. QED
    BY <2>1, <2>5, <2>6, <2>7, <2>8 DEF Read
<1>5. QED
  BY <1>3, <1>4 DEF Next

\* Once readLoop has bytes in its buffer that Decode fails at, it handles no packet
\* any more.
THEOREM DeafOncePoisonedAlways == Spec => DeafOncePoisoned
<1>1. StreamInv /\ [Next]_vars =>
          [Poisoned => delivered' = delivered /\ (phase' = "loop" => Poisoned')]_vars
  BY PoisonStays
<1>2. QED
  BY <1>1, StreamInvAlways, PTL DEF Spec, DeafOncePoisoned

-----------------------------------------------------------------------------
(* The refinement                                                          *)

\* How many of the safe packets have been handled.
Handled == Min({Len(delivered), Safe})

\* The packets handled, as PacketStream sees them.
Seen == SubSeq(delivered, 1, Handled)

SeenFacts ==
    /\ Safe \in Nat /\ Len(delivered) \in Nat /\ Safe <= Len(sent) /\ Len(sent) \in Nat
    /\ Handled \in 0 .. Safe
    /\ Len(delivered) <= Safe => Handled = Len(delivered)
    /\ Len(delivered) > Safe => Handled = Safe /\ Safe < Len(sent)
    /\ Sound(sent) \in Seq(Packet)
    /\ Len(Seen) = Handled
    /\ Seen = SubSeq(Sound(sent), 1, Handled)

\* They are the safe packets sent, as many as have been handled.
LEMMA SeenIsSent == StreamInv => SeenFacts
<1> SUFFICES ASSUME StreamInv PROVE SeenFacts
  OBVIOUS
<1> DEFINE k == Len(delivered)
           m == Safe
           h == Handled
           a == Sound(sent)
           x == SubSeq(delivered, 1, h)
           y == SubSeq(a, 1, h)
<1>1. /\ sent \in Seq(Packet) /\ delivered \in Seq(Packet)
      /\ k \in Nat /\ Len(sent) \in Nat
  BY LenProperties DEF StreamInv, StateTypes
<1>2. /\ m \in 0 .. Len(sent) /\ a \in Seq(Packet) /\ Len(a) = m
      /\ \A i \in 1 .. m : a[i] = sent[i]
  BY <1>1, SoundProperties DEF Safe
<1>3. m \in Nat /\ m <= Len(sent)
  BY <1>1, <1>2
<1>4. h \in {k, m} /\ h <= k /\ h <= m
  BY <1>1, <1>3, MinProperties DEF Handled
<1>5. /\ \A l \in 1 .. k : 0 + l <= m => delivered[l] = sent[0 + l]
      /\ 0 + k > m => m < Len(sent)
  BY DEF StreamInv, InOrder, Follows
<1> HIDE DEF k, m, h, a
<1>6. h \in Nat /\ h \in 0 .. m /\ (k <= m => h = k) /\ (k > m => h = m /\ m < Len(sent))
  BY <1>1, <1>3, <1>4, <1>5
<1>7. /\ x \in Seq(Packet) /\ Len(x) = h /\ \A i \in 1 .. h : x[i] = delivered[i]
  <2>1. h \in 0 .. Len(delivered) /\ 0 \in Nat
    BY <1>1, <1>4, <1>6 DEF k
  <2>2. /\ SubSeq(delivered, 0 + 1, h) \in Seq(Packet)
        /\ Len(SubSeq(delivered, 0 + 1, h)) = IF 0 <= h THEN h - 0 ELSE 0
        /\ \A i \in 1 .. h - 0 : SubSeq(delivered, 0 + 1, h)[i] = delivered[0 + i]
    BY <1>1, <2>1, Part
  <2>3. QED
    BY <1>6, <2>2
<1>8. /\ y \in Seq(Packet) /\ Len(y) = h /\ \A i \in 1 .. h : y[i] = a[i]
  <2>1. h \in 0 .. Len(a) /\ 0 \in Nat
    BY <1>2, <1>6
  <2>2. /\ SubSeq(a, 0 + 1, h) \in Seq(Packet)
        /\ Len(SubSeq(a, 0 + 1, h)) = IF 0 <= h THEN h - 0 ELSE 0
        /\ \A i \in 1 .. h - 0 : SubSeq(a, 0 + 1, h)[i] = a[0 + i]
    BY <1>2, <2>1, Part
  <2>3. QED
    BY <1>6, <2>2
<1> HIDE DEF x, y
<1>9. ASSUME NEW i \in 1 .. h PROVE x[i] = y[i]
  <2>1. i \in 1 .. k /\ i \in 1 .. m /\ 0 + i <= m /\ 0 + i = i
    BY <1>1, <1>3, <1>4, <1>6
  <2>2. delivered[i] = sent[i] /\ a[i] = sent[i]
    BY <1>2, <1>5, <2>1
  <2>3. QED
    BY <1>7, <1>8, <2>2
<1>10. x = y
  <2>1. Len(x) = Len(y) /\ \A i \in 1 .. Len(x) : x[i] = y[i]
    BY <1>7, <1>8, <1>9
  <2>2. QED
    BY <1>7, <1>8, <2>1, SeqEqual
<1>11. QED
  BY <1>1, <1>2, <1>3, <1>6, <1>7, <1>10 DEF k, m, h, a, x, y, Seen, SeenFacts

LEMMA SeenIsSentNext == StreamInv' => SeenFacts'
BY SeenIsSent, PTL

\* The server's step sends at most one packet of PacketStream.
LEMMA SendImplements ==
    ASSUME StreamInv, StreamInv', ServerSend
    PROVE  Whole!Send \/ UNCHANGED <<Sound(sent), Seen>>
<1>1. PICK d \in Payloads, t \in (IF sent = <<>> THEN {Handshake, Kick} ELSE {Data}) :
         sent' = Append(sent, [type |-> t, data |-> d])
  BY DEF ServerSend
<1> DEFINE q == [type |-> t, data |-> d]
<1>2. q \in Packet
  <2>1. d \in Seq(Nat) /\ t \in Nat
    BY StreamAssumption DEF Handshake, Kick, Data
  <2>2. QED
    BY <2>1 DEF Packet
<1>3. sent \in Seq(Packet) /\ sent' = Append(sent, q) /\ delivered' = delivered
  BY <1>1 DEF StreamInv, StateTypes, ServerSend
<1> HIDE DEF q
<1>4. /\ Safe < Len(sent) => Safe' = Safe
      /\ Safe = Len(sent) => Safe' = Safe \/ Safe' = Safe + 1
      /\ Safe' = Safe => Sound(sent') = Sound(sent)
      /\ SubSeq(Sound(sent'), 1, Safe) = Sound(sent)
  BY <1>2, <1>3, SoundAppend DEF Safe
<1>5. /\ Safe \in Nat /\ Safe <= Len(sent) /\ Len(sent) \in Nat /\ Len(delivered) \in Nat
      /\ Len(delivered) <= Safe => Handled = Len(delivered)
      /\ Len(delivered) > Safe => Handled = Safe /\ Safe < Len(sent)
  BY SeenIsSent DEF SeenFacts
<1>6. /\ Len(delivered') <= Safe' => Handled' = Len(delivered')
      /\ Len(delivered') > Safe' => Handled' = Safe'
      /\ Safe' \in Nat
  BY SeenIsSentNext DEF SeenFacts
<1>7. Handled' = Handled
  BY <1>3, <1>4, <1>5, <1>6
<1>8. Seen' = Seen
  BY <1>3, <1>7 DEF Seen
<1>9. CASE Safe' = Safe
  BY <1>4, <1>8, <1>9, SMTT(30)
<1>10. CASE Safe' = Safe + 1
  BY <1>4, <1>8, <1>10, ZenonT(30) DEF Whole!Send, Seen, Handled, Safe
<1>11. QED
  BY <1>4, <1>5, <1>9, <1>10

\* Every other step takes none, or some more of those that were sent.
LEMMA OtherImplements ==
    ASSUME StreamInv, StreamInv', sent' = sent, Len(delivered) <= Len(delivered')
    PROVE  Whole!Deliver \/ UNCHANGED <<Sound(sent), Seen>>
<1>1. Safe' = Safe /\ Sound(sent)' = Sound(sent)
  BY DEF Safe
<1>2. /\ Safe \in Nat /\ Len(delivered) \in Nat /\ Handled \in 0 .. Safe
      /\ Len(delivered) <= Safe => Handled = Len(delivered)
      /\ Len(delivered) > Safe => Handled = Safe
      /\ Len(Seen) = Handled
      /\ Seen = SubSeq(Sound(sent), 1, Handled)
  BY SeenIsSent DEF SeenFacts
<1>3. /\ Len(delivered') \in Nat /\ Handled' \in 0 .. Safe'
      /\ Len(delivered') <= Safe' => Handled' = Len(delivered')
      /\ Len(delivered') > Safe' => Handled' = Safe'
      /\ Seen' = SubSeq(Sound(sent)', 1, Handled')
  BY SeenIsSentNext DEF SeenFacts
<1>4. Handled' = Handled \/ Handled' \in Handled + 1 .. Safe
  BY <1>1, <1>2, <1>3
<1>5. CASE Handled' = Handled
  BY <1>1, <1>2, <1>3, <1>5
<1>6. CASE Handled' \in Handled + 1 .. Safe
  <2>1. Seen' = SubSeq(Sound(sent), 1, Handled')
    BY <1>1, <1>3
  <2>2. Handled' \in Len(Seen) + 1 .. Len(Sound(sent))
    BY <1>2, <1>6 DEF Safe
  <2>3. \E n \in Len(Seen) + 1 .. Len(Sound(sent)) : Seen' = SubSeq(Sound(sent), 1, n)
    BY <2>1, <2>2
  <2>4. QED
    BY <1>1, <2>3 DEF Whole!Deliver, Seen, Handled, Safe
<1>7. QED
  BY <1>4, <1>5, <1>6

LEMMA StepImplements ==
    ASSUME StreamInv, StreamInv', [Next]_vars
    PROVE  Whole!Next \/ UNCHANGED <<Sound(sent), Seen>>
<1>1. StateTypes /\ delivered \in Seq(Packet) /\ Len(delivered) \in Nat
  BY LenProperties DEF StreamInv, StateTypes
<1>2. CASE ServerSend
  BY <1>2, SendImplements DEF Whole!Next
<1>3. CASE ServerGone \/ ReadError \/ UNCHANGED vars
  <2>1. sent' = sent /\ delivered' = delivered
    BY <1>3 DEF ServerGone, ReadError, vars
  <2>2. Len(delivered) <= Len(delivered')
    BY <1>1, <2>1
  <2>3. QED
    BY <2>1, <2>2, OtherImplements DEF Whole!Next
<1>4. CASE GoRead \/ CppRead
  <2>1. PICK j \in 1 .. Len(wire) : Read(j)
    BY <1>1, <1>4, Reads
  <2>2. sent' = sent
    BY <2>1 DEF Read
  <2>3. Len(delivered) <= Len(delivered')
    <3>1. CASE Kept(j) \/ Stopped
      BY <1>1, <3>1 DEF Kept, Stopped
    <3>2. CASE Taken(j)
      <4>1. Cuts(j) \in Seq(Packet)
        BY <1>1, AfterRead
      <4>2. Len(Cuts(j)) \in Nat /\ Len(delivered \o Cuts(j)) = Len(delivered) + Len(Cuts(j))
        BY <1>1, <4>1, ConcatProperties, LenProperties
      <4>3. delivered' = delivered \o Cuts(j)
        BY <3>2 DEF Taken
      <4>4. QED
        BY <1>1, <4>2, <4>3
    <3>3. CASE TakenFirst(j)
      <4>1. delivered = <<>>
        BY <3>3 DEF TakenFirst, StreamInv, HandshakeFirst
      <4>2. Len(delivered) = 0
        BY <4>1, EmptySeq
      <4>3. Len(delivered') \in Nat
        BY LenProperties DEF StreamInv, StateTypes
      <4>4. QED
        BY <4>2, <4>3
    <3>4. QED
      BY <2>1, <3>1, <3>2, <3>3 DEF Read
  <2>4. QED
    BY <2>2, <2>3, OtherImplements DEF Whole!Next
<1>5. QED
  BY <1>2, <1>3, <1>4 DEF Next

\* readPackets, in both clients, implements PacketStream: the packets handled are the
\* packets sent, whole, in order, none twice and none left out, whatever pieces the bytes
\* arrive in, up to a packet of the largest size Encode lets through.
THEOREM StreamImplementsPacketStream == Spec => ImplementsPacketStream
<1>1. Init => Whole!Init
  <2> SUFFICES ASSUME Init PROVE Whole!Init
    OBVIOUS
  <2>1. sent = <<>> /\ delivered = <<>>
    BY DEF Init
  <2>2. StreamInv
    BY StreamInitInv
  <2>3. Len(sent) = 0 /\ Safe \in Nat /\ Safe <= Len(sent)
    BY <2>1, <2>2, SeenIsSent, EmptySeq DEF SeenFacts
  <2>4. Sound(sent) = <<>>
    <3>1. Sound(sent) \in Seq(Packet) /\ Len(Sound(sent)) = 0
      BY <2>2, <2>3, SeenIsSent DEF SeenFacts, Safe
    <3>2. QED
      BY <3>1, EmptySeq
  <2>5. Seen = <<>>
    <3>1. Handled = 0
      BY <2>2, <2>3, SeenIsSent DEF SeenFacts
    <3>2. SubSeq(delivered, 1, 0) = <<>>
      BY <2>1
    <3>3. QED
      BY <3>1, <3>2 DEF Seen
  <2>6. QED
    BY <2>4, <2>5 DEF Whole!Init, Seen, Handled, Safe
<1>2. StreamInv /\ StreamInv' /\ [Next]_vars => [Whole!Next]_(Whole!vars)
  BY StepImplements DEF Whole!vars, Seen, Handled, Safe
<1>3. QED
  BY <1>1, <1>2, StreamInvAlways, PTL DEF Spec, ImplementsPacketStream, Whole!Spec
=============================================================================
