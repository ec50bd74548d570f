------------------------- MODULE PacketCodecProofs --------------------------
(***************************************************************************)
(* Proofs about PacketCodec, for every base and every sequence of bytes:   *)
(* the length field, what the two Decode functions return and what they    *)
(* leave, and that decoding what Encode wrote gives back the packets.      *)
(***************************************************************************)
EXTENDS PacketCodec, DataLemmas

-----------------------------------------------------------------------------
(* The length field                                                        *)

\* Dividing twice by a base is dividing by its square.
LEMMA DivDiv ==
    ASSUME NEW n \in Nat, NEW r \in Nat \ {0}
    PROVE  n \div (r * r) = (n \div r) \div r
<1> DEFINE q == n \div r
           a == q \div r
           b == q % r
           c == n % r
<1>1. /\ q \in Nat /\ c \in 0 .. r - 1 /\ n = q * r + c
      /\ a \in Nat /\ b \in 0 .. r - 1 /\ q = a * r + b
  BY DivMod
<1> HIDE DEF q, a, b, c
<1>2. r * r \in Nat \ {0}
  OBVIOUS
<1>3. b * r + c \in 0 .. r * r - 1
  <2>1. b * r <= (r - 1) * r
    BY <1>1
  <2>2. (r - 1) * r = r * r - r
    OBVIOUS
  <2>3. b * r \in Nat
    BY <1>1
  <2>4. QED
    BY <1>1, <1>2, <2>1, <2>2, <2>3
<1>4. n = a * (r * r) + (b * r + c)
  <2>1. n = (a * r + b) * r + c
    BY <1>1
  <2>2. (a * r + b) * r = a * (r * r) + b * r
    BY <1>1
  <2>3. QED
    BY <1>1, <2>1, <2>2
<1>5. n \div (r * r) = a
  <2> DEFINE s == r * r
             m == b * r + c
  <2>1. s \in Nat \ {0} /\ m \in 0 .. s - 1 /\ n = a * s + m
    BY <1>2, <1>3, <1>4
  <2> HIDE DEF s, m
  <2>2. n \div s = a
    BY <1>1, <2>1, DivModUnique
  <2>3. QED
    BY <2>2 DEF s
<1>6. QED
  BY <1>5 DEF q, a

\* Both codecs read back the length they wrote, in IntToBytes and BytesToInt, for
\* every length below MaxPacketSize.
THEOREM LengthReadBack ==
    \A n \in 0 .. MaxPacketSize - 1 : BytesToInt(IntToBytes(n)) = n
<1> DEFINE R == Radix
<1> SUFFICES ASSUME NEW n \in 0 .. R * R * R - 1
             PROVE  BytesToInt(IntToBytes(n)) = n
  BY DEF MaxPacketSize
<1> DEFINE q == n \div R
           a == q \div R
           b == q % R
           c == n % R
<1>1. R \in Nat \ {0, 1}
  BY RadixAssumption
<1> HIDE DEF R
<1>2. n \in Nat
  BY <1>1
<1>3. /\ q \in Nat /\ c \in 0 .. R - 1 /\ n = q * R + c
      /\ a \in Nat /\ b \in 0 .. R - 1 /\ q = a * R + b
  BY <1>1, <1>2, DivMod
<1>4. n \div (R * R) = a
  BY <1>1, <1>2, DivDiv
<1> HIDE DEF q, a, b, c
<1>5. a < R
  <2> SUFFICES ASSUME a >= R PROVE FALSE
    BY <1>1, <1>3
  <2>1. n = (a * R + b) * R + c
    BY <1>3
  <2>2. a * R >= R * R
    BY <1>1, <1>3
  <2>3. a * R + b >= R * R /\ a * R + b \in Nat /\ R * R \in Nat
    BY <1>1, <1>3, <2>2
  <2>4. (a * R + b) * R >= R * R * R
    BY <1>1, <2>3
  <2>5. QED
    BY <1>1, <1>3, <2>1, <2>3, <2>4
<1>6. a % R = a
  BY <1>1, <1>3, <1>5
<1>7. IntToBytes(n) = <<a, b, c>>
  BY <1>4, <1>6 DEF IntToBytes, q, b, c, R
<1>8. BytesToInt(<<a, b, c>>) = (a * R + b) * R + c
  BY DEF BytesToInt, R
<1>9. QED
  BY <1>3, <1>7, <1>8

\* The largest length both Encode functions accept is written as zero: its reader
\* takes the payload for the packets that follow.
THEOREM LargestLengthIsLost ==
    IntToBytes(MaxPacketSize) = <<0, 0, 0>>
<1> DEFINE R == Radix
<1>1. R \in Nat \ {0, 1}
  BY RadixAssumption
<1> HIDE DEF R
<1>2. R * R \in Nat \ {0} /\ R * R * R \in Nat
  BY <1>1
<1>3. R * R * R = (R * R) * R + 0 /\ R * R * R = R * (R * R) + 0 /\ R * R = R * R + 0
  BY <1>1, <1>2
<1>4. (R * R * R) % R = 0 /\ (R * R * R) \div R = R * R
  BY <1>1, <1>2, <1>3, DivModUnique
<1>5. (R * R * R) \div (R * R) = R
  BY <1>1, <1>2, <1>3, DivModUnique
<1>6. R % R = 0 /\ (R * R) % R = 0
  <2>1. R = 1 * R + 0
    BY <1>1
  <2>2. QED
    BY <1>1, <1>2, <1>3, <2>1, DivModUnique
<1>7. QED
  BY <1>4, <1>5, <1>6 DEF IntToBytes, MaxPacketSize, R

-----------------------------------------------------------------------------
(* Packets cut from bytes                                                  *)

\* A part of what is left of a sequence.
LEMMA PartOfDrop ==
    ASSUME NEW S, NEW s \in Seq(S), NEW c \in 0 .. Len(s), NEW m \in Nat, NEW n \in 0 .. Len(s) - c
    PROVE  SubSeq(Drop(s, c), m + 1, n) = SubSeq(s, c + m + 1, c + n)
<1>1. /\ Len(s) \in Nat /\ Drop(s, c) \in Seq(S) /\ Len(Drop(s, c)) = Len(s) - c
      /\ \A i \in 1 .. Len(s) - c : Drop(s, c)[i] = s[c + i]
  <2>1. Len(s) \in Nat /\ Len(s) \in 0 .. Len(s) /\ c \in Nat
    BY LenProperties
  <2>2. QED
    BY <2>1, Part DEF Drop
<1> DEFINE a == SubSeq(Drop(s, c), m + 1, n)
           b == SubSeq(s, c + m + 1, c + n)
<1>2. /\ a \in Seq(S) /\ Len(a) = (IF m <= n THEN n - m ELSE 0)
      /\ \A i \in 1 .. n - m : a[i] = Drop(s, c)[m + i]
  BY <1>1, Part
<1>3. /\ b \in Seq(S) /\ Len(b) = (IF m <= n THEN n - m ELSE 0)
      /\ \A i \in 1 .. n - m : b[i] = s[c + m + i]
  <2> DEFINE mm == c + m
             nn == c + n
  <2>1. mm \in Nat /\ nn \in 0 .. Len(s) /\ nn - mm = n - m /\ (mm <= nn <=> m <= n)
    BY <1>1
  <2>2. b = SubSeq(s, mm + 1, nn)
    OBVIOUS
  <2> HIDE DEF mm, nn, b
  <2>3. /\ b \in Seq(S) /\ Len(b) = (IF mm <= nn THEN nn - mm ELSE 0)
        /\ \A i \in 1 .. nn - mm : b[i] = s[mm + i]
    BY <2>1, <2>2, Part
  <2>4. QED
    BY <2>1, <2>3 DEF mm
<1> HIDE DEF a, b
<1>4. ASSUME NEW i \in 1 .. Len(a) PROVE a[i] = b[i]
  <2>1. i \in 1 .. n - m /\ m + i \in 1 .. Len(s) - c /\ c + m + i = c + (m + i)
    BY <1>1, <1>2
  <2>2. QED
    BY <1>1, <1>2, <1>3, <2>1
<1>5. a = b
  BY <1>2, <1>3, <1>4, SeqEqual
<1>6. QED
  BY <1>5 DEF a, b

\* A header, where there is one: the bytes in front of a packet's end.
LEMMA Header ==
    ASSUME NEW s \in Seq(Nat), NEW p \in Nat, HeaderAt(s, p)
    PROVE  /\ SizeAt(s, p) \in Nat /\ s[p + 1] \in Nat
           /\ NextAt(s, p) \in Nat /\ NextAt(s, p) = p + HeadLength + SizeAt(s, p)
<1>1. Len(s) \in Nat /\ p + 4 <= Len(s)
  BY LenProperties DEF HeaderAt, HeadLength
<1> DEFINE h == SubSeq(s, p + 2, p + 4)
<1>2. Len(h) = 3 /\ h \in Seq(Nat)
  <2>1. p + 1 \in Nat /\ p + 4 \in 0 .. Len(s) /\ (p + 1) + 1 = p + 2
    BY <1>1
  <2>2. /\ SubSeq(s, (p + 1) + 1, p + 4) \in Seq(Nat)
        /\ Len(SubSeq(s, (p + 1) + 1, p + 4)) =
             IF p + 1 <= p + 4 THEN (p + 4) - (p + 1) ELSE 0
    BY <2>1, Part
  <2>3. QED
    BY <2>1, <2>2
<1>3. h[1] \in Nat /\ h[2] \in Nat /\ h[3] \in Nat
  <2> HIDE DEF h
  <2>1. \A i \in 1 .. Len(h) : h[i] \in Nat
    BY <1>2, ElementOfSeq
  <2>2. 1 \in 1 .. Len(h) /\ 2 \in 1 .. Len(h) /\ 3 \in 1 .. Len(h)
    BY <1>2
  <2>3. QED
    BY <2>1, <2>2
<1>4. SizeAt(s, p) = (h[1] * Radix + h[2]) * Radix + h[3]
  BY DEF SizeAt, BytesToInt, HeadLength
<1> HIDE DEF h
<1>5. SizeAt(s, p) \in Nat
  <2>1. \A a, b, c \in Nat : (a * Radix + b) * Radix + c \in Nat
    BY RadixAssumption
  <2>2. QED
    BY <1>3, <1>4, <2>1, ZenonT(30)
<1>6. s[p + 1] \in Nat
  BY <1>1, ElementOfSeq
<1>7. QED
  BY <1>5, <1>6 DEF NextAt, HeadLength

\* A packet cut from bytes.
LEMMA CutPacket ==
    ASSUME NEW s \in Seq(Nat), NEW p \in Nat, HeaderAt(s, p), NextAt(s, p) <= Len(s)
    PROVE  /\ PacketAt(s, p) \in [type : Nat, data : Seq(Nat)]
           /\ PacketAt(s, p).type = s[p + 1]
           /\ Len(PacketAt(s, p).data) = SizeAt(s, p)
<1>1. /\ SizeAt(s, p) \in Nat
      /\ NextAt(s, p) \in 0 .. Len(s) /\ NextAt(s, p) = p + 4 + SizeAt(s, p)
  BY Header, LenProperties DEF HeadLength
<1> DEFINE d == SubSeq(s, p + 4 + 1, NextAt(s, p))
<1>2. d \in Seq(Nat) /\ Len(d) = SizeAt(s, p)
  <2>1. p + 4 \in Nat /\ p + 4 <= NextAt(s, p) /\ NextAt(s, p) - (p + 4) = SizeAt(s, p)
    BY <1>1
  <2>2. QED
    BY <1>1, <2>1, Part
<1>3. PacketAt(s, p) = [type |-> s[p + 1], data |-> d]
  BY DEF PacketAt, HeadLength
<1> HIDE DEF d
<1>4. s[p + 1] \in Nat
  BY Header
<1>5. QED
  BY <1>2, <1>3, <1>4

\* What is at the front of a sequence of bytes is there whatever comes behind it.
LEMMA FrontStays ==
    ASSUME NEW s \in Seq(Nat), NEW t \in Seq(Nat), NEW p \in Nat, HeaderAt(s, p)
    PROVE  /\ HeaderAt(s \o t, p) /\ (s \o t)[p + 1] = s[p + 1]
           /\ SizeAt(s \o t, p) = SizeAt(s, p) /\ NextAt(s \o t, p) = NextAt(s, p)
           /\ NextAt(s, p) <= Len(s) => PacketAt(s \o t, p) = PacketAt(s, p)
<1>1. /\ Len(s) \in Nat /\ Len(t) \in Nat /\ p + 4 <= Len(s)
      /\ Len(s \o t) = Len(s) + Len(t) /\ (s \o t)[p + 1] = s[p + 1]
  <2>1. Len(s) \in Nat /\ Len(t) \in Nat /\ p + 4 <= Len(s)
    BY LenProperties DEF HeaderAt, HeadLength
  <2>2. p + 1 \in 1 .. Len(s) + Len(t) /\ p + 1 <= Len(s)
    BY <2>1
  <2>3. QED
    BY <2>1, <2>2, ConcatProperties
<1>2. SubSeq(s \o t, p + 2, p + 4) = SubSeq(s, p + 2, p + 4)
  <2>1. p + 1 \in Nat /\ p + 4 \in 0 .. Len(s) /\ (p + 1) + 1 = p + 2
    BY <1>1
  <2>2. SubSeq(s \o t, (p + 1) + 1, p + 4) = SubSeq(s, (p + 1) + 1, p + 4)
    BY <2>1, PartOfConcat
  <2>3. QED
    BY <2>1, <2>2
<1>3. /\ HeaderAt(s \o t, p) /\ SizeAt(s \o t, p) = SizeAt(s, p)
      /\ NextAt(s \o t, p) = NextAt(s, p)
  <2>1. HeaderAt(s \o t, p)
    BY <1>1 DEF HeaderAt, HeadLength
  <2>2. SizeAt(s \o t, p) = SizeAt(s, p)
    BY <1>2 DEF SizeAt, HeadLength
  <2>3. QED
    BY <2>1, <2>2 DEF NextAt
<1>4. ASSUME NextAt(s, p) <= Len(s) PROVE PacketAt(s \o t, p) = PacketAt(s, p)
  <2>1. p + 4 \in Nat /\ NextAt(s, p) \in 0 .. Len(s)
    BY <1>4, Header, LenProperties
  <2>2. SubSeq(s \o t, p + 4 + 1, NextAt(s, p)) = SubSeq(s, p + 4 + 1, NextAt(s, p))
    BY <2>1, PartOfConcat
  <2>3. QED
    BY <1>1, <1>3, <2>2 DEF PacketAt, HeadLength
<1>5. QED
  BY <1>1, <1>3, <1>4

\* What is left of a sequence of bytes when its front has been dropped.
LEMMA FrontDropped ==
    ASSUME NEW s \in Seq(Nat), NEW c \in 0 .. Len(s), NEW p \in Nat
    PROVE  /\ Drop(s, c) \in Seq(Nat) /\ Len(Drop(s, c)) = Len(s) - c
           /\ HeaderAt(Drop(s, c), p) <=> HeaderAt(s, c + p)
           /\ HeaderAt(s, c + p) =>
                 /\ Drop(s, c)[p + 1] = s[c + p + 1]
                 /\ NextAt(Drop(s, c), p) = NextAt(s, c + p) - c
<1>0. Len(s) \in Nat /\ c \in Nat /\ c <= Len(s)
  BY LenProperties
<1>1. /\ Len(s) \in Nat /\ Drop(s, c) \in Seq(Nat) /\ Len(Drop(s, c)) = Len(s) - c
      /\ \A i \in 1 .. Len(s) - c : Drop(s, c)[i] = s[c + i]
  <2>1. Len(s) \in Nat /\ Len(s) \in 0 .. Len(s) /\ c \in Nat
    BY LenProperties
  <2>2. QED
    BY <2>1, Part DEF Drop
<1>2. HeaderAt(Drop(s, c), p) <=> HeaderAt(s, c + p)
  BY <1>1 DEF HeaderAt, HeadLength
<1>3. ASSUME HeaderAt(s, c + p)
      PROVE  Drop(s, c)[p + 1] = s[c + p + 1] /\ NextAt(Drop(s, c), p) = NextAt(s, c + p) - c
  <2> USE <1>0
  <2>1. p + 1 \in 1 .. Len(s) - c /\ p + 4 \in 0 .. Len(s) - c /\ p + 1 \in Nat
    BY <1>3 DEF HeaderAt, HeadLength
  <2>2. SubSeq(Drop(s, c), (p + 1) + 1, p + 4) = SubSeq(s, c + (p + 1) + 1, c + (p + 4))
    <3>1. \A m \in Nat, n \in 0 .. Len(s) - c :
              SubSeq(Drop(s, c), m + 1, n) = SubSeq(s, c + m + 1, c + n)
      BY PartOfDrop
    <3>2. QED
      BY ONLY <2>1, <3>1
  <2>3. /\ (p + 1) + 1 = p + 2 /\ c + (p + 1) + 1 = (c + p) + 2 /\ c + (p + 4) = (c + p) + 4
        /\ c + (p + 1) = c + p + 1
    OBVIOUS
  <2>4. SizeAt(Drop(s, c), p) = SizeAt(s, c + p)
    BY <2>2, <2>3 DEF SizeAt, HeadLength
  <2>5. SizeAt(s, c + p) \in Nat
    BY <1>3, Header
  <2>6. Drop(s, c)[p + 1] = s[c + p + 1]
    <3>1. Drop(s, c)[p + 1] = s[c + (p + 1)]
      BY ONLY <1>1, <2>1
    <3>2. QED
      BY ONLY <2>3, <3>1
  <2>7. NextAt(Drop(s, c), p) = NextAt(s, c + p) - c
    BY <2>4, <2>5 DEF NextAt, HeadLength
  <2>8. QED
    BY <2>6, <2>7
<1>4. QED
  BY <1>1, <1>2, <1>3

-----------------------------------------------------------------------------
(* The bytes of packets                                                    *)

Packet == [type : Nat, data : Seq(Nat)]

\* The equation that defines ConsumedUpto has a solution, and so ConsumedUpto is one.
LEMMA ConsumedUptoDef ==
    ASSUME NEW ps \in Seq(Packet)
    PROVE  /\ ConsumedUpto(ps) \in [0 .. Len(ps) -> Nat]
           /\ ConsumedUpto(ps)[0] = 0
           /\ \A i \in 1 .. Len(ps) :
                 ConsumedUpto(ps)[i] = ConsumedUpto(ps)[i - 1] + HeadLength + Len(ps[i].data)
<1>1. Len(ps) \in Nat
  BY LenProperties
<1> DEFINE w == [i \in 1 .. Len(ps) |-> HeadLength + Len(ps[i].data)]
<1>2. ASSUME NEW i \in 1 .. Len(ps)
      PROVE  Len(ps[i].data) \in Nat /\ w[i] \in Nat /\ w[i] = 4 + Len(ps[i].data)
  <2>1. ps[i] \in Packet
    BY ElementOfSeq
  <2>2. Len(ps[i].data) \in Nat
    BY <2>1, LenProperties DEF Packet
  <2>3. QED
    BY <2>2 DEF HeadLength
<1>3. PICK u \in [0 .. Len(ps) -> Nat] :
          u[0] = 0 /\ \A i \in 1 .. Len(ps) : u[i] = u[i - 1] + w[i]
  <2> HIDE DEF w
  <2>1. QED
    BY <1>1, <1>2, SumsExist
<1>4. u = [i \in 0 .. Len(ps) |->
              IF i = 0 THEN 0 ELSE u[i - 1] + HeadLength + Len(ps[i].data)]
  <2>1. ASSUME NEW i \in 0 .. Len(ps)
        PROVE  u[i] = IF i = 0 THEN 0 ELSE u[i - 1] + HeadLength + Len(ps[i].data)
    <3>1. CASE i = 0
      BY <1>3, <3>1
    <3>2. CASE i # 0
      <4>1. i \in 1 .. Len(ps) /\ i - 1 \in 0 .. Len(ps)
        BY <1>1, <3>2
      <4> HIDE DEF w
      <4>2. u[i - 1] \in Nat /\ u[i] = u[i - 1] + w[i]
        BY <1>3, <4>1
      <4>3. Len(ps[i].data) \in Nat /\ w[i] = 4 + Len(ps[i].data)
        BY <1>2, <4>1
      <4>4. QED
        BY <3>2, <4>2, <4>3 DEF HeadLength
    <3>3. QED
      BY <3>1, <3>2
  <2> HIDE DEF w
  <2>2. QED
    BY <2>1
<1>5. ConsumedUpto(ps) =
          [i \in 0 .. Len(ps) |->
              IF i = 0 THEN 0 ELSE ConsumedUpto(ps)[i - 1] + HeadLength + Len(ps[i].data)]
  BY <1>4 DEF ConsumedUpto
<1>6. ASSUME NEW c, c = [i \in 0 .. Len(ps) |->
                            IF i = 0 THEN 0 ELSE c[i - 1] + HeadLength + Len(ps[i].data)]
      PROVE  /\ c \in [0 .. Len(ps) -> Nat] /\ c[0] = 0
             /\ \A i \in 1 .. Len(ps) : c[i] = c[i - 1] + HeadLength + Len(ps[i].data)
  <2>1. c[0] = 0 /\ \A i \in 1 .. Len(ps) : c[i] = c[i - 1] + HeadLength + Len(ps[i].data)
    <3>1. 0 \in 0 .. Len(ps) /\ \A i \in 1 .. Len(ps) : i \in 0 .. Len(ps) /\ i # 0
      BY <1>1
    <3>2. \A i \in 0 .. Len(ps) :
             c[i] = IF i = 0 THEN 0 ELSE c[i - 1] + HeadLength + Len(ps[i].data)
      BY <1>6
    <3>3. QED
      BY ONLY <3>1, <3>2
  <2> DEFINE T == {i \in Nat : i <= Len(ps) => c[i] \in Nat}
  <2>2. 0 \in T
    BY <2>1
  <2>3. ASSUME NEW i \in Nat, i \in T PROVE i + 1 \in T
    <3> SUFFICES ASSUME i + 1 <= Len(ps) PROVE c[i + 1] \in Nat
      OBVIOUS
    <3>1. i + 1 \in 1 .. Len(ps) /\ (i + 1) - 1 = i /\ c[i] \in Nat
      BY <1>1, <2>3
    <3>2. c[i + 1] = c[i] + HeadLength + Len(ps[i + 1].data) /\ Len(ps[i + 1].data) \in Nat
      BY <1>2, <2>1, <3>1
    <3>3. QED
      BY <3>1, <3>2 DEF HeadLength
  <2>4. \A i \in 0 .. Len(ps) : c[i] \in Nat
    <3>1. Nat \subseteq T
      <4> HIDE DEF T
      <4>1. QED
        BY <2>2, <2>3, NatSetInduction
    <3>2. QED
      BY <1>1, <3>1
  <2>5. QED
    BY <1>6, <2>1, <2>4
<1>7. QED
  BY <1>5, <1>6

\* The bytes of no packets, of one, and of some behind others.
LEMMA ConsumedNat ==
    ASSUME NEW ps \in Seq(Packet)
    PROVE  Consumed(ps) \in Nat
<1>1. Len(ps) \in 0 .. Len(ps)
  BY LenProperties
<1>2. QED
  BY <1>1, ConsumedUptoDef DEF Consumed

LEMMA ConsumedNone == Consumed(<<>>) = 0
<1>1. <<>> \in Seq(Packet) /\ Len(<<>>) = 0
  BY EmptySeq
<1>2. QED
  BY <1>1, ConsumedUptoDef DEF Consumed

LEMMA ConsumedOne ==
    ASSUME NEW q \in Packet
    PROVE  <<q>> \in Seq(Packet) /\ Consumed(<<q>>) = HeadLength + Len(q.data)
<1>1. <<q>> \in Seq(Packet) /\ Len(<<q>>) = 1 /\ <<q>>[1] = q
  OBVIOUS
<1>2. /\ ConsumedUpto(<<q>>)[0] = 0
      /\ ConsumedUpto(<<q>>)[1] = ConsumedUpto(<<q>>)[0] + HeadLength + Len(q.data)
  <2> DEFINE ps == <<q>>
  <2>1. ps \in Seq(Packet) /\ Len(ps) = 1 /\ ps[1] = q /\ 1 \in 1 .. Len(ps) /\ 1 - 1 = 0
    BY <1>1
  <2> HIDE DEF ps
  <2>2. /\ ConsumedUpto(ps)[0] = 0
        /\ \A i \in 1 .. Len(ps) :
              ConsumedUpto(ps)[i] = ConsumedUpto(ps)[i - 1] + HeadLength + Len(ps[i].data)
    BY <2>1, ConsumedUptoDef
  <2>3. ConsumedUpto(ps)[1] = ConsumedUpto(ps)[1 - 1] + HeadLength + Len(ps[1].data)
    BY ONLY <2>1, <2>2
  <2>4. QED
    BY <2>1, <2>2, <2>3 DEF ps
<1>3. Len(q.data) \in Nat
  BY LenProperties DEF Packet
<1>4. QED
  BY <1>1, <1>2, <1>3 DEF Consumed, HeadLength

LEMMA ConsumedConcat ==
    ASSUME NEW a \in Seq(Packet), NEW b \in Seq(Packet)
    PROVE  Consumed(a \o b) = Consumed(a) + Consumed(b)
<1> DEFINE c  == ConsumedUpto(a \o b)
           ca == ConsumedUpto(a)
           cb == ConsumedUpto(b)
           m  == Len(a)
           n  == Len(b)
<1>1. m \in Nat /\ n \in Nat /\ a \o b \in Seq(Packet) /\ Len(a \o b) = m + n
  BY LenProperties, ConcatProperties
<1>2. /\ \A i \in 1 .. m : (a \o b)[i] = a[i]
      /\ \A i \in 1 .. n : (a \o b)[m + i] = b[i]
  <2>1. \A i \in 1 .. m + n : (a \o b)[i] = IF i <= m THEN a[i] ELSE b[i - m]
    BY ConcatProperties
  <2>2. \A i \in 1 .. n : m + i \in 1 .. m + n /\ ~(m + i <= m) /\ (m + i) - m = i
    BY <1>1
  <2>3. QED
    BY <1>1, <2>1, <2>2
<1>3. /\ c[0] = 0 /\ ca[0] = 0 /\ cb[0] = 0
      /\ \A i \in 1 .. m + n : c[i] = c[i - 1] + HeadLength + Len((a \o b)[i].data)
      /\ \A i \in 1 .. m : ca[i] = ca[i - 1] + HeadLength + Len(a[i].data)
      /\ \A i \in 1 .. n : cb[i] = cb[i - 1] + HeadLength + Len(b[i].data)
  BY <1>1, ConsumedUptoDef
<1>4. ca \in [0 .. m -> Nat] /\ cb \in [0 .. n -> Nat]
  BY ConsumedUptoDef
<1>5. \A i \in 1 .. n : Len(b[i].data) \in Nat
  <2>1. \A i \in 1 .. n : b[i] \in Packet
    BY ElementOfSeq
  <2>2. QED
    BY <2>1, LenProperties DEF Packet
<1>6. Consumed(a \o b) = c[m + n] /\ Consumed(a) = ca[m] /\ Consumed(b) = cb[n]
  BY <1>1 DEF Consumed
<1> HIDE DEF c, ca, cb, m, n
<1>7. c[m] = ca[m]
  <2> DEFINE T == {i \in Nat : i <= m => c[i] = ca[i]}
  <2>1. 0 \in T
    BY <1>3
  <2>2. ASSUME NEW i \in Nat, i \in T PROVE i + 1 \in T
    <3> SUFFICES ASSUME i + 1 <= m PROVE c[i + 1] = ca[i + 1]
      OBVIOUS
    <3>1. i + 1 \in 1 .. m /\ i + 1 \in 1 .. m + n /\ (i + 1) - 1 = i /\ i <= m
      BY <1>1
    <3>2. c[i + 1] = c[i] + HeadLength + Len(a[i + 1].data)
      BY <1>2, <1>3, <3>1
    <3>3. ca[i + 1] = ca[i] + HeadLength + Len(a[i + 1].data)
      BY <1>3, <3>1
    <3>4. c[i] = ca[i]
      BY <2>2, <3>1
    <3>5. QED
      BY <3>2, <3>3, <3>4
  <2>3. m \in T
    <3> HIDE DEF T
    <3>1. QED
      BY <1>1, <2>1, <2>2, NatSetInduction
  <2>4. QED
    BY <1>1, <2>3
<1>8. c[m + n] = ca[m] + cb[n]
  <2> DEFINE T == {i \in Nat : i <= n => c[m + i] = ca[m] + cb[i]}
  <2>1. ca[m] \in Nat /\ \A i \in 0 .. n : cb[i] \in Nat
    <3>1. m \in 0 .. m
      BY <1>1
    <3>2. QED
      BY <1>4, <3>1
  <2>2. 0 \in T
    <3>1. m + 0 = m /\ ca[m] + 0 = ca[m]
      BY <1>1, <2>1
    <3>2. QED
      BY <1>3, <1>7, <3>1
  <2>3. ASSUME NEW i \in Nat, i \in T PROVE i + 1 \in T
    <3> SUFFICES ASSUME i + 1 <= n PROVE c[m + (i + 1)] = ca[m] + cb[i + 1]
      OBVIOUS
    <3>1. /\ i + 1 \in 1 .. n /\ m + (i + 1) \in 1 .. m + n /\ (i + 1) - 1 = i
          /\ (m + (i + 1)) - 1 = m + i /\ i \in 0 .. n
      BY <1>1
    <3>2. c[m + (i + 1)] = c[m + i] + HeadLength + Len(b[i + 1].data)
      <4>1. c[m + (i + 1)] = c[(m + (i + 1)) - 1] + HeadLength + Len((a \o b)[m + (i + 1)].data)
        BY <1>3, <3>1
      <4>2. (a \o b)[m + (i + 1)] = b[i + 1]
        BY <1>2, <3>1
      <4>3. QED
        BY <3>1, <4>1, <4>2
    <3>3. cb[i + 1] = cb[i] + HeadLength + Len(b[i + 1].data)
      BY <1>3, <3>1
    <3>4. c[m + i] = ca[m] + cb[i]
      BY <2>3, <3>1
    <3>5. cb[i] \in Nat /\ Len(b[i + 1].data) \in Nat
      BY <1>5, <2>1, <3>1
    <3>6. ASSUME NEW x \in Nat, NEW y \in Nat, NEW z \in Nat
          PROVE  (x + y) + HeadLength + z = x + (y + HeadLength + z)
      BY DEF HeadLength
    <3>7. (ca[m] + cb[i]) + HeadLength + Len(b[i + 1].data)
            = ca[m] + (cb[i] + HeadLength + Len(b[i + 1].data))
      BY ONLY <2>1, <3>5, <3>6
    <3>8. QED
      BY ONLY <3>2, <3>3, <3>4, <3>7
  <2>4. n \in T
    <3> HIDE DEF T
    <3>1. QED
      BY <1>1, <2>2, <2>3, NatSetInduction
  <2>5. QED
    BY <1>1, <2>4
<1>9. QED
  BY <1>6, <1>8

-----------------------------------------------------------------------------
(* What the Decode functions return                                        *)

\* No packet ends at p: the header or the payload is not all there.
Cut(s, p) == ~HeaderAt(s, p) \/ NextAt(s, p) > Len(s)

\* Behind a whole packet.
LEMMA NextAtRange ==
    ASSUME NEW s \in Seq(Nat), NEW p \in Nat, ~Cut(s, p)
    PROVE  /\ NextAt(s, p) \in p + HeadLength .. Len(s)
           /\ NextAt(s, p) \in p + 1 .. Len(s)
           /\ NextAt(s, p) \in 0 .. Len(s)
           /\ PacketAt(s, p) \in Packet
<1>1. Len(s) \in Nat
  BY LenProperties
<1>2. HeaderAt(s, p) /\ ~(NextAt(s, p) > Len(s))
  BY DEF Cut
<1>3. NextAt(s, p) \in Nat /\ SizeAt(s, p) \in Nat
  BY <1>2, Header
<1>4. NextAt(s, p) <= Len(s)
  BY <1>1, <1>2, <1>3
<1>5. PacketAt(s, p) \in Packet
  BY <1>2, <1>4, CutPacket DEF Packet
<1>6. QED
  BY <1>1, <1>3, <1>4, <1>5 DEF NextAt, HeadLength

\* What CppDecode finds from a position on.
LEMMA CppDecodeFromDef ==
    ASSUME NEW s \in Seq(Nat)
    PROVE  \A p \in 0 .. Len(s) :
               /\ CppDecodeFrom(s)[p] \in Seq(Packet)
               /\ Cut(s, p) => CppDecodeFrom(s)[p] = <<>>
               /\ ~Cut(s, p) =>
                     CppDecodeFrom(s)[p] = <<PacketAt(s, p)>> \o CppDecodeFrom(s)[NextAt(s, p)]
<1> DEFINE n    == Len(s)
           V    == Seq(Packet)
           C    == {p \in 0 .. n : Cut(s, p)}
           W    == (0 .. n) \ C
           next == [p \in W |-> NextAt(s, p)]
           last == [p \in C |-> <<>>]
           step == [p \in W |-> [v \in V |-> <<PacketAt(s, p)>> \o v]]
<1>1. n \in Nat
  BY LenProperties
<1>2. ASSUME NEW p \in W
      PROVE  /\ NextAt(s, p) \in 0 .. n /\ p < NextAt(s, p)
             /\ NextAt(s, p) \in p + 1 .. n /\ PacketAt(s, p) \in Packet
  <2>1. p \in Nat /\ ~Cut(s, p)
    BY <1>1
  <2>2. NextAt(s, p) \in p + 1 .. n /\ PacketAt(s, p) \in Packet
    BY <2>1, NextAtRange
  <2>3. QED
    BY <1>1, <2>1, <2>2
<1>3. ASSUME NEW x \in Packet, NEW v \in V PROVE <<x>> \o v \in V
  <2>1. <<x>> \in Seq(Packet)
    OBVIOUS
  <2>2. QED
    BY <2>1, ConcatProperties
<1>4. /\ next \in [W -> 0 .. n] /\ \A p \in W : p < next[p]
      /\ last \in [C -> V] /\ step \in [W -> [V -> V]]
  <2>1. next \in [W -> 0 .. n] /\ \A p \in W : p < next[p]
    <3> HIDE DEF W
    <3>1. QED
      BY <1>2
  <2>2. last \in [C -> V]
    <3> HIDE DEF C
    <3>1. QED
      BY EmptySeq
  <2>3. step \in [W -> [V -> V]]
    <3>1. \A p \in W : [v \in V |-> <<PacketAt(s, p)>> \o v] \in [V -> V]
      <4> HIDE DEF W, V
      <4>1. QED
        BY <1>2, <1>3
    <3> HIDE DEF W, V
    <3>2. QED
      BY <3>1
  <2>4. QED
    BY <2>1, <2>2, <2>3
<1>5. C \in SUBSET (0 .. n)
  OBVIOUS
<1>6. PICK u \in [0 .. n -> V] :
         \A p \in 0 .. n : u[p] = IF p \in C THEN last[p] ELSE step[p][u[next[p]]]
  <2> HIDE DEF n, V, C, next, last, step
  <2>1. /\ next \in [(0 .. n) \ C -> 0 .. n] /\ step \in [(0 .. n) \ C -> [V -> V]]
        /\ last \in [C -> V] /\ \A p \in (0 .. n) \ C : p < next[p]
    BY <1>4
  <2> HIDE DEF W
  <2>0. Downward(n, V, C, last, next, step)
    BY ONLY <1>5, <2>1 DEF Downward
  <2>2. \E f \in [0 .. n -> V] :
           \A p \in 0 .. n : f[p] = IF p \in C THEN last[p] ELSE step[p][f[next[p]]]
    BY ONLY <1>1, <2>0, RecursionFromTheEnd
  <2>3. QED
    BY ONLY <2>2
<1>7. u = [p \in 0 .. Len(s) |->
              IF ~HeaderAt(s, p) \/ NextAt(s, p) > Len(s) THEN <<>>
              ELSE <<PacketAt(s, p)>> \o u[NextAt(s, p)]]
  <2>1. ASSUME NEW p \in 0 .. n
        PROVE  u[p] = IF ~HeaderAt(s, p) \/ NextAt(s, p) > Len(s) THEN <<>>
                      ELSE <<PacketAt(s, p)>> \o u[NextAt(s, p)]
    <3>1. CASE Cut(s, p)
      <4>1. p \in C /\ last[p] = <<>>
        BY <3>1
      <4>2. u[p] = <<>>
        BY <1>6, <4>1
      <4>3. QED
        BY <3>1, <4>2 DEF Cut
    <3>2. CASE ~Cut(s, p)
      <4>1. p \notin C /\ p \in W
        BY <3>2
      <4>2. next[p] = NextAt(s, p) /\ NextAt(s, p) \in 0 .. n
        <5> HIDE DEF W
        <5>1. QED
          BY <1>2, <4>1
      <4>3. u[NextAt(s, p)] \in V
        BY <1>6, <4>2
      <4>4. step[p][u[NextAt(s, p)]] = <<PacketAt(s, p)>> \o u[NextAt(s, p)]
        <5> HIDE DEF V, W
        <5>1. QED
          BY <4>1, <4>3
      <4>5. u[p] = <<PacketAt(s, p)>> \o u[NextAt(s, p)]
        <5> HIDE DEF C, step, next, V
        <5>1. QED
          BY ONLY <1>6, <3>2, <4>1, <4>2, <4>4, SMTT(30)
      <4>6. QED
        BY <3>2, <4>5 DEF Cut
    <3>3. QED
      BY <3>1, <3>2
  <2> HIDE DEF V, C, next, last, step
  <2>2. QED
    BY <1>6, <2>1
<1>8. CppDecodeFrom(s) = [p \in 0 .. Len(s) |->
              IF ~HeaderAt(s, p) \/ NextAt(s, p) > Len(s) THEN <<>>
              ELSE <<PacketAt(s, p)>> \o CppDecodeFrom(s)[NextAt(s, p)]]
  BY <1>7 DEF CppDecodeFrom
<1> DEFINE f == CppDecodeFrom(s)
<1>9. \A p \in 0 .. n : /\ Cut(s, p) => f[p] = <<>>
                        /\ ~Cut(s, p) => f[p] = <<PacketAt(s, p)>> \o f[NextAt(s, p)]
  <2> HIDE DEF f
  <2>1. f = [p \in 0 .. Len(s) |-> IF ~HeaderAt(s, p) \/ NextAt(s, p) > Len(s) THEN <<>>
                                   ELSE <<PacketAt(s, p)>> \o f[NextAt(s, p)]]
    BY <1>8 DEF f
  <2>2. QED
    BY <2>1 DEF Cut
<1>10. \A p \in 0 .. n : f[p] \in V
  <2> DEFINE T == {p \in 0 .. n : f[p] \in V}
  <2>1. ASSUME NEW p \in 0 .. n, \A r \in p + 1 .. n : r \in T PROVE p \in T
    <3> HIDE DEF f
    <3>1. CASE Cut(s, p)
      BY <1>9, <3>1, EmptySeq
    <3>2. CASE ~Cut(s, p)
      <4>1. NextAt(s, p) \in p + 1 .. n /\ PacketAt(s, p) \in Packet
        BY <1>2, <3>2
      <4>2. f[NextAt(s, p)] \in V
        BY <2>1, <4>1
      <4>3. QED
        BY <1>3, <1>9, <3>2, <4>1, <4>2
    <3>3. QED
      BY <3>1, <3>2
  <2>2. 0 .. n \subseteq T
    <3> HIDE DEF T, n
    <3>1. QED
      BY <1>1, <2>1, DownwardInduction
  <2>3. QED
    BY <2>2
<1>11. QED
  BY <1>9, <1>10

\* What Decode returns.
Outcome == [err : BOOLEAN, packets : Seq(Packet)]

Nothing == [err |-> FALSE, packets |-> <<>>]
Failure == [err |-> TRUE,  packets |-> <<>>]

\* What is made of a packet p and of what was decoded behind it.
Behind(p, v) == IF v.err THEN v ELSE [v EXCEPT !.packets = <<p>> \o @]

LEMMA BehindType ==
    ASSUME NEW x \in Packet, NEW v \in Outcome
    PROVE  /\ Behind(x, v) \in Outcome
           /\ Behind(x, v).err = v.err
           /\ v.err => Behind(x, v) = v
           /\ ~v.err => Behind(x, v).packets = <<x>> \o v.packets
<1>1. v = [err |-> v.err, packets |-> v.packets] /\ v.err \in BOOLEAN /\ v.packets \in Seq(Packet)
  BY DEF Outcome
<1>2. <<x>> \o v.packets \in Seq(Packet)
  <2>1. <<x>> \in Seq(Packet)
    OBVIOUS
  <2>2. QED
    BY <1>1, <2>1, ConcatProperties
<1> DEFINE y == <<x>> \o v.packets
<1>3. [v EXCEPT !.packets = <<x>> \o @] = [err |-> v.err, packets |-> y]
  <2>1. [v EXCEPT !.packets = <<x>> \o @] = [v EXCEPT !.packets = y]
    OBVIOUS
  <2> HIDE DEF y
  <2>2. [v EXCEPT !.packets = y] = [err |-> v.err, packets |-> y]
    BY DEF Outcome
  <2>3. QED
    BY <2>1, <2>2
<1>4. CASE v.err
  BY <1>4 DEF Behind
<1>5. CASE ~v.err
  <2>1. Behind(x, v) = [err |-> v.err, packets |-> y]
    BY <1>3, <1>5 DEF Behind
  <2> HIDE DEF y
  <2>2. y \in Seq(Packet)
    BY <1>2 DEF y
  <2>3. Behind(x, v) \in Outcome /\ Behind(x, v).err = v.err /\ Behind(x, v).packets = y
    BY <1>1, <2>1, <2>2 DEF Outcome
  <2>4. QED
    BY <1>5, <2>3 DEF y
<1>6. QED
  BY <1>4, <1>5

\* The type at p is none.
BadType(s, p) == HeaderAt(s, p) /\ s[p + 1] \notin Types

\* What GoDecode finds from a position on.
LEMMA GoDecodeFromDef ==
    ASSUME NEW s \in Seq(Nat)
    PROVE  \A p \in 0 .. Len(s) :
               /\ GoDecodeFrom(s)[p] \in Outcome
               /\ BadType(s, p) => GoDecodeFrom(s)[p] = Failure
               /\ ~BadType(s, p) /\ Cut(s, p) => GoDecodeFrom(s)[p] = Nothing
               /\ ~BadType(s, p) /\ ~Cut(s, p) =>
                     GoDecodeFrom(s)[p] = Behind(PacketAt(s, p), GoDecodeFrom(s)[NextAt(s, p)])
<1> DEFINE n    == Len(s)
           V    == Outcome
           C    == {p \in 0 .. n : BadType(s, p) \/ Cut(s, p)}
           W    == (0 .. n) \ C
           next == [p \in W |-> NextAt(s, p)]
           last == [p \in C |-> IF BadType(s, p) THEN Failure ELSE Nothing]
           step == [p \in W |-> [v \in V |-> Behind(PacketAt(s, p), v)]]
<1>1. n \in Nat
  BY LenProperties
<1>2. ASSUME NEW p \in W
      PROVE  /\ NextAt(s, p) \in 0 .. n /\ p < NextAt(s, p)
             /\ NextAt(s, p) \in p + 1 .. n /\ PacketAt(s, p) \in Packet
  <2>1. p \in Nat /\ ~Cut(s, p)
    BY <1>1
  <2>2. NextAt(s, p) \in p + 1 .. n /\ PacketAt(s, p) \in Packet
    BY <2>1, NextAtRange
  <2>3. QED
    BY <1>1, <2>1, <2>2
<1>3. Failure \in V /\ Nothing \in V
  BY EmptySeq DEF Failure, Nothing, Outcome
<1>4. /\ next \in [W -> 0 .. n] /\ \A p \in W : p < next[p]
      /\ last \in [C -> V] /\ step \in [W -> [V -> V]]
  <2>1. next \in [W -> 0 .. n] /\ \A p \in W : p < next[p]
    <3> HIDE DEF W
    <3>1. QED
      BY <1>2
  <2>2. last \in [C -> V]
    <3> HIDE DEF C, V
    <3>1. QED
      BY <1>3
  <2>3. step \in [W -> [V -> V]]
    <3>1. \A p \in W : [v \in V |-> Behind(PacketAt(s, p), v)] \in [V -> V]
      <4>1. \A p \in W : PacketAt(s, p) \in Packet
        <5> HIDE DEF W
        <5>1. QED
          BY <1>2
      <4>2. \A x \in Packet, v \in V : Behind(x, v) \in V
        BY BehindType
      <4> HIDE DEF W, V
      <4>3. QED
        BY <4>1, <4>2
    <3> HIDE DEF W, V
    <3>2. QED
      BY <3>1
  <2>4. QED
    BY <2>1, <2>2, <2>3
<1>5. C \in SUBSET (0 .. n)
  OBVIOUS
<1>6. PICK u \in [0 .. n -> V] :
         \A p \in 0 .. n : u[p] = IF p \in C THEN last[p] ELSE step[p][u[next[p]]]
  <2> HIDE DEF n, V, C, next, last, step
  <2>1. /\ next \in [(0 .. n) \ C -> 0 .. n] /\ step \in [(0 .. n) \ C -> [V -> V]]
        /\ last \in [C -> V] /\ \A p \in (0 .. n) \ C : p < next[p]
    BY <1>4
  <2> HIDE DEF W
  <2>2. Downward(n, V, C, last, next, step)
    BY ONLY <1>5, <2>1 DEF Downward
  <2>3. \E f \in [0 .. n -> V] :
           \A p \in 0 .. n : f[p] = IF p \in C THEN last[p] ELSE step[p][f[next[p]]]
    BY ONLY <1>1, <2>2, RecursionFromTheEnd
  <2>4. QED
    BY ONLY <2>3
<1>7. u = [p \in 0 .. Len(s) |->
              IF ~HeaderAt(s, p) THEN [err |-> FALSE, packets |-> <<>>]
              ELSE IF s[p + 1] \notin Types THEN [err |-> TRUE, packets |-> <<>>]
              ELSE IF NextAt(s, p) > Len(s) THEN [err |-> FALSE, packets |-> <<>>]
              ELSE IF u[NextAt(s, p)].err THEN u[NextAt(s, p)]
                   ELSE [u[NextAt(s, p)] EXCEPT !.packets = <<PacketAt(s, p)>> \o @]]
  <2>1. ASSUME NEW p \in 0 .. n
        PROVE  u[p] = IF ~HeaderAt(s, p) THEN [err |-> FALSE, packets |-> <<>>]
                      ELSE IF s[p + 1] \notin Types THEN [err |-> TRUE, packets |-> <<>>]
                      ELSE IF NextAt(s, p) > Len(s) THEN [err |-> FALSE, packets |-> <<>>]
                      ELSE IF u[NextAt(s, p)].err THEN u[NextAt(s, p)]
                           ELSE [u[NextAt(s, p)] EXCEPT !.packets = <<PacketAt(s, p)>> \o @]
    <3>1. CASE p \in C
      <4>1. u[p] = IF BadType(s, p) THEN Failure ELSE Nothing
        <5>1. last[p] = IF BadType(s, p) THEN Failure ELSE Nothing
          <6> HIDE DEF C
          <6>1. QED
            BY <3>1
        <5> HIDE DEF C, last
        <5>2. QED
          BY <1>6, <3>1, <5>1
      <4>2. QED
        BY <3>1, <4>1 DEF Cut, BadType, Failure, Nothing
    <3>2. CASE p \notin C
      <4>1. p \in W
        BY <3>2
      <4>2. next[p] = NextAt(s, p) /\ NextAt(s, p) \in 0 .. n
        <5> HIDE DEF W
        <5>1. QED
          BY <1>2, <4>1
      <4>3. u[NextAt(s, p)] \in V
        BY <1>6, <4>2
      <4>4. step[p][u[NextAt(s, p)]] = Behind(PacketAt(s, p), u[NextAt(s, p)])
        <5> HIDE DEF V, W
        <5>1. QED
          BY <4>1, <4>3
      <4>5. u[p] = Behind(PacketAt(s, p), u[NextAt(s, p)])
        <5> HIDE DEF C, step, next, V
        <5>1. QED
          BY <1>6, <3>2, <4>2, <4>4
      <4>6. HeaderAt(s, p) /\ ~(s[p + 1] \notin Types) /\ ~(NextAt(s, p) > Len(s))
        BY ONLY <3>2 DEF Cut, BadType
      <4>7. QED
        BY <4>5, <4>6 DEF Behind
    <3>3. QED
      BY <3>1, <3>2
  <2> HIDE DEF V, C, next, last, step
  <2>2. QED
    BY <1>6, <2>1
<1>8. GoDecodeFrom(s) = [p \in 0 .. Len(s) |->
              IF ~HeaderAt(s, p) THEN [err |-> FALSE, packets |-> <<>>]
              ELSE IF s[p + 1] \notin Types THEN [err |-> TRUE, packets |-> <<>>]
              ELSE IF NextAt(s, p) > Len(s) THEN [err |-> FALSE, packets |-> <<>>]
              ELSE IF GoDecodeFrom(s)[NextAt(s, p)].err THEN GoDecodeFrom(s)[NextAt(s, p)]
                   ELSE [GoDecodeFrom(s)[NextAt(s, p)] EXCEPT
                            !.packets = <<PacketAt(s, p)>> \o @]]
  BY <1>7, ZenonT(30) DEF GoDecodeFrom
<1> DEFINE f == GoDecodeFrom(s)
<1>9. \A p \in 0 .. n :
          /\ BadType(s, p) => f[p] = Failure
          /\ ~BadType(s, p) /\ Cut(s, p) => f[p] = Nothing
          /\ ~BadType(s, p) /\ ~Cut(s, p) => f[p] = Behind(PacketAt(s, p), f[NextAt(s, p)])
  <2> HIDE DEF f
  <2>1. f = [p \in 0 .. Len(s) |->
              IF ~HeaderAt(s, p) THEN [err |-> FALSE, packets |-> <<>>]
              ELSE IF s[p + 1] \notin Types THEN [err |-> TRUE, packets |-> <<>>]
              ELSE IF NextAt(s, p) > Len(s) THEN [err |-> FALSE, packets |-> <<>>]
              ELSE IF f[NextAt(s, p)].err THEN f[NextAt(s, p)]
                   ELSE [f[NextAt(s, p)] EXCEPT !.packets = <<PacketAt(s, p)>> \o @]]
    BY <1>8 DEF f
  <2>2. QED
    BY <2>1 DEF Cut, BadType, Failure, Nothing, Behind
<1>10. \A p \in 0 .. n : f[p] \in V
  <2> DEFINE T == {p \in 0 .. n : f[p] \in V}
  <2>1. ASSUME NEW p \in 0 .. n, \A r \in p + 1 .. n : r \in T PROVE p \in T
    <3> HIDE DEF f
    <3>1. CASE p \in C
      <4> HIDE DEF V
      <4>1. QED
        BY <1>3, <1>9, <3>1
    <3>2. CASE p \notin C
      <4>1. NextAt(s, p) \in p + 1 .. n /\ PacketAt(s, p) \in Packet
        BY <1>2, <3>2
      <4>2. f[NextAt(s, p)] \in Outcome
        BY <2>1, <4>1
      <4>3. Behind(PacketAt(s, p), f[NextAt(s, p)]) \in Outcome
        BY <4>1, <4>2, BehindType
      <4>4. f[p] = Behind(PacketAt(s, p), f[NextAt(s, p)])
        BY <1>9, <3>2
      <4>5. QED
        BY <4>3, <4>4
    <3>3. QED
      BY <3>1, <3>2
  <2>2. 0 .. n \subseteq T
    <3> HIDE DEF T, n
    <3>1. QED
      BY <1>1, <2>1, DownwardInduction
  <2>3. QED
    BY <2>2
<1>11. QED
  BY <1>9, <1>10

\* The bytes of a whole packet end where the next one starts.
LEMMA ConsumedAt ==
    ASSUME NEW s \in Seq(Nat), NEW p \in Nat, ~Cut(s, p)
    PROVE  /\ PacketAt(s, p) \in Packet
           /\ <<PacketAt(s, p)>> \in Seq(Packet)
           /\ Consumed(<<PacketAt(s, p)>>) = HeadLength + Len(PacketAt(s, p).data)
           /\ NextAt(s, p) = p + Consumed(<<PacketAt(s, p)>>)
<1>1. Len(s) \in Nat
  BY LenProperties
<1>2. HeaderAt(s, p) /\ ~(NextAt(s, p) > Len(s))
  BY DEF Cut
<1>3. NextAt(s, p) \in Nat /\ NextAt(s, p) = p + HeadLength + SizeAt(s, p) /\ SizeAt(s, p) \in Nat
  BY <1>2, Header
<1>4. NextAt(s, p) <= Len(s)
  BY <1>1, <1>2, <1>3
<1>5. PacketAt(s, p) \in Packet /\ Len(PacketAt(s, p).data) = SizeAt(s, p)
  BY <1>2, <1>4, CutPacket DEF Packet
<1>6. /\ <<PacketAt(s, p)>> \in Seq(Packet)
      /\ Consumed(<<PacketAt(s, p)>>) = HeadLength + Len(PacketAt(s, p).data)
  BY <1>5, ConsumedOne
<1>7. QED
  BY <1>3, <1>5, <1>6 DEF HeadLength

\* Neither codec takes more bytes than there are.
LEMMA CppConsumes ==
    ASSUME NEW s \in Seq(Nat)
    PROVE  \A p \in 0 .. Len(s) : p + Consumed(CppDecodeFrom(s)[p]) <= Len(s)
<1> DEFINE n == Len(s)
           f == CppDecodeFrom(s)
           T == {p \in 0 .. n : p + Consumed(f[p]) <= n}
<1>1. n \in Nat
  BY LenProperties
<1>2. ASSUME NEW p \in 0 .. n, \A r \in p + 1 .. n : r \in T PROVE p \in T
  <2>1. CASE Cut(s, p)
    <3>1. f[p] = <<>>
      BY <2>1, CppDecodeFromDef
    <3>2. QED
      BY <1>1, <3>1, ConsumedNone
  <2>2. CASE ~Cut(s, p)
    <3> DEFINE x == PacketAt(s, p)
               r == NextAt(s, p)
    <3>1. /\ r \in p + 1 .. n /\ r = p + Consumed(<<x>>)
          /\ <<x>> \in Seq(Packet) /\ p \in Nat /\ r \in 0 .. n
      BY <1>1, <2>2, ConsumedAt, NextAtRange
    <3>2. f[p] = <<x>> \o f[r] /\ f[r] \in Seq(Packet)
      BY <2>2, <3>1, CppDecodeFromDef
    <3>3. r + Consumed(f[r]) <= n
      BY <1>2, <3>1
    <3> HIDE DEF x, r, f
    <3>4. Consumed(f[p]) = Consumed(<<x>>) + Consumed(f[r])
      BY <3>1, <3>2, ConsumedConcat
    <3>5. Consumed(<<x>>) \in Nat /\ Consumed(f[r]) \in Nat
      BY <3>1, <3>2, ConsumedNat
    <3>6. QED
      BY <1>1, <3>1, <3>3, <3>4, <3>5
  <2>3. QED
    BY <2>1, <2>2
<1>3. 0 .. n \subseteq T
  <2> HIDE DEF T, n
  <2>1. QED
    BY <1>1, <1>2, DownwardInduction
<1>4. QED
  BY <1>3

\* The Go codec stops where no whole packet follows; when it fails it has no packets.
LEMMA GoConsumes ==
    ASSUME NEW s \in Seq(Nat)
    PROVE  \A p \in 0 .. Len(s) :
               LET d == GoDecodeFrom(s)[p]
               IN  /\ p + Consumed(d.packets) <= Len(s)
                   /\ d.err => d.packets = <<>>
                   /\ ~d.err => /\ Cut(s, p + Consumed(d.packets))
                                /\ ~BadType(s, p + Consumed(d.packets))
<1> DEFINE n    == Len(s)
           f    == GoDecodeFrom(s)
           G(p) == /\ p + Consumed(f[p].packets) <= n
                   /\ f[p].err => f[p].packets = <<>>
                   /\ ~f[p].err => /\ Cut(s, p + Consumed(f[p].packets))
                                   /\ ~BadType(s, p + Consumed(f[p].packets))
           T    == {p \in 0 .. n : G(p)}
<1>1. n \in Nat
  BY LenProperties
<1>2. ASSUME NEW p \in 0 .. n, \A r \in p + 1 .. n : r \in T PROVE p \in T
  <2>0. p \in Nat
    BY <1>1
  <2>1. CASE BadType(s, p)
    <3>1. f[p] = Failure
      BY <2>1, GoDecodeFromDef
    <3> HIDE DEF f
    <3>2. f[p].err /\ f[p].packets = <<>> /\ Consumed(f[p].packets) = 0
      BY <3>1, ConsumedNone DEF Failure
    <3>3. p + Consumed(f[p].packets) <= n
      BY <1>1, <3>2
    <3>4. QED
      BY <3>2, <3>3
  <2>2. CASE ~BadType(s, p) /\ Cut(s, p)
    <3>1. f[p] = Nothing
      BY <2>2, GoDecodeFromDef
    <3> HIDE DEF f
    <3>2. ~f[p].err /\ f[p].packets = <<>> /\ Consumed(f[p].packets) = 0
      BY <3>1, ConsumedNone DEF Nothing
    <3>3. p + Consumed(f[p].packets) <= n /\ p + Consumed(f[p].packets) = p
      BY <1>1, <3>2
    <3>4. QED
      BY <2>2, <3>2, <3>3
  <2>3. CASE ~BadType(s, p) /\ ~Cut(s, p)
    <3> DEFINE x == PacketAt(s, p)
               r == NextAt(s, p)
               v == f[r]
    <3>1. /\ r \in p + 1 .. n /\ r = p + Consumed(<<x>>)
          /\ x \in Packet /\ <<x>> \in Seq(Packet) /\ r \in 0 .. n
      BY <1>1, <2>0, <2>3, ConsumedAt, NextAtRange
    <3>2. f[p] = Behind(x, v) /\ v \in Outcome
      BY <2>3, <3>1, GoDecodeFromDef
    <3>3. G(r)
      BY <1>2, <3>1
    <3> HIDE DEF x, r, f
    <3>4. /\ f[p].err = v.err
          /\ v.err => f[p] = v
          /\ ~v.err => f[p].packets = <<x>> \o v.packets
      <4> HIDE DEF v
      <4>1. /\ Behind(x, v).err = v.err
            /\ v.err => Behind(x, v) = v
            /\ ~v.err => Behind(x, v).packets = <<x>> \o v.packets
        BY <3>1, <3>2, BehindType
      <4>2. QED
        BY <3>2, <4>1, Zenon
    <3>5. CASE v.err
      <4>1. f[p].packets = <<>> /\ Consumed(f[p].packets) = 0 /\ f[p].err
        BY <3>3, <3>4, <3>5, ConsumedNone
      <4>2. p + Consumed(f[p].packets) <= n
        BY <1>1, <4>1
      <4>3. QED
        BY <4>1, <4>2
    <3>6. CASE ~v.err
      <4>1. v.packets \in Seq(Packet)
        BY <3>2 DEF Outcome
      <4>2. Consumed(f[p].packets) = Consumed(<<x>>) + Consumed(v.packets)
        BY <3>1, <3>4, <3>6, <4>1, ConsumedConcat
      <4>3. Consumed(<<x>>) \in Nat /\ Consumed(v.packets) \in Nat
        BY <3>1, <4>1, ConsumedNat
      <4>4. p + Consumed(f[p].packets) = r + Consumed(v.packets)
        BY <1>1, <3>1, <4>2, <4>3
      <4>5. ~f[p].err
        BY <3>4, <3>6
      <4>6. QED
        BY <3>3, <3>6, <4>4, <4>5
    <3>7. QED
      BY <3>5, <3>6
  <2>4. QED
    BY <2>1, <2>2, <2>3
<1>3. 0 .. n \subseteq T
  <2> HIDE DEF T, n
  <2>1. QED
    BY <1>1, <1>2, DownwardInduction
<1>4. QED
  BY <1>3

\* Decode goes on failing at bytes it has failed at, whatever comes behind them.
LEMMA FailureStays ==
    ASSUME NEW s \in Seq(Nat), NEW t \in Seq(Nat)
    PROVE  GoDecode(s).err => GoDecode(s \o t).err
<1> DEFINE n == Len(s)
           f == GoDecodeFrom(s)
           g == GoDecodeFrom(s \o t)
           T == {p \in 0 .. n : f[p].err => g[p].err}
<1>1. /\ n \in Nat /\ s \o t \in Seq(Nat) /\ Len(s \o t) = n + Len(t) /\ Len(t) \in Nat
  BY LenProperties, ConcatProperties
<1>2. ASSUME NEW p \in 0 .. n, \A r \in p + 1 .. n : r \in T, f[p].err PROVE g[p].err
  <2>0. p \in Nat /\ p \in 0 .. Len(s \o t)
    BY <1>1
  <2>1. CASE BadType(s, p)
    <3>1. BadType(s \o t, p)
      BY <2>0, <2>1, FrontStays DEF BadType
    <3>2. g[p] = Failure
      BY <1>1, <2>0, <3>1, GoDecodeFromDef
    <3>3. QED
      BY <3>2 DEF Failure
  <2>2. CASE ~BadType(s, p) /\ Cut(s, p)
    <3>1. f[p] = Nothing
      BY <2>2, GoDecodeFromDef
    <3>2. QED
      BY <1>2, <3>1 DEF Nothing
  <2>3. CASE ~BadType(s, p) /\ ~Cut(s, p)
    <3> DEFINE x == PacketAt(s, p)
               r == NextAt(s, p)
    <3>1. r \in p + 1 .. n /\ x \in Packet /\ r \in 0 .. n /\ r \in 0 .. Len(s \o t)
      <4>1. r \in p + 1 .. n /\ x \in Packet
        BY <1>1, <2>0, <2>3, NextAtRange
      <4>2. QED
        BY <1>1, <4>1
    <3>2. HeaderAt(s, p)
      BY <2>3 DEF Cut
    <3>3. /\ HeaderAt(s \o t, p) /\ (s \o t)[p + 1] = s[p + 1] /\ NextAt(s \o t, p) = r
          /\ PacketAt(s \o t, p) = x
      <4>1. NextAt(s, p) <= Len(s)
        BY <1>1, <3>1
      <4>2. QED
        BY <2>0, <3>2, <4>1, FrontStays
    <3>4. ~BadType(s \o t, p)
      BY <2>3, <3>2, <3>3 DEF BadType
    <3>5. ~Cut(s \o t, p)
      BY <1>1, <3>1, <3>3 DEF Cut
    <3>6. f[p] = Behind(x, f[r]) /\ f[r] \in Outcome
      BY <2>3, <3>1, GoDecodeFromDef
    <3>7. g[p] = Behind(x, g[r]) /\ g[r] \in Outcome
      BY <1>1, <2>0, <3>1, <3>3, <3>4, <3>5, GoDecodeFromDef
    <3> HIDE DEF x, f, g
    <3>8. f[p].err = f[r].err /\ g[p].err = g[r].err
      BY <3>1, <3>6, <3>7, BehindType, ZenonT(30)
    <3>9. r \in T
      BY <1>2, <3>1
    <3>10. QED
      BY <1>2, <3>8, <3>9
  <2>4. QED
    BY <2>1, <2>2, <2>3
<1>3. 0 .. n \subseteq T
  <2>1. ASSUME NEW p \in 0 .. n, \A r \in p + 1 .. n : r \in T PROVE p \in T
    BY <1>2, <2>1
  <2> HIDE DEF T, n
  <2>2. QED
    BY <1>1, <2>1, DownwardInduction
<1>4. 0 \in T
  BY <1>1, <1>3
<1>5. QED
  BY <1>4 DEF GoDecode

-----------------------------------------------------------------------------
(* What they leave                                                         *)

\* Dropping nothing.
LEMMA DropNone ==
    ASSUME NEW s \in Seq(Nat)
    PROVE  Drop(s, 0) = s
<1>1. Len(s) \in Nat /\ Len(s) \in 0 .. Len(s)
  BY LenProperties
<1>2. /\ Drop(s, 0) \in Seq(Nat) /\ Len(Drop(s, 0)) = Len(s)
      /\ \A i \in 1 .. Len(s) : Drop(s, 0)[i] = s[i]
  <2>1. /\ SubSeq(s, 0 + 1, Len(s)) \in Seq(Nat)
        /\ Len(SubSeq(s, 0 + 1, Len(s))) = IF 0 <= Len(s) THEN Len(s) - 0 ELSE 0
        /\ \A i \in 1 .. Len(s) - 0 : SubSeq(s, 0 + 1, Len(s))[i] = s[0 + i]
    BY <1>1, Part
  <2>2. QED
    BY <1>1, <2>1 DEF Drop
<1>3. QED
  BY <1>2, SeqEqual

\* What readPackets of client.go is left with: the packets and the remainder fit into
\* the bytes there were, and no whole packet is left in the remainder.
LEMMA GoRemainder ==
    ASSUME NEW s \in Seq(Nat)
    PROVE  LET ps   == GoDecode(s).packets
               rest == Drop(s, Consumed(ps))
           IN  /\ ps \in Seq(Packet) /\ rest \in Seq(Nat)
               /\ Consumed(ps) \in Nat /\ Consumed(ps) + Len(rest) = Len(s)
               /\ GoDecode(rest).packets = <<>>
               /\ GoDecode(s).err => ps = <<>> /\ rest = s
<1> DEFINE d    == GoDecode(s)
           ps   == d.packets
           e    == Consumed(ps)
           rest == Drop(s, e)
<1>1. Len(s) \in Nat /\ 0 \in 0 .. Len(s)
  BY LenProperties
<1>2. d \in Outcome
  BY <1>1, GoDecodeFromDef DEF GoDecode
<1>3. /\ 0 + e <= Len(s)
      /\ d.err => ps = <<>>
      /\ ~d.err => Cut(s, 0 + e) /\ ~BadType(s, 0 + e)
  BY <1>1, GoConsumes DEF GoDecode
<1> HIDE DEF d
<1>4. ps \in Seq(Packet) /\ e \in Nat
  BY <1>2, ConsumedNat DEF Outcome
<1> HIDE DEF ps, e
<1>5. e \in 0 .. Len(s) /\ 0 + e = e /\ e + 0 = e
  BY <1>1, <1>3, <1>4
<1>6. /\ rest \in Seq(Nat) /\ Len(rest) = Len(s) - e
      /\ HeaderAt(rest, 0) <=> HeaderAt(s, e)
      /\ HeaderAt(s, e) => /\ rest[0 + 1] = s[e + 1]
                           /\ NextAt(rest, 0) = NextAt(s, e) - e
  <2>1. /\ Drop(s, e) \in Seq(Nat) /\ Len(Drop(s, e)) = Len(s) - e
        /\ HeaderAt(Drop(s, e), 0) <=> HeaderAt(s, e + 0)
        /\ HeaderAt(s, e + 0) =>
              /\ Drop(s, e)[0 + 1] = s[e + 0 + 1]
              /\ NextAt(Drop(s, e), 0) = NextAt(s, e + 0) - e
    <3>1. \A p \in Nat :
             /\ Drop(s, e) \in Seq(Nat) /\ Len(Drop(s, e)) = Len(s) - e
             /\ HeaderAt(Drop(s, e), p) <=> HeaderAt(s, e + p)
             /\ HeaderAt(s, e + p) =>
                   /\ Drop(s, e)[p + 1] = s[e + p + 1]
                   /\ NextAt(Drop(s, e), p) = NextAt(s, e + p) - e
      BY <1>5, FrontDropped
    <3>2. 0 \in Nat
      OBVIOUS
    <3>3. QED
      BY ONLY <3>1, <3>2
  <2>2. e + 0 = e /\ e + 0 + 1 = e + 1
    BY <1>5
  <2>3. QED
    BY <2>1, <2>2
<1> HIDE DEF rest
<1>7. 0 \in 0 .. Len(rest) /\ Len(rest) \in Nat
  BY <1>1, <1>5, <1>6
<1>8. CASE ~d.err
  <2>1. Cut(s, e) /\ ~BadType(s, e)
    BY <1>3, <1>5, <1>8
  <2>2. Cut(rest, 0) /\ ~BadType(rest, 0)
    <3>1. CASE ~HeaderAt(s, e)
      BY <1>6, <3>1 DEF Cut, BadType
    <3>2. CASE HeaderAt(s, e)
      <4>1. NextAt(s, e) > Len(s) /\ s[e + 1] \in Types
        BY <2>1, <3>2 DEF Cut, BadType
      <4>2. NextAt(s, e) \in Nat
        BY <1>4, <3>2, Header
      <4>3. NextAt(rest, 0) > Len(rest)
        BY <1>1, <1>4, <1>6, <3>2, <4>1, <4>2
      <4>4. rest[0 + 1] \in Types
        BY <1>6, <3>2, <4>1
      <4>5. QED
        BY <1>6, <4>3, <4>4 DEF Cut, BadType
    <3>3. QED
      BY <3>1, <3>2
  <2>3. GoDecode(rest) = Nothing
    BY <1>6, <1>7, <2>2, GoDecodeFromDef DEF GoDecode
  <2>4. GoDecode(rest).packets = <<>>
    BY <2>3 DEF Nothing
  <2>5. QED
    BY <1>1, <1>4, <1>5, <1>6, <1>8, <2>4 DEF rest, e, ps, d
<1>9. CASE d.err
  <2>1. ps = <<>> /\ e = 0
    BY <1>3, <1>9, ConsumedNone DEF e
  <2>2. rest = s
    BY <2>1, DropNone DEF rest
  <2>3. GoDecode(rest).packets = <<>>
    BY <2>1, <2>2 DEF ps, d
  <2>4. /\ ps \in Seq(Packet) /\ rest \in Seq(Nat) /\ e \in Nat /\ e + Len(rest) = Len(s)
        /\ GoDecode(rest).packets = <<>>
        /\ d.err => ps = <<>> /\ rest = s
    BY <1>1, <1>4, <1>5, <1>6, <2>1, <2>2, <2>3
  <2>5. QED
    BY <2>4 DEF rest, e, ps, d
<1>10. QED
  BY <1>8, <1>9

\* What readPackets of client.cpp is left with.
LEMMA CppRemainder ==
    ASSUME NEW s \in Seq(Nat)
    PROVE  LET ps   == CppDecode(s)
               rest == Drop(s, Consumed(ps))
           IN  /\ ps \in Seq(Packet) /\ rest \in Seq(Nat)
               /\ Consumed(ps) \in Nat /\ Consumed(ps) + Len(rest) = Len(s)
<1> DEFINE ps == CppDecode(s)
           e  == Consumed(ps)
<1>1. Len(s) \in Nat /\ 0 \in 0 .. Len(s)
  BY LenProperties
<1>2. ps \in Seq(Packet) /\ 0 + e <= Len(s)
  BY <1>1, CppDecodeFromDef, CppConsumes DEF CppDecode
<1>3. e \in Nat
  BY <1>2, ConsumedNat
<1> HIDE DEF ps, e
<1>4. e \in 0 .. Len(s)
  BY <1>1, <1>2, <1>3
<1>5. Drop(s, e) \in Seq(Nat) /\ Len(Drop(s, e)) = Len(s) - e
  BY <1>4, FrontDropped
<1>6. QED
  BY <1>1, <1>2, <1>3, <1>5 DEF ps, e

\* The first packet of some, and its bytes.
LEMMA ConsumedFirst ==
    ASSUME NEW ps \in Seq(Packet), ps # <<>>
    PROVE  /\ ps[1] \in Packet /\ <<ps[1]>> \in Seq(Packet)
           /\ Consumed(<<ps[1]>>) \in Nat /\ Consumed(ps) \in Nat
           /\ Consumed(<<ps[1]>>) <= Consumed(ps)
<1> DEFINE t == Tail(ps)
           h == <<ps[1]>>
<1>1. Len(ps) \in Nat /\ Len(ps) # 0 /\ 1 \in 1 .. Len(ps)
  BY LenProperties, EmptySeq
<1>2. ps[1] \in Packet
  BY <1>1, ElementOfSeq
<1>3. /\ t \in Seq(Packet) /\ Len(t) = Len(ps) - 1
      /\ \A i \in 1 .. Len(ps) - 1 : t[i] = ps[i + 1]
  BY HeadTailProperties
<1>4. h \in Seq(Packet) /\ Len(h) = 1 /\ h[1] = ps[1]
  BY <1>2
<1> HIDE DEF t, h
<1>5. /\ h \o t \in Seq(Packet) /\ Len(h \o t) = Len(h) + Len(t)
      /\ \A i \in 1 .. Len(h) + Len(t) :
            (h \o t)[i] = IF i <= Len(h) THEN h[i] ELSE t[i - Len(h)]
  <2>1. h \in Seq(Packet) /\ t \in Seq(Packet)
    BY <1>3, <1>4
  <2>2. QED
    BY ONLY <2>1, ConcatProperties
<1>6. ASSUME NEW i \in 1 .. Len(ps) PROVE (h \o t)[i] = ps[i]
  <2>1. CASE i = 1
    BY <1>1, <1>3, <1>4, <1>5, <2>1
  <2>2. CASE i # 1
    <3>1. i - 1 \in 1 .. Len(ps) - 1 /\ (i - 1) + 1 = i /\ i \in 1 .. Len(h) + Len(t) /\ ~(i <= Len(h))
      BY <1>1, <1>3, <1>4, <2>2
    <3>2. QED
      BY <1>3, <1>4, <1>5, <3>1
  <2>3. QED
    BY <2>1, <2>2
<1>7. h \o t = ps
  <2>1. Len(h \o t) = Len(ps)
    BY <1>1, <1>3, <1>4, <1>5
  <2>2. QED
    BY <1>5, <1>6, <2>1, SeqEqual
<1>8. Consumed(ps) = Consumed(h) + Consumed(t)
  BY <1>3, <1>4, <1>7, ConsumedConcat
<1>9. Consumed(h) \in Nat /\ Consumed(t) \in Nat
  BY <1>3, <1>4, ConsumedNat
<1>10. QED
  BY <1>2, <1>4, <1>8, <1>9 DEF h

-----------------------------------------------------------------------------
(* What Encode wrote                                                       *)

\* The digits of a length.
LEMMA ThreeBytes ==
    ASSUME NEW n \in Nat
    PROVE  /\ IntToBytes(n) \in Seq(Nat) /\ Len(IntToBytes(n)) = 3
<1> DEFINE a == (n \div (Radix * Radix)) % Radix
           b == (n \div Radix) % Radix
           c == n % Radix
<1>1. Radix \in Nat \ {0} /\ Radix * Radix \in Nat \ {0}
  BY RadixAssumption
<1>2. n \div (Radix * Radix) \in Nat /\ n \div Radix \in Nat
  BY <1>1, DivMod
<1>3. a \in Nat /\ b \in Nat /\ c \in Nat
  BY <1>1, <1>2, DivMod
<1>4. IntToBytes(n) = <<a, b, c>>
  BY DEF IntToBytes
<1> HIDE DEF a, b, c
<1>5. QED
  BY <1>3, <1>4

\* The bytes Encode writes, one by one.
LEMMA EncodeBytes ==
    ASSUME NEW q \in Packet
    PROVE  LET E == Encode(q.type, q.data)
               I == IntToBytes(Len(q.data))
           IN  /\ E \in Seq(Nat) /\ Len(E) = 4 + Len(q.data)
               /\ E[1] = q.type
               /\ \A j \in 1 .. 3 : E[1 + j] = I[j]
               /\ \A j \in 1 .. Len(q.data) : E[4 + j] = q.data[j]
<1> DEFINE d == q.data
           I == IntToBytes(Len(d))
           h == <<q.type>>
           hi == h \o I
           E == hi \o d
<1>1. q.type \in Nat /\ d \in Seq(Nat) /\ Len(d) \in Nat
  BY LenProperties DEF Packet
<1>2. I \in Seq(Nat) /\ Len(I) = 3
  BY <1>1, ThreeBytes
<1>3. h \in Seq(Nat) /\ Len(h) = 1 /\ h[1] = q.type
  BY <1>1
<1>4. Encode(q.type, q.data) = E
  BY DEF Encode
<1> HIDE DEF d, I, h
<1>5. /\ hi \in Seq(Nat) /\ Len(hi) = Len(h) + Len(I)
      /\ \A i \in 1 .. Len(h) + Len(I) : hi[i] = IF i <= Len(h) THEN h[i] ELSE I[i - Len(h)]
  <2>1. h \in Seq(Nat) /\ I \in Seq(Nat)
    BY <1>2, <1>3
  <2>2. QED
    BY ONLY <2>1, ConcatProperties
<1>6. /\ Len(hi) = 4 /\ hi[1] = q.type
      /\ \A j \in 1 .. 3 : hi[1 + j] = I[j]
  <2>1. \A j \in 1 .. 3 : 1 + j \in 1 .. 1 + 3 /\ ~(1 + j <= 1) /\ (1 + j) - 1 = j
    OBVIOUS
  <2>2. 1 \in 1 .. 1 + 3 /\ 1 <= 1 /\ 1 + 3 = 4
    OBVIOUS
  <2>3. /\ Len(hi) = 1 + 3
        /\ \A i \in 1 .. 1 + 3 : hi[i] = IF i <= 1 THEN h[i] ELSE I[i - 1]
    BY <1>2, <1>3, <1>5
  <2> HIDE DEF hi
  <2>4. hi[1] = h[1] /\ \A j \in 1 .. 3 : hi[1 + j] = I[j]
    BY ONLY <2>1, <2>2, <2>3
  <2>5. QED
    BY ONLY <1>3, <2>2, <2>3, <2>4
<1> HIDE DEF hi
<1>7. /\ E \in Seq(Nat) /\ Len(E) = Len(hi) + Len(d)
      /\ \A i \in 1 .. Len(hi) + Len(d) : E[i] = IF i <= Len(hi) THEN hi[i] ELSE d[i - Len(hi)]
  <2>1. hi \in Seq(Nat) /\ d \in Seq(Nat)
    BY <1>1, <1>5
  <2>2. QED
    BY ONLY <2>1, ConcatProperties
<1> HIDE DEF E
<1>8. /\ Len(E) = 4 + Len(d)
      /\ \A i \in 1 .. 4 : E[i] = hi[i]
      /\ \A j \in 1 .. Len(d) : E[4 + j] = d[j]
  <2>1. /\ \A i \in 1 .. 4 : i \in 1 .. 4 + Len(d) /\ i <= 4
        /\ \A j \in 1 .. Len(d) : 4 + j \in 1 .. 4 + Len(d) /\ ~(4 + j <= 4) /\ (4 + j) - 4 = j
    BY <1>1
  <2>2. /\ Len(E) = 4 + Len(d)
        /\ \A i \in 1 .. 4 + Len(d) : E[i] = IF i <= 4 THEN hi[i] ELSE d[i - 4]
    BY <1>6, <1>7
  <2>3. QED
    BY ONLY <2>1, <2>2
<1>9. E[1] = q.type /\ \A j \in 1 .. 3 : E[1 + j] = I[j]
  <2>1. 1 \in 1 .. 4 /\ \A j \in 1 .. 3 : 1 + j \in 1 .. 4
    OBVIOUS
  <2>2. QED
    BY ONLY <1>6, <1>8, <2>1
<1>10. QED
  BY <1>4, <1>7, <1>8, <1>9 DEF d, I

\* Do the bytes b hold the packet q behind the first o of them?
Carries(b, o, q) ==
    LET E == Encode(q.type, q.data)
    IN  /\ o + Len(E) <= Len(b)
        /\ \A i \in 1 .. Len(E) : b[o + i] = E[i]

\* A packet carried is carried whatever comes behind, and wherever its front is cut.
LEMMA CarriesConcat ==
    ASSUME NEW b \in Seq(Nat), NEW c \in Seq(Nat), NEW o \in Nat, NEW q \in Packet,
           Carries(b, o, q)
    PROVE  Carries(b \o c, o, q)
<1> DEFINE E == Encode(q.type, q.data)
<1>1. Len(E) \in Nat /\ Len(b) \in Nat /\ Len(c) \in Nat
  BY EncodeBytes, LenProperties
<1>2. o + Len(E) <= Len(b) /\ \A i \in 1 .. Len(E) : b[o + i] = E[i]
  BY DEF Carries
<1>3. Len(b \o c) = Len(b) + Len(c) /\ \A i \in 1 .. Len(b) : (b \o c)[i] = b[i]
  <2>1. \A i \in 1 .. Len(b) : i \in 1 .. Len(b) + Len(c) /\ i <= Len(b)
    BY <1>1
  <2>2. QED
    BY <2>1, ConcatProperties
<1> HIDE DEF E
<1>4. \A i \in 1 .. Len(E) : o + i \in 1 .. Len(b)
  BY <1>1, <1>2
<1>5. o + Len(E) <= Len(b \o c)
  BY <1>1, <1>2, <1>3
<1>6. \A i \in 1 .. Len(E) : (b \o c)[o + i] = E[i]
  BY ONLY <1>2, <1>3, <1>4
<1>7. QED
  BY <1>5, <1>6 DEF Carries, E

LEMMA CarriesDrop ==
    ASSUME NEW b \in Seq(Nat), NEW c \in 0 .. Len(b), NEW o \in Nat, NEW q \in Packet,
           Carries(b, c + o, q)
    PROVE  Carries(Drop(b, c), o, q)
<1> DEFINE E == Encode(q.type, q.data)
<1>1. Len(E) \in Nat /\ Len(b) \in Nat /\ c \in Nat /\ c <= Len(b)
  BY EncodeBytes, LenProperties
<1>2. (c + o) + Len(E) <= Len(b) /\ \A i \in 1 .. Len(E) : b[(c + o) + i] = E[i]
  BY DEF Carries
<1>3. Len(Drop(b, c)) = Len(b) - c /\ \A i \in 1 .. Len(b) - c : Drop(b, c)[i] = b[c + i]
  <2>1. Len(b) \in 0 .. Len(b)
    BY <1>1
  <2>2. QED
    BY <1>1, <2>1, Part DEF Drop
<1> HIDE DEF E
<1>4. \A i \in 1 .. Len(E) : o + i \in 1 .. Len(b) - c /\ c + (o + i) = (c + o) + i
  BY <1>1, <1>2
<1>5. o + Len(E) <= Len(Drop(b, c))
  BY <1>1, <1>2, <1>3
<1>6. \A i \in 1 .. Len(E) : Drop(b, c)[o + i] = E[i]
  BY ONLY <1>2, <1>3, <1>4
<1>7. QED
  BY <1>5, <1>6 DEF Carries, E

\* A packet just encoded is carried at the end.
LEMMA CarriesEncoded ==
    ASSUME NEW b \in Seq(Nat), NEW q \in Packet
    PROVE  Carries(b \o Encode(q.type, q.data), Len(b), q)
<1> DEFINE E == Encode(q.type, q.data)
<1>1. E \in Seq(Nat) /\ Len(E) \in Nat /\ Len(b) \in Nat
  BY EncodeBytes, LenProperties
<1> HIDE DEF E
<1>2. /\ Len(b \o E) = Len(b) + Len(E)
      /\ \A i \in 1 .. Len(b) + Len(E) :
            (b \o E)[i] = IF i <= Len(b) THEN b[i] ELSE E[i - Len(b)]
  <2>1. b \in Seq(Nat) /\ E \in Seq(Nat)
    BY <1>1
  <2>2. QED
    BY ONLY <2>1, ConcatProperties
<1>3. \A i \in 1 .. Len(E) : /\ Len(b) + i \in 1 .. Len(b) + Len(E)
                             /\ ~(Len(b) + i <= Len(b)) /\ (Len(b) + i) - Len(b) = i
  BY <1>1
<1>4. \A i \in 1 .. Len(E) : (b \o E)[Len(b) + i] = E[i]
  BY ONLY <1>2, <1>3
<1>5. Len(b) + Len(E) <= Len(b \o E)
  BY <1>1, <1>2
<1>6. QED
  BY <1>4, <1>5 DEF Carries, E

\* Is the length of q one that three bytes hold?
Short(q) == Len(q.data) < MaxPacketSize

\* A packet that is carried, and whose length is not lost, is cut out whole.
LEMMA CarriedPacket ==
    ASSUME NEW b \in Seq(Nat), NEW o \in Nat, NEW q \in Packet, Carries(b, o, q), Short(q)
    PROVE  /\ HeaderAt(b, o) /\ b[o + 1] = q.type
           /\ NextAt(b, o) = o + 4 + Len(q.data)
           /\ PacketAt(b, o) = q
<1> DEFINE E == Encode(q.type, q.data)
           d == q.data
           I == IntToBytes(Len(d))
<1>1. /\ d \in Seq(Nat) /\ Len(d) \in Nat /\ Len(b) \in Nat /\ q.type \in Nat
      /\ q = [type |-> q.type, data |-> d]
  BY LenProperties DEF Packet
<1>2. I \in Seq(Nat) /\ Len(I) = 3
  BY <1>1, ThreeBytes
<1>3. /\ Len(E) = 4 + Len(d) /\ E[1] = q.type
      /\ \A j \in 1 .. 3 : E[1 + j] = I[j]
      /\ \A j \in 1 .. Len(d) : E[4 + j] = d[j]
  BY EncodeBytes
<1>4. o + Len(E) <= Len(b) /\ \A i \in 1 .. Len(E) : b[o + i] = E[i]
  BY DEF Carries
<1> HIDE DEF E, I, d
<1>5. /\ o + 4 + Len(d) <= Len(b) /\ b[o + 1] = q.type
      /\ \A j \in 1 .. 3 : b[(o + 1) + j] = I[j]
      /\ \A j \in 1 .. Len(d) : b[(o + 4) + j] = d[j]
  <2>1. /\ 1 \in 1 .. Len(E)
        /\ \A j \in 1 .. 3 : 1 + j \in 1 .. Len(E) /\ o + (1 + j) = (o + 1) + j
        /\ \A j \in 1 .. Len(d) : 4 + j \in 1 .. Len(E) /\ o + (4 + j) = (o + 4) + j
    BY <1>1, <1>3, SMTT(30)
  <2>2. o + 4 + Len(d) <= Len(b)
    BY <1>1, <1>3, <1>4
  <2>3. /\ b[o + 1] = q.type
        /\ \A j \in 1 .. 3 : b[(o + 1) + j] = I[j]
        /\ \A j \in 1 .. Len(d) : b[(o + 4) + j] = d[j]
    BY ONLY <1>3, <1>4, <2>1
  <2>4. QED
    BY <2>2, <2>3
<1>6. o + 4 + Len(d) <= Len(b)
  BY <1>5
<1>7. HeaderAt(b, o)
  BY <1>1, <1>6 DEF HeaderAt, HeadLength
<1>8. SubSeq(b, (o + 1) + 1, o + 4) = I
  <2> DEFINE h == SubSeq(b, (o + 1) + 1, o + 4)
  <2>1. o + 1 \in Nat /\ o + 4 \in 0 .. Len(b) /\ o + 1 <= o + 4 /\ (o + 4) - (o + 1) = 3
    BY <1>1, <1>6
  <2>2. /\ h \in Seq(Nat) /\ Len(h) = (IF o + 1 <= o + 4 THEN (o + 4) - (o + 1) ELSE 0)
        /\ \A i \in 1 .. (o + 4) - (o + 1) : h[i] = b[(o + 1) + i]
    BY <2>1, Part, ZenonT(30)
  <2> HIDE DEF h
  <2>3. Len(h) = 3 /\ \A i \in 1 .. 3 : h[i] = I[i]
    BY ONLY <1>5, <2>1, <2>2
  <2>4. QED
    BY <1>2, <2>2, <2>3, SeqEqual DEF h
<1>9. SubSeq(b, (o + 4) + 1, o + 4 + Len(d)) = d
  <2> DEFINE e == o + 4 + Len(d)
             h == SubSeq(b, (o + 4) + 1, e)
  <2>1. o + 4 \in Nat /\ e \in 0 .. Len(b) /\ o + 4 <= e /\ e - (o + 4) = Len(d)
    BY <1>1, <1>6, SMTT(30)
  <2>2. /\ h \in Seq(Nat) /\ Len(h) = (IF o + 4 <= e THEN e - (o + 4) ELSE 0)
        /\ \A i \in 1 .. e - (o + 4) : h[i] = b[(o + 4) + i]
    <3> HIDE DEF e
    <3>1. QED
      BY <2>1, Part
  <2> HIDE DEF h, e
  <2>3. Len(h) = Len(d) /\ \A i \in 1 .. Len(d) : h[i] = d[i]
    BY ONLY <1>5, <2>1, <2>2
  <2>4. h = d
    BY <1>1, <2>2, <2>3, SeqEqual
  <2>5. QED
    BY <2>4 DEF h, e
<1>10. SizeAt(b, o) = Len(d)
  <2>1. (o + 1) + 1 = o + 2
    OBVIOUS
  <2>2. Len(d) \in 0 .. MaxPacketSize - 1
    <3>1. Len(d) < MaxPacketSize /\ MaxPacketSize \in Nat
      BY RadixAssumption DEF d, Short, MaxPacketSize
    <3>2. QED
      BY <1>1, <3>1
  <2>3. BytesToInt(I) = Len(d)
    BY <2>2, LengthReadBack DEF I
  <2>4. QED
    BY <1>8, <2>1, <2>3 DEF SizeAt, HeadLength
<1>11. NextAt(b, o) = o + 4 + Len(d)
  BY <1>10 DEF NextAt, HeadLength
<1>12. PacketAt(b, o) = [type |-> b[o + 1], data |-> SubSeq(b, (o + 4) + 1, NextAt(b, o))]
  BY DEF PacketAt, HeadLength
<1>13. PacketAt(b, o) = q
  BY <1>1, <1>5, <1>9, <1>11, <1>12
<1>14. QED
  BY <1>5, <1>7, <1>11, <1>13 DEF d

\* ... and of the bytes that have arrived, when they reach to its end; when they do
\* not, nothing is cut out.
LEMMA ArrivedPacket ==
    ASSUME NEW s \in Seq(Nat), NEW t \in Seq(Nat), NEW o \in Nat, NEW q \in Packet,
           Carries(s \o t, o, q), Short(q)
    PROVE  /\ q.type \in Types => ~BadType(s, o)
           /\ o + 4 + Len(q.data) <= Len(s) =>
                 ~Cut(s, o) /\ PacketAt(s, o) = q /\ NextAt(s, o) = o + 4 + Len(q.data)
           /\ Len(s) < o + 4 + Len(q.data) => Cut(s, o)
<1> DEFINE x == Len(q.data)
           e == o + 4 + x
<1>1. s \o t \in Seq(Nat) /\ Len(s) \in Nat /\ x \in Nat
  BY ConcatProperties, LenProperties DEF Packet
<1>2. /\ (s \o t)[o + 1] = q.type /\ NextAt(s \o t, o) = e /\ PacketAt(s \o t, o) = q
  BY <1>1, CarriedPacket
<1> HIDE DEF x
<1>3. e \in Nat /\ o + 4 <= e
  BY <1>1
<1> HIDE DEF e
<1>4. CASE HeaderAt(s, o)
  <2>1. /\ s[o + 1] = q.type /\ NextAt(s, o) = e
        /\ NextAt(s, o) <= Len(s) => PacketAt(s, o) = q
    BY <1>2, <1>4, FrontStays
  <2>2. q.type \in Types => ~BadType(s, o)
    BY <2>1 DEF BadType
  <2>3. (e <= Len(s) => ~Cut(s, o)) /\ (Len(s) < e => Cut(s, o))
    BY <1>1, <1>3, <1>4, <2>1 DEF Cut
  <2>4. QED
    BY <2>1, <2>2, <2>3 DEF e, x
<1>5. CASE ~HeaderAt(s, o)
  <2>1. ~(e <= Len(s))
    BY <1>1, <1>3, <1>5 DEF HeaderAt, HeadLength
  <2>2. ~BadType(s, o) /\ Cut(s, o)
    BY <1>5 DEF BadType, Cut
  <2>3. QED
    BY <2>1, <2>2 DEF e, x
<1>6. QED
  BY <1>4, <1>5

\* The bytes b hold the packets of qs behind the first k, all of them and nothing else.
Pending(b, qs, k) ==
    LET U == ConsumedUpto(qs)
    IN  /\ Len(b) = U[Len(qs)] - U[k]
        /\ \A l \in k + 1 .. Len(qs) : Carries(b, U[l - 1] - U[k], qs[l])

\* The packets r are those of qs behind the first i, as far as the first m of qs go; and
\* when r goes further, there are more.
Follows(r, qs, m, i) ==
    /\ \A l \in 1 .. Len(r) : i + l <= m => r[l] = qs[i + l]
    /\ i + Len(r) > m => m < Len(qs)
    /\ i + Len(r) <= m =>
          Consumed(r) = ConsumedUpto(qs)[i + Len(r)] - ConsumedUpto(qs)[i]

\* Where the packets of qs end.
LEMMA Ends ==
    ASSUME NEW qs \in Seq(Packet)
    PROVE  LET U == ConsumedUpto(qs)
           IN  /\ \A i \in 0 .. Len(qs) : U[i] \in Nat
               /\ U[0] = 0
               /\ \A i \in 0 .. Len(qs), j \in 0 .. Len(qs) : i <= j => U[i] <= U[j]
               /\ \A i \in 1 .. Len(qs) :
                     U[i] = U[i - 1] + 4 + Len(qs[i].data) /\ Len(qs[i].data) \in Nat
<1> DEFINE U == ConsumedUpto(qs)
           n == Len(qs)
<1>1. n \in Nat
  BY LenProperties
<1>2. /\ U \in [0 .. n -> Nat] /\ U[0] = 0
      /\ \A i \in 1 .. n : U[i] = U[i - 1] + HeadLength + Len(qs[i].data)
  BY ConsumedUptoDef
<1>3. \A i \in 1 .. n : Len(qs[i].data) \in Nat
  <2>1. \A i \in 1 .. n : qs[i] \in Packet
    BY ElementOfSeq
  <2>2. QED
    BY <2>1, LenProperties DEF Packet
<1> HIDE DEF U, n
<1>4. \A i \in 0 .. n : U[i] \in Nat
  BY <1>2
<1>5. \A i \in 1 .. n : U[i] = U[i - 1] + 4 + Len(qs[i].data)
  BY <1>2 DEF HeadLength
<1>6. ASSUME NEW i \in 0 .. n PROVE \A j \in 0 .. n : i <= j => U[i] <= U[j]
  <2> DEFINE T == {j \in Nat : j <= n /\ i <= j => U[i] <= U[j]}
  <2>1. 0 \in T
    <3>1. i <= 0 => i = 0
      BY <1>1
    <3>2. U[0] <= U[0]
      BY <1>2
    <3>3. QED
      BY <3>1, <3>2
  <2>2. ASSUME NEW j \in Nat, j \in T PROVE j + 1 \in T
    <3> SUFFICES ASSUME j + 1 <= n, i <= j + 1 PROVE U[i] <= U[j + 1]
      OBVIOUS
    <3>1. i = j + 1 \/ i <= j
      BY <1>1
    <3>2. CASE i = j + 1
      <4>1. U[i] \in Nat
        BY <1>4
      <4>2. QED
        BY <3>2, <4>1
    <3>3. CASE i <= j
      <4>1. j + 1 \in 1 .. n /\ (j + 1) - 1 = j /\ j \in 0 .. n
        BY <1>1
      <4>2. U[j + 1] = U[j] + 4 + Len(qs[j + 1].data) /\ Len(qs[j + 1].data) \in Nat
        BY <1>3, <1>5, <4>1
      <4>3. U[i] <= U[j] /\ U[i] \in Nat /\ U[j] \in Nat
        BY <1>4, <2>2, <3>3, <4>1
      <4>4. QED
        BY <4>2, <4>3
    <3>4. QED
      BY <3>1, <3>2, <3>3
  <2>3. Nat \subseteq T
    <3> HIDE DEF T
    <3>1. QED
      BY <2>1, <2>2, NatSetInduction
  <2>4. QED
    BY <1>1, <2>3
<1>7. QED
  BY <1>2, <1>3, <1>4, <1>5, <1>6 DEF U, n

LEMMA FollowsNone ==
    ASSUME NEW qs \in Seq(Packet), NEW m \in 0 .. Len(qs), NEW i \in 0 .. m
    PROVE  Follows(<<>>, qs, m, i)
<1>1. Len(qs) \in Nat
  BY LenProperties
<1>2. Len(<<>>) = 0 /\ i + 0 = i /\ i \in 0 .. Len(qs) /\ ~(i > m) /\ m \in Nat
  BY <1>1, EmptySeq
<1>3. ConsumedUpto(qs)[i] \in Nat
  BY <1>2, Ends
<1>4. Consumed(<<>>) = ConsumedUpto(qs)[i] - ConsumedUpto(qs)[i]
  BY <1>3, ConsumedNone
<1>5. \A l \in 1 .. 0 : FALSE
  OBVIOUS
<1>6. QED
  BY <1>2, <1>4, <1>5 DEF Follows

LEMMA FollowsBeyond ==
    ASSUME NEW qs \in Seq(Packet), NEW m \in 0 .. Len(qs), m < Len(qs), NEW r \in Seq(Packet)
    PROVE  Follows(r, qs, m, m)
<1>1. Len(qs) \in Nat /\ Len(r) \in Nat
  BY LenProperties
<1>2. m \in Nat /\ \A l \in 1 .. Len(r) : ~(m + l <= m)
  BY <1>1
<1>3. ASSUME m + Len(r) <= m
      PROVE  Consumed(r) = ConsumedUpto(qs)[m + Len(r)] - ConsumedUpto(qs)[m]
  <2>1. Len(r) = 0 /\ m + Len(r) = m
    BY <1>1, <1>2, <1>3
  <2>2. r = <<>>
    BY <2>1, EmptySeq
  <2>3. ConsumedUpto(qs)[m] \in Nat
    BY Ends
  <2>4. QED
    BY <2>1, <2>2, <2>3, ConsumedNone
<1>4. QED
  BY <1>2, <1>3 DEF Follows

LEMMA FollowsCons ==
    ASSUME NEW qs \in Seq(Packet), NEW m \in 0 .. Len(qs), NEW i \in 0 .. m - 1,
           NEW r \in Seq(Packet), Follows(r, qs, m, i + 1)
    PROVE  Follows(<<qs[i + 1]>> \o r, qs, m, i)
<1> DEFINE q == qs[i + 1]
           h == <<q>>
           z == h \o r
           U == ConsumedUpto(qs)
           n == Len(qs)
           c == Len(r)
<1>1. n \in Nat /\ c \in Nat /\ i + 1 \in 1 .. n /\ m \in Nat /\ i \in Nat
  BY LenProperties
<1>2. q \in Packet /\ h \in Seq(Packet) /\ Len(h) = 1 /\ h[1] = q
  <2>1. q \in Packet
    BY <1>1, ElementOfSeq
  <2> HIDE DEF q
  <2>2. QED
    BY <2>1
<1> HIDE DEF h
<1>3. /\ z \in Seq(Packet) /\ Len(z) = 1 + c
      /\ \A l \in 1 .. 1 + c : z[l] = IF l <= 1 THEN h[l] ELSE r[l - 1]
  <2>1. h \in Seq(Packet) /\ r \in Seq(Packet)
    BY <1>2
  <2>2. /\ z \in Seq(Packet) /\ Len(z) = Len(h) + Len(r)
        /\ \A l \in 1 .. Len(h) + Len(r) : z[l] = IF l <= Len(h) THEN h[l] ELSE r[l - Len(h)]
    BY ONLY <2>1, ConcatProperties
  <2>3. QED
    BY <1>2, <2>2
<1>4. Consumed(z) = (4 + Len(q.data)) + Consumed(r) /\ Consumed(r) \in Nat
  <2>1. Consumed(h) = 4 + Len(q.data)
    BY <1>2, ConsumedOne DEF h, HeadLength
  <2>2. QED
    BY <1>2, <2>1, ConsumedConcat, ConsumedNat
<1>5. U[i + 1] = U[i] + 4 + Len(q.data) /\ Len(q.data) \in Nat /\ U[i] \in Nat
  <2>1. (i + 1) - 1 = i /\ i \in 0 .. n
    BY <1>1
  <2>2. QED
    BY <1>1, <2>1, Ends
<1>6. /\ \A l \in 1 .. c : (i + 1) + l <= m => r[l] = qs[(i + 1) + l]
      /\ (i + 1) + c > m => m < n
      /\ (i + 1) + c <= m => Consumed(r) = U[(i + 1) + c] - U[i + 1]
  BY DEF Follows
<1> HIDE DEF z, U
<1>7. ASSUME NEW l \in 1 .. Len(z), i + l <= m PROVE z[l] = qs[i + l]
  <2>1. CASE l = 1
    BY <1>2, <1>3, <2>1
  <2>2. CASE l # 1
    <3>1. l - 1 \in 1 .. c /\ (i + 1) + (l - 1) = i + l /\ l \in 1 .. 1 + c /\ ~(l <= 1)
      BY <1>1, <1>3, <2>2
    <3>2. z[l] = r[l - 1]
      BY <1>3, <3>1
    <3>3. r[l - 1] = qs[(i + 1) + (l - 1)]
      BY <1>6, <1>7, <3>1
    <3>4. QED
      BY <3>1, <3>2, <3>3
  <2>3. QED
    BY <2>1, <2>2
<1>8. i + Len(z) = (i + 1) + c
  BY <1>1, <1>3
<1>9. ASSUME i + Len(z) <= m PROVE Consumed(z) = U[i + Len(z)] - U[i]
  <2> DEFINE x == Len(q.data)
             e == U[(i + 1) + c]
             a == U[i]
             y == Consumed(r)
  <2>1. (i + 1) + c <= m /\ (i + 1) + c \in 0 .. n
    BY <1>1, <1>8, <1>9
  <2>2. e \in Nat
    BY <2>1, Ends DEF U
  <2>3. y = e - U[i + 1] /\ U[i + 1] = a + 4 + x /\ x \in Nat /\ a \in Nat /\ y \in Nat
    BY <1>4, <1>5, <1>6, <2>1
  <2>4. Consumed(z) = (4 + x) + y
    BY <1>4
  <2> HIDE DEF x, e, a, y
  <2>5. (4 + x) + y = e - a
    BY <2>2, <2>3
  <2>6. QED
    BY <1>8, <2>4, <2>5 DEF e, a
<1>10. QED
  BY <1>6, <1>7, <1>8, <1>9 DEF Follows, z, h, U

\* What either client cuts out of the bytes s that have arrived, with t still on the
\* way: when the packets of qs behind the first k are pending, then the next of them,
\* as far as their lengths are not lost.
LEMMA DecodeFollows ==
    ASSUME NEW qs \in Seq(Packet), NEW m \in 0 .. Len(qs), NEW k \in 0 .. m,
           NEW s \in Seq(Nat), NEW t \in Seq(Nat), Pending(s \o t, qs, k),
           \A l \in 1 .. m : Short(qs[l]),
           \A l \in 1 .. m : qs[l].type \in Types
    PROVE  Follows(CppDecode(s), qs, m, k) /\ Follows(GoDecode(s).packets, qs, m, k)
<1> DEFINE n     == Len(qs)
           U     == ConsumedUpto(qs)
           at(i) == U[i] - U[k]
           C     == CppDecodeFrom(s)
           G     == GoDecodeFrom(s)
           P(i)  == Follows(C[at(i)], qs, m, i) /\ Follows(G[at(i)].packets, qs, m, i)
           T     == {i \in 0 .. m : k <= i /\ at(i) <= Len(s) => P(i)}
<1>1. /\ n \in Nat /\ m \in Nat /\ k \in Nat /\ m <= n /\ k <= m
      /\ Len(s) \in Nat /\ Len(t) \in Nat /\ Len(s \o t) = Len(s) + Len(t)
  BY LenProperties, ConcatProperties
<1>2. /\ \A i \in 0 .. n : U[i] \in Nat
      /\ \A i \in 0 .. n, j \in 0 .. n : i <= j => U[i] <= U[j]
      /\ \A i \in 1 .. n :
            U[i] = U[i - 1] + 4 + Len(qs[i].data) /\ Len(qs[i].data) \in Nat
  BY Ends
<1>3. /\ Len(s \o t) = U[n] - U[k]
      /\ \A l \in k + 1 .. n : Carries(s \o t, U[l - 1] - U[k], qs[l])
  BY DEF Pending
<1> HIDE DEF U
<1>4. \A i \in k .. m : at(i) \in Nat /\ i \in 0 .. m /\ i \in 0 .. n
  <2>1. \A i \in k .. m : i \in 0 .. n /\ k \in 0 .. n /\ k <= i /\ i \in 0 .. m
    BY <1>1
  <2>2. \A i \in k .. m : U[i] \in Nat /\ U[k] \in Nat /\ U[k] <= U[i]
    BY <1>2, <2>1
  <2>3. QED
    BY <2>1, <2>2
<1>5. \A p \in 0 .. Len(s) :
         /\ C[p] \in Seq(Packet) /\ G[p] \in Outcome /\ G[p].packets \in Seq(Packet)
         /\ Cut(s, p) => C[p] = <<>>
         /\ ~Cut(s, p) => C[p] = <<PacketAt(s, p)>> \o C[NextAt(s, p)]
         /\ ~BadType(s, p) /\ Cut(s, p) => G[p].packets = <<>>
         /\ ~BadType(s, p) /\ ~Cut(s, p) => G[p] = Behind(PacketAt(s, p), G[NextAt(s, p)])
  <2>1. \A p \in 0 .. Len(s) : G[p] \in Outcome
    BY GoDecodeFromDef
  <2>2. Nothing.packets = <<>>
    BY DEF Nothing
  <2>3. QED
    BY <2>1, <2>2, CppDecodeFromDef, GoDecodeFromDef DEF Outcome
<1> HIDE DEF C, G
<1>6. ASSUME NEW i \in 0 .. m, \A j \in i + 1 .. m : j \in T, k <= i, at(i) <= Len(s) PROVE P(i)
  <2> DEFINE p == at(i)
  <2>1. p \in 0 .. Len(s) /\ p \in Nat
    BY <1>1, <1>4, <1>6
  <2>2. CASE i = m
    <3>1. CASE m < n
      <4>1. C[p] \in Seq(Packet) /\ G[p].packets \in Seq(Packet)
        BY <1>5, <2>1
      <4> HIDE DEF p
      <4>2. Follows(C[p], qs, m, m) /\ Follows(G[p].packets, qs, m, m)
        BY <3>1, <4>1, FollowsBeyond
      <4>3. QED
        BY <2>2, <4>2 DEF p
    <3>2. CASE m = n
      <4>1. p = Len(s)
        BY <1>1, <1>3, <1>6, <2>1, <2>2, <3>2
      <4>2. Cut(s, p) /\ ~BadType(s, p)
        BY <1>1, <4>1 DEF Cut, BadType, HeaderAt, HeadLength
      <4> HIDE DEF p
      <4>3. C[p] = <<>> /\ G[p].packets = <<>>
        BY <1>5, <2>1, <4>2
      <4>4. QED
        BY <4>3, FollowsNone DEF p
    <3>3. QED
      BY <1>1, <3>1, <3>2
  <2>3. CASE i # m
    <3> DEFINE q == qs[i + 1]
               x == Len(q.data)
               r == at(i + 1)
    <3>1. /\ i + 1 \in k + 1 .. n /\ i + 1 \in 1 .. m /\ i + 1 \in k .. m /\ (i + 1) - 1 = i
          /\ i + 1 \in 1 .. n /\ i + 1 \in i + 1 .. m /\ i \in 0 .. m - 1 /\ k <= i + 1
      BY <1>1, <1>6, <2>3
    <3>2. q \in Packet /\ Carries(s \o t, p, q) /\ Short(q) /\ q.type \in Types
      BY <1>3, <3>1, ElementOfSeq
    <3>3. r = p + 4 + x /\ x \in Nat
      <4>1. U[i + 1] = U[i] + 4 + x /\ x \in Nat
        BY <1>2, <3>1
      <4>2. U[i] \in Nat /\ U[k] \in Nat
        BY <1>1, <1>2, <1>4, <1>6
      <4> HIDE DEF x
      <4>3. QED
        BY <4>1, <4>2
    <3> HIDE DEF p, q
    <3>4. /\ ~BadType(s, p)
          /\ p + 4 + x <= Len(s) => ~Cut(s, p) /\ PacketAt(s, p) = q /\ NextAt(s, p) = p + 4 + x
          /\ Len(s) < p + 4 + x => Cut(s, p)
      BY <2>1, <3>2, ArrivedPacket
    <3> HIDE DEF x
    <3>5. CASE r <= Len(s)
      <4>1. ~Cut(s, p) /\ PacketAt(s, p) = q /\ NextAt(s, p) = r
        BY <3>3, <3>4, <3>5
      <4>2. r \in 0 .. Len(s)
        BY <1>1, <2>1, <3>3, <3>5
      <4>3. P(i + 1)
        BY <1>6, <3>1, <3>5
      <4> HIDE DEF r
      <4>4. C[p] = <<q>> \o C[r] /\ C[r] \in Seq(Packet) /\ Follows(C[r], qs, m, i + 1)
        BY <1>5, <2>1, <4>1, <4>2, <4>3 DEF r
      <4>5. Follows(C[p], qs, m, i)
        BY <3>1, <4>4, FollowsCons DEF q
      <4>6. G[p] = Behind(q, G[r]) /\ G[r] \in Outcome /\ G[r].packets \in Seq(Packet)
        BY <1>5, <2>1, <3>4, <4>1, <4>2
      <4>7. G[r].err \/ G[p].packets = <<q>> \o G[r].packets
        <5> DEFINE v == G[r]
        <5>1. v \in Outcome /\ G[p] = Behind(q, v)
          BY <4>6
        <5> HIDE DEF v
        <5>2. ~v.err => Behind(q, v).packets = <<q>> \o v.packets
          BY <3>2, <5>1, BehindType
        <5>3. v.err \/ G[p].packets = <<q>> \o v.packets
          BY ONLY <5>1, <5>2, Zenon
        <5>4. QED
          BY <5>3 DEF v
      <4>8. CASE G[r].err
        <5>1. G[p].packets = G[r].packets /\ G[r].packets = <<>>
          <6>1. G[p] = G[r]
            BY <3>2, <4>6, <4>8, BehindType
          <6>2. G[r].packets = <<>>
            BY <4>2, <4>8, GoConsumes DEF G
          <6>3. QED
            BY <6>1, <6>2
        <5>2. Follows(G[p].packets, qs, m, i)
          BY <5>1, FollowsNone
        <5>3. QED
          BY <4>5, <5>2 DEF p
      <4>9. CASE G[p].packets = <<q>> \o G[r].packets
        <5>1. Follows(G[r].packets, qs, m, i + 1)
          BY <4>3 DEF r
        <5>2. Follows(G[p].packets, qs, m, i)
          BY <3>1, <4>6, <4>9, <5>1, FollowsCons DEF q
        <5>3. QED
          BY <4>5, <5>2 DEF p
      <4>10. QED
        BY <4>7, <4>8, <4>9
    <3>6. CASE ~(r <= Len(s))
      <4>1. Cut(s, p)
        BY <1>1, <2>1, <3>3, <3>4, <3>6
      <4>2. C[p] = <<>> /\ G[p].packets = <<>>
        BY <1>5, <2>1, <3>4, <4>1
      <4>3. QED
        BY <4>2, FollowsNone DEF p
    <3>7. QED
      BY <3>5, <3>6
  <2>4. QED
    BY <2>2, <2>3
<1>7. 0 .. m \subseteq T
  <2>1. ASSUME NEW i \in 0 .. m, \A j \in i + 1 .. m : j \in T PROVE i \in T
    BY <1>6, <2>1
  <2> HIDE DEF T
  <2>2. QED
    BY <1>1, <2>1, DownwardInduction
<1>8. at(k) = 0 /\ k \in 0 .. m
  <2>1. k \in 0 .. n /\ k \in 0 .. m
    BY <1>1
  <2>2. U[k] \in Nat
    BY <1>2, <2>1
  <2>3. QED
    BY <2>1, <2>2
<1>9. P(k)
  <2>1. k \in T /\ k <= k /\ at(k) <= Len(s)
    BY <1>1, <1>7, <1>8, SMTT(30)
  <2> HIDE DEF P
  <2>2. QED
    BY <2>1
<1>10. QED
  BY <1>8, <1>9 DEF CppDecode, GoDecode, C, G

-----------------------------------------------------------------------------
(* Packets on their way                                                    *)

\* A read takes the front of what is on the wire; nothing is lost between.
LEMMA ReadSplits ==
    ASSUME NEW b \in Seq(Nat), NEW w \in Seq(Nat), NEW j \in 0 .. Len(w)
    PROVE  /\ b \o SubSeq(w, 1, j) \in Seq(Nat) /\ Drop(w, j) \in Seq(Nat)
           /\ Len(b \o SubSeq(w, 1, j)) = Len(b) + j /\ Len(Drop(w, j)) = Len(w) - j
           /\ (b \o SubSeq(w, 1, j)) \o Drop(w, j) = b \o w
<1> DEFINE x == SubSeq(w, 1, j)
           y == Drop(w, j)
<1>1. Len(b) \in Nat /\ Len(w) \in Nat /\ j \in Nat /\ j <= Len(w) /\ Len(w) \in 0 .. Len(w)
  BY LenProperties
<1>2. /\ x \in Seq(Nat) /\ Len(x) = j /\ \A i \in 1 .. j : x[i] = w[i]
  <2>1. /\ SubSeq(w, 0 + 1, j) \in Seq(Nat)
        /\ Len(SubSeq(w, 0 + 1, j)) = IF 0 <= j THEN j - 0 ELSE 0
        /\ \A i \in 1 .. j - 0 : SubSeq(w, 0 + 1, j)[i] = w[0 + i]
    BY <1>1, Part
  <2>2. QED
    BY <1>1, <2>1
<1>3. /\ y \in Seq(Nat) /\ Len(y) = Len(w) - j
      /\ \A i \in 1 .. Len(w) - j : y[i] = w[j + i]
  BY <1>1, Part DEF Drop
<1> HIDE DEF x, y
<1>4. /\ b \o x \in Seq(Nat) /\ Len(b \o x) = Len(b) + Len(x)
  BY <1>2, ConcatProperties
<1>5. x \o y = w
  <2>1. /\ x \o y \in Seq(Nat) /\ Len(x \o y) = Len(x) + Len(y)
        /\ \A i \in 1 .. Len(x) + Len(y) :
              (x \o y)[i] = IF i <= Len(x) THEN x[i] ELSE y[i - Len(x)]
    <3>1. x \in Seq(Nat) /\ y \in Seq(Nat)
      BY <1>2, <1>3
    <3>2. QED
      BY ONLY <3>1, ConcatProperties
  <2>2. Len(x \o y) = Len(w)
    BY <1>1, <1>2, <1>3, <2>1
  <2>3. ASSUME NEW i \in 1 .. Len(w) PROVE (x \o y)[i] = w[i]
    <3>1. i \in 1 .. Len(x) + Len(y)
      BY <1>1, <1>2, <1>3
    <3>2. CASE i <= j
      <4>1. i \in 1 .. j
        BY <1>1, <3>2
      <4>2. QED
        BY <1>2, <2>1, <3>1, <3>2, <4>1
    <3>3. CASE ~(i <= j)
      <4>1. i - j \in 1 .. Len(w) - j /\ j + (i - j) = i
        BY <1>1, <3>3
      <4>2. (x \o y)[i] = y[i - j]
        BY <1>2, <2>1, <3>1, <3>3
      <4>3. QED
        BY <1>3, <4>1, <4>2
    <3>4. QED
      BY <3>2, <3>3
  <2>4. QED
    BY <2>1, <2>2, <2>3, SeqEqual
<1>6. (b \o x) \o y = b \o (x \o y)
  <2>1. b \in Seq(Nat) /\ x \in Seq(Nat) /\ y \in Seq(Nat)
    BY <1>2, <1>3
  <2>2. QED
    BY ONLY <2>1, ConcatAssociative, SMTT(30)
<1>7. QED
  BY <1>1, <1>2, <1>3, <1>4, <1>5, <1>6 DEF x, y

\* What is left in the buffer, before what is on the wire.
LEMMA DropConcat ==
    ASSUME NEW s \in Seq(Nat), NEW t \in Seq(Nat), NEW c \in 0 .. Len(s)
    PROVE  Drop(s, c) \o t = Drop(s \o t, c)
<1> DEFINE a == Drop(s, c) \o t
           b == Drop(s \o t, c)
<1>1. /\ Len(s) \in Nat /\ Len(t) \in Nat /\ c \in Nat /\ c <= Len(s)
      /\ Len(s) \in 0 .. Len(s) /\ s \o t \in Seq(Nat) /\ Len(s \o t) = Len(s) + Len(t)
      /\ \A i \in 1 .. Len(s) + Len(t) : (s \o t)[i] = IF i <= Len(s) THEN s[i] ELSE t[i - Len(s)]
  <2>1. Len(s) \in Nat /\ Len(t) \in Nat /\ c \in Nat /\ c <= Len(s) /\ Len(s) \in 0 .. Len(s)
    BY LenProperties
  <2>2. QED
    BY <2>1, ConcatProperties
<1>2. /\ Drop(s, c) \in Seq(Nat) /\ Len(Drop(s, c)) = Len(s) - c
      /\ \A i \in 1 .. Len(s) - c : Drop(s, c)[i] = s[c + i]
  BY <1>1, Part DEF Drop
<1>3. /\ b \in Seq(Nat) /\ Len(b) = (Len(s) + Len(t)) - c
      /\ \A i \in 1 .. (Len(s) + Len(t)) - c : b[i] = (s \o t)[c + i]
  <2> DEFINE w == s \o t
  <2>1. Len(w) \in 0 .. Len(w) /\ c <= Len(w) /\ w \in Seq(Nat) /\ Len(w) = Len(s) + Len(t)
    BY <1>1
  <2> HIDE DEF w
  <2>2. /\ Drop(w, c) \in Seq(Nat) /\ Len(Drop(w, c)) = Len(w) - c
        /\ \A i \in 1 .. Len(w) - c : Drop(w, c)[i] = w[c + i]
    BY <1>1, <2>1, Part DEF Drop
  <2>3. QED
    BY <2>1, <2>2 DEF w
<1> DEFINE d == Drop(s, c)
<1> HIDE DEF b, d
<1>4. /\ a \in Seq(Nat) /\ Len(a) = Len(d) + Len(t)
      /\ \A i \in 1 .. Len(d) + Len(t) : a[i] = IF i <= Len(d) THEN d[i] ELSE t[i - Len(d)]
  <2>1. d \in Seq(Nat) /\ t \in Seq(Nat) /\ a = d \o t
    BY <1>2 DEF d
  <2> HIDE DEF a
  <2>2. QED
    BY ONLY <2>1, ConcatProperties
<1>5. Len(d) = Len(s) - c /\ \A i \in 1 .. Len(s) - c : d[i] = s[c + i]
  BY <1>2 DEF d
<1> HIDE DEF a
<1>6. Len(a) = Len(b)
  BY <1>1, <1>3, <1>4, <1>5
<1>7. ASSUME NEW i \in 1 .. Len(a) PROVE a[i] = b[i]
  <2>1. /\ i \in 1 .. Len(d) + Len(t) /\ i \in 1 .. (Len(s) + Len(t)) - c
        /\ c + i \in 1 .. Len(s) + Len(t)
    BY <1>1, <1>4, <1>5
  <2>2. b[i] = IF c + i <= Len(s) THEN s[c + i] ELSE t[(c + i) - Len(s)]
    BY <1>1, <1>3, <2>1
  <2>3. CASE i <= Len(d)
    <3>1. i \in 1 .. Len(s) - c /\ c + i <= Len(s)
      BY <1>1, <1>5, <2>1, <2>3
    <3>2. QED
      BY <1>4, <1>5, <2>1, <2>2, <2>3, <3>1
  <2>4. CASE ~(i <= Len(d))
    <3>1. ~(c + i <= Len(s)) /\ (c + i) - Len(s) = i - Len(d)
      BY <1>1, <1>5, <2>1, <2>4
    <3>2. QED
      BY <1>4, <2>1, <2>2, <2>4, <3>1
  <2>5. QED
    BY <2>3, <2>4
<1>8. a = b
  BY <1>3, <1>4, <1>6, <1>7, SeqEqual
<1>9. QED
  BY <1>8 DEF a, b

\* The packets still pending when some have been taken.
LEMMA PendingDrop ==
    ASSUME NEW qs \in Seq(Packet), NEW k \in 0 .. Len(qs), NEW j \in k .. Len(qs),
           NEW b \in Seq(Nat), Pending(b, qs, k), NEW c,
           c = ConsumedUpto(qs)[j] - ConsumedUpto(qs)[k]
    PROVE  c \in 0 .. Len(b) /\ Pending(Drop(b, c), qs, j)
<1> DEFINE U == ConsumedUpto(qs)
           n == Len(qs)
<1>1. /\ n \in Nat /\ k \in Nat /\ j \in 0 .. n /\ j \in Nat /\ k <= j /\ j <= n /\ n \in 0 .. n
      /\ Len(b) \in Nat
  BY LenProperties
<1>2. /\ \A i \in 0 .. n : U[i] \in Nat
      /\ \A i \in 0 .. n, l \in 0 .. n : i <= l => U[i] <= U[l]
  BY Ends
<1>3. /\ Len(b) = U[n] - U[k]
      /\ \A l \in k + 1 .. n : Carries(b, U[l - 1] - U[k], qs[l])
  BY DEF Pending
<1> HIDE DEF U
<1>4. U[k] \in Nat /\ U[j] \in Nat /\ U[n] \in Nat /\ U[k] <= U[j] /\ U[j] <= U[n]
  BY <1>1, <1>2
<1>5. c = U[j] - U[k]
  BY DEF U
<1>6. c \in 0 .. Len(b) /\ Len(b) - c = U[n] - U[j]
  BY <1>3, <1>4, <1>5
<1>7. Len(Drop(b, c)) = U[n] - U[j]
  BY <1>6, FrontDropped
<1>8. ASSUME NEW l \in j + 1 .. n PROVE Carries(Drop(b, c), U[l - 1] - U[j], qs[l])
  <2> DEFINE o == U[l - 1] - U[j]
  <2>1. l \in k + 1 .. n /\ l - 1 \in 0 .. n /\ j <= l - 1 /\ l \in 1 .. n
    BY <1>1
  <2>2. U[l - 1] \in Nat /\ U[j] <= U[l - 1]
    BY <1>1, <1>2, <2>1
  <2>3. o \in Nat /\ U[l - 1] - U[k] = c + o
    BY <1>4, <1>5, <2>2
  <2>4. Carries(b, c + o, qs[l]) /\ qs[l] \in Packet
    BY <1>3, <2>1, <2>3, ElementOfSeq
  <2> HIDE DEF o
  <2>5. Carries(Drop(b, c), o, qs[l])
    BY <1>6, <2>3, <2>4, CarriesDrop
  <2>6. QED
    BY <2>5 DEF o
<1>9. QED
  BY <1>6, <1>7, <1>8 DEF Pending, U

\* Where the packets end when one more has been sent.
LEMMA EndsAppend ==
    ASSUME NEW qs \in Seq(Packet), NEW q \in Packet
    PROVE  /\ Append(qs, q) \in Seq(Packet) /\ Len(Append(qs, q)) = Len(qs) + 1
           /\ \A i \in 1 .. Len(qs) : Append(qs, q)[i] = qs[i]
           /\ Append(qs, q)[Len(qs) + 1] = q
           /\ \A i \in 0 .. Len(qs) : ConsumedUpto(Append(qs, q))[i] = ConsumedUpto(qs)[i]
           /\ ConsumedUpto(Append(qs, q))[Len(qs) + 1] =
                 ConsumedUpto(qs)[Len(qs)] + 4 + Len(q.data)
           /\ Consumed(Append(qs, q)) = Consumed(qs) + 4 + Len(q.data)
<1> DEFINE n == Len(qs)
           z == Append(qs, q)
           U == ConsumedUpto(qs)
           V == ConsumedUpto(z)
<1>1. /\ n \in Nat /\ z \in Seq(Packet) /\ Len(z) = n + 1
      /\ \A i \in 1 .. n : z[i] = qs[i]
      /\ z[n + 1] = q
  BY AppendProperties, LenProperties
<1> HIDE DEF z
<1>2. U[0] = 0 /\ \A i \in 1 .. n : U[i] = U[i - 1] + 4 + Len(qs[i].data)
  BY Ends
<1>3. V[0] = 0 /\ \A i \in 1 .. n + 1 : V[i] = V[i - 1] + 4 + Len(z[i].data)
  BY <1>1, Ends
<1> DEFINE T == {i \in Nat : i <= n => V[i] = U[i]}
<1> HIDE DEF U, V
<1>4. 0 \in T
  BY <1>2, <1>3
<1>5. ASSUME NEW i \in Nat, i \in T PROVE i + 1 \in T
  <2> SUFFICES ASSUME i + 1 <= n PROVE V[i + 1] = U[i + 1]
    OBVIOUS
  <2>1. i + 1 \in 1 .. n /\ i + 1 \in 1 .. n + 1 /\ (i + 1) - 1 = i /\ i <= n
    BY <1>1
  <2>2. V[i + 1] = V[i] + 4 + Len(z[i + 1].data) /\ U[i + 1] = U[i] + 4 + Len(qs[i + 1].data)
    BY ONLY <1>2, <1>3, <2>1
  <2>3. z[i + 1] = qs[i + 1] /\ V[i] = U[i]
    BY <1>1, <1>5, <2>1
  <2>4. QED
    BY <2>2, <2>3
<1>6. Nat \subseteq T
  <2> HIDE DEF T
  <2>1. QED
    BY <1>4, <1>5, NatSetInduction
<1>7. \A i \in 0 .. n : V[i] = U[i]
  BY <1>1, <1>6
<1>8. V[n + 1] = U[n] + 4 + Len(q.data)
  <2>1. n + 1 \in 1 .. n + 1 /\ (n + 1) - 1 = n /\ n \in 0 .. n
    BY <1>1
  <2>2. V[n + 1] = V[n] + 4 + Len(z[n + 1].data)
    BY ONLY <1>3, <2>1
  <2>3. QED
    BY <1>1, <1>7, <2>1, <2>2
<1>9. Consumed(z) = V[n + 1] /\ Consumed(qs) = U[n]
  BY <1>1 DEF Consumed, V, U
<1>10. QED
  BY <1>1, <1>7, <1>8, <1>9 DEF z, U, V

\* A packet the server sends is pending behind the others.
LEMMA PendingAppend ==
    ASSUME NEW qs \in Seq(Packet), NEW k \in 0 .. Len(qs), NEW b \in Seq(Nat), NEW q \in Packet,
           Pending(b, qs, k)
    PROVE  Pending(b \o Encode(q.type, q.data), Append(qs, q), k)
<1> DEFINE n == Len(qs)
           E == Encode(q.type, q.data)
           z == Append(qs, q)
           U == ConsumedUpto(qs)
           V == ConsumedUpto(z)
           x == Len(q.data)
<1>1. /\ n \in Nat /\ k \in Nat /\ k <= n /\ n \in 0 .. n /\ Len(b) \in Nat /\ x \in Nat
  BY LenProperties DEF Packet
<1>2. /\ E \in Seq(Nat) /\ Len(E) = 4 + x
      /\ b \o E \in Seq(Nat) /\ Len(b \o E) = Len(b) + Len(E)
  <2>1. E \in Seq(Nat) /\ Len(E) = 4 + x
    BY EncodeBytes
  <2> HIDE DEF E
  <2>2. QED
    BY <2>1, ConcatProperties
<1>3. /\ Len(z) = n + 1
      /\ \A i \in 1 .. n : z[i] = qs[i]
      /\ z[n + 1] = q
      /\ \A i \in 0 .. n : V[i] = U[i]
      /\ V[n + 1] = U[n] + 4 + x
  BY EndsAppend
<1>4. /\ \A i \in 0 .. n : U[i] \in Nat
      /\ \A i \in 0 .. n, l \in 0 .. n : i <= l => U[i] <= U[l]
  BY Ends
<1>5. /\ Len(b) = U[n] - U[k]
      /\ \A l \in k + 1 .. n : Carries(b, U[l - 1] - U[k], qs[l])
  BY DEF Pending
<1>6. Carries(b \o E, Len(b), q)
  BY CarriesEncoded
<1> HIDE DEF U, V, x, z, E
<1>7. U[n] \in Nat /\ U[k] \in Nat /\ V[k] = U[k] /\ V[n] = U[n] /\ k \in 0 .. n
  BY <1>1, <1>3, <1>4
<1>8. Len(b \o E) = V[Len(z)] - V[k]
  <2>1. V[Len(z)] = U[n] + 4 + x
    BY <1>3
  <2>2. QED
    BY <1>1, <1>2, <1>5, <1>7, <2>1
<1>9. ASSUME NEW l \in k + 1 .. n + 1 PROVE Carries(b \o E, V[l - 1] - V[k], z[l])
  <2>1. CASE l = n + 1
    <3>1. l - 1 = n
      BY <1>1, <2>1
    <3>2. V[l - 1] - V[k] = Len(b) /\ z[l] = q
      BY <1>3, <1>5, <1>7, <2>1, <3>1
    <3>3. QED
      BY <1>6, <3>2
  <2>2. CASE l # n + 1
    <3>1. l \in k + 1 .. n /\ l - 1 \in 0 .. n /\ l \in 1 .. n /\ k <= l - 1
      BY <1>1, <2>2
    <3>2. V[l - 1] = U[l - 1] /\ z[l] = qs[l] /\ qs[l] \in Packet
      BY <1>3, <3>1, ElementOfSeq
    <3>3. U[l - 1] - U[k] \in Nat
      <4>1. U[l - 1] \in Nat /\ U[k] <= U[l - 1]
        BY <1>4, <1>7, <3>1
      <4>2. QED
        BY <1>7, <4>1
    <3>4. Carries(b, U[l - 1] - U[k], qs[l])
      BY <1>5, <3>1
    <3>5. Carries(b \o E, U[l - 1] - U[k], qs[l])
      BY <1>2, <3>2, <3>3, <3>4, CarriesConcat
    <3>6. QED
      BY <1>7, <3>2, <3>5
  <2>3. QED
    BY <2>1, <2>2
<1>10. QED
  BY <1>3, <1>8, <1>9 DEF Pending, E, z, V
=============================================================================
