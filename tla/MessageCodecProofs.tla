-------------------------- MODULE MessageCodecProofs -------------------------
(***************************************************************************)
(* Proofs about MessageCodec, for every base, every length of ids and      *)
(* every message: an id is read back from the bytes it was written in, and *)
(* so is a message; and the two decoders agree, on any bytes.              *)
(***************************************************************************)
EXTENDS MessageCodec, DataLemmas

-----------------------------------------------------------------------------
(* The bytes of an id                                                      *)

\* Dividing by Half makes a number that has two digits or more smaller.
LEMMA DigitsLeft ==
    ASSUME NEW n \in Nat
    PROVE  /\ n \div Half \in Nat /\ n % Half \in 0 .. Half - 1
           /\ n = (n \div Half) * Half + (n % Half)
           /\ ~(n < Half) => n \div Half < n
<1> DEFINE q == n \div Half
           m == n % Half
<1>1. Half \in Nat \ {0} /\ Half >= 2
  BY CodecAssumption
<1>2. q \in Nat /\ m \in 0 .. Half - 1 /\ n = q * Half + m
  BY <1>1, DivMod
<1> HIDE DEF q, m
<1>3. ASSUME ~(n < Half) PROVE q < n
  <2>1. q # 0
    <3> SUFFICES ASSUME q = 0 PROVE FALSE
      OBVIOUS
    <3>1. q * Half = 0
      BY <1>1
    <3>2. QED
      BY <1>1, <1>2, <1>3, <3>1
  <2> DEFINE h == q * Half
  <2>2. h >= q * 2 /\ h \in Nat /\ n = h + m
    BY <1>1, <1>2
  <2> HIDE DEF h
  <2>3. QED
    BY <1>2, <2>1, <2>2
<1>4. QED
  BY <1>2, <1>3 DEF q, m

LEMMA ByteFacts ==
    /\ Half \in Nat \ {0, 1} /\ Base = 2 * Half /\ Base \in Nat \ {0} /\ Mark \in Byte
    /\ \A n \in 0 .. Half - 1 : n \in Byte /\ n + Half \in Byte
    /\ Byte \subseteq Nat
BY CodecAssumption DEF Base, Byte, Mark

LEMMA ByteSeqIsNatSeq == Seq(Byte) \subseteq Seq(Nat)
<1> SUFFICES ASSUME NEW s \in Seq(Byte) PROVE s \in Seq(Nat)
  OBVIOUS
<1>1. Len(s) \in Nat /\ s \in [1 .. Len(s) -> Byte]
  BY LenProperties
<1>2. s \in [1 .. Len(s) -> Nat]
  BY <1>1, ByteFacts
<1>3. QED
  BY <1>1, <1>2, SeqDef

\* IdBytes written out: a byte, and behind it the bytes of what is left of the number.
LEMMA IdBytesDef ==
    \A n \in 0 .. IdSpace - 1 :
        /\ IdBytes(n) \in Seq(Byte)
        /\ IdBytes(n) = IF n < Half THEN <<n>>
                        ELSE <<(n % Half) + Half>> \o IdBytes(n \div Half)
<1> DEFINE N     == IdSpace - 1
           V     == Seq(Byte)
           S     == {n \in 0 .. N : n < Half}
           first == [n \in S |-> <<n>>]
           next  == [n \in (0 .. N) \ S |-> n \div Half]
           step  == [n \in (0 .. N) \ S |-> [v \in V |-> <<(n % Half) + Half>> \o v]]
<1>1. N \in Nat /\ Half \in Nat
  BY CodecAssumption
<1>2. \A n \in (0 .. N) \ S : n \div Half \in 0 .. N /\ n \div Half < n
  <2> SUFFICES ASSUME NEW n \in (0 .. N) \ S PROVE n \div Half \in 0 .. N /\ n \div Half < n
    OBVIOUS
  <2>1. n \in Nat /\ ~(n < Half) /\ n <= N
    OBVIOUS
  <2>2. n \div Half \in Nat /\ n \div Half < n
    BY <2>1, DigitsLeft
  <2> DEFINE q == n \div Half
  <2> HIDE DEF q
  <2>3. q \in Nat /\ q < n => q \in 0 .. N
    BY <1>1, <2>1
  <2>4. QED
    BY <2>2, <2>3 DEF q
<1>3. first \in [S -> V]
  <2>1. \A n \in S : n \in Byte
    BY <1>1, ByteFacts
  <2>2. \A x \in Byte : <<x>> \in V
    OBVIOUS
  <2> HIDE DEF S, V
  <2>3. QED
    BY <2>1, <2>2
<1>4. step \in [(0 .. N) \ S -> [V -> V]]
  <2>1. \A n \in (0 .. N) \ S : (n % Half) + Half \in Byte
    BY <1>1, DigitsLeft, ByteFacts
  <2>2. ASSUME NEW x \in Byte, NEW v \in V PROVE <<x>> \o v \in V
    <3>1. <<x>> \in Seq(Byte)
      OBVIOUS
    <3>2. QED
      BY ONLY <3>1, v \in Seq(Byte), ConcatProperties
  <2> HIDE DEF S, V
  <2>3. QED
    BY <2>1, <2>2
<1>5. Upward(N, V, S, first, next, step)
  <2>1. S \in SUBSET (0 .. N) /\ next \in [(0 .. N) \ S -> 0 .. N]
        /\ \A p \in (0 .. N) \ S : next[p] < p
    BY <1>2
  <2> HIDE DEF S, V, first, next, step
  <2>2. QED
    BY ONLY <1>3, <1>4, <2>1 DEF Upward
<1>6. PICK u \in [0 .. N -> V] : \A n \in 0 .. N :
          u[n] = IF n \in S THEN first[n] ELSE step[n][u[next[n]]]
  <2> HIDE DEF S, V, first, next, step
  <2>1. QED
    BY ONLY <1>1, <1>5, RecursionFromTheStart
<1>7. ASSUME NEW n \in 0 .. N
      PROVE  u[n] = IF n < Half THEN <<n>> ELSE <<(n % Half) + Half>> \o u[n \div Half]
  <2>1. CASE n < Half
    <3>1. n \in S /\ first[n] = <<n>>
      BY <2>1
    <3>2. u[n] = <<n>>
      BY <1>6, <3>1
    <3>3. QED
      BY <2>1, <3>2
  <2>2. CASE ~(n < Half)
    <3>1. n \in (0 .. N) \ S
      BY <2>2
    <3>2. next[n] = n \div Half /\ u[n \div Half] \in V
      BY <1>2, <1>6, <3>1
    <3>3. step[n][u[n \div Half]] = <<(n % Half) + Half>> \o u[n \div Half]
      <4> HIDE DEF V, S
      <4>1. QED
        BY <3>1, <3>2, SMTT(30)
    <3>4. u[n] = step[n][u[next[n]]]
      <4> HIDE DEF V, step, next
      <4>1. QED
        BY <1>6, <3>1
    <3>5. u[n] = <<(n % Half) + Half>> \o u[n \div Half]
      <4> HIDE DEF V, step, next
      <4>1. QED
        BY <3>2, <3>3, <3>4
    <3>6. QED
      BY <2>2, <3>5
  <2>3. QED
    BY <2>1, <2>2
<1> DEFINE D == CHOOSE d : d = [n \in 0 .. IdSpace - 1 |->
                    IF n < Half THEN <<n>> ELSE <<(n % Half) + Half>> \o d[n \div Half]]
<1>8. \A n \in 0 .. IdSpace - 1 : IdBytes(n) = D[n]
  BY DEF IdBytes
<1>9. u = [n \in 0 .. IdSpace - 1 |->
              IF n < Half THEN <<n>> ELSE <<(n % Half) + Half>> \o u[n \div Half]]
  <2> HIDE DEF V, S, first, next, step
  <2>1. QED
    BY <1>6, <1>7, SMTT(30) DEF N
<1>10. D = [n \in 0 .. IdSpace - 1 |->
              IF n < Half THEN <<n>> ELSE <<(n % Half) + Half>> \o D[n \div Half]]
  BY <1>9, ZenonT(30)
<1>11. \A n \in 0 .. IdSpace - 1 :
          D[n] = IF n < Half THEN <<n>> ELSE <<(n % Half) + Half>> \o D[n \div Half]
  <2> HIDE DEF D
  <2>1. QED
    BY ONLY <1>10
<1> HIDE DEF D
<1>12. \A n \in Nat : n \in 0 .. IdSpace - 1 => D[n] \in Seq(Byte)
  <2> DEFINE T == {n \in Nat : n \in 0 .. IdSpace - 1 => D[n] \in Seq(Byte)}
  <2>1. ASSUME NEW n \in Nat, \A m \in 0 .. n - 1 : m \in T PROVE n \in T
    <3> SUFFICES ASSUME n \in 0 .. IdSpace - 1 PROVE D[n] \in Seq(Byte)
      OBVIOUS
    <3>1. CASE n < Half
      <4>1. n \in Byte
        BY <1>1, <3>1, ByteFacts
      <4>2. <<n>> \in Seq(Byte)
        BY <4>1
      <4>3. QED
        BY <1>11, <3>1, <4>2
    <3>2. CASE ~(n < Half)
      <4>1. n \div Half \in 0 .. N /\ n \div Half < n
        BY <1>2, <3>2
      <4> DEFINE q == n \div Half
      <4>2. (n % Half) + Half \in Byte
        BY DigitsLeft, ByteFacts
      <4>3. D[q] \in Seq(Byte)
        <5>1. q \in 0 .. n - 1 /\ q \in 0 .. IdSpace - 1
          <6> HIDE DEF q
          <6>1. q \in 0 .. N /\ q < n
            BY <4>1 DEF q
          <6>2. QED
            BY <6>1
        <5>2. q \in T
          BY <2>1, <5>1
        <5>3. QED
          BY <5>1, <5>2
      <4>4. <<(n % Half) + Half>> \in Seq(Byte)
        BY <4>2
      <4>5. <<(n % Half) + Half>> \o D[q] \in Seq(Byte)
        BY ONLY <4>3, <4>4, ConcatProperties
      <4>6. QED
        BY <1>11, <3>2, <4>5
    <3>3. QED
      BY <3>1, <3>2
  <2>2. Nat \subseteq T
    <3> HIDE DEF T
    <3>1. QED
      BY <2>1, NatSetGeneralInduction
  <2>3. QED
    BY <2>2
<1>13. ASSUME NEW n \in 0 .. IdSpace - 1
       PROVE  /\ IdBytes(n) \in Seq(Byte)
              /\ IdBytes(n) = IF n < Half THEN <<n>>
                              ELSE <<(n % Half) + Half>> \o IdBytes(n \div Half)
  <2>1. IdBytes(n) = D[n] /\ n \in Nat
    BY <1>8
  <2>2. ~(n < Half) => n \div Half \in 0 .. IdSpace - 1
    BY <1>2
  <2>3. ~(n < Half) => IdBytes(n \div Half) = D[n \div Half]
    BY <1>8, <2>2
  <2>4. D[n] = IF n < Half THEN <<n>> ELSE <<(n % Half) + Half>> \o D[n \div Half]
    BY <1>11
  <2>5. QED
    BY <1>12, <2>1, <2>3, <2>4
<1>14. QED
  BY <1>13

\* The last byte of an id is the only one that says it is the last.
LEMMA IdBytesEnd ==
    \A n \in 0 .. IdSpace - 1 :
        /\ Len(IdBytes(n)) \in Nat \ {0}
        /\ IdBytes(n)[Len(IdBytes(n))] < Half
        /\ \A i \in 1 .. Len(IdBytes(n)) - 1 : ~(IdBytes(n)[i] < Half)
<1> DEFINE P(b) == /\ Len(b) \in Nat \ {0} /\ b[Len(b)] < Half
                   /\ \A i \in 1 .. Len(b) - 1 : ~(b[i] < Half)
           T == {n \in Nat : n <= IdSpace - 1 => P(IdBytes(n))}
<1>1. ASSUME NEW n \in Nat, \A m \in 0 .. n - 1 : m \in T PROVE n \in T
  <2> SUFFICES ASSUME n <= IdSpace - 1 PROVE P(IdBytes(n))
    OBVIOUS
  <2>1. n \in 0 .. IdSpace - 1 /\ IdSpace - 1 \in Nat
    BY CodecAssumption
  <2>2. CASE n < Half
    <3>1. IdBytes(n) = <<n>>
      BY <2>1, <2>2, IdBytesDef
    <3>2. Len(<<n>>) = 1 /\ <<n>>[1] = n
      OBVIOUS
    <3>3. QED
      BY <2>2, <3>1, <3>2
  <2>3. CASE ~(n < Half)
    <3> DEFINE q == n \div Half
               x == (n % Half) + Half
               b == IdBytes(q)
    <3>1. q \in Nat /\ q < n /\ x \in Byte /\ ~(x < Half)
      <4>1. n % Half \in 0 .. Half - 1 /\ Half \in Nat
        BY DigitsLeft, CodecAssumption
      <4>2. ~(x < Half)
        BY <4>1
      <4>3. QED
        BY <2>3, <4>1, <4>2, DigitsLeft, ByteFacts
    <3>2. IdBytes(n) = <<x>> \o b
      BY <2>1, <2>3, IdBytesDef
    <3> HIDE DEF q, x
    <3>3. q \in 0 .. IdSpace - 1 /\ q \in 0 .. n - 1
      BY <2>1, <3>1
    <3>4. q \in T
      BY <1>1, <3>3
    <3>5. b \in Seq(Byte) /\ P(b)
      <4>1. b \in Seq(Byte)
        BY <3>3, IdBytesDef
      <4>2. q <= IdSpace - 1
        BY <2>1, <3>3
      <4> HIDE DEF P
      <4>3. P(b)
        BY <3>4, <4>2
      <4>4. QED
        BY <4>1, <4>3
    <3> HIDE DEF b
    <3>6. <<x>> \in Seq(Byte) /\ Len(<<x>>) = 1 /\ <<x>>[1] = x
      BY <3>1
    <3> DEFINE y == <<x>> \o b
    <3>7. /\ Len(y) = 1 + Len(b)
          /\ \A i \in 1 .. 1 + Len(b) : y[i] = IF i <= 1 THEN <<x>>[i] ELSE b[i - 1]
      <4>1. b \in Seq(Byte)
        BY <3>5
      <4>2. QED
        BY ONLY <3>6, <4>1, ConcatProperties
    <3> HIDE DEF y
    <3>8. y[Len(y)] = b[Len(b)]
      <4>1. Len(y) \in 1 .. 1 + Len(b) /\ ~(Len(y) <= 1) /\ Len(y) - 1 = Len(b)
        BY <3>5, <3>7
      <4>2. QED
        BY ONLY <3>7, <4>1
    <3>9. ASSUME NEW i \in 1 .. Len(y) - 1 PROVE ~(y[i] < Half)
      <4>1. i \in 1 .. 1 + Len(b) /\ Len(b) \in Nat
        BY <3>5, <3>7
      <4>2. CASE i = 1
        BY <3>1, <3>6, <3>7, <4>1, <4>2
      <4>3. CASE i # 1
        <5>1. i - 1 \in 1 .. Len(b) - 1 /\ ~(i <= 1)
          BY <3>5, <3>7, <4>1, <4>3
        <5>2. y[i] = b[i - 1]
          BY ONLY <3>7, <4>1, <5>1
        <5>3. QED
          BY <3>5, <5>1, <5>2
      <4>4. QED
        BY <4>2, <4>3
    <3>10. P(y)
      BY <3>5, <3>7, <3>8, <3>9
    <3>11. QED
      BY <3>2, <3>10 DEF y
  <2>4. QED
    BY <2>2, <2>3
<1>2. Nat \subseteq T
  <2> HIDE DEF T
  <2>1. QED
    BY <1>1, NatSetGeneralInduction
<1>3. ASSUME NEW n \in 0 .. IdSpace - 1 PROVE P(IdBytes(n))
  <2> HIDE DEF P
  <2>1. n \in Nat /\ n <= IdSpace - 1 /\ n \in T
    BY <1>2
  <2>2. QED
    BY <2>1
<1>4. QED
  BY <1>3

\* A smaller number has no more bytes.
LEMMA IdBytesGrow ==
    \A b \in 0 .. IdSpace - 1 : \A a \in 0 .. b : Len(IdBytes(a)) <= Len(IdBytes(b))
<1> DEFINE T == {b \in Nat : b <= IdSpace - 1 => \A a \in 0 .. b : Len(IdBytes(a)) <= Len(IdBytes(b))}
<1>0. \A n \in 0 .. IdSpace - 1 : Len(IdBytes(n)) \in Nat \ {0}
  BY IdBytesEnd
<1>1. ASSUME NEW b \in Nat, \A m \in 0 .. b - 1 : m \in T PROVE b \in T
  <2> SUFFICES ASSUME b <= IdSpace - 1, NEW a \in 0 .. b
               PROVE  Len(IdBytes(a)) <= Len(IdBytes(b))
    OBVIOUS
  <2>1. /\ a \in 0 .. IdSpace - 1 /\ b \in 0 .. IdSpace - 1 /\ IdSpace - 1 \in Nat
        /\ a \in Nat /\ Half \in Nat \ {0}
    BY CodecAssumption
  <2>2. CASE a < Half
    <3>1. IdBytes(a) = <<a>> /\ Len(<<a>>) = 1
      BY <2>1, <2>2, IdBytesDef
    <3>2. Len(IdBytes(b)) \in Nat \ {0}
      BY <1>0, <2>1
    <3>3. QED
      BY <3>1, <3>2
  <2>3. CASE ~(a < Half)
    <3> DEFINE p == a \div Half
               q == b \div Half
    <3>1. ~(b < Half)
      BY <2>1, <2>3
    <3>2. p \in Nat /\ p < a /\ q \in Nat /\ q < b
      BY <2>1, <2>3, <3>1, DigitsLeft
    <3>3. p <= q
      <4>1. /\ a = p * Half + (a % Half) /\ a % Half \in 0 .. Half - 1
            /\ b = q * Half + (b % Half) /\ b % Half \in 0 .. Half - 1
        BY <2>1, DigitsLeft
      <4> DEFINE k == a % Half
                 l == b % Half
      <4> HIDE DEF p, q, k, l
      <4> SUFFICES ASSUME p > q PROVE FALSE
        BY <3>2
      <4>2. p * Half >= (q + 1) * Half
        BY <2>1, <3>2
      <4>3. (q + 1) * Half = q * Half + Half
        BY <2>1, <3>2
      <4> DEFINE x == p * Half
                 y == q * Half
      <4>4. x \in Nat /\ y \in Nat /\ x >= y + Half
        BY <2>1, <3>2, <4>2, <4>3
      <4>5. a = x + k /\ b = y + l /\ k \in 0 .. Half - 1 /\ l \in 0 .. Half - 1
        BY <4>1 DEF k, l
      <4> HIDE DEF x, y
      <4>6. QED
        BY <2>1, <4>4, <4>5
    <3>4. /\ IdBytes(a) = <<(a % Half) + Half>> \o IdBytes(p)
          /\ IdBytes(b) = <<(b % Half) + Half>> \o IdBytes(q)
      BY <2>1, <2>3, <3>1, IdBytesDef
    <3>5. (a % Half) + Half \in Byte /\ (b % Half) + Half \in Byte
      BY <2>1, DigitsLeft, ByteFacts
    <3> HIDE DEF p, q
    <3>6. p \in 0 .. IdSpace - 1 /\ q \in 0 .. IdSpace - 1 /\ p \in 0 .. q /\ q \in 0 .. b - 1
      BY <2>1, <3>2, <3>3
    <3>7. IdBytes(p) \in Seq(Byte) /\ IdBytes(q) \in Seq(Byte)
      BY <3>6, IdBytesDef
    <3>8. \A x \in Byte, s \in Seq(Byte) : Len(<<x>> \o s) = 1 + Len(s)
      <4>1. \A x \in Byte : <<x>> \in Seq(Byte) /\ Len(<<x>>) = 1
        OBVIOUS
      <4>2. QED
        BY <4>1, ConcatProperties
    <3>9. Len(IdBytes(a)) = 1 + Len(IdBytes(p)) /\ Len(IdBytes(b)) = 1 + Len(IdBytes(q))
      BY ONLY <3>4, <3>5, <3>7, <3>8
    <3>10. Len(IdBytes(p)) <= Len(IdBytes(q))
      <4>1. q \in T /\ q <= IdSpace - 1
        BY <1>1, <2>1, <3>6
      <4>2. QED
        BY <3>6, <4>1
    <3>11. Len(IdBytes(p)) \in Nat /\ Len(IdBytes(q)) \in Nat
      BY <1>0, <3>6
    <3>12. QED
      BY ONLY <3>9, <3>10, <3>11
  <2>4. QED
    BY <2>2, <2>3
<1>2. Nat \subseteq T
  <2> HIDE DEF T
  <2>1. QED
    BY <1>1, NatSetGeneralInduction
<1>3. ASSUME NEW b \in 0 .. IdSpace - 1, NEW a \in 0 .. b
      PROVE  Len(IdBytes(a)) <= Len(IdBytes(b))
  <2>1. b \in Nat /\ b <= IdSpace - 1 /\ b \in T
    BY <1>2
  <2>2. QED
    BY <2>1
<1>4. QED
  BY <1>3

\* So none has more than the C++ decoder reads.
LEMMA IdBytesFit == \A n \in 0 .. IdSpace - 1 : Len(IdBytes(n)) \in 1 .. Groups
<1> SUFFICES ASSUME NEW n \in 0 .. IdSpace - 1 PROVE Len(IdBytes(n)) \in 1 .. Groups
  OBVIOUS
<1>1. IdSpace - 1 \in 0 .. IdSpace - 1 /\ n \in 0 .. IdSpace - 1 /\ Groups \in Nat
  BY CodecAssumption
<1>2. Len(IdBytes(n)) <= Len(IdBytes(IdSpace - 1))
  BY <1>1, IdBytesGrow
<1>3. Len(IdBytes(n)) \in Nat \ {0} /\ Len(IdBytes(IdSpace - 1)) = Groups
  BY IdBytesEnd, CodecAssumption
<1>4. QED
  BY <1>1, <1>2, <1>3

-----------------------------------------------------------------------------
(* The number that an id's bytes amount to                                 *)

\* IdValue written out, with what each of the bytes and those behind it amount to.
Amounts(s, u) ==
    /\ u \in [0 .. Len(s) -> Nat] /\ u[Len(s)] = 0
    /\ \A i \in 0 .. Len(s) - 1 : u[i] = (s[i + 1] % Half) + Half * u[i + 1]

LEMMA IdValueDef ==
    ASSUME NEW s \in Seq(Nat)
    PROVE  \E u : Amounts(s, u) /\ IdValue(s) = u[0]
<1> DEFINE n    == Len(s)
           S    == {n}
           last == [i \in S |-> 0]
           next == [i \in (0 .. n) \ S |-> i + 1]
           step == [i \in (0 .. n) \ S |-> [v \in Nat |-> (s[i + 1] % Half) + Half * v]]
<1>1. n \in Nat /\ Half \in Nat \ {0} /\ \A i \in 1 .. n : s[i] \in Nat
  BY LenProperties, ElementOfSeq, CodecAssumption
<1>2. ASSUME NEW i \in 0 .. n - 1, NEW v \in Nat PROVE (s[i + 1] % Half) + Half * v \in Nat
  <2> DEFINE x == s[i + 1]
  <2>1. x \in Nat
    BY <1>1
  <2> HIDE DEF x
  <2>2. x % Half \in Nat /\ Half * v \in Nat
    BY <1>1, <2>1, DivMod
  <2>3. QED
    BY <2>2 DEF x
<1>3. (0 .. n) \ S = 0 .. n - 1
  BY <1>1
<1>4. Downward(n, Nat, S, last, next, step)
  <2>1. S \in SUBSET (0 .. n) /\ last \in [S -> Nat]
    BY <1>1
  <2>2. next \in [(0 .. n) \ S -> 0 .. n] /\ \A i \in (0 .. n) \ S : i < next[i]
    BY <1>1
  <2>3. step \in [(0 .. n) \ S -> [Nat -> Nat]]
    <3> HIDE DEF S, n
    <3>1. QED
      BY <1>2, <1>3
  <2> HIDE DEF S, last, next, step, n
  <2>4. QED
    BY ONLY <2>1, <2>2, <2>3 DEF Downward
<1>5. PICK u \in [0 .. n -> Nat] : \A i \in 0 .. n :
          u[i] = IF i \in S THEN last[i] ELSE step[i][u[next[i]]]
  <2> HIDE DEF S, last, next, step, n
  <2>1. QED
    BY ONLY <1>1, <1>4, RecursionFromTheEnd, SMTT(30)
<1>6. ASSUME NEW i \in 0 .. n
      PROVE  u[i] = IF i = Len(s) THEN 0 ELSE (s[i + 1] % Half) + Half * u[i + 1]
  <2>1. CASE i = n
    <3>1. i \in S /\ last[i] = 0
      BY <2>1
    <3>2. u[i] = 0
      BY <1>5, <3>1
    <3>3. QED
      BY <2>1, <3>2
  <2>2. CASE i # n
    <3>1. i \in (0 .. n) \ S /\ next[i] = i + 1 /\ u[i + 1] \in Nat
      BY <1>1, <1>5, <2>2, SMTT(30)
    <3>2. step[i][u[i + 1]] = (s[i + 1] % Half) + Half * u[i + 1]
      <4> HIDE DEF S, n
      <4>1. QED
        BY <3>1
    <3>3. u[i] = step[i][u[i + 1]]
      <4> HIDE DEF step, next
      <4>1. QED
        BY <1>5, <3>1
    <3>4. QED
      BY <2>2, <3>2, <3>3
  <2>3. QED
    BY <2>1, <2>2
<1> DEFINE D == CHOOSE d : d = [i \in 0 .. Len(s) |->
                    IF i = Len(s) THEN 0 ELSE (s[i + 1] % Half) + Half * d[i + 1]]
<1>7. IdValue(s) = D[0]
  BY DEF IdValue
<1>8. u = [i \in 0 .. Len(s) |->
              IF i = Len(s) THEN 0 ELSE (s[i + 1] % Half) + Half * u[i + 1]]
  <2> HIDE DEF S, last, next, step
  <2>1. QED
    BY <1>5, <1>6
<1>9. D = [i \in 0 .. Len(s) |->
              IF i = Len(s) THEN 0 ELSE (s[i + 1] % Half) + Half * D[i + 1]]
  BY <1>8
<1> HIDE DEF D
<1>10. \A i \in 0 .. n : D[i] = IF i = n THEN 0 ELSE (s[i + 1] % Half) + Half * D[i + 1]
  BY ONLY <1>9
<1>11. \A i \in 0 .. n : D[i] \in Nat
  <2> DEFINE T == {i \in 0 .. n : D[i] \in Nat}
  <2>1. ASSUME NEW i \in 0 .. n, \A j \in i + 1 .. n : j \in T PROVE i \in T
    <3>1. CASE i = n
      BY <1>10, <3>1
    <3>2. CASE i # n
      <4>1. i + 1 \in i + 1 .. n /\ i \in 0 .. n - 1
        BY <1>1, <3>2
      <4>2. D[i + 1] \in Nat
        BY <2>1, <4>1
      <4>3. QED
        BY <1>2, <1>10, <3>2, <4>1, <4>2
    <3>3. QED
      BY <3>1, <3>2
  <2>2. 0 .. n \subseteq T
    <3> HIDE DEF T, n
    <3>1. QED
      BY <1>1, <2>1, DownwardInduction
  <2>3. QED
    BY <2>2
<1>12. Amounts(s, D)
  <2>1. D \in [0 .. n -> Nat]
    BY <1>9, <1>11
  <2>2. D[n] = 0
    BY <1>1, <1>10
  <2>3. ASSUME NEW i \in 0 .. n - 1 PROVE D[i] = (s[i + 1] % Half) + Half * D[i + 1]
    <3>1. i \in 0 .. n /\ i # n
      BY <1>1
    <3>2. QED
      BY ONLY <1>10, <3>1
  <2>4. QED
    BY <2>1, <2>2, <2>3 DEF Amounts
<1>13. QED
  BY <1>7, <1>12

LEMMA IdValueNat ==
    ASSUME NEW s \in Seq(Nat)
    PROVE  IdValue(s) \in Nat
<1>1. PICK u : Amounts(s, u) /\ IdValue(s) = u[0]
  BY IdValueDef
<1>2. Len(s) \in Nat /\ u \in [0 .. Len(s) -> Nat]
  BY <1>1, LenProperties DEF Amounts
<1>3. 0 \in 0 .. Len(s)
  BY <1>2
<1>4. QED
  BY <1>1, <1>2, <1>3

\* A byte in front is the lowest digit.
LEMMA IdValueOfMore ==
    ASSUME NEW x \in Nat, NEW b \in Seq(Nat)
    PROVE  IdValue(<<x>> \o b) = (x % Half) + Half * IdValue(b)
<1> DEFINE y == <<x>> \o b
           n == Len(b)
<1>1. /\ y \in Seq(Nat) /\ Len(y) = 1 + n /\ n \in Nat
      /\ \A i \in 1 .. 1 + n : y[i] = IF i <= 1 THEN x ELSE b[i - 1]
  <2>1. <<x>> \in Seq(Nat) /\ Len(<<x>>) = 1 /\ <<x>>[1] = x /\ n \in Nat
    BY LenProperties
  <2>2. /\ y \in Seq(Nat) /\ Len(y) = Len(<<x>>) + Len(b)
        /\ \A i \in 1 .. Len(<<x>>) + Len(b) :
              y[i] = IF i <= Len(<<x>>) THEN <<x>>[i] ELSE b[i - Len(<<x>>)]
    <3>1. b \in Seq(Nat)
      OBVIOUS
    <3>2. QED
      BY ONLY <2>1, <3>1, ConcatProperties
  <2> HIDE DEF y
  <2>3. \A i \in 1 .. 1 + n : i <= 1 => i = 1
    BY <2>1
  <2>4. QED
    BY <2>1, <2>2, <2>3
<1> HIDE DEF y
<1>2. PICK u : Amounts(b, u) /\ IdValue(b) = u[0]
  BY IdValueDef
<1>3. PICK w : Amounts(y, w) /\ IdValue(y) = w[0]
  BY <1>1, IdValueDef
<1>4. /\ u \in [0 .. n -> Nat] /\ u[n] = 0
      /\ \A i \in 0 .. n - 1 : u[i] = (b[i + 1] % Half) + Half * u[i + 1]
  BY <1>2 DEF Amounts
<1>5. /\ w[1 + n] = 0
      /\ \A i \in 0 .. n : w[i] = (y[i + 1] % Half) + Half * w[i + 1]
  <2>1. Len(y) - 1 = n
    BY <1>1
  <2>2. QED
    BY <1>1, <1>3, <2>1 DEF Amounts
<1> HIDE DEF n
<1>6. \A i \in 0 .. n : w[i + 1] = u[i]
  <2> DEFINE T == {i \in 0 .. n : w[i + 1] = u[i]}
  <2>1. ASSUME NEW i \in 0 .. n, \A j \in i + 1 .. n : j \in T PROVE i \in T
    <3>1. CASE i = n
      <4>1. i + 1 = 1 + n
        BY <3>1, <1>1
      <4>2. QED
        BY <1>4, <1>5, <3>1, <4>1
    <3>2. CASE i # n
      <4>1. i + 1 \in i + 1 .. n /\ i \in 0 .. n - 1 /\ i + 1 \in 0 .. n
            /\ (i + 1) + 1 \in 1 .. 1 + n /\ ~((i + 1) + 1 <= 1) /\ ((i + 1) + 1) - 1 = i + 1
        BY <1>1, <3>2
      <4>2. w[(i + 1) + 1] = u[i + 1]
        BY <2>1, <4>1
      <4>3. y[(i + 1) + 1] = b[i + 1]
        BY ONLY <1>1, <4>1
      <4>4. w[i + 1] = (y[(i + 1) + 1] % Half) + Half * w[(i + 1) + 1]
        BY <1>5, <4>1
      <4>5. w[i + 1] = (b[i + 1] % Half) + Half * u[i + 1]
        BY ONLY <4>2, <4>3, <4>4
      <4>6. QED
        BY <1>4, <4>1, <4>5
    <3>3. QED
      BY <3>1, <3>2
  <2>2. 0 .. n \subseteq T
    <3> HIDE DEF T
    <3>1. QED
      BY <1>1, <2>1, DownwardInduction
  <2>3. QED
    BY <2>2
<1>7. w[0] = (y[1] % Half) + Half * w[1] /\ y[1] = x /\ w[1] = u[0]
  <2>1. 0 \in 0 .. n /\ 0 + 1 = 1 /\ 1 \in 1 .. 1 + n /\ 1 <= 1
    BY <1>1
  <2>2. w[0] = (y[0 + 1] % Half) + Half * w[0 + 1] /\ w[0 + 1] = u[0]
    BY <1>5, <1>6, <2>1
  <2>3. y[1] = x
    BY ONLY <1>1, <2>1
  <2>4. QED
    BY <2>1, <2>2, <2>3
<1>8. QED
  BY ONLY <1>2, <1>3, <1>7 DEF y

LEMMA IdValueOfNone == IdValue(<<>>) = 0
<1>1. <<>> \in Seq(Nat) /\ Len(<<>>) = 0
  OBVIOUS
<1>2. PICK u : Amounts(<<>>, u) /\ IdValue(<<>>) = u[0]
  BY <1>1, IdValueDef
<1>3. QED
  BY <1>1, <1>2 DEF Amounts

\* Every id of the C++ client's width, and so every id of a request, is read back from
\* the bytes it was written in.
THEOREM IdReadBack == \A n \in 0 .. IdSpace - 1 : IdValue(IdBytes(n)) = n
<1> DEFINE T == {n \in Nat : n <= IdSpace - 1 => IdValue(IdBytes(n)) = n}
<1>1. ASSUME NEW n \in Nat, \A m \in 0 .. n - 1 : m \in T PROVE n \in T
  <2> SUFFICES ASSUME n <= IdSpace - 1 PROVE IdValue(IdBytes(n)) = n
    OBVIOUS
  <2>1. n \in 0 .. IdSpace - 1 /\ IdSpace - 1 \in Nat /\ Half \in Nat \ {0}
    BY CodecAssumption
  <2>2. CASE n < Half
    <3>1. IdBytes(n) = <<n>>
      BY <2>1, <2>2, IdBytesDef
    <3>2. <<n>> \o <<>> = <<n>> /\ <<>> \in Seq(Nat)
      <4>1. <<n>> \in Seq(Nat)
        OBVIOUS
      <4>2. QED
        BY <4>1, ConcatEmptySeq
    <3>3. IdValue(<<n>> \o <<>>) = (n % Half) + Half * IdValue(<<>>)
      BY <3>2, IdValueOfMore
    <3>4. n % Half = n
      <4>1. n = 0 * Half + n /\ n \in 0 .. Half - 1
        BY <2>1, <2>2
      <4>2. QED
        BY <2>1, <4>1, DivModUnique
    <3>5. Half * 0 = 0
      BY <2>1
    <3>6. QED
      BY <3>1, <3>2, <3>3, <3>4, <3>5, IdValueOfNone
  <2>3. CASE ~(n < Half)
    <3> DEFINE q == n \div Half
               m == n % Half
               x == m + Half
    <3>1. q \in Nat /\ q < n /\ m \in 0 .. Half - 1 /\ n = q * Half + m
      BY <2>3, DigitsLeft
    <3>2. IdBytes(n) = <<x>> \o IdBytes(q)
      BY <2>1, <2>3, IdBytesDef
    <3> HIDE DEF q, m
    <3>3. q \in 0 .. IdSpace - 1 /\ q \in 0 .. n - 1 /\ q <= IdSpace - 1
      BY <2>1, <3>1
    <3>4. IdValue(IdBytes(q)) = q
      <4>1. q \in T
        BY <1>1, <3>3
      <4>2. QED
        BY <3>3, <4>1
    <3>5. x \in Nat /\ x % Half = m
      <4>1. x \in Nat /\ x = 1 * Half + m
        BY <2>1, <3>1
      <4> HIDE DEF x
      <4>2. QED
        BY <2>1, <3>1, <4>1, DivModUnique
    <3>6. IdBytes(q) \in Seq(Nat)
      BY <3>3, IdBytesDef, ByteSeqIsNatSeq
    <3> HIDE DEF x
    <3>7. IdValue(IdBytes(n)) = m + Half * q
      BY <3>2, <3>4, <3>5, <3>6, IdValueOfMore
    <3>8. QED
      BY <2>1, <3>1, <3>7
  <2>4. QED
    BY <2>2, <2>3
<1>2. Nat \subseteq T
  <2> HIDE DEF T
  <2>1. QED
    BY <1>1, NatSetGeneralInduction
<1>3. ASSUME NEW n \in 0 .. IdSpace - 1 PROVE IdValue(IdBytes(n)) = n
  <2>1. n \in Nat /\ n <= IdSpace - 1 /\ n \in T
    BY <1>2
  <2>2. QED
    BY <2>1
<1>4. QED
  BY <1>3

-----------------------------------------------------------------------------
(* Where an id ends                                                        *)

LEMMA MinOf ==
    ASSUME NEW S, S \subseteq Nat, S # {}
    PROVE  Min(S) \in S /\ \A y \in S : Min(S) <= y
BY LeastNumber DEF Min

\* What the two decoders find behind an id that has an end.
LEMMA IdWithEnd ==
    ASSUME NEW s \in Seq(Nat), IdEnds(s) # {}
    PROVE  /\ GoIdLength(s) = Min(IdEnds(s)) /\ CppIdLength(s) = Min(IdEnds(s))
           /\ Min(IdEnds(s)) \in 1 .. Len(s) /\ Min(IdEnds(s)) \in IdEnds(s)
           /\ \A i \in IdEnds(s) : Min(IdEnds(s)) <= i
           /\ GoId(s) = IdValue(SubSeq(s, 1, Min(IdEnds(s)))) % (IdSpace * IdSpace)
           /\ CppId(s) = IdValue(SubSeq(s, 1, Min(IdEnds(s)))) % IdSpace
           /\ IdValue(SubSeq(s, 1, Min(IdEnds(s)))) \in Nat
<1>1. IdEnds(s) \subseteq 1 .. Len(s) /\ Len(s) \in Nat
  BY LenProperties DEF IdEnds
<1>2. Min(IdEnds(s)) \in IdEnds(s) /\ \A i \in IdEnds(s) : Min(IdEnds(s)) <= i
  BY <1>1, MinOf
<1>3. SubSeq(s, 1, Min(IdEnds(s))) \in Seq(Nat)
  <2> DEFINE k == Min(IdEnds(s))
  <2>1. k \in 1 .. Len(s)
    BY <1>1, <1>2
  <2> HIDE DEF k
  <2>2. SubSeq(s, 1, k) \in Seq(Nat)
    BY <2>1, QueueCut
  <2>3. QED
    BY <2>2 DEF k
<1>4. QED
  BY <1>1, <1>2, <1>3, IdValueNat DEF GoIdLength, CppIdLength, GoId, CppId

\* The wider remainder is the narrower one where it is small enough.
LEMMA NarrowRemainder ==
    ASSUME NEW v \in Nat, v % (IdSpace * IdSpace) < IdSpace
    PROVE  v % IdSpace = v % (IdSpace * IdSpace)
<1> DEFINE S == IdSpace
           R == S * S
           q == v \div R
           m == v % R
<1>1. S \in Nat \ {0}
  BY CodecAssumption
<1>2. R \in Nat \ {0}
  BY <1>1
<1>3. q \in Nat /\ m \in 0 .. R - 1 /\ v = q * R + m
  <2> HIDE DEF R
  <2>1. QED
    BY <1>2, DivMod
<1>4. m < S
  OBVIOUS
<1> HIDE DEF q, m, S
<1>5. m \in 0 .. S - 1
  BY <1>1, <1>2, <1>3, <1>4
<1>6. q * R = (q * S) * S /\ q * S \in Nat
  BY <1>1, <1>3
<1>7. v = (q * S) * S + m
  BY <1>3, <1>6
<1>8. v % S = m
  BY <1>1, <1>5, <1>6, <1>7, DivModUnique
<1>9. QED
  BY <1>8 DEF m, S

\* An id that an encoder wrote is found, and what is behind it.
LEMMA IdInFront ==
    ASSUME NEW n \in 0 .. IdSpace - 1, NEW t \in Seq(Byte)
    PROVE  LET s == IdBytes(n) \o t IN
           /\ s \in Seq(Byte) /\ s # <<>>
           /\ GoIdLength(s) = Len(IdBytes(n)) /\ CppIdLength(s) = Len(IdBytes(n))
           /\ GoId(s) = n /\ CppId(s) = n /\ CppIdFits(s)
           /\ Behind(s, Len(IdBytes(n))) = t
<1> DEFINE b == IdBytes(n)
           k == Len(b)
           s == b \o t
<1>1. /\ b \in Seq(Byte) /\ k \in Nat \ {0} /\ b[k] < Half /\ k \in 1 .. Groups
      /\ \A i \in 1 .. k - 1 : ~(b[i] < Half)
  BY IdBytesDef, IdBytesEnd, IdBytesFit
<1>0. IdValue(b) = n /\ IdSpace \in Nat \ {0} /\ n \in Nat /\ n < IdSpace
  BY IdReadBack, CodecAssumption
<1> HIDE DEF b
<1>2. /\ s \in Seq(Byte) /\ Len(s) = k + Len(t) /\ Len(t) \in Nat
      /\ \A i \in 1 .. k : s[i] = b[i]
  <2>1. Len(t) \in Nat /\ k \in Nat
    BY <1>1, LenProperties
  <2>2. QED
    BY <1>1, <2>1, ConcatProperties
<1>3. SubSeq(s, 1, k) = b /\ Behind(s, k) = t
  <2>1. b \in Seq(Byte) /\ t \in Seq(Byte)
    BY <1>1
  <2>2. QED
    BY ONLY <2>1, FrontOfConcat, BackOfConcat DEF Behind, k, s
<1> HIDE DEF k, s
<1>4. k \in DOMAIN s /\ DOMAIN s = 1 .. k + Len(t) /\ s \in Seq(Nat)
  BY <1>1, <1>2, LenProperties, ByteSeqIsNatSeq
<1>5. k \in IdEnds(s)
  <2>1. s[k] = b[k]
    BY <1>1, <1>2
  <2>2. QED
    BY <1>1, <1>4, <2>1 DEF IdEnds
<1>6. \A i \in IdEnds(s) : i \in Nat /\ k <= i
  <2> SUFFICES ASSUME NEW i \in IdEnds(s), i < k PROVE FALSE
    BY <1>1, <1>2, <1>4 DEF IdEnds
  <2>1. i \in 1 .. k - 1 /\ i \in 1 .. k /\ s[i] < Half
    BY <1>1, <1>2, <1>4 DEF IdEnds
  <2>2. s[i] = b[i] /\ ~(b[i] < Half)
    BY <1>1, <1>2, <2>1
  <2>3. QED
    BY <2>1, <2>2
<1>7. Min(IdEnds(s)) = k
  <2>1. Min(IdEnds(s)) \in IdEnds(s) /\ Min(IdEnds(s)) <= k
    BY <1>4, <1>5, IdWithEnd
  <2>2. QED
    BY <1>1, <1>6, <2>1
<1>8. /\ GoIdLength(s) = k /\ CppIdLength(s) = k
      /\ GoId(s) = n % (IdSpace * IdSpace) /\ CppId(s) = n % IdSpace
  BY <1>0, <1>3, <1>4, <1>5, <1>7, IdWithEnd
<1>9. n % IdSpace = n
  <2>1. n = 0 * IdSpace + n /\ n \in 0 .. IdSpace - 1
    BY <1>0
  <2>2. QED
    BY <1>0, <2>1, DivModUnique
<1>10. n % (IdSpace * IdSpace) = n
  <2> DEFINE R == IdSpace * IdSpace
  <2>1. IdSpace <= R /\ R \in Nat \ {0}
    BY <1>0
  <2> HIDE DEF R
  <2>2. n = 0 * R + n /\ n \in 0 .. R - 1
    BY <1>0, <2>1
  <2>3. n % R = n
    BY <1>0, <2>1, <2>2, DivModUnique
  <2>4. QED
    BY <2>3 DEF R
<1>11. CppIdFits(s)
  BY <1>1, <1>5 DEF CppIdFits
<1>12. s # <<>>
  BY <1>1, <1>2
<1>13. QED
  BY <1>2, <1>3, <1>8, <1>9, <1>10, <1>11, <1>12 DEF s, k, b

-----------------------------------------------------------------------------
(* The two decoders                                                        *)

\* Body gives a message or rejects.
LEMMA BodyResult ==
    \A flag, id, rest, codes :
        LET got == Body(flag, id, rest, codes) IN
        got = Rejected \/ got = [ok |-> TRUE, msg |-> got.msg]
<1> SUFFICES ASSUME NEW flag, NEW id, NEW rest, NEW codes
             PROVE  Body(flag, id, rest, codes) = Rejected
                    \/ Body(flag, id, rest, codes) =
                           [ok |-> TRUE, msg |-> Body(flag, id, rest, codes).msg]
  OBVIOUS
<1> DEFINE got == Body(flag, id, rest, codes)
           msg(route, data) == [type |-> flag.type, id |-> id, route |-> route,
                                data |-> data, err |-> flag.err]
           packed(route, data) == [ok |-> TRUE, msg |-> msg(route, data)]
           code == rest[1] * Base + rest[2]
<1>1. got = IF ~Routable(flag.type) THEN packed(<<>>, rest)
            ELSE IF flag.compressed
                 THEN IF Len(rest) < 2 \/ code \notin DOMAIN codes THEN Rejected
                      ELSE packed(codes[code], Behind(rest, 2))
            ELSE IF 1 + rest[1] > Len(rest) THEN Rejected
            ELSE packed(SubSeq(rest, 2, 1 + rest[1]), Behind(rest, 1 + rest[1]))
  BY DEF Body
<1>2. \A route, data : packed(route, data) = [ok |-> TRUE, msg |-> packed(route, data).msg]
  OBVIOUS
<1> HIDE DEF got, packed, code
<1>3. got = Rejected \/ \E route, data : got = packed(route, data)
  BY ONLY <1>1
<1>4. got = Rejected \/ got = [ok |-> TRUE, msg |-> got.msg]
  BY <1>2, <1>3
<1>5. QED
  BY <1>4 DEF got

\* What is behind the id, and the id, in the two decoders.
GoRest(raw)  == IF HasId(raw.flag.type) THEN Behind(raw.rest, GoIdLength(raw.rest)) ELSE raw.rest
CppRest(raw) == IF HasId(raw.flag.type) THEN Behind(raw.rest, CppIdLength(raw.rest)) ELSE raw.rest
GoNumber(raw)  == IF HasId(raw.flag.type) THEN GoId(raw.rest) ELSE 0
CppNumber(raw) == IF HasId(raw.flag.type) THEN CppId(raw.rest) ELSE 0

\* Is there neither a code nor a length where a route should be?
NoLength(raw, rest) == Routable(raw.flag.type) /\ ~raw.flag.compressed /\ rest = <<>>

LEMMA GoDecodeDef ==
    ASSUME NEW codes, NEW raw
    PROVE  LET got == Body(raw.flag, GoNumber(raw), GoRest(raw), codes) IN
           GoDecode(codes, raw) =
               IF raw.rest = <<>> \/ InvalidType(raw.flag.type) THEN Rejected
               ELSE IF NoLength(raw, GoRest(raw)) THEN Panics
               ELSE IF ~got.ok \/ ~raw.flag.gzip THEN got
               ELSE IF IsZip(got.msg.data) THEN [got EXCEPT !.msg.data = Inflate(@)]
               ELSE Rejected
BY DEF GoDecode, GoRest, GoNumber, NoLength

LEMMA CppDecodeDef ==
    ASSUME NEW codes, NEW raw
    PROVE  CppDecode(codes, raw) =
               IF \/ raw.rest = <<>> \/ InvalidType(raw.flag.type)
                  \/ HasId(raw.flag.type) /\ ~CppIdFits(raw.rest)
                  \/ NoLength(raw, CppRest(raw))
               THEN Rejected
               ELSE Body(raw.flag, CppNumber(raw), CppRest(raw), codes)
BY DEF CppDecode, CppRest, CppNumber, NoLength

\* With the same dictionary the two decoders agree on any bytes, unless the id has no
\* end or is too large for the C++ client, or the data is compressed; and where Go
\* panics, because it reads the length of a route that is not there, C++ rejects.
THEOREM DecodersAgreeOnBytes ==
    ASSUME NEW codes, NEW raw, raw.rest \in Seq(Nat)
    PROVE  LET go     == GoDecode(codes, raw)
               cpp    == CppDecode(codes, raw)
               sameId == HasId(raw.flag.type) =>
                           /\ \E i \in 1 .. Groups : i \in IdEnds(raw.rest)
                           /\ GoId(raw.rest) < IdSpace
           IN  /\ ~go.ok /\ go.panics => ~cpp.ok
               /\ ~raw.flag.gzip /\ sameId => go.ok = cpp.ok /\ (go.ok => go.msg = cpp.msg)
<1> DEFINE go     == GoDecode(codes, raw)
           cpp    == CppDecode(codes, raw)
           s      == raw.rest
           bad    == s = <<>> \/ InvalidType(raw.flag.type)
           sameId == HasId(raw.flag.type) =>
                       (\E i \in 1 .. Groups : i \in IdEnds(s)) /\ GoId(s) < IdSpace
           body   == Body(raw.flag, GoNumber(raw), GoRest(raw), codes)
<1>1. ~Rejected.ok /\ ~Rejected.panics /\ ~Panics.ok
  BY DEF Rejected, Panics
<1>2. ASSUME bad PROVE go = cpp /\ ~go.ok /\ ~go.panics /\ ~cpp.ok
  <2>1. go = Rejected /\ cpp = Rejected
    BY <1>2, GoDecodeDef, CppDecodeDef
  <2> HIDE DEF go, cpp
  <2>2. QED
    BY <1>1, <2>1, Zenon
<1>3. ASSUME ~bad, NoLength(raw, GoRest(raw)) PROVE go = Panics /\ cpp = Rejected
  <2>1. go = Panics
    BY <1>3, GoDecodeDef
  <2>2. GoRest(raw) = CppRest(raw)
    <3>1. CASE ~HasId(raw.flag.type)
      BY <3>1 DEF GoRest, CppRest
    <3>2. CASE HasId(raw.flag.type) /\ IdEnds(s) # {}
      <4>1. GoIdLength(s) = CppIdLength(s)
        BY <3>2, IdWithEnd
      <4>2. QED
        BY <4>1 DEF GoRest, CppRest
    <3>3. CASE HasId(raw.flag.type) /\ IdEnds(s) = {}
      <4>1. GoRest(raw) = SubSeq(s, 1, Len(s))
        <5>1. GoIdLength(s) = 0 /\ 0 + 1 = 1
          BY <3>3 DEF GoIdLength
        <5>2. QED
          BY <3>3, <5>1 DEF GoRest, Behind
      <4>2. SubSeq(s, 1, Len(s)) = s
        <5>1. s \in Seq(Nat) /\ <<>> \in Seq(Nat) /\ s \o <<>> = s
          BY ConcatEmptySeq
        <5>2. SubSeq(s \o <<>>, 1, Len(s)) = s
          BY <5>1, FrontOfConcat
        <5>3. QED
          BY <5>1, <5>2
      <4>3. QED
        BY <1>3, <4>1, <4>2 DEF NoLength
    <3>4. QED
      BY <3>1, <3>2, <3>3
  <2>3. cpp = Rejected
    BY <1>3, <2>2, CppDecodeDef
  <2>4. QED
    BY <2>1, <2>3
<1>4. ASSUME ~bad, ~NoLength(raw, GoRest(raw)) PROVE go.ok \/ ~go.panics
  <2>1. \/ go = body /\ (~body.ok \/ ~raw.flag.gzip)
        \/ body.ok /\ go = [body EXCEPT !.msg.data = Inflate(@)]
        \/ go = Rejected
    BY <1>4, GoDecodeDef
  <2>2. body = Rejected \/ body = [ok |-> TRUE, msg |-> body.msg]
    BY BodyResult
  <2> HIDE DEF body, go
  <2>3. CASE go = body
    BY <1>1, <2>2, <2>3
  <2>4. CASE body.ok /\ go = [body EXCEPT !.msg.data = Inflate(@)]
    <3>1. body = [ok |-> TRUE, msg |-> body.msg]
      BY <1>1, <2>2, <2>4
    <3>2. QED
      BY <2>4, <3>1
  <2>5. QED
    BY <1>1, <2>1, <2>3, <2>4
<1>5. ASSUME ~bad, ~NoLength(raw, GoRest(raw)), ~raw.flag.gzip, sameId PROVE go = cpp
  <2>1. go = body
    BY <1>5, GoDecodeDef
  <2>2. /\ GoRest(raw) = CppRest(raw) /\ GoNumber(raw) = CppNumber(raw)
        /\ HasId(raw.flag.type) => CppIdFits(s)
    <3>1. CASE ~HasId(raw.flag.type)
      BY <3>1 DEF GoRest, CppRest, GoNumber, CppNumber
    <3>2. CASE HasId(raw.flag.type)
      <4>1. CppIdFits(s) /\ IdEnds(s) # {} /\ GoId(s) < IdSpace
        BY <1>5, <3>2 DEF CppIdFits
      <4>2. GoIdLength(s) = CppIdLength(s)
        BY <4>1, IdWithEnd
      <4>3. GoId(s) = CppId(s)
        BY <4>1, IdWithEnd, NarrowRemainder
      <4>4. QED
        BY <4>1, <4>2, <4>3 DEF GoRest, CppRest, GoNumber, CppNumber
    <3>3. QED
      BY <3>1, <3>2
  <2>3. cpp = Body(raw.flag, CppNumber(raw), CppRest(raw), codes)
    BY <1>5, <2>2, CppDecodeDef
  <2>4. QED
    BY <2>1, <2>2, <2>3
<1> HIDE DEF go, cpp, bad, sameId, body
<1>6. ~go.ok /\ go.panics => ~cpp.ok
  <2>1. CASE bad
    BY <1>2, <2>1
  <2>2. CASE ~bad /\ NoLength(raw, GoRest(raw))
    <3>1. cpp = Rejected
      BY <1>3, <2>2
    <3>2. QED
      BY <1>1, <3>1, Zenon
  <2>3. CASE ~bad /\ ~NoLength(raw, GoRest(raw))
    BY <1>4, <2>3
  <2>4. QED
    BY <2>1, <2>2, <2>3
<1>7. ~raw.flag.gzip /\ sameId => go.ok = cpp.ok /\ (go.ok => go.msg = cpp.msg)
  <2>1. CASE ~bad /\ NoLength(raw, GoRest(raw))
    <3>1. go = Panics /\ cpp = Rejected
      BY <1>3, <2>1
    <3>2. Panics.ok = FALSE /\ Rejected.ok = FALSE
      BY DEF Panics, Rejected
    <3>3. QED
      BY <3>1, <3>2, Zenon
  <2>2. CASE ~bad /\ ~NoLength(raw, GoRest(raw))
    BY <1>5, <2>2
  <2>3. CASE bad
    BY <1>2, <2>3
  <2>4. QED
    BY <2>1, <2>2, <2>3
<1>8. QED
  BY <1>6, <1>7 DEF go, cpp, sameId

-----------------------------------------------------------------------------
(* A message, from its sender to its reader                                *)

\* The messages that are sent.
Message ==
    {m \in [type : Request .. Push, id : 0 .. IdSpace - 1, route : Seq(Byte),
            data : Seq(Byte), err : BOOLEAN] :
        (~HasId(m.type) => m.id = 0) /\ (~Routable(m.type) => m.route = <<>>)}

\* A message as it goes out: with these data, compressed or not, and with a code for
\* its route or without one.
RoutePart(m, coded, code) ==
    IF ~Routable(m.type) THEN <<>> ELSE IF coded THEN CodeBytes(code) ELSE RouteBytes(m.route)

Raw(m, data, zipped, coded, code) ==
    [flag |-> [type |-> m.type, compressed |-> coded, gzip |-> zipped, err |-> m.err],
     rest |-> (IF HasId(m.type) THEN IdBytes(m.id) ELSE <<>>) \o RoutePart(m, coded, code) \o data]

\* The route its reader finds, with this half of its dictionary, and the message.
RouteFound(m, coded, code, codes) == IF Routable(m.type) /\ coded THEN codes[code] ELSE m.route

Found(m, route, data) ==
    [ok |-> TRUE, msg |-> [type |-> m.type, id |-> m.id, route |-> route,
                           data |-> data, err |-> m.err]]

\* A code that fits, and a route that does where there is no code.
Sendable(m, coded, code) ==
    /\ coded \in BOOLEAN
    /\ IF coded THEN code \in 0 .. Base * Base - 1 ELSE Len(m.route) < Base

LEMMA EmptyIsByteSeq == <<>> \in Seq(Byte) /\ Len(<<>>) = 0
BY EmptySeq

LEMMA ConcatBytes ==
    ASSUME NEW s \in Seq(Byte), NEW t \in Seq(Byte)
    PROVE  /\ s \o t \in Seq(Byte) /\ Len(s \o t) = Len(s) + Len(t)
           /\ Len(s) \in Nat /\ Len(t) \in Nat
           /\ \A i \in 1 .. Len(s) : (s \o t)[i] = s[i]
           /\ s # <<>> => s \o t # <<>>
           /\ Behind(s \o t, Len(s)) = t /\ SubSeq(s \o t, 1, Len(s)) = s
<1>1. Len(s) \in Nat /\ Len(t) \in Nat
  BY LenProperties
<1>2. /\ s \o t \in Seq(Byte) /\ Len(s \o t) = Len(s) + Len(t)
      /\ \A i \in 1 .. Len(s) : (s \o t)[i] = s[i]
  BY <1>1, ConcatProperties
<1>3. ASSUME s # <<>> PROVE s \o t # <<>>
  <2>1. Len(s) # 0
    BY <1>3, EmptySeq
  <2>2. Len(s \o t) # 0
    BY <1>1, <1>2, <2>1
  <2>3. QED
    BY <2>2
<1>4. SubSeq(s \o t, Len(s) + 1, Len(s \o t)) = t /\ SubSeq(s \o t, 1, Len(s)) = s
  <2>1. s \in Seq(Byte) /\ t \in Seq(Byte)
    OBVIOUS
  <2>2. QED
    BY ONLY <2>1, FrontOfConcat, BackOfConcat
<1>5. QED
  BY <1>1, <1>2, <1>3, <1>4 DEF Behind

\* The two bytes of a code.
LEMMA CodeBack ==
    ASSUME NEW code \in 0 .. Base * Base - 1
    PROVE  /\ CodeBytes(code) \in Seq(Byte) /\ Len(CodeBytes(code)) = 2 /\ CodeBytes(code) # <<>>
           /\ CodeBytes(code)[1] * Base + CodeBytes(code)[2] = code
<1> DEFINE q == code \div Base
           r == code % Base
<1>1. Base \in Nat \ {0} /\ code \in Nat /\ code < Base * Base
  <2> DEFINE B == Base
  <2>1. B \in Nat \ {0}
    BY ByteFacts
  <2>2. B * B \in Nat
    BY <2>1
  <2> HIDE DEF B
  <2>3. QED
    BY <2>1, <2>2 DEF B
<1>2. q \in Nat /\ r \in 0 .. Base - 1 /\ code = q * Base + r
  BY <1>1, DivMod
<1> HIDE DEF q, r
<1>3. q < Base
  <2> SUFFICES ASSUME q >= Base PROVE FALSE
    BY <1>1, <1>2
  <2>1. q * Base >= Base * Base
    BY <1>1, <1>2
  <2> DEFINE h == q * Base
             k == Base * Base
  <2>2. h \in Nat /\ k \in Nat /\ h >= k /\ code = h + r /\ code < k
    BY <1>1, <1>2, <2>1
  <2> HIDE DEF h, k
  <2>3. QED
    BY <1>2, <2>2
<1>4. q \in Byte /\ r \in Byte
  BY <1>1, <1>2, <1>3 DEF Byte
<1>5. CodeBytes(code) = <<q, r>>
  BY DEF CodeBytes, q, r
<1>6. /\ <<q, r>> \in Seq(Byte) /\ Len(<<q, r>>) = 2 /\ <<q, r>> # <<>>
      /\ <<q, r>>[1] = q /\ <<q, r>>[2] = r
  BY <1>4
<1>7. QED
  BY ONLY <1>2, <1>5, <1>6

\* A route that fits its length byte.
LEMMA RouteBack ==
    ASSUME NEW route \in Seq(Byte), Len(route) < Base
    PROVE  /\ RouteBytes(route) \in Seq(Byte) /\ Len(RouteBytes(route)) = 1 + Len(route)
           /\ RouteBytes(route) # <<>> /\ RouteBytes(route)[1] = Len(route)
           /\ SubSeq(RouteBytes(route), 2, 1 + Len(route)) = route
<1> DEFINE k == Len(route)
           h == <<k>>
<1>1. Base \in Nat \ {0} /\ k \in Nat /\ k < Base
  BY ByteFacts, LenProperties
<1> HIDE DEF k
<1>2. k % Base = k /\ k \in Byte
  <2>1. k = 0 * Base + k /\ k \in 0 .. Base - 1
    BY <1>1
  <2>2. QED
    BY <1>1, <2>1, DivModUnique DEF Byte
<1>3. h \in Seq(Byte) /\ Len(h) = 1 /\ h[1] = k /\ h # <<>>
  BY <1>2
<1>4. RouteBytes(route) = h \o route
  BY <1>2 DEF RouteBytes, k
<1> HIDE DEF h
<1>5. /\ h \o route \in Seq(Byte) /\ Len(h \o route) = 1 + k /\ (h \o route)[1] = k
      /\ h \o route # <<>> /\ Behind(h \o route, 1) = route
  <2>1. h \in Seq(Byte) /\ route \in Seq(Byte)
    BY <1>3
  <2>2. /\ h \o route \in Seq(Byte) /\ Len(h \o route) = Len(h) + Len(route)
        /\ \A i \in 1 .. Len(h) : (h \o route)[i] = h[i]
        /\ h # <<>> => h \o route # <<>>
        /\ Behind(h \o route, Len(h)) = route
    BY ONLY <2>1, ConcatBytes
  <2>3. 1 \in 1 .. Len(h)
    BY <1>3
  <2>4. QED
    BY <1>3, <2>2, <2>3 DEF k
<1>6. SubSeq(h \o route, 2, 1 + k) = route
  BY <1>5 DEF Behind
<1>7. QED
  BY <1>4, <1>5, <1>6 DEF k

\* The route is read where it was written, and the data behind it.
LEMMA TailRead ==
    ASSUME NEW m \in Message, NEW data \in Seq(Byte), NEW coded, NEW code,
           Sendable(m, coded, code)
    PROVE  LET tail == RoutePart(m, coded, code) \o data IN
           /\ RoutePart(m, coded, code) \in Seq(Byte) /\ tail \in Seq(Byte)
           /\ Routable(m.type) => tail # <<>>
           /\ \A flag, id, codes :
                flag.type = m.type /\ flag.compressed = coded /\ flag.err = m.err /\ id = m.id =>
                    Body(flag, id, tail, codes) =
                        IF Routable(m.type) /\ coded /\ code \notin DOMAIN codes THEN Rejected
                        ELSE Found(m, RouteFound(m, coded, code, codes), data)
<1> DEFINE part == RoutePart(m, coded, code)
           tail == part \o data
<1>1. m.route \in Seq(Byte) /\ (~Routable(m.type) => m.route = <<>>)
  BY DEF Message
<1>2. CASE ~Routable(m.type)
  <2>1. part = <<>> /\ part \in Seq(Byte)
    BY <1>2, EmptyIsByteSeq DEF RoutePart
  <2>2. tail = data
    BY <2>1, ConcatEmptySeq
  <2> HIDE DEF part, tail
  <2>3. ASSUME NEW flag, NEW id, NEW codes,
               flag.type = m.type, flag.compressed = coded, flag.err = m.err, id = m.id
        PROVE  Body(flag, id, tail, codes) = Found(m, RouteFound(m, coded, code, codes), data)
    BY <1>1, <1>2, <2>2, <2>3 DEF Body, Found, RouteFound
  <2>4. QED
    BY <1>2, <2>1, <2>2, <2>3 DEF part, tail
<1>3. CASE Routable(m.type) /\ coded
  <2>1. part = CodeBytes(code) /\ code \in 0 .. Base * Base - 1
    BY <1>3 DEF RoutePart, Sendable
  <2>2. part \in Seq(Byte) /\ Len(part) = 2 /\ part # <<>> /\ part[1] * Base + part[2] = code
    BY <2>1, CodeBack
  <2> HIDE DEF part
  <2>3. /\ tail \in Seq(Byte) /\ tail # <<>> /\ Len(tail) = 2 + Len(data) /\ Len(data) \in Nat
        /\ tail[1] = part[1] /\ tail[2] = part[2] /\ Behind(tail, 2) = data
    <3>1. part \in Seq(Byte) /\ data \in Seq(Byte)
      BY <2>2
    <3>2. /\ part \o data \in Seq(Byte) /\ Len(part \o data) = Len(part) + Len(data)
          /\ Len(data) \in Nat
          /\ \A i \in 1 .. Len(part) : (part \o data)[i] = part[i]
          /\ part # <<>> => part \o data # <<>>
          /\ Behind(part \o data, Len(part)) = data
      BY ONLY <3>1, ConcatBytes
    <3>3. 1 \in 1 .. Len(part) /\ 2 \in 1 .. Len(part)
      BY <2>2
    <3>4. QED
      BY <2>2, <3>2, <3>3 DEF tail
  <2> HIDE DEF tail
  <2>4. ~(Len(tail) < 2) /\ tail[1] * Base + tail[2] = code
    BY <2>2, <2>3
  <2>5. ASSUME NEW flag, NEW id, NEW codes,
               flag.type = m.type, flag.compressed = coded, flag.err = m.err, id = m.id
        PROVE  Body(flag, id, tail, codes) =
                   IF code \notin DOMAIN codes THEN Rejected
                   ELSE Found(m, RouteFound(m, coded, code, codes), data)
    BY <1>3, <2>3, <2>4, <2>5 DEF Body, Found, RouteFound
  <2>6. QED
    BY <1>3, <2>2, <2>3, <2>5 DEF part, tail
<1>4. CASE Routable(m.type) /\ ~coded
  <2> DEFINE k == Len(m.route)
  <2>1. part = RouteBytes(m.route) /\ k < Base
    BY <1>4 DEF RoutePart, Sendable
  <2>2. /\ part \in Seq(Byte) /\ Len(part) = 1 + k /\ part # <<>> /\ part[1] = k
        /\ SubSeq(part, 2, 1 + k) = m.route /\ k \in Nat
    BY <1>1, <2>1, RouteBack, LenProperties
  <2> HIDE DEF part, k
  <2>3. /\ tail \in Seq(Byte) /\ tail # <<>> /\ Len(tail) = 1 + k + Len(data) /\ Len(data) \in Nat
        /\ tail[1] = k /\ Behind(tail, 1 + k) = data
    <3>1. part \in Seq(Byte) /\ data \in Seq(Byte)
      BY <2>2
    <3>2. /\ part \o data \in Seq(Byte) /\ Len(part \o data) = Len(part) + Len(data)
          /\ Len(data) \in Nat
          /\ \A i \in 1 .. Len(part) : (part \o data)[i] = part[i]
          /\ part # <<>> => part \o data # <<>>
          /\ Behind(part \o data, Len(part)) = data
      BY ONLY <3>1, ConcatBytes
    <3>3. 1 \in 1 .. Len(part)
      BY <2>2
    <3>4. QED
      BY <2>2, <3>2, <3>3 DEF tail
  <2>4. SubSeq(tail, 2, 1 + k) = m.route
    <3>1. part \in Seq(Byte) /\ data \in Seq(Byte) /\ 1 \in Nat /\ 1 + k \in 0 .. Len(part)
      BY <2>2
    <3>2. SubSeq(part \o data, 1 + 1, 1 + k) = SubSeq(part, 1 + 1, 1 + k)
      BY ONLY <3>1, PartOfConcat
    <3>3. QED
      BY <2>2, <3>2
  <2> HIDE DEF tail
  <2>5. ~(1 + tail[1] > Len(tail)) /\ 1 + tail[1] = 1 + k
    BY <2>2, <2>3
  <2>6. ASSUME NEW flag, NEW id, NEW codes,
               flag.type = m.type, flag.compressed = coded, flag.err = m.err, id = m.id
        PROVE  Body(flag, id, tail, codes) = Found(m, RouteFound(m, coded, code, codes), data)
    BY <1>4, <2>3, <2>4, <2>5, <2>6 DEF Body, Found, RouteFound
  <2>7. QED
    BY <1>4, <2>2, <2>3, <2>6 DEF part, tail
<1>5. QED
  BY <1>2, <1>3, <1>4 DEF Sendable

\* The id is read where it was written, and what is behind it, by both decoders.
LEMMA HeadRead ==
    ASSUME NEW m \in Message, NEW data \in Seq(Byte), NEW zipped, NEW coded, NEW code,
           Sendable(m, coded, code)
    PROVE  LET raw  == Raw(m, data, zipped, coded, code)
               tail == RoutePart(m, coded, code) \o data
           IN  /\ raw.rest \in Seq(Byte) /\ raw.rest # <<>> /\ ~InvalidType(raw.flag.type)
               /\ GoRest(raw) = tail /\ GoNumber(raw) = m.id
               /\ CppRest(raw) = tail /\ CppNumber(raw) = m.id
               /\ HasId(raw.flag.type) => CppIdFits(raw.rest)
               /\ ~NoLength(raw, tail)
<1> DEFINE part == RoutePart(m, coded, code)
           tail == part \o data
           head == IF HasId(m.type) THEN IdBytes(m.id) ELSE <<>>
           raw  == Raw(m, data, zipped, coded, code)
<1>1. /\ m.type \in Request .. Push /\ m.id \in 0 .. IdSpace - 1
      /\ (~HasId(m.type) => m.id = 0)
  BY DEF Message
<1>2. part \in Seq(Byte) /\ tail \in Seq(Byte) /\ (Routable(m.type) => tail # <<>>)
  BY TailRead
<1>3. head \in Seq(Byte)
  BY <1>1, IdBytesDef, EmptyIsByteSeq
<1>4. /\ raw.flag.type = m.type /\ raw.flag.compressed = coded /\ raw.flag.gzip = zipped
      /\ raw.flag.err = m.err /\ raw.rest = head \o part \o data
  BY DEF Raw
<1> HIDE DEF part, head, raw
<1>5. raw.rest = head \o tail
  <2>1. head \in Seq(Byte) /\ part \in Seq(Byte) /\ data \in Seq(Byte)
    BY <1>2, <1>3
  <2>2. (head \o part) \o data = head \o (part \o data)
    BY ONLY <2>1, ConcatAssociative
  <2>3. QED
    BY <1>4, <2>2
<1> HIDE DEF tail
<1>6. ~InvalidType(m.type) /\ (HasId(m.type) \/ Routable(m.type))
  BY <1>1 DEF InvalidType, HasId, Routable, Request, Push, Notify, Response
<1>7. CASE HasId(m.type)
  <2>1. head = IdBytes(m.id)
    BY <1>7 DEF head
  <2>2. /\ raw.rest \in Seq(Byte) /\ raw.rest # <<>>
        /\ GoIdLength(raw.rest) = Len(head) /\ CppIdLength(raw.rest) = Len(head)
        /\ GoId(raw.rest) = m.id /\ CppId(raw.rest) = m.id /\ CppIdFits(raw.rest)
        /\ Behind(raw.rest, Len(head)) = tail
    BY <1>1, <1>2, <1>5, <2>1, IdInFront
  <2>3. QED
    BY <1>2, <1>4, <1>6, <1>7, <2>2 DEF GoRest, CppRest, GoNumber, CppNumber, NoLength, raw, tail, part
<1>8. CASE ~HasId(m.type)
  <2>1. head = <<>>
    BY <1>8 DEF head
  <2>2. raw.rest = tail
    BY <1>2, <1>5, <2>1, ConcatEmptySeq
  <2>3. QED
    BY <1>1, <1>2, <1>4, <1>6, <1>8, <2>2
    DEF GoRest, CppRest, GoNumber, CppNumber, NoLength, raw, tail, part
<1>9. QED
  BY <1>7, <1>8 DEF raw, tail, part

\* Compressed data is marked, and the same again when it is inflated.
LEMMA Inflated ==
    ASSUME NEW d \in Seq(Byte)
    PROVE  Zip(d) \in Seq(Byte) /\ IsZip(Zip(d)) /\ Inflate(Zip(d)) = d
<1> DEFINE h == <<Mark>>
<1>1. h \in Seq(Byte) /\ Len(h) = 1 /\ h[1] = Mark /\ h # <<>>
  BY ByteFacts
<1> HIDE DEF h
<1>2. h \in Seq(Byte) /\ d \in Seq(Byte)
  BY <1>1
<1>3. /\ h \o d \in Seq(Byte) /\ \A i \in 1 .. Len(h) : (h \o d)[i] = h[i]
      /\ (h # <<>> => h \o d # <<>>) /\ Behind(h \o d, Len(h)) = d
  BY ONLY <1>2, ConcatBytes
<1>4. (h \o d)[1] = Mark /\ Behind(h \o d, 1) = d
  BY <1>1, <1>3
<1>5. QED
  BY <1>1, <1>3, <1>4 DEF Zip, IsZip, Inflate, h

\* What the Go decoder makes of a message that was sent to it, with any dictionary of
\* its own: the message, but for a route whose code has another meaning there; and it
\* rejects one only for a code that it does not know.
THEOREM ReadByGo ==
    ASSUME NEW m \in Message, NEW zipped \in BOOLEAN, NEW coded, NEW code,
           Sendable(m, coded, code), NEW codes,
           NEW data, data = IF zipped THEN Zip(m.data) ELSE m.data
    PROVE  GoDecode(codes, Raw(m, data, zipped, coded, code)) =
               IF Routable(m.type) /\ coded /\ code \notin DOMAIN codes THEN Rejected
               ELSE Found(m, RouteFound(m, coded, code, codes), m.data)
<1> DEFINE raw   == Raw(m, data, zipped, coded, code)
           tail  == RoutePart(m, coded, code) \o data
           got   == Body(raw.flag, m.id, tail, codes)
           lost  == Routable(m.type) /\ coded /\ code \notin DOMAIN codes
           route == RouteFound(m, coded, code, codes)
<1>0. m.data \in Seq(Byte)
  BY DEF Message
<1>1. data \in Seq(Byte)
  BY <1>0, Inflated
<1>2. /\ raw.flag.type = m.type /\ raw.flag.compressed = coded /\ raw.flag.gzip = zipped
      /\ raw.flag.err = m.err
  BY DEF Raw
<1>3. got = IF lost THEN Rejected ELSE Found(m, route, data)
  <2>1. \A flag, id, cs :
          flag.type = m.type /\ flag.compressed = coded /\ flag.err = m.err /\ id = m.id =>
              Body(flag, id, tail, cs) =
                  IF Routable(m.type) /\ coded /\ code \notin DOMAIN cs THEN Rejected
                  ELSE Found(m, RouteFound(m, coded, code, cs), data)
    <3>1. m \in Message /\ data \in Seq(Byte) /\ Sendable(m, coded, code)
      BY <1>1
    <3>2. QED
      BY ONLY <3>1, TailRead DEF tail
  <2>2. QED
    BY ONLY <1>2, <2>1 DEF lost, route, got
<1>4. /\ raw.rest # <<>> /\ ~InvalidType(raw.flag.type)
      /\ GoRest(raw) = tail /\ GoNumber(raw) = m.id /\ ~NoLength(raw, tail)
  BY <1>1, HeadRead, SMTT(30)
<1> HIDE DEF raw, tail, lost, route
<1>5. GoDecode(codes, raw) =
          IF ~got.ok \/ ~zipped THEN got
          ELSE IF IsZip(got.msg.data) THEN [got EXCEPT !.msg.data = Inflate(@)]
          ELSE Rejected
  BY <1>2, <1>4, GoDecodeDef
<1> HIDE DEF got
<1>6. CASE lost
  <2>1. ~Rejected.ok
    BY DEF Rejected
  <2>2. QED
    BY <1>3, <1>5, <1>6, <2>1 DEF lost, raw
<1>7. CASE ~lost /\ ~zipped
  <2>1. data = m.data
    BY <1>7
  <2>2. GoDecode(codes, raw) = Found(m, route, m.data)
    BY <1>3, <1>5, <1>7, <2>1
  <2>3. QED
    BY <1>7, <2>2 DEF lost, route, raw
<1>8. CASE ~lost /\ zipped
  <2>1. data = Zip(m.data)
    BY <1>8
  <2>2. IsZip(data) /\ Inflate(data) = m.data
    BY <1>0, <2>1, Inflated
  <2>3. got = Found(m, route, data) /\ got.ok /\ got.msg.data = data
    BY <1>3, <1>8 DEF Found
  <2>4. GoDecode(codes, raw) = [Found(m, route, data) EXCEPT !.msg.data = Inflate(@)]
    BY <1>5, <1>8, <2>2, <2>3
  <2>5. [Found(m, route, data) EXCEPT !.msg.data = Inflate(@)] = Found(m, route, m.data)
    <3> DEFINE p == [type |-> m.type, id |-> m.id, route |-> route,
                     data |-> data, err |-> m.err]
               r == [ok |-> TRUE, msg |-> p]
               q == [p EXCEPT !.data = Inflate(@)]
    <3>1. q = [type |-> m.type, id |-> m.id, route |-> route, data |-> m.data, err |-> m.err]
      BY <2>2
    <3> HIDE DEF p
    <3>2. r.msg = p
      OBVIOUS
    <3>3. [r EXCEPT !.msg.data = Inflate(@)] = [r EXCEPT !.msg = q]
      BY <3>2
    <3> HIDE DEF q
    <3>4. [r EXCEPT !.msg = q] = [ok |-> TRUE, msg |-> q]
      <4>1. ASSUME NEW ok, NEW y PROVE [[ok |-> ok, msg |-> p] EXCEPT !.msg = y] = [ok |-> ok, msg |-> y]
        OBVIOUS
      <4>2. QED
        BY ONLY <4>1, Zenon
    <3>5. QED
      BY <3>1, <3>3, <3>4 DEF p, Found
  <2>6. QED
    BY <1>8, <2>4, <2>5 DEF lost, route, raw
<1>9. QED
  BY <1>6, <1>7, <1>8

\* The same of the C++ decoder, which leaves the data as they are.
THEOREM ReadByCpp ==
    ASSUME NEW m \in Message, NEW data \in Seq(Byte), NEW zipped, NEW coded, NEW code,
           Sendable(m, coded, code), NEW codes
    PROVE  CppDecode(codes, Raw(m, data, zipped, coded, code)) =
               IF Routable(m.type) /\ coded /\ code \notin DOMAIN codes THEN Rejected
               ELSE Found(m, RouteFound(m, coded, code, codes), data)
<1> DEFINE raw  == Raw(m, data, zipped, coded, code)
           tail == RoutePart(m, coded, code) \o data
<1>1. raw.flag.type = m.type /\ raw.flag.compressed = coded /\ raw.flag.err = m.err
  BY DEF Raw
<1>2. Body(raw.flag, m.id, tail, codes) =
          IF Routable(m.type) /\ coded /\ code \notin DOMAIN codes THEN Rejected
          ELSE Found(m, RouteFound(m, coded, code, codes), data)
  <2>1. \A flag, id, cs :
          flag.type = m.type /\ flag.compressed = coded /\ flag.err = m.err /\ id = m.id =>
              Body(flag, id, tail, cs) =
                  IF Routable(m.type) /\ coded /\ code \notin DOMAIN cs THEN Rejected
                  ELSE Found(m, RouteFound(m, coded, code, cs), data)
    BY TailRead
  <2>2. QED
    BY ONLY <1>1, <2>1
<1>3. /\ raw.rest # <<>> /\ ~InvalidType(raw.flag.type)
      /\ CppRest(raw) = tail /\ CppNumber(raw) = m.id /\ ~NoLength(raw, tail)
      /\ HasId(raw.flag.type) => CppIdFits(raw.rest)
  BY HeadRead
<1> HIDE DEF raw, tail
<1>4. CppDecode(codes, raw) = Body(raw.flag, m.id, tail, codes)
  BY <1>3, CppDecodeDef
<1>5. QED
  BY <1>2, <1>4 DEF raw

\* The four cases: spelled out or with a code, read by Go or by C++.
LEMMA SpelledReadByGo ==
    ASSUME NEW m \in Message, Len(m.route) < Base, NEW codes,
           NEW zipped \in BOOLEAN, NEW data, data = IF zipped THEN Zip(m.data) ELSE m.data
    PROVE  GoDecode(codes, Raw(m, data, zipped, FALSE, 0)) = Found(m, m.route, m.data)
<1>1. \A coded : ~coded /\ Sendable(m, coded, 0) =>
          GoDecode(codes, Raw(m, data, zipped, coded, 0)) = Found(m, m.route, m.data)
  BY ReadByGo DEF RouteFound
<1>2. Sendable(m, FALSE, 0)
  BY DEF Sendable
<1>3. QED
  BY ONLY <1>1, <1>2, Zenon

LEMMA CodedReadByGo ==
    ASSUME NEW m \in Message, NEW code, Sendable(m, TRUE, code), NEW codes,
           NEW zipped \in BOOLEAN, NEW data, data = IF zipped THEN Zip(m.data) ELSE m.data
    PROVE  GoDecode(codes, Raw(m, data, zipped, TRUE, code)) =
               IF ~Routable(m.type) THEN Found(m, m.route, m.data)
               ELSE IF code \notin DOMAIN codes THEN Rejected
               ELSE Found(m, codes[code], m.data)
<1> DEFINE result == IF ~Routable(m.type) THEN Found(m, m.route, m.data)
                     ELSE IF code \notin DOMAIN codes THEN Rejected
                     ELSE Found(m, codes[code], m.data)
<1>1. \A coded : coded /\ Sendable(m, coded, code) =>
          GoDecode(codes, Raw(m, data, zipped, coded, code)) = result
  BY ReadByGo, ZenonT(40) DEF RouteFound
<1> HIDE DEF result
<1>2. Sendable(m, TRUE, code)
  OBVIOUS
<1>3. GoDecode(codes, Raw(m, data, zipped, TRUE, code)) = result
  BY ONLY <1>1, <1>2, Zenon
<1>4. QED
  BY <1>3 DEF result

LEMMA SpelledReadByCpp ==
    ASSUME NEW m \in Message, Len(m.route) < Base, NEW codes, NEW zipped, NEW data \in Seq(Byte)
    PROVE  CppDecode(codes, Raw(m, data, zipped, FALSE, 0)) = Found(m, m.route, data)
<1>1. \A coded : ~coded /\ Sendable(m, coded, 0) =>
          CppDecode(codes, Raw(m, data, zipped, coded, 0)) = Found(m, m.route, data)
  BY ReadByCpp DEF RouteFound
<1>2. Sendable(m, FALSE, 0)
  BY DEF Sendable
<1>3. QED
  BY ONLY <1>1, <1>2, Zenon

LEMMA CodedReadByCpp ==
    ASSUME NEW m \in Message, NEW code, Sendable(m, TRUE, code), NEW codes, NEW zipped,
           NEW data \in Seq(Byte)
    PROVE  CppDecode(codes, Raw(m, data, zipped, TRUE, code)) =
               IF ~Routable(m.type) THEN Found(m, m.route, data)
               ELSE IF code \notin DOMAIN codes THEN Rejected
               ELSE Found(m, codes[code], data)
<1> DEFINE result == IF ~Routable(m.type) THEN Found(m, m.route, data)
                     ELSE IF code \notin DOMAIN codes THEN Rejected
                     ELSE Found(m, codes[code], data)
<1>1. \A coded : coded /\ Sendable(m, coded, code) =>
          CppDecode(codes, Raw(m, data, zipped, coded, code)) = result
  BY ReadByCpp DEF RouteFound
<1> HIDE DEF result
<1>2. Sendable(m, TRUE, code)
  OBVIOUS
<1>3. CppDecode(codes, Raw(m, data, zipped, TRUE, code)) = result
  BY ONLY <1>1, <1>2, Zenon
<1>4. QED
  BY <1>3 DEF result

\* The encoders make the bytes that are meant, with a code if the route has one.
LEMMA EncodeIsRaw ==
    ASSUME NEW routes, NEW m
    PROVE  /\ m.route \in DOMAIN routes =>
                  Encode(routes, m) = Raw(m, m.data, FALSE, TRUE, routes[m.route])
           /\ m.route \notin DOMAIN routes =>
                  Encode(routes, m) = Raw(m, m.data, FALSE, FALSE, 0)
<1>1. CASE m.route \in DOMAIN routes
  <2>1. (m.route \in DOMAIN routes) = TRUE
    BY <1>1
  <2>2. Encode(routes, m) = Raw(m, m.data, FALSE, TRUE, routes[m.route])
    BY <2>1, Zenon DEF Encode, Raw, RoutePart
  <2>3. QED
    BY <1>1, <2>2
<1>2. CASE m.route \notin DOMAIN routes
  <2>1. (m.route \in DOMAIN routes) = FALSE
    BY <1>2
  <2>2. Encode(routes, m) = Raw(m, m.data, FALSE, FALSE, 0)
    BY <2>1, Zenon DEF Encode, Raw, RoutePart
  <2>3. QED
    BY <1>2, <2>2
<1>3. QED
  BY <1>1, <1>2

\* The same of a server that has compressed the data.
LEMMA EncodeZippedIsRaw ==
    ASSUME NEW routes, NEW m \in Message
    PROVE  LET zipped == [Encode(routes, [m EXCEPT !.data = Zip(@)]) EXCEPT !.flag.gzip = TRUE] IN
           /\ m.route \in DOMAIN routes => zipped = Raw(m, Zip(m.data), TRUE, TRUE, routes[m.route])
           /\ m.route \notin DOMAIN routes => zipped = Raw(m, Zip(m.data), TRUE, FALSE, 0)
<1> DEFINE z == [m EXCEPT !.data = Zip(@)]
<1>1. /\ z.type = m.type /\ z.id = m.id /\ z.route = m.route /\ z.err = m.err
      /\ z.data = Zip(m.data)
  BY DEF Message
<1> HIDE DEF z
<1>2. ASSUME NEW coded \in BOOLEAN, NEW code, Encode(routes, z) = Raw(z, z.data, FALSE, coded, code)
      PROVE  [Encode(routes, z) EXCEPT !.flag.gzip = TRUE] = Raw(m, Zip(m.data), TRUE, coded, code)
  <2> DEFINE flag  == [type |-> m.type, compressed |-> coded, gzip |-> FALSE, err |-> m.err]
             rest  == Raw(m, Zip(m.data), TRUE, coded, code).rest
             r     == [flag |-> flag, rest |-> rest]
             q     == [flag EXCEPT !.gzip = TRUE]
  <2>1. Encode(routes, z) = r
    BY <1>1, <1>2 DEF Raw, RoutePart
  <2>2. q = [type |-> m.type, compressed |-> coded, gzip |-> TRUE, err |-> m.err]
    <3>1. \A y, z1 : [[type |-> m.type, compressed |-> coded, gzip |-> y, err |-> m.err]
                        EXCEPT !.gzip = z1] =
                     [type |-> m.type, compressed |-> coded, gzip |-> z1, err |-> m.err]
      OBVIOUS
    <3>2. QED
      BY ONLY <3>1, Zenon
  <2>3. Raw(m, Zip(m.data), TRUE, coded, code) =
            [flag |-> [type |-> m.type, compressed |-> coded, gzip |-> TRUE, err |-> m.err],
             rest |-> rest]
    BY DEF Raw
  <2> HIDE DEF rest, flag
  <2>4. [r EXCEPT !.flag.gzip = TRUE] = [r EXCEPT !.flag = q]
    <3>1. r.flag = flag
      OBVIOUS
    <3>2. QED
      BY <3>1
  <2> HIDE DEF q
  <2>5. [r EXCEPT !.flag = q] = [flag |-> q, rest |-> rest]
    OBVIOUS
  <2>6. QED
    BY <2>1, <2>2, <2>3, <2>4, <2>5
<1> DEFINE y == [Encode(routes, z) EXCEPT !.flag.gzip = TRUE]
<1>3. \A coded \in BOOLEAN : \A code :
          Encode(routes, z) = Raw(z, z.data, FALSE, coded, code) =>
              y = Raw(m, Zip(m.data), TRUE, coded, code)
  BY <1>2
<1> HIDE DEF y
<1>4. /\ z.route \in DOMAIN routes => y = Raw(m, Zip(m.data), TRUE, TRUE, routes[z.route])
      /\ z.route \notin DOMAIN routes => y = Raw(m, Zip(m.data), TRUE, FALSE, 0)
  <2>1. CASE z.route \in DOMAIN routes
    <3>1. Encode(routes, z) = Raw(z, z.data, FALSE, TRUE, routes[z.route])
      BY <2>1, EncodeIsRaw
    <3>2. TRUE \in BOOLEAN
      OBVIOUS
    <3>3. y = Raw(m, Zip(m.data), TRUE, TRUE, routes[z.route])
      BY ONLY <1>3, <3>1, <3>2, Zenon
    <3>4. QED
      BY <2>1, <3>3
  <2>2. CASE z.route \notin DOMAIN routes
    <3>1. Encode(routes, z) = Raw(z, z.data, FALSE, FALSE, 0)
      BY <2>2, EncodeIsRaw
    <3>2. FALSE \in BOOLEAN
      OBVIOUS
    <3>3. y = Raw(m, Zip(m.data), TRUE, FALSE, 0)
      BY ONLY <1>3, <3>1, <3>2, Zenon
    <3>4. QED
      BY <2>2, <3>3
  <2>3. QED
    BY <2>1, <2>2
<1>5. QED
  BY <1>1, <1>4, Zenon DEF y, z

\* What goes out is bytes, even when the length of a route is cut.
LEMMA RawBytes ==
    ASSUME NEW m \in Message, NEW data \in Seq(Byte), NEW zipped, NEW coded \in BOOLEAN, NEW code,
           coded => code \in 0 .. Base * Base - 1
    PROVE  Raw(m, data, zipped, coded, code).rest \in Seq(Byte)
<1> DEFINE part == RoutePart(m, coded, code)
           head == IF HasId(m.type) THEN IdBytes(m.id) ELSE <<>>
<1>1. head \in Seq(Byte)
  BY IdBytesDef, EmptyIsByteSeq DEF Message
<1>2. part \in Seq(Byte)
  <2>1. RouteBytes(m.route) \in Seq(Byte)
    <3> DEFINE h == <<Len(m.route) % Base>>
    <3>1. m.route \in Seq(Byte) /\ Len(m.route) \in Nat
      BY LenProperties DEF Message
    <3>2. Len(m.route) % Base \in Byte
      BY <3>1, ByteFacts, DivMod DEF Byte
    <3>3. h \in Seq(Byte)
      BY <3>2
    <3> HIDE DEF h
    <3>4. h \o m.route \in Seq(Byte)
      BY <3>1, <3>3, ConcatBytes
    <3>5. QED
      BY <3>4 DEF RouteBytes, h
  <2>2. QED
    BY <2>1, CodeBack, EmptyIsByteSeq DEF RoutePart
<1> HIDE DEF head, part
<1>3. (head \o part) \o data \in Seq(Byte)
  <2>1. head \o part \in Seq(Byte)
    BY <1>1, <1>2, ConcatBytes
  <2>2. QED
    BY <2>1, ConcatBytes
<1>4. Raw(m, data, zipped, coded, code).rest = (head \o part) \o data
  BY DEF Raw, head, part
<1>5. QED
  BY <1>3, <1>4
=============================================================================
