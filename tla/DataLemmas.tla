----------------------------- MODULE DataLemmas ------------------------------
(***************************************************************************)
(* Facts about numbers and sequences that the proofs of this project       *)
(* share: induction, functions defined by recursion, division, parts of    *)
(* sequences, and what adding to, taking from and cutting a queue does to  *)
(* the set its items are drawn from.                                       *)
(***************************************************************************)
EXTENDS Integers, Sequences, FiniteSetTheorems, SequenceTheorems, TLAPS

-----------------------------------------------------------------------------
(* Induction.  To show that a fact holds of every number, one shows that   *)
(* the set of numbers it holds of contains 0 and is closed under           *)
(* successors.                                                             *)

\* If T had a gap at k, then n |-> n + 1 would map the elements of T up to k one to
\* one to those of them that are not 0, which are fewer.
LEMMA NatSetInduction ==
    ASSUME NEW T, 0 \in T, \A n \in Nat : n \in T => n + 1 \in T
    PROVE  Nat \subseteq T
<1> SUFFICES ASSUME NEW k \in Nat, k \notin T PROVE FALSE
  OBVIOUS
<1> DEFINE B == T \cap (0 .. k)
           f == [n \in B |-> n + 1]
<1>1. IsFiniteSet(B)
  <2>1. IsFiniteSet(0 .. k)
    BY FS_Interval
  <2>2. QED
    BY <2>1, FS_Subset
<1>2. IsFiniteSet(B \ {0}) /\ Cardinality(B \ {0}) < Cardinality(B)
  <2>1. 0 \in B
    OBVIOUS
  <2>2. Cardinality(B) \in Nat
    BY <1>1, FS_CardinalityType
  <2>3. IsFiniteSet(B \ {0}) /\ Cardinality(B \ {0}) = Cardinality(B) - 1
    BY <1>1, <2>1, FS_RemoveElement
  <2>4. QED
    BY <2>2, <2>3
<1>3. f \in [B -> B \ {0}]
  OBVIOUS
<1>4. \E x, y \in B : x # y /\ f[x] = f[y]
  <2> HIDE DEF B, f
  <2>1. QED
    BY <1>1, <1>2, <1>3, FS_PigeonHole
<1>5. QED
  BY <1>4

\* The same with all smaller numbers in the hypothesis.
LEMMA NatSetGeneralInduction ==
    ASSUME NEW T, \A n \in Nat : (\A m \in 0 .. n - 1 : m \in T) => n \in T
    PROVE  Nat \subseteq T
<1> DEFINE U == {n \in Nat : \A m \in 0 .. n : m \in T}
<1>1. 0 \in U
  OBVIOUS
<1>2. ASSUME NEW n \in Nat, n \in U PROVE n + 1 \in U
  <2>1. \A m \in 0 .. (n + 1) - 1 : m \in T
    BY <1>2
  <2>2. n + 1 \in T
    BY <2>1
  <2>3. QED
    BY <1>2, <2>2
<1>3. Nat \subseteq U
  <2> HIDE DEF U
  <2>1. QED
    BY <1>1, <1>2, NatSetInduction
<1>4. QED
  BY <1>3

\* Numbers have a least one among them.
LEMMA LeastNumber ==
    ASSUME NEW S, S \subseteq Nat, S # {}
    PROVE  \E x \in S : \A y \in S : x <= y
<1> SUFFICES ASSUME \A x \in S : \E y \in S : ~(x <= y) PROVE FALSE
  OBVIOUS
<1> DEFINE T == Nat \ S
<1>1. ASSUME NEW n \in Nat, \A m \in 0 .. n - 1 : m \in T PROVE n \in T
  <2> SUFFICES ASSUME n \in S PROVE FALSE
    OBVIOUS
  <2>1. PICK y \in S : ~(n <= y)
    OBVIOUS
  <2>2. y \in 0 .. n - 1
    BY <2>1
  <2>3. QED
    BY <1>1, <2>2
<1>2. Nat \subseteq T
  <2> HIDE DEF T
  <2>1. QED
    BY <1>1, NatSetGeneralInduction
<1>3. QED
  BY <1>2

\* The sums of the first i of n numbers exist as a function of i.
LEMMA SumsExist ==
    ASSUME NEW n \in Nat, NEW w, \A i \in 1 .. n : w[i] \in Nat
    PROVE  \E u \in [0 .. n -> Nat] : u[0] = 0 /\ \A i \in 1 .. n : u[i] = u[i - 1] + w[i]
<1> DEFINE Sums(u, m) == /\ u \in [0 .. m -> Nat] /\ u[0] = 0
                         /\ \A i \in 1 .. m : u[i] = u[i - 1] + w[i]
           T == {m \in Nat : m <= n => \E u : Sums(u, m)}
<1>1. 0 \in T
  <2>1. Sums([i \in 0 .. 0 |-> 0], 0)
    OBVIOUS
  <2>2. QED
    BY <2>1
<1>2. ASSUME NEW m \in Nat, m \in T PROVE m + 1 \in T
  <2> SUFFICES ASSUME m + 1 <= n PROVE \E u : Sums(u, m + 1)
    BY <1>2
  <2>1. PICK u : Sums(u, m)
    BY <1>2
  <2>2. m \in 0 .. m /\ w[m + 1] \in Nat
    OBVIOUS
  <2>3. u[m] \in Nat
    BY <2>1, <2>2
  <2> DEFINE x == u[m] + w[m + 1]
             v == [i \in 0 .. m + 1 |-> IF i = m + 1 THEN x ELSE u[i]]
  <2>4. x \in Nat
    BY <2>2, <2>3
  <2> HIDE DEF x
  <2>5. v \in [0 .. m + 1 -> Nat]
    BY <2>1, <2>4
  <2>6. v[0] = 0
    BY <2>1
  <2>7. ASSUME NEW i \in 1 .. m + 1 PROVE v[i] = v[i - 1] + w[i]
    <3>1. CASE i = m + 1
      <4>1. i - 1 = m /\ v[i] = x /\ v[m] = u[m]
        BY <3>1
      <4>2. QED
        BY <3>1, <4>1 DEF x
    <3>2. CASE i # m + 1
      <4>1. i \in 1 .. m /\ i - 1 \in 0 .. m /\ i - 1 # m + 1
        BY <3>2
      <4>2. v[i] = u[i] /\ v[i - 1] = u[i - 1]
        BY <3>2, <4>1
      <4>3. QED
        BY <2>1, <4>1, <4>2
    <3>3. QED
      BY <3>1, <3>2
  <2>8. QED
    BY <2>5, <2>6, <2>7
<1>3. n \in T
  <2> HIDE DEF T
  <2>1. QED
    BY <1>1, <1>2, NatSetInduction
<1>4. \E u : Sums(u, n)
  <2> HIDE DEF Sums
  <2>1. QED
    BY <1>3
<1>5. QED
  BY <1>4

\* Induction from n down to 0: what holds of a number when it holds of all above it.
LEMMA DownwardInduction ==
    ASSUME NEW n \in Nat, NEW T,
           \A p \in 0 .. n : (\A r \in p + 1 .. n : r \in T) => p \in T
    PROVE  0 .. n \subseteq T
<1> DEFINE U == {k \in Nat : k <= n => n - k \in T}
<1>1. ASSUME NEW k \in Nat, \A m \in 0 .. k - 1 : m \in U PROVE k \in U
  <2> SUFFICES ASSUME k <= n PROVE n - k \in T
    OBVIOUS
  <2>1. ASSUME NEW r \in (n - k) + 1 .. n PROVE r \in T
    <3>1. n - r \in 0 .. k - 1 /\ n - r <= n /\ n - (n - r) = r
      OBVIOUS
    <3>2. n - r \in U
      BY <1>1, <3>1
    <3>3. QED
      BY <3>1, <3>2
  <2>2. n - k \in 0 .. n
    OBVIOUS
  <2>3. QED
    BY <2>1, <2>2
<1>2. Nat \subseteq U
  <2> HIDE DEF U
  <2>1. QED
    BY <1>1, NatSetGeneralInduction
<1>3. ASSUME NEW p \in 0 .. n PROVE p \in T
  <2>1. n - p \in Nat /\ n - p <= n /\ n - (n - p) = p
    OBVIOUS
  <2>2. QED
    BY <1>2, <2>1
<1>4. QED
  BY <1>3

\* What defines a function from n down to 0: its value at p is last[p] when p is in S,
\* and otherwise what step[p] makes of its value further up, at next[p].
Downward(n, V, S, last, next, step) ==
    /\ S \in SUBSET (0 .. n) /\ last \in [S -> V]
    /\ next \in [(0 .. n) \ S -> 0 .. n] /\ step \in [(0 .. n) \ S -> [V -> V]]
    /\ \A p \in (0 .. n) \ S : p < next[p]

LEMMA RecursionFromTheEnd ==
    ASSUME NEW n \in Nat, NEW V, NEW S, NEW last, NEW next, NEW step,
           Downward(n, V, S, last, next, step)
    PROVE  \E f \in [0 .. n -> V] : \A p \in 0 .. n :
               f[p] = IF p \in S THEN last[p] ELSE step[p][f[next[p]]]
<1> DEFINE Solves(f, q) ==
               /\ f \in [q .. n -> V]
               /\ \A p \in q .. n : f[p] = IF p \in S THEN last[p] ELSE step[p][f[next[p]]]
           T == {k \in Nat : k <= n + 1 => \E f : Solves(f, (n + 1) - k)}
<1>0. /\ \A p \in 0 .. n : p \in S => last[p] \in V
      /\ \A p \in 0 .. n : p \notin S => next[p] \in p + 1 .. n
      /\ \A p \in 0 .. n : p \notin S => \A v \in V : step[p][v] \in V
  BY DEF Downward
<1>1. 0 \in T
  <2>1. Solves([p \in {} |-> p], (n + 1) - 0)
    <3>1. ((n + 1) - 0) .. n = {}
      OBVIOUS
    <3>2. QED
      BY <3>1
  <2>2. QED
    BY <2>1
<1>2. ASSUME NEW k \in Nat, k \in T PROVE k + 1 \in T
  <2> SUFFICES ASSUME k + 1 <= n + 1 PROVE \E f : Solves(f, (n + 1) - (k + 1))
    OBVIOUS
  <2> DEFINE q == n - k
  <2>1. q \in 0 .. n /\ (n + 1) - k = q + 1 /\ (n + 1) - (k + 1) = q
    OBVIOUS
  <2>2. PICK f : Solves(f, q + 1)
    BY <1>2, <2>1
  <2> DEFINE x == IF q \in S THEN last[q] ELSE step[q][f[next[q]]]
             g == [p \in q .. n |-> IF p = q THEN x ELSE f[p]]
  <2>3. x \in V
    <3>1. CASE q \in S
      BY <1>0, <2>1, <3>1
    <3>2. CASE q \notin S
      <4>1. next[q] \in q + 1 .. n
        BY <1>0, <2>1, <3>2
      <4>2. f[next[q]] \in V
        BY <2>2, <4>1
      <4>3. QED
        BY <1>0, <2>1, <3>2, <4>2
    <3>3. QED
      BY <3>1, <3>2
  <2>4. \A p \in q + 1 .. n : p \in q .. n /\ p # q /\ p \in 0 .. n
    BY <2>1
  <2>5. \A p \in q .. n : p = q \/ p \in q + 1 .. n
    BY <2>1
  <2>6. g \in [q .. n -> V]
    <3> HIDE DEF x
    <3>1. QED
      BY <2>2, <2>3, <2>5
  <2>7. g[q] = x /\ \A p \in q + 1 .. n : g[p] = f[p]
    <3> HIDE DEF x
    <3>1. q \in q .. n
      BY <2>1
    <3>2. QED
      BY <2>4, <3>1
  <2>8. ASSUME NEW p \in q .. n
        PROVE  g[p] = IF p \in S THEN last[p] ELSE step[p][g[next[p]]]
    <3>1. p \notin S => next[p] \in q + 1 .. n
      <4>1. p \in 0 .. n /\ \A r \in p + 1 .. n : r \in q + 1 .. n
        BY <2>1
      <4>2. QED
        BY <1>0, <4>1
    <3>2. p \notin S => g[next[p]] = f[next[p]]
      BY <2>7, <3>1
    <3>3. CASE p = q
      <4> HIDE DEF g
      <4>1. QED
        BY <2>7, <3>2, <3>3
    <3>4. CASE p \in q + 1 .. n
      <4> HIDE DEF g
      <4>1. f[p] = IF p \in S THEN last[p] ELSE step[p][f[next[p]]]
        BY <2>2, <3>4
      <4>2. QED
        BY <2>7, <3>2, <3>4, <4>1
    <3>5. QED
      BY <2>5, <3>3, <3>4
  <2>9. Solves(g, q)
    <3> HIDE DEF g
    <3>1. QED
      BY <2>6, <2>8
  <2>10. QED
    <3> HIDE DEF g, Solves
    <3>1. QED
      BY <2>1, <2>9
<1>3. n + 1 \in T
  <2> HIDE DEF T
  <2>1. QED
    BY <1>1, <1>2, NatSetInduction
<1>4. PICK f : Solves(f, 0)
  <2>1. (n + 1) - (n + 1) = 0
    OBVIOUS
  <2> HIDE DEF Solves
  <2>2. QED
    BY <1>3, <2>1
<1>5. QED
  BY <1>4

\* The same from 0 up to n: the value at p is first[p], or what step[p] makes of the value
\* further down, at next[p].
Upward(n, V, S, first, next, step) ==
    /\ S \in SUBSET (0 .. n) /\ first \in [S -> V]
    /\ next \in [(0 .. n) \ S -> 0 .. n] /\ step \in [(0 .. n) \ S -> [V -> V]]
    /\ \A p \in (0 .. n) \ S : next[p] < p

LEMMA RecursionFromTheStart ==
    ASSUME NEW n \in Nat, NEW V, NEW S, NEW first, NEW next, NEW step,
           Upward(n, V, S, first, next, step)
    PROVE  \E f \in [0 .. n -> V] : \A p \in 0 .. n :
               f[p] = IF p \in S THEN first[p] ELSE step[p][f[next[p]]]
<1> DEFINE Z  == {q \in 0 .. n : n - q \in S}
           ml == [q \in Z |-> first[n - q]]
           mn == [q \in (0 .. n) \ Z |-> n - next[n - q]]
           ms == [q \in (0 .. n) \ Z |-> step[n - q]]
<1>1. /\ S \in SUBSET (0 .. n) /\ first \in [S -> V]
      /\ next \in [(0 .. n) \ S -> 0 .. n] /\ step \in [(0 .. n) \ S -> [V -> V]]
      /\ \A p \in (0 .. n) \ S : next[p] < p
  BY DEF Upward
<1>2. \A q \in 0 .. n : n - q \in 0 .. n /\ n - (n - q) = q
  OBVIOUS
<1>3. \A q \in (0 .. n) \ Z : n - q \in (0 .. n) \ S
  BY <1>2
<1>4. Z \in SUBSET (0 .. n) /\ ml \in [Z -> V]
  BY <1>1
<1>5. mn \in [(0 .. n) \ Z -> 0 .. n]
  <2>1. \A q \in (0 .. n) \ Z : next[n - q] \in 0 .. n
    BY <1>1, <1>3
  <2> HIDE DEF Z
  <2>2. QED
    BY <1>2, <2>1
<1>6. ms \in [(0 .. n) \ Z -> [V -> V]]
  <2>1. \A q \in (0 .. n) \ Z : step[n - q] \in [V -> V]
    BY <1>1, <1>3
  <2> HIDE DEF Z
  <2>2. QED
    BY <2>1
<1>7. \A q \in (0 .. n) \ Z : q < mn[q]
  <2> SUFFICES ASSUME NEW q \in (0 .. n) \ Z PROVE q < mn[q]
    OBVIOUS
  <2>1. next[n - q] \in 0 .. n /\ next[n - q] < n - q
    BY <1>1, <1>3
  <2>2. mn[q] = n - next[n - q]
    OBVIOUS
  <2> HIDE DEF Z, mn
  <2>3. QED
    BY <2>1, <2>2
<1>8. Downward(n, V, Z, ml, mn, ms)
  <2> HIDE DEF Z, ml, mn, ms
  <2>1. QED
    BY ONLY <1>4, <1>5, <1>6, <1>7 DEF Downward
<1>9. PICK g \in [0 .. n -> V] : \A q \in 0 .. n :
          g[q] = IF q \in Z THEN ml[q] ELSE ms[q][g[mn[q]]]
  <2> HIDE DEF Z, ml, mn, ms
  <2>1. QED
    BY ONLY <1>8, RecursionFromTheEnd, n \in Nat
<1> DEFINE f == [p \in 0 .. n |-> g[n - p]]
<1>10. f \in [0 .. n -> V]
  BY <1>2
<1>11. ASSUME NEW p \in 0 .. n
       PROVE  f[p] = IF p \in S THEN first[p] ELSE step[p][f[next[p]]]
  <2>1. f[p] = g[n - p] /\ n - p \in 0 .. n /\ n - (n - p) = p
    OBVIOUS
  <2>2. CASE p \in S
    <3>1. n - p \in Z
      BY <2>1, <2>2
    <3>2. ml[n - p] = first[p]
      BY <2>1, <3>1
    <3>3. QED
      BY <1>9, <2>1, <2>2, <3>1, <3>2
  <2>3. CASE p \notin S
    <3>1. n - p \in (0 .. n) \ Z
      BY <2>1, <2>3
    <3>2. ms[n - p] = step[p] /\ mn[n - p] = n - next[p]
      BY <2>1, <3>1
    <3>3. g[n - p] = ms[n - p][g[mn[n - p]]]
      BY <1>9, <3>1
    <3>4. f[next[p]] = g[n - next[p]]
      BY <1>1, <2>3
    <3> HIDE DEF f, ms, mn, Z
    <3>5. QED
      BY <2>1, <2>3, <3>2, <3>3, <3>4
  <2>4. QED
    BY <2>2, <2>3
<1>12. QED
  BY <1>10, <1>11

-----------------------------------------------------------------------------
(* Division                                                                *)

\* Quotient and remainder.
LEMMA DivMod ==
    ASSUME NEW n \in Nat, NEW r \in Nat \ {0}
    PROVE  /\ n \div r \in Nat /\ n % r \in 0 .. r - 1
           /\ n = (n \div r) * r + (n % r)
OBVIOUS

\* The quotient and the remainder are the only ones.
LEMMA DivModUnique ==
    ASSUME NEW n \in Nat, NEW r \in Nat \ {0}, NEW q \in Nat, NEW m \in 0 .. r - 1,
           n = q * r + m
    PROVE  n \div r = q /\ n % r = m
OBVIOUS

-----------------------------------------------------------------------------
(* Parts of sequences                                                      *)

\* A part of a sequence, whose bounds may lie outside of it when it is empty.
LEMMA Part ==
    ASSUME NEW S, NEW s \in Seq(S), NEW m \in Nat, NEW n \in 0 .. Len(s)
    PROVE  /\ SubSeq(s, m + 1, n) \in Seq(S)
           /\ Len(SubSeq(s, m + 1, n)) = IF m <= n THEN n - m ELSE 0
           /\ \A i \in 1 .. n - m : SubSeq(s, m + 1, n)[i] = s[m + i]
<1>1. Len(s) \in Nat /\ \A i \in m + 1 .. n : s[i] \in S
  BY ElementOfSeq, LenProperties
<1>2. /\ SubSeq(s, m + 1, n) \in Seq(S)
      /\ Len(SubSeq(s, m + 1, n)) = IF m + 1 <= n THEN n - (m + 1) + 1 ELSE 0
      /\ \A i \in 1 .. n - (m + 1) + 1 : SubSeq(s, m + 1, n)[i] = s[(m + 1) + i - 1]
  <2>1. m + 1 \in Int /\ n \in Int
    BY <1>1
  <2>2. QED
    BY <1>1, <2>1, SubSeqProperties
<1>3. \A i \in 1 .. n - m : (m + 1) + i - 1 = m + i /\ i \in 1 .. n - (m + 1) + 1
  BY <1>1
<1>4. QED
  BY <1>1, <1>2, <1>3

\* A part of a concatenation that lies in its first half.
LEMMA PartOfConcat ==
    ASSUME NEW S, NEW s \in Seq(S), NEW t \in Seq(S), NEW m \in Nat, NEW n \in 0 .. Len(s)
    PROVE  SubSeq(s \o t, m + 1, n) = SubSeq(s, m + 1, n)
<1>1. /\ s \o t \in Seq(S) /\ Len(s \o t) = Len(s) + Len(t) /\ Len(s) \in Nat /\ Len(t) \in Nat
      /\ \A i \in 1 .. Len(s) : (s \o t)[i] = s[i]
  <2>1. Len(s) \in Nat /\ Len(t) \in Nat
    BY LenProperties
  <2>2. QED
    BY <2>1, ConcatProperties
<1> DEFINE a == SubSeq(s \o t, m + 1, n)
           b == SubSeq(s, m + 1, n)
<1>2. /\ a \in Seq(S) /\ Len(a) = (IF m <= n THEN n - m ELSE 0)
      /\ \A i \in 1 .. n - m : a[i] = (s \o t)[m + i]
  <2>1. n \in 0 .. Len(s \o t)
    BY <1>1
  <2>2. QED
    BY <1>1, <2>1, Part
<1>3. /\ b \in Seq(S) /\ Len(b) = (IF m <= n THEN n - m ELSE 0)
      /\ \A i \in 1 .. n - m : b[i] = s[m + i]
  BY Part
<1> HIDE DEF a, b
<1>4. \A i \in 1 .. Len(a) : a[i] = b[i]
  BY <1>1, <1>2, <1>3
<1>5. a = b
  BY <1>2, <1>3, <1>4, SeqEqual
<1>6. QED
  BY <1>5 DEF a, b

\* The two halves of a concatenation, cut apart again.
LEMMA FrontOfConcat ==
    ASSUME NEW S, NEW s \in Seq(S), NEW t \in Seq(S)
    PROVE  SubSeq(s \o t, 1, Len(s)) = s
<1> DEFINE a == SubSeq(s \o t, 1, Len(s))
<1>1. /\ s \o t \in Seq(S) /\ Len(s \o t) = Len(s) + Len(t) /\ Len(s) \in Nat /\ Len(t) \in Nat
      /\ \A i \in 1 .. Len(s) : (s \o t)[i] = s[i]
  <2>1. Len(s) \in Nat /\ Len(t) \in Nat
    BY LenProperties
  <2>2. QED
    BY <2>1, ConcatProperties
<1>2. /\ a \in Seq(S) /\ Len(a) = Len(s) /\ \A i \in 1 .. Len(s) : a[i] = (s \o t)[i]
  <2>1. Len(s) \in 0 .. Len(s \o t) /\ 0 \in Nat /\ 0 + 1 = 1 /\ Len(s) - 0 = Len(s)
    BY <1>1
  <2>2. /\ SubSeq(s \o t, 0 + 1, Len(s)) \in Seq(S)
        /\ Len(SubSeq(s \o t, 0 + 1, Len(s))) = IF 0 <= Len(s) THEN Len(s) - 0 ELSE 0
        /\ \A i \in 1 .. Len(s) - 0 : SubSeq(s \o t, 0 + 1, Len(s))[i] = (s \o t)[0 + i]
    BY ONLY <1>1, <2>1, Part
  <2>3. \A i \in 1 .. Len(s) : 0 + i = i
    OBVIOUS
  <2>4. QED
    BY <1>1, <2>1, <2>2, <2>3
<1> HIDE DEF a
<1>3. a = s
  BY <1>1, <1>2, SeqEqual
<1>4. QED
  BY <1>3 DEF a

LEMMA BackOfConcat ==
    ASSUME NEW S, NEW s \in Seq(S), NEW t \in Seq(S)
    PROVE  SubSeq(s \o t, Len(s) + 1, Len(s \o t)) = t
<1> DEFINE n == Len(s)
           a == SubSeq(s \o t, n + 1, Len(s \o t))
<1>1. /\ s \o t \in Seq(S) /\ Len(s \o t) = n + Len(t) /\ n \in Nat /\ Len(t) \in Nat
      /\ \A i \in 1 .. n + Len(t) : (s \o t)[i] = IF i <= n THEN s[i] ELSE t[i - n]
  <2>1. Len(s) \in Nat /\ Len(t) \in Nat
    BY LenProperties
  <2>2. QED
    BY <2>1, ConcatProperties
<1> HIDE DEF n
<1>2. /\ a \in Seq(S) /\ Len(a) = Len(t) /\ \A i \in 1 .. Len(t) : a[i] = (s \o t)[n + i]
  <2>1. Len(s \o t) \in 0 .. Len(s \o t) /\ n <= Len(s \o t) /\ Len(s \o t) - n = Len(t)
    BY <1>1
  <2>2. /\ a \in Seq(S) /\ Len(a) = IF n <= Len(s \o t) THEN Len(s \o t) - n ELSE 0
        /\ \A i \in 1 .. Len(s \o t) - n : a[i] = (s \o t)[n + i]
    BY ONLY <1>1, <2>1, Part
  <2>3. QED
    BY ONLY <2>1, <2>2
<1>3. ASSUME NEW i \in 1 .. Len(t) PROVE a[i] = t[i]
  <2>1. n + i \in 1 .. n + Len(t) /\ ~(n + i <= n) /\ (n + i) - n = i
    BY <1>1
  <2>2. QED
    BY ONLY <1>1, <1>2, <1>3, <2>1, i \in 1 .. Len(t)
<1> HIDE DEF a
<1>4. a = t
  BY <1>1, <1>2, <1>3, SeqEqual
<1>5. QED
  BY <1>4 DEF a, n

-----------------------------------------------------------------------------
(* Queues                                                                  *)

\* Adding an item to a queue, as every send on sendCh and on the wire does.
LEMMA QueueAppend ==
    ASSUME NEW S, NEW q \in Seq(S), NEW x \in S
    PROVE  Append(q, x) \in Seq(S) /\ Len(Append(q, x)) = Len(q) + 1
BY AppendProperties

\* Taking the head of a queue, as writeLoop, readLoop and the server do.
LEMMA QueueTail ==
    ASSUME NEW S, NEW q \in Seq(S), q # <<>>
    PROVE  Head(q) \in S /\ Tail(q) \in Seq(S) /\ Len(Tail(q)) = Len(q) - 1
BY HeadTailProperties

\* Cutting a queue in two, as readPackets does with what has arrived.
LEMMA QueueCut ==
    ASSUME NEW S, NEW q \in Seq(S), NEW k \in 1 .. Len(q)
    PROVE  /\ SubSeq(q, 1, k) \in Seq(S)
           /\ SubSeq(q, k + 1, Len(q)) \in Seq(S)
           /\ Len(SubSeq(q, k + 1, Len(q))) <= Len(q)
<1>1. Len(q) \in Nat /\ \A i \in 1 .. Len(q) : q[i] \in S
  BY ElementOfSeq, LenProperties
<1>2. \A i \in 1 .. k : q[i] \in S
  BY <1>1
<1>3. \A i \in k + 1 .. Len(q) : q[i] \in S
  BY <1>1
<1>4. SubSeq(q, 1, k) \in Seq(S)
  BY <1>1, <1>2, SubSeqProperties
<1>5. /\ SubSeq(q, k + 1, Len(q)) \in Seq(S)
      /\ Len(SubSeq(q, k + 1, Len(q)))
           = IF k + 1 <= Len(q) THEN Len(q) - (k + 1) + 1 ELSE 0
  BY <1>1, <1>3, SubSeqProperties
<1>6. QED
  BY <1>1, <1>4, <1>5

\* What a queue holds, after an item was added and after one was taken.
LEMMA InAppend ==
    ASSUME NEW S, NEW q \in Seq(S), NEW x \in S
    PROVE  \A y : (\E i \in DOMAIN q : q[i] = y) \/ y = x =>
               \E i \in DOMAIN Append(q, x) : Append(q, x)[i] = y
<1>1. /\ DOMAIN q = 1 .. Len(q) /\ Len(q) \in Nat
      /\ DOMAIN Append(q, x) = 1 .. Len(q) + 1
      /\ Append(q, x)[Len(q) + 1] = x
      /\ \A i \in 1 .. Len(q) : Append(q, x)[i] = q[i]
  BY AppendProperties, LenProperties
<1>2. QED
  BY <1>1

LEMMA InTail ==
    ASSUME NEW S, NEW q \in Seq(S), q # <<>>
    PROVE  \A y : (\E i \in DOMAIN q : q[i] = y) =>
               y = Head(q) \/ \E i \in DOMAIN Tail(q) : Tail(q)[i] = y
<1>1. /\ DOMAIN q = 1 .. Len(q) /\ Len(q) \in Nat
      /\ DOMAIN Tail(q) = 1 .. Len(q) - 1
      /\ Head(q) = q[1]
      /\ \A i \in 1 .. Len(q) - 1 : Tail(q)[i] = q[i + 1]
  BY HeadTailProperties, LenProperties
<1>2. SUFFICES ASSUME NEW i \in DOMAIN q, i # 1
               PROVE  \E j \in DOMAIN Tail(q) : Tail(q)[j] = q[i]
  BY <1>1
<1>3. i - 1 \in DOMAIN Tail(q) /\ Tail(q)[i - 1] = q[(i - 1) + 1]
  BY <1>1, <1>2
<1>4. (i - 1) + 1 = i
  BY <1>1
<1>5. QED
  BY <1>3, <1>4
=============================================================================
