------------------------ MODULE BufferParsersProofs ------------------------
(***************************************************************************)
(* Proofs about the parsers, for every number of messages and every noise. *)
(***************************************************************************)
EXTENDS BufferParsers, WellFoundedInduction, TLAPS

-----------------------------------------------------------------------------
(***************************************************************************)
(* Least elements.  Inductions are done by the least counterexample.       *)
(***************************************************************************)

\* A set of natural numbers that is not empty has a least element.
LEMMA LeastExists ==
  ASSUME NEW S, S \subseteq Nat, S # {}
  PROVE  \E x \in S : \A y \in S : x <= y
<1>1. \E x \in S : \A y \in S : ~(<<y, x>> \in OpToRel(<, Nat))
  BY WFMin, NatLessThanWellFounded, Zenon
<1>2. PICK x \in S : \A y \in S : ~(<<y, x>> \in OpToRel(<, Nat))
  BY <1>1
<1>3. \A y \in S : ~(y < x)
  BY <1>2 DEF OpToRel
<1> QED BY <1>3

\* The index that a loop stops at.
LEMMA MinIsLeast ==
  ASSUME NEW S, S \subseteq Nat, S # {}
  PROVE  Min(S) \in S /\ \A y \in S : Min(S) <= y
BY LeastExists DEF Min

-----------------------------------------------------------------------------
(***************************************************************************)
(* Concatenations.                                                         *)
(***************************************************************************)

Bytes == Seq(Nat)

\* P[j] is what the first j pieces of s are together.
Sums(P, s) ==
  /\ P \in [0 .. Len(s) -> Bytes]
  /\ P[0] = <<>>
  /\ \A i \in 1 .. Len(s) : P[i] = P[i - 1] \o s[i]

\* The recursive function of FlattenSeq, for the first k pieces.
Flattens(f, s, k) ==
  f = [i \in 1 .. k |-> IF i = 1 THEN s[i] ELSE f[i - 1] \o s[i]]

Built(s, k) == \E f \in [1 .. k -> Bytes] : Flattens(f, s, k)

\* It exists: it is built from the one for a piece less.
LEMMA FlattenExists ==
  ASSUME NEW s \in Seq(Bytes), NEW n \in 1 .. Len(s)
  PROVE  Built(s, n)
<1> DEFINE T == {k \in 1 .. n : ~Built(s, k)}
<1>0. Len(s) \in Nat /\ n \in Nat /\ n \in 1 .. n /\ \A i \in 1 .. Len(s) : s[i] \in Bytes
  OBVIOUS
<1> SUFFICES ASSUME T # {} PROVE FALSE
  BY <1>0
<1>1. PICK k \in T : \A y \in T : k <= y
  <2>1. T \subseteq Nat OBVIOUS
  <2> HIDE DEF T
  <2> QED BY <2>1, LeastExists
<1>2. k \in 1 .. n /\ ~Built(s, k)
  BY <1>1
<1>3. CASE k = 1
  <2> DEFINE g == [i \in 1 .. 1 |-> s[i]]
  <2>1. g \in [1 .. 1 -> Bytes]
    BY <1>0
  <2>2. g = [i \in 1 .. 1 |-> IF i = 1 THEN s[i] ELSE g[i - 1] \o s[i]]
    OBVIOUS
  <2> HIDE DEF g
  <2>3. Built(s, 1)
    BY <2>1, <2>2 DEF Built, Flattens
  <2> QED BY <1>2, <1>3, <2>3
<1>4. CASE k # 1
  <2>1. k - 1 \in 1 .. n /\ k - 1 \notin T
    BY <1>1, <1>2, <1>4
  <2>2. PICK f \in [1 .. (k - 1) -> Bytes] :
          f = [i \in 1 .. (k - 1) |-> IF i = 1 THEN s[i] ELSE f[i - 1] \o s[i]]
    <3>1. Built(s, k - 1)
      BY <2>1
    <3> QED BY <3>1, Zenon DEF Built, Flattens
  <2> DEFINE e == f[k - 1] \o s[k]
             g == [i \in 1 .. k |-> IF i = k THEN e ELSE f[i]]
  <2>3. e \in Bytes
    <3>1. f[k - 1] \in Bytes /\ s[k] \in Bytes
      BY <1>0, <1>2, <1>4
    <3> QED BY <3>1 DEF Bytes
  <2> HIDE DEF e
  <2>4. g \in [1 .. k -> Bytes]
    BY <1>2, <2>3
  <2>5. ASSUME NEW i \in 1 .. k
        PROVE  g[i] = IF i = 1 THEN s[i] ELSE g[i - 1] \o s[i]
    <3>1. CASE i = k
      <4>1. g[k] = e /\ g[k - 1] = f[k - 1]
        BY <1>2, <1>4
      <4> QED BY <1>4, <3>1, <4>1 DEF e
    <3>2. CASE i # k /\ i = 1
      <4>1. 1 \in 1 .. (k - 1)
        BY <1>2, <1>4
      <4>2. f[1] = s[1]
        BY <2>2, <4>1
      <4> QED BY <3>2, <4>2
    <3>3. CASE i # k /\ i # 1
      <4>1. i \in 1 .. (k - 1) /\ i - 1 \in 1 .. (k - 1) /\ i - 1 # k /\ i - 1 \in 1 .. k
        BY <1>2, <3>3
      <4>2. f[i] = f[i - 1] \o s[i]
        BY <2>2, <3>3, <4>1
      <4>3. g[i] = f[i] /\ g[i - 1] = f[i - 1]
        BY <3>3, <4>1
      <4> QED BY <3>3, <4>2, <4>3
    <3> QED BY <3>1, <3>2, <3>3
  <2>6. g = [i \in 1 .. k |-> IF i = 1 THEN s[i] ELSE g[i - 1] \o s[i]]
    <3>1. g = [i \in 1 .. k |-> g[i]]
      OBVIOUS
    <3> HIDE DEF g
    <3> QED BY <2>5, <3>1
  <2> HIDE DEF g
  <2>7. Built(s, k)
    BY <2>4, <2>6, Zenon DEF Built, Flattens
  <2> QED BY <1>2, <2>7
<1> QED BY <1>3, <1>4

\* FlattenSeq adds the pieces up.
LEMMA FlattenSums ==
  ASSUME NEW s \in Seq(Bytes)
  PROVE  \E P : Sums(P, s) /\ FlattenSeq(s) = P[Len(s)]
<1> DEFINE n == Len(s)
<1>0. n \in Nat /\ \A i \in 1 .. n : s[i] \in Bytes
  OBVIOUS
<1>1. CASE n = 0
  <2> DEFINE P == [i \in 0 .. 0 |-> <<>>]
  <2>1. FlattenSeq(s) = <<>>
    BY <1>1 DEF FlattenSeq
  <2>2. Sums(P, s)
    BY <1>1 DEF Sums, Bytes
  <2>3. P[n] = <<>>
    BY <1>1
  <2> QED BY <2>1, <2>2, <2>3
<1>2. CASE n # 0
  <2> DEFINE f == CHOOSE f : f = [i \in 1 .. n |-> IF i = 1 THEN s[i] ELSE f[i - 1] \o s[i]]
  <2>1. FlattenSeq(s) = f[n]
    BY <1>2 DEF FlattenSeq
  <2>2. f = [i \in 1 .. n |-> IF i = 1 THEN s[i] ELSE f[i - 1] \o s[i]]
    <3>1. Built(s, n)
      BY <1>0, <1>2, FlattenExists
    <3> HIDE DEF n
    <3>2. \E g : g = [i \in 1 .. n |-> IF i = 1 THEN s[i] ELSE g[i - 1] \o s[i]]
      BY <3>1, Zenon DEF Built, Flattens
    <3> QED BY <3>2, Zenon
  <2> HIDE DEF f
  <2>3. f[1] = s[1] /\ \A i \in 2 .. n : f[i] = f[i - 1] \o s[i]
    <3>1. \A i \in 1 .. n : f[i] = IF i = 1 THEN s[i] ELSE f[i - 1] \o s[i]
      BY <2>2, Zenon
    <3>2. 1 \in 1 .. n /\ \A i \in 2 .. n : i \in 1 .. n /\ i # 1
      BY <1>0, <1>2
    <3>3. f[1] = s[1]
      BY <3>1, <3>2, Zenon
    <3>4. \A i \in 2 .. n : f[i] = f[i - 1] \o s[i]
      BY <3>1, <3>2, Zenon
    <3> QED BY <3>3, <3>4, Zenon
  <2>4. \A i \in 1 .. n : f[i] \in Bytes
    <3> DEFINE T == {i \in 1 .. n : f[i] \notin Bytes}
    <3> SUFFICES ASSUME T # {} PROVE FALSE
      OBVIOUS
    <3>1. T \subseteq Nat
      BY <1>0
    <3>2. PICK k \in T : \A y \in T : k <= y
      <4> HIDE DEF T
      <4> QED BY <3>1, LeastExists
    <3>3. k \in 2 .. n /\ k - 1 \in 1 .. n /\ k \in 1 .. n
      BY <1>0, <1>2, <2>3, <3>2
    <3>4. f[k - 1] \in Bytes /\ s[k] \in Bytes
      BY <1>0, <3>2, <3>3
    <3>5. f[k - 1] \o s[k] \in Bytes
      BY <3>4 DEF Bytes
    <3> QED BY <2>3, <3>2, <3>3, <3>5
  <2> DEFINE P == [i \in 0 .. n |-> IF i = 0 THEN <<>> ELSE f[i]]
  <2>5. P \in [0 .. n -> Bytes]
    <3>1. <<>> \in Bytes
      BY DEF Bytes
    <3> QED BY <1>0, <2>4, <3>1
  <2>6. ASSUME NEW i \in 1 .. n PROVE P[i] = P[i - 1] \o s[i]
    <3>1. CASE i = 1
      <4>1. P[1] = s[1] /\ P[0] = <<>> /\ s[1] \in Bytes
        BY <1>0, <1>2, <2>3
      <4>2. <<>> \o s[1] = s[1]
        BY <4>1 DEF Bytes
      <4> QED BY <3>1, <4>1, <4>2
    <3>2. CASE i # 1
      <4>1. i \in 2 .. n
        BY <1>0, <3>2
      <4>2. P[i] = f[i] /\ P[i - 1] = f[i - 1]
        BY <1>0, <4>1
      <4> QED BY <2>3, <4>1, <4>2, Zenon
    <3> QED BY <3>1, <3>2
  <2>7. P[0] = <<>> /\ P[n] = f[n]
    BY <1>0, <1>2
  <2> HIDE DEF P
  <2>8. Sums(P, s)
    BY <2>5, <2>6, <2>7 DEF Sums
  <2> QED BY <2>1, <2>7, <2>8
<1> QED BY <1>1, <1>2

\* Concatenation of bytes and its elements.
LEMMA Joined ==
  ASSUME NEW a \in Bytes, NEW b \in Bytes
  PROVE  /\ a \o b \in Bytes /\ Len(a \o b) = Len(a) + Len(b)
         /\ Len(a) \in Nat /\ Len(b) \in Nat
         /\ \A i \in 1 .. Len(a) : (a \o b)[i] = a[i]
         /\ \A i \in 1 .. Len(b) : (a \o b)[Len(a) + i] = b[i]
BY DEF Bytes

\* A part of a sequence of bytes.
LEMMA Part ==
  ASSUME NEW x \in Bytes, NEW a \in Nat \ {0}, NEW n \in Nat, n <= Len(x), a <= n + 1
  PROVE  /\ SubSeq(x, a, n) \in Bytes /\ Len(SubSeq(x, a, n)) = n - a + 1
         /\ \A i \in 1 .. (n - a + 1) : SubSeq(x, a, n)[i] = x[a + i - 1]
<1>0. Len(x) \in Nat /\ x \in Seq(Nat)
  BY DEF Bytes
<1>1. \A i \in a .. n : x[i] \in Nat
  BY <1>0
<1>2. SubSeq(x, a, n) \in Bytes
  BY <1>0, <1>1 DEF Bytes
<1>3. Len(SubSeq(x, a, n)) = n - a + 1
  BY <1>0
<1>4. \A i \in 1 .. (n - a + 1) : SubSeq(x, a, n)[i] = x[a + i - 1]
  BY <1>0
<1> QED BY <1>2, <1>3, <1>4

\* Two sequences of bytes with the same bytes are the same.
LEMMA SameBytes ==
  ASSUME NEW a \in Bytes, NEW b \in Bytes, Len(a) = Len(b),
         \A i \in 1 .. Len(a) : a[i] = b[i]
  PROVE  a = b
BY DEF Bytes

\* Concatenation may be regrouped.
LEMMA Regrouped ==
  ASSUME NEW a \in Bytes, NEW b \in Bytes, NEW c \in Bytes
  PROVE  (a \o b) \o c = a \o (b \o c)
BY DEF Bytes

\* What the first j pieces are together begins all of them.
LEMMA SumsBegin ==
  ASSUME NEW s, NEW P, Sums(P, s), s \in Seq(Bytes), NEW j \in 0 .. Len(s)
  PROVE  \E t \in Bytes : P[Len(s)] = P[j] \o t
<1> DEFINE n == Len(s)
           Q(k) == \E t \in Bytes : P[k] = P[j] \o t
           T == {k \in j .. n : ~Q(k)}
<1>0. n \in Nat /\ \A i \in 1 .. n : s[i] \in Bytes
  OBVIOUS
<1>1. \A i \in 0 .. n : P[i] \in Bytes
  BY DEF Sums
<1> SUFFICES ASSUME T # {} PROVE FALSE
  BY <1>0
<1>2. T \subseteq Nat
  BY <1>0
<1>3. PICK k \in T : \A y \in T : k <= y
  <2> HIDE DEF T
  <2> QED BY <1>2, LeastExists
<1>4. CASE k = j
  <2>1. <<>> \in Bytes /\ P[j] = P[j] \o <<>>
    BY <1>1 DEF Bytes
  <2>2. Q(j)
    BY <2>1
  <2> HIDE DEF Q
  <2> QED BY <1>3, <1>4, <2>2
<1>5. CASE k # j
  <2> HIDE DEF Q
  <2>1. k - 1 \in j .. n /\ Q(k - 1) /\ k \in 1 .. n /\ ~Q(k)
    BY <1>0, <1>3, <1>5
  <2> USE DEF Q
  <2>2. PICK t \in Bytes : P[k - 1] = P[j] \o t
    BY <2>1
  <2>3. s[k] \in Bytes /\ P[j] \in Bytes
    BY <1>0, <1>1, <2>1
  <2>4. P[k] = (P[j] \o t) \o s[k]
    BY <2>1, <2>2 DEF Sums
  <2>5. P[k] = P[j] \o (t \o s[k])
    BY <2>3, <2>4, Regrouped
  <2>6. t \o s[k] \in Bytes
    BY <2>3, Joined
  <2> QED BY <2>1, <2>5, <2>6
<1> QED BY <1>4, <1>5

-----------------------------------------------------------------------------
(***************************************************************************)
(* What a message of each protocol is: the marks and lengths by which its  *)
(* parser finds the end, and none of the marks before it.                  *)
(***************************************************************************)

\* The byte of checksum that follows ETX.
Checksum(m) == IF m[2] = 49 /\ m[3] = 70 THEN 0 ELSE 1

WellFormed(p, m) ==
  /\ m \in Bytes /\ m # <<>>
  /\ p = "admitto" =>
       /\ Len(m) >= 3 /\ m[Len(m) - 1] = CR /\ m[Len(m)] = LF
       /\ \A i \in 2 .. (Len(m) - 2) : m[i] # CR \/ m[i + 1] # LF
  /\ p = "axesstmc13" => m[Len(m)] = CR /\ \A i \in 1 .. (Len(m) - 1) : m[i] # CR
  /\ p = "axesstmclegic" => Len(m) >= 7 /\ m[1] + 1 = Len(m)
  /\ p = "deister" =>
       Len(m) >= 10 /\ m[Len(m)] = STOP /\ \A i \in 8 .. (Len(m) - 1) : m[i] # STOP
  /\ p = "elatec" => Len(m) >= 5 /\ m[1] = Len(m)
  /\ p = "gigatms" =>
       /\ Len(m) >= 7 /\ m[1] = STX1 /\ m[2] = STX2 /\ m[3] + 4 = Len(m)
       /\ \A i \in 2 .. Len(m) : m[i] # STX1
  /\ p = "gunnebo" =>
       /\ Len(m) >= 4 /\ m[1] = STX /\ m[Len(m) - Checksum(m)] = ETX
       /\ \A i \in 2 .. (Len(m) - Checksum(m) - 1) : m[i] # ETX
  /\ p = "osdp" =>
       Len(m) >= 6 /\ Len(m) < 32768 /\ m[1] = SOM /\ m[4] * 256 + m[3] = Len(m)
  /\ p = "promag" =>
       /\ Len(m) >= 3 /\ m[1] = STX /\ m[Len(m)] = CR
       /\ \A i \in 2 .. (Len(m) - 1) : m[i] # CR
       /\ \A i \in 2 .. Len(m) : m[i] \notin {STX, ESC, BEL}
  /\ p = "sciel" =>
       /\ Len(m) >= 2 /\ m[1] = Open /\ m[Len(m)] = Close
       /\ \A i \in 2 .. (Len(m) - 1) : m[i] # Close
       /\ \A i \in 2 .. Len(m) : m[i] # Open
  /\ p = "stidprg" => Len(m) >= 6 /\ m[1] = STX /\ m[4] + 6 = Len(m) /\ m[Len(m)] = ETX
  /\ p = "stidstr" => Len(m) >= 7 /\ Len(m) < 65536 /\ m[2] * 256 + m[3] + 7 = Len(m)

\* b begins with m, or with as much of it as has come.
Agree(b, m) == \A i \in 1 .. Len(m) : i <= Len(b) => b[i] = m[i]

\* What is left of b behind m.
Behind(b, m) == SubSeq(b, Len(m) + 1, Len(b))

\* A parser waits, goes past the end of the buffer, or has the message, all of it
\* and no more.
Finds(o, r, b, m) ==
  \/ o = Nothing(b)
  \/ o = Outcome(<<>>, b, FALSE)
  \/ Len(m) <= Len(b) /\ o = Outcome(r, Behind(b, m), TRUE)

\* What a short and an unsigned short make of a number.
LEMMA ShortIs ==
  ASSUME NEW n \in Nat
  PROVE  /\ Short(n) \in Int /\ Short(n) <= n /\ (n < 32768 => Short(n) = n)
         /\ UnsignedShort(n) \in Nat /\ UnsignedShort(n) <= n /\ (n < 65536 => UnsignedShort(n) = n)
<1>1. n % 65536 \in Nat /\ n % 65536 <= n /\ (n < 65536 => n % 65536 = n)
  OBVIOUS
<1> QED BY <1>1 DEF Short, UnsignedShort

\* Take of the length of the message.
LEMMA TakeMessage ==
  ASSUME NEW b \in Bytes, NEW m \in Bytes, Agree(b, m)
  PROVE  Finds(Take(b, Len(m)), m, b, m)
<1>0. Len(b) \in Nat /\ Len(m) \in Nat
  BY DEF Bytes
<1>1. CASE Len(m) <= Len(b)
  <2> DEFINE c == SubSeq(b, 1, Len(m))
  <2>1. c \in Bytes /\ Len(c) = Len(m) /\ \A i \in 1 .. Len(m) : c[i] = b[i]
    BY <1>0, <1>1 DEF Bytes
  <2>2. \A i \in 1 .. Len(m) : b[i] = m[i]
    BY <1>0, <1>1 DEF Agree
  <2> HIDE DEF c
  <2>3. c = m
    BY <2>1, <2>2, SameBytes
  <2>4. Take(b, Len(m)) = Outcome(c, Behind(b, m), TRUE)
    <3>1. ~(Len(m) < 0 \/ Len(m) > Len(b))
      BY <1>0, <1>1
    <3> QED BY <3>1, Zenon DEF Take, Cut, Behind, c
  <2> QED BY <1>1, <2>3, <2>4 DEF Finds
<1>2. CASE ~(Len(m) <= Len(b))
  <2>1. Len(m) > Len(b)
    BY <1>0, <1>2
  <2> QED BY <2>1, Zenon DEF Take, Cut, Finds
<1> QED BY <1>1, <1>2

\* Legic: the first byte announces the bytes behind it.
LEMMA AxessTMCLegicFinds ==
  ASSUME NEW b \in Bytes, NEW m, WellFormed("axesstmclegic", m), Agree(b, m)
  PROVE  Finds(AxessTMCLegic(b), m, b, m)
<1>1. m \in Bytes /\ Len(m) \in Nat /\ Len(b) \in Nat /\ Len(m) >= 7 /\ m[1] + 1 = Len(m)
  BY DEF WellFormed, Bytes
<1>2. Len(b) >= 7 => b[1] = m[1]
  BY <1>1 DEF Agree
<1>3. AxessTMCLegic(b) \in {Take(b, Len(m)), Nothing(b)}
  BY <1>1, <1>2 DEF AxessTMCLegic
<1> QED BY <1>1, <1>3, TakeMessage DEF Finds

\* Elatec: the length counts itself.
LEMMA ElatecFinds ==
  ASSUME NEW b \in Bytes, NEW m, WellFormed("elatec", m), Agree(b, m)
  PROVE  Finds(Elatec(b), m, b, m)
<1>1. m \in Bytes /\ Len(m) \in Nat /\ Len(b) \in Nat /\ Len(m) >= 5 /\ m[1] = Len(m)
  BY DEF WellFormed, Bytes
<1>2. Len(b) >= 5 => b[1] = m[1]
  BY <1>1 DEF Agree
<1>3. Elatec(b) \in {Take(b, Len(m)), Nothing(b)}
  BY <1>1, <1>2 DEF Elatec
<1> QED BY <1>1, <1>3, TakeMessage DEF Finds

\* STid STR: two bytes of length after the start mark.
LEMMA STidSTRFinds ==
  ASSUME NEW b \in Bytes, NEW m, WellFormed("stidstr", m), Agree(b, m)
  PROVE  Finds(STidSTR(b), m, b, m)
<1>1. /\ m \in Bytes /\ Len(m) \in Nat /\ Len(b) \in Nat /\ Len(m) >= 7 /\ Len(m) < 65536
      /\ m[2] * 256 + m[3] + 7 = Len(m)
  BY DEF WellFormed, Bytes
<1>2. Len(b) >= 7 => b[2] = m[2] /\ b[3] = m[3]
  BY <1>1 DEF Agree
<1>3. STidSTR(b) \in {Take(b, Len(m)), Nothing(b)}
  <2>1. UnsignedShort(Len(m)) = Len(m)
    BY <1>1, ShortIs
  <2>2. Len(b) >= 7 => b[2] * 256 + b[3] + 7 = Len(m)
    BY <1>1, <1>2
  <2> QED BY <2>1, <2>2, Zenon DEF STidSTR
<1>4. Finds(Take(b, Len(m)), m, b, m)
  BY <1>1, TakeMessage
<1> QED BY <1>3, <1>4, Zenon DEF Finds

\* STid PRG: one byte of length, and the stop mark is looked at as well.
LEMMA STidPRGFinds ==
  ASSUME NEW b \in Bytes, NEW m, WellFormed("stidprg", m), Agree(b, m)
  PROVE  Finds(STidPRG(b), m, b, m)
<1>1. /\ m \in Bytes /\ Len(m) \in Nat /\ Len(b) \in Nat /\ Len(m) >= 6
      /\ m[4] + 6 = Len(m)
  BY DEF WellFormed, Bytes
<1>2. Len(b) >= 6 => b[4] = m[4]
  BY <1>1 DEF Agree
<1>3. STidPRG(b) \in {Take(b, Len(m)), Nothing(b)}
  BY <1>1, <1>2 DEF STidPRG
<1> QED BY <1>1, <1>3, TakeMessage DEF Finds

\* GigaTMS: the start marks are there once three bytes are, and with three bytes
\* alone the message is taken at once.
LEMMA GigaTMSFinds ==
  ASSUME NEW b \in Bytes, NEW m, WellFormed("gigatms", m), Agree(b, m)
  PROVE  Finds(GigaTMS(b), m, b, m)
<1>1. /\ m \in Bytes /\ Len(m) \in Nat /\ Len(b) \in Nat /\ Len(m) >= 7
      /\ m[1] = STX1 /\ m[2] = STX2 /\ m[3] + 4 = Len(m) /\ m[3] \in Nat
  <2>1. /\ m \in Bytes /\ Len(m) \in Nat /\ Len(b) \in Nat /\ Len(m) >= 7
        /\ m[1] = STX1 /\ m[2] = STX2 /\ m[3] + 4 = Len(m)
    BY DEF WellFormed, Bytes
  <2>2. m[3] \in Nat
    <3>1. m \in Seq(Nat) /\ 3 \in 1 .. Len(m) BY <2>1 DEF Bytes
    <3> QED BY <3>1
  <2> QED BY <2>1, <2>2
<1>2. Len(b) >= 3 => b[1] = STX1 /\ b[2] = STX2 /\ b[3] = m[3]
  <2>1. 1 \in 1 .. Len(m) /\ 2 \in 1 .. Len(m) /\ 3 \in 1 .. Len(m)
    BY <1>1
  <2>2. Len(b) >= 3 => b[1] = m[1] /\ b[2] = m[2] /\ b[3] = m[3]
    BY <1>1, <2>1 DEF Agree
  <2> QED BY <1>1, <2>2
<1>3. GigaTMS(b) \in {Take(b, Len(m)), Nothing(b)}
  <2>1. CASE Len(b) < 3
    BY <2>1 DEF GigaTMS
  <2>2. CASE ~(Len(b) < 3)
    <3>1. b[1] = STX1 /\ b[2] = STX2 /\ b[3] = m[3] /\ ~(b[3] < 3) /\ b[3] + 4 = Len(m)
      BY <1>1, <1>2, <2>2
    <3>2. GigaTMS(b) \in {Take(b, b[3] + 4), Nothing(b)}
      BY <2>2, <3>1 DEF GigaTMS
    <3> QED BY <3>1, <3>2
  <2> QED BY <2>1, <2>2
<1> QED BY <1>1, <1>3, TakeMessage DEF Finds

\* OSDP: the buffer that begins with a message keeps its first byte.
LEMMA OSDPFinds ==
  ASSUME NEW b \in Bytes, b # <<>>, NEW m, WellFormed("osdp", m), Agree(b, m)
  PROVE  Finds(OSDP(b), m, b, m)
<1>1. /\ m \in Bytes /\ Len(m) \in Nat /\ Len(b) \in Nat \ {0} /\ Len(m) >= 6
      /\ m[1] = SOM /\ m[4] * 256 + m[3] = Len(m) /\ Len(m) < 32768
  BY DEF WellFormed, Bytes
<1>2. b[1] = SOM /\ (Len(b) >= 6 => b[4] = m[4] /\ b[3] = m[3])
  BY <1>1 DEF Agree
<1> DEFINE I == {i \in 1 .. Len(b) : b[i] = SOM}
           n == SelectInSeq(b, LAMBDA x : x = SOM)
           c == IF n = 0 THEN <<>> ELSE SubSeq(b, n, Len(b))
<1>3. n = 1
  <2>1. 1 \in I /\ I \subseteq Nat /\ \A i \in I : i >= 1
    BY <1>1, <1>2
  <2>2. n = IF I # {} THEN Min(I) ELSE 0
    BY DEF SelectInSeq
  <2> HIDE DEF I, n
  <2>3. Min(I) \in I /\ Min(I) <= 1
    BY <2>1, MinIsLeast
  <2>4. Min(I) = 1
    <3>1. Min(I) \in Nat /\ Min(I) >= 1
      BY <2>1, <2>3
    <3> QED BY <2>3, <3>1
  <2> QED BY <2>1, <2>2, <2>4
<1>4. c = b
  <2> HIDE DEF n
  <2>1. c = SubSeq(b, 1, Len(b))
    BY <1>3
  <2>2. SubSeq(b, 1, Len(b)) = b
    BY DEF Bytes
  <2> QED BY <2>1, <2>2
<1>5. OSDP(b) = IF Len(c) >= 6 /\ Short(Len(c)) >= Short(c[4] * 256 + c[3])
                THEN Take(c, Short(c[4] * 256 + c[3])) ELSE Nothing(c)
  BY DEF OSDP
<1> HIDE DEF c
<1>6. OSDP(b) \in {Take(b, Len(m)), Nothing(b)}
  <2>1. Short(Len(m)) = Len(m)
    BY <1>1, ShortIs
  <2>2. Len(b) >= 6 => b[4] * 256 + b[3] = Len(m)
    BY <1>1, <1>2
  <2> QED BY <1>4, <1>5, <2>1, <2>2
<1>7. Finds(Take(b, Len(m)), m, b, m)
  BY <1>1, TakeMessage
<1> QED BY <1>6, <1>7, Zenon DEF Finds

\* Axess TMC 13: up to the first CR.
LEMMA AxessTMC13Finds ==
  ASSUME NEW b \in Bytes, NEW m, WellFormed("axesstmc13", m), Agree(b, m)
  PROVE  Finds(AxessTMC13(b), m, b, m)
<1>1. /\ m \in Bytes /\ Len(m) \in Nat \ {0} /\ Len(b) \in Nat
      /\ m[Len(m)] = CR /\ \A i \in 1 .. (Len(m) - 1) : m[i] # CR
  BY DEF WellFormed, Bytes
<1> DEFINE I == {i \in 1 .. Len(b) : b[i] = CR}
<1>2. AxessTMC13(b) = IF I = {} THEN Nothing(b) ELSE Take(b, Min(I))
  BY DEF AxessTMC13, OnFirst
<1>3. I # {} => Min(I) = Len(m)
  <2> SUFFICES ASSUME I # {} PROVE Min(I) = Len(m)
    OBVIOUS
  <2>1. I \subseteq Nat
    OBVIOUS
  <2>2. Min(I) \in I /\ \A y \in I : Min(I) <= y
    <3> HIDE DEF I
    <3> QED BY <2>1, MinIsLeast
  <2>3. \A i \in I : i >= Len(m)
    BY <1>1 DEF Agree
  <2>4. Len(m) <= Len(b) => Len(m) \in I
    BY <1>1 DEF Agree
  <2> QED BY <1>1, <2>2, <2>3, <2>4
<1>4. AxessTMC13(b) \in {Take(b, Len(m)), Nothing(b)}
  <2> HIDE DEF I
  <2> QED BY <1>2, <1>3
<1> QED BY <1>1, <1>4, TakeMessage DEF Finds

\* A search whose first hit is at n, when the buffer reaches that far, and that
\* has none before.
LEMMA FirstHit ==
  ASSUME NEW I, I \subseteq Nat, NEW n \in Nat, \A i \in I : i >= n, n \in I \/ I = {}
  PROVE  I # {} => Min(I) = n
<1> SUFFICES ASSUME I # {} PROVE Min(I) = n
  OBVIOUS
<1>1. Min(I) \in I /\ \A y \in I : Min(I) <= y
  BY MinIsLeast
<1>2. Min(I) \in Nat /\ Min(I) >= n /\ Min(I) <= n
  BY <1>1
<1> QED BY <1>2

\* Deister: the first stop mark that is not in the head.
LEMMA DeisterFinds ==
  ASSUME NEW b \in Bytes, NEW m, WellFormed("deister", m), Agree(b, m)
  PROVE  Finds(Deister(b), m, b, m)
<1>1. /\ m \in Bytes /\ Len(m) \in Nat /\ Len(b) \in Nat /\ Len(m) >= 10
      /\ m[Len(m)] = STOP /\ \A i \in 8 .. (Len(m) - 1) : m[i] # STOP
  BY DEF WellFormed, Bytes
<1> DEFINE I == {i \in 8 .. Len(b) : b[i] = STOP}
<1>2. Deister(b) \in {Nothing(b), IF I = {} THEN Nothing(b) ELSE Take(b, Min(I))}
  BY DEF Deister, OnFirst
<1>3. \A i \in I : i >= Len(m)
  BY <1>1 DEF Agree
<1>4. Len(m) \in I \/ I = {}
  <2>1. CASE Len(m) <= Len(b)
    BY <1>1, <2>1 DEF Agree
  <2>2. CASE ~(Len(m) <= Len(b))
    BY <1>1, <1>3, <2>2
  <2> QED BY <2>1, <2>2
<1>5. I # {} => Min(I) = Len(m)
  <2>1. I \subseteq Nat
    BY <1>1
  <2> HIDE DEF I
  <2> QED BY <1>1, <1>3, <1>4, <2>1, FirstHit
<1>6. Deister(b) \in {Take(b, Len(m)), Nothing(b)}
  <2> HIDE DEF I
  <2> QED BY <1>2, <1>5
<1> QED BY <1>1, <1>6, TakeMessage DEF Finds

\* Admitto: CR LF, the LF in the buffer or behind its end.
LEMMA AdmittoFinds ==
  ASSUME NEW b \in Bytes, NEW stale, NEW m, WellFormed("admitto", m), Agree(b, m)
  PROVE  Finds(Admitto(b, stale), m, b, m)
<1>1. /\ m \in Bytes /\ Len(m) \in Nat /\ Len(b) \in Nat /\ Len(m) >= 3
      /\ m[Len(m) - 1] = CR /\ m[Len(m)] = LF
      /\ \A i \in 2 .. (Len(m) - 2) : m[i] # CR \/ m[i + 1] # LF
  BY DEF WellFormed, Bytes
<1> DEFINE after(i) == IF i < Len(b) THEN b[i + 1] ELSE stale
           I == {i \in 2 .. Len(b) : b[i] = CR /\ after(i) = LF}
<1>2. Admitto(b, stale) \in {Nothing(b), IF I = {} THEN Nothing(b) ELSE Take(b, Min(I) + 1)}
  BY DEF Admitto, OnFirst
<1>3. CASE Len(m) <= Len(b)
  <2>1. \A i \in I : i >= Len(m) - 1
    BY <1>1, <1>3 DEF Agree
  <2>2. Len(m) - 1 \in I
    BY <1>1, <1>3 DEF Agree
  <2>3. I \subseteq Nat /\ Len(m) - 1 \in Nat
    BY <1>1
  <2> HIDE DEF I
  <2>4. Min(I) = Len(m) - 1
    BY <2>1, <2>2, <2>3, FirstHit
  <2>5. Admitto(b, stale) \in {Take(b, Len(m)), Nothing(b)}
    BY <1>1, <1>2, <2>4
  <2> QED BY <1>1, <2>5, TakeMessage DEF Finds
<1>4. CASE ~(Len(m) <= Len(b))
  <2>1. \A i \in I : i = Len(b)
    BY <1>1, <1>4 DEF Agree
  <2>2. I \subseteq Nat
    BY <1>1
  <2> HIDE DEF I
  <2>3. I # {} => Min(I) = Len(b)
    BY <2>1, <2>2, MinIsLeast
  <2>4. Take(b, Len(b) + 1) = Outcome(<<>>, b, FALSE)
    <3>1. Len(b) + 1 > Len(b)
      BY <1>1
    <3> QED BY <3>1, Zenon DEF Take, Cut
  <2>5. Admitto(b, stale) \in {Outcome(<<>>, b, FALSE), Nothing(b)}
    BY <1>2, <2>3, <2>4
  <2> QED BY <2>5 DEF Finds
<1> QED BY <1>3, <1>4

\* Gunnebo: ETX, and the checksum behind it if there is one.
LEMMA GunneboFinds ==
  ASSUME NEW b \in Bytes, NEW m, WellFormed("gunnebo", m), Agree(b, m)
  PROVE  Finds(Gunnebo(b), m, b, m)
<1> DEFINE n == Len(m) - Checksum(m)
<1>1. /\ m \in Bytes /\ Len(m) \in Nat /\ Len(b) \in Nat /\ Len(m) >= 4
      /\ Checksum(m) \in 0 .. 1 /\ n \in Nat /\ n >= 3 /\ n + Checksum(m) = Len(m)
      /\ m[n] = ETX /\ \A i \in 2 .. (n - 1) : m[i] # ETX
  <2>1. Checksum(m) \in 0 .. 1
    BY DEF Checksum
  <2> QED BY <2>1 DEF WellFormed, Bytes
<1> HIDE DEF n
<1>2. CASE Len(b) < 3
  BY <1>2 DEF Gunnebo, Finds
<1>3. CASE ~(Len(b) < 3)
  <2> DEFINE extra == IF b[2] = 49 /\ b[3] = 70 THEN 0 ELSE 1
             I == {i \in 2 .. Len(b) : b[i] = ETX /\ i + extra <= Len(b)}
  <2>1. extra = Checksum(m)
    <3>1. b[2] = m[2] /\ b[3] = m[3]
      BY <1>1, <1>3 DEF Agree
    <3> QED BY <3>1 DEF Checksum
  <2>2. Gunnebo(b) \in {Nothing(b), IF I = {} THEN Nothing(b) ELSE Take(b, Min(I) + extra)}
    BY DEF Gunnebo, OnFirst
  <2> HIDE DEF extra
  <2>3. \A i \in I : i >= n
    BY <1>1, <1>3 DEF Agree
  <2>4. n \in I \/ I = {}
    <3>1. CASE Len(m) <= Len(b)
      <4>1. n \in 2 .. Len(b) /\ n \in 1 .. Len(m) /\ n + extra <= Len(b)
        BY <1>1, <2>1, <3>1
      <4>2. b[n] = m[n]
        BY <1>1, <3>1, <4>1 DEF Agree
      <4> QED BY <1>1, <4>1, <4>2
    <3>2. CASE ~(Len(m) <= Len(b))
      BY <1>1, <2>1, <2>3, <3>2
    <3> QED BY <3>1, <3>2
  <2>5. I \subseteq Nat
    BY <1>1
  <2> HIDE DEF I
  <2>6. I # {} => Min(I) = n
    BY <1>1, <2>3, <2>4, <2>5, FirstHit
  <2>7. Gunnebo(b) \in {Take(b, Len(m)), Nothing(b)}
    BY <1>1, <2>1, <2>2, <2>6
  <2> QED BY <1>1, <2>7, TakeMessage DEF Finds
<1> QED BY <1>2, <1>3

\* Promag: up to CR, without the marks.
LEMMA PromagFinds ==
  ASSUME NEW b \in Bytes, b # <<>>, NEW m, WellFormed("promag", m), Agree(b, m)
  PROVE  Finds(Promag(b), SubSeq(m, 2, Len(m) - 1), b, m)
<1>1. /\ m \in Bytes /\ Len(m) \in Nat /\ Len(b) \in Nat \ {0} /\ Len(m) >= 3
      /\ m[1] = STX /\ m[Len(m)] = CR /\ \A i \in 2 .. (Len(m) - 1) : m[i] # CR
  BY DEF WellFormed, Bytes
<1>2. b[1] = STX /\ b[1] \notin {ESC, BEL}
  BY <1>1 DEF Agree, STX, ESC, BEL
<1> DEFINE I == {i \in 2 .. Len(b) : b[i] = CR}
<1>3. Promag(b) = IF I = {} THEN Nothing(b) ELSE Cut(b, 2, Min(I) - 1, Min(I))
  BY <1>2 DEF Promag, OnFirst
<1>4. \A i \in I : i >= Len(m)
  BY <1>1 DEF Agree
<1>5. CASE Len(m) <= Len(b)
  <2>1. Len(m) \in I
    BY <1>1, <1>5 DEF Agree
  <2>2. I \subseteq Nat
    BY <1>1
  <2> HIDE DEF I
  <2>3. Min(I) = Len(m) /\ I # {}
    BY <1>1, <1>4, <2>1, <2>2, FirstHit
  <2> DEFINE c == SubSeq(b, 2, Len(m) - 1)
             r == SubSeq(m, 2, Len(m) - 1)
  <2>4. Promag(b) = Outcome(c, Behind(b, m), TRUE)
    <3>1. ~(Len(m) < 0 \/ Len(m) > Len(b))
      BY <1>1, <1>5
    <3> QED BY <1>3, <2>3, <3>1, Zenon DEF Cut, Behind
  <2>5. /\ Len(m) - 1 \in Nat /\ Len(m) - 1 <= Len(b) /\ 2 <= (Len(m) - 1) + 1
        /\ Len(m) - 1 <= Len(m) /\ (Len(m) - 1) - 2 + 1 = Len(m) - 2
        /\ \A i \in 1 .. (Len(m) - 2) : 2 + i - 1 = i + 1
    BY <1>1, <1>5
  <2>6. c \in Bytes /\ Len(c) = Len(m) - 2 /\ \A i \in 1 .. (Len(m) - 2) : c[i] = b[i + 1]
    <3>1. /\ c \in Bytes /\ Len(c) = (Len(m) - 1) - 2 + 1
          /\ \A i \in 1 .. ((Len(m) - 1) - 2 + 1) : c[i] = b[2 + i - 1]
      BY <2>5, Part
    <3> HIDE DEF c
    <3> QED BY <2>5, <3>1
  <2>6a. r \in Bytes /\ Len(r) = Len(m) - 2 /\ \A i \in 1 .. (Len(m) - 2) : r[i] = m[i + 1]
    <3>1. /\ r \in Bytes /\ Len(r) = (Len(m) - 1) - 2 + 1
          /\ \A i \in 1 .. ((Len(m) - 1) - 2 + 1) : r[i] = m[2 + i - 1]
      BY <1>1, <2>5, Part
    <3> HIDE DEF r
    <3> QED BY <2>5, <3>1
  <2>7. \A i \in 1 .. (Len(m) - 2) : b[i + 1] = m[i + 1]
    BY <1>1, <1>5 DEF Agree
  <2> HIDE DEF c, r
  <2>8. c = r
    BY <2>6, <2>6a, <2>7, SameBytes
  <2> QED BY <1>5, <2>4, <2>8 DEF Finds, r
<1>6. CASE ~(Len(m) <= Len(b))
  <2>1. I = {}
    BY <1>1, <1>4, <1>6
  <2> HIDE DEF I
  <2> QED BY <1>3, <2>1 DEF Finds
<1> QED BY <1>5, <1>6

-----------------------------------------------------------------------------
(***************************************************************************)
(* The line ends that SCIEL's parser removes before a message.             *)
(***************************************************************************)

\* Where the removal goes on from i.
Skip(f, b, i) ==
  IF i < Len(b) /\ b[i] = CR THEN f[IF b[i + 1] = LF THEN i + 2 ELSE i + 1] ELSE i

\* The recursive function of Sciel, from k on.
Skips(f, b, k) ==
  /\ f = [i \in k .. (Len(b) + 1) |-> f[i]]
  /\ \A i \in k .. (Len(b) + 1) : f[i] = Skip(f, b, i)

Skippable(b, k) == \E f : Skips(f, b, k)

\* It exists: it is built from the end of the buffer.
LEMMA SkipsExist ==
  ASSUME NEW b \in Bytes
  PROVE  Skippable(b, 1)
<1> DEFINE n == Len(b)
           T == {d \in 0 .. n : ~Skippable(b, n + 1 - d)}
<1>0. n \in Nat
  BY DEF Bytes
<1> SUFFICES ASSUME T # {} PROVE FALSE
  <2>1. n \in 0 .. n /\ n + 1 - n = 1
    BY <1>0
  <2> QED BY <2>1
<1>1. PICK d \in T : \A y \in T : d <= y
  <2>1. T \subseteq Nat OBVIOUS
  <2> HIDE DEF T
  <2> QED BY <2>1, LeastExists
<1> DEFINE k == n + 1 - d
<1>2. d \in 0 .. n /\ k \in 1 .. (n + 1) /\ ~Skippable(b, k)
  BY <1>0, <1>1
<1>3. CASE d = 0
  <2> DEFINE f == [i \in k .. (n + 1) |-> i]
  <2>1. f = [i \in k .. (n + 1) |-> f[i]]
    OBVIOUS
  <2>2. \A i \in k .. (n + 1) : f[i] = i /\ ~(i < n)
    BY <1>0, <1>3
  <2> HIDE DEF f
  <2>3. Skips(f, b, k)
    BY <2>1, <2>2 DEF Skips, Skip
  <2> QED BY <1>2, <2>3 DEF Skippable
<1>4. CASE d # 0
  <2>1. d - 1 \in 0 .. n /\ d - 1 \notin T /\ n + 1 - (d - 1) = k + 1
    BY <1>0, <1>1, <1>2, <1>4
  <2>2. Skippable(b, k + 1)
    BY <2>1
  <2>3. PICK f : Skips(f, b, k + 1)
    BY <2>2 DEF Skippable
  <2> DEFINE e == Skip(f, b, k)
             g == [i \in k .. (n + 1) |-> IF i = k THEN e ELSE f[i]]
  <2> HIDE DEF k, T
  <2>4. \A i \in (k + 1) .. (n + 1) : f[i] = Skip(f, b, i)
    BY <2>3 DEF Skips
  <2> HIDE DEF e
  <2>6. g = [i \in k .. (n + 1) |-> g[i]]
    OBVIOUS
  <2>7. ASSUME NEW i \in k .. (n + 1) PROVE Skip(g, b, i) = Skip(f, b, i)
    <3>1. i < n => g[i + 1] = f[i + 1] /\ g[i + 2] = f[i + 2]
      BY <1>0, <1>2
    <3> HIDE DEF g
    <3> QED BY <3>1 DEF Skip
  <2>8. ASSUME NEW i \in k .. (n + 1) PROVE g[i] = Skip(f, b, i)
    <3>1. CASE i = k
      BY <3>1 DEF e
    <3>2. CASE i # k
      <4>1. i \in (k + 1) .. (n + 1) /\ g[i] = f[i]
        BY <1>0, <1>2, <3>2
      <4> QED BY <2>4, <4>1
    <3> QED BY <3>1, <3>2
  <2> HIDE DEF g
  <2>9. Skips(g, b, k)
    BY <2>6, <2>7, <2>8 DEF Skips
  <2> QED BY <1>2, <2>9 DEF Skippable
<1> QED BY <1>3, <1>4

\* What Sciel does with what is left after the removal.
ScielRest(c) ==
  LET Then(i) == Take(c, i)
  IN  IF Len(c) < 2 THEN Nothing(c)
      ELSE IF c[1] # Open THEN Dropped
      ELSE OnFirst({i \in 2 .. Len(c) : c[i] = Close}, c, Then)

\* Sciel waits for two bytes, removes line ends and goes on with the rest.
LEMMA ScielSkips ==
  ASSUME NEW b \in Bytes
  PROVE  \E f : Skips(f, b, 1) /\ Sciel(b) = IF Len(b) < 2 THEN Nothing(b)
                                             ELSE ScielRest(SubSeq(b, f[1], Len(b)))
<1> DEFINE Is(f) == f = [i \in 1 .. Len(b) + 1 |->
                          IF i < Len(b) /\ b[i] = CR
                          THEN f[IF b[i + 1] = LF THEN i + 2 ELSE i + 1] ELSE i]
           f == CHOOSE f : Is(f)
<1>1. PICK g : Skips(g, b, 1)
  BY SkipsExist DEF Skippable
<1>2. Is(g)
  <2>1. g = [i \in 1 .. (Len(b) + 1) |-> g[i]]
    BY <1>1, Zenon DEF Skips
  <2>2. \A i \in 1 .. (Len(b) + 1) :
          g[i] = IF i < Len(b) /\ b[i] = CR
                 THEN g[IF b[i + 1] = LF THEN i + 2 ELSE i + 1] ELSE i
    BY <1>1 DEF Skips, Skip
  <2> QED BY <2>1, <2>2, Zenon
<1>3. Is(f)
  BY <1>2, Zenon
<1>4. Sciel(b) = IF Len(b) < 2 THEN Nothing(b) ELSE ScielRest(SubSeq(b, f[1], Len(b)))
  BY Zenon DEF Sciel, ScielRest
<1> HIDE DEF f
<1>5. \A i \in 1 .. (Len(b) + 1) : f[i] = Skip(f, b, i)
  BY <1>3, Zenon DEF Skip
<1>6. f = [i \in 1 .. (Len(b) + 1) |-> f[i]]
  BY <1>3, Zenon
<1> QED BY <1>4, <1>5, <1>6 DEF Skips

\* The removal never goes past the end of the buffer.
LEMMA SkipsInside ==
  ASSUME NEW b \in Bytes, NEW f, Skips(f, b, 1)
  PROVE  f[1] \in 1 .. (Len(b) + 1)
<1> DEFINE n == Len(b)
           T == {d \in 0 .. n : f[n + 1 - d] \notin (n + 1 - d) .. (n + 1)}
<1>0. n \in Nat
  BY DEF Bytes
<1> SUFFICES ASSUME T # {} PROVE FALSE
  <2>1. n \in 0 .. n /\ n + 1 - n = 1
    BY <1>0
  <2> QED BY <2>1
<1>1. PICK d \in T : \A y \in T : d <= y
  <2>1. T \subseteq Nat OBVIOUS
  <2> HIDE DEF T
  <2> QED BY <2>1, LeastExists
<1> DEFINE k == n + 1 - d
<1>2. d \in 0 .. n /\ k \in 1 .. (n + 1) /\ f[k] \notin k .. (n + 1)
  BY <1>0, <1>1
<1>3. f[k] = Skip(f, b, k)
  BY <1>2 DEF Skips
<1>4. k < n /\ f[k] \in {f[k + 1], f[k + 2]}
  <2> HIDE DEF k
  <2>1. f[k] = k \/ (k < n /\ f[k] \in {f[k + 1], f[k + 2]})
    BY <1>3 DEF Skip
  <2>2. k \in k .. (n + 1)
    BY <1>0, <1>2
  <2> QED BY <1>2, <2>1, <2>2
<1>5. f[k + 1] \in (k + 1) .. (n + 1)
  <2>1. d - 1 \in 0 .. n /\ ~(d <= d - 1) /\ n + 1 - (d - 1) = k + 1
    BY <1>0, <1>2, <1>4
  <2>2. d - 1 \notin T
    <3> HIDE DEF T
    <3> QED BY <1>1, <2>1
  <2>3. f[n + 1 - (d - 1)] \in (n + 1 - (d - 1)) .. (n + 1)
    BY <2>1, <2>2
  <2> HIDE DEF k
  <2> QED BY <2>1, <2>3
<1>6. f[k + 2] \in (k + 2) .. (n + 1)
  <2>1. d - 2 \in 0 .. n /\ ~(d <= d - 2) /\ n + 1 - (d - 2) = k + 2
    BY <1>0, <1>2, <1>4
  <2>2. d - 2 \notin T
    <3> HIDE DEF T
    <3> QED BY <1>1, <2>1
  <2>3. f[n + 1 - (d - 2)] \in (n + 1 - (d - 2)) .. (n + 1)
    BY <2>1, <2>2
  <2> HIDE DEF k
  <2> QED BY <2>1, <2>3
<1> HIDE DEF k
<1> QED BY <1>0, <1>2, <1>4, <1>5, <1>6

\* SCIEL: from the opening to the closing mark.
LEMMA ScielRestFinds ==
  ASSUME NEW b \in Bytes, b # <<>>, NEW m, WellFormed("sciel", m), Agree(b, m)
  PROVE  Finds(ScielRest(b), m, b, m)
<1>1. /\ m \in Bytes /\ Len(m) \in Nat /\ Len(b) \in Nat \ {0} /\ Len(m) >= 2
      /\ m[1] = Open /\ m[Len(m)] = Close /\ \A i \in 2 .. (Len(m) - 1) : m[i] # Close
  BY DEF WellFormed, Bytes
<1>2. b[1] = Open
  BY <1>1 DEF Agree
<1> DEFINE I == {i \in 2 .. Len(b) : b[i] = Close}
<1>3. ScielRest(b) \in {Nothing(b), IF I = {} THEN Nothing(b) ELSE Take(b, Min(I))}
  BY <1>2 DEF ScielRest, OnFirst
<1>4. \A i \in I : i >= Len(m)
  BY <1>1 DEF Agree
<1>5. Len(m) \in I \/ I = {}
  <2>1. CASE Len(m) <= Len(b)
    BY <1>1, <2>1 DEF Agree
  <2>2. CASE ~(Len(m) <= Len(b))
    BY <1>1, <1>4, <2>2
  <2> QED BY <2>1, <2>2
<1>6. I # {} => Min(I) = Len(m)
  <2>1. I \subseteq Nat
    BY <1>1
  <2> HIDE DEF I
  <2> QED BY <1>1, <1>4, <1>5, <2>1, FirstHit
<1>7. ScielRest(b) \in {Take(b, Len(m)), Nothing(b)}
  <2> HIDE DEF I
  <2> QED BY <1>3, <1>6
<1> QED BY <1>1, <1>7, TakeMessage DEF Finds

\* Nothing is removed before a message.
LEMMA ScielFinds ==
  ASSUME NEW b \in Bytes, b # <<>>, NEW m, WellFormed("sciel", m), Agree(b, m)
  PROVE  Finds(Sciel(b), m, b, m)
<1>1. PICK f : Skips(f, b, 1) /\ Sciel(b) = IF Len(b) < 2 THEN Nothing(b)
                                           ELSE ScielRest(SubSeq(b, f[1], Len(b)))
  BY ScielSkips
<1>2. Len(b) \in Nat \ {0} /\ b[1] = Open
  <2>1. Len(b) \in Nat \ {0} /\ Len(m) \in Nat /\ Len(m) >= 2 /\ m[1] = Open
    BY DEF WellFormed, Bytes
  <2> QED BY <2>1 DEF Agree
<1>3. f[1] = 1
  <2>1. 1 \in 1 .. (Len(b) + 1) /\ b[1] # CR
    BY <1>2 DEF Open, CR
  <2> QED BY <1>1, <2>1 DEF Skips, Skip
<1>4. SubSeq(b, 1, Len(b)) = b
  BY DEF Bytes
<1>5. Sciel(b) \in {Nothing(b), ScielRest(b)}
  BY <1>1, <1>3, <1>4
<1> QED BY <1>5, ScielRestFinds DEF Finds

-----------------------------------------------------------------------------
(***************************************************************************)
(* All parsers.                                                            *)
(***************************************************************************)

\* The messages of the devices are well-formed.
LEMMA FramesWellFormed ==
  ASSUME NEW p \in Protocols, NEW m \in Frames[p]
  PROVE  WellFormed(p, m)
<1> USE DEF STX, ETX, BEL, LF, CR, ESC, SOM, Open, Close, STX1, STX2, STOP
<1>0. p \in {"admitto", "axesstmc13", "axesstmclegic", "deister", "elatec", "gigatms",
             "gunnebo", "osdp", "promag", "sciel", "stidprg", "stidstr"}
  BY DEF Protocols, Frames
<1>1. CASE p = "admitto"
  <2>0. m \in {<<65, CR, LF>>, <<65, CR, 66, CR, LF>>}
    BY <1>1 DEF Frames
  <2>1. CASE m = <<65, CR, LF>>
    <3>1. m \in Bytes /\ Len(m) = 3
      BY <2>1 DEF Bytes
    <3> QED BY <1>1, <2>1, <3>1 DEF WellFormed
  <2>2. CASE m = <<65, CR, 66, CR, LF>>
    <3>1. m \in Bytes /\ Len(m) = 5
      BY <2>2 DEF Bytes
    <3> QED BY <1>1, <2>2, <3>1 DEF WellFormed
  <2> QED BY <2>0, <2>1, <2>2
<1>2. CASE p = "axesstmc13"
  <2>0. m \in {<<78, 70, CR>>, <<78, 70, LF, 65, CR>>}
    BY <1>2 DEF Frames
  <2>1. CASE m = <<78, 70, CR>>
    <3>1. m \in Bytes /\ Len(m) = 3
      BY <2>1 DEF Bytes
    <3> QED BY <1>2, <2>1, <3>1 DEF WellFormed
  <2>2. CASE m = <<78, 70, LF, 65, CR>>
    <3>1. m \in Bytes /\ Len(m) = 5
      BY <2>2 DEF Bytes
    <3> QED BY <1>2, <2>2, <3>1 DEF WellFormed
  <2> QED BY <2>0, <2>1, <2>2
<1>3. CASE p = "axesstmclegic"
  <2>0. m \in {<<6, 1, 2, 3, 4, 5, 6>>, <<7, 7, 7, 7, 6, 6, 6, 6>>}
    BY <1>3 DEF Frames
  <2>1. CASE m = <<6, 1, 2, 3, 4, 5, 6>>
    <3>1. m \in Bytes /\ Len(m) = 7
      BY <2>1 DEF Bytes
    <3> QED BY <1>3, <2>1, <3>1 DEF WellFormed
  <2>2. CASE m = <<7, 7, 7, 7, 6, 6, 6, 6>>
    <3>1. m \in Bytes /\ Len(m) = 8
      BY <2>2 DEF Bytes
    <3> QED BY <1>3, <2>2, <3>1 DEF WellFormed
  <2> QED BY <2>0, <2>1, <2>2
<1>4. CASE p = "deister"
  <2>0. m \in {<<255, 255, 251, 1, STOP, 9, 0, 1, 2, STOP>>,
               <<255, 255, 251, 1, 0, 9, 0, 255, 1, 2, STOP>>}
    BY <1>4 DEF Frames
  <2>1. CASE m = <<255, 255, 251, 1, STOP, 9, 0, 1, 2, STOP>>
    <3>1. m \in Bytes /\ Len(m) = 10
      BY <2>1 DEF Bytes
    <3> QED BY <1>4, <2>1, <3>1 DEF WellFormed
  <2>2. CASE m = <<255, 255, 251, 1, 0, 9, 0, 255, 1, 2, STOP>>
    <3>1. m \in Bytes /\ Len(m) = 11
      BY <2>2 DEF Bytes
    <3> QED BY <1>4, <2>2, <3>1 DEF WellFormed
  <2> QED BY <2>0, <2>1, <2>2
<1>5. CASE p = "elatec"
  <2>0. m \in {<<5, 255, 17, 0, 5>>, <<7, 255, 17, 0, 5, 5, 7>>}
    BY <1>5 DEF Frames
  <2>1. CASE m = <<5, 255, 17, 0, 5>>
    <3>1. m \in Bytes /\ Len(m) = 5
      BY <2>1 DEF Bytes
    <3> QED BY <1>5, <2>1, <3>1 DEF WellFormed
  <2>2. CASE m = <<7, 255, 17, 0, 5, 5, 7>>
    <3>1. m \in Bytes /\ Len(m) = 7
      BY <2>2 DEF Bytes
    <3> QED BY <1>5, <2>2, <3>1 DEF WellFormed
  <2> QED BY <2>0, <2>1, <2>2
<1>6. CASE p = "gigatms"
  <2>0. m \in {<<STX1, STX2, 3, 1, 2, 3, 4>>, <<STX1, STX2, 4, 1, 1, 1, 1, 4>>}
    BY <1>6 DEF Frames
  <2>1. CASE m = <<STX1, STX2, 3, 1, 2, 3, 4>>
    <3>1. m \in Bytes /\ Len(m) = 7
      BY <2>1 DEF Bytes
    <3> QED BY <1>6, <2>1, <3>1 DEF WellFormed
  <2>2. CASE m = <<STX1, STX2, 4, 1, 1, 1, 1, 4>>
    <3>1. m \in Bytes /\ Len(m) = 8
      BY <2>2 DEF Bytes
    <3> QED BY <1>6, <2>2, <3>1 DEF WellFormed
  <2> QED BY <2>0, <2>1, <2>2
<1>7. CASE p = "gunnebo"
  <2>0. m \in {<<STX, 49, 70, ETX>>, <<STX, 49, ETX, ETX>>, <<STX, 49, 65, ETX, STX>>}
    BY <1>7 DEF Frames
  <2>1. CASE m = <<STX, 49, 70, ETX>>
    <3>1. m \in Bytes /\ Len(m) = 4
      BY <2>1 DEF Bytes
    <3> QED BY <1>7, <2>1, <3>1 DEF WellFormed, Checksum
  <2>2. CASE m = <<STX, 49, ETX, ETX>>
    <3>1. m \in Bytes /\ Len(m) = 4
      BY <2>2 DEF Bytes
    <3> QED BY <1>7, <2>2, <3>1 DEF WellFormed, Checksum
  <2>3. CASE m = <<STX, 49, 65, ETX, STX>>
    <3>1. m \in Bytes /\ Len(m) = 5
      BY <2>3 DEF Bytes
    <3> QED BY <1>7, <2>3, <3>1 DEF WellFormed, Checksum
  <2> QED BY <2>0, <2>1, <2>2, <2>3
<1>8. CASE p = "osdp"
  <2>0. m \in {<<SOM, 128, 6, 0, 4, SOM>>, <<SOM, 128, 8, 0, 5, SOM, 6, 0>>}
    BY <1>8 DEF Frames
  <2>1. CASE m = <<SOM, 128, 6, 0, 4, SOM>>
    <3>1. m \in Bytes /\ Len(m) = 6
      BY <2>1 DEF Bytes
    <3> QED BY <1>8, <2>1, <3>1 DEF WellFormed
  <2>2. CASE m = <<SOM, 128, 8, 0, 5, SOM, 6, 0>>
    <3>1. m \in Bytes /\ Len(m) = 8
      BY <2>2 DEF Bytes
    <3> QED BY <1>8, <2>2, <3>1 DEF WellFormed
  <2> QED BY <2>0, <2>1, <2>2
<1>9. CASE p = "promag"
  <2>0. m \in {<<STX, 65, CR>>, <<STX, 65, LF, CR>>}
    BY <1>9 DEF Frames
  <2>1. CASE m = <<STX, 65, CR>>
    <3>1. m \in Bytes /\ Len(m) = 3
      BY <2>1 DEF Bytes
    <3> QED BY <1>9, <2>1, <3>1 DEF WellFormed
  <2>2. CASE m = <<STX, 65, LF, CR>>
    <3>1. m \in Bytes /\ Len(m) = 4
      BY <2>2 DEF Bytes
    <3> QED BY <1>9, <2>2, <3>1 DEF WellFormed
  <2> QED BY <2>0, <2>1, <2>2
<1>10. CASE p = "sciel"
  <2>0. m \in {<<Open, Close>>, <<Open, CR, 65, Close>>}
    BY <1>10 DEF Frames
  <2>1. CASE m = <<Open, Close>>
    <3>1. m \in Bytes /\ Len(m) = 2
      BY <2>1 DEF Bytes
    <3> QED BY <1>10, <2>1, <3>1 DEF WellFormed
  <2>2. CASE m = <<Open, CR, 65, Close>>
    <3>1. m \in Bytes /\ Len(m) = 4
      BY <2>2 DEF Bytes
    <3> QED BY <1>10, <2>2, <3>1 DEF WellFormed
  <2> QED BY <2>0, <2>1, <2>2
<1>11. CASE p = "stidprg"
  <2>0. m \in {<<STX, 0, 0, 0, 9, ETX>>, <<STX, 0, 0, 2, 1, ETX, ETX, ETX>>}
    BY <1>11 DEF Frames
  <2>1. CASE m = <<STX, 0, 0, 0, 9, ETX>>
    <3>1. m \in Bytes /\ Len(m) = 6
      BY <2>1 DEF Bytes
    <3> QED BY <1>11, <2>1, <3>1 DEF WellFormed
  <2>2. CASE m = <<STX, 0, 0, 2, 1, ETX, ETX, ETX>>
    <3>1. m \in Bytes /\ Len(m) = 8
      BY <2>2 DEF Bytes
    <3> QED BY <1>11, <2>2, <3>1 DEF WellFormed
  <2> QED BY <2>0, <2>1, <2>2
<1>12. CASE p = "stidstr"
  <2>0. m \in {<<STX, 0, 0, 1, 1, 7, 7>>, <<STX, 0, 2, 1, 1, 0, 0, 7, 7>>}
    BY <1>12 DEF Frames
  <2>1. CASE m = <<STX, 0, 0, 1, 1, 7, 7>>
    <3>1. m \in Bytes /\ Len(m) = 7
      BY <2>1 DEF Bytes
    <3> QED BY <1>12, <2>1, <3>1 DEF WellFormed
  <2>2. CASE m = <<STX, 0, 2, 1, 1, 0, 0, 7, 7>>
    <3>1. m \in Bytes /\ Len(m) = 9
      BY <2>2 DEF Bytes
    <3> QED BY <1>12, <2>2, <3>1 DEF WellFormed
  <2> QED BY <2>0, <2>1, <2>2
<1> QED BY <1>0, <1>1, <1>2, <1>3, <1>4, <1>5, <1>6, <1>7, <1>8, <1>9, <1>10, <1>11, <1>12

\* Whatever part of a well-formed message has come, and whatever has come behind
\* it, getValidBuffer waits, goes past the end of the buffer, or returns that
\* message and leaves what is behind it: it never cuts one, joins two or loses
\* bytes of the next.
THEOREM ParserFinds ==
  ASSUME NEW p \in Protocols, NEW b \in Bytes, b # <<>>, NEW stale, NEW m,
         WellFormed(p, m), Agree(b, m)
  PROVE  Finds(getValidBuffer(p, b, stale), Content(p, m), b, m)
<1>0. p \in {"admitto", "axesstmc13", "axesstmclegic", "deister", "elatec", "gigatms",
             "gunnebo", "osdp", "promag", "sciel", "stidprg", "stidstr"}
  BY DEF Protocols, Frames
<1>1. CASE p = "admitto"
  <2>1. getValidBuffer(p, b, stale) = Admitto(b, stale)
    BY <1>1 DEF getValidBuffer
  <2>2. Content(p, m) = m
    BY <1>1 DEF Content
  <2> QED BY <1>1, <2>1, <2>2, AdmittoFinds
<1>2. CASE p = "axesstmc13"
  <2>1. getValidBuffer(p, b, stale) = AxessTMC13(b)
    BY <1>2 DEF getValidBuffer
  <2>2. Content(p, m) = m
    BY <1>2 DEF Content
  <2> QED BY <1>2, <2>1, <2>2, AxessTMC13Finds
<1>3. CASE p = "axesstmclegic"
  <2>1. getValidBuffer(p, b, stale) = AxessTMCLegic(b)
    BY <1>3 DEF getValidBuffer
  <2>2. Content(p, m) = m
    BY <1>3 DEF Content
  <2> QED BY <1>3, <2>1, <2>2, AxessTMCLegicFinds
<1>4. CASE p = "deister"
  <2>1. getValidBuffer(p, b, stale) = Deister(b)
    BY <1>4 DEF getValidBuffer
  <2>2. Content(p, m) = m
    BY <1>4 DEF Content
  <2> QED BY <1>4, <2>1, <2>2, DeisterFinds
<1>5. CASE p = "elatec"
  <2>1. getValidBuffer(p, b, stale) = Elatec(b)
    BY <1>5 DEF getValidBuffer
  <2>2. Content(p, m) = m
    BY <1>5 DEF Content
  <2> QED BY <1>5, <2>1, <2>2, ElatecFinds
<1>6. CASE p = "gigatms"
  <2>1. getValidBuffer(p, b, stale) = GigaTMS(b)
    BY <1>6 DEF getValidBuffer
  <2>2. Content(p, m) = m
    BY <1>6 DEF Content
  <2> QED BY <1>6, <2>1, <2>2, GigaTMSFinds
<1>7. CASE p = "gunnebo"
  <2>1. getValidBuffer(p, b, stale) = Gunnebo(b)
    BY <1>7 DEF getValidBuffer
  <2>2. Content(p, m) = m
    BY <1>7 DEF Content
  <2> QED BY <1>7, <2>1, <2>2, GunneboFinds
<1>8. CASE p = "osdp"
  <2>1. getValidBuffer(p, b, stale) = OSDP(b)
    BY <1>8 DEF getValidBuffer
  <2>2. Content(p, m) = m
    BY <1>8 DEF Content
  <2> QED BY <1>8, <2>1, <2>2, OSDPFinds
<1>9. CASE p = "promag"
  <2>1. getValidBuffer(p, b, stale) = Promag(b)
    BY <1>9 DEF getValidBuffer
  <2>2. Content(p, m) = SubSeq(m, 2, Len(m) - 1)
    BY <1>9 DEF Content
  <2> QED BY <1>9, <2>1, <2>2, PromagFinds
<1>10. CASE p = "sciel"
  <2>1. getValidBuffer(p, b, stale) = Sciel(b)
    BY <1>10 DEF getValidBuffer
  <2>2. Content(p, m) = m
    BY <1>10 DEF Content
  <2> QED BY <1>10, <2>1, <2>2, ScielFinds
<1>11. CASE p = "stidprg"
  <2>1. getValidBuffer(p, b, stale) = STidPRG(b)
    BY <1>11 DEF getValidBuffer
  <2>2. Content(p, m) = m
    BY <1>11 DEF Content
  <2> QED BY <1>11, <2>1, <2>2, STidPRGFinds
<1>12. CASE p = "stidstr"
  <2>1. getValidBuffer(p, b, stale) = STidSTR(b)
    BY <1>12 DEF getValidBuffer
  <2>2. Content(p, m) = m
    BY <1>12 DEF Content
  <2> QED BY <1>12, <2>1, <2>2, STidSTRFinds
<1> QED BY <1>0, <1>1, <1>2, <1>3, <1>4, <1>5, <1>6, <1>7, <1>8, <1>9, <1>10, <1>11, <1>12

-----------------------------------------------------------------------------
(***************************************************************************)
(* The parsers and the end of the buffer, whatever is in it.               *)
(***************************************************************************)

\* What is left of what is left.
LEMMA PartOfPart ==
  ASSUME NEW x \in Bytes, NEW a \in Nat \ {0}, NEW n \in Nat, n <= Len(x), a <= n + 1,
         NEW k \in 1 .. (n - a + 2)
  PROVE  SubSeq(SubSeq(x, a, n), k, Len(SubSeq(x, a, n))) = SubSeq(x, a + k - 1, n)
<1> DEFINE y == SubSeq(x, a, n)
           l == n - a + 1
           u == SubSeq(y, k, l)
           v == SubSeq(x, a + k - 1, n)
<1>1. y \in Bytes /\ Len(y) = l /\ \A i \in 1 .. l : y[i] = x[a + i - 1]
  BY Part
<1>2. l \in Nat /\ k \in Nat \ {0} /\ k <= l + 1 /\ a + k - 1 \in Nat \ {0} /\ a + k - 1 <= n + 1
  OBVIOUS
<1>3. v \in Bytes /\ Len(v) = l - k + 1 /\ \A i \in 1 .. (l - k + 1) : v[i] = x[a + (k + i - 1) - 1]
  <2>1. /\ v \in Bytes /\ Len(v) = n - (a + k - 1) + 1
        /\ \A i \in 1 .. (n - (a + k - 1) + 1) : v[i] = x[(a + k - 1) + i - 1]
    BY <1>2, Part
  <2>2. /\ n - (a + k - 1) + 1 = l - k + 1
        /\ \A i \in 1 .. (l - k + 1) : (a + k - 1) + i - 1 = a + (k + i - 1) - 1
    BY <1>2
  <2> HIDE DEF v, l
  <2> QED BY <2>1, <2>2
<1> HIDE DEF y
<1>4. u \in Bytes /\ Len(u) = l - k + 1 /\ \A i \in 1 .. (l - k + 1) : u[i] = y[k + i - 1]
  <2> HIDE DEF l
  <2>1. l <= Len(y)
    BY <1>1, <1>2
  <2> QED BY <1>1, <1>2, <2>1, Part
<1>5. \A i \in 1 .. (l - k + 1) : y[k + i - 1] = x[a + (k + i - 1) - 1]
  <2>1. \A i \in 1 .. (l - k + 1) : k + i - 1 \in 1 .. l
    BY <1>2
  <2> HIDE DEF l
  <2> QED BY <1>1, <2>1
<1> HIDE DEF u, v, l
<1>6. u = v
  BY <1>3, <1>4, <1>5, SameBytes
<1> QED BY <1>1, <1>6 DEF u, v, y

\* A parser leaves an end of the buffer, and has not gone past it.
Ends(r, b) == \E k \in 1 .. (Len(b) + 1) : r = SubSeq(b, k, Len(b))
Safe(o, b) == o.defined = TRUE /\ Ends(o.rest, b)

\* What ends the buffer is a sequence of bytes.
LEMMA EndsType ==
  ASSUME NEW b \in Bytes, NEW r, Ends(r, b)
  PROVE  r \in Bytes
<1>1. PICK k \in 1 .. (Len(b) + 1) : r = SubSeq(b, k, Len(b))
  BY DEF Ends
<1>2. Len(b) \in Nat /\ k \in Nat \ {0} /\ k <= Len(b) + 1 /\ Len(b) <= Len(b)
  BY DEF Bytes
<1> QED BY <1>1, <1>2, Part

\* What ends an end of the buffer ends the buffer.
LEMMA EndsTwice ==
  ASSUME NEW b \in Bytes, NEW c, Ends(c, b), NEW r, Ends(r, c)
  PROVE  Ends(r, b)
<1>1. PICK k \in 1 .. (Len(b) + 1) : c = SubSeq(b, k, Len(b))
  BY DEF Ends
<1>2. PICK j \in 1 .. (Len(c) + 1) : r = SubSeq(c, j, Len(c))
  BY DEF Ends
<1>3. Len(b) \in Nat /\ k \in Nat \ {0} /\ k <= Len(b) + 1 /\ Len(b) <= Len(b)
  BY DEF Bytes
<1>4. Len(c) = Len(b) - k + 1
  BY <1>1, <1>3, Part
<1>5. j \in 1 .. (Len(b) - k + 2)
  BY <1>3, <1>4
<1>6. r = SubSeq(b, k + j - 1, Len(b))
  BY <1>1, <1>2, <1>3, <1>5, PartOfPart
<1>7. k + j - 1 \in 1 .. (Len(b) + 1)
  BY <1>3, <1>5
<1> QED BY <1>6, <1>7 DEF Ends

\* The whole buffer is left, or nothing of it.
LEMMA NothingSafe ==
  ASSUME NEW b \in Bytes
  PROVE  Safe(Nothing(b), b) /\ Safe(Dropped, b)
<1>0. Len(b) \in Nat
  BY DEF Bytes
<1>1. b = SubSeq(b, 1, Len(b)) /\ <<>> = SubSeq(b, Len(b) + 1, Len(b))
  BY DEF Bytes
<1>2. 1 \in 1 .. (Len(b) + 1) /\ Len(b) + 1 \in 1 .. (Len(b) + 1)
  BY <1>0
<1>3. Ends(b, b) /\ Ends(<<>>, b)
  BY <1>1, <1>2 DEF Ends
<1> QED BY <1>3 DEF Safe, Nothing, Dropped, Outcome

\* A message is taken that the buffer has.
LEMMA CutSafe ==
  ASSUME NEW b \in Bytes, NEW n \in Nat, n <= Len(b), NEW from, NEW to
  PROVE  Safe(Cut(b, from, to, n), b)
<1>0. Len(b) \in Nat
  BY DEF Bytes
<1>1. ~(n < 0 \/ n > Len(b)) /\ n + 1 \in 1 .. (Len(b) + 1)
  BY <1>0
<1>2. Cut(b, from, to, n) = Outcome(SubSeq(b, from, to), SubSeq(b, n + 1, Len(b)), TRUE)
  BY <1>1, Zenon DEF Cut
<1>3. Ends(SubSeq(b, n + 1, Len(b)), b)
  BY <1>1, Zenon DEF Ends
<1> QED BY <1>2, <1>3 DEF Safe, Outcome

\* Take is a cut.
LEMMA TakeSafe ==
  ASSUME NEW b \in Bytes, NEW n \in Nat, n <= Len(b)
  PROVE  Safe(Take(b, n), b)
BY CutSafe DEF Take

\* A message that ends with the first hit of a search of the buffer.
LEMMA SearchSafe ==
  ASSUME NEW b \in Bytes, NEW I, I # {}, I \subseteq 1 .. Len(b)
  PROVE  Min(I) \in I /\ Min(I) \in Nat /\ Min(I) <= Len(b)
<1>0. Len(b) \in Nat
  BY DEF Bytes
<1>1. I \subseteq Nat
  OBVIOUS
<1>2. Min(I) \in I
  BY <1>1, MinIsLeast
<1>3. Min(I) \in 1 .. Len(b)
  BY <1>2
<1> HIDE DEF Min
<1> QED BY <1>0, <1>2, <1>3

\* The parsers that announce a length.
LEMMA LengthsSafe ==
  ASSUME NEW b \in Bytes
  PROVE  Safe(AxessTMCLegic(b), b) /\ Safe(Elatec(b), b) /\ Safe(STidPRG(b), b)
<1>0. Len(b) \in Nat /\ \A i \in 1 .. Len(b) : b[i] \in Nat
  BY DEF Bytes
<1>1. Safe(AxessTMCLegic(b), b)
  <2>1. CASE Len(b) >= 7 /\ Len(b) >= b[1] + 1
    <3>1. b[1] + 1 \in Nat /\ b[1] + 1 <= Len(b)
      BY <1>0, <2>1
    <3> QED BY <2>1, <3>1, TakeSafe DEF AxessTMCLegic
  <2>2. CASE ~(Len(b) >= 7 /\ Len(b) >= b[1] + 1)
    BY <2>2, NothingSafe DEF AxessTMCLegic
  <2> QED BY <2>1, <2>2
<1>2. Safe(Elatec(b), b)
  <2>1. CASE Len(b) >= 5 /\ Len(b) >= b[1]
    <3>1. b[1] \in Nat /\ b[1] <= Len(b)
      BY <1>0, <2>1
    <3> QED BY <2>1, <3>1, TakeSafe DEF Elatec
  <2>2. CASE ~(Len(b) >= 5 /\ Len(b) >= b[1])
    BY <2>2, NothingSafe DEF Elatec
  <2> QED BY <2>1, <2>2
<1>3. Safe(STidPRG(b), b)
  <2> DEFINE D == Len(b) >= 6 /\ b[1] = STX /\ b[4] + 6 <= Len(b) /\ b[b[4] + 6] = ETX
  <2>1. CASE D
    <3>1. b[4] + 6 \in Nat /\ b[4] + 6 <= Len(b)
      BY <1>0, <2>1
    <3>2. STidPRG(b) = Take(b, b[4] + 6)
      BY <2>1, Zenon DEF STidPRG
    <3> QED BY <3>1, <3>2, TakeSafe
  <2>2. CASE ~D
    <3>1. STidPRG(b) = Nothing(b)
      BY <2>2, Zenon DEF STidPRG
    <3> QED BY <3>1, NothingSafe
  <2> QED BY <2>1, <2>2
<1> QED BY <1>1, <1>2, <1>3

\* The parsers that search for a mark at the end.
LEMMA SearchesSafe ==
  ASSUME NEW b \in Bytes
  PROVE  Safe(AxessTMC13(b), b) /\ Safe(Deister(b), b) /\ Safe(Gunnebo(b), b) /\ Safe(Promag(b), b)
<1>0. Len(b) \in Nat
  BY DEF Bytes
<1>1. Safe(AxessTMC13(b), b)
  <2> DEFINE I == {i \in 1 .. Len(b) : b[i] = CR}
  <2>1. AxessTMC13(b) = IF I = {} THEN Nothing(b) ELSE Take(b, Min(I))
    BY DEF AxessTMC13, OnFirst
  <2>2. I \subseteq 1 .. Len(b)
    OBVIOUS
  <2> HIDE DEF I
  <2>3. CASE I = {}
    BY <2>1, <2>3, NothingSafe
  <2>4. CASE I # {}
    BY <2>1, <2>2, <2>4, SearchSafe, TakeSafe
  <2> QED BY <2>3, <2>4
<1>2. Safe(Deister(b), b)
  <2> DEFINE I == {i \in 8 .. Len(b) : b[i] = STOP}
  <2>1. Deister(b) \in {Nothing(b), IF I = {} THEN Nothing(b) ELSE Take(b, Min(I))}
    BY DEF Deister, OnFirst
  <2>2. I \subseteq 1 .. Len(b)
    BY <1>0
  <2> HIDE DEF I
  <2>3. I # {} => Safe(Take(b, Min(I)), b)
    BY <2>2, SearchSafe, TakeSafe
  <2> QED BY <2>1, <2>3, NothingSafe
<1>3. Safe(Gunnebo(b), b)
  <2> DEFINE extra == IF b[2] = 49 /\ b[3] = 70 THEN 0 ELSE 1
             I == {i \in 2 .. Len(b) : b[i] = ETX /\ i + extra <= Len(b)}
  <2>1. Gunnebo(b) \in {Nothing(b), IF I = {} THEN Nothing(b) ELSE Take(b, Min(I) + extra)}
    BY DEF Gunnebo, OnFirst
  <2>2. extra \in 0 .. 1
    OBVIOUS
  <2> HIDE DEF extra
  <2>3. I \subseteq 1 .. Len(b) /\ \A i \in I : i + extra <= Len(b)
    BY <1>0
  <2> HIDE DEF I
  <2>4. I # {} => Safe(Take(b, Min(I) + extra), b)
    <3> SUFFICES ASSUME I # {} PROVE Safe(Take(b, Min(I) + extra), b)
      OBVIOUS
    <3>1. Min(I) \in I /\ Min(I) \in Nat
      BY <2>3, SearchSafe
    <3>2. Min(I) + extra \in Nat /\ Min(I) + extra <= Len(b)
      BY <2>2, <2>3, <3>1
    <3> QED BY <3>2, TakeSafe
  <2> QED BY <2>1, <2>4, NothingSafe
<1>4. Safe(Promag(b), b)
  <2> DEFINE I == {i \in 2 .. Len(b) : b[i] = CR}
  <2>1. Promag(b) \in {Nothing(b), Cut(b, 2, Len(b), Len(b)), Dropped,
                       IF I = {} THEN Nothing(b) ELSE Cut(b, 2, Min(I) - 1, Min(I))}
    BY DEF Promag, OnFirst
  <2>2. I \subseteq 1 .. Len(b)
    BY <1>0
  <2> HIDE DEF I
  <2>3. I # {} => Safe(Cut(b, 2, Min(I) - 1, Min(I)), b)
    BY <2>2, SearchSafe, CutSafe
  <2>4. Safe(Cut(b, 2, Len(b), Len(b)), b)
    BY <1>0, CutSafe
  <2> QED BY <2>1, <2>3, <2>4, NothingSafe
<1> QED BY <1>1, <1>2, <1>3, <1>4

\* A parser that is safe on an end of the buffer is safe on the buffer.
LEMMA SafeOnEnd ==
  ASSUME NEW b \in Bytes, NEW c, Ends(c, b), NEW o, Safe(o, c)
  PROVE  Safe(o, b)
BY EndsTwice DEF Safe

\* SCIEL: as much, with the line ends.
LEMMA ScielRestSafe ==
  ASSUME NEW c \in Bytes
  PROVE  Safe(ScielRest(c), c)
<1>0. Len(c) \in Nat
  BY DEF Bytes
<1> DEFINE I == {i \in 2 .. Len(c) : c[i] = Close}
<1>1. ScielRest(c) \in {Nothing(c), Dropped, IF I = {} THEN Nothing(c) ELSE Take(c, Min(I))}
  BY DEF ScielRest, OnFirst
<1>2. I \subseteq 1 .. Len(c)
  BY <1>0
<1> HIDE DEF I
<1>3. I # {} => Safe(Take(c, Min(I)), c)
  BY <1>2, SearchSafe, TakeSafe
<1> QED BY <1>1, <1>3, NothingSafe

\* SCIEL, the removal of line ends included.
LEMMA ScielSafe ==
  ASSUME NEW b \in Bytes
  PROVE  Safe(Sciel(b), b)
<1>1. PICK f : Skips(f, b, 1) /\ Sciel(b) = IF Len(b) < 2 THEN Nothing(b)
                                           ELSE ScielRest(SubSeq(b, f[1], Len(b)))
  BY ScielSkips
<1> DEFINE c == SubSeq(b, f[1], Len(b))
<1>2. Ends(c, b)
  BY <1>1, SkipsInside, Zenon DEF Ends
<1> HIDE DEF c
<1>3. Safe(ScielRest(c), b)
  BY <1>2, EndsType, ScielRestSafe, SafeOnEnd
<1>4. Sciel(b) \in {Nothing(b), ScielRest(c)}
  BY <1>1 DEF c
<1> QED BY <1>3, <1>4, NothingSafe

\* Outside of the buffer nothing is removed.
Past(o, b) == o.defined = FALSE /\ o.result = <<>> /\ o.rest = b

\* A message is taken that the buffer may not have.
LEMMA TakePast ==
  ASSUME NEW b \in Bytes, NEW n \in Int
  PROVE  Safe(Take(b, n), b) \/ ((n < 0 \/ n > Len(b)) /\ Past(Take(b, n), b))
<1>0. Len(b) \in Nat
  BY DEF Bytes
<1>1. CASE n >= 0 /\ n <= Len(b)
  <2>1. n \in Nat
    BY <1>1
  <2> QED BY <1>1, <2>1, TakeSafe
<1>2. CASE ~(n >= 0 /\ n <= Len(b))
  <2>1. n < 0 \/ n > Len(b)
    BY <1>0, <1>2
  <2>2. Take(b, n) = Outcome(<<>>, b, FALSE)
    BY <2>1, Zenon DEF Take, Cut
  <2> QED BY <2>1, <2>2 DEF Past, Outcome
<1> QED BY <1>1, <1>2

\* STid STR leaves the buffer when the length with its header needs 17 bits.
LEMMA STidSTRPast ==
  ASSUME NEW b \in Bytes
  PROVE  \/ Safe(STidSTR(b), b)
         \/ b[2] * 256 + b[3] + 7 >= 65536 /\ Past(STidSTR(b), b)
<1>0. Len(b) \in Nat /\ \A i \in 1 .. Len(b) : b[i] \in Nat
  BY DEF Bytes
<1> DEFINE l == b[2] * 256 + b[3] + 7
           D == Len(b) >= 7 /\ Len(b) >= UnsignedShort(l)
<1>1. CASE D
  <2>1. l \in Nat
    BY <1>0, <1>1
  <2>2. STidSTR(b) = Take(b, l)
    BY <1>1, Zenon DEF STidSTR
  <2> HIDE DEF l
  <2>3. l < 65536 => l <= Len(b)
    BY <1>1, <2>1, ShortIs
  <2>4. Safe(Take(b, l), b) \/ ((l < 0 \/ l > Len(b)) /\ Past(Take(b, l), b))
    BY <2>1, TakePast
  <2>5. (l < 0 \/ l > Len(b)) => l >= 65536
    BY <1>0, <2>1, <2>3
  <2> QED BY <2>2, <2>4, <2>5 DEF l
<1>2. CASE ~D
  <2>1. STidSTR(b) = Nothing(b)
    BY <1>2, Zenon DEF STidSTR
  <2> QED BY <2>1, NothingSafe
<1> QED BY <1>1, <1>2

\* GigaTMS goes past the end with three bytes alone.
LEMMA GigaTMSPast ==
  ASSUME NEW b \in Bytes
  PROVE  Safe(GigaTMS(b), b) \/ (Len(b) = 3 /\ Past(GigaTMS(b), b))
<1>0. Len(b) \in Nat /\ \A i \in 1 .. Len(b) : b[i] \in Nat
  BY DEF Bytes
<1> DEFINE D == Len(b) = 3 \/ b[3] <= Len(b) - 4
<1>1. \/ GigaTMS(b) \in {Nothing(b), Dropped}
      \/ ~(Len(b) < 3) /\ D /\ GigaTMS(b) = Take(b, b[3] + 4)
  BY Zenon DEF GigaTMS
<1>2. CASE GigaTMS(b) \in {Nothing(b), Dropped}
  BY <1>2, NothingSafe
<1>3. CASE ~(Len(b) < 3) /\ D /\ GigaTMS(b) = Take(b, b[3] + 4)
  <2>1. b[3] + 4 \in Int /\ (b[3] + 4 < 0 \/ b[3] + 4 > Len(b) => Len(b) = 3)
    BY <1>0, <1>3
  <2> QED BY <1>3, <2>1, TakePast
<1> QED BY <1>1, <1>2, <1>3

\* Admitto goes past the end after a CR that is the last byte.
LEMMA AdmittoPast ==
  ASSUME NEW b \in Bytes, NEW stale
  PROVE  Safe(Admitto(b, stale), b) \/ (b[Len(b)] = CR /\ Past(Admitto(b, stale), b))
<1>0. Len(b) \in Nat
  BY DEF Bytes
<1> DEFINE after(i) == IF i < Len(b) THEN b[i + 1] ELSE stale
           I == {i \in 2 .. Len(b) : b[i] = CR /\ after(i) = LF}
<1>1. Admitto(b, stale) \in {Nothing(b), IF I = {} THEN Nothing(b) ELSE Take(b, Min(I) + 1)}
  BY DEF Admitto, OnFirst
<1>2. I \subseteq 1 .. Len(b) /\ \A i \in I : b[i] = CR
  BY <1>0
<1> HIDE DEF I
<1>3. CASE I # {} /\ Admitto(b, stale) = Take(b, Min(I) + 1)
  <2>1. Min(I) \in I /\ Min(I) \in Nat /\ Min(I) <= Len(b) /\ b[Min(I)] = CR
    BY <1>2, <1>3, SearchSafe
  <2>2. Min(I) + 1 \in Int /\ (Min(I) + 1 < 0 \/ Min(I) + 1 > Len(b) => Min(I) = Len(b))
    BY <1>0, <2>1
  <2> QED BY <1>3, <2>1, <2>2, TakePast
<1>4. CASE Admitto(b, stale) = Nothing(b)
  BY <1>4, NothingSafe
<1> QED BY <1>1, <1>3, <1>4

\* OSDP leaves the buffer that begins with the start byte when the length is
\* negative.
LEMMA OSDPPast ==
  ASSUME NEW b \in Bytes
  PROVE  \/ Safe(OSDP(b), b)
         \/ LET r == OSDP(b).rest
            IN  Ends(r, b) /\ Past(OSDP(b), r) /\ Short(r[4] * 256 + r[3]) < 0
<1>0. Len(b) \in Nat
  BY DEF Bytes
<1> DEFINE I == {i \in 1 .. Len(b) : b[i] = SOM}
           n == SelectInSeq(b, LAMBDA x : x = SOM)
           c == IF n = 0 THEN <<>> ELSE SubSeq(b, n, Len(b))
<1>1. n = IF I # {} THEN Min(I) ELSE 0
  BY DEF SelectInSeq
<1>2. I \subseteq 1 .. Len(b)
  OBVIOUS
<1>3. OSDP(b) = IF Len(c) >= 6 /\ Short(Len(c)) >= Short(c[4] * 256 + c[3])
                THEN Take(c, Short(c[4] * 256 + c[3])) ELSE Nothing(c)
  BY DEF OSDP
<1>4. Ends(c, b)
  <2> HIDE DEF I, n
  <2>1. CASE n = 0
    <3>1. Safe(Dropped, b)
      BY NothingSafe
    <3> QED BY <2>1, <3>1 DEF Safe, Dropped, Outcome
  <2>2. CASE n # 0
    <3>1. I # {} /\ n = Min(I)
      BY <1>1, <2>2
    <3>2. n \in I /\ n \in 1 .. Len(b)
      BY <1>2, <3>1, SearchSafe
    <3>3. n \in 1 .. (Len(b) + 1)
      BY <1>0, <3>2
    <3> QED BY <2>2, <3>3, Zenon DEF Ends
  <2> QED BY <2>1, <2>2
<1> HIDE DEF c
<1>5. c \in Bytes
  BY <1>4, EndsType
<1>6. Safe(OSDP(b), c) \/ (Short(c[4] * 256 + c[3]) < 0 /\ Past(OSDP(b), c))
  <2> DEFINE l == c[4] * 256 + c[3]
             D == Len(c) >= 6 /\ Short(Len(c)) >= Short(l)
  <2>1. CASE D
    <3>0. Len(c) \in Nat /\ \A i \in 1 .. Len(c) : c[i] \in Nat
      BY <1>5 DEF Bytes
    <3>1. l \in Nat
      BY <2>1, <3>0
    <3>2. OSDP(b) = Take(c, Short(l))
      BY <1>3, <2>1, Zenon
    <3> HIDE DEF l
    <3>3. Short(l) \in Int /\ Short(l) <= Len(c)
      <4>1. Short(l) \in Int /\ Short(Len(c)) \in Int /\ Short(Len(c)) <= Len(c)
        BY <3>0, <3>1, ShortIs
      <4> QED BY <2>1, <3>0, <4>1
    <3>4. \/ Safe(Take(c, Short(l)), c)
          \/ (Short(l) < 0 \/ Short(l) > Len(c)) /\ Past(Take(c, Short(l)), c)
      BY <1>5, <3>3, TakePast
    <3>5. ~(Short(l) > Len(c))
      BY <3>0, <3>3
    <3> QED BY <3>2, <3>4, <3>5 DEF l
  <2>2. CASE ~D
    <3>1. OSDP(b) = Nothing(c)
      BY <1>3, <2>2, Zenon
    <3> QED BY <1>5, <3>1, NothingSafe
  <2> QED BY <2>1, <2>2
<1>7. CASE Safe(OSDP(b), c)
  BY <1>4, <1>7, SafeOnEnd
<1>8. CASE Short(c[4] * 256 + c[3]) < 0 /\ Past(OSDP(b), c)
  <2>1. OSDP(b).rest = c
    BY <1>8 DEF Past
  <2> QED BY <1>4, <1>8, <2>1
<1> QED BY <1>6, <1>7, <1>8

\* Four parsers may leave the buffer, or what of it begins with a start byte.
InBounds(p, b, o) ==
  Safe(o, b) \/ (Ends(o.rest, b) /\ Past(o, o.rest) /\ Leaves(p, o.rest))

\* One that leaves the whole buffer.
LEMMA PastWhole ==
  ASSUME NEW b \in Bytes, NEW p, NEW o, Past(o, b), Leaves(p, b)
  PROVE  InBounds(p, b, o)
<1>1. Ends(b, b)
  BY NothingSafe, Zenon DEF Safe, Nothing, Outcome
<1>2. o.rest = b
  BY Zenon DEF Past
<1> QED BY <1>1, <1>2, Zenon DEF InBounds

\* Only four parsers leave the buffer, and leave it as it is when they do: that of
\* Admitto after a last CR, that of GigaTMS with three bytes, that of STid STR with
\* a length that wraps, and that of OSDP, once it has removed what comes before the
\* start byte, with a negative length.  All others leave an end of the buffer,
\* whatever bytes it has.
THEOREM ParserInside ==
  ASSUME NEW p \in Protocols, NEW b \in Bytes, NEW stale
  PROVE  InBounds(p, b, getValidBuffer(p, b, stale))
<1>0. p \in {"admitto", "axesstmc13", "axesstmclegic", "deister", "elatec", "gigatms",
            "gunnebo", "osdp", "promag", "sciel", "stidprg", "stidstr"}
  BY DEF Protocols, Frames
<1>1. CASE p = "admitto"
  <2>1. getValidBuffer(p, b, stale) = Admitto(b, stale)
    BY <1>1 DEF getValidBuffer
  <2>2. CASE b[Len(b)] = CR /\ Past(Admitto(b, stale), b)
    <3>1. Leaves(p, b)
      BY <1>1, <2>2 DEF Leaves, Last
    <3> QED BY <2>1, <2>2, <3>1, PastWhole
  <2> QED BY <2>1, <2>2, AdmittoPast, Zenon DEF InBounds
<1>2. CASE p = "axesstmc13"
  <2>1. getValidBuffer(p, b, stale) = AxessTMC13(b)
    BY <1>2 DEF getValidBuffer
  <2> QED BY <1>2, <2>1, SearchesSafe DEF InBounds
<1>3. CASE p = "axesstmclegic"
  <2>1. getValidBuffer(p, b, stale) = AxessTMCLegic(b)
    BY <1>3 DEF getValidBuffer
  <2> QED BY <1>3, <2>1, LengthsSafe DEF InBounds
<1>4. CASE p = "deister"
  <2>1. getValidBuffer(p, b, stale) = Deister(b)
    BY <1>4 DEF getValidBuffer
  <2> QED BY <1>4, <2>1, SearchesSafe DEF InBounds
<1>5. CASE p = "elatec"
  <2>1. getValidBuffer(p, b, stale) = Elatec(b)
    BY <1>5 DEF getValidBuffer
  <2> QED BY <1>5, <2>1, LengthsSafe DEF InBounds
<1>6. CASE p = "gigatms"
  <2>1. getValidBuffer(p, b, stale) = GigaTMS(b)
    BY <1>6 DEF getValidBuffer
  <2>2. CASE Len(b) = 3 /\ Past(GigaTMS(b), b)
    <3>1. Leaves(p, b)
      BY <1>6, <2>2 DEF Leaves
    <3> QED BY <2>1, <2>2, <3>1, PastWhole
  <2> QED BY <2>1, <2>2, GigaTMSPast, Zenon DEF InBounds
<1>7. CASE p = "gunnebo"
  <2>1. getValidBuffer(p, b, stale) = Gunnebo(b)
    BY <1>7 DEF getValidBuffer
  <2> QED BY <1>7, <2>1, SearchesSafe DEF InBounds
<1>8. CASE p = "osdp"
  <2>1. getValidBuffer(p, b, stale) = OSDP(b)
    BY <1>8 DEF getValidBuffer
  <2>2. Short(OSDP(b).rest[4] * 256 + OSDP(b).rest[3]) < 0 => Leaves(p, OSDP(b).rest)
    BY <1>8 DEF Leaves
  <2> QED BY <2>1, <2>2, OSDPPast, Zenon DEF InBounds
<1>9. CASE p = "promag"
  <2>1. getValidBuffer(p, b, stale) = Promag(b)
    BY <1>9 DEF getValidBuffer
  <2> QED BY <1>9, <2>1, SearchesSafe DEF InBounds
<1>10. CASE p = "sciel"
  <2>1. getValidBuffer(p, b, stale) = Sciel(b)
    BY <1>10 DEF getValidBuffer
  <2> QED BY <1>10, <2>1, ScielSafe DEF InBounds
<1>11. CASE p = "stidprg"
  <2>1. getValidBuffer(p, b, stale) = STidPRG(b)
    BY <1>11 DEF getValidBuffer
  <2> QED BY <1>11, <2>1, LengthsSafe DEF InBounds
<1>12. CASE p = "stidstr"
  <2>1. getValidBuffer(p, b, stale) = STidSTR(b)
    BY <1>12 DEF getValidBuffer
  <2>2. CASE b[2] * 256 + b[3] + 7 >= 65536 /\ Past(STidSTR(b), b)
    <3>1. Leaves(p, b)
      BY <1>12, <2>2 DEF Leaves
    <3> QED BY <2>1, <2>2, <3>1, PastWhole
  <2> QED BY <2>1, <2>2, STidSTRPast DEF InBounds
<1> QED BY <1>0, <1>1, <1>2, <1>3, <1>4, <1>5, <1>6, <1>7, <1>8, <1>9, <1>10, <1>11, <1>12

-----------------------------------------------------------------------------
(***************************************************************************)
(* The stream: what the device sends, with the noise in it.                *)
(***************************************************************************)

\* The pieces s lie one behind the other in Z, the j-th ends at B[j].
Layout(Z, s, B) ==
  /\ Z \in Bytes /\ B \in [0 .. Len(s) -> Nat] /\ B[0] = 0 /\ B[Len(s)] = Len(Z)
  /\ \A j \in 1 .. Len(s) :
       /\ B[j] = B[j - 1] + Len(s[j])
       /\ \A i \in 1 .. Len(s[j]) : Z[B[j - 1] + i] = s[j][i]

\* FlattenSeq lays the pieces out.
LEMMA LayoutExists ==
  ASSUME NEW s \in Seq(Bytes)
  PROVE  \E B : Layout(FlattenSeq(s), s, B)
<1> DEFINE n == Len(s)
           Z == FlattenSeq(s)
<1>0. n \in Nat /\ \A i \in 1 .. n : s[i] \in Bytes
  OBVIOUS
<1>1. PICK P : Sums(P, s) /\ Z = P[n]
  BY FlattenSums
<1>2. P \in [0 .. n -> Bytes] /\ P[0] = <<>>
  BY <1>1 DEF Sums
<1> DEFINE B == [j \in 0 .. n |-> Len(P[j])]
<1> HIDE DEF Z
<1>3. Z \in Bytes
  BY <1>0, <1>1, <1>2
<1>4. B \in [0 .. n -> Nat]
  <2>1. \A j \in 0 .. n : Len(P[j]) \in Nat
    BY <1>2 DEF Bytes
  <2> QED BY <2>1
<1>5. B[0] = 0 /\ B[n] = Len(Z)
  BY <1>0, <1>1, <1>2
<1>6. ASSUME NEW j \in 1 .. n
      PROVE  /\ B[j] = B[j - 1] + Len(s[j])
             /\ \A i \in 1 .. Len(s[j]) : Z[B[j - 1] + i] = s[j][i]
  <2>1. j \in 0 .. n /\ j - 1 \in 0 .. n
    BY <1>0
  <2>2. s[j] \in Bytes /\ P[j - 1] \in Bytes /\ P[j] \in Bytes
    BY <1>0, <1>2, <2>1
  <2>3. P[j] = P[j - 1] \o s[j]
    BY <1>1, Zenon DEF Sums
  <2>4. PICK t \in Bytes : P[n] = P[j] \o t
    BY <1>1, <2>1, SumsBegin
  <2> DEFINE x == P[j - 1]
             y == s[j]
             xy == P[j]
             z == P[n]
  <2>5. /\ Len(x) \in Nat /\ Len(y) \in Nat /\ Len(xy) = Len(x) + Len(y)
        /\ \A i \in 1 .. Len(y) : xy[Len(x) + i] = y[i]
    <3>1. xy = x \o y
      BY <2>3
    <3>2. x \in Bytes /\ y \in Bytes
      BY <2>2
    <3> HIDE DEF x, y, xy
    <3> QED BY <3>1, <3>2, Joined
  <2>6. \A i \in 1 .. Len(xy) : z[i] = xy[i]
    <3>1. z = xy \o t /\ xy \in Bytes
      BY <2>2, <2>4
    <3> HIDE DEF xy, z
    <3> QED BY <3>1, Joined
  <2>7. B[j] = Len(xy) /\ B[j - 1] = Len(x)
    BY <2>1
  <2>8. Z = z
    BY <1>1
  <2>9. \A i \in 1 .. Len(y) : z[Len(x) + i] = y[i]
    <3> HIDE DEF x, y, xy, z
    <3>1. \A i \in 1 .. Len(y) : Len(x) + i \in 1 .. Len(xy)
      BY <2>5
    <3> QED BY <2>5, <2>6, <3>1
  <2>10. Len(xy) = Len(x) + Len(y)
    BY <2>5
  <2> HIDE DEF B, x, xy, z
  <2> QED BY <2>7, <2>8, <2>9, <2>10
<1> HIDE DEF B
<1>7. Layout(Z, s, B)
  BY <1>3, <1>4, <1>5, <1>6 DEF Layout
<1> QED BY <1>7 DEF Z

\* Later pieces end later.
LEMMA LayoutGrows ==
  ASSUME NEW Z, NEW s \in Seq(Bytes), NEW B, Layout(Z, s, B),
         NEW i \in 0 .. Len(s), NEW j \in 0 .. Len(s), i <= j
  PROVE  B[i] <= B[j]
<1> DEFINE T == {k \in i .. Len(s) : ~(B[i] <= B[k])}
<1>0. Len(s) \in Nat /\ \A k \in 1 .. Len(s) : s[k] \in Bytes /\ Len(s[k]) \in Nat
  BY DEF Bytes
<1>1. B \in [0 .. Len(s) -> Nat] /\ \A k \in 1 .. Len(s) : B[k] = B[k - 1] + Len(s[k])
  BY DEF Layout
<1> SUFFICES ASSUME T # {} PROVE FALSE
  BY <1>0
<1>2. T \subseteq Nat
  BY <1>0
<1>3. PICK k \in T : \A y \in T : k <= y
  <2> HIDE DEF T
  <2> QED BY <1>2, LeastExists
<1>4. k # i
  <2>1. B[i] \in Nat
    BY <1>1
  <2>2. B[i] <= B[i]
    BY <2>1
  <2>3. ~(B[i] <= B[k])
    BY <1>3
  <2> QED BY <2>2, <2>3
<1>5. k - 1 \in i .. Len(s) /\ k \in 1 .. Len(s) /\ k - 1 \in 0 .. Len(s) /\ ~(k <= k - 1)
  BY <1>0, <1>3, <1>4
<1>6. B[i] <= B[k - 1]
  BY <1>3, <1>5
<1>7. B[k] = B[k - 1] + Len(s[k]) /\ Len(s[k]) \in Nat /\ B[k - 1] \in Nat /\ B[i] \in Nat
  BY <1>0, <1>1, <1>5
<1>8. ~(B[i] <= B[k])
  BY <1>3
<1> QED BY <1>6, <1>7, <1>8

\* The x-th byte of the stream is the i-th of the j-th piece.
ByteOf(x, Z, s, B, j, i) ==
  j \in 1 .. Len(s) /\ i \in 1 .. Len(s[j]) /\ x = B[j - 1] + i /\ Z[x] = s[j][i]

\* Every byte of the stream is one of a piece.
LEMMA Locate ==
  ASSUME NEW Z, NEW s \in Seq(Bytes), NEW B, Layout(Z, s, B), NEW x \in 1 .. Len(Z)
  PROVE  \E j, i : ByteOf(x, Z, s, B, j, i)
<1> DEFINE T == {k \in 0 .. Len(s) : x <= B[k]}
<1>0. /\ Len(s) \in Nat /\ \A k \in 1 .. Len(s) : s[k] \in Bytes /\ Len(s[k]) \in Nat
      /\ Z \in Bytes /\ Len(Z) \in Nat
  BY DEF Bytes, Layout
<1>1. /\ B \in [0 .. Len(s) -> Nat] /\ B[0] = 0 /\ B[Len(s)] = Len(Z)
      /\ \A k \in 1 .. Len(s) : B[k] = B[k - 1] + Len(s[k])
  BY DEF Layout
<1>2. T \subseteq Nat /\ Len(s) \in T
  BY <1>0, <1>1
<1>3. PICK j \in T : \A y \in T : j <= y
  <2> HIDE DEF T
  <2> QED BY <1>2, LeastExists
<1>4. j # 0 /\ j \in 0 .. Len(s) /\ x <= B[j]
  BY <1>0, <1>1, <1>3
<1>5. j \in 1 .. Len(s) /\ j - 1 \in 0 .. Len(s) /\ ~(j <= j - 1)
  BY <1>0, <1>4
<1>6. ~(x <= B[j - 1])
  BY <1>3, <1>5
<1> DEFINE i == x - B[j - 1]
<1>7. i \in 1 .. Len(s[j]) /\ x = B[j - 1] + i
  <2>1. B[j] = B[j - 1] + Len(s[j]) /\ Len(s[j]) \in Nat /\ B[j - 1] \in Nat
    BY <1>0, <1>1, <1>5
  <2>2. x \in Nat
    BY <1>0
  <2> QED BY <1>4, <1>6, <2>1, <2>2
<1> HIDE DEF i
<1>8. Z[x] = s[j][i]
  BY <1>5, <1>7 DEF Layout
<1> QED BY <1>5, <1>7, <1>8 DEF ByteOf

\* Which message the j-th piece is when the K-th is noise.
Order(j, K) == IF j < K THEN j ELSE j - 1

\* The pieces are the messages in their order and, at K, the noise before one of
\* them; K is behind all of them when there is none.
Pieces(s, K) ==
  /\ s \in Seq(Bytes) /\ K \in 1 .. (Len(s) + 1)
  /\ messages \in Seq(Frames[protocol]) /\ Len(messages) = Order(Len(s), K)
  /\ \A j \in 1 .. Len(s) : j # K => s[j] = messages[Order(j, K)]
  /\ K <= Len(s) => K < Len(s) /\ s[K] = <<noise>> /\ noise # NoNoise

\* z is s with e at the k-th place.
HasInserted(z, s, k, e) ==
  /\ Len(z) = Len(s) + 1
  /\ \A j \in 1 .. (Len(s) + 1) :
       z[j] = IF j < k THEN s[j] ELSE IF j = k THEN e ELSE s[j - 1]

\* The elements of a sequence with one inserted.
LEMMA Inserted ==
  ASSUME NEW S, NEW s \in Seq(S), NEW k \in 1 .. Len(s), NEW e \in S
  PROVE  InsertAt(s, k, e) \in Seq(S) /\ HasInserted(InsertAt(s, k, e), s, k, e)
<1>0. Len(s) \in Nat /\ \A j \in 1 .. Len(s) : s[j] \in S
  OBVIOUS
<1> DEFINE u == SubSeq(s, 1, k - 1)
           v == SubSeq(s, k, Len(s))
           w == u \o <<e>>
           z == w \o v
<1>1. u \in Seq(S) /\ Len(u) = k - 1 /\ \A j \in 1 .. (k - 1) : u[j] = s[j]
  BY <1>0
<1>2. /\ v \in Seq(S) /\ Len(v) = Len(s) - k + 1
      /\ \A j \in 1 .. (Len(s) - k + 1) : v[j] = s[k + j - 1]
  BY <1>0
<1> HIDE DEF u, v
<1>3. w \in Seq(S) /\ Len(w) = k /\ \A j \in 1 .. k : w[j] = IF j < k THEN s[j] ELSE e
  <2>1. w \in Seq(S) /\ Len(w) = Len(u) + 1
    BY <1>1
  <2>2. \A j \in 1 .. (Len(u) + 1) : w[j] = IF j <= Len(u) THEN u[j] ELSE e
    BY <1>1
  <2> HIDE DEF w
  <2> QED BY <1>0, <1>1, <2>1, <2>2
<1> HIDE DEF w
<1>4. z \in Seq(S) /\ Len(z) = Len(s) + 1
  <2>1. w \in Seq(S) /\ v \in Seq(S)
    BY <1>2, <1>3
  <2>2. z \in Seq(S) /\ Len(z) = Len(w) + Len(v)
    BY <2>1
  <2> HIDE DEF z
  <2> QED BY <1>0, <1>2, <1>3, <2>2
<1>5. \A j \in 1 .. (Len(s) + 1) : z[j] = IF j <= k THEN w[j] ELSE v[j - k]
  <2>1. \A j \in 1 .. (Len(w) + Len(v)) : z[j] = IF j <= Len(w) THEN w[j] ELSE v[j - Len(w)]
    BY <1>2, <1>3
  <2> HIDE DEF z
  <2> QED BY <1>0, <1>2, <1>3, <2>1
<1>6. InsertAt(s, k, e) = z
  BY DEF InsertAt, z, w, u, v
<1> HIDE DEF z
<1>7. \A j \in 1 .. (Len(s) + 1) : z[j] = IF j < k THEN s[j] ELSE IF j = k THEN e ELSE s[j - 1]
  <2> SUFFICES ASSUME NEW j \in 1 .. (Len(s) + 1)
               PROVE  z[j] = IF j < k THEN s[j] ELSE IF j = k THEN e ELSE s[j - 1]
    OBVIOUS
  <2>1. CASE j <= k
    <3>1. j \in 1 .. k
      BY <1>0, <2>1
    <3> QED BY <1>3, <1>5, <2>1, <3>1
  <2>2. CASE ~(j <= k)
    <3>1. j - k \in 1 .. (Len(s) - k + 1) /\ k + (j - k) - 1 = j - 1 /\ ~(j < k) /\ j # k
      BY <1>0, <2>2
    <3> QED BY <1>2, <1>5, <2>2, <3>1
  <2> QED BY <2>1, <2>2
<1> QED BY <1>4, <1>6, <1>7 DEF HasInserted

\* The messages of a device are sequences of bytes, none of them empty.
LEMMA FramesBytes ==
  ASSUME NEW p \in Protocols
  PROVE  Frames[p] \subseteq Bytes
BY FramesWellFormed DEF WellFormed

\* At the start the stream is still to come.
LEMMA InitPieces ==
  ASSUME Init, noise # Burst
  PROVE  \E s, K : Pieces(s, K) /\ wire = FlattenSeq(s)
<1>1. /\ protocol \in Protocols /\ messages \in [1 .. Count -> Frames[protocol]]
      /\ noise \in {NoNoise, Burst} \cup NoiseBytes /\ Count \in Nat /\ NoiseBytes \subseteq 0 .. 255
  BY ParserAssumption DEF Init
<1>2. messages \in Seq(Frames[protocol]) /\ Len(messages) = Count /\ messages \in Seq(Bytes)
  BY <1>1, FramesBytes
<1>3. CASE noise = NoNoise
  <2> DEFINE K == Count + 1
  <2>1. wire = FlattenSeq(messages)
    BY <1>3 DEF Init
  <2>2. /\ K \in 1 .. (Len(messages) + 1) /\ Len(messages) = Order(Len(messages), K)
        /\ \A j \in 1 .. Len(messages) : Order(j, K) = j
        /\ ~(K <= Len(messages))
    BY <1>1, <1>2 DEF Order
  <2> HIDE DEF K
  <2>3. Pieces(messages, K)
    BY <1>2, <2>2 DEF Pieces
  <2> QED BY <2>1, <2>3
<1>4. CASE noise # NoNoise
  <2>1. PICK k \in DOMAIN messages : wire = FlattenSeq(InsertAt(messages, k, <<noise>>))
    BY <1>4 DEF Init
  <2> DEFINE e == <<noise>>
             s == InsertAt(messages, k, e)
  <2>2. k \in 1 .. Len(messages) /\ e \in Bytes
    <3>1. noise \in NoiseBytes /\ NoiseBytes \subseteq 0 .. 255
      BY <1>1, <1>4, Zenon
    <3>1a. noise \in Nat
      BY <3>1
    <3>2. <<noise>> \in Bytes
      BY <3>1a DEF Bytes
    <3>3. DOMAIN messages = 1 .. Len(messages)
      BY <1>2
    <3> QED BY <2>1, <3>2, <3>3
  <2>3. /\ s \in Seq(Bytes) /\ Len(s) = Len(messages) + 1
        /\ \A j \in 1 .. (Len(messages) + 1) :
             s[j] = IF j < k THEN messages[j] ELSE IF j = k THEN e ELSE messages[j - 1]
    <3> HIDE DEF e
    <3>1. messages \in Seq(Bytes)
      BY <1>2
    <3>2. s \in Seq(Bytes) /\ HasInserted(s, messages, k, e)
      BY <2>2, <3>1, Inserted
    <3> HIDE DEF s
    <3> QED BY <3>2, Zenon DEF HasInserted
  <2> HIDE DEF s
  <2>4. /\ k \in 1 .. (Len(s) + 1) /\ Len(messages) = Order(Len(s), k)
        /\ k \in 1 .. Len(s) /\ k < Len(s)
    BY <1>1, <1>2, <2>2, <2>3 DEF Order
  <2>5. s[k] = <<noise>>
    BY <1>1, <1>2, <2>2, <2>3, <2>4
  <2>6. \A j \in 1 .. Len(s) : j # k => s[j] = messages[Order(j, k)]
    BY <1>1, <1>2, <2>2, <2>3 DEF Order
  <2>7. Pieces(s, k)
    BY <1>2, <1>4, <2>3, <2>4, <2>5, <2>6 DEF Pieces
  <2> QED BY <2>1, <2>7 DEF s
<1> QED BY <1>3, <1>4

-----------------------------------------------------------------------------
(***************************************************************************)
(* The reads and the end of the buffer.                                    *)
(***************************************************************************)

\* The state of the port: bytes in the buffer and on the wire.
BytesOK == protocol \in Protocols /\ buffer \in Bytes /\ wire \in Bytes

\* What the read of a port keeps to.
InsideInv == BytesOK /\ undefined \in BOOLEAN /\ InsideTheBuffer

\* It holds before the first byte.
LEMMA InsideInit == Init => InsideInv
<1> SUFFICES ASSUME Init PROVE InsideInv
  OBVIOUS
<1>2. wire \in Bytes
  <2>1. CASE noise # Burst
    <3>1. PICK s, K : Pieces(s, K) /\ wire = FlattenSeq(s)
      BY <2>1, InitPieces
    <3>2. s \in Seq(Bytes)
      BY <3>1 DEF Pieces
    <3> QED BY <3>1, <3>2, LayoutExists DEF Layout
  <2>2. CASE noise = Burst
    <3>1. /\ protocol \in Protocols /\ messages \in [1 .. Count -> Frames[protocol]]
          /\ Count \in Nat /\ NoiseBytes \subseteq 0 .. 255
      BY ParserAssumption DEF Init
    <3>2. messages \in Seq(Bytes)
      BY <3>1, FramesBytes
    <3> DEFINE z == FlattenSeq(messages)
    <3>3. z \in Bytes
      BY <3>2, LayoutExists DEF Layout
    <3>4. PICK x \in NoiseBytes, k \in 0 .. Len(z) : wire = Disturbed(z, k, x)
      <4>1. noise # NoNoise
        BY <2>2 DEF NoNoise, Burst
      <4> QED BY <2>2, <4>1, Zenon DEF Init
    <3> HIDE DEF z
    <3>5. /\ Len(z) \in Nat /\ k \in Nat /\ k <= Len(z) /\ 1 <= k + 1 /\ k + 1 \in Nat \ {0}
          /\ k + 1 <= Len(z) + 1 /\ Len(z) <= Len(z) /\ x \in Nat
      BY <3>1, <3>3, <3>4 DEF Bytes
    <3>6. /\ SubSeq(z, 1, k) \in Bytes /\ SubSeq(z, k + 1, Len(z)) \in Bytes
          /\ <<x, x>> \in Bytes
      <4>1. SubSeq(z, 1, k) \in Bytes /\ SubSeq(z, k + 1, Len(z)) \in Bytes
        BY <3>3, <3>5, Part
      <4>2. <<x, x>> \in Bytes
        BY <3>5 DEF Bytes
      <4> QED BY <4>1, <4>2
    <3> DEFINE u == SubSeq(z, 1, k)
               v == SubSeq(z, k + 1, Len(z))
               e == <<x, x>>
    <3>7. wire = (u \o e) \o v /\ u \in Bytes /\ v \in Bytes /\ e \in Bytes
      BY <3>4, <3>6 DEF Disturbed
    <3> HIDE DEF u, v, e
    <3>8. u \o e \in Bytes
      BY <3>7, Joined
    <3> QED BY <3>7, <3>8, Joined
  <2> QED BY <2>1, <2>2
<1>3. protocol \in Protocols /\ buffer = <<>> /\ undefined = FALSE
  BY DEF Init
<1>4. buffer \in Bytes
  BY <1>3 DEF Bytes
<1>5. InsideTheBuffer
  BY <1>3 DEF InsideTheBuffer
<1> QED BY <1>2, <1>3, <1>4, <1>5 DEF InsideInv, BytesOK

\* Bytes that arrive are bytes.
LEMMA InsideArrive ==
  ASSUME InsideInv, Arrive
  PROVE  InsideInv'
<1>1. buffer \in Bytes /\ wire \in Bytes /\ protocol' = protocol /\ protocol \in Protocols
  BY DEF InsideInv, BytesOK, Arrive
<1>2. PICK n \in 1 .. Len(wire) :
        buffer' = buffer \o SubSeq(wire, 1, n) /\ wire' = SubSeq(wire, n + 1, Len(wire))
  BY DEF Arrive
<1>3. Len(wire) \in Nat /\ n \in Nat /\ n <= Len(wire) /\ 1 <= n + 1 /\ n + 1 \in Nat \ {0}
      /\ n + 1 <= Len(wire) + 1 /\ Len(wire) <= Len(wire)
  BY <1>1 DEF Bytes
<1>4. SubSeq(wire, 1, n) \in Bytes /\ SubSeq(wire, n + 1, Len(wire)) \in Bytes
  BY <1>1, <1>3, Part
<1>5. buffer' \in Bytes /\ wire' \in Bytes
  <2> DEFINE t == SubSeq(wire, 1, n)
  <2>1. buffer' = buffer \o t /\ t \in Bytes
    BY <1>2, <1>4
  <2> HIDE DEF t
  <2> QED BY <1>1, <1>2, <1>4, <2>1, Joined
<1>6. undefined' = FALSE
  BY DEF Arrive, InsideInv
<1>7. InsideTheBuffer'
  BY <1>6 DEF InsideTheBuffer
<1> QED BY <1>1, <1>5, <1>6, <1>7 DEF InsideInv, BytesOK

\* What a read does to the buffer.
LEMMA ReadOutcome ==
  ASSUME Read
  PROVE  \E stale : LET o == getValidBuffer(protocol, buffer, stale)
                    IN  /\ buffer' = o.rest /\ undefined' = ~o.defined
                        /\ got' = IF o.result = <<>> THEN got ELSE Append(got, o.result)
BY DEF Read

\* A read leaves the bounds only where the four parsers do.
LEMMA InsideRead ==
  ASSUME InsideInv, Read
  PROVE  InsideInv'
<1>1. buffer \in Bytes /\ wire \in Bytes /\ protocol \in Protocols
  BY DEF InsideInv, BytesOK
<1>2. wire' = wire /\ protocol' = protocol
  BY DEF Read
<1>3. PICK stale : LET o == getValidBuffer(protocol, buffer, stale)
                   IN  buffer' = o.rest /\ undefined' = ~o.defined
  BY ReadOutcome
<1> DEFINE o == getValidBuffer(protocol, buffer, stale)
<1>4. InBounds(protocol, buffer, o)
  BY <1>1, ParserInside
<1>5. buffer' = o.rest /\ undefined' = ~o.defined
  BY <1>3
<1> HIDE DEF o
<1>6. CASE Safe(o, buffer)
  <2>1. undefined' = FALSE /\ buffer' \in Bytes
    BY <1>1, <1>5, <1>6, EndsType DEF Safe
  <2>2. InsideTheBuffer'
    BY <2>1 DEF InsideTheBuffer
  <2> QED BY <1>1, <1>2, <2>1, <2>2 DEF InsideInv, BytesOK
<1>7. CASE Ends(o.rest, buffer) /\ Past(o, o.rest) /\ Leaves(protocol, o.rest)
  <2>1. buffer' \in Bytes /\ undefined' = TRUE
    BY <1>1, <1>5, <1>7, EndsType DEF Past
  <2>2. Leaves(protocol', buffer')
    BY <1>2, <1>5, <1>7
  <2>3. InsideTheBuffer'
    BY <2>2 DEF InsideTheBuffer
  <2> QED BY <1>1, <1>2, <2>1, <2>3 DEF InsideInv, BytesOK
<1> QED BY <1>4, <1>6, <1>7 DEF InBounds

\* However the bytes are cut into chunks, the parsers stay inside of the buffer
\* but for that of Admitto after a CR that came last, that of GigaTMS with just
\* three bytes, that of OSDP with a negative length and that of STid STR with one
\* that wraps (InsideTheBuffer), for every number of messages, every noise between
\* them and every burst among them.
THEOREM InsideTheBufferHolds == Spec => []InsideTheBuffer
<1>1. InsideInv /\ [Next]_vars => InsideInv'
  <2> SUFFICES ASSUME InsideInv, [Next]_vars PROVE InsideInv'
    OBVIOUS
  <2>1. CASE Arrive
    BY <2>1, InsideArrive
  <2>2. CASE Read
    BY <2>2, InsideRead
  <2>3. CASE UNCHANGED vars
    BY <2>3 DEF vars, InsideInv, BytesOK, InsideTheBuffer
  <2> QED BY <2>1, <2>2, <2>3 DEF Next
<1>2. InsideInv => InsideTheBuffer
  BY DEF InsideInv
<1> QED BY <1>1, <1>2, InsideInit, PTL DEF Spec

-----------------------------------------------------------------------------
(***************************************************************************)
(* Noise before a message that costs nothing, or that a parser waits at.   *)
(***************************************************************************)

\* What OSDP does with what is left from the start byte on.
OSDPRest(c) ==
  IF Len(c) >= 6 /\ Short(Len(c)) >= Short(c[4] * 256 + c[3])
  THEN Take(c, Short(c[4] * 256 + c[3])) ELSE Nothing(c)

\* OSDP goes on from the first start byte.
LEMMA OSDPStart ==
  ASSUME NEW b \in Bytes, NEW k \in 1 .. Len(b), b[k] = SOM, \A i \in 1 .. (k - 1) : b[i] # SOM
  PROVE  OSDP(b) = OSDPRest(SubSeq(b, k, Len(b)))
<1>0. Len(b) \in Nat
  BY DEF Bytes
<1> DEFINE I == {i \in 1 .. Len(b) : b[i] = SOM}
           n == SelectInSeq(b, LAMBDA x : x = SOM)
           c == IF n = 0 THEN <<>> ELSE SubSeq(b, n, Len(b))
<1>1. n = IF I # {} THEN Min(I) ELSE 0
  BY DEF SelectInSeq
<1>2. I \subseteq Nat /\ k \in I /\ k \in Nat \ {0} /\ \A i \in I : i >= k
  BY <1>0
<1>3. OSDP(b) = OSDPRest(c)
  BY Zenon DEF OSDP, OSDPRest
<1> HIDE DEF I, n
<1>4. n = k
  <2>1. I # {} /\ Min(I) = k
    BY <1>2, FirstHit
  <2> QED BY <1>1, <2>1
<1>5. c = SubSeq(b, k, Len(b))
  BY <1>2, <1>4
<1> QED BY <1>3, <1>5

\* Without a start byte all is removed.
LEMMA OSDPNone ==
  ASSUME NEW b \in Bytes, \A i \in 1 .. Len(b) : b[i] # SOM
  PROVE  OSDP(b) = Nothing(<<>>)
<1> DEFINE I == {i \in 1 .. Len(b) : b[i] = SOM}
           n == SelectInSeq(b, LAMBDA x : x = SOM)
           c == IF n = 0 THEN <<>> ELSE SubSeq(b, n, Len(b))
<1>1. n = IF I # {} THEN Min(I) ELSE 0
  BY DEF SelectInSeq
<1>2. I = {}
  OBVIOUS
<1>3. OSDP(b) = OSDPRest(c)
  BY Zenon DEF OSDP, OSDPRest
<1> HIDE DEF I, n
<1>4. c = <<>>
  BY <1>1, <1>2
<1>5. OSDPRest(<<>>) = Nothing(<<>>)
  <2>1. ~(Len(<<>>) >= 6)
    OBVIOUS
  <2> QED BY <2>1, Zenon DEF OSDPRest
<1> QED BY <1>3, <1>4, <1>5

\* The parser waits at the head of the buffer, or goes on behind its first byte.
NoiseOutcome(o, p, b, m) ==
  o = Nothing(b) \/ Finds(o, Content(p, m), SubSeq(b, 2, Len(b)), m)

\* Whose noise costs no message, and whose parsers wait at it.
Kept == Tolerated \/ (protocol \in {"gunnebo", "stidprg"} /\ Noticed)

\* OSDP removes a byte that is no start byte.
LEMMA OSDPNoise ==
  ASSUME NEW b \in Bytes, b # <<>>, b[1] # SOM, NEW m, WellFormed("osdp", m),
         Agree(SubSeq(b, 2, Len(b)), m)
  PROVE  NoiseOutcome(OSDP(b), "osdp", b, m)
<1> DEFINE c == SubSeq(b, 2, Len(b))
<1>0. Len(b) \in Nat /\ Len(b) # 0 /\ 2 \in Nat \ {0} /\ 2 <= Len(b) + 1 /\ Len(b) <= Len(b)
  BY DEF Bytes
<1>1. c \in Bytes /\ Len(c) = Len(b) - 2 + 1 /\ \A i \in 1 .. (Len(b) - 2 + 1) : c[i] = b[2 + i - 1]
  BY <1>0, Part
<1>2. Content("osdp", m) = m
  BY DEF Content
<1>3. Agree(c, m)
  OBVIOUS
<1>4. SubSeq(c, 1, Len(c)) = c
  BY <1>1 DEF Bytes
<1> HIDE DEF c
<1>5. CASE Len(b) = 1
  <2>1. OSDP(b) = Nothing(<<>>)
    <3>1. \A i \in 1 .. Len(b) : b[i] # SOM
      BY <1>5
    <3> QED BY <3>1, OSDPNone
  <2>2. c = <<>>
    <3>1. Len(c) = 0
      BY <1>1, <1>5
    <3> QED BY <1>1, <3>1 DEF Bytes
  <2> QED BY <2>1, <2>2 DEF NoiseOutcome, Finds, c
<1>6. CASE Len(b) # 1
  <2>0. /\ ~(Len(b) < 2) /\ 2 \in 1 .. Len(b) /\ 1 < Len(b) /\ 1 + 1 = 2
        /\ 1 \in 1 .. (Len(b) + 1) /\ 2 \in 1 .. (Len(b) + 1)
    <3>1. \A n \in Nat : n # 0 /\ n # 1 => /\ ~(n < 2) /\ 2 \in 1 .. n /\ 1 < n /\ 1 + 1 = 2
                                          /\ 1 \in 1 .. (n + 1) /\ 2 \in 1 .. (n + 1)
      OBVIOUS
    <3> QED BY <1>0, <1>6, <3>1, Zenon
  <2>1. 1 \in 1 .. (Len(b) - 2 + 1) /\ 2 + 1 - 1 = 2 /\ 1 <= Len(c) /\ Len(c) \in Nat /\ c # <<>>
    BY <1>0, <1>1, <1>6
  <2>2. c[1] = b[2]
    BY <1>1, <2>1
  <2>3. c[1] = SOM
    <3>0. m \in Bytes /\ m[1] = SOM /\ Len(m) >= 6
      BY DEF WellFormed
    <3>1. m[1] = SOM /\ 1 \in 1 .. Len(m)
      BY <3>0 DEF Bytes
    <3> QED BY <1>3, <2>1, <3>1 DEF Agree
  <2>4. OSDP(b) = OSDPRest(c)
    <3>1. \A i \in 1 .. (2 - 1) : i = 1
      OBVIOUS
    <3>2. b[2] = SOM
      BY <2>2, <2>3, Zenon
    <3>3. \A i \in 1 .. (2 - 1) : b[i] # SOM
      BY <3>1, Zenon
    <3> QED BY <2>0, <3>2, <3>3, OSDPStart DEF c
  <2>5. OSDP(c) = OSDPRest(SubSeq(c, 1, Len(c)))
    <3>1. 1 \in 1 .. Len(c) /\ \A i \in 1 .. (1 - 1) : c[i] # SOM
      BY <2>1
    <3> QED BY <1>1, <2>3, <3>1, OSDPStart
  <2>6. OSDP(b) = OSDP(c)
    BY <1>4, <2>4, <2>5
  <2>7. Finds(OSDP(c), m, c, m)
    BY <1>1, <1>3, <2>1, OSDPFinds
  <2> QED BY <1>2, <2>6, <2>7 DEF NoiseOutcome, c
<1> QED BY <1>5, <1>6

\* SCIEL removes a CR.
LEMMA ScielNoise ==
  ASSUME NEW b \in Bytes, b # <<>>, b[1] = CR, NEW m, WellFormed("sciel", m),
         Agree(SubSeq(b, 2, Len(b)), m)
  PROVE  NoiseOutcome(Sciel(b), "sciel", b, m)
<1> DEFINE c == SubSeq(b, 2, Len(b))
<1>0. Len(b) \in Nat /\ Len(b) # 0 /\ 2 \in Nat \ {0} /\ 2 <= Len(b) + 1 /\ Len(b) <= Len(b)
  BY DEF Bytes
<1>1. c \in Bytes /\ Len(c) = Len(b) - 2 + 1 /\ \A i \in 1 .. (Len(b) - 2 + 1) : c[i] = b[2 + i - 1]
  BY <1>0, Part
<1>2. Content("sciel", m) = m
  BY DEF Content
<1>3. Agree(c, m)
  OBVIOUS
<1>4. PICK f : Skips(f, b, 1) /\ Sciel(b) = IF Len(b) < 2 THEN Nothing(b)
                                           ELSE ScielRest(SubSeq(b, f[1], Len(b)))
  BY ScielSkips
<1> HIDE DEF c
<1>5. CASE Len(b) = 1
  BY <1>4, <1>5 DEF NoiseOutcome
<1>6. CASE Len(b) # 1
  <2>0. /\ ~(Len(b) < 2) /\ 2 \in 1 .. Len(b) /\ 1 < Len(b) /\ 1 + 1 = 2
        /\ 1 \in 1 .. (Len(b) + 1) /\ 2 \in 1 .. (Len(b) + 1)
    <3>1. \A n \in Nat : n # 0 /\ n # 1 => /\ ~(n < 2) /\ 2 \in 1 .. n /\ 1 < n /\ 1 + 1 = 2
                                          /\ 1 \in 1 .. (n + 1) /\ 2 \in 1 .. (n + 1)
      OBVIOUS
    <3> QED BY <1>0, <1>6, <3>1, Zenon
  <2>1. 1 \in 1 .. (Len(b) - 2 + 1) /\ 2 + 1 - 1 = 2 /\ 1 <= Len(c) /\ Len(c) \in Nat /\ c # <<>>
    BY <1>0, <1>1, <1>6
  <2>2. c[1] = b[2]
    BY <1>1, <2>1
  <2>3. c[1] = Open
    <3>0. m \in Bytes /\ m[1] = Open /\ Len(m) >= 2
      BY DEF WellFormed
    <3>1. m[1] = Open /\ 1 \in 1 .. Len(m)
      BY <3>0 DEF Bytes
    <3> QED BY <1>3, <2>1, <3>1 DEF Agree
  <2>4. f[1] = 2
    <3>1a. Open # LF /\ Open # CR
      BY DEF Open, LF, CR
    <3>2. b[2] # CR /\ b[1 + 1] # LF
      BY <2>0, <2>2, <2>3, <3>1a, Zenon
    <3>3. f[1] = Skip(f, b, 1) /\ f[2] = Skip(f, b, 2)
      BY <1>4, <2>0 DEF Skips
    <3>4. Skip(f, b, 1) = f[1 + 1] /\ Skip(f, b, 2) = 2
      BY <2>0, <3>2, Zenon DEF Skip
    <3> QED BY <2>0, <3>3, <3>4, Zenon
  <2>5. Sciel(b) = ScielRest(c)
    BY <1>4, <2>0, <2>4, Zenon DEF c
  <2>6. Finds(ScielRest(c), m, c, m)
    BY <1>1, <1>3, <2>1, ScielRestFinds
  <2> QED BY <1>2, <2>5, <2>6 DEF NoiseOutcome, c
<1> QED BY <1>5, <1>6

\* Gunnebo and STid PRG wait at a byte that is no start mark.
LEMMA NoiseWaits ==
  ASSUME NEW b \in Bytes, b # <<>>, b[1] # STX
  PROVE  Gunnebo(b) = Nothing(b) /\ STidPRG(b) = Nothing(b)
BY DEF Gunnebo, STidPRG

\* Noise at the head of the buffer.
LEMMA NoiseHead ==
  ASSUME Kept, noise # NoNoise, NEW b \in Bytes, b # <<>>, b[1] = noise,
         NEW m, WellFormed(protocol, m), Agree(SubSeq(b, 2, Len(b)), m), NEW stale
  PROVE  NoiseOutcome(getValidBuffer(protocol, b, stale), protocol, b, m)
<1>1. \/ protocol = "osdp" /\ noise # SOM
      \/ protocol = "sciel" /\ noise = CR
      \/ protocol \in {"gunnebo", "stidprg"} /\ noise # STX
  BY DEF Kept, Tolerated, Noticed
<1>2. CASE protocol = "osdp" /\ noise # SOM
  <2>1. getValidBuffer(protocol, b, stale) = OSDP(b)
    BY <1>2 DEF getValidBuffer
  <2> QED BY <1>2, <2>1, OSDPNoise
<1>3. CASE protocol = "sciel" /\ noise = CR
  <2>1. getValidBuffer(protocol, b, stale) = Sciel(b)
    BY <1>3 DEF getValidBuffer
  <2> QED BY <1>3, <2>1, ScielNoise
<1>4. CASE protocol \in {"gunnebo", "stidprg"} /\ noise # STX
  <2>1. getValidBuffer(protocol, b, stale) \in {Gunnebo(b), STidPRG(b)}
    <3>1. CASE protocol = "gunnebo"
      BY <3>1 DEF getValidBuffer
    <3>2. CASE protocol = "stidprg"
      BY <3>2 DEF getValidBuffer
    <3> QED BY <1>4, <3>1, <3>2
  <2> QED BY <1>4, <2>1, NoiseWaits DEF NoiseOutcome
<1> QED BY <1>1, <1>2, <1>3, <1>4

-----------------------------------------------------------------------------
(***************************************************************************)
(* Reads that keep to the boundaries of the messages.                      *)
(***************************************************************************)

\* What read has returned after n messages.
Answers(n) == [i \in 1 .. n |-> Content(protocol, messages[i])]

\* b is what has come of the stream behind its first a bytes, up to the e-th.
Window(Z, a, e, b) ==
  /\ a \in Nat /\ e \in Nat /\ a <= e /\ e <= Len(Z) /\ b = SubSeq(Z, a + 1, e)

\* A window and its bytes.
LEMMA WindowBytes ==
  ASSUME NEW Z \in Bytes, NEW a, NEW e, NEW b, Window(Z, a, e, b)
  PROVE  b \in Bytes /\ Len(b) = e - a /\ \A i \in 1 .. (e - a) : b[i] = Z[a + i]
<1>1. /\ a \in Nat /\ e \in Nat /\ a <= e /\ e <= Len(Z) /\ b = SubSeq(Z, a + 1, e)
      /\ a + 1 \in Nat \ {0} /\ a + 1 <= e + 1 /\ e - (a + 1) + 1 = e - a
  BY DEF Window
<1>2. /\ b \in Bytes /\ Len(b) = e - (a + 1) + 1
      /\ \A i \in 1 .. (e - (a + 1) + 1) : b[i] = Z[(a + 1) + i - 1]
  <2> DEFINE x == a + 1
  <2>1. x \in Nat \ {0} /\ x <= e + 1 /\ b = SubSeq(Z, x, e)
    BY <1>1
  <2> HIDE DEF x
  <2>2. /\ SubSeq(Z, x, e) \in Bytes /\ Len(SubSeq(Z, x, e)) = e - x + 1
        /\ \A i \in 1 .. (e - x + 1) : SubSeq(Z, x, e)[i] = Z[x + i - 1]
    <3>1. e \in Nat /\ x <= e + 1 /\ e <= Len(Z) /\ x \in Nat \ {0}
      BY <1>1, <2>1, Zenon
    <3> QED BY <3>1, Part
  <2>3. b \in Bytes /\ Len(b) = e - x + 1 /\ \A i \in 1 .. (e - x + 1) : b[i] = Z[x + i - 1]
    BY <2>1, <2>2, Zenon
  <2> QED BY <2>3 DEF x
<1>3. \A i \in 1 .. (e - a) : (a + 1) + i - 1 = a + i
  BY <1>1
<1> QED BY <1>1, <1>2, <1>3

\* The end of a window is a window.
LEMMA WindowEnds ==
  ASSUME NEW Z \in Bytes, NEW a, NEW e, NEW b, Window(Z, a, e, b), NEW k \in 1 .. (Len(b) + 1)
  PROVE  Window(Z, a + k - 1, e, SubSeq(b, k, Len(b)))
<1>1. /\ a \in Nat /\ e \in Nat /\ a <= e /\ e <= Len(Z) /\ b = SubSeq(Z, a + 1, e)
      /\ a + 1 \in Nat \ {0} /\ a + 1 <= e + 1
  BY DEF Window
<1>2. Len(b) = e - a
  BY WindowBytes
<1>3. /\ k \in 1 .. (e - (a + 1) + 2) /\ a + k - 1 \in Nat
      /\ a + k - 1 <= e /\ (a + 1) + k - 1 = (a + k - 1) + 1
  BY <1>1, <1>2
<1>4. SubSeq(b, k, Len(b)) = SubSeq(Z, (a + 1) + k - 1, e)
  <2> DEFINE x == a + 1
  <2>1. x \in Nat \ {0} /\ x <= e + 1 /\ b = SubSeq(Z, x, e) /\ k \in 1 .. (e - x + 2)
    BY <1>1, <1>3
  <2> HIDE DEF x
  <2>2. SubSeq(b, k, Len(b)) = SubSeq(Z, x + k - 1, e)
    <3>1. SubSeq(SubSeq(Z, x, e), k, Len(SubSeq(Z, x, e))) = SubSeq(Z, x + k - 1, e)
      BY <1>1, <2>1, PartOfPart
    <3> QED BY <2>1, <3>1, Zenon
  <2> QED BY <2>2 DEF x
<1>5. SubSeq(b, k, Len(b)) = SubSeq(Z, (a + k - 1) + 1, e)
  BY <1>3, <1>4, Zenon
<1> QED BY <1>1, <1>3, <1>5, Zenon DEF Window

\* Bytes that arrive widen the window.
LEMMA WindowWidens ==
  ASSUME NEW Z \in Bytes, NEW a, NEW e, NEW b, Window(Z, a, e, b),
         NEW w, Window(Z, e, Len(Z), w), NEW n \in 1 .. Len(w)
  PROVE  /\ Window(Z, a, e + n, b \o SubSeq(w, 1, n))
         /\ Window(Z, e + n, Len(Z), SubSeq(w, n + 1, Len(w)))
<1>1. /\ a \in Nat /\ e \in Nat /\ a <= e /\ e <= Len(Z) /\ Len(Z) \in Nat
  BY DEF Window
<1>2. b \in Bytes /\ Len(b) = e - a /\ \A i \in 1 .. (e - a) : b[i] = Z[a + i]
  BY WindowBytes
<1>3. w \in Bytes /\ Len(w) = Len(Z) - e /\ \A i \in 1 .. (Len(Z) - e) : w[i] = Z[e + i]
  BY WindowBytes
<1>4. n \in Nat /\ n <= Len(w) /\ 1 <= n + 1 /\ 1 \in Nat \ {0} /\ e + n \in Nat /\ e + n <= Len(Z)
      /\ n - 1 + 1 = n /\ n + 1 \in 1 .. (Len(w) + 1) /\ e + (n + 1) - 1 = e + n /\ a <= e + n
  BY <1>1, <1>3
<1> DEFINE t == SubSeq(w, 1, n)
           x == b \o t
           z == SubSeq(Z, a + 1, e + n)
<1>5. t \in Bytes /\ Len(t) = n /\ \A i \in 1 .. n : t[i] = w[i]
  <2>1. t \in Bytes /\ Len(t) = n - 1 + 1 /\ \A i \in 1 .. (n - 1 + 1) : t[i] = w[1 + i - 1]
    BY <1>3, <1>4, Part
  <2>2. \A i \in 1 .. n : 1 + i - 1 = i
    BY <1>4
  <2> HIDE DEF t
  <2> QED BY <1>4, <2>1, <2>2
<1> HIDE DEF t
<1>6. /\ x \in Bytes /\ Len(x) = Len(b) + Len(t)
      /\ \A i \in 1 .. Len(b) : x[i] = b[i]
      /\ \A i \in 1 .. Len(t) : x[Len(b) + i] = t[i]
  BY <1>2, <1>5, Joined
<1>7. z \in Bytes /\ Len(z) = (e + n) - a /\ \A i \in 1 .. ((e + n) - a) : z[i] = Z[a + i]
  <2>1. Window(Z, a, e + n, z)
    BY <1>1, <1>4 DEF Window
  <2> DEFINE d == e + n
  <2>2. Window(Z, a, d, z)
    BY <2>1
  <2> HIDE DEF z, d
  <2>3. z \in Bytes /\ Len(z) = d - a /\ \A i \in 1 .. (d - a) : z[i] = Z[a + i]
    BY <2>2, WindowBytes
  <2> QED BY <2>3, Zenon DEF d
<1> HIDE DEF x, z
<1>8. Len(x) = (e + n) - a
  BY <1>1, <1>2, <1>5, <1>6
<1>9. ASSUME NEW i \in 1 .. ((e + n) - a) PROVE x[i] = Z[a + i]
  <2>1. CASE i <= e - a
    <3>1. i \in 1 .. (e - a)
      BY <1>1, <1>4, <2>1
    <3> QED BY <1>2, <1>6, <3>1
  <2>2. CASE ~(i <= e - a)
    <3> DEFINE k == i - (e - a)
    <3>1. k \in 1 .. n /\ k \in 1 .. (Len(Z) - e) /\ (e - a) + k = i /\ e + k = a + i
      BY <1>1, <1>4, <2>2
    <3> HIDE DEF k
    <3>2. x[(e - a) + k] = t[k]
      BY <1>2, <1>5, <1>6, <3>1
    <3>3. t[k] = Z[e + k]
      BY <1>3, <1>5, <3>1
    <3> QED BY <3>1, <3>2, <3>3
  <2> QED BY <2>1, <2>2
<1>10. x = z
  BY <1>6, <1>7, <1>8, <1>9, SameBytes
<1>11. Window(Z, a, e + n, x)
  BY <1>1, <1>4, <1>10 DEF Window, z
<1>12. Window(Z, e + (n + 1) - 1, Len(Z), SubSeq(w, n + 1, Len(w)))
  BY <1>4, WindowEnds
<1> QED BY <1>4, <1>11, <1>12 DEF x, t

\* The window at the end of a piece begins with the next one.
LEMMA HeadAgrees ==
  ASSUME NEW Z, NEW s, NEW B, Layout(Z, s, B), NEW j \in 1 .. Len(s),
         NEW e, NEW b, Window(Z, B[j - 1], e, b)
  PROVE  Agree(b, s[j])
<1>1. Z \in Bytes /\ \A i \in 1 .. Len(s[j]) : Z[B[j - 1] + i] = s[j][i]
  BY DEF Layout
<1>2. b \in Bytes /\ Len(b) = e - B[j - 1] /\ \A i \in 1 .. (e - B[j - 1]) : b[i] = Z[B[j - 1] + i]
  BY <1>1, WindowBytes
<1>3. e \in Nat /\ B[j - 1] \in Nat
  BY DEF Window
<1> SUFFICES ASSUME NEW i \in 1 .. Len(s[j]), i <= Len(b) PROVE b[i] = s[j][i]
  BY DEF Agree
<1>4. i \in 1 .. (e - B[j - 1])
  BY <1>2, <1>3
<1> QED BY <1>1, <1>2, <1>4

\* The order of the messages among the pieces.
LEMMA PieceOrder ==
  ASSUME NEW s, NEW K, Pieces(s, K), NEW j \in 1 .. Len(s), protocol \in Protocols
  PROVE  /\ j # K => /\ Order(j, K) = Order(j - 1, K) + 1 /\ s[j] = messages[Order(j, K)]
                     /\ Order(j, K) \in 1 .. Len(messages) /\ WellFormed(protocol, s[j])
         /\ j = K => Order(j, K) = Order(j - 1, K) /\ j + 1 \in 1 .. Len(s) /\ s[j] = <<noise>>
<1>1. /\ Len(s) \in Nat /\ K \in 1 .. (Len(s) + 1) /\ Len(messages) = Order(Len(s), K)
      /\ K <= Len(s) => K < Len(s)
  BY DEF Pieces
<1>2. CASE j # K
  <2>1. Order(j, K) = Order(j - 1, K) + 1
    BY <1>1, <1>2 DEF Order
  <2>2. Order(j, K) \in 1 .. Len(messages)
    BY <1>1, <1>2 DEF Order
  <2>3. s[j] = messages[Order(j, K)] /\ messages \in Seq(Frames[protocol])
    BY <1>2 DEF Pieces
  <2>4. s[j] \in Frames[protocol]
    BY <2>2, <2>3
  <2> QED BY <1>2, <2>1, <2>2, <2>3, <2>4, FramesWellFormed
<1>3. CASE j = K
  <2>1. Order(j, K) = Order(j - 1, K) /\ j + 1 \in 1 .. Len(s)
    BY <1>1, <1>3 DEF Order
  <2>2. s[j] = <<noise>>
    BY <1>1, <1>3 DEF Pieces
  <2> QED BY <1>3, <2>1, <2>2
<1> QED BY <1>2, <1>3

\* A result is no empty sequence.
LEMMA ContentOK ==
  ASSUME NEW p, NEW m, WellFormed(p, m)
  PROVE  Content(p, m) \in Bytes /\ Content(p, m) # <<>>
<1>1. m \in Bytes /\ m # <<>> /\ (p = "promag" => Len(m) >= 3)
  BY DEF WellFormed
<1>2. CASE p = "promag"
  <2> DEFINE n == Len(m) - 1
             c == SubSeq(m, 2, n)
  <2>1. n \in Nat /\ n <= Len(m) /\ 2 <= n + 1 /\ n - 2 + 1 # 0
    <3>1. Len(m) \in Nat /\ Len(m) >= 3
      BY <1>1, <1>2 DEF Bytes
    <3>2. \A l \in Nat : l >= 3 =>
            l - 1 \in Nat /\ l - 1 <= l /\ 2 <= (l - 1) + 1 /\ (l - 1) - 2 + 1 # 0
      OBVIOUS
    <3> QED BY <3>1, <3>2, Zenon
  <2>2. Content(p, m) = c
    BY <1>2 DEF Content
  <2> HIDE DEF n
  <2>3. c \in Bytes /\ Len(c) = n - 2 + 1
    BY <1>1, <2>1, Part
  <2> HIDE DEF c
  <2>4. c # <<>>
    BY <2>1, <2>3
  <2> QED BY <2>2, <2>3, <2>4
<1>3. CASE p # "promag"
  BY <1>1, <1>3 DEF Content
<1> QED BY <1>2, <1>3

\* What read has returned are results.
LEMMA AnswersType ==
  ASSUME protocol \in Protocols, messages \in Seq(Frames[protocol]),
         NEW n \in Nat, n <= Len(messages)
  PROVE  /\ Answers(n) \in Seq(Bytes) /\ Len(Answers(n)) = n
         /\ \A i \in 1 .. n : Answers(n)[i] = Content(protocol, messages[i])
<1> DEFINE F(i) == Content(protocol, messages[i])
<1>1. ASSUME NEW i \in 1 .. n PROVE F(i) \in Bytes
  <2>1. messages[i] \in Frames[protocol]
    <3>1. i \in 1 .. Len(messages)
      OBVIOUS
    <3> QED BY <3>1
  <2> QED BY <2>1, FramesWellFormed, ContentOK
<1>2. Answers(n) = [i \in 1 .. n |-> F(i)]
  BY DEF Answers
<1> HIDE DEF F
<1>3. [i \in 1 .. n |-> F(i)] \in Seq(Bytes)
  BY <1>1
<1>4. Len([i \in 1 .. n |-> F(i)]) = n
  OBVIOUS
<1>5. \A i \in 1 .. n : [k \in 1 .. n |-> F(k)][i] = F(i)
  OBVIOUS
<1>6. /\ Answers(n) \in Seq(Bytes) /\ Len(Answers(n)) = n
      /\ \A i \in 1 .. n : Answers(n)[i] = F(i)
  BY <1>2, <1>3, <1>4, <1>5
<1> QED BY <1>6 DEF F

\* One result more.
LEMMA AnswersGrow ==
  ASSUME protocol \in Protocols, messages \in Seq(Frames[protocol]),
         NEW n \in Nat, n + 1 <= Len(messages)
  PROVE  Append(Answers(n), Content(protocol, messages[n + 1])) = Answers(n + 1)
<1> DEFINE u == Answers(n)
           v == Answers(n + 1)
           x == Content(protocol, messages[n + 1])
           y == Append(u, x)
<1>0. n + 1 \in Nat /\ n <= Len(messages) /\ n + 1 \in 1 .. (n + 1)
  OBVIOUS
<1>1. u \in Seq(Bytes) /\ Len(u) = n /\ \A i \in 1 .. n : u[i] = Content(protocol, messages[i])
  BY <1>0, AnswersType
<1>2. /\ v \in Seq(Bytes) /\ Len(v) = n + 1
      /\ \A i \in 1 .. (n + 1) : v[i] = Content(protocol, messages[i])
  <2> DEFINE k == n + 1
  <2>1. k \in Nat /\ k <= Len(messages)
    BY <1>0
  <2> HIDE DEF k
  <2>2. /\ Answers(k) \in Seq(Bytes) /\ Len(Answers(k)) = k
        /\ \A i \in 1 .. k : Answers(k)[i] = Content(protocol, messages[i])
    BY <2>1, AnswersType
  <2> QED BY <2>2, Zenon DEF k
<1>3. x = v[n + 1]
  BY <1>0, <1>2
<1>4. \A i \in 1 .. n : u[i] = v[i]
  BY <1>0, <1>1, <1>2
<1> HIDE DEF u, v, x
<1>5. x \in Bytes
  BY <1>0, <1>2, <1>3
<1>6. y = v
  BY <1>1, <1>2, <1>3, <1>4, <1>5
<1> QED BY <1>6 DEF u, v, x

\* What read has returned after an outcome.
Added(g, o) == IF o.result = <<>> THEN g ELSE Append(g, o.result)

\* All up to the j-th piece is read, and the messages among it are returned.
AtPiece(Z, s, B, K, j, e, b, g) ==
  j \in 0 .. Len(s) /\ Window(Z, B[j], e, b) /\ g = Answers(Order(j, K))

\* The parser has the j-th piece, a message, at the head of the buffer.
LEMMA FoundNext ==
  ASSUME NEW Z, NEW s, NEW B, NEW K, Pieces(s, K), Layout(Z, s, B), protocol \in Protocols,
         NEW j \in 1 .. Len(s), j # K, NEW e, NEW b, Window(Z, B[j - 1], e, b),
         NEW o, Finds(o, Content(protocol, s[j]), b, s[j])
  PROVE  \E i : AtPiece(Z, s, B, K, i, e, o.rest, Added(Answers(Order(j - 1, K)), o))
<1> DEFINE g == Answers(Order(j - 1, K))
           r == Content(protocol, s[j])
<1>0. Len(s) \in Nat /\ j - 1 \in 0 .. Len(s) /\ j \in 0 .. Len(s)
  BY DEF Pieces
<1>1. /\ Order(j, K) = Order(j - 1, K) + 1 /\ s[j] = messages[Order(j, K)]
      /\ Order(j, K) \in 1 .. Len(messages) /\ WellFormed(protocol, s[j])
  BY PieceOrder
<1>2. r \in Bytes /\ r # <<>>
  BY <1>1, ContentOK
<1>3. CASE o = Nothing(b) \/ o = Outcome(<<>>, b, FALSE)
  <2>1. o.result = <<>> /\ o.rest = b
    BY <1>3 DEF Nothing, Outcome
  <2>2. Added(g, o) = g
    BY <2>1 DEF Added
  <2>3. AtPiece(Z, s, B, K, j - 1, e, o.rest, Added(g, o))
    BY <1>0, <2>1, <2>2 DEF AtPiece
  <2> QED BY <2>3
<1>4. CASE Len(s[j]) <= Len(b) /\ o = Outcome(r, Behind(b, s[j]), TRUE)
  <2>1. o.result = r /\ o.rest = SubSeq(b, Len(s[j]) + 1, Len(b))
    BY <1>4 DEF Outcome, Behind
  <2>2. Z \in Bytes /\ B[j] = B[j - 1] + Len(s[j])
    BY DEF Layout
  <2>3. b \in Bytes /\ s[j] \in Bytes
    BY <1>1, <2>2, WindowBytes DEF WellFormed
  <2>4. Len(s[j]) \in Nat /\ Len(b) \in Nat /\ B[j - 1] \in Nat
    <3>1. Len(s[j]) \in Nat /\ Len(b) \in Nat
      BY <2>3 DEF Bytes
    <3>2. B[j - 1] \in Nat
      BY Zenon DEF Window
    <3> QED BY <3>1, <3>2
  <2>5. Len(s[j]) + 1 \in 1 .. (Len(b) + 1) /\ B[j - 1] + (Len(s[j]) + 1) - 1 = B[j]
    BY <1>4, <2>2, <2>4
  <2>6. Window(Z, B[j], e, o.rest)
    <3> DEFINE k == Len(s[j]) + 1
    <3>1. k \in 1 .. (Len(b) + 1) /\ B[j - 1] + k - 1 = B[j] /\ o.rest = SubSeq(b, k, Len(b))
      BY <2>1, <2>5
    <3> HIDE DEF k
    <3>2. Window(Z, B[j - 1] + k - 1, e, SubSeq(b, k, Len(b)))
      BY <2>2, <3>1, WindowEnds
    <3> QED BY <3>1, <3>2, Zenon
  <2>7. Added(g, o) = Append(g, r)
    BY <1>2, <2>1 DEF Added
  <2>8. Append(g, r) = Answers(Order(j, K))
    <3> DEFINE n == Order(j - 1, K)
    <3>0. n \in Nat
      BY <1>0 DEF Order, Pieces
    <3>1. n + 1 <= Len(messages) /\ r = Content(protocol, messages[n + 1])
      BY <1>1
    <3>2. messages \in Seq(Frames[protocol])
      BY DEF Pieces
    <3>3. Order(j, K) = n + 1
      BY <1>1
    <3> HIDE DEF n, r
    <3>4. Append(Answers(n), r) = Answers(n + 1)
      BY <3>0, <3>1, <3>2, AnswersGrow
    <3> QED BY <3>3, <3>4, Zenon DEF n
  <2>9. AtPiece(Z, s, B, K, j, e, o.rest, Added(g, o))
    BY <1>0, <2>6, <2>7, <2>8 DEF AtPiece
  <2> QED BY <2>9
<1> QED BY <1>3, <1>4 DEF Finds

\* A read at the end of a piece comes to the end of a piece.
LEMMA ReadNext ==
  ASSUME NEW Z, NEW s, NEW B, NEW K, Pieces(s, K), Layout(Z, s, B), protocol \in Protocols,
         Kept, NEW j, NEW e, NEW b, NEW g, AtPiece(Z, s, B, K, j, e, b, g), b # <<>>, NEW stale
  PROVE  LET o == getValidBuffer(protocol, b, stale)
         IN  \E i : AtPiece(Z, s, B, K, i, e, o.rest, Added(g, o))
<1> DEFINE o == getValidBuffer(protocol, b, stale)
<1>0. /\ s \in Seq(Bytes) /\ Len(s) \in Nat /\ Z \in Bytes /\ j \in 0 .. Len(s)
      /\ Window(Z, B[j], e, b) /\ g = Answers(Order(j, K))
  BY DEF Pieces, Layout, AtPiece
<1>1. b \in Bytes /\ Len(b) = e - B[j]
  BY <1>0, WindowBytes
<1>2. j + 1 \in 1 .. Len(s) /\ (j + 1) - 1 = j
  <2>1. Len(b) # 0
    BY <1>1 DEF Bytes
  <2>2. B[j] \in Nat /\ e \in Nat /\ e <= Len(Z)
    BY <1>0, Zenon DEF Window
  <2>3. B[Len(s)] = Len(Z)
    BY DEF Layout
  <2>4. j # Len(s)
    <3> SUFFICES ASSUME j = Len(s) PROVE FALSE
      OBVIOUS
    <3>1. B[j] = Len(Z) /\ B[j] <= e
      BY <1>0, <2>3, Zenon DEF Window
    <3> QED BY <1>1, <2>1, <2>2, <3>1
  <2> QED BY <1>0, <2>4
<1> DEFINE k == j + 1
<1>3. k \in 1 .. Len(s) /\ Window(Z, B[k - 1], e, b) /\ g = Answers(Order(k - 1, K))
  BY <1>0, <1>2
<1> HIDE DEF k, o
<1>4. CASE k # K
  <2>1. WellFormed(protocol, s[k])
    BY <1>3, <1>4, PieceOrder
  <2>2. Agree(b, s[k])
    BY <1>3, HeadAgrees
  <2>3. Finds(o, Content(protocol, s[k]), b, s[k])
    BY <1>1, <2>1, <2>2, ParserFinds DEF o
  <2>4. \E i : AtPiece(Z, s, B, K, i, e, o.rest, Added(Answers(Order(k - 1, K)), o))
    BY <1>3, <1>4, <2>3, FoundNext
  <2>5. \E i : AtPiece(Z, s, B, K, i, e, o.rest, Added(g, o))
    BY <1>3, <2>4, Zenon
  <2> QED BY <2>5, Zenon DEF o
<1>5. CASE k = K
  <2>1. Order(k, K) = Order(k - 1, K) /\ k + 1 \in 1 .. Len(s) /\ s[k] = <<noise>>
    BY <1>3, <1>5, PieceOrder
  <2>2. k \in Nat /\ k + 1 # K /\ (k + 1) - 1 = k
    BY <1>0, <1>3, <1>5
  <2>3. noise # NoNoise
    <3>1. K <= Len(s)
      BY <1>0, <1>3, <1>5
    <3> QED BY <3>1 DEF Pieces
  <2> DEFINE c == SubSeq(b, 2, Len(b))
             n == k + 1
  <2>4. B[k] = B[k - 1] + 1 /\ Z[B[k - 1] + 1] = noise
    <3>1. Len(s[k]) = 1 /\ s[k][1] = noise /\ 1 \in 1 .. Len(s[k])
      BY <2>1
    <3>2. B[k] = B[k - 1] + Len(s[k]) /\ \A i \in 1 .. Len(s[k]) : Z[B[k - 1] + i] = s[k][i]
      BY <1>3 DEF Layout
    <3> QED BY <3>1, <3>2
  <2>5. B[k - 1] \in Nat /\ e \in Nat /\ Len(b) = e - B[k - 1] /\ Len(b) \in Nat \ {0}
    <3>1. B[k - 1] \in Nat /\ e \in Nat
      BY <1>3, Zenon DEF Window
    <3>2. Len(b) = e - B[k - 1]
      BY <1>0, <1>3, WindowBytes
    <3>3. Len(b) \in Nat \ {0}
      BY <1>1 DEF Bytes
    <3> QED BY <3>1, <3>2, <3>3
  <2>6. b[1] = noise
    <3>1. \A i \in 1 .. (e - B[k - 1]) : b[i] = Z[B[k - 1] + i]
      BY <1>0, <1>3, WindowBytes
    <3>2. 1 \in 1 .. (e - B[k - 1])
      BY <2>5
    <3> QED BY <2>4, <3>1, <3>2, Zenon
  <2>7. Window(Z, B[k], e, c)
    <3>1. 2 \in 1 .. (Len(b) + 1) /\ B[k - 1] + 2 - 1 = B[k]
      BY <2>4, <2>5
    <3>2. Window(Z, B[k - 1] + 2 - 1, e, c)
      BY <1>0, <1>3, <3>1, WindowEnds
    <3> QED BY <3>1, <3>2, Zenon
  <2> HIDE DEF c, n
  <2>8. n \in 1 .. Len(s) /\ n # K /\ n - 1 = k
    BY <2>1, <2>2 DEF n
  <2>9. Window(Z, B[n - 1], e, c)
    BY <2>7, <2>8
  <2>10. WellFormed(protocol, s[n]) /\ Agree(c, s[n])
    BY <2>8, <2>9, PieceOrder, HeadAgrees
  <2>11. NoiseOutcome(o, protocol, b, s[n])
    BY <1>1, <2>3, <2>6, <2>10, NoiseHead DEF o, c
  <2>12. CASE o = Nothing(b)
    <3>1. o.rest = b /\ Added(g, o) = g
      BY <2>12 DEF Nothing, Outcome, Added
    <3>2. AtPiece(Z, s, B, K, j, e, o.rest, Added(g, o))
      BY <3>1
    <3> QED BY <3>2, Zenon DEF o
  <2>13. CASE Finds(o, Content(protocol, s[n]), c, s[n])
    <3>1. \E i : AtPiece(Z, s, B, K, i, e, o.rest, Added(Answers(Order(n - 1, K)), o))
      BY <2>8, <2>9, <2>13, FoundNext
    <3>2. Answers(Order(n - 1, K)) = g
      BY <1>3, <2>1, <2>8
    <3>3. \E i : AtPiece(Z, s, B, K, i, e, o.rest, Added(g, o))
      BY <3>1, <3>2, Zenon
    <3> QED BY <3>3, Zenon DEF o
  <2> QED BY <2>11, <2>12, <2>13 DEF NoiseOutcome, c
<1> QED BY <1>4, <1>5

\* What has been read and returned, at a boundary of the stream.
SyncInv ==
  /\ protocol \in Protocols
  /\ \E Z, s, B, K :
       /\ Pieces(s, K) /\ Layout(Z, s, B)
       /\ \E j, e : AtPiece(Z, s, B, K, j, e, buffer, got) /\ Window(Z, e, Len(Z), wire)

\* At the start nothing is read.
LEMMA SyncInit ==
  ASSUME Init, noise # Burst
  PROVE  SyncInv
<1>1. PICK s, K : Pieces(s, K) /\ wire = FlattenSeq(s)
  BY InitPieces
<1>2. s \in Seq(Bytes) /\ Len(s) \in Nat /\ K \in 1 .. (Len(s) + 1)
  BY <1>1 DEF Pieces
<1>3. PICK B : Layout(wire, s, B)
  BY <1>1, <1>2, LayoutExists
<1>4. protocol \in Protocols /\ buffer = <<>> /\ got = <<>>
  BY DEF Init
<1>5. wire \in Bytes /\ B[0] = 0
  BY <1>3 DEF Layout
<1>6. wire = SubSeq(wire, 0 + 1, Len(wire)) /\ Len(wire) \in Nat /\ SubSeq(wire, 0 + 1, 0) = <<>>
  BY <1>5 DEF Bytes
<1>7. Window(wire, 0, Len(wire), wire) /\ Window(wire, B[0], 0, buffer)
  BY <1>4, <1>5, <1>6 DEF Window
<1>8. Answers(Order(0, K)) = <<>> /\ 0 \in 0 .. Len(s)
  <2>1. Order(0, K) = 0 /\ 0 \in 0 .. Len(s)
    BY <1>2 DEF Order
  <2>2. Answers(0) = <<>>
    BY DEF Answers
  <2> QED BY <2>1, <2>2
<1>9. AtPiece(wire, s, B, K, 0, 0, buffer, got)
  BY <1>4, <1>7, <1>8 DEF AtPiece
<1> QED BY <1>1, <1>3, <1>4, <1>7, <1>9 DEF SyncInv

\* The stream does not change.
LEMMA PiecesStay ==
  ASSUME NEW s, NEW K, Pieces(s, K), UNCHANGED <<protocol, noise, messages>>
  PROVE  Pieces(s, K)' /\ \A n : Answers(n)' = Answers(n)
BY DEF Pieces, Answers

\* Bytes that arrive change no boundary.
LEMMA SyncArrive ==
  ASSUME SyncInv, Arrive
  PROVE  SyncInv'
<1>1. PICK Z, s, B, K : /\ Pieces(s, K) /\ Layout(Z, s, B)
                        /\ \E j, e : /\ AtPiece(Z, s, B, K, j, e, buffer, got)
                                     /\ Window(Z, e, Len(Z), wire)
  BY DEF SyncInv
<1>2. PICK j, e : AtPiece(Z, s, B, K, j, e, buffer, got) /\ Window(Z, e, Len(Z), wire)
  BY <1>1
<1>3. PICK n \in 1 .. Len(wire) :
        buffer' = buffer \o SubSeq(wire, 1, n) /\ wire' = SubSeq(wire, n + 1, Len(wire))
  BY DEF Arrive
<1>4. Z \in Bytes /\ Window(Z, B[j], e, buffer)
  BY <1>1, <1>2 DEF Layout, AtPiece
<1>5. /\ Window(Z, B[j], e + n, buffer \o SubSeq(wire, 1, n))
      /\ Window(Z, e + n, Len(Z), SubSeq(wire, n + 1, Len(wire)))
  BY <1>2, <1>4, WindowWidens
<1>6. Window(Z, B[j], e + n, buffer') /\ Window(Z, e + n, Len(Z), wire')
  BY <1>3, <1>5, Zenon
<1>7. UNCHANGED <<protocol, noise, messages>> /\ got' = got
  BY DEF Arrive
<1>8. Pieces(s, K)' /\ Answers(Order(j, K))' = Answers(Order(j, K))
  BY <1>1, <1>7, PiecesStay
<1>9. AtPiece(Z, s, B, K, j, e + n, buffer, got)'
  BY <1>2, <1>6, <1>7, <1>8 DEF AtPiece
<1>10. protocol' \in Protocols
  BY <1>7 DEF SyncInv
<1> QED BY <1>1, <1>6, <1>8, <1>9, <1>10 DEF SyncInv

\* A read goes from a boundary to a boundary.
LEMMA SyncRead ==
  ASSUME SyncInv, Kept, Read
  PROVE  SyncInv'
<1>1. PICK Z, s, B, K : /\ Pieces(s, K) /\ Layout(Z, s, B)
                        /\ \E j, e : /\ AtPiece(Z, s, B, K, j, e, buffer, got)
                                     /\ Window(Z, e, Len(Z), wire)
  BY DEF SyncInv
<1>2. PICK j, e : AtPiece(Z, s, B, K, j, e, buffer, got) /\ Window(Z, e, Len(Z), wire)
  BY <1>1
<1>3. PICK stale : LET o == getValidBuffer(protocol, buffer, stale)
                   IN  /\ buffer' = o.rest /\ undefined' = ~o.defined
                       /\ got' = IF o.result = <<>> THEN got ELSE Append(got, o.result)
  BY ReadOutcome
<1> DEFINE o == getValidBuffer(protocol, buffer, stale)
<1>4. buffer' = o.rest /\ got' = Added(got, o)
  BY <1>3, Zenon DEF Added
<1>5. buffer # <<>> /\ UNCHANGED <<protocol, noise, messages>> /\ wire' = wire
  BY DEF Read
<1>6. protocol \in Protocols
  BY DEF SyncInv
<1>7. \E i : AtPiece(Z, s, B, K, i, e, o.rest, Added(got, o))
  BY <1>1, <1>2, <1>5, <1>6, ReadNext
<1> HIDE DEF o
<1>8. PICK i : AtPiece(Z, s, B, K, i, e, buffer', got')
  BY <1>4, <1>7, Zenon
<1>9. Pieces(s, K)' /\ Answers(Order(i, K))' = Answers(Order(i, K))
  BY <1>1, <1>5, PiecesStay
<1>10. AtPiece(Z, s, B, K, i, e, buffer, got)'
  BY <1>8, <1>9 DEF AtPiece
<1>11. Window(Z, e, Len(Z), wire)' /\ protocol' \in Protocols
  BY <1>2, <1>5, <1>6
<1> QED BY <1>1, <1>9, <1>10, <1>11 DEF SyncInv

\* The answers after n messages begin all of them.
LEMMA AnswersPrefix ==
  ASSUME protocol \in Protocols, messages \in Seq(Frames[protocol]),
         NEW n \in Nat, n <= Len(messages), got = Answers(n)
  PROVE  IsPrefix(got, Expected) /\ Within(got, Expected)
<1> DEFINE F(i) == Content(protocol, messages[i])
           N == Len(messages)
<1>0. N \in Nat /\ DOMAIN messages = 1 .. N
  OBVIOUS
<1>1. got \in Seq(Bytes) /\ Len(got) = n /\ \A i \in 1 .. n : got[i] = F(i)
  BY AnswersType
<1>2. Expected \in Seq(Bytes) /\ Len(Expected) = N /\ \A i \in 1 .. N : Expected[i] = F(i)
  <2>1. Expected = Answers(N)
    BY <1>0 DEF Expected, Answers
  <2>2. N <= Len(messages)
    BY <1>0
  <2>3. /\ Answers(N) \in Seq(Bytes) /\ Len(Answers(N)) = N
        /\ \A i \in 1 .. N : Answers(N)[i] = F(i)
    BY <1>0, <2>2, AnswersType
  <2> QED BY <2>1, <2>3
<1> HIDE DEF F
<1> DEFINE E == Expected
<1> HIDE DEF E
<1>3. E \in Seq(Bytes) /\ Len(E) = N /\ \A i \in 1 .. n : E[i] = got[i]
  BY <1>0, <1>1, <1>2 DEF E
<1>4. IsPrefix(got, E)
  <2>1. SubSeq(got, 1, n) = got
    BY <1>1
  <2>2. SubSeq(E, 1, n) = got
    BY <1>1, <1>3
  <2> QED BY <1>1, <1>3, <2>1, <2>2 DEF IsPrefix
<1>5. Within(got, E)
  <2> DEFINE f == [i \in 1 .. n |-> i]
  <2>1. DOMAIN got = 1 .. n /\ DOMAIN E = 1 .. N
    BY <1>1, <1>3
  <2>2. f \in [1 .. n -> 1 .. N] /\ \A i \in 1 .. n : f[i] = i
    BY <1>0
  <2> HIDE DEF f
  <2>3. \A i \in 1 .. n : got[i] = E[f[i]]
    BY <1>3, <2>2
  <2>4. \A i, j \in 1 .. n : i < j => f[i] < f[j]
    BY <2>2
  <2> QED BY <2>1, <2>2, <2>3, <2>4 DEF Within
<1> QED BY <1>4, <1>5 DEF E

\* What is returned at a boundary are the first messages.
LEMMA SyncPrefix ==
  ASSUME SyncInv
  PROVE  IsPrefix(got, Expected) /\ Within(got, Expected)
<1>1. PICK Z, s, B, K : /\ Pieces(s, K) /\ Layout(Z, s, B)
                        /\ \E j, e : /\ AtPiece(Z, s, B, K, j, e, buffer, got)
                                     /\ Window(Z, e, Len(Z), wire)
  BY DEF SyncInv
<1>2. PICK j, e : AtPiece(Z, s, B, K, j, e, buffer, got)
  BY <1>1
<1>3. j \in 0 .. Len(s) /\ got = Answers(Order(j, K))
  BY <1>2 DEF AtPiece
<1>4. /\ Len(s) \in Nat /\ K \in 1 .. (Len(s) + 1) /\ Len(messages) = Order(Len(s), K)
      /\ messages \in Seq(Frames[protocol])
  BY <1>1 DEF Pieces
<1>5. Order(j, K) \in Nat /\ Order(j, K) <= Len(messages)
  BY <1>3, <1>4 DEF Order
<1>6. protocol \in Protocols
  BY DEF SyncInv
<1> QED BY <1>3, <1>4, <1>5, <1>6, AnswersPrefix

-----------------------------------------------------------------------------
(***************************************************************************)
(* Reads that lose bytes with the noise, and find the start of a later     *)
(* message.                                                                *)
(***************************************************************************)

\* The parsers that drop what does not begin with a start mark.
Drops == protocol \in {"gigatms", "promag", "sciel"} /\ Noticed

StartMark(p) == IF p = "gigatms" THEN STX1 ELSE IF p = "promag" THEN STX ELSE Open

\* The parser finds what message there is behind the first k - 1 bytes.
FindsFrom(o, p, b, k) ==
  /\ b[k] = StartMark(p)
  /\ \A m : WellFormed(p, m) /\ Agree(SubSeq(b, k, Len(b)), m)
              => Finds(o, Content(p, m), SubSeq(b, k, Len(b)), m)

\* It returns nothing and leaves an end of the buffer, or finds a message that
\* begins with a start mark.
DropOutcome(o, p, b) ==
  \/ o.result = <<>> /\ Ends(o.rest, b)
  \/ \E k \in 1 .. Len(b) : FindsFrom(o, p, b, k)

\* Nothing is returned when all is left or dropped.
LEMMA NothingDrops ==
  ASSUME NEW b \in Bytes, NEW p, NEW o \in {Nothing(b), Dropped}
  PROVE  DropOutcome(o, p, b)
<1>1. Ends(o.rest, b)
  BY NothingSafe DEF Safe
<1>2. o.result = <<>>
  BY DEF Nothing, Dropped, Outcome
<1> QED BY <1>1, <1>2 DEF DropOutcome

\* A parser that finds messages at the head of the buffer.
LEMMA FindsAtHead ==
  ASSUME NEW b \in Bytes, b # <<>>, NEW p \in Protocols, NEW stale, b[1] = StartMark(p)
  PROVE  DropOutcome(getValidBuffer(p, b, stale), p, b)
<1> DEFINE o == getValidBuffer(p, b, stale)
<1>1. SubSeq(b, 1, Len(b)) = b /\ 1 \in 1 .. Len(b)
  BY DEF Bytes
<1>2. \A m : WellFormed(p, m) /\ Agree(b, m) => Finds(o, Content(p, m), b, m)
  BY ParserFinds
<1> HIDE DEF o
<1>3. FindsFrom(o, p, b, 1)
  BY <1>1, <1>2, Zenon DEF FindsFrom
<1>4. DropOutcome(o, p, b)
  BY <1>1, <1>3, Zenon DEF DropOutcome
<1> QED BY <1>4, Zenon DEF o

\* GigaTMS drops all that does not begin with its start mark.
LEMMA GigaTMSDrops ==
  ASSUME NEW b \in Bytes, b # <<>>, b[1] # STX1
  PROVE  GigaTMS(b) \in {Nothing(b), Dropped}
<1>1. GigaTMS(b) \in {Nothing(b), Dropped}
  BY Zenon DEF GigaTMS
<1> QED BY <1>1

\* Promag as well, when the byte is not that of an error message.
LEMMA PromagDrops ==
  ASSUME NEW b \in Bytes, b # <<>>, b[1] \notin {STX, ESC, BEL}
  PROVE  Promag(b) = Dropped
<1>1. b[1] \notin {ESC, BEL} /\ b[1] # STX
  BY Zenon
<1> QED BY <1>1, Zenon DEF Promag

\* SCIEL behind the line ends.
LEMMA ScielDrops ==
  ASSUME NEW b \in Bytes, b # <<>>
  PROVE  DropOutcome(Sciel(b), "sciel", b)
<1>1. PICK f : Skips(f, b, 1) /\ Sciel(b) = IF Len(b) < 2 THEN Nothing(b)
                                           ELSE ScielRest(SubSeq(b, f[1], Len(b)))
  BY ScielSkips
<1> DEFINE k == f[1]
           c == SubSeq(b, k, Len(b))
<1>2. k \in 1 .. (Len(b) + 1) /\ Len(b) \in Nat
  BY <1>1, SkipsInside DEF Bytes
<1>3. CASE Sciel(b) = Nothing(b)
  BY <1>3, NothingDrops
<1>4. CASE Sciel(b) = ScielRest(c)
  <2>0. Ends(c, b)
    BY <1>2, Zenon DEF Ends
  <2> HIDE DEF k
  <2>1. /\ c \in Bytes /\ Len(c) = (Len(b) - k) + 1
        /\ \A i \in 1 .. ((Len(b) - k) + 1) : c[i] = b[k + i - 1]
    <3>1. k \in Nat \ {0} /\ k <= Len(b) + 1 /\ Len(b) <= Len(b)
      BY <1>2
    <3> QED BY <1>2, <3>1, Part
  <2> HIDE DEF c
  <2>2. CASE Len(c) < 2
    <3>1. Sciel(b) = Nothing(c)
      BY <1>4, <2>2, Zenon DEF ScielRest
    <3>2. Nothing(c).result = <<>> /\ Nothing(c).rest = c
      BY DEF Nothing, Outcome
    <3> QED BY <2>0, <3>1, <3>2 DEF DropOutcome
  <2>3. CASE ~(Len(c) < 2) /\ c[1] # Open
    <3>1. Sciel(b) = Dropped
      BY <1>4, <2>3, Zenon DEF ScielRest
    <3> QED BY <3>1, NothingDrops
  <2>4. CASE ~(Len(c) < 2) /\ c[1] = Open
    <3>1. k \in 1 .. Len(b) /\ 1 \in 1 .. ((Len(b) - k) + 1) /\ k + 1 - 1 = k /\ c # <<>>
      BY <1>2, <2>1, <2>4
    <3>2. b[k] = Open
      <4>1. c[1] = b[k + 1 - 1]
        BY <2>1, <3>1
      <4> QED BY <2>4, <3>1, <4>1, Zenon
    <3>3. StartMark("sciel") = Open
      BY DEF StartMark
    <3>4. \A m : WellFormed("sciel", m) /\ Agree(c, m) => Finds(Sciel(b), m, c, m)
      BY <1>4, <2>1, <3>1, ScielRestFinds
    <3>5. \A m : Content("sciel", m) = m
      BY DEF Content
    <3>6. FindsFrom(Sciel(b), "sciel", b, k)
      <4> HIDE DEF StartMark
      <4> QED BY <3>2, <3>3, <3>4, <3>5, Zenon DEF FindsFrom, c
    <3> QED BY <3>1, <3>6, Zenon DEF DropOutcome
  <2> QED BY <2>2, <2>3, <2>4
<1> QED BY <1>1, <1>3, <1>4

\* The three parsers together.
LEMMA ParserDrops ==
  ASSUME NEW p \in {"gigatms", "promag", "sciel"}, NEW b \in Bytes, b # <<>>, NEW stale,
         p = "promag" => b[1] \notin {ESC, BEL}
  PROVE  DropOutcome(getValidBuffer(p, b, stale), p, b)
<1>0. p \in Protocols
  BY DEF Protocols, Frames
<1>1. CASE p = "gigatms"
  <2>1. getValidBuffer(p, b, stale) = GigaTMS(b) /\ StartMark(p) = STX1
    BY <1>1 DEF getValidBuffer, StartMark
  <2>2. CASE b[1] = STX1
    BY <1>0, <2>1, <2>2, FindsAtHead
  <2>3. CASE b[1] # STX1
    BY <2>1, <2>3, GigaTMSDrops, NothingDrops
  <2> QED BY <2>2, <2>3
<1>2. CASE p = "promag"
  <2>1. getValidBuffer(p, b, stale) = Promag(b) /\ StartMark(p) = STX
    BY <1>2 DEF getValidBuffer, StartMark
  <2>2. CASE b[1] = STX
    BY <1>0, <2>1, <2>2, FindsAtHead
  <2>3. CASE b[1] # STX
    <3>1. b[1] \notin {STX, ESC, BEL}
      BY <1>2, <2>3, Zenon
    <3> QED BY <2>1, <3>1, PromagDrops, NothingDrops
  <2> QED BY <2>2, <2>3
<1>3. CASE p = "sciel"
  <2>1. getValidBuffer(p, b, stale) = Sciel(b)
    BY <1>3 DEF getValidBuffer
  <2> QED BY <1>3, <2>1, ScielDrops
<1> QED BY <1>1, <1>2, <1>3

\* A start mark in the stream begins a message.
LEMMA MarkBegins ==
  ASSUME NEW Z, NEW s, NEW B, NEW K, Pieces(s, K), Layout(Z, s, B), protocol \in Protocols,
         Drops, NEW x \in 1 .. Len(Z), Z[x] = StartMark(protocol)
  PROVE  \E j \in 1 .. Len(s) : j # K /\ x = B[j - 1] + 1
<1>0. s \in Seq(Bytes)
  BY DEF Pieces
<1>1. PICK j, i : ByteOf(x, Z, s, B, j, i)
  BY <1>0, Locate
<1>2. j \in 1 .. Len(s) /\ i \in 1 .. Len(s[j]) /\ x = B[j - 1] + i /\ Z[x] = s[j][i]
  BY <1>1 DEF ByteOf
<1>3. j # K
  <2> SUFFICES ASSUME j = K PROVE FALSE
    OBVIOUS
  <2>1. s[j] = <<noise>>
    BY <1>2, PieceOrder
  <2>2. i = 1 /\ s[j][1] = noise
    BY <1>2, <2>1
  <2>3. noise = StartMark(protocol)
    BY <1>2, <2>2
  <2>4. noise # StartMark(protocol)
    BY DEF Drops, Noticed, StartMark, STX, STX1, Open
  <2> QED BY <2>3, <2>4
<1>4. WellFormed(protocol, s[j])
  BY <1>2, <1>3, PieceOrder
<1>5. i = 1
  <2> SUFFICES ASSUME i # 1 PROVE FALSE
    OBVIOUS
  <2>1. i \in 2 .. Len(s[j])
    BY <1>2, <1>4 DEF WellFormed, Bytes
  <2>2. s[j][i] = StartMark(protocol)
    BY <1>2
  <2>3. CASE protocol = "gigatms"
    BY <1>4, <2>1, <2>2, <2>3 DEF WellFormed, StartMark
  <2>4. CASE protocol = "promag"
    BY <1>4, <2>1, <2>2, <2>4 DEF WellFormed, StartMark
  <2>5. CASE protocol = "sciel"
    BY <1>4, <2>1, <2>2, <2>5 DEF WellFormed, StartMark
  <2> QED BY <2>3, <2>4, <2>5 DEF Drops
<1> QED BY <1>1, <1>2, <1>3, <1>5

\* No byte of the stream begins an error message of Promag.
LEMMA NoErrorMark ==
  ASSUME NEW Z, NEW s, NEW B, NEW K, Pieces(s, K), Layout(Z, s, B), protocol = "promag",
         Drops, NEW x \in 1 .. Len(Z)
  PROVE  Z[x] \notin {ESC, BEL}
<1>0. s \in Seq(Bytes) /\ protocol \in Protocols
  BY DEF Pieces, Protocols, Frames
<1>1. PICK j, i : ByteOf(x, Z, s, B, j, i)
  BY <1>0, Locate
<1>2. j \in 1 .. Len(s) /\ i \in 1 .. Len(s[j]) /\ x = B[j - 1] + i /\ Z[x] = s[j][i]
  BY <1>1 DEF ByteOf
<1>3. CASE j = K
  <2>1. s[j] = <<noise>>
    BY <1>0, <1>2, <1>3, PieceOrder
  <2>2. i = 1 /\ s[j][1] = noise
    BY <1>2, <2>1
  <2>3. noise \notin {ESC, BEL}
    BY DEF Drops, Noticed
  <2> QED BY <1>2, <2>2, <2>3
<1>4. CASE j # K
  <2>1. WellFormed(protocol, s[j])
    BY <1>0, <1>2, <1>4, PieceOrder
  <2>2. s[j] \in Bytes /\ s[j][1] = STX /\ \A k \in 2 .. Len(s[j]) : s[j][k] \notin {STX, ESC, BEL}
    BY <2>1 DEF WellFormed
  <2>3. i = 1 \/ i \in 2 .. Len(s[j])
    BY <1>2, <2>2 DEF Bytes
  <2>4. STX \notin {ESC, BEL}
    BY DEF STX, ESC, BEL
  <2>5. s[j][i] \notin {ESC, BEL}
    BY <2>2, <2>3, <2>4, Zenon
  <2> QED BY <1>2, <2>5, Zenon
<1> QED BY <1>3, <1>4

\* What was returned are messages of the stream that end within its first a
\* bytes, the i-th the h[i]-th piece.
Picked(s, B, K, h, a, g) ==
  /\ g \in Seq(Bytes) /\ h \in [1 .. Len(g) -> 1 .. Len(s)]
  /\ \A i \in 1 .. Len(g) : h[i] # K /\ B[h[i]] <= a /\ g[i] = Content(protocol, s[h[i]])
  /\ \A i, k \in 1 .. Len(g) : i < k => h[i] < h[k]

\* They still do when more of the stream is read.
LEMMA PickedLater ==
  ASSUME NEW Z, NEW s, NEW B, Layout(Z, s, B), NEW K, NEW h, NEW a \in Nat, NEW g,
         Picked(s, B, K, h, a, g), NEW d \in Nat, a <= d
  PROVE  Picked(s, B, K, h, d, g)
<1>1. B \in [0 .. Len(s) -> Nat]
  BY DEF Layout
<1>2. h \in [1 .. Len(g) -> 1 .. Len(s)] /\ \A i \in 1 .. Len(g) : B[h[i]] <= a
  BY DEF Picked
<1>3. \A x \in 0 .. Len(s) : B[x] <= a => B[x] <= d
  BY <1>1
<1>4. \A i \in 1 .. Len(g) : h[i] \in 0 .. Len(s)
  BY <1>2
<1>5. \A i \in 1 .. Len(g) : B[h[i]] <= d
  BY <1>2, <1>3, <1>4, Zenon
<1> QED BY <1>5 DEF Picked

\* A message behind them is added.
LEMMA PickedMore ==
  ASSUME NEW Z, NEW s \in Seq(Bytes), NEW B, Layout(Z, s, B), NEW K, NEW h, NEW a \in Nat,
         NEW g, Picked(s, B, K, h, a, g), NEW j \in 1 .. Len(s), j # K, a < B[j],
         Content(protocol, s[j]) \in Bytes
  PROVE  \E f : Picked(s, B, K, f, B[j], Append(g, Content(protocol, s[j])))
<1> DEFINE n == Len(g)
           x == Content(protocol, s[j])
           y == Append(g, x)
           f == [i \in 1 .. (n + 1) |-> IF i = n + 1 THEN j ELSE h[i]]
<1>1. /\ g \in Seq(Bytes) /\ n \in Nat /\ h \in [1 .. n -> 1 .. Len(s)]
      /\ \A i \in 1 .. n : h[i] # K /\ B[h[i]] <= a /\ g[i] = Content(protocol, s[h[i]])
      /\ \A i, k \in 1 .. n : i < k => h[i] < h[k]
  BY DEF Picked
<1>2. B \in [0 .. Len(s) -> Nat] /\ Len(s) \in Nat
  BY DEF Layout
<1>3. Picked(s, B, K, h, B[j], g)
  <2>1. B[j] \in Nat /\ a <= B[j]
    BY <1>2
  <2> QED BY <2>1, PickedLater
<1>4. \A i \in 1 .. n : h[i] < j
  <2> SUFFICES ASSUME NEW i \in 1 .. n, ~(h[i] < j) PROVE FALSE
    OBVIOUS
  <2>1. h[i] \in 0 .. Len(s) /\ j \in 0 .. Len(s) /\ j <= h[i]
    BY <1>1, <1>2
  <2>2. B[j] <= B[h[i]]
    <3> DEFINE k == h[i]
    <3>1. k \in 0 .. Len(s) /\ j <= k
      BY <2>1
    <3> HIDE DEF k
    <3>2. B[j] <= B[k]
      BY <2>1, <3>1, LayoutGrows
    <3> QED BY <3>2 DEF k
  <2>3. B[h[i]] <= a /\ B[j] \in Nat /\ B[h[i]] \in Nat
    BY <1>1, <1>2, <2>1
  <2> QED BY <2>2, <2>3
<1>5. \A i \in 1 .. n : B[h[i]] <= B[j]
  BY <1>3, Zenon DEF Picked
<1>5a. B[j] <= B[j]
  BY <1>2
<1> HIDE DEF x
<1>6. /\ y \in Seq(Bytes) /\ Len(y) = n + 1 /\ y[n + 1] = x
      /\ \A i \in 1 .. n : y[i] = g[i]
  BY <1>1 DEF x
<1> HIDE DEF y
<1>7. f \in [1 .. (n + 1) -> 1 .. Len(s)] /\ f[n + 1] = j /\ \A i \in 1 .. n : f[i] = h[i]
  BY <1>1
<1> HIDE DEF f
<1>8. ASSUME NEW i \in 1 .. (n + 1)
      PROVE  f[i] # K /\ B[f[i]] <= B[j] /\ y[i] = Content(protocol, s[f[i]])
  <2>1. CASE i = n + 1
    BY <1>5a, <1>6, <1>7, <2>1, Zenon DEF x
  <2>2. CASE i # n + 1
    <3>1. i \in 1 .. n
      BY <1>1, <2>2
    <3>2. f[i] = h[i] /\ y[i] = g[i]
      BY <1>6, <1>7, <3>1
    <3>3. h[i] # K /\ B[h[i]] <= B[j] /\ g[i] = Content(protocol, s[h[i]])
      BY <1>1, <1>5, <3>1, Zenon
    <3> QED BY <3>2, <3>3, Zenon
  <2> QED BY <2>1, <2>2
<1>9. ASSUME NEW i \in 1 .. (n + 1), NEW k \in 1 .. (n + 1), i < k PROVE f[i] < f[k]
  <2>1. i \in 1 .. n /\ f[i] = h[i]
    BY <1>1, <1>7, <1>9
  <2>2. CASE k = n + 1
    BY <1>4, <1>7, <2>1, <2>2, Zenon
  <2>3. CASE k # n + 1
    <3>1. k \in 1 .. n /\ f[k] = h[k]
      BY <1>1, <1>7, <2>3
    <3> QED BY <1>1, <1>9, <2>1, <3>1
  <2> QED BY <2>2, <2>3
<1>10. Picked(s, B, K, f, B[j], y)
  BY <1>6, <1>7, <1>8, <1>9 DEF Picked
<1> QED BY <1>10, Zenon DEF y, x

\* A place in the stream, and what was returned before it.
AtPlace(Z, s, B, K, a, e, h, b, g) == Window(Z, a, e, b) /\ Picked(s, B, K, h, a, g)

\* Nothing is returned, and an end of the buffer is left.
LEMMA DropsOn ==
  ASSUME NEW Z, NEW s, NEW B, NEW K, Layout(Z, s, B), NEW a, NEW e, NEW h, NEW b, NEW g,
         AtPlace(Z, s, B, K, a, e, h, b, g), NEW o, o.result = <<>>, Ends(o.rest, b)
  PROVE  \E d, f : AtPlace(Z, s, B, K, d, e, f, o.rest, Added(g, o))
<1>1. Z \in Bytes /\ Window(Z, a, e, b) /\ Picked(s, B, K, h, a, g)
  BY DEF AtPlace, Layout
<1>2. PICK k \in 1 .. (Len(b) + 1) : o.rest = SubSeq(b, k, Len(b))
  BY DEF Ends
<1> DEFINE d == a + k - 1
<1>3. Window(Z, d, e, o.rest)
  BY <1>1, <1>2, WindowEnds
<1>4. a \in Nat /\ d \in Nat /\ a <= d
  <2>1. a \in Nat
    BY <1>1, Zenon DEF Window
  <2>2. k \in Nat /\ k >= 1
    OBVIOUS
  <2> QED BY <2>1, <2>2
<1> HIDE DEF d
<1>5. Picked(s, B, K, h, d, g)
  BY <1>1, <1>4, PickedLater
<1>6. Added(g, o) = g
  BY DEF Added
<1>7. AtPlace(Z, s, B, K, d, e, h, o.rest, Added(g, o))
  BY <1>3, <1>5, <1>6 DEF AtPlace
<1> QED BY <1>7, Zenon

\* A read finds whole messages of the stream, later ones than before.
LEMMA ReadLater ==
  ASSUME NEW Z, NEW s, NEW B, NEW K, Pieces(s, K), Layout(Z, s, B), protocol \in Protocols,
         Drops, NEW a, NEW e, NEW h, NEW b, NEW g, AtPlace(Z, s, B, K, a, e, h, b, g),
         b # <<>>, NEW stale
  PROVE  LET o == getValidBuffer(protocol, b, stale)
         IN  \E d, f : AtPlace(Z, s, B, K, d, e, f, o.rest, Added(g, o))
<1> DEFINE o == getValidBuffer(protocol, b, stale)
<1>0. /\ s \in Seq(Bytes) /\ Len(s) \in Nat /\ Z \in Bytes /\ Len(Z) \in Nat
      /\ Window(Z, a, e, b) /\ Picked(s, B, K, h, a, g)
      /\ protocol \in {"gigatms", "promag", "sciel"}
  BY DEF Pieces, Layout, AtPlace, Drops, Bytes
<1>1. /\ b \in Bytes /\ Len(b) = e - a /\ \A i \in 1 .. (e - a) : b[i] = Z[a + i]
      /\ a \in Nat /\ e \in Nat /\ a <= e /\ e <= Len(Z)
  <2>1. a \in Nat /\ e \in Nat /\ a <= e /\ e <= Len(Z)
    BY <1>0, Zenon DEF Window
  <2>2. b \in Bytes /\ Len(b) = e - a /\ \A i \in 1 .. (e - a) : b[i] = Z[a + i]
    BY <1>0, WindowBytes
  <2> QED BY <2>1, <2>2, Zenon
<1>2. protocol = "promag" => b[1] \notin {ESC, BEL}
  <2> SUFFICES ASSUME protocol = "promag" PROVE b[1] \notin {ESC, BEL}
    OBVIOUS
  <2>0. Len(b) # 0
    BY <1>1 DEF Bytes
  <2>1. 1 \in 1 .. (e - a) /\ a + 1 \in 1 .. Len(Z)
    BY <1>0, <1>1, <2>0
  <2>2. Z[a + 1] \notin {ESC, BEL}
    BY <2>1, NoErrorMark
  <2> QED BY <1>1, <2>1, <2>2, Zenon
<1>3. DropOutcome(o, protocol, b)
  BY <1>0, <1>1, <1>2, ParserDrops
<1> HIDE DEF o
<1>4. CASE o.result = <<>> /\ Ends(o.rest, b)
  BY <1>4, DropsOn DEF o
<1>5. CASE \E k \in 1 .. Len(b) : FindsFrom(o, protocol, b, k)
  <2>1. PICK k \in 1 .. Len(b) : FindsFrom(o, protocol, b, k)
    BY <1>5
  <2> DEFINE c == SubSeq(b, k, Len(b))
             x == a + k
  <2>2. k \in 1 .. (e - a) /\ x \in 1 .. Len(Z) /\ k \in 1 .. (Len(b) + 1) /\ a + k - 1 \in Nat
        /\ a <= a + k - 1
    BY <1>0, <1>1
  <2>3. Z[x] = StartMark(protocol)
    <3>1. b[k] = Z[x]
      BY <1>1, <2>2
    <3> QED BY <2>1, <3>1, Zenon DEF FindsFrom
  <2>4. PICK j \in 1 .. Len(s) : j # K /\ x = B[j - 1] + 1
    <3> HIDE DEF x
    <3> QED BY <2>2, <2>3, MarkBegins
  <2>5. B[j - 1] \in Nat /\ B[j] \in Nat /\ B[j] = B[j - 1] + Len(s[j])
    <3>1. j - 1 \in 0 .. Len(s) /\ j \in 0 .. Len(s)
      BY <1>0
    <3> QED BY <3>1 DEF Layout
  <2>6. a + k - 1 = B[j - 1]
    <3>1. a + k = B[j - 1] + 1
      BY <2>4, Zenon
    <3>2. a \in Nat /\ k \in Nat /\ B[j - 1] \in Nat
      BY <1>1, <2>5
    <3> DEFINE t == B[j - 1]
    <3>3. a + k = t + 1 /\ t \in Nat
      BY <3>1, <3>2, Zenon
    <3> HIDE DEF t
    <3>4. a + k - 1 = t
      BY <3>2, <3>3
    <3> QED BY <3>4 DEF t
  <2>7. Window(Z, B[j - 1], e, c)
    <3>1. Window(Z, a + k - 1, e, c)
      BY <1>0, <2>2, WindowEnds
    <3> QED BY <2>6, <3>1, Zenon
  <2>8. WellFormed(protocol, s[j])
    BY <2>4, PieceOrder
  <2> HIDE DEF c, x
  <2>9. Agree(c, s[j])
    BY <2>7, HeadAgrees
  <2>10. Finds(o, Content(protocol, s[j]), c, s[j])
    BY <2>1, <2>8, <2>9, Zenon DEF FindsFrom, c
  <2>11. CASE o = Nothing(c) \/ o = Outcome(<<>>, c, FALSE)
    <3>1. o.result = <<>> /\ o.rest = c
      BY <2>11 DEF Nothing, Outcome
    <3>2. Ends(o.rest, b)
      BY <2>2, <3>1, Zenon DEF Ends, c
    <3> QED BY <3>1, <3>2, DropsOn DEF o
  <2>12. CASE Len(s[j]) <= Len(c) /\ o = Outcome(Content(protocol, s[j]), Behind(c, s[j]), TRUE)
    <3> DEFINE l == Len(s[j]) + 1
               r == Content(protocol, s[j])
    <3>1. o.result = r /\ o.rest = SubSeq(c, l, Len(c))
      BY <2>12 DEF Outcome, Behind
    <3>2. r \in Bytes /\ r # <<>>
      BY <2>8, ContentOK
    <3>3. s[j] \in Bytes /\ s[j] # <<>> /\ c \in Bytes
      BY <1>0, <2>7, <2>8, WindowBytes DEF WellFormed
    <3>4. Len(s[j]) \in Nat \ {0} /\ Len(c) \in Nat
      BY <3>3 DEF Bytes
    <3>5. l \in 1 .. (Len(c) + 1) /\ B[j - 1] + l - 1 = B[j]
      BY <2>5, <2>12, <3>4
    <3>6. a < B[j]
      <4>1. a <= B[j - 1]
        BY <2>2, <2>6, Zenon
      <4> DEFINE t == B[j - 1]
                 u == B[j]
                 n == Len(s[j])
      <4>2. a \in Nat /\ t \in Nat /\ u \in Nat /\ n \in Nat \ {0} /\ a <= t /\ u = t + n
        BY <1>1, <2>5, <3>4, <4>1, Zenon
      <4> HIDE DEF t, u, n
      <4>3. a < u
        BY <4>2
      <4> QED BY <4>3 DEF u
    <3> HIDE DEF l
    <3>7. Window(Z, B[j], e, o.rest)
      <4>1. Window(Z, B[j - 1] + l - 1, e, SubSeq(c, l, Len(c)))
        BY <1>0, <2>7, <3>5, WindowEnds
      <4> QED BY <3>1, <3>5, <4>1, Zenon
    <3>8. Added(g, o) = Append(g, r)
      BY <3>1, <3>2 DEF Added
    <3>9. PICK f : Picked(s, B, K, f, B[j], Append(g, r))
      BY <1>0, <1>1, <2>4, <3>2, <3>6, PickedMore
    <3> HIDE DEF r
    <3>10. AtPlace(Z, s, B, K, B[j], e, f, o.rest, Added(g, o))
      BY <3>7, <3>8, <3>9, Zenon DEF AtPlace
    <3> QED BY <3>10, Zenon DEF o
  <2> QED BY <2>10, <2>11, <2>12 DEF Finds
<1> QED BY <1>3, <1>4, <1>5 DEF DropOutcome

\* What has been read and returned, at any place of the stream.
DropInv ==
  /\ protocol \in Protocols
  /\ \E Z, s, B, K :
       /\ Pieces(s, K) /\ Layout(Z, s, B)
       /\ \E a, e, h : AtPlace(Z, s, B, K, a, e, h, buffer, got) /\ Window(Z, e, Len(Z), wire)

\* At the start nothing is read.
LEMMA DropInit ==
  ASSUME Init, noise # Burst
  PROVE  DropInv
<1>0. SyncInv
  BY SyncInit
<1>1. PICK Z, s, B, K : /\ Pieces(s, K) /\ Layout(Z, s, B)
                        /\ \E j, e : /\ AtPiece(Z, s, B, K, j, e, buffer, got)
                                     /\ Window(Z, e, Len(Z), wire)
  BY <1>0 DEF SyncInv
<1>2. PICK j, e : AtPiece(Z, s, B, K, j, e, buffer, got) /\ Window(Z, e, Len(Z), wire)
  BY <1>1
<1>3. protocol \in Protocols /\ got = <<>>
  BY DEF Init
<1> DEFINE h == [i \in 1 .. 0 |-> 1]
<1>4. Picked(s, B, K, h, B[j], got)
  <2>1. got \in Seq(Bytes) /\ Len(got) = 0 /\ 1 .. 0 = {}
    BY <1>3
  <2>2. h \in [1 .. 0 -> 1 .. Len(s)]
    OBVIOUS
  <2> HIDE DEF h
  <2> QED BY <2>1, <2>2 DEF Picked
<1> HIDE DEF h
<1>5. AtPlace(Z, s, B, K, B[j], e, h, buffer, got)
  BY <1>2, <1>4 DEF AtPiece, AtPlace
<1> QED BY <1>1, <1>2, <1>3, <1>5 DEF DropInv

\* Bytes that arrive change nothing of it.
LEMMA DropArrive ==
  ASSUME DropInv, Arrive
  PROVE  DropInv'
<1>1. PICK Z, s, B, K : /\ Pieces(s, K) /\ Layout(Z, s, B)
                        /\ \E a, e, h : /\ AtPlace(Z, s, B, K, a, e, h, buffer, got)
                                        /\ Window(Z, e, Len(Z), wire)
  BY DEF DropInv
<1>2. PICK a, e, h : AtPlace(Z, s, B, K, a, e, h, buffer, got) /\ Window(Z, e, Len(Z), wire)
  BY <1>1
<1>3. PICK n \in 1 .. Len(wire) :
        buffer' = buffer \o SubSeq(wire, 1, n) /\ wire' = SubSeq(wire, n + 1, Len(wire))
  BY DEF Arrive
<1>4. Z \in Bytes /\ Window(Z, a, e, buffer) /\ Picked(s, B, K, h, a, got)
  BY <1>1, <1>2 DEF Layout, AtPlace
<1>5. /\ Window(Z, a, e + n, buffer \o SubSeq(wire, 1, n))
      /\ Window(Z, e + n, Len(Z), SubSeq(wire, n + 1, Len(wire)))
  BY <1>2, <1>4, WindowWidens
<1>6. Window(Z, a, e + n, buffer') /\ Window(Z, e + n, Len(Z), wire')
  BY <1>3, <1>5, Zenon
<1>7. UNCHANGED <<protocol, noise, messages>> /\ got' = got
  BY DEF Arrive
<1>8. Pieces(s, K)'
  BY <1>1, <1>7, PiecesStay
<1>9. Picked(s, B, K, h, a, got)'
  BY <1>4, <1>7 DEF Picked
<1>10. AtPlace(Z, s, B, K, a, e + n, h, buffer, got)'
  BY <1>6, <1>9 DEF AtPlace
<1>11. protocol' \in Protocols
  BY <1>7 DEF DropInv
<1> QED BY <1>1, <1>6, <1>8, <1>10, <1>11 DEF DropInv

\* A read finds later messages, or none.
LEMMA DropRead ==
  ASSUME DropInv, Drops, Read
  PROVE  DropInv'
<1>1. PICK Z, s, B, K : /\ Pieces(s, K) /\ Layout(Z, s, B)
                        /\ \E a, e, h : /\ AtPlace(Z, s, B, K, a, e, h, buffer, got)
                                        /\ Window(Z, e, Len(Z), wire)
  BY DEF DropInv
<1>2. PICK a, e, h : AtPlace(Z, s, B, K, a, e, h, buffer, got) /\ Window(Z, e, Len(Z), wire)
  BY <1>1
<1>3. PICK stale : LET o == getValidBuffer(protocol, buffer, stale)
                   IN  /\ buffer' = o.rest /\ undefined' = ~o.defined
                       /\ got' = IF o.result = <<>> THEN got ELSE Append(got, o.result)
  BY ReadOutcome
<1> DEFINE o == getValidBuffer(protocol, buffer, stale)
<1>4. buffer' = o.rest /\ got' = Added(got, o)
  BY <1>3, Zenon DEF Added
<1>5. buffer # <<>> /\ UNCHANGED <<protocol, noise, messages>> /\ wire' = wire
  BY DEF Read
<1>6. protocol \in Protocols
  BY DEF DropInv
<1>7. \E d, f : AtPlace(Z, s, B, K, d, e, f, o.rest, Added(got, o))
  BY <1>1, <1>2, <1>5, <1>6, ReadLater
<1> HIDE DEF o
<1>8. PICK d, f : AtPlace(Z, s, B, K, d, e, f, buffer', got')
  BY <1>4, <1>7, Zenon
<1>9. Pieces(s, K)'
  BY <1>1, <1>5, PiecesStay
<1>10. AtPlace(Z, s, B, K, d, e, f, buffer, got)'
  BY <1>5, <1>8 DEF AtPlace, Picked
<1>11. Window(Z, e, Len(Z), wire)' /\ protocol' \in Protocols
  BY <1>2, <1>5, <1>6
<1> QED BY <1>1, <1>9, <1>10, <1>11 DEF DropInv

\* What is returned are messages of the device in their order.
LEMMA DropWithin ==
  ASSUME DropInv
  PROVE  Within(got, Expected)
<1>1. PICK Z, s, B, K : /\ Pieces(s, K) /\ Layout(Z, s, B)
                        /\ \E a, e, h : AtPlace(Z, s, B, K, a, e, h, buffer, got)
  BY DEF DropInv
<1>2. PICK a, e, h : AtPlace(Z, s, B, K, a, e, h, buffer, got)
  BY <1>1
<1>3. /\ got \in Seq(Bytes) /\ h \in [1 .. Len(got) -> 1 .. Len(s)] /\ Len(got) \in Nat
      /\ \A i \in 1 .. Len(got) : h[i] # K /\ got[i] = Content(protocol, s[h[i]])
      /\ \A i, k \in 1 .. Len(got) : i < k => h[i] < h[k]
  BY <1>2 DEF AtPlace, Picked
<1>4. protocol \in Protocols /\ Len(s) \in Nat /\ K \in Nat
  BY <1>1 DEF DropInv, Pieces
<1> DEFINE n == Len(got)
           N == Len(messages)
           E == Expected
           f == [i \in 1 .. n |-> Order(h[i], K)]
<1>5. N \in Nat /\ DOMAIN E = 1 .. N /\ \A i \in 1 .. N : E[i] = Content(protocol, messages[i])
  <2>1. messages \in Seq(Frames[protocol])
    BY <1>1 DEF Pieces
  <2>2. DOMAIN messages = 1 .. N /\ N \in Nat
    BY <2>1
  <2> QED BY <2>2 DEF Expected
<1>6. \A j \in 1 .. Len(s) : j # K => Order(j, K) \in 1 .. N /\ s[j] = messages[Order(j, K)]
  BY <1>1, <1>4, PieceOrder
<1>7. \A i, j \in 1 .. Len(s) : i # K /\ j # K /\ i < j => Order(i, K) < Order(j, K)
  BY <1>4 DEF Order
<1> HIDE DEF E, N
<1>8. \A i \in 1 .. n : f[i] = Order(h[i], K) /\ h[i] \in 1 .. Len(s) /\ h[i] # K
  BY <1>3
<1>9. f \in [1 .. n -> 1 .. N]
  <2>1. \A i \in 1 .. n : Order(h[i], K) \in 1 .. N
    BY <1>6, <1>8, Zenon
  <2> QED BY <2>1
<1>10. DOMAIN got = 1 .. n
  BY <1>3
<1> HIDE DEF f
<1>11. \A i \in 1 .. n : got[i] = E[f[i]]
  <2> SUFFICES ASSUME NEW i \in 1 .. n PROVE got[i] = E[f[i]]
    OBVIOUS
  <2>1. got[i] = Content(protocol, s[h[i]])
    BY <1>3
  <2>2. s[h[i]] = messages[Order(h[i], K)] /\ Order(h[i], K) \in 1 .. N
    BY <1>6, <1>8, Zenon
  <2>3. E[f[i]] = Content(protocol, messages[Order(h[i], K)])
    BY <1>5, <1>8, <2>2, Zenon
  <2> QED BY <2>1, <2>2, <2>3, Zenon
<1>12. \A i, k \in 1 .. n : i < k => f[i] < f[k]
  <2> SUFFICES ASSUME NEW i \in 1 .. n, NEW k \in 1 .. n, i < k PROVE f[i] < f[k]
    OBVIOUS
  <2>1. h[i] < h[k]
    BY <1>3
  <2>2. Order(h[i], K) < Order(h[k], K)
    BY <1>7, <1>8, <2>1, Zenon
  <2> QED BY <1>8, <2>2, Zenon
<1> HIDE DEF n
<1>13. Within(got, E)
  BY <1>5, <1>9, <1>10, <1>11, <1>12, Zenon DEF Within
<1> QED BY <1>13 DEF E

\* What the reads keep: the boundaries while noise costs nothing, and the order of
\* the messages when bytes are dropped with it.
SentInv == (Kept => SyncInv) /\ (Drops => DropInv)

\* However the bytes are cut into chunks, what read returns are the messages of
\* the device, whole and in order, for every number of messages and every byte of
\* noise that a parser removes or notices (MessagesAsSent).
THEOREM MessagesAsSentHolds == Spec => []MessagesAsSent
<1>1. Init => SentInv
  <2>1. Kept \/ Drops => noise # Burst
    <3>1. NoNoise # Burst
      BY DEF NoNoise, Burst
    <3>2. protocol = "sciel" /\ noise = CR => noise # Burst
      BY DEF CR, Burst
    <3> QED BY <3>1, <3>2, Zenon DEF Kept, Drops, Tolerated, Noticed
  <2> QED BY <2>1, SyncInit, DropInit DEF SentInv
<1>2. SentInv /\ [Next]_vars => SentInv'
  <2> SUFFICES ASSUME SentInv, [Next]_vars PROVE SentInv'
    OBVIOUS
  <2>1. Kept' = Kept /\ Drops' = Drops
    <3>1. UNCHANGED <<protocol, noise>>
      BY DEF Next, Arrive, Read, vars
    <3> QED BY <3>1 DEF Kept, Drops, Tolerated, Noticed
  <2>2. CASE Arrive
    BY <2>1, <2>2, SyncArrive, DropArrive DEF SentInv
  <2>3. CASE Read
    BY <2>1, <2>3, SyncRead, DropRead DEF SentInv
  <2>4. CASE UNCHANGED vars
    <3>1. SyncInv' = SyncInv
      BY <2>4 DEF vars, SyncInv, Pieces, AtPiece, Answers
    <3>2. DropInv' = DropInv
      BY <2>4 DEF vars, DropInv, Pieces, AtPlace, Picked
    <3> QED BY <2>1, <3>1, <3>2 DEF SentInv
  <2> QED BY <2>2, <2>3, <2>4 DEF Next
<1>3. SentInv => MessagesAsSent
  <2> SUFFICES ASSUME SentInv PROVE MessagesAsSent
    OBVIOUS
  <2>1. Tolerated => IsPrefix(got, Expected)
    BY SyncPrefix DEF SentInv, Kept
  <2>2. Noticed => Kept \/ Drops
    BY DEF Noticed, Kept, Drops
  <2>3. Noticed => Within(got, Expected)
    BY <2>2, SyncPrefix, DropWithin DEF SentInv
  <2> QED BY <2>1, <2>3 DEF MessagesAsSent
<1> QED BY <1>1, <1>2, <1>3, PTL DEF Spec

=============================================================================
