----------------------------- MODULE CodecProofs -----------------------------
(***************************************************************************)
(* Proofs about base64.c and vcdiff.c.                                     *)
(*                                                                         *)
(* base64.c, for texts of any length: the decoder gives back what the      *)
(* encoder wrote, and of any other text it accepts it reads the very bits. *)
(*                                                                         *)
(* vcdiff.c, for sources, texts and deltas of any length below the limits  *)
(* of VcdiffAssumption: ably_vcdiff_decode makes of a delta the text it    *)
(* stands for (DeltaIsDecoded), and refuses a delta that is cut off or     *)
(* whose base is not at hand (UnfitIsRefused).  The inductive invariant is *)
(* EncInv: what the decoder's loops read of the windows written so far and *)
(* of the open one, whatever bytes follow.                                 *)
(***************************************************************************)
EXTENDS Base64, Vcdiff, FiniteSetTheorems, SequenceTheorems, WellFoundedInduction, TLAPS

LEMMA MinIn ==
  ASSUME NEW S, S \subseteq Nat, S # {}
  PROVE  Min(S) \in S /\ \A y \in S : Min(S) <= y
<1> DEFINE Below == OpToRel(<, Nat)
<1>1. IsWellFoundedOn(Below, Nat)
  BY NatLessThanWellFounded
<1>2. \A x, y \in Nat : x < y => <<x, y>> \in Below
  BY DEF OpToRel
<1> HIDE DEF Below
<1>3. PICK x \in S : \A y \in S : <<y, x>> \notin Below
  BY <1>1, WFMin
<1>4. \A y \in S : x <= y
  <2> TAKE y \in S
  <2>1. x \in Nat /\ y \in Nat
    OBVIOUS
  <2>2. ~(y < x)
    BY <1>2, <1>3, <2>1, Zenon
  <2>3. QED
    BY <2>1, <2>2
<1>5. \E z \in S : \A y \in S : z <= y
  BY <1>4
<1>6. QED
  BY <1>5 DEF Min

\* Induction over the naturals, for the set of those that have the property.
LEMMA NatInduct ==
  ASSUME NEW S, 0 \in S, \A n \in Nat : n \in S => n + 1 \in S
  PROVE  \A n \in Nat : n \in S
<1> DEFINE bad == {n \in Nat : n \notin S}
<1>1. SUFFICES ASSUME bad # {} PROVE FALSE
  OBVIOUS
<1>2. PICK z \in bad : \A y \in bad : z <= y
  BY <1>1, MinIn, bad \subseteq Nat
<1>3. z # 0 /\ z \in Nat
  BY <1>2
<1>4. z - 1 \in Nat /\ ~(z <= z - 1)
  BY <1>3
<1>5. z - 1 \in S
  BY <1>2, <1>4
<1>6. z \in S
  BY <1>3, <1>4, <1>5
<1>7. QED
  BY <1>2, <1>6

\* A set of naturals with a bound has a greatest element, and Max is it.
LEMMA MaxOf ==
  ASSUME NEW n \in Nat, NEW S, S \subseteq 0 .. n, S # {}
  PROVE  Max(S) \in S /\ \A y \in S : y <= Max(S)
<1> DEFINE T == {n - y : y \in S}
<1>1. T \subseteq Nat /\ T # {}
  <2>1. \A y \in S : n - y \in Nat
    OBVIOUS
  <2>2. QED
    BY <2>1
<1>2. PICK m \in T : \A y \in T : m <= y
  BY <1>1, MinIn
<1>3. PICK x \in S : m = n - x
  BY <1>2
<1>4. \A y \in S : x >= y
  <2>1. TAKE y \in S
  <2>2. n - y \in T
    OBVIOUS
  <2>3. m <= n - y /\ y \in Nat /\ x \in Nat
    BY <1>2, <2>2
  <2>4. QED
    BY <1>3, <2>3
<1>5. Max(S) \in S /\ \A y \in S : Max(S) >= y
  BY <1>3, <1>4 DEF Max
<1>6. QED
  BY <1>5

\* The two parts of a concatenation.
LEMMA PartsOfConcat ==
  ASSUME NEW S, NEW s \in Seq(S), NEW t \in Seq(S)
  PROVE  /\ SubSeq(s \o t, 1, Len(s)) = s
         /\ SubSeq(s \o t, Len(s) + 1, Len(s) + Len(t)) = t
<1> DEFINE u == s \o t
<1>1. Len(s) \in Nat /\ Len(t) \in Nat
  OBVIOUS
<1>2. /\ u \in Seq(S) /\ Len(u) = Len(s) + Len(t)
      /\ \A i \in 1 .. Len(s) + Len(t) : u[i] = IF i <= Len(s) THEN s[i] ELSE t[i - Len(s)]
  BY ConcatProperties
<1> HIDE DEF u
<1>3. SubSeq(u, 1, Len(s)) = s
  <2> DEFINE v == SubSeq(u, 1, Len(s))
  <2>1. v \in Seq(S) /\ Len(v) = Len(s) /\ \A i \in 1 .. Len(s) : v[i] = u[i]
    BY <1>1, <1>2
  <2>2. \A i \in 1 .. Len(v) : v[i] = s[i]
    BY <1>1, <1>2, <2>1
  <2> HIDE DEF v
  <2>3. v = s
    BY <2>1, <2>2, SeqEqual
  <2>4. QED
    BY <2>3 DEF v
<1>4. SubSeq(u, Len(s) + 1, Len(s) + Len(t)) = t
  <2> DEFINE v == SubSeq(u, Len(s) + 1, Len(s) + Len(t))
  <2>1. /\ v \in Seq(S) /\ Len(v) = Len(t)
        /\ \A i \in 1 .. Len(t) : v[i] = u[Len(s) + i]
    BY <1>1, <1>2
  <2> HIDE DEF v
  <2>2. \A i \in 1 .. Len(v) : v[i] = t[i]
    <3>1. TAKE i \in 1 .. Len(v)
    <3>2. /\ i \in 1 .. Len(t) /\ Len(s) + i \in 1 .. Len(s) + Len(t)
          /\ ~(Len(s) + i <= Len(s)) /\ (Len(s) + i) - Len(s) = i
      BY <1>1, <2>1
    <3>3. QED
      BY <1>2, <2>1, <3>2
  <2>3. v = t
    BY <2>1, <2>2, SeqEqual
  <2>4. QED
    BY <2>3 DEF v
<1>5. QED
  BY <1>3, <1>4 DEF u
-----------------------------------------------------------------------------
\* The states of the decoder's loop, one for each group it has read.
Chain(f, src, n, cap) ==
  f = [i \in 0 .. n |-> IF i = 0 THEN More(<<>>) ELSE NextGroup(f[i - 1], src, i, cap)]

LEMMA ChainStep ==
  ASSUME NEW src, NEW cap, NEW n \in Nat, NEW g, Chain(g, src, n, cap)
  PROVE  \E h : Chain(h, src, n + 1, cap)
<1> DEFINE h == [i \in 0 .. n + 1 |-> IF i = n + 1 THEN NextGroup(g[n], src, i, cap) ELSE g[i]]
<1>1. g = [i \in 0 .. n |-> IF i = 0 THEN More(<<>>) ELSE NextGroup(g[i - 1], src, i, cap)]
  BY DEF Chain
<1>2. ASSUME NEW i \in 0 .. n + 1
      PROVE  h[i] = IF i = 0 THEN More(<<>>) ELSE NextGroup(h[i - 1], src, i, cap)
  <2>1. CASE i = n + 1
    <3>1. i - 1 = n /\ n \in 0 .. n + 1 /\ n # n + 1 /\ i # 0
      BY <2>1
    <3>2. h[i - 1] = g[n] /\ h[i] = NextGroup(g[n], src, i, cap)
      BY <2>1, <3>1
    <3>3. QED
      BY <3>1, <3>2
  <2>2. CASE i # n + 1
    <3>1. i \in 0 .. n /\ h[i] = g[i]
      BY <2>2
    <3>2. g[i] = IF i = 0 THEN More(<<>>) ELSE NextGroup(g[i - 1], src, i, cap)
      BY <1>1, <3>1
    <3>3. CASE i = 0
      BY <3>1, <3>2, <3>3
    <3>4. CASE i # 0
      <4>1. i - 1 \in 0 .. n + 1 /\ i - 1 # n + 1
        BY <3>1, <3>4
      <4>2. h[i - 1] = g[i - 1]
        BY <4>1
      <4>3. QED
        BY <3>1, <3>2, <3>4, <4>2
    <3>5. QED
      BY <3>3, <3>4
  <2>3. QED
    BY <2>1, <2>2
<1>3. h = [i \in 0 .. n + 1 |-> h[i]]
  OBVIOUS
<1> HIDE DEF h
<1>4. [i \in 0 .. n + 1 |-> h[i]]
        = [i \in 0 .. n + 1 |-> IF i = 0 THEN More(<<>>) ELSE NextGroup(h[i - 1], src, i, cap)]
  BY <1>2
<1>5. Chain(h, src, n + 1, cap)
  BY <1>3, <1>4 DEF Chain
<1>6. QED
  BY <1>5

LEMMA ChainExists ==
  ASSUME NEW src, NEW cap
  PROVE  \A n \in Nat : \E f : Chain(f, src, n, cap)
<1> DEFINE S == {n \in Nat : \E f : Chain(f, src, n, cap)}
<1>1. 0 \in S
  <2> DEFINE h == [i \in 0 .. 0 |-> More(<<>>)]
  <2>1. h = [i \in 0 .. 0 |-> IF i = 0 THEN More(<<>>) ELSE NextGroup(h[i - 1], src, i, cap)]
    OBVIOUS
  <2>2. Chain(h, src, 0, cap)
    BY <2>1 DEF Chain
  <2>3. QED
    BY <2>2
<1>2. \A n \in Nat : n \in S => n + 1 \in S
  BY ChainStep
<1> HIDE DEF S
<1>3. \A n \in Nat : n \in S
  BY <1>1, <1>2, NatInduct
<1>4. QED
  BY <1>3 DEF S

\* Groups is the last state of that chain.
LEMMA GroupsChain ==
  ASSUME NEW src, NEW cap, Len(src) \in Nat
  PROVE  \E f : Chain(f, src, Len(src) \div 4, cap) /\ Groups(src, cap) = f[Len(src) \div 4]
<1> DEFINE N == Len(src) \div 4
           f == CHOOSE g : g = [n \in 0 .. N |-> IF n = 0 THEN More(<<>>)
                                                 ELSE NextGroup(g[n - 1], src, n, cap)]
<1>1. Groups(src, cap) = f[N]
  BY DEF Groups
<1>2. N \in Nat
  OBVIOUS
<1>3. \E g : g = [n \in 0 .. N |-> IF n = 0 THEN More(<<>>)
                                   ELSE NextGroup(g[n - 1], src, n, cap)]
  <2>1. \E g : Chain(g, src, N, cap)
    BY <1>2, ChainExists
  <2>2. QED
    BY <2>1 DEF Chain
<1>4. Chain(f, src, N, cap)
  BY <1>3 DEF Chain
<1>5. QED
  BY <1>1, <1>4

\* Its first state, and each of the others.
ChainTurns(f, src, N, cap) ==
  /\ f[0] = More(<<>>)
  /\ \A n \in 0 .. N - 1 : f[n + 1] = NextGroup(f[n], src, n + 1, cap)

LEMMA ChainTurn ==
  ASSUME NEW src, NEW cap, NEW N \in Nat, NEW f, Chain(f, src, N, cap)
  PROVE  ChainTurns(f, src, N, cap)
<1>1. f = [i \in 0 .. N |-> IF i = 0 THEN More(<<>>) ELSE NextGroup(f[i - 1], src, i, cap)]
  BY DEF Chain
<1>2. f[0] = More(<<>>)
  BY <1>1
<1>3. ASSUME NEW n \in 0 .. N - 1 PROVE f[n + 1] = NextGroup(f[n], src, n + 1, cap)
  <2>1. n + 1 \in 0 .. N /\ n + 1 # 0 /\ (n + 1) - 1 = n
    OBVIOUS
  <2>2. f[n + 1] = NextGroup(f[(n + 1) - 1], src, n + 1, cap)
    BY <1>1, <2>1
  <2>3. QED
    BY <2>1, <2>2
<1>4. QED
  BY <1>2, <1>3, Zenon DEF ChainTurns

-----------------------------------------------------------------------------
(* What is encoded.                                                        *)

Byte == 0 .. 255

\* The four characters of three bytes, and the three bytes they are read as.
LEMMA GroupBack ==
  ASSUME NEW x \in Byte, NEW y \in Byte, NEW z \in Byte,
         NEW a, a = x \div 4, NEW b, b = ((x % 4) * 16) + (y \div 16),
         NEW c, c = ((y % 16) * 4) + (z \div 64), NEW d, d = z % 64
  PROVE  /\ a \in 0 .. 63 /\ b \in 0 .. 63 /\ c \in 0 .. 63 /\ d \in 0 .. 63
         /\ ((a * 4) % 256) + (b \div 16) = x
         /\ ((b * 16) % 256) + (c \div 4) = y
         /\ ((c * 64) % 256) + d = z
<1>1. x \in 0 .. 255 /\ y \in 0 .. 255 /\ z \in 0 .. 255
  BY DEF Byte
<1>2. a \in 0 .. 63 /\ b \in 0 .. 63
  BY <1>1
<1>3. c \in 0 .. 63 /\ d \in 0 .. 63
  BY <1>1
<1>4. ((a * 4) % 256) + (b \div 16) = x
  BY <1>1
<1>5. ((b * 16) % 256) + (c \div 4) = y
  BY <1>1
<1>6. ((c * 64) % 256) + d = z
  BY <1>1
<1>7. QED
  BY <1>2, <1>3, <1>4, <1>5, <1>6

\* The characters of the group behind the first 3n bytes.
CodeOf(code, b, n) ==
  LET x == b[3 * n + 1]
      y == ByteAt(b, 3 * n + 2)
      z == ByteAt(b, 3 * n + 3)
  IN /\ code[4 * n + 1] = x \div 4
     /\ code[4 * n + 2] = ((x % 4) * 16) + (y \div 16)
     /\ code[4 * n + 3] = IF 3 * n + 2 > Len(b) THEN Pad ELSE ((y % 16) * 4) + (z \div 64)
     /\ code[4 * n + 4] = IF 3 * n + 3 > Len(b) THEN Pad ELSE z % 64

LEMMA CodeChars ==
  ASSUME NEW b \in Seq(Byte), NEW n \in Nat, 3 * n < Len(b)
  PROVE  CodeOf(ably_base64_encode(b), b, n)
<1> DEFINE code == ably_base64_encode(b)
           x == b[3 * n + 1]
           y == ByteAt(b, 3 * n + 2)
           z == ByteAt(b, 3 * n + 3)
           Char(k) == LET g == 3 * ((k - 1) \div 4)
                          j == ((k - 1) % 4) + 1
                      IN IF g + j > Len(b) + 1 THEN Pad
                         ELSE Group(ByteAt(b, g + 1), ByteAt(b, g + 2), ByteAt(b, g + 3))[j]
<1>1. code = [k \in 1 .. 4 * ((Len(b) + 2) \div 3) |-> Char(k)]
  BY DEF ably_base64_encode
<1>2. Len(b) \in Nat
  OBVIOUS
<1>3. \A i \in 1 .. 4 : /\ 4 * n + i \in 1 .. 4 * ((Len(b) + 2) \div 3)
                        /\ ((4 * n + i) - 1) \div 4 = n
                        /\ (((4 * n + i) - 1) % 4) + 1 = i
  BY <1>2
<1>4. ByteAt(b, 3 * n + 1) = x
  BY <1>2 DEF ByteAt
<1>5. ASSUME NEW i \in 1 .. 4
      PROVE  code[4 * n + i] = IF 3 * n + i > Len(b) + 1 THEN Pad ELSE Group(x, y, z)[i]
  <2>1. code[4 * n + i] = Char(4 * n + i)
    BY <1>1, <1>3
  <2>2. QED
    BY <1>3, <1>4, <2>1
<1> HIDE DEF code, x, y, z, Char
<1>6. /\ Group(x, y, z)[1] = x \div 4
      /\ Group(x, y, z)[2] = ((x % 4) * 16) + (y \div 16)
      /\ Group(x, y, z)[3] = ((y % 16) * 4) + (z \div 64)
      /\ Group(x, y, z)[4] = z % 64
  BY DEF Group
<1>7. 1 \in 1 .. 4 /\ 2 \in 1 .. 4 /\ 3 \in 1 .. 4 /\ 4 \in 1 .. 4
  OBVIOUS
<1>8. /\ code[4 * n + 1] = Group(x, y, z)[1]
      /\ code[4 * n + 2] = Group(x, y, z)[2]
  BY <1>2, <1>5, <1>7
<1>9. /\ code[4 * n + 3] = IF 3 * n + 2 > Len(b) THEN Pad ELSE Group(x, y, z)[3]
      /\ code[4 * n + 4] = IF 3 * n + 3 > Len(b) THEN Pad ELSE Group(x, y, z)[4]
  BY <1>2, <1>5, <1>7
<1>10. QED
  BY <1>6, <1>8, <1>9 DEF CodeOf, code, x, y, z

LEMMA ByteAtType ==
  ASSUME NEW b \in Seq(Byte), NEW i \in Nat \ {0}
  PROVE  ByteAt(b, i) \in Byte
<1>1. CASE i <= Len(b)
  BY <1>1 DEF ByteAt
<1>2. CASE ~(i <= Len(b))
  BY <1>2 DEF ByteAt, Byte
<1>3. QED
  BY <1>1, <1>2

LEMMA CodeType ==
  ASSUME NEW b \in Seq(Byte)
  PROVE  /\ ably_base64_encode(b) \in Seq(0 .. Pad)
         /\ Len(ably_base64_encode(b)) = 4 * ((Len(b) + 2) \div 3)
<1> DEFINE code == ably_base64_encode(b)
           N == 4 * ((Len(b) + 2) \div 3)
           Char(k) == LET g == 3 * ((k - 1) \div 4)
                          j == ((k - 1) % 4) + 1
                      IN IF g + j > Len(b) + 1 THEN Pad
                         ELSE Group(ByteAt(b, g + 1), ByteAt(b, g + 2), ByteAt(b, g + 3))[j]
<1>1. code = [k \in 1 .. N |-> Char(k)]
  BY DEF ably_base64_encode
<1>2. Len(b) \in Nat /\ N \in Nat
  OBVIOUS
<1>3. ASSUME NEW k \in 1 .. N PROVE Char(k) \in 0 .. Pad
  <2> DEFINE g == 3 * ((k - 1) \div 4)
             j == ((k - 1) % 4) + 1
             x == ByteAt(b, g + 1)
             y == ByteAt(b, g + 2)
             z == ByteAt(b, g + 3)
  <2>1. g \in Nat /\ j \in 1 .. 4
    BY <1>2
  <2>2. x \in Byte /\ y \in Byte /\ z \in Byte
    BY <2>1, ByteAtType
  <2>3. Char(k) = IF g + j > Len(b) + 1 THEN Pad ELSE Group(x, y, z)[j]
    OBVIOUS
  <2> HIDE DEF g, j, x, y, z, Char
  <2>4. \A i \in 1 .. 4 : Group(x, y, z)[i] \in 0 .. 63
    <3>0. x \in 0 .. 255 /\ y \in 0 .. 255 /\ z \in 0 .. 255
      BY <2>2 DEF Byte
    <3>1. /\ x \div 4 \in 0 .. 63
          /\ ((x % 4) * 16) + (y \div 16) \in 0 .. 63
          /\ ((y % 16) * 4) + (z \div 64) \in 0 .. 63
          /\ z % 64 \in 0 .. 63
      BY <3>0
    <3>2. /\ Group(x, y, z)[1] \in 0 .. 63 /\ Group(x, y, z)[2] \in 0 .. 63
          /\ Group(x, y, z)[3] \in 0 .. 63 /\ Group(x, y, z)[4] \in 0 .. 63
      BY <3>1 DEF Group
    <3>3. \A i \in 1 .. 4 : i = 1 \/ i = 2 \/ i = 3 \/ i = 4
      OBVIOUS
    <3>4. QED
      BY <3>2, <3>3
  <2>5. Group(x, y, z)[j] \in 0 .. Pad /\ Pad \in 0 .. Pad
    <3>1. Group(x, y, z)[j] \in 0 .. 63
      BY <2>1, <2>4
    <3>2. 0 .. 63 \subseteq 0 .. Pad /\ Pad \in 0 .. Pad
      BY DEF Pad
    <3>3. QED
      BY <3>1, <3>2
  <2>6. QED
    BY <2>3, <2>5
<1> HIDE DEF N, Char, code
<1>4. QED
  BY <1>1, <1>2, <1>3 DEF code, N

\* The blanks behind a text are no part of it.
LEMMA TrimmedCode ==
  ASSUME NEW code \in Seq(0 .. Pad), NEW blanks \in Seq({Blank})
  PROVE  Trimmed(code \o blanks) = code
<1> DEFINE s == code \o blanks
           n == Len(code)
           S == {0} \cup {i \in 1 .. Len(s) : s[i] # Blank}
<1>0. code \in Seq(0 .. Blank) /\ blanks \in Seq(0 .. Blank)
  <2>1. 0 .. Pad \subseteq 0 .. Blank /\ {Blank} \subseteq 0 .. Blank
    BY DEF Pad, Blank
  <2>2. QED
    BY <2>1, SeqMonotonic
<1>1. n \in Nat /\ Len(blanks) \in Nat /\ Len(s) = n + Len(blanks)
  OBVIOUS
<1>2. \A i \in 1 .. n : s[i] = code[i] /\ code[i] # Blank
  <2>1. SUFFICES ASSUME NEW i \in 1 .. n PROVE s[i] = code[i] /\ code[i] # Blank
    OBVIOUS
  <2>2. code[i] \in 0 .. Pad /\ i \in 1 .. Len(code) + Len(blanks) /\ i <= Len(code)
    <3>1. code[i] \in 0 .. Pad
      BY ElementOfSeq
    <3>2. QED
      BY <1>1, <3>1
  <2>3. \A k \in 1 .. Len(code) + Len(blanks) :
          (code \o blanks)[k] = IF k <= Len(code) THEN code[k] ELSE blanks[k - Len(code)]
    BY <1>0, ConcatProperties
  <2>4. s[i] = code[i]
    BY <2>2, <2>3
  <2>5. Blank \notin 0 .. Pad
    BY DEF Pad, Blank
  <2>6. QED
    BY <2>2, <2>4, <2>5
<1>3. \A i \in 1 .. Len(s) : i > n => s[i] = Blank
  <2>1. SUFFICES ASSUME NEW i \in 1 .. Len(s), i > n PROVE s[i] = Blank
    OBVIOUS
  <2>2. i - n \in 1 .. Len(blanks) /\ s[i] = blanks[i - n]
    BY <1>1, <2>1
  <2>3. QED
    BY <2>2
<1>4. SubSeq(s, 1, n) = code
  BY <1>0, PartsOfConcat
<1> HIDE DEF s, n
<1>5. n \in S
  BY <1>1, <1>2
<1>6. \A i \in S : i <= n
  BY <1>1, <1>3
<1>7. S \subseteq 0 .. Len(s)
  BY <1>1
<1>8. Max(S) \in S /\ \A y \in S : y <= Max(S)
  <2>1. Len(s) \in Nat /\ S # {}
    BY <1>1
  <2> HIDE DEF S
  <2>2. QED
    BY <1>7, <2>1, MaxOf
<1>9. Max(S) = n
  <2> HIDE DEF S
  <2>0. \A i \in S : i \in Nat
    BY <1>1, <1>7
  <2>1. Max(S) \in Nat /\ n <= Max(S) /\ Max(S) <= n
    BY <1>5, <1>6, <1>8, <2>0
  <2>2. QED
    BY <1>1, <2>1
<1>10. Trimmed(s) = SubSeq(s, 1, n)
  BY <1>9 DEF Trimmed
<1>11. QED
  BY <1>4, <1>10 DEF s

\* Three bytes more, two, or one.
LEMMA BytesBehind ==
  ASSUME NEW b \in Seq(Byte), NEW n \in Nat, 3 * n < Len(b)
  PROVE  /\ SubSeq(b, 1, 3 * n) \in Seq(Byte) /\ Len(SubSeq(b, 1, 3 * n)) = 3 * n
         /\ 3 * n + 1 = Len(b) => Append(SubSeq(b, 1, 3 * n), b[3 * n + 1]) = b
         /\ 3 * n + 2 = Len(b) =>
              SubSeq(b, 1, 3 * n) \o <<b[3 * n + 1], b[3 * n + 2]>> = b
         /\ 3 * n + 3 <= Len(b) =>
              SubSeq(b, 1, 3 * n) \o <<b[3 * n + 1], b[3 * n + 2], b[3 * n + 3]>>
                = SubSeq(b, 1, 3 * n + 3)
<1>1. Len(b) \in Nat /\ 3 * n \in Nat
  OBVIOUS
<1> DEFINE p == SubSeq(b, 1, 3 * n)
<1>2. p \in Seq(Byte) /\ Len(p) = 3 * n /\ \A i \in 1 .. 3 * n : p[i] = b[i]
  BY <1>1
<1> HIDE DEF p
<1>3. CASE 3 * n + 1 = Len(b)
  <2> DEFINE q == Append(p, b[3 * n + 1])
  <2>1. b[3 * n + 1] \in Byte
    BY <1>1, <1>3
  <2>2. q \in Seq(Byte) /\ Len(q) = Len(b) /\ \A i \in 1 .. Len(q) : q[i] = b[i]
    BY <1>1, <1>2, <1>3, <2>1
  <2> HIDE DEF q
  <2>3. q = b
    BY <2>2, SeqEqual
  <2>4. QED
    BY <1>1, <1>2, <1>3, <2>3 DEF p, q
<1>4. CASE 3 * n + 2 = Len(b)
  <2> DEFINE q == p \o <<b[3 * n + 1], b[3 * n + 2]>>
  <2>1. b[3 * n + 1] \in Byte /\ b[3 * n + 2] \in Byte
    BY <1>1, <1>4
  <2>2. q \in Seq(Byte) /\ Len(q) = Len(b) /\ \A i \in 1 .. Len(q) : q[i] = b[i]
    BY <1>1, <1>2, <1>4, <2>1
  <2> HIDE DEF q
  <2>3. q = b
    BY <2>2, SeqEqual
  <2>4. QED
    BY <1>1, <1>2, <1>4, <2>3 DEF p, q
<1>5. CASE 3 * n + 3 <= Len(b)
  <2> DEFINE q == p \o <<b[3 * n + 1], b[3 * n + 2], b[3 * n + 3]>>
             r == SubSeq(b, 1, 3 * n + 3)
  <2>1. b[3 * n + 1] \in Byte /\ b[3 * n + 2] \in Byte /\ b[3 * n + 3] \in Byte
    BY <1>1, <1>5
  <2>2. q \in Seq(Byte) /\ Len(q) = 3 * n + 3 /\ \A i \in 1 .. Len(q) : q[i] = b[i]
    <3> DEFINE w == <<b[3 * n + 1], b[3 * n + 2], b[3 * n + 3]>>
    <3>1. w \in Seq(Byte) /\ Len(w) = 3
      BY <2>1
    <3>2. w[1] = b[3 * n + 1] /\ w[2] = b[3 * n + 2] /\ w[3] = b[3 * n + 3]
      OBVIOUS
    <3> HIDE DEF w
    <3>3. /\ p \o w \in Seq(Byte) /\ Len(p \o w) = 3 * n + 3
          /\ \A i \in 1 .. 3 * n + 3 : (p \o w)[i] = IF i <= 3 * n THEN p[i] ELSE w[i - 3 * n]
      <4>1. /\ p \o w \in Seq(Byte) /\ Len(p \o w) = Len(p) + Len(w)
            /\ \A i \in 1 .. Len(p) + Len(w) :
                 (p \o w)[i] = IF i <= Len(p) THEN p[i] ELSE w[i - Len(p)]
        BY <1>2, <3>1, ConcatProperties
      <4>2. Len(p) = 3 * n /\ Len(p) + Len(w) = 3 * n + 3
        BY <1>1, <1>2, <3>1
      <4>3. QED
        BY <4>1, <4>2
    <3>4. ASSUME NEW i \in 1 .. 3 * n + 3, ~(i <= 3 * n) PROVE w[i - 3 * n] = b[i]
      <4>1. \/ i = 3 * n + 1 /\ i - 3 * n = 1
            \/ i = 3 * n + 2 /\ i - 3 * n = 2
            \/ i = 3 * n + 3 /\ i - 3 * n = 3
        BY <1>1, <3>4
      <4>2. CASE i = 3 * n + 1 /\ i - 3 * n = 1
        BY <3>2, <4>2
      <4>3. CASE i = 3 * n + 2 /\ i - 3 * n = 2
        BY <3>2, <4>3
      <4>4. CASE i = 3 * n + 3 /\ i - 3 * n = 3
        BY <3>2, <4>4
      <4>5. QED
        BY <4>1, <4>2, <4>3, <4>4
    <3>5. \A i \in 1 .. 3 * n + 3 : (p \o w)[i] = b[i]
      BY <1>1, <1>2, <3>3, <3>4
    <3>6. QED
      BY <3>3, <3>5 DEF w
  <2>3. r \in Seq(Byte) /\ Len(r) = 3 * n + 3 /\ \A i \in 1 .. Len(r) : r[i] = b[i]
    BY <1>1, <1>5
  <2> HIDE DEF q, r
  <2>4. q = r
    BY <2>2, <2>3, SeqEqual
  <2>5. p \o <<b[3 * n + 1], b[3 * n + 2], b[3 * n + 3]>> = SubSeq(b, 1, 3 * n + 3)
    BY <2>4 DEF q, r
  <2>6. 3 * n + 1 # Len(b) /\ 3 * n + 2 # Len(b)
    BY <1>1, <1>5
  <2>7. p \in Seq(Byte) /\ Len(p) = 3 * n
    BY <1>2
  <2>8. QED
    BY <2>5, <2>6, <2>7, Zenon DEF p
<1>6. 3 * n + 1 = Len(b) \/ 3 * n + 2 = Len(b) \/ 3 * n + 3 <= Len(b)
  BY <1>1
<1>7. QED
  BY <1>3, <1>4, <1>5, <1>6

\* One turn of the decoder on its own code, with a buffer that is just large
\* enough or one byte too small.
CodeState(b, cap, n) ==
  IF 3 * n <= cap THEN More(SubSeq(b, 1, 3 * n))
  ELSE IF cap = Len(b) THEN Done(b) ELSE Refused

LEMMA CodeTurn ==
  ASSUME NEW b \in Seq(Byte), NEW n \in Nat, 3 * n < Len(b), NEW code, CodeOf(code, b, n),
         NEW cap \in {Len(b), Len(b) - 1}
  PROVE  NextGroup(CodeState(b, cap, n), code, n + 1, cap) = CodeState(b, cap, n + 1)
<1> DEFINE out == SubSeq(b, 1, 3 * n)
           x == b[3 * n + 1]
           y == ByteAt(b, 3 * n + 2)
           z == ByteAt(b, 3 * n + 3)
           A == x \div 4
           B == ((x % 4) * 16) + (y \div 16)
           C == ((y % 16) * 4) + (z \div 64)
           D == z % 64
           c3 == IF 3 * n + 2 > Len(b) THEN Pad ELSE C
           c4 == IF 3 * n + 3 > Len(b) THEN Pad ELSE D
<1>1. Len(b) \in Nat /\ cap \in Nat /\ 3 * n <= cap
  OBVIOUS
<1>2. x \in Byte /\ y \in Byte /\ z \in Byte
  BY <1>1, ByteAtType
<1>3. /\ 3 * n + 2 <= Len(b) => y = b[3 * n + 2]
      /\ 3 * n + 3 <= Len(b) => z = b[3 * n + 3]
  BY DEF ByteAt
<1>4. /\ code[4 * n + 1] = A /\ code[4 * n + 2] = B
      /\ code[4 * n + 3] = c3 /\ code[4 * n + 4] = c4
  BY DEF CodeOf
<1>5. /\ 4 * (n + 1) - 3 = 4 * n + 1 /\ 4 * (n + 1) - 2 = 4 * n + 2
      /\ 4 * (n + 1) - 1 = 4 * n + 3 /\ 4 * (n + 1) = 4 * n + 4
  OBVIOUS
<1>6. NextGroup(CodeState(b, cap, n), code, n + 1, cap)
        = ReadGroup(out, code[4 * (n + 1) - 3], code[4 * (n + 1) - 2],
                    code[4 * (n + 1) - 1], code[4 * (n + 1)], cap)
  BY <1>1 DEF NextGroup, CodeState, More
<1>7. Len(out) = 3 * n
  BY BytesBehind
<1>8. /\ 3 * n + 1 = Len(b) => Append(out, x) = b
      /\ 3 * n + 2 = Len(b) => out \o <<x, y>> = b
      /\ 3 * n + 3 <= Len(b) => out \o <<x, y, z>> = SubSeq(b, 1, 3 * n + 3)
  <2>1. CASE 3 * n + 1 = Len(b)
    <3>1. Append(out, x) = b /\ ~(3 * n + 2 = Len(b)) /\ ~(3 * n + 3 <= Len(b))
      BY <1>1, <2>1, BytesBehind
    <3>2. QED
      BY <3>1, Zenon
  <2>2. CASE 3 * n + 2 = Len(b)
    <3>1. out \o <<x, y>> = b /\ ~(3 * n + 1 = Len(b)) /\ ~(3 * n + 3 <= Len(b))
      BY <1>1, <1>3, <2>2, BytesBehind
    <3>2. QED
      BY <3>1, Zenon
  <2>3. CASE 3 * n + 3 <= Len(b)
    <3>1. y = b[3 * n + 2] /\ z = b[3 * n + 3] /\ ~(3 * n + 1 = Len(b)) /\ ~(3 * n + 2 = Len(b))
      BY <1>1, <1>3, <2>3
    <3>2. SubSeq(b, 1, 3 * n) \o <<b[3 * n + 1], b[3 * n + 2], b[3 * n + 3]>> = SubSeq(b, 1, 3 * n + 3)
      BY <2>3, BytesBehind
    <3> HIDE DEF y, z
    <3>3. out \o <<x, y, z>> = SubSeq(b, 1, 3 * n + 3)
      BY <3>1, <3>2, Zenon
    <3>4. QED
      BY <3>1, <3>3, Zenon
  <2>4. QED
    BY <1>1, <2>1, <2>2, <2>3
<1> HIDE DEF x, y, z, out
<1>9. /\ A \in 0 .. 63 /\ B \in 0 .. 63 /\ C \in 0 .. 63 /\ D \in 0 .. 63
      /\ ((A * 4) % 256) + (B \div 16) = x
      /\ ((B * 16) % 256) + (C \div 4) = y
      /\ ((C * 64) % 256) + D = z
  BY <1>2, GroupBack
<1> HIDE DEF A, B, C, D
<1>10. Pad \notin 0 .. 63 /\ C # Pad /\ D # Pad /\ \A c \in 0 .. 63 : IsLetter(c)
  BY <1>9 DEF Pad, IsLetter
<1>11. IsLetter(A) /\ IsLetter(B) /\ IsLetter(C) /\ IsLetter(D)
  BY <1>9, <1>10
<1>12. NextGroup(CodeState(b, cap, n), code, n + 1, cap) = ReadGroup(out, A, B, c3, c4, cap)
  BY <1>4, <1>5, <1>6
<1>13. CASE 3 * n + 1 = Len(b)
  <2>1. c3 = Pad /\ c4 = Pad
    BY <1>1, <1>13
  <2>2. CodeState(b, cap, n + 1) = IF cap = Len(b) THEN Done(b) ELSE Refused
    BY <1>1, <1>13 DEF CodeState
  <2>3. Fits(out, 1, cap) <=> cap = Len(b)
    BY <1>1, <1>7, <1>13 DEF Fits
  <2>4. Append(out, ((A * 4) % 256) + (B \div 16)) = b
    BY <1>8, <1>9, <1>13
  <2>5. ReadGroup(out, A, B, Pad, Pad, cap) = IF cap = Len(b) THEN Done(b) ELSE Refused
    BY <1>11, <2>3, <2>4 DEF ReadGroup
  <2>6. QED
    BY <1>12, <2>1, <2>2, <2>5
<1>14. CASE 3 * n + 2 = Len(b)
  <2>1. c3 = C /\ c4 = Pad
    BY <1>1, <1>14
  <2>2. CodeState(b, cap, n + 1) = IF cap = Len(b) THEN Done(b) ELSE Refused
    BY <1>1, <1>14 DEF CodeState
  <2>3. Fits(out, 1, cap) /\ (Fits(out, 2, cap) <=> cap = Len(b))
    BY <1>1, <1>7, <1>14 DEF Fits
  <2>4. out \o <<((A * 4) % 256) + (B \div 16), ((B * 16) % 256) + (C \div 4)>> = b
    BY <1>8, <1>9, <1>14
  <2>5. ReadGroup(out, A, B, C, Pad, cap) = IF cap = Len(b) THEN Done(b) ELSE Refused
    BY <1>10, <1>11, <2>3, <2>4, Zenon DEF ReadGroup
  <2>6. QED
    BY <1>12, <2>1, <2>2, <2>5
<1>15. CASE 3 * n + 3 <= Len(b)
  <2>1. c3 = C /\ c4 = D
    BY <1>1, <1>15
  <2>2. CodeState(b, cap, n + 1) = IF 3 * n + 3 <= cap THEN More(SubSeq(b, 1, 3 * n + 3))
                                   ELSE Refused
    <3>1. 3 * (n + 1) = 3 * n + 3
      OBVIOUS
    <3>2. 3 * n + 3 <= cap \/ cap # Len(b)
      BY <1>1, <1>15
    <3>3. QED
      BY <3>1, <3>2 DEF CodeState
  <2>3. Fits(out, 1, cap) /\ Fits(out, 2, cap) /\ (Fits(out, 3, cap) <=> 3 * n + 3 <= cap)
    BY <1>1, <1>7, <1>15 DEF Fits
  <2>4. out \o <<((A * 4) % 256) + (B \div 16), ((B * 16) % 256) + (C \div 4),
                 ((C * 64) % 256) + D>> = SubSeq(b, 1, 3 * n + 3)
    BY <1>8, <1>9, <1>15
  <2>5. ReadGroup(out, A, B, C, D, cap)
          = IF 3 * n + 3 <= cap THEN More(SubSeq(b, 1, 3 * n + 3)) ELSE Refused
    BY <1>10, <1>11, <2>3, <2>4 DEF ReadGroup
  <2>6. QED
    BY <1>12, <2>1, <2>2, <2>5
<1>16. QED
  BY <1>1, <1>13, <1>14, <1>15

LEMMA DecodesItsCode ==
  ASSUME NEW b \in Seq(Byte), NEW cap \in Nat, cap \in {Len(b), Len(b) - 1}
  PROVE  Groups(ably_base64_encode(b), cap) = CodeState(b, cap, (Len(b) + 2) \div 3)
<1> DEFINE code == ably_base64_encode(b)
           N == (Len(b) + 2) \div 3
<1>1. Len(b) \in Nat /\ N \in Nat /\ Len(code) = 4 * N /\ Len(code) \div 4 = N
  <2>1. Len(b) \in Nat /\ N \in Nat
    OBVIOUS
  <2>2. Len(code) = 4 * N
    BY CodeType
  <2> HIDE DEF N, code
  <2>3. QED
    BY <2>1, <2>2
<1> HIDE DEF code
<1>2. PICK f : Chain(f, code, N, cap) /\ Groups(code, cap) = f[N]
  <2>1. Len(code) \in Nat
    BY <1>1
  <2>2. QED
    BY <1>1, <2>1, GroupsChain
<1>3. /\ f[0] = More(<<>>)
      /\ \A n \in 0 .. N - 1 : f[n + 1] = NextGroup(f[n], code, n + 1, cap)
  <2> HIDE DEF N
  <2>1. N \in Nat /\ Chain(f, code, N, cap)
    BY <1>1, <1>2, Zenon
  <2>2. ChainTurns(f, code, N, cap)
    BY <2>1, ChainTurn
  <2>3. QED
    BY <2>2, Zenon DEF ChainTurns
<1> DEFINE P == {n \in Nat : n <= N => f[n] = CodeState(b, cap, n)}
<1>4. 0 \in P
  <2>1. SubSeq(b, 1, 3 * 0) = <<>> /\ 3 * 0 <= cap
    OBVIOUS
  <2>2. CodeState(b, cap, 0) = More(<<>>)
    BY <2>1 DEF CodeState
  <2>3. QED
    BY <1>3, <2>2
<1>5. ASSUME NEW n \in Nat, n \in P PROVE n + 1 \in P
  <2>1. SUFFICES ASSUME n + 1 <= N PROVE f[n + 1] = CodeState(b, cap, n + 1)
    OBVIOUS
  <2>2. n <= N /\ n \in 0 .. N - 1 /\ 3 * n < Len(b)
    <3>1. n <= N /\ n \in 0 .. N - 1
      <4> HIDE DEF N
      <4>1. QED
        BY <1>1, <2>1
    <3>2. Len(b) \in Nat /\ n + 1 <= (Len(b) + 2) \div 3
      BY <1>1, <2>1
    <3>3. 3 * n < Len(b)
      BY <3>2
    <3>4. QED
      BY <3>1, <3>3
  <2>3. f[n] = CodeState(b, cap, n)
    BY <1>5, <2>2
  <2>4. f[n + 1] = NextGroup(f[n], code, n + 1, cap)
    BY <1>3, <2>2
  <2>5. CodeOf(code, b, n)
    BY <2>2, CodeChars DEF code
  <2>6. NextGroup(CodeState(b, cap, n), code, n + 1, cap) = CodeState(b, cap, n + 1)
    BY <2>2, <2>5, CodeTurn
  <2>7. QED
    BY <2>3, <2>4, <2>6
<1> HIDE DEF P
<1>6. \A n \in Nat : n \in P
  BY <1>4, <1>5, NatInduct
<1>7. N \in P /\ N <= N
  BY <1>1, <1>6
<1>8. f[N] = CodeState(b, cap, N)
  <2> HIDE DEF N
  <2>1. QED
    BY <1>7 DEF P
<1>9. QED
  BY <1>2, <1>8 DEF code

\* What is encoded comes back.
LEMMA EncodedComesBack ==
  ASSUME NEW b \in Seq(Byte), NEW blanks \in Seq({Blank})
  PROVE  /\ Len(ably_base64_encode(b)) + 1 = ably_base64_encode_len(Len(b))
         /\ ably_base64_decode(ably_base64_encode(b) \o blanks, Len(b)) = [ok |-> TRUE, out |-> b]
         /\ b # <<>> => ~ably_base64_decode(ably_base64_encode(b), Len(b) - 1).ok
<1> DEFINE code == ably_base64_encode(b)
           N == (Len(b) + 2) \div 3
           L == Len(b)
<1>1. L \in Nat /\ N \in Nat /\ 3 * N >= L
  OBVIOUS
<1>2. code \in Seq(0 .. Pad) /\ Len(code) = 4 * N
  BY CodeType
<1>3. SubSeq(b, 1, L) = b
  BY SubSeqFull
<1>4. Trimmed(code \o blanks) = code
  BY <1>2, TrimmedCode
<1>5. Trimmed(code) = code
  <2>1. <<>> \in Seq({Blank}) /\ code \o <<>> = code
    BY <1>2
  <2>2. QED
    BY <1>2, <2>1, TrimmedCode
<1>6. Groups(code, L) = CodeState(b, L, N)
  BY <1>1, DecodesItsCode
<1>7. CodeState(b, L, N) = More(b) \/ CodeState(b, L, N) = Done(b)
  <2> HIDE DEF N
  <2>1. CASE 3 * N <= L
    <3>1. 3 * N = L
      BY <1>1, <2>1
    <3>2. QED
      BY <1>3, <2>1, <3>1 DEF CodeState
  <2>2. CASE ~(3 * N <= L)
    BY <2>2 DEF CodeState
  <2>3. QED
    BY <2>1, <2>2
<1>8. ASSUME b # <<>>
      PROVE  Groups(code, L - 1) = Refused
  <2>1. L - 1 \in Nat
    BY <1>8
  <2>2. Groups(code, L - 1) = CodeState(b, L - 1, N)
    BY <2>1, DecodesItsCode
  <2>3. ~(3 * N <= L - 1) /\ L - 1 # L
    BY <1>1
  <2>4. QED
    BY <2>2, <2>3 DEF CodeState
<1>9. Len(code) + 1 = ably_base64_encode_len(L)
  BY <1>2 DEF ably_base64_encode_len
<1> HIDE DEF code, N, L
<1>10. ably_base64_decode(code \o blanks, L) = [ok |-> TRUE, out |-> b]
  <2> DEFINE r == Groups(code, L)
  <2>1. r.state # "refused" /\ r.out = b
    BY <1>6, <1>7 DEF More, Done
  <2>2. ably_base64_decode(code \o blanks, L) = [ok |-> r.state # "refused", out |-> r.out]
    BY <1>4 DEF ably_base64_decode
  <2> HIDE DEF r
  <2>3. (r.state # "refused") = TRUE
    BY <2>1
  <2>4. QED
    BY <2>1, <2>2, <2>3
<1>11. b # <<>> => ~ably_base64_decode(code, L - 1).ok
  <2>1. SUFFICES ASSUME b # <<>> PROVE ~ably_base64_decode(code, L - 1).ok
    OBVIOUS
  <2>2. Groups(code, L - 1).state = "refused"
    BY <1>8, <2>1 DEF Refused
  <2>3. ably_base64_decode(code, L - 1).ok = (Groups(code, L - 1).state # "refused")
    BY <1>5 DEF ably_base64_decode
  <2>4. QED
    BY <2>2, <2>3
<1>12. QED
  BY <1>9, <1>10, <1>11 DEF code, L
-----------------------------------------------------------------------------
(* What is decoded.                                                        *)

\* Byte k of a text of letters.
Octet(t, k) ==
  LET i == 4 * ((k - 1) \div 3)
  IN CASE (k - 1) % 3 = 0 -> ((t[i + 1] * 4) % 256) + (t[i + 2] \div 16)
       [] (k - 1) % 3 = 1 -> ((t[i + 2] * 16) % 256) + (t[i + 3] \div 4)
       [] (k - 1) % 3 = 2 -> ((t[i + 3] * 64) % 256) + t[i + 4]

\* The first p characters of t are letters, and out holds their whole bytes.
ReadTo(out, t, p) ==
  /\ \A i \in 1 .. p : t[i] \in 0 .. 63
  /\ out \in Seq(Nat) /\ Len(out) = (6 * p) \div 8
  /\ \A k \in 1 .. Len(out) : out[k] = Octet(t, k)

LEMMA OctetNat ==
  ASSUME NEW t, NEW n \in Nat, NEW j \in {1, 2, 3}, \A i \in 1 .. j + 1 : t[4 * n + i] \in 0 .. 63
  PROVE  /\ Octet(t, 3 * n + j) \in Nat
         /\ j = 1 => Octet(t, 3 * n + j) = ((t[4 * n + 1] * 4) % 256) + (t[4 * n + 2] \div 16)
         /\ j = 2 => Octet(t, 3 * n + j) = ((t[4 * n + 2] * 16) % 256) + (t[4 * n + 3] \div 4)
         /\ j = 3 => Octet(t, 3 * n + j) = ((t[4 * n + 3] * 64) % 256) + t[4 * n + 4]
<1>1. ((3 * n + j) - 1) \div 3 = n /\ ((3 * n + j) - 1) % 3 = j - 1
  OBVIOUS
<1>2. CASE j = 1
  <2>1. t[4 * n + 1] \in 0 .. 63 /\ t[4 * n + 2] \in 0 .. 63
    BY <1>2
  <2>2. Octet(t, 3 * n + j) = ((t[4 * n + 1] * 4) % 256) + (t[4 * n + 2] \div 16)
    BY <1>1, <1>2 DEF Octet
  <2>3. QED
    BY <1>2, <2>1, <2>2
<1>3. CASE j = 2
  <2>1. t[4 * n + 2] \in 0 .. 63 /\ t[4 * n + 3] \in 0 .. 63
    BY <1>3
  <2>2. Octet(t, 3 * n + j) = ((t[4 * n + 2] * 16) % 256) + (t[4 * n + 3] \div 4)
    BY <1>1, <1>3 DEF Octet
  <2>3. QED
    BY <1>3, <2>1, <2>2
<1>4. CASE j = 3
  <2>1. t[4 * n + 3] \in 0 .. 63 /\ t[4 * n + 4] \in 0 .. 63
    BY <1>4
  <2>2. Octet(t, 3 * n + j) = ((t[4 * n + 3] * 64) % 256) + t[4 * n + 4]
    BY <1>1, <1>4 DEF Octet
  <2>3. QED
    BY <1>4, <2>1, <2>2
<1>5. QED
  BY <1>2, <1>3, <1>4

\* One byte more.
LEMMA ReadMore ==
  ASSUME NEW t, NEW p \in Nat, NEW q \in Nat, p <= q, NEW out, ReadTo(out, t, p),
         \A i \in p + 1 .. q : t[i] \in 0 .. 63, (6 * q) \div 8 = Len(out) + 1,
         NEW x \in Nat, x = Octet(t, Len(out) + 1)
  PROVE  ReadTo(Append(out, x), t, q)
<1> DEFINE w == Append(out, x)
<1>1. out \in Seq(Nat) /\ Len(out) \in Nat
  BY DEF ReadTo
<1>2. /\ w \in Seq(Nat) /\ Len(w) = Len(out) + 1
      /\ \A i \in 1 .. Len(out) : w[i] = out[i]
      /\ w[Len(out) + 1] = x
  BY <1>1, AppendProperties
<1> HIDE DEF w
<1>3. \A i \in 1 .. q : t[i] \in 0 .. 63
  BY DEF ReadTo
<1>4. ASSUME NEW k \in 1 .. Len(w) PROVE w[k] = Octet(t, k)
  <2>1. CASE k = Len(out) + 1
    BY <1>2, <2>1
  <2>2. CASE k # Len(out) + 1
    <3>1. k \in 1 .. Len(out)
      BY <1>1, <1>2, <2>2
    <3>2. QED
      BY <1>2, <3>1 DEF ReadTo
  <2>3. QED
    BY <2>1, <2>2
<1>5. ReadTo(w, t, q)
  BY <1>2, <1>3, <1>4 DEF ReadTo
<1>6. QED
  BY <1>5 DEF w

LEMMA AppendTwo ==
  ASSUME NEW S, NEW s \in Seq(S), NEW x \in S, NEW y \in S
  PROVE  s \o <<x, y>> = Append(Append(s, x), y)
<1> DEFINE u == s \o <<x, y>>
           v == Append(Append(s, x), y)
           w == <<x, y>>
<1>1. w \in Seq(S) /\ Len(w) = 2 /\ w[1] = x /\ w[2] = y /\ Len(s) \in Nat
  OBVIOUS
<1>2. /\ u \in Seq(S) /\ Len(u) = Len(s) + 2
      /\ \A i \in 1 .. Len(s) + 2 : u[i] = IF i <= Len(s) THEN s[i] ELSE w[i - Len(s)]
  <2> HIDE DEF w
  <2>1. /\ s \o w \in Seq(S) /\ Len(s \o w) = Len(s) + Len(w)
        /\ \A i \in 1 .. Len(s) + Len(w) : (s \o w)[i] = IF i <= Len(s) THEN s[i] ELSE w[i - Len(s)]
    BY <1>1, ConcatProperties
  <2>2. QED
    BY <1>1, <2>1 DEF w
<1>3. Append(s, x) \in Seq(S) /\ Len(Append(s, x)) = Len(s) + 1
  BY AppendProperties
<1>4. /\ v \in Seq(S) /\ Len(v) = Len(s) + 2
      /\ \A i \in 1 .. Len(s) : v[i] = s[i]
      /\ v[Len(s) + 1] = x /\ v[Len(s) + 2] = y
  BY <1>1, <1>3, AppendProperties
<1> HIDE DEF u, v, w
<1>5. ASSUME NEW i \in 1 .. Len(u) PROVE u[i] = v[i]
  <2>1. CASE i <= Len(s)
    BY <1>1, <1>2, <1>4, <2>1
  <2>2. CASE i = Len(s) + 1
    <3>1. u[i] = w[i - Len(s)] /\ i - Len(s) = 1
      BY <1>1, <1>2, <2>2
    <3>2. QED
      BY <1>1, <1>4, <2>2, <3>1
  <2>3. CASE i = Len(s) + 2
    <3>1. u[i] = w[i - Len(s)] /\ i - Len(s) = 2
      BY <1>1, <1>2, <2>3
    <3>2. QED
      BY <1>1, <1>4, <2>3, <3>1
  <2>4. QED
    BY <1>1, <1>2, <2>1, <2>2, <2>3
<1>6. u = v
  BY <1>2, <1>4, <1>5, SeqEqual
<1>7. QED
  BY <1>6 DEF u, v

LEMMA AppendThree ==
  ASSUME NEW S, NEW s \in Seq(S), NEW x \in S, NEW y \in S, NEW z \in S
  PROVE  s \o <<x, y, z>> = Append(s \o <<x, y>>, z)
<1>1. <<x, y>> \in Seq(S) /\ <<z>> \in Seq(S) /\ <<x, y>> \o <<z>> = <<x, y, z>>
  <2>1. <<x, y>> \in Seq(S) /\ <<z>> \in Seq(S)
    OBVIOUS
  <2>2. Append(<<x, y>>, z) = <<x, y>> \o <<z>>
    BY <2>1, AppendIsConcat
  <2>3. Append(<<x, y>>, z) = <<x, y, z>>
    <3> DEFINE v == Append(<<x, y>>, z)
    <3>1. v \in Seq(S) /\ Len(v) = 3 /\ v[1] = x /\ v[2] = y /\ v[3] = z
      BY <2>1, AppendProperties
    <3>2. \A i \in 1 .. 3 : i = 1 \/ i = 2 \/ i = 3
      OBVIOUS
    <3> HIDE DEF v
    <3>3. \A i \in 1 .. Len(v) : v[i] = <<x, y, z>>[i]
      BY <3>1, <3>2
    <3>4. <<x, y, z>> \in Seq(S) /\ Len(<<x, y, z>>) = 3
      OBVIOUS
    <3>5. v = <<x, y, z>>
      BY <3>1, <3>3, <3>4, SeqEqual
    <3>6. QED
      BY <3>5 DEF v
  <2>4. QED
    BY <2>1, <2>2, <2>3
<1>2. (s \o <<x, y>>) \o <<z>> = s \o (<<x, y>> \o <<z>>)
  BY <1>1, ConcatAssociative
<1>3. s \o <<x, y>> \in Seq(S)
  BY <1>1, ConcatProperties
<1>4. Append(s \o <<x, y>>, z) = (s \o <<x, y>>) \o <<z>>
  BY <1>3, AppendIsConcat
<1>5. QED
  BY <1>1, <1>2, <1>4

\* One turn of the loop: it is refused, or it has met the padding behind the letters
\* it has read, or it has read four letters more.
ReadState(r, t, p) ==
  \/ r.state = "refused"
  \/ r.state = "more" /\ ReadTo(r.out, t, p)
  \/ r.state = "done" /\ \E q \in 0 .. p - 1 : t[q + 1] = Pad /\ ReadTo(r.out, t, q)

LEMMA ReadGroupReads ==
  ASSUME NEW t, NEW n \in Nat, NEW cap, NEW out, ReadTo(out, t, 4 * n)
  PROVE  ReadState(ReadGroup(out, t[4 * n + 1], t[4 * n + 2], t[4 * n + 3], t[4 * n + 4], cap),
                   t, 4 * n + 4)
<1> DEFINE a == t[4 * n + 1]  b == t[4 * n + 2]  c == t[4 * n + 3]  d == t[4 * n + 4]
           one   == ((a * 4) % 256) + (b \div 16)
           two   == ((b * 16) % 256) + (c \div 4)
           three == ((c * 64) % 256) + d
           r == ReadGroup(out, a, b, c, d, cap)
           first  == IsLetter(a) /\ IsLetter(b) /\ Fits(out, 1, cap)
           second == IsLetter(c) /\ Fits(out, 2, cap)
           third  == IsLetter(d) /\ Fits(out, 3, cap)
<1>1. /\ ~first => r = Refused
      /\ first /\ c = Pad => r = Done(Append(out, one))
      /\ first /\ c # Pad /\ ~second => r = Refused
      /\ first /\ c # Pad /\ second /\ d = Pad => r = Done(out \o <<one, two>>)
      /\ first /\ c # Pad /\ second /\ d # Pad /\ ~third => r = Refused
      /\ first /\ c # Pad /\ second /\ d # Pad /\ third => r = More(out \o <<one, two, three>>)
  BY DEF ReadGroup
<1>2. /\ out \in Seq(Nat) /\ Len(out) = (6 * (4 * n)) \div 8
      /\ \A i \in 1 .. 4 * n : t[i] \in 0 .. 63
  BY DEF ReadTo
<1>3. Len(out) = 3 * n /\ 3 * n \in Nat /\ 4 * n \in Nat
  BY <1>2
<1>4. ReadState(Refused, t, 4 * n + 4)
  BY DEF ReadState, Refused
<1>5. CASE ~first
  BY <1>1, <1>4, <1>5
<1>6. CASE first
  <2>1. a \in 0 .. 63 /\ b \in 0 .. 63
    BY <1>6 DEF IsLetter
  <2>2. one \in Nat /\ one = Octet(t, 3 * n + 1)
    <3>1. \A i \in 1 .. 1 + 1 : t[4 * n + i] \in 0 .. 63
      <4>1. \A i \in 1 .. 2 : i = 1 \/ i = 2
        OBVIOUS
      <4>2. QED
        BY <2>1, <4>1
    <3>2. QED
      BY <3>1, OctetNat
  <2>3. ReadTo(Append(out, one), t, 4 * n + 2)
    <3>1. \A i \in 4 * n + 1 .. 4 * n + 2 : t[i] \in 0 .. 63
      <4>1. \A i \in 4 * n + 1 .. 4 * n + 2 : i = 4 * n + 1 \/ i = 4 * n + 2
        BY <1>3
      <4>2. QED
        BY <2>1, <4>1
    <3>2. (6 * (4 * n + 2)) \div 8 = Len(out) + 1 /\ 4 * n + 2 \in Nat /\ 4 * n <= 4 * n + 2
      BY <1>3
    <3> HIDE DEF one
    <3>3. one \in Nat /\ one = Octet(t, Len(out) + 1)
      BY <1>3, <2>2
    <3>4. QED
      BY <1>3, <3>1, <3>2, <3>3, ReadMore
  <2>4. CASE c = Pad
    <3>1. 4 * n + 2 \in 0 .. (4 * n + 4) - 1 /\ (4 * n + 2) + 1 = 4 * n + 3
      BY <1>3
    <3>2. r = Done(Append(out, one))
      BY <1>1, <1>6, <2>4
    <3> HIDE DEF one, r, c
    <3>3. t[(4 * n + 2) + 1] = Pad
      BY <2>4, <3>1 DEF c
    <3>4. ReadState(Done(Append(out, one)), t, 4 * n + 4)
      BY <2>3, <3>1, <3>3 DEF ReadState, Done
    <3>5. QED
      BY <3>2, <3>4 DEF r, c
  <2>5. CASE c # Pad /\ ~second
    BY <1>1, <1>4, <1>6, <2>5
  <2>6. CASE c # Pad /\ second
    <3>1. c \in 0 .. 63
      BY <2>6 DEF IsLetter
    <3>2. two \in Nat /\ two = Octet(t, 3 * n + 2)
      <4>1. \A i \in 1 .. 2 + 1 : t[4 * n + i] \in 0 .. 63
        <5>1. \A i \in 1 .. 3 : i = 1 \/ i = 2 \/ i = 3
          OBVIOUS
        <5>2. QED
          BY <2>1, <3>1, <5>1
      <4>2. QED
        BY <4>1, OctetNat
    <3>3. out \o <<one, two>> = Append(Append(out, one), two)
      <4>1. one \in Nat /\ two \in Nat
        BY <2>2, <3>2
      <4>2. out \in Seq(Nat)
        BY <1>2
      <4>3. \A x, y \in Nat : out \o <<x, y>> = Append(Append(out, x), y)
        BY <4>2, AppendTwo
      <4> HIDE DEF one, two
      <4>4. QED
        BY <4>1, <4>3, Zenon
    <3>4. Append(out, one) \in Seq(Nat) /\ Len(Append(out, one)) = 3 * n + 1
      <4>1. one \in Nat
        BY <2>2
      <4> HIDE DEF one
      <4>2. QED
        BY <1>2, <1>3, <4>1
    <3>5. ReadTo(out \o <<one, two>>, t, 4 * n + 3)
      <4> DEFINE w == Append(out, one)
      <4>1. \A i \in (4 * n + 2) + 1 .. 4 * n + 3 : t[i] \in 0 .. 63
        <5>1. \A i \in (4 * n + 2) + 1 .. 4 * n + 3 : i = 4 * n + 3
          BY <1>3
        <5>2. QED
          BY <3>1, <5>1
      <4>2. (6 * (4 * n + 3)) \div 8 = Len(w) + 1
        BY <1>3, <3>4
      <4>3. two \in Nat /\ two = Octet(t, Len(w) + 1)
        <5>1. Len(w) + 1 = 3 * n + 2
          BY <3>4, <1>3
        <5>2. QED
          BY <3>2, <5>1
      <4>4. 4 * n + 2 \in Nat /\ 4 * n + 3 \in Nat /\ 4 * n + 2 <= 4 * n + 3
        BY <1>3
      <4>5. ReadTo(w, t, 4 * n + 2)
        BY <2>3
      <4> HIDE DEF w, two
      <4>6. ReadTo(Append(w, two), t, 4 * n + 3)
        BY <4>1, <4>2, <4>3, <4>4, <4>5, ReadMore
      <4>7. QED
        BY <3>3, <4>6 DEF w
    <3>6. CASE d = Pad
      <4>1. 4 * n + 3 \in 0 .. (4 * n + 4) - 1 /\ (4 * n + 3) + 1 = 4 * n + 4
        BY <1>3
      <4>2. r = Done(out \o <<one, two>>)
        BY <1>1, <1>6, <2>6, <3>6
      <4> HIDE DEF one, two, r, d
      <4>3. t[(4 * n + 3) + 1] = Pad
        BY <3>6, <4>1 DEF d
      <4>4. ReadState(Done(out \o <<one, two>>), t, 4 * n + 4)
        BY <3>5, <4>1, <4>3 DEF ReadState, Done
      <4>5. QED
        BY <4>2, <4>4 DEF r, d
    <3>7. CASE d # Pad /\ ~third
      BY <1>1, <1>4, <1>6, <2>6, <3>7
    <3>8. CASE d # Pad /\ third
      <4>1. d \in 0 .. 63
        BY <3>8 DEF IsLetter
      <4>2. three \in Nat /\ three = Octet(t, 3 * n + 3)
        <5>1. \A i \in 1 .. 3 + 1 : t[4 * n + i] \in 0 .. 63
          <6>1. \A i \in 1 .. 4 : i = 1 \/ i = 2 \/ i = 3 \/ i = 4
            OBVIOUS
          <6>2. QED
            BY <2>1, <3>1, <4>1, <6>1
        <5>2. QED
          BY <5>1, OctetNat
      <4> DEFINE w == out \o <<one, two>>
      <4>3. out \o <<one, two, three>> = Append(w, three)
        <5>1. one \in Nat /\ two \in Nat /\ three \in Nat
          BY <2>2, <3>2, <4>2
        <5> HIDE DEF one, two, three
        <5>2. QED
          BY <1>2, <5>1, AppendThree
      <4>4. Len(w) = 3 * n + 2
        <5>1. Len(w) = (6 * (4 * n + 3)) \div 8
          BY <3>5 DEF ReadTo
        <5>2. QED
          BY <1>3, <5>1
      <4>5. \A i \in (4 * n + 3) + 1 .. 4 * n + 4 : t[i] \in 0 .. 63
        <5>1. \A i \in (4 * n + 3) + 1 .. 4 * n + 4 : i = 4 * n + 4
          BY <1>3
        <5>2. QED
          BY <4>1, <5>1
      <4>6. (6 * (4 * n + 4)) \div 8 = Len(w) + 1
        BY <1>3, <4>4
      <4>7. three \in Nat /\ three = Octet(t, Len(w) + 1)
        <5>1. Len(w) + 1 = 3 * n + 3
          BY <4>4, <1>3
        <5>2. QED
          BY <4>2, <5>1
      <4>8. 4 * n + 3 \in Nat /\ 4 * n + 4 \in Nat /\ 4 * n + 3 <= 4 * n + 4
        BY <1>3
      <4>9. ReadTo(w, t, 4 * n + 3)
        BY <3>5
      <4>10. r = More(out \o <<one, two, three>>)
        BY <1>1, <1>6, <2>6, <3>8
      <4> HIDE DEF w, three, r
      <4>11. ReadTo(Append(w, three), t, 4 * n + 4)
        BY <4>5, <4>6, <4>7, <4>8, <4>9, ReadMore
      <4>12. ReadState(More(Append(w, three)), t, 4 * n + 4)
        BY <4>11 DEF ReadState, More
      <4>13. r = More(Append(w, three))
        BY <4>3, <4>10
      <4>14. QED
        BY <4>12, <4>13 DEF r
    <3>9. QED
      BY <3>6, <3>7, <3>8
  <2>7. QED
    BY <2>4, <2>5, <2>6
<1>7. QED
  BY <1>5, <1>6

LEMMA GroupsRead ==
  ASSUME NEW t \in Seq(0 .. Bad), NEW cap
  PROVE  ReadState(Groups(t, cap), t, 4 * (Len(t) \div 4))
<1> DEFINE N == Len(t) \div 4
<1>1. Len(t) \in Nat /\ N \in Nat
  OBVIOUS
<1>2. PICK f : Chain(f, t, N, cap) /\ Groups(t, cap) = f[N]
  BY <1>1, GroupsChain
<1> HIDE DEF N
<1>3. /\ f[0] = More(<<>>)
      /\ \A n \in 0 .. N - 1 : f[n + 1] = NextGroup(f[n], t, n + 1, cap)
  <2>1. ChainTurns(f, t, N, cap)
    BY <1>1, <1>2, ChainTurn
  <2>2. QED
    BY <2>1, Zenon DEF ChainTurns
<1> DEFINE P == {n \in Nat : n <= N => ReadState(f[n], t, 4 * n)}
<1>4. 0 \in P
  <2>1. ReadTo(<<>>, t, 0)
    BY DEF ReadTo
  <2>2. ReadState(f[0], t, 0) /\ 4 * 0 = 0
    BY <1>3, <2>1 DEF ReadState, More
  <2>3. QED
    BY <2>2
<1>5. ASSUME NEW n \in Nat, n \in P PROVE n + 1 \in P
  <2>1. SUFFICES ASSUME n + 1 <= N PROVE ReadState(f[n + 1], t, 4 * (n + 1))
    OBVIOUS
  <2>2. n <= N /\ n \in 0 .. N - 1
    BY <1>1, <2>1
  <2>3. ReadState(f[n], t, 4 * n)
    BY <1>5, <2>2
  <2>4. f[n + 1] = NextGroup(f[n], t, n + 1, cap)
    BY <1>3, <2>2
  <2>5. CASE f[n].state = "refused"
    BY <2>4, <2>5 DEF ReadState, NextGroup
  <2>6. CASE f[n].state = "done"
    <3>1. PICK q \in 0 .. 4 * n - 1 : t[q + 1] = Pad /\ ReadTo(f[n].out, t, q)
      BY <2>3, <2>6 DEF ReadState
    <3>2. q \in 0 .. 4 * (n + 1) - 1
      OBVIOUS
    <3>3. f[n + 1] = f[n]
      BY <2>4, <2>6 DEF NextGroup
    <3>4. QED
      BY <2>6, <3>1, <3>2, <3>3 DEF ReadState
  <2>7. CASE f[n].state = "more"
    <3>1. ReadTo(f[n].out, t, 4 * n)
      BY <2>3, <2>7 DEF ReadState
    <3>2. /\ 4 * (n + 1) - 3 = 4 * n + 1 /\ 4 * (n + 1) - 2 = 4 * n + 2
          /\ 4 * (n + 1) - 1 = 4 * n + 3 /\ 4 * (n + 1) = 4 * n + 4
      OBVIOUS
    <3>3. f[n + 1] = ReadGroup(f[n].out, t[4 * n + 1], t[4 * n + 2], t[4 * n + 3],
                               t[4 * n + 4], cap)
      BY <2>4, <2>7, <3>2 DEF NextGroup
    <3>4. ReadState(f[n + 1], t, 4 * n + 4)
      BY <3>1, <3>3, ReadGroupReads
    <3>5. QED
      BY <3>2, <3>4
  <2>8. QED
    BY <2>3, <2>5, <2>6, <2>7 DEF ReadState
<1> HIDE DEF P
<1>6. \A n \in Nat : n \in P
  BY <1>4, <1>5, NatInduct
<1>7. N \in P /\ N <= N
  BY <1>1, <1>6
<1>8. ReadState(f[N], t, 4 * N)
  BY <1>7 DEF P
<1>9. QED
  BY <1>2, <1>8 DEF N

\* A buffer that has room for three bytes of each group is as good as a larger one.
LEMMA RoomEnough ==
  ASSUME NEW t \in Seq(0 .. Bad), NEW c1 \in Nat, NEW c2 \in Nat,
         3 * (Len(t) \div 4) <= c1, 3 * (Len(t) \div 4) <= c2
  PROVE  Groups(t, c1) = Groups(t, c2)
<1> DEFINE N == Len(t) \div 4
<1>1. Len(t) \in Nat /\ N \in Nat /\ 3 * N <= c1 /\ 3 * N <= c2
  OBVIOUS
<1>2. PICK f : Chain(f, t, N, c1) /\ Groups(t, c1) = f[N]
  BY <1>1, GroupsChain
<1>3. PICK g : Chain(g, t, N, c2) /\ Groups(t, c2) = g[N]
  BY <1>1, GroupsChain
<1> HIDE DEF N
<1>4. /\ f[0] = More(<<>>)
      /\ \A n \in 0 .. N - 1 : f[n + 1] = NextGroup(f[n], t, n + 1, c1)
  <2>1. N \in Nat
    BY <1>1
  <2>2. ChainTurns(f, t, N, c1)
    BY <2>1, <1>2, ChainTurn
  <2>3. QED
    BY <2>2, Zenon DEF ChainTurns
<1>5. /\ g[0] = More(<<>>)
      /\ \A n \in 0 .. N - 1 : g[n + 1] = NextGroup(g[n], t, n + 1, c2)
  <2>1. N \in Nat
    BY <1>1
  <2>2. ChainTurns(g, t, N, c2)
    BY <2>1, <1>3, ChainTurn
  <2>3. QED
    BY <2>2, Zenon DEF ChainTurns
<1> DEFINE P == {n \in Nat : n <= N => f[n] = g[n] /\ ReadState(f[n], t, 4 * n)}
<1>6. 0 \in P
  <2>1. ReadTo(<<>>, t, 0)
    BY DEF ReadTo
  <2>2. ReadState(f[0], t, 0) /\ 4 * 0 = 0
    BY <1>4, <2>1 DEF ReadState, More
  <2>3. QED
    BY <1>4, <1>5, <2>2
<1>7. ASSUME NEW n \in Nat, n \in P PROVE n + 1 \in P
  <2>1. SUFFICES ASSUME n + 1 <= N
                 PROVE  f[n + 1] = g[n + 1] /\ ReadState(f[n + 1], t, 4 * (n + 1))
    OBVIOUS
  <2>2. n <= N /\ n \in 0 .. N - 1
    BY <1>1, <2>1
  <2>3. f[n] = g[n] /\ ReadState(f[n], t, 4 * n)
    BY <1>7, <2>2
  <2>4. /\ f[n + 1] = NextGroup(f[n], t, n + 1, c1)
        /\ g[n + 1] = NextGroup(f[n], t, n + 1, c2)
    BY <1>4, <1>5, <2>2, <2>3
  <2>5. CASE f[n].state = "refused"
    BY <2>4, <2>5 DEF ReadState, NextGroup
  <2>6. CASE f[n].state = "done"
    <3>1. PICK q \in 0 .. 4 * n - 1 : t[q + 1] = Pad /\ ReadTo(f[n].out, t, q)
      BY <2>3, <2>6 DEF ReadState
    <3>2. q \in 0 .. 4 * (n + 1) - 1
      OBVIOUS
    <3>3. f[n + 1] = f[n] /\ g[n + 1] = f[n]
      BY <2>4, <2>6 DEF NextGroup
    <3>4. QED
      BY <2>6, <3>1, <3>2, <3>3 DEF ReadState
  <2>7. CASE f[n].state = "more"
    <3>1. ReadTo(f[n].out, t, 4 * n)
      BY <2>3, <2>7 DEF ReadState
    <3>2. /\ 4 * (n + 1) - 3 = 4 * n + 1 /\ 4 * (n + 1) - 2 = 4 * n + 2
          /\ 4 * (n + 1) - 1 = 4 * n + 3 /\ 4 * (n + 1) = 4 * n + 4
      OBVIOUS
    <3> DEFINE R(c) == ReadGroup(f[n].out, t[4 * n + 1], t[4 * n + 2], t[4 * n + 3],
                                 t[4 * n + 4], c)
    <3>3. f[n + 1] = R(c1) /\ g[n + 1] = R(c2)
      BY <2>4, <2>7, <3>2 DEF NextGroup
    <3>4. ReadState(f[n + 1], t, 4 * n + 4)
      BY <3>1, <3>3, ReadGroupReads
    <3>5. Len(f[n].out) = 3 * n /\ 3 * n + 3 <= 3 * N
      BY <1>1, <2>1, <3>1 DEF ReadTo
    <3>6. \A j \in {1, 2, 3} : Fits(f[n].out, j, c1) /\ Fits(f[n].out, j, c2)
      BY <1>1, <3>5 DEF Fits
    <3>7. /\ Fits(f[n].out, 1, c1) /\ Fits(f[n].out, 2, c1) /\ Fits(f[n].out, 3, c1)
          /\ Fits(f[n].out, 1, c2) /\ Fits(f[n].out, 2, c2) /\ Fits(f[n].out, 3, c2)
      BY <3>6
    <3>8. R(c1) = R(c2)
      BY <3>7 DEF ReadGroup
    <3>9. QED
      BY <3>2, <3>3, <3>4, <3>8
  <2>8. QED
    BY <2>3, <2>5, <2>6, <2>7 DEF ReadState
<1> HIDE DEF P
<1>8. \A n \in Nat : n \in P
  BY <1>6, <1>7, NatInduct
<1>9. N \in P /\ N <= N
  BY <1>1, <1>8
<1>10. f[N] = g[N]
  BY <1>9 DEF P
<1>11. QED
  BY <1>2, <1>3, <1>10

\* The bits of the bytes that are read are those of the letters, in order.
LEMMA SameBits ==
  ASSUME NEW t, NEW p \in Nat, NEW out, ReadTo(out, t, p), NEW s, \A i \in 1 .. p : s[i] = t[i],
         NEW k \in 0 .. 8 * Len(out) - 1
  PROVE  ByteBit(out, k) = SextetBit(s, k)
<1> DEFINE q == k \div 24
           r == k % 24
           a == t[4 * q + 1]  b == t[4 * q + 2]  c == t[4 * q + 3]  d == t[4 * q + 4]
           x == out[3 * q + 1]  y == out[3 * q + 2]  z == out[3 * q + 3]
           Byte8(i) == out[3 * q + (i \div 8) + 1] \div <<128, 64, 32, 16, 8, 4, 2, 1>>[(i % 8) + 1]
           Sextet6(i) == t[4 * q + (i \div 6) + 1] \div <<32, 16, 8, 4, 2, 1>>[(i % 6) + 1]
<1>1. Len(out) = (6 * p) \div 8 /\ Len(out) \in Nat
  BY DEF ReadTo
<1>2. /\ q \in Nat /\ r \in 0 .. 23 /\ k = 24 * q + r
      /\ k \div 8 = 3 * q + (r \div 8) /\ k % 8 = r % 8
      /\ k \div 6 = 4 * q + (r \div 6) /\ k % 6 = r % 6
  BY <1>1
<1>3. ByteBit(out, k) = Byte8(r) % 2
  BY <1>2 DEF ByteBit
<1>4. SextetBit(s, k) = Sextet6(r) % 2
  <2>1. s[(k \div 6) + 1] = t[(k \div 6) + 1]
    <3>1. (k \div 6) + 1 \in 1 .. p
      BY <1>1
    <3>2. QED
      BY <3>1
  <2>2. QED
    BY <1>2, <2>1 DEF SextetBit
<1>5. /\ 3 * q + 1 <= Len(out)
      /\ r >= 8 => 3 * q + 2 <= Len(out)
      /\ r >= 16 => 3 * q + 3 <= Len(out)
  BY <1>1, <1>2
<1>6. /\ 4 * q + 2 <= p
      /\ r >= 8 => 4 * q + 3 <= p
      /\ r >= 16 => 4 * q + 4 <= p
  BY <1>1, <1>2, <1>5
<1> HIDE DEF q, r
<1>7. /\ a \in 0 .. 63 /\ b \in 0 .. 63
      /\ r >= 8 => c \in 0 .. 63
      /\ r >= 16 => d \in 0 .. 63
  <2>1. \A i \in 1 .. p : t[i] \in 0 .. 63
    BY DEF ReadTo
  <2>2. 4 * q + 1 \in 1 .. p /\ 4 * q + 2 \in 1 .. p
    BY <1>2, <1>6
  <2>3. r >= 8 => 4 * q + 3 \in 1 .. p
    BY <1>2, <1>6
  <2>4. r >= 16 => 4 * q + 4 \in 1 .. p
    BY <1>2, <1>6
  <2>5. QED
    BY <2>1, <2>2, <2>3, <2>4
<1>8. \A i \in 1 .. Len(out) : out[i] = Octet(t, i)
  BY DEF ReadTo
<1>9. x = ((a * 4) % 256) + (b \div 16)
  <2>1. x = Octet(t, 3 * q + 1)
    <3>1. 3 * q + 1 \in 1 .. Len(out)
      BY <1>1, <1>2, <1>5
    <3>2. x = Octet(t, 3 * q + 1)
      BY <1>8, <3>1
    <3>3. QED
      BY <3>2
  <2>2. \A i \in 1 .. 1 + 1 : t[4 * q + i] \in 0 .. 63
    <3>1. \A i \in 1 .. 2 : i = 1 \/ i = 2
      OBVIOUS
    <3>2. QED
      BY <1>7, <3>1
  <2>3. QED
    BY <1>2, <2>1, <2>2, OctetNat
<1>10. r >= 8 => y = ((b * 16) % 256) + (c \div 4)
  <2>1. SUFFICES ASSUME r >= 8 PROVE y = ((b * 16) % 256) + (c \div 4)
    OBVIOUS
  <2>2. y = Octet(t, 3 * q + 2)
    <3>1. 3 * q + 2 \in 1 .. Len(out)
      BY <1>1, <1>2, <1>5, <2>1
    <3>2. y = Octet(t, 3 * q + 2)
      BY <1>8, <3>1
    <3>3. QED
      BY <3>2
  <2>3. \A i \in 1 .. 2 + 1 : t[4 * q + i] \in 0 .. 63
    <3>1. /\ t[4 * q + 1] \in 0 .. 63
          /\ t[4 * q + 2] \in 0 .. 63
          /\ t[4 * q + 3] \in 0 .. 63
      BY <1>7, <2>1
    <3>2. SUFFICES ASSUME NEW i \in 1 .. 2 + 1 PROVE t[4 * q + i] \in 0 .. 63
      OBVIOUS
    <3>3. i = 1 \/ i = 2 \/ i = 3
      OBVIOUS
    <3>4. QED
      BY <3>1, <3>3
  <2>4. QED
    BY <1>2, <2>2, <2>3, OctetNat
<1>11. r >= 16 => z = ((c * 64) % 256) + d
  <2>1. SUFFICES ASSUME r >= 16 PROVE z = ((c * 64) % 256) + d
    OBVIOUS
  <2>2. r >= 8 /\ z = Octet(t, 3 * q + 3)
    <3>1. 3 * q + 3 \in 1 .. Len(out)
      BY <1>1, <1>2, <1>5, <2>1
    <3>2. z = Octet(t, 3 * q + 3)
      BY <1>8, <3>1
    <3>3. r >= 8
      BY <1>2, <2>1
    <3>4. QED
      BY <3>2, <3>3
  <2>3. \A i \in 1 .. 3 + 1 : t[4 * q + i] \in 0 .. 63
    <3>1. /\ t[4 * q + 1] \in 0 .. 63
          /\ t[4 * q + 2] \in 0 .. 63
          /\ t[4 * q + 3] \in 0 .. 63
          /\ t[4 * q + 4] \in 0 .. 63
      BY <1>7, <2>1, <2>2
    <3>2. SUFFICES ASSUME NEW i \in 1 .. 3 + 1 PROVE t[4 * q + i] \in 0 .. 63
      OBVIOUS
    <3>3. i = 1 \/ i = 2 \/ i = 3 \/ i = 4
      OBVIOUS
    <3>4. QED
      BY <3>1, <3>3
  <2>4. QED
    BY <1>2, <2>2, <2>3, OctetNat
<1> HIDE DEF a, b, c, d, x, y, z
<1>12. CASE r \in 0 .. 7
  <2>1. /\ (x \div 128) % 2 = (a \div 32) % 2
        /\ (x \div 64) % 2 = (a \div 16) % 2
        /\ (x \div 32) % 2 = (a \div 8) % 2
        /\ (x \div 16) % 2 = (a \div 4) % 2
        /\ (x \div 8) % 2 = (a \div 2) % 2
        /\ (x \div 4) % 2 = (a \div 1) % 2
        /\ (x \div 2) % 2 = (b \div 32) % 2
        /\ (x \div 1) % 2 = (b \div 16) % 2
    <3>1. a \in 0 .. 63 /\ b \in 0 .. 63 /\ x = ((a * 4) % 256) + (b \div 16)
      BY <1>7, <1>9, Zenon
    <3>2. (x \div 128) % 2 = (a \div 32) % 2
      BY <3>1
    <3>3. (x \div 64) % 2 = (a \div 16) % 2
      BY <3>1
    <3>4. (x \div 32) % 2 = (a \div 8) % 2
      BY <3>1
    <3>5. (x \div 16) % 2 = (a \div 4) % 2
      BY <3>1
    <3>6. (x \div 8) % 2 = (a \div 2) % 2
      BY <3>1
    <3>7. (x \div 4) % 2 = (a \div 1) % 2
      BY <3>1
    <3>8. (x \div 2) % 2 = (b \div 32) % 2
      BY <3>1
    <3>9. (x \div 1) % 2 = (b \div 16) % 2
      BY <3>1
    <3>10. QED
      BY <3>2, <3>3, <3>4, <3>5, <3>6, <3>7, <3>8, <3>9
  <2>2. \A i \in 0 .. 7 : Byte8(i) % 2 = Sextet6(i) % 2
    <3>1. Byte8(0) % 2 = Sextet6(0) % 2
      BY <1>2, <2>1 DEF a, b, c, d, x, y, z
    <3>2. Byte8(1) % 2 = Sextet6(1) % 2
      BY <1>2, <2>1 DEF a, b, c, d, x, y, z
    <3>3. Byte8(2) % 2 = Sextet6(2) % 2
      BY <1>2, <2>1 DEF a, b, c, d, x, y, z
    <3>4. Byte8(3) % 2 = Sextet6(3) % 2
      BY <1>2, <2>1 DEF a, b, c, d, x, y, z
    <3>5. Byte8(4) % 2 = Sextet6(4) % 2
      BY <1>2, <2>1 DEF a, b, c, d, x, y, z
    <3>6. Byte8(5) % 2 = Sextet6(5) % 2
      BY <1>2, <2>1 DEF a, b, c, d, x, y, z
    <3>7. Byte8(6) % 2 = Sextet6(6) % 2
      BY <1>2, <2>1 DEF a, b, c, d, x, y, z
    <3>8. Byte8(7) % 2 = Sextet6(7) % 2
      BY <1>2, <2>1 DEF a, b, c, d, x, y, z
    <3>9. \A i \in 0 .. 7 : i = 0 \/ i = 1 \/ i = 2 \/ i = 3 \/ i = 4 \/ i = 5 \/ i = 6 \/ i = 7
      OBVIOUS
    <3> HIDE DEF Byte8, Sextet6
    <3>10. QED
      BY <3>1, <3>2, <3>3, <3>4, <3>5, <3>6, <3>7, <3>8, <3>9
  <2>3. QED
    BY <1>3, <1>4, <1>12, <2>2
<1>13. CASE r \in 8 .. 15
  <2>1. /\ (y \div 128) % 2 = (b \div 8) % 2
        /\ (y \div 64) % 2 = (b \div 4) % 2
        /\ (y \div 32) % 2 = (b \div 2) % 2
        /\ (y \div 16) % 2 = (b \div 1) % 2
        /\ (y \div 8) % 2 = (c \div 32) % 2
        /\ (y \div 4) % 2 = (c \div 16) % 2
        /\ (y \div 2) % 2 = (c \div 8) % 2
        /\ (y \div 1) % 2 = (c \div 4) % 2
    <3>1. r >= 8 /\ r >= 8
      BY <1>13
    <3>2. b \in 0 .. 63 /\ c \in 0 .. 63 /\ y = ((b * 16) % 256) + (c \div 4)
      BY <1>7, <1>10, <3>1, Zenon
    <3>3. (y \div 128) % 2 = (b \div 8) % 2
      BY <3>2
    <3>4. (y \div 64) % 2 = (b \div 4) % 2
      BY <3>2
    <3>5. (y \div 32) % 2 = (b \div 2) % 2
      BY <3>2
    <3>6. (y \div 16) % 2 = (b \div 1) % 2
      BY <3>2
    <3>7. (y \div 8) % 2 = (c \div 32) % 2
      BY <3>2
    <3>8. (y \div 4) % 2 = (c \div 16) % 2
      BY <3>2
    <3>9. (y \div 2) % 2 = (c \div 8) % 2
      BY <3>2
    <3>10. (y \div 1) % 2 = (c \div 4) % 2
      BY <3>2
    <3>11. QED
      BY <3>3, <3>4, <3>5, <3>6, <3>7, <3>8, <3>9, <3>10
  <2>2. \A i \in 8 .. 15 : Byte8(i) % 2 = Sextet6(i) % 2
    <3>1. Byte8(8) % 2 = Sextet6(8) % 2
      BY <1>2, <2>1 DEF a, b, c, d, x, y, z
    <3>2. Byte8(9) % 2 = Sextet6(9) % 2
      BY <1>2, <2>1 DEF a, b, c, d, x, y, z
    <3>3. Byte8(10) % 2 = Sextet6(10) % 2
      BY <1>2, <2>1 DEF a, b, c, d, x, y, z
    <3>4. Byte8(11) % 2 = Sextet6(11) % 2
      BY <1>2, <2>1 DEF a, b, c, d, x, y, z
    <3>5. Byte8(12) % 2 = Sextet6(12) % 2
      BY <1>2, <2>1 DEF a, b, c, d, x, y, z
    <3>6. Byte8(13) % 2 = Sextet6(13) % 2
      BY <1>2, <2>1 DEF a, b, c, d, x, y, z
    <3>7. Byte8(14) % 2 = Sextet6(14) % 2
      BY <1>2, <2>1 DEF a, b, c, d, x, y, z
    <3>8. Byte8(15) % 2 = Sextet6(15) % 2
      BY <1>2, <2>1 DEF a, b, c, d, x, y, z
    <3>9. \A i \in 8 .. 15 : i = 8 \/ i = 9 \/ i = 10 \/ i = 11 \/ i = 12 \/ i = 13 \/ i = 14 \/ i = 15
      OBVIOUS
    <3> HIDE DEF Byte8, Sextet6
    <3>10. QED
      BY <3>1, <3>2, <3>3, <3>4, <3>5, <3>6, <3>7, <3>8, <3>9
  <2>3. QED
    BY <1>3, <1>4, <1>13, <2>2
<1>14. CASE r \in 16 .. 23
  <2>1. /\ (z \div 128) % 2 = (c \div 2) % 2
        /\ (z \div 64) % 2 = (c \div 1) % 2
        /\ (z \div 32) % 2 = (d \div 32) % 2
        /\ (z \div 16) % 2 = (d \div 16) % 2
        /\ (z \div 8) % 2 = (d \div 8) % 2
        /\ (z \div 4) % 2 = (d \div 4) % 2
        /\ (z \div 2) % 2 = (d \div 2) % 2
        /\ (z \div 1) % 2 = (d \div 1) % 2
    <3>1. r >= 16 /\ r >= 8
      BY <1>14
    <3>2. c \in 0 .. 63 /\ d \in 0 .. 63 /\ z = ((c * 64) % 256) + d
      BY <1>7, <1>11, <3>1, Zenon
    <3>3. (z \div 128) % 2 = (c \div 2) % 2
      BY <3>2
    <3>4. (z \div 64) % 2 = (c \div 1) % 2
      BY <3>2
    <3>5. (z \div 32) % 2 = (d \div 32) % 2
      BY <3>2
    <3>6. (z \div 16) % 2 = (d \div 16) % 2
      BY <3>2
    <3>7. (z \div 8) % 2 = (d \div 8) % 2
      BY <3>2
    <3>8. (z \div 4) % 2 = (d \div 4) % 2
      BY <3>2
    <3>9. (z \div 2) % 2 = (d \div 2) % 2
      BY <3>2
    <3>10. (z \div 1) % 2 = (d \div 1) % 2
      BY <3>2
    <3>11. QED
      BY <3>3, <3>4, <3>5, <3>6, <3>7, <3>8, <3>9, <3>10
  <2>2. \A i \in 16 .. 23 : Byte8(i) % 2 = Sextet6(i) % 2
    <3>1. Byte8(16) % 2 = Sextet6(16) % 2
      BY <1>2, <2>1 DEF a, b, c, d, x, y, z
    <3>2. Byte8(17) % 2 = Sextet6(17) % 2
      BY <1>2, <2>1 DEF a, b, c, d, x, y, z
    <3>3. Byte8(18) % 2 = Sextet6(18) % 2
      BY <1>2, <2>1 DEF a, b, c, d, x, y, z
    <3>4. Byte8(19) % 2 = Sextet6(19) % 2
      BY <1>2, <2>1 DEF a, b, c, d, x, y, z
    <3>5. Byte8(20) % 2 = Sextet6(20) % 2
      BY <1>2, <2>1 DEF a, b, c, d, x, y, z
    <3>6. Byte8(21) % 2 = Sextet6(21) % 2
      BY <1>2, <2>1 DEF a, b, c, d, x, y, z
    <3>7. Byte8(22) % 2 = Sextet6(22) % 2
      BY <1>2, <2>1 DEF a, b, c, d, x, y, z
    <3>8. Byte8(23) % 2 = Sextet6(23) % 2
      BY <1>2, <2>1 DEF a, b, c, d, x, y, z
    <3>9. \A i \in 16 .. 23 : i = 16 \/ i = 17 \/ i = 18 \/ i = 19 \/ i = 20 \/ i = 21 \/ i = 22 \/ i = 23
      OBVIOUS
    <3> HIDE DEF Byte8, Sextet6
    <3>10. QED
      BY <3>1, <3>2, <3>3, <3>4, <3>5, <3>6, <3>7, <3>8, <3>9
  <2>3. QED
    BY <1>3, <1>4, <1>14, <2>2
<1>15. r \in 0 .. 7 \/ r \in 8 .. 15 \/ r \in 16 .. 23
  BY <1>2
<1>16. QED
  BY <1>12, <1>13, <1>14, <1>15

\* What is trimmed is the beginning of the text.
LEMMA TrimmedIsPrefix ==
  ASSUME NEW s \in Seq(0 .. Bad)
  PROVE  /\ Trimmed(s) \in Seq(0 .. Bad) /\ Len(Trimmed(s)) <= Len(s)
         /\ \A i \in 1 .. Len(Trimmed(s)) : Trimmed(s)[i] = s[i]
<1> DEFINE S == {0} \cup {i \in 1 .. Len(s) : s[i] # Blank}
<1>1. Len(s) \in Nat /\ S \subseteq 0 .. Len(s) /\ S # {}
  OBVIOUS
<1>2. Trimmed(s) = SubSeq(s, 1, Max(S))
  BY DEF Trimmed
<1> HIDE DEF S
<1>3. Max(S) \in 0 .. Len(s)
  BY <1>1, MaxOf
<1>4. \A i \in 1 .. Max(S) : s[i] \in 0 .. Bad
  <2>1. \A i \in 1 .. Len(s) : s[i] \in 0 .. Bad
    BY ElementOfSeq
  <2>2. \A i \in 1 .. Max(S) : i \in 1 .. Len(s)
    BY <1>1, <1>3
  <2>3. QED
    BY <2>1, <2>2
<1>5. /\ SubSeq(s, 1, Max(S)) \in Seq(0 .. Bad) /\ Len(SubSeq(s, 1, Max(S))) = Max(S)
      /\ \A i \in 1 .. Max(S) : SubSeq(s, 1, Max(S))[i] = s[i]
  BY <1>1, <1>3, <1>4
<1>6. QED
  BY <1>1, <1>2, <1>3, <1>5

\* The text before the first padding.
LEMMA SextetsUpTo ==
  ASSUME chars \in Seq(0 .. Bad), NEW q \in Nat,
         q <= 4 * (Len(Trimmed(chars)) \div 4),
         \A i \in 1 .. q : Trimmed(chars)[i] \in 0 .. 63,
         \/ q = 4 * (Len(Trimmed(chars)) \div 4)
         \/ q < 4 * (Len(Trimmed(chars)) \div 4) /\ Trimmed(chars)[q + 1] = Pad
  PROVE  Len(Sextets) = q /\ \A i \in 1 .. q : Sextets[i] = Trimmed(chars)[i]
<1> DEFINE t == Trimmed(chars)
           G == 4 * (Len(t) \div 4)
           u == SubSeq(chars, 1, G)
           pads == {i \in DOMAIN u : u[i] = Pad}
           m == CHOOSE i \in pads : \A j \in pads : i <= j
<1>1. /\ t \in Seq(0 .. Bad) /\ Len(t) <= Len(chars) /\ Len(chars) \in Nat
      /\ \A i \in 1 .. Len(t) : t[i] = chars[i]
  BY TrimmedIsPrefix
<1>2. Sextets = IF pads = {} THEN u ELSE SubSeq(u, 1, m - 1)
  BY DEF Sextets
<1> HIDE DEF t
<1>3. Len(t) \in Nat /\ G \in Nat /\ G <= Len(t)
  BY <1>1
<1>4. \A i \in 1 .. q : t[i] \in 0 .. 63
  BY DEF t
<1>5. q <= G /\ (q = G \/ (q < G /\ t[q + 1] = Pad))
  BY DEF t
<1> HIDE DEF G
<1>6. /\ u \in Seq(0 .. Bad) /\ Len(u) = G /\ DOMAIN u = 1 .. G
      /\ \A i \in 1 .. G : u[i] = t[i]
  <2>1. \A i \in 1 .. G : i \in 1 .. Len(t) /\ i \in 1 .. Len(chars)
    BY <1>1, <1>3
  <2>2. \A i \in 1 .. G : chars[i] \in 0 .. Bad
    BY <2>1, ElementOfSeq
  <2>3. /\ u \in Seq(0 .. Bad) /\ Len(u) = G
        /\ \A i \in 1 .. G : u[i] = chars[i]
    BY <1>3, <2>2, SubSeqProperties
  <2>4. DOMAIN u = 1 .. G
    BY <2>3, LenProperties
  <2>5. QED
    BY <1>1, <2>1, <2>3, <2>4
<1> HIDE DEF u
<1>7. Pad \notin 0 .. 63
  BY DEF Pad
<1>8. CASE q = G
  <2>1. pads = {}
    <3>1. \A i \in 1 .. G : u[i] # Pad
      <4>1. TAKE i \in 1 .. G
      <4>2. i \in 1 .. q
        BY <1>8
      <4>3. u[i] = t[i] /\ t[i] \in 0 .. 63
        BY <1>4, <1>6, <4>2
      <4>4. QED
        BY <1>7, <4>3
    <3>2. QED
      BY <1>6, <3>1
  <2>2. QED
    BY <1>2, <1>6, <1>8, <2>1 DEF t
<1>9. CASE q < G /\ t[q + 1] = Pad
  <2>1. q + 1 \in pads
    BY <1>3, <1>6, <1>9
  <2>2. \A j \in pads : j \in Nat /\ q + 1 <= j
    <3>1. TAKE j \in pads
    <3>2. j \in 1 .. G /\ t[j] = Pad
      BY <1>6
    <3>3. j \notin 1 .. q
      BY <1>4, <1>7, <3>2
    <3>4. QED
      BY <3>2, <3>3, <1>3
  <2> HIDE DEF pads
  <2>3. m \in pads /\ \A j \in pads : m <= j
    BY <2>1, <2>2
  <2> HIDE DEF m
  <2>4. m = q + 1
    BY <2>1, <2>2, <2>3
  <2>5. Sextets = SubSeq(u, 1, q)
    <3>1. m - 1 = q
      BY <2>4
    <3>2. QED
      BY <1>2, <2>1, <3>1
  <2>6. /\ Len(SubSeq(u, 1, q)) = q
        /\ \A i \in 1 .. q : SubSeq(u, 1, q)[i] = t[i]
    BY <1>3, <1>6, <1>9
  <2>7. QED
    BY <2>5, <2>6 DEF t
<1>10. QED
  BY <1>5, <1>8, <1>9

LEMMA DecodedBits ==
  ASSUME chars \in Seq(0 .. Bad), Len(chars) <= MaxChars, MaxChars \in Nat
  PROVE  ReadsTheSextets
<1> DEFINE t == Trimmed(chars)
           G == 4 * (Len(t) \div 4)
           cap == ably_base64_decode_max_len(Len(chars))
           s == Groups(t, cap)
           r == ably_base64_decode(chars, cap)
<1>1. t \in Seq(0 .. Bad) /\ Len(t) <= Len(chars) /\ Len(chars) \in Nat /\ Len(t) \in Nat
  BY TrimmedIsPrefix
<1>2. r = [ok |-> s.state # "refused", out |-> s.out]
  BY DEF ably_base64_decode
<1>3. ably_base64_decode(chars, 3 * MaxChars) = r
  <2>1. /\ cap \in Nat /\ 3 * MaxChars \in Nat
        /\ 3 * (Len(t) \div 4) <= cap /\ 3 * (Len(t) \div 4) <= 3 * MaxChars
    <3> HIDE DEF t
    <3>1. QED
      BY <1>1 DEF ably_base64_decode_max_len
  <2>2. Groups(t, 3 * MaxChars) = Groups(t, cap)
    <3> HIDE DEF t, cap
    <3>1. QED
      BY <1>1, <2>1, RoomEnough
  <2>3. QED
    BY <2>2 DEF ably_base64_decode
<1>4. ReadState(s, t, G)
  BY <1>1, GroupsRead
<1> HIDE DEF s, r, cap, G
<1>5. ASSUME r.ok
      PROVE  /\ Len(r.out) = (6 * Len(Sextets)) \div 8
             /\ \A k \in 0 .. 8 * Len(r.out) - 1 : ByteBit(r.out, k) = SextetBit(Sextets, k)
  <2>1. s.state # "refused" /\ r.out = s.out
    BY <1>2, <1>5
  <2>2. G \in Nat
    BY <1>1 DEF G
  <2>3. \E q \in 0 .. G : ReadTo(s.out, t, q) /\ (q = G \/ (q < G /\ t[q + 1] = Pad))
    <3>1. CASE s.state = "more"
      <4>1. G \in 0 .. G
        BY <2>2
      <4>2. QED
        BY <1>4, <3>1, <4>1 DEF ReadState
    <3>2. CASE s.state = "done"
      <4>1. PICK q \in 0 .. G - 1 : t[q + 1] = Pad /\ ReadTo(s.out, t, q)
        BY <1>4, <3>2 DEF ReadState
      <4>2. q \in 0 .. G /\ q < G
        BY <2>2
      <4>3. QED
        BY <4>1, <4>2
    <3>3. QED
      BY <1>4, <2>1, <3>1, <3>2 DEF ReadState
  <2>4. PICK q \in 0 .. G : ReadTo(s.out, t, q) /\ (q = G \/ (q < G /\ t[q + 1] = Pad))
    BY <2>3
  <2>5. q \in Nat /\ q <= G
    BY <2>2
  <2>6. \A i \in 1 .. q : t[i] \in 0 .. 63
    BY <2>4 DEF ReadTo
  <2>7. Len(Sextets) = q /\ \A i \in 1 .. q : Sextets[i] = t[i]
    BY <2>4, <2>5, <2>6, SextetsUpTo DEF G
  <2>8. Len(s.out) = (6 * q) \div 8
    BY <2>4 DEF ReadTo
  <2>9. \A k \in 0 .. 8 * Len(s.out) - 1 : ByteBit(s.out, k) = SextetBit(Sextets, k)
    <3>1. q \in Nat /\ ReadTo(s.out, t, q) /\ \A i \in 1 .. q : Sextets[i] = t[i]
      BY <2>4, <2>5, <2>7
    <3>2. QED
      BY <3>1, SameBits
  <2>10. QED
    BY <2>1, <2>7, <2>8, <2>9
<1>6. QED
  BY <1>3, <1>5 DEF ReadsTheSextets, r, cap

-----------------------------------------------------------------------------
TypeOK64 == bytes \in Seq(Byte) /\ chars \in Seq(0 .. Bad) /\ Len(chars) <= MaxChars

\* The type invariant of base64.c's inputs.
LEMMA TypeCorrect64 == Spec64 => []TypeOK64
<1>1. Init64 => TypeOK64
  BY Base64Assumption DEF Init64, TypeOK64
<1>2. TypeOK64 /\ [Next64]_<<bytes, chars>> => TypeOK64'
  <2> SUFFICES ASSUME TypeOK64, [Next64]_<<bytes, chars>> PROVE TypeOK64'
    OBVIOUS
  <2>1. CASE UNCHANGED <<bytes, chars>>
    BY <2>1 DEF TypeOK64
  <2>2. ASSUME NEW b \in Bytes64, bytes' = Append(bytes, b), UNCHANGED chars PROVE TypeOK64'
    <3>1. b \in Byte
      BY Base64Assumption DEF Byte
    <3>2. QED
      BY <2>2, <3>1, AppendProperties DEF TypeOK64
  <2>3. ASSUME NEW c \in Chars64, Len(chars) < MaxChars, chars' = Append(chars, c), UNCHANGED bytes
        PROVE  TypeOK64'
    <3>1. c \in 0 .. Bad /\ MaxChars \in Nat
      BY Base64Assumption
    <3>2. chars' \in Seq(0 .. Bad) /\ Len(chars') = Len(chars) + 1 /\ Len(chars) \in Nat
      BY <2>3, <3>1, AppendProperties DEF TypeOK64
    <3>3. QED
      BY <2>3, <3>1, <3>2 DEF TypeOK64
  <2>4. QED
    BY <2>1, <2>2, <2>3 DEF Next64
<1>3. QED
  BY <1>1, <1>2, PTL DEF Spec64

\* base64.c is right both ways: ably_base64_decode gives back what
\* ably_base64_encode wrote, in a buffer that is just large enough and not in one
\* a byte too small, and of any other text it accepts it reads the very bits.
THEOREM Base64IsExact == Spec64 => []Base64Exact
<1>1. TypeOK64 => Base64Exact
  <2> SUFFICES ASSUME TypeOK64 PROVE Base64Exact
    OBVIOUS
  <2>1. bytes \in Seq(Byte) /\ chars \in Seq(0 .. Bad) /\ Len(chars) <= MaxChars
    BY DEF TypeOK64
  <2>2. /\ <<>> \in Seq({Blank}) /\ <<Blank>> \in Seq({Blank})
        /\ <<Blank, Blank, Blank, Blank>> \in Seq({Blank})
    OBVIOUS
  <2>3. \A blanks \in {<<>>, <<Blank>>, <<Blank, Blank, Blank, Blank>>} :
          blanks \in Seq({Blank})
    BY <2>2
  <2>4. RoundTrip
    BY <2>1, <2>2, <2>3, EncodedComesBack DEF RoundTrip
  <2>5. ReadsTheSextets
    BY <2>1, DecodedBits, Base64Assumption
  <2>6. QED
    BY <2>4, <2>5 DEF Base64Exact
<1>2. QED
  BY <1>1, TypeCorrect64, PTL

\* The values of the first bytes of an integer.
ValueSteps(f, s, n) ==
  f = [k \in 0 .. n |-> IF k = 0 THEN 0 ELSE (f[k - 1] * 128) + (s[k] % 128)]

LEMMA ValueLonger ==
  ASSUME NEW s, NEW n \in Nat, NEW g, ValueSteps(g, s, n)
  PROVE  \E h : ValueSteps(h, s, n + 1)
<1> DEFINE h == [k \in 0 .. n + 1 |-> IF k = 0 THEN 0 ELSE (g[k - 1] * 128) + (s[k] % 128)]
<1>1. g = [k \in 0 .. n |-> IF k = 0 THEN 0 ELSE (g[k - 1] * 128) + (s[k] % 128)]
  BY DEF ValueSteps
<1>2. \A k \in 0 .. n : h[k] = g[k]
  <2>1. TAKE k \in 0 .. n
  <2>2. h[k] = IF k = 0 THEN 0 ELSE (g[k - 1] * 128) + (s[k] % 128)
    OBVIOUS
  <2>3. g[k] = IF k = 0 THEN 0 ELSE (g[k - 1] * 128) + (s[k] % 128)
    BY <1>1
  <2>4. QED
    BY <2>2, <2>3
<1>3. h = [k \in 0 .. n + 1 |-> IF k = 0 THEN 0 ELSE (g[k - 1] * 128) + (s[k] % 128)]
  OBVIOUS
<1> HIDE DEF h
<1>4. \A k \in 0 .. n + 1 : k # 0 => h[k - 1] = g[k - 1]
  BY <1>2
<1>5. [k \in 0 .. n + 1 |-> IF k = 0 THEN 0 ELSE (g[k - 1] * 128) + (s[k] % 128)]
        = [k \in 0 .. n + 1 |-> IF k = 0 THEN 0 ELSE (h[k - 1] * 128) + (s[k] % 128)]
  BY <1>4
<1>6. ValueSteps(h, s, n + 1)
  BY <1>3, <1>5 DEF ValueSteps
<1>7. QED
  BY <1>6

LEMMA ValueExists ==
  ASSUME NEW s
  PROVE  \A n \in Nat : \E f : ValueSteps(f, s, n)
<1> DEFINE S == {n \in Nat : \E f : ValueSteps(f, s, n)}
<1>1. 0 \in S
  <2> DEFINE h == [k \in 0 .. 0 |-> 0]
  <2>1. h = [k \in 0 .. 0 |-> IF k = 0 THEN 0 ELSE (h[k - 1] * 128) + (s[k] % 128)]
    OBVIOUS
  <2>2. ValueSteps(h, s, 0)
    BY <2>1 DEF ValueSteps
  <2>3. QED
    BY <2>2
<1>2. \A n \in Nat : n \in S => n + 1 \in S
  BY ValueLonger
<1> HIDE DEF S
<1>3. \A n \in Nat : n \in S
  BY <1>1, <1>2, NatInduct
<1>4. QED
  BY <1>3 DEF S

LEMMA ValueSame ==
  ASSUME NEW s, NEW n \in Nat, NEW f, NEW g,
         ValueSteps(f, s, n), ValueSteps(g, s, n + 1)
  PROVE  f[n] = g[n]
<1> DEFINE S == {k \in Nat : k <= n => f[k] = g[k]}
<1>1. \A k \in 0 .. n : f[k] = IF k = 0 THEN 0 ELSE (f[k - 1] * 128) + (s[k] % 128)
  BY DEF ValueSteps
<1>2. \A k \in 0 .. n + 1 : g[k] = IF k = 0 THEN 0 ELSE (g[k - 1] * 128) + (s[k] % 128)
  BY DEF ValueSteps
<1>3. 0 \in S
  <2>1. 0 \in 0 .. n /\ 0 \in 0 .. n + 1
    OBVIOUS
  <2>2. QED
    BY <1>1, <1>2, <2>1
<1>4. ASSUME NEW k \in Nat, k \in S PROVE k + 1 \in S
  <2>1. SUFFICES ASSUME k + 1 <= n PROVE f[k + 1] = g[k + 1]
    OBVIOUS
  <2>2. f[k] = g[k]
    BY <1>4, <2>1
  <2>3. k + 1 \in 0 .. n /\ k + 1 \in 0 .. n + 1 /\ k + 1 # 0 /\ (k + 1) - 1 = k
    BY <2>1
  <2>4. f[k + 1] = (f[k] * 128) + (s[k + 1] % 128) /\ g[k + 1] = (g[k] * 128) + (s[k + 1] % 128)
    BY <1>1, <1>2, <2>3
  <2>5. QED
    BY <2>2, <2>4
<1> HIDE DEF S
<1>5. \A k \in Nat : k \in S
  BY <1>3, <1>4, NatInduct
<1>6. QED
  BY <1>5 DEF S

LEMMA ValueLoop ==
  ASSUME NEW s
  PROVE  /\ VarintValue(s, 0) = 0
         /\ \A n \in Nat : VarintValue(s, n + 1) = (VarintValue(s, n) * 128) + (s[n + 1] % 128)
<1> DEFINE Part(n) == CHOOSE f : ValueSteps(f, s, n)
           h == [n \in Nat |-> Part(n)[n]]
           f == CHOOSE g : g = [k \in Nat |-> IF k = 0 THEN 0 ELSE (g[k - 1] * 128) + (s[k] % 128)]
<1>1. \A n \in Nat : ValueSteps(Part(n), s, n)
  BY ValueExists
<1> HIDE DEF Part
<1>2. ASSUME NEW n \in Nat
      PROVE  /\ Part(0)[0] = 0
             /\ Part(n + 1)[n + 1] = (Part(n)[n] * 128) + (s[n + 1] % 128)
  <2>1. ValueSteps(Part(n), s, n) /\ ValueSteps(Part(n + 1), s, n + 1)
    BY <1>1
  <2>2. Part(n)[n] = Part(n + 1)[n]
    BY <2>1, ValueSame
  <2>3. Part(n + 1)[n + 1] = (Part(n + 1)[n] * 128) + (s[n + 1] % 128)
    <3>1. n + 1 \in 0 .. n + 1 /\ n + 1 # 0 /\ (n + 1) - 1 = n
      OBVIOUS
    <3>2. \A k \in 0 .. n + 1 : Part(n + 1)[k] = IF k = 0 THEN 0 ELSE (Part(n + 1)[k - 1] * 128) + (s[k] % 128)
      BY <2>1 DEF ValueSteps
    <3>3. QED
      BY <3>1, <3>2
  <2>4. Part(0)[0] = 0
    <3>1. ValueSteps(Part(0), s, 0) /\ 0 \in 0 .. 0
      BY <1>1
    <3>2. QED
      BY <3>1 DEF ValueSteps
  <2>5. QED
    BY <2>2, <2>3, <2>4
<1>3. ASSUME NEW k \in Nat
      PROVE  h[k] = IF k = 0 THEN 0 ELSE (h[k - 1] * 128) + (s[k] % 128)
  <2>1. CASE k = 0
    BY <1>2, <2>1
  <2>2. CASE k # 0
    <3>1. k - 1 \in Nat /\ (k - 1) + 1 = k
      BY <2>2
    <3>2. h[k] = Part(k)[k] /\ h[k - 1] = Part(k - 1)[k - 1]
      BY <3>1
    <3>3. Part((k - 1) + 1)[(k - 1) + 1] = (Part(k - 1)[k - 1] * 128) + (s[(k - 1) + 1] % 128)
      BY <1>2, <3>1
    <3>4. Part(k)[k] = (Part(k - 1)[k - 1] * 128) + (s[k] % 128)
      BY <3>1, <3>3
    <3>5. QED
      BY <2>2, <3>2, <3>4
  <2>3. QED
    BY <2>1, <2>2
<1>4. h = [k \in Nat |-> h[k]]
  OBVIOUS
<1> HIDE DEF h
<1>5. [k \in Nat |-> h[k]] = [k \in Nat |-> IF k = 0 THEN 0 ELSE (h[k - 1] * 128) + (s[k] % 128)]
  BY <1>3
<1>6. \E g : g = [k \in Nat |-> IF k = 0 THEN 0 ELSE (g[k - 1] * 128) + (s[k] % 128)]
  BY <1>4, <1>5
<1>7. f = [k \in Nat |-> IF k = 0 THEN 0 ELSE (f[k - 1] * 128) + (s[k] % 128)]
  BY <1>6
<1>8. \A n \in Nat : VarintValue(s, n) = f[n]
  BY DEF VarintValue
<1> HIDE DEF f
<1>9. f[0] = 0
  BY <1>7
<1>10. ASSUME NEW n \in Nat PROVE f[n + 1] = (f[n] * 128) + (s[n + 1] % 128)
  <2>1. n + 1 \in Nat /\ n + 1 # 0 /\ (n + 1) - 1 = n
    OBVIOUS
  <2>2. f[n + 1] = (f[(n + 1) - 1] * 128) + (s[n + 1] % 128)
    BY <1>7, <2>1
  <2>3. QED
    BY <2>1, <2>2
<1>11. 0 \in Nat /\ \A n \in Nat : n + 1 \in Nat
  OBVIOUS
<1>12. QED
  BY <1>8, <1>9, <1>10, <1>11

\* A copy, byte by byte.
CopySteps(f, out, addr, win, n) ==
  f = [k \in 0 .. n |-> IF k = 0 THEN [err |-> "OK", out |-> out] ELSE CopyByte(f[k - 1], addr + k - 1, win)]

LEMMA CopyLonger ==
  ASSUME NEW out, NEW addr, NEW win, NEW n \in Nat, NEW g, CopySteps(g, out, addr, win, n)
  PROVE  \E h : CopySteps(h, out, addr, win, n + 1)
<1> DEFINE h == [k \in 0 .. n + 1 |-> IF k = 0 THEN [err |-> "OK", out |-> out] ELSE CopyByte(g[k - 1], addr + k - 1, win)]
<1>1. g = [k \in 0 .. n |-> IF k = 0 THEN [err |-> "OK", out |-> out] ELSE CopyByte(g[k - 1], addr + k - 1, win)]
  BY DEF CopySteps
<1>2. \A k \in 0 .. n : h[k] = g[k]
  <2>1. TAKE k \in 0 .. n
  <2>2. h[k] = IF k = 0 THEN [err |-> "OK", out |-> out] ELSE CopyByte(g[k - 1], addr + k - 1, win)
    OBVIOUS
  <2>3. g[k] = IF k = 0 THEN [err |-> "OK", out |-> out] ELSE CopyByte(g[k - 1], addr + k - 1, win)
    BY <1>1
  <2>4. QED
    BY <2>2, <2>3
<1>3. h = [k \in 0 .. n + 1 |-> IF k = 0 THEN [err |-> "OK", out |-> out] ELSE CopyByte(g[k - 1], addr + k - 1, win)]
  OBVIOUS
<1> HIDE DEF h
<1>4. \A k \in 0 .. n + 1 : k # 0 => h[k - 1] = g[k - 1]
  BY <1>2
<1>5. [k \in 0 .. n + 1 |-> IF k = 0 THEN [err |-> "OK", out |-> out] ELSE CopyByte(g[k - 1], addr + k - 1, win)]
        = [k \in 0 .. n + 1 |-> IF k = 0 THEN [err |-> "OK", out |-> out] ELSE CopyByte(h[k - 1], addr + k - 1, win)]
  BY <1>4
<1>6. CopySteps(h, out, addr, win, n + 1)
  BY <1>3, <1>5 DEF CopySteps
<1>7. QED
  BY <1>6

LEMMA CopyExists ==
  ASSUME NEW out, NEW addr, NEW win
  PROVE  \A n \in Nat : \E f : CopySteps(f, out, addr, win, n)
<1> DEFINE S == {n \in Nat : \E f : CopySteps(f, out, addr, win, n)}
<1>1. 0 \in S
  <2> DEFINE h == [k \in 0 .. 0 |-> [err |-> "OK", out |-> out]]
  <2>1. h = [k \in 0 .. 0 |-> IF k = 0 THEN [err |-> "OK", out |-> out] ELSE CopyByte(h[k - 1], addr + k - 1, win)]
    OBVIOUS
  <2>2. CopySteps(h, out, addr, win, 0)
    BY <2>1 DEF CopySteps
  <2>3. QED
    BY <2>2
<1>2. \A n \in Nat : n \in S => n + 1 \in S
  BY CopyLonger
<1> HIDE DEF S
<1>3. \A n \in Nat : n \in S
  BY <1>1, <1>2, NatInduct
<1>4. QED
  BY <1>3 DEF S

LEMMA CopySame ==
  ASSUME NEW out, NEW addr, NEW win, NEW n \in Nat, NEW f, NEW g,
         CopySteps(f, out, addr, win, n), CopySteps(g, out, addr, win, n + 1)
  PROVE  f[n] = g[n]
<1> DEFINE S == {k \in Nat : k <= n => f[k] = g[k]}
<1>1. \A k \in 0 .. n : f[k] = IF k = 0 THEN [err |-> "OK", out |-> out] ELSE CopyByte(f[k - 1], addr + k - 1, win)
  BY DEF CopySteps
<1>2. \A k \in 0 .. n + 1 : g[k] = IF k = 0 THEN [err |-> "OK", out |-> out] ELSE CopyByte(g[k - 1], addr + k - 1, win)
  BY DEF CopySteps
<1>3. 0 \in S
  <2>1. 0 \in 0 .. n /\ 0 \in 0 .. n + 1
    OBVIOUS
  <2>2. QED
    BY <1>1, <1>2, <2>1
<1>4. ASSUME NEW k \in Nat, k \in S PROVE k + 1 \in S
  <2>1. SUFFICES ASSUME k + 1 <= n PROVE f[k + 1] = g[k + 1]
    OBVIOUS
  <2>2. f[k] = g[k]
    BY <1>4, <2>1
  <2>3. k + 1 \in 0 .. n /\ k + 1 \in 0 .. n + 1 /\ k + 1 # 0 /\ (k + 1) - 1 = k
    BY <2>1
  <2>4. f[k + 1] = CopyByte(f[k], addr + (k + 1) - 1, win) /\ g[k + 1] = CopyByte(g[k], addr + (k + 1) - 1, win)
    BY <1>1, <1>2, <2>3
  <2>5. QED
    BY <2>2, <2>4
<1> HIDE DEF S
<1>5. \A k \in Nat : k \in S
  BY <1>3, <1>4, NatInduct
<1>6. QED
  BY <1>5 DEF S

LEMMA CopyLoop ==
  ASSUME NEW out, NEW addr, NEW win
  PROVE  /\ CopyBytes(out, addr, 0, win) = [err |-> "OK", out |-> out]
         /\ \A n \in Nat : CopyBytes(out, addr, n + 1, win) = CopyByte(CopyBytes(out, addr, n, win), addr + (n + 1) - 1, win)
<1> DEFINE Part(n) == CHOOSE f : CopySteps(f, out, addr, win, n)
           h == [n \in Nat |-> Part(n)[n]]
           f == CHOOSE g : g = [k \in Nat |-> IF k = 0 THEN [err |-> "OK", out |-> out] ELSE CopyByte(g[k - 1], addr + k - 1, win)]
<1>1. \A n \in Nat : CopySteps(Part(n), out, addr, win, n)
  BY CopyExists
<1> HIDE DEF Part
<1>2. ASSUME NEW n \in Nat
      PROVE  /\ Part(0)[0] = [err |-> "OK", out |-> out]
             /\ Part(n + 1)[n + 1] = CopyByte(Part(n)[n], addr + (n + 1) - 1, win)
  <2>1. CopySteps(Part(n), out, addr, win, n) /\ CopySteps(Part(n + 1), out, addr, win, n + 1)
    BY <1>1
  <2>2. Part(n)[n] = Part(n + 1)[n]
    BY <2>1, CopySame
  <2>3. Part(n + 1)[n + 1] = CopyByte(Part(n + 1)[n], addr + (n + 1) - 1, win)
    <3>1. n + 1 \in 0 .. n + 1 /\ n + 1 # 0 /\ (n + 1) - 1 = n
      OBVIOUS
    <3>2. \A k \in 0 .. n + 1 : Part(n + 1)[k] = IF k = 0 THEN [err |-> "OK", out |-> out] ELSE CopyByte(Part(n + 1)[k - 1], addr + k - 1, win)
      BY <2>1 DEF CopySteps
    <3>3. QED
      BY <3>1, <3>2
  <2>4. Part(0)[0] = [err |-> "OK", out |-> out]
    <3>1. CopySteps(Part(0), out, addr, win, 0) /\ 0 \in 0 .. 0
      BY <1>1
    <3>2. QED
      BY <3>1 DEF CopySteps
  <2>5. QED
    BY <2>2, <2>3, <2>4
<1>3. ASSUME NEW k \in Nat
      PROVE  h[k] = IF k = 0 THEN [err |-> "OK", out |-> out] ELSE CopyByte(h[k - 1], addr + k - 1, win)
  <2>1. CASE k = 0
    BY <1>2, <2>1
  <2>2. CASE k # 0
    <3>1. k - 1 \in Nat /\ (k - 1) + 1 = k
      BY <2>2
    <3>2. h[k] = Part(k)[k] /\ h[k - 1] = Part(k - 1)[k - 1]
      BY <3>1
    <3>3. Part((k - 1) + 1)[(k - 1) + 1] = CopyByte(Part(k - 1)[k - 1], addr + ((k - 1) + 1) - 1, win)
      BY <1>2, <3>1
    <3>4. Part(k)[k] = CopyByte(Part(k - 1)[k - 1], addr + k - 1, win)
      BY <3>1, <3>3
    <3>5. QED
      BY <2>2, <3>2, <3>4
  <2>3. QED
    BY <2>1, <2>2
<1>4. h = [k \in Nat |-> h[k]]
  OBVIOUS
<1> HIDE DEF h
<1>5. [k \in Nat |-> h[k]] = [k \in Nat |-> IF k = 0 THEN [err |-> "OK", out |-> out] ELSE CopyByte(h[k - 1], addr + k - 1, win)]
  BY <1>3
<1>6. \E g : g = [k \in Nat |-> IF k = 0 THEN [err |-> "OK", out |-> out] ELSE CopyByte(g[k - 1], addr + k - 1, win)]
  BY <1>4, <1>5
<1>7. f = [k \in Nat |-> IF k = 0 THEN [err |-> "OK", out |-> out] ELSE CopyByte(f[k - 1], addr + k - 1, win)]
  BY <1>6
<1>8. \A n \in Nat : CopyBytes(out, addr, n, win) = f[n]
  BY DEF CopyBytes
<1> HIDE DEF f
<1>9. f[0] = [err |-> "OK", out |-> out]
  BY <1>7
<1>10. ASSUME NEW n \in Nat PROVE f[n + 1] = CopyByte(f[n], addr + (n + 1) - 1, win)
  <2>1. n + 1 \in Nat /\ n + 1 # 0 /\ (n + 1) - 1 = n
    OBVIOUS
  <2>2. f[n + 1] = CopyByte(f[(n + 1) - 1], addr + (n + 1) - 1, win)
    BY <1>7, <2>1
  <2>3. QED
    BY <2>1, <2>2
<1>11. 0 \in Nat /\ \A n \in Nat : n + 1 \in Nat
  OBVIOUS
<1>12. QED
  BY <1>8, <1>9, <1>10, <1>11

\* A window, opcode by opcode.
OpcodeSteps(f, d, win, n) ==
  f = [k \in 0 .. n |-> IF k = 0 THEN d ELSE Opcode(f[k - 1], win)]

LEMMA OpcodeLonger ==
  ASSUME NEW d, NEW win, NEW n \in Nat, NEW g, OpcodeSteps(g, d, win, n)
  PROVE  \E h : OpcodeSteps(h, d, win, n + 1)
<1> DEFINE h == [k \in 0 .. n + 1 |-> IF k = 0 THEN d ELSE Opcode(g[k - 1], win)]
<1>1. g = [k \in 0 .. n |-> IF k = 0 THEN d ELSE Opcode(g[k - 1], win)]
  BY DEF OpcodeSteps
<1>2. \A k \in 0 .. n : h[k] = g[k]
  <2>1. TAKE k \in 0 .. n
  <2>2. h[k] = IF k = 0 THEN d ELSE Opcode(g[k - 1], win)
    OBVIOUS
  <2>3. g[k] = IF k = 0 THEN d ELSE Opcode(g[k - 1], win)
    BY <1>1
  <2>4. QED
    BY <2>2, <2>3
<1>3. h = [k \in 0 .. n + 1 |-> IF k = 0 THEN d ELSE Opcode(g[k - 1], win)]
  OBVIOUS
<1> HIDE DEF h
<1>4. \A k \in 0 .. n + 1 : k # 0 => h[k - 1] = g[k - 1]
  BY <1>2
<1>5. [k \in 0 .. n + 1 |-> IF k = 0 THEN d ELSE Opcode(g[k - 1], win)]
        = [k \in 0 .. n + 1 |-> IF k = 0 THEN d ELSE Opcode(h[k - 1], win)]
  BY <1>4
<1>6. OpcodeSteps(h, d, win, n + 1)
  BY <1>3, <1>5 DEF OpcodeSteps
<1>7. QED
  BY <1>6

LEMMA OpcodeExists ==
  ASSUME NEW d, NEW win
  PROVE  \A n \in Nat : \E f : OpcodeSteps(f, d, win, n)
<1> DEFINE S == {n \in Nat : \E f : OpcodeSteps(f, d, win, n)}
<1>1. 0 \in S
  <2> DEFINE h == [k \in 0 .. 0 |-> d]
  <2>1. h = [k \in 0 .. 0 |-> IF k = 0 THEN d ELSE Opcode(h[k - 1], win)]
    OBVIOUS
  <2>2. OpcodeSteps(h, d, win, 0)
    BY <2>1 DEF OpcodeSteps
  <2>3. QED
    BY <2>2
<1>2. \A n \in Nat : n \in S => n + 1 \in S
  BY OpcodeLonger
<1> HIDE DEF S
<1>3. \A n \in Nat : n \in S
  BY <1>1, <1>2, NatInduct
<1>4. QED
  BY <1>3 DEF S

LEMMA OpcodeSame ==
  ASSUME NEW d, NEW win, NEW n \in Nat, NEW f, NEW g,
         OpcodeSteps(f, d, win, n), OpcodeSteps(g, d, win, n + 1)
  PROVE  f[n] = g[n]
<1> DEFINE S == {k \in Nat : k <= n => f[k] = g[k]}
<1>1. \A k \in 0 .. n : f[k] = IF k = 0 THEN d ELSE Opcode(f[k - 1], win)
  BY DEF OpcodeSteps
<1>2. \A k \in 0 .. n + 1 : g[k] = IF k = 0 THEN d ELSE Opcode(g[k - 1], win)
  BY DEF OpcodeSteps
<1>3. 0 \in S
  <2>1. 0 \in 0 .. n /\ 0 \in 0 .. n + 1
    OBVIOUS
  <2>2. QED
    BY <1>1, <1>2, <2>1
<1>4. ASSUME NEW k \in Nat, k \in S PROVE k + 1 \in S
  <2>1. SUFFICES ASSUME k + 1 <= n PROVE f[k + 1] = g[k + 1]
    OBVIOUS
  <2>2. f[k] = g[k]
    BY <1>4, <2>1
  <2>3. k + 1 \in 0 .. n /\ k + 1 \in 0 .. n + 1 /\ k + 1 # 0 /\ (k + 1) - 1 = k
    BY <2>1
  <2>4. f[k + 1] = Opcode(f[k], win) /\ g[k + 1] = Opcode(g[k], win)
    BY <1>1, <1>2, <2>3
  <2>5. QED
    BY <2>2, <2>4
<1> HIDE DEF S
<1>5. \A k \in Nat : k \in S
  BY <1>3, <1>4, NatInduct
<1>6. QED
  BY <1>5 DEF S

LEMMA OpcodeLoop ==
  ASSUME NEW d, NEW win
  PROVE  /\ OpcodesRun(d, 0, win) = d
         /\ \A n \in Nat : OpcodesRun(d, n + 1, win) = Opcode(OpcodesRun(d, n, win), win)
<1> DEFINE Part(n) == CHOOSE f : OpcodeSteps(f, d, win, n)
           h == [n \in Nat |-> Part(n)[n]]
           f == CHOOSE g : g = [k \in Nat |-> IF k = 0 THEN d ELSE Opcode(g[k - 1], win)]
<1>1. \A n \in Nat : OpcodeSteps(Part(n), d, win, n)
  BY OpcodeExists
<1> HIDE DEF Part
<1>2. ASSUME NEW n \in Nat
      PROVE  /\ Part(0)[0] = d
             /\ Part(n + 1)[n + 1] = Opcode(Part(n)[n], win)
  <2>1. OpcodeSteps(Part(n), d, win, n) /\ OpcodeSteps(Part(n + 1), d, win, n + 1)
    BY <1>1
  <2>2. Part(n)[n] = Part(n + 1)[n]
    BY <2>1, OpcodeSame
  <2>3. Part(n + 1)[n + 1] = Opcode(Part(n + 1)[n], win)
    <3>1. n + 1 \in 0 .. n + 1 /\ n + 1 # 0 /\ (n + 1) - 1 = n
      OBVIOUS
    <3>2. \A k \in 0 .. n + 1 : Part(n + 1)[k] = IF k = 0 THEN d ELSE Opcode(Part(n + 1)[k - 1], win)
      BY <2>1 DEF OpcodeSteps
    <3>3. QED
      BY <3>1, <3>2
  <2>4. Part(0)[0] = d
    <3>1. OpcodeSteps(Part(0), d, win, 0) /\ 0 \in 0 .. 0
      BY <1>1
    <3>2. QED
      BY <3>1 DEF OpcodeSteps
  <2>5. QED
    BY <2>2, <2>3, <2>4
<1>3. ASSUME NEW k \in Nat
      PROVE  h[k] = IF k = 0 THEN d ELSE Opcode(h[k - 1], win)
  <2>1. CASE k = 0
    BY <1>2, <2>1
  <2>2. CASE k # 0
    <3>1. k - 1 \in Nat /\ (k - 1) + 1 = k
      BY <2>2
    <3>2. h[k] = Part(k)[k] /\ h[k - 1] = Part(k - 1)[k - 1]
      BY <3>1
    <3>3. Part((k - 1) + 1)[(k - 1) + 1] = Opcode(Part(k - 1)[k - 1], win)
      BY <1>2, <3>1
    <3>4. Part(k)[k] = Opcode(Part(k - 1)[k - 1], win)
      BY <3>1, <3>3
    <3>5. QED
      BY <2>2, <3>2, <3>4
  <2>3. QED
    BY <2>1, <2>2
<1>4. h = [k \in Nat |-> h[k]]
  OBVIOUS
<1> HIDE DEF h
<1>5. [k \in Nat |-> h[k]] = [k \in Nat |-> IF k = 0 THEN d ELSE Opcode(h[k - 1], win)]
  BY <1>3
<1>6. \E g : g = [k \in Nat |-> IF k = 0 THEN d ELSE Opcode(g[k - 1], win)]
  BY <1>4, <1>5
<1>7. f = [k \in Nat |-> IF k = 0 THEN d ELSE Opcode(f[k - 1], win)]
  BY <1>6
<1>8. \A n \in Nat : OpcodesRun(d, n, win) = f[n]
  BY DEF OpcodesRun
<1> HIDE DEF f
<1>9. f[0] = d
  BY <1>7
<1>10. ASSUME NEW n \in Nat PROVE f[n + 1] = Opcode(f[n], win)
  <2>1. n + 1 \in Nat /\ n + 1 # 0 /\ (n + 1) - 1 = n
    OBVIOUS
  <2>2. f[n + 1] = Opcode(f[(n + 1) - 1], win)
    BY <1>7, <2>1
  <2>3. QED
    BY <2>1, <2>2
<1>11. 0 \in Nat /\ \A n \in Nat : n + 1 \in Nat
  OBVIOUS
<1>12. QED
  BY <1>8, <1>9, <1>10, <1>11

\* A delta, window by window.
WindowSteps(f, r, n) ==
  f = [k \in 0 .. n |-> IF k = 0 THEN r ELSE NextWindow(f[k - 1])]

LEMMA WindowLonger ==
  ASSUME NEW r, NEW n \in Nat, NEW g, WindowSteps(g, r, n)
  PROVE  \E h : WindowSteps(h, r, n + 1)
<1> DEFINE h == [k \in 0 .. n + 1 |-> IF k = 0 THEN r ELSE NextWindow(g[k - 1])]
<1>1. g = [k \in 0 .. n |-> IF k = 0 THEN r ELSE NextWindow(g[k - 1])]
  BY DEF WindowSteps
<1>2. \A k \in 0 .. n : h[k] = g[k]
  <2>1. TAKE k \in 0 .. n
  <2>2. h[k] = IF k = 0 THEN r ELSE NextWindow(g[k - 1])
    OBVIOUS
  <2>3. g[k] = IF k = 0 THEN r ELSE NextWindow(g[k - 1])
    BY <1>1
  <2>4. QED
    BY <2>2, <2>3
<1>3. h = [k \in 0 .. n + 1 |-> IF k = 0 THEN r ELSE NextWindow(g[k - 1])]
  OBVIOUS
<1> HIDE DEF h
<1>4. \A k \in 0 .. n + 1 : k # 0 => h[k - 1] = g[k - 1]
  BY <1>2
<1>5. [k \in 0 .. n + 1 |-> IF k = 0 THEN r ELSE NextWindow(g[k - 1])]
        = [k \in 0 .. n + 1 |-> IF k = 0 THEN r ELSE NextWindow(h[k - 1])]
  BY <1>4
<1>6. WindowSteps(h, r, n + 1)
  BY <1>3, <1>5 DEF WindowSteps
<1>7. QED
  BY <1>6

LEMMA WindowExists ==
  ASSUME NEW r
  PROVE  \A n \in Nat : \E f : WindowSteps(f, r, n)
<1> DEFINE S == {n \in Nat : \E f : WindowSteps(f, r, n)}
<1>1. 0 \in S
  <2> DEFINE h == [k \in 0 .. 0 |-> r]
  <2>1. h = [k \in 0 .. 0 |-> IF k = 0 THEN r ELSE NextWindow(h[k - 1])]
    OBVIOUS
  <2>2. WindowSteps(h, r, 0)
    BY <2>1 DEF WindowSteps
  <2>3. QED
    BY <2>2
<1>2. \A n \in Nat : n \in S => n + 1 \in S
  BY WindowLonger
<1> HIDE DEF S
<1>3. \A n \in Nat : n \in S
  BY <1>1, <1>2, NatInduct
<1>4. QED
  BY <1>3 DEF S

LEMMA WindowSame ==
  ASSUME NEW r, NEW n \in Nat, NEW f, NEW g,
         WindowSteps(f, r, n), WindowSteps(g, r, n + 1)
  PROVE  f[n] = g[n]
<1> DEFINE S == {k \in Nat : k <= n => f[k] = g[k]}
<1>1. \A k \in 0 .. n : f[k] = IF k = 0 THEN r ELSE NextWindow(f[k - 1])
  BY DEF WindowSteps
<1>2. \A k \in 0 .. n + 1 : g[k] = IF k = 0 THEN r ELSE NextWindow(g[k - 1])
  BY DEF WindowSteps
<1>3. 0 \in S
  <2>1. 0 \in 0 .. n /\ 0 \in 0 .. n + 1
    OBVIOUS
  <2>2. QED
    BY <1>1, <1>2, <2>1
<1>4. ASSUME NEW k \in Nat, k \in S PROVE k + 1 \in S
  <2>1. SUFFICES ASSUME k + 1 <= n PROVE f[k + 1] = g[k + 1]
    OBVIOUS
  <2>2. f[k] = g[k]
    BY <1>4, <2>1
  <2>3. k + 1 \in 0 .. n /\ k + 1 \in 0 .. n + 1 /\ k + 1 # 0 /\ (k + 1) - 1 = k
    BY <2>1
  <2>4. f[k + 1] = NextWindow(f[k]) /\ g[k + 1] = NextWindow(g[k])
    BY <1>1, <1>2, <2>3
  <2>5. QED
    BY <2>2, <2>4
<1> HIDE DEF S
<1>5. \A k \in Nat : k \in S
  BY <1>3, <1>4, NatInduct
<1>6. QED
  BY <1>5 DEF S

LEMMA WindowLoop ==
  ASSUME NEW r
  PROVE  /\ WindowsRun(r, 0) = r
         /\ \A n \in Nat : WindowsRun(r, n + 1) = NextWindow(WindowsRun(r, n))
<1> DEFINE Part(n) == CHOOSE f : WindowSteps(f, r, n)
           h == [n \in Nat |-> Part(n)[n]]
           f == CHOOSE g : g = [k \in Nat |-> IF k = 0 THEN r ELSE NextWindow(g[k - 1])]
<1>1. \A n \in Nat : WindowSteps(Part(n), r, n)
  BY WindowExists
<1> HIDE DEF Part
<1>2. ASSUME NEW n \in Nat
      PROVE  /\ Part(0)[0] = r
             /\ Part(n + 1)[n + 1] = NextWindow(Part(n)[n])
  <2>1. WindowSteps(Part(n), r, n) /\ WindowSteps(Part(n + 1), r, n + 1)
    BY <1>1
  <2>2. Part(n)[n] = Part(n + 1)[n]
    BY <2>1, WindowSame
  <2>3. Part(n + 1)[n + 1] = NextWindow(Part(n + 1)[n])
    <3>1. n + 1 \in 0 .. n + 1 /\ n + 1 # 0 /\ (n + 1) - 1 = n
      OBVIOUS
    <3>2. \A k \in 0 .. n + 1 : Part(n + 1)[k] = IF k = 0 THEN r ELSE NextWindow(Part(n + 1)[k - 1])
      BY <2>1 DEF WindowSteps
    <3>3. QED
      BY <3>1, <3>2
  <2>4. Part(0)[0] = r
    <3>1. WindowSteps(Part(0), r, 0) /\ 0 \in 0 .. 0
      BY <1>1
    <3>2. QED
      BY <3>1 DEF WindowSteps
  <2>5. QED
    BY <2>2, <2>3, <2>4
<1>3. ASSUME NEW k \in Nat
      PROVE  h[k] = IF k = 0 THEN r ELSE NextWindow(h[k - 1])
  <2>1. CASE k = 0
    BY <1>2, <2>1
  <2>2. CASE k # 0
    <3>1. k - 1 \in Nat /\ (k - 1) + 1 = k
      BY <2>2
    <3>2. h[k] = Part(k)[k] /\ h[k - 1] = Part(k - 1)[k - 1]
      BY <3>1
    <3>3. Part((k - 1) + 1)[(k - 1) + 1] = NextWindow(Part(k - 1)[k - 1])
      BY <1>2, <3>1
    <3>4. Part(k)[k] = NextWindow(Part(k - 1)[k - 1])
      BY <3>1, <3>3
    <3>5. QED
      BY <2>2, <3>2, <3>4
  <2>3. QED
    BY <2>1, <2>2
<1>4. h = [k \in Nat |-> h[k]]
  OBVIOUS
<1> HIDE DEF h
<1>5. [k \in Nat |-> h[k]] = [k \in Nat |-> IF k = 0 THEN r ELSE NextWindow(h[k - 1])]
  BY <1>3
<1>6. \E g : g = [k \in Nat |-> IF k = 0 THEN r ELSE NextWindow(g[k - 1])]
  BY <1>4, <1>5
<1>7. f = [k \in Nat |-> IF k = 0 THEN r ELSE NextWindow(f[k - 1])]
  BY <1>6
<1>8. \A n \in Nat : WindowsRun(r, n) = f[n]
  BY DEF WindowsRun
<1> HIDE DEF f
<1>9. f[0] = r
  BY <1>7
<1>10. ASSUME NEW n \in Nat PROVE f[n + 1] = NextWindow(f[n])
  <2>1. n + 1 \in Nat /\ n + 1 # 0 /\ (n + 1) - 1 = n
    OBVIOUS
  <2>2. f[n + 1] = NextWindow(f[(n + 1) - 1])
    BY <1>7, <2>1
  <2>3. QED
    BY <2>1, <2>2
<1>11. 0 \in Nat /\ \A n \in Nat : n + 1 \in Nat
  OBVIOUS
<1>12. QED
  BY <1>8, <1>9, <1>10, <1>11

ConcatUpTo(ss, m) ==
  LET upto[n \in Nat] == IF n = 0 THEN <<>> ELSE upto[n - 1] \o ss[n] IN upto[m]

\* A concatenation, piece by piece.
ConcatSteps(f, ss, n) ==
  f = [k \in 0 .. n |-> IF k = 0 THEN <<>> ELSE f[k - 1] \o ss[k]]

LEMMA ConcatLonger ==
  ASSUME NEW ss, NEW n \in Nat, NEW g, ConcatSteps(g, ss, n)
  PROVE  \E h : ConcatSteps(h, ss, n + 1)
<1> DEFINE h == [k \in 0 .. n + 1 |-> IF k = 0 THEN <<>> ELSE g[k - 1] \o ss[k]]
<1>1. g = [k \in 0 .. n |-> IF k = 0 THEN <<>> ELSE g[k - 1] \o ss[k]]
  BY DEF ConcatSteps
<1>2. \A k \in 0 .. n : h[k] = g[k]
  <2>1. TAKE k \in 0 .. n
  <2>2. h[k] = IF k = 0 THEN <<>> ELSE g[k - 1] \o ss[k]
    OBVIOUS
  <2>3. g[k] = IF k = 0 THEN <<>> ELSE g[k - 1] \o ss[k]
    BY <1>1
  <2>4. QED
    BY <2>2, <2>3
<1>3. h = [k \in 0 .. n + 1 |-> IF k = 0 THEN <<>> ELSE g[k - 1] \o ss[k]]
  OBVIOUS
<1> HIDE DEF h
<1>4. \A k \in 0 .. n + 1 : k # 0 => h[k - 1] = g[k - 1]
  BY <1>2
<1>5. [k \in 0 .. n + 1 |-> IF k = 0 THEN <<>> ELSE g[k - 1] \o ss[k]]
        = [k \in 0 .. n + 1 |-> IF k = 0 THEN <<>> ELSE h[k - 1] \o ss[k]]
  BY <1>4
<1>6. ConcatSteps(h, ss, n + 1)
  BY <1>3, <1>5 DEF ConcatSteps
<1>7. QED
  BY <1>6

LEMMA ConcatExists ==
  ASSUME NEW ss
  PROVE  \A n \in Nat : \E f : ConcatSteps(f, ss, n)
<1> DEFINE S == {n \in Nat : \E f : ConcatSteps(f, ss, n)}
<1>1. 0 \in S
  <2> DEFINE h == [k \in 0 .. 0 |-> <<>>]
  <2>1. h = [k \in 0 .. 0 |-> IF k = 0 THEN <<>> ELSE h[k - 1] \o ss[k]]
    OBVIOUS
  <2>2. ConcatSteps(h, ss, 0)
    BY <2>1 DEF ConcatSteps
  <2>3. QED
    BY <2>2
<1>2. \A n \in Nat : n \in S => n + 1 \in S
  BY ConcatLonger
<1> HIDE DEF S
<1>3. \A n \in Nat : n \in S
  BY <1>1, <1>2, NatInduct
<1>4. QED
  BY <1>3 DEF S

LEMMA ConcatSame ==
  ASSUME NEW ss, NEW n \in Nat, NEW f, NEW g,
         ConcatSteps(f, ss, n), ConcatSteps(g, ss, n + 1)
  PROVE  f[n] = g[n]
<1> DEFINE S == {k \in Nat : k <= n => f[k] = g[k]}
<1>1. \A k \in 0 .. n : f[k] = IF k = 0 THEN <<>> ELSE f[k - 1] \o ss[k]
  BY DEF ConcatSteps
<1>2. \A k \in 0 .. n + 1 : g[k] = IF k = 0 THEN <<>> ELSE g[k - 1] \o ss[k]
  BY DEF ConcatSteps
<1>3. 0 \in S
  <2>1. 0 \in 0 .. n /\ 0 \in 0 .. n + 1
    OBVIOUS
  <2>2. QED
    BY <1>1, <1>2, <2>1
<1>4. ASSUME NEW k \in Nat, k \in S PROVE k + 1 \in S
  <2>1. SUFFICES ASSUME k + 1 <= n PROVE f[k + 1] = g[k + 1]
    OBVIOUS
  <2>2. f[k] = g[k]
    BY <1>4, <2>1
  <2>3. k + 1 \in 0 .. n /\ k + 1 \in 0 .. n + 1 /\ k + 1 # 0 /\ (k + 1) - 1 = k
    BY <2>1
  <2>4. f[k + 1] = f[k] \o ss[k + 1] /\ g[k + 1] = g[k] \o ss[k + 1]
    BY <1>1, <1>2, <2>3
  <2>5. QED
    BY <2>2, <2>4
<1> HIDE DEF S
<1>5. \A k \in Nat : k \in S
  BY <1>3, <1>4, NatInduct
<1>6. QED
  BY <1>5 DEF S

LEMMA ConcatLoop ==
  ASSUME NEW ss
  PROVE  /\ ConcatUpTo(ss, 0) = <<>>
         /\ \A n \in Nat : ConcatUpTo(ss, n + 1) = ConcatUpTo(ss, n) \o ss[n + 1]
<1> DEFINE Part(n) == CHOOSE f : ConcatSteps(f, ss, n)
           h == [n \in Nat |-> Part(n)[n]]
           f == CHOOSE g : g = [k \in Nat |-> IF k = 0 THEN <<>> ELSE g[k - 1] \o ss[k]]
<1>1. \A n \in Nat : ConcatSteps(Part(n), ss, n)
  BY ConcatExists
<1> HIDE DEF Part
<1>2. ASSUME NEW n \in Nat
      PROVE  /\ Part(0)[0] = <<>>
             /\ Part(n + 1)[n + 1] = Part(n)[n] \o ss[n + 1]
  <2>1. ConcatSteps(Part(n), ss, n) /\ ConcatSteps(Part(n + 1), ss, n + 1)
    BY <1>1
  <2>2. Part(n)[n] = Part(n + 1)[n]
    BY <2>1, ConcatSame
  <2>3. Part(n + 1)[n + 1] = Part(n + 1)[n] \o ss[n + 1]
    <3>1. n + 1 \in 0 .. n + 1 /\ n + 1 # 0 /\ (n + 1) - 1 = n
      OBVIOUS
    <3>2. \A k \in 0 .. n + 1 : Part(n + 1)[k] = IF k = 0 THEN <<>> ELSE Part(n + 1)[k - 1] \o ss[k]
      BY <2>1 DEF ConcatSteps
    <3>3. QED
      BY <3>1, <3>2
  <2>4. Part(0)[0] = <<>>
    <3>1. ConcatSteps(Part(0), ss, 0) /\ 0 \in 0 .. 0
      BY <1>1
    <3>2. QED
      BY <3>1 DEF ConcatSteps
  <2>5. QED
    BY <2>2, <2>3, <2>4
<1>3. ASSUME NEW k \in Nat
      PROVE  h[k] = IF k = 0 THEN <<>> ELSE h[k - 1] \o ss[k]
  <2>1. CASE k = 0
    BY <1>2, <2>1
  <2>2. CASE k # 0
    <3>1. k - 1 \in Nat /\ (k - 1) + 1 = k
      BY <2>2
    <3>2. h[k] = Part(k)[k] /\ h[k - 1] = Part(k - 1)[k - 1]
      BY <3>1
    <3>3. Part((k - 1) + 1)[(k - 1) + 1] = Part(k - 1)[k - 1] \o ss[(k - 1) + 1]
      BY <1>2, <3>1
    <3>4. Part(k)[k] = Part(k - 1)[k - 1] \o ss[k]
      BY <3>1, <3>3
    <3>5. QED
      BY <2>2, <3>2, <3>4
  <2>3. QED
    BY <2>1, <2>2
<1>4. h = [k \in Nat |-> h[k]]
  OBVIOUS
<1> HIDE DEF h
<1>5. [k \in Nat |-> h[k]] = [k \in Nat |-> IF k = 0 THEN <<>> ELSE h[k - 1] \o ss[k]]
  BY <1>3
<1>6. \E g : g = [k \in Nat |-> IF k = 0 THEN <<>> ELSE g[k - 1] \o ss[k]]
  BY <1>4, <1>5
<1>7. f = [k \in Nat |-> IF k = 0 THEN <<>> ELSE f[k - 1] \o ss[k]]
  BY <1>6
<1>8. \A n \in Nat : ConcatUpTo(ss, n) = f[n]
  BY DEF ConcatUpTo
<1> HIDE DEF f
<1>9. f[0] = <<>>
  BY <1>7
<1>10. ASSUME NEW n \in Nat PROVE f[n + 1] = f[n] \o ss[n + 1]
  <2>1. n + 1 \in Nat /\ n + 1 # 0 /\ (n + 1) - 1 = n
    OBVIOUS
  <2>2. f[n + 1] = f[(n + 1) - 1] \o ss[n + 1]
    BY <1>7, <2>1
  <2>3. QED
    BY <2>1, <2>2
<1>11. 0 \in Nat /\ \A n \in Nat : n + 1 \in Nat
  OBVIOUS
<1>12. QED
  BY <1>8, <1>9, <1>10, <1>11
-----------------------------------------------------------------------------
(* Integers.                                                               *)

LEMMA MinOfTwo ==
  ASSUME NEW a \in Nat, NEW b \in Nat
  PROVE  Min({a, b}) = IF a <= b THEN a ELSE b
<1>1. {a, b} \subseteq Nat /\ {a, b} # {}
  OBVIOUS
<1>2. Min({a, b}) \in {a, b} /\ \A y \in {a, b} : Min({a, b}) <= y
  BY <1>1, MinIn
<1>3. QED
  BY <1>2

\* VarintLen is the place of the first byte without a continuation bit, when it is
\* one of the first nine, and zero otherwise.
VarintEnds(s, n) ==
  /\ n \in 1 .. 9 /\ n <= Len(s) /\ s[n] < 128
  /\ \A k \in 1 .. n - 1 : ~(s[k] < 128)

LEMMA VarintLenIs ==
  ASSUME NEW s \in Seq(Nat)
  PROVE  /\ \A n : VarintEnds(s, n) => VarintLen(s) = n
         /\ VarintLen(s) # 0 => VarintEnds(s, VarintLen(s))
<1> DEFINE m == Min({Len(s), 9})
           T == {k \in 1 .. m : s[k] < 128}
           S == T \cup {10}
<1>1. Len(s) \in Nat
  OBVIOUS
<1>2. m = IF Len(s) <= 9 THEN Len(s) ELSE 9
  BY <1>1, MinOfTwo
<1>3. m \in Nat /\ m <= 9 /\ m <= Len(s)
  BY <1>1, <1>2
<1>4. VarintLen(s) = Min(S) % 10
  BY DEF VarintLen
<1> HIDE DEF m
<1>5. S \subseteq Nat /\ S # {}
  BY <1>3
<1>6. Min(S) \in S /\ \A y \in S : Min(S) <= y
  <2> HIDE DEF S
  <2>1. QED
    BY <1>5, MinIn
<1>7. ASSUME NEW n, VarintEnds(s, n) PROVE VarintLen(s) = n
  <2>1. n \in 1 .. 9 /\ n <= Len(s) /\ s[n] < 128 /\ \A k \in 1 .. n - 1 : ~(s[k] < 128)
    BY <1>7 DEF VarintEnds
  <2>2. n \in T
    BY <1>1, <1>2, <2>1
  <2>3. Min(S) <= n /\ Min(S) \in Nat /\ Min(S) # 10
    BY <1>5, <1>6, <2>1, <2>2
  <2>4. Min(S) \in 1 .. m /\ s[Min(S)] < 128
    BY <1>6, <2>3
  <2>5. Min(S) = n
    BY <1>3, <2>1, <2>3, <2>4
  <2>6. QED
    BY <1>4, <2>1, <2>5
<1>8. ASSUME VarintLen(s) # 0 PROVE VarintEnds(s, VarintLen(s))
  <2>1. Min(S) # 10
    BY <1>4, <1>8
  <2>2. Min(S) \in 1 .. m /\ s[Min(S)] < 128
    BY <1>6, <2>1
  <2>3. VarintLen(s) = Min(S)
    <3>1. \A x \in 1 .. 9 : x % 10 = x
      OBVIOUS
    <3> HIDE DEF S
    <3>2. Min(S) \in 1 .. 9
      <4>1. \A x : x \in 1 .. m => x \in 1 .. 9
        BY <1>3
      <4>2. QED
        BY <2>2, <4>1, Zenon
    <3>3. QED
      BY <1>4, <3>1, <3>2
  <2>4. ASSUME NEW k \in 1 .. Min(S) - 1 PROVE ~(s[k] < 128)
    <3>1. k \in 1 .. m /\ k < Min(S) /\ Min(S) \in Nat /\ k \in Nat
      BY <1>3, <2>2
    <3>2. k \notin S
      BY <1>6, <3>1
    <3>3. QED
      BY <3>1, <3>2
  <2> HIDE DEF S
  <2>5. VarintEnds(s, Min(S))
    <3>1. Min(S) \in 1 .. 9 /\ Min(S) <= Len(s)
      <4>1. \A x : x \in 1 .. m => x \in 1 .. 9 /\ x <= Len(s)
        BY <1>1, <1>3
      <4>2. QED
        BY <2>2, <4>1, Zenon
    <3>2. QED
      BY <2>2, <2>4, <3>1 DEF VarintEnds
  <2>6. QED
    BY <2>3, <2>5
<1>9. QED
  BY <1>7, <1>8

LEMMA VarintValueNat ==
  ASSUME NEW s \in Seq(Nat), NEW n \in Nat, n <= Len(s)
  PROVE  VarintValue(s, n) \in Nat
<1> DEFINE S == {k \in Nat : k <= Len(s) => VarintValue(s, k) \in Nat}
<1>1. 0 \in S
  <2>1. VarintValue(s, 0) = 0
    BY ValueLoop
  <2>2. QED
    BY <2>1
<1>2. ASSUME NEW k \in Nat, k \in S PROVE k + 1 \in S
  <2>1. SUFFICES ASSUME k + 1 <= Len(s) PROVE VarintValue(s, k + 1) \in Nat
    OBVIOUS
  <2>2. k + 1 \in 1 .. Len(s) /\ Len(s) \in Nat /\ k <= Len(s)
    BY <2>1
  <2>3. s[k + 1] \in Nat /\ VarintValue(s, k) \in Nat
    BY <1>2, <2>2
  <2>4. VarintValue(s, k + 1) = (VarintValue(s, k) * 128) + (s[k + 1] % 128)
    BY ValueLoop
  <2> DEFINE v == VarintValue(s, k)  b == s[k + 1]
  <2> HIDE DEF v, b
  <2>5. v \in Nat /\ b \in Nat => (v * 128) + (b % 128) \in Nat
    OBVIOUS
  <2>6. QED
    BY <2>3, <2>4, <2>5 DEF v, b
<1> HIDE DEF S
<1>3. \A k \in Nat : k \in S
  BY <1>1, <1>2, NatInduct
<1>4. QED
  BY <1>3 DEF S

LEMMA VarintValueSame ==
  ASSUME NEW s, NEW t, NEW n \in Nat, \A k \in 1 .. n : s[k] = t[k]
  PROVE  VarintValue(s, n) = VarintValue(t, n)
<1> DEFINE S == {k \in Nat : k <= n => VarintValue(s, k) = VarintValue(t, k)}
<1>1. 0 \in S
  BY ValueLoop
<1>2. ASSUME NEW k \in Nat, k \in S PROVE k + 1 \in S
  <2>1. SUFFICES ASSUME k + 1 <= n PROVE VarintValue(s, k + 1) = VarintValue(t, k + 1)
    OBVIOUS
  <2>2. k + 1 \in 1 .. n /\ k <= n
    BY <2>1
  <2>3. s[k + 1] = t[k + 1] /\ VarintValue(s, k) = VarintValue(t, k)
    BY <1>2, <2>2
  <2>4. /\ VarintValue(s, k + 1) = (VarintValue(s, k) * 128) + (s[k + 1] % 128)
        /\ VarintValue(t, k + 1) = (VarintValue(t, k) * 128) + (t[k + 1] % 128)
    BY ValueLoop
  <2>5. QED
    BY <2>3, <2>4
<1> HIDE DEF S
<1>3. \A k \in Nat : k \in S
  BY <1>1, <1>2, NatInduct
<1>4. QED
  BY <1>3 DEF S

\* An integer that ends is not affected by what follows.
LEMMA VarintOfPrefix ==
  ASSUME NEW s \in Seq(Nat), NEW y \in Seq(Nat), read_varint(s).n # 0
  PROVE  /\ read_varint(s \o y) = read_varint(s)
         /\ read_varint(s).n \in 1 .. 9 /\ read_varint(s).n <= Len(s)
         /\ read_varint(s).v \in Nat
<1> DEFINE n == VarintLen(s)
           u == s \o y
<1>1. read_varint(s) = [n |-> n, v |-> VarintValue(s, n)]
  BY DEF read_varint
<1>2. n # 0
  BY <1>1
<1>3. VarintEnds(s, n)
  BY <1>2, VarintLenIs
<1> HIDE DEF n
<1>4. n \in 1 .. 9 /\ n <= Len(s) /\ s[n] < 128 /\ \A k \in 1 .. n - 1 : ~(s[k] < 128)
  BY <1>3 DEF VarintEnds
<1>5. /\ u \in Seq(Nat) /\ Len(u) = Len(s) + Len(y)
      /\ \A i \in 1 .. Len(s) + Len(y) : u[i] = IF i <= Len(s) THEN s[i] ELSE y[i - Len(s)]
  BY ConcatProperties
<1> HIDE DEF u
<1>6. Len(s) \in Nat /\ Len(y) \in Nat /\ n \in Nat /\ n <= Len(u)
  BY <1>4, <1>5
<1>7. \A k \in 1 .. n : u[k] = s[k]
  BY <1>4, <1>5, <1>6
<1>8. VarintEnds(u, n)
  <2>1. u[n] < 128
    BY <1>4, <1>7
  <2>2. \A k \in 1 .. n - 1 : ~(u[k] < 128)
    BY <1>4, <1>7
  <2>3. QED
    BY <1>4, <1>6, <2>1, <2>2 DEF VarintEnds
<1>9. VarintLen(u) = n
  BY <1>5, <1>8, VarintLenIs
<1>10. VarintValue(u, n) = VarintValue(s, n)
  BY <1>6, <1>7, VarintValueSame
<1>11. VarintValue(s, n) \in Nat
  BY <1>4, <1>6, VarintValueNat
<1>12. QED
  BY <1>1, <1>4, <1>9, <1>10, <1>11 DEF read_varint, u

LEMMA DigitsRead ==
  ASSUME NEW s \in Seq(Nat), NEW n \in 1 .. 4, Len(s) = n, s[n] < 128,
         \A k \in 1 .. n - 1 : ~(s[k] < 128)
  PROVE  read_varint(s) = [n |-> n, v |-> VarintValue(s, n)]
<1>1. VarintEnds(s, n)
  BY DEF VarintEnds
<1>2. VarintLen(s) = n
  BY <1>1, VarintLenIs
<1>3. QED
  BY <1>2 DEF read_varint

\* The value of up to four digits.
LEMMA DigitsValue ==
  ASSUME NEW s \in Seq(Nat), Len(s) >= 1
  PROVE  /\ VarintValue(s, 1) = s[1] % 128
         /\ VarintValue(s, 2) = (VarintValue(s, 1) * 128) + (s[2] % 128)
         /\ VarintValue(s, 3) = (VarintValue(s, 2) * 128) + (s[3] % 128)
         /\ VarintValue(s, 4) = (VarintValue(s, 3) * 128) + (s[4] % 128)
<1>1. /\ VarintValue(s, 0) = 0
      /\ \A n \in Nat : VarintValue(s, n + 1) = (VarintValue(s, n) * 128) + (s[n + 1] % 128)
  BY ValueLoop
<1>2. /\ VarintValue(s, 0 + 1) = (VarintValue(s, 0) * 128) + (s[0 + 1] % 128)
      /\ VarintValue(s, 1 + 1) = (VarintValue(s, 1) * 128) + (s[1 + 1] % 128)
      /\ VarintValue(s, 2 + 1) = (VarintValue(s, 2) * 128) + (s[2 + 1] % 128)
      /\ VarintValue(s, 3 + 1) = (VarintValue(s, 3) * 128) + (s[3 + 1] % 128)
  BY <1>1
<1>3. 0 + 1 = 1 /\ 1 + 1 = 2 /\ 2 + 1 = 3 /\ 3 + 1 = 4
  OBVIOUS
<1>4. VarintValue(s, 1) = (0 * 128) + (s[1] % 128)
  BY <1>1, <1>2, <1>3
<1>5. (0 * 128) + (s[1] % 128) = s[1] % 128
  <2>1. s[1] \in Nat
    OBVIOUS
  <2>2. \A x \in Nat : (0 * 128) + (x % 128) = x % 128
    OBVIOUS
  <2>3. QED
    BY <2>1, <2>2
<1>6. QED
  BY <1>2, <1>3, <1>4, <1>5

\* The digits of v, the last one first.
LEMMA DigitsOf ==
  ASSUME NEW v \in Nat
  PROVE  v % 128 \in 0 .. 127 /\ v \div 128 \in Nat /\ v = ((v \div 128) * 128) + (v % 128)
BY SMT

LEMMA FurtherDigits ==
  ASSUME NEW v \in Nat
  PROVE  /\ v \div 1 = v /\ v \div 16384 = (v \div 128) \div 128
         /\ v \div 2097152 = ((v \div 128) \div 128) \div 128
<1>1. v \div 1 = v /\ v \div 16384 = (v \div 128) \div 128
  BY SMT
<1>2. v \div 2097152 = (v \div 16384) \div 128
  BY SMT
<1>3. QED
  BY SMT, <1>1, <1>2

LEMMA SmallDigit == \A x \in 0 .. 127 : x % 128 = x /\ (128 + x) % 128 = x
BY SMT

LEMMA VintForm ==
  ASSUME NEW v \in Nat, NEW a, NEW b, NEW c, NEW d,
         b = (v \div 1) % 128, a = (v \div 128) % 128,
         c = (v \div 16384) % 128, d = (v \div 2097152) % 128
  PROVE  Vint(v) = IF v < 128 THEN <<v>>
                   ELSE IF v < 16384 THEN <<128 + a, b>>
                   ELSE IF v < 2097152 THEN <<128 + c, 128 + a, b>>
                   ELSE <<128 + d, 128 + c, 128 + a, b>>
BY SMT DEF Vint

\* What Vint writes read_varint reads, whatever follows it.
LEMMA ReadVint ==
  ASSUME NEW v \in Nat, v < 2 * Pow27, NEW y \in Seq(Nat)
  PROVE  /\ Vint(v) \in Seq(Nat) /\ Len(Vint(v)) \in 1 .. 4
         /\ read_varint(Vint(v) \o y) = [n |-> Len(Vint(v)), v |-> v]
<1>1. ASSUME NEW s \in Seq(Nat), NEW n \in 1 .. 4, Vint(v) = s, Len(s) = n,
             read_varint(s) = [n |-> n, v |-> v]
      PROVE  /\ Vint(v) \in Seq(Nat) /\ Len(Vint(v)) \in 1 .. 4
             /\ read_varint(Vint(v) \o y) = [n |-> Len(Vint(v)), v |-> v]
  <2>1. read_varint(s).n # 0
    BY <1>1
  <2>2. read_varint(s \o y) = read_varint(s)
    BY <2>1, VarintOfPrefix
  <2>3. QED
    BY <1>1, <2>2
<1> DEFINE q == v \div 128
           p == q \div 128
           d == p \div 128
           b == v % 128
           a == q % 128
           c == p % 128
<1>2. v \in Nat
  OBVIOUS
<1>3. b \in 0 .. 127 /\ q \in Nat /\ v = (q * 128) + b
  BY <1>2, DigitsOf
<1>4. a \in 0 .. 127 /\ p \in Nat /\ q = (p * 128) + a
  BY <1>3, DigitsOf
<1>5. c \in 0 .. 127 /\ d \in Nat /\ p = (d * 128) + c
  BY <1>4, DigitsOf
<1>6. d \in 0 .. 127
  <2> HIDE DEF q, p, d, a, b, c
  <2>1. v < 268435456
    BY SMT DEF Pow27
  <2> HIDE DEF q, p, d, a, b, c
  <2>2. QED
    BY SMT, <1>2, <1>3, <1>4, <1>5, <2>1
<1>7. v \div 1 = v /\ v \div 16384 = p /\ v \div 2097152 = d
  BY SMT, <1>2, FurtherDigits
<1>8. d % 128 = d
  BY <1>6, SmallDigit
<1>9. Vint(v) = IF v < 128 THEN <<v>>
                ELSE IF v < 16384 THEN <<128 + a, b>>
                ELSE IF v < 2097152 THEN <<128 + c, 128 + a, b>>
                ELSE <<128 + d, 128 + c, 128 + a, b>>
  <2>1. /\ b = (v \div 1) % 128 /\ a = (v \div 128) % 128
        /\ c = (v \div 16384) % 128 /\ d = (v \div 2097152) % 128
    BY SMT, <1>7, <1>8
  <2> HIDE DEF q, p, d, a, b, c
  <2>2. QED
    BY SMT, <1>2, <2>1, VintForm
<1> HIDE DEF q, p, d, a, b, c
<1>10. CASE v < 128
  <2> DEFINE s == <<v>>
  <2>1. s \in Seq(Nat) /\ Len(s) = 1 /\ s[1] = v
    BY <1>2
  <2>2. Vint(v) = s
    BY SMT, <1>9, <1>10
  <2> HIDE DEF s
  <2>3. read_varint(s) = [n |-> 1, v |-> VarintValue(s, 1)]
    BY <1>10, <2>1, DigitsRead
  <2>4. VarintValue(s, 1) = v % 128
    BY <2>1, DigitsValue, Len(s) >= 1
  <2>5. v % 128 = v
    BY <1>2, <1>10, SmallDigit
  <2>6. QED
    BY <1>1, <2>1, <2>2, <2>3, <2>4, <2>5
<1>11. CASE ~(v < 128) /\ v < 16384
  <2> DEFINE s == <<128 + a, b>>
  <2>1. Vint(v) = s
    BY SMT, <1>9, <1>11
  <2>2. s \in Seq(Nat) /\ Len(s) = 2 /\ s[1] = 128 + a /\ s[2] = b
    BY <1>3, <1>4
  <2> HIDE DEF s
  <2>3. \A k \in 1 .. 2 - 1 : ~(s[k] < 128)
    BY <1>4, <2>2
  <2>4. s[2] < 128
    BY <1>3, <2>2
  <2>5. read_varint(s) = [n |-> 2, v |-> VarintValue(s, 2)]
    BY <2>2, <2>3, <2>4, DigitsRead
  <2>6. VarintValue(s, 2) = (((128 + a) % 128) * 128) + (b % 128)
    BY <2>2, DigitsValue, Len(s) >= 1
  <2>7. (128 + a) % 128 = a /\ b % 128 = b
    BY <1>3, <1>4, SmallDigit
  <2>8. p = 0
    BY SMT, <1>2, <1>3, <1>4, <1>11
  <2>9. q = a
    BY <1>4, <2>8
  <2>10. VarintValue(s, 2) = v
    BY <1>3, <2>6, <2>7, <2>9
  <2>11. QED
    BY <1>1, <2>1, <2>2, <2>5, <2>10
<1>12. CASE ~(v < 16384) /\ v < 2097152
  <2> DEFINE s == <<128 + c, 128 + a, b>>
  <2>1. Vint(v) = s
    BY SMT, <1>2, <1>9, <1>12
  <2>2. s \in Seq(Nat) /\ Len(s) = 3 /\ s[1] = 128 + c /\ s[2] = 128 + a /\ s[3] = b
    BY <1>3, <1>4, <1>5
  <2> HIDE DEF s
  <2>3. \A k \in 1 .. 3 - 1 : ~(s[k] < 128)
    <3>1. \A k \in 1 .. 3 - 1 : k = 1 \/ k = 2
      OBVIOUS
    <3>2. ~(128 + c < 128) /\ ~(128 + a < 128)
      BY <1>4, <1>5
    <3>3. QED
      BY <2>2, <3>1, <3>2
  <2>4. s[3] < 128
    BY <1>3, <2>2
  <2>5. read_varint(s) = [n |-> 3, v |-> VarintValue(s, 3)]
    BY <2>2, <2>3, <2>4, DigitsRead
  <2>6. (128 + a) % 128 = a /\ b % 128 = b /\ (128 + c) % 128 = c
    BY <1>3, <1>4, <1>5, SmallDigit
  <2>7. VarintValue(s, 3) = (((c * 128) + a) * 128) + b
    <3>1. Len(s) >= 1
      BY <2>2
    <3>2. VarintValue(s, 1) = c
      BY <2>2, <2>6, <3>1, DigitsValue
    <3>3. VarintValue(s, 2) = (c * 128) + a
      <4>1. VarintValue(s, 2) = (VarintValue(s, 1) * 128) + (s[2] % 128)
        BY <2>2, <3>1, DigitsValue
      <4>2. s[2] % 128 = a
        BY <2>2, <2>6
      <4>3. QED
        BY <3>2, <4>1, <4>2
    <3>4. VarintValue(s, 3) = (VarintValue(s, 2) * 128) + (s[3] % 128)
      BY <2>2, <3>1, DigitsValue
    <3>5. s[3] % 128 = b
      BY <2>2, <2>6
    <3>6. QED
      BY <3>3, <3>4, <3>5
  <2>8. d = 0
    BY SMT, <1>2, <1>3, <1>4, <1>5, <1>12
  <2>9. p = c
    BY <1>5, <2>8
  <2>10. VarintValue(s, 3) = v
    BY <1>3, <1>4, <2>7, <2>9
  <2>11. QED
    BY <1>1, <2>1, <2>2, <2>5, <2>10
<1>13. CASE ~(v < 2097152)
  <2> DEFINE s == <<128 + d, 128 + c, 128 + a, b>>
  <2>1. Vint(v) = s
    BY SMT, <1>2, <1>9, <1>13
  <2>2. /\ s \in Seq(Nat) /\ Len(s) = 4
        /\ s[1] = 128 + d /\ s[2] = 128 + c /\ s[3] = 128 + a /\ s[4] = b
    BY <1>3, <1>4, <1>5, <1>6
  <2> HIDE DEF s
  <2>3. \A k \in 1 .. 4 - 1 : ~(s[k] < 128)
    <3>1. \A k \in 1 .. 4 - 1 : k = 1 \/ k = 2 \/ k = 3
      OBVIOUS
    <3>2. ~(128 + c < 128) /\ ~(128 + a < 128) /\ ~(128 + d < 128)
      BY <1>4, <1>5, <1>6
    <3>3. QED
      BY <2>2, <3>1, <3>2
  <2>4. s[4] < 128
    BY <1>3, <2>2
  <2>5. read_varint(s) = [n |-> 4, v |-> VarintValue(s, 4)]
    BY <2>2, <2>3, <2>4, DigitsRead
  <2>6. (128 + a) % 128 = a /\ b % 128 = b /\ (128 + c) % 128 = c /\ (128 + d) % 128 = d
    BY <1>3, <1>4, <1>5, <1>6, SmallDigit
  <2>7. VarintValue(s, 4) = (((((d * 128) + c) * 128) + a) * 128) + b
    <3>1. Len(s) >= 1
      BY <2>2
    <3>2. VarintValue(s, 1) = d
      BY <2>2, <2>6, <3>1, DigitsValue
    <3>3. VarintValue(s, 2) = (d * 128) + c
      <4>1. VarintValue(s, 2) = (VarintValue(s, 1) * 128) + (s[2] % 128)
        BY <2>2, <3>1, DigitsValue
      <4>2. s[2] % 128 = c
        BY <2>2, <2>6
      <4>3. QED
        BY <3>2, <4>1, <4>2
    <3>4. VarintValue(s, 3) = (((d * 128) + c) * 128) + a
      <4>1. VarintValue(s, 3) = (VarintValue(s, 2) * 128) + (s[3] % 128)
        BY <2>2, <3>1, DigitsValue
      <4>2. s[3] % 128 = a
        BY <2>2, <2>6
      <4>3. QED
        BY <3>3, <4>1, <4>2
    <3>5. VarintValue(s, 4) = (VarintValue(s, 3) * 128) + (s[4] % 128)
      BY <2>2, <3>1, DigitsValue
    <3>6. s[4] % 128 = b
      BY <2>2, <2>6
    <3>7. QED
      BY <3>4, <3>5, <3>6
  <2>8. VarintValue(s, 4) = v
    BY <1>3, <1>4, <1>5, <2>7
  <2>9. QED
    BY <1>1, <2>1, <2>2, <2>5, <2>8
<1>14. QED
  BY SMT, <1>2, <1>10, <1>11, <1>12, <1>13

-----------------------------------------------------------------------------
(* Reading in a sequence.                                                  *)

\* What is left of a concatenation behind its first part, or behind a part of it.
LEMMA FromConcat ==
  ASSUME NEW s \in Seq(Nat), NEW t \in Seq(Nat)
  PROVE  From(s \o t, Len(s)) = t
<1>1. Len(s \o t) = Len(s) + Len(t)
  BY ConcatProperties
<1>2. SubSeq(s \o t, Len(s) + 1, Len(s) + Len(t)) = t
  BY PartsOfConcat
<1>3. QED
  BY <1>1, <1>2 DEF From

LEMMA FromType ==
  ASSUME NEW x \in Seq(Nat), NEW n \in 0 .. Len(x)
  PROVE  /\ From(x, n) \in Seq(Nat) /\ Len(From(x, n)) = Len(x) - n
         /\ \A i \in 1 .. Len(x) - n : From(x, n)[i] = x[n + i]
<1>1. Len(x) \in Nat /\ n \in Nat /\ n + 1 \in Int /\ n <= Len(x)
  OBVIOUS
<1>2. \A i \in n + 1 .. Len(x) : x[i] \in Nat
  <2>1. TAKE i \in n + 1 .. Len(x)
  <2>2. i \in 1 .. Len(x)
    BY <1>1
  <2>3. QED
    BY <2>2, ElementOfSeq
<1>3. /\ SubSeq(x, n + 1, Len(x)) \in Seq(Nat)
      /\ Len(SubSeq(x, n + 1, Len(x))) = IF n + 1 <= Len(x) THEN Len(x) - (n + 1) + 1 ELSE 0
      /\ \A i \in 1 .. Len(x) - (n + 1) + 1 : SubSeq(x, n + 1, Len(x))[i] = x[(n + 1) + i - 1]
  BY <1>1, <1>2, SubSeqProperties
<1>4. /\ Len(x) - (n + 1) + 1 = Len(x) - n
      /\ ~(n + 1 <= Len(x)) => Len(x) - n = 0
      /\ \A i \in 1 .. Len(x) - n : (n + 1) + i - 1 = n + i
  BY <1>1
<1>5. QED
  BY <1>3, <1>4 DEF From

LEMMA FromOfConcat ==
  ASSUME NEW x \in Seq(Nat), NEW y \in Seq(Nat), NEW n \in 0 .. Len(x)
  PROVE  From(x \o y, n) = From(x, n) \o y
<1> DEFINE u == x \o y
           f == From(x, n)
           g == From(u, n)
           h == f \o y
<1>1. Len(x) \in Nat /\ Len(y) \in Nat /\ n \in Nat /\ n <= Len(x)
  OBVIOUS
<1>2. /\ u \in Seq(Nat) /\ Len(u) = Len(x) + Len(y)
      /\ \A i \in 1 .. Len(x) + Len(y) : u[i] = IF i <= Len(x) THEN x[i] ELSE y[i - Len(x)]
  BY ConcatProperties
<1>3. /\ f \in Seq(Nat) /\ Len(f) = Len(x) - n
      /\ \A i \in 1 .. Len(x) - n : f[i] = x[n + i]
  BY FromType
<1> HIDE DEF f, u
<1>4. n \in 0 .. Len(u)
  BY <1>1, <1>2
<1>5. /\ g \in Seq(Nat) /\ Len(g) = Len(u) - n
      /\ \A i \in 1 .. Len(u) - n : g[i] = u[n + i]
  BY <1>2, <1>4, FromType
<1>6. /\ h \in Seq(Nat) /\ Len(h) = Len(f) + Len(y)
      /\ \A i \in 1 .. Len(f) + Len(y) : h[i] = IF i <= Len(f) THEN f[i] ELSE y[i - Len(f)]
  BY <1>3, ConcatProperties
<1> HIDE DEF g, h
<1>7. Len(g) = Len(h)
  BY <1>1, <1>2, <1>3, <1>5, <1>6
<1>8. ASSUME NEW i \in 1 .. Len(g) PROVE g[i] = h[i]
  <2>1. i \in Nat /\ i \in 1 .. Len(u) - n /\ i \in 1 .. Len(f) + Len(y)
    BY <1>1, <1>2, <1>3, <1>5, <1>6
  <2>2. n + i \in 1 .. Len(x) + Len(y)
    BY <1>1, <1>2, <2>1
  <2>3. g[i] = u[n + i] /\ h[i] = IF i <= Len(f) THEN f[i] ELSE y[i - Len(f)]
    BY <1>5, <1>6, <2>1
  <2>4. u[n + i] = IF n + i <= Len(x) THEN x[n + i] ELSE y[(n + i) - Len(x)]
    BY <1>2, <2>2
  <2>5. CASE i <= Len(f)
    <3>1. n + i <= Len(x) /\ i \in 1 .. Len(x) - n
      BY <1>1, <1>3, <2>1, <2>5
    <3>2. f[i] = x[n + i]
      BY <1>3, <3>1
    <3>3. QED
      BY <2>3, <2>4, <2>5, <3>1, <3>2
  <2>6. CASE ~(i <= Len(f))
    <3>1. ~(n + i <= Len(x)) /\ (n + i) - Len(x) = i - Len(f)
      BY <1>1, <1>3, <2>1, <2>6
    <3>2. QED
      BY <2>3, <2>4, <2>6, <3>1
  <2>7. QED
    BY <2>5, <2>6
<1>9. g = h
  BY <1>5, <1>6, <1>7, <1>8, SeqEqual
<1>10. QED
  BY <1>9 DEF f, g, h, u

\* A byte in front of a sequence.
LEMMA FirstOf ==
  ASSUME NEW b \in Nat, NEW y \in Seq(Nat)
  PROVE  /\ <<b>> \o y \in Seq(Nat) /\ <<b>> \o y # <<>>
         /\ Head(<<b>> \o y) = b /\ Tail(<<b>> \o y) = y
         /\ Len(<<b>> \o y) = Len(y) + 1
<1> DEFINE s == <<b>>
           u == s \o y
<1>1. s \in Seq(Nat) /\ Len(s) = 1 /\ s[1] = b /\ Len(y) \in Nat
  OBVIOUS
<1> HIDE DEF s
<1>2. /\ u \in Seq(Nat) /\ Len(u) = 1 + Len(y)
      /\ \A i \in 1 .. 1 + Len(y) : u[i] = IF i <= 1 THEN s[i] ELSE y[i - 1]
  <2>1. /\ s \o y \in Seq(Nat) /\ Len(s \o y) = Len(s) + Len(y)
        /\ \A i \in 1 .. Len(s) + Len(y) : (s \o y)[i] = IF i <= Len(s) THEN s[i] ELSE y[i - Len(s)]
    BY <1>1, ConcatProperties
  <2>2. QED
    BY <1>1, <2>1
<1> HIDE DEF u
<1>3. u # <<>> /\ Len(u) = Len(y) + 1
  BY <1>1, <1>2, EmptySeq
<1>4. Head(u) = u[1]
  BY <1>2, <1>3
<1>5. u[1] = b
  BY <1>1, <1>2
<1>6. Tail(u) \in Seq(Nat) /\ Len(Tail(u)) = Len(u) - 1 /\ \A i \in 1 .. Len(Tail(u)) : Tail(u)[i] = u[i + 1]
  BY <1>2, <1>3, HeadTailProperties
<1>7. Len(Tail(u)) = Len(y)
  BY <1>1, <1>2, <1>6
<1>8. \A i \in 1 .. Len(Tail(u)) : Tail(u)[i] = y[i]
  <2>1. TAKE i \in 1 .. Len(Tail(u))
  <2>2. i + 1 \in 1 .. 1 + Len(y) /\ ~(i + 1 <= 1) /\ (i + 1) - 1 = i
    BY <1>1, <1>7
  <2>3. QED
    BY <1>2, <1>6, <2>2
<1>9. Tail(u) = y
  BY <1>6, <1>7, <1>8, SeqEqual
<1>10. QED
  BY <1>2, <1>3, <1>4, <1>5, <1>9 DEF s, u

-----------------------------------------------------------------------------
(* Integers in a row.                                                      *)

Reading(vals, s) == [ok |-> TRUE, vals |-> vals, rest |-> s]

\* An integer is read from what Vint wrote, whatever follows.
LEMMA ReadIntWhole ==
  ASSUME NEW vals, NEW v \in Nat, v < 2 * Pow27, NEW y \in Seq(Nat)
  PROVE  ReadInt(Reading(vals, Vint(v) \o y)) = Reading(Append(vals, v), y)
<1> DEFINE s == Vint(v)
           u == s \o y
           r == read_varint(u)
<1>1. s \in Seq(Nat) /\ Len(s) \in 1 .. 4 /\ r = [n |-> Len(s), v |-> v]
  BY ReadVint
<1>2. From(u, Len(s)) = y
  BY <1>1, FromConcat
<1>3. ReadInt(Reading(vals, u)) =
        [ok |-> TRUE /\ r.n > 0, vals |-> Append(vals, r.v), rest |-> From(u, r.n)]
  BY DEF ReadInt, Reading
<1> HIDE DEF s, u, r
<1>4. r.n = Len(s) /\ r.v = v /\ (TRUE /\ Len(s) > 0) = TRUE
  BY <1>1
<1>5. QED
  BY <1>2, <1>3, <1>4 DEF Reading, u, s

\* An integer that is read from the first part of a sequence is the same in the
\* whole, and once an integer is missing all that follow are.
LEMMA ReadIntCut ==
  ASSUME NEW vals, NEW x \in Seq(Nat), NEW y \in Seq(Nat), ReadInt(Reading(vals, x)).ok
  PROVE  \E v \in Nat, z \in Seq(Nat) :
           /\ ReadInt(Reading(vals, x)) = Reading(Append(vals, v), z)
           /\ ReadInt(Reading(vals, x \o y)) = Reading(Append(vals, v), z \o y)
<1> DEFINE r == read_varint(x)
           q == read_varint(x \o y)
<1>1. /\ ReadInt(Reading(vals, x)) =
           [ok |-> TRUE /\ r.n > 0, vals |-> Append(vals, r.v), rest |-> From(x, r.n)]
      /\ ReadInt(Reading(vals, x \o y)) =
           [ok |-> TRUE /\ q.n > 0, vals |-> Append(vals, q.v), rest |-> From(x \o y, q.n)]
  BY DEF ReadInt, Reading
<1>2. r.n > 0
  <2> DEFINE b == (TRUE /\ r.n > 0)
             w == Append(vals, r.v)
             z == From(x, r.n)
  <2>1. ReadInt(Reading(vals, x)) = [ok |-> b, vals |-> w, rest |-> z]
    BY <1>1
  <2> HIDE DEF b, w, z
  <2>2. ReadInt(Reading(vals, x)).ok = b
    BY <2>1
  <2>3. QED
    BY <2>2 DEF b
<1>3. q = r /\ r.n \in 1 .. 9 /\ r.n <= Len(x) /\ r.v \in Nat
  <2>1. r.n # 0
    BY <1>2
  <2>2. QED
    BY <2>1, VarintOfPrefix
<1> HIDE DEF r, q
<1>4. r.n \in 0 .. Len(x)
  BY <1>3
<1>5. From(x, r.n) \in Seq(Nat) /\ From(x \o y, r.n) = From(x, r.n) \o y
  BY <1>4, FromType, FromOfConcat
<1>6. (TRUE /\ r.n > 0) = TRUE
  BY <1>2
<1>7. /\ ReadInt(Reading(vals, x)) = Reading(Append(vals, r.v), From(x, r.n))
      /\ ReadInt(Reading(vals, x \o y)) = Reading(Append(vals, r.v), From(x, r.n) \o y)
  BY <1>1, <1>3, <1>5, <1>6 DEF Reading
<1>8. QED
  BY <1>3, <1>5, <1>7

LEMMA ReadIntMissing ==
  ASSUME NEW a, ~a.ok
  PROVE  ~ReadInt(a).ok
BY DEF ReadInt

-----------------------------------------------------------------------------
(* What a COPY copies.                                                     *)

LEMMA QuotientAndRest ==
  ASSUME NEW p \in Nat, p > 0
  PROVE  \A n \in Nat : \E q, r \in Nat : r < p /\ n = (q * p) + r
<1> DEFINE S == {n \in Nat : \E q, r \in Nat : r < p /\ n = (q * p) + r}
<1>1. 0 \in S
  <2>1. 0 < p /\ 0 = (0 * p) + 0
    OBVIOUS
  <2>2. QED
    BY <2>1
<1>2. ASSUME NEW n \in Nat, n \in S PROVE n + 1 \in S
  <2>1. PICK q \in Nat, r \in Nat : r < p /\ n = (q * p) + r
    BY <1>2
  <2>2. CASE r + 1 < p
    <3>1. n + 1 = (q * p) + (r + 1) /\ r + 1 \in Nat
      BY <2>1
    <3>2. QED
      BY <2>2, <3>1
  <2>3. CASE ~(r + 1 < p)
    <3>1. r + 1 = p
      BY <2>1, <2>3
    <3> DEFINE k == q + 1
    <3>2. n + 1 = (k * p) + 0 /\ k \in Nat /\ 0 < p /\ 0 \in Nat /\ n + 1 \in Nat
      BY SMT, <2>1, <3>1
    <3> HIDE DEF k
    <3>3. \E g, r2 \in Nat : r2 < p /\ n + 1 = (g * p) + r2
      BY <3>2, Zenon
    <3>4. QED
      BY <3>2, <3>3
  <2>4. QED
    BY <2>2, <2>3
<1> HIDE DEF S
<1>3. \A n \in Nat : n \in S
  BY <1>1, <1>2, NatInduct
<1>4. QED
  BY <1>3 DEF S

LEMMA RestOf ==
  ASSUME NEW q \in Nat, NEW p \in Nat, NEW r \in Nat, p > 0, r < p
  PROVE  ((q * p) + r) % p = r
BY SMT

LEMMA PeriodBack ==
  ASSUME NEW n \in Nat, NEW p \in Nat, p > 0, n >= p
  PROVE  (n - p) % p = n % p
<1>1. PICK q \in Nat, r \in Nat : r < p /\ n = (q * p) + r
  BY QuotientAndRest
<1>2. q # 0
  BY <1>1
<1>3. q - 1 \in Nat /\ n - p = ((q - 1) * p) + r
  BY SMT, <1>1, <1>2
<1>4. n % p = r
  BY <1>1, RestOf
<1>5. (((q - 1) * p) + r) % p = r
  BY <1>1, <1>3, RestOf
<1>6. QED
  BY <1>3, <1>4, <1>5

LEMMA InPeriod ==
  ASSUME NEW n \in Nat, NEW p \in Nat, p > 0
  PROVE  n % p \in Nat /\ n % p < p /\ (n < p => n % p = n)
<1>1. n % p \in Nat /\ n % p < p
  BY SMT
<1>2. n < p => n % p = n
  BY SMT
<1>3. QED
  BY <1>1, <1>2

LEMMA AppendBehind ==
  ASSUME NEW s \in Seq(Nat), NEW t \in Seq(Nat), NEW x \in Nat
  PROVE  Append(s \o t, x) = s \o Append(t, x)
<1> DEFINE u == <<x>>
<1>1. u \in Seq(Nat)
  OBVIOUS
<1> HIDE DEF u
<1>2. (s \o t) \o u = s \o (t \o u)
  BY <1>1, ConcatAssociative
<1>3. s \o t \in Seq(Nat)
  BY ConcatProperties
<1>4. Append(s \o t, x) = (s \o t) \o u /\ Append(t, x) = t \o u
  BY <1>3, AppendIsConcat DEF u
<1>5. QED
  BY <1>2, <1>4

\* The letters a COPY of size n stands for, one after the other.
LEMMA CopiedType ==
  ASSUME NEW seg \in Seq(Nat), NEW win \in Seq(Nat), NEW addr \in Nat,
         addr < Len(seg) + Len(win), NEW n \in Nat
  PROVE  /\ Copied(seg, win, addr, n) \in Seq(Nat) /\ Len(Copied(seg, win, addr, n)) = n
         /\ \A i \in 1 .. n : Copied(seg, win, addr, n)[i] =
              (seg \o win)[addr + 1 + ((i - 1) % (Len(seg \o win) - addr))]
<1> DEFINE all == seg \o win
           p == Len(all) - addr
           c == [i \in 1 .. n |-> all[addr + 1 + ((i - 1) % p)]]
<1>1. all \in Seq(Nat) /\ Len(all) = Len(seg) + Len(win) /\ Len(seg) \in Nat /\ Len(win) \in Nat
  BY ConcatProperties
<1>2. Copied(seg, win, addr, n) = c
  BY DEF Copied
<1> HIDE DEF all
<1>3. p \in Nat /\ p > 0
  BY <1>1
<1>4. \A i \in 1 .. n : all[addr + 1 + ((i - 1) % p)] \in Nat
  <2>1. TAKE i \in 1 .. n
  <2>2. i - 1 \in Nat
    OBVIOUS
  <2> HIDE DEF p
  <2>3. (i - 1) % p \in Nat /\ (i - 1) % p < p
    BY <1>3, <2>2, InPeriod
  <2>4. addr + 1 + ((i - 1) % p) \in 1 .. Len(all)
    <3>1. addr + p = Len(all) /\ Len(all) \in Nat
      BY <1>1 DEF p
    <3>2. QED
      BY <1>3, <2>3, <3>1
  <2>5. QED
    BY <1>1, <2>4, ElementOfSeq
<1> HIDE DEF p
<1>5. c \in Seq(Nat) /\ Len(c) = n /\ \A i \in 1 .. n : c[i] = all[addr + 1 + ((i - 1) % p)]
  BY <1>4
<1>6. QED
  BY <1>2, <1>5 DEF all, p

\* The letters of a COPY, named for the lemmas that need them.
CopiedLetters(seg, win, addr, n) ==
  /\ Copied(seg, win, addr, n) \in Seq(Nat) /\ Len(Copied(seg, win, addr, n)) = n
  /\ \A i \in 1 .. n : Copied(seg, win, addr, n)[i] =
       (seg \o win)[addr + 1 + ((i - 1) % (Len(seg \o win) - addr))]

LEMMA CopiedAre ==
  ASSUME NEW seg \in Seq(Nat), NEW win \in Seq(Nat), NEW addr \in Nat,
         addr < Len(seg) + Len(win), NEW n \in Nat
  PROVE  CopiedLetters(seg, win, addr, n)
BY CopiedType, Zenon DEF CopiedLetters

LEMMA CopiedNext ==
  ASSUME NEW seg \in Seq(Nat), NEW win \in Seq(Nat), NEW addr \in Nat,
         addr < Len(seg) + Len(win), NEW n \in Nat
  PROVE  LET all == seg \o win
             c == Copied(seg, win, addr, n)
             x == IF addr + n < Len(seg) + Len(win) THEN all[addr + n + 1]
                  ELSE c[((addr + n) - (Len(seg) + Len(win))) + 1]
         IN x \in Nat /\ Copied(seg, win, addr, n + 1) = Append(c, x)
<1> DEFINE all == seg \o win
           L == Len(seg) + Len(win)
           p == L - addr
           c == Copied(seg, win, addr, n)
           d == Copied(seg, win, addr, n + 1)
           x == IF addr + n < L THEN all[addr + n + 1] ELSE c[((addr + n) - L) + 1]
<1>1. all \in Seq(Nat) /\ Len(all) = L /\ Len(seg) \in Nat /\ Len(win) \in Nat
  BY ConcatProperties
<1>2. /\ c \in Seq(Nat) /\ Len(c) = n
      /\ \A i \in 1 .. n : c[i] = all[addr + 1 + ((i - 1) % p)]
  <2>1. /\ c \in Seq(Nat) /\ Len(c) = n
        /\ \A i \in 1 .. n : c[i] = all[addr + 1 + ((i - 1) % (Len(all) - addr))]
    <3>1. CopiedLetters(seg, win, addr, n)
      BY CopiedAre
    <3>2. QED
      BY <3>1, Zenon DEF CopiedLetters
  <2>2. Len(all) - addr = p
    BY <1>1
  <2> HIDE DEF c, all, p
  <2>3. QED
    BY <2>1, <2>2
<1>3. /\ d \in Seq(Nat) /\ Len(d) = n + 1
      /\ \A i \in 1 .. n + 1 : d[i] = all[addr + 1 + ((i - 1) % p)]
  <2>1. n + 1 \in Nat
    OBVIOUS
  <2>2. /\ d \in Seq(Nat) /\ Len(d) = n + 1
        /\ \A i \in 1 .. n + 1 : d[i] = all[addr + 1 + ((i - 1) % (Len(all) - addr))]
    <3>1. CopiedLetters(seg, win, addr, n + 1)
      BY <2>1, CopiedAre
    <3>2. QED
      BY <3>1, Zenon DEF CopiedLetters
  <2>3. Len(all) - addr = p
    BY <1>1
  <2> HIDE DEF d, all, p
  <2>4. QED
    BY <2>2, <2>3
<1>4. p \in Nat /\ p > 0 /\ L \in Nat /\ addr + p = L
  BY <1>1
<1> HIDE DEF all, c, d, L, p
<1>5. d[n + 1] = all[addr + 1 + (n % p)]
  <2>1. n + 1 \in 1 .. n + 1 /\ (n + 1) - 1 = n
    OBVIOUS
  <2>2. QED
    BY <1>3, <2>1
<1>6. d[n + 1] = x
  <2>1. CASE addr + n < L
    <3>1. n < p
      BY <1>4, <2>1
    <3>2. n % p = n
      BY <1>4, <3>1, InPeriod
    <3>3. addr + 1 + n = addr + n + 1
      OBVIOUS
    <3>4. QED
      BY <1>5, <2>1, <3>2, <3>3
  <2>2. CASE ~(addr + n < L)
    <3>1. n >= p /\ (n - p) + 1 \in 1 .. n /\ ((n - p) + 1) - 1 = n - p /\ ((addr + n) - L) + 1 = (n - p) + 1
      BY <1>4, <2>2
    <3>2. (n - p) % p = n % p
      BY <1>4, <3>1, PeriodBack
    <3>3. c[(n - p) + 1] = all[addr + 1 + ((n - p) % p)]
      BY <1>2, <3>1
    <3>4. QED
      BY <1>5, <2>2, <3>1, <3>2, <3>3
  <2>3. QED
    BY <2>1, <2>2
<1>7. x \in Nat
  <2>1. n + 1 \in 1 .. Len(d)
    BY <1>3
  <2>2. QED
    BY <1>3, <1>6, <2>1, ElementOfSeq
<1> HIDE DEF x
<1>8. d = Append(c, x)
  <2>1. /\ Append(c, x) \in Seq(Nat) /\ Len(Append(c, x)) = Len(c) + 1
        /\ \A i \in 1 .. Len(c) : Append(c, x)[i] = c[i]
        /\ Append(c, x)[Len(c) + 1] = x
    BY <1>2, <1>7, AppendProperties
  <2>2. \A i \in 1 .. Len(d) : d[i] = Append(c, x)[i]
    <3>1. TAKE i \in 1 .. Len(d)
    <3>2. i \in 1 .. n \/ i = n + 1
      BY <1>3
    <3>3. CASE i \in 1 .. n
      <4>1. i \in 1 .. n + 1
        BY <3>3
      <4>2. QED
        BY <1>2, <1>3, <2>1, <3>3, <4>1
    <3>4. CASE i = n + 1
      BY <1>2, <1>6, <2>1, <3>4
    <3>5. QED
      BY <3>2, <3>3, <3>4
  <2>3. Len(d) = Len(Append(c, x))
    BY <1>2, <1>3, <2>1
  <2>4. QED
    BY <1>3, <2>1, <2>2, <2>3, SeqEqual
<1>9. QED
  BY <1>7, <1>8 DEF x, c, d, L, all

Copying(out) == [err |-> "OK", out |-> out]
WindowOf(seg, start, cap) == [seg |-> seg, start |-> start, cap |-> cap]
AtAddress(b, a, seg, start) == IF a < Len(seg) THEN seg[a + 1] ELSE b[start + a - Len(seg) + 1]

LEMMA CopyByteIs ==
  ASSUME NEW b \in Seq(Nat), NEW a \in Nat, NEW seg \in Seq(Nat), NEW start \in Nat, NEW cap,
         a < Len(seg) + (Len(b) - start), start <= Len(b)
  PROVE  CopyByte(Copying(b), a, WindowOf(seg, start, cap))
           = Copying(Append(b, AtAddress(b, a, seg, start)))
<1>1. Len(seg) \in Nat /\ Len(b) \in Nat
  OBVIOUS
<1>2. a \in 0 .. Len(seg) + Len(b) - start - 1
  BY <1>1
<1> DEFINE r == [err |-> "OK", out |-> b]
           win == [seg |-> seg, start |-> start, cap |-> cap]
<1>3. r.err = "OK" /\ r.out = b /\ win.seg = seg /\ win.start = start
  OBVIOUS
<1>4. \A y : [r EXCEPT !.out = y] = [err |-> "OK", out |-> y]
  OBVIOUS
<1> HIDE DEF r, win
<1>5. CopyByte(r, a, win) =
        [r EXCEPT !.out = Append(b, IF a < Len(seg) THEN seg[a + 1] ELSE b[start + a - Len(seg) + 1])]
  BY <1>2, <1>3 DEF CopyByte
<1>6. QED
  BY <1>4, <1>5 DEF r, win, Copying, WindowOf, AtAddress

LetterAt(seg, win, addr, n) ==
  IF addr + n < Len(seg) + Len(win) THEN (seg \o win)[addr + n + 1]
  ELSE Copied(seg, win, addr, n)[((addr + n) - (Len(seg) + Len(win))) + 1]
OneMore(seg, win, addr, n) ==
  /\ LetterAt(seg, win, addr, n) \in Nat
  /\ Copied(seg, win, addr, n + 1) = Append(Copied(seg, win, addr, n), LetterAt(seg, win, addr, n))

LEMMA OneMoreIs ==
  ASSUME NEW seg \in Seq(Nat), NEW win \in Seq(Nat), NEW addr \in Nat,
         addr < Len(seg) + Len(win), NEW n \in Nat
  PROVE  OneMore(seg, win, addr, n)
BY CopiedNext, Zenon DEF OneMore, LetterAt

CopyLoops(out, addr, win) ==
  /\ CopyBytes(out, addr, 0, win) = Copying(out)
  /\ \A n \in Nat : CopyBytes(out, addr, n + 1, win)
                      = CopyByte(CopyBytes(out, addr, n, win), addr + (n + 1) - 1, win)

LEMMA CopyLoopIs ==
  ASSUME NEW out, NEW addr, NEW win
  PROVE  CopyLoops(out, addr, win)
BY CopyLoop, Zenon DEF CopyLoops, Copying

TwoInRow(x, y) ==
  /\ x \o y \in Seq(Nat) /\ Len(x \o y) = Len(x) + Len(y)
  /\ \A i \in 1 .. Len(x) + Len(y) : (x \o y)[i] = IF i <= Len(x) THEN x[i] ELSE y[i - Len(x)]

LEMMA TwoInRowIs ==
  ASSUME NEW x \in Seq(Nat), NEW y \in Seq(Nat)
  PROVE  TwoInRow(x, y)
BY ConcatProperties DEF TwoInRow

\* execute_copy writes what the COPY stands for, the overlapping part of it
\* included.
LEMMA CopyReads ==
  ASSUME NEW out \in Seq(Nat), NEW start \in 0 .. Len(out), NEW seg \in Seq(Nat), NEW cap,
         NEW addr \in Nat, addr < Len(seg) + (Len(out) - start), NEW size \in Nat
  PROVE  CopyBytes(out, addr, size, WindowOf(seg, start, cap))
           = Copying(out \o Copied(seg, From(out, start), addr, size))
<1> DEFINE win == WindowOf(seg, start, cap)
           w == From(out, start)
           L == Len(seg) + Len(w)
           all == seg \o w
           C(n) == Copied(seg, w, addr, n)
           S == {n \in Nat : CopyBytes(out, addr, n, win) = Copying(out \o C(n))}
<1>1. /\ w \in Seq(Nat) /\ Len(w) = Len(out) - start /\ Len(seg) \in Nat
      /\ Len(out) \in Nat /\ start \in Nat /\ start <= Len(out)
      /\ \A i \in 1 .. Len(out) - start : w[i] = out[start + i]
  <2>1. /\ w \in Seq(Nat) /\ Len(w) = Len(out) - start
        /\ \A i \in 1 .. Len(out) - start : w[i] = out[start + i]
    BY FromType
  <2>2. Len(seg) \in Nat /\ Len(out) \in Nat
    OBVIOUS
  <2>3. QED
    BY <2>1, <2>2
<1> HIDE DEF w, win
<1>0. /\ CopyBytes(out, addr, 0, win) = Copying(out)
      /\ \A n \in Nat : CopyBytes(out, addr, n + 1, win)
                          = CopyByte(CopyBytes(out, addr, n, win), addr + (n + 1) - 1, win)
  <2>1. CopyLoops(out, addr, win)
    BY CopyLoopIs
  <2>2. QED
    BY <2>1, Zenon DEF CopyLoops
<1>2. addr < Len(seg) + Len(w) /\ L = Len(seg) + (Len(out) - start) /\ L \in Nat
  BY <1>1
<1>3. \A n \in Nat : C(n) \in Seq(Nat) /\ Len(C(n)) = n
  <2>1. TAKE n \in Nat
  <2>2. CopiedLetters(seg, w, addr, n)
    BY <1>1, <1>2, CopiedAre
  <2>3. QED
    BY <2>2, Zenon DEF CopiedLetters
<1>4. 0 \in S
  <2>1. C(0) = <<>>
    <3>1. C(0) \in Seq(Nat) /\ Len(C(0)) = 0
      BY <1>3
    <3> HIDE DEF C
    <3>2. QED
      BY <3>1, EmptySeq
  <2>2. out \o <<>> = out
    BY ConcatEmptySeq
  <2>3. CopyBytes(out, addr, 0, win) = Copying(out)
    BY <1>0
  <2>4. QED
    BY <2>1, <2>2, <2>3
<1>5. ASSUME NEW n \in Nat, n \in S PROVE n + 1 \in S
  <2> DEFINE b == out \o C(n)
             a == addr + n
             y == AtAddress(b, a, seg, start)
             x == IF a < L THEN all[a + 1] ELSE C(n)[(a - L) + 1]
  <2>1. /\ b \in Seq(Nat) /\ Len(b) = Len(out) + n
        /\ \A i \in 1 .. Len(out) + n : b[i] = IF i <= Len(out) THEN out[i] ELSE C(n)[i - Len(out)]
    <3>1. C(n) \in Seq(Nat) /\ Len(C(n)) = n
      BY <1>3
    <3> HIDE DEF C
    <3>2. /\ b \in Seq(Nat) /\ Len(b) = Len(out) + Len(C(n))
          /\ \A i \in 1 .. Len(out) + Len(C(n)) :
               b[i] = IF i <= Len(out) THEN out[i] ELSE C(n)[i - Len(out)]
      BY <3>1, ConcatProperties
    <3> HIDE DEF b
    <3>3. QED
      BY <3>1, <3>2
  <2>2. /\ all \in Seq(Nat) /\ Len(all) = L
        /\ \A i \in 1 .. L : all[i] = IF i <= Len(seg) THEN seg[i] ELSE w[i - Len(seg)]
    <3>1. seg \in Seq(Nat) /\ w \in Seq(Nat)
      BY <1>1
    <3>2. TwoInRow(seg, w)
      BY <3>1, TwoInRowIs
    <3>3. QED
      BY <1>1, <3>2, Zenon DEF TwoInRow
  <2>3. x \in Nat /\ C(n + 1) = Append(C(n), x)
    <3>1. OneMore(seg, w, addr, n)
      BY <1>1, <1>2, OneMoreIs
    <3>2. x = LetterAt(seg, w, addr, n)
      BY Zenon DEF LetterAt
    <3>3. QED
      BY <3>1, <3>2, Zenon DEF OneMore
  <2>4. CopyBytes(out, addr, n + 1, win) = CopyByte(CopyBytes(out, addr, n, win), addr + (n + 1) - 1, win)
    BY <1>0
  <2>5. CopyBytes(out, addr, n, win) = Copying(b)
    BY <1>5
  <2>6. addr + (n + 1) - 1 = a /\ a \in Nat
    OBVIOUS
  <2> HIDE DEF b, C, all, a
  <2>7. y = x
    <3> USE DEF AtAddress
    <3>1. CASE a < Len(seg)
      <4>1. a < L /\ a + 1 \in 1 .. L /\ a + 1 <= Len(seg)
        BY <1>1, <1>2, <2>6, <3>1
      <4>2. all[a + 1] = seg[a + 1]
        BY <2>2, <4>1
      <4>3. QED
        BY <3>1, <4>1, <4>2
    <3>2. CASE ~(a < Len(seg)) /\ a < L
      <4> DEFINE i == a + 1
                 k == i - Len(seg)
      <4>1. i \in 1 .. L /\ ~(i <= Len(seg)) /\ k \in 1 .. Len(out) - start
        BY <1>1, <1>2, <2>6, <3>2
      <4>2. /\ start + k \in 1 .. Len(out) + n /\ start + k <= Len(out)
            /\ start + a - Len(seg) + 1 = start + k
        BY <1>1, <1>2, <2>6, <4>1
      <4>3. all[i] = w[k]
        BY <2>2, <4>1
      <4>4. w[k] = out[start + k]
        BY <1>1, <4>1
      <4>5. b[start + k] = out[start + k]
        BY <2>1, <4>2
      <4>6. x = all[i]
        BY <3>2
      <4>7. y = b[start + k]
        BY <3>2, <4>2
      <4>8. QED
        BY <4>3, <4>4, <4>5, <4>6, <4>7
    <3>3. CASE ~(a < Len(seg)) /\ ~(a < L)
      <4> DEFINE i == start + a - Len(seg) + 1
      <4>1. i \in 1 .. Len(out) + n /\ ~(i <= Len(out)) /\ i - Len(out) = (a - L) + 1
        BY <1>1, <1>2, <2>6, <3>3
      <4>2. b[i] = C(n)[i - Len(out)]
        BY <2>1, <4>1
      <4>3. QED
        BY <3>3, <4>1, <4>2
    <3>4. QED
      BY <3>1, <3>2, <3>3
  <2>8. CopyByte(Copying(b), a, win) = Copying(Append(b, y))
    <3>1. a < Len(seg) + (Len(b) - start) /\ start <= Len(b)
      BY <1>1, <1>2, <2>1, <2>6
    <3>2. QED
      BY <1>1, <2>1, <2>6, <3>1, CopyByteIs DEF win
  <2>9. Append(b, x) = out \o C(n + 1)
    <3>1. C(n) \in Seq(Nat)
      BY <1>3
    <3>2. Append(out \o C(n), x) = out \o Append(C(n), x)
      <4> HIDE DEF x
      <4>1. QED
        BY <2>3, <3>1, AppendBehind
    <3>3. QED
      BY <2>3, <3>2 DEF b
  <2>10. CopyBytes(out, addr, n + 1, win) = Copying(out \o C(n + 1))
    <3> HIDE DEF x, y
    <3>1. QED
      BY <2>4, <2>5, <2>6, <2>7, <2>8, <2>9
  <2>11. QED
    BY <2>10
<1> HIDE DEF S
<1>6. \A n \in Nat : n \in S
  BY <1>4, <1>5, NatInduct
<1>7. QED
  BY <1>6 DEF S, C, w, win

-----------------------------------------------------------------------------
(* The two halves of an opcode.                                            *)

\* The state of the loop over the opcodes, with x, y and z still to read.
Reached(out, near, next, same, x, y, z) ==
  [err |-> "OK", out |-> out, data |-> x, inst |-> y, addr |-> z,
   near |-> near, next |-> next, same |-> same]

LEMMA ReachedSet ==
  ASSUME NEW out, NEW near, NEW next, NEW same, NEW x, NEW y, NEW z, NEW v
  PROVE  /\ [Reached(out, near, next, same, x, y, z) EXCEPT !.inst = v] = Reached(out, near, next, same, x, v, z)
         /\ [Reached(out, near, next, same, x, y, z) EXCEPT !.out = v]  = Reached(v, near, next, same, x, y, z)
         /\ [Reached(out, near, next, same, x, y, z) EXCEPT !.data = v] = Reached(out, near, next, same, v, y, z)
         /\ [Reached(out, near, next, same, x, y, z) EXCEPT !.addr = v] = Reached(out, near, next, same, x, y, v)
         /\ [Reached(out, near, next, same, x, y, z) EXCEPT !.near = v] = Reached(out, v, next, same, x, y, z)
         /\ [Reached(out, near, next, same, x, y, z) EXCEPT !.next = v] = Reached(out, near, v, same, x, y, z)
         /\ [Reached(out, near, next, same, x, y, z) EXCEPT !.same = v] = Reached(out, near, next, v, x, y, z)
         /\ [Reached(out, near, next, same, x, y, z) EXCEPT !.err = "OK"] = Reached(out, near, next, same, x, y, z)
BY DEF Reached

Near == [0 .. S_NEAR - 1 -> Nat]

\* The integer behind an opcode that has no size.
SizeBytes(inst, n) == IF inst.size = 0 THEN Vint(n) ELSE <<>>

\* The half executes with the size n.
WithSize(out, near, next, same, x, y, z, inst, n, win) ==
  \E r : /\ r.v = n
         /\ Execute(Reached(out, near, next, same, x, SizeBytes(inst, n) \o y, z), inst, win)
              = ExecuteSized(Reached(out, near, next, same, x, y, z), inst, r, win)

LEMMA SizeReads ==
  ASSUME NEW out, NEW near, NEW next, NEW same, NEW x, NEW y \in Seq(Nat), NEW z,
         NEW inst, inst.type # "NOOP", NEW n \in Nat, n < 2 * Pow27,
         inst.size # 0 => n = inst.size, NEW win
  PROVE  WithSize(out, near, next, same, x, y, z, inst, n, win)
<1> DEFINE sized == SizeBytes(inst, n) \o y
           d == Reached(out, near, next, same, x, sized, z)
           e == Reached(out, near, next, same, x, y, z)
           r == IF inst.size # 0 THEN [n |-> 0, v |-> inst.size] ELSE read_varint(d.inst)
<1>1. d.err = "OK" /\ d.inst = SizeBytes(inst, n) \o y
  BY DEF Reached
<1> HIDE DEF sized
<1>2. [d EXCEPT !.inst = y] = e
  BY DEF Reached
<1> HIDE DEF d, e
<1>3. r.v = n /\ From(d.inst, r.n) = y /\ ~(inst.size = 0 /\ r.n = 0)
  <2>1. CASE inst.size = 0
    <3> DEFINE s == Vint(n)
    <3>1. s \in Seq(Nat) /\ Len(s) \in 1 .. 4 /\ read_varint(s \o y) = [n |-> Len(s), v |-> n]
      BY ReadVint
    <3>2. From(s \o y, Len(s)) = y
      BY <3>1, FromConcat
    <3>3. d.inst = s \o y
      BY <1>1, <2>1 DEF SizeBytes
    <3> HIDE DEF s
    <3>4. r = [n |-> Len(s), v |-> n]
      BY <2>1, <3>1, <3>3
    <3> HIDE DEF r
    <3>5. r.v = n /\ r.n = Len(s) /\ Len(s) # 0
      BY <3>1, <3>4
    <3>6. QED
      BY <3>2, <3>3, <3>5
  <2>2. CASE inst.size # 0
    <3>1. r = [n |-> 0, v |-> inst.size]
      BY <2>2
    <3>2. d.inst = <<>> \o y
      BY <1>1, <2>2 DEF SizeBytes
    <3>3. From(<<>> \o y, Len(<<>>)) = y /\ Len(<<>>) = 0
      <4>1. <<>> \in Seq(Nat) /\ Len(<<>>) = 0
        BY EmptySeq
      <4>2. QED
        BY <4>1, FromConcat
    <3> HIDE DEF r
    <3>4. r.v = n /\ r.n = 0
      BY <2>2, <3>1
    <3>5. QED
      BY <2>2, <3>2, <3>3, <3>4
  <2>3. QED
    BY <2>1, <2>2
<1>4. Execute(d, inst, win) =
        IF inst.size = 0 /\ r.n = 0 THEN [d EXCEPT !.err = "TRUNCATED"]
        ELSE ExecuteSized([d EXCEPT !.inst = From(@, r.n)], inst, r, win)
  BY <1>1, Zenon DEF Execute
<1> HIDE DEF r
<1>5. [d EXCEPT !.inst = From(@, r.n)] = [d EXCEPT !.inst = From(d.inst, r.n)]
  OBVIOUS
<1>6. Execute(d, inst, win) = ExecuteSized(e, inst, r, win)
  <2>1. [d EXCEPT !.inst = From(@, r.n)] = e
    BY <1>2, <1>3, <1>5
  <2>2. QED
    BY <1>3, <1>4, <2>1
<1>7. QED
  BY <1>3, <1>6 DEF d, e, sized, WithSize

LEMMA AddReads ==
  ASSUME NEW out, NEW near, NEW next, NEW same, NEW bs \in Seq(Nat), NEW x \in Seq(Nat), NEW y, NEW z,
         NEW inst, inst.type = "ADD", NEW r, r.v = Len(bs), NEW win, Len(out) + Len(bs) <= win.cap,
         win.cap \in Nat, Len(out) \in Nat
  PROVE  ExecuteSized(Reached(out, near, next, same, bs \o x, y, z), inst, r, win)
           = Reached(out \o bs, near, next, same, x, y, z)
<1> DEFINE s == bs \o x
           o == out \o bs
           d == Reached(out, near, next, same, s, y, z)
<1>0. d.data = s /\ d.out = out
  BY DEF Reached
<1>1. d.data = bs \o x /\ d.out = out
  BY <1>0
<1>2. Len(bs \o x) = Len(bs) + Len(x) /\ Len(bs) \in Nat /\ Len(x) \in Nat
  BY ConcatProperties
<1>3. ~(Len(d.data) < r.v) /\ ~(Len(d.out) + r.v > win.cap)
  BY <1>1, <1>2
<1>4. SubSeq(d.data, 1, r.v) = bs /\ From(d.data, r.v) = x
  BY <1>1, PartsOfConcat, FromConcat
<1>5. ExecuteSized(d, inst, r, win)
        = [d EXCEPT !.out = d.out \o SubSeq(d.data, 1, r.v), !.data = From(d.data, r.v)]
  <2> HIDE DEF d
  <2>1. ExecuteSized(d, inst, r, win)
        = [d EXCEPT !.out = @ \o SubSeq(d.data, 1, r.v), !.data = From(@, r.v)]
    BY <1>3, Zenon DEF ExecuteSized
  <2>2. QED
    BY <2>1
<1> HIDE DEF d, s
<1>6. ExecuteSized(d, inst, r, win) = [d EXCEPT !.out = o, !.data = x]
  BY <1>1, <1>4, <1>5
<1> HIDE DEF o
<1>7. [d EXCEPT !.out = o, !.data = x] = [[d EXCEPT !.out = o] EXCEPT !.data = x]
  OBVIOUS
<1>8. [d EXCEPT !.out = o] = Reached(o, near, next, same, s, y, z)
  BY DEF d, Reached
<1>9. [Reached(o, near, next, same, s, y, z) EXCEPT !.data = x] = Reached(o, near, next, same, x, y, z)
  BY DEF Reached
<1>10. QED
  BY <1>6, <1>7, <1>8, <1>9 DEF d, s, o

LEMMA RunReads ==
  ASSUME NEW out, NEW near, NEW next, NEW same, NEW b \in Nat, NEW x \in Seq(Nat), NEW y, NEW z,
         NEW inst, inst.type = "RUN", NEW n \in Nat, NEW r, r.v = n, NEW win, Len(out) + n <= win.cap,
         win.cap \in Nat, Len(out) \in Nat
  PROVE  ExecuteSized(Reached(out, near, next, same, <<b>> \o x, y, z), inst, r, win)
           = Reached(out \o [i \in 1 .. n |-> b], near, next, same, x, y, z)
<1> DEFINE s == <<b>> \o x
           o == out \o [i \in 1 .. n |-> b]
           d == Reached(out, near, next, same, s, y, z)
<1>1. d.data = s /\ d.out = out
  BY DEF Reached
<1>2. Head(s) = b /\ Tail(s) = x /\ Len(s) = Len(x) + 1 /\ Len(x) \in Nat
  BY FirstOf
<1> HIDE DEF s, d
<1>3. ~(Len(d.data) < 1) /\ ~(Len(d.out) + r.v > win.cap) /\ inst.type # "ADD" /\ inst.type # "COPY"
  BY <1>1, <1>2
<1>4. ExecuteSized(d, inst, r, win)
        = [d EXCEPT !.out = @ \o [i \in 1 .. r.v |-> Head(d.data)], !.data = Tail(@)]
  BY <1>3, Zenon DEF ExecuteSized
<1>5. [d EXCEPT !.out = @ \o [i \in 1 .. r.v |-> Head(d.data)], !.data = Tail(@)]
        = [d EXCEPT !.out = d.out \o [i \in 1 .. r.v |-> Head(d.data)], !.data = Tail(d.data)]
  OBVIOUS
<1>6. Head(d.data) = b /\ Tail(d.data) = x
  BY <1>1, <1>2
<1>7. ExecuteSized(d, inst, r, win) = [d EXCEPT !.out = o, !.data = x]
  <2>1. d.out \o [i \in 1 .. r.v |-> Head(d.data)] = o
    BY <1>1, <1>6
  <2> HIDE DEF o
  <2>2. QED
    BY <1>4, <1>5, <1>6, <2>1
<1> HIDE DEF o
<1>8. [d EXCEPT !.out = o, !.data = x] = [[d EXCEPT !.out = o] EXCEPT !.data = x]
  OBVIOUS
<1>9. [d EXCEPT !.out = o] = Reached(o, near, next, same, s, y, z)
  BY DEF d, Reached
<1>10. [Reached(o, near, next, same, s, y, z) EXCEPT !.data = x] = Reached(o, near, next, same, x, y, z)
  BY DEF Reached
<1>11. QED
  BY <1>7, <1>8, <1>9, <1>10 DEF d, s, o

\* The ways to write an address, mode by mode.
LEMMA AddressesOf ==
  ASSUME NEW mode \in 0 .. 8, NEW e, NEW addr, NEW here
  PROVE  /\ mode = 0 => Addresses(e, mode, addr, here) = {Vint(addr)}
         /\ mode = 1 => Addresses(e, mode, addr, here) = {Vint(here - addr)}
         /\ mode \in 2 .. 5 => Addresses(e, mode, addr, here)
              = IF addr >= e.near[mode - 2] THEN {Vint(addr - e.near[mode - 2])} ELSE {}
         /\ mode \in 6 .. 8 => Addresses(e, mode, addr, here)
              = {<<b>> : b \in {b \in {addr % 256} : Cached(e.same, (mode - 6) * 256 + b) = addr}}
<1>1. mode = 0 => Addresses(e, mode, addr, here) = {Vint(addr)}
  BY DEF Addresses, S_NEAR
<1>2. mode = 1 => Addresses(e, mode, addr, here) = {Vint(here - addr)}
  BY DEF Addresses, S_NEAR
<1>3. ASSUME mode \in 2 .. 5
      PROVE  Addresses(e, mode, addr, here)
              = IF addr >= e.near[mode - 2] THEN {Vint(addr - e.near[mode - 2])} ELSE {}
  <2>1. mode # 0 /\ mode # 1 /\ mode \in 2 .. 1 + S_NEAR /\ ~(mode >= 2 + S_NEAR)
    BY <1>3 DEF S_NEAR
  <2>2. QED
    BY <2>1, Zenon DEF Addresses
<1>4. ASSUME mode \in 6 .. 8
      PROVE  Addresses(e, mode, addr, here)
              = {<<b>> : b \in {b \in {addr % 256} : Cached(e.same, (mode - 6) * 256 + b) = addr}}
  <2>1. mode # 0 /\ mode # 1 /\ mode \notin 2 .. 1 + S_NEAR /\ mode >= 2 + S_NEAR
    BY <1>4 DEF S_NEAR
  <2>2. mode - 2 - S_NEAR = mode - 6
    BY <1>4 DEF S_NEAR
  <2>3. Addresses(e, mode, addr, here)
          = {<<b>> : b \in {b \in {addr % 256} : Cached(e.same, (mode - 2 - S_NEAR) * 256 + b) = addr}}
    BY <2>1, Zenon DEF Addresses
  <2>4. QED
    BY <2>2, <2>3, Zenon
<1>5. QED
  BY <1>1, <1>2, <1>3, <1>4

LEMMA CopyAddressOf ==
  ASSUME NEW d, NEW mode \in 2 .. 5, NEW here
  PROVE  CopyAddress(d, mode, here) =
           [n |-> read_varint(d.addr).n, a |-> d.near[mode - 2] + read_varint(d.addr).v]
<1>1. mode # 0 /\ mode # 1 /\ ~(mode >= 2 + S_NEAR)
  BY DEF S_NEAR
<1>2. QED
  BY <1>1, Zenon DEF CopyAddress

\* Whichever way the encoder writes an address, the decoder reads it.
AddressIs(d, mode, here, code, addr) ==
  CopyAddress(d, mode, here) = [n |-> Len(code), a |-> addr]

LEMMA AddressReads ==
  ASSUME NEW mode \in 0 .. 8, NEW near \in Near, NEW same, NEW e, e.near = near, e.same = same,
         NEW addr \in Nat, NEW here \in Nat, addr < here, here < 2 * Pow27,
         NEW code \in Addresses(e, mode, addr, here),
         NEW d, NEW z \in Seq(Nat), d.addr = code \o z, d.near = near, d.same = same
  PROVE  /\ code \in Seq(Nat) /\ Len(code) \in Nat /\ Len(code) # 0
         /\ AddressIs(d, mode, here, code, addr)
<1> USE DEF AddressIs
<1>1. ASSUME NEW v \in Nat, v < 2 * Pow27, code = Vint(v)
      PROVE  /\ code \in Seq(Nat) /\ Len(code) \in Nat /\ Len(code) # 0
             /\ read_varint(d.addr).n = Len(code) /\ read_varint(d.addr).v = v
  <2>1. /\ Vint(v) \in Seq(Nat) /\ Len(Vint(v)) \in 1 .. 4
        /\ read_varint(Vint(v) \o z) = [n |-> Len(Vint(v)), v |-> v]
    BY <1>1, ReadVint
  <2>2. read_varint(d.addr) = [n |-> Len(code), v |-> v]
    BY <1>1, <2>1
  <2>3. Len(code) \in 1 .. 4 /\ code \in Seq(Nat)
    BY <1>1, <2>1
  <2> DEFINE r == read_varint(d.addr)
  <2> HIDE DEF r
  <2>4. r = [n |-> Len(code), v |-> v]
    BY <2>2 DEF r
  <2>5. r.n = Len(code) /\ r.v = v
    BY <2>4
  <2>7. Len(code) \in Nat /\ Len(code) # 0
    <3> DEFINE k == Len(code)
    <3>1. k \in 1 .. 4
      BY <2>3
    <3> HIDE DEF k
    <3>2. k \in Nat /\ k # 0
      BY <3>1
    <3>3. QED
      BY <3>2 DEF k
  <2>6. QED
    BY <2>3, <2>5, <2>7 DEF r
<1>2. CASE mode = 0
  <2>1. code = Vint(addr)
    <3>1. Addresses(e, mode, addr, here) = {Vint(addr)}
      BY <1>2, AddressesOf
    <3>2. QED
      BY <3>1
  <2>2. addr < 2 * Pow27
    BY DEF Pow27
  <2>3. CopyAddress(d, mode, here) = [n |-> read_varint(d.addr).n, a |-> read_varint(d.addr).v]
    BY <1>2 DEF CopyAddress, S_NEAR
  <2>4. QED
    BY <1>1, <2>1, <2>2, <2>3
<1>3. CASE mode = 1
  <2>1. code = Vint(here - addr)
    <3>1. Addresses(e, mode, addr, here) = {Vint(here - addr)}
      BY <1>3, AddressesOf
    <3>2. QED
      BY <3>1
  <2>2. here - addr \in Nat /\ here - addr < 2 * Pow27 /\ here - (here - addr) = addr
    BY DEF Pow27
  <2>3. CopyAddress(d, mode, here) = [n |-> read_varint(d.addr).n, a |-> here - read_varint(d.addr).v]
    BY <1>3 DEF CopyAddress, S_NEAR
  <2> DEFINE v == here - addr
  <2> HIDE DEF v
  <2>4. v \in Nat /\ v < 2 * Pow27 /\ code = Vint(v) /\ here - v = addr
    BY <2>1, <2>2 DEF v
  <2>5. QED
    BY <1>1, <2>3, <2>4
<1>4. CASE mode \in 2 .. 5
  <2> DEFINE m == mode - 2
             v == addr - near[m]
  <2>1. m \in 0 .. 3 /\ near[m] \in Nat
    BY <1>4 DEF Near, S_NEAR
  <2>2. addr >= near[m] /\ code = Vint(v)
    <3>1. Addresses(e, mode, addr, here)
            = IF addr >= e.near[mode - 2] THEN {Vint(addr - e.near[mode - 2])} ELSE {}
      BY <1>4, AddressesOf
    <3>2. Addresses(e, mode, addr, here) = IF addr >= near[m] THEN {Vint(v)} ELSE {}
      BY <3>1
    <3> HIDE DEF v, m
    <3>3. QED
      BY <3>2
  <2>3. v \in Nat /\ v < 2 * Pow27 /\ near[m] + v = addr
    BY <2>1, <2>2 DEF Pow27
  <2>4. CopyAddress(d, mode, here) = [n |-> read_varint(d.addr).n, a |-> near[m] + read_varint(d.addr).v]
    BY <1>4, CopyAddressOf
  <2> HIDE DEF v, m
  <2>5. QED
    BY <1>1, <2>2, <2>3, <2>4
<1>5. CASE mode \in 6 .. 8
  <2> DEFINE b == addr % 256
  <2>1. code = <<b>> /\ Cached(same, (mode - 6) * 256 + b) = addr
    <3>0. Addresses(e, mode, addr, here)
            = {<<b2>> : b2 \in {b2 \in {addr % 256} : Cached(e.same, (mode - 6) * 256 + b2) = addr}}
      BY <1>5, AddressesOf
    <3>1. code \in {<<b2>> : b2 \in {b2 \in {b} : Cached(same, (mode - 6) * 256 + b2) = addr}}
      BY <3>0
    <3> HIDE DEF b
    <3>2. PICK b2 \in {b2 \in {b} : Cached(same, (mode - 6) * 256 + b2) = addr} : code = <<b2>>
      BY <3>1
    <3>3. QED
      BY <3>2
  <2>2. b \in Nat
    OBVIOUS
  <2> HIDE DEF b
  <2>3. code \in Seq(Nat) /\ Len(code) = 1
    BY <2>1, <2>2
  <2>4. d.addr # <<>> /\ d.addr[1] = b
    <3>1. /\ code \o z \in Seq(Nat) /\ Len(code \o z) = Len(code) + Len(z)
          /\ \A i \in 1 .. Len(code) + Len(z) : (code \o z)[i] = IF i <= Len(code) THEN code[i] ELSE z[i - Len(code)]
      BY <2>3, ConcatProperties
    <3>2. Len(z) \in Nat /\ code[1] = b
      BY <2>1
    <3> DEFINE s == code \o z
    <3> HIDE DEF s
    <3>7. /\ s \in Seq(Nat) /\ Len(s) = Len(code) + Len(z)
          /\ \A i \in 1 .. Len(code) + Len(z) : s[i] = IF i <= Len(code) THEN code[i] ELSE z[i - Len(code)]
      BY <3>1 DEF s
    <3>8. 1 \in 1 .. Len(code) + Len(z) /\ 1 <= Len(code)
      BY <2>3, <3>2
    <3>3. Len(s) = 1 + Len(z) /\ s[1] = code[1] /\ s \in Seq(Nat)
      BY <2>3, <3>7, <3>8
    <3>4. s # <<>>
      BY <3>2, <3>3, EmptySeq
    <3>5. d.addr = s
      BY DEF s
    <3>6. QED
      BY <3>2, <3>3, <3>4, <3>5
  <2>5. mode >= 2 + S_NEAR /\ mode - 2 - S_NEAR = mode - 6
    BY <1>5 DEF S_NEAR
  <2>6. CopyAddress(d, mode, here) = [n |-> 1, a |-> Cached(same, (mode - 6) * 256 + b)]
    BY <2>4, <2>5 DEF CopyAddress
  <2>7. QED
    BY <2>1, <2>3, <2>6
<1>6. mode = 0 \/ mode = 1 \/ mode \in 2 .. 5 \/ mode \in 6 .. 8
  OBVIOUS
<1>7. QED
  BY <1>2, <1>3, <1>4, <1>5, <1>6

LEMMA AddressType ==
  ASSUME NEW mode \in 0 .. 8, NEW e, e.near \in Near,
         NEW addr \in Nat, NEW here \in Nat, addr < here, here < 2 * Pow27,
         NEW code \in Addresses(e, mode, addr, here)
  PROVE  code \in Seq(Nat)
<1> DEFINE near == e.near
           same == e.same
           z == <<>>
           s == code \o z
           d == [addr |-> s, near |-> near, same |-> same]
<1>1. d.addr = s /\ d.near = near /\ d.same = same /\ z \in Seq(Nat) /\ near \in Near
  OBVIOUS
<1>2. e.near = near /\ e.same = same
  OBVIOUS
<1>3. d.addr = code \o z
  BY <1>1
<1> HIDE DEF d, near, same, z, s
<1>4. QED
  BY <1>1, <1>2, <1>3, AddressReads

AfterCopy(d, o, z, n, m, q) ==
  [d EXCEPT !.err = "OK", !.out = o, !.addr = z, !.near = n, !.next = m, !.same = q]

LEMMA CopyState ==
  ASSUME NEW out, NEW near, NEW next, NEW same, NEW x, NEW y, NEW s,
         NEW o, NEW z, NEW n, NEW m, NEW q
  PROVE  AfterCopy(Reached(out, near, next, same, x, y, s), o, z, n, m, q) = Reached(o, n, m, q, x, y, z)
<1> DEFINE d  == Reached(out, near, next, same, x, y, s)
           d1 == [d EXCEPT !.err = "OK"]
           d2 == [d1 EXCEPT !.out = o]
           d3 == [d2 EXCEPT !.addr = z]
           d4 == [d3 EXCEPT !.near = n]
           d5 == [d4 EXCEPT !.next = m]
           d6 == [d5 EXCEPT !.same = q]
<1>1. AfterCopy(d, o, z, n, m, q) = d6
  <2> HIDE DEF d
  <2>1. QED
    BY DEF AfterCopy
<1>2. d1 = Reached(out, near, next, same, x, y, s)
  BY DEF Reached
<1> HIDE DEF d1
<1>3. d2 = Reached(o, near, next, same, x, y, s)
  BY <1>2 DEF Reached
<1> HIDE DEF d2
<1>4. d3 = Reached(o, near, next, same, x, y, z)
  BY <1>3 DEF Reached
<1> HIDE DEF d3
<1>5. d4 = Reached(o, n, next, same, x, y, z)
  BY <1>4 DEF Reached
<1> HIDE DEF d4
<1>6. d5 = Reached(o, n, m, same, x, y, z)
  BY <1>5 DEF Reached
<1> HIDE DEF d5
<1>7. d6 = Reached(o, n, m, q, x, y, z)
  BY <1>6 DEF Reached
<1> HIDE DEF d6
<1>8. QED
  BY <1>1, <1>7

\* The COPY of n letters from addr executes.
CopyExecutes(out, start, seg, near, next, same, addr, code, n, inst, r, x, y, z) ==
  ExecuteSized(Reached(out, near, next, same, x, y, code \o z), inst, r, WindowOf(seg, start, Capacity))
    = Reached(out \o Copied(seg, From(out, start), addr, n), [near EXCEPT ![next] = addr],
              (next + 1) % S_NEAR, (addr % (S_SAME * 256) :> addr) @@ same, x, y, z)

LEMMA CopyHalfReads ==
  ASSUME NEW out \in Seq(Nat), NEW start \in 0 .. Len(out), NEW seg \in Seq(Nat),
         NEW mode \in 0 .. 8, NEW near \in Near, NEW next \in 0 .. 3, NEW same,
         NEW e, e.near = near, e.same = same,
         NEW addr \in Nat, addr < Len(seg) + (Len(out) - start),
         Len(seg) + (Len(out) - start) < 2 * Pow27,
         NEW code \in Addresses(e, mode, addr, Len(seg) + (Len(out) - start)),
         NEW n \in Nat, Len(out) + n <= Capacity,
         NEW inst, inst.type = "COPY", inst.mode = mode, NEW r, r.v = n,
         NEW x, NEW y, NEW z \in Seq(Nat)
  PROVE  CopyExecutes(out, start, seg, near, next, same, addr, code, n, inst, r, x, y, z)
<1> DEFINE s == code \o z
           here == Len(seg) + (Len(out) - start)
           win == WindowOf(seg, start, Capacity)
           d == Reached(out, near, next, same, x, y, s)
           c == CopyAddress(d, mode, here)
           o == out \o Copied(seg, From(out, start), addr, n)
           near2 == [near EXCEPT ![next] = addr]
           next2 == (next + 1) % S_NEAR
           same2 == (addr % (S_SAME * 256) :> addr) @@ same
<1>1. here \in Nat /\ Len(out) \in Nat /\ Len(seg) \in Nat /\ start \in Nat /\ Capacity \in Nat
  BY VcdiffAssumption
<1>0. addr < here /\ here < 2 * Pow27 /\ code \in Addresses(e, mode, addr, here)
  OBVIOUS
<1>2. d.out = out /\ d.addr = s /\ d.near = near /\ d.next = next /\ d.same = same
  BY DEF Reached
<1>3. code \in Seq(Nat) /\ Len(code) \in Nat /\ Len(code) # 0 /\ c = [n |-> Len(code), a |-> addr]
  <2> HIDE DEF d
  <2>1. d.addr = code \o z
    BY <1>2
  <2>3. d.near = near /\ d.same = same /\ here \in Nat
    BY <1>1, <1>2
  <2> HIDE DEF here, d
  <2>5. code \in Addresses(e, mode, addr, here)
    BY <1>0
  <2>2. /\ code \in Seq(Nat) /\ Len(code) \in Nat /\ Len(code) # 0
        /\ AddressIs(d, mode, here, code, addr)
    BY <1>0, <2>1, <2>3, AddressReads
  <2>4. QED
    BY <2>2 DEF AddressIs, c
<1>4. From(s, Len(code)) = z
  BY <1>3, FromConcat
<1>5. CopyBytes(out, addr, n, win) = Copying(o)
  BY CopyReads
<1>6. win.seg = seg /\ win.start = start /\ win.cap = Capacity
  BY DEF WindowOf
<1> HIDE DEF s, win, o, c
<1>7. ExecuteSized(d, inst, r, win) = CopyFrom(d, c, n, win)
  <2>1. Len(win.seg) + Len(d.out) - win.start = here
    BY <1>1, <1>2, <1>6
  <2> HIDE DEF d, here
  <2>2. ExecuteSized(d, inst, r, win) = execute_copy(d, mode, n, win)
    BY DEF ExecuteSized
  <2>3. QED
    BY <2>1, <2>2, Zenon DEF execute_copy, c
<1>8. CopyFrom(d, c, n, win) =
        [d EXCEPT !.err = "OK", !.out = o, !.addr = z, !.near = near2, !.next = next2, !.same = same2]
  <2>1. c.n = Len(code) /\ c.a = addr /\ c.n # 0
    BY <1>3
  <2>2. ~(Len(d.out) + n > win.cap)
    BY <1>1, <1>2, <1>6
  <2> DEFINE q == CopyBytes(d.out, c.a, n, win)
  <2>3. q.err = "OK" /\ q.out = o
    <3>1. q = Copying(o)
      BY <1>2, <1>5, <2>1
    <3> HIDE DEF q
    <3>2. QED
      BY <3>1 DEF Copying
  <2>4. SameSlot(c.a) = addr % (S_SAME * 256)
    BY <2>1 DEF SameSlot
  <2> HIDE DEF d
  <2>5. CopyFrom(d, c, n, win) =
          [d EXCEPT !.err = q.err, !.out = q.out, !.addr = From(@, c.n),
                    !.near = [@ EXCEPT ![d.next] = c.a], !.next = (@ + 1) % S_NEAR,
                    !.same = (SameSlot(c.a) :> c.a) @@ @]
    BY <2>1, <2>2, Zenon DEF CopyFrom
  <2> HIDE DEF q
  <2>6. [d EXCEPT !.err = q.err, !.out = q.out, !.addr = From(@, c.n),
                  !.near = [@ EXCEPT ![d.next] = c.a], !.next = (@ + 1) % S_NEAR,
                  !.same = (SameSlot(c.a) :> c.a) @@ @]
        = [d EXCEPT !.err = q.err, !.out = q.out, !.addr = From(d.addr, c.n),
                    !.near = [d.near EXCEPT ![d.next] = c.a], !.next = (d.next + 1) % S_NEAR,
                    !.same = (SameSlot(c.a) :> c.a) @@ d.same]
    OBVIOUS
  <2>7. From(d.addr, c.n) = z /\ [d.near EXCEPT ![d.next] = c.a] = near2
    BY <1>2, <1>4, <2>1
  <2>8. (d.next + 1) % S_NEAR = next2 /\ (SameSlot(c.a) :> c.a) @@ d.same = same2
    BY <1>2, <2>1, <2>4
  <2> HIDE DEF near2, next2, same2
  <2>9. QED
    BY <2>3, <2>5, <2>6, <2>7, <2>8
<1> HIDE DEF near2, next2, same2
<1>9. d = Reached(out, near, next, same, x, y, s)
  OBVIOUS
<1> HIDE DEF d
<1>10. AfterCopy(d, o, z, near2, next2, same2) = Reached(o, near2, next2, same2, x, y, z)
  BY <1>9, CopyState
<1>11. ExecuteSized(d, inst, r, win) = Reached(o, near2, next2, same2, x, y, z)
  BY <1>7, <1>8, <1>10 DEF AfterCopy
<1>12. QED
  BY <1>3, <1>11 DEF d, o, near2, next2, same2, win, s, CopyExecutes

-----------------------------------------------------------------------------
(* What the encoder writes for the two halves of an opcode.                *)

EncOf(start, seg, near, next, same) ==
  [start |-> start, seg |-> seg, near |-> near, next |-> next, same |-> same]
WinOf(ind, len, pos, size, prog, data, addr) ==
  [ind |-> ind, len |-> len, pos |-> pos, size |-> size, prog |-> prog, data |-> data, addr |-> addr]
DraftOf(e, t, w, sizes) == [e |-> e, text |-> t, w |-> w, sizes |-> sizes]

LEMMA SizedIs ==
  ASSUME NEW e, NEW t, NEW w, NEW s \in Seq(Nat), NEW inst, NEW n
  PROVE  Sized(DraftOf(e, t, w, s), inst, n) = DraftOf(e, t, w, s \o SizeBytes(inst, n))
<1>1. CASE inst.size = 0
  <2> DEFINE b == s \o Vint(n)
  <2>1. Sized(DraftOf(e, t, w, s), inst, n) = [DraftOf(e, t, w, s) EXCEPT !.sizes = b]
    BY <1>1 DEF Sized, DraftOf
  <2> HIDE DEF b
  <2>2. [DraftOf(e, t, w, s) EXCEPT !.sizes = b] = DraftOf(e, t, w, b)
    BY DEF DraftOf
  <2>3. QED
    BY <1>1, <2>1, <2>2 DEF b, SizeBytes
<1>2. CASE inst.size # 0
  <2>1. s \o <<>> = s
    BY ConcatEmptySeq
  <2>2. QED
    BY <1>2, <2>1 DEF Sized, SizeBytes
<1>3. QED
  BY <1>1, <1>2

LEMMA WritingIs ==
  ASSUME NEW e, NEW t, NEW s, NEW ind, NEW len, NEW pos, NEW size, NEW prog, NEW data, NEW addr, NEW bs
  PROVE  Writing(DraftOf(e, t, WinOf(ind, len, pos, size, prog, data, addr), s), bs)
           = DraftOf(e, t \o bs, WinOf(ind, len, pos, size + Len(bs), prog, data, addr), s)
<1> DEFINE w == WinOf(ind, len, pos, size, prog, data, addr)
           q == DraftOf(e, t, w, s)
           u == t \o bs
           k == size + Len(bs)
           w2 == [w EXCEPT !.size = k]
<1>1. q.text = t /\ q.w = w /\ q.w.size = size
  BY DEF DraftOf, WinOf
<1>2. w2 = WinOf(ind, len, pos, k, prog, data, addr)
  <2> HIDE DEF k
  <2>1. QED
    BY DEF WinOf
<1>3. Writing(q, bs) = [[q EXCEPT !.text = u] EXCEPT !.w = w2]
  <2> HIDE DEF w
  <2>1. QED
    BY <1>1 DEF Writing, DraftOf
<1> HIDE DEF u, w2, k
<1>4. [q EXCEPT !.text = u] = DraftOf(e, u, w, s)
  <2> HIDE DEF w
  <2>1. QED
    BY DEF DraftOf
<1> HIDE DEF w
<1>5. [DraftOf(e, u, w, s) EXCEPT !.w = w2] = DraftOf(e, u, w2, s)
  BY DEF DraftOf
<1> HIDE DEF q
<1>6. QED
  BY <1>2, <1>3, <1>4, <1>5 DEF u, w, q, k

LEMMA WinSet ==
  ASSUME NEW e, NEW t, NEW s, NEW ind, NEW len, NEW pos, NEW size, NEW prog, NEW data, NEW addr, NEW v
  PROVE  /\ [DraftOf(e, t, WinOf(ind, len, pos, size, prog, data, addr), s) EXCEPT !.w.data = v]
              = DraftOf(e, t, WinOf(ind, len, pos, size, prog, v, addr), s)
         /\ [DraftOf(e, t, WinOf(ind, len, pos, size, prog, data, addr), s) EXCEPT !.w.addr = v]
              = DraftOf(e, t, WinOf(ind, len, pos, size, prog, data, v), s)
<1> DEFINE w == WinOf(ind, len, pos, size, prog, data, addr)
           q == DraftOf(e, t, w, s)
           w1 == [w EXCEPT !.data = v]
           w2 == [w EXCEPT !.addr = v]
<1>1. w1 = WinOf(ind, len, pos, size, prog, v, addr) /\ w2 = WinOf(ind, len, pos, size, prog, data, v)
  BY DEF WinOf
<1>2. [q EXCEPT !.w.data = v] = [q EXCEPT !.w = w1] /\ [q EXCEPT !.w.addr = v] = [q EXCEPT !.w = w2]
  <2> HIDE DEF w
  <2>1. QED
    BY DEF DraftOf
<1> HIDE DEF w, w1, w2
<1>3. [q EXCEPT !.w = w1] = DraftOf(e, t, w1, s) /\ [q EXCEPT !.w = w2] = DraftOf(e, t, w2, s)
  BY DEF DraftOf
<1> HIDE DEF q
<1>4. QED
  BY <1>1, <1>2, <1>3 DEF q, w

\* What the loop over the opcodes has read when the encoder has written the draft q.
StateOf(q, x, y, z) == Reached(q.text, q.e.near, q.e.next, q.e.same, x, y, z)
RoomOf(q) == WindowOf(q.e.seg, q.e.start, Capacity)

\* A draft the encoder may be in.
Fit(q) ==
  /\ q = DraftOf(EncOf(q.e.start, q.e.seg, q.e.near, q.e.next, q.e.same), q.text,
                 WinOf(q.w.ind, q.w.len, q.w.pos, q.w.size, q.w.prog, q.w.data, q.w.addr), q.sizes)
  /\ q.text \in Seq(Nat) /\ q.sizes \in Seq(Nat) /\ q.w.data \in Seq(Nat) /\ q.w.addr \in Seq(Nat)
  /\ q.e.start \in 0 .. Len(q.text) /\ q.e.seg \in Seq(Nat) /\ Len(q.e.seg) < Pow27
  /\ q.e.near \in Near /\ q.e.next \in 0 .. 3 /\ q.w.size \in Nat

\* The half that writes t, the bytes D, S and A of the sections, and leaves the
\* caches near, next and same.
Written(q, t, D, S, A, near, next, same) ==
  DraftOf(EncOf(q.e.start, q.e.seg, near, next, same), q.text \o t,
          WinOf(q.w.ind, q.w.len, q.w.pos, q.w.size + Len(t), q.w.prog, q.w.data \o D, q.w.addr \o A),
          q.sizes \o S)

\* The decoder reads it from these bytes, whatever follows them.
HalfReads(q, h, inst, D, S, A) ==
  \A x \in Seq(Nat), y \in Seq(Nat), z \in Seq(Nat) :
    Execute(StateOf(q, D \o x, S \o y, A \o z), inst, RoomOf(q)) = StateOf(h, x, y, z)

Bytes4(t, D, S, A) == t \in Seq(Nat) /\ D \in Seq(Nat) /\ S \in Seq(Nat) /\ A \in Seq(Nat)

HalfBy(q, h, inst, t, D, S, A, near, next, same) ==
  /\ Bytes4(t, D, S, A) /\ near \in Near /\ next \in 0 .. 3
  /\ h = Written(q, t, D, S, A, near, next, same)
  /\ Len(h.text) <= Capacity => HalfReads(q, h, inst, D, S, A)

HalfOK(q, h, inst) == \E t, D, S, A, near, next, same : HalfBy(q, h, inst, t, D, S, A, near, next, same)

LEMMA HalvesOf ==
  ASSUME NEW q, NEW inst
  PROVE  /\ inst.type = "NOOP" => Halves(q, inst) = {q}
         /\ inst.type = "ADD" => Halves(q, inst) = AddHalves(q, inst)
         /\ inst.type = "RUN" => Halves(q, inst) = RunHalves(q, inst)
         /\ inst.type = "COPY" => Halves(q, inst) = CopyHalves(q, inst)
BY DEF Halves

\* A draft, and what it is made of.
LEMMA FitParts ==
  ASSUME NEW q, Fit(q)
  PROVE  /\ q = DraftOf(q.e, q.text, WinOf(q.w.ind, q.w.len, q.w.pos, q.w.size, q.w.prog, q.w.data, q.w.addr), q.sizes)
         /\ q.e = EncOf(q.e.start, q.e.seg, q.e.near, q.e.next, q.e.same)
<1> DEFINE e == EncOf(q.e.start, q.e.seg, q.e.near, q.e.next, q.e.same)
           w == WinOf(q.w.ind, q.w.len, q.w.pos, q.w.size, q.w.prog, q.w.data, q.w.addr)
<1>1. q = DraftOf(e, q.text, w, q.sizes)
  BY DEF Fit
<1> HIDE DEF e, w
<1>2. q.e = e
  BY <1>1 DEF DraftOf
<1>3. QED
  BY <1>1, <1>2 DEF e, w

LEMMA DraftParts ==
  ASSUME NEW e, NEW t, NEW w, NEW s
  PROVE  /\ DraftOf(e, t, w, s).e = e /\ DraftOf(e, t, w, s).text = t
         /\ DraftOf(e, t, w, s).w = w /\ DraftOf(e, t, w, s).sizes = s
BY DEF DraftOf

LEMMA EncParts ==
  ASSUME NEW start, NEW seg, NEW near, NEW next, NEW same
  PROVE  /\ EncOf(start, seg, near, next, same).start = start
         /\ EncOf(start, seg, near, next, same).seg = seg
         /\ EncOf(start, seg, near, next, same).near = near
         /\ EncOf(start, seg, near, next, same).next = next
         /\ EncOf(start, seg, near, next, same).same = same
BY DEF EncOf

LEMMA WinParts ==
  ASSUME NEW ind, NEW len, NEW pos, NEW size, NEW prog, NEW data, NEW addr
  PROVE  /\ WinOf(ind, len, pos, size, prog, data, addr).ind = ind
         /\ WinOf(ind, len, pos, size, prog, data, addr).len = len
         /\ WinOf(ind, len, pos, size, prog, data, addr).pos = pos
         /\ WinOf(ind, len, pos, size, prog, data, addr).size = size
         /\ WinOf(ind, len, pos, size, prog, data, addr).prog = prog
         /\ WinOf(ind, len, pos, size, prog, data, addr).data = data
         /\ WinOf(ind, len, pos, size, prog, data, addr).addr = addr
BY DEF WinOf

\* Sized and Writing together.
LEMMA WroteIs ==
  ASSUME NEW q, Fit(q), NEW inst, NEW n, NEW bs
  PROVE  Writing(Sized(q, inst, n), bs)
           = DraftOf(q.e, q.text \o bs, WinOf(q.w.ind, q.w.len, q.w.pos, q.w.size + Len(bs),
                     q.w.prog, q.w.data, q.w.addr), q.sizes \o SizeBytes(inst, n))
<1> DEFINE w == WinOf(q.w.ind, q.w.len, q.w.pos, q.w.size, q.w.prog, q.w.data, q.w.addr)
           s == q.sizes \o SizeBytes(inst, n)
<1>1. q = DraftOf(q.e, q.text, w, q.sizes) /\ q.sizes \in Seq(Nat)
  BY FitParts DEF Fit
<1>2. Sized(DraftOf(q.e, q.text, w, q.sizes), inst, n) = DraftOf(q.e, q.text, w, s)
  <2> HIDE DEF w
  <2>1. QED
    BY <1>1, SizedIs
<1>3. Sized(q, inst, n) = DraftOf(q.e, q.text, w, s)
  <2> HIDE DEF w, s
  <2>1. QED
    BY <1>1, <1>2
<1> HIDE DEF s
<1>4. Writing(DraftOf(q.e, q.text, w, s), bs)
        = DraftOf(q.e, q.text \o bs, WinOf(q.w.ind, q.w.len, q.w.pos, q.w.size + Len(bs),
                  q.w.prog, q.w.data, q.w.addr), s)
  BY WritingIs
<1>5. QED
  BY <1>3, <1>4 DEF s

LEMMA BytesOf ==
  ASSUME NEW n \in Nat, NEW bs \in [1 .. n -> Letters]
  PROVE  bs \in Seq(Nat) /\ Len(bs) = n
<1>1. Letters \subseteq Nat
  BY VcdiffAssumption
<1>2. bs \in [1 .. n -> Nat]
  BY <1>1
<1>3. QED
  BY <1>2

LEMMA SizesOf ==
  ASSUME NEW inst, inst.size \in Nat, NEW n \in SizesFor(inst)
  PROVE  n \in Nat /\ (inst.size # 0 => n = inst.size)
BY VcdiffAssumption DEF SizesFor

LEMMA VintType ==
  ASSUME NEW v \in Nat
  PROVE  Vint(v) \in Seq(Nat)
<1>1. CASE v < 2 * Pow27
  <2>1. /\ Vint(v) \in Seq(Nat) /\ Len(Vint(v)) \in 1 .. 4
        /\ read_varint(Vint(v) \o <<>>) = [n |-> Len(Vint(v)), v |-> v]
    BY <1>1, ReadVint, EmptySeq
  <2>2. QED
    BY <2>1
<1>2. CASE ~(v < 2 * Pow27)
  <2> DEFINE Digit(k) == (v \div k) % 128
             a == 128 + Digit(2097152)
             b == 128 + Digit(16384)
             c == 128 + Digit(128)
             d == Digit(1)
  <2>1. v >= 2097152 /\ v >= 16384 /\ v >= 128
    BY <1>2, SMT DEF Pow27
  <2>2. \A k \in Nat \ {0} : Digit(k) \in Nat
    <3>1. ASSUME NEW k \in Nat \ {0} PROVE Digit(k) \in Nat
      <4> DEFINE w == v \div k
      <4>1. w \in Nat
        BY SMT
      <4> HIDE DEF w
      <4>2. w % 128 \in Nat
        BY <4>1, SMT
      <4>3. QED
        BY <4>2 DEF w
    <3>2. QED
      BY <3>1
  <2>3. 2097152 \in Nat \ {0} /\ 16384 \in Nat \ {0} /\ 128 \in Nat \ {0} /\ 1 \in Nat \ {0}
    BY SMT
  <2> HIDE DEF Digit
  <2>4. a \in Nat /\ b \in Nat /\ c \in Nat /\ d \in Nat
    BY <2>2, <2>3, SMT
  <2>5. Vint(v) = <<a, b, c, d>>
    BY <2>1, SMT DEF Vint, Digit
  <2> HIDE DEF a, b, c, d
  <2>6. QED
    BY <2>4, <2>5
<1>3. QED
  BY <1>1, <1>2

LEMMA SizeBytesType ==
  ASSUME NEW inst, NEW n \in Nat
  PROVE  SizeBytes(inst, n) \in Seq(Nat)
BY VintType, EmptySeq DEF SizeBytes

\* Where Written leaves its draft.
LEMMA WrittenParts ==
  ASSUME NEW q, NEW t, NEW D, NEW S, NEW A, NEW near, NEW next, NEW same
  PROVE  /\ Written(q, t, D, S, A, near, next, same).text = q.text \o t
         /\ Written(q, t, D, S, A, near, next, same).sizes = q.sizes \o S
         /\ Written(q, t, D, S, A, near, next, same).e = EncOf(q.e.start, q.e.seg, near, next, same)
         /\ Written(q, t, D, S, A, near, next, same).w
              = WinOf(q.w.ind, q.w.len, q.w.pos, q.w.size + Len(t), q.w.prog, q.w.data \o D, q.w.addr \o A)
<1> DEFINE e == EncOf(q.e.start, q.e.seg, near, next, same)
           w == WinOf(q.w.ind, q.w.len, q.w.pos, q.w.size + Len(t), q.w.prog, q.w.data \o D, q.w.addr \o A)
           s == q.sizes \o S
           u == q.text \o t
<1>1. Written(q, t, D, S, A, near, next, same) = DraftOf(e, u, w, s)
  BY DEF Written
<1> DEFINE r == Written(q, t, D, S, A, near, next, same)
<1> HIDE DEF e, w, s, u, r
<1>2. r.e = e /\ r.text = u /\ r.w = w /\ r.sizes = s
  BY <1>1, DraftParts DEF r
<1>3. QED
  BY <1>2 DEF e, w, s, u, r

\* An ADD half, a RUN half and a COPY half, in full.
LEMMA AddForm ==
  ASSUME NEW q, Fit(q), NEW inst, inst.size \in Nat, NEW h \in AddHalves(q, inst)
  PROVE  \E bs \in Seq(Nat) :
           /\ inst.size # 0 => Len(bs) = inst.size
           /\ h = Written(q, bs, bs, SizeBytes(inst, Len(bs)), <<>>, q.e.near, q.e.next, q.e.same)
<1>1. PICK bs \in UNION {[1 .. n -> Letters] : n \in SizesFor(inst)} :
             h = AddHalf(q, inst, bs)
  BY DEF AddHalves
<1>2. PICK n \in SizesFor(inst) : bs \in [1 .. n -> Letters]
  OBVIOUS
<1>3. n \in Nat /\ (inst.size # 0 => n = inst.size)
  BY SizesOf
<1>4. bs \in Seq(Nat) /\ Len(bs) = n
  BY <1>2, <1>3, BytesOf
<1> DEFINE s == q.sizes \o SizeBytes(inst, Len(bs))
           k == q.w.size + Len(bs)
           w == WinOf(q.w.ind, q.w.len, q.w.pos, k, q.w.prog, q.w.data, q.w.addr)
           t == q.text \o bs
           D == q.w.data \o bs
           d == DraftOf(q.e, t, w, s)
<1>5. Writing(Sized(q, inst, Len(bs)), bs) = d
  BY WroteIs
<1>6. d.w.data = q.w.data
  BY DraftParts, WinParts
<1>7. h = [d EXCEPT !.w.data = D]
  <2> HIDE DEF d
  <2>1. [d EXCEPT !.w.data = @ \o bs] = [d EXCEPT !.w.data = d.w.data \o bs]
    OBVIOUS
  <2>2. QED
    BY <1>1, <1>5, <1>6, <2>1 DEF AddHalf
<1> HIDE DEF s, t, D, k
<1>8. [d EXCEPT !.w.data = D]
        = DraftOf(q.e, t, WinOf(q.w.ind, q.w.len, q.w.pos, k, q.w.prog, D, q.w.addr), s)
  BY WinSet
<1> HIDE DEF d
<1>9. q.w.addr \o <<>> = q.w.addr /\ q.e = EncOf(q.e.start, q.e.seg, q.e.near, q.e.next, q.e.same)
  BY ConcatEmptySeq, FitParts DEF Fit
<1>10. h = Written(q, bs, bs, SizeBytes(inst, Len(bs)), <<>>, q.e.near, q.e.next, q.e.same)
  BY <1>7, <1>8, <1>9, Zenon DEF Written, s, t, D, k
<1>11. QED
  BY <1>3, <1>4, <1>10

RunOf(n, b) == [i \in 1 .. n |-> b]

LEMMA RunForm ==
  ASSUME NEW q, Fit(q), NEW inst, inst.size \in Nat, NEW h \in RunHalves(q, inst)
  PROVE  \E n \in Nat, b \in Nat :
           /\ inst.size # 0 => n = inst.size
           /\ h = Written(q, RunOf(n, b), <<b>>, SizeBytes(inst, n), <<>>, q.e.near, q.e.next, q.e.same)
<1>1. PICK n \in SizesFor(inst), b \in Letters :
             h = RunHalf(q, inst, n, b)
  BY DEF RunHalves
<1>2. n \in Nat /\ (inst.size # 0 => n = inst.size)
  BY SizesOf
<1>3. b \in Nat
  BY VcdiffAssumption
<1> DEFINE bs == RunOf(n, b)
           s == q.sizes \o SizeBytes(inst, n)
           k == q.w.size + Len(bs)
           w == WinOf(q.w.ind, q.w.len, q.w.pos, k, q.w.prog, q.w.data, q.w.addr)
           t == q.text \o bs
           D == q.w.data \o <<b>>
           d == DraftOf(q.e, t, w, s)
<1>5. Writing(Sized(q, inst, n), bs) = d
  <2> HIDE DEF bs
  <2>1. QED
    BY WroteIs
<1>6. d.w.data = q.w.data
  BY DraftParts, WinParts
<1>7. h = [d EXCEPT !.w.data = D]
  <2>0. h = [Writing(Sized(q, inst, n), bs) EXCEPT !.w.data = Append(@, b)]
    BY <1>1 DEF RunHalf, RunOf
  <2> HIDE DEF d, bs
  <2>1. [d EXCEPT !.w.data = Append(@, b)] = [d EXCEPT !.w.data = Append(d.w.data, b)]
    OBVIOUS
  <2>2. Append(q.w.data, b) = D
    <3>1. q.w.data \in Seq(Nat)
      BY DEF Fit
    <3>2. QED
      BY <1>3, <3>1, AppendIsConcat
  <2>3. QED
    BY <2>0, <1>5, <1>6, <2>1, <2>2
<1> HIDE DEF s, t, D, k, bs
<1>8. [d EXCEPT !.w.data = D]
        = DraftOf(q.e, t, WinOf(q.w.ind, q.w.len, q.w.pos, k, q.w.prog, D, q.w.addr), s)
  BY WinSet
<1> HIDE DEF d
<1>9. q.w.addr \o <<>> = q.w.addr /\ q.e = EncOf(q.e.start, q.e.seg, q.e.near, q.e.next, q.e.same)
  BY ConcatEmptySeq, FitParts DEF Fit
<1>10. h = Written(q, RunOf(n, b), <<b>>, SizeBytes(inst, n), <<>>, q.e.near, q.e.next, q.e.same)
  BY <1>7, <1>8, <1>9, Zenon DEF Written, s, t, D, k, bs
<1>11. QED
  BY <1>2, <1>3, <1>10

SlotOf(addr) == addr % (S_SAME * 256)

LEMMA CachesAre ==
  ASSUME NEW start, NEW seg, NEW near, NEW next, NEW same, NEW addr
  PROVE  UpdatedCaches(EncOf(start, seg, near, next, same), addr)
           = EncOf(start, seg, [near EXCEPT ![next] = addr], (next + 1) % S_NEAR,
                   (SlotOf(addr) :> addr) @@ same)
<1> DEFINE e  == EncOf(start, seg, near, next, same)
           n  == [near EXCEPT ![next] = addr]
           m  == (next + 1) % S_NEAR
           p  == (SlotOf(addr) :> addr) @@ same
           e1 == [e EXCEPT !.near = n]
           e2 == [e1 EXCEPT !.next = m]
           e3 == [e2 EXCEPT !.same = p]
<1>1. e.near = near /\ e.next = next /\ e.same = same
  BY EncParts
<1>2. UpdatedCaches(e, addr) = [e EXCEPT !.near = n, !.next = m, !.same = p]
  <2> HIDE DEF e
  <2>1. UpdatedCaches(e, addr)
          = [e EXCEPT !.near = [e.near EXCEPT ![e.next] = addr], !.next = (e.next + 1) % S_NEAR,
                      !.same = (addr % (S_SAME * 256) :> addr) @@ e.same]
    BY DEF UpdatedCaches
  <2>2. /\ [e.near EXCEPT ![e.next] = addr] = n /\ (e.next + 1) % S_NEAR = m
        /\ (addr % (S_SAME * 256) :> addr) @@ e.same = p
    BY <1>1 DEF SlotOf
  <2> HIDE DEF n, m, p
  <2>3. QED
    BY <2>1, <2>2
<1> HIDE DEF n, m, p
<1>3. [e EXCEPT !.near = n, !.next = m, !.same = p] = e3
  <2> HIDE DEF e
  <2>1. QED
    OBVIOUS
<1>4. e1 = EncOf(start, seg, n, next, same)
  BY DEF EncOf
<1> HIDE DEF e1
<1>5. e2 = EncOf(start, seg, n, m, same)
  BY <1>4 DEF EncOf
<1> HIDE DEF e2
<1>6. e3 = EncOf(start, seg, n, m, p)
  BY <1>5 DEF EncOf
<1> HIDE DEF e, e3
<1>7. QED
  BY <1>2, <1>3, <1>6 DEF e, n, m, p

\* What a COPY of q writes.
CopiedBy(q, addr, n) == Copied(q.e.seg, From(q.text, q.e.start), addr, n)
HereOf(q) == Len(q.e.seg) + (Len(q.text) - q.e.start)

LEMMA HereIs ==
  ASSUME NEW q, Fit(q)
  PROVE  /\ Len(q.e.seg) + Len(From(q.text, q.e.start)) = HereOf(q) /\ HereOf(q) \in Nat
         /\ From(q.text, q.e.start) \in Seq(Nat)
<1>1. /\ q.text \in Seq(Nat) /\ q.e.start \in 0 .. Len(q.text) /\ q.e.seg \in Seq(Nat)
  BY DEF Fit
<1>2. /\ From(q.text, q.e.start) \in Seq(Nat)
      /\ Len(From(q.text, q.e.start)) = Len(q.text) - q.e.start
  BY <1>1, FromType
<1>3. Len(q.e.seg) \in Nat /\ Len(q.text) \in Nat
  BY <1>1
<1>4. QED
  BY <1>1, <1>2, <1>3 DEF HereOf

AddrSet(e, t, s, ind, len, pos, size, prog, data, addr, v) ==
  [DraftOf(e, t, WinOf(ind, len, pos, size, prog, data, addr), s) EXCEPT !.w.addr = v]
    = DraftOf(e, t, WinOf(ind, len, pos, size, prog, data, v), s)

LEMMA WinAddrSet ==
  ASSUME NEW e, NEW t, NEW s, NEW ind, NEW len, NEW pos, NEW size, NEW prog, NEW data, NEW addr, NEW v
  PROVE  AddrSet(e, t, s, ind, len, pos, size, prog, data, addr, v)
<1> DEFINE w == WinOf(ind, len, pos, size, prog, data, addr)
           q == DraftOf(e, t, w, s)
           w2 == [w EXCEPT !.addr = v]
<1>1. w2 = WinOf(ind, len, pos, size, prog, data, v)
  BY DEF WinOf
<1>2. [q EXCEPT !.w.addr = v] = [q EXCEPT !.w = w2]
  <2> HIDE DEF w
  <2>1. QED
    BY DEF DraftOf
<1> HIDE DEF w, w2
<1>3. [q EXCEPT !.w = w2] = DraftOf(e, t, w2, s)
  BY DEF DraftOf
<1> HIDE DEF q
<1>4. [q EXCEPT !.w.addr = v] = DraftOf(e, t, WinOf(ind, len, pos, size, prog, data, v), s)
  BY <1>1, <1>2, <1>3
<1>5. QED
  BY <1>4, Zenon DEF AddrSet, q, w

LEMMA CopyForm ==
  ASSUME NEW q, Fit(q), NEW inst, inst.size \in Nat, NEW h \in CopyHalves(q, inst)
  PROVE  \E n \in Nat, addr \in Nat :
           /\ inst.size # 0 => n = inst.size
           /\ addr < HereOf(q)
           /\ \E code \in Addresses(q.e, inst.mode, addr, HereOf(q)) :
                h = Written(q, CopiedBy(q, addr, n), <<>>, SizeBytes(inst, n), code,
                            [q.e.near EXCEPT ![q.e.next] = addr], (q.e.next + 1) % S_NEAR,
                            (SlotOf(addr) :> addr) @@ q.e.same)
<1> DEFINE here == HereOf(q)
<1>1. Len(q.e.seg) + Len(From(q.text, q.e.start)) = here /\ here \in Nat
  BY HereIs
<1> HIDE DEF here
<1>2. PICK n \in SizesFor(inst), addr \in 0 .. here - 1 : h \in CopiesOf(q, inst, n, addr)
  <2>1. \E n \in SizesFor(inst), addr \in 0 .. Here(q) - 1 : h \in CopiesOf(q, inst, n, addr)
    BY DEF CopyHalves
  <2>2. QED
    BY <1>1, <2>1 DEF Here
<1>3. PICK code \in Addresses(q.e, inst.mode, addr, here) : h = CopyHalf(q, inst, n, addr, code)
  BY <1>1, <1>2 DEF CopiesOf, Here
<1>4. n \in Nat /\ (inst.size # 0 => n = inst.size)
  BY SizesOf
<1>5. addr \in Nat /\ addr < here
  BY <1>1
<1> DEFINE bs == CopiedBy(q, addr, n)
           s == q.sizes \o SizeBytes(inst, n)
           k == q.w.size + Len(bs)
           w == WinOf(q.w.ind, q.w.len, q.w.pos, k, q.w.prog, q.w.data, q.w.addr)
           t == q.text \o bs
           A == q.w.addr \o code
           d == DraftOf(q.e, t, w, s)
           w2 == WinOf(q.w.ind, q.w.len, q.w.pos, k, q.w.prog, q.w.data, A)
           e2 == UpdatedCaches(q.e, addr)
<1>6. Writing(Sized(q, inst, n), bs) = d
  <2> HIDE DEF bs
  <2>1. QED
    BY WroteIs
<1>7. d.w.addr = q.w.addr /\ d.e = q.e
  BY DraftParts, WinParts
<1>8. h = [[d EXCEPT !.w.addr = A] EXCEPT !.e = e2]
  <2>1. h = [Writing(Sized(q, inst, n), bs) EXCEPT !.w.addr = @ \o code, !.e = UpdatedCaches(@, addr)]
    BY <1>3 DEF CopyHalf, CopiedBy
  <2> HIDE DEF d, bs
  <2>2. [d EXCEPT !.w.addr = @ \o code, !.e = UpdatedCaches(@, addr)]
          = [[d EXCEPT !.w.addr = d.w.addr \o code] EXCEPT !.e = UpdatedCaches(d.e, addr)]
    OBVIOUS
  <2>3. QED
    BY <2>1, <1>6, <1>7, <2>2
<1> HIDE DEF s, t, A, k, bs, e2
<1>9. [d EXCEPT !.w.addr = A] = DraftOf(q.e, t, w2, s)
  <2>1. AddrSet(q.e, t, s, q.w.ind, q.w.len, q.w.pos, k, q.w.prog, q.w.data, q.w.addr, A)
    BY WinAddrSet
  <2>2. QED
    BY <2>1, Zenon DEF AddrSet
<1> HIDE DEF d, w2
<1>10. [DraftOf(q.e, t, w2, s) EXCEPT !.e = e2] = DraftOf(e2, t, w2, s)
  BY DEF DraftOf
<1>11. q.w.data \o <<>> = q.w.data /\ q.e = EncOf(q.e.start, q.e.seg, q.e.near, q.e.next, q.e.same)
  BY ConcatEmptySeq, FitParts DEF Fit
<1>12. e2 = EncOf(q.e.start, q.e.seg, [q.e.near EXCEPT ![q.e.next] = addr], (q.e.next + 1) % S_NEAR,
                  (SlotOf(addr) :> addr) @@ q.e.same)
  BY <1>11, CachesAre DEF e2
<1>13. h = Written(q, CopiedBy(q, addr, n), <<>>, SizeBytes(inst, n), code,
                   [q.e.near EXCEPT ![q.e.next] = addr], (q.e.next + 1) % S_NEAR,
                   (SlotOf(addr) :> addr) @@ q.e.same)
  BY <1>8, <1>9, <1>10, <1>11, <1>12, Zenon DEF Written, s, t, A, k, bs, w2
<1>14. QED
  BY <1>4, <1>5, <1>13 DEF here

InstOK(inst) == inst.type \in {"NOOP", "ADD", "RUN", "COPY"} /\ inst.size \in Nat /\ inst.mode \in 0 .. 8

LEMMA EmptyBefore ==
  ASSUME NEW z \in Seq(Nat)
  PROVE  <<>> \o z = z
BY ConcatEmptySeq

LEMMA StateOfWritten ==
  ASSUME NEW q, NEW t, NEW D, NEW S, NEW A, NEW near, NEW next, NEW same, NEW x, NEW y, NEW z
  PROVE  StateOf(Written(q, t, D, S, A, near, next, same), x, y, z)
           = Reached(q.text \o t, near, next, same, x, y, z)
<1> DEFINE r == Written(q, t, D, S, A, near, next, same)
           u == q.text \o t
<1>1. r.text = u /\ r.e = EncOf(q.e.start, q.e.seg, near, next, same)
  BY WrittenParts
<1> HIDE DEF r, u
<1>2. r.e.near = near /\ r.e.next = next /\ r.e.same = same
  BY <1>1, EncParts
<1>3. StateOf(r, x, y, z) = Reached(u, near, next, same, x, y, z)
  BY <1>1, <1>2 DEF StateOf
<1>4. QED
  BY <1>3 DEF r, u

LEMMA RoomParts ==
  ASSUME NEW q, Fit(q)
  PROVE  /\ RoomOf(q).cap = Capacity /\ Capacity \in Nat /\ Capacity < Pow27
         /\ Len(q.text) \in Nat /\ q.text \in Seq(Nat)
<1>1. RoomOf(q).cap = Capacity
  BY DEF RoomOf, WindowOf
<1>2. Capacity \in Nat /\ Len(Source) \in Nat /\ Len(Source) + Capacity < Pow27
  BY VcdiffAssumption
<1>3. q.text \in Seq(Nat)
  BY DEF Fit
<1>4. Capacity < Pow27
  BY <1>2 DEF Pow27
<1>5. QED
  BY <1>1, <1>2, <1>3, <1>4

LEMMA AddHalfReads ==
  ASSUME NEW q, Fit(q), NEW inst, inst.type = "ADD", inst.size \in Nat, NEW bs \in Seq(Nat),
         inst.size # 0 => Len(bs) = inst.size, Len(q.text) + Len(bs) <= Capacity
  PROVE  HalfReads(q, Written(q, bs, bs, SizeBytes(inst, Len(bs)), <<>>, q.e.near, q.e.next, q.e.same),
                   inst, bs, SizeBytes(inst, Len(bs)), <<>>)
<1> DEFINE n == Len(bs)
           S == SizeBytes(inst, n)
           h == Written(q, bs, bs, S, <<>>, q.e.near, q.e.next, q.e.same)
           win == RoomOf(q)
<1>1. /\ win.cap = Capacity /\ Capacity \in Nat /\ Capacity < Pow27
      /\ Len(q.text) \in Nat /\ q.text \in Seq(Nat)
  BY RoomParts
<1> HIDE DEF win
<1>2. n \in Nat /\ n < 2 * Pow27 /\ Len(q.text) + Len(bs) <= win.cap /\ win.cap \in Nat
  BY <1>1 DEF Pow27
<1> SUFFICES ASSUME NEW x \in Seq(Nat), NEW y \in Seq(Nat), NEW z \in Seq(Nat)
             PROVE  Execute(StateOf(q, bs \o x, S \o y, <<>> \o z), inst, win) = StateOf(h, x, y, z)
  BY DEF HalfReads, win
<1> DEFINE X == bs \o x
           near == q.e.near
           next == q.e.next
           same == q.e.same
           out == q.text
<1>3. <<>> \o z = z
  BY EmptyBefore
<1>4. StateOf(q, X, S \o y, <<>> \o z) = Reached(out, near, next, same, X, SizeBytes(inst, n) \o y, z)
  BY <1>3 DEF StateOf
<1>6. StateOf(h, x, y, z) = Reached(out \o bs, near, next, same, x, y, z)
  BY StateOfWritten
<1> HIDE DEF n, near, next, same, out, h, X, S
<1>5. PICK r : /\ r.v = n
               /\ Execute(Reached(out, near, next, same, X, SizeBytes(inst, n) \o y, z), inst, win)
                    = ExecuteSized(Reached(out, near, next, same, X, y, z), inst, r, win)
  <2>1. inst.type # "NOOP" /\ (inst.size # 0 => n = inst.size)
    BY DEF n
  <2>2. WithSize(out, near, next, same, X, y, z, inst, n, win)
    BY <1>2, <2>1, SizeReads
  <2>3. QED
    BY <2>2 DEF WithSize
<1>7. ExecuteSized(Reached(out, near, next, same, bs \o x, y, z), inst, r, win)
        = Reached(out \o bs, near, next, same, x, y, z)
  <2>1. r.v = Len(bs) /\ Len(out) + Len(bs) <= win.cap /\ win.cap \in Nat /\ Len(out) \in Nat
    BY <1>1, <1>2, <1>5 DEF n, out
  <2>2. QED
    BY <2>1, AddReads
<1>8. QED
  BY <1>4, <1>5, <1>6, <1>7 DEF X

LEMMA RunHalfReads ==
  ASSUME NEW q, Fit(q), NEW inst, inst.type = "RUN", inst.size \in Nat, NEW n \in Nat, NEW b \in Nat,
         inst.size # 0 => n = inst.size, Len(q.text) + n <= Capacity
  PROVE  HalfReads(q, Written(q, RunOf(n, b), <<b>>, SizeBytes(inst, n), <<>>, q.e.near, q.e.next, q.e.same),
                   inst, <<b>>, SizeBytes(inst, n), <<>>)
<1> DEFINE S == SizeBytes(inst, n)
           h == Written(q, RunOf(n, b), <<b>>, S, <<>>, q.e.near, q.e.next, q.e.same)
           win == RoomOf(q)
<1>1. /\ win.cap = Capacity /\ Capacity \in Nat /\ Capacity < Pow27
      /\ Len(q.text) \in Nat /\ q.text \in Seq(Nat)
  BY RoomParts
<1> HIDE DEF win
<1>2. n < 2 * Pow27 /\ Len(q.text) + n <= win.cap /\ win.cap \in Nat
  BY <1>1 DEF Pow27
<1> SUFFICES ASSUME NEW x \in Seq(Nat), NEW y \in Seq(Nat), NEW z \in Seq(Nat)
             PROVE  Execute(StateOf(q, <<b>> \o x, S \o y, <<>> \o z), inst, win) = StateOf(h, x, y, z)
  BY DEF HalfReads, win
<1> DEFINE X == <<b>> \o x
           near == q.e.near
           next == q.e.next
           same == q.e.same
           out == q.text
<1>3. <<>> \o z = z
  BY EmptyBefore
<1>4. StateOf(q, X, S \o y, <<>> \o z) = Reached(out, near, next, same, X, SizeBytes(inst, n) \o y, z)
  BY <1>3 DEF StateOf
<1>6. StateOf(h, x, y, z) = Reached(out \o RunOf(n, b), near, next, same, x, y, z)
  BY StateOfWritten
<1> HIDE DEF near, next, same, out, h, X, S
<1>5. PICK r : /\ r.v = n
               /\ Execute(Reached(out, near, next, same, X, SizeBytes(inst, n) \o y, z), inst, win)
                    = ExecuteSized(Reached(out, near, next, same, X, y, z), inst, r, win)
  <2>1. inst.type # "NOOP"
    OBVIOUS
  <2>2. WithSize(out, near, next, same, X, y, z, inst, n, win)
    BY <1>2, <2>1, SizeReads
  <2>3. QED
    BY <2>2 DEF WithSize
<1>7. ExecuteSized(Reached(out, near, next, same, <<b>> \o x, y, z), inst, r, win)
        = Reached(out \o [i \in 1 .. n |-> b], near, next, same, x, y, z)
  <2>1. r.v = n /\ Len(out) + n <= win.cap /\ win.cap \in Nat /\ Len(out) \in Nat
    BY <1>1, <1>2, <1>5 DEF out
  <2>2. QED
    BY <2>1, RunReads
<1>8. QED
  BY <1>4, <1>5, <1>6, <1>7 DEF X, RunOf

LEMMA CopyDraftReads ==
  ASSUME NEW q, Fit(q), NEW inst, inst.type = "COPY", inst.size \in Nat, inst.mode \in 0 .. 8,
         NEW n \in Nat, inst.size # 0 => n = inst.size, NEW addr \in Nat, addr < HereOf(q),
         NEW code \in Addresses(q.e, inst.mode, addr, HereOf(q)), Len(q.text) <= Capacity
  PROVE  /\ code \in Seq(Nat)
         /\ Len(q.text) + n <= Capacity => HalfReads(q, Written(q, CopiedBy(q, addr, n), <<>>, SizeBytes(inst, n), code,
                                 [q.e.near EXCEPT ![q.e.next] = addr], (q.e.next + 1) % S_NEAR,
                                 (SlotOf(addr) :> addr) @@ q.e.same),
                      inst, <<>>, SizeBytes(inst, n), code)
<1> DEFINE S == SizeBytes(inst, n)
           bs == CopiedBy(q, addr, n)
           near == q.e.near
           next == q.e.next
           same == q.e.same
           out == q.text
           seg == q.e.seg
           start == q.e.start
           near2 == [near EXCEPT ![next] = addr]
           next2 == (next + 1) % S_NEAR
           same2 == (SlotOf(addr) :> addr) @@ same
           h == Written(q, bs, <<>>, S, code, near2, next2, same2)
           win == RoomOf(q)
           mode == inst.mode
<1>1. /\ Capacity \in Nat /\ Capacity < Pow27 /\ Len(out) \in Nat /\ out \in Seq(Nat)
  BY RoomParts
<1>2. /\ start \in 0 .. Len(out) /\ seg \in Seq(Nat) /\ Len(seg) < Pow27 /\ near \in Near
      /\ next \in 0 .. 3
  BY DEF Fit
<1>4. Len(seg) + (Len(out) - start) < 2 * Pow27
  BY <1>1, <1>2 DEF Pow27
<1>5. /\ addr < Len(seg) + (Len(out) - start)
      /\ code \in Addresses(q.e, mode, addr, Len(seg) + (Len(out) - start))
  BY DEF HereOf
<1>7. code \in Seq(Nat)
  <2>1. HereOf(q) \in Nat /\ HereOf(q) < 2 * Pow27 /\ q.e.near \in Near
    BY <1>2, <1>4, HereIs DEF HereOf
  <2>2. QED
    BY <2>1, AddressType
<1>6. ASSUME Len(out) + n <= Capacity, NEW x \in Seq(Nat), NEW y \in Seq(Nat), NEW z \in Seq(Nat)
      PROVE  Execute(StateOf(q, <<>> \o x, S \o y, code \o z), inst, win) = StateOf(h, x, y, z)
  <2>10. n < 2 * Pow27 /\ Len(out) + n <= Capacity
    BY <1>1, <1>6 DEF Pow27
  <2> DEFINE Z == code \o z
  <2>1. <<>> \o x = x
    BY EmptyBefore
  <2>2. StateOf(q, <<>> \o x, S \o y, Z) = Reached(out, near, next, same, x, SizeBytes(inst, n) \o y, Z)
    BY <2>1 DEF StateOf
  <2>3. StateOf(h, x, y, z) = Reached(out \o bs, near2, next2, same2, x, y, z)
    <3>0. h = Written(q, bs, <<>>, S, code, near2, next2, same2) /\ out = q.text
      OBVIOUS
    <3> HIDE DEF near2, next2, same2, bs, S, h, out, near, next, same, seg, start, win, mode, Z
    <3>1. StateOf(h, x, y, z) = Reached(q.text \o bs, near2, next2, same2, x, y, z)
      BY <3>0, StateOfWritten
    <3>2. QED
      BY <3>0, <3>1
  <2>4. bs = Copied(seg, From(out, start), addr, n)
    BY DEF CopiedBy
  <2>0. q.e.near = near /\ q.e.same = same /\ inst.mode = mode
    OBVIOUS
  <2>9. win = WindowOf(seg, start, Capacity) /\ mode \in 0 .. 8
    BY DEF RoomOf
  <2> HIDE DEF near, next, same, out, h, S, bs, win, seg, start, Z, mode
  <2>5. PICK r : /\ r.v = n
                 /\ Execute(Reached(out, near, next, same, x, SizeBytes(inst, n) \o y, Z), inst, win)
                      = ExecuteSized(Reached(out, near, next, same, x, y, Z), inst, r, win)
    <3>1. inst.type # "NOOP"
      OBVIOUS
    <3>2. WithSize(out, near, next, same, x, y, Z, inst, n, win)
      BY <2>10, <3>1, SizeReads
    <3>3. QED
      BY <3>2 DEF WithSize
  <2>6. ExecuteSized(Reached(out, near, next, same, x, y, code \o z), inst, r, WindowOf(seg, start, Capacity))
          = Reached(out \o Copied(seg, From(out, start), addr, n), [near EXCEPT ![next] = addr],
                    (next + 1) % S_NEAR, (addr % (S_SAME * 256) :> addr) @@ same, x, y, z)
    <3>1. r.v = n
      BY <2>5
    <3>2. CopyExecutes(out, start, seg, near, next, same, addr, code, n, inst, r, x, y, z)
      BY <1>1, <1>2, <2>10, <1>4, <1>5, <2>0, <3>1, <2>9, CopyHalfReads
    <3>3. QED
      BY <3>2, Zenon DEF CopyExecutes
  <2>7. ExecuteSized(Reached(out, near, next, same, x, y, Z), inst, r, win)
          = Reached(out \o bs, near2, next2, same2, x, y, z)
    BY <2>4, <2>6, <2>9, Zenon DEF Z, SlotOf
  <2>8. QED
    BY <2>2, <2>3, <2>5, <2>6, <2>7 DEF Z
<1> HIDE DEF h, win, S
<1>8. Len(out) + n <= Capacity => HalfReads(q, h, inst, <<>>, S, code)
  BY <1>6 DEF HalfReads, win
<1>9. QED
  BY <1>7, <1>8 DEF h, S, bs, near2, next2, same2, near, next, same

LEMMA RunOfType ==
  ASSUME NEW n \in Nat, NEW b \in Nat
  PROVE  RunOf(n, b) \in Seq(Nat) /\ Len(RunOf(n, b)) = n
BY DEF RunOf

LEMMA CopiedByType ==
  ASSUME NEW q, Fit(q), NEW n \in Nat, NEW addr \in Nat, addr < HereOf(q)
  PROVE  CopiedBy(q, addr, n) \in Seq(Nat) /\ Len(CopiedBy(q, addr, n)) = n
<1> DEFINE w == From(q.text, q.e.start)
           seg == q.e.seg
<1>1. Len(seg) + Len(w) = HereOf(q) /\ w \in Seq(Nat)
  BY HereIs
<1>2. seg \in Seq(Nat) /\ addr < Len(seg) + Len(w)
  BY <1>1 DEF Fit
<1>3. CopiedBy(q, addr, n) = Copied(seg, w, addr, n)
  BY DEF CopiedBy
<1> HIDE DEF seg, w
<1>4. Copied(seg, w, addr, n) \in Seq(Nat) /\ Len(Copied(seg, w, addr, n)) = n
  BY <1>1, <1>2, CopiedType
<1>5. QED
  BY <1>3, <1>4

LEMMA NoHalf ==
  ASSUME NEW q, Fit(q)
  PROVE  q = Written(q, <<>>, <<>>, <<>>, <<>>, q.e.near, q.e.next, q.e.same)
<1>1. /\ q.text \in Seq(Nat) /\ q.w.data \in Seq(Nat) /\ q.w.addr \in Seq(Nat) /\ q.sizes \in Seq(Nat)
      /\ q.w.size \in Nat
  BY DEF Fit
<1>2. /\ q.text \o <<>> = q.text /\ q.w.data \o <<>> = q.w.data
      /\ q.w.addr \o <<>> = q.w.addr /\ q.sizes \o <<>> = q.sizes
  BY <1>1, ConcatEmptySeq
<1>3. q.w.size + Len(<<>>) = q.w.size
  BY <1>1, EmptySeq
<1>4. q = DraftOf(EncOf(q.e.start, q.e.seg, q.e.near, q.e.next, q.e.same), q.text,
                 WinOf(q.w.ind, q.w.len, q.w.pos, q.w.size, q.w.prog, q.w.data, q.w.addr), q.sizes)
  BY Zenon DEF Fit
<1>5. QED
  BY <1>2, <1>3, <1>4, Zenon DEF Written

LEMMA HalfGrows ==
  ASSUME NEW q, Fit(q), NEW inst, InstOK(inst), NEW h \in Halves(q, inst)
  PROVE  Len(h.text) \in Nat /\ Len(q.text) <= Len(h.text)
<1>1. inst.size \in Nat /\ q.text \in Seq(Nat) /\ Len(q.text) \in Nat
  BY DEF Fit, InstOK
<1>2. ASSUME NEW t \in Seq(Nat), h.text = q.text \o t
      PROVE  Len(h.text) \in Nat /\ Len(q.text) <= Len(h.text)
  <2>1. Len(q.text \o t) = Len(q.text) + Len(t) /\ Len(t) \in Nat
    BY <1>1, ConcatProperties
  <2>2. QED
    BY <1>1, <1>2, <2>1
<1>3. CASE inst.type = "NOOP"
  BY <1>1, <1>3, HalvesOf
<1>4. CASE inst.type = "ADD"
  <2>1. h \in AddHalves(q, inst)
    BY <1>4, HalvesOf
  <2>2. PICK bs \in Seq(Nat) :
             h = Written(q, bs, bs, SizeBytes(inst, Len(bs)), <<>>, q.e.near, q.e.next, q.e.same)
    BY <1>1, <2>1, AddForm
  <2>3. QED
    BY <1>2, <2>2, WrittenParts
<1>5. CASE inst.type = "RUN"
  <2>1. h \in RunHalves(q, inst)
    BY <1>5, HalvesOf
  <2>2. PICK n \in Nat, b \in Nat :
             h = Written(q, RunOf(n, b), <<b>>, SizeBytes(inst, n), <<>>, q.e.near, q.e.next, q.e.same)
    BY <1>1, <2>1, RunForm
  <2>3. RunOf(n, b) \in Seq(Nat)
    BY RunOfType
  <2>4. QED
    BY <1>2, <2>2, <2>3, WrittenParts
<1>6. CASE inst.type = "COPY"
  <2>1. h \in CopyHalves(q, inst)
    BY <1>6, HalvesOf
  <2>2. PICK n \in Nat, addr \in Nat :
           /\ inst.size # 0 => n = inst.size
           /\ addr < HereOf(q)
           /\ \E code \in Addresses(q.e, inst.mode, addr, HereOf(q)) :
                h = Written(q, CopiedBy(q, addr, n), <<>>, SizeBytes(inst, n), code,
                            [q.e.near EXCEPT ![q.e.next] = addr], (q.e.next + 1) % S_NEAR,
                            (SlotOf(addr) :> addr) @@ q.e.same)
    BY <1>1, <2>1, CopyForm
  <2>3. CopiedBy(q, addr, n) \in Seq(Nat)
    BY <2>2, CopiedByType
  <2>4. h.text = q.text \o CopiedBy(q, addr, n)
    BY <2>2, WrittenParts
  <2>5. QED
    BY <1>2, <2>3, <2>4
<1>7. QED
  BY <1>3, <1>4, <1>5, <1>6 DEF InstOK

LEMMA HalfIsRead ==
  ASSUME NEW q, Fit(q), NEW inst, InstOK(inst), NEW h \in Halves(q, inst), Len(q.text) <= Capacity
  PROVE  HalfOK(q, h, inst)
<1>1. /\ inst.size \in Nat /\ inst.mode \in 0 .. 8 /\ q.text \in Seq(Nat) /\ Len(q.text) \in Nat
      /\ q.e.near \in Near /\ q.e.next \in 0 .. 3 /\ <<>> \in Seq(Nat)
  BY DEF Fit, InstOK
<1>2. Capacity \in Nat /\ Capacity < Pow27
  BY RoomParts
<1>3. ASSUME NEW t \in Seq(Nat), NEW D \in Seq(Nat), NEW S \in Seq(Nat), NEW A \in Seq(Nat),
             NEW near \in Near, NEW next \in 0 .. 3, NEW same,
             h = Written(q, t, D, S, A, near, next, same),
             Len(h.text) <= Capacity => HalfReads(q, h, inst, D, S, A)
      PROVE  HalfOK(q, h, inst)
  <2>1. HalfBy(q, h, inst, t, D, S, A, near, next, same)
    BY <1>3 DEF HalfBy, Bytes4
  <2>2. QED
    BY <2>1 DEF HalfOK
<1>4. CASE inst.type = "NOOP"
  <2>1. h = q
    BY <1>4, HalvesOf
  <2>2. HalfReads(q, q, inst, <<>>, <<>>, <<>>)
    <3>1. ASSUME NEW x \in Seq(Nat), NEW y \in Seq(Nat), NEW z \in Seq(Nat)
          PROVE  Execute(StateOf(q, <<>> \o x, <<>> \o y, <<>> \o z), inst, RoomOf(q)) = StateOf(q, x, y, z)
      <4>1. <<>> \o x = x /\ <<>> \o y = y /\ <<>> \o z = z
        BY EmptyBefore
      <4> DEFINE d == StateOf(q, x, y, z)
      <4>2. Execute(d, inst, RoomOf(q)) = d
        <5> HIDE DEF d
        <5>1. QED
          BY <1>4, Zenon DEF Execute
      <4>3. QED
        BY <4>1, <4>2
    <3>2. QED
      BY <3>1 DEF HalfReads
  <2>3. QED
    <3>1. h = Written(q, <<>>, <<>>, <<>>, <<>>, q.e.near, q.e.next, q.e.same)
      BY <2>1, NoHalf
    <3>2. Len(h.text) <= Capacity => HalfReads(q, h, inst, <<>>, <<>>, <<>>)
      BY <2>1, <2>2
    <3>3. QED
      BY <1>1, <1>3, <3>1, <3>2
<1>5. CASE inst.type = "ADD"
  <2>1. h \in AddHalves(q, inst)
    BY <1>5, HalvesOf
  <2>2. PICK bs \in Seq(Nat) :
             /\ inst.size # 0 => Len(bs) = inst.size
             /\ h = Written(q, bs, bs, SizeBytes(inst, Len(bs)), <<>>, q.e.near, q.e.next, q.e.same)
    BY <1>1, <2>1, AddForm
  <2>3. Len(h.text) = Len(q.text) + Len(bs) /\ Len(bs) \in Nat
    <3>1. h.text = q.text \o bs
      BY <2>2, WrittenParts
    <3>2. QED
      BY <1>1, <3>1, ConcatProperties
  <2>4. Len(h.text) <= Capacity => HalfReads(q, h, inst, bs, SizeBytes(inst, Len(bs)), <<>>)
    BY <1>1, <1>5, <2>2, <2>3, AddHalfReads
  <2>5. SizeBytes(inst, Len(bs)) \in Seq(Nat)
    BY <2>3, SizeBytesType
  <2>6. QED
    BY <1>1, <1>3, <2>2, <2>4, <2>5
<1>6. CASE inst.type = "RUN"
  <2>1. h \in RunHalves(q, inst)
    BY <1>6, HalvesOf
  <2>2. PICK n \in Nat, b \in Nat :
             /\ inst.size # 0 => n = inst.size
             /\ h = Written(q, RunOf(n, b), <<b>>, SizeBytes(inst, n), <<>>, q.e.near, q.e.next, q.e.same)
    BY <1>1, <2>1, RunForm
  <2>3. RunOf(n, b) \in Seq(Nat) /\ Len(RunOf(n, b)) = n /\ <<b>> \in Seq(Nat)
    BY RunOfType
  <2>4. Len(h.text) = Len(q.text) + n
    <3>1. h.text = q.text \o RunOf(n, b)
      BY <2>2, WrittenParts
    <3>2. QED
      <4> DEFINE t == RunOf(n, b)
      <4>1. Len(q.text \o t) = Len(q.text) + Len(t)
        BY <1>1, <2>3, ConcatProperties
      <4>2. QED
        BY <1>1, <2>3, <3>1, <4>1
  <2>5. Len(h.text) <= Capacity => HalfReads(q, h, inst, <<b>>, SizeBytes(inst, n), <<>>)
    BY <1>1, <1>6, <2>2, <2>4, RunHalfReads
  <2>6. SizeBytes(inst, n) \in Seq(Nat)
    BY SizeBytesType
  <2>7. QED
    BY <1>1, <1>3, <2>2, <2>3, <2>5, <2>6
<1>7. CASE inst.type = "COPY"
  <2>1. h \in CopyHalves(q, inst)
    BY <1>7, HalvesOf
  <2>2. PICK n \in Nat, addr \in Nat :
           /\ inst.size # 0 => n = inst.size
           /\ addr < HereOf(q)
           /\ \E code \in Addresses(q.e, inst.mode, addr, HereOf(q)) :
                h = Written(q, CopiedBy(q, addr, n), <<>>, SizeBytes(inst, n), code,
                            [q.e.near EXCEPT ![q.e.next] = addr], (q.e.next + 1) % S_NEAR,
                            (SlotOf(addr) :> addr) @@ q.e.same)
    BY <1>1, <2>1, CopyForm
  <2> DEFINE near == [q.e.near EXCEPT ![q.e.next] = addr]
             next == (q.e.next + 1) % S_NEAR
             same == (SlotOf(addr) :> addr) @@ q.e.same
             t == CopiedBy(q, addr, n)
             S == SizeBytes(inst, n)
  <2>3. PICK code \in Addresses(q.e, inst.mode, addr, HereOf(q)) :
               h = Written(q, t, <<>>, S, code, near, next, same)
    BY <2>2
  <2>4. t \in Seq(Nat) /\ Len(t) = n
    BY <2>2, CopiedByType
  <2>5. Len(h.text) = Len(q.text) + n
    <3> HIDE DEF t, S, near, next, same
    <3>1. h.text = q.text \o t
      BY <2>3, WrittenParts
    <3>2. QED
      BY <1>1, <2>4, <3>1, ConcatProperties
  <2>6. /\ code \in Seq(Nat)
        /\ Len(h.text) <= Capacity =>
             HalfReads(q, Written(q, t, <<>>, S, code, near, next, same), inst, <<>>, S, code)
    BY <1>1, <1>7, <2>2, <2>5, CopyDraftReads
  <2>7. near \in Near /\ next \in 0 .. 3
    BY <1>1 DEF Near, S_NEAR
  <2>8. S \in Seq(Nat)
    BY SizeBytesType
  <2> HIDE DEF t, S, near, next, same
  <2>9. QED
    BY <1>1, <1>3, <2>3, <2>4, <2>6, <2>7, <2>8
<1>8. QED
  BY <1>4, <1>5, <1>6, <1>7 DEF InstOK

LEMMA FitAfter ==
  ASSUME NEW q, Fit(q), NEW t \in Seq(Nat), NEW D \in Seq(Nat), NEW S \in Seq(Nat), NEW A \in Seq(Nat),
         NEW near \in Near, NEW next \in 0 .. 3, NEW same
  PROVE  Fit(Written(q, t, D, S, A, near, next, same))
<1> DEFINE h == Written(q, t, D, S, A, near, next, same)
           e == EncOf(q.e.start, q.e.seg, near, next, same)
           k == q.w.size + Len(t)
           d == q.w.data \o D
           a == q.w.addr \o A
           u == q.text \o t
           s == q.sizes \o S
           w == WinOf(q.w.ind, q.w.len, q.w.pos, k, q.w.prog, d, a)
<1>1. /\ q.text \in Seq(Nat) /\ q.sizes \in Seq(Nat) /\ q.w.data \in Seq(Nat) /\ q.w.addr \in Seq(Nat)
      /\ q.e.start \in 0 .. Len(q.text) /\ q.e.seg \in Seq(Nat) /\ Len(q.e.seg) < Pow27
      /\ q.w.size \in Nat
  BY DEF Fit
<1>2. /\ u \in Seq(Nat) /\ Len(u) = Len(q.text) + Len(t) /\ s \in Seq(Nat) /\ d \in Seq(Nat) /\ a \in Seq(Nat)
  BY <1>1, ConcatProperties
<1>3. Len(t) \in Nat /\ Len(q.text) \in Nat
  BY <1>1
<1>4. k \in Nat /\ q.e.start \in 0 .. Len(u)
  <2>1. k \in Nat
    BY <1>1, <1>3
  <2> HIDE DEF u
  <2>2. q.e.start \in 0 .. Len(u)
    BY <1>1, <1>2, <1>3
  <2>3. QED
    BY <2>1, <2>2
<1>5. h = DraftOf(e, u, w, s)
  BY DEF Written
<1> HIDE DEF h, k, d, a, u, s
<1>6. h.e = e /\ h.text = u /\ h.w = w /\ h.sizes = s
  <2> HIDE DEF e, w
  <2>1. QED
    BY <1>5, DraftParts
<1>7. /\ h.e.start = q.e.start /\ h.e.seg = q.e.seg /\ h.e.near = near /\ h.e.next = next /\ h.e.same = same
  BY <1>6, EncParts
<1>8. /\ h.w.ind = q.w.ind /\ h.w.len = q.w.len /\ h.w.pos = q.w.pos /\ h.w.size = k
      /\ h.w.prog = q.w.prog /\ h.w.data = d /\ h.w.addr = a
  BY <1>6, WinParts
<1>9. h = DraftOf(EncOf(h.e.start, h.e.seg, h.e.near, h.e.next, h.e.same), h.text,
                  WinOf(h.w.ind, h.w.len, h.w.pos, h.w.size, h.w.prog, h.w.data, h.w.addr), h.sizes)
  BY <1>5, <1>6, <1>7, <1>8, Zenon
<1>10. Fit(h)
  BY <1>1, <1>2, <1>4, <1>6, <1>7, <1>8, <1>9 DEF Fit
<1>11. QED
  BY <1>10 DEF h

LEMMA InstIs ==
  ASSUME NEW t \in {"NOOP", "ADD", "RUN", "COPY"}, NEW s \in Nat, NEW m \in 0 .. 8
  PROVE  InstOK(Inst(t, s, m))
BY DEF InstOK, Inst

LEMMA PairOK ==
  ASSUME NEW x, InstOK(x)
  PROVE  /\ InstOK(NoInst) => InstOK(Single(x)[1]) /\ InstOK(Single(x)[2])
         /\ \A y : InstOK(y) => InstOK(Double(x, y)[1]) /\ InstOK(Double(x, y)[2])
<1>1. \A y : Double(x, y)[1] = x /\ Double(x, y)[2] = y
  BY DEF Double
<1>2. QED
  BY <1>1 DEF Single

\* The code table has ADD, RUN, COPY and NOOP instructions in the nine modes.
LEMMA TableType ==
  ASSUME NEW op \in 0 .. 255
  PROVE  InstOK(s_code_table(op)[1]) /\ InstOK(s_code_table(op)[2])
<1>1. InstOK(NoInst)
  BY InstIs DEF NoInst
<1>2. CASE op \in {0, 255}
  <2>1. s_code_table(op) = Single(NoInst)
    BY <1>2 DEF s_code_table
  <2>2. QED
    BY <1>1, <2>1, PairOK
<1>3. CASE op \in 1 .. 17
  <2>1. op \notin {0, 255} /\ op - 1 \in Nat
    BY <1>3
  <2>2. s_code_table(op) = Single(Inst("ADD", op - 1, 0))
    BY <1>3, <2>1 DEF s_code_table
  <2>3. InstOK(Inst("ADD", op - 1, 0))
    BY <2>1, InstIs
  <2>4. QED
    BY <1>1, <2>2, <2>3, PairOK
<1>4. CASE op = 18
  <2>1. op \notin {0, 255} /\ op \notin 1 .. 17
    BY <1>4
  <2>2. s_code_table(op) = Single(Inst("RUN", 0, 0))
    BY <1>4, <2>1 DEF s_code_table
  <2>3. InstOK(Inst("RUN", 0, 0))
    BY InstIs
  <2>4. QED
    BY <1>1, <2>2, <2>3, PairOK
<1>5. CASE op \in 19 .. 162
  <2> DEFINE k == (op - 19) % 16
             s == IF k = 0 THEN 0 ELSE k + 3
             m == (op - 19) \div 16
  <2>1. op \notin {0, 255} /\ op \notin 1 .. 17 /\ op # 18
    BY <1>5
  <2>2. s_code_table(op) = Single(Inst("COPY", s, m))
    BY <1>5, <2>1 DEF s_code_table
  <2>3. s \in Nat /\ m \in 0 .. 8
    BY <1>5
  <2> HIDE DEF s, m
  <2>4. InstOK(Inst("COPY", s, m))
    BY <2>3, InstIs
  <2>5. QED
    BY <1>1, <2>2, <2>4, PairOK
<1>6. CASE op \in 163 .. 234
  <2> DEFINE x == op - 163
             s == (x \div 18) + 1
             c == (x % 3) + 4
             y == x % 18
             m == y \div 3
  <2>1. op \notin {0, 255} /\ op \notin 1 .. 17 /\ op # 18 /\ op \notin 19 .. 162
    BY <1>6
  <2>2. s_code_table(op) = Double(Inst("ADD", s, 0), Inst("COPY", c, m))
    BY <1>6, <2>1 DEF s_code_table
  <2>3. x \in 0 .. 71
    BY <1>6
  <2>4. s \in Nat /\ c \in Nat /\ y \in 0 .. 17
    <3> HIDE DEF x
    <3>1. QED
      BY <2>3
  <2>5. m \in 0 .. 8
    <3> HIDE DEF y
    <3>1. QED
      BY <2>4
  <2> HIDE DEF s, m, c
  <2>6. InstOK(Inst("ADD", s, 0)) /\ InstOK(Inst("COPY", c, m))
    BY <2>4, <2>5, InstIs
  <2>7. QED
    BY <2>2, <2>6, PairOK
<1>7. CASE op \in 235 .. 254
  <2> DEFINE x == op - 235
             m == x \div 4
             s == (x % 4) + 1
  <2>1. op \notin {0, 255} /\ op \notin 1 .. 17 /\ op # 18 /\ op \notin 19 .. 162 /\ op \notin 163 .. 234
    BY <1>7
  <2>2. s_code_table(op) = Double(Inst("COPY", 4, m), Inst("ADD", s, 0))
    BY <1>7, <2>1 DEF s_code_table
  <2>3. x \in 0 .. 19
    BY <1>7
  <2>4. s \in Nat /\ m \in 0 .. 8
    <3> HIDE DEF x
    <3>1. QED
      BY <2>3
  <2> HIDE DEF s, m
  <2>5. InstOK(Inst("COPY", 4, m)) /\ InstOK(Inst("ADD", s, 0))
    BY <2>4, InstIs
  <2>6. QED
    BY <2>2, <2>5, PairOK
<1>8. QED
  <2>1. \/ op \in {0, 255} \/ op \in 1 .. 17 \/ op = 18 \/ op \in 19 .. 162 \/ op \in 163 .. 234
        \/ op \in 235 .. 254
    OBVIOUS
  <2>2. QED
    BY <1>2, <1>3, <1>4, <1>5, <1>6, <1>7, <2>1

-----------------------------------------------------------------------------
(* One opcode.                                                             *)

\* The bytes of the opcode op of the draft h, written behind q: what the decoder
\* does with them.
OpcodeBy(q, h, op, t, D, S, A, near, next, same) ==
  /\ Bytes4(t, D, S, A) /\ near \in Near /\ next \in 0 .. 3
  /\ h = Written(q, t, D, S, A, near, next, same)
  /\ \A x \in Seq(Nat), y \in Seq(Nat), z \in Seq(Nat) :
       Opcode(StateOf(q, D \o x, <<op>> \o (S \o y), A \o z), RoomOf(q)) = StateOf(h, x, y, z)
OpcodeOK(q, h, op) ==
  \E t, D, S, A, near, next, same : OpcodeBy(q, h, op, t, D, S, A, near, next, same)

LEMMA Longer ==
  ASSUME NEW x \in Seq(Nat), NEW y \in Seq(Nat)
  PROVE  x \o y \in Seq(Nat) /\ Len(x \o y) = Len(x) + Len(y) /\ Len(x) \in Nat /\ Len(y) \in Nat
BY ConcatProperties

Bytes3(x, y, z) == x \in Seq(Nat) /\ y \in Seq(Nat) /\ z \in Seq(Nat)

LEMMA Associated ==
  ASSUME NEW x \in Seq(Nat), NEW y \in Seq(Nat), NEW z \in Seq(Nat)
  PROVE  (x \o y) \o z = x \o (y \o z)
OBVIOUS

Regroup(x, y, z) == (x \o y) \o z = x \o (y \o z)

LEMMA Regrouped ==
  ASSUME NEW x, NEW y, NEW z, Bytes3(x, y, z)
  PROVE  Regroup(x, y, z)
<1>1. \A u \in Seq(Nat), v \in Seq(Nat), w \in Seq(Nat) : Regroup(u, v, w)
  BY Associated DEF Regroup
<1>2. QED
  BY <1>1 DEF Bytes3

LEMMA WrittenRoom ==
  ASSUME NEW q, NEW t, NEW D, NEW S, NEW A, NEW near, NEW next, NEW same
  PROVE  /\ RoomOf(Written(q, t, D, S, A, near, next, same)) = RoomOf(q)
         /\ Written(q, t, D, S, A, near, next, same).e.near = near
         /\ Written(q, t, D, S, A, near, next, same).e.next = next
         /\ Written(q, t, D, S, A, near, next, same).e.same = same
         /\ Written(q, t, D, S, A, near, next, same).e.start = q.e.start
         /\ Written(q, t, D, S, A, near, next, same).e.seg = q.e.seg
<1> DEFINE h == Written(q, t, D, S, A, near, next, same)
<1>1. h.e = EncOf(q.e.start, q.e.seg, near, next, same)
  BY WrittenParts
<1> HIDE DEF h
<1>2. h.e.near = near /\ h.e.next = next /\ h.e.same = same /\ h.e.start = q.e.start /\ h.e.seg = q.e.seg
  BY <1>1, EncParts
<1>3. RoomOf(h) = RoomOf(q)
  BY <1>2 DEF RoomOf
<1>4. QED
  BY <1>2, <1>3 DEF h

LEMMA WrittenTwice ==
  ASSUME NEW q, Fit(q), NEW t, NEW D, NEW S, NEW A, Bytes4(t, D, S, A),
         NEW near, NEW next, NEW same, NEW g, g = Written(q, t, D, S, A, near, next, same),
         NEW tB, NEW DB, NEW SB, NEW AB, Bytes4(tB, DB, SB, AB), NEW nearB, NEW nextB, NEW sameB
  PROVE  Written(g, tB, DB, SB, AB, nearB, nextB, sameB)
           = Written(q, t \o tB, D \o DB, S \o SB, A \o AB, nearB, nextB, sameB)
<1>1. /\ q.text \in Seq(Nat) /\ q.sizes \in Seq(Nat) /\ q.w.data \in Seq(Nat) /\ q.w.addr \in Seq(Nat)
      /\ q.w.size \in Nat
  BY DEF Fit
<1>2. /\ g.text = q.text \o t /\ g.sizes = q.sizes \o S
      /\ g.w = WinOf(q.w.ind, q.w.len, q.w.pos, q.w.size + Len(t), q.w.prog, q.w.data \o D, q.w.addr \o A)
      /\ g.e.start = q.e.start /\ g.e.seg = q.e.seg
  <2>1. /\ g.text = q.text \o t /\ g.sizes = q.sizes \o S
        /\ g.w = WinOf(q.w.ind, q.w.len, q.w.pos, q.w.size + Len(t), q.w.prog, q.w.data \o D, q.w.addr \o A)
    BY WrittenParts
  <2>2. g.e.start = q.e.start /\ g.e.seg = q.e.seg
    BY WrittenRoom
  <2>3. QED
    BY <2>1, <2>2
<1> DEFINE k == q.w.size + Len(t)
           d == q.w.data \o D
           a == q.w.addr \o A
<1>3. /\ g.w.ind = q.w.ind /\ g.w.len = q.w.len /\ g.w.pos = q.w.pos /\ g.w.size = k
      /\ g.w.prog = q.w.prog /\ g.w.data = d /\ g.w.addr = a
  <2> HIDE DEF k, d, a
  <2>1. g.w = WinOf(q.w.ind, q.w.len, q.w.pos, k, q.w.prog, d, a)
    BY <1>2 DEF k, d, a
  <2>2. QED
    BY <2>1, WinParts
<1>4. /\ g.text \o tB = q.text \o (t \o tB) /\ g.sizes \o SB = q.sizes \o (S \o SB)
      /\ d \o DB = q.w.data \o (D \o DB) /\ a \o AB = q.w.addr \o (A \o AB)
  <2>1. /\ (q.text \o t) \o tB = q.text \o (t \o tB) /\ (q.sizes \o S) \o SB = q.sizes \o (S \o SB)
        /\ (q.w.data \o D) \o DB = q.w.data \o (D \o DB) /\ (q.w.addr \o A) \o AB = q.w.addr \o (A \o AB)
    <3>1. (q.text \o t) \o tB = q.text \o (t \o tB)
      <4>1. Bytes3(q.text, t, tB)
        BY <1>1 DEF Bytes3, Bytes4
      <4>2. Regroup(q.text, t, tB)
        BY <4>1, Regrouped
      <4>3. QED
        BY <4>2 DEF Regroup
    <3>2. (q.sizes \o S) \o SB = q.sizes \o (S \o SB)
      <4>1. Bytes3(q.sizes, S, SB)
        BY <1>1 DEF Bytes3, Bytes4
      <4>2. Regroup(q.sizes, S, SB)
        BY <4>1, Regrouped
      <4>3. QED
        BY <4>2 DEF Regroup
    <3>3. (q.w.data \o D) \o DB = q.w.data \o (D \o DB)
      <4>1. Bytes3(q.w.data, D, DB)
        BY <1>1 DEF Bytes3, Bytes4
      <4>2. Regroup(q.w.data, D, DB)
        BY <4>1, Regrouped
      <4>3. QED
        BY <4>2 DEF Regroup
    <3>4. (q.w.addr \o A) \o AB = q.w.addr \o (A \o AB)
      <4>1. Bytes3(q.w.addr, A, AB)
        BY <1>1 DEF Bytes3, Bytes4
      <4>2. Regroup(q.w.addr, A, AB)
        BY <4>1, Regrouped
      <4>3. QED
        BY <4>2 DEF Regroup
    <3>5. QED
      BY <3>1, <3>2, <3>3, <3>4
  <2>2. QED
    BY <1>2, <2>1
<1>5. k + Len(tB) = q.w.size + Len(t \o tB)
  <2>1. t \in Seq(Nat) /\ tB \in Seq(Nat)
    BY DEF Bytes4
  <2>2. QED
    BY <1>1, <2>1, Longer
<1> HIDE DEF k, d, a
<1>6. QED
  BY <1>2, <1>3, <1>4, <1>5, Zenon DEF Written

LEMMA InstSet ==
  ASSUME NEW q, NEW x, NEW y, NEW z, NEW v
  PROVE  [StateOf(q, x, y, z) EXCEPT !.inst = v] = StateOf(q, x, v, z)
BY DEF StateOf, Reached

LEMMA OpcodeReads ==
  ASSUME NEW q, Fit(q), Len(q.text) <= Capacity, NEW op \in 0 .. 255, NEW g \in Halves(q, s_code_table(op)[1]),
         NEW h \in Halves(g, s_code_table(op)[2]), Len(h.text) <= Capacity
  PROVE  OpcodeOK(q, h, op) /\ Fit(h)
<1> DEFINE i1 == s_code_table(op)[1]
           i2 == s_code_table(op)[2]
           win == RoomOf(q)
<1>1. InstOK(i1) /\ InstOK(i2)
  BY TableType
<1> HIDE DEF i1, i2
<1>2. g \in Halves(q, i1) /\ h \in Halves(g, i2)
  BY DEF i1, i2
<1>3. PICK tA, DA, SA, AA, nearA, nextA, sameA : HalfBy(q, g, i1, tA, DA, SA, AA, nearA, nextA, sameA)
  BY <1>1, <1>2, HalfIsRead DEF HalfOK
<1>4. Bytes4(tA, DA, SA, AA) /\ nearA \in Near /\ nextA \in 0 .. 3
  BY <1>3 DEF HalfBy
<1>5. /\ g = Written(q, tA, DA, SA, AA, nearA, nextA, sameA)
      /\ Len(g.text) <= Capacity => HalfReads(q, g, i1, DA, SA, AA)
  BY <1>3 DEF HalfBy
<1>6. Fit(g)
  <2>1. Fit(Written(q, tA, DA, SA, AA, nearA, nextA, sameA))
    BY <1>4, FitAfter DEF Bytes4
  <2>2. QED
    BY <1>5, <2>1
<1>7. Len(g.text) <= Capacity
  <2>1. Len(h.text) \in Nat /\ Len(g.text) <= Len(h.text)
    BY <1>1, <1>2, <1>6, HalfGrows
  <2>2. Len(g.text) \in Nat /\ Capacity \in Nat
    BY <1>6, VcdiffAssumption DEF Fit
  <2>3. QED
    BY <2>1, <2>2
<1>8. PICK tB, DB, SB, AB, nearB, nextB, sameB : HalfBy(g, h, i2, tB, DB, SB, AB, nearB, nextB, sameB)
  BY <1>1, <1>2, <1>6, <1>7, HalfIsRead DEF HalfOK
<1>9. Bytes4(tB, DB, SB, AB) /\ nearB \in Near /\ nextB \in 0 .. 3
  BY <1>8 DEF HalfBy
<1>10. h = Written(g, tB, DB, SB, AB, nearB, nextB, sameB) /\ HalfReads(g, h, i2, DB, SB, AB)
  BY <1>8 DEF HalfBy
<1>11. Fit(h)
  <2>1. Fit(Written(g, tB, DB, SB, AB, nearB, nextB, sameB))
    BY <1>6, <1>9, FitAfter DEF Bytes4
  <2>2. QED
    BY <1>10, <2>1
<1> DEFINE t == tA \o tB
           D == DA \o DB
           S == SA \o SB
           A == AA \o AB
<1>12. Bytes4(t, D, S, A)
  BY <1>4, <1>9, Longer DEF Bytes4
<1>13. h = Written(q, t, D, S, A, nearB, nextB, sameB)
  BY <1>4, <1>5, <1>9, <1>10, WrittenTwice
<1>14. RoomOf(g) = win
  BY <1>5, WrittenRoom
<1>15. HalfReads(q, g, i1, DA, SA, AA)
  BY <1>5, <1>7
<1>16. ASSUME NEW x \in Seq(Nat), NEW y \in Seq(Nat), NEW z \in Seq(Nat)
       PROVE  Opcode(StateOf(q, D \o x, <<op>> \o (S \o y), A \o z), win) = StateOf(h, x, y, z)
  <2> DEFINE X == DB \o x
             Y == SB \o y
             Z == AB \o z
             b == <<op>> \o (S \o y)
             d == StateOf(q, D \o x, b, A \o z)
             e == StateOf(q, DA \o X, SA \o Y, AA \o Z)
             f == StateOf(g, X, Y, Z)
             v == S \o y
  <2>1. X \in Seq(Nat) /\ Y \in Seq(Nat) /\ Z \in Seq(Nat) /\ v \in Seq(Nat)
    <3>1. DB \in Seq(Nat) /\ SB \in Seq(Nat) /\ AB \in Seq(Nat) /\ S \in Seq(Nat)
      BY <1>9, <1>12 DEF Bytes4
    <3>2. X \in Seq(Nat)
      BY <3>1, Longer
    <3>3. Y \in Seq(Nat) /\ v \in Seq(Nat)
      BY <3>1, Longer
    <3>4. Z \in Seq(Nat)
      BY <3>1, Longer
    <3>5. QED
      BY <3>2, <3>3, <3>4
  <2>2. D \o x = DA \o X /\ S \o y = SA \o Y /\ A \o z = AA \o Z
    <3>1. D \o x = DA \o X
      <4>1. Bytes3(DA, DB, x)
        BY <1>4, <1>9, Zenon DEF Bytes4, Bytes3
      <4>2. Regroup(DA, DB, x)
        BY <4>1, Regrouped, Zenon
      <4>3. QED
        BY <4>2, Zenon DEF Regroup
    <3>2. S \o y = SA \o Y
      <4>1. Bytes3(SA, SB, y)
        BY <1>4, <1>9, Zenon DEF Bytes4, Bytes3
      <4>2. Regroup(SA, SB, y)
        BY <4>1, Regrouped, Zenon
      <4>3. QED
        BY <4>2, Zenon DEF Regroup
    <3>3. A \o z = AA \o Z
      <4>1. Bytes3(AA, AB, z)
        BY <1>4, <1>9, Zenon DEF Bytes4, Bytes3
      <4>2. Regroup(AA, AB, z)
        BY <4>1, Regrouped, Zenon
      <4>3. QED
        BY <4>2, Zenon DEF Regroup
    <3>4. QED
      BY <3>1, <3>2, <3>3
  <2>3. b # <<>> /\ Head(b) = op /\ Tail(b) = S \o y
    <3>1. op \in Nat
      OBVIOUS
    <3> HIDE DEF v
    <3>2. <<op>> \o v # <<>> /\ Head(<<op>> \o v) = op /\ Tail(<<op>> \o v) = v
      BY <2>1, <3>1, FirstOf
    <3>3. QED
      BY <3>2 DEF v
  <2>4. d.err = "OK" /\ d.inst = b
    BY DEF StateOf, Reached
  <2>5. [d EXCEPT !.inst = Tail(b)] = e
    <3>1. [d EXCEPT !.inst = v] = StateOf(q, D \o x, v, A \o z)
      <4> HIDE DEF b, v, D, A
      <4>1. QED
        BY InstSet
    <3>2. StateOf(q, D \o x, v, A \o z) = e
      BY <2>2
    <3> HIDE DEF d, e, b
    <3>3. QED
      BY <2>3, <3>1, <3>2
  <2>6. Execute(e, i1, win) = f
    <3> HIDE DEF X, Y, Z
    <3>1. QED
      BY <1>15, <2>1 DEF HalfReads, win
  <2>7. Execute(f, i2, win) = StateOf(h, x, y, z)
    BY <1>10, <1>14 DEF HalfReads
  <2> HIDE DEF d, e, f, b, X, Y, Z, v, D, S, A
  <2>8. Opcode(d, win) = Execute(Execute([d EXCEPT !.inst = Tail(b)], i1, win), i2, win)
    <3>1. [d EXCEPT !.inst = Tail(@)] = [d EXCEPT !.inst = Tail(d.inst)]
      OBVIOUS
    <3>2. Opcode(d, win) = Execute(Execute([d EXCEPT !.inst = Tail(@)], s_code_table(Head(d.inst))[1], win),
                                   s_code_table(Head(d.inst))[2], win)
      BY <2>3, <2>4, Zenon DEF Opcode
    <3>3. QED
      BY <2>3, <2>4, <3>1, <3>2 DEF i1, i2
  <2>9. Opcode(d, win) = StateOf(h, x, y, z)
    BY <2>5, <2>6, <2>7, <2>8
  <2>10. QED
    BY <2>9 DEF d, b
<1> HIDE DEF t, D, S, A
<1>17. OpcodeBy(q, h, op, t, D, S, A, nearB, nextB, sameB)
  BY <1>9, <1>12, <1>13, <1>16 DEF OpcodeBy, win
<1>18. OpcodeOK(q, h, op)
  BY <1>17 DEF OpcodeOK
<1>19. QED
  BY <1>11, <1>18

-----------------------------------------------------------------------------
(* Sequences of sequences.                                                 *)

LEMMA ConcatOfSame ==
  ASSUME NEW ss, NEW uu, NEW n \in Nat, \A i \in 1 .. n : ss[i] = uu[i]
  PROVE  ConcatUpTo(ss, n) = ConcatUpTo(uu, n)
<1> DEFINE T == {k \in Nat : k <= n => ConcatUpTo(ss, k) = ConcatUpTo(uu, k)}
<1>1. 0 \in T
  BY ConcatLoop
<1>2. ASSUME NEW k \in Nat, k \in T PROVE k + 1 \in T
  <2>1. CASE k + 1 <= n
    <3>1. ConcatUpTo(ss, k) = ConcatUpTo(uu, k)
      BY <1>2, <2>1
    <3>2. ss[k + 1] = uu[k + 1]
      BY <2>1
    <3>3. /\ ConcatUpTo(ss, k + 1) = ConcatUpTo(ss, k) \o ss[k + 1]
          /\ ConcatUpTo(uu, k + 1) = ConcatUpTo(uu, k) \o uu[k + 1]
      BY ConcatLoop
    <3>4. ConcatUpTo(ss, k + 1) = ConcatUpTo(uu, k + 1)
      BY <3>1, <3>2, <3>3
    <3>5. QED
      BY <3>4
  <2>2. CASE ~(k + 1 <= n)
    BY <2>2
  <2>3. QED
    BY <2>1, <2>2
<1> HIDE DEF T
<1>3. n \in T
  BY <1>1, <1>2, NatInduct
<1>4. QED
  BY <1>3 DEF T

LEMMA ConcatType ==
  ASSUME NEW ss, NEW n \in Nat, \A i \in 1 .. n : ss[i] \in Seq(Nat) /\ Len(ss[i]) >= 1
  PROVE  ConcatUpTo(ss, n) \in Seq(Nat) /\ Len(ConcatUpTo(ss, n)) >= n
<1> DEFINE C(k) == ConcatUpTo(ss, k)
           T == {k \in Nat : k <= n => C(k) \in Seq(Nat) /\ Len(C(k)) >= k}
<1>1. 0 \in T
  <2>1. C(0) = <<>>
    BY ConcatLoop
  <2> HIDE DEF C
  <2>2. C(0) \in Seq(Nat) /\ Len(C(0)) = 0
    BY <2>1, EmptySeq
  <2>3. QED
    BY <2>2
<1>2. ASSUME NEW k \in Nat, k \in T PROVE k + 1 \in T
  <2>1. CASE k + 1 <= n
    <3> DEFINE c == C(k)
               s == ss[k + 1]
    <3>1. c \in Seq(Nat) /\ Len(c) >= k
      BY <1>2, <2>1
    <3>2. s \in Seq(Nat) /\ Len(s) >= 1
      BY <2>1
    <3>3. C(k + 1) = c \o s
      BY ConcatLoop
    <3> HIDE DEF c, s
    <3>4. c \o s \in Seq(Nat) /\ Len(c \o s) >= k + 1
      BY <3>1, <3>2, Longer
    <3> DEFINE more == c \o s
    <3> HIDE DEF C, more
    <3>5. C(k + 1) = more /\ more \in Seq(Nat) /\ Len(more) >= k + 1
      BY <3>3, <3>4 DEF more
    <3>6. C(k + 1) \in Seq(Nat) /\ Len(C(k + 1)) >= k + 1
      BY <3>5
    <3>7. QED
      BY <3>6
  <2>2. CASE ~(k + 1 <= n)
    BY <2>2
  <2>3. QED
    BY <2>1, <2>2
<1> HIDE DEF T
<1>3. n \in T
  BY <1>1, <1>2, NatInduct
<1>4. QED
  BY <1>3 DEF T

\* The opcodes of a window, with the sizes behind them.
ProgStep == [op : 0 .. 255, sizes : Seq(Nat)]
StepBytes(p) == <<p.op>> \o p.sizes
StepsOf(prog) == [i \in DOMAIN prog |-> <<prog[i].op>> \o prog[i].sizes]

LEMMA StepType ==
  ASSUME NEW p \in ProgStep
  PROVE  StepBytes(p) \in Seq(Nat) /\ Len(StepBytes(p)) = Len(p.sizes) + 1 /\ Len(p.sizes) \in Nat
<1>1. p.op \in Nat /\ p.sizes \in Seq(Nat)
  <2>1. p.op \in 0 .. 255 /\ p.sizes \in Seq(Nat)
    BY DEF ProgStep
  <2> DEFINE o == p.op
             z == p.sizes
  <2> HIDE DEF o, z
  <2>2. o \in 0 .. 255 /\ z \in Seq(Nat)
    BY <2>1 DEF o, z
  <2>3. o \in Nat
    BY <2>2
  <2>4. QED
    BY <2>2, <2>3 DEF o, z
<1>2. QED
  BY <1>1, FirstOf DEF StepBytes

LEMMA InstBytesAre ==
  ASSUME NEW prog \in Seq(ProgStep)
  PROVE  /\ InstBytes(prog) = ConcatUpTo(StepsOf(prog), Len(prog)) /\ Len(prog) \in Nat
         /\ \A i \in 1 .. Len(prog) : StepsOf(prog)[i] = StepBytes(prog[i]) /\ prog[i] \in ProgStep
<1>1. Len(prog) \in Nat /\ DOMAIN prog = 1 .. Len(prog)
  OBVIOUS
<1>2. \A i \in 1 .. Len(prog) : StepsOf(prog)[i] = StepBytes(prog[i]) /\ prog[i] \in ProgStep
  BY <1>1 DEF StepsOf, StepBytes
<1>3. Len(StepsOf(prog)) = Len(prog)
  BY <1>1 DEF StepsOf
<1>4. InstBytes(prog) = Concat(StepsOf(prog))
  BY DEF InstBytes, StepsOf
<1>5. Concat(StepsOf(prog)) = ConcatUpTo(StepsOf(prog), Len(StepsOf(prog)))
  BY DEF Concat, ConcatUpTo
<1>6. QED
  BY <1>1, <1>2, <1>3, <1>4, <1>5

LEMMA InstBytesType ==
  ASSUME NEW prog \in Seq(ProgStep)
  PROVE  InstBytes(prog) \in Seq(Nat) /\ Len(InstBytes(prog)) >= Len(prog)
<1>1. \A i \in 1 .. Len(prog) : StepsOf(prog)[i] \in Seq(Nat) /\ Len(StepsOf(prog)[i]) >= 1
  <2>1. ASSUME NEW i \in 1 .. Len(prog)
        PROVE  StepsOf(prog)[i] \in Seq(Nat) /\ Len(StepsOf(prog)[i]) >= 1
    <3>1. StepsOf(prog)[i] = StepBytes(prog[i]) /\ prog[i] \in ProgStep
      BY InstBytesAre
    <3> DEFINE b == StepBytes(prog[i])
               k == Len(prog[i].sizes)
    <3>2. b \in Seq(Nat) /\ Len(b) = k + 1 /\ k \in Nat
      BY <3>1, StepType
    <3> HIDE DEF k, b
    <3>3. b \in Seq(Nat) /\ Len(b) >= 1
      BY <3>2
    <3>4. QED
      BY <3>1, <3>3 DEF b
  <2>2. QED
    BY <2>1
<1>2. QED
  BY <1>1, InstBytesAre, ConcatType

LEMMA InstBytesMore ==
  ASSUME NEW prog \in Seq(ProgStep), NEW p \in ProgStep
  PROVE  InstBytes(Append(prog, p)) = InstBytes(prog) \o StepBytes(p)
<1> DEFINE more == Append(prog, p)
           n == Len(prog)
<1>1. more \in Seq(ProgStep) /\ Len(more) = n + 1 /\ n \in Nat
      /\ (\A i \in 1 .. n : more[i] = prog[i]) /\ more[n + 1] = p
  BY AppendProperties
<1> HIDE DEF more, n
<1>2. /\ InstBytes(more) = ConcatUpTo(StepsOf(more), n + 1)
      /\ \A i \in 1 .. n + 1 : StepsOf(more)[i] = StepBytes(more[i])
  BY <1>1, InstBytesAre
<1>3. /\ InstBytes(prog) = ConcatUpTo(StepsOf(prog), n)
      /\ \A i \in 1 .. n : StepsOf(prog)[i] = StepBytes(prog[i])
  BY InstBytesAre DEF n
<1>4. ConcatUpTo(StepsOf(more), n + 1) = ConcatUpTo(StepsOf(more), n) \o StepsOf(more)[n + 1]
  BY <1>1, ConcatLoop
<1>5. \A i \in 1 .. n : StepsOf(more)[i] = StepsOf(prog)[i]
  BY <1>1, <1>2, <1>3
<1>6. ConcatUpTo(StepsOf(more), n) = ConcatUpTo(StepsOf(prog), n)
  BY <1>1, <1>5, ConcatOfSame
<1>7. StepsOf(more)[n + 1] = StepBytes(p)
  BY <1>1, <1>2
<1>8. QED
  BY <1>2, <1>3, <1>4, <1>6, <1>7 DEF more

-----------------------------------------------------------------------------
(* The open window.                                                        *)

LEMMA PrefixOfConcat ==
  ASSUME NEW x \in Seq(Nat), NEW y \in Seq(Nat), NEW n \in 0 .. Len(x)
  PROVE  SubSeq(x \o y, 1, n) = SubSeq(x, 1, n)
<1> DEFINE u == x \o y
           a == SubSeq(u, 1, n)
           b == SubSeq(x, 1, n)
<1>1. /\ u \in Seq(Nat) /\ Len(u) = Len(x) + Len(y)
      /\ \A i \in 1 .. Len(x) + Len(y) : u[i] = IF i <= Len(x) THEN x[i] ELSE y[i - Len(x)]
  BY ConcatProperties
<1>2. Len(x) \in Nat /\ Len(y) \in Nat
  OBVIOUS
<1> HIDE DEF u
<1>3. \A i \in 1 .. n : u[i] = x[i] /\ i \in 1 .. Len(x) /\ i \in 1 .. Len(u)
  BY <1>1, <1>2
<1>4. a \in Seq(Nat) /\ Len(a) = n /\ \A i \in 1 .. n : a[i] = u[i]
  BY <1>1, <1>2, <1>3
<1>5. b \in Seq(Nat) /\ Len(b) = n /\ \A i \in 1 .. n : b[i] = x[i]
  BY <1>2, <1>3
<1> HIDE DEF a, b
<1>6. a = b
  BY <1>3, <1>4, <1>5, SeqEqual
<1>7. QED
  BY <1>6 DEF a, b, u

\* The state in which the loop over the opcodes of a window starts.
FreshState(out, x, y, z) == Reached(out, [i \in 0 .. S_NEAR - 1 |-> 0], 0, << >>, x, y, z)

OpenReads(q) ==
  \A x \in Seq(Nat), y \in Seq(Nat), z \in Seq(Nat) :
    OpcodesRun(FreshState(SubSeq(q.text, 1, q.e.start), q.w.data \o x, InstBytes(q.w.prog) \o y, q.w.addr \o z),
               Len(q.w.prog), RoomOf(q))
      = StateOf(q, x, y, z)

\* The open window with the opcode op of the draft h.
Emitted(h, op) ==
  [e |-> h.e, text |-> h.text,
   w |-> [h.w EXCEPT !.prog = Append(@, [op |-> op, sizes |-> h.sizes])], sizes |-> <<>>]

LEMMA EmittedParts ==
  ASSUME NEW h, Fit(h), NEW op
  PROVE  /\ Emitted(h, op).e = h.e /\ Emitted(h, op).text = h.text /\ Emitted(h, op).sizes = <<>>
         /\ Emitted(h, op).w = WinOf(h.w.ind, h.w.len, h.w.pos, h.w.size,
                                     Append(h.w.prog, [op |-> op, sizes |-> h.sizes]), h.w.data, h.w.addr)
<1> DEFINE w == WinOf(h.w.ind, h.w.len, h.w.pos, h.w.size, h.w.prog, h.w.data, h.w.addr)
           p == Append(h.w.prog, [op |-> op, sizes |-> h.sizes])
<1>1. h.w = w
  <2>1. h = DraftOf(h.e, h.text, w, h.sizes)
    BY FitParts
  <2> HIDE DEF w
  <2>2. DraftOf(h.e, h.text, w, h.sizes).w = w
    BY DraftParts
  <2>3. QED
    BY <2>1, <2>2
<1>2. [h.w EXCEPT !.prog = Append(@, [op |-> op, sizes |-> h.sizes])] = [h.w EXCEPT !.prog = p]
  <2> DEFINE v == h.w
             a == [op |-> op, sizes |-> h.sizes]
  <2> HIDE DEF v, a
  <2>1. [v EXCEPT !.prog = Append(@, a)] = [v EXCEPT !.prog = Append(v.prog, a)]
    OBVIOUS
  <2>2. QED
    BY <2>1 DEF v, a
<1> HIDE DEF p
<1>3. [w EXCEPT !.prog = p] = WinOf(h.w.ind, h.w.len, h.w.pos, h.w.size, p, h.w.data, h.w.addr)
  BY DEF WinOf
<1> HIDE DEF w
<1>4. [h.w EXCEPT !.prog = p] = WinOf(h.w.ind, h.w.len, h.w.pos, h.w.size, p, h.w.data, h.w.addr)
  BY <1>1, <1>3
<1>5. QED
  BY <1>2, <1>4 DEF Emitted, p

LEMMA EmittedFit ==
  ASSUME NEW h, Fit(h), NEW op
  PROVE  Fit(Emitted(h, op))
<1> DEFINE g == Emitted(h, op)
           p == Append(h.w.prog, [op |-> op, sizes |-> h.sizes])
           w == WinOf(h.w.ind, h.w.len, h.w.pos, h.w.size, p, h.w.data, h.w.addr)
<1>1. g.e = h.e /\ g.text = h.text /\ g.sizes = <<>> /\ g.w = w
  BY EmittedParts
<1>2. g = DraftOf(g.e, g.text, g.w, g.sizes)
  BY DEF Emitted, DraftOf
<1> HIDE DEF g, p
<1>3. /\ g.w.ind = h.w.ind /\ g.w.len = h.w.len /\ g.w.pos = h.w.pos /\ g.w.size = h.w.size
      /\ g.w.prog = p /\ g.w.data = h.w.data /\ g.w.addr = h.w.addr
  BY <1>1, WinParts
<1>4. g.w = WinOf(g.w.ind, g.w.len, g.w.pos, g.w.size, g.w.prog, g.w.data, g.w.addr)
  BY <1>1, <1>3
<1>5. g.e = EncOf(g.e.start, g.e.seg, g.e.near, g.e.next, g.e.same)
  BY <1>1, FitParts
<1>6. /\ g.text \in Seq(Nat) /\ g.sizes \in Seq(Nat) /\ g.w.data \in Seq(Nat) /\ g.w.addr \in Seq(Nat)
      /\ g.e.start \in 0 .. Len(g.text) /\ g.e.seg \in Seq(Nat) /\ Len(g.e.seg) < Pow27
      /\ g.e.near \in Near /\ g.e.next \in 0 .. 3 /\ g.w.size \in Nat
  BY <1>1, <1>3, EmptySeq DEF Fit
<1>7. g = DraftOf(EncOf(g.e.start, g.e.seg, g.e.near, g.e.next, g.e.same), g.text,
                 WinOf(g.w.ind, g.w.len, g.w.pos, g.w.size, g.w.prog, g.w.data, g.w.addr), g.sizes)
  BY <1>2, <1>4, <1>5, Zenon
<1>8. QED
  BY <1>6, <1>7 DEF Fit, g

LEMMA GroupOf ==
  ASSUME NEW x, NEW y, NEW z, Bytes3(x, y, z)
  PROVE  (x \o y) \o z = x \o (y \o z)
BY Regrouped DEF Regroup

WrittenAs(q, h, t, D, S, A) ==
  /\ h.text = q.text \o t /\ h.sizes = q.sizes \o S
  /\ h.w = WinOf(q.w.ind, q.w.len, q.w.pos, q.w.size + Len(t), q.w.prog, q.w.data \o D, q.w.addr \o A)

LEMMA WrittenText ==
  ASSUME NEW q, NEW t, NEW D, NEW S, NEW A, NEW near, NEW next, NEW same,
         NEW h, h = Written(q, t, D, S, A, near, next, same)
  PROVE  WrittenAs(q, h, t, D, S, A)
<1> DEFINE e == EncOf(q.e.start, q.e.seg, near, next, same)
           w == WinOf(q.w.ind, q.w.len, q.w.pos, q.w.size + Len(t), q.w.prog, q.w.data \o D, q.w.addr \o A)
           s == q.sizes \o S
           u == q.text \o t
<1>1. h = DraftOf(e, u, w, s)
  BY DEF Written
<1> HIDE DEF e, w, s, u
<1>2. h.text = u /\ h.w = w /\ h.sizes = s
  BY <1>1, DraftParts
<1>3. QED
  BY <1>2 DEF w, s, u, WrittenAs

\* An opcode more in the open window: the decoder reads the window up to there.
LEMMA OpenReadsEmit ==
  ASSUME NEW q, Fit(q), q.sizes = <<>>, OpenReads(q), q.w.prog \in Seq(ProgStep),
         NEW op \in 0 .. 255, NEW h, Fit(h), OpcodeOK(q, h, op)
  PROVE  /\ OpenReads(Emitted(h, op)) /\ Emitted(h, op).w.prog \in Seq(ProgStep)
         /\ Emitted(h, op).e.start = q.e.start /\ Emitted(h, op).e.seg = q.e.seg
         /\ Emitted(h, op).w.ind = q.w.ind /\ Emitted(h, op).w.len = q.w.len /\ Emitted(h, op).w.pos = q.w.pos
         /\ \E t \in Seq(Nat) : /\ Emitted(h, op).text = q.text \o t
                               /\ Emitted(h, op).w.size = q.w.size + Len(t)
         /\ Len(InstBytes(Emitted(h, op).w.prog)) = Len(InstBytes(q.w.prog)) + 1 + Len(h.sizes)
<1> DEFINE g == Emitted(h, op)
           win == RoomOf(q)
           b == InstBytes(q.w.prog)
           n == Len(q.w.prog)
<1>1. PICK t, D, S, A, near, next, same : OpcodeBy(q, h, op, t, D, S, A, near, next, same)
  BY DEF OpcodeOK
<1>2. /\ Bytes4(t, D, S, A) /\ h = Written(q, t, D, S, A, near, next, same)
      /\ \A x \in Seq(Nat), y \in Seq(Nat), z \in Seq(Nat) :
           Opcode(StateOf(q, D \o x, <<op>> \o (S \o y), A \o z), win) = StateOf(h, x, y, z)
  BY <1>1 DEF OpcodeBy
<1>3. t \in Seq(Nat) /\ D \in Seq(Nat) /\ S \in Seq(Nat) /\ A \in Seq(Nat)
  BY <1>2 DEF Bytes4
<1>4. /\ q.text \in Seq(Nat) /\ q.w.data \in Seq(Nat) /\ q.w.addr \in Seq(Nat)
      /\ q.e.start \in 0 .. Len(q.text)
  BY DEF Fit
<1>5. /\ h.text = q.text \o t /\ h.sizes = S /\ h.e.start = q.e.start /\ h.e.seg = q.e.seg
      /\ RoomOf(h) = win
      /\ h.w = WinOf(q.w.ind, q.w.len, q.w.pos, q.w.size + Len(t), q.w.prog, q.w.data \o D, q.w.addr \o A)
  <2>1. /\ h.text = q.text \o t /\ h.sizes = q.sizes \o S
        /\ h.w = WinOf(q.w.ind, q.w.len, q.w.pos, q.w.size + Len(t), q.w.prog, q.w.data \o D, q.w.addr \o A)
    <3>1. WrittenAs(q, h, t, D, S, A)
      BY <1>2, WrittenText
    <3>2. QED
      BY <3>1 DEF WrittenAs
  <2>2. h.e.start = q.e.start /\ h.e.seg = q.e.seg /\ RoomOf(h) = win
    BY <1>2, WrittenRoom
  <2>3. q.sizes \o S = S
    BY <1>3, EmptyBefore
  <2>4. QED
    BY <2>1, <2>2, <2>3
<1>6. /\ h.w.prog = q.w.prog /\ h.w.data = q.w.data \o D /\ h.w.addr = q.w.addr \o A
      /\ h.w.ind = q.w.ind /\ h.w.len = q.w.len /\ h.w.pos = q.w.pos /\ h.w.size = q.w.size + Len(t)
  <2> DEFINE k == q.w.size + Len(t)
             d == q.w.data \o D
             a == q.w.addr \o A
  <2>1. h.w = WinOf(q.w.ind, q.w.len, q.w.pos, k, q.w.prog, d, a)
    BY <1>5
  <2> HIDE DEF k, d, a
  <2>2. /\ h.w.prog = q.w.prog /\ h.w.data = d /\ h.w.addr = a
        /\ h.w.ind = q.w.ind /\ h.w.len = q.w.len /\ h.w.pos = q.w.pos /\ h.w.size = k
    BY <2>1, WinParts
  <2>3. QED
    BY <2>2 DEF k, d, a
<1> DEFINE s == [op |-> op, sizes |-> S]
           p == Append(q.w.prog, s)
<1>7. s \in ProgStep
  BY <1>3 DEF ProgStep
<1>8. /\ g.e = h.e /\ g.text = h.text
      /\ g.w = WinOf(h.w.ind, h.w.len, h.w.pos, h.w.size, Append(h.w.prog, [op |-> op, sizes |-> h.sizes]), h.w.data, h.w.addr)
  BY EmittedParts
<1>9. /\ g.w.ind = h.w.ind /\ g.w.len = h.w.len /\ g.w.pos = h.w.pos /\ g.w.size = h.w.size
      /\ g.w.prog = Append(h.w.prog, [op |-> op, sizes |-> h.sizes]) /\ g.w.data = h.w.data /\ g.w.addr = h.w.addr
  <2> DEFINE u == Append(h.w.prog, [op |-> op, sizes |-> h.sizes])
  <2>1. g.w = WinOf(h.w.ind, h.w.len, h.w.pos, h.w.size, u, h.w.data, h.w.addr)
    BY <1>8
  <2> HIDE DEF g, u
  <2>2. /\ g.w.ind = h.w.ind /\ g.w.len = h.w.len /\ g.w.pos = h.w.pos /\ g.w.size = h.w.size
        /\ g.w.prog = u /\ g.w.data = h.w.data /\ g.w.addr = h.w.addr
    BY <2>1, WinParts
  <2>3. QED
    BY <2>2 DEF u
<1>10. g.w.prog = p
  BY <1>5, <1>6, <1>9
<1>11. p \in Seq(ProgStep) /\ Len(p) = n + 1 /\ n \in Nat
  <2> HIDE DEF s
  <2>1. QED
    BY <1>7, AppendProperties
<1>12. InstBytes(p) = b \o (<<op>> \o S)
  <2>1. InstBytes(p) = b \o StepBytes(s)
    <3> HIDE DEF s
    <3>1. QED
      BY <1>7, InstBytesMore
  <2>2. StepBytes(s) = <<op>> \o S
    BY DEF StepBytes
  <2> HIDE DEF s, p, b
  <2>3. QED
    BY <2>1, <2>2
<1>13. b \in Seq(Nat)
  BY InstBytesType
<1>14. <<op>> \o S \in Seq(Nat) /\ Len(<<op>> \o S) = Len(S) + 1
  BY <1>3, FirstOf
<1>15. Len(InstBytes(p)) = Len(b) + 1 + Len(S)
  <2> DEFINE v == <<op>> \o S
  <2>1. InstBytes(p) = b \o v /\ v \in Seq(Nat) /\ Len(v) = Len(S) + 1 /\ Len(S) \in Nat
    <3>1. Len(S) \in Nat
      BY <1>3
    <3>2. QED
      BY <1>12, <1>14, <3>1
  <2> HIDE DEF v, b, p
  <2>2. Len(b \o v) = Len(b) + Len(v) /\ Len(b) \in Nat
    BY <1>13, <2>1, Longer
  <2>3. QED
    BY <2>1, <2>2
<1>16. SubSeq(g.text, 1, g.e.start) = SubSeq(q.text, 1, q.e.start)
  <2>1. SubSeq(q.text \o t, 1, q.e.start) = SubSeq(q.text, 1, q.e.start)
    BY <1>3, <1>4, PrefixOfConcat
  <2>2. g.text = q.text \o t /\ g.e.start = q.e.start
    BY <1>5, <1>8
  <2> HIDE DEF g
  <2>3. QED
    BY <2>1, <2>2
<1>17. ASSUME NEW x \in Seq(Nat), NEW y \in Seq(Nat), NEW z \in Seq(Nat)
       PROVE  OpcodesRun(FreshState(SubSeq(g.text, 1, g.e.start), g.w.data \o x, InstBytes(g.w.prog) \o y, g.w.addr \o z),
                         Len(g.w.prog), RoomOf(g)) = StateOf(g, x, y, z)
  <2> DEFINE X == D \o x
             Y == <<op>> \o (S \o y)
             Z == A \o z
             o == SubSeq(q.text, 1, q.e.start)
             f == FreshState(o, q.w.data \o X, b \o Y, q.w.addr \o Z)
  <2>1. X \in Seq(Nat) /\ Y \in Seq(Nat) /\ Z \in Seq(Nat)
    <3>1. X \in Seq(Nat)
      BY <1>3, Longer
    <3>2. S \o y \in Seq(Nat)
      BY <1>3, Longer
    <3>3. Y \in Seq(Nat)
      <4> DEFINE v == S \o y
      <4>1. v \in Seq(Nat) /\ op \in Nat
        BY <3>2
      <4> HIDE DEF v
      <4>2. <<op>> \o v \in Seq(Nat)
        BY <4>1, FirstOf
      <4>3. QED
        BY <4>2 DEF v
    <3>4. Z \in Seq(Nat)
      BY <1>3, Longer
    <3>5. QED
      BY <3>1, <3>3, <3>4
  <2>2. g.w.data \o x = q.w.data \o X
    <3>1. Bytes3(q.w.data, D, x)
      BY <1>3, <1>4 DEF Bytes3
    <3>2. (q.w.data \o D) \o x = q.w.data \o (D \o x)
      <4>1. Regroup(q.w.data, D, x)
        BY <3>1, Regrouped
      <4>2. QED
        BY <4>1 DEF Regroup
    <3>3. g.w.data = q.w.data \o D
      BY <1>6, <1>9
    <3> HIDE DEF g
    <3>4. QED
      BY <3>2, <3>3
  <2>3. g.w.addr \o z = q.w.addr \o Z
    <3>1. Bytes3(q.w.addr, A, z)
      BY <1>3, <1>4 DEF Bytes3
    <3>2. (q.w.addr \o A) \o z = q.w.addr \o (A \o z)
      <4>1. Regroup(q.w.addr, A, z)
        BY <3>1, Regrouped
      <4>2. QED
        BY <4>1 DEF Regroup
    <3>3. g.w.addr = q.w.addr \o A
      BY <1>6, <1>9
    <3> HIDE DEF g
    <3>4. QED
      BY <3>2, <3>3
  <2>4. InstBytes(g.w.prog) \o y = b \o Y
    <3> DEFINE u == <<op>>
               v == u \o S
    <3>1. u \in Seq(Nat) /\ v \in Seq(Nat)
      BY <1>14
    <3>2. InstBytes(g.w.prog) = b \o v
      BY <1>10, <1>12
    <3> HIDE DEF u
    <3>3. v \o y = u \o (S \o y)
      <4>1. Bytes3(u, S, y)
        BY <1>3, <3>1 DEF Bytes3
      <4>2. Regroup(u, S, y)
        BY <4>1, Regrouped
      <4>3. QED
        BY <4>2, Zenon DEF Regroup
    <3> HIDE DEF v, b
    <3>4. (b \o v) \o y = b \o (v \o y)
      <4>1. Bytes3(b, v, y)
        BY <1>13, <3>1 DEF Bytes3
      <4>2. QED
        <5>1. Regroup(b, v, y)
          BY <4>1, Regrouped
        <5>2. QED
          BY <5>1 DEF Regroup
    <3>5. InstBytes(g.w.prog) \o y = b \o (u \o (S \o y))
      BY <3>2, <3>3, <3>4
    <3>6. QED
      BY <3>5 DEF u
  <2>5. OpcodesRun(f, n, win) = StateOf(q, X, Y, Z)
    <3> HIDE DEF X, Y, Z
    <3>1. QED
      BY <2>1 DEF OpenReads
  <2>6. OpcodesRun(f, n + 1, win) = Opcode(OpcodesRun(f, n, win), win)
    <3> HIDE DEF f, win, n
    <3>1. QED
      BY <1>11, OpcodeLoop
  <2>7. Opcode(StateOf(q, X, Y, Z), win) = StateOf(h, x, y, z)
    BY <1>2
  <2>8. StateOf(h, x, y, z) = StateOf(g, x, y, z)
    BY <1>8 DEF StateOf
  <2>9. RoomOf(g) = win
    BY <1>5, <1>8 DEF RoomOf
  <2>10. FreshState(SubSeq(g.text, 1, g.e.start), g.w.data \o x, InstBytes(g.w.prog) \o y, g.w.addr \o z) = f
    <3> HIDE DEF g, X, Y, Z, b
    <3>1. QED
      BY <1>16, <2>2, <2>3, <2>4
  <2>11. Len(g.w.prog) = n + 1
    BY <1>10, <1>11
  <2> HIDE DEF g, f, X, Y, Z, win, n, b
  <2>12. QED
    BY <2>5, <2>6, <2>7, <2>8, <2>9, <2>10, <2>11
<1>18. OpenReads(g)
  <2> HIDE DEF g
  <2>1. QED
    BY <1>17 DEF OpenReads
<1> HIDE DEF g, s, p, b
<1>19. /\ g.w.prog \in Seq(ProgStep) /\ g.e.start = q.e.start /\ g.e.seg = q.e.seg
       /\ g.w.ind = q.w.ind /\ g.w.len = q.w.len /\ g.w.pos = q.w.pos
       /\ g.text = q.text \o t /\ g.w.size = q.w.size + Len(t)
       /\ Len(InstBytes(g.w.prog)) = Len(b) + 1 + Len(h.sizes)
  BY <1>5, <1>6, <1>8, <1>9, <1>10, <1>11, <1>15
<1>20. QED
  BY <1>3, <1>18, <1>19 DEF g, b

-----------------------------------------------------------------------------
(* The loops idle when nothing is left or an error is met.                 *)

LEMMA OpcodesIdle ==
  ASSUME NEW d, NEW win, NEW n \in Nat, NEW j \in Nat, OpcodesRun(d, n, win).inst = <<>>
  PROVE  OpcodesRun(d, n + j, win) = OpcodesRun(d, n, win)
<1> DEFINE e == OpcodesRun(d, n, win)
           T == {k \in Nat : OpcodesRun(d, n + k, win) = e}
<1>1. 0 \in T
  BY n + 0 = n
<1>2. ASSUME NEW k \in Nat, k \in T PROVE k + 1 \in T
  <2>1. OpcodesRun(d, (n + k) + 1, win) = Opcode(OpcodesRun(d, n + k, win), win)
    <3> DEFINE m == n + k
    <3>1. m \in Nat
      OBVIOUS
    <3> HIDE DEF m
    <3>2. OpcodesRun(d, m + 1, win) = Opcode(OpcodesRun(d, m, win), win)
      BY <3>1, OpcodeLoop
    <3>3. QED
      BY <3>2 DEF m
  <2>2. Opcode(e, win) = e
    BY Zenon DEF Opcode
  <2>3. OpcodesRun(d, n + k, win) = e /\ n + (k + 1) = (n + k) + 1
    BY <1>2
  <2> HIDE DEF e
  <2>4. OpcodesRun(d, n + (k + 1), win) = e
    BY <2>1, <2>2, <2>3
  <2>5. QED
    BY <2>4
<1> HIDE DEF T
<1>3. j \in T
  BY <1>1, <1>2, NatInduct
<1>4. QED
  BY <1>3 DEF T

LEMMA WindowsIdle ==
  ASSUME NEW r, NEW n \in Nat, NEW j \in Nat,
         WindowsRun(r, n).err # "OK" \/ WindowsRun(r, n).rest = <<>>
  PROVE  WindowsRun(r, n + j) = WindowsRun(r, n)
<1> DEFINE e == WindowsRun(r, n)
           T == {k \in Nat : WindowsRun(r, n + k) = e}
<1>1. 0 \in T
  BY n + 0 = n
<1>2. ASSUME NEW k \in Nat, k \in T PROVE k + 1 \in T
  <2>1. WindowsRun(r, (n + k) + 1) = NextWindow(WindowsRun(r, n + k))
    <3> DEFINE m == n + k
    <3>1. m \in Nat
      OBVIOUS
    <3> HIDE DEF m
    <3>2. WindowsRun(r, m + 1) = NextWindow(WindowsRun(r, m))
      BY <3>1, WindowLoop
    <3>3. QED
      BY <3>2 DEF m
  <2>2. NextWindow(e) = e
    BY Zenon DEF NextWindow
  <2>3. WindowsRun(r, n + k) = e /\ n + (k + 1) = (n + k) + 1
    BY <1>2
  <2> HIDE DEF e
  <2>4. WindowsRun(r, n + (k + 1)) = e
    BY <2>1, <2>2, <2>3
  <2>5. QED
    BY <2>4
<1> HIDE DEF T
<1>3. j \in T
  BY <1>1, <1>2, NatInduct
<1>4. QED
  BY <1>3 DEF T

-----------------------------------------------------------------------------
(* The sections of a window.                                               *)

LEMMA OpenRuns ==
  ASSUME NEW q, Fit(q), OpenReads(q), q.w.prog \in Seq(ProgStep)
  PROVE  Run(FreshState(SubSeq(q.text, 1, q.e.start), q.w.data, InstBytes(q.w.prog), q.w.addr), RoomOf(q))
           = StateOf(q, <<>>, <<>>, <<>>)
<1> DEFINE b == InstBytes(q.w.prog)
           n == Len(q.w.prog)
           o == SubSeq(q.text, 1, q.e.start)
           win == RoomOf(q)
           d == FreshState(o, q.w.data, b, q.w.addr)
           e == StateOf(q, <<>>, <<>>, <<>>)
<1>1. <<>> \in Seq(Nat) /\ q.w.data \in Seq(Nat) /\ q.w.addr \in Seq(Nat)
  BY EmptySeq DEF Fit
<1>2. b \in Seq(Nat) /\ Len(b) >= n /\ n \in Nat /\ Len(b) \in Nat
  <2>1. b \in Seq(Nat) /\ Len(b) >= n
    BY InstBytesType
  <2>2. QED
    BY <2>1
<1> HIDE DEF b
<1>3. q.w.data \o <<>> = q.w.data /\ q.w.addr \o <<>> = q.w.addr /\ b \o <<>> = b
  BY <1>1, <1>2, ConcatEmptySeq
<1>4. OpcodesRun(FreshState(o, q.w.data \o <<>>, b \o <<>>, q.w.addr \o <<>>), n, win) = e
  BY <1>1 DEF OpenReads, b
<1>5. OpcodesRun(d, n, win) = e
  BY <1>3, <1>4
<1>6. e.inst = <<>> /\ d.inst = b
  BY DEF StateOf, Reached, FreshState
<1> HIDE DEF d, e, n, win
<1>7. Len(b) - n \in Nat /\ n + (Len(b) - n) = Len(b)
  BY <1>2
<1>8. OpcodesRun(d, n + (Len(b) - n), win) = OpcodesRun(d, n, win)
  BY <1>2, <1>5, <1>6, <1>7, OpcodesIdle
<1>9. OpcodesRun(d, Len(b), win) = e
  BY <1>5, <1>7, <1>8
<1>10. Run(d, win) = e
  BY <1>6, <1>9 DEF Run
<1>11. QED
  BY <1>10 DEF d, e, b, win

Joined(u, x, y) ==
  /\ u \in Seq(Nat) /\ Len(u) = Len(x) + Len(y)
  /\ \A i \in 1 .. Len(x) : u[i] = x[i]
  /\ \A i \in 1 .. Len(y) : u[Len(x) + i] = y[i]

LEMMA JoinedOf ==
  ASSUME NEW x \in Seq(Nat), NEW y \in Seq(Nat)
  PROVE  Joined(x \o y, x, y)
<1> DEFINE u == x \o y
<1>1. /\ u \in Seq(Nat) /\ Len(u) = Len(x) + Len(y)
      /\ \A i \in 1 .. Len(x) + Len(y) : u[i] = IF i <= Len(x) THEN x[i] ELSE y[i - Len(x)]
  BY ConcatProperties
<1>2. Len(x) \in Nat /\ Len(y) \in Nat
  OBVIOUS
<1> HIDE DEF u
<1>3. \A i \in 1 .. Len(x) : u[i] = x[i]
  BY <1>1, <1>2
<1>4. \A i \in 1 .. Len(y) : u[Len(x) + i] = y[i]
  <2> DEFINE k == Len(x)
             n == Len(y)
  <2>1. k \in Nat /\ n \in Nat /\ \A i \in 1 .. k + n : u[i] = IF i <= k THEN x[i] ELSE y[i - k]
    BY <1>1, <1>2
  <2> HIDE DEF k, n
  <2>2. ASSUME NEW i \in 1 .. n PROVE u[k + i] = y[i]
    <3>1. k + i \in 1 .. k + n /\ ~(k + i <= k) /\ (k + i) - k = i
      BY <2>1
    <3>2. QED
      BY <2>1, <3>1
  <2>3. \A i \in 1 .. n : u[k + i] = y[i]
    BY <2>2
  <2>4. QED
    BY <2>3 DEF k, n
<1>5. QED
  BY <1>1, <1>3, <1>4 DEF Joined, u

LEMMA SliceIs ==
  ASSUME NEW u \in Seq(Nat), NEW k \in Nat, NEW n \in Nat, k + n <= Len(u)
  PROVE  /\ SubSeq(u, k + 1, k + n) \in Seq(Nat) /\ Len(SubSeq(u, k + 1, k + n)) = n
         /\ \A i \in 1 .. n : SubSeq(u, k + 1, k + n)[i] = u[k + i]
<1>1. k + 1 \in Int /\ k + n \in Int /\ Len(u) \in Nat
  OBVIOUS
<1>2. \A i \in k + 1 .. k + n : u[i] \in Nat
  <2>1. TAKE i \in k + 1 .. k + n
  <2>2. i \in 1 .. Len(u)
    BY <1>1
  <2>3. QED
    BY <2>2, ElementOfSeq
<1>3. /\ SubSeq(u, k + 1, k + n) \in Seq(Nat)
      /\ Len(SubSeq(u, k + 1, k + n)) = IF k + 1 <= k + n THEN (k + n) - (k + 1) + 1 ELSE 0
      /\ \A i \in 1 .. (k + n) - (k + 1) + 1 : SubSeq(u, k + 1, k + n)[i] = u[(k + 1) + i - 1]
  BY <1>1, <1>2, SubSeqProperties
<1>4. /\ (k + n) - (k + 1) + 1 = n
      /\ ~(k + 1 <= k + n) => n = 0
      /\ \A i \in 1 .. n : (k + 1) + i - 1 = k + i
  OBVIOUS
<1>5. QED
  BY <1>3, <1>4

LEMMA MiddleOf ==
  ASSUME NEW x \in Seq(Nat), NEW y \in Seq(Nat), NEW z \in Seq(Nat)
  PROVE  SubSeq(x \o (y \o z), Len(x) + 1, Len(x) + Len(y)) = y
<1> DEFINE v == y \o z
           u == x \o v
           a == SubSeq(u, Len(x) + 1, Len(x) + Len(y))
<1>1. Joined(v, y, z)
  BY JoinedOf
<1>2. v \in Seq(Nat) /\ Len(v) = Len(y) + Len(z) /\ \A i \in 1 .. Len(y) : v[i] = y[i]
  BY <1>1 DEF Joined
<1> HIDE DEF v
<1>3. Joined(u, x, v)
  BY <1>2, JoinedOf
<1> HIDE DEF u
<1>4. u \in Seq(Nat) /\ Len(u) = Len(x) + Len(v) /\ \A i \in 1 .. Len(v) : u[Len(x) + i] = v[i]
  BY <1>3 DEF Joined
<1>5. Len(x) \in Nat /\ Len(y) \in Nat /\ Len(z) \in Nat
  OBVIOUS
<1> DEFINE k == Len(x)
           n == Len(y)
           m == Len(z)
<1>6. k \in Nat /\ n \in Nat /\ m \in Nat /\ Len(v) = n + m /\ Len(u) = k + Len(v)
  BY <1>2, <1>4, <1>5
<1>7. /\ \A i \in 1 .. n : v[i] = y[i]
      /\ \A i \in 1 .. Len(v) : u[k + i] = v[i]
  BY <1>2, <1>4
<1> HIDE DEF k, n, m
<1>8. \A i \in 1 .. n : u[k + i] = y[i]
  BY <1>6, <1>7
<1>9. k + n <= Len(u)
  BY <1>6
<1> DEFINE c == SubSeq(u, k + 1, k + n)
<1>10. c \in Seq(Nat) /\ Len(c) = n /\ \A i \in 1 .. n : c[i] = u[k + i]
  BY <1>4, <1>6, <1>9, SliceIs
<1> HIDE DEF c
<1>11. \A i \in 1 .. n : c[i] = y[i]
  BY <1>8, <1>10
<1>12. Len(y) = n
  BY DEF n
<1>13. c = y
  BY <1>6, <1>10, <1>11, <1>12, SeqEqual
<1>14. QED
  BY <1>13 DEF c, k, n, u, v

LEMMA FirstPart ==
  ASSUME NEW x \in Seq(Nat), NEW y \in Seq(Nat)
  PROVE  SubSeq(x \o y, 1, Len(x)) = x
<1>1. Len(x) \in Nat /\ Len(x) \in 0 .. Len(x)
  OBVIOUS
<1>2. SubSeq(x \o y, 1, Len(x)) = SubSeq(x, 1, Len(x))
  BY <1>1, PrefixOfConcat
<1>3. SubSeq(x, 1, Len(x)) = x
  OBVIOUS
<1>4. QED
  BY <1>2, <1>3

\* The three sections, taken apart by their lengths.
Parts(u, x, y, z) ==
  /\ u = x \o (y \o z) /\ u \in Seq(Nat) /\ Len(u) = Len(x) + Len(y) + Len(z)
  /\ SubSeq(u, 1, Len(x)) = x
  /\ SubSeq(u, Len(x) + 1, Len(x) + Len(y)) = y
  /\ SubSeq(u, Len(x) + Len(y) + 1, Len(x) + Len(y) + Len(z)) = z

LEMMA PartsOf ==
  ASSUME NEW x \in Seq(Nat), NEW y \in Seq(Nat), NEW z \in Seq(Nat)
  PROVE  Parts(x \o (y \o z), x, y, z)
<1> DEFINE v == y \o z
           p == x \o y
           u == x \o v
<1>1. v \in Seq(Nat) /\ Len(v) = Len(y) + Len(z) /\ Len(y) \in Nat /\ Len(z) \in Nat
  BY Longer
<1>2. p \in Seq(Nat) /\ Len(p) = Len(x) + Len(y) /\ Len(x) \in Nat
  BY Longer
<1>3. u = p \o z
  BY Associated
<1>4. SubSeq(u, Len(x) + 1, Len(x) + Len(y)) = y
  BY MiddleOf
<1> HIDE DEF v
<1>5. SubSeq(u, 1, Len(x)) = x /\ u \in Seq(Nat) /\ Len(u) = Len(x) + Len(v)
  BY <1>1, FirstPart, Longer
<1> HIDE DEF p, u
<1>6. SubSeq(u, Len(p) + 1, Len(p) + Len(z)) = z
  <2>1. z \o <<>> = z /\ <<>> \in Seq(Nat)
    BY ConcatEmptySeq, EmptySeq
  <2>2. SubSeq(p \o (z \o <<>>), Len(p) + 1, Len(p) + Len(z)) = z
    BY <1>2, <2>1, MiddleOf
  <2>3. QED
    BY <1>3, <2>1, <2>2
<1>7. u = x \o (y \o z)
  BY DEF u, v
<1>8. Len(u) = Len(x) + Len(y) + Len(z)
  BY <1>1, <1>2, <1>5
<1>9. SubSeq(u, Len(x) + Len(y) + 1, Len(x) + Len(y) + Len(z)) = z
  BY <1>2, <1>6
<1>10. u = x \o (y \o z) /\ Parts(u, x, y, z)
  BY <1>4, <1>5, <1>7, <1>8, <1>9 DEF Parts
<1>11. QED
  BY <1>10

LEMMA SectionsRead ==
  ASSUME NEW q, Fit(q), OpenReads(q), q.w.prog \in Seq(ProgStep), Len(q.text) <= Capacity,
         q.w.size = Len(q.text) - q.e.start, NEW lens,
         lens.ok, lens.rest = q.w.data \o (InstBytes(q.w.prog) \o q.w.addr),
         NEW v, v[1] = Len(q.w.data), v[2] = Len(InstBytes(q.w.prog)), v[3] = Len(q.w.addr)
  PROVE  RunSections(q.w.size, lens, v, SubSeq(q.text, 1, q.e.start), RoomOf(q)) = Copying(q.text)
<1> DEFINE b == InstBytes(q.w.prog)
           o == SubSeq(q.text, 1, q.e.start)
           win == RoomOf(q)
           d == FreshState(o, q.w.data, b, q.w.addr)
           e == StateOf(q, <<>>, <<>>, <<>>)
           u == lens.rest
<1>1. q.w.data \in Seq(Nat) /\ q.w.addr \in Seq(Nat) /\ q.text \in Seq(Nat) /\ q.e.start \in 0 .. Len(q.text)
  BY DEF Fit
<1>2. b \in Seq(Nat)
  BY InstBytesType
<1>3. Parts(q.w.data \o (b \o q.w.addr), q.w.data, b, q.w.addr)
  BY <1>1, <1>2, PartsOf
<1>4. Parts(u, q.w.data, b, q.w.addr)
  BY <1>3
<1>5. Run(d, win) = e
  BY OpenRuns
<1>6. e.err = "OK" /\ e.out = q.text
  BY DEF StateOf, Reached
<1>7. win.start = q.e.start /\ win.cap = Capacity
  BY DEF RoomOf, WindowOf
<1>8. o \in Seq(Nat) /\ Len(o) = q.e.start
  <2> DEFINE t == q.text
             k == q.e.start
  <2>1. t \in Seq(Nat) /\ k \in 0 .. Len(t)
    BY <1>1
  <2> HIDE DEF t, k
  <2>2. SubSeq(t, 1, k) \in Seq(Nat) /\ Len(SubSeq(t, 1, k)) = k
    BY <2>1
  <2>3. QED
    BY <2>2 DEF t, k
<1> HIDE DEF b, o, win, e, u
<1>9. /\ Len(u) = v[1] + v[2] + v[3]
      /\ SubSeq(u, 1, v[1]) = q.w.data
      /\ SubSeq(u, v[1] + 1, v[1] + v[2]) = b
      /\ SubSeq(u, v[1] + v[2] + 1, v[1] + v[2] + v[3]) = q.w.addr
  BY <1>4 DEF Parts, b
<1>10. Len(u) \in Nat /\ ~(Len(u) < v[1] + v[2] + v[3])
  <2> DEFINE k == v[1] + v[2] + v[3]
  <2>1. Len(u) = k
    BY <1>9
  <2>2. u \in Seq(Nat)
    BY <1>4 DEF Parts
  <2> HIDE DEF k
  <2>3. Len(u) \in Nat /\ ~(Len(u) < k)
    BY <2>1, <2>2
  <2>4. QED
    BY <2>3 DEF k
<1>11. ~(Len(o) + q.w.size > win.cap)
  <2>1. Len(q.text) \in Nat /\ Capacity \in Nat
    BY <1>1, VcdiffAssumption
  <2>2. QED
    BY <1>1, <1>7, <1>8, <2>1
<1>12. ~(Len(e.out) - win.start # q.w.size)
  BY <1>6, <1>7
<1>13. d = [err |-> "OK", out |-> o, data |-> q.w.data, inst |-> b, addr |-> q.w.addr,
           near |-> [i \in 0 .. S_NEAR - 1 |-> 0], next |-> 0, same |-> << >>]
  BY DEF FreshState, Reached
<1>14. RunSections(q.w.size, lens, v, o, win) = [err |-> "OK", out |-> e.out]
  <2> DEFINE x == SubSeq(u, 1, v[1])
             y == SubSeq(u, v[1] + 1, v[1] + v[2])
             z == SubSeq(u, v[1] + v[2] + 1, v[1] + v[2] + v[3])
             c == [err |-> "OK", out |-> o, data |-> x, inst |-> y, addr |-> z,
                   near |-> [i \in 0 .. S_NEAR - 1 |-> 0], next |-> 0, same |-> << >>]
  <2>1. RunSections(q.w.size, lens, v, o, win) =
          IF Run(c, win).err # "OK" THEN Failed(Run(c, win).err)
          ELSE IF Len(Run(c, win).out) - win.start # q.w.size THEN Failed("INVALID")
          ELSE [err |-> "OK", out |-> Run(c, win).out]
    <3>1. ~(~lens.ok \/ Len(lens.rest) < v[1] + v[2] + v[3])
      BY <1>10 DEF u
    <3>2. QED
      BY <1>11, <3>1, Zenon DEF RunSections, u
  <2>2. c = d
    <3>1. x = q.w.data /\ y = b /\ z = q.w.addr
      BY <1>9
    <3> HIDE DEF x, y, z, d
    <3>2. QED
      BY <1>13, <3>1
  <2> HIDE DEF c, d
  <2>3. Run(c, win) = e
    BY <1>5, <2>2
  <2>4. QED
    BY <1>6, <1>12, <2>1, <2>3
<1>15. QED
  BY <1>6, <1>14 DEF Copying, o, win

-----------------------------------------------------------------------------
(* Bytes put together.                                                     *)

IsBytes(x) == x \in Seq(Nat)

LEMMA MoreBytes ==
  ASSUME NEW x, NEW y, IsBytes(x), IsBytes(y)
  PROVE  IsBytes(x \o y)
BY Longer DEF IsBytes

LEMMA GroupedBytes ==
  ASSUME NEW x, NEW y, NEW z, IsBytes(x), IsBytes(y), IsBytes(z)
  PROVE  Regroup(x, y, z)
BY Regrouped DEF IsBytes, Bytes3

EightRow(a, b, c, d, e, f, g, h) ==
  ((((((a \o b) \o c) \o d) \o e) \o f) \o g) \o h
    = a \o (b \o (c \o (d \o (e \o (f \o (g \o h))))))

LEMMA EightParts ==
  ASSUME NEW a, NEW b, NEW c, NEW d, NEW e, NEW f, NEW g, NEW h,
         IsBytes(a), IsBytes(b), IsBytes(c), IsBytes(d), IsBytes(e), IsBytes(f), IsBytes(g), IsBytes(h)
  PROVE  EightRow(a, b, c, d, e, f, g, h)
<1> DEFINE p1 == a \o b
           p2 == p1 \o c
           p3 == p2 \o d
           p4 == p3 \o e
           p5 == p4 \o f
           p6 == p5 \o g
           s6 == g \o h
           s5 == f \o s6
           s4 == e \o s5
           s3 == d \o s4
           s2 == c \o s3
           s1 == b \o s2
<1>1. IsBytes(p1) /\ IsBytes(p2) /\ IsBytes(p3) /\ IsBytes(p4) /\ IsBytes(p5) /\ IsBytes(p6)
  BY MoreBytes
<1>2. IsBytes(s1) /\ IsBytes(s2) /\ IsBytes(s3) /\ IsBytes(s4) /\ IsBytes(s5) /\ IsBytes(s6)
  BY MoreBytes
<1>3. p6 \o h = p5 \o s6
  <2> HIDE DEF p5
  <2>1. Regroup(p5, g, h)
    BY <1>1, <1>2, GroupedBytes
  <2>2. QED
    BY <2>1 DEF Regroup
<1>4. p5 \o s6 = p4 \o s5
  <2> HIDE DEF p4, s6
  <2>1. Regroup(p4, f, s6)
    BY <1>1, <1>2, GroupedBytes
  <2>2. QED
    BY <2>1 DEF Regroup
<1>5. p4 \o s5 = p3 \o s4
  <2> HIDE DEF p3, s5
  <2>1. Regroup(p3, e, s5)
    BY <1>1, <1>2, GroupedBytes
  <2>2. QED
    BY <2>1 DEF Regroup
<1>6. p3 \o s4 = p2 \o s3
  <2> HIDE DEF p2, s4
  <2>1. Regroup(p2, d, s4)
    BY <1>1, <1>2, GroupedBytes
  <2>2. QED
    BY <2>1 DEF Regroup
<1>7. p2 \o s3 = p1 \o s2
  <2> HIDE DEF p1, s3
  <2>1. Regroup(p1, c, s3)
    BY <1>1, <1>2, GroupedBytes
  <2>2. QED
    BY <2>1 DEF Regroup
<1>8. p1 \o s2 = a \o s1
  <2> HIDE DEF s2
  <2>1. Regroup(a, b, s2)
    BY <1>1, <1>2, GroupedBytes
  <2>2. QED
    BY <2>1 DEF Regroup
<1> HIDE DEF p1, p2, p3, p4, p5, p6, s1, s2, s3, s4, s5, s6
<1>9. p6 \o h = a \o s1
  BY <1>3, <1>4, <1>5, <1>6, <1>7, <1>8
<1>10. QED
  BY <1>9 DEF EightRow, p1, p2, p3, p4, p5, p6, s1, s2, s3, s4, s5, s6

SixRow(a, b, c, d, e, f) ==
  ((((a \o b) \o c) \o d) \o e) \o f
    = a \o (b \o (c \o (d \o (e \o f))))

LEMMA SixParts ==
  ASSUME NEW a, NEW b, NEW c, NEW d, NEW e, NEW f,
         IsBytes(a), IsBytes(b), IsBytes(c), IsBytes(d), IsBytes(e), IsBytes(f)
  PROVE  SixRow(a, b, c, d, e, f)
<1> DEFINE p1 == a \o b
           p2 == p1 \o c
           p3 == p2 \o d
           p4 == p3 \o e
           s4 == e \o f
           s3 == d \o s4
           s2 == c \o s3
           s1 == b \o s2
<1>1. IsBytes(p1) /\ IsBytes(p2) /\ IsBytes(p3) /\ IsBytes(p4)
  BY MoreBytes
<1>2. IsBytes(s1) /\ IsBytes(s2) /\ IsBytes(s3) /\ IsBytes(s4)
  BY MoreBytes
<1>3. p4 \o f = p3 \o s4
  <2> HIDE DEF p3
  <2>1. Regroup(p3, e, f)
    BY <1>1, <1>2, GroupedBytes
  <2>2. QED
    BY <2>1 DEF Regroup
<1>4. p3 \o s4 = p2 \o s3
  <2> HIDE DEF p2, s4
  <2>1. Regroup(p2, d, s4)
    BY <1>1, <1>2, GroupedBytes
  <2>2. QED
    BY <2>1 DEF Regroup
<1>5. p2 \o s3 = p1 \o s2
  <2> HIDE DEF p1, s3
  <2>1. Regroup(p1, c, s3)
    BY <1>1, <1>2, GroupedBytes
  <2>2. QED
    BY <2>1 DEF Regroup
<1>6. p1 \o s2 = a \o s1
  <2> HIDE DEF s2
  <2>1. Regroup(a, b, s2)
    BY <1>1, <1>2, GroupedBytes
  <2>2. QED
    BY <2>1 DEF Regroup
<1> HIDE DEF p1, p2, p3, p4, s1, s2, s3, s4
<1>7. p4 \o f = a \o s1
  BY <1>3, <1>4, <1>5, <1>6
<1>8. QED
  BY <1>7 DEF SixRow, p1, p2, p3, p4, s1, s2, s3, s4

-----------------------------------------------------------------------------
(* The body of a window.                                                   *)

\* A whole window the encoder may have open, as far as its text goes.
Open(q) ==
  /\ Fit(q) /\ q.sizes = <<>> /\ Len(q.text) <= Capacity /\ OpenReads(q)
  /\ q.w.prog \in Seq(ProgStep) /\ q.w.size = Len(q.text) - q.e.start
  /\ Len(q.w.data) <= MaxSection /\ Len(q.w.addr) <= MaxSection
  /\ Len(InstBytes(q.w.prog)) <= MaxSection

\* A length that is written as an integer.
Short(n) == n \in Nat /\ n < 2 * Pow27

LEMMA OpenLengths ==
  ASSUME NEW q, Open(q)
  PROVE  /\ Short(Len(q.w.data)) /\ Short(Len(q.w.addr)) /\ Short(Len(InstBytes(q.w.prog)))
         /\ Short(q.w.size) /\ IsBytes(q.w.data) /\ IsBytes(q.w.addr) /\ IsBytes(InstBytes(q.w.prog))
         /\ IsBytes(q.text) /\ IsBytes(SubSeq(q.text, 1, q.e.start))
         /\ Len(SubSeq(q.text, 1, q.e.start)) = q.e.start /\ q.e.start \in Nat
<1>1. /\ q.text \in Seq(Nat) /\ q.w.data \in Seq(Nat) /\ q.w.addr \in Seq(Nat)
      /\ q.e.start \in 0 .. Len(q.text) /\ q.w.size = Len(q.text) - q.e.start
      /\ Len(q.w.data) <= MaxSection /\ Len(q.w.addr) <= MaxSection
      /\ Len(InstBytes(q.w.prog)) <= MaxSection /\ Len(q.text) <= Capacity
  BY DEF Open, Fit
<1>2. InstBytes(q.w.prog) \in Seq(Nat)
  BY InstBytesType DEF Open
<1>3. /\ Capacity \in Nat /\ MaxSection \in Nat /\ Len(Source) \in Nat
      /\ Len(Source) + Capacity < Pow27 /\ 4 * MaxSection < Pow27
  BY VcdiffAssumption
<1>4. Pow27 \in Nat
  BY SMT DEF Pow27
<1>5. ASSUME NEW s \in Seq(Nat), Len(s) <= MaxSection
      PROVE  Short(Len(s))
  BY <1>3, <1>4, <1>5 DEF Short
<1>6. Short(q.w.size)
  <2> DEFINE k == Len(q.text)
             m == q.e.start
             c == Len(Source)
  <2>1. k \in Nat /\ m \in 0 .. k /\ q.w.size = k - m /\ k <= Capacity /\ c \in Nat /\ c + Capacity < Pow27
    BY <1>1, <1>3
  <2> HIDE DEF k, m, c
  <2>2. QED
    BY <1>3, <1>4, <2>1 DEF Short
<1>7. /\ SubSeq(q.text, 1, q.e.start) \in Seq(Nat) /\ Len(SubSeq(q.text, 1, q.e.start)) = q.e.start
      /\ q.e.start \in Nat
  <2> DEFINE t == q.text
             k == q.e.start
  <2>1. t \in Seq(Nat) /\ k \in 0 .. Len(t)
    BY <1>1
  <2> HIDE DEF t, k
  <2>2. SubSeq(t, 1, k) \in Seq(Nat) /\ Len(SubSeq(t, 1, k)) = k /\ k \in Nat
    BY <2>1
  <2>3. QED
    BY <2>2 DEF t, k
<1>8. Short(Len(q.w.data)) /\ Short(Len(q.w.addr)) /\ Short(Len(InstBytes(q.w.prog)))
  <2>1. Short(Len(q.w.data))
    BY <1>1, <1>5
  <2>2. Short(Len(q.w.addr))
    BY <1>1, <1>5
  <2>3. Short(Len(InstBytes(q.w.prog)))
    BY <1>1, <1>2, <1>5
  <2>4. QED
    BY <2>1, <2>2, <2>3
<1>9. QED
  BY <1>1, <1>2, <1>6, <1>7, <1>8 DEF IsBytes

LEMMA ShortBytes ==
  ASSUME NEW v, Short(v)
  PROVE  /\ IsBytes(Vint(v)) /\ Len(Vint(v)) \in 1 .. 4
         /\ \A vals, y : IsBytes(y) => ReadInt(Reading(vals, Vint(v) \o y)) = Reading(Append(vals, v), y)
<1>1. v \in Nat /\ v < 2 * Pow27
  BY DEF Short
<1>2. Vint(v) \in Seq(Nat) /\ Len(Vint(v)) \in 1 .. 4
  <2>1. <<>> \in Seq(Nat)
    BY EmptySeq
  <2>2. QED
    BY <1>1, <2>1, ReadVint
<1>3. ASSUME NEW vals, NEW y, IsBytes(y)
      PROVE  ReadInt(Reading(vals, Vint(v) \o y)) = Reading(Append(vals, v), y)
  <2>1. y \in Seq(Nat)
    BY <1>3 DEF IsBytes
  <2>2. QED
    BY <1>1, <2>1, ReadIntWhole
<1>4. QED
  BY <1>2, <1>3 DEF IsBytes

LEMMA ZeroByte ==
  /\ IsBytes(<<0>>)
  /\ \A y : IsBytes(y) => /\ <<0>> \o y # <<>> /\ Head(<<0>> \o y) = 0 /\ Tail(<<0>> \o y) = y
<1>1. <<0>> \in Seq(Nat)
  OBVIOUS
<1>2. ASSUME NEW y, IsBytes(y)
      PROVE  <<0>> \o y # <<>> /\ Head(<<0>> \o y) = 0 /\ Tail(<<0>> \o y) = y
  <2>1. y \in Seq(Nat) /\ 0 \in Nat
    BY <1>2 DEF IsBytes
  <2>2. QED
    BY <2>1, FirstOf
<1>3. QED
  BY <1>1, <1>2 DEF IsBytes

\* The body, with its parts in a row.
BodyParts(w, b) ==
  Vint(w.size) \o (<<0>> \o (Vint(Len(w.data)) \o (Vint(Len(b)) \o (Vint(Len(w.addr)) \o
    (w.data \o (b \o w.addr))))))

LEMMA BodyIs ==
  ASSUME NEW q, Open(q)
  PROVE  /\ Body(q.w, InstBytes(q.w.prog)) = BodyParts(q.w, InstBytes(q.w.prog))
         /\ IsBytes(Body(q.w, InstBytes(q.w.prog)))
<1> DEFINE s1 == Vint(q.w.size)
           s2 == <<0>>
           s3 == Vint(Len(q.w.data))
           s4 == Vint(Len(InstBytes(q.w.prog)))
           s5 == Vint(Len(q.w.addr))
           s6 == q.w.data
           s7 == InstBytes(q.w.prog)
           s8 == q.w.addr
<1>1. IsBytes(s1) /\ IsBytes(s2) /\ IsBytes(s3) /\ IsBytes(s4) /\ IsBytes(s5)
  BY OpenLengths, ShortBytes, ZeroByte
<1>2. IsBytes(s6) /\ IsBytes(s7) /\ IsBytes(s8)
  BY OpenLengths
<1>3. Body(q.w, InstBytes(q.w.prog)) = ((((((s1 \o s2) \o s3) \o s4) \o s5) \o s6) \o s7) \o s8
  BY DEF Body
<1> HIDE DEF s1, s2, s3, s4, s5, s6, s7, s8
<1>4. ((((((s1 \o s2) \o s3) \o s4) \o s5) \o s6) \o s7) \o s8
        = s1 \o (s2 \o (s3 \o (s4 \o (s5 \o (s6 \o (s7 \o s8))))))
  <2>1. EightRow(s1, s2, s3, s4, s5, s6, s7, s8)
    BY <1>1, <1>2, EightParts
  <2>2. QED
    BY <2>1 DEF EightRow
<1>5. IsBytes(((((((s1 \o s2) \o s3) \o s4) \o s5) \o s6) \o s7) \o s8)
  <2>1. IsBytes(((s1 \o s2) \o s3) \o s4)
    BY <1>1, MoreBytes
  <2>2. IsBytes(((((s1 \o s2) \o s3) \o s4) \o s5) \o s6)
    BY <1>1, <1>2, <2>1, MoreBytes
  <2>3. QED
    BY <1>2, <2>2, MoreBytes
<1>6. BodyParts(q.w, InstBytes(q.w.prog)) = s1 \o (s2 \o (s3 \o (s4 \o (s5 \o (s6 \o (s7 \o s8))))))
  BY DEF BodyParts, s1, s2, s3, s4, s5, s6, s7, s8
<1>7. QED
  BY <1>3, <1>4, <1>5, <1>6

LEMMA UnreadIs ==
  ASSUME NEW s
  PROVE  Unread(s) = Reading(<<>>, s)
BY DEF Unread, Reading

LEMMA Appended ==
  ASSUME NEW s \in Seq(Nat), NEW e \in Nat
  PROVE  /\ Append(s, e) \in Seq(Nat) /\ Len(Append(s, e)) = Len(s) + 1
         /\ \A i \in 1 .. Len(s) : Append(s, e)[i] = s[i]
         /\ Append(s, e)[Len(s) + 1] = e
OBVIOUS

LEMMA PairAppended ==
  ASSUME NEW k \in Nat, NEW n \in Nat, NEW m \in Nat
  PROVE  Append(<<>>, k) = <<k>> /\ Append(<<k>>, n) = <<k, n>> /\ Append(<<k, n>>, m) = <<k, n, m>>
<1>1. Append(<<>>, k) = <<k>>
  OBVIOUS
<1>2. Append(<<k>>, n) = <<k, n>>
  <2> DEFINE u == <<k>>
             v == <<k, n>>
  <2>1. u \in Seq(Nat) /\ Len(u) = 1 /\ u[1] = k
    OBVIOUS
  <2>2. v \in Seq(Nat) /\ Len(v) = 2 /\ v[1] = k /\ v[2] = n
    OBVIOUS
  <2> HIDE DEF u, v
  <2>3. Append(u, n) \in Seq(Nat) /\ Len(Append(u, n)) = 2 /\ Append(u, n)[1] = k /\ Append(u, n)[2] = n
    <3>1. /\ Append(u, n) \in Seq(Nat) /\ Len(Append(u, n)) = Len(u) + 1
          /\ \A i \in 1 .. Len(u) : Append(u, n)[i] = u[i]
          /\ Append(u, n)[Len(u) + 1] = n
      BY <2>1, Appended
    <3>2. QED
      BY <2>1, <3>1
  <2>4. Append(u, n) = v
    BY <2>2, <2>3, SeqEqual
  <2>5. QED
    BY <2>4 DEF u, v
<1>3. Append(<<k, n>>, m) = <<k, n, m>>
  <2> DEFINE u == <<k, n>>
             v == <<k, n, m>>
  <2>1. u \in Seq(Nat) /\ Len(u) = 2 /\ u[1] = k /\ u[2] = n
    OBVIOUS
  <2>2. v \in Seq(Nat) /\ Len(v) = 3 /\ v[1] = k /\ v[2] = n /\ v[3] = m
    OBVIOUS
  <2> HIDE DEF u, v
  <2>3. /\ Append(u, m) \in Seq(Nat) /\ Len(Append(u, m)) = 3
        /\ Append(u, m)[1] = k /\ Append(u, m)[2] = n /\ Append(u, m)[3] = m
    <3>1. /\ Append(u, m) \in Seq(Nat) /\ Len(Append(u, m)) = Len(u) + 1
          /\ \A i \in 1 .. Len(u) : Append(u, m)[i] = u[i]
          /\ Append(u, m)[Len(u) + 1] = m
      BY <2>1, Appended
    <3>2. QED
      BY <2>1, <3>1
  <2>4. Append(u, m) = v
    BY <2>2, <2>3, SeqEqual
  <2>5. QED
    BY <2>4 DEF u, v
<1>4. QED
  BY <1>1, <1>2, <1>3

LEMMA ThreeRead ==
  ASSUME NEW x, NEW y, NEW z, Short(x), Short(y), Short(z), NEW r, IsBytes(r)
  PROVE  /\ IsBytes(Vint(x) \o (Vint(y) \o (Vint(z) \o r)))
         /\ ReadInt(ReadInt(ReadInt(Unread(Vint(x) \o (Vint(y) \o (Vint(z) \o r))))))
              = Reading(<<x, y, z>>, r)
<1> DEFINE r1 == Vint(z) \o r
           r2 == Vint(y) \o r1
           r3 == Vint(x) \o r2
<1>1. IsBytes(Vint(x)) /\ IsBytes(Vint(y)) /\ IsBytes(Vint(z))
  BY ShortBytes
<1>2. IsBytes(r1)
  BY <1>1, MoreBytes
<1>3. IsBytes(r2)
  <2> HIDE DEF r1
  <2>1. QED
    BY <1>1, <1>2, MoreBytes
<1>4. IsBytes(r3)
  <2> HIDE DEF r2
  <2>1. QED
    BY <1>1, <1>3, MoreBytes
<1>5. ReadInt(Reading(<<>>, r3)) = Reading(Append(<<>>, x), r2)
  <2> HIDE DEF r2
  <2>1. QED
    BY <1>3, ShortBytes
<1>6. ReadInt(Reading(<<x>>, r2)) = Reading(Append(<<x>>, y), r1)
  <2> HIDE DEF r1
  <2>1. QED
    BY <1>2, ShortBytes
<1>7. ReadInt(Reading(<<x, y>>, r1)) = Reading(Append(<<x, y>>, z), r)
  BY ShortBytes
<1>8. Append(<<>>, x) = <<x>> /\ Append(<<x>>, y) = <<x, y>> /\ Append(<<x, y>>, z) = <<x, y, z>>
  <2>1. x \in Nat /\ y \in Nat /\ z \in Nat
    BY DEF Short
  <2>2. QED
    BY <2>1, PairAppended
<1>9. Unread(r3) = Reading(<<>>, r3)
  BY UnreadIs
<1> HIDE DEF r1, r2, r3
<1>10. ReadInt(ReadInt(ReadInt(Unread(r3)))) = Reading(<<x, y, z>>, r)
  BY <1>5, <1>6, <1>7, <1>8, <1>9
<1>11. QED
  BY <1>4, <1>10 DEF r1, r2, r3

LEMMA BodyDecodes ==
  ASSUME NEW q, Open(q)
  PROVE  DecodeWindow(Body(q.w, InstBytes(q.w.prog)), q.e.seg, SubSeq(q.text, 1, q.e.start), Capacity)
           = Copying(q.text)
<1> DEFINE b == InstBytes(q.w.prog)
           o == SubSeq(q.text, 1, q.e.start)
           w == Body(q.w, b)
           secs == q.w.data \o (b \o q.w.addr)
           x == Len(q.w.data)
           y == Len(b)
           z == Len(q.w.addr)
           t == Vint(x) \o (Vint(y) \o (Vint(z) \o secs))
           u == <<0>> \o t
           k == q.w.size
           h == ReadInt(Unread(w))
           lens == ReadInt(ReadInt(ReadInt(Unread(t))))
           win == RoomOf(q)
<1>1. Short(k) /\ Short(x) /\ Short(y) /\ Short(z)
  BY OpenLengths
<1>2. IsBytes(secs)
  <2>1. IsBytes(b \o q.w.addr)
    BY OpenLengths, MoreBytes
  <2>2. QED
    BY <2>1, OpenLengths, MoreBytes
<1>3. IsBytes(t) /\ lens = Reading(<<x, y, z>>, secs)
  <2> HIDE DEF x, y, z, secs
  <2>1. QED
    BY <1>1, <1>2, ThreeRead
<1>4. IsBytes(u) /\ u # <<>> /\ Head(u) = 0 /\ Tail(u) = t
  <2> HIDE DEF t
  <2>1. IsBytes(<<0>>)
    BY ZeroByte
  <2>2. IsBytes(u)
    BY <1>3, <2>1, MoreBytes
  <2>3. QED
    BY <1>3, <2>2, ZeroByte
<1>5. w = Vint(k) \o u
  <2>1. w = BodyParts(q.w, b)
    BY BodyIs
  <2>2. BodyParts(q.w, b) = Vint(k) \o u
    BY DEF BodyParts
  <2>3. QED
    BY <2>1, <2>2
<1> HIDE DEF u
<1>6. h = Reading(<<k>>, u)
  <2>1. ReadInt(Reading(<<>>, Vint(k) \o u)) = Reading(Append(<<>>, k), u)
    BY <1>1, <1>4, ShortBytes
  <2>2. Append(<<>>, k) = <<k>>
    OBVIOUS
  <2>3. Unread(w) = Reading(<<>>, w)
    BY UnreadIs
  <2> HIDE DEF w, k
  <2>4. QED
    BY <1>5, <2>1, <2>2, <2>3
<1> HIDE DEF w, h, t
<1>7. h.ok /\ h.vals[1] = k /\ h.rest = u
  BY <1>6 DEF Reading
<1> HIDE DEF k
<1>8. [seg |-> q.e.seg, start |-> Len(o), cap |-> Capacity] = win
  <2>1. Len(o) = q.e.start
    BY OpenLengths
  <2> HIDE DEF o
  <2>2. QED
    BY <2>1 DEF RoomOf, WindowOf
<1>9. DecodeWindow(w, q.e.seg, o, Capacity) = RunSections(k, lens, lens.vals, o, win)
  <2>1. ~(~h.ok \/ h.rest = <<>>) /\ ~(Head(h.rest) % 8 # 0)
    <3>1. 0 % 8 = 0
      BY SMT
    <3>2. QED
      BY <1>4, <1>7, <3>1
  <2>2. DecodeWindow(w, q.e.seg, o, Capacity) =
          RunSections(h.vals[1], ReadInt(ReadInt(ReadInt(Unread(Tail(h.rest))))),
                      ReadInt(ReadInt(ReadInt(Unread(Tail(h.rest))))).vals, o,
                      [seg |-> q.e.seg, start |-> Len(o), cap |-> Capacity])
    <3> HIDE DEF o, win
    <3>1. QED
      BY <2>1, Zenon DEF DecodeWindow, h
  <2> HIDE DEF lens, o, win
  <2>3. Tail(h.rest) = t
    BY <1>4, <1>7
  <2>4. QED
    BY <1>7, <1>8, <2>2, <2>3 DEF lens
<1>10. lens.ok /\ lens.rest = secs /\ lens.vals = <<x, y, z>>
  <2> HIDE DEF lens, x, y, z, secs
  <2>1. QED
    BY <1>3 DEF Reading
<1> DEFINE v == <<x, y, z>>
<1>11. v[1] = x /\ v[2] = y /\ v[3] = z
  OBVIOUS
<1>12. RunSections(q.w.size, lens, v, o, win) = Copying(q.text)
  <2> HIDE DEF lens, v
  <2>1. QED
    BY <1>10, <1>11, SectionsRead DEF Open
<1> HIDE DEF lens, o, win, v
<1>13. DecodeWindow(w, q.e.seg, o, Capacity) = Copying(q.text)
  BY <1>9, <1>10, <1>12 DEF k, v
<1>14. QED
  BY <1>13 DEF w, o

-----------------------------------------------------------------------------
(* The frame of a window.                                                  *)

LEMMA IndicatorIs ==
  ASSUME NEW ind \in {0, 1, 2, 4, 5, 6}
  PROVE  /\ ind \in Nat /\ (HasSegment(ind) <=> ind % 4 # 0)
         /\ (Bit(ind, 1) <=> ind % 4 = 1) /\ (ind % 4 = 0 \/ ind % 4 = 1 \/ ind % 4 = 2)
         /\ ChecksumLen(ind) \in {0, 4}
<1>1. /\ 0 % 4 = 0 /\ 1 % 4 = 1 /\ 2 % 4 = 2 /\ 4 % 4 = 0 /\ 5 % 4 = 1 /\ 6 % 4 = 2
  BY SMT
<1>2. /\ (0 \div 1) % 2 = 0 /\ (1 \div 1) % 2 = 1 /\ (2 \div 1) % 2 = 0
      /\ (4 \div 1) % 2 = 0 /\ (5 \div 1) % 2 = 1 /\ (6 \div 1) % 2 = 0
  BY SMT
<1>3. /\ (0 \div 2) % 2 = 0 /\ (1 \div 2) % 2 = 0 /\ (2 \div 2) % 2 = 1
      /\ (4 \div 2) % 2 = 0 /\ (5 \div 2) % 2 = 0 /\ (6 \div 2) % 2 = 1
  BY SMT
<1>4. /\ (HasSegment(ind) <=> ind % 4 # 0) /\ (Bit(ind, 1) <=> ind % 4 = 1)
      /\ (ind % 4 = 0 \/ ind % 4 = 1 \/ ind % 4 = 2)
  <2>1. CASE ind = 0
    BY <1>1, <1>2, <1>3, <2>1 DEF HasSegment, Bit
  <2>2. CASE ind = 1
    BY <1>1, <1>2, <1>3, <2>2 DEF HasSegment, Bit
  <2>3. CASE ind = 2
    BY <1>1, <1>2, <1>3, <2>3 DEF HasSegment, Bit
  <2>4. CASE ind = 4
    BY <1>1, <1>2, <1>3, <2>4 DEF HasSegment, Bit
  <2>5. CASE ind = 5
    BY <1>1, <1>2, <1>3, <2>5 DEF HasSegment, Bit
  <2>6. CASE ind = 6
    BY <1>1, <1>2, <1>3, <2>6 DEF HasSegment, Bit
  <2>7. QED
    BY <2>1, <2>2, <2>3, <2>4, <2>5, <2>6
<1>5. ChecksumLen(ind) \in {0, 4}
  BY DEF ChecksumLen
<1>6. QED
  BY <1>4, <1>5

WinBytes(w) == WindowBytes(w, InstBytes(w.prog))
OpenBody(q) == Body(q.w, InstBytes(q.w.prog))
Before(q) == SubSeq(q.text, 1, q.e.start)

\* The segment of the window is one of the base or of the text before it.
SegmentFits(q) ==
  /\ q.w.ind \in {0, 1, 2, 4, 5, 6} /\ Short(q.w.len) /\ Short(q.w.pos)
  /\ ~HasSegment(q.w.ind) => q.e.seg = <<>>
  /\ HasSegment(q.w.ind) =>
       /\ q.w.pos + q.w.len = Len(SegmentOf(q.w.ind, Source, Before(q)))
       /\ q.w.len > 0
       /\ q.e.seg = SubSeq(SegmentOf(q.w.ind, Source, Before(q)), q.w.pos + 1, q.w.pos + q.w.len)

Ints(w) == IF w.ind % 4 # 0 THEN Vint(w.len) \o Vint(w.pos) ELSE <<>>
Vals(w) == IF w.ind % 4 # 0 THEN <<w.len, w.pos>> ELSE <<>>
Zeros(ind) == [i \in 1 .. ChecksumLen(ind) |-> 0]

LEMMA ZerosAre ==
  ASSUME NEW ind \in {0, 1, 2, 4, 5, 6}
  PROVE  IsBytes(Zeros(ind)) /\ Len(Zeros(ind)) = ChecksumLen(ind)
<1>1. ChecksumLen(ind) \in Nat
  BY IndicatorIs
<1> DEFINE n == ChecksumLen(ind)
<1> HIDE DEF n
<1>2. n \in Nat
  BY <1>1 DEF n
<1>3. [i \in 1 .. n |-> 0] \in Seq(Nat) /\ Len([i \in 1 .. n |-> 0]) = n
  BY <1>2
<1>4. QED
  BY <1>3 DEF Zeros, IsBytes, n

LEMMA IntBefore ==
  ASSUME NEW v, Short(v), NEW s, IsBytes(s), NEW n \in Nat, Len(s) <= n
  PROVE  IsBytes(Vint(v) \o s) /\ Len(Vint(v) \o s) <= n + 4 /\ Len(Vint(v) \o s) \in Nat
<1> DEFINE t == Vint(v)
<1>1. t \in Seq(Nat) /\ Len(t) \in 1 .. 4 /\ s \in Seq(Nat)
  BY ShortBytes DEF IsBytes
<1> HIDE DEF t
<1>2. t \o s \in Seq(Nat) /\ Len(t \o s) = Len(t) + Len(s) /\ Len(s) \in Nat
  BY <1>1, Longer
<1>3. IsBytes(t \o s) /\ Len(t \o s) <= n + 4 /\ Len(t \o s) \in Nat
  <2> DEFINE u == t \o s
             k == Len(s)
             m == Len(t)
  <2>1. u \in Seq(Nat) /\ Len(u) = m + k /\ k \in Nat /\ m \in 1 .. 4 /\ k <= n
    BY <1>1, <1>2
  <2> HIDE DEF u, k, m
  <2>2. Len(u) <= n + 4 /\ Len(u) \in Nat
    BY <2>1
  <2>3. QED
    BY <2>1, <2>2 DEF u, IsBytes
<1>4. QED
  BY <1>3 DEF t

LEMMA BodyIsShort ==
  ASSUME NEW q, Open(q)
  PROVE  IsBytes(OpenBody(q)) /\ Short(Len(OpenBody(q)))
<1> DEFINE x == Len(q.w.data)
           y == Len(InstBytes(q.w.prog))
           z == Len(q.w.addr)
           secs == q.w.data \o (InstBytes(q.w.prog) \o q.w.addr)
           s5 == Vint(z) \o secs
           s4 == Vint(y) \o s5
           s3 == Vint(x) \o s4
           s2 == <<0>> \o s3
           s1 == Vint(q.w.size) \o s2
<1>1. ASSUME NEW u, NEW v, IsBytes(u), IsBytes(v)
      PROVE  IsBytes(u \o v) /\ Len(u \o v) = Len(u) + Len(v) /\ Len(u) \in Nat /\ Len(v) \in Nat
  <2>1. u \in Seq(Nat) /\ v \in Seq(Nat)
    BY <1>1 DEF IsBytes
  <2>2. QED
    BY <2>1, Longer DEF IsBytes
<1>2. /\ IsBytes(Vint(x)) /\ IsBytes(Vint(y)) /\ IsBytes(Vint(z)) /\ IsBytes(Vint(q.w.size))
      /\ Len(Vint(x)) \in 1 .. 4 /\ Len(Vint(y)) \in 1 .. 4 /\ Len(Vint(z)) \in 1 .. 4
      /\ Len(Vint(q.w.size)) \in 1 .. 4
  BY OpenLengths, ShortBytes
<1>3. IsBytes(secs) /\ Len(secs) = x + (y + z) /\ x \in Nat /\ y \in Nat /\ z \in Nat
  BY <1>1, OpenLengths
<1> DEFINE n == x + (y + z)
<1>4. Short(x) /\ Short(y) /\ Short(z) /\ Short(q.w.size) /\ n \in Nat
  <2>1. Short(x) /\ Short(y) /\ Short(z) /\ Short(q.w.size)
    BY OpenLengths
  <2> HIDE DEF x, y, z
  <2>2. QED
    BY <1>3, <2>1
<1> HIDE DEF x, y, z, secs
<1>5. IsBytes(s5) /\ Len(s5) <= n + 4 /\ n + 4 \in Nat
  BY <1>3, <1>4, IntBefore
<1> HIDE DEF s5, n
<1>6. IsBytes(s4) /\ Len(s4) <= (n + 4) + 4 /\ (n + 4) + 4 \in Nat
  BY <1>4, <1>5, IntBefore
<1> HIDE DEF s4
<1>7. IsBytes(s3) /\ Len(s3) <= n + 12 /\ Len(s3) \in Nat
  <2>1. IsBytes(s3) /\ Len(s3) <= ((n + 4) + 4) + 4 /\ Len(s3) \in Nat
    BY <1>4, <1>6, IntBefore
  <2> HIDE DEF s3
  <2>2. QED
    BY <1>4, <2>1
<1> HIDE DEF s3
<1>8. IsBytes(s2) /\ Len(s2) <= n + 13 /\ n + 13 \in Nat
  <2>1. IsBytes(<<0>>) /\ Len(<<0>>) = 1
    BY ZeroByte
  <2>2. IsBytes(s2) /\ Len(s2) = 1 + Len(s3)
    BY <1>1, <1>7, <2>1
  <2> HIDE DEF s2
  <2>3. QED
    BY <1>4, <1>7, <2>2
<1> HIDE DEF s2
<1>9. IsBytes(s1) /\ Len(s1) <= (n + 13) + 4 /\ Len(s1) \in Nat
  BY <1>4, <1>8, IntBefore
<1> HIDE DEF s1
<1>10. OpenBody(q) = s1
  <2>1. OpenBody(q) = BodyParts(q.w, InstBytes(q.w.prog))
    BY BodyIs DEF OpenBody
  <2>2. QED
    BY <2>1 DEF BodyParts, s1, s2, s3, s4, s5, secs, x, y, z
<1>11. x <= MaxSection /\ y <= MaxSection /\ z <= MaxSection
  BY DEF Open, x, y, z
<1>12. MaxSection \in Nat /\ 4 * MaxSection < Pow27
  BY VcdiffAssumption
<1>13. Pow27 \in Nat /\ 17 < Pow27
  BY SMT DEF Pow27
<1>14. Short(Len(s1))
  <2>1. n = x + (y + z) /\ x \in Nat /\ y \in Nat /\ z \in Nat
    BY <1>3 DEF n
  <2>2. QED
    BY <1>9, <1>11, <1>12, <1>13, <2>1 DEF Short
<1>15. QED
  BY <1>9, <1>10, <1>14

Frame(w, body, R) ==
  <<w.ind>> \o (Ints(w) \o (Vint(Len(body)) \o (body \o (Zeros(w.ind) \o R))))

LEMMA FrameIs ==
  ASSUME NEW q, Open(q), SegmentFits(q)
  PROVE  /\ IsBytes(WinBytes(q.w)) /\ IsBytes(Ints(q.w)) /\ IsBytes(<<q.w.ind>>)
         /\ \A R : IsBytes(R) => WinBytes(q.w) \o R = Frame(q.w, OpenBody(q), R)
<1> DEFINE a == <<q.w.ind>>
           b == Ints(q.w)
           c == Vint(Len(OpenBody(q)))
           d == OpenBody(q)
           e == Zeros(q.w.ind)
<1>1. q.w.ind \in {0, 1, 2, 4, 5, 6} /\ Short(q.w.len) /\ Short(q.w.pos)
  BY DEF SegmentFits
<1>2. IsBytes(a)
  <2>1. q.w.ind \in Nat
    BY <1>1, IndicatorIs
  <2>2. QED
    BY <2>1 DEF IsBytes
<1>3. IsBytes(b)
  <2>1. IsBytes(<<>>)
    BY EmptySeq DEF IsBytes
  <2>2. IsBytes(Vint(q.w.len) \o Vint(q.w.pos))
    BY <1>1, ShortBytes, MoreBytes
  <2>3. QED
    BY <2>1, <2>2 DEF Ints
<1>4. IsBytes(c) /\ IsBytes(d)
  BY BodyIsShort, ShortBytes
<1>5. IsBytes(e)
  BY <1>1, ZerosAre
<1>6. WinBytes(q.w) = (((a \o b) \o c) \o d) \o e
  BY Zenon DEF WinBytes, WindowBytes, OpenBody, Ints, Zeros
<1> HIDE DEF a, b, c, d, e
<1>7. IsBytes(WinBytes(q.w))
  <2>1. IsBytes((a \o b) \o c)
    BY <1>2, <1>3, <1>4, MoreBytes
  <2>2. IsBytes((((a \o b) \o c) \o d) \o e)
    BY <1>4, <1>5, <2>1, MoreBytes
  <2>3. QED
    BY <1>6, <2>2
<1>8. ASSUME NEW R, IsBytes(R)
      PROVE  WinBytes(q.w) \o R = Frame(q.w, OpenBody(q), R)
  <2>1. SixRow(a, b, c, d, e, R)
    BY <1>2, <1>3, <1>4, <1>5, <1>8, SixParts
  <2>2. WinBytes(q.w) \o R = a \o (b \o (c \o (d \o (e \o R))))
    BY <1>6, <2>1 DEF SixRow
  <2>3. QED
    BY <2>2 DEF Frame, a, b, c, d, e
<1>9. QED
  BY <1>2, <1>3, <1>7, <1>8 DEF a, b

-----------------------------------------------------------------------------
(* One turn of the loop over the windows.                                  *)

WinState(base, out, rest) ==
  [err |-> "OK", out |-> out, rest |-> rest, source |-> base, cap |-> Capacity]

\* The integers of the segment, and what follows them.
IntsOf(ind, p) == IF HasSegment(ind) THEN ReadInt(ReadInt(Unread(p))) ELSE Unread(p)

LEMMA IntsRead ==
  ASSUME NEW q, SegmentFits(q), NEW y, IsBytes(y)
  PROVE  IntsOf(q.w.ind, Ints(q.w) \o y) = Reading(Vals(q.w), y)
<1>1. q.w.ind \in {0, 1, 2, 4, 5, 6} /\ Short(q.w.len) /\ Short(q.w.pos)
  BY DEF SegmentFits
<1>2. HasSegment(q.w.ind) <=> q.w.ind % 4 # 0
  BY <1>1, IndicatorIs
<1>3. CASE q.w.ind % 4 # 0
  <2> DEFINE k == q.w.len
             n == q.w.pos
             s == Vint(n) \o y
             t == Vint(k) \o s
  <2>1. IsBytes(Vint(k)) /\ IsBytes(Vint(n)) /\ IsBytes(s)
    BY <1>1, ShortBytes, MoreBytes
  <2>2. ReadInt(Reading(<<>>, t)) = Reading(Append(<<>>, k), s)
    <3> HIDE DEF s
    <3>1. QED
      BY <1>1, <2>1, ShortBytes
  <2>3. ReadInt(Reading(<<k>>, s)) = Reading(Append(<<k>>, n), y)
    BY <1>1, ShortBytes
  <2>4. Append(<<>>, k) = <<k>> /\ Append(<<k>>, n) = <<k, n>>
    <3>1. k \in Nat /\ n \in Nat
      BY <1>1 DEF Short
    <3>2. QED
      BY <3>1, PairAppended
  <2>5. (Vint(k) \o Vint(n)) \o y = t
    <3>1. Regroup(Vint(k), Vint(n), y)
      BY <2>1, GroupedBytes
    <3>2. QED
      BY <3>1 DEF Regroup
  <2>6. Unread(t) = Reading(<<>>, t)
    BY UnreadIs
  <2>7. Ints(q.w) = Vint(k) \o Vint(n) /\ Vals(q.w) = <<k, n>>
    BY <1>3 DEF Ints, Vals
  <2> HIDE DEF k, n, s, t
  <2>8. IntsOf(q.w.ind, t) = ReadInt(ReadInt(Unread(t)))
    BY <1>2, <1>3 DEF IntsOf
  <2>9. QED
    BY <2>2, <2>3, <2>4, <2>5, <2>6, <2>7, <2>8
<1>4. CASE ~(q.w.ind % 4 # 0)
  <2>1. Ints(q.w) = <<>> /\ Vals(q.w) = <<>>
    BY <1>4 DEF Ints, Vals
  <2>2. <<>> \o y = y
    BY EmptyBefore DEF IsBytes
  <2>3. IntsOf(q.w.ind, y) = Unread(y)
    BY <1>2, <1>4 DEF IntsOf
  <2>4. Unread(y) = Reading(<<>>, y)
    BY UnreadIs
  <2>5. QED
    BY <2>1, <2>2, <2>3, <2>4
<1>5. QED
  BY <1>3, <1>4

LEMMA NextWindowIs ==
  ASSUME NEW r, r.err = "OK", r.rest # <<>>
  PROVE  NextWindow(r) =
           DecodeNext(r, Head(r.rest), IntsOf(Head(r.rest), Tail(r.rest)),
                      ReadInt(Unread(IntsOf(Head(r.rest), Tail(r.rest)).rest)),
                      SegmentOf(Head(r.rest), r.source, r.out))
BY Zenon DEF NextWindow, IntsOf

FrameParts(w, body, R) ==
  /\ Frame(w, body, R) # <<>> /\ Head(Frame(w, body, R)) = w.ind
  /\ Tail(Frame(w, body, R)) = Ints(w) \o (Vint(Len(body)) \o (body \o (Zeros(w.ind) \o R)))
  /\ IsBytes(Vint(Len(body)) \o (body \o (Zeros(w.ind) \o R)))
  /\ IsBytes(body \o (Zeros(w.ind) \o R)) /\ IsBytes(Zeros(w.ind) \o R)

LEMMA FrameFirst ==
  ASSUME NEW w, NEW body, NEW R, w.ind \in Nat, IsBytes(Ints(w)), Short(Len(body)), IsBytes(body),
         IsBytes(Zeros(w.ind)), IsBytes(R)
  PROVE  FrameParts(w, body, R)
<1> DEFINE s3 == Zeros(w.ind) \o R
           s2 == body \o s3
           s1 == Vint(Len(body)) \o s2
           s0 == Ints(w) \o s1
<1>1. IsBytes(s3)
  BY MoreBytes
<1> HIDE DEF s3
<1>2. IsBytes(s2)
  BY <1>1, MoreBytes
<1> HIDE DEF s2
<1>3. IsBytes(s1)
  BY <1>2, MoreBytes, ShortBytes
<1> HIDE DEF s1
<1>4. IsBytes(s0)
  BY <1>3, MoreBytes
<1> HIDE DEF s0
<1>5. <<w.ind>> \o s0 # <<>> /\ Head(<<w.ind>> \o s0) = w.ind /\ Tail(<<w.ind>> \o s0) = s0
  BY <1>4, FirstOf DEF IsBytes
<1>6. QED
  BY <1>1, <1>2, <1>3, <1>5 DEF FrameParts, Frame, s0, s1, s2, s3

\* The bytes of the segment s of what it is taken from.
SegmentBytes(ind, s, of) ==
  IF HasSegment(ind) THEN SubSeq(of, s.vals[2] + 1, s.vals[2] + s.vals[1]) ELSE <<>>

LEMMA DecodeNextIs ==
  ASSUME NEW r, NEW ind, NEW s, NEW w, NEW of, s.ok,
         ~(HasSegment(ind) /\ s.vals[2] + s.vals[1] > Len(of)), w.ok,
         WholeWindow(w.rest, w.vals[1], ind), NEW d,
         d = DecodeWindow(SubSeq(w.rest, 1, w.vals[1]), SegmentBytes(ind, s, of), r.out, r.cap)
  PROVE  DecodeNext(r, ind, s, w, of) =
           [err |-> d.err, out |-> d.out, rest |-> From(w.rest, w.vals[1] + ChecksumLen(ind)),
            source |-> r.source, cap |-> r.cap]
<1>1. d = DecodeWindow(SubSeq(w.rest, 1, w.vals[1]),
                       IF HasSegment(ind) THEN SubSeq(of, s.vals[2] + 1, s.vals[2] + s.vals[1]) ELSE <<>>,
                       r.out, r.cap)
  BY DEF SegmentBytes
<1>2. QED
  BY <1>1, Zenon DEF DecodeNext

LEMMA FrameRest ==
  ASSUME NEW body, IsBytes(body), NEW z, IsBytes(z), NEW R, IsBytes(R), NEW k \in Nat, Len(z) = k
  PROVE  /\ Len(body \o (z \o R)) >= Len(body) + k
         /\ SubSeq(body \o (z \o R), 1, Len(body)) = body
         /\ From(body \o (z \o R), Len(body) + k) = R
<1> DEFINE u == body \o (z \o R)
<1>1. body \in Seq(Nat) /\ z \in Seq(Nat) /\ R \in Seq(Nat)
  BY DEF IsBytes
<1>2. Parts(u, body, z, R)
  BY <1>1, PartsOf
<1> HIDE DEF u
<1>3. /\ Len(u) = Len(body) + Len(z) + Len(R) /\ SubSeq(u, 1, Len(body)) = body
      /\ SubSeq(u, Len(body) + Len(z) + 1, Len(body) + Len(z) + Len(R)) = R
  BY <1>2 DEF Parts
<1>4. Len(body) \in Nat /\ Len(R) \in Nat
  BY <1>1
<1>5. Len(u) >= Len(body) + k
  BY <1>3, <1>4
<1>6. From(u, Len(body) + k) = R
  BY <1>3 DEF From
<1>7. QED
  BY <1>3, <1>5, <1>6 DEF u

LEMMA WindowTurn ==
  ASSUME NEW q, Open(q), SegmentFits(q), NEW base, Bit(q.w.ind, 1) => base = Source,
         NEW R, IsBytes(R)
  PROVE  NextWindow(WinState(base, Before(q), WinBytes(q.w) \o R)) = WinState(base, q.text, R)
<1> DEFINE ind == q.w.ind
           B == OpenBody(q)
           z == Zeros(ind)
           k == ChecksumLen(ind)
           F == Frame(q.w, B, R)
           s3 == z \o R
           s2 == B \o s3
           s1 == Vint(Len(B)) \o s2
           r == WinState(base, Before(q), F)
           s == Reading(Vals(q.w), s1)
           w == Reading(<<Len(B)>>, s2)
           of == SegmentOf(ind, base, Before(q))
           d == Copying(q.text)
<1>1. ind \in {0, 1, 2, 4, 5, 6} /\ Short(q.w.len) /\ Short(q.w.pos)
  BY DEF SegmentFits
<1>2. IsBytes(B) /\ Short(Len(B)) /\ IsBytes(z) /\ Len(z) = k /\ k \in Nat /\ ind \in Nat
  <2>1. IsBytes(B) /\ Short(Len(B))
    BY BodyIsShort
  <2>2. IsBytes(z) /\ Len(z) = k
    BY <1>1, ZerosAre
  <2>3. k \in Nat /\ ind \in Nat
    BY <1>1, IndicatorIs
  <2>4. QED
    BY <2>1, <2>2, <2>3
<1>3. /\ WinBytes(q.w) \o R = F /\ IsBytes(Ints(q.w))
  BY FrameIs
<1>4. /\ F # <<>> /\ Head(F) = ind /\ Tail(F) = Ints(q.w) \o s1
      /\ IsBytes(s1) /\ IsBytes(s2) /\ IsBytes(s3)
  <2>1. FrameParts(q.w, B, R)
    <3> HIDE DEF B, F, s1, s2, s3
    <3>1. QED
      BY <1>2, <1>3, FrameFirst
  <2>2. QED
    BY <2>1, Zenon DEF FrameParts
<1> HIDE DEF F, s1, s2
<1>5. IntsOf(ind, Tail(F)) = s
  BY <1>4, IntsRead
<1>6. ReadInt(Unread(s1)) = w
  <2> HIDE DEF B
  <2>1. ReadInt(Reading(<<>>, Vint(Len(B)) \o s2)) = Reading(Append(<<>>, Len(B)), s2)
    BY <1>2, <1>4, ShortBytes
  <2>2. Append(<<>>, Len(B)) = <<Len(B)>>
    <3>1. Len(B) \in Nat
      BY <1>2 DEF Short
    <3>2. QED
      BY <3>1, PairAppended
  <2>3. QED
    BY <2>1, <2>2, UnreadIs DEF s1
<1>7. r.err = "OK" /\ r.rest = F /\ r.source = base /\ r.out = Before(q) /\ r.cap = Capacity
  BY DEF WinState
<1>8. s.ok /\ s.vals = Vals(q.w) /\ s.rest = s1 /\ w.ok /\ w.vals = <<Len(B)>> /\ w.rest = s2
  BY DEF Reading
<1> HIDE DEF r, s, w
<1>9. NextWindow(r) = DecodeNext(r, ind, s, w, of)
  <2>1. NextWindow(r) =
           DecodeNext(r, Head(r.rest), IntsOf(Head(r.rest), Tail(r.rest)),
                      ReadInt(Unread(IntsOf(Head(r.rest), Tail(r.rest)).rest)),
                      SegmentOf(Head(r.rest), r.source, r.out))
    BY <1>4, <1>7, NextWindowIs
  <2> HIDE DEF ind
  <2>2. QED
    BY <1>4, <1>5, <1>6, <1>7, <1>8, <2>1
<1>10. /\ ~(HasSegment(ind) /\ s.vals[2] + s.vals[1] > Len(of))
       /\ SegmentBytes(ind, s, of) = q.e.seg
  <2>1. CASE HasSegment(ind)
    <3>1. q.w.ind % 4 # 0
      BY <1>1, <2>1, IndicatorIs
    <3>2. s.vals[1] = q.w.len /\ s.vals[2] = q.w.pos
      BY <1>8, <3>1 DEF Vals
    <3>3. of = SegmentOf(ind, Source, Before(q))
      BY DEF SegmentOf
    <3>4. q.w.pos + q.w.len = Len(of) /\ q.e.seg = SubSeq(of, q.w.pos + 1, q.w.pos + q.w.len)
      BY <2>1, <3>3 DEF SegmentFits
    <3>5. q.w.pos \in Nat /\ q.w.len \in Nat
      BY <1>1 DEF Short
    <3> HIDE DEF of
    <3>6. ~(s.vals[2] + s.vals[1] > Len(of))
      BY <3>2, <3>4, <3>5
    <3>7. SegmentBytes(ind, s, of) = SubSeq(of, s.vals[2] + 1, s.vals[2] + s.vals[1])
      BY <2>1 DEF SegmentBytes
    <3>8. QED
      BY <3>2, <3>4, <3>6, <3>7
  <2>2. CASE ~HasSegment(ind)
    BY <2>2 DEF SegmentFits, SegmentBytes
  <2>3. QED
    BY <2>1, <2>2
<1>11. Len(s2) >= Len(B) + k /\ SubSeq(s2, 1, Len(B)) = B /\ From(s2, Len(B) + k) = R
  <2> HIDE DEF B, z, k
  <2>1. QED
    BY <1>2, FrameRest DEF s2
<1>12. w.vals[1] = Len(B)
  BY <1>8
<1>13. WholeWindow(w.rest, w.vals[1], ind)
  BY <1>8, <1>11, <1>12 DEF WholeWindow
<1>14. d = DecodeWindow(SubSeq(w.rest, 1, w.vals[1]), SegmentBytes(ind, s, of), r.out, r.cap)
  <2>1. DecodeWindow(B, q.e.seg, Before(q), Capacity) = d
    BY BodyDecodes DEF OpenBody, Before
  <2> HIDE DEF B, d, of
  <2>2. QED
    BY <1>7, <1>8, <1>10, <1>11, <1>12, <2>1
<1>15. NextWindow(r) = [err |-> d.err, out |-> d.out, rest |-> From(w.rest, w.vals[1] + ChecksumLen(ind)),
                        source |-> r.source, cap |-> r.cap]
  <2> HIDE DEF d, of, ind
  <2>1. QED
    BY <1>8, <1>9, <1>10, <1>13, <1>14, DecodeNextIs
<1>16. From(w.rest, w.vals[1] + ChecksumLen(ind)) = R
  BY <1>8, <1>11, <1>12
<1>17. d.err = "OK" /\ d.out = q.text
  BY DEF Copying
<1>18. NextWindow(r) = WinState(base, q.text, R)
  BY <1>7, <1>15, <1>16, <1>17, Zenon DEF WinState
<1>19. QED
  BY <1>3, <1>18 DEF r

-----------------------------------------------------------------------------
(* Windows that are not whole, and bases that are too short.               *)

LEMMA StopIs ==
  ASSUME NEW base, NEW out, NEW rest, NEW code
  PROVE  [WinState(base, out, rest) EXCEPT !.err = code, !.out = <<>>].err = code
BY DEF WinState

LEMMA DecodeNextStops ==
  ASSUME NEW base, NEW out, NEW rest, NEW ind, NEW s, NEW w, NEW of,
         ~s.ok \/ (HasSegment(ind) /\ s.vals[2] + s.vals[1] > Len(of))
           \/ ~w.ok \/ ~WholeWindow(w.rest, w.vals[1], ind)
  PROVE  DecodeNext(WinState(base, out, rest), ind, s, w, of).err # "OK"
<1> DEFINE r == WinState(base, out, rest)
           stop(code) == [r EXCEPT !.err = code, !.out = <<>>]
<1>1. stop("TRUNCATED").err = "TRUNCATED" /\ stop("INVALID").err = "INVALID"
  BY StopIs
<1>2. "TRUNCATED" # "OK" /\ "INVALID" # "OK"
  OBVIOUS
<1>3. DecodeNext(r, ind, s, w, of) = stop("TRUNCATED") \/ DecodeNext(r, ind, s, w, of) = stop("INVALID")
  <2> HIDE DEF r
  <2>1. QED
    BY Zenon DEF DecodeNext
<1> HIDE DEF stop
<1>4. QED
  BY <1>1, <1>2, <1>3 DEF r

\* The integers of a segment that are read whole are read alike when more follows.
IntsCutAt(ind, T, Y, vals, z) ==
  /\ IsBytes(z) /\ IntsOf(ind, T) = Reading(vals, z)
  /\ IntsOf(ind, T \o Y) = Reading(vals, z \o Y)

IntCutAt(vals, x, y, v, z) ==
  /\ IsBytes(z) /\ ReadInt(Reading(vals, x)) = Reading(Append(vals, v), z)
  /\ ReadInt(Reading(vals, x \o y)) = Reading(Append(vals, v), z \o y)

LEMMA IntCut ==
  ASSUME NEW vals, NEW x, IsBytes(x), NEW y, IsBytes(y), ReadInt(Reading(vals, x)).ok
  PROVE  \E v, z : IntCutAt(vals, x, y, v, z)
<1>1. x \in Seq(Nat) /\ y \in Seq(Nat)
  BY DEF IsBytes
<1>2. \E v \in Nat, z \in Seq(Nat) :
           /\ ReadInt(Reading(vals, x)) = Reading(Append(vals, v), z)
           /\ ReadInt(Reading(vals, x \o y)) = Reading(Append(vals, v), z \o y)
  BY <1>1, ReadIntCut
<1>3. QED
  BY <1>2 DEF IntCutAt, IsBytes

LEMMA IntsCut ==
  ASSUME NEW ind, NEW T, IsBytes(T), NEW Y, IsBytes(Y), IntsOf(ind, T).ok
  PROVE  \E vals, z : IntsCutAt(ind, T, Y, vals, z)
<1>1. CASE HasSegment(ind)
  <2>1. /\ IntsOf(ind, T) = ReadInt(ReadInt(Reading(<<>>, T)))
        /\ IntsOf(ind, T \o Y) = ReadInt(ReadInt(Reading(<<>>, T \o Y)))
    BY <1>1, UnreadIs DEF IntsOf
  <2>2. ReadInt(Reading(<<>>, T)).ok
    BY <2>1, ReadIntMissing
  <2>3. PICK v, z : IntCutAt(<<>>, T, Y, v, z)
    BY <2>2, IntCut
  <2> DEFINE a == Append(<<>>, v)
             u == z \o Y
  <2>4. /\ IsBytes(z) /\ ReadInt(Reading(<<>>, T)) = Reading(a, z)
        /\ ReadInt(Reading(<<>>, T \o Y)) = Reading(a, u)
    BY <2>3 DEF IntCutAt
  <2> HIDE DEF a
  <2>5. ReadInt(Reading(a, z)).ok
    BY <2>1, <2>4
  <2>6. PICK v2, z2 : IntCutAt(a, z, Y, v2, z2)
    BY <2>4, <2>5, IntCut
  <2>7. /\ IsBytes(z2) /\ ReadInt(Reading(a, z)) = Reading(Append(a, v2), z2)
        /\ ReadInt(Reading(a, u)) = Reading(Append(a, v2), z2 \o Y)
    BY <2>6 DEF IntCutAt
  <2> HIDE DEF u
  <2>8. IntsCutAt(ind, T, Y, Append(a, v2), z2)
    BY <2>1, <2>4, <2>7 DEF IntsCutAt
  <2>9. QED
    BY <2>8
<1>2. CASE ~HasSegment(ind)
  <2>1. IntsOf(ind, T) = Reading(<<>>, T) /\ IntsOf(ind, T \o Y) = Reading(<<>>, T \o Y)
    BY <1>2, UnreadIs DEF IntsOf
  <2>2. IntsCutAt(ind, T, Y, <<>>, T)
    BY <2>1 DEF IntsCutAt
  <2>3. QED
    BY <2>2
<1>3. QED
  BY <1>1, <1>2

LEMMA ReadingSame ==
  ASSUME NEW a, NEW x, NEW b, NEW y, Reading(a, x) = Reading(b, y)
  PROVE  a = b /\ x = y
<1>1. Reading(a, x).vals = a /\ Reading(a, x).rest = x /\ Reading(b, y).vals = b /\ Reading(b, y).rest = y
  BY DEF Reading
<1>2. QED
  BY <1>1

LEMMA ReadingParts ==
  ASSUME NEW a, NEW x
  PROVE  Reading(a, x).vals = a /\ Reading(a, x).rest = x /\ Reading(a, x).ok
BY DEF Reading

\* The frame of the open window, with nothing behind it.
LEMMA FrameParted ==
  ASSUME NEW q, Open(q), SegmentFits(q), NEW R, IsBytes(R)
  PROVE  /\ FrameParts(q.w, OpenBody(q), R) /\ WinBytes(q.w) \o R = Frame(q.w, OpenBody(q), R)
         /\ IsBytes(OpenBody(q)) /\ Short(Len(OpenBody(q)))
         /\ IsBytes(Zeros(q.w.ind)) /\ Len(Zeros(q.w.ind)) = ChecksumLen(q.w.ind)
         /\ ChecksumLen(q.w.ind) \in Nat /\ q.w.ind \in Nat
<1>1. q.w.ind \in {0, 1, 2, 4, 5, 6}
  BY DEF SegmentFits
<1>2. IsBytes(OpenBody(q)) /\ Short(Len(OpenBody(q)))
  BY BodyIsShort
<1>3. IsBytes(Zeros(q.w.ind)) /\ Len(Zeros(q.w.ind)) = ChecksumLen(q.w.ind)
  BY <1>1, ZerosAre
<1>4. ChecksumLen(q.w.ind) \in Nat /\ q.w.ind \in Nat
  BY <1>1, IndicatorIs
<1>5. WinBytes(q.w) \o R = Frame(q.w, OpenBody(q), R) /\ IsBytes(Ints(q.w))
  BY FrameIs
<1>6. FrameParts(q.w, OpenBody(q), R)
  BY <1>2, <1>3, <1>4, <1>5, FrameFirst
<1>7. QED
  BY <1>2, <1>3, <1>4, <1>5, <1>6

LEMMA ShortTurn ==
  ASSUME NEW q, Open(q), SegmentFits(q), NEW base, Bit(q.w.ind, 1), Len(base) \in Nat,
         Len(base) < Len(Source), NEW R, IsBytes(R)
  PROVE  NextWindow(WinState(base, Before(q), WinBytes(q.w) \o R)).err # "OK"
<1> DEFINE ind == q.w.ind
           B == OpenBody(q)
           F == Frame(q.w, B, R)
           s1 == Vint(Len(B)) \o (B \o (Zeros(ind) \o R))
           r == WinState(base, Before(q), F)
           s == Reading(Vals(q.w), s1)
           w == ReadInt(Unread(s1))
           of == SegmentOf(ind, base, Before(q))
<1>1. ind \in {0, 1, 2, 4, 5, 6} /\ Short(q.w.len) /\ Short(q.w.pos)
  BY DEF SegmentFits
<1>2. WinBytes(q.w) \o R = F /\ FrameParts(q.w, B, R)
  BY FrameParted
<1>3. F # <<>> /\ Head(F) = ind /\ Tail(F) = Ints(q.w) \o s1 /\ IsBytes(s1)
  BY <1>2, Zenon DEF FrameParts
<1> HIDE DEF F, s1
<1>4. IntsOf(ind, Tail(F)) = s
  BY <1>3, IntsRead
<1>5. r.err = "OK" /\ r.rest = F /\ r.source = base /\ r.out = Before(q)
  BY DEF WinState
<1>6. s.vals = Vals(q.w) /\ s.rest = s1
  BY ReadingParts
<1> HIDE DEF s
<1>7. NextWindow(r) = DecodeNext(r, ind, s, w, of)
  <2> HIDE DEF r
  <2>1. NextWindow(r) =
           DecodeNext(r, Head(r.rest), IntsOf(Head(r.rest), Tail(r.rest)),
                      ReadInt(Unread(IntsOf(Head(r.rest), Tail(r.rest)).rest)),
                      SegmentOf(Head(r.rest), r.source, r.out))
    BY <1>3, <1>5, NextWindowIs
  <2> HIDE DEF ind
  <2>2. QED
    BY <1>3, <1>4, <1>5, <1>6, <2>1
<1>8. HasSegment(ind) /\ q.w.ind % 4 # 0
  <2>1. HasSegment(ind)
    BY DEF HasSegment
  <2>2. QED
    BY <1>1, <2>1, IndicatorIs
<1>9. s.vals[2] + s.vals[1] > Len(of)
  <2>1. s.vals[1] = q.w.len /\ s.vals[2] = q.w.pos
    BY <1>6, <1>8 DEF Vals
  <2>2. of = base /\ SegmentOf(ind, Source, Before(q)) = Source
    BY DEF SegmentOf
  <2>3. q.w.pos + q.w.len = Len(Source)
    BY <1>8, <2>2 DEF SegmentFits
  <2>4. q.w.pos \in Nat /\ q.w.len \in Nat
    BY <1>1 DEF Short
  <2> HIDE DEF of
  <2>5. QED
    BY <2>1, <2>2, <2>3, <2>4
<1>10. NextWindow(r).err # "OK"
  <2> HIDE DEF of, w, ind
  <2>1. DecodeNext(WinState(base, Before(q), F), ind, s, w, of).err # "OK"
    BY <1>8, <1>9, DecodeNextStops DEF ind
  <2>2. QED
    BY <1>7, <2>1 DEF r
<1>11. QED
  BY <1>2, <1>10 DEF r

\* The first byte of bytes, and the others.
LEMMA FirstAndRest ==
  ASSUME NEW C, IsBytes(C), C # <<>>, NEW Y, IsBytes(Y)
  PROVE  /\ IsBytes(Tail(C)) /\ C \o Y # <<>>
         /\ Head(C \o Y) = Head(C) /\ Tail(C \o Y) = Tail(C) \o Y
<1> DEFINE c == Head(C)
           t == Tail(C)
           y == t \o Y
<1>1. C \in Seq(Nat) /\ Y \in Seq(Nat)
  BY DEF IsBytes
<1>2. c \in Nat /\ t \in Seq(Nat)
  BY <1>1
<1>3. C = <<c>> \o t
  <2>1. <<c>> \o t \in Seq(Nat) /\ Len(<<c>> \o t) = Len(C)
        /\ \A i \in 1 .. Len(C) : (<<c>> \o t)[i] = C[i]
    BY <1>1
  <2> DEFINE d == <<c>> \o t
  <2> HIDE DEF d
  <2>2. d \in Seq(Nat) /\ Len(d) = Len(C) /\ \A i \in 1 .. Len(C) : d[i] = C[i]
    BY <2>1 DEF d
  <2>3. d = C
    BY <1>1, <2>2, SeqEqual
  <2>4. QED
    BY <2>3 DEF d
<1> HIDE DEF c, t
<1>4. y \in Seq(Nat)
  BY <1>1, <1>2, Longer
<1>5. C \o Y = <<c>> \o y
  <2> DEFINE u == <<c>>
  <2>1. IsBytes(u) /\ IsBytes(t) /\ IsBytes(Y)
    BY <1>2 DEF IsBytes
  <2>2. C = u \o t
    BY <1>3
  <2> HIDE DEF u
  <2>3. Regroup(u, t, Y)
    BY <2>1, GroupedBytes
  <2>4. C \o Y = u \o (t \o Y)
    BY <2>2, <2>3 DEF Regroup
  <2>5. QED
    BY <2>4 DEF u
<1> HIDE DEF y
<1>6. <<c>> \o y # <<>> /\ Head(<<c>> \o y) = c /\ Tail(<<c>> \o y) = y
  BY <1>2, <1>4, FirstOf
<1>7. QED
  BY <1>2, <1>5, <1>6 DEF c, t, y, IsBytes

LEMMA CutTurn ==
  ASSUME NEW q, Open(q), SegmentFits(q), NEW base, NEW C, IsBytes(C), C # <<>>,
         NEW Y, IsBytes(Y), Len(Y) > 0, C \o Y = WinBytes(q.w)
  PROVE  NextWindow(WinState(base, Before(q), C)).err # "OK"
<1> DEFINE ind == q.w.ind
           B == OpenBody(q)
           z == Zeros(ind)
           k == ChecksumLen(ind)
           F == Frame(q.w, B, <<>>)
           s3 == z \o <<>>
           s2 == B \o s3
           s1 == Vint(Len(B)) \o s2
           T == Tail(C)
           r == WinState(base, Before(q), C)
           s == IntsOf(ind, T)
           w == ReadInt(Unread(s.rest))
           of == SegmentOf(ind, base, Before(q))
<1>1. IsBytes(<<>>)
  BY EmptySeq DEF IsBytes
<1>2. /\ WinBytes(q.w) \o <<>> = F /\ FrameParts(q.w, B, <<>>)
      /\ IsBytes(B) /\ Short(Len(B)) /\ IsBytes(z) /\ Len(z) = k /\ k \in Nat
  BY <1>1, FrameParted
<1>3. WinBytes(q.w) = F
  <2>1. WinBytes(q.w) \in Seq(Nat)
    BY FrameIs DEF IsBytes
  <2> HIDE DEF F
  <2>2. WinBytes(q.w) \o <<>> = WinBytes(q.w)
    BY <2>1, ConcatEmptySeq
  <2>3. QED
    BY <1>2, <2>2
<1>4. F # <<>> /\ Head(F) = ind /\ Tail(F) = Ints(q.w) \o s1 /\ IsBytes(s1) /\ IsBytes(s2) /\ IsBytes(s3)
  BY <1>2, Zenon DEF FrameParts
<1>5. Len(s2) = Len(B) + k /\ Len(B) \in Nat
  <2>1. s3 = z
    BY <1>2, ConcatEmptySeq DEF IsBytes
  <2>2. B \in Seq(Nat) /\ z \in Seq(Nat)
    BY <1>2 DEF IsBytes
  <2> HIDE DEF B, z
  <2>3. Len(B \o z) = Len(B) + Len(z) /\ Len(B) \in Nat
    BY <2>2, Longer
  <2>4. QED
    BY <1>2, <2>1, <2>3
<1> HIDE DEF F, s1, s2, s3, T, B, k, z
<1>6. IsBytes(T) /\ Head(C) = ind /\ T \o Y = Ints(q.w) \o s1
  <2>1. IsBytes(T) /\ Head(C \o Y) = Head(C) /\ Tail(C \o Y) = T \o Y
    BY FirstAndRest DEF T
  <2>2. QED
    BY <1>3, <1>4, <2>1
<1>7. r.err = "OK" /\ r.rest = C /\ r.source = base /\ r.out = Before(q)
  BY DEF WinState
<1>8. NextWindow(r) = DecodeNext(r, ind, s, w, of)
  <2> HIDE DEF r
  <2>1. NextWindow(r) =
           DecodeNext(r, Head(r.rest), IntsOf(Head(r.rest), Tail(r.rest)),
                      ReadInt(Unread(IntsOf(Head(r.rest), Tail(r.rest)).rest)),
                      SegmentOf(Head(r.rest), r.source, r.out))
    BY <1>7, NextWindowIs
  <2> HIDE DEF ind
  <2>2. QED
    BY <1>6, <1>7, <2>1 DEF T
<1>9. ~(s.ok /\ w.ok /\ WholeWindow(w.rest, w.vals[1], ind))
  <2>1. SUFFICES ASSUME s.ok, w.ok, WholeWindow(w.rest, w.vals[1], ind) PROVE FALSE
    OBVIOUS
  <2>2. PICK vals, x : IntsCutAt(ind, T, Y, vals, x)
    BY <1>6, <2>1, IntsCut
  <2>3. IsBytes(x) /\ s = Reading(vals, x) /\ IntsOf(ind, T \o Y) = Reading(vals, x \o Y)
    BY <2>2 DEF IntsCutAt
  <2>4. IntsOf(ind, T \o Y) = Reading(Vals(q.w), s1)
    <3>1. IntsOf(ind, Ints(q.w) \o s1) = Reading(Vals(q.w), s1)
      BY <1>4, IntsRead
    <3>2. QED
      BY <1>6, <3>1
  <2> DEFINE xy == x \o Y
  <2> HIDE DEF xy, ind
  <2>5. xy = s1
    <3>1. Reading(vals, xy) = Reading(Vals(q.w), s1)
      BY <2>3, <2>4 DEF xy
    <3>2. QED
      BY <3>1, ReadingSame
  <2>6. s.rest = x
    BY <2>3, ReadingParts
  <2>7. w = ReadInt(Reading(<<>>, x))
    BY <2>6, UnreadIs
  <2>8. ReadInt(Reading(<<>>, x)).ok
    BY <2>1, <2>7
  <2>9. PICK v, y : IntCutAt(<<>>, x, Y, v, y)
    BY <2>3, <2>8, IntCut
  <2> DEFINE a == Append(<<>>, v)
             yy == y \o Y
  <2>10. IsBytes(y) /\ w = Reading(a, y) /\ ReadInt(Reading(<<>>, xy)) = Reading(a, yy)
    BY <2>7, <2>9 DEF IntCutAt, xy
  <2>11. ReadInt(Reading(<<>>, s1)) = Reading(Append(<<>>, Len(B)), s2)
    BY <1>2, <1>4, ShortBytes DEF s1
  <2>12. Append(<<>>, Len(B)) = <<Len(B)>>
    BY <1>5, PairAppended
  <2> HIDE DEF a, yy, w
  <2>13. a = <<Len(B)>> /\ yy = s2
    <3>1. Reading(a, yy) = Reading(<<Len(B)>>, s2)
      BY <2>5, <2>10, <2>11, <2>12
    <3>2. QED
      BY <3>1, ReadingSame
  <2>14. w.vals[1] = Len(B) /\ w.rest = y
    <3>1. w.vals = <<Len(B)>> /\ w.rest = y
      BY <2>10, <2>13, ReadingParts
    <3>2. QED
      BY <3>1
  <2>15. Len(y) >= Len(B) + k
    BY <2>1, <2>14 DEF WholeWindow, k
  <2>16. Len(yy) = Len(y) + Len(Y) /\ Len(y) \in Nat /\ Len(Y) \in Nat
    <3>1. y \in Seq(Nat) /\ Y \in Seq(Nat)
      BY <2>10 DEF IsBytes
    <3>2. QED
      BY <3>1, Longer DEF yy
  <2>17. Len(yy) = Len(B) + k
    BY <1>5, <2>13
  <2>18. QED
    BY <1>2, <1>5, <2>15, <2>16, <2>17
<1>10. NextWindow(r).err # "OK"
  <2> HIDE DEF of, w, s
  <2>1. DecodeNext(WinState(base, Before(q), C), ind, s, w, of).err # "OK"
    <3> HIDE DEF ind
    <3>1. QED
      BY <1>9, DecodeNextStops
  <2>2. QED
    BY <1>8, <2>1 DEF r
<1>11. QED
  BY <1>10 DEF r

-----------------------------------------------------------------------------
(* The windows in a row.                                                   *)

BytesOfWins(ws) == [k \in DOMAIN ws |-> WindowBytes(ws[k], InstBytes(ws[k].prog))]
WinsUpTo(ws, m) == ConcatUpTo(BytesOfWins(ws), m)
NoBase(ws, m) == \A k \in 1 .. m : ~Bit(ws[k].ind, 1)
BaseOf(n) == SubSeq(Source, 1, n)

\* The first m windows are read up to the text t, whatever follows them; with a base
\* that is too short, if one of them refers to the base, they are refused.
DecodesFor(ws, m, t, n, R) ==
  LET r == WindowsRun(WinState(BaseOf(n), <<>>, WinsUpTo(ws, m) \o R), m)
  IN IF n = Len(Source) \/ NoBase(ws, m) THEN r = WinState(BaseOf(n), t, R) ELSE r.err # "OK"
Decodes(ws, m, t) == \A n \in 0 .. Len(Source) : \A R : IsBytes(R) => DecodesFor(ws, m, t, n, R)

LEMMA BaseIs ==
  /\ BaseOf(Len(Source)) = Source /\ Len(Source) \in Nat /\ Source \in Seq(Nat)
  /\ \A n \in 0 .. Len(Source) : Len(BaseOf(n)) = n
<1>1. Source \in Seq(Nat)
  <2>1. Source \in Seq(0 .. 255)
    BY VcdiffAssumption
  <2>2. ASSUME NEW s \in Seq(0 .. 255)
        PROVE  s \in Seq(Nat)
    <3>1. Len(s) \in Nat /\ s \in [1 .. Len(s) -> 0 .. 255]
      BY LenProperties
    <3>2. \A i \in 1 .. Len(s) : s[i] \in 0 .. 255
      BY <3>1
    <3>3. \A i \in 0 .. 255 : i \in Nat
      OBVIOUS
    <3> DEFINE k == Len(s)
    <3> HIDE DEF k
    <3>4. s \in [1 .. k -> Nat]
      BY <3>1, <3>3 DEF k
    <3>5. QED
      BY <3>1, <3>4 DEF k
  <2>3. QED
    BY <2>1, <2>2
<1>2. Len(Source) \in Nat /\ SubSeq(Source, 1, Len(Source)) = Source
      /\ \A n \in 0 .. Len(Source) : Len(SubSeq(Source, 1, n)) = n
  BY <1>1
<1>3. QED
  BY <1>1, <1>2 DEF BaseOf

LEMMA WinsUpToNext ==
  ASSUME NEW ws, NEW m \in Nat, m + 1 \in DOMAIN ws
  PROVE  /\ WinsUpTo(ws, 0) = <<>>
         /\ WinsUpTo(ws, m + 1) = WinsUpTo(ws, m) \o WinBytes(ws[m + 1])
<1> DEFINE ss == BytesOfWins(ws)
<1>1. ss[m + 1] = WinBytes(ws[m + 1])
  BY DEF BytesOfWins, WinBytes
<1> HIDE DEF ss
<1>2. ConcatUpTo(ss, 0) = <<>> /\ ConcatUpTo(ss, m + 1) = ConcatUpTo(ss, m) \o ss[m + 1]
  BY ConcatLoop
<1>3. QED
  BY <1>1, <1>2 DEF WinsUpTo, ss

LEMMA DecodesNone ==
  ASSUME NEW ws
  PROVE  Decodes(ws, 0, <<>>)
<1>1. ASSUME NEW n \in 0 .. Len(Source), NEW R, IsBytes(R)
      PROVE  DecodesFor(ws, 0, <<>>, n, R)
  <2>1. WinsUpTo(ws, 0) = <<>>
    BY ConcatLoop DEF WinsUpTo
  <2>2. <<>> \o R = R
    BY <1>1, EmptyBefore DEF IsBytes
  <2>3. NoBase(ws, 0)
    BY DEF NoBase
  <2> DEFINE r == WinState(BaseOf(n), <<>>, R)
  <2> HIDE DEF r
  <2>4. WindowsRun(r, 0) = r
    BY WindowLoop
  <2>5. QED
    BY <2>1, <2>2, <2>3, <2>4 DEF DecodesFor, r
<1>2. QED
  BY <1>1 DEF Decodes

LEMMA DecodesSame ==
  ASSUME NEW ws, NEW us, NEW m \in Nat, NEW t, Decodes(ws, m, t),
         \A k \in 1 .. m : k \in DOMAIN ws /\ k \in DOMAIN us /\ ws[k] = us[k]
  PROVE  Decodes(us, m, t) /\ WinsUpTo(us, m) = WinsUpTo(ws, m)
<1>1. WinsUpTo(us, m) = WinsUpTo(ws, m)
  <2> DEFINE xs == BytesOfWins(ws)
             ys == BytesOfWins(us)
  <2>1. \A k \in 1 .. m : ys[k] = xs[k]
    BY DEF BytesOfWins
  <2> HIDE DEF xs, ys
  <2>2. ConcatUpTo(ys, m) = ConcatUpTo(xs, m)
    BY <2>1, ConcatOfSame
  <2>3. QED
    BY <2>2 DEF WinsUpTo, xs, ys
<1>2. NoBase(us, m) <=> NoBase(ws, m)
  BY DEF NoBase
<1>3. ASSUME NEW n \in 0 .. Len(Source), NEW R, IsBytes(R)
      PROVE  DecodesFor(us, m, t, n, R)
  <2>1. DecodesFor(ws, m, t, n, R)
    BY <1>3 DEF Decodes
  <2>2. QED
    BY <1>1, <1>2, <2>1 DEF DecodesFor
<1>4. QED
  BY <1>1, <1>3 DEF Decodes

LEMMA DecodesMore ==
  ASSUME NEW ws, NEW m \in Nat, m + 1 \in DOMAIN ws, NEW q, Open(q), SegmentFits(q), ws[m + 1] = q.w,
         IsBytes(WinsUpTo(ws, m)), Decodes(ws, m, Before(q))
  PROVE  Decodes(ws, m + 1, q.text)
<1> DEFINE P == WinsUpTo(ws, m)
           W == WinBytes(q.w)
<1>1. WinsUpTo(ws, m + 1) = P \o W
  BY WinsUpToNext
<1>2. IsBytes(W) /\ IsBytes(P)
  BY FrameIs
<1>3. NoBase(ws, m + 1) <=> NoBase(ws, m) /\ ~Bit(q.w.ind, 1)
  <2>1. 1 .. m + 1 = (1 .. m) \cup {m + 1}
    OBVIOUS
  <2>2. QED
    BY <2>1 DEF NoBase
<1> HIDE DEF P, W
<1>4. ASSUME NEW n \in 0 .. Len(Source), NEW R, IsBytes(R)
      PROVE  DecodesFor(ws, m + 1, q.text, n, R)
  <2> DEFINE b == BaseOf(n)
             Y == W \o R
             r == WinState(b, <<>>, P \o Y)
             s == WinState(b, Before(q), Y)
  <2>1. (P \o W) \o R = P \o Y
    <3>1. Regroup(P, W, R)
      BY <1>2, <1>4, GroupedBytes
    <3>2. QED
      BY <3>1 DEF Regroup
  <2>2. IsBytes(Y)
    BY <1>2, <1>4, MoreBytes
  <2> HIDE DEF Y
  <2>3. DecodesFor(ws, m, Before(q), n, Y)
    BY <2>2 DEF Decodes
  <2>4. IF n = Len(Source) \/ NoBase(ws, m) THEN WindowsRun(r, m) = s ELSE WindowsRun(r, m).err # "OK"
    BY <2>3, Zenon DEF DecodesFor, P
  <2>5. WindowsRun(r, m + 1) = NextWindow(WindowsRun(r, m))
    <3> HIDE DEF r
    <3>1. QED
      BY WindowLoop
  <2> DEFINE more == WindowsRun(r, m + 1)
  <2>6. IF n = Len(Source) \/ NoBase(ws, m + 1) THEN more = WinState(b, q.text, R) ELSE more.err # "OK"
    <3>1. CASE n = Len(Source) \/ (NoBase(ws, m) /\ ~Bit(q.w.ind, 1))
      <4>1. more = NextWindow(s)
        BY <2>4, <2>5, <3>1
      <4>2. Bit(q.w.ind, 1) => b = Source
        BY <3>1, BaseIs
      <4>3. NextWindow(s) = WinState(b, q.text, R)
        <5> HIDE DEF b
        <5>1. QED
          BY <1>4, <4>2, WindowTurn DEF Y, W
      <4>4. QED
        BY <1>3, <3>1, <4>1, <4>3
    <3>2. CASE n # Len(Source) /\ NoBase(ws, m) /\ Bit(q.w.ind, 1)
      <4>1. more = NextWindow(s)
        BY <2>4, <2>5, <3>2
      <4>2. Len(b) \in Nat /\ Len(b) < Len(Source)
        <5>1. Len(b) = n /\ Len(Source) \in Nat
          BY BaseIs
        <5> HIDE DEF b
        <5>2. QED
          BY <3>2, <5>1
      <4>3. NextWindow(s).err # "OK"
        <5> HIDE DEF b
        <5>1. QED
          BY <1>4, <3>2, <4>2, ShortTurn DEF Y, W
      <4>4. QED
        BY <1>3, <3>2, <4>1, <4>3
    <3>3. CASE n # Len(Source) /\ ~NoBase(ws, m)
      <4> DEFINE e == WindowsRun(r, m)
      <4>1. e.err # "OK"
        BY <2>4, <3>3
      <4> HIDE DEF e
      <4>2. NextWindow(e) = e
        BY <4>1, Zenon DEF NextWindow
      <4>3. more = e
        BY <2>5, <4>2 DEF e
      <4> HIDE DEF more
      <4>4. QED
        BY <1>3, <3>3, <4>1, <4>3
    <3>4. QED
      BY <3>1, <3>2, <3>3
  <2>7. more = WindowsRun(WinState(BaseOf(n), <<>>, WinsUpTo(ws, m + 1) \o R), m + 1)
    BY <1>1, <2>1
  <2> HIDE DEF more
  <2>8. QED
    BY <2>6, <2>7, Zenon DEF DecodesFor, b
<1>5. QED
  BY <1>4 DEF Decodes

-----------------------------------------------------------------------------
(* A new window.                                                           *)

NewDraft(start, seg, t, ind, len, pos) ==
  DraftOf(NewCaches(start, seg), t, WinOf(ind, len, pos, 0, <<>>, <<>>, <<>>), <<>>)

NearZero == [i \in 0 .. S_NEAR - 1 |-> 0]

LEMMA NewDraftParts ==
  ASSUME NEW start, NEW seg, NEW t, NEW ind, NEW len, NEW pos, NEW q, q = NewDraft(start, seg, t, ind, len, pos)
  PROVE  /\ q = DraftOf(EncOf(q.e.start, q.e.seg, q.e.near, q.e.next, q.e.same), q.text,
                 WinOf(q.w.ind, q.w.len, q.w.pos, q.w.size, q.w.prog, q.w.data, q.w.addr), q.sizes)
         /\ q.e.start = start /\ q.e.seg = seg /\ q.e.near = NearZero /\ q.e.next = 0 /\ q.e.same = <<>>
         /\ q.text = t /\ q.sizes = <<>>
         /\ q.w.ind = ind /\ q.w.len = len /\ q.w.pos = pos /\ q.w.size = 0
         /\ q.w.prog = <<>> /\ q.w.data = <<>> /\ q.w.addr = <<>>
<1> DEFINE e == EncOf(start, seg, NearZero, 0, <<>>)
           w == WinOf(ind, len, pos, 0, <<>>, <<>>, <<>>)
<1>1. NewCaches(start, seg) = e
  BY DEF NewCaches, EncOf, NearZero
<1>2. e.start = start /\ e.seg = seg /\ e.near = NearZero /\ e.next = 0 /\ e.same = <<>>
  BY EncParts
<1>3. /\ w.ind = ind /\ w.len = len /\ w.pos = pos /\ w.size = 0
      /\ w.prog = <<>> /\ w.data = <<>> /\ w.addr = <<>>
  BY WinParts
<1> HIDE DEF e, w
<1>4. q = DraftOf(e, t, w, <<>>)
  BY <1>1 DEF NewDraft, w
<1>5. q.e = e /\ q.text = t /\ q.w = w /\ q.sizes = <<>>
  BY <1>4, DraftParts
<1>6. /\ q.e.start = start /\ q.e.seg = seg /\ q.e.near = NearZero /\ q.e.next = 0 /\ q.e.same = <<>>
      /\ q.w.ind = ind /\ q.w.len = len /\ q.w.pos = pos /\ q.w.size = 0
      /\ q.w.prog = <<>> /\ q.w.data = <<>> /\ q.w.addr = <<>>
  BY <1>2, <1>3, <1>5
<1>7. /\ EncOf(q.e.start, q.e.seg, q.e.near, q.e.next, q.e.same) = e
      /\ WinOf(q.w.ind, q.w.len, q.w.pos, q.w.size, q.w.prog, q.w.data, q.w.addr) = w
  BY <1>6 DEF e, w
<1>8. QED
  BY <1>4, <1>5, <1>6, <1>7

LEMMA NoInstBytes == <<>> \in Seq(ProgStep) /\ InstBytes(<<>>) = <<>> /\ Len(<<>>) = 0
<1>1. <<>> \in Seq(ProgStep) /\ Len(<<>>) = 0
  BY EmptySeq
<1>2. InstBytes(<<>>) = ConcatUpTo(StepsOf(<<>>), Len(<<>>))
  BY <1>1, InstBytesAre
<1> DEFINE ss == StepsOf(<<>>)
<1> HIDE DEF ss
<1>3. ConcatUpTo(ss, 0) = <<>>
  BY ConcatLoop
<1>4. QED
  BY <1>1, <1>2, <1>3 DEF ss

LEMMA NewOpenReads ==
  ASSUME NEW seg, NEW t \in Seq(Nat), NEW ind, NEW len, NEW pos, NEW q,
         q = NewDraft(Len(t), seg, t, ind, len, pos)
  PROVE  OpenReads(q) /\ Before(q) = t
<1>1. /\ q.e.start = Len(t) /\ q.e.near = NearZero /\ q.e.next = 0 /\ q.e.same = <<>> /\ q.text = t
      /\ q.w.prog = <<>> /\ q.w.data = <<>> /\ q.w.addr = <<>>
  BY NewDraftParts
<1>2. SubSeq(t, 1, Len(t)) = t
  OBVIOUS
<1>3. SubSeq(q.text, 1, q.e.start) = t
  BY <1>1, <1>2
<1>4. ASSUME NEW x \in Seq(Nat), NEW y \in Seq(Nat), NEW z \in Seq(Nat)
      PROVE  OpcodesRun(FreshState(SubSeq(q.text, 1, q.e.start), q.w.data \o x, InstBytes(q.w.prog) \o y, q.w.addr \o z),
                        Len(q.w.prog), RoomOf(q)) = StateOf(q, x, y, z)
  <2>1. <<>> \o x = x /\ <<>> \o y = y /\ <<>> \o z = z
    BY EmptyBefore
  <2>2. InstBytes(q.w.prog) = <<>> /\ Len(q.w.prog) = 0
    BY <1>1, NoInstBytes
  <2> DEFINE d == FreshState(t, x, y, z)
             win == RoomOf(q)
  <2>3. FreshState(SubSeq(q.text, 1, q.e.start), q.w.data \o x, InstBytes(q.w.prog) \o y, q.w.addr \o z) = d
    BY <1>1, <1>3, <2>1, <2>2
  <2>4. d = StateOf(q, x, y, z)
    BY <1>1 DEF FreshState, StateOf, NearZero
  <2> HIDE DEF d, win
  <2>5. OpcodesRun(d, 0, win) = d
    BY OpcodeLoop
  <2>6. QED
    BY <2>2, <2>3, <2>4, <2>5 DEF win
<1>5. QED
  BY <1>3, <1>4 DEF OpenReads, Before

\* What the segment of a new window is taken from.
OfText(ind, t) == CASE ind % 4 = 0 -> <<>> [] ind % 4 = 1 -> Source [] ind % 4 = 2 -> t

SegmentOK(t, ind, pos, len, seg) ==
  /\ seg \in Seq(Nat) /\ Len(seg) < Pow27 /\ Short(len) /\ Short(pos)
  /\ ind % 4 = 0 => seg = <<>>
  /\ ind % 4 # 0 => OfText(ind, t) = SegmentOf(ind, Source, t) /\ pos + len = Len(OfText(ind, t))

LEMMA NewSegment ==
  ASSUME NEW t \in Seq(Nat), Len(t) <= Capacity, NEW ind \in {0, 1, 2, 4, 5, 6},
         NEW pos \in Nat, ind % 4 = 0 => pos = 0,
         NEW len, len = Len(OfText(ind, t)) - pos, ind % 4 # 0 => len > 0
  PROVE  SegmentOK(t, ind, pos, len, SubSeq(OfText(ind, t), pos + 1, pos + len))
<1> DEFINE of == OfText(ind, t)
           seg == SubSeq(of, pos + 1, pos + len)
<1>1. Source \in Seq(Nat) /\ Len(Source) \in Nat
  BY BaseIs
<1>2. Capacity \in Nat /\ Len(Source) + Capacity < Pow27 /\ Pow27 \in Nat
  <2>1. Pow27 \in Nat
    BY SMT DEF Pow27
  <2>2. QED
    BY <2>1, VcdiffAssumption
<1>3. /\ ind % 4 = 0 => of = <<>>
      /\ ind % 4 = 1 => of = Source
      /\ ind % 4 = 2 => of = t
  BY DEF OfText
<1>4. /\ ind % 4 = 0 \/ ind % 4 = 1 \/ ind % 4 = 2
      /\ Bit(ind, 1) <=> ind % 4 = 1
  BY IndicatorIs
<1> HIDE DEF of
<1>5. of \in Seq(Nat) /\ Len(of) < Pow27 /\ Len(of) \in Nat
  <2>1. CASE ind % 4 = 0
    <3>1. <<>> \in Seq(Nat) /\ Len(<<>>) = 0
      BY EmptySeq
    <3>2. QED
      BY <1>1, <1>2, <1>3, <2>1, <3>1
  <2>2. CASE ind % 4 = 1
    BY <1>1, <1>2, <1>3, <2>2
  <2>3. CASE ind % 4 = 2
    <3>1. Len(t) \in Nat
      OBVIOUS
    <3>2. QED
      BY <1>1, <1>2, <1>3, <2>3, <3>1
  <2>4. QED
    BY <1>4, <2>1, <2>2, <2>3
<1>6. pos + len = Len(of) /\ len = Len(of) - pos
  BY <1>5 DEF of
<1>7. len \in Nat /\ pos <= Len(of)
  <2>1. CASE ind % 4 = 0
    <3>1. Len(of) = 0
      BY <1>3, <2>1, EmptySeq
    <3>2. QED
      BY <1>6, <2>1, <3>1
  <2>2. CASE ind % 4 # 0
    BY <1>5, <1>6, <2>2
  <2>3. QED
    BY <2>1, <2>2
<1>8. seg \in Seq(Nat) /\ Len(seg) = len
  BY <1>5, <1>6, <1>7, SliceIs
<1>9. Short(len) /\ Short(pos) /\ Len(seg) < Pow27
  BY <1>2, <1>5, <1>6, <1>7, <1>8 DEF Short
<1>10. ind % 4 = 0 => seg = <<>>
  <2>1. ASSUME ind % 4 = 0 PROVE Len(seg) = 0
    <3>1. Len(of) = 0
      BY <1>3, <2>1, EmptySeq
    <3>2. QED
      BY <1>6, <1>8, <2>1, <3>1
  <2> HIDE DEF seg
  <2>2. QED
    BY <1>8, <2>1, EmptySeq
<1>11. ind % 4 # 0 => of = SegmentOf(ind, Source, t)
  BY <1>3, <1>4 DEF SegmentOf
<1>12. QED
  BY <1>6, <1>8, <1>9, <1>10, <1>11 DEF of, SegmentOK

\* A draft of a new window, and what holds of one.
NewDraftOf(t, ind, pos, len, q) ==
  /\ t \in Seq(Nat) /\ Len(t) <= Capacity /\ ind \in {0, 1, 2, 4, 5, 6}
  /\ pos \in Nat /\ (ind % 4 = 0 => pos = 0)
  /\ len = Len(OfText(ind, t)) - pos /\ (ind % 4 # 0 => len > 0)
  /\ q = NewDraft(Len(t), SubSeq(OfText(ind, t), pos + 1, pos + len), t, ind, len, pos)
OpenBehind(t, q) == Open(q) /\ SegmentFits(q) /\ Before(q) = t

LEMMA NewWindowOpens ==
  ASSUME NEW t, NEW ind, NEW pos, NEW len, NEW q, NewDraftOf(t, ind, pos, len, q)
  PROVE  OpenBehind(t, q)
<1> SUFFICES Open(q) /\ SegmentFits(q) /\ Before(q) = t
  BY Zenon DEF OpenBehind
<1> t \in Seq(Nat) /\ Len(t) <= Capacity /\ ind \in {0, 1, 2, 4, 5, 6}
  BY Zenon DEF NewDraftOf
<1> pos \in Nat /\ (ind % 4 = 0 => pos = 0)
  BY Zenon DEF NewDraftOf
<1> len = Len(OfText(ind, t)) - pos /\ (ind % 4 # 0 => len > 0)
  BY Zenon DEF NewDraftOf
<1> q = NewDraft(Len(t), SubSeq(OfText(ind, t), pos + 1, pos + len), t, ind, len, pos)
  BY Zenon DEF NewDraftOf
<1> DEFINE of == OfText(ind, t)
           seg == SubSeq(of, pos + 1, pos + len)
<1>1. /\ seg \in Seq(Nat) /\ Len(seg) < Pow27 /\ Short(len) /\ Short(pos)
      /\ ind % 4 = 0 => seg = <<>>
      /\ ind % 4 # 0 => of = SegmentOf(ind, Source, t) /\ pos + len = Len(of)
  <2>1. SegmentOK(t, ind, pos, len, seg)
    BY NewSegment
  <2> HIDE DEF seg
  <2>2. QED
    BY <2>1 DEF SegmentOK
<1> HIDE DEF seg
<1>2. q = NewDraft(Len(t), seg, t, ind, len, pos)
  BY DEF seg
<1>3. OpenReads(q) /\ Before(q) = t
  BY <1>2, NewOpenReads
<1>4. /\ q = DraftOf(EncOf(q.e.start, q.e.seg, q.e.near, q.e.next, q.e.same), q.text,
                 WinOf(q.w.ind, q.w.len, q.w.pos, q.w.size, q.w.prog, q.w.data, q.w.addr), q.sizes)
      /\ q.e.start = Len(t) /\ q.e.seg = seg /\ q.e.near = NearZero /\ q.e.next = 0 /\ q.e.same = <<>>
      /\ q.text = t /\ q.sizes = <<>>
      /\ q.w.ind = ind /\ q.w.len = len /\ q.w.pos = pos /\ q.w.size = 0
      /\ q.w.prog = <<>> /\ q.w.data = <<>> /\ q.w.addr = <<>>
  BY <1>2, NewDraftParts
<1>5. NearZero \in Near
  BY DEF NearZero, Near, S_NEAR
<1>6. Len(t) \in Nat /\ Len(t) \in 0 .. Len(t)
  OBVIOUS
<1>7. <<>> \in Seq(Nat) /\ Len(<<>>) = 0
  BY EmptySeq
<1>8. /\ q.text \in Seq(Nat) /\ q.sizes \in Seq(Nat) /\ q.w.data \in Seq(Nat) /\ q.w.addr \in Seq(Nat)
      /\ q.e.start \in 0 .. Len(q.text) /\ q.e.seg \in Seq(Nat) /\ Len(q.e.seg) < Pow27
      /\ q.e.near \in Near /\ q.e.next \in 0 .. 3 /\ q.w.size \in Nat
  <2>1. q.text \in Seq(Nat) /\ q.sizes \in Seq(Nat) /\ q.w.data \in Seq(Nat) /\ q.w.addr \in Seq(Nat)
    BY <1>4, <1>7, Zenon
  <2>2. q.e.start \in 0 .. Len(q.text)
    BY <1>4, <1>6, Zenon
  <2>3. q.e.seg \in Seq(Nat) /\ Len(q.e.seg) < Pow27 /\ q.e.near \in Near
    BY <1>1, <1>4, <1>5, Zenon
  <2>4. q.e.next \in 0 .. 3 /\ q.w.size \in Nat
    <3>1. 0 \in 0 .. 3 /\ 0 \in Nat
      OBVIOUS
    <3>2. QED
      BY <1>4, <3>1, Zenon
  <2>5. QED
    BY <2>1, <2>2, <2>3, <2>4
<1>9. Fit(q)
  BY <1>4, <1>8 DEF Fit
<1>10. Open(q)
  <2>1. MaxSection \in Nat
    BY VcdiffAssumption
  <2>2. q.w.prog \in Seq(ProgStep) /\ InstBytes(q.w.prog) = <<>>
    BY <1>4, NoInstBytes
  <2>3. q.w.size = Len(q.text) - q.e.start /\ Len(q.text) <= Capacity
    BY <1>4, <1>6
  <2>4. Len(q.w.data) <= MaxSection /\ Len(q.w.addr) <= MaxSection /\ Len(InstBytes(q.w.prog)) <= MaxSection
    BY <1>4, <1>7, <2>1, <2>2
  <2>5. QED
    BY <1>3, <1>4, <1>9, <2>2, <2>3, <2>4 DEF Open
<1>11. SegmentFits(q)
  <2>1. HasSegment(ind) <=> ind % 4 # 0
    BY IndicatorIs
  <2>2. seg = SubSeq(of, pos + 1, pos + len)
    BY DEF seg
  <2> HIDE DEF of
  <2>3. q.w.ind \in {0, 1, 2, 4, 5, 6} /\ Short(q.w.len) /\ Short(q.w.pos)
    BY <1>1, <1>4, Zenon
  <2>4. ~HasSegment(q.w.ind) => q.e.seg = <<>>
    BY <1>1, <1>4, <2>1, Zenon
  <2>5. ASSUME HasSegment(q.w.ind)
        PROVE  /\ q.w.pos + q.w.len = Len(SegmentOf(q.w.ind, Source, Before(q))) /\ q.w.len > 0
               /\ q.e.seg = SubSeq(SegmentOf(q.w.ind, Source, Before(q)), q.w.pos + 1, q.w.pos + q.w.len)
    <3>1. ind % 4 # 0 /\ q.w.ind = ind /\ q.w.pos = pos /\ q.w.len = len /\ q.e.seg = seg
      BY <1>4, <2>1, <2>5, Zenon
    <3>2. of = SegmentOf(q.w.ind, Source, Before(q)) /\ pos + len = Len(of)
      BY <1>1, <1>3, <3>1, Zenon
    <3>3. QED
      BY <2>2, <3>1, <3>2, Zenon
  <2>6. QED
    BY <2>3, <2>4, <2>5, Zenon DEF SegmentFits
<1>12. QED
  BY <1>3, <1>10, <1>11

LEMMA EmittedOpens ==
  ASSUME NEW q, Open(q), SegmentFits(q), NEW op \in 0 .. 255, NEW g \in Halves(q, s_code_table(op)[1]),
         NEW h \in Halves(g, s_code_table(op)[2]), Len(h.text) <= Capacity,
         Len(h.w.data) <= MaxSection, Len(h.w.addr) <= MaxSection,
         Len(InstBytes(q.w.prog)) + Len(h.sizes) < MaxSection
  PROVE  /\ Open(Emitted(h, op)) /\ SegmentFits(Emitted(h, op)) /\ Before(Emitted(h, op)) = Before(q)
<1> DEFINE f == Emitted(h, op)
<1>1. /\ Fit(q) /\ q.sizes = <<>> /\ Len(q.text) <= Capacity /\ OpenReads(q)
      /\ q.w.prog \in Seq(ProgStep) /\ q.w.size = Len(q.text) - q.e.start
  BY DEF Open
<1>2. OpcodeOK(q, h, op) /\ Fit(h)
  BY <1>1, OpcodeReads
<1>3. /\ OpenReads(f) /\ f.w.prog \in Seq(ProgStep)
      /\ f.e.start = q.e.start /\ f.e.seg = q.e.seg
      /\ f.w.ind = q.w.ind /\ f.w.len = q.w.len /\ f.w.pos = q.w.pos
      /\ \E t \in Seq(Nat) : f.text = q.text \o t /\ f.w.size = q.w.size + Len(t)
      /\ Len(InstBytes(f.w.prog)) = Len(InstBytes(q.w.prog)) + 1 + Len(h.sizes)
  BY <1>1, <1>2, OpenReadsEmit
<1>4. PICK t \in Seq(Nat) : f.text = q.text \o t /\ f.w.size = q.w.size + Len(t)
  BY <1>3
<1>5. q.text \in Seq(Nat) /\ q.e.start \in 0 .. Len(q.text)
  BY <1>1 DEF Fit
<1>6. f.text = h.text /\ f.sizes = <<>> /\ f.w.data = h.w.data /\ f.w.addr = h.w.addr
  <2>1. /\ f.text = h.text /\ f.sizes = <<>>
        /\ f.w = WinOf(h.w.ind, h.w.len, h.w.pos, h.w.size,
                       Append(h.w.prog, [op |-> op, sizes |-> h.sizes]), h.w.data, h.w.addr)
    BY <1>2, EmittedParts
  <2> DEFINE p == Append(h.w.prog, [op |-> op, sizes |-> h.sizes])
  <2>2. f.w = WinOf(h.w.ind, h.w.len, h.w.pos, h.w.size, p, h.w.data, h.w.addr)
    BY <2>1
  <2> HIDE DEF f, p
  <2>3. f.w.data = h.w.data /\ f.w.addr = h.w.addr
    BY <2>2, WinParts
  <2>4. QED
    BY <2>1, <2>3
<1>7. Fit(f)
  BY <1>2, EmittedFit
<1> HIDE DEF f
<1>8. Before(f) = Before(q)
  <2>1. SubSeq(q.text \o t, 1, q.e.start) = SubSeq(q.text, 1, q.e.start)
    BY <1>5, PrefixOfConcat
  <2>2. QED
    BY <1>3, <1>4, <2>1 DEF Before
<1>9. f.w.size = Len(f.text) - f.e.start
  <2> DEFINE a == Len(q.text)
             b == Len(t)
             c == Len(f.text)
             st == q.e.start
  <2>1. c = a + b /\ a \in Nat /\ b \in Nat
    BY <1>4, <1>5, Longer
  <2>2. f.w.size = (a - st) + b /\ f.e.start = st /\ st \in 0 .. a
    BY <1>1, <1>3, <1>4, <1>5
  <2> HIDE DEF a, b, c, st
  <2>3. f.w.size = c - f.e.start
    BY <2>1, <2>2
  <2>4. QED
    BY <2>3 DEF c
<1>10. Len(InstBytes(f.w.prog)) <= MaxSection
  <2> DEFINE a == Len(InstBytes(q.w.prog))
             b == Len(h.sizes)
             c == Len(InstBytes(f.w.prog))
  <2>1. c = a + 1 + b /\ a + b < MaxSection
    BY <1>3
  <2>2. a \in Nat /\ b \in Nat /\ MaxSection \in Nat
    <3>1. InstBytes(q.w.prog) \in Seq(Nat)
      BY <1>1, InstBytesType
    <3>2. h.sizes \in Seq(Nat)
      BY <1>2 DEF Fit
    <3>3. QED
      BY <3>1, <3>2, VcdiffAssumption
  <2> HIDE DEF a, b, c
  <2>3. c <= MaxSection
    BY <2>1, <2>2
  <2>4. QED
    BY <2>3 DEF c
<1>11. Open(f)
  BY <1>3, <1>6, <1>7, <1>9, <1>10 DEF Open
<1>12. SegmentFits(f)
  BY <1>3, <1>8 DEF SegmentFits
<1>13. QED
  BY <1>8, <1>11, <1>12 DEF f

-----------------------------------------------------------------------------
(* The invariant of the encoder.                                           *)

WinType ==
  [ind : {0, 1, 2, 4, 5, 6}, len : Nat, pos : Nat, size : Nat, prog : Seq(ProgStep),
   data : Seq(Nat), addr : Seq(Nat)]

\* Types; every window is bytes, at least one; the open window reads up to the text
\* so far, and the windows before it up to where it starts.
EncInv ==
  /\ text \in Seq(Nat) /\ Len(text) <= Capacity
  /\ wins \in Seq(WinType) /\ (wins = <<>> => text = <<>>)
  /\ \A k \in 1 .. Len(wins) : IsBytes(WinBytes(wins[k])) /\ Len(WinBytes(wins[k])) >= 1
  /\ wins # <<>> => /\ Open(Draft) /\ SegmentFits(Draft)
                    /\ Decodes(wins, Len(wins) - 1, Before(Draft))

LEMMA OpenWin ==
  ASSUME NEW q, Open(q), SegmentFits(q)
  PROVE  q.w \in WinType /\ IsBytes(WinBytes(q.w)) /\ Len(WinBytes(q.w)) >= 1
<1>1. /\ q.w.data \in Seq(Nat) /\ q.w.addr \in Seq(Nat) /\ q.w.size \in Nat /\ q.w.prog \in Seq(ProgStep)
  BY DEF Open, Fit
<1>2. q.w.ind \in {0, 1, 2, 4, 5, 6} /\ q.w.len \in Nat /\ q.w.pos \in Nat
  BY DEF SegmentFits, Short
<1>3. q.w = WinOf(q.w.ind, q.w.len, q.w.pos, q.w.size, q.w.prog, q.w.data, q.w.addr)
  <2> DEFINE w == WinOf(q.w.ind, q.w.len, q.w.pos, q.w.size, q.w.prog, q.w.data, q.w.addr)
             e == EncOf(q.e.start, q.e.seg, q.e.near, q.e.next, q.e.same)
  <2>1. q = DraftOf(e, q.text, w, q.sizes)
    BY DEF Open, Fit
  <2> HIDE DEF w, e
  <2>2. DraftOf(e, q.text, w, q.sizes).w = w
    BY DraftParts
  <2>3. q.w = w
    BY <2>1, <2>2
  <2>4. QED
    BY <2>3 DEF w
<1>4. q.w \in WinType
  <2>1. ASSUME NEW ind \in {0, 1, 2, 4, 5, 6}, NEW len \in Nat, NEW pos \in Nat, NEW size \in Nat,
               NEW prog \in Seq(ProgStep), NEW data \in Seq(Nat), NEW addr \in Seq(Nat)
        PROVE  WinOf(ind, len, pos, size, prog, data, addr) \in WinType
    BY Zenon DEF WinOf, WinType
  <2>2. WinOf(q.w.ind, q.w.len, q.w.pos, q.w.size, q.w.prog, q.w.data, q.w.addr) \in WinType
    BY <1>1, <1>2, <2>1, Zenon
  <2>3. QED
    BY <1>3, <2>2, Zenon
<1>5. IsBytes(WinBytes(q.w))
  BY FrameIs
<1>6. Len(WinBytes(q.w)) >= 1
  <2>1. IsBytes(<<>>)
    BY EmptySeq DEF IsBytes
  <2>2. FrameParts(q.w, OpenBody(q), <<>>) /\ WinBytes(q.w) \o <<>> = Frame(q.w, OpenBody(q), <<>>)
    BY <2>1, FrameParted
  <2>3. Frame(q.w, OpenBody(q), <<>>) # <<>>
    BY <2>2, Zenon DEF FrameParts
  <2> DEFINE s == WinBytes(q.w)
  <2>4. s \o <<>> = s /\ s \in Seq(Nat)
    BY <1>5, ConcatEmptySeq DEF IsBytes
  <2> HIDE DEF s
  <2>5. s # <<>>
    BY <2>2, <2>3, <2>4 DEF s
  <2>6. Len(s) >= 1
    BY <2>4, <2>5, EmptySeq
  <2>7. QED
    BY <2>6 DEF s
<1>7. QED
  BY <1>4, <1>5, <1>6

LEMMA WinsBytes ==
  ASSUME EncInv, NEW m \in 0 .. Len(wins)
  PROVE  IsBytes(WinsUpTo(wins, m)) /\ Len(WinsUpTo(wins, m)) >= m /\ m \in Nat
<1> DEFINE ss == BytesOfWins(wins)
<1>1. wins \in Seq(WinType) /\ \A k \in 1 .. Len(wins) : IsBytes(WinBytes(wins[k])) /\ Len(WinBytes(wins[k])) >= 1
  BY DEF EncInv
<1>2. DOMAIN wins = 1 .. Len(wins) /\ Len(wins) \in Nat /\ m \in Nat /\ m <= Len(wins)
  BY <1>1
<1>3. \A k \in 1 .. m : ss[k] \in Seq(Nat) /\ Len(ss[k]) >= 1
  <2>1. ASSUME NEW k \in 1 .. m PROVE ss[k] \in Seq(Nat) /\ Len(ss[k]) >= 1
    <3>1. k \in 1 .. Len(wins)
      BY <1>2
    <3>2. ss[k] = WinBytes(wins[k])
      BY <1>2, <3>1 DEF BytesOfWins, WinBytes
    <3> HIDE DEF ss
    <3>3. QED
      BY <1>1, <3>1, <3>2 DEF IsBytes
  <2>2. QED
    BY <2>1
<1> HIDE DEF ss
<1>4. ConcatUpTo(ss, m) \in Seq(Nat) /\ Len(ConcatUpTo(ss, m)) >= m
  BY <1>2, <1>3, ConcatType
<1>5. QED
  BY <1>2, <1>4 DEF WinsUpTo, ss, IsBytes

LEMMA DraftIs ==
  ASSUME EncInv, wins # <<>>
  PROVE  /\ Open(Draft) /\ SegmentFits(Draft) /\ Decodes(wins, Len(wins) - 1, Before(Draft))
         /\ Draft.w = wins[Len(wins)] /\ Draft.text = text /\ Draft.sizes = <<>> /\ Draft.e = enc
         /\ Len(wins) \in Nat /\ Len(wins) > 0 /\ Len(wins) - 1 \in Nat /\ DOMAIN wins = 1 .. Len(wins)
         /\ Len(wins) - 1 + 1 = Len(wins)
<1>1. Open(Draft) /\ SegmentFits(Draft) /\ Decodes(wins, Len(wins) - 1, Before(Draft))
  BY DEF EncInv
<1>2. Draft.w = wins[Len(wins)] /\ Draft.text = text /\ Draft.sizes = <<>> /\ Draft.e = enc
  BY DEF Draft, Last
<1>3. wins \in Seq(WinType)
  BY DEF EncInv
<1>4. Len(wins) \in Nat /\ Len(wins) > 0 /\ DOMAIN wins = 1 .. Len(wins)
  BY <1>3, EmptySeq
<1>5. Len(wins) - 1 \in Nat /\ Len(wins) - 1 + 1 = Len(wins)
  BY <1>4
<1>6. QED
  BY <1>1, <1>2, <1>4, <1>5

LEMMA DecodesAll ==
  ASSUME EncInv
  PROVE  Decodes(wins, Len(wins), text)
<1>1. CASE wins = <<>>
  <2>1. text = <<>> /\ Len(wins) = 0
    BY <1>1, EmptySeq DEF EncInv
  <2>2. QED
    BY <2>1, DecodesNone
<1>2. CASE wins # <<>>
  <2> DEFINE m == Len(wins) - 1
             q == Draft
  <2>1. /\ Open(q) /\ SegmentFits(q) /\ Decodes(wins, m, Before(q)) /\ q.text = text
        /\ m \in Nat /\ m + 1 = Len(wins) /\ m + 1 \in DOMAIN wins /\ wins[m + 1] = q.w
    <3>1. /\ Open(q) /\ SegmentFits(q) /\ Decodes(wins, m, Before(q)) /\ q.text = text
          /\ m \in Nat /\ m + 1 = Len(wins) /\ DOMAIN wins = 1 .. Len(wins)
          /\ q.w = wins[Len(wins)] /\ Len(wins) \in Nat /\ Len(wins) > 0
      BY <1>2, DraftIs
    <3> HIDE DEF m, q
    <3>2. QED
      BY <3>1
  <2>2. IsBytes(WinsUpTo(wins, m))
    <3>1. m \in 0 .. Len(wins)
      BY <2>1
    <3>2. QED
      BY <3>1, WinsBytes
  <2> HIDE DEF m, q
  <2>3. Decodes(wins, m + 1, q.text)
    BY <2>1, <2>2, DecodesMore
  <2>4. QED
    BY <2>1, <2>3
<1>3. QED
  BY <1>1, <1>2

LEMMA EncInvInit ==
  ASSUME EncInit
  PROVE  EncInv
<1>1. wins = <<>> /\ text = <<>>
  BY DEF EncInit
<1>2. <<>> \in Seq(Nat) /\ <<>> \in Seq(WinType) /\ Len(<<>>) = 0
  BY EmptySeq
<1>3. Capacity \in Nat
  BY VcdiffAssumption
<1>4. QED
  BY <1>1, <1>2, <1>3 DEF EncInv

\* The windows with another one behind them, or with the last one replaced.
LEMMA EncInvWith ==
  ASSUME EncInv, NEW q, Open(q), SegmentFits(q), Draft' = q, text' = q.text,
         NEW m \in Nat, NEW ws, wins' = ws, ws \in Seq(WinType), Len(ws) = m + 1, ws[m + 1] = q.w,
         m <= Len(wins), \A k \in 1 .. m : ws[k] = wins[k], Decodes(wins, m, Before(q))
  PROVE  EncInv'
<1>1. /\ wins \in Seq(WinType)
      /\ \A k \in 1 .. Len(wins) : IsBytes(WinBytes(wins[k])) /\ Len(WinBytes(wins[k])) >= 1
  BY DEF EncInv
<1>2. DOMAIN wins = 1 .. Len(wins) /\ Len(wins) \in Nat /\ DOMAIN ws = 1 .. m + 1 /\ ws # <<>>
  <2>1. DOMAIN wins = 1 .. Len(wins) /\ Len(wins) \in Nat
    BY <1>1
  <2>2. DOMAIN ws = 1 .. m + 1 /\ ws # <<>>
    BY EmptySeq
  <2>3. QED
    BY <2>1, <2>2
<1>3. q.text \in Seq(Nat) /\ Len(q.text) <= Capacity
  BY DEF Open, Fit
<1>4. \A k \in 1 .. Len(ws) : IsBytes(WinBytes(ws[k])) /\ Len(WinBytes(ws[k])) >= 1
  <2>1. ASSUME NEW k \in 1 .. Len(ws)
        PROVE  IsBytes(WinBytes(ws[k])) /\ Len(WinBytes(ws[k])) >= 1
    <3>1. CASE k = m + 1
      BY <3>1, OpenWin
    <3>2. CASE k # m + 1
      <4>1. k \in 1 .. m /\ k \in 1 .. Len(wins)
        BY <1>2, <3>2
      <4>2. QED
        BY <1>1, <4>1
    <3>3. QED
      BY <3>1, <3>2
  <2>2. QED
    BY <2>1
<1>5. Decodes(ws, m, Before(q))
  <2>1. \A k \in 1 .. m : k \in DOMAIN wins /\ k \in DOMAIN ws /\ wins[k] = ws[k]
    BY <1>2
  <2>2. QED
    BY <2>1, DecodesSame
<1>6. Len(ws) - 1 = m
  OBVIOUS
<1>7. Decodes(ws, Len(ws) - 1, Before(q))
  BY <1>5, <1>6
<1>8. /\ text' \in Seq(Nat) /\ Len(text') <= Capacity
      /\ wins' \in Seq(WinType) /\ (wins' = <<>> => text' = <<>>)
  BY <1>2, <1>3
<1>9. \A k \in 1 .. Len(wins') : IsBytes(WinBytes(wins'[k])) /\ Len(WinBytes(wins'[k])) >= 1
  BY <1>4
<1>10. Open(Draft') /\ SegmentFits(Draft') /\ Decodes(wins', Len(wins') - 1, Before(Draft'))
  BY <1>7
<1>11. QED
  BY <1>8, <1>9, <1>10 DEF EncInv

LEMMA AppendedSeq ==
  ASSUME NEW T, NEW s \in Seq(T), NEW e \in T
  PROVE  /\ Append(s, e) \in Seq(T) /\ Len(Append(s, e)) = Len(s) + 1
         /\ Append(s, e)[Len(s) + 1] = e /\ \A k \in 1 .. Len(s) : Append(s, e)[k] = s[k]
OBVIOUS

LEMMA ReplacedSeq ==
  ASSUME NEW T, NEW s \in Seq(T), NEW e \in T, NEW m \in Nat, Len(s) = m + 1
  PROVE  LET u == [s EXCEPT ![Len(s)] = e]
         IN u \in Seq(T) /\ Len(u) = m + 1 /\ u[m + 1] = e /\ \A k \in 1 .. m : u[k] = s[k]
<1> DEFINE u == [s EXCEPT ![Len(s)] = e]
<1>1. u \in Seq(T) /\ Len(u) = Len(s)
  BY ExceptSeq
<1>2. u[m + 1] = e
  OBVIOUS
<1>3. \A k \in 1 .. m : u[k] = s[k]
  OBVIOUS
<1>4. QED
  BY <1>1, <1>2, <1>3

OpenedAt(ind, pos) ==
  /\ ind % 4 # 0 => Len(OfText(ind, text)) - pos > 0
  /\ wins' = Append(wins, [ind |-> ind, len |-> Len(OfText(ind, text)) - pos, pos |-> pos, size |-> 0,
                           prog |-> <<>>, data |-> <<>>, addr |-> <<>>])
  /\ enc' = NewCaches(Len(text), SubSeq(OfText(ind, text), pos + 1, pos + (Len(OfText(ind, text)) - pos)))

LEMMA OpenWindowKeeps ==
  ASSUME EncInv, OpenWindow
  PROVE  EncInv'
<1>1. PICK ind \in Indicators : \E pos \in (IF ind % 4 = 0 THEN {0} ELSE Starts) : OpenedAt(ind, pos)
  BY Zenon DEF OpenWindow, OfText, OpenedAt
<1>1b. PICK pos \in (IF ind % 4 = 0 THEN {0} ELSE Starts) : OpenedAt(ind, pos)
  BY <1>1
<1> DEFINE of == OfText(ind, text)
           len == Len(of) - pos
           seg == SubSeq(of, pos + 1, pos + len)
           w == WinOf(ind, len, pos, 0, <<>>, <<>>, <<>>)
           q == NewDraft(Len(text), seg, text, ind, len, pos)
           ws == Append(wins, w)
<1>2. text' = text
  BY DEF OpenWindow
<1>3. ind \in {0, 1, 2, 4, 5, 6} /\ pos \in Nat /\ (ind % 4 = 0 => pos = 0)
  <2>1. Indicators \subseteq {0, 1, 2, 4, 5, 6} /\ Starts \subseteq Nat
    BY VcdiffAssumption
  <2>2. CASE ind % 4 = 0
    BY <2>1, <2>2
  <2>3. CASE ind % 4 # 0
    BY <2>1, <2>3
  <2>4. QED
    BY <2>2, <2>3
<1>4. text \in Seq(Nat) /\ Len(text) <= Capacity /\ wins \in Seq(WinType)
  BY DEF EncInv
<1>5. wins' = ws
  BY <1>1b DEF WinOf, OpenedAt
<1>6. enc' = NewCaches(Len(text), seg) /\ (ind % 4 # 0 => len > 0)
  BY <1>1b DEF OpenedAt
<1> HIDE DEF of
<1>7. Open(q) /\ SegmentFits(q) /\ Before(q) = text
  <2> HIDE DEF q, len
  <2>1. len = Len(OfText(ind, text)) - pos
    BY DEF len, of
  <2>2. ind % 4 # 0 => len > 0
    BY <1>6
  <2>3. q = NewDraft(Len(text), SubSeq(OfText(ind, text), pos + 1, pos + len), text, ind, len, pos)
    BY DEF of, q
  <2>4. text \in Seq(Nat) /\ Len(text) <= Capacity
    BY <1>4
  <2>5. ind \in {0, 1, 2, 4, 5, 6} /\ pos \in Nat /\ (ind % 4 = 0 => pos = 0)
    BY <1>3
  <2> HIDE DEF seg
  <2>6. NewDraftOf(text, ind, pos, len, q)
    BY <2>1, <2>2, <2>3, <2>4, <2>5, Zenon DEF NewDraftOf
  <2>7. OpenBehind(text, q)
    BY <2>6, NewWindowOpens, Zenon
  <2>8. QED
    BY <2>7, Zenon DEF OpenBehind
<1>8. q.w = w /\ q.text = text /\ q.sizes = <<>> /\ q.e = NewCaches(Len(text), seg)
  <2> DEFINE e == NewCaches(Len(text), seg)
  <2> HIDE DEF e, w
  <2>1. q = DraftOf(e, text, w, <<>>)
    BY DEF NewDraft, e, w
  <2> HIDE DEF q
  <2>2. QED
    BY <2>1, DraftParts DEF e
<1> HIDE DEF len, seg
<1>9. w \in WinType
  <2> HIDE DEF q
  <2>1. QED
    BY <1>7, <1>8, OpenWin
<1> DEFINE m == Len(wins)
<1>10. ws \in Seq(WinType) /\ Len(ws) = m + 1 /\ ws[m + 1] = w /\ (\A k \in 1 .. m : ws[k] = wins[k]) /\ m \in Nat
  <2> HIDE DEF w
  <2>1. QED
    BY <1>4, <1>9, AppendedSeq
<1>11. Draft' = q
  <2>1. Last(ws) = w
    <3> HIDE DEF ws, w
    <3>1. QED
      BY <1>10 DEF Last
  <2>2. Draft' = [e |-> enc', text |-> text', w |-> Last(wins'), sizes |-> <<>>]
    BY DEF Draft
  <2> HIDE DEF ws, w
  <2>3. Draft' = [e |-> NewCaches(Len(text), seg), text |-> text, w |-> w, sizes |-> <<>>]
    BY <1>2, <1>5, <1>6, <2>1, <2>2
  <2>4. QED
    BY <2>3 DEF NewDraft, DraftOf, w
<1>12. Decodes(wins, m, Before(q))
  BY <1>7, DecodesAll
<1> HIDE DEF q, ws, w, m
<1>13. m <= Len(wins)
  BY <1>10 DEF m
<1>14. QED
  BY <1>2, <1>5, <1>7, <1>8, <1>10, <1>11, <1>12, <1>13, EncInvWith

EmittedAt(op, h) ==
  /\ Len(h.text) <= Capacity /\ Len(h.w.data) <= MaxSection
  /\ Len(h.w.addr) <= MaxSection
  /\ Len(InstBytes(Last(wins).prog)) + Len(h.sizes) < MaxSection
  /\ enc' = h.e /\ text' = h.text
  /\ wins' = [wins EXCEPT ![Len(wins)] = [h.w EXCEPT !.prog = Append(@, [op |-> op, sizes |-> h.sizes])]]

LEMMA EmitKeeps ==
  ASSUME EncInv, NEW op \in Opcodes, Emit(op)
  PROVE  EncInv'
<1>1a. PICK g \in Halves(Draft, s_code_table(op)[1]) : \E h \in Halves(g, s_code_table(op)[2]) : EmittedAt(op, h)
  BY Zenon DEF Emit, EmittedAt
<1>1b. PICK h \in Halves(g, s_code_table(op)[2]) : EmittedAt(op, h)
  BY <1>1a
<1>1. /\ Len(h.text) <= Capacity /\ Len(h.w.data) <= MaxSection
      /\ Len(h.w.addr) <= MaxSection
      /\ Len(InstBytes(Last(wins).prog)) + Len(h.sizes) < MaxSection
      /\ enc' = h.e /\ text' = h.text
      /\ wins' = [wins EXCEPT ![Len(wins)] = [h.w EXCEPT !.prog = Append(@, [op |-> op, sizes |-> h.sizes])]]
  BY <1>1b, Zenon DEF EmittedAt
<1> DEFINE p == Draft
           q == Emitted(h, op)
           m == Len(wins) - 1
           ws == [wins EXCEPT ![Len(wins)] = q.w]
<1>2. wins # <<>>
  BY DEF Emit
<1>3. /\ Open(p) /\ SegmentFits(p) /\ Decodes(wins, m, Before(p))
      /\ p.w = wins[Len(wins)] /\ Len(wins) \in Nat /\ m \in Nat /\ m + 1 = Len(wins)
  BY <1>2, DraftIs
<1>4. op \in 0 .. 255
  BY VcdiffAssumption
<1>5. Len(InstBytes(p.w.prog)) + Len(h.sizes) < MaxSection
  BY <1>1, <1>3 DEF Last
<1>6. q.e = h.e /\ q.text = h.text /\ q.sizes = <<>>
      /\ q.w = [h.w EXCEPT !.prog = Append(@, [op |-> op, sizes |-> h.sizes])]
  BY DEF Emitted
<1>7. Open(q) /\ SegmentFits(q) /\ Before(q) = Before(p)
  <2> HIDE DEF p
  <2>1. g \in Halves(p, s_code_table(op)[1])
    BY DEF p
  <2>2. QED
    BY <1>1, <1>3, <1>4, <1>5, <2>1, EmittedOpens
<1>8. wins' = ws /\ text' = q.text /\ enc' = q.e
  BY <1>1, <1>6
<1>9. q = [e |-> q.e, text |-> q.text, w |-> q.w, sizes |-> q.sizes]
  BY DEF Emitted
<1> HIDE DEF q, p
<1>10. q.w \in WinType
  BY <1>7, OpenWin
<1>11. wins \in Seq(WinType)
  BY DEF EncInv
<1>12. ws \in Seq(WinType) /\ Len(ws) = m + 1 /\ ws[m + 1] = q.w /\ \A k \in 1 .. m : ws[k] = wins[k]
  <2> DEFINE w == q.w
             n == m
  <2>1. n \in Nat /\ Len(wins) = n + 1 /\ w \in WinType
    BY <1>3, <1>10
  <2> HIDE DEF w, n
  <2> DEFINE u == [wins EXCEPT ![Len(wins)] = w]
  <2>2. u \in Seq(WinType) /\ Len(u) = n + 1 /\ u[n + 1] = w /\ \A k \in 1 .. n : u[k] = wins[k]
    BY <1>11, <2>1, ReplacedSeq
  <2> HIDE DEF u
  <2>3. u = ws
    BY DEF u, w
  <2>4. QED
    BY <2>2, <2>3 DEF w, n
<1>13. Draft' = q
  <2>1. Draft' = [e |-> enc', text |-> text', w |-> Last(wins'), sizes |-> <<>>]
    BY DEF Draft
  <2> HIDE DEF ws
  <2>2. Last(ws) = q.w
    BY <1>12 DEF Last
  <2>3. q.sizes = <<>>
    BY <1>6 DEF q
  <2>4. QED
    BY <1>8, <1>9, <2>1, <2>2, <2>3
<1>14. Decodes(wins, m, Before(q))
  BY <1>3, <1>7
<1> HIDE DEF ws, m
<1>15. m <= Len(wins)
  BY <1>3
<1>16. QED
  BY <1>3, <1>7, <1>8, <1>12, <1>13, <1>14, <1>15, EncInvWith

\* In every state the encoder reaches, the bytes of its windows are read, whatever
\* follows them, up to the text they stand for (the loops of vcdiff.c).
THEOREM EncInvariant == EncSpec => []EncInv
<1>1. EncInit => EncInv
  BY EncInvInit
<1>2. ASSUME EncInv, [EncNext]_<<wins, text, enc>> PROVE EncInv'
  <2>1. CASE OpenWindow
    BY <1>2, <2>1, OpenWindowKeeps
  <2>2. CASE \E op \in Opcodes : Emit(op)
    <3>1. PICK op \in Opcodes : Emit(op)
      BY <2>2
    <3>2. QED
      BY <1>2, <3>1, EmitKeeps
  <2>3. CASE UNCHANGED <<wins, text, enc>>
    <3>1. wins' = wins /\ text' = text /\ enc' = enc
      BY <2>3
    <3>2. Draft' = Draft
      BY <3>1 DEF Draft
    <3>3. QED
      BY <1>2, <3>1, <3>2 DEF EncInv
  <2>4. QED
    BY <1>2, <2>1, <2>2, <2>3 DEF EncNext
<1>3. QED
  BY <1>1, <1>2, PTL DEF EncSpec

-----------------------------------------------------------------------------
(* The whole delta.                                                        *)

DeltaHead == VCDIFF_MAGIC \o <<0>>

LEMMA MagicIs ==
  /\ IsBytes(VCDIFF_MAGIC) /\ Len(VCDIFF_MAGIC) = 4 /\ IsBytes(<<0>>) /\ Len(<<0>>) = 1
  /\ IsBytes(DeltaHead) /\ Len(DeltaHead) = 5
<1>1. VCDIFF_MAGIC \in Seq(Nat) /\ Len(VCDIFF_MAGIC) = 4
  BY DEF VCDIFF_MAGIC
<1>2. <<0>> \in Seq(Nat) /\ Len(<<0>>) = 1
  OBVIOUS
<1>3. DeltaHead \in Seq(Nat) /\ Len(DeltaHead) = 5
  <2> DEFINE x == VCDIFF_MAGIC
             y == <<0>>
  <2>1. x \in Seq(Nat) /\ Len(x) = 4 /\ y \in Seq(Nat) /\ Len(y) = 1
    BY <1>1, <1>2
  <2>2. DeltaHead = x \o y
    BY DEF DeltaHead
  <2> HIDE DEF x, y
  <2>3. x \o y \in Seq(Nat) /\ Len(x \o y) = Len(x) + Len(y)
    BY <2>1, Longer
  <2>4. QED
    BY <2>1, <2>2, <2>3
<1>4. QED
  BY <1>1, <1>2, <1>3 DEF IsBytes

LEMMA SecondPart ==
  ASSUME NEW x \in Seq(Nat), NEW y \in Seq(Nat), NEW i \in Len(x) + 1 .. Len(x) + Len(y)
  PROVE  (x \o y)[i] = y[i - Len(x)]
OBVIOUS

LEMMA StartOf ==
  ASSUME NEW x \in Seq(Nat), NEW y \in Seq(Nat)
  PROVE  SubSeq(x \o y, 1, Len(x)) = x
BY PartsOfConcat

LEMMA BehindHead ==
  ASSUME NEW base, NEW P, IsBytes(P)
  PROVE  ably_vcdiff_decode(base, DeltaHead \o P, Capacity) = DecodeWindows(base, P, Capacity)
<1> DEFINE M == VCDIFF_MAGIC
           X == <<0>> \o P
           D == DeltaHead \o P
<1>1. /\ P \in Seq(Nat) /\ M \in Seq(Nat) /\ Len(M) = 4 /\ <<0>> \in Seq(Nat)
      /\ DeltaHead \in Seq(Nat) /\ Len(DeltaHead) = 5
  BY MagicIs DEF IsBytes
<1>2. X \in Seq(Nat) /\ Len(X) = 1 + Len(P) /\ X[1] = 0 /\ Len(P) \in Nat
  BY <1>1
<1>3. D = M \o X
  <2>1. Regroup(VCDIFF_MAGIC, <<0>>, P)
    BY MagicIs, GroupedBytes
  <2>2. QED
    BY <2>1 DEF Regroup, DeltaHead
<1>4. From(D, 5) = P
  <2>1. From(DeltaHead \o P, Len(DeltaHead)) = P
    BY <1>1, FromConcat
  <2>2. QED
    BY <1>1, <2>1
<1> HIDE DEF D, X, M
<1>5. SubSeq(D, 1, 4) = VCDIFF_MAGIC
  <2>1. SubSeq(M \o X, 1, Len(M)) = M
    <3>1. M \in Seq(Nat) /\ X \in Seq(Nat)
      BY <1>1, <1>2, Zenon
    <3>2. QED
      BY <3>1, StartOf
  <2>2. SubSeq(D, 1, 4) = M
    BY <1>1, <1>3, <2>1, Zenon
  <2>3. QED
    BY <2>2, Zenon DEF M
<1>6. Len(D) = 4 + Len(X) /\ D[5] = 0
  <2>1. Len(M \o X) = 4 + Len(X)
    BY <1>1, <1>2, Longer
  <2>2. (M \o X)[5] = X[1]
    <3>1. 5 \in Len(M) + 1 .. Len(M) + Len(X) /\ 5 - Len(M) = 1
      BY <1>1, <1>2
    <3>2. (M \o X)[5] = X[5 - Len(M)]
      BY <1>1, <1>2, <3>1, SecondPart
    <3>3. QED
      BY <3>1, <3>2
  <2>3. QED
    BY <1>2, <1>3, <2>1, <2>2
<1>7. ~Bit(D[5], 1) /\ ~Bit(D[5], 2) /\ ~(Len(D) < 5)
  BY <1>2, <1>6 DEF Bit
<1>8. ably_vcdiff_decode(base, D, Capacity) = DecodeWindows(base, P, Capacity)
  BY <1>4, <1>5, <1>7 DEF ably_vcdiff_decode
<1>9. QED
  BY <1>8 DEF D

\* A delta is decoded as soon as as many windows as it has are.
LEMMA WindowsDecided ==
  ASSUME NEW base, NEW P, IsBytes(P), NEW m \in Nat, Len(P) >= m, NEW e,
         e = WindowsRun(WinState(base, <<>>, P), m), e.err # "OK" \/ e.rest = <<>>
  PROVE  ably_vcdiff_decode(base, DeltaHead \o P, Capacity) = [err |-> e.err, out |-> e.out]
<1> DEFINE r == WinState(base, <<>>, P)
<1>1. Len(P) \in Nat
  BY DEF IsBytes
<1> DEFINE j == Len(P) - m
<1>2. j \in Nat /\ m + j = Len(P)
  BY <1>1
<1>3. DecodeWindows(base, P, Capacity) = [err |-> WindowsRun(r, Len(P)).err, out |-> WindowsRun(r, Len(P)).out]
  BY DEF DecodeWindows, WinState
<1> HIDE DEF r, j
<1>4. e = WindowsRun(r, m)
  BY DEF r
<1>5. WindowsRun(r, m + j) = e
  BY <1>2, <1>4, WindowsIdle
<1>6. WindowsRun(r, Len(P)) = e
  BY <1>2, <1>5
<1>7. QED
  BY <1>3, <1>6, BehindHead

LEMMA DeltaIs ==
  ASSUME EncInv
  PROVE  Delta = DeltaHead \o WinsUpTo(wins, Len(wins))
<1> DEFINE ss == [k \in DOMAIN wins |-> WindowBytes(wins[k], InstBytes(wins[k].prog))]
<1>1. Len(ss) = Len(wins)
  <2>1. wins \in Seq(WinType)
    BY DEF EncInv
  <2>2. DOMAIN ss = 1 .. Len(wins) /\ Len(wins) \in Nat
    BY <2>1
  <2> HIDE DEF ss
  <2>3. QED
    BY <2>2
<1>2. Delta = DeltaHead \o Concat(ss)
  BY DEF Delta, DeltaHead
<1>3. ss = BytesOfWins(wins)
  BY DEF BytesOfWins
<1> HIDE DEF ss
<1>4. Concat(ss) = ConcatUpTo(ss, Len(ss))
  BY DEF Concat, ConcatUpTo
<1>5. QED
  BY <1>1, <1>2, <1>3, <1>4 DEF WinsUpTo

\* In every state the delta decodes against the base it was made for.
LEMMA WholeDecodes ==
  ASSUME EncInv
  PROVE  DeltaDecodes
<1> DEFINE m == Len(wins)
           P == WinsUpTo(wins, m)
           e == WindowsRun(WinState(Source, <<>>, P), m)
<1>1. m \in Nat /\ m \in 0 .. Len(wins)
  BY DEF EncInv
<1>2. IsBytes(P) /\ Len(P) >= m
  BY <1>1, WinsBytes
<1>3. DecodesFor(wins, m, text, Len(Source), <<>>)
  <2>1. IsBytes(<<>>)
    BY EmptySeq DEF IsBytes
  <2>2. Len(Source) \in 0 .. Len(Source)
    BY BaseIs
  <2>3. QED
    BY <2>1, <2>2, DecodesAll DEF Decodes
<1>4. P \o <<>> = P
  BY <1>2, ConcatEmptySeq DEF IsBytes
<1>5. e = WinState(Source, text, <<>>)
  <2> HIDE DEF m
  <2>1. QED
    BY <1>3, <1>4, BaseIs DEF DecodesFor
<1>6. e.err = "OK" /\ e.out = text /\ e.rest = <<>>
  BY <1>5 DEF WinState
<1>7. ably_vcdiff_decode(Source, DeltaHead \o P, Capacity) = [err |-> e.err, out |-> e.out]
  <2> HIDE DEF P, m
  <2>1. e = WindowsRun(WinState(Source, <<>>, P), m)
    OBVIOUS
  <2> HIDE DEF e
  <2>2. QED
    BY <1>1, <1>2, <1>6, <2>1, WindowsDecided
<1>8. QED
  BY <1>6, <1>7, DeltaIs DEF DeltaDecodes

\* DeltaDecodes in every state: whichever address modes, double instructions, segments
\* and checksums a delta uses, ably_vcdiff_decode makes of it the text it stands for.
THEOREM DeltaIsDecoded == EncSpec => []DeltaDecodes
<1>1. EncInv => DeltaDecodes
  BY WholeDecodes
<1>2. QED
  BY <1>1, EncInvariant, PTL

-----------------------------------------------------------------------------
(* Deltas that are cut off, and bases that are too short.                  *)

CutInTwo(W, j, C, Y) == IsBytes(C) /\ IsBytes(Y) /\ Len(C) = j /\ Len(Y) = Len(W) - j /\ C \o Y = W

LEMMA TwoParts ==
  ASSUME NEW W, IsBytes(W), NEW j \in 0 .. Len(W)
  PROVE  CutInTwo(W, j, SubSeq(W, 1, j), From(W, j))
<1> DEFINE C == SubSeq(W, 1, j)
           Y == From(W, j)
           u == C \o Y
<1>1. W \in Seq(Nat) /\ Len(W) \in Nat /\ j \in Nat /\ j <= Len(W)
  BY DEF IsBytes
<1>2. Y \in Seq(Nat) /\ Len(Y) = Len(W) - j /\ \A i \in 1 .. Len(W) - j : Y[i] = W[j + i]
  BY <1>1, FromType
<1>3. C \in Seq(Nat) /\ Len(C) = j /\ \A i \in 1 .. j : C[i] = W[i]
  BY <1>1
<1> HIDE DEF C, Y
<1>4. u \in Seq(Nat) /\ Len(u) = Len(W)
  <2>1. u \in Seq(Nat) /\ Len(u) = Len(C) + Len(Y)
    BY <1>2, <1>3, Longer
  <2>2. QED
    BY <1>1, <1>2, <1>3, <2>1
<1>5. \A i \in 1 .. Len(W) : u[i] = W[i]
  <2> SUFFICES ASSUME NEW i \in 1 .. Len(W) PROVE u[i] = W[i]
    OBVIOUS
  <2>1. CASE i <= j
    <3>1. i \in 1 .. Len(C)
      BY <1>1, <1>3, <2>1
    <3>2. u[i] = C[i]
      BY <1>2, <1>3, <3>1
    <3>3. QED
      BY <1>1, <1>3, <2>1, <3>2
  <2>2. CASE ~(i <= j)
    <3>1. i \in Len(C) + 1 .. Len(C) + Len(Y) /\ i - Len(C) = i - j /\ i - j \in 1 .. Len(W) - j /\ j + (i - j) = i
      BY <1>1, <1>2, <1>3, <2>2
    <3>2. u[i] = Y[i - Len(C)]
      BY <1>2, <1>3, <3>1, SecondPart
    <3>3. Y[i - j] = W[j + (i - j)]
      BY <1>2, <3>1
    <3>4. QED
      BY <3>1, <3>2, <3>3
  <2>3. QED
    BY <2>1, <2>2
<1> HIDE DEF u
<1>6. u = W
  BY <1>1, <1>4, <1>5, SeqEqual
<1>7. QED
  BY <1>2, <1>3, <1>6 DEF CutInTwo, IsBytes, C, Y, u

LEMMA BytesTogether ==
  ASSUME NEW x, NEW y, IsBytes(x), IsBytes(y)
  PROVE  IsBytes(x \o y) /\ Len(x \o y) = Len(x) + Len(y)
BY Longer DEF IsBytes

CutAtByte(D, P, W, n, j, C, Y) ==
  /\ IsBytes(P) /\ IsBytes(W) /\ D = DeltaHead \o (P \o W)
  /\ n \in Len(D) - Len(W) + 1 .. Len(D) - 1 /\ j = n - 5 - Len(P)
  /\ C = SubSeq(W, 1, j) /\ Y = From(W, j)

\* The delta up to a byte of its last window: the windows before, and a part of it.
CutDelta(D, P, n, C, Y) ==
  /\ IsBytes(C) /\ C # <<>> /\ IsBytes(Y) /\ Len(Y) > 0 /\ Len(C) >= 1
  /\ SubSeq(D, 1, n) = DeltaHead \o (P \o C)

LEMMA CutDeltaIs ==
  ASSUME NEW P, NEW W, NEW D, NEW n, NEW j, NEW C, NEW Y, CutAtByte(D, P, W, n, j, C, Y)
  PROVE  CutDelta(D, P, n, C, Y) /\ C \o Y = W
<1> IsBytes(P) /\ IsBytes(W) /\ D = DeltaHead \o (P \o W)
  BY Zenon DEF CutAtByte
<1> n \in Len(D) - Len(W) + 1 .. Len(D) - 1 /\ j = n - 5 - Len(P)
  BY Zenon DEF CutAtByte
<1> C = SubSeq(W, 1, j) /\ Y = From(W, j)
  BY Zenon DEF CutAtByte
<1> DEFINE H == DeltaHead
<1>1. IsBytes(H) /\ Len(H) = 5
  BY MagicIs
<1>2. Len(P) \in Nat /\ Len(W) \in Nat
  BY DEF IsBytes
<1>3. IsBytes(P \o W) /\ Len(P \o W) = Len(P) + Len(W)
  BY Longer DEF IsBytes
<1>4. Len(D) = 5 + (Len(P) + Len(W))
  <2>1. Len(H \o (P \o W)) = Len(H) + Len(P \o W)
    BY <1>1, <1>3, Longer DEF IsBytes
  <2>2. QED
    BY <1>1, <1>3, <2>1
<1>5. j \in 0 .. Len(W) /\ j >= 1 /\ Len(W) - j > 0 /\ n = 5 + (Len(P) + j)
  BY <1>2, <1>4
<1>6. CutInTwo(W, j, C, Y)
  BY <1>5, TwoParts
<1>7. IsBytes(C) /\ IsBytes(Y) /\ Len(C) = j /\ Len(Y) = Len(W) - j /\ C \o Y = W
  BY <1>6, Zenon DEF CutInTwo
<1> HIDE DEF H
<1> DEFINE X == P \o C
           K == H \o X
<1>8. IsBytes(X) /\ Len(X) = Len(P) + j
  <2>1. IsBytes(X) /\ Len(X) = Len(P) + Len(C)
    BY <1>7, BytesTogether, Zenon
  <2>2. QED
    BY <1>7, <2>1, Zenon
<1>9. D = K \o Y
  <2>1. Regroup(P, C, Y)
    BY <1>7, GroupedBytes
  <2>2. X \o Y = P \o W
    BY <1>7, <2>1 DEF Regroup
  <2> HIDE DEF X
  <2>3. Regroup(H, X, Y)
    BY <1>1, <1>7, <1>8, GroupedBytes
  <2>4. K \o Y = H \o (X \o Y)
    BY <2>3 DEF Regroup
  <2>5. QED
    BY <2>2, <2>4 DEF H
<1> HIDE DEF X
<1>10. IsBytes(K) /\ Len(K) = n
  <2>1. IsBytes(K) /\ Len(K) = Len(H) + Len(X)
    BY <1>1, <1>8, Longer DEF IsBytes
  <2>2. QED
    BY <1>1, <1>5, <1>8, <2>1
<1> HIDE DEF K
<1>11. SubSeq(D, 1, n) = K
  <2>1. SubSeq(K \o Y, 1, Len(K)) = K
    BY <1>7, <1>10, PartsOfConcat DEF IsBytes
  <2>2. QED
    BY <1>9, <1>10, <2>1
<1>12. C # <<>>
  <2>1. Len(C) # 0
    BY <1>5, <1>7
  <2>2. Len(<<>>) = 0
    OBVIOUS
  <2>3. QED
    BY <2>1, <2>2, Zenon
<1>13. QED
  BY <1>5, <1>7, <1>11, <1>12 DEF CutDelta, K, X, H

\* A delta that is cut off in its last window is refused by the base it was made for.
LEMMA CutRefused ==
  ASSUME EncInv, wins # <<>>,
         NEW n \in (Len(Delta) - Len(WinBytes(Last(wins)))) + 1 .. Len(Delta) - 1
  PROVE  ably_vcdiff_decode(Source, SubSeq(Delta, 1, n), Capacity).err # "OK"
<1> DEFINE m == Len(wins) - 1
           q == Draft
           P == WinsUpTo(wins, m)
           W == WinBytes(q.w)
           j == n - 5 - Len(P)
           C == SubSeq(W, 1, j)
           Y == From(W, j)
           D == Delta
<1>1. /\ Open(q) /\ SegmentFits(q) /\ Decodes(wins, m, Before(q)) /\ wins[m + 1] = q.w
      /\ m \in Nat /\ m + 1 = Len(wins) /\ m + 1 \in DOMAIN wins
  BY DraftIs
<1>2. Last(wins) = q.w
  BY <1>1 DEF Last
<1>3. m \in 0 .. Len(wins)
  BY <1>1
<1>4. IsBytes(P) /\ Len(P) >= m
  BY <1>3, WinsBytes
<1>5. IsBytes(W)
  <2> HIDE DEF q
  <2>1. QED
    BY <1>1, OpenWin
<1>6. D = DeltaHead \o (P \o W)
  <2>1. WinsUpTo(wins, m + 1) = P \o W
    <3> HIDE DEF m, q
    <3>1. QED
      BY <1>1, WinsUpToNext
  <2>2. Delta = DeltaHead \o WinsUpTo(wins, Len(wins))
    BY DeltaIs
  <2>3. QED
    BY <1>1, <2>1, <2>2
<1>7. n \in Len(D) - Len(W) + 1 .. Len(D) - 1
  BY <1>2
<1> HIDE DEF m, q, P, W, D
<1>7b. j = n - 5 - Len(P) /\ C = SubSeq(W, 1, j) /\ Y = From(W, j)
  OBVIOUS
<1> HIDE DEF j, C, Y
<1>8. CutDelta(D, P, n, C, Y) /\ C \o Y = W
  <2>1. CutAtByte(D, P, W, n, j, C, Y)
    BY <1>4, <1>5, <1>6, <1>7, <1>7b, Zenon DEF CutAtByte
  <2>2. QED
    BY <2>1, CutDeltaIs
<1>9. /\ IsBytes(C) /\ C # <<>> /\ IsBytes(Y) /\ Len(Y) > 0 /\ Len(C) >= 1
      /\ SubSeq(D, 1, n) = DeltaHead \o (P \o C)
  BY <1>8, Zenon DEF CutDelta
<1> DEFINE r == WinState(Source, <<>>, P \o C)
           s == WinState(Source, Before(q), C)
           e == WindowsRun(r, m + 1)
<1>10. WindowsRun(r, m) = s
  <2>1. Len(Source) \in 0 .. Len(Source) /\ BaseOf(Len(Source)) = Source
    BY BaseIs
  <2>2. DecodesFor(wins, m, Before(q), Len(Source), C)
    BY <1>1, <1>9, <2>1 DEF Decodes
  <2>3. QED
    BY <2>1, <2>2, Zenon DEF DecodesFor, P
<1>11. NextWindow(s).err # "OK"
  BY <1>1, <1>8, <1>9, CutTurn DEF W
<1>12. e = NextWindow(s)
  <2> HIDE DEF r, s
  <2>1. WindowsRun(r, m + 1) = NextWindow(WindowsRun(r, m))
    BY <1>1, WindowLoop
  <2>2. QED
    BY <1>10, <2>1
<1>13. e.err # "OK"
  BY <1>11, <1>12
<1>14. IsBytes(P \o C) /\ Len(P \o C) >= m + 1 /\ m + 1 \in Nat
  <2>1. IsBytes(P \o C) /\ Len(P \o C) = Len(P) + Len(C)
    BY <1>4, <1>9, BytesTogether
  <2>2. Len(P) \in Nat /\ Len(C) \in Nat
    BY <1>4, <1>9 DEF IsBytes
  <2>3. QED
    BY <1>1, <1>4, <1>9, <2>1, <2>2
<1>15. e = WindowsRun(WinState(Source, <<>>, P \o C), m + 1)
  OBVIOUS
<1> DEFINE X == P \o C
           k == m + 1
<1> HIDE DEF e, X, r, s, k
<1>16. ably_vcdiff_decode(Source, DeltaHead \o X, Capacity) = [err |-> e.err, out |-> e.out]
  <2>1. IsBytes(X) /\ Len(X) >= k /\ k \in Nat /\ e = WindowsRun(WinState(Source, <<>>, X), k)
    BY <1>14, <1>15 DEF X, k
  <2>2. QED
    BY <1>13, <2>1, WindowsDecided
<1>17. [err |-> e.err, out |-> e.out].err = e.err
  OBVIOUS
<1>18. SubSeq(Delta, 1, n) = DeltaHead \o X
  BY <1>9, Zenon DEF X, D
<1>19. QED
  BY <1>13, <1>16, <1>17, <1>18, Zenon

\* A delta that refers to the base is refused by a base that is shorter.
LEMMA ShortRefused ==
  ASSUME EncInv, NEW n \in 0 .. Len(Source) - 1, NEW k \in DOMAIN wins, Bit(wins[k].ind, 1)
  PROVE  ably_vcdiff_decode(BaseOf(n), Delta, Capacity).err # "OK"
<1> DEFINE m == Len(wins)
           P == WinsUpTo(wins, m)
           b == BaseOf(n)
           e == WindowsRun(WinState(b, <<>>, P), m)
<1>1. m \in Nat /\ m \in 0 .. Len(wins) /\ k \in 1 .. m
  BY DEF EncInv
<1>2. IsBytes(P) /\ Len(P) >= m
  BY <1>1, WinsBytes
<1>3. n \in 0 .. Len(Source) /\ n # Len(Source)
  BY BaseIs
<1>4. ~NoBase(wins, m)
  BY <1>1 DEF NoBase
<1>5. IsBytes(<<>>)
  BY EmptySeq DEF IsBytes
<1>6. DecodesFor(wins, m, text, n, <<>>)
  BY <1>3, <1>5, DecodesAll DEF Decodes
<1>7. P \o <<>> = P
  BY <1>2, ConcatEmptySeq DEF IsBytes
<1>8. e.err # "OK"
  <2> HIDE DEF m
  <2>1. WindowsRun(WinState(b, <<>>, WinsUpTo(wins, m) \o <<>>), m).err # "OK"
    BY <1>3, <1>4, <1>6, Zenon DEF DecodesFor
  <2>2. QED
    BY <1>7, <2>1
<1>9. ably_vcdiff_decode(b, DeltaHead \o P, Capacity) = [err |-> e.err, out |-> e.out]
  <2> HIDE DEF P, m, b
  <2>1. e = WindowsRun(WinState(b, <<>>, P), m)
    OBVIOUS
  <2> HIDE DEF e
  <2>2. QED
    BY <1>1, <1>2, <1>8, <2>1, WindowsDecided
<1>10. Delta = DeltaHead \o P
  BY DeltaIs
<1> HIDE DEF e
<1>11. QED
  BY <1>8, <1>9, <1>10

LEMMA UnfitAre ==
  ASSUME EncInv, wins # <<>>
  PROVE  \A c \in CutOff(Delta, Last(wins)) \cup ShortBase(Delta) : Refuses(c)
<1>1. ASSUME NEW c \in CutOff(Delta, Last(wins)) PROVE Refuses(c)
  <2>1. PICK n \in (Len(Delta) - Len(WinBytes(Last(wins)))) + 1 .. Len(Delta) - 1 :
               c = [base |-> Source, delta |-> SubSeq(Delta, 1, n)]
    BY <1>1 DEF CutOff, WinBytes
  <2>2. ably_vcdiff_decode(Source, SubSeq(Delta, 1, n), Capacity).err # "OK"
    BY CutRefused
  <2>3. c.base = Source /\ c.delta = SubSeq(Delta, 1, n)
    BY <2>1
  <2>4. QED
    BY <2>2, <2>3, Zenon DEF Refuses
<1>2. ASSUME NEW c \in ShortBase(Delta) PROVE Refuses(c)
  <2>1. PICK n \in {i \in 0 .. Len(Source) - 1 : \E k \in DOMAIN wins : Bit(wins[k].ind, 1)} :
               c = [base |-> SubSeq(Source, 1, n), delta |-> Delta]
    BY <1>2 DEF ShortBase
  <2>2. PICK k \in DOMAIN wins : Bit(wins[k].ind, 1)
    BY <2>1
  <2>3. n \in 0 .. Len(Source) - 1
    BY <2>1
  <2>4. ably_vcdiff_decode(BaseOf(n), Delta, Capacity).err # "OK"
    BY <2>2, <2>3, ShortRefused
  <2>5. c.base = BaseOf(n) /\ c.delta = Delta
    BY <2>1 DEF BaseOf
  <2>6. QED
    BY <2>4, <2>5, Zenon DEF Refuses
<1>3. QED
  BY <1>1, <1>2

\* UnfitRefused in every state: neither a delta that is cut off nor one whose base is
\* not at hand is taken by ably_vcdiff_decode for a message.
THEOREM UnfitIsRefused == EncSpec => []UnfitRefused
<1>1. EncInv => UnfitRefused
  <2>1. ASSUME EncInv, wins # <<>>
        PROVE  \A c \in CutOff(Delta, Last(wins)) \cup ShortBase(Delta) : Refuses(c)
    BY <2>1, UnfitAre
  <2>2. QED
    BY <2>1, Zenon DEF UnfitRefused
<1>2. QED
  BY <1>1, EncInvariant, PTL
=============================================================================
