---------------------------- MODULE DetailProofs ----------------------------
(***************************************************************************)
(* What the decoders make of any bytes whatever, what they make of the     *)
(* bytes a peer wrote for a meaning, and what the detail view shows of     *)
(* them.  The bytes are bounded by nothing here, so the walks over them    *)
(* are reasoned about by induction on what is left to read, and the lists  *)
(* a peer writes by induction on their entries.                            *)
(***************************************************************************)
EXTENDS Detail, FiniteSetTheorems, SequenceTheorems, NatInduction, TLAPS

-----------------------------------------------------------------------------
(* Pieces of a sequence.                                                   *)

LEMMA DropProperties ==
  ASSUME NEW S, NEW s \in Seq(S), NEW n \in 0..Len(s)
  PROVE  /\ Drop(s, n) \in Seq(S) /\ Len(Drop(s, n)) = Len(s) - n
         /\ \A i \in 1..Len(s) - n : Drop(s, n)[i] = s[n + i]
<1>1. Len(s) \in Nat /\ \A i \in n + 1..Len(s) : s[i] \in S
  BY LenProperties, ElementOfSeq
<1> QED BY <1>1, SubSeqProperties DEF Drop

LEMMA SliceProperties ==
  ASSUME NEW S, NEW s \in Seq(S), NEW m \in Nat, NEW n \in 0..Len(s), m <= n
  PROVE  /\ SubSeq(s, m + 1, n) \in Seq(S) /\ Len(SubSeq(s, m + 1, n)) = n - m
         /\ \A i \in 1..n - m : SubSeq(s, m + 1, n)[i] = s[m + i]
<1>1. Len(s) \in Nat /\ \A i \in m + 1..n : s[i] \in S
  BY LenProperties, ElementOfSeq
<1> QED BY <1>1, SubSeqProperties

LEMMA DropDrop ==
  ASSUME NEW S, NEW s \in Seq(S), NEW n \in 0..Len(s), NEW m \in 0..Len(s) - n
  PROVE  Drop(Drop(s, n), m) = Drop(s, n + m)
<1>1. Len(s) \in Nat /\ n + m \in 0..Len(s) /\ m \in 0..Len(Drop(s, n))
  BY LenProperties, DropProperties
<1>2. Drop(s, n) \in Seq(S) /\ Drop(s, n + m) \in Seq(S) /\ Drop(Drop(s, n), m) \in Seq(S)
  BY <1>1, DropProperties
<1>3. Len(Drop(Drop(s, n), m)) = Len(Drop(s, n + m)) /\ Len(Drop(s, n + m)) = Len(s) - (n + m)
  <2>1. Len(Drop(Drop(s, n), m)) = Len(Drop(s, n)) - m /\ Len(Drop(s, n)) = Len(s) - n
    BY <1>1, <1>2, DropProperties
  <2>2. Len(Drop(s, n + m)) = Len(s) - (n + m)
    BY <1>1, DropProperties
  <2> QED BY <1>1, <2>1, <2>2
<1>4. ASSUME NEW i \in 1..Len(s) - (n + m)
      PROVE  Drop(Drop(s, n), m)[i] = Drop(s, n + m)[i]
  <2>1. Drop(s, n + m)[i] = s[n + m + i]
    BY <1>1, DropProperties
  <2>2. Drop(Drop(s, n), m)[i] = Drop(s, n)[m + i]
    BY <1>1, <1>2, DropProperties
  <2>3. Drop(s, n)[m + i] = s[n + (m + i)]
    <3>1. m + i \in 1..Len(s) - n
      BY <1>1
    <3> QED BY <3>1, DropProperties
  <2> QED BY <1>1, <2>1, <2>2, <2>3
<1> QED BY <1>1, <1>2, <1>3, <1>4, DropProperties, SeqEqual

LEMMA SplitAt ==
  ASSUME NEW S, NEW s \in Seq(S), NEW n \in 0..Len(s)
  PROVE  s = SubSeq(s, 1, n) \o Drop(s, n)
<1>1. Len(s) \in Nat
  BY LenProperties
<1>2. SubSeq(s, 1, n) \o SubSeq(s, n + 1, Len(s)) = SubSeq(s, 1, Len(s))
  <2>1. 1 \in 1..Len(s) + 1 /\ n \in 1 - 1..Len(s) /\ Len(s) \in n..Len(s)
    BY <1>1
  <2> QED BY <2>1, ConcatAdjacentSubSeq
<1>3. SubSeq(s, 1, Len(s)) = s
  BY SubSeqFull
<1> QED BY <1>2, <1>3 DEF Drop

-----------------------------------------------------------------------------
(* Numbers on the wire.                                                    *)

LEMMA Digits ==
  ASSUME NEW n \in Nat
  PROVE  /\ n \div 1 = n /\ n \div 256 \in Nat
         /\ n \div (256 * 256) = (n \div 256) \div 256
         /\ n \div (256 * 256 * 256) = ((n \div 256) \div 256) \div 256
<1>1. n \div 1 = n
  OBVIOUS
<1>2. n \div 256 \in Nat
  OBVIOUS
<1>3. (n \div 256) \div 256 = n \div (256 * 256)
  OBVIOUS
<1>4. ((n \div 256) \div 256) \div 256 = n \div (256 * 256 * 256)
  OBVIOUS
<1> QED BY <1>1, <1>2, <1>3, <1>4

LEMMA WeightsAre ==
  Weights[1] = 1 /\ Weights[2] = 256 /\ Weights[3] = 256 * 256 /\ Weights[4] = 256 * 256 * 256
BY DEF Weights

\* The numbers of one to four bytes, and back.
LEMMA OneByte ==
  ASSUME NEW w \in 0..255
  PROVE  Number(<<w>>) \in Nat /\ BigEndian(Number(<<w>>), 1) = <<w>>
<1>1. Number(<<w>>) = w
  BY DEF Number
<1>2. w \in Nat /\ w % 256 = w /\ w \div 1 = w
  OBVIOUS
<1> QED BY <1>1, <1>2, WeightsAre DEF BigEndian

LEMMA TwoBytes ==
  ASSUME NEW w \in 0..255, NEW x \in 0..255
  PROVE  Number(<<w, x>>) \in Nat /\ BigEndian(Number(<<w, x>>), 2) = <<w, x>>
<1> DEFINE k == 256 * w + x
<1>1. Number(<<w, x>>) = k
  BY DEF Number
<1>2. w \in Nat /\ w % 256 = w
  OBVIOUS
<1>3. k \in Nat /\ k \div 1 = k
  OBVIOUS
<1>4. k \div 256 = w
  OBVIOUS
<1>5. k % 256 = x
  OBVIOUS
<1> HIDE DEF k
<1> QED BY <1>1, <1>2, <1>3, <1>4, <1>5, WeightsAre DEF BigEndian

LEMMA ThreeBytes ==
  ASSUME NEW b \in Seq(0..255), Len(b) = 3
  PROVE  Number(b) \in Nat /\ BigEndian(Number(b), 3) = b
<1> DEFINE w == b[1]
           x == b[2]
           y == b[3]
<1>a. b = <<w, x, y>>
  OBVIOUS
<1>b. w \in 0..255 /\ x \in 0..255 /\ y \in 0..255
  <2>1. \A i \in 1..Len(b) : b[i] \in 0..255
    BY ElementOfSeq
  <2>2. 1 \in 1..Len(b) /\ 2 \in 1..Len(b) /\ 3 \in 1..Len(b)
    OBVIOUS
  <2> QED BY <2>1, <2>2
<1> HIDE DEF w, x, y
<1> DEFINE k == 256 * w + x
           l == 256 * k + y
<1>1. Number(b) = l
  BY <1>a DEF Number
<1>2. w \in Nat /\ w % 256 = w
  BY <1>b
<1>3. k \in Nat /\ k \div 256 = w /\ k % 256 = x
  <2>1. k \in Nat
    BY <1>b
  <2>2. k \div 256 = w
    BY <1>b
  <2>3. k % 256 = x
    BY <1>b
  <2> QED BY <2>1, <2>2, <2>3
<1> HIDE DEF k
<1>4. l \in Nat /\ l \div 1 = l
  BY <1>b, <1>3
<1>5. l \div 256 = k
  BY <1>b, <1>3
<1>6. l % 256 = y
  BY <1>b, <1>3
<1> HIDE DEF l
<1>7. l \div (256 * 256) = w
  BY <1>3, <1>4, <1>5, Digits
<1> QED BY <1>a, <1>1, <1>2, <1>3, <1>4, <1>5, <1>6, <1>7, WeightsAre DEF BigEndian

LEMMA FourBytes ==
  ASSUME NEW b \in Seq(0..255), Len(b) = 4
  PROVE  Number(b) \in Nat /\ BigEndian(Number(b), 4) = b
<1> DEFINE w == b[1]
           x == b[2]
           y == b[3]
           z == b[4]
<1>a. b = <<w, x, y, z>>
  OBVIOUS
<1>b. w \in 0..255 /\ x \in 0..255 /\ y \in 0..255 /\ z \in 0..255
  <2>1. \A i \in 1..Len(b) : b[i] \in 0..255
    BY ElementOfSeq
  <2>2. 1 \in 1..Len(b) /\ 2 \in 1..Len(b) /\ 3 \in 1..Len(b) /\ 4 \in 1..Len(b)
    OBVIOUS
  <2> QED BY <2>1, <2>2
<1> HIDE DEF w, x, y, z
<1> DEFINE k == 256 * w + x
           l == 256 * k + y
           m == 256 * l + z
<1>1. Number(b) = m
  BY <1>a DEF Number
<1>2. w \in Nat /\ w % 256 = w
  BY <1>b
<1>3. k \in Nat /\ k \div 256 = w /\ k % 256 = x
  <2>1. k \in Nat
    BY <1>b
  <2>2. k \div 256 = w
    BY <1>b
  <2>3. k % 256 = x
    BY <1>b
  <2> QED BY <2>1, <2>2, <2>3
<1> HIDE DEF k
<1>4. l \in Nat /\ l \div 256 = k /\ l % 256 = y
  <2>1. l \in Nat
    BY <1>b, <1>3
  <2>2. l \div 256 = k
    BY <1>b, <1>3
  <2>3. l % 256 = y
    BY <1>b, <1>3
  <2> QED BY <2>1, <2>2, <2>3
<1> HIDE DEF l
<1>5. m \in Nat /\ m \div 1 = m
  BY <1>b, <1>4
<1>6. m \div 256 = l
  BY <1>b, <1>4
<1>7. m % 256 = z
  BY <1>b, <1>4
<1> HIDE DEF m
<1>8. m \div (256 * 256) = k /\ m \div (256 * 256 * 256) = w
  BY <1>3, <1>4, <1>5, <1>6, Digits
<1> QED BY <1>a, <1>1, <1>2, <1>3, <1>4, <1>5, <1>6, <1>7, <1>8, WeightsAre DEF BigEndian

LEMMA AsOne ==
  ASSUME NEW S, NEW b \in Seq(S), Len(b) = 1
  PROVE  \E w \in S : b = <<w>>
<1>1. b = <<b[1]>>
  OBVIOUS
<1>2. b[1] \in S
  BY ElementOfSeq
<1> QED BY <1>1, <1>2

LEMMA AsTwo ==
  ASSUME NEW S, NEW b \in Seq(S), Len(b) = 2
  PROVE  \E w, x \in S : b = <<w, x>>
<1>1. b = <<b[1], b[2]>>
  OBVIOUS
<1>2. b[1] \in S /\ b[2] \in S
  BY ElementOfSeq
<1> QED BY <1>1, <1>2

\* Up to four bytes are the digits of the number read from them.
LEMMA NumberReadsBack ==
  ASSUME NEW b \in Bytes, Len(b) <= 4
  PROVE  Number(b) \in Nat /\ BigEndian(Number(b), Len(b)) = b
<1>1. PICK n \in Nat : n = Len(b)
  BY LenProperties DEF Bytes
<1>2. n <= 4
  BY <1>1
<1>3. n = 0 \/ n = 1 \/ n = 2 \/ n = 3 \/ n = 4
  BY <1>2
<1>4. b \in Seq(0..255)
  BY DEF Bytes
<1>5. CASE n = 0
  <2>1. b = << >>
    BY <1>1, <1>5, EmptySeq DEF Bytes
  <2> QED BY <2>1 DEF Number, BigEndian
<1>6. CASE n = 1
  <2>1. Len(b) = 1
    BY <1>1, <1>6
  <2>2. PICK w \in 0..255 : b = <<w>>
    BY <1>4, <2>1, AsOne
  <2>3. Number(<<w>>) \in Nat /\ BigEndian(Number(<<w>>), 1) = <<w>>
    BY OneByte
  <2> QED BY <2>1, <2>2, <2>3
<1>7. CASE n = 2
  <2>1. Len(b) = 2
    BY <1>1, <1>7
  <2>2. PICK w, x \in 0..255 : b = <<w, x>>
    BY <1>4, <2>1, AsTwo
  <2>3. Number(<<w, x>>) \in Nat /\ BigEndian(Number(<<w, x>>), 2) = <<w, x>>
    BY TwoBytes
  <2> QED BY <2>1, <2>2, <2>3
<1>8. CASE n = 3
  <2>1. Len(b) = 3
    BY <1>1, <1>8
  <2> QED BY <2>1, <1>4, ThreeBytes
<1>9. CASE n = 4
  <2>1. Len(b) = 4
    BY <1>1, <1>9
  <2> QED BY <2>1, <1>4, FourBytes
<1> QED BY <1>3, <1>5, <1>6, <1>7, <1>8, <1>9

-----------------------------------------------------------------------------
(* Lists of pieces put one behind the other.                               *)

Flattens(f, q) == f = [i \in 1..Len(q) |-> IF i = 1 THEN q[i] ELSE f[i - 1] \o q[i]]

LEMMA FlattensUnique ==
  ASSUME NEW S, NEW q \in Seq(Seq(S)), NEW f, NEW g, Flattens(f, q), Flattens(g, q)
  PROVE  f = g
<1>1. Len(q) \in Nat
  BY LenProperties
<1> DEFINE T == {i \in Nat : i + 1 <= Len(q) => f[i + 1] = g[i + 1]}
<1>2. \A i \in 1..Len(q) : /\ f[i] = (IF i = 1 THEN q[i] ELSE f[i - 1] \o q[i])
                           /\ g[i] = (IF i = 1 THEN q[i] ELSE g[i - 1] \o q[i])
  BY DEF Flattens
<1>3. 0 \in T
  BY <1>1, <1>2
<1>4. ASSUME NEW n \in Nat, n \in T PROVE n + 1 \in T
  <2>1. ASSUME (n + 1) + 1 <= Len(q) PROVE f[(n + 1) + 1] = g[(n + 1) + 1]
    <3>1. /\ (n + 1) + 1 \in 1..Len(q) /\ ((n + 1) + 1) - 1 = n + 1 /\ (n + 1) + 1 # 1
          /\ n + 1 <= Len(q)
      BY <1>1, <2>1
    <3>2. f[n + 1] = g[n + 1]
      BY <1>4, <3>1
    <3> QED BY <1>2, <3>1, <3>2
  <2> QED BY <2>1
<1>5. Nat \subseteq T
  <2> HIDE DEF T
  <2> QED BY <1>3, <1>4, SetInduction
<1>6. ASSUME NEW i \in 1..Len(q) PROVE f[i] = g[i]
  <2>1. i - 1 \in T /\ (i - 1) + 1 = i
    <3> HIDE DEF T
    <3> QED BY <1>1, <1>5
  <2> QED BY <1>1, <2>1
<1>7. f = [i \in 1..Len(q) |-> f[i]] /\ g = [i \in 1..Len(q) |-> g[i]]
  BY DEF Flattens
<1> QED BY <1>6, <1>7

LEMMA ConsProperties ==
  ASSUME NEW S, NEW x \in S, NEW q \in Seq(S)
  PROVE  /\ <<x>> \o q \in Seq(S) /\ Len(<<x>> \o q) = Len(q) + 1
         /\ (<<x>> \o q)[1] = x /\ \A i \in 1..Len(q) : (<<x>> \o q)[i + 1] = q[i]
<1>1. <<x>> \in Seq(S) /\ Len(<<x>>) = 1 /\ Len(q) \in Nat
  BY LenProperties
<1> HIDE DEF Bytes
<1>2. <<x>> \o q \in Seq(S) /\ Len(<<x>> \o q) = 1 + Len(q)
  BY <1>1, ConcatProperties
<1>3. \A i \in 1..1 + Len(q) : (<<x>> \o q)[i] = IF i <= 1 THEN <<x>>[i] ELSE q[i - 1]
  BY <1>1, ConcatProperties
<1>4. /\ 1 \in 1..1 + Len(q)
      /\ \A i \in 1..Len(q) : i + 1 \in 1..1 + Len(q) /\ (i + 1) - 1 = i /\ ~(i + 1 <= 1)
  BY <1>1
<1>5. (<<x>> \o q)[1] = x
  BY <1>3, <1>4
<1>6. \A i \in 1..Len(q) : (<<x>> \o q)[i + 1] = q[i]
  BY <1>3, <1>4
<1> QED BY <1>1, <1>2, <1>5, <1>6

LEMMA BytesConcat ==
  ASSUME NEW y \in Bytes, NEW z \in Bytes
  PROVE  y \o z \in Bytes /\ Len(y \o z) = Len(y) + Len(z)
BY ConcatProperties DEF Bytes

LEMMA BytesAssociative ==
  ASSUME NEW y \in Bytes, NEW z \in Bytes, NEW t \in Bytes
  PROVE  (y \o z) \o t = y \o (z \o t)
<1>1. y \in Seq(0..255) /\ z \in Seq(0..255) /\ t \in Seq(0..255)
  BY DEF Bytes
<1> QED BY <1>1, ConcatAssociative

LastIs(g, q, x, f) == g[Len(<<x>> \o q)] = IF q = << >> THEN x ELSE x \o f[Len(q)]

LEMMA FlattensOfCons ==
  ASSUME NEW S, NEW q \in Seq(Seq(S)), NEW x \in Seq(S), NEW f \in [1..Len(q) -> Seq(S)], Flattens(f, q)
  PROVE  \E g \in [1..Len(<<x>> \o q) -> Seq(S)] :
           Flattens(g, <<x>> \o q) /\ LastIs(g, q, x, f)
<1> DEFINE r == <<x>> \o q
           g == [i \in 1..Len(r) |-> IF i = 1 THEN x ELSE x \o f[i - 1]]
<1>1. /\ Len(q) \in Nat /\ Len(r) = Len(q) + 1 /\ r[1] = x
      /\ \A i \in 1..Len(q) : r[i + 1] = q[i]
  BY ConsProperties, LenProperties
<1> HIDE DEF r
<1>2. ASSUME NEW y \in Seq(S), NEW z \in Seq(S), NEW t \in Seq(S)
      PROVE  y \o z \in Seq(S) /\ (y \o z) \o t = y \o (z \o t)
  <2>1. y \o z \in Seq(S)
    BY ConcatProperties
  <2>2. (y \o z) \o t = y \o (z \o t)
    BY ConcatAssociative, SMTT(20)
  <2> QED BY <2>1, <2>2
<1>3. g \in [1..Len(r) -> Seq(S)]
  <2> SUFFICES ASSUME NEW i \in 1..Len(r), i # 1 PROVE x \o f[i - 1] \in Seq(S)
    OBVIOUS
  <2>1. f[i - 1] \in Seq(S)
    BY <1>1
  <2> QED BY <1>2, <2>1
<1>4. g[Len(r)] = IF q = << >> THEN x ELSE x \o f[Len(q)]
  <2>1. q = << >> <=> Len(q) = 0
    BY EmptySeq
  <2>2. Len(r) \in 1..Len(r) /\ (Len(r) = 1 <=> Len(q) = 0) /\ Len(r) - 1 = Len(q)
    BY <1>1
  <2>3. g[Len(r)] = IF Len(r) = 1 THEN x ELSE x \o f[Len(r) - 1]
    BY <2>2
  <2> QED BY <2>1, <2>2, <2>3
<1>5. ASSUME NEW i \in 1..Len(r)
      PROVE  g[i] = IF i = 1 THEN r[i] ELSE g[i - 1] \o r[i]
  <2>1. CASE i = 1
    BY <1>1, <2>1
  <2>2. CASE i = 2
    <3>1. 1 \in 1..Len(q) /\ r[2] = q[1] /\ 1 \in 1..Len(r)
      BY <1>1, <2>2
    <3>2. f[1] = q[1]
      BY <3>1 DEF Flattens
    <3>3. g[2] = x \o f[1] /\ g[1] = x
      BY <2>2, <3>1
    <3> QED BY <2>2, <3>1, <3>2, <3>3
  <2>3. CASE i > 2
    <3>1. /\ i - 1 \in 1..Len(q) /\ i - 1 # 1 /\ (i - 1) - 1 = i - 2 /\ r[i] = q[i - 1]
          /\ i - 1 \in 1..Len(r) /\ i - 2 \in 1..Len(q) /\ i # 1
      <4>1. i - 1 \in 1..Len(q) /\ (i - 1) + 1 = i
        BY <1>1, <2>3
      <4>2. r[i] = q[i - 1]
        BY <1>1, <4>1
      <4> QED BY <1>1, <2>3, <4>1, <4>2
    <3>2. f[i - 1] = f[i - 2] \o q[i - 1]
      BY <3>1 DEF Flattens
    <3>3. g[i] = x \o f[i - 1] /\ g[i - 1] = x \o f[i - 2]
      BY <3>1
    <3>4. f[i - 2] \in Seq(S) /\ q[i - 1] \in Seq(S)
      BY <3>1, ElementOfSeq
    <3>5. (x \o f[i - 2]) \o q[i - 1] = x \o (f[i - 2] \o q[i - 1])
      BY <1>2, <3>4
    <3> QED BY <3>1, <3>2, <3>3, <3>5
  <2> QED BY <1>1, <2>1, <2>2, <2>3
<1>6. Flattens(g, r)
  BY <1>5 DEF Flattens
<1> QED BY <1>3, <1>4, <1>6 DEF r, LastIs

LEMMA HeadAndTail ==
  ASSUME NEW S, NEW r \in Seq(S), r # << >>
  PROVE  /\ r[1] \in S /\ Tail(r) \in Seq(S) /\ Len(Tail(r)) = Len(r) - 1
         /\ r = <<r[1]>> \o Tail(r)
<1>1. Len(r) \in Nat /\ Len(r) # 0
  BY LenProperties, EmptySeq
<1>2. r[1] \in S
  BY <1>1, ElementOfSeq
<1>3. /\ Tail(r) \in Seq(S) /\ Len(Tail(r)) = Len(r) - 1
      /\ \A i \in 1..Len(Tail(r)) : Tail(r)[i] = r[i + 1]
  BY HeadTailProperties
<1> DEFINE t == <<r[1]>> \o Tail(r)
<1>4. /\ t \in Seq(S) /\ Len(t) = Len(Tail(r)) + 1 /\ t[1] = r[1]
      /\ \A i \in 1..Len(Tail(r)) : t[i + 1] = Tail(r)[i]
  BY <1>2, <1>3, ConsProperties
<1> HIDE DEF t
<1>5. ASSUME NEW i \in 1..Len(r) PROVE r[i] = t[i]
  <2>1. CASE i = 1
    BY <1>4, <2>1
  <2>2. CASE i # 1
    <3>1. i - 1 \in 1..Len(Tail(r)) /\ (i - 1) + 1 = i
      BY <1>1, <1>3, <2>2
    <3>2. t[(i - 1) + 1] = Tail(r)[i - 1] /\ Tail(r)[i - 1] = r[(i - 1) + 1]
      BY <1>3, <1>4, <3>1
    <3> QED BY <3>1, <3>2
  <2> QED BY <2>1, <2>2
<1>6. r = t
  BY <1>1, <1>3, <1>4, <1>5, SeqEqual
<1> QED BY <1>2, <1>3, <1>6 DEF t

LEMMA FlattensExist ==
  ASSUME NEW S, NEW q \in Seq(Seq(S))
  PROVE  \E f \in [1..Len(q) -> Seq(S)] : Flattens(f, q)
<1> DEFINE P(r) == \E f \in [1..Len(r) -> Seq(S)] : Flattens(f, r)
           T == {n \in Nat : \A r \in Seq(Seq(S)) : Len(r) = n => P(r)}
<1>1. 0 \in T
  <2> SUFFICES ASSUME NEW r \in Seq(Seq(S)), Len(r) = 0 PROVE P(r)
    OBVIOUS
  <2> DEFINE f == [i \in 1..0 |-> << >>]
  <2>1. f \in [1..Len(r) -> Seq(S)] /\ Flattens(f, r)
    BY DEF Flattens
  <2> QED BY <2>1
<1>2. ASSUME NEW n \in Nat, n \in T PROVE n + 1 \in T
  <2> SUFFICES ASSUME NEW r \in Seq(Seq(S)), Len(r) = n + 1 PROVE P(r)
    OBVIOUS
  <2> DEFINE x == r[1]
             q2 == Tail(r)
  <2>1. x \in Seq(S) /\ q2 \in Seq(Seq(S)) /\ Len(q2) = n /\ r = <<x>> \o q2
    <3>1. r # << >>
      BY EmptySeq
    <3> QED BY <3>1, HeadAndTail
  <2> HIDE DEF x, q2
  <2>2. PICK f \in [1..Len(q2) -> Seq(S)] : Flattens(f, q2)
    BY <1>2, <2>1
  <2>3. PICK g \in [1..Len(<<x>> \o q2) -> Seq(S)] : Flattens(g, <<x>> \o q2)
    BY <2>1, <2>2, FlattensOfCons
  <2> QED BY <2>1, <2>3
<1>3. Nat \subseteq T
  <2> HIDE DEF T
  <2> QED BY <1>1, <1>2, SetInduction
<1>4. Len(q) \in Nat
  BY LenProperties
<1> QED BY <1>3, <1>4

LEMMA FlattenIs ==
  ASSUME NEW S, NEW q \in Seq(Seq(S)), NEW f, Flattens(f, q)
  PROVE  FlattenSeq(q) = IF q = << >> THEN << >> ELSE f[Len(q)]
<1>1. q = << >> <=> Len(q) = 0
  BY EmptySeq
<1> DEFINE flatten == CHOOSE g : Flattens(g, q)
<1>2. Flattens(flatten, q)
  OBVIOUS
<1>3. FlattenSeq(q) = IF Len(q) = 0 THEN q ELSE flatten[Len(q)]
  BY DEF FlattenSeq, Flattens
<1> HIDE DEF flatten
<1>4. flatten = f
  BY <1>2, FlattensUnique
<1> QED BY <1>1, <1>3, <1>4

\* The pieces of a list one behind the other: the first, then the others.
LEMMA FlattenConsOf ==
  ASSUME NEW S, NEW q \in Seq(Seq(S)), NEW x \in Seq(S)
  PROVE  /\ FlattenSeq(<< >>) = << >> /\ FlattenSeq(q) \in Seq(S)
         /\ FlattenSeq(<<x>> \o q) = x \o FlattenSeq(q)
<1>1. PICK f \in [1..Len(q) -> Seq(S)] : Flattens(f, q)
  BY FlattensExist
<1> DEFINE r == <<x>> \o q
<1>2. PICK g \in [1..Len(r) -> Seq(S)] :
        Flattens(g, r) /\ g[Len(r)] = IF q = << >> THEN x ELSE x \o f[Len(q)]
  <2>1. \E g \in [1..Len(<<x>> \o q) -> Seq(S)] :
          Flattens(g, <<x>> \o q) /\ LastIs(g, q, x, f)
    BY <1>1, FlattensOfCons
  <2> QED BY <2>1 DEF LastIs
<1>3. r \in Seq(Seq(S)) /\ Len(r) = Len(q) + 1 /\ Len(q) \in Nat
  BY ConsProperties, LenProperties
<1> HIDE DEF r
<1>4. r # << >>
  BY <1>3, EmptySeq
<1>5. FlattenSeq(r) = g[Len(r)]
  BY <1>2, <1>3, <1>4, FlattenIs
<1>6. FlattenSeq(q) = IF q = << >> THEN << >> ELSE f[Len(q)]
  BY <1>1, FlattenIs
<1>7. FlattenSeq(<< >>) = << >>
  BY DEF FlattenSeq
<1>8. << >> \in Seq(S) /\ x \o << >> = x
  BY ConcatEmptySeq
<1>9. FlattenSeq(q) \in Seq(S)
  <2>1. CASE q = << >>
    BY <1>6, <1>8, <2>1
  <2>2. CASE q # << >>
    <3>1. Len(q) \in 1..Len(q)
      BY <1>3, <2>2, EmptySeq
    <3> QED BY <1>1, <1>6, <2>2, <3>1
  <2> QED BY <2>1, <2>2
<1> QED BY <1>2, <1>5, <1>6, <1>7, <1>8, <1>9 DEF r

LEMMA FlattenCons ==
  ASSUME NEW q \in Seq(Bytes), NEW x \in Bytes
  PROVE  /\ FlattenSeq(<< >>) = << >> /\ FlattenSeq(q) \in Bytes
         /\ FlattenSeq(<<x>> \o q) = x \o FlattenSeq(q)
<1>1. PICK S : S = 0..255
  OBVIOUS
<1>2. Bytes = Seq(S)
  BY <1>1 DEF Bytes
<1> QED BY <1>2, FlattenConsOf

-----------------------------------------------------------------------------
(* Entries of a list.                                                      *)

Layouts == {[before |-> b, width |-> w, after |-> a] : b \in 0..4, w \in 1..4, a \in 0..4}

Piece(layout, e) ==
  BigEndian(e.code, layout.before) \o Framed(layout.width, e.data)
    \o BigEndian(e.after, layout.after)

LEMMA LayoutsAre ==
  /\ Names \in Layouts /\ Protocols \in Layouts /\ Shares \in Layouts
  /\ Identities \in Layouts /\ ExtensionList \in Layouts
  /\ \A layout \in Layouts :
       layout.before \in 0..4 /\ layout.width \in 1..4 /\ layout.after \in 0..4
<1>1. Names \in Layouts
  BY DEF Layouts, Names
<1>2. Protocols \in Layouts
  BY DEF Layouts, Protocols
<1>3. Shares \in Layouts
  BY DEF Layouts, Shares
<1>4. Identities \in Layouts
  BY DEF Layouts, Identities
<1>5. ExtensionList \in Layouts
  BY DEF Layouts, ExtensionList
<1>6. ASSUME NEW layout \in Layouts
      PROVE  layout.before \in 0..4 /\ layout.width \in 1..4 /\ layout.after \in 0..4
  BY DEF Layouts
<1> QED BY <1>1, <1>2, <1>3, <1>4, <1>5, <1>6

\* A piece of bytes is bytes.
LEMMA SliceOfBytes ==
  ASSUME NEW s \in Bytes, NEW m \in Nat, NEW n \in Nat, m <= n, n <= Len(s)
  PROVE  SubSeq(s, m + 1, n) \in Bytes /\ Len(SubSeq(s, m + 1, n)) = n - m
<1>1. s \in Seq(0..255) /\ Len(s) \in Nat
  BY LenProperties DEF Bytes
<1>2. n \in 0..Len(s)
  BY <1>1
<1>3. SubSeq(s, m + 1, n) \in Seq(0..255) /\ Len(SubSeq(s, m + 1, n)) = n - m
  <2> DEFINE S == 0..255
  <2>1. s \in Seq(S)
    BY <1>1
  <2> HIDE DEF S
  <2>2. SubSeq(s, m + 1, n) \in Seq(S)
    BY <1>2, <2>1, SliceProperties
  <2>3. Len(SubSeq(s, m + 1, n)) = n - m
    BY <1>2, <2>1, SliceProperties
  <2> QED BY <2>2, <2>3 DEF S
<1> QED BY <1>3 DEF Bytes

\* A slice of up to four bytes, read as a number and written again.
LEMMA SliceReadsBack ==
  ASSUME NEW s \in Bytes, NEW m \in Nat, NEW n \in Nat, m <= n, n <= Len(s), n - m <= 4
  PROVE  /\ Number(SubSeq(s, m + 1, n)) \in Nat
         /\ BigEndian(Number(SubSeq(s, m + 1, n)), n - m) = SubSeq(s, m + 1, n)
<1> DEFINE b == SubSeq(s, m + 1, n)
<1>1. b \in Bytes /\ Len(b) = n - m
  BY SliceOfBytes
<1> HIDE DEF b
<1>2. Number(b) \in Nat /\ BigEndian(Number(b), Len(b)) = b
  BY <1>1, NumberReadsBack
<1> QED BY <1>1, <1>2 DEF b

LEMMA Adjacent ==
  ASSUME NEW s \in Bytes, NEW m \in Nat, NEW n \in Nat, NEW p \in Nat, m <= n, n <= p, p <= Len(s)
  PROVE  SubSeq(s, m + 1, n) \o SubSeq(s, n + 1, p) = SubSeq(s, m + 1, p)
<1>1. s \in Seq(0..255) /\ Len(s) \in Nat
  BY LenProperties DEF Bytes
<1>2. m + 1 \in 1..Len(s) + 1 /\ n \in (m + 1) - 1..Len(s) /\ p \in n..Len(s)
  BY <1>1
<1> QED BY <1>1, <1>2, ConcatAdjacentSubSeq

LEMMA AdjacentFirst ==
  ASSUME NEW s \in Bytes, NEW n \in Nat, NEW p \in Nat, n <= p, p <= Len(s)
  PROVE  SubSeq(s, 1, n) \o SubSeq(s, n + 1, p) = SubSeq(s, 1, p)
<1>1. s \in Seq(0..255) /\ Len(s) \in Nat
  BY LenProperties DEF Bytes
<1>2. 1 \in 1..Len(s) + 1 /\ n \in 1 - 1..Len(s) /\ p \in n..Len(s)
  BY <1>1
<1> QED BY <1>1, <1>2, ConcatAdjacentSubSeq

LEMMA FirstReadsBack ==
  ASSUME NEW s \in Bytes, NEW n \in Nat, n <= Len(s), n <= 4
  PROVE  Number(SubSeq(s, 1, n)) \in Nat /\ BigEndian(Number(SubSeq(s, 1, n)), n) = SubSeq(s, 1, n)
<1> DEFINE b == SubSeq(s, 0 + 1, n)
<1>1. b \in Bytes /\ Len(b) = n - 0
  BY SliceOfBytes
<1>2. b = SubSeq(s, 1, n) /\ n - 0 = n
  OBVIOUS
<1> HIDE DEF b
<1>3. Number(b) \in Nat /\ BigEndian(Number(b), Len(b)) = b
  BY <1>1, <1>2, NumberReadsBack
<1> QED BY <1>1, <1>2, <1>3

\* Where an entry fits, its lengths are numbers and it is written as it was read.
LEMMA EntryWrites ==
  ASSUME NEW layout \in Layouts, NEW s \in Bytes, HeaderLen(layout) <= Len(s)
  PROVE  /\ HeaderLen(layout) \in Nat \ {0} /\ EntryLen(layout, s) \in Nat
         /\ HeaderLen(layout) <= EntryLen(layout, s)
         /\ EntryLen(layout, s) <= Len(s) =>
              Piece(layout, Entry(layout, s)) = SubSeq(s, 1, EntryLen(layout, s))
<1> DEFINE b == layout.before
           w == layout.width
           a == layout.after
           h == HeaderLen(layout)
           d == DataLen(layout, s)
           l == EntryLen(layout, s)
<1>1. b \in 0..4 /\ w \in 1..4 /\ a \in 0..4
  BY LayoutsAre
<1>2. h = b + w
  BY DEF HeaderLen
<1>3. PICK L \in Nat : L = Len(s)
  BY LenProperties DEF Bytes
<1>4. d = Number(SubSeq(s, b + 1, h)) /\ l = h + d + a
  BY DEF DataLen, EntryLen
<1> DEFINE A == SubSeq(s, 1, b)
           B == SubSeq(s, b + 1, h)
           end == h + d
           C == SubSeq(s, h + 1, end)
           E == SubSeq(s, end + 1, end + a)
<1>5. /\ Entry(layout, s).code = Number(A) /\ Entry(layout, s).data = C
      /\ Entry(layout, s).after = Number(E)
  BY DEF Entry
<1>6. Piece(layout, Entry(layout, s))
        = BigEndian(Number(A), b) \o Framed(w, C) \o BigEndian(Number(E), a)
  BY <1>5 DEF Piece
<1>7. h <= L
  BY <1>3
<1> HIDE DEF b, w, a, h, d, l
<1>8. b \in Nat /\ h \in Nat /\ b <= h /\ h - b = w /\ h - b <= 4 /\ b <= 4 /\ b <= L
  BY <1>1, <1>2, <1>7
<1>9. d \in Nat /\ BigEndian(d, w) = B
  <2>1. h <= Len(s)
    BY <1>3, <1>7
  <2>2. Number(B) \in Nat /\ BigEndian(Number(B), h - b) = B
    BY <1>8, <2>1, SliceReadsBack
  <2> QED BY <1>4, <1>8, <2>2
<1>10. h \in Nat \ {0} /\ l \in Nat /\ h <= l
  BY <1>1, <1>2, <1>4, <1>8, <1>9
<1>11. ASSUME l <= Len(s)
      PROVE  Piece(layout, Entry(layout, s)) = SubSeq(s, 1, l)
  <2>1. l <= L
    BY <1>3, <1>11
  <2>2. /\ end \in Nat /\ h <= end /\ end <= l /\ l = end + a /\ l - end = a /\ l - end <= 4
        /\ end - h = d /\ end <= L
    <3>1. l = h + d + a /\ d \in Nat
      BY <1>4, <1>9
    <3> QED BY <3>1, <1>1, <1>8, <1>10, <2>1
  <2> HIDE DEF end
  <2>3. b <= Len(s) /\ h <= Len(s) /\ end <= Len(s)
    BY <1>3, <1>7, <1>8, <2>2
  <2>4. BigEndian(Number(A), b) = A
    BY <1>8, <2>3, FirstReadsBack
  <2>5. BigEndian(Number(E), a) = E
    <3>1. E = SubSeq(s, end + 1, l)
      BY <2>2
    <3> HIDE DEF E
    <3> QED BY <3>1, <1>10, <1>11, <2>2, SliceReadsBack, SMTT(20)
  <2>6. Len(C) = d
    BY <1>8, <2>2, <2>3, SliceOfBytes
  <2>7. Framed(w, C) = B \o C
    BY <1>9, <2>6 DEF Framed
  <2>8. B \o C = SubSeq(s, b + 1, end)
    BY <1>8, <2>2, <2>3, Adjacent
  <2>9. A \o SubSeq(s, b + 1, end) = SubSeq(s, 1, end)
    <3>1. b <= end
      BY <1>8, <2>2
    <3> QED BY <3>1, <1>8, <2>2, <2>3, AdjacentFirst
  <2>10. SubSeq(s, 1, end) \o SubSeq(s, end + 1, l) = SubSeq(s, 1, l)
    BY <1>10, <1>11, <2>2, AdjacentFirst
  <2> QED BY <1>6, <2>2, <2>4, <2>5, <2>7, <2>8, <2>9, <2>10
<1> QED BY <1>10, <1>11 DEF h, l

LEMMA EntryIsEntry ==
  ASSUME NEW layout \in Layouts, NEW s \in Bytes,
         HeaderLen(layout) <= Len(s), EntryLen(layout, s) <= Len(s)
  PROVE  Entry(layout, s) \in EntrySet
<1> DEFINE b == layout.before
           a == layout.after
           h == HeaderLen(layout)
           d == DataLen(layout, s)
           end == h + d
<1>1. b \in 0..4 /\ layout.width \in 1..4 /\ a \in 0..4 /\ h = b + layout.width
  BY LayoutsAre DEF HeaderLen
<1>2. PICK L \in Nat : L = Len(s)
  BY LenProperties DEF Bytes
<1>3. d = Number(SubSeq(s, b + 1, h)) /\ EntryLen(layout, s) = end + a
  BY DEF DataLen, EntryLen
<1>4. h <= L /\ end + a <= L
  BY <1>2, <1>3
<1>5. Entry(layout, s) = [code |-> Number(SubSeq(s, 1, b)), data |-> SubSeq(s, h + 1, end),
                          after |-> Number(SubSeq(s, end + 1, end + a))]
  BY DEF Entry
<1>6. b \in Nat /\ h \in Nat /\ b <= h /\ h - b <= 4 /\ b <= 4 /\ b <= L
  <2>1. PICK w \in 1..4 : w = layout.width
    BY <1>1
  <2>2. h = b + w
    BY <1>1, <2>1
  <2> HIDE DEF h, b
  <2> QED BY <1>1, <1>4, <2>1, <2>2, SMTT(20)
<1> HIDE DEF b, a, h, d
<1>7. d \in Nat
  BY <1>2, <1>3, <1>4, <1>6, SliceReadsBack
<1>8. /\ end \in Nat /\ end + a \in Nat /\ end <= end + a /\ (end + a) - end <= 4
      /\ h <= end /\ end <= L /\ end + a <= L
  <2>1. a \in 0..4
    BY <1>1
  <2>2. h \in Nat
    BY <1>6
  <2> QED BY <2>1, <2>2, <1>4, <1>7
<1> HIDE DEF end
<1>9. Number(SubSeq(s, 1, b)) \in Nat
  BY <1>2, <1>6, FirstReadsBack
<1>10. SubSeq(s, h + 1, end) \in Bytes
  BY <1>2, <1>6, <1>8, SliceOfBytes
<1>11. Number(SubSeq(s, end + 1, end + a)) \in Nat
  <2> DEFINE l == end + a
  <2>1. l \in Nat /\ end <= l /\ l - end <= 4 /\ l <= Len(s)
    BY <1>2, <1>8
  <2> HIDE DEF l
  <2>2. Number(SubSeq(s, end + 1, l)) \in Nat
    BY <1>8, <2>1, SliceReadsBack
  <2> QED BY <2>2 DEF l
<1> QED BY <1>5, <1>9, <1>10, <1>11 DEF EntrySet

LEMMA BigEndianIsBytes ==
  ASSUME NEW n \in Nat, NEW w \in 0..4
  PROVE  BigEndian(n, w) \in Bytes /\ Len(BigEndian(n, w)) = w
<1>1. Weights \in [1..4 -> Nat \ {0}]
  BY DEF Weights
<1>2. ASSUME NEW i \in 1..w
      PROVE  (n \div Weights[w - i + 1]) % 256 \in 0..255
  <2>1. PICK d \in Nat \ {0} : d = Weights[w - i + 1]
    BY <1>1
  <2>2. n \div d \in Nat
    BY <2>1
  <2>3. (n \div d) % 256 \in 0..255
    BY <2>2
  <2> QED BY <2>1, <2>3
<1>3. BigEndian(n, w) \in [1..w -> 0..255]
  BY <1>2 DEF BigEndian
<1> QED BY <1>3 DEF Bytes

LEMMA PieceIsBytes ==
  ASSUME NEW layout \in Layouts, NEW e \in EntrySet
  PROVE  Piece(layout, e) \in Bytes
<1>1. e.code \in Nat /\ e.data \in Bytes /\ e.after \in Nat /\ Len(e.data) \in Nat
  BY LenProperties DEF EntrySet, Bytes
<1>2. layout.before \in 0..4 /\ layout.width \in 0..4 /\ layout.after \in 0..4
  BY LayoutsAre
<1>3. /\ BigEndian(e.code, layout.before) \in Bytes /\ BigEndian(e.after, layout.after) \in Bytes
      /\ BigEndian(Len(e.data), layout.width) \in Bytes
  BY <1>1, <1>2, BigEndianIsBytes
<1>4. Framed(layout.width, e.data) \in Bytes
  BY <1>1, <1>3, BytesConcat DEF Framed
<1>5. BigEndian(e.code, layout.before) \o Framed(layout.width, e.data) \in Bytes
  BY <1>3, <1>4, BytesConcat
<1> QED BY <1>3, <1>5, BytesConcat DEF Piece

LEMMA WrittenCons ==
  ASSUME NEW layout \in Layouts, NEW e \in EntrySet, NEW q \in Seq(EntrySet)
  PROVE  /\ Written(layout, << >>) = << >> /\ Written(layout, q) \in Bytes
         /\ Written(layout, <<e>> \o q) = Piece(layout, e) \o Written(layout, q)
<1> DEFINE r == <<e>> \o q
           pieces(t) == [i \in DOMAIN t |-> Piece(layout, t[i])]
<1>1. \A t : Written(layout, t) = FlattenSeq(pieces(t))
  BY DEF Written, Piece
<1>2. /\ r \in Seq(EntrySet) /\ Len(r) = Len(q) + 1 /\ r[1] = e
      /\ \A i \in 1..Len(q) : r[i + 1] = q[i]
  BY ConsProperties
<1> HIDE DEF r
<1>3. ASSUME NEW t \in Seq(EntrySet)
      PROVE  /\ pieces(t) \in Seq(Bytes) /\ Len(pieces(t)) = Len(t)
             /\ \A i \in 1..Len(t) : pieces(t)[i] = Piece(layout, t[i])
  <2>1. Len(t) \in Nat /\ DOMAIN t = 1..Len(t) /\ \A i \in 1..Len(t) : t[i] \in EntrySet
    BY LenProperties, ElementOfSeq
  <2>2. pieces(t) \in [1..Len(t) -> Bytes]
    BY <2>1, PieceIsBytes
  <2> QED BY <2>1, <2>2
<1>4. Piece(layout, e) \in Bytes /\ Len(q) \in Nat
  BY PieceIsBytes, LenProperties
<1> DEFINE c == <<Piece(layout, e)>> \o pieces(q)
<1>5. /\ c \in Seq(Bytes) /\ Len(c) = Len(q) + 1 /\ c[1] = Piece(layout, e)
      /\ \A i \in 1..Len(q) : c[i + 1] = pieces(q)[i]
  <2>1. pieces(q) \in Seq(Bytes) /\ Len(pieces(q)) = Len(q)
    BY <1>3
  <2> HIDE DEF pieces
  <2> QED BY <1>4, <2>1, ConsProperties
<1>6. pieces(r) = c
  <2>1. pieces(r) \in Seq(Bytes) /\ Len(pieces(r)) = Len(r)
    BY <1>2, <1>3
  <2>2. \A i \in 1..Len(r) : pieces(r)[i] = Piece(layout, r[i])
    BY <1>2, <1>3
  <2>3. \A i \in 1..Len(q) : pieces(q)[i] = Piece(layout, q[i])
    BY <1>3
  <2> HIDE DEF c, pieces
  <2>4. ASSUME NEW i \in 1..Len(r) PROVE pieces(r)[i] = c[i]
    <3>1. CASE i = 1
      BY <1>2, <1>5, <2>2, <3>1
    <3>2. CASE i # 1
      <4>1. i - 1 \in 1..Len(q) /\ (i - 1) + 1 = i
        BY <1>2, <1>4, <3>2
      <4>2. r[(i - 1) + 1] = q[i - 1] /\ c[(i - 1) + 1] = pieces(q)[i - 1]
        BY <1>2, <1>5, <4>1
      <4> QED BY <2>2, <2>3, <4>1, <4>2
    <3> QED BY <3>1, <3>2
  <2> QED BY <1>2, <1>5, <2>1, <2>4, SeqEqual
<1>7. pieces(q) \in Seq(Bytes)
  BY <1>3
<1>8. FlattenSeq(c) = Piece(layout, e) \o FlattenSeq(pieces(q)) /\ FlattenSeq(pieces(q)) \in Bytes
  <2> HIDE DEF pieces
  <2> QED BY <1>4, <1>7, FlattenCons
<1>9. Written(layout, << >>) = << >>
  <2>1. pieces(<< >>) = << >>
    OBVIOUS
  <2>2. FlattenSeq(<< >>) = << >>
    BY DEF FlattenSeq
  <2> QED BY <1>1, <2>1, <2>2
<1>10. Written(layout, r) = FlattenSeq(pieces(r)) /\ Written(layout, q) = FlattenSeq(pieces(q))
  BY <1>1
<1> HIDE DEF pieces, c
<1> QED BY <1>6, <1>8, <1>9, <1>10 DEF r

LEMMA WrittenIsBytes ==
  ASSUME NEW layout \in Layouts, NEW q \in Seq(EntrySet)
  PROVE  Written(layout, q) \in Bytes
<1>1. [code |-> 0, data |-> << >>, after |-> 0] \in EntrySet
  BY DEF EntrySet, Bytes
<1> QED BY <1>1, WrittenCons

-----------------------------------------------------------------------------
(* The walk over a list.                                                   *)

Found == [entries : Seq(EntrySet), rest : Bytes, cut : BOOLEAN]

\* What the walk f finds from offset p, by what it finds behind the entry there.
From(f, layout, s, p) ==
  LET left == Drop(s, p)
  IN  IF Len(left) < HeaderLen(layout)
      THEN [entries |-> << >>, rest |-> left, cut |-> FALSE]
      ELSE IF Len(left) < EntryLen(layout, left)
      THEN [entries |-> << >>, rest |-> left, cut |-> TRUE]
      ELSE LET others == f[p + EntryLen(layout, left)]
           IN  [others EXCEPT !.entries = <<Entry(layout, left)>> \o @]

Walks(f, layout, s) == f = [p \in 0..Len(s) |-> From(f, layout, s, p)]

LEMMA DropBytes ==
  ASSUME NEW s \in Bytes, NEW p \in Nat, p <= Len(s)
  PROVE  Drop(s, p) \in Bytes /\ Len(Drop(s, p)) = Len(s) - p
<1>1. s \in Seq(0..255) /\ Len(s) \in Nat
  BY LenProperties DEF Bytes
<1>2. p \in 0..Len(s)
  BY <1>1
<1> DEFINE S == 0..255
<1>3. s \in Seq(S)
  BY <1>1
<1> HIDE DEF S
<1>4. Drop(s, p) \in Seq(S) /\ Len(Drop(s, p)) = Len(s) - p
  BY <1>2, <1>3, DropProperties
<1> QED BY <1>4 DEF S, Bytes

\* At an offset where an entry fits, what is behind it.
LEMMA EntryFits ==
  ASSUME NEW layout \in Layouts, NEW s \in Bytes, NEW p \in Nat, p <= Len(s),
         ~(Len(Drop(s, p)) < HeaderLen(layout)),
         ~(Len(Drop(s, p)) < EntryLen(layout, Drop(s, p)))
  PROVE  /\ EntryLen(layout, Drop(s, p)) \in Nat \ {0}
         /\ p + EntryLen(layout, Drop(s, p)) \in Nat
         /\ p + EntryLen(layout, Drop(s, p)) <= Len(s)
         /\ Entry(layout, Drop(s, p)) \in EntrySet
         /\ Drop(s, p) = Piece(layout, Entry(layout, Drop(s, p)))
                           \o Drop(s, p + EntryLen(layout, Drop(s, p)))
<1> DEFINE left == Drop(s, p)
           l == EntryLen(layout, left)
           h == HeaderLen(layout)
<1>1. left \in Bytes /\ Len(left) = Len(s) - p
  BY DropBytes
<1>2. PICK L \in Nat : L = Len(s)
  BY LenProperties DEF Bytes
<1>3. PICK r \in Nat : r = Len(left) /\ r = L - p
  BY <1>1, <1>2
<1>4. ~(r < h) /\ ~(r < l)
  BY <1>3
<1>5. layout.before \in 0..4 /\ layout.width \in 1..4
  BY LayoutsAre
<1>6. h \in Nat
  <2>1. PICK x \in 0..4, y \in 1..4 : x = layout.before /\ y = layout.width
    BY <1>5
  <2>2. h = x + y
    BY <2>1 DEF HeaderLen
  <2> QED BY <2>2
<1> HIDE DEF left, h
<1>7. h <= r
  BY <1>4, <1>6
<1>8. HeaderLen(layout) <= Len(left)
  BY <1>3, <1>7 DEF h
<1>9. /\ HeaderLen(layout) \in Nat \ {0} /\ l \in Nat /\ HeaderLen(layout) <= l
      /\ l <= Len(left) => Piece(layout, Entry(layout, left)) = SubSeq(left, 1, l)
  BY <1>1, <1>8, EntryWrites
<1> HIDE DEF l
<1>10. l \in Nat \ {0} /\ l <= r
  BY <1>4, <1>9
<1>11. l <= Len(left) /\ l \in 0..Len(left)
  BY <1>3, <1>10
<1>12. Entry(layout, left) \in EntrySet
  BY <1>1, <1>8, <1>11, EntryIsEntry DEF l
<1>13. left = Piece(layout, Entry(layout, left)) \o Drop(left, l)
  <2>1. left = SubSeq(left, 1, l) \o Drop(left, l)
    BY <1>1, <1>11, SplitAt DEF Bytes
  <2> QED BY <2>1, <1>9, <1>11
<1>14. Drop(left, l) = Drop(s, p + l)
  <2>1. s \in Seq(0..255) /\ p \in 0..Len(s) /\ l \in 0..Len(s) - p
    BY <1>2, <1>3, <1>10 DEF Bytes
  <2> QED BY <2>1, DropDrop DEF left
<1>15. p + l \in Nat /\ p + l <= Len(s)
  BY <1>2, <1>3, <1>10
<1> QED BY <1>10, <1>12, <1>13, <1>14, <1>15 DEF l, left

LEMMA FromFound ==
  ASSUME NEW layout \in Layouts, NEW s \in Bytes, NEW p \in Nat, p <= Len(s),
         NEW f, \A o \in 0..Len(s) : o > p => f[o] \in Found
  PROVE  From(f, layout, s, p) \in Found
<1> DEFINE left == Drop(s, p)
           l == EntryLen(layout, left)
           others == f[p + l]
<1>1. left \in Bytes /\ << >> \in Seq(EntrySet)
  BY DropBytes
<1>2. CASE Len(left) < HeaderLen(layout)
  <2>1. From(f, layout, s, p) = [entries |-> << >>, rest |-> left, cut |-> FALSE]
    BY <1>2 DEF From
  <2> QED BY <1>1, <2>1 DEF Found
<1>3. CASE ~(Len(left) < HeaderLen(layout)) /\ Len(left) < l
  <2>1. From(f, layout, s, p) = [entries |-> << >>, rest |-> left, cut |-> TRUE]
    BY <1>3 DEF From
  <2> QED BY <1>1, <2>1 DEF Found
<1>4. CASE ~(Len(left) < HeaderLen(layout)) /\ ~(Len(left) < l)
  <2>1. From(f, layout, s, p) = [others EXCEPT !.entries = <<Entry(layout, left)>> \o @]
    BY <1>4 DEF From
  <2>2. l \in Nat \ {0} /\ p + l \in Nat /\ p + l <= Len(s) /\ Entry(layout, left) \in EntrySet
    BY <1>4, EntryFits
  <2>3. p + l \in 0..Len(s) /\ p + l > p
    <3>1. Len(s) \in Nat
      BY LenProperties DEF Bytes
    <3> HIDE DEF l
    <3> QED BY <3>1, <2>2
  <2>4. others \in Found
    BY <2>3
  <2>5. <<Entry(layout, left)>> \o others.entries \in Seq(EntrySet)
    BY <2>2, <2>4, ConsProperties DEF Found
  <2> HIDE DEF others
  <2> QED BY <2>1, <2>4, <2>5 DEF Found
<1> QED BY <1>2, <1>3, <1>4

LEMMA FromAgrees ==
  ASSUME NEW layout \in Layouts, NEW s \in Bytes, NEW p \in Nat, p <= Len(s),
         NEW f, NEW g, \A o \in 0..Len(s) : o > p => f[o] = g[o]
  PROVE  From(f, layout, s, p) = From(g, layout, s, p)
<1> DEFINE left == Drop(s, p)
           l == EntryLen(layout, left)
<1>1. CASE Len(left) < HeaderLen(layout)
  BY <1>1 DEF From
<1>2. CASE ~(Len(left) < HeaderLen(layout)) /\ Len(left) < l
  BY <1>2 DEF From
<1>3. CASE ~(Len(left) < HeaderLen(layout)) /\ ~(Len(left) < l)
  <2>1. l \in Nat \ {0} /\ p + l \in Nat /\ p + l <= Len(s)
    BY <1>3, EntryFits
  <2>2. p + l \in 0..Len(s) /\ p + l > p
    <3>1. Len(s) \in Nat
      BY LenProperties DEF Bytes
    <3> HIDE DEF l
    <3> QED BY <3>1, <2>1
  <2>3. f[p + l] = g[p + l]
    BY <2>2
  <2> QED BY <1>3, <2>3 DEF From
<1> QED BY <1>1, <1>2, <1>3

LEMMA WalksExist ==
  ASSUME NEW layout \in Layouts, NEW s \in Bytes
  PROVE  \E f \in [0..Len(s) -> Found] : Walks(f, layout, s)
<1>1. PICK L \in Nat : L = Len(s)
  BY LenProperties DEF Bytes
<1> DEFINE Good(g, k) == \A p \in 0..L : p + k > L => g[p] = From(g, layout, s, p)
           S == {k \in Nat : \E g \in [0..L -> Found] : Good(g, k)}
<1>2. 0 \in S
  <2>1. [entries |-> << >>, rest |-> << >>, cut |-> FALSE] \in Found
    BY DEF Found, Bytes
  <2> DEFINE g == [p \in 0..L |-> [entries |-> << >>, rest |-> << >>, cut |-> FALSE]]
  <2>2. g \in [0..L -> Found]
    BY <2>1
  <2>3. Good(g, 0)
    OBVIOUS
  <2> QED BY <2>2, <2>3
<1>3. ASSUME NEW k \in Nat, k \in S PROVE k + 1 \in S
  <2>1. PICK g \in [0..L -> Found] : Good(g, k)
    BY <1>3
  <2>2. CASE k > L
    BY <2>1, <2>2
  <2>3. CASE k <= L
    <3> DEFINE p0 == L - k
               h == [p \in 0..L |-> IF p = p0 THEN From(g, layout, s, p0) ELSE g[p]]
    <3>1. p0 \in 0..L /\ p0 \in Nat /\ p0 <= Len(s)
      BY <1>1, <2>3
    <3>2. From(g, layout, s, p0) \in Found
      <4>1. \A o \in 0..Len(s) : o > p0 => g[o] \in Found
        BY <1>1, <2>1
      <4> HIDE DEF p0
      <4> QED BY <3>1, <4>1, FromFound
    <3>3. h \in [0..L -> Found]
      <4> HIDE DEF p0
      <4> QED BY <3>2
    <3>4. ASSUME NEW p \in 0..L, p + (k + 1) > L
          PROVE  h[p] = From(h, layout, s, p)
      <4>1. p >= p0 /\ (p # p0 => p + k > L)
        BY <2>3, <3>4
      <4> HIDE DEF p0
      <4>2. h[p] = From(g, layout, s, p)
        <5>1. CASE p = p0
          BY <5>1
        <5>2. CASE p # p0
          BY <2>1, <4>1, <5>2
        <5> QED BY <5>1, <5>2
      <4>3. ASSUME NEW o \in 0..Len(s), o > p PROVE g[o] = h[o]
        <5>1. o \in 0..L /\ o # p0
          BY <1>1, <3>1, <4>1, <4>3
        <5> QED BY <5>1
      <4>4. p \in Nat /\ p <= Len(s)
        BY <1>1
      <4> HIDE DEF h
      <4>5. From(g, layout, s, p) = From(h, layout, s, p)
        BY <4>3, <4>4, FromAgrees
      <4> QED BY <4>2, <4>5
    <3> HIDE DEF h, p0
    <3> QED BY <3>3, <3>4
  <2> QED BY <2>2, <2>3
<1>4. Nat \subseteq S
  <2> HIDE DEF S
  <2> QED BY <1>2, <1>3, SetInduction
<1>5. PICK g \in [0..L -> Found] : Good(g, L + 1)
  <2>1. L + 1 \in S
    <3> HIDE DEF S
    <3> QED BY <1>4
  <2> QED BY <2>1
<1>6. ASSUME NEW p \in 0..L PROVE g[p] = From(g, layout, s, p)
  <2>1. p + (L + 1) > L
    OBVIOUS
  <2> QED BY <1>5, <2>1
<1>7. g = [p \in 0..L |-> From(g, layout, s, p)]
  BY <1>5, <1>6
<1> QED BY <1>1, <1>5, <1>7 DEF Walks

LEMMA WalkIs ==
  ASSUME NEW layout \in Layouts, NEW s \in Bytes
  PROVE  \E f : Walks(f, layout, s) /\ Walk(layout, s) = f[0]
<1> DEFINE f == CHOOSE f : Walks(f, layout, s)
<1>1. Walks(f, layout, s)
  BY WalksExist
<1>2. Walk(layout, s) = f[0]
  BY DEF Walk, Walks, From
<1> QED BY <1>1, <1>2

(* What a walk accounts for: the entries it found, written again, and the  *)
(* rest are the bytes it was given; a rest it was not cut at is no header. *)
Accounts(w, layout, s) ==
  /\ w \in Found
  /\ s = Written(layout, w.entries) \o w.rest
  /\ ~w.cut => Len(w.rest) < HeaderLen(layout)
  /\ w.entries # << >> => /\ HeaderLen(layout) <= Len(s) /\ EntryLen(layout, s) <= Len(s)
                          /\ w.entries[1] = Entry(layout, s)

LEMMA WalkAccounts ==
  ASSUME NEW layout \in Layouts, NEW s \in Bytes
  PROVE  Accounts(Walk(layout, s), layout, s)
<1>1. PICK L \in Nat : L = Len(s)
  BY LenProperties DEF Bytes
<1>2. PICK f : Walks(f, layout, s) /\ Walk(layout, s) = f[0]
  BY WalkIs
<1>3. \A p \in 0..L : f[p] = From(f, layout, s, p)
  BY <1>1, <1>2 DEF Walks
<1> DEFINE S == {k \in Nat : \A p \in 0..L : p + k > L => Accounts(f[p], layout, Drop(s, p))}
<1>4. 0 \in S
  OBVIOUS
<1>5. ASSUME NEW k \in Nat, k \in S PROVE k + 1 \in S
  <2> SUFFICES ASSUME NEW p \in 0..L, p + (k + 1) > L
               PROVE  Accounts(f[p], layout, Drop(s, p))
    OBVIOUS
  <2> DEFINE left == Drop(s, p)
             l == EntryLen(layout, left)
             others == f[p + l]
  <2>1. p \in Nat /\ p <= Len(s)
    BY <1>1
  <2>2. left \in Bytes /\ << >> \in Seq(EntrySet) /\ Written(layout, << >>) = << >>
    <3>1. [code |-> 0, data |-> << >>, after |-> 0] \in EntrySet
      BY DEF EntrySet, Bytes
    <3>2. << >> \in Seq(EntrySet)
      OBVIOUS
    <3>3. Written(layout, << >>) = << >>
      BY <3>1, <3>2, WrittenCons
    <3>4. left \in Bytes
      BY <2>1, DropBytes
    <3> QED BY <3>2, <3>3, <3>4
  <2>3. << >> \o left = left
    BY <2>2, ConcatEmptySeq DEF Bytes
  <2>4. CASE Len(left) < HeaderLen(layout)
    <3>1. f[p] = [entries |-> << >>, rest |-> left, cut |-> FALSE]
      BY <1>3, <2>4 DEF From
    <3> HIDE DEF left
    <3>2. f[p].entries = << >> /\ f[p].rest = left /\ f[p].cut = FALSE /\ f[p] \in Found
      BY <2>2, <3>1 DEF Found
    <3>3. Written(layout, f[p].entries) \o f[p].rest = left
      BY <2>2, <2>3, <3>2
    <3>4. Accounts(f[p], layout, left)
      BY <2>4, <3>2, <3>3 DEF Accounts
    <3> QED BY <3>4 DEF left
  <2>5. CASE ~(Len(left) < HeaderLen(layout)) /\ Len(left) < l
    <3>1. f[p] = [entries |-> << >>, rest |-> left, cut |-> TRUE]
      BY <1>3, <2>5 DEF From
    <3> HIDE DEF left
    <3>2. f[p].entries = << >> /\ f[p].rest = left /\ f[p].cut = TRUE /\ f[p] \in Found
      BY <2>2, <3>1 DEF Found
    <3>3. Written(layout, f[p].entries) \o f[p].rest = left
      BY <2>2, <2>3, <3>2
    <3>4. Accounts(f[p], layout, left)
      BY <2>5, <3>2, <3>3 DEF Accounts
    <3> QED BY <3>4 DEF left
  <2>6. CASE ~(Len(left) < HeaderLen(layout)) /\ ~(Len(left) < l)
    <3>1. f[p] = [others EXCEPT !.entries = <<Entry(layout, left)>> \o @]
      BY <1>3, <2>6 DEF From
    <3>2. /\ l \in Nat \ {0} /\ p + l \in Nat /\ p + l <= Len(s)
          /\ Entry(layout, left) \in EntrySet
          /\ left = Piece(layout, Entry(layout, left)) \o Drop(s, p + l)
      BY <2>1, <2>6, EntryFits
    <3>3. p + l \in 0..L /\ (p + l) + k > L
      <4> HIDE DEF l
      <4> QED BY <1>1, <3>2
    <3>4. Accounts(others, layout, Drop(s, p + l))
      BY <1>5, <3>3
    <3> DEFINE e == Entry(layout, left)
               o == others
               q == others.entries
    <3>5. o \in Found /\ q \in Seq(EntrySet) /\ o.rest \in Bytes
      BY <3>4 DEF Accounts, Found
    <3>6. HeaderLen(layout) <= Len(left) /\ l <= Len(left)
      <4>1. Len(left) \in Nat /\ layout.before \in 0..4 /\ layout.width \in 1..4
        BY <2>2, LenProperties, LayoutsAre DEF Bytes
      <4>2. HeaderLen(layout) \in Nat
        <5>1. PICK x \in 0..4, y \in 1..4 : x = layout.before /\ y = layout.width
          BY <4>1
        <5>2. HeaderLen(layout) = x + y
          BY <5>1 DEF HeaderLen
        <5> QED BY <5>2
      <4>3. PICK r \in Nat, h \in Nat : r = Len(left) /\ h = HeaderLen(layout)
        BY <4>1, <4>2
      <4> HIDE DEF left, l
      <4>4. ~(r < h) /\ ~(r < l)
        BY <2>6, <4>3
      <4>5. h <= r /\ l <= r
        BY <3>2, <4>4
      <4> QED BY <4>3, <4>5
    <3> HIDE DEF left, l
    <3>7. Piece(layout, e) \in Bytes /\ Written(layout, q) \in Bytes
      BY <3>2, <3>5, PieceIsBytes, WrittenCons
    <3>8. Written(layout, <<e>> \o q) = Piece(layout, e) \o Written(layout, q)
      BY <3>2, <3>5, WrittenCons
    <3>9. Drop(s, p + l) = Written(layout, q) \o o.rest /\ (~o.cut => Len(o.rest) < HeaderLen(layout))
      BY <3>4 DEF Accounts
    <3>10. (Piece(layout, e) \o Written(layout, q)) \o o.rest
             = Piece(layout, e) \o (Written(layout, q) \o o.rest)
      BY <3>5, <3>7, BytesAssociative
    <3>11. <<e>> \o q \in Seq(EntrySet) /\ (<<e>> \o q)[1] = e
      BY <3>2, <3>5, ConsProperties
    <3>12. left = Written(layout, <<e>> \o q) \o o.rest
      BY <3>2, <3>8, <3>9, <3>10
    <3> HIDE DEF others
    <3>13. f[p].entries = <<e>> \o q /\ f[p].rest = o.rest /\ f[p].cut = o.cut /\ f[p] \in Found
      BY <3>1, <3>5, <3>11 DEF Found
    <3> HIDE DEF e, q, o
    <3> QED BY <3>6, <3>9, <3>11, <3>12, <3>13 DEF Accounts, e, l, left
  <2> QED BY <2>4, <2>5, <2>6
<1>6. Nat \subseteq S
  <2> HIDE DEF S
  <2> QED BY <1>4, <1>5, SetInduction
<1>7. L + 1 \in S /\ 0 + (L + 1) > L /\ 0 \in 0..L
  <2> HIDE DEF S
  <2> QED BY <1>6
<1>8. Accounts(f[0], layout, Drop(s, 0))
  BY <1>7
<1>9. Drop(s, 0) = s
  <2>1. Drop(s, 0) = SubSeq(s, 1, Len(s))
    BY DEF Drop
  <2> QED BY <2>1, SubSeqFull DEF Bytes
<1> QED BY <1>2, <1>8, <1>9

-----------------------------------------------------------------------------
(* The decoders.                                                           *)

LEMMA LengthIs ==
  ASSUME NEW s \in Bytes, 2 <= Len(s)
  PROVE  U16(s) \in Nat /\ BigEndian(U16(s), 2) = SubSeq(s, 1, 2)
<1>1. Number(SubSeq(s, 1, 2)) \in Nat /\ BigEndian(Number(SubSeq(s, 1, 2)), 2) = SubSeq(s, 1, 2)
  <2>1. PICK n \in Nat : n = 2
    OBVIOUS
  <2>2. n <= Len(s) /\ n <= 4
    BY <2>1
  <2>3. Number(SubSeq(s, 1, n)) \in Nat /\ BigEndian(Number(SubSeq(s, 1, n)), n) = SubSeq(s, 1, n)
    BY <2>2, FirstReadsBack
  <2> QED BY <2>1, <2>3
<1> QED BY <1>1 DEF U16

LEMMA SplitBytes ==
  ASSUME NEW s \in Bytes, NEW n \in Nat, n <= Len(s)
  PROVE  s = SubSeq(s, 1, n) \o Drop(s, n) /\ Drop(s, n) \in Bytes /\ Len(Drop(s, n)) = Len(s) - n
<1>1. s \in Seq(0..255) /\ n \in 0..Len(s)
  BY LenProperties DEF Bytes
<1>2. s = SubSeq(s, 1, n) \o Drop(s, n)
  BY <1>1, SplitAt
<1> QED BY <1>2, DropBytes

\* A vector is its length and what follows.
LEMMA VectorWrites ==
  ASSUME NEW s \in Bytes, IsVector(s)
  PROVE  Drop(s, 2) \in Bytes /\ s = Framed(2, Drop(s, 2)) /\ Len(Drop(s, 2)) = U16(s)
         /\ Len(s) = 2 + Len(Drop(s, 2))
<1>1. PICK L \in Nat : L = Len(s)
  BY LenProperties DEF Bytes
<1>2. 2 <= Len(s) /\ 2 <= L /\ Len(s) = 2 + U16(s)
  BY <1>1 DEF IsVector
<1>3. U16(s) \in Nat /\ BigEndian(U16(s), 2) = SubSeq(s, 1, 2)
  BY <1>2, LengthIs
<1>4. s = SubSeq(s, 1, 2) \o Drop(s, 2) /\ Drop(s, 2) \in Bytes /\ Len(Drop(s, 2)) = Len(s) - 2
  BY <1>2, SplitBytes
<1>5. Len(Drop(s, 2)) = U16(s)
  <2>1. PICK u \in Nat : u = U16(s)
    BY <1>3
  <2>2. L = 2 + u
    BY <1>1, <1>2, <2>1
  <2>3. L - 2 = u
    BY <2>2
  <2> QED BY <1>1, <1>4, <2>1, <2>3
<1> QED BY <1>2, <1>3, <1>4, <1>5 DEF Framed

\* A list behind a length of one byte.
LEMMA ShortVectorWrites ==
  ASSUME NEW s \in Bytes, s # << >>, Len(s) = 1 + s[1]
  PROVE  Tail(s) \in Bytes /\ s = Framed(1, Tail(s)) /\ Len(s) = 1 + Len(Tail(s))
<1>1. /\ s[1] \in 0..255 /\ Tail(s) \in Seq(0..255) /\ Len(Tail(s)) = Len(s) - 1
      /\ s = <<s[1]>> \o Tail(s)
  BY HeadAndTail DEF Bytes
<1>2. PICK w \in 0..255 : w = s[1]
  BY <1>1
<1>3. Len(Tail(s)) = w
  BY <1>1, <1>2
<1>4. Number(<<w>>) = w /\ BigEndian(Number(<<w>>), 1) = <<w>>
  <2>1. Number(<<w>>) = w
    BY DEF Number
  <2>2. BigEndian(Number(<<w>>), 1) = <<w>>
    BY OneByte
  <2> QED BY <2>1, <2>2
<1>5. s = Framed(1, Tail(s))
  BY <1>1, <1>2, <1>3, <1>4 DEF Framed
<1> QED BY <1>1, <1>2, <1>3, <1>5 DEF Bytes

\* The pairs of an even number of bytes, each written again.
LEMMA PairsWrite ==
  ASSUME NEW s \in Bytes, Len(s) % 2 = 0
  PROVE  Codes(Pairs(s)) = s
<1>1. PICK L \in Nat : L = Len(s)
  BY LenProperties DEF Bytes
<1>2. \A i \in 1..L : s[i] \in 0..255
  BY <1>1, ElementOfSeq DEF Bytes
<1> DEFINE n == L \div 2
<1>3. n \in Nat /\ 2 * n = L
  BY <1>1
<1>4. Len(Pairs(s)) = n /\ \A j \in 1..n : Pairs(s)[j] = Number(<<s[2 * j - 1], s[2 * j]>>)
  BY <1>1, <1>3 DEF Pairs
<1> HIDE DEF n
<1>5. Codes(Pairs(s)) = [i \in 1..L |-> BigEndian(Pairs(s)[(i + 1) \div 2], 2)[2 - (i % 2)]]
  BY <1>3, <1>4 DEF Codes
<1>6. ASSUME NEW i \in 1..L
      PROVE  BigEndian(Pairs(s)[(i + 1) \div 2], 2)[2 - (i % 2)] = s[i]
  <2> DEFINE j == (i + 1) \div 2
  <2>1. j \in 1..n
    BY <1>3
  <2>2. \/ i = 2 * j - 1 /\ i % 2 = 1
        \/ i = 2 * j /\ i % 2 = 0
    <3>1. i \in Nat
      OBVIOUS
    <3> QED BY <3>1
  <2> HIDE DEF j
  <2>3. 2 * j - 1 \in 1..L /\ 2 * j \in 1..L
    BY <1>3, <2>1
  <2>4. PICK w \in 0..255, x \in 0..255 : w = s[2 * j - 1] /\ x = s[2 * j]
    BY <1>2, <2>3
  <2>5. BigEndian(Number(<<w, x>>), 2) = <<w, x>>
    BY TwoBytes
  <2>6. BigEndian(Pairs(s)[j], 2) = <<w, x>>
    BY <1>4, <2>1, <2>4, <2>5
  <2> QED BY <2>2, <2>4, <2>6 DEF j
<1>7. s = [i \in 1..L |-> s[i]]
  BY <1>1 DEF Bytes
<1> QED BY <1>5, <1>6, <1>7

\* What a walk wrote is the beginning of its bytes, the rest less than a header.
LEMMA PrefixOfConcat ==
  ASSUME NEW x \in Bytes, NEW y \in Bytes
  PROVE  IsPrefix(x, x \o y) /\ Len(x \o y) - Len(x) = Len(y)
<1>1. x \in Seq(0..255) /\ y \in Seq(0..255) /\ Len(x) \in Nat /\ Len(y) \in Nat
  BY LenProperties DEF Bytes
<1>2. Len(x \o y) = Len(x) + Len(y)
  BY BytesConcat
<1>3. SubSeq(x \o y, 1, Len(x)) = x
  <2>1. x \o y \in Bytes /\ Len(x) <= Len(x \o y) /\ 0 + 1 = 1 /\ 0 <= Len(x) /\ Len(x) - 0 = Len(x)
    BY <1>1, <1>2, BytesConcat
  <2> DEFINE t == SubSeq(x \o y, 0 + 1, Len(x))
  <2>2. Len(x) \in 0..Len(x \o y)
    BY <1>1, <1>2
  <2> DEFINE S == 0..255
  <2>3. x \o y \in Seq(S)
    BY <2>1 DEF Bytes
  <2> HIDE DEF S
  <2>4. t \in Seq(S) /\ Len(t) = Len(x) - 0 /\ \A i \in 1..Len(x) - 0 : t[i] = (x \o y)[0 + i]
    BY <2>1, <2>2, <2>3, SliceProperties
  <2>5. \A i \in 1..Len(x) : t[i] = x[i]
    <3>1. \A i \in 1..Len(x) : (x \o y)[i] = x[i]
      BY <1>1, ConcatProperties
    <3> HIDE DEF t
    <3> QED BY <1>1, <2>4, <3>1
  <2>6. x \in Seq(S) /\ Len(t) = Len(x)
    BY <1>1, <2>4 DEF S
  <2> HIDE DEF t
  <2>7. t = x
    BY <2>4, <2>5, <2>6, SeqEqual
  <2> QED BY <2>7 DEF t
<1>4. SubSeq(x, 1, Len(x)) = x
  BY <1>1, SubSeqFull
<1> QED BY <1>1, <1>2, <1>3, <1>4 DEF IsPrefix

LEMMA StubEnds ==
  ASSUME NEW layout \in Layouts, NEW s \in Bytes, 2 <= Len(s), 2 + U16(s) <= Len(s),
         ~Walk(layout, SubSeq(s, 3, 2 + U16(s))).cut
  PROVE  EndsInStub(layout, Walk(layout, SubSeq(s, 3, 2 + U16(s))).entries, s)
<1> DEFINE list == SubSeq(s, 3, 2 + U16(s))
           w == Walk(layout, list)
<1>1. U16(s) \in Nat
  BY LengthIs
<1>2. list \in Bytes
  <2>1. PICK n \in Nat : n = 2 + U16(s) /\ 2 <= n
    BY <1>1
  <2>2. SubSeq(s, 2 + 1, n) \in Bytes
    BY <2>1, SliceOfBytes
  <2>3. 2 + 1 = 3
    OBVIOUS
  <2> QED BY <2>1, <2>2, <2>3
<1> HIDE DEF list
<1>3. Accounts(w, layout, list)
  BY <1>2, WalkAccounts
<1>4. ~w.cut
  BY DEF list
<1> HIDE DEF w
<1>5. /\ w.entries \in Seq(EntrySet) /\ w.rest \in Bytes
      /\ list = Written(layout, w.entries) \o w.rest /\ Len(w.rest) < HeaderLen(layout)
  BY <1>3, <1>4 DEF Accounts, Found
<1>6. Written(layout, w.entries) \in Bytes
  BY <1>5, WrittenIsBytes
<1>7. IsPrefix(Written(layout, w.entries), list)
      /\ Len(list) - Len(Written(layout, w.entries)) = Len(w.rest)
  BY <1>5, <1>6, PrefixOfConcat
<1>8. EndsInStub(layout, w.entries, s)
  BY <1>5, <1>7 DEF EndsInStub, list
<1> QED BY <1>8 DEF w, list

LEMMA ServerNameReadsBack ==
  ASSUME NEW s \in Bytes
  PROVE  AccountsFor(DecodeServerName(s), s)
<1> DEFINE names == Walk(Names, SubSeq(s, 3, 2 + U16(s)))
<1>1. CASE Len(s) >= 2 /\ Len(s) >= 2 + U16(s) /\ ~names.cut
  <2>1. DecodeServerName(s) = Body("ServerName", names.entries)
    BY <1>1 DEF DecodeServerName
  <2>2. 2 <= Len(s) /\ 2 + U16(s) <= Len(s)
    <3>1. Len(s) \in Nat
      BY LenProperties DEF Bytes
    <3>2. 2 <= Len(s)
      BY <1>1
    <3>3. U16(s) \in Nat
      BY <3>2, LengthIs
    <3> QED BY <1>1, <3>2
  <2>3. EndsInStub(Names, names.entries, s)
    BY <1>1, <2>2, LayoutsAre, StubEnds
  <2> QED BY <2>1, <2>3 DEF AccountsFor, Body
<1>2. CASE ~(Len(s) >= 2 /\ Len(s) >= 2 + U16(s) /\ ~names.cut)
  <2>1. DecodeServerName(s) = Opaque
    BY <1>2 DEF DecodeServerName
  <2> QED BY <2>1 DEF AccountsFor, Opaque
<1> QED BY <1>1, <1>2

LEMMA CodesReadBack ==
  ASSUME NEW s \in Bytes, NEW form \in {"SupportedGroups", "SignatureAlgorithms"}
  PROVE  AccountsFor(DecodeCodes(form, s), s)
<1>1. CASE IsVector(s) /\ Len(s) % 2 = 0
  <2>1. DecodeCodes(form, s) = Body(form, Pairs(Drop(s, 2)))
    BY <1>1 DEF DecodeCodes
  <2>2. /\ Drop(s, 2) \in Bytes /\ s = Framed(2, Drop(s, 2)) /\ Len(s) = 2 + Len(Drop(s, 2))
    BY <1>1, VectorWrites
  <2>3. Len(Drop(s, 2)) % 2 = 0
    <3>1. PICK n \in Nat : n = Len(Drop(s, 2))
      BY <2>2, LenProperties DEF Bytes
    <3>2. (2 + n) % 2 = 0
      BY <1>1, <2>2, <3>1
    <3>3. n % 2 = 0
      BY <3>2
    <3> QED BY <3>1, <3>3
  <2>4. Codes(Pairs(Drop(s, 2))) = Drop(s, 2)
    BY <2>2, <2>3, PairsWrite
  <2>5. PICK v : DecodeCodes(form, s) = Body(form, v) /\ s = Framed(2, Codes(v))
    BY <2>1, <2>2, <2>4
  <2>6. CASE form = "SupportedGroups"
    BY <2>5, <2>6 DEF AccountsFor, Body
  <2>7. CASE form = "SignatureAlgorithms"
    BY <2>5, <2>7 DEF AccountsFor, Body
  <2> QED BY <2>6, <2>7
<1>2. CASE ~(IsVector(s) /\ Len(s) % 2 = 0)
  <2>1. DecodeCodes(form, s) = Opaque
    BY <1>2 DEF DecodeCodes
  <2> QED BY <2>1 DEF AccountsFor, Opaque
<1> QED BY <1>1, <1>2

\* A walk with nothing left over wrote all it was given.
LEMMA WholeWalk ==
  ASSUME NEW layout \in Layouts, NEW s \in Bytes, Walk(layout, s).rest = << >>
  PROVE  s = Written(layout, Walk(layout, s).entries)
<1> DEFINE w == Walk(layout, s)
<1>1. Accounts(w, layout, s)
  BY WalkAccounts
<1>2. w.rest = << >>
  OBVIOUS
<1> HIDE DEF w
<1>3. s = Written(layout, w.entries) \o w.rest /\ w.entries \in Seq(EntrySet)
  BY <1>1 DEF Accounts, Found
<1>4. Written(layout, w.entries) \in Bytes
  BY <1>3, WrittenIsBytes
<1>5. Written(layout, w.entries) \o << >> = Written(layout, w.entries)
  BY <1>4, ConcatEmptySeq DEF Bytes
<1>6. s = Written(layout, w.entries)
  BY <1>2, <1>3, <1>5
<1> QED BY <1>6 DEF w

LEMMA AlpnReadsBack ==
  ASSUME NEW s \in Bytes
  PROVE  AccountsFor(DecodeAlpn(s), s)
<1> DEFINE protocols == Walk(Protocols, Drop(s, 2))
<1>1. CASE IsVector(s) /\ ~protocols.cut
  <2>1. DecodeAlpn(s) = Body("Alpn", protocols.entries)
    BY <1>1 DEF DecodeAlpn
  <2>2. Drop(s, 2) \in Bytes /\ s = Framed(2, Drop(s, 2))
    BY <1>1, VectorWrites
  <2>3. Accounts(protocols, Protocols, Drop(s, 2))
    BY <2>2, LayoutsAre, WalkAccounts
  <2>4. protocols.rest = << >>
    <3>1. protocols.rest \in Bytes /\ Len(protocols.rest) < HeaderLen(Protocols)
      BY <1>1, <2>3 DEF Accounts, Found
    <3>2. HeaderLen(Protocols) = 1
      BY DEF HeaderLen, Protocols
    <3> HIDE DEF protocols
    <3>3. PICK n \in Nat : n = Len(protocols.rest)
      BY <3>1, LenProperties DEF Bytes
    <3>4. n < 1
      BY <3>1, <3>2, <3>3
    <3>5. Len(protocols.rest) = 0
      BY <3>3, <3>4
    <3> QED BY <3>1, <3>5, EmptySeq DEF Bytes
  <2>5. Drop(s, 2) = Written(Protocols, protocols.entries)
    BY <2>2, <2>4, LayoutsAre, WholeWalk
  <2> QED BY <2>1, <2>2, <2>5 DEF AccountsFor, Body
<1>2. CASE ~(IsVector(s) /\ ~protocols.cut)
  <2>1. DecodeAlpn(s) = Opaque
    BY <1>2 DEF DecodeAlpn
  <2> QED BY <2>1 DEF AccountsFor, Opaque
<1> QED BY <1>1, <1>2

LEMMA SupportedVersionsReadBack ==
  ASSUME NEW s \in Bytes
  PROVE  AccountsFor(DecodeSupportedVersions(s), s)
<1> DEFINE list == Len(s) \notin {0, 2} /\ Len(s) = 1 + s[1] /\ s[1] % 2 = 0
<1>1. CASE Len(s) = 2
  <2>1. DecodeSupportedVersions(s) = Body("SupportedVersions", Pairs(s))
    BY <1>1 DEF DecodeSupportedVersions
  <2>2. Len(s) % 2 = 0
    BY <1>1
  <2>3. Codes(Pairs(s)) = s
    BY <2>2, PairsWrite
  <2> QED BY <2>1, <2>3 DEF AccountsFor, Body
<1>2. CASE Len(s) # 2 /\ list
  <2>1. DecodeSupportedVersions(s) = Body("SupportedVersions", Pairs(Tail(s)))
    BY <1>2 DEF DecodeSupportedVersions
  <2>2. s # << >>
    BY <1>2, EmptySeq DEF Bytes
  <2>3. Tail(s) \in Bytes /\ s = Framed(1, Tail(s)) /\ Len(s) = 1 + Len(Tail(s))
    BY <1>2, <2>2, ShortVectorWrites
  <2>4. Len(Tail(s)) % 2 = 0
    <3>1. PICK n \in Nat : n = Len(Tail(s))
      BY <2>3, LenProperties DEF Bytes
    <3>2. PICK h \in 0..255 : h = s[1]
      BY <2>2, HeadAndTail DEF Bytes
    <3>3. 1 + n = 1 + h /\ h % 2 = 0
      BY <1>2, <2>3, <3>1, <3>2
    <3>4. n = h
      BY <3>3
    <3> QED BY <3>1, <3>3, <3>4
  <2>5. Codes(Pairs(Tail(s))) = Tail(s)
    BY <2>3, <2>4, PairsWrite
  <2>6. s = Framed(1, Codes(Pairs(Tail(s))))
    BY <2>3, <2>5
  <2> QED BY <2>1, <2>6 DEF AccountsFor, Body
<1>3. CASE Len(s) # 2 /\ ~list
  <2>1. DecodeSupportedVersions(s) = Opaque
    BY <1>3 DEF DecodeSupportedVersions
  <2> QED BY <2>1 DEF AccountsFor, Opaque
<1> QED BY <1>1, <1>2, <1>3

LEMMA PskModesReadBack ==
  ASSUME NEW s \in Bytes
  PROVE  AccountsFor(DecodePskModes(s), s)
<1>1. CASE s # << >> /\ Len(s) = 1 + s[1]
  <2>1. DecodePskModes(s) = Body("PskKeyExchangeModes", Tail(s))
    BY <1>1 DEF DecodePskModes
  <2>2. s = Framed(1, Tail(s))
    BY <1>1, ShortVectorWrites
  <2> QED BY <2>1, <2>2 DEF AccountsFor, Body
<1>2. CASE ~(s # << >> /\ Len(s) = 1 + s[1])
  <2>1. DecodePskModes(s) = Opaque
    BY <1>2 DEF DecodePskModes
  <2> QED BY <2>1 DEF AccountsFor, Opaque
<1> QED BY <1>1, <1>2

LEMMA CookieReadsBack ==
  ASSUME NEW s \in Bytes
  PROVE  AccountsFor(DecodeCookie(s), s)
<1>1. CASE IsVector(s)
  <2>1. DecodeCookie(s) = Body("Cookie", Drop(s, 2))
    BY <1>1 DEF DecodeCookie
  <2>2. s = Framed(2, Drop(s, 2))
    BY <1>1, VectorWrites
  <2> QED BY <2>1, <2>2 DEF AccountsFor, Body
<1>2. CASE ~IsVector(s)
  <2>1. DecodeCookie(s) = Opaque
    BY <1>2 DEF DecodeCookie
  <2> QED BY <2>1 DEF AccountsFor, Opaque
<1> QED BY <1>1, <1>2

LEMMA KeyShareReadsBack ==
  ASSUME NEW s \in Bytes
  PROVE  AccountsFor(DecodeKeyShare(s), s)
<1> DEFINE x == IF ClientForm(s) THEN Drop(s, 2) ELSE s
           shares == Walk(Shares, x)
<1>1. CASE shares.rest = << >>
  <2>1. DecodeKeyShare(s) = Body("KeyShare", shares.entries)
    BY <1>1 DEF DecodeKeyShare
  <2>2. ClientForm(s) => IsVector(s)
    <3>1. Len(s) \in Nat
      BY LenProperties DEF Bytes
    <3>2. Len(s) >= 4 => Len(s) >= 2
      BY <3>1
    <3> QED BY <3>2 DEF ClientForm, IsVector
  <2>3. x \in Bytes /\ s \in {x, Framed(2, x)}
    BY <2>2, VectorWrites
  <2>4. x = Written(Shares, shares.entries)
    <3> HIDE DEF x
    <3> QED BY <1>1, <2>3, LayoutsAre, WholeWalk
  <2>5. s \in {Written(Shares, shares.entries), Framed(2, Written(Shares, shares.entries))}
    <3> HIDE DEF x
    <3> QED BY <2>3, <2>4
  <2> QED BY <2>1, <2>5 DEF AccountsFor, Body
<1>2. CASE ~(shares.rest = << >>)
  <2>1. DecodeKeyShare(s) = Opaque
    BY <1>2 DEF DecodeKeyShare
  <2> QED BY <2>1 DEF AccountsFor, Opaque
<1> QED BY <1>1, <1>2

LEMMA PreSharedKeyReadsBack ==
  ASSUME NEW s \in Bytes
  PROVE  AccountsFor(DecodePreSharedKey(s), s)
<1> DEFINE end == 2 + U16(s)
           identities == Walk(Identities, SubSeq(s, 3, end))
           value == [identities |-> identities.entries, binders_len |-> U16(Drop(s, end))]
<1>1. CASE Len(s) >= 2 /\ Len(s) >= end + 2 /\ ~identities.cut
  <2>1. DecodePreSharedKey(s) = Body("PreSharedKey", value)
    BY <1>1 DEF DecodePreSharedKey
  <2>2. 2 <= Len(s) /\ end <= Len(s)
    <3>1. PICK L \in Nat : L = Len(s)
      BY LenProperties DEF Bytes
    <3>2. 2 <= L /\ 2 <= Len(s)
      BY <1>1, <3>1
    <3>3. PICK u \in Nat : u = U16(s)
      BY <3>2, LengthIs
    <3>4. L >= (2 + u) + 2
      BY <1>1, <3>1, <3>3
    <3>5. 2 + u <= L
      BY <3>4
    <3> QED BY <3>1, <3>2, <3>3, <3>5
  <2>3. EndsInStub(Identities, identities.entries, s)
    BY <1>1, <2>2, LayoutsAre, StubEnds
  <2> HIDE DEF identities
  <2> QED BY <2>1, <2>3 DEF AccountsFor, Body
<1>2. CASE ~(Len(s) >= 2 /\ Len(s) >= end + 2 /\ ~identities.cut)
  <2>1. DecodePreSharedKey(s) = Opaque
    BY <1>2 DEF DecodePreSharedKey
  <2> QED BY <2>1 DEF AccountsFor, Opaque
<1> QED BY <1>1, <1>2

\* Whatever the bytes and the type, but for early_data, the decoded body accounts for them.
LEMMA EveryBodyReadsBack ==
  ASSUME NEW s \in Bytes, NEW t, t # 42
  PROVE  AccountsFor(DecodeBody(t, s), s)
<1>1. CASE t = 0
  BY <1>1, ServerNameReadsBack DEF DecodeBody
<1>2. CASE t = 10
  <2>1. DecodeBody(t, s) = DecodeCodes("SupportedGroups", s)
    BY <1>2 DEF DecodeBody
  <2> QED BY <2>1, CodesReadBack
<1>3. CASE t \in {13, 50}
  <2>1. DecodeBody(t, s) = DecodeCodes("SignatureAlgorithms", s)
    BY <1>3 DEF DecodeBody
  <2> QED BY <2>1, CodesReadBack
<1>4. CASE t = 16
  BY <1>4, AlpnReadsBack DEF DecodeBody
<1>5. CASE t = 41
  BY <1>5, PreSharedKeyReadsBack DEF DecodeBody
<1>6. CASE t = 42
  BY <1>6
<1>7. CASE t = 43
  BY <1>7, SupportedVersionsReadBack DEF DecodeBody
<1>8. CASE t = 44
  BY <1>8, CookieReadsBack DEF DecodeBody
<1>9. CASE t = 45
  BY <1>9, PskModesReadBack DEF DecodeBody
<1>10. CASE t = 51
  BY <1>10, KeyShareReadsBack DEF DecodeBody
<1>11. CASE t \notin {0, 10, 13, 50, 16, 41, 42, 43, 44, 45, 51}
  <2>1. DecodeBody(t, s) = Opaque
    BY <1>11 DEF DecodeBody
  <2> QED BY <2>1 DEF AccountsFor, Opaque
<1> QED BY <1>1, <1>2, <1>3, <1>4, <1>5, <1>6, <1>7, <1>8, <1>9, <1>10, <1>11

-----------------------------------------------------------------------------
(* The specification: whatever bytes a peer makes a body of.               *)

BodyInv == body \in Bytes

LEMMA BodyIsBytes == Spec => []BodyInv
<1> USE DEF BodyInv
<1>1. Init => BodyInv
  BY DetailAssumption DEF Init, Bytes
<1>2. BodyInv /\ [Next]_vars => BodyInv'
  <2> SUFFICES ASSUME BodyInv, [Next]_vars PROVE body' \in Bytes
    OBVIOUS
  <2>1. ASSUME NEW b \in Alphabet, AppendByte(b)
        PROVE  body' \in Bytes
    <3>1. b \in 0..255 /\ body' = Append(body, b)
      BY <2>1, DetailAssumption DEF AppendByte
    <3> QED BY <3>1, AppendProperties DEF Bytes
  <2>2. ASSUME ~\E b \in Alphabet : AppendByte(b)
        PROVE  body' = body
    BY <2>2 DEF Next, AddExtension, WriteHello, SendRecord, SelectSection,
                      ToggleEducation, Resize, vars, helloVars
  <2> QED BY <2>1, <2>2
<1> HIDE DEF BodyInv
<1> QED BY <1>1, <1>2, PTL DEF Spec

(* What a decoder other than early_data's shows of any bytes is what they  *)
(* say: encoded again it is those bytes, or for server_name and            *)
(* pre_shared_key the entries of the list they start with, up to the stub  *)
(* it may end in; what follows that list is not claimed to be shown (the   *)
(* decode_* functions and the walks of src/src/parser/extensions.rs).      *)
THEOREM BodiesAreReadBack == Spec => []BodiesReadBack
<1>1. BodyInv => BodiesReadBack
  BY EveryBodyReadsBack DEF BodiesReadBack, BodyInv
<1> QED BY <1>1, BodyIsBytes, PTL

(* For any bytes at all, when the detail view lists key shares, the        *)
(* tracker's summary names the group of the first one, client's list or    *)
(* server's single share (first_key_share_group, decode_key_share).        *)
THEOREM SummaryGroupIsFirst ==
  \A s \in Bytes :
    \/ DecodeKeyShare(s) \in {Opaque, Body("KeyShare", << >>)}
    \/ FirstKeyShareGroup(s) = {DecodeKeyShare(s).value[1].code}
<1> SUFFICES ASSUME NEW s \in Bytes,
                    DecodeKeyShare(s) \notin {Opaque, Body("KeyShare", << >>)}
             PROVE  FirstKeyShareGroup(s) = {DecodeKeyShare(s).value[1].code}
  OBVIOUS
<1> DEFINE x == IF ClientForm(s) THEN Drop(s, 2) ELSE s
           shares == Walk(Shares, x)
<1>1. DecodeKeyShare(s) = Body("KeyShare", shares.entries) /\ shares.entries # << >>
  BY DEF DecodeKeyShare
<1>2. PICK L \in Nat : L = Len(s)
  BY LenProperties DEF Bytes
<1>3. ClientForm(s) => 4 <= L /\ IsVector(s)
  <2>1. ClientForm(s) => 4 <= L /\ 2 <= L /\ Len(s) = 2 + U16(s)
    BY <1>2 DEF ClientForm
  <2>2. 2 <= L => Len(s) >= 2
    BY <1>2
  <2> QED BY <2>1, <2>2 DEF IsVector
<1>4. x \in Bytes
  BY <1>3, VectorWrites
<1> HIDE DEF x
<1>5. Accounts(shares, Shares, x)
  BY <1>4, LayoutsAre, WalkAccounts
<1> HIDE DEF shares
<1>6. HeaderLen(Shares) <= Len(x) /\ shares.entries[1] = Entry(Shares, x)
  BY <1>1, <1>5 DEF Accounts
<1>7. Entry(Shares, x).code = U16(x)
  BY DEF Entry, Shares, U16
<1>8. HeaderLen(Shares) = 4
  BY DEF HeaderLen, Shares
<1>9. FirstKeyShareGroup(s) = {U16(x)}
  <2>1. CASE ClientForm(s)
    <3>1. ~(Len(s) < 4)
      BY <1>2, <1>3, <2>1
    <3> QED BY <2>1, <3>1 DEF FirstKeyShareGroup, x
  <2>2. CASE ~ClientForm(s)
    <3>1. 4 <= L
      BY <1>2, <1>6, <1>8, <2>2 DEF x
    <3>2. ~(Len(s) < 4)
      BY <1>2, <3>1
    <3> QED BY <2>2, <3>2 DEF FirstKeyShareGroup, x
  <2> QED BY <2>1, <2>2
<1>10. DecodeKeyShare(s).value = shares.entries
  BY <1>1 DEF Body
<1> QED BY <1>6, <1>7, <1>9, <1>10

-----------------------------------------------------------------------------
(* Scrolling.                                                              *)

(* The wish before clamping lies at or below the section's start plus the  *)
(* rows of a peek.                                                         *)
LEMMA DesiredShows ==
  ASSUME NEW start \in Nat, NEW height \in Nat, NEW pane \in Nat
  PROVE  /\ Desired(start, height, pane) \in Nat
         /\ height <= pane => start + height <= Desired(start, height, pane) + pane
BY DEF Desired, Monus, PEEK

(* A section that ends within the rows is in view.                         *)
LEMMA OffsetShows ==
  ASSUME NEW start \in Nat, NEW height \in Nat \ {0}, NEW total \in Nat, NEW pane \in Nat \ {0},
         start + height <= total, start <= U16_MAX
  PROVE  InView(ScrollOffset(start, height, total, pane), start, height, total, pane)
<1> DEFINE lowest == Higher(Desired(start, height, pane), Monus(start, pane - 1))
           scroll == ScrollOffset(start, height, total, pane)
<1>1. /\ lowest \in Nat
      /\ start < lowest + pane
      /\ height <= pane => start + height <= lowest + pane
  <2>1. /\ Desired(start, height, pane) \in Nat
        /\ height <= pane => start + height <= Desired(start, height, pane) + pane
    BY DesiredShows
  <2> QED
    BY <2>1 DEF Higher, Monus
<1>2. scroll = Lower(Lower(Lower(lowest, Monus(total, pane)), start), U16_MAX)
  BY DEF ScrollOffset
<1> HIDE DEF lowest, scroll
<1>3. /\ scroll \in Nat
      /\ scroll = lowest \/ scroll = Monus(total, pane) \/ scroll = start
      /\ scroll <= start /\ scroll <= Monus(total, pane)
  BY <1>1, <1>2 DEF Lower, Monus, U16_MAX
<1>4. TitleVisible(scroll, start, pane)
  BY <1>1, <1>3 DEF TitleVisible, Monus
<1>5. WholeVisible(scroll, start, height, pane)
  BY <1>1, <1>3 DEF WholeVisible, Monus
<1>6. NotPastTheEnd(scroll, total, pane)
  BY <1>3 DEF NotPastTheEnd
<1> QED
  BY <1>4, <1>5, <1>6 DEF InView, scroll

\* The start of section i, from those before it.
NextStart(f, heights, i) == IF i = 1 THEN 0 ELSE f[i - 1] + heights[i - 1] + 2

LEMMA StartsExist ==
  ASSUME NEW heights \in Seq(Nat)
  PROVE  \E f : f = [i \in 1..Len(heights) |-> NextStart(f, heights, i)]
<1>1. PICK n \in Nat : n = Len(heights)
  BY LenProperties
<1>2. \A i \in 1..n : heights[i] \in Nat
  BY <1>1, ElementOfSeq
<1> DEFINE Good(f, k) == \A i \in 1..n : i <= k => f[i] = NextStart(f, heights, i)
           S == {k \in Nat : \E f \in [1..n -> Nat] : Good(f, k)}
<1>3. 0 \in S
  <2>1. [i \in 1..n |-> 0] \in [1..n -> Nat] /\ Good([i \in 1..n |-> 0], 0)
    OBVIOUS
  <2> QED BY <2>1
<1>4. ASSUME NEW k \in Nat, k \in S PROVE k + 1 \in S
  <2>1. PICK g \in [1..n -> Nat] : Good(g, k)
    BY <1>4
  <2>2. CASE k >= n
    <3>1. Good(g, k + 1)
      BY <1>1, <2>1, <2>2
    <3> HIDE DEF Good
    <3> QED BY <2>1, <3>1
  <2>3. CASE k < n
    <3> DEFINE h == [i \in 1..n |-> IF i = k + 1 THEN NextStart(g, heights, i) ELSE g[i]]
    <3>1. NextStart(g, heights, k + 1) \in Nat
      <4>1. CASE k = 0
        BY <4>1 DEF NextStart
      <4>2. CASE k # 0
        <5>1. (k + 1) - 1 \in 1..n /\ k + 1 # 1
          BY <2>3, <4>2
        <5>2. g[(k + 1) - 1] \in Nat /\ heights[(k + 1) - 1] \in Nat
          BY <1>2, <5>1
        <5> QED BY <5>1, <5>2 DEF NextStart
      <4> QED BY <4>1, <4>2
    <3>2. h \in [1..n -> Nat]
      BY <3>1
    <3>3. ASSUME NEW i \in 1..n, i <= k + 1 PROVE h[i] = NextStart(h, heights, i)
      <4>1. h[i] = NextStart(g, heights, i)
        BY <2>1, <3>3
      <4>2. i # 1 => i - 1 \in 1..n /\ i - 1 # k + 1
        BY <3>3
      <4>3. i # 1 => h[i - 1] = g[i - 1]
        BY <4>2
      <4> QED BY <4>1, <4>3 DEF NextStart
    <3> HIDE DEF h
    <3>4. Good(h, k + 1)
      BY <3>3
    <3> HIDE DEF Good
    <3> QED BY <3>2, <3>4
  <2> HIDE DEF S
  <2> QED BY <1>1, <2>2, <2>3
<1>5. Nat \subseteq S
  <2> HIDE DEF S
  <2> QED BY <1>3, <1>4, SetInduction
<1>6. PICK f \in [1..n -> Nat] : Good(f, n)
  <2>1. n \in S
    <3> HIDE DEF S
    <3> QED BY <1>5
  <2> QED BY <2>1
<1>7. f = [i \in 1..n |-> NextStart(f, heights, i)]
  BY <1>6
<1> QED BY <1>1, <1>7

LEMMA StartIs ==
  ASSUME NEW heights \in Seq(Nat), NEW i \in 1..Len(heights)
  PROVE  Start(heights, i)
           = IF i = 1 THEN 0 ELSE Start(heights, i - 1) + heights[i - 1] + 2
<1> DEFINE Is(f) == f = [j \in 1..Len(heights) |-> NextStart(f, heights, j)]
           start == CHOOSE f : Is(f)
<1>1. Is(start)
  BY StartsExist
<1>2. Starts(heights) = start
  BY DEF Starts, NextStart
<1> HIDE DEF start
<1>3. start[i] = NextStart(start, heights, i)
  BY <1>1
<1> QED BY <1>2, <1>3 DEF Start, NextStart

(* The sections lie one below the other: none starts above the first row,  *)
(* and none ends below the last.                                           *)
LEMMA SectionsStacked ==
  ASSUME NEW heights \in Seq(Nat), NEW i \in 1..Len(heights)
  PROVE  /\ Start(heights, i) \in Nat /\ TotalRows(heights) \in Nat
         /\ Start(heights, i) + heights[i] <= TotalRows(heights)
<1>1. PICK n \in Nat : n = Len(heights)
  BY LenProperties
<1>2. \A j \in 1..n : heights[j] \in Nat
  BY <1>1, ElementOfSeq
<1>3. \A j \in 1..n :
        Start(heights, j) = IF j = 1 THEN 0 ELSE Start(heights, j - 1) + heights[j - 1] + 2
  BY <1>1, StartIs
<1> DEFINE S == {k \in Nat : k + 1 \in 1..n => Start(heights, k + 1) \in Nat}
<1>4. Nat \subseteq S
  <2>1. 0 \in S
    BY <1>3
  <2>2. ASSUME NEW k \in Nat, k \in S PROVE k + 1 \in S
    <3> SUFFICES ASSUME k + 2 \in 1..n PROVE Start(heights, k + 2) \in Nat
      OBVIOUS
    <3>1. k + 1 \in 1..n /\ k + 2 # 1 /\ (k + 2) - 1 = k + 1
      OBVIOUS
    <3>2. Start(heights, k + 1) \in Nat /\ heights[k + 1] \in Nat
      BY <1>2, <2>2, <3>1
    <3>3. Start(heights, k + 2) = Start(heights, k + 1) + heights[k + 1] + 2
      BY <1>3, <3>1
    <3> QED BY <3>2, <3>3
  <2> HIDE DEF S
  <2> QED BY <2>1, <2>2, SetInduction
<1>5. ASSUME NEW j \in 1..n PROVE Start(heights, j) \in Nat
  <2>1. j - 1 \in Nat /\ (j - 1) + 1 = j
    OBVIOUS
  <2>2. j - 1 \in S
    <3> HIDE DEF S
    <3> QED BY <1>4, <2>1
  <2> QED BY <2>1, <2>2
<1> DEFINE End(j) == Start(heights, j) + heights[j]
           T == {k \in Nat : i + k \in 1..n => End(i) <= End(i + k)}
<1>6. Nat \subseteq T
  <2>1. 0 \in T
    BY <1>1, <1>2, <1>5
  <2>2. ASSUME NEW k \in Nat, k \in T PROVE k + 1 \in T
    <3> SUFFICES ASSUME i + (k + 1) \in 1..n PROVE End(i) <= End(i + (k + 1))
      OBVIOUS
    <3>1. PICK j \in 1..n : j = i + k
      BY <1>1
    <3>2. j + 1 \in 1..n /\ j + 1 # 1 /\ (j + 1) - 1 = j /\ i + (k + 1) = j + 1
      BY <1>1, <3>1
    <3>3. Start(heights, j + 1) = Start(heights, j) + heights[j] + 2
      BY <1>3, <3>2
    <3>4. /\ Start(heights, j) \in Nat /\ heights[j] \in Nat /\ heights[j + 1] \in Nat
          /\ Start(heights, i) \in Nat /\ heights[i] \in Nat
      BY <1>1, <1>2, <1>5, <3>2
    <3>5. End(i) <= End(j)
      BY <2>2, <3>1
    <3>6. End(i) \in Nat /\ End(j) \in Nat /\ End(j + 1) \in Nat /\ End(j) <= End(j + 1)
      <4>1. PICK a \in Nat : a = End(j)
        BY <3>4
      <4>2. PICK b \in Nat : b = heights[j + 1]
        BY <3>4
      <4>3. End(i) \in Nat
        BY <3>4, SMTT(20)
      <4>4. End(j + 1) = a + 2 + b
        BY <3>3, <4>1, <4>2
      <4> HIDE DEF End
      <4> QED BY <4>1, <4>2, <4>3, <4>4, SMTT(20)
    <3>7. End(i + (k + 1)) = End(j + 1)
      BY <3>2
    <3> HIDE DEF End
    <3> QED BY <3>5, <3>6, <3>7
  <2> HIDE DEF T
  <2> QED BY <2>1, <2>2, SetInduction
<1>7. End(i) <= End(n)
  <2>1. n - i \in Nat /\ i + (n - i) = n /\ n \in 1..n
    BY <1>1
  <2>2. n - i \in T
    <3> HIDE DEF T
    <3> QED BY <1>6, <2>1
  <2> QED BY <2>1, <2>2
<1>8. TotalRows(heights) = End(n)
  BY <1>1 DEF TotalRows
<1>9. End(n) \in Nat
  BY <1>1, <1>2, <1>5
<1> QED BY <1>1, <1>5, <1>7, <1>8, <1>9

(* The selected section is in view on every frame (scroll_offset), however *)
(* many sections there are and whatever their heights and the pane's, as   *)
(* long as the rows above it can be counted in the u16 that ratatui        *)
(* scrolls by.                                                             *)
THEOREM SelectedInView ==
  ASSUME NEW heights \in Seq(Nat \ {0}), NEW i \in 1..Len(heights), NEW pane \in Nat \ {0},
         Start(heights, i) <= U16_MAX
  PROVE  LET start == Start(heights, i)
             total == TotalRows(heights)
         IN  InView(ScrollOffset(start, heights[i], total, pane), start, heights[i], total, pane)
<1>1. heights \in Seq(Nat) /\ heights[i] \in Nat \ {0}
  BY ElementOfSeq
<1>2. PICK start \in Nat, total \in Nat :
        start = Start(heights, i) /\ total = TotalRows(heights)
  BY <1>1, SectionsStacked
<1>3. PICK height \in Nat \ {0} : height = heights[i]
  BY <1>1
<1>4. start + height <= total
  BY <1>1, <1>2, <1>3, SectionsStacked
<1>5. InView(ScrollOffset(start, height, total, pane), start, height, total, pane)
  BY <1>2, <1>4, OffsetShows
<1> QED
  BY <1>2, <1>3, <1>5

-----------------------------------------------------------------------------
(* What is written is read: numbers.                                       *)

\* A number is its last digit and what is before it.
LEMMA LastDigit ==
  ASSUME NEW n \in Nat
  PROVE  n \div 256 \in Nat /\ n % 256 \in 0..255 /\ n = 256 * (n \div 256) + (n % 256)
OBVIOUS

LEMMA SmallDigit ==
  ASSUME NEW n \in Nat, n < 256
  PROVE  n % 256 = n /\ n \in 0..255
OBVIOUS

LEMMA NumberOfOne ==
  ASSUME NEW n \in Nat, n < 256
  PROVE  BigEndian(n, 1) = <<n>> /\ Number(BigEndian(n, 1)) = n
<1>1. n \div 1 = n /\ n % 256 = n
  BY Digits, SmallDigit
<1>2. BigEndian(n, 1) = <<n>>
  BY <1>1, WeightsAre DEF BigEndian
<1> QED BY <1>2 DEF Number

LEMMA NumberOfTwo ==
  ASSUME NEW n \in Nat, n \div 256 < 256
  PROVE  Number(BigEndian(n, 2)) = n
<1> DEFINE k == n \div 256
           z == n % 256
<1>1. k \in Nat /\ k < 256 /\ n = 256 * k + z
  BY LastDigit
<1>2. n \div 1 = n /\ k % 256 = k
  BY <1>1, Digits, SmallDigit
<1>3. BigEndian(n, 2) = <<k, z>>
  BY <1>2, WeightsAre DEF BigEndian
<1> HIDE DEF k, z
<1> QED BY <1>1, <1>3 DEF Number

LEMMA NumberOfThree ==
  ASSUME NEW n \in Nat, n \div (256 * 256) < 256
  PROVE  Number(BigEndian(n, 3)) = n
<1> DEFINE l == n \div 256
           z == n % 256
           k == l \div 256
           y == l % 256
<1>1. l \in Nat /\ n = 256 * l + z
  BY LastDigit
<1>2. n \div 1 = n /\ n \div (256 * 256) = k
  BY Digits
<1>3. k \in Nat /\ k < 256 /\ l = 256 * k + y
  <2>1. k < 256
    BY <1>2
  <2> HIDE DEF l
  <2> QED BY <1>1, <2>1, LastDigit
<1>4. k % 256 = k
  <2> HIDE DEF k
  <2> QED BY <1>3, SmallDigit
<1>5. BigEndian(n, 3) = <<k, y, z>>
  <2>1. BigEndian(n, 3) = [i \in 1..3 |-> (n \div Weights[3 - i + 1]) % 256]
    BY DEF BigEndian
  <2> DEFINE d(i) == (n \div Weights[3 - i + 1]) % 256
  <2>2. d(1) = k /\ d(2) = y /\ d(3) = z
    BY <1>2, <1>4, WeightsAre
  <2> HIDE DEF d
  <2>3. [i \in 1..3 |-> d(i)] = <<d(1), d(2), d(3)>>
    OBVIOUS
  <2> QED BY <2>1, <2>2, <2>3 DEF d
<1> HIDE DEF k, l, y, z
<1> QED BY <1>1, <1>3, <1>5 DEF Number

LEMMA NumberOfFour ==
  ASSUME NEW n \in Nat, n \div (256 * 256 * 256) < 256
  PROVE  Number(BigEndian(n, 4)) = n
<1> DEFINE m == n \div 256
           z == n % 256
           l == m \div 256
           y == m % 256
           k == l \div 256
           x == l % 256
<1>1. m \in Nat /\ n = 256 * m + z
  BY LastDigit
<1>2. n \div 1 = n /\ n \div (256 * 256) = l /\ n \div (256 * 256 * 256) = k
  BY Digits
<1>3. l \in Nat /\ m = 256 * l + y
  <2> HIDE DEF m
  <2> QED BY <1>1, LastDigit
<1>4. k \in Nat /\ k < 256 /\ l = 256 * k + x
  <2>1. k < 256
    BY <1>2
  <2> HIDE DEF l
  <2> QED BY <1>3, <2>1, LastDigit
<1>5. k % 256 = k
  <2> HIDE DEF k
  <2> QED BY <1>4, SmallDigit
<1>6. BigEndian(n, 4) = <<k, x, y, z>>
  <2>1. BigEndian(n, 4) = [i \in 1..4 |-> (n \div Weights[4 - i + 1]) % 256]
    BY DEF BigEndian
  <2> DEFINE d(i) == (n \div Weights[4 - i + 1]) % 256
  <2>2. d(1) = k /\ d(2) = x /\ d(3) = y /\ d(4) = z
    BY <1>2, <1>5, WeightsAre
  <2> HIDE DEF d
  <2>3. [i \in 1..4 |-> d(i)] = <<d(1), d(2), d(3), d(4)>>
    OBVIOUS
  <2> QED BY <2>1, <2>2, <2>3 DEF d
<1> HIDE DEF k, l, m, x, y, z
<1>7. Number(<<k, x, y, z>>) = 256 * (256 * (256 * k + x) + y) + z
  BY DEF Number
<1> QED BY <1>1, <1>3, <1>4, <1>6, <1>7

\* A number that fits its width is read as it was written.
LEMMA NumberIsWritten ==
  ASSUME NEW n, NEW w \in 0..4, Fits(n, w)
  PROVE  /\ n \in Nat /\ Number(BigEndian(n, w)) = n
         /\ BigEndian(n, w) \in Bytes /\ Len(BigEndian(n, w)) = w
<1>1. n \in Nat /\ (w = 0 => n = 0) /\ (w # 0 => n \div Weights[w] < 256)
  BY DEF Fits
<1>2. BigEndian(n, w) \in Bytes /\ Len(BigEndian(n, w)) = w
  BY <1>1, BigEndianIsBytes
<1>3. CASE w = 0
  <2>1. BigEndian(n, w) = << >>
    BY <1>3 DEF BigEndian
  <2> QED BY <1>1, <1>2, <1>3, <2>1 DEF Number
<1>4. CASE w = 1
  <2>1. n < 256
    BY <1>1, <1>4, WeightsAre
  <2> QED BY <1>1, <1>2, <1>4, <2>1, NumberOfOne
<1>5. CASE w = 2
  BY <1>1, <1>2, <1>5, WeightsAre, NumberOfTwo
<1>6. CASE w = 3
  BY <1>1, <1>2, <1>6, WeightsAre, NumberOfThree
<1>7. CASE w = 4
  BY <1>1, <1>2, <1>7, WeightsAre, NumberOfFour
<1> QED BY <1>3, <1>4, <1>5, <1>6, <1>7

-----------------------------------------------------------------------------
(* What is written is read: pieces behind one another.                     *)

LEMMA MiddleOfConcat ==
  ASSUME NEW x \in Bytes, NEW y \in Bytes, NEW z \in Bytes
  PROVE  SubSeq(x \o (y \o z), Len(x) + 1, Len(x) + Len(y)) = y
<1> DEFINE S == 0..255
<1>1. x \in Seq(S) /\ y \in Seq(S) /\ z \in Seq(S)
  BY DEF Bytes
<1> HIDE DEF S
<1>2. PICK m \in Nat : m = Len(x)
  BY <1>1, LenProperties
<1>3. PICK n \in Nat : n = Len(y)
  BY <1>1, LenProperties
<1>4. PICK p \in Nat : p = Len(z)
  BY <1>1, LenProperties
<1> DEFINE s == x \o (y \o z)
           t == SubSeq(s, m + 1, m + n)
<1>5. /\ y \o z \in Seq(S) /\ Len(y \o z) = n + p
      /\ \A i \in 1..n : (y \o z)[i] = y[i]
  <2>1. y \o z \in Seq(S) /\ Len(y \o z) = Len(y) + Len(z)
    BY <1>1, ConcatProperties
  <2>2. \A i \in 1..Len(y) + Len(z) : (y \o z)[i] = IF i <= Len(y) THEN y[i] ELSE z[i - Len(y)]
    BY <1>1, ConcatProperties
  <2> QED BY <1>3, <1>4, <2>1, <2>2
<1>6. /\ s \in Seq(S) /\ Len(s) = m + (n + p)
      /\ \A i \in 1..n + p : s[m + i] = (y \o z)[i]
  <2> DEFINE q == y \o z
  <2>1. q \in Seq(S) /\ Len(q) = n + p
    BY <1>5
  <2> HIDE DEF q
  <2>2. x \o q \in Seq(S) /\ Len(x \o q) = Len(x) + Len(q)
    BY <1>1, <2>1, ConcatProperties
  <2>3. \A i \in 1..Len(x) + Len(q) : (x \o q)[i] = IF i <= Len(x) THEN x[i] ELSE q[i - Len(x)]
    BY <1>1, <2>1, ConcatProperties
  <2>4. ASSUME NEW i \in 1..n + p PROVE (x \o q)[m + i] = q[i]
    <3>1. m + i \in 1..m + (n + p) /\ ~(m + i <= m) /\ (m + i) - m = i
      OBVIOUS
    <3> QED BY <1>2, <2>1, <2>3, <3>1
  <2> QED BY <1>2, <2>1, <2>2, <2>4 DEF q
<1> HIDE DEF s
<1>7. t \in Seq(S) /\ Len(t) = n /\ \A i \in 1..n : t[i] = s[m + i]
  <2>1. m + n \in 0..Len(s) /\ m <= m + n /\ (m + n) - m = n
    BY <1>6
  <2>2. t \in Seq(S) /\ Len(t) = (m + n) - m /\ \A i \in 1..(m + n) - m : t[i] = s[m + i]
    BY <1>6, <2>1, SliceProperties
  <2> QED BY <2>1, <2>2
<1> HIDE DEF t
<1>8. \A i \in 1..n : t[i] = y[i]
  <2> SUFFICES ASSUME NEW i \in 1..n PROVE t[i] = y[i]
    OBVIOUS
  <2>1. i \in 1..n + p
    OBVIOUS
  <2> QED BY <1>5, <1>6, <1>7, <2>1
<1>9. t = y
  BY <1>1, <1>3, <1>7, <1>8, SeqEqual
<1> QED BY <1>2, <1>3, <1>9 DEF t, s

LEMMA NoBytes ==
  /\ << >> \in Bytes /\ Len(<< >>) = 0
  /\ \A x \in Bytes : x \o << >> = x /\ << >> \o x = x /\ Len(x) \in Nat
BY ConcatEmptySeq, LenProperties DEF Bytes

LEMMA StartOfConcat ==
  ASSUME NEW x \in Bytes, NEW y \in Bytes
  PROVE  SubSeq(x \o y, 1, Len(x)) = x
<1>1. SubSeq(<< >> \o (x \o y), Len(<< >>) + 1, Len(<< >>) + Len(x)) = x
  BY NoBytes, MiddleOfConcat
<1>2. << >> \o (x \o y) = x \o y
  BY BytesConcat, NoBytes
<1>3. Len(<< >>) + 1 = 1 /\ Len(<< >>) + Len(x) = Len(x)
  BY NoBytes
<1> QED BY <1>1, <1>2, <1>3

LEMMA DropConcat ==
  ASSUME NEW x \in Bytes, NEW y \in Bytes
  PROVE  Drop(x \o y, Len(x)) = y
<1>1. SubSeq(x \o (y \o << >>), Len(x) + 1, Len(x) + Len(y)) = y
  BY NoBytes, MiddleOfConcat
<1>2. y \o << >> = y /\ Len(x \o y) = Len(x) + Len(y)
  BY BytesConcat, NoBytes
<1> QED BY <1>1, <1>2 DEF Drop

LEMMA ConcatLength ==
  ASSUME NEW x \in Bytes, NEW y \in Bytes
  PROVE  /\ Len(x) \in Nat /\ Len(y) \in Nat /\ Len(x \o y) \in Nat
         /\ Len(x \o y) = Len(x) + Len(y) /\ Len(x) <= Len(x \o y)
<1>1. Len(x) \in Nat /\ Len(y) \in Nat /\ Len(x \o y) = Len(x) + Len(y)
  BY BytesConcat, NoBytes
<1> QED BY <1>1

\* Associativity under a name, so that one instance is asked for at a time.
Grouped(x, y, z) == (x \o y) \o z = x \o (y \o z)

LEMMA Regroup ==
  ASSUME NEW x \in Bytes, NEW y \in Bytes, NEW z \in Bytes
  PROVE  Grouped(x, y, z)
BY BytesAssociative DEF Grouped

\* Four pieces in front of others are where their lengths say.
Laid(x, y, z, u, v, yz, xyz, piece, s) ==
  yz = y \o z /\ xyz = x \o yz /\ piece = xyz \o u /\ s = piece \o v

Placed(x, y, z, u, piece, s, b, w, d, a) ==
  /\ s \in Bytes /\ piece \in Bytes
  /\ Len(piece) = ((b + w) + d) + a
  /\ SubSeq(s, 1, b) = x
  /\ SubSeq(s, b + 1, b + w) = y
  /\ SubSeq(s, (b + w) + 1, (b + w) + d) = z
  /\ SubSeq(s, ((b + w) + d) + 1, ((b + w) + d) + a) = u

LEMMA FourPieces ==
  ASSUME NEW x \in Bytes, NEW y \in Bytes, NEW z \in Bytes, NEW u \in Bytes, NEW v \in Bytes,
         NEW yz, NEW xyz, NEW piece, NEW s, Laid(x, y, z, u, v, yz, xyz, piece, s),
         NEW b \in Nat, NEW w \in Nat, NEW d \in Nat, NEW a \in Nat,
         Len(x) = b, Len(y) = w, Len(z) = d, Len(u) = a
  PROVE  Placed(x, y, z, u, piece, s, b, w, d, a)
<1>1. PICK uv \in Bytes : uv = u \o v
  BY BytesConcat
<1>2. PICK zuv \in Bytes : zuv = z \o uv
  BY BytesConcat
<1>3. PICK yzuv \in Bytes : yzuv = y \o zuv
  BY BytesConcat
<1>4. PICK xy \in Bytes : xy = x \o y
  BY BytesConcat
<1>5. yz \in Bytes /\ Len(yz) = w + d
  <2>1. y \o z \in Bytes /\ Len(y \o z) = Len(y) + Len(z)
    BY BytesConcat
  <2> QED BY <2>1 DEF Laid
<1>6. xyz \in Bytes /\ Len(xyz) = b + (w + d)
  <2>1. x \o yz \in Bytes /\ Len(x \o yz) = Len(x) + Len(yz)
    BY <1>5, BytesConcat
  <2>2. xyz = x \o yz
    BY DEF Laid
  <2> QED BY <1>5, <2>1, <2>2
<1>7. piece \in Bytes /\ Len(piece) = (b + (w + d)) + a
  <2>1. xyz \o u \in Bytes /\ Len(xyz \o u) = Len(xyz) + Len(u)
    BY <1>6, BytesConcat
  <2>2. piece = xyz \o u
    BY DEF Laid
  <2> QED BY <1>6, <2>1, <2>2
<1>8. s \in Bytes
  <2>1. piece \o v \in Bytes
    BY <1>7, BytesConcat
  <2>2. s = piece \o v
    BY DEF Laid
  <2> QED BY <2>1, <2>2
<1>9. xyz = xy \o z /\ Len(xy) = b + w
  <2>1. (x \o y) \o z = x \o (y \o z)
    <3>1. Grouped(x, y, z)
      BY Regroup
    <3> QED BY <3>1 DEF Grouped
  <2>2. Len(x \o y) = Len(x) + Len(y)
    BY BytesConcat
  <2>3. xyz = x \o (y \o z)
    BY DEF Laid
  <2> QED BY <1>4, <2>1, <2>2, <2>3
<1>10. s = xyz \o uv
  <2>1. (xyz \o u) \o v = xyz \o (u \o v)
    <3>1. Grouped(xyz, u, v)
      BY <1>6, Regroup
    <3> QED BY <3>1 DEF Grouped
  <2>2. s = (xyz \o u) \o v
    BY DEF Laid
  <2> QED BY <1>1, <2>1, <2>2
<1>11. s = xy \o zuv
  <2>1. (xy \o z) \o uv = xy \o (z \o uv)
    <3>1. Grouped(xy, z, uv)
      BY Regroup
    <3> QED BY <3>1 DEF Grouped
  <2> QED BY <1>2, <1>9, <1>10, <2>1
<1>12. s = x \o yzuv
  <2>1. (x \o y) \o zuv = x \o (y \o zuv)
    <3>1. Grouped(x, y, zuv)
      BY Regroup
    <3> QED BY <3>1 DEF Grouped
  <2> QED BY <1>3, <1>4, <1>11, <2>1
<1>13. SubSeq(s, 1, b) = x
  BY <1>12, StartOfConcat
<1>14. SubSeq(s, b + 1, b + w) = y
  <2>1. SubSeq(x \o (y \o zuv), Len(x) + 1, Len(x) + Len(y)) = y
    BY MiddleOfConcat
  <2> QED BY <2>1, <1>3, <1>12
<1>15. SubSeq(s, (b + w) + 1, (b + w) + d) = z
  <2>1. SubSeq(xy \o (z \o uv), Len(xy) + 1, Len(xy) + Len(z)) = z
    BY MiddleOfConcat
  <2> QED BY <2>1, <1>2, <1>9, <1>11
<1>16. SubSeq(s, ((b + w) + d) + 1, ((b + w) + d) + a) = u
  <2>1. SubSeq(xyz \o (u \o v), Len(xyz) + 1, Len(xyz) + Len(u)) = u
    BY <1>6, MiddleOfConcat
  <2>2. Len(xyz) = (b + w) + d
    BY <1>6
  <2> QED BY <2>1, <2>2, <1>1, <1>10
<1>17. Len(piece) = ((b + w) + d) + a
  BY <1>7
<1> QED BY <1>7, <1>8, <1>13, <1>14, <1>15, <1>16, <1>17 DEF Placed

\* An entry in front of other bytes is found as it was written.
LEMMA EntryIsWritten ==
  ASSUME NEW layout \in Layouts, NEW e \in EntrySet, Writable(layout, e), NEW t \in Bytes
  PROVE  LET s == Piece(layout, e) \o t
         IN  /\ s \in Bytes /\ Piece(layout, e) \in Bytes
             /\ Entry(layout, s) = e
             /\ EntryLen(layout, s) = Len(Piece(layout, e))
             /\ HeaderLen(layout) <= EntryLen(layout, s)
             /\ HeaderLen(layout) \in Nat \ {0}
             /\ EntryLen(layout, s) = HeaderLen(layout) + Len(e.data) + layout.after
<1>1. PICK b \in 0..4 : b = layout.before
  BY LayoutsAre
<1>2. PICK w \in 1..4 : w = layout.width
  BY LayoutsAre
<1>3. PICK a \in 0..4 : a = layout.after
  BY LayoutsAre
<1>4. e.code \in Nat /\ e.data \in Bytes /\ e.after \in Nat
      /\ e = [code |-> e.code, data |-> e.data, after |-> e.after]
  BY DEF EntrySet
<1>5. PICK d \in Nat : d = Len(e.data)
  BY <1>4, NoBytes
<1> DEFINE A == BigEndian(e.code, b)
           B == BigEndian(d, w)
           D == e.data
           E == BigEndian(e.after, a)
<1>6. A \in Bytes /\ Len(A) = b /\ Number(A) = e.code
  BY <1>1, NumberIsWritten DEF Writable
<1>7. B \in Bytes /\ Len(B) = w /\ Number(B) = d
  <2>1. w \in 0..4 /\ Fits(d, w)
    BY <1>2, <1>5 DEF Writable
  <2> QED BY <2>1, NumberIsWritten
<1>8. E \in Bytes /\ Len(E) = a /\ Number(E) = e.after
  BY <1>3, NumberIsWritten DEF Writable
<1>9. Piece(layout, e) = (A \o (B \o D)) \o E
  BY <1>1, <1>2, <1>3, <1>5 DEF Piece, Framed
<1>10. D \in Bytes /\ Len(D) = d
  BY <1>4, <1>5
<1> HIDE DEF A, B, D, E
<1> DEFINE piece == (A \o (B \o D)) \o E
           s == piece \o t
<1>11. /\ s \in Bytes /\ piece \in Bytes /\ Len(piece) = ((b + w) + d) + a
       /\ SubSeq(s, 1, b) = A
       /\ SubSeq(s, b + 1, b + w) = B
       /\ SubSeq(s, (b + w) + 1, (b + w) + d) = D
       /\ SubSeq(s, ((b + w) + d) + 1, ((b + w) + d) + a) = E
  <2>1. PICK x \in Bytes : x = A
    BY <1>6
  <2>2. PICK y \in Bytes : y = B
    BY <1>7
  <2>3. PICK z \in Bytes : z = D
    BY <1>10
  <2>4. PICK u \in Bytes : u = E
    BY <1>8
  <2>5. \E yz, xyz : Laid(x, y, z, u, t, yz, xyz, piece, s)
    BY <2>1, <2>2, <2>3, <2>4 DEF Laid
  <2>8. PICK yz, xyz : Laid(x, y, z, u, t, yz, xyz, piece, s)
    BY <2>5
  <2>6. Len(x) = b /\ Len(y) = w /\ Len(z) = d /\ Len(u) = a
    BY <1>6, <1>7, <1>8, <1>10, <2>1, <2>2, <2>3, <2>4
  <2> HIDE DEF s, piece
  <2>7. Placed(x, y, z, u, piece, s, b, w, d, a)
    BY <2>6, <2>8, FourPieces
  <2> QED BY <2>1, <2>2, <2>3, <2>4, <2>7 DEF Placed
<1>20. s \in Bytes
  BY <1>11
<1> HIDE DEF s, piece
<1>21. HeaderLen(layout) = b + w
  BY <1>1, <1>2 DEF HeaderLen
<1>22. DataLen(layout, s) = d
  BY <1>1, <1>7, <1>11, <1>21 DEF DataLen
<1>23. EntryLen(layout, s) = ((b + w) + d) + a
  BY <1>3, <1>21, <1>22 DEF EntryLen
<1>24. Entry(layout, s) = e
  <2>1. Entry(layout, s) = [code |-> Number(SubSeq(s, 1, b)),
                            data |-> SubSeq(s, (b + w) + 1, (b + w) + d),
                            after |-> Number(SubSeq(s, ((b + w) + d) + 1, ((b + w) + d) + a))]
    BY <1>1, <1>3, <1>21, <1>22 DEF Entry
  <2>2. Entry(layout, s) = [code |-> Number(A), data |-> D, after |-> Number(E)]
    BY <2>1, <1>11
  <2> QED BY <2>2, <1>4, <1>6, <1>8 DEF D
<1>25. HeaderLen(layout) <= EntryLen(layout, s) /\ HeaderLen(layout) \in Nat \ {0}
  BY <1>21, <1>23
<1>26. Piece(layout, e) = piece /\ EntryLen(layout, s) = Len(piece) /\ piece \in Bytes
  BY <1>9, <1>11, <1>23 DEF piece
<1>27. s = Piece(layout, e) \o t
  BY <1>26 DEF s
<1>28. EntryLen(layout, s) = HeaderLen(layout) + Len(e.data) + layout.after
  BY <1>3, <1>5, <1>21, <1>23
<1> QED BY <1>20, <1>24, <1>25, <1>26, <1>27, <1>28

-----------------------------------------------------------------------------
(* What is written is read: lists.                                         *)

LEMMA ListTail ==
  ASSUME NEW layout, NEW q, IsList(layout, q), q # << >>
  PROVE  /\ q[1] \in EntrySet /\ Writable(layout, q[1])
         /\ IsList(layout, Tail(q)) /\ Tail(q) \in Seq(EntrySet)
         /\ Len(q) \in Nat /\ Len(Tail(q)) = Len(q) - 1 /\ q = <<q[1]>> \o Tail(q)
<1>1. q \in Seq(EntrySet) /\ \A i \in DOMAIN q : Writable(layout, q[i])
  BY DEF IsList
<1>2. PICK n \in Nat : n = Len(q) /\ DOMAIN q = 1..n
  BY <1>1, LenProperties
<1>3. /\ q[1] \in EntrySet /\ Tail(q) \in Seq(EntrySet) /\ Len(Tail(q)) = Len(q) - 1
      /\ q = <<q[1]>> \o Tail(q)
  BY <1>1, HeadAndTail
<1>4. n # 0
  BY <1>1, <1>2, EmptySeq
<1>5. \A i \in 1..n - 1 : Tail(q)[i] = q[i + 1]
  <2>1. \A i \in 1..Len(Tail(q)) : Tail(q)[i] = q[i + 1]
    BY <1>1, HeadTailProperties
  <2> QED BY <1>2, <1>3, <2>1
<1>6. DOMAIN Tail(q) = 1..n - 1
  BY <1>2, <1>3, LenProperties
<1>7. \A i \in DOMAIN Tail(q) : Writable(layout, Tail(q)[i])
  BY <1>1, <1>2, <1>5, <1>6
<1> QED BY <1>1, <1>2, <1>3, <1>4, <1>7 DEF IsList

LEMMA EntriesReplaced ==
  ASSUME NEW q, NEW rest, NEW cut, NEW u
  PROVE  [[entries |-> q, rest |-> rest, cut |-> cut] EXCEPT !.entries = u]
           = [entries |-> u, rest |-> rest, cut |-> cut]
OBVIOUS

\* A list is walked to its end and found as it was written.
LEMMA ListIsWritten ==
  ASSUME NEW layout \in Layouts, NEW q, IsList(layout, q)
  PROVE  /\ Written(layout, q) \in Bytes
         /\ Walk(layout, Written(layout, q)) = [entries |-> q, rest |-> << >>, cut |-> FALSE]
<1> DEFINE s == Written(layout, q)
           All(r) == [entries |-> r, rest |-> << >>, cut |-> FALSE]
<1>1. q \in Seq(EntrySet) /\ s \in Bytes
  BY WrittenIsBytes DEF IsList
<1>2. PICK L \in Nat : L = Len(s)
  BY <1>1, NoBytes
<1> HIDE DEF s
<1>3. PICK f : Walks(f, layout, s) /\ Walk(layout, s) = f[0]
  BY <1>1, WalkIs
<1>4. \A p \in 0..L : f[p] = From(f, layout, s, p)
  BY <1>2, <1>3 DEF Walks
<1> DEFINE Finds(r) == \A p \in 0..L : Drop(s, p) = Written(layout, r) => f[p] = All(r)
           S == {k \in Nat : \A r \in Seq(EntrySet) : IsList(layout, r) /\ Len(r) = k => Finds(r)}
<1>5. PICK h \in Nat : h = HeaderLen(layout) /\ h # 0
  <2>1. PICK b \in 0..4 : b = layout.before
    BY LayoutsAre
  <2>2. PICK w \in 1..4 : w = layout.width
    BY LayoutsAre
  <2>3. HeaderLen(layout) = b + w
    BY <2>1, <2>2 DEF HeaderLen
  <2> QED BY <2>3
<1>6. 0 \in S
  <2> SUFFICES ASSUME NEW r \in Seq(EntrySet), Len(r) = 0, NEW p \in 0..L,
                      Drop(s, p) = Written(layout, r)
               PROVE  f[p] = All(r)
    OBVIOUS
  <2>1. r = << >>
    BY EmptySeq
  <2>2. [code |-> 0, data |-> << >>, after |-> 0] \in EntrySet
    BY NoBytes DEF EntrySet
  <2>3. Drop(s, p) = << >>
    BY <2>1, <2>2, WrittenCons
  <2>4. Len(Drop(s, p)) < HeaderLen(layout)
    BY <1>5, <2>3, NoBytes
  <2>5. From(f, layout, s, p) = [entries |-> << >>, rest |-> Drop(s, p), cut |-> FALSE]
    BY <2>4 DEF From
  <2> QED BY <1>4, <2>1, <2>3, <2>5
<1>7. ASSUME NEW k \in Nat, k \in S PROVE k + 1 \in S
  <2> SUFFICES ASSUME NEW r \in Seq(EntrySet), IsList(layout, r), Len(r) = k + 1,
                      NEW p \in 0..L, Drop(s, p) = Written(layout, r)
               PROVE  f[p] = All(r)
    OBVIOUS
  <2>1. r # << >>
    BY EmptySeq
  <2>2. PICK e \in EntrySet : e = r[1]
    BY <2>1, ListTail
  <2>3. PICK t \in Seq(EntrySet) : t = Tail(r)
    BY <2>1, ListTail
  <2>4. Writable(layout, e) /\ IsList(layout, t) /\ Len(t) = k /\ r = <<e>> \o t
    BY <2>1, <2>2, <2>3, ListTail
  <2>5. PICK w \in Bytes : w = Written(layout, t)
    BY WrittenIsBytes
  <2>6. PICK piece \in Bytes : piece = Piece(layout, e)
    BY PieceIsBytes
  <2>7. Drop(s, p) = piece \o w
    BY <2>4, <2>5, <2>6, WrittenCons
  <2>8. PICK left \in Bytes : left = Drop(s, p)
    BY <2>7, BytesConcat
  <2>9. /\ Entry(layout, left) = e
        /\ EntryLen(layout, left) = Len(piece)
        /\ HeaderLen(layout) <= EntryLen(layout, left)
    BY <2>4, <2>6, <2>7, <2>8, EntryIsWritten
  <2>10. PICK l \in Nat : l = Len(piece)
    BY NoBytes
  <2>11. PICK m \in Nat : m = Len(w)
    BY NoBytes
  <2>12. Len(left) = l + m
    BY <2>7, <2>8, <2>10, <2>11, BytesConcat
  <2>13. ~(Len(left) < HeaderLen(layout)) /\ ~(Len(left) < EntryLen(layout, left))
    BY <1>5, <2>9, <2>10, <2>12
  <2>14. f[p] = [f[p + l] EXCEPT !.entries = <<e>> \o @]
    <3>1. From(f, layout, s, p)
            = [f[p + EntryLen(layout, left)] EXCEPT !.entries = <<Entry(layout, left)>> \o @]
      BY <2>8, <2>13 DEF From
    <3> QED BY <3>1, <1>4, <2>9, <2>10
  <2>15. p + l \in 0..L /\ l \in 0..L - p
    <3>1. Len(left) = L - p
      BY <1>1, <1>2, <2>8, DropBytes
    <3> QED BY <3>1, <2>12
  <2>16. Drop(s, p + l) = w
    <3>1. s \in Seq(0..255) /\ p \in 0..Len(s) /\ l \in 0..Len(s) - p
      BY <1>1, <1>2, <2>15 DEF Bytes
    <3>2. Drop(Drop(s, p), l) = Drop(s, p + l)
      BY <3>1, DropDrop
    <3>3. Drop(piece \o w, l) = w
      BY <2>10, DropConcat
    <3> QED BY <3>2, <3>3, <2>7
  <2>17. f[p + l] = All(t)
    BY <1>7, <2>4, <2>5, <2>15, <2>16
  <2>18. f[p] = All(<<e>> \o t)
    <3>1. PICK u : u = <<e>> \o t
      OBVIOUS
    <3>2. f[p + l].entries = t
      BY <2>17
    <3>3. f[p] = [f[p + l] EXCEPT !.entries = u]
      BY <2>14, <3>1, <3>2
    <3>4. PICK no : no = FALSE
      OBVIOUS
    <3>5. f[p + l] = [entries |-> t, rest |-> << >>, cut |-> no]
      BY <2>17, <3>4
    <3>6. [[entries |-> t, rest |-> << >>, cut |-> no] EXCEPT !.entries = u]
            = [entries |-> u, rest |-> << >>, cut |-> no]
      BY EntriesReplaced
    <3>7. f[p] = [entries |-> u, rest |-> << >>, cut |-> no]
      BY <3>3, <3>5, <3>6
    <3>8. f[p] = All(u)
      BY <3>4, <3>7
    <3> QED BY <3>1, <3>8
  <2> QED BY <2>4, <2>18
<1>8. Nat \subseteq S
  <2> HIDE DEF S
  <2> QED BY <1>6, <1>7, SetInduction
<1>9. Finds(q)
  <2>1. Len(q) \in Nat
    BY <1>1, LenProperties
  <2> QED BY <1>1, <1>8, <2>1
<1>10. Drop(s, 0) = s /\ 0 \in 0..L
  <2>1. Drop(s, 0) = SubSeq(s, 1, Len(s))
    BY DEF Drop
  <2> QED BY <2>1, <1>1, SubSeqFull DEF Bytes
<1>11. f[0] = All(q)
  BY <1>9, <1>10 DEF s
<1> QED BY <1>1, <1>3, <1>11 DEF s

\* The codes of a list in pairs of bytes.
LEMMA CodesAreWritten ==
  ASSUME NEW q, IsCodes(q)
  PROVE  /\ Codes(q) \in Bytes /\ Len(q) \in Nat /\ Len(Codes(q)) = 2 * Len(q)
         /\ Len(Codes(q)) % 2 = 0 /\ Pairs(Codes(q)) = q
<1>1. q \in Seq(Nat) /\ \A i \in DOMAIN q : Fits(q[i], 2)
  BY DEF IsCodes
<1>2. PICK n \in Nat : n = Len(q) /\ DOMAIN q = 1..n
  BY <1>1, LenProperties
<1>3. \A j \in 1..n : q[j] \in Nat /\ Fits(q[j], 2)
  BY <1>1, <1>2, ElementOfSeq
<1> DEFINE digit(i) == BigEndian(q[(i + 1) \div 2], 2)[2 - (i % 2)]
<1>4. Codes(q) = [i \in 1..2 * n |-> digit(i)]
  BY <1>2 DEF Codes
<1>5. ASSUME NEW c \in Nat, Fits(c, 2)
      PROVE  /\ BigEndian(c, 2) \in Bytes /\ Len(BigEndian(c, 2)) = 2
             /\ Number(BigEndian(c, 2)) = c
             /\ BigEndian(c, 2) = <<BigEndian(c, 2)[1], BigEndian(c, 2)[2]>>
             /\ BigEndian(c, 2)[1] \in 0..255 /\ BigEndian(c, 2)[2] \in 0..255
  <2>2. BigEndian(c, 2) \in Bytes /\ Len(BigEndian(c, 2)) = 2 /\ Number(BigEndian(c, 2)) = c
    BY <1>5, NumberIsWritten
  <2>3. PICK b \in Bytes : b = BigEndian(c, 2)
    BY <2>2
  <2>4. b \in Seq(0..255) /\ Len(b) = 2
    BY <2>2, <2>3 DEF Bytes
  <2>5. PICK w, x \in 0..255 : b = <<w, x>>
    BY <2>4, AsTwo
  <2>6. b[1] = w /\ b[2] = x
    BY <2>5
  <2> QED BY <2>2, <2>3, <2>5, <2>6
<1>6. ASSUME NEW i \in 1..2 * n PROVE digit(i) \in 0..255
  <2>1. (i + 1) \div 2 \in 1..n /\ (2 - (i % 2) = 1 \/ 2 - (i % 2) = 2)
    OBVIOUS
  <2>2. PICK c \in Nat : c = q[(i + 1) \div 2] /\ Fits(c, 2)
    BY <1>3, <2>1
  <2> QED BY <1>5, <2>1, <2>2
<1>7. /\ Codes(q) \in Bytes /\ Len(Codes(q)) = 2 * n
      /\ \A i \in 1..2 * n : Codes(q)[i] = digit(i)
  <2> HIDE DEF digit
  <2>1. Codes(q) \in [1..2 * n -> 0..255]
    BY <1>4, <1>6
  <2> QED BY <1>4, <2>1 DEF Bytes
<1>8. ASSUME NEW j \in 1..n
      PROVE  Number(<<Codes(q)[2 * j - 1], Codes(q)[2 * j]>>) = q[j]
  <2>1. /\ 2 * j - 1 \in 1..2 * n /\ 2 * j \in 1..2 * n
        /\ ((2 * j - 1) + 1) \div 2 = j /\ (2 * j + 1) \div 2 = j
        /\ 2 - ((2 * j - 1) % 2) = 1 /\ 2 - ((2 * j) % 2) = 2
    OBVIOUS
  <2>2. PICK c \in Nat : c = q[j] /\ Fits(c, 2)
    BY <1>3
  <2>3. digit(2 * j - 1) = BigEndian(c, 2)[1] /\ digit(2 * j) = BigEndian(c, 2)[2]
    BY <2>1, <2>2
  <2> HIDE DEF digit
  <2>4. Codes(q)[2 * j - 1] = BigEndian(c, 2)[1] /\ Codes(q)[2 * j] = BigEndian(c, 2)[2]
    BY <1>7, <2>1, <2>3
  <2> QED BY <1>5, <2>2, <2>4
<1>9. (2 * n) \div 2 = n /\ (2 * n) % 2 = 0
  OBVIOUS
<1>10. Pairs(Codes(q)) = [j \in 1..n |-> Number(<<Codes(q)[2 * j - 1], Codes(q)[2 * j]>>)]
  BY <1>7, <1>9 DEF Pairs
<1>11. q = [j \in 1..n |-> q[j]]
  BY <1>1, <1>2
<1>12. Pairs(Codes(q)) = q
  BY <1>8, <1>10, <1>11
<1> QED BY <1>2, <1>7, <1>9, <1>12

-----------------------------------------------------------------------------
(* What is written is read: vectors behind their lengths.                  *)

\* Where a vector and what is behind it are found.
VectorIn(raw, w, s, t) ==
  /\ Framed(w, s) \in Bytes /\ raw \in Bytes
  /\ Len(Framed(w, s)) = w + Len(s) /\ Len(raw) = w + Len(s) + Len(t)
  /\ Number(SubSeq(raw, 1, w)) = Len(s)
  /\ SubSeq(raw, w + 1, w + Len(s)) = s
  /\ Drop(raw, w) = s \o t
  /\ Drop(raw, w + Len(s)) = t

LEMMA VectorInFront ==
  ASSUME NEW w \in 1..4, NEW s \in Bytes, Fits(Len(s), w), NEW t \in Bytes
  PROVE  VectorIn(Framed(w, s) \o t, w, s, t)
<1>1. PICK n \in Nat : n = Len(s)
  BY NoBytes
<1>2. PICK x \in Bytes : x = BigEndian(n, w)
  <2>1. w \in 0..4 /\ Fits(n, w)
    BY <1>1
  <2> QED BY <2>1, NumberIsWritten
<1>3. Number(x) = n /\ Len(x) = w
  <2>1. w \in 0..4 /\ Fits(n, w)
    BY <1>1
  <2>2. Number(BigEndian(n, w)) = n /\ Len(BigEndian(n, w)) = w
    BY <2>1, NumberIsWritten
  <2> QED BY <1>2, <2>2
<1>4. PICK v \in Bytes : v = x \o s
  BY BytesConcat
<1>5. v = Framed(w, s) /\ Len(v) = w + n
  <2>1. Len(x \o s) = Len(x) + Len(s)
    BY BytesConcat
  <2> QED BY <2>1, <1>1, <1>2, <1>3, <1>4 DEF Framed
<1>6. PICK raw \in Bytes : raw = v \o t
  BY BytesConcat
<1>7. PICK m \in Nat : m = Len(t)
  BY NoBytes
<1>8. Len(raw) = (w + n) + m
  <2>1. Len(v \o t) = Len(v) + Len(t)
    BY BytesConcat
  <2> QED BY <2>1, <1>5, <1>6, <1>7
<1>9. PICK r \in Bytes : r = s \o t
  BY BytesConcat
<1>10. raw = x \o r
  <2>1. Grouped(x, s, t)
    BY Regroup
  <2> QED BY <2>1, <1>4, <1>6, <1>9 DEF Grouped
<1>11. SubSeq(raw, 1, w) = x
  BY <1>3, <1>10, StartOfConcat
<1>12. SubSeq(raw, w + 1, w + n) = s
  <2>1. SubSeq(x \o (s \o t), Len(x) + 1, Len(x) + Len(s)) = s
    BY MiddleOfConcat
  <2> QED BY <2>1, <1>1, <1>3, <1>9, <1>10
<1>13. Drop(raw, w) = r
  BY <1>3, <1>10, DropConcat
<1>14. Drop(raw, w + n) = t
  BY <1>5, <1>6, DropConcat
<1> QED BY <1>1, <1>3, <1>5, <1>6, <1>7, <1>8, <1>9, <1>11, <1>12, <1>13, <1>14 DEF VectorIn

\* A vector alone.
LEMMA VectorAlone ==
  ASSUME NEW w \in 1..4, NEW s \in Bytes, NEW raw, Frames(raw, w, s)
  PROVE  VectorIn(raw, w, s, << >>) /\ Drop(raw, w) = s
<1>1. raw = Framed(w, s) /\ Fits(Len(s), w)
  BY DEF Frames
<1>2. VectorIn(raw \o << >>, w, s, << >>)
  BY <1>1, VectorInFront, NoBytes
<1>3. raw \o << >> = raw
  BY <1>1, <1>2, NoBytes DEF VectorIn
<1>4. s \o << >> = s
  BY NoBytes
<1>5. VectorIn(raw, w, s, << >>)
  BY <1>2, <1>3
<1>6. Drop(raw, w) = s \o << >>
  BY <1>5 DEF VectorIn
<1> QED BY <1>4, <1>5, <1>6

LEMMA LongVector ==
  ASSUME NEW s \in Bytes, NEW raw, Frames(raw, 2, s)
  PROVE  /\ raw \in Bytes /\ Len(s) \in Nat /\ Len(raw) = 2 + Len(s) /\ U16(raw) = Len(s)
         /\ IsVector(raw) /\ Drop(raw, 2) = s /\ SubSeq(raw, 3, 2 + U16(raw)) = s
<1>1. PICK w \in 1..4 : w = 2
  OBVIOUS
<1>2. VectorIn(raw, w, s, << >>) /\ Drop(raw, w) = s
  BY <1>1, VectorAlone
<1>3. PICK n \in Nat : n = Len(s)
  BY NoBytes
<1>4. raw \in Bytes /\ Len(raw) = 2 + n /\ Number(SubSeq(raw, 1, 2)) = n
      /\ SubSeq(raw, 2 + 1, 2 + n) = s
  BY <1>1, <1>2, <1>3, NoBytes DEF VectorIn
<1>5. U16(raw) = n
  BY <1>4 DEF U16
<1>6. IsVector(raw)
  <2>1. Len(raw) >= 2 /\ Len(raw) = 2 + U16(raw)
    BY <1>4, <1>5
  <2> QED BY <2>1 DEF IsVector
<1> QED BY <1>1, <1>2, <1>3, <1>4, <1>5, <1>6

LEMMA TailOfCons ==
  ASSUME NEW S, NEW x \in S, NEW q \in Seq(S)
  PROVE  Tail(<<x>> \o q) = q /\ <<x>> \o q # << >>
<1> DEFINE r == <<x>> \o q
<1>1. /\ r \in Seq(S) /\ Len(r) = Len(q) + 1 /\ Len(q) \in Nat
      /\ \A i \in 1..Len(q) : r[i + 1] = q[i]
  BY ConsProperties, LenProperties
<1> HIDE DEF r
<1>2. r # << >>
  BY <1>1, EmptySeq
<1>3. Tail(r) \in Seq(S) /\ Len(Tail(r)) = Len(r) - 1
  BY <1>1, <1>2, HeadAndTail
<1>4. \A i \in 1..Len(Tail(r)) : Tail(r)[i] = r[i + 1]
  BY <1>1, <1>2, HeadTailProperties
<1>5. Len(Tail(r)) = Len(q)
  BY <1>1, <1>3
<1>6. Tail(r) = q
  BY <1>1, <1>3, <1>4, <1>5, SeqEqual
<1> QED BY <1>2, <1>6 DEF r

LEMMA ShortVector ==
  ASSUME NEW s \in Bytes, NEW raw, Frames(raw, 1, s)
  PROVE  /\ raw \in Bytes /\ Len(s) \in Nat /\ Len(raw) = 1 + Len(s)
         /\ raw # << >> /\ raw[1] = Len(s) /\ Tail(raw) = s
<1>1. PICK n \in Nat : n = Len(s)
  BY NoBytes
<1>2. n < 256
  BY <1>1, WeightsAre DEF Frames, Fits
<1>3. BigEndian(n, 1) = <<n>> /\ n \in 0..255
  BY <1>2, NumberOfOne
<1>4. raw = <<n>> \o s
  BY <1>1, <1>3 DEF Frames, Framed
<1>5. s \in Seq(0..255)
  BY DEF Bytes
<1>6. /\ <<n>> \o s \in Seq(0..255) /\ Len(<<n>> \o s) = Len(s) + 1 /\ (<<n>> \o s)[1] = n
  BY <1>3, <1>5, ConsProperties
<1>7. Tail(<<n>> \o s) = s /\ <<n>> \o s # << >>
  BY <1>3, <1>5, TailOfCons
<1>8. raw \in Bytes
  BY <1>4, <1>6 DEF Bytes
<1>9. Len(raw) = 1 + n /\ raw[1] = n
  <2>1. Len(raw) = Len(s) + 1 /\ raw[1] = n
    BY <1>4, <1>6
  <2> QED BY <1>1, <2>1
<1>10. raw # << >> /\ Tail(raw) = s
  BY <1>4, <1>7
<1> QED BY <1>1, <1>8, <1>9, <1>10

LEMMA ListVector ==
  ASSUME NEW layout \in Layouts, NEW v, NEW raw, ListOf(layout, v, raw)
  PROVE  /\ raw \in Bytes /\ U16(raw) \in Nat /\ Len(raw) = 2 + U16(raw) /\ IsVector(raw)
         /\ Written(layout, v) \in Bytes /\ Len(Written(layout, v)) = U16(raw)
         /\ Walk(layout, Drop(raw, 2)) = [entries |-> v, rest |-> << >>, cut |-> FALSE]
         /\ Walk(layout, SubSeq(raw, 3, 2 + U16(raw))) = [entries |-> v, rest |-> << >>, cut |-> FALSE]
<1>1. PICK s \in Bytes : s = Written(layout, v)
  BY ListIsWritten DEF ListOf
<1>2. Walk(layout, s) = [entries |-> v, rest |-> << >>, cut |-> FALSE]
  BY <1>1, ListIsWritten DEF ListOf
<1>3. /\ raw \in Bytes /\ Len(s) \in Nat /\ Len(raw) = 2 + Len(s) /\ U16(raw) = Len(s)
      /\ IsVector(raw) /\ Drop(raw, 2) = s /\ SubSeq(raw, 3, 2 + U16(raw)) = s
  BY <1>1, LongVector DEF ListOf
<1> QED BY <1>1, <1>2, <1>3

-----------------------------------------------------------------------------
(* What is written is read: the bodies of extensions.                      *)

LEMMA WalkedWhole ==
  ASSUME NEW w, NEW q, w = [entries |-> q, rest |-> << >>, cut |-> FALSE]
  PROVE  w.entries = q /\ w.rest = << >> /\ ~w.cut
OBVIOUS

LEMMA NothingWritten ==
  ASSUME NEW layout \in Layouts
  PROVE  Written(layout, << >>) = << >>
<1>1. PICK e \in EntrySet : e = [code |-> 0, data |-> << >>, after |-> 0]
  BY NoBytes DEF EntrySet
<1>2. PICK q \in Seq(EntrySet) : q = << >>
  BY EmptySeq
<1> QED BY <1>2, WrittenCons

LEMMA ServerNameIsRead ==
  ASSUME NEW v, NEW raw, ListOf(Names, v, raw)
  PROVE  DecodeServerName(raw) = Body("ServerName", v)
<1> DEFINE w == Walk(Names, SubSeq(raw, 3, 2 + U16(raw)))
<1>1. PICK u \in Nat : u = U16(raw) /\ Len(raw) = 2 + U16(raw)
  BY LayoutsAre, ListVector
<1>2. w = [entries |-> v, rest |-> << >>, cut |-> FALSE]
  BY LayoutsAre, ListVector
<1> HIDE DEF w
<1>3. w.entries = v /\ ~w.cut
  BY <1>2, WalkedWhole
<1>4. Len(raw) >= 2 /\ Len(raw) >= 2 + U16(raw)
  BY <1>1
<1> QED BY <1>3, <1>4 DEF DecodeServerName, w

LEMMA AlpnIsRead ==
  ASSUME NEW v, NEW raw, ListOf(Protocols, v, raw)
  PROVE  DecodeAlpn(raw) = Body("Alpn", v)
<1> DEFINE w == Walk(Protocols, Drop(raw, 2))
<1>1. IsVector(raw) /\ w = [entries |-> v, rest |-> << >>, cut |-> FALSE]
  BY LayoutsAre, ListVector
<1> HIDE DEF w
<1>2. w.entries = v /\ ~w.cut
  BY <1>1, WalkedWhole
<1> QED BY <1>1, <1>2 DEF DecodeAlpn, w

LEMMA CodesAreRead ==
  ASSUME NEW form, NEW v, NEW raw, IsCodes(v), Frames(raw, 2, Codes(v))
  PROVE  DecodeCodes(form, raw) = Body(form, v)
<1>1. Codes(v) \in Bytes /\ Pairs(Codes(v)) = v
  BY CodesAreWritten
<1>2. PICK n \in Nat : n = Len(v) /\ Len(Codes(v)) = 2 * n
  BY CodesAreWritten
<1>3. IsVector(raw) /\ Drop(raw, 2) = Codes(v) /\ Len(raw) = 2 + Len(Codes(v))
  BY <1>1, LongVector
<1>4. Len(raw) = 2 + 2 * n /\ (2 + 2 * n) % 2 = 0
  BY <1>2, <1>3
<1>5. Len(raw) % 2 = 0
  BY <1>4
<1> QED BY <1>1, <1>3, <1>5 DEF DecodeCodes

LEMMA KeysOfferedAreRead ==
  ASSUME NEW v, NEW raw \in Bytes, KeysOffered(v, raw)
  PROVE  DecodePreSharedKey(raw) = Body("PreSharedKey", v)
<1>1. PICK L \in Nat : L = Len(raw)
  BY NoBytes
<1>2. PICK n \in 0..L :
        /\ Fits(Len(Drop(raw, n)), 2) /\ v.binders_len = Len(Drop(raw, n))
        /\ raw = Framed(2, Written(Identities, v.identities)) \o Framed(2, Drop(raw, n))
  BY <1>1 DEF KeysOffered
<1>3. PICK binders \in Bytes : binders = Drop(raw, n)
  BY <1>1, <1>2, DropBytes
<1>4. PICK q : q = v.identities
  OBVIOUS
<1>5. IsList(Identities, q) /\ v = [identities |-> q, binders_len |-> Len(binders)]
  BY <1>2, <1>3, <1>4 DEF KeysOffered
<1>6. PICK s \in Bytes : s = Written(Identities, q)
  BY <1>5, LayoutsAre, ListIsWritten
<1>7. Walk(Identities, s) = [entries |-> q, rest |-> << >>, cut |-> FALSE]
  BY <1>5, <1>6, LayoutsAre, ListIsWritten
<1>8. PICK t : t = Framed(2, binders)
  OBVIOUS
<1>9. t \in Bytes /\ Len(t) = 2 + Len(binders) /\ U16(t) = Len(binders)
  <2>1. Frames(t, 2, binders)
    BY <1>2, <1>3, <1>8 DEF Frames
  <2> QED BY <2>1, LongVector
<1>10. raw = Framed(2, s) \o t /\ Fits(Len(s), 2)
  BY <1>2, <1>3, <1>4, <1>6, <1>8 DEF KeysOffered
<1>11. PICK w \in 1..4 : w = 2
  OBVIOUS
<1>12. VectorIn(raw, w, s, t)
  BY <1>9, <1>10, <1>11, VectorInFront
<1>13. PICK k \in Nat : k = Len(s)
  BY NoBytes
<1>14. PICK m \in Nat : m = Len(binders)
  BY NoBytes
<1>15. /\ Number(SubSeq(raw, 1, 2)) = k /\ SubSeq(raw, 2 + 1, 2 + k) = s
       /\ Drop(raw, 2 + k) = t /\ Len(raw) = 2 + k + Len(t)
  BY <1>11, <1>12, <1>13 DEF VectorIn
<1>16. U16(raw) = k /\ Len(t) = 2 + m
  BY <1>9, <1>14, <1>15 DEF U16
<1>17. Len(raw) >= 2 /\ Len(raw) >= (2 + U16(raw)) + 2
  BY <1>15, <1>16
<1> DEFINE x == Walk(Identities, SubSeq(raw, 3, 2 + U16(raw)))
<1>18. x = [entries |-> q, rest |-> << >>, cut |-> FALSE]
  <2>1. SubSeq(raw, 3, 2 + U16(raw)) = s
    BY <1>15, <1>16
  <2> QED BY <1>7, <2>1
<1> HIDE DEF x
<1>19. x.entries = q /\ ~x.cut
  BY <1>18, WalkedWhole
<1>20. U16(Drop(raw, 2 + U16(raw))) = Len(binders)
  BY <1>9, <1>15, <1>16
<1>21. DecodePreSharedKey(raw)
         = Body("PreSharedKey", [identities |-> x.entries,
                                 binders_len |-> U16(Drop(raw, 2 + U16(raw)))])
  BY <1>17, <1>19 DEF DecodePreSharedKey, x
<1> QED BY <1>5, <1>19, <1>20, <1>21

LEMMA VersionsAreRead ==
  ASSUME NEW v, NEW raw, IsCodes(v), v # << >>,
         Frames(raw, 1, Codes(v)) \/ (Len(v) = 1 /\ raw = Codes(v))
  PROVE  DecodeSupportedVersions(raw) = Body("SupportedVersions", v)
<1>1. Codes(v) \in Bytes /\ Pairs(Codes(v)) = v
  BY CodesAreWritten
<1>2. PICK n \in Nat : n = Len(v) /\ Len(Codes(v)) = 2 * n
  BY CodesAreWritten
<1>3. n # 0
  BY <1>2, EmptySeq DEF IsCodes
<1>4. CASE Len(v) = 1 /\ raw = Codes(v)
  <2>1. Len(raw) = 2
    BY <1>2, <1>4
  <2> QED BY <1>1, <1>4, <2>1 DEF DecodeSupportedVersions
<1>5. CASE Frames(raw, 1, Codes(v))
  <2>1. Len(raw) = 1 + Len(Codes(v)) /\ raw[1] = Len(Codes(v)) /\ Tail(raw) = Codes(v)
    BY <1>1, <1>5, ShortVector
  <2>2. Len(raw) = 1 + 2 * n /\ raw[1] = 2 * n /\ (2 * n) % 2 = 0
    BY <1>2, <2>1
  <2>3. Len(raw) # 2 /\ Len(raw) \notin {0, 2} /\ Len(raw) = 1 + raw[1] /\ raw[1] % 2 = 0
    BY <1>3, <2>2
  <2> QED BY <1>1, <2>1, <2>3 DEF DecodeSupportedVersions
<1> QED BY <1>4, <1>5

LEMMA CookieIsRead ==
  ASSUME NEW v \in Bytes, NEW raw, Frames(raw, 2, v)
  PROVE  DecodeCookie(raw) = Body("Cookie", v)
BY LongVector DEF DecodeCookie

LEMMA PskModesAreRead ==
  ASSUME NEW v \in Bytes, NEW raw, Frames(raw, 1, v)
  PROVE  DecodePskModes(raw) = Body("PskKeyExchangeModes", v)
BY ShortVector DEF DecodePskModes

LEMMA SharesAreLaid ==
  ASSUME NEW v, IsList(Shares, v), v # << >>
  PROVE  /\ Written(Shares, v) \in Bytes
         /\ v[1].data \in Bytes /\ v[1].code \in Nat
         /\ U16(Written(Shares, v)) = v[1].code
         /\ Len(Written(Shares, v)) = 4 + Len(v[1].data) + Len(Written(Shares, Tail(v)))
         /\ Written(Shares, Tail(v)) \in Bytes
<1>1. PICK e \in EntrySet : e = v[1]
  BY ListTail
<1>2. PICK t \in Seq(EntrySet) : t = Tail(v)
  BY ListTail
<1>3. Writable(Shares, e) /\ v = <<e>> \o t
  BY <1>1, <1>2, ListTail
<1>4. PICK rest \in Bytes : rest = Written(Shares, t)
  BY LayoutsAre, WrittenIsBytes
<1>5. PICK piece \in Bytes : piece = Piece(Shares, e)
  BY LayoutsAre, PieceIsBytes
<1>6. PICK s : s = piece \o rest
  OBVIOUS
<1>7. s = Written(Shares, v)
  BY <1>3, <1>4, <1>5, <1>6, LayoutsAre, WrittenCons
<1>8. /\ s \in Bytes /\ Entry(Shares, s) = e /\ EntryLen(Shares, s) = Len(piece)
      /\ EntryLen(Shares, s) = HeaderLen(Shares) + Len(e.data) + Shares.after
  BY <1>3, <1>5, <1>6, LayoutsAre, EntryIsWritten
<1>9. HeaderLen(Shares) = 4 /\ Shares.after = 0
  BY DEF HeaderLen, Shares
<1>10. e.data \in Bytes /\ e.code \in Nat
  BY DEF EntrySet
<1>11. PICK d \in Nat : d = Len(e.data)
  BY <1>10, NoBytes
<1>12. Len(piece) = 4 + d
  BY <1>8, <1>9, <1>11
<1>13. Len(s) = 4 + d + Len(rest)
  <2>1. Len(piece \o rest) = Len(piece) + Len(rest)
    BY BytesConcat
  <2> QED BY <2>1, <1>6, <1>12
<1>14. U16(s) = e.code
  <2>1. Entry(Shares, s).code = U16(s)
    BY DEF Entry, Shares, U16
  <2> QED BY <2>1, <1>8
<1> QED BY <1>1, <1>2, <1>4, <1>7, <1>8, <1>10, <1>11, <1>13, <1>14

LEMMA SharesAreRead ==
  ASSUME NEW v, NEW raw, IsList(Shares, v), v # << >>,
         Frames(raw, 2, Written(Shares, v)) \/ ShareAlone(v, raw)
  PROVE  DecodeKeyShare(raw) = Body("KeyShare", v)
<1> DEFINE x == IF ClientForm(raw) THEN Drop(raw, 2) ELSE raw
           w == Walk(Shares, x)
<1>1. PICK s \in Bytes : s = Written(Shares, v)
  BY SharesAreLaid
<1>2. Walk(Shares, s) = [entries |-> v, rest |-> << >>, cut |-> FALSE]
  BY <1>1, LayoutsAre, ListIsWritten
<1>3. PICK d \in Nat : d = Len(v[1].data)
  BY SharesAreLaid, NoBytes
<1>4. PICK m \in Nat : m = Len(Written(Shares, Tail(v)))
  BY SharesAreLaid, NoBytes
<1>5. Len(s) = 4 + d + m /\ U16(s) = v[1].code
  BY <1>1, <1>3, <1>4, SharesAreLaid
<1>6. x = s
  <2>1. CASE Frames(raw, 2, Written(Shares, v))
    <3>1. Len(raw) = 2 + Len(s) /\ U16(raw) = Len(s) /\ Drop(raw, 2) = s
      BY <1>1, <2>1, LongVector
    <3>2. Len(raw) >= 4 /\ Len(raw) = 2 + U16(raw)
      BY <1>5, <3>1
    <3> QED BY <3>1, <3>2 DEF ClientForm
  <2>2. CASE ShareAlone(v, raw)
    <3>1. raw = s /\ Len(v) = 1 /\ v[1].code # 2 + d
      BY <1>1, <1>3, <2>2 DEF ShareAlone
    <3>2. m = 0
      <4>1. Len(Tail(v)) = Len(v) - 1 /\ Tail(v) \in Seq(EntrySet)
        BY ListTail
      <4>2. Len(Tail(v)) = 0
        BY <3>1, <4>1
      <4>3. Tail(v) = << >>
        BY <4>1, <4>2, EmptySeq
      <4>4. Written(Shares, << >>) = << >>
        BY LayoutsAre, NothingWritten
      <4>5. Len(<< >>) = 0
        BY NoBytes
      <4> QED BY <1>4, <4>3, <4>4, <4>5
    <3>3. PICK c \in Nat : c = v[1].code
      BY SharesAreLaid
    <3>4. Len(raw) = 4 + d /\ U16(raw) = c /\ c # 2 + d
      BY <1>5, <3>1, <3>2, <3>3
    <3>5. ~(Len(raw) = 2 + U16(raw))
      BY <3>4
    <3> QED BY <3>1, <3>5 DEF ClientForm
  <2> QED BY <2>1, <2>2
<1>7. w = [entries |-> v, rest |-> << >>, cut |-> FALSE]
  <2> HIDE DEF x
  <2> QED BY <1>2, <1>6
<1> HIDE DEF w, x
<1>8. w.entries = v /\ w.rest = << >>
  BY <1>7, WalkedWhole
<1> QED BY <1>8 DEF DecodeKeyShare, w, x

LEMMA ChoiceIsOpaque ==
  ASSUME NEW raw \in Bytes, Len(raw) = 2
  PROVE  DecodeKeyShare(raw) = Opaque /\ DecodePreSharedKey(raw) = Opaque
<1>1. PICK u \in Nat : u = U16(raw)
  BY LengthIs
<1>2. ~(Len(raw) >= (2 + U16(raw)) + 2) /\ ~(Len(raw) >= 4)
  BY <1>1
<1>3. DecodePreSharedKey(raw) = Opaque
  BY <1>2 DEF DecodePreSharedKey
<1>4. ~ClientForm(raw)
  BY <1>2 DEF ClientForm
<1> DEFINE w == Walk(Shares, raw)
<1>5. w.rest # << >>
  <2> SUFFICES ASSUME w.rest = << >> PROVE FALSE
    OBVIOUS
  <2>1. Accounts(w, Shares, raw)
    BY LayoutsAre, WalkAccounts
  <2>2. raw = Written(Shares, w.entries)
    BY LayoutsAre, WholeWalk
  <2>3. w.entries # << >>
    <3>2. Written(Shares, << >>) = << >>
      BY LayoutsAre, NothingWritten
    <3>3. raw # << >>
      BY NoBytes, SMTT(20)
    <3> HIDE DEF w
    <3> QED BY <2>2, <3>2, <3>3
  <2> HIDE DEF w
  <2>4. HeaderLen(Shares) <= Len(raw)
    BY <2>1, <2>3 DEF Accounts
  <2>5. HeaderLen(Shares) = 4
    BY DEF HeaderLen, Shares
  <2> QED BY <2>4, <2>5
<1>6. DecodeKeyShare(raw) = Opaque
  BY <1>4, <1>5 DEF DecodeKeyShare
<1> QED BY <1>3, <1>6

(* An extension a peer writes for a meaning, of any type, with any number  *)
(* of entries of any size that fits the widths of the wire, is decoded to  *)
(* exactly that meaning; what has no decoder stays opaque and whole        *)
(* (decode_extension and the decode_* functions of extensions.rs).         *)
THEOREM MeaningIsRead ==
  ASSUME NEW e, Means(e)
  PROVE  DecodeExtension(e.ext_type, e.raw) = e
<1>1. PICK t : t = e.ext_type
  OBVIOUS
<1>2. PICK raw \in Bytes : raw = e.raw
  BY DEF Means
<1>3. e = [ext_type |-> t, raw |-> raw, body |-> e.body]
  BY <1>1, <1>2 DEF Means
<1>4. DecodeBody(t, raw) = e.body
  <2>1. CASE e.body = Opaque /\ Unconveyed(t, raw)
    <3>1. CASE t \notin DECODED_EXTENSIONS
      <4>1. DecodeBody(t, raw) = Opaque
        BY <3>1 DEF DecodeBody, DECODED_EXTENSIONS
      <4> QED BY <2>1, <4>1
    <3>2. CASE t = 41 /\ Len(raw) = 2
      <4>1. DecodeBody(t, raw) = DecodePreSharedKey(raw)
        BY <3>2 DEF DecodeBody
      <4> QED BY <2>1, <3>2, <4>1, ChoiceIsOpaque
    <3>3. CASE t = 51 /\ Len(raw) = 2
      <4>1. DecodeBody(t, raw) = DecodeKeyShare(raw)
        BY <3>3 DEF DecodeBody
      <4> QED BY <2>1, <3>3, <4>1, ChoiceIsOpaque
    <3> QED BY <2>1, <3>1, <3>2, <3>3 DEF Unconveyed
  <2>2. CASE e.body = Body(e.body.form, e.body.value)
              /\ Conveys(t, e.body.form, e.body.value, raw)
    <3>1. PICK form : form = e.body.form
      OBVIOUS
    <3>2. PICK v : v = e.body.value
      OBVIOUS
    <3>3. e.body = Body(form, v) /\ Conveys(t, form, v, raw)
      BY <2>2, <3>1, <3>2
    <3>4. CASE t = 0 /\ form = "ServerName" /\ ListOf(Names, v, raw)
      <4>1. DecodeBody(t, raw) = DecodeServerName(raw)
        BY <3>4 DEF DecodeBody
      <4> QED BY <3>3, <3>4, <4>1, ServerNameIsRead
    <3>5. CASE t = 10 /\ form = "SupportedGroups" /\ IsCodes(v) /\ Frames(raw, 2, Codes(v))
      <4>1. DecodeBody(t, raw) = DecodeCodes("SupportedGroups", raw)
        BY <3>5 DEF DecodeBody
      <4> QED BY <3>3, <3>5, <4>1, CodesAreRead
    <3>6. CASE t \in {13, 50} /\ form = "SignatureAlgorithms" /\ IsCodes(v) /\ Frames(raw, 2, Codes(v))
      <4>1. DecodeBody(t, raw) = DecodeCodes("SignatureAlgorithms", raw)
        BY <3>6 DEF DecodeBody
      <4> QED BY <3>3, <3>6, <4>1, CodesAreRead
    <3>7. CASE t = 16 /\ form = "Alpn" /\ ListOf(Protocols, v, raw)
      <4>1. DecodeBody(t, raw) = DecodeAlpn(raw)
        BY <3>7 DEF DecodeBody
      <4> QED BY <3>3, <3>7, <4>1, AlpnIsRead
    <3>8. CASE t = 41 /\ form = "PreSharedKey" /\ KeysOffered(v, raw)
      <4>1. DecodeBody(t, raw) = DecodePreSharedKey(raw)
        BY <3>8 DEF DecodeBody
      <4> QED BY <3>3, <3>8, <4>1, KeysOfferedAreRead
    <3>9. CASE t = 42 /\ form = "EarlyData" /\ v = << >> /\ raw = << >>
      <4>1. DecodeBody(t, raw) = Body("EarlyData", << >>)
        BY <3>9 DEF DecodeBody
      <4> QED BY <3>3, <3>9, <4>1
    <3>10. CASE /\ t = 43 /\ form = "SupportedVersions" /\ IsCodes(v) /\ v # << >>
                /\ Frames(raw, 1, Codes(v)) \/ (Len(v) = 1 /\ raw = Codes(v))
      <4>1. DecodeBody(t, raw) = DecodeSupportedVersions(raw)
        BY <3>10 DEF DecodeBody
      <4> QED BY <3>3, <3>10, <4>1, VersionsAreRead
    <3>11. CASE t = 44 /\ form = "Cookie" /\ v \in Bytes /\ Frames(raw, 2, v)
      <4>1. DecodeBody(t, raw) = DecodeCookie(raw)
        BY <3>11 DEF DecodeBody
      <4> QED BY <3>3, <3>11, <4>1, CookieIsRead
    <3>12. CASE t = 45 /\ form = "PskKeyExchangeModes" /\ v \in Bytes /\ Frames(raw, 1, v)
      <4>1. DecodeBody(t, raw) = DecodePskModes(raw)
        BY <3>12 DEF DecodeBody
      <4> QED BY <3>3, <3>12, <4>1, PskModesAreRead
    <3>13. CASE /\ t = 51 /\ form = "KeyShare" /\ IsList(Shares, v) /\ v # << >>
                /\ Frames(raw, 2, Written(Shares, v)) \/ ShareAlone(v, raw)
      <4>1. DecodeBody(t, raw) = DecodeKeyShare(raw)
        BY <3>13 DEF DecodeBody
      <4> QED BY <3>3, <3>13, <4>1, SharesAreRead
    <3> QED BY <3>3, <3>4, <3>5, <3>6, <3>7, <3>8, <3>9, <3>10, <3>11, <3>12, <3>13 DEF Conveys
  <2> QED BY <1>1, <1>2, <2>1, <2>2 DEF Means
<1> QED BY <1>1, <1>2, <1>3, <1>4 DEF DecodeExtension

-----------------------------------------------------------------------------
(* What is written is read: the fields of a hello.                         *)

\* A field in front of other bytes.
FieldIn(f, v, x, y) ==
  /\ v \in Bytes /\ y \in Bytes
  /\ \/ f = Fixed(Len(v)) /\ x = v \o y
     \/ \E w \in 1..4 : f = Vector(w) /\ Fits(Len(v), w) /\ x = Framed(w, v) \o y

FieldFound(f, v, x, y) ==
  /\ x \in Bytes /\ f.width \in Nat /\ FieldLen(f, x) = Len(v)
  /\ Len(x) = f.width + Len(v) + Len(y)
  /\ SubSeq(x, f.width + 1, f.width + Len(v)) = v
  /\ Drop(x, f.width + Len(v)) = y

LEMMA FieldIsFound ==
  ASSUME NEW f, NEW v, NEW x, NEW y, FieldIn(f, v, x, y)
  PROVE  FieldFound(f, v, x, y)
<1>1. v \in Bytes /\ y \in Bytes
  BY DEF FieldIn
<1>2. PICK n \in Nat : n = Len(v)
  BY <1>1, NoBytes
<1>3. CASE f = Fixed(Len(v)) /\ x = v \o y
  <2>1. f.width = 0 /\ f.len = n
    BY <1>2, <1>3 DEF Fixed
  <2>2. x \in Bytes /\ Len(x) = n + Len(y)
    BY <1>1, <1>2, <1>3, BytesConcat
  <2>3. SubSeq(x, 1, n) = v
    BY <1>1, <1>2, <1>3, StartOfConcat
  <2>4. Drop(x, n) = y
    BY <1>1, <1>2, <1>3, DropConcat
  <2>5. 0 + 1 = 1 /\ 0 + n = n
    OBVIOUS
  <2>6. FieldLen(f, x) = n
    BY <2>1 DEF FieldLen
  <2> QED BY <1>2, <2>1, <2>2, <2>3, <2>4, <2>5, <2>6 DEF FieldFound
<1>4. CASE \E w \in 1..4 : f = Vector(w) /\ Fits(Len(v), w) /\ x = Framed(w, v) \o y
  <2>1. PICK w \in 1..4 : f = Vector(w) /\ Fits(Len(v), w) /\ x = Framed(w, v) \o y
    BY <1>4
  <2>2. VectorIn(x, w, v, y)
    BY <1>1, <2>1, VectorInFront
  <2>3. f.width = w
    BY <2>1 DEF Vector
  <2>4. FieldLen(f, x) = Len(v)
    <3>1. FieldLen(f, x) = Number(SubSeq(x, 1, w))
      BY <2>3 DEF FieldLen
    <3> QED BY <2>2, <3>1 DEF VectorIn
  <2> QED BY <2>2, <2>3, <2>4 DEF FieldFound, VectorIn
<1> QED BY <1>3, <1>4 DEF FieldIn

LEMMA SliceOfDrop ==
  ASSUME NEW s \in Bytes, NEW p \in Nat, NEW m \in Nat, NEW n \in Nat, m <= n, p + n <= Len(s)
  PROVE  SubSeq(Drop(s, p), m + 1, n) = SubSeq(s, (p + m) + 1, p + n)
<1> DEFINE S == 0..255
<1>1. s \in Seq(S)
  BY DEF Bytes
<1> HIDE DEF S
<1>2. PICK L \in Nat : L = Len(s)
  BY <1>1, LenProperties
<1>3. p \in 0..Len(s) /\ p + n \in 0..Len(s) /\ p + m \in Nat /\ p + m <= p + n
  BY <1>2
<1>4. PICK d \in Seq(S) : d = Drop(s, p)
  BY <1>1, <1>3, DropProperties
<1>5. Len(d) = L - p /\ \A i \in 1..L - p : d[i] = s[p + i]
  BY <1>1, <1>2, <1>3, <1>4, DropProperties
<1>6. n \in 0..Len(d)
  BY <1>2, <1>5
<1> DEFINE t == SubSeq(d, m + 1, n)
           u == SubSeq(s, (p + m) + 1, p + n)
<1>7. t \in Seq(S) /\ Len(t) = n - m /\ \A i \in 1..n - m : t[i] = d[m + i]
  BY <1>6, SliceProperties
<1>8. u \in Seq(S) /\ Len(u) = n - m /\ \A i \in 1..n - m : u[i] = s[(p + m) + i]
  <2>1. (p + n) - (p + m) = n - m
    OBVIOUS
  <2> QED BY <1>1, <1>3, <2>1, SliceProperties, SMTT(20)
<1> HIDE DEF t, u
<1>9. ASSUME NEW i \in 1..n - m PROVE t[i] = u[i]
  <2>1. m + i \in 1..L - p /\ p + (m + i) = (p + m) + i
    BY <1>2
  <2> QED BY <1>5, <1>7, <1>8, <2>1
<1>10. t = u
  BY <1>7, <1>8, <1>9, SeqEqual
<1> QED BY <1>4, <1>10 DEF t, u

\* The fields of posts[1], each in front of what the next begins with.
FieldsIn(fields, values, posts) ==
  /\ Len(fields) \in Nat
  /\ values \in Seq(Bytes) /\ Len(values) = Len(fields)
  /\ posts \in Seq(Bytes) /\ Len(posts) = Len(fields) + 1
  /\ \A i \in 1..Len(fields) : FieldIn(fields[i], values[i], posts[i], posts[i + 1])

\* Where a field ends, from where the one before it does.
NextEnd(ends, fields, s, i) ==
  IF i = 0 THEN 0
  ELSE LET f == fields[i]
           start == ends[i - 1]
       IN  IF start + f.width > Len(s) THEN Len(s) + 1
           ELSE start + f.width + FieldLen(f, Drop(s, start))

Reached(p, s, post) == p \in Nat /\ p <= Len(s) /\ Drop(s, p) = post /\ p = Len(s) - Len(post)

LEMMA NextReached ==
  ASSUME NEW s \in Bytes, NEW p, NEW post, NEW next, NEW f, NEW v,
         Reached(p, s, post), FieldIn(f, v, post, next)
  PROVE  /\ ~(p + f.width > Len(s))
         /\ Reached(p + f.width + FieldLen(f, Drop(s, p)), s, next)
         /\ SubSeq(s, p + f.width + 1, p + f.width + FieldLen(f, Drop(s, p))) = v
<1>1. PICK L \in Nat : L = Len(s)
  BY NoBytes
<1>2. p \in Nat /\ p <= L /\ Drop(s, p) = post /\ p = L - Len(post)
  BY <1>1 DEF Reached
<1>3. FieldFound(f, v, post, next)
  BY FieldIsFound
<1>4. v \in Bytes /\ next \in Bytes
  BY DEF FieldIn
<1>5. PICK d \in Nat : d = Len(v)
  BY <1>4, NoBytes
<1>6. PICK r \in Nat : r = Len(next)
  BY <1>4, NoBytes
<1>7. PICK w \in Nat : w = f.width
  BY <1>3 DEF FieldFound
<1>8. /\ FieldLen(f, post) = d /\ Len(post) = w + d + r
      /\ SubSeq(post, w + 1, w + d) = v /\ Drop(post, w + d) = next
  BY <1>3, <1>5, <1>6, <1>7 DEF FieldFound
<1>9. L = p + w + d + r
  BY <1>2, <1>8
<1>10. Drop(s, p + w + d) = next
  <2>1. s \in Seq(0..255) /\ p \in 0..Len(s) /\ w + d \in 0..Len(s) - p
    BY <1>1, <1>2, <1>9 DEF Bytes
  <2>2. Drop(Drop(s, p), w + d) = Drop(s, p + (w + d))
    BY <2>1, DropDrop
  <2>3. p + (w + d) = p + w + d
    BY <1>2
  <2> QED BY <2>2, <2>3, <1>2, <1>8
<1>11. SubSeq(s, p + w + 1, p + w + d) = v
  <2>1. w + d \in Nat /\ w <= w + d /\ p + (w + d) <= Len(s) /\ p + (w + d) = p + w + d
    BY <1>1, <1>2, <1>9
  <2>2. SubSeq(Drop(s, p), w + 1, w + d) = SubSeq(s, (p + w) + 1, p + (w + d))
    <3>1. PICK n \in Nat : n = w + d
      BY <2>1
    <3>2. p \in Nat /\ w <= n /\ p + n <= Len(s)
      BY <1>2, <2>1, <3>1
    <3>3. SubSeq(Drop(s, p), w + 1, n) = SubSeq(s, (p + w) + 1, p + n)
      BY <3>2, SliceOfDrop
    <3> QED BY <3>1, <3>3
  <2> QED BY <2>1, <2>2, <1>2, <1>8
<1>12. ~(p + w > L) /\ p + w + d \in Nat /\ p + w + d <= L /\ p + w + d = L - r
  BY <1>2, <1>9
<1>13. FieldLen(f, Drop(s, p)) = d
  BY <1>2, <1>8
<1>14. Reached(p + w + d, s, next)
  BY <1>1, <1>6, <1>10, <1>12 DEF Reached
<1> QED BY <1>1, <1>7, <1>11, <1>12, <1>13, <1>14

LEMMA FieldsAreRead ==
  ASSUME NEW fields, NEW values, NEW posts, NEW s \in Bytes,
         FieldsIn(fields, values, posts), s = posts[1]
  PROVE  Read(fields, s) = [ok |-> TRUE, values |-> values, rest |-> posts[Len(fields) + 1]]
<1>1. PICK n \in Nat : n = Len(fields)
  BY DEF FieldsIn
<1>2. PICK L \in Nat : L = Len(s)
  BY NoBytes
<1>3. \A i \in 1..n : FieldIn(fields[i], values[i], posts[i], posts[i + 1])
  BY <1>1 DEF FieldsIn
<1> DEFINE e == [i \in 0..n |-> L - Len(posts[i + 1])]
           S == {k \in Nat : k <= n => Reached(L - Len(posts[k + 1]), s, posts[k + 1])}
<1>4. 0 \in S
  <2>1. Drop(s, 0) = s
    <3>1. Drop(s, 0) = SubSeq(s, 1, Len(s))
      BY DEF Drop
    <3> QED BY <3>1, SubSeqFull DEF Bytes
  <2>2. L - Len(posts[0 + 1]) = 0
    BY <1>2
  <2>3. Reached(L - Len(posts[0 + 1]), s, posts[0 + 1])
    BY <1>2, <2>1, <2>2 DEF Reached
  <2> QED BY <2>3
<1>5. ASSUME NEW k \in Nat, k \in S PROVE k + 1 \in S
  <2> SUFFICES ASSUME k + 1 <= n
               PROVE  Reached(L - Len(posts[(k + 1) + 1]), s, posts[(k + 1) + 1])
    OBVIOUS
  <2>1. PICK p : p = L - Len(posts[k + 1])
    OBVIOUS
  <2>2. Reached(p, s, posts[k + 1])
    BY <1>5, <2>1
  <2>3. k + 1 \in 1..n
    OBVIOUS
  <2>4. PICK f : f = fields[k + 1]
    OBVIOUS
  <2>5. PICK q : q = p + f.width + FieldLen(f, Drop(s, p))
    OBVIOUS
  <2>6. Reached(q, s, posts[(k + 1) + 1])
    BY <1>3, <2>2, <2>3, <2>4, <2>5, NextReached
  <2>7. q = L - Len(posts[(k + 1) + 1])
    BY <1>2, <2>6 DEF Reached
  <2> QED BY <2>6, <2>7
<1>6. Nat \subseteq S
  <2> HIDE DEF S
  <2> QED BY <1>4, <1>5, SetInduction
<1>7. ASSUME NEW i \in 0..n PROVE Reached(e[i], s, posts[i + 1])
  <2>1. i \in S /\ i <= n
    <3> HIDE DEF S
    <3> QED BY <1>6
  <2> QED BY <2>1
<1>8. ASSUME NEW i \in 1..n
      PROVE  /\ e[i] = NextEnd(e, fields, s, i)
             /\ SubSeq(s, e[i - 1] + fields[i].width + 1, e[i]) = values[i]
  <2>1. i - 1 \in 0..n /\ (i - 1) + 1 = i /\ i \in 0..n /\ i # 0
    OBVIOUS
  <2>2. PICK p : p = e[i - 1]
    OBVIOUS
  <2>3. PICK f : f = fields[i]
    OBVIOUS
  <2>4. PICK q : q = p + f.width + FieldLen(f, Drop(s, p))
    OBVIOUS
  <2>5. Reached(p, s, posts[i]) /\ Reached(e[i], s, posts[i + 1])
    BY <1>7, <2>1, <2>2
  <2> HIDE DEF e
  <2>6. FieldIn(f, values[i], posts[i], posts[i + 1])
    BY <1>3, <2>3
  <2>7. /\ ~(p + f.width > Len(s)) /\ Reached(q, s, posts[i + 1])
        /\ SubSeq(s, p + f.width + 1, q) = values[i]
    BY <2>4, <2>5, <2>6, NextReached
  <2>8. q = e[i]
    BY <2>5, <2>7 DEF Reached
  <2>9. NextEnd(e, fields, s, i) = q
    BY <2>1, <2>2, <2>3, <2>4, <2>7 DEF NextEnd
  <2> QED BY <2>2, <2>3, <2>7, <2>8, <2>9
<1>9. e[0] = 0 /\ NextEnd(e, fields, s, 0) = 0
  BY <1>2 DEF NextEnd
<1> DEFINE Is(g) == g = [i \in 0..Len(fields) |-> NextEnd(g, fields, s, i)]
<1>10. Is(e)
  <2>1. \A i \in 0..n : e[i] = NextEnd(e, fields, s, i)
    <3> SUFFICES ASSUME NEW i \in 0..n PROVE e[i] = NextEnd(e, fields, s, i)
      OBVIOUS
    <3> HIDE DEF e
    <3>1. CASE i = 0
      BY <1>9, <3>1
    <3>2. CASE i # 0
      BY <1>8, <3>2
    <3> QED BY <3>1, <3>2
  <2>2. e = [i \in 0..n |-> e[i]]
    OBVIOUS
  <2> HIDE DEF e
  <2> QED BY <1>1, <2>1, <2>2
<1> DEFINE ends == CHOOSE g : Is(g)
<1>11. Is(ends)
  <2> HIDE DEF e, Is
  <2> QED BY <1>10
<1>12. FieldEnds(fields, s) = ends
  BY DEF FieldEnds, NextEnd
<1> HIDE DEF ends
<1>13. \A i \in 0..n : ends[i] = NextEnd(ends, fields, s, i)
  BY <1>1, <1>11
<1> HIDE DEF e, Is, S
<1> DEFINE T == {k \in Nat : k <= n => ends[k] = e[k]}
<1>14. 0 \in T
  BY <1>9, <1>13 DEF NextEnd
<1>15. ASSUME NEW k \in Nat, k \in T PROVE k + 1 \in T
  <2> SUFFICES ASSUME k + 1 <= n PROVE ends[k + 1] = e[k + 1]
    OBVIOUS
  <2>1. k + 1 \in 1..n /\ k + 1 \in 0..n /\ (k + 1) - 1 = k /\ k + 1 # 0
    OBVIOUS
  <2>2. ends[k] = e[k]
    BY <1>15
  <2>3. ends[k + 1] = NextEnd(ends, fields, s, k + 1) /\ e[k + 1] = NextEnd(e, fields, s, k + 1)
    BY <1>8, <1>13, <2>1
  <2>4. NextEnd(ends, fields, s, k + 1) = NextEnd(e, fields, s, k + 1)
    BY <2>1, <2>2 DEF NextEnd
  <2> QED BY <2>3, <2>4
<1>16. Nat \subseteq T
  <2> HIDE DEF T
  <2> QED BY <1>14, <1>15, SetInduction
<1>17. \A i \in 0..n : ends[i] = e[i]
  <2> SUFFICES ASSUME NEW i \in 0..n PROVE ends[i] = e[i]
    OBVIOUS
  <2>1. i \in T /\ i <= n
    <3> HIDE DEF T
    <3> QED BY <1>16
  <2> QED BY <2>1
<1> HIDE DEF T
<1>18. PICK end : end = ends[n]
  OBVIOUS
<1>19. end \in Nat /\ ~(end > Len(s)) /\ Drop(s, end) = posts[n + 1]
  <2>1. n \in 0..n
    OBVIOUS
  <2>2. Reached(end, s, posts[n + 1])
    BY <1>7, <1>17, <1>18, <2>1
  <2>3. end \in Nat /\ end <= L /\ Drop(s, end) = posts[n + 1]
    BY <1>2, <2>2 DEF Reached
  <2> QED BY <1>2, <2>3
<1>20. values = [i \in 1..n |-> SubSeq(s, ends[i - 1] + fields[i].width + 1, ends[i])]
  <2>1. ASSUME NEW i \in 1..n
        PROVE  SubSeq(s, ends[i - 1] + fields[i].width + 1, ends[i]) = values[i]
    <3>1. i - 1 \in 0..n /\ i \in 0..n
      OBVIOUS
    <3> QED BY <1>8, <1>17, <3>1
  <2>2. values = [i \in 1..n |-> values[i]]
    BY <1>1 DEF FieldsIn
  <2> QED BY <2>1, <2>2
<1>21. Read(fields, s) = [ok |-> TRUE, values |-> values, rest |-> posts[n + 1]]
  BY <1>1, <1>12, <1>18, <1>19, <1>20 DEF Read
<1> QED BY <1>1, <1>21

-----------------------------------------------------------------------------
(* What is written is read: a hello.                                       *)

LEMMA SliceOfStart ==
  ASSUME NEW s \in Bytes, NEW n \in Nat, n <= Len(s), NEW a \in Nat, NEW b \in Nat, a <= b, b <= n
  PROVE  /\ SubSeq(s, 1, n) \in Bytes /\ Len(SubSeq(s, 1, n)) = n
         /\ SubSeq(SubSeq(s, 1, n), a + 1, b) = SubSeq(s, a + 1, b)
<1> DEFINE S == 0..255
<1>1. s \in Seq(S)
  BY DEF Bytes
<1> HIDE DEF S
<1>2. PICK L \in Nat : L = Len(s)
  BY <1>1, LenProperties
<1>3. n \in 0..Len(s) /\ b \in 0..Len(s)
  BY <1>2
<1> DEFINE d == SubSeq(s, 0 + 1, n)
<1>4. d \in Seq(S) /\ Len(d) = n /\ \A i \in 1..n : d[i] = s[i]
  <2>1. 0 \in Nat /\ 0 <= n /\ n - 0 = n
    OBVIOUS
  <2>2. d \in Seq(S) /\ Len(d) = n - 0 /\ \A i \in 1..n - 0 : d[i] = s[0 + i]
    BY <1>1, <1>3, <2>1, SliceProperties
  <2>3. \A i \in 1..n : d[i] = s[i]
    <3> SUFFICES ASSUME NEW i \in 1..n PROVE d[i] = s[i]
      OBVIOUS
    <3>1. i \in 1..n - 0 /\ 0 + i = i
      OBVIOUS
    <3> QED BY <2>2, <3>1
  <2> QED BY <2>1, <2>2, <2>3
<1>5. d = SubSeq(s, 1, n)
  OBVIOUS
<1> HIDE DEF d
<1> DEFINE t == SubSeq(d, a + 1, b)
           u == SubSeq(s, a + 1, b)
<1>6. t \in Seq(S) /\ Len(t) = b - a /\ \A i \in 1..b - a : t[i] = d[a + i]
  <2>1. b \in 0..Len(d)
    BY <1>4
  <2> QED BY <1>4, <2>1, SliceProperties
<1>7. u \in Seq(S) /\ Len(u) = b - a /\ \A i \in 1..b - a : u[i] = s[a + i]
  BY <1>1, <1>3, SliceProperties
<1> HIDE DEF t, u
<1>8. ASSUME NEW i \in 1..b - a PROVE t[i] = u[i]
  <2>1. a + i \in 1..n
    OBVIOUS
  <2> QED BY <1>4, <1>6, <1>7, <2>1
<1>9. t = u
  BY <1>6, <1>7, <1>8, SeqEqual
<1> QED BY <1>4, <1>5, <1>9 DEF t, u, S, Bytes

\* The start of a message, up to and behind its end.
Begins(t, b, y, s) == s = (<<t>> \o Framed(3, b)) \o y

BegunWith(t, b, n, p) ==
  /\ p # << >> /\ Len(p) = n /\ p[1] = t
  /\ n >= 4 => BodyLen(p) = Len(b)
  /\ n >= 4 + Len(b) => SubSeq(p, 5, 4 + Len(b)) = b

LEMMA MessageStart ==
  ASSUME NEW t \in 0..255, NEW b \in Bytes, Fits(Len(b), 3), NEW y \in Bytes,
         NEW s, Begins(t, b, y, s), NEW n \in Nat, 1 <= n, n <= Len(s)
  PROVE  BegunWith(t, b, n, SubSeq(s, 1, n))
<1>1. PICK k \in Nat : k = Len(b)
  BY NoBytes
<1>2. PICK x \in Bytes : x = BigEndian(k, 3)
  <2>1. 3 \in 0..4 /\ Fits(k, 3)
    BY <1>1
  <2> QED BY <2>1, NumberIsWritten
<1>3. Len(x) = 3 /\ Number(x) = k
  <2>1. 3 \in 0..4 /\ Fits(k, 3)
    BY <1>1
  <2> QED BY <2>1, <1>2, NumberIsWritten
<1>4. PICK h \in Bytes : h = <<t>> /\ Len(h) = 1
  <2>1. <<t>> \in Seq(0..255) /\ Len(<<t>>) = 1
    OBVIOUS
  <2> QED BY <2>1 DEF Bytes
<1>5. PICK f \in Bytes : f = x \o b /\ Len(f) = 3 + k
  <2>1. x \o b \in Bytes /\ Len(x \o b) = Len(x) + Len(b)
    BY BytesConcat
  <2> QED BY <2>1, <1>1, <1>3
<1>6. f = Framed(3, b)
  BY <1>1, <1>2, <1>5 DEF Framed
<1>7. PICK m \in Bytes : m = h \o f /\ Len(m) = 4 + k
  <2>1. h \o f \in Bytes /\ Len(h \o f) = Len(h) + Len(f)
    BY BytesConcat
  <2>2. Len(h \o f) = 4 + k
    BY <2>1, <1>4, <1>5
  <2> QED BY <2>1, <2>2
<1>8. m = <<t>> \o Framed(3, b)
  BY <1>4, <1>6, <1>7
<1>9. s = m \o y
  BY <1>8 DEF Begins
<1>10. s \in Bytes /\ Len(s) = 4 + k + Len(y)
  <2>1. m \o y \in Bytes /\ Len(m \o y) = Len(m) + Len(y)
    BY BytesConcat
  <2> QED BY <2>1, <1>7, <1>9
<1>11. PICK by \in Bytes : by = b \o y
  BY BytesConcat
<1>12. PICK xby \in Bytes : xby = x \o by
  BY BytesConcat
<1>13. s = h \o xby
  <2>1. Grouped(h, f, y)
    BY Regroup
  <2>2. Grouped(x, b, y)
    BY Regroup
  <2>3. f \o y = xby
    BY <2>2, <1>5, <1>11, <1>12 DEF Grouped
  <2> QED BY <2>1, <2>3, <1>7, <1>9 DEF Grouped
<1>14. SubSeq(s, 1, 1) = h
  BY <1>4, <1>13, StartOfConcat
<1>15. SubSeq(s, 2, 4) = x
  <2>1. SubSeq(h \o (x \o by), Len(h) + 1, Len(h) + Len(x)) = x
    BY MiddleOfConcat
  <2>2. Len(h) + 1 = 2 /\ Len(h) + Len(x) = 4
    BY <1>3, <1>4
  <2> QED BY <2>1, <2>2, <1>12, <1>13
<1>16. SubSeq(s, 5, 4 + k) = b
  <2>1. PICK hx \in Bytes : hx = h \o x /\ Len(hx) = 4
    <3>1. h \o x \in Bytes /\ Len(h \o x) = Len(h) + Len(x)
      BY BytesConcat
    <3>2. Len(h \o x) = 4
      BY <3>1, <1>3, <1>4
    <3> QED BY <3>1, <3>2
  <2>2. s = hx \o by
    <3>1. Grouped(h, x, by)
      BY Regroup
    <3> QED BY <3>1, <2>1, <1>12, <1>13 DEF Grouped
  <2>3. SubSeq(hx \o (b \o y), Len(hx) + 1, Len(hx) + Len(b)) = b
    BY MiddleOfConcat
  <2>4. Len(hx) + 1 = 5 /\ Len(hx) + Len(b) = 4 + k
    BY <1>1, <2>1
  <2> QED BY <2>2, <2>3, <2>4, <1>11
<1>17. PICK p : p = SubSeq(s, 1, n)
  OBVIOUS
<1>18. p \in Bytes /\ Len(p) = n
  <2>1. PICK z \in Nat : z = 0
    OBVIOUS
  <2>2. z <= z /\ z <= n
    BY <2>1
  <2>3. SubSeq(s, 1, n) \in Bytes /\ Len(SubSeq(s, 1, n)) = n
    BY <2>2, <1>10, SliceOfStart
  <2> QED BY <2>3, <1>17
<1>19. p # << >>
  BY <1>18, NoBytes
<1>20. p[1] = t
  <2>1. SubSeq(p, 0 + 1, 1) = SubSeq(s, 0 + 1, 1)
    <3>1. 0 \in Nat /\ 1 \in Nat /\ 0 <= 1
      OBVIOUS
    <3> QED BY <3>1, <1>10, <1>17, SliceOfStart
  <2>5. 0 + 1 = 1
    OBVIOUS
  <2>2. SubSeq(p, 1, 1) = <<t>>
    BY <2>1, <2>5, <1>4, <1>14
  <2>3. p \in Seq(0..255) /\ 1 <= Len(p)
    BY <1>18 DEF Bytes
  <2>4. SubSeq(p, 1, 1)[1] = p[1]
    BY <2>3
  <2>6. <<t>>[1] = t
    OBVIOUS
  <2> QED BY <2>2, <2>4, <2>6
<1>21. n >= 4 => BodyLen(p) = k
  <2> SUFFICES ASSUME n >= 4 PROVE BodyLen(p) = k
    OBVIOUS
  <2>1. 1 \in Nat /\ 4 \in Nat /\ 1 <= 4 /\ 4 <= n
    OBVIOUS
  <2>2. SubSeq(p, 1 + 1, 4) = SubSeq(s, 1 + 1, 4)
    BY <2>1, <1>10, <1>17, SliceOfStart
  <2>3. 1 + 1 = 2
    OBVIOUS
  <2>4. SubSeq(p, 2, 4) = x
    BY <2>2, <2>3, <1>15
  <2> QED BY <2>4, <1>3 DEF BodyLen
<1>22. n >= 4 + k => SubSeq(p, 5, 4 + k) = b
  <2> SUFFICES ASSUME n >= 4 + k PROVE SubSeq(p, 5, 4 + k) = b
    OBVIOUS
  <2>1. PICK l \in Nat : l = 4 + k
    OBVIOUS
  <2>2. 4 \in Nat /\ 4 <= l /\ l <= n
    BY <2>1
  <2>3. SubSeq(p, 4 + 1, l) = SubSeq(s, 4 + 1, l)
    BY <2>2, <1>10, <1>17, SliceOfStart
  <2>4. 4 + 1 = 5
    OBVIOUS
  <2> QED BY <2>1, <2>3, <2>4, <1>16
<1>23. BegunWith(t, b, n, p)
  BY <1>1, <1>18, <1>19, <1>20, <1>21, <1>22 DEF BegunWith
<1> QED BY <1>17, <1>23

\* The extensions of a hello, as entries of its list.
ExtensionEntries ==
  [i \in DOMAIN exts |-> [code |-> exts[i].ext_type, data |-> exts[i].raw, after |-> 0]]

HelloTail == IF exts = << >> THEN << >> ELSE Framed(2, ExtensionBytes)
SuitesPart == IF kind = "ClientHello" THEN Framed(2, Codes(Suites)) ELSE Codes(Suites)
CompressionPart == IF kind = "ClientHello" THEN Framed(1, <<0>>) ELSE <<0>>
HelloBody ==
  (((<<3, 3>> \o Random) \o Framed(1, SessionId)) \o (SuitesPart \o CompressionPart)) \o HelloTail

LEMMA HelloBytesAre ==
  HelloBytes = <<MsgType>> \o Framed(3, HelloBody)
BY DEF HelloBytes, HelloBody, HelloTail, SuitesPart, CompressionPart

LEMMA ExtensionsAreRead ==
  ASSUME exts \in Seq(Offers[kind]), \A i \in DOMAIN exts : Means(exts[i])
  PROVE  ExtensionBytes \in Bytes /\ WalkExtensionBodies(ExtensionBytes) = exts
<1> DEFINE q == ExtensionEntries
           w == Walk(ExtensionList, ExtensionBytes)
<1>1. PICK n \in Nat : n = Len(exts) /\ DOMAIN exts = 1..n
  BY LenProperties
<1>2. ASSUME NEW i \in 1..n
      PROVE  q[i] \in EntrySet /\ Writable(ExtensionList, q[i])
             /\ DecodeExtension(q[i].code, q[i].data) = exts[i]
  <2>1. PICK e : e = exts[i]
    OBVIOUS
  <2>2. Means(e)
    BY <1>1, <2>1
  <2>3. /\ Fits(e.ext_type, 2) /\ e.raw \in Bytes /\ Fits(Len(e.raw), 2)
        /\ DecodeExtension(e.ext_type, e.raw) = e
    BY <2>2, MeaningIsRead DEF Means
  <2>4. PICK r : r = [code |-> e.ext_type, data |-> e.raw, after |-> 0]
    OBVIOUS
  <2>5. q[i] = r
    BY <1>1, <2>1, <2>4 DEF ExtensionEntries
  <2>6. r.code = e.ext_type /\ r.data = e.raw /\ r.after = 0
    BY <2>4
  <2>7. Fits(0, 0)
    BY DEF Fits
  <2>8. Writable(ExtensionList, r)
    BY <2>3, <2>6, <2>7 DEF Writable, ExtensionList
  <2>9. r \in EntrySet
    BY <2>3, <2>4 DEF EntrySet, Fits
  <2> QED BY <2>1, <2>3, <2>5, <2>6, <2>8, <2>9
<1>3. q \in Seq(EntrySet) /\ DOMAIN q = 1..n
  <2>1. q = [i \in 1..n |-> q[i]]
    BY <1>1 DEF ExtensionEntries
  <2>2. q \in [1..n -> EntrySet]
    <3> HIDE DEF q
    <3> QED BY <1>2, <2>1
  <2> HIDE DEF q
  <2> QED BY <2>2
<1> HIDE DEF q
<1>4. IsList(ExtensionList, q)
  BY <1>2, <1>3 DEF IsList
<1>5. ExtensionBytes = Written(ExtensionList, q)
  BY DEF ExtensionBytes, q, ExtensionEntries
<1>6. ExtensionBytes \in Bytes /\ w = [entries |-> q, rest |-> << >>, cut |-> FALSE]
  BY <1>4, <1>5, LayoutsAre, ListIsWritten
<1>7. WalkExtensionBodies(ExtensionBytes)
        = [i \in DOMAIN w.entries |-> DecodeExtension(w.entries[i].code, w.entries[i].data)]
  BY DEF WalkExtensionBodies
<1> HIDE DEF w
<1>8. w.entries = q
  BY <1>6, WalkedWhole
<1>9. WalkExtensionBodies(ExtensionBytes)
        = [i \in 1..n |-> DecodeExtension(q[i].code, q[i].data)]
  BY <1>3, <1>7, <1>8
<1>10. exts = [i \in 1..n |-> exts[i]]
  BY <1>1
<1> QED BY <1>2, <1>6, <1>9, <1>10

LEMMA PartsAre ==
  ASSUME kind \in Kinds
  PROVE  /\ MsgType \in {1, 2} /\ (MsgType = 1 <=> kind = "ClientHello")
         /\ IsCodes(Suites) /\ Len(Suites) = IF kind = "ClientHello" THEN 2 ELSE 1
         /\ <<3, 3>> \in Bytes /\ Len(<<3, 3>>) = 2
         /\ SessionId \in Bytes /\ Len(SessionId) = 1
         /\ <<0>> \in Bytes /\ Len(<<0>>) = 1
         /\ Fits(1, 1) /\ Fits(4, 2)
<1>1. MsgType \in {1, 2} /\ (MsgType = 1 <=> kind = "ClientHello")
  BY DEF MsgType
<1>2. Fits(1, 1) /\ Fits(4, 2) /\ Fits(4865, 2) /\ Fits(4866, 2)
  <2>1. 1 \div 1 = 1 /\ 4 \div 256 = 0 /\ 4865 \div 256 = 19 /\ 4866 \div 256 = 19
    OBVIOUS
  <2> QED BY <2>1, WeightsAre DEF Fits
<1>3. IsCodes(Suites) /\ Len(Suites) = IF kind = "ClientHello" THEN 2 ELSE 1
  <2>1. CASE kind = "ClientHello"
    <3>1. Suites = <<4865, 4866>>
      BY <2>1 DEF Suites
    <3>2. Suites \in Seq(Nat) /\ Len(Suites) = 2
      BY <3>1
    <3>3. \A i \in DOMAIN Suites : Suites[i] = 4865 \/ Suites[i] = 4866
      BY <3>1
    <3>4. \A i \in DOMAIN Suites : Fits(Suites[i], 2)
      BY <3>3, <1>2
    <3> QED BY <2>1, <3>2, <3>4 DEF IsCodes
  <2>2. CASE kind # "ClientHello"
    <3>1. Suites = <<4865>>
      BY <2>2 DEF Suites
    <3>2. Suites \in Seq(Nat) /\ Len(Suites) = 1
      BY <3>1
    <3>3. \A i \in DOMAIN Suites : Suites[i] = 4865
      BY <3>1
    <3>4. \A i \in DOMAIN Suites : Fits(Suites[i], 2)
      BY <3>3, <1>2
    <3> QED BY <2>2, <3>2, <3>4 DEF IsCodes
  <2> QED BY <2>1, <2>2
<1>4. <<3, 3>> \in Bytes /\ Len(<<3, 3>>) = 2
  BY DEF Bytes
<1>5. SessionId \in Bytes /\ Len(SessionId) = 1
  BY DEF SessionId, Bytes
<1>6. <<0>> \in Bytes /\ Len(<<0>>) = 1
  BY DEF Bytes
<1> QED BY <1>1, <1>2, <1>3, <1>4, <1>5, <1>6

LEMMA RandomIs ==
  ASSUME kind \in Kinds
  PROVE  /\ Random \in Bytes /\ Len(Random) = 32
         /\ Random = HelloRetryRandom <=> kind = "HelloRetryRequest"
<1> DEFINE r == [i \in 1..32 |-> i]
<1>1. r \in Bytes /\ Len(r) = 32 /\ r[1] = 1
  BY DEF Bytes
<1>2. HelloRetryRandom \in Bytes /\ Len(HelloRetryRandom) = 32 /\ HelloRetryRandom[1] = 207
  BY DEF HelloRetryRandom, Bytes
<1>3. Random = IF kind = "HelloRetryRequest" THEN HelloRetryRandom ELSE r
  BY DEF Random
<1> HIDE DEF r
<1> QED BY <1>1, <1>2, <1>3

Joined(a, b, c, d, e, t, s) == s = (((a \o b) \o c) \o (d \o e)) \o t

CutAt(a, b, c, d, e, t, s, p2, p3, p4, p5) ==
  s = a \o p2 /\ p2 = b \o p3 /\ p3 = c \o p4 /\ p4 = d \o p5 /\ p5 = e \o t

LEMMA CutFront ==
  ASSUME NEW a \in Bytes, NEW b \in Bytes, NEW c \in Bytes, NEW d \in Bytes, NEW e \in Bytes,
         NEW t \in Bytes, NEW s, Joined(a, b, c, d, e, t, s)
  PROVE  \E p2, p3, p4, p5 \in Bytes : CutAt(a, b, c, d, e, t, s, p2, p3, p4, p5)
<1>1. PICK p5 \in Bytes : p5 = e \o t
  BY BytesConcat
<1>2. PICK p4 \in Bytes : p4 = d \o p5
  BY BytesConcat
<1>3. PICK p3 \in Bytes : p3 = c \o p4
  BY BytesConcat
<1>4. PICK p2 \in Bytes : p2 = b \o p3
  BY BytesConcat
<1>5. PICK ab \in Bytes : ab = a \o b
  BY BytesConcat
<1>6. PICK abc \in Bytes : abc = ab \o c
  BY BytesConcat
<1>7. PICK de \in Bytes : de = d \o e
  BY BytesConcat
<1>8. s = (abc \o de) \o t
  BY <1>5, <1>6, <1>7 DEF Joined
<1>9. de \o t = p4
  <2>1. Grouped(d, e, t)
    BY Regroup
  <2> QED BY <2>1, <1>1, <1>2, <1>7 DEF Grouped
<1>10. s = abc \o p4
  <2>1. Grouped(abc, de, t)
    BY Regroup
  <2> QED BY <2>1, <1>8, <1>9 DEF Grouped
<1>11. s = ab \o p3
  <2>1. Grouped(ab, c, p4)
    BY Regroup
  <2> QED BY <2>1, <1>3, <1>6, <1>10 DEF Grouped
<1>12. s = a \o p2
  <2>1. Grouped(a, b, p3)
    BY Regroup
  <2> QED BY <2>1, <1>4, <1>5, <1>11 DEF Grouped
<1>13. CutAt(a, b, c, d, e, t, s, p2, p3, p4, p5)
  BY <1>1, <1>2, <1>3, <1>4, <1>12 DEF CutAt
<1> QED BY <1>13

LEMMA PartsAreBytes ==
  ASSUME kind \in Kinds
  PROVE  /\ Codes(Suites) \in Bytes /\ Len(Codes(Suites)) = IF kind = "ClientHello" THEN 4 ELSE 2
         /\ Pairs(Codes(Suites)) = Suites /\ Len(Codes(Suites)) % 2 = 0
         /\ SuitesPart \in Bytes /\ Len(SuitesPart) \in 0..6
         /\ CompressionPart \in Bytes /\ Len(CompressionPart) \in 0..2
         /\ Framed(1, SessionId) \in Bytes /\ Len(Framed(1, SessionId)) = 2
<1>1. PICK k \in Nat : k = Len(Suites) /\ Len(Codes(Suites)) = 2 * k
  BY PartsAre, CodesAreWritten
<1>2. /\ Codes(Suites) \in Bytes /\ Pairs(Codes(Suites)) = Suites /\ Len(Codes(Suites)) % 2 = 0
  BY PartsAre, CodesAreWritten
<1>3. Len(Codes(Suites)) = IF kind = "ClientHello" THEN 4 ELSE 2
  <2>1. Len(Suites) = IF kind = "ClientHello" THEN 2 ELSE 1
    BY PartsAre
  <2>2. k = IF kind = "ClientHello" THEN 2 ELSE 1
    BY <1>1, <2>1
  <2> QED BY <1>1, <2>2
<1>4. ASSUME NEW w \in 1..4, NEW v \in Bytes, Fits(Len(v), w)
      PROVE  Framed(w, v) \in Bytes /\ Len(Framed(w, v)) = w + Len(v)
  BY <1>4, VectorInFront, NoBytes DEF VectorIn
<1>5. Framed(1, SessionId) \in Bytes /\ Len(Framed(1, SessionId)) = 2
  <2>1. SessionId \in Bytes /\ Len(SessionId) = 1 /\ Fits(Len(SessionId), 1) /\ 1 \in 1..4
    <3>1. SessionId \in Bytes /\ Len(SessionId) = 1 /\ Fits(1, 1)
      BY PartsAre
    <3> QED BY <3>1
  <2>2. Framed(1, SessionId) \in Bytes /\ Len(Framed(1, SessionId)) = 1 + Len(SessionId)
    BY <1>4, <2>1
  <2> QED BY <2>1, <2>2
<1>6. SuitesPart \in Bytes /\ Len(SuitesPart) \in 0..6
  <2>1. CASE kind = "ClientHello"
    <3>1. Fits(Len(Codes(Suites)), 2) /\ 2 \in 1..4 /\ Len(Codes(Suites)) = 4
      BY <1>3, <2>1, PartsAre
    <3>2. Framed(2, Codes(Suites)) \in Bytes
          /\ Len(Framed(2, Codes(Suites))) = 2 + Len(Codes(Suites))
      BY <1>2, <1>4, <3>1
    <3> QED BY <2>1, <3>1, <3>2 DEF SuitesPart
  <2>2. CASE kind # "ClientHello"
    BY <1>2, <1>3, <2>2 DEF SuitesPart
  <2> QED BY <2>1, <2>2
<1>7. CompressionPart \in Bytes /\ Len(CompressionPart) \in 0..2
  <2>1. CASE kind = "ClientHello"
    <3>1. <<0>> \in Bytes /\ Len(<<0>>) = 1 /\ Fits(Len(<<0>>), 1) /\ 1 \in 1..4
      BY PartsAre
    <3>2. Framed(1, <<0>>) \in Bytes /\ Len(Framed(1, <<0>>)) = 1 + Len(<<0>>)
      BY <1>4, <3>1
    <3> QED BY <2>1, <3>1, <3>2 DEF CompressionPart
  <2>2. CASE kind # "ClientHello"
    BY <2>2, PartsAre DEF CompressionPart
  <2> QED BY <2>1, <2>2
<1> QED BY <1>2, <1>3, <1>5, <1>6, <1>7

\* What a decoder is to find in front of the extensions.
HelloValues == <<<<3, 3>>, Random, SessionId, Codes(Suites), <<0>>>>

LEMMA FrontIsRead ==
  ASSUME kind \in Kinds, HelloTail \in Bytes
  PROVE  /\ HelloBody \in Bytes /\ Len(HelloBody) <= 44 + Len(HelloTail)
         /\ Read(HelloFields(MsgType), HelloBody)
              = [ok |-> TRUE, values |-> HelloValues, rest |-> HelloTail]
<1>1. PICK a \in Bytes : a = <<3, 3>> /\ Len(a) = 2
  BY PartsAre
<1>2. PICK b \in Bytes : b = Random /\ Len(b) = 32
  BY RandomIs
<1>3. PICK v \in Bytes : v = SessionId /\ Len(v) = 1
  BY PartsAre
<1>4. PICK c \in Bytes : c = Framed(1, SessionId) /\ Len(c) = 2
  BY PartsAreBytes
<1>5. PICK d \in Bytes : d = SuitesPart /\ Len(d) \in 0..6
  BY PartsAreBytes
<1>6. PICK e \in Bytes : e = CompressionPart /\ Len(e) \in 0..2
  BY PartsAreBytes
<1>7. PICK t \in Bytes : t = HelloTail
  OBVIOUS
<1>8. PICK s : s = HelloBody
  OBVIOUS
<1>9. Joined(a, b, c, d, e, t, s)
  BY <1>1, <1>2, <1>4, <1>5, <1>6, <1>7, <1>8 DEF HelloBody, Joined
<1>29. PICK p2, p3, p4, p5 \in Bytes : CutAt(a, b, c, d, e, t, s, p2, p3, p4, p5)
  BY <1>9, CutFront
<1>10. s = a \o p2 /\ p2 = b \o p3 /\ p3 = c \o p4 /\ p4 = d \o p5 /\ p5 = e \o t
  BY <1>29 DEF CutAt
<1>11. s \in Bytes
  BY <1>10, BytesConcat
<1>12. PICK l \in Nat : l = Len(t)
  BY NoBytes
<1>13. Len(s) <= 44 + l
  <2>1. Len(p5) = Len(e) + l
    BY <1>10, <1>12, BytesConcat
  <2>2. Len(p4) = Len(d) + Len(p5)
    BY <1>10, BytesConcat
  <2>3. Len(p3) = Len(c) + Len(p4)
    BY <1>10, BytesConcat
  <2>4. Len(p2) = Len(b) + Len(p3)
    BY <1>10, BytesConcat
  <2>5. Len(s) = Len(a) + Len(p2)
    BY <1>10, BytesConcat
  <2>6. PICK x \in 0..2, y \in 0..6 : x = Len(e) /\ y = Len(d)
    BY <1>5, <1>6
  <2>7. Len(s) = 2 + (32 + (2 + (y + (x + l))))
    BY <1>1, <1>2, <1>4, <2>1, <2>2, <2>3, <2>4, <2>5, <2>6
  <2> QED BY <2>7
<1>14. PICK u \in Bytes : u = Codes(Suites) /\ Len(u) = IF kind = "ClientHello" THEN 4 ELSE 2
  BY PartsAreBytes
<1>15. PICK z \in Bytes : z = <<0>> /\ Len(z) = 1
  BY PartsAre
<1>16. Fits(1, 1) /\ Fits(4, 2)
  BY PartsAre
<1>17. FieldIn(Fixed(2), a, s, p2)
  BY <1>1, <1>10 DEF FieldIn
<1>18. FieldIn(Fixed(32), b, p2, p3)
  BY <1>2, <1>10 DEF FieldIn
<1>19. FieldIn(Vector(1), v, p3, p4)
  <2>1. 1 \in 1..4 /\ Fits(Len(v), 1) /\ p3 = Framed(1, v) \o p4
    BY <1>3, <1>4, <1>10, <1>16
  <2> QED BY <2>1 DEF FieldIn
<1> DEFINE values == <<a, b, v, u, z>>
           posts == <<s, p2, p3, p4, p5, t>>
<1>20. values = HelloValues
  BY <1>1, <1>2, <1>3, <1>14, <1>15 DEF HelloValues
<1>21. PICK f4, f5 : /\ HelloFields(MsgType) = <<Fixed(2), Fixed(32), Vector(1), f4, f5>>
                     /\ FieldIn(f4, u, p4, p5) /\ FieldIn(f5, z, p5, t)
  <2>1. CASE kind = "ClientHello"
    <3>1. HelloFields(MsgType) = <<Fixed(2), Fixed(32), Vector(1), Vector(2), Vector(1)>>
      BY <2>1 DEF HelloFields, MsgType
    <3>2. FieldIn(Vector(2), u, p4, p5)
      <4>1. 2 \in 1..4 /\ Fits(Len(u), 2) /\ p4 = Framed(2, u) \o p5
        BY <1>5, <1>10, <1>14, <1>16, <2>1 DEF SuitesPart
      <4> QED BY <4>1 DEF FieldIn
    <3>3. FieldIn(Vector(1), z, p5, t)
      <4>1. 1 \in 1..4 /\ Fits(Len(z), 1) /\ p5 = Framed(1, z) \o t
        BY <1>6, <1>10, <1>15, <1>16, <2>1 DEF CompressionPart
      <4> QED BY <4>1 DEF FieldIn
    <3> QED BY <3>1, <3>2, <3>3
  <2>2. CASE kind # "ClientHello"
    <3>1. HelloFields(MsgType) = <<Fixed(2), Fixed(32), Vector(1), Fixed(2), Fixed(1)>>
      BY <2>2 DEF HelloFields, MsgType
    <3>2. FieldIn(Fixed(2), u, p4, p5)
      <4>1. Len(u) = 2 /\ p4 = u \o p5
        BY <1>5, <1>10, <1>14, <2>2 DEF SuitesPart
      <4> QED BY <4>1 DEF FieldIn
    <3>3. FieldIn(Fixed(1), z, p5, t)
      <4>1. Len(z) = 1 /\ p5 = z \o t
        BY <1>6, <1>10, <1>15, <2>2 DEF CompressionPart
      <4> QED BY <4>1 DEF FieldIn
    <3> QED BY <3>1, <3>2, <3>3
  <2> QED BY <2>1, <2>2
<1>22. PICK fields : fields = <<Fixed(2), Fixed(32), Vector(1), f4, f5>>
  OBVIOUS
<1>23. /\ Len(fields) = 5 /\ Len(values) = 5 /\ Len(posts) = 6
       /\ values \in Seq(Bytes) /\ posts \in Seq(Bytes)
  BY <1>11, <1>22
<1>24. ASSUME NEW i \in 1..5 PROVE FieldIn(fields[i], values[i], posts[i], posts[i + 1])
  <2>1. CASE i = 1
    BY <1>17, <1>22, <2>1
  <2>2. CASE i = 2
    BY <1>18, <1>22, <2>2
  <2>3. CASE i = 3
    BY <1>19, <1>22, <2>3
  <2>4. CASE i = 4
    BY <1>21, <1>22, <2>4
  <2>5. CASE i = 5
    BY <1>21, <1>22, <2>5
  <2>6. i = 1 \/ i = 2 \/ i = 3 \/ i = 4 \/ i = 5
    OBVIOUS
  <2> HIDE DEF values, posts
  <2> QED BY <2>1, <2>2, <2>3, <2>4, <2>5, <2>6
<1>25. posts[1] = s /\ posts[6] = t
  OBVIOUS
<1> HIDE DEF values, posts
<1>26. FieldsIn(fields, values, posts)
  BY <1>23, <1>24 DEF FieldsIn
<1>27. Read(fields, s) = [ok |-> TRUE, values |-> values, rest |-> posts[Len(fields) + 1]]
  BY <1>11, <1>25, <1>26, FieldsAreRead
<1>28. posts[Len(fields) + 1] = t
  <2>1. Len(fields) + 1 = 6
    BY <1>23
  <2> QED BY <1>25, <2>1
<1> QED BY <1>7, <1>8, <1>11, <1>12, <1>13, <1>20, <1>21, <1>22, <1>27, <1>28

LEMMA VectorIsRead ==
  ASSUME NEW v \in Bytes, Fits(Len(v), 2)
  PROVE  LET r == Read(<<Vector(2)>>, Framed(2, v))
         IN  r.ok /\ r.values[1] = v
<1>1. PICK s : s = Framed(2, v) \o << >>
  OBVIOUS
<1>2. FieldIn(Vector(2), v, s, << >>)
  <2>1. 2 \in 1..4 /\ << >> \in Bytes
    BY NoBytes
  <2> QED BY <2>1, <1>1 DEF FieldIn
<1>3. s \in Bytes
  BY <1>2, FieldIsFound DEF FieldFound
<1>4. s = Framed(2, v)
  <2>1. Frames(Framed(2, v), 2, v)
    BY DEF Frames
  <2>2. Framed(2, v) \in Bytes
    BY <2>1, LongVector
  <2> QED BY <2>2, <1>1, NoBytes
<1> DEFINE fields == <<Vector(2)>>
           values == <<v>>
           posts == <<s, << >>>>
<1>5. /\ Len(fields) = 1 /\ values \in Seq(Bytes) /\ Len(values) = 1
      /\ posts \in Seq(Bytes) /\ Len(posts) = 2 /\ posts[1] = s
  BY <1>3, NoBytes
<1>6. ASSUME NEW i \in 1..1 PROVE FieldIn(fields[i], values[i], posts[i], posts[i + 1])
  <2>1. i = 1
    OBVIOUS
  <2> QED BY <1>2, <2>1
<1>7. values[1] = v
  OBVIOUS
<1> HIDE DEF fields, values, posts
<1>8. FieldsIn(fields, values, posts)
  BY <1>5, <1>6 DEF FieldsIn
<1>9. Read(fields, s) = [ok |-> TRUE, values |-> values, rest |-> posts[Len(fields) + 1]]
  BY <1>3, <1>5, <1>8, FieldsAreRead
<1> QED BY <1>4, <1>7, <1>9 DEF fields

-----------------------------------------------------------------------------
(* What is written is read: a record.                                      *)

\* The hello that is being written, and that it can be.
Composed ==
  /\ kind \in Kinds /\ exts \in Seq(Offers[kind])
  /\ ExtensionBytes \in Bytes /\ Fits(Len(ExtensionBytes), 2)

LEMMA ExtsMean ==
  ASSUME kind \in Kinds, exts \in Seq(Offers[kind])
  PROVE  \A i \in DOMAIN exts : Means(exts[i])
<1> SUFFICES ASSUME NEW i \in DOMAIN exts PROVE Means(exts[i])
  OBVIOUS
<1>1. i \in 1..Len(exts)
  BY LenProperties
<1>2. PICK e \in Offers[kind] : e = exts[i]
  BY <1>1, ElementOfSeq
<1> QED BY <1>2, OffersAssumption

LEMMA BodyIsHello ==
  ASSUME Composed
  PROVE  /\ HelloBody \in Bytes /\ Fits(Len(HelloBody), 3)
         /\ Read(HelloFields(MsgType), HelloBody)
              = [ok |-> TRUE, values |-> HelloValues, rest |-> HelloTail]
         /\ exts # << >> => HelloTail # << >> /\ LET r == Read(<<Vector(2)>>, HelloTail)
                            IN  r.ok /\ r.values[1] = ExtensionBytes
<1>1. PICK l \in Nat : l = Len(ExtensionBytes) /\ l < 65536
  <2>1. PICK l \in Nat : l = Len(ExtensionBytes)
    BY NoBytes DEF Composed
  <2>2. l \div 256 < 256
    BY <2>1, WeightsAre DEF Composed, Fits
  <2> QED BY <2>1, <2>2
<1>2. PICK v \in Bytes : v = ExtensionBytes
  BY DEF Composed
<1>3. PICK f \in Bytes : f = Framed(2, v) /\ Len(f) = 2 + l
  <2>1. Frames(Framed(2, v), 2, v)
    BY <1>2 DEF Frames, Composed
  <2> QED BY <2>1, <1>1, <1>2, LongVector
<1>4. HelloTail \in Bytes /\ Len(HelloTail) \in Nat /\ Len(HelloTail) <= 65537
  <2>1. CASE exts = << >>
    <3>1. HelloTail = << >>
      BY <2>1 DEF HelloTail
    <3> QED BY <3>1, NoBytes
  <2>2. CASE exts # << >>
    <3>1. HelloTail = f
      BY <2>2, <1>2, <1>3 DEF HelloTail
    <3> QED BY <3>1, <1>1, <1>3
  <2> QED BY <2>1, <2>2
<1>5. /\ HelloBody \in Bytes /\ Len(HelloBody) <= 44 + Len(HelloTail)
      /\ Read(HelloFields(MsgType), HelloBody)
           = [ok |-> TRUE, values |-> HelloValues, rest |-> HelloTail]
  BY <1>4, FrontIsRead DEF Composed
<1>6. Fits(Len(HelloBody), 3)
  <2>1. PICK n \in Nat : n = Len(HelloBody)
    BY <1>5, NoBytes
  <2>2. n <= 65581
    BY <1>4, <1>5, <2>1
  <2>3. n \div (256 * 256) < 256
    BY <2>2
  <2> QED BY <2>1, <2>3, WeightsAre DEF Fits
<1>7. ASSUME exts # << >>
      PROVE  HelloTail # << >> /\ LET r == Read(<<Vector(2)>>, HelloTail)
                                  IN  r.ok /\ r.values[1] = ExtensionBytes
  <2>1. HelloTail = f
    BY <1>7, <1>2, <1>3 DEF HelloTail
  <2>2. f # << >>
    BY <1>3, NoBytes
  <2>3. Fits(Len(v), 2)
    BY <1>2 DEF Composed
  <2>4. LET r == Read(<<Vector(2)>>, f) IN r.ok /\ r.values[1] = v
    BY <1>3, <2>3, VectorIsRead
  <2> QED BY <1>2, <2>1, <2>2, <2>4
<1> QED BY <1>5, <1>6, <1>7

\* The decoded hello h has the parts the sender composed and the code 0x0303 for its version.
HelloIs(h) ==
  /\ h.ok /\ h.random = Random /\ h.session_id = SessionId
  /\ h.cipher_suites = Suites /\ h.extensions = exts /\ h.legacy_version = 771

\* What the decoder makes of a message whose body it has whole.
LEMMA HelloIsDecoded ==
  ASSUME Composed, NEW p, HeaderOk(MsgType, p), 4 + BodyLen(p) <= Len(p),
         SubSeq(p, 5, 4 + BodyLen(p)) = HelloBody
  PROVE  HelloIs(DecodeHello(MsgType, p))
<1> DEFINE front == Read(HelloFields(MsgType), HelloBody)
           tail == Read(<<Vector(2)>>, HelloTail)
           listed == IF front.rest = << >> THEN << >> ELSE WalkExtensionBodies(tail.values[1])
<1>1. front = [ok |-> TRUE, values |-> HelloValues, rest |-> HelloTail]
  BY BodyIsHello
<1> HIDE DEF front
<1>2. front.ok /\ front.values = HelloValues /\ front.rest = HelloTail
  BY <1>1
<1>3. /\ Number(HelloValues[1]) = 771 /\ HelloValues[2] = Random /\ HelloValues[3] = SessionId
      /\ HelloValues[4] = Codes(Suites)
  <2>1. HelloValues[1] = <<3, 3>>
    BY DEF HelloValues
  <2>2. Number(<<3, 3>>) = 771
    BY DEF Number
  <2> QED BY <2>1, <2>2 DEF HelloValues
<1>4. Pairs(Codes(Suites)) = Suites /\ ~(Len(Codes(Suites)) % 2 # 0)
  BY PartsAreBytes DEF Composed
<1>5. exts = << >> => HelloTail = << >>
  BY DEF HelloTail
<1>6. exts # << >> => HelloTail # << >> /\ tail.ok /\ tail.values[1] = ExtensionBytes
  BY BodyIsHello
<1> HIDE DEF tail
<1>7. WalkExtensionBodies(ExtensionBytes) = exts
  BY ExtsMean, ExtensionsAreRead DEF Composed
<1>8. listed = exts
  BY <1>2, <1>5, <1>6, <1>7
<1>9. ~(front.rest # << >> /\ ~tail.ok)
  BY <1>2, <1>5, <1>6
<1> HIDE DEF listed
<1>10. DecodeHello(MsgType, p)
         = [ok |-> TRUE, legacy_version |-> Number(front.values[1]),
            random |-> front.values[2], session_id |-> front.values[3],
            cipher_suites |-> Pairs(front.values[4]), compression |-> front.values[5],
            extensions |-> listed]
  <2> DEFINE whole == [ok |-> TRUE, legacy_version |-> Number(front.values[1]),
                       random |-> front.values[2], session_id |-> front.values[3],
                       cipher_suites |-> Pairs(front.values[4]), compression |-> front.values[5],
                       extensions |-> listed]
  <2>1. SubSeq(p, 5, IF 4 + BodyLen(p) <= Len(p) THEN 4 + BodyLen(p) ELSE Len(p)) = HelloBody
    OBVIOUS
  <2>2. PICK read : read = Read(HelloFields(MsgType), HelloBody)
    OBVIOUS
  <2>3. front = read /\ read.rest = HelloTail
    BY <1>2, <2>2 DEF front
  <2>4. PICK rest : rest = Read(<<Vector(2)>>, HelloTail)
    OBVIOUS
  <2>5. tail = rest
    BY <2>4 DEF tail
  <2>6. DecodeHello(MsgType, p) =
          IF \/ ~HeaderOk(MsgType, p) \/ ~read.ok \/ Len(read.values[4]) % 2 # 0
             \/ read.rest # << >> /\ ~rest.ok
          THEN Refused
          ELSE [ok |-> TRUE, legacy_version |-> Number(read.values[1]),
                random |-> read.values[2], session_id |-> read.values[3],
                cipher_suites |-> Pairs(read.values[4]), compression |-> read.values[5],
                extensions |-> IF read.rest = << >> THEN << >>
                               ELSE WalkExtensionBodies(rest.values[1])]
    BY <2>1, <2>2, <2>3, <2>4 DEF DecodeHello
  <2>7. listed = IF read.rest = << >> THEN << >> ELSE WalkExtensionBodies(rest.values[1])
    BY <2>3, <2>5 DEF listed
  <2>8. ~(Len(read.values[4]) % 2 # 0)
    BY <1>2, <1>3, <1>4, <2>3
  <2>9. read.ok /\ ~(read.rest # << >> /\ ~rest.ok)
    BY <1>2, <1>9, <2>3, <2>5
  <2> QED BY <2>3, <2>6, <2>7, <2>8, <2>9
<1> QED BY <1>2, <1>3, <1>4, <1>8, <1>10 DEF HelloIs

\* A record of the first n bytes of a hello and the message behind it.
LEMMA RecordIsRead ==
  ASSUME Composed, message = HelloBytes, NEW n \in 1..Len(message) + Len(NextMessage),
         payload = SubSeq(message \o NextMessage, 1, n), decoded = DecodeHandshakeBody(payload)
  PROVE  message # << >> /\ payload # << >> /\ HelloWholeOrNothing
<1>1. PICK t \in 0..255 : t = MsgType /\ t \in {1, 2}
  <2>1. MsgType \in {1, 2}
    BY PartsAre DEF Composed
  <2> QED BY <2>1
<1>2. PICK b \in Bytes : b = HelloBody
  BY BodyIsHello
<1>3. Fits(Len(b), 3)
  BY <1>2, BodyIsHello
<1>4. PICK y \in Bytes : y = NextMessage /\ Len(y) = 3
  <2>1. NextMessage \in Seq(0..255) /\ Len(NextMessage) = 3
    BY DEF NextMessage
  <2> QED BY <2>1 DEF Bytes
<1>5. PICK k \in Nat : k = Len(b)
  BY NoBytes
<1>6. PICK s : Begins(t, b, y, s)
  BY DEF Begins
<1>7. message = <<t>> \o Framed(3, b) /\ s = message \o NextMessage
  BY <1>1, <1>2, <1>4, <1>6, HelloBytesAre DEF Begins
<1>8. Len(message) = 4 + k /\ Len(s) = (4 + k) + 3 /\ message # << >>
  <2>1. PICK z \in Nat : z = 0
    OBVIOUS
  <2>2. <<t>> \o Framed(3, b) \in Bytes /\ Len(<<t>> \o Framed(3, b)) = 4 + k
    <3>1. <<t>> \in Seq(0..255) /\ Len(<<t>>) = 1
      OBVIOUS
    <3>2. PICK h \in Bytes : h = <<t>> /\ Len(h) = 1
      BY <3>1 DEF Bytes
    <3>3. PICK f \in Bytes : f = Framed(3, b) /\ Len(f) = 3 + k
      <4>1. PICK w \in 1..4 : w = 3
        OBVIOUS
      <4>2. VectorIn(Framed(w, b) \o << >>, w, b, << >>)
        BY <1>3, <4>1, NoBytes, VectorInFront
      <4> QED BY <1>5, <4>1, <4>2 DEF VectorIn
    <3>4. h \o f \in Bytes /\ Len(h \o f) = Len(h) + Len(f)
      BY BytesConcat
    <3>5. Len(h) + Len(f) = 4 + k
      BY <3>2, <3>3
    <3> QED BY <3>2, <3>3, <3>4, <3>5
  <2>3. PICK m \in Bytes : m = message /\ Len(m) = 4 + k
    BY <1>7, <2>2
  <2>4. Len(m \o y) = Len(m) + Len(y)
    BY BytesConcat
  <2>5. m # << >>
    BY <2>3, NoBytes
  <2>6. s = m \o y
    BY <1>4, <1>7, <2>3
  <2>7. Len(s) = (4 + k) + 3
    BY <1>4, <2>3, <2>4, <2>6
  <2> QED BY <2>3, <2>5, <2>7
<1>9. n \in Nat /\ 1 <= n /\ n <= Len(s)
  <2>1. Len(NextMessage) = 3
    BY <1>4
  <2> QED BY <1>8, <2>1
<1>10. payload = SubSeq(s, 1, n)
  BY <1>7
<1>11. /\ payload # << >> /\ Len(payload) = n /\ payload[1] = t
       /\ n >= 4 => BodyLen(payload) = k
       /\ n >= 4 + k => SubSeq(payload, 5, 4 + k) = b
  <2>1. PICK m \in Nat : m = n /\ 1 <= m /\ m <= Len(s)
    BY <1>9
  <2>2. BegunWith(t, b, m, SubSeq(s, 1, m))
    BY <1>3, <1>6, <2>1, MessageStart
  <2>3. BegunWith(t, b, n, payload)
    BY <1>10, <2>1, <2>2
  <2> QED BY <1>5, <2>3 DEF BegunWith
<1>12. Complete <=> n >= 4 + k
  BY <1>8, <1>11 DEF Complete
<1>13. CASE n >= 4 + k
  <2>1. n >= 4 /\ BodyLen(payload) = k
    BY <1>11, <1>13
  <2>2. HeaderOk(MsgType, payload)
    BY <1>1, <1>11, <1>13, <2>1 DEF HeaderOk
  <2> DEFINE h == DecodeHello(MsgType, payload)
  <2>3. /\ h.ok /\ h.random = Random /\ h.session_id = SessionId
        /\ h.cipher_suites = Suites /\ h.extensions = exts /\ h.legacy_version = 771
    <3>1. 4 + BodyLen(payload) <= Len(payload)
      BY <1>11, <1>13, <2>1
    <3>2. SubSeq(payload, 5, 4 + BodyLen(payload)) = HelloBody
      BY <1>2, <1>11, <1>13, <2>1
    <3>3. HelloIs(DecodeHello(MsgType, payload))
      BY <2>2, <3>1, <3>2, HelloIsDecoded
    <3> QED BY <3>3 DEF HelloIs
  <2> HIDE DEF h
  <2>4. kind = CASE MsgType = 1 -> "ClientHello"
                 [] MsgType = 2 /\ h.random = HelloRetryRandom -> "HelloRetryRequest"
                 [] OTHER -> "ServerHello"
    <3>1. kind \in Kinds
      BY DEF Composed
    <3>2. (MsgType = 1 <=> kind = "ClientHello") /\ MsgType \in {1, 2}
      BY <3>1, PartsAre
    <3>3. h.random = HelloRetryRandom <=> kind = "HelloRetryRequest"
      BY <3>1, <2>3, RandomIs
    <3>4. CASE kind = "ClientHello"
      BY <3>2, <3>4
    <3>5. CASE kind = "HelloRetryRequest"
      BY <3>2, <3>3, <3>5
    <3>6. CASE kind = "ServerHello"
      BY <3>2, <3>3, <3>6
    <3> QED BY <3>1, <3>4, <3>5, <3>6 DEF Kinds
  <2>5. decoded = [kind |-> kind, hello |-> h]
    BY <1>1, <1>11, <2>3, <2>4, SMTT(20) DEF DecodeHandshakeBody, h
  <2>6. decoded.kind = kind /\ decoded.hello = h
    BY <2>5
  <2> QED BY <1>8, <1>11, <1>12, <1>13, <2>3, <2>6 DEF HelloWholeOrNothing
<1>14. CASE ~(n >= 4 + k)
  <2>1. ~HeaderOk(MsgType, payload)
    <3>1. CASE n >= 4
      BY <1>11, <1>14, <3>1 DEF HeaderOk
    <3>2. CASE ~(n >= 4)
      BY <1>11, <3>2 DEF HeaderOk
    <3> QED BY <3>1, <3>2
  <2>2. DecodeHello(MsgType, payload) = Refused
    BY <2>1 DEF DecodeHello
  <2>3. ~Refused.ok
    BY DEF Refused
  <2>4. decoded = [kind |-> "Unknown", msg_type |-> MsgType, raw |-> payload]
    BY <1>1, <1>11, <2>2, <2>3 DEF DecodeHandshakeBody
  <2>5. decoded.kind = "Unknown" /\ decoded.msg_type = MsgType /\ decoded.raw = payload
    BY <2>4
  <2> QED BY <1>8, <1>11, <1>12, <1>14, <2>5 DEF HelloWholeOrNothing
<1> QED BY <1>13, <1>14

\* The hello a peer is composing, and what is made of the record it is in.
HelloInv ==
  /\ kind \in Kinds /\ exts \in Seq(Offers[kind])
  /\ message # << >> => message = HelloBytes /\ Fits(Len(ExtensionBytes), 2)
  /\ payload # << >> =>
       /\ message # << >> /\ decoded = DecodeHandshakeBody(payload)
       /\ \E n \in 1..Len(message) + Len(NextMessage) :
            payload = SubSeq(message \o NextMessage, 1, n)

LEMMA HelloComposed ==
  ASSUME kind \in Kinds, exts \in Seq(Offers[kind]), Fits(Len(ExtensionBytes), 2)
  PROVE  Composed
BY ExtsMean, ExtensionsAreRead DEF Composed

LEMMA HelloInvHolds == Spec => []HelloInv
<1>1. Init => HelloInv
  BY EmptySeq DEF Init, HelloInv
<1>2. HelloInv /\ [Next]_vars => HelloInv'
  <2> SUFFICES ASSUME HelloInv, [Next]_vars PROVE HelloInv'
    OBVIOUS
  <2>1. ASSUME UNCHANGED <<kind, exts, message, payload, decoded>> PROVE HelloInv'
    <3>1. HelloBytes' = HelloBytes /\ ExtensionBytes' = ExtensionBytes
      BY <2>1 DEF HelloBytes, ExtensionBytes, MsgType, Random, Suites
    <3>2. /\ kind' = kind /\ exts' = exts /\ message' = message /\ payload' = payload
          /\ decoded' = decoded
      BY <2>1
    <3>3. (\E n \in 1..Len(message) + Len(NextMessage) :
             payload = SubSeq(message \o NextMessage, 1, n))'
            <=> \E n \in 1..Len(message) + Len(NextMessage) :
                  payload = SubSeq(message \o NextMessage, 1, n)
      BY <3>2
    <3> QED BY <3>1, <3>2, <3>3 DEF HelloInv
  <2>2. ASSUME NEW e \in Offers[kind], AddExtension(e) PROVE HelloInv'
    <3>1. exts' \in Seq(Offers[kind])
      BY <2>2, AppendProperties DEF AddExtension, HelloInv
    <3> QED BY <2>2, <3>1 DEF AddExtension, HelloInv
  <2>3. ASSUME WriteHello PROVE HelloInv'
    <3>1. HelloBytes' = HelloBytes /\ ExtensionBytes' = ExtensionBytes
      BY <2>3 DEF WriteHello, HelloBytes, ExtensionBytes, MsgType, Random, Suites
    <3>2. payload = << >>
      BY <2>3 DEF WriteHello, HelloInv
    <3> QED BY <2>3, <3>1, <3>2 DEF WriteHello, HelloInv
  <2>4. ASSUME NEW n \in 1..Len(message) + Len(NextMessage), SendRecord(n) PROVE HelloInv'
    <3>1. HelloBytes' = HelloBytes /\ ExtensionBytes' = ExtensionBytes
      BY <2>4 DEF SendRecord, HelloBytes, ExtensionBytes, MsgType, Random, Suites
    <3>2. /\ kind' = kind /\ exts' = exts /\ message' = message /\ message # << >>
          /\ payload' = SubSeq(message \o NextMessage, 1, n)
          /\ decoded' = DecodeHandshakeBody(payload')
      BY <2>4 DEF SendRecord
    <3>3. \E m \in 1..Len(message') + Len(NextMessage) :
            payload' = SubSeq(message' \o NextMessage, 1, m)
      BY <3>2
    <3> QED BY <3>1, <3>2, <3>3 DEF HelloInv
  <2>5. CASE \E b \in Alphabet : AppendByte(b)
    BY <2>1, <2>5 DEF AppendByte
  <2>6. CASE Complete /\ \E i \in 0..Len(Shown) - 1 : SelectSection(i)
    BY <2>1, <2>6 DEF SelectSection, helloVars
  <2>7. CASE Complete /\ ToggleEducation
    BY <2>1, <2>7 DEF ToggleEducation, helloVars
  <2>8. CASE Complete /\ \E h \in Heights : Resize(h)
    BY <2>1, <2>8 DEF Resize, helloVars
  <2>9. CASE UNCHANGED vars
    BY <2>1, <2>9 DEF vars, helloVars
  <2> QED BY <2>2, <2>3, <2>4, <2>5, <2>6, <2>7, <2>8, <2>9 DEF Next
<1> HIDE DEF HelloInv
<1> QED BY <1>1, <1>2, PTL DEF Spec

(* A hello is shown whole or not at all, however many extensions it has,   *)
(* of whatever types and contents, and wherever the record that carries it *)
(* ends: cut short it is an undecoded message, whole it is what the sender *)
(* meant, whatever is behind it (strip_handshake_header, the read_*        *)
(* functions, walk_extension_bodies and the decode_* functions).           *)
THEOREM HelloIsWholeOrNothing == Spec => []HelloWholeOrNothing
<1>1. HelloInv => HelloWholeOrNothing
  <2> SUFFICES ASSUME HelloInv, payload # << >> PROVE HelloWholeOrNothing
    BY DEF HelloWholeOrNothing
  <2>1. PICK n \in 1..Len(message) + Len(NextMessage) :
          payload = SubSeq(message \o NextMessage, 1, n)
    BY DEF HelloInv
  <2>2. Composed /\ message = HelloBytes /\ decoded = DecodeHandshakeBody(payload)
    BY HelloComposed DEF HelloInv
  <2> QED BY <2>1, <2>2, RecordIsRead
<1> QED BY <1>1, HelloInvHolds, PTL

-----------------------------------------------------------------------------
(* What is listed: a thing stands in a list nowhere, or at one place.      *)

Never(x, q) == \A i \in DOMAIN q : q[i] # x
Once(x, q) == \E i \in DOMAIN q : q[i] = x /\ \A j \in DOMAIN q : q[j] = x => j = i

LEMMA OnceIsOne ==
  ASSUME NEW q, NEW x
  PROVE  /\ Once(x, q) => Cardinality({i \in DOMAIN q : q[i] = x}) = 1
         /\ Never(x, q) => Cardinality({i \in DOMAIN q : q[i] = x}) = 0
<1>1. ASSUME Once(x, q) PROVE Cardinality({i \in DOMAIN q : q[i] = x}) = 1
  <2>1. PICK k \in DOMAIN q : q[k] = x /\ \A j \in DOMAIN q : q[j] = x => j = k
    BY <1>1 DEF Once
  <2>2. {i \in DOMAIN q : q[i] = x} = {k}
    BY <2>1
  <2> QED BY <2>2, FS_Singleton
<1>2. ASSUME Never(x, q) PROVE Cardinality({i \in DOMAIN q : q[i] = x}) = 0
  <2>1. {i \in DOMAIN q : q[i] = x} = {}
    BY <1>2 DEF Never
  <2> QED BY <2>1, FS_EmptySet
<1> QED BY <1>1, <1>2

LEMMA OneElement ==
  ASSUME NEW S, NEW y \in S, NEW x
  PROVE  /\ <<y>> \in Seq(S)
         /\ y = x => Once(x, <<y>>)
         /\ y # x => Never(x, <<y>>)
<1>1. <<y>> \in Seq(S) /\ Len(<<y>>) = 1 /\ <<y>>[1] = y
  OBVIOUS
<1>2. DOMAIN <<y>> = {1}
  BY <1>1, LenProperties
<1> QED BY <1>1, <1>2 DEF Once, Never

LEMMA ConcatPlaces ==
  ASSUME NEW S, NEW a \in Seq(S), NEW b \in Seq(S), NEW x
  PROVE  /\ a \o b \in Seq(S)
         /\ Never(x, a) /\ Never(x, b) => Never(x, a \o b)
         /\ Once(x, a) /\ Never(x, b) => Once(x, a \o b)
         /\ Never(x, a) /\ Once(x, b) => Once(x, a \o b)
<1>1. PICK m \in Nat, n \in Nat : m = Len(a) /\ n = Len(b)
  BY LenProperties
<1>2. PICK c \in Seq(S) : c = a \o b
  BY ConcatProperties
<1>3. DOMAIN a = 1..m /\ DOMAIN b = 1..n /\ DOMAIN c = 1..m + n
  BY <1>1, <1>2, LenProperties, ConcatProperties
<1>4. \A i \in 1..m + n : c[i] = IF i <= m THEN a[i] ELSE b[i - m]
  BY <1>1, <1>2, ConcatProperties
<1>5. \A i \in 1..m : i \in 1..m + n /\ c[i] = a[i]
  BY <1>4
<1>6. \A i \in 1..n : i + m \in 1..m + n /\ c[i + m] = b[i]
  <2> SUFFICES ASSUME NEW i \in 1..n PROVE i + m \in 1..m + n /\ c[i + m] = b[i]
    OBVIOUS
  <2>1. i + m \in 1..m + n /\ ~(i + m <= m) /\ (i + m) - m = i
    OBVIOUS
  <2> QED BY <1>4, <2>1
<1>7. \A i \in 1..m + n : i \in 1..m \/ \E k \in 1..n : i = k + m
  <2> SUFFICES ASSUME NEW i \in 1..m + n, i \notin 1..m PROVE \E k \in 1..n : i = k + m
    OBVIOUS
  <2>1. i - m \in 1..n /\ i = (i - m) + m
    OBVIOUS
  <2> QED BY <2>1
<1>8. ASSUME Never(x, a), Never(x, b) PROVE Never(x, c)
  <2>1. ASSUME NEW j \in 1..m + n PROVE c[j] # x
    <3>1. CASE j \in 1..m
      BY <1>3, <1>5, <1>8, <3>1 DEF Never
    <3>2. ASSUME NEW k \in 1..n, j = k + m PROVE c[j] # x
      BY <1>3, <1>6, <1>8, <3>2 DEF Never
    <3> QED BY <1>7, <3>1, <3>2
  <2> QED BY <1>3, <2>1 DEF Never
<1>9. ASSUME Once(x, a), Never(x, b) PROVE Once(x, c)
  <2>1. PICK k \in 1..m : a[k] = x /\ \A j \in 1..m : a[j] = x => j = k
    BY <1>3, <1>9 DEF Once
  <2>2. \A j \in 1..m + n : c[j] = x => j = k
    BY <1>3, <1>5, <1>6, <1>7, <1>9, <2>1 DEF Never
  <2>3. k \in 1..m + n /\ c[k] = x
    BY <1>5, <2>1
  <2> QED BY <1>3, <2>2, <2>3 DEF Once
<1>10. ASSUME Never(x, a), Once(x, b) PROVE Once(x, c)
  <2>1. PICK k \in 1..n : b[k] = x /\ \A j \in 1..n : b[j] = x => j = k
    BY <1>3, <1>10 DEF Once
  <2>2. ASSUME NEW j \in 1..m + n, c[j] = x PROVE j = k + m
    <3>1. j \notin 1..m
      BY <1>3, <1>5, <1>10, <2>2 DEF Never
    <3>2. PICK i \in 1..n : j = i + m
      BY <1>7, <3>1
    <3> QED BY <1>6, <2>1, <2>2, <3>2
  <2>3. k + m \in 1..m + n /\ c[k + m] = x
    BY <1>6, <2>1
  <2> QED BY <1>3, <2>2, <2>3 DEF Once
<1> QED BY <1>2, <1>8, <1>9, <1>10

\* The same of a list of lists.
NeverIn(x, q) == \A i \in 1..Len(q) : Never(x, q[i])
OnceIn(x, q) ==
  \E i \in 1..Len(q) : Once(x, q[i]) /\ \A j \in 1..Len(q) : j # i => Never(x, q[j])

LEMMA PlacesOfCons ==
  ASSUME NEW S, NEW y \in S, NEW t \in Seq(S), NEW x
  PROVE  /\ NeverIn(x, <<y>> \o t) => Never(x, y) /\ NeverIn(x, t)
         /\ OnceIn(x, <<y>> \o t) =>
              \/ Once(x, y) /\ NeverIn(x, t)
              \/ Never(x, y) /\ OnceIn(x, t)
<1>1. PICK n \in Nat : n = Len(t)
  BY LenProperties
<1>2. PICK q \in Seq(S) : q = <<y>> \o t
  BY ConsProperties
<1>3. Len(q) = n + 1 /\ q[1] = y /\ \A i \in 1..n : q[i + 1] = t[i]
  BY <1>1, <1>2, ConsProperties
<1>4. 1 \in 1..n + 1 /\ \A i \in 1..n : i + 1 \in 1..n + 1 /\ i + 1 # 1
  OBVIOUS
<1>5. ASSUME NeverIn(x, q) PROVE Never(x, y) /\ NeverIn(x, t)
  BY <1>1, <1>3, <1>4, <1>5 DEF NeverIn
<1>6. ASSUME OnceIn(x, q)
      PROVE  \/ Once(x, y) /\ NeverIn(x, t)
             \/ Never(x, y) /\ OnceIn(x, t)
  <2>1. PICK i \in 1..n + 1 : Once(x, q[i]) /\ \A j \in 1..n + 1 : j # i => Never(x, q[j])
    BY <1>3, <1>6 DEF OnceIn
  <2>2. CASE i = 1
    BY <1>1, <1>3, <1>4, <2>1, <2>2 DEF NeverIn
  <2>3. CASE i # 1
    <3>1. PICK k \in 1..n : i = k + 1
      <4>1. i - 1 \in 1..n /\ i = (i - 1) + 1
        BY <2>3
      <4> QED BY <4>1
    <3>2. Once(x, t[k]) /\ Never(x, y)
      BY <1>3, <1>4, <2>1, <3>1
    <3>3. \A j \in 1..n : j # k => Never(x, t[j])
      <4> SUFFICES ASSUME NEW j \in 1..n, j # k PROVE Never(x, t[j])
        OBVIOUS
      <4>1. j + 1 # i /\ j + 1 \in 1..n + 1
        BY <3>1
      <4> QED BY <1>3, <2>1, <4>1
    <3> QED BY <1>1, <3>2, <3>3 DEF OnceIn
  <2> QED BY <2>2, <2>3
<1> QED BY <1>2, <1>5, <1>6

LEMMA FlattenPlaces ==
  ASSUME NEW S, NEW q \in Seq(Seq(S)), NEW x
  PROVE  /\ NeverIn(x, q) => Never(x, FlattenSeq(q))
         /\ OnceIn(x, q) => Once(x, FlattenSeq(q))
<1> DEFINE Flat(r) == /\ NeverIn(x, r) => Never(x, FlattenSeq(r))
                      /\ OnceIn(x, r) => Once(x, FlattenSeq(r))
           T == {n \in Nat : \A r \in Seq(Seq(S)) : Len(r) = n => Flat(r)}
<1>1. 0 \in T
  <2> SUFFICES ASSUME NEW r \in Seq(Seq(S)), Len(r) = 0 PROVE Flat(r)
    OBVIOUS
  <2>1. r = << >>
    BY EmptySeq
  <2>2. FlattenSeq(r) = << >>
    <3>1. << >> \in Seq(S) /\ << >> \in Seq(Seq(S))
      BY EmptySeq
    <3> QED BY <2>1, <3>1, FlattenConsOf
  <2>3. DOMAIN << >> = {} /\ Len(<< >>) = 0
    OBVIOUS
  <2> QED BY <2>1, <2>2, <2>3 DEF Never, OnceIn
<1>2. ASSUME NEW n \in Nat, n \in T PROVE n + 1 \in T
  <2> SUFFICES ASSUME NEW r \in Seq(Seq(S)), Len(r) = n + 1 PROVE Flat(r)
    OBVIOUS
  <2>1. r # << >>
    BY EmptySeq
  <2>2. PICK y \in Seq(S), t \in Seq(Seq(S)) : r = <<y>> \o t /\ Len(t) = n
    <3>1. /\ r[1] \in Seq(S) /\ Tail(r) \in Seq(Seq(S)) /\ Len(Tail(r)) = Len(r) - 1
          /\ r = <<r[1]>> \o Tail(r)
      BY <2>1, HeadAndTail
    <3>2. Len(Tail(r)) = n
      BY <3>1
    <3> QED BY <3>1, <3>2
  <2>3. Flat(t)
    BY <1>2, <2>2
  <2>4. FlattenSeq(r) = y \o FlattenSeq(t) /\ FlattenSeq(t) \in Seq(S)
    BY <2>2, FlattenConsOf
  <2>5. PICK z \in Seq(S) : z = FlattenSeq(t)
    BY <2>4
  <2>6. /\ NeverIn(x, r) => Never(x, y) /\ NeverIn(x, t)
        /\ OnceIn(x, r) => (Once(x, y) /\ NeverIn(x, t)) \/ (Never(x, y) /\ OnceIn(x, t))
    BY <2>2, PlacesOfCons
  <2>7. /\ Never(x, y) /\ Never(x, z) => Never(x, y \o z)
        /\ Once(x, y) /\ Never(x, z) => Once(x, y \o z)
        /\ Never(x, y) /\ Once(x, z) => Once(x, y \o z)
    BY ConcatPlaces
  <2> QED BY <2>3, <2>4, <2>5, <2>6, <2>7
<1>3. Nat \subseteq T
  <2> HIDE DEF T
  <2> QED BY <1>1, <1>2, SetInduction
<1>4. Len(q) \in Nat
  BY LenProperties
<1> QED BY <1>3, <1>4

-----------------------------------------------------------------------------
(* What the sections of a hello list.                                      *)

\* No extension is repeated.
Distinct(es) == \A i, j \in DOMAIN es : es[i].ext_type = es[j].ext_type => i = j

LEMMA CarrierIs ==
  ASSUME NEW E, NEW es \in Seq(E), Distinct(es), NEW type
  PROVE  \/ Carriers(es, type) = {}
         \/ \E i \in DOMAIN es : es[i].ext_type = type /\ Carriers(es, type) = {i}
              /\ Max(Carriers(es, type)) = i /\ Min(Carriers(es, type)) = i
<1> SUFFICES ASSUME NEW i \in DOMAIN es, es[i].ext_type = type
             PROVE  /\ Carriers(es, type) = {i}
                    /\ Max(Carriers(es, type)) = i /\ Min(Carriers(es, type)) = i
  BY DEF Carriers
<1>1. Carriers(es, type) = {i}
  BY DEF Carriers, Distinct
<1>2. i \in Nat
  BY LenProperties
<1>3. Max({i}) = i /\ Min({i}) = i
  BY <1>2 DEF Max, Min
<1> QED BY <1>1, <1>3

LEMMA IfPresentIs ==
  ASSUME NEW E, NEW es \in Seq(E), Distinct(es), NEW type
  PROVE  \/ IfPresent(es, type) = << >> /\ \A i \in DOMAIN es : es[i].ext_type # type
         \/ \E i \in DOMAIN es : es[i].ext_type = type
              /\ IfPresent(es, type) = <<OfExtension(es[i])>>
<1>1. CASE Carriers(es, type) = {}
  BY <1>1 DEF IfPresent, Carriers
<1>2. ASSUME NEW i \in DOMAIN es, es[i].ext_type = type, Carriers(es, type) = {i},
             Min(Carriers(es, type)) = i
      PROVE  IfPresent(es, type) = <<OfExtension(es[i])>>
  <2>1. Carriers(es, type) # {}
    BY <1>2
  <2> QED BY <1>2, <2>1 DEF IfPresent
<1> QED BY <1>1, <1>2, CarrierIs

Subjects(E) == {OfExtension(e) : e \in E}

LEMMA SubjectsAre ==
  ASSUME NEW E, NEW e \in E, NEW d \in E
  PROVE  /\ OfExtension(e) \in Subjects(E)
         /\ OfExtension(e) = OfExtension(d) <=> e = d
         /\ OfExtension(e)[1] = "extension" /\ OfExtension(e)[2] = e
BY DEF OfExtension, Subjects

LEMMA PresentPlaces ==
  ASSUME NEW E, NEW es \in Seq(E), Distinct(es), NEW type, NEW k \in DOMAIN es
  PROVE  /\ IfPresent(es, type) \in Seq(Subjects(E))
         /\ es[k].ext_type = type => Once(OfExtension(es[k]), IfPresent(es, type))
         /\ es[k].ext_type # type => Never(OfExtension(es[k]), IfPresent(es, type))
<1>1. \A i \in DOMAIN es : es[i] \in E
  BY LenProperties, ElementOfSeq
<1>2. CASE IfPresent(es, type) = << >> /\ \A i \in DOMAIN es : es[i].ext_type # type
  <2>1. << >> \in Seq(Subjects(E)) /\ DOMAIN << >> = {}
    BY EmptySeq
  <2> QED BY <1>2, <2>1 DEF Never
<1>3. ASSUME NEW i \in DOMAIN es, es[i].ext_type = type,
             IfPresent(es, type) = <<OfExtension(es[i])>>
      PROVE  /\ IfPresent(es, type) \in Seq(Subjects(E))
             /\ es[k].ext_type = type => Once(OfExtension(es[k]), IfPresent(es, type))
             /\ es[k].ext_type # type => Never(OfExtension(es[k]), IfPresent(es, type))
  <2>1. /\ OfExtension(es[i]) \in Subjects(E)
        /\ OfExtension(es[i]) = OfExtension(es[k]) <=> es[i] = es[k]
    BY <1>1, SubjectsAre
  <2>2. /\ <<OfExtension(es[i])>> \in Seq(Subjects(E))
        /\ es[i] = es[k] => Once(OfExtension(es[k]), <<OfExtension(es[i])>>)
        /\ es[i] # es[k] => Never(OfExtension(es[k]), <<OfExtension(es[i])>>)
    BY <2>1, OneElement
  <2>3. es[k].ext_type = type => es[i] = es[k]
    BY <1>3 DEF Distinct
  <2>4. es[k].ext_type # type => es[i] # es[k]
    BY <1>3
  <2> QED BY <1>3, <2>2, <2>3, <2>4
<1> QED BY <1>2, <1>3, IfPresentIs

LEMMA ListOfLists ==
  ASSUME NEW S, NEW q, NEW n \in Nat, q \in [1..n -> Seq(S)]
  PROVE  q \in Seq(Seq(S)) /\ Len(q) = n /\ DOMAIN q = 1..n
<1>1. q \in Seq(Seq(S))
  BY SeqDef
<1>2. DOMAIN q = 1..n /\ DOMAIN q = 1..Len(q) /\ Len(q) \in Nat
  BY <1>1, LenProperties
<1> QED BY <1>1, <1>2

\* The types pinned in a list, all different.
LEMMA PinnedPlaces ==
  ASSUME NEW E, NEW es \in Seq(E), Distinct(es), NEW k \in DOMAIN es,
         NEW types \in Seq(Nat), \A i, j \in 1..Len(types) : types[i] = types[j] => i = j
  PROVE  /\ Pinned(es, types) \in Seq(Subjects(E))
         /\ (\E i \in 1..Len(types) : types[i] = es[k].ext_type) =>
              Once(OfExtension(es[k]), Pinned(es, types))
         /\ (\A i \in 1..Len(types) : types[i] # es[k].ext_type) =>
              Never(OfExtension(es[k]), Pinned(es, types))
<1> DEFINE q == [i \in DOMAIN types |-> IfPresent(es, types[i])]
           x == OfExtension(es[k])
<1>1. PICK n \in Nat : n = Len(types)
  BY LenProperties
<1>2. DOMAIN types = 1..n
  BY <1>1, LenProperties
<1>3. \A i \in 1..n : /\ q[i] \in Seq(Subjects(E))
                      /\ es[k].ext_type = types[i] => Once(x, q[i])
                      /\ es[k].ext_type # types[i] => Never(x, q[i])
  <2> SUFFICES ASSUME NEW i \in 1..n
               PROVE  /\ q[i] \in Seq(Subjects(E))
                      /\ es[k].ext_type = types[i] => Once(x, q[i])
                      /\ es[k].ext_type # types[i] => Never(x, q[i])
    OBVIOUS
  <2>1. q[i] = IfPresent(es, types[i])
    BY <1>2
  <2> QED BY <2>1, PresentPlaces
<1>4. q \in [1..n -> Seq(Subjects(E))]
  BY <1>2, <1>3
<1>5. q \in Seq(Seq(Subjects(E))) /\ Len(q) = n
  BY <1>4, ListOfLists
<1>6. Pinned(es, types) = FlattenSeq(q)
  BY DEF Pinned
<1>7. FlattenSeq(q) \in Seq(Subjects(E))
  <2>1. << >> \in Seq(Subjects(E))
    BY EmptySeq
  <2> HIDE DEF q
  <2> QED BY <1>5, <2>1, FlattenConsOf
<1>8. NeverIn(x, q) => Never(x, FlattenSeq(q))
  <2> HIDE DEF q, x
  <2> QED BY <1>5, FlattenPlaces
<1>9. OnceIn(x, q) => Once(x, FlattenSeq(q))
  <2> HIDE DEF q, x
  <2> QED BY <1>5, FlattenPlaces
<1>10. ASSUME NEW i \in 1..n, types[i] = es[k].ext_type PROVE OnceIn(x, q)
  <2>1. \A j \in 1..n : j # i => types[j] # es[k].ext_type
    BY <1>1, <1>10
  <2> HIDE DEF q, x
  <2> QED BY <1>3, <1>5, <1>10, <2>1 DEF OnceIn
<1>11. ASSUME \A i \in 1..n : types[i] # es[k].ext_type PROVE NeverIn(x, q)
  <2> HIDE DEF q, x
  <2> QED BY <1>3, <1>5, <1>11 DEF NeverIn
<1> QED BY <1>1, <1>6, <1>7, <1>8, <1>9, <1>10, <1>11

LEMMA OthersPlaces ==
  ASSUME NEW E, NEW es \in Seq(E), Distinct(es), NEW k \in DOMAIN es
  PROVE  /\ Others(es) \in Seq(Subjects(E))
         /\ es[k].ext_type \notin PROMOTED_EXTENSIONS => Once(OfExtension(es[k]), Others(es))
         /\ es[k].ext_type \in PROMOTED_EXTENSIONS => Never(OfExtension(es[k]), Others(es))
<1> DEFINE q == [i \in DOMAIN es |-> IF es[i].ext_type \in PROMOTED_EXTENSIONS THEN << >>
                                     ELSE <<OfExtension(es[i])>>]
           x == OfExtension(es[k])
<1>1. PICK n \in Nat : n = Len(es)
  BY LenProperties
<1>2. DOMAIN es = 1..n /\ \A i \in 1..n : es[i] \in E
  BY <1>1, LenProperties, ElementOfSeq
<1>3. << >> \in Seq(Subjects(E)) /\ Never(x, << >>)
  <2>1. << >> \in Seq(Subjects(E)) /\ DOMAIN << >> = {}
    BY EmptySeq
  <2> QED BY <2>1 DEF Never
<1>4. \A i \in 1..n :
        /\ q[i] \in Seq(Subjects(E))
        /\ i # k => Never(x, q[i])
        /\ es[k].ext_type \in PROMOTED_EXTENSIONS => Never(x, q[i])
        /\ i = k /\ es[k].ext_type \notin PROMOTED_EXTENSIONS => Once(x, q[i])
  <2> SUFFICES ASSUME NEW i \in 1..n
               PROVE  /\ q[i] \in Seq(Subjects(E))
                      /\ i # k => Never(x, q[i])
                      /\ es[k].ext_type \in PROMOTED_EXTENSIONS => Never(x, q[i])
                      /\ i = k /\ es[k].ext_type \notin PROMOTED_EXTENSIONS => Once(x, q[i])
    OBVIOUS
  <2>1. CASE es[i].ext_type \in PROMOTED_EXTENSIONS
    <3>1. q[i] = << >>
      BY <1>2, <2>1
    <3> HIDE DEF q, x
    <3> QED BY <1>3, <2>1, <3>1
  <2>2. CASE es[i].ext_type \notin PROMOTED_EXTENSIONS
    <3>1. q[i] = <<OfExtension(es[i])>>
      BY <1>2, <2>2
    <3>2. /\ OfExtension(es[i]) \in Subjects(E)
          /\ OfExtension(es[i]) = OfExtension(es[k]) <=> es[i] = es[k]
      BY <1>2, SubjectsAre
    <3>3. /\ <<OfExtension(es[i])>> \in Seq(Subjects(E))
          /\ es[i] = es[k] => Once(x, <<OfExtension(es[i])>>)
          /\ es[i] # es[k] => Never(x, <<OfExtension(es[i])>>)
      BY <3>2, OneElement
    <3>4. i # k => es[i] # es[k]
      BY <1>2 DEF Distinct
    <3>5. es[k].ext_type \in PROMOTED_EXTENSIONS => es[i] # es[k]
      BY <2>2
    <3> HIDE DEF q, x
    <3> QED BY <3>1, <3>3, <3>4, <3>5
  <2> QED BY <2>1, <2>2
<1>5. q \in [1..n -> Seq(Subjects(E))]
  BY <1>2, <1>4
<1>6. q \in Seq(Seq(Subjects(E))) /\ Len(q) = n
  BY <1>5, ListOfLists
<1>7. Others(es) = FlattenSeq(q)
  BY DEF Others
<1>8. FlattenSeq(q) \in Seq(Subjects(E))
  <2> HIDE DEF q, x
  <2> QED BY <1>3, <1>6, FlattenConsOf
<1>9. (NeverIn(x, q) => Never(x, FlattenSeq(q))) /\ (OnceIn(x, q) => Once(x, FlattenSeq(q)))
  <2> HIDE DEF q, x
  <2> QED BY <1>6, FlattenPlaces
<1>10. ASSUME es[k].ext_type \notin PROMOTED_EXTENSIONS PROVE OnceIn(x, q)
  <2> HIDE DEF q, x
  <2>1. k \in 1..n
    BY <1>2
  <2> QED BY <1>4, <1>6, <1>10, <2>1 DEF OnceIn
<1>11. ASSUME es[k].ext_type \in PROMOTED_EXTENSIONS PROVE NeverIn(x, q)
  <2> HIDE DEF q, x
  <2> QED BY <1>4, <1>6, <1>11 DEF NeverIn
<1> QED BY <1>7, <1>8, <1>9, <1>10, <1>11

\* The same lists, of no extensions too.
LEMMA PinnedIsList ==
  ASSUME NEW E, NEW es \in Seq(E), Distinct(es), NEW types \in Seq(Nat)
  PROVE  Pinned(es, types) \in Seq(Subjects(E))
<1> DEFINE q == [i \in DOMAIN types |-> IfPresent(es, types[i])]
<1>1. << >> \in Seq(Subjects(E))
  BY EmptySeq
<1>2. ASSUME NEW type PROVE IfPresent(es, type) \in Seq(Subjects(E))
  <2>1. ASSUME NEW i \in DOMAIN es PROVE <<OfExtension(es[i])>> \in Seq(Subjects(E))
    <3>1. es[i] \in E
      BY LenProperties, ElementOfSeq
    <3>2. OfExtension(es[i]) \in Subjects(E)
      BY <3>1, SubjectsAre
    <3> QED BY <3>2, OneElement
  <2>2. \/ IfPresent(es, type) = << >> /\ \A i \in DOMAIN es : es[i].ext_type # type
        \/ \E i \in DOMAIN es : es[i].ext_type = type
             /\ IfPresent(es, type) = <<OfExtension(es[i])>>
    BY IfPresentIs
  <2> QED BY <1>1, <2>1, <2>2
<1>3. Len(types) \in Nat /\ DOMAIN types = 1..Len(types)
  BY LenProperties
<1>4. q \in [1..Len(types) -> Seq(Subjects(E))]
  BY <1>2, <1>3
<1>5. q \in Seq(Seq(Subjects(E)))
  BY <1>3, <1>4, ListOfLists
<1>6. Pinned(es, types) = FlattenSeq(q)
  BY DEF Pinned
<1> HIDE DEF q
<1> QED BY <1>1, <1>5, <1>6, FlattenConsOf

LEMMA OthersIsList ==
  ASSUME NEW E, NEW es \in Seq(E)
  PROVE  Others(es) \in Seq(Subjects(E))
<1> DEFINE q == [i \in DOMAIN es |-> IF es[i].ext_type \in PROMOTED_EXTENSIONS THEN << >>
                                     ELSE <<OfExtension(es[i])>>]
<1>1. << >> \in Seq(Subjects(E))
  BY EmptySeq
<1>2. Len(es) \in Nat /\ DOMAIN es = 1..Len(es)
  BY LenProperties
<1>3. ASSUME NEW i \in 1..Len(es) PROVE q[i] \in Seq(Subjects(E))
  <2>1. es[i] \in E
    BY ElementOfSeq
  <2>2. OfExtension(es[i]) \in Subjects(E)
    BY <2>1, SubjectsAre
  <2>3. <<OfExtension(es[i])>> \in Seq(Subjects(E))
    BY <2>2, OneElement
  <2> QED BY <1>1, <1>2, <2>3
<1>4. q \in [1..Len(es) -> Seq(Subjects(E))]
  BY <1>2, <1>3
<1>5. q \in Seq(Seq(Subjects(E)))
  BY <1>2, <1>4, ListOfLists
<1>6. Others(es) = FlattenSeq(q)
  BY DEF Others
<1> HIDE DEF q
<1> QED BY <1>1, <1>5, <1>6, FlattenConsOf

\* Both kinds of hello are listed so: four parts, two pinned lists, the others.
HelloList(p, a, q, b, c, r, s) == <<p>> \o a \o <<q>> \o b \o c \o <<r>> \o <<s>>

LEMMA HelloListPlaces ==
  ASSUME NEW S, NEW p \in S, NEW q \in S, NEW r \in S, NEW s \in S,
         NEW a \in Seq(S), NEW b \in Seq(S), NEW c \in Seq(S), NEW x,
         p # x, q # x, r # x, s # x
  PROVE  /\ Never(x, a) /\ Never(x, b) /\ Never(x, c) => Never(x, HelloList(p, a, q, b, c, r, s))
         /\ Once(x, a) /\ Never(x, b) /\ Never(x, c) => Once(x, HelloList(p, a, q, b, c, r, s))
         /\ Never(x, a) /\ Once(x, b) /\ Never(x, c) => Once(x, HelloList(p, a, q, b, c, r, s))
         /\ Never(x, a) /\ Never(x, b) /\ Once(x, c) => Once(x, HelloList(p, a, q, b, c, r, s))
<1>1. /\ <<p>> \in Seq(S) /\ Never(x, <<p>>)
      /\ <<q>> \in Seq(S) /\ Never(x, <<q>>)
      /\ <<r>> \in Seq(S) /\ Never(x, <<r>>)
      /\ <<s>> \in Seq(S) /\ Never(x, <<s>>)
  BY OneElement
<1>2. PICK l1 \in Seq(S) : l1 = <<p>> \o a
  BY <1>1, ConcatPlaces
<1>3. (Never(x, a) => Never(x, l1)) /\ (Once(x, a) => Once(x, l1))
  BY <1>1, <1>2, ConcatPlaces
<1>4. PICK l2 \in Seq(S) : l2 = l1 \o <<q>>
  BY <1>1, ConcatPlaces
<1>5. (Never(x, a) => Never(x, l2)) /\ (Once(x, a) => Once(x, l2))
  BY <1>1, <1>3, <1>4, ConcatPlaces
<1>6. PICK l3 \in Seq(S) : l3 = l2 \o b
  BY ConcatPlaces
<1>7. /\ Never(x, a) /\ Never(x, b) => Never(x, l3)
      /\ Once(x, a) /\ Never(x, b) => Once(x, l3)
      /\ Never(x, a) /\ Once(x, b) => Once(x, l3)
  BY <1>5, <1>6, ConcatPlaces
<1>8. PICK l4 \in Seq(S) : l4 = l3 \o c
  BY ConcatPlaces
<1>9. /\ Never(x, a) /\ Never(x, b) /\ Never(x, c) => Never(x, l4)
      /\ Once(x, a) /\ Never(x, b) /\ Never(x, c) => Once(x, l4)
      /\ Never(x, a) /\ Once(x, b) /\ Never(x, c) => Once(x, l4)
      /\ Never(x, a) /\ Never(x, b) /\ Once(x, c) => Once(x, l4)
  BY <1>7, <1>8, ConcatPlaces
<1>10. PICK l5 \in Seq(S) : l5 = l4 \o <<r>>
  BY <1>1, ConcatPlaces
<1>11. (Never(x, l4) => Never(x, l5)) /\ (Once(x, l4) => Once(x, l5))
  BY <1>1, <1>10, ConcatPlaces
<1>12. PICK l6 \in Seq(S) : l6 = l5 \o <<s>>
  BY <1>1, ConcatPlaces
<1>13. (Never(x, l5) => Never(x, l6)) /\ (Once(x, l5) => Once(x, l6))
  BY <1>1, <1>12, ConcatPlaces
<1>14. HelloList(p, a, q, b, c, r, s) = l6
  BY <1>2, <1>4, <1>6, <1>8, <1>10, <1>12 DEF HelloList
<1> QED BY <1>9, <1>11, <1>13, <1>14

LEMMA HelloListIsList ==
  ASSUME NEW S, NEW p \in S, NEW q \in S, NEW r \in S, NEW s \in S,
         NEW a \in Seq(S), NEW b \in Seq(S), NEW c \in Seq(S)
  PROVE  /\ HelloList(p, a, q, b, c, r, s) \in Seq(S)
         /\ Len(HelloList(p, a, q, b, c, r, s)) \in Nat \ {0}
<1>1. <<p>> \in Seq(S) /\ <<q>> \in Seq(S) /\ <<r>> \in Seq(S) /\ <<s>> \in Seq(S)
  OBVIOUS
<1>2. PICK l4 \in Seq(S) : l4 = <<p>> \o a \o <<q>> \o b \o c
  BY <1>1, ConcatProperties
<1>3. PICK l5 \in Seq(S) : l5 = l4 \o <<r>>
  BY <1>1, ConcatProperties
<1>4. l5 \o <<s>> \in Seq(S) /\ Len(l5 \o <<s>>) = Len(l5) + Len(<<s>>)
  BY <1>1, ConcatProperties
<1>5. Len(l5) \in Nat /\ Len(<<s>>) = 1
  BY LenProperties
<1>6. HelloList(p, a, q, b, c, r, s) = l5 \o <<s>>
  BY <1>2, <1>3 DEF HelloList
<1> QED BY <1>4, <1>5, <1>6

PartNames == {"cipher suites", "cipher suite", "random", "legacy", "framing"}
Entries(E) == Subjects(E) \cup {Part(name) : name \in PartNames}

LEMMA PartsAreEntries ==
  ASSUME NEW E, NEW name \in PartNames
  PROVE  /\ Part(name) \in Entries(E) /\ Part(name)[1] = name
         /\ \A e \in E : Part(name) # OfExtension(e)
<1>1. Part(name)[1] = name /\ name # "extension"
  BY DEF Part, PartNames
<1>2. \A e \in E : OfExtension(e)[1] = "extension"
  BY DEF OfExtension
<1> QED BY <1>1, <1>2 DEF Entries

\* The sections of a decoded hello.
ShownFor(k, es) ==
  IF k = "ClientHello"
  THEN HelloList(Part("cipher suites"), Pinned(es, <<51, 43, 13, 10, 45, 41, 42>>),
                 Part("random"), Pinned(es, <<0, 16>>), Others(es), Part("legacy"), Part("framing"))
  ELSE HelloList(Part("cipher suite"), Pinned(es, <<51, 43>>),
                 Part("random"), Pinned(es, <<41>>), Others(es), Part("legacy"), Part("framing"))

LEMMA ShownIs ==
  ASSUME NEW d, d.kind \in Kinds
  PROVE  SectionsFor(d) = ShownFor(d.kind, d.hello.extensions)
<1>1. CASE d.kind = "ClientHello"
  BY <1>1 DEF SectionsFor, ShownFor, ClientHelloSections, HelloList
<1>2. CASE d.kind # "ClientHello"
  <2>1. d.kind \in {"ServerHello", "HelloRetryRequest"}
    BY <1>2 DEF Kinds
  <2> QED BY <1>2, <2>1 DEF SectionsFor, ShownFor, ServerHelloSections, HelloList
<1> QED BY <1>1, <1>2

LEMMA ShownIsList ==
  ASSUME NEW E, NEW es \in Seq(E), Distinct(es), NEW k
  PROVE  ShownFor(k, es) \in Seq(Entries(E)) /\ Len(ShownFor(k, es)) \in Nat \ {0}
<1>1. \A types \in Seq(Nat) : Pinned(es, types) \in Seq(Entries(E))
  <2> SUFFICES ASSUME NEW types \in Seq(Nat) PROVE Pinned(es, types) \in Seq(Entries(E))
    OBVIOUS
  <2>1. Pinned(es, types) \in Seq(Subjects(E)) /\ Subjects(E) \subseteq Entries(E)
    BY PinnedIsList DEF Entries
  <2> QED BY <2>1, SeqMonotonic
<1>2. Others(es) \in Seq(Entries(E))
  <2>1. Others(es) \in Seq(Subjects(E)) /\ Subjects(E) \subseteq Entries(E)
    BY OthersIsList DEF Entries
  <2> QED BY <2>1, SeqMonotonic
<1>3. /\ <<51, 43, 13, 10, 45, 41, 42>> \in Seq(Nat) /\ <<0, 16>> \in Seq(Nat)
      /\ <<51, 43>> \in Seq(Nat) /\ <<41>> \in Seq(Nat)
  OBVIOUS
<1>4. /\ Part("cipher suites") \in Entries(E) /\ Part("cipher suite") \in Entries(E)
      /\ Part("random") \in Entries(E) /\ Part("legacy") \in Entries(E)
      /\ Part("framing") \in Entries(E)
  BY PartsAreEntries DEF PartNames
<1> DEFINE pc == Pinned(es, <<51, 43, 13, 10, 45, 41, 42>>)
           ps == Pinned(es, <<51, 43>>)
           qc == Pinned(es, <<0, 16>>)
           qs == Pinned(es, <<41>>)
<1>5. pc \in Seq(Entries(E)) /\ ps \in Seq(Entries(E)) /\ qc \in Seq(Entries(E)) /\ qs \in Seq(Entries(E))
  BY <1>1, <1>3
<1>6. ShownFor(k, es) =
        IF k = "ClientHello"
        THEN HelloList(Part("cipher suites"), pc, Part("random"), qc, Others(es), Part("legacy"), Part("framing"))
        ELSE HelloList(Part("cipher suite"), ps, Part("random"), qs, Others(es), Part("legacy"), Part("framing"))
  BY DEF ShownFor
<1> HIDE DEF pc, ps, qc, qs
<1>7. PICK o \in Seq(Entries(E)) : o = Others(es)
  BY <1>2
<1>8. CASE k = "ClientHello"
  <2> DEFINE l == HelloList(Part("cipher suites"), pc, Part("random"), qc, o, Part("legacy"), Part("framing"))
  <2>1. ShownFor(k, es) = l
    BY <1>6, <1>7, <1>8
  <2>2. l \in Seq(Entries(E)) /\ Len(l) \in Nat \ {0}
    BY <1>4, <1>5, HelloListIsList
  <2> HIDE DEF l
  <2> QED BY <2>1, <2>2
<1>9. CASE k # "ClientHello"
  <2> DEFINE l == HelloList(Part("cipher suite"), ps, Part("random"), qs, o, Part("legacy"), Part("framing"))
  <2>1. ShownFor(k, es) = l
    BY <1>6, <1>7, <1>9
  <2>2. l \in Seq(Entries(E)) /\ Len(l) \in Nat \ {0}
    BY <1>4, <1>5, HelloListIsList
  <2> HIDE DEF l
  <2> QED BY <2>1, <2>2
<1> QED BY <1>8, <1>9

\* Two types pinned.
LEMMA TwoPinned ==
  ASSUME NEW E, NEW es \in Seq(E), Distinct(es), NEW k \in DOMAIN es,
         NEW v \in Nat, NEW w \in Nat, v # w
  PROVE  /\ Pinned(es, <<v, w>>) \in Seq(Subjects(E))
         /\ es[k].ext_type \in {v, w} => Once(OfExtension(es[k]), Pinned(es, <<v, w>>))
         /\ es[k].ext_type \notin {v, w} => Never(OfExtension(es[k]), Pinned(es, <<v, w>>))
<1>1. PICK types \in Seq(Nat) : types = <<v, w>>
  <2>1. <<v, w>> \in Seq(Nat)
    OBVIOUS
  <2> QED BY <2>1
<1>2. Len(types) = 2 /\ types[1] = v /\ types[2] = w
  BY <1>1
<1>3. \A i \in 1..Len(types) : i = 1 \/ i = 2
  BY <1>2
<1>4. \A i, j \in 1..Len(types) : types[i] = types[j] => i = j
  BY <1>2, <1>3
<1>5. (\E i \in 1..Len(types) : types[i] = es[k].ext_type) <=> es[k].ext_type \in {v, w}
  BY <1>2, <1>3
<1>6. /\ Pinned(es, types) \in Seq(Subjects(E))
      /\ (\E i \in 1..Len(types) : types[i] = es[k].ext_type) =>
           Once(OfExtension(es[k]), Pinned(es, types))
      /\ (\A i \in 1..Len(types) : types[i] # es[k].ext_type) =>
           Never(OfExtension(es[k]), Pinned(es, types))
  BY <1>4, PinnedPlaces
<1> QED BY <1>1, <1>5, <1>6

\* Every extension once, unless it is of a type a server's hello leaves out.
LEMMA ShownPlaces ==
  ASSUME NEW E, NEW es \in Seq(E), Distinct(es), NEW k, NEW i \in DOMAIN es
  PROVE  IF k # "ClientHello" /\ es[i].ext_type \in ClientOnly
         THEN Never(OfExtension(es[i]), ShownFor(k, es))
         ELSE Once(OfExtension(es[i]), ShownFor(k, es))
<1> DEFINE pc == Pinned(es, <<51, 43, 13, 10, 45, 41, 42>>)
           ps == Pinned(es, <<51, 43>>)
           qc == Pinned(es, <<0, 16>>)
           qs == Pinned(es, <<41>>)
           x == OfExtension(es[i])
<1>1. PICK t : t = es[i].ext_type
  OBVIOUS
<1>2. /\ pc \in Seq(Subjects(E))
      /\ t \in {51, 43, 13, 10, 45, 41, 42} => Once(x, pc)
      /\ t \notin {51, 43, 13, 10, 45, 41, 42} => Never(x, pc)
  <2> DEFINE types == <<51, 43, 13, 10, 45, 41, 42>>
  <2>1. types \in Seq(Nat) /\ Len(types) = 7
    OBVIOUS
  <2>2. /\ types[1] = 51 /\ types[2] = 43 /\ types[3] = 13 /\ types[4] = 10 /\ types[5] = 45
        /\ types[6] = 41 /\ types[7] = 42
    OBVIOUS
  <2>3. ASSUME NEW a \in 1..7, NEW b \in 1..7, types[a] = types[b] PROVE a = b
    <3> HIDE DEF types
    <3>1. b = 1 \/ b = 2 \/ b = 3 \/ b = 4 \/ b = 5 \/ b = 6 \/ b = 7
      OBVIOUS
    <3>2. CASE a = 1
      BY <2>2, <2>3, <3>1, <3>2
    <3>3. CASE a = 2
      BY <2>2, <2>3, <3>1, <3>3, SMTT(30)
    <3>4. CASE a = 3
      BY <2>2, <2>3, <3>1, <3>4
    <3>5. CASE a = 4
      BY <2>2, <2>3, <3>1, <3>5
    <3>6. CASE a = 5
      BY <2>2, <2>3, <3>1, <3>6
    <3>7. CASE a = 6
      BY <2>2, <2>3, <3>1, <3>7
    <3>8. CASE a = 7
      BY <2>2, <2>3, <3>1, <3>8
    <3> QED BY <3>2, <3>3, <3>4, <3>5, <3>6, <3>7, <3>8
  <2>4. (\E a \in 1..7 : types[a] = t) <=> t \in {51, 43, 13, 10, 45, 41, 42}
    <3> HIDE DEF types
    <3> QED BY <2>2
  <2>5. /\ Pinned(es, types) \in Seq(Subjects(E))
        /\ (\E a \in 1..7 : types[a] = es[i].ext_type) => Once(OfExtension(es[i]), Pinned(es, types))
        /\ (\A a \in 1..7 : types[a] # es[i].ext_type) => Never(OfExtension(es[i]), Pinned(es, types))
    <3> HIDE DEF types
    <3> QED BY <2>1, <2>3, PinnedPlaces
  <2> QED BY <1>1, <2>4, <2>5
<1>3. /\ ps \in Seq(Subjects(E))
      /\ t \in {51, 43} => Once(x, ps)
      /\ t \notin {51, 43} => Never(x, ps)
  <2>1. PICK a \in Nat, b \in Nat : a = 51 /\ b = 43 /\ a # b
    OBVIOUS
  <2>2. /\ Pinned(es, <<a, b>>) \in Seq(Subjects(E))
        /\ es[i].ext_type \in {a, b} => Once(OfExtension(es[i]), Pinned(es, <<a, b>>))
        /\ es[i].ext_type \notin {a, b} => Never(OfExtension(es[i]), Pinned(es, <<a, b>>))
    BY <2>1, TwoPinned
  <2> QED BY <1>1, <2>1, <2>2
<1>4. /\ qc \in Seq(Subjects(E))
      /\ t \in {0, 16} => Once(x, qc)
      /\ t \notin {0, 16} => Never(x, qc)
  <2>1. PICK a \in Nat, b \in Nat : a = 0 /\ b = 16 /\ a # b
    OBVIOUS
  <2>2. /\ Pinned(es, <<a, b>>) \in Seq(Subjects(E))
        /\ es[i].ext_type \in {a, b} => Once(OfExtension(es[i]), Pinned(es, <<a, b>>))
        /\ es[i].ext_type \notin {a, b} => Never(OfExtension(es[i]), Pinned(es, <<a, b>>))
    BY <2>1, TwoPinned
  <2> QED BY <1>1, <2>1, <2>2
<1>5. /\ qs \in Seq(Subjects(E))
      /\ t = 41 => Once(x, qs)
      /\ t # 41 => Never(x, qs)
  <2> DEFINE types == <<41>>
  <2>1. types \in Seq(Nat) /\ Len(types) = 1 /\ types[1] = 41
    OBVIOUS
  <2>2. \A a, b \in 1..1 : types[a] = types[b] => a = b
    OBVIOUS
  <2>3. (\E a \in 1..1 : types[a] = t) <=> t = 41
    <3> HIDE DEF types
    <3> QED BY <2>1
  <2>4. /\ Pinned(es, types) \in Seq(Subjects(E))
        /\ (\E a \in 1..1 : types[a] = es[i].ext_type) => Once(OfExtension(es[i]), Pinned(es, types))
        /\ (\A a \in 1..1 : types[a] # es[i].ext_type) => Never(OfExtension(es[i]), Pinned(es, types))
    <3> HIDE DEF types
    <3> QED BY <2>1, <2>2, PinnedPlaces, SMTT(20)
  <2> QED BY <1>1, <2>3, <2>4
<1>6. /\ Others(es) \in Seq(Subjects(E))
      /\ t \notin PROMOTED_EXTENSIONS => Once(x, Others(es))
      /\ t \in PROMOTED_EXTENSIONS => Never(x, Others(es))
  BY <1>1, OthersPlaces
<1>7. es[i] \in E
  BY LenProperties, ElementOfSeq
<1>8. /\ Part("cipher suites") \in Entries(E) /\ Part("cipher suites") # x
      /\ Part("cipher suite") \in Entries(E) /\ Part("cipher suite") # x
      /\ Part("random") \in Entries(E) /\ Part("random") # x
      /\ Part("legacy") \in Entries(E) /\ Part("legacy") # x
      /\ Part("framing") \in Entries(E) /\ Part("framing") # x
  BY <1>7, PartsAreEntries DEF PartNames
<1>9. ShownFor(k, es) =
        IF k = "ClientHello"
        THEN HelloList(Part("cipher suites"), pc, Part("random"), qc, Others(es), Part("legacy"), Part("framing"))
        ELSE HelloList(Part("cipher suite"), ps, Part("random"), qs, Others(es), Part("legacy"), Part("framing"))
  BY DEF ShownFor
<1> HIDE DEF pc, ps, qc, qs, x
<1>10. PICK o \in Seq(Entries(E)) : o = Others(es)
  <2>1. Subjects(E) \subseteq Entries(E)
    BY DEF Entries
  <2> QED BY <1>6, <2>1, SeqMonotonic
<1>11. pc \in Seq(Entries(E)) /\ ps \in Seq(Entries(E)) /\ qc \in Seq(Entries(E)) /\ qs \in Seq(Entries(E))
  <2>1. Subjects(E) \subseteq Entries(E)
    BY DEF Entries
  <2> QED BY <1>2, <1>3, <1>4, <1>5, <2>1, SeqMonotonic
<1>12. CASE k = "ClientHello"
  <2> DEFINE l == HelloList(Part("cipher suites"), pc, Part("random"), qc, o, Part("legacy"), Part("framing"))
  <2>1. /\ Once(x, pc) /\ Never(x, qc) /\ Never(x, o) => Once(x, l)
        /\ Never(x, pc) /\ Once(x, qc) /\ Never(x, o) => Once(x, l)
        /\ Never(x, pc) /\ Never(x, qc) /\ Once(x, o) => Once(x, l)
    BY <1>8, <1>11, HelloListPlaces
  <2> HIDE DEF l
  <2>2. ASSUME t \in {51, 43, 13, 10, 45, 41, 42} PROVE Once(x, l)
    BY <1>2, <1>4, <1>6, <1>10, <2>1, <2>2 DEF PROMOTED_EXTENSIONS
  <2>3. ASSUME t \in {0, 16} PROVE Once(x, l)
    BY <1>2, <1>4, <1>6, <1>10, <2>1, <2>3 DEF PROMOTED_EXTENSIONS
  <2>4. ASSUME t \notin {51, 43, 13, 10, 45, 41, 42} \cup {0, 16} PROVE Once(x, l)
    BY <1>2, <1>4, <1>6, <1>10, <2>1, <2>4 DEF PROMOTED_EXTENSIONS
  <2>5. Once(x, l)
    BY <2>2, <2>3, <2>4
  <2> QED BY <1>9, <1>10, <1>12, <2>5 DEF l, x
<1>13. CASE k # "ClientHello"
  <2> DEFINE l == HelloList(Part("cipher suite"), ps, Part("random"), qs, o, Part("legacy"), Part("framing"))
  <2>1. /\ Once(x, ps) /\ Never(x, qs) /\ Never(x, o) => Once(x, l)
        /\ Never(x, ps) /\ Once(x, qs) /\ Never(x, o) => Once(x, l)
        /\ Never(x, ps) /\ Never(x, qs) /\ Once(x, o) => Once(x, l)
        /\ Never(x, ps) /\ Never(x, qs) /\ Never(x, o) => Never(x, l)
    BY <1>8, <1>11, HelloListPlaces
  <2> HIDE DEF l
  <2>2. ASSUME t \in {51, 43} PROVE Once(x, l)
    BY <1>3, <1>5, <1>6, <1>10, <2>1, <2>2 DEF PROMOTED_EXTENSIONS, ClientOnly
  <2>3. ASSUME t = 41 PROVE Once(x, l)
    BY <1>3, <1>5, <1>6, <1>10, <2>1, <2>3 DEF PROMOTED_EXTENSIONS, ClientOnly
  <2>4. ASSUME t \in ClientOnly PROVE Never(x, l)
    BY <1>3, <1>5, <1>6, <1>10, <2>1, <2>4 DEF PROMOTED_EXTENSIONS, ClientOnly
  <2>5. ASSUME t \notin PROMOTED_EXTENSIONS PROVE Once(x, l)
    BY <1>3, <1>5, <1>6, <1>10, <2>1, <2>5 DEF PROMOTED_EXTENSIONS, ClientOnly
  <2>6. IF t \in ClientOnly THEN Never(x, l) ELSE Once(x, l)
    <3>1. t \in {51, 43} \/ t = 41 \/ t \in ClientOnly \/ t \notin PROMOTED_EXTENSIONS
      BY DEF PROMOTED_EXTENSIONS, ClientOnly
    <3>2. t \in {51, 43} => t \notin ClientOnly
      BY DEF ClientOnly
    <3>3. t = 41 => t \notin ClientOnly
      BY DEF ClientOnly
    <3>4. t \notin PROMOTED_EXTENSIONS => t \notin ClientOnly
      BY DEF PROMOTED_EXTENSIONS, ClientOnly
    <3> QED BY <2>2, <2>3, <2>4, <2>5, <3>1, <3>2, <3>3, <3>4
  <2> QED BY <1>1, <1>9, <1>10, <1>13, <2>6 DEF l, x
<1> QED BY <1>12, <1>13, <1>1

-----------------------------------------------------------------------------
(* The lines of a key share.                                               *)

LEMMA TextIsBytes == Text \in Bytes /\ << >> \in Seq(Bytes)
BY DEF Text, Bytes

LEMMA OneLine ==
  ASSUME NEW a \in Bytes
  PROVE  <<a>> \in Seq(Bytes) /\ FlattenSeq(<<a>>) = a
<1>1. /\ << >> \in Seq(Bytes) /\ <<a>> \in Seq(Bytes) /\ <<a>> \o << >> = <<a>>
      /\ a \o << >> = a
  <2>1. << >> \in Seq(Bytes) /\ <<a>> \in Seq(Bytes)
    BY TextIsBytes
  <2> QED BY <2>1, ConcatEmptySeq DEF Bytes
<1> QED BY <1>1, FlattenCons

LEMMA LineInFront ==
  ASSUME NEW a \in Bytes, NEW q \in Seq(Bytes)
  PROVE  <<a>> \o q \in Seq(Bytes) /\ FlattenSeq(<<a>> \o q) = a \o FlattenSeq(q)
<1>1. <<a>> \in Seq(Bytes)
  BY OneLine
<1> QED BY <1>1, FlattenCons, ConcatProperties

LEMMA TextInFront ==
  ASSUME NEW q \in Seq(Bytes)
  PROVE  <<Text>> \o q \in Seq(Bytes) /\ FlattenSeq(<<Text>> \o q) = FlattenSeq(q)
<1>1. PICK s \in Bytes : s = FlattenSeq(q)
  BY TextIsBytes, FlattenCons
<1>2. Text \o s = s
  BY ConcatEmptySeq DEF Text, Bytes
<1> QED BY <1>1, <1>2, TextIsBytes, LineInFront

LEMMA LinesOneByOne ==
  ASSUME NEW a, NEW b, NEW c, NEW d
  PROVE  /\ <<a, b>> = <<a>> \o <<b>>
         /\ <<a, b, c>> = <<a>> \o <<b, c>>
         /\ <<a, b, c, d>> = <<a>> \o <<b, c, d>>
<1> DEFINE S == {a, b, c, d}
<1>1. a \in S /\ b \in S /\ c \in S /\ d \in S
  OBVIOUS
<1> HIDE DEF S
<1>2. <<a, b>> = <<a>> \o <<b>>
  <2>1. <<a, b>> \in Seq(S) /\ <<a, b>> # << >> /\ <<a, b>>[1] = a /\ Tail(<<a, b>>) = <<b>>
    BY <1>1
  <2>2. <<a, b>> = <<<<a, b>>[1]>> \o Tail(<<a, b>>)
    BY <2>1, HeadAndTail
  <2> QED BY <2>1, <2>2
<1>3. <<a, b, c>> = <<a>> \o <<b, c>>
  <2>1. /\ <<a, b, c>> \in Seq(S) /\ <<a, b, c>> # << >> /\ <<a, b, c>>[1] = a
        /\ Tail(<<a, b, c>>) = <<b, c>>
    BY <1>1
  <2>2. <<a, b, c>> = <<<<a, b, c>>[1]>> \o Tail(<<a, b, c>>)
    BY <2>1, HeadAndTail
  <2> QED BY <2>1, <2>2
<1>4. <<a, b, c, d>> = <<a>> \o <<b, c, d>>
  <2>1. /\ <<a, b, c, d>> \in Seq(S) /\ <<a, b, c, d>> # << >> /\ <<a, b, c, d>>[1] = a
        /\ Tail(<<a, b, c, d>>) = <<b, c, d>>
    BY <1>1
  <2>2. <<a, b, c, d>> = <<<<a, b, c, d>>[1]>> \o Tail(<<a, b, c, d>>)
    BY <2>1, HeadAndTail
  <2> QED BY <2>1, <2>2
<1> QED BY <1>2, <1>3, <1>4

LEMMA TwoLines ==
  ASSUME NEW a \in Bytes, NEW b \in Bytes
  PROVE  <<a, b>> \in Seq(Bytes) /\ FlattenSeq(<<a, b>>) = a \o b
<1>1. <<b>> \in Seq(Bytes) /\ FlattenSeq(<<b>>) = b
  BY OneLine
<1>2. <<a, b>> = <<a>> \o <<b>>
  BY LinesOneByOne
<1> QED BY <1>1, <1>2, LineInFront

LEMMA ThreeLines ==
  ASSUME NEW a \in Bytes, NEW b \in Bytes, NEW c \in Bytes
  PROVE  <<a, b, c>> \in Seq(Bytes) /\ FlattenSeq(<<a, b, c>>) = a \o (b \o c)
<1>1. <<b, c>> \in Seq(Bytes) /\ FlattenSeq(<<b, c>>) = b \o c
  BY TwoLines
<1>2. <<a, b, c>> = <<a>> \o <<b, c>>
  BY LinesOneByOne
<1> QED BY <1>1, <1>2, LineInFront

\* A piece of a key, whatever its ends.
LEMMA PieceOfKey ==
  ASSUME NEW key \in Bytes, NEW n \in 0..Len(key)
  PROVE  /\ SubSeq(key, 1, n) \in Bytes /\ Drop(key, n) \in Bytes
         /\ Len(SubSeq(key, 1, n)) = n /\ Len(Drop(key, n)) = Len(key) - n
         /\ SubSeq(key, 1, n) \o Drop(key, n) = key
<1>1. key \in Seq(0..255) /\ Len(key) \in Nat
  BY LenProperties DEF Bytes
<1>2. Drop(key, n) \in Seq(0..255) /\ Len(Drop(key, n)) = Len(key) - n
  BY <1>1, DropProperties
<1>3. SubSeq(key, 1, n) \in Seq(0..255) /\ Len(SubSeq(key, 1, n)) = n
  <2>1. 0 \in Nat /\ 0 <= n /\ 0 + 1 = 1 /\ n - 0 = n
    BY <1>1
  <2>2. SubSeq(key, 0 + 1, n) \in Seq(0..255) /\ Len(SubSeq(key, 0 + 1, n)) = n - 0
    BY <1>1, <2>1, SliceProperties, ZenonT(40)
  <2> QED BY <2>1, <2>2
<1>4. key = SubSeq(key, 1, n) \o Drop(key, n)
  BY <1>1, SplitAt
<1> QED BY <1>2, <1>3, <1>4 DEF Bytes

LEMMA PlainShown ==
  ASSUME NEW key \in Bytes, NEW size
  PROVE  PlainLines(key, size) \in Seq(Bytes) /\ FlattenSeq(PlainLines(key, size)) = key
<1> DEFINE last == IF Len(key) = size THEN <<key>> ELSE <<Text, key>>
<1>1. last \in Seq(Bytes) /\ FlattenSeq(last) = key
  <2>1. CASE Len(key) = size
    BY <2>1, OneLine
  <2>2. CASE Len(key) # size
    <3>1. <<key>> \in Seq(Bytes) /\ FlattenSeq(<<key>>) = key /\ <<Text, key>> = <<Text>> \o <<key>>
      BY OneLine, LinesOneByOne
    <3> QED BY <2>2, <3>1, TextInFront
  <2> QED BY <2>1, <2>2
<1>2. PlainLines(key, size) = <<Text>> \o (<<Text>> \o last)
  <2>1. PlainLines(key, size) = <<Text, Text>> \o last
    BY DEF PlainLines
  <2>2. <<Text>> \in Seq(Bytes) /\ <<Text, Text>> = <<Text>> \o <<Text>>
    BY TextIsBytes, OneLine, LinesOneByOne
  <2> HIDE DEF last
  <2> QED BY <1>1, <2>1, <2>2, ConcatAssociative
<1> HIDE DEF last
<1>3. <<Text>> \o last \in Seq(Bytes) /\ FlattenSeq(<<Text>> \o last) = key
  BY <1>1, TextInFront
<1> QED BY <1>2, <1>3, TextInFront

LEMMA PointShown ==
  ASSUME NEW key \in Bytes, NEW size \in Nat \ {0}
  PROVE  PointLines(key, size) \in Seq(Bytes) /\ FlattenSeq(PointLines(key, size)) = key
<1> DEFINE last == CASE Len(key) = 1 + 2 * size /\ key[1] = 4 ->
                          <<Text, <<4>>, SubSeq(key, 2, 1 + size), Drop(key, 1 + size)>>
                     [] Len(key) = 1 + size /\ key[1] \in {2, 3} -> <<SubSeq(key, 1, 1), Drop(key, 1)>>
                     [] OTHER -> <<Text, key>>
<1>1. PICK n \in Nat : n = Len(key)
  BY LenProperties DEF Bytes
<1>2. CASE n = 1 + 2 * size /\ key[1] = 4
  <2> DEFINE x == SubSeq(key, 2, 1 + size)
             y == Drop(key, 1 + size)
  <2>1. last = <<Text, <<4>>, x, y>>
    BY <1>1, <1>2
  <2>2. 1 \in 0..Len(key) /\ 1 + size \in 0..Len(key) /\ size \in 0..Len(key) - 1
    BY <1>1, <1>2
  <2>3. PICK t \in Bytes : t = Drop(key, 1)
    BY <2>2, PieceOfKey
  <2>4. <<4>> \in Bytes /\ key = <<4>> \o t
    <3>1. PICK a \in Bytes : a = SubSeq(key, 1, 1) /\ Len(a) = 1
      BY <2>2, PieceOfKey
    <3>2. SubSeq(key, 1, 1) = <<key[1]>>
      <4>1. key \in Seq(0..255) /\ a \in Seq(0..255) /\ \A i \in 1..1 : key[i] \in 0..255
        BY <1>1, <1>2, ElementOfSeq DEF Bytes
      <4>2. SubSeq(key, 1, 1)[1] = key[1 + 1 - 1]
        BY <4>1, SubSeqProperties
      <4>3. a[1] = key[1] /\ 1 + 1 - 1 = 1
        BY <3>1, <4>2
      <4>4. PICK S : S = 0..255
        OBVIOUS
      <4>5. key[1] \in S /\ a \in Seq(S)
        BY <1>1, <1>2, <4>1, <4>4
      <4>6. <<key[1]>> \in Seq(S) /\ Len(<<key[1]>>) = 1 /\ <<key[1]>>[1] = key[1]
        BY <4>5
      <4>7. \A i \in 1..Len(a) : a[i] = <<key[1]>>[i]
        BY <3>1, <4>3, <4>6
      <4>8. a = <<key[1]>>
        BY <3>1, <4>5, <4>6, <4>7, SeqEqual
      <4> QED BY <3>1, <4>8
    <3>3. SubSeq(key, 1, 1) \in Bytes /\ SubSeq(key, 1, 1) \o Drop(key, 1) = key
      BY <2>2, PieceOfKey
    <3> QED BY <1>2, <2>3, <3>2, <3>3
  <2>5. Len(t) = n - 1 /\ size \in 0..Len(t)
    BY <1>1, <1>2, <2>2, <2>3, PieceOfKey, ZenonT(40)
  <2>6. SubSeq(t, 1, size) \in Bytes /\ Drop(t, size) \in Bytes
        /\ SubSeq(t, 1, size) \o Drop(t, size) = t
    BY <2>5, PieceOfKey
  <2>7. x = SubSeq(t, 1, size)
    <3>1. key \in Seq(0..255)
      BY DEF Bytes
    <3>2. PICK p \in Nat, m \in Nat : p = 1 /\ m = 0
      OBVIOUS
    <3>3. m <= size /\ p + size <= Len(key)
      BY <1>1, <1>2, <3>2
    <3>4. SubSeq(Drop(key, p), m + 1, size) = SubSeq(key, (p + m) + 1, p + size)
      BY <3>3, SliceOfDrop
    <3>5. m + 1 = 1 /\ (p + m) + 1 = 2
      BY <3>2
    <3> QED BY <2>3, <3>2, <3>4, <3>5
  <2>8. y = Drop(t, size)
    <3>1. key \in Seq(0..255)
      BY DEF Bytes
    <3> QED BY <2>2, <2>3, <3>1, DropDrop
  <2> HIDE DEF x, y
  <2>9. x \in Bytes /\ y \in Bytes /\ x \o y = t
    BY <2>6, <2>7, <2>8
  <2>10. <<<<4>>, x, y>> \in Seq(Bytes) /\ FlattenSeq(<<<<4>>, x, y>>) = key
    BY <2>4, <2>9, ThreeLines, ZenonT(40)
  <2>11. PointLines(key, size) = <<Text>> \o (<<Text>> \o <<<<4>>, x, y>>)
    <3>1. PointLines(key, size) = <<Text>> \o last
      BY DEF PointLines
    <3>2. <<Text, <<4>>, x, y>> = <<Text>> \o <<<<4>>, x, y>>
      BY LinesOneByOne
    <3> HIDE DEF last
    <3> QED BY <2>1, <3>1, <3>2
  <2>12. <<Text>> \o <<<<4>>, x, y>> \in Seq(Bytes) /\ FlattenSeq(<<Text>> \o <<<<4>>, x, y>>) = key
    BY <2>10, TextInFront
  <2> QED BY <2>11, <2>12, TextInFront
<1>3. CASE n = 1 + size /\ key[1] \in {2, 3}
  <2>1. 1 \in 0..Len(key)
    BY <1>1, <1>3
  <2>2. PICK a \in Bytes, b \in Bytes : a = SubSeq(key, 1, 1) /\ b = Drop(key, 1)
    BY <2>1, PieceOfKey
  <2>3. a \o b = key
    BY <2>1, <2>2, PieceOfKey
  <2>4. ~(n = 1 + 2 * size /\ key[1] = 4)
    BY <1>3
  <2>5. PointLines(key, size) = <<Text>> \o <<a, b>>
    BY <1>1, <1>3, <2>2, <2>4 DEF PointLines
  <2>6. <<a, b>> \in Seq(Bytes) /\ FlattenSeq(<<a, b>>) = key
    BY <2>3, TwoLines
  <2> QED BY <2>5, <2>6, TextInFront
<1>4. CASE ~(n = 1 + 2 * size /\ key[1] = 4) /\ ~(n = 1 + size /\ key[1] \in {2, 3})
  <2>1. PointLines(key, size) = <<Text>> \o <<Text, key>>
    BY <1>1, <1>4 DEF PointLines
  <2>2. <<Text, key>> \in Seq(Bytes) /\ FlattenSeq(<<Text, key>>) = key
    <3>1. <<key>> \in Seq(Bytes) /\ FlattenSeq(<<key>>) = key /\ <<Text, key>> = <<Text>> \o <<key>>
      BY OneLine, LinesOneByOne
    <3> QED BY <3>1, TextInFront
  <2> QED BY <2>1, <2>2, TextInFront
<1> QED BY <1>2, <1>3, <1>4

LEMMA SizesAre ==
  /\ DOMAIN PlainSize = {29, 30, 256, 257, 258} /\ DOMAIN CoordSize = {23, 24, 25}
  /\ DOMAIN HybridSizes = {4587, 4588, 25497}
  /\ \A g \in {23, 24, 25} : CoordSize[g] \in Nat \ {0}
  /\ \A g \in {4587, 4588, 25497} : HybridSizes[g][1] \in {32, 65} /\ HybridSizes[g][2] = 1184
<1>1. \A g \in {23, 24, 25} : CoordSize[g] \in {32, 48, 66}
  BY DEF CoordSize
<1>2. \A g \in {4587, 4588, 25497} : HybridSizes[g][1] \in {32, 65} /\ HybridSizes[g][2] = 1184
  BY DEF HybridSizes
<1> QED BY <1>1, <1>2 DEF PlainSize, CoordSize, HybridSizes

LEMMA HybridIsLines ==
  ASSUME NEW key \in Bytes, NEW classical \in Nat, NEW pq \in Nat, pq > 32
  PROVE  HybridLines(key, classical, pq) \in Seq(Bytes)
<1>1. PICK n \in Nat : n = Len(key)
  BY LenProperties DEF Bytes
<1>2. <<Text, Text, Text>> \in Seq(Bytes)
  BY TextIsBytes, ThreeLines
<1>3. CASE n = classical + pq
  <2>1. classical \in 0..Len(key)
    BY <1>1, <1>3
  <2>2. PICK a \in Bytes, b \in Bytes : a = SubSeq(key, 1, classical) /\ b = Drop(key, classical)
    BY <2>1, PieceOfKey
  <2>3. Len(b) = pq
    <3>1. Len(Drop(key, classical)) = Len(key) - classical
      BY <2>1, PieceOfKey
    <3>2. Len(b) = n - classical
      BY <1>1, <2>2, <3>1
    <3> QED BY <1>3, <3>2
  <2>4. Preview(b) \in Bytes
    <3>1. 16 \in 0..Len(b) /\ Len(b) - 16 \in 0..Len(b) /\ ~(Len(b) <= 32)
      BY <2>3
    <3>2. SubSeq(b, 1, 16) \in Bytes /\ Drop(b, Len(b) - 16) \in Bytes
      BY <3>1, PieceOfKey
    <3>3. Preview(b) = SubSeq(b, 1, 16) \o Drop(b, Len(b) - 16)
      BY <3>1 DEF Preview
    <3> QED BY <3>2, <3>3, BytesConcat
  <2>5. HybridLines(key, classical, pq) = <<Text, Text, Text>> \o <<a, Preview(b)>>
    BY <1>1, <1>3, <2>2 DEF HybridLines
  <2>6. <<a, Preview(b)>> \in Seq(Bytes)
    BY <2>4, TwoLines
  <2> QED BY <1>2, <2>5, <2>6, ConcatProperties
<1>4. CASE n # classical + pq
  <2> DEFINE m == IF Len(key) < 48 THEN Len(key) ELSE 48
  <2>1. m \in 0..Len(key)
    BY <1>1
  <2> HIDE DEF m
  <2>2. PICK a \in Bytes : a = SubSeq(key, 1, m)
    BY <2>1, PieceOfKey
  <2>3. HybridLines(key, classical, pq) = <<Text, Text, Text>> \o <<Text, a>>
    BY <1>1, <1>4, <2>2 DEF HybridLines, m
  <2>4. <<Text, a>> \in Seq(Bytes)
    BY TextIsBytes, TwoLines
  <2> QED BY <1>2, <2>3, <2>4, ConcatProperties
<1> QED BY <1>3, <1>4

LEMMA KeyIsShown ==
  ASSUME NEW share, share.code \in Nat, share.data \in Bytes
  PROVE  KeyLines(share) \in Seq(Bytes) /\ KeyShown(share)
<1>1. PICK group \in Nat, key \in Bytes : group = share.code /\ key = share.data
  OBVIOUS
<1>2. CASE group \in {29, 30, 256, 257, 258}
  <2>1. KeyLines(share) = PlainLines(key, PlainSize[group])
    BY <1>1, <1>2, SizesAre DEF KeyLines
  <2> QED BY <1>1, <2>1, PlainShown DEF KeyShown
<1>3. CASE group \in {23, 24, 25}
  <2>1. KeyLines(share) = PointLines(key, CoordSize[group])
    BY <1>1, <1>3, SizesAre DEF KeyLines
  <2>2. CoordSize[group] \in Nat \ {0}
    BY <1>3, SizesAre
  <2> QED BY <1>1, <2>1, <2>2, PointShown DEF KeyShown
<1>4. CASE group \in {4587, 4588, 25497}
  <2>1. KeyLines(share) = HybridLines(key, HybridSizes[group][1], HybridSizes[group][2])
    BY <1>1, <1>4, SizesAre DEF KeyLines
  <2>2. PICK classical \in Nat, pq \in Nat :
          classical = HybridSizes[group][1] /\ pq = HybridSizes[group][2] /\ pq > 32
    BY <1>4, SizesAre
  <2>3. HybridLines(key, classical, pq) \in Seq(Bytes)
    BY <2>2, HybridIsLines
  <2>4. share.code \in DOMAIN HybridSizes
    BY <1>1, <1>4, SizesAre
  <2> QED BY <2>1, <2>2, <2>3, <2>4 DEF KeyShown
<1>5. CASE group \notin {29, 30, 256, 257, 258} \cup {23, 24, 25} \cup {4587, 4588, 25497}
  <2>1. KeyLines(share) = <<key>>
    BY <1>1, <1>5, SizesAre DEF KeyLines
  <2> QED BY <1>1, <2>1, OneLine DEF KeyShown
<1> QED BY <1>2, <1>3, <1>4, <1>5

-----------------------------------------------------------------------------
(* The rows of a section.                                                  *)

LEMMA ShareIsLines ==
  ASSUME NEW shares, IsList(Shares, shares)
  PROVE  Len(ShareLines(shares)) \in Nat
<1> DEFINE q == [i \in DOMAIN shares |->
                   (IF i = 1 THEN << >> ELSE <<Text>>) \o <<Text>> \o KeyLines(shares[i])]
<1>1. shares \in Seq(EntrySet)
  BY DEF IsList
<1>2. Len(shares) \in Nat /\ DOMAIN shares = 1..Len(shares)
  BY <1>1, LenProperties
<1>3. ASSUME NEW i \in 1..Len(shares) PROVE q[i] \in Seq(Bytes)
  <2>1. shares[i] \in EntrySet
    BY <1>1, ElementOfSeq
  <2>2. PICK lines \in Seq(Bytes) : lines = KeyLines(shares[i])
    BY <2>1, KeyIsShown DEF EntrySet
  <2>3. PICK sep \in Seq(Bytes) : sep = IF i = 1 THEN << >> ELSE <<Text>>
    BY TextIsBytes, OneLine
  <2>4. <<Text>> \in Seq(Bytes)
    BY TextIsBytes, OneLine
  <2>5. (sep \o <<Text>>) \o lines \in Seq(Bytes)
    BY <2>4, ConcatProperties
  <2> QED BY <1>2, <2>2, <2>3, <2>5
<1>4. q \in [1..Len(shares) -> Seq(Bytes)]
  BY <1>2, <1>3
<1>5. q \in Seq(Seq(Bytes))
  BY <1>2, <1>4, ListOfLists
<1>6. ShareLines(shares) = FlattenSeq(q)
  BY DEF ShareLines
<1>7. FlattenSeq(q) \in Seq(Bytes)
  <2> HIDE DEF q
  <2> QED BY <1>5, TextIsBytes, FlattenConsOf
<1> QED BY <1>6, <1>7, LenProperties

LEMMA RowsOfExtension ==
  ASSUME NEW e, Means(e)
  PROVE  ExtensionRows(e.body) \in Nat
<1>1. CASE e.body = Opaque
  <2>1. e.body.form = "Opaque"
    BY <1>1 DEF Opaque
  <2> QED BY <2>1 DEF ExtensionRows
<1>2. CASE e.body # Opaque
  <2>1. PICK form, v : e.body = Body(form, v) /\ Conveys(e.ext_type, form, v, e.raw)
    BY <1>2 DEF Means
  <2>2. e.body.form = form /\ e.body.value = v
    BY <2>1 DEF Body
  <2>3. ASSUME form = "ServerName" PROVE Len(v) \in Nat
    <3>1. IsList(Names, v)
      BY <2>1, <2>3 DEF Conveys, ListOf
    <3> QED BY <3>1, LenProperties DEF IsList
  <2>4. ASSUME form = "KeyShare" PROVE Len(ShareLines(v)) \in Nat
    <3>1. IsList(Shares, v)
      BY <2>1, <2>4 DEF Conveys
    <3> QED BY <3>1, ShareIsLines
  <2>5. ASSUME form = "PreSharedKey" PROVE 1 + Len(v.identities) \in Nat
    <3>1. IsList(Identities, v.identities)
      BY <2>1, <2>5 DEF Conveys, KeysOffered
    <3>2. Len(v.identities) \in Nat
      BY <3>1, LenProperties DEF IsList
    <3> QED BY <3>2
  <2>6. CASE form = "ServerName"
    BY <2>2, <2>3, <2>6 DEF ExtensionRows
  <2>7. CASE form = "KeyShare"
    BY <2>2, <2>4, <2>7 DEF ExtensionRows
  <2>8. CASE form = "PreSharedKey"
    BY <2>2, <2>5, <2>8 DEF ExtensionRows
  <2>9. CASE form \notin {"ServerName", "KeyShare", "PreSharedKey"}
    BY <2>2, <2>9 DEF ExtensionRows
  <2> QED BY <2>6, <2>7, <2>8, <2>9
<1> QED BY <1>1, <1>2

\* Sequences that exist have a length.
LEMMA CutLength ==
  ASSUME NEW s, NEW n \in Nat \ {0}
  PROVE  Len(SubSeq(s, 1, n)) = n
<1> DEFINE S == {s[i] : i \in 1..n}
<1>1. \A i \in 1..n : s[i] \in S
  OBVIOUS
<1> HIDE DEF S
<1>2. Len(SubSeq(s, 1, n)) = IF 1 <= n THEN n - 1 + 1 ELSE 0
  BY <1>1, SubSeqProperties
<1> QED BY <1>2

LEMMA TailLength ==
  ASSUME NEW s, Len(s) \in Nat
  PROVE  Len(Drop(s, 4)) \in Nat
<1> DEFINE l == Len(s)
           S == {s[i] : i \in 5..l}
<1>1. \A i \in 5..l : s[i] \in S
  OBVIOUS
<1>2. Len(SubSeq(s, 5, l)) = IF 5 <= l THEN l - 5 + 1 ELSE 0
  BY <1>1, SubSeqProperties
<1> QED BY <1>2 DEF Drop

\* What is known of a record once it was sent.
WholeInv == HelloInv /\ HelloWholeOrNothing /\ Distinct(exts)

RowsOf(d, list) == \A i \in 1..Len(list) : ValueRows(list[i], d) \in Nat

Listed ==
  /\ DOMAIN Shown = 1..Len(Shown) /\ Len(Shown) \in Nat \ {0}
  /\ RowsOf(decoded, Shown)

LEMMA ShownWhole ==
  ASSUME WholeInv, Complete
  PROVE  /\ exts \in Seq(Offers[kind]) /\ kind \in Kinds /\ Shown = ShownFor(kind, exts)
         /\ Distinct(exts) /\ decoded.hello.cipher_suites = Suites
<1>1. /\ exts \in Seq(Offers[kind]) /\ kind \in Kinds /\ Distinct(exts)
      /\ decoded.kind = kind /\ decoded.hello.extensions = exts
      /\ decoded.hello.cipher_suites = Suites
  BY DEF WholeInv, HelloInv, HelloWholeOrNothing, Complete
<1>2. Shown = ShownFor(decoded.kind, decoded.hello.extensions)
  BY <1>1, ShownIs DEF Shown
<1> QED BY <1>1, <1>2

LEMMA ShownListed ==
  ASSUME WholeInv, payload # << >>
  PROVE  Listed
<1>1. CASE Complete
  <2> DEFINE E == Offers[kind]
  <2>1. /\ exts \in Seq(E) /\ kind \in Kinds /\ Shown = ShownFor(kind, exts) /\ Distinct(exts)
        /\ decoded.hello.cipher_suites = Suites
    BY <1>1, ShownWhole
  <2>2. \A e \in E : Means(e)
    BY <2>1, OffersAssumption
  <2>3. Len(Suites) \in Nat
    BY DEF Suites
  <2> HIDE DEF E
  <2>4. PICK list \in Seq(Entries(E)) : list = Shown /\ Len(list) \in Nat \ {0}
    BY <2>1, ShownIsList
  <2>5. ASSUME NEW x \in Entries(E) PROVE ValueRows(x, decoded) \in Nat
    <3>1. ASSUME NEW e \in E, x = OfExtension(e) PROVE ValueRows(x, decoded) \in Nat
      <4>1. x[1] = "extension" /\ x[2] = e
        BY <3>1, SubjectsAre
      <4>2. ExtensionRows(e.body) \in Nat
        BY <2>2, RowsOfExtension
      <4> QED BY <4>1, <4>2 DEF ValueRows
    <3>2. ASSUME NEW name \in PartNames, x = Part(name) PROVE ValueRows(x, decoded) \in Nat
      <4>1. x[1] = name
        BY <3>2 DEF Part
      <4>2. CASE name = "cipher suites"
        BY <2>1, <2>3, <4>1, <4>2 DEF ValueRows
      <4>3. CASE name # "cipher suites"
        BY <4>1, <4>3 DEF ValueRows, PartNames
      <4> QED BY <4>2, <4>3
    <3> QED BY <3>1, <3>2 DEF Entries, Subjects
  <2>6. RowsOf(decoded, list)
    <3>1. \A i \in 1..Len(list) : list[i] \in Entries(E)
      BY ElementOfSeq
    <3> QED BY <2>5, <3>1 DEF RowsOf
  <2> QED BY <2>4, <2>6, LenProperties DEF Listed
<1>2. CASE ~Complete
  <2>1. PICK raw : raw = decoded.raw /\ raw \in {payload, Drop(payload, 4)}
    BY <1>2 DEF WholeInv, HelloWholeOrNothing
  <2>2. decoded.kind = "Unknown" /\ decoded.raw = raw
    BY <1>2, <2>1 DEF WholeInv, HelloWholeOrNothing
  <2>3. PICK n \in 1..Len(message) + Len(NextMessage) : payload = SubSeq(message \o NextMessage, 1, n)
    BY DEF WholeInv, HelloInv
  <2>4. Len(raw) \in Nat
    <3>1. PICK l \in Nat : l = Len(payload)
      BY <2>3, CutLength
    <3>2. Len(Drop(payload, 4)) \in Nat
      BY <3>1, TailLength
    <3> QED BY <2>1, <3>1, <3>2
  <2>5. 1 + HexRows(raw) \in Nat
    <3>1. (Len(raw) + 15) \div 16 \in Nat
      BY <2>4
    <3> QED BY <3>1 DEF HexRows
  <2>6. Shown = <<Part("message")>> \o <<Part("framing")>>
    BY <2>2 DEF Shown, SectionsFor
  <2>7. Shown = <<Part("message"), Part("framing")>>
    BY <2>6, LinesOneByOne
  <2>8. DOMAIN Shown = 1..2 /\ Len(Shown) = 2
    BY <2>7
  <2>9. Shown[1][1] = "message" /\ Shown[2][1] = "framing"
    BY <2>7 DEF Part
  <2>10. ValueRows(Shown[1], decoded) \in Nat
    BY <2>2, <2>5, <2>9 DEF ValueRows
  <2>11. ValueRows(Shown[2], decoded) \in Nat
    BY <2>9 DEF ValueRows
  <2>12. \A i \in 1..2 : i = 1 \/ i = 2
    OBVIOUS
  <2>13. RowsOf(decoded, Shown)
    BY <2>8, <2>10, <2>11, <2>12 DEF RowsOf
  <2> QED BY <2>8, <2>13 DEF Listed
<1> QED BY <1>1, <1>2

LEMMA WholeInvHolds == Spec => []WholeInv
<1> DEFINE Fresh == Distinct(exts)
<1>1. Init => Fresh
  BY DEF Init, Distinct
<1>2. HelloInv /\ Fresh /\ [Next]_vars => Fresh'
  <2> SUFFICES ASSUME HelloInv, Fresh, [Next]_vars PROVE Fresh'
    OBVIOUS
  <2>1. CASE exts' = exts
    BY <2>1 DEF Distinct
  <2>2. ASSUME NEW e \in Offers[kind], AddExtension(e) PROVE Fresh'
    <3>1. exts \in Seq(Offers[kind])
      BY DEF HelloInv
    <3>2. PICK n \in Nat : n = Len(exts) /\ DOMAIN exts = 1..n
      BY <3>1, LenProperties
    <3>3. PICK longer \in Seq(Offers[kind]) : longer = Append(exts, e)
      BY <3>1, AppendProperties
    <3>4. /\ Len(longer) = n + 1 /\ DOMAIN longer = 1..n + 1
          /\ \A i \in 1..n : longer[i] = exts[i]
          /\ longer[n + 1] = e
      BY <3>1, <3>2, <3>3, AppendProperties, LenProperties
    <3>5. \A i \in 1..n : exts[i].ext_type # e.ext_type
      BY <2>2, <3>2 DEF AddExtension
    <3>6. \A i \in 1..n + 1 : i \in 1..n \/ i = n + 1
      OBVIOUS
    <3>7. Distinct(longer)
      BY <3>2, <3>4, <3>5, <3>6 DEF Distinct
    <3> QED BY <2>2, <3>3, <3>7 DEF AddExtension
  <2>3. CASE \E b \in Alphabet : AppendByte(b)
    BY <2>1, <2>3 DEF AppendByte
  <2>4. CASE WriteHello
    BY <2>1, <2>4 DEF WriteHello
  <2>5. CASE \E n \in 1..Len(message) + Len(NextMessage) : SendRecord(n)
    BY <2>1, <2>5 DEF SendRecord
  <2>6. CASE Complete /\ \E i \in 0..Len(Shown) - 1 : SelectSection(i)
    BY <2>1, <2>6 DEF SelectSection, helloVars
  <2>7. CASE Complete /\ ToggleEducation
    BY <2>1, <2>7 DEF ToggleEducation, helloVars
  <2>8. CASE Complete /\ \E h \in Heights : Resize(h)
    BY <2>1, <2>8 DEF Resize, helloVars
  <2>9. CASE UNCHANGED vars
    BY <2>1, <2>9 DEF vars, helloVars
  <2> QED BY <2>2, <2>3, <2>4, <2>5, <2>6, <2>7, <2>8, <2>9 DEF Next
<1>3. HelloInv /\ HelloWholeOrNothing /\ Fresh => WholeInv
  BY DEF WholeInv
<1> HIDE DEF Fresh
<1> QED BY <1>1, <1>2, <1>3, HelloInvHolds, HelloIsWholeOrNothing, PTL DEF Spec

(* No extension of a hello is listed twice, and each once but for the      *)
(* types a server's hello has promoted and does not pin, in whatever order *)
(* a peer sends them and however many there are; every byte of every key   *)
(* share that is not a hybrid one is on its lines, whatever its group and  *)
(* size (push_client_hello, push_server_hello, key_share_structure).       *)
THEOREM ExtensionsAreShownOnce == Spec => []ExtensionsShownOnce
<1>1. WholeInv => ExtensionsShownOnce
  <2> SUFFICES ASSUME WholeInv, Complete, NEW i \in DOMAIN exts
               PROVE  /\ Listings(exts[i]) <= 1
                      /\ kind = "ClientHello" \/ exts[i].ext_type \notin ClientOnly
                           => Listings(exts[i]) = 1
                      /\ exts[i].body # Opaque /\ exts[i].ext_type = 51 =>
                           \A j \in DOMAIN exts[i].body.value : KeyShown(exts[i].body.value[j])
    BY DEF ExtensionsShownOnce
  <2>1. exts \in Seq(Offers[kind]) /\ kind \in Kinds /\ Shown = ShownFor(kind, exts) /\ Distinct(exts)
    BY ShownWhole
  <2>2. PICK list : list = Shown
    OBVIOUS
  <2>3. IF kind # "ClientHello" /\ exts[i].ext_type \in ClientOnly
        THEN Never(OfExtension(exts[i]), list) ELSE Once(OfExtension(exts[i]), list)
    <3>1. IF kind # "ClientHello" /\ exts[i].ext_type \in ClientOnly
          THEN Never(OfExtension(exts[i]), ShownFor(kind, exts))
          ELSE Once(OfExtension(exts[i]), ShownFor(kind, exts))
      BY <2>1, ShownPlaces
    <3> QED BY <2>1, <2>2, <3>1
  <2>4. Cardinality({s \in DOMAIN list : list[s] = OfExtension(exts[i])})
          = IF kind # "ClientHello" /\ exts[i].ext_type \in ClientOnly THEN 0 ELSE 1
    BY <2>3, OnceIsOne
  <2>5. ASSUME exts[i].body # Opaque, exts[i].ext_type = 51, NEW j \in DOMAIN exts[i].body.value
        PROVE  KeyShown(exts[i].body.value[j])
    <3>1. PICK e \in Offers[kind] : e = exts[i] /\ Means(e)
      <4>1. exts[i] \in Offers[kind]
        BY <2>1, LenProperties, ElementOfSeq
      <4> QED BY <2>1, <4>1, OffersAssumption
    <3>2. PICK form, v : e.body = Body(form, v) /\ Conveys(51, form, v, e.raw)
      BY <2>5, <3>1 DEF Means
    <3>3. e.body.value = v
      BY <3>2 DEF Body
    <3>4. IsList(Shares, v)
      BY <3>2 DEF Conveys
    <3>5. v[j] \in EntrySet
      BY <2>5, <3>1, <3>3, <3>4, LenProperties, ElementOfSeq DEF IsList
    <3>6. KeyShown(v[j])
      BY <3>5, KeyIsShown DEF EntrySet
    <3> QED BY <3>1, <3>3, <3>6
  <2>6. /\ Listings(exts[i]) <= 1
        /\ kind = "ClientHello" \/ exts[i].ext_type \notin ClientOnly => Listings(exts[i]) = 1
    <3>1. Listings(exts[i])
            = IF kind # "ClientHello" /\ exts[i].ext_type \in ClientOnly THEN 0 ELSE 1
      BY <2>2, <2>4 DEF Listings
    <3> QED BY <3>1
  <2> QED BY <2>5, <2>6
<1> QED BY <1>1, WholeInvHolds, PTL

-----------------------------------------------------------------------------
(* The cursor and the pane.                                                *)

ViewInv ==
  /\ inner_h \in Heights /\ section_index \in Nat
  /\ payload = << >> => section_index = 0
  /\ payload # << >> => section_index < Len(Shown)

LEMMA TallestIsOne == Max(Heights) \in Heights
<1>1. PICK tallest \in Heights : \A h \in Heights : h <= tallest
  BY DetailAssumption
<1>2. Heights \subseteq Nat
  BY DetailAssumption
<1>3. \A h \in Heights : tallest >= h
  BY <1>1, <1>2
<1> QED BY <1>3 DEF Max

LEMMA ViewInvHolds == Spec => []ViewInv
<1> DEFINE Roomy == payload # << >> => Len(Shown) \in Nat \ {0}
<1>1. WholeInv => Roomy
  BY ShownListed DEF Listed
<1>2. Init => ViewInv
  BY TallestIsOne DEF Init, ViewInv
<1>3. ViewInv /\ Roomy' /\ [Next]_vars => ViewInv'
  <2> SUFFICES ASSUME ViewInv, Roomy', [Next]_vars PROVE ViewInv'
    OBVIOUS
  <2>1. ASSUME UNCHANGED <<payload, decoded, section_index>>, inner_h' \in Heights PROVE ViewInv'
    BY <2>1 DEF ViewInv, Shown
  <2>2. inner_h \in Heights
    BY DEF ViewInv
  <2>3. CASE \E b \in Alphabet : AppendByte(b)
    BY <2>1, <2>2, <2>3 DEF AppendByte, viewVars
  <2>4. CASE \E e \in Offers[kind] : AddExtension(e)
    BY <2>1, <2>2, <2>4 DEF AddExtension, viewVars
  <2>5. CASE WriteHello
    BY <2>1, <2>2, <2>5 DEF WriteHello, viewVars
  <2>6. ASSUME NEW n \in 1..Len(message) + Len(NextMessage), SendRecord(n) PROVE ViewInv'
    <3>1. section_index' = 0 /\ inner_h' \in Heights
      BY <2>6 DEF SendRecord, viewVars, ViewInv
    <3>2. payload' # << >> => section_index' < Len(Shown')
      BY <3>1
    <3> QED BY <3>1, <3>2 DEF ViewInv
  <2>7. ASSUME Complete, NEW i \in 0..Len(Shown) - 1, SelectSection(i) PROVE ViewInv'
    <3>1. /\ payload' = payload /\ decoded' = decoded /\ inner_h' = inner_h
          /\ section_index' = i /\ i < Len(Shown) /\ payload # << >>
      BY <2>7 DEF SelectSection, helloVars, Complete
    <3>2. Shown' = Shown
      BY <3>1 DEF Shown
    <3>3. i \in Nat
      BY <2>7
    <3> QED BY <2>2, <3>1, <3>2, <3>3 DEF ViewInv
  <2>8. CASE Complete /\ ToggleEducation
    BY <2>1, <2>2, <2>8 DEF ToggleEducation, helloVars
  <2>9. CASE Complete /\ \E h \in Heights : Resize(h)
    BY <2>1, <2>9 DEF Resize, helloVars
  <2>10. CASE UNCHANGED vars
    BY <2>1, <2>2, <2>10 DEF vars, helloVars, viewVars
  <2> QED BY <2>3, <2>4, <2>5, <2>6, <2>7, <2>8, <2>9, <2>10 DEF Next
<1> HIDE DEF Roomy
<1> QED BY <1>1, <1>2, <1>3, WholeInvHolds, PTL DEF Spec

\* The rows above the selected section can be counted in 16 bits.
RowsCounted == payload # << >> => Start(SectionHeights, section_index + 1) <= U16_MAX

(* Whatever hello is on display, cut or whole, with whatever extensions,   *)
(* wherever the cursor is, education shown or not and however small the    *)
(* pane, the section under the cursor is in view, as long as ratatui's u16 *)
(* can count the rows above it (scroll_offset, section_next,               *)
(* toggle_education).                                                      *)
THEOREM SelectedIsVisible == Spec => [](RowsCounted => SelectedVisible)
<1>1. WholeInv /\ ViewInv => (RowsCounted => SelectedVisible)
  <2> SUFFICES ASSUME WholeInv, ViewInv, RowsCounted, payload # << >> PROVE SelectedVisible
    BY DEF SelectedVisible
  <2>1. /\ DOMAIN Shown = 1..Len(Shown) /\ Len(Shown) \in Nat \ {0}
        /\ RowsOf(decoded, Shown)
    BY ShownListed DEF Listed
  <2>2. PICK n \in Nat : n = Len(Shown)
    BY <2>1
  <2>3. ASSUME NEW i \in 1..n PROVE SectionHeights[i] \in Nat \ {0}
    <3>1. PICK rows \in Nat : rows = ValueRows(Shown[i], decoded)
      BY <2>1, <2>2 DEF RowsOf
    <3>2. SectionHeights[i] = SectionHeight(rows, education, DETAILS)
      BY <2>1, <2>2, <3>1 DEF SectionHeights
    <3>3. SectionHeight(rows, education, DETAILS) \in Nat \ {0}
      BY DetailAssumption DEF SectionHeight
    <3> QED BY <3>2, <3>3
  <2>4. SectionHeights \in [1..n -> Nat \ {0}]
    BY <2>1, <2>2, <2>3 DEF SectionHeights
  <2>5. PICK heights \in Seq(Nat \ {0}) : heights = SectionHeights /\ Len(heights) = n
    <3>1. SectionHeights \in Seq(Nat \ {0})
      BY <2>4, SeqDef
    <3>2. DOMAIN SectionHeights = 1..n /\ Len(SectionHeights) \in Nat
          /\ DOMAIN SectionHeights = 1..Len(SectionHeights)
      BY <2>4, <3>1, LenProperties
    <3> QED BY <3>1, <3>2
  <2>6. PICK i \in 1..Len(heights) : i = section_index + 1
    BY <2>2, <2>5 DEF ViewInv
  <2>7. PICK pane \in Nat \ {0} : pane = inner_h
    BY DetailAssumption DEF ViewInv
  <2>8. Start(heights, i) <= U16_MAX
    BY <2>5, <2>6 DEF RowsCounted
  <2>9. LET start == Start(heights, i)
            total == TotalRows(heights)
        IN  InView(ScrollOffset(start, heights[i], total, pane), start, heights[i], total, pane)
    BY <2>8, SelectedInView
  <2> QED BY <2>5, <2>6, <2>7, <2>9 DEF SelectedVisible
<1> QED BY <1>1, WholeInvHolds, ViewInvHolds, PTL

-----------------------------------------------------------------------------
(* What the tracker's summary says of a hello.                             *)

LEMMA LargestIs ==
  ASSUME NEW n \in Nat, NEW S \in SUBSET (1..n), S # {}
  PROVE  \E m \in S : \A j \in S : j <= m
<1> DEFINE Has(R) == R # {} => \E m \in R : \A j \in R : j <= m
           T == {k \in Nat : \A R \in SUBSET (1..k) : Has(R)}
<1>1. 0 \in T
  <2>1. 1..0 = {}
    OBVIOUS
  <2> QED BY <2>1
<1>2. ASSUME NEW k \in Nat, k \in T PROVE k + 1 \in T
  <2> SUFFICES ASSUME NEW R \in SUBSET (1..k + 1), R # {} PROVE \E m \in R : \A j \in R : j <= m
    OBVIOUS
  <2>1. CASE k + 1 \in R
    <3>1. \A j \in R : j <= k + 1
      OBVIOUS
    <3> QED BY <2>1, <3>1
  <2>2. CASE k + 1 \notin R
    <3>1. R \in SUBSET (1..k)
      BY <2>2
    <3> QED BY <1>2, <3>1
  <2> QED BY <2>1, <2>2
<1>3. Nat \subseteq T
  <2> HIDE DEF T
  <2> QED BY <1>1, <1>2, SetInduction
<1> QED BY <1>3

LEMMA MaxIs ==
  ASSUME NEW S \in SUBSET Nat, NEW m \in S, \A y \in S : y <= m
  PROVE  Max(S) = m
<1>1. \A x \in S : (\A y \in S : x >= y) => x = m
  <2> SUFFICES ASSUME NEW x \in S, \A y \in S : x >= y PROVE x = m
    OBVIOUS
  <2>1. x >= m /\ x <= m
    OBVIOUS
  <2>2. x \in Nat /\ m \in Nat
    OBVIOUS
  <2> QED BY <2>1, <2>2
<1>2. \A y \in S : m >= y
  OBVIOUS
<1> QED BY <1>1, <1>2 DEF Max

\* Of a list with a known version, the last of the highest known is preferred.
LEMMA BestIsPreferred ==
  ASSUME NEW v \in Seq(Nat), NEW k \in DOMAIN v, v[k] \in 768..772
  PROVE  Preferred(v) = {Max({c \in ToSet(v) : c <= 772})}
<1>1. PICK n \in Nat : n = Len(v) /\ DOMAIN v = 1..n
  BY LenProperties
<1>2. \A i \in 1..n : v[i] \in Nat
  BY <1>1, ElementOfSeq
<1> DEFINE Known == {c \in 1..772 : c >= 768 /\ \E i \in 1..n : v[i] = c}
<1>3. v[k] \in Known
  <2>1. v[k] \in 1..772 /\ v[k] >= 768
    OBVIOUS
  <2> QED BY <1>1, <2>1
<1>4. PICK N \in Nat : N = 772
  OBVIOUS
<1>5. PICK m \in Known : \A c \in Known : c <= m
  <2>1. Known \in SUBSET (1..N)
    BY <1>4
  <2> HIDE DEF Known
  <2>2. Known # {}
    BY <1>3
  <2> QED BY <2>1, <2>2, LargestIs
<1>6. m \in Nat /\ 768 <= m /\ m <= 772
  BY <1>5
<1> DEFINE At == {i \in 1..n : v[i] = m}
<1>7. At \in SUBSET (1..n) /\ At # {}
  <2>1. PICK i \in 1..n : v[i] = m
    BY <1>5
  <2>2. i \in At
    BY <2>1
  <2> QED BY <2>2, SMTT(30)
<1>8. PICK l \in At : \A i \in At : i <= l
  <2> HIDE DEF At
  <2> QED BY <1>7, LargestIs, ZenonT(40)
<1>9. \A i \in 1..n : v[i] = m => i <= l
  BY <1>8
<1>10. ASSUME NEW i \in 1..n
       PROVE  /\ v[i] \in 768..772 => v[i] <= m /\ Rank(v[i]) = v[i] - 767
              /\ v[i] \notin 768..772 => Rank(v[i]) = 0
  <2>1. v[i] \in 768..772 => v[i] \in Known
    <3>1. \A c \in 768..772 : c \in 1..772 /\ c >= 768
      OBVIOUS
    <3> QED BY <3>1
  <2>2. v[i] \in 768..772 => v[i] <= m
    <3> HIDE DEF Known
    <3> QED BY <1>5, <2>1
  <2> QED BY <2>2 DEF Rank
<1>11. l \in 1..n /\ v[l] = m /\ Rank(v[l]) = m - 767
  <2>1. m \in 768..772
    BY <1>6
  <2> QED BY <1>8, <1>10, <2>1
<1>12. ASSUME NEW j \in 1..n
       PROVE  /\ Rank(v[j]) \in Nat /\ Rank(v[j]) <= m - 767
              /\ Rank(v[j]) = m - 767 => v[j] = m
  <2>1. CASE v[j] \in 768..772
    <3>1. v[j] <= m /\ Rank(v[j]) = v[j] - 767 /\ 768 <= v[j]
      BY <1>10, <2>1, SMTT(20)
    <3> QED BY <1>2, <1>6, <3>1, SMTT(20)
  <2>2. CASE v[j] \notin 768..772
    <3>1. Rank(v[j]) = 0
      BY <1>10, <2>2
    <3> QED BY <1>6, <3>1
  <2> QED BY <2>1, <2>2
<1> DEFINE Best(i) == \A j \in 1..n :
             Rank(v[j]) < Rank(v[i]) \/ (Rank(v[j]) = Rank(v[i]) /\ j <= i)
<1>13. Best(l)
  <2> SUFFICES ASSUME NEW j \in 1..n
               PROVE  Rank(v[j]) < Rank(v[l]) \/ (Rank(v[j]) = Rank(v[l]) /\ j <= l)
    OBVIOUS
  <2>1. CASE Rank(v[j]) = m - 767
    BY <1>9, <1>11, <1>12, <2>1
  <2>2. CASE Rank(v[j]) # m - 767
    BY <1>6, <1>11, <1>12, <2>2
  <2> QED BY <2>1, <2>2
<1>14. ASSUME NEW i \in 1..n, Best(i) PROVE i = l
  <2>1. Rank(v[l]) < Rank(v[i]) \/ (Rank(v[l]) = Rank(v[i]) /\ l <= i)
    BY <1>11, <1>14
  <2>2. Rank(v[i]) <= m - 767 /\ Rank(v[i]) \in Nat
    BY <1>12
  <2>3. Rank(v[l]) = Rank(v[i]) /\ l <= i
    BY <1>6, <1>11, <2>1, <2>2
  <2>4. v[i] = m
    BY <1>11, <1>12, <2>3
  <2>5. i <= l
    BY <1>9, <2>4
  <2> QED BY <1>11, <2>3, <2>5
<1>15. Preferred(v) = {m}
  <2>1. Preferred(v) = {v[i] : i \in {i \in 1..n : Best(i)}}
    BY <1>1 DEF Preferred
  <2>2. {i \in 1..n : Best(i)} = {l}
    <3> HIDE DEF Best
    <3> QED BY <1>11, <1>13, <1>14
  <2> HIDE DEF Best
  <2>3. Preferred(v) = {v[i] : i \in {l}}
    BY <2>1, <2>2, ZenonT(40)
  <2> QED BY <1>11, <2>3
<1>16. Max({c \in ToSet(v) : c <= 772}) = m
  <2> DEFINE S == {c \in ToSet(v) : c <= 772}
  <2>1. ToSet(v) = {v[i] : i \in 1..n}
    BY <1>1 DEF ToSet
  <2>2. S \in SUBSET Nat /\ m \in S
    BY <1>2, <1>6, <1>11, <2>1
  <2>3. ASSUME NEW c \in S PROVE c <= m
    <3>1. PICK i \in 1..n : v[i] = c
      BY <2>1, <2>3
    <3>2. c \in Nat /\ c <= 772
      BY <2>2, <2>3
    <3>3. CASE c >= 768
      <4>1. v[i] \in 768..772
        BY <3>1, <3>2, <3>3
      <4> QED BY <1>10, <3>1, <4>1
    <3>4. CASE ~(c >= 768)
      BY <1>6, <3>2, <3>4
    <3> QED BY <3>3, <3>4
  <2> HIDE DEF S
  <2>4. Max(S) = m
    BY <2>2, <2>3, MaxIs, ZenonT(40)
  <2> QED BY <2>4 DEF S
<1> QED BY <1>15, <1>16, ZenonT(40)

LEMMA MeantIs ==
  ASSUME NEW E, exts \in Seq(E), Distinct(exts), NEW type
  PROVE  \/ Carriers(exts, type) = {} /\ Meant(type) = {}
         \/ \E i \in DOMAIN exts :
              /\ exts[i].ext_type = type
              /\ Carriers(exts, type) = {i} /\ Max(Carriers(exts, type)) = i
              /\ exts[i].body = Opaque => Meant(type) = {}
              /\ exts[i].body # Opaque => Meant(type) = {exts[i].body.value}
<1> DEFINE Shared == {i \in DOMAIN exts : exts[i].ext_type = type /\ exts[i].body # Opaque}
<1>1. Meant(type) = {exts[i].body.value : i \in Shared}
  BY DEF Meant
<1>2. CASE Carriers(exts, type) = {}
  <2>1. Shared = {}
    BY <1>2 DEF Carriers
  <2> HIDE DEF Shared
  <2> QED BY <1>1, <1>2, <2>1
<1>3. ASSUME NEW i \in DOMAIN exts, exts[i].ext_type = type,
             Carriers(exts, type) = {i}, Max(Carriers(exts, type)) = i
      PROVE  /\ exts[i].body = Opaque => Meant(type) = {}
             /\ exts[i].body # Opaque => Meant(type) = {exts[i].body.value}
  <2>1. \A j \in DOMAIN exts : exts[j].ext_type = type => j = i
    BY <1>3 DEF Carriers
  <2>2. CASE exts[i].body = Opaque
    <3>1. Shared = {}
      BY <2>1, <2>2
    <3> HIDE DEF Shared
    <3> QED BY <1>1, <2>2, <3>1
  <2>3. CASE exts[i].body # Opaque
    <3>1. Shared = {i}
      BY <1>3, <2>1, <2>3
    <3> HIDE DEF Shared
    <3>2. Meant(type) = {exts[j].body.value : j \in {i}}
      BY <1>1, <3>1
    <3> QED BY <2>3, <3>2
  <2> QED BY <2>2, <2>3
<1> HIDE DEF Shared
<1> QED BY <1>2, <1>3, CarrierIs

\* The group the summary names for a key share a peer composed.
LEMMA ShareIsSummed ==
  ASSUME NEW e, Means(e), e.ext_type = 51
  PROVE  /\ e.body = Opaque => FirstKeyShareGroup(e.raw) = {}
         /\ e.body # Opaque => FirstKeyShareGroup(e.raw) = {e.body.value[1].code}
<1>1. PICK raw \in Bytes : raw = e.raw
  BY DEF Means
<1>2. CASE e.body = Opaque
  <2>1. CASE Unconveyed(51, raw)
    <3>1. Len(raw) = 2
      BY <2>1 DEF Unconveyed, DECODED_EXTENSIONS
    <3>2. Len(raw) < 4
      BY <3>1
    <3> QED BY <1>1, <1>2, <3>2 DEF FirstKeyShareGroup
  <2> QED BY <1>1, <1>2, <2>1 DEF Means
<1>3. CASE e.body # Opaque
  <2>1. PICK form, v : form = e.body.form /\ v = e.body.value
    OBVIOUS
  <2>2. e.body = Body(form, v) /\ Conveys(51, form, v, raw)
    BY <1>1, <1>3, <2>1 DEF Means
  <2>3. /\ form = "KeyShare" /\ IsList(Shares, v) /\ v # << >>
        /\ Frames(raw, 2, Written(Shares, v)) \/ ShareAlone(v, raw)
    BY <2>2 DEF Conveys
  <2>4. DecodeKeyShare(raw) = Body("KeyShare", v)
    BY <2>3, SharesAreRead
  <2>5. Body("KeyShare", v).value = v /\ Body("KeyShare", << >>).value = << >>
    BY DEF Body
  <2>6. DecodeKeyShare(raw) \notin {Opaque, Body("KeyShare", << >>)}
    BY <1>3, <2>2, <2>3, <2>4, <2>5
  <2>7. FirstKeyShareGroup(raw) = {DecodeKeyShare(raw).value[1].code}
    BY <2>6, SummaryGroupIsFirst
  <2> QED BY <1>1, <1>3, <2>1, <2>4, <2>5, <2>7
<1> QED BY <1>2, <1>3

LEMMA VersionsAreConveyed ==
  ASSUME NEW e, Means(e), e.ext_type = 43
  PROVE  e.body # Opaque /\ e.body.value \in Seq(Nat) /\ e.body.value # << >>
<1>1. ~Unconveyed(43, e.raw)
  BY DEF Unconveyed, DECODED_EXTENSIONS
<1>2. e.body # Opaque /\ Conveys(43, e.body.form, e.body.value, e.raw)
  BY <1>1 DEF Means
<1>3. PICK form, v, raw : form = e.body.form /\ v = e.body.value /\ raw = e.raw
  OBVIOUS
<1>4. Conveys(43, form, v, raw)
  BY <1>2, <1>3
<1>5. IsCodes(v) /\ v # << >>
  BY <1>4 DEF Conveys
<1> QED BY <1>2, <1>3, <1>5 DEF IsCodes

\* The version and the group either summary names, from extensions peers compose.
LEMMA GroupIsSummed ==
  ASSUME NEW E, exts \in Seq(E), Distinct(exts), \A i \in DOMAIN exts : Means(exts[i])
  PROVE  ShareGroup(exts) = {shares[1].code : shares \in Meant(51)}
<1>1. CASE Carriers(exts, 51) = {} /\ Meant(51) = {}
  BY <1>1 DEF ShareGroup
<1>2. ASSUME NEW i \in DOMAIN exts, exts[i].ext_type = 51,
             Carriers(exts, 51) = {i}, Max(Carriers(exts, 51)) = i,
             exts[i].body = Opaque => Meant(51) = {},
             exts[i].body # Opaque => Meant(51) = {exts[i].body.value}
      PROVE  ShareGroup(exts) = {shares[1].code : shares \in Meant(51)}
  <2>1. PICK e : e = exts[i]
    OBVIOUS
  <2>2. Means(e) /\ e.ext_type = 51
    BY <1>2, <2>1
  <2>3. ShareGroup(exts) = FirstKeyShareGroup(e.raw)
    BY <1>2, <2>1 DEF ShareGroup
  <2>4. CASE e.body = Opaque
    BY <1>2, <2>1, <2>2, <2>3, <2>4, ShareIsSummed
  <2>5. CASE e.body # Opaque
    <3>1. ShareGroup(exts) = {e.body.value[1].code}
      BY <2>2, <2>3, <2>5, ShareIsSummed
    <3>2. Meant(51) = {e.body.value}
      BY <1>2, <2>1, <2>5
    <3> QED BY <3>1, <3>2
  <2> QED BY <2>4, <2>5
<1> QED BY <1>1, <1>2, MeantIs

LEMMA ValuesAre ==
  ASSUME NEW E, exts \in Seq(E), Distinct(exts), \A i \in DOMAIN exts : Means(exts[i])
  PROVE  \/ Values(exts, 43) = << >> /\ Meant(43) = {}
         \/ \E i \in DOMAIN exts :
              /\ exts[i].ext_type = 43 /\ Values(exts, 43) = exts[i].body.value
              /\ Meant(43) = {exts[i].body.value}
              /\ exts[i].body.value \in Seq(Nat) /\ exts[i].body.value # << >>
<1>1. CASE Carriers(exts, 43) = {} /\ Meant(43) = {}
  BY <1>1 DEF Values
<1>2. ASSUME NEW i \in DOMAIN exts, exts[i].ext_type = 43,
             Carriers(exts, 43) = {i}, Max(Carriers(exts, 43)) = i,
             exts[i].body # Opaque => Meant(43) = {exts[i].body.value}
      PROVE  /\ Values(exts, 43) = exts[i].body.value
             /\ Meant(43) = {exts[i].body.value}
             /\ exts[i].body.value \in Seq(Nat) /\ exts[i].body.value # << >>
  <2>1. PICK e : e = exts[i]
    OBVIOUS
  <2>2. Means(e) /\ e.ext_type = 43
    BY <1>2, <2>1
  <2>3. e.body # Opaque /\ e.body.value \in Seq(Nat) /\ e.body.value # << >>
    BY <2>2, VersionsAreConveyed
  <2>4. Values(exts, 43) = e.body.value
    BY <1>2, <2>1 DEF Values
  <2> QED BY <1>2, <2>1, <2>3, <2>4
<1> QED BY <1>1, <1>2, MeantIs

\* What a client's hello offers, as its readers see it.
LEMMA OfferKnown ==
  ASSUME HelloInv, kind = "ClientHello", NEW i \in DOMAIN exts, exts[i].ext_type = 43
  PROVE  \E k \in DOMAIN exts[i].body.value : exts[i].body.value[k] \in 768..772
<1>1. exts \in Seq(Offers[kind]) /\ kind \in Kinds
  BY DEF HelloInv
<1>2. i \in 1..Len(exts)
  BY <1>1, LenProperties
<1>3. PICK e \in Offers[kind] : e = exts[i]
  BY <1>1, <1>2, ElementOfSeq
<1> QED BY <1>1, <1>3, OffersAssumption

LEMMA HelloIsSummed ==
  ASSUME HelloInv, Distinct(exts), NEW h, h.extensions = exts, h.legacy_version = 771
  PROVE  /\ kind = "ClientHello" => SummaryTrue(ClientSummary(h))
         /\ kind # "ClientHello" => SummaryTrue(ServerSummary(h))
<1> DEFINE values == Values(exts, 43)
           Told(version) ==
             /\ \A versions \in Meant(43) :
                  version = IF kind = "ClientHello"
                            THEN {Max({v \in ToSet(versions) : v <= 772})} ELSE {versions[1]}
             /\ Meant(43) = {} => version = IF kind = "ClientHello" THEN {} ELSE {771}
<1>1. exts \in Seq(Offers[kind]) /\ \A i \in DOMAIN exts : Means(exts[i])
  BY ExtsMean DEF HelloInv
<1>2. ShareGroup(exts) = {shares[1].code : shares \in Meant(51)}
  BY <1>1, GroupIsSummed
<1>3. /\ ClientSummary(h).key_share_group = ShareGroup(exts)
      /\ ServerSummary(h).key_share_group = ShareGroup(exts)
      /\ ClientSummary(h).version = Preferred(values)
      /\ ServerSummary(h).version = IF values = << >> THEN {771} ELSE First(values)
  BY DEF ClientSummary, ServerSummary
<1>4. CASE values = << >> /\ Meant(43) = {}
  <2>1. Preferred(values) = {}
    <3>1. DOMAIN << >> = {}
      OBVIOUS
    <3> HIDE DEF values
    <3> QED BY <1>4, <3>1 DEF Preferred
  <2> HIDE DEF values
  <2>2. kind = "ClientHello" => Told(Preferred(values))
    BY <1>4, <2>1
  <2>3. kind # "ClientHello" => Told(IF values = << >> THEN {771} ELSE First(values))
    BY <1>4
  <2> HIDE DEF Told
  <2>4. \A s : s.key_share_group = ShareGroup(exts) /\ Told(s.version) => SummaryTrue(s)
    BY <1>2 DEF SummaryTrue, Told
  <2> QED BY <1>3, <2>2, <2>3, <2>4
<1>5. ASSUME NEW i \in DOMAIN exts, exts[i].ext_type = 43, values = exts[i].body.value,
             Meant(43) = {exts[i].body.value}, values \in Seq(Nat), values # << >>
      PROVE  /\ kind = "ClientHello" => SummaryTrue(ClientSummary(h))
             /\ kind # "ClientHello" => SummaryTrue(ServerSummary(h))
  <2>1. ASSUME kind = "ClientHello"
        PROVE  Preferred(values) = {Max({v \in ToSet(values) : v <= 772})}
    <3>1. PICK k \in DOMAIN values : values[k] \in 768..772
      BY <1>5, <2>1, OfferKnown
    <3> HIDE DEF values
    <3> QED BY <1>5, <3>1, BestIsPreferred
  <2> HIDE DEF values
  <2>2. Meant(43) = {values}
    BY <1>5
  <2>3. First(values) = {values[1]}
    BY <1>5 DEF First
  <2>4. kind = "ClientHello" => Told(Preferred(values))
    BY <2>1, <2>2
  <2>5. kind # "ClientHello" => Told(IF values = << >> THEN {771} ELSE First(values))
    <3>1. (IF values = << >> THEN {771} ELSE First(values)) = {values[1]}
      BY ONLY <1>5, <2>3
    <3>2. kind # "ClientHello" => Told({values[1]})
      BY ONLY <2>2
    <3> HIDE DEF Told
    <3> QED BY ONLY <3>1, <3>2
  <2> HIDE DEF Told
  <2>6. \A s : s.key_share_group = ShareGroup(exts) /\ Told(s.version) => SummaryTrue(s)
    BY <1>2 DEF SummaryTrue, Told
  <2> QED BY <1>3, <2>4, <2>5, <2>6
<1>6. \/ values = << >> /\ Meant(43) = {}
      \/ \E i \in DOMAIN exts :
           /\ exts[i].ext_type = 43 /\ values = exts[i].body.value
           /\ Meant(43) = {exts[i].body.value}
           /\ exts[i].body.value \in Seq(Nat) /\ exts[i].body.value # << >>
  BY <1>1, ValuesAre
<1> HIDE DEF values
<1> QED BY <1>4, <1>5, <1>6

(* The two parsers of a hello tell the same story: whatever bytes arrive   *)
(* as a key share, the tracker's group is the first share the view lists;  *)
(* and of every hello, with whatever extensions in whatever order, group   *)
(* and version of the summary are those its sender meant (tls.rs:          *)
(* first_key_share_group and preferred_version_rank, next to the           *)
(* decoders of extensions.rs).                                             *)
THEOREM ReadersDoAgree == Spec => []ReadersAgree
<1>1. WholeInv /\ BodyInv => ReadersAgree
  <2> SUFFICES ASSUME WholeInv, BodyInv PROVE ReadersAgree
    OBVIOUS
  <2>1. GroupsAgree
    BY SummaryGroupIsFirst DEF GroupsAgree, BodyInv
  <2>2. ASSUME Complete
        PROVE  SummaryTrue(IF kind = "ClientHello" THEN ClientSummary(decoded.hello)
                           ELSE ServerSummary(decoded.hello))
    <3>1. /\ decoded.hello.extensions = exts /\ decoded.hello.legacy_version = 771
          /\ HelloInv /\ Distinct(exts)
      BY <2>2 DEF WholeInv, HelloWholeOrNothing, Complete
    <3> QED BY <3>1, HelloIsSummed
  <2> QED BY <2>1, <2>2 DEF ReadersAgree
<1> HIDE DEF WholeInv, BodyInv
<1> QED BY <1>1, WholeInvHolds, BodyIsBytes, PTL
=============================================================================
