--------------------------- MODULE KcpWire_proofs ---------------------------
(***************************************************************************)
(* Proofs about KcpWire, for every configuration of the two peers, any     *)
(* mtus and receive buffer, and messages of any lengths.                   *)
(*                                                                         *)
(* The first half is about data, without any state: Size, At, FlattenSeq   *)
(* and Pack are recursive functions, and PackIs is what a flush makes of   *)
(* any segments: the same ones in order, in datagrams that are not empty   *)
(* and not too large.                                                      *)
(*                                                                         *)
(* Neither WholeSegmentsOnly nor AckedIsTakenIn is inductive: what arrives *)
(* was sent earlier, so all segments under way must be Genuine, and stay   *)
(* so while queued and got grow; CutInv says that each segment fits an mtu *)
(* that was set, from which DatagramFits follows unless it was lowered.    *)
(***************************************************************************)
EXTENDS KcpWire, KcpLemmas, SequenceTheorems

-----------------------------------------------------------------------------
(* Elements of a sequence *)

\* At takes elements at the places given.
LEMMA AtIs ==
    ASSUME NEW S, NEW s \in Seq(S), NEW w
    PROVE  At(s, w) \in Seq({s[i] : i \in DOMAIN s \cap w})
<1> DEFINE n == Len(s)
           E == {s[i] : i \in DOMAIN s \cap w}
           T == Seq(E)
           g == [i \in 1..n |-> [x \in T |-> IF i \in w THEN Append(x, s[i]) ELSE x]]
           Is(f) == f = [i \in 0..n |-> IF i = 0 THEN <<>>
                                        ELSE IF i \in w THEN Append(f[i - 1], s[i]) ELSE f[i - 1]]
           at == CHOOSE f : Is(f)
<1>1. n \in Nat /\ DOMAIN s = 1..n
  BY LenProperties
<1>2. \A i \in 1..n : i \in w => s[i] \in E
  BY <1>1
<1>3. \A i \in 1..n, x \in T : i \in w => Append(x, s[i]) \in T
  <2> HIDE DEF E, n
  <2> QED BY <1>2, AppendProperties
<1>4. <<>> \in T
  <2> HIDE DEF E
  <2> QED BY EmptySeq
<1>5. g \in Steps(n, T)
  <2> HIDE DEF T, n
  <2> QED BY <1>3 DEF Steps
<1>6. PICK f : ByRecursion(f, T, <<>>, n, g)
  <2> HIDE DEF g, n, T
  <2> QED BY <1>1, <1>4, <1>5, Recursion
<1>7. f \in [0..n -> T] /\ f[0] = <<>> /\ \A i \in 1..n : f[i] = g[i][f[i - 1]]
  <2> HIDE DEF g, n, T
  <2> QED BY <1>6 DEF ByRecursion
<1>8. \A i \in 1..n : f[i] = IF i \in w THEN Append(f[i - 1], s[i]) ELSE f[i - 1]
  <2> TAKE i \in 1..n
  <2>1. f[i - 1] \in T
    <3> HIDE DEF T
    <3> QED BY <1>1, <1>7
  <2>2. f[i] = g[i][f[i - 1]]
    <3> HIDE DEF g
    <3> QED BY <1>7
  <2> HIDE DEF T
  <2> QED BY <2>1, <2>2
<1>9. Is(f)
  <2>1. \A i \in 0..n : f[i] = IF i = 0 THEN <<>>
                               ELSE IF i \in w THEN Append(f[i - 1], s[i]) ELSE f[i - 1]
    <3>1. \A i \in 0..n : i # 0 => i \in 1..n
      BY <1>1
    <3> HIDE DEF g, T, n
    <3> QED BY <1>7, <1>8, <3>1
  <2> HIDE DEF g, T, n
  <2> QED BY <1>7, <2>1
<1>10. Is(at)
  <2> HIDE DEF Is
  <2> QED BY <1>9
<1> DEFINE Holds == {i \in Nat : i <= n => at[i] \in T}
<1>11. at[0] \in T
  <2>1. at[0] = <<>>
    <3> HIDE DEF at, T, n
    <3> QED BY <1>1, <1>10
  <2> QED BY <1>4, <2>1
<1>12. ASSUME NEW i \in Nat, i \in Holds PROVE i + 1 \in Holds
  <2> SUFFICES ASSUME i + 1 <= n PROVE at[i + 1] \in T
    OBVIOUS
  <2>1. i + 1 \in 1..n /\ at[i] \in T
    <3> HIDE DEF T, at
    <3> QED BY <1>1, <1>12
  <2>2. at[i + 1] = IF i + 1 \in w THEN Append(at[i], s[i + 1]) ELSE at[i]
    <3>1. i + 1 \in 0..n /\ i + 1 # 0 /\ (i + 1) - 1 = i
      BY <2>1
    <3>2. at[i + 1] = IF i + 1 \in w THEN Append(at[(i + 1) - 1], s[i + 1]) ELSE at[(i + 1) - 1]
      <4> HIDE DEF at, T, n
      <4> QED BY <1>10, <3>1
    <3> HIDE DEF at
    <3> QED BY <3>1, <3>2
  <2> HIDE DEF at, T, n
  <2> QED BY <1>3, <2>1, <2>2
<1>13. Nat \subseteq Holds
  <2>1. 0 \in Holds
    <3> HIDE DEF at, T, n
    <3> QED BY <1>11
  <2> HIDE DEF Holds
  <2> QED BY <2>1, <1>12, NatStep
<1>14. At(s, w) = at[n]
  BY DEF At
<1> QED BY <1>1, <1>13, <1>14

\* Max of numbers up to k,
LEMMA MaxIs ==
    ASSUME NEW k \in Nat, NEW T \in SUBSET (0..k), T # {}
    PROVE  Max(T) \in T
<1>1. \E n \in T : \A m \in T : n >= m
  BY GreatestNumber
<1> QED BY <1>1 DEF Max

\* of two numbers,
LEMMA MaxOfTwo ==
    ASSUME NEW a \in Int, NEW b \in Int
    PROVE  Max({a, b}) \in {a, b} /\ Max({a, b}) >= a /\ Max({a, b}) >= b
<1>1. \E x \in {a, b} : \A y \in {a, b} : x >= y
  OBVIOUS
<1> QED BY <1>1 DEF Max

\* and Min of two.
LEMMA MinOfTwo ==
    ASSUME NEW a \in Int, NEW b \in Int
    PROVE  Min({a, b}) \in {a, b} /\ Min({a, b}) <= a /\ Min({a, b}) <= b
<1>1. \E x \in {a, b} : \A y \in {a, b} : x <= y
  OBVIOUS
<1> QED BY <1>1 DEF Min

-----------------------------------------------------------------------------
(* The sizes of datagrams *)

LEMMA OverheadIs == Overhead \in Nat /\ Overhead > 0
BY WireAssumption

\* The sizes of some segments.
Sizes(segs) == [i \in 1..Len(segs) |-> Overhead + segs[i].len]

\* All segments of S have a length.
Sized(S) == \A seg \in S : seg.len \in Nat

\* Size is the last of the sums of the sizes.
LEMMA SizeIs ==
    ASSUME NEW S, Sized(S), NEW segs \in Seq(S)
    PROVE  \E f : IsSums(f, Sizes(segs), Len(segs)) /\ Size(segs) = f[Len(segs)]
<1> DEFINE n == Len(segs)
           h == Sizes(segs)
           Is(f) == f = [i \in 0..n |-> IF i = 0 THEN 0 ELSE f[i - 1] + (Overhead + segs[i].len)]
           Has(f) == f = [i \in 0..n |-> IF i = 0 THEN 0 ELSE f[i - 1] + h[i]]
<1>1. n \in Nat
  BY LenProperties
<1>2. h \in [1..n -> Nat]
  <2>1. \A i \in 1..n : segs[i] \in S
    BY ElementOfSeq
  <2>2. \A i \in 1..n : Overhead + segs[i].len \in Nat
    <3> HIDE DEF n
    <3> QED BY <2>1, OverheadIs DEF Sized
  <2> HIDE DEF n
  <2> QED BY <2>2 DEF Sizes, n
<1>3. PICK f : IsSums(f, h, n)
  <2> HIDE DEF n, h
  <2> QED BY <1>1, <1>2, SumsExist
<1>4. Has(f)
  <2> HIDE DEF n, h
  <2> QED BY <1>1, <1>3, SumsEquation
<1>5. \A c : Is(c) <=> Has(c)
  <2> TAKE c
  <2>1. \A i \in 0..n : i # 0 => h[i] = Overhead + segs[i].len
    <3>1. \A i \in 0..n : i # 0 => i \in 1..n
      BY <1>1
    <3> HIDE DEF n
    <3> QED BY <3>1 DEF Sizes, n
  <2>2. [i \in 0..n |-> IF i = 0 THEN 0 ELSE c[i - 1] + (Overhead + segs[i].len)]
        = [i \in 0..n |-> IF i = 0 THEN 0 ELSE c[i - 1] + h[i]]
    <3> HIDE DEF n, h
    <3> QED BY <2>1
  <2> HIDE DEF n, h
  <2> QED BY <2>2
<1> DEFINE c == CHOOSE x : Is(x)
<1>6. Is(c)
  <2> HIDE DEF Is, Has
  <2> QED BY <1>4, <1>5
<1>7. Size(segs) = c[n]
  BY DEF Size
<1>8. Has(c)
  <2> HIDE DEF Is, Has, c
  <2> QED BY <1>5, <1>6
<1>9. IsSums(c, h, n)
  <2> HIDE DEF c, n, h
  <2> QED BY <1>1, <1>2, <1>8, SumsDefined
<1> QED BY <1>7, <1>9

LEMMA SizeInNat ==
    ASSUME NEW S, Sized(S), NEW segs \in Seq(S)
    PROVE  Size(segs) \in Nat
<1>1. PICK f : IsSums(f, Sizes(segs), Len(segs)) /\ Size(segs) = f[Len(segs)]
  BY SizeIs
<1>2. Len(segs) \in Nat
  BY LenProperties
<1> QED BY <1>1, <1>2 DEF IsSums

LEMMA SizeEmpty == Size(<<>>) = 0
<1>1. <<>> \in Seq({}) /\ Len(<<>>) = 0 /\ Sized({})
  BY EmptySeq DEF Sized
<1>2. PICK f : IsSums(f, Sizes(<<>>), Len(<<>>)) /\ Size(<<>>) = f[Len(<<>>)]
  BY <1>1, SizeIs
<1> QED BY <1>1, <1>2 DEF IsSums

\* A segment more adds its header and its data.
LEMMA SizeAppend ==
    ASSUME NEW S, Sized(S), NEW segs \in Seq(S), NEW seg \in S
    PROVE  Size(Append(segs, seg)) = Size(segs) + Overhead + seg.len
<1> DEFINE n == Len(segs)
           t == Append(segs, seg)
           h == Sizes(segs)
           k == Sizes(t)
<1>1. n \in Nat /\ t \in Seq(S) /\ Len(t) = n + 1 /\ t[n + 1] = seg
      /\ \A i \in 1..n : t[i] = segs[i]
  BY LenProperties, AppendProperties
<1>2. PICK f : IsSums(f, h, n) /\ Size(segs) = f[n]
  BY SizeIs
<1>3. PICK e : IsSums(e, k, n + 1) /\ Size(t) = e[n + 1]
  <2> HIDE DEF t, n
  <2>1. PICK e : IsSums(e, Sizes(t), Len(t)) /\ Size(t) = e[Len(t)]
    BY <1>1, SizeIs
  <2> QED BY <1>1, <2>1
<1>4. \A i \in 1..n : k[0 + i] = h[i]
  <2> HIDE DEF t, n
  <2>1. \A i \in 1..n : 0 + i = i /\ i \in 1..(n + 1)
    BY <1>1
  <2> QED BY <1>1, <2>1 DEF Sizes, n
<1>5. k[n + 1] = Overhead + seg.len
  <2>1. n + 1 \in 1..(n + 1)
    BY <1>1
  <2> HIDE DEF t, n
  <2> QED BY <1>1, <2>1 DEF Sizes
<1>6. e[n] = f[n]
  <2> HIDE DEF n, h, k
  <2>1. Part(h, n, k, 0)
    BY <1>4 DEF Part
  <2>2. \A i \in 0..n : e[0 + i] = e[0] + f[i]
    <3>1. n + 1 \in Nat /\ 0 \in Nat /\ n \in 0..n /\ 0 + n <= n + 1
      BY <1>1
    <3> QED BY <1>1, <1>2, <1>3, <2>1, <3>1, SumsOfPart
  <2>3. e[0] = 0 /\ f[n] \in Nat /\ n \in 0..n /\ 0 + n = n
    BY <1>1, <1>2, <1>3 DEF IsSums
  <2> QED BY <2>2, <2>3
<1>7. e[n + 1] = e[n] + k[n + 1]
  <2>1. n + 1 \in 1..(n + 1) /\ (n + 1) - 1 = n
    BY <1>1
  <2> HIDE DEF n, k
  <2> QED BY <1>3, <2>1 DEF IsSums
<1>8. f[n] \in Nat /\ seg.len \in Nat
  <2> HIDE DEF n, h
  <2> QED BY <1>1, <1>2 DEF IsSums, Sized
<1> HIDE DEF k, h, t, n
<1> QED BY <1>2, <1>3, <1>5, <1>6, <1>7, <1>8, OverheadIs DEF t

LEMMA SizeOne ==
    ASSUME NEW S, Sized(S), NEW seg \in S
    PROVE  Size(<<seg>>) = Overhead + seg.len
<1>1. <<>> \in Seq(S) /\ Append(<<>>, seg) = <<seg>>
  BY EmptySeq
<1>2. Size(<<seg>>) = Size(<<>>) + Overhead + seg.len
  BY <1>1, SizeAppend
<1>3. seg.len \in Nat
  BY DEF Sized
<1> QED BY <1>2, <1>3, SizeEmpty, OverheadIs

-----------------------------------------------------------------------------
(* The concatenation of sequences *)

\* f[i] is the concatenation of the first i sequences of s.
IsFlat(f, s, n, S) ==
    /\ f \in [0..n -> Seq(S)]
    /\ f[0] = <<>>
    /\ \A i \in 1..n : f[i] = f[i - 1] \o s[i]

\* The concatenations exist,
LEMMA FlatExists ==
    ASSUME NEW S, NEW s \in Seq(Seq(S))
    PROVE  \E f : IsFlat(f, s, Len(s), S)
<1> DEFINE n == Len(s)
           T == Seq(S)
           g == [i \in 1..n |-> [x \in T |-> x \o s[i]]]
<1>1. n \in Nat /\ \A i \in 1..n : s[i] \in T
  BY LenProperties, ElementOfSeq
<1>2. <<>> \in T /\ \A i \in 1..n, x \in T : x \o s[i] \in T
  <2> HIDE DEF n
  <2> QED BY <1>1, EmptySeq, ConcatProperties
<1>3. g \in Steps(n, T)
  <2> HIDE DEF n, T
  <2> QED BY <1>2 DEF Steps
<1>4. PICK f : ByRecursion(f, T, <<>>, n, g)
  <2> HIDE DEF g, n, T
  <2> QED BY <1>1, <1>2, <1>3, Recursion
<1>5. f \in [0..n -> T] /\ f[0] = <<>> /\ \A i \in 1..n : f[i] = g[i][f[i - 1]]
  <2> HIDE DEF g, n, T
  <2> QED BY <1>4 DEF ByRecursion
<1>6. \A i \in 1..n : f[i] = f[i - 1] \o s[i]
  <2> TAKE i \in 1..n
  <2>1. f[i - 1] \in T
    <3>1. i - 1 \in 0..n
      BY <1>1
    <3> HIDE DEF T, n, g
    <3> QED BY <1>5, <3>1
  <2>2. f[i] = g[i][f[i - 1]]
    <3> HIDE DEF g
    <3> QED BY <1>5
  <2> HIDE DEF T
  <2> QED BY <2>1, <2>2
<1> HIDE DEF g, n
<1> QED BY <1>5, <1>6 DEF IsFlat, n

\* and FlattenSeq is the last one.
LEMMA FlattenIs ==
    ASSUME NEW S, NEW s \in Seq(Seq(S)), s # <<>>, NEW f, IsFlat(f, s, Len(s), S)
    PROVE  FlattenSeq(s) = f[Len(s)]
<1> DEFINE n == Len(s)
           Is(c) == c = [i \in 1..n |-> IF i = 1 THEN s[i] ELSE c[i - 1] \o s[i]]
           r == [i \in 1..n |-> f[i]]
           c == CHOOSE x : Is(x)
<1>1. n \in Nat /\ n > 0 /\ \A i \in 1..n : s[i] \in Seq(S)
  BY LenProperties, ElementOfSeq, EmptySeq
<1>2. f[1] = s[1]
  <2>1. f[1] = f[0] \o s[1] /\ f[0] = <<>>
    <3> HIDE DEF n
    <3>1. 1 \in 1..n /\ 1 - 1 = 0
      BY <1>1
    <3> QED BY <3>1 DEF IsFlat, n
  <2>2. s[1] \in Seq(S)
    BY <1>1
  <2> QED BY <2>1, <2>2
<1>3. \A i \in 2..n : f[i] = f[i - 1] \o s[i]
  <2>1. \A i \in 2..n : i \in 1..n
    OBVIOUS
  <2> QED BY <2>1 DEF IsFlat
<1>4. Is(r)
  <2>1. \A i \in 1..n : r[i] = IF i = 1 THEN s[i] ELSE r[i - 1] \o s[i]
    <3> TAKE i \in 1..n
    <3>1. CASE i = 1
      BY <1>2, <3>1
    <3>2. CASE i # 1
      <4>1. i \in 2..n /\ i - 1 \in 1..n
        BY <1>1, <3>2
      <4>2. r[i] = f[i] /\ r[i - 1] = f[i - 1]
        BY <4>1
      <4> HIDE DEF r
      <4> QED BY <1>3, <3>2, <4>1, <4>2
    <3> QED BY <3>1, <3>2
  <2>2. r = [i \in 1..n |-> r[i]]
    OBVIOUS
  <2> HIDE DEF r, n
  <2> QED BY <2>1, <2>2
<1>5. Is(c)
  <2> HIDE DEF Is
  <2> QED BY <1>4
<1>6. FlattenSeq(s) = c[n]
  BY <1>1 DEF FlattenSeq
<1> DEFINE Same == {i \in Nat : i \in 1..n => c[i] = f[i]}
<1>7. \A i \in 1..n : c[i] = IF i = 1 THEN s[i] ELSE c[i - 1] \o s[i]
  <2> HIDE DEF c, n
  <2> QED BY <1>5
<1>8. 0 \in Same
  OBVIOUS
<1>9. ASSUME NEW i \in Nat, i \in Same PROVE i + 1 \in Same
  <2> SUFFICES ASSUME i + 1 \in 1..n PROVE c[i + 1] = f[i + 1]
    OBVIOUS
  <2>1. CASE i = 0
    <3>1. c[1] = s[1] /\ i + 1 = 1
      <4> HIDE DEF c, n
      <4> QED BY <1>1, <1>7, <2>1
    <3> HIDE DEF c
    <3> QED BY <1>2, <3>1
  <2>2. CASE i # 0
    <3>1. i + 1 \in 2..n /\ i \in 1..n /\ (i + 1) - 1 = i /\ i + 1 # 1
      BY <1>1, <2>2
    <3>2. c[i] = f[i]
      BY <1>9, <3>1
    <3>3. c[i + 1] = c[(i + 1) - 1] \o s[i + 1]
      <4> HIDE DEF c, n
      <4> QED BY <1>7, <3>1
    <3>4. f[i + 1] = f[(i + 1) - 1] \o s[i + 1]
      BY <1>3, <3>1
    <3> HIDE DEF c, n
    <3> QED BY <3>1, <3>2, <3>3, <3>4
  <2> QED BY <2>1, <2>2
<1>10. Nat \subseteq Same
  <2> HIDE DEF Same
  <2> QED BY <1>8, <1>9, NatStep
<1>11. n \in Same
  <2> HIDE DEF Same
  <2> QED BY <1>1, <1>10
<1> HIDE DEF c
<1> QED BY <1>1, <1>6, <1>11

LEMMA FlattenInSeq ==
    ASSUME NEW S, NEW s \in Seq(Seq(S))
    PROVE  FlattenSeq(s) \in Seq(S)
<1>1. CASE s = <<>>
  <2>1. FlattenSeq(s) = <<>>
    BY <1>1, EmptySeq DEF FlattenSeq
  <2> QED BY <2>1, EmptySeq
<1>2. CASE s # <<>>
  <2>1. PICK f : IsFlat(f, s, Len(s), S)
    BY FlatExists
  <2>2. FlattenSeq(s) = f[Len(s)]
    BY <1>2, <2>1, FlattenIs
  <2>3. Len(s) \in 0..Len(s)
    BY LenProperties
  <2> QED BY <2>1, <2>2, <2>3 DEF IsFlat
<1> QED BY <1>1, <1>2

\* The first n values of two concatenations that begin with the same n sequences.
LEMMA FlatPrefix ==
    ASSUME NEW S, NEW n \in Nat, NEW m \in Nat, n <= m, NEW s, NEW t, NEW f, NEW h,
           IsFlat(f, s, n, S), IsFlat(h, t, m, S), Part(s, n, t, 0)
    PROVE  h[n] = f[n]
<1> DEFINE Same == {i \in Nat : i <= n => h[i] = f[i]}
<1>1. 0 \in Same
  BY DEF IsFlat
<1>2. ASSUME NEW i \in Nat, i \in Same PROVE i + 1 \in Same
  <2> SUFFICES ASSUME i + 1 <= n PROVE h[i + 1] = f[i + 1]
    OBVIOUS
  <2>1. i + 1 \in 1..n /\ i + 1 \in 1..m /\ (i + 1) - 1 = i /\ 0 + (i + 1) = i + 1
    OBVIOUS
  <2>2. h[i] = f[i]
    BY <1>2, <2>1
  <2>3. f[i + 1] = f[(i + 1) - 1] \o s[i + 1]
    BY <2>1 DEF IsFlat
  <2>4. h[i + 1] = h[(i + 1) - 1] \o t[i + 1]
    BY <2>1 DEF IsFlat
  <2>5. t[i + 1] = s[i + 1]
    BY <2>1 DEF Part
  <2> QED BY <2>1, <2>2, <2>3, <2>4, <2>5
<1>3. Nat \subseteq Same
  <2> HIDE DEF Same
  <2> QED BY <1>1, <1>2, NatStep
<1> QED BY <1>3

\* A sequence more is concatenated at the end.
LEMMA FlattenAppend ==
    ASSUME NEW S, NEW s \in Seq(Seq(S)), NEW x \in Seq(S)
    PROVE  FlattenSeq(Append(s, x)) = FlattenSeq(s) \o x
<1> DEFINE n == Len(s)
           T == Seq(S)
           t == Append(s, x)
<1>1. n \in Nat /\ t \in Seq(T) /\ Len(t) = n + 1 /\ t[n + 1] = x
      /\ \A i \in 1..n : t[i] = s[i]
  <2>1. s \in Seq(T) /\ x \in T
    OBVIOUS
  <2> HIDE DEF T
  <2> QED BY <2>1, LenProperties, AppendProperties
<1>2. t # <<>>
  BY <1>1, EmptySeq
<1>3. PICK h : IsFlat(h, t, n + 1, S)
  <2> HIDE DEF t, n
  <2>1. PICK h : IsFlat(h, t, Len(t), S)
    BY <1>1, FlatExists
  <2> QED BY <1>1, <2>1
<1>4. FlattenSeq(t) = h[n + 1]
  <2> HIDE DEF t, n
  <2> QED BY <1>1, <1>2, <1>3, FlattenIs
<1>5. PICK f : IsFlat(f, s, n, S)
  BY FlatExists
<1>6. Part(s, n, t, 0)
  <2>1. \A i \in 1..n : 0 + i = i
    BY <1>1
  <2> HIDE DEF t, n
  <2> QED BY <1>1, <2>1 DEF Part
<1>7. h[n] = f[n]
  <2> HIDE DEF t, n
  <2> QED BY <1>1, <1>3, <1>5, <1>6, FlatPrefix
<1>8. FlattenSeq(s) = f[n]
  <2>1. CASE s = <<>>
    <3>1. FlattenSeq(s) = <<>> /\ n = 0
      BY <2>1, EmptySeq DEF FlattenSeq
    <3> QED BY <1>5, <3>1 DEF IsFlat
  <2>2. CASE s # <<>>
    BY <1>5, <2>2, FlattenIs
  <2> QED BY <2>1, <2>2
<1>9. h[n + 1] = h[n] \o x
  <2>1. n + 1 \in 1..(n + 1) /\ (n + 1) - 1 = n
    BY <1>1
  <2>2. h[n + 1] = h[(n + 1) - 1] \o t[n + 1]
    <3> HIDE DEF t, n
    <3> QED BY <1>3, <2>1 DEF IsFlat
  <2> HIDE DEF t, n
  <2> QED BY <1>1, <2>1, <2>2
<1> HIDE DEF n
<1> QED BY <1>4, <1>7, <1>8, <1>9 DEF t

-----------------------------------------------------------------------------
(* What a flush packs *)

\* What a datagram can hold.
Datagrams(S) == Seq(S) \ {<<>>}

\* None of the datagrams of p is larger than m.
Small(p, m) == \A j \in 1..Len(p) : Size(p[j]) <= m

\* What Append makes.
LEMMA AppendIs ==
    ASSUME NEW T, NEW p \in Seq(T), NEW x \in T
    PROVE  /\ Append(p, x) \in Seq(T)
           /\ Append(p, x) # <<>>
           /\ Len(Append(p, x)) = Len(p) + 1
           /\ Append(p, x)[Len(p) + 1] = x
           /\ \A j \in 1..Len(p) : Append(p, x)[j] = p[j]
BY AppendProperties, LenProperties, EmptySeq

\* A sequence is its front and its last element.
LEMMA FrontLast ==
    ASSUME NEW T, NEW p \in Seq(T), p # <<>>
    PROVE  /\ Front(p) \in Seq(T)
           /\ Last(p) \in T
           /\ p = Append(Front(p), Last(p))
           /\ Len(p) \in Nat /\ Len(p) > 0
           /\ Len(Front(p)) = Len(p) - 1
           /\ \A j \in 1..Len(Front(p)) : Front(p)[j] = p[j]
<1> DEFINE n == Len(p)
<1>1. n \in Nat /\ n > 0
  BY LenProperties, EmptySeq
<1>2. Front(p) \in Seq(T) /\ Len(Front(p)) = n - 1 /\ \A j \in 1..(n - 1) : Front(p)[j] = p[j]
  <2>1. \A j \in 1..(n - 1) : p[j] \in T /\ 1 + j - 1 = j
    BY <1>1, ElementOfSeq
  <2>2. 1 \in Int /\ n - 1 \in Nat /\ (n - 1) - 1 + 1 = n - 1
    BY <1>1
  <2> HIDE DEF n
  <2> QED BY <2>1, <2>2, SubSeqProperties DEF Front, n
<1>3. Last(p) \in T
  BY <1>1, ElementOfSeq DEF Last
<1>4. p = Append(Front(p), Last(p))
  <2> DEFINE q == Append(Front(p), Last(p))
  <2>1. q \in Seq(T) /\ Len(q) = Len(Front(p)) + 1 /\ q[Len(Front(p)) + 1] = Last(p)
        /\ \A j \in 1..Len(Front(p)) : q[j] = Front(p)[j]
    BY <1>2, <1>3, AppendIs
  <2> HIDE DEF q
  <2>2. Len(q) = n /\ q[n] = p[n] /\ \A j \in 1..(n - 1) : q[j] = p[j]
    BY <1>1, <1>2, <2>1 DEF Last
  <2>3. \A j \in 1..n : q[j] = p[j]
    BY <1>1, <2>2
  <2> QED BY <2>1, <2>2, <2>3, SeqEqual DEF q
<1> QED BY <1>1, <1>2, <1>3, <1>4

\* A small datagram more.
LEMMA SmallAppend ==
    ASSUME NEW T, NEW p \in Seq(T), NEW x \in T, NEW m, Small(p, m), Size(x) <= m
    PROVE  Small(Append(p, x), m)
<1> DEFINE q == Append(p, x)
<1>1. Len(p) \in Nat /\ Len(q) = Len(p) + 1 /\ q[Len(p) + 1] = x
      /\ \A j \in 1..Len(p) : q[j] = p[j]
  BY AppendIs, LenProperties
<1> HIDE DEF q
<1>2. ASSUME NEW j \in 1..Len(q) PROVE Size(q[j]) <= m
  <2>1. j \in 1..Len(p) \/ j = Len(p) + 1
    BY <1>1
  <2> QED BY <1>1, <2>1 DEF Small
<1>3. Small(q, m)
  BY <1>2 DEF Small
<1> QED BY <1>3 DEF q

\* One more segment is written, into the buffer or into the next datagram.
LEMMA PutIs ==
    ASSUME NEW S, Sized(S), NEW p \in Seq(Datagrams(S)), NEW seg \in S, NEW m \in Nat
    PROVE  /\ Put(m, p, seg) \in Seq(Datagrams(S))
           /\ FlattenSeq(Put(m, p, seg)) = Append(FlattenSeq(p), seg)
           /\ Small(p, m) /\ Overhead + seg.len <= m => Small(Put(m, p, seg), m)
<1> DEFINE D == Datagrams(S)
           q == Put(m, p, seg)
<1>1. p \in Seq(Seq(S)) /\ FlattenSeq(p) \in Seq(S) /\ seg.len \in Nat
  <2>1. p \in Seq(Seq(S))
    <3> DEFINE R == Seq(S)
    <3>1. p \in Seq(D) /\ D \subseteq R
      BY DEF Datagrams
    <3> HIDE DEF D, R
    <3>2. p \in Seq(R)
      BY <3>1, LenProperties, ElementOfSeq, SeqDef
    <3> QED BY <3>2 DEF R
  <2> QED BY <2>1, FlattenInSeq DEF Sized
<1>2. CASE p # <<>> /\ Fits(m, Last(p), seg)
  <2> DEFINE u == Front(p)
             x == Last(p)
             y == Append(x, seg)
  <2>1. u \in Seq(D) /\ x \in D /\ p = Append(u, x)
        /\ Len(p) \in Nat /\ Len(p) > 0 /\ Len(u) = Len(p) - 1 /\ \A j \in 1..Len(u) : u[j] = p[j]
    <3> HIDE DEF D
    <3> QED BY <1>2, FrontLast DEF D
  <2>2. x \in Seq(S)
    BY <2>1 DEF Datagrams
  <2>3. u \in Seq(Seq(S))
    <3> DEFINE R == Seq(S)
    <3>1. D \subseteq R
      BY DEF Datagrams
    <3> HIDE DEF D, R, u
    <3>2. u \in Seq(R)
      BY <2>1, <3>1, LenProperties, ElementOfSeq, SeqDef
    <3> QED BY <3>2 DEF R
  <2> HIDE DEF u, x
  <2>4. y \in Seq(S) /\ y # <<>>
    BY <2>2, AppendIs
  <2>5. y \in D
    BY <2>4 DEF Datagrams
  <2>6. q = Append(u, y)
    BY <1>2 DEF Put, u, x
  <2> HIDE DEF q
  <2>7. q \in Seq(D)
    <3> HIDE DEF D, y
    <3> QED BY <2>1, <2>5, <2>6, AppendIs
  <2>8. FlattenSeq(q) = Append(FlattenSeq(p), seg)
    <3>1. FlattenSeq(q) = FlattenSeq(u) \o y
      <4> HIDE DEF y
      <4> QED BY <2>3, <2>4, <2>6, FlattenAppend
    <3>2. FlattenSeq(p) = FlattenSeq(u) \o x
      BY <2>1, <2>2, <2>3, FlattenAppend
    <3>3. FlattenSeq(u) \in Seq(S)
      BY <2>3, FlattenInSeq
    <3> DEFINE z == FlattenSeq(u)
    <3> HIDE DEF z
    <3>4. z \in Seq(S) => z \o Append(x, seg) = Append(z \o x, seg)
      BY <2>2
    <3> QED BY <3>1, <3>2, <3>3, <3>4 DEF z
  <2>9. ASSUME Small(p, m) PROVE Small(q, m)
    <3>1. Small(u, m)
      <4>1. \A j \in 1..Len(u) : j \in 1..Len(p)
        BY <2>1
      <4> QED BY <2>1, <2>9, <4>1 DEF Small
    <3>2. Size(y) = Size(x) + Overhead + seg.len
      BY <2>2, SizeAppend
    <3>3. Size(y) <= m
      BY <1>2, <3>2 DEF Fits, x
    <3> HIDE DEF D, y
    <3> QED BY <2>1, <2>5, <2>6, <3>1, <3>3, SmallAppend
  <2> QED BY <2>7, <2>8, <2>9 DEF q
<1>3. CASE ~ (p # <<>> /\ Fits(m, Last(p), seg))
  <2> DEFINE y == <<seg>>
  <2>1. q = Append(p, y)
    BY <1>3 DEF Put
  <2>2. y \in Seq(S) /\ y # <<>>
    OBVIOUS
  <2>3. y \in D
    BY <2>2 DEF Datagrams
  <2>4. Size(y) = Overhead + seg.len
    BY SizeOne
  <2> HIDE DEF q
  <2>5. q \in Seq(D)
    <3> HIDE DEF D, y
    <3> QED BY <2>1, <2>3, AppendIs DEF D
  <2>6. FlattenSeq(q) = Append(FlattenSeq(p), seg)
    <3>1. FlattenSeq(q) = FlattenSeq(p) \o y
      <4> HIDE DEF y
      <4> QED BY <1>1, <2>1, <2>2, FlattenAppend
    <3> DEFINE z == FlattenSeq(p)
    <3> HIDE DEF z
    <3>2. z \in Seq(S) => z \o <<seg>> = Append(z, seg)
      OBVIOUS
    <3> QED BY <1>1, <3>1, <3>2 DEF z
  <2>7. ASSUME Small(p, m), Overhead + seg.len <= m PROVE Small(q, m)
    <3>1. p \in Seq(D)
      OBVIOUS
    <3> HIDE DEF D, y
    <3> QED BY <2>1, <2>3, <2>4, <2>7, <3>1, SmallAppend
  <2> QED BY <2>5, <2>6, <2>7 DEF q
<1> QED BY <1>2, <1>3

\* p holds the first k segments due.
IsPacking(p, due, k, m, S) ==
    /\ p \in Seq(Datagrams(S))
    /\ FlattenSeq(p) = SubSeq(due, 1, k)
    /\ (\A i \in 1..Len(due) : Overhead + due[i].len <= m) => Small(p, m)

\* All that is due is packed.
LEMMA PackIs ==
    ASSUME NEW S, Sized(S), NEW due \in Seq(S), NEW m \in Nat
    PROVE  IsPacking(Pack(m, due), due, Len(due), m, S)
<1> DEFINE n == Len(due)
           T == Seq(Datagrams(S))
           g == [i \in 1..n |-> [p \in T |-> Put(m, p, due[i])]]
           Is(f) == f = [i \in 0..n |-> IF i = 0 THEN <<>> ELSE Put(m, f[i - 1], due[i])]
           c == CHOOSE f : Is(f)
<1>1. n \in Nat /\ \A i \in 1..n : due[i] \in S
  BY LenProperties, ElementOfSeq
<1>2. <<>> \in T
  BY EmptySeq
<1>3. \A i \in 1..n, p \in T : Put(m, p, due[i]) \in T
  <2> HIDE DEF n
  <2> QED BY <1>1, PutIs
<1>4. g \in Steps(n, T)
  <2> HIDE DEF n, T
  <2> QED BY <1>3 DEF Steps
<1>5. PICK f : ByRecursion(f, T, <<>>, n, g)
  <2> HIDE DEF g, n, T
  <2> QED BY <1>1, <1>2, <1>4, Recursion
<1>6. f \in [0..n -> T] /\ f[0] = <<>> /\ \A i \in 1..n : f[i] = g[i][f[i - 1]]
  <2> HIDE DEF g, n, T
  <2> QED BY <1>5 DEF ByRecursion
<1>7. Is(f)
  <2>1. \A i \in 1..n : f[i] = Put(m, f[i - 1], due[i])
    <3> TAKE i \in 1..n
    <3>1. f[i - 1] \in T
      <4>1. i - 1 \in 0..n
        BY <1>1
      <4> HIDE DEF T, n, g
      <4> QED BY <1>6, <4>1
    <3>2. f[i] = g[i][f[i - 1]]
      <4> HIDE DEF g
      <4> QED BY <1>6
    <3> HIDE DEF T
    <3> QED BY <3>1, <3>2
  <2>2. \A i \in 0..n : f[i] = IF i = 0 THEN <<>> ELSE Put(m, f[i - 1], due[i])
    <3>1. \A i \in 0..n : i # 0 => i \in 1..n
      BY <1>1
    <3> HIDE DEF g, T, n
    <3> QED BY <1>6, <2>1, <3>1
  <2> HIDE DEF g, T, n
  <2> QED BY <1>6, <2>2
<1>8. Is(c)
  <2> HIDE DEF Is
  <2> QED BY <1>7
<1>9. Pack(m, due) = c[n]
  BY DEF Pack, PackInto
<1> DEFINE Holds == {i \in Nat : i <= n => IsPacking(c[i], due, i, m, S)}
<1>10. 0 \in Holds
  <2>1. c[0] = <<>>
    <3> HIDE DEF c, n
    <3> QED BY <1>1, <1>8
  <2>2. FlattenSeq(<<>>) = <<>> /\ SubSeq(due, 1, 0) = <<>>
    BY EmptySeq DEF FlattenSeq
  <2>3. Small(<<>>, m)
    BY EmptySeq DEF Small
  <2>4. IsPacking(<<>>, due, 0, m, S)
    <3> HIDE DEF T
    <3> QED BY <1>2, <2>2, <2>3 DEF IsPacking, T
  <2> HIDE DEF c
  <2> QED BY <2>1, <2>4
<1>11. ASSUME NEW i \in Nat, i \in Holds PROVE i + 1 \in Holds
  <2> SUFFICES ASSUME i + 1 <= n PROVE IsPacking(c[i + 1], due, i + 1, m, S)
    OBVIOUS
  <2>1. i + 1 \in 1..n /\ i + 1 \in 0..n /\ i + 1 # 0 /\ (i + 1) - 1 = i /\ i <= n
    BY <1>1
  <2>2. IsPacking(c[i], due, i, m, S)
    <3> HIDE DEF c
    <3> QED BY <1>11, <2>1
  <2>3. c[i + 1] = Put(m, c[i], due[i + 1])
    <3>1. c[i + 1] = Put(m, c[(i + 1) - 1], due[i + 1])
      <4> HIDE DEF c, n
      <4> QED BY <1>8, <2>1
    <3> HIDE DEF c
    <3> QED BY <2>1, <3>1
  <2> DEFINE p == c[i]
             seg == due[i + 1]
             q == Put(m, p, seg)
  <2>4. p \in Seq(Datagrams(S)) /\ seg \in S
    <3> HIDE DEF c
    <3> QED BY <1>1, <2>1, <2>2 DEF IsPacking
  <2>5. /\ q \in Seq(Datagrams(S))
        /\ FlattenSeq(q) = Append(FlattenSeq(p), seg)
        /\ Small(p, m) /\ Overhead + seg.len <= m => Small(q, m)
    <3> HIDE DEF p, seg
    <3> QED BY <2>4, PutIs
  <2>6. SubSeq(due, 1, i + 1) = Append(SubSeq(due, 1, i), due[i + 1])
    BY <1>1, <2>1
  <2>7. IsPacking(q, due, i + 1, m, S)
    <3> HIDE DEF q, p
    <3> QED BY <2>1, <2>2, <2>5, <2>6 DEF IsPacking, p
  <2> HIDE DEF c
  <2> QED BY <2>3, <2>7
<1>12. Nat \subseteq Holds
  <2> HIDE DEF Holds
  <2> QED BY <1>10, <1>11, NatStep
<1>13. n \in Holds
  <2> HIDE DEF Holds
  <2> QED BY <1>1, <1>12
<1> HIDE DEF c
<1> QED BY <1>1, <1>9, <1>13

-----------------------------------------------------------------------------
(* The inductive invariant *)

\* The segments that b has.
Held == {g.sn : g \in got}

\* Pushes with the data of their segment, and ACKs of what the receiver has.
Genuine ==
    {seg \in Segment :
        \/ /\ seg.cmd = "push" /\ seg.una = 0
           /\ seg.sn \in DOMAIN queued /\ seg.len = queued[seg.sn]
        \/ seg.cmd = "ack" /\ seg.sn \in Held /\ 1..seg.una \subseteq Held}

\* TypeOK of the network.
NetOK ==
    \A d \in net : d.to \in Peer /\ d.segs \in Seq(Segment) \ {<<>>} /\ d.size \in Nat

\* What is under way of this conversation was put there by its peers.
NetInv == \A d \in net : d.ours => d.segs \in Seq(Genuine)

\* Only what b has waits to be acknowledged.
AcksInv == acks \in Seq(Held)

\* Each segment was cut by an mtu that was set.
CutInv ==
    /\ mtu \in {use.mtu} \cup use.mtus /\ ~MtuRefused(mtu)
    /\ Len(queued) <= MaxSegs
    /\ \A sn \in DOMAIN queued : \E m \in {use.mtu} \cup use.mtus :
           /\ Overhead + queued[sn] <= m
           /\ use.mtu \notin use.mtus /\ mtu = use.mtu => m = mtu

\* The inductive invariant.
Inv ==
    /\ TypeOK
    /\ NetInv
    /\ AcksInv
    /\ CutInv
    /\ WholeSegmentsOnly
    /\ AckedIsTakenIn

\* What a use has.
LEMMA UseIs ==
    ASSUME use \in Uses
    PROVE  /\ use.mtu \in Nat /\ ~MtuRefused(use.mtu)
           /\ use.mtus \subseteq Nat
           /\ use.recvBuf \in Nat /\ use.added \in Nat
BY WireAssumption DEF Use

\* A segment has room for data.
LEMMA MssIs ==
    ASSUME mtu \in Nat, ~MtuRefused(mtu)
    PROVE  Mss \in Nat /\ Mss > 0 /\ Overhead + Mss = mtu
BY WireAssumption DEF Mss, MtuRefused

LEMMA SegmentsAreSized == Sized(Segment) /\ Sized(Genuine)
BY DEF Sized, Segment, Genuine

\* A sequence over a set is one over a larger set.
LEMMA SubsetSeq ==
    ASSUME NEW A, NEW B, A \subseteq B, NEW s \in Seq(A)
    PROVE  s \in Seq(B)
BY LenProperties, ElementOfSeq, SeqDef

\* What is genuine stays so while segments are queued and taken in.
LEMMA GenuineGrows ==
    ASSUME DOMAIN queued \subseteq DOMAIN queued', got \subseteq got',
           \A sn \in DOMAIN queued : queued'[sn] = queued[sn]
    PROVE  Genuine \subseteq Genuine' /\ Held \subseteq Held'
BY DEF Genuine, Held

\* What is under way stays genuine.
LEMMA NetInvKept ==
    ASSUME NetInv, Genuine \subseteq Genuine', NetOK, net' \subseteq net
    PROVE  NetInv' /\ NetOK'
<1>1. ASSUME NEW d \in net', d.ours PROVE d.segs \in Seq(Genuine')
  <2>1. d.segs \in Seq(Genuine)
    BY <1>1 DEF NetInv
  <2> QED BY <2>1, SubsetSeq
<1> QED BY <1>1 DEF NetInv, NetOK

\* No fragment is empty or larger than the mss.
LEMMA FragmentsIs ==
    ASSUME NEW n \in Nat, n > 0, Mss \in Nat, Mss > 0
    PROVE  Fragments(n) \in Seq(1..Mss)
<1> DEFINE k == (n + Mss - 1) \div Mss
<1>1. k \in Nat /\ k * Mss <= n + Mss - 1
  <2>1. n + Mss - 1 \in Nat
    OBVIOUS
  <2> QED BY <2>1, Quotient
<1>2. ASSUME NEW i \in 1..k PROVE Min({Mss, n - (i - 1) * Mss}) \in 1..Mss
  <2>1. (i - 1) * Mss <= (k - 1) * Mss /\ (i - 1) * Mss \in Nat
    <3> HIDE DEF k
    <3>1. i - 1 \in Nat /\ k - i \in Nat
      BY <1>1
    <3>2. (k - 1) * Mss = (i - 1) * Mss + (k - i) * Mss
      BY <1>1, <3>1
    <3>3. (k - i) * Mss \in Nat /\ (i - 1) * Mss \in Nat
      BY <3>1
    <3> QED BY <3>2, <3>3
  <2>2. (k - 1) * Mss = k * Mss - Mss /\ k * Mss \in Nat
    <3> HIDE DEF k
    <3> QED BY <1>1
  <2>3. n - (i - 1) * Mss \in Nat /\ n - (i - 1) * Mss >= 1
    BY <1>1, <2>1, <2>2
  <2> DEFINE r == n - (i - 1) * Mss
  <2>4. Min({Mss, r}) \in {Mss, r} /\ Min({Mss, r}) <= Mss
    <3>1. r \in Int /\ Mss \in Int
      BY <2>3
    <3> HIDE DEF r
    <3> QED BY <3>1, MinOfTwo
  <2> QED BY <2>3, <2>4
<1>3. Fragments(n) \in [1..k -> 1..Mss]
  BY <1>2 DEF Fragments
<1> DEFINE R == 1..Mss
<1> HIDE DEF k, R
<1>4. Fragments(n) \in [1..k -> R]
  BY <1>3 DEF R
<1>5. Fragments(n) \in Seq(R)
  BY <1>1, <1>4, FunctionIsSeq
<1> QED BY <1>5 DEF R

\* One lemma per action.
LEMMA InitInv == Init => Inv
<1> SUFFICES ASSUME Init PROVE Inv
  OBVIOUS
<1>1. TypeOK
  BY UseIs DEF Init, TypeOK
<1>2. NetInv /\ AcksInv /\ WholeSegmentsOnly /\ AckedIsTakenIn
  BY EmptySeq DEF Init, NetInv, AcksInv, WholeSegmentsOnly, AckedIsTakenIn
<1>3. CutInv
  BY UseIs, WireAssumption DEF Init, CutInv
<1> QED BY <1>1, <1>2, <1>3 DEF Inv

LEMMA SendIs ==
    ASSUME Inv, NEW n \in Lens, Send(n)
    PROVE  Inv'
<1> DEFINE fs == Fragments(n)
<1>1. use \in Uses /\ mtu \in Nat /\ ~MtuRefused(mtu) /\ NetOK /\ queued \in Seq(Nat \ {0})
  BY DEF Inv, TypeOK, NetOK, CutInv
<1>2. Mss \in Nat /\ Mss > 0 /\ Overhead + Mss = mtu
  BY <1>1, MssIs
<1>3. fs \in Seq(1..Mss)
  BY <1>2, FragmentsIs, WireAssumption
<1>4. queued' = queued \o fs /\ Len(queued) + Len(fs) <= MaxSegs
      /\ UNCHANGED <<use, mtu, acked, got, acks, net>>
  BY DEF Send
<1> HIDE DEF fs
<1>5. /\ queued' \in Seq(Nat \ {0})
      /\ Len(queued') = Len(queued) + Len(fs)
      /\ \A i \in 1..Len(queued) : queued'[i] = queued[i]
      /\ \A i \in 1..Len(fs) : queued'[Len(queued) + i] = fs[i]
      /\ Len(queued) \in Nat /\ Len(fs) \in Nat
      /\ DOMAIN queued = 1..Len(queued) /\ DOMAIN queued' = 1..Len(queued')
  <2> DEFINE R == Nat \ {0}
  <2>1. 1..Mss \subseteq R
    BY <1>2
  <2>2. fs \in Seq(R) /\ queued \in Seq(R)
    <3> HIDE DEF R
    <3> QED BY <1>1, <1>3, <2>1, SubsetSeq DEF R
  <2> HIDE DEF R
  <2>3. queued' \in Seq(R)
    BY <1>4, <2>2, ConcatProperties
  <2>4. Len(queued') = Len(queued) + Len(fs)
        /\ (\A i \in 1..Len(queued) : queued'[i] = queued[i])
        /\ (\A i \in 1..Len(fs) : queued'[Len(queued) + i] = fs[i])
        /\ Len(queued) \in Nat /\ Len(fs) \in Nat
    BY <1>4, <2>2, ConcatProperties, LenProperties
  <2> QED BY <2>2, <2>3, <2>4, LenProperties DEF R
<1>6. Genuine \subseteq Genuine' /\ Held' = Held
  <2>1. DOMAIN queued \subseteq DOMAIN queued' /\ got \subseteq got'
    BY <1>4, <1>5
  <2>2. \A sn \in DOMAIN queued : queued'[sn] = queued[sn]
    BY <1>5
  <2> QED BY <2>1, <2>2, <1>4, GenuineGrows DEF Held
<1>7. NetInv' /\ NetOK'
  BY <1>1, <1>4, <1>6, NetInvKept DEF Inv
<1>8. TypeOK'
  BY <1>4, <1>5, <1>7 DEF Inv, TypeOK, NetOK
<1>9. AcksInv' /\ AckedIsTakenIn'
  BY <1>4, <1>6 DEF Inv, AcksInv, AckedIsTakenIn, Held
<1>10. WholeSegmentsOnly'
  BY <1>4, <1>5 DEF Inv, WholeSegmentsOnly
<1>11. CutInv'
  <2>1. mtu' \in {use'.mtu} \cup use'.mtus /\ ~MtuRefused(mtu') /\ Len(queued') <= MaxSegs
    BY <1>4, <1>5 DEF Inv, CutInv
  <2>2. ASSUME NEW sn \in DOMAIN queued'
        PROVE  \E m \in {use'.mtu} \cup use'.mtus :
                   /\ Overhead + queued'[sn] <= m
                   /\ use'.mtu \notin use'.mtus /\ mtu' = use'.mtu => m = mtu'
    <3>1. CASE sn \in DOMAIN queued
      <4>1. queued'[sn] = queued[sn]
        BY <1>5, <3>1
      <4> QED BY <1>4, <3>1, <4>1 DEF Inv, CutInv
    <3>2. CASE sn \notin DOMAIN queued
      <4>1. sn - Len(queued) \in 1..Len(fs) /\ Len(queued) + (sn - Len(queued)) = sn
        BY <1>5, <3>2
      <4>2. queued'[sn] = fs[sn - Len(queued)]
        BY <1>5, <4>1
      <4>3. fs[sn - Len(queued)] \in 1..Mss
        <5> DEFINE R == 1..Mss
        <5> HIDE DEF R
        <5> QED BY <1>3, <4>1, ElementOfSeq DEF R
      <4>4. Overhead + queued'[sn] <= mtu
        BY <1>2, <4>2, <4>3, OverheadIs
      <4> QED BY <1>4, <4>4, <2>1
    <3> QED BY <3>1, <3>2
  <2> QED BY <2>1, <2>2 DEF CutInv
<1> QED BY <1>7, <1>8, <1>9, <1>10, <1>11 DEF Inv

LEMMA SetMtuIs ==
    ASSUME Inv, NEW m \in use.mtus, SetMtu(m)
    PROVE  Inv'
<1>1. use \in Uses /\ m \in Nat /\ NetOK
  BY UseIs DEF Inv, TypeOK, NetOK
<1>2. mtu' = m /\ ~MtuRefused(m) /\ UNCHANGED <<use, queued, acked, got, acks, net>>
  BY DEF SetMtu
<1>3. Genuine' = Genuine /\ Held' = Held
  BY <1>2 DEF Genuine, Held
<1>4. NetInv' /\ NetOK'
  BY <1>1, <1>2, <1>3, NetInvKept DEF Inv
<1>5. TypeOK'
  BY <1>1, <1>2, <1>4 DEF Inv, TypeOK, NetOK
<1>6. AcksInv' /\ AckedIsTakenIn' /\ WholeSegmentsOnly'
  BY <1>2, <1>3 DEF Inv, AcksInv, AckedIsTakenIn, Held, WholeSegmentsOnly
<1>7. CutInv'
  BY <1>2 DEF Inv, CutInv
<1> QED BY <1>4, <1>5, <1>6, <1>7 DEF Inv

\* What a step leaves as it was, but for the network.
Rest == <<use, mtu, queued, acked, got, acks>>

\* A step of the network only.
LEMMA RestKept ==
    ASSUME Inv, UNCHANGED Rest, NetInv', NetOK'
    PROVE  Inv'
<1>1. TypeOK'
  BY DEF Inv, TypeOK, NetOK, Rest
<1>2. AcksInv' /\ AckedIsTakenIn' /\ WholeSegmentsOnly'
  BY DEF Inv, AcksInv, AckedIsTakenIn, Held, WholeSegmentsOnly, Rest
<1>3. CutInv'
  BY DEF Inv, CutInv, Rest
<1> QED BY <1>1, <1>2, <1>3 DEF Inv

LEMMA LoseIs ==
    ASSUME Inv, NEW d \in net, Lose(d)
    PROVE  Inv'
<1>1. UNCHANGED Rest /\ net' \subseteq net /\ NetOK
  BY DEF Lose, Rest, Inv, TypeOK, NetOK
<1>2. Genuine \subseteq Genuine'
  BY <1>1 DEF Genuine, Held, Rest
<1>3. NetInv' /\ NetOK'
  BY <1>1, <1>2, NetInvKept DEF Inv
<1> QED BY <1>1, <1>3, RestKept

LEMMA ForeignIs ==
    ASSUME Inv, Foreign
    PROVE  Inv'
<1> DEFINE seg == [cmd |-> "push", sn |-> 1, len |-> Mss, una |-> 0]
           new == [to |-> "b", ours |-> FALSE, segs |-> <<seg>>, size |-> mtu + use.added]
<1>1. UNCHANGED Rest /\ net' = net \cup {new} /\ NetOK
  BY DEF Foreign, Rest, Inv, TypeOK, NetOK
<1>2. use \in Uses /\ mtu \in Nat /\ use.added \in Nat /\ Mss \in Nat
  BY UseIs, MssIs DEF Inv, TypeOK, CutInv
<1>3. seg \in Segment
  BY <1>2, WireAssumption DEF Segment
<1>4. <<seg>> \in Seq(Segment) \ {<<>>}
  <2> HIDE DEF seg
  <2> QED BY <1>3
<1>5. new.to \in Peer /\ new.segs \in Seq(Segment) \ {<<>>} /\ new.size \in Nat /\ ~new.ours
  <2>1. new.size = mtu + use.added /\ new.segs = <<seg>> /\ new.ours = FALSE /\ new.to = "b"
    OBVIOUS
  <2> HIDE DEF new
  <2> QED BY <1>2, <1>4, <2>1 DEF Peer
<1> HIDE DEF new
<1>6. Genuine' = Genuine
  BY <1>1 DEF Genuine, Held, Rest
<1>7. NetOK'
  BY <1>1, <1>5 DEF NetOK
<1>8. NetInv'
  BY <1>1, <1>5, <1>6 DEF NetInv, Inv
<1> QED BY <1>1, <1>7, <1>8, RestKept

\* What a peer puts on the wire, when what is due is genuine.
LEMMA FlushIs ==
    ASSUME Inv, NEW p \in Peer, NEW due \in Seq(Genuine), NEW sent, Flush(p, due, sent)
    PROVE  NetInv' /\ NetOK' /\ UNCHANGED <<use, mtu, queued, acked, got>>
<1> DEFINE m == IF p = "a" THEN mtu ELSE use.mtu
           out == Pack(m, due)
<1>1. /\ net' = net \cup OnWire(p, out, sent)
      /\ UNCHANGED <<use, mtu, queued, acked, got>>
  BY DEF Flush
<1>2. m \in Nat /\ use.added \in Nat /\ NetOK
  BY UseIs DEF Inv, TypeOK, NetOK
<1>3. out \in Seq(Datagrams(Genuine))
  <2> HIDE DEF m
  <2> QED BY <1>2, SegmentsAreSized, PackIs DEF IsPacking
<1> HIDE DEF out
<1>4. ASSUME NEW d \in OnWire(p, out, sent)
      PROVE  d.to \in Peer /\ d.segs \in Seq(Genuine) \ {<<>>} /\ d.size \in Nat
  <2>1. PICK i \in DOMAIN out : d = Datagram(p, out[i])
    BY <1>4 DEF OnWire
  <2>2. out[i] \in Datagrams(Genuine)
    BY <1>3, <2>1, ElementOfSeq, LenProperties
  <2> DEFINE segs == out[i]
  <2>3. segs \in Seq(Genuine) \ {<<>>}
    BY <2>2 DEF Datagrams
  <2> HIDE DEF segs
  <2>4. Size(segs) \in Nat
    BY <2>3, SegmentsAreSized, SizeInNat
  <2>5. d.to = Other(p) /\ d.segs = segs /\ d.size = Size(segs) + use.added
    BY <2>1 DEF Datagram, segs
  <2> QED BY <1>2, <2>3, <2>4, <2>5 DEF Other, Peer
<1>5. Genuine' = Genuine /\ Genuine \subseteq Segment
  BY <1>1 DEF Genuine, Held
<1>6. NetOK'
  <2>1. ASSUME NEW d \in OnWire(p, out, sent) PROVE d.segs \in Seq(Segment) \ {<<>>}
    BY <1>4, <1>5, SubsetSeq
  <2> QED BY <1>1, <1>2, <1>4, <2>1 DEF NetOK
<1>7. NetInv'
  BY <1>1, <1>4, <1>5 DEF Inv, NetInv
<1> QED BY <1>1, <1>6, <1>7

\* What is due has the data of its segments.
LEMMA DueDataIs ==
    ASSUME Inv, NEW sns
    PROVE  DueData(sns) \in Seq(Genuine)
<1> DEFINE s == [sn \in DOMAIN queued |-> Push(sn)]
           n == Len(queued)
<1>1. queued \in Seq(Nat \ {0}) /\ n <= MaxSegs /\ MaxSegs \in Nat
  BY WireAssumption DEF Inv, TypeOK, CutInv
<1>2. n \in Nat /\ DOMAIN queued = 1..n /\ \A sn \in 1..n : queued[sn] \in Nat
  <2> DEFINE R == Nat \ {0}
  <2>1. queued \in Seq(R) /\ R \subseteq Nat
    BY <1>1
  <2> HIDE DEF R
  <2> QED BY <2>1, LenProperties, ElementOfSeq
<1> HIDE DEF n
<1>3. \A sn \in 1..n : Push(sn) \in Genuine
  BY <1>1, <1>2 DEF Push, Genuine, Segment
<1>4. s \in [1..n -> Genuine]
  BY <1>2, <1>3
<1>5. s \in Seq(Genuine)
  <2> HIDE DEF s
  <2> QED BY <1>2, <1>4, FunctionIsSeq
<1> DEFINE E == {s[i] : i \in DOMAIN s \cap sns}
<1>6. E \subseteq Genuine
  BY <1>2, <1>4
<1>7. At(s, sns) \in Seq(E)
  <2> HIDE DEF s
  <2> QED BY <1>5, AtIs
<1>8. At(s, sns) \in Seq(Genuine)
  <2> HIDE DEF s, E
  <2> QED BY <1>6, <1>7, SubsetSeq
<1> QED BY <1>8 DEF DueData

LEMMA FlushDataIs ==
    ASSUME Inv, NEW sns, NEW sent, FlushData(sns, sent)
    PROVE  Inv'
<1>1. Flush("a", DueData(sns), sent) /\ UNCHANGED acks /\ "a" \in Peer
  BY DEF FlushData, Peer
<1>2. NetInv' /\ NetOK' /\ UNCHANGED <<use, mtu, queued, acked, got>>
  BY <1>1, DueDataIs, FlushIs
<1> QED BY <1>1, <1>2, RestKept DEF Rest

\* Everything before RcvNxt has been taken in.
LEMMA RcvNxtIs ==
    ASSUME Inv
    PROVE  RcvNxt \in 0..MaxSegs /\ 1..RcvNxt \subseteq Held
<1> DEFINE k == Len(queued)
           T == {n \in 0..k : 1..n \subseteq Held}
<1>1. k \in Nat /\ k <= MaxSegs /\ MaxSegs \in Nat
  BY LenProperties, WireAssumption DEF Inv, TypeOK, CutInv
<1>2. 0 \in T /\ T \in SUBSET (0..k)
  <2>1. 1..0 = {} /\ 0 \in 0..k
    BY <1>1
  <2> QED BY <2>1
<1>3. RcvNxt = Max(T)
  BY DEF RcvNxt, Held
<1>4. Max(T) \in T
  <2> HIDE DEF T, k
  <2> QED BY <1>1, <1>2, MaxIs
<1>5. RcvNxt \in T
  BY <1>3, <1>4
<1> QED BY <1>1, <1>5

\* Only what was queued is held.
LEMMA HeldIs ==
    ASSUME Inv
    PROVE  Held \subseteq DOMAIN queued /\ Held \subseteq 1..MaxSegs
BY DEF Inv, WholeSegmentsOnly, TypeOK, Held

LEMMA FlushAcksIs ==
    ASSUME Inv, NEW sent, FlushAcks(sent)
    PROVE  Inv'
<1> DEFINE due == [i \in DOMAIN acks |-> Ack(acks[i])]
           n == Len(acks)
<1>1. Flush("b", due, sent) /\ acks' = <<>> /\ "b" \in Peer
  BY DEF FlushAcks, Peer
<1>2. n \in Nat /\ DOMAIN acks = 1..n /\ \A i \in 1..n : acks[i] \in Held
  BY LenProperties, ElementOfSeq DEF Inv, AcksInv
<1> HIDE DEF n
<1>3. ASSUME NEW sn \in Held PROVE Ack(sn) \in Genuine
  <2>1. sn \in 1..MaxSegs /\ RcvNxt \in 0..MaxSegs /\ 1..RcvNxt \subseteq Held
    BY HeldIs, RcvNxtIs
  <2> DEFINE u == RcvNxt
  <2> HIDE DEF u
  <2>2. Ack(sn) = [cmd |-> "ack", sn |-> sn, len |-> 0, una |-> u]
    BY DEF Ack, u
  <2>3. u \in 0..MaxSegs /\ 1..u \subseteq Held
    BY <2>1 DEF u
  <2> QED BY <2>1, <2>2, <2>3 DEF Genuine, Segment
<1>4. due \in [1..n -> Genuine]
  BY <1>2, <1>3
<1>5. due \in Seq(Genuine)
  <2> HIDE DEF due
  <2> QED BY <1>2, <1>4, FunctionIsSeq
<1>6. NetInv' /\ NetOK' /\ UNCHANGED <<use, mtu, queued, acked, got>>
  <2> HIDE DEF due
  <2> QED BY <1>1, <1>5, FlushIs
<1>7. TypeOK'
  BY <1>1, <1>6, EmptySeq DEF Inv, TypeOK, NetOK
<1>8. AcksInv' /\ AckedIsTakenIn' /\ WholeSegmentsOnly'
  BY <1>1, <1>6, EmptySeq DEF Inv, AcksInv, AckedIsTakenIn, Held, WholeSegmentsOnly
<1>9. CutInv'
  BY <1>6 DEF Inv, CutInv
<1> QED BY <1>6, <1>7, <1>8, <1>9 DEF Inv

\* What process_incoming leaves of a datagram,
LEMMA ProcessedIs ==
    ASSUME Inv, NEW d \in net
    PROVE  Processed(d) \in Nat
<1>1. d.size \in Nat /\ use.recvBuf \in Nat /\ use.added \in Nat
  BY UseIs DEF Inv, TypeOK
<1>2. Received(d) \in Nat
  <2> DEFINE a == d.size
             b == use.recvBuf
  <2>1. a \in Int /\ b \in Int
    BY <1>1
  <2> HIDE DEF a, b
  <2>2. Min({a, b}) \in {a, b}
    BY <2>1, MinOfTwo
  <2> QED BY <1>1, <2>2 DEF Received, a, b
<1> DEFINE r == Received(d) - use.added
<1>3. r \in Int
  BY <1>1, <1>2
<1> HIDE DEF r
<1>4. Max({0, r}) \in {0, r} /\ Max({0, r}) >= 0
  BY <1>3, MaxOfTwo
<1> QED BY <1>3, <1>4 DEF Processed, r

\* the segments that are whole in it,
LEMMA WholeIs ==
    ASSUME NEW S, NEW d, d.segs \in Seq(S), NEW n \in Nat
    PROVE  Whole(d, n) \in Seq(S)
<1> DEFINE segs == d.segs
           k == Len(segs)
           T == {i \in 0..k : Size(SubSeq(segs, 1, i)) <= n}
<1>1. k \in Nat
  BY LenProperties
<1>2. 0 \in T /\ T \in SUBSET (0..k)
  <2>1. SubSeq(segs, 1, 0) = <<>> /\ 0 \in 0..k
    BY <1>1, SubSeqEmpty
  <2>2. Size(SubSeq(segs, 1, 0)) = 0
    BY <2>1, SizeEmpty
  <2>3. T \subseteq 0..k
    OBVIOUS
  <2> HIDE DEF segs, k
  <2>4. Size(SubSeq(segs, 1, 0)) <= n
    BY <2>2
  <2>5. 0 \in T
    BY <2>1, <2>4
  <2> QED BY <2>3, <2>5
<1>3. Max(T) \in T
  <2> HIDE DEF T, k
  <2> QED BY <1>1, <1>2, MaxIs
<1>4. Max(T) \in 0..k
  <2> DEFINE x == Max(T)
  <2>1. x \in T
    BY <1>3
  <2> HIDE DEF x
  <2>2. x \in 0..k
    BY <2>1
  <2> QED BY <2>2 DEF x
<1>5. Whole(d, n) = SubSeq(segs, 1, Max(T))
  BY DEF Whole
<1> HIDE DEF T
<1>6. \A i \in 1..Max(T) : segs[i] \in S
  BY <1>1, <1>4, ElementOfSeq
<1> QED BY <1>4, <1>5, <1>6, SubSeqProperties

\* those that are taken in,
LEMMA TakenInIs ==
    ASSUME Inv, NEW d \in net, NEW n \in Nat
    PROVE  TakenIn(d, n) \in Seq(Genuine)
<1>1. CASE d.ours
  <2>1. d.segs \in Seq(Genuine)
    BY <1>1 DEF Inv, NetInv
  <2> QED BY <1>1, <2>1, WholeIs DEF TakenIn
<1>2. CASE ~d.ours
  BY <1>2, EmptySeq DEF TakenIn
<1> QED BY <1>1, <1>2

\* and the pushes among them.
LEMMA PushedIs ==
    ASSUME NEW segs \in Seq(Genuine)
    PROVE  Pushed(segs) \in Seq({seg \in Genuine : seg.cmd = "push"})
<1> DEFINE w == {i \in DOMAIN segs : segs[i].cmd = "push"}
           E == {segs[i] : i \in DOMAIN segs \cap w}
           P == {seg \in Genuine : seg.cmd = "push"}
<1>1. At(segs, w) \in Seq(E)
  <2> HIDE DEF w
  <2> QED BY AtIs
<1>2. E \subseteq P
  <2>1. \A i \in DOMAIN segs : segs[i] \in Genuine
    BY ElementOfSeq, LenProperties
  <2> QED BY <2>1
<1>3. Pushed(segs) \in Seq(P)
  <2> HIDE DEF E, P
  <2> QED BY <1>1, <1>2, SubsetSeq DEF Pushed
<1> QED BY <1>3

LEMMA ReceiveIs ==
    ASSUME Inv, NEW p \in Peer, Receive(p)
    PROVE  Inv'
<1>1. PICK d, n, segs, acknow :
          /\ d \in net
          /\ n = Processed(d) /\ segs = TakenIn(d, n) /\ acknow = ToAck(d, n)
          /\ net' = net \ {d}
          /\ got' = got \cup {[sn |-> seg.sn, len |-> seg.len] : seg \in ToSet(Pushed(segs))}
          /\ acks' = acks \o [i \in DOMAIN acknow |-> acknow[i].sn]
          /\ acked' = acked \cup {seg.sn : seg \in {s \in ToSet(segs) : s.cmd = "ack"}}
                            \cup UNION {Una(seg) : seg \in ToSet(segs)}
          /\ UNCHANGED <<use, mtu, queued>>
  BY DEF Receive
<1> DEFINE P == {seg \in Genuine : seg.cmd = "push"}
           k == Len(acknow)
           sns == [i \in DOMAIN acknow |-> acknow[i].sn]
<1>2. segs \in Seq(Genuine)
  BY <1>1, ProcessedIs, TakenInIs
<1>3. acknow = Pushed(segs) /\ acknow \in Seq(P)
  BY <1>1, <1>2, PushedIs DEF ToAck
<1>4. k \in Nat /\ DOMAIN acknow = 1..k /\ \A i \in 1..k : acknow[i] \in P
  <2> HIDE DEF P
  <2> QED BY <1>3, LenProperties, ElementOfSeq
<1>5. ToSet(Pushed(segs)) \subseteq P
  BY <1>3, <1>4 DEF ToSet
<1>6. ToSet(segs) \subseteq Genuine
  BY <1>2, LenProperties, ElementOfSeq DEF ToSet
<1>7. \A seg \in P : seg.sn \in DOMAIN queued /\ seg.len = queued[seg.sn]
                     /\ seg.sn \in 1..MaxSegs /\ seg.len \in Nat
  BY DEF Genuine, Segment
<1> HIDE DEF P, k
<1>8. WholeSegmentsOnly' /\ got' \subseteq [sn : 1..MaxSegs, len : Nat] /\ got \subseteq got'
  <2>1. ASSUME NEW g \in got', g \notin got
        PROVE  g.sn \in DOMAIN queued /\ g.len = queued[g.sn] /\ g \in [sn : 1..MaxSegs, len : Nat]
    <3>1. PICK seg \in P : g = [sn |-> seg.sn, len |-> seg.len]
      BY <1>1, <1>5, <2>1
    <3> QED BY <1>7, <3>1
  <2> QED BY <1>1, <2>1 DEF Inv, TypeOK, WholeSegmentsOnly
<1>9. Genuine \subseteq Genuine' /\ Held \subseteq Held'
  BY <1>1, <1>8, GenuineGrows
<1>10. \A i \in 1..k : acknow[i].sn \in Held' /\ acknow[i].sn \in 1..MaxSegs
  <2> TAKE i \in 1..k
  <2>1. acknow[i] \in ToSet(Pushed(segs)) /\ acknow[i] \in P
    BY <1>3, <1>4 DEF ToSet
  <2>2. [sn |-> acknow[i].sn, len |-> acknow[i].len] \in got'
    BY <1>1, <2>1
  <2> QED BY <1>7, <2>1, <2>2 DEF Held
<1>11. AcksInv' /\ acks' \in Seq(1..MaxSegs)
  <2>1. sns \in [1..k -> Held'] /\ sns \in [1..k -> 1..MaxSegs]
    BY <1>4, <1>10
  <2> DEFINE R == 1..MaxSegs
             H == Held'
  <2>2. acks \in Seq(Held) /\ acks \in Seq(R) /\ Held \subseteq H
    BY <1>9 DEF Inv, AcksInv, TypeOK
  <2>3. acks' = acks \o sns
    BY <1>1
  <2> HIDE DEF sns, R, H
  <2>4. sns \in Seq(H) /\ sns \in Seq(R)
    BY <1>4, <2>1, FunctionIsSeq DEF R, H
  <2>5. acks \in Seq(H)
    BY <2>2, SubsetSeq
  <2>6. acks' \in Seq(H) /\ acks' \in Seq(R)
    BY <2>2, <2>3, <2>4, <2>5, ConcatProperties
  <2> QED BY <2>6 DEF AcksInv, R, H
<1>12. acked' \subseteq Held
  <2>1. \A seg \in ToSet(segs) : seg.cmd = "ack" => seg.sn \in Held
    BY <1>6 DEF Genuine
  <2>2. \A seg \in ToSet(segs) : Una(seg) \subseteq Held
    <3> TAKE seg \in ToSet(segs)
    <3>1. seg \in Genuine
      BY <1>6
    <3>2. CASE seg.una = 0
      BY <3>2 DEF Una
    <3>3. CASE seg.una # 0
      BY <3>1, <3>3 DEF Una, Genuine
    <3> QED BY <3>2, <3>3
  <2>3. acked \subseteq Held
    BY DEF Inv, AckedIsTakenIn, Held
  <2> QED BY <1>1, <2>1, <2>2, <2>3
<1>13. AckedIsTakenIn'
  BY <1>9, <1>12 DEF AckedIsTakenIn, Held
<1>14. NetInv' /\ NetOK'
  <2>1. NetOK /\ net' \subseteq net
    BY <1>1 DEF Inv, TypeOK, NetOK
  <2> QED BY <1>9, <2>1, NetInvKept DEF Inv
<1>15. TypeOK'
  BY <1>1, <1>8, <1>11, <1>12, <1>14, HeldIs DEF Inv, TypeOK, NetOK
<1>16. CutInv'
  BY <1>1 DEF Inv, CutInv
<1> QED BY <1>8, <1>11, <1>13, <1>14, <1>15, <1>16 DEF Inv

LEMMA StutterIs ==
    ASSUME Inv, UNCHANGED vars
    PROVE  Inv'
<1>1. UNCHANGED Rest /\ net' \subseteq net /\ NetOK
  BY DEF vars, Rest, Inv, TypeOK, NetOK
<1>2. Genuine \subseteq Genuine'
  BY <1>1 DEF Genuine, Held, Rest
<1>3. NetInv' /\ NetOK'
  BY <1>1, <1>2, NetInvKept DEF Inv
<1> QED BY <1>1, <1>3, RestKept

\* Every step keeps the invariant.
LEMMA StepKeepsInv == Inv /\ [Next]_vars => Inv'
<1> SUFFICES ASSUME Inv, [Next]_vars PROVE Inv'
  OBVIOUS
<1>1. CASE \E n \in Lens : Send(n)
  BY <1>1, SendIs
<1>2. CASE Foreign
  BY <1>2, ForeignIs
<1>3. CASE \E m \in use.mtus : SetMtu(m)
  BY <1>3, SetMtuIs
<1>4. CASE \E sns \in SUBSET Unacked, sent \in SUBSET (1..MaxNet) : FlushData(sns, sent)
  BY <1>4, FlushDataIs
<1>5. CASE \E sent \in SUBSET (1..MaxNet) : FlushAcks(sent)
  BY <1>5, FlushAcksIs
<1>6. CASE \E d \in net : Lose(d)
  BY <1>6, LoseIs
<1>7. CASE \E p \in Peer : Receive(p)
  BY <1>7, ReceiveIs
<1>8. CASE UNCHANGED vars
  BY <1>8, StutterIs
<1> QED BY <1>1, <1>2, <1>3, <1>4, <1>5, <1>6, <1>7, <1>8 DEF Next

-----------------------------------------------------------------------------
(* The theorems *)

\* The inductive invariant.
THEOREM WireInvariance == Spec => []Inv
<1> QED BY InitInv, StepKeepsInv, PTL DEF Spec

\* What b takes in are whole segments of a with all their bytes, whatever the receive
\* buffer cut off, whichever datagrams of other conversations come in between
\* (wait_for_data, ikcp_input).
THEOREM OnlyWholeSegments == Spec => []WholeSegmentsOnly
<1>1. Inv => WholeSegmentsOnly
  BY DEF Inv
<1> QED BY WireInvariance, <1>1, PTL

\* A segment counts as acknowledged only when the peer has it, however its ACK and
\* the una of other ACKs travelled (ikcp_parse_ack, ikcp_parse_una).
THEOREM AcknowledgedIsTakenIn == Spec => []AckedIsTakenIn
<1>1. Inv => AckedIsTakenIn
  BY DEF Inv
<1> QED BY WireInvariance, <1>1, PTL

\* What is due fits the mtu, unless that was lowered.
LEMMA DueDataFits ==
    ASSUME Inv, NotLowered, NEW sns
    PROVE  \A i \in 1..Len(DueData(sns)) : Overhead + DueData(sns)[i].len <= mtu
<1>1. use \in Uses /\ mtu \in Nat /\ use.mtu \in Nat /\ use.mtus \subseteq Nat
  BY UseIs DEF Inv, TypeOK
<1>2. \A sn \in DOMAIN queued : Overhead + queued[sn] <= mtu
  <2> TAKE sn \in DOMAIN queued
  <2>1. PICK m \in {use.mtu} \cup use.mtus :
            Overhead + queued[sn] <= m /\ (use.mtu \notin use.mtus /\ mtu = use.mtu => m = mtu)
    BY DEF Inv, CutInv
  <2>2. queued[sn] \in Nat
    <3> DEFINE R == Nat \ {0}
    <3>1. queued \in Seq(R) /\ R \subseteq Nat
      BY DEF Inv, TypeOK
    <3> HIDE DEF R
    <3> QED BY <3>1, LenProperties, ElementOfSeq
  <2>3. m <= mtu
    BY <1>1, <2>1 DEF NotLowered
  <2> QED BY <1>1, <2>1, <2>2, <2>3, OverheadIs
<1> DEFINE P == {seg \in Genuine : seg.cmd = "push"}
           s == [sn \in DOMAIN queued |-> Push(sn)]
           E == {s[i] : i \in DOMAIN s \cap sns}
<1>3. \A seg \in E : Overhead + seg.len <= mtu
  BY <1>2 DEF Push
<1>4. s \in Seq({s[i] : i \in DOMAIN s})
  <2>1. DOMAIN s = 1..Len(queued) /\ Len(queued) \in Nat
    <3> DEFINE R == Nat \ {0}
    <3>1. queued \in Seq(R)
      BY DEF Inv, TypeOK
    <3> HIDE DEF R
    <3> QED BY <3>1, LenProperties
  <2>2. s \in [1..Len(queued) -> {s[i] : i \in DOMAIN s}]
    BY <2>1
  <2> HIDE DEF s
  <2> QED BY <2>1, <2>2, FunctionIsSeq
<1>5. At(s, sns) \in Seq(E)
  <2> HIDE DEF s
  <2> QED BY <1>4, AtIs
<1> HIDE DEF E
<1>6. \A i \in 1..Len(DueData(sns)) : DueData(sns)[i] \in E
  BY <1>5, ElementOfSeq DEF DueData
<1> QED BY <1>3, <1>6

\* A flush cuts what is due into datagrams that hold each due segment once and in
\* order, none of them empty or, unless the mtu was lowered, larger than the mtu:
\* for segments of any lengths and any mtu (the packing of ikcp_flush).
THEOREM EachDueIsPackedOnce == Spec => []PackedOnce
<1>1. Inv => PackedOnce
  <2> SUFFICES ASSUME Inv PROVE PackedOnce
    OBVIOUS
  <2>1. mtu \in Nat
    BY DEF Inv, TypeOK
  <2>2. ASSUME NEW sns \in SUBSET Unacked \ {{}}
        PROVE  IsPacking(Pack(mtu, DueData(sns)), DueData(sns), Len(DueData(sns)), mtu, Genuine)
    BY <2>1, DueDataIs, SegmentsAreSized, PackIs
  <2>3. ASSUME NEW sns \in SUBSET Unacked \ {{}}
        PROVE  /\ FlattenSeq(Pack(mtu, DueData(sns))) = DueData(sns)
               /\ <<>> \notin ToSet(Pack(mtu, DueData(sns)))
    <3> DEFINE due == DueData(sns)
               out == Pack(mtu, due)
    <3>1. due \in Seq(Genuine)
      BY DueDataIs
    <3>2. out \in Seq(Datagrams(Genuine)) /\ FlattenSeq(out) = SubSeq(due, 1, Len(due))
      BY <2>2 DEF IsPacking
    <3> HIDE DEF out, due
    <3>3. FlattenSeq(out) = due
      BY <3>1, <3>2, SubSeqFull
    <3>4. \A i \in DOMAIN out : out[i] \in Datagrams(Genuine)
      BY <3>2, ElementOfSeq, LenProperties
    <3>5. <<>> \notin ToSet(out)
      BY <3>4 DEF ToSet, Datagrams
    <3> QED BY <3>3, <3>5 DEF out, due
  <2>4. ASSUME NotLowered, NEW sns \in SUBSET Unacked \ {{}},
               NEW segs \in ToSet(Pack(mtu, DueData(sns)))
        PROVE  Size(segs) <= mtu
    <3> DEFINE due == DueData(sns)
               out == Pack(mtu, due)
    <3>1. IsPacking(out, due, Len(due), mtu, Genuine)
      BY <2>2
    <3>2. \A i \in 1..Len(due) : Overhead + due[i].len <= mtu
      BY <2>4, DueDataFits
    <3> HIDE DEF out, due
    <3>3. Small(out, mtu) /\ out \in Seq(Datagrams(Genuine))
      BY <3>1, <3>2 DEF IsPacking
    <3>4. PICK i \in DOMAIN out : segs = out[i]
      BY <2>4 DEF ToSet, out, due
    <3> QED BY <3>3, <3>4, LenProperties DEF Small
  <2> QED BY <2>3, <2>4 DEF PackedOnce, DatagramFits
<1> QED BY WireInvariance, <1>1, PTL

=============================================================================
