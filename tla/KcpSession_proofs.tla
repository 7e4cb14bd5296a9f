-------------------------- MODULE KcpSession_proofs --------------------------
(***************************************************************************)
(* Proofs about KcpSession, for every use of a session, messages of the    *)
(* peer of any number of fragments, and buffers and messages of any length.*)
(*                                                                         *)
(* The first parts are about data: where the fragments of the peer begin   *)
(* (OffsetIs), the sum of the lengths of segments (Total), the segments of *)
(* a message (CutIs), and runs of consecutive bytes.  Total and Offset are *)
(* recursive functions; KcpLemmas has what is true of all of them.         *)
(*                                                                         *)
(* TypeOK is not inductive: that the engine has no more than the peer sent *)
(* needs InFlight, and that only calls which the use names wait or leave   *)
(* bytes over is ByUse.  One lemma per action shows what it does to these  *)
(* (StepOK), from which the theorems follow; Bytes is what BytesInOrder    *)
(* adds to them.                                                           *)
(***************************************************************************)
EXTENDS KcpSession, KcpLemmas, SequenceTheorems

-----------------------------------------------------------------------------
(* The fragments of the peer and where their bytes begin *)

\* What the peer sends: the lengths, and that a message ends within it.
LEMMA InboundIs ==
    /\ Len(Inbound) \in Nat
    /\ \A i \in 1..Len(Inbound) :
           /\ Inbound[i].len \in Nat
           /\ Inbound[i].frg \in Nat
           /\ i + Inbound[i].frg \in 1..Len(Inbound)
<1> DEFINE R == [len : Nat, frg : Nat]
<1>1. Inbound \in Seq(R)
  BY SessionAssumption
<1>2. Len(Inbound) \in Nat /\ DOMAIN Inbound = 1..Len(Inbound)
  BY <1>1, LenProperties
<1>3. \A i \in 1..Len(Inbound) : Inbound[i] \in R
  <2> HIDE DEF R
  <2> QED BY <1>1, ElementOfSeq
<1>4. \A i \in 1..Len(Inbound) : i + Inbound[i].frg \in DOMAIN Inbound
  BY <1>2, SessionAssumption
<1> QED BY <1>2, <1>3, <1>4

\* Offset counts the bytes of the first fragments.
LEMMA OffsetIs ==
    /\ Offset \in [Fragments -> Nat]
    /\ Offset[0] = 0
    /\ \A i \in 1..Len(Inbound) : Offset[i] = Offset[i - 1] + Inbound[i].len
<1> DEFINE n == Len(Inbound)
           h == [i \in 1..n |-> Inbound[i].len]
<1>1. n \in Nat /\ h \in [1..n -> Nat] /\ \A i \in 1..n : h[i] = Inbound[i].len
  BY InboundIs
<1>2. PICK f : IsSums(f, h, n)
  <2> HIDE DEF n, h
  <2> QED BY <1>1, SumsExist
<1> HIDE DEF h
<1>3. \A c : c = [i \in 0..n |-> IF i = 0 THEN 0 ELSE c[i - 1] + Inbound[i].len]
             <=> c = [i \in 0..n |-> IF i = 0 THEN 0 ELSE c[i - 1] + h[i]]
  <2> TAKE c
  <2>1. [i \in 0..n |-> IF i = 0 THEN 0 ELSE c[i - 1] + Inbound[i].len]
        = [i \in 0..n |-> IF i = 0 THEN 0 ELSE c[i - 1] + h[i]]
    <3>1. \A i \in 0..n : i # 0 => i \in 1..n
      BY <1>1
    <3> HIDE DEF n
    <3> QED BY <1>1, <3>1
  <2> QED BY <2>1
<1>4. f = [i \in 0..n |-> IF i = 0 THEN 0 ELSE f[i - 1] + Inbound[i].len]
  <2> HIDE DEF n
  <2> QED BY <1>1, <1>2, <1>3, SumsEquation
<1>5. Offset = [i \in 0..n |-> IF i = 0 THEN 0 ELSE Offset[i - 1] + Inbound[i].len]
  BY <1>4 DEF Offset, Fragments
<1>6. Offset = [i \in 0..n |-> IF i = 0 THEN 0 ELSE Offset[i - 1] + h[i]]
  BY <1>3, <1>5
<1>7. IsSums(Offset, h, n)
  <2> HIDE DEF n
  <2> QED BY <1>1, <1>6, SumsDefined
<1> QED BY <1>1, <1>7 DEF IsSums, Fragments

\* More fragments have no fewer bytes.
LEMMA OffsetGrows ==
    \A i, j \in Fragments : i <= j => Offset[i] <= Offset[j]
<1> SUFFICES ASSUME NEW i \in Fragments PROVE \A j \in Fragments : i <= j => Offset[i] <= Offset[j]
  OBVIOUS
<1> DEFINE Holds == {d \in Nat : i + d \in Fragments => Offset[i] <= Offset[i + d]}
<1>1. 0 \in Holds
  <2>1. i + 0 = i
    BY InboundIs DEF Fragments
  <2>2. Offset \in [Fragments -> Nat]
    BY OffsetIs
  <2>3. Offset[i] \in Nat
    BY <2>2
  <2> QED BY <2>1, <2>3
<1>2. ASSUME NEW d \in Nat, d \in Holds PROVE d + 1 \in Holds
  <2> SUFFICES ASSUME i + (d + 1) \in Fragments PROVE Offset[i] <= Offset[i + (d + 1)]
    OBVIOUS
  <2>1. i + d \in Fragments /\ i + (d + 1) \in 1..Len(Inbound)
    BY InboundIs DEF Fragments
  <2>2. Offset[i + (d + 1)] = Offset[i + d] + Inbound[i + (d + 1)].len
    <3>1. (i + (d + 1)) - 1 = i + d
      BY InboundIs DEF Fragments
    <3>2. Offset[i + (d + 1)] = Offset[(i + (d + 1)) - 1] + Inbound[i + (d + 1)].len
      BY <2>1, OffsetIs
    <3> QED BY <3>1, <3>2
  <2>3. Offset[i + d] \in Nat /\ Inbound[i + (d + 1)].len \in Nat /\ Offset[i] \in Nat
    BY <2>1, OffsetIs, InboundIs
  <2> QED BY <1>2, <2>1, <2>2, <2>3
<1>3. Nat \subseteq Holds
  <2> HIDE DEF Holds
  <2> QED BY <1>1, <1>2, NatStep
<1>4. ASSUME NEW j \in Fragments, i <= j PROVE Offset[i] <= Offset[j]
  <2>1. j - i \in Nat /\ i + (j - i) = j
    BY <1>4, InboundIs DEF Fragments
  <2>2. j - i \in Holds
    BY <1>3, <2>1
  <2> QED BY <2>1, <2>2
<1> QED BY <1>4

-----------------------------------------------------------------------------
(* Sums of lengths *)

\* Total is the last of the sums.
LEMMA TotalIs ==
    ASSUME NEW lens \in Seq(Nat)
    PROVE  \E f : IsSums(f, lens, Len(lens)) /\ Total(lens) = f[Len(lens)]
<1> DEFINE n == Len(lens)
           Is(f) == f = [i \in 0..n |-> IF i = 0 THEN 0 ELSE f[i - 1] + lens[i]]
<1>1. n \in Nat /\ lens \in [1..n -> Nat]
  BY LenProperties
<1>2. PICK f : IsSums(f, lens, n)
  <2> HIDE DEF n
  <2> QED BY <1>1, SumsExist
<1>3. Is(f)
  <2> HIDE DEF n
  <2> QED BY <1>1, <1>2, SumsEquation
<1> DEFINE c == CHOOSE g : Is(g)
<1>4. Is(c)
  <2> HIDE DEF Is
  <2> QED BY <1>3
<1>5. Total(lens) = c[n]
  BY DEF Total
<1> HIDE DEF c, n
<1>6. IsSums(c, lens, n)
  BY <1>1, <1>4, SumsDefined
<1> QED BY <1>5, <1>6 DEF n

LEMMA TotalInNat ==
    ASSUME NEW lens \in Seq(Nat)
    PROVE  Total(lens) \in Nat
<1>1. PICK f : IsSums(f, lens, Len(lens)) /\ Total(lens) = f[Len(lens)]
  BY TotalIs
<1> QED BY <1>1, LenProperties DEF IsSums

LEMMA TotalEmpty == Total(<<>>) = 0
<1>1. <<>> \in Seq(Nat) /\ Len(<<>>) = 0
  BY EmptySeq
<1>2. PICK f : IsSums(f, <<>>, Len(<<>>)) /\ Total(<<>>) = f[Len(<<>>)]
  BY <1>1, TotalIs
<1> QED BY <1>1, <1>2 DEF IsSums

\* The total of two sequences of lengths.
LEMMA TotalConcat ==
    ASSUME NEW s \in Seq(Nat), NEW t \in Seq(Nat)
    PROVE  Total(s \o t) = Total(s) + Total(t)
<1>1. PICK f : IsSums(f, s, Len(s)) /\ Total(s) = f[Len(s)]
  BY TotalIs
<1>2. PICK g : IsSums(g, t, Len(t)) /\ Total(t) = g[Len(t)]
  BY TotalIs
<1>3. /\ s \o t \in Seq(Nat)
      /\ Len(s \o t) = Len(s) + Len(t)
      /\ \A i \in 1..Len(s) : (s \o t)[0 + i] = s[i]
      /\ \A i \in 1..Len(t) : (s \o t)[Len(s) + i] = t[i]
  BY ConcatProperties
<1> DEFINE u == s \o t
<1>4. PICK h : IsSums(h, u, Len(u)) /\ Total(u) = h[Len(u)]
  BY <1>3, TotalIs
<1> HIDE DEF u
<1> DEFINE n == Len(s)
           m == Len(t)
           w == Len(u)
<1>5. n \in Nat /\ m \in Nat /\ w \in Nat /\ w = n + m
      /\ Part(s, n, u, 0) /\ Part(t, m, u, n)
  BY <1>3, LenProperties DEF u, Part
<1>6. IsSums(f, s, n) /\ IsSums(g, t, m) /\ IsSums(h, u, w)
  BY <1>1, <1>2, <1>4
<1> HIDE DEF n, m, w
<1>7. h[w] = f[n] + g[m]
  BY <1>5, <1>6, SumsOfBoth
<1> QED BY <1>1, <1>2, <1>4, <1>7 DEF u, n, m, w

LEMMA TotalOne ==
    ASSUME NEW a \in Nat
    PROVE  Total(<<a>>) = a
<1>1. <<a>> \in Seq(Nat) /\ Len(<<a>>) = 1 /\ <<a>>[1] = a
  OBVIOUS
<1>2. PICK f : IsSums(f, <<a>>, Len(<<a>>)) /\ Total(<<a>>) = f[Len(<<a>>)]
  BY <1>1, TotalIs
<1>3. f[0] = 0 /\ f[1] = f[1 - 1] + <<a>>[1]
  BY <1>1, <1>2 DEF IsSums
<1> QED BY <1>1, <1>2, <1>3

\* The total without the first length.
LEMMA TotalTail ==
    ASSUME NEW s \in Seq(Nat), s # <<>>
    PROVE  Total(s) = s[1] + Total(Tail(s))
<1>1. s = <<s[1]>> \o Tail(s) /\ s[1] \in Nat /\ Tail(s) \in Seq(Nat)
  BY HeadTailProperties, ElementOfSeq, LenProperties
<1>2. Total(<<s[1]>> \o Tail(s)) = Total(<<s[1]>>) + Total(Tail(s))
  <2> DEFINE a == <<s[1]>>
  <2>1. a \in Seq(Nat)
    BY <1>1
  <2> HIDE DEF a
  <2>2. Total(a \o Tail(s)) = Total(a) + Total(Tail(s))
    BY <1>1, <2>1, TotalConcat
  <2> QED BY <2>2 DEF a
<1> QED BY <1>1, <1>2, TotalOne

\* The last length grows by e.
LEMMA TotalExtended ==
    ASSUME NEW s \in Seq(Nat), s # <<>>, NEW e \in Nat
    PROVE  Total([s EXCEPT ![Len(s)] = @ + e]) = Total(s) + e
<1> DEFINE n == Len(s)
           t == [s EXCEPT ![n] = @ + e]
<1>1. n \in Nat /\ n # 0 /\ s \in [1..n -> Nat]
  BY LenProperties, EmptySeq
<1>2. /\ t \in Seq(Nat) /\ Len(t) = n
      /\ t[n] = s[n] + e
      /\ \A i \in 1..(n - 1) : t[i] = s[i]
  <2>1. s[n] + e \in Nat /\ n \in 1..n
    BY <1>1
  <2>2. \A i \in 1..n : t[i] = IF i = n THEN s[n] + e ELSE s[i]
    BY <1>1
  <2>3. t \in [1..n -> Nat]
    BY <1>1, <2>1
  <2>4. t \in Seq(Nat) /\ Len(t) = n
    <3> HIDE DEF t, n
    <3> QED BY <1>1, <2>3, FunctionIsSeq
  <2> HIDE DEF t, n
  <2> QED BY <2>1, <2>2, <2>4, <1>1
<1>3. PICK f : IsSums(f, s, n) /\ Total(s) = f[n]
  BY TotalIs
<1>4. PICK g : IsSums(g, t, n) /\ Total(t) = g[n]
  <2> HIDE DEF t, n
  <2> QED BY <1>2, TotalIs
<1> HIDE DEF t, n
<1>5. g[n - 1] = f[n - 1]
  <2> DEFINE c == n - 1
  <2>1. c \in Nat /\ c \in 0..n /\ 0 + c <= n /\ Part(s, c, t, 0)
    BY <1>1, <1>2 DEF Part
  <2> HIDE DEF c
  <2>2. \A i \in 0..c : g[0 + i] = g[0] + f[i]
    BY <1>1, <1>3, <1>4, <2>1, SumsOfPart
  <2>3. c \in 0..c /\ g[0] = 0 /\ f[c] \in Nat
    BY <1>1, <1>3, <1>4, <2>1 DEF IsSums
  <2> QED BY <2>1, <2>2, <2>3 DEF c
<1>6. /\ n \in 1..n /\ n - 1 \in 0..n
      /\ f[n] = f[n - 1] + s[n] /\ f[n - 1] \in Nat /\ s[n] \in Nat
      /\ g[n] = g[n - 1] + t[n]
  <2>1. n \in 1..n /\ n - 1 \in 0..n
    BY <1>1
  <2>2. f[n] = f[n - 1] + s[n] /\ f[n - 1] \in Nat /\ s[n] \in Nat
    BY <1>1, <1>3, <2>1 DEF IsSums
  <2>3. g[n] = g[n - 1] + t[n]
    BY <1>4, <2>1 DEF IsSums
  <2> QED BY <2>1, <2>2, <2>3
<1>7. g[n] = f[n] + e
  <2>1. t[n] = s[n] + e
    BY <1>2, <1>6
  <2>2. g[n] = f[n - 1] + (s[n] + e)
    BY <1>5, <1>6, <2>1
  <2> QED BY <1>6, <2>2
<1> QED BY <1>3, <1>4, <1>7 DEF t, n

-----------------------------------------------------------------------------
(* The segments that Cut makes *)

LEMMA MssIs == Mss \in Nat /\ Mss > 0 /\ FragLimit \in Nat /\ FragLimit > 0
BY SessionAssumption

\* How many segments a message of len bytes has.
Count(len) == IF len <= Mss THEN 1 ELSE (len + Mss - 1) \div Mss

\* The segments of a message: all but the last are full.
LEMMA CountIs ==
    ASSUME NEW len \in Nat
    PROVE  /\ Count(len) \in Nat /\ Count(len) > 0
           /\ (Count(len) - 1) * Mss \in Nat
           /\ len - (Count(len) - 1) * Mss \in 0..Mss
<1>1. CASE len <= Mss
  BY <1>1, MssIs DEF Count
<1>2. CASE len > Mss
  <2> DEFINE a == len + Mss - 1
             q == a \div Mss
  <2>1. a \in Nat /\ Mss \in Nat /\ Mss > 0
    BY MssIs
  <2>2. q \in Nat /\ q * Mss <= a /\ a < q * Mss + Mss
    <3> HIDE DEF a
    <3> QED BY <2>1, Quotient
  <2>3. Count(len) = q
    BY <1>2, MssIs DEF Count
  <2> HIDE DEF q
  <2>4. q # 0
    BY <1>2, <2>1, <2>2
  <2>5. (q - 1) * Mss = q * Mss - Mss /\ q * Mss \in Nat
    BY <2>1, <2>2
  <2>6. (q - 1) * Mss \in Nat
    BY <2>1, <2>2, <2>4
  <2> QED BY <1>2, <2>1, <2>2, <2>3, <2>4, <2>5, <2>6
<1> QED BY <1>1, <1>2, MssIs

\* A shorter message has no more segments.
LEMMA CountGrows ==
    ASSUME NEW a \in Nat, NEW b \in Nat, a <= b
    PROVE  Count(a) <= Count(b)
<1> DEFINE p == Count(a)
           q == Count(b)
<1>1. /\ p \in Nat /\ p > 0 /\ a - (p - 1) * Mss >= 0
      /\ q \in Nat /\ q > 0 /\ b - (q - 1) * Mss <= Mss
      /\ p > 1 => a > (p - 1) * Mss
  <2>1. p > 1 => a > (p - 1) * Mss
    <3> SUFFICES ASSUME p > 1 PROVE a > (p - 1) * Mss
      OBVIOUS
    <3> DEFINE c == a + Mss - 1
               r == c \div Mss
    <3>1. c \in Nat /\ Mss \in Nat /\ Mss > 0 /\ p = r
      BY MssIs DEF Count
    <3>2. r \in Nat /\ r * Mss <= c
      <4> HIDE DEF c
      <4> QED BY <3>1, Quotient
    <3> HIDE DEF r, p
    <3>3. (p - 1) * Mss = p * Mss - Mss
      BY <3>1, <3>2
    <3> QED BY <3>1, <3>2, <3>3
  <2>2. p \in Nat /\ p > 0 /\ a - (p - 1) * Mss \in 0..Mss
    BY CountIs
  <2>3. q \in Nat /\ q > 0 /\ b - (q - 1) * Mss \in 0..Mss
    BY CountIs
  <2> HIDE DEF p, q
  <2> QED BY <2>1, <2>2, <2>3, MssIs
<1> HIDE DEF p, q
<1>2. ASSUME p > q PROVE FALSE
  <2>1. p > 1 /\ a > (p - 1) * Mss /\ b <= (q - 1) * Mss + Mss
    BY <1>1, <1>2, MssIs
  <2>2. (q - 1) * Mss + Mss = q * Mss
    BY <1>1, MssIs
  <2>3. q * Mss <= (p - 1) * Mss
    <3>1. PICK d \in Nat : p - 1 = q + d
      <4>1. p - 1 - q \in Nat /\ p - 1 = q + (p - 1 - q)
        BY <1>1, <1>2
      <4> QED BY <4>1
    <3>2. (q + d) * Mss = q * Mss + d * Mss /\ d * Mss >= 0
      BY <1>1, MssIs
    <3>3. (p - 1) * Mss = (q + d) * Mss
      BY <3>1
    <3>4. q * Mss \in Int /\ d * Mss \in Int
      BY <1>1, MssIs
    <3> QED BY <3>2, <3>3, <3>4
  <2> QED BY <1>1, <2>1, <2>2, <2>3, MssIs
<1>3. p <= q
  BY <1>1, <1>2
<1> QED BY <1>3 DEF p, q

\* A message is cut into its segments without a byte too many or too few.
LEMMA CutIs ==
    ASSUME NEW len \in Nat
    PROVE  /\ Cut(len) \in Seq(0..Mss)
           /\ Len(Cut(len)) = Count(len)
           /\ Total(Cut(len)) = len
<1> DEFINE n == Count(len)
           last == len - (n - 1) * Mss
           s == [i \in 1..n |-> IF i < n THEN Mss ELSE last]
<1>1. n \in Nat /\ n > 0 /\ (n - 1) * Mss \in Nat /\ last \in 0..Mss
      /\ last \in Nat /\ Mss \in 0..Mss /\ last + (n - 1) * Mss = len
  BY CountIs, MssIs
<1>2. Cut(len) = s
  BY DEF Cut, Count
<1>3. s \in [1..n -> 0..Mss] /\ s \in [1..n -> Nat]
  <2> HIDE DEF n, last
  <2> QED BY <1>1, MssIs
<1>4. s \in Seq(0..Mss) /\ Len(s) = n /\ s \in Seq(Nat)
  <2> DEFINE R == 0..Mss
             T == Nat
  <2>1. s \in [1..n -> R] /\ s \in [1..n -> T]
    BY <1>3
  <2> HIDE DEF s, n, R, T
  <2>2. s \in Seq(R) /\ s \in Seq(T) /\ Len(s) = n
    BY <1>1, <2>1, FunctionIsSeq
  <2> QED BY <2>2 DEF R, T
<1>5. \A i \in 1..n : s[i] = IF i < n THEN Mss ELSE last
  OBVIOUS
<1>6. PICK f : IsSums(f, s, n) /\ Total(s) = f[n]
  <2> HIDE DEF s, n
  <2> QED BY <1>4, TotalIs
<1> HIDE DEF s, n, last
<1> DEFINE Holds == {i \in Nat : i < n => f[i] = i * Mss}
<1>7. 0 \in Holds
  <2>1. 0 * Mss = 0
    BY MssIs
  <2> QED BY <1>6, <2>1 DEF IsSums
<1>8. ASSUME NEW i \in Nat, i \in Holds PROVE i + 1 \in Holds
  <2> SUFFICES ASSUME i + 1 < n PROVE f[i + 1] = (i + 1) * Mss
    OBVIOUS
  <2>1. i + 1 \in 1..n /\ (i + 1) - 1 = i
    BY <1>1
  <2>2. f[i + 1] = f[(i + 1) - 1] + s[i + 1]
    BY <1>6, <2>1 DEF IsSums
  <2>3. s[i + 1] = Mss /\ f[i] = i * Mss
    BY <1>1, <1>5, <1>8, <2>1
  <2>4. (i + 1) * Mss = i * Mss + Mss
    BY MssIs
  <2> QED BY <2>1, <2>2, <2>3, <2>4
<1>9. Nat \subseteq Holds
  <2> HIDE DEF Holds
  <2> QED BY <1>7, <1>8, NatStep
<1>10. f[n - 1] = (n - 1) * Mss
  <2>1. n - 1 \in Nat /\ n - 1 < n
    BY <1>1
  <2>2. n - 1 \in Holds
    <3> HIDE DEF Holds
    <3> QED BY <1>9, <2>1
  <2> QED BY <2>1, <2>2
<1>11. f[n] = f[n - 1] + s[n] /\ s[n] = last
  BY <1>1, <1>5, <1>6 DEF IsSums
<1>12. f[n] = len
  BY <1>1, <1>10, <1>11
<1> QED BY <1>2, <1>4, <1>6, <1>12 DEF n

-----------------------------------------------------------------------------
(* The inductive invariant of the types *)

\* How many fragments each of some datagrams brings.
Frags(q) == [i \in 1..Len(q) |-> q[i].frags]

\* What the peer has sent is in rcv_queue, was in it, or is on its way.
InFlight == input + Total(Frags(source)) = sent

\* Only the calls that the use names wait or leave bytes over.
ByUse ==
    /\ call.op \in Recvs => call.op \in use.operations
    /\ call.op = "poll_read" => PollReads /\ leftover = <<>>
    /\ leftover # <<>> => PollReads

\* The bytes given to the application and those left over are the first ones
\* of the peer, and end where the messages taken end.
Bytes ==
    /\ taken <= input
    /\ Len(delivered) <= Offset[taken]
    /\ delivered = Run(0, Len(delivered))
    /\ leftover = Run(Len(delivered), Offset[taken])

\* The session is read with recv or with AsyncRead, not with both.
Unmixed == ~(PollReads /\ use.operations \cap Recvs # {})

Packet == {FromPeer(k) : k \in Fragments} \cup {FromStranger, ResetError}

\* The inductive invariant without the bytes.
TypeInv == TypeOK /\ InFlight /\ ByUse

-----------------------------------------------------------------------------
(* The datagrams on the way *)

LEMMA PacketFrags ==
    \A p \in Packet : p.frags \in Fragments /\ p.frags \in Nat
BY InboundIs DEF Packet, FromPeer, FromStranger, ResetError, Fragments

LEMMA FragsIs ==
    ASSUME NEW q \in Seq(Packet)
    PROVE  /\ Frags(q) \in Seq(Nat)
           /\ Len(Frags(q)) = Len(q)
           /\ Total(Frags(q)) \in Nat
<1>1. Len(q) \in Nat /\ \A i \in 1..Len(q) : q[i] \in Packet
  BY LenProperties, ElementOfSeq
<1>2. Frags(q) \in [1..Len(q) -> Nat]
  BY <1>1, PacketFrags DEF Frags
<1>3. Frags(q) \in Seq(Nat) /\ Len(Frags(q)) = Len(q)
  <2> DEFINE T == Nat
             f == Frags(q)
             n == Len(q)
  <2>1. f \in [1..n -> T]
    BY <1>2
  <2> HIDE DEF T, f, n
  <2>2. f \in Seq(T) /\ Len(f) = n
    BY <1>1, <2>1, FunctionIsSeq DEF n
  <2> QED BY <2>2 DEF T, f, n
<1> QED BY <1>3, TotalInNat

\* A datagram more brings its fragments.
LEMMA FragsAppend ==
    ASSUME NEW q \in Seq(Packet), NEW p \in Packet
    PROVE  Total(Frags(Append(q, p))) = Total(Frags(q)) + p.frags
<1> DEFINE u == Append(q, p)
           a == <<p.frags>>
<1>1. /\ u \in Seq(Packet) /\ Len(u) = Len(q) + 1 /\ u[Len(q) + 1] = p
      /\ \A i \in 1..Len(q) : u[i] = q[i]
  BY AppendProperties
<1>2. a \in Seq(Nat) /\ Len(a) = 1 /\ a[1] = p.frags /\ Len(q) \in Nat
  BY PacketFrags, LenProperties
<1> HIDE DEF u, a
<1>3. Frags(u) = Frags(q) \o a
  <2>1. /\ Frags(q) \o a \in Seq(Nat)
        /\ Len(Frags(q) \o a) = Len(q) + 1
        /\ \A i \in 1..Len(q) : (Frags(q) \o a)[i] = Frags(q)[i]
        /\ (Frags(q) \o a)[Len(q) + 1] = a[1]
    <3> DEFINE f == Frags(q)
    <3>1. f \in Seq(Nat) /\ Len(f) = Len(q)
      BY FragsIs
    <3> HIDE DEF f
    <3>2. IsConcat(f \o a, f, a)
      BY <1>2, <3>1, ConcatNumbers
    <3> QED BY <1>2, <3>1, <3>2 DEF f, IsConcat
  <2>2. Frags(u) \in Seq(Nat) /\ Len(Frags(u)) = Len(q) + 1
    BY <1>1, FragsIs
  <2>3. \A i \in 1..(Len(q) + 1) : Frags(u)[i] = u[i].frags
    BY <1>1 DEF Frags
  <2>4. \A i \in 1..Len(q) : Frags(q)[i] = q[i].frags
    BY DEF Frags
  <2>5. \A i \in 1..(Len(q) + 1) : Frags(u)[i] = (Frags(q) \o a)[i]
    <3> TAKE i \in 1..(Len(q) + 1)
    <3>1. CASE i = Len(q) + 1
      BY <3>1, <2>1, <2>3, <1>1, <1>2
    <3>2. CASE i # Len(q) + 1
      <4>1. i \in 1..Len(q)
        BY <3>2, <1>2
      <4>2. Frags(u)[i] = q[i].frags
        BY <4>1, <2>3, <1>1
      <4>3. Frags(q)[i] = q[i].frags
        BY <4>1, <2>4
      <4>4. (Frags(q) \o a)[i] = Frags(q)[i]
        BY <4>1, <2>1
      <4> QED BY <4>2, <4>3, <4>4
    <3> QED BY <3>1, <3>2
  <2> QED BY <2>1, <2>2, <2>5, SeqEqual
<1>4. Total(Frags(q) \o a) = Total(Frags(q)) + Total(a)
  <2> DEFINE f == Frags(q)
  <2>1. f \in Seq(Nat)
    BY FragsIs
  <2> HIDE DEF f
  <2>2. Total(f \o a) = Total(f) + Total(a)
    BY <1>2, <2>1, TotalConcat
  <2> QED BY <2>2 DEF f
<1>5. Total(a) = p.frags
  BY PacketFrags, TotalOne DEF a
<1> QED BY <1>3, <1>4, <1>5 DEF u

\* A datagram less leaves those of the others.
LEMMA FragsTail ==
    ASSUME NEW q \in Seq(Packet), q # <<>>
    PROVE  /\ Tail(q) \in Seq(Packet)
           /\ Head(q) \in Packet
           /\ Total(Frags(q)) = Head(q).frags + Total(Frags(Tail(q)))
<1>1. /\ Tail(q) \in Seq(Packet) /\ Head(q) \in Packet /\ Head(q) = q[1]
      /\ Len(Tail(q)) = Len(q) - 1 /\ Len(q) \in Nat /\ Len(q) # 0
      /\ \A i \in 1..Len(Tail(q)) : Tail(q)[i] = q[i + 1]
  BY HeadTailProperties, LenProperties, EmptySeq
<1>2. Frags(q) # <<>> /\ Frags(q)[1] = q[1].frags
  BY <1>1, FragsIs DEF Frags
<1>3. Frags(Tail(q)) = Tail(Frags(q))
  <2>1. /\ Tail(Frags(q)) \in Seq(Nat)
        /\ Len(Tail(Frags(q))) = Len(q) - 1
        /\ \A i \in 1..Len(Tail(q)) : Tail(Frags(q))[i] = Frags(q)[i + 1]
    BY <1>1, <1>2, FragsIs, HeadTailProperties
  <2>2. Frags(Tail(q)) \in Seq(Nat) /\ Len(Frags(Tail(q))) = Len(Tail(q))
    BY <1>1, FragsIs
  <2>3. \A i \in 1..Len(Tail(q)) : Frags(Tail(q))[i] = Tail(Frags(q))[i]
    <3> TAKE i \in 1..Len(Tail(q))
    <3>1. i + 1 \in 1..Len(q)
      BY <1>1
    <3>2. Frags(q)[i + 1] = q[i + 1].frags
      BY <3>1 DEF Frags
    <3>3. Frags(Tail(q))[i] = Tail(q)[i].frags
      BY DEF Frags
    <3> QED BY <1>1, <2>1, <3>2, <3>3
  <2> QED BY <1>1, <2>1, <2>2, <2>3, SeqEqual
<1>4. Total(Frags(q)) = Frags(q)[1] + Total(Tail(Frags(q)))
  BY <1>2, FragsIs, TotalTail
<1> QED BY <1>1, <1>2, <1>3, <1>4

-----------------------------------------------------------------------------
(* Runs of bytes *)

\* r is the bytes of the peer after the first a, up to b.
IsRun(r, a, b) ==
    /\ r \in Seq(Nat)
    /\ Len(r) = b - a
    /\ \A i \in 1..(b - a) : r[i] = a + i

\* Run is a run of bytes,
LEMMA RunIs ==
    ASSUME NEW a \in Nat, NEW b \in Nat, a <= b
    PROVE  IsRun(Run(a, b), a, b)
<1> DEFINE T == Nat
           n == b - a
<1>1. n \in Nat /\ Run(a, b) \in [1..n -> T]
  BY DEF Run
<1>2. Run(a, b) \in Seq(T) /\ Len(Run(a, b)) = n
  <2> HIDE DEF T, n
  <2> QED BY <1>1, FunctionIsSeq
<1> QED BY <1>2 DEF Run, IsRun

\* and there is only one from a to b.
LEMMA RunIsOnly ==
    ASSUME NEW a \in Nat, NEW b \in Nat, a <= b, NEW r, IsRun(r, a, b)
    PROVE  r = Run(a, b)
<1> DEFINE q == Run(a, b)
<1>1. IsRun(q, a, b)
  BY RunIs
<1> HIDE DEF q
<1>2. \A i \in 1..Len(r) : r[i] = q[i]
  BY <1>1 DEF IsRun
<1>3. r \in Seq(Nat) /\ q \in Seq(Nat) /\ Len(r) = Len(q)
  BY <1>1 DEF IsRun
<1> QED BY <1>2, <1>3, SeqEqual DEF q

\* Two runs, one after the other, are a run.
LEMMA RunsJoin ==
    ASSUME NEW a \in Nat, NEW b \in Nat, NEW c \in Nat, a <= b, b <= c
    PROVE  Run(a, b) \o Run(b, c) = Run(a, c)
<1> DEFINE p == Run(a, b)
           q == Run(b, c)
           u == p \o q
<1>1. IsRun(p, a, b) /\ IsRun(q, b, c) /\ a <= c
  BY RunIs
<1> HIDE DEF p, q
<1>2. p \in Seq(Nat) /\ q \in Seq(Nat) /\ Len(p) = b - a /\ Len(q) = c - b
  BY <1>1 DEF IsRun
<1>3. /\ u \in Seq(Nat) /\ Len(u) = Len(p) + Len(q)
      /\ \A i \in 1..Len(p) : u[i] = p[i]
      /\ \A i \in 1..Len(q) : u[Len(p) + i] = q[i]
  <2>1. IsConcat(u, p, q)
    BY <1>2, ConcatNumbers
  <2> HIDE DEF u
  <2> QED BY <2>1 DEF IsConcat
<1> HIDE DEF u
<1>4. \A i \in 1..(c - a) : u[i] = a + i
  <2> TAKE i \in 1..(c - a)
  <2>1. CASE i <= b - a
    <3>1. u[i] = p[i] /\ p[i] = a + i
      BY <1>1, <1>2, <1>3, <2>1 DEF IsRun
    <3> QED BY <3>1
  <2>2. CASE i > b - a
    <3> DEFINE j == i - (b - a)
    <3>1. j \in 1..(c - b) /\ (b - a) + j = i /\ b + j = a + i
      BY <2>2
    <3>2. u[Len(p) + j] = q[j] /\ q[j] = b + j
      <4> HIDE DEF j
      <4> QED BY <1>1, <1>2, <1>3, <3>1 DEF IsRun
    <3> QED BY <1>2, <3>1, <3>2
  <2> QED BY <2>1, <2>2
<1>5. IsRun(u, a, c)
  BY <1>2, <1>3, <1>4 DEF IsRun
<1> QED BY <1>1, <1>5, RunIsOnly DEF u, p, q

\* The first n bytes of the run from a to b are those to c, the others follow.
SplitsAt(a, b, c, n) ==
    /\ SubSeq(Run(a, b), 1, n) = Run(a, c)
    /\ SubSeq(Run(a, b), n + 1, b - a) = Run(c, b)

\* A run is cut where the bytes are.
LEMMA RunsSplit ==
    ASSUME NEW a \in Nat, NEW b \in Nat, NEW c \in Nat, NEW n \in Nat,
           c = a + n, c <= b
    PROVE  SplitsAt(a, b, c, n)
<1> DEFINE r == Run(a, b)
           u == SubSeq(r, 1, n)
           v == SubSeq(r, n + 1, b - a)
<1>1. IsRun(r, a, b) /\ a <= c
  BY RunIs
<1> HIDE DEF r
<1>2. r \in Seq(Nat) /\ Len(r) = b - a /\ \A i \in 1..(b - a) : r[i] = a + i
  BY <1>1 DEF IsRun
<1>3. u \in Seq(Nat) /\ Len(u) = n /\ \A i \in 1..n : u[i] = r[i]
  BY <1>2
<1>4. v \in Seq(Nat) /\ Len(v) = b - c /\ \A i \in 1..(b - c) : v[i] = r[n + i]
  BY <1>2
<1> HIDE DEF u, v
<1>5. IsRun(u, a, c)
  <2>1. \A i \in 1..n : u[i] = a + i
    <3>1. \A i \in 1..n : i \in 1..(b - a)
      OBVIOUS
    <3>2. ASSUME NEW i \in 1..n PROVE u[i] = a + i
      <4>1. u[i] = r[i]
        BY <1>3
      <4> QED BY <1>2, <3>1, <4>1
    <3> QED BY <3>2
  <2>2. n = c - a
    OBVIOUS
  <2> QED BY <1>3, <2>1, <2>2 DEF IsRun
<1>6. IsRun(v, c, b)
  <2>1. \A i \in 1..(b - c) : r[n + i] = c + i
    BY <1>2
  <2> QED BY <1>4, <2>1 DEF IsRun
<1>7. u = Run(a, c) /\ v = Run(c, b)
  BY <1>1, <1>5, <1>6, RunIsOnly
<1> QED BY <1>7 DEF u, v, r, SplitsAt

-----------------------------------------------------------------------------
(* The message at the head of rcv_queue *)

\* The message at the head of rcv_queue, when it is complete.
LEMMA HeadIs ==
    ASSUME taken \in Fragments, NEW g \in Fragments, HeadComplete(g)
    PROVE  /\ HeadEnd \in Fragments /\ taken < HeadEnd /\ HeadEnd <= g
           /\ Offset[taken] \in Nat /\ Offset[HeadEnd] \in Nat
           /\ Offset[taken] <= Offset[HeadEnd]
           /\ HeadLen \in Nat
           /\ HeadBytes \in Seq(Nat) /\ Len(HeadBytes) = HeadLen
<1>1. taken + 1 \in 1..Len(Inbound) /\ HeadEnd <= g
  BY InboundIs DEF Fragments, HeadComplete
<1>2. HeadEnd \in Fragments /\ taken < HeadEnd
  BY <1>1, InboundIs DEF HeadEnd, Fragments
<1>3. Offset[taken] \in Nat /\ Offset[HeadEnd] \in Nat /\ Offset[taken] <= Offset[HeadEnd]
  <2>1. taken <= HeadEnd
    BY <1>1, <1>2, InboundIs DEF Fragments
  <2> QED BY <1>2, <2>1, OffsetIs, OffsetGrows
<1>4. IsRun(HeadBytes, Offset[taken], Offset[HeadEnd])
  BY <1>3, RunIs DEF HeadBytes
<1> QED BY <1>1, <1>2, <1>3, <1>4 DEF HeadLen, IsRun

-----------------------------------------------------------------------------
(* Every step keeps the types *)

\* TypeOK in parts: the network, what is received, the call, what is sent.
NetOK == /\ source \in Seq(Packet)
         /\ Len(source) <= SourceCap
         /\ sent \in Fragments
         /\ routed \in BOOLEAN

RecvOK == /\ input \in Fragments
          /\ taken \in Fragments
          /\ leftover \in Seq(Nat)
          /\ delivered \in Seq(Nat)

Outcomes == {"none", "ok", "eof", "closed", "timeout", "too_small", "io", "failed"}

CallOK == /\ call \in {Idle} \cup [op : Recvs \cup {"poll_read"}, size : Nat]
          /\ call # Idle => ~closed
          /\ result \in [op : use.operations \cup {"none"}, size : Nat, is : Outcomes]
          /\ closed \in BOOLEAN
          /\ silent \in BOOLEAN

SendOK == /\ sndQueue \in Seq(0..Mss)
          /\ transmitted \in Nat
          /\ accepted \in Nat
          /\ sends \in 0..MaxSends
          /\ updated \in BOOLEAN

\* The parts are TypeOK.
LEMMA TypeParts ==
    TypeOK <=> use \in Uses /\ NetOK /\ RecvOK /\ CallOK /\ SendOK
BY DEF TypeOK, NetOK, RecvOK, CallOK, SendOK, Outcomes, Packet

LEMMA TypePartsNext ==
    use' \in Uses /\ NetOK' /\ RecvOK' /\ CallOK' /\ SendOK' => TypeOK'
BY DEF TypeOK, NetOK, RecvOK, CallOK, SendOK, Outcomes, Packet

LEMMA LensAreNumbers ==
    ASSUME NEW q \in Seq(0..Mss)
    PROVE  q \in Seq(Nat) /\ Total(q) \in Nat
<1>1. q \in Seq(Nat)
  BY MssIs
<1> QED BY <1>1, TotalInNat

\* What an update transmits leaves snd_queue.
LEMMA UpdateIs ==
    ASSUME SendOK, Update
    PROVE  /\ SendOK'
           /\ accepted' = accepted
           /\ transmitted' + Total(sndQueue') = transmitted + Total(sndQueue)
<1>1. Total(sndQueue) \in Nat
  BY LensAreNumbers DEF SendOK
<1>2. CASE sndQueue' = <<>> /\ transmitted' = transmitted + Total(sndQueue)
  <2>1. sndQueue' \in Seq(0..Mss) /\ Total(sndQueue') = 0
    BY <1>2, TotalEmpty
  <2> QED BY <1>1, <1>2, <2>1 DEF SendOK, Update
<1>3. CASE UNCHANGED <<sndQueue, transmitted>>
  BY <1>1, <1>3 DEF SendOK, Update
<1> QED BY <1>2, <1>3 DEF Update

LEMMA ReturnIs ==
    ASSUME NEW op \in use.operations, NEW size \in Nat, NEW what \in Outcomes,
           use' = use, closed' \in BOOLEAN, silent' \in BOOLEAN, Return(op, size, what)
    PROVE  CallOK' /\ call' = Idle
BY DEF Return, CallOK

\* What the loop of recv does: it takes the message at the head, or nothing.
TookHead == /\ HeadComplete(input')
            /\ taken' = HeadEnd
            /\ delivered' = delivered \o HeadBytes
            /\ UNCHANGED leftover

TookNone == UNCHANGED <<taken, delivered, leftover>>

\* A try of recv keeps the types and takes a message or nothing.
LEMMA TryIs ==
    ASSUME RecvOK, CallOK, ByUse, use' = use, closed = FALSE, silent' \in BOOLEAN,
           NEW op \in Recvs, op \in use.operations, NEW size \in Nat,
           NEW g \in Fragments, TryOrWait(op, size, g)
    PROVE  RecvOK' /\ CallOK' /\ ByUse' /\ input' = g /\ (TookHead \/ TookNone)
<1>1. input' = g
  BY DEF TryOrWait
<1>2. ASSUME Fits(op, size, g), taken' = HeadEnd, delivered' = delivered \o HeadBytes,
             Return(op, size, "ok"), UNCHANGED <<leftover, closed>>
      PROVE  RecvOK' /\ CallOK' /\ ByUse' /\ TookHead
  <2>1. HeadComplete(g)
    BY <1>2 DEF Fits
  <2>2. HeadEnd \in Fragments /\ HeadBytes \in Seq(Nat)
    BY <2>1, HeadIs DEF RecvOK
  <2>3. IsConcat(delivered \o HeadBytes, delivered, HeadBytes)
    BY <2>2, ConcatNumbers DEF RecvOK
  <2>4. RecvOK'
    BY <1>1, <1>2, <2>2, <2>3 DEF RecvOK, IsConcat
  <2>5. CallOK' /\ call' = Idle
    BY <1>2, ReturnIs DEF Outcomes
  <2>6. ByUse'
    BY <1>2, <2>5 DEF ByUse, PollReads, Idle, Recvs
  <2> QED BY <1>1, <1>2, <2>1, <2>4, <2>5, <2>6 DEF TookHead
<1>3. ASSUME NEW what \in Outcomes, Return(op, size, what),
             closed' \in BOOLEAN, UNCHANGED <<taken, leftover, delivered>>
      PROVE  RecvOK' /\ CallOK' /\ ByUse' /\ TookNone
  <2>1. RecvOK'
    BY <1>1, <1>3 DEF RecvOK
  <2>2. CallOK' /\ call' = Idle
    BY <1>3, ReturnIs
  <2>3. ByUse'
    BY <1>3, <2>2 DEF ByUse, PollReads, Idle, Recvs
  <2> QED BY <1>3, <2>1, <2>2, <2>3 DEF TookNone
<1>4. ASSUME call' = [op |-> op, size |-> size], result' = None,
             UNCHANGED <<taken, leftover, delivered, closed>>
      PROVE  RecvOK' /\ CallOK' /\ ByUse' /\ TookNone
  <2>1. RecvOK'
    BY <1>1, <1>4 DEF RecvOK
  <2>2. CallOK'
    BY <1>4 DEF CallOK, None, Outcomes
  <2>3. ByUse'
    BY <1>4 DEF ByUse, PollReads, Recvs
  <2> QED BY <1>4, <2>1, <2>2, <2>3 DEF TookNone
<1>5. closed \in BOOLEAN /\ TRUE \in BOOLEAN
  BY DEF CallOK
<1> QED BY <1>1, <1>2, <1>3, <1>4, <1>5 DEF TryOrWait, Outcomes

\* What a poll of AsyncRead does: the first n bytes of the message at the head
\* go to the application.
PolledHead(n) == /\ HeadComplete(input')
                 /\ n <= HeadLen
                 /\ DeliverHead(n)

\* A try of poll_read keeps the types and takes a message or nothing.
LEMMA PollTryIs ==
    ASSUME RecvOK, CallOK, ByUse, use' = use, UNCHANGED closed, closed = FALSE,
           silent' \in BOOLEAN, PollReads, leftover = <<>>, NEW size \in Nat,
           NEW g \in Fragments, PollTry(size, g)
    PROVE  /\ RecvOK' /\ CallOK' /\ ByUse' /\ input' = g
           /\ (\E n \in Nat : PolledHead(n)) \/ TookNone
<1>1. input' = g /\ "poll_read" \in use.operations /\ PollReads'
  BY DEF PollTry, PollReads
<1>2. ASSUME Fits("poll_read", ReadBufLen, g), DeliverHead(Least(size, HeadLen)),
             Return("poll_read", size, "ok")
      PROVE  RecvOK' /\ CallOK' /\ ByUse' /\ \E n \in Nat : PolledHead(n)
  <2> DEFINE n == Least(size, HeadLen)
  <2>1. HeadComplete(g)
    BY <1>2 DEF Fits
  <2>2. HeadEnd \in Fragments /\ HeadBytes \in Seq(Nat) /\ HeadLen \in Nat
        /\ Len(HeadBytes) = HeadLen
    BY <2>1, HeadIs DEF RecvOK
  <2>3. n \in Nat /\ n <= HeadLen
    BY <2>2 DEF Least
  <2>4. SubSeq(HeadBytes, 1, n) \in Seq(Nat) /\ SubSeq(HeadBytes, n + 1, HeadLen) \in Seq(Nat)
    <3> HIDE DEF n
    <3> QED BY <2>2, <2>3
  <2>5. IsConcat(delivered \o SubSeq(HeadBytes, 1, n), delivered, SubSeq(HeadBytes, 1, n))
    BY <2>4, ConcatNumbers DEF RecvOK
  <2> HIDE DEF n
  <2>6. RecvOK'
    BY <1>1, <1>2, <2>2, <2>4, <2>5 DEF RecvOK, IsConcat, DeliverHead, n
  <2>7. CallOK' /\ call' = Idle
    BY <1>1, <1>2, ReturnIs DEF Outcomes, CallOK
  <2>8. ByUse'
    BY <1>1, <2>7 DEF ByUse, Idle, Recvs
  <2> QED BY <1>1, <1>2, <2>1, <2>3, <2>6, <2>7, <2>8 DEF PolledHead, n
<1>3. ASSUME Return("poll_read", size, "too_small"), UNCHANGED <<taken, leftover, delivered>>
      PROVE  RecvOK' /\ CallOK' /\ ByUse' /\ TookNone
  <2>1. RecvOK'
    BY <1>1, <1>3 DEF RecvOK
  <2>2. CallOK' /\ call' = Idle
    BY <1>1, <1>3, ReturnIs DEF Outcomes, CallOK
  <2>3. ByUse'
    BY <1>1, <2>2 DEF ByUse, Idle, Recvs
  <2> QED BY <1>3, <2>1, <2>2, <2>3 DEF TookNone
<1>4. ASSUME call' = [op |-> "poll_read", size |-> size], result' = None,
             UNCHANGED <<taken, leftover, delivered>>
      PROVE  RecvOK' /\ CallOK' /\ ByUse' /\ TookNone
  <2>1. RecvOK'
    BY <1>1, <1>4 DEF RecvOK
  <2>2. CallOK'
    BY <1>4 DEF CallOK, None, Outcomes
  <2>3. ByUse'
    BY <1>1, <1>4 DEF ByUse, Recvs
  <2> QED BY <1>4, <2>1, <2>2, <2>3 DEF TookNone
<1> QED BY <1>1, <1>2, <1>3, <1>4 DEF PollTry

-----------------------------------------------------------------------------
(* What ikcp_send does to snd_queue *)

\* In stream mode the last segment is filled up.
LEMMA ExtendIs ==
    ASSUME SendOK, NEW len \in Nat
    PROVE  /\ Extend(len) \in 0..len
           /\ Extended(Extend(len)) \in Seq(0..Mss)
           /\ Total(Extended(Extend(len))) = Total(sndQueue) + Extend(len)
<1> DEFINE e == Extend(len)
           n == Len(sndQueue)
<1>1. n \in Nat /\ sndQueue \in Seq(0..Mss) /\ sndQueue \in Seq(Nat) /\ Total(sndQueue) \in Nat
  BY LensAreNumbers, LenProperties DEF SendOK
<1>2. CASE e = 0
  BY <1>1, <1>2 DEF Extended
<1>3. CASE e # 0
  <2>1. sndQueue # <<>> /\ sndQueue[n] < Mss /\ e = Least(len, Mss - sndQueue[n])
    BY <1>3 DEF Extend
  <2>2. n \in 1..n /\ sndQueue[n] \in 0..Mss
    <3> DEFINE R == 0..Mss
    <3>1. sndQueue \in Seq(R) /\ n \in 1..n
      BY <1>1, <2>1, EmptySeq
    <3>2. sndQueue[n] \in R
      <4> HIDE DEF R
      <4> QED BY <3>1, ElementOfSeq
    <3> QED BY <3>1, <3>2
  <2>3. e \in 0..len /\ sndQueue[n] + e \in 0..Mss /\ e \in Nat
    BY <2>1, <2>2, MssIs DEF Least
  <2> HIDE DEF e
  <2>4. Extended(e) = [sndQueue EXCEPT ![n] = @ + e]
    BY <1>3 DEF Extended
  <2>5. Extended(e) \in Seq(0..Mss)
    <3> DEFINE R == 0..Mss
               x == sndQueue[n] + e
    <3>1. sndQueue \in Seq(R) /\ n \in 1..Len(sndQueue) /\ x \in R
      BY <1>1, <2>2, <2>3
    <3>2. [sndQueue EXCEPT ![n] = x] \in Seq(R)
      <4> HIDE DEF R, x, n
      <4> QED BY <3>1, ExceptSeq
    <3> QED BY <2>4, <3>2
  <2>6. Total(Extended(e)) = Total(sndQueue) + e
    BY <1>1, <2>1, <2>3, <2>4, TotalExtended
  <2> QED BY <2>3, <2>5, <2>6 DEF e
<1> QED BY <1>2, <1>3

\* What ikcp_send adds to snd_queue, when it accepts the message.
LEMMA EngineSendIs ==
    ASSUME SendOK, NEW len \in Nat
    PROVE  /\ EngineSend(len).queue \in Seq(0..Mss)
           /\ EngineSend(len).ok /\ (use.stream => Count(len) < FragLimit)
              => Total(EngineSend(len).queue) = Total(sndQueue) + len
<1> DEFINE e == Extend(len)
           rest == len - e
           x == Extended(e)
           t == Cut(rest)
<1>1. e \in 0..len /\ x \in Seq(0..Mss) /\ Total(x) = Total(sndQueue) + e
  BY ExtendIs
<1>2. rest \in Nat /\ rest <= len /\ Total(sndQueue) \in Nat
  BY <1>1, LensAreNumbers DEF SendOK
<1>3. t \in Seq(0..Mss) /\ Len(t) = Count(rest) /\ Total(t) = rest /\ Count(rest) <= Count(len)
      /\ Count(rest) \in Nat /\ Count(len) \in Nat
  <2> HIDE DEF rest
  <2> QED BY <1>2, CutIs, CountGrows, CountIs
<1>4. x \o t \in Seq(0..Mss) /\ Total(x \o t) = Total(x) + Total(t)
  <2> DEFINE R == 0..Mss
  <2>1. x \in Seq(R) /\ t \in Seq(R)
    BY <1>1, <1>3
  <2>2. x \o t \in Seq(R)
    <3> HIDE DEF R, x, t
    <3> QED BY <2>1, ConcatProperties
  <2>3. x \in Seq(Nat) /\ t \in Seq(Nat)
    BY <1>1, <1>3, LensAreNumbers
  <2> HIDE DEF x, t
  <2>4. Total(x \o t) = Total(x) + Total(t)
    BY <2>3, TotalConcat
  <2> QED BY <2>2, <2>4
<1>5. EngineSend(len) = IF use.stream /\ rest = 0 THEN [queue |-> x, ok |-> TRUE]
                        ELSE IF Len(t) >= FragLimit THEN [queue |-> x, ok |-> e > 0]
                        ELSE [queue |-> x \o t, ok |-> TRUE]
  BY DEF EngineSend
<1>6. ~use.stream => e = 0
  BY DEF Extend
<1>7. rest = len - e
  OBVIOUS
<1> HIDE DEF e, rest, x, t
<1>8. CASE use.stream /\ rest = 0
  BY <1>1, <1>2, <1>5, <1>7, <1>8
<1>9. CASE ~(use.stream /\ rest = 0) /\ Len(t) >= FragLimit
  <2>1. EngineSend(len) = [queue |-> x, ok |-> e > 0]
    BY <1>5, <1>9
  <2>2. ~(EngineSend(len).ok /\ (use.stream => Count(len) < FragLimit))
    <3> DEFINE b == e > 0
    <3>1. EngineSend(len).ok = b
      <4>1. EngineSend(len) = [queue |-> x, ok |-> b]
        BY <2>1
      <4> HIDE DEF b
      <4> QED BY <4>1
    <3>2. e > 0 => use.stream
      BY <1>6, <1>1
    <3>3. ~(Count(len) < FragLimit)
      BY <1>3, <1>9, MssIs
    <3> QED BY <3>1, <3>2, <3>3, Zenon
  <2> QED BY <1>1, <2>1, <2>2
<1>10. CASE ~(use.stream /\ rest = 0) /\ ~(Len(t) >= FragLimit)
  <2>1. EngineSend(len) = [queue |-> x \o t, ok |-> TRUE]
    BY <1>5, <1>10
  <2>2. Total(x \o t) = Total(sndQueue) + len
    BY <1>1, <1>2, <1>3, <1>4, <1>7
  <2> QED BY <1>4, <2>1, <2>2
<1> QED BY <1>8, <1>9, <1>10

-----------------------------------------------------------------------------
(* What a step does *)

\* The message at the head is taken by recv, or by a poll that has nothing
\* left over; or some of what is left over is read; or nothing is.
RecvStep ==
    /\ input <= input'
    /\ \/ TookNone
       \/ TookHead /\ use.operations \cap Recvs # {}
       \/ leftover = <<>> /\ PollReads /\ \E n \in Nat : PolledHead(n)
       \/ \E n \in Nat : n <= Len(leftover) /\ Leftover(n) /\ UNCHANGED taken

\* Segments are queued by send_kcp, and what leaves snd_queue is transmitted.
SendStep ==
    \/ /\ accepted' = accepted
       /\ transmitted' + Total(sndQueue') = transmitted + Total(sndQueue)
    \/ /\ ~closed
       /\ \E len \in use.lens :
              /\ EngineSend(len).ok
              /\ accepted' = accepted + len
              /\ transmitted' + Total(sndQueue') = transmitted + Total(EngineSend(len).queue)

\* What a closed session no longer does.
CloseStep == closed => closed' /\ taken' = taken

\* What every step does.
StepOK == TypeInv' /\ RecvStep /\ SendStep /\ CloseStep

LEMMA UseIs ==
    ASSUME use \in Uses
    PROVE  /\ use.lens \subseteq Nat
           /\ use.operations \subseteq Recvs \cup {"poll_read", "send_kcp", "flush", "close"}
           /\ {use.stream, use.flushing, use.timed, use.server, use.resetting} \subseteq BOOLEAN
BY SessionAssumption DEF Use

LEMMA BoundsAre == BufLens \subseteq Nat /\ {ReadBufLen, SourceCap, MaxSends} \subseteq Nat
BY SessionAssumption

\* The parts of a step that leaves everything else as it was.
LEMMA KeepsNet == UNCHANGED netVars /\ NetOK => NetOK'
BY DEF NetOK, netVars

LEMMA KeepsRecv ==
    UNCHANGED recvVars /\ RecvOK => RecvOK' /\ input <= input' /\ TookNone
BY InboundIs DEF RecvOK, recvVars, TookNone, Fragments

LEMMA KeepsSend ==
    UNCHANGED sendVars /\ UNCHANGED updated /\ SendOK => SendOK' /\ SendStep
BY DEF SendOK, sendVars, SendStep

LEMMA KeepsCall ==
    UNCHANGED <<use, call, result, closed>> /\ silent' \in BOOLEAN /\ CallOK => CallOK'
BY DEF CallOK

LEMMA KeepsByUse ==
    UNCHANGED <<use, call, leftover>> /\ ByUse => ByUse'
BY DEF ByUse, PollReads

LEMMA KeepsInFlight ==
    UNCHANGED <<input, source, sent>> /\ InFlight => InFlight'
BY DEF InFlight, Frags

\* One lemma per action.
LEMMA InitTypes == Init => TypeInv
<1> SUFFICES ASSUME Init PROVE TypeInv
  OBVIOUS
<1>1. NetOK
  BY InboundIs, BoundsAre DEF Init, NetOK, Fragments
<1>2. RecvOK
  BY InboundIs DEF Init, RecvOK, Fragments
<1>3. CallOK
  BY DEF Init, CallOK, None, Outcomes
<1>4. SendOK
  <2>1. sndQueue \in Seq(0..Mss)
    BY DEF Init
  <2>2. sends \in 0..MaxSends
    BY BoundsAre DEF Init
  <2> QED BY <2>1, <2>2 DEF Init, SendOK
<1>5. InFlight
  <2>1. Frags(source) = <<>>
    BY DEF Init, Frags
  <2> QED BY <2>1, TotalEmpty DEF Init, InFlight
<1>6. ByUse
  BY DEF Init, ByUse, Idle, Recvs
<1> QED BY <1>1, <1>2, <1>3, <1>4, <1>5, <1>6, TypeParts DEF Init, TypeInv

LEMMA ArrivePeerIs ==
    ASSUME TypeInv, NEW k \in Fragments, ArrivePeer(k)
    PROVE  StepOK
<1>1. NetOK' /\ InFlight'
  <2>1. FromPeer(k) \in Packet /\ FromPeer(k).frags = k
    BY DEF Packet, FromPeer
  <2>2. source \in Seq(Packet) /\ source' = Append(source, FromPeer(k)) /\ Len(source) < SourceCap
    BY TypeParts DEF TypeInv, NetOK, ArrivePeer
  <2>3. /\ source' \in Seq(Packet) /\ Len(source') = Len(source) + 1
        /\ Total(Frags(source')) = Total(Frags(source)) + k
    BY <2>1, <2>2, AppendProperties, FragsAppend
  <2>4. sent' = sent + k /\ sent' \in Fragments /\ sent \in Nat /\ routed' \in BOOLEAN
    BY TypeParts, InboundIs DEF TypeInv, NetOK, ArrivePeer, Fragments
  <2>5. Len(source) \in Nat /\ SourceCap \in Nat /\ Total(Frags(source)) \in Nat
    BY <2>2, LenProperties, BoundsAre, FragsIs
  <2>6. input' = input /\ input \in Nat /\ k \in Nat
    BY TypeParts, InboundIs DEF TypeInv, RecvOK, ArrivePeer, recvVars, Fragments
  <2>7. InFlight'
    BY <2>3, <2>4, <2>5, <2>6 DEF TypeInv, InFlight
  <2> QED BY <2>2, <2>3, <2>4, <2>5, <2>7 DEF NetOK
<1>2. UNCHANGED <<use, recvVars, call, result, closed, silent, updated, sendVars, leftover, taken>>
  BY DEF ArrivePeer, recvVars
<1>3. use \in Uses /\ RecvOK /\ CallOK /\ SendOK /\ ByUse /\ silent' \in BOOLEAN
  BY <1>2, TypeParts DEF TypeInv, CallOK
<1>4. RecvOK' /\ CallOK' /\ SendOK' /\ ByUse' /\ RecvStep /\ SendStep /\ CloseStep
  BY <1>2, <1>3, KeepsRecv, KeepsSend, KeepsCall, KeepsByUse DEF RecvStep, CloseStep
<1> QED BY <1>1, <1>2, <1>3, <1>4, TypePartsNext DEF StepOK, TypeInv

LEMMA ArriveOtherIs ==
    ASSUME TypeInv, ArriveOther
    PROVE  StepOK
<1>1. NetOK' /\ InFlight'
  <2>1. PICK p \in {FromStranger, ResetError} : source' = Append(source, p)
    BY DEF ArriveOther
  <2>2. p \in Packet /\ p.frags = 0
    BY DEF Packet, FromStranger, ResetError
  <2>3. source \in Seq(Packet) /\ Len(source) < SourceCap
    BY TypeParts DEF TypeInv, NetOK, ArriveOther
  <2>4. /\ source' \in Seq(Packet) /\ Len(source') = Len(source) + 1
        /\ Total(Frags(source')) = Total(Frags(source)) + 0
    BY <2>1, <2>2, <2>3, AppendProperties, FragsAppend
  <2>5. Len(source) \in Nat /\ SourceCap \in Nat /\ Total(Frags(source)) \in Nat
    BY <2>3, LenProperties, BoundsAre, FragsIs
  <2>6. UNCHANGED <<input, sent, routed>>
    BY DEF ArriveOther, recvVars
  <2>7. InFlight'
    BY <2>4, <2>5, <2>6 DEF TypeInv, InFlight
  <2> QED BY <2>3, <2>4, <2>5, <2>6, <2>7, TypeParts DEF TypeInv, NetOK
<1>2. UNCHANGED <<use, recvVars, call, result, closed, silent, updated, sendVars, leftover, taken>>
  BY DEF ArriveOther, recvVars
<1>3. use \in Uses /\ RecvOK /\ CallOK /\ SendOK /\ ByUse /\ silent' \in BOOLEAN
  BY <1>2, TypeParts DEF TypeInv, CallOK
<1>4. RecvOK' /\ CallOK' /\ SendOK' /\ ByUse' /\ RecvStep /\ SendStep /\ CloseStep
  BY <1>2, <1>3, KeepsRecv, KeepsSend, KeepsCall, KeepsByUse DEF RecvStep, CloseStep
<1> QED BY <1>1, <1>2, <1>3, <1>4, TypePartsNext DEF StepOK, TypeInv

LEMMA RouterEndsIs ==
    ASSUME TypeInv, RouterEnds
    PROVE  StepOK
<1>1. UNCHANGED <<use, recvVars, call, result, closed, silent, updated, sendVars, leftover,
                  taken, input, source, sent>> /\ routed' = FALSE
  BY DEF RouterEnds, recvVars
<1>2. use \in Uses /\ NetOK /\ RecvOK /\ CallOK /\ SendOK /\ ByUse /\ InFlight
      /\ silent' \in BOOLEAN
  BY <1>1, TypeParts DEF TypeInv, CallOK
<1>3. NetOK'
  BY <1>1, <1>2 DEF NetOK
<1>4. RecvOK' /\ CallOK' /\ SendOK' /\ ByUse' /\ InFlight' /\ RecvStep /\ SendStep /\ CloseStep
  BY <1>1, <1>2, KeepsRecv, KeepsSend, KeepsCall, KeepsByUse, KeepsInFlight DEF RecvStep, CloseStep
<1> QED BY <1>1, <1>2, <1>3, <1>4, TypePartsNext DEF StepOK, TypeInv

LEMMA ElapseIs ==
    ASSUME TypeInv, Elapse
    PROVE  StepOK
<1>1. UNCHANGED <<use, netVars, recvVars, call, result, closed, updated, sendVars, leftover,
                  taken, input, source, sent>> /\ silent' = TRUE
  BY DEF Elapse, recvVars, netVars
<1>2. use \in Uses /\ NetOK /\ RecvOK /\ CallOK /\ SendOK /\ ByUse /\ InFlight
  BY TypeParts DEF TypeInv
<1>3. NetOK' /\ RecvOK' /\ CallOK' /\ SendOK' /\ ByUse' /\ InFlight'
      /\ RecvStep /\ SendStep /\ CloseStep
  BY <1>1, <1>2, KeepsNet, KeepsRecv, KeepsSend, KeepsCall, KeepsByUse, KeepsInFlight
     DEF RecvStep, CloseStep
<1> QED BY <1>1, <1>2, <1>3, TypePartsNext DEF StepOK, TypeInv

LEMMA RecvCallIs ==
    ASSUME TypeInv, NEW op \in Recvs, NEW size \in Nat, RecvCall(op, size)
    PROVE  StepOK
<1>1. use \in Uses /\ NetOK /\ RecvOK /\ CallOK /\ SendOK /\ ByUse /\ InFlight
      /\ silent \in BOOLEAN /\ op \in use.operations
  BY TypeParts DEF TypeInv, CallOK, RecvCall
<1>2. UNCHANGED <<use, netVars, source, sent, updated, sendVars>>
  BY DEF RecvCall, netVars
<1>3. NetOK' /\ SendOK' /\ SendStep
  BY <1>1, <1>2, KeepsNet, KeepsSend
<1>4. CASE RecvRefused
  <2>1. Return(op, size, "closed") /\ UNCHANGED <<recvVars, closed, silent, input, taken, leftover>>
    BY <1>4 DEF RecvCall, recvVars
  <2>2. CallOK' /\ call' = Idle
    BY <1>1, <1>2, <2>1, ReturnIs DEF CallOK, Outcomes
  <2>3. RecvOK' /\ RecvStep /\ InFlight' /\ CloseStep
    BY <1>1, <1>2, <2>1, KeepsRecv, KeepsInFlight DEF RecvStep, CloseStep
  <2>4. ByUse'
    BY <1>1, <1>2, <2>1, <2>2 DEF ByUse, PollReads, Idle, Recvs
  <2> QED BY <1>1, <1>2, <1>3, <2>2, <2>3, <2>4, TypePartsNext DEF StepOK, TypeInv
<1>5. CASE ~RecvRefused
  <2>1. closed = FALSE /\ silent' \in BOOLEAN /\ TryOrWait(op, size, input) /\ input \in Fragments
    BY <1>1, <1>5 DEF RecvCall, RecvRefused, CallOK, RecvOK
  <2>2. RecvOK' /\ CallOK' /\ ByUse' /\ input' = input /\ (TookHead \/ TookNone)
    BY <1>1, <1>2, <2>1, TryIs
  <2>3. RecvStep /\ InFlight' /\ CloseStep
    BY <1>1, <1>2, <2>1, <2>2, KeepsInFlight, InboundIs DEF RecvStep, CloseStep, Fragments
  <2> QED BY <1>1, <1>2, <1>3, <2>2, <2>3, TypePartsNext DEF StepOK, TypeInv
<1> QED BY <1>4, <1>5

\* A datagram of the peer brings the fragments that the network holds.
LEMMA TakePacket ==
    ASSUME NetOK, RecvOK, InFlight, source # <<>>, source' = Tail(source), UNCHANGED <<sent, routed>>
    PROVE  /\ NetOK'
           /\ Head(source) \in Packet
           /\ Head(source).frags \in Nat
           /\ input + Head(source).frags \in Fragments
           /\ input' = input + Head(source).frags => InFlight'
<1>1. source \in Seq(Packet)
  BY DEF NetOK
<1>2. /\ Tail(source) \in Seq(Packet) /\ Head(source) \in Packet
      /\ Total(Frags(source)) = Head(source).frags + Total(Frags(Tail(source)))
      /\ Len(Tail(source)) = Len(source) - 1
  BY <1>1, FragsTail, HeadTailProperties
<1>3. Head(source).frags \in Nat /\ Total(Frags(Tail(source))) \in Nat /\ Len(source) \in Nat
      /\ SourceCap \in Nat
  BY <1>1, <1>2, PacketFrags, FragsIs, LenProperties, BoundsAre
<1>4. NetOK'
  BY <1>2, <1>3 DEF NetOK
<1>5. input \in Nat /\ sent \in Fragments
  BY InboundIs DEF NetOK, RecvOK, Fragments
<1>6. input + Head(source).frags \in Fragments
  BY <1>2, <1>3, <1>5, InboundIs DEF InFlight, Fragments
<1>7. ASSUME input' = input + Head(source).frags PROVE InFlight'
  <2>1. Total(Frags(source')) = Total(Frags(Tail(source)))
    OBVIOUS
  <2> QED BY <1>2, <1>3, <1>5, <1>7, <2>1 DEF InFlight
<1> QED BY <1>2, <1>3, <1>4, <1>6, <1>7

LEMMA WaitingRecv ==
    ASSUME CallOK, ByUse, call.op \in Recvs
    PROVE  call.op \in use.operations /\ call.size \in Nat /\ closed = FALSE /\ call # Idle
BY DEF CallOK, ByUse, Recvs, Idle

LEMMA RecvDatagramIs ==
    ASSUME TypeInv, RecvDatagram
    PROVE  StepOK
<1>1. use \in Uses /\ NetOK /\ RecvOK /\ CallOK /\ SendOK /\ ByUse /\ InFlight /\ silent \in BOOLEAN
  BY TypeParts DEF TypeInv, CallOK
<1>2. use' = use /\ UNCHANGED <<sent, routed>> /\ source # <<>> /\ source' = Tail(source)
      /\ call.op \in Recvs
  BY DEF RecvDatagram
<1>3. /\ call.op \in use.operations /\ call.size \in Nat /\ closed = FALSE
      /\ NetOK' /\ Head(source) \in Packet /\ Head(source).frags \in Nat
      /\ input + Head(source).frags \in Fragments /\ input \in Fragments /\ input \in Nat
      /\ input' = input + Head(source).frags => InFlight'
  <2>1. call.op \in use.operations /\ call.size \in Nat /\ closed = FALSE
    BY <1>1, <1>2, WaitingRecv
  <2>2. input \in Fragments /\ input \in Nat
    BY <1>1, InboundIs DEF RecvOK, Fragments
  <2> QED BY <1>1, <1>2, <2>1, <2>2, TakePacket
<1>4. ASSUME silent' \in BOOLEAN, Update,
             TryOrWait(call.op, call.size, input + Head(source).frags)
      PROVE  StepOK
  <2>1. SendOK' /\ SendStep
    BY <1>1, <1>4, UpdateIs DEF SendStep
  <2>2. RecvOK' /\ CallOK' /\ ByUse' /\ input' = input + Head(source).frags
        /\ (TookHead \/ TookNone)
    BY <1>1, <1>2, <1>3, <1>4, TryIs
  <2>3. RecvStep /\ CloseStep
    BY <1>2, <1>3, <2>2 DEF RecvStep, CloseStep
  <2> QED BY <1>1, <1>2, <1>3, <2>1, <2>2, <2>3, TypePartsNext DEF StepOK, TypeInv
<1>5. CASE Head(source).from = "peer" /\ RecvDatagram
           /\ silent' = FALSE /\ Update /\ TryOrWait(call.op, call.size, input + Head(source).frags)
  BY <1>4, <1>5
<1>6. CASE Head(source) = FromStranger /\ silent' = silent /\ Update
           /\ TryOrWait(call.op, call.size, input)
  <2>1. input + Head(source).frags = input
    BY <1>3, <1>6 DEF FromStranger
  <2> QED BY <1>1, <1>4, <1>6, <2>1
<1>7. CASE Head(source) = ResetError /\ Return(call.op, call.size, "io")
           /\ UNCHANGED <<recvVars, closed, silent, updated, sendVars>>
  <2>1. UNCHANGED <<input, taken, leftover>> /\ Head(source).frags = 0
    BY <1>7 DEF recvVars, ResetError
  <2>2. CallOK' /\ call' = Idle
    BY <1>1, <1>2, <1>3, <1>7, ReturnIs DEF CallOK, Outcomes
  <2>3. RecvOK' /\ SendOK' /\ RecvStep /\ SendStep /\ CloseStep
    BY <1>1, <1>3, <1>7, KeepsRecv, KeepsSend DEF RecvStep, CloseStep
  <2>4. ByUse'
    BY <1>1, <1>2, <2>1, <2>2 DEF ByUse, PollReads, Idle, Recvs
  <2>5. InFlight'
    BY <1>3, <2>1
  <2> QED BY <1>1, <1>2, <1>3, <2>2, <2>3, <2>4, <2>5, TypePartsNext DEF StepOK, TypeInv
<1> QED BY <1>5, <1>6, <1>7 DEF RecvDatagram

LEMMA RecvTickIs ==
    ASSUME TypeInv, RecvTick
    PROVE  StepOK
<1>1. use \in Uses /\ NetOK /\ RecvOK /\ CallOK /\ SendOK /\ ByUse /\ InFlight /\ silent' \in BOOLEAN
  BY TypeParts DEF TypeInv, CallOK, RecvTick
<1>2. use' = use /\ UNCHANGED <<netVars, source, sent>> /\ call.op \in Recvs /\ Update
      /\ TryOrWait(call.op, call.size, input)
  BY DEF RecvTick, TickUpdate, netVars
<1>3. /\ call.op \in use.operations /\ call.size \in Nat /\ closed = FALSE
      /\ input \in Fragments /\ input \in Nat
  <2>1. call.op \in use.operations /\ call.size \in Nat /\ closed = FALSE
    BY <1>1, <1>2, WaitingRecv
  <2>2. input \in Fragments /\ input \in Nat
    BY <1>1, InboundIs DEF RecvOK, Fragments
  <2> QED BY <2>1, <2>2
<1>4. RecvOK' /\ CallOK' /\ ByUse' /\ input' = input /\ (TookHead \/ TookNone)
  BY <1>1, <1>2, <1>3, TryIs
<1>5. SendOK' /\ SendStep
  BY <1>1, <1>2, UpdateIs DEF SendStep
<1>6. NetOK' /\ InFlight' /\ RecvStep /\ CloseStep
  BY <1>1, <1>2, <1>3, <1>4, KeepsNet, KeepsInFlight DEF RecvStep, CloseStep
<1> QED BY <1>1, <1>2, <1>4, <1>5, <1>6, TypePartsNext DEF StepOK, TypeInv

LEMMA RecvNoneIs ==
    ASSUME TypeInv, RecvNone
    PROVE  StepOK
<1>1. use \in Uses /\ NetOK /\ RecvOK /\ CallOK /\ SendOK /\ ByUse /\ InFlight
      /\ silent' \in BOOLEAN /\ closed' \in BOOLEAN
  BY TypeParts DEF TypeInv, CallOK, RecvNone
<1>2. UNCHANGED <<use, netVars, recvVars, updated, sendVars, input, taken, leftover, source, sent>>
      /\ call.op \in Recvs /\ Return(call.op, call.size, "closed") /\ closed' = TRUE
  BY DEF RecvNone, netVars, recvVars
<1>3. CallOK' /\ call' = Idle
  BY <1>1, <1>2, WaitingRecv, ReturnIs DEF Outcomes
<1>4. ByUse'
  BY <1>1, <1>2, <1>3 DEF ByUse, PollReads, Idle, Recvs
<1>5. NetOK' /\ RecvOK' /\ SendOK' /\ InFlight' /\ RecvStep /\ SendStep /\ CloseStep
  BY <1>1, <1>2, KeepsNet, KeepsRecv, KeepsSend, KeepsInFlight DEF RecvStep, CloseStep
<1> QED BY <1>1, <1>2, <1>3, <1>4, <1>5, TypePartsNext DEF StepOK, TypeInv

LEMMA PollBufferedIs ==
    ASSUME TypeInv, PollReads, NEW size \in Nat, PollBuffered(size)
    PROVE  StepOK
<1>1. use \in Uses /\ NetOK /\ RecvOK /\ CallOK /\ SendOK /\ ByUse /\ InFlight
  BY TypeParts DEF TypeInv
<1>2. UNCHANGED <<use, netVars, input, taken, closed, silent, updated, sendVars, source, sent>>
      /\ Return("poll_read", size, "ok") /\ Leftover(Least(size, Len(leftover)))
  BY DEF PollBuffered, netVars
<1> DEFINE n == Least(size, Len(leftover))
<1>3. n \in Nat /\ n <= Len(leftover) /\ leftover \in Seq(Nat) /\ delivered \in Seq(Nat)
  BY <1>1, LenProperties DEF Least, RecvOK
<1> HIDE DEF n
<1>4. SubSeq(leftover, 1, n) \in Seq(Nat) /\ SubSeq(leftover, n + 1, Len(leftover)) \in Seq(Nat)
  BY <1>3
<1>5. IsConcat(delivered \o SubSeq(leftover, 1, n), delivered, SubSeq(leftover, 1, n))
  BY <1>3, <1>4, ConcatNumbers
<1>6. RecvOK'
  BY <1>1, <1>2, <1>4, <1>5 DEF RecvOK, Leftover, IsConcat, n
<1>7. "poll_read" \in use.operations /\ PollReads'
  BY <1>2 DEF PollReads
<1>8. CallOK' /\ call' = Idle
  BY <1>1, <1>2, <1>7, ReturnIs DEF CallOK, Outcomes
<1>9. ByUse'
  BY <1>7, <1>8 DEF ByUse, Idle, Recvs
<1>10. RecvStep
  <2>1. input \in Nat
    BY <1>1, InboundIs DEF RecvOK, Fragments
  <2> QED BY <1>2, <1>3, <2>1 DEF RecvStep, n
<1>11. NetOK' /\ SendOK' /\ InFlight' /\ SendStep /\ CloseStep
  BY <1>1, <1>2, KeepsNet, KeepsSend, KeepsInFlight DEF CloseStep
<1> QED BY <1>1, <1>2, <1>6, <1>8, <1>9, <1>10, <1>11, TypePartsNext DEF StepOK, TypeInv

LEMMA PollReadIs ==
    ASSUME TypeInv, PollReads, NEW size \in Nat, PollRead(size)
    PROVE  StepOK
<1>1. use \in Uses /\ NetOK /\ RecvOK /\ CallOK /\ SendOK /\ ByUse /\ InFlight /\ silent \in BOOLEAN
  BY TypeParts DEF TypeInv, CallOK
<1>2. use' = use /\ leftover = <<>> /\ UNCHANGED closed /\ PollReads'
      /\ "poll_read" \in use.operations
  BY DEF PollRead, PollReads, netVars
<1>3. input \in Fragments /\ input \in Nat /\ closed \in BOOLEAN
  BY <1>1, InboundIs DEF RecvOK, CallOK, Fragments
<1>4. ASSUME NEW what \in Outcomes, Return("poll_read", size, what),
             UNCHANGED <<recvVars, silent, updated, sendVars>>,
             NetOK', input' = input => InFlight'
      PROVE  StepOK
  <2>1. UNCHANGED <<input, taken, leftover>>
    BY <1>4 DEF recvVars
  <2>2. CallOK' /\ call' = Idle
    BY <1>1, <1>2, <1>3, <1>4, ReturnIs
  <2>3. ByUse'
    BY <1>2, <2>2 DEF ByUse, Idle, Recvs
  <2>4. RecvOK' /\ SendOK' /\ RecvStep /\ SendStep /\ CloseStep
    BY <1>1, <1>2, <1>4, <2>1, KeepsRecv, KeepsSend DEF RecvStep, CloseStep
  <2> QED BY <1>1, <1>2, <1>4, <2>1, <2>2, <2>3, <2>4, TypePartsNext DEF StepOK, TypeInv
<1>5. ASSUME ~closed, NEW g \in Fragments, input <= g, silent' \in BOOLEAN, PollTry(size, g),
             NetOK', input' = g => InFlight', SendOK', SendStep
      PROVE  StepOK
  <2>1. /\ RecvOK' /\ CallOK' /\ ByUse' /\ input' = g
        /\ (\E n \in Nat : PolledHead(n)) \/ TookNone
    BY <1>1, <1>2, <1>3, <1>5, PollTryIs
  <2>2. RecvStep /\ CloseStep
    BY <1>2, <1>5, <2>1 DEF RecvStep, CloseStep
  <2> QED BY <1>1, <1>2, <1>5, <2>1, <2>2, TypePartsNext DEF StepOK, TypeInv
<1>6. UNCHANGED netVars => NetOK' /\ (input' = input => InFlight')
  BY <1>1, KeepsNet, KeepsInFlight DEF netVars
<1>7. UNCHANGED <<updated, sendVars>> => SendOK' /\ SendStep
  BY <1>1, KeepsSend
<1>8. Update => SendOK' /\ SendStep
  BY <1>1, UpdateIs DEF SendStep
<1>9. CASE closed /\ Return("poll_read", size, "eof")
           /\ UNCHANGED <<use, netVars, recvVars, silent, updated, sendVars>>
  BY <1>4, <1>6, <1>9 DEF Outcomes
<1>10. CASE ~closed /\ PollTry(size, input) /\ UNCHANGED <<use, netVars, silent, updated, sendVars>>
  BY <1>1, <1>3, <1>5, <1>6, <1>7, <1>10
<1>11. CASE ~closed /\ Update /\ PollTry(size, input) /\ UNCHANGED <<use, netVars, silent>>
  BY <1>1, <1>3, <1>5, <1>6, <1>8, <1>11
<1>12. CASE /\ ~closed /\ source # <<>> /\ source' = Tail(source) /\ UNCHANGED <<use, sent, routed>>
            /\ IF Head(source) = ResetError
               THEN /\ Return("poll_read", size, "io")
                    /\ UNCHANGED <<recvVars, silent, updated, sendVars>>
               ELSE /\ silent' = (silent /\ Head(source).from # "peer")
                    /\ Update
                    /\ PollTry(size, input + Head(source).frags)
  <2>1. NetOK' /\ Head(source) \in Packet /\ Head(source).frags \in Nat
        /\ input + Head(source).frags \in Fragments
        /\ (input' = input + Head(source).frags => InFlight')
    BY <1>1, <1>12, TakePacket
  <2>2. CASE Head(source) = ResetError
    <3>1. input + Head(source).frags = input
      BY <1>3, <2>2 DEF ResetError
    <3>2. Return("poll_read", size, "io") /\ UNCHANGED <<recvVars, silent, updated, sendVars>>
      BY <1>12, <2>2
    <3> QED BY <1>4, <2>1, <3>1, <3>2 DEF Outcomes
  <2>3. CASE Head(source) # ResetError
    <3> DEFINE g == input + Head(source).frags
    <3>1. g \in Fragments /\ input <= g /\ PollTry(size, g) /\ (input' = g => InFlight')
      BY <1>3, <1>12, <2>1, <2>3
    <3>2. silent' \in BOOLEAN /\ Update
      BY <1>1, <1>12, <2>3
    <3> HIDE DEF g
    <3> QED BY <1>5, <1>8, <1>12, <2>1, <3>1, <3>2
  <2> QED BY <2>2, <2>3
<1> QED BY <1>9, <1>10, <1>11, <1>12 DEF PollRead

\* A flush transmits from the queue it is given.
LEMMA FlushToIs ==
    ASSUME SendOK, NEW queue \in Seq(0..Mss), FlushTo(queue)
    PROVE  /\ sndQueue' \in Seq(0..Mss) /\ transmitted' \in Nat
           /\ transmitted' + Total(sndQueue') = transmitted + Total(queue)
<1>1. Total(queue) \in Nat /\ transmitted \in Nat
  BY LensAreNumbers DEF SendOK
<1>2. CASE updated
  <2>1. sndQueue' = <<>> /\ transmitted' = transmitted + Total(queue)
    BY <1>2 DEF FlushTo
  <2>2. sndQueue' \in Seq(0..Mss) /\ Total(sndQueue') = 0
    BY <2>1, TotalEmpty
  <2> QED BY <1>1, <2>1, <2>2
<1>3. CASE ~updated
  BY <1>1, <1>3 DEF FlushTo
<1> QED BY <1>2, <1>3

LEMMA SendKcpIs ==
    ASSUME TypeInv, NEW len \in use.lens, SendKcp(len)
    PROVE  StepOK
<1>1. use \in Uses /\ NetOK /\ RecvOK /\ CallOK /\ SendOK /\ ByUse /\ InFlight
      /\ silent \in BOOLEAN /\ closed \in BOOLEAN /\ len \in Nat
  BY TypeParts, UseIs DEF TypeInv, CallOK
<1>2. UNCHANGED <<use, netVars, recvVars, input, taken, leftover, source, sent, closed, silent, updated>>
      /\ "send_kcp" \in use.operations /\ sends < MaxSends /\ sends' = sends + 1
  BY DEF SendKcp, netVars, recvVars
<1>3. sends' \in 0..MaxSends
  BY <1>1, <1>2, BoundsAre DEF SendOK
<1> DEFINE engine == EngineSend(len)
<1>4. ASSUME NEW what \in Outcomes, Return("send_kcp", len, what),
             sndQueue' \in Seq(0..Mss), transmitted' \in Nat, accepted' \in Nat, SendStep
      PROVE  StepOK
  <2>1. CallOK' /\ call' = Idle
    BY <1>1, <1>2, <1>4, ReturnIs
  <2>2. ByUse'
    BY <1>1, <1>2, <2>1 DEF ByUse, PollReads, Idle, Recvs
  <2>3. SendOK'
    BY <1>1, <1>2, <1>3, <1>4 DEF SendOK
  <2>4. NetOK' /\ RecvOK' /\ InFlight' /\ RecvStep /\ CloseStep
    BY <1>1, <1>2, KeepsNet, KeepsRecv, KeepsInFlight DEF RecvStep, CloseStep
  <2> QED BY <1>1, <1>2, <1>4, <2>1, <2>2, <2>3, <2>4, TypePartsNext DEF StepOK, TypeInv
<1>5. ASSUME NEW what \in Outcomes, Return("send_kcp", len, what),
             UNCHANGED <<sndQueue, transmitted, accepted>>
      PROVE  StepOK
  <2>1. SendStep /\ sndQueue' \in Seq(0..Mss) /\ transmitted' \in Nat /\ accepted' \in Nat
    BY <1>1, <1>5 DEF SendStep, SendOK
  <2> QED BY <1>4, <1>5, <2>1
<1>6. CASE /\ ~SendRefused
           /\ engine.ok
           /\ accepted' = accepted + len
           /\ IF use.flushing THEN FlushTo(engine.queue)
              ELSE sndQueue' = engine.queue /\ UNCHANGED transmitted
           /\ Return("send_kcp", len, "ok")
  <2>1. engine.queue \in Seq(0..Mss)
    BY <1>1, EngineSendIs
  <2>2. /\ sndQueue' \in Seq(0..Mss) /\ transmitted' \in Nat
        /\ transmitted' + Total(sndQueue') = transmitted + Total(engine.queue)
    <3> HIDE DEF engine
    <3>1. CASE use.flushing
      BY <1>1, <1>6, <2>1, <3>1, FlushToIs
    <3>2. CASE ~use.flushing
      <4>1. sndQueue' = engine.queue /\ transmitted' = transmitted
        BY <1>6, <3>2
      <4> QED BY <1>1, <2>1, <4>1 DEF SendOK
    <3> QED BY <3>1, <3>2
  <2>3. accepted' \in Nat
    BY <1>1, <1>6 DEF SendOK
  <2>4. SendStep
    BY <1>6, <2>2 DEF SendStep, SendRefused
  <2> HIDE DEF engine
  <2> QED BY <1>4, <1>6, <2>2, <2>3, <2>4 DEF Outcomes
<1>7. CASE Return("send_kcp", len, "closed") /\ UNCHANGED <<sndQueue, transmitted, accepted>>
  BY <1>5, <1>7 DEF Outcomes
<1>8. CASE Return("send_kcp", len, "failed") /\ UNCHANGED <<sndQueue, transmitted, accepted>>
  BY <1>5, <1>8 DEF Outcomes
<1> HIDE DEF engine
<1> QED BY <1>6, <1>7, <1>8 DEF SendKcp, engine

LEMMA FlushIs ==
    ASSUME TypeInv, Flush
    PROVE  StepOK
<1>1. use \in Uses /\ NetOK /\ RecvOK /\ CallOK /\ SendOK /\ ByUse /\ InFlight
  BY TypeParts DEF TypeInv
<1>2. UNCHANGED <<use, netVars, recvVars, input, taken, leftover, source, sent, closed, silent>>
      /\ "flush" \in use.operations /\ Update /\ Return("flush", 0, "ok")
  BY DEF Flush, netVars, recvVars
<1>3. CallOK' /\ call' = Idle
  BY <1>1, <1>2, ReturnIs DEF CallOK, Outcomes
<1>4. ByUse'
  BY <1>1, <1>2, <1>3 DEF ByUse, PollReads, Idle, Recvs
<1>5. SendOK' /\ SendStep
  BY <1>1, <1>2, UpdateIs DEF SendStep
<1>6. NetOK' /\ RecvOK' /\ InFlight' /\ RecvStep /\ CloseStep
  BY <1>1, <1>2, KeepsNet, KeepsRecv, KeepsInFlight DEF RecvStep, CloseStep
<1> QED BY <1>1, <1>2, <1>3, <1>4, <1>5, <1>6, TypePartsNext DEF StepOK, TypeInv

LEMMA CloseIs ==
    ASSUME TypeInv, Close
    PROVE  StepOK
<1>1. use \in Uses /\ NetOK /\ RecvOK /\ CallOK /\ SendOK /\ ByUse /\ InFlight /\ silent \in BOOLEAN
  BY TypeParts DEF TypeInv, CallOK
<1>2. UNCHANGED <<use, netVars, recvVars, input, taken, leftover, source, sent, silent, updated, sendVars>>
      /\ "close" \in use.operations /\ Return("close", 0, "ok") /\ closed' = TRUE
  BY DEF Close, netVars, recvVars
<1>3. CallOK' /\ call' = Idle
  BY <1>1, <1>2, ReturnIs DEF Outcomes
<1>4. ByUse'
  BY <1>1, <1>2, <1>3 DEF ByUse, PollReads, Idle, Recvs
<1>5. NetOK' /\ RecvOK' /\ SendOK' /\ InFlight' /\ RecvStep /\ SendStep /\ CloseStep
  BY <1>1, <1>2, KeepsNet, KeepsRecv, KeepsSend, KeepsInFlight DEF RecvStep, CloseStep
<1> QED BY <1>1, <1>2, <1>3, <1>4, <1>5, TypePartsNext DEF StepOK, TypeInv

LEMMA StutterIs ==
    ASSUME TypeInv, UNCHANGED vars
    PROVE  StepOK
<1>1. use \in Uses /\ NetOK /\ RecvOK /\ CallOK /\ SendOK /\ ByUse /\ InFlight /\ silent \in BOOLEAN
  BY TypeParts DEF TypeInv, CallOK
<1>2. UNCHANGED <<use, netVars, recvVars, call, result, input, taken, leftover, source, sent, closed,
                  silent, updated, sendVars>>
  BY DEF vars, netVars, recvVars
<1>3. NetOK' /\ RecvOK' /\ CallOK' /\ SendOK' /\ ByUse' /\ InFlight'
      /\ RecvStep /\ SendStep /\ CloseStep
  BY <1>1, <1>2, KeepsNet, KeepsRecv, KeepsSend, KeepsCall, KeepsByUse, KeepsInFlight
     DEF RecvStep, CloseStep
<1> QED BY <1>1, <1>2, <1>3, TypePartsNext DEF StepOK, TypeInv

\* Every step keeps the types and does what RecvStep and SendStep say.
LEMMA StepIs == TypeInv /\ [Next]_vars => StepOK
<1> SUFFICES ASSUME TypeInv, [Next]_vars PROVE StepOK
  OBVIOUS
<1>1. 0 \in Nat /\ BufLens \subseteq Nat /\ "recv_kcp" \in Recvs /\ "recv_kcp_buf" \in Recvs
  BY BoundsAre DEF Recvs
<1>2. CASE UNCHANGED vars
  BY <1>2, StutterIs
<1>3. ASSUME NEW k \in Fragments, ArrivePeer(k) PROVE StepOK
  BY <1>3, ArrivePeerIs
<1>4. CASE ArriveOther
  BY <1>4, ArriveOtherIs
<1>5. CASE RouterEnds
  BY <1>5, RouterEndsIs
<1>6. CASE Elapse
  BY <1>6, ElapseIs
<1>7. CASE RecvCall("recv_kcp", 0)
  BY <1>1, <1>7, RecvCallIs
<1>8. ASSUME NEW size \in BufLens, RecvCall("recv_kcp_buf", size) PROVE StepOK
  BY <1>1, <1>8, RecvCallIs
<1>9. CASE RecvDatagram
  BY <1>9, RecvDatagramIs
<1>10. CASE RecvTick
  BY <1>10, RecvTickIs
<1>11. CASE RecvNone
  BY <1>11, RecvNoneIs
<1>12. ASSUME PollReads, NEW size \in BufLens, PollBuffered(size) PROVE StepOK
  BY <1>1, <1>12, PollBufferedIs
<1>13. ASSUME PollReads, NEW size \in BufLens, PollRead(size) PROVE StepOK
  BY <1>1, <1>13, PollReadIs
<1>14. ASSUME NEW len \in use.lens, SendKcp(len) PROVE StepOK
  BY <1>14, SendKcpIs
<1>15. CASE Flush
  BY <1>15, FlushIs
<1>16. CASE Close
  BY <1>16, CloseIs
<1> QED BY <1>2, <1>3, <1>4, <1>5, <1>6, <1>7, <1>8, <1>9, <1>10, <1>11, <1>12, <1>13, <1>14,
           <1>15, <1>16 DEF Next

LEMMA UseStays == [Next]_vars => use' = use
BY DEF vars, Next, ArrivePeer, ArriveOther, RouterEnds, Elapse, RecvCall, RecvDatagram,
       RecvTick, RecvNone, PollBuffered, PollRead, SendKcp, Flush, Close

LEMMA TypesInvariant == Spec => []TypeInv
<1>1. TypeInv /\ [Next]_vars => TypeInv'
  BY StepIs DEF StepOK
<1> QED BY InitTypes, <1>1, PTL DEF Spec

\* Everything has its type, a call waits only on an open session, and the
\* engine never has more than the peer sent: whatever the session is used for.
THEOREM SessionTypeCorrect == Spec => []TypeOK
<1>1. TypeInv => TypeOK
  BY DEF TypeInv
<1> QED BY TypesInvariant, <1>1, PTL

\* A closed session stays closed, and none of its calls takes a message out of
\* the engine or queues one (close, and every error that closes).
THEOREM ClosedSessionIsFinal == Spec => ClosedIsFinal
<1>1. TypeInv /\ [Next]_vars
      => [closed => closed' /\ taken' = taken /\ accepted' = accepted]_vars
  BY StepIs DEF StepOK, SendStep, CloseStep
<1> QED BY TypesInvariant, <1>1, PTL DEF Spec, ClosedIsFinal

-----------------------------------------------------------------------------
(* The bytes that the application gets *)

\* The run of no bytes.
LEMMA RunEmpty ==
    ASSUME NEW a \in Nat
    PROVE  Run(a, a) = <<>>
<1>1. IsRun(<<>>, a, a)
  BY DEF IsRun
<1>2. a <= a
  OBVIOUS
<1> QED BY <1>1, <1>2, RunIsOnly

LEMMA RunEmptyOnly ==
    ASSUME NEW a \in Nat, NEW b \in Nat, a <= b, Run(a, b) = <<>>
    PROVE  a = b
<1>1. IsRun(<<>>, a, b)
  BY RunIs
<1> QED BY <1>1, EmptySeq DEF IsRun

\* At first there are no bytes at all.
LEMMA BytesFirst == Init => Bytes
<1> SUFFICES ASSUME Init PROVE Bytes
  OBVIOUS
<1>1. taken = 0 /\ input = 0 /\ delivered = <<>> /\ leftover = <<>> /\ Len(delivered) = 0
  BY DEF Init
<1>2. Offset[0] = 0 /\ Run(0, 0) = <<>>
  BY OffsetIs, RunEmpty
<1> QED BY <1>1, <1>2 DEF Bytes

\* What is delivered is known by its length.
LEMMA BytesBy ==
    ASSUME NEW d \in Nat, taken' \in Fragments, taken' <= input', d <= Offset[taken'],
           delivered' = Run(0, d), leftover' = Run(d, Offset[taken'])
    PROVE  Bytes'
<1>1. IsRun(Run(0, d), 0, d)
  BY RunIs
<1>2. Len(delivered') = d
  BY <1>1 DEF IsRun
<1> QED BY <1>2 DEF Bytes

LEMMA BytesNext == TypeInv /\ Unmixed /\ Bytes /\ StepOK => Bytes'
<1> SUFFICES ASSUME TypeInv, Unmixed, Bytes, StepOK PROVE Bytes'
  OBVIOUS
<1> DEFINE d == Len(delivered)
           a == Offset[taken]
<1>1. RecvOK /\ ByUse
  BY TypeParts DEF TypeInv
<1>2. RecvOK'
  <2>1. TypeOK'
    BY DEF StepOK, TypeInv
  <2> QED BY <2>1 DEF TypeOK, RecvOK
<1>3. /\ d \in Nat /\ a \in Nat /\ d <= a /\ taken \in Fragments /\ input \in Fragments
      /\ taken \in Nat /\ input \in Nat /\ input' \in Fragments /\ input' \in Nat
      /\ taken' \in Fragments
      /\ taken <= input /\ input <= input'
      /\ delivered = Run(0, d) /\ leftover = Run(d, a)
  <2>1. taken \in Fragments /\ input \in Fragments /\ input' \in Fragments /\ delivered \in Seq(Nat)
        /\ taken' \in Fragments
    BY <1>1, <1>2 DEF RecvOK
  <2>2. Fragments \subseteq Nat
    BY InboundIs DEF Fragments
  <2>3. d \in Nat
    BY <2>1, LenProperties
  <2> QED BY <2>1, <2>2, <2>3, OffsetIs DEF Bytes, StepOK, RecvStep
<1> HIDE DEF d, a
<1>4. CASE TookNone
  <2>1. taken' = taken /\ delivered' = delivered /\ leftover' = leftover
    BY <1>4 DEF TookNone
  <2>2. taken' <= input' /\ d <= Offset[taken'] /\ delivered' = Run(0, d)
        /\ leftover' = Run(d, Offset[taken'])
    BY <1>3, <2>1 DEF a
  <2> QED BY <1>3, <2>2, BytesBy
<1>5. ASSUME HeadComplete(input'), taken' = HeadEnd, leftover = <<>>
      PROVE  /\ d = a /\ Offset[HeadEnd] \in Nat /\ a <= Offset[HeadEnd] /\ HeadEnd <= input'
             /\ HeadLen = Offset[HeadEnd] - a
             /\ HeadBytes = Run(a, Offset[HeadEnd])
  <2>1. d = a
    BY <1>3, <1>5, RunEmptyOnly
  <2>2. /\ HeadEnd \in Fragments /\ HeadEnd <= input' /\ Offset[HeadEnd] \in Nat
        /\ Offset[taken] <= Offset[HeadEnd]
    BY <1>3, <1>5, HeadIs
  <2> QED BY <2>1, <2>2 DEF HeadLen, HeadBytes, a
<1>6. CASE TookHead /\ use.operations \cap Recvs # {}
  <2>1. leftover = <<>>
    BY <1>1, <1>6 DEF ByUse, Unmixed
  <2>2. /\ HeadComplete(input') /\ taken' = HeadEnd /\ delivered' = delivered \o HeadBytes
        /\ leftover' = <<>>
    BY <1>6, <2>1 DEF TookHead
  <2> DEFINE b == Offset[HeadEnd]
  <2>3. d = a /\ b \in Nat /\ a <= b /\ HeadEnd <= input' /\ HeadBytes = Run(a, b)
    BY <1>5, <2>1, <2>2
  <2>4. Offset[taken'] = b
    BY <2>2
  <2> HIDE DEF b
  <2>5. delivered' = Run(0, b) /\ leftover' = Run(b, b)
    <3>1. Run(0, a) \o Run(a, b) = Run(0, b)
      <4>1. 0 \in Nat /\ 0 <= a
        BY <1>3
      <4> QED BY <1>3, <2>3, <4>1, RunsJoin
    <3>2. Run(b, b) = <<>>
      BY <2>3, RunEmpty
    <3> QED BY <1>3, <2>2, <2>3, <3>1, <3>2
  <2>6. taken' <= input' /\ b <= Offset[taken'] /\ leftover' = Run(b, Offset[taken'])
    BY <2>2, <2>3, <2>4, <2>5
  <2> QED BY <1>3, <2>3, <2>5, <2>6, BytesBy
<1>7. ASSUME leftover = <<>>, NEW n \in Nat, PolledHead(n)
      PROVE  Bytes'
  <2>1. /\ HeadComplete(input') /\ n <= HeadLen /\ taken' = HeadEnd
        /\ delivered' = delivered \o SubSeq(HeadBytes, 1, n)
        /\ leftover' = SubSeq(HeadBytes, n + 1, HeadLen)
    BY <1>7 DEF PolledHead, DeliverHead
  <2> DEFINE b == Offset[HeadEnd]
             e == d + n
  <2>2. d = a /\ b \in Nat /\ a <= b /\ HeadEnd <= input' /\ HeadBytes = Run(a, b)
        /\ HeadLen = b - a
    BY <1>5, <1>7, <2>1
  <2>3. Offset[taken'] = b
    BY <2>1
  <2> HIDE DEF b
  <2>4. e \in Nat /\ d + n <= b /\ e <= b /\ d <= e
    BY <1>3, <2>1, <2>2
  <2>5. SubSeq(Run(d, b), 1, n) = Run(d, e) /\ SubSeq(Run(d, b), n + 1, b - d) = Run(e, b)
    <3>1. e = d + n
      OBVIOUS
    <3> HIDE DEF e
    <3>2. SplitsAt(d, b, e, n)
      BY <1>3, <2>2, <2>4, <3>1, RunsSplit
    <3> QED BY <3>2 DEF SplitsAt
  <2>6. Run(0, d) \o Run(d, e) = Run(0, e)
    <3>1. 0 \in Nat /\ 0 <= d
      BY <1>3
    <3> HIDE DEF e
    <3> QED BY <1>3, <2>4, <3>1, RunsJoin
  <2>7. delivered' = Run(0, e) /\ leftover' = Run(e, b)
    BY <1>3, <2>1, <2>2, <2>5, <2>6
  <2> HIDE DEF e
  <2>8. taken' <= input' /\ e <= Offset[taken'] /\ leftover' = Run(e, Offset[taken'])
    BY <2>1, <2>2, <2>3, <2>4, <2>7
  <2> QED BY <1>3, <2>4, <2>7, <2>8, BytesBy
<1>8. ASSUME NEW n \in Nat, n <= Len(leftover), Leftover(n), UNCHANGED taken
      PROVE  Bytes'
  <2> DEFINE e == d + n
  <2>1. IsRun(leftover, d, a)
    BY <1>3, RunIs
  <2>2. Len(leftover) = a - d
    BY <2>1 DEF IsRun
  <2>3. e \in Nat /\ d + n <= a /\ e <= a /\ d <= e
    BY <1>3, <1>8, <2>2
  <2>4. SubSeq(Run(d, a), 1, n) = Run(d, e) /\ SubSeq(Run(d, a), n + 1, a - d) = Run(e, a)
    <3>1. e = d + n
      OBVIOUS
    <3> HIDE DEF e
    <3>2. SplitsAt(d, a, e, n)
      BY <1>3, <2>3, <3>1, RunsSplit
    <3> QED BY <3>2 DEF SplitsAt
  <2>5. Run(0, d) \o Run(d, e) = Run(0, e)
    <3>1. 0 \in Nat /\ 0 <= d
      BY <1>3
    <3> HIDE DEF e
    <3> QED BY <1>3, <2>3, <3>1, RunsJoin
  <2>6. delivered' = Run(0, e) /\ leftover' = Run(e, a)
    BY <1>3, <1>8, <2>2, <2>4, <2>5 DEF Leftover
  <2> HIDE DEF e
  <2>7. taken' <= input' /\ e <= Offset[taken'] /\ leftover' = Run(e, Offset[taken'])
    BY <1>3, <1>8, <2>3, <2>6 DEF a
  <2> QED BY <1>3, <2>3, <2>6, <2>7, BytesBy
<1> QED BY <1>4, <1>6, <1>7, <1>8 DEF StepOK, RecvStep

\* A session that is read with recv or with AsyncRead, not with both, gives the
\* application the bytes of the peer in order, none twice and none left out,
\* through buffers of any length and for messages of any number of fragments.
THEOREM BytesComeInOrder == Spec => [](Unmixed => BytesInOrder)
<1> DEFINE Inv == TypeInv /\ (Unmixed => Bytes)
<1>1. Init => Inv
  BY InitTypes, BytesFirst
<1>2. Inv /\ [Next]_vars => Inv'
  <2> SUFFICES ASSUME Inv, [Next]_vars PROVE Inv'
    OBVIOUS
  <2>1. StepOK /\ use' = use
    BY StepIs, UseStays
  <2>2. Unmixed' => Unmixed
    BY <2>1 DEF Unmixed, PollReads
  <2>3. TypeInv'
    BY <2>1 DEF StepOK
  <2> QED BY <2>1, <2>2, <2>3, BytesNext
<1>3. Inv => (Unmixed => BytesInOrder)
  <2> SUFFICES ASSUME Inv, Unmixed PROVE BytesInOrder
    OBVIOUS
  <2> DEFINE d == Len(delivered)
             a == Offset[taken]
  <2>1. RecvOK
    BY TypeParts DEF TypeInv
  <2>2. d \in Nat /\ a \in Nat /\ DOMAIN delivered = 1..d
    BY <2>1, LenProperties, OffsetIs DEF RecvOK
  <2>3. d <= a /\ delivered = Run(0, d) /\ leftover = Run(d, a) /\ taken <= input
    BY DEF Bytes
  <2> HIDE DEF d, a
  <2>4. IsRun(delivered, 0, d) /\ IsRun(leftover, d, a)
    <3>1. 0 \in Nat /\ 0 <= d
      BY <2>2
    <3> QED BY <2>2, <2>3, <3>1, RunIs
  <2>5. \A i \in DOMAIN delivered : delivered[i] = i
    BY <2>2, <2>4 DEF IsRun
  <2>6. d + Len(leftover) = a
    BY <2>2, <2>4 DEF IsRun
  <2> QED BY <2>3, <2>5, <2>6 DEF BytesInOrder, d, a
<1> HIDE DEF Inv
<1> QED BY <1>1, <1>2, <1>3, PTL DEF Spec

-----------------------------------------------------------------------------
(* What send_kcp accepts *)

\* Where ikcp_send never stops halfway: every message that is sent in stream
\* mode has fewer fragments than the receive window holds.
NeverHalf == use.stream => \A len \in use.lens : Len(Cut(len)) < FragLimit

\* What send_kcp reports as accepted is in snd_queue or was moved out of it to
\* be transmitted, byte for byte, in message mode for messages of any length.
THEOREM AcceptedIsInTheEngine == Spec => [](NeverHalf => AcceptedIsQueued)
<1> DEFINE Inv == TypeInv /\ (NeverHalf => AcceptedIsQueued)
<1>1. Init => Inv
  <2>1. Init => AcceptedIsQueued
    BY TotalEmpty DEF Init, AcceptedIsQueued
  <2> QED BY <2>1, InitTypes
<1>2. Inv /\ [Next]_vars => Inv'
  <2> SUFFICES ASSUME Inv, [Next]_vars, NeverHalf' PROVE AcceptedIsQueued'
    BY StepIs DEF StepOK
  <2>1. StepOK /\ use' = use
    BY StepIs, UseStays
  <2>2. NeverHalf /\ accepted = transmitted + Total(sndQueue)
    BY <2>1 DEF NeverHalf, AcceptedIsQueued
  <2>3. SendOK /\ use \in Uses
    BY TypeParts DEF TypeInv
  <2>4. /\ transmitted \in Nat /\ Total(sndQueue) \in Nat
    BY <2>3, LensAreNumbers DEF SendOK
  <2>5. CASE /\ accepted' = accepted
             /\ transmitted' + Total(sndQueue') = transmitted + Total(sndQueue)
    BY <2>2, <2>5 DEF AcceptedIsQueued
  <2>6. ASSUME NEW len \in use.lens, EngineSend(len).ok, accepted' = accepted + len,
               transmitted' + Total(sndQueue') = transmitted + Total(EngineSend(len).queue)
        PROVE  AcceptedIsQueued'
    <3>1. len \in Nat
      BY <2>3, UseIs
    <3>2. use.stream => Count(len) < FragLimit
      BY <2>2, <3>1, CutIs DEF NeverHalf
    <3>3. Total(EngineSend(len).queue) = Total(sndQueue) + len
      BY <2>3, <2>6, <3>1, <3>2, EngineSendIs
    <3> QED BY <2>2, <2>4, <2>6, <3>1, <3>3 DEF AcceptedIsQueued
  <2> QED BY <2>1, <2>5, <2>6 DEF StepOK, SendStep
<1>3. Inv => (NeverHalf => AcceptedIsQueued)
  OBVIOUS
<1> HIDE DEF Inv
<1> QED BY <1>1, <1>2, <1>3, PTL DEF Spec
=============================================================================
