------------------------------ MODULE KcpLemmas ------------------------------
(***************************************************************************)
(* Facts about numbers that the proofs of several modules rest on.  The    *)
(* induction theorems of the library take an operator as a parameter; here *)
(* the property to be proved of every number is a set of numbers instead,  *)
(* and the definition by recursion is of a function.                       *)
(***************************************************************************)
EXTENDS Integers, FiniteSetTheorems, SequenceTheorems, WellFoundedInduction, TLAPS

\* A set of natural numbers that is not empty has a least element.
LEMMA LeastNumber ==
    ASSUME NEW T \in SUBSET Nat, T # {}
    PROVE  \E n \in T : \A m \in T : n <= m
<1>1. PICK k \in T : TRUE
  OBVIOUS
<1> DEFINE S == 0..k
           F == {0..m : m \in {i \in T : i <= k}}
<1>2. IsFiniteSet(S)
  BY FS_Interval
<1>3. IsWellFoundedOn(StrictSubsetOrdering(S), SUBSET S)
  BY <1>2, FS_StrictSubsetOrderingWellFounded, FS_FiniteSubsetsOfFinite
<1>4. F \subseteq SUBSET S
  OBVIOUS
<1>5. F # {}
  <2>1. 0..k \in F
    OBVIOUS
  <2> QED BY <2>1
<1>6. PICK x \in F : \A y \in F : ~ (<<y, x>> \in StrictSubsetOrdering(S))
  <2> HIDE DEF F, S
  <2> QED BY <1>3, <1>4, <1>5, WFMin
<1>7. PICK n \in T : n <= k /\ x = 0..n
  OBVIOUS
<1>8. ASSUME NEW m \in T, m < n PROVE FALSE
  <2>1. 0..m \in F /\ 0..m \in SUBSET S /\ 0..n \in SUBSET S
    BY <1>7, <1>8
  <2>2. 0..m \subseteq 0..n /\ n \in 0..n /\ n \notin 0..m
    BY <1>8
  <2> HIDE DEF F, S
  <2> QED BY <1>6, <1>7, <2>1, <2>2 DEF StrictSubsetOrdering
<1> QED BY <1>8

\* Induction: what holds of 0 and passes from n to n + 1 holds of every number.
LEMMA NatStep ==
    ASSUME NEW S, 0 \in S, \A n \in Nat : n \in S => n + 1 \in S
    PROVE  Nat \subseteq S
<1> DEFINE T == Nat \ S
<1>1. SUFFICES ASSUME T # {} PROVE FALSE
  OBVIOUS
<1>2. PICK n \in T : \A m \in T : n <= m
  BY <1>1, LeastNumber
<1>3. n # 0 /\ n - 1 \in Nat /\ n - 1 \notin T
  BY <1>2
<1> QED BY <1>3

\* A set of numbers up to k that is not empty has a greatest element.
LEMMA GreatestNumber ==
    ASSUME NEW k \in Nat, NEW T \in SUBSET (0..k), T # {}
    PROVE  \E n \in T : \A m \in T : n >= m
<1> DEFINE U == {k - i : i \in T}
<1>1. U \in SUBSET Nat /\ U # {}
  <2>1. PICK i \in T : TRUE
    OBVIOUS
  <2>2. k - i \in U
    OBVIOUS
  <2>3. \A m \in T : k - m \in Nat
    OBVIOUS
  <2> QED BY <2>2, <2>3
<1>2. PICK j \in U : \A u \in U : j <= u
  <2> HIDE DEF U
  <2> QED BY <1>1, LeastNumber
<1>3. PICK n \in T : j = k - n
  OBVIOUS
<1>4. ASSUME NEW m \in T PROVE n >= m
  <2>1. k - m \in U /\ j <= k - m
    BY <1>2
  <2> QED BY <1>3, <2>1
<1> QED BY <1>4

-----------------------------------------------------------------------------
(* Functions defined by recursion on 0..n *)

Steps(n, S) == [1..n -> [S -> S]]

\* g[i] makes the value of f at i from the value before it.
ByRecursion(f, S, a, n, g) ==
    /\ f \in [0..n -> S]
    /\ f[0] = a
    /\ \A i \in 1..n : f[i] = g[i][f[i - 1]]

\* There is such a function.
LEMMA Recursion ==
    ASSUME NEW S, NEW a \in S, NEW n \in Nat, NEW g \in Steps(n, S)
    PROVE  \E f : ByRecursion(f, S, a, n, g)
<1> DEFINE Done == {k \in Nat : k <= n => \E f : ByRecursion(f, S, a, k, g)}
<1>1. 0 \in Done
  <2>1. ByRecursion([i \in 0..0 |-> a], S, a, 0, g)
    BY DEF ByRecursion
  <2> QED BY <2>1
<1>2. ASSUME NEW k \in Nat, k \in Done PROVE k + 1 \in Done
  <2>1. SUFFICES ASSUME k + 1 <= n PROVE \E f : ByRecursion(f, S, a, k + 1, g)
    OBVIOUS
  <2>2. PICK f : ByRecursion(f, S, a, k, g)
    BY <1>2, <2>1
  <2> DEFINE h == [i \in 0..(k + 1) |-> IF i = k + 1 THEN g[k + 1][f[k]] ELSE f[i]]
  <2>3. g[k + 1][f[k]] \in S
    BY <2>1, <2>2 DEF ByRecursion, Steps
  <2>4. h \in [0..(k + 1) -> S] /\ h[0] = a
    BY <2>2, <2>3 DEF ByRecursion
  <2>5. \A i \in 1..(k + 1) : h[i] = g[i][h[i - 1]]
    <3> TAKE i \in 1..(k + 1)
    <3>1. CASE i = k + 1
      BY <3>1
    <3>2. CASE i \in 1..k
      <4>1. h[i] = f[i] /\ h[i - 1] = f[i - 1]
        BY <3>2
      <4> QED BY <3>2, <4>1, <2>2 DEF ByRecursion
    <3> QED BY <3>1, <3>2
  <2> HIDE DEF h
  <2> QED BY <2>4, <2>5 DEF ByRecursion
<1>3. Nat \subseteq Done
  <2> HIDE DEF Done
  <2> QED BY <1>1, <1>2, NatStep
<1> QED BY <1>3

-----------------------------------------------------------------------------
(* Sums *)

\* f[i] is the sum of the first i values of h.
IsSums(f, h, n) ==
    /\ h \in [1..n -> Nat]
    /\ f \in [0..n -> Nat]
    /\ f[0] = 0
    /\ \A i \in 1..n : f[i] = f[i - 1] + h[i]

\* The sums of n numbers exist.
LEMMA SumsExist ==
    ASSUME NEW n \in Nat, NEW h \in [1..n -> Nat]
    PROVE  \E f : IsSums(f, h, n)
<1> DEFINE g == [i \in 1..n |-> [s \in Nat |-> s + h[i]]]
<1>1. 0 \in Nat /\ g \in Steps(n, Nat)
  BY DEF Steps
<1>2. PICK f : ByRecursion(f, Nat, 0, n, g)
  <2> HIDE DEF g
  <2> QED BY <1>1, Recursion
<1>3. \A i \in 1..n : f[i] = f[i - 1] + h[i]
  <2> TAKE i \in 1..n
  <2>1. f \in [0..n -> Nat] /\ i - 1 \in 0..n
    BY <1>2 DEF ByRecursion
  <2>2. f[i - 1] \in Nat
    BY <2>1
  <2>3. f[i] = g[i][f[i - 1]]
    <3> HIDE DEF g
    <3> QED BY <1>2 DEF ByRecursion
  <2> QED BY <2>2, <2>3
<1> HIDE DEF g
<1> QED BY <1>2, <1>3 DEF ByRecursion, IsSums

\* What the recursive definition of the sums says of them.
LEMMA SumsEquation ==
    ASSUME NEW n \in Nat, NEW h, NEW f, IsSums(f, h, n)
    PROVE  f = [i \in 0..n |-> IF i = 0 THEN 0 ELSE f[i - 1] + h[i]]
BY DEF IsSums

\* Whatever satisfies the recursive definition is the sums.
LEMMA SumsDefined ==
    ASSUME NEW n \in Nat, NEW h \in [1..n -> Nat], NEW c,
           c = [i \in 0..n |-> IF i = 0 THEN 0 ELSE c[i - 1] + h[i]]
    PROVE  IsSums(c, h, n)
<1>1. PICK f : IsSums(f, h, n)
  BY SumsExist
<1> DEFINE Same == {i \in Nat : i <= n => c[i] = f[i]}
<1>2. c[0] = 0 /\ \A i \in 1..n : c[i] = c[i - 1] + h[i]
  <2>1. \A i \in 0..n : c[i] = IF i = 0 THEN 0 ELSE c[i - 1] + h[i]
    OBVIOUS
  <2>2. c[0] = 0
    BY <2>1
  <2>3. \A i \in 1..n : i \in 0..n /\ i # 0
    OBVIOUS
  <2>4. \A i \in 1..n : c[i] = c[i - 1] + h[i]
    BY <2>1, <2>3
  <2> QED BY <2>2, <2>4
<1>3. 0 \in Same
  BY <1>1, <1>2 DEF IsSums
<1>4. ASSUME NEW i \in Nat, i \in Same PROVE i + 1 \in Same
  <2> SUFFICES ASSUME i + 1 <= n PROVE c[i + 1] = f[i + 1]
    OBVIOUS
  <2>1. c[i + 1] = c[i] + h[i + 1]
    BY <1>2
  <2>2. f[i + 1] = f[i] + h[i + 1]
    BY <1>1 DEF IsSums
  <2> QED BY <2>1, <2>2, <1>4
<1>5. Nat \subseteq Same
  <2> HIDE DEF Same
  <2> QED BY <1>3, <1>4, NatStep
<1>6. ASSUME NEW i \in 0..n PROVE c[i] = f[i]
  <2>1. i \in Same
    <3> HIDE DEF Same
    <3> QED BY <1>5
  <2> QED BY <2>1
<1>7. DOMAIN c = 0..n /\ c = [i \in 0..n |-> c[i]]
  OBVIOUS
<1>8. c \in [0..n -> Nat]
  BY <1>1, <1>6, <1>7 DEF IsSums
<1> QED BY <1>2, <1>8 DEF IsSums

\* The first c values of k are those of h that follow its first d.
Part(k, c, h, d) == \A i \in 1..c : h[d + i] = k[i]

\* The sums of a part of some numbers.
LEMMA SumsOfPart ==
    ASSUME NEW n \in Nat, NEW m \in Nat, NEW d \in Nat, NEW c \in 0..m, d + c <= n,
           NEW f, NEW h, NEW g, NEW k, IsSums(f, h, n), IsSums(g, k, m),
           Part(k, c, h, d)
    PROVE  \A i \in 0..c : f[d + i] = f[d] + g[i]
<1> DEFINE Holds == {i \in Nat : i <= c => f[d + i] = f[d] + g[i]}
<1>1. 0 \in Holds
  BY DEF IsSums
<1>2. ASSUME NEW i \in Nat, i \in Holds PROVE i + 1 \in Holds
  <2> SUFFICES ASSUME i + 1 <= c PROVE f[d + (i + 1)] = f[d] + g[i + 1]
    OBVIOUS
  <2>1. f[d + (i + 1)] = f[d + i] + h[d + (i + 1)] /\ f[d] \in Nat
    BY DEF IsSums
  <2>2. g[i + 1] = g[i] + k[i + 1] /\ g[i] \in Nat /\ k[i + 1] \in Nat
    <3>1. i + 1 \in 1..m /\ i \in 0..m /\ (i + 1) - 1 = i
      OBVIOUS
    <3>2. g[i + 1] = g[(i + 1) - 1] + k[i + 1] /\ k[i + 1] \in Nat
      BY <3>1 DEF IsSums
    <3> QED BY <3>1, <3>2 DEF IsSums
  <2>3. h[d + (i + 1)] = k[i + 1] /\ f[d + i] = f[d] + g[i]
    BY <1>2 DEF Part
  <2> HIDE DEF Holds
  <2> QED BY <2>1, <2>2, <2>3
<1>3. Nat \subseteq Holds
  <2> HIDE DEF Holds
  <2> QED BY <1>1, <1>2, NatStep
<1> QED BY <1>3

\* The sum of n numbers and m more is the sum of both sums.
LEMMA SumsOfBoth ==
    ASSUME NEW n \in Nat, NEW m \in Nat, NEW w \in Nat, w = n + m,
           NEW f, NEW h, NEW g, NEW k, NEW p, NEW q,
           IsSums(f, h, n), IsSums(g, k, m), IsSums(p, q, w),
           Part(h, n, q, 0), Part(k, m, q, n)
    PROVE  p[w] = f[n] + g[m]
<1>1. \A i \in 0..n : p[0 + i] = p[0] + f[i]
  BY SumsOfPart
<1>2. \A i \in 0..m : p[n + i] = p[n] + g[i]
  BY SumsOfPart
<1>3. p[0] = 0 /\ f[n] \in Nat /\ n \in 0..n /\ m \in 0..m
  BY DEF IsSums
<1> QED BY <1>1, <1>2, <1>3

-----------------------------------------------------------------------------
(* Sequences *)

\* A function on 1..n is a sequence of length n.
LEMMA FunctionIsSeq ==
    ASSUME NEW n \in Nat, NEW S, NEW s \in [1..n -> S]
    PROVE  s \in Seq(S) /\ Len(s) = n
BY SeqDef

\* u is the sequence p of numbers, then q.
IsConcat(u, p, q) ==
    /\ u \in Seq(Nat)
    /\ Len(u) = Len(p) + Len(q)
    /\ \A i \in 1..Len(p) : u[i] = p[i]
    /\ \A i \in 1..Len(q) : u[Len(p) + i] = q[i]

LEMMA ConcatNumbers ==
    ASSUME NEW p, NEW q, p \in Seq(Nat), q \in Seq(Nat)
    PROVE  IsConcat(p \o q, p, q)
BY DEF IsConcat

-----------------------------------------------------------------------------
(* Division *)

\* What the quotient of two numbers is.
LEMMA Quotient ==
    ASSUME NEW a \in Nat, NEW m \in Nat, m > 0
    PROVE  /\ a \div m \in Nat
           /\ (a \div m) * m <= a
           /\ a < (a \div m) * m + m
BY SMT
=============================================================================
