---------------------------- MODULE UnpackProofs -----------------------------
(***************************************************************************)
(* Theorem about Unpack, for any size of bytes, of codes and of the table   *)
(* of short ones: every file is accepted or refused as the format says, and *)
(* what comes out is what its codes stand for.                              *)
(***************************************************************************)
EXTENDS Unpack, FiniteSetTheorems, WellFoundedInduction, TLAPS

-----------------------------------------------------------------------------
(* Numbers.                                                                  *)

\* Every set of numbers that is not empty has a least one.
LEMMA LeastNatural ==
    ASSUME NEW S \in SUBSET Nat, S # {}
    PROVE  \E x \in S : \A y \in S : x <= y
<1>1. PICK x \in S : \A y \in S : ~ <<y, x>> \in OpToRel(<, Nat)
    BY WFMin, NatLessThanWellFounded
<1>2. \A y \in S : ~ (y < x)
    BY <1>1 DEF OpToRel
<1>3. \A y \in S : x <= y
    BY <1>2
<1> QED BY <1>3

\* A set with zero, and with n + 1 for each n of it, has all the numbers.
LEMMA NatSetInduction ==
    ASSUME NEW P, 0 \in P, \A n \in Nat : n \in P => n + 1 \in P
    PROVE  Nat \subseteq P
<1>1. SUFFICES ASSUME Nat \ P # {} PROVE FALSE
    OBVIOUS
<1>2. PICK x \in Nat \ P : \A y \in Nat \ P : x <= y
    BY <1>1, LeastNatural
<1>3. x # 0 /\ x - 1 \in Nat
    BY <1>2
<1>4. x - 1 \in P
    BY <1>2, <1>3
<1> QED BY <1>2, <1>3, <1>4

\* 2^n is the number of the subsets of a set with n elements.
LEMMA PowerIsCardinality ==
    ASSUME NEW n \in Nat
    PROVE  /\ IsFiniteSet(SUBSET (1 .. n))
           /\ Cardinality(SUBSET (1 .. n)) = 2 ^ n
<1>1. IsFiniteSet(1 .. n) /\ Cardinality(1 .. n) = n
    BY FS_Interval
<1> QED BY <1>1, FS_SUBSET

\* Powers are numbers.
LEMMA PowerType == ASSUME NEW n \in Nat PROVE 2 ^ n \in Nat
BY PowerIsCardinality, FS_CardinalityType

\* The first of them.
LEMMA PowerOfZero == 2 ^ 0 = 1
OBVIOUS

\* A number more makes more subsets, those without it and those with it.
LEMMA PowerDoubles == ASSUME NEW n \in Nat PROVE 2 ^ (n + 1) = 2 ^ n + 2 ^ n
<1> DEFINE Old == SUBSET (1 .. n)
           New == {s \cup {n + 1} : s \in Old}
<1>1. IsFiniteSet(Old) /\ Cardinality(Old) = 2 ^ n /\ 2 ^ n \in Nat
    BY PowerIsCardinality, PowerType
<1>2. SUBSET (1 .. n + 1) = Old \cup New
  <2>1. ASSUME NEW s \in SUBSET (1 .. n + 1), n + 1 \notin s PROVE s \in Old
      BY <2>1
  <2>2. ASSUME NEW s \in SUBSET (1 .. n + 1), n + 1 \in s PROVE s \in New
    <3>1. s \ {n + 1} \in Old /\ s = (s \ {n + 1}) \cup {n + 1}  BY <2>2
    <3> QED BY <3>1
  <2>3. ASSUME NEW s \in Old PROVE s \in SUBSET (1 .. n + 1)
        /\ s \cup {n + 1} \in SUBSET (1 .. n + 1)
    <3>1. 1 .. n \subseteq 1 .. n + 1 /\ n + 1 \in 1 .. n + 1  OBVIOUS
    <3> QED BY <3>1
  <2>4. Old \cup New \subseteq SUBSET (1 .. n + 1)
    <3> HIDE DEF Old
    <3> QED BY <2>3
  <2> HIDE DEF Old, New
  <2> QED BY <2>1, <2>2, <2>4
<1>3. Old \cap New = {}
    OBVIOUS
<1>4. IsFiniteSet(New) /\ Cardinality(New) = 2 ^ n
  <2> DEFINE f == [s \in Old |-> s \cup {n + 1}]
  <2>1. f \in Bijection(Old, New)
    <3>1. f \in [Old -> New]  OBVIOUS
    <3>2. \A s, t \in Old : f[s] = f[t] => s = t
      <4> TAKE s \in Old, t \in Old
      <4>1. s = f[s] \ {n + 1} /\ t = f[t] \ {n + 1}  OBVIOUS
      <4> HIDE DEF f
      <4> QED BY <4>1
    <3>3. \A u \in New : \E s \in Old : f[s] = u  OBVIOUS
    <3> HIDE DEF f, Old, New
    <3> QED BY <3>1, <3>2, <3>3 DEF Bijection, Injection, Surjection, IsInjective
  <2> HIDE DEF f, Old, New
  <2>2. ExistsBijection(Old, New)  BY <2>1 DEF ExistsBijection
  <2> QED BY <1>1, <2>2, FS_Bijection
<1> HIDE DEF Old, New
<1>5. Cardinality(Old \cup New) = 2 ^ n + 2 ^ n
  <2>1. /\ Cardinality(Old \cup New) =
             Cardinality(Old) + Cardinality(New) - Cardinality(Old \cap New)
        /\ Cardinality({}) = 0
      BY <1>1, <1>4, FS_Union, FS_EmptySet
  <2> QED BY <1>1, <1>3, <1>4, <2>1
<1>6. Cardinality(SUBSET (1 .. n + 1)) = 2 ^ (n + 1)
    BY PowerIsCardinality
<1> QED BY <1>2, <1>5, <1>6

\* Powers are positive and grow.
LEMMA PowerGrows ==
    ASSUME NEW n \in Nat
    PROVE  /\ 2 ^ n \in Nat \ {0}
           /\ \A m \in Nat : m < n => 2 ^ m < 2 ^ n
<1> DEFINE P == {k \in Nat : 2 ^ k > 0 /\ \A m \in Nat : m < k => 2 ^ m < 2 ^ k}
<1>1. 0 \in P
    BY PowerOfZero
<1>2. ASSUME NEW k \in Nat, k \in P PROVE k + 1 \in P
  <2>1. 2 ^ (k + 1) = 2 ^ k + 2 ^ k /\ 2 ^ k \in Nat /\ 2 ^ k > 0
      BY <1>2, PowerDoubles, PowerType
  <2>2. ASSUME NEW m \in Nat, m < k + 1 PROVE 2 ^ m < 2 ^ (k + 1)
    <3>1. 2 ^ m \in Nat  BY PowerType
    <3>2. CASE m = k  BY <2>1, <3>2
    <3>3. CASE m < k
      <4>1. 2 ^ m < 2 ^ k  BY <1>2, <3>3
      <4> QED BY <2>1, <3>1, <4>1
    <3> QED BY <2>2, <3>2, <3>3
  <2>3. 2 ^ (k + 1) > 0  BY <2>1
  <2> QED BY <2>2, <2>3
<1>3. n \in P
  <2> HIDE DEF P
  <2> QED BY <1>1, <1>2, NatSetInduction
<1> QED BY <1>3, PowerType

-----------------------------------------------------------------------------
(* Division and products.                                                    *)

\* A greater multiple is at least the next one.
LEMMA NextMultiple ==
    ASSUME NEW n \in Nat \ {0}, NEW j \in Nat, NEW k \in Nat, k * n < j * n
    PROVE  (k + 1) * n <= j * n
<1>1. k < j
  <2> SUFFICES ASSUME j <= k PROVE FALSE  OBVIOUS
  <2>1. PICK d \in Nat : k = j + d
    <3>1. k - j \in Nat /\ k = j + (k - j)  OBVIOUS
    <3> QED BY <3>1
  <2>2. k * n = j * n + d * n  BY <2>1
  <2>3. d * n \in Nat /\ j * n \in Nat  BY <2>1
  <2> QED BY <2>2, <2>3
<1>2. PICK d \in Nat : j = (k + 1) + d
  <2>1. j - (k + 1) \in Nat /\ j = (k + 1) + (j - (k + 1))  BY <1>1
  <2> QED BY <2>1
<1>3. j * n = (k + 1) * n + d * n  BY <1>2
<1>4. d * n \in Nat /\ (k + 1) * n \in Nat  BY <1>2
<1> QED BY <1>3, <1>4

\* Quotient and remainder.
LEMMA Division ==
    ASSUME NEW a \in Nat, NEW n \in Nat \ {0}
    PROVE  /\ a \div n \in Nat /\ a % n \in Nat /\ a % n < n
           /\ a = n * (a \div n) + (a % n)
OBVIOUS

\* Products are numbers and grow with their factors.
LEMMA ProductType ==
    ASSUME NEW a \in Nat, NEW b \in Nat
    PROVE  /\ a * b \in Nat /\ a * b = b * a
           /\ a # 0 /\ b # 0 => a * b # 0
           /\ \A c \in Nat : a <= c => a * b <= c * b
<1>1. a * b \in Nat /\ a * b = b * a  OBVIOUS
<1>2. a # 0 /\ b # 0 => a * b # 0  OBVIOUS
<1>3. ASSUME NEW c \in Nat, a <= c PROVE a * b <= c * b
  <2>1. PICK d \in Nat : c = a + d
    <3>1. c - a \in Nat /\ c = a + (c - a)  BY <1>3
    <3> QED BY <3>1
  <2>2. c * b = a * b + d * b /\ d * b \in Nat /\ a * b \in Nat  BY <2>1
  <2> QED BY <2>2
<1> QED BY <1>1, <1>2, <1>3

\* There is one quotient.
LEMMA OneQuotient ==
    ASSUME NEW g \in Nat \ {0}, NEW q \in Nat, NEW r \in Nat, r < g
    PROVE  (q * g + r) \div g = q
<1> DEFINE a == q * g + r
           d == a \div g
<1>1. a \in Nat /\ q * g \in Nat
  <2>1. q * g \in Nat  BY ProductType
  <2> QED BY <2>1
<1>2. d \in Nat /\ a % g \in Nat /\ a % g < g /\ a = g * d + (a % g)
  <2> HIDE DEF a
  <2> QED BY <1>1, Division
<1> DEFINE e == a % g
<1>3. q * g + r = d * g + e /\ d * g \in Nat /\ e \in Nat /\ e < g /\ d \in Nat
  <2>1. d \in Nat /\ e \in Nat /\ e < g /\ a = g * d + e  BY <1>2
  <2> HIDE DEF d, e
  <2>2. g * d = d * g /\ d * g \in Nat  BY <2>1, ProductType
  <2> QED BY <2>1, <2>2
<1> HIDE DEF d, e
<1>4. (d + 1) * g = d * g + g /\ (q + 1) * g = q * g + g
    BY <1>3
<1>5. ~ (q * g < d * g)
  <2> SUFFICES ASSUME q * g < d * g PROVE FALSE  OBVIOUS
  <2>1. (q + 1) * g <= d * g  BY <1>3, NextMultiple
  <2> QED BY <1>1, <1>3, <1>4, <2>1
<1>6. ~ (d * g < q * g)
  <2> SUFFICES ASSUME d * g < q * g PROVE FALSE  OBVIOUS
  <2>1. (d + 1) * g <= q * g  BY <1>3, NextMultiple
  <2> QED BY <1>1, <1>3, <1>4, <2>1
<1>7. q * g = d * g  BY <1>1, <1>3, <1>5, <1>6
<1>8. q = d
  <2>1. CASE q < d
    <3>1. PICK x \in Nat \ {0} : d = q + x
      <4>1. d - q \in Nat \ {0} /\ d = q + (d - q)  BY <1>3, <2>1
      <4> QED BY <4>1
    <3>2. d * g = q * g + x * g /\ x * g \in Nat  BY <3>1
    <3>3. x * g # 0  BY ProductType, <3>1
    <3> QED BY <1>1, <1>7, <3>2, <3>3
  <2>2. CASE d < q
    <3>1. PICK x \in Nat \ {0} : q = d + x
      <4>1. q - d \in Nat \ {0} /\ q = d + (q - d)  BY <1>3, <2>2
      <4> QED BY <4>1
    <3>2. q * g = d * g + x * g /\ x * g \in Nat  BY <1>3, <3>1
    <3>3. x * g # 0  BY ProductType, <3>1
    <3> QED BY <1>3, <1>7, <3>2, <3>3
  <2> QED BY <1>3, <2>1, <2>2
<1> QED BY <1>8 DEF d

\* A number of one bit more.
LEMMA HalfOf ==
    ASSUME NEW a \in Nat, NEW b \in {0, 1}
    PROVE  /\ (2 * a + b) \div 2 = a
           /\ (2 * a + b) % 2 = b
OBVIOUS

\* Dividing by a power is halving, and halving.
LEMMA HalfAgain ==
    ASSUME NEW a \in Nat, NEW m \in Nat
    PROVE  a \div 2 ^ (m + 1) = (a \div 2 ^ m) \div 2
<1> DEFINE d == 2 ^ m
           q == a \div d
           r == a % d
<1>1. d \in Nat \ {0} /\ 2 ^ (m + 1) = d + d
    BY PowerGrows, PowerDoubles
<1> HIDE DEF d
<1>2. q \in Nat /\ r \in Nat /\ r < d /\ a = d * q + r
    BY <1>1, Division
<1> HIDE DEF q, r
<1> DEFINE h == q \div 2
           b == q % 2
<1>3. h \in Nat /\ b \in {0, 1} /\ q = 2 * h + b
    BY <1>2
<1> HIDE DEF h, b
<1>4. d * q = h * (d + d) + b * d
    BY <1>1, <1>2, <1>3
<1>5. b * d \in {0, d}
    BY <1>1, <1>3
<1> DEFINE s == b * d + r
           g == d + d
<1>6. s \in Nat /\ s < g /\ g \in Nat \ {0}
    BY <1>1, <1>2, <1>5
<1>7. a = h * g + s
    BY <1>1, <1>2, <1>3, <1>4, <1>5
<1> HIDE DEF s, g
<1>8. a \div g = h
    BY <1>3, <1>6, <1>7, OneQuotient
<1>9. q \div 2 = h
    BY <1>3, HalfOf
<1> QED BY <1>1, <1>8, <1>9 DEF d, q, g

\* A multiple is not above a number when its factor is not above the quotient.
LEMMA AboveQuotient ==
    ASSUME NEW a \in Nat, NEW p \in Nat, NEW d \in Nat \ {0}
    PROVE  p * d <= a <=> p <= a \div d
<1> DEFINE q == a \div d
           r == a % d
<1>1. q \in Nat /\ r \in Nat /\ r < d /\ a = d * q + r
    BY Division
<1> HIDE DEF q, r
<1>2. d * q = q * d /\ q * d \in Nat /\ p * d \in Nat
    BY <1>1, ProductType
<1>3. ASSUME p <= q PROVE p * d <= a
  <2>1. p * d <= q * d  BY <1>1, <1>3, ProductType
  <2> QED BY <1>1, <1>2, <2>1
<1>4. ASSUME q < p PROVE ~ (p * d <= a)
  <2>1. q + 1 <= p /\ q + 1 \in Nat  BY <1>1, <1>4
  <2>2. (q + 1) * d <= p * d  BY <2>1, ProductType
  <2>3. (q + 1) * d = q * d + d  BY <1>1
  <2> QED BY <1>1, <1>2, <2>2, <2>3
<1>5. p <= q \/ q < p  BY <1>1
<1> QED BY <1>3, <1>4, <1>5 DEF q

-----------------------------------------------------------------------------
(* Recursive definitions.                                                    *)

\* The recurrences of the definitions: f starts at a, is multiplied by k, and c is added.
Recurs(f, N, k, a, c) ==
    /\ f \in [0 .. N -> Int]
    /\ f[0] = a
    /\ \A n \in 1 .. N : f[n] = k * f[n - 1] + c[n]

\* A recurrence of the first order has a solution.
LEMMA Recurrence ==
    ASSUME NEW N \in Nat, NEW k \in Int, NEW a \in Int,
           NEW c, \A n \in 1 .. N : c[n] \in Int
    PROVE  \E f : Recurs(f, N, k, a, c)
<1> DEFINE Solves(f, m) == /\ f \in [0 .. m -> Int]
                           /\ f[0] = a
                           /\ \A n \in 1 .. m : f[n] = k * f[n - 1] + c[n]
           P == {m \in Nat : m <= N => \E f : Solves(f, m)}
<1>1. 0 \in P
  <2> DEFINE f == [n \in 0 .. 0 |-> a]
  <2>1. Solves(f, 0)  OBVIOUS
  <2> HIDE DEF Solves, f
  <2> QED BY <2>1
<1>2. ASSUME NEW m \in Nat, m \in P PROVE m + 1 \in P
  <2> SUFFICES ASSUME m + 1 <= N PROVE \E f : Solves(f, m + 1)
      OBVIOUS
  <2>1. PICK f : Solves(f, m)  BY <1>2
  <2> DEFINE x == k * f[m] + c[m + 1]
             h == [n \in 0 .. m + 1 |-> IF n = m + 1 THEN x ELSE f[n]]
  <2>2. x \in Int
    <3>1. f[m] \in Int /\ c[m + 1] \in Int  BY <2>1
    <3>2. k * f[m] \in Int  BY <3>1
    <3> QED BY <3>1, <3>2
  <2>3. \A n \in 0 .. m : h[n] = f[n] /\ f[n] \in Int
    <3> HIDE DEF x
    <3> QED BY <2>1
  <2>4. h[m + 1] = x
    <3> HIDE DEF x
    <3> QED OBVIOUS
  <2>5. h \in [0 .. m + 1 -> Int]
    <3>1. \A n \in 0 .. m + 1 : n = m + 1 \/ n \in 0 .. m  OBVIOUS
    <3> HIDE DEF x
    <3> QED BY <2>2, <2>3, <3>1
  <2> HIDE DEF h
  <2>6. ASSUME NEW n \in 1 .. m + 1 PROVE h[n] = k * h[n - 1] + c[n]
    <3>1. CASE n = m + 1
      <4>1. h[n - 1] = f[m]  BY <2>3, <3>1
      <4> QED BY <2>4, <3>1, <4>1
    <3>2. CASE n # m + 1
      <4>1. n \in 1 .. m /\ n \in 0 .. m /\ n - 1 \in 0 .. m  BY <3>2
      <4>2. h[n] = f[n] /\ h[n - 1] = f[n - 1]  BY <2>3, <4>1
      <4> QED BY <2>1, <4>1, <4>2
    <3> QED BY <3>1, <3>2
  <2>7. h[0] = a  BY <2>1, <2>3
  <2> QED BY <2>5, <2>6, <2>7
<1>3. N \in P
  <2> HIDE DEF P
  <2> QED BY <1>1, <1>2, NatSetInduction
<1> QED BY <1>3 DEF Recurs

\* What Total is, whatever function has the partial sums.
LEMMA TotalIs ==
    ASSUME NEW numbers \in Seq(Int), NEW p, p[0] = 0,
           \A n \in 1 .. Len(numbers) : p[n] = p[n - 1] + numbers[n]
    PROVE  Total(numbers) = p[Len(numbers)]
<1> DEFINE last == Len(numbers)
           Step(f, n) == IF n = 0 THEN 0 ELSE f[n - 1] + numbers[n]
           Solves(f) == f = [n \in 0 .. last |-> Step(f, n)]
           q == [n \in 0 .. last |-> p[n]]
           sum == CHOOSE f : Solves(f)
<1>1. last \in Nat
    OBVIOUS
<1>2. Total(numbers) = sum[last]
    BY DEF Total
<1> HIDE DEF last, sum
<1>3. Solves(q)
  <2>1. \A n \in 0 .. last : q[n] = p[n]  OBVIOUS
  <2>2. q = [n \in 0 .. last |-> q[n]]  OBVIOUS
  <2> HIDE DEF q
  <2>3. \A n \in 0 .. last : q[n] = Step(q, n)
    <3> TAKE n \in 0 .. last
    <3>1. CASE n = 0  BY <2>1, <3>1
    <3>2. CASE n # 0
      <4>1. n \in 1 .. last /\ n - 1 \in 0 .. last  BY <1>1, <3>2
      <4>2. p[n] = p[n - 1] + numbers[n]  BY <4>1 DEF last
      <4> QED BY <2>1, <3>2, <4>1, <4>2
    <3> QED BY <3>1, <3>2
  <2> HIDE DEF Step
  <2> QED BY <2>2, <2>3
<1>4. Solves(sum)
  <2> HIDE DEF Solves, q
  <2> QED BY <1>3 DEF sum
<1>5. \A n \in 0 .. last : sum[n] = Step(sum, n)
  <2> HIDE DEF Step
  <2> QED BY <1>4
<1> DEFINE P == {n \in Nat : n <= last => sum[n] = p[n]}
<1>6. 0 \in P
    BY <1>1, <1>5
<1>7. ASSUME NEW n \in Nat, n \in P PROVE n + 1 \in P
  <2> SUFFICES ASSUME n + 1 <= last PROVE sum[n + 1] = p[n + 1]
      OBVIOUS
  <2>1. n + 1 \in 1 .. last /\ n + 1 \in 0 .. last /\ (n + 1) - 1 = n /\ n + 1 # 0
        /\ sum[n] = p[n]
      BY <1>1, <1>7
  <2>2. sum[n + 1] = sum[n] + numbers[n + 1]  BY <1>5, <2>1
  <2>3. p[n + 1] = p[n] + numbers[n + 1]  BY <2>1 DEF last
  <2> QED BY <2>1, <2>2, <2>3
<1>8. last \in P
  <2> HIDE DEF P
  <2> QED BY <1>1, <1>6, <1>7, NatSetInduction
<1> QED BY <1>1, <1>2, <1>8 DEF last

-----------------------------------------------------------------------------
(* What the definitions of the format are made of.                           *)

\* The inner nodes of each level of the tree, as far as its leaves are known.
Inner(counts) ==
    CHOOSE inner \in [0 .. Len(counts) -> Int] :
        /\ inner[0] = 1
        /\ \A n \in 1 .. Len(counts) : inner[n] = 2 * inner[n - 1] - counts[n]

\* The leaves of the first levels.
CountTo(counts, n) == Total(SubSeq(counts, 1, n))

\* The number of the first m bits behind the first c.
Lead(bits, c, m) == CodeValue(SubSeq(bits, c + 1, c + m))

\* The leaves that can be the next one, and what is decoded, from any bit on.
Hits(codes, bits, i) ==
    {k \in 1 .. Len(codes) : IsPrefix(codes[k], SubSeq(bits, i, Len(bits)))}
DecodedFrom(codes, bits) ==
    LET from[i \in 1 .. Len(bits) + 1] ==
            LET hits == {k \in 1 .. Len(codes) : IsPrefix(codes[k], SubSeq(bits, i, Len(bits)))}
            IN  IF hits = {} THEN <<>>
                ELSE LET k == CHOOSE k \in hits : TRUE IN
                     IF k = Len(codes) THEN <<k>> ELSE <<k>> \o from[i + Len(codes[k])]
    IN  from

\* What CodeValue is, whatever function has the numbers of the first bits.
LEMMA ValueIs ==
    ASSUME NEW bits \in Seq(Int), NEW p, p[0] = 0,
           \A n \in 1 .. Len(bits) : p[n] = 2 * p[n - 1] + bits[n]
    PROVE  CodeValue(bits) = p[Len(bits)]
<1> DEFINE last == Len(bits)
           Step(f, n) == IF n = 0 THEN 0 ELSE 2 * f[n - 1] + bits[n]
           Solves(f) == f = [n \in 0 .. last |-> Step(f, n)]
           q == [n \in 0 .. last |-> p[n]]
           value == CHOOSE f : Solves(f)
<1>1. last \in Nat
    OBVIOUS
<1>2. CodeValue(bits) = value[last]
    BY DEF CodeValue
<1> HIDE DEF last, value
<1>3. Solves(q)
  <2>1. \A n \in 0 .. last : q[n] = p[n]  OBVIOUS
  <2>2. q = [n \in 0 .. last |-> q[n]]  OBVIOUS
  <2> HIDE DEF q
  <2>3. \A n \in 0 .. last : q[n] = Step(q, n)
    <3> TAKE n \in 0 .. last
    <3>1. CASE n = 0  BY <2>1, <3>1
    <3>2. CASE n # 0
      <4>1. n \in 1 .. last /\ n - 1 \in 0 .. last  BY <1>1, <3>2
      <4>2. p[n] = 2 * p[n - 1] + bits[n]  BY <4>1 DEF last
      <4> QED BY <2>1, <3>2, <4>1, <4>2
    <3> QED BY <3>1, <3>2
  <2> HIDE DEF Step
  <2> QED BY <2>2, <2>3
<1>4. Solves(value)
  <2> HIDE DEF Solves, q
  <2> QED BY <1>3 DEF value
<1>5. \A n \in 0 .. last : value[n] = Step(value, n)
  <2> HIDE DEF Step
  <2> QED BY <1>4
<1> DEFINE P == {n \in Nat : n <= last => value[n] = p[n]}
<1>6. 0 \in P
    BY <1>1, <1>5
<1>7. ASSUME NEW n \in Nat, n \in P PROVE n + 1 \in P
  <2> SUFFICES ASSUME n + 1 <= last PROVE value[n + 1] = p[n + 1]
      OBVIOUS
  <2>1. n + 1 \in 1 .. last /\ n + 1 \in 0 .. last /\ (n + 1) - 1 = n /\ n + 1 # 0
        /\ value[n] = p[n]
      BY <1>1, <1>7
  <2>2. value[n + 1] = 2 * value[n] + bits[n + 1]  BY <1>5, <2>1
  <2>3. p[n + 1] = 2 * p[n] + bits[n + 1]  BY <2>1 DEF last
  <2> QED BY <2>1, <2>2, <2>3
<1>8. last \in P
  <2> HIDE DEF P
  <2> QED BY <1>1, <1>6, <1>7, NatSetInduction
<1> QED BY <1>1, <1>2, <1>8 DEF last

\* The numbers of the first bits, one bit more at a time.
LEMMA LeadStep ==
    ASSUME NEW bits \in Seq({0, 1}), NEW c \in Nat, c <= Len(bits)
    PROVE  /\ Lead(bits, c, 0) = 0
           /\ \A m \in Nat : c + m <= Len(bits) => Lead(bits, c, m) \in 0 .. 2 ^ m - 1
           /\ \A m \in Nat : c + m + 1 <= Len(bits) =>
                    Lead(bits, c, m + 1) = 2 * Lead(bits, c, m) + bits[c + m + 1]
<1> DEFINE N == Len(bits) - c
           d == [i \in 1 .. N |-> bits[c + i]]
<1>1. N \in Nat /\ Len(bits) \in Nat /\ \A i \in 1 .. Len(bits) : bits[i] \in {0, 1}
    OBVIOUS
<1>2. \A i \in 1 .. N : d[i] = bits[c + i] /\ d[i] \in {0, 1} /\ d[i] \in Int
  <2>1. \A i \in 1 .. N : c + i \in 1 .. Len(bits)  BY <1>1
  <2> HIDE DEF N
  <2> QED BY <1>1, <2>1
<1>3. Len(bits) = c + N
    BY <1>1
<1> HIDE DEF N, d
<1>4. PICK p \in [0 .. N -> Int] : p[0] = 0 /\ \A n \in 1 .. N : p[n] = 2 * p[n - 1] + d[n]
  <2>1. N \in Nat /\ 0 \in Int /\ 2 \in Int /\ \A n \in 1 .. N : d[n] \in Int  BY <1>1, <1>2
  <2>2. PICK p : Recurs(p, N, 2, 0, d)  BY ONLY <2>1, Recurrence, Zenon
  <2> QED BY <2>2 DEF Recurs
<1>5. ASSUME NEW m \in 0 .. N PROVE Lead(bits, c, m) = p[m]
  <2> DEFINE s == SubSeq(bits, c + 1, c + m)
  <2>1. Len(s) = m /\ s \in Seq(Int) /\ \A n \in 1 .. m : s[n] = bits[c + n]
      BY <1>1, <1>3
  <2> HIDE DEF s
  <2>2. \A n \in 1 .. m : n \in 1 .. N  BY <1>1
  <2>3. \A n \in 1 .. Len(s) : p[n] = 2 * p[n - 1] + s[n]
      BY <1>2, <1>4, <2>1, <2>2
  <2>4. CodeValue(s) = p[m]  BY <1>4, <2>1, <2>3, ValueIs
  <2> QED BY <2>4 DEF Lead, s
<1> DEFINE P == {m \in Nat : m <= N => p[m] \in 0 .. 2 ^ m - 1}
<1>6. 0 \in P
    BY <1>4, PowerOfZero
<1>7. ASSUME NEW m \in Nat, m \in P PROVE m + 1 \in P
  <2> SUFFICES ASSUME m + 1 <= N PROVE p[m + 1] \in 0 .. 2 ^ (m + 1) - 1
      OBVIOUS
  <2>1. m + 1 \in 1 .. N /\ (m + 1) - 1 = m /\ p[m] \in 0 .. 2 ^ m - 1  BY <1>1, <1>7
  <2>2. p[m + 1] = 2 * p[m] + d[m + 1] /\ d[m + 1] \in {0, 1}  BY <1>2, <1>4, <2>1
  <2>3. 2 ^ m \in Nat /\ 2 ^ (m + 1) = 2 ^ m + 2 ^ m  BY PowerType, PowerDoubles
  <2> QED BY <2>1, <2>2, <2>3
<1>8. Nat \subseteq P
  <2> HIDE DEF P
  <2> QED BY <1>6, <1>7, NatSetInduction
<1>9. ASSUME NEW m \in Nat, c + m <= Len(bits) PROVE Lead(bits, c, m) \in 0 .. 2 ^ m - 1
  <2>1. m \in 0 .. N /\ m <= N  BY <1>1, <1>3, <1>9
  <2>2. p[m] \in 0 .. 2 ^ m - 1  BY <1>8, <2>1
  <2> QED BY <1>5, <2>1, <2>2
<1>10. ASSUME NEW m \in Nat, c + m + 1 <= Len(bits)
       PROVE  Lead(bits, c, m + 1) = 2 * Lead(bits, c, m) + bits[c + m + 1]
  <2>1. m \in 0 .. N /\ m + 1 \in 0 .. N /\ m + 1 \in 1 .. N /\ (m + 1) - 1 = m
        /\ c + (m + 1) = c + m + 1
      BY <1>1, <1>3, <1>10
  <2>2. p[m + 1] = 2 * p[m] + d[m + 1] /\ d[m + 1] = bits[c + (m + 1)]  BY <1>2, <1>4, <2>1
  <2> QED BY <1>5, <2>1, <2>2
<1>11. Lead(bits, c, 0) = 0
  <2>1. 0 \in 0 .. N  BY <1>1
  <2> QED BY <1>4, <1>5, <2>1
<1> QED BY <1>9, <1>10, <1>11

\* The leaves of the first levels, one level more at a time.
LEMMA CountStep ==
    ASSUME NEW counts \in Seq(Nat)
    PROVE  /\ CountTo(counts, 0) = 0
           /\ CountTo(counts, Len(counts)) = Total(counts)
           /\ \A n \in 0 .. Len(counts) : CountTo(counts, n) \in Nat
           /\ \A n \in 1 .. Len(counts) : CountTo(counts, n) = CountTo(counts, n - 1) + counts[n]
<1> DEFINE N == Len(counts)
<1>1. N \in Nat /\ \A i \in 1 .. N : counts[i] \in Nat /\ counts[i] \in Int
    OBVIOUS
<1>2. PICK p \in [0 .. N -> Int] : p[0] = 0 /\ \A n \in 1 .. N : p[n] = 1 * p[n - 1] + counts[n]
  <2>1. N \in Nat /\ 0 \in Int /\ 1 \in Int /\ \A n \in 1 .. N : counts[n] \in Int  BY <1>1
  <2> HIDE DEF N
  <2>2. PICK p : Recurs(p, N, 1, 0, counts)  BY ONLY <2>1, Recurrence, Zenon
  <2> QED BY <2>2 DEF Recurs
<1>3. \A n \in 1 .. N : p[n] = p[n - 1] + counts[n]
  <2>1. \A n \in 1 .. N : n - 1 \in 0 .. N  BY <1>1
  <2> HIDE DEF N
  <2>2. \A n \in 1 .. N : p[n - 1] \in Int  BY <1>2, <2>1
  <2>3. \A x \in Int : 1 * x = x  OBVIOUS
  <2> QED BY <1>2, <2>2, <2>3
<1>4. ASSUME NEW n \in 0 .. N PROVE CountTo(counts, n) = p[n]
  <2> DEFINE s == SubSeq(counts, 1, n)
  <2>1. Len(s) = n /\ s \in Seq(Int) /\ \A i \in 1 .. n : s[i] = counts[i]
      BY <1>1
  <2> HIDE DEF s
  <2>2. \A i \in 1 .. n : i \in 1 .. N  BY <1>1
  <2> HIDE DEF N
  <2>3. \A i \in 1 .. Len(s) : p[i] = p[i - 1] + s[i]
      BY <1>3, <2>1, <2>2
  <2>4. Total(s) = p[n]  BY <1>2, <2>1, <2>3, TotalIs
  <2> QED BY <2>4 DEF CountTo, s
<1> DEFINE P == {m \in Nat : m <= N => p[m] \in Nat}
<1>5. 0 \in P
    BY <1>2
<1>6. ASSUME NEW m \in Nat, m \in P PROVE m + 1 \in P
  <2> HIDE DEF N
  <2> SUFFICES ASSUME m + 1 <= N PROVE p[m + 1] \in Nat
      OBVIOUS
  <2>1. m + 1 \in 1 .. N /\ (m + 1) - 1 = m /\ p[m] \in Nat  BY <1>1, <1>6
  <2>2. p[m + 1] = p[m] + counts[m + 1] /\ counts[m + 1] \in Nat
    <3>1. p[m + 1] = p[(m + 1) - 1] + counts[m + 1]  BY <1>3, <2>1
    <3> QED BY <1>1, <2>1, <3>1
  <2> QED BY <2>1, <2>2
<1>7. Nat \subseteq P
  <2> HIDE DEF P
  <2> QED BY <1>5, <1>6, NatSetInduction
<1>8. \A n \in 0 .. N : p[n] \in Nat
    BY <1>1, <1>7
<1>9. \A n \in 1 .. N : n \in 0 .. N /\ n - 1 \in 0 .. N
    BY <1>1
<1>10. SubSeq(counts, 1, N) = counts
    OBVIOUS
<1>11. 0 \in 0 .. N
    BY <1>1
<1> HIDE DEF N
<1>12. Total(counts) = CountTo(counts, N)
    BY <1>10 DEF CountTo
<1> QED BY <1>2, <1>3, <1>4, <1>8, <1>9, <1>11, <1>12 DEF N

\* The inner nodes of a level are twice those above it, without its leaves.
LEMMA InnerStep ==
    ASSUME NEW counts \in Seq(Nat)
    PROVE  /\ Inner(counts) \in [0 .. Len(counts) -> Int]
           /\ Inner(counts)[0] = 1
           /\ \A n \in 1 .. Len(counts) :
                Inner(counts)[n] = 2 * Inner(counts)[n - 1] - counts[n]
<1> DEFINE N == Len(counts)
           c == [n \in 1 .. N |-> 0 - counts[n]]
<1>1. N \in Nat /\ \A i \in 1 .. N : counts[i] \in Nat
    OBVIOUS
<1> HIDE DEF N
<1>2. \A n \in 1 .. N : c[n] = 0 - counts[n] /\ c[n] \in Int
    BY <1>1
<1> HIDE DEF c
<1>3. PICK p \in [0 .. N -> Int] : p[0] = 1 /\ \A n \in 1 .. N : p[n] = 2 * p[n - 1] + c[n]
  <2>1. N \in Nat /\ 1 \in Int /\ 2 \in Int /\ \A n \in 1 .. N : c[n] \in Int  BY <1>1, <1>2
  <2>2. PICK p : Recurs(p, N, 2, 1, c)  BY ONLY <2>1, Recurrence, Zenon
  <2> QED BY <2>2 DEF Recurs
<1>4. \A n \in 1 .. N : p[n] = 2 * p[n - 1] - counts[n]
  <2>1. \A n \in 1 .. N : n - 1 \in 0 .. N  BY <1>1
  <2> QED BY <1>1, <1>2, <1>3, <2>1
<1> QED BY <1>3, <1>4 DEF Inner, N

\* The inner nodes of the first levels depend on the leaves of those only.
LEMMA InnerOfFirst ==
    ASSUME NEW s \in Seq(Nat), NEW t \in Seq(Nat), Len(s) <= Len(t),
           \A i \in 1 .. Len(s) : s[i] = t[i]
    PROVE  \A n \in 0 .. Len(s) : Inner(s)[n] = Inner(t)[n]
<1> DEFINE f == Inner(s)
           g == Inner(t)
           P == {n \in Nat : n <= Len(s) => f[n] = g[n]}
<1>1. Len(s) \in Nat /\ Len(t) \in Nat
    OBVIOUS
<1>2. /\ f[0] = 1 /\ \A n \in 1 .. Len(s) : f[n] = 2 * f[n - 1] - s[n]
      /\ g[0] = 1 /\ \A n \in 1 .. Len(t) : g[n] = 2 * g[n - 1] - t[n]
    BY InnerStep
<1> HIDE DEF f, g
<1>3. 0 \in P
    BY <1>2
<1>4. ASSUME NEW n \in Nat, n \in P PROVE n + 1 \in P
  <2> SUFFICES ASSUME n + 1 <= Len(s) PROVE f[n + 1] = g[n + 1]
      OBVIOUS
  <2>1. n + 1 \in 1 .. Len(s) /\ n + 1 \in 1 .. Len(t) /\ (n + 1) - 1 = n /\ f[n] = g[n]
      BY <1>1, <1>4
  <2>2. f[n + 1] = 2 * f[n] - s[n + 1] /\ g[n + 1] = 2 * g[n] - t[n + 1] /\ s[n + 1] = t[n + 1]
      BY <1>2, <2>1
  <2> QED BY <2>1, <2>2
<1>5. Nat \subseteq P
  <2> HIDE DEF P
  <2> QED BY <1>3, <1>4, NatSetInduction
<1> QED BY <1>1, <1>5 DEF f, g

\* Leaves take what the inner nodes above them have, but not those below them.
LEMMA WeightIs ==
    ASSUME NEW counts \in Seq(Nat), NEW n \in 0 .. Len(counts)
    PROVE  Weight(counts, n + 1 .. Len(counts))
               = Inner(counts)[n] * 2 ^ (Len(counts) - n) - Inner(counts)[Len(counts)]
<1> DEFINE L == Len(counts)
           r == Inner(counts)
           part(m) == r[m] * 2 ^ (L - m)
           lens == n + 1 .. L
           numbers == [len \in 1 .. L |-> IF len \in lens THEN counts[len] * 2 ^ (L - len) ELSE 0]
           q == [m \in 0 .. L |-> IF m <= n THEN 0 ELSE part(n) - part(m)]
<1>1. L \in Nat /\ n \in Nat /\ n <= L /\ \A i \in 1 .. L : counts[i] \in Nat
    OBVIOUS
<1>2. /\ r[0] = 1 /\ \A m \in 0 .. L : r[m] \in Int
      /\ \A m \in 1 .. L : r[m] = 2 * r[m - 1] - counts[m]
    BY InnerStep
<1>3. Weight(counts, lens) = Total(numbers)
    BY DEF Weight
<1> HIDE DEF L, r
<1>4. \A m \in 0 .. L : part(m) \in Int
  <2> TAKE m \in 0 .. L
  <2>1. L - m \in Nat  BY <1>1
  <2>2. 2 ^ (L - m) \in Int /\ r[m] \in Int  BY <2>1, <1>2, PowerType
  <2> QED BY <2>2
<1>5. \A m \in 1 .. L : part(m - 1) - part(m) = counts[m] * 2 ^ (L - m)
  <2> TAKE m \in 1 .. L
  <2> DEFINE d == 2 ^ (L - m)
  <2>1. L - m \in Nat /\ L - (m - 1) = (L - m) + 1 /\ m - 1 \in 0 .. L /\ m \in 0 .. L  BY <1>1
  <2>2. 2 ^ (L - (m - 1)) = d + d /\ d \in Nat  BY <2>1, PowerType, PowerDoubles
  <2>3. r[m] = 2 * r[m - 1] - counts[m] /\ r[m - 1] \in Int /\ counts[m] \in Nat
      BY <1>1, <1>2, <2>1
  <2> HIDE DEF d
  <2> DEFINE a == r[m - 1]
             b == counts[m]
  <2>4. part(m - 1) = a * (d + d) /\ part(m) = (2 * a - b) * d
      BY <2>2, <2>3 DEF d
  <2>5. a \in Int /\ b \in Int /\ d \in Int  BY <2>2, <2>3
  <2> HIDE DEF a, b
  <2>6. a * (d + d) - (2 * a - b) * d = b * d  BY <2>5
  <2> QED BY <2>4, <2>6 DEF a, b, d
<1>6. numbers \in Seq(Int) /\ Len(numbers) = L
  <2>1. \A m \in 1 .. L : counts[m] * 2 ^ (L - m) \in Int
    <3> TAKE m \in 1 .. L
    <3>1. m - 1 \in 0 .. L /\ m \in 0 .. L  BY <1>1
    <3> HIDE DEF part
    <3> QED BY <1>4, <1>5, <3>1
  <2> HIDE DEF lens
  <2> QED BY <1>1, <2>1
<1>7. q[0] = 0
    BY <1>1
<1>8. ASSUME NEW m \in 1 .. L PROVE q[m] = q[m - 1] + numbers[m]
  <2>1. m \in 0 .. L /\ m - 1 \in 0 .. L /\ m \in Nat  BY <1>1
  <2>2. numbers[m] = IF n < m THEN part(m - 1) - part(m) ELSE 0
    <3>1. numbers[m] = IF n < m THEN counts[m] * 2 ^ (L - m) ELSE 0  BY <1>1, <2>1
    <3> QED BY <1>5, <3>1
  <2> HIDE DEF numbers, part
  <2>3. /\ q[m] = IF m <= n THEN 0 ELSE part(n) - part(m)
        /\ q[m - 1] = IF m - 1 <= n THEN 0 ELSE part(n) - part(m - 1)
      BY <2>1
  <2> HIDE DEF q
  <2>4. part(m) \in Int /\ part(m - 1) \in Int /\ part(n) \in Int  BY <1>1, <1>4, <2>1
  <2>5. CASE m <= n  BY <1>1, <2>1, <2>2, <2>3, <2>5
  <2>6. CASE m = n + 1
    <3>1. part(m - 1) = part(n)
      <4>1. m - 1 = n  BY <1>1, <2>6
      <4> QED BY <4>1
    <3>2. q[m] = part(n) - part(m) /\ q[m - 1] = 0 /\ numbers[m] = part(m - 1) - part(m)
        BY <1>1, <2>1, <2>2, <2>3, <2>6
    <3> QED BY <2>4, <3>1, <3>2
  <2>7. CASE m > n + 1
    <3>1. q[m] = part(n) - part(m) /\ q[m - 1] = part(n) - part(m - 1)
          /\ numbers[m] = part(m - 1) - part(m)
        BY <1>1, <2>1, <2>2, <2>3, <2>7
    <3> QED BY <2>4, <3>1
  <2> QED BY <1>1, <2>1, <2>5, <2>6, <2>7
<1>9. Total(numbers) = q[L]
  <2> HIDE DEF numbers, q
  <2> QED BY <1>6, <1>7, <1>8, TotalIs
<1>10. q[L] = part(n) - part(L)
  <2>1. L \in 0 .. L  BY <1>1
  <2>2. n \in 0 .. L  BY <1>1
  <2> HIDE DEF part
  <2>3. part(n) - part(n) = 0  BY <1>4, <2>2
  <2>4. CASE L <= n
    <3>1. L = n  BY <1>1, <2>4
    <3> QED BY <2>1, <2>3, <3>1
  <2>5. CASE ~ (L <= n)  BY <2>1, <2>5
  <2> QED BY <2>4, <2>5
<1>11. part(L) = r[L]
  <2>1. L - L = 0 /\ L \in 0 .. L  BY <1>1
  <2>2. r[L] \in Int  BY <1>2, <2>1
  <2>3. 2 ^ (L - L) = 1  BY <2>1, PowerOfZero
  <2>4. \A x \in Int : x * 1 = x  OBVIOUS
  <2>5. r[L] * 2 ^ (L - L) = r[L]  BY <2>2, <2>3, <2>4
  <2> QED BY <2>5
<1> QED BY <1>3, <1>9, <1>10, <1>11 DEF L, r

\* Two leaves at the last level, or more, and no nodes below it.
Complete(counts) ==
    /\ counts \in Seq(Nat)
    /\ Len(counts) \in Nat \ {0}
    /\ counts[Len(counts)] >= 2
    /\ Inner(counts)[Len(counts)] = 0

\* The tree is complete when its leaves take all codes.
LEMMA WholeWeight ==
    ASSUME NEW counts \in Seq(Nat)
    PROVE  Weight(counts, 1 .. Len(counts)) = 2 ^ Len(counts)
               <=> Inner(counts)[Len(counts)] = 0
<1> DEFINE L == Len(counts)
           r == Inner(counts)
           w == Weight(counts, 1 .. L)
<1>1. L \in Nat /\ 0 \in 0 .. L /\ 0 + 1 = 1 /\ L - 0 = L /\ L \in 0 .. L
    OBVIOUS
<1>2. Weight(counts, 0 + 1 .. L) = r[0] * 2 ^ (L - 0) - r[L]
    BY <1>1, WeightIs
<1>3. r[0] = 1 /\ r[L] \in Int
    BY <1>1, InnerStep
<1> DEFINE d == 2 ^ L
<1>4. d \in Nat
    BY <1>1, PowerType
<1>5. w = 1 * d - r[L]
  <2> HIDE DEF r, L
  <2> QED BY <1>1, <1>2, <1>3
<1> HIDE DEF w, d, r, L
<1>6. w = d <=> r[L] = 0
    BY <1>3, <1>4, <1>5
<1> QED BY <1>6 DEF w, d, r, L

\* A complete tree has inner nodes at each level but the last, and not more than fit.
LEMMA InnerBounds ==
    ASSUME NEW counts, Complete(counts)
    PROVE  /\ \A n \in 0 .. Len(counts) - 1 : Inner(counts)[n] \in Nat \ {0}
           /\ \A n \in 0 .. Len(counts) : Inner(counts)[n] \in 0 .. 2 ^ n
<1> DEFINE L == Len(counts)
           r == Inner(counts)
<1>1. L \in Nat \ {0} /\ \A i \in 1 .. L : counts[i] \in Nat
    BY DEF Complete
<1>2. /\ r[0] = 1 /\ \A m \in 0 .. L : r[m] \in Int
      /\ \A m \in 1 .. L : r[m] = 2 * r[m - 1] - counts[m]
    BY InnerStep DEF Complete
<1>3. r[L] = 0 /\ counts[L] >= 2
    BY DEF Complete
<1> HIDE DEF L, r
<1> DEFINE P == {d \in Nat : d + 1 <= L => r[L - (d + 1)] >= 1}
<1>4. 0 \in P
  <2>1. L \in 1 .. L /\ L - 1 \in 0 .. L /\ 0 + 1 = 1  BY <1>1
  <2>2. r[L] = 2 * r[L - 1] - counts[L] /\ r[L - 1] \in Int /\ counts[L] \in Nat
      BY <1>1, <1>2, <2>1
  <2>3. r[L - 1] >= 1  BY <1>3, <2>2
  <2> QED BY <2>1, <2>3
<1>5. ASSUME NEW d \in Nat, d \in P PROVE d + 1 \in P
  <2> DEFINE m == L - (d + 1)
  <2> SUFFICES ASSUME (d + 1) + 1 <= L PROVE r[L - ((d + 1) + 1)] >= 1
      OBVIOUS
  <2>1. m \in 1 .. L /\ m - 1 \in 0 .. L /\ L - ((d + 1) + 1) = m - 1 /\ m \in 0 .. L
        /\ d + 1 <= L
      BY <1>1
  <2>2. r[m] >= 1  BY <1>5, <2>1
  <2> HIDE DEF m
  <2>3. r[m] = 2 * r[m - 1] - counts[m] /\ r[m - 1] \in Int /\ counts[m] \in Nat /\ r[m] \in Int
      BY <1>1, <1>2, <2>1
  <2>4. r[m - 1] >= 1  BY <2>2, <2>3
  <2> QED BY <2>1, <2>4
<1>6. Nat \subseteq P
  <2> HIDE DEF P
  <2> QED BY <1>4, <1>5, NatSetInduction
<1>7. ASSUME NEW n \in 0 .. L - 1 PROVE r[n] \in Nat \ {0}
  <2> DEFINE d == L - 1 - n
  <2>1. d \in Nat /\ d + 1 <= L /\ L - (d + 1) = n /\ n \in 0 .. L  BY <1>1
  <2>2. r[L - (d + 1)] >= 1  BY <1>6, <2>1
  <2>3. r[n] >= 1 /\ r[n] \in Int  BY <1>2, <2>1, <2>2
  <2> QED BY <2>3
<1> DEFINE Q == {n \in Nat : n <= L => r[n] <= 2 ^ n}
<1>8. 0 \in Q
    BY <1>2, PowerOfZero
<1>9. ASSUME NEW n \in Nat, n \in Q PROVE n + 1 \in Q
  <2> SUFFICES ASSUME n + 1 <= L PROVE r[n + 1] <= 2 ^ (n + 1)
      OBVIOUS
  <2>1. n + 1 \in 1 .. L /\ (n + 1) - 1 = n /\ n \in 0 .. L /\ r[n] <= 2 ^ n  BY <1>1, <1>9
  <2>2. 2 ^ (n + 1) = 2 ^ n + 2 ^ n /\ 2 ^ n \in Nat  BY PowerType, PowerDoubles
  <2>3. r[n + 1] = 2 * r[n] - counts[n + 1] /\ r[n] \in Int /\ counts[n + 1] \in Nat
      BY <1>1, <1>2, <2>1
  <2> QED BY <2>1, <2>2, <2>3
<1>10. Nat \subseteq Q
  <2> HIDE DEF Q
  <2> QED BY <1>8, <1>9, NatSetInduction
<1>11. ASSUME NEW n \in 0 .. L PROVE r[n] \in 0 .. 2 ^ n
  <2>1. n \in Nat /\ n <= L /\ 2 ^ n \in Nat  BY <1>1, PowerType
  <2>2. r[n] <= 2 ^ n /\ r[n] \in Int  BY <1>2, <1>10, <2>1
  <2>3. r[n] >= 0
    <3>1. CASE n = L  BY <1>3, <3>1
    <3>2. CASE n # L
      <4>1. n \in 0 .. L - 1  BY <1>1, <3>2
      <4> QED BY <1>7, <4>1
    <3> QED BY <3>1, <3>2
  <2> QED BY <2>1, <2>2, <2>3
<1> QED BY <1>7, <1>11 DEF L, r

\* The elements of two sequences, one behind the other.
LEMMA JoinElements ==
    ASSUME NEW S
    PROVE  \A s, t \in Seq(S) :
           /\ s \o t \in Seq(S) /\ Len(s \o t) = Len(s) + Len(t)
           /\ \A i \in 1 .. Len(s) : (s \o t)[i] = s[i]
<1> TAKE s \in Seq(S), t \in Seq(S)
<1>1. s \o t \in Seq(S) /\ Len(s \o t) = Len(s) + Len(t) /\ Len(s) \in Nat /\ Len(t) \in Nat
    OBVIOUS
<1>2. \A i \in 1 .. Len(s) + Len(t) :
        (s \o t)[i] = IF i <= Len(s) THEN s[i] ELSE t[i - Len(s)]
    OBVIOUS
<1> DEFINE u == s \o t
           a == Len(s)
           b == Len(t)
<1> HIDE DEF u, a, b
<1>3. a \in Nat /\ b \in Nat /\ \A i \in 1 .. a + b : u[i] = IF i <= a THEN s[i] ELSE t[i - a]
    BY <1>1, <1>2 DEF u, a, b
<1>4. \A i \in 1 .. a : u[i] = s[i]
  <2>1. \A i \in 1 .. a : i \in 1 .. a + b /\ i <= a  BY <1>3
  <2> QED BY <1>3, <2>1
<1> QED BY <1>1, <1>4 DEF u, a

\* The second one is behind the first.
LEMMA JoinRest ==
    ASSUME NEW S
    PROVE  \A s, t \in Seq(S) : \A i \in 1 .. Len(t) : (s \o t)[Len(s) + i] = t[i]
<1> TAKE s \in Seq(S), t \in Seq(S)
<1>1. s \o t \in Seq(S) /\ Len(s \o t) = Len(s) + Len(t) /\ Len(s) \in Nat /\ Len(t) \in Nat
    OBVIOUS
<1>2. \A i \in 1 .. Len(s) + Len(t) :
        (s \o t)[i] = IF i <= Len(s) THEN s[i] ELSE t[i - Len(s)]
    OBVIOUS
<1> DEFINE u == s \o t
           a == Len(s)
           b == Len(t)
<1> HIDE DEF u, a, b
<1>3. a \in Nat /\ b \in Nat /\ \A i \in 1 .. a + b : u[i] = IF i <= a THEN s[i] ELSE t[i - a]
    BY <1>1, <1>2 DEF u, a, b
<1>4. \A i \in 1 .. b : a + i \in 1 .. a + b /\ ~ (a + i <= a) /\ (a + i) - a = i  BY <1>3
<1>5. \A i \in 1 .. b : u[a + i] = t[i]  BY <1>3, <1>4
<1> QED BY <1>5 DEF u, a, b

\* The sequences are where the sums of the lengths say.
Placed(seqs, p, joined) ==
    \A n \in 1 .. Len(seqs) : \A j \in 1 .. Len(seqs[n]) : joined[p[n - 1] + j] = seqs[n][j]

\* The elements of sequences, one behind the other.
LEMMA FlattenIs ==
    ASSUME NEW S, NEW seqs \in Seq(Seq(S)), NEW p, p[0] = 0,
           \A n \in 1 .. Len(seqs) : p[n] = p[n - 1] + Len(seqs[n])
    PROVE  /\ FlattenSeq(seqs) \in Seq(S)
           /\ Len(FlattenSeq(seqs)) = p[Len(seqs)]
           /\ Placed(seqs, p, FlattenSeq(seqs))
<1> DEFINE last == Len(seqs)
           Step(g, k) == IF k = 1 THEN seqs[k] ELSE g[k - 1] \o seqs[k]
           Solves(g, n) == g = [k \in 1 .. n |-> Step(g, k)]
           P == {n \in Nat : \E g : Solves(g, n)}
           flatten == CHOOSE g : Solves(g, last)
<1>1. last \in Nat /\ \A k \in 1 .. last : seqs[k] \in Seq(S)
    OBVIOUS
<1>2. FlattenSeq(seqs) = IF last = 0 THEN seqs ELSE flatten[last]
    BY DEF FlattenSeq
<1>3. last = 0 => seqs = <<>>
    OBVIOUS
<1> HIDE DEF last, flatten
<1>4. 0 \in P
  <2> DEFINE g == [k \in 1 .. 0 |-> <<>>]
  <2>1. 1 .. 0 = {}  OBVIOUS
  <2>2. Solves(g, 0)
    <3> HIDE DEF Step
    <3> QED BY <2>1
  <2> HIDE DEF Solves, g
  <2> QED BY <2>2
<1>5. ASSUME NEW n \in Nat, n \in P PROVE n + 1 \in P
  <2>1. PICK g : Solves(g, n)  BY <1>5
  <2> DEFINE h == [k \in 1 .. n + 1 |-> IF k = n + 1 THEN Step(g, n + 1) ELSE g[k]]
  <2>2. \A k \in 1 .. n : h[k] = g[k]
    <3> HIDE DEF Step
    <3> QED OBVIOUS
  <2>3. \A k \in 1 .. n : g[k] = Step(g, k)
    <3> HIDE DEF Step
    <3> QED BY <2>1
  <2>4. \A k \in 1 .. n + 1 : Step(h, k) = Step(g, k)
    <3> TAKE k \in 1 .. n + 1
    <3>1. CASE k = 1  BY <3>1
    <3>2. CASE k # 1
      <4>1. k - 1 \in 1 .. n  BY <3>2
      <4> HIDE DEF h
      <4>2. h[k - 1] = g[k - 1]  BY <2>2, <4>1
      <4> QED BY <3>2, <4>2
    <3> QED BY <3>1, <3>2
  <2>5. \A k \in 1 .. n + 1 : h[k] = Step(h, k)
    <3> TAKE k \in 1 .. n + 1
    <3>1. CASE k = n + 1
      <4>1. h[k] = Step(g, k)
        <5> HIDE DEF Step
        <5> QED BY <3>1
      <4> HIDE DEF Step, h
      <4> QED BY <4>1, <2>4
    <3>2. CASE k # n + 1
      <4>1. k \in 1 .. n  BY <3>2
      <4> HIDE DEF Step, h
      <4> QED BY <4>1, <2>2, <2>3, <2>4
    <3> QED BY <3>1, <3>2
  <2>6. Solves(h, n + 1)
    <3>1. h = [k \in 1 .. n + 1 |-> h[k]]
      <4> HIDE DEF Step
      <4> QED OBVIOUS
    <3> HIDE DEF Step, h
    <3>2. h = [k \in 1 .. n + 1 |-> Step(h, k)]  BY <3>1, <2>5
    <3> QED BY <3>2
  <2>7. n + 1 \in Nat  OBVIOUS
  <2> HIDE DEF Solves, h
  <2> QED BY <2>6, <2>7
<1>6. Solves(flatten, last)
  <2>1. last \in P
    <3> HIDE DEF P
    <3> QED BY <1>1, <1>4, <1>5, NatSetInduction
  <2>2. PICK g : Solves(g, last)
    <3> HIDE DEF Solves, flatten
    <3> QED BY <2>1
  <2> HIDE DEF Solves, last
  <2> QED BY <2>2 DEF flatten
<1>7. \A k \in 1 .. last : flatten[k] = Step(flatten, k)
  <2> HIDE DEF Step, last
  <2> QED BY <1>6
<1> DEFINE Right(n) ==
             /\ flatten[n] \in Seq(S) /\ Len(flatten[n]) = p[n]
             /\ \A m \in 1 .. n : \A j \in 1 .. Len(seqs[m]) :
                  p[m - 1] + j \in 1 .. p[n] /\ flatten[n][p[m - 1] + j] = seqs[m][j]
           Q == {n \in Nat : n + 1 <= last => Right(n + 1)}
<1>8. 0 \in Q
  <2> SUFFICES ASSUME 1 <= last PROVE Right(1)
    <3>1. 0 + 1 = 1  OBVIOUS
    <3> HIDE DEF Right
    <3> QED BY <3>1
  <2>1. 1 \in 1 .. last /\ 1 - 1 = 0  BY <1>1
  <2>2. flatten[1] = seqs[1] /\ seqs[1] \in Seq(S)  BY <1>1, <1>7, <2>1
  <2>3. p[1] = p[0] + Len(seqs[1])  BY <2>1 DEF last
  <2> DEFINE s == seqs[1]
             a == p[1]
  <2>4. s \in Seq(S) /\ Len(s) \in Nat  BY <2>2
  <2>5. a = Len(s)  BY <2>3, <2>4
  <2> HIDE DEF s, a
  <2>6. \A j \in 1 .. Len(s) : 0 + j \in 1 .. a /\ s[0 + j] = s[j]  BY <2>4, <2>5
  <2>7. \A m \in 1 .. 1 : m = 1  OBVIOUS
  <2>8. \A m \in 1 .. 1 : \A j \in 1 .. Len(seqs[m]) :
            p[m - 1] + j \in 1 .. p[1] /\ flatten[1][p[m - 1] + j] = seqs[m][j]
    <3> TAKE m \in 1 .. 1
    <3>1. m = 1 /\ p[m - 1] = 0 /\ seqs[m] = s  BY <2>1, <2>7 DEF s
    <3>2. flatten[1] = s  BY <2>2 DEF s
    <3> QED BY <2>6, <3>1, <3>2 DEF a
  <2> QED BY <2>2, <2>4, <2>5, <2>8 DEF s, a
<1>9. ASSUME NEW n \in Nat, n \in Q PROVE n + 1 \in Q
  <2> SUFFICES ASSUME (n + 1) + 1 <= last PROVE Right((n + 1) + 1)
    <3> HIDE DEF Right
    <3> QED OBVIOUS
  <2> DEFINE k == (n + 1) + 1
             s == flatten[n + 1]
             t == seqs[k]
  <2>1. k \in 1 .. last /\ k # 1 /\ k - 1 = n + 1 /\ n + 1 <= last /\ n + 1 \in Nat \ {0}
      BY <1>1
  <2>2. Right(n + 1)
    <3> HIDE DEF Right
    <3> QED BY <1>9, <2>1
  <2>3. s \in Seq(S) /\ Len(s) = p[n + 1] /\ t \in Seq(S)  BY <1>1, <2>1, <2>2
  <2>4. flatten[k] = s \o t  BY <1>7, <2>1
  <2>5. p[k] = p[n + 1] + Len(t)  BY <2>1 DEF last
  <2>6. \A m \in 1 .. n + 1 : \A j \in 1 .. Len(seqs[m]) :
            p[m - 1] + j \in 1 .. p[n + 1] /\ s[p[m - 1] + j] = seqs[m][j]
      BY <2>2
  <2>7. \A m \in 1 .. k : m \in 1 .. n + 1 \/ m = k  BY <2>1
  <2> HIDE DEF k, s, t, Right
  <2>8. /\ s \o t \in Seq(S) /\ Len(s \o t) = Len(s) + Len(t)
        /\ \A i \in 1 .. Len(s) : (s \o t)[i] = s[i]
        /\ \A i \in 1 .. Len(t) : (s \o t)[Len(s) + i] = t[i]
    <3>1. s \in Seq(S) /\ t \in Seq(S)  BY <2>3
    <3>2. s \o t \in Seq(S) /\ Len(s \o t) = Len(s) + Len(t)  BY ONLY <3>1, JoinElements, Zenon
    <3>3. \A i \in 1 .. Len(s) : (s \o t)[i] = s[i]  BY ONLY <3>1, JoinElements, Zenon
    <3>4. \A i \in 1 .. Len(t) : (s \o t)[Len(s) + i] = t[i]  BY ONLY <3>1, JoinRest, Zenon
    <3> QED BY <3>2, <3>3, <3>4, Zenon
  <2> DEFINE u == s \o t
             a == Len(s)
             b == Len(t)
  <2>9. a \in Nat /\ b \in Nat  BY <2>3
  <2> HIDE DEF u, a, b
  <2>10. u \in Seq(S) /\ Len(u) = p[k] /\ p[k] = a + b /\ p[n + 1] = a
      BY <2>3, <2>5, <2>8 DEF u, a, b
  <2>11. ASSUME NEW m \in 1 .. k, NEW j \in 1 .. Len(seqs[m])
         PROVE  p[m - 1] + j \in 1 .. p[k] /\ u[p[m - 1] + j] = seqs[m][j]
    <3>1. CASE m \in 1 .. n + 1
      <4>1. p[m - 1] + j \in 1 .. a /\ s[p[m - 1] + j] = seqs[m][j]  BY <2>6, <2>10, <3>1
      <4>2. u[p[m - 1] + j] = s[p[m - 1] + j]  BY <2>8, <4>1 DEF u, a
      <4>3. \A x \in 1 .. a : x \in 1 .. a + b  BY <2>9
      <4> QED BY <2>10, <4>1, <4>2, <4>3
    <3>2. CASE m = k
      <4>1. j \in 1 .. b /\ seqs[m] = t /\ p[m - 1] = a  BY <2>1, <2>10, <3>2 DEF t, b
      <4>2. u[a + j] = t[j]  BY <2>8, <4>1 DEF u, a, b
      <4>3. \A x \in 1 .. b : a + x \in 1 .. a + b  BY <2>9
      <4>4. a + j \in 1 .. a + b  BY <4>1, <4>3
      <4> QED BY <2>10, <4>1, <4>2, <4>4
    <3> QED BY <2>7, <3>1, <3>2
  <2>12. flatten[k] = u  BY <2>4 DEF u
  <2>13. Right(k)  BY <2>10, <2>11, <2>12 DEF Right
  <2> QED BY <2>13 DEF k
<1>10. Nat \subseteq Q
  <2> HIDE DEF Q
  <2> QED BY <1>8, <1>9, NatSetInduction
<1>11. CASE last = 0
  <2>1. FlattenSeq(seqs) = <<>>  BY <1>2, <1>3, <1>11
  <2>2. \A n \in 1 .. last : FALSE  BY <1>11
  <2>3. <<>> \in Seq(S) /\ Len(<<>>) = 0  OBVIOUS
  <2> QED BY <1>11, <2>1, <2>2, <2>3 DEF last, Placed
<1>12. CASE last # 0
  <2> DEFINE n == last - 1
  <2>1. n \in Nat /\ n + 1 = last  BY <1>1, <1>12
  <2> HIDE DEF n, Right
  <2>2. Right(last)  BY <1>10, <2>1
  <2>3. FlattenSeq(seqs) = flatten[last]  BY <1>2, <1>12
  <2> QED BY <2>2, <2>3 DEF Right, last, Placed
<1> QED BY <1>11, <1>12

\* The number of the first bits is what division by a power leaves of that of more.
LEMMA LeadQuotient ==
    ASSUME NEW bits \in Seq({0, 1}), NEW c \in Nat, NEW n \in Nat, c + n <= Len(bits)
    PROVE  /\ \A m \in 0 .. n : Lead(bits, c, m) = Lead(bits, c, n) \div 2 ^ (n - m)
           /\ \A m \in 1 .. n : /\ Lead(bits, c, m - 1) = Lead(bits, c, m) \div 2
                                /\ bits[c + m] = Lead(bits, c, m) % 2
<1> DEFINE v(m) == Lead(bits, c, m)
<1>1. /\ \A m \in Nat : c + m <= Len(bits) => v(m) \in 0 .. 2 ^ m - 1
      /\ \A m \in Nat : c + m + 1 <= Len(bits) => v(m + 1) = 2 * v(m) + bits[c + m + 1]
  <2>1. c <= Len(bits) /\ Len(bits) \in Nat  OBVIOUS
  <2> QED BY <2>1, LeadStep
<1>2. Len(bits) \in Nat /\ \A i \in 1 .. Len(bits) : bits[i] \in {0, 1}
    OBVIOUS
<1> HIDE DEF v
<1>3. \A m \in 0 .. n : v(m) \in Nat
  <2> TAKE m \in 0 .. n
  <2>1. m \in Nat /\ c + m <= Len(bits) /\ 2 ^ m \in Nat  BY <1>2, PowerType
  <2>2. v(m) \in 0 .. 2 ^ m - 1  BY <1>1, <2>1
  <2> QED BY <2>1, <2>2
<1>4. ASSUME NEW m \in 1 .. n PROVE v(m - 1) = v(m) \div 2 /\ bits[c + m] = v(m) % 2
  <2> DEFINE k == m - 1
  <2>1. k \in Nat /\ k + 1 = m /\ c + k + 1 <= Len(bits) /\ c + k + 1 = c + m /\ k \in 0 .. n
        /\ c + m \in 1 .. Len(bits)
      BY <1>2
  <2> HIDE DEF k
  <2>2. v(m) = 2 * v(k) + bits[c + m]  BY <1>1, <2>1
  <2>3. v(k) \in Nat /\ bits[c + m] \in {0, 1}  BY <1>2, <1>3, <2>1
  <2>4. v(k) = v(m) \div 2 /\ bits[c + m] = v(m) % 2  BY <2>2, <2>3, HalfOf
  <2> QED BY <2>4 DEF k
<1> DEFINE P == {d \in Nat : d <= n => v(n - d) = v(n) \div 2 ^ d}
<1>5. 0 \in P
  <2>1. n - 0 = n /\ n \in 0 .. n  OBVIOUS
  <2>2. \A x \in Nat : x \div 1 = x  OBVIOUS
  <2>3. v(n) \div 2 ^ 0 = v(n)  BY <1>3, <2>1, <2>2, PowerOfZero
  <2> QED BY <2>1, <2>3
<1>6. ASSUME NEW d \in Nat, d \in P PROVE d + 1 \in P
  <2> SUFFICES ASSUME d + 1 <= n PROVE v(n - (d + 1)) = v(n) \div 2 ^ (d + 1)
      OBVIOUS
  <2>1. n - d \in 1 .. n /\ (n - d) - 1 = n - (d + 1) /\ d <= n /\ n \in 0 .. n  OBVIOUS
  <2>2. v(n - (d + 1)) = v(n - d) \div 2  BY <1>4, <2>1
  <2>3. v(n - d) = v(n) \div 2 ^ d  BY <1>6, <2>1
  <2>4. v(n) \in Nat  BY <1>3, <2>1
  <2>5. v(n) \div 2 ^ (d + 1) = (v(n) \div 2 ^ d) \div 2  BY <2>4, HalfAgain
  <2> QED BY <2>2, <2>3, <2>5
<1>7. Nat \subseteq P
  <2> HIDE DEF P
  <2> QED BY <1>5, <1>6, NatSetInduction
<1>8. ASSUME NEW m \in 0 .. n PROVE v(m) = v(n) \div 2 ^ (n - m)
  <2>1. n - m \in Nat /\ n - m <= n /\ n - (n - m) = m  OBVIOUS
  <2>2. v(n - (n - m)) = v(n) \div 2 ^ (n - m)  BY <1>7, <2>1
  <2> QED BY <2>1, <2>2
<1> QED BY <1>4, <1>8 DEF v

\* What the bits of a number are taken from is the number.
LEMMA LeadOfBits ==
    ASSUME NEW bits \in Seq({0, 1}), NEW c \in Nat, NEW n \in Nat, c + n <= Len(bits),
           NEW x \in 0 .. 2 ^ n - 1,
           \A m \in 1 .. n : bits[c + m] = (x \div 2 ^ (n - m)) % 2
    PROVE  Lead(bits, c, n) = x
<1> DEFINE v(m) == Lead(bits, c, m)
           q(m) == x \div 2 ^ (n - m)
<1>1. v(0) = 0 /\ \A m \in Nat : c + m + 1 <= Len(bits) => v(m + 1) = 2 * v(m) + bits[c + m + 1]
  <2>1. c <= Len(bits) /\ Len(bits) \in Nat  OBVIOUS
  <2> QED BY <2>1, LeadStep
<1>2. Len(bits) \in Nat /\ x \in Nat
  <2>1. 2 ^ n \in Nat  BY PowerType
  <2> QED BY <2>1
<1> HIDE DEF v
<1>3. \A m \in 0 .. n : q(m) \in Nat
  <2> TAKE m \in 0 .. n
  <2>1. n - m \in Nat  OBVIOUS
  <2>2. 2 ^ (n - m) \in Nat \ {0}  BY <2>1, PowerGrows
  <2> QED BY <1>2, <2>2, Division
<1>4. q(0) = 0
  <2> DEFINE d == 2 ^ n
  <2>1. n - 0 = n /\ d \in Nat \ {0}  BY PowerGrows
  <2>2. x < d /\ x \in Nat  BY <1>2, <2>1
  <2> HIDE DEF d
  <2>3. \A y \in Nat : y < d => (0 * d + y) \div d = 0  BY <2>1, OneQuotient
  <2>4. 0 * d + x = x  BY <2>1, <2>2
  <2>5. x \div d = 0  BY <2>2, <2>3, <2>4, Zenon
  <2>6. q(0) = x \div d  BY <2>1, Zenon DEF d
  <2> QED BY <2>5, <2>6, Zenon
<1>5. q(n) = x
  <2>1. n - n = 0  OBVIOUS
  <2>2. 2 ^ (n - n) = 1  BY <2>1, PowerOfZero
  <2>3. \A y \in Nat : y \div 1 = y  OBVIOUS
  <2>4. x \div 1 = x  BY <1>2, <2>3
  <2> QED BY <2>2, <2>4
<1> DEFINE P == {m \in Nat : m <= n => v(m) = q(m)}
<1>6. 0 \in P
    BY <1>1, <1>4
<1>7. ASSUME NEW m \in Nat, m \in P PROVE m + 1 \in P
  <2> SUFFICES ASSUME m + 1 <= n PROVE v(m + 1) = q(m + 1)
    <3> HIDE DEF q
    <3> QED OBVIOUS
  <2> DEFINE e == n - (m + 1)
             y == x \div 2 ^ e
  <2>1. m + 1 \in 1 .. n /\ m + 1 \in 0 .. n /\ m \in 0 .. n /\ e \in Nat
        /\ e + 1 = n - m /\ m <= n
        /\ c + (m + 1) = c + m + 1 /\ c + m + 1 <= Len(bits)
      BY <1>2
  <2>2. v(m) = q(m)
    <3> HIDE DEF q
    <3> QED BY <1>7, <2>1
  <2>3. q(m + 1) = y  OBVIOUS
  <2> HIDE DEF e
  <2>4. q(m) = y \div 2  BY <1>2, <2>1, HalfAgain
  <2>5. bits[c + m + 1] = y % 2  BY <2>1 DEF e
  <2>6. y \in Nat
    <3> HIDE DEF q, y
    <3> QED BY <1>3, <2>1, <2>3
  <2> HIDE DEF q, y
  <2>7. v(m + 1) = 2 * v(m) + bits[c + m + 1]  BY <1>1, <2>1
  <2>8. \A z \in Nat : 2 * (z \div 2) + (z % 2) = z  OBVIOUS
  <2>9. 2 * (y \div 2) + (y % 2) = y  BY <2>6, <2>8, Zenon
  <2>10. v(m + 1) = 2 * (y \div 2) + (y % 2)  BY <2>2, <2>4, <2>5, <2>7, Zenon
  <2> QED BY <2>3, <2>9, <2>10, Zenon
<1>8. Nat \subseteq P
  <2> HIDE DEF P
  <2> QED BY <1>6, <1>7, NatSetInduction
<1>9. v(n) = q(n)
  <2> HIDE DEF q
  <2> QED BY <1>8
<1> QED BY <1>5, <1>9 DEF v

\* More levels do not have fewer leaves.
LEMMA CountGrows ==
    ASSUME NEW counts \in Seq(Nat), NEW m \in 0 .. Len(counts), NEW n \in 0 .. Len(counts),
           m <= n
    PROVE  CountTo(counts, m) <= CountTo(counts, n)
<1> DEFINE L == Len(counts)
           p(k) == CountTo(counts, k)
           P == {d \in Nat : m + d <= L => p(m) <= p(m + d)}
<1>1. L \in Nat /\ m \in Nat /\ n \in Nat /\ n <= L /\ \A i \in 1 .. L : counts[i] \in Nat
    OBVIOUS
<1>2. (\A k \in 0 .. L : p(k) \in Nat) /\ \A k \in 1 .. L : p(k) = p(k - 1) + counts[k]
    BY CountStep
<1> HIDE DEF L, p
<1>3. 0 \in P
  <2>1. m + 0 = m /\ m \in 0 .. L  BY <1>1
  <2>2. p(m) \in Nat  BY <1>2, <2>1
  <2> QED BY <2>1, <2>2
<1>4. ASSUME NEW d \in Nat, d \in P PROVE d + 1 \in P
  <2> DEFINE k == m + d
  <2> SUFFICES ASSUME m + (d + 1) <= L PROVE p(m) <= p(m + (d + 1))
      OBVIOUS
  <2>1. m + (d + 1) = k + 1 /\ k \in 0 .. L /\ k + 1 \in 1 .. L /\ (k + 1) - 1 = k
        /\ m \in 0 .. L
      BY <1>1
  <2>2. p(m) <= p(k)  BY <1>4, <2>1
  <2> HIDE DEF k
  <2>3. p(k + 1) = p(k) + counts[k + 1] /\ p(k) \in Nat /\ p(m) \in Nat /\ counts[k + 1] \in Nat
      BY <1>1, <1>2, <2>1
  <2>4. p(m) <= p(k + 1)  BY <2>2, <2>3
  <2> QED BY <2>1, <2>4
<1>5. Nat \subseteq P
  <2> HIDE DEF P
  <2> QED BY <1>3, <1>4, NatSetInduction
<1>6. n - m \in Nat /\ m + (n - m) = n
    BY <1>1
<1>7. p(m) <= p(n)
    BY <1>1, <1>5, <1>6
<1> QED BY <1>7 DEF p

\* Every leaf is of one of the lengths, and EOB is the last of the longest ones.
LEMMA LeafOf ==
    ASSUME NEW counts, Complete(counts)
    PROVE  /\ \A k \in 1 .. Total(counts) : \E len \in 1 .. Len(counts) : \E no \in 1 .. counts[len] :
                k = CountTo(counts, len - 1) + no
           /\ \A len \in 1 .. Len(counts) : \A no \in 1 .. counts[len] :
                /\ CountTo(counts, len - 1) + no \in 1 .. Total(counts)
                /\ CountTo(counts, len - 1) + no = Total(counts)
                     <=> len = Len(counts) /\ no = counts[Len(counts)]
<1> DEFINE L == Len(counts)
           p(k) == CountTo(counts, k)
<1>1. L \in Nat \ {0} /\ counts[L] >= 2 /\ \A i \in 1 .. L : counts[i] \in Nat
    BY DEF Complete
<1>2. /\ p(0) = 0 /\ p(L) = Total(counts)
      /\ \A k \in 0 .. L : p(k) \in Nat
      /\ \A k \in 1 .. L : p(k) = p(k - 1) + counts[k]
    BY CountStep DEF Complete
<1>3. \A m, n \in 0 .. L : m <= n => p(m) <= p(n)
    BY CountGrows DEF Complete
<1> DEFINE T == Total(counts)
<1> HIDE DEF L, p, T
<1>4. ASSUME NEW k \in 1 .. T PROVE \E len \in 1 .. L : \E no \in 1 .. counts[len] : k = p(len - 1) + no
  <2> DEFINE S == {n \in 0 .. L : k <= p(n)}
  <2>1. L \in S /\ S \in SUBSET Nat
    <3>1. L \in 0 .. L /\ k <= p(L)  BY <1>1, <1>2 DEF T
    <3> QED BY <3>1
  <2>2. PICK len \in S : \A y \in S : len <= y
    <3> HIDE DEF S
    <3> QED BY <2>1, LeastNatural
  <2>3. len # 0
    <3>1. ~ (k <= p(0))  BY <1>2
    <3> QED BY <2>2, <3>1
  <2>4. len \in 1 .. L /\ len - 1 \in 0 .. L /\ len \in 0 .. L /\ k <= p(len)
      BY <1>1, <2>2, <2>3
  <2>5. p(len - 1) < k
    <3>1. len - 1 \notin S
      <4>1. ~ (len <= len - 1)  BY <2>4
      <4> HIDE DEF S
      <4> QED BY <2>2, <4>1
    <3>2. ~ (k <= p(len - 1))  BY <2>4, <3>1
    <3>3. p(len - 1) \in Nat /\ k \in Nat  BY <1>2, <2>4
    <3> QED BY <3>2, <3>3
  <2> DEFINE no == k - p(len - 1)
  <2>6. no \in 1 .. counts[len] /\ k = p(len - 1) + no
    <3>1. p(len) = p(len - 1) + counts[len] /\ p(len - 1) \in Nat /\ counts[len] \in Nat
        BY <1>1, <1>2, <2>4
    <3> QED BY <2>4, <2>5, <3>1
  <2> HIDE DEF no
  <2> QED BY <2>4, <2>6
<1>5. ASSUME NEW len \in 1 .. L, NEW no \in 1 .. counts[len]
      PROVE  p(len - 1) + no \in 1 .. T /\ (p(len - 1) + no = T <=> len = L /\ no = counts[L])
  <2>1. len \in 0 .. L /\ len - 1 \in 0 .. L /\ len <= L /\ L \in 0 .. L /\ L \in 1 .. L
        /\ L - 1 \in 0 .. L
      BY <1>1
  <2>2. /\ p(len) = p(len - 1) + counts[len] /\ p(len) <= T /\ p(len) \in Nat
           /\ p(len - 1) \in Nat
        /\ T = p(L - 1) + counts[L] /\ p(L - 1) \in Nat /\ counts[L] \in Nat /\ T \in Nat
        /\ counts[len] \in Nat
      BY <1>1, <1>2, <1>3, <2>1 DEF T
  <2>3. p(len - 1) + no \in 1 .. T  BY <2>2
  <2>4. CASE len = L
    <3>1. p(len - 1) = p(L - 1) /\ counts[len] = counts[L]  BY <2>4
    <3>2. p(len - 1) + no = T <=> no = counts[L]  BY <2>2, <3>1
    <3> QED BY <2>3, <2>4, <3>2
  <2>5. CASE len # L
    <3>1. len <= L - 1  BY <1>1, <2>5
    <3>2. p(len) <= p(L - 1)  BY <1>3, <2>1, <3>1
    <3>3. p(len - 1) + no < T  BY <1>1, <2>2, <3>2
    <3> QED BY <2>2, <2>3, <2>5, <3>3
  <2> QED BY <2>4, <2>5
<1> QED BY <1>4, <1>5 DEF L, p, T

\* The code of a leaf: those of a length follow the inner nodes of its level.
CodeOf(counts, len, no) ==
    [i \in 1 .. len |-> ((Inner(counts)[len] + no - 1) \div 2 ^ (len - i)) % 2]

\* The codes are those of the leaves, one length behind the other.
LEMMA CodesAre ==
    ASSUME NEW counts, Complete(counts)
    PROVE  /\ Len(Codes(counts)) = Total(counts)
           /\ \A len \in 1 .. Len(counts) : \A no \in 1 .. counts[len] :
                Codes(counts)[CountTo(counts, len - 1) + no] = CodeOf(counts, len, no)
<1> DEFINE L == Len(counts)
           r == Inner(counts)
           first(len) == Weight(counts, len + 1 .. L) \div 2 ^ (L - len)
           OfLength(len) == [no \in 1 .. counts[len] |->
                    [i \in 1 .. len |-> ((first(len) + no - 1) \div 2 ^ (len - i)) % 2]]
           seqs == [len \in 1 .. L |-> OfLength(len)]
           seqs2 == [len \in 1 .. L |-> [no \in 1 .. counts[len] |-> CodeOf(counts, len, no)]]
           p == [n \in 0 .. L |-> CountTo(counts, n)]
           B == Seq({0, 1})
<1>1. Codes(counts) = FlattenSeq(seqs)
    BY DEF Codes
<1>2. L \in Nat \ {0} /\ \A i \in 1 .. L : counts[i] \in Nat
    BY DEF Complete
<1>3. /\ r[L] = 0
      /\ \A n \in 0 .. L : r[n] \in Nat
  <2>1. \A n \in 0 .. L : r[n] \in 0 .. 2 ^ n  BY InnerBounds
  <2>2. \A n \in 0 .. L : n \in Nat  BY <1>2
  <2>3. \A n \in Nat : 2 ^ n \in Nat  BY PowerType
  <2> HIDE DEF r, L
  <2>4. \A n \in 0 .. L : r[n] \in Nat  BY <2>1, <2>2, <2>3
  <2> QED BY <2>4 DEF Complete, r, L
<1>4. ASSUME NEW len \in 1 .. L PROVE first(len) = r[len]
  <2> DEFINE d == 2 ^ (L - len)
             w == Weight(counts, len + 1 .. L)
             a == r[len]
  <2>1. len \in 0 .. L /\ L - len \in Nat  BY <1>2
  <2>2. w = a * d - r[L]  BY <2>1, WeightIs DEF Complete
  <2>3. d \in Nat \ {0} /\ a \in Nat  BY <1>3, <2>1, PowerGrows
  <2> HIDE DEF d, w, a
  <2>4. w = a * d + 0  BY <1>3, <2>2, <2>3
  <2>5. (a * d + 0) \div d = a  BY <2>3, OneQuotient
  <2>6. w \div d = a  BY <2>4, <2>5, Zenon
  <2> QED BY <2>6 DEF w, d, a
<1> HIDE DEF first, r, L
<1>5. seqs = seqs2
  <2>1. \A len \in 1 .. L : OfLength(len) = [no \in 1 .. counts[len] |-> CodeOf(counts, len, no)]
      BY <1>4, Zenon DEF CodeOf, r
  <2> HIDE DEF OfLength
  <2> QED BY <2>1, Zenon
<1> HIDE DEF seqs
<1>6. ASSUME NEW len \in 1 .. L, NEW no \in 1 .. counts[len] PROVE CodeOf(counts, len, no) \in B
  <2>1. len \in 0 .. L /\ len \in Nat /\ no \in Nat \ {0} /\ counts[len] \in Nat  BY <1>2
  <2>2. r[len] \in Nat  BY <1>3, <2>1
  <2> DEFINE x == r[len] + no - 1
  <2>3. x \in Nat  BY <2>1, <2>2
  <2> HIDE DEF x
  <2>4. \A i \in 1 .. len : (x \div 2 ^ (len - i)) % 2 \in {0, 1}
    <3> TAKE i \in 1 .. len
    <3>1. len - i \in Nat  BY <2>1
    <3>2. 2 ^ (len - i) \in Nat \ {0}  BY <3>1, PowerGrows
    <3>3. x \div 2 ^ (len - i) \in Nat  BY <2>3, <3>2, Division
    <3>4. \A z \in Nat : z % 2 \in {0, 1}  OBVIOUS
    <3> QED BY <3>3, <3>4, Zenon
  <2>5. [i \in 1 .. len |-> (x \div 2 ^ (len - i)) % 2] \in B  BY <2>1, <2>4
  <2> QED BY <2>5, Zenon DEF CodeOf, x, r
<1>7. seqs2 \in Seq(Seq(B)) /\ Len(seqs2) = L
  <2>1. \A len \in 1 .. L : [no \in 1 .. counts[len] |-> CodeOf(counts, len, no)] \in Seq(B)
    <3> TAKE len \in 1 .. L
    <3>1. counts[len] \in Nat  BY <1>2
    <3>2. \A no \in 1 .. counts[len] : CodeOf(counts, len, no) \in B  BY <1>6
    <3> HIDE DEF B
    <3> QED BY <3>1, <3>2
  <2> DEFINE e(len) == [no \in 1 .. counts[len] |-> CodeOf(counts, len, no)]
             SB == Seq(B)
  <2> HIDE DEF e, SB
  <2>2. \A len \in 1 .. L : e(len) \in SB  BY <2>1 DEF e, SB
  <2>3. [len \in 1 .. L |-> e(len)] \in Seq(SB) /\ Len([len \in 1 .. L |-> e(len)]) = L
      BY <1>2, <2>2
  <2> QED BY <2>3 DEF e, SB
<1>8. ASSUME NEW len \in 1 .. L
      PROVE  /\ Len(seqs2[len]) = counts[len]
             /\ \A no \in 1 .. counts[len] : seqs2[len][no] = CodeOf(counts, len, no)
  <2>1. seqs2[len] = [no \in 1 .. counts[len] |-> CodeOf(counts, len, no)]  BY Zenon
  <2>2. counts[len] \in Nat  BY <1>2
  <2> HIDE DEF seqs2
  <2> QED BY <2>1, <2>2
<1> HIDE DEF seqs2, B
<1>9. /\ p[0] = 0 /\ p[L] = Total(counts)
      /\ \A n \in 1 .. L : p[n] = p[n - 1] + counts[n]
      /\ \A n \in 1 .. L : p[n - 1] = CountTo(counts, n - 1)
  <2>1. /\ CountTo(counts, 0) = 0 /\ CountTo(counts, L) = Total(counts)
        /\ \A k \in 1 .. L : CountTo(counts, k) = CountTo(counts, k - 1) + counts[k]
      BY CountStep DEF Complete, L
  <2>2. 0 \in 0 .. L /\ L \in 0 .. L /\ \A n \in 1 .. L : n \in 0 .. L /\ n - 1 \in 0 .. L
      BY <1>2
  <2>3. \A n \in 0 .. L : p[n] = CountTo(counts, n)  OBVIOUS
  <2> HIDE DEF p
  <2> QED BY <2>1, <2>2, <2>3, Zenon
<1> HIDE DEF p
<1>10. \A n \in 1 .. Len(seqs2) : p[n] = p[n - 1] + Len(seqs2[n])
    BY <1>7, <1>8, <1>9
<1>11. /\ Len(FlattenSeq(seqs2)) = p[Len(seqs2)]
       /\ \A n \in 1 .. Len(seqs2) : \A j \in 1 .. Len(seqs2[n]) :
                FlattenSeq(seqs2)[p[n - 1] + j] = seqs2[n][j]
  <2>1. seqs2 \in Seq(Seq(B)) /\ p[0] = 0  BY <1>7, <1>9
  <2>2. Len(FlattenSeq(seqs2)) = p[Len(seqs2)]  BY ONLY <2>1, <1>10, FlattenIs, Zenon
  <2>3. Placed(seqs2, p, FlattenSeq(seqs2))  BY ONLY <2>1, <1>10, FlattenIs, Zenon
  <2> QED BY <2>2, <2>3, Zenon DEF Placed
<1>12. Len(Codes(counts)) = Total(counts)
    BY <1>1, <1>5, <1>7, <1>9, <1>11
<1>13. ASSUME NEW len \in 1 .. L, NEW no \in 1 .. counts[len]
       PROVE  Codes(counts)[CountTo(counts, len - 1) + no] = CodeOf(counts, len, no)
  <2>1. Codes(counts)[p[len - 1] + no] = seqs2[len][no]  BY <1>1, <1>5, <1>7, <1>8, <1>11
  <2> QED BY <1>8, <1>9, <2>1
<1> QED BY <1>12, <1>13 DEF L

\* The codes are sequences of bits of their lengths.
LEMMA CodeLength ==
    ASSUME NEW counts, Complete(counts), NEW len \in 1 .. Len(counts),
           NEW no \in 1 .. counts[len]
    PROVE  /\ len \in Nat \ {0}
           /\ CodeOf(counts, len, no) \in Seq(Nat)
           /\ Len(CodeOf(counts, len, no)) = len
           /\ Inner(counts)[len] + no - 1 \in 0 .. 2 ^ len - 1
<1> DEFINE r == Inner(counts)
           L == Len(counts)
           x == r[len] + no - 1
<1>1. /\ L \in Nat \ {0} /\ len \in Nat \ {0} /\ len \in 0 .. L /\ len - 1 \in 0 .. L
         /\ len - 1 \in Nat
      /\ counts[len] \in Nat /\ no \in Nat \ {0} /\ no <= counts[len]
    BY DEF Complete
<1>2. /\ r[len] \in 0 .. 2 ^ len /\ r[len - 1] \in 0 .. 2 ^ (len - 1)
      /\ r[len] = 2 * r[len - 1] - counts[len]
  <2>1. \A n \in 0 .. L : r[n] \in 0 .. 2 ^ n  BY InnerBounds
  <2>2. \A n \in 1 .. L : r[n] = 2 * r[n - 1] - counts[n]  BY InnerStep DEF Complete
  <2> HIDE DEF r, L
  <2> QED BY <1>1, <2>1, <2>2
<1>3. 2 ^ len = 2 ^ (len - 1) + 2 ^ (len - 1) /\ 2 ^ (len - 1) \in Nat
  <2>1. (len - 1) + 1 = len  BY <1>1
  <2> QED BY <1>1, <2>1, PowerType, PowerDoubles
<1> HIDE DEF r, L
<1>4. x \in 0 .. 2 ^ len - 1 /\ x \in Nat
  <2> DEFINE a == r[len]
             b == r[len - 1]
             d == 2 ^ (len - 1)
             e == 2 ^ len
             k == counts[len]
  <2>1. a \in 0 .. e /\ b \in 0 .. d /\ a = 2 * b - k /\ e = d + d /\ d \in Nat /\ k \in Nat
        /\ no \in Nat \ {0} /\ no <= k
      BY <1>1, <1>2, <1>3
  <2>2. x = a + no - 1  OBVIOUS
  <2> HIDE DEF a, b, d, e, k, x
  <2>3. x \in 0 .. e - 1 /\ x \in Nat  BY <2>1, <2>2
  <2> QED BY <2>3 DEF e
<1> HIDE DEF x
<1>5. \A i \in 1 .. len : (x \div 2 ^ (len - i)) % 2 \in Nat
  <2> TAKE i \in 1 .. len
  <2>1. len - i \in Nat  BY <1>1
  <2>2. 2 ^ (len - i) \in Nat \ {0}  BY <2>1, PowerGrows
  <2>3. x \div 2 ^ (len - i) \in Nat  BY <1>4, <2>2, Division
  <2>4. \A z \in Nat : z % 2 \in Nat  OBVIOUS
  <2> QED BY <2>3, <2>4, Zenon
<1> DEFINE s == [i \in 1 .. len |-> (x \div 2 ^ (len - i)) % 2]
<1>6. s \in Seq(Nat) /\ Len(s) = len
    BY <1>1, <1>5
<1>7. CodeOf(counts, len, no) = s
    BY Zenon DEF CodeOf, x, r
<1> QED BY <1>1, <1>4, <1>6, <1>7 DEF x, r

\* A code is found where the number of the bits is that of the code.
LEMMA CodeMatches ==
    ASSUME NEW counts, Complete(counts), NEW len \in 1 .. Len(counts),
           NEW no \in 1 .. counts[len],
           NEW bits \in Seq({0, 1}), NEW c \in Nat, c <= Len(bits)
    PROVE  IsPrefix(CodeOf(counts, len, no), SubSeq(bits, c + 1, Len(bits)))
               <=> /\ c + len <= Len(bits)
                   /\ Lead(bits, c, len) = Inner(counts)[len] + no - 1
<1> DEFINE s == CodeOf(counts, len, no)
           t == SubSeq(bits, c + 1, Len(bits))
           x == Inner(counts)[len] + no - 1
           n == Len(bits) - c
<1>1. len \in Nat \ {0} /\ s \in Seq(Nat) /\ Len(s) = len /\ x \in 0 .. 2 ^ len - 1
    BY CodeLength
<1>2. \A i \in 1 .. len : s[i] = (x \div 2 ^ (len - i)) % 2
    BY DEF CodeOf
<1>3. n \in Nat /\ Len(bits) = c + n /\ Len(t) = n /\ \A i \in 1 .. n : t[i] = bits[c + i]
  <2>1. Len(bits) \in Nat  OBVIOUS
  <2> QED BY <2>1
<1>4. t \in Seq({0, 1})
    OBVIOUS
<1> HIDE DEF s, t, x, n
<1>5. IsPrefix(s, t) <=> len <= n /\ \A i \in 1 .. len : s[i] = bits[c + i]
  <2>1. ASSUME len <= n
        PROVE  SubSeq(s, 1, len) = SubSeq(t, 1, len) <=> \A i \in 1 .. len : s[i] = bits[c + i]
    <3> DEFINE a == SubSeq(s, 1, len)
               b == SubSeq(t, 1, len)
    <3>1. a \in Seq(Nat) /\ Len(a) = len /\ \A i \in 1 .. len : a[i] = s[i]  BY <1>1
    <3>2. b \in Seq({0, 1}) /\ Len(b) = len /\ \A i \in 1 .. len : b[i] = t[i]
        BY <1>1, <1>3, <1>4, <2>1
    <3>3. \A i \in 1 .. len : t[i] = bits[c + i]
      <4>1. \A i \in 1 .. len : i \in 1 .. n  BY <1>1, <1>3, <2>1
      <4> QED BY <1>3, <4>1
    <3> HIDE DEF a, b
    <3>4. a = b <=> \A i \in 1 .. len : a[i] = b[i]
      <4>1. a = [i \in 1 .. len |-> a[i]] /\ b = [i \in 1 .. len |-> b[i]]  BY <3>1, <3>2
      <4> QED BY <4>1, Zenon
    <3>5. a = b <=> \A i \in 1 .. len : s[i] = bits[c + i]
        BY <3>1, <3>2, <3>3, <3>4, Zenon
    <3> QED BY <3>5 DEF a, b
  <2> QED BY <1>1, <1>3, <2>1, Zenon DEF IsPrefix
<1>6. c + len <= Len(bits) <=> len <= n
    BY <1>1, <1>3
<1>7. ASSUME len <= n, \A i \in 1 .. len : s[i] = bits[c + i] PROVE Lead(bits, c, len) = x
  <2>1. \A m \in 1 .. len : bits[c + m] = (x \div 2 ^ (len - m)) % 2  BY <1>2, <1>7, Zenon
  <2>2. c + len <= Len(bits) /\ len \in Nat  BY <1>1, <1>6, <1>7
  <2> QED BY <1>1, <2>1, <2>2, LeadOfBits
<1>8. ASSUME len <= n, Lead(bits, c, len) = x, NEW i \in 1 .. len PROVE s[i] = bits[c + i]
  <2>1. c + len <= Len(bits) /\ len \in Nat /\ i \in 0 .. len  BY <1>1, <1>6, <1>8
  <2>2. /\ Lead(bits, c, i) = Lead(bits, c, len) \div 2 ^ (len - i)
        /\ bits[c + i] = Lead(bits, c, i) % 2
      BY <2>1, LeadQuotient
  <2> QED BY <1>2, <1>8, <2>2, Zenon
<1>9. IsPrefix(s, t) <=> c + len <= Len(bits) /\ Lead(bits, c, len) = x
    BY <1>5, <1>6, <1>7, <1>8, Zenon
<1> QED BY <1>9 DEF s, t, x

\* A number that is not that of an inner node stays so with more bits.
LEMMA LeadUp ==
    ASSUME NEW counts, Complete(counts), NEW bits \in Seq({0, 1}), NEW c \in Nat,
           NEW n \in 0 .. Len(counts), c + n <= Len(bits), NEW m \in 0 .. n,
           Inner(counts)[m] <= Lead(bits, c, m)
    PROVE  Inner(counts)[n] <= Lead(bits, c, n)
<1> DEFINE r == Inner(counts)
           L == Len(counts)
           v(k) == Lead(bits, c, k)
           P == {d \in Nat : m + d <= n => r[m + d] <= v(m + d)}
<1>1. /\ L \in Nat /\ n \in Nat /\ m \in Nat /\ n <= L /\ m <= n /\ Len(bits) \in Nat
      /\ \A i \in 1 .. L : counts[i] \in Nat
      /\ \A i \in 1 .. Len(bits) : bits[i] \in {0, 1}
    BY SMTT(30) DEF Complete
<1>2. (\A i \in 0 .. L : r[i] \in Int) /\ \A i \in 1 .. L : r[i] = 2 * r[i - 1] - counts[i]
  <2>1. counts \in Seq(Nat)  BY DEF Complete
  <2>2. r \in [0 .. L -> Int] /\ \A i \in 1 .. L : r[i] = 2 * r[i - 1] - counts[i]
      BY <2>1, InnerStep
  <2> HIDE DEF r, L
  <2> QED BY <2>2
<1>3. /\ \A k \in Nat : c + k <= Len(bits) => v(k) \in 0 .. 2 ^ k - 1
      /\ \A k \in Nat : c + k + 1 <= Len(bits) => v(k + 1) = 2 * v(k) + bits[c + k + 1]
  <2>1. c <= Len(bits)  BY <1>1
  <2> QED BY <2>1, LeadStep
<1> HIDE DEF r, L, v
<1>4. 0 \in P
  <2>1. m + 0 = m  BY <1>1
  <2> QED BY <2>1 DEF r, v
<1>5. ASSUME NEW d \in Nat, d \in P PROVE d + 1 \in P
  <2> SUFFICES ASSUME m + (d + 1) <= n PROVE r[m + (d + 1)] <= v(m + (d + 1))
      OBVIOUS
  <2> DEFINE k == m + d
  <2>1. /\ m + (d + 1) = k + 1 /\ k + 1 \in 1 .. L /\ k \in 0 .. L /\ (k + 1) - 1 = k
           /\ k \in Nat /\ k <= n
        /\ c + k + 1 <= Len(bits) /\ c + k <= Len(bits) /\ c + k + 1 \in 1 .. Len(bits)
      BY <1>1
  <2>2. r[k] <= v(k)  BY <1>5, <2>1
  <2> HIDE DEF k
  <2>3. 2 ^ k \in Nat  BY <2>1, PowerType
  <2>4. v(k + 1) = 2 * v(k) + bits[c + k + 1] /\ v(k) \in Nat /\ bits[c + k + 1] \in {0, 1}
      BY <1>1, <1>3, <2>1, <2>3
  <2>5. r[k + 1] = 2 * r[k] - counts[k + 1] /\ r[k] \in Int /\ counts[k + 1] \in Nat
      BY <1>1, <1>2, <2>1
  <2>6. r[k + 1] <= v(k + 1)  BY <2>2, <2>4, <2>5, SMTT(30)
  <2> QED BY <2>1, <2>6
<1>6. Nat \subseteq P
  <2> HIDE DEF P
  <2> QED BY <1>4, <1>5, NatSetInduction
<1>7. n - m \in Nat /\ m + (n - m) = n
    BY <1>1
<1>8. r[n] <= v(n)
  <2> DEFINE d == n - m
  <2>1. d \in P /\ m + d = n  BY <1>6, <1>7
  <2> HIDE DEF d
  <2>2. m + d <= n => r[m + d] <= v(m + d)  BY <2>1
  <2>3. n <= n  BY <1>1
  <2> QED BY <2>1, <2>2, <2>3, Zenon
<1> QED BY <1>8 DEF r, v

\* The length of the next code: the first one whose number is not that of an inner node.
IsNext(counts, bits, c, len) ==
    /\ len \in 1 .. Len(counts)
    /\ c + len <= Len(bits)
    /\ Inner(counts)[len] <= Lead(bits, c, len)
    /\ Lead(bits, c, len - 1) < Inner(counts)[len - 1]

\* There is one.
LEMMA OneNext ==
    ASSUME NEW counts, Complete(counts), NEW bits \in Seq({0, 1}), NEW c \in Nat,
           NEW m, NEW n, IsNext(counts, bits, c, m), IsNext(counts, bits, c, n)
    PROVE  m = n
<1> DEFINE r == Inner(counts)
           L == Len(counts)
           v(k) == Lead(bits, c, k)
<1>1. L \in Nat /\ Len(bits) \in Nat
    BY DEF Complete
<1>2. \A i \in 0 .. L : r[i] \in Int
  <2>1. counts \in Seq(Nat)  BY DEF Complete
  <2>2. r \in [0 .. L -> Int]  BY <2>1, InnerStep
  <2> HIDE DEF r, L
  <2> QED BY <2>2
<1>3. \A k \in Nat : c + k <= Len(bits) => v(k) \in Nat
  <2> TAKE k \in Nat
  <2> HAVE c + k <= Len(bits)
  <2>1. c <= Len(bits)  BY <1>1
  <2>2. v(k) \in 0 .. 2 ^ k - 1  BY <2>1, LeadStep
  <2>3. 2 ^ k \in Nat  BY PowerType
  <2> HIDE DEF v
  <2> QED BY <2>2, <2>3
<1>4. ASSUME NEW a \in 1 .. L, NEW b \in 1 .. L, IsNext(counts, bits, c, a),
             IsNext(counts, bits, c, b)
      PROVE  ~ (a < b)
  <2> SUFFICES ASSUME a < b PROVE FALSE  OBVIOUS
  <2>1. /\ b - 1 \in 0 .. L /\ a \in 0 .. b - 1 /\ b - 1 \in Nat
      BY <1>1
  <2>2. c + b <= Len(bits) /\ r[a] <= v(a) /\ v(b - 1) < r[b - 1]  BY <1>4 DEF IsNext
  <2>3. c + (b - 1) <= Len(bits)  BY <1>1, <2>2
  <2>4. r[b - 1] <= v(b - 1)  BY <2>1, <2>2, <2>3, LeadUp
  <2>5. r[b - 1] \in Int /\ v(b - 1) \in Nat  BY <1>2, <1>3, <2>1, <2>3
  <2> HIDE DEF r, v
  <2> QED BY <2>2, <2>4, <2>5
<1>5. m \in 1 .. L /\ n \in 1 .. L
    BY DEF IsNext
<1>6. ~ (m < n) /\ ~ (n < m)
    BY <1>4, <1>5
<1> QED BY <1>1, <1>5, <1>6

\* The number of a leaf among those of its level.
LEMMA AmongLeaves ==
    ASSUME NEW a \in Int, NEW b \in Int, NEW x \in Nat, NEW y \in Nat, NEW k \in Nat,
           x \in {2 * y, 2 * y + 1}, a = 2 * b - k
    PROVE  a <= x /\ y < b <=> x - a + 1 \in 1 .. k
OBVIOUS

\* The next leaf.
LEMMA NextLeaf ==
    ASSUME NEW counts, Complete(counts), NEW bits \in Seq({0, 1}), NEW c \in Nat,
           NEW len, IsNext(counts, bits, c, len),
           NEW no, no = Lead(bits, c, len) - Inner(counts)[len] + 1,
           NEW leaf, leaf = CountTo(counts, len - 1) + no
    PROVE  /\ len \in 1 .. Len(counts) /\ no \in 1 .. counts[len] /\ leaf \in 1 .. Total(counts)
           /\ Hits(Codes(counts), bits, c + 1) = {leaf}
           /\ Len(Codes(counts)[leaf]) = len
<1> DEFINE r == Inner(counts)
           L == Len(counts)
           v(k) == Lead(bits, c, k)
           p(k) == CountTo(counts, k)
           codes == Codes(counts)
           hits == Hits(codes, bits, c + 1)
<1>1. L \in Nat /\ Len(bits) \in Nat /\ \A i \in 1 .. L : counts[i] \in Nat
    BY DEF Complete
<1>2. (\A i \in 0 .. L : r[i] \in Int) /\ \A i \in 1 .. L : r[i] = 2 * r[i - 1] - counts[i]
  <2>1. counts \in Seq(Nat)  BY DEF Complete
  <2>2. r \in [0 .. L -> Int] /\ \A i \in 1 .. L : r[i] = 2 * r[i - 1] - counts[i]
      BY <2>1, InnerStep
  <2> HIDE DEF r, L
  <2> QED BY <2>2
<1>3. len \in 1 .. L /\ c + len <= Len(bits) /\ r[len] <= v(len) /\ v(len - 1) < r[len - 1]
    BY DEF IsNext
<1>4. \A n \in 1 .. L : c + n <= Len(bits) =>
            v(n) \in Nat /\ v(n - 1) \in Nat /\ v(n) \in {2 * v(n - 1), 2 * v(n - 1) + 1}
  <2> TAKE n \in 1 .. L
  <2> HAVE c + n <= Len(bits)
  <2>1. n - 1 \in Nat /\ (n - 1) + 1 = n /\ c + (n - 1) + 1 = c + n /\ c + n \in 1 .. Len(bits)
        /\ c + (n - 1) + 1 <= Len(bits) /\ c <= Len(bits) /\ c + (n - 1) <= Len(bits)
           /\ n \in Nat
      BY <1>1
  <2>2. v((n - 1) + 1) = 2 * v(n - 1) + bits[c + (n - 1) + 1]  BY <2>1, LeadStep
  <2>3. v(n - 1) \in 0 .. 2 ^ (n - 1) - 1  BY <2>1, LeadStep
  <2>4. 2 ^ (n - 1) \in Nat  BY <2>1, PowerType
  <2>5. bits[c + n] \in {0, 1}  BY <2>1
  <2> HIDE DEF v
  <2>6. v(n) = 2 * v(n - 1) + bits[c + n]  BY <2>1, <2>2
  <2>7. v(n - 1) \in Nat  BY <2>3, <2>4
  <2> QED BY <2>5, <2>6, <2>7
<1>5. no \in 1 .. counts[len]
  <2> HIDE DEF r, v
  <2>1. len \in 0 .. L /\ len - 1 \in 0 .. L /\ no = v(len) - r[len] + 1  BY <1>1, <1>3 DEF r, v
  <2>2. r[len] \in Int /\ r[len - 1] \in Int /\ r[len] = 2 * r[len - 1] - counts[len]
        /\ counts[len] \in Nat
      BY <1>1, <1>2, <1>3, <2>1
  <2>3. v(len) \in Nat /\ v(len - 1) \in Nat /\ v(len) \in {2 * v(len - 1), 2 * v(len - 1) + 1}
      BY <1>3, <1>4
  <2>4. r[len] <= v(len) /\ v(len - 1) < r[len - 1]  BY <1>3
  <2> QED BY <2>1, <2>2, <2>3, <2>4, AmongLeaves
<1>6. leaf \in 1 .. Total(counts) /\ codes[leaf] = CodeOf(counts, len, no)
    BY <1>3, <1>5, LeafOf, CodesAre
<1>7. Len(codes[leaf]) = len
    BY <1>3, <1>5, <1>6, CodeLength
<1>8. Len(codes) = Total(counts)
    BY CodesAre
<1>9. c <= Len(bits)
    BY <1>1, <1>3
<1>10. leaf \in hits
  <2>1. v(len) = r[len] + no - 1
    <3>1. len \in 0 .. L  BY <1>1, <1>3
    <3>2. r[len] \in Int /\ v(len) \in Nat  BY <1>2, <1>3, <1>4, <3>1
    <3>3. no = v(len) - r[len] + 1  OBVIOUS
    <3> HIDE DEF r, v
    <3> QED BY <3>2, <3>3
  <2>2. IsPrefix(codes[leaf], SubSeq(bits, c + 1, Len(bits)))
      BY <1>3, <1>5, <1>6, <1>9, <2>1, CodeMatches
  <2> QED BY <1>6, <1>8, <2>2 DEF Hits
<1>11. ASSUME NEW k \in hits PROVE k = leaf
  <2>1. k \in 1 .. Total(counts) /\ IsPrefix(codes[k], SubSeq(bits, c + 1, Len(bits)))
      BY <1>8 DEF Hits
  <2>2. PICK n \in 1 .. L : \E o \in 1 .. counts[n] : k = p(n - 1) + o
      BY <2>1, LeafOf
  <2>3. PICK o \in 1 .. counts[n] : k = p(n - 1) + o  BY <2>2
  <2>4. codes[k] = CodeOf(counts, n, o)  BY <2>3, CodesAre
  <2>5. c + n <= Len(bits) /\ v(n) = r[n] + o - 1
      BY <1>9, <2>1, <2>3, <2>4, CodeMatches
  <2>6. r[n] <= v(n) /\ v(n - 1) < r[n - 1] /\ o = v(n) - r[n] + 1
    <3>1. n \in 0 .. L /\ n - 1 \in 0 .. L /\ counts[n] \in Nat  BY <1>1
    <3>2. r[n] \in Int /\ r[n - 1] \in Int /\ r[n] = 2 * r[n - 1] - counts[n]  BY <1>2, <3>1
    <3>3. v(n) \in Nat /\ v(n - 1) \in Nat /\ v(n) \in {2 * v(n - 1), 2 * v(n - 1) + 1}
        BY <1>4, <2>5
    <3>4. v(n) = r[n] + o - 1  BY <2>5
    <3> HIDE DEF r, v
    <3>5. o = v(n) - r[n] + 1  BY <3>2, <3>3, <3>4
    <3> QED BY <3>1, <3>2, <3>3, <3>5, AmongLeaves, ZenonT(60)
  <2>7. IsNext(counts, bits, c, n)  BY <2>5, <2>6 DEF IsNext
  <2>8. n = len  BY <2>7, OneNext
  <2>9. o = no  BY <2>6, <2>8
  <2> QED BY <2>3, <2>8, <2>9
<1>12. hits = {leaf}
  <2> HIDE DEF hits
  <2> QED BY <1>10, <1>11
<1> QED BY <1>3, <1>5, <1>6, <1>7, <1>12

-----------------------------------------------------------------------------
(* What is decoded.                                                          *)

\* The leaf that is the next one, and what it makes of a function f that says what is
\* decoded from later bits on.
FirstHit(codes, bits, i) == CHOOSE k \in Hits(codes, bits, i) : TRUE
After(codes, bits, f, i) ==
    IF Hits(codes, bits, i) = {} THEN <<>>
    ELSE IF FirstHit(codes, bits, i) = Len(codes) THEN <<FirstHit(codes, bits, i)>>
    ELSE <<FirstHit(codes, bits, i)>> \o f[i + Len(codes[FirstHit(codes, bits, i)])]

\* What is decoded from a bit on is a leaf, and what is decoded behind its code.
LEMMA DecodedStep ==
    ASSUME NEW codes, NEW bits \in Seq({0, 1}),
           \A k \in 1 .. Len(codes) : Len(codes[k]) \in Nat \ {0}
    PROVE  /\ Decoded(codes, bits) = DecodedFrom(codes, bits)[1]
           /\ \A i \in 1 .. Len(bits) + 1 :
                DecodedFrom(codes, bits)[i] = After(codes, bits, DecodedFrom(codes, bits), i)
<1> DEFINE N == Len(bits) + 1
           K(i) == FirstHit(codes, bits, i)
           Step(f, i) == After(codes, bits, f, i)
           Solves(f, m) == f = [i \in N - m + 1 .. N |-> Step(f, i)]
           P == {m \in Nat : m <= N => \E f : Solves(f, m)}
           F == CHOOSE f : f = [i \in 1 .. N |-> Step(f, i)]
<1>1. N \in Nat
    OBVIOUS
<1>2. DecodedFrom(codes, bits) = F
    BY DEF DecodedFrom, After, FirstHit, Hits
<1>3. Decoded(codes, bits) = DecodedFrom(codes, bits)[1]
    BY DEF DecodedFrom, Decoded
<1>4. ASSUME NEW i \in 1 .. N, Hits(codes, bits, i) # {}
      PROVE  i + Len(codes[K(i)]) \in i + 1 .. N
  <2>1. K(i) \in Hits(codes, bits, i)  BY <1>4 DEF FirstHit
  <2>2. K(i) \in 1 .. Len(codes) /\ IsPrefix(codes[K(i)], SubSeq(bits, i, Len(bits)))
      BY <2>1 DEF Hits
  <2> DEFINE a == Len(codes[K(i)])
             t == SubSeq(bits, i, Len(bits))
  <2>3. a \in Nat \ {0} /\ a <= Len(t)  BY <2>2 DEF IsPrefix
  <2>4. Len(t) = N - i  OBVIOUS
  <2> HIDE DEF a, t
  <2>5. a <= N - i /\ N \in Nat /\ i \in Nat  BY <1>1, <2>3, <2>4
  <2> HIDE DEF N
  <2>6. i + a \in i + 1 .. N  BY <2>3, <2>5
  <2> QED BY <2>6 DEF a
<1> HIDE DEF F, N
<1>5. 0 \in P
  <2> DEFINE f == [i \in N - 0 + 1 .. N |-> <<>>]
  <2>1. N - 0 + 1 .. N = {}  BY <1>1
  <2>2. Solves(f, 0)
    <3> HIDE DEF Step
    <3> QED BY <2>1
  <2> HIDE DEF Solves, f
  <2> QED BY <2>2
<1>6. ASSUME NEW m \in Nat, m \in P PROVE m + 1 \in P
  <2> SUFFICES ASSUME m + 1 <= N PROVE \E f : Solves(f, m + 1)
    <3> HIDE DEF Solves
    <3> QED OBVIOUS
  <2>1. PICK g : Solves(g, m)
    <3>1. m <= N  BY <1>1
    <3> HIDE DEF Solves
    <3> QED BY <1>6, <3>1
  <2> DEFINE x == N - (m + 1) + 1
             h == [i \in x .. N |-> IF i = x THEN Step(g, x) ELSE g[i]]
  <2>2. /\ x \in 1 .. N /\ N - m + 1 = x + 1
        /\ \A i \in x .. N : (i = x \/ i \in x + 1 .. N) /\ i \in 1 .. N
        /\ \A i \in x + 1 .. N : i # x /\ i \in x .. N
        /\ \A i \in x .. N : \A j \in i + 1 .. N : j \in x + 1 .. N
      BY <1>1
  <2>3. \A i \in x + 1 .. N : g[i] = Step(g, i)
    <3> HIDE DEF Step, x
    <3>1. g = [i \in x + 1 .. N |-> Step(g, i)]  BY <2>1, <2>2
    <3> QED BY <3>1
  <2> HIDE DEF x
  <2>4. /\ h[x] = Step(g, x) /\ \A i \in x + 1 .. N : h[i] = g[i]
        /\ h = [i \in x .. N |-> h[i]]
    <3>1. x \in x .. N  BY <2>2
    <3> HIDE DEF Step
    <3> QED BY <2>2, <3>1
  <2> HIDE DEF h
  <2>5. ASSUME NEW i \in x .. N PROVE Step(h, i) = Step(g, i)
    <3>1. CASE Hits(codes, bits, i) = {}  BY <3>1 DEF After
    <3>2. CASE Hits(codes, bits, i) # {}
      <4> DEFINE j == i + Len(codes[K(i)])
      <4>1. j \in i + 1 .. N  BY <1>4, <2>2, <3>2
      <4> HIDE DEF j
      <4>2. h[j] = g[j]  BY <2>2, <2>4, <4>1
      <4> QED BY <4>2 DEF After, j
    <3> QED BY <3>1, <3>2
  <2>6. \A i \in x .. N : h[i] = Step(h, i)
    <3> HIDE DEF Step
    <3> QED BY <2>2, <2>3, <2>4, <2>5
  <2>7. h = [i \in x .. N |-> Step(h, i)]
    <3> HIDE DEF Step
    <3> QED BY <2>4, <2>6
  <2>8. Solves(h, m + 1)
    <3> HIDE DEF Step
    <3> QED BY <2>7 DEF x
  <2> HIDE DEF Solves
  <2> QED BY <2>8
<1>7. N \in P
  <2> HIDE DEF P
  <2> QED BY <1>1, <1>5, <1>6, NatSetInduction
<1>8. F = [i \in 1 .. N |-> Step(F, i)]
  <2>1. N - N + 1 = 1 /\ N <= N  BY <1>1
  <2> HIDE DEF Step
  <2>2. PICK f : f = [i \in 1 .. N |-> Step(f, i)]  BY <1>1, <1>7, <2>1
  <2> QED BY <2>2 DEF F
<1>9. \A i \in 1 .. N : F[i] = Step(F, i)
  <2> HIDE DEF Step
  <2> QED BY <1>8
<1> QED BY <1>2, <1>3, <1>9 DEF N

\* One leaf, and those behind it.
LEMMA OneBefore ==
    ASSUME NEW k \in Nat, NEW s \in Seq(Nat)
    PROVE  /\ <<k>> \o s \in Seq(Nat) /\ Len(<<k>> \o s) = 1 + Len(s) /\ Len(s) \in Nat
           /\ (<<k>> \o s)[1] = k
           /\ \A i \in 1 .. Len(s) : (<<k>> \o s)[1 + i] = s[i]
<1> DEFINE t == <<k>>
<1>1. t \in Seq(Nat) /\ s \in Seq(Nat) /\ Len(t) = 1 /\ t[1] = k /\ Len(s) \in Nat
    OBVIOUS
<1> HIDE DEF t
<1>2. t \o s \in Seq(Nat) /\ Len(t \o s) = Len(t) + Len(s)
    BY ONLY <1>1, JoinElements, Zenon
<1>3. \A i \in 1 .. Len(t) : (t \o s)[i] = t[i]
    BY ONLY <1>1, JoinElements, Zenon
<1>4. \A i \in 1 .. Len(s) : (t \o s)[Len(t) + i] = s[i]
    BY ONLY <1>1, JoinRest, Zenon
<1>5. 1 \in 1 .. Len(t)
    BY <1>1
<1> QED BY <1>1, <1>2, <1>3, <1>4, <1>5, Zenon DEF t

\* The codes are not empty, and that of the last leaf, EOB, is one of the longest.
LEMMA LeafLengths ==
    ASSUME NEW counts, Complete(counts)
    PROVE  /\ Len(Codes(counts)) = Total(counts) /\ Total(counts) \in Nat \ {0}
           /\ \A k \in 1 .. Total(counts) : Len(Codes(counts)[k]) \in Nat \ {0}
           /\ Len(Codes(counts)[Total(counts)]) = Len(counts)
<1> DEFINE L == Len(counts)
           T == Total(counts)
<1>1. Len(Codes(counts)) = T
    BY CodesAre
<1>2. ASSUME NEW len \in 1 .. L, NEW no \in 1 .. counts[len]
      PROVE  /\ Len(Codes(counts)[CountTo(counts, len - 1) + no]) = len /\ len \in Nat \ {0}
  <2>1. Codes(counts)[CountTo(counts, len - 1) + no] = CodeOf(counts, len, no)  BY CodesAre
  <2> QED BY <2>1, CodeLength
<1>3. ASSUME NEW k \in 1 .. T PROVE Len(Codes(counts)[k]) \in Nat \ {0}
  <2>1. PICK len \in 1 .. L : \E no \in 1 .. counts[len] : k = CountTo(counts, len - 1) + no
      BY LeafOf
  <2>2. PICK no \in 1 .. counts[len] : k = CountTo(counts, len - 1) + no  BY <2>1
  <2>3. Len(Codes(counts)[k]) = len /\ len \in Nat \ {0}  BY <1>2, <2>2
  <2> QED BY <2>3
<1>4. L \in 1 .. L /\ counts[L] \in 1 .. counts[L]
    BY DEF Complete
<1>5. CountTo(counts, L - 1) + counts[L] = T /\ CountTo(counts, L - 1) + counts[L] \in 1 .. T
    BY <1>4, LeafOf
<1>6. Len(Codes(counts)[T]) = L
    BY <1>2, <1>4, <1>5
<1>7. T \in Nat \ {0}
  <2>1. counts \in Seq(Nat) /\ Len(counts) \in Nat  BY DEF Complete
  <2>2. CountTo(counts, Len(counts)) = Total(counts) /\ CountTo(counts, Len(counts)) \in Nat
      BY <2>1, CountStep
  <2> HIDE DEF T
  <2>3. T \in 1 .. T  BY <1>5
  <2> QED BY <2>2, <2>3 DEF T
<1> QED BY <1>1, <1>3, <1>6, <1>7

\* Behind c bits is a leaf with a code of this length, and behind it what comes then.
GoesOn(counts, bits, c, len, leaf) ==
    DecodedFrom(Codes(counts), bits)[c + 1]
        = IF leaf = Total(counts) THEN <<leaf>>
          ELSE <<leaf>> \o DecodedFrom(Codes(counts), bits)[c + len + 1]

\* When the next code is whole, its leaf is the next one; behind EOB is nothing.
LEMMA DecodedNext ==
    ASSUME NEW counts, Complete(counts), NEW bits \in Seq({0, 1}), NEW c \in Nat,
           NEW len, IsNext(counts, bits, c, len),
           NEW no, no = Lead(bits, c, len) - Inner(counts)[len] + 1,
           NEW leaf, leaf = CountTo(counts, len - 1) + no
    PROVE  GoesOn(counts, bits, c, len, leaf)
<1> DEFINE codes == Codes(counts)
           F == DecodedFrom(codes, bits)
<1>1. Hits(codes, bits, c + 1) = {leaf} /\ Len(codes[leaf]) = len
    BY NextLeaf
<1>2. FirstHit(codes, bits, c + 1) = leaf
    BY <1>1 DEF FirstHit
<1>3. /\ c + 1 \in 1 .. Len(bits) + 1 /\ c + 1 + len = c + len + 1
  <2>1. c + len <= Len(bits) /\ len \in 1 .. Len(counts) /\ Len(counts) \in Nat
        /\ Len(bits) \in Nat
      BY DEF IsNext, Complete
  <2> QED BY <2>1
<1>4. /\ Len(codes) = Total(counts)
      /\ \A k \in 1 .. Len(codes) : Len(codes[k]) \in Nat \ {0}
    BY LeafLengths
<1>5. F[c + 1] = After(codes, bits, F, c + 1)
  <2> HIDE DEF codes
  <2> QED BY <1>3, <1>4, DecodedStep
<1> HIDE DEF codes, F
<1>6. After(codes, bits, F, c + 1)
        = IF leaf = Total(counts) THEN <<leaf>> ELSE <<leaf>> \o F[c + len + 1]
    BY <1>1, <1>2, <1>3, <1>4 DEF After
<1> QED BY <1>5, <1>6 DEF codes, F, GoesOn

\* What is decoded are leaves, and EOB takes the bits of the longest codes.
LEMMA DecodedEnds ==
    ASSUME NEW counts, Complete(counts), NEW bits \in Seq({0, 1})
    PROVE  \A i \in 1 .. Len(bits) + 1 :
           LET s == DecodedFrom(Codes(counts), bits)[i]
           IN  /\ s \in Seq(Nat)
               /\ Len(s) # 0 /\ s[Len(s)] = Total(counts) => i + Len(counts) <= Len(bits) + 1
<1> DEFINE codes == Codes(counts)
           F == DecodedFrom(codes, bits)
           N == Len(bits) + 1
           L == Len(counts)
           T == Total(counts)
           Ends(i) == /\ F[i] \in Seq(Nat)
                      /\ Len(F[i]) # 0 /\ F[i][Len(F[i])] = T => i + L <= N
           P == {m \in Nat : m <= N => \A i \in N - m + 1 .. N : Ends(i)}
<1>1. /\ Len(codes) = T /\ T \in Nat \ {0} /\ N \in Nat /\ L \in Nat
      /\ \A k \in 1 .. T : Len(codes[k]) \in Nat \ {0}
      /\ Len(codes[T]) = L
  <2>1. N \in Nat /\ L \in Nat  BY DEF Complete
  <2>2. /\ Len(codes) = T /\ T \in Nat \ {0}
        /\ \A k \in 1 .. T : Len(codes[k]) \in Nat \ {0}
        /\ Len(codes[T]) = L
      BY LeafLengths
  <2> HIDE DEF codes, N, L, T
  <2> QED BY <2>1, <2>2
<1>2. \A i \in 1 .. N : F[i] = After(codes, bits, F, i)
  <2> HIDE DEF codes
  <2> QED BY <1>1, DecodedStep
<1>3. ASSUME NEW i \in 1 .. N, NEW k \in Hits(codes, bits, i)
      PROVE  k \in 1 .. T /\ i + Len(codes[k]) \in i + 1 .. N
  <2>1. k \in 1 .. Len(codes) /\ IsPrefix(codes[k], SubSeq(bits, i, Len(bits)))
      BY DEF Hits
  <2> DEFINE a == Len(codes[k])
             t == SubSeq(bits, i, Len(bits))
  <2>2. k \in 1 .. T /\ a \in Nat \ {0} /\ a <= Len(t)  BY <1>1, <2>1 DEF IsPrefix
  <2>3. Len(t) = N - i  OBVIOUS
  <2> HIDE DEF a, t
  <2>4. a <= N - i /\ N \in Nat /\ i \in Nat  BY <1>1, <2>2, <2>3
  <2> HIDE DEF N
  <2>5. i + a \in i + 1 .. N  BY <2>2, <2>4
  <2> QED BY <2>2, <2>5 DEF a
<1> HIDE DEF F, N, L, T, codes
<1>4. ASSUME NEW i \in 1 .. N, \A j \in i + 1 .. N : Ends(j) PROVE Ends(i)
  <2> DEFINE k == FirstHit(codes, bits, i)
             j == i + Len(codes[k])
             s == F[j]
  <2>1. CASE Hits(codes, bits, i) = {}
    <3>1. F[i] = <<>>  BY <1>2, <2>1 DEF After
    <3> QED BY <3>1
  <2>2. CASE Hits(codes, bits, i) # {}
    <3>1. k \in Hits(codes, bits, i)  BY <2>2 DEF FirstHit
    <3>2. k \in 1 .. T /\ j \in i + 1 .. N /\ k \in Nat  BY <1>1, <1>3, <3>1
    <3>3. F[i] = IF k = T THEN <<k>> ELSE <<k>> \o s
        BY <1>1, <1>2, <2>2 DEF After
    <3>4. CASE k = T
      <4>1. F[i] = <<k>> /\ i + L \in i + 1 .. N
        <5>1. F[i] = <<k>>  BY <3>3, <3>4
        <5>2. Len(codes[k]) = L  BY <1>1, <3>4
        <5> QED BY <3>2, <5>1, <5>2
      <4>2. <<k>> \in Seq(Nat)  BY <3>2
      <4> QED BY <4>1, <4>2
    <3>5. CASE k # T
      <4>1. Ends(j)  BY <1>4, <3>2
      <4>2. s \in Seq(Nat) /\ (Len(s) # 0 /\ s[Len(s)] = T => j + L <= N)  BY <4>1
      <4> DEFINE t == F[i]
      <4>3. t = <<k>> \o s  BY <3>3, <3>5
      <4>4. i \in Nat /\ j \in Nat /\ i < j  BY <1>1, <3>2
      <4> HIDE DEF s, k, j, t
      <4>5. /\ t \in Seq(Nat) /\ Len(t) = 1 + Len(s) /\ Len(s) \in Nat /\ t[1] = k
            /\ \A n \in 1 .. Len(s) : t[1 + n] = s[n]
          BY <3>2, <4>2, <4>3, OneBefore
      <4>6. CASE Len(s) = 0
        <5>1. t[Len(t)] = k  BY <4>5, <4>6
        <5> QED BY <3>5, <4>5, <5>1 DEF t
      <4>7. CASE Len(s) # 0
        <5>1. Len(s) \in 1 .. Len(s)  BY <4>5, <4>7
        <5>2. t[Len(t)] = s[Len(s)]  BY <4>5, <5>1
        <5>3. j + L <= N => i + L <= N  BY <1>1, <4>4
        <5> QED BY <4>2, <4>5, <4>7, <5>2, <5>3 DEF t
      <4> QED BY <4>6, <4>7
    <3> QED BY <3>4, <3>5
  <2> QED BY <2>1, <2>2
<1> HIDE DEF Ends
<1>5. 0 \in P
  <2>1. N - 0 + 1 .. N = {}  BY <1>1
  <2> QED BY <2>1
<1>6. ASSUME NEW m \in Nat, m \in P PROVE m + 1 \in P
  <2> SUFFICES ASSUME m + 1 <= N, NEW i \in N - (m + 1) + 1 .. N PROVE Ends(i)
      OBVIOUS
  <2>1. \A j \in N - m + 1 .. N : Ends(j)
    <3>1. m <= N  BY <1>1
    <3> QED BY <1>6, <3>1
  <2>2. i \in 1 .. N /\ \A j \in i + 1 .. N : j \in N - m + 1 .. N  BY <1>1
  <2> QED BY <1>4, <2>1, <2>2
<1>7. N \in P
  <2> HIDE DEF P
  <2> QED BY <1>1, <1>5, <1>6, NatSetInduction
<1>8. \A i \in 1 .. N : Ends(i)
  <2>1. N <= N /\ N - N + 1 = 1  BY <1>1
  <2> QED BY <1>7, <2>1
<1> QED BY <1>8 DEF Ends, F, N, L, T, codes

-----------------------------------------------------------------------------
(* The bits of the bytes.                                                    *)

\* The bytes before the codes, and the bits of a number of bytes behind k.
Before(input) == 1 + input[2] + Total(Counts(input))
BitsFrom(input, k, n) == FlattenSeq([i \in 1 .. n |-> BitsOf(input[k + i])])

\* How many bytes are enough.
LEMMA RoundUp ==
    ASSUME NEW x \in Nat \ {0}, NEW g \in Nat \ {0}
    PROVE  /\ (x + g - 1) \div g \in Nat
           /\ \A k \in Nat : (x + g - 1) \div g <= k <=> x <= g * k
<1> DEFINE a == x + g - 1
           q == a \div g
<1>1. a \in Nat /\ a = x + g - 1
    OBVIOUS
<1> HIDE DEF a
<1>2. q \in Nat
    BY <1>1, Division
<1>3. ASSUME NEW k \in Nat PROVE q <= k <=> x <= g * k
  <2>1. k + 1 \in Nat  OBVIOUS
  <2>2. (k + 1) * g <= a <=> k + 1 <= q  BY <1>1, <2>1, AboveQuotient
  <2>3. (k + 1) * g = g * k + g /\ g * k \in Nat
    <3>1. k * g = g * k /\ k * g \in Nat  BY ProductType
    <3> QED BY <3>1
  <2> DEFINE u == g * k
             w == (k + 1) * g
  <2> HIDE DEF u, w, q
  <2>4. u \in Nat /\ w = u + g /\ (w <= a <=> k + 1 <= q)  BY <2>2, <2>3 DEF u, w
  <2>5. q <= k <=> x <= u  BY <1>1, <1>2, <2>4
  <2> QED BY <2>5 DEF u
<1> QED BY <1>2, <1>3 DEF q, a

\* Every bit is one of a byte.
LEMMA BitOfByte ==
    ASSUME NEW g \in Nat \ {0}, NEW n \in Nat, NEW x \in 1 .. g * n
    PROVE  \E i \in 1 .. n : \E j \in 1 .. g : x = g * (i - 1) + j
<1> DEFINE q == (x - 1) \div g
           r == (x - 1) % g
<1>1. x - 1 \in Nat /\ g * n \in Nat /\ x <= g * n
    BY ProductType
<1>2. q \in Nat /\ r \in Nat /\ r < g /\ x - 1 = g * q + r
    BY <1>1, Division
<1>3. \A m \in Nat : m * g <= x - 1 <=> m <= q
    BY <1>1, AboveQuotient
<1> HIDE DEF q, r
<1>4. q < n
  <2>1. n * g = g * n  BY ProductType
  <2>2. ~ (n * g <= x - 1)  BY <1>1, <2>1
  <2> QED BY <1>2, <1>3, <2>2
<1>5. q + 1 \in 1 .. n /\ r + 1 \in 1 .. g /\ (q + 1) - 1 = q
    BY <1>2, <1>4
<1>6. x = g * ((q + 1) - 1) + (r + 1)
  <2>1. g * q \in Nat  BY <1>2, ProductType
  <2> QED BY <1>2, <1>5, <2>1
<1> QED BY <1>5, <1>6

\* The bits of bytes, one byte behind the other.
LEMMA BitsOfBytes ==
    ASSUME ByteBits \in Nat \ {0}, NEW input \in Seq(Nat), NEW k \in Nat, NEW n \in Nat,
           k + n <= Len(input)
    PROVE  /\ BitsFrom(input, k, n) \in Seq({0, 1})
           /\ Len(BitsFrom(input, k, n)) = ByteBits * n
           /\ \A i \in 1 .. n : \A j \in 1 .. ByteBits :
                BitsFrom(input, k, n)[ByteBits * (i - 1) + j] = BitsOf(input[k + i])[j]
<1> DEFINE seqs == [i \in 1 .. n |-> BitsOf(input[k + i])]
           p == [i \in 0 .. n |-> ByteBits * i]
<1>1. ASSUME NEW byte \in Nat
      PROVE  BitsOf(byte) \in Seq({0, 1}) /\ Len(BitsOf(byte)) = ByteBits
  <2> DEFINE bit(i) == (byte \div 2 ^ (ByteBits - i)) % 2
  <2>1. ASSUME NEW i \in 1 .. ByteBits PROVE bit(i) \in {0, 1}
    <3>1. ByteBits - i \in Nat  OBVIOUS
    <3>2. 2 ^ (ByteBits - i) \in Nat \ {0}  BY <3>1, PowerGrows
    <3> DEFINE d == 2 ^ (ByteBits - i)
               e == byte \div d
    <3>3. e \in Nat  BY <3>2, Division
    <3> HIDE DEF e
    <3>4. e % 2 \in {0, 1}  BY <3>3
    <3> QED BY <3>4 DEF e
  <2> HIDE DEF bit
  <2>2. [i \in 1 .. ByteBits |-> bit(i)] \in Seq({0, 1})
        /\ Len([i \in 1 .. ByteBits |-> bit(i)]) = ByteBits
      BY <2>1
  <2> QED BY <2>2 DEF BitsOf, bit
<1>2. \A i \in 1 .. n : input[k + i] \in Nat
  <2>1. \A i \in 1 .. n : k + i \in 1 .. Len(input)  OBVIOUS
  <2> QED BY <2>1
<1>3. \A i \in 1 .. n : BitsOf(input[k + i]) \in Seq({0, 1})
      /\ Len(BitsOf(input[k + i])) = ByteBits
    BY <1>1, <1>2
<1>4. seqs \in Seq(Seq({0, 1})) /\ Len(seqs) = n
      /\ \A i \in 1 .. n : seqs[i] = BitsOf(input[k + i])
  <2> DEFINE b(i) == BitsOf(input[k + i])
  <2> HIDE DEF b
  <2>1. \A i \in 1 .. n : b(i) \in Seq({0, 1})  BY <1>3 DEF b
  <2>2. LET s == [i \in 1 .. n |-> b(i)]
        IN  s \in Seq(Seq({0, 1})) /\ Len(s) = n /\ \A i \in 1 .. n : s[i] = b(i)
      BY <2>1
  <2> QED BY <2>2 DEF b
<1>5. ASSUME NEW i \in 1 .. n PROVE p[i] = p[i - 1] + ByteBits
  <2>1. i \in 0 .. n /\ i - 1 \in 0 .. n /\ i - 1 \in Nat /\ i = (i - 1) + 1  OBVIOUS
  <2>2. p[i] = ByteBits * i /\ p[i - 1] = ByteBits * (i - 1)  BY <2>1
  <2>3. ByteBits * i = ByteBits * (i - 1) + ByteBits  BY <2>1
  <2> QED BY <2>2, <2>3
<1>6. p[0] = 0 /\ p[n] = ByteBits * n
  <2>1. ByteBits * 0 = 0 /\ 0 \in 0 .. n /\ n \in 0 .. n  OBVIOUS
  <2> QED BY <2>1
<1>7. \A i \in 1 .. n : p[i - 1] = ByteBits * (i - 1)
  <2>1. \A i \in 1 .. n : i - 1 \in 0 .. n  OBVIOUS
  <2> QED BY <2>1
<1> HIDE DEF seqs, p
<1>8. \A i \in 1 .. Len(seqs) : p[i] = p[i - 1] + Len(seqs[i])
    BY <1>3, <1>4, <1>5
<1>9. /\ FlattenSeq(seqs) \in Seq({0, 1})
      /\ Len(FlattenSeq(seqs)) = p[Len(seqs)]
      /\ Placed(seqs, p, FlattenSeq(seqs))
    BY ONLY <1>4, <1>6, <1>8, FlattenIs
<1>10. ASSUME NEW i \in 1 .. n, NEW j \in 1 .. ByteBits
       PROVE  FlattenSeq(seqs)[ByteBits * (i - 1) + j] = BitsOf(input[k + i])[j]
  <2>1. FlattenSeq(seqs)[p[i - 1] + j] = seqs[i][j]  BY <1>3, <1>4, <1>9 DEF Placed
  <2> QED BY <1>4, <1>7, <2>1
<1> QED BY <1>4, <1>6, <1>9, <1>10 DEF BitsFrom, seqs

\* The bits of later bytes are later bits.
BitsLater(input, k, n) ==
    \A a, m \in Nat : a + m <= n => \A x \in 1 .. ByteBits * m :
        BitsFrom(input, k + a, m)[x] = BitsFrom(input, k, n)[ByteBits * a + x]

\* They are, wherever one starts to read.
LEMMA LaterBits ==
    ASSUME ByteBits \in Nat \ {0}, NEW input \in Seq(Nat), NEW k \in Nat, NEW n \in Nat,
           k + n <= Len(input)
    PROVE  BitsLater(input, k, n)
<1> USE DEF BitsLater
<1> TAKE a \in Nat, m \in Nat
<1> HAVE a + m <= n
<1> TAKE x \in 1 .. ByteBits * m
<1>1. Len(input) \in Nat /\ k + a \in Nat /\ (k + a) + m <= Len(input)
    OBVIOUS
<1>2. PICK i \in 1 .. m : \E j \in 1 .. ByteBits : x = ByteBits * (i - 1) + j
    BY BitOfByte
<1>3. PICK j \in 1 .. ByteBits : x = ByteBits * (i - 1) + j
    BY <1>2
<1>4. BitsFrom(input, k + a, m)[x] = BitsOf(input[(k + a) + i])[j]
  <2> DEFINE c == k + a
  <2>1. c \in Nat /\ c + m <= Len(input)  BY <1>1
  <2> HIDE DEF c
  <2>2. \A y \in 1 .. m : \A z \in 1 .. ByteBits :
            BitsFrom(input, c, m)[ByteBits * (y - 1) + z] = BitsOf(input[c + y])[z]
      BY <2>1, BitsOfBytes, ZenonT(60)
  <2>3. BitsFrom(input, c, m)[ByteBits * (i - 1) + j] = BitsOf(input[c + i])[j]
      BY <2>2, Zenon
  <2> QED BY <1>3, <2>3, Zenon DEF c
<1>5. a + i \in 1 .. n /\ k + (a + i) = (k + a) + i
    OBVIOUS
<1>6. BitsFrom(input, k, n)[ByteBits * ((a + i) - 1) + j] = BitsOf(input[k + (a + i)])[j]
  <2>1. \A y \in 1 .. n : \A z \in 1 .. ByteBits :
            BitsFrom(input, k, n)[ByteBits * (y - 1) + z] = BitsOf(input[k + y])[z]
      BY BitsOfBytes, ZenonT(60)
  <2> DEFINE e == a + i
  <2>2. e \in 1 .. n  BY <1>5
  <2> HIDE DEF e
  <2>3. BitsFrom(input, k, n)[ByteBits * (e - 1) + j] = BitsOf(input[k + e])[j]
      BY <2>1, <2>2, Zenon
  <2> QED BY <2>3 DEF e
<1>7. ByteBits * ((a + i) - 1) + j = ByteBits * a + x
  <2>1. i - 1 \in Nat /\ (a + i) - 1 = a + (i - 1)  OBVIOUS
  <2>2. ByteBits * (a + (i - 1)) = ByteBits * a + ByteBits * (i - 1)  BY <2>1
  <2>3. ByteBits * a \in Nat /\ ByteBits * (i - 1) \in Nat  BY <2>1, ProductType
  <2> QED BY <1>3, <2>1, <2>2, <2>3
<1> QED BY <1>4, <1>5, <1>6, <1>7

\* The bits that are decoded.
Taken == ByteBits * (pos - Before(packed)) - valid
\* The valid bits are the next, up to the bytes that are read.
Buffered ==
    /\ Before(packed) \in Nat /\ pos \in Before(packed) .. Len(packed)
    /\ bitbuf \in Seq({0, 1})
    /\ Taken \in Nat
    /\ \A j \in 1 .. valid : bitbuf[j] = Body(packed)[Taken + j]

\* As many bits as all bytes behind the header have.
LEMMA BodyIs ==
    ASSUME ByteBits \in Nat \ {0}, packed \in Seq(Nat), Before(packed) \in 0 .. Len(packed)
    PROVE  /\ Body(packed) = BitsFrom(packed, Before(packed), Len(packed) - Before(packed))
           /\ Body(packed) \in Seq({0, 1})
           /\ Len(Body(packed)) = ByteBits * (Len(packed) - Before(packed))
<1>1. Body(packed) = BitsFrom(packed, Before(packed), Len(packed) - Before(packed))
    BY DEF Body, BitsFrom, Before
<1> DEFINE b == Before(packed)
           n == Len(packed) - b
<1>2. b \in Nat /\ n \in Nat /\ b + n <= Len(packed)
  <2> HIDE DEF b
  <2>1. b \in 0 .. Len(packed) /\ Len(packed) \in Nat  BY DEF b
  <2> QED BY <2>1
<1> HIDE DEF b, n
<1>3. BitsFrom(packed, b, n) \in Seq({0, 1}) /\ Len(BitsFrom(packed, b, n)) = ByteBits * n
    BY ONLY ByteBits \in Nat \ {0}, packed \in Seq(Nat), <1>2, BitsOfBytes, Zenon
<1> QED BY <1>1, <1>3 DEF b, n

\* What look_bits makes of the file is what the format says: the bits that are
\* looked at are there when the text has them, and they are the next ones.
LEMMA LookedIs ==
    ASSUME ByteBits \in Nat \ {0}, packed \in Seq(Nat), Buffered, NEW len \in Nat
    PROVE  /\ Body(packed) \in Seq({0, 1}) /\ Needed(len) \in Nat
           /\ Enough(len) <=> Taken + len <= Len(Body(packed))
           /\ Enough(len) =>
                /\ Peek(len) = Lead(Body(packed), Taken, len)
                /\ Looked(len) \in Seq({0, 1})
                /\ len <= Len(Looked(len))
                /\ Len(Looked(len)) = valid + ByteBits * Needed(len)
                /\ Taken + Len(Looked(len)) <= Len(Body(packed))
                /\ \A x \in 1 .. Len(Looked(len)) : Looked(len)[x] = Body(packed)[Taken + x]
<1> DEFINE b == Before(packed)
           n == Len(packed) - b
           a == pos - b
           m == Needed(len)
           v == valid
           s == Body(packed)
           T == Taken
<1>1. /\ b \in Nat /\ n \in Nat /\ a \in Nat /\ pos = b + a /\ Len(packed) = b + n /\ a <= n
      /\ b \in 0 .. Len(packed) /\ pos \in Nat /\ Len(packed) \in Nat
  <2> HIDE DEF b
  <2>1. b \in Nat /\ pos \in b .. Len(packed) /\ Len(packed) \in Nat  BY DEF b, Buffered
  <2> QED BY <2>1
<1>2. /\ v \in Nat /\ T \in Nat /\ bitbuf \in Seq({0, 1})
         /\ \A j \in 1 .. v : bitbuf[j] = s[T + j]
    BY DEF Buffered, valid
<1>3. T = ByteBits * a - v
    BY DEF Taken
<1>4. s = BitsFrom(packed, b, n) /\ s \in Seq({0, 1}) /\ Len(s) = ByteBits * n
    BY <1>1, BodyIs
<1>5. ByteBits * a \in Nat /\ ByteBits * n \in Nat
    BY <1>1, ProductType
<1>6. /\ m \in Nat
      /\ len <= v => m = 0
      /\ ~ (len <= v) => \A k \in Nat : m <= k <=> len - v <= ByteBits * k
  <2> HIDE DEF v, m
  <2>1. m = IF v >= len THEN 0 ELSE (len - v + ByteBits - 1) \div ByteBits  BY DEF m, v, Needed
  <2>2. CASE len <= v  BY <1>2, <2>1, <2>2
  <2>3. CASE ~ (len <= v)
    <3> DEFINE x == len - v
    <3>1. x \in Nat \ {0}  BY <1>2, <2>3
    <3>2. m = (x + ByteBits - 1) \div ByteBits  BY <1>2, <2>1, <2>3
    <3> HIDE DEF x
    <3>3. m \in Nat /\ \A k \in Nat : m <= k <=> x <= ByteBits * k  BY <3>1, <3>2, RoundUp
    <3> QED BY <2>3, <3>3 DEF x
  <2> QED BY <2>2, <2>3
<1> HIDE DEF b, n, a, m, v, s, T
<1>7. len <= v + ByteBits * m /\ ByteBits * m \in Nat
  <2>1. ByteBits * m \in Nat  BY <1>6, ProductType
  <2>2. CASE len <= v  BY <1>2, <2>1, <2>2
  <2>3. CASE ~ (len <= v)
    <3>1. m <= m <=> len - v <= ByteBits * m  BY <1>6, <2>3, Zenon
    <3>2. len - v <= ByteBits * m  BY <1>6, <3>1
    <3> DEFINE u == ByteBits * m
    <3> HIDE DEF u
    <3>3. u \in Nat /\ len - v <= u  BY <2>1, <3>2 DEF u
    <3>4. len <= v + u  BY <1>2, <3>3
    <3> QED BY <2>1, <3>4 DEF u
  <2> QED BY <2>2, <2>3
<1>8. ByteBits * n = ByteBits * a + ByteBits * (n - a) /\ n - a \in Nat
      /\ ByteBits * (n - a) \in Nat
  <2>1. n - a \in Nat /\ n = a + (n - a)  BY <1>1
  <2> DEFINE y == n - a
  <2> HIDE DEF y
  <2>2. y \in Nat /\ n = a + y  BY <2>1 DEF y
  <2>3. ByteBits * (a + y) = ByteBits * a + ByteBits * y /\ ByteBits * y \in Nat
      BY <1>1, <2>2, ProductType
  <2> QED BY <2>2, <2>3 DEF y
<1>9. Enough(len) <=> m <= n - a
    BY <1>1, <1>6 DEF Enough, m
<1> DEFINE A == ByteBits * a
           W == ByteBits * (n - a)
           M == ByteBits * m
<1> HIDE DEF A, W, M
<1>10. /\ A \in Nat /\ W \in Nat /\ M \in Nat /\ Len(s) = A + W /\ T = A - v /\ len <= v + M
    BY <1>3, <1>4, <1>5, <1>7, <1>8 DEF A, W, M
<1>11. Enough(len) <=> T + len <= Len(s)
  <2>1. CASE len <= v
    <3>1. m <= n - a  BY <1>6, <1>8, <2>1
    <3>2. T + len <= Len(s)  BY <1>2, <1>10, <2>1
    <3> QED BY <1>9, <3>1, <3>2
  <2>2. CASE ~ (len <= v)
    <3>1. m <= n - a <=> len - v <= W  BY <1>6, <1>8, <2>2, Zenon DEF W
    <3>2. len - v <= W <=> T + len <= Len(s)  BY <1>2, <1>10
    <3> QED BY <1>9, <3>1, <3>2
  <2> QED BY <2>1, <2>2
<1>12. ASSUME Enough(len)
       PROVE  /\ Looked(len) \in Seq({0, 1}) /\ Len(Looked(len)) = v + M
              /\ T + (v + M) <= Len(s)
              /\ \A x \in 1 .. v + M : Looked(len)[x] = s[T + x]
  <2> DEFINE t == BitsFrom(packed, pos, m)
  <2>1. m <= n - a /\ pos + m <= Len(packed) /\ a + m <= n  BY <1>1, <1>6, <1>9, <1>12
  <2>2. t \in Seq({0, 1}) /\ Len(t) = M
      BY <1>1, <1>6, <2>1, BitsOfBytes DEF M
  <2>3. ASSUME NEW x \in 1 .. M PROVE t[x] = s[A + x]
    <3>1. x \in 1 .. ByteBits * m  BY DEF M
    <3>2. b \in Nat /\ n \in Nat /\ a \in Nat /\ m \in Nat /\ b + n <= Len(packed) /\ a + m <= n
        BY <1>1, <1>6, <2>1
    <3>3. BitsLater(packed, b, n)  BY <3>2, LaterBits, Zenon
    <3>4. BitsFrom(packed, b + a, m)[x] = BitsFrom(packed, b, n)[ByteBits * a + x]
        BY <3>1, <3>2, <3>3, Zenon DEF BitsLater
    <3> QED BY <1>1, <1>4, <3>4 DEF A
  <2>4. Looked(len) = bitbuf \o t  BY DEF Looked, BitsFrom, m, Byte
  <2>5. M <= W
    <3> DEFINE y == n - a
    <3> HIDE DEF y
    <3>1. y \in Nat /\ m <= y /\ ByteBits \in Nat  BY <1>8, <2>1 DEF y
    <3>2. m * ByteBits <= y * ByteBits  BY <1>6, <3>1, ProductType
    <3>3. m * ByteBits = ByteBits * m /\ y * ByteBits = ByteBits * y  BY <1>6, <3>1, ProductType
    <3>4. ByteBits * m <= ByteBits * y  BY <3>2, <3>3
    <3> QED BY <3>4 DEF M, W, y
  <2>6. T + (v + M) <= Len(s)  BY <1>2, <1>10, <2>5
  <2> HIDE DEF t
  <2>12. bitbuf \in Seq({0, 1}) /\ t \in Seq({0, 1})  BY <1>2, <2>2
  <2>7. bitbuf \o t \in Seq({0, 1}) /\ Len(bitbuf \o t) = Len(bitbuf) + Len(t)
      BY ONLY <2>12, JoinElements, Zenon
  <2>8. \A i \in 1 .. Len(bitbuf) : (bitbuf \o t)[i] = bitbuf[i]
      BY ONLY <2>12, JoinElements, Zenon
  <2>9. \A i \in 1 .. Len(t) : (bitbuf \o t)[Len(bitbuf) + i] = t[i]
      BY ONLY <2>12, JoinRest, Zenon
  <2>10. Len(bitbuf) = v  BY DEF v, valid
  <2>11. ASSUME NEW x \in 1 .. v + M PROVE Looked(len)[x] = s[T + x]
    <3>1. CASE x \in 1 .. v  BY <1>2, <2>4, <2>8, <2>10, <3>1
    <3>2. CASE x \notin 1 .. v
      <4> DEFINE y == x - v
      <4>1. y \in 1 .. M /\ x = v + y /\ T + x = A + y  BY <1>2, <1>10, <3>2
      <4> HIDE DEF y
      <4>2. Looked(len)[v + y] = t[y]  BY <2>2, <2>4, <2>9, <2>10, <4>1, Zenon
      <4> QED BY <2>3, <4>1, <4>2, Zenon
    <3> QED BY <3>1, <3>2
  <2> QED BY <2>2, <2>4, <2>6, <2>7, <2>10, <2>11
<1>13. ASSUME Enough(len) PROVE Peek(len) = Lead(s, T, len)
  <2> DEFINE k == Looked(len)
  <2>1. k \in Seq({0, 1}) /\ Len(k) = v + M /\ \A x \in 1 .. v + M : k[x] = s[T + x]
      BY <1>12, <1>13
  <2>2. T + len <= Len(s)  BY <1>11, <1>13
  <2> HIDE DEF k
  <2>3. SubSeq(k, 1, len) = SubSeq(s, T + 1, T + len)
    <3> DEFINE c == SubSeq(k, 1, len)
               d == SubSeq(s, T + 1, T + len)
    <3>1. c \in Seq({0, 1}) /\ Len(c) = len /\ \A i \in 1 .. len : c[i] = k[i]
        BY <1>2, <1>10, <2>1
    <3>2. d \in Seq({0, 1}) /\ Len(d) = len /\ \A i \in 1 .. len : d[i] = s[T + i]
        BY <1>2, <1>4, <2>2
    <3>3. \A i \in 1 .. len : i \in 1 .. v + M  BY <1>2, <1>10
    <3> HIDE DEF c, d
    <3>4. \A i \in 1 .. len : c[i] = d[i]  BY <2>1, <3>1, <3>2, <3>3
    <3>5. c = [i \in 1 .. len |-> c[i]] /\ d = [i \in 1 .. len |-> d[i]]  BY <3>1, <3>2
    <3>6. c = d  BY <3>4, <3>5
    <3> QED BY <3>6 DEF c, d
  <2> QED BY <2>3 DEF Peek, Lead, k
<1> QED BY <1>4, <1>6, <1>10, <1>11, <1>12, <1>13 DEF s, m, T, v, M

-----------------------------------------------------------------------------
(* The inductive invariant.                                                  *)

\* What the rest of the text is decoded to, from a bit on.
Rest(i) == DecodedFrom(Codes(Counts(packed)), Body(packed))[i]

\* The lengths are read and right.
Started ==
    /\ Len(packed) >= 2
    /\ origLen = packed[1] /\ maxLen = packed[2]
    /\ maxLen \in 1 .. MaxBitLen

\* Nothing is read.
LengthInv ==
    /\ pos = 0
    /\ leaves = <<>> /\ maxLeaves = 1 /\ literal = <<>>

\* The numbers of leaves so far leave an inner node on each level, and max_leaves is one
\* less than there can be leaves on the next.
LeavesInv ==
    /\ Started
    /\ pos = 2 + Len(leaves)
    /\ leaves \in Seq(Nat)
    /\ Len(leaves) < maxLen
    /\ \A i \in 1 .. Len(leaves) : leaves[i] = packed[2 + i] /\ Inner(leaves)[i] >= 1
    /\ maxLeaves = 2 * Inner(leaves)[Len(leaves)] - 1
    /\ literal = <<>>

\* All leaves are read: no level has too many, and there is room for the literals.
TreeInv ==
    /\ Started
    /\ 2 + maxLen <= Len(packed)
    /\ \A i \in 1 .. maxLen - 1 : Inner(Counts(packed))[i] >= 1
    /\ Inner(Counts(packed))[maxLen] >= 0
    /\ Total(Counts(packed)) - 1 <= Literals
    /\ literal \in Seq(Nat)
    /\ \A i \in 1 .. Len(literal) : literal[i] = packed[2 + maxLen + i]

\* One of the two leaves that the last number does not count is counted by now.
LiteralsInv ==
    /\ TreeInv
    /\ leaves = [Counts(packed) EXCEPT ![maxLen] = @ - 1]
    /\ pos = 2 + maxLen + Len(literal) /\ pos <= Len(packed)
    /\ Len(literal) <= Total(Counts(packed)) - 1

\* The lengths a code can have, by the nodes of the levels, when these bits are
\* peeked.
Lengths(counts, peek, b) ==
    {len \in 1 .. peek :
        /\ Inner(counts)[len] <= b \div 2 ^ (peek - len)
        /\ b \div 2 ^ (peek - (len - 1)) < Inner(counts)[len - 1]}
\* That table: what prefix_len is for each number that can be peeked.
PrefixTable(counts, peek) ==
    [b \in 0 .. 2 ^ peek - 1 |->
        IF Lengths(counts, peek, b) = {} THEN 0
        ELSE CHOOSE len \in Lengths(counts, peek, b) : TRUE]

\* The tables are those of the tree, which is complete.
TablesInv ==
    /\ TreeInv
    /\ Inner(Counts(packed))[maxLen] = 0
    /\ leaves = Counts(packed)
    /\ Len(literal) = Total(Counts(packed)) - 1
    /\ parents = [len \in 1 .. maxLen |-> Inner(Counts(packed))[len]]
    /\ litBase = [len \in 1 .. maxLen |->
                     CountTo(Counts(packed), len - 1) - Inner(Counts(packed))[len]]
    /\ prefixLen = PrefixTable(Counts(packed), Least(maxLen, MaxPeek))

\* The rest of the text is what the bits behind those taken are decoded to.
StreamInv ==
    /\ Buffered
    /\ Len(DecodedFile(packed)) = Len(unpacked) + Len(Rest(Taken + 1))
    /\ \A i \in 1 .. Len(Rest(Taken + 1)) :
            DecodedFile(packed)[Len(unpacked) + i] = Rest(Taken + 1)[i]

\* What is put out are the literals of the leaves, none of which was EOB.
OutputInv ==
    /\ unpacked \in Seq(Nat) /\ Len(unpacked) <= Len(DecodedFile(packed))
    /\ \A i \in 1 .. Len(unpacked) :
        /\ DecodedFile(packed)[i] \in 1 .. Total(Counts(packed)) - 1
        /\ unpacked[i] = LiteralsOf(packed)[DecodedFile(packed)[i]]

\* Each stage knows what the header says so far, and each refusal has its reason in the
\* file: an inner node missing or left, no room for the literals, or an end too early.
IInv ==
    /\ packed \in PackFiles
    /\ stage \in {"length", "leaves", "literals", "decode", "done", "error"}
    /\ stage \in {"length", "leaves", "literals"} => unpacked = <<>> /\ bitbuf = <<>>
    /\ stage = "length" => LengthInv
    /\ stage = "leaves" => LeavesInv
    /\ stage = "literals" => LiteralsInv
    /\ stage = "decode" => TablesInv /\ StreamInv /\ OutputInv
    /\ stage = "done" => Good(packed) /\ OutputInv
    /\ stage = "error" => ~Good(packed)

-----------------------------------------------------------------------------
(* The tables find the next code.                                            *)

\* What the numbers of the leaves in the header are.
LEMMA CountsAre ==
    ASSUME packed \in Seq(Nat), maxLen = packed[2], maxLen \in Nat \ {0},
           2 + maxLen <= Len(packed)
    PROVE  /\ Counts(packed) \in Seq(Nat) /\ Len(Counts(packed)) = maxLen
           /\ \A i \in 1 .. maxLen :
                Counts(packed)[i] = packed[2 + i] + (IF i = maxLen THEN 2 ELSE 0)
                /\ packed[2 + i] \in Nat
           /\ Counts(packed)[maxLen] >= 2
           /\ Total(Counts(packed)) \in Nat /\ Total(Counts(packed)) >= 2
<1> DEFINE c(i) == packed[2 + i] + (IF i = maxLen THEN 2 ELSE 0)
           s == [i \in 1 .. maxLen |-> c(i)]
<1>7. maxLen \in Nat \ {0} /\ \A i \in 1 .. Len(packed) : packed[i] \in Nat
    OBVIOUS
<1>1. ASSUME NEW i \in 1 .. maxLen
      PROVE  packed[2 + i] \in Nat /\ c(i) \in Nat /\ (i = maxLen => c(i) >= 2)
  <2>1. 2 + i \in 1 .. Len(packed)  OBVIOUS
  <2> DEFINE b == packed[2 + i]
  <2>2. b \in Nat  BY <1>7, <2>1, Zenon
  <2> HIDE DEF b
  <2>3. b + (IF i = maxLen THEN 2 ELSE 0) \in Nat
        /\ (i = maxLen => b + (IF i = maxLen THEN 2 ELSE 0) >= 2)
      BY <2>2
  <2> QED BY <2>2, <2>3 DEF b
<1>2. Counts(packed) = s
    BY DEF Counts
<1>3. s \in Seq(Nat) /\ Len(s) = maxLen /\ \A i \in 1 .. maxLen : s[i] = c(i)
  <2> HIDE DEF c
  <2> QED BY ONLY <1>1, <1>7
<1>4. maxLen \in 1 .. maxLen
    OBVIOUS
<1> HIDE DEF s
<1>5. s[maxLen] >= 2
    BY <1>1, <1>3, <1>4
<1>6. Total(s) \in Nat /\ Total(s) >= 2
  <2>1. /\ CountTo(s, Len(s)) = Total(s)
        /\ \A n \in 0 .. Len(s) : CountTo(s, n) \in Nat
        /\ \A n \in 1 .. Len(s) : CountTo(s, n) = CountTo(s, n - 1) + s[n]
      BY <1>3, CountStep
  <2>2. maxLen \in 0 .. Len(s) /\ maxLen - 1 \in 0 .. Len(s) /\ maxLen \in 1 .. Len(s)
      BY ONLY <1>3, <1>7
  <2>3. CountTo(s, maxLen) = CountTo(s, maxLen - 1) + s[maxLen]
        /\ CountTo(s, maxLen - 1) \in Nat
        /\ Total(s) = CountTo(s, maxLen) /\ s[maxLen] \in Nat
      BY ONLY <1>3, <1>4, <2>1, <2>2
  <2> QED BY ONLY <1>5, <2>3
<1> QED BY <1>1, <1>2, <1>3, <1>5, <1>6

\* The tree of a file whose tables are built.
LEMMA TreeIs ==
    ASSUME PackParameters, packed \in PackFiles, TablesInv
    PROVE  /\ packed \in Seq(Nat) /\ ByteBits \in Nat \ {0}
           /\ Complete(Counts(packed)) /\ Counts(packed) \in Seq(Nat)
              /\ Len(Counts(packed)) = maxLen
           /\ maxLen \in Nat \ {0} /\ Least(maxLen, MaxPeek) \in 1 .. maxLen
           /\ Total(Counts(packed)) \in Nat /\ Total(Counts(packed)) >= 2
           /\ Before(packed) = 1 + maxLen + Total(Counts(packed)) /\ Before(packed) \in Nat
<1>1. packed \in Seq(Nat) /\ ByteBits \in Nat \ {0} /\ MaxBitLen \in Nat \ {0}
      /\ MaxPeek \in Nat \ {0}
    BY DEF PackParameters
<1>2. maxLen \in Nat \ {0} /\ maxLen = packed[2] /\ 2 + maxLen <= Len(packed)
    BY <1>1, SMTT(20) DEF TablesInv, TreeInv, Started
<1>3. /\ Counts(packed) \in Seq(Nat) /\ Len(Counts(packed)) = maxLen
         /\ Counts(packed)[maxLen] >= 2
      /\ Total(Counts(packed)) \in Nat /\ Total(Counts(packed)) >= 2
    BY <1>1, <1>2, CountsAre
<1>4. Inner(Counts(packed))[maxLen] = 0
    BY DEF TablesInv
<1>5. Complete(Counts(packed))
    BY <1>2, <1>3, <1>4 DEF Complete
<1>6. Least(maxLen, MaxPeek) \in 1 .. maxLen
    BY <1>1, <1>2 DEF Least
<1>7. Before(packed) = 1 + maxLen + Total(Counts(packed)) /\ Before(packed) \in Nat
    BY <1>2, <1>3 DEF Before
<1> QED BY <1>1, <1>2, <1>3, <1>5, <1>6, <1>7

\* The code that starts behind the bits taken.
Next1(len) == IsNext(Counts(packed), Body(packed), Taken, len)

\* The table has the length of the next code, when it is one of the short ones.
LEMMA ShortCode ==
    ASSUME PackParameters, packed \in PackFiles, TablesInv, Buffered,
           NEW peek, peek = Least(maxLen, MaxPeek), Enough(peek)
    PROVE  /\ prefixLen[Peek(peek)] \in 0 .. peek
           /\ prefixLen[Peek(peek)] # 0 => Next1(prefixLen[Peek(peek)])
           /\ prefixLen[Peek(peek)] = 0 => \A n \in 1 .. peek : ~ Next1(n)
<1> DEFINE r == Inner(Counts(packed))
           bits == Body(packed)
           c == Taken
           v(n) == Lead(bits, c, n)
           b == Peek(peek)
           lens == {len \in 1 .. peek : /\ r[len] <= b \div 2 ^ (peek - len)
                                        /\ b \div 2 ^ (peek - (len - 1)) < r[len - 1]}
<1>1. /\ packed \in Seq(Nat) /\ ByteBits \in Nat \ {0} /\ peek \in 1 .. maxLen /\ maxLen \in Nat
      /\ Len(Counts(packed)) = maxLen /\ peek \in Nat
    BY TreeIs
<1>2. c \in Nat
    BY DEF Buffered
<1>3. bits \in Seq({0, 1}) /\ c + peek <= Len(bits) /\ b = v(peek)
    BY <1>1, LookedIs
<1>4. b \in 0 .. 2 ^ peek - 1
  <2>1. c <= Len(bits) /\ Len(bits) \in Nat  BY <1>1, <1>2, <1>3
  <2>2. v(peek) \in 0 .. 2 ^ peek - 1  BY <1>1, <1>2, <1>3, <2>1, LeadStep
  <2> QED BY <1>3, <2>2
<1>5. \A m \in 0 .. peek : v(m) = b \div 2 ^ (peek - m)
    BY <1>1, <1>2, <1>3, LeadQuotient
<1>6. prefixLen[b] = IF lens = {} THEN 0 ELSE CHOOSE len \in lens : TRUE
  <2> DEFINE ls(x) == Lengths(Counts(packed), peek, x)
             e(x) == IF ls(x) = {} THEN 0 ELSE CHOOSE len \in ls(x) : TRUE
  <2>1. prefixLen = [x \in 0 .. 2 ^ peek - 1 |-> e(x)]  BY DEF TablesInv, PrefixTable
  <2>2. ls(b) = lens  BY DEF Lengths
  <2> HIDE DEF e, ls, lens, b
  <2>3. prefixLen[b] = e(b)  BY <1>4, <2>1
  <2> QED BY <2>2, <2>3 DEF e
<1> HIDE DEF b, c, bits, r, v
<1>7. \A len \in 1 .. peek : len \in lens <=> r[len] <= v(len) /\ v(len - 1) < r[len - 1]
  <2>1. \A len \in 1 .. peek : len \in 0 .. peek /\ len - 1 \in 0 .. peek  BY <1>1
  <2> QED BY <1>5, <2>1
<1>8. \A len \in 1 .. peek : Next1(len) <=> len \in lens
  <2> TAKE len \in 1 .. peek
  <2>1. len \in 1 .. Len(Counts(packed)) /\ c + len <= Len(bits)
    <3>1. Len(bits) \in Nat  BY <1>3
    <3> QED BY <1>1, <1>2, <1>3, <3>1
  <2> QED BY <1>7, <2>1 DEF Next1, IsNext, r, v, c, bits
<1> HIDE DEF lens
<1>9. CASE lens = {}
    BY <1>1, <1>6, <1>8, <1>9 DEF b
<1>10. CASE lens # {}
  <2>1. prefixLen[b] \in lens  BY <1>6, <1>10
  <2>2. \A len \in lens : len \in 1 .. peek  BY DEF lens
  <2>3. prefixLen[b] \in 1 .. peek /\ Next1(prefixLen[b])  BY <1>8, <2>1, <2>2
  <2>4. prefixLen[b] \in 0 .. peek /\ prefixLen[b] # 0  BY <1>1, <2>3
  <2> QED BY <2>3, <2>4 DEF b
<1> QED BY <1>9, <1>10

\* Levels above a code that is not there yet: the bits lead to inner nodes only.
LEMMA NoCodeYet ==
    ASSUME NEW counts, Complete(counts), NEW bits \in Seq({0, 1}), NEW c \in Nat,
           NEW n \in 0 .. Len(counts), c + n <= Len(bits),
           \A m \in 1 .. n : ~ IsNext(counts, bits, c, m)
    PROVE  \A m \in 0 .. n : Lead(bits, c, m) < Inner(counts)[m]
<1> DEFINE r == Inner(counts)
           L == Len(counts)
           v(k) == Lead(bits, c, k)
           P == {m \in Nat : m <= n => v(m) < r[m]}
<1>1. L \in Nat \ {0} /\ n \in Nat /\ n <= L /\ counts \in Seq(Nat) /\ Len(bits) \in Nat
    BY DEF Complete
<1>2. r \in [0 .. L -> Int] /\ r[0] = 1
    BY <1>1, InnerStep
<1>3. v(0) = 0 /\ \A m \in 0 .. n : v(m) \in Nat
  <2>1. c <= Len(bits)  BY <1>1
  <2>2. v(0) = 0 /\ \A m \in Nat : c + m <= Len(bits) => v(m) \in 0 .. 2 ^ m - 1
      BY <2>1, LeadStep
  <2>3. ASSUME NEW m \in 0 .. n PROVE v(m) \in Nat
    <3>1. m \in Nat /\ c + m <= Len(bits)  BY <1>1
    <3>2. v(m) \in 0 .. 2 ^ m - 1 /\ 2 ^ m \in Nat  BY <2>2, <3>1, PowerType
    <3> HIDE DEF v
    <3> QED BY <3>2
  <2> QED BY <2>2, <2>3
<1>4. \A m \in 1 .. n : r[m] <= v(m) /\ v(m - 1) < r[m - 1] => IsNext(counts, bits, c, m)
  <2> TAKE m \in 1 .. n
  <2>1. m \in 1 .. L /\ c + m <= Len(bits)  BY <1>1
  <2> QED BY <2>1 DEF IsNext
<1> HIDE DEF r, v, L
<1>5. 0 \in P
    BY <1>2, <1>3
<1>6. ASSUME NEW m \in Nat, m \in P PROVE m + 1 \in P
  <2> SUFFICES ASSUME m + 1 <= n PROVE v(m + 1) < r[m + 1]
      OBVIOUS
  <2>1. m + 1 \in 1 .. n /\ (m + 1) - 1 = m /\ m + 1 \in 0 .. n /\ m + 1 \in 0 .. L
        /\ v(m) < r[m]
      BY <1>1, <1>6
  <2>2. ~ (r[m + 1] <= v(m + 1))  BY <1>4, <2>1
  <2>3. r[m + 1] \in Int /\ v(m + 1) \in Nat  BY <1>2, <1>3, <2>1
  <2> QED BY <2>2, <2>3
<1>7. Nat \subseteq P
  <2> HIDE DEF P
  <2> QED BY <1>5, <1>6, NatSetInduction
<1> QED BY <1>1, <1>7 DEF v, r

\* When the end of the file cuts a code, the longest codes do not fit either.
LEMMA CutCode ==
    ASSUME PackParameters, packed \in PackFiles, TablesInv, Buffered, CodeIsCut
    PROVE  Len(Body(packed)) < Taken + maxLen
<1> DEFINE peek == Least(maxLen, MaxPeek)
<1>1. /\ packed \in Seq(Nat) /\ ByteBits \in Nat \ {0} /\ peek \in 1 .. maxLen /\ maxLen \in Nat
    BY TreeIs
<1>2. Taken \in Nat
    BY DEF Buffered
<1> HIDE DEF peek
<1>3. PICK len \in 0 .. maxLen : ~ Enough(len)
  <2>1. CASE Enough(peek)
    <3>1. \E len \in peek .. maxLen : ~ Enough(len)  BY <2>1 DEF CodeIsCut, peek
    <3> QED BY <1>1, <3>1
  <2>2. CASE ~ Enough(peek)
    <3>1. peek \in 0 .. maxLen  BY <1>1
    <3> QED BY <2>2, <3>1
  <2> QED BY <2>1, <2>2
<1>4. ~ (Taken + len <= Len(Body(packed))) /\ Body(packed) \in Seq({0, 1})
    BY <1>1, <1>3, LookedIs
<1>5. Len(Body(packed)) \in Nat
    BY <1>4
<1> DEFINE a == Len(Body(packed))
           c == Taken
<1> HIDE DEF a, c
<1>6. a < c + maxLen
    BY <1>1, <1>2, <1>4, <1>5 DEF a, c
<1> QED BY <1>6 DEF a, c

\* Otherwise the tables find the code that is next, and its bits are in the file.
LEMMA NextCode ==
    ASSUME PackParameters, packed \in PackFiles, TablesInv, Buffered, ~ CodeIsCut
    PROVE  /\ Next1(CodeLen) /\ Enough(CodeLen) /\ CodeLen \in 1 .. maxLen
           /\ Enough(Least(maxLen, MaxPeek))
           /\ CodeLen <= MaxPeek => CodeLen <= Least(maxLen, MaxPeek)
<1> DEFINE peek == Least(maxLen, MaxPeek)
           counts == Counts(packed)
           r == Inner(counts)
           bits == Body(packed)
           c == Taken
           v(n) == Lead(bits, c, n)
           short == prefixLen[Peek(peek)]
<1>1. /\ packed \in Seq(Nat) /\ ByteBits \in Nat \ {0} /\ peek \in 1 .. maxLen
         /\ maxLen \in Nat \ {0}
      /\ Complete(counts) /\ counts \in Seq(Nat) /\ Len(counts) = maxLen
    BY TreeIs
<1>2. c \in Nat
    BY DEF Buffered
<1>3. Enough(peek)
    BY DEF CodeIsCut
<1>4. /\ short \in 0 .. peek
      /\ short # 0 => Next1(short)
      /\ short = 0 => \A n \in 1 .. peek : ~ Next1(n)
    BY <1>3, ShortCode
<1>5. /\ bits \in Seq({0, 1}) /\ Len(bits) \in Nat
      /\ \A n \in 0 .. maxLen : Enough(n) <=> c + n <= Len(bits)
      /\ \A n \in 0 .. maxLen : Enough(n) => Peek(n) = v(n)
  <2>1. \A n \in 0 .. maxLen : n \in Nat  OBVIOUS
  <2>2. bits \in Seq({0, 1})  BY <1>1, <2>1, LookedIs
  <2>3. \A n \in 0 .. maxLen : Enough(n) <=> c + n <= Len(bits)  BY <1>1, <2>1, LookedIs
  <2>4. \A n \in 0 .. maxLen : Enough(n) => Peek(n) = v(n)  BY <1>1, <2>1, LookedIs
  <2>5. Len(bits) \in Nat  BY <2>2
  <2> QED BY <2>2, <2>3, <2>4, <2>5
<1>6. \A n : Next1(n) => n \in 1 .. maxLen /\ n \in 0 .. maxLen /\ c + n <= Len(bits)
    BY <1>1 DEF Next1, IsNext
<1>7. peek = IF maxLen < MaxPeek THEN maxLen ELSE MaxPeek
    BY DEF Least
<1>8. CodeLen <= MaxPeek /\ CodeLen \in 1 .. maxLen => CodeLen <= peek
  <2> DEFINE l == CodeLen
  <2>1. MaxPeek \in Nat  BY DEF PackParameters
  <2> HIDE DEF l, peek
  <2>2. l <= MaxPeek /\ l \in 1 .. maxLen => l <= peek  BY <1>1, <1>7, <2>1
  <2> QED BY <2>2 DEF l
<1>9. CASE short # 0
  <2>1. CodeLen = short
    <3>1. CodeLen = IF short > 0 THEN short
            ELSE CHOOSE len \in peek .. maxLen :
                /\ Peek(len) >= parents[len]
                /\ \A shorter \in peek .. len - 1 : Peek(shorter) < parents[shorter]
        BY DEF CodeLen
    <3> HIDE DEF short
    <3>2. short > 0  BY <1>1, <1>4, <1>9
    <3> QED BY <3>1, <3>2
  <2>2. Next1(CodeLen)  BY <1>4, <1>9, <2>1
  <2> QED BY <1>3, <1>5, <1>6, <1>8, <2>2
<1>10. CASE short = 0
  <2>1. \A m \in 0 .. peek : v(m) < r[m]
    <3>1. peek \in 0 .. Len(counts) /\ peek \in 0 .. maxLen  BY <1>1
    <3>2. c + peek <= Len(bits)  BY <1>3, <1>5, <3>1
    <3>3. \A m \in 1 .. peek : ~ IsNext(counts, bits, c, m)  BY <1>4, <1>10 DEF Next1
    <3> QED BY <1>1, <1>2, <1>5, <3>1, <3>2, <3>3, NoCodeYet
  <2>2. parents = [len \in 1 .. maxLen |-> r[len]] /\ r[maxLen] = 0
      BY DEF TablesInv
  <2>3. \A n \in 0 .. maxLen : r[n] \in Int
    <3>1. r \in [0 .. maxLen -> Int]  BY <1>1, InnerStep
    <3> QED BY <3>1
  <2>4. \A n \in 0 .. maxLen : Enough(n) => v(n) \in Nat
    <3> TAKE n \in 0 .. maxLen
    <3> HAVE Enough(n)
    <3>1. c + n <= Len(bits) /\ c <= Len(bits) /\ n \in Nat  BY <1>2, <1>5
    <3>2. v(n) \in 0 .. 2 ^ n - 1 /\ 2 ^ n \in Nat  BY <1>2, <1>5, <3>1, LeadStep, PowerType
    <3> HIDE DEF v
    <3> QED BY <3>2
  <2> HIDE DEF peek, counts, r, bits, c, v
  <2> DEFINE stops == {n \in peek .. maxLen : Enough(n) => r[n] <= v(n)}
  <2>5. PICK m \in stops : \A n \in stops : m <= n
    <3>1. maxLen \in stops
      <4>1. Enough(maxLen) => v(maxLen) \in Nat  BY <1>1, <2>4
      <4> QED BY <1>1, <2>2, <4>1
    <3>2. stops \in SUBSET Nat  BY <1>1
    <3> HIDE DEF stops
    <3> QED BY <3>1, <3>2, LeastNatural
  <2>6. m \in peek .. maxLen /\ m \in 0 .. maxLen /\ m \in 1 .. maxLen /\ m \in Nat  BY <1>1
  <2>7. ASSUME NEW n \in peek .. m - 1
        PROVE  /\ Enough(n) /\ Peek(n) < parents[n] /\ Peek(n) = v(n) /\ v(n) < r[n]
    <3>1. n \in peek .. maxLen /\ n \in 0 .. maxLen /\ n \in 1 .. maxLen /\ ~ (m <= n)
        BY <1>1, <2>6
    <3>2. n \notin stops  BY <2>5, <3>1
    <3>3. Enough(n) /\ ~ (r[n] <= v(n))  BY <3>1, <3>2
    <3>4. v(n) \in Nat /\ r[n] \in Int /\ Peek(n) = v(n) /\ parents[n] = r[n]
        BY <1>5, <2>2, <2>3, <2>4, <3>1, <3>3
    <3> QED BY <3>3, <3>4
  <2>8. Enough(m)
    <3> SUFFICES ASSUME ~ Enough(m) PROVE FALSE  OBVIOUS
    <3>1. short = 0 /\ \E len \in peek .. maxLen :
            /\ ~Enough(len)
            /\ \A shorter \in peek .. len - 1 : Enough(shorter)
               /\ Peek(shorter) < parents[shorter]
        BY <1>10, <2>6, <2>7
    <3> QED BY <3>1 DEF CodeIsCut, peek, short
  <2>9. r[m] <= v(m) /\ Peek(m) = v(m) /\ parents[m] = r[m] /\ v(m) \in Nat /\ r[m] \in Int
    <3>1. r[m] <= v(m)  BY <2>5, <2>8
    <3> QED BY <1>5, <2>2, <2>3, <2>4, <2>6, <2>8, <3>1
  <2>10. m # peek
    <3> SUFFICES ASSUME m = peek PROVE FALSE  OBVIOUS
    <3>1. v(m) < r[m]  BY <1>1, <2>1
    <3> QED BY <2>9, <3>1
  <2>11. m - 1 \in peek .. m - 1  BY <1>1, <2>6, <2>10
  <2>12. Next1(m)
    <3>1. v(m - 1) < r[m - 1]  BY <2>7, <2>11
    <3>2. c + m <= Len(bits)  BY <1>5, <2>6, <2>8
    <3> QED BY <1>1, <2>6, <2>9, <3>1, <3>2 DEF Next1, IsNext, r, v, bits, c, counts
  <2>13. CodeLen = m
    <3> DEFINE Right(len) == /\ Peek(len) >= parents[len]
                             /\ \A shorter \in peek .. len - 1 : Peek(shorter) < parents[shorter]
    <3>1. CodeLen = CHOOSE len \in peek .. maxLen : Right(len)
      <4>1. ~ (short > 0)  BY <1>10
      <4>2. CodeLen = IF short > 0 THEN short ELSE CHOOSE len \in peek .. maxLen : Right(len)
          BY DEF CodeLen, peek, short
      <4> QED BY <4>1, <4>2
    <3>2. Peek(m) >= parents[m]  BY <2>9
    <3>3. Right(m)  BY <2>7, <3>2
    <3>4. ASSUME NEW len \in peek .. maxLen, Right(len) PROVE len = m
      <4>1. ~ (len < m)
        <5> SUFFICES ASSUME len < m PROVE FALSE  OBVIOUS
        <5>1. len \in peek .. m - 1 /\ len \in 0 .. maxLen /\ len \in 1 .. maxLen  BY <1>1, <2>6
        <5>2. Peek(len) = v(len) /\ v(len) < r[len] /\ parents[len] = r[len]
              /\ v(len) \in Nat /\ r[len] \in Int
            BY <2>2, <2>3, <2>4, <2>7, <5>1
        <5> QED BY <3>4, <5>2
      <4>2. ~ (m < len)
        <5> SUFFICES ASSUME m < len PROVE FALSE  OBVIOUS
        <5>1. m \in peek .. len - 1  BY <1>1, <2>6
        <5>2. Peek(m) < parents[m]  BY <3>4, <5>1
        <5> QED BY <2>9, <5>2
      <4> QED BY <1>1, <2>6, <4>1, <4>2
    <3> HIDE DEF Right
    <3> QED BY <2>6, <3>1, <3>3, <3>4
  <2> QED BY <1>3, <1>8, <2>6, <2>8, <2>12, <2>13 DEF peek
<1> QED BY <1>9, <1>10

-----------------------------------------------------------------------------
(* The steps that decode.                                                    *)

\* The bits of the code are taken, those behind it stay in the buffer.
LEMMA BitsTaken ==
    ASSUME ByteBits \in Nat \ {0}, packed \in Seq(Nat), Buffered, NEW look \in Nat,
           Enough(look),
           NEW len \in 0 .. look, packed' = packed, pos' = pos + Needed(look),
           bitbuf' = SubSeq(Looked(look), len + 1, Len(Looked(look)))
    PROVE  Buffered' /\ Taken' = Taken + len
<1> DEFINE b == Before(packed)
           m == Needed(look)
           s == Looked(look)
           bits == Body(packed)
           v == valid
           A == ByteBits * (pos - b)
           M == ByteBits * m
<1>1. /\ b \in Nat /\ pos \in b .. Len(packed) /\ Len(packed) \in Nat /\ v \in Nat
    BY DEF Buffered, valid
<1>2. Taken \in Nat /\ Taken = A - v
    BY DEF Buffered, Taken
<1>3. /\ m \in Nat /\ s \in Seq({0, 1}) /\ look <= Len(s) /\ Len(s) = v + M
      /\ \A x \in 1 .. Len(s) : s[x] = bits[Taken + x]
    BY LookedIs
<1>4. pos + m <= Len(packed)
    BY DEF Enough
<1>5. Before(packed)' = b /\ Body(packed)' = bits /\ Len(packed)' = Len(packed)
    OBVIOUS
<1>6. pos' = pos + m /\ bitbuf' = SubSeq(s, len + 1, Len(s)) /\ len \in Nat /\ len <= look
    OBVIOUS
<1>7. A \in Nat /\ M \in Nat /\ ByteBits * ((pos + m) - b) = A + M
  <2>1. pos - b \in Nat /\ (pos + m) - b = (pos - b) + m
    <3> HIDE DEF b, m
    <3> QED BY <1>1, <1>3
  <2> DEFINE a == pos - b
  <2> HIDE DEF a, m
  <2>2. ByteBits * (a + m) = ByteBits * a + ByteBits * m  BY <1>3, <2>1 DEF a
  <2>3. ByteBits * a \in Nat /\ ByteBits * m \in Nat  BY <1>3, <2>1, ProductType DEF a
  <2> QED BY <2>1, <2>2, <2>3 DEF a
<1>8. Taken' = ByteBits * ((pos + m) - b) - Len(bitbuf')
    BY <1>5, <1>6 DEF Taken, valid
<1> HIDE DEF b, m, s, bits, v, M
<1>9. /\ bitbuf' \in Seq({0, 1}) /\ Len(bitbuf') = (v + M) - len
      /\ \A j \in 1 .. Len(bitbuf') : bitbuf'[j] = s[len + j]
  <2> DEFINE l == Len(s)
  <2>1. l \in Nat /\ len <= l /\ l = v + M  BY <1>3, <1>6
  <2> DEFINE t == SubSeq(s, len + 1, l)
  <2>2. t \in Seq({0, 1}) /\ Len(t) = l - len /\ \A j \in 1 .. l - len : t[j] = s[len + j]
    <3>1. s \in Seq({0, 1}) /\ len \in Nat  BY <1>3, <1>6
    <3> QED BY ONLY <2>1, <3>1
  <2>3. bitbuf' = t  BY <1>6
  <2> HIDE DEF t, l
  <2> QED BY <2>1, <2>2, <2>3
<1> HIDE DEF A
<1>10. Taken' = Taken + len
  <2>1. Taken' = (A + M) - ((v + M) - len)
    <3>1. Len(bitbuf') = (v + M) - len  BY <1>9
    <3> QED BY <1>7, <1>8, <3>1, Zenon
  <2> QED BY <1>1, <1>2, <1>6, <1>7, <2>1
<1>11. pos' \in b .. Len(packed)
    BY <1>1, <1>3, <1>4, <1>6
<1>12. ASSUME NEW j \in 1 .. Len(bitbuf') PROVE bitbuf'[j] = bits[Taken' + j]
  <2>1. len + j \in 1 .. Len(s) /\ Taken + (len + j) = Taken' + j
      BY <1>1, <1>2, <1>3, <1>6, <1>7, <1>9, <1>10
  <2>2. bitbuf'[j] = s[len + j]  BY <1>9
  <2> QED BY <1>3, <2>1, <2>2
<1>13. Taken' \in Nat
    BY <1>2, <1>6, <1>10
<1> QED BY <1>1, <1>5, <1>9, <1>10, <1>11, <1>12, <1>13 DEF Buffered, valid

\* What is decoded, from the first bit and from any other.
LEMMA DecodedFileIs ==
    ASSUME PackParameters, packed \in PackFiles, TablesInv, Buffered
    PROVE  /\ Body(packed) \in Seq({0, 1}) /\ Len(Body(packed)) \in Nat
           /\ DecodedFile(packed) = Rest(1) /\ DecodedFile(packed) \in Seq(Nat)
           /\ \A i \in 1 .. Len(Body(packed)) + 1 : Rest(i) \in Seq(Nat)
           /\ \A i \in 1 .. Len(Body(packed)) + 1 :
                Len(Rest(i)) # 0 /\ Rest(i)[Len(Rest(i))] = Total(Counts(packed))
                    => i + maxLen <= Len(Body(packed)) + 1
<1> DEFINE counts == Counts(packed)
           bits == Body(packed)
           codes == Codes(counts)
<1>1. packed \in Seq(Nat) /\ ByteBits \in Nat \ {0} /\ Complete(counts) /\ Len(counts) = maxLen
    BY TreeIs
<1>2. bits \in Seq({0, 1}) /\ Len(bits) \in Nat
  <2>1. 0 \in Nat  OBVIOUS
  <2>2. bits \in Seq({0, 1})  BY <1>1, <2>1, LookedIs
  <2> QED BY <2>2
<1>3. DecodedFile(packed) = Rest(1)
  <2>1. \A k \in 1 .. Len(codes) : Len(codes[k]) \in Nat \ {0}  BY <1>1, LeafLengths
  <2> HIDE DEF codes, bits
  <2>2. Decoded(codes, bits) = DecodedFrom(codes, bits)[1]  BY <1>2, <2>1, DecodedStep
  <2> QED BY <2>2 DEF DecodedFile, Rest, codes, bits
<1> HIDE DEF counts, bits
<1>4. \A i \in 1 .. Len(bits) + 1 :
        LET s == DecodedFrom(codes, bits)[i]
        IN  /\ s \in Seq(Nat)
            /\ Len(s) # 0 /\ s[Len(s)] = Total(counts) => i + Len(counts) <= Len(bits) + 1
    BY <1>1, <1>2, DecodedEnds
<1>5. \A i : Rest(i) = DecodedFrom(codes, bits)[i]
    BY DEF Rest, counts, bits
<1> HIDE DEF codes
<1>6. 1 \in 1 .. Len(bits) + 1
    BY <1>2
<1> QED BY <1>1, <1>2, <1>3, <1>4, <1>5, <1>6 DEF counts, bits

\* When the tables are built, the header is as it should be.
LEMMA HeaderIsGood ==
    ASSUME PackParameters, packed \in PackFiles, TablesInv, Before(packed) <= Len(packed)
    PROVE  GoodHeader(packed)
<1>1. /\ Counts(packed) \in Seq(Nat) /\ Len(Counts(packed)) = maxLen /\ maxLen \in Nat \ {0}
      /\ Before(packed) = 1 + maxLen + Total(Counts(packed))
    BY TreeIs
<1>2. /\ Len(packed) >= 2 /\ maxLen = packed[2] /\ maxLen \in 1 .. MaxBitLen
         /\ 2 + maxLen <= Len(packed)
      /\ Total(Counts(packed)) - 1 <= Literals /\ Inner(Counts(packed))[maxLen] = 0
    BY DEF TablesInv, TreeInv, Started
<1>3. Weight(Counts(packed), 1 .. maxLen) = 2 ^ maxLen
    BY <1>1, <1>2, WholeWeight
<1>4. Len(packed) >= 1 + maxLen + Total(Counts(packed)) /\ Len(packed) >= 2 + maxLen
  <2>1. packed \in Seq(Nat)  BY TreeIs
  <2>2. Len(packed) \in Nat /\ Before(packed) \in Nat  BY <2>1, TreeIs
  <2> QED BY <1>1, <1>2, <2>2
<1> QED BY <1>2, <1>3, <1>4, Zenon DEF GoodHeader

\* The literals are those of the header.
LEMMA LiteralsAre ==
    ASSUME PackParameters, packed \in PackFiles, TablesInv, Before(packed) <= Len(packed),
           NEW k \in 1 .. Total(Counts(packed)) - 1
    PROVE  LiteralsOf(packed)[k] = literal[k] /\ literal[k] \in Nat
<1> DEFINE T == Total(Counts(packed))
           a == 2 + maxLen
<1>1. /\ packed \in Seq(Nat) /\ T \in Nat /\ maxLen \in Nat /\ Before(packed) = 1 + maxLen + T
    BY TreeIs
<1>2. /\ literal \in Seq(Nat) /\ Len(literal) = T - 1 /\ maxLen = packed[2]
      /\ \A i \in 1 .. Len(literal) : literal[i] = packed[2 + maxLen + i]
    BY DEF TablesInv, TreeInv, Started
<1>3. LiteralsOf(packed) = SubSeq(packed, 3 + maxLen, 1 + maxLen + T)
    BY <1>2 DEF LiteralsOf
<1> HIDE DEF T, a
<1>4. a \in Nat /\ 3 + maxLen = a + 1 /\ 1 + maxLen + T = a + T - 1 /\ a + T - 1 <= Len(packed)
      /\ k \in 1 .. T - 1
    BY <1>1 DEF T, a
<1>5. SubSeq(packed, a + 1, a + T - 1)[k] = packed[a + k]
    BY <1>1, <1>4
<1>6. literal[k] = packed[a + k] /\ literal[k] \in Nat
  <2>1. k \in 1 .. Len(literal)  BY <1>2, <1>4
  <2>2. literal[k] = packed[a + k]  BY <1>2, <2>1 DEF a
  <2>3. literal[k] \in Nat  BY <1>2, <2>1
  <2> QED BY <2>2, <2>3
<1> QED BY <1>3, <1>4, <1>5, <1>6

\* A text that ends within a code is not a good one.
LEMMA DecodeFailsStep ==
    ASSUME PackParameters, IInv, DecodeFails
    PROVE  IInv'
<1> DEFINE D == DecodedFile(packed)
           T == Total(Counts(packed))
           s == Rest(Taken + 1)
           n == Len(unpacked)
<1>1. packed \in PackFiles /\ TablesInv /\ StreamInv /\ OutputInv /\ Buffered
    BY DEF IInv, DecodeFails, StreamInv
<1>2. Len(Body(packed)) < Taken + maxLen
    BY <1>1, CutCode DEF DecodeFails
<1>3. SUFFICES ASSUME Good(packed) PROVE FALSE
  <2>1. stage' = "error" /\ packed' = packed /\ unpacked' = unpacked  BY DEF DecodeFails
  <2> QED BY <1>1, <2>1 DEF IInv
<1>4. /\ Len(D) = packed[1] + 1 /\ D[Len(D)] = T
    BY <1>3 DEF Good
<1>5. /\ T \in Nat /\ maxLen \in Nat \ {0} /\ packed \in Seq(Nat) /\ Len(packed) >= 2
    BY <1>1, TreeIs DEF TablesInv, TreeInv, Started
<1>6. Len(D) # 0
  <2>1. 1 \in 1 .. Len(packed)  BY <1>5
  <2>2. packed[1] \in Nat  BY <1>5, <2>1
  <2> HIDE DEF D
  <2> QED BY <1>4, <2>2
<1>7. Taken \in Nat
    BY <1>1 DEF Buffered
<1>8. /\ D \in Seq(Nat) /\ Len(Body(packed)) \in Nat
      /\ \A i \in 1 .. Len(Body(packed)) + 1 :
            Rest(i) \in Seq(Nat) /\ (Len(Rest(i)) # 0 /\ Rest(i)[Len(Rest(i))] = T
                                        => i + maxLen <= Len(Body(packed)) + 1)
    BY <1>1, DecodedFileIs
<1>9. Taken + 1 \in 1 .. Len(Body(packed)) + 1
  <2>1. Enough(0) /\ 0 \in Nat
    <3>1. Needed(0) = 0  BY <1>1 DEF Needed, Buffered, valid
    <3>2. pos \in Nat /\ pos <= Len(packed)  BY <1>1, <1>5 DEF Buffered
    <3> QED BY <3>1, <3>2 DEF Enough
  <2>2. ByteBits \in Nat \ {0}  BY DEF PackParameters
  <2>3. Enough(0) <=> Taken + 0 <= Len(Body(packed))  BY <1>1, <1>5, <2>1, <2>2, LookedIs
  <2> QED BY <1>7, <1>8, <2>1, <2>3
<1>10. s \in Seq(Nat) /\ (Len(s) # 0 /\ s[Len(s)] = T => (Taken + 1) + maxLen <= Len(Body(packed)) + 1)
    BY <1>8, <1>9
<1>11. /\ n \in Nat /\ Len(D) = n + Len(s)
       /\ \A i \in 1 .. Len(s) : D[n + i] = s[i]
       /\ \A i \in 1 .. n : D[i] \in 1 .. T - 1
    BY <1>1 DEF StreamInv, OutputInv
<1> DEFINE b == Len(Body(packed))
<1> HIDE DEF D, T, s, n, b
<1>12. Len(s) \in Nat
    BY <1>10
<1>13. CASE Len(s) = 0
  <2>1. n \in 1 .. n /\ Len(D) = n  BY <1>6, <1>11, <1>13
  <2>2. T \in 1 .. T - 1  BY <1>4, <1>11, <2>1
  <2> QED BY <1>5, <2>2 DEF T
<1>14. CASE Len(s) # 0
  <2>1. Len(s) \in 1 .. Len(s)  BY <1>12, <1>14
  <2>2. s[Len(s)] = T  BY <1>4, <1>11, <2>1
  <2>3. (Taken + 1) + maxLen <= b + 1  BY <1>10, <1>14, <2>2 DEF b
  <2>4. b < Taken + maxLen /\ b \in Nat  BY <1>2, <1>8 DEF b
  <2> QED BY <1>5, <1>7, <2>3, <2>4
<1> QED BY <1>13, <1>14

\* One more literal.
LEMMA OneMore ==
    ASSUME NEW s \in Seq(Nat), NEW x \in Nat
    PROVE  /\ Append(s, x) \in Seq(Nat) /\ Len(Append(s, x)) = Len(s) + 1
           /\ \A i \in 1 .. Len(s) : Append(s, x)[i] = s[i]
           /\ Append(s, x)[Len(s) + 1] = x
OBVIOUS

\* A code is decoded to the leaf that is next, and the bits behind it to the rest.
LEMMA DecodeStep ==
    ASSUME PackParameters, IInv, Decode
    PROVE  IInv'
<1> DEFINE len == CodeLen
           look == IF len > MaxPeek THEN len ELSE Least(maxLen, MaxPeek)
           code == Peek(len)
           counts == Counts(packed)
           bits == Body(packed)
           c == Taken
           T == Total(counts)
           no == Lead(bits, c, len) - Inner(counts)[len] + 1
           leaf == CountTo(counts, len - 1) + no
           D == DecodedFile(packed)
           s == Rest(c + 1)
           n == Len(unpacked)
<1>1. packed \in PackFiles /\ TablesInv /\ StreamInv /\ OutputInv /\ Buffered
    BY DEF IInv, Decode, StreamInv
<1>2. /\ packed \in Seq(Nat) /\ ByteBits \in Nat \ {0} /\ maxLen \in Nat \ {0}
      /\ Complete(counts) /\ counts \in Seq(Nat) /\ Len(counts) = maxLen
      /\ T \in Nat /\ T >= 2
    BY <1>1, TreeIs
<1>3. /\ Next1(len) /\ Enough(len) /\ len \in 1 .. maxLen
      /\ Enough(Least(maxLen, MaxPeek))
      /\ len <= MaxPeek => len <= Least(maxLen, MaxPeek)
    BY <1>1, NextCode DEF Decode
<1>4. c \in Nat /\ len \in Nat /\ len \in 0 .. maxLen /\ len - 1 \in 0 .. maxLen
  <2>1. c \in Nat  BY <1>1 DEF Buffered
  <2> HIDE DEF len, c
  <2> QED BY <1>2, <1>3, <2>1
<1>5. look \in Nat /\ Enough(look) /\ len \in 0 .. look
  <2> DEFINE p == Least(maxLen, MaxPeek)
  <2>1. p \in Nat /\ MaxPeek \in Nat
    <3>1. p \in 1 .. maxLen  BY <1>1, TreeIs
    <3> QED BY <1>2, <3>1 DEF PackParameters
  <2>2. Enough(p) /\ (len <= MaxPeek => len <= p)  BY <1>3
  <2> HIDE DEF p, len
  <2>3. CASE len > MaxPeek
    <3>1. (IF len > MaxPeek THEN len ELSE p) = len  BY <2>3
    <3>2. len \in 0 .. len  BY <1>4
    <3> QED BY <1>3, <1>4, <3>1, <3>2 DEF p
  <2>4. CASE ~ (len > MaxPeek)
    <3>1. (IF len > MaxPeek THEN len ELSE p) = p  BY <2>4
    <3>2. len \in 0 .. p  BY <1>4, <2>1, <2>2, <2>4
    <3> QED BY <2>1, <2>2, <3>1, <3>2 DEF p
  <2> QED BY <2>3, <2>4
<1>6. code = Lead(bits, c, len) /\ bits \in Seq({0, 1})
    BY <1>1, <1>2, <1>3, <1>4, LookedIs
<1>7. IsNext(counts, bits, c, len)
    BY <1>3 DEF Next1
<1>8. /\ no \in 1 .. counts[len] /\ leaf \in 1 .. T
  <2> HIDE DEF len, c, bits, counts
  <2> QED BY <1>2, <1>4, <1>6, <1>7, NextLeaf, SMTT(20)
<1>9. /\ leaf = T => s = <<leaf>>
      /\ leaf # T => s = <<leaf>> \o Rest(c + len + 1)
  <2>1. /\ leaf = Total(counts) => DecodedFrom(Codes(counts), bits)[c + 1] = <<leaf>>
        /\ leaf # Total(counts) => DecodedFrom(Codes(counts), bits)[c + 1]
                                = <<leaf>> \o DecodedFrom(Codes(counts), bits)[c + len + 1]
    <3>1. no = Lead(bits, c, len) - Inner(counts)[len] + 1
          /\ leaf = CountTo(counts, len - 1) + no
        OBVIOUS
    <3> HIDE DEF len, c, bits, counts, no, leaf
    <3>2. Complete(counts) /\ bits \in Seq({0, 1}) /\ c \in Nat  BY <1>2, <1>4, <1>6
    <3>3. GoesOn(counts, bits, c, len, leaf)  BY ONLY <1>7, <3>1, <3>2, DecodedNext, Zenon
    <3> QED BY <3>3 DEF GoesOn
  <2> QED BY <2>1 DEF Rest
<1>10. leaf = T <=> len = maxLen /\ no = counts[maxLen]
  <2> HIDE DEF len, c, bits, counts, no
  <2> QED BY <1>2, <1>3, <1>8, LeafOf
<1>11. /\ leaves = counts /\ litBase[len] = CountTo(counts, len - 1) - Inner(counts)[len]
       /\ Inner(counts)[maxLen] = 0
  <2>1. /\ leaves = counts /\ Inner(counts)[maxLen] = 0
        /\ litBase = [l \in 1 .. maxLen |-> CountTo(counts, l - 1) - Inner(counts)[l]]
      BY <1>1 DEF TablesInv
  <2> HIDE DEF len, counts
  <2> QED BY <1>3, <2>1
<1>12. Lead(bits, c, len) \in Nat /\ Inner(counts)[len] \in Int
       /\ CountTo(counts, len - 1) \in Nat
       /\ counts[maxLen] \in Nat
  <2> HIDE DEF len, c, bits, counts
  <2>1. c <= Len(bits) /\ c + len <= Len(bits)
    <3>1. c + len <= Len(bits) /\ Len(bits) \in Nat  BY <1>6, <1>7 DEF IsNext
    <3> QED BY <1>4, <3>1
  <2>2. Lead(bits, c, len) \in 0 .. 2 ^ len - 1 /\ 2 ^ len \in Nat
      BY <1>4, <1>6, <2>1, LeadStep, PowerType
  <2>3. Lead(bits, c, len) \in Nat  BY <2>2
  <2>4. Inner(counts) \in [0 .. maxLen -> Int]  BY <1>2, InnerStep
  <2>5. CountTo(counts, len - 1) \in Nat  BY <1>2, <1>4, CountStep
  <2>6. counts[maxLen] \in Nat
    <3>1. maxLen \in 1 .. Len(counts)  BY <1>2
    <3> QED BY <1>2, <3>1
  <2> QED BY <1>4, <2>3, <2>4, <2>5, <2>6
<1>13. /\ code + litBase[len] + 1 = leaf
       /\ code = leaves[maxLen] - 1 /\ len = maxLen <=> leaf = T
  <2> DEFINE x == Lead(bits, c, len)
             r == Inner(counts)[len]
             p == CountTo(counts, len - 1)
             k == counts[maxLen]
  <2>1. /\ x \in Nat /\ r \in Int /\ p \in Nat /\ k \in Nat
        /\ code = x /\ litBase[len] = p - r /\ leaves[maxLen] = k
        /\ no = x - r + 1 /\ leaf = p + no
        /\ len = maxLen => r = 0
      BY <1>6, <1>11, <1>12
  <2>2. leaf = T <=> len = maxLen /\ no = k  BY <1>10
  <2> HIDE DEF x, r, p, k, code, len, leaf, no, T
  <2>3. code + litBase[len] + 1 = leaf  BY <2>1
  <2>4. len = maxLen => (no = k <=> code = k - 1)  BY <2>1
  <2> QED BY <2>1, <2>2, <2>3, <2>4
<1>14. /\ pos' = pos + Needed(look) /\ packed' = packed
       /\ UNCHANGED <<headVars, treeVars>>
       /\ IF leaf = T
          THEN /\ stage' = IF origLen = Len(unpacked) THEN "done" ELSE "error"
               /\ bitbuf' = bitbuf /\ unpacked' = unpacked
          ELSE /\ unpacked' = Append(unpacked, literal[leaf])
               /\ bitbuf' = SubSeq(Looked(look), len + 1, Len(Looked(look)))
               /\ stage' = stage
  <2>1. /\ pos' = pos + Needed(look) /\ packed' = packed
        /\ UNCHANGED <<headVars, treeVars>>
        /\ IF code = leaves[maxLen] - 1 /\ len = maxLen
           THEN /\ stage' = IF origLen = Len(unpacked) THEN "done" ELSE "error"
                /\ UNCHANGED <<bitbuf, unpacked>>
           ELSE /\ unpacked' = Append(unpacked, literal[code + litBase[len] + 1])
                /\ bitbuf' = SubSeq(Looked(look), len + 1, Len(Looked(look)))
                /\ UNCHANGED stage
      BY DEF Decode
  <2> HIDE DEF look, len, code, leaf, T
  <2> QED BY <1>13, <2>1
<1>15. /\ D = Rest(1) /\ D \in Seq(Nat) /\ Len(D) \in Nat
       /\ \A i \in 1 .. Len(bits) + 1 : Rest(i) \in Seq(Nat)
  <2>1. D = Rest(1) /\ D \in Seq(Nat) /\ \A i \in 1 .. Len(bits) + 1 : Rest(i) \in Seq(Nat)
      BY <1>1, DecodedFileIs
  <2> HIDE DEF D
  <2> QED BY <2>1
<1>16. /\ Len(D) = n + Len(s)
       /\ \A i \in 1 .. Len(s) : D[n + i] = s[i]
       /\ unpacked \in Seq(Nat) /\ n \in Nat
       /\ \A i \in 1 .. n : D[i] \in 1 .. T - 1 /\ unpacked[i] = LiteralsOf(packed)[D[i]]
    BY <1>1 DEF StreamInv, OutputInv
<1>17. Before(packed) <= Len(packed)
  <2>1. Before(packed) \in Nat /\ pos \in Before(packed) .. Len(packed)  BY <1>1 DEF Buffered
  <2> DEFINE b == Before(packed)
  <2>2. Len(packed) \in Nat  BY <1>2
  <2> HIDE DEF b
  <2>3. b \in Nat /\ pos \in b .. Len(packed)  BY <2>1 DEF b
  <2>4. b <= Len(packed)  BY <2>2, <2>3
  <2> QED BY <2>4 DEF b
<1>18. GoodHeader(packed)
    BY <1>1, <1>17, HeaderIsGood
<1>19. CASE leaf = T
  <2>1. s = <<T>> /\ Len(s) = 1 /\ s[1] = T
    <3>1. s = <<T>>  BY <1>9, <1>19
    <3> HIDE DEF T, s
    <3> QED BY <3>1
  <2> HIDE DEF D, s, n, T
  <2>2. Len(D) = n + 1 /\ D[Len(D)] = T
    <3>1. 1 \in 1 .. Len(s)  BY <2>1
    <3> QED BY <1>16, <2>1, <3>1
  <2>3. Good(packed) <=> n = packed[1]
    <3>1. 1 \in 1 .. Len(packed)  BY <1>1, <1>2 DEF TablesInv, TreeInv, Started
    <3>2. packed[1] \in Nat  BY <1>2, <3>1
    <3>3. Good(packed) <=> Len(D) = packed[1] + 1 /\ D[Len(D)] = T  BY <1>18 DEF Good, D, T
    <3>4. n + 1 = packed[1] + 1 <=> n = packed[1]  BY <1>16, <3>2
    <3> QED BY <2>2, <3>3, <3>4
  <2>4. stage' = (IF origLen = n THEN "done" ELSE "error") /\ unpacked' = unpacked
        /\ packed' = packed /\ origLen = packed[1]
      BY <1>1, <1>14, <1>19 DEF TablesInv, TreeInv, Started, n
  <2>5. OutputInv'  BY <1>1, <2>4 DEF OutputInv
  <2>6. CASE n = packed[1]
    <3>1. stage' = "done" /\ Good(packed)'  BY <2>3, <2>4, <2>6
    <3> QED BY <1>1, <2>4, <2>5, <3>1 DEF IInv
  <2>7. CASE n # packed[1]
    <3>1. stage' = "error" /\ ~ Good(packed)'  BY <2>3, <2>4, <2>7
    <3> QED BY <1>1, <2>4, <3>1 DEF IInv
  <2> QED BY <2>6, <2>7
<1>20. CASE leaf # T
  <2>1. /\ unpacked' = Append(unpacked, literal[leaf]) /\ stage' = "decode" /\ packed' = packed
        /\ bitbuf' = SubSeq(Looked(look), len + 1, Len(Looked(look)))
        /\ pos' = pos + Needed(look)
        /\ UNCHANGED <<headVars, treeVars>>
      BY <1>14, <1>20 DEF Decode
  <2>2. Buffered' /\ Taken' = c + len
    <3> HIDE DEF look, len
    <3> QED BY <1>1, <1>2, <1>5, <2>1, BitsTaken
  <2>3. leaf \in 1 .. T - 1 /\ leaf \in Nat
    <3> HIDE DEF leaf, T
    <3> QED BY <1>2, <1>8, <1>20
  <2>4. LiteralsOf(packed)[leaf] = literal[leaf] /\ literal[leaf] \in Nat
    <3> HIDE DEF leaf
    <3> QED BY <1>1, <1>17, <2>3, LiteralsAre
  <2> DEFINE rest == Rest(c + len + 1)
  <2>5. s = <<leaf>> \o rest /\ rest \in Seq(Nat) /\ Len(rest) \in Nat
    <3>1. c + len + 1 \in 1 .. Len(bits) + 1
      <4>1. c + len <= Len(bits) /\ Len(bits) \in Nat  BY <1>6, <1>7 DEF IsNext
      <4> HIDE DEF c, len, bits
      <4> QED BY <1>4, <4>1
    <3>2. rest \in Seq(Nat)  BY <1>15, <3>1
    <3>3. s = <<leaf>> \o rest  BY <1>9, <1>20
    <3> HIDE DEF rest
    <3> QED BY <3>2, <3>3
  <2> HIDE DEF rest, leaf
  <2>6. /\ Len(s) = 1 + Len(rest) /\ s[1] = leaf
        /\ \A i \in 1 .. Len(rest) : s[1 + i] = rest[i]
    <3> HIDE DEF s
    <3> QED BY <2>3, <2>5, OneBefore
  <2> DEFINE o == Append(unpacked, literal[leaf])
  <2>7. /\ o \in Seq(Nat) /\ Len(o) = n + 1 /\ o[n + 1] = literal[leaf]
        /\ \A i \in 1 .. n : o[i] = unpacked[i]
    <3> DEFINE y == literal[leaf]
    <3> HIDE DEF y
    <3>1. y \in Nat /\ unpacked \in Seq(Nat)  BY <1>16, <2>4 DEF y
    <3>2. Append(unpacked, y) \in Seq(Nat) /\ Len(Append(unpacked, y)) = Len(unpacked) + 1
          /\ Append(unpacked, y)[Len(unpacked) + 1] = y
             /\ \A i \in 1 .. Len(unpacked) : Append(unpacked, y)[i] = unpacked[i]
        BY <3>1, OneMore
    <3> QED BY <3>2 DEF y
  <2> HIDE DEF D, s, n, T, o, c, len
  <2>8. /\ Len(D) = Len(o) + Len(rest)
        /\ \A i \in 1 .. Len(rest) : D[Len(o) + i] = rest[i]
    <3>1. Len(D) = Len(o) + Len(rest)  BY <1>16, <2>5, <2>6, <2>7
    <3>2. ASSUME NEW i \in 1 .. Len(rest) PROVE D[Len(o) + i] = rest[i]
      <4>1. 1 + i \in 1 .. Len(s) /\ n + (1 + i) = Len(o) + i  BY <1>16, <2>5, <2>6, <2>7
      <4> QED BY <1>16, <2>6, <4>1
    <3> QED BY <3>1, <3>2
  <2>9. \A i \in 1 .. Len(o) : D[i] \in 1 .. T - 1 /\ o[i] = LiteralsOf(packed)[D[i]]
    <3> TAKE i \in 1 .. Len(o)
    <3>1. CASE i \in 1 .. n  BY <1>16, <2>7, <3>1
    <3>2. CASE i \notin 1 .. n
      <4>1. i = n + 1 /\ 1 \in 1 .. Len(s)  BY <1>16, <2>5, <2>6, <2>7, <3>2
      <4>2. D[i] = leaf  BY <1>16, <2>6, <4>1
      <4> QED BY <2>3, <2>4, <2>7, <4>1, <4>2
    <3> QED BY <3>1, <3>2
  <2>10. Len(o) <= Len(D)  BY <1>16, <2>5, <2>7, <2>8
  <2>11. D' = D /\ unpacked' = o /\ Rest(Taken + 1)' = rest
    <3>1. D' = D  BY <2>1 DEF D
    <3>2. Rest(Taken + 1)' = Rest(Taken' + 1)  BY <2>1 DEF Rest
    <3> QED BY <2>1, <2>2, <3>1, <3>2 DEF o, rest
  <2>12. StreamInv'  BY <2>2, <2>8, <2>11 DEF StreamInv, D
  <2>13. OutputInv'
    <3>1. Total(Counts(packed))' = T /\ LiteralsOf(packed)' = LiteralsOf(packed)  BY <2>1 DEF T
    <3> QED BY <2>7, <2>9, <2>10, <2>11, <3>1 DEF OutputInv, D
  <2>14. TablesInv'  BY <1>1, <2>1 DEF TablesInv, TreeInv, Started, headVars, treeVars
  <2> QED BY <1>1, <2>1, <2>12, <2>13, <2>14 DEF IInv
<1> QED BY <1>19, <1>20

-----------------------------------------------------------------------------
(* The steps that read the header.                                           *)

\* Numbers of leaves that differ for the last length only.
LEMMA SameFirst ==
    ASSUME NEW s \in Seq(Nat), NEW t \in Seq(Nat), NEW L \in Nat \ {0}, Len(s) = L, Len(t) = L,
           \A i \in 1 .. L - 1 : s[i] = t[i]
    PROVE  /\ Total(t) - t[L] = Total(s) - s[L]
           /\ \A n \in 0 .. L - 1 : CountTo(s, n) = CountTo(t, n)
<1>1. ASSUME NEW n \in 0 .. L - 1 PROVE CountTo(s, n) = CountTo(t, n)
  <2> DEFINE a == SubSeq(s, 1, n)
             b == SubSeq(t, 1, n)
  <2>1. /\ a \in Seq(Nat) /\ Len(a) = n /\ \A i \in 1 .. n : a[i] = s[i]
        /\ b \in Seq(Nat) /\ Len(b) = n /\ \A i \in 1 .. n : b[i] = t[i]
      OBVIOUS
  <2>2. \A i \in 1 .. n : i \in 1 .. L - 1  OBVIOUS
  <2> HIDE DEF a, b
  <2>3. \A i \in 1 .. n : a[i] = b[i]  BY <2>1, <2>2
  <2>4. a = [i \in 1 .. n |-> a[i]] /\ b = [i \in 1 .. n |-> b[i]]  BY <2>1
  <2>5. a = b  BY <2>3, <2>4
  <2> QED BY <2>5 DEF CountTo, a, b
<1>2. L \in 1 .. L /\ L \in 1 .. Len(s) /\ L \in 1 .. Len(t) /\ L - 1 \in 0 .. Len(s)
      /\ L - 1 \in 0 .. L - 1
    OBVIOUS
<1>3. /\ Total(s) = CountTo(s, L - 1) + s[L] /\ CountTo(s, L - 1) \in Nat
      /\ Total(t) = CountTo(t, L - 1) + t[L] /\ CountTo(t, L - 1) \in Nat
    BY <1>2, CountStep
<1>4. s[L] \in Nat /\ t[L] \in Nat /\ CountTo(s, L - 1) = CountTo(t, L - 1)
    BY <1>1, <1>2
<1> DEFINE p == CountTo(s, L - 1)
           q == CountTo(t, L - 1)
           x == s[L]
           y == t[L]
<1> HIDE DEF p, q, x, y
<1>5. Total(t) - y = Total(s) - x
  <2>1. Total(s) = p + x /\ Total(t) = q + y /\ p = q /\ p \in Nat /\ x \in Nat /\ y \in Nat
      BY <1>3, <1>4 DEF p, q, x, y
  <2> QED BY <2>1
<1> QED BY <1>1, <1>5 DEF x, y

\* What a good header says of the tree.
LEMMA GoodIs ==
    ASSUME PackParameters, packed \in PackFiles, Started, Good(packed)
    PROVE  /\ 2 + maxLen <= Len(packed)
           /\ \A n \in 1 .. maxLen - 1 : Inner(Counts(packed))[n] >= 1
           /\ Inner(Counts(packed))[maxLen] = 0
           /\ Total(Counts(packed)) - 1 <= Literals
           /\ 1 + maxLen + Total(Counts(packed)) <= Len(packed)
<1>1. packed \in Seq(Nat) /\ maxLen = packed[2] /\ maxLen \in Nat \ {0} /\ Len(packed) \in Nat
    BY DEF PackParameters, Started
<1>2. /\ Len(packed) >= 2 + packed[2] /\ Weight(Counts(packed), 1 .. packed[2]) = 2 ^ packed[2]
      /\ Total(Counts(packed)) - 1 <= Literals
      /\ Len(packed) >= 1 + packed[2] + Total(Counts(packed))
    BY DEF Good, GoodHeader
<1>3. 2 + maxLen <= Len(packed)
    BY <1>1, <1>2
<1>4. /\ Counts(packed) \in Seq(Nat) /\ Len(Counts(packed)) = maxLen
         /\ Counts(packed)[maxLen] >= 2
      /\ Total(Counts(packed)) \in Nat
    BY <1>1, <1>3, CountsAre
<1>5. Inner(Counts(packed))[maxLen] = 0
    BY <1>1, <1>2, <1>4, WholeWeight
<1>6. Complete(Counts(packed))
    BY <1>1, <1>4, <1>5 DEF Complete
<1>7. \A n \in 0 .. maxLen - 1 : Inner(Counts(packed))[n] \in Nat \ {0}
    BY <1>4, <1>6, InnerBounds
<1>8. \A n \in 1 .. maxLen - 1 : Inner(Counts(packed))[n] >= 1
  <2>1. \A n \in 1 .. maxLen - 1 : n \in 0 .. maxLen - 1  OBVIOUS
  <2>2. \A x \in Nat \ {0} : x >= 1  OBVIOUS
  <2> QED BY <1>7, <2>1, <2>2
<1>9. 1 + maxLen + Total(Counts(packed)) <= Len(packed)
    BY <1>1, <1>2, <1>4
<1> QED BY <1>2, <1>3, <1>5, <1>8, <1>9

\* The invariant holds at the start.
LEMMA InvStart ==
    ASSUME PackInit
    PROVE  IInv
<1>1. LengthInv
    BY DEF PackInit, LengthInv
<1> QED BY <1>1 DEF PackInit, IInv

\* The numbers of the leaves but for EOB, while the literals are read.
LEMMA LiteralsTotal ==
    ASSUME PackParameters, packed \in PackFiles, LiteralsInv
    PROVE  /\ packed \in Seq(Nat) /\ maxLen \in Nat \ {0} /\ maxLen = packed[2]
           /\ Counts(packed) \in Seq(Nat) /\ Len(Counts(packed)) = maxLen
           /\ leaves \in Seq(Nat) /\ Len(leaves) = maxLen
           /\ \A i \in 1 .. maxLen - 1 : leaves[i] = Counts(packed)[i]
           /\ leaves[maxLen] = Counts(packed)[maxLen] - 1
           /\ Total(Counts(packed)) \in Nat /\ Total(Counts(packed)) >= 2
           /\ Total(leaves) = Total(Counts(packed)) - 1
<1> DEFINE s == Counts(packed)
           L == maxLen
<1>1. packed \in Seq(Nat) /\ L \in Nat \ {0} /\ L = packed[2] /\ 2 + L <= Len(packed)
  <2>1. packed \in Seq(Nat) /\ MaxBitLen \in Nat  BY DEF PackParameters
  <2>2. L = packed[2] /\ L \in 1 .. MaxBitLen /\ 2 + L <= Len(packed)
      BY DEF LiteralsInv, TreeInv, Started
  <2>3. L \in Nat \ {0}
    <3> HIDE DEF L
    <3> QED BY ONLY <2>1, <2>2
  <2> QED BY <2>1, <2>2, <2>3
<1>2. s \in Seq(Nat) /\ Len(s) = L /\ s[L] >= 2 /\ Total(s) \in Nat /\ Total(s) >= 2
    BY <1>1, CountsAre
<1>3. leaves = [s EXCEPT ![L] = @ - 1]
    BY DEF LiteralsInv
<1> HIDE DEF s, L
<1>4. L \in 1 .. L /\ \A i \in 1 .. L : s[i] \in Nat
  <2>1. L \in Nat \ {0} /\ s \in Seq(Nat) /\ Len(s) = L  BY <1>1, <1>2
  <2>2. L \in 1 .. L  BY ONLY <2>1
  <2>3. \A i \in 1 .. Len(s) : s[i] \in Nat  BY ONLY <2>1
  <2> QED BY <2>1, <2>2, <2>3, Zenon
<1>5. s[L] - 1 \in Nat
    BY <1>2, <1>4
<1>6. s = [i \in 1 .. L |-> s[i]]
    BY <1>2
<1>7. leaves = [i \in 1 .. L |-> IF i = L THEN s[L] - 1 ELSE s[i]]
    BY <1>3, <1>4, <1>6
<1>8. /\ leaves \in Seq(Nat) /\ Len(leaves) = L
      /\ \A i \in 1 .. L - 1 : leaves[i] = s[i]
      /\ leaves[L] = s[L] - 1
  <2> DEFINE e(i) == IF i = L THEN s[L] - 1 ELSE s[i]
  <2>1. \A i \in 1 .. L : e(i) \in Nat  BY <1>4, <1>5
  <2>2. e(L) = s[L] - 1  OBVIOUS
  <2>3. \A i \in 1 .. L - 1 : i \in 1 .. L /\ e(i) = s[i]  BY <1>1, SMTT(30)
  <2>4. leaves = [i \in 1 .. L |-> e(i)]  BY <1>7
  <2> HIDE DEF e
  <2>5. leaves \in Seq(Nat) /\ Len(leaves) = L /\ \A i \in 1 .. L : leaves[i] = e(i)
      BY <1>1, <2>1, <2>4, SMTT(30)
  <2> QED BY <1>4, <2>2, <2>3, <2>5
<1>9. Total(leaves) = Total(s) - 1
  <2>1. Total(s) - s[L] = Total(leaves) - leaves[L]
      BY <1>1, <1>2, <1>8, SameFirst
  <2>2. Total(leaves) \in Nat
    <3>1. CountTo(leaves, L) = Total(leaves) /\ L \in 0 .. L  BY <1>1, <1>8, CountStep
    <3> QED BY <1>8, <3>1, CountStep
  <2> DEFINE x == s[L]
  <2> HIDE DEF x
  <2>3. x \in Nat /\ leaves[L] = x - 1 /\ Total(s) - x = Total(leaves) - leaves[L]
      BY <1>4, <1>8, <2>1 DEF x
  <2> QED BY <1>2, <2>2, <2>3
<1> QED BY <1>1, <1>2, <1>8, <1>9 DEF s, L

\* A header that is cut is not a good one.
LEMMA EndOfFileStep ==
    ASSUME PackParameters, IInv, EndOfFile
    PROVE  IInv'
<1>1. packed \in PackFiles /\ packed \in Seq(Nat) /\ Len(packed) \in Nat
    BY DEF IInv, PackParameters
<1>2. SUFFICES ASSUME Good(packed) PROVE FALSE
  <2>1. stage' = "error" /\ packed' = packed  BY DEF EndOfFile
  <2> QED BY <1>1, <2>1 DEF IInv
<1>3. CASE stage = "length"
  <2>1. pos = 0 /\ pos + 2 > Len(packed)
    <3>1. pos = 0  BY <1>3 DEF IInv, LengthInv
    <3>2. pos + 2 > Len(packed)  BY <1>3 DEF EndOfFile
    <3> QED BY <3>1, <3>2
  <2>2. Len(packed) >= 2  BY <1>2 DEF Good, GoodHeader
  <2> QED BY <1>1, <2>1, <2>2
<1>4. CASE stage = "leaves"
  <2>1. LeavesInv  BY <1>4 DEF IInv
  <2>2. 2 + maxLen <= Len(packed)  BY <1>1, <1>2, <2>1, GoodIs DEF LeavesInv
  <2>3. /\ pos = 2 + Len(leaves) /\ Len(leaves) \in Nat /\ Len(leaves) < maxLen
           /\ maxLen \in Nat
        /\ pos + 1 > Len(packed)
      BY <1>4, <2>1 DEF LeavesInv, Started, EndOfFile
  <2> QED BY <1>1, <2>2, <2>3
<1>5. CASE stage = "literals"
  <2>1. LiteralsInv  BY <1>5 DEF IInv
  <2>2. 1 + maxLen + Total(Counts(packed)) <= Len(packed)
      BY <1>1, <1>2, <2>1, GoodIs DEF LiteralsInv, TreeInv
  <2>3. /\ pos = 2 + maxLen + Len(literal) /\ Len(literal) < Total(leaves)
        /\ pos + 1 > Len(packed) /\ Len(literal) \in Nat
      BY <1>5, <2>1 DEF LiteralsInv, TreeInv, EndOfFile
  <2>4. Total(leaves) = Total(Counts(packed)) - 1 /\ maxLen \in Nat
        /\ Total(Counts(packed)) \in Nat
      BY <1>1, <2>1, LiteralsTotal
  <2> QED BY <1>1, <2>2, <2>3, <2>4
<1> QED BY <1>3, <1>4, <1>5 DEF EndOfFile

\* The bytes of the length of the text and of the largest code length.
LEMMA ReadLengthsStep ==
    ASSUME PackParameters, IInv, ReadLengths
    PROVE  IInv'
<1>1. /\ packed \in PackFiles /\ packed \in Seq(Nat) /\ Len(packed) \in Nat /\ MaxBitLen \in Nat
      /\ LengthInv /\ unpacked = <<>> /\ bitbuf = <<>>
    BY DEF IInv, PackParameters, ReadLengths
<1>2. /\ pos' = 2 /\ origLen' = packed[1] /\ maxLen' = packed[2] /\ packed' = packed
         /\ Len(packed) >= 2
      /\ stage' = IF maxLen' \in 1 .. MaxBitLen THEN "leaves" ELSE "error"
      /\ leaves' = <<>> /\ maxLeaves' = 1 /\ literal' = <<>> /\ bitbuf' = <<>>
         /\ unpacked' = <<>>
    BY <1>1 DEF ReadLengths, LengthInv, treeVars, Byte
<1>3. CASE maxLen' \in 1 .. MaxBitLen
  <2>1. Inner(<<>>)[0] = 1 /\ <<>> \in Seq(Nat) /\ Len(<<>>) = 0
    <3>1. <<>> \in Seq(Nat) /\ Len(<<>>) = 0  OBVIOUS
    <3> QED BY <3>1, InnerStep
  <2>2. maxLeaves' = 2 * Inner(<<>>)[0] - 1  BY <1>2, <2>1
  <2>3. Started'  BY <1>2, <1>3 DEF Started
  <2>4. LeavesInv'  BY <1>2, <1>3, <2>1, <2>2, <2>3 DEF LeavesInv
  <2> QED BY <1>1, <1>2, <1>3, <2>4 DEF IInv
<1>4. CASE ~ (maxLen' \in 1 .. MaxBitLen)
  <2>1. ~ Good(packed)'  BY <1>2, <1>4 DEF Good, GoodHeader
  <2> QED BY <1>1, <1>2, <1>4, <2>1 DEF IInv
<1> QED BY <1>3, <1>4

\* One more level of the tree, from the level above.
LEMMA NextLevel ==
    ASSUME NEW s \in Seq(Nat), NEW n \in Nat
    PROVE  /\ Append(s, n) \in Seq(Nat) /\ Len(Append(s, n)) = Len(s) + 1
           /\ \A i \in 1 .. Len(s) : Append(s, n)[i] = s[i]
           /\ Append(s, n)[Len(s) + 1] = n
           /\ \A i \in 0 .. Len(s) : Inner(Append(s, n))[i] = Inner(s)[i]
           /\ Inner(Append(s, n))[Len(s) + 1] = 2 * Inner(s)[Len(s)] - n
           /\ Inner(s)[Len(s)] \in Int
<1> DEFINE t == Append(s, n)
           l == Len(s)
<1>1. /\ t \in Seq(Nat) /\ Len(t) = l + 1 /\ \A i \in 1 .. l : t[i] = s[i]
      /\ t[l + 1] = n
    BY OneMore
<1>2. l \in Nat
    OBVIOUS
<1> HIDE DEF t, l
<1>3. l \in 0 .. l /\ l <= Len(t) /\ l + 1 \in 1 .. Len(t) /\ (l + 1) - 1 = l
    BY <1>1, <1>2
<1>4. \A i \in 0 .. l : Inner(s)[i] = Inner(t)[i]
    BY <1>1, <1>3, InnerOfFirst DEF l
<1>5. Inner(t)[l + 1] = 2 * Inner(t)[(l + 1) - 1] - t[l + 1]
    BY <1>1, <1>3, InnerStep
<1>6. Inner(s)[l] \in Int
  <2>1. Inner(s) \in [0 .. l -> Int]  BY InnerStep DEF l
  <2> QED BY <1>3, <2>1
<1>7. Inner(t)[l + 1] = 2 * Inner(s)[l] - n
  <2>1. Inner(t)[(l + 1) - 1] = Inner(s)[l]  BY <1>3, <1>4
  <2> QED BY <1>1, <1>5, <2>1
<1> QED BY <1>1, <1>4, <1>6, <1>7 DEF t, l

\* The number of the leaves of one more length.
LEMMA ReadLeavesStep ==
    ASSUME PackParameters, IInv, ReadLeaves
    PROVE  IInv'
<1> DEFINE n == Byte(pos + 1)
           l == Len(leaves)
           len == l + 1
           last == len = maxLen
           all == Append(leaves, n)
           L == maxLen
           s == Counts(packed)
           r == Inner(s)
           T == Total(s)
           x == Inner(leaves)[l]
<1>1. /\ packed \in PackFiles /\ packed \in Seq(Nat) /\ Len(packed) \in Nat /\ MaxBitLen \in Nat
      /\ LeavesInv /\ unpacked = <<>> /\ bitbuf = <<>> /\ pos < Len(packed)
    BY DEF IInv, PackParameters, ReadLeaves
<1>2. /\ Started /\ pos = 2 + l /\ leaves \in Seq(Nat) /\ l < L
      /\ \A i \in 1 .. l : leaves[i] = packed[2 + i] /\ Inner(leaves)[i] >= 1
      /\ maxLeaves = 2 * x - 1 /\ literal = <<>>
    BY <1>1 DEF LeavesInv
<1>3. /\ L \in Nat \ {0} /\ L = packed[2] /\ origLen = packed[1] /\ L \in 1 .. MaxBitLen
      /\ Len(packed) >= 2
    BY <1>1, <1>2 DEF Started
<1>4. l \in Nat /\ len \in Nat \ {0} /\ len <= L
  <2>1. l \in Nat  BY <1>2
  <2> HIDE DEF l, L
  <2> QED BY <1>2, <1>3, <2>1
<1>5. n \in Nat /\ n = packed[2 + len] /\ 2 + len <= Len(packed) /\ pos + 1 = 2 + len
      /\ pos \in Nat
  <2> HIDE DEF l
  <2>1. pos + 1 = 2 + len /\ pos \in Nat  BY <1>2, <1>4
  <2>2. pos + 1 \in 1 .. Len(packed)  BY <1>1, <2>1
  <2>3. n = packed[2 + len]  BY <2>1 DEF Byte
  <2>4. packed[pos + 1] \in Nat  BY <1>1, <2>2
  <2> QED BY <1>1, <2>1, <2>2, <2>3, <2>4
<1>6. /\ pos' = pos + 1 /\ maxLeaves' = (maxLeaves - n + 1) * 2 - 1
      /\ leaves' = IF last THEN [all EXCEPT ![len] = n + 1] ELSE all
      /\ stage' = IF \/ maxLeaves - (IF last THEN 1 ELSE 0) < n
                     \/ last /\ Literals <= Total(all)
                  THEN "error"
                  ELSE IF last THEN "literals" ELSE "leaves"
      /\ packed' = packed /\ origLen' = origLen /\ maxLen' = maxLen /\ literal' = literal
      /\ bitbuf' = bitbuf /\ unpacked' = unpacked
    BY DEF ReadLeaves, headVars
<1>7. /\ all \in Seq(Nat) /\ Len(all) = len /\ \A i \in 1 .. l : all[i] = leaves[i]
      /\ all[len] = n
      /\ \A i \in 0 .. l : Inner(all)[i] = Inner(leaves)[i]
      /\ Inner(all)[len] = 2 * x - n
      /\ x \in Int
  <2> HIDE DEF n
  <2> QED BY <1>2, <1>5, NextLevel
<1>8. Started'
    BY <1>2, <1>6 DEF Started
<1> HIDE DEF n, l, all, L, x
<1>9. \A i \in 1 .. len : i \in 1 .. l \/ i = len
    BY <1>4
<1>10. \A i \in 1 .. len : all[i] = packed[2 + i]
    BY <1>2, <1>5, <1>7, <1>9
<1>11. ASSUME Good(packed)
       PROVE  /\ 2 + L <= Len(packed) /\ r[L] = 0 /\ T - 1 <= Literals
              /\ \A i \in 1 .. L - 1 : r[i] >= 1
    BY <1>1, <1>2, <1>11, GoodIs DEF L
<1>12. ASSUME 2 + L <= Len(packed)
       PROVE  /\ s \in Seq(Nat) /\ Len(s) = L /\ s[L] >= 2 /\ T \in Nat /\ T >= 2
              /\ \A i \in 1 .. L : s[i] = packed[2 + i] + (IF i = L THEN 2 ELSE 0)
                 /\ packed[2 + i] \in Nat
  <2>1. 2 + maxLen <= Len(packed)  BY <1>12 DEF L
  <2>2. maxLen = packed[2] /\ maxLen \in Nat \ {0}  BY <1>3 DEF L
  <2> QED BY <1>1, <2>1, <2>2, CountsAre DEF L
<1>13. CASE ~ last
  <2>1. /\ leaves' = all /\ len < L
        /\ stage' = IF maxLeaves < n THEN "error" ELSE "leaves"
    <3>1. len < L  BY <1>3, <1>4, <1>13 DEF L
    <3>2. maxLeaves - 0 = maxLeaves  BY <1>2, <1>7
    <3> QED BY <1>6, <1>13, <3>1, <3>2
  <2>2. CASE maxLeaves < n
    <3>1. Inner(all)[len] < 1  BY <1>2, <1>5, <1>7, <2>2
    <3>2. SUFFICES ASSUME Good(packed) PROVE FALSE
      <4>1. stage' = "error"  BY <2>1, <2>2
      <4> QED BY <1>1, <1>6, <4>1 DEF IInv
    <3>3. /\ 2 + L <= Len(packed) /\ \A i \in 1 .. L - 1 : r[i] >= 1  BY <1>11, <3>2
    <3>4. s \in Seq(Nat) /\ Len(s) = L
          /\ \A i \in 1 .. L : s[i] = packed[2 + i] + (IF i = L THEN 2 ELSE 0)
             /\ packed[2 + i] \in Nat
        BY <1>12, <3>3
    <3>5. ASSUME NEW i \in 1 .. len PROVE all[i] = s[i]
      <4>1. i \in 1 .. L /\ i # L  BY <1>3, <1>4, <2>1
      <4>2. s[i] = packed[2 + i] + 0 /\ packed[2 + i] \in Nat  BY <3>4, <4>1
      <4> QED BY <1>10, <4>2
    <3>6. len \in 0 .. len /\ len <= L /\ len \in 1 .. L - 1  BY <1>3, <1>4, <2>1
    <3>7. Inner(all)[len] = r[len]
      <4> HIDE DEF s
      <4> QED BY <1>7, <3>4, <3>5, <3>6, InnerOfFirst, ZenonT(60)
    <3>8. r[len] >= 1  BY <3>3, <3>6
    <3>9. Inner(all)[len] \in Int  BY <1>5, <1>7
    <3> QED BY <3>1, <3>7, <3>8, <3>9
  <2>3. CASE ~ (maxLeaves < n)
    <3>1. stage' = "leaves"  BY <2>1, <2>3
    <3>2. Inner(all)[len] >= 1  BY <1>2, <1>5, <1>7, <2>3
    <3>3. \A i \in 1 .. l : i \in 0 .. l  BY <1>4
    <3>4. \A i \in 1 .. len : Inner(all)[i] >= 1  BY <1>2, <1>7, <1>9, <3>2, <3>3
    <3>5. maxLeaves' = 2 * Inner(all)[len] - 1  BY <1>2, <1>5, <1>6, <1>7, SMTT(30)
    <3>6. pos' = 2 + len  BY <1>5, <1>6
    <3>7. LeavesInv'
        BY <1>2, <1>6, <1>7, <1>8, <1>10, <2>1, <3>4, <3>5, <3>6 DEF LeavesInv, L
    <3> QED BY <1>1, <1>6, <3>1, <3>7 DEF IInv
  <2> QED BY <2>2, <2>3
<1>14. CASE last
  <2>1. /\ len = L /\ 2 + L <= Len(packed) /\ L - 1 = l
        /\ leaves' = [all EXCEPT ![len] = n + 1]
        /\ stage' = IF maxLeaves - 1 < n \/ Literals <= Total(all) THEN "error" ELSE "literals"
    <3>1. len = L  BY <1>14 DEF L
    <3>2. L - 1 = l  BY <1>4, <3>1
    <3> QED BY <1>5, <1>6, <1>14, <3>1, <3>2
  <2>2. /\ s \in Seq(Nat) /\ Len(s) = L /\ s[L] >= 2 /\ T \in Nat /\ T >= 2
        /\ \A i \in 1 .. L : s[i] = packed[2 + i] + (IF i = L THEN 2 ELSE 0)
           /\ packed[2 + i] \in Nat
      BY <1>12, <2>1
  <2>3. /\ s[L] = n + 2
        /\ \A i \in 1 .. L - 1 : s[i] = all[i] /\ s[i] = leaves[i]
    <3>1. L \in 1 .. L  BY <1>3
    <3>2. s[L] = packed[2 + L] + 2  BY <2>2, <3>1
    <3>3. ASSUME NEW i \in 1 .. L - 1 PROVE s[i] = all[i] /\ s[i] = leaves[i]
      <4>1. i \in 1 .. L /\ i # L /\ i \in 1 .. len /\ i \in 1 .. l  BY <1>3, <1>4, <2>1
      <4>2. s[i] = packed[2 + i] + 0 /\ packed[2 + i] \in Nat  BY <2>2, <4>1
      <4> QED BY <1>2, <1>10, <4>1, <4>2
    <3> QED BY <1>5, <2>1, <3>2, <3>3
  <2> HIDE DEF s
  <2>4. /\ \A i \in 0 .. l : Inner(leaves)[i] = r[i]
        /\ r[L] = 2 * x - (n + 2)
    <3>1. l <= Len(s) /\ L \in 1 .. Len(s) /\ l \in 0 .. l /\ \A i \in 1 .. l : leaves[i] = s[i]
        BY <1>3, <1>4, <2>1, <2>2, <2>3, SMTT(30)
    <3>2. \A i \in 0 .. l : Inner(leaves)[i] = r[i]
        BY <1>2, <2>2, <3>1, InnerOfFirst DEF l
    <3>3. r[L] = 2 * r[L - 1] - s[L]  BY <2>2, <3>1, InnerStep
    <3>4. r[L - 1] = x  BY <2>1, <3>1, <3>2 DEF x
    <3> QED BY <2>3, <3>2, <3>3, <3>4
  <2>5. T - (n + 2) = Total(all) - n /\ Total(all) \in Nat
    <3>1. Len(all) = L /\ all[L] = n  BY <1>7, <2>1
    <3>2. \A i \in 1 .. L - 1 : all[i] = s[i]  BY <2>3
    <3>3. Total(s) - s[L] = Total(all) - all[L]  BY <1>3, <1>7, <2>2, <3>1, <3>2, SameFirst
    <3>4. Total(all) \in Nat
      <4>1. CountTo(all, L) = Total(all) /\ L \in 0 .. Len(all)  BY <1>3, <1>7, <3>1, CountStep
      <4> QED BY <1>7, <4>1, CountStep
    <3> QED BY <2>3, <3>1, <3>3, <3>4
  <2>6. T = Total(all) + 2  BY <1>5, <2>2, <2>5, SMTT(30)
  <2>7. /\ r[L] = maxLeaves - 1 - n /\ r[L] \in Int
    <3>1. r[L] = (maxLeaves - 1) - n /\ r[L] \in Int  BY <1>2, <1>5, <1>7, <2>4, SMTT(30)
    <3> QED BY <1>2, <1>5, <1>7, <3>1
  <2> DEFINE y == r[L]
             t == Total(all)
  <2>10. /\ y = (maxLeaves - 1) - n /\ y \in Int /\ T = t + 2 /\ t \in Nat /\ n \in Nat
         /\ maxLeaves \in Int /\ Literals \in Nat
      BY <1>2, <1>5, <1>7, <2>5, <2>6, <2>7 DEF PackParameters
  <2> HIDE DEF y, t, T
  <2>8. CASE maxLeaves - 1 < n \/ Literals <= Total(all)
    <3>1. SUFFICES ASSUME Good(packed) PROVE FALSE
      <4>1. stage' = "error"  BY <2>1, <2>8
      <4> QED BY <1>1, <1>6, <4>1 DEF IInv
    <3>2. y = 0 /\ T - 1 <= Literals  BY <1>11, <3>1 DEF y
    <3>3. maxLeaves - 1 < n \/ Literals <= t  BY <2>8 DEF t
    <3> QED BY <2>10, <3>2, <3>3
  <2>9. CASE ~ (maxLeaves - 1 < n \/ Literals <= Total(all))
    <3>1. stage' = "literals"  BY <2>1, <2>9
    <3>2. ~ (maxLeaves - 1 < n) /\ ~ (Literals <= t)  BY <2>9 DEF t
    <3>3. r[L] >= 0 /\ T - 1 <= Literals
      <4>1. y >= 0 /\ T - 1 <= Literals  BY <2>10, <3>2
      <4> QED BY <4>1 DEF y
    <3>4. \A i \in 1 .. L - 1 : r[i] >= 1
      <4>1. \A i \in 1 .. L - 1 : i \in 1 .. l /\ i \in 0 .. l  BY <1>4, <2>1
      <4> QED BY <1>2, <2>4, <4>1
    <3>5. leaves' = [s EXCEPT ![L] = @ - 1]
      <4> DEFINE a == [all EXCEPT ![L] = n + 1]
                 b == [s EXCEPT ![L] = @ - 1]
      <4>1. L \in 1 .. L /\ Len(all) = L  BY <1>3, <1>7, <2>1
      <4>2. all = [i \in 1 .. L |-> all[i]] /\ s = [i \in 1 .. L |-> s[i]]
        <5>1. all = [i \in 1 .. L |-> all[i]]  BY <1>7, <4>1
        <5>2. s = [i \in 1 .. L |-> s[i]]  BY <2>2
        <5> QED BY <5>1, <5>2
      <4>3. a = [i \in 1 .. L |-> IF i = L THEN n + 1 ELSE all[i]]  BY <4>1, <4>2
      <4>4. b = [i \in 1 .. L |-> IF i = L THEN s[L] - 1 ELSE s[i]]  BY <4>1, <4>2
      <4>5. s[L] - 1 = n + 1  BY <1>5, <2>3
      <4>6. \A i \in 1 .. L : i = L \/ i \in 1 .. L - 1  BY <1>3
      <4>7. \A i \in 1 .. L : (IF i = L THEN n + 1 ELSE all[i]) = (IF i = L THEN s[L] - 1 ELSE s[i])
          BY <2>3, <4>5, <4>6
      <4> HIDE DEF a, b
      <4>8. a = b  BY <4>3, <4>4, <4>7
      <4> QED BY <2>1, <4>8 DEF a, b
    <3>6. literal' = <<>> /\ <<>> \in Seq(Nat) /\ Len(<<>>) = 0  BY <1>2, <1>6
    <3>7. pos' = 2 + L + 0 /\ pos' <= Len(packed)  BY <1>3, <1>5, <1>6, <2>1
    <3>8. TreeInv'
      <4>1. \A i \in 1 .. Len(literal') : FALSE  BY <3>6
      <4> QED BY <1>6, <1>8, <2>1, <3>3, <3>4, <3>6, <4>1 DEF TreeInv, L, s, T
    <3>9. 0 <= T - 1  BY <2>2
    <3>10. LiteralsInv'
        BY <1>6, <3>5, <3>6, <3>7, <3>8, <3>9 DEF LiteralsInv, L, s, T
    <3> QED BY <1>1, <1>6, <3>1, <3>10 DEF IInv
  <2> QED BY <2>8, <2>9
<1> QED BY <1>13, <1>14

\* One more literal of the header.
LEMMA ReadLiteralStep ==
    ASSUME PackParameters, IInv, ReadLiteral
    PROVE  IInv'
<1> DEFINE x == Byte(pos + 1)
           l == Len(literal)
<1>1. /\ packed \in PackFiles /\ packed \in Seq(Nat) /\ Len(packed) \in Nat
      /\ LiteralsInv /\ unpacked = <<>> /\ bitbuf = <<>> /\ pos < Len(packed)
      /\ l < Total(leaves)
    BY DEF IInv, PackParameters, ReadLiteral
<1>2. /\ TreeInv /\ pos = 2 + maxLen + l /\ literal \in Seq(Nat)
      /\ \A i \in 1 .. l : literal[i] = packed[2 + maxLen + i]
    BY <1>1 DEF LiteralsInv, TreeInv
<1>3. /\ maxLen \in Nat \ {0} /\ Total(Counts(packed)) \in Nat
      /\ Total(leaves) = Total(Counts(packed)) - 1
    BY <1>1, LiteralsTotal
<1>4. l \in Nat
    BY <1>2
<1>5. x = packed[2 + maxLen + (l + 1)] /\ x \in Nat /\ pos + 1 = 2 + maxLen + (l + 1)
  <2> HIDE DEF l
  <2>1. pos + 1 = 2 + maxLen + (l + 1) /\ pos + 1 \in 1 .. Len(packed)
      BY <1>1, <1>2, <1>3, <1>4
  <2>2. packed[pos + 1] \in Nat  BY <1>1, <2>1
  <2> QED BY <2>1, <2>2 DEF Byte
<1>6. /\ literal' = Append(literal, x) /\ pos' = pos + 1 /\ stage' = "literals"
         /\ packed' = packed
      /\ UNCHANGED <<headVars, leaves, maxLeaves, bitbuf, unpacked>>
    BY DEF ReadLiteral
<1> HIDE DEF x, l
<1>7. /\ literal' \in Seq(Nat) /\ Len(literal') = l + 1
      /\ \A i \in 1 .. l : literal'[i] = literal[i]
      /\ literal'[l + 1] = x
    BY <1>2, <1>5, <1>6, OneMore DEF l
<1>8. \A i \in 1 .. Len(literal') : literal'[i] = packed[2 + maxLen + i]
  <2>1. \A i \in 1 .. l + 1 : i \in 1 .. l \/ i = l + 1  BY <1>4
  <2> QED BY <1>2, <1>5, <1>7, <2>1
<1>9. pos' = 2 + maxLen + Len(literal') /\ pos' <= Len(packed)
      /\ Len(literal') <= Total(Counts(packed)) - 1
    BY <1>1, <1>2, <1>3, <1>4, <1>5, <1>6, <1>7
<1>10. TreeInv'
    BY <1>2, <1>6, <1>7, <1>8 DEF TreeInv, Started, headVars
<1>11. LiteralsInv'
    BY <1>1, <1>6, <1>9, <1>10 DEF LiteralsInv, headVars
<1> QED BY <1>1, <1>6, <1>11 DEF IInv

-----------------------------------------------------------------------------
(* The step that builds the tables.                                          *)

\* The nodes of the levels from the longest codes up, and the numbers of the peeked
\* bits that the codes of each length start at, as build_tree counts them.
Up(L, all) ==
    LET up[len \in 1 .. L + 1] ==
            IF len > L THEN 0 ELSE (up[len + 1] \div 2) + all[len]
    IN  up
From(peek, all) ==
    LET from[len \in 0 .. peek] ==
            IF len = 0 THEN 2 ^ peek ELSE from[len - 1] - all[len] * 2 ^ (peek - len)
    IN  from

\* Counting the nodes from the longest codes up comes to an end.
LEMMA UpStep ==
    ASSUME NEW L \in Nat \ {0}, NEW all
    PROVE  /\ Up(L, all)[L + 1] = 0
           /\ \A n \in 1 .. L : Up(L, all)[n] = (Up(L, all)[n + 1] \div 2) + all[n]
<1> DEFINE N == L + 1
           Step(f, i) == IF i > L THEN 0 ELSE (f[i + 1] \div 2) + all[i]
           Solves(f, m) == f = [i \in N - m + 1 .. N |-> Step(f, i)]
           P == {m \in Nat : m <= N => \E f : Solves(f, m)}
           F == CHOOSE f : f = [i \in 1 .. N |-> Step(f, i)]
<1>1. N \in Nat /\ N = L + 1
    OBVIOUS
<1>2. Up(L, all) = F
    BY DEF Up
<1> HIDE DEF F, N
<1>3. 0 \in P
  <2> DEFINE f == [i \in N - 0 + 1 .. N |-> <<>>]
  <2>1. N - 0 + 1 .. N = {}  BY <1>1
  <2>2. Solves(f, 0)
    <3> HIDE DEF Step
    <3> QED BY <2>1
  <2> HIDE DEF Solves, f
  <2> QED BY <2>2
<1>4. ASSUME NEW m \in Nat, m \in P PROVE m + 1 \in P
  <2> SUFFICES ASSUME m + 1 <= N PROVE \E f : Solves(f, m + 1)
    <3> HIDE DEF Solves
    <3> QED OBVIOUS
  <2>1. PICK g : Solves(g, m)
    <3>1. m <= N  BY <1>1
    <3> HIDE DEF Solves
    <3> QED BY <1>4, <3>1
  <2> DEFINE x == N - (m + 1) + 1
             h == [i \in x .. N |-> IF i = x THEN Step(g, x) ELSE g[i]]
  <2>2. /\ x \in 1 .. N /\ N - m + 1 = x + 1
        /\ \A i \in x .. N : i = x \/ i \in x + 1 .. N
        /\ \A i \in x + 1 .. N : i # x /\ i \in x .. N
        /\ \A i \in x .. N : i > L \/ i + 1 \in x + 1 .. N
      BY <1>1
  <2>3. \A i \in x + 1 .. N : g[i] = Step(g, i)
    <3> HIDE DEF Step, x
    <3>1. g = [i \in x + 1 .. N |-> Step(g, i)]  BY <2>1, <2>2
    <3> QED BY <3>1
  <2> HIDE DEF x
  <2>4. /\ h[x] = Step(g, x) /\ \A i \in x + 1 .. N : h[i] = g[i]
        /\ h = [i \in x .. N |-> h[i]]
    <3>1. x \in x .. N  BY <2>2
    <3> HIDE DEF Step
    <3> QED BY <2>2, <3>1
  <2> HIDE DEF h
  <2>5. \A i \in x .. N : Step(h, i) = Step(g, i)
    <3> TAKE i \in x .. N
    <3>1. CASE i > L  BY <3>1
    <3>2. CASE ~ (i > L)
      <4>1. h[i + 1] = g[i + 1]  BY <2>2, <2>4, <3>2
      <4> QED BY <4>1
    <3> QED BY <3>1, <3>2
  <2>6. \A i \in x .. N : h[i] = Step(h, i)
    <3> HIDE DEF Step
    <3> QED BY <2>2, <2>3, <2>4, <2>5
  <2>7. h = [i \in x .. N |-> Step(h, i)]
    <3> HIDE DEF Step
    <3> QED BY <2>4, <2>6
  <2>8. Solves(h, m + 1)
    <3> HIDE DEF Step
    <3> QED BY <2>7 DEF x
  <2> HIDE DEF Solves
  <2> QED BY <2>8
<1>5. N \in P
  <2> HIDE DEF P
  <2> QED BY <1>1, <1>3, <1>4, NatSetInduction
<1>6. F = [i \in 1 .. N |-> Step(F, i)]
  <2>1. N - N + 1 = 1 /\ N <= N  BY <1>1
  <2> HIDE DEF Step
  <2>2. PICK f : f = [i \in 1 .. N |-> Step(f, i)]  BY <1>1, <1>5, <2>1
  <2> QED BY <2>2 DEF F
<1>7. \A i \in 1 .. N : F[i] = Step(F, i)
  <2> HIDE DEF Step
  <2> QED BY <1>6
<1>8. L + 1 \in 1 .. N /\ L + 1 > L /\ \A n \in 1 .. L : n \in 1 .. N /\ ~ (n > L)
    BY <1>1
<1>9. Step(F, L + 1) = 0 /\ \A n \in 1 .. L : Step(F, n) = (F[n + 1] \div 2) + all[n]
    BY <1>8
<1> HIDE DEF Step
<1> QED BY <1>2, <1>7, <1>8, <1>9

\* The halves of two numbers, of which the second one is even and not less.
LEMMA Halves ==
    ASSUME NEW u \in Nat, NEW i \in Nat, u <= 2 * i
    PROVE  u \div 2 \in Nat /\ u \div 2 <= i /\ (u \div 2 = i <=> u = 2 * i)
OBVIOUS

\* What is counted from the longest codes up are the inner nodes and the leaves of
\* a level, exactly when the tree is complete; they are fewer when it is not.
LEMMA UpIs ==
    ASSUME NEW counts \in Seq(Nat), NEW L \in Nat \ {0}, Len(counts) = L,
           \A n \in 1 .. L : Inner(counts)[n] >= 0
    PROVE  \A n \in 0 .. L :
            /\ Up(L, counts)[n + 1] \in Nat
            /\ Up(L, counts)[n + 1] \div 2 \in Nat
            /\ Up(L, counts)[n + 1] \div 2 <= Inner(counts)[n]
            /\ Up(L, counts)[n + 1] \div 2 = Inner(counts)[n] <=> Inner(counts)[L] = 0
            /\ Inner(counts)[n] \in Nat
<1> DEFINE r == Inner(counts)
           u == Up(L, counts)
           Right(n) == /\ u[n + 1] \in Nat /\ u[n + 1] <= 2 * r[n]
                       /\ u[n + 1] = 2 * r[n] <=> r[L] = 0
           P == {m \in Nat : m <= L => Right(L - m)}
<1>1. /\ r \in [0 .. L -> Int] /\ r[0] = 1
      /\ \A n \in 1 .. L : r[n] = 2 * r[n - 1] - counts[n]
    BY InnerStep
<1>2. u[L + 1] = 0 /\ \A n \in 1 .. L : u[n] = (u[n + 1] \div 2) + counts[n]
    BY UpStep
<1>3. \A n \in 1 .. L : counts[n] \in Nat
    OBVIOUS
<1>4. \A n \in 1 .. L : r[n] >= 0
    OBVIOUS
<1> HIDE DEF r, u
<1>5. \A n \in 0 .. L : r[n] \in Nat
  <2>1. \A n \in 0 .. L : n = 0 \/ n \in 1 .. L  OBVIOUS
  <2>2. \A n \in 0 .. L : r[n] \in Int /\ r[n] >= 0  BY <1>1, <1>4, <2>1
  <2> QED BY <2>2
<1>6. 0 \in P
  <2>1. L - 0 = L /\ L \in 0 .. L  OBVIOUS
  <2>2. r[L] \in Nat  BY <1>5, <2>1
  <2>3. Right(L)  BY <1>2, <2>2
  <2> HIDE DEF Right
  <2> QED BY <2>1, <2>3
<1>7. ASSUME NEW m \in Nat, m \in P PROVE m + 1 \in P
  <2> SUFFICES ASSUME m + 1 <= L PROVE Right(L - (m + 1))
    <3> HIDE DEF Right
    <3> QED OBVIOUS
  <2> DEFINE n == L - m
  <2>1. n \in 1 .. L /\ L - (m + 1) = n - 1 /\ (n - 1) + 1 = n /\ n \in 0 .. L
        /\ n - 1 \in 0 .. L /\ m <= L
      OBVIOUS
  <2>2. Right(n)
    <3> HIDE DEF Right
    <3> QED BY <1>7, <2>1
  <2> HIDE DEF n
  <2> DEFINE a == u[n + 1]
             i == r[n]
             j == r[n - 1]
             k == counts[n]
             b == u[n]
             h == a \div 2
  <2>3. /\ a \in Nat /\ i \in Nat /\ j \in Nat /\ k \in Nat /\ a <= 2 * i
           /\ (a = 2 * i <=> r[L] = 0)
        /\ i = 2 * j - k /\ b = h + k
      BY <1>1, <1>2, <1>3, <1>5, <2>1, <2>2
  <2>4. h \in Nat /\ h <= i /\ (h = i <=> a = 2 * i)
    <3> HIDE DEF a, i
    <3> QED BY <2>3, Halves
  <2> HIDE DEF a, i, j, k, b, h
  <2>5. b \in Nat /\ b <= 2 * j /\ (b = 2 * j <=> r[L] = 0)  BY <2>3, <2>4
  <2>6. Right(n - 1)  BY <2>1, <2>5 DEF b, j
  <2> HIDE DEF Right
  <2> QED BY <2>1, <2>6
<1>8. Nat \subseteq P
  <2> HIDE DEF P
  <2> QED BY <1>6, <1>7, NatSetInduction
<1> SUFFICES ASSUME NEW n \in 0 .. L
             PROVE  /\ u[n + 1] \in Nat /\ u[n + 1] \div 2 \in Nat /\ u[n + 1] \div 2 <= r[n]
                    /\ u[n + 1] \div 2 = r[n] <=> r[L] = 0
                    /\ r[n] \in Nat
    BY DEF r, u
<1>9. Right(n)
  <2>1. L - n \in Nat /\ L - n <= L /\ L - (L - n) = n  OBVIOUS
  <2> HIDE DEF Right
  <2> QED BY <1>8, <2>1
<1>10. r[n] \in Nat
    BY <1>5
<1> DEFINE a == u[n + 1]
           i == r[n]
<1> HIDE DEF a, i
<1>11. a \in Nat /\ i \in Nat /\ a <= 2 * i /\ (a = 2 * i <=> r[L] = 0)
    BY <1>9, <1>10 DEF a, i
<1>12. a \div 2 \in Nat /\ a \div 2 <= i /\ (a \div 2 = i <=> a = 2 * i)
    BY <1>11, Halves
<1> QED BY <1>11, <1>12 DEF a, i

\* The codes of a length start where those that are longer end.
LEMMA FromIs ==
    ASSUME NEW counts \in Seq(Nat), NEW peek \in 0 .. Len(counts)
    PROVE  \A n \in 0 .. peek : From(peek, counts)[n] = Inner(counts)[n] * 2 ^ (peek - n)
<1> DEFINE r == Inner(counts)
           Step(f, n) == IF n = 0 THEN 2 ^ peek ELSE f[n - 1] - counts[n] * 2 ^ (peek - n)
           Solves(f) == f = [n \in 0 .. peek |-> Step(f, n)]
           q(n) == r[n] * 2 ^ (peek - n)
           g == [n \in 0 .. peek |-> q(n)]
           F == CHOOSE f : Solves(f)
<1>1. From(peek, counts) = F
    BY DEF From
<1>2. /\ peek \in Nat /\ \A n \in 1 .. peek : n \in 1 .. Len(counts) /\ counts[n] \in Nat
  <2>1. Len(counts) \in Nat  OBVIOUS
  <2> QED BY <2>1
<1>3. /\ r[0] = 1 /\ \A n \in 0 .. peek : r[n] \in Int
      /\ \A n \in 1 .. peek : r[n] = 2 * r[n - 1] - counts[n]
  <2>1. /\ r \in [0 .. Len(counts) -> Int] /\ r[0] = 1
        /\ \A n \in 1 .. Len(counts) : r[n] = 2 * r[n - 1] - counts[n]
      BY InnerStep
  <2>2. \A n \in 0 .. peek : n \in 0 .. Len(counts)  OBVIOUS
  <2> HIDE DEF r
  <2> QED BY <1>2, <2>1, <2>2
<1> HIDE DEF r, F
<1>4. q(0) = 2 ^ peek
  <2>1. peek - 0 = peek /\ 2 ^ peek \in Nat  BY <1>2, PowerType
  <2> QED BY <1>3, <2>1
<1>5. ASSUME NEW n \in 1 .. peek PROVE q(n) = q(n - 1) - counts[n] * 2 ^ (peek - n)
  <2> DEFINE w == 2 ^ (peek - n)
             a == r[n - 1]
             k == counts[n]
  <2>1. peek - n \in Nat /\ peek - (n - 1) = (peek - n) + 1 /\ n - 1 \in 0 .. peek  BY <1>2
  <2>2. 2 ^ (peek - (n - 1)) = w + w /\ w \in Nat  BY <2>1, PowerDoubles, PowerType
  <2>3. r[n] = 2 * a - k /\ a \in Int /\ k \in Nat  BY <1>2, <1>3, <2>1
  <2>4. q(n) = (2 * a - k) * w /\ q(n - 1) = a * (w + w)  BY <2>2, <2>3
  <2> HIDE DEF w, a, k, q
  <2>5. (2 * a - k) * w = a * (w + w) - k * w  BY <2>2, <2>3
  <2> QED BY <2>4, <2>5 DEF k, w
<1> HIDE DEF q
<1>6. Solves(g)
  <2>1. \A n \in 0 .. peek : g[n] = q(n)  OBVIOUS
  <2>2. g = [n \in 0 .. peek |-> g[n]]  OBVIOUS
  <2> HIDE DEF g
  <2>3. \A n \in 0 .. peek : g[n] = Step(g, n)
    <3> TAKE n \in 0 .. peek
    <3>1. CASE n = 0  BY <1>4, <2>1, <3>1
    <3>2. CASE n # 0
      <4>1. n \in 1 .. peek /\ n - 1 \in 0 .. peek  BY <1>2, <3>2
      <4>2. q(n) = q(n - 1) - counts[n] * 2 ^ (peek - n)  BY <1>5, <4>1
      <4> QED BY <2>1, <3>2, <4>1, <4>2
    <3> QED BY <3>1, <3>2
  <2> HIDE DEF Step
  <2> QED BY <2>2, <2>3
<1>7. Solves(F)
  <2> HIDE DEF Solves, g
  <2> QED BY <1>6 DEF F
<1>8. \A n \in 0 .. peek : F[n] = Step(F, n)
  <2> HIDE DEF Step
  <2> QED BY <1>7
<1> DEFINE P == {n \in Nat : n <= peek => F[n] = q(n)}
<1>9. 0 \in P
  <2>1. 0 \in 0 .. peek  BY <1>2
  <2> QED BY <1>4, <1>8, <2>1
<1>10. ASSUME NEW n \in Nat, n \in P PROVE n + 1 \in P
  <2> SUFFICES ASSUME n + 1 <= peek PROVE F[n + 1] = q(n + 1)
      OBVIOUS
  <2> DEFINE m == n + 1
  <2>1. m \in 1 .. peek /\ m \in 0 .. peek /\ m - 1 = n /\ m # 0 /\ F[n] = q(n)
      BY <1>2, <1>10
  <2> HIDE DEF m
  <2>2. F[m] = F[n] - counts[m] * 2 ^ (peek - m)  BY <1>8, <2>1
  <2>3. q(m) = q(n) - counts[m] * 2 ^ (peek - m)  BY <1>5, <2>1
  <2>4. F[m] = q(m)  BY <2>1, <2>2, <2>3
  <2> QED BY <2>4 DEF m
<1>11. Nat \subseteq P
  <2> HIDE DEF P
  <2> QED BY <1>9, <1>10, NatSetInduction
<1>12. \A n \in 0 .. peek : F[n] = q(n)
    BY <1>2, <1>11
<1> QED BY <1>1, <1>12 DEF q, r

\* The lengths a code can have by the numbers that build_tree counts down.
Counted(counts, peek, b) ==
    {len \in 1 .. peek : From(peek, counts)[len] <= b /\ b < From(peek, counts)[len - 1]}

\* They are the same as by the nodes of the levels.
LEMMA PrefixIs ==
    ASSUME NEW counts \in Seq(Nat), NEW peek \in 0 .. Len(counts),
           \A n \in 0 .. Len(counts) : Inner(counts)[n] \in Nat, NEW b \in Nat
    PROVE  Counted(counts, peek, b) = Lengths(counts, peek, b)
<1> DEFINE from == From(peek, counts)
           r == Inner(counts)
<1>1. peek \in Nat /\ \A n \in 0 .. peek : n \in 0 .. Len(counts)
    OBVIOUS
<1>2. \A n \in 0 .. peek : from[n] = r[n] * 2 ^ (peek - n)
    BY FromIs
<1>3. \A n \in 0 .. peek : r[n] \in Nat
    BY <1>1
<1> HIDE DEF from, r
<1>4. ASSUME NEW n \in 0 .. peek
      PROVE  /\ from[n] <= b <=> r[n] <= b \div 2 ^ (peek - n)
             /\ b < from[n] <=> b \div 2 ^ (peek - n) < r[n]
  <2> DEFINE d == 2 ^ (peek - n)
             p == r[n]
  <2>1. d \in Nat \ {0}
    <3>1. peek - n \in Nat  BY <1>1
    <3> QED BY <3>1, PowerGrows
  <2>2. p \in Nat /\ from[n] = p * d  BY <1>2, <1>3
  <2> HIDE DEF d, p
  <2>3. p * d <= b <=> p <= b \div d  BY <2>1, <2>2, AboveQuotient
  <2>4. p * d \in Nat /\ b \div d \in Nat  BY <2>1, <2>2, ProductType, Division
  <2>5. b < p * d <=> b \div d < p
    <3> DEFINE x == p * d
               y == b \div d
    <3>1. x \in Nat /\ y \in Nat /\ (x <= b <=> p <= y) /\ p \in Nat  BY <2>2, <2>3, <2>4
    <3> HIDE DEF x, y
    <3>2. b < x <=> y < p  BY <3>1
    <3> QED BY <3>2 DEF x, y
  <2> QED BY <2>2, <2>3, <2>5 DEF d, p
<1>5. ASSUME NEW len \in 1 .. peek
      PROVE  /\ from[len] <= b <=> r[len] <= b \div 2 ^ (peek - len)
             /\ b < from[len - 1] <=> b \div 2 ^ (peek - (len - 1)) < r[len - 1]
  <2>1. len \in 0 .. peek /\ len - 1 \in 0 .. peek  BY <1>1
  <2> QED BY <1>4, <2>1
<1> DEFINE Left(len) == from[len] <= b /\ b < from[len - 1]
           Right(len) == /\ r[len] <= b \div 2 ^ (peek - len)
                         /\ b \div 2 ^ (peek - (len - 1)) < r[len - 1]
<1>6. \A len \in 1 .. peek : Left(len) <=> Right(len)
    BY <1>5
<1> HIDE DEF Left, Right
<1>7. {len \in 1 .. peek : Left(len)} = {len \in 1 .. peek : Right(len)}
    BY <1>6
<1> QED BY <1>7 DEF Left, Right, from, r, Counted, Lengths

\* When the literals are read, read_tree counts EOB again.
LEMMA LeavesAre ==
    ASSUME PackParameters, packed \in PackFiles, LiteralsInv
    PROVE  [leaves EXCEPT ![maxLen] = @ + 1] = Counts(packed)
<1> DEFINE s == Counts(packed)
           L == maxLen
           all == [leaves EXCEPT ![L] = @ + 1]
<1>1. /\ L \in Nat \ {0} /\ s \in Seq(Nat) /\ Len(s) = L
      /\ leaves \in Seq(Nat) /\ Len(leaves) = L
      /\ \A i \in 1 .. L - 1 : leaves[i] = s[i]
      /\ leaves[L] = s[L] - 1
    BY LiteralsTotal
<1> HIDE DEF s, L
<1>2. L \in 1 .. L /\ \A i \in 1 .. L : i = L \/ i \in 1 .. L - 1
    BY <1>1
<1>3. leaves = [i \in 1 .. L |-> leaves[i]] /\ s = [i \in 1 .. L |-> s[i]]
    BY <1>1
<1>4. s[L] \in Nat
    BY <1>1, <1>2
<1>5. leaves[L] + 1 = s[L]
    BY <1>1, <1>4
<1>6. all = [i \in 1 .. L |-> IF i = L THEN leaves[L] + 1 ELSE leaves[i]]
    BY <1>2, <1>3
<1>7. \A i \in 1 .. L : (IF i = L THEN leaves[L] + 1 ELSE leaves[i]) = s[i]
    BY <1>1, <1>2, <1>5
<1>8. all = [i \in 1 .. L |-> s[i]]
    BY <1>6, <1>7
<1> QED BY <1>3, <1>8 DEF s, L

\* What a whole text is decoded to is what its bits are decoded to from the first on.
LEMMA RestIs ==
    ASSUME ByteBits \in Nat \ {0}, packed \in Seq(Nat), Complete(Counts(packed)),
           Before(packed) \in 0 .. Len(packed)
    PROVE  DecodedFile(packed) = Rest(1) /\ Rest(1) \in Seq(Nat)
<1> DEFINE counts == Counts(packed)
           bits == Body(packed)
           codes == Codes(counts)
<1>1. bits \in Seq({0, 1})
    BY BodyIs
<1>2. Complete(counts) /\ \A k \in 1 .. Len(codes) : Len(codes[k]) \in Nat \ {0}
    BY LeafLengths
<1> HIDE DEF bits
<1>3. 1 \in 1 .. Len(bits) + 1
  <2>1. Len(bits) \in Nat  BY <1>1
  <2> QED BY <2>1
<1> HIDE DEF counts
<1>4. DecodedFrom(codes, bits)[1] \in Seq(Nat)
    BY <1>1, <1>2, <1>3, DecodedEnds
<1> HIDE DEF codes
<1>5. Decoded(codes, bits) = DecodedFrom(codes, bits)[1]
    BY <1>1, <1>2, DecodedStep
<1> QED BY <1>4, <1>5 DEF DecodedFile, Rest, codes, bits, counts

\* The tables are built when the last literal is read.
LEMMA BuildTreeStep ==
    ASSUME PackParameters, IInv, BuildTree
    PROVE  IInv'
<1> DEFINE s == Counts(packed)
           L == maxLen
           r == Inner(s)
           T == Total(s)
           peek == Least(L, MaxPeek)
<1>1. /\ packed \in PackFiles /\ LiteralsInv /\ TreeInv /\ unpacked = <<>> /\ bitbuf = <<>>
      /\ Len(literal) = Total(leaves)
    BY DEF IInv, BuildTree, LiteralsInv
<1>2. /\ packed \in Seq(Nat) /\ L \in Nat \ {0} /\ L = packed[2]
      /\ s \in Seq(Nat) /\ Len(s) = L
      /\ leaves \in Seq(Nat) /\ Len(leaves) = L
      /\ \A i \in 1 .. L - 1 : leaves[i] = s[i]
      /\ T \in Nat /\ T >= 2 /\ Total(leaves) = T - 1
    BY <1>1, LiteralsTotal
<1>3. [leaves EXCEPT ![L] = @ + 1] = s
    BY <1>1, LeavesAre
<1>4. /\ leaves' = s
      /\ parents' = [len \in 1 .. L |-> Up(L, s)[len + 1] \div 2]
      /\ litBase' = [len \in 1 .. L |-> CountTo(leaves, len - 1) - parents'[len]]
      /\ prefixLen' = [b \in 0 .. 2 ^ peek - 1 |->
             IF Counted(s, peek, b) = {} THEN 0
             ELSE CHOOSE len \in Counted(s, peek, b) : TRUE]
      /\ stage' = IF Up(L, s)[1] \div 2 = 1 THEN "decode" ELSE "error"
  <2> DEFINE all == [leaves EXCEPT ![L] = @ + 1]
  <2>1. /\ leaves' = all
        /\ parents' = [len \in 1 .. L |-> Up(L, all)[len + 1] \div 2]
        /\ litBase' = [len \in 1 .. L |-> CountTo(leaves, len - 1) - parents'[len]]
        /\ prefixLen' = [b \in 0 .. 2 ^ peek - 1 |->
               IF Counted(all, peek, b) = {} THEN 0
               ELSE CHOOSE len \in Counted(all, peek, b) : TRUE]
        /\ stage' = IF Up(L, all)[1] \div 2 = 1 THEN "decode" ELSE "error"
      BY DEF BuildTree, Up, From, CountTo, Counted
  <2> HIDE DEF s, L, peek, all
  <2>2. all = s  BY <1>3 DEF all
  <2> QED BY <2>1, <2>2
<1>5. /\ packed' = packed /\ pos' = pos /\ origLen' = origLen /\ maxLen' = maxLen
      /\ maxLeaves' = maxLeaves /\ literal' = literal /\ bitbuf' = <<>> /\ unpacked' = <<>>
    BY <1>1 DEF BuildTree, headVars
<1>6. /\ Started /\ 2 + L <= Len(packed)
      /\ \A i \in 1 .. L - 1 : r[i] >= 1
      /\ r[L] >= 0
      /\ T - 1 <= Literals
    BY <1>1 DEF TreeInv
<1> HIDE DEF s, L
<1>7. \A n \in 1 .. L : r[n] >= 0
  <2>1. \A n \in 1 .. L : n = L \/ n \in 1 .. L - 1  BY <1>2
  <2>2. \A n \in 1 .. L : r[n] \in Int
    <3>1. r \in [0 .. L -> Int]  BY <1>2, InnerStep
    <3>2. \A n \in 1 .. L : n \in 0 .. L  OBVIOUS
    <3> QED BY <3>1, <3>2
  <2> HIDE DEF r
  <2> QED BY <1>6, <2>1, <2>2
<1>8. \A n \in 0 .. L :
            /\ Up(L, s)[n + 1] \div 2 = r[n] <=> r[L] = 0
            /\ r[n] \in Nat
    BY <1>2, <1>7, UpIs
<1>9. Up(L, s)[1] \div 2 = 1 <=> r[L] = 0
  <2>1. 0 \in 0 .. L /\ 0 + 1 = 1  BY <1>2
  <2>2. r[0] = 1  BY <1>2, InnerStep
  <2> HIDE DEF r
  <2> QED BY <1>8, <2>1, <2>2
<1>10. peek \in 1 .. L
    BY <1>2, SMTT(30) DEF Least, PackParameters
<1> HIDE DEF r, T, peek
<1>11. CASE r[L] # 0
  <2>1. ~ Good(packed)
    <3> SUFFICES ASSUME Good(packed) PROVE FALSE  OBVIOUS
    <3>1. r[L] = 0  BY <1>1, <1>6, GoodIs DEF r, s, L
    <3> QED BY <1>11, <3>1
  <2>2. stage' = "error"  BY <1>4, <1>9, <1>11
  <2> QED BY <1>1, <1>5, <2>1, <2>2 DEF IInv
<1>12. CASE r[L] = 0
  <2>1. stage' = "decode"  BY <1>4, <1>9, <1>12
  <2>2. parents' = [len \in 1 .. L |-> r[len]]
    <3>1. \A len \in 1 .. L : len \in 0 .. L  OBVIOUS
    <3>2. \A len \in 1 .. L : Up(L, s)[len + 1] \div 2 = r[len]  BY <1>8, <1>12, <3>1
    <3> QED BY <1>4, <3>2
  <2>3. litBase' = [len \in 1 .. L |-> CountTo(s, len - 1) - r[len]]
    <3>1. \A len \in 1 .. L : len - 1 \in 0 .. L - 1  BY <1>2
    <3>2. \A n \in 0 .. L - 1 : CountTo(leaves, n) = CountTo(s, n)  BY <1>2, SameFirst
    <3>3. \A len \in 1 .. L : parents'[len] = r[len]  BY <2>2
    <3> QED BY <1>4, <3>1, <3>2, <3>3
  <2>4. prefixLen' = PrefixTable(s, peek)
    <3>1. ASSUME NEW b \in 0 .. 2 ^ peek - 1 PROVE Counted(s, peek, b) = Lengths(s, peek, b)
      <4>1. peek \in 0 .. Len(s)  BY <1>2, <1>10
      <4>2. b \in Nat
        <5>1. 2 ^ peek \in Nat  BY <1>2, <1>10, PowerType
        <5> QED BY <5>1
      <4>3. \A n \in 0 .. Len(s) : Inner(s)[n] \in Nat  BY <1>2, <1>8 DEF r
      <4> QED BY <1>2, <4>1, <4>2, <4>3, PrefixIs
    <3> DEFINE pick(S) == IF S = {} THEN 0 ELSE CHOOSE len \in S : TRUE
    <3>2. prefixLen' = [b \in 0 .. 2 ^ peek - 1 |-> pick(Counted(s, peek, b))]  BY <1>4
    <3>3. PrefixTable(s, peek) = [b \in 0 .. 2 ^ peek - 1 |-> pick(Lengths(s, peek, b))]
        BY DEF PrefixTable
    <3> HIDE DEF pick
    <3> QED BY <3>1, <3>2, <3>3
  <2>5. TreeInv'
    <3>1. TreeInv  BY <1>1
    <3> QED BY <1>5, <3>1 DEF TreeInv, Started
  <2>6. Len(literal) = T - 1  BY <1>1, <1>2
  <2>7. TablesInv'
    <3>1. Counts(packed)' = s  BY <1>5 DEF s
    <3>2. Least(maxLen, MaxPeek)' = peek /\ maxLen' = L  BY <1>5 DEF peek, L, Least
    <3>3. leaves' = s /\ Inner(s)[L] = 0 /\ Len(literal') = Total(s) - 1
        BY <1>4, <1>5, <1>12, <2>6 DEF r, T
    <3> QED BY <2>2, <2>3, <2>4, <2>5, <3>1, <3>2, <3>3 DEF TablesInv, r
  <2>8. Before(packed) \in Nat /\ pos = Before(packed) /\ Before(packed) <= Len(packed)
    <3>1. pos = 2 + L + Len(literal) /\ pos <= Len(packed)  BY <1>1 DEF LiteralsInv, L
    <3>2. Before(packed) = 1 + L + T  BY <1>2 DEF Before, L, s, T
    <3>3. L \in Nat /\ T \in Nat /\ Len(packed) \in Nat  BY <1>2 DEF T
    <3> DEFINE x == Before(packed)
    <3>4. x = 1 + L + T  BY <3>2
    <3> HIDE DEF x
    <3>5. x \in Nat /\ pos = x /\ x <= Len(packed)  BY <2>6, <3>1, <3>3, <3>4
    <3> QED BY <3>5 DEF x
  <2>9. Taken' = 0 /\ Buffered'
    <3> DEFINE b == Before(packed)
    <3>1. b \in Nat /\ pos = b /\ b <= Len(packed) /\ Len(packed) \in Nat  BY <1>2, <2>8
    <3>2. Before(packed)' = b /\ pos' = b /\ Len(bitbuf') = 0 /\ Len(packed)' = Len(packed)
      <4>1. Before(packed)' = b  BY <1>5
      <4> HIDE DEF b
      <4> QED BY <1>5, <3>1, <4>1
    <3> HIDE DEF b
    <3>3. Taken' = ByteBits * (b - b) - 0  BY <3>2 DEF Taken, valid
    <3>4. Taken' = 0
      <4>1. ByteBits \in Nat  BY DEF PackParameters
      <4> QED BY <3>1, <3>3, <4>1
    <3>5. bitbuf' \in Seq({0, 1}) /\ valid' = 0  BY <1>5, <3>2 DEF valid
    <3> QED BY <3>1, <3>2, <3>4, <3>5 DEF Buffered
  <2>10. DecodedFile(packed) = Rest(1) /\ Rest(1) \in Seq(Nat)
    <3>1. Complete(s)
      <4>1. s[L] >= 2
        <5>1. maxLen = packed[2] /\ maxLen \in Nat \ {0} /\ 2 + maxLen <= Len(packed)
            BY <1>2, <1>6 DEF L
        <5> QED BY <1>2, <5>1, CountsAre DEF s, L
      <4> QED BY <1>2, <1>12, <4>1 DEF Complete, r
    <3>2. ByteBits \in Nat \ {0} /\ Before(packed) \in 0 .. Len(packed)
      <4>1. Len(packed) \in Nat  BY <1>2
      <4> QED BY <2>8, <4>1 DEF PackParameters
    <3> QED BY <1>2, <3>1, <3>2, RestIs DEF s
  <2> DEFINE D == DecodedFile(packed)
             R == Rest(1)
  <2>11. DecodedFile(packed)' = D /\ Rest(1)' = R
      BY <1>5 DEF Rest
  <2>12. D = R /\ R \in Seq(Nat)
      BY <2>10
  <2> HIDE DEF D, R
  <2>13. Len(unpacked') = 0 /\ unpacked' \in Seq(Nat) /\ Len(D) \in Nat /\ D = R
      BY <1>5, <2>12
  <2>14. StreamInv'
    <3>1. Rest(Taken + 1)' = R
      <4>1. Taken' + 1 = 1  BY <2>9
      <4>2. Rest(Taken + 1)' = Rest(1)'  BY <4>1 DEF Rest
      <4> QED BY <2>11, <4>2
    <3>2. Len(D) = Len(unpacked') + Len(R)
          /\ \A i \in 1 .. Len(R) : D[Len(unpacked') + i] = R[i]
      <4>1. \A i \in 1 .. Len(R) : 0 + i = i  BY <2>13
      <4>2. 0 + Len(R) = Len(R)  BY <2>13
      <4> QED BY <2>13, <4>1, <4>2
    <3> QED BY <2>9, <2>11, <3>1, <3>2 DEF StreamInv
  <2>15. OutputInv'
    <3>1. 1 .. Len(unpacked') = {} /\ Len(unpacked') <= Len(D)  BY <2>13
    <3> QED BY <2>11, <2>13, <3>1 DEF OutputInv
  <2> QED BY <1>1, <1>5, <2>1, <2>7, <2>14, <2>15 DEF IInv
<1> QED BY <1>11, <1>12

-----------------------------------------------------------------------------
(* Every step.                                                               *)

\* When nothing changes, the invariant holds on.
LEMMA InvStutter == ASSUME IInv, UNCHANGED packVars PROVE IInv'
<1>1. /\ packed' = packed /\ stage' = stage /\ pos' = pos /\ origLen' = origLen
         /\ maxLen' = maxLen
      /\ leaves' = leaves /\ maxLeaves' = maxLeaves /\ literal' = literal
      /\ litBase' = litBase /\ parents' = parents /\ prefixLen' = prefixLen
      /\ bitbuf' = bitbuf /\ unpacked' = unpacked
    BY DEF packVars, headVars, treeVars
<1>2. \A i : Rest(i)' = Rest(i)
    BY <1>1 DEF Rest
<1>3. Taken' = Taken /\ Rest(Taken + 1)' = Rest(Taken + 1)
  <2>1. Taken' = Taken  BY <1>1 DEF Taken, valid
  <2> QED BY <1>1, <2>1 DEF Rest
<1>4. TreeInv' = TreeInv /\ Started' = Started
    BY <1>1 DEF TreeInv, Started
<1>5. /\ LengthInv' = LengthInv /\ LeavesInv' = LeavesInv
      /\ LiteralsInv' = LiteralsInv /\ TablesInv' = TablesInv
    BY <1>1, <1>4 DEF LengthInv, LeavesInv, LiteralsInv, TablesInv
<1>6. /\ StreamInv' = StreamInv /\ OutputInv' = OutputInv /\ Good(packed)' = Good(packed)
  <2>1. Buffered' = Buffered  BY <1>1, <1>3 DEF Buffered, valid
  <2> QED BY <1>1, <1>3, <2>1 DEF StreamInv, OutputInv
<1> QED BY <1>1, <1>5, <1>6 DEF IInv

\* The invariant holds forever.
LEMMA InvHolds == ASSUME PackParameters PROVE PackSpec => []IInv
<1>1. PackInit => IInv
    BY InvStart
<1>2. IInv /\ [PackNext]_packVars => IInv'
  <2> SUFFICES ASSUME IInv, [PackNext]_packVars PROVE IInv'
      OBVIOUS
  <2>1. CASE EndOfFile       BY <2>1, EndOfFileStep
  <2>2. CASE ReadLengths     BY <2>2, ReadLengthsStep
  <2>3. CASE ReadLeaves      BY <2>3, ReadLeavesStep
  <2>4. CASE ReadLiteral     BY <2>4, ReadLiteralStep
  <2>5. CASE BuildTree       BY <2>5, BuildTreeStep
  <2>6. CASE DecodeFails     BY <2>6, DecodeFailsStep
  <2>7. CASE Decode          BY <2>7, DecodeStep
  <2>8. CASE UNCHANGED packVars  BY <2>8, InvStutter
  <2> QED BY <2>1, <2>2, <2>3, <2>4, <2>5, <2>6, <2>7, <2>8 DEF PackNext
<1> QED BY <1>1, <1>2, PTL DEF PackSpec

\* A file is accepted exactly when its tree is complete and fits and its codes and length
\* are as they should be, and what comes out is what its leaves stand for: read_tree,
\* build_tree and the loop of unpack together invert the format (unpack.c:135, 189, 240).
THEOREM AlwaysInverted == ASSUME PackParameters PROVE PackSpec => []PackIsInverted
<1>1. IInv => PackIsInverted
  <2> SUFFICES ASSUME IInv PROVE PackIsInverted
      OBVIOUS
  <2>1. stage = "error" => ~ Good(packed)
      BY DEF IInv
  <2>2. stage = "done" => Good(packed) /\ GoodHeader(packed) /\ OutputInv
      BY DEF IInv, Good
  <2>3. ASSUME stage = "decode" PROVE GoodHeader(packed) /\ OutputInv
    <3>1. packed \in PackFiles /\ TablesInv /\ Buffered /\ OutputInv
        BY <2>3 DEF IInv, StreamInv
    <3>2. Before(packed) \in Nat /\ pos \in Before(packed) .. Len(packed) /\ Len(packed) \in Nat
        BY <3>1 DEF Buffered, PackParameters
    <3> DEFINE b == Before(packed)
    <3> HIDE DEF b
    <3>3. b <= Len(packed)
      <4>1. b \in Nat /\ pos \in b .. Len(packed) /\ Len(packed) \in Nat  BY <3>2 DEF b
      <4> QED BY <4>1
    <3> QED BY <3>1, <3>3, HeaderIsGood DEF b
  <2>4. OutputInv => \A i \in 1 .. Len(unpacked) : unpacked[i] = LiteralsOf(packed)[DecodedFile(packed)[i]]
      BY DEF OutputInv
  <2>5. /\ stage = "error" => ~ Good(packed)
        /\ stage = "done" => Good(packed)
        /\ stage \in {"decode", "done"} => GoodHeader(packed) /\ OutputInv
      BY <2>1, <2>2, <2>3
  <2> QED BY <2>4, <2>5 DEF PackIsInverted
<1> QED BY <1>1, InvHolds, PTL
=============================================================================
