---------------------------- MODULE UnlzwProofs ------------------------------
(***************************************************************************)
(* Theorems about Unlzw, for any widths of the codes, any sizes of the      *)
(* buffers and reads of any length: for every file, damaged ones too, the   *)
(* chains of the table end, and what is looked up is there; for a file that *)
(* compress(1) has made, or a beginning of one, what comes out is the text. *)
(***************************************************************************)
EXTENDS Unlzw, FiniteSetTheorems, WellFoundedInduction, TLAPS

-----------------------------------------------------------------------------
(* Numbers.                                                                  *)

\* Every set of numbers that is not empty has a least one.
LEMMA LeastNatural ==
    ASSUME NEW S \in SUBSET Nat, S # {}
    PROVE  \E x \in S : \A y \in S : x <= y
<1>1. PICK x \in S : \A y \in S : ~ <<y, x>> \in OpToRel(<, Nat)
    BY WFMin, NatLessThanWellFounded
<1>2. \A y \in S : ~ (y < x)
    BY <1>1 DEF OpToRel
<1>3. \A y \in S : x <= y
    BY <1>2
<1> QED BY <1>3

\* A set with zero, and with n + 1 for each n of it, has all the numbers.
LEMMA NatSetInduction ==
    ASSUME NEW P, 0 \in P, \A n \in Nat : n \in P => n + 1 \in P
    PROVE  Nat \subseteq P
<1>1. SUFFICES ASSUME Nat \ P # {} PROVE FALSE
    OBVIOUS
<1>2. PICK x \in Nat \ P : \A y \in Nat \ P : x <= y
    BY <1>1, LeastNatural
<1>3. x # 0 /\ x - 1 \in Nat
    BY <1>2
<1>4. x - 1 \in P
    BY <1>2, <1>3
<1> QED BY <1>2, <1>3, <1>4

\* 2^n is the number of the subsets of a set with n elements.
LEMMA PowerIsCardinality ==
    ASSUME NEW n \in Nat
    PROVE  /\ IsFiniteSet(SUBSET (1 .. n))
           /\ Cardinality(SUBSET (1 .. n)) = 2 ^ n
<1>1. IsFiniteSet(1 .. n) /\ Cardinality(1 .. n) = n
    BY FS_Interval
<1> QED BY <1>1, FS_SUBSET

\* Powers are numbers.
LEMMA PowerType == ASSUME NEW n \in Nat PROVE 2 ^ n \in Nat
BY PowerIsCardinality, FS_CardinalityType

\* The first of them.
LEMMA PowerOfZero == 2 ^ 0 = 1
OBVIOUS

\* A number more makes more subsets, those without it and those with it.
LEMMA PowerDoubles == ASSUME NEW n \in Nat PROVE 2 ^ (n + 1) = 2 ^ n + 2 ^ n
<1> DEFINE Old == SUBSET (1 .. n)
           New == {s \cup {n + 1} : s \in Old}
<1>1. IsFiniteSet(Old) /\ Cardinality(Old) = 2 ^ n /\ 2 ^ n \in Nat
    BY PowerIsCardinality, PowerType
<1>2. SUBSET (1 .. n + 1) = Old \cup New
  <2>1. ASSUME NEW s \in SUBSET (1 .. n + 1), n + 1 \notin s PROVE s \in Old
      BY <2>1
  <2>2. ASSUME NEW s \in SUBSET (1 .. n + 1), n + 1 \in s PROVE s \in New
    <3>1. s \ {n + 1} \in Old /\ s = (s \ {n + 1}) \cup {n + 1}  BY <2>2
    <3> QED BY <3>1
  <2>3. ASSUME NEW s \in Old PROVE s \in SUBSET (1 .. n + 1) /\ s \cup {n + 1} \in SUBSET (1 .. n + 1)
    <3>1. 1 .. n \subseteq 1 .. n + 1 /\ n + 1 \in 1 .. n + 1  OBVIOUS
    <3> QED BY <3>1
  <2>4. Old \cup New \subseteq SUBSET (1 .. n + 1)
    <3> HIDE DEF Old
    <3> QED BY <2>3
  <2> HIDE DEF Old, New
  <2> QED BY <2>1, <2>2, <2>4
<1>3. Old \cap New = {}
    OBVIOUS
<1>4. IsFiniteSet(New) /\ Cardinality(New) = 2 ^ n
  <2> DEFINE f == [s \in Old |-> s \cup {n + 1}]
  <2>1. f \in Bijection(Old, New)
    <3>1. f \in [Old -> New]  OBVIOUS
    <3>2. \A s, t \in Old : f[s] = f[t] => s = t
      <4> TAKE s \in Old, t \in Old
      <4>1. s = f[s] \ {n + 1} /\ t = f[t] \ {n + 1}  OBVIOUS
      <4> HIDE DEF f
      <4> QED BY <4>1
    <3>3. \A u \in New : \E s \in Old : f[s] = u  OBVIOUS
    <3> HIDE DEF f, Old, New
    <3> QED BY <3>1, <3>2, <3>3 DEF Bijection, Injection, Surjection, IsInjective
  <2> HIDE DEF f, Old, New
  <2>2. ExistsBijection(Old, New)  BY <2>1 DEF ExistsBijection
  <2> QED BY <1>1, <2>2, FS_Bijection
<1> HIDE DEF Old, New
<1>5. Cardinality(Old \cup New) = 2 ^ n + 2 ^ n
  <2>1. /\ Cardinality(Old \cup New) =
             Cardinality(Old) + Cardinality(New) - Cardinality(Old \cap New)
        /\ Cardinality({}) = 0
      BY <1>1, <1>4, FS_Union, FS_EmptySet
  <2> QED BY <1>1, <1>3, <1>4, <2>1
<1>6. Cardinality(SUBSET (1 .. n + 1)) = 2 ^ (n + 1)
    BY PowerIsCardinality
<1> QED BY <1>2, <1>5, <1>6

\* Powers are positive and grow.
LEMMA PowerGrows ==
    ASSUME NEW n \in Nat
    PROVE  /\ 2 ^ n \in Nat \ {0}
           /\ \A m \in Nat : m < n => 2 ^ m < 2 ^ n
<1> DEFINE P == {k \in Nat : 2 ^ k > 0 /\ \A m \in Nat : m < k => 2 ^ m < 2 ^ k}
<1>1. 0 \in P
    BY PowerOfZero
<1>2. ASSUME NEW k \in Nat, k \in P PROVE k + 1 \in P
  <2>1. 2 ^ (k + 1) = 2 ^ k + 2 ^ k /\ 2 ^ k \in Nat /\ 2 ^ k > 0
      BY <1>2, PowerDoubles, PowerType
  <2>2. ASSUME NEW m \in Nat, m < k + 1 PROVE 2 ^ m < 2 ^ (k + 1)
    <3>1. 2 ^ m \in Nat  BY PowerType
    <3>2. CASE m = k  BY <2>1, <3>2
    <3>3. CASE m < k
      <4>1. 2 ^ m < 2 ^ k  BY <1>2, <3>3
      <4> QED BY <2>1, <3>1, <4>1
    <3> QED BY <2>2, <3>2, <3>3
  <2>3. 2 ^ (k + 1) > 0  BY <2>1
  <2> QED BY <2>2, <2>3
<1>3. n \in P
  <2> HIDE DEF P
  <2> QED BY <1>1, <1>2, NatSetInduction
<1> QED BY <1>3, PowerType

-----------------------------------------------------------------------------
(* What the recursive definitions of Unlzw compute.                          *)

\* The assumptions on the constants, in the form that the proofs use.
LEMMA Constants ==
    ASSUME Parameters
    PROVE  /\ ByteBits \in Nat \ {0} /\ InitBits \in Nat \ {0} /\ Bits \in Nat /\ InitBits < Bits
           /\ InBuf \in Nat \ {0} /\ Extra \in Nat \ {0} /\ OutBuf \in Nat \ {0}
           /\ Files \subseteq File
           /\ Lit \in Nat \ {0}
           /\ \A n \in Nat : MAXCODE(n) \in Nat \ {0}
           /\ \A m, n \in Nat : m < n => MAXCODE(m) < MAXCODE(n)
           /\ Lit + 1 <= MAXCODE(InitBits) /\ MAXCODE(InitBits) < MAXCODE(Bits)
<1>1. /\ ByteBits \in Nat \ {0} /\ InitBits \in Nat \ {0} /\ Bits \in Nat /\ InitBits < Bits
      /\ InBuf \in Nat \ {0} /\ Extra \in Nat \ {0} /\ OutBuf \in Nat \ {0}
      /\ Files \subseteq File /\ Lit = 2 ^ (InitBits - 1) /\ Lit \in Nat \ {0}
    BY DEF Parameters
<1>2. \A n \in Nat : MAXCODE(n) \in Nat \ {0}
    BY PowerGrows DEF MAXCODE
<1>3. \A m, n \in Nat : m < n => MAXCODE(m) < MAXCODE(n)
    BY PowerGrows DEF MAXCODE
<1>4. Lit = MAXCODE(InitBits - 1) /\ InitBits - 1 \in Nat /\ InitBits - 1 < InitBits /\ InitBits \in Nat
    BY <1>1 DEF MAXCODE
<1>5. Lit < MAXCODE(InitBits) /\ MAXCODE(InitBits) < MAXCODE(Bits)
    BY <1>1, <1>3, <1>4
<1> QED BY <1>1, <1>2, <1>3, <1>5

\* The recursion that defines Value has a solution.
LEMMA ValueDefined ==
    ASSUME NEW bits, Len(bits) \in Nat
    PROVE  \E value : /\ value = [i \in 0 .. Len(bits) |->
                            IF i = 0 THEN 0 ELSE value[i - 1] + bits[i] * 2 ^ (i - 1)]
                      /\ Value(bits) = value[Len(bits)]
<1> DEFINE Step(g, i) == IF i = 0 THEN 0 ELSE g[i - 1] + bits[i] * 2 ^ (i - 1)
           Solves(g, n) == g = [i \in 0 .. n |-> Step(g, i)]
           P == {n \in Nat : \E g : Solves(g, n)}
<1>1. 0 \in P
  <2> DEFINE g == [i \in 0 .. 0 |-> 0]
  <2>1. Solves(g, 0)  OBVIOUS
  <2> QED BY <2>1
<1>2. ASSUME NEW n \in Nat, n \in P PROVE n + 1 \in P
  <2>1. PICK g : Solves(g, n)  BY <1>2
  <2> DEFINE h == [i \in 0 .. n + 1 |-> IF i = n + 1 THEN Step(g, n + 1) ELSE g[i]]
  <2>2. \A i \in 0 .. n : h[i] = g[i]  OBVIOUS
  <2>3. \A i \in 0 .. n : g[i] = Step(g, i)  BY <2>1
  <2>4. \A i \in 0 .. n + 1 : Step(h, i) = Step(g, i)
    <3> HIDE DEF h
    <3> QED BY <2>2
  <2>5. Solves(h, n + 1)
    <3> SUFFICES \A i \in 0 .. n + 1 : h[i] = Step(h, i)
      <4> HIDE DEF Step
      <4> QED OBVIOUS
    <3> HIDE DEF Step
    <3> QED BY <2>2, <2>3, <2>4
  <2>6. n + 1 \in Nat  OBVIOUS
  <2> HIDE DEF Solves, h
  <2> QED BY <2>5, <2>6
<1>3. Len(bits) \in P
  <2> HIDE DEF P
  <2> QED BY <1>1, <1>2, NatSetInduction
<1>4. PICK g : Solves(g, Len(bits))  BY <1>3
<1> DEFINE value == CHOOSE f : Solves(f, Len(bits))
<1>5. Value(bits) = value[Len(bits)]
    BY DEF Value
<1> HIDE DEF Solves
<1>6. Solves(value, Len(bits))
    BY <1>4
<1> HIDE DEF value
<1> QED BY <1>5, <1>6 DEF Solves

\* A number of n bits is less than 2^n.
LEMMA ValueBound ==
    ASSUME NEW bits \in Seq({0, 1})
    PROVE  Value(bits) \in 0 .. 2 ^ Len(bits) - 1
<1>1. Len(bits) \in Nat /\ \A i \in 1 .. Len(bits) : bits[i] \in {0, 1}
    OBVIOUS
<1>2. PICK value : /\ value = [i \in 0 .. Len(bits) |->
                            IF i = 0 THEN 0 ELSE value[i - 1] + bits[i] * 2 ^ (i - 1)]
                   /\ Value(bits) = value[Len(bits)]
    BY <1>1, ValueDefined
<1>3. \A i \in 0 .. Len(bits) :
        value[i] = IF i = 0 THEN 0 ELSE value[i - 1] + bits[i] * 2 ^ (i - 1)
    BY <1>2
<1> DEFINE P == {n \in Nat : n <= Len(bits) => value[n] \in 0 .. 2 ^ n - 1}
<1>4. 0 \in P
  <2>1. value[0] = 0  BY <1>1, <1>3
  <2> QED BY <2>1, PowerOfZero
<1>5. ASSUME NEW n \in Nat, n \in P PROVE n + 1 \in P
  <2> SUFFICES ASSUME n + 1 <= Len(bits) PROVE value[n + 1] \in 0 .. 2 ^ (n + 1) - 1
      OBVIOUS
  <2>1. n + 1 \in 0 .. Len(bits) /\ n + 1 # 0 /\ (n + 1) - 1 = n /\ n + 1 \in 1 .. Len(bits) /\ n <= Len(bits)
      BY <1>1
  <2>2. value[n + 1] = value[n] + bits[n + 1] * 2 ^ n  BY <1>3, <2>1
  <2>3. bits[n + 1] \in {0, 1}  BY <1>1, <2>1
  <2>4. 2 ^ n \in Nat /\ 2 ^ (n + 1) = 2 ^ n + 2 ^ n  BY PowerType, PowerDoubles
  <2>5. value[n] \in 0 .. 2 ^ n - 1  BY <1>5, <2>1
  <2>6. bits[n + 1] * 2 ^ n = 0 \/ bits[n + 1] * 2 ^ n = 2 ^ n  BY <2>3, <2>4
  <2> QED BY <2>2, <2>4, <2>5, <2>6
<1>6. Len(bits) \in P
  <2> HIDE DEF P
  <2> QED BY <1>1, <1>4, <1>5, NatSetInduction
<1> QED BY <1>1, <1>2, <1>6

-----------------------------------------------------------------------------
(* The chains.                                                               *)

Character == 0 .. Lit - 1
Table == [Lit .. MAXCODE(Bits) - 1 -> [prefix : Strings, suffix : Character]]

\* The prefix of each string's entry is of a lower one.
Chained == \A e \in First .. MAXCODE(Bits) - 1 : table[e].prefix < e

\* The first code of an entry.
LEMMA FirstIs ==
    ASSUME Parameters
    PROVE  First \in Nat /\ Lit <= First /\ First <= Lit + 1 /\ First <= MAXCODE(Bits)
BY Constants DEF First, FirstFree, FIRST, CLEAR

\* The codes of strings are codes, and those of entries are behind CLEAR.
LEMMA StringsAre ==
    ASSUME Parameters, NEW e \in Strings
    PROVE  /\ e \in Nat /\ e < MAXCODE(Bits)
           /\ e >= Lit => e >= First /\ e \in First .. MAXCODE(Bits) - 1
<1>1. /\ Lit \in Nat /\ MAXCODE(Bits) \in Nat /\ Lit < MAXCODE(Bits)
      /\ First \in Nat /\ Lit <= First
    BY Constants, FirstIs
<1> HIDE DEF First
<1> QED BY <1>1 DEF Strings

\* The recursion that defines String has a solution, because it goes down.
LEMMA StringDefined ==
    ASSUME Parameters, table \in Table, Chained
    PROVE  \E string :
             /\ string = [e \in Strings |->
                            IF e < Lit THEN <<e>>
                                       ELSE Append(string[table[e].prefix], table[e].suffix)]
             /\ \A code : String(code) = string[code]
<1> DEFINE Below(n) == {e \in Strings : e < n}
           Step(g, e) == IF e < Lit THEN <<e>> ELSE Append(g[table[e].prefix], table[e].suffix)
           Solves(g, n) == g = [e \in Below(n) |-> Step(g, e)]
           P == {n \in Nat : \E g : Solves(g, n)}
<1>1. 0 \in P
  <2>1. Below(0) = {}  BY StringsAre
  <2> DEFINE g == [e \in {} |-> 0]
  <2>2. Solves(g, 0)
    <3> HIDE DEF Below
    <3> QED BY <2>1
  <2> QED BY <2>2
<1>2. ASSUME NEW n \in Nat, n \in P PROVE n + 1 \in P
  <2>1. PICK g : Solves(g, n)  BY <1>2
  <2> DEFINE h == [e \in Below(n + 1) |-> IF e = n THEN Step(g, n) ELSE g[e]]
  <2>2. \A e \in Below(n) : e \in Below(n + 1) /\ e # n
      BY StringsAre
  <2>3. \A e \in Below(n + 1) : e # n => e \in Below(n)
      BY StringsAre
  <2>4. \A e \in Below(n) : h[e] = g[e]
    <3> HIDE DEF Below, Step
    <3> QED BY <2>2
  <2>5. \A e \in Below(n) : g[e] = Step(g, e)
    <3> HIDE DEF Below, Step
    <3> QED BY <2>1
  <2>6. \A e \in Below(n + 1) : e >= Lit => table[e].prefix \in Below(n)
    <3> TAKE e \in Below(n + 1)
    <3> SUFFICES ASSUME e >= Lit PROVE table[e].prefix \in Below(n)  OBVIOUS
    <3>1. e \in Strings /\ e < n + 1 /\ e \in Nat /\ e \in First .. MAXCODE(Bits) - 1
        BY StringsAre
    <3>2. table[e].prefix < e  BY <3>1 DEF Chained
    <3>3. e \in Lit .. MAXCODE(Bits) - 1  BY <3>1, Constants
    <3>4. table[e].prefix \in Strings  BY <3>3 DEF Table
    <3>5. table[e].prefix \in Nat  BY <3>4, StringsAre
    <3> QED BY <3>1, <3>2, <3>4, <3>5
  <2>7. \A e \in Below(n + 1) : Step(h, e) = Step(g, e)
    <3> TAKE e \in Below(n + 1)
    <3>1. e \in Nat /\ Lit \in Nat  BY StringsAre, Constants
    <3>2. CASE e < Lit  BY <3>2
    <3>3. CASE e >= Lit
      <4>1. h[table[e].prefix] = g[table[e].prefix]
        <5> HIDE DEF h, Below
        <5> QED BY <2>4, <2>6, <3>3
      <4> HIDE DEF h, Below
      <4> QED BY <4>1, <3>1, <3>3
    <3> QED BY <3>1, <3>2, <3>3
  <2>8. \A e \in Below(n + 1) : h[e] = Step(h, e)
    <3> TAKE e \in Below(n + 1)
    <3>1. CASE e = n
      <4>1. h[e] = Step(g, e)
        <5> HIDE DEF Step, Below
        <5> QED BY <3>1
      <4> HIDE DEF Step, h
      <4> QED BY <4>1, <2>7
    <3>2. CASE e # n
      <4> HIDE DEF Step, h, Below
      <4> QED BY <3>2, <2>3, <2>4, <2>5, <2>7
    <3> QED BY <3>1, <3>2
  <2>9. Solves(h, n + 1)
    <3> DEFINE D == Below(n + 1)
    <3>1. h = [e \in D |-> h[e]]
      <4> HIDE DEF Step, Below
      <4> QED OBVIOUS
    <3>2. \A e \in D : h[e] = Step(h, e)  BY <2>8
    <3> HIDE DEF Step, h, Below, D
    <3>3. h = [e \in D |-> Step(h, e)]  BY <3>1, <3>2
    <3> QED BY <3>3 DEF D
  <2>10. n + 1 \in Nat  OBVIOUS
  <2> HIDE DEF Solves, h
  <2> QED BY <2>9, <2>10
<1>3. MAXCODE(Bits) \in P
  <2>1. MAXCODE(Bits) \in Nat  BY Constants
  <2> HIDE DEF P
  <2> QED BY <1>1, <1>2, <2>1, NatSetInduction
<1>4. PICK g : Solves(g, MAXCODE(Bits))  BY <1>3
<1>5. Below(MAXCODE(Bits)) = Strings  BY StringsAre
<1> DEFINE Defines(f) == f = [e \in Strings |->
                IF e < Lit THEN <<e>> ELSE Append(f[table[e].prefix], table[e].suffix)]
           string == CHOOSE f : Defines(f)
<1>6. Defines(g)
  <2> HIDE DEF Below
  <2> QED BY <1>4, <1>5
<1>7. \A code : String(code) = string[code]
    BY DEF String
<1>8. Defines(string)
  <2> HIDE DEF Defines
  <2> QED BY <1>6
<1> HIDE DEF string
<1> QED BY <1>7, <1>8

\* A string has characters only, ends, and is no longer than the place of its code.
LEMMA StringIs ==
    ASSUME Parameters, table \in Table, Chained
    PROVE  \A e \in Strings :
             /\ String(e) \in Seq(Character) /\ String(e) # <<>>
             /\ e < Lit => Len(String(e)) = 1
             /\ e >= Lit => Len(String(e)) <= e - First + 2
<1>1. PICK string :
             /\ string = [e \in Strings |->
                            IF e < Lit THEN <<e>>
                                       ELSE Append(string[table[e].prefix], table[e].suffix)]
             /\ \A code : String(code) = string[code]
    BY StringDefined
<1>2. \A e \in Strings :
        string[e] = IF e < Lit THEN <<e>>
                               ELSE Append(string[table[e].prefix], table[e].suffix)
    BY <1>1
<1> DEFINE Right(e) == /\ string[e] \in Seq(Character) /\ string[e] # <<>>
                       /\ e < Lit => Len(string[e]) = 1
                       /\ e >= Lit => Len(string[e]) <= e - First + 2
           P == {n \in Nat : \A e \in Strings : e < n => Right(e)}
<1>0. Lit \in Nat /\ First \in Nat /\ MAXCODE(Bits) \in Nat /\ Lit <= First
    BY Constants, FirstIs
<1>3. 0 \in P
    BY StringsAre
<1>4. ASSUME NEW n \in Nat, n \in P PROVE n + 1 \in P
  <2> SUFFICES ASSUME NEW e \in Strings, e < n + 1 PROVE Right(e)
      OBVIOUS
  <2>1. e \in Nat /\ (e >= Lit => e >= First /\ e \in First .. MAXCODE(Bits) - 1)  BY StringsAre
  <2>2. CASE e < Lit
    <3>0. e \in Character  BY <1>0, <2>1, <2>2 DEF Character
    <3>1. string[e] = <<e>>  BY <1>2, <2>2
    <3>2. <<e>> \in Seq(Character) /\ <<e>> # <<>> /\ Len(<<e>>) = 1  BY <3>0
    <3> QED BY <1>0, <2>1, <2>2, <3>1, <3>2
  <2>3. CASE e >= Lit
    <3> DEFINE prefix == table[e].prefix
               suffix == table[e].suffix
    <3>1. prefix < e  BY <2>1, <2>3 DEF Chained
    <3>2. e \in Lit .. MAXCODE(Bits) - 1  BY <1>0, <2>1, <2>3
    <3>3. prefix \in Strings /\ suffix \in Character  BY <3>2 DEF Table
    <3>4. prefix \in Nat /\ (prefix >= Lit => prefix >= First)  BY <3>3, StringsAre
    <3>5. string[e] = Append(string[prefix], suffix)
      <4>1. ~(e < Lit)  BY <1>0, <2>1, <2>3
      <4> QED BY <1>2, <4>1
    <3> HIDE DEF prefix, suffix
    <3>6. prefix < n  BY <2>1, <3>1, <3>4
    <3>7. Right(prefix)  BY <1>4, <3>3, <3>6
    <3> DEFINE s == string[prefix]
    <3>8. s \in Seq(Character) /\ suffix \in Character  BY <3>3, <3>7
    <3>9. /\ prefix < Lit => Len(s) = 1
          /\ prefix >= Lit => Len(s) <= prefix - First + 2
        BY <3>7
    <3> HIDE DEF s, Right
    <3>10. /\ Append(s, suffix) \in Seq(Character) /\ Append(s, suffix) # <<>>
           /\ Len(Append(s, suffix)) = Len(s) + 1 /\ Len(s) \in Nat
        BY <3>8
    <3>11. Len(s) + 1 <= e - First + 2
      <4>1. e \in Nat /\ First \in Nat /\ e >= First /\ Lit \in Nat  BY <1>0, <2>1, <2>3
      <4>2. CASE prefix < Lit
        <5>1. Len(s) = 1  BY <3>9, <4>2
        <5> QED BY <4>1, <5>1
      <4>3. CASE prefix >= Lit
        <5>1. Len(s) <= prefix - First + 2  BY <3>9, <4>3
        <5>2. prefix \in Nat /\ prefix + 1 <= e  BY <3>1, <3>4, <4>1
        <5>3. Len(s) \in Nat  BY <3>10
        <5> QED BY <4>1, <5>1, <5>2, <5>3
      <4> QED BY <3>4, <4>1, <4>2, <4>3
    <3>12. string[e] = Append(s, suffix)  BY <3>5 DEF s
    <3> QED BY <1>0, <2>1, <2>3, <3>10, <3>11, <3>12 DEF Right
  <2> QED BY <1>0, <2>1, <2>2, <2>3
<1>5. MAXCODE(Bits) \in P
  <2> HIDE DEF P
  <2> QED BY <1>0, <1>3, <1>4, NatSetInduction
<1>6. \A e \in Strings : Right(e)
  <2> HIDE DEF Right
  <2> QED BY <1>5, StringsAre
<1> QED BY <1>1, <1>6

-----------------------------------------------------------------------------
(* The invariant.                                                            *)

TypeInv ==
    /\ file \in Files
    /\ pc \in {"start", "reset", "code", "done", "corrupt", "error"}
    /\ fpos \in 0 .. Bytes
    /\ inbuf \in Seq({0, 1}) /\ posbits \in Nat /\ inbits \in Int /\ more \in BOOLEAN
    /\ nbits \in InitBits .. Bits /\ maxcode \in Nat /\ freeEnt \in Nat
    /\ table \in Table
    /\ oldcode \in {-1} \cup Strings /\ finchar \in Character
    /\ outbuf \in Seq(Character) /\ out \in Seq(Character)

\* maxcode is that of the width, and the table has no more entries than
\* there are codes, or none.
WidthInv ==
    /\ pc \notin {"start", "error"} => file.maxbits <= Bits
    /\ maxcode = IF nbits > InitBits /\ nbits = file.maxbits THEN MAXCODE(nbits)
                                                             ELSE MAXCODE(nbits) - 1
    /\ Lit <= freeEnt
    /\ freeEnt <= First \/ (file.maxbits <= Bits /\ freeEnt <= MAXCODE(file.maxbits))

\* The code before has its entry, but for the one behind a CLEAR, whose entry
\* is that of CLEAR itself, and the last ones of a full table.
ChainInv ==
    /\ Chained
    /\ First <= freeEnt /\ freeEnt < MAXCODE(file.maxbits) => oldcode < freeEnt

\* Codes begin at multiples of their width, and so does the end of the bits that
\* are taken from the buffer, or it is so far from its end as the last code is long.
GroupInv ==
    pc = "code" =>
        /\ \E k \in Nat : posbits = k * nbits
        /\ IF more THEN inbits <= Len(inbuf) /\ \E k \in Nat : inbits = k * nbits
                   ELSE inbits = Len(inbuf) - (nbits - 1)

IInv == TypeInv /\ WidthInv /\ ChainInv /\ GroupInv

\* No code is taken from behind the end of the buffer, and each code that is looked
\* up is that of a string or of CLEAR (unlzw.c:64, 239).
CodesAreThere ==
    /\ pc = "code" /\ inbits > posbits => posbits + nbits <= Len(inbuf)
    /\ oldcode \in {-1} \cup Strings

-----------------------------------------------------------------------------
(* Arithmetic.                                                               *)

\* A multiple that is greater than another is so by a factor at least.
LEMMA NextMultiple ==
    ASSUME NEW n \in Nat \ {0}, NEW j \in Nat, NEW k \in Nat, k * n < j * n
    PROVE  (k + 1) * n <= j * n
<1>1. k < j
  <2> SUFFICES ASSUME j <= k PROVE FALSE  OBVIOUS
  <2>1. PICK d \in Nat : k = j + d
    <3>1. k - j \in Nat /\ k = j + (k - j)  OBVIOUS
    <3> QED BY <3>1
  <2>2. k * n = j * n + d * n  BY <2>1
  <2>3. d * n \in Nat /\ j * n \in Nat  BY <2>1
  <2> QED BY <2>2, <2>3
<1>2. PICK d \in Nat : j = (k + 1) + d
  <2>1. j - (k + 1) \in Nat /\ j = (k + 1) + (j - (k + 1))  BY <1>1
  <2> QED BY <2>1
<1>3. j * n = (k + 1) * n + d * n  BY <1>2
<1>4. d * n \in Nat /\ (k + 1) * n \in Nat  BY <1>2
<1> QED BY <1>3, <1>4

\* Quotient and remainder.
LEMMA Division ==
    ASSUME NEW a \in Nat, NEW n \in Nat \ {0}
    PROVE  /\ a \div n \in Nat /\ a % n \in Nat /\ a % n < n
           /\ a = n * (a \div n) + (a % n)
OBVIOUS

\* Products are numbers and grow with their factors.
LEMMA ProductType ==
    ASSUME NEW a \in Nat, NEW b \in Nat
    PROVE  /\ a * b \in Nat /\ a * b = b * a
           /\ a # 0 /\ b # 0 => a * b # 0
           /\ \A c \in Nat : a <= c => a * b <= c * b
<1>1. a * b \in Nat /\ a * b = b * a  OBVIOUS
<1>2. a # 0 /\ b # 0 => a * b # 0  OBVIOUS
<1>3. ASSUME NEW c \in Nat, a <= c PROVE a * b <= c * b
  <2>1. PICK d \in Nat : c = a + d
    <3>1. c - a \in Nat /\ c = a + (c - a)  BY <1>3
    <3> QED BY <3>1
  <2>2. c * b = a * b + d * b /\ d * b \in Nat /\ a * b \in Nat  BY <2>1
  <2> QED BY <2>2
<1> QED BY <1>1, <1>2, <1>3

\* The end of a group is a place.
LEMMA AlignedType ==
    ASSUME Parameters, NEW bit \in Nat, NEW n \in Nat \ {0}
    PROVE  Aligned(bit, n) \in Nat
<1> DEFINE group == ByteBits * n
<1>1. group \in Nat \ {0}  BY Constants, ProductType
<1> HIDE DEF group
<1>2. bit + group - 1 \in Nat  BY <1>1
<1>3. (bit + group - 1) \div group \in Nat  BY <1>1, <1>2, Division
<1>4. ((bit + group - 1) \div group) * group \in Nat  BY <1>1, <1>3, ProductType
<1> QED BY <1>4 DEF Aligned, group

\* The elements of a part of a sequence.
LEMMA PartType ==
    ASSUME NEW S, NEW s \in Seq(S), NEW m \in Nat \ {0}, NEW n \in Nat, n <= Len(s)
    PROVE  /\ SubSeq(s, m, n) \in Seq(S)
           /\ m <= n + 1 => Len(SubSeq(s, m, n)) = n - m + 1
<1>1. \A i \in m .. n : s[i] \in S
    OBVIOUS
<1> QED BY <1>1

\* A part of a sequence, by where it begins and how long it is.
LEMMA PartAt ==
    ASSUME NEW S, NEW s \in Seq(S), NEW x \in Nat, NEW y \in Nat, x + y <= Len(s)
    PROVE  SubSeq(s, x + 1, x + y) = [i \in 1 .. y |-> s[x + i]]
<1>1. 1 + (x + y) - (x + 1) = y /\ \A i \in 1 .. y : i + (x + 1) - 1 = x + i
    OBVIOUS
<1> QED BY <1>1

\* The elements of a concatenation.
LEMMA ConcatType ==
    ASSUME NEW S, NEW s \in Seq(S), NEW t \in Seq(S)
    PROVE  s \o t \in Seq(S) /\ Len(s \o t) = Len(s) + Len(t)
OBVIOUS

-----------------------------------------------------------------------------
(* The steps.                                                                *)

\* First, Bytes and the codes of strings depend on the file only.
LEMMA FileStays ==
    ASSUME Next
    PROVE  /\ file' = file /\ First' = First /\ Bytes' = Bytes /\ Strings' = Strings
           /\ Table' = Table
<1>1. file' = file
    BY DEF Next, Start, ResetBuf, Exhausted, Widen, FirstCode, Clear, Entry, Corrupt
<1> QED BY <1>1 DEF First, Bytes, Strings, Table

\* The file's own numbers.
LEMMA FileTypes ==
    ASSUME Parameters, file \in Files
    PROVE  /\ file.maxbits \in Nat /\ file.block \in BOOLEAN /\ file.bits \in Seq({0, 1})
           /\ Bytes \in Nat /\ ByteBits * Bytes <= Len(file.bits)
<1>1. file.maxbits \in Nat /\ file.block \in BOOLEAN /\ file.bits \in Seq({0, 1})
    BY Constants DEF File
<1>2. Len(file.bits) \in Nat  BY <1>1
<1>3. Bytes \in Nat /\ ByteBits * Bytes <= Len(file.bits)
  <2> DEFINE n == Len(file.bits)
  <2>1. n \in Nat /\ ByteBits \in Nat \ {0}  BY <1>2, Constants
  <2> HIDE DEF n
  <2>2. n \div ByteBits \in Nat /\ n % ByteBits \in Nat /\ n = ByteBits * (n \div ByteBits) + (n % ByteBits)
      BY <2>1, Division
  <2>3. ByteBits * (n \div ByteBits) \in Nat  BY <2>1, <2>2, ProductType
  <2>4. ByteBits * (n \div ByteBits) <= n  BY <2>1, <2>2, <2>3
  <2> QED BY <2>2, <2>4 DEF Bytes, n
<1> QED BY <1>1, <1>3

\* Some of the file's bytes.
LEMMA BytesOf ==
    ASSUME Parameters, file \in Files, NEW m \in Nat, NEW n \in Nat, m + n <= Bytes
    PROVE  SubSeq(file.bits, ByteBits * m + 1, ByteBits * (m + n)) \in Seq({0, 1})
<1>1. ByteBits \in Nat /\ file.bits \in Seq({0, 1}) /\ Bytes \in Nat /\ m + n \in Nat
      /\ ByteBits * Bytes <= Len(file.bits)
    BY Constants, FileTypes
<1>2. ByteBits * m \in Nat /\ ByteBits * (m + n) \in Nat /\ ByteBits * (m + n) <= ByteBits * Bytes
    BY <1>1, ProductType
<1>3. ByteBits * m + 1 \in Nat \ {0} /\ ByteBits * (m + n) <= Len(file.bits)
    <2>1. Len(file.bits) \in Nat /\ ByteBits * Bytes \in Nat  BY <1>1, ProductType
    <2> QED BY <1>1, <1>2, <2>1
<1> QED BY <1>1, <1>2, <1>3, PartType

\* The table never has more entries than there are codes.
LEMMA FreeEntBound ==
    ASSUME Parameters, TypeInv, WidthInv
    PROVE  /\ freeEnt <= MAXCODE(Bits)
           /\ freeEnt < MAXCODE(file.maxbits) /\ file.maxbits <= Bits => freeEnt < MAXCODE(Bits)
<1>1. /\ file.maxbits \in Nat /\ Bits \in Nat /\ freeEnt \in Nat
      /\ MAXCODE(Bits) \in Nat /\ MAXCODE(file.maxbits) \in Nat
    BY FileTypes, Constants DEF TypeInv
<1>2. file.maxbits <= Bits => MAXCODE(file.maxbits) <= MAXCODE(Bits)
  <2>1. CASE file.maxbits = Bits  BY <1>1, <2>1
  <2>2. CASE file.maxbits < Bits
    <3>1. MAXCODE(file.maxbits) < MAXCODE(Bits)  BY <1>1, <2>2, Constants
    <3> QED BY <1>1, <3>1
  <2>3. CASE file.maxbits > Bits  BY <1>1, <2>3
  <2> QED BY <1>1, <2>1, <2>2, <2>3
<1>3. First \in Nat /\ First <= MAXCODE(Bits)  BY FirstIs
<1>4. freeEnt <= First \/ (file.maxbits <= Bits /\ freeEnt <= MAXCODE(file.maxbits))
    BY DEF WidthInv
<1> QED BY <1>1, <1>2, <1>3, <1>4

\* At the widest width no code is too wide.
LEMMA WidensToBits ==
    ASSUME Parameters, TypeInv, WidthInv, pc = "code", freeEnt > maxcode
    PROVE  nbits < Bits
<1>1. /\ nbits \in Nat /\ Bits \in Nat /\ nbits <= Bits /\ InitBits \in Nat /\ InitBits < Bits
      /\ freeEnt \in Nat /\ file.maxbits \in Nat /\ file.maxbits <= Bits /\ First \in Nat
      /\ maxcode \in Nat
    BY Constants, FileTypes, FirstIs DEF TypeInv, WidthInv
<1>2. SUFFICES ASSUME nbits = Bits PROVE FALSE
    BY <1>1
<1>3. MAXCODE(Bits) \in Nat /\ First < MAXCODE(Bits)
  <2>1. /\ Lit \in Nat /\ Lit + 1 <= MAXCODE(InitBits) /\ MAXCODE(InitBits) < MAXCODE(Bits)
        /\ MAXCODE(InitBits) \in Nat /\ MAXCODE(Bits) \in Nat /\ First <= Lit + 1
      BY <1>1, Constants, FirstIs
  <2> QED BY <1>1, <2>1
<1>4. CASE file.maxbits = Bits
  <2>1. maxcode = MAXCODE(Bits)  BY <1>1, <1>2, <1>4 DEF WidthInv
  <2>2. freeEnt <= MAXCODE(Bits)  BY FreeEntBound
  <2> QED BY <1>1, <1>3, <2>1, <2>2
<1>5. CASE file.maxbits # Bits
  <2>1. maxcode = MAXCODE(Bits) - 1  BY <1>1, <1>2, <1>5 DEF WidthInv
  <2>2. MAXCODE(file.maxbits) \in Nat /\ MAXCODE(file.maxbits) < MAXCODE(Bits)
      BY <1>1, <1>5, Constants
  <2>3. freeEnt < MAXCODE(Bits)  BY <1>1, <1>3, <2>2 DEF WidthInv
  <2> QED BY <1>1, <1>3, <2>1, <2>3
<1> QED BY <1>4, <1>5

\* When there is a code its bits are in the buffer.
LEMMA BitsAreThere ==
    ASSUME Parameters, IInv, pc = "code", inbits > posbits
    PROVE  /\ posbits + nbits <= Len(inbuf)
           /\ inbuf \in Seq({0, 1}) /\ Len(inbuf) \in Nat /\ posbits \in Nat
           /\ nbits \in Nat \ {0} /\ nbits <= Bits /\ Bits \in Nat
<1>1. /\ pc = "code" /\ inbits > posbits /\ inbuf \in Seq({0, 1}) /\ Len(inbuf) \in Nat
      /\ posbits \in Nat /\ inbits \in Int /\ nbits \in Nat \ {0} /\ nbits <= Bits /\ Bits \in Nat
  <2>1. InitBits \in Nat \ {0} /\ Bits \in Nat  BY Constants
  <2>2. nbits \in InitBits .. Bits /\ inbuf \in Seq({0, 1}) /\ posbits \in Nat /\ inbits \in Int
      BY DEF IInv, TypeInv
  <2>3. nbits \in Nat \ {0} /\ nbits <= Bits  BY <2>1, <2>2
  <2>5. Len(inbuf) \in Nat  BY <2>2
  <2> QED BY <2>1, <2>2, <2>3, <2>5
<1>2. posbits + nbits <= Len(inbuf)
  <2>1. CASE more
    <3>1. PICK k \in Nat : posbits = k * nbits  BY <1>1 DEF IInv, GroupInv
    <3>2. PICK j \in Nat : inbits = j * nbits  BY <1>1, <2>1 DEF IInv, GroupInv
    <3>3. inbits <= Len(inbuf)  BY <1>1, <2>1 DEF IInv, GroupInv
    <3>4. (k + 1) * nbits <= j * nbits  BY <1>1, <3>1, <3>2, NextMultiple
    <3>5. (k + 1) * nbits = k * nbits + nbits  BY <1>1
    <3> QED BY <1>1, <3>1, <3>2, <3>3, <3>4, <3>5
  <2>2. CASE ~more
    <3>1. inbits = Len(inbuf) - (nbits - 1)  BY <1>1, <2>2 DEF IInv, GroupInv
    <3> QED BY <1>1, <3>1
  <2> QED BY <2>1, <2>2
<1> QED BY <1>1, <1>2

\* What input returns when there is a code.
LEMMA CodeIs ==
    ASSUME Parameters, IInv, Ready
    PROVE  Code \in Nat /\ Code < MAXCODE(Bits)
<1>1. /\ inbuf \in Seq({0, 1}) /\ Len(inbuf) \in Nat /\ posbits \in Nat
      /\ nbits \in Nat \ {0} /\ nbits <= Bits /\ Bits \in Nat
    BY BitsAreThere DEF Ready
<1>2. posbits + nbits <= Len(inbuf)
    BY BitsAreThere DEF Ready
<1> DEFINE bits == SubSeq(inbuf, posbits + 1, posbits + nbits)
<1>3. bits \in Seq({0, 1}) /\ Len(bits) = nbits
  <2>1. posbits + 1 \in Nat \ {0} /\ posbits + nbits \in Nat /\ posbits + 1 <= posbits + nbits + 1
        /\ (posbits + nbits) - (posbits + 1) + 1 = nbits
      BY <1>1
  <2> QED BY <1>1, <1>2, <2>1, PartType
<1> HIDE DEF bits
<1>4. Value(bits) \in 0 .. 2 ^ nbits - 1  BY <1>3, ValueBound
<1>5. Code \in Nat /\ Code < MAXCODE(nbits)
  <2>1. Code = Value(bits)  BY DEF Code, bits
  <2>2. 2 ^ nbits \in Nat  BY <1>1, PowerType
  <2> QED BY <1>4, <2>1, <2>2 DEF MAXCODE
<1>6. MAXCODE(nbits) <= MAXCODE(Bits) /\ MAXCODE(nbits) \in Nat /\ MAXCODE(Bits) \in Nat
  <2>1. MAXCODE(nbits) \in Nat /\ MAXCODE(Bits) \in Nat  BY <1>1, Constants
  <2>2. CASE nbits = Bits  BY <2>1, <2>2
  <2>3. CASE nbits < Bits
    <3>1. MAXCODE(nbits) < MAXCODE(Bits)  BY <1>1, <2>3, Constants
    <3> QED BY <2>1, <3>1
  <2> QED BY <1>1, <2>1, <2>2, <2>3
<1>7. Code < MAXCODE(Bits)  BY <1>5, <1>6
<1> QED BY <1>5, <1>7

\* The types of everything, for the steps.
LEMMA StateTypes ==
    ASSUME Parameters, TypeInv
    PROVE  /\ file \in Files /\ file.maxbits \in Nat /\ file.block \in BOOLEAN
           /\ First \in Nat /\ Lit <= First /\ First <= Lit + 1 /\ First <= MAXCODE(Bits)
           /\ MAXCODE(file.maxbits) \in Nat /\ MAXCODE(Bits) \in Nat /\ Lit \in Nat \ {0}
           /\ nbits \in Nat \ {0} /\ InitBits \in Nat \ {0} /\ Bits \in Nat
           /\ posbits \in Nat /\ maxcode \in Nat /\ freeEnt \in Nat /\ oldcode \in Int
           /\ Len(inbuf) \in Nat /\ inbuf \in Seq({0, 1})
<1>1. /\ file \in Files /\ file.maxbits \in Nat /\ file.block \in BOOLEAN
      /\ First \in Nat /\ Lit <= First /\ First <= Lit + 1 /\ First <= MAXCODE(Bits)
    BY FileTypes, FirstIs DEF TypeInv
<1>2. /\ MAXCODE(file.maxbits) \in Nat /\ MAXCODE(Bits) \in Nat /\ Lit \in Nat \ {0}
      /\ InitBits \in Nat \ {0} /\ Bits \in Nat
    BY <1>1, Constants
<1>3. nbits \in Nat \ {0}
  <2>1. nbits \in InitBits .. Bits  BY DEF TypeInv
  <2> QED BY <1>2, <2>1
<1>4. oldcode \in Int
  <2>1. \A e \in Strings : e \in Nat  BY StringsAre
  <2> QED BY <2>1 DEF TypeInv
<1>5. posbits \in Nat /\ maxcode \in Nat /\ freeEnt \in Nat /\ inbuf \in Seq({0, 1})
    BY DEF TypeInv
<1>6. Len(inbuf) \in Nat  BY <1>5
<1> QED BY <1>1, <1>2, <1>3, <1>4, <1>5, <1>6

\* The invariant holds when unlzw is called.
LEMMA InvStart == ASSUME Parameters, Init PROVE IInv
<1>1. file \in Files /\ pc = "start"  BY DEF Init
<1>2. /\ file.maxbits \in Nat /\ file.block \in BOOLEAN /\ file.bits \in Seq({0, 1})
      /\ Bytes \in Nat /\ ByteBits * Bytes <= Len(file.bits)
    BY <1>1, FileTypes
<1>3. fpos \in 0 .. Bytes /\ inbuf \in Seq({0, 1})
  <2>1. PICK n \in 0 .. Least(InBuf - 1, Bytes) :
            /\ fpos = n
            /\ inbuf = [i \in 1 .. ByteBits |-> 1] \o SubSeq(file.bits, 1, ByteBits * n)
      BY DEF Init
  <2>2. n \in Nat /\ n <= Bytes
    <3>1. InBuf \in Nat \ {0} /\ Bytes \in Nat  BY <1>2, Constants
    <3>2. \A a, b \in Nat : Least(a, b) \in Nat /\ Least(a, b) <= b  BY DEF Least
    <3>3. InBuf - 1 \in Nat  BY <3>1
    <3>4. Least(InBuf - 1, Bytes) \in Nat /\ Least(InBuf - 1, Bytes) <= Bytes  BY <3>1, <3>2, <3>3
    <3>5. n \in 0 .. Least(InBuf - 1, Bytes)  BY <2>1
    <3> QED BY <3>1, <3>4, <3>5
  <2>3. SubSeq(file.bits, 1, ByteBits * n) \in Seq({0, 1})
    <3>1. SubSeq(file.bits, ByteBits * 0 + 1, ByteBits * (0 + n)) \in Seq({0, 1})
        BY <1>1, <2>2, BytesOf
    <3>2. ByteBits * 0 + 1 = 1 /\ 0 + n = n  BY <2>2, Constants
    <3> QED BY <3>1, <3>2
  <2>4. [i \in 1 .. ByteBits |-> 1] \in Seq({0, 1})
    <3>1. ByteBits \in Nat  BY Constants
    <3> QED BY <3>1
  <2>5. inbuf \in Seq({0, 1})
      BY <2>1, <2>3, <2>4, ConcatType
  <2> QED BY <2>1, <2>2, <2>5, <1>2
<1>4. /\ posbits = ByteBits /\ inbits = 0 /\ more = TRUE /\ nbits = InitBits
      /\ maxcode = MAXCODE(InitBits) - 1 /\ freeEnt = First /\ oldcode = -1 /\ finchar = 0
      /\ outbuf = <<>> /\ out = <<>>
      /\ table = [e \in Lit .. MAXCODE(Bits) - 1 |-> [prefix |-> 0, suffix |-> 0]]
    BY DEF Init
<1>5. /\ First \in Nat /\ Lit <= First /\ Lit \in Nat \ {0} /\ ByteBits \in Nat
      /\ InitBits \in Nat /\ Bits \in Nat /\ InitBits < Bits
      /\ MAXCODE(InitBits) \in Nat \ {0} /\ MAXCODE(Bits) \in Nat
    BY Constants, FirstIs
<1>6. 0 \in Strings /\ 0 \in Character
    BY <1>5 DEF Strings, Character
<1>7. table \in Table
    BY <1>4, <1>6 DEF Table
<1>8. TypeInv
  <2>1. maxcode \in Nat /\ nbits \in InitBits .. Bits  BY <1>4, <1>5
  <2> QED BY <1>1, <1>3, <1>4, <1>5, <1>6, <1>7, <2>1 DEF TypeInv
<1>9. WidthInv
    BY <1>1, <1>4, <1>5 DEF WidthInv
<1>10. Chained
  <2> SUFFICES ASSUME NEW e \in First .. MAXCODE(Bits) - 1 PROVE table[e].prefix < e
      BY DEF Chained
  <2>1. e \in Lit .. MAXCODE(Bits) - 1 /\ 0 < e  BY <1>5
  <2>2. table[e] = [prefix |-> 0, suffix |-> 0]  BY <1>4, <2>1
  <2> QED BY <2>1, <2>2
<1>11. ChainInv
    BY <1>4, <1>5, <1>10 DEF ChainInv
<1>12. GroupInv
    BY <1>1 DEF GroupInv
<1> QED BY <1>8, <1>9, <1>11, <1>12 DEF IInv

\* Where the table and the width stay, only the types, the code before and the group
\* have to be looked at.
LEMMA Unchanged ==
    ASSUME Parameters, IInv, Next, TypeInv', GroupInv',
           UNCHANGED <<widthVars, freeEnt, table, oldcode>>,
           pc' \in {"start", "error"} \/ file.maxbits <= Bits
    PROVE  IInv'
<1>1. file' = file /\ First' = First
    BY FileStays
<1>2. UNCHANGED <<nbits, maxcode, freeEnt, table, oldcode>>
    BY DEF widthVars
<1>3. \A n : MAXCODE(n)' = MAXCODE(n)
    BY DEF MAXCODE
<1>4. WidthInv'
    BY <1>1, <1>2, <1>3 DEF IInv, WidthInv, MAXCODE
<1>5. ChainInv'
    BY <1>1, <1>2, <1>3 DEF IInv, ChainInv, Chained, MAXCODE
<1> QED BY <1>4, <1>5 DEF IInv

\* A file with codes that are too wide is refused; no other is.
LEMMA StartKeeps == ASSUME Parameters, IInv, Start PROVE IInv'
<1>1. /\ Next /\ pc = "start" /\ UNCHANGED <<file, inVars, widthVars, tableVars, outbuf, out>>
      /\ pc' = IF file.maxbits > Bits THEN "error" ELSE "reset"
    BY DEF Start, Next
<1>2. file.maxbits \in Nat /\ Bits \in Nat  BY StateTypes DEF IInv
<1>3. TypeInv'
    BY <1>1, FileStays DEF IInv, TypeInv, inVars, widthVars, tableVars, Character
<1>4. GroupInv'
    BY <1>1 DEF GroupInv
<1> QED BY <1>1, <1>2, <1>3, <1>4, Unchanged DEF tableVars

\* The rest of the buffer is moved, and what is read comes behind it.
LEMMA ResetBufKeeps == ASSUME Parameters, IInv, ResetBuf PROVE IInv'
<1>1. /\ Next /\ pc = "reset" /\ pc' = "code" /\ posbits' = 0
      /\ UNCHANGED <<file, widthVars, tableVars, outbuf, out>>
      /\ inbits' = IF more' THEN Len(inbuf') - (Len(inbuf') % (ByteBits * nbits))
                            ELSE Len(inbuf') - (nbits - 1)
    BY DEF ResetBuf, Next
<1>2. /\ nbits \in Nat \ {0} /\ ByteBits \in Nat \ {0} /\ InBuf \in Nat /\ Bytes \in Nat
      /\ posbits \in Nat /\ inbuf \in Seq({0, 1}) /\ Len(inbuf) \in Nat /\ file \in Files
      /\ fpos \in 0 .. Bytes /\ more \in BOOLEAN
    BY StateTypes, Constants, FileTypes DEF IInv, TypeInv
<1> DEFINE rest == SubSeq(inbuf, ByteBits * (posbits \div ByteBits) + 1, Len(inbuf))
<1>3. rest \in Seq({0, 1})
  <2>1. posbits \div ByteBits \in Nat  BY <1>2, Division
  <2>2. ByteBits * (posbits \div ByteBits) \in Nat  BY <1>2, <2>1, ProductType
  <2>3. ByteBits * (posbits \div ByteBits) + 1 \in Nat \ {0}  BY <2>2
  <2> QED BY <1>2, <2>3, PartType
<1>4. fpos' \in 0 .. Bytes /\ inbuf' \in Seq({0, 1}) /\ more' \in BOOLEAN
  <2>1. \/ inbuf' = rest /\ UNCHANGED <<fpos, more>>
        \/ \E n \in 0 .. Least(InBuf, Bytes - fpos) :
                /\ inbuf' = rest \o SubSeq(file.bits, ByteBits * fpos + 1, ByteBits * (fpos + n))
                /\ fpos' = fpos + n
                /\ more' = (n > 0)
      BY DEF ResetBuf
  <2> HIDE DEF rest
  <2>2. CASE inbuf' = rest /\ UNCHANGED <<fpos, more>>
      BY <1>2, <1>3, <2>2
  <2>3. ASSUME NEW n \in 0 .. Least(InBuf, Bytes - fpos),
                /\ inbuf' = rest \o SubSeq(file.bits, ByteBits * fpos + 1, ByteBits * (fpos + n))
                /\ fpos' = fpos + n
                /\ more' = (n > 0)
        PROVE  fpos' \in 0 .. Bytes /\ inbuf' \in Seq({0, 1}) /\ more' \in BOOLEAN
    <3>1. n \in Nat /\ fpos \in Nat /\ fpos + n <= Bytes  BY <1>2 DEF Least
    <3>2. SubSeq(file.bits, ByteBits * fpos + 1, ByteBits * (fpos + n)) \in Seq({0, 1})
        BY <1>2, <3>1, BytesOf
    <3>3. inbuf' \in Seq({0, 1})  BY <1>3, <2>3, <3>2, ConcatType
    <3>4. fpos' \in 0 .. Bytes /\ more' \in BOOLEAN  BY <1>2, <2>3, <3>1
    <3> QED BY <3>3, <3>4
  <2> QED BY <2>1, <2>2, <2>3
<1> HIDE DEF rest
<1>5. nbits' = nbits  BY <1>1 DEF widthVars
<1>6. GroupInv' /\ inbits' \in Int
  <2> DEFINE group == ByteBits * nbits
             length == Len(inbuf')
  <2>1. length \in Nat  BY <1>4
  <2>2. group \in Nat \ {0}  BY <1>2, ProductType
  <2>3. inbits' = IF more' THEN length - (length % group) ELSE length - (nbits - 1)
      BY <1>1
  <2>4. \E k \in Nat : posbits' = k * nbits'
    <3>1. 0 \in Nat /\ posbits' = 0 * nbits'  BY <1>1, <1>2, <1>5
    <3> QED BY <3>1
  <2> HIDE DEF length
  <2>5. length - (length % group) <= length /\ \E k \in Nat : length - (length % group) = k * nbits
    <3> DEFINE q == length \div group
               r == length % group
    <3>0. group = ByteBits * nbits  OBVIOUS
    <3> HIDE DEF group
    <3>1. q \in Nat /\ r \in Nat /\ length = group * q + r  BY <2>1, <2>2, Division
    <3> HIDE DEF q, r
    <3>2. group * q \in Nat /\ group * q = q * group  BY <2>2, <3>1, ProductType
    <3>3. length - r = q * group /\ length - r <= length  BY <2>1, <3>1, <3>2
    <3>4. q * (ByteBits * nbits) = (q * ByteBits) * nbits /\ q * ByteBits \in Nat  BY <1>2, <3>1
    <3> QED BY <3>0, <3>3, <3>4 DEF r
  <2>6. length - (length % group) \in Int
    <3> HIDE DEF group
    <3> QED BY <2>1, <2>2, Division
  <2> HIDE DEF group
  <2>7. inbits' \in Int  BY <1>2, <2>1, <2>3, <2>6
  <2>8. CASE more'
    <3>1. inbits' = length - (length % group)  BY <2>3, <2>8
    <3> QED BY <1>5, <2>4, <2>5, <2>7, <2>8, <3>1 DEF GroupInv, length
  <2>9. CASE ~more'
    <3>1. inbits' = length - (nbits - 1)  BY <2>3, <2>9
    <3> QED BY <1>5, <2>4, <2>7, <2>9, <3>1 DEF GroupInv, length
  <2> QED BY <2>8, <2>9
<1>7. TypeInv'
    BY <1>1, <1>4, <1>6, FileStays DEF IInv, TypeInv, widthVars, tableVars, Character
<1>8. file.maxbits <= Bits  BY <1>1 DEF IInv, WidthInv
<1> QED BY <1>1, <1>6, <1>7, <1>8, Unchanged DEF tableVars

\* The bits in the buffer are used up.
LEMMA ExhaustedKeeps == ASSUME Parameters, IInv, Exhausted PROVE IInv'
<1>1. /\ Next /\ pc = "code" /\ UNCHANGED <<file, inVars, widthVars, tableVars>>
      /\ \/ pc' = "reset" /\ UNCHANGED <<outbuf, out>>
         \/ pc' = "done" /\ out' = out \o outbuf /\ outbuf' = <<>>
    BY DEF Exhausted, Next
<1>2. outbuf \in Seq(Character) /\ out \in Seq(Character)  BY DEF IInv, TypeInv
<1>3. out' \in Seq(Character) /\ outbuf' \in Seq(Character)
  <2>1. out \o outbuf \in Seq(Character) /\ <<>> \in Seq(Character)  BY <1>2, ConcatType
  <2> QED BY <1>1, <1>2, <2>1
<1>4. Character' = Character  BY DEF Character
<1>5. TypeInv'
    BY <1>1, <1>3, <1>4, FileStays DEF IInv, TypeInv, inVars, widthVars, tableVars
<1>6. GroupInv'  BY <1>1 DEF GroupInv
<1>7. file.maxbits <= Bits  BY <1>1 DEF IInv, WidthInv
<1> QED BY <1>1, <1>5, <1>6, <1>7, Unchanged DEF tableVars

\* A code has no entry yet.
LEMMA CorruptKeeps == ASSUME Parameters, IInv, Corrupt PROVE IInv'
<1>1. /\ Next /\ Ready /\ pc' = "corrupt" /\ posbits' = posbits + nbits
      /\ UNCHANGED <<file, fpos, inbuf, inbits, more, widthVars, tableVars>>
      /\ out' = out \o outbuf /\ outbuf' = <<>>
    BY DEF Corrupt, Next
<1>2. outbuf \in Seq(Character) /\ out \in Seq(Character) /\ posbits \in Nat /\ nbits \in Nat
    BY StateTypes DEF IInv, TypeInv
<1>3. out' \in Seq(Character) /\ outbuf' \in Seq(Character) /\ posbits' \in Nat
  <2>1. out \o outbuf \in Seq(Character)  BY <1>2, ConcatType
  <2>2. posbits + nbits \in Nat  BY <1>2
  <2>3. <<>> \in Seq(Character)  OBVIOUS
  <2> QED BY <1>1, <2>1, <2>2, <2>3
<1>4. Character' = Character  BY DEF Character
<1>5. TypeInv'
    BY <1>1, <1>3, <1>4, FileStays DEF IInv, TypeInv, widthVars, tableVars
<1>6. GroupInv'  BY <1>1 DEF GroupInv
<1>7. file.maxbits <= Bits  BY <1>1 DEF IInv, WidthInv, Ready
<1> QED BY <1>1, <1>5, <1>6, <1>7, Unchanged DEF tableVars

\* Codes grow by a bit.
LEMMA WidenKeeps == ASSUME Parameters, IInv, Widen PROVE IInv'
<1>1. /\ Next /\ pc = "code" /\ freeEnt > maxcode /\ pc' = "reset" /\ nbits' = nbits + 1
      /\ posbits' = Aligned(posbits, nbits)
      /\ maxcode' = IF nbits' = file.maxbits THEN MAXCODE(file.maxbits) ELSE MAXCODE(nbits') - 1
      /\ UNCHANGED <<file, fpos, inbuf, inbits, more, tableVars, outbuf, out>>
    BY DEF Widen, Next
<1>2. /\ nbits \in Nat \ {0} /\ InitBits \in Nat /\ Bits \in Nat /\ InitBits <= nbits
      /\ nbits < Bits /\ posbits \in Nat
    BY <1>1, StateTypes, WidensToBits DEF IInv, TypeInv
<1>3. nbits' \in InitBits .. Bits /\ nbits' > InitBits
    BY <1>1, <1>2
<1>4. posbits' \in Nat
    BY <1>1, <1>2, AlignedType
<1>5. maxcode' = IF nbits' = file.maxbits THEN MAXCODE(nbits') ELSE MAXCODE(nbits') - 1
    BY <1>1
<1>6. maxcode' \in Nat
  <2>1. nbits' \in Nat  BY <1>1, <1>2
  <2>2. MAXCODE(nbits') \in Nat \ {0}  BY <2>1, Constants
  <2> QED BY <1>5, <2>2
<1>7. TypeInv'
    BY <1>1, <1>3, <1>4, <1>6, FileStays DEF IInv, TypeInv, tableVars, Character
<1>8. UNCHANGED <<freeEnt, table, oldcode, First, file>>
    BY <1>1, FileStays DEF tableVars
<1>9. WidthInv'
    BY <1>1, <1>3, <1>5, <1>8 DEF IInv, WidthInv, MAXCODE
<1>10. ChainInv'
    BY <1>8 DEF IInv, ChainInv, Chained, MAXCODE
<1>11. GroupInv'
    BY <1>1 DEF GroupInv
<1> QED BY <1>7, <1>9, <1>10, <1>11 DEF IInv

\* A code further, in the same group or the next of the same width.
LEMMA GroupGoesOn ==
    ASSUME Parameters, IInv, pc = "code", posbits' = posbits + nbits, nbits' = nbits,
           UNCHANGED <<inbuf, inbits, more>>
    PROVE  GroupInv'
<1>1. PICK k \in Nat : posbits = k * nbits
    BY DEF IInv, GroupInv
<1>2. nbits \in Nat  BY StateTypes DEF IInv
<1>3. posbits' = (k + 1) * nbits' /\ k + 1 \in Nat
    BY <1>1, <1>2
<1> QED BY <1>3 DEF IInv, GroupInv

\* The first code is a character.
LEMMA FirstCodeKeeps == ASSUME Parameters, IInv, FirstCode PROVE IInv'
<1>1. /\ Next /\ Ready /\ posbits' = posbits + nbits
      /\ UNCHANGED <<file, fpos, inbuf, inbits, more, widthVars, freeEnt, table, out>>
      /\ IF Code >= Lit
         THEN pc' = "corrupt" /\ UNCHANGED <<oldcode, finchar, outbuf>>
         ELSE oldcode' = Code /\ finchar' = Code /\ outbuf' = <<Code>> /\ UNCHANGED pc
    BY DEF FirstCode, Next
<1>2. /\ posbits \in Nat /\ nbits \in Nat /\ Lit \in Nat \ {0} /\ pc = "code" /\ freeEnt \in Nat
      /\ Code \in Nat
    BY <1>1, StateTypes, CodeIs DEF IInv, Ready
<1>3. file.maxbits <= Bits  BY <1>2 DEF IInv, WidthInv
<1>4. posbits' \in Nat  BY <1>1, <1>2
<1>5. CASE Code >= Lit
  <2>1. pc' = "corrupt" /\ UNCHANGED <<oldcode, finchar, outbuf>>  BY <1>1, <1>5
  <2>2. TypeInv'
      BY <1>1, <1>4, <2>1, FileStays DEF IInv, TypeInv, widthVars, Character
  <2>3. GroupInv'  BY <2>1 DEF GroupInv
  <2> QED BY <1>1, <1>3, <2>1, <2>2, <2>3, Unchanged
<1>6. CASE Code < Lit
  <2>1. oldcode' = Code /\ finchar' = Code /\ outbuf' = <<Code>> /\ pc' = pc
      BY <1>1, <1>2, <1>6
  <2>2. Code \in Character /\ Code \in Strings
      BY <1>2, <1>6 DEF Character, Strings
  <2>3. outbuf' \in Seq(Character)  BY <2>1, <2>2
  <2>4. TypeInv'
      BY <1>1, <1>4, <2>1, <2>2, <2>3, FileStays DEF IInv, TypeInv, widthVars, Character
  <2>5. GroupInv'
      BY <1>1, <1>2, GroupGoesOn DEF widthVars
  <2>6. UNCHANGED <<file, First, nbits, maxcode, freeEnt, table>>
      BY <1>1, FileStays DEF widthVars
  <2>7. WidthInv'
      BY <2>1, <2>6 DEF IInv, WidthInv, MAXCODE
  <2>8. oldcode' < freeEnt
    <3>1. Lit <= freeEnt  BY DEF IInv, WidthInv
    <3> QED BY <1>2, <1>6, <2>1, <3>1
  <2>9. ChainInv'
      BY <2>6, <2>8 DEF IInv, ChainInv, Chained, MAXCODE
  <2> QED BY <2>4, <2>5, <2>7, <2>9 DEF IInv
<1> QED BY <1>2, <1>5, <1>6

\* The table is cleared.
LEMMA ClearKeeps == ASSUME Parameters, IInv, Clear PROVE IInv'
<1>1. /\ Next /\ Ready /\ file.block /\ pc' = "reset" /\ freeEnt' = FIRST - 1
      /\ posbits' = Aligned(posbits + nbits, nbits)
      /\ nbits' = InitBits /\ maxcode' = MAXCODE(InitBits) - 1
      /\ UNCHANGED <<file, fpos, inbuf, inbits, more, table, oldcode, finchar, outbuf, out>>
    BY DEF Clear, Next
<1>2. /\ posbits \in Nat /\ nbits \in Nat \ {0} /\ Lit \in Nat /\ InitBits \in Nat
      /\ Bits \in Nat /\ InitBits < Bits /\ MAXCODE(InitBits) \in Nat \ {0}
    BY StateTypes, Constants DEF IInv
<1>3. freeEnt' = Lit /\ First = Lit + 1
    BY <1>1, <1>2 DEF FIRST, CLEAR, First, FirstFree
<1>4. posbits' \in Nat
  <2>1. posbits + nbits \in Nat  BY <1>2
  <2> QED BY <1>1, <1>2, <2>1, AlignedType
<1>5. nbits' \in InitBits .. Bits /\ maxcode' \in Nat /\ freeEnt' \in Nat
    BY <1>1, <1>2, <1>3
<1>6. TypeInv'
    BY <1>1, <1>4, <1>5, FileStays DEF IInv, TypeInv, Character
<1>7. UNCHANGED <<file, First, table>>
    BY <1>1, FileStays
<1>8. file.maxbits <= Bits  BY <1>1 DEF IInv, WidthInv, Ready
<1>9. WidthInv'
  <2>1. ~(nbits' > InitBits)  BY <1>1, <1>2
  <2>2. Lit <= freeEnt' /\ freeEnt' <= First'  BY <1>2, <1>3, <1>7
  <2>3. maxcode' = MAXCODE(nbits') - 1  BY <1>1
  <2> QED BY <1>7, <1>8, <2>1, <2>2, <2>3 DEF WidthInv, MAXCODE
<1>10. ChainInv'
  <2>1. ~(First' <= freeEnt')  BY <1>2, <1>3, <1>7
  <2> QED BY <1>7, <2>1 DEF IInv, ChainInv, Chained, MAXCODE
<1>11. GroupInv'  BY <1>1 DEF GroupInv
<1> QED BY <1>6, <1>9, <1>10, <1>11 DEF IInv

\* What a code puts out: characters, and one at least.
LEMMA EntryString ==
    ASSUME Parameters, IInv, Entry
    PROVE  LET string == IF Code = freeEnt THEN Append(String(oldcode), finchar)
                                           ELSE String(Code)
           IN  /\ string \in Seq(Character) /\ string[1] \in Character
               /\ Code \in Strings
<1>1. /\ Ready /\ oldcode # -1 /\ Code <= freeEnt /\ (Code # CLEAR \/ ~file.block)
    BY DEF Entry
<1>2. Code \in Nat /\ Code < MAXCODE(Bits)
    BY <1>1, CodeIs
<1>3. \A e \in Strings : String(e) \in Seq(Character) /\ String(e) # <<>>
    BY StringIs DEF IInv, TypeInv, ChainInv
<1>4. Code \in Strings
  <2>1. /\ Lit \in Nat /\ First \in Nat /\ MAXCODE(Bits) \in Nat
        /\ First = IF file.block THEN Lit + 1 ELSE Lit
      BY StateTypes DEF IInv, First, FirstFree, FIRST, CLEAR
  <2>2. Code < Lit \/ First <= Code
      BY <1>1, <1>2, <2>1 DEF CLEAR
  <2> HIDE DEF First
  <2> QED BY <1>2, <2>1, <2>2 DEF Strings
<1>5. oldcode \in Strings /\ finchar \in Character
    BY <1>1 DEF IInv, TypeInv
<1>6. \A s \in Seq(Character) : s # <<>> => s[1] \in Character
    OBVIOUS
<1>7. \A s \in Seq(Character), c \in Character : Append(s, c) \in Seq(Character) /\ Append(s, c) # <<>>
  <2> TAKE s \in Seq(Character), c \in Character
  <2>1. Append(s, c) \in Seq(Character) /\ Len(Append(s, c)) = Len(s) + 1 /\ Len(s) \in Nat  OBVIOUS
  <2>2. Len(Append(s, c)) # 0  BY <2>1
  <2> QED BY <2>1, <2>2
<1>8. CASE Code = freeEnt
  <2>1. Append(String(oldcode), finchar) \in Seq(Character) /\ Append(String(oldcode), finchar) # <<>>
      BY <1>3, <1>5, <1>7
  <2> QED BY <1>4, <1>6, <1>8, <2>1
<1>9. CASE Code # freeEnt
  <2>1. String(Code) \in Seq(Character) /\ String(Code) # <<>>  BY <1>3, <1>4
  <2> QED BY <1>4, <1>6, <1>9, <2>1
<1> QED BY <1>8, <1>9

\* A string is put out, and the table grows by an entry.
LEMMA EntryKeeps == ASSUME Parameters, IInv, Entry PROVE IInv'
<1> DEFINE string == IF Code = freeEnt THEN Append(String(oldcode), finchar)
                                       ELSE String(Code)
           all    == outbuf \o string
           full   == Len(all) - (Len(all) % OutBuf)
<1>1. /\ Next /\ Ready /\ Code <= freeEnt /\ (Code # CLEAR \/ ~file.block)
      /\ posbits' = posbits + nbits /\ oldcode' = Code
      /\ UNCHANGED <<file, pc, fpos, inbuf, inbits, more, widthVars>>
    BY DEF Entry, Next
<1>2. /\ finchar' = string[1]
      /\ out' = out \o SubSeq(all, 1, full)
      /\ outbuf' = SubSeq(all, full + 1, Len(all))
    BY DEF Entry
<1>3. IF freeEnt < MAXCODE(file.maxbits)
      THEN /\ table' = [table EXCEPT ![freeEnt] = [prefix |-> oldcode, suffix |-> finchar']]
           /\ freeEnt' = freeEnt + 1
      ELSE UNCHANGED <<table, freeEnt>>
    BY DEF Entry
<1>4. string \in Seq(Character) /\ string[1] \in Character /\ Code \in Strings /\ oldcode \in Strings
    BY EntryString DEF Entry, IInv, TypeInv
<1> HIDE DEF string
<1>5. outbuf' \in Seq(Character) /\ out' \in Seq(Character) /\ finchar' \in Character
  <2>1. outbuf \in Seq(Character) /\ out \in Seq(Character)  BY DEF IInv, TypeInv
  <2>2. all \in Seq(Character)  BY <1>4, <2>1, ConcatType
  <2>3. OutBuf \in Nat \ {0}  BY Constants
  <2> HIDE DEF all
  <2>4. Len(all) \in Nat  BY <2>2
  <2>5. Len(all) % OutBuf \in Nat /\ Len(all) % OutBuf <= Len(all)
    <3> DEFINE n == Len(all)
    <3> HIDE DEF n
    <3>1. n \in Nat  BY <2>4 DEF n
    <3>2. n \div OutBuf \in Nat /\ n % OutBuf \in Nat /\ n = OutBuf * (n \div OutBuf) + (n % OutBuf)
        BY <2>3, <3>1, Division
    <3>3. OutBuf * (n \div OutBuf) \in Nat  BY <2>3, <3>2, ProductType
    <3>4. n % OutBuf \in Nat /\ n % OutBuf <= n  BY <3>1, <3>2, <3>3
    <3> QED BY <3>4 DEF n
  <2>6. full \in Nat /\ full <= Len(all) /\ full + 1 \in Nat \ {0}  BY <2>4, <2>5
  <2> HIDE DEF full
  <2>7. SubSeq(all, 1, full) \in Seq(Character)
    <3>1. 1 \in Nat \ {0}  OBVIOUS
    <3> QED BY <2>2, <2>6, <3>1, PartType
  <2>8. SubSeq(all, full + 1, Len(all)) \in Seq(Character)
    <3>1. Len(all) <= Len(all)  BY <2>4
    <3> QED BY <2>2, <2>4, <2>6, <3>1, PartType
  <2>9. out \o SubSeq(all, 1, full) \in Seq(Character)  BY <2>1, <2>7, ConcatType
  <2> QED BY <1>2, <1>4, <2>8, <2>9
<1> HIDE DEF full, all
<1>6. /\ First \in Nat /\ Lit <= First /\ First <= Lit + 1 /\ Lit \in Nat /\ freeEnt \in Nat
      /\ MAXCODE(file.maxbits) \in Nat /\ MAXCODE(Bits) \in Nat /\ Code \in Nat
      /\ nbits \in Nat /\ posbits \in Nat /\ oldcode \in Int
    BY <1>1, StateTypes, CodeIs DEF IInv
<1>7. pc = "code" /\ file.maxbits <= Bits /\ Lit <= freeEnt
    BY <1>1 DEF IInv, WidthInv, Ready
<1>8. UNCHANGED <<file, First, Strings, Table, nbits, maxcode, pc>>
    BY <1>1, FileStays DEF widthVars
<1>9. GroupInv'
    BY <1>1, <1>7, GroupGoesOn DEF widthVars
<1>10. posbits' \in Nat  BY <1>1, <1>6
<1>11. freeEnt <= First \/ freeEnt <= MAXCODE(file.maxbits)
    BY DEF IInv, WidthInv
<1>12. CASE freeEnt < MAXCODE(file.maxbits)
  <2> DEFINE entry == [prefix |-> oldcode, suffix |-> finchar']
  <2>1. table' = [table EXCEPT ![freeEnt] = entry] /\ freeEnt' = freeEnt + 1
      BY <1>3, <1>12
  <2>2. entry \in [prefix : Strings, suffix : Character]  BY <1>4, <1>5
  <2>3. freeEnt < MAXCODE(Bits)  BY <1>7, <1>12, FreeEntBound DEF IInv
  <2>4. freeEnt \in Lit .. MAXCODE(Bits) - 1  BY <1>6, <1>7, <2>3
  <2>5. table \in Table  BY DEF IInv, TypeInv
  <2>6. table' \in Table
    <3> HIDE DEF entry
    <3> QED BY <2>1, <2>2, <2>5 DEF Table
  <2>7. freeEnt' \in Nat /\ Lit <= freeEnt' /\ freeEnt' <= MAXCODE(file.maxbits)
      BY <1>6, <1>7, <1>12, <2>1
  <2>8. TypeInv'
      BY <1>1, <1>4, <1>5, <1>8, <1>10, <2>6, <2>7 DEF IInv, TypeInv, Character, Bytes
  <2>9. WidthInv'
      BY <1>7, <1>8, <2>7 DEF IInv, WidthInv, MAXCODE
  <2>10. Chained'
    <3> SUFFICES ASSUME NEW e \in First .. MAXCODE(Bits) - 1 PROVE table'[e].prefix < e
        BY <1>8 DEF Chained, MAXCODE
    <3>1. e \in Nat /\ First <= e /\ e \in Lit .. MAXCODE(Bits) - 1  BY <1>6
    <3>2. CASE e = freeEnt
      <4>1. table'[e] = entry
        <5> HIDE DEF entry
        <5> QED BY <2>1, <2>4, <2>5, <3>2 DEF Table
      <4>2. table'[e].prefix = oldcode  BY <4>1
      <4>3. oldcode < freeEnt  BY <1>12, <3>1, <3>2 DEF IInv, ChainInv
      <4> QED BY <3>2, <4>2, <4>3
    <3>3. CASE e # freeEnt
      <4>1. table'[e] = table[e]
        <5> HIDE DEF entry
        <5> QED BY <2>1, <2>5, <3>1, <3>3 DEF Table
      <4>2. table[e].prefix < e  BY DEF IInv, ChainInv, Chained
      <4> QED BY <4>1, <4>2
    <3> QED BY <3>2, <3>3
  <2>11. oldcode' < freeEnt'  BY <1>1, <1>6, <2>1
  <2>12. ChainInv'  BY <2>10, <2>11 DEF ChainInv
  <2> QED BY <1>9, <2>8, <2>9, <2>12 DEF IInv
<1>13. CASE ~(freeEnt < MAXCODE(file.maxbits))
  <2>1. UNCHANGED <<table, freeEnt>>  BY <1>3, <1>13
  <2>2. TypeInv'
      BY <1>1, <1>4, <1>5, <1>8, <1>10, <2>1 DEF IInv, TypeInv, Character, Bytes
  <2>3. WidthInv'
      BY <1>7, <1>8, <2>1 DEF IInv, WidthInv, MAXCODE
  <2>4. ChainInv'
      BY <1>8, <1>13, <2>1 DEF IInv, ChainInv, Chained, MAXCODE
  <2> QED BY <1>9, <2>2, <2>3, <2>4 DEF IInv
<1> QED BY <1>12, <1>13

\* A step that changes nothing.
LEMMA StutterKeeps == ASSUME IInv, UNCHANGED vars PROVE IInv'
BY DEF IInv, TypeInv, WidthInv, ChainInv, Chained, GroupInv, vars, inVars, widthVars, tableVars,
       Bytes, First, Strings, Table, Character, MAXCODE

\* The invariant holds forever.
LEMMA IInvHolds == ASSUME Parameters PROVE Spec => []IInv
<1>1. IInv /\ [Next]_vars => IInv'
  <2> SUFFICES ASSUME IInv, [Next]_vars PROVE IInv'  OBVIOUS
  <2>1. CASE Start  BY <2>1, StartKeeps
  <2>2. CASE ResetBuf  BY <2>2, ResetBufKeeps
  <2>3. CASE Exhausted  BY <2>3, ExhaustedKeeps
  <2>4. CASE Widen  BY <2>4, WidenKeeps
  <2>5. CASE FirstCode  BY <2>5, FirstCodeKeeps
  <2>6. CASE Clear  BY <2>6, ClearKeeps
  <2>7. CASE Entry  BY <2>7, EntryKeeps
  <2>8. CASE Corrupt  BY <2>8, CorruptKeeps
  <2>9. CASE UNCHANGED vars  BY <2>9, StutterKeeps
  <2> QED BY <2>1, <2>2, <2>3, <2>4, <2>5, <2>6, <2>7, <2>8, <2>9 DEF Next
<1>2. Init => IInv
    BY InvStart
<1> QED BY <1>1, <1>2, PTL DEF Spec

\* Whatever the bits of the file are, the chain of prefixes of each entry goes down to
\* a character, and its string fits the stack, for every width of codes, size of
\* the buffers and way the file is read (unlzw.c:239).
THEOREM ChainsAlwaysEnd == ASSUME Parameters PROVE Spec => []ChainsEnd
<1>1. IInv => ChainsEnd
  <2> SUFFICES ASSUME IInv PROVE ChainsEnd  OBVIOUS
  <2>1. freeEnt <= MAXCODE(Bits)  BY FreeEntBound DEF IInv
  <2>2. /\ Lit \in Nat /\ First \in Nat /\ Lit <= First /\ freeEnt \in Nat /\ MAXCODE(Bits) \in Nat
      BY StateTypes DEF IInv
  <2>3. ASSUME NEW e \in First .. freeEnt - 1
        PROVE  table[e].prefix < e /\ Len(String(e)) <= e - First + 2
    <3>1. e \in First .. MAXCODE(Bits) - 1 /\ e >= Lit /\ e \in Nat  BY <2>1, <2>2
    <3>2. table[e].prefix < e  BY <3>1 DEF IInv, ChainInv, Chained
    <3>3. e \in Strings  BY <3>1 DEF Strings
    <3>4. Len(String(e)) <= e - First + 2  BY <3>1, <3>3, StringIs DEF IInv, TypeInv, ChainInv
    <3> QED BY <3>2, <3>4
  <2> QED BY <2>1, <2>3 DEF ChainsEnd
<1> QED BY <1>1, IInvHolds, PTL

\* No code is read from behind the end of the buffer, although reads are short, groups
\* are skipped and the width changes (unlzw.c:64); and a code that is kept is one of
\* a character or an entry of the table, never CLEAR (unlzw.c:236).
THEOREM CodesAreAlwaysThere == ASSUME Parameters PROVE Spec => []CodesAreThere
<1>1. IInv => CodesAreThere
  <2> SUFFICES ASSUME IInv PROVE CodesAreThere  OBVIOUS
  <2>1. oldcode \in {-1} \cup Strings  BY DEF IInv, TypeInv
  <2>2. pc = "code" /\ inbits > posbits => posbits + nbits <= Len(inbuf)
      BY BitsAreThere
  <2> QED BY <2>1, <2>2 DEF CodesAreThere
<1> QED BY <1>1, IInvHolds, PTL

-----------------------------------------------------------------------------
(* The strings of two tables.                                               *)

\* The string of a code by the chain of prefixes in a table, as String has it.
ChainString(codes, entries, code) ==
    LET string[e \in codes] ==
            IF e < Lit THEN <<e>> ELSE Append(string[entries[e].prefix], entries[e].suffix)
    IN  string[code]

\* Chains that go down, to codes that have a string.
GoesDown(codes, entries) ==
    \A e \in codes : e >= Lit => entries[e].prefix \in codes /\ entries[e].prefix < e

IsChainString(string, codes, entries) ==
    string = [e \in codes |->
                IF e < Lit THEN <<e>> ELSE Append(string[entries[e].prefix], entries[e].suffix)]

\* The recursion of a chain that goes down has a solution.
LEMMA ChainDefined ==
    ASSUME Lit \in Nat, NEW m \in Nat, NEW codes, codes \subseteq 0 .. m - 1, NEW entries,
           GoesDown(codes, entries)
    PROVE  \E string : /\ IsChainString(string, codes, entries)
                       /\ \A code : ChainString(codes, entries, code) = string[code]
<1> DEFINE Below(n) == {e \in codes : e < n}
           Step(g, e) == IF e < Lit THEN <<e>> ELSE Append(g[entries[e].prefix], entries[e].suffix)
           Solves(g, n) == g = [e \in Below(n) |-> Step(g, e)]
           P == {n \in Nat : \E g : Solves(g, n)}
<1>0. \A e \in codes : e \in Nat /\ e < m
    OBVIOUS
<1>1. 0 \in P
  <2>1. \A e \in codes : ~ (e < 0)  BY <1>0
  <2>1a. Below(0) = {}  BY <2>1
  <2> DEFINE g == [e \in {} |-> 0]
  <2>2. Solves(g, 0)
    <3> HIDE DEF Below
    <3> QED BY <2>1a
  <2> QED BY <2>2
<1>2. ASSUME NEW n \in Nat, n \in P PROVE n + 1 \in P
  <2>1. PICK g : Solves(g, n)  BY <1>2
  <2> DEFINE h == [e \in Below(n + 1) |-> IF e = n THEN Step(g, n) ELSE g[e]]
  <2>2. \A e \in Below(n) : e \in Below(n + 1) /\ e # n
      BY <1>0
  <2>3. \A e \in Below(n + 1) : e # n => e \in Below(n)
      BY <1>0
  <2>4. \A e \in Below(n) : h[e] = g[e]
    <3> HIDE DEF Below, Step
    <3> QED BY <2>2
  <2>5. \A e \in Below(n) : g[e] = Step(g, e)
    <3> HIDE DEF Below, Step
    <3> QED BY <2>1
  <2>6. \A e \in Below(n + 1) : e >= Lit => entries[e].prefix \in Below(n)
    <3> TAKE e \in Below(n + 1)
    <3> SUFFICES ASSUME e >= Lit PROVE entries[e].prefix \in Below(n)  OBVIOUS
    <3>1. e \in codes /\ e < n + 1 /\ e \in Nat  BY <1>0
    <3>2. entries[e].prefix \in codes /\ entries[e].prefix < e  BY <3>1 DEF GoesDown
    <3>3. entries[e].prefix \in Nat  BY <1>0, <3>2
    <3> QED BY <3>1, <3>2, <3>3
  <2>7. \A e \in Below(n + 1) : Step(h, e) = Step(g, e)
    <3> TAKE e \in Below(n + 1)
    <3>1. e \in Nat /\ Lit \in Nat  BY <1>0
    <3>2. CASE e < Lit  BY <3>2
    <3>3. CASE e >= Lit
      <4>1. h[entries[e].prefix] = g[entries[e].prefix]
        <5> HIDE DEF h, Below
        <5> QED BY <2>4, <2>6, <3>3
      <4> HIDE DEF h, Below
      <4> QED BY <4>1, <3>1, <3>3
    <3> QED BY <3>1, <3>2, <3>3
  <2>8. \A e \in Below(n + 1) : h[e] = Step(h, e)
    <3> TAKE e \in Below(n + 1)
    <3>1. CASE e = n
      <4>1. h[e] = Step(g, e)
        <5> HIDE DEF Step, Below
        <5> QED BY <3>1
      <4> HIDE DEF Step, h
      <4> QED BY <4>1, <2>7
    <3>2. CASE e # n
      <4> HIDE DEF Step, h, Below
      <4> QED BY <3>2, <2>3, <2>4, <2>5, <2>7
    <3> QED BY <3>1, <3>2
  <2>9. Solves(h, n + 1)
    <3> DEFINE D == Below(n + 1)
    <3>1. h = [e \in D |-> h[e]]
      <4> HIDE DEF Step, Below
      <4> QED OBVIOUS
    <3>2. \A e \in D : h[e] = Step(h, e)  BY <2>8
    <3> HIDE DEF Step, h, Below, D
    <3>3. h = [e \in D |-> Step(h, e)]  BY <3>1, <3>2
    <3> QED BY <3>3 DEF D
  <2>10. n + 1 \in Nat  OBVIOUS
  <2> HIDE DEF Solves, h
  <2> QED BY <2>9, <2>10
<1>3. m \in P
  <2> HIDE DEF P
  <2> QED BY <1>1, <1>2, NatSetInduction
<1>4. PICK g : Solves(g, m)  BY <1>3
<1>5. Below(m) = codes  BY <1>0
<1> DEFINE Defines(f) == f = [e \in codes |->
                IF e < Lit THEN <<e>> ELSE Append(f[entries[e].prefix], entries[e].suffix)]
           string == CHOOSE f : Defines(f)
<1>6. Defines(g)
  <2> HIDE DEF Below
  <2> QED BY <1>4, <1>5
<1>7. \A code : ChainString(codes, entries, code) = string[code]
    BY DEF ChainString
<1>8. Defines(string)
  <2> HIDE DEF Defines
  <2> QED BY <1>6
<1> HIDE DEF string
<1> QED BY <1>7, <1>8 DEF IsChainString

FollowsChain(codes, entries, e) ==
    ChainString(codes, entries, e) =
        IF e < Lit THEN <<e>>
        ELSE Append(ChainString(codes, entries, entries[e].prefix), entries[e].suffix)

\* What the recursion says.
LEMMA ChainStep ==
    ASSUME Lit \in Nat, NEW m \in Nat, NEW codes, codes \subseteq 0 .. m - 1, NEW entries,
           GoesDown(codes, entries)
    PROVE  \A e \in codes : FollowsChain(codes, entries, e)
<1> SUFFICES ASSUME NEW e \in codes PROVE FollowsChain(codes, entries, e)
    OBVIOUS
<1>1. PICK string : /\ IsChainString(string, codes, entries)
                    /\ \A code : ChainString(codes, entries, code) = string[code]
    BY ChainDefined
<1>2. string[e] = IF e < Lit THEN <<e>>
                             ELSE Append(string[entries[e].prefix], entries[e].suffix)
    BY <1>1 DEF IsChainString
<1> QED BY <1>1, <1>2 DEF FollowsChain

\* Two tables with the same entries below some code.
SameBelow(codes, entries, others, limit) ==
    \A e \in codes : e >= Lit /\ e < limit => others[e] = entries[e]

SameChains(codes, entries, others, limit) ==
    \A e \in codes :
        e < limit => ChainString(codes, others, e) = ChainString(codes, entries, e)

\* They have the same strings there.
LEMMA SameStrings ==
    ASSUME Lit \in Nat, NEW m \in Nat, NEW codes, codes \subseteq 0 .. m - 1, NEW entries, NEW others,
           GoesDown(codes, entries), GoesDown(codes, others), NEW limit \in Nat,
           SameBelow(codes, entries, others, limit)
    PROVE  SameChains(codes, entries, others, limit)
<1> DEFINE Same(e) == ChainString(codes, others, e) = ChainString(codes, entries, e)
           P == {n \in Nat : \A e \in codes : e < n /\ e < limit => Same(e)}
<1>0. \A e \in codes : e \in Nat /\ e < m
    OBVIOUS
<1>4. \A e \in codes : FollowsChain(codes, others, e) /\ FollowsChain(codes, entries, e)
    BY ChainStep
<1>1. 0 \in P
    BY <1>0
<1>2. ASSUME NEW n \in Nat, n \in P PROVE n + 1 \in P
  <2> SUFFICES ASSUME NEW e \in codes, e < n + 1, e < limit PROVE Same(e)
      OBVIOUS
  <2>1. e \in Nat  BY <1>0
  <2>2. CASE e < Lit
    <3>1. ChainString(codes, others, e) = <<e>>  BY <2>2, <1>4 DEF FollowsChain
    <3>2. ChainString(codes, entries, e) = <<e>>  BY <2>2, <1>4 DEF FollowsChain
    <3> QED BY <3>1, <3>2
  <2>3. CASE e >= Lit
    <3> DEFINE prefix == entries[e].prefix
    <3>1. others[e] = entries[e]  BY <2>3 DEF SameBelow
    <3>2. prefix \in codes /\ prefix < e  BY <2>3 DEF GoesDown
    <3> HIDE DEF Same, prefix
    <3>3. prefix \in Nat /\ prefix < n /\ prefix < limit  BY <1>0, <2>1, <3>2
    <3>7. ~ (e < Lit)  BY <2>1, <2>3
    <3>4. Same(prefix)  BY <1>2, <3>2, <3>3
    <3>5. ChainString(codes, others, e) = Append(ChainString(codes, others, prefix), entries[e].suffix)
      <4>1. ChainString(codes, others, e) =
                Append(ChainString(codes, others, others[e].prefix), others[e].suffix)
          BY <3>7, <1>4 DEF FollowsChain
      <4> QED BY <3>1, <4>1 DEF prefix
    <3>6. ChainString(codes, entries, e) = Append(ChainString(codes, entries, prefix), entries[e].suffix)
          BY <3>7, <1>4 DEF prefix, FollowsChain
    <3> QED BY <3>4, <3>5, <3>6 DEF Same
  <2> QED BY <2>1, <2>2, <2>3
<1>3. m \in P
  <2> HIDE DEF P
  <2> QED BY <1>1, <1>2, NatSetInduction
<1> QED BY <1>0, <1>3 DEF SameChains

-----------------------------------------------------------------------------
(* The recursive definitions of the format.                                  *)

\* The place of the k-th code, from that of the one before.
FirstPlace == [bit |-> 0, width |-> InitBits, base |-> 0, from |-> 1]
NextPlace(f, p, k) ==
    LET clear == IsClear(f, k - 1)
        wider == ~clear /\ NextEntry(f, p.from, k) > LastEntry(f, p.width)
        end   == p.bit + p.width
        next  == IF clear \/ wider THEN p.base + Aligned(end - p.base, p.width) ELSE end
    IN  [bit   |-> next,
         width |-> IF clear THEN InitBits
                   ELSE IF wider THEN p.width + 1 ELSE p.width,
         base  |-> IF clear \/ wider THEN next ELSE p.base,
         from  |-> IF clear THEN k ELSE p.from]

\* The recursion that defines Places has a solution.
LEMMA PlacesStep ==
    ASSUME NEW f, Len(f.codes) \in Nat
    PROVE  /\ Places(f)[1] = FirstPlace
           /\ \A k \in 2 .. Len(f.codes) + 1 : Places(f)[k] = NextPlace(f, Places(f)[k - 1], k)
<1> DEFINE Step(g, k) == IF k = 1 THEN FirstPlace ELSE NextPlace(f, g[k - 1], k)
           Solves(g, n) == g = [k \in 1 .. n |-> Step(g, k)]
           P == {n \in Nat : \E g : Solves(g, n)}
           last == Len(f.codes) + 1
           place == CHOOSE g : Solves(g, last)
<1>1. Places(f) = place
    BY DEF Places, FirstPlace, NextPlace
<1>2. 0 \in P
  <2> DEFINE g == [k \in {} |-> 0]
  <2>1. 1 .. 0 = {}  OBVIOUS
  <2>2. Solves(g, 0)
    <3> HIDE DEF Step
    <3> QED BY <2>1
  <2> HIDE DEF Solves, g
  <2> QED BY <2>2
<1>3. ASSUME NEW n \in Nat, n \in P PROVE n + 1 \in P
  <2> HIDE DEF place, last
  <2>1. PICK g : Solves(g, n)  BY <1>3
  <2> DEFINE h == [k \in 1 .. n + 1 |-> IF k = n + 1 THEN Step(g, n + 1) ELSE g[k]]
  <2>2. \A k \in 1 .. n : h[k] = g[k]
    <3> HIDE DEF Step
    <3> QED OBVIOUS
  <2>3. \A k \in 1 .. n : g[k] = Step(g, k)
    <3> HIDE DEF Step
    <3> QED BY <2>1
  <2>4. \A k \in 1 .. n + 1 : Step(h, k) = Step(g, k)
    <3> TAKE k \in 1 .. n + 1
    <3>1. CASE k = 1  BY <3>1
    <3>2. CASE k # 1
      <4>1. k - 1 \in 1 .. n  BY <3>2
      <4> HIDE DEF h
      <4>2. h[k - 1] = g[k - 1]  BY <2>2, <4>1
      <4> QED BY <4>2
    <3> QED BY <3>1, <3>2
  <2>5. \A k \in 1 .. n + 1 : h[k] = Step(h, k)
    <3> TAKE k \in 1 .. n + 1
    <3>1. CASE k = n + 1
      <4>1. h[k] = Step(g, k)
        <5> HIDE DEF Step
        <5> QED BY <3>1
      <4> HIDE DEF Step, h
      <4> QED BY <4>1, <2>4
    <3>2. CASE k # n + 1
      <4>1. k \in 1 .. n  BY <3>2
      <4> HIDE DEF Step, h
      <4> QED BY <4>1, <2>2, <2>3, <2>4
    <3> QED BY <3>1, <3>2
  <2>6. Solves(h, n + 1)
    <3>1. h = [k \in 1 .. n + 1 |-> h[k]]
      <4> HIDE DEF Step
      <4> QED OBVIOUS
    <3> HIDE DEF Step, h
    <3>2. h = [k \in 1 .. n + 1 |-> Step(h, k)]  BY <3>1, <2>5
    <3> QED BY <3>2
  <2>7. n + 1 \in Nat  OBVIOUS
  <2> HIDE DEF Solves, h
  <2> QED BY <2>6, <2>7
<1>4. last \in P
  <2>1. last \in Nat  OBVIOUS
  <2> HIDE DEF P, last
  <2> QED BY <1>2, <1>3, <2>1, NatSetInduction
<1>5. Solves(place, last)
  <2>1. PICK g : Solves(g, last)
    <3> HIDE DEF Solves, place
    <3> QED BY <1>4
  <2> HIDE DEF Solves, last
  <2> QED BY <2>1
<1> HIDE DEF place
<1>6. \A k \in 1 .. last : place[k] = Step(place, k)
  <2> HIDE DEF Step, last
  <2> QED BY <1>5
<1>7. 1 \in 1 .. last /\ \A k \in 2 .. last : k \in 1 .. last /\ k # 1
    OBVIOUS
<1> HIDE DEF last
<1>8. place[1] = FirstPlace  BY <1>6, <1>7
<1>9. \A k \in 2 .. last : place[k] = NextPlace(f, place[k - 1], k)
    BY <1>6, <1>7
<1> QED BY <1>1, <1>8, <1>9 DEF last

\* The recursion that defines Joined has a solution.
LEMMA JoinedStep ==
    ASSUME NEW strings, Len(strings) \in Nat
    PROVE  /\ Joined(strings)[0] = <<>>
           /\ \A k \in 1 .. Len(strings) : Joined(strings)[k] = Joined(strings)[k - 1] \o strings[k]
<1> DEFINE Step(g, k) == IF k = 0 THEN <<>> ELSE g[k - 1] \o strings[k]
           Solves(g, n) == g = [k \in 0 .. n |-> Step(g, k)]
           P == {n \in Nat : \E g : Solves(g, n)}
           last == Len(strings)
           joined == CHOOSE g : Solves(g, last)
<1>1. Joined(strings) = joined
    BY DEF Joined
<1>2. 0 \in P
  <2> DEFINE g == [k \in 0 .. 0 |-> <<>>]
  <2>1. Solves(g, 0)  OBVIOUS
  <2> HIDE DEF Solves, g
  <2> QED BY <2>1
<1>3. ASSUME NEW n \in Nat, n \in P PROVE n + 1 \in P
  <2> HIDE DEF joined, last
  <2>1. PICK g : Solves(g, n)  BY <1>3
  <2> DEFINE h == [k \in 0 .. n + 1 |-> IF k = n + 1 THEN Step(g, n + 1) ELSE g[k]]
  <2>2. \A k \in 0 .. n : h[k] = g[k]
    <3> HIDE DEF Step
    <3> QED OBVIOUS
  <2>3. \A k \in 0 .. n : g[k] = Step(g, k)
    <3> HIDE DEF Step
    <3> QED BY <2>1
  <2>4. \A k \in 0 .. n + 1 : Step(h, k) = Step(g, k)
    <3> TAKE k \in 0 .. n + 1
    <3>1. CASE k = 0  BY <3>1
    <3>2. CASE k # 0
      <4>1. k - 1 \in 0 .. n  BY <3>2
      <4> HIDE DEF h
      <4>2. h[k - 1] = g[k - 1]  BY <2>2, <4>1
      <4> QED BY <4>2
    <3> QED BY <3>1, <3>2
  <2>5. \A k \in 0 .. n + 1 : h[k] = Step(h, k)
    <3> TAKE k \in 0 .. n + 1
    <3>1. CASE k = n + 1
      <4>1. h[k] = Step(g, k)
        <5> HIDE DEF Step
        <5> QED BY <3>1
      <4> HIDE DEF Step, h
      <4> QED BY <4>1, <2>4
    <3>2. CASE k # n + 1
      <4>1. k \in 0 .. n  BY <3>2
      <4> HIDE DEF Step, h
      <4> QED BY <4>1, <2>2, <2>3, <2>4
    <3> QED BY <3>1, <3>2
  <2>6. Solves(h, n + 1)
    <3>1. h = [k \in 0 .. n + 1 |-> h[k]]
      <4> HIDE DEF Step
      <4> QED OBVIOUS
    <3> HIDE DEF Step, h
    <3>2. h = [k \in 0 .. n + 1 |-> Step(h, k)]  BY <3>1, <2>5
    <3> QED BY <3>2
  <2>7. n + 1 \in Nat  OBVIOUS
  <2> HIDE DEF Solves, h
  <2> QED BY <2>6, <2>7
<1>4. last \in P
  <2> HIDE DEF P
  <2> QED BY <1>2, <1>3, NatSetInduction
<1>5. Solves(joined, last)
  <2>1. PICK g : Solves(g, last)
    <3> HIDE DEF Solves, joined
    <3> QED BY <1>4
  <2> HIDE DEF Solves, last
  <2> QED BY <2>1
<1> HIDE DEF joined
<1>6. \A k \in 0 .. last : joined[k] = Step(joined, k)
  <2> HIDE DEF Step, last
  <2> QED BY <1>5
<1>7. 0 \in 0 .. last /\ \A k \in 1 .. last : k \in 0 .. last /\ k # 0
    OBVIOUS
<1> HIDE DEF last
<1>8. joined[0] = <<>>  BY <1>6, <1>7
<1>9. \A k \in 1 .. last : joined[k] = joined[k - 1] \o strings[k]
    BY <1>6, <1>7
<1> QED BY <1>1, <1>8, <1>9 DEF last

\* A sequence begins with itself, whatever follows.
LEMMA ConcatPrefix ==
    ASSUME NEW S, NEW s \in Seq(S), NEW t \in Seq(S)
    PROVE  IsPrefix(s, s \o t)
<1>1. Len(s) \in Nat /\ Len(t) \in Nat /\ Len(s \o t) = Len(s) + Len(t) /\ s \o t \in Seq(S)
    OBVIOUS
<1> DEFINE part == SubSeq(s \o t, 1, Len(s))
<1>2. part \in Seq(S) /\ Len(part) = Len(s) /\ \A i \in 1 .. Len(s) : part[i] = s[i]
    BY <1>1
<1> HIDE DEF part
<1>3. part = s
    BY <1>2
<1> QED BY <1>1, <1>3 DEF IsPrefix, part

\* What is joined first is a beginning of what is joined.
LEMMA JoinedPrefix ==
    ASSUME NEW S, NEW strings \in Seq(Seq(S)), NEW k \in 0 .. Len(strings)
    PROVE  /\ Joined(strings)[k] \in Seq(S)
           /\ IsPrefix(Joined(strings)[k], Joined(strings)[Len(strings)])
<1> DEFINE last == Len(strings)
           J == Joined(strings)
           IsSeq(n) == n <= last => J[n] \in Seq(S)
           GoesOn(d) == k + d <= last => \E t \in Seq(S) : J[k + d] = J[k] \o t
           R == {n \in Nat : IsSeq(n)}
           Q == {d \in Nat : GoesOn(d)}
<1>1. last \in Nat /\ k \in Nat /\ k <= last /\ \A i \in 1 .. last : strings[i] \in Seq(S)
    OBVIOUS
<1>2. J[0] = <<>> /\ \A i \in 1 .. last : J[i] = J[i - 1] \o strings[i]
    BY <1>1, JoinedStep
<1> HIDE DEF J, last
<1>4. Nat \subseteq R
  <2>1. IsSeq(0)  BY <1>2
  <2>2. ASSUME NEW n \in Nat, IsSeq(n), n + 1 <= last PROVE J[n + 1] \in Seq(S)
    <3>1. n + 1 \in 1 .. last /\ (n + 1) - 1 = n /\ n <= last  BY <1>1, <2>2
    <3>2. J[n + 1] = J[n] \o strings[n + 1]  BY <1>2, <3>1
    <3>3. J[n] \in Seq(S)  BY <2>2, <3>1
    <3>4. strings[n + 1] \in Seq(S)  BY <1>1, <3>1
    <3>5. J[n] \o strings[n + 1] \in Seq(S)
      <4> DEFINE a == J[n]
                 b == strings[n + 1]
      <4> HIDE DEF a, b
      <4>1. a \in Seq(S) /\ b \in Seq(S)  BY <3>3, <3>4 DEF a, b
      <4>2. a \o b \in Seq(S)  BY <4>1
      <4> QED BY <4>2 DEF a, b
    <3> QED BY <3>2, <3>5
  <2>3. \A n \in Nat : IsSeq(n) => IsSeq(n + 1)  BY <2>2
  <2> HIDE DEF IsSeq
  <2>4. 0 \in R /\ \A n \in Nat : n \in R => n + 1 \in R  BY <2>1, <2>3
  <2> HIDE DEF R
  <2> QED BY <2>4, NatSetInduction
<1>5. J[k] \in Seq(S)
    BY <1>1, <1>4
<1>6. Nat \subseteq Q
  <2>1. GoesOn(0)
    <3>1. J[k] = J[k] \o <<>> /\ <<>> \in Seq(S)  BY <1>5
    <3>2. k + 0 = k  BY <1>1
    <3> QED BY <3>1, <3>2
  <2>2. ASSUME NEW d \in Nat, GoesOn(d), k + (d + 1) <= last
        PROVE  \E t \in Seq(S) : J[k + (d + 1)] = J[k] \o t
    <3> DEFINE n == k + d
    <3>1. n \in Nat /\ n + 1 \in 1 .. last /\ (n + 1) - 1 = n /\ n <= last /\ k + (d + 1) = n + 1
        BY <1>1, <2>2
    <3>2. PICK t \in Seq(S) : J[n] = J[k] \o t  BY <2>2, <3>1
    <3> DEFINE a == J[k]
               c == strings[n + 1]
    <3> HIDE DEF n, a
    <3>3. J[n + 1] = J[n] \o c /\ c \in Seq(S)  BY <1>1, <1>2, <3>1
    <3> HIDE DEF c
    <3>4. a \in Seq(S)  BY <1>5 DEF a
    <3>5. (a \o t) \o c = a \o (t \o c) /\ t \o c \in Seq(S)  BY <3>3, <3>4
    <3>6. J[n + 1] = a \o (t \o c)  BY <3>2, <3>3, <3>5 DEF a
    <3> QED BY <3>1, <3>5, <3>6 DEF a
  <2>3. \A d \in Nat : GoesOn(d) => GoesOn(d + 1)
    <3> TAKE d \in Nat
    <3> HAVE GoesOn(d)
    <3> QED BY <2>2
  <2> HIDE DEF GoesOn
  <2>4. 0 \in Q /\ \A d \in Nat : d \in Q => d + 1 \in Q  BY <2>1, <2>3
  <2> HIDE DEF Q
  <2> QED BY <2>4, NatSetInduction
<1>7. PICK t \in Seq(S) : J[last] = J[k] \o t
  <2>1. k + (last - k) = last /\ last - k \in Nat  BY <1>1
  <2>2. last - k \in Q  BY <1>6, <2>1
  <2>3. k + (last - k) <= last  BY <1>1, <2>1
  <2>4. \E t \in Seq(S) : J[k + (last - k)] = J[k] \o t  BY <2>2, <2>3
  <2> QED BY <2>1, <2>4
<1>8. IsPrefix(J[k], J[k] \o t)
    BY <1>5, ConcatPrefix
<1>9. IsPrefix(J[k], J[last])
    BY <1>7, <1>8
<1> QED BY <1>5, <1>9 DEF J, last

-----------------------------------------------------------------------------
(* Where groups of codes end.                                                *)

\* There is one quotient.
LEMMA OneQuotient ==
    ASSUME NEW g \in Nat \ {0}, NEW q \in Nat, NEW r \in Nat, r < g
    PROVE  (q * g + r) \div g = q
<1> DEFINE a == q * g + r
           d == a \div g
<1>1. a \in Nat /\ q * g \in Nat
  <2>1. q * g \in Nat  BY ProductType
  <2> QED BY <2>1
<1>2. d \in Nat /\ a % g \in Nat /\ a % g < g /\ a = g * d + (a % g)
  <2> HIDE DEF a
  <2> QED BY <1>1, Division
<1> DEFINE e == a % g
<1>3. q * g + r = d * g + e /\ d * g \in Nat /\ e \in Nat /\ e < g /\ d \in Nat
  <2>1. d \in Nat /\ e \in Nat /\ e < g /\ a = g * d + e  BY <1>2
  <2> HIDE DEF d, e
  <2>2. g * d = d * g /\ d * g \in Nat  BY <2>1, ProductType
  <2> QED BY <2>1, <2>2
<1> HIDE DEF d, e
<1>4. (d + 1) * g = d * g + g /\ (q + 1) * g = q * g + g
    BY <1>3
<1>5. ~ (q * g < d * g)
  <2> SUFFICES ASSUME q * g < d * g PROVE FALSE  OBVIOUS
  <2>1. (q + 1) * g <= d * g  BY <1>3, NextMultiple
  <2> QED BY <1>1, <1>3, <1>4, <2>1
<1>6. ~ (d * g < q * g)
  <2> SUFFICES ASSUME d * g < q * g PROVE FALSE  OBVIOUS
  <2>1. (d + 1) * g <= q * g  BY <1>3, NextMultiple
  <2> QED BY <1>1, <1>3, <1>4, <2>1
<1>7. q * g = d * g  BY <1>1, <1>3, <1>5, <1>6
<1>8. q = d
  <2>1. CASE q < d
    <3>1. PICK x \in Nat \ {0} : d = q + x
      <4>1. d - q \in Nat \ {0} /\ d = q + (d - q)  BY <1>3, <2>1
      <4> QED BY <4>1
    <3>2. d * g = q * g + x * g /\ x * g \in Nat  BY <3>1
    <3>3. x * g # 0  BY ProductType, <3>1
    <3> QED BY <1>1, <1>7, <3>2, <3>3
  <2>2. CASE d < q
    <3>1. PICK x \in Nat \ {0} : q = d + x
      <4>1. q - d \in Nat \ {0} /\ q = d + (q - d)  BY <1>3, <2>2
      <4> QED BY <4>1
    <3>2. q * g = d * g + x * g /\ x * g \in Nat  BY <1>3, <3>1
    <3>3. x * g # 0  BY ProductType, <3>1
    <3> QED BY <1>3, <1>7, <3>2, <3>3
  <2> QED BY <1>3, <2>1, <2>2
<1> QED BY <1>8 DEF d

\* The end of a group: at or behind the bit, a multiple of the group's size and the
\* least one, and as far from the next beginning whichever group it is counted from.
LEMMA AlignedIs ==
    ASSUME ByteBits \in Nat \ {0}, NEW bit \in Nat, NEW n \in Nat \ {0}
    PROVE  LET g == ByteBits * n
           IN  /\ g \in Nat \ {0}
               /\ Aligned(bit, n) \in Nat /\ bit <= Aligned(bit, n)
               /\ \E q \in Nat : Aligned(bit, n) = q * g
               /\ \A m \in Nat : bit <= m * g => Aligned(bit, n) <= m * g
               /\ \A m \in Nat : Aligned(m * g + bit, n) = m * g + Aligned(bit, n)
<1> DEFINE g == ByteBits * n
           a == bit + g - 1
           q == a \div g
           r == a % g
<1>1. g \in Nat \ {0}  BY ProductType
<1>2. Aligned(bit, n) = q * g  BY DEF Aligned
<1>3. \A b \in Nat : Aligned(b, n) = ((b + g - 1) \div g) * g  BY DEF Aligned
<1> HIDE DEF g
<1>4. a \in Nat  BY <1>1
<1>5. q \in Nat /\ r \in Nat /\ r < g /\ a = g * q + r
  <2> HIDE DEF a
  <2> QED BY <1>1, <1>4, Division
<1> HIDE DEF q, r
<1>6. g * q = q * g /\ q * g \in Nat  BY <1>1, <1>5, ProductType
<1>7. bit <= q * g  BY <1>1, <1>5, <1>6
<1>8. ASSUME NEW m \in Nat, bit <= m * g PROVE q * g <= m * g
  <2>1. m * g \in Nat  BY <1>1, ProductType
  <2> SUFFICES ASSUME m * g < q * g PROVE FALSE  BY <1>6, <2>1
  <2>2. (m + 1) * g <= q * g  BY <1>1, <1>5, NextMultiple
  <2>3. (m + 1) * g = m * g + g  BY <1>1
  <2> QED BY <1>1, <1>5, <1>6, <1>8, <2>1, <2>2, <2>3
<1>9. ASSUME NEW m \in Nat PROVE Aligned(m * g + bit, n) = m * g + q * g
  <2>1. m * g \in Nat /\ m + q \in Nat  BY <1>1, <1>5, ProductType
  <2>2. m * g + bit \in Nat  BY <2>1
  <2>3. (m + q) * g = m * g + q * g  BY <1>1, <1>5
  <2>4. m * g + bit + g - 1 = (m + q) * g + r  BY <1>1, <1>5, <1>6, <2>1, <2>3
  <2>5. ((m + q) * g + r) \div g = m + q  BY <1>1, <1>5, <2>1, OneQuotient
  <2>6. Aligned(m * g + bit, n) = (m + q) * g  BY <1>3, <2>2, <2>4, <2>5
  <2> QED BY <2>3, <2>6
<1> QED BY <1>1, <1>2, <1>5, <1>6, <1>7, <1>8, <1>9 DEF g

-----------------------------------------------------------------------------
(* The places of the codes.                                                  *)

\* The codes of the file, and where they are.
Count == Len(file.codes)
Place(k) == Places(file)[k]

\* The numbers of a place.
IsPlace(p, k) ==
    /\ p.bit \in Nat /\ p.width \in Nat \ {0} /\ InitBits <= p.width
    /\ p.base \in Nat /\ p.base <= p.bit /\ p.from \in 1 .. k

\* What the format says of the files that are not damaged.
LEMMA FormatIs ==
    ASSUME Parameters, file \in Files, file.state # "damaged"
    PROVE  /\ Compressed(file) /\ Count \in Nat /\ file.codes \in Seq(Nat)
           /\ file.strings \in Seq(Seq(Character)) /\ Len(file.strings) = Count
           /\ Len(file.bits) = ByteBits * Bytes
           /\ InitBits <= file.maxbits /\ file.maxbits <= Bits
           /\ Lit + 1 < MAXCODE(InitBits) /\ First < MAXCODE(file.maxbits)
<1>1. Compressed(file) /\ file \in File
    BY DEF Parameters
<1>2. file.codes \in Seq(Nat) /\ file.strings \in Seq(Seq(Character)) /\ file.bits \in Seq({0, 1})
    BY <1>1 DEF File, Character
<1>3. Count \in Nat  BY <1>2 DEF Count
<1>4. Len(file.strings) = Count
  <2>1. DOMAIN file.strings = 1 .. Count  BY <1>1 DEF Compressed, Count
  <2>2. DOMAIN file.strings = 1 .. Len(file.strings) /\ Len(file.strings) \in Nat  BY <1>2
  <2> QED BY <1>3, <2>1, <2>2
<1>5. Len(file.bits) = ByteBits * Bytes
  <2> DEFINE n == Len(file.bits)
  <2>1. n \in Nat /\ n % ByteBits = 0 /\ Bytes = n \div ByteBits  BY <1>1, <1>2 DEF Compressed, Bytes
  <2> HIDE DEF n
  <2>2. n = ByteBits * (n \div ByteBits) + (n % ByteBits) /\ n \div ByteBits \in Nat
      BY <2>1, Division, Constants
  <2>3. ByteBits * (n \div ByteBits) \in Nat  BY <2>2, ProductType, Constants
  <2> QED BY <2>1, <2>2, <2>3 DEF n
<1>6. InitBits <= file.maxbits /\ file.maxbits <= Bits /\ file.maxbits \in Nat /\ InitBits \in Nat
  <2>1. file.maxbits \in InitBits .. Bits  BY <1>1 DEF Compressed
  <2>2. InitBits \in Nat /\ Bits \in Nat  BY Constants
  <2> QED BY <2>1, <2>2
<1>7. Lit + 1 < MAXCODE(InitBits)
  <2>1. /\ Lit = 2 ^ (InitBits - 1) /\ 1 < InitBits /\ InitBits \in Nat  BY Constants DEF Parameters
  <2>2. 2 ^ InitBits = Lit + Lit /\ Lit \in Nat
    <3>1. InitBits - 1 \in Nat /\ (InitBits - 1) + 1 = InitBits  BY <2>1
    <3>2. 2 ^ ((InitBits - 1) + 1) = 2 ^ (InitBits - 1) + 2 ^ (InitBits - 1)  BY <3>1, PowerDoubles
    <3> QED BY <2>1, <3>1, <3>2, PowerType
  <2>3. 1 < Lit
    <3>1. InitBits - 1 \in Nat /\ 0 < InitBits - 1  BY <2>1
    <3>2. 2 ^ 0 < 2 ^ (InitBits - 1)  BY <3>1, PowerGrows
    <3> QED BY <2>1, <3>2, PowerOfZero
  <2> QED BY <2>2, <2>3 DEF MAXCODE
<1>8. First < MAXCODE(file.maxbits)
  <2>1. First \in Nat /\ First <= Lit + 1 /\ Lit \in Nat /\ MAXCODE(InitBits) \in Nat
        /\ MAXCODE(file.maxbits) \in Nat
      BY <1>6, FirstIs, Constants
  <2>2. MAXCODE(InitBits) <= MAXCODE(file.maxbits)
    <3>1. CASE InitBits = file.maxbits  BY <2>1, <3>1
    <3>2. CASE InitBits < file.maxbits
      <4>1. MAXCODE(InitBits) < MAXCODE(file.maxbits)  BY <1>6, <3>2, Constants
      <4> QED BY <2>1, <4>1
    <3> QED BY <1>6, <3>1, <3>2
  <2> QED BY <1>7, <2>1, <2>2
<1> QED BY <1>1, <1>2, <1>3, <1>4, <1>5, <1>6, <1>7, <1>8

\* The next place is behind the one before it.
LEMMA NextPlaceIs ==
    ASSUME Parameters, NEW p, NEW k \in Nat, IsPlace(p, k)
    PROVE  /\ IsPlace(NextPlace(file, p, k + 1), k + 1)
           /\ p.bit + p.width <= NextPlace(file, p, k + 1).bit
<1> DEFINE clear == IsClear(file, k)
           wider == ~clear /\ NextEntry(file, p.from, k + 1) > LastEntry(file, p.width)
           end   == p.bit + p.width
           up    == p.base + Aligned(end - p.base, p.width)
           next  == IF clear \/ wider THEN up ELSE end
           q     == NextPlace(file, p, k + 1)
<1>1. /\ q.bit = next
      /\ q.width = IF clear THEN InitBits ELSE IF wider THEN p.width + 1 ELSE p.width
      /\ q.base = IF clear \/ wider THEN next ELSE p.base
      /\ q.from = IF clear THEN k + 1 ELSE p.from
  <2>1. (k + 1) - 1 = k  OBVIOUS
  <2> QED BY <2>1 DEF NextPlace
<1>2. /\ p.bit \in Nat /\ p.width \in Nat \ {0} /\ p.base \in Nat /\ p.base <= p.bit
      /\ InitBits \in Nat \ {0} /\ InitBits <= p.width /\ p.from \in 1 .. k
    BY Constants DEF IsPlace
<1>3. end - p.base \in Nat /\ end \in Nat  BY <1>2
<1> HIDE DEF clear, wider, q
<1>4. Aligned(end - p.base, p.width) \in Nat /\ end - p.base <= Aligned(end - p.base, p.width)
  <2> DEFINE b == end - p.base
  <2> HIDE DEF end
  <2>1. b \in Nat  BY <1>3
  <2> HIDE DEF b
  <2>2. ByteBits \in Nat \ {0} /\ p.width \in Nat \ {0}  BY <1>2, Constants
  <2>3. Aligned(b, p.width) \in Nat /\ b <= Aligned(b, p.width)  BY <2>1, <2>2, AlignedIs
  <2> QED BY <2>3 DEF b
<1> DEFINE a == Aligned(end - p.base, p.width)
<1> HIDE DEF a
<1>5. a \in Nat /\ end - p.base <= a /\ up = p.base + a  BY <1>4 DEF a
<1> HIDE DEF up
<1>6. up \in Nat /\ end <= up  BY <1>2, <1>3, <1>5
<1> HIDE DEF end
<1>7. next \in Nat /\ end <= next /\ p.base <= next  BY <1>2, <1>3, <1>6 DEF end
<1>8. p.from \in 1 .. k + 1  BY <1>2
<1>9. k + 1 \in 1 .. k + 1  OBVIOUS
<1>10. p.width + 1 \in Nat \ {0} /\ InitBits <= p.width + 1 /\ InitBits <= InitBits  BY <1>2
<1> HIDE DEF next
<1>11. IsPlace(q, k + 1)
  <2>1. q.bit \in Nat  BY <1>1, <1>7
  <2>2. q.width \in Nat \ {0} /\ InitBits <= q.width  BY <1>1, <1>2, <1>10
  <2>3. q.base \in Nat /\ q.base <= q.bit  BY <1>1, <1>2, <1>7
  <2>4. q.from \in 1 .. k + 1  BY <1>1, <1>8, <1>9
  <2> QED BY <2>1, <2>2, <2>3, <2>4 DEF IsPlace
<1> QED BY <1>1, <1>7, <1>11 DEF q, end

\* The places of the codes, one behind the other.
LEMMA PlacesAre ==
    ASSUME Parameters, file \in Files, file.state # "damaged"
    PROVE  /\ Place(1) = FirstPlace
           /\ \A k \in 1 .. Count + 1 : IsPlace(Place(k), k)
           /\ \A k \in 1 .. Count : /\ Place(k + 1) = NextPlace(file, Place(k), k + 1)
                                    /\ Place(k).bit + Place(k).width <= Place(k + 1).bit
<1>1. Count \in Nat  BY FormatIs
<1>2. Place(1) = FirstPlace /\ \A k \in 2 .. Count + 1 : Place(k) = NextPlace(file, Place(k - 1), k)
    BY <1>1, PlacesStep DEF Place, Count
<1>3. ASSUME NEW k \in 1 .. Count PROVE Place(k + 1) = NextPlace(file, Place(k), k + 1)
  <2>1. k + 1 \in 2 .. Count + 1 /\ (k + 1) - 1 = k  BY <1>1
  <2> QED BY <1>2, <2>1
<1> HIDE DEF Place
<1> DEFINE Right(k) == k \in 1 .. Count + 1 => IsPlace(Place(k), k)
           P == {k \in Nat : Right(k)}
<1>4. Nat \subseteq P
  <2>1. Right(0)  OBVIOUS
  <2>2. ASSUME NEW k \in Nat, Right(k) PROVE Right(k + 1)
    <3>1. CASE k = 0
      <4>1. IsPlace(FirstPlace, 1)  BY Constants DEF IsPlace, FirstPlace
      <4>2. k + 1 = 1  BY <3>1
      <4> QED BY <1>2, <4>1, <4>2
    <3>2. CASE k # 0
      <4> SUFFICES ASSUME k + 1 \in 1 .. Count + 1 PROVE IsPlace(Place(k + 1), k + 1)  OBVIOUS
      <4>1. k \in 1 .. Count /\ k \in 1 .. Count + 1  BY <1>1, <3>2
      <4>2. IsPlace(Place(k), k)  BY <2>2, <4>1
      <4>3. IsPlace(NextPlace(file, Place(k), k + 1), k + 1)  BY <4>2, NextPlaceIs
      <4> QED BY <1>3, <4>1, <4>3
    <3> QED BY <3>1, <3>2
  <2> HIDE DEF Right
  <2>3. 0 \in P /\ \A k \in Nat : k \in P => k + 1 \in P  BY <2>1, <2>2
  <2> HIDE DEF P
  <2> QED BY <2>3, NatSetInduction
<1>5. \A k \in 1 .. Count + 1 : IsPlace(Place(k), k)
    BY <1>1, <1>4
<1>6. ASSUME NEW k \in 1 .. Count PROVE Place(k).bit + Place(k).width <= Place(k + 1).bit
  <2>1. k \in Nat /\ k \in 1 .. Count + 1  BY <1>1
  <2>2. IsPlace(Place(k), k)  BY <1>5, <2>1
  <2>3. Place(k).bit + Place(k).width <= NextPlace(file, Place(k), k + 1).bit
      BY <2>1, <2>2, NextPlaceIs
  <2> QED BY <1>3, <2>3
<1> QED BY <1>2, <1>3, <1>5, <1>6

\* No code begins behind the end of the last one.
LEMMA PlacesGrow ==
    ASSUME Parameters, file \in Files, file.state # "damaged", NEW k \in 1 .. Count
    PROVE  Place(k).bit + Place(k).width <= Place(Count + 1).bit
<1>1. Count \in Nat  BY FormatIs
<1>2. \A i \in 1 .. Count + 1 : Place(i).bit \in Nat /\ Place(i).width \in Nat
    BY PlacesAre DEF IsPlace
<1>3. \A i \in 1 .. Count : Place(i).bit + Place(i).width <= Place(i + 1).bit
    BY PlacesAre
<1> DEFINE end == Place(k).bit + Place(k).width
           Right(d) == k + 1 + d <= Count + 1 => end <= Place(k + 1 + d).bit
           P == {d \in Nat : Right(d)}
<1> HIDE DEF Place
<1>4. end \in Nat /\ k \in Nat /\ k <= Count
  <2>1. k \in 1 .. Count + 1  BY <1>1
  <2> QED BY <1>1, <1>2, <2>1
<1>5. Nat \subseteq P
  <2>1. Right(0)
    <3>1. k + 1 + 0 = k + 1  BY <1>4
    <3> QED BY <1>3, <3>1
  <2>2. ASSUME NEW d \in Nat, Right(d) PROVE Right(d + 1)
    <3> SUFFICES ASSUME k + 1 + (d + 1) <= Count + 1 PROVE end <= Place(k + 1 + (d + 1)).bit
        OBVIOUS
    <3> DEFINE i == k + 1 + d
    <3>1. i \in 1 .. Count /\ i \in 1 .. Count + 1 /\ i + 1 \in 1 .. Count + 1
          /\ k + 1 + (d + 1) = i + 1 /\ i <= Count + 1
        BY <1>1, <1>4
    <3>2. end <= Place(i).bit  BY <2>2, <3>1
    <3> HIDE DEF i, end
    <3>3. Place(i).bit + Place(i).width <= Place(i + 1).bit  BY <1>3, <3>1
    <3>4. Place(i).bit \in Nat /\ Place(i).width \in Nat /\ Place(i + 1).bit \in Nat  BY <1>2, <3>1
    <3>5. end <= Place(i + 1).bit  BY <1>4, <3>2, <3>3, <3>4
    <3> QED BY <3>1, <3>5
  <2> HIDE DEF Right
  <2>3. 0 \in P /\ \A d \in Nat : d \in P => d + 1 \in P  BY <2>1, <2>2
  <2> HIDE DEF P
  <2> QED BY <2>3, NatSetInduction
<1>6. Count - k \in Nat /\ k + 1 + (Count - k) = Count + 1  BY <1>1, <1>4
<1>7. Right(Count - k)  BY <1>5, <1>6
<1>8. k + 1 + (Count - k) <= Count + 1  BY <1>1, <1>6
<1> QED BY <1>6, <1>7, <1>8

-----------------------------------------------------------------------------
(* What comes out of files that are not damaged.                             *)

\* The bits in front of inbuf, and those that were taken.  Of the header inbuf has one byte.
Offset == ByteBits * fpos - Len(inbuf)
Bit == Offset + posbits
Group == ByteBits * nbits

\* inbuf has the bits of the file that were read last.
HeldInv ==
    /\ \A b \in 1 .. Len(inbuf) : Offset + b >= 1 => inbuf[b] = file.bits[Offset + b]
    /\ Bit >= 0 /\ (pc = "code" => Offset >= 0)
    /\ ~more => fpos = Bytes

\* Between groups, and where the groups in inbuf end.
EndsInv ==
    /\ pc \in {"start", "reset"} => /\ \E m \in Nat : posbits = ByteBits * m
                                    /\ more => posbits <= Len(inbuf)
    /\ pc = "code" /\ more => posbits <= inbits /\ \E m \in Nat : inbits = m * Group

\* Groups of this width begin at base, and one begins with inbuf, or where it will begin next.
InGroup(base) ==
    \E m \in Nat : (IF pc = "code" THEN Offset ELSE Bit) = base + m * Group

\* The k-th code comes next.
Ahead(k) ==
    /\ Bit = Place(k).bit /\ nbits = Place(k).width /\ freeEnt <= maxcode
    /\ InGroup(Place(k).base)

\* It will, when codes have become wider.
Pending(k) ==
    /\ k > 1 /\ ~IsClear(file, k - 1)
    /\ Bit = Place(k - 1).bit + nbits /\ nbits = Place(k - 1).width
    /\ freeEnt = maxcode + 1 /\ InGroup(Place(k - 1).base)
    /\ pc \in {"start", "reset"} => more

\* The file ends within the group that was skipped.
Lost(k) == pc = "code" /\ ~more /\ inbits <= posbits /\ Len(file.bits) < Place(k).bit

\* What k - 1 codes have left: what they put out, and the strings in the table, the last one
\* still to come.
OutputOf(k) == out \o outbuf = Joined(file.strings)[k - 1] /\ (pc = "done" => outbuf = <<>>)
TableOf(k) ==
    /\ freeEnt = IF k = 1 THEN First ELSE NextEntry(file, Place(k).from, k)
    /\ \A e \in First .. freeEnt - 1 :
        LET m == Place(k).from + e - First
        IN  String(e) = Append(file.strings[m], file.strings[m + 1][1])
LastOf(k) ==
    /\ oldcode = -1 <=> k = 1
    /\ Place(k).from < k =>
        String(oldcode) = file.strings[k - 1] /\ finchar = file.strings[k - 1][1]

\* How far unlzw is.
Progress(k) ==
    /\ OutputOf(k) /\ TableOf(k) /\ LastOf(k)
    /\ pc \in {"start", "reset", "code"} => Ahead(k) \/ Pending(k) \/ Lost(k)
    /\ pc = "done" /\ file.state = "whole" => k = Count + 1

FormatInv ==
    file.state # "damaged" =>
        /\ HeldInv /\ EndsInv /\ pc \notin {"corrupt", "error"}
        /\ \E k \in 1 .. Count + 1 : Progress(k)

-----------------------------------------------------------------------------
(* The steps, through a file that is not damaged.                            *)

\* The numbers of the places depend on the file only.
LEMMA PlacesStay ==
    ASSUME file' = file
    PROVE  /\ Count' = Count /\ First' = First /\ Bytes' = Bytes /\ Strings' = Strings
           /\ \A k : Place(k)' = Place(k) /\ IsClear(file, k)' = IsClear(file, k)
BY DEF Count, Place, First, Bytes, Strings

\* Where the buffer is in the file.
LEMMA BufferIs ==
    ASSUME Parameters, IInv, file.state # "damaged", HeldInv
    PROVE  /\ Offset \in Int /\ Bit \in Nat /\ Group \in Nat \ {0} /\ Len(file.bits) \in Nat
           /\ fpos \in Nat /\ ByteBits * fpos \in Nat
           /\ Offset + Len(inbuf) = ByteBits * fpos /\ ByteBits * fpos <= Len(file.bits)
           /\ ~more => Offset + Len(inbuf) = Len(file.bits)
<1>1. /\ ByteBits \in Nat \ {0} /\ file \in Files /\ fpos \in 0 .. Bytes /\ Bytes \in Nat
      /\ Len(file.bits) = ByteBits * Bytes /\ file.bits \in Seq({0, 1})
    BY Constants, FileTypes, FormatIs DEF IInv, TypeInv
<1>2. Len(inbuf) \in Nat /\ posbits \in Nat /\ nbits \in Nat \ {0}
    BY StateTypes DEF IInv
<1>3. fpos \in Nat /\ fpos <= Bytes  BY <1>1
<1>4. ByteBits * fpos \in Nat /\ ByteBits * fpos <= ByteBits * Bytes /\ ByteBits * Bytes \in Nat
    BY <1>1, <1>3, ProductType
<1>5. Group \in Nat \ {0}  BY <1>1, <1>2, ProductType DEF Group
<1>6. Offset \in Int /\ Offset + Len(inbuf) = ByteBits * fpos  BY <1>2, <1>4 DEF Offset
<1>7. Bit \in Int /\ Bit >= 0
  <2>1. Bit \in Int  BY <1>2, <1>6 DEF Bit
  <2>2. Bit >= 0  BY DEF HeldInv
  <2> QED BY <2>1, <2>2
<1>8. ~more => Offset + Len(inbuf) = Len(file.bits)
    BY <1>1, <1>6 DEF HeldInv
<1> QED BY <1>1, <1>3, <1>4, <1>5, <1>6, <1>7, <1>8

\* inbuf stays, and posbits goes on.
LEMMA HeldStays ==
    ASSUME Parameters, IInv, file.state # "damaged", HeldInv, UNCHANGED <<file, fpos, inbuf, more>>,
           posbits' \in Nat, posbits <= posbits', pc' = "code" => pc = "code"
    PROVE  HeldInv' /\ Offset' = Offset
<1>1. Offset \in Int /\ Bit \in Nat /\ posbits \in Nat
    BY BufferIs, StateTypes DEF IInv
<1>2. Offset' = Offset /\ Bit' = Offset + posbits' /\ Bit = Offset + posbits
    BY DEF Offset, Bit
<1>3. Bit' >= 0
  <2>1. Offset + posbits >= 0  BY <1>1, <1>2
  <2>2. \A o \in Int, a, b \in Nat : o + a >= 0 /\ a <= b => o + b >= 0  OBVIOUS
  <2>3. posbits' \in Nat /\ posbits <= posbits'  OBVIOUS
  <2>4. Offset + posbits' >= 0  BY <1>1, <2>1, <2>2, <2>3
  <2> QED BY <1>2, <2>4
<1>4. Bytes' = Bytes  BY DEF Bytes
<1> QED BY <1>2, <1>3, <1>4 DEF HeldInv

\* The code that is read is the one whose place it is.
LEMMA CodeTaken ==
    ASSUME Parameters, IInv, file.state # "damaged", HeldInv, Ready,
           NEW k \in 1 .. Count + 1, Progress(k)
    PROVE  /\ k \in 1 .. Count /\ Ahead(k)
           /\ Code = file.codes[k] /\ StringIsRight(file, Place(k).from, k)
<1>1. /\ pc = "code" /\ inbits > posbits /\ freeEnt <= maxcode
      /\ freeEnt \in Nat /\ maxcode \in Nat /\ inbits \in Int /\ posbits \in Nat
    BY StateTypes DEF IInv, TypeInv, Ready
<1>2. Ahead(k)
  <2>1. Ahead(k) \/ Pending(k) \/ Lost(k)  BY <1>1 DEF Progress
  <2>2. ~Pending(k)  BY <1>1 DEF Pending
  <2>3. ~Lost(k)  BY <1>1 DEF Lost
  <2> QED BY <2>1, <2>2, <2>3
<1>3. /\ posbits + nbits <= Len(inbuf) /\ Len(inbuf) \in Nat /\ nbits \in Nat \ {0}
      /\ inbuf \in Seq({0, 1})
    BY <1>1, BitsAreThere
<1>4. /\ Offset \in Int /\ Offset >= 0 /\ Len(file.bits) \in Nat
      /\ Offset + Len(inbuf) <= Len(file.bits) /\ Bit \in Nat
    BY <1>1, BufferIs DEF HeldInv
<1>5. Bit = Offset + posbits /\ Bit = Place(k).bit /\ nbits = Place(k).width
    BY <1>2 DEF Ahead, Bit
<1> HIDE DEF Offset, Bit, Place
<1>6. Bit + nbits <= Len(file.bits)
    BY <1>1, <1>3, <1>4, <1>5
<1>7. Compressed(file) /\ Count \in Nat /\ file \in Files /\ file.bits \in Seq({0, 1})
    BY FormatIs, FileTypes DEF IInv, TypeInv
<1>8. k \in 1 .. Count
  <2> SUFFICES ASSUME k = Count + 1 PROVE FALSE  BY <1>7
  <2>1. Len(file.bits) < Place(k).bit + ByteBits
      BY <1>7 DEF Compressed, Place, Count
  <2>2. ByteBits <= nbits /\ ByteBits \in Nat
    <3>1. ByteBits \in Nat /\ InitBits \in Nat  BY Constants
    <3>2. ByteBits <= InitBits  BY DEF Parameters
    <3>3. nbits \in InitBits .. Bits /\ Bits \in Nat  BY Constants DEF IInv, TypeInv
    <3> QED BY <3>1, <3>2, <3>3
  <2>3. Place(k).bit + nbits <= Len(file.bits)  BY <1>5, <1>6
  <2> QED BY <1>3, <1>4, <1>5, <2>1, <2>2, <2>3
<1>9. /\ StringIsRight(file, Place(k).from, k)
      /\ Value(SubSeq(file.bits, Bit + 1, Bit + nbits)) = file.codes[k]
    BY <1>5, <1>6, <1>7, <1>8 DEF Compressed, Place, Count
<1>10. SubSeq(inbuf, posbits + 1, posbits + nbits) = SubSeq(file.bits, Bit + 1, Bit + nbits)
  <2> DEFINE u == inbuf
             v == file.bits
  <2>1. \A b \in 1 .. Len(u) : Offset + b >= 1 => u[b] = v[Offset + b]
      BY DEF HeldInv
  <2>2. u \in Seq({0, 1}) /\ v \in Seq({0, 1}) /\ posbits + nbits <= Len(u) /\ Bit + nbits <= Len(v)
      BY <1>3, <1>6, <1>7
  <2> HIDE DEF u, v
  <2>3. \A i \in 1 .. nbits : u[posbits + i] = v[Bit + i]
    <3> TAKE i \in 1 .. nbits
    <3>1. posbits + i \in 1 .. Len(u) /\ Offset + (posbits + i) >= 1
          /\ Offset + (posbits + i) = Bit + i
        BY <1>1, <1>3, <1>4, <1>5, <2>2
    <3>2. u[posbits + i] = v[Offset + (posbits + i)]  BY <2>1, <3>1
    <3> QED BY <3>1, <3>2
  <2> DEFINE x == SubSeq(u, posbits + 1, posbits + nbits)
             y == SubSeq(v, Bit + 1, Bit + nbits)
  <2>4. x = [i \in 1 .. nbits |-> u[posbits + i]]
    <3>1. (posbits + nbits) - (posbits + 1) + 1 = nbits  BY <1>1, <1>3
    <3> QED BY <1>1, <1>3, <2>2, <3>1
  <2>5. y = [i \in 1 .. nbits |-> v[Bit + i]]
    <3>1. (Bit + nbits) - (Bit + 1) + 1 = nbits  BY <1>3, <1>4
    <3> QED BY <1>3, <1>4, <2>2, <3>1
  <2> HIDE DEF x, y
  <2>6. x = y  BY <2>3, <2>4, <2>5
  <2> QED BY <2>6 DEF x, y, u, v
<1> QED BY <1>2, <1>8, <1>9, <1>10 DEF Code

\* Codes become wider after the k-th, and where its group ends.
Widens(k) ==
    ~IsClear(file, k) /\ NextEntry(file, Place(k).from, k + 1) > LastEntry(file, Place(k).width)
EndOfGroup(k) ==
    Place(k).base + Aligned((Place(k).bit + Place(k).width) - Place(k).base, Place(k).width)

\* The place of the next code, from this one's.
LEMMA PlaceAfter ==
    ASSUME Parameters, file \in Files, file.state # "damaged", NEW k \in 1 .. Count
    PROVE  /\ IsClear(file, k) =>
                /\ Place(k + 1).bit = EndOfGroup(k) /\ Place(k + 1).base = EndOfGroup(k)
                /\ Place(k + 1).width = InitBits /\ Place(k + 1).from = k + 1
           /\ Widens(k) =>
                /\ Place(k + 1).bit = EndOfGroup(k) /\ Place(k + 1).base = EndOfGroup(k)
                /\ Place(k + 1).width = Place(k).width + 1 /\ Place(k + 1).from = Place(k).from
           /\ ~IsClear(file, k) /\ ~Widens(k) =>
                /\ Place(k + 1).bit = Place(k).bit + Place(k).width
                /\ Place(k + 1).base = Place(k).base
                /\ Place(k + 1).width = Place(k).width /\ Place(k + 1).from = Place(k).from
<1> DEFINE p     == Place(k)
           q     == Place(k + 1)
           clear == IsClear(file, k)
           wider == ~clear /\ NextEntry(file, p.from, k + 1) > LastEntry(file, p.width)
           end   == p.bit + p.width
           up    == p.base + Aligned(end - p.base, p.width)
           next  == IF clear \/ wider THEN up ELSE end
<1>1. q = NextPlace(file, p, k + 1)
    BY PlacesAre
<1>2. (k + 1) - 1 = k
  <2>1. k \in Int  OBVIOUS
  <2> QED BY <2>1
<1>3. q = [bit   |-> next,
           width |-> IF clear THEN InitBits ELSE IF wider THEN p.width + 1 ELSE p.width,
           base  |-> IF clear \/ wider THEN next ELSE p.base,
           from  |-> IF clear THEN k + 1 ELSE p.from]
    BY <1>1, <1>2 DEF NextPlace
<1>4. (clear => ~wider) /\ (wider <=> Widens(k)) /\ up = EndOfGroup(k)
    BY DEF Widens, EndOfGroup
<1> HIDE DEF p, q, clear, wider, up, end
<1>5. /\ q.bit = next
      /\ q.width = IF clear THEN InitBits ELSE IF wider THEN p.width + 1 ELSE p.width
      /\ q.base = IF clear \/ wider THEN next ELSE p.base
      /\ q.from = IF clear THEN k + 1 ELSE p.from
    BY <1>3
<1>6. /\ clear => /\ q.bit = up /\ q.base = up /\ q.width = InitBits
                  /\ q.from = k + 1
      /\ wider => /\ q.bit = up /\ q.base = up /\ q.width = p.width + 1
                  /\ q.from = p.from
      /\ ~clear /\ ~wider => /\ q.bit = end /\ q.base = p.base
                             /\ q.width = p.width /\ q.from = p.from
    BY <1>4, <1>5
<1> QED BY <1>4, <1>6 DEF p, q, clear, end

\* maxcode is the last entry for which there are codes.
LEMMA MaxcodeIs == ASSUME IInv PROVE maxcode = LastEntry(file, nbits)
BY DEF IInv, WidthInv, LastEntry

\* The group ends in inbuf where it ends in the file.
LEMMA GroupEnd ==
    ASSUME Parameters, IInv, file.state # "damaged", HeldInv, pc = "code",
           NEW base \in Nat, InGroup(base), NEW b \in Nat
    PROVE  /\ Offset + Aligned(b, nbits) = base + Aligned((Offset + b) - base, nbits)
           /\ Aligned(b, nbits) \in Nat /\ b <= Aligned(b, nbits)
           /\ \E m \in Nat : Aligned(b, nbits) = ByteBits * m
<1>1. /\ Offset \in Int /\ ByteBits \in Nat \ {0} /\ nbits \in Nat \ {0} /\ Group = ByteBits * nbits
      /\ Group \in Nat \ {0}
    BY BufferIs, StateTypes, Constants DEF IInv, Group
<1>2. PICK m \in Nat : Offset = base + m * Group
    BY DEF InGroup
<1>3. /\ Aligned(b, nbits) \in Nat /\ b <= Aligned(b, nbits)
      /\ \E q \in Nat : Aligned(b, nbits) = q * Group
      /\ Aligned(m * Group + b, nbits) = m * Group + Aligned(b, nbits)
  <2>1. /\ Aligned(b, nbits) \in Nat /\ b <= Aligned(b, nbits)
        /\ \E q \in Nat : Aligned(b, nbits) = q * (ByteBits * nbits)
        /\ \A i \in Nat : Aligned(i * (ByteBits * nbits) + b, nbits)
                               = i * (ByteBits * nbits) + Aligned(b, nbits)
      BY <1>1, AlignedIs
  <2> QED BY <1>1, <2>1
<1>4. m * Group \in Nat  BY <1>1, ProductType
<1>5. (Offset + b) - base = m * Group + b
  <2> DEFINE g == m * Group
  <2>1. g \in Nat /\ Offset = base + g  BY <1>2, <1>4
  <2> HIDE DEF g
  <2>2. ((base + g) + b) - base = g + b  BY <2>1
  <2> QED BY <2>1, <2>2 DEF g
<1>6. Offset + Aligned(b, nbits) = base + Aligned((Offset + b) - base, nbits)
  <2> DEFINE a == Aligned(b, nbits)
             g == m * Group
  <2>1. Aligned((Offset + b) - base, nbits) = g + a  BY <1>3, <1>5
  <2>2. a \in Nat /\ g \in Nat /\ Offset = base + g  BY <1>2, <1>3, <1>4
  <2> HIDE DEF a, g
  <2>3. Offset + a = base + (g + a)  BY <2>2
  <2> QED BY <2>1, <2>3 DEF a
<1>7. \E n \in Nat : Aligned(b, nbits) = ByteBits * n
  <2>1. PICK q \in Nat : Aligned(b, nbits) = q * Group  BY <1>3
  <2>2. q * nbits \in Nat  BY <1>1, ProductType
  <2>3. q * Group = ByteBits * (q * nbits)  BY <1>1
  <2> QED BY <2>1, <2>2, <2>3
<1> QED BY <1>3, <1>6, <1>7

\* The groups in inbuf end at inbits, and a skip stays there while there is more.
LEMMA GroupFits ==
    ASSUME Parameters, IInv, file.state # "damaged", HeldInv, EndsInv, pc = "code", more,
           NEW b \in Nat, b <= inbits
    PROVE  Aligned(b, nbits) <= Len(inbuf)
<1>1. /\ ByteBits \in Nat \ {0} /\ nbits \in Nat \ {0} /\ Group = ByteBits * nbits
      /\ Group \in Nat \ {0} /\ Len(inbuf) \in Nat
    BY BufferIs, StateTypes, Constants DEF IInv, Group
<1>2. PICK m \in Nat : inbits = m * Group  BY DEF EndsInv
<1>3. m * Group \in Nat  BY <1>1, ProductType
<1>4. Aligned(b, nbits) \in Nat /\ Aligned(b, nbits) <= m * Group
    BY <1>1, <1>2, AlignedIs
<1>5. inbits <= Len(inbuf)  BY DEF IInv, GroupInv
<1> QED BY <1>1, <1>2, <1>3, <1>4, <1>5

\* When there is a code and more to come, inbits is behind it.
LEMMA CodeFits ==
    ASSUME Parameters, IInv, pc = "code", inbits > posbits, more
    PROVE  posbits + nbits <= inbits
<1>1. nbits \in Nat \ {0} /\ posbits \in Nat /\ inbits \in Int
    BY StateTypes DEF IInv, TypeInv
<1>2. PICK i \in Nat : posbits = i * nbits  BY DEF IInv, GroupInv
<1>3. PICK j \in Nat : inbits = j * nbits  BY DEF IInv, GroupInv
<1>4. (i + 1) * nbits <= j * nbits  BY <1>1, <1>2, <1>3, NextMultiple
<1>5. (i + 1) * nbits = i * nbits + nbits  BY <1>1
<1> QED BY <1>2, <1>3, <1>4, <1>5

\* A code further, where the groups end is the same.
LEMMA EndsGoOn ==
    ASSUME Parameters, IInv, EndsInv, pc = "code", inbits > posbits,
           posbits' = posbits + nbits, UNCHANGED <<pc, inbits, more, nbits>>
    PROVE  EndsInv'
<1>1. more => posbits + nbits <= inbits
    BY CodeFits
<1>2. Group' = Group  BY DEF Group
<1> QED BY <1>1, <1>2 DEF EndsInv

\* A code further, the next one comes, or will when codes are wider.
LEMMA NextIsAhead ==
    ASSUME Parameters, IInv, file.state # "damaged", HeldInv, pc = "code",
           NEW k \in 1 .. Count, Ahead(k), ~IsClear(file, k), posbits' = posbits + nbits,
           UNCHANGED <<file, pc, fpos, inbuf, inbits, more, nbits, maxcode>>,
           freeEnt' = NextEntry(file, Place(k).from, k + 1), freeEnt' \in Nat,
           freeEnt' <= maxcode + 1
    PROVE  /\ Ahead(k + 1)' \/ Pending(k + 1)'
           /\ Place(k + 1).from = Place(k).from /\ Place(k + 1)' = Place(k + 1)
<1> DEFINE p == Place(k)
           q == Place(k + 1)
<1>1. p' = p /\ q' = q /\ IsClear(file, k)' = IsClear(file, k)
    BY PlacesStay
<1>2. Bit = p.bit /\ nbits = p.width /\ freeEnt <= maxcode /\ InGroup(p.base)
    BY DEF Ahead
<1>3. maxcode = LastEntry(file, p.width) /\ maxcode \in Nat
    BY <1>2, MaxcodeIs DEF IInv, TypeInv
<1>4. k \in 1 .. Count /\ k \in Nat /\ file \in Files
    BY DEF IInv, TypeInv
<1>5. Bit' = Bit + nbits
  <2>1. Offset' = Offset  BY DEF Offset
  <2>2. Offset \in Int /\ posbits \in Nat /\ nbits \in Nat  BY BufferIs, StateTypes DEF IInv
  <2>3. Offset + (posbits + nbits) = (Offset + posbits) + nbits  BY <2>2
  <2> QED BY <2>1, <2>3 DEF Bit
<1>6. InGroup(p.base)'
  <2>1. Offset' = Offset /\ Group' = Group  BY DEF Offset, Group
  <2>2. PICK m \in Nat : Offset = p.base + m * Group  BY <1>2 DEF InGroup
  <2>3. Offset' = p'.base + m * Group' /\ pc' = "code"  BY <1>1, <2>1, <2>2
  <2> HIDE DEF p
  <2> QED BY <2>3 DEF InGroup
<1>7. CASE freeEnt' <= maxcode
  <2>1. ~Widens(k)
      BY <1>3, <1>7 DEF Widens
  <2>2. q.bit = p.bit + p.width /\ q.base = p.base /\ q.width = p.width /\ q.from = p.from
      BY <1>4, <2>1, PlaceAfter
  <2>3. Bit' = q.bit /\ nbits' = q.width /\ freeEnt' <= maxcode' /\ InGroup(q.base)'
    <3>1. InGroup(q.base)'
      <4>1. q.base = p.base /\ q'.base = p'.base  BY <1>1, <2>2
      <4> HIDE DEF p, q
      <4> QED BY <1>6, <4>1 DEF InGroup
    <3> QED BY <1>2, <1>5, <1>7, <2>2, <3>1
  <2>4. Ahead(k + 1)'
    <3>1. Bit' = q'.bit /\ nbits' = q'.width  BY <1>1, <2>3
    <3> QED BY <2>3, <3>1 DEF Ahead
  <2> QED BY <1>1, <2>2, <2>4
<1>8. CASE ~(freeEnt' <= maxcode)
  <2>1. freeEnt' = maxcode + 1  BY <1>3, <1>8
  <2>2. Widens(k)
    <3>1. NextEntry(file, p.from, k + 1) > LastEntry(file, p.width)  BY <1>3, <2>1
    <3> QED BY <3>1 DEF Widens
  <2>3. q.from = p.from  BY <1>4, <2>2, PlaceAfter
  <2>4. (k + 1) - 1 = k /\ k + 1 > 1  BY <1>4
  <2>5. Bit' = p'.bit + nbits' /\ nbits' = p'.width /\ freeEnt' = maxcode' + 1 /\ ~IsClear(file, k)'
      BY <1>1, <1>2, <1>5, <2>1
  <2>6. Pending(k + 1)'
    BY <1>6, <2>4, <2>5 DEF Pending
  <2> QED BY <1>1, <2>3, <2>6
<1> QED BY <1>7, <1>8

\* The next entry grows with the codes, until the table is full.
LEMMA NextEntryIs ==
    ASSUME Parameters, file \in Files, NEW k \in Nat \ {0}, NEW from \in 1 .. k
    PROVE  LET n    == NextEntry(file, from, k)
               full == MAXCODE(file.maxbits)
           IN  /\ n \in Nat /\ full \in Nat /\ n <= full
               /\ n < full => n = First + ((k - 1) - from)
               /\ n = full => full <= First + ((k - 1) - from)
               /\ NextEntry(file, from, k + 1) = IF n < full THEN n + 1 ELSE n
<1> DEFINE x    == First + ((k - 1) - from)
           full == MAXCODE(file.maxbits)
<1>1. First \in Nat \ {0} /\ full \in Nat
  <2>1. First \in Nat /\ Lit <= First /\ Lit \in Nat \ {0} /\ file.maxbits \in Nat
      BY FirstIs, FileTypes, Constants
  <2>2. full \in Nat  BY <2>1, Constants
  <2> QED BY <2>1, <2>2
<1>2. k \in Nat /\ from \in Nat /\ from <= k  OBVIOUS
<1>3. x \in Nat  BY <1>1, <1>2
<1>4. NextEntry(file, from, k) = Least(x, full)
    BY DEF NextEntry, First
<1>5. NextEntry(file, from, k + 1) = Least(x + 1, full)
  <2>1. First + (((k + 1) - 1) - from) = x + 1  BY <1>1, <1>2
  <2>2. NextEntry(file, from, k + 1) = Least(First + (((k + 1) - 1) - from), full)
      BY DEF NextEntry, First
  <2> QED BY <2>1, <2>2
<1> HIDE DEF x, full
<1>6. Least(x, full) = (IF x < full THEN x ELSE full)
      /\ Least(x + 1, full) = (IF x + 1 < full THEN x + 1 ELSE full)
    BY DEF Least
<1>7. CASE x < full
  <2>1. NextEntry(file, from, k) = x  BY <1>4, <1>6, <1>7
  <2>2. NextEntry(file, from, k + 1) = x + 1  BY <1>1, <1>3, <1>5, <1>6, <1>7
  <2> QED BY <1>1, <1>3, <1>7, <2>1, <2>2 DEF x, full
<1>8. CASE ~(x < full)
  <2>1. NextEntry(file, from, k) = full  BY <1>4, <1>6, <1>8
  <2>2. NextEntry(file, from, k + 1) = full  BY <1>1, <1>3, <1>5, <1>6, <1>8
  <2>3. full <= x  BY <1>1, <1>3, <1>8
  <2> QED BY <1>1, <1>3, <2>1, <2>2, <2>3 DEF x, full
<1> QED BY <1>7, <1>8

\* String goes down the chains of the table.
LEMMA StringIsChain ==
    ASSUME Parameters, TypeInv, Chained
    PROVE  /\ \A c : String(c) = ChainString(Strings, table, c)
           /\ GoesDown(Strings, table) /\ Strings \subseteq 0 .. MAXCODE(Bits) - 1
           /\ \A e \in Strings :
                String(e) = IF e < Lit THEN <<e>>
                            ELSE Append(String(table[e].prefix), table[e].suffix)
<1>1. \A c : String(c) = ChainString(Strings, table, c)
    BY DEF String, ChainString
<1>2. Strings \subseteq 0 .. MAXCODE(Bits) - 1
  <2>1. MAXCODE(Bits) \in Nat  BY Constants
  <2> SUFFICES ASSUME NEW e \in Strings PROVE e \in 0 .. MAXCODE(Bits) - 1  OBVIOUS
  <2>2. e \in Nat /\ e < MAXCODE(Bits)  BY StringsAre
  <2> QED BY <2>1, <2>2
<1>3. GoesDown(Strings, table)
  <2> SUFFICES ASSUME NEW e \in Strings, e >= Lit
               PROVE  table[e].prefix \in Strings /\ table[e].prefix < e
      BY DEF GoesDown
  <2>1. e \in First .. MAXCODE(Bits) - 1  BY StringsAre
  <2>2. e \in Lit .. MAXCODE(Bits) - 1
    <3>1. First \in Nat /\ Lit \in Nat /\ Lit <= First  BY FirstIs, Constants
    <3> QED BY <2>1, <3>1
  <2>3. table[e] \in [prefix : Strings, suffix : Character]  BY <2>2 DEF TypeInv, Table
  <2> QED BY <2>1, <2>3 DEF Chained
<1>4. Lit \in Nat /\ MAXCODE(Bits) \in Nat  BY Constants
<1>5. \A e \in Strings : FollowsChain(Strings, table, e)
    BY <1>2, <1>3, <1>4, ChainStep
<1> QED BY <1>1, <1>2, <1>3, <1>5 DEF FollowsChain

\* The strings of the entries stay when one is made, and its own is the last string and
\* the character that followed.
LEMMA EntryStrings ==
    ASSUME Parameters, IInv, Entry
    PROVE  /\ \A e \in Strings : e < freeEnt => String(e)' = String(e)
           /\ \A e : e = freeEnt /\ First <= e /\ e < MAXCODE(file.maxbits) =>
                        String(e)' = Append(String(oldcode), finchar')
<1>1. IInv' /\ file' = file /\ Strings' = Strings
    BY EntryKeeps, FileStays DEF Next
<1>2. /\ \A c : String(c) = ChainString(Strings, table, c)
      /\ GoesDown(Strings, table) /\ Strings \subseteq 0 .. MAXCODE(Bits) - 1
    BY StringIsChain DEF IInv, ChainInv
<1>3. TypeInv' /\ Chained'  BY <1>1 DEF IInv, ChainInv
<1>4. /\ \A c : String(c)' = ChainString(Strings, table', c)
      /\ GoesDown(Strings, table')
      /\ \A e \in Strings : FollowsChain(Strings, table', e)
  <2>1. \A c : String(c)' = ChainString(Strings, table', c)
      BY <1>1 DEF String, ChainString
  <2>2. GoesDown(Strings, table')
    <3> SUFFICES ASSUME NEW e \in Strings, e >= Lit
                 PROVE  table'[e].prefix \in Strings /\ table'[e].prefix < e
        BY DEF GoesDown
    <3>1. e \in First .. MAXCODE(Bits) - 1  BY StringsAre
    <3>2. e \in Lit .. MAXCODE(Bits) - 1
      <4>1. First \in Nat /\ Lit \in Nat /\ Lit <= First  BY FirstIs, Constants
      <4> QED BY <3>1, <4>1
    <3>3. table' \in Table /\ First' = First
        BY <1>3, FileStays DEF TypeInv, Next
    <3>4. table'[e] \in [prefix : Strings, suffix : Character]  BY <3>2, <3>3 DEF Table
    <3>5. table'[e].prefix < e  BY <1>3, <3>1, <3>3 DEF Chained, MAXCODE
    <3> QED BY <3>4, <3>5
  <2>3. Lit \in Nat /\ MAXCODE(Bits) \in Nat  BY Constants
  <2>4. \A e \in Strings : FollowsChain(Strings, table', e)
      BY <1>2, <2>2, <2>3, ChainStep
  <2> QED BY <2>1, <2>2, <2>4
<1>5. /\ freeEnt \in Nat /\ Lit \in Nat /\ MAXCODE(Bits) \in Nat /\ First \in Nat /\ Lit <= First
      /\ Lit <= freeEnt /\ table \in Table /\ oldcode \in Int
    BY StateTypes DEF IInv, TypeInv, WidthInv
<1>6. IF freeEnt < MAXCODE(file.maxbits)
      THEN table' = [table EXCEPT ![freeEnt] = [prefix |-> oldcode, suffix |-> finchar']]
      ELSE table' = table
    BY DEF Entry
<1>7. SameBelow(Strings, table, table', freeEnt)
  <2> SUFFICES ASSUME NEW e \in Strings, e >= Lit, e < freeEnt PROVE table'[e] = table[e]
      BY DEF SameBelow
  <2>1. e \in Nat /\ e < MAXCODE(Bits)  BY StringsAre
  <2>2. e \in Lit .. MAXCODE(Bits) - 1 /\ e # freeEnt  BY <1>5, <2>1
  <2> DEFINE entry == [prefix |-> oldcode, suffix |-> finchar']
  <2> HIDE DEF entry
  <2>3. table' = table \/ table' = [table EXCEPT ![freeEnt] = entry]  BY <1>6 DEF entry
  <2> QED BY <1>5, <2>2, <2>3 DEF Table
<1>8. \A e \in Strings : e < freeEnt => ChainString(Strings, table', e) = ChainString(Strings, table, e)
  <2> DEFINE others == table'
             m      == MAXCODE(Bits)
  <2>1. /\ GoesDown(Strings, table) /\ GoesDown(Strings, others) /\ m \in Nat
        /\ SameBelow(Strings, table, others, freeEnt) /\ Strings \subseteq 0 .. m - 1
      BY <1>2, <1>4, <1>5, <1>7
  <2> HIDE DEF others, m
  <2>2. SameChains(Strings, table, others, freeEnt)
      BY <1>5, <2>1, SameStrings
  <2> QED BY <2>2 DEF SameChains, others
<1>9. \A e \in Strings : e < freeEnt => String(e)' = String(e)
    BY <1>2, <1>4, <1>8
<1>10. ASSUME NEW e, e = freeEnt, First <= e, e < MAXCODE(file.maxbits)
       PROVE  String(e)' = Append(String(oldcode), finchar')
  <2> DEFINE old   == oldcode
             entry == [prefix |-> old, suffix |-> finchar']
  <2>1. e < MAXCODE(Bits)
    <3>1. file.maxbits <= Bits  BY DEF Entry, Ready, IInv, WidthInv
    <3> QED BY <1>10, <3>1, FreeEntBound DEF IInv
  <2>2. e \in Strings /\ e \in Lit .. MAXCODE(Bits) - 1 /\ e \in Nat /\ ~(e < Lit)
      BY <1>5, <1>10, <2>1 DEF Strings
  <2>3. table'[e] = entry
    <3> HIDE DEF entry
    <3>1. table' = [table EXCEPT ![freeEnt] = entry]  BY <1>6, <1>10 DEF entry
    <3> QED BY <1>5, <1>10, <2>2, <3>1 DEF Table
  <2>4. table'[e].prefix = old /\ table'[e].suffix = finchar'  BY <2>3
  <2>5. ChainString(Strings, table', e) =
            Append(ChainString(Strings, table', old), finchar')
    <3>1. ChainString(Strings, table', e) =
            Append(ChainString(Strings, table', table'[e].prefix), table'[e].suffix)
        BY <1>4, <2>2 DEF FollowsChain
    <3> QED BY <2>4, <3>1
  <2>6. old \in Strings /\ old < freeEnt
    <3>1. oldcode \in {-1} \cup Strings /\ oldcode # -1  BY DEF IInv, TypeInv, Entry
    <3>2. oldcode < freeEnt  BY <1>10 DEF IInv, ChainInv
    <3> QED BY <3>1, <3>2
  <2>7. ChainString(Strings, table', old) = ChainString(Strings, table, old)  BY <1>8, <2>6
  <2>8. ChainString(Strings, table, old) = String(oldcode)  BY <1>2
  <2>9. String(e)' = ChainString(Strings, table', e)  BY <1>4
  <2> QED BY <2>5, <2>7, <2>8, <2>9
<1> QED BY <1>9, <1>10

\* The elements of two sequences, one behind the other.
LEMMA ConcatIs ==
    ASSUME NEW S, NEW s \in Seq(S), NEW t \in Seq(S)
    PROVE  /\ Len(s \o t) = Len(s) + Len(t) /\ Len(s) \in Nat /\ Len(t) \in Nat
           /\ \A i \in 1 .. Len(s) : (s \o t)[i] = s[i]
           /\ \A i \in 1 .. Len(t) : (s \o t)[Len(s) + i] = t[i]
OBVIOUS

\* A sequence is what it is split into.
LEMMA SplitIs ==
    ASSUME NEW S, NEW s \in Seq(S), NEW n \in 0 .. Len(s)
    PROVE  /\ SubSeq(s, 1, n) \o SubSeq(s, n + 1, Len(s)) = s
           /\ SubSeq(s, 1, n) \in Seq(S) /\ SubSeq(s, n + 1, Len(s)) \in Seq(S)
<1> DEFINE a == SubSeq(s, 1, n)
           b == SubSeq(s, n + 1, Len(s))
<1>1. Len(s) \in Nat /\ n \in Nat /\ n <= Len(s)  OBVIOUS
<1>2. a \in Seq(S) /\ Len(a) = n /\ \A i \in 1 .. n : a[i] = s[i]
    BY <1>1
<1>3. b \in Seq(S) /\ Len(b) = Len(s) - n /\ \A i \in 1 .. Len(s) - n : b[i] = s[n + i]
    BY <1>1
<1> HIDE DEF a, b
<1>4. a \o b \in Seq(S) /\ Len(a \o b) = Len(s)
    BY <1>1, <1>2, <1>3
<1>5. \A i \in 1 .. Len(s) : (a \o b)[i] = s[i]
  <2> TAKE i \in 1 .. Len(s)
  <2>1. CASE i <= n
    <3>1. i \in 1 .. n  BY <1>1, <2>1
    <3>2. (a \o b)[i] = a[i]  BY <1>1, <1>2, <1>3, <3>1
    <3> QED BY <1>2, <3>1, <3>2
  <2>2. CASE i > n
    <3>1. i - n \in 1 .. Len(s) - n /\ n + (i - n) = i  BY <1>1, <2>2
    <3>2. (a \o b)[i] = b[i - n]  BY <1>1, <1>2, <1>3, <2>2, <3>1
    <3>3. b[i - n] = s[n + (i - n)]  BY <1>3, <3>1
    <3> QED BY <3>1, <3>2, <3>3
  <2>3. i <= n \/ i > n  BY <1>1
  <2> QED BY <2>1, <2>2, <2>3
<1>6. a \o b = s
  <2> DEFINE c == a \o b
  <2>1. c \in Seq(S) /\ Len(c) = Len(s) /\ \A i \in 1 .. Len(s) : c[i] = s[i]  BY <1>4, <1>5
  <2> HIDE DEF c
  <2>2. c = s  BY <2>1
  <2> QED BY <2>2 DEF c
<1> QED BY <1>2, <1>3, <1>6 DEF a, b

\* The string that Entry puts out is that of the code in the file.
Decoded == IF Code = freeEnt THEN Append(String(oldcode), finchar) ELSE String(Code)

LEMMA EntryIsRight ==
    ASSUME Parameters, IInv, file.state # "damaged", Entry, NEW k \in 1 .. Count, k # 1,
           Code = file.codes[k], StringIsRight(file, Place(k).from, k), ~IsClear(file, k),
           Place(k).from \in 1 .. k, TableOf(k), LastOf(k)
    PROVE  /\ Decoded = file.strings[k]
           /\ Code = freeEnt => /\ freeEnt < MAXCODE(file.maxbits) /\ First <= freeEnt
                                /\ finchar = Decoded[1]
<1> DEFINE code == Code
           from == Place(k).from
           S    == file.strings
           n    == freeEnt
           full == MAXCODE(file.maxbits)
           j    == from + (code - First)
<1>1. /\ file \in Files /\ First \in Nat /\ Lit \in Nat /\ Lit <= First /\ n \in Nat /\ full \in Nat
      /\ code \in Nat /\ code <= n /\ Lit <= n /\ k \in Nat /\ from \in Nat /\ Count \in Nat
      /\ S \in Seq(Seq(Character)) /\ Len(S) = Count /\ oldcode # -1
  <2>1. Ready /\ oldcode # -1 /\ code <= n  BY DEF Entry
  <2>2. Lit <= n  BY DEF IInv, WidthInv
  <2>3. TypeInv /\ file \in Files  BY DEF IInv, TypeInv
  <2>4. code \in Nat  BY <2>1, CodeIs
  <2>5. First \in Nat /\ Lit \in Nat /\ Lit <= First /\ n \in Nat /\ full \in Nat
      BY <2>3, StateTypes
  <2>6. Count \in Nat /\ S \in Seq(Seq(Character)) /\ Len(S) = Count
      BY <2>3, FormatIs
  <2>7. k \in Nat /\ from \in Nat
    <3>1. k \in Nat  BY <2>6
    <3>2. from \in 1 .. k  OBVIOUS
    <3> HIDE DEF from
    <3> QED BY <3>1, <3>2
  <2> HIDE DEF from, S, n, full, code
  <2> QED BY <2>1, <2>2, <2>3, <2>4, <2>5, <2>6, <2>7
<1>2. code \in Strings /\ \A e \in Strings : String(e) \in Seq(Character) /\ String(e) # <<>>
    BY EntryString, StringIs DEF IInv, TypeInv, ChainInv
<1>3. oldcode \in Strings  BY <1>1 DEF IInv, TypeInv
<1>4. \/ code < Lit /\ S[k] = <<code>>
      \/ code \in First .. full - 1 /\ j < k /\ S[k] = Append(S[j], S[j + 1][1])
    BY DEF StringIsRight, First
<1>5. /\ n <= full
      /\ n < full => n = First + ((k - 1) - from)
  <2>1. n = NextEntry(file, from, k)  BY DEF TableOf
  <2>2. k \in Nat \ {0}  BY <1>1
  <2> QED BY <1>1, <2>1, <2>2, NextEntryIs
<1>6. /\ \A e \in First .. n - 1 : String(e) = Append(S[from + (e - First)], S[(from + (e - First)) + 1][1])
      /\ from < k => String(oldcode) = S[k - 1] /\ finchar = S[k - 1][1]
    BY DEF TableOf, LastOf
<1> HIDE DEF code, from, S, n, full
<1>7. CASE code < Lit /\ S[k] = <<code>>
  <2>1. code # n  BY <1>1, <1>7
  <2>2. String(code) = <<code>>
      BY <1>2, <1>7, StringIsChain DEF IInv, ChainInv
  <2> QED BY <1>7, <2>1, <2>2 DEF Decoded, code, S, n
<1>8. CASE code \in First .. full - 1 /\ j < k /\ S[k] = Append(S[j], S[j + 1][1])
  <2>1. CASE code < n
    <3>1. code \in First .. n - 1 /\ code # n  BY <1>1, <1>8, <2>1
    <3>2. String(code) = S[k]  BY <1>6, <1>8, <3>1
    <3> QED BY <3>1, <3>2 DEF Decoded, code, S, n
  <2>2. CASE code = n
    <3>1. n < full /\ First <= n  BY <1>1, <1>8, <2>2
    <3>2. j = k - 1 /\ j + 1 = k /\ from < k  BY <1>1, <1>5, <2>2, <3>1
    <3> DEFINE s == S[k - 1]
    <3>3. String(oldcode) = s /\ finchar = s[1] /\ S[k] = Append(s, S[k][1])
        BY <1>6, <1>8, <3>2
    <3>4. s \in Seq(Character) /\ s # <<>>  BY <1>2, <1>3, <3>3
    <3> HIDE DEF s
    <3>5. \A c : Append(s, c)[1] = s[1]
      <4> TAKE c
      <4>1. Len(s) \in Nat /\ Len(s) # 0 /\ 1 \in 1 .. Len(s)  BY <3>4
      <4>2. s \in Seq(Character \cup {c}) /\ c \in Character \cup {c}  BY <3>4
      <4> QED BY <4>1, <4>2
    <3>6. S[k] = Append(s, finchar) /\ S[k][1] = finchar  BY <3>3, <3>5
    <3>7. Decoded = Append(s, finchar)  BY <2>2, <3>3 DEF Decoded, code, n
    <3> QED BY <3>1, <3>6, <3>7 DEF S, full, n
  <2> QED BY <1>1, <2>1, <2>2
<1> QED BY <1>4, <1>7, <1>8

\* A string is put out, and one entered in the table.
LEMMA EntryGoesOn ==
    ASSUME Parameters, IInv, file.state # "damaged", Entry, NEW k \in 1 .. Count, k # 1,
           Code = file.codes[k], StringIsRight(file, Place(k).from, k), ~IsClear(file, k),
           OutputOf(k), TableOf(k), LastOf(k)
    PROVE  /\ OutputOf(k + 1)' /\ TableOf(k + 1)' /\ LastOf(k + 1)'
           /\ freeEnt' = NextEntry(file, Place(k).from, k + 1)
           /\ freeEnt' \in Nat /\ freeEnt' <= freeEnt + 1
<1> DEFINE from == Place(k).from
           S    == file.strings
           n    == freeEnt
           full == MAXCODE(file.maxbits)
           s    == S[k]
           last == S[k - 1]
<1>1. /\ Next /\ Ready /\ pc' = pc /\ pc = "code" /\ file' = file /\ file \in Files
      /\ oldcode # -1 /\ oldcode' = Code
    BY DEF Entry, Next, Ready, IInv, TypeInv
<1>2. /\ First' = First /\ Strings' = Strings /\ Count' = Count
      /\ Place(k + 1)' = Place(k + 1)
    BY <1>1, PlacesStay
<1>3. k \in Nat /\ k > 1 /\ k + 1 \in Nat /\ (k + 1) - 1 = k /\ Count \in Nat
      /\ k \in 1 .. Count + 1
    BY <1>1, FormatIs
<1>4. from \in 1 .. k /\ Place(k + 1).from = from
  <2>1. IsPlace(Place(k), k)  BY <1>1, <1>3, PlacesAre
  <2>2. Place(k + 1).from = from  BY <1>1, PlaceAfter
  <2> QED BY <2>1, <2>2 DEF IsPlace
<1>5. /\ Decoded = s
      /\ Code = n => n < full /\ First <= n /\ finchar = Decoded[1]
    BY <1>4, EntryIsRight
<1>6. /\ finchar' = s[1]
      /\ IF n < full THEN freeEnt' = n + 1 ELSE freeEnt' = n
    BY <1>5 DEF Entry, Decoded
<1>7. s \in Seq(Character)
  <2>1. Decoded \in Seq(Character)  BY EntryString DEF Decoded
  <2> QED BY <1>5, <2>1
<1>8. /\ n \in Nat /\ full \in Nat /\ n <= full
      /\ n < full => n = First + ((k - 1) - from)
      /\ freeEnt' = NextEntry(file, from, k + 1)
  <2>1. n = NextEntry(file, from, k)  BY <1>3 DEF TableOf
  <2>2. k \in Nat \ {0} /\ from \in 1 .. k  BY <1>3, <1>4
  <2>3. /\ n \in Nat /\ full \in Nat /\ n <= full
        /\ n < full => n = First + ((k - 1) - from)
        /\ NextEntry(file, from, k + 1) = IF n < full THEN n + 1 ELSE n
      BY <1>1, <2>1, <2>2, NextEntryIs
  <2> QED BY <1>6, <2>3
<1>9. freeEnt' \in Nat /\ freeEnt' <= n + 1
    BY <1>6, <1>8
<1>10. /\ \A e \in Strings : e < n => String(e)' = String(e)
       /\ \A e : e = n /\ First <= e /\ e < full => String(e)' = Append(String(oldcode), s[1])
    BY <1>6, EntryStrings
<1>11. OutputOf(k + 1)'
  <2> DEFINE all  == outbuf \o s
             some == Len(all) - (Len(all) % OutBuf)
             a == SubSeq(all, 1, some)
             b == SubSeq(all, some + 1, Len(all))
  <2>1. out' = out \o a /\ outbuf' = b
      BY <1>5 DEF Entry, Decoded
  <2>2. out \in Seq(Character) /\ outbuf \in Seq(Character)  BY DEF IInv, TypeInv
  <2> HIDE DEF s
  <2>3. all \in Seq(Character)  BY <1>7, <2>2, ConcatType
  <2> HIDE DEF all
  <2>4. some \in 0 .. Len(all)
    <3> DEFINE m == Len(all)
    <3>1. m \in Nat /\ OutBuf \in Nat \ {0}  BY <2>3, Constants
    <3> HIDE DEF m
    <3>2. m % OutBuf \in Nat /\ m % OutBuf <= m
      <4>1. m \div OutBuf \in Nat /\ m % OutBuf \in Nat /\ m = OutBuf * (m \div OutBuf) + (m % OutBuf)
          BY <3>1, Division
      <4>2. OutBuf * (m \div OutBuf) \in Nat  BY <3>1, <4>1, ProductType
      <4> QED BY <3>1, <4>1, <4>2
    <3>3. m - (m % OutBuf) \in 0 .. m  BY <3>1, <3>2
    <3> QED BY <3>3 DEF m
  <2> HIDE DEF some
  <2>5. a \o b = all /\ a \in Seq(Character) /\ b \in Seq(Character)
      BY <2>3, <2>4, SplitIs
  <2> HIDE DEF a, b
  <2>6. \A x, y, z \in Seq(Character) : (x \o y) \o z = x \o (y \o z)  OBVIOUS
  <2>7. out' \o outbuf' = (out \o outbuf) \o s
    <3>1. (out \o a) \o b = out \o (a \o b)  BY <2>2, <2>5, <2>6
    <3>2. out \o (outbuf \o s) = (out \o outbuf) \o s  BY <1>7, <2>2, <2>6
    <3> QED BY <2>1, <2>5, <3>1, <3>2 DEF all
  <2>8. Joined(S)[k] = Joined(S)[k - 1] \o s
    <3>1. Len(S) = Count /\ Len(S) \in Nat  BY <1>1, FormatIs
    <3> QED BY <3>1, JoinedStep DEF s
  <2>9. out \o outbuf = Joined(S)[k - 1]  BY DEF OutputOf
  <2>10. out' \o outbuf' = Joined(S)[k]  BY <2>7, <2>8, <2>9
  <2> QED BY <1>1, <1>3, <2>10 DEF OutputOf
<1>12. oldcode \in Strings /\ Code \in Strings /\ Lit <= First
       /\ First \in Nat /\ Lit \in Nat /\ Code \in Nat /\ Code <= n
  <2>1. Code \in Strings  BY EntryString
  <2>2. oldcode \in Strings  BY <1>1 DEF IInv, TypeInv
  <2>3. Code \in Nat  BY <1>1, CodeIs
  <2>4. First \in Nat /\ Lit \in Nat /\ Lit <= First  BY StateTypes DEF IInv
  <2> QED BY <2>1, <2>2, <2>3, <2>4 DEF Entry
<1>13. TableOf(k + 1)'
  <2> DEFINE next == freeEnt'
  <2>1. ASSUME NEW e \in First .. next - 1
        PROVE  String(e)' = Append(S[from + (e - First)], S[(from + (e - First)) + 1][1])
    <3>0. next \in Nat /\ (IF n < full THEN next = n + 1 ELSE next = n)  BY <1>6, <1>9
    <3> HIDE DEF next
    <3>1. e \in Nat /\ First <= e /\ e < next  BY <3>0, <1>12
    <3>2. CASE e < n
      <4>1. e \in First .. n - 1  BY <1>8, <1>12, <3>1, <3>2
      <4>2. String(e) = Append(S[from + (e - First)], S[(from + (e - First)) + 1][1])
          BY <4>1 DEF TableOf
      <4>3. e \in Strings
        <5>1. n <= MAXCODE(Bits) /\ MAXCODE(Bits) \in Nat  BY FreeEntBound, Constants DEF IInv
        <5>2. e \in First .. MAXCODE(Bits) - 1  BY <1>8, <1>12, <3>1, <3>2, <5>1
        <5> QED BY <5>2 DEF Strings
      <4> QED BY <1>10, <3>2, <4>2, <4>3
    <3>3. CASE ~(e < n)
      <4>1. n < full /\ e = n  BY <3>0, <1>8, <3>1, <3>3
      <4>2. from + (e - First) = k - 1 /\ (k - 1) + 1 = k /\ from < k
          BY <1>3, <1>4, <1>8, <1>12, <3>1, <4>1
      <4>3. String(e)' = Append(String(oldcode), s[1])  BY <1>10, <3>1, <4>1
      <4>4. String(oldcode) = last  BY <4>2 DEF LastOf
      <4> QED BY <4>2, <4>3, <4>4
    <3> QED BY <3>2, <3>3
  <2> DEFINE place == Place(k + 1)
  <2>2. place' = place /\ place.from = from  BY <1>2, <1>4
  <2>3. freeEnt' = NextEntry(file', place'.from, k + 1)  BY <1>1, <1>8, <2>2
  <2>4. k + 1 # 1  BY <1>3
  <2>5. \A e \in First' .. freeEnt' - 1 :
            String(e)' = Append(file'.strings[place'.from + (e - First')],
                                file'.strings[(place'.from + (e - First')) + 1][1])
      BY <1>1, <1>2, <2>1, <2>2
  <2> QED BY <2>3, <2>4, <2>5 DEF TableOf
<1>14. \A c : oldcode' = c => String(oldcode)' = String(c)'
    BY DEF String
<1>15. String(oldcode)' = s
  <2> DEFINE code == Code
  <2>1. oldcode' = code /\ code \in Strings /\ code \in Nat /\ code <= n  BY <1>1, <1>12
  <2>2. Decoded = IF code = n THEN Append(String(oldcode), finchar) ELSE String(code)
      BY DEF Decoded
  <2> HIDE DEF code
  <2>3. PICK c : c = code  OBVIOUS
  <2>4. CASE c = n
    <3>1. n < full /\ First <= n /\ finchar = s[1]  BY <1>5, <2>3, <2>4 DEF code
    <3>2. String(c)' = Append(String(oldcode), s[1])  BY <1>10, <2>4, <3>1
    <3>3. s = Append(String(oldcode), finchar)  BY <1>5, <2>2, <2>3, <2>4
    <3> QED BY <1>14, <2>1, <2>3, <3>1, <3>2, <3>3
  <2>5. CASE c # n
    <3>1. c \in Strings /\ c < n  BY <1>8, <2>1, <2>3, <2>5
    <3>2. String(c)' = String(c)  BY <1>10, <3>1
    <3>3. s = String(c)  BY <1>5, <2>2, <2>3, <2>5
    <3> QED BY <1>14, <2>1, <2>3, <3>2, <3>3
  <2> QED BY <2>4, <2>5
<1>16. LastOf(k + 1)'
  <2>1. oldcode' # -1 /\ k + 1 # 1  BY <1>1, <1>3, <1>12
  <2>2. String(oldcode)' = file'.strings[(k + 1) - 1] /\ finchar' = file'.strings[(k + 1) - 1][1]
      BY <1>1, <1>3, <1>6, <1>15
  <2> QED BY <2>1, <2>2 DEF LastOf
<1> QED BY <1>8, <1>9, <1>11, <1>13, <1>16

\* What the codes have left stays.
LEMMA DataStays ==
    ASSUME NEW k, UNCHANGED <<file, out, outbuf, freeEnt, table, oldcode, finchar>>,
           pc' = "done" => pc = "done", OutputOf(k), TableOf(k), LastOf(k)
    PROVE  OutputOf(k)' /\ TableOf(k)' /\ LastOf(k)'
<1>1. Place(k)' = Place(k) /\ First' = First /\ Strings' = Strings
    BY PlacesStay
<1>2. \A e : String(e)' = String(e)
    BY <1>1 DEF String
<1>3. String(oldcode)' = String(oldcode)
    BY <1>1 DEF String
<1>4. OutputOf(k)'  BY DEF OutputOf
<1>5. TableOf(k)'  BY <1>1, <1>2 DEF TableOf
<1>6. LastOf(k)'  BY <1>1, <1>3 DEF LastOf
<1> QED BY <1>4, <1>5, <1>6

\* A file of the format, when unlzw is called.
LEMMA FormatStart == ASSUME Parameters, Init PROVE FormatInv
<1> SUFFICES ASSUME file.state # "damaged" PROVE FormatInv
    BY DEF FormatInv
<1>1. file \in Files /\ pc = "start" /\ IInv /\ posbits = ByteBits /\ more = TRUE
      /\ nbits = InitBits /\ maxcode = MAXCODE(InitBits) - 1 /\ freeEnt = First
      /\ oldcode = -1 /\ outbuf = <<>> /\ out = <<>>
    BY InvStart DEF Init
<1>2. /\ ByteBits \in Nat \ {0} /\ InitBits \in Nat /\ InBuf \in Nat \ {0}
      /\ Bytes \in Nat /\ Len(file.bits) = ByteBits * Bytes /\ file.bits \in Seq({0, 1})
      /\ Count \in Nat /\ Len(file.strings) = Count /\ Lit + 1 < MAXCODE(InitBits)
      /\ First \in Nat /\ First <= Lit + 1 /\ Lit \in Nat /\ MAXCODE(InitBits) \in Nat
    BY <1>1, Constants, FormatIs, FileTypes, FirstIs
<1>3. PICK n \in 0 .. Least(InBuf - 1, Bytes) :
        /\ fpos = n
        /\ inbuf = [i \in 1 .. ByteBits |-> 1] \o SubSeq(file.bits, 1, ByteBits * n)
    BY DEF Init
<1>4. n \in Nat /\ n <= Bytes
  <2>1. Least(InBuf - 1, Bytes) \in Int /\ Least(InBuf - 1, Bytes) <= Bytes
    <3>1. InBuf - 1 \in Nat  BY <1>2
    <3> QED BY <1>2, <3>1 DEF Least
  <2> QED BY <1>2, <2>1
<1> DEFINE bits == file.bits
           head == [i \in 1 .. ByteBits |-> 1]
           part == SubSeq(bits, 1, ByteBits * n)
           size == ByteBits * n
<1>5. size \in Nat /\ size <= Len(bits) /\ Len(bits) \in Nat
  <2>1. ByteBits * n \in Nat /\ ByteBits * n <= ByteBits * Bytes  BY <1>2, <1>4, ProductType
  <2> QED BY <1>2, <2>1
<1>6. head \in Seq({0, 1}) /\ Len(head) = ByteBits
    BY <1>2
<1>7. part \in Seq({0, 1}) /\ Len(part) = size /\ \A i \in 1 .. size : part[i] = bits[i]
  <2>1. bits \in Seq({0, 1})  BY <1>2
  <2>2. part = SubSeq(bits, 1, size)  OBVIOUS
  <2> HIDE DEF part, bits, size
  <2>3. 1 \in Nat \ {0} /\ 1 <= size + 1 /\ size - 1 + 1 = size  BY <1>5
  <2>4. part \in Seq({0, 1}) /\ Len(part) = size - 1 + 1  BY <1>5, <2>1, <2>2, <2>3, PartType
  <2>5. \A i \in 1 .. size : part[i] = bits[i]  BY <1>5, <2>1, <2>2
  <2> QED BY <2>3, <2>4, <2>5
<1>8. inbuf = head \o part  BY <1>3
<1> HIDE DEF head, part, bits, size
<1>9. /\ Len(inbuf) = ByteBits + size
      /\ \A b \in 1 .. Len(inbuf) : b > ByteBits => inbuf[b] = bits[b - ByteBits]
  <2>1. /\ Len(head \o part) = ByteBits + size
        /\ \A i \in 1 .. size : (head \o part)[ByteBits + i] = part[i]
    <3> DEFINE all == head \o part
    <3>0. head \in Seq({0, 1}) /\ part \in Seq({0, 1})  BY <1>6, <1>7
    <3>1. /\ Len(all) = Len(head) + Len(part)
          /\ \A i \in 1 .. Len(part) : all[Len(head) + i] = part[i]
        BY <3>0, ConcatIs
    <3>2. Len(head) = ByteBits /\ Len(part) = size  BY <1>6, <1>7
    <3> HIDE DEF all
    <3>3. /\ Len(all) = ByteBits + size
          /\ \A i \in 1 .. size : all[ByteBits + i] = part[i]
        BY <3>1, <3>2
    <3> QED BY <3>3 DEF all
  <2>2. Len(inbuf) = ByteBits + size  BY <1>8, <2>1
  <2>3. ASSUME NEW b \in 1 .. Len(inbuf), b > ByteBits PROVE inbuf[b] = bits[b - ByteBits]
    <3>1. b - ByteBits \in 1 .. size /\ ByteBits + (b - ByteBits) = b  BY <1>2, <1>5, <2>2, <2>3
    <3>2. inbuf[b] = part[b - ByteBits]  BY <1>8, <2>1, <3>1
    <3> QED BY <1>7, <3>1, <3>2
  <2> QED BY <2>2, <2>3
<1>10. Offset = -ByteBits /\ Bit = 0 /\ ByteBits * fpos = size
  <2>1. ByteBits * fpos = size  BY <1>3 DEF size
  <2>2. Offset = size - (ByteBits + size)  BY <1>9, <2>1 DEF Offset
  <2>3. Offset = -ByteBits  BY <1>2, <1>5, <2>2
  <2>4. Bit = -ByteBits + ByteBits  BY <1>1, <2>3 DEF Bit
  <2>5. Bit = 0  BY <1>2, <2>4
  <2> QED BY <2>1, <2>3, <2>5
<1>11. HeldInv
  <2>1. \A b \in 1 .. Len(inbuf) : Offset + b >= 1 => inbuf[b] = bits[Offset + b]
    <3> SUFFICES ASSUME NEW b \in 1 .. Len(inbuf), Offset + b >= 1 PROVE inbuf[b] = bits[Offset + b]
        OBVIOUS
    <3>1. b \in Nat /\ -ByteBits + b = b - ByteBits /\ b > ByteBits  BY <1>2, <1>5, <1>9, <1>10
    <3> QED BY <1>9, <1>10, <3>1
  <2> QED BY <1>1, <1>10, <2>1 DEF HeldInv, bits
<1>12. EndsInv
  <2>1. posbits = ByteBits * 1 /\ 1 \in Nat  BY <1>1, <1>2
  <2>2. posbits <= Len(inbuf)  BY <1>1, <1>2, <1>5, <1>9
  <2> QED BY <1>1, <2>1, <2>2 DEF EndsInv
<1>13. Ahead(1)
  <2>1. Place(1).bit = 0 /\ Place(1).width = InitBits /\ Place(1).base = 0
      BY <1>1, PlacesAre DEF FirstPlace
  <2>2. InGroup(0)
    <3>1. Group \in Int  BY <1>1, <1>2 DEF Group
    <3>2. Bit = 0 + 0 * Group  BY <1>10, <3>1
    <3> QED BY <1>1, <3>2 DEF InGroup
  <2>3. freeEnt <= maxcode  BY <1>1, <1>2
  <2> QED BY <1>1, <1>10, <2>1, <2>2, <2>3 DEF Ahead
<1>14. Progress(1)
  <2>1. Joined(file.strings)[0] = <<>>  BY <1>2, JoinedStep
  <2>2. OutputOf(1)  BY <1>1, <2>1 DEF OutputOf
  <2>3. TableOf(1)  BY <1>1, <1>2 DEF TableOf
  <2>4. Place(1).from = 1  BY <1>1, PlacesAre DEF FirstPlace
  <2>5. LastOf(1)  BY <1>1, <2>4 DEF LastOf
  <2> QED BY <1>1, <1>13, <2>2, <2>3, <2>5 DEF Progress
<1>15. 1 \in 1 .. Count + 1  BY <1>2
<1> QED BY <1>1, <1>11, <1>12, <1>14, <1>15 DEF FormatInv

\* The header is right.
LEMMA FormatStarts == ASSUME Parameters, IInv, FormatInv, Start PROVE FormatInv'
<1>1. file' = file /\ pc = "start" /\ UNCHANGED <<inVars, widthVars, tableVars, outbuf, out>>
      /\ pc' = IF file.maxbits > Bits THEN "error" ELSE "reset"
    BY DEF Start
<1>2. UNCHANGED <<file, fpos, inbuf, posbits, inbits, more, nbits, maxcode, freeEnt, table, oldcode,
                  finchar, outbuf, out>>
    BY <1>1 DEF inVars, widthVars, tableVars
<1> SUFFICES ASSUME file.state # "damaged" PROVE FormatInv'
    BY <1>1 DEF FormatInv
<1>3. HeldInv /\ EndsInv  BY DEF FormatInv
<1>4. PICK k \in 1 .. Count + 1 : Progress(k)  BY DEF FormatInv
<1>5. pc' = "reset"
  <2>1. file.maxbits <= Bits /\ file.maxbits \in Nat /\ Bits \in Nat
      BY FormatIs, FileTypes, Constants DEF IInv, TypeInv
  <2> QED BY <1>1, <2>1
<1>6. HeldInv' /\ Offset' = Offset
  <2>1. posbits' \in Nat /\ posbits <= posbits'  BY <1>2, StateTypes DEF IInv
  <2> QED BY <1>2, <1>3, <1>5, <2>1, HeldStays
<1>7. EndsInv'  BY <1>1, <1>2, <1>3, <1>5 DEF EndsInv
<1>8. Bit' = Bit /\ Group' = Group  BY <1>2, <1>6 DEF Bit, Group
<1>9. \A i : Place(i)' = Place(i) /\ IsClear(file, i)' = IsClear(file, i)
    BY <1>2, PlacesStay
<1>10. Count' = Count  BY <1>2, PlacesStay
<1>11. Ahead(k) \/ Pending(k)  BY <1>1, <1>4 DEF Progress, Lost
<1>12. Ahead(k) => Ahead(k)'
    BY <1>1, <1>2, <1>5, <1>8, <1>9 DEF Ahead, InGroup
<1>13. Pending(k) => Pending(k)'
    BY <1>1, <1>2, <1>5, <1>8, <1>9 DEF Pending, InGroup
<1>14. OutputOf(k)' /\ TableOf(k)' /\ LastOf(k)'
    BY <1>2, <1>4, <1>5, DataStays DEF Progress
<1>15. Progress(k)'  BY <1>5, <1>11, <1>12, <1>13, <1>14 DEF Progress
<1> QED BY <1>5, <1>6, <1>7, <1>10, <1>15 DEF FormatInv

\* When the file is whole and nothing more can be read, all codes were.
LEMMA AllRead ==
    ASSUME Parameters, IInv, file.state = "whole", HeldInv, pc = "code", inbits <= posbits, ~more,
           NEW k \in 1 .. Count + 1, Ahead(k) \/ Pending(k) \/ Lost(k)
    PROVE  k = Count + 1
<1>1. /\ file \in Files /\ file.state # "damaged" /\ Count \in Nat /\ k \in Nat
      /\ Compressed(file)
    BY FormatIs DEF IInv, TypeInv
<1>2. /\ Offset \in Int /\ Bit \in Nat /\ Len(file.bits) \in Nat
      /\ Offset + Len(inbuf) = Len(file.bits) /\ Len(inbuf) \in Nat
      /\ posbits \in Nat /\ inbits \in Int /\ nbits \in Nat \ {0}
    BY <1>1, BufferIs, StateTypes DEF IInv, TypeInv
<1>3. Bit + nbits > Len(file.bits)
  <2>1. inbits = Len(inbuf) - (nbits - 1)  BY DEF IInv, GroupInv
  <2>2. Bit = Offset + posbits  BY DEF Bit
  <2> QED BY <1>2, <2>1, <2>2
<1>4. Place(Count + 1).bit <= Len(file.bits)
    BY <1>1 DEF Compressed, Place, Count
<1> SUFFICES ASSUME k # Count + 1 PROVE FALSE
    OBVIOUS
<1>5. k \in 1 .. Count  BY <1>1
<1>6. Place(k).bit \in Nat /\ Place(k).width \in Nat /\ Place(Count + 1).bit \in Nat
  <2>1. IsPlace(Place(k), k) /\ IsPlace(Place(Count + 1), Count + 1)
    <3>1. Count + 1 \in 1 .. Count + 1  BY <1>1
    <3> QED BY <1>1, <3>1, PlacesAre
  <2> QED BY <2>1 DEF IsPlace
<1>7. Place(k).bit + Place(k).width <= Len(file.bits)
  <2>1. Place(k).bit + Place(k).width <= Place(Count + 1).bit  BY <1>1, <1>5, PlacesGrow
  <2> QED BY <1>2, <1>4, <1>6, <2>1
<1>8. CASE Ahead(k)
  <2>1. Bit = Place(k).bit /\ nbits = Place(k).width  BY <1>8 DEF Ahead
  <2> QED BY <1>2, <1>3, <1>7, <2>1
<1>9. CASE Pending(k)
  <2>1. /\ k > 1 /\ ~IsClear(file, k - 1) /\ Bit = Place(k - 1).bit + nbits
        /\ nbits = Place(k - 1).width
      BY <1>9 DEF Pending
  <2>2. k - 1 \in 1 .. Count /\ (k - 1) + 1 = k  BY <1>1, <1>5, <2>1
  <2>3. Place(k - 1).bit + Place(k - 1).width <= Place(k).bit  BY <1>1, <2>2, PlacesAre
  <2>4. Bit <= Place(k).bit  BY <2>1, <2>3
  <2>5. nbits <= Place(k).width
    <3>1. Widens(k - 1) => Place(k).width = nbits + 1  BY <1>1, <2>1, <2>2, PlaceAfter
    <3>2. ~Widens(k - 1) => Place(k).width = nbits  BY <1>1, <2>1, <2>2, PlaceAfter
    <3> QED BY <1>2, <3>1, <3>2
  <2> QED BY <1>2, <1>3, <1>6, <1>7, <2>4, <2>5
<1>10. CASE Lost(k)
  <2>1. Len(file.bits) < Place(k).bit  BY <1>10 DEF Lost
  <2> QED BY <1>2, <1>6, <1>7, <2>1
<1> QED BY <1>8, <1>9, <1>10

\* inbuf has no more groups: it is filled, or the file has ended.
LEMMA FormatExhausted == ASSUME Parameters, IInv, FormatInv, Exhausted PROVE FormatInv'
<1>1. /\ pc = "code" /\ inbits <= posbits
      /\ IF more THEN pc' = "reset" /\ UNCHANGED <<outbuf, out>>
                 ELSE pc' = "done" /\ out' = out \o outbuf /\ outbuf' = <<>>
      /\ UNCHANGED <<file, fpos, inbuf, posbits, inbits, more, nbits, maxcode, freeEnt, table, oldcode,
                     finchar>>
    BY DEF Exhausted, inVars, widthVars, tableVars
<1> SUFFICES ASSUME file.state # "damaged" PROVE FormatInv'
    BY <1>1 DEF FormatInv
<1>2. HeldInv /\ EndsInv  BY DEF FormatInv
<1>3. PICK k \in 1 .. Count + 1 : Progress(k)  BY DEF FormatInv
<1>4. posbits \in Nat /\ nbits \in Nat \ {0} /\ ByteBits \in Nat \ {0} /\ inbits \in Int
      /\ Group \in Nat \ {0} /\ Group = ByteBits * nbits /\ Offset \in Int /\ Len(inbuf) \in Nat
    BY <1>2, StateTypes, Constants, BufferIs DEF IInv, TypeInv, Group
<1>5. HeldInv' /\ Offset' = Offset
  <2>1. posbits' \in Nat /\ posbits <= posbits'  BY <1>1, <1>4
  <2> QED BY <1>1, <1>2, <2>1, HeldStays
<1>6. /\ Bit' = Bit /\ Group' = Group /\ Count' = Count
      /\ \A i : Place(i)' = Place(i) /\ IsClear(file, i)' = IsClear(file, i)
    BY <1>1, <1>5, PlacesStay DEF Bit, Group
<1>7. Ahead(k) \/ Pending(k) \/ Lost(k)  BY <1>1, <1>3 DEF Progress
<1>8. CASE more
  <2>1. pc' = "reset" /\ UNCHANGED <<outbuf, out>>  BY <1>1, <1>8
  <2>2. PICK m \in Nat : inbits = m * Group  BY <1>1, <1>2, <1>8 DEF EndsInv
  <2>3. m * Group \in Nat /\ posbits = m * Group
    <3>1. m * Group \in Nat  BY <1>4, ProductType
    <3>2. posbits <= inbits  BY <1>1, <1>2, <1>8 DEF EndsInv
    <3> QED BY <1>1, <1>4, <2>2, <3>1, <3>2
  <2>4. EndsInv'
    <3>1. m * nbits \in Nat /\ m * Group = ByteBits * (m * nbits)
      <4>1. m * nbits \in Nat  BY <1>4, ProductType
      <4> QED BY <1>4, <4>1
    <3>2. posbits <= Len(inbuf)
      <4>1. inbits <= Len(inbuf)  BY <1>1, <1>8 DEF IInv, GroupInv
      <4> QED BY <1>1, <1>4, <2>2, <2>3, <4>1
    <3> QED BY <1>1, <2>1, <2>3, <3>1, <3>2 DEF EndsInv
  <2>5. ASSUME NEW base \in Nat, InGroup(base)
        PROVE  \E i \in Nat : Bit = base + i * Group
    <3>1. PICK i \in Nat : Offset = base + i * Group  BY <1>1, <2>5 DEF InGroup
    <3>2. i * Group \in Nat /\ (i + m) * Group = i * Group + m * Group  BY <1>4, ProductType
    <3>3. Bit = base + (i + m) * Group
      <4> DEFINE x == i * Group
                 y == m * Group
      <4>1. Bit = Offset + posbits  BY DEF Bit
      <4>2. x \in Nat /\ y \in Nat /\ Offset = base + x /\ posbits = y /\ (i + m) * Group = x + y
          BY <2>3, <3>1, <3>2
      <4> HIDE DEF x, y
      <4>3. (base + x) + y = base + (x + y)  BY <4>2
      <4> QED BY <4>1, <4>2, <4>3
    <3> QED BY <3>3
  <2>6. file \in Files /\ Count \in Nat /\ k \in Nat
    <3>1. file \in Files  BY DEF IInv, TypeInv
    <3> QED BY <3>1, FormatIs
  <2>7. Ahead(k) => Ahead(k)'
    <3> SUFFICES ASSUME Ahead(k) PROVE Ahead(k)'  OBVIOUS
    <3>1. Place(k).base \in Nat  BY <2>6, PlacesAre DEF IsPlace
    <3>2. \E i \in Nat : Bit = Place(k).base + i * Group  BY <2>5, <3>1 DEF Ahead
    <3>3. InGroup(Place(k).base)'  BY <1>6, <2>1, <3>2 DEF InGroup
    <3> QED BY <1>1, <1>6, <3>3 DEF Ahead
  <2>8. Pending(k) => Pending(k)'
    <3> SUFFICES ASSUME Pending(k) PROVE Pending(k)'  OBVIOUS
    <3>1. k - 1 \in 1 .. Count + 1  BY <2>6 DEF Pending
    <3>2. Place(k - 1).base \in Nat  BY <2>6, <3>1, PlacesAre DEF IsPlace
    <3>3. \E i \in Nat : Bit = Place(k - 1).base + i * Group  BY <2>5, <3>2 DEF Pending
    <3>4. InGroup(Place(k - 1).base)'  BY <1>6, <2>1, <3>3 DEF InGroup
    <3> QED BY <1>1, <1>6, <1>8, <3>4 DEF Pending
  <2>9. ~Lost(k)  BY <1>8 DEF Lost
  <2>10. OutputOf(k)' /\ TableOf(k)' /\ LastOf(k)'
      BY <1>1, <1>3, <2>1, DataStays DEF Progress
  <2>11. Progress(k)'  BY <1>7, <2>1, <2>7, <2>8, <2>9, <2>10 DEF Progress
  <2> QED BY <1>5, <1>6, <2>1, <2>4, <2>11 DEF FormatInv
<1>9. CASE ~more
  <2>1. pc' = "done" /\ out' = out \o outbuf /\ outbuf' = <<>>  BY <1>1, <1>9
  <2>2. EndsInv'  BY <2>1 DEF EndsInv
  <2>3. TableOf(k)' /\ LastOf(k)'
    <3>1. Place(k)' = Place(k) /\ First' = First /\ Strings' = Strings  BY <1>1, PlacesStay
    <3>2. \A e : String(e)' = String(e)  BY <1>1, <3>1 DEF String
    <3>3. String(oldcode)' = String(oldcode)  BY <1>1, <3>1 DEF String
    <3> QED BY <1>1, <1>3, <3>1, <3>2, <3>3 DEF Progress, TableOf, LastOf
  <2>4. OutputOf(k)'
    <3>1. out \in Seq(Character) /\ outbuf \in Seq(Character)  BY DEF IInv, TypeInv
    <3>2. (out \o outbuf) \o <<>> = out \o outbuf
      <4>1. out \o outbuf \in Seq(Character)  BY <3>1, ConcatType
      <4> QED BY <4>1
    <3> QED BY <1>1, <1>3, <2>1, <3>2 DEF Progress, OutputOf
  <2>5. file.state = "whole" => k = Count + 1
      BY <1>1, <1>2, <1>7, <1>9, AllRead
  <2>6. Progress(k)'  BY <1>1, <1>6, <2>1, <2>3, <2>4, <2>5 DEF Progress
  <2> QED BY <1>5, <1>6, <2>1, <2>2, <2>6 DEF FormatInv
<1> QED BY <1>8, <1>9

\* What is left of a group is skipped.
LEMMA GroupSkipped ==
    ASSUME Parameters, IInv, file.state # "damaged", HeldInv, EndsInv, pc = "code",
           NEW base \in Nat, InGroup(base), NEW b \in Nat, posbits <= b, more => b <= inbits,
           posbits' = Aligned(b, nbits), pc' = "reset", nbits' \in Nat,
           UNCHANGED <<file, fpos, inbuf, more>>
    PROVE  /\ HeldInv' /\ EndsInv'
           /\ Bit' = base + Aligned((Offset + b) - base, nbits)
           /\ Bit' = Bit' + 0 * Group'
<1>1. /\ Offset + Aligned(b, nbits) = base + Aligned((Offset + b) - base, nbits)
      /\ Aligned(b, nbits) \in Nat /\ b <= Aligned(b, nbits)
      /\ \E m \in Nat : Aligned(b, nbits) = ByteBits * m
    BY GroupEnd
<1>2. posbits \in Nat /\ ByteBits \in Nat /\ Offset \in Int
    BY StateTypes, Constants, BufferIs DEF IInv
<1>3. posbits' \in Nat /\ posbits <= posbits'
  <2> DEFINE a == Aligned(b, nbits)
             x == posbits'
  <2>1. a \in Nat /\ b <= a /\ x = a  BY <1>1
  <2> HIDE DEF a, x
  <2>2. x \in Nat /\ posbits <= x  BY <1>2, <2>1
  <2> QED BY <2>2 DEF x
<1>4. HeldInv' /\ Offset' = Offset
    BY <1>3, HeldStays
<1>5. EndsInv'
  <2>1. more => Aligned(b, nbits) <= Len(inbuf)  BY GroupFits
  <2> QED BY <1>1, <2>1 DEF EndsInv
<1>6. Bit' = base + Aligned((Offset + b) - base, nbits)
    BY <1>1, <1>4 DEF Bit
<1>7. Bit' = Bit' + 0 * Group'
  <2> DEFINE x == Bit'
             g == Group'
  <2>1. g \in Int  BY <1>2 DEF Group
  <2>2. x \in Int
    <3>1. Offset + Aligned(b, nbits) \in Int  BY <1>1, <1>2
    <3>2. Bit' = Offset + Aligned(b, nbits)  BY <1>1, <1>6
    <3> QED BY <3>1, <3>2
  <2> HIDE DEF x, g
  <2>3. x = x + 0 * g  BY <2>1, <2>2
  <2> QED BY <2>3 DEF x, g
<1> QED BY <1>4, <1>5, <1>6, <1>7

\* Codes become wider, where the file has it so.
LEMMA FormatWiden == ASSUME Parameters, IInv, FormatInv, Widen PROVE FormatInv'
<1>1. /\ pc = "code" /\ inbits > posbits /\ freeEnt > maxcode
      /\ pc' = "reset" /\ nbits' = nbits + 1 /\ posbits' = Aligned(posbits, nbits)
      /\ maxcode' = IF nbits' = file.maxbits THEN MAXCODE(file.maxbits) ELSE MAXCODE(nbits') - 1
      /\ UNCHANGED <<file, fpos, inbuf, inbits, more, freeEnt, table, oldcode, finchar, outbuf, out>>
    BY DEF Widen, tableVars
<1> SUFFICES ASSUME file.state # "damaged" PROVE FormatInv'
    BY <1>1 DEF FormatInv
<1>2. HeldInv /\ EndsInv  BY DEF FormatInv
<1>3. PICK k \in 1 .. Count + 1 : Progress(k)  BY DEF FormatInv
<1>4. /\ posbits \in Nat /\ nbits \in Nat \ {0} /\ inbits \in Int /\ maxcode \in Nat /\ freeEnt \in Nat
      /\ InitBits \in Nat /\ InitBits <= nbits /\ file \in Files
    BY StateTypes DEF IInv, TypeInv
<1>5. Count \in Nat /\ Len(file.bits) \in Nat /\ Offset \in Int
    BY <1>2, <1>4, FormatIs, BufferIs
<1>6. Pending(k)
  <2>1. Ahead(k) \/ Pending(k) \/ Lost(k)  BY <1>1, <1>3 DEF Progress
  <2>2. ~Ahead(k)  BY <1>1, <1>4 DEF Ahead
  <2>3. ~Lost(k)  BY <1>1, <1>4 DEF Lost
  <2> QED BY <2>1, <2>2, <2>3
<1> DEFINE i == k - 1
<1>7. /\ k \in Nat /\ i \in 1 .. Count /\ i \in Nat /\ i + 1 = k
    BY <1>5, <1>6 DEF Pending
<1>8. /\ ~IsClear(file, i) /\ Bit = Place(i).bit + nbits /\ nbits = Place(i).width
      /\ freeEnt = maxcode + 1 /\ InGroup(Place(i).base)
    BY <1>6 DEF Pending
<1> HIDE DEF i
<1>9. Place(i).base \in Nat /\ Place(i).bit \in Nat
  <2>1. i \in 1 .. Count + 1  BY <1>5, <1>7
  <2> QED BY <1>4, <2>1, PlacesAre DEF IsPlace
<1>10. Place(k).from = Place(i).from
    BY <1>4, <1>7, <1>8, PlaceAfter
<1>11. Widens(i)
  <2>1. k # 1  BY <1>7
  <2>2. freeEnt = NextEntry(file, Place(i).from, i + 1)
      BY <1>3, <1>7, <1>10, <2>1 DEF Progress, TableOf
  <2>3. maxcode = LastEntry(file, Place(i).width)  BY <1>8, MaxcodeIs
  <2> QED BY <1>1, <1>8, <2>2, <2>3 DEF Widens
<1>12. /\ Place(k).bit = EndOfGroup(i) /\ Place(k).base = EndOfGroup(i)
       /\ Place(k).width = nbits + 1
    BY <1>4, <1>7, <1>8, <1>11, PlaceAfter
<1>13. /\ HeldInv' /\ EndsInv'
       /\ Bit' = Place(i).base + Aligned((Offset + posbits) - Place(i).base, nbits)
       /\ Bit' = Bit' + 0 * Group'
  <2>1. more => posbits <= inbits  BY <1>1, <1>4
  <2>2. nbits' \in Nat /\ posbits <= posbits  BY <1>1, <1>4
  <2>3. UNCHANGED <<file, fpos, inbuf, more>>  BY <1>1
  <2> QED BY <1>1, <1>2, <1>4, <1>8, <1>9, <2>1, <2>2, <2>3, GroupSkipped
<1>14. Bit' = EndOfGroup(i)
  <2>1. (Offset + posbits) - Place(i).base = (Place(i).bit + nbits) - Place(i).base
      BY <1>8 DEF Bit
  <2> QED BY <1>8, <1>13, <2>1 DEF EndOfGroup
<1>15. freeEnt <= maxcode'
  <2>1. nbits < Bits /\ Bits \in Nat /\ MAXCODE(nbits) \in Nat /\ MAXCODE(nbits + 1) \in Nat
        /\ MAXCODE(nbits) < MAXCODE(nbits + 1)
      BY <1>1, <1>4, WidensToBits, Constants DEF IInv
  <2>2. /\ maxcode = IF nbits > InitBits /\ nbits = file.maxbits THEN MAXCODE(nbits)
                                                               ELSE MAXCODE(nbits) - 1
      BY DEF IInv, WidthInv
  <2>3. ~(nbits > InitBits /\ nbits = file.maxbits)
    <3> SUFFICES ASSUME nbits > InitBits, nbits = file.maxbits PROVE FALSE  OBVIOUS
    <3>1. freeEnt = MAXCODE(nbits) + 1  BY <1>8, <2>2
    <3>2. freeEnt <= First \/ freeEnt <= MAXCODE(nbits)  BY DEF IInv, WidthInv
    <3>3. First < MAXCODE(nbits) /\ First \in Nat  BY <1>4, FormatIs, FirstIs
    <3> QED BY <2>1, <3>1, <3>2, <3>3
  <2>4. freeEnt = MAXCODE(nbits)  BY <1>8, <2>1, <2>2, <2>3
  <2>5. maxcode' = MAXCODE(nbits + 1) \/ maxcode' = MAXCODE(nbits + 1) - 1  BY <1>1
  <2> DEFINE x == maxcode'
  <2> HIDE DEF x
  <2>6. x = MAXCODE(nbits + 1) \/ x = MAXCODE(nbits + 1) - 1  BY <2>5 DEF x
  <2>7. freeEnt <= x  BY <2>1, <2>4, <2>6
  <2> QED BY <2>7 DEF x
<1>16. /\ Count' = Count /\ Place(k)' = Place(k)
    BY <1>1, PlacesStay
<1>17. Ahead(k)'
  <2>1. Bit' = Place(k)'.bit /\ nbits' = Place(k)'.width  BY <1>1, <1>12, <1>14, <1>16
  <2>2. freeEnt' <= maxcode'  BY <1>1, <1>15
  <2>3. Bit' = Place(k)'.base + 0 * Group'  BY <1>12, <1>13, <1>14, <1>16
  <2>4. InGroup(Place(k).base)'  BY <1>1, <2>3 DEF InGroup
  <2> QED BY <2>1, <2>2, <2>4 DEF Ahead
<1>18. OutputOf(k)' /\ TableOf(k)' /\ LastOf(k)'
    BY <1>1, <1>3, DataStays DEF Progress
<1>19. Progress(k)'  BY <1>1, <1>17, <1>18 DEF Progress
<1> QED BY <1>1, <1>13, <1>16, <1>19 DEF FormatInv

\* The table is cleared, where the file has it so.
LEMMA FormatClear == ASSUME Parameters, IInv, FormatInv, Clear PROVE FormatInv'
<1>1. /\ Ready /\ pc = "code" /\ inbits > posbits /\ oldcode # -1 /\ Code = CLEAR /\ file.block
      /\ pc' = "reset" /\ freeEnt' = FIRST - 1 /\ posbits' = Aligned(posbits + nbits, nbits)
      /\ nbits' = InitBits /\ maxcode' = MAXCODE(InitBits) - 1
      /\ UNCHANGED <<file, fpos, inbuf, inbits, more, table, oldcode, finchar, outbuf, out>>
    BY DEF Clear, Ready
<1> SUFFICES ASSUME file.state # "damaged" PROVE FormatInv'
    BY <1>1 DEF FormatInv
<1>2. HeldInv /\ EndsInv  BY DEF FormatInv
<1>3. PICK k \in 1 .. Count + 1 : Progress(k)  BY DEF FormatInv
<1>4. /\ posbits \in Nat /\ nbits \in Nat \ {0} /\ inbits \in Int
      /\ InitBits \in Nat /\ Lit \in Nat /\ file \in Files /\ MAXCODE(InitBits) \in Nat
    BY StateTypes, Constants DEF IInv, TypeInv
<1>5. Count \in Nat /\ Offset \in Int /\ file.strings \in Seq(Seq(Character))
      /\ Len(file.strings) = Count
      /\ Lit + 1 < MAXCODE(InitBits) /\ First < MAXCODE(file.maxbits) /\ First = Lit + 1
    BY <1>1, <1>2, <1>4, FormatIs, BufferIs DEF First, FirstFree, FIRST, CLEAR
<1>6. /\ k \in 1 .. Count /\ Ahead(k) /\ Code = file.codes[k]
      /\ StringIsRight(file, Place(k).from, k)
    BY <1>1, <1>2, <1>3, CodeTaken
<1>7. k > 1 /\ IsClear(file, k) /\ k \in Nat
  <2>1. k # 1  BY <1>1, <1>3 DEF Progress, LastOf
  <2> QED BY <1>1, <1>5, <1>6, <2>1 DEF IsClear
<1>8. /\ Bit = Place(k).bit /\ nbits = Place(k).width /\ InGroup(Place(k).base)
    BY <1>6 DEF Ahead
<1>9. Place(k).base \in Nat  BY <1>4, PlacesAre DEF IsPlace
<1>10. /\ Place(k + 1).bit = EndOfGroup(k) /\ Place(k + 1).base = EndOfGroup(k)
       /\ Place(k + 1).width = InitBits /\ Place(k + 1).from = k + 1
    BY <1>4, <1>6, <1>7, PlaceAfter
<1> DEFINE b == posbits + nbits
<1>11. /\ HeldInv' /\ EndsInv'
       /\ Bit' = Place(k).base + Aligned((Offset + b) - Place(k).base, nbits)
       /\ Bit' = Bit' + 0 * Group'
  <2>1. more => b <= inbits  BY <1>1, CodeFits
  <2>2. nbits' \in Nat /\ b \in Nat /\ posbits <= b /\ posbits' = Aligned(b, nbits)
      BY <1>1, <1>4
  <2>3. UNCHANGED <<file, fpos, inbuf, more>>  BY <1>1
  <2> HIDE DEF b
  <2> QED BY <1>1, <1>2, <1>8, <1>9, <2>1, <2>2, <2>3, GroupSkipped
<1>12. Bit' = EndOfGroup(k)
  <2>1. Offset + b = Bit + nbits  BY <1>4, <1>5 DEF Bit
  <2>2. (Offset + b) - Place(k).base = (Place(k).bit + nbits) - Place(k).base
      BY <1>8, <2>1
  <2> QED BY <1>8, <1>11, <2>2 DEF EndOfGroup
<1>13. /\ Count' = Count /\ Place(k + 1)' = Place(k + 1) /\ First' = First
    BY <1>1, PlacesStay
<1>14. freeEnt' = Lit  BY <1>1, <1>4 DEF FIRST, CLEAR
<1>15. Ahead(k + 1)'
  <2>1. Bit' = Place(k + 1)'.bit /\ nbits' = Place(k + 1)'.width  BY <1>1, <1>10, <1>12, <1>13
  <2>2. freeEnt' <= maxcode'
    <3>1. Lit <= MAXCODE(InitBits) - 1  BY <1>4, <1>5
    <3> QED BY <1>1, <1>14, <3>1
  <2>3. Bit' = Place(k + 1)'.base + 0 * Group'  BY <1>10, <1>11, <1>12, <1>13
  <2>4. InGroup(Place(k + 1).base)'  BY <1>1, <2>3 DEF InGroup
  <2> QED BY <2>1, <2>2, <2>4 DEF Ahead
<1>16. OutputOf(k + 1)'
  <2>1. (k + 1) - 1 = k  BY <1>7
  <2>2. file.strings[k] = <<>>
    <3>1. Code \in Nat /\ Code = Lit  BY <1>1, CodeIs DEF CLEAR
    <3>2. ~(file.codes[k] < Lit)  BY <1>4, <1>6, <3>1
    <3>3. ~(file.codes[k] \in FirstFree(file) .. MAXCODE(file.maxbits) - 1)
        BY <1>4, <1>5, <1>6, <3>1 DEF First
    <3> QED BY <1>6, <3>2, <3>3 DEF StringIsRight
  <2> DEFINE before == Joined(file.strings)[k - 1]
  <2>3. k - 1 \in 0 .. Len(file.strings)  BY <1>5, <1>6, <1>7
  <2>4. before \in Seq(Character)  BY <1>5, <2>3, JoinedPrefix
  <2>5. Joined(file.strings)[k] = before \o <<>>  BY <1>5, <1>6, <2>2, JoinedStep
  <2> HIDE DEF before
  <2>6. Joined(file.strings)[k] = before  BY <2>4, <2>5
  <2>7. out \o outbuf = before  BY <1>3 DEF Progress, OutputOf, before
  <2> QED BY <1>1, <2>1, <2>6, <2>7 DEF OutputOf
<1>17. TableOf(k + 1)'
  <2> DEFINE n == NextEntry(file, k + 1, k + 1)
             full == MAXCODE(file.maxbits)
  <2>1. /\ n \in Nat /\ full \in Nat /\ n <= full
        /\ n < full => n = First + (((k + 1) - 1) - (k + 1))
        /\ n = full => full <= First + (((k + 1) - 1) - (k + 1))
    <3>1. k + 1 \in Nat \ {0} /\ k + 1 \in 1 .. k + 1  BY <1>7
    <3> QED BY <1>4, <3>1, NextEntryIs
  <2>2. First + (((k + 1) - 1) - (k + 1)) = Lit  BY <1>4, <1>5, <1>7
  <2>3. First < full  BY <1>5
  <2> HIDE DEF n, full
  <2>4. n = Lit  BY <1>4, <1>5, <2>1, <2>2, <2>3
  <2>5. freeEnt' = NextEntry(file, Place(k + 1).from, k + 1)
      BY <1>10, <1>14, <2>4 DEF n
  <2>6. k + 1 # 1  BY <1>7
  <2>7. First .. Lit - 1 = {}  BY <1>4, <1>5
  <2>8. First' .. freeEnt' - 1 = {}  BY <1>13, <1>14, <2>7
  <2> QED BY <1>1, <1>13, <2>5, <2>6, <2>8 DEF TableOf
<1>18. LastOf(k + 1)'
  <2>1. k + 1 # 1 /\ ~(k + 1 < k + 1)  BY <1>7
  <2> QED BY <1>1, <1>10, <1>13, <2>1 DEF LastOf
<1>19. k + 1 \in 1 .. Count + 1  BY <1>5, <1>6
<1>20. Progress(k + 1)'  BY <1>1, <1>15, <1>16, <1>17, <1>18 DEF Progress
<1> QED BY <1>1, <1>11, <1>13, <1>19, <1>20 DEF FormatInv

\* A string is put out, and the next code comes.
LEMMA FormatEntry == ASSUME Parameters, IInv, FormatInv, Entry PROVE FormatInv'
<1>1. /\ Ready /\ pc = "code" /\ inbits > posbits /\ oldcode # -1 /\ (Code # CLEAR \/ ~file.block)
      /\ posbits' = posbits + nbits
      /\ UNCHANGED <<file, pc, fpos, inbuf, inbits, more, nbits, maxcode>>
    BY DEF Entry, Ready, widthVars
<1> SUFFICES ASSUME file.state # "damaged" PROVE FormatInv'
    BY <1>1 DEF FormatInv
<1>2. HeldInv /\ EndsInv  BY DEF FormatInv
<1>3. PICK k \in 1 .. Count + 1 : Progress(k)  BY DEF FormatInv
<1>4. posbits \in Nat /\ nbits \in Nat /\ freeEnt \in Nat /\ maxcode \in Nat /\ file \in Files
    BY StateTypes DEF IInv, TypeInv
<1>5. /\ k \in 1 .. Count /\ Ahead(k) /\ Code = file.codes[k]
      /\ StringIsRight(file, Place(k).from, k)
    BY <1>1, <1>2, <1>3, CodeTaken
<1>6. k # 1 /\ ~IsClear(file, k) /\ OutputOf(k) /\ TableOf(k) /\ LastOf(k)
  <2>1. OutputOf(k) /\ TableOf(k) /\ LastOf(k)  BY <1>3 DEF Progress
  <2>2. k # 1  BY <1>1, <2>1 DEF LastOf
  <2>3. ~IsClear(file, k)  BY <1>1, <1>5 DEF IsClear
  <2> QED BY <2>1, <2>2, <2>3
<1>7. /\ OutputOf(k + 1)' /\ TableOf(k + 1)' /\ LastOf(k + 1)'
      /\ freeEnt' = NextEntry(file, Place(k).from, k + 1)
      /\ freeEnt' \in Nat /\ freeEnt' <= freeEnt + 1
    BY <1>5, <1>6, EntryGoesOn
<1>8. freeEnt' <= maxcode + 1
  <2> DEFINE x == freeEnt'
  <2>1. freeEnt <= maxcode  BY <1>1 DEF Ready
  <2>2. x \in Nat /\ x <= freeEnt + 1  BY <1>7
  <2> HIDE DEF x
  <2>3. x <= maxcode + 1  BY <1>4, <2>1, <2>2
  <2> QED BY <2>3 DEF x
<1>9. Ahead(k + 1)' \/ Pending(k + 1)'
    BY <1>1, <1>2, <1>5, <1>6, <1>7, <1>8, NextIsAhead
<1>10. HeldInv'
  <2>1. posbits' \in Nat /\ posbits <= posbits'  BY <1>1, <1>4
  <2> QED BY <1>1, <1>2, <2>1, HeldStays
<1>11. EndsInv'  BY <1>1, <1>2, EndsGoOn
<1>12. Count' = Count /\ Count \in Nat  BY <1>1, <1>4, PlacesStay, FormatIs
<1>13. k + 1 \in 1 .. Count + 1  BY <1>5, <1>12
<1>14. Progress(k + 1)'  BY <1>1, <1>7, <1>9 DEF Progress
<1> QED BY <1>1, <1>10, <1>11, <1>12, <1>13, <1>14 DEF FormatInv

\* The code is that of a string.
LEMMA FormatCorrupt == ASSUME Parameters, IInv, FormatInv, Corrupt PROVE FormatInv'
<1>1. /\ Ready /\ oldcode # -1 /\ (Code # CLEAR \/ ~file.block) /\ Code > freeEnt /\ file' = file
    BY DEF Corrupt
<1> SUFFICES ASSUME file.state # "damaged" PROVE FALSE
    BY <1>1 DEF FormatInv
<1>2. HeldInv  BY DEF FormatInv
<1>3. PICK k \in 1 .. Count + 1 : Progress(k)  BY DEF FormatInv
<1>4. /\ freeEnt \in Nat /\ Lit \in Nat /\ file \in Files /\ Lit <= freeEnt
    BY StateTypes DEF IInv, TypeInv, WidthInv
<1>5. /\ k \in 1 .. Count /\ Code = file.codes[k] /\ StringIsRight(file, Place(k).from, k)
    BY <1>1, <1>2, <1>3, CodeTaken
<1>6. k # 1 /\ ~IsClear(file, k) /\ freeEnt = NextEntry(file, Place(k).from, k)
  <2>1. k # 1  BY <1>1, <1>3 DEF Progress, LastOf
  <2>2. ~IsClear(file, k)  BY <1>1, <1>5 DEF IsClear
  <2> QED BY <1>3, <2>1, <2>2 DEF Progress, TableOf
<1> DEFINE from == Place(k).from
           full == MAXCODE(file.maxbits)
<1>7. from \in 1 .. k /\ k \in Nat \ {0}
  <2>1. Count \in Nat  BY <1>4, FormatIs
  <2> QED BY <1>4, <2>1, PlacesAre DEF IsPlace
<1>8. /\ full \in Nat /\ freeEnt <= full
      /\ freeEnt < full => freeEnt = First + ((k - 1) - from)
    BY <1>4, <1>6, <1>7, NextEntryIs
<1>9. Code \in Nat /\ First \in Nat  BY <1>1, CodeIs, FirstIs
<1>10. Code \in First .. full - 1 /\ (from + Code) - First < k
  <2>1. ~(Code < Lit)  BY <1>1, <1>4, <1>9
  <2>2. /\ Code \in First .. full - 1
        /\ from + Code - First < k
      BY <1>5, <1>6, <2>1 DEF StringIsRight, First
  <2>3. from + Code - First = (from + Code) - First  BY <1>7, <1>9
  <2> QED BY <2>2, <2>3
<1> HIDE DEF from, full
<1> QED BY <1>1, <1>4, <1>7, <1>8, <1>9, <1>10

\* The first code is a character, and the first of the text.
LEMMA FormatFirstCode == ASSUME Parameters, IInv, FormatInv, FirstCode PROVE FormatInv'
<1>1. /\ Ready /\ pc = "code" /\ inbits > posbits /\ oldcode = -1
      /\ posbits' = posbits + nbits
      /\ IF Code >= Lit
         THEN pc' = "corrupt" /\ UNCHANGED <<oldcode, finchar, outbuf>>
         ELSE oldcode' = Code /\ finchar' = Code /\ outbuf' = <<Code>> /\ UNCHANGED pc
      /\ UNCHANGED <<file, fpos, inbuf, inbits, more, nbits, maxcode, freeEnt, table, out>>
    BY DEF FirstCode, Ready, widthVars
<1> SUFFICES ASSUME file.state # "damaged" PROVE FormatInv'
    BY <1>1 DEF FormatInv
<1>2. HeldInv /\ EndsInv  BY DEF FormatInv
<1>3. PICK k \in 1 .. Count + 1 : Progress(k)  BY DEF FormatInv
<1>4. k = 1  BY <1>1, <1>3 DEF Progress, LastOf
<1>5. /\ posbits \in Nat /\ nbits \in Nat /\ freeEnt \in Nat /\ maxcode \in Nat /\ file \in Files
      /\ Lit \in Nat /\ First \in Nat /\ Code \in Nat /\ Lit <= First
    BY <1>1, StateTypes, CodeIs DEF IInv, TypeInv
<1>6. /\ Count \in Nat /\ First < MAXCODE(file.maxbits) /\ Len(file.strings) = Count
    BY <1>5, FormatIs
<1>7. /\ 1 \in 1 .. Count /\ Ahead(1) /\ Code = file.codes[1]
      /\ StringIsRight(file, Place(1).from, 1)
    BY <1>1, <1>2, <1>3, <1>4, CodeTaken
<1>8. Place(1).from = 1  BY <1>5, PlacesAre DEF FirstPlace
<1>9. ~IsClear(file, 1)  BY DEF IsClear
<1>10. Code < Lit /\ file.strings[1] = <<Code>>
  <2>1. ~(Code \in First .. MAXCODE(file.maxbits) - 1 /\ 1 + Code - First < 1)
      BY <1>5
  <2> QED BY <1>7, <1>8, <1>9, <2>1 DEF StringIsRight, First
<1>11. oldcode' = Code /\ finchar' = Code /\ outbuf' = <<Code>> /\ pc' = pc
    BY <1>1, <1>5, <1>10
<1>12. freeEnt = First  BY <1>3, <1>4 DEF Progress, TableOf
<1>13. NextEntry(file, 1, 2) = First
  <2> DEFINE n == NextEntry(file, 1, 1)
             full == MAXCODE(file.maxbits)
  <2>1. /\ n \in Nat /\ full \in Nat /\ n <= full
        /\ n < full => n = First + ((1 - 1) - 1)
        /\ n = full => full <= First + ((1 - 1) - 1)
        /\ NextEntry(file, 1, 1 + 1) = IF n < full THEN n + 1 ELSE n
    <3>1. 1 \in Nat \ {0} /\ 1 \in 1 .. 1  OBVIOUS
    <3> QED BY <1>5, <3>1, NextEntryIs
  <2>2. First < full  BY <1>6
  <2> HIDE DEF n, full
  <2>3. n < full /\ n + 1 = First  BY <1>5, <2>1, <2>2
  <2>4. NextEntry(file, 1, 1 + 1) = First  BY <2>1, <2>3
  <2>5. 1 + 1 = 2  OBVIOUS
  <2> QED BY <2>4, <2>5
<1>14. /\ Ahead(2)' \/ Pending(2)'
       /\ Place(2).from = 1 /\ Place(2)' = Place(2)
  <2>1. freeEnt' = NextEntry(file, Place(1).from, 1 + 1)
      BY <1>1, <1>8, <1>12, <1>13
  <2>2. freeEnt' \in Nat /\ freeEnt' <= maxcode + 1
    <3>1. freeEnt <= maxcode + 1  BY <1>1, <1>5 DEF Ready
    <3> QED BY <1>1, <1>5, <3>1
  <2>3. UNCHANGED <<file, pc, fpos, inbuf, inbits, more, nbits, maxcode>>  BY <1>1, <1>11
  <2>4. /\ Ahead(1 + 1)' \/ Pending(1 + 1)'
        /\ Place(1 + 1).from = Place(1).from /\ Place(1 + 1)' = Place(1 + 1)
      BY <1>1, <1>2, <1>7, <1>9, <2>1, <2>2, <2>3, NextIsAhead
  <2>5. 1 + 1 = 2  OBVIOUS
  <2> QED BY <1>8, <2>4, <2>5
<1>15. First' = First /\ Strings' = Strings /\ Count' = Count
    BY <1>1, PlacesStay
<1>16. OutputOf(2)'
  <2>1. out \in Seq(Character) /\ outbuf \in Seq(Character)  BY DEF IInv, TypeInv
  <2>2. /\ Joined(file.strings)[0] = <<>>
        /\ Joined(file.strings)[1] = Joined(file.strings)[1 - 1] \o <<Code>>
      BY <1>6, <1>7, <1>10, JoinedStep
  <2>3. out \o outbuf = <<>>
    <3>1. 1 - 1 = 0  OBVIOUS
    <3> QED BY <1>3, <1>4, <2>2, <3>1 DEF Progress, OutputOf
  <2>4. Len(out) + Len(outbuf) = 0 /\ Len(out) \in Nat /\ Len(outbuf) \in Nat
    <3>1. Len(out \o outbuf) = Len(out) + Len(outbuf)  BY <2>1, ConcatIs
    <3>2. Len(out) \in Nat /\ Len(outbuf) \in Nat  BY <2>1
    <3>3. Len(out \o outbuf) = 0  BY <2>3
    <3> QED BY <3>1, <3>2, <3>3
  <2>5. out = <<>>
    <3>1. Len(out) = 0  BY <2>4
    <3> QED BY <2>1, <3>1
  <2>6. Joined(file.strings)[2 - 1] = <<>> \o <<Code>>
    <3>1. 1 - 1 = 0 /\ 2 - 1 = 1  OBVIOUS
    <3> QED BY <2>2, <3>1
  <2> QED BY <1>1, <1>11, <2>5, <2>6 DEF OutputOf
<1>17. TableOf(2)'
  <2>1. freeEnt' = NextEntry(file, Place(2).from, 2)  BY <1>1, <1>12, <1>13, <1>14
  <2>2. First .. First - 1 = {}  BY <1>5
  <2>3. First' .. freeEnt' - 1 = {}  BY <1>1, <1>12, <1>15, <2>2
  <2> QED BY <1>1, <1>14, <2>1, <2>3 DEF TableOf
<1>18. LastOf(2)'
  <2>1. String(oldcode)' = String(Code)  BY <1>1, <1>11, <1>15 DEF String
  <2>2. String(Code) = <<Code>>
    <3>1. Code \in Strings  BY <1>5, <1>10 DEF Strings
    <3>2. \A e \in Strings : String(e) = IF e < Lit THEN <<e>>
                                         ELSE Append(String(table[e].prefix), table[e].suffix)
        BY StringIsChain DEF IInv, ChainInv
    <3> QED BY <1>10, <3>1, <3>2
  <2>3. file.strings[2 - 1] = <<Code>> /\ <<Code>>[1] = Code  BY <1>10
  <2>4. oldcode' # -1  BY <1>5, <1>11
  <2> QED BY <1>1, <1>11, <2>1, <2>2, <2>3, <2>4 DEF LastOf
<1>19. HeldInv'
  <2>1. posbits' \in Nat /\ posbits <= posbits'  BY <1>1, <1>5
  <2> QED BY <1>1, <1>2, <1>11, <2>1, HeldStays
<1>20. EndsInv'  BY <1>1, <1>2, <1>11, EndsGoOn
<1>21. 2 \in 1 .. Count + 1  BY <1>6, <1>7
<1>22. Progress(2)'  BY <1>1, <1>11, <1>14, <1>16, <1>17, <1>18 DEF Progress
<1> QED BY <1>1, <1>11, <1>15, <1>19, <1>20, <1>21, <1>22 DEF FormatInv

\* What ResetBuf leaves in inbuf: what was not taken, and bytes of the file behind it, none
\* only when the file has ended.
LEMMA RefillIs ==
    ASSUME Parameters, IInv, file.state # "damaged", HeldInv, EndsInv, ResetBuf
    PROVE  \E n \in Nat :
              /\ fpos' = fpos + n /\ fpos + n <= Bytes
              /\ inbuf' = SubSeq(inbuf, posbits + 1, Len(inbuf))
                            \o SubSeq(file.bits, ByteBits * fpos + 1, ByteBits * (fpos + n))
              /\ ~more' => fpos' = Bytes
              /\ Len(inbuf) < posbits => ~more'
<1>1. /\ pc = "reset" /\ file \in Files /\ fpos \in Nat /\ fpos <= Bytes /\ Bytes \in Nat
      /\ posbits \in Nat /\ inbuf \in Seq({0, 1}) /\ Len(inbuf) \in Nat
      /\ ByteBits \in Nat \ {0} /\ Extra \in Nat \ {0} /\ InBuf \in Nat
      /\ file.bits \in Seq({0, 1}) /\ Len(file.bits) \in Nat
      /\ ByteBits * fpos \in Nat /\ ByteBits * fpos <= Len(file.bits)
  <2>1. fpos \in 0 .. Bytes  BY DEF IInv, TypeInv
  <2>2. pc = "reset"  BY DEF ResetBuf
  <2>3. file \in Files /\ posbits \in Nat /\ inbuf \in Seq({0, 1}) /\ Len(inbuf) \in Nat
      BY StateTypes DEF IInv
  <2>4. Bytes \in Nat /\ file.bits \in Seq({0, 1})  BY <2>3, FileTypes
  <2>5. fpos \in Nat /\ fpos <= Bytes  BY <2>1, <2>4
  <2>6. ByteBits \in Nat \ {0} /\ Extra \in Nat \ {0} /\ InBuf \in Nat  BY Constants
  <2>7. Len(file.bits) \in Nat /\ ByteBits * fpos \in Nat /\ ByteBits * fpos <= Len(file.bits)
      BY BufferIs
  <2> QED BY <2>2, <2>3, <2>4, <2>5, <2>6, <2>7
<1>2. ByteBits * (posbits \div ByteBits) = posbits
  <2>1. PICK m \in Nat : posbits = ByteBits * m  BY <1>1 DEF EndsInv
  <2>2. (m * ByteBits + 0) \div ByteBits = m
    <3>1. 0 \in Nat /\ 0 < ByteBits  BY <1>1
    <3> QED BY <1>1, <3>1, OneQuotient
  <2>3. posbits = m * ByteBits + 0  BY <1>1, <2>1
  <2> QED BY <2>1, <2>2, <2>3
<1> DEFINE rest == SubSeq(inbuf, posbits + 1, Len(inbuf))
<1>3. rest \in Seq({0, 1}) /\ Len(rest) \in Nat /\ (Len(inbuf) < posbits => Len(rest) = 0)
  <2>1. posbits + 1 \in Nat \ {0}  BY <1>1
  <2>2. rest \in Seq({0, 1})  BY <1>1, <2>1, PartType
  <2>3. Len(inbuf) < posbits => rest = <<>>  BY <1>1
  <2> HIDE DEF rest
  <2> QED BY <2>2, <2>3
<1>4. \/ /\ Len(rest) >= ByteBits * Extra
         /\ inbuf' = rest
         /\ UNCHANGED <<fpos, more>>
      \/ /\ Len(rest) < ByteBits * Extra
         /\ \E n \in 0 .. Least(InBuf, Bytes - fpos) :
               /\ n = 0 <=> fpos = Bytes
               /\ inbuf' = rest \o SubSeq(file.bits, ByteBits * fpos + 1, ByteBits * (fpos + n))
               /\ fpos' = fpos + n
               /\ more' = (n > 0)
    BY <1>2 DEF ResetBuf
<1> HIDE DEF rest
<1>5. ByteBits * Extra \in Nat /\ ByteBits * Extra # 0  BY <1>1, ProductType
<1>6. CASE Len(rest) >= ByteBits * Extra /\ inbuf' = rest /\ UNCHANGED <<fpos, more>>
  <2>1. SubSeq(file.bits, ByteBits * fpos + 1, ByteBits * (fpos + 0)) = <<>>
    <3> DEFINE x == ByteBits * fpos
               s == file.bits
    <3>1. ByteBits * (fpos + 0) = x /\ x \in Nat /\ s \in Seq({0, 1})  BY <1>1
    <3> HIDE DEF x, s
    <3>2. SubSeq(s, x + 1, x) = <<>>  BY <3>1
    <3> QED BY <3>1, <3>2 DEF x, s
  <2>2. rest \o <<>> = rest  BY <1>3
  <2>3. 0 \in Nat /\ fpos' = fpos + 0 /\ fpos + 0 <= Bytes  BY <1>1, <1>6
  <2>4. inbuf' = rest \o SubSeq(file.bits, ByteBits * fpos + 1, ByteBits * (fpos + 0))
      BY <1>6, <2>1, <2>2
  <2>5. ~more' => fpos' = Bytes  BY <1>6 DEF HeldInv
  <2>6. ~(Len(inbuf) < posbits)  BY <1>3, <1>5, <1>6
  <2> QED BY <2>3, <2>4, <2>5, <2>6 DEF rest
<1>7. ASSUME NEW n \in 0 .. Least(InBuf, Bytes - fpos),
             /\ n = 0 <=> fpos = Bytes
             /\ inbuf' = rest \o SubSeq(file.bits, ByteBits * fpos + 1, ByteBits * (fpos + n))
             /\ fpos' = fpos + n
             /\ more' = (n > 0)
      PROVE  /\ n \in Nat /\ fpos + n <= Bytes
             /\ ~more' => fpos' = Bytes
             /\ Len(inbuf) < posbits => ~more'
  <2>1. n \in Nat /\ fpos + n <= Bytes  BY <1>1 DEF Least
  <2>2. ~more' => n = 0
    <3>1. (n > 0) <=> n # 0  BY <2>1
    <3>2. more' <=> n # 0  BY <1>7, <3>1
    <3> QED BY <3>2
  <2>3. ~more' => fpos' = Bytes
    <3>1. n = 0 => fpos + n = Bytes  BY <1>1, <1>7
    <3> QED BY <1>7, <2>2, <3>1
  <2>4. Len(inbuf) < posbits => ~more'
    <3> SUFFICES ASSUME Len(inbuf) < posbits PROVE ~more'  OBVIOUS
    <3>1. ~more  BY <1>1 DEF EndsInv
    <3>2. fpos = Bytes  BY <3>1 DEF HeldInv
    <3>3. n = 0  BY <1>7, <3>2
    <3>4. (n > 0) = FALSE  BY <3>3
    <3>5. more' = FALSE  BY <1>7, <3>4
    <3> QED BY <3>5
  <2> QED BY <2>1, <2>3, <2>4
<1>8. CASE \E n \in 0 .. Least(InBuf, Bytes - fpos) :
               /\ n = 0 <=> fpos = Bytes
               /\ inbuf' = rest \o SubSeq(file.bits, ByteBits * fpos + 1, ByteBits * (fpos + n))
               /\ fpos' = fpos + n
               /\ more' = (n > 0)
  <2>1. PICK n \in 0 .. Least(InBuf, Bytes - fpos) :
               /\ n = 0 <=> fpos = Bytes
               /\ inbuf' = rest \o SubSeq(file.bits, ByteBits * fpos + 1, ByteBits * (fpos + n))
               /\ fpos' = fpos + n
               /\ more' = (n > 0)
      BY <1>8
  <2>2. n \in Nat /\ fpos + n <= Bytes /\ (~more' => fpos' = Bytes)
        /\ (Len(inbuf) < posbits => ~more')
      BY <1>7, <2>1
  <2> QED BY <2>1, <2>2 DEF rest
<1> QED BY <1>4, <1>6, <1>8

\* A part of the bits of the file.
LEMMA PartOfFile ==
    ASSUME Parameters, file \in Files, file.state # "damaged",
           NEW m \in Nat, NEW n \in Nat, m + n <= Bytes
    PROVE  LET part == SubSeq(file.bits, ByteBits * m + 1, ByteBits * (m + n))
           IN  /\ part \in Seq({0, 1}) /\ Len(part) = ByteBits * n
               /\ ByteBits * m \in Nat /\ ByteBits * n \in Nat
               /\ ByteBits * (m + n) = ByteBits * m + ByteBits * n
               /\ \A i \in 1 .. ByteBits * n : part[i] = file.bits[ByteBits * m + i]
<1> DEFINE bits == file.bits
           x    == ByteBits * m
           y    == ByteBits * n
           part == SubSeq(bits, x + 1, ByteBits * (m + n))
<1>1. ByteBits \in Nat /\ Bytes \in Nat /\ bits \in Seq({0, 1}) /\ Len(bits) = ByteBits * Bytes
    BY Constants, FileTypes, FormatIs
<1>2. x \in Nat /\ y \in Nat /\ ByteBits * (m + n) = x + y  BY <1>1, ProductType
<1>3. x + y <= Len(bits)
  <2>1. m + n \in Nat  OBVIOUS
  <2>2. ByteBits * (m + n) <= ByteBits * Bytes  BY <1>1, <2>1, ProductType
  <2> QED BY <1>1, <1>2, <2>2
<1>4. part = SubSeq(bits, x + 1, x + y)  BY <1>2
<1> HIDE DEF part, x, y, bits
<1>5. Len(bits) \in Nat  BY <1>1
<1>6. SubSeq(bits, x + 1, x + y) = [i \in 1 .. y |-> bits[x + i]]
  <2>1. bits \in Seq({0, 1}) /\ x \in Nat /\ y \in Nat  BY <1>1, <1>2
  <2> QED BY <2>1, <1>3, PartAt, SMTT(30)
<1>7. part \in Seq({0, 1})
  <2>1. x + 1 \in Nat \ {0} /\ x + y \in Nat  BY <1>2
  <2> QED BY <1>1, <1>3, <1>4, <2>1, PartType
<1>8. Len(part) = y /\ \A i \in 1 .. y : part[i] = bits[x + i]
  <2>1. DOMAIN part = 1 .. y  BY <1>4, <1>6
  <2>2. DOMAIN part = 1 .. Len(part) /\ Len(part) \in Nat  BY <1>7
  <2>3. Len(part) = y  BY <1>2, <2>1, <2>2
  <2>4. \A i \in 1 .. y : part[i] = bits[x + i]  BY <1>4, <1>6
  <2> QED BY <2>3, <2>4
<1> QED BY <1>2, <1>7, <1>8 DEF part, x, y, bits

\* The bits that were taken are left behind, and inbuf begins with the next one, while there
\* is one.
LEMMA Refilled ==
    ASSUME Parameters, IInv, file.state # "damaged", HeldInv, ResetBuf, posbits <= Len(inbuf),
           NEW n \in Nat, fpos' = fpos + n, fpos + n <= Bytes,
           inbuf' = SubSeq(inbuf, posbits + 1, Len(inbuf))
                        \o SubSeq(file.bits, ByteBits * fpos + 1, ByteBits * (fpos + n)),
           ~more' => fpos' = Bytes
    PROVE  HeldInv' /\ Offset' = Bit /\ Bit' = Bit
<1>1. /\ file' = file /\ posbits' = 0 /\ file \in Files
      /\ posbits \in Nat /\ inbuf \in Seq({0, 1}) /\ Len(inbuf) \in Nat
  <2>1. file' = file /\ posbits' = 0  BY DEF ResetBuf
  <2> QED BY <2>1, StateTypes DEF IInv
<1>2. /\ Offset \in Int /\ Bit \in Nat /\ fpos \in Nat
      /\ Offset + Len(inbuf) = ByteBits * fpos
    BY BufferIs
<1> DEFINE u    == inbuf
           bits == file.bits
           l    == Len(u)
           rest == SubSeq(u, posbits + 1, l)
           part == SubSeq(bits, ByteBits * fpos + 1, ByteBits * (fpos + n))
           x    == ByteBits * fpos
           y    == ByteBits * n
           all  == rest \o part
<1>3. /\ part \in Seq({0, 1}) /\ Len(part) = y /\ x \in Nat /\ y \in Nat
      /\ ByteBits * (fpos + n) = x + y
      /\ \A i \in 1 .. y : part[i] = bits[x + i]
    BY <1>1, <1>2, PartOfFile
<1>4. /\ \A b \in 1 .. l : Offset + b >= 1 => u[b] = bits[Offset + b]
    BY DEF HeldInv
<1>5. l \in Nat /\ u \in Seq({0, 1}) /\ posbits <= l /\ Offset + l = x /\ Bit = Offset + posbits
    BY <1>1, <1>2 DEF Bit
<1>6. inbuf' = all /\ fpos' = fpos + n  OBVIOUS
<1> HIDE DEF part, x, y, bits, u, l
<1>7. /\ rest \in Seq({0, 1}) /\ Len(rest) = l - posbits
      /\ \A i \in 1 .. l - posbits : rest[i] = u[posbits + i]
  <2>1. l = Len(u)  BY DEF l
  <2>2. posbits + 1 \in Nat \ {0} /\ posbits + 1 <= l + 1  BY <1>1, <1>5
  <2>3. rest \in Seq({0, 1}) /\ Len(rest) = l - (posbits + 1) + 1
      BY <1>5, <2>1, <2>2, PartType
  <2>4. l - (posbits + 1) + 1 = l - posbits  BY <1>1, <1>5
  <2>5. rest = [i \in 1 .. l - posbits |-> u[posbits + i]]  BY <1>1, <1>5, <2>1, <2>4
  <2> QED BY <2>3, <2>4, <2>5
<1> HIDE DEF rest
<1>8. /\ Len(all) = (l - posbits) + y
      /\ \A i \in 1 .. l - posbits : all[i] = rest[i]
      /\ \A i \in 1 .. y : all[(l - posbits) + i] = part[i]
  <2>1. rest \in Seq({0, 1}) /\ part \in Seq({0, 1})  BY <1>3, <1>7
  <2>2. /\ Len(rest \o part) = Len(rest) + Len(part)
        /\ \A i \in 1 .. Len(rest) : (rest \o part)[i] = rest[i]
        /\ \A i \in 1 .. Len(part) : (rest \o part)[Len(rest) + i] = part[i]
      BY <2>1, ConcatIs
  <2>3. Len(rest) = l - posbits /\ Len(part) = y  BY <1>3, <1>7
  <2> QED BY <2>2, <2>3
<1>9. Offset' = Bit
  <2>1. Offset' = (x + y) - Len(all)
    <3>1. Offset' = ByteBits * fpos' - Len(inbuf')  BY DEF Offset
    <3> QED BY <1>3, <1>6, <3>1
  <2>2. (x + y) - ((l - posbits) + y) = Bit  BY <1>1, <1>2, <1>3, <1>5
  <2> QED BY <1>8, <2>1, <2>2
<1>10. Bit' = Bit
  <2>1. Bit' = Bit + 0  BY <1>1, <1>9 DEF Bit
  <2> QED BY <1>2, <2>1
<1>11. ASSUME NEW b \in 1 .. Len(all), Bit + b >= 1 PROVE all[b] = bits[Bit + b]
  <2>1. CASE b <= l - posbits
    <3>1. b \in 1 .. l - posbits /\ posbits + b \in 1 .. l
          /\ Offset + (posbits + b) = Bit + b /\ Offset + (posbits + b) >= 1
        BY <1>1, <1>2, <1>3, <1>5, <1>8, <1>11, <2>1
    <3>2. all[b] = u[posbits + b]  BY <1>7, <1>8, <3>1
    <3>3. u[posbits + b] = bits[Offset + (posbits + b)]  BY <1>4, <3>1
    <3> QED BY <3>1, <3>2, <3>3
  <2>2. CASE b > l - posbits
    <3> DEFINE j == b - (l - posbits)
    <3>1. j \in 1 .. y /\ (l - posbits) + j = b /\ x + j = Bit + b
        BY <1>1, <1>2, <1>3, <1>5, <1>8, <2>2
    <3> HIDE DEF j, all
    <3>2. all[b] = part[j]  BY <1>8, <3>1
    <3> QED BY <1>3, <3>1, <3>2
  <2>3. b \in Int /\ l - posbits \in Int  BY <1>1, <1>3, <1>5, <1>8
  <2> QED BY <2>1, <2>2, <2>3
<1> HIDE DEF all
<1>12. HeldInv'
  <2>1. \A b \in 1 .. Len(inbuf') : Offset' + b >= 1 => inbuf'[b] = file'.bits[Offset' + b]
      BY <1>1, <1>6, <1>9, <1>11 DEF bits
  <2>2. Bit' >= 0 /\ Offset' >= 0  BY <1>2, <1>9, <1>10
  <2>3. Bytes' = Bytes  BY <1>1 DEF Bytes
  <2> QED BY <2>1, <2>2, <2>3 DEF HeldInv
<1> QED BY <1>9, <1>10, <1>12

\* inbuf has what follows, or the file has ended where a group was skipped.
LEMMA FormatResetBuf == ASSUME Parameters, IInv, FormatInv, ResetBuf PROVE FormatInv'
<1>1. /\ pc = "reset" /\ pc' = "code" /\ posbits' = 0
      /\ UNCHANGED <<file, nbits, maxcode, freeEnt, table, oldcode, finchar, outbuf, out>>
      /\ inbits' = IF more' THEN Len(inbuf') - (Len(inbuf') % (ByteBits * nbits))
                            ELSE Len(inbuf') - (nbits - 1)
    BY DEF ResetBuf, widthVars, tableVars
<1> SUFFICES ASSUME file.state # "damaged" PROVE FormatInv'
    BY <1>1 DEF FormatInv
<1>2. HeldInv /\ EndsInv  BY DEF FormatInv
<1>3. PICK k \in 1 .. Count + 1 : Progress(k)  BY DEF FormatInv
<1>4. /\ posbits \in Nat /\ nbits \in Nat \ {0} /\ Len(inbuf) \in Nat /\ file \in Files
      /\ ByteBits \in Nat /\ Group \in Nat \ {0} /\ Offset \in Int /\ Bit \in Nat
      /\ Len(file.bits) \in Nat /\ file.bits \in Seq({0, 1}) /\ inbuf \in Seq({0, 1})
    BY <1>2, StateTypes, Constants, BufferIs, FileTypes DEF IInv
<1>5. PICK n \in Nat :
         /\ fpos' = fpos + n /\ fpos + n <= Bytes
         /\ inbuf' = SubSeq(inbuf, posbits + 1, Len(inbuf))
                       \o SubSeq(file.bits, ByteBits * fpos + 1, ByteBits * (fpos + n))
         /\ ~more' => fpos' = Bytes
         /\ Len(inbuf) < posbits => ~more'
    BY <1>2, RefillIs
<1>6. /\ Count' = Count /\ Group' = Group
      /\ \A i : Place(i)' = Place(i) /\ IsClear(file, i)' = IsClear(file, i)
    BY <1>1, PlacesStay DEF Group
<1>7. OutputOf(k)' /\ TableOf(k)' /\ LastOf(k)'
    BY <1>1, <1>3, DataStays DEF Progress
<1>8. Ahead(k) \/ Pending(k)  BY <1>1, <1>3 DEF Progress, Lost
<1>9. EndsInv'
  <2> SUFFICES ASSUME more' PROVE posbits' <= inbits' /\ \E m \in Nat : inbits' = m * Group'
      BY <1>1 DEF EndsInv
  <2> DEFINE l == Len(inbuf')
             q == l \div Group
             r == l % Group
  <2>1. l \in Nat
    <3>1. IInv'  BY ResetBufKeeps
    <3>2. inbuf' \in Seq({0, 1})  BY <3>1 DEF IInv, TypeInv
    <3> QED BY <3>2
  <2>2. inbits' = l - r  BY <1>1 DEF Group
  <2> HIDE DEF l
  <2>3. q \in Nat /\ r \in Nat /\ l = Group * q + r  BY <1>4, <2>1, Division
  <2> HIDE DEF q, r
  <2>4. Group * q = q * Group /\ q * Group \in Nat  BY <1>4, <2>3, ProductType
  <2>5. l - r = q * Group /\ 0 <= q * Group  BY <2>1, <2>3, <2>4
  <2> QED BY <1>1, <1>6, <2>2, <2>3, <2>5
<1>10. CASE posbits <= Len(inbuf)
  <2>1. HeldInv' /\ Offset' = Bit /\ Bit' = Bit
      BY <1>2, <1>5, <1>10, Refilled
  <2>2. ASSUME NEW base, InGroup(base) PROVE \E m \in Nat : Offset' = base + m * Group'
      BY <1>1, <1>6, <2>1, <2>2 DEF InGroup
  <2>3. Ahead(k) => Ahead(k)'
    <3> SUFFICES ASSUME Ahead(k) PROVE Ahead(k)'  OBVIOUS
    <3>1. \E m \in Nat : Offset' = Place(k)'.base + m * Group'  BY <1>6, <2>2 DEF Ahead
    <3>2. InGroup(Place(k).base)'  BY <1>1, <3>1 DEF InGroup
    <3> QED BY <1>1, <1>6, <2>1, <3>2 DEF Ahead
  <2>4. Pending(k) => Pending(k)'
    <3> SUFFICES ASSUME Pending(k) PROVE Pending(k)'  OBVIOUS
    <3>1. \E m \in Nat : Offset' = Place(k - 1)'.base + m * Group'  BY <1>6, <2>2 DEF Pending
    <3>2. InGroup(Place(k - 1).base)'  BY <1>1, <3>1 DEF InGroup
    <3> QED BY <1>1, <1>6, <2>1, <3>2 DEF Pending
  <2>5. Progress(k)'  BY <1>1, <1>7, <1>8, <2>3, <2>4 DEF Progress
  <2> QED BY <1>1, <1>6, <1>9, <2>1, <2>5 DEF FormatInv
<1>11. CASE Len(inbuf) < posbits
  <2>1. ~more /\ ~more'  BY <1>1, <1>2, <1>4, <1>5, <1>11 DEF EndsInv
  <2>2. /\ fpos = Bytes /\ Offset + Len(inbuf) = Len(file.bits) /\ fpos' = Bytes
        /\ fpos \in Nat /\ ByteBits * fpos = Len(file.bits)
      BY <1>2, <1>5, <2>1, BufferIs DEF HeldInv
  <2>3. n = 0  BY <1>5, <2>2
  <2>4. inbuf' = <<>>
    <3> DEFINE x == ByteBits * fpos
               s == file.bits
    <3>1. SubSeq(inbuf, posbits + 1, Len(inbuf)) = <<>>  BY <1>4, <1>11
    <3>2. ByteBits * (fpos + n) = x /\ x \in Nat /\ s \in Seq({0, 1})  BY <1>4, <2>2, <2>3
    <3>3. inbuf' = SubSeq(inbuf, posbits + 1, Len(inbuf)) \o SubSeq(s, x + 1, x)
        BY <1>5, <3>2
    <3> HIDE DEF x, s
    <3>4. SubSeq(s, x + 1, x) = <<>>  BY <3>2
    <3> QED BY <3>1, <3>3, <3>4
  <2>5. Offset' = Len(file.bits) /\ Bit' = Len(file.bits)
    <3>1. Len(inbuf') = 0  BY <2>4
    <3>2. Offset' = ByteBits * fpos - 0  BY <2>2, <3>1 DEF Offset
    <3>3. Bit' = (ByteBits * fpos - 0) + 0  BY <1>1, <3>2 DEF Bit
    <3> QED BY <1>4, <2>2, <3>2, <3>3
  <2>6. HeldInv'
    <3>1. 1 .. Len(inbuf') = {}  BY <2>4
    <3>2. Bytes' = Bytes  BY <1>1 DEF Bytes
    <3>3. Bit' >= 0 /\ Offset' >= 0  BY <1>4, <2>5
    <3> QED BY <2>2, <3>1, <3>2, <3>3 DEF HeldInv
  <2>7. Ahead(k)  BY <1>1, <1>8, <2>1 DEF Pending
  <2>8. Len(file.bits) < Place(k).bit
    <3>1. Bit = Offset + posbits  BY DEF Bit
    <3>2. Len(file.bits) < Bit  BY <1>4, <1>11, <2>2, <3>1
    <3> QED BY <2>7, <3>2 DEF Ahead
  <2>9. inbits' <= posbits'
    <3>1. inbits' = 0 - (nbits - 1)  BY <1>1, <2>1, <2>4
    <3>2. 0 - (nbits - 1) <= 0  BY <1>4
    <3> QED BY <1>1, <3>1, <3>2
  <2>10. Lost(k)'  BY <1>1, <1>6, <2>1, <2>8, <2>9 DEF Lost
  <2>11. Progress(k)'  BY <1>1, <1>7, <2>10 DEF Progress
  <2> QED BY <1>1, <1>6, <1>9, <2>6, <2>11 DEF FormatInv
<1> QED BY <1>4, <1>10, <1>11

\* When nothing changes, the invariant holds on.
LEMMA FormatStutter == ASSUME FormatInv, UNCHANGED vars PROVE FormatInv'
<1>1. UNCHANGED <<file, pc, fpos, inbuf, posbits, inbits, more, nbits, maxcode, freeEnt, table,
                  oldcode, finchar, outbuf, out>>
    BY DEF vars, inVars, widthVars, tableVars
<1> SUFFICES ASSUME file.state # "damaged" PROVE FormatInv'
    BY <1>1 DEF FormatInv
<1>2. HeldInv /\ EndsInv /\ pc \notin {"corrupt", "error"}  BY DEF FormatInv
<1>3. PICK k \in 1 .. Count + 1 : Progress(k)  BY DEF FormatInv
<1>4. /\ Offset' = Offset /\ Bit' = Bit /\ Group' = Group /\ Count' = Count /\ Bytes' = Bytes
      /\ \A i : Place(i)' = Place(i) /\ IsClear(file, i)' = IsClear(file, i)
    BY <1>1, PlacesStay DEF Offset, Bit, Group
<1>5. HeldInv' /\ EndsInv'  BY <1>1, <1>2, <1>4 DEF HeldInv, EndsInv
<1>6. OutputOf(k)' /\ TableOf(k)' /\ LastOf(k)'
    BY <1>1, <1>3, DataStays DEF Progress
<1>7. /\ Ahead(k) => Ahead(k)'
      /\ Pending(k) => Pending(k)'
      /\ Lost(k) => Lost(k)'
  <2>1. Ahead(k) => Ahead(k)'  BY <1>1, <1>4 DEF Ahead, InGroup
  <2>2. Pending(k) => Pending(k)'  BY <1>1, <1>4 DEF Pending, InGroup
  <2>3. Lost(k) => Lost(k)'  BY <1>1, <1>4 DEF Lost
  <2> QED BY <2>1, <2>2, <2>3
<1>8. Progress(k)'  BY <1>1, <1>3, <1>4, <1>6, <1>7 DEF Progress
<1> QED BY <1>1, <1>2, <1>4, <1>5, <1>8 DEF FormatInv

\* The invariant of the files that are not damaged holds forever.
LEMMA FormatInvHolds == ASSUME Parameters PROVE Spec => []FormatInv
<1>1. Init => FormatInv
    BY FormatStart
<1>2. IInv /\ FormatInv /\ [Next]_vars => FormatInv'
  <2> SUFFICES ASSUME IInv, FormatInv, [Next]_vars PROVE FormatInv'
      OBVIOUS
  <2>1. CASE Start      BY <2>1, FormatStarts
  <2>2. CASE ResetBuf   BY <2>2, FormatResetBuf
  <2>3. CASE Exhausted  BY <2>3, FormatExhausted
  <2>4. CASE Widen      BY <2>4, FormatWiden
  <2>5. CASE FirstCode  BY <2>5, FormatFirstCode
  <2>6. CASE Clear      BY <2>6, FormatClear
  <2>7. CASE Entry      BY <2>7, FormatEntry
  <2>8. CASE Corrupt    BY <2>8, FormatCorrupt
  <2>9. CASE UNCHANGED vars  BY <2>9, FormatStutter
  <2> QED BY <2>1, <2>2, <2>3, <2>4, <2>5, <2>6, <2>7, <2>8, <2>9 DEF Next
<1>3. Spec => []IInv
    BY IInvHolds
<1> QED BY <1>1, <1>2, <1>3, PTL DEF Spec

\* What comes out is what was compressed, however the file is read and wherever codes
\* become wider or the table is cleared: a beginning of it, and all of it at the end when
\* nothing of the file is missing (unlzw.c:181).
THEOREM TextComesBack == ASSUME Parameters PROVE Spec => []OutputIsText
<1>1. IInv /\ FormatInv => OutputIsText
  <2> SUFFICES ASSUME IInv, FormatInv, file.state # "damaged"
               PROVE  /\ IsPrefix(out \o outbuf, Text) /\ pc # "corrupt"
                      /\ file.state = "whole" /\ pc = "done" => out = Text
    <3>1. file.state = "whole" => file.state # "damaged"  OBVIOUS
    <3> QED BY <3>1 DEF OutputIsText
  <2>1. pc # "corrupt"  BY DEF FormatInv
  <2>2. PICK k \in 1 .. Count + 1 : Progress(k)  BY DEF FormatInv
  <2>3. /\ Count \in Nat /\ file.strings \in Seq(Seq(Character)) /\ Len(file.strings) = Count
    <3>1. file \in Files  BY DEF IInv, TypeInv
    <3> QED BY <3>1, FormatIs
  <2>4. out \o outbuf = Joined(file.strings)[k - 1]
      BY <2>2 DEF Progress, OutputOf
  <2>5. IsPrefix(out \o outbuf, Text)
    <3>1. k - 1 \in 0 .. Len(file.strings)  BY <2>3
    <3>2. IsPrefix(Joined(file.strings)[k - 1], Joined(file.strings)[Len(file.strings)])
        BY <2>3, <3>1, JoinedPrefix
    <3> QED BY <2>4, <3>2 DEF Text
  <2>6. ASSUME file.state = "whole", pc = "done" PROVE out = Text
    <3>1. k = Count + 1 /\ outbuf = <<>>  BY <2>2, <2>6 DEF Progress, OutputOf
    <3>2. k - 1 = Len(file.strings)  BY <2>3, <3>1
    <3>3. out \in Seq(Character)  BY DEF IInv, TypeInv
    <3>4. out \o <<>> = out  BY <3>3
    <3> QED BY <2>4, <3>1, <3>2, <3>4 DEF Text
  <2> QED BY <2>1, <2>5, <2>6
<1> QED BY <1>1, IInvHolds, FormatInvHolds, PTL
=============================================================================
