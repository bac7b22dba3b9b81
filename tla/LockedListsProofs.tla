------------------------- MODULE LockedListsProofs --------------------------
(***************************************************************************)
(* Proofs about the two lists of parallel.c that a pair of semaphores       *)
(* guards, the pool of spaces and the queue of jobs, for any number of      *)
(* threads, spaces and jobs.  They share the argument: one semaphore counts *)
(* what is on the list together with the claims of the threads on their way, *)
(* and the other keeps all but one thread from it.                          *)
(*                                                                         *)
(* PoolInv adds to the properties of SpacePool what "safe" stands for and   *)
(* what the local variable "space" points to at each place of get_space and *)
(* drop_space.  QueueInv adds to those of JobQueue what "use" stands for,   *)
(* how "closed" goes with the place of the reader, and that a consumer still *)
(* sees the list it has read.                                               *)
(***************************************************************************)
EXTENDS SpacePool, JobQueue, FiniteSetTheorems, SequenceTheorems, TLAPS

-----------------------------------------------------------------------------
(* The pool of spaces.                                                      *)

(* Taking the first space off a list without repetitions.                   *)
LEMMA TailOfList ==
    ASSUME NEW S, NEW q \in Seq(S), q # <<>>, Distinct(q)
    PROVE  /\ Tail(q) \in Seq(S)
           /\ Len(Tail(q)) = Len(q) - 1
           /\ Distinct(Tail(q))
           /\ SpacesOf(Tail(q)) = SpacesOf(q) \ {Head(q)}
           /\ Head(q) \in SpacesOf(q)
           /\ Head(q) \in S
<1> DEFINE r == Tail(q)
<1>1. Len(q) \in Nat \ {0} /\ DOMAIN q = 1 .. Len(q)
  BY LenProperties, EmptySeq
<1>2. r \in Seq(S) /\ Len(r) = Len(q) - 1 /\ Head(q) \in S
      /\ \A i \in 1 .. Len(r) : r[i] = q[i + 1]
  BY HeadTailProperties
<1>3. DOMAIN r = 1 .. Len(q) - 1
  BY <1>2, LenProperties
<1>4. Head(q) = q[1]
  BY <1>1
<1>5. Distinct(r)
  <2> SUFFICES ASSUME NEW i \in DOMAIN r, NEW j \in DOMAIN r, r[i] = r[j]
               PROVE  i = j
    BY DEF Distinct
  <2>1. i + 1 \in DOMAIN q /\ j + 1 \in DOMAIN q /\ i \in Int /\ j \in Int
    BY <1>1, <1>3
  <2>2. q[i + 1] = q[j + 1]
    BY <1>2, <1>3
  <2>3. i + 1 = j + 1
    BY <2>1, <2>2 DEF Distinct
  <2> QED
    BY <2>1, <2>3
<1>6. SpacesOf(r) = SpacesOf(q) \ {Head(q)}
  <2>1. ASSUME NEW x \in SpacesOf(r)
        PROVE  x \in SpacesOf(q) \ {Head(q)}
    <3>1. PICK i \in DOMAIN r : x = r[i]
      BY <2>1 DEF SpacesOf
    <3>2. x = q[i + 1] /\ i + 1 \in DOMAIN q /\ i + 1 # 1 /\ 1 \in DOMAIN q
      BY <3>1, <1>1, <1>2, <1>3
    <3>3. x # q[1]
      BY <3>2 DEF Distinct
    <3> QED
      BY <3>2, <3>3, <1>4 DEF SpacesOf
  <2>2. ASSUME NEW x \in SpacesOf(q) \ {Head(q)}
        PROVE  x \in SpacesOf(r)
    <3>1. PICK i \in DOMAIN q : x = q[i]
      BY <2>2 DEF SpacesOf
    <3>2. i # 1
      BY <3>1, <2>2, <1>4
    <3>3. i - 1 \in DOMAIN r /\ r[i - 1] = q[i]
      BY <3>1, <3>2, <1>1, <1>2, <1>3
    <3> QED
      BY <3>1, <3>3 DEF SpacesOf
  <2> QED
    BY <2>1, <2>2
<1>7. Head(q) \in SpacesOf(q)
  BY <1>1, <1>4 DEF SpacesOf
<1> QED
  BY <1>2, <1>5, <1>6, <1>7

(* Linking a space that is not in the list in front of it.                  *)
LEMMA ConsOfList ==
    ASSUME NEW S, NEW q \in Seq(S), Distinct(q), NEW s \in S, s \notin SpacesOf(q)
    PROVE  /\ <<s>> \o q \in Seq(S)
           /\ <<s>> \o q # <<>>
           /\ Len(<<s>> \o q) = Len(q) + 1
           /\ Head(<<s>> \o q) = s
           /\ Distinct(<<s>> \o q)
           /\ SpacesOf(<<s>> \o q) = SpacesOf(q) \cup {s}
<1> DEFINE r == <<s>> \o q
<1>1. Len(q) \in Nat /\ DOMAIN q = 1 .. Len(q)
  BY LenProperties
<1>2. <<s>> \in Seq(S) /\ Len(<<s>>) = 1 /\ <<s>>[1] = s
  OBVIOUS
<1>3. r \in Seq(S) /\ Len(r) = Len(q) + 1
      /\ \A i \in 1 .. Len(q) + 1 : r[i] = IF i <= 1 THEN s ELSE q[i - 1]
  BY <1>1, <1>2, ConcatProperties
<1> HIDE DEF r
<1>4. DOMAIN r = 1 .. Len(q) + 1
  BY <1>3, LenProperties
<1>5. r # <<>> /\ Head(r) = s
  BY <1>1, <1>3, <1>4
<1>6. Distinct(r)
  <2> SUFFICES ASSUME NEW i \in DOMAIN r, NEW j \in DOMAIN r, r[i] = r[j], i # j
               PROVE  FALSE
    BY DEF Distinct
  <2>1. i \in Int /\ j \in Int /\ i >= 1 /\ j >= 1
    BY <1>4
  <2>2. CASE i = 1
    <3>1. j - 1 \in DOMAIN q /\ q[j - 1] = s
      BY <2>1, <2>2, <1>1, <1>3, <1>4
    <3> QED
      BY <3>1 DEF SpacesOf
  <2>3. CASE j = 1
    <3>1. i - 1 \in DOMAIN q /\ q[i - 1] = s
      BY <2>1, <2>3, <1>1, <1>3, <1>4
    <3> QED
      BY <3>1 DEF SpacesOf
  <2>4. CASE i # 1 /\ j # 1
    <3>1. /\ i - 1 \in DOMAIN q /\ r[i] = q[i - 1]
          /\ j - 1 \in DOMAIN q /\ r[j] = q[j - 1]
      BY <2>1, <2>4, <1>1, <1>3, <1>4
    <3>2. i - 1 = j - 1
      BY <3>1 DEF Distinct
    <3> QED
      BY <3>2, <2>1
  <2> QED
    BY <2>2, <2>3, <2>4
<1>7. SpacesOf(r) = SpacesOf(q) \cup {s}
  <2>1. ASSUME NEW x \in SpacesOf(r)
        PROVE  x \in SpacesOf(q) \cup {s}
    <3>1. PICK i \in DOMAIN r : x = r[i]
      BY <2>1 DEF SpacesOf
    <3>2. CASE i = 1
      BY <3>1, <3>2, <1>1, <1>3
    <3>3. CASE i # 1
      <4>1. i - 1 \in DOMAIN q /\ x = q[i - 1]
        BY <3>1, <3>3, <1>1, <1>3, <1>4
      <4> QED
        BY <4>1 DEF SpacesOf
    <3> QED
      BY <3>2, <3>3
  <2>2. ASSUME NEW x \in SpacesOf(q)
        PROVE  x \in SpacesOf(r)
    <3>1. PICK i \in DOMAIN q : x = q[i]
      BY <2>2 DEF SpacesOf
    <3>2. i + 1 \in DOMAIN r /\ r[i + 1] = x
      BY <3>1, <1>1, <1>3, <1>4
    <3> QED
      BY <3>2 DEF SpacesOf
  <2>3. s \in SpacesOf(r)
    <3>1. 1 \in DOMAIN r /\ r[1] = s
      BY <1>1, <1>3, <1>4
    <3> QED
      BY <3>1 DEF SpacesOf
  <2> QED
    BY <2>1, <2>2, <2>3
<1> QED
  BY <1>3, <1>5, <1>6, <1>7 DEF r

-----------------------------------------------------------------------------
(* "safe" is taken exactly when a thread works on the list.                 *)
SafeSemaphore == safe \in {0, 1} /\ (safe = 1 => InPool = {})

Dropping(t) == at[t] \in {"drop_safe", "drop_link", "drop_head"}

(* What the local variable "space" is at each place.                        *)
ChainOf(t) ==
    /\ at[t] \in {"idle", "get_have", "get_safe", "get_read"} => chain[t] = <<>>
    /\ at[t] = "get_unlink" => chain[t] = freeList
    /\ Dropping(t) => Head(chain[t]) \in lent
    /\ at[t] \in {"drop_safe", "drop_link"} => chain[t] = <<Head(chain[t])>>
    /\ at[t] = "drop_head" => chain[t] = <<Head(chain[t])>> \o freeList

(* No two threads give back the same space.                                 *)
OneDropPerSpace == \A t, u \in User :
    Dropping(t) /\ Dropping(u) /\ t # u => Head(chain[t]) # Head(chain[u])

PoolInv == /\ PoolTypeOK
           /\ SafeSemaphore
           /\ PoolExclusion
           /\ HaveAccounts
           /\ NoSpaceLostOrShared
           /\ \A t \in User : ChainOf(t)
           /\ OneDropPerSpace

(* A set of threads at given places is finite, and a thread in it counts.   *)
LEMMA SpaceClaimsFinite ==
    /\ IsFiniteSet(SpaceClaims) /\ IsFiniteSet(Unposted)
    /\ Cardinality(SpaceClaims) \in Nat /\ Cardinality(Unposted) \in Nat
    /\ \A t \in SpaceClaims : Cardinality(SpaceClaims) >= 1
<1>1. IsFiniteSet(User)
  BY PoolAssumption
<1>2. SpaceClaims \in SUBSET User /\ Unposted \in SUBSET User
  BY DEF SpaceClaims, Unposted
<1>3. IsFiniteSet(SpaceClaims) /\ IsFiniteSet(Unposted)
  BY <1>1, <1>2, FS_Subset
<1>4. Cardinality(SpaceClaims) \in Nat /\ Cardinality(Unposted) \in Nat
  BY <1>3, FS_CardinalityType
<1>5. ASSUME NEW t \in SpaceClaims
      PROVE  Cardinality(SpaceClaims) >= 1
  BY <1>3, <1>4, FS_EmptySet
<1> QED
  BY <1>3, <1>4, <1>5

(* The heart of the pool: a thread that took a unit of "have" and holds     *)
(* "safe" finds a space in the list.                                        *)
LEMMA ClaimMeansSpace ==
    ASSUME PoolTypeOK, HaveAccounts, NEW t \in SpaceClaims
    PROVE  freeList # <<>>
<1>1. Cardinality(SpaceClaims) >= 1 /\ Cardinality(SpaceClaims) \in Nat
      /\ Cardinality(Unposted) \in Nat
  BY SpaceClaimsFinite
<1>2. have \in Nat /\ have + Cardinality(SpaceClaims) + Cardinality(Unposted) = Len(freeList)
  BY DEF PoolTypeOK, HaveAccounts
<1>3. Len(freeList) >= 1
  BY <1>1, <1>2
<1> QED
  BY <1>3, EmptySeq

LEMMA PoolStarts == PoolInit => PoolInv
<1> SUFFICES ASSUME PoolInit PROVE PoolInv
  OBVIOUS
<1> DEFINE n == Cardinality(Space)
<1>1. n \in Nat
  BY PoolAssumption, FS_CardinalityType
<1>2. freeList \in [1 .. n -> Space] /\ Distinct(freeList)
  BY DEF PoolInit
<1>3. freeList \in Seq(Space) /\ DOMAIN freeList = 1 .. n /\ Len(freeList) = n
  BY <1>1, <1>2
<1>4. PoolTypeOK
  BY <1>1, <1>3 DEF PoolInit, PoolTypeOK, PoolPlaces
<1>5. InPool = {} /\ SpaceClaims = {} /\ Unposted = {}
  BY DEF PoolInit, InPool, SpaceClaims, Unposted
<1>6. HaveAccounts
  BY <1>1, <1>3, <1>5, FS_EmptySet DEF PoolInit, HaveAccounts
<1>7. SpacesOf(freeList) = Space
  <2>1. IsFiniteSet(SpacesOf(freeList)) /\ SpacesOf(freeList) \subseteq Space
    <3>1. SpacesOf(freeList) \subseteq Space
      BY <1>2, <1>3 DEF SpacesOf
    <3> QED
      BY <3>1, PoolAssumption, FS_Subset
  <2>2. freeList \in Bijection(1 .. n, SpacesOf(freeList))
    <3>1. freeList \in Injection(1 .. n, SpacesOf(freeList))
      BY <1>2, <1>3 DEF Distinct, SpacesOf, Injection, IsInjective
    <3>2. freeList \in Surjection(1 .. n, SpacesOf(freeList))
      BY <1>2, <1>3 DEF SpacesOf, Surjection
    <3> QED
      BY <3>1, <3>2 DEF Bijection
  <2>3. Cardinality(SpacesOf(freeList)) = n
    BY <1>1, <2>2, FS_CountingElements DEF ExistsBijection
  <2> QED
    BY <2>1, <2>3, PoolAssumption, FS_Subset
<1>8. NoSpaceLostOrShared
  BY <1>2, <1>7 DEF PoolInit, NoSpaceLostOrShared
<1>9. SafeSemaphore /\ PoolExclusion
  BY <1>5 DEF PoolInit, SafeSemaphore, PoolExclusion
<1>10. (\A t \in User : ChainOf(t)) /\ OneDropPerSpace
  BY DEF PoolInit, ChainOf, OneDropPerSpace, Dropping
<1> QED
  BY <1>4, <1>6, <1>8, <1>9, <1>10 DEF PoolInv


(* Every step of a thread preserves the invariant.                          *)
LEMMA PoolSteps == PoolInv /\ [PoolNext]_poolVars => PoolInv'
<1> SUFFICES ASSUME PoolInv, [PoolNext]_poolVars PROVE PoolInv'
  OBVIOUS
<1> USE DEF PoolInv
<1>f. /\ IsFiniteSet(SpaceClaims) /\ IsFiniteSet(Unposted)
      /\ Cardinality(SpaceClaims) \in Nat /\ Cardinality(Unposted) \in Nat
  BY SpaceClaimsFinite
<1>n. /\ Len(freeList) \in Nat /\ have \in Nat
      /\ have + Cardinality(SpaceClaims) + Cardinality(Unposted) = Len(freeList)
  BY LenProperties DEF PoolTypeOK, HaveAccounts
<1>p. /\ freeList \in Seq(Space) /\ chain \in [User -> Seq(Space)]
      /\ at \in [User -> PoolPlaces] /\ lent \subseteq Space
  BY DEF PoolTypeOK
<1>1. ASSUME NEW t \in User, GetCall(t)
      PROVE  PoolInv'
  <2> USE <1>1
  <2>s. InPool' = InPool
    BY <1>p DEF GetCall, Proceed, InPool, PoolPlaces
  <2>c. SpaceClaims' = SpaceClaims
    BY <1>p DEF GetCall, Proceed, SpaceClaims, PoolPlaces
  <2>u. Unposted' = Unposted
    BY <1>p DEF GetCall, Proceed, Unposted, PoolPlaces
  <2>1. PoolTypeOK'
    BY <1>p, EmptySeq DEF GetCall, Proceed, PoolTypeOK, PoolPlaces
  <2>2. SafeSemaphore' /\ PoolExclusion'
    BY <1>p, <2>s DEF GetCall, Proceed, SafeSemaphore, PoolExclusion, InPool
  <2>3. HaveAccounts'
    BY <1>f, <1>n, <2>c, <2>u DEF GetCall, Proceed, HaveAccounts
  <2>4. NoSpaceLostOrShared'
    BY <1>p, <1>n DEF GetCall, Proceed, NoSpaceLostOrShared
  <2>5. ASSUME NEW v \in User
        PROVE  ChainOf(v)'
    BY <1>p, <2>s DEF GetCall, Proceed, ChainOf, Dropping, PoolPlaces, PoolExclusion, InPool,
       NoSpaceLostOrShared, OneDropPerSpace
  <2>6. OneDropPerSpace'
    BY <1>p, <2>s DEF GetCall, Proceed, OneDropPerSpace, Dropping, ChainOf, SpacesOf, PoolPlaces,
       NoSpaceLostOrShared
  <2> QED
    BY <2>1, <2>2, <2>3, <2>4, <2>5, <2>6
<1>2. ASSUME NEW t \in User, GetHave(t)
      PROVE  PoolInv'
  <2> USE <1>2
  <2>s. InPool' = InPool
    BY <1>p DEF GetHave, Proceed, InPool, PoolPlaces
  <2>c. t \notin SpaceClaims /\ SpaceClaims' = SpaceClaims \cup {t}
    BY <1>p DEF GetHave, Proceed, SpaceClaims, PoolPlaces
  <2>u. Unposted' = Unposted
    BY <1>p DEF GetHave, Proceed, Unposted, PoolPlaces
  <2>1. PoolTypeOK'
    BY <1>p, EmptySeq DEF GetHave, Proceed, PoolTypeOK, PoolPlaces
  <2>2. SafeSemaphore' /\ PoolExclusion'
    BY <1>p, <2>s DEF GetHave, Proceed, SafeSemaphore, PoolExclusion, InPool
  <2>3. HaveAccounts'
    <3>1. Cardinality(SpaceClaims)' = Cardinality(SpaceClaims) + 1
      BY <1>f, <2>c, FS_AddElement, FS_RemoveElement
    <3>2. Cardinality(Unposted)' = Cardinality(Unposted)
      BY <1>f, <2>u, FS_AddElement, FS_RemoveElement
    <3> QED
      BY <3>1, <3>2, <1>f, <1>n DEF GetHave, Proceed, HaveAccounts
  <2>4. NoSpaceLostOrShared'
    BY <1>p, <1>n DEF GetHave, Proceed, NoSpaceLostOrShared
  <2>5. ASSUME NEW v \in User
        PROVE  ChainOf(v)'
    BY <1>p, <2>s DEF GetHave, Proceed, ChainOf, Dropping, PoolPlaces, PoolExclusion, InPool,
       NoSpaceLostOrShared, OneDropPerSpace
  <2>6. OneDropPerSpace'
    BY <1>p, <2>s DEF GetHave, Proceed, OneDropPerSpace, Dropping, ChainOf, SpacesOf, PoolPlaces,
       NoSpaceLostOrShared
  <2> QED
    BY <2>1, <2>2, <2>3, <2>4, <2>5, <2>6
<1>3. ASSUME NEW t \in User, GetSafe(t)
      PROVE  PoolInv'
  <2> USE <1>3
  <2>s. t \notin InPool /\ InPool' = InPool \cup {t}
    BY <1>p DEF GetSafe, Proceed, InPool, PoolPlaces
  <2>c. SpaceClaims' = SpaceClaims
    BY <1>p DEF GetSafe, Proceed, SpaceClaims, PoolPlaces
  <2>u. Unposted' = Unposted
    BY <1>p DEF GetSafe, Proceed, Unposted, PoolPlaces
  <2>1. PoolTypeOK'
    BY <1>p, EmptySeq DEF GetSafe, Proceed, PoolTypeOK, PoolPlaces
  <2>2. SafeSemaphore' /\ PoolExclusion'
    BY <1>p, <2>s DEF GetSafe, Proceed, SafeSemaphore, PoolExclusion, InPool
  <2>3. HaveAccounts'
    BY <1>f, <1>n, <2>c, <2>u DEF GetSafe, Proceed, HaveAccounts
  <2>4. NoSpaceLostOrShared'
    BY <1>p, <1>n DEF GetSafe, Proceed, NoSpaceLostOrShared
  <2>5. ASSUME NEW v \in User
        PROVE  ChainOf(v)'
    BY <1>p, <2>s DEF GetSafe, Proceed, ChainOf, Dropping, PoolPlaces, PoolExclusion, InPool,
       NoSpaceLostOrShared, OneDropPerSpace
  <2>6. OneDropPerSpace'
    BY <1>p, <2>s DEF GetSafe, Proceed, OneDropPerSpace, Dropping, ChainOf, SpacesOf, PoolPlaces,
       NoSpaceLostOrShared
  <2> QED
    BY <2>1, <2>2, <2>3, <2>4, <2>5, <2>6
<1>4. ASSUME NEW t \in User, ReadHead(t)
      PROVE  PoolInv'
  <2> USE <1>4
  <2>s. InPool' = InPool
    BY <1>p DEF ReadHead, Proceed, InPool, PoolPlaces
  <2>c. SpaceClaims' = SpaceClaims
    BY <1>p DEF ReadHead, Proceed, SpaceClaims, PoolPlaces
  <2>u. Unposted' = Unposted
    BY <1>p DEF ReadHead, Proceed, Unposted, PoolPlaces
  <2>1. PoolTypeOK'
    BY <1>p, EmptySeq DEF ReadHead, Proceed, PoolTypeOK, PoolPlaces
  <2>2. SafeSemaphore' /\ PoolExclusion'
    BY <1>p, <2>s DEF ReadHead, Proceed, SafeSemaphore, PoolExclusion, InPool
  <2>3. HaveAccounts'
    BY <1>f, <1>n, <2>c, <2>u DEF ReadHead, Proceed, HaveAccounts
  <2>4. NoSpaceLostOrShared'
    BY <1>p, <1>n DEF ReadHead, Proceed, NoSpaceLostOrShared
  <2>5. ASSUME NEW v \in User
        PROVE  ChainOf(v)'
    BY <1>p, <2>s DEF ReadHead, Proceed, ChainOf, Dropping, PoolPlaces, PoolExclusion, InPool,
       NoSpaceLostOrShared, OneDropPerSpace
  <2>6. OneDropPerSpace'
    BY <1>p, <2>s DEF ReadHead, Proceed, OneDropPerSpace, Dropping, ChainOf, SpacesOf, PoolPlaces,
       NoSpaceLostOrShared
  <2> QED
    BY <2>1, <2>2, <2>3, <2>4, <2>5, <2>6
<1>5. ASSUME NEW t \in User, Unlink(t)
      PROVE  PoolInv'
  <2> USE <1>5
  <2>s. InPool' = InPool
    BY <1>p DEF Unlink, Proceed, InPool, PoolPlaces
  <2>c. t \in SpaceClaims /\ SpaceClaims' = SpaceClaims \ {t}
    BY <1>p DEF Unlink, Proceed, SpaceClaims, PoolPlaces
  <2>u. Unposted' = Unposted
    BY <1>p DEF Unlink, Proceed, Unposted, PoolPlaces
  <2>h. chain[t] = freeList /\ freeList # <<>>
    <3>1. t \in SpaceClaims
      BY DEF Unlink, SpaceClaims
    <3> QED
      BY <3>1, ClaimMeansSpace DEF Unlink, ChainOf
  <2>l. /\ freeList' = Tail(freeList) /\ freeList' \in Seq(Space) /\ Len(freeList') = Len(freeList) - 1
        /\ Distinct(freeList') /\ SpacesOf(freeList') = SpacesOf(freeList) \ {Head(freeList)}
        /\ Head(freeList) \in SpacesOf(freeList) /\ Head(freeList) \in Space
        /\ lent' = lent \cup {Head(freeList)}
    BY <2>h, <1>p, TailOfList DEF Unlink, NoSpaceLostOrShared
  <2>1. PoolTypeOK'
    BY <1>p, <2>h, <2>l, EmptySeq DEF Unlink, Proceed, PoolTypeOK, PoolPlaces
  <2>2. SafeSemaphore' /\ PoolExclusion'
    BY <1>p, <2>s DEF Unlink, Proceed, SafeSemaphore, PoolExclusion, InPool
  <2>3. HaveAccounts'
    <3>1. Cardinality(SpaceClaims)' = Cardinality(SpaceClaims) - 1
      BY <1>f, <2>c, FS_AddElement, FS_RemoveElement
    <3>2. Cardinality(Unposted)' = Cardinality(Unposted)
      BY <1>f, <2>u, FS_AddElement, FS_RemoveElement
    <3> QED
      BY <3>1, <3>2, <1>f, <1>n, <2>l DEF Unlink, Proceed, HaveAccounts
  <2>4. NoSpaceLostOrShared'
    BY <1>p, <2>h, <2>l, <1>n DEF Unlink, Proceed, NoSpaceLostOrShared
  <2>5. ASSUME NEW v \in User
        PROVE  ChainOf(v)'
    BY <1>p, <2>h, <2>l, <2>s DEF Unlink, Proceed, ChainOf, Dropping, PoolPlaces, PoolExclusion, InPool,
       NoSpaceLostOrShared, OneDropPerSpace
  <2>6. OneDropPerSpace'
    BY <1>p, <2>h, <2>l, <2>s DEF Unlink, Proceed, OneDropPerSpace, Dropping, ChainOf, SpacesOf, PoolPlaces,
       NoSpaceLostOrShared
  <2> QED
    BY <2>1, <2>2, <2>3, <2>4, <2>5, <2>6
<1>6. ASSUME NEW t \in User, GetUnlock(t)
      PROVE  PoolInv'
  <2> USE <1>6
  <2>s. t \in InPool /\ InPool' = InPool \ {t}
    BY <1>p DEF GetUnlock, Proceed, InPool, PoolPlaces
  <2>c. SpaceClaims' = SpaceClaims
    BY <1>p DEF GetUnlock, Proceed, SpaceClaims, PoolPlaces
  <2>u. Unposted' = Unposted
    BY <1>p DEF GetUnlock, Proceed, Unposted, PoolPlaces
  <2>1. PoolTypeOK'
    BY <1>p, EmptySeq DEF GetUnlock, Proceed, PoolTypeOK, PoolPlaces
  <2>2. SafeSemaphore' /\ PoolExclusion'
    BY <1>p, <2>s DEF GetUnlock, Proceed, SafeSemaphore, PoolExclusion, InPool
  <2>3. HaveAccounts'
    BY <1>f, <1>n, <2>c, <2>u DEF GetUnlock, Proceed, HaveAccounts
  <2>4. NoSpaceLostOrShared'
    BY <1>p, <1>n DEF GetUnlock, Proceed, NoSpaceLostOrShared
  <2>5. ASSUME NEW v \in User
        PROVE  ChainOf(v)'
    BY <1>p, <2>s DEF GetUnlock, Proceed, ChainOf, Dropping, PoolPlaces, PoolExclusion, InPool,
       NoSpaceLostOrShared, OneDropPerSpace
  <2>6. OneDropPerSpace'
    BY <1>p, <2>s DEF GetUnlock, Proceed, OneDropPerSpace, Dropping, ChainOf, SpacesOf, PoolPlaces,
       NoSpaceLostOrShared
  <2> QED
    BY <2>1, <2>2, <2>3, <2>4, <2>5, <2>6
<1>7. ASSUME NEW t \in User, NEW s \in Space, DropCall(t, s)
      PROVE  PoolInv'
  <2> USE <1>7
  <2>s. InPool' = InPool
    BY <1>p DEF DropCall, Proceed, InPool, PoolPlaces
  <2>c. SpaceClaims' = SpaceClaims
    BY <1>p DEF DropCall, Proceed, SpaceClaims, PoolPlaces
  <2>u. Unposted' = Unposted
    BY <1>p DEF DropCall, Proceed, Unposted, PoolPlaces
  <2>1. PoolTypeOK'
    BY <1>p, EmptySeq DEF DropCall, Proceed, PoolTypeOK, PoolPlaces
  <2>2. SafeSemaphore' /\ PoolExclusion'
    BY <1>p, <2>s DEF DropCall, Proceed, SafeSemaphore, PoolExclusion, InPool
  <2>3. HaveAccounts'
    BY <1>f, <1>n, <2>c, <2>u DEF DropCall, Proceed, HaveAccounts
  <2>4. NoSpaceLostOrShared'
    BY <1>p, <1>n DEF DropCall, Proceed, NoSpaceLostOrShared
  <2>5. ASSUME NEW v \in User
        PROVE  ChainOf(v)'
    BY <1>p, <2>s DEF DropCall, Proceed, ChainOf, Dropping, PoolPlaces, PoolExclusion, InPool,
       NoSpaceLostOrShared, OneDropPerSpace
  <2>6. OneDropPerSpace'
    BY <1>p, <2>s DEF DropCall, Proceed, OneDropPerSpace, Dropping, ChainOf, SpacesOf, PoolPlaces,
       NoSpaceLostOrShared
  <2> QED
    BY <2>1, <2>2, <2>3, <2>4, <2>5, <2>6
<1>8. ASSUME NEW t \in User, DropSafe(t)
      PROVE  PoolInv'
  <2> USE <1>8
  <2>s. t \notin InPool /\ InPool' = InPool \cup {t}
    BY <1>p DEF DropSafe, Proceed, InPool, PoolPlaces
  <2>c. SpaceClaims' = SpaceClaims
    BY <1>p DEF DropSafe, Proceed, SpaceClaims, PoolPlaces
  <2>u. Unposted' = Unposted
    BY <1>p DEF DropSafe, Proceed, Unposted, PoolPlaces
  <2>1. PoolTypeOK'
    BY <1>p, EmptySeq DEF DropSafe, Proceed, PoolTypeOK, PoolPlaces
  <2>2. SafeSemaphore' /\ PoolExclusion'
    BY <1>p, <2>s DEF DropSafe, Proceed, SafeSemaphore, PoolExclusion, InPool
  <2>3. HaveAccounts'
    BY <1>f, <1>n, <2>c, <2>u DEF DropSafe, Proceed, HaveAccounts
  <2>4. NoSpaceLostOrShared'
    BY <1>p, <1>n DEF DropSafe, Proceed, NoSpaceLostOrShared
  <2>5. ASSUME NEW v \in User
        PROVE  ChainOf(v)'
    BY <1>p, <2>s DEF DropSafe, Proceed, ChainOf, Dropping, PoolPlaces, PoolExclusion, InPool,
       NoSpaceLostOrShared, OneDropPerSpace
  <2>6. OneDropPerSpace'
    BY <1>p, <2>s DEF DropSafe, Proceed, OneDropPerSpace, Dropping, ChainOf, SpacesOf, PoolPlaces,
       NoSpaceLostOrShared
  <2> QED
    BY <2>1, <2>2, <2>3, <2>4, <2>5, <2>6
<1>9. ASSUME NEW t \in User, DropLink(t)
      PROVE  PoolInv'
  <2> USE <1>9
  <2>s. InPool' = InPool
    BY <1>p DEF DropLink, Proceed, InPool, PoolPlaces
  <2>c. SpaceClaims' = SpaceClaims
    BY <1>p DEF DropLink, Proceed, SpaceClaims, PoolPlaces
  <2>u. Unposted' = Unposted
    BY <1>p DEF DropLink, Proceed, Unposted, PoolPlaces
  <2>h. chain[t] = <<Head(chain[t])>> /\ Head(chain[t]) \in lent
    BY DEF DropLink, ChainOf, Dropping
  <2>l. /\ chain'[t] = <<Head(chain[t])>> \o freeList /\ chain'[t] \in Seq(Space)
        /\ Head(chain'[t]) = Head(chain[t])
    <3>1. chain'[t] = <<Head(chain[t])>> \o freeList
      BY <2>h, <1>p DEF DropLink
    <3>2. Head(chain[t]) \in Space /\ Head(chain[t]) \notin SpacesOf(freeList)
      BY <2>h, <1>p DEF NoSpaceLostOrShared
    <3> QED
      BY <3>1, <3>2, <1>p, ConsOfList DEF NoSpaceLostOrShared
  <2>k. \A u \in User \ {t} : chain'[u] = chain[u]
    BY <1>p DEF DropLink
  <2>1. PoolTypeOK'
    BY <1>p, <2>h, <2>l, <2>k, EmptySeq DEF DropLink, Proceed, PoolTypeOK, PoolPlaces
  <2>2. SafeSemaphore' /\ PoolExclusion'
    BY <1>p, <2>s DEF DropLink, Proceed, SafeSemaphore, PoolExclusion, InPool
  <2>3. HaveAccounts'
    BY <1>f, <1>n, <2>c, <2>u, <2>h, <2>l, <2>k DEF DropLink, Proceed, HaveAccounts
  <2>4. NoSpaceLostOrShared'
    BY <1>p, <2>h, <2>l, <2>k, <1>n DEF DropLink, Proceed, NoSpaceLostOrShared
  <2>5. ASSUME NEW v \in User
        PROVE  ChainOf(v)'
    BY <1>p, <2>h, <2>l, <2>k, <2>s DEF DropLink, Proceed, ChainOf, Dropping, PoolPlaces, PoolExclusion, InPool,
       NoSpaceLostOrShared, OneDropPerSpace
  <2>6. OneDropPerSpace'
    BY <1>p, <2>h, <2>l, <2>k, <2>s DEF DropLink, Proceed, OneDropPerSpace, Dropping, ChainOf, SpacesOf, PoolPlaces,
       NoSpaceLostOrShared
  <2> QED
    BY <2>1, <2>2, <2>3, <2>4, <2>5, <2>6
<1>10. ASSUME NEW t \in User, DropHead(t)
      PROVE  PoolInv'
  <2> USE <1>10
  <2>s. InPool' = InPool
    BY <1>p DEF DropHead, Proceed, InPool, PoolPlaces
  <2>c. SpaceClaims' = SpaceClaims
    BY <1>p DEF DropHead, Proceed, SpaceClaims, PoolPlaces
  <2>u. t \notin Unposted /\ Unposted' = Unposted \cup {t}
    BY <1>p DEF DropHead, Proceed, Unposted, PoolPlaces
  <2>h. chain[t] = <<Head(chain[t])>> \o freeList /\ Head(chain[t]) \in lent
    BY DEF DropHead, ChainOf, Dropping
  <2>l. /\ freeList' = chain[t] /\ freeList' \in Seq(Space) /\ Len(freeList') = Len(freeList) + 1
        /\ Distinct(freeList') /\ SpacesOf(freeList') = SpacesOf(freeList) \cup {Head(chain[t])}
        /\ lent' = lent \ {Head(chain[t])}
    <3>1. Head(chain[t]) \in Space /\ Head(chain[t]) \notin SpacesOf(freeList)
      BY <2>h, <1>p DEF NoSpaceLostOrShared
    <3>2. freeList' = <<Head(chain[t])>> \o freeList
      BY <2>h DEF DropHead
    <3> QED
      BY <3>1, <3>2, <2>h, <1>p, ConsOfList DEF DropHead, NoSpaceLostOrShared
  <2>1. PoolTypeOK'
    BY <1>p, <2>h, <2>l, EmptySeq DEF DropHead, Proceed, PoolTypeOK, PoolPlaces
  <2>2. SafeSemaphore' /\ PoolExclusion'
    BY <1>p, <2>s DEF DropHead, Proceed, SafeSemaphore, PoolExclusion, InPool
  <2>3. HaveAccounts'
    <3>1. Cardinality(SpaceClaims)' = Cardinality(SpaceClaims)
      BY <1>f, <2>c, FS_AddElement, FS_RemoveElement
    <3>2. Cardinality(Unposted)' = Cardinality(Unposted) + 1
      BY <1>f, <2>u, FS_AddElement, FS_RemoveElement
    <3> QED
      BY <3>1, <3>2, <1>f, <1>n, <2>l DEF DropHead, Proceed, HaveAccounts
  <2>4. NoSpaceLostOrShared'
    BY <1>p, <2>h, <2>l, <1>n DEF DropHead, Proceed, NoSpaceLostOrShared
  <2>5. ASSUME NEW v \in User
        PROVE  ChainOf(v)'
    BY <1>p, <2>h, <2>l, <2>s DEF DropHead, Proceed, ChainOf, Dropping, PoolPlaces, PoolExclusion, InPool,
       NoSpaceLostOrShared, OneDropPerSpace
  <2>6. OneDropPerSpace'
    BY <1>p, <2>h, <2>l, <2>s DEF DropHead, Proceed, OneDropPerSpace, Dropping, ChainOf, SpacesOf, PoolPlaces,
       NoSpaceLostOrShared
  <2> QED
    BY <2>1, <2>2, <2>3, <2>4, <2>5, <2>6
<1>11. ASSUME NEW t \in User, DropPost(t)
      PROVE  PoolInv'
  <2> USE <1>11
  <2>s. InPool' = InPool
    BY <1>p DEF DropPost, Proceed, InPool, PoolPlaces
  <2>c. SpaceClaims' = SpaceClaims
    BY <1>p DEF DropPost, Proceed, SpaceClaims, PoolPlaces
  <2>u. t \in Unposted /\ Unposted' = Unposted \ {t}
    BY <1>p DEF DropPost, Proceed, Unposted, PoolPlaces
  <2>1. PoolTypeOK'
    BY <1>p, EmptySeq DEF DropPost, Proceed, PoolTypeOK, PoolPlaces
  <2>2. SafeSemaphore' /\ PoolExclusion'
    BY <1>p, <2>s DEF DropPost, Proceed, SafeSemaphore, PoolExclusion, InPool
  <2>3. HaveAccounts'
    <3>1. Cardinality(SpaceClaims)' = Cardinality(SpaceClaims)
      BY <1>f, <2>c, FS_AddElement, FS_RemoveElement
    <3>2. Cardinality(Unposted)' = Cardinality(Unposted) - 1
      BY <1>f, <2>u, FS_AddElement, FS_RemoveElement
    <3> QED
      BY <3>1, <3>2, <1>f, <1>n DEF DropPost, Proceed, HaveAccounts
  <2>4. NoSpaceLostOrShared'
    BY <1>p, <1>n DEF DropPost, Proceed, NoSpaceLostOrShared
  <2>5. ASSUME NEW v \in User
        PROVE  ChainOf(v)'
    BY <1>p, <2>s DEF DropPost, Proceed, ChainOf, Dropping, PoolPlaces, PoolExclusion, InPool,
       NoSpaceLostOrShared, OneDropPerSpace
  <2>6. OneDropPerSpace'
    BY <1>p, <2>s DEF DropPost, Proceed, OneDropPerSpace, Dropping, ChainOf, SpacesOf, PoolPlaces,
       NoSpaceLostOrShared
  <2> QED
    BY <2>1, <2>2, <2>3, <2>4, <2>5, <2>6
<1>12. ASSUME NEW t \in User, DropReturn(t)
      PROVE  PoolInv'
  <2> USE <1>12
  <2>s. t \in InPool /\ InPool' = InPool \ {t}
    BY <1>p DEF DropReturn, Proceed, InPool, PoolPlaces
  <2>c. SpaceClaims' = SpaceClaims
    BY <1>p DEF DropReturn, Proceed, SpaceClaims, PoolPlaces
  <2>u. Unposted' = Unposted
    BY <1>p DEF DropReturn, Proceed, Unposted, PoolPlaces
  <2>1. PoolTypeOK'
    BY <1>p, EmptySeq DEF DropReturn, Proceed, PoolTypeOK, PoolPlaces
  <2>2. SafeSemaphore' /\ PoolExclusion'
    BY <1>p, <2>s DEF DropReturn, Proceed, SafeSemaphore, PoolExclusion, InPool
  <2>3. HaveAccounts'
    BY <1>f, <1>n, <2>c, <2>u DEF DropReturn, Proceed, HaveAccounts
  <2>4. NoSpaceLostOrShared'
    BY <1>p, <1>n DEF DropReturn, Proceed, NoSpaceLostOrShared
  <2>5. ASSUME NEW v \in User
        PROVE  ChainOf(v)'
    BY <1>p, <2>s DEF DropReturn, Proceed, ChainOf, Dropping, PoolPlaces, PoolExclusion, InPool,
       NoSpaceLostOrShared, OneDropPerSpace
  <2>6. OneDropPerSpace'
    BY <1>p, <2>s DEF DropReturn, Proceed, OneDropPerSpace, Dropping, ChainOf, SpacesOf, PoolPlaces,
       NoSpaceLostOrShared
  <2> QED
    BY <2>1, <2>2, <2>3, <2>4, <2>5, <2>6
<1>13. CASE UNCHANGED poolVars
  BY <1>13 DEF poolVars, PoolTypeOK, SafeSemaphore, PoolExclusion, HaveAccounts,
     NoSpaceLostOrShared, ChainOf, OneDropPerSpace, Dropping, InPool, SpaceClaims,
     Unposted
<1> QED
  BY <1>1, <1>2, <1>3, <1>4, <1>5, <1>6, <1>7, <1>8, <1>9, <1>10, <1>11, <1>12, <1>13 DEF PoolNext, ThreadStep

-----------------------------------------------------------------------------
LEMMA PoolInvariant == PoolSpec => []PoolInv
<1>1. PoolInit => PoolInv
  BY PoolStarts
<1>2. PoolInv /\ [PoolNext]_poolVars => PoolInv'
  BY PoolSteps
<1> QED
  BY <1>1, <1>2, PTL DEF PoolSpec

(* The variables of get_space and drop_space have their types.              *)
THEOREM PoolTypeCorrect == PoolSpec => []PoolTypeOK
<1>1. PoolInv => PoolTypeOK
  BY DEF PoolInv
<1> QED
  BY <1>1, PoolInvariant, PTL

(* At most one thread works on the free list.                               *)
THEOREM FreeListIsExclusive == PoolSpec => []PoolExclusion
<1>1. PoolInv => PoolExclusion
  BY DEF PoolInv
<1> QED
  BY <1>1, PoolInvariant, PTL

(* "have" accounts for every free space.                                    *)
THEOREM HaveIsExact == PoolSpec => []HaveAccounts
<1>1. PoolInv => HaveAccounts
  BY DEF PoolInv
<1> QED
  BY <1>1, PoolInvariant, PTL

(* get_space never dereferences a NULL head: a thread at that place has     *)
(* claimed one of the spaces that "have" accounts for.                      *)
THEOREM HeadIsNeverNull == PoolSpec => []NoNullHead
<1>1. PoolInv => NoNullHead
  <2> SUFFICES ASSUME PoolInv, NEW t \in User, at[t] = "get_unlink"
               PROVE  chain[t] # <<>>
    BY DEF NoNullHead
  <2>1. t \in SpaceClaims
    BY DEF SpaceClaims
  <2>2. freeList # <<>>
    BY <2>1, ClaimMeansSpace DEF PoolInv
  <2> QED
    BY <2>2 DEF PoolInv, ChainOf
<1> QED
  BY <1>1, PoolInvariant, PTL

(* No space is lost, listed twice, or lent while it is free.                *)
THEOREM SpacesAreKept == PoolSpec => []NoSpaceLostOrShared
<1>1. PoolInv => NoSpaceLostOrShared
  BY DEF PoolInv
<1> QED
  BY <1>1, PoolInvariant, PTL

(* The pool implements the bank of buffers.  Only two steps are visible:    *)
(* Unlink lends the head of the list, DropHead returns the space.           *)
THEOREM PoolImplementsBank == PoolSpec => BankSpec
<1>1. PoolInit => Bank!Init
  <2> SUFFICES ASSUME PoolInit PROVE Bank!Init
    OBVIOUS
  <2>1. NoSpaceLostOrShared /\ lent = {}
    BY PoolStarts DEF PoolInv, PoolInit
  <2> QED
    BY <2>1 DEF Bank!Init, NoSpaceLostOrShared
<1>2. PoolInv /\ [PoolNext]_poolVars => [Bank!Next]_<<SpacesOf(freeList), lent>>
  <2> SUFFICES ASSUME PoolInv, [PoolNext]_poolVars
               PROVE  Bank!Next \/ UNCHANGED <<SpacesOf(freeList), lent>>
    OBVIOUS
  <2>1. ASSUME NEW t \in User, Unlink(t)
        PROVE  Bank!Next
    <3>1. chain[t] = freeList /\ t \in SpaceClaims
      BY <2>1 DEF PoolInv, Unlink, ChainOf, SpaceClaims
    <3>2. freeList # <<>> /\ freeList \in Seq(Space) /\ Distinct(freeList)
      BY <3>1, ClaimMeansSpace DEF PoolInv, PoolTypeOK, NoSpaceLostOrShared
    <3>3. /\ Head(freeList) \in SpacesOf(freeList) /\ Head(freeList) \in Space
          /\ SpacesOf(Tail(freeList)) = SpacesOf(freeList) \ {Head(freeList)}
      BY <3>2, TailOfList
    <3>4. Bank!Lend(Head(freeList))
      BY <2>1, <3>1, <3>3 DEF Unlink, Bank!Lend
    <3> QED
      BY <3>3, <3>4 DEF Bank!Next
  <2>2. ASSUME NEW t \in User, DropHead(t)
        PROVE  Bank!Next
    <3> DEFINE s == Head(chain[t])
    <3>1. chain[t] = <<s>> \o freeList /\ s \in lent
      BY <2>2 DEF PoolInv, DropHead, ChainOf, Dropping
    <3>2. s \in Space /\ s \notin SpacesOf(freeList) /\ Distinct(freeList)
          /\ freeList \in Seq(Space)
      BY <3>1 DEF PoolInv, PoolTypeOK, NoSpaceLostOrShared
    <3>3. SpacesOf(<<s>> \o freeList) = SpacesOf(freeList) \cup {s}
      BY <3>2, ConsOfList
    <3>4. Bank!Return(s)
      BY <2>2, <3>1, <3>3 DEF DropHead, Bank!Return
    <3> QED
      BY <3>2, <3>4 DEF Bank!Next
  <2>3. ASSUME NEW t \in User, NEW s \in Space,
               \/ GetCall(t) \/ GetHave(t) \/ GetSafe(t) \/ ReadHead(t)
               \/ GetUnlock(t) \/ DropCall(t, s) \/ DropSafe(t) \/ DropLink(t)
               \/ DropPost(t) \/ DropReturn(t)
        PROVE  UNCHANGED <<SpacesOf(freeList), lent>>
    <3>1. UNCHANGED <<freeList, lent>>
      BY <2>3 DEF GetCall, GetHave, GetSafe, ReadHead, GetUnlock, DropCall,
                  DropSafe, DropLink, DropPost, DropReturn
    <3> QED
      BY <3>1 DEF SpacesOf
  <2>4. CASE UNCHANGED poolVars
    BY <2>4 DEF poolVars, SpacesOf
  <2>5. \E s \in Space : TRUE
    BY PoolAssumption
  <2> QED
    BY <2>1, <2>2, <2>3, <2>4, <2>5 DEF PoolNext, ThreadStep
<1> QED
  BY <1>1, <1>2, PoolInvariant, PTL DEF PoolSpec, BankSpec, Bank!Spec

-----------------------------------------------------------------------------
(* The queue of jobs.                                                       *)

(* "use" is taken exactly when a thread is between its wait and its post.   *)
UseSemaphore == use \in {0, 1} /\ (use = 1 => Inside = {})

(* Threads are at places of their own code.                                 *)
Places == pc[Reader] \in ReaderPC /\ \A c \in Consumer : pc[c] \in ConsumerPC

(* The queue is closed exactly from the step Close of the reader on.        *)
ClosedByReader ==
    /\ closed <=> pc[Reader] \in {"close_post", "close_unlock", "done"}
    /\ numThreads = IF closed THEN 0 ELSE 1

(* A consumer that is about to unlink a job has read the list as it is.     *)
ReadIsCurrent == \A c \in Consumer :
    pc[c] = "get_unlink" => ret[c] = list /\ list # <<>>

QueueInv == /\ TypeOK
            /\ UseSemaphore
            /\ MutualExclusion
            /\ Places
            /\ ClosedByReader
            /\ ActiveAccounts
            /\ ListConsistent
            /\ ReadIsCurrent
            /\ EndOnlyWhenDrained

(* The claims are finite in number, and a thread that has one counts.       *)
LEMMA ClaimsFinite ==
    /\ IsFiniteSet(Claims)
    /\ Cardinality(Claims) \in Nat
    /\ \A t \in Claims : Cardinality(Claims) >= 1
<1>1. IsFiniteSet(Thread)
  BY QueueAssumption, FS_AddElement DEF Thread
<1>2. IsFiniteSet(Claims)
  BY <1>1, FS_Subset DEF Claims
<1>3. Cardinality(Claims) \in Nat
  BY <1>2, FS_CardinalityType
<1>4. ASSUME NEW t \in Claims
      PROVE  Cardinality(Claims) >= 1
  BY <1>2, <1>3, FS_EmptySet
<1> QED
  BY <1>2, <1>3, <1>4

(* The heart of the queue: a thread that took a unit of "active" and finds  *)
(* the list empty holds the unit that stands for the close.                 *)
LEMMA EmptyMeansClosed ==
    ASSUME TypeOK, ActiveAccounts, NEW t \in Claims, list = <<>>
    PROVE  closed
<1>1. Cardinality(Claims) >= 1 /\ Cardinality(Claims) \in Nat
  BY ClaimsFinite
<1>2. active \in Nat /\ active + Cardinality(Claims) = End
  BY EmptySeq DEF TypeOK, ActiveAccounts, End
<1> QED
  BY <1>1, <1>2 DEF End

LEMMA QueueStarts == Init => QueueInv
<1> SUFFICES ASSUME Init PROVE QueueInv
  OBVIOUS
<1>1. TypeOK /\ Places
  BY QueueAssumption, EmptySeq
     DEF Init, TypeOK, Places, Thread, ReaderPC, ConsumerPC, NoJob
<1>2. Inside = {} /\ Claims = {}
  BY DEF Init, Inside, Claims
<1>3. ActiveAccounts
  BY <1>2, FS_EmptySet, EmptySeq DEF Init, ActiveAccounts, End
<1>4. UseSemaphore /\ MutualExclusion /\ ListConsistent
  BY <1>2, EmptySeq DEF Init, UseSemaphore, MutualExclusion, ListConsistent
<1>5. ClosedByReader /\ ReadIsCurrent /\ EndOnlyWhenDrained
  BY QueueAssumption DEF Init, ClosedByReader, ReadIsCurrent, EndOnlyWhenDrained, Thread
<1> QED
  BY <1>1, <1>3, <1>4, <1>5 DEF QueueInv

(* Every step preserves the invariant.                                      *)
LEMMA QueueSteps == QueueInv /\ [Next]_vars => QueueInv'
<1> SUFFICES ASSUME QueueInv, [Next]_vars PROVE QueueInv'
  OBVIOUS
<1> USE DEF QueueInv
<1>f. IsFiniteSet(Claims) /\ Cardinality(Claims) \in Nat
  BY ClaimsFinite
<1>n. /\ Len(list) \in Nat /\ active \in Nat /\ End \in {0, 1}
      /\ active + Cardinality(Claims) = Len(list) + End
  BY LenProperties DEF TypeOK, ActiveAccounts, End
<1>p. /\ list \in Seq(Nat) /\ ret \in [Consumer -> Seq(Nat)]
      /\ pc \in [Thread -> ReaderPC \cup ConsumerPC] /\ seq \in Nat
  BY DEF TypeOK
<1>t. Reader \in Thread /\ Reader \notin Consumer
      /\ \A c \in Consumer : c \in Thread /\ c # Reader
  BY QueueAssumption DEF Thread
<1>1. ASSUME AddCall
      PROVE  QueueInv'
  <2> USE <1>1
  <2>s. Inside' = Inside
    BY <1>p, <1>t DEF AddCall, Goto, Inside, ReaderPC, ConsumerPC
  <2>c. Claims' = Claims
    BY <1>p, <1>t DEF AddCall, Goto, Claims, ReaderPC, ConsumerPC
  <2>1. TypeOK'
    BY <1>p, <1>t, <1>n, EmptySeq DEF AddCall, Goto, TypeOK, ReaderPC, ConsumerPC, ListConsistent
  <2>2. UseSemaphore' /\ MutualExclusion'
    BY <1>p, <1>t, <2>s DEF AddCall, Goto, UseSemaphore, MutualExclusion, Inside
  <2>3. Places'
    BY <1>p, <1>t DEF AddCall, Goto, Places, ReaderPC, ConsumerPC
  <2>4. ClosedByReader'
    BY <1>p, <1>t DEF AddCall, Goto, ClosedByReader, Places, ReaderPC
  <2>5. ActiveAccounts'
    BY <1>n, <2>c DEF AddCall, Goto, ActiveAccounts, End
  <2>6. ListConsistent'
    BY <1>p, <1>n DEF AddCall, Goto, ListConsistent
  <2>7. ReadIsCurrent'
    BY <1>p, <1>t, <2>s DEF AddCall, Goto, ReadIsCurrent, MutualExclusion, Inside
  <2>8. EndOnlyWhenDrained'
    BY <1>p, <1>t, <2>s DEF AddCall, Goto, EndOnlyWhenDrained, ClosedByReader
  <2> QED
    BY <2>1, <2>2, <2>3, <2>4, <2>5, <2>6, <2>7, <2>8
<1>2. ASSUME AddUse
      PROVE  QueueInv'
  <2> USE <1>2
  <2>s. Reader \notin Inside /\ Inside' = Inside \cup {Reader}
    BY <1>p, <1>t DEF AddUse, TakeUse, Goto, Inside, ReaderPC, ConsumerPC
  <2>c. Claims' = Claims
    BY <1>p, <1>t DEF AddUse, TakeUse, Goto, Claims, ReaderPC, ConsumerPC
  <2>1. TypeOK'
    BY <1>p, <1>t, <1>n, EmptySeq DEF AddUse, TakeUse, Goto, TypeOK, ReaderPC, ConsumerPC, ListConsistent
  <2>2. UseSemaphore' /\ MutualExclusion'
    BY <1>p, <1>t, <2>s DEF AddUse, TakeUse, Goto, UseSemaphore, MutualExclusion, Inside
  <2>3. Places'
    BY <1>p, <1>t DEF AddUse, TakeUse, Goto, Places, ReaderPC, ConsumerPC
  <2>4. ClosedByReader'
    BY <1>p, <1>t DEF AddUse, TakeUse, Goto, ClosedByReader, Places, ReaderPC
  <2>5. ActiveAccounts'
    BY <1>n, <2>c DEF AddUse, TakeUse, Goto, ActiveAccounts, End
  <2>6. ListConsistent'
    BY <1>p, <1>n DEF AddUse, TakeUse, Goto, ListConsistent
  <2>7. ReadIsCurrent'
    BY <1>p, <1>t, <2>s DEF AddUse, TakeUse, Goto, ReadIsCurrent, MutualExclusion, Inside
  <2>8. EndOnlyWhenDrained'
    BY <1>p, <1>t, <2>s DEF AddUse, TakeUse, Goto, EndOnlyWhenDrained, ClosedByReader
  <2> QED
    BY <2>1, <2>2, <2>3, <2>4, <2>5, <2>6, <2>7, <2>8
<1>3. ASSUME AddLink
      PROVE  QueueInv'
  <2> USE <1>3
  <2>s. Inside' = Inside
    BY <1>p, <1>t DEF AddLink, Goto, Inside, ReaderPC, ConsumerPC
  <2>c. Reader \notin Claims /\ Claims' = Claims \cup {Reader}
    BY <1>p, <1>t DEF AddLink, Goto, Claims, ReaderPC, ConsumerPC
  <2>l. /\ list' = Append(list, seq) /\ list' \in Seq(Nat)
        /\ Len(list') = Len(list) + 1 /\ list'[Len(list')] = seq /\ list' # <<>>
    <3>1. list = <<>> => tail = NoJob
      BY DEF ListConsistent
    <3>2. list # <<>> => tail = list[Len(list)] /\ tail # NoJob
      BY <1>p, LenProperties, EmptySeq, ElementOfSeq DEF ListConsistent, NoJob
    <3>3. list = <<>> => Append(list, seq) = <<seq>>
      BY <1>p
    <3>4. list' = Append(list, seq)
      BY <3>1, <3>2, <3>3 DEF AddLink
    <3>5. /\ Append(list, seq) \in Seq(Nat) /\ Len(Append(list, seq)) = Len(list) + 1
          /\ Append(list, seq)[Len(list) + 1] = seq
      BY <1>p, AppendProperties
    <3>6. Append(list, seq) # <<>>
      BY <3>5, <1>n, EmptySeq
    <3> QED
      BY <3>4, <3>5, <3>6
  <2>1. TypeOK'
    BY <1>p, <1>t, <1>n, <2>l, EmptySeq DEF AddLink, Goto, TypeOK, ReaderPC, ConsumerPC, ListConsistent
  <2>2. UseSemaphore' /\ MutualExclusion'
    BY <1>p, <1>t, <2>s DEF AddLink, Goto, UseSemaphore, MutualExclusion, Inside
  <2>3. Places'
    BY <1>p, <1>t DEF AddLink, Goto, Places, ReaderPC, ConsumerPC
  <2>4. ClosedByReader'
    BY <1>p, <1>t DEF AddLink, Goto, ClosedByReader, Places, ReaderPC
  <2>5. ActiveAccounts'
    <3>1. Cardinality(Claims)' = Cardinality(Claims) + 1
      BY <1>f, <2>c, FS_AddElement, FS_RemoveElement
    <3>2. End' = End
      BY DEF AddLink, Goto, End
    <3> QED
      BY <3>1, <3>2, <1>f, <1>n, <2>l DEF AddLink, Goto, ActiveAccounts
  <2>6. ListConsistent'
    BY <1>p, <1>n, <2>l DEF AddLink, Goto, ListConsistent
  <2>7. ReadIsCurrent'
    BY <1>p, <1>t, <2>s, <2>l DEF AddLink, Goto, ReadIsCurrent, MutualExclusion, Inside
  <2>8. EndOnlyWhenDrained'
    BY <1>p, <1>t, <2>s, <2>l DEF AddLink, Goto, EndOnlyWhenDrained, ClosedByReader
  <2> QED
    BY <2>1, <2>2, <2>3, <2>4, <2>5, <2>6, <2>7, <2>8
<1>4. ASSUME AddPost
      PROVE  QueueInv'
  <2> USE <1>4
  <2>s. Inside' = Inside
    BY <1>p, <1>t DEF AddPost, PostActive, Goto, Inside, ReaderPC, ConsumerPC
  <2>c. Reader \in Claims /\ Claims' = Claims \ {Reader}
    BY <1>p, <1>t DEF AddPost, PostActive, Goto, Claims, ReaderPC, ConsumerPC
  <2>1. TypeOK'
    BY <1>p, <1>t, <1>n, EmptySeq DEF AddPost, PostActive, Goto, TypeOK, ReaderPC, ConsumerPC, ListConsistent
  <2>2. UseSemaphore' /\ MutualExclusion'
    BY <1>p, <1>t, <2>s DEF AddPost, PostActive, Goto, UseSemaphore, MutualExclusion, Inside
  <2>3. Places'
    BY <1>p, <1>t DEF AddPost, PostActive, Goto, Places, ReaderPC, ConsumerPC
  <2>4. ClosedByReader'
    BY <1>p, <1>t DEF AddPost, PostActive, Goto, ClosedByReader, Places, ReaderPC
  <2>5. ActiveAccounts'
    <3>1. Cardinality(Claims)' = Cardinality(Claims) - 1
      BY <1>f, <2>c, FS_AddElement, FS_RemoveElement
    <3>2. End' = End
      BY DEF AddPost, PostActive, Goto, End
    <3> QED
      BY <3>1, <3>2, <1>f, <1>n DEF AddPost, PostActive, Goto, ActiveAccounts
  <2>6. ListConsistent'
    BY <1>p, <1>n DEF AddPost, PostActive, Goto, ListConsistent
  <2>7. ReadIsCurrent'
    BY <1>p, <1>t, <2>s DEF AddPost, PostActive, Goto, ReadIsCurrent, MutualExclusion, Inside
  <2>8. EndOnlyWhenDrained'
    BY <1>p, <1>t, <2>s DEF AddPost, PostActive, Goto, EndOnlyWhenDrained, ClosedByReader
  <2> QED
    BY <2>1, <2>2, <2>3, <2>4, <2>5, <2>6, <2>7, <2>8
<1>5. ASSUME AddReturn
      PROVE  QueueInv'
  <2> USE <1>5
  <2>s. Reader \in Inside /\ Inside' = Inside \ {Reader}
    BY <1>p, <1>t DEF AddReturn, GiveUse, Goto, Inside, ReaderPC, ConsumerPC
  <2>c. Claims' = Claims
    BY <1>p, <1>t DEF AddReturn, GiveUse, Goto, Claims, ReaderPC, ConsumerPC
  <2>1. TypeOK'
    BY <1>p, <1>t, <1>n, EmptySeq DEF AddReturn, GiveUse, Goto, TypeOK, ReaderPC, ConsumerPC, ListConsistent
  <2>2. UseSemaphore' /\ MutualExclusion'
    BY <1>p, <1>t, <2>s DEF AddReturn, GiveUse, Goto, UseSemaphore, MutualExclusion, Inside
  <2>3. Places'
    BY <1>p, <1>t DEF AddReturn, GiveUse, Goto, Places, ReaderPC, ConsumerPC
  <2>4. ClosedByReader'
    BY <1>p, <1>t DEF AddReturn, GiveUse, Goto, ClosedByReader, Places, ReaderPC
  <2>5. ActiveAccounts'
    BY <1>n, <2>c DEF AddReturn, GiveUse, Goto, ActiveAccounts, End
  <2>6. ListConsistent'
    BY <1>p, <1>n DEF AddReturn, GiveUse, Goto, ListConsistent
  <2>7. ReadIsCurrent'
    BY <1>p, <1>t, <2>s DEF AddReturn, GiveUse, Goto, ReadIsCurrent, MutualExclusion, Inside
  <2>8. EndOnlyWhenDrained'
    BY <1>p, <1>t, <2>s DEF AddReturn, GiveUse, Goto, EndOnlyWhenDrained, ClosedByReader
  <2> QED
    BY <2>1, <2>2, <2>3, <2>4, <2>5, <2>6, <2>7, <2>8
<1>6. ASSUME CloseCall
      PROVE  QueueInv'
  <2> USE <1>6
  <2>s. Inside' = Inside
    BY <1>p, <1>t DEF CloseCall, Goto, Inside, ReaderPC, ConsumerPC
  <2>c. Claims' = Claims
    BY <1>p, <1>t DEF CloseCall, Goto, Claims, ReaderPC, ConsumerPC
  <2>1. TypeOK'
    BY <1>p, <1>t, <1>n, EmptySeq DEF CloseCall, Goto, TypeOK, ReaderPC, ConsumerPC, ListConsistent
  <2>2. UseSemaphore' /\ MutualExclusion'
    BY <1>p, <1>t, <2>s DEF CloseCall, Goto, UseSemaphore, MutualExclusion, Inside
  <2>3. Places'
    BY <1>p, <1>t DEF CloseCall, Goto, Places, ReaderPC, ConsumerPC
  <2>4. ClosedByReader'
    BY <1>p, <1>t DEF CloseCall, Goto, ClosedByReader, Places, ReaderPC
  <2>5. ActiveAccounts'
    BY <1>n, <2>c DEF CloseCall, Goto, ActiveAccounts, End
  <2>6. ListConsistent'
    BY <1>p, <1>n DEF CloseCall, Goto, ListConsistent
  <2>7. ReadIsCurrent'
    BY <1>p, <1>t, <2>s DEF CloseCall, Goto, ReadIsCurrent, MutualExclusion, Inside
  <2>8. EndOnlyWhenDrained'
    BY <1>p, <1>t, <2>s DEF CloseCall, Goto, EndOnlyWhenDrained, ClosedByReader
  <2> QED
    BY <2>1, <2>2, <2>3, <2>4, <2>5, <2>6, <2>7, <2>8
<1>7. ASSUME CloseUse
      PROVE  QueueInv'
  <2> USE <1>7
  <2>s. Reader \notin Inside /\ Inside' = Inside \cup {Reader}
    BY <1>p, <1>t DEF CloseUse, TakeUse, Goto, Inside, ReaderPC, ConsumerPC
  <2>c. Claims' = Claims
    BY <1>p, <1>t DEF CloseUse, TakeUse, Goto, Claims, ReaderPC, ConsumerPC
  <2>1. TypeOK'
    BY <1>p, <1>t, <1>n, EmptySeq DEF CloseUse, TakeUse, Goto, TypeOK, ReaderPC, ConsumerPC, ListConsistent
  <2>2. UseSemaphore' /\ MutualExclusion'
    BY <1>p, <1>t, <2>s DEF CloseUse, TakeUse, Goto, UseSemaphore, MutualExclusion, Inside
  <2>3. Places'
    BY <1>p, <1>t DEF CloseUse, TakeUse, Goto, Places, ReaderPC, ConsumerPC
  <2>4. ClosedByReader'
    BY <1>p, <1>t DEF CloseUse, TakeUse, Goto, ClosedByReader, Places, ReaderPC
  <2>5. ActiveAccounts'
    BY <1>n, <2>c DEF CloseUse, TakeUse, Goto, ActiveAccounts, End
  <2>6. ListConsistent'
    BY <1>p, <1>n DEF CloseUse, TakeUse, Goto, ListConsistent
  <2>7. ReadIsCurrent'
    BY <1>p, <1>t, <2>s DEF CloseUse, TakeUse, Goto, ReadIsCurrent, MutualExclusion, Inside
  <2>8. EndOnlyWhenDrained'
    BY <1>p, <1>t, <2>s DEF CloseUse, TakeUse, Goto, EndOnlyWhenDrained, ClosedByReader
  <2> QED
    BY <2>1, <2>2, <2>3, <2>4, <2>5, <2>6, <2>7, <2>8
<1>8. ASSUME Close
      PROVE  QueueInv'
  <2> USE <1>8
  <2>s. Inside' = Inside
    BY <1>p, <1>t DEF Close, Goto, Inside, ReaderPC, ConsumerPC
  <2>c. Reader \notin Claims /\ Claims' = Claims \cup {Reader}
        /\ ~closed /\ closed' /\ numThreads' = 0
    <3>1. ~closed /\ numThreads = 1
      BY <1>t DEF Close, ClosedByReader
    <3>2. numThreads' = 0 /\ closed' = (closed \/ numThreads' = 0)
      BY <3>1 DEF Close
    <3>3. closed'
      BY <3>2
    <3>4. Reader \notin Claims /\ Claims' = Claims \cup {Reader}
      BY <3>2, <1>p, <1>t DEF Close, Goto, Claims
    <3> QED
      BY <3>1, <3>2, <3>3, <3>4
  <2>1. TypeOK'
    BY <1>p, <1>t, <1>n, EmptySeq, <2>c DEF Close, Goto, TypeOK, ReaderPC, ConsumerPC, ListConsistent
  <2>2. UseSemaphore' /\ MutualExclusion'
    BY <1>p, <1>t, <2>s DEF Close, Goto, UseSemaphore, MutualExclusion, Inside
  <2>3. Places'
    BY <1>p, <1>t DEF Close, Goto, Places, ReaderPC, ConsumerPC
  <2>4. ClosedByReader'
    BY <1>p, <1>t, <2>c DEF Close, Goto, ClosedByReader, Places, ReaderPC
  <2>5. ActiveAccounts'
    <3>1. Cardinality(Claims)' = Cardinality(Claims) + 1
      BY <1>f, <2>c, FS_AddElement, FS_RemoveElement
    <3>2. End' = End + 1
      BY <2>c DEF Close, Goto, End
    <3> QED
      BY <3>1, <3>2, <1>f, <1>n DEF Close, Goto, ActiveAccounts
  <2>6. ListConsistent'
    BY <1>p, <1>n DEF Close, Goto, ListConsistent
  <2>7. ReadIsCurrent'
    BY <1>p, <1>t, <2>s DEF Close, Goto, ReadIsCurrent, MutualExclusion, Inside
  <2>8. EndOnlyWhenDrained'
    BY <1>p, <1>t, <2>s DEF Close, Goto, EndOnlyWhenDrained, ClosedByReader
  <2> QED
    BY <2>1, <2>2, <2>3, <2>4, <2>5, <2>6, <2>7, <2>8
<1>9. ASSUME ClosePost
      PROVE  QueueInv'
  <2> USE <1>9
  <2>s. Inside' = Inside
    BY <1>p, <1>t DEF ClosePost, PostActive, Goto, Inside, ReaderPC, ConsumerPC
  <2>c. Reader \in Claims /\ Claims' = Claims \ {Reader}
    BY <1>p, <1>t DEF ClosePost, PostActive, Goto, Claims, ReaderPC, ConsumerPC
  <2>1. TypeOK'
    BY <1>p, <1>t, <1>n, EmptySeq DEF ClosePost, PostActive, Goto, TypeOK, ReaderPC, ConsumerPC, ListConsistent
  <2>2. UseSemaphore' /\ MutualExclusion'
    BY <1>p, <1>t, <2>s DEF ClosePost, PostActive, Goto, UseSemaphore, MutualExclusion, Inside
  <2>3. Places'
    BY <1>p, <1>t DEF ClosePost, PostActive, Goto, Places, ReaderPC, ConsumerPC
  <2>4. ClosedByReader'
    BY <1>p, <1>t DEF ClosePost, PostActive, Goto, ClosedByReader, Places, ReaderPC
  <2>5. ActiveAccounts'
    <3>1. Cardinality(Claims)' = Cardinality(Claims) - 1
      BY <1>f, <2>c, FS_AddElement, FS_RemoveElement
    <3>2. End' = End
      BY DEF ClosePost, PostActive, Goto, End
    <3> QED
      BY <3>1, <3>2, <1>f, <1>n DEF ClosePost, PostActive, Goto, ActiveAccounts
  <2>6. ListConsistent'
    BY <1>p, <1>n DEF ClosePost, PostActive, Goto, ListConsistent
  <2>7. ReadIsCurrent'
    BY <1>p, <1>t, <2>s DEF ClosePost, PostActive, Goto, ReadIsCurrent, MutualExclusion, Inside
  <2>8. EndOnlyWhenDrained'
    BY <1>p, <1>t, <2>s DEF ClosePost, PostActive, Goto, EndOnlyWhenDrained, ClosedByReader
  <2> QED
    BY <2>1, <2>2, <2>3, <2>4, <2>5, <2>6, <2>7, <2>8
<1>10. ASSUME CloseReturn
      PROVE  QueueInv'
  <2> USE <1>10
  <2>s. Reader \in Inside /\ Inside' = Inside \ {Reader}
    BY <1>p, <1>t DEF CloseReturn, GiveUse, Goto, Inside, ReaderPC, ConsumerPC
  <2>c. Claims' = Claims
    BY <1>p, <1>t DEF CloseReturn, GiveUse, Goto, Claims, ReaderPC, ConsumerPC
  <2>1. TypeOK'
    BY <1>p, <1>t, <1>n, EmptySeq DEF CloseReturn, GiveUse, Goto, TypeOK, ReaderPC, ConsumerPC, ListConsistent
  <2>2. UseSemaphore' /\ MutualExclusion'
    BY <1>p, <1>t, <2>s DEF CloseReturn, GiveUse, Goto, UseSemaphore, MutualExclusion, Inside
  <2>3. Places'
    BY <1>p, <1>t DEF CloseReturn, GiveUse, Goto, Places, ReaderPC, ConsumerPC
  <2>4. ClosedByReader'
    BY <1>p, <1>t DEF CloseReturn, GiveUse, Goto, ClosedByReader, Places, ReaderPC
  <2>5. ActiveAccounts'
    BY <1>n, <2>c DEF CloseReturn, GiveUse, Goto, ActiveAccounts, End
  <2>6. ListConsistent'
    BY <1>p, <1>n DEF CloseReturn, GiveUse, Goto, ListConsistent
  <2>7. ReadIsCurrent'
    BY <1>p, <1>t, <2>s DEF CloseReturn, GiveUse, Goto, ReadIsCurrent, MutualExclusion, Inside
  <2>8. EndOnlyWhenDrained'
    BY <1>p, <1>t, <2>s DEF CloseReturn, GiveUse, Goto, EndOnlyWhenDrained, ClosedByReader
  <2> QED
    BY <2>1, <2>2, <2>3, <2>4, <2>5, <2>6, <2>7, <2>8
<1>11. ASSUME NEW c \in Consumer, GetActive(c)
      PROVE  QueueInv'
  <2> USE <1>11
  <2>s. Inside' = Inside
    BY <1>p, <1>t DEF GetActive, Goto, Inside, ReaderPC, ConsumerPC
  <2>c. c \notin Claims /\ Claims' = Claims \cup {c}
    BY <1>p, <1>t DEF GetActive, Goto, Claims, ReaderPC, ConsumerPC
  <2>1. TypeOK'
    BY <1>p, <1>t, <1>n, EmptySeq DEF GetActive, Goto, TypeOK, ReaderPC, ConsumerPC, ListConsistent
  <2>2. UseSemaphore' /\ MutualExclusion'
    BY <1>p, <1>t, <2>s DEF GetActive, Goto, UseSemaphore, MutualExclusion, Inside
  <2>3. Places'
    BY <1>p, <1>t DEF GetActive, Goto, Places, ReaderPC, ConsumerPC
  <2>4. ClosedByReader'
    BY <1>p, <1>t DEF GetActive, Goto, ClosedByReader, Places, ReaderPC
  <2>5. ActiveAccounts'
    <3>1. Cardinality(Claims)' = Cardinality(Claims) + 1
      BY <1>f, <2>c, FS_AddElement, FS_RemoveElement
    <3>2. End' = End
      BY DEF GetActive, Goto, End
    <3> QED
      BY <3>1, <3>2, <1>f, <1>n DEF GetActive, Goto, ActiveAccounts
  <2>6. ListConsistent'
    BY <1>p, <1>n DEF GetActive, Goto, ListConsistent
  <2>7. ReadIsCurrent'
    BY <1>p, <1>t, <2>s DEF GetActive, Goto, ReadIsCurrent, MutualExclusion, Inside
  <2>8. EndOnlyWhenDrained'
    BY <1>p, <1>t, <2>s DEF GetActive, Goto, EndOnlyWhenDrained, ClosedByReader
  <2> QED
    BY <2>1, <2>2, <2>3, <2>4, <2>5, <2>6, <2>7, <2>8
<1>12. ASSUME NEW c \in Consumer, GetUse(c)
      PROVE  QueueInv'
  <2> USE <1>12
  <2>s. c \notin Inside /\ Inside' = Inside \cup {c}
    BY <1>p, <1>t DEF GetUse, TakeUse, Goto, Inside, ReaderPC, ConsumerPC
  <2>c. Claims' = Claims
    BY <1>p, <1>t DEF GetUse, TakeUse, Goto, Claims, ReaderPC, ConsumerPC
  <2>1. TypeOK'
    BY <1>p, <1>t, <1>n, EmptySeq DEF GetUse, TakeUse, Goto, TypeOK, ReaderPC, ConsumerPC, ListConsistent
  <2>2. UseSemaphore' /\ MutualExclusion'
    BY <1>p, <1>t, <2>s DEF GetUse, TakeUse, Goto, UseSemaphore, MutualExclusion, Inside
  <2>3. Places'
    BY <1>p, <1>t DEF GetUse, TakeUse, Goto, Places, ReaderPC, ConsumerPC
  <2>4. ClosedByReader'
    BY <1>p, <1>t DEF GetUse, TakeUse, Goto, ClosedByReader, Places, ReaderPC
  <2>5. ActiveAccounts'
    BY <1>n, <2>c DEF GetUse, TakeUse, Goto, ActiveAccounts, End
  <2>6. ListConsistent'
    BY <1>p, <1>n DEF GetUse, TakeUse, Goto, ListConsistent
  <2>7. ReadIsCurrent'
    BY <1>p, <1>t, <2>s DEF GetUse, TakeUse, Goto, ReadIsCurrent, MutualExclusion, Inside
  <2>8. EndOnlyWhenDrained'
    BY <1>p, <1>t, <2>s DEF GetUse, TakeUse, Goto, EndOnlyWhenDrained, ClosedByReader
  <2> QED
    BY <2>1, <2>2, <2>3, <2>4, <2>5, <2>6, <2>7, <2>8
<1>13. ASSUME NEW c \in Consumer, GetRead(c)
      PROVE  QueueInv'
  <2> USE <1>13
  <2>s. Inside' = Inside
    BY <1>p, <1>t DEF GetRead, Goto, Inside, ReaderPC, ConsumerPC
  <2>c. Claims' = Claims
    BY <1>p, <1>t DEF GetRead, Goto, Claims, ReaderPC, ConsumerPC
  <2>l. list = <<>> => closed
    <3>1. c \in Claims
      BY <1>t DEF GetRead, Claims
    <3> QED
      BY <3>1, EmptyMeansClosed
  <2>1. TypeOK'
    BY <1>p, <1>t, <1>n, <2>l, EmptySeq DEF GetRead, Goto, TypeOK, ReaderPC, ConsumerPC, ListConsistent
  <2>2. UseSemaphore' /\ MutualExclusion'
    BY <1>p, <1>t, <2>s DEF GetRead, Goto, UseSemaphore, MutualExclusion, Inside
  <2>3. Places'
    BY <1>p, <1>t DEF GetRead, Goto, Places, ReaderPC, ConsumerPC
  <2>4. ClosedByReader'
    BY <1>p, <1>t DEF GetRead, Goto, ClosedByReader, Places, ReaderPC
  <2>5. ActiveAccounts'
    BY <1>n, <2>c DEF GetRead, Goto, ActiveAccounts, End
  <2>6. ListConsistent'
    BY <1>p, <1>n, <2>l DEF GetRead, Goto, ListConsistent
  <2>7. ReadIsCurrent'
    BY <1>p, <1>t, <2>s, <2>l DEF GetRead, Goto, ReadIsCurrent, MutualExclusion, Inside
  <2>8. EndOnlyWhenDrained'
    BY <1>p, <1>t, <2>s, <2>l DEF GetRead, Goto, EndOnlyWhenDrained, ClosedByReader
  <2> QED
    BY <2>1, <2>2, <2>3, <2>4, <2>5, <2>6, <2>7, <2>8
<1>14. ASSUME NEW c \in Consumer, GetRepost(c)
      PROVE  QueueInv'
  <2> USE <1>14
  <2>s. Inside' = Inside
    BY <1>p, <1>t DEF GetRepost, PostActive, Goto, Inside, ReaderPC, ConsumerPC
  <2>c. c \in Claims /\ Claims' = Claims \ {c}
    BY <1>p, <1>t DEF GetRepost, PostActive, Goto, Claims, ReaderPC, ConsumerPC
  <2>1. TypeOK'
    BY <1>p, <1>t, <1>n, EmptySeq DEF GetRepost, PostActive, Goto, TypeOK, ReaderPC, ConsumerPC, ListConsistent
  <2>2. UseSemaphore' /\ MutualExclusion'
    BY <1>p, <1>t, <2>s DEF GetRepost, PostActive, Goto, UseSemaphore, MutualExclusion, Inside
  <2>3. Places'
    BY <1>p, <1>t DEF GetRepost, PostActive, Goto, Places, ReaderPC, ConsumerPC
  <2>4. ClosedByReader'
    BY <1>p, <1>t DEF GetRepost, PostActive, Goto, ClosedByReader, Places, ReaderPC
  <2>5. ActiveAccounts'
    <3>1. Cardinality(Claims)' = Cardinality(Claims) - 1
      BY <1>f, <2>c, FS_AddElement, FS_RemoveElement
    <3>2. End' = End
      BY DEF GetRepost, PostActive, Goto, End
    <3> QED
      BY <3>1, <3>2, <1>f, <1>n DEF GetRepost, PostActive, Goto, ActiveAccounts
  <2>6. ListConsistent'
    BY <1>p, <1>n DEF GetRepost, PostActive, Goto, ListConsistent
  <2>7. ReadIsCurrent'
    BY <1>p, <1>t, <2>s DEF GetRepost, PostActive, Goto, ReadIsCurrent, MutualExclusion, Inside
  <2>8. EndOnlyWhenDrained'
    BY <1>p, <1>t, <2>s DEF GetRepost, PostActive, Goto, EndOnlyWhenDrained, ClosedByReader
  <2> QED
    BY <2>1, <2>2, <2>3, <2>4, <2>5, <2>6, <2>7, <2>8
<1>15. ASSUME NEW c \in Consumer, GetEnd(c)
      PROVE  QueueInv'
  <2> USE <1>15
  <2>s. c \in Inside /\ Inside' = Inside \ {c}
    BY <1>p, <1>t DEF GetEnd, GiveUse, Goto, Inside, ReaderPC, ConsumerPC
  <2>c. Claims' = Claims
    BY <1>p, <1>t DEF GetEnd, GiveUse, Goto, Claims, ReaderPC, ConsumerPC
  <2>1. TypeOK'
    BY <1>p, <1>t, <1>n, EmptySeq DEF GetEnd, GiveUse, Goto, TypeOK, ReaderPC, ConsumerPC, ListConsistent
  <2>2. UseSemaphore' /\ MutualExclusion'
    BY <1>p, <1>t, <2>s DEF GetEnd, GiveUse, Goto, UseSemaphore, MutualExclusion, Inside
  <2>3. Places'
    BY <1>p, <1>t DEF GetEnd, GiveUse, Goto, Places, ReaderPC, ConsumerPC
  <2>4. ClosedByReader'
    BY <1>p, <1>t DEF GetEnd, GiveUse, Goto, ClosedByReader, Places, ReaderPC
  <2>5. ActiveAccounts'
    BY <1>n, <2>c DEF GetEnd, GiveUse, Goto, ActiveAccounts, End
  <2>6. ListConsistent'
    BY <1>p, <1>n DEF GetEnd, GiveUse, Goto, ListConsistent
  <2>7. ReadIsCurrent'
    BY <1>p, <1>t, <2>s DEF GetEnd, GiveUse, Goto, ReadIsCurrent, MutualExclusion, Inside
  <2>8. EndOnlyWhenDrained'
    BY <1>p, <1>t, <2>s DEF GetEnd, GiveUse, Goto, EndOnlyWhenDrained, ClosedByReader
  <2> QED
    BY <2>1, <2>2, <2>3, <2>4, <2>5, <2>6, <2>7, <2>8
<1>16. ASSUME NEW c \in Consumer, GetUnlink(c)
      PROVE  QueueInv'
  <2> USE <1>16
  <2>s. Inside' = Inside
    BY <1>p, <1>t DEF GetUnlink, Goto, Inside, ReaderPC, ConsumerPC
  <2>c. c \in Claims /\ Claims' = Claims \ {c}
    BY <1>p, <1>t DEF GetUnlink, Goto, Claims, ReaderPC, ConsumerPC
  <2>l. /\ list # <<>> /\ ret[c] = list /\ list' = Tail(list)
        /\ list' \in Seq(Nat) /\ Len(list') = Len(list) - 1
        /\ list' # <<>> => list'[Len(list')] = list[Len(list)]
    <3>1. list # <<>> /\ ret[c] = list
      BY DEF GetUnlink, ReadIsCurrent
    <3>2. /\ Tail(list) \in Seq(Nat) /\ Len(Tail(list)) = Len(list) - 1
          /\ \A i \in 1 .. Len(Tail(list)) : Tail(list)[i] = list[i + 1]
      BY <3>1, <1>p, HeadTailProperties
    <3>3. list' = Tail(list)
      BY <3>1 DEF GetUnlink
    <3>4. Tail(list) # <<>> => Len(Tail(list)) \in 1 .. Len(Tail(list))
      BY <3>2, EmptySeq
    <3> QED
      BY <3>1, <3>2, <3>3, <3>4, <1>n
  <2>1. TypeOK'
    BY <1>p, <1>t, <1>n, <2>l, EmptySeq DEF GetUnlink, Goto, TypeOK, ReaderPC, ConsumerPC, ListConsistent
  <2>2. UseSemaphore' /\ MutualExclusion'
    BY <1>p, <1>t, <2>s DEF GetUnlink, Goto, UseSemaphore, MutualExclusion, Inside
  <2>3. Places'
    BY <1>p, <1>t DEF GetUnlink, Goto, Places, ReaderPC, ConsumerPC
  <2>4. ClosedByReader'
    BY <1>p, <1>t DEF GetUnlink, Goto, ClosedByReader, Places, ReaderPC
  <2>5. ActiveAccounts'
    <3>1. Cardinality(Claims)' = Cardinality(Claims) - 1
      BY <1>f, <2>c, FS_AddElement, FS_RemoveElement
    <3>2. End' = End
      BY DEF GetUnlink, Goto, End
    <3> QED
      BY <3>1, <3>2, <1>f, <1>n, <2>l, SMTT(20) DEF GetUnlink, Goto, ActiveAccounts
  <2>6. ListConsistent'
    BY <1>p, <1>n, <2>l DEF GetUnlink, Goto, ListConsistent
  <2>7. ReadIsCurrent'
    BY <1>p, <1>t, <2>s, <2>l DEF GetUnlink, Goto, ReadIsCurrent, MutualExclusion, Inside
  <2>8. EndOnlyWhenDrained'
    BY <1>p, <1>t, <2>s, <2>l DEF GetUnlink, Goto, EndOnlyWhenDrained, ClosedByReader
  <2> QED
    BY <2>1, <2>2, <2>3, <2>4, <2>5, <2>6, <2>7, <2>8
<1>17. ASSUME NEW c \in Consumer, GetReturn(c)
      PROVE  QueueInv'
  <2> USE <1>17
  <2>s. c \in Inside /\ Inside' = Inside \ {c}
    BY <1>p, <1>t DEF GetReturn, GiveUse, Goto, Inside, ReaderPC, ConsumerPC
  <2>c. Claims' = Claims
    BY <1>p, <1>t DEF GetReturn, GiveUse, Goto, Claims, ReaderPC, ConsumerPC
  <2>1. TypeOK'
    BY <1>p, <1>t, <1>n, EmptySeq DEF GetReturn, GiveUse, Goto, TypeOK, ReaderPC, ConsumerPC, ListConsistent
  <2>2. UseSemaphore' /\ MutualExclusion'
    BY <1>p, <1>t, <2>s DEF GetReturn, GiveUse, Goto, UseSemaphore, MutualExclusion, Inside
  <2>3. Places'
    BY <1>p, <1>t DEF GetReturn, GiveUse, Goto, Places, ReaderPC, ConsumerPC
  <2>4. ClosedByReader'
    BY <1>p, <1>t DEF GetReturn, GiveUse, Goto, ClosedByReader, Places, ReaderPC
  <2>5. ActiveAccounts'
    BY <1>n, <2>c DEF GetReturn, GiveUse, Goto, ActiveAccounts, End
  <2>6. ListConsistent'
    BY <1>p, <1>n DEF GetReturn, GiveUse, Goto, ListConsistent
  <2>7. ReadIsCurrent'
    BY <1>p, <1>t, <2>s DEF GetReturn, GiveUse, Goto, ReadIsCurrent, MutualExclusion, Inside
  <2>8. EndOnlyWhenDrained'
    BY <1>p, <1>t, <2>s DEF GetReturn, GiveUse, Goto, EndOnlyWhenDrained, ClosedByReader
  <2> QED
    BY <2>1, <2>2, <2>3, <2>4, <2>5, <2>6, <2>7, <2>8
<1>18. CASE UNCHANGED vars
  BY <1>18 DEF vars, TypeOK, UseSemaphore, MutualExclusion, Places, ClosedByReader,
     ActiveAccounts, ListConsistent, ReadIsCurrent, EndOnlyWhenDrained, Inside,
     Claims, End
<1> QED
  BY <1>1, <1>2, <1>3, <1>4, <1>5, <1>6, <1>7, <1>8, <1>9,
     <1>10, <1>11, <1>12, <1>13, <1>14, <1>15, <1>16, <1>17, <1>18
     DEF Next, ReaderStep, ConsumerStep, Joined

-----------------------------------------------------------------------------
LEMMA QueueInvariant == Spec => []QueueInv
<1>1. Init => QueueInv
  BY QueueStarts
<1>2. QueueInv /\ [Next]_vars => QueueInv'
  BY QueueSteps
<1> QED
  BY <1>1, <1>2, PTL DEF Spec

(* The variables of the queue have their types.                             *)
THEOREM QueueTypeCorrect == Spec => []TypeOK
<1>1. QueueInv => TypeOK
  BY DEF QueueInv
<1> QED
  BY <1>1, QueueInvariant, PTL

(* At most one thread works on the list.                                    *)
THEOREM QueueIsExclusive == Spec => []MutualExclusion
<1>1. QueueInv => MutualExclusion
  BY DEF QueueInv
<1> QED
  BY <1>1, QueueInvariant, PTL

(* "active" counts the jobs and the close, whoever holds the units.         *)
THEOREM ActiveIsExact == Spec => []ActiveAccounts
<1>1. QueueInv => ActiveAccounts
  BY DEF QueueInv
<1> QED
  BY <1>1, QueueInvariant, PTL

(* head, tail and len always agree: no assertion of the queue fails.        *)
THEOREM LinksAgree == Spec => []ListConsistent
<1>1. QueueInv => ListConsistent
  BY DEF QueueInv
<1> QED
  BY <1>1, QueueInvariant, PTL

(* A compress thread returns only when every job has been taken.            *)
THEOREM EndMeansDrained == Spec => []EndOnlyWhenDrained
<1>1. QueueInv => EndOnlyWhenDrained
  BY DEF QueueInv
<1> QED
  BY <1>1, QueueInvariant, PTL

(* The queue implements the FIFO.  The visible steps are AddLink, GetUnlink, *)
(* Close, and GetRead when it finds the end.                                *)
THEOREM QueueImplementsFifo == Spec => AbstractSpec
<1> DEFINE ended == {c \in Consumer : pc[c] \in {"get_repost", "get_end", "done"}}
           Visible == <<list, closed, seq, ended>>
<1>1. Init => Abstract!Init
  BY QueueAssumption DEF Init, Abstract!Init, Thread
<1>2. QueueInv /\ [Next]_vars => [Abstract!Next]_Visible
  <2> SUFFICES ASSUME QueueInv, [Next]_vars
               PROVE  Abstract!Next \/ UNCHANGED Visible
    OBVIOUS
  <2>t. /\ Reader \in Thread /\ Reader \notin Consumer
        /\ \A c \in Consumer : c \in Thread /\ c # Reader
    BY QueueAssumption DEF Thread
  <2>p. pc \in [Thread -> ReaderPC \cup ConsumerPC] /\ list \in Seq(Nat) /\ seq \in Nat
    BY DEF QueueInv, TypeOK
  <2>1. ASSUME AddLink
        PROVE  Abstract!Next
    <3>1. list = <<>> => tail = NoJob
      BY DEF QueueInv, ListConsistent
    <3>2. list # <<>> => tail = list[Len(list)] /\ tail # NoJob
      BY <2>p, LenProperties, EmptySeq, ElementOfSeq DEF QueueInv, ListConsistent, NoJob
    <3>3. list = <<>> => Append(list, seq) = <<seq>>
      BY <2>p
    <3>4. list' = Append(list, seq) /\ seq' = seq + 1 /\ closed' = closed
      BY <2>1, <3>1, <3>2, <3>3 DEF AddLink
    <3>5. ~closed
      BY <2>1 DEF AddLink, QueueInv, ClosedByReader
    <3>6. ended' = ended
      BY <2>1, <2>t, <2>p DEF AddLink, Goto
    <3> QED
      BY <3>4, <3>5, <3>6 DEF Abstract!Next, Abstract!Add
  <2>2. ASSUME Close
        PROVE  Abstract!Next
    <3>1. ~closed /\ numThreads = 1
      BY <2>2 DEF Close, QueueInv, ClosedByReader
    <3>2. numThreads' = 0 /\ closed' = (closed \/ numThreads' = 0)
      BY <2>2, <3>1 DEF Close
    <3>3. closed' = TRUE
      BY <3>2
    <3>4. ended' = ended /\ UNCHANGED <<list, seq>>
      BY <2>2, <2>t, <2>p DEF Close, Goto
    <3> QED
      BY <3>1, <3>3, <3>4 DEF Abstract!Next, Abstract!Close
  <2>3. ASSUME NEW c \in Consumer, GetUnlink(c)
        PROVE  Abstract!Next
    <3>1. list # <<>> /\ list' = Tail(list) /\ UNCHANGED <<closed, seq>>
      BY <2>3 DEF GetUnlink, QueueInv, ReadIsCurrent
    <3>2. ended' = ended
      BY <2>3, <2>t, <2>p DEF GetUnlink, Goto
    <3> QED
      BY <3>1, <3>2 DEF Abstract!Next, Abstract!Take
  <2>4. ASSUME NEW c \in Consumer, GetRead(c)
        PROVE  Abstract!Next \/ UNCHANGED Visible
    <3>0. UNCHANGED <<list, closed, seq>>
      BY <2>4 DEF GetRead
    <3>1. CASE list = <<>>
      <4>1. c \in Claims
        BY <2>4, <2>t DEF GetRead, Claims
      <4>2. closed
        BY <3>1, <4>1, EmptyMeansClosed DEF QueueInv
      <4>3. ended' = ended \cup {c}
        BY <2>4, <3>1, <2>t, <2>p DEF GetRead, Goto
      <4> QED
        BY <3>0, <3>1, <4>2, <4>3 DEF Abstract!Next, Abstract!End
    <3>2. CASE list # <<>>
      <4>1. ended' = ended
        BY <2>4, <3>2, <2>t, <2>p DEF GetRead, Goto
      <4> QED
        BY <3>0, <4>1
    <3> QED
      BY <3>1, <3>2
  <2>5. ASSUME \/ AddCall \/ AddUse \/ AddPost \/ AddReturn
               \/ CloseCall \/ CloseUse \/ ClosePost \/ CloseReturn
        PROVE  UNCHANGED Visible
    <3>1. UNCHANGED <<list, closed, seq>>
      BY <2>5 DEF AddCall, AddUse, AddPost, AddReturn, CloseCall, CloseUse,
                  ClosePost, CloseReturn, TakeUse, GiveUse, PostActive
    <3>2. ended' = ended
      BY <2>5, <2>t, <2>p DEF AddCall, AddUse, AddPost, AddReturn, CloseCall, CloseUse,
                  ClosePost, CloseReturn, TakeUse, GiveUse, PostActive, Goto
    <3> QED
      BY <3>1, <3>2
  <2>6. ASSUME NEW c \in Consumer,
               GetActive(c) \/ GetUse(c) \/ GetRepost(c) \/ GetEnd(c) \/ GetReturn(c)
        PROVE  UNCHANGED Visible
    <3>1. UNCHANGED <<list, closed, seq>>
      BY <2>6 DEF GetActive, GetUse, GetRepost, GetEnd, GetReturn, TakeUse,
                  GiveUse, PostActive
    <3>2. ended' = ended
      BY <2>6, <2>t, <2>p DEF GetActive, GetUse, GetRepost, GetEnd, GetReturn,
                  TakeUse, GiveUse, PostActive, Goto
    <3> QED
      BY <3>1, <3>2
  <2>7. CASE UNCHANGED vars
    BY <2>7 DEF vars
  <2> QED
    BY <2>1, <2>2, <2>3, <2>4, <2>5, <2>6, <2>7
       DEF Next, ReaderStep, ConsumerStep, Joined
<1> QED
  BY <1>1, <1>2, QueueInvariant, PTL DEF Spec, AbstractSpec, Abstract!Spec
=============================================================================
