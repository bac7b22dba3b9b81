----------------------------- MODULE SpacePool ------------------------------
(***************************************************************************)
(* The pool of spaces of parallel.c (get_space, drop_space) at the          *)
(* granularity of its two semaphores.  "have" counts the free spaces, "safe" *)
(* guards the free list.  get_space dereferences pool->head without a NULL   *)
(* check: that the list is not empty at that point is a consequence of the   *)
(* two semaphores only, and is what this module is about.                    *)
(*                                                                         *)
(* The free list is the sequence of the spaces reached from pool->head.     *)
(* chain[t] is the list reached from the local variable "space" of thread   *)
(* t, so Head(chain[t]) is the space and <<>> is a NULL pointer.            *)
(*                                                                         *)
(* A space may be dropped by another thread than the one that got it: the   *)
(* reader gets it, a compress thread or the writer drops it.                *)
(***************************************************************************)
EXTENDS Naturals, Sequences, FiniteSets

CONSTANTS User,     \* the threads that share the pool
          Space     \* the spaces new_pool allocates, pool->limit of them

ASSUME PoolAssumption == /\ IsFiniteSet(User)
                         /\ IsFiniteSet(Space)
                         /\ Space # {}

VARIABLES freeList, \* the free list, from pool->head
          have,     \* value of the semaphore pool->have
          safe,     \* value of the semaphore pool->safe
          at,       \* where each thread is
          chain,    \* the local variable "space" of each thread
          lent      \* the spaces that are out of the list

poolVars == <<freeList, have, safe, at, chain, lent>>

PoolPlaces == {"idle", "get_have", "get_safe", "get_read", "get_unlink", "get_unlock",
               "drop_safe", "drop_link", "drop_head", "drop_post", "drop_unlock"}

SpacesOf(q) == {q[i] : i \in DOMAIN q}

Distinct(q) == \A i, j \in DOMAIN q : q[i] = q[j] => i = j

Proceed(t, to) == at' = [at EXCEPT ![t] = to]

(* new_pool: limit spaces linked into the list, in any order               *)
PoolInit == /\ freeList \in {q \in [1 .. Cardinality(Space) -> Space] : Distinct(q)}
            /\ have = Cardinality(Space)
            /\ safe = 1
            /\ at = [t \in User |-> "idle"]
            /\ chain = [t \in User |-> <<>>]
            /\ lent = {}

-----------------------------------------------------------------------------
(* get_space                                                               *)

GetCall(t) == /\ at[t] = "idle"
              /\ Proceed(t, "get_have")
              /\ UNCHANGED <<freeList, have, safe, chain, lent>>

GetHaveEarly(t) ==        \* mutant: sem_trywait whose failure is ignored
              /\ at[t] = "get_have"
              /\ have' = IF have > 0 THEN have - 1 ELSE have
              /\ Proceed(t, "get_safe")
              /\ UNCHANGED <<freeList, safe, chain, lent>>

GetHave(t) == /\ at[t] = "get_have"
              /\ have > 0
              /\ have' = have - 1
              /\ Proceed(t, "get_safe")
              /\ UNCHANGED <<freeList, safe, chain, lent>>

GetSafe(t) == /\ at[t] = "get_safe"
              /\ safe > 0
              /\ safe' = safe - 1
              /\ Proceed(t, "get_read")
              /\ UNCHANGED <<freeList, have, chain, lent>>

ReadHead(t) == /\ at[t] = "get_read"
               /\ chain' = [chain EXCEPT ![t] = freeList]
               /\ Proceed(t, "get_unlink")
               /\ UNCHANGED <<freeList, have, safe, lent>>

(* pool->head = space->next: a NULL "space" is dereferenced here           *)
Unlink(t) == /\ at[t] = "get_unlink"
             /\ freeList' = Tail(chain[t])
             /\ lent' = lent \cup {Head(chain[t])}
             /\ Proceed(t, "get_unlock")
             /\ UNCHANGED <<have, safe, chain>>

GetUnlock(t) == /\ at[t] = "get_unlock"
                /\ safe' = safe + 1
                /\ chain' = [chain EXCEPT ![t] = <<>>]
                /\ Proceed(t, "idle")
                /\ UNCHANGED <<freeList, have, lent>>

-----------------------------------------------------------------------------
(* drop_space                                                              *)

(* A client drops a space it owns, and hands it to one drop_space only     *)
DropCall(t, s) == /\ at[t] = "idle"
                  /\ s \in lent
                  /\ \A u \in User : s \notin SpacesOf(chain[u])
                  /\ chain' = [chain EXCEPT ![t] = <<s>>]
                  /\ Proceed(t, "drop_safe")
                  /\ UNCHANGED <<freeList, have, safe, lent>>

DropSafeNoWait(t) ==      \* mutant: the list is changed without the lock
               /\ at[t] = "drop_safe"
               /\ Proceed(t, "drop_link")
               /\ UNCHANGED <<freeList, have, safe, chain, lent>>

DropSafe(t) == /\ at[t] = "drop_safe"
               /\ safe > 0
               /\ safe' = safe - 1
               /\ Proceed(t, "drop_link")
               /\ UNCHANGED <<freeList, have, chain, lent>>

DropLinkForgotten(t) ==   \* mutant: space->next is not set
               /\ at[t] = "drop_link"
               /\ Proceed(t, "drop_head")
               /\ UNCHANGED <<freeList, have, safe, chain, lent>>

DropLink(t) == /\ at[t] = "drop_link"
               /\ chain' = [chain EXCEPT ![t] = @ \o freeList]
               /\ Proceed(t, "drop_head")
               /\ UNCHANGED <<freeList, have, safe, lent>>

DropHead(t) == /\ at[t] = "drop_head"
               /\ freeList' = chain[t]
               /\ lent' = lent \ {Head(chain[t])}
               /\ Proceed(t, "drop_post")
               /\ UNCHANGED <<have, safe, chain>>

(* release_lock(have) comes first, while "safe" is still held              *)
DropPost(t) == /\ at[t] = "drop_post"
               /\ have' = have + 1
               /\ Proceed(t, "drop_unlock")
               /\ UNCHANGED <<freeList, safe, chain, lent>>

DropReturn(t) == /\ at[t] = "drop_unlock"
                 /\ safe' = safe + 1
                 /\ chain' = [chain EXCEPT ![t] = <<>>]
                 /\ Proceed(t, "idle")
                 /\ UNCHANGED <<freeList, have, lent>>

-----------------------------------------------------------------------------
ThreadStep(t) == \/ GetCall(t) \/ GetHave(t) \/ GetSafe(t)
                 \/ ReadHead(t) \/ Unlink(t) \/ GetUnlock(t)
                 \/ DropSafe(t) \/ DropLink(t) \/ DropHead(t)
                 \/ DropPost(t) \/ DropReturn(t)

PoolNext == \E t \in User : \/ ThreadStep(t)
                            \/ \E s \in Space : DropCall(t, s)

PoolSpec == PoolInit /\ [][PoolNext]_poolVars

-----------------------------------------------------------------------------
(* What the variables hold (proved in LockedListsProofs).                  *)
PoolTypeOK == /\ freeList \in Seq(Space)
              /\ have \in Nat
              /\ safe \in Nat
              /\ at \in [User -> PoolPlaces]
              /\ chain \in [User -> Seq(Space)]
              /\ lent \in SUBSET Space

(* The threads between get_lock(safe) and release_lock(safe)               *)
InPool == {t \in User : at[t] \in {"get_read", "get_unlink", "get_unlock",
                        "drop_link", "drop_head", "drop_post", "drop_unlock"}}

(* The threads that took a unit of "have" and no space for it yet          *)
SpaceClaims == {t \in User : at[t] \in {"get_safe", "get_read", "get_unlink"}}

(* The threads that linked a space and did not post "have" for it yet      *)
Unposted == {t \in User : at[t] = "drop_post"}

(* At most one thread works on the free list (parallel.c:168, "ensures      *)
(* safe use of pool in multithreaded environment").                         *)
PoolExclusion == \A t, u \in InPool : t = u

(* Every free space is accounted for exactly once: as a unit of "have", as  *)
(* the claim of a thread that is about to unlink it, or as a space whose    *)
(* post is still to come.  A unit too many lets get_space run into a NULL   *)
(* head, a unit too few makes the reader wait for a space that is there.    *)
HaveAccounts == have + Cardinality(SpaceClaims) + Cardinality(Unposted) = Len(freeList)

(* get_space never dereferences a NULL pool->head (parallel.c:209-211).     *)
NoNullHead == \A t \in User : at[t] = "get_unlink" => chain[t] # <<>>

(* No space is lost, listed twice, or lent while it is in the list: two     *)
(* jobs never share a buffer and the pool never shrinks.                    *)
NoSpaceLostOrShared == /\ Distinct(freeList)
                       /\ SpacesOf(freeList) \cap lent = {}
                       /\ SpacesOf(freeList) \cup lent = Space

(* The pool implements the bank of buffers: a space is lent when it is      *)
(* unlinked, and is back when pool->head points to it.                      *)
Bank == INSTANCE BufferBank WITH free <- SpacesOf(freeList)
BankSpec == Bank!Spec
=============================================================================
