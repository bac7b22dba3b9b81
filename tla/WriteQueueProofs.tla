-------------------------- MODULE WriteQueueProofs --------------------------
(***************************************************************************)
(* Proofs about the queue between the compress threads and the writer, for  *)
(* any number of compress threads and blocks.                               *)
(*                                                                         *)
(* The writer walks through the list while others add to it, so that the    *)
(* inductive invariant IInv has to say what it can see.  "chain" is the     *)
(* list as it will be when the store of a half published job arrives, and   *)
(* "rank" the order in which the jobs were added: the pointers of the chain *)
(* lead from every job to the one of the next lower rank, and a walk does   *)
(* not step over a job that was there when it began.                       *)
(***************************************************************************)
EXTENDS WriteQueue, FiniteSetTheorems, TLAPS

(* The places of the two kinds of threads, and those inside the lock.       *)
AddAt   == {"add", "add_head", "add_late_link", "add_post", "add_unlock"}
CloseAt == {"close_post", "bc_lock", "bc_set", "bc_unlock", "close_unlock"}
WorkerAt == AddAt \cup CloseAt \cup {"take", "add_use", "sig_lock", "sig_set",
                                     "sig_unlock", "close_use", "close", "done"}
WriterAt == {"closed?", "wait_lock", "wait_test", "asleep", "wait_unlock",
             "search", "search_step", "get_use", "unlink", "get_unlock",
             "done", "null"}

Inside == {c \in Worker : pc[c] \in AddAt \cup CloseAt \cup {"close"}}
          \cup {w \in {Writer} : pc[w] \in {"unlink", "get_unlock"}}

(* A compress thread has its job in hand until it is in the list and        *)
(* counted; it has left when it has done its part of close_job_queue.       *)
HasJob == {c \in Worker : pc[c] \in (AddAt \ {"add_unlock"}) \cup {"add_use"}}
Remain == {c \in Worker : pc[c] \notin CloseAt \cup {"done"}}

InHand == {job[c] : c \in HasJob}
Counted == {j \in Job : j < taken /\ j \notin InHand}

(* The jobs that head and the chain lead to.                                *)
Queue == {j \in Job : /\ j < taken /\ j >= seq
                      /\ pc[Writer] = "get_unlock" => j # seq
                      /\ \A c \in HasJob : 
                            job[c] = j => pc[c] \in {"add_late_link", "add_post"}}

Listed == Queue \ InHand

-----------------------------------------------------------------------------
(* The inductive invariant                                                 *)

TypeInv == /\ blocks \in 0 .. MaxBlocks /\ taken \in 0 .. blocks
           /\ {head, tail, cursor} \subseteq Job \cup {NoJob}
           /\ next \in [Job -> Job \cup {NoJob}]
           /\ {closed, mutex, ready, asleep, seen} \subseteq BOOLEAN
           /\ job \in [Worker -> Job \cup {NoJob}]
           /\ old \in [Worker -> Job \cup {NoJob}]
           /\ seq \in 0 .. taken
           /\ DOMAIN pc = Thread
           /\ pc[Writer] \in WriterAt
           /\ \A c \in Worker : pc[c] \in WorkerAt

(* "use" is free exactly when nobody is inside, and one thread is at most.  *)
LockInv == /\ use \in {0, 1}
           /\ use = 1 <=> Inside = {}
           /\ \A a, b \in Inside : a = b

(* The jobs in hand are different, taken, and not written yet.              *)
HandInv == /\ \A c \in HasJob : job[c] \in seq .. taken - 1
           /\ \A c \in Worker \ HasJob : job[c] = NoJob
           /\ \A c, d \in HasJob : job[c] = job[d] => c = d
           /\ \A c \in Worker : pc[c] # "add_late_link" => old[c] = NoJob

(* The queue is closed by the last thread, when all blocks were taken.      *)
CloseInv == /\ numThreads = Cardinality(Remain)
            /\ closed <=> Remain = {}
            /\ \A c \in Worker :
                  pc[c] \in CloseAt \cup {"close_use", "close", "done"} => taken = blocks
            /\ \A c \in Worker : pc[c] \in CloseAt \ {"close_unlock"} => closed

CountInv == /\ len = Cardinality(Listed)
            /\ active = Cardinality(Counted) +
                  IF closed /\ \A c \in Worker : pc[c] # "close_post" THEN 1 ELSE 0

(* The pointers of the chain lead to the job that was added before.         *)
Ordered(chain, rank) ==
    /\ \A j \in Queue : /\ chain[j] \in Queue \cup {NoJob}
                        /\ chain[j] # NoJob => rank[chain[j]] < rank[j]
    /\ \A j, k \in Queue : rank[k] < rank[j]
                              => chain[j] # NoJob /\ rank[k] <= rank[chain[j]]
    /\ \A j, k \in Queue : rank[j] = rank[k] => j = k

(* head is the last one added, and only a late link is not there yet.       *)
Linked(chain, rank) ==
    /\ head \in Queue \cup {NoJob}
    /\ \A j \in Queue : head # NoJob /\ rank[j] <= rank[head]
    /\ \A j \in Queue : \/ next[j] = chain[j]
                        \/ \E c \in Worker : pc[c] = "add_late_link" /\ job[c] = j
    /\ \A c \in Worker : pc[c] = "add_late_link" => /\ head = job[c]
                                                    /\ next[job[c]] = NoJob
                                                    /\ chain[job[c]] = old[c]

(* The walk of the writer stays in the list, and when the queue was closed  *)
(* before it began, the block it looks for is still ahead.                  *)
Ahead(rank) ==
    pc[Writer] = "search_step" =>
        /\ cursor \in Queue \cup {NoJob}
        /\ seen /\ seq < blocks => cursor # NoJob /\ rank[seq] <= rank[cursor]

ListInv == \E chain \in [Job -> Job \cup {NoJob}], rank \in [Job -> Nat], n \in Nat :
              /\ \A j \in Queue : rank[j] < n
              /\ Ordered(chain, rank)
              /\ Linked(chain, rank)
              /\ Ahead(rank)

(* A pointer of a job that is not in the list leads nowhere, unless the job *)
(* is on its way in or out.                                                *)
LooseInv == /\ \A j \in Job \ Queue :
                  \/ next[j] = NoJob
                  \/ \E c \in Worker : pc[c] = "add_head" /\ job[c] = j
                  \/ pc[Writer] = "get_unlock" /\ j = seq
            /\ \A c \in Worker : pc[c] = "add_head" => next[job[c]] = head

WriterInv == /\ pc[Writer] \in {"get_use", "unlink"} => cursor = seq /\ seq \in Queue
             /\ pc[Writer] = "get_unlock" => seq < taken /\ seq \notin InHand
             /\ pc[Writer] \in {"done", "null"} => seq = blocks
             /\ seen => closed

IInv == /\ TypeInv
        /\ LockInv
        /\ HandInv
        /\ CloseInv
        /\ CountInv
        /\ ListInv
        /\ LooseInv
        /\ WriterInv

-----------------------------------------------------------------------------
(* The steps that only move a thread, take or give a semaphore, or look at  *)
(* something: who has which job and what is in the list stays as it is.     *)
QuietWorker(c) == \/ TakeEnd(c) \/ AddUse(c) \/ AddUnlock(c)
                  \/ SigLock(c) \/ SigSet(c) \/ SigUnlock(c)
                  \/ CloseUse(c) \/ ClosePost(c)
                  \/ BcLock(c) \/ BcSet(c) \/ BcUnlock(c) \/ CloseReturn(c)

Waiting == ReadClosed \/ WaitLock \/ WaitTest \/ Wake \/ SpuriousWake \/ WaitUnlock
Walking == SearchHead \/ SearchStep \/ SearchFound \/ SearchFailed \/ GetUse

(* Facts about the constants that every lemma uses.                         *)
LEMMA Basics ==
    /\ Job \in SUBSET Int /\ IsFiniteSet(Job) /\ Cardinality(Job) = MaxBlocks
    /\ NoJob \notin Job /\ NoJob = -1
    /\ MaxBlocks \in Nat
    /\ \A j : j \in Job <=> j \in Int /\ 0 <= j /\ j < MaxBlocks
    /\ Writer \in Thread /\ Writer \notin Worker
    /\ \A c \in Worker : c \in Thread /\ c # Writer
<1>1. MaxBlocks \in Nat /\ IsFiniteSet(Job) /\ Cardinality(Job) = MaxBlocks
  BY WriteAssumption, FS_Interval DEF Job
<1> QED
  BY <1>1, WriteAssumption DEF Job, NoJob, Thread

(* A set of jobs has one that was added first.                              *)
LEMMA FirstAdded ==
    ASSUME NEW D \in SUBSET Job, D # {}, NEW rank \in [Job -> Nat]
    PROVE  \E k \in D : \A j \in D : rank[k] <= rank[j]
<1> DEFINE Before(k) == {j \in D : rank[j] <= rank[k]}
           T == {Before(k) : k \in D}
<1>1. IsFiniteSet(D)
  BY Basics, FS_Subset
<1>2. T \subseteq FiniteSubsetsOf(D) /\ T # {}
  <2>1. \A k \in D : Before(k) \in SUBSET D
    OBVIOUS
  <2>2. FiniteSubsetsOf(D) = SUBSET D
    BY <1>1, FS_FiniteSubsetsOfFinite
  <2> HIDE DEF Before
  <2> QED
    BY <2>1, <2>2
<1>3. PICK a \in T : \A b \in T : <<b, a>> \notin StrictSubsetOrdering(D)
  <2> HIDE DEF T
  <2> QED
    BY <1>2, FS_StrictSubsetOrderingWellFounded, WFMin
<1>4. PICK k \in D : a = Before(k)
  BY <1>3
<1>5. ASSUME NEW j \in D, ~ rank[k] <= rank[j]
      PROVE  FALSE
  <2>1. rank[j] \in Nat /\ rank[k] \in Nat /\ \A i \in D : rank[i] \in Nat
    OBVIOUS
  <2>2. Before(j) \subseteq Before(k) /\ k \in Before(k) /\ k \notin Before(j)
    BY <1>5, <2>1
  <2>3. <<Before(j), Before(k)>> \in StrictSubsetOrdering(D)
    BY <2>2 DEF StrictSubsetOrdering
  <2> QED
    BY <1>3, <1>4, <2>3
<1> QED
  BY <1>5

LEMMA TypeStep == TypeInv /\ WriterInv /\ LooseInv /\ [Next]_vars => TypeInv'
<1> SUFFICES ASSUME TypeInv, WriterInv, LooseInv, [Next]_vars
             PROVE  TypeInv'
  OBVIOUS
<1> USE Basics DEF TypeInv, Goto, Step, list, cond, local
<1>1. ASSUME NEW c \in Worker, QuietWorker(c)
      PROVE  TypeInv'
  BY <1>1 DEF QuietWorker, TakeEnd, AddUse, AddUnlock, SigLock, SigSet, SigUnlock, CloseUse,
              ClosePost, BcLock, BcSet, BcUnlock, CloseReturn, TakeUse, GiveUse,
              LockMutex, UnlockMutex, SetReady, WorkerAt, AddAt, CloseAt
<1>2. ASSUME NEW c \in Worker, Take(c)
      PROVE  TypeInv'
  BY <1>2 DEF Take, WorkerAt
<1>3. ASSUME NEW c \in Worker,
             AddLink(c) \/ AddHead(c) \/ AddHeadFirst(c) \/ AddLateLink(c) \/ AddPost(c)
      PROVE  TypeInv'
  BY <1>3 DEF AddLink, AddHead, AddHeadFirst, AddLateLink, AddPost, SetTail,
              WorkerAt, AddAt, CloseAt
<1>4. ASSUME NEW c \in Worker, Close(c)
      PROVE  TypeInv'
  BY <1>4 DEF Close, WorkerAt, AddAt, CloseAt
<1>5. CASE Waiting
  BY <1>5 DEF Waiting, ReadClosed, WaitLock, WaitTest, Wake, SpuriousWake, WaitUnlock,
              LockMutex, UnlockMutex, WriterAt
<1>6. CASE Walking
  BY <1>6 DEF Walking, SearchHead, SearchStep, SearchFound, SearchFailed, GetUse,
              TakeUse, WriterAt
<1>7. CASE Unlink
  BY <1>7 DEF Unlink, WriterInv, Queue, WriterAt
<1>8. CASE GetReturn
  BY <1>8 DEF GetReturn, WriterInv, WriterAt
<1>9. CASE Joined \/ UNCHANGED vars
  BY <1>9 DEF Joined, vars
<1> QED
  BY <1>1, <1>2, <1>3, <1>4, <1>5, <1>6, <1>7, <1>8, <1>9
     DEF Next, WorkerStep, WriterStep, QuietWorker, Waiting, Walking

(* The waits and the posts of "use", and nothing else, go into the lock and *)
(* out of it.                                                              *)
LEMMA LockStep == TypeInv /\ LockInv /\ [Next]_vars => LockInv'
<1> SUFFICES ASSUME TypeInv, LockInv, [Next]_vars
             PROVE  LockInv'
  OBVIOUS
<1> USE Basics DEF LockInv, TypeInv, Goto, Step
<1>1. ASSUME NEW c \in Worker, AddUse(c) \/ CloseUse(c)
      PROVE  LockInv'
  <2>1. Inside = {} /\ use = 1 /\ use' = 0
    BY <1>1 DEF AddUse, CloseUse, TakeUse
  <2>2. Inside' = {c}
    BY <1>1, <2>1 DEF AddUse, CloseUse, TakeUse, Inside, AddAt, CloseAt
  <2> QED
    BY <2>1, <2>2
<1>2. CASE GetUse
  <2>1. Inside = {} /\ use = 1 /\ use' = 0
    BY <1>2 DEF GetUse, TakeUse
  <2>2. Inside' = {Writer}
    BY <1>2, <2>1 DEF GetUse, TakeUse, Inside, AddAt, CloseAt
  <2> QED
    BY <2>1, <2>2
<1>3. ASSUME NEW c \in Worker, AddUnlock(c) \/ CloseReturn(c)
      PROVE  LockInv'
  <2>1. c \in Inside
    BY <1>3 DEF AddUnlock, CloseReturn, GiveUse, Inside, AddAt, CloseAt
  <2>2. Inside = {c} /\ use = 0 /\ use' = 1
    BY <1>3, <2>1 DEF AddUnlock, CloseReturn, GiveUse
  <2>3. Inside' = {}
    BY <1>3, <2>2 DEF AddUnlock, CloseReturn, GiveUse, Inside, AddAt, CloseAt
  <2> QED
    BY <2>2, <2>3
<1>4. CASE GetReturn
  <2>1. Writer \in Inside
    BY <1>4 DEF GetReturn, Inside
  <2>2. Inside = {Writer} /\ use = 0 /\ use' = 1
    BY <1>4, <2>1 DEF GetReturn
  <2>3. Inside' = {}
    BY <1>4, <2>2 DEF GetReturn, Inside, AddAt, CloseAt
  <2> QED
    BY <2>2, <2>3
<1>5. ASSUME Inside' = Inside, use' = use
      PROVE  LockInv'
  BY <1>5
<1>6. ASSUME NEW c \in Worker,
             QuietWorker(c), ~ AddUse(c), ~ CloseUse(c), ~ AddUnlock(c), ~ CloseReturn(c)
      PROVE  Inside' = Inside /\ use' = use
  BY <1>6 DEF QuietWorker, TakeEnd, SigLock, SigSet, SigUnlock, ClosePost, BcLock, BcSet,
              BcUnlock, LockMutex, UnlockMutex, SetReady, Inside, AddAt, CloseAt
<1>7. ASSUME NEW c \in Worker,
             \/ Take(c) \/ Close(c)
             \/ AddLink(c) \/ AddHead(c) \/ AddHeadFirst(c) \/ AddLateLink(c) \/ AddPost(c)
      PROVE  Inside' = Inside /\ use' = use
  BY <1>7 DEF Take, Close, AddLink, AddHead, AddHeadFirst, AddLateLink, AddPost,
              Inside, AddAt, CloseAt
<1>8. ASSUME \/ Waiting \/ SearchHead \/ SearchStep \/ SearchFound \/ SearchFailed
             \/ Unlink \/ Joined \/ UNCHANGED vars
      PROVE  Inside' = Inside /\ use' = use
  BY <1>8 DEF Waiting, ReadClosed, WaitLock, WaitTest, Wake, SpuriousWake, WaitUnlock,
              LockMutex, UnlockMutex, SearchHead, SearchStep, SearchFound,
              SearchFailed, Unlink, Joined, vars, Inside
<1> QED
  BY <1>1, <1>2, <1>3, <1>4, <1>5, <1>6, <1>7, <1>8
     DEF Next, WorkerStep, WriterStep, QuietWorker, Waiting

(* A quiet step leaves all hands and the list alone.                        *)
LEMMA QuietEffect ==
    ASSUME TypeInv,
           \/ \E c \in Worker : QuietWorker(c)
           \/ Waiting \/ Walking \/ Joined \/ UNCHANGED vars
    PROVE  /\ HasJob' = HasJob /\ InHand' = InHand
           /\ Queue' = Queue /\ Listed' = Listed /\ Counted' = Counted
           /\ UNCHANGED <<blocks, taken, head, next, len, job, old, seq>>
           /\ \A c \in Worker : pc[c] \in AddAt \ {"add", "add_unlock"} => pc'[c] = pc[c]
           /\ \A c \in Worker : pc'[c] \in AddAt \ {"add", "add_unlock"} => pc'[c] = pc[c]
<1> USE Basics DEF TypeInv, Goto, Step, list, cond, local
<1>1. ASSUME NEW c \in Worker, QuietWorker(c)
      PROVE  /\ HasJob' = HasJob /\ pc'[Writer] = pc[Writer]
             /\ UNCHANGED <<blocks, taken, head, next, len, job, old, seq>>
             /\ \A d \in Worker : pc[d] \in AddAt \ {"add", "add_unlock"} => pc'[d] = pc[d]
             /\ \A d \in Worker : pc'[d] \in AddAt \ {"add", "add_unlock"} => pc'[d] = pc[d]
  BY <1>1 DEF QuietWorker, TakeEnd, AddUse, AddUnlock, SigLock, SigSet, SigUnlock, CloseUse,
              ClosePost, BcLock, BcSet, BcUnlock, CloseReturn, TakeUse, GiveUse,
              LockMutex, UnlockMutex, SetReady, HasJob, AddAt
<1>2. ASSUME Waiting \/ Walking \/ Joined \/ UNCHANGED vars
      PROVE  /\ \A c \in Worker : pc'[c] = pc[c]
             /\ pc'[Writer] = "get_unlock" <=> pc[Writer] = "get_unlock"
             /\ UNCHANGED <<blocks, taken, head, next, len, job, old, seq>>
  BY <1>2 DEF Waiting, ReadClosed, WaitLock, WaitTest, Wake, SpuriousWake, WaitUnlock,
              LockMutex, UnlockMutex, Walking, SearchHead, SearchStep, SearchFound,
              SearchFailed, GetUse, TakeUse, Joined, vars
<1>3. /\ HasJob' = HasJob
      /\ pc'[Writer] = "get_unlock" <=> pc[Writer] = "get_unlock"
      /\ UNCHANGED <<blocks, taken, head, next, len, job, old, seq>>
      /\ \A c \in Worker : pc[c] \in AddAt \ {"add", "add_unlock"} => pc'[c] = pc[c]
      /\ \A c \in Worker : pc'[c] \in AddAt \ {"add", "add_unlock"} => pc'[c] = pc[c]
  BY <1>1, <1>2 DEF HasJob
<1>4. InHand' = InHand
  BY <1>3 DEF InHand
<1>5. Queue' = Queue
  <2>1. \A c \in HasJob : pc'[c] \in {"add_late_link", "add_post"}
                              <=> pc[c] \in {"add_late_link", "add_post"}
    BY <1>3 DEF HasJob, AddAt
  <2>2. \A j \in Job : (\A c \in HasJob' : job'[c] = j => pc'[c] \in {"add_late_link", "add_post"})
                    <=> (\A c \in HasJob : job[c] = j => pc[c] \in {"add_late_link", "add_post"})
    BY <1>3, <2>1
  <2>3. \A j \in Job : j \in Queue' <=> j \in Queue
    BY <1>3, <2>2 DEF Queue
  <2> QED
    BY <2>3 DEF Queue
<1> QED
  BY <1>3, <1>4, <1>5 DEF Listed, Counted

(* What the other steps do to the hands and to the list.                    *)

LEMMA TakeEffect ==
    ASSUME TypeInv, HandInv, NEW c \in Worker, Take(c)
    PROVE  /\ c \notin HasJob /\ HasJob' = HasJob \cup {c}
           /\ InHand' = InHand \cup {taken}
           /\ Queue' = Queue /\ Listed' = Listed /\ Counted' = Counted
           /\ taken \in Job /\ taken' = taken + 1
           /\ job'[c] = taken /\ \A d \in HasJob : job'[d] = job[d]
           /\ UNCHANGED <<blocks, head, next, len, active, closed, old, seq, cursor, seen>>
           /\ \A d \in Thread : d # c => pc'[d] = pc[d]
           /\ pc[c] = "take" /\ pc'[c] = "add_use"
<1> USE Basics DEF TypeInv, Goto, Step, list, cond, local
<1>1. /\ taken \in Job /\ taken' = taken + 1
      /\ pc[c] = "take" /\ pc'[c] = "add_use"
      /\ \A d \in Thread : d # c => pc'[d] = pc[d]
      /\ UNCHANGED <<blocks, head, next, len, active, closed, old, seq, cursor, seen>>
  BY DEF Take
<1>2. /\ c \notin HasJob /\ HasJob' = HasJob \cup {c}
      /\ job'[c] = taken /\ \A d \in HasJob : job'[d] = job[d]
  BY <1>1 DEF Take, HasJob, AddAt
<1>3. InHand' = InHand \cup {taken}
  BY <1>2 DEF InHand
<1>4. taken \notin InHand
  BY DEF HandInv, InHand
<1>5. Queue' = Queue
  <2>1. \A d \in HasJob : pc'[d] = pc[d] /\ job'[d] = job[d]
    BY <1>1, <1>2 DEF HasJob
  <2>2. taken \notin Queue /\ taken \notin Queue'
    BY <1>1, <1>2 DEF Queue
  <2>3. \A j \in Job : j # taken => (j \in Queue' <=> j \in Queue)
    BY <1>1, <1>2, <2>1 DEF Queue
  <2> QED
    BY <2>2, <2>3 DEF Queue
<1>6. taken \notin Queue
  BY DEF Queue
<1>7. Counted' = Counted
  BY <1>1, <1>3 DEF Counted
<1> QED
  BY <1>1, <1>2, <1>3, <1>5, <1>6, <1>7 DEF Listed

(* The steps between the wait for the lock and the one that puts the job in *)
(* the list, and the late link.                                             *)
LEMMA LinkEffect ==
    ASSUME TypeInv, HandInv, NEW c \in Worker, AddLink(c) \/ AddLateLink(c)
    PROVE  /\ c \in HasJob /\ HasJob' = HasJob
           /\ InHand' = InHand
           /\ Queue' = Queue /\ Listed' = Listed /\ Counted' = Counted
           /\ job' = job
           /\ UNCHANGED <<blocks, taken, head, len, active, closed, seq, cursor, seen>>
           /\ \A d \in Thread : d # c => pc'[d] = pc[d]
<1> USE Basics DEF TypeInv, Goto, Step, list, cond, local
<1>1. /\ job' = job
      /\ UNCHANGED <<blocks, taken, head, len, active, closed, seq, cursor, seen>>
      /\ \A d \in Thread : d # c => pc'[d] = pc[d]
      /\ \/ pc[c] = "add" /\ pc'[c] = "add_head"
         \/ pc[c] = "add_late_link" /\ pc'[c] = "add_post"
  BY DEF AddLink, AddLateLink
<1>2. c \in HasJob /\ HasJob' = HasJob
  BY <1>1 DEF HasJob, AddAt
<1>3. InHand' = InHand
  BY <1>1, <1>2 DEF InHand
<1>4. Queue' = Queue
  <2>1. \A d \in HasJob : pc'[d] \in {"add_late_link", "add_post"}
                              <=> pc[d] \in {"add_late_link", "add_post"}
    BY <1>1 DEF HasJob
  <2>2. \A j \in Job : j \in Queue' <=> j \in Queue
    BY <1>1, <1>2, <2>1 DEF Queue
  <2> QED
    BY <2>2 DEF Queue
<1> QED
  BY <1>1, <1>2, <1>3, <1>4 DEF Listed, Counted

LEMMA PublishEffect ==
    ASSUME TypeInv, HandInv, LockInv, NEW c \in Worker, AddHead(c) \/ AddHeadFirst(c)
    PROVE  /\ c \in HasJob /\ HasJob' = HasJob
           /\ InHand' = InHand
           /\ job[c] \in Job /\ job[c] \notin Queue
           /\ Queue' = Queue \cup {job[c]} /\ Listed' = Listed /\ Counted' = Counted
           /\ job' = job /\ head' = job[c]
           /\ UNCHANGED <<blocks, taken, next, len, active, closed, seq, cursor, seen>>
           /\ \A d \in Thread : d # c => pc'[d] = pc[d]
           /\ pc[Writer] # "get_unlock"
<1> USE Basics DEF TypeInv, Goto, Step, list, cond, local
<1>1. /\ job' = job /\ head' = job[c]
      /\ UNCHANGED <<blocks, taken, next, len, active, closed, seq, cursor, seen>>
      /\ \A d \in Thread : d # c => pc'[d] = pc[d]
      /\ pc[c] \in {"add", "add_head"} /\ pc'[c] \in {"add_late_link", "add_post"}
  BY DEF AddHead, AddHeadFirst
<1>2. c \in HasJob /\ HasJob' = HasJob
  BY <1>1 DEF HasJob, AddAt
<1>3. InHand' = InHand
  BY <1>1, <1>2 DEF InHand
<1>4. job[c] \in Job /\ job[c] < taken /\ job[c] >= seq
  BY <1>2 DEF HandInv
<1>5. job[c] \notin Queue /\ job[c] \in InHand
  BY <1>1, <1>2 DEF Queue, InHand
<1>6. pc[Writer] # "get_unlock"
  BY <1>1 DEF LockInv, Inside, AddAt
<1>7. Queue' = Queue \cup {job[c]}
  <2>1. \A d \in HasJob : job[d] = job[c] => d = c
    BY <1>2 DEF HandInv
  <2>2. \A d \in HasJob : d # c => pc'[d] = pc[d]
    BY <1>1 DEF HasJob
  <2>3. \A j \in Job : j # job[c] => (j \in Queue' <=> j \in Queue)
    BY <1>1, <1>2, <2>2 DEF Queue
  <2>4. job[c] \in Queue'
    BY <1>1, <1>2, <1>4, <1>6, <2>1 DEF Queue
  <2> QED
    BY <1>4, <2>3, <2>4 DEF Queue
<1> QED
  BY <1>1, <1>2, <1>3, <1>4, <1>5, <1>6, <1>7 DEF Listed, Counted

LEMMA PostEffect ==
    ASSUME TypeInv, HandInv, LockInv, NEW c \in Worker, AddPost(c)
    PROVE  /\ c \in HasJob /\ HasJob' = HasJob \ {c}
           /\ InHand' = InHand \ {job[c]}
           /\ job[c] \in InHand /\ job[c] \in Queue /\ job[c] \in Job /\ job[c] < taken
           /\ Queue' = Queue
           /\ Listed' = Listed \cup {job[c]} /\ Counted' = Counted \cup {job[c]}
           /\ job'[c] = NoJob /\ \A d \in Worker : d # c => job'[d] = job[d]
           /\ len' = len + 1 /\ active' = active + 1
           /\ UNCHANGED <<blocks, taken, head, next, closed, old, seq, cursor, seen>>
           /\ \A d \in Thread : d # c => pc'[d] = pc[d]
           /\ pc[c] = "add_post" /\ pc'[c] = "add_unlock"
<1> USE Basics DEF TypeInv, Goto, Step, list, cond, local
<1>1. /\ job'[c] = NoJob /\ \A d \in Worker : d # c => job'[d] = job[d]
      /\ len' = len + 1 /\ active' = active + 1
      /\ UNCHANGED <<blocks, taken, head, next, closed, old, seq, cursor, seen>>
      /\ \A d \in Thread : d # c => pc'[d] = pc[d]
      /\ pc[c] = "add_post" /\ pc'[c] = "add_unlock"
  BY DEF AddPost
<1>2. c \in HasJob /\ HasJob' = HasJob \ {c}
  BY <1>1 DEF HasJob, AddAt
<1>3. \A d \in HasJob : job[d] = job[c] => d = c
  BY <1>2 DEF HandInv
<1>4. InHand' = InHand \ {job[c]} /\ job[c] \in InHand
  BY <1>1, <1>2, <1>3 DEF InHand, HasJob
<1>5. job[c] \in Job /\ job[c] < taken /\ job[c] >= seq
  BY <1>2 DEF HandInv
<1>6. pc[Writer] # "get_unlock"
  BY <1>1 DEF LockInv, Inside, AddAt
<1>7. job[c] \in Queue
  BY <1>1, <1>3, <1>5, <1>6 DEF Queue
<1>8. Queue' = Queue
  <2>1. \A d \in HasJob' : job'[d] = job[d] /\ pc'[d] = pc[d] /\ d \in HasJob
    BY <1>1, <1>2 DEF HasJob
  <2>2. \A j \in Job : j # job[c] => (j \in Queue' <=> j \in Queue)
    BY <1>1, <1>2, <2>1 DEF Queue
  <2>3. job[c] \in Queue'
    BY <1>1, <1>2, <1>3, <1>5, <1>6, <2>1 DEF Queue
  <2> QED
    BY <1>5, <1>7, <2>2, <2>3 DEF Queue
<1>9. Listed' = Listed \cup {job[c]}
  BY <1>4, <1>7, <1>8 DEF Listed
<1>10. Counted' = Counted \cup {job[c]}
  BY <1>1, <1>4, <1>5 DEF Counted
<1> QED
  BY <1>1, <1>2, <1>4, <1>5, <1>7, <1>8, <1>9, <1>10

LEMMA CloseEffect ==
    ASSUME TypeInv, NEW c \in Worker, Close(c)
    PROVE  /\ HasJob' = HasJob /\ InHand' = InHand
           /\ Queue' = Queue /\ Listed' = Listed /\ Counted' = Counted
           /\ UNCHANGED <<blocks, taken, head, next, len, active, job, old, seq, cursor, seen>>
           /\ \A d \in Thread : d # c => pc'[d] = pc[d]
           /\ pc[c] = "close" /\ pc'[c] \in {"close_post", "close_unlock"}
<1> USE Basics DEF TypeInv, Goto, Step, list, cond, local
<1>1. /\ UNCHANGED <<blocks, taken, head, next, len, active, job, old, seq, cursor, seen>>
      /\ \A d \in Thread : d # c => pc'[d] = pc[d]
      /\ pc[c] = "close" /\ pc'[c] \in {"close_post", "close_unlock"}
  BY DEF Close
<1>2. HasJob' = HasJob
  BY <1>1 DEF HasJob, AddAt
<1>3. InHand' = InHand
  BY <1>1, <1>2 DEF InHand
<1>4. \A d \in HasJob : pc'[d] = pc[d]
  BY <1>1 DEF HasJob, AddAt
<1>5. Queue' = Queue
  <2>1. \A j \in Job : j \in Queue' <=> j \in Queue
    BY <1>1, <1>2, <1>4 DEF Queue
  <2> QED
    BY <2>1 DEF Queue
<1> QED
  BY <1>1, <1>2, <1>3, <1>5 DEF Listed, Counted

LEMMA UnlinkEffect ==
    ASSUME TypeInv, HandInv, LockInv, WriterInv, Unlink
    PROVE  /\ HasJob' = HasJob /\ InHand' = InHand
           /\ seq \in Queue /\ seq \in Listed
           /\ Queue' = Queue \ {seq} /\ Listed' = Listed \ {seq} /\ Counted' = Counted
           /\ len' = len - 1
           /\ UNCHANGED <<blocks, taken, active, closed, job, old, seq, cursor, seen>>
           /\ \A c \in Worker : pc'[c] = pc[c]
           /\ pc[Writer] = "unlink" /\ pc'[Writer] = "get_unlock"
           /\ \A c \in Worker : pc[c] \notin AddAt \cup CloseAt \cup {"close"}
<1> USE Basics DEF TypeInv, Goto, Step, list, cond, local
<1>1. /\ len' = len - 1
      /\ UNCHANGED <<blocks, taken, active, closed, job, old, seq, cursor, seen>>
      /\ \A c \in Worker : pc'[c] = pc[c]
      /\ pc[Writer] = "unlink" /\ pc'[Writer] = "get_unlock"
  BY DEF Unlink
<1>2. HasJob' = HasJob
  BY <1>1 DEF HasJob
<1>3. InHand' = InHand
  BY <1>1, <1>2 DEF InHand
<1>4. seq \in Queue
  BY <1>1 DEF WriterInv
<1>5. \A c \in Worker : pc[c] \notin AddAt \cup CloseAt \cup {"close"}
  BY <1>1 DEF LockInv, Inside
<1>6. seq \notin InHand
  BY <1>4, <1>5 DEF InHand, HasJob, Queue, AddAt
<1>7. Queue' = Queue \ {seq}
  <2>1. \A d \in HasJob : pc'[d] = pc[d]
    BY <1>1 DEF HasJob
  <2>2. \A j \in Job : j # seq => (j \in Queue' <=> j \in Queue)
    BY <1>1, <1>2, <2>1 DEF Queue
  <2>3. seq \notin Queue'
    BY <1>1 DEF Queue
  <2> QED
    BY <2>2, <2>3 DEF Queue
<1>8. seq \in Listed /\ Listed' = Listed \ {seq}
  BY <1>3, <1>4, <1>6, <1>7 DEF Listed
<1>9. Counted' = Counted
  BY <1>1, <1>3 DEF Counted
<1> QED
  BY <1>1, <1>2, <1>3, <1>4, <1>5, <1>7, <1>8, <1>9

LEMMA ReturnEffect ==
    ASSUME TypeInv, HandInv, WriterInv, GetReturn
    PROVE  /\ HasJob' = HasJob /\ InHand' = InHand
           /\ Queue' = Queue /\ Listed' = Listed /\ Counted' = Counted
           /\ seq \in Job /\ seq \notin Queue /\ seq \notin InHand /\ seq < taken
           /\ seq' = seq + 1
           /\ next' = [next EXCEPT ![seq] = NoJob]
           /\ UNCHANGED <<blocks, taken, head, len, active, closed, job, old, seen>>
           /\ \A c \in Worker : pc'[c] = pc[c]
           /\ pc[Writer] = "get_unlock"
           /\ pc'[Writer] = IF seq + 1 = blocks THEN "done" ELSE "closed?"
<1> USE Basics DEF TypeInv, Goto, Step, list, cond, local
<1>1. /\ seq' = seq + 1
      /\ next' = [next EXCEPT ![seq] = NoJob]
      /\ UNCHANGED <<blocks, taken, head, len, active, closed, job, old, seen>>
      /\ \A c \in Worker : pc'[c] = pc[c]
      /\ pc[Writer] = "get_unlock"
      /\ pc'[Writer] = IF seq + 1 = blocks THEN "done" ELSE "closed?"
  BY DEF GetReturn
<1>2. HasJob' = HasJob
  BY <1>1 DEF HasJob
<1>3. InHand' = InHand
  BY <1>1, <1>2 DEF InHand
<1>4. seq \in Job /\ seq \notin Queue /\ seq \notin InHand /\ seq < taken
  BY <1>1 DEF Queue, WriterInv
<1>5. Queue' = Queue
  <2>1. \A d \in HasJob : pc'[d] = pc[d]
    BY <1>1 DEF HasJob
  <2>2. \A j \in Job : j \in Queue' <=> j \in Queue
    BY <1>1, <1>2, <1>4, <2>1 DEF Queue
  <2> QED
    BY <2>2 DEF Queue
<1> QED
  BY <1>1, <1>2, <1>3, <1>4, <1>5 DEF Listed, Counted

-----------------------------------------------------------------------------
(* Every step preserves each part of the invariant.                         *)

LEMMA HandStep == IInv /\ [Next]_vars => HandInv'
<1> SUFFICES ASSUME IInv, [Next]_vars
             PROVE  HandInv'
  OBVIOUS
<1> USE Basics DEF IInv
<1>1. ASSUME HasJob' = HasJob, UNCHANGED <<taken, job, old, seq>>,
             \A c \in Worker : pc'[c] # "add_late_link" => pc[c] # "add_late_link"
      PROVE  HandInv'
  BY <1>1 DEF HandInv
<1>2. ASSUME \/ \E c \in Worker : QuietWorker(c)
             \/ Waiting \/ Walking \/ Joined \/ UNCHANGED vars
      PROVE  HandInv'
  BY <1>1, <1>2, QuietEffect DEF AddAt
<1>3. ASSUME NEW c \in Worker, Take(c)
      PROVE  HandInv'
  <2>1. /\ c \notin HasJob /\ HasJob' = HasJob \cup {c}
        /\ taken \in Job /\ taken' = taken + 1
        /\ job'[c] = taken /\ \A d \in HasJob : job'[d] = job[d]
        /\ old' = old /\ seq' = seq
        /\ \A d \in Thread : d # c => pc'[d] = pc[d]
        /\ pc[c] = "take" /\ pc'[c] = "add_use"
    BY <1>3, TakeEffect
  <2>2. \A d \in Worker \ HasJob' : job'[d] = NoJob
    BY <1>3, <2>1 DEF HandInv, Take, TypeInv
  <2>3. \A d \in HasJob' : job'[d] \in seq' .. taken' - 1
    BY <2>1 DEF HandInv, TypeInv
  <2>4. \A d, e \in HasJob' : job'[d] = job'[e] => d = e
    <3>1. \A d \in HasJob : job'[d] # taken
      BY <2>1 DEF HandInv, TypeInv
    <3> QED
      BY <2>1, <3>1 DEF HandInv
  <2>5. \A d \in Worker : pc'[d] # "add_late_link" => old'[d] = NoJob
    BY <2>1 DEF HandInv
  <2> QED
    BY <2>2, <2>3, <2>4, <2>5 DEF HandInv
<1>4. ASSUME NEW c \in Worker, AddLink(c)
      PROVE  HandInv'
  BY <1>1, <1>4, LinkEffect DEF AddLink, Step, Goto, TypeInv, local
<1>5. ASSUME NEW c \in Worker, AddHead(c)
      PROVE  HandInv'
  BY <1>1, <1>5, PublishEffect DEF AddHead, Step, Goto, TypeInv, local
<1>6. ASSUME NEW c \in Worker, AddHeadFirst(c)
      PROVE  HandInv'
  <2>1. HasJob' = HasJob /\ job' = job /\ taken' = taken /\ seq' = seq
    BY <1>6, PublishEffect
  <2>2. \A d \in Worker : pc'[d] # "add_late_link" => old'[d] = NoJob
    BY <1>6 DEF AddHeadFirst, Step, Goto, TypeInv, HandInv
  <2> QED
    BY <2>1, <2>2 DEF HandInv
<1>7. ASSUME NEW c \in Worker, AddLateLink(c)
      PROVE  HandInv'
  <2>1. HasJob' = HasJob /\ job' = job /\ taken' = taken /\ seq' = seq
    BY <1>7, LinkEffect
  <2>2. \A d \in Worker : pc'[d] # "add_late_link" => old'[d] = NoJob
    BY <1>7 DEF AddLateLink, Step, Goto, TypeInv, HandInv
  <2> QED
    BY <2>1, <2>2 DEF HandInv
<1>8. ASSUME NEW c \in Worker, AddPost(c)
      PROVE  HandInv'
  <2>1. /\ HasJob' = HasJob \ {c} /\ taken' = taken /\ seq' = seq /\ old' = old
        /\ job'[c] = NoJob /\ \A d \in Worker : d # c => job'[d] = job[d]
        /\ \A d \in Thread : d # c => pc'[d] = pc[d]
        /\ pc[c] = "add_post" /\ pc'[c] = "add_unlock"
    BY <1>8, PostEffect
  <2>2. HasJob \subseteq Worker
    BY DEF HasJob
  <2> QED
    BY <2>1, <2>2 DEF HandInv
<1>9. ASSUME NEW c \in Worker, Close(c)
      PROVE  HandInv'
  BY <1>1, <1>9, CloseEffect
<1>10. CASE Unlink
  BY <1>1, <1>10, UnlinkEffect
<1>11. CASE GetReturn
  <2>1. /\ HasJob' = HasJob /\ UNCHANGED <<job, old, taken>> /\ seq' = seq + 1
        /\ seq \notin InHand /\ \A c \in Worker : pc'[c] = pc[c]
    BY <1>11, ReturnEffect
  <2>2. \A c \in HasJob : job[c] \in seq + 1 .. taken - 1
    BY <2>1 DEF HandInv, InHand, TypeInv
  <2> QED
    BY <2>1, <2>2 DEF HandInv
<1> QED
  BY <1>2, <1>3, <1>4, <1>5, <1>6, <1>7, <1>8, <1>9, <1>10, <1>11
     DEF Next, WorkerStep, WriterStep, QuietWorker, Waiting, Walking

LEMMA CloseStep == IInv /\ [Next]_vars => CloseInv'
<1> SUFFICES ASSUME IInv, [Next]_vars
             PROVE  CloseInv'
  OBVIOUS
<1> USE Basics DEF IInv
<1>f. IsFiniteSet(Remain) /\ Cardinality(Remain) \in Nat
  BY WriteAssumption, FS_Subset, FS_CardinalityType DEF Remain
<1>1. ASSUME Remain' = Remain, UNCHANGED <<numThreads, closed, taken, blocks>>,
             \A c \in Worker : pc'[c] \in CloseAt \cup {"close_use", "close", "done"}
                => \/ pc[c] \in CloseAt \cup {"close_use", "close", "done"}
                   \/ taken = blocks,
             \A c \in Worker : pc'[c] \in CloseAt \ {"close_unlock"}
                                 => pc[c] \in CloseAt \ {"close_unlock"}
      PROVE  CloseInv'
  BY <1>1 DEF CloseInv
<1>2. ASSUME NEW c \in Worker, QuietWorker(c)
      PROVE  CloseInv'
  <2>1. UNCHANGED <<numThreads, closed, taken, blocks>>
    BY <1>2 DEF QuietWorker, TakeEnd, AddUse, AddUnlock, SigLock, SigSet, SigUnlock, CloseUse,
                ClosePost, BcLock, BcSet, BcUnlock, CloseReturn, TakeUse, GiveUse,
                LockMutex, UnlockMutex, SetReady
  <2>2. /\ pc[c] \in CloseAt \cup {"close_use", "close", "done"} \/ taken = blocks
             \/ pc'[c] \notin CloseAt \cup {"close_use", "close", "done"}
        /\ pc[c] \in CloseAt \cup {"done"} <=> pc'[c] \in CloseAt \cup {"done"}
        /\ pc'[c] \in CloseAt \ {"close_unlock"} => pc[c] \in CloseAt \ {"close_unlock"}
        /\ \A d \in Worker : d # c => pc'[d] = pc[d]
    BY <1>2 DEF QuietWorker, TakeEnd, AddUse, AddUnlock, SigLock, SigSet, SigUnlock, CloseUse,
                ClosePost, BcLock, BcSet, BcUnlock, CloseReturn, TakeUse, GiveUse,
                LockMutex, UnlockMutex, SetReady, Step, Goto, TypeInv, CloseAt
  <2>3. Remain' = Remain
    BY <2>2 DEF Remain
  <2> QED
    BY <1>1, <2>1, <2>2, <2>3
<1>3. ASSUME NEW c \in Worker, Take(c)
      PROVE  CloseInv'
  <2>1. /\ pc[c] = "take" /\ pc'[c] = "add_use" /\ taken < blocks
        /\ \A d \in Worker : d # c => pc'[d] = pc[d]
        /\ UNCHANGED <<numThreads, closed, blocks>>
    BY <1>3 DEF Take, Step, Goto, TypeInv
  <2>2. Remain' = Remain
    BY <2>1 DEF Remain, CloseAt
  <2>3. \A d \in Worker : pc'[d] \notin CloseAt \cup {"close_use", "close", "done"}
    BY <2>1 DEF CloseInv, TypeInv, CloseAt
  <2> QED
    BY <2>1, <2>2, <2>3 DEF CloseInv
<1>4. ASSUME NEW c \in Worker,
             AddLink(c) \/ AddHead(c) \/ AddHeadFirst(c) \/ AddLateLink(c) \/ AddPost(c)
      PROVE  CloseInv'
  <2>1. /\ pc[c] \in AddAt /\ pc'[c] \in AddAt
        /\ \A d \in Worker : d # c => pc'[d] = pc[d]
        /\ UNCHANGED <<numThreads, closed, taken, blocks>>
    BY <1>4 DEF AddLink, AddHead, AddHeadFirst, AddLateLink, AddPost, Step, Goto, TypeInv, AddAt
  <2>2. Remain' = Remain
    BY <2>1 DEF Remain, CloseAt, AddAt
  <2> QED
    BY <1>1, <2>1, <2>2 DEF AddAt, CloseAt
<1>5. ASSUME NEW c \in Worker, Close(c)
      PROVE  CloseInv'
  <2>1. /\ pc[c] = "close" /\ numThreads' = numThreads - 1
        /\ closed' = (closed \/ numThreads' = 0)
        /\ pc'[c] = IF numThreads' = 0 THEN "close_post" ELSE "close_unlock"
        /\ \A d \in Worker : d # c => pc'[d] = pc[d]
        /\ UNCHANGED <<taken, blocks>>
    BY <1>5 DEF Close, Goto, TypeInv
  <2>2. c \in Remain /\ Remain' = Remain \ {c}
    BY <2>1 DEF Remain, CloseAt
  <2>3. IsFiniteSet(Remain') /\ Cardinality(Remain') = Cardinality(Remain) - 1
    BY <1>f, <2>2, FS_RemoveElement
  <2>4. numThreads' = Cardinality(Remain')
    BY <2>1, <2>3 DEF CloseInv
  <2>5. closed' <=> Remain' = {}
    <3>1. Cardinality(Remain') = 0 <=> Remain' = {}
      BY <2>3, FS_EmptySet
    <3> QED
      BY <2>1, <2>2, <2>4, <3>1 DEF CloseInv
  <2>6. taken' = blocks'
    BY <2>1 DEF CloseInv
  <2>7. \A d \in Worker : pc'[d] \in CloseAt \ {"close_unlock"} => closed'
    BY <2>1 DEF CloseInv, CloseAt
  <2> QED
    BY <2>4, <2>5, <2>6, <2>7 DEF CloseInv
<1>6. ASSUME WriterStep \/ SpuriousWake \/ Joined \/ UNCHANGED vars
      PROVE  CloseInv'
  <2>1. UNCHANGED <<numThreads, closed, taken, blocks>> /\ \A c \in Worker : pc'[c] = pc[c]
    BY <1>6 DEF WriterStep, ReadClosed, WaitLock, WaitTest, Wake, SpuriousWake, WaitUnlock,
                LockMutex, UnlockMutex, SearchHead, SearchStep, SearchFound, SearchFailed,
                GetUse, TakeUse, Unlink, GetReturn, Joined, vars, Step, Goto, TypeInv
  <2>2. Remain' = Remain
    BY <2>1 DEF Remain
  <2> QED
    BY <1>1, <2>1, <2>2
<1> QED
  BY <1>2, <1>3, <1>4, <1>5, <1>6 DEF Next, WorkerStep, QuietWorker

(* The counters follow the list: "len" what it holds, "active" what was     *)
(* ever added, and one more for the close.                                 *)
LEMMA CountStep == IInv /\ [Next]_vars => CountInv'
<1> SUFFICES ASSUME IInv, [Next]_vars
             PROVE  CountInv'
  OBVIOUS
<1> USE Basics DEF IInv
<1> DEFINE End == IF closed /\ \A c \in Worker : pc[c] # "close_post" THEN 1 ELSE 0
<1>f. /\ IsFiniteSet(Listed) /\ Cardinality(Listed) \in Nat
      /\ IsFiniteSet(Counted) /\ Cardinality(Counted) \in Nat
  BY FS_Subset, FS_CardinalityType DEF Listed, Queue, Counted
<1>1. ASSUME Listed' = Listed, Counted' = Counted, UNCHANGED <<len, active>>, End' = End
      PROVE  CountInv'
  BY <1>1 DEF CountInv
<1>2. ASSUME NEW c \in Worker, QuietWorker(c), ~ ClosePost(c)
      PROVE  CountInv'
  <2>1. UNCHANGED <<active, closed>> /\ \A d \in Worker : pc'[d] = "close_post" <=> pc[d] = "close_post"
    BY <1>2 DEF QuietWorker, TakeEnd, AddUse, AddUnlock, SigLock, SigSet, SigUnlock, CloseUse,
                BcLock, BcSet, BcUnlock, CloseReturn, TakeUse, GiveUse,
                LockMutex, UnlockMutex, SetReady, Step, Goto, TypeInv
  <2>2. End' = End
    BY <2>1
  <2> QED
    BY <1>1, <1>2, <2>1, <2>2, QuietEffect
<1>3. ASSUME NEW c \in Worker, ClosePost(c)
      PROVE  CountInv'
  <2>1. /\ pc[c] = "close_post" /\ pc'[c] = "bc_lock" /\ active' = active + 1
        /\ closed' = closed /\ \A d \in Worker : d # c => pc'[d] = pc[d]
    BY <1>3 DEF ClosePost, Step, Goto, TypeInv
  <2>2. closed
    BY <2>1 DEF CloseInv, CloseAt
  <2>3. \A d \in Worker : d # c => pc[d] # "close_post"
    BY <2>1 DEF LockInv, Inside, CloseAt
  <2>4. End = 0 /\ End' = 1
    BY <2>1, <2>2, <2>3
  <2>5. Listed' = Listed /\ Counted' = Counted /\ len' = len
    BY <1>3, QuietEffect DEF QuietWorker
  <2> QED
    BY <1>f, <2>1, <2>4, <2>5 DEF CountInv
<1>4. ASSUME NEW c \in Worker, AddPost(c)
      PROVE  CountInv'
  <2>1. /\ job[c] \in InHand /\ job[c] \in Queue
        /\ Listed' = Listed \cup {job[c]} /\ Counted' = Counted \cup {job[c]}
        /\ len' = len + 1 /\ active' = active + 1 /\ closed' = closed
        /\ \A d \in Thread : d # c => pc'[d] = pc[d]
        /\ pc[c] = "add_post" /\ pc'[c] = "add_unlock"
    BY <1>4, PostEffect
  <2>2. job[c] \notin Listed /\ job[c] \notin Counted
    BY <2>1 DEF Listed, Counted
  <2>3. /\ Cardinality(Listed') = Cardinality(Listed) + 1
        /\ Cardinality(Counted') = Cardinality(Counted) + 1
    BY <1>f, <2>1, <2>2, FS_AddElement
  <2>4. End' = End
    BY <2>1
  <2> QED
    BY <1>f, <2>1, <2>3, <2>4 DEF CountInv
<1>5. CASE Unlink
  <2>1. /\ seq \in Listed /\ Listed' = Listed \ {seq} /\ Counted' = Counted
        /\ len' = len - 1 /\ UNCHANGED <<active, closed>>
        /\ \A c \in Worker : pc'[c] = pc[c]
    BY <1>5, UnlinkEffect
  <2>2. Cardinality(Listed') = Cardinality(Listed) - 1
    BY <1>f, <2>1, FS_RemoveElement
  <2>3. End' = End
    BY <2>1
  <2> QED
    BY <1>f, <2>1, <2>2, <2>3 DEF CountInv
<1>6. ASSUME NEW c \in Worker, Close(c)
      PROVE  CountInv'
  <2>1. /\ Listed' = Listed /\ Counted' = Counted /\ UNCHANGED <<len, active>>
        /\ pc[c] = "close" /\ \A d \in Worker : d # c => pc'[d] = pc[d]
    BY <1>6, CloseEffect
  <2>2. ~closed
    BY <2>1 DEF CloseInv, Remain, CloseAt
  <2>3. closed' => pc'[c] = "close_post"
    BY <1>6, <2>2 DEF Close, Goto, TypeInv
  <2>4. End = 0 /\ End' = 0
    BY <2>2, <2>3
  <2> QED
    BY <1>1, <2>1, <2>4
<1>7. ASSUME NEW c \in Worker, \/ Take(c) \/ AddLink(c) \/ AddLateLink(c)
                               \/ AddHead(c) \/ AddHeadFirst(c)
      PROVE  CountInv'
  <2>1. /\ Listed' = Listed /\ Counted' = Counted /\ UNCHANGED <<len, active, closed>>
    BY <1>7, TakeEffect, LinkEffect, PublishEffect
  <2>2. \A d \in Worker : pc'[d] = "close_post" <=> pc[d] = "close_post"
    BY <1>7 DEF Take, AddLink, AddLateLink, AddHead, AddHeadFirst, Step, Goto, TypeInv
  <2>3. End' = End
    BY <2>1, <2>2
  <2> QED
    BY <1>1, <2>1, <2>3
<1>8. CASE GetReturn
  BY <1>1, <1>8, ReturnEffect
<1>9. CASE Waiting \/ Walking \/ Joined \/ UNCHANGED vars
  <2>1. UNCHANGED <<active, closed>> /\ \A c \in Worker : pc'[c] = pc[c]
    BY <1>9 DEF Waiting, ReadClosed, WaitLock, WaitTest, Wake, SpuriousWake, WaitUnlock,
                LockMutex, UnlockMutex, Walking, SearchHead, SearchStep, SearchFound,
                SearchFailed, GetUse, TakeUse, Joined, vars, Step, Goto, TypeInv
  <2>2. End' = End
    BY <2>1
  <2> QED
    BY <1>1, <1>9, <2>1, <2>2, QuietEffect
<1> QED
  BY <1>2, <1>3, <1>4, <1>5, <1>6, <1>7, <1>8, <1>9
     DEF Next, WorkerStep, WriterStep, QuietWorker, Waiting, Walking

LEMMA LooseStep == IInv /\ [Next]_vars => LooseInv'
<1> SUFFICES ASSUME IInv, [Next]_vars
             PROVE  LooseInv'
  OBVIOUS
<1> USE Basics DEF IInv, Step, Goto, TypeInv
<1>1. ASSUME Queue' = Queue, UNCHANGED <<next, head, job, seq>>,
             \A c \in Worker : pc'[c] = "add_head" <=> pc[c] = "add_head",
             pc[Writer] = "get_unlock" => pc'[Writer] = "get_unlock"
      PROVE  LooseInv'
  BY <1>1 DEF LooseInv
<1>2. ASSUME NEW c \in Worker, QuietWorker(c)
      PROVE  LooseInv'
  <2>1. pc'[Writer] = pc[Writer]
    BY <1>2 DEF QuietWorker, TakeEnd, AddUse, AddUnlock, SigLock, SigSet, SigUnlock, CloseUse,
                ClosePost, BcLock, BcSet, BcUnlock, CloseReturn, TakeUse, GiveUse,
                LockMutex, UnlockMutex, SetReady
  <2> QED
    BY <1>1, <1>2, <2>1, QuietEffect DEF AddAt
<1>3. CASE Waiting \/ Walking \/ Joined \/ UNCHANGED vars
  <2>1. pc[Writer] = "get_unlock" => pc'[Writer] = "get_unlock"
    BY <1>3 DEF Waiting, ReadClosed, WaitLock, WaitTest, Wake, SpuriousWake, WaitUnlock,
                LockMutex, UnlockMutex, Walking, SearchHead, SearchStep, SearchFound,
                SearchFailed, GetUse, TakeUse, Joined, vars
  <2> QED
    BY <1>1, <1>3, <2>1, QuietEffect DEF AddAt
<1>4. ASSUME NEW c \in Worker, Take(c)
      PROVE  LooseInv'
  <2>1. /\ Queue' = Queue /\ UNCHANGED <<next, head, seq>>
        /\ c \notin HasJob /\ \A d \in HasJob : job'[d] = job[d]
        /\ \A d \in Thread : d # c => pc'[d] = pc[d]
        /\ pc[c] = "take" /\ pc'[c] = "add_use"
    BY <1>4, TakeEffect
  <2>2. \A d \in Worker : pc[d] = "add_head" <=> pc'[d] = "add_head"
    BY <2>1
  <2>3. \A d \in Worker : pc[d] = "add_head" => job'[d] = job[d]
    BY <2>1 DEF HasJob, AddAt
  <2> QED
    BY <2>1, <2>2, <2>3 DEF LooseInv
<1>5. ASSUME NEW c \in Worker, AddPost(c)
      PROVE  LooseInv'
  <2>1. /\ Queue' = Queue /\ UNCHANGED <<next, head, seq>>
        /\ \A d \in Worker : d # c => job'[d] = job[d]
        /\ \A d \in Thread : d # c => pc'[d] = pc[d]
        /\ pc[c] = "add_post" /\ pc'[c] = "add_unlock"
    BY <1>5, PostEffect
  <2> QED
    BY <2>1 DEF LooseInv
<1>6. ASSUME NEW c \in Worker, Close(c)
      PROVE  LooseInv'
  BY <1>1, <1>6, CloseEffect
<1>7. ASSUME NEW c \in Worker, AddLink(c) \/ AddHead(c) \/ AddHeadFirst(c) \/ AddLateLink(c)
      PROVE  /\ \A d \in Worker : d # c => pc[d] # "add_head"
             /\ pc[Writer] # "get_unlock"
             /\ c \in HasJob /\ job[c] \in Job
             /\ pc[c] \in {"add", "add_head", "add_late_link"}
  <2>1. pc[c] \in {"add", "add_head", "add_late_link"}
    BY <1>7 DEF AddLink, AddHead, AddHeadFirst, AddLateLink
  <2>2. c \in Inside
    BY <2>1 DEF Inside, AddAt
  <2>3. \A d \in Worker : d # c => pc[d] # "add_head"
    BY <2>2 DEF LockInv, Inside, AddAt
  <2>4. pc[Writer] # "get_unlock"
    BY <2>2 DEF LockInv, Inside
  <2>5. c \in HasJob /\ job[c] \in Job
    BY <2>1 DEF HasJob, AddAt, HandInv
  <2> QED
    BY <2>1, <2>3, <2>4, <2>5
<1>8. ASSUME NEW c \in Worker, AddLink(c)
      PROVE  LooseInv'
  <2>1. /\ next' = [next EXCEPT ![job[c]] = head] /\ head' = head /\ job' = job
        /\ pc'[c] = "add_head" /\ pc[c] = "add" /\ Queue' = Queue /\ seq' = seq
        /\ \A d \in Thread : d # c => pc'[d] = pc[d]
    BY <1>8, LinkEffect DEF AddLink
  <2>2. \A j \in Job \ Queue' : j # job[c] => next'[j] = NoJob
    BY <1>7, <1>8, <2>1 DEF LooseInv
  <2> QED
    BY <1>7, <1>8, <2>1, <2>2 DEF LooseInv
<1>9. ASSUME NEW c \in Worker, AddHead(c) \/ AddHeadFirst(c)
      PROVE  LooseInv'
  <2>1. /\ next' = next /\ job' = job /\ seq' = seq /\ Queue' = Queue \cup {job[c]}
        /\ \A d \in Thread : d # c => pc'[d] = pc[d]
    BY <1>9, PublishEffect
  <2>2. pc'[c] # "add_head"
    BY <1>9 DEF AddHead, AddHeadFirst
  <2>3. \A j \in Job \ Queue' : next'[j] = NoJob
    BY <1>7, <1>9, <2>1 DEF LooseInv
  <2>4. \A d \in Worker : pc'[d] # "add_head"
    BY <1>7, <1>9, <2>1, <2>2
  <2> QED
    BY <2>3, <2>4 DEF LooseInv
<1>10. ASSUME NEW c \in Worker, AddLateLink(c)
      PROVE  LooseInv'
  <2>1. /\ next' = [next EXCEPT ![job[c]] = old[c]] /\ head' = head /\ job' = job
        /\ pc'[c] = "add_post" /\ pc[c] = "add_late_link" /\ Queue' = Queue /\ seq' = seq
        /\ \A d \in Thread : d # c => pc'[d] = pc[d]
    BY <1>10, LinkEffect DEF AddLateLink
  <2>2. job[c] \in Queue
    <3>1. job[c] \in seq .. taken - 1 /\ \A d \in HasJob : job[d] = job[c] => d = c
      BY <1>7, <1>10 DEF HandInv
    <3> QED
      BY <1>7, <1>10, <2>1, <3>1 DEF Queue
  <2>3. \A j \in Job \ Queue' : next'[j] = NoJob
    BY <1>7, <1>10, <2>1, <2>2 DEF LooseInv
  <2>4. \A d \in Worker : pc'[d] # "add_head"
    BY <1>7, <1>10, <2>1
  <2> QED
    BY <2>3, <2>4 DEF LooseInv
<1>11. CASE Unlink
  <2>1. /\ Queue' = Queue \ {seq} /\ seq' = seq /\ seq \in Queue
        /\ pc[Writer] = "unlink" /\ pc'[Writer] = "get_unlock"
        /\ \A c \in Worker : pc'[c] = pc[c] /\ pc[c] # "add_head"
    BY <1>11, UnlinkEffect DEF AddAt
  <2>2. \A j \in Job \ Queue : next[j] = NoJob
    BY <2>1 DEF LooseInv
  <2>3. \A j \in Job \ Queue : next'[j] = NoJob
    BY <1>11, <2>1, <2>2 DEF Unlink
  <2> QED
    BY <2>1, <2>3 DEF LooseInv
<1>12. CASE GetReturn
  <2>1. /\ Queue' = Queue /\ next' = [next EXCEPT ![seq] = NoJob] /\ seq \in Job
        /\ head' = head /\ job' = job /\ seq \notin InHand
        /\ \A c \in Worker : pc'[c] = pc[c]
    BY <1>12, ReturnEffect
  <2>2. \A c \in Worker : pc[c] = "add_head" => job[c] # seq
    BY <2>1 DEF InHand, HasJob, AddAt
  <2> QED
    BY <2>1, <2>2 DEF LooseInv
<1> QED
  BY <1>2, <1>3, <1>4, <1>5, <1>6, <1>8, <1>9, <1>10, <1>11, <1>12
     DEF Next, WorkerStep, WriterStep, QuietWorker, Waiting, Walking

(* When the queue is closed, all that is left to write is in the list.      *)
LEMMA ClosedMeansAllIn ==
    ASSUME TypeInv, HandInv, CloseInv, closed, pc[Writer] # "get_unlock"
    PROVE  /\ taken = blocks
           /\ HasJob = {}
           /\ \A c \in Worker : pc[c] \in CloseAt \cup {"done"}
           /\ \A j \in Job : j \in Queue <=> seq <= j /\ j < blocks
<1> USE Basics DEF TypeInv
<1>1. \A c \in Worker : pc[c] \in CloseAt \cup {"done"}
  BY DEF CloseInv, Remain
<1>2. taken = blocks
  BY <1>1, WriteAssumption DEF CloseInv
<1>3. HasJob = {}
  BY <1>1 DEF HasJob, AddAt, CloseAt
<1> QED
  BY <1>1, <1>2, <1>3 DEF Queue

LEMMA WriterInvStep == IInv /\ [Next]_vars => WriterInv'
<1> SUFFICES ASSUME IInv, [Next]_vars
             PROVE  WriterInv'
  OBVIOUS
<1> USE Basics DEF IInv, Step, Goto, TypeInv
<1>1. ASSUME NEW c \in Worker, WorkerStep(c)
      PROVE  WriterInv'
  <2>1. /\ UNCHANGED <<cursor, seen, seq, blocks>> /\ pc'[Writer] = pc[Writer]
        /\ closed => closed'
        /\ taken' \in {taken, taken + 1}
    BY <1>1 DEF WorkerStep, TakeEnd, AddUse, AddUnlock, SigLock, SigSet, SigUnlock, CloseUse,
                ClosePost, BcLock, BcSet, BcUnlock, CloseReturn, TakeUse, GiveUse,
                LockMutex, UnlockMutex, SetReady, Take, AddLink, AddHead, AddHeadFirst,
                AddLateLink, AddPost, Close, local
  <2>2. Queue \subseteq Queue' /\ InHand' \subseteq InHand \cup {taken}
    BY <1>1, QuietEffect, TakeEffect, LinkEffect, PublishEffect, PostEffect, CloseEffect
       DEF WorkerStep, QuietWorker
  <2>3. pc'[Writer] = "get_unlock" => seq' < taken' /\ seq' \notin InHand'
    BY <2>1, <2>2 DEF WriterInv
  <2> QED
    BY <2>1, <2>2, <2>3 DEF WriterInv
<1>2. CASE Waiting \/ SearchHead \/ SearchStep \/ GetUse \/ Joined \/ UNCHANGED vars
  <2>1. Queue' = Queue /\ InHand' = InHand /\ UNCHANGED <<seq, taken, blocks>>
    BY <1>2, QuietEffect DEF Walking
  <2>2. /\ pc'[Writer] \in {"get_use", "unlink"} => 
              pc[Writer] \in {"get_use", "unlink"} /\ cursor' = cursor
        /\ pc'[Writer] \in {"get_unlock", "done", "null"} => pc'[Writer] = pc[Writer]
        /\ closed' = closed
        /\ seen' => seen \/ closed
    BY <1>2 DEF Waiting, ReadClosed, WaitLock, WaitTest, Wake, SpuriousWake, WaitUnlock,
                LockMutex, UnlockMutex, SearchHead, SearchStep, GetUse, TakeUse,
                Joined, vars, local
  <2>3. seen' => closed'
    BY <2>2 DEF WriterInv
  <2>4. /\ pc'[Writer] \in {"get_use", "unlink"} => cursor' = seq' /\ seq' \in Queue'
        /\ pc'[Writer] = "get_unlock" => seq' < taken' /\ seq' \notin InHand'
        /\ pc'[Writer] \in {"done", "null"} => seq' = blocks'
    BY <2>1, <2>2 DEF WriterInv
  <2> QED
    BY <2>3, <2>4 DEF WriterInv
<1>3. CASE SearchFound
  <2>1. Queue' = Queue /\ UNCHANGED <<seq, seen, closed, cursor>>
    BY <1>3, QuietEffect DEF Walking, SearchFound, local
  <2>2. cursor = seq /\ pc[Writer] = "search_step" /\ pc'[Writer] = "get_use"
    BY <1>3 DEF SearchFound
  <2>3. seq \in Queue
    BY <2>2 DEF ListInv, Ahead
  <2> QED
    BY <2>1, <2>2, <2>3 DEF WriterInv
<1>4. CASE SearchFailed
  <2>1. UNCHANGED <<seq, seen, closed, blocks>>
    BY <1>4 DEF SearchFailed, local
  <2>2. /\ cursor = NoJob /\ pc[Writer] = "search_step"
        /\ pc'[Writer] = IF seen THEN "null" ELSE "closed?"
    BY <1>4 DEF SearchFailed
  <2>3. seen => seq = blocks
    <3>1. seen => ~ seq < blocks
      BY <2>2 DEF ListInv, Ahead
    <3> QED
      BY <3>1
  <2> QED
    BY <2>1, <2>2, <2>3 DEF WriterInv
<1>5. CASE Unlink
  BY <1>5, UnlinkEffect DEF WriterInv, Listed, Queue
<1>6. CASE GetReturn
  BY <1>6, ReturnEffect DEF WriterInv
<1> QED
  BY <1>1, <1>2, <1>3, <1>4, <1>5, <1>6
     DEF Next, WriterStep, Waiting

(* One part after the other of ListInv for a step that adds nothing.        *)
LEMMA ListKept ==
    ASSUME TypeInv, HandInv, NEW chain \in [Job -> Job \cup {NoJob}], NEW rank \in [Job -> Nat],
           Linked(chain, rank), Ordered(chain, rank),
           Queue' = Queue, head' = head,
           \A j \in Queue : next'[j] = next[j],
           \A c \in Worker : pc[c] = "add_late_link" <=> pc'[c] = "add_late_link",
           \A c \in Worker : pc[c] = "add_late_link" =>
              /\ job'[c] = job[c] /\ old'[c] = old[c]
              /\ next'[job[c]] = next[job[c]]
    PROVE  Ordered(chain, rank)' /\ Linked(chain, rank)'
<1>1. Ordered(chain, rank)'
  BY DEF Ordered
<1>2. /\ head' \in Queue' \cup {NoJob}
      /\ \A j \in Queue' : head' # NoJob /\ rank[j] <= rank[head']
  BY DEF Linked
<1>3. \A j \in Queue' : \/ next'[j] = chain[j]
                        \/ \E c \in Worker : pc'[c] = "add_late_link" /\ job'[c] = j
  BY DEF Linked
<1>4. \A c \in Worker : pc'[c] = "add_late_link" => /\ head' = job'[c]
                                                    /\ next'[job'[c]] = NoJob
                                                    /\ chain[job'[c]] = old'[c]
  BY DEF Linked
<1> QED
  BY <1>1, <1>2, <1>3, <1>4 DEF Linked

(* A job that is put in front becomes the first of the chain.               *)
LEMMA ListPublished ==
    ASSUME IInv, NEW c \in Worker, AddHead(c) \/ AddHeadFirst(c)
    PROVE  ListInv'
<1> USE Basics DEF IInv, TypeInv, Step, Goto, list, cond, local
<1>1. PICK chain \in [Job -> Job \cup {NoJob}], rank \in [Job -> Nat], n \in Nat :
              /\ \A j \in Queue : rank[j] < n
              /\ Ordered(chain, rank)
              /\ Linked(chain, rank)
              /\ Ahead(rank)
  BY DEF ListInv
<1>n. PICK new : new = job[c]
  OBVIOUS
<1>2. /\ new \in Job /\ new \notin Queue /\ Queue' = Queue \cup {new}
      /\ job' = job /\ head' = new /\ next' = next
      /\ UNCHANGED <<seq, cursor, seen, blocks>>
      /\ \A d \in Thread : d # c => pc'[d] = pc[d]
  BY <1>n, PublishEffect
<1>3. Queue \subseteq Job
  BY DEF Queue
<1>c. PICK chain1 : chain1 = [chain EXCEPT ![new] = head]
  OBVIOUS
<1>r. PICK rank1 : rank1 = [rank EXCEPT ![new] = n]
  OBVIOUS
<1>4. /\ chain1 \in [Job -> Job \cup {NoJob}] /\ rank1 \in [Job -> Nat] /\ n + 1 \in Nat
      /\ chain1[new] = head /\ rank1[new] = n
      /\ \A j \in Queue : chain1[j] = chain[j] /\ rank1[j] = rank[j] /\ j # new
  BY <1>2, <1>3, <1>c, <1>r
<1>5. pc[c] \in {"add", "add_head"} /\ c \in Inside
  BY DEF AddHead, AddHeadFirst, Inside, AddAt
<1>6. \A d \in Worker : d # c => pc[d] \notin {"add_head", "add_late_link"}
  BY <1>5 DEF LockInv, Inside, AddAt
<1>7. ~ closed
  BY <1>5 DEF CloseInv, Remain, CloseAt
<1>8. \A j \in Queue' : rank1[j] < n + 1
  BY <1>1, <1>2, <1>3, <1>4
<1>9. Ordered(chain1, rank1)'
  <2>1. \A j \in Queue' : /\ chain1[j] \in Queue' \cup {NoJob}
                          /\ chain1[j] # NoJob => rank1[chain1[j]] < rank1[j]
    <3>1. ASSUME NEW j \in Queue
          PROVE  /\ chain1[j] \in Queue' \cup {NoJob}
                 /\ chain1[j] # NoJob => rank1[chain1[j]] < rank1[j]
      BY <1>1, <1>2, <1>4 DEF Ordered
    <3>2. /\ chain1[new] \in Queue' \cup {NoJob}
          /\ chain1[new] # NoJob => rank1[chain1[new]] < rank1[new]
      BY <1>1, <1>2, <1>4 DEF Linked
    <3> QED
      BY <1>2, <3>1, <3>2
  <2>2. \A j, k \in Queue' : rank1[k] < rank1[j]
                                => chain1[j] # NoJob /\ rank1[k] <= rank1[chain1[j]]
    <3>1. ASSUME NEW j \in Queue, NEW k \in Queue, rank1[k] < rank1[j]
          PROVE  chain1[j] # NoJob /\ rank1[k] <= rank1[chain1[j]]
      BY <1>1, <1>4, <3>1 DEF Ordered
    <3>2. ASSUME NEW k \in Queue
          PROVE  /\ chain1[new] # NoJob /\ rank1[k] <= rank1[chain1[new]]
                 /\ rank1[k] < rank1[new]
      BY <1>1, <1>4 DEF Linked
    <3>3. ~ rank1[new] < rank1[new]
      BY <1>4
    <3>4. \A k \in Queue : ~ rank1[new] < rank1[k]
      BY <1>1, <1>3, <1>4
    <3> QED
      BY <1>2, <3>1, <3>2, <3>3, <3>4
  <2>3. \A j, k \in Queue' : rank1[j] = rank1[k] => j = k
    <3>1. \A k \in Queue : rank1[k] # rank1[new]
      BY <1>1, <1>3, <1>4
    <3>2. \A j, k \in Queue : rank1[j] = rank1[k] => j = k
      BY <1>1, <1>4 DEF Ordered
    <3> QED
      BY <1>2, <3>1, <3>2
  <2> QED
    BY <2>1, <2>2, <2>3 DEF Ordered
<1>10. Linked(chain1, rank1)'
  <2>1. \A j \in Queue' : head' # NoJob /\ rank1[j] <= rank1[head']
    BY <1>1, <1>2, <1>3, <1>4
  <2>2. \A j \in Queue : next[j] = chain[j]
    BY <1>1, <1>5, <1>6 DEF Linked
  <2>3. CASE AddHead(c)
    <3>1. pc[c] = "add_head" /\ pc'[c] = "add_post"
      BY <2>3 DEF AddHead
    <3>2. next[new] = head
      BY <1>n, <3>1 DEF LooseInv
    <3>3. \A d \in Worker : pc'[d] # "add_late_link"
      BY <1>2, <1>6, <3>1
    <3> QED
      BY <1>2, <1>4, <2>1, <2>2, <3>2, <3>3 DEF Linked
  <2>4. CASE AddHeadFirst(c)
    <3>1. pc[c] = "add" /\ pc'[c] = "add_late_link" /\ old'[c] = head
      BY <2>4 DEF AddHeadFirst
    <3>2. next[new] = NoJob
      <4>1. pc[Writer] # "get_unlock"
        BY <1>5 DEF LockInv, Inside
      <4> QED
        BY <1>2, <1>6, <3>1, <4>1 DEF LooseInv
    <3>3. \A d \in Worker : pc'[d] = "add_late_link" => d = c
      BY <1>2, <1>6
    <3>4. job'[c] = new
      BY <1>2, <1>n
    <3> QED
      BY <1>2, <1>4, <2>1, <2>2, <3>1, <3>2, <3>3, <3>4 DEF Linked
  <2> QED
    BY <2>3, <2>4
<1>11. Ahead(rank1)'
  <2>1. ~ seen
    BY <1>7 DEF WriterInv
  <2>2. pc'[Writer] = pc[Writer]
    BY <1>2
  <2> QED
    BY <1>1, <1>2, <2>1, <2>2 DEF Ahead
<1> QED
  BY <1>4, <1>8, <1>9, <1>10, <1>11 DEF ListInv

(* The job that is taken out is bypassed.                                   *)
LEMMA ListUnlinked ==
    ASSUME IInv, Unlink
    PROVE  ListInv'
<1> USE Basics DEF IInv, TypeInv, Step, Goto, list, cond, local
<1>1. PICK chain \in [Job -> Job \cup {NoJob}], rank \in [Job -> Nat], n \in Nat :
              /\ \A j \in Queue : rank[j] < n
              /\ Ordered(chain, rank)
              /\ Linked(chain, rank)
              /\ Ahead(rank)
  BY DEF ListInv
<1>2. /\ seq \in Queue /\ Queue' = Queue \ {seq} /\ seq \in Job
      /\ pc'[Writer] = "get_unlock"
      /\ \A c \in Worker : /\ pc'[c] = pc[c]
                           /\ pc[c] \notin {"add_late_link", "add_head"}
      /\ pc[Writer] = "unlink"
  BY UnlinkEffect DEF Queue, AddAt
<1>3. Queue \subseteq Job
  BY DEF Queue
<1>4. \A j \in Queue : next[j] = chain[j]
  BY <1>1, <1>2 DEF Linked
<1>5. Ahead(rank)'
  BY <1>2 DEF Ahead
<1>6. /\ \A j \in Queue' : rank[j] < n
      /\ \A j, k \in Queue' : rank[j] = rank[k] => j = k
      /\ \A j \in Job : rank[j] \in Nat
  BY <1>1, <1>2 DEF Ordered
<1>7. CASE head = seq
  <2>1. head' = chain[seq] /\ next' = next
    <3>1. \A prev \in Job : next[prev] = seq => prev \in Queue
      BY <1>2 DEF LooseInv
    <3> QED
      BY <1>2, <1>4, <1>7 DEF Unlink
  <2>2. \A j \in Queue' : rank[j] < rank[seq]
    <3>1. \A j \in Queue : rank[j] <= rank[seq] /\ (rank[j] = rank[seq] => j = seq)
      BY <1>1, <1>2, <1>7 DEF Linked, Ordered
    <3> QED
      BY <1>2, <1>3, <1>6, <3>1
  <2>3. \A j \in Queue' : /\ chain[j] \in Queue' \cup {NoJob}
                          /\ chain[j] # NoJob => rank[chain[j]] < rank[j]
    <3>1. \A j \in Queue' : chain[j] # seq
      <4>1. SUFFICES ASSUME NEW j \in Queue', chain[j] = seq
                     PROVE  FALSE
        OBVIOUS
      <4>2. rank[seq] < rank[j] /\ rank[j] < rank[seq]
        BY <1>1, <1>2, <2>2, <4>1 DEF Ordered
      <4> QED
        BY <1>2, <1>3, <1>6, <4>2
    <3> QED
      BY <1>1, <1>2, <3>1 DEF Ordered
  <2>4. \A j, k \in Queue' : rank[k] < rank[j]
                                => chain[j] # NoJob /\ rank[k] <= rank[chain[j]]
    BY <1>1, <1>2 DEF Ordered
  <2>5. Ordered(chain, rank)'
    BY <1>6, <2>3, <2>4 DEF Ordered
  <2>6. head' \in Queue' \cup {NoJob}
    <3>1. chain[seq] \in Queue \cup {NoJob}
      BY <1>1, <1>2 DEF Ordered
    <3>2. chain[seq] # seq
      <4>1. chain[seq] = seq => rank[seq] < rank[seq]
        BY <1>1, <1>2 DEF Ordered
      <4> QED
        BY <1>2, <1>6, <4>1
    <3> QED
      BY <1>2, <2>1, <3>1, <3>2
  <2>7. \A j \in Queue' : head' # NoJob /\ rank[j] <= rank[head']
    BY <1>1, <1>2, <2>1, <2>2 DEF Ordered
  <2>8. Linked(chain, rank)'
    BY <1>2, <1>4, <2>1, <2>6, <2>7 DEF Linked
  <2> QED
    BY <1>5, <1>6, <2>5, <2>8 DEF ListInv
<1>8. CASE head # seq
  <2>1. PICK prev \in Job : /\ next[prev] = seq
                            /\ next' = [next EXCEPT ![prev] = next[seq]]
                            /\ head' = head
    BY <1>8 DEF Unlink
  <2>2. prev \in Queue
    BY <1>2, <2>1 DEF LooseInv
  <2>3. chain[prev] = seq /\ next[seq] = chain[seq]
    BY <1>2, <1>4, <2>1, <2>2
  <2>4. rank[seq] < rank[prev] /\ prev # seq /\ prev \in Queue'
    <3>1. rank[seq] < rank[prev]
      BY <1>1, <1>2, <2>2, <2>3 DEF Ordered
    <3> QED
      BY <1>2, <1>6, <2>2, <3>1
  <2>c. PICK chain1 : chain1 = [chain EXCEPT ![prev] = chain[seq]]
    OBVIOUS
  <2>5. /\ chain1 \in [Job -> Job \cup {NoJob}] /\ chain1[prev] = chain[seq]
        /\ \A j \in Queue' : j # prev => chain1[j] = chain[j]
    BY <1>2, <1>3, <2>1, <2>c
  <2>6. chain[seq] \in Queue' \cup {NoJob} /\ (chain[seq] # NoJob => rank[chain[seq]] < rank[seq])
    <3>1. chain[seq] \in Queue \cup {NoJob} /\ (chain[seq] # NoJob => rank[chain[seq]] < rank[seq])
      BY <1>1, <1>2 DEF Ordered
    <3> QED
      BY <1>2, <1>6, <3>1
  <2>7. \A j \in Queue' : j # prev => chain[j] # seq
    <3>1. SUFFICES ASSUME NEW j \in Queue', j # prev, chain[j] = seq
                   PROVE  FALSE
      OBVIOUS
    <3>2. j \in Queue /\ rank[seq] < rank[j] /\ rank[j] # rank[prev]
      BY <1>1, <1>2, <2>2, <3>1 DEF Ordered
    <3>3. rank[j] < rank[prev] => rank[j] <= rank[seq]
      BY <1>1, <2>2, <2>3, <3>2 DEF Ordered
    <3>4. rank[prev] < rank[j] => rank[prev] <= rank[seq]
      BY <1>1, <2>2, <3>1, <3>2 DEF Ordered
    <3>5. rank[j] \in Nat /\ rank[prev] \in Nat /\ rank[seq] \in Nat
      BY <1>2, <1>3, <1>6, <3>2
    <3> QED
      BY <2>4, <3>2, <3>3, <3>4, <3>5
  <2>8. \A j \in Queue' : /\ chain1[j] \in Queue' \cup {NoJob}
                          /\ chain1[j] # NoJob => rank[chain1[j]] < rank[j]
    <3>1. CASE chain[seq] # NoJob
      <4>1. rank[chain[seq]] < rank[prev]
        BY <1>2, <1>3, <1>6, <2>4, <2>6, <3>1
      <4> QED
        BY <1>1, <1>2, <2>5, <2>6, <2>7, <4>1 DEF Ordered
    <3>2. CASE chain[seq] = NoJob
      BY <1>1, <1>2, <2>5, <2>6, <2>7, <3>2 DEF Ordered
    <3> QED
      BY <3>1, <3>2
  <2>9. \A j, k \in Queue' : rank[k] < rank[j]
                                => chain1[j] # NoJob /\ rank[k] <= rank[chain1[j]]
    <3>1. ASSUME NEW k \in Queue', rank[k] < rank[prev]
          PROVE  chain[seq] # NoJob /\ rank[k] <= rank[chain[seq]]
      <4>1. rank[k] <= rank[seq] /\ rank[k] # rank[seq]
        BY <1>1, <1>2, <2>2, <2>3, <3>1 DEF Ordered
      <4>2. rank[k] \in Nat /\ rank[seq] \in Nat
        BY <1>2, <1>3, <1>6
      <4>3. rank[k] < rank[seq]
        BY <4>1, <4>2
      <4> QED
        BY <1>1, <1>2, <4>3 DEF Ordered
    <3>2. ASSUME NEW j \in Queue', NEW k \in Queue', j # prev, rank[k] < rank[j]
          PROVE  chain[j] # NoJob /\ rank[k] <= rank[chain[j]]
      BY <1>1, <1>2, <3>2 DEF Ordered
    <3> QED
      BY <2>5, <3>1, <3>2
  <2>10. Ordered(chain1, rank)'
    BY <1>6, <2>8, <2>9 DEF Ordered
  <2>11. Linked(chain1, rank)'
    <3>1. \A j \in Queue' : next'[j] = chain1[j]
      BY <1>2, <1>3, <1>4, <2>1, <2>3, <2>5
    <3>2. head' \in Queue' \cup {NoJob}
      BY <1>1, <1>2, <1>8, <2>1 DEF Linked
    <3>3. \A j \in Queue' : head' # NoJob /\ rank[j] <= rank[head']
      BY <1>1, <1>2, <2>1 DEF Linked
    <3> QED
      BY <1>2, <3>1, <3>2, <3>3 DEF Linked
  <2> QED
    BY <1>5, <1>6, <2>5, <2>10, <2>11 DEF ListInv
<1> QED
  BY <1>7, <1>8

LEMMA ListStep == IInv /\ [Next]_vars => ListInv'
<1> SUFFICES ASSUME IInv, [Next]_vars
             PROVE  ListInv'
  OBVIOUS
<1> USE Basics DEF IInv, TypeInv, Step, Goto, list, cond, local
<1>1. PICK chain \in [Job -> Job \cup {NoJob}], rank \in [Job -> Nat], n \in Nat :
              /\ \A j \in Queue : rank[j] < n
              /\ Ordered(chain, rank)
              /\ Linked(chain, rank)
              /\ Ahead(rank)
  BY DEF ListInv
<1>2. ASSUME Queue' = Queue, Ordered(chain, rank)', Linked(chain, rank)', Ahead(rank)'
      PROVE  ListInv'
  BY <1>1, <1>2 DEF ListInv
<1>3. ASSUME Queue' = Queue, UNCHANGED <<cursor, seen, seq, blocks>>,
             pc'[Writer] = "search_step" => pc[Writer] = "search_step"
      PROVE  Ahead(rank)'
  BY <1>1, <1>3 DEF Ahead
<1>4. ASSUME Queue' = Queue, UNCHANGED <<head, next, job, old>>,
             \A c \in Worker : pc[c] = "add_late_link" <=> pc'[c] = "add_late_link"
      PROVE  Ordered(chain, rank)' /\ Linked(chain, rank)'
  BY <1>1, <1>4, ListKept
<1>5. ASSUME NEW c \in Worker, QuietWorker(c)
      PROVE  ListInv'
  <2>1. pc'[Writer] = pc[Writer] /\ UNCHANGED <<cursor, seen>>
    BY <1>5 DEF QuietWorker, TakeEnd, AddUse, AddUnlock, SigLock, SigSet, SigUnlock, CloseUse,
                ClosePost, BcLock, BcSet, BcUnlock, CloseReturn, TakeUse, GiveUse,
                LockMutex, UnlockMutex, SetReady
  <2>2. /\ Queue' = Queue /\ UNCHANGED <<blocks, head, next, job, old, seq>>
        /\ \A d \in Worker : pc[d] = "add_late_link" <=> pc'[d] = "add_late_link"
    BY <1>5, QuietEffect DEF AddAt
  <2> QED
    BY <1>2, <1>3, <1>4, <2>1, <2>2
<1>6. CASE Waiting \/ Walking \/ Joined \/ UNCHANGED vars
  <2>1. /\ Queue' = Queue /\ UNCHANGED <<blocks, head, next, job, old, seq>>
        /\ \A c \in Worker : pc[c] = "add_late_link" <=> pc'[c] = "add_late_link"
    BY <1>6, QuietEffect DEF AddAt
  <2>2. CASE Waiting \/ SearchFound \/ SearchFailed \/ GetUse \/ Joined \/ UNCHANGED vars
    <3>1. pc'[Writer] # "search_step" \/ UNCHANGED <<pc, cursor, seen>>
      BY <2>2 DEF Waiting, ReadClosed, WaitLock, WaitTest, Wake, SpuriousWake, WaitUnlock,
                  LockMutex, UnlockMutex, SearchFound, SearchFailed, GetUse, TakeUse,
                  Joined, vars
    <3>2. Ahead(rank)'
      BY <1>3, <2>1, <3>1 DEF Ahead
    <3> QED
      BY <1>2, <1>4, <2>1, <3>2
  <2>3. CASE SearchHead
    <3>1. cursor' = head /\ seen' = seen /\ pc[Writer] = "search"
      BY <2>3 DEF SearchHead
    <3>2. head \in Queue \cup {NoJob}
      BY <1>1 DEF Linked
    <3>3. ASSUME seen, seq < blocks
          PROVE  head # NoJob /\ rank[seq] <= rank[head]
      <4>1. closed
        BY <3>3 DEF WriterInv
      <4>2. seq \in Queue
        BY <3>1, <3>3, <4>1, ClosedMeansAllIn
      <4> QED
        BY <1>1, <4>2 DEF Linked
    <3>4. Ahead(rank)'
      BY <2>1, <3>1, <3>2, <3>3 DEF Ahead
    <3> QED
      BY <1>2, <1>4, <2>1, <3>4
  <2>4. CASE SearchStep
    <3>1. /\ cursor' = next[cursor] /\ seen' = seen /\ pc[Writer] = "search_step"
          /\ cursor \notin {NoJob, seq}
      BY <2>4 DEF SearchStep
    <3>2. cursor \in Queue
      BY <1>1, <3>1 DEF Ahead
    <3>3. \/ next[cursor] = chain[cursor]
          \/ /\ next[cursor] = NoJob
             /\ \E c \in Worker : pc[c] = "add_late_link"
      BY <1>1, <3>2 DEF Linked
    <3>4. next[cursor] \in Queue \cup {NoJob}
      BY <1>1, <3>2, <3>3 DEF Ordered
    <3>5. ASSUME seen, seq < blocks
          PROVE  next[cursor] # NoJob /\ rank[seq] <= rank[next[cursor]]
      <4>1. closed
        BY <3>5 DEF WriterInv
      <4>2. seq \in Queue /\ \A c \in Worker : pc[c] # "add_late_link"
        BY <3>1, <3>5, <4>1, ClosedMeansAllIn DEF CloseAt
      <4>3. next[cursor] = chain[cursor]
        BY <3>3, <4>2
      <4>4. rank[seq] <= rank[cursor]
        BY <1>1, <3>1, <3>5 DEF Ahead
      <4>5. rank[seq] # rank[cursor]
        BY <1>1, <3>1, <3>2, <4>2 DEF Ordered
      <4>6. rank[seq] \in Nat /\ rank[cursor] \in Nat
        BY <1>1, <3>2, <4>2 DEF Queue
      <4>7. rank[seq] < rank[cursor]
        BY <4>4, <4>5, <4>6
      <4> QED
        BY <1>1, <3>2, <4>2, <4>3, <4>7 DEF Ordered
    <3>6. Ahead(rank)'
      BY <2>1, <3>1, <3>4, <3>5 DEF Ahead
    <3> QED
      BY <1>2, <1>4, <2>1, <3>6
  <2> QED
    BY <1>6, <2>2, <2>3, <2>4 DEF Walking
<1>7. ASSUME NEW c \in Worker, Take(c)
      PROVE  ListInv'
  <2>1. /\ Queue' = Queue /\ UNCHANGED <<blocks, head, next, old, seq, cursor, seen>>
        /\ \A d \in HasJob : job'[d] = job[d]
        /\ \A d \in Thread : d # c => pc'[d] = pc[d]
        /\ pc[c] = "take" /\ pc'[c] = "add_use"
    BY <1>7, TakeEffect
  <2>2. \A d \in Worker : pc[d] = "add_late_link" => job'[d] = job[d]
    BY <2>1 DEF HasJob, AddAt
  <2>3. \A d \in Worker : pc[d] = "add_late_link" <=> pc'[d] = "add_late_link"
    BY <2>1
  <2>4. Ordered(chain, rank)' /\ Linked(chain, rank)'
    BY <1>1, <2>1, <2>2, <2>3, ListKept
  <2> QED
    BY <1>2, <1>3, <2>1, <2>4
<1>8. ASSUME NEW c \in Worker, AddPost(c)
      PROVE  ListInv'
  <2>1. /\ Queue' = Queue /\ UNCHANGED <<blocks, head, next, old, seq, cursor, seen>>
        /\ \A d \in Worker : d # c => job'[d] = job[d]
        /\ \A d \in Thread : d # c => pc'[d] = pc[d]
        /\ pc[c] = "add_post" /\ pc'[c] = "add_unlock"
    BY <1>8, PostEffect
  <2>2. \A d \in Worker : pc[d] = "add_late_link" => job'[d] = job[d]
    BY <2>1
  <2>3. \A d \in Worker : pc[d] = "add_late_link" <=> pc'[d] = "add_late_link"
    BY <2>1
  <2>4. Ordered(chain, rank)' /\ Linked(chain, rank)'
    BY <1>1, <2>1, <2>2, <2>3, ListKept
  <2> QED
    BY <1>2, <1>3, <2>1, <2>4
<1>9. ASSUME NEW c \in Worker, Close(c)
      PROVE  ListInv'
  <2>1. /\ Queue' = Queue /\ UNCHANGED <<blocks, head, next, job, old, seq, cursor, seen>>
        /\ \A d \in Thread : d # c => pc'[d] = pc[d]
        /\ pc[c] = "close" /\ pc'[c] \in {"close_post", "close_unlock"}
    BY <1>9, CloseEffect
  <2> QED
    BY <1>2, <1>3, <1>4, <2>1
<1>10. ASSUME NEW c \in Worker, AddLink(c)
       PROVE  ListInv'
  <2>1. /\ Queue' = Queue /\ UNCHANGED <<blocks, head, job, seq, cursor, seen>>
        /\ \A d \in Thread : d # c => pc'[d] = pc[d]
        /\ c \in HasJob
    BY <1>10, LinkEffect
  <2>2. /\ next' = [next EXCEPT ![job[c]] = head] /\ old' = old
        /\ pc[c] = "add" /\ pc'[c] = "add_head"
    BY <1>10 DEF AddLink
  <2>3. job[c] \in Job /\ job[c] \notin Queue /\ \A d \in HasJob : job[d] = job[c] => d = c
    BY <2>1, <2>2 DEF Queue, HandInv
  <2>4. \A j \in Queue : next'[j] = next[j]
    BY <2>2, <2>3 DEF Queue
  <2>5. \A d \in Worker : pc[d] = "add_late_link" => next'[job[d]] = next[job[d]]
    <3>1. ASSUME NEW d \in Worker, pc[d] = "add_late_link"
          PROVE  job[d] # job[c] /\ job[d] \in Job
      BY <2>1, <2>2, <2>3, <3>1 DEF HasJob, AddAt, HandInv
    <3> QED
      BY <2>2, <3>1
  <2>6. Ordered(chain, rank)' /\ Linked(chain, rank)'
    BY <1>1, <2>1, <2>2, <2>4, <2>5, ListKept
  <2> QED
    BY <1>2, <1>3, <2>1, <2>6
<1>11. ASSUME NEW c \in Worker, AddLateLink(c)
       PROVE  ListInv'
  <2>1. /\ Queue' = Queue /\ UNCHANGED <<blocks, head, job, seq, cursor, seen>>
        /\ \A d \in Thread : d # c => pc'[d] = pc[d]
        /\ c \in HasJob
    BY <1>11, LinkEffect
  <2>2. /\ next' = [next EXCEPT ![job[c]] = old[c]]
        /\ pc[c] = "add_late_link" /\ pc'[c] = "add_post"
    BY <1>11 DEF AddLateLink
  <2>3. /\ job[c] \in Job
        /\ \A d \in HasJob : job[d] = job[c] => d = c
    BY <2>1 DEF HandInv
  <2>4. \A d \in Worker : pc'[d] # "add_late_link"
    <3>1. c \in Inside
      BY <2>2 DEF Inside, AddAt
    <3>2. \A d \in Worker : d # c => pc[d] # "add_late_link"
      BY <3>1 DEF LockInv, Inside, AddAt
    <3> QED
      BY <2>1, <2>2, <3>2
  <2>5. \A j \in Queue : next'[j] = chain[j]
    <3>1. ASSUME NEW j \in Queue, j # job[c]
          PROVE  next'[j] = chain[j]
      <4>1. \A d \in Worker : pc[d] = "add_late_link" => d = c
        BY <2>1, <2>4
      <4> QED
        BY <1>1, <2>2, <3>1, <4>1 DEF Linked, Queue
    <3>2. next'[job[c]] = chain[job[c]]
      BY <1>1, <2>2, <2>3 DEF Linked
    <3> QED
      BY <3>1, <3>2
  <2>6. Ordered(chain, rank)'
    BY <1>1, <2>1 DEF Ordered
  <2>7. Linked(chain, rank)'
    BY <1>1, <2>1, <2>4, <2>5 DEF Linked
  <2> QED
    BY <1>2, <1>3, <2>1, <2>6, <2>7
<1>12. ASSUME NEW c \in Worker, AddHead(c) \/ AddHeadFirst(c)
       PROVE  ListInv'
  BY <1>12, ListPublished
<1>13. CASE Unlink
  BY <1>13, ListUnlinked
<1>14. CASE GetReturn
  <2>1. /\ Queue' = Queue /\ UNCHANGED <<blocks, head, job, old>> /\ seq \notin Queue
        /\ next' = [next EXCEPT ![seq] = NoJob] /\ seq \in Job /\ seq \notin InHand
        /\ \A c \in Worker : pc'[c] = pc[c]
        /\ pc'[Writer] # "search_step"
    BY <1>14, ReturnEffect
  <2>2. \A j \in Queue : next'[j] = next[j]
    BY <2>1 DEF Queue
  <2>3. \A d \in Worker : pc[d] = "add_late_link" => next'[job[d]] = next[job[d]]
    <3>1. ASSUME NEW d \in Worker, pc[d] = "add_late_link"
          PROVE  job[d] # seq /\ job[d] \in Job
      BY <2>1, <3>1 DEF InHand, HasJob, AddAt, HandInv
    <3> QED
      BY <2>1, <3>1
  <2>4. Ordered(chain, rank)' /\ Linked(chain, rank)'
    BY <1>1, <2>1, <2>2, <2>3, ListKept
  <2>5. Ahead(rank)'
    BY <2>1 DEF Ahead
  <2> QED
    BY <1>2, <2>1, <2>4, <2>5
<1> QED
  BY <1>5, <1>6, <1>7, <1>8, <1>9, <1>10, <1>11, <1>12, <1>13, <1>14
     DEF Next, WorkerStep, WriterStep, QuietWorker, Waiting, Walking

LEMMA InitInvariant == Init => IInv
<1> SUFFICES ASSUME Init PROVE IInv
  OBVIOUS
<1> USE Basics DEF Init
<1>1. \A c \in Worker : pc[c] = "take"
  OBVIOUS
<1>2. pc[Writer] = "closed?"
  OBVIOUS
<1>3. HasJob = {} /\ InHand = {} /\ Queue = {} /\ Listed = {} /\ Counted = {}
  BY <1>1 DEF HasJob, AddAt, InHand, Queue, Listed, Counted
<1>4. Inside = {} /\ Remain = Worker /\ Worker # {}
  BY <1>1, <1>2, WriteAssumption DEF Inside, Remain, AddAt, CloseAt
<1>5. TypeInv
  <2>1. {closed, mutex, ready, asleep, seen} \subseteq BOOLEAN
    OBVIOUS
  <2>2. /\ next \in [Job -> Job \cup {NoJob}]
        /\ job \in [Worker -> Job \cup {NoJob}] /\ old \in [Worker -> Job \cup {NoJob}]
        /\ {head, tail, cursor} \subseteq Job \cup {NoJob}
    OBVIOUS
  <2>3. blocks \in 0 .. MaxBlocks /\ taken \in 0 .. blocks /\ seq \in 0 .. taken
    OBVIOUS
  <2>4. DOMAIN pc = Thread
    OBVIOUS
  <2> QED
    BY <1>1, <1>2, <2>1, <2>2, <2>3, <2>4 DEF TypeInv, WriterAt, WorkerAt
<1>6. LockInv /\ HandInv /\ LooseInv /\ WriterInv
  BY <1>1, <1>2, <1>3, <1>4 DEF LockInv, HandInv, LooseInv, WriterInv
<1>7. CloseInv
  BY <1>1, <1>4 DEF CloseInv, CloseAt
<1>8. CountInv
  BY <1>3, FS_EmptySet DEF CountInv
<1>9. ListInv
  <2>1. PICK rank : rank = [j \in Job |-> 0]
    OBVIOUS
  <2>2. rank \in [Job -> Nat]
    BY <2>1
  <2>3. Ordered(next, rank) /\ Linked(next, rank) /\ Ahead(rank)
    BY <1>1, <1>2, <1>3 DEF Ordered, Linked, Ahead
  <2>4. next \in [Job -> Job \cup {NoJob}]
    OBVIOUS
  <2> QED
    BY <1>3, <2>2, <2>3, <2>4 DEF ListInv
<1> QED
  BY <1>5, <1>6, <1>7, <1>8, <1>9 DEF IInv

LEMMA Invariant == Spec => []IInv
<1>1. IInv /\ [Next]_vars => IInv'
  BY TypeStep, LockStep, HandStep, CloseStep, CountStep, ListStep, LooseStep, WriterInvStep
     DEF IInv
<1> QED
  BY <1>1, InitInvariant, PTL DEF Spec

-----------------------------------------------------------------------------
(* What can be reached by following the pointers                           *)

LEMMA NothingBehindNoJob == Reached(NoJob) = {}
<1>1. {} \in SUBSET Job /\ NoJob \in {} \cup {NoJob}
  OBVIOUS
<1>2. ASSUME NEW k \in Reached(NoJob)
      PROVE  k \in {}
  BY <1>1, <1>2 DEF Reached
<1> QED
  BY <1>2

(* From a job whose pointers are all stored one reaches it and all jobs     *)
(* that were added before it.                                              *)
LEMMA ReachedBefore ==
    ASSUME NEW chain \in [Job -> Job \cup {NoJob}], NEW rank \in [Job -> Nat],
           Ordered(chain, rank), NEW j \in Queue,
           \A k \in Queue : rank[k] <= rank[j] => next[k] = chain[k]
    PROVE  Reached(j) = {k \in Queue : rank[k] <= rank[j]}
<1> DEFINE Q == {k \in Queue : rank[k] <= rank[j]}
<1> USE Basics
<1>1. Queue \subseteq Job /\ Q \in SUBSET Job /\ j \in Q /\ \A k \in Job : rank[k] \in Nat
  BY DEF Queue
<1>2. \A m \in Q : next[m] \in Q \cup {NoJob}
  <2>1. ASSUME NEW m \in Q, next[m] # NoJob
        PROVE  next[m] \in Q
    <3>1. next[m] = chain[m] /\ chain[m] \in Queue /\ rank[chain[m]] < rank[m] /\ rank[m] <= rank[j]
      BY <2>1 DEF Ordered
    <3> QED
      BY <1>1, <3>1
  <2> QED
    BY <2>1
<1>3. Reached(j) \subseteq Q
  BY <1>1, <1>2 DEF Reached
<1>4. ASSUME NEW d \in Q, NEW S \in SUBSET Job, j \in S \cup {NoJob},
             \A m \in S : next[m] \in S \cup {NoJob}
      PROVE  d \in S
  <2> SUFFICES ASSUME d \notin S PROVE FALSE
    OBVIOUS
  <2> DEFINE U == {m \in S \cap Q : rank[d] < rank[m]}
  <2>1. j \in U
    <3>1. rank[d] # rank[j]
      BY <1>1, <1>4 DEF Ordered
    <3> QED
      BY <1>1, <1>4, <3>1
  <2>2. PICK m \in U : \A u \in U : rank[m] <= rank[u]
    BY <1>1, <2>1, FirstAdded
  <2>3. next[m] = chain[m] /\ chain[m] \in S /\ chain[m] \in Q
    BY <1>2, <1>4, <2>2 DEF Ordered
  <2>4. rank[d] <= rank[chain[m]] /\ rank[chain[m]] < rank[m]
    BY <1>4, <2>2, <2>3 DEF Ordered
  <2>5. rank[d] # rank[chain[m]]
    BY <1>4, <2>3 DEF Ordered
  <2>6. chain[m] \in U
    BY <1>1, <2>3, <2>4, <2>5
  <2>7. rank[m] <= rank[chain[m]] /\ rank[m] \in Nat /\ rank[chain[m]] \in Nat
    BY <1>1, <2>2, <2>6
  <2> QED
    BY <2>4, <2>7
<1>5. Q \subseteq Reached(j)
  BY <1>1, <1>4 DEF Reached
<1> QED
  BY <1>3, <1>5

(* When no store is under way, head leads to all jobs of the queue.         *)
LEMMA HeadReachesAll ==
    ASSUME IInv, \A c \in Worker : pc[c] # "add_late_link"
    PROVE  Reached(head) = Queue
<1> USE Basics
<1>1. PICK chain \in [Job -> Job \cup {NoJob}], rank \in [Job -> Nat], n \in Nat :
              Ordered(chain, rank) /\ Linked(chain, rank)
  BY DEF IInv, ListInv
<1>2. head \in Queue \cup {NoJob} /\ \A j \in Queue : head # NoJob /\ rank[j] <= rank[head]
  BY <1>1 DEF Linked
<1>3. \A j \in Queue : next[j] = chain[j]
  BY <1>1 DEF Linked
<1>4. CASE head = NoJob
  BY <1>2, <1>4, NothingBehindNoJob
<1>5. CASE head # NoJob
  BY <1>1, <1>2, <1>3, <1>5, ReachedBefore
<1> QED
  BY <1>4, <1>5

(* While one is, head leads to the new job only, and the thread that adds   *)
(* it knows the others.                                                    *)
LEMMA QueuedIsQueue == IInv => Queued = Queue
<1> SUFFICES ASSUME IInv PROVE Queued = Queue
  OBVIOUS
<1> USE Basics
<1>1. CASE \A c \in Worker : pc[c] # "add_late_link"
  <2>1. \A c \in Worker : Reached(old[c]) = {}
    BY <1>1, NothingBehindNoJob DEF IInv, HandInv
  <2>2. Reached(head) = Queue
    BY <1>1, HeadReachesAll
  <2> QED
    BY <2>1, <2>2 DEF Queued
<1>2. ASSUME NEW c \in Worker, pc[c] = "add_late_link"
      PROVE  Queued = Queue
  <2>1. \A d \in Worker : d # c => pc[d] # "add_late_link"
    BY <1>2 DEF IInv, LockInv, Inside, AddAt
  <2>2. \A d \in Worker : d # c => Reached(old[d]) = {}
    BY <2>1, NothingBehindNoJob DEF IInv, HandInv
  <2>3. Queued = Reached(head) \cup Reached(old[c])
    BY <2>2 DEF Queued
  <2>4. PICK chain \in [Job -> Job \cup {NoJob}], rank \in [Job -> Nat], n \in Nat :
                Ordered(chain, rank) /\ Linked(chain, rank)
    BY DEF IInv, ListInv
  <2>5. head = job[c] /\ next[head] = NoJob /\ chain[head] = old[c] /\ head \in Queue
    <3>1. head = job[c] /\ next[head] = NoJob /\ chain[head] = old[c]
      BY <1>2, <2>4 DEF Linked
    <3>2. c \in HasJob
      BY <1>2 DEF HasJob, AddAt
    <3>3. job[c] # NoJob
      BY <3>2 DEF IInv, HandInv, TypeInv
    <3> QED
      BY <2>4, <3>1, <3>3 DEF Linked
  <2>6. Queue \subseteq Job /\ \A j \in Job : rank[j] \in Nat
    BY DEF Queue
  <2>7. Reached(head) = {head}
    <3>1. {head} \in SUBSET Job /\ \A m \in {head} : next[m] \in {head} \cup {NoJob}
      BY <2>5, <2>6
    <3>2. Reached(head) \subseteq {head}
      BY <3>1 DEF Reached
    <3>3. head \in Reached(head)
      BY <2>5, <2>6 DEF Reached
    <3> QED
      BY <3>2, <3>3
  <2>8. \A k \in Queue : k # head => rank[k] < rank[head] /\ next[k] = chain[k]
    <3>1. \A k \in Queue : rank[k] <= rank[head] /\ (rank[k] = rank[head] => k = head)
      BY <2>4, <2>5 DEF Ordered, Linked
    <3>2. \A k \in Queue : k # head => next[k] = chain[k]
      BY <2>1, <2>4, <2>5 DEF Linked
    <3> QED
      BY <2>5, <2>6, <3>1, <3>2
  <2>9. Queue \ {head} = Reached(old[c])
    <3>1. CASE old[c] = NoJob
      <4>1. \A k \in Queue : ~ rank[k] < rank[head]
        BY <2>4, <2>5, <3>1 DEF Ordered
      <4> QED
        BY <2>8, <3>1, <4>1, NothingBehindNoJob
    <3>2. CASE old[c] # NoJob
      <4>1. old[c] \in Queue /\ rank[old[c]] < rank[head]
        BY <2>4, <2>5, <3>2 DEF Ordered
      <4>2. \A k \in Queue : rank[k] <= rank[old[c]] <=> k # head
        <5>1. \A k \in Queue : k # head => rank[k] <= rank[old[c]]
          BY <2>4, <2>5, <2>8 DEF Ordered
        <5>2. ~ rank[head] <= rank[old[c]]
          BY <2>5, <2>6, <4>1
        <5> QED
          BY <5>1, <5>2
      <4>3. Reached(old[c]) = {k \in Queue : rank[k] <= rank[old[c]]}
        BY <2>4, <2>8, <4>1, <4>2, ReachedBefore
      <4> QED
        BY <4>2, <4>3
    <3> QED
      BY <3>1, <3>2
  <2> QED
    BY <2>3, <2>5, <2>7, <2>9
<1> QED
  BY <1>1, <1>2

-----------------------------------------------------------------------------
(* The properties                                                          *)

(* NullOnlyAtTheEnd: get_job_seq returns NULL only when nothing is left to  *)
(* write, although it reads "closed" and the list without the lock, for any *)
(* number of compress threads and blocks.                                  *)
THEOREM NullMeansDone == Spec => []NullOnlyAtTheEnd
<1>1. IInv => NullOnlyAtTheEnd
  BY DEF IInv, WriterInv, NullOnlyAtTheEnd
<1> QED
  BY <1>1, Invariant, PTL

(* FoundJobIsThere: what the unlocked search has found is still in the list *)
(* when the writer holds the lock (the assertion at parallel.c:444).        *)
THEOREM FoundStaysThere == Spec => []FoundJobIsThere
<1>1. ASSUME IInv, pc[Writer] = "unlink"
      PROVE  seq \in Reached(head)
  <2>1. \A c \in Worker : pc[c] # "add_late_link"
    BY <1>1, Basics DEF IInv, LockInv, Inside, AddAt
  <2>2. seq \in Queue
    BY <1>1 DEF IInv, WriterInv
  <2> QED
    BY <1>1, <2>1, <2>2, HeadReachesAll
<1>2. IInv => FoundJobIsThere
  BY <1>1 DEF FoundJobIsThere
<1> QED
  BY <1>2, Invariant, PTL

(* ListConsistent: between two operations the list holds exactly the jobs   *)
(* that were added and not taken, and len counts them.                     *)
THEOREM ListIsConsistent == Spec => []ListConsistent
<1>1. ASSUME IInv, use = 1
      PROVE  /\ Reached(head) = { j \in 0 .. taken - 1 :
                                    j >= seq /\ \A c \in Worker : job[c] # j }
             /\ len = Cardinality(Reached(head))
  <2> USE Basics DEF IInv, TypeInv
  <2>1. /\ \A c \in Worker : pc[c] \notin AddAt
        /\ pc[Writer] # "get_unlock"
    BY <1>1 DEF LockInv, Inside
  <2>2. Reached(head) = Queue
    BY <1>1, <2>1, HeadReachesAll DEF AddAt
  <2>3. \A j \in Job : (\A c \in Worker : job[c] # j) <=> j \notin InHand
    BY <1>1 DEF InHand, HandInv, HasJob
  <2>4. \A c \in HasJob : pc[c] \notin {"add_late_link", "add_post"}
    BY <2>1 DEF HasJob, AddAt
  <2>5. \A j \in Job : j \in Queue <=> j < taken /\ j >= seq /\ j \notin InHand
    BY <1>1, <2>1, <2>4 DEF Queue, InHand
  <2>6. Listed = Queue
    BY <2>5 DEF Listed, Queue
  <2>7. Queue = { j \in 0 .. taken - 1 : j >= seq /\ \A c \in Worker : job[c] # j }
    <3>1. Queue \subseteq Job /\ 0 .. taken - 1 \subseteq Job
      BY <1>1 DEF Queue
    <3>2. \A j \in Job : j \in Queue <=>
             j \in { i \in 0 .. taken - 1 : i >= seq /\ \A c \in Worker : job[c] # i }
      BY <1>1, <2>3, <2>5
    <3> QED
      BY <3>1, <3>2
  <2> QED
    BY <1>1, <2>2, <2>6, <2>7 DEF CountInv
<1>2. IInv => ListConsistent
  BY <1>1 DEF ListConsistent
<1> QED
  BY <1>2, Invariant, PTL

(* TypeOK: the assertions on len and active hold, the semaphore "use" is    *)
(* binary.                                                                 *)
THEOREM TypeCorrect == Spec => []TypeOK
<1>1. ASSUME IInv
      PROVE  TypeOK
  <2> USE <1>1, Basics DEF IInv, TypeInv
  <2>1. len \in 0 .. MaxBlocks
    <3>1. Listed \in SUBSET Job
      BY DEF Listed, Queue
    <3>2. Cardinality(Listed) \in Nat /\ Cardinality(Listed) <= MaxBlocks
      BY <3>1, FS_Subset, FS_CardinalityType
    <3> QED
      BY <3>2 DEF CountInv
  <2>2. active \in 0 .. MaxBlocks + 1
    <3>1. Counted \in SUBSET Job
      BY DEF Counted
    <3>2. Cardinality(Counted) \in Nat /\ Cardinality(Counted) <= MaxBlocks
      BY <3>1, FS_Subset, FS_CardinalityType
    <3> QED
      BY <3>2 DEF CountInv
  <2>3. numThreads \in 0 .. Cardinality(Worker)
    <3>1. Remain \in SUBSET Worker /\ IsFiniteSet(Worker)
      BY WriteAssumption DEF Remain
    <3>2. /\ Cardinality(Remain) \in Nat /\ Cardinality(Worker) \in Nat
          /\ Cardinality(Remain) <= Cardinality(Worker)
      BY <3>1, FS_Subset, FS_CardinalityType
    <3> QED
      BY <3>2 DEF CloseInv
  <2>4. seq \in 0 .. MaxBlocks /\ use \in {0, 1}
    BY DEF LockInv
  <2> QED
    BY <2>1, <2>2, <2>3, <2>4 DEF TypeOK
<1> QED
  BY <1>1, Invariant, PTL

-----------------------------------------------------------------------------
(* The refinement of SeqMailbox                                            *)

Box == IF pc[Writer] = "get_unlock" THEN Queue \cup {seq} ELSE Queue
Left == IF closed THEN Worker
        ELSE {c \in Worker : pc[c] \in {"close_unlock", "done"}}
Ended == pc[Writer] = "null"

(* Adding at the head is the step at which a block is in the box, the       *)
(* return of get_job_seq the one at which it is fetched; a thread leaves    *)
(* when it has decremented num_threads.                                    *)
LEMMA MailboxStep ==
    ASSUME IInv, IInv', [Next]_vars
    PROVE  \/ UNCHANGED <<Box, seq, Left, Ended>>
           \/ \E j \in Job : /\ Left # Worker /\ j >= seq /\ j \notin Box
                             /\ Box' = Box \cup {j} /\ UNCHANGED <<seq, Left, Ended>>
           \/ /\ seq \in Box /\ Box' = Box \ {seq} /\ seq' = seq + 1
              /\ UNCHANGED <<Left, Ended>>
           \/ \E c \in Worker : Left' = Left \cup {c} /\ UNCHANGED <<Box, seq, Ended>>
           \/ Left = Worker /\ Box = {} /\ Ended' = TRUE /\ UNCHANGED <<Box, seq, Left>>
<1> USE Basics DEF IInv, TypeInv, Step, Goto
<1>1. ASSUME NEW c \in Worker, QuietWorker(c)
      PROVE  UNCHANGED <<Box, seq, Left, Ended>>
  <2>1. /\ pc'[Writer] = pc[Writer] /\ closed' = closed
        /\ \/ /\ pc[c] \in {"close_unlock", "done"} <=> pc'[c] \in {"close_unlock", "done"}
              /\ pc'[c] # "bc_lock"
           \/ pc[c] \in CloseAt \ {"close_unlock"}
        /\ \A d \in Worker : d # c => pc'[d] = pc[d]
    BY <1>1 DEF QuietWorker, TakeEnd, AddUse, AddUnlock, SigLock, SigSet, SigUnlock, CloseUse,
                ClosePost, BcLock, BcSet, BcUnlock, CloseReturn, TakeUse, GiveUse,
                LockMutex, UnlockMutex, SetReady, CloseAt
  <2>2. Left' = Left
    <3>1. CASE closed
      BY <2>1, <3>1 DEF Left
    <3>2. CASE ~ closed
      <4>1. pc[c] \notin CloseAt \ {"close_unlock"}
        BY <3>2 DEF CloseInv
      <4> QED
        BY <2>1, <3>2, <4>1 DEF Left
    <3> QED
      BY <3>1, <3>2
  <2>3. Queue' = Queue /\ seq' = seq
    BY <1>1, QuietEffect
  <2> QED
    BY <2>1, <2>2, <2>3 DEF Box, Ended
<1>2. ASSUME NEW c \in Worker, \/ Take(c) \/ AddLink(c) \/ AddLateLink(c) \/ AddPost(c)
      PROVE  UNCHANGED <<Box, seq, Left, Ended>>
  <2>1. /\ Queue' = Queue /\ seq' = seq /\ closed' = closed
        /\ \A d \in Thread : d # c => pc'[d] = pc[d]
    BY <1>2, TakeEffect, LinkEffect, PostEffect
  <2>2. pc[c] \notin {"close_unlock", "done"} /\ pc'[c] \notin {"close_unlock", "done"}
    BY <1>2 DEF Take, AddLink, AddLateLink, AddPost
  <2> QED
    BY <2>1, <2>2 DEF Box, Left, Ended
<1>3. ASSUME NEW c \in Worker, AddHead(c) \/ AddHeadFirst(c)
      PROVE  \E j \in Job : /\ Left # Worker /\ j >= seq /\ j \notin Box
                            /\ Box' = Box \cup {j} /\ UNCHANGED <<seq, Left, Ended>>
  <2>1. /\ job[c] \in Job /\ job[c] \notin Queue /\ Queue' = Queue \cup {job[c]}
        /\ seq' = seq /\ closed' = closed
        /\ \A d \in Thread : d # c => pc'[d] = pc[d]
        /\ pc[Writer] # "get_unlock" /\ c \in HasJob
    BY <1>3, PublishEffect
  <2>2. pc[c] \in {"add", "add_head"} /\ pc'[c] \in {"add_late_link", "add_post"}
    BY <1>3 DEF AddHead, AddHeadFirst
  <2>3. job[c] >= seq
    BY <2>1 DEF HandInv
  <2>4. ~closed
    BY <2>2 DEF CloseInv, Remain, CloseAt
  <2>5. Left # Worker /\ Left' = Left
    BY <2>1, <2>2, <2>4 DEF Left
  <2>6. Box = Queue /\ Box' = Queue' /\ Ended' = Ended
    BY <2>1 DEF Box, Ended
  <2> QED
    BY <2>1, <2>3, <2>5, <2>6
<1>4. ASSUME NEW c \in Worker, Close(c)
      PROVE  Left' = Left \cup {c} /\ UNCHANGED <<Box, seq, Ended>>
  <2>1. /\ Queue' = Queue /\ seq' = seq
        /\ \A d \in Thread : d # c => pc'[d] = pc[d]
        /\ pc[c] = "close" /\ pc'[c] \in {"close_post", "close_unlock"}
    BY <1>4, CloseEffect
  <2>2. /\ closed' = (closed \/ numThreads' = 0)
        /\ pc'[c] = IF numThreads' = 0 THEN "close_post" ELSE "close_unlock"
    BY <1>4 DEF Close
  <2>3. ~closed /\ \A d \in Worker : pc[d] \notin CloseAt \ {"close_unlock"}
    BY <2>1 DEF CloseInv, Remain, CloseAt
  <2>4. CASE numThreads' = 0
    <3>1. closed' /\ \A d \in Worker : pc'[d] \in CloseAt \cup {"done"}
      BY <2>2, <2>4 DEF CloseInv, Remain
    <3>2. \A d \in Worker : d # c => pc[d] \in {"close_unlock", "done"}
      BY <2>1, <2>3, <3>1
    <3> QED
      BY <2>1, <2>3, <3>1, <3>2 DEF Left, Box, Ended
  <2>5. CASE numThreads' # 0
    <3>1. ~closed' /\ pc'[c] = "close_unlock"
      BY <2>2, <2>3, <2>5
    <3> QED
      BY <2>1, <2>3, <3>1 DEF Left, Box, Ended
  <2> QED
    BY <2>4, <2>5
<1>5. ASSUME \/ Waiting \/ SearchHead \/ SearchStep \/ SearchFound \/ GetUse
             \/ Joined \/ UNCHANGED vars
      PROVE  UNCHANGED <<Box, seq, Left, Ended>>
  <2>1. Queue' = Queue /\ seq' = seq
    BY <1>5, QuietEffect DEF Walking
  <2>2. /\ closed' = closed
        /\ \A c \in Worker : pc'[c] = pc[c]
        /\ pc'[Writer] = "null" <=> pc[Writer] = "null"
        /\ pc'[Writer] = "get_unlock" <=> pc[Writer] = "get_unlock"
    BY <1>5 DEF Waiting, ReadClosed, WaitLock, WaitTest, Wake, SpuriousWake, WaitUnlock,
                LockMutex, UnlockMutex, SearchHead, SearchStep, SearchFound, GetUse, TakeUse,
                Joined, vars
  <2> QED
    BY <2>1, <2>2 DEF Box, Left, Ended
<1>6. CASE SearchFailed
  <2>1. Queue' = Queue /\ seq' = seq
    BY <1>6, QuietEffect DEF Walking
  <2>2. /\ pc[Writer] = "search_step" /\ closed' = closed
        /\ pc'[Writer] = IF seen THEN "null" ELSE "closed?"
        /\ \A c \in Worker : pc'[c] = pc[c]
    BY <1>6 DEF SearchFailed
  <2>3. Box' = Box /\ Left' = Left /\ Box = Queue
    BY <2>1, <2>2 DEF Box, Left
  <2>4. CASE ~ seen
    BY <2>1, <2>2, <2>3, <2>4 DEF Ended
  <2>5. CASE seen
    <3>1. closed
      BY <2>5 DEF WriterInv
    <3>2. seq' = blocks'
      BY <2>2, <2>5 DEF WriterInv
    <3>3. blocks' = blocks
      BY <1>6 DEF SearchFailed
    <3>4. Queue = {}
      <4>1. \A j \in Job : j \in Queue <=> seq <= j /\ j < blocks
        BY <2>2, <3>1, ClosedMeansAllIn
      <4> QED
        BY <2>1, <3>2, <3>3, <4>1 DEF Queue
    <3>5. Left = Worker /\ Ended' = TRUE
      BY <2>2, <2>5, <3>1 DEF Left, Ended
    <3> QED
      BY <2>1, <2>3, <3>4, <3>5
  <2> QED
    BY <2>4, <2>5
<1>7. CASE Unlink
  <2>1. /\ seq \in Queue /\ Queue' = Queue \ {seq} /\ seq' = seq /\ closed' = closed
        /\ pc[Writer] = "unlink" /\ pc'[Writer] = "get_unlock"
        /\ \A c \in Worker : pc'[c] = pc[c]
    BY <1>7, UnlinkEffect
  <2>2. Box' = Box
    BY <2>1 DEF Box
  <2> QED
    BY <2>1, <2>2 DEF Left, Ended
<1>8. CASE GetReturn
  <2>1. /\ Queue' = Queue /\ seq \notin Queue /\ seq' = seq + 1 /\ closed' = closed
        /\ pc[Writer] = "get_unlock" /\ pc'[Writer] \in {"done", "closed?"}
        /\ \A c \in Worker : pc'[c] = pc[c]
    BY <1>8, ReturnEffect
  <2>2. seq \in Box /\ Box' = Box \ {seq} /\ Left' = Left /\ Ended' = Ended
    BY <2>1 DEF Box, Left, Ended
  <2> QED
    BY <2>1, <2>2
<1> QED
  BY <1>1, <1>2, <1>3, <1>4, <1>5, <1>6, <1>7, <1>8
     DEF Next, WorkerStep, WriterStep, QuietWorker, Waiting

(* MailboxSpec: for the writer the queue is a box from which it takes the   *)
(* blocks in order, whatever the order in which the threads finish them and *)
(* although it looks at the list while they change it.                     *)
THEOREM QueueIsMailbox == Spec => MailboxSpec
<1> DEFINE Boxed == IInv /\ Queued = Queue
<1>1. Init => Mailbox!Init
  <2> SUFFICES ASSUME Init PROVE Mailbox!Init
    OBVIOUS
  <2>1. IInv
    BY InitInvariant
  <2>2. Queued = {}
    <3>1. \A j \in Job : ~ j < taken
      BY Basics DEF Init
    <3>2. Queue = {}
      BY <3>1 DEF Queue
    <3> QED
      BY <2>1, <3>2, QueuedIsQueue
  <2>3. pc[Writer] = "closed?" /\ \A c \in Worker : pc[c] = "take"
    BY Basics DEF Init
  <2> QED
    BY <2>2, <2>3 DEF Init, Mailbox!Init
<1>2. ASSUME Boxed, Boxed', [Next]_vars
      PROVE  [Mailbox!Next]_<<IF pc[Writer] = "get_unlock" THEN Queued \cup {seq} ELSE Queued,
                              seq,
                              IF closed THEN Worker
                              ELSE {c \in Worker : pc[c] \in {"close_unlock", "done"}},
                              pc[Writer] = "null">>
  <2>1. /\ Box = IF pc[Writer] = "get_unlock" THEN Queued \cup {seq} ELSE Queued
        /\ Box' = IF pc'[Writer] = "get_unlock" THEN Queued' \cup {seq'} ELSE Queued'
    BY <1>2 DEF Box
  <2>2. \/ UNCHANGED <<Box, seq, Left, Ended>>
        \/ \E j \in Job : /\ Left # Worker /\ j >= seq /\ j \notin Box
                          /\ Box' = Box \cup {j} /\ UNCHANGED <<seq, Left, Ended>>
        \/ /\ seq \in Box /\ Box' = Box \ {seq} /\ seq' = seq + 1
           /\ UNCHANGED <<Left, Ended>>
        \/ \E c \in Worker : Left' = Left \cup {c} /\ UNCHANGED <<Box, seq, Ended>>
        \/ Left = Worker /\ Box = {} /\ Ended' = TRUE /\ UNCHANGED <<Box, seq, Left>>
    BY <1>2, MailboxStep
  <2> QED
    BY <2>1, <2>2 DEF Left, Ended, Mailbox!Next, Mailbox!Put, Mailbox!Fetch,
                      Mailbox!Leave, Mailbox!End
<1>3. IInv => Boxed
  BY QueuedIsQueue
<1> QED
  <2> HIDE DEF Boxed
  <2> QED
    BY <1>1, <1>2, <1>3, Invariant, PTL DEF Spec, MailboxSpec, Mailbox!Spec

=============================================================================
