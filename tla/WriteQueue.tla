----------------------------- MODULE WriteQueue -----------------------------
(***************************************************************************)
(* The queue between the compress threads and the write thread              *)
(* (parallel.c: add_job_bgn, close_job_queue, condition_t, get_job_seq).    *)
(* The compress threads add finished jobs at the head in any order, the     *)
(* writer takes them out by number.  The writer looks at "closed" and walks *)
(* through the list WITHOUT the lock "use"; it takes the lock only to       *)
(* unlink the job it has seen.  The two stores that publish a job, next and *)
(* head, are plain stores: they become visible in either order.            *)
(*                                                                         *)
(* The condition queue_update (mutex, ready, a sleeping writer) is never    *)
(* reset, so that after the first job the writer polls.                     *)
(***************************************************************************)
EXTENDS Integers, FiniteSets

CONSTANTS Worker,       \* the compress threads
          Writer,       \* the write thread
          MaxBlocks     \* bound: the input has at most this many blocks

ASSUME WriteAssumption == /\ IsFiniteSet(Worker)
                          /\ Worker # {}
                          /\ Writer \notin Worker
                          /\ MaxBlocks \in Nat

Thread == Worker \cup {Writer}
Job == 0 .. MaxBlocks - 1
NoJob == -1

VARIABLES blocks,       \* the number of blocks of the input
          taken,        \* how many of them the compress threads have taken
          head, next,   \* the list: job_q->head and job->next
          tail,         \* job_q->tail, which get_job_seq does not maintain
          len, active,  \* job_q->len and a semaphore nobody waits for here
          use,          \* the semaphore that guards the list
          numThreads, closed,
          mutex,        \* queue_update->mutex is free
          ready,        \* queue_update->ready
          asleep,       \* the writer is in pthread_cond_wait
          job,          \* compress threads: the job in hand
          old,          \* compress threads: job->next, not yet stored
          seq,          \* writer: the block to write next
          seen,         \* writer: it saw "closed"
          cursor,       \* writer: "search" of search_job_queue
          pc

list  == <<head, next, tail, len>>
cond  == <<mutex, ready, asleep>>
local == <<job, old, seq, seen, cursor>>
vars  == <<blocks, taken, list, active, use, numThreads, closed, cond, local, pc>>

Goto(t, to) == pc' = [pc EXCEPT ![t] = to]
Step(t, from, to) == pc[t] = from /\ Goto(t, to)

(* new_job_queue(processes, 1)                                             *)
Init == /\ blocks \in 0 .. MaxBlocks
        /\ taken = 0
        /\ head = NoJob /\ tail = NoJob /\ len = 0
        /\ next = [j \in Job |-> NoJob]
        /\ active = 0
        /\ use = 1
        /\ numThreads = Cardinality(Worker)
        /\ closed = FALSE
        /\ mutex = TRUE /\ ready = FALSE /\ asleep = FALSE
        /\ job = [c \in Worker |-> NoJob]
        /\ old = [c \in Worker |-> NoJob]
        /\ seq = 0
        /\ seen = FALSE
        /\ cursor = NoJob
        /\ pc = [t \in Thread |-> IF t = Writer THEN "closed?" ELSE "take"]

TakeUse(t, from, to) == /\ Step(t, from, to)
                        /\ use > 0
                        /\ use' = use - 1
                        /\ UNCHANGED <<blocks, taken, list, active, numThreads,
                                       closed, cond, local>>

GiveUse(t, from, to) == /\ Step(t, from, to)
                        /\ use' = use + 1
                        /\ UNCHANGED <<blocks, taken, list, active, numThreads,
                                       closed, cond, local>>

LockMutex(t, from, to) == /\ Step(t, from, to)
                          /\ mutex
                          /\ mutex' = FALSE
                          /\ UNCHANGED <<blocks, taken, list, active, use,
                                 numThreads, closed, ready, asleep, local>>

UnlockMutex(t, from, to) == /\ Step(t, from, to)
                            /\ mutex' = TRUE
                            /\ UNCHANGED <<blocks, taken, list, active, use,
                                   numThreads, closed, ready, asleep, local>>

SetReadyNoWake(t, from, to) ==    \* mutant: nobody is woken
                         /\ Step(t, from, to)
                         /\ ready' = TRUE
                         /\ UNCHANGED <<blocks, taken, list, active, use,
                                numThreads, closed, mutex, asleep, local>>

(* ready = 1, and pthread_cond_signal or _broadcast: there is one waiter   *)
SetReady(t, from, to) == /\ Step(t, from, to)
                         /\ ready' = TRUE
                         /\ asleep' = FALSE
                         /\ UNCHANGED <<blocks, taken, list, active, use,
                                numThreads, closed, mutex, local>>

-----------------------------------------------------------------------------
(* A compress thread gets the next job (JobQueue) and compresses it        *)

Take(c) == /\ Step(c, "take", "add_use")
           /\ taken < blocks
           /\ job' = [job EXCEPT ![c] = taken]
           /\ taken' = taken + 1
           /\ UNCHANGED <<blocks, list, active, use, numThreads, closed, cond,
                          old, seq, seen, cursor>>

TakeEnd(c) == /\ Step(c, "take", "close_use")
              /\ taken = blocks
              /\ UNCHANGED <<blocks, taken, list, active, use, numThreads,
                             closed, cond, local>>

(* add_job_bgn                                                             *)

AddUseUnchecked(c) ==     \* mutant: the lock is taken without a wait
            /\ Step(c, "add_use", "add")
            /\ use' = use - 1
            /\ UNCHANGED <<blocks, taken, list, active, numThreads, closed,
                           cond, local>>

AddUseNoWait(c) ==        \* mutant: two threads add at the same time
            /\ Step(c, "add_use", "add")
            /\ UNCHANGED <<blocks, taken, list, active, use, numThreads,
                           closed, cond, local>>

AddUse(c) == TakeUse(c, "add_use", "add")

SetTail(c) == tail' = IF head = NoJob THEN job[c] ELSE tail

AddLink(c) == /\ Step(c, "add", "add_head")
              /\ SetTail(c)
              /\ next' = [next EXCEPT ![job[c]] = head]
              /\ UNCHANGED <<blocks, taken, head, len, active, use, numThreads,
                             closed, cond, local>>

AddHead(c) == /\ Step(c, "add_head", "add_post")
              /\ head' = job[c]
              /\ UNCHANGED <<blocks, taken, next, tail, len, active, use,
                             numThreads, closed, cond, local>>

(* the same two stores, seen in the other order by the unlocked search     *)
AddHeadFirst(c) == /\ Step(c, "add", "add_late_link")
                   /\ SetTail(c)
                   /\ old' = [old EXCEPT ![c] = head]
                   /\ head' = job[c]
                   /\ UNCHANGED <<blocks, taken, next, len, active, use,
                          numThreads, closed, cond, job, seq, seen, cursor>>

AddLateLink(c) == /\ Step(c, "add_late_link", "add_post")
                  /\ next' = [next EXCEPT ![job[c]] = old[c]]
                  /\ old' = [old EXCEPT ![c] = NoJob]
                  /\ UNCHANGED <<blocks, taken, head, tail, len, active, use,
                         numThreads, closed, cond, job, seq, seen, cursor>>

AddPost(c) == /\ Step(c, "add_post", "add_unlock")
              /\ len' = len + 1
              /\ active' = active + 1
              /\ job' = [job EXCEPT ![c] = NoJob]
              /\ UNCHANGED <<blocks, taken, head, next, tail, use, numThreads,
                             closed, cond, old, seq, seen, cursor>>

AddUnlock(c) == GiveUse(c, "add_unlock", "sig_lock")

SigLock(c)   == LockMutex(c, "sig_lock", "sig_set")
SigSet(c)    == SetReady(c, "sig_set", "sig_unlock")
SigUnlock(c) == UnlockMutex(c, "sig_unlock", "take")

-----------------------------------------------------------------------------
(* close_job_queue                                                         *)

CloseUse(c) == TakeUse(c, "close_use", "close")

CloseByFirst(c) ==        \* mutant: the first thread that leaves closes
            /\ pc[c] = "close"
            /\ numThreads' = numThreads - 1
            /\ closed' = TRUE
            /\ Goto(c, IF ~closed THEN "close_post" ELSE "close_unlock")
            /\ UNCHANGED <<blocks, taken, list, active, use, cond, local>>

Close(c) == /\ pc[c] = "close"
            /\ numThreads' = numThreads - 1
            /\ closed' = (closed \/ numThreads' = 0)
            /\ Goto(c, IF numThreads' = 0 THEN "close_post" ELSE "close_unlock")
            /\ UNCHANGED <<blocks, taken, list, active, use, cond, local>>

ClosePost(c) == /\ Step(c, "close_post", "bc_lock")
                /\ active' = active + 1
                /\ UNCHANGED <<blocks, taken, list, use, numThreads, closed,
                               cond, local>>

BcLock(c)   == LockMutex(c, "bc_lock", "bc_set")
BcSet(c)    == SetReady(c, "bc_set", "bc_unlock")
BcUnlock(c) == UnlockMutex(c, "bc_unlock", "close_unlock")

CloseReturn(c) == GiveUse(c, "close_unlock", "done")

-----------------------------------------------------------------------------
(* get_job_seq                                                             *)

ReadClosed == /\ pc[Writer] = "closed?"
              /\ seen' = closed
              /\ Goto(Writer, IF closed THEN "search" ELSE "wait_lock")
              /\ UNCHANGED <<blocks, taken, list, active, use, numThreads,
                             closed, cond, job, old, seq, cursor>>

(* wait_condition                                                          *)
WaitLock == LockMutex(Writer, "wait_lock", "wait_test")

WaitTest == /\ pc[Writer] = "wait_test"
            /\ IF ready
               THEN Goto(Writer, "wait_unlock") /\ UNCHANGED <<mutex, asleep>>
               ELSE Goto(Writer, "asleep") /\ mutex' = TRUE /\ asleep' = TRUE
            /\ UNCHANGED <<blocks, taken, list, active, use, numThreads,
                           closed, ready, local>>

Wake == ~asleep /\ LockMutex(Writer, "asleep", "wait_test")

(* pthread_cond_wait may return without a signal                           *)
SpuriousWake == /\ asleep
                /\ asleep' = FALSE
                /\ UNCHANGED <<blocks, taken, list, active, use, numThreads,
                               closed, mutex, ready, local, pc>>

WaitUnlock == UnlockMutex(Writer, "wait_unlock", "search")

(* search_job_queue, without the lock                                      *)
SearchHead == /\ Step(Writer, "search", "search_step")
              /\ cursor' = head
              /\ UNCHANGED <<blocks, taken, list, active, use, numThreads,
                             closed, cond, job, old, seq, seen>>

SearchStep == /\ pc[Writer] = "search_step"
              /\ cursor \notin {NoJob, seq}
              /\ cursor' = next[cursor]
              /\ UNCHANGED <<blocks, taken, list, active, use, numThreads,
                             closed, cond, job, old, seq, seen, pc>>

SearchFound == /\ Step(Writer, "search_step", "get_use")
               /\ cursor = seq
               /\ UNCHANGED <<blocks, taken, list, active, use, numThreads,
                              closed, cond, local>>

SearchFailedLate ==       \* mutant: "closed" is looked at after the search
                /\ pc[Writer] = "search_step"
                /\ cursor = NoJob
                /\ Goto(Writer, IF closed THEN "null" ELSE "closed?")
                /\ UNCHANGED <<blocks, taken, list, active, use, numThreads,
                               closed, cond, local>>

(* nothing found: NULL is returned if "closed" was seen BEFORE the search  *)
SearchFailed == /\ pc[Writer] = "search_step"
                /\ cursor = NoJob
                /\ Goto(Writer, IF seen THEN "null" ELSE "closed?")
                /\ UNCHANGED <<blocks, taken, list, active, use, numThreads,
                               closed, cond, local>>

GetUse == TakeUse(Writer, "get_use", "unlink")

UnlinkFirst ==            \* mutant: head is replaced wherever the job was
          /\ Step(Writer, "unlink", "get_unlock")
          /\ head' = next[seq]
          /\ len' = len - 1
          /\ UNCHANGED <<blocks, taken, next, tail, active, use, numThreads,
                         closed, cond, local>>

Unlink == /\ Step(Writer, "unlink", "get_unlock")
          /\ \/ /\ head = seq
                /\ head' = next[seq]
                /\ next' = next
             \/ /\ head # seq
                /\ head' = head
                /\ \E prev \in Job : /\ next[prev] = seq
                                     /\ next' = [next EXCEPT ![prev] = next[seq]]
          /\ len' = len - 1
          /\ UNCHANGED <<blocks, taken, tail, active, use, numThreads, closed,
                         cond, local>>

(* The job was written; it was the last one if more = 0                    *)
GetReturn == /\ pc[Writer] = "get_unlock"
             /\ use' = use + 1
             /\ next' = [next EXCEPT ![seq] = NoJob]
             /\ seq' = seq + 1
             /\ cursor' = NoJob
             /\ Goto(Writer, IF seq + 1 = blocks THEN "done" ELSE "closed?")
             /\ UNCHANGED <<blocks, taken, head, tail, len, active, numThreads,
                            closed, cond, job, old, seen>>

-----------------------------------------------------------------------------
WorkerStep(c) == \/ Take(c) \/ TakeEnd(c)
                 \/ AddUse(c) \/ AddLink(c) \/ AddHead(c)
                 \/ AddHeadFirst(c) \/ AddLateLink(c) \/ AddPost(c) \/ AddUnlock(c)
                 \/ SigLock(c) \/ SigSet(c) \/ SigUnlock(c)
                 \/ CloseUse(c) \/ Close(c) \/ ClosePost(c)
                 \/ BcLock(c) \/ BcSet(c) \/ BcUnlock(c) \/ CloseReturn(c)

WriterStep == \/ ReadClosed \/ WaitLock \/ WaitTest \/ Wake \/ WaitUnlock
              \/ SearchHead \/ SearchStep \/ SearchFound \/ SearchFailed
              \/ GetUse \/ Unlink \/ GetReturn

Returned == /\ \A c \in Worker : pc[c] = "done"
            /\ pc[Writer] \in {"done", "null"}

Joined == /\ Returned
          /\ UNCHANGED vars

Next == \/ \E c \in Worker : WorkerStep(c)
        \/ WriterStep
        \/ SpuriousWake
        \/ Joined

(* Every thread keeps running.  The writer polls, so that the mutex of the  *)
(* condition is free again and again rather than for good: a thread that    *)
(* wants it gets it eventually (strong fairness of pthread_mutex_lock).     *)
Fairness == /\ WF_vars(WriterStep)
            /\ \A c \in Worker : /\ WF_vars(WorkerStep(c))
                                 /\ SF_vars(SigLock(c))
                                 /\ SF_vars(BcLock(c))

Spec == Init /\ [][Next]_vars
FairSpec == Spec /\ Fairness

-----------------------------------------------------------------------------
(* What the variables of write_jobs hold: the assertions and the counts of *)
(* add_job_bgn and get_job_seq stay in their ranges.                       *)
TypeOK == /\ blocks \in 0 .. MaxBlocks /\ taken \in 0 .. blocks
          /\ {head, tail, cursor} \subseteq Job \cup {NoJob}
          /\ next \in [Job -> Job \cup {NoJob}]
          /\ len \in 0 .. MaxBlocks /\ active \in 0 .. MaxBlocks + 1
          /\ use \in {0, 1} /\ numThreads \in 0 .. Cardinality(Worker)
          /\ {closed, mutex, ready, asleep, seen} \subseteq BOOLEAN
          /\ job \in [Worker -> Job \cup {NoJob}]
          /\ old \in [Worker -> Job \cup {NoJob}]
          /\ seq \in 0 .. MaxBlocks
          /\ DOMAIN pc = Thread

(* The jobs reached from job j by following next: they are in every set     *)
(* that j is in and that no pointer leads out of.                          *)
Reached(j) == {k \in Job : \A S \in SUBSET Job :
                  /\ j \in S \cup {NoJob}
                  /\ \A m \in S : next[m] \in S \cup {NoJob}
                  => k \in S}

(* The jobs in the queue, those behind a half published job included, and   *)
(* without the one the writer has unlinked.                                 *)
Queued == Reached(head) \cup UNION {Reached(old[c]) : c \in Worker}

(* Between two operations the list holds exactly the jobs that were added   *)
(* and not taken, len counts them, and only the half-done operation of the  *)
(* one thread inside the lock can be seen.                                  *)
ListConsistent ==
    use = 1 => /\ Reached(head) = { j \in 0 .. taken - 1 :
                                      j >= seq /\ \A c \in Worker : job[c] # j }
               /\ len = Cardinality(Reached(head))

(* The job that the unlocked search has seen is still there when the writer *)
(* holds the lock: assert(result != NULL) at parallel.c:444.                *)
FoundJobIsThere == pc[Writer] = "unlink" => seq \in Reached(head)

(* get_job_seq returns NULL only when there is nothing left to write, even  *)
(* though it reads "closed" and the list without a lock.                    *)
NullOnlyAtTheEnd == pc[Writer] = "null" => seq = blocks

(* The queue is a mailbox with an in-order reader.                          *)
Mailbox == INSTANCE SeqMailbox WITH
              Putter <- Worker,
              Block <- Job,
              box <- IF pc[Writer] = "get_unlock" THEN Queued \cup {seq} ELSE Queued,
              left <- IF closed THEN Worker
                      ELSE {c \in Worker : pc[c] \in {"close_unlock", "done"}},
              ended <- pc[Writer] = "null"
MailboxSpec == Mailbox!Spec

(* No wake-up is lost: the writer gets every block and all threads return.  *)
EveryBlockIsFetched == <>(seq = blocks /\ Returned)
=============================================================================
