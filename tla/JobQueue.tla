------------------------------ MODULE JobQueue ------------------------------
(***************************************************************************)
(* The queue between the reader and the compress threads (parallel.c:       *)
(* add_job_end, close_job_queue, get_job_bgn) at the granularity of its     *)
(* semaphores.  "use" guards the list.  "active" counts the jobs, and one   *)
(* unit more once the queue is closed: a consumer that finds the list empty *)
(* puts that unit back, so that the end is passed from consumer to consumer.*)
(*                                                                         *)
(* The list is the sequence of the jobs reached from job_q->head.  A job is *)
(* its number, job->seq.  The single producer is deflate_file_parallel.     *)
(***************************************************************************)
EXTENDS Integers, Sequences, FiniteSets

CONSTANTS Consumer,     \* the compress threads
          Reader,       \* the thread that runs deflate_file_parallel
          MaxJobs       \* bound: the input has at most this many blocks

ASSUME QueueAssumption == /\ IsFiniteSet(Consumer)
                          /\ Reader \notin Consumer
                          /\ MaxJobs \in Nat

Thread == Consumer \cup {Reader}

NoJob == -1

VARIABLES list,         \* from job_q->head
          tail,         \* job_q->tail
          len,          \* job_q->len
          active, use,  \* the two semaphores
          numThreads,   \* job_q->num_threads
          closed,       \* job_q->closed
          seq,          \* the number of the next job the reader makes
          ret,          \* consumers: the list as read from job_q->head
          pc

vars == <<list, tail, len, active, use, numThreads, closed, seq, ret, pc>>

ReaderPC == {"add", "add_use", "add_link", "add_post", "add_unlock",
             "close_use", "close", "close_post", "close_unlock", "done"}

ConsumerPC == {"get_active", "get_use", "get_read", "get_repost", "get_end",
               "get_unlink", "get_unlock", "done"}

Goto(t, to) == pc' = [pc EXCEPT ![t] = to]

(* new_job_queue(1, 0)                                                     *)
Init == /\ list = <<>>
        /\ tail = NoJob
        /\ len = 0
        /\ active = 0
        /\ use = 1
        /\ numThreads = 1
        /\ closed = FALSE
        /\ seq = 0
        /\ ret = [c \in Consumer |-> <<>>]
        /\ pc = [t \in Thread |-> IF t = Reader THEN "add" ELSE "get_active"]

(* get_lock(job_q->use), by whoever is at "from"                           *)
TakeUse(t, from, to) == /\ pc[t] = from
                        /\ use > 0
                        /\ use' = use - 1
                        /\ Goto(t, to)
                        /\ UNCHANGED <<list, tail, len, active, numThreads,
                                       closed, seq, ret>>

(* release_lock(job_q->use)                                                *)
GiveUse(t, from, to) == /\ pc[t] = from
                        /\ use' = use + 1
                        /\ Goto(t, to)
                        /\ UNCHANGED <<list, tail, len, active, numThreads,
                                       closed, seq, ret>>

(* release_lock or increment_lock(job_q->active)                           *)
PostActive(t, from, to) == /\ pc[t] = from
                           /\ active' = active + 1
                           /\ Goto(t, to)
                           /\ UNCHANGED <<list, tail, len, use, numThreads,
                                          closed, seq, ret>>

-----------------------------------------------------------------------------
(* add_job_end                                                             *)

AddCall == /\ pc[Reader] = "add"
           /\ seq < MaxJobs
           /\ Goto(Reader, "add_use")
           /\ UNCHANGED <<list, tail, len, active, use, numThreads, closed,
                          seq, ret>>

AddUse == TakeUse(Reader, "add_use", "add_link")

(* Jobs linked behind a tail that is not in the list would be unreachable  *)
AddLink == /\ pc[Reader] = "add_link"
           /\ list' = IF tail = NoJob THEN <<seq>>
                      ELSE IF list # <<>> /\ list[Len(list)] = tail
                           THEN Append(list, seq)
                           ELSE list
           /\ tail' = seq
           /\ len' = len + 1
           /\ seq' = seq + 1
           /\ Goto(Reader, "add_post")
           /\ UNCHANGED <<active, use, numThreads, closed, ret>>

AddPostTwice ==           \* mutant: two units for one job
           /\ pc[Reader] = "add_post"
           /\ active' = active + 2
           /\ Goto(Reader, "add_unlock")
           /\ UNCHANGED <<list, tail, len, use, numThreads, closed, seq, ret>>

AddPost == PostActive(Reader, "add_post", "add_unlock")

AddReturn == GiveUse(Reader, "add_unlock", "add")

-----------------------------------------------------------------------------
(* close_job_queue                                                         *)

CloseCall == /\ pc[Reader] = "add"
             /\ Goto(Reader, "close_use")
             /\ UNCHANGED <<list, tail, len, active, use, numThreads, closed,
                            seq, ret>>

CloseUse == TakeUse(Reader, "close_use", "close")

Close == /\ pc[Reader] = "close"
         /\ numThreads' = numThreads - 1
         /\ closed' = (closed \/ numThreads' = 0)
         /\ Goto(Reader, IF numThreads' = 0 THEN "close_post" ELSE "close_unlock")
         /\ UNCHANGED <<list, tail, len, active, use, seq, ret>>

ClosePost == PostActive(Reader, "close_post", "close_unlock")

ClosePostForgotten ==     \* mutant: nobody is woken by the close
             /\ pc[Reader] = "close_post"
             /\ Goto(Reader, "close_unlock")
             /\ UNCHANGED <<list, tail, len, active, use, numThreads, closed,
                            seq, ret>>

CloseReturn == GiveUse(Reader, "close_unlock", "done")

-----------------------------------------------------------------------------
(* get_job_bgn                                                             *)

GetActive(c) == /\ pc[c] = "get_active"
                /\ active > 0
                /\ active' = active - 1
                /\ Goto(c, "get_use")
                /\ UNCHANGED <<list, tail, len, use, numThreads, closed, seq, ret>>

GetUseNoWait(c) ==        \* mutant: the list is read without the lock
             /\ pc[c] = "get_use"
             /\ Goto(c, "get_read")
             /\ UNCHANGED <<list, tail, len, active, use, numThreads, closed,
                            seq, ret>>

GetUse(c) == TakeUse(c, "get_use", "get_read")

GetRead(c) == /\ pc[c] = "get_read"
              /\ ret' = [ret EXCEPT ![c] = list]
              /\ Goto(c, IF list = <<>> THEN "get_repost" ELSE "get_unlink")
              /\ UNCHANGED <<list, tail, len, active, use, numThreads, closed, seq>>

GetRepostForgotten(c) ==  \* mutant: the first consumer keeps the end to itself
                /\ pc[c] = "get_repost"
                /\ Goto(c, "get_end")
                /\ UNCHANGED <<list, tail, len, active, use, numThreads, closed,
                               seq, ret>>

(* an empty list: pass the end on and return NULL                          *)
GetRepost(c) == PostActive(c, "get_repost", "get_end")

GetEnd(c) == GiveUse(c, "get_end", "done")

GetUnlinkStaleTail(c) ==  \* mutant: the tail still points to the taken job
                /\ pc[c] = "get_unlink"
                /\ list' = Tail(ret[c])
                /\ len' = len - 1
                /\ Goto(c, "get_unlock")
                /\ UNCHANGED <<tail, active, use, numThreads, closed, seq, ret>>

GetUnlink(c) == /\ pc[c] = "get_unlink"
                /\ list' = Tail(ret[c])
                /\ tail' = IF list' = <<>> THEN NoJob ELSE tail
                /\ len' = len - 1
                /\ Goto(c, "get_unlock")
                /\ UNCHANGED <<active, use, numThreads, closed, seq, ret>>

GetReturn(c) == GiveUse(c, "get_unlock", "get_active")

-----------------------------------------------------------------------------
ReaderStep == \/ AddCall \/ AddUse \/ AddLink \/ AddPost \/ AddReturn
              \/ CloseCall \/ CloseUse \/ Close \/ ClosePost \/ CloseReturn

ConsumerStep(c) == \/ GetActive(c) \/ GetUse(c) \/ GetRead(c)
                   \/ GetRepost(c) \/ GetEnd(c)
                   \/ GetUnlink(c) \/ GetReturn(c)

(* All threads returned: pthread_join                                      *)
Joined == /\ \A t \in Thread : pc[t] = "done"
          /\ UNCHANGED vars

Next == \/ ReaderStep
        \/ \E c \in Consumer : ConsumerStep(c)
        \/ Joined

(* Every thread keeps running unless it waits for a semaphore              *)
Fairness == /\ WF_vars(ReaderStep)
            /\ \A c \in Consumer : WF_vars(ConsumerStep(c))

Spec == Init /\ [][Next]_vars
FairSpec == Spec /\ Fairness

-----------------------------------------------------------------------------
(* What the variables hold (proved in LockedListsProofs).                  *)
TypeOK == /\ list \in Seq(Nat)
          /\ tail \in Nat \cup {NoJob}
          /\ len \in Nat
          /\ active \in Nat
          /\ use \in Nat
          /\ numThreads \in {0, 1}
          /\ closed \in BOOLEAN
          /\ seq \in Nat
          /\ ret \in [Consumer -> Seq(Nat)]
          /\ pc \in [Thread -> ReaderPC \cup ConsumerPC]

Inside == {t \in Thread : pc[t] \in {"add_link", "add_post", "add_unlock",
              "close", "close_post", "close_unlock", "get_read", "get_repost",
              "get_end", "get_unlink", "get_unlock"}}

(* The threads that hold a unit of "active": consumers that took one, and   *)
(* the reader when it is about to post one.                                 *)
Claims == {t \in Thread : pc[t] \in {"get_use", "get_read", "get_unlink",
                                     "get_repost", "add_post", "close_post"}}

End == IF closed THEN 1 ELSE 0

(* The list is only touched by the thread that holds "use".                 *)
MutualExclusion == \A t, u \in Inside : t = u

(* "active" is the number of jobs, plus one when the queue is closed.  With *)
(* a unit too few a job or the end is never found; with one too many a      *)
(* consumer takes an empty queue for a closed one.                          *)
ActiveAccounts == active + Cardinality(Claims) = Len(list) + End

(* head, tail and len agree between two operations; the assertions of       *)
(* add_job_end (parallel.c:529) and get_job_bgn (parallel.c:381) follow.    *)
ListConsistent == /\ len = Len(list)
                  /\ tail = IF list = <<>> THEN NoJob ELSE list[Len(list)]

(* get_job_bgn returns NULL only when the queue was closed and every job    *)
(* that was ever added has been taken: no block of the file is forgotten.   *)
EndOnlyWhenDrained ==
    \A c \in Consumer : pc[c] \in {"get_repost", "get_end", "done"} =>
        closed /\ list = <<>> /\ pc[Reader] \in {"close_post", "close_unlock", "done"}

(* The queue is a FIFO that loses and repeats nothing.                      *)
Abstract == INSTANCE ClosableQueue WITH
                queue <- list, added <- seq,
                ended <- {c \in Consumer : pc[c] \in {"get_repost", "get_end", "done"}}
AbstractSpec == Abstract!Spec

(* Every compress thread is eventually told that there is no more work and  *)
(* returns, so that the joins of deflate_file_parallel return.              *)
EveryThreadEnds == <>(\A t \in Thread : pc[t] = "done")
=============================================================================
