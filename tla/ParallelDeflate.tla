-------------------------- MODULE ParallelDeflate ---------------------------
(***************************************************************************)
(* deflate_file_parallel (deflate.c) with its compress threads and its      *)
(* write thread (parallel.c).  The reader cuts the input into blocks, gives *)
(* each job an input and an output space and the end of the block before it *)
(* as dictionary, and queues a job when the next one was read.  Compress    *)
(* threads compress, compute the check value, give back dictionary and      *)
(* input, and pass the job on; the writer writes the jobs in order.         *)
(*                                                                         *)
(* Operations on the pools and on the two queues are single steps here:     *)
(* SpacePool, JobQueue and WriteQueue show that they may be taken so.       *)
(*                                                                         *)
(* Data: the input is the units 0 .. call.len-1 and [from, len] is the data *)
(* of an interval of it.  Input spaces have an identity, because their      *)
(* length is looked at after they were given back; output and dictionary    *)
(* spaces are counted, and what is in them is kept with the job.            *)
(***************************************************************************)
EXTENDS Integers, Sequences, FiniteSets

CONSTANTS Worker,       \* the compress threads there may be
          BlockSize,    \* units in an input space
          Dict,         \* units in a dictionary: DICT
          Calls,        \* the calls of deflate_file_parallel
          Fits          \* whether a compressed block fits its output space

(* A call has an input, which a pipe delivers in parts of any length, the  *)
(* option --independent, and as many compress threads as --processes says. *)
CallRecords == [len : Nat, piped : BOOLEAN, independent : BOOLEAN,
                threads : (SUBSET Worker) \ {{}}]

ASSUME DeflateAssumption == /\ IsFiniteSet(Worker) /\ Worker # {}
                            /\ Worker \cap {"reader", "writer"} = {}
                            /\ BlockSize \in Nat \ {0}
                            /\ Dict \in 1 .. BlockSize
                            /\ Calls \subseteq CallRecords
                            /\ Fits \subseteq BOOLEAN /\ Fits # {}

NoJob == -1
NoData == [from |-> -1, len |-> 0]

VARIABLES call,         \* what deflate_file_parallel was called with
          offset,       \* how much of it was read
          data,         \* space->buf of each input space
          len,          \* space->len of each input space
          inList,       \* the free input spaces, in the order they are reused
          outFree, dictFree,    \* how many spaces the other pools have
          jobs,         \* the jobs made so far; job seq is jobs[seq + 1]
          jobQueue, jobsClosed, \* the queue of the compress threads
          writeQueue,   \* the jobs that wait for the writer
          cur,          \* compress threads: the job in hand
          seq,          \* writer: the number of the job to write
          ulen,         \* writer: ulen
          crcOk,        \* writer: final_check is the check value of the input so far
          file,         \* the compressed blocks in the output file
          trailer,      \* the trailer of the output file
          pc            \* of "reader", "writer" and each compress thread

pools  == <<data, len, inList, outFree, dictFree>>
queues == <<jobQueue, jobsClosed, writeQueue>>
output == <<seq, ulen, crcOk, file, trailer>>
vars   == <<call, offset, pools, jobs, queues, cur, output, pc>>

Limit == 2 * Cardinality(call.threads)    \* spaces in each pool
Space == 1 .. Limit

Thread == Worker \cup {"reader", "writer"}

Goto(t, to) == pc' = [pc EXCEPT ![t] = to]

(* A failed assertion ends the process: no thread moves any more           *)
Aborted == pc["reader"] = "aborted"

At(t, where) == pc[t] = where /\ ~Aborted

Job(j) == jobs[j + 1]
Last   == Len(jobs) - 1         \* the job that was made last
Update(j, field, value) == jobs' = [jobs EXCEPT ![j + 1][field] = value]

Init == /\ call \in Calls
        /\ offset = 0
        /\ data = [s \in Space |-> NoData]
        /\ len = [s \in Space |-> 0]
        /\ inList = [i \in 1 .. Limit |-> i]
        /\ outFree = Limit /\ dictFree = Limit
        /\ jobs = <<>>
        /\ jobQueue = <<>> /\ jobsClosed = FALSE
        /\ writeQueue = {}
        /\ cur = [c \in Worker |-> NoJob]
        /\ seq = 0 /\ ulen = 0 /\ crcOk = TRUE
        /\ file = <<>>
        /\ trailer = <<>>
        /\ pc = [t \in Thread |-> CASE t = "reader" -> "get_in"
                                  [] t \in Worker \ call.threads -> "done"
                                  [] OTHER -> "get_job"]

-----------------------------------------------------------------------------
(* The reader: the loop of deflate_file_parallel                           *)

(* new_job: an input space, then an output space                           *)
GetIn == /\ At("reader", "get_in")
         /\ inList # <<>>
         /\ inList' = Tail(inList)
         /\ len' = [len EXCEPT ![Head(inList)] = 0]
         /\ jobs' = Append(jobs, [in |-> Head(inList), more |-> TRUE,
                                  dict |-> NoData, check |-> NoData, out |-> <<>>])
         /\ Goto("reader", "get_out")
         /\ UNCHANGED <<call, offset, data, outFree, dictFree, queues, cur, output>>

GetOut == /\ At("reader", "get_out")
          /\ outFree > 0
          /\ outFree' = outFree - 1
          /\ Goto("reader", "load")
          /\ UNCHANGED <<call, offset, data, len, inList, dictFree, jobs,
                         queues, cur, output>>

Least(m, n) == IF m < n THEN m ELSE n

(* load_job: one read(), which at the end of the input returns 0           *)
Load == /\ At("reader", "load")
        /\ \E k \in 0 .. Least(BlockSize, call.len - offset) :
             /\ k = 0 => offset = call.len
             /\ call.piped \/ k = Least(BlockSize, call.len - offset)
             /\ LET s == Job(Last).in
                IN  /\ len' = [len EXCEPT ![s] = k]
                    /\ data' = IF k = 0 THEN data
                               ELSE [data EXCEPT ![s] = [from |-> offset, len |-> k]]
             /\ offset' = offset + k
             /\ Goto("reader", IF k = 0 THEN "eof"
                               ELSE IF Last = 0 THEN "get_in"
                               ELSE IF call.independent THEN "add" ELSE "dict")
        /\ UNCHANGED <<call, inList, outFree, dictFree, jobs, queues, cur, output>>

(* set_dictionary copies the end of the block before, which the reader     *)
(* still owns, and asserts that this block is long enough                   *)
SetDictionary ==
    /\ At("reader", "dict")
    /\ dictFree > 0
    /\ dictFree' = dictFree - 1
    /\ LET s == Job(Last - 1).in
       IN  IF len[s] < Dict
           THEN Goto("reader", "aborted") /\ UNCHANGED jobs
           ELSE /\ Goto("reader", "add")
                /\ Update(Last, "dict", [from |-> data[s].from + len[s] - Dict,
                                         len  |-> Dict])
    /\ UNCHANGED <<call, offset, data, len, inList, outFree, queues, cur, output>>

SetDictionaryStart ==     \* mutant: the dictionary is the start of the block
    /\ At("reader", "dict")
    /\ dictFree > 0
    /\ dictFree' = dictFree - 1
    /\ Goto("reader", "add")
    /\ Update(Last, "dict", [from |-> data[Job(Last - 1).in].from, len |-> Dict])
    /\ UNCHANGED <<call, offset, data, len, inList, outFree, queues, cur, output>>

AddJob == /\ At("reader", "add")
          /\ jobQueue' = Append(jobQueue, Last - 1)
          /\ Goto("reader", "get_in")
          /\ UNCHANGED <<call, offset, pools, jobs, jobsClosed, writeQueue,
                         cur, output>>

EndOfInputKeep ==         \* mutant: the output space is not given back
              /\ At("reader", "eof")
              /\ IF Last = 0 THEN UNCHANGED <<jobQueue, jobs>>
                 ELSE /\ Update(Last - 1, "more", FALSE)
                      /\ jobQueue' = Append(jobQueue, Last - 1)
              /\ Goto("reader", "close")
              /\ UNCHANGED <<call, offset, pools, jobsClosed, writeQueue,
                             cur, output>>

EndOfInputUnmarked ==     \* mutant: set_last_job comes after add_job_end and is lost
              /\ At("reader", "eof")
              /\ jobQueue' = IF Last = 0 THEN jobQueue ELSE Append(jobQueue, Last - 1)
              /\ outFree' = outFree + 1
              /\ Goto("reader", "close")
              /\ UNCHANGED <<call, offset, data, len, inList, dictFree, jobs,
                             jobsClosed, writeQueue, cur, output>>

(* The end: the job before is the last one.  free_job(job) gives back the  *)
(* output space of the job that was made for nothing, not its input space.  *)
EndOfInput == /\ At("reader", "eof")
              /\ IF Last = 0 THEN UNCHANGED <<jobQueue, jobs>>
                 ELSE /\ Update(Last - 1, "more", FALSE)
                      /\ jobQueue' = Append(jobQueue, Last - 1)
              /\ outFree' = outFree + 1
              /\ Goto("reader", "close")
              /\ UNCHANGED <<call, offset, data, len, inList, dictFree,
                             jobsClosed, writeQueue, cur, output>>

CloseJobs == /\ At("reader", "close")
             /\ jobsClosed' = TRUE
             /\ Goto("reader", "join")
             /\ UNCHANGED <<call, offset, pools, jobs, jobQueue, writeQueue,
                            cur, output>>

(* pthread_join of all the threads; then the pools are destroyed           *)
Join == /\ At("reader", "join")
        /\ \A t \in Thread \ {"reader"} : pc[t] = "done"
        /\ Goto("reader", "done")
        /\ UNCHANGED <<call, offset, pools, jobs, queues, cur, output>>

-----------------------------------------------------------------------------
(* compress_thread                                                         *)

GetJob(c) == /\ At(c, "get_job")
             /\ jobQueue # <<>>
             /\ cur' = [cur EXCEPT ![c] = Head(jobQueue)]
             /\ jobQueue' = Tail(jobQueue)
             /\ Goto(c, "deflate")
             /\ UNCHANGED <<call, offset, pools, jobs, jobsClosed, writeQueue,
                            output>>

NoMoreJobs(c) == /\ At(c, "get_job")
                 /\ jobQueue = <<>> /\ jobsClosed
                 /\ Goto(c, "done")
                 /\ UNCHANGED <<call, offset, pools, jobs, queues, cur, output>>

(* What is in the input space of job j, as far as its len says             *)
Content(j) == [from |-> data[Job(j).in].from, len |-> len[Job(j).in]]

(* mutant: the input space is given back before the check value is computed *)
DeflateAndDrop(c) ==
             /\ At(c, "deflate")
             /\ \E fits \in Fits :
                  Update(cur[c], "out", <<[data  |-> Content(cur[c]),
                                           dict  |-> Job(cur[c]).dict,
                                           final |-> ~Job(cur[c]).more,
                                           whole |-> fits]>>)
             /\ inList' = <<Job(cur[c]).in>> \o inList
             /\ len' = [len EXCEPT ![Job(cur[c]).in] = 0]
             /\ Goto(c, "check")
             /\ UNCHANGED <<call, offset, data, outFree, dictFree, queues,
                            cur, output>>

(* deflateSetDictionary and deflate_engine: one call of deflate() into the *)
(* output space; what does not fit is never asked for                       *)
Deflate(c) == /\ At(c, "deflate")
              /\ \E fits \in Fits :
                   Update(cur[c], "out", <<[data  |-> Content(cur[c]),
                                            dict  |-> Job(cur[c]).dict,
                                            final |-> ~Job(cur[c]).more,
                                            whole |-> fits]>>)
              /\ Goto(c, "check")
              /\ UNCHANGED <<call, offset, pools, queues, cur, output>>

Check(c) == /\ At(c, "check")
            /\ Update(cur[c], "check", Content(cur[c]))
            /\ Goto(c, "drop_dict")
            /\ UNCHANGED <<call, offset, pools, queues, cur, output>>

DropDictForgotten(c) ==   \* mutant: the dictionary is not given back
               /\ At(c, "drop_dict")
               /\ Goto(c, "drop_in")
               /\ UNCHANGED <<call, offset, pools, jobs, queues, cur, output>>

(* finished_processing: dictionary first, then the input space             *)
DropDict(c) == /\ At(c, "drop_dict")
               /\ dictFree' = IF Job(cur[c]).dict = NoData THEN dictFree
                              ELSE dictFree + 1
               /\ Goto(c, "drop_in")
               /\ UNCHANGED <<call, offset, data, len, inList, outFree, jobs,
                              queues, cur, output>>

DropInForgotten(c) ==     \* mutant: the input space is not given back
             /\ At(c, "drop_in")
             /\ Goto(c, "add")
             /\ UNCHANGED <<call, offset, pools, jobs, queues, cur, output>>

DropIn(c) == /\ At(c, "drop_in")
             /\ inList' = <<Job(cur[c]).in>> \o inList
             /\ len' = [len EXCEPT ![Job(cur[c]).in] = 0]
             /\ Goto(c, "add")
             /\ UNCHANGED <<call, offset, data, outFree, dictFree, jobs,
                            queues, cur, output>>

AddResult(c) == /\ At(c, "add")
                /\ writeQueue' = writeQueue \cup {cur[c]}
                /\ cur' = [cur EXCEPT ![c] = NoJob]
                /\ Goto(c, "get_job")
                /\ UNCHANGED <<call, offset, pools, jobs, jobQueue, jobsClosed,
                               output>>

-----------------------------------------------------------------------------
(* write_thread.  The header is written before the loop.                   *)

FetchAny ==               \* mutant: the writer takes the jobs as they come
            /\ At("writer", "get_job")
            /\ \E j \in writeQueue : writeQueue' = writeQueue \ {j} /\ seq' = j
            /\ Goto("writer", "ulen")
            /\ UNCHANGED <<call, offset, pools, jobs, jobQueue, jobsClosed,
                           cur, ulen, crcOk, file, trailer>>

FetchJob == /\ At("writer", "get_job")
            /\ seq \in writeQueue
            /\ writeQueue' = writeQueue \ {seq}
            /\ Goto("writer", "ulen")
            /\ UNCHANGED <<call, offset, pools, jobs, jobQueue, jobsClosed,
                           cur, output>>

(* get_job_seq returns NULL: the write queue is closed and has no job seq  *)
FetchNull == /\ At("writer", "get_job")
             /\ seq \notin writeQueue
             /\ \A c \in Worker : pc[c] = "done"
             /\ Goto("writer", "trailer")
             /\ UNCHANGED <<call, offset, pools, jobs, queues, cur, output>>

(* ulen += job->in->len, of a space that is back in the pool               *)
AddLength == /\ At("writer", "ulen")
             /\ ulen' = ulen + len[Job(seq).in]
             /\ Goto("writer", "write")
             /\ UNCHANGED <<call, offset, pools, jobs, queues, cur, seq,
                            crcOk, file, trailer>>

WriteOut == /\ At("writer", "write")
            /\ file' = file \o Job(seq).out
            /\ Goto("writer", "combine")
            /\ UNCHANGED <<call, offset, pools, jobs, queues, cur, seq,
                           ulen, crcOk, trailer>>

(* crc32_combine(final_check, job->check, job->in->len) is the check value *)
(* of both data if the length given is the length of the second            *)
Combine == /\ At("writer", "combine")
           /\ crcOk' = (crcOk /\ len[Job(seq).in] = Job(seq).check.len)
           /\ Goto("writer", "free")
           /\ UNCHANGED <<call, offset, pools, jobs, queues, cur, seq,
                          ulen, file, trailer>>

FreeJobTwice ==           \* mutant: the output space is given back twice
           /\ At("writer", "free")
           /\ outFree' = outFree + 2
           /\ seq' = seq + 1
           /\ Goto("writer", IF Job(seq).more THEN "get_job" ELSE "trailer")
           /\ UNCHANGED <<call, offset, data, len, inList, dictFree, jobs,
                          queues, cur, ulen, crcOk, file, trailer>>

FreeJobKeep ==            \* mutant: the output space is not given back
           /\ At("writer", "free")
           /\ seq' = seq + 1
           /\ Goto("writer", IF Job(seq).more THEN "get_job" ELSE "trailer")
           /\ UNCHANGED <<call, offset, pools, jobs, queues, cur, ulen,
                          crcOk, file, trailer>>

FreeJob == /\ At("writer", "free")
           /\ outFree' = outFree + 1
           /\ seq' = seq + 1
           /\ Goto("writer", IF Job(seq).more THEN "get_job" ELSE "trailer")
           /\ UNCHANGED <<call, offset, data, len, inList, dictFree, jobs,
                          queues, cur, ulen, crcOk, file, trailer>>

PutTrailer == /\ At("writer", "trailer")
              /\ trailer' = <<[ulen |-> ulen, crcOk |-> crcOk]>>
              /\ Goto("writer", "done")
              /\ UNCHANGED <<call, offset, pools, jobs, queues, cur, seq,
                             ulen, crcOk, file>>

-----------------------------------------------------------------------------
ReaderStep == \/ GetIn \/ GetOut \/ Load \/ SetDictionary \/ AddJob
              \/ EndOfInput \/ CloseJobs \/ Join

WorkerStep(c) == \/ GetJob(c) \/ NoMoreJobs(c) \/ Deflate(c) \/ Check(c)
                 \/ DropDict(c) \/ DropIn(c) \/ AddResult(c)

WriterStep == \/ FetchJob \/ FetchNull \/ AddLength \/ WriteOut \/ Combine
              \/ FreeJob \/ PutTrailer

Returned == /\ pc["reader"] \in {"done", "aborted"}
            /\ UNCHANGED vars

Next == \/ ReaderStep
        \/ \E c \in Worker : WorkerStep(c)
        \/ WriterStep
        \/ Returned

(* Every thread runs until it waits for a space or a job                   *)
Fairness == /\ WF_vars(ReaderStep)
            /\ \A c \in Worker : WF_vars(WorkerStep(c))
            /\ WF_vars(WriterStep)

Spec == Init /\ [][Next]_vars
FairSpec == Spec /\ Fairness

-----------------------------------------------------------------------------
Interval == [from : Int, len : Nat]

(* What the variables hold: no space is given back twice to a pool.        *)
TypeOK == /\ call \in Calls /\ offset \in 0 .. call.len
          /\ data \in [Space -> Interval] /\ len \in [Space -> 0 .. BlockSize]
          /\ inList \in Seq(Space)
          /\ outFree \in 0 .. Limit /\ dictFree \in 0 .. Limit
          /\ \A j \in 0 .. Last : /\ Job(j).in \in Space /\ Job(j).more \in BOOLEAN
                                  /\ Job(j).dict \in Interval /\ Job(j).check \in Interval
          /\ jobQueue \in Seq(0 .. Last) /\ jobsClosed \in BOOLEAN
          /\ writeQueue \subseteq 0 .. Last
          /\ cur \in [Worker -> 0 .. Last \cup {NoJob}]
          /\ seq \in Nat /\ ulen \in Nat /\ crcOk \in BOOLEAN
          /\ DOMAIN pc = Thread

(* The jobs whose input space is in use: those the reader has not queued,  *)
(* those in the queue, and those a compress thread has not given back yet. *)
WithReader == CASE pc["reader"] \in {"get_out", "load", "dict", "add", "eof"} ->
                       {Last, Last - 1} \cap Nat
                [] pc["reader"] = "get_in" -> {Last} \cap Nat
                [] OTHER -> {}
InUse == WithReader \cup {jobQueue[i] : i \in DOMAIN jobQueue}
         \cup {cur[c] : c \in {w \in Worker :
                  pc[w] \in {"deflate", "check", "drop_dict", "drop_in"}}}

(* The input of a block is neither given away nor overwritten while it is   *)
(* read, waits, is copied from as a dictionary, is compressed or checked:   *)
(* two jobs never share an input space and none of them is free.            *)
InputStable ==
    /\ \A j, k \in InUse : j # k => Job(j).in # Job(k).in
    /\ \A j \in InUse : \A i \in DOMAIN inList : inList[i] # Job(j).in
    /\ \A c \in Worker : pc[c] \in {"check", "drop_dict"} =>
          Content(cur[c]) = Job(cur[c]).out[1].data

(* The reader never waits for a dictionary: dictionaries are given back     *)
(* before input spaces, and there are as many of them.  So the reader, who  *)
(* holds the block before in its hands, cannot deadlock in set_dictionary.  *)
DictNeverBlocks == pc["reader"] = "dict" => dictFree > 0

(* When all threads have returned, every output and every dictionary space  *)
(* is back, and every input space but the one of the job that met the end   *)
(* of the input.                                                            *)
PoolsRefilled == pc["reader"] = "done" => /\ outFree = Limit
                                          /\ dictFree = Limit
                                          /\ Len(inList) = Limit - 1

(* The output is the one of a sequential compressor.                        *)
Sequential == INSTANCE SequentialDeflate WITH finished <- trailer # <<>>
SequentialSpec == Sequential!Spec

(* Every input is compressed to the end: the threads do not wait for each   *)
(* other's spaces for ever.                                                 *)
Terminates == <>(pc["reader"] = "done")

-----------------------------------------------------------------------------
(* Statements of the documentation, the comments and the assertions that    *)
(* this code does not satisfy.                                              *)

(* The trailer holds the length and the check value of the input            *)
(* (gzip.1:226, "uncompressed size: size of the uncompressed file").        *)
TrailerMatchesInput ==
    trailer # <<>> => trailer[1].ulen = call.len /\ trailer[1].crcOk

(* assert(prev_job->in->len >= DICT) in set_dictionary (parallel.c:290).    *)
DictionaryAssertion == ~Aborted

(* A block that was written is complete: the decompressed file is the input *)
(* (README:31, "decompressed file integrity test -- Pass").                 *)
BlocksAreWhole == \A i \in DOMAIN file : file[i].whole
=============================================================================
