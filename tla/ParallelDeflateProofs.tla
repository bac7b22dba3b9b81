----------------------- MODULE ParallelDeflateProofs ------------------------
(***************************************************************************)
(* Proofs about deflate_file_parallel, for any number of compress threads,  *)
(* any block and dictionary size, and any input.                            *)
(*                                                                         *)
(* The inductive invariant IInv says where every job is (with the reader,   *)
(* in one of the two queues, with one compress thread, with the writer or   *)
(* written), that the intervals of input in the jobs join without a gap,    *)
(* and what the compressed block of a job holds.  CountInv, on top of it,   *)
(* counts the spaces of the three pools.  What follows: no input space is   *)
(* given away or overwritten while it is in use, the file is the one of a   *)
(* sequential compressor, the reader never waits for a dictionary, and all  *)
(* spaces but one come back.                                                *)
(***************************************************************************)
EXTENDS ParallelDeflate, FiniteSetTheorems, SequenceTheorems, TLAPS

Block == [data : Interval, dict : Interval, final : BOOLEAN, whole : BOOLEAN]

JobRecord == [in : Space, more : BOOLEAN, dict : Interval, check : Interval,
              out : Seq(Block)]

Distinct(q) == \A i, j \in DOMAIN q : q[i] = q[j] => i = j
Elements(q) == {q[i] : i \in DOMAIN q}

-----------------------------------------------------------------------------
(* The inductive invariant                                                 *)

ReaderAt == {"get_in", "get_out", "load", "dict", "add", "eof", "close",
             "join", "done", "aborted"}
WorkerAt == {"get_job", "deflate", "check", "drop_dict", "drop_in", "add", "done"}
WriterAt == {"get_job", "ulen", "write", "combine", "free", "trailer", "done"}

PcInv == /\ DOMAIN pc = Thread
         /\ pc["reader"] \in ReaderAt
         /\ pc["writer"] \in WriterAt
         /\ \A c \in Worker : pc[c] \in WorkerAt

TypeInv == /\ call \in Calls /\ offset \in 0 .. call.len
           /\ data \in [Space -> Interval] /\ len \in [Space -> 0 .. BlockSize]
           /\ inList \in Seq(Space)
           /\ jobs \in Seq(JobRecord)
           /\ jobQueue \in Seq(Int) /\ jobsClosed \in BOOLEAN
           /\ writeQueue \subseteq Int
           /\ cur \in [Worker -> Int]
           /\ seq \in Nat
           /\ file \in Seq(Block)
           /\ PcInv

(* The jobs the reader has queued, those it has filled with input, those    *)
(* the writer has taken, and the threads that have a job in hand.           *)
Queued == 0 .. (IF pc["reader"] \in {"get_in", "close", "join", "done"}
                THEN Last - 1 ELSE Last - 2)
Loaded == 0 .. (IF pc["reader"] \in {"get_in", "dict", "add", "aborted"}
                THEN Last ELSE Last - 1)
Taken == 0 .. (IF pc["writer"] \in {"ulen", "write", "combine", "free"}
               THEN seq ELSE seq - 1)
Working == {c \in Worker : pc[c] \in {"deflate", "check", "drop_dict",
                                      "drop_in", "add"}}
Ended == pc["reader"] \in {"close", "join", "done"}

(* The reader has as many jobs as its place needs, and stops at the end.    *)
ReaderInv ==
    /\ pc["reader"] # "get_in" => Last >= 0
    /\ pc["reader"] \in {"dict", "add", "aborted"} => Last >= 1
    /\ pc["reader"] = "dict" => ~call.independent
    /\ pc["reader"] = "eof" \/ Ended => offset = call.len
    /\ jobsClosed => pc["reader"] \in {"join", "done"}
    /\ Last >= -1

(* Every job that was queued is in exactly one place.                       *)
PlaceInv ==
    /\ Distinct(jobQueue)
    /\ Elements(jobQueue) \cup writeQueue \cup Taken \subseteq Queued
    /\ \A c \in Working : cur[c] \in Queued
    /\ Elements(jobQueue) \cap (writeQueue \cup Taken) = {}
    /\ writeQueue \cap Taken = {}
    /\ \A c \in Working : cur[c] \notin Elements(jobQueue) \cup writeQueue \cup Taken
    /\ \A c, d \in Working : cur[c] = cur[d] => c = d
    /\ \A j \in Queued : \/ j \in Elements(jobQueue) \cup writeQueue \cup Taken
                         \/ \E c \in Working : cur[c] = j

(* Compress threads return when the queue is closed and empty, the writer   *)
(* stops after the last job.                                                *)
EndInv ==
    /\ \A c \in Worker : pc[c] = "done" /\ c \in call.threads
                         => jobsClosed /\ jobQueue = <<>>
    /\ pc["writer"] \in {"trailer", "done"} => Ended /\ seq = Last
    /\ trailer # <<>> <=> pc["writer"] = "done"

(* Input spaces in use are distinct, and none of them is free.              *)
SpaceInv ==
    /\ Distinct(inList)
    /\ \A j, k \in InUse : j # k => Job(j).in # Job(k).in
    /\ \A j \in InUse : Job(j).in \notin Elements(inList)

(* A compressed block is the one of the job's data and dictionary           *)
CompressedInv ==
    /\ \A j \in 0 .. Last :
          \/ Job(j).out = <<>>
          \/ /\ Len(Job(j).out) = 1
             /\ Job(j).out[1].dict = Job(j).dict
             /\ Job(j).out[1].final = ~Job(j).more
             /\ Job(j).out[1].whole \in Fits
             /\ j \in Queued
    /\ \A j \in writeQueue \cup Taken : Job(j).out # <<>>
    /\ \A c \in Working : pc[c] # "deflate" => Job(cur[c]).out # <<>>
    /\ \A c \in Working : pc[c] = "deflate" => Job(cur[c]).out = <<>>
    /\ \A j \in Elements(jobQueue) : Job(j).out = <<>>
    /\ \A c \in Working : pc[c] \in {"check", "drop_dict"}
                          => Content(cur[c]) = Job(cur[c]).out[1].data

(* The input of a job, also after its space was given back                 *)
Input(j) == IF Job(j).out = <<>> THEN Content(j) ELSE Job(j).out[1].data
End(j) == Input(j).from + Input(j).len

(* The inputs of the jobs join without a gap; the dictionary of a job is    *)
(* the input before it; "more" tells whether there is a job after it.       *)
JoinInv ==
    /\ Loaded = {} => offset = 0
    /\ \A j \in Loaded :
          /\ Input(j).len \in 1 .. BlockSize
          /\ End(j) <= offset
          /\ End(j) = offset <=> j + 1 \notin Loaded
          /\ IF j = 0 THEN Input(j).from = 0
                      ELSE Input(j).from = End(j - 1) /\ Input(j).from > 0
    /\ \A j \in 0 .. Last :
          j \notin Loaded \/ (j = Last /\ pc["reader"] = "dict")
             => Job(j).dict = NoData
    /\ \A j \in Loaded :
          \/ j = Last /\ pc["reader"] \in {"dict", "aborted"}
          \/ Job(j).dict = IF call.independent \/ j = 0 THEN NoData
                           ELSE [from |-> Input(j).from - Dict, len |-> Dict]
    /\ \A j \in 0 .. Last : Job(j).more = ~(Ended /\ j = Last - 1)

(* The file holds the blocks of the jobs written so far.                    *)
BlocksWritten == IF pc["writer"] \in {"combine", "free"} THEN seq + 1 ELSE seq

FileInv == /\ Len(file) = BlocksWritten
           /\ file # <<>> => file[Len(file)].data = Input(Len(file) - 1)

IInv == /\ TypeInv
        /\ ReaderInv
        /\ PlaceInv
        /\ EndInv
        /\ SpaceInv
        /\ CompressedInv
        /\ JoinInv
        /\ FileInv
-----------------------------------------------------------------------------
(* Lists                                                                   *)

LEMMA TailOfList ==
    ASSUME NEW S, NEW q \in Seq(S), q # <<>>
    PROVE  /\ Tail(q) \in Seq(S)
           /\ Head(q) \in S
           /\ Head(q) \in Elements(q)
           /\ Elements(Tail(q)) \subseteq Elements(q)
           /\ Elements(q) = Elements(Tail(q)) \cup {Head(q)}
           /\ Distinct(q) => Distinct(Tail(q)) /\ Head(q) \notin Elements(Tail(q))
<1> DEFINE r == Tail(q)
<1>1. Len(q) \in Nat \ {0} /\ DOMAIN q = 1 .. Len(q)
  BY LenProperties, EmptySeq
<1>2. r \in Seq(S) /\ Len(r) = Len(q) - 1 /\ Head(q) \in S
      /\ \A i \in 1 .. Len(r) : r[i] = q[i + 1]
  BY HeadTailProperties
<1>3. DOMAIN r = 1 .. Len(q) - 1
  BY <1>2, LenProperties
<1>4. Head(q) = q[1]
  BY <1>1
<1>5. \A i \in DOMAIN r : i + 1 \in DOMAIN q /\ i + 1 # 1 /\ r[i] = q[i + 1]
  BY <1>1, <1>2, <1>3
<1>6. \A i \in DOMAIN q : i = 1 \/ (i - 1 \in DOMAIN r /\ r[i - 1] = q[i])
  BY <1>1, <1>2, <1>3
<1>7. 1 \in DOMAIN q
  BY <1>1
<1>8. Elements(q) = Elements(r) \cup {Head(q)}
  <2>1. Elements(q) \subseteq Elements(r) \cup {Head(q)}
    BY <1>4, <1>6 DEF Elements
  <2>2. Elements(r) \cup {Head(q)} \subseteq Elements(q)
    BY <1>4, <1>5, <1>7 DEF Elements
  <2> QED
    BY <2>1, <2>2
<1>9. Distinct(q) => Distinct(r)
  BY <1>1, <1>3, <1>5 DEF Distinct
<1>10. Distinct(q) => Head(q) \notin Elements(r)
  BY <1>4, <1>5, <1>7 DEF Distinct, Elements
<1> QED
  BY <1>2, <1>8, <1>9, <1>10

LEMMA ConsOfList ==
    ASSUME NEW S, NEW q \in Seq(S), NEW s \in S
    PROVE  /\ <<s>> \o q \in Seq(S)
           /\ Elements(<<s>> \o q) = Elements(q) \cup {s}
           /\ Distinct(q) /\ s \notin Elements(q) => Distinct(<<s>> \o q)
<1> DEFINE r == <<s>> \o q
<1>1. Len(q) \in Nat /\ DOMAIN q = 1 .. Len(q)
  BY LenProperties
<1>2. <<s>> \in Seq(S) /\ Len(<<s>>) = 1 /\ <<s>>[1] = s
  OBVIOUS
<1>3. r \in Seq(S) /\ Len(r) = 1 + Len(q)
      /\ \A i \in 1 .. 1 + Len(q) : r[i] = IF i <= 1 THEN <<s>>[i] ELSE q[i - 1]
  BY <1>2, ConcatProperties
<1>4. DOMAIN r = 1 .. 1 + Len(q)
  BY <1>3, LenProperties
<1>5. r[1] = s /\ 1 \in DOMAIN r
  BY <1>1, <1>2, <1>3, <1>4
<1>6. \A i \in DOMAIN r : i = 1 \/ (i - 1 \in DOMAIN q /\ r[i] = q[i - 1])
  BY <1>1, <1>3, <1>4
<1>7. \A i \in DOMAIN q : i + 1 \in DOMAIN r /\ r[i + 1] = q[i]
  BY <1>1, <1>3, <1>4
<1>8. Elements(r) = Elements(q) \cup {s}
  <2>1. Elements(r) \subseteq Elements(q) \cup {s}
    BY <1>5, <1>6 DEF Elements
  <2>2. s \in Elements(r)
    BY <1>5 DEF Elements
  <2>3. Elements(q) \subseteq Elements(r)
    BY <1>7 DEF Elements
  <2> QED
    BY <2>1, <2>2, <2>3
<1>9. ASSUME Distinct(q), s \notin Elements(q)
      PROVE  Distinct(r)
  <2> SUFFICES ASSUME NEW i \in DOMAIN r, NEW j \in DOMAIN r, r[i] = r[j]
               PROVE  i = j
    BY DEF Distinct
  <2>1. \A k \in DOMAIN q : q[k] # s
    BY <1>9 DEF Elements
  <2>2. CASE i = 1 \/ j = 1
    BY <2>1, <2>2, <1>5, <1>6
  <2>3. CASE i # 1 /\ j # 1
    <3>1. i - 1 = j - 1
      BY <2>3, <1>6, <1>9 DEF Distinct
    <3> QED
      BY <3>1, <1>1, <1>4
  <2> QED
    BY <2>2, <2>3
<1> QED
  BY <1>3, <1>8, <1>9

LEMMA AppendToList ==
    ASSUME NEW S, NEW q \in Seq(S), NEW s \in S
    PROVE  /\ Append(q, s) \in Seq(S)
           /\ Append(q, s) # <<>>
           /\ Len(Append(q, s)) = Len(q) + 1
           /\ Len(q) \in Nat
           /\ Append(q, s)[Len(q) + 1] = s
           /\ \A i \in 1 .. Len(q) : Append(q, s)[i] = q[i]
           /\ Elements(Append(q, s)) = Elements(q) \cup {s}
           /\ Distinct(q) /\ s \notin Elements(q) => Distinct(Append(q, s))
<1> DEFINE r == Append(q, s)
<1>1. Len(q) \in Nat /\ DOMAIN q = 1 .. Len(q)
  BY LenProperties
<1>2. r \in Seq(S) /\ Len(r) = Len(q) + 1 /\ r[Len(q) + 1] = s
      /\ \A i \in 1 .. Len(q) : r[i] = q[i]
  BY AppendProperties
<1>3. DOMAIN r = 1 .. Len(q) + 1
  BY <1>2, LenProperties
<1>4. Len(q) + 1 \in DOMAIN r
  BY <1>1, <1>3
<1>5. \A i \in DOMAIN r : i = Len(q) + 1 \/ (i \in DOMAIN q /\ r[i] = q[i])
  BY <1>1, <1>2, <1>3
<1>6. \A i \in DOMAIN q : i \in DOMAIN r /\ r[i] = q[i]
  BY <1>1, <1>2, <1>3
<1>7. Elements(r) = Elements(q) \cup {s}
  BY <1>2, <1>4, <1>5, <1>6 DEF Elements
<1>8. ASSUME Distinct(q), s \notin Elements(q)
      PROVE  Distinct(r)
  <2>1. \A k \in DOMAIN q : q[k] # s
    BY <1>8 DEF Elements
  <2> QED
    BY <2>1, <1>2, <1>5, <1>8 DEF Distinct
<1>9. r # <<>>
  BY <1>1, <1>2, EmptySeq
<1> QED
  BY <1>1, <1>2, <1>7, <1>8, <1>9

-----------------------------------------------------------------------------
(* What the operators of the model do with the jobs                        *)

LEMMA Numbers ==
    ASSUME TypeInv
    PROVE  /\ Len(jobs) \in Nat /\ Last \in Int /\ Last >= -1
           /\ \A j \in 0 .. Last : Job(j) \in JobRecord
           /\ BlockSize \in Nat \ {0} /\ Dict \in 1 .. BlockSize
           /\ call \in CallRecords
           /\ Limit \in Nat
<1>1. Len(jobs) \in Nat /\ \A i \in 1 .. Len(jobs) : jobs[i] \in JobRecord
  BY LenProperties, ElementOfSeq DEF TypeInv
<1>2. \A j \in 0 .. Last : j + 1 \in 1 .. Len(jobs)
  BY <1>1 DEF Last
<1>3. call \in CallRecords
  BY DeflateAssumption DEF TypeInv
<1>4. Limit \in Nat
  <2>1. call.threads \subseteq Worker
    BY <1>3 DEF CallRecords
  <2>2. IsFiniteSet(call.threads)
    BY <2>1, DeflateAssumption, FS_Subset
  <2> QED
    BY <2>2, FS_CardinalityType DEF Limit
<1> QED
  BY <1>1, <1>2, <1>3, <1>4, DeflateAssumption DEF Last, Job

(* A new job                                                               *)
LEMMA NewJob ==
    ASSUME TypeInv, NEW r \in JobRecord, jobs' = Append(jobs, r)
    PROVE  /\ jobs' \in Seq(JobRecord)
           /\ Last' = Last + 1
           /\ \A j : j = Last + 1 => Job(j)' = r
           /\ \A j \in 0 .. Last : Job(j)' = Job(j)
<1>1. jobs \in Seq(JobRecord)
  BY DEF TypeInv
<1>2. /\ jobs' \in Seq(JobRecord) /\ Len(jobs') = Len(jobs) + 1
      /\ Len(jobs) \in Nat
      /\ jobs'[Len(jobs) + 1] = r
      /\ \A i \in 1 .. Len(jobs) : jobs'[i] = jobs[i]
  BY <1>1, AppendToList
<1>3. \A j \in 0 .. Last : j + 1 \in 1 .. Len(jobs)
  BY <1>2 DEF Last
<1> QED
  BY <1>2, <1>3 DEF Last, Job

(* One field of one job                                                    *)
LEMMA ChangedJob ==
    ASSUME TypeInv, NEW j \in 0 .. Last, NEW r \in JobRecord,
           jobs' = [jobs EXCEPT ![j + 1] = r]
    PROVE  /\ jobs' \in Seq(JobRecord)
           /\ Last' = Last
           /\ Job(j)' = r
           /\ \A k \in 0 .. Last : k # j => Job(k)' = Job(k)
<1>1. jobs \in Seq(JobRecord)
  BY DEF TypeInv
<1>2. Len(jobs) \in Nat /\ j + 1 \in 1 .. Len(jobs) /\ DOMAIN jobs = 1 .. Len(jobs)
  BY <1>1, LenProperties DEF Last
<1>3. jobs' \in Seq(JobRecord) /\ Len(jobs') = Len(jobs)
  BY <1>1, <1>2, ExceptSeq
<1>4. \A k \in 0 .. Last : k + 1 \in DOMAIN jobs
  BY <1>2 DEF Last
<1> QED
  BY <1>2, <1>3, <1>4 DEF Last, Job

LEMMA Updated ==
    ASSUME TypeInv, NEW j \in 0 .. Last
    PROVE  /\ \A v \in BOOLEAN : Update(j, "more", v) =>
                 jobs' = [jobs EXCEPT ![j + 1] = [Job(j) EXCEPT !.more = v]]
           /\ \A v \in Interval : Update(j, "dict", v) =>
                 jobs' = [jobs EXCEPT ![j + 1] = [Job(j) EXCEPT !.dict = v]]
           /\ \A v \in Interval : Update(j, "check", v) =>
                 jobs' = [jobs EXCEPT ![j + 1] = [Job(j) EXCEPT !.check = v]]
           /\ \A v \in Seq(Block) : Update(j, "out", v) =>
                 jobs' = [jobs EXCEPT ![j + 1] = [Job(j) EXCEPT !.out = v]]
<1>1. j + 1 \in DOMAIN jobs
  BY LenProperties, Numbers DEF Last, TypeInv
<1> QED
  BY <1>1 DEF Update, Job

LEMMA SameSpaces ==
    ASSUME call' = call
    PROVE  /\ Limit' = Limit
           /\ Space' = Space
           /\ JobRecord' = JobRecord
  BY DEF Limit, Space, JobRecord

-----------------------------------------------------------------------------
(* What the variables hold                                                 *)

LEMMA InHand ==
    ASSUME TypeInv, ReaderInv, PlaceInv
    PROVE  /\ \A c \in Worker : pc[c] \in {"deflate", "check", "drop_dict",
                                          "drop_in", "add"} => cur[c] \in 0 .. Last
           /\ pc["writer"] \in {"ulen", "write", "combine", "free"} => seq \in 0 .. Last
           /\ Queued \subseteq 0 .. Last
<1>1. Queued \subseteq 0 .. Last
  BY Numbers DEF Queued
<1>2. pc["writer"] \in {"ulen", "write", "combine", "free"} => seq \in Taken
  BY DEF Taken, TypeInv
<1> QED
  BY <1>1, <1>2 DEF PlaceInv, Working

LEMMA ContentType ==
    ASSUME TypeInv, NEW j \in 0 .. Last
    PROVE  Content(j) \in Interval /\ Job(j).in \in Space
<1>1. Job(j).in \in Space
  BY Numbers DEF JobRecord
<1>2. data[Job(j).in] \in Interval /\ len[Job(j).in] \in 0 .. BlockSize
  BY <1>1 DEF TypeInv
<1>3. BlockSize \in Nat
  BY Numbers
<1> QED
  BY <1>1, <1>2, <1>3 DEF Content, Interval

LEMMA Moved ==
    ASSUME PcInv
    PROVE  /\ \A to \in ReaderAt : Goto("reader", to) =>
                /\ PcInv'
                /\ pc'["reader"] = to
                /\ pc'["writer"] = pc["writer"]
                /\ \A c \in Worker : pc'[c] = pc[c]
           /\ \A to \in WriterAt : Goto("writer", to) =>
                /\ PcInv'
                /\ pc'["writer"] = to
                /\ pc'["reader"] = pc["reader"]
                /\ \A c \in Worker : pc'[c] = pc[c]
           /\ \A c \in Worker : \A to \in WorkerAt : Goto(c, to) =>
                /\ PcInv'
                /\ pc'[c] = to
                /\ pc'["reader"] = pc["reader"]
                /\ pc'["writer"] = pc["writer"]
                /\ \A d \in Worker : d # c => pc'[d] = pc[d]
<1>1. "reader" \in Thread /\ "writer" \in Thread /\ Worker \subseteq Thread
      /\ "reader" \notin Worker /\ "writer" \notin Worker
  BY DeflateAssumption DEF Thread
<1>2. ASSUME NEW to \in ReaderAt, Goto("reader", to)
      PROVE  /\ DOMAIN pc' = Thread
             /\ pc'["reader"] = to
             /\ pc'["writer"] = pc["writer"]
             /\ \A c \in Worker : pc'[c] = pc[c]
  BY <1>1, <1>2 DEF Goto, PcInv
<1>3. ASSUME NEW to \in WriterAt, Goto("writer", to)
      PROVE  /\ DOMAIN pc' = Thread
             /\ pc'["writer"] = to
             /\ pc'["reader"] = pc["reader"]
             /\ \A c \in Worker : pc'[c] = pc[c]
  BY <1>1, <1>3 DEF Goto, PcInv
<1>4. ASSUME NEW c \in Worker, NEW to \in WorkerAt, Goto(c, to)
      PROVE  /\ DOMAIN pc' = Thread
             /\ pc'[c] = to
             /\ pc'["reader"] = pc["reader"]
             /\ pc'["writer"] = pc["writer"]
             /\ \A d \in Worker : d # c => pc'[d] = pc[d]
  BY <1>1, <1>4 DEF Goto, PcInv
<1> QED
  BY <1>2, <1>3, <1>4 DEF PcInv

LEMMA TypeInit == Init => TypeInv
<1> SUFFICES ASSUME Init
             PROVE  TypeInv
  OBVIOUS
<1>1. call \in CallRecords /\ BlockSize \in Nat \ {0}
  BY DeflateAssumption DEF Init
<1>2. inList \in Seq(Space)
  <2>1. call.threads \subseteq Worker
    BY <1>1 DEF CallRecords
  <2>2. Limit \in Nat
    BY <2>1, DeflateAssumption, FS_Subset, FS_CardinalityType DEF Limit
  <2> QED
    BY <2>2, IsASeq DEF Init, Space
<1>3. call.len \in Nat /\ NoData \in Interval
  BY <1>1 DEF CallRecords, NoData, Interval
<1>4. PcInv
  BY DeflateAssumption DEF Init, PcInv, Thread, ReaderAt, WriterAt, WorkerAt
<1>5. data \in [Space -> Interval] /\ len \in [Space -> 0 .. BlockSize]
  BY <1>1, <1>3 DEF Init
<1>6. cur \in [Worker -> Int] /\ offset \in 0 .. call.len /\ seq \in Nat
  BY <1>3 DEF Init, NoJob
<1>7. jobs \in Seq(JobRecord) /\ jobQueue \in Seq(Int) /\ file \in Seq(Block)
  BY DEF Init
<1> QED
  BY <1>2, <1>4, <1>5, <1>6, <1>7 DEF Init, TypeInv

LEMMA TypeStep == TypeInv /\ ReaderInv /\ PlaceInv /\ [Next]_vars => TypeInv'
<1> SUFFICES ASSUME TypeInv, ReaderInv, PlaceInv, [Next]_vars
             PROVE  TypeInv'
  OBVIOUS
<1> USE DEF At
<1>a. Worker \cap {"reader", "writer"} = {} /\ BlockSize \in Nat \ {0}
      /\ Dict \in 1 .. BlockSize /\ Fits \subseteq BOOLEAN
  BY DeflateAssumption
<1>b. Len(jobs) \in Nat /\ Last \in Int /\ Last >= -1 /\ call.len \in Nat
  BY Numbers DEF CallRecords
<1>1. CASE GetIn
  <2>1. Tail(inList) \in Seq(Space) /\ Head(inList) \in Space
    BY <1>1, TailOfList DEF TypeInv, GetIn
  <2>2. NoData \in Interval /\ <<>> \in Seq(Block)
    BY DEF NoData, Interval
  <2>3. [in |-> Head(inList), more |-> TRUE, dict |-> NoData, check |-> NoData,
         out |-> <<>>] \in JobRecord
    BY <2>1, <2>2 DEF JobRecord
  <2>4. jobs' \in Seq(JobRecord)
    BY <1>1, <2>3, NewJob DEF GetIn
  <2>5. call' = call
    BY <1>1 DEF GetIn
  <2>6. len' \in [Space -> 0 .. BlockSize]
    BY <1>1, <1>a, <2>1 DEF TypeInv, GetIn
  <2>p. PcInv'
    BY <1>1, Moved DEF TypeInv, GetIn, ReaderAt
  <2> QED
    BY <1>1, <1>a, <2>p, <2>1, <2>4, <2>5, <2>6, SameSpaces DEF TypeInv, GetIn, queues, output
<1>2. CASE GetOut
  <2>1. call' = call
    BY <1>2 DEF GetOut
  <2>p. PcInv'
    BY <1>2, Moved DEF TypeInv, GetOut, ReaderAt
  <2> QED
    BY <1>2, <2>p, <2>1, SameSpaces DEF TypeInv, GetOut, queues, output
<1>3. CASE Load
  <2>1. call' = call
    BY <1>3 DEF Load
  <2>2. Last \in 0 .. Last
    BY <1>3, <1>b DEF ReaderInv, Load
  <2>3. Job(Last).in \in Space
    BY <2>2, ContentType
  <2>4. PICK k \in 0 .. Least(BlockSize, call.len - offset) :
          /\ len' = [len EXCEPT ![Job(Last).in] = k]
          /\ data' = IF k = 0 THEN data
                     ELSE [data EXCEPT ![Job(Last).in] = [from |-> offset, len |-> k]]
          /\ offset' = offset + k
          /\ Goto("reader", IF k = 0 THEN "eof"
                            ELSE IF Last = 0 THEN "get_in"
                            ELSE IF call.independent THEN "add" ELSE "dict")
    BY <1>3 DEF Load
  <2>5. k \in 0 .. BlockSize /\ offset + k \in 0 .. call.len /\ offset \in Int /\ k \in Nat
    BY <1>a, <1>b DEF Least, TypeInv
  <2>6. [from |-> offset, len |-> k] \in Interval
    BY <2>5 DEF Interval
  <2>7. data' \in [Space -> Interval] /\ len' \in [Space -> 0 .. BlockSize]
    BY <2>3, <2>4, <2>5, <2>6 DEF TypeInv
  <2>p. PcInv'
    BY <1>3, <2>4, Moved DEF TypeInv, Load, ReaderAt
  <2> QED
    BY <1>3, <2>p, <1>a, <2>1, <2>4, <2>5, <2>7, SameSpaces DEF TypeInv, Load, queues, output
<1>4. CASE SetDictionary
  <2>1. call' = call
    BY <1>4 DEF SetDictionary
  <2>2. Last \in 0 .. Last /\ Last - 1 \in 0 .. Last
    BY <1>4, <1>b DEF ReaderInv, SetDictionary
  <2>3. jobs' \in Seq(JobRecord)
    <3> DEFINE s == Job(Last - 1).in
               d == [from |-> data[s].from + len[s] - Dict, len |-> Dict]
    <3>1. s \in Space
      BY <2>2, ContentType
    <3>2. data[s].from \in Int /\ len[s] \in Int /\ Dict \in Nat
      BY <3>1, <1>a DEF TypeInv, Interval
    <3>3. d \in Interval
      BY <3>2 DEF Interval
    <3>4. jobs' = jobs \/ Update(Last, "dict", d)
      BY <1>4 DEF SetDictionary
    <3>5. Job(Last) \in JobRecord
      BY <2>2, Numbers
    <3>6. [Job(Last) EXCEPT !.dict = d] \in JobRecord
      BY <3>3, <3>5 DEF JobRecord
    <3>7. CASE Update(Last, "dict", d)
      <4>1. jobs' = [jobs EXCEPT ![Last + 1] = [Job(Last) EXCEPT !.dict = d]]
        BY <3>7, <3>3, <2>2, Updated
      <4> QED
        BY <4>1, <3>6, <2>2, ChangedJob
    <3> QED
      BY <3>4, <3>7 DEF TypeInv
  <2>p. PcInv'
    BY <1>4, Moved DEF TypeInv, SetDictionary, ReaderAt
  <2> QED
    BY <1>4, <2>p, <2>1, <2>3, SameSpaces DEF TypeInv, SetDictionary, queues, output
<1>5. CASE AddJob
  <2>1. call' = call
    BY <1>5 DEF AddJob
  <2>2. jobQueue' \in Seq(Int)
    BY <1>5, <1>b, AppendToList DEF TypeInv, AddJob
  <2>p. PcInv'
    BY <1>5, Moved DEF TypeInv, AddJob, ReaderAt
  <2> QED
    BY <1>5, <2>p, <2>1, <2>2, SameSpaces DEF TypeInv, AddJob, pools, output
<1>6. CASE EndOfInput
  <2>1. call' = call
    BY <1>6 DEF EndOfInput
  <2>2. jobs' \in Seq(JobRecord) /\ jobQueue' \in Seq(Int)
    <3>1. CASE Last = 0
      BY <3>1, <1>6 DEF EndOfInput, TypeInv
    <3>2. CASE Last # 0
      <4>1. Last - 1 \in 0 .. Last /\ Last - 1 \in Int
        BY <3>2, <1>6, <1>b DEF ReaderInv, EndOfInput
      <4>2. Job(Last - 1) \in JobRecord
        BY <4>1, Numbers
      <4>3. [Job(Last - 1) EXCEPT !.more = FALSE] \in JobRecord
        BY <4>2 DEF JobRecord
      <4>4. Update(Last - 1, "more", FALSE) /\ jobQueue' = Append(jobQueue, Last - 1)
        BY <3>2, <1>6 DEF EndOfInput
      <4>5. jobs' = [jobs EXCEPT ![Last - 1 + 1] = [Job(Last - 1) EXCEPT !.more = FALSE]]
        BY <4>4, <4>1, Updated
      <4> QED
        BY <4>1, <4>3, <4>4, <4>5, ChangedJob, AppendToList DEF TypeInv
    <3> QED
      BY <3>1, <3>2
  <2>p. PcInv'
    BY <1>6, Moved DEF TypeInv, EndOfInput, ReaderAt
  <2> QED
    BY <1>6, <2>p, <2>1, <2>2, SameSpaces DEF TypeInv, EndOfInput, output
<1>7. CASE CloseJobs
  <2>1. call' = call
    BY <1>7 DEF CloseJobs
  <2>p. PcInv'
    BY <1>7, Moved DEF TypeInv, CloseJobs, ReaderAt
  <2> QED
    BY <1>7, <2>p, <2>1, SameSpaces DEF TypeInv, CloseJobs, pools, output
<1>8. CASE Join
  <2>1. call' = call
    BY <1>8 DEF Join
  <2>p. PcInv'
    BY <1>8, Moved DEF TypeInv, Join, ReaderAt
  <2> QED
    BY <1>8, <2>p, <2>1, SameSpaces DEF TypeInv, Join, pools, queues, output
<1>9. ASSUME NEW c \in Worker, GetJob(c)
      PROVE  TypeInv'
  <2>1. call' = call
    BY <1>9 DEF GetJob
  <2>2. Tail(jobQueue) \in Seq(Int) /\ Head(jobQueue) \in Int
    BY <1>9, TailOfList DEF TypeInv, GetJob
  <2>p. PcInv'
    BY <1>9, Moved DEF TypeInv, GetJob, WorkerAt
  <2> QED
    BY <1>9, <2>p, <2>1, <2>2, SameSpaces DEF TypeInv, GetJob, pools, output
<1>10. ASSUME NEW c \in Worker, NoMoreJobs(c)
       PROVE  TypeInv'
  <2>1. call' = call
    BY <1>10 DEF NoMoreJobs
  <2>p. PcInv'
    BY <1>10, Moved DEF TypeInv, NoMoreJobs, WorkerAt
  <2> QED
    BY <1>10, <2>p, <2>1, SameSpaces DEF TypeInv, NoMoreJobs, pools, queues, output
<1>11. ASSUME NEW c \in Worker, Deflate(c)
       PROVE  TypeInv'
  <2>1. call' = call
    BY <1>11 DEF Deflate
  <2>2. cur[c] \in 0 .. Last
    BY <1>11, InHand DEF Deflate
  <2>3. jobs' \in Seq(JobRecord)
    <3>1. PICK fits \in Fits :
            Update(cur[c], "out", <<[data  |-> Content(cur[c]),
                                     dict  |-> Job(cur[c]).dict,
                                     final |-> ~Job(cur[c]).more,
                                     whole |-> fits]>>)
      BY <1>11 DEF Deflate
    <3> DEFINE b == [data  |-> Content(cur[c]), dict  |-> Job(cur[c]).dict,
                     final |-> ~Job(cur[c]).more, whole |-> fits]
    <3>2. Job(cur[c]) \in JobRecord /\ Content(cur[c]) \in Interval
      BY <2>2, Numbers, ContentType
    <3>3. b \in Block
      BY <3>2, <1>a DEF Block, JobRecord
    <3>4. <<b>> \in Seq(Block)
      BY <3>3
    <3>5. [Job(cur[c]) EXCEPT !.out = <<b>>] \in JobRecord
      BY <3>2, <3>4 DEF JobRecord
    <3>6. jobs' = [jobs EXCEPT ![cur[c] + 1] = [Job(cur[c]) EXCEPT !.out = <<b>>]]
      BY <3>1, <3>4, <2>2, Updated
    <3> QED
      BY <3>5, <3>6, <2>2, ChangedJob
  <2>p. PcInv'
    BY <1>11, Moved DEF TypeInv, Deflate, WorkerAt
  <2> QED
    BY <1>11, <2>p, <2>1, <2>3, SameSpaces DEF TypeInv, Deflate, pools, queues, output
<1>12. ASSUME NEW c \in Worker, Check(c)
       PROVE  TypeInv'
  <2>1. call' = call
    BY <1>12 DEF Check
  <2>2. cur[c] \in 0 .. Last
    BY <1>12, InHand DEF Check
  <2>3. Job(cur[c]) \in JobRecord /\ Content(cur[c]) \in Interval
    BY <2>2, Numbers, ContentType
  <2>4. [Job(cur[c]) EXCEPT !.check = Content(cur[c])] \in JobRecord
    BY <2>3 DEF JobRecord
  <2>5. jobs' = [jobs EXCEPT ![cur[c] + 1] = [Job(cur[c]) EXCEPT !.check = Content(cur[c])]]
    BY <1>12, <2>2, <2>3, Updated DEF Check
  <2>6. jobs' \in Seq(JobRecord)
    BY <2>2, <2>4, <2>5, ChangedJob
  <2>p. PcInv'
    BY <1>12, Moved DEF TypeInv, Check, WorkerAt
  <2> QED
    BY <1>12, <2>p, <2>1, <2>6, SameSpaces DEF TypeInv, Check, pools, queues, output
<1>13. ASSUME NEW c \in Worker, DropDict(c)
       PROVE  TypeInv'
  <2>1. call' = call
    BY <1>13 DEF DropDict
  <2>p. PcInv'
    BY <1>13, Moved DEF TypeInv, DropDict, WorkerAt
  <2> QED
    BY <1>13, <2>p, <2>1, SameSpaces DEF TypeInv, DropDict, queues, output
<1>14. ASSUME NEW c \in Worker, DropIn(c)
       PROVE  TypeInv'
  <2>1. call' = call
    BY <1>14 DEF DropIn
  <2>2. cur[c] \in 0 .. Last
    BY <1>14, InHand DEF DropIn
  <2>3. Job(cur[c]).in \in Space
    BY <2>2, ContentType
  <2>4. inList' \in Seq(Space)
    BY <1>14, <2>3, ConsOfList DEF DropIn, TypeInv
  <2>5. len' \in [Space -> 0 .. BlockSize]
    BY <1>14, <1>a, <2>3 DEF DropIn, TypeInv
  <2>p. PcInv'
    BY <1>14, Moved DEF TypeInv, DropIn, WorkerAt
  <2> QED
    BY <1>14, <2>p, <2>1, <2>4, <2>5, SameSpaces DEF TypeInv, DropIn, queues, output
<1>15. ASSUME NEW c \in Worker, AddResult(c)
       PROVE  TypeInv'
  <2>1. call' = call
    BY <1>15 DEF AddResult
  <2>2. writeQueue' \subseteq Int /\ cur' \in [Worker -> Int]
    <3>1. cur[c] \in Int /\ NoJob \in Int
      BY DEF TypeInv, NoJob
    <3> QED
      BY <3>1, <1>15 DEF AddResult, TypeInv
  <2>p. PcInv'
    BY <1>15, Moved DEF TypeInv, AddResult, WorkerAt
  <2> QED
    BY <1>15, <2>p, <2>1, <2>2, SameSpaces DEF TypeInv, AddResult, pools, output, NoJob
<1>16. CASE FetchJob
  <2>1. call' = call
    BY <1>16 DEF FetchJob
  <2>p. PcInv'
    BY <1>16, Moved DEF TypeInv, FetchJob, WriterAt
  <2> QED
    BY <1>16, <2>p, <2>1, SameSpaces DEF TypeInv, FetchJob, pools, output
<1>17. CASE FetchNull
  <2>1. call' = call
    BY <1>17 DEF FetchNull
  <2>p. PcInv'
    BY <1>17, Moved DEF TypeInv, FetchNull, WriterAt
  <2> QED
    BY <1>17, <2>p, <2>1, SameSpaces DEF TypeInv, FetchNull, pools, queues, output
<1>18. CASE AddLength
  <2>1. call' = call
    BY <1>18 DEF AddLength
  <2>p. PcInv'
    BY <1>18, Moved DEF TypeInv, AddLength, WriterAt
  <2> QED
    BY <1>18, <2>p, <2>1, SameSpaces DEF TypeInv, AddLength, pools, queues
<1>19. CASE WriteOut
  <2>1. call' = call
    BY <1>19 DEF WriteOut
  <2>2. seq \in 0 .. Last
    BY <1>19, InHand DEF WriteOut
  <2>3. Job(seq).out \in Seq(Block)
    BY <2>2, Numbers DEF JobRecord
  <2>4. file' \in Seq(Block)
    BY <1>19, <2>3, ConcatProperties DEF TypeInv, WriteOut
  <2>p. PcInv'
    BY <1>19, Moved DEF TypeInv, WriteOut, WriterAt
  <2> QED
    BY <1>19, <2>p, <2>1, <2>4, SameSpaces DEF TypeInv, WriteOut, pools, queues
<1>20. CASE Combine
  <2>1. call' = call
    BY <1>20 DEF Combine
  <2>p. PcInv'
    BY <1>20, Moved DEF TypeInv, Combine, WriterAt
  <2> QED
    BY <1>20, <2>p, <2>1, SameSpaces DEF TypeInv, Combine, pools, queues
<1>21. CASE FreeJob
  <2>1. call' = call
    BY <1>21 DEF FreeJob
  <2>p. PcInv'
    BY <1>21, Moved DEF TypeInv, FreeJob, WriterAt
  <2> QED
    BY <1>21, <2>p, <2>1, SameSpaces DEF TypeInv, FreeJob, queues
<1>22. CASE PutTrailer
  <2>1. call' = call
    BY <1>22 DEF PutTrailer
  <2>p. PcInv'
    BY <1>22, Moved DEF TypeInv, PutTrailer, WriterAt
  <2> QED
    BY <1>22, <2>p, <2>1, SameSpaces DEF TypeInv, PutTrailer, pools, queues
<1>23. CASE UNCHANGED vars
  <2>1. call' = call
    BY <1>23 DEF vars
  <2> QED
    BY <1>23, <2>1, SameSpaces DEF TypeInv, PcInv, vars, pools, queues, output
<1> QED
  BY <1>1, <1>2, <1>3, <1>4, <1>5, <1>6, <1>7, <1>8, <1>9, <1>10, <1>11, <1>12,
     <1>13, <1>14, <1>15, <1>16, <1>17, <1>18, <1>19, <1>20, <1>21, <1>22, <1>23
     DEF Next, ReaderStep, WorkerStep, WriterStep, Returned

-----------------------------------------------------------------------------
(* What a step of a compress thread, of the writer and of the reader leaves *)
(* alone                                                                   *)

LEMMA WorkerEffects ==
    ASSUME TypeInv, ReaderInv, PlaceInv, NEW c \in Worker, WorkerStep(c)
    PROVE  /\ Last' = Last /\ Len(jobs') = Len(jobs)
           /\ UNCHANGED <<call, offset, data, jobsClosed, seq, file, trailer>>
           /\ pc'["reader"] = pc["reader"] /\ pc'["writer"] = pc["writer"]
           /\ \A d \in Worker : d # c => pc'[d] = pc[d] /\ cur'[d] = cur[d]
           /\ \A j \in 0 .. Last :
                 /\ Job(j)'.in = Job(j).in
                 /\ Job(j)'.more = Job(j).more
                 /\ Job(j)'.dict = Job(j).dict
                 /\ pc[c] # "deflate" \/ j # cur[c] => Job(j)'.out = Job(j).out
<1> USE DEF At
<1>1. CASE GetJob(c) \/ NoMoreJobs(c) \/ DropDict(c) \/ DropIn(c) \/ AddResult(c)
  <2>1. UNCHANGED <<call, offset, data, jobs, jobsClosed, seq, file, trailer>>
    BY <1>1 DEF GetJob, NoMoreJobs, DropDict, DropIn, AddResult, queues, pools, output
  <2>2. \A d \in Worker : d # c => cur'[d] = cur[d]
    BY <1>1 DEF GetJob, NoMoreJobs, DropDict, DropIn, AddResult, TypeInv
  <2>3. \E to \in WorkerAt : Goto(c, to)
    BY <1>1 DEF GetJob, NoMoreJobs, DropDict, DropIn, AddResult, WorkerAt
  <2> QED
    BY <2>1, <2>2, <2>3, Moved DEF TypeInv, Last, Job
<1>2. ASSUME Deflate(c)
      PROVE  /\ Last' = Last /\ jobs' \in Seq(JobRecord)
             /\ \A j \in 0 .. Last :
                 /\ Job(j)'.in = Job(j).in
                 /\ Job(j)'.more = Job(j).more
                 /\ Job(j)'.dict = Job(j).dict
                 /\ j # cur[c] => Job(j)'.out = Job(j).out
  <2>1. cur[c] \in 0 .. Last
    BY <1>2, InHand DEF Deflate
  <2>2. PICK fits \in Fits :
            Update(cur[c], "out", <<[data  |-> Content(cur[c]),
                                     dict  |-> Job(cur[c]).dict,
                                     final |-> ~Job(cur[c]).more,
                                     whole |-> fits]>>)
    BY <1>2 DEF Deflate
  <2> DEFINE b == [data  |-> Content(cur[c]), dict  |-> Job(cur[c]).dict,
                   final |-> ~Job(cur[c]).more, whole |-> fits]
             r == [Job(cur[c]) EXCEPT !.out = <<b>>]
  <2>3. Job(cur[c]) \in JobRecord /\ Content(cur[c]) \in Interval
    BY <2>1, Numbers, ContentType
  <2>4. b \in Block
    BY <2>3, DeflateAssumption DEF Block, JobRecord
  <2>5. <<b>> \in Seq(Block)
    BY <2>4
  <2>6. r \in JobRecord /\ r.in = Job(cur[c]).in /\ r.more = Job(cur[c]).more
        /\ r.dict = Job(cur[c]).dict
    BY <2>3, <2>5 DEF JobRecord
  <2>7. jobs' = [jobs EXCEPT ![cur[c] + 1] = r]
    BY <2>2, <2>5, <2>1, Updated
  <2>8. /\ jobs' \in Seq(JobRecord) /\ Last' = Last
        /\ \A j \in 0 .. Last : Job(j)' = IF j = cur[c] THEN r ELSE Job(j)
    BY <2>6, <2>7, <2>1, ChangedJob
  <2> HIDE DEF r
  <2> QED
    BY <2>8, <2>6
<1>3. ASSUME Check(c)
      PROVE  /\ Last' = Last /\ jobs' \in Seq(JobRecord)
             /\ \A j \in 0 .. Last :
                 /\ Job(j)'.in = Job(j).in
                 /\ Job(j)'.more = Job(j).more
                 /\ Job(j)'.dict = Job(j).dict
                 /\ Job(j)'.out = Job(j).out
  <2>1. cur[c] \in 0 .. Last
    BY <1>3, InHand DEF Check
  <2> DEFINE r == [Job(cur[c]) EXCEPT !.check = Content(cur[c])]
  <2>2. Job(cur[c]) \in JobRecord /\ Content(cur[c]) \in Interval
    BY <2>1, Numbers, ContentType
  <2>3. r \in JobRecord /\ r.in = Job(cur[c]).in /\ r.more = Job(cur[c]).more
        /\ r.dict = Job(cur[c]).dict /\ r.out = Job(cur[c]).out
    BY <2>2 DEF JobRecord
  <2>4. jobs' = [jobs EXCEPT ![cur[c] + 1] = r]
    BY <1>3, <2>1, <2>2, Updated DEF Check
  <2>5. /\ jobs' \in Seq(JobRecord) /\ Last' = Last
        /\ \A j \in 0 .. Last : Job(j)' = IF j = cur[c] THEN r ELSE Job(j)
    BY <2>3, <2>4, <2>1, ChangedJob
  <2> HIDE DEF r
  <2> QED
    BY <2>5, <2>3
<1>4. CASE Deflate(c) \/ Check(c)
  <2>1. UNCHANGED <<call, offset, data, cur, jobsClosed, seq, file, trailer>>
        /\ (Check(c) => pc[c] = "check") /\ (Deflate(c) => pc[c] = "deflate")
    BY <1>4 DEF Deflate, Check, queues, pools, output
  <2>2. \E to \in WorkerAt : Goto(c, to)
    BY <1>4 DEF Deflate, Check, WorkerAt
  <2>3. Last' = Last => Len(jobs') = Len(jobs)
    <3>1. Len(jobs) \in Nat /\ Len(jobs') \in Nat
      BY <1>2, <1>3, <1>4, Numbers, LenProperties
    <3> QED
      BY <3>1 DEF Last
  <2> QED
    BY <1>2, <1>3, <1>4, <2>1, <2>2, <2>3, Moved DEF TypeInv
<1> QED
  BY <1>1, <1>4 DEF WorkerStep

LEMMA WriterEffects ==
    ASSUME TypeInv, WriterStep
    PROVE  /\ UNCHANGED <<call, offset, data, len, inList, jobs, jobQueue, jobsClosed, cur>>
           /\ pc'["reader"] = pc["reader"]
           /\ \A c \in Worker : pc'[c] = pc[c]
<1> USE DEF At
<1>1. UNCHANGED <<call, offset, data, len, inList, jobs, jobQueue, jobsClosed, cur>>
  BY DEF WriterStep, FetchJob, FetchNull, AddLength, WriteOut, Combine, FreeJob,
         PutTrailer, queues, pools, output
<1>2. \E to \in WriterAt : Goto("writer", to)
  BY DEF WriterStep, FetchJob, FetchNull, AddLength, WriteOut, Combine, FreeJob,
         PutTrailer, WriterAt
<1> QED
  BY <1>1, <1>2, Moved DEF TypeInv

LEMMA ReaderEffects ==
    ASSUME TypeInv, ReaderStep
    PROVE  /\ UNCHANGED <<call, writeQueue, cur, seq, file, trailer>>
           /\ pc'["writer"] = pc["writer"]
           /\ \A c \in Worker : pc'[c] = pc[c]
<1> USE DEF At
<1>1. UNCHANGED <<call, writeQueue, cur, seq, file, trailer>>
  BY DEF ReaderStep, GetIn, GetOut, Load, SetDictionary, AddJob, EndOfInput,
         CloseJobs, Join, queues, pools, output
<1>2. \E to \in ReaderAt : Goto("reader", to)
  BY DEF ReaderStep, GetIn, GetOut, Load, SetDictionary, AddJob, EndOfInput,
         CloseJobs, Join, ReaderAt
<1> QED
  BY <1>1, <1>2, Moved DEF TypeInv

(* The dictionary of the newest job, and the mark of the last one           *)
LEMMA SetDictionaryJobs ==
    ASSUME TypeInv, ReaderInv, SetDictionary
    PROVE  /\ Last >= 1 /\ Last' = Last
           /\ \A j \in 0 .. Last : /\ Job(j)'.in = Job(j).in
                                   /\ Job(j)'.more = Job(j).more
                                   /\ Job(j)'.out = Job(j).out
                                   /\ j # Last => Job(j)'.dict = Job(j).dict
           /\ \/ pc'["reader"] = "aborted" /\ jobs' = jobs
              \/ /\ pc'["reader"] = "add"
                 /\ \A j : j = Last => Job(j)'.dict =
                      [from |-> Content(Last - 1).from + Content(Last - 1).len - Dict,
                       len |-> Dict]
<1> DEFINE s == Job(Last - 1).in
           d == [from |-> data[s].from + len[s] - Dict, len |-> Dict]
           r == [Job(Last) EXCEPT !.dict = d]
<1>1. Last >= 1 /\ Last \in Int /\ Last \in 0 .. Last /\ Last - 1 \in 0 .. Last
  BY Numbers DEF ReaderInv, SetDictionary, At
<1>2. CASE jobs' = jobs /\ Goto("reader", "aborted")
  <2>1. "aborted" \in ReaderAt
    BY DEF ReaderAt
  <2> QED
    BY <1>1, <1>2, <2>1, Moved DEF Last, Job, TypeInv
<1>3. CASE Update(Last, "dict", d) /\ Goto("reader", "add")
  <2>1. s \in Space
    BY <1>1, ContentType
  <2>2. data[s].from \in Int /\ len[s] \in Int /\ Dict \in Nat
    BY <2>1, DeflateAssumption DEF TypeInv, Interval
  <2>3. d \in Interval
    BY <2>2 DEF Interval
  <2>4. Job(Last) \in JobRecord
    BY <1>1, Numbers
  <2>5. r \in JobRecord /\ r.in = Job(Last).in /\ r.more = Job(Last).more
        /\ r.out = Job(Last).out /\ r.dict = d
    BY <2>3, <2>4 DEF JobRecord
  <2>6. jobs' = [jobs EXCEPT ![Last + 1] = r]
    BY <1>1, <1>3, <2>3, Updated
  <2>7. Last' = Last /\ \A j \in 0 .. Last : Job(j)' = IF j = Last THEN r ELSE Job(j)
    BY <1>1, <2>5, <2>6, ChangedJob
  <2>8. pc'["reader"] = "add"
    BY <1>3, Moved DEF TypeInv, ReaderAt
  <2>9. d = [from |-> Content(Last - 1).from + Content(Last - 1).len - Dict,
             len |-> Dict]
    BY DEF Content
  <2> HIDE DEF r, d
  <2> QED
    BY <1>1, <2>5, <2>7, <2>8, <2>9
<1> QED
  BY <1>2, <1>3 DEF SetDictionary

LEMMA EndOfInputJobs ==
    ASSUME TypeInv, ReaderInv, EndOfInput
    PROVE  /\ Last >= 0 /\ Last' = Last
           /\ pc'["reader"] = "close" /\ offset' = offset /\ UNCHANGED <<data, len, inList, jobsClosed>>
           /\ \A j \in 0 .. Last : /\ Job(j)'.in = Job(j).in
                                   /\ Job(j)'.dict = Job(j).dict
                                   /\ Job(j)'.out = Job(j).out
                                   /\ Job(j)'.more = IF j = Last - 1 THEN FALSE
                                                     ELSE Job(j).more
           /\ jobQueue' = IF Last = 0 THEN jobQueue ELSE Append(jobQueue, Last - 1)
<1>1. Last >= 0 /\ Last \in Int /\ Last \in 0 .. Last
  BY Numbers DEF ReaderInv, EndOfInput, At
<1>2. pc'["reader"] = "close"
  BY Moved DEF TypeInv, EndOfInput, ReaderAt
<1>3. CASE Last = 0
  <2>1. UNCHANGED <<jobs, jobQueue, offset, data, len, inList, jobsClosed>>
    BY <1>3 DEF EndOfInput
  <2>2. Last' = Last /\ \A j \in 0 .. Last : Job(j)' = Job(j) /\ j # Last - 1
    BY <1>1, <1>3, <2>1 DEF Last, Job
  <2> QED
    BY <1>1, <1>2, <1>3, <2>1, <2>2
<1>4. CASE Last # 0
  <2> DEFINE r == [Job(Last - 1) EXCEPT !.more = FALSE]
  <2>1. Last - 1 \in 0 .. Last
    BY <1>1, <1>4
  <2>2. Job(Last - 1) \in JobRecord
    BY <2>1, Numbers
  <2>3. r \in JobRecord /\ r.in = Job(Last - 1).in /\ r.dict = Job(Last - 1).dict
        /\ r.out = Job(Last - 1).out /\ r.more = FALSE
    BY <2>2 DEF JobRecord
  <2>4. jobs' = [jobs EXCEPT ![Last - 1 + 1] = r]
    BY <1>4, <2>1, Updated DEF EndOfInput
  <2>5. Last' = Last
        /\ \A j \in 0 .. Last : Job(j)' = IF j = Last - 1 THEN r ELSE Job(j)
    BY <2>1, <2>3, <2>4, ChangedJob
  <2>6. jobQueue' = Append(jobQueue, Last - 1) /\ UNCHANGED <<offset, data, len, inList, jobsClosed>>
    BY <1>4 DEF EndOfInput
  <2> HIDE DEF r
  <2> QED
    BY <1>1, <1>2, <1>4, <2>3, <2>5, <2>6
<1> QED
  BY <1>3, <1>4

LEMMA GetInJobs ==
    ASSUME TypeInv, GetIn
    PROVE  /\ Last' = Last + 1
           /\ \A j \in 0 .. Last : Job(j)' = Job(j)
           /\ \A j : j = Last + 1 =>
                 /\ Job(j)'.in = Head(inList) /\ Job(j)'.more = TRUE
                 /\ Job(j)'.dict = NoData /\ Job(j)'.out = <<>>
           /\ pc'["reader"] = "get_out"
<1> DEFINE r == [in |-> Head(inList), more |-> TRUE, dict |-> NoData, check |-> NoData,
                 out |-> <<>>]
<1>1. Head(inList) \in Space
  BY TailOfList DEF TypeInv, GetIn
<1>2. NoData \in Interval /\ <<>> \in Seq(Block)
  BY DEF NoData, Interval
<1>3. r \in JobRecord
  BY <1>1, <1>2 DEF JobRecord
<1>4. jobs' = Append(jobs, r)
  BY DEF GetIn
<1>5. Last' = Last + 1 /\ (\A j : j = Last + 1 => Job(j)' = r)
      /\ \A j \in 0 .. Last : Job(j)' = Job(j)
  BY <1>3, <1>4, NewJob
<1>6. pc'["reader"] = "get_out"
  BY Moved DEF TypeInv, GetIn, ReaderAt
<1> QED
  BY <1>5, <1>6

-----------------------------------------------------------------------------
(* Where the reader is                                                     *)

LEMMA ReaderInit == Init => ReaderInv
  BY DeflateAssumption DEF Init, ReaderInv, Ended, Thread, Last

LEMMA ReaderInvStep ==
    TypeInv /\ ReaderInv /\ PlaceInv /\ [Next]_vars => ReaderInv'
<1> SUFFICES ASSUME TypeInv, ReaderInv, PlaceInv, [Next]_vars
             PROVE  ReaderInv'
  OBVIOUS
<1> USE DEF At, ReaderInv, Ended
<1>a. Last \in Int /\ Last >= -1
  BY Numbers
<1>1. ASSUME NEW c \in Worker, WorkerStep(c)
      PROVE  ReaderInv'
  BY <1>1, <1>a, WorkerEffects
<1>2. CASE WriterStep
  BY <1>2, <1>a, WriterEffects DEF Last
<1>3. CASE GetIn
  <2>1. offset' = offset /\ call' = call /\ jobsClosed' = jobsClosed /\ pc["reader"] = "get_in"
    BY <1>3 DEF GetIn, queues
  <2> QED
    BY <1>3, <1>a, <2>1, GetInJobs
<1>4. CASE GetOut \/ AddJob \/ CloseJobs \/ Join
  <2>1. Last' = Last /\ UNCHANGED <<offset, call>>
    BY <1>4 DEF GetOut, AddJob, CloseJobs, Join, Last, pools, queues
  <2>2. GetOut => jobsClosed' = jobsClosed /\ pc["reader"] = "get_out" /\ pc'["reader"] = "load"
    BY Moved DEF GetOut, queues, TypeInv, ReaderAt
  <2>3. AddJob => jobsClosed' = jobsClosed /\ pc["reader"] = "add" /\ pc'["reader"] = "get_in"
    BY Moved DEF AddJob, TypeInv, ReaderAt
  <2>4. CloseJobs => pc["reader"] = "close" /\ pc'["reader"] = "join"
    BY Moved DEF CloseJobs, TypeInv, ReaderAt
  <2>5. Join => jobsClosed' = jobsClosed /\ pc["reader"] = "join" /\ pc'["reader"] = "done"
    BY Moved DEF Join, queues, TypeInv, ReaderAt
  <2> QED
    BY <1>4, <1>a, <2>1, <2>2, <2>3, <2>4, <2>5
<1>5. CASE Load
  <2>1. Last' = Last /\ call' = call /\ jobsClosed' = jobsClosed /\ pc["reader"] = "load"
    BY <1>5 DEF Load, Last, queues
  <2>2. PICK k \in 0 .. Least(BlockSize, call.len - offset) :
          /\ k = 0 => offset = call.len
          /\ offset' = offset + k
          /\ Goto("reader", IF k = 0 THEN "eof"
                            ELSE IF Last = 0 THEN "get_in"
                            ELSE IF call.independent THEN "add" ELSE "dict")
    BY <1>5 DEF Load
  <2>3. pc'["reader"] = IF k = 0 THEN "eof"
                        ELSE IF Last = 0 THEN "get_in"
                        ELSE IF call.independent THEN "add" ELSE "dict"
    BY <2>2, Moved DEF TypeInv, ReaderAt
  <2>4. offset \in Int
    BY Numbers DEF TypeInv, CallRecords
  <2> QED
    BY <1>a, <2>1, <2>2, <2>3, <2>4
<1>6. CASE SetDictionary
  <2>1. UNCHANGED <<call, offset, jobsClosed>> /\ pc["reader"] = "dict"
    BY <1>6 DEF SetDictionary, queues
  <2> QED
    BY <1>6, <1>a, <2>1, SetDictionaryJobs
<1>7. CASE EndOfInput
  <2>1. UNCHANGED <<call, offset, jobsClosed>> /\ pc["reader"] = "eof"
    BY <1>7 DEF EndOfInput
  <2> QED
    BY <1>7, <1>a, <2>1, EndOfInputJobs
<1>8. CASE UNCHANGED vars
  BY <1>8 DEF vars, pools, queues, output, Last
<1> QED
  BY <1>1, <1>2, <1>3, <1>4, <1>5, <1>6, <1>7, <1>8 DEF Next, ReaderStep, Returned

-----------------------------------------------------------------------------
(* Where the jobs are                                                      *)

LEMMA PlaceInit == Init => PlaceInv
<1> SUFFICES ASSUME Init
             PROVE  PlaceInv
  OBVIOUS
<1>1. Elements(jobQueue) = {} /\ Distinct(jobQueue) /\ writeQueue = {}
  BY DEF Init, Elements, Distinct
<1>2. pc["writer"] = "get_job" /\ seq = 0 /\ Taken = {}
  BY DeflateAssumption DEF Init, Thread, Taken
<1>3. Working = {}
  BY DeflateAssumption DEF Init, Thread, Working
<1>4. Queued = {}
  BY DeflateAssumption DEF Init, Thread, Queued, Last
<1> QED
  BY <1>1, <1>2, <1>3, <1>4 DEF PlaceInv

(* The reader queues the job Last - 1 in AddJob and EndOfInput              *)
LEMMA QueuedOne ==
    ASSUME TypeInv, PlaceInv, NEW j \in Int, j \notin Queued,
           Queued' = Queued \cup {j}, jobQueue' = Append(jobQueue, j),
           Taken' = Taken, writeQueue' = writeQueue, Working' = Working, cur' = cur
    PROVE  PlaceInv'
<1>1. Elements(jobQueue') = Elements(jobQueue) \cup {j}
  BY AppendToList DEF TypeInv
<1>2. Distinct(jobQueue')
  BY AppendToList DEF TypeInv, PlaceInv
<1> QED
  BY <1>1, <1>2 DEF PlaceInv

LEMMA PlaceInvStep ==
    TypeInv /\ ReaderInv /\ PlaceInv /\ [Next]_vars => PlaceInv'
<1> SUFFICES ASSUME TypeInv, ReaderInv, PlaceInv, [Next]_vars
             PROVE  PlaceInv'
  OBVIOUS
<1> USE DEF At
<1>a. Last \in Int /\ Last >= -1 /\ seq \in Nat
  BY Numbers DEF TypeInv
<1>b. ASSUME UNCHANGED <<jobQueue, writeQueue>>, Taken' = Taken, Working' = Working,
             Queued' = Queued, \A d \in Working : cur'[d] = cur[d]
      PROVE  PlaceInv'
  BY <1>b DEF PlaceInv
<1>c. ASSUME UNCHANGED <<jobQueue, writeQueue, cur>>, Queued' = Queued,
             UNCHANGED seq, pc'["writer"] = pc["writer"],
             \A c \in Worker : pc'[c] = pc[c]
      PROVE  PlaceInv'
  BY <1>b, <1>c DEF Taken, Working
<1>1. CASE ReaderStep /\ ~AddJob /\ ~EndOfInput
  <2>1. jobQueue' = jobQueue
    BY <1>1 DEF ReaderStep, GetIn, GetOut, Load, SetDictionary, CloseJobs, Join, queues
  <2>2. Queued' = Queued
    <3>1. CASE GetIn
      <4>1. pc["reader"] = "get_in"
        BY <3>1 DEF GetIn
      <4> QED
        BY <3>1, <4>1, <1>a, GetInJobs DEF Queued
    <3>2. CASE GetOut \/ CloseJobs \/ Join
      <4>1. Last' = Last
        BY <3>2 DEF GetOut, CloseJobs, Join, Last
      <4>2. GetOut => pc["reader"] = "get_out" /\ pc'["reader"] = "load"
        BY Moved DEF GetOut, TypeInv, ReaderAt
      <4>3. CloseJobs => pc["reader"] = "close" /\ pc'["reader"] = "join"
        BY Moved DEF CloseJobs, TypeInv, ReaderAt
      <4>4. Join => pc["reader"] = "join" /\ pc'["reader"] = "done"
        BY Moved DEF Join, TypeInv, ReaderAt
      <4> QED
        BY <3>2, <4>1, <4>2, <4>3, <4>4 DEF Queued
    <3>3. CASE Load
      <4>1. Last' = Last /\ pc["reader"] = "load" /\ Last >= 0
        BY <3>3 DEF Load, Last, ReaderInv
      <4>2. \/ pc'["reader"] \in {"eof", "add", "dict"}
            \/ pc'["reader"] = "get_in" /\ Last = 0
        BY <3>3, Moved DEF Load, TypeInv, ReaderAt
      <4> QED
        BY <4>1, <4>2, <1>a DEF Queued
    <3>4. CASE SetDictionary
      <4>1. pc["reader"] = "dict"
        BY <3>4 DEF SetDictionary
      <4> QED
        BY <3>4, <4>1, SetDictionaryJobs DEF Queued
    <3> QED
      BY <1>1, <3>1, <3>2, <3>3, <3>4 DEF ReaderStep
  <2> QED
    BY <1>1, <1>c, <2>1, <2>2, ReaderEffects
<1>2. CASE AddJob
  <2>1. Last' = Last /\ pc["reader"] = "add" /\ pc'["reader"] = "get_in" /\ Last >= 1
    BY <1>2, Moved DEF AddJob, TypeInv, ReaderAt, Last, ReaderInv
  <2>2. Queued' = Queued \cup {Last - 1} /\ Last - 1 \notin Queued /\ Last - 1 \in Int
    BY <2>1, <1>a DEF Queued
  <2>3. jobQueue' = Append(jobQueue, Last - 1)
    BY <1>2 DEF AddJob
  <2>4. Taken' = Taken /\ writeQueue' = writeQueue /\ Working' = Working /\ cur' = cur
    BY <1>2, ReaderEffects DEF ReaderStep, Taken, Working
  <2> QED
    BY <2>2, <2>3, <2>4, QueuedOne
<1>3. CASE EndOfInput
  <2>1. Last' = Last /\ pc["reader"] = "eof" /\ pc'["reader"] = "close" /\ Last >= 0
    BY <1>3, EndOfInputJobs DEF EndOfInput
  <2>4. Taken' = Taken /\ writeQueue' = writeQueue /\ Working' = Working /\ cur' = cur
    BY <1>3, ReaderEffects DEF ReaderStep, Taken, Working
  <2>5. CASE Last = 0
    <3>1. Queued' = Queued
      BY <2>1, <2>5 DEF Queued
    <3>2. jobQueue' = jobQueue
      BY <1>3, <2>5, EndOfInputJobs
    <3> QED
      BY <3>1, <3>2, <2>4, <1>b
  <2>6. CASE Last # 0
    <3>2. Queued' = Queued \cup {Last - 1} /\ Last - 1 \notin Queued /\ Last - 1 \in Int
      BY <2>1, <2>6, <1>a DEF Queued
    <3>3. jobQueue' = Append(jobQueue, Last - 1)
      BY <1>3, <2>6, EndOfInputJobs
    <3> QED
      BY <3>2, <3>3, <2>4, QueuedOne
  <2> QED
    BY <2>5, <2>6
<1>d. ASSUME NEW c \in Worker, WorkerStep(c)
      PROVE  Queued' = Queued /\ Taken' = Taken
  BY <1>d, WorkerEffects DEF Queued, Taken
<1>4. ASSUME NEW c \in Worker, GetJob(c)
      PROVE  PlaceInv'
  <2>1. WorkerStep(c)
    BY <1>4 DEF WorkerStep
  <2>2. /\ pc[c] = "get_job" /\ pc'[c] = "deflate"
        /\ cur'[c] = Head(jobQueue) /\ jobQueue' = Tail(jobQueue) /\ jobQueue # <<>>
        /\ writeQueue' = writeQueue
    BY <1>4, Moved DEF GetJob, TypeInv, WorkerAt
  <2>3. Working' = Working \cup {c} /\ c \notin Working
        /\ \A d \in Working : cur'[d] = cur[d]
    BY <2>1, <2>2, WorkerEffects DEF Working
  <2>4. /\ Elements(jobQueue) = Elements(jobQueue') \cup {Head(jobQueue)}
        /\ Distinct(jobQueue') /\ Head(jobQueue) \notin Elements(jobQueue')
    BY <2>2, TailOfList DEF TypeInv, PlaceInv
  <2> QED
    BY <1>d, <2>1, <2>2, <2>3, <2>4 DEF PlaceInv
<1>5. ASSUME NEW c \in Worker, AddResult(c)
      PROVE  PlaceInv'
  <2>1. WorkerStep(c)
    BY <1>5 DEF WorkerStep
  <2>2. /\ pc[c] = "add" /\ pc'[c] = "get_job"
        /\ jobQueue' = jobQueue /\ writeQueue' = writeQueue \cup {cur[c]}
    BY <1>5, Moved DEF AddResult, TypeInv, WorkerAt
  <2>3. Working' = Working \ {c} /\ c \in Working
        /\ \A d \in Working' : cur'[d] = cur[d]
    BY <2>1, <2>2, WorkerEffects DEF Working
  <2> QED
    BY <1>d, <2>1, <2>2, <2>3 DEF PlaceInv
<1>6. ASSUME NEW c \in Worker, NoMoreJobs(c) \/ Deflate(c) \/ Check(c) \/ DropDict(c) \/ DropIn(c)
      PROVE  PlaceInv'
  <2>1. WorkerStep(c)
    BY <1>6 DEF WorkerStep
  <2>2. UNCHANGED <<jobQueue, writeQueue, cur>>
    BY <1>6 DEF NoMoreJobs, Deflate, Check, DropDict, DropIn, queues
  <2>3. Working' = Working
    <3>1. NoMoreJobs(c) => pc[c] = "get_job" /\ pc'[c] = "done"
      BY Moved DEF NoMoreJobs, TypeInv, WorkerAt
    <3>2. Deflate(c) => pc[c] = "deflate" /\ pc'[c] = "check"
      BY Moved DEF Deflate, TypeInv, WorkerAt
    <3>3. Check(c) => pc[c] = "check" /\ pc'[c] = "drop_dict"
      BY Moved DEF Check, TypeInv, WorkerAt
    <3>4. DropDict(c) => pc[c] = "drop_dict" /\ pc'[c] = "drop_in"
      BY Moved DEF DropDict, TypeInv, WorkerAt
    <3>5. DropIn(c) => pc[c] = "drop_in" /\ pc'[c] = "add"
      BY Moved DEF DropIn, TypeInv, WorkerAt
    <3>6. \A d \in Worker : d # c => pc'[d] = pc[d]
      BY <2>1, WorkerEffects
    <3> QED
      BY <1>6, <3>1, <3>2, <3>3, <3>4, <3>5, <3>6 DEF Working
  <2> QED
    BY <1>b, <1>d, <2>1, <2>2, <2>3
<1>e. ASSUME WriterStep
      PROVE  Queued' = Queued /\ Working' = Working /\ jobQueue' = jobQueue /\ cur' = cur
  BY <1>e, WriterEffects DEF Queued, Working, Last
<1>7. CASE FetchJob
  <2>1. /\ pc["writer"] = "get_job" /\ pc'["writer"] = "ulen" /\ seq' = seq
        /\ seq \in writeQueue /\ writeQueue' = writeQueue \ {seq}
    BY <1>7, Moved DEF FetchJob, TypeInv, WriterAt, output
  <2>2. Taken' = Taken \cup {seq}
    BY <2>1, <1>a DEF Taken
  <2> QED
    BY <1>7, <1>e, <2>1, <2>2 DEF PlaceInv, WriterStep
<1>8. CASE WriterStep /\ ~FetchJob
  <2>1. writeQueue' = writeQueue
    BY <1>8 DEF WriterStep, FetchNull, AddLength, WriteOut, Combine, FreeJob,
                PutTrailer, queues
  <2>2. Taken' = Taken
    <3>1. FetchNull => pc["writer"] = "get_job" /\ pc'["writer"] = "trailer" /\ seq' = seq
      BY Moved DEF FetchNull, TypeInv, WriterAt, output
    <3>2. AddLength => pc["writer"] = "ulen" /\ pc'["writer"] = "write" /\ seq' = seq
      BY Moved DEF AddLength, TypeInv, WriterAt
    <3>3. WriteOut => pc["writer"] = "write" /\ pc'["writer"] = "combine" /\ seq' = seq
      BY Moved DEF WriteOut, TypeInv, WriterAt
    <3>4. Combine => pc["writer"] = "combine" /\ pc'["writer"] = "free" /\ seq' = seq
      BY Moved DEF Combine, TypeInv, WriterAt
    <3>5. FreeJob => /\ pc["writer"] = "free" /\ pc'["writer"] \in {"get_job", "trailer"}
                     /\ seq' = seq + 1
      BY Moved DEF FreeJob, TypeInv, WriterAt
    <3>6. PutTrailer => pc["writer"] = "trailer" /\ pc'["writer"] = "done" /\ seq' = seq
      BY Moved DEF PutTrailer, TypeInv, WriterAt
    <3> QED
      BY <1>8, <1>a, <3>1, <3>2, <3>3, <3>4, <3>5, <3>6 DEF WriterStep, Taken
  <2> QED
    BY <1>8, <1>b, <1>e, <2>1, <2>2
<1>9. CASE UNCHANGED vars
  BY <1>9, <1>b DEF vars, pools, queues, output, Taken, Working, Queued, Last
<1> QED
  BY <1>1, <1>2, <1>3, <1>4, <1>5, <1>6, <1>7, <1>8, <1>9
     DEF Next, WorkerStep, Returned

-----------------------------------------------------------------------------
(* When threads return                                                     *)

LEMMA EndInit == Init => EndInv
<1> SUFFICES ASSUME Init
             PROVE  EndInv
  OBVIOUS
<1>1. pc["writer"] = "get_job" /\ \A c \in Worker : c \in call.threads => pc[c] = "get_job"
  BY DeflateAssumption DEF Init, Thread
<1> QED
  BY <1>1 DEF Init, EndInv

LEMMA EndInvStep ==
    TypeInv /\ ReaderInv /\ PlaceInv /\ EndInv /\ JoinInv /\ [Next]_vars => EndInv'
<1> SUFFICES ASSUME TypeInv, ReaderInv, PlaceInv, EndInv, JoinInv, [Next]_vars
             PROVE  EndInv'
  OBVIOUS
<1> USE DEF At
<1>a. Last \in Int /\ Last >= -1 /\ seq \in Nat
  BY Numbers DEF TypeInv
<1>1. CASE ReaderStep
  <2>1. /\ UNCHANGED <<call, seq, trailer>> /\ pc'["writer"] = pc["writer"]
        /\ \A c \in Worker : pc'[c] = pc[c]
    BY <1>1, ReaderEffects
  <2>2. jobsClosed => jobsClosed' /\ jobQueue' = jobQueue
    BY <1>1 DEF ReaderStep, GetIn, GetOut, Load, SetDictionary, AddJob, EndOfInput,
                CloseJobs, Join, queues, ReaderInv
  <2>3. Ended => Ended' /\ Last' = Last
    <3>1. Ended => CloseJobs \/ Join
      BY <1>1 DEF ReaderStep, Ended, GetIn, GetOut, Load, SetDictionary, AddJob, EndOfInput
    <3>2. CloseJobs => pc'["reader"] = "join" /\ Last' = Last
      BY Moved DEF CloseJobs, TypeInv, ReaderAt, Last
    <3>3. Join => pc'["reader"] = "done" /\ Last' = Last
      BY Moved DEF Join, TypeInv, ReaderAt, Last
    <3> QED
      BY <3>1, <3>2, <3>3 DEF Ended
  <2> QED
    BY <2>1, <2>2, <2>3 DEF EndInv
<1>2. ASSUME NEW c \in Worker, WorkerStep(c)
      PROVE  EndInv'
  <2>1. /\ UNCHANGED <<call, seq, trailer, jobsClosed>> /\ pc'["writer"] = pc["writer"]
        /\ pc'["reader"] = pc["reader"] /\ Last' = Last
        /\ \A d \in Worker : d # c => pc'[d] = pc[d]
    BY <1>2, WorkerEffects
  <2>2. jobQueue = <<>> => jobQueue' = jobQueue
    BY <1>2 DEF WorkerStep, GetJob, NoMoreJobs, Deflate, Check, DropDict, DropIn,
                AddResult, queues
  <2>3. pc'[c] = "done" => NoMoreJobs(c)
    BY <1>2, Moved DEF WorkerStep, GetJob, Deflate, Check, DropDict, DropIn,
                AddResult, TypeInv, WorkerAt
  <2>4. NoMoreJobs(c) => jobQueue = <<>> /\ jobsClosed
    BY DEF NoMoreJobs
  <2> QED
    BY <2>1, <2>2, <2>3, <2>4 DEF EndInv, Ended
<1>3. CASE WriterStep
  <2>1. UNCHANGED <<call, jobs, jobQueue, jobsClosed>> /\ pc'["reader"] = pc["reader"]
        /\ \A c \in Worker : pc'[c] = pc[c]
    BY <1>3, WriterEffects
  <2>2. Last' = Last
    BY <2>1 DEF Last
  <2>3. CASE FetchJob \/ AddLength \/ WriteOut \/ Combine
    <3>1. trailer' = trailer /\ pc["writer"] \notin {"trailer", "done"}
          /\ pc'["writer"] \notin {"trailer", "done"}
      BY <2>3, Moved DEF FetchJob, AddLength, WriteOut, Combine, output, TypeInv, WriterAt
    <3> QED
      BY <2>1, <2>2, <3>1 DEF EndInv, Ended
  <2>4. CASE FetchNull
    <3>1. /\ pc["writer"] = "get_job" /\ pc'["writer"] = "trailer" /\ seq' = seq
          /\ trailer' = trailer
      BY <2>4, Moved DEF FetchNull, output, TypeInv, WriterAt
    <3>2. seq \notin writeQueue /\ \A c \in Worker : pc[c] = "done"
      BY <2>4 DEF FetchNull
    <3>3. jobsClosed /\ jobQueue = <<>>
      <4>1. PICK c \in call.threads : c \in Worker
        BY Numbers DEF CallRecords
      <4> QED
        BY <4>1, <3>2 DEF EndInv
    <3>4. Ended /\ pc["reader"] \in {"join", "done"} /\ Last >= 0
      BY <3>3 DEF ReaderInv, Ended
    <3>5. Queued = 0 .. Last - 1 /\ Taken = 0 .. seq - 1
      BY <3>1, <3>4 DEF Queued, Taken
    <3>6. Working = {} /\ Elements(jobQueue) = {}
      BY <3>2, <3>3 DEF Working, Elements
    <3>7. seq \notin Queued
      BY <3>2, <3>5, <3>6, <1>a DEF PlaceInv
    <3>8. seq = 0 \/ seq - 1 \in Queued
      BY <3>5, <1>a DEF PlaceInv
    <3>9. seq = Last
      BY <3>4, <3>5, <3>7, <3>8, <1>a
    <3> QED
      BY <2>1, <2>2, <3>1, <3>4, <3>9 DEF EndInv, Ended
  <2>5. CASE FreeJob
    <3>1. /\ pc["writer"] = "free" /\ seq' = seq + 1 /\ trailer' = trailer
          /\ pc'["writer"] = IF Job(seq).more THEN "get_job" ELSE "trailer"
      BY <2>5, Moved DEF FreeJob, TypeInv, WriterAt
    <3>2. seq \in 0 .. Last
      BY <3>1, InHand
    <3>3. Job(seq).more = ~(Ended /\ seq = Last - 1)
      BY <3>2 DEF JoinInv
    <3>4. Job(seq).more \in BOOLEAN
      BY <3>2, Numbers DEF JobRecord
    <3>5. ~Job(seq).more => Ended /\ seq = Last - 1
      BY <3>3
    <3>6. trailer = <<>> /\ pc'["writer"] # "done"
      BY <3>1 DEF EndInv
    <3>7. pc'["writer"] = "trailer" => Ended' /\ seq' = Last'
      BY <2>1, <2>2, <3>1, <3>5, <1>a DEF Ended
    <3> QED
      BY <2>1, <3>1, <3>6, <3>7 DEF EndInv
  <2>6. CASE PutTrailer
    <3>1. /\ pc["writer"] = "trailer" /\ seq' = seq /\ trailer' # <<>>
          /\ pc'["writer"] = "done"
      BY <2>6, Moved DEF PutTrailer, TypeInv, WriterAt
    <3> QED
      BY <2>1, <2>2, <3>1 DEF EndInv, Ended
  <2> QED
    BY <1>3, <2>3, <2>4, <2>5, <2>6 DEF WriterStep
<1>4. CASE UNCHANGED vars
  BY <1>4 DEF EndInv, Ended, Last, vars, pools, queues, output
<1> QED
  BY <1>1, <1>2, <1>3, <1>4 DEF Next, Returned

-----------------------------------------------------------------------------
(* The input spaces                                                        *)

LEMMA JobsInUse ==
    ASSUME TypeInv, ReaderInv, PlaceInv
    PROVE  /\ InUse = WithReader \cup Elements(jobQueue) \cup
                      {cur[c] : c \in {w \in Worker :
                          pc[w] \in {"deflate", "check", "drop_dict", "drop_in"}}}
           /\ InUse \subseteq 0 .. Last
           /\ WithReader \subseteq 0 .. Last
           /\ WithReader \cap Queued = {}
           /\ ~Aborted => Loaded \subseteq Queued \cup WithReader
<1>1. Last \in Int /\ Last >= -1
  BY Numbers
<1>2. InUse = WithReader \cup Elements(jobQueue) \cup
                      {cur[c] : c \in {w \in Worker :
                          pc[w] \in {"deflate", "check", "drop_dict", "drop_in"}}}
  BY DEF InUse, Elements
<1>3. WithReader \subseteq 0 .. Last
  BY <1>1 DEF WithReader
<1>4. Elements(jobQueue) \subseteq 0 .. Last
  BY InHand DEF PlaceInv
<1>5. InUse \subseteq 0 .. Last
  BY <1>2, <1>3, <1>4, InHand
<1>6. WithReader \cap Queued = {}
  BY <1>1 DEF WithReader, Queued
<1>7. ~Aborted => Loaded \subseteq Queued \cup WithReader
  <2>1. pc["reader"] \in ReaderAt
    BY DEF TypeInv, PcInv
  <2> QED
    BY <1>1, <2>1 DEF WithReader, Queued, Loaded, Aborted, ReaderAt, ReaderInv
<1> QED
  BY <1>2, <1>3, <1>5, <1>6, <1>7

LEMMA SpaceInit == Init => SpaceInv
<1> SUFFICES ASSUME Init
             PROVE  SpaceInv
  OBVIOUS
<1>1. jobQueue = <<>> /\ Last = -1 /\ pc["reader"] = "get_in"
      /\ \A c \in Worker : pc[c] \in {"get_job", "done"}
  BY DeflateAssumption DEF Init, Thread, Last
<1>2. InUse = {}
  BY <1>1 DEF InUse, WithReader
<1>3. Distinct(inList)
  BY DEF Init, Distinct
<1> QED
  BY <1>2, <1>3 DEF SpaceInv

LEMMA SpaceInvStep ==
    TypeInv /\ ReaderInv /\ PlaceInv /\ SpaceInv /\ [Next]_vars => SpaceInv'
<1> SUFFICES ASSUME TypeInv, ReaderInv, PlaceInv, SpaceInv, [Next]_vars
             PROVE  SpaceInv'
  OBVIOUS
<1> USE DEF At
<1>a. Last \in Int /\ Last >= -1
  BY Numbers
<1>b. TypeInv' /\ ReaderInv' /\ PlaceInv'
  BY TypeStep, ReaderInvStep, PlaceInvStep
<1>c. ASSUME InUse' \subseteq InUse, inList' = inList,
             \A j \in 0 .. Last : Job(j)'.in = Job(j).in
      PROVE  SpaceInv'
  BY <1>c, JobsInUse DEF SpaceInv
<1>d. /\ InUse = WithReader \cup Elements(jobQueue) \cup
                      {cur[c] : c \in {w \in Worker :
                          pc[w] \in {"deflate", "check", "drop_dict", "drop_in"}}}
      /\ InUse' = WithReader' \cup Elements(jobQueue') \cup
                      {cur'[c] : c \in {w \in Worker :
                          pc'[w] \in {"deflate", "check", "drop_dict", "drop_in"}}}
      /\ InUse \subseteq 0 .. Last
  <2>1. /\ InUse = WithReader \cup Elements(jobQueue) \cup
                      {cur[c] : c \in {w \in Worker :
                          pc[w] \in {"deflate", "check", "drop_dict", "drop_in"}}}
        /\ InUse \subseteq 0 .. Last
    BY JobsInUse
  <2>2. InUse' = WithReader' \cup Elements(jobQueue') \cup
                      {cur'[c] : c \in {w \in Worker :
                          pc'[w] \in {"deflate", "check", "drop_dict", "drop_in"}}}
    BY DEF InUse, Elements
  <2> QED
    BY <2>1, <2>2
<1>e. ASSUME NEW c \in Worker, WorkerStep(c)
      PROVE  /\ WithReader' = WithReader
             /\ \A j \in 0 .. Last : Job(j)'.in = Job(j).in
             /\ \A d \in Worker : d # c => pc'[d] = pc[d] /\ cur'[d] = cur[d]
  BY <1>e, WorkerEffects DEF WithReader
<1>1. ASSUME NEW c \in Worker, GetJob(c)
      PROVE  SpaceInv'
  <2>1. WorkerStep(c)
    BY <1>1 DEF WorkerStep
  <2>2. /\ pc'[c] = "deflate" /\ cur'[c] = Head(jobQueue) /\ inList' = inList
        /\ jobQueue' = Tail(jobQueue) /\ jobQueue # <<>>
    BY <1>1, Moved DEF GetJob, pools, TypeInv, WorkerAt
  <2>3. Elements(jobQueue) = Elements(jobQueue') \cup {Head(jobQueue)}
    BY <2>2, TailOfList DEF TypeInv
  <2>4. InUse' \subseteq InUse
    BY <1>d, <1>e, <2>1, <2>2, <2>3
  <2> QED
    BY <1>c, <1>e, <2>1, <2>2, <2>4
<1>2. ASSUME NEW c \in Worker,
             NoMoreJobs(c) \/ Deflate(c) \/ Check(c) \/ DropDict(c) \/ AddResult(c)
      PROVE  SpaceInv'
  <2>1. WorkerStep(c)
    BY <1>2 DEF WorkerStep
  <2>2. jobQueue' = jobQueue /\ inList' = inList
    BY <1>2 DEF NoMoreJobs, Deflate, Check, DropDict, AddResult, queues, pools
  <2>3. pc'[c] \in {"deflate", "check", "drop_dict", "drop_in"} =>
           pc[c] \in {"deflate", "check", "drop_dict", "drop_in"} /\ cur'[c] = cur[c]
    BY <1>2, Moved DEF NoMoreJobs, Deflate, Check, DropDict, AddResult, TypeInv, WorkerAt
  <2>4. InUse' \subseteq InUse
    BY <1>d, <1>e, <2>1, <2>2, <2>3
  <2> QED
    BY <1>c, <1>e, <2>1, <2>2, <2>4
<1>3. ASSUME NEW c \in Worker, DropIn(c)
      PROVE  SpaceInv'
  <2>1. WorkerStep(c)
    BY <1>3 DEF WorkerStep
  <2>2. /\ pc[c] = "drop_in" /\ pc'[c] = "add" /\ cur' = cur /\ jobQueue' = jobQueue
        /\ inList' = <<Job(cur[c]).in>> \o inList
    BY <1>3, Moved DEF DropIn, queues, TypeInv, WorkerAt
  <2>3. cur[c] \in InUse /\ cur[c] \in 0 .. Last
    BY <1>d, <2>2
  <2>4. InUse' \subseteq InUse
    BY <1>d, <1>e, <2>1, <2>2
  <2>5. cur[c] \notin InUse'
    <3>1. cur[c] \in Queued /\ cur[c] \notin Elements(jobQueue)
          /\ \A d \in Worker : d # c => pc[d] \notin {"deflate", "check", "drop_dict", "drop_in"}
                                      \/ cur[d] # cur[c]
      BY <2>2 DEF PlaceInv, Working
    <3>2. cur[c] \notin WithReader
      BY <3>1, JobsInUse
    <3> QED
      BY <1>d, <1>e, <2>1, <2>2, <3>1, <3>2
  <2>6. Job(cur[c]).in \in Space /\ inList \in Seq(Space)
    BY <2>3, ContentType DEF TypeInv
  <2>7. Elements(inList') = Elements(inList) \cup {Job(cur[c]).in}
    BY <2>2, <2>6, ConsOfList
  <2>8. Distinct(inList')
    BY <2>2, <2>3, <2>6, ConsOfList DEF SpaceInv
  <2>9. \A j \in InUse' : j \in InUse /\ j \in 0 .. Last /\ Job(j)'.in = Job(j).in
                          /\ Job(j).in # Job(cur[c]).in
    BY <1>d, <1>e, <2>1, <2>3, <2>4, <2>5 DEF SpaceInv
  <2> QED
    BY <2>7, <2>8, <2>9 DEF SpaceInv
<1>4. CASE WriterStep
  <2>1. UNCHANGED <<inList, jobs, jobQueue, cur>> /\ pc'["reader"] = pc["reader"]
        /\ \A c \in Worker : pc'[c] = pc[c]
    BY <1>4, WriterEffects
  <2>2. WithReader' = WithReader
    BY <2>1 DEF WithReader, Last
  <2>3. InUse' \subseteq InUse
    BY <1>d, <2>1, <2>2
  <2> QED
    BY <1>c, <2>1, <2>3 DEF Job
<1>f. ASSUME ReaderStep, Elements(jobQueue') \cup WithReader' \subseteq Elements(jobQueue) \cup WithReader
      PROVE  InUse' \subseteq InUse
  <2>1. cur' = cur /\ \A c \in Worker : pc'[c] = pc[c]
    BY <1>f, ReaderEffects
  <2> QED
    BY <1>d, <1>f, <2>1
<1>5. CASE GetIn
  <2>1. /\ jobQueue' = jobQueue /\ inList' = Tail(inList) /\ inList # <<>>
        /\ pc["reader"] = "get_in"
    BY <1>5 DEF GetIn, queues
  <2>2. Last' = Last + 1 /\ pc'["reader"] = "get_out"
        /\ (\A j \in 0 .. Last : Job(j)'.in = Job(j).in)
        /\ \A j : j = Last + 1 => Job(j)'.in = Head(inList)
    BY <1>5, GetInJobs
  <2>3. WithReader' \subseteq WithReader \cup {Last + 1}
    BY <2>1, <2>2, <1>a DEF WithReader
  <2>4. InUse' \subseteq InUse \cup {Last + 1}
    <3>1. cur' = cur /\ \A c \in Worker : pc'[c] = pc[c]
      BY <1>5, ReaderEffects DEF ReaderStep
    <3> QED
      BY <1>d, <2>1, <2>3, <3>1
  <2>5. /\ Elements(inList) = Elements(inList') \cup {Head(inList)}
        /\ Distinct(inList') /\ Head(inList) \notin Elements(inList')
    BY <2>1, TailOfList DEF TypeInv, SpaceInv
  <2>6. \A j \in InUse' : \/ j \in InUse /\ Job(j)'.in = Job(j).in
                          \/ j = Last + 1 /\ Job(j)'.in = Head(inList)
    BY <1>d, <2>2, <2>4
  <2>7. \A j \in InUse : Job(j).in # Head(inList) /\ Job(j).in \notin Elements(inList')
    BY <2>5 DEF SpaceInv
  <2>8. \A j, k \in InUse' : j # k => Job(j)'.in # Job(k)'.in
    BY <2>6, <2>7 DEF SpaceInv
  <2>9. \A j \in InUse' : Job(j)'.in \notin Elements(inList')
    BY <2>5, <2>6, <2>7
  <2> QED
    BY <2>5, <2>8, <2>9 DEF SpaceInv
<1>6. CASE GetOut \/ Load \/ AddJob \/ CloseJobs \/ Join
  <2>1. jobs' = jobs /\ inList' = inList /\ Last' = Last
    BY <1>6 DEF GetOut, Load, AddJob, CloseJobs, Join, pools, Last
  <2>2. Elements(jobQueue') \cup WithReader' \subseteq Elements(jobQueue) \cup WithReader
    <3>1. CASE AddJob
      <4>1. /\ pc["reader"] = "add" /\ pc'["reader"] = "get_in" /\ Last >= 1
            /\ jobQueue' = Append(jobQueue, Last - 1)
        BY <3>1, Moved DEF AddJob, TypeInv, ReaderAt, ReaderInv
      <4>2. Elements(jobQueue') = Elements(jobQueue) \cup {Last - 1}
        <5>1. Last - 1 \in Int /\ jobQueue \in Seq(Int)
          BY <1>a DEF TypeInv
        <5> QED
          BY <4>1, <5>1, AppendToList
      <4>3. WithReader = {Last, Last - 1} /\ WithReader' = {Last}
        BY <4>1, <2>1, <1>a DEF WithReader
      <4> QED
        BY <4>2, <4>3
    <3>2. CASE ~AddJob
      <4>1. jobQueue' = jobQueue
        BY <1>6, <3>2 DEF GetOut, Load, CloseJobs, Join, queues
      <4>2. GetOut => pc["reader"] = "get_out" /\ pc'["reader"] = "load"
        BY Moved DEF GetOut, TypeInv, ReaderAt
      <4>3. Load => pc["reader"] = "load"
        BY DEF Load
      <4>4. CloseJobs => pc'["reader"] = "join"
        BY Moved DEF CloseJobs, TypeInv, ReaderAt
      <4>5. Join => pc'["reader"] = "done"
        BY Moved DEF Join, TypeInv, ReaderAt
      <4>6. WithReader' \subseteq WithReader
        BY <1>6, <3>2, <2>1, <4>2, <4>3, <4>4, <4>5 DEF WithReader
      <4> QED
        BY <4>1, <4>6
    <3> QED
      BY <3>1, <3>2
  <2> QED
    BY <1>6, <1>c, <1>f, <2>1, <2>2 DEF ReaderStep, Job
<1>7. CASE SetDictionary
  <2>1. jobQueue' = jobQueue /\ inList' = inList /\ pc["reader"] = "dict"
    BY <1>7 DEF SetDictionary, queues
  <2>2. WithReader' \subseteq WithReader
    BY <1>7, <2>1, SetDictionaryJobs DEF WithReader
  <2> QED
    BY <1>7, <1>c, <1>f, <2>1, <2>2, SetDictionaryJobs DEF ReaderStep
<1>8. CASE EndOfInput
  <2>1. /\ inList' = inList /\ pc["reader"] = "eof" /\ pc'["reader"] = "close"
        /\ Last' = Last /\ Last >= 0
    BY <1>8, EndOfInputJobs DEF EndOfInput
  <2>2. Elements(jobQueue') \subseteq Elements(jobQueue) \cup WithReader
    <3>1. CASE Last = 0
      BY <3>1, <1>8, EndOfInputJobs
    <3>2. CASE Last # 0
      <4>1. jobQueue' = Append(jobQueue, Last - 1)
        BY <1>8, <3>2, EndOfInputJobs
      <4>2. Elements(jobQueue') = Elements(jobQueue) \cup {Last - 1}
        <5>1. Last - 1 \in Int /\ jobQueue \in Seq(Int)
          BY <1>a DEF TypeInv
        <5> QED
          BY <4>1, <5>1, AppendToList
      <4>3. Last - 1 \in WithReader
        BY <2>1, <3>2, <1>a DEF WithReader
      <4> QED
        BY <4>2, <4>3
    <3> QED
      BY <3>1, <3>2
  <2>3. WithReader' = {}
    BY <2>1 DEF WithReader
  <2> QED
    BY <1>8, <1>c, <1>f, <2>1, <2>2, <2>3, EndOfInputJobs DEF ReaderStep
<1>9. CASE UNCHANGED vars
  BY <1>9, <1>c, <1>d DEF vars, pools, queues, output, WithReader, Last, Job
<1> QED
  BY <1>1, <1>2, <1>3, <1>4, <1>5, <1>6, <1>7, <1>8, <1>9
     DEF Next, ReaderStep, WorkerStep, Returned

-----------------------------------------------------------------------------
(* The input of a job stays what it is                                     *)

LEMMA ContentKept ==
    ASSUME TypeInv, ReaderInv, PlaceInv, SpaceInv, [Next]_vars,
           NEW j \in InUse, ~(Load /\ j = Last),
           \A c \in Worker : DropIn(c) => cur[c] # j
    PROVE  Content(j)' = Content(j)
<1> USE DEF At
<1>a. Last \in Int /\ j \in 0 .. Last /\ InUse \subseteq 0 .. Last
  BY Numbers, JobsInUse
<1>b. ASSUME UNCHANGED <<data, len>>, Job(j)'.in = Job(j).in
      PROVE  Content(j)' = Content(j)
  BY <1>b DEF Content
<1>c. Job(j).in \in Space
  BY <1>a, ContentType
<1>d. DOMAIN data = Space /\ DOMAIN len = Space
  BY DEF TypeInv
<1>1. ASSUME NEW c \in Worker,
             GetJob(c) \/ NoMoreJobs(c) \/ Deflate(c) \/ Check(c) \/ DropDict(c) \/ AddResult(c)
      PROVE  Content(j)' = Content(j)
  <2>1. Job(j)'.in = Job(j).in
    BY <1>1, <1>a, WorkerEffects DEF WorkerStep
  <2>2. UNCHANGED <<data, len>>
    BY <1>1 DEF GetJob, NoMoreJobs, Deflate, Check, DropDict, AddResult, pools
  <2> QED
    BY <1>b, <2>1, <2>2
<1>2. ASSUME NEW c \in Worker, DropIn(c)
      PROVE  Content(j)' = Content(j)
  <2>1. Job(j)'.in = Job(j).in
    BY <1>2, <1>a, WorkerEffects DEF WorkerStep
  <2>2. data' = data /\ len' = [len EXCEPT ![Job(cur[c]).in] = 0]
    BY <1>2 DEF DropIn
  <2>3. cur[c] \in InUse
    BY <1>2, JobsInUse DEF DropIn
  <2>4. Job(j).in # Job(cur[c]).in
    BY <1>2, <2>3 DEF SpaceInv
  <2>5. len'[Job(j).in] = len[Job(j).in]
    BY <1>c, <1>d, <2>2, <2>4
  <2> QED
    BY <2>1, <2>2, <2>5 DEF Content
<1>3. CASE WriterStep
  BY <1>3, <1>b, WriterEffects DEF Job
<1>4. CASE GetIn
  <2>1. Job(j)'.in = Job(j).in
    BY <1>4, <1>a, GetInJobs
  <2>2. data' = data /\ len' = [len EXCEPT ![Head(inList)] = 0] /\ inList # <<>>
    BY <1>4 DEF GetIn
  <2>3. Head(inList) \in Elements(inList)
    BY <2>2, TailOfList DEF TypeInv
  <2>4. Job(j).in # Head(inList)
    BY <2>3 DEF SpaceInv
  <2>5. len'[Job(j).in] = len[Job(j).in]
    BY <1>c, <1>d, <2>2, <2>4
  <2> QED
    BY <2>1, <2>2, <2>5 DEF Content
<1>5. CASE Load
  <2>1. jobs' = jobs /\ pc["reader"] = "load"
    BY <1>5 DEF Load
  <2>2. PICK k \in 0 .. Least(BlockSize, call.len - offset) :
          /\ len' = [len EXCEPT ![Job(Last).in] = k]
          /\ data' = IF k = 0 THEN data
                     ELSE [data EXCEPT ![Job(Last).in] = [from |-> offset, len |-> k]]
    BY <1>5 DEF Load
  <2>3. Last \in InUse
    BY <2>1, <1>a, JobsInUse DEF WithReader
  <2>4. Job(j).in # Job(Last).in
    BY <1>5, <2>3 DEF SpaceInv
  <2>5. len'[Job(j).in] = len[Job(j).in] /\ data'[Job(j).in] = data[Job(j).in]
    BY <1>c, <1>d, <2>2, <2>4
  <2> QED
    BY <2>1, <2>5 DEF Content, Job
<1>6. CASE GetOut \/ AddJob \/ CloseJobs \/ Join
  BY <1>6, <1>b DEF GetOut, AddJob, CloseJobs, Join, pools, Job
<1>7. CASE SetDictionary
  BY <1>7, <1>a, <1>b, SetDictionaryJobs DEF SetDictionary
<1>8. CASE EndOfInput
  BY <1>8, <1>a, <1>b, EndOfInputJobs
<1>9. CASE UNCHANGED vars
  BY <1>9, <1>b DEF vars, pools, Job
<1> QED
  BY <1>1, <1>2, <1>3, <1>4, <1>5, <1>6, <1>7, <1>8, <1>9
     DEF Next, ReaderStep, WorkerStep, Returned

(* What Deflate writes to the job, and that nothing changes it              *)
LEMMA DeflateJobs ==
    ASSUME TypeInv, ReaderInv, PlaceInv, NEW c \in Worker, Deflate(c)
    PROVE  /\ cur[c] \in 0 .. Last /\ cur[c] \in Queued
           /\ pc[c] = "deflate" /\ pc'[c] = "check"
           /\ \A j : j = cur[c] =>
                /\ Len(Job(j)'.out) = 1
                /\ Job(j)'.out # <<>>
                /\ Job(j)'.out[1].data = Content(j)
                /\ Job(j)'.out[1].dict = Job(j).dict
                /\ Job(j)'.out[1].final = ~Job(j).more
                /\ Job(j)'.out[1].whole \in Fits
<1>1. cur[c] \in 0 .. Last /\ cur[c] \in Queued
  BY InHand DEF Deflate, At, PlaceInv, Working
<1>2. PICK fits \in Fits :
            Update(cur[c], "out", <<[data  |-> Content(cur[c]),
                                     dict  |-> Job(cur[c]).dict,
                                     final |-> ~Job(cur[c]).more,
                                     whole |-> fits]>>)
  BY DEF Deflate
<1> DEFINE b == [data  |-> Content(cur[c]), dict  |-> Job(cur[c]).dict,
                 final |-> ~Job(cur[c]).more, whole |-> fits]
           r == [Job(cur[c]) EXCEPT !.out = <<b>>]
<1>3. Job(cur[c]) \in JobRecord /\ Content(cur[c]) \in Interval
  BY <1>1, Numbers, ContentType
<1>4. b \in Block
  BY <1>3, DeflateAssumption DEF Block, JobRecord
<1>5. <<b>> \in Seq(Block)
  BY <1>4
<1>6. r \in JobRecord /\ r.out = <<b>>
  BY <1>3, <1>5 DEF JobRecord
<1>7. jobs' = [jobs EXCEPT ![cur[c] + 1] = r]
  BY <1>2, <1>5, <1>1, Updated
<1>8. \A j : j = cur[c] => Job(j)' = r
  BY <1>6, <1>7, <1>1, ChangedJob
<1>9. <<b>> # <<>> /\ Len(<<b>>) = 1 /\ <<b>>[1] = b
  OBVIOUS
<1>10. pc[c] = "deflate" /\ pc'[c] = "check"
  BY Moved DEF Deflate, At, TypeInv, WorkerAt
<1>11. /\ b.data = Content(cur[c]) /\ b.dict = Job(cur[c]).dict
       /\ b.final = ~Job(cur[c]).more /\ b.whole \in Fits
  OBVIOUS
<1> HIDE DEF r, b
<1>12. \A j : j = cur[c] => Job(j)'.out = <<b>>
  BY <1>6, <1>8
<1>13. ASSUME NEW j, j = cur[c]
       PROVE  /\ Len(Job(j)'.out) = 1
              /\ Job(j)'.out # <<>>
              /\ Job(j)'.out[1] = b
  BY <1>9, <1>12, <1>13
<1> QED
  BY <1>1, <1>10, <1>11, <1>13

LEMMA OutKept ==
    ASSUME TypeInv, ReaderInv, PlaceInv, CompressedInv, [Next]_vars,
           NEW j \in 0 .. Last,
           \A c \in Worker : Deflate(c) => cur[c] # j
    PROVE  Job(j)'.out = Job(j).out
<1>1. ASSUME NEW c \in Worker, WorkerStep(c)
      PROVE  Job(j)'.out = Job(j).out
  <2>1. pc[c] # "deflate" => Job(j)'.out = Job(j).out
    BY <1>1, WorkerEffects
  <2>2. pc[c] = "deflate" => Deflate(c)
    BY <1>1 DEF WorkerStep, GetJob, NoMoreJobs, Check, DropDict, DropIn, AddResult, At
  <2> QED
    BY <1>1, <2>1, <2>2, WorkerEffects
<1>2. CASE WriterStep
  BY <1>2, WriterEffects DEF Job
<1>3. CASE GetIn
  BY <1>3, GetInJobs
<1>4. CASE GetOut \/ Load \/ AddJob \/ CloseJobs \/ Join \/ UNCHANGED vars
  <2>1. jobs' = jobs
    BY <1>4 DEF GetOut, Load, AddJob, CloseJobs, Join, vars
  <2> QED
    BY <2>1 DEF Job
<1>5. CASE SetDictionary
  BY <1>5, SetDictionaryJobs
<1>6. CASE EndOfInput
  BY <1>6, EndOfInputJobs
<1> QED
  BY <1>1, <1>2, <1>3, <1>4, <1>5, <1>6 DEF Next, ReaderStep, Returned

LEMMA InputKept ==
    ASSUME TypeInv, ReaderInv, PlaceInv, SpaceInv, CompressedInv, [Next]_vars,
           NEW j \in Loaded
    PROVE  /\ Input(j)' = Input(j)
           /\ Job(j).out # <<>> => Job(j)'.out = Job(j).out
<1> USE DEF At
<1>a. Last \in Int /\ Last >= -1 /\ j \in 0 .. Last
  BY Numbers DEF Loaded
<1>1. CASE Job(j).out # <<>>
  <2>1. \A c \in Worker : Deflate(c) => cur[c] # j
    BY <1>1 DEF CompressedInv, Deflate, Working
  <2>2. Job(j)'.out = Job(j).out
    BY <1>a, <2>1, OutKept
  <2> QED
    BY <1>1, <2>2 DEF Input
<1>2. CASE Job(j).out = <<>> /\ Aborted
  <2>1. UNCHANGED vars
    BY <1>2 DEF Next, ReaderStep, WorkerStep, WriterStep, Returned, GetIn, GetOut, Load,
           SetDictionary, AddJob, EndOfInput, CloseJobs, Join, GetJob, NoMoreJobs,
           Deflate, Check, DropDict, DropIn, AddResult, FetchJob, FetchNull, AddLength,
           WriteOut, Combine, FreeJob, PutTrailer
  <2> QED
    BY <1>2, <2>1 DEF vars, pools, Input, Content, Job
<1>3. CASE Job(j).out = <<>> /\ ~Aborted
  <2>1. j \in InUse
    <3>1. j \in Queued => j \in Elements(jobQueue)
                         \/ \E c \in Worker : pc[c] = "deflate" /\ cur[c] = j
      BY <1>3 DEF PlaceInv, CompressedInv, Working
    <3>2. j \in Queued \/ j \in WithReader
      BY <1>3, JobsInUse
    <3> QED
      BY <3>1, <3>2, JobsInUse
  <2>2. \A c \in Worker : DropIn(c) => cur[c] # j
    BY <1>3 DEF DropIn, CompressedInv, Working
  <2>3. ~(Load /\ j = Last)
    BY <1>a DEF Load, Loaded
  <2>4. Content(j)' = Content(j)
    BY <2>1, <2>2, <2>3, ContentKept
  <2>5. ASSUME NEW c \in Worker, Deflate(c), cur[c] = j
        PROVE  Input(j)' = Input(j)
    BY <1>3, <2>5, DeflateJobs DEF Input
  <2>6. CASE \A c \in Worker : Deflate(c) => cur[c] # j
    <3>1. Job(j)'.out = Job(j).out
      BY <1>a, <2>6, OutKept
    <3> QED
      BY <1>3, <2>4, <3>1 DEF Input
  <2> QED
    BY <1>3, <2>5, <2>6
<1> QED
  BY <1>1, <1>2, <1>3

-----------------------------------------------------------------------------
(* The compressed blocks of the jobs                                       *)

LEMMA CompressedInit == Init => CompressedInv
<1> SUFFICES ASSUME Init
             PROVE  CompressedInv
  OBVIOUS
<1>1. Last = -1 /\ Elements(jobQueue) = {} /\ writeQueue = {}
  BY DEF Init, Last, Elements
<1>2. pc["writer"] = "get_job" /\ seq = 0 /\ Working = {}
  BY DeflateAssumption DEF Init, Thread, Working
<1>3. Taken = {}
  BY <1>2 DEF Taken
<1> QED
  BY <1>1, <1>2, <1>3 DEF CompressedInv

(* The first part of CompressedInv, of one job                              *)
OutIs(j) == \/ Job(j).out = <<>>
            \/ /\ Len(Job(j).out) = 1
               /\ Job(j).out[1].dict = Job(j).dict
               /\ Job(j).out[1].final = ~Job(j).more
               /\ Job(j).out[1].whole \in Fits
               /\ j \in Queued

LEMMA OutIsStep ==
    ASSUME TypeInv, ReaderInv, PlaceInv, CompressedInv, [Next]_vars
    PROVE  \A j \in 0 .. Last' : OutIs(j)'
<1> USE DEF At
<1>a. Last \in Int /\ Last >= -1 /\ Queued \subseteq 0 .. Last
  BY Numbers, InHand
<1>b. \A j \in 0 .. Last : OutIs(j)
  BY DEF CompressedInv, OutIs
<1>c. ASSUME NEW j \in 0 .. Last, Queued \subseteq Queued',
             Job(j)'.out = Job(j).out,
             j \in Queued => Job(j)'.dict = Job(j).dict /\ Job(j)'.more = Job(j).more
      PROVE  OutIs(j)'
  BY <1>b, <1>c DEF OutIs
<1>1. ASSUME NEW c \in Worker, WorkerStep(c)
      PROVE  \A j \in 0 .. Last' : OutIs(j)'
  <2>1. Queued' = Queued /\ Last' = Last
    BY <1>1, WorkerEffects DEF Queued
  <2>2. ASSUME NEW j \in 0 .. Last, ~Deflate(c) \/ cur[c] # j
        PROVE  OutIs(j)'
    <3>1. pc[c] = "deflate" => Deflate(c)
      BY <1>1 DEF WorkerStep, GetJob, NoMoreJobs, Check, DropDict, DropIn, AddResult
    <3> QED
      BY <1>1, <1>c, <2>1, <2>2, <3>1, WorkerEffects
  <2>3. ASSUME NEW j \in 0 .. Last, Deflate(c), cur[c] = j
        PROVE  OutIs(j)'
    <3>1. Job(j)'.more = Job(j).more /\ Job(j)'.dict = Job(j).dict
      BY <1>1, WorkerEffects
    <3>2. /\ j \in Queued
          /\ Len(Job(j)'.out) = 1
          /\ Job(j)'.out[1].dict = Job(j).dict
          /\ Job(j)'.out[1].final = ~Job(j).more
          /\ Job(j)'.out[1].whole \in Fits
      BY <2>3, DeflateJobs
    <3> QED
      BY <2>1, <3>1, <3>2 DEF OutIs
  <2> QED
    BY <2>1, <2>2, <2>3
<1>2. CASE WriterStep
  <2>1. jobs' = jobs /\ pc'["reader"] = pc["reader"]
    BY <1>2, WriterEffects
  <2> QED
    BY <1>b, <2>1 DEF OutIs, Job, Queued, Last
<1>d. PlaceInv'
  BY PlaceInvStep
<1>e. ReaderStep => Queued \subseteq Queued'
  <2>1. ASSUME ReaderStep
        PROVE  /\ writeQueue' = writeQueue /\ Taken' = Taken /\ Working' = Working
               /\ cur' = cur
    BY <2>1, ReaderEffects DEF Taken, Working
  <2>2. ReaderStep => Elements(jobQueue) \subseteq Elements(jobQueue')
    <3>1. CASE AddJob
      <4>1. jobQueue' = Append(jobQueue, Last - 1) /\ Last - 1 \in Int /\ jobQueue \in Seq(Int)
        BY <3>1, <1>a DEF AddJob, TypeInv
      <4> QED
        BY <4>1, AppendToList
    <3>2. CASE EndOfInput
      <4>1. Last - 1 \in Int /\ jobQueue \in Seq(Int)
        BY <1>a DEF TypeInv
      <4>2. jobQueue' = jobQueue \/ jobQueue' = Append(jobQueue, Last - 1)
        BY <3>2, EndOfInputJobs
      <4>3. Elements(jobQueue) \subseteq Elements(Append(jobQueue, Last - 1))
        BY <4>1, AppendToList
      <4> QED
        BY <4>2, <4>3
    <3>3. CASE ReaderStep /\ ~AddJob /\ ~EndOfInput
      BY <3>3 DEF ReaderStep, GetIn, GetOut, Load, SetDictionary, CloseJobs, Join, queues
    <3> QED
      BY <3>1, <3>2, <3>3
  <2> QED
    BY <1>d, <2>1, <2>2 DEF PlaceInv
<1>3. CASE GetIn
  <2>1. \A j \in 0 .. Last : OutIs(j)'
    BY <1>3, <1>c, <1>e, GetInJobs DEF ReaderStep
  <2>2. Last' = Last + 1 /\ \A j : j = Last + 1 => OutIs(j)'
    BY <1>3, GetInJobs DEF OutIs
  <2>3. \A j \in 0 .. Last + 1 : j \in 0 .. Last \/ j = Last + 1
    BY <1>a
  <2> QED
    BY <2>1, <2>2, <2>3
<1>4. CASE GetOut \/ Load \/ AddJob \/ CloseJobs \/ Join
  <2>1. jobs' = jobs /\ ReaderStep
    BY <1>4 DEF GetOut, Load, AddJob, CloseJobs, Join, ReaderStep
  <2> QED
    BY <1>c, <1>e, <2>1 DEF Job, Last
<1>5. CASE SetDictionary
  <2>1. Last \notin Queued
    BY <1>5, <1>a DEF SetDictionary, Queued
  <2> QED
    BY <1>5, <1>c, <1>e, <2>1, SetDictionaryJobs DEF ReaderStep
<1>6. CASE EndOfInput
  <2>1. Last - 1 \notin Queued
    BY <1>6, <1>a DEF EndOfInput, Queued
  <2> QED
    BY <1>6, <1>c, <1>e, <2>1, EndOfInputJobs DEF ReaderStep
<1>7. CASE UNCHANGED vars
  BY <1>7, <1>b DEF vars, OutIs, Job, Queued, Last
<1> QED
  BY <1>1, <1>2, <1>3, <1>4, <1>5, <1>6, <1>7 DEF Next, ReaderStep, Returned

LEMMA CompressedInvStep ==
    TypeInv /\ ReaderInv /\ PlaceInv /\ SpaceInv /\ CompressedInv /\ [Next]_vars
       => CompressedInv'
<1> SUFFICES ASSUME TypeInv, ReaderInv, PlaceInv, SpaceInv, CompressedInv, [Next]_vars
             PROVE  CompressedInv'
  OBVIOUS
<1> USE DEF At
<1>a. Last \in Int /\ Last >= -1 /\ Queued \subseteq 0 .. Last
      /\ pc["reader"] \in ReaderAt
  BY Numbers, InHand DEF TypeInv, PcInv
<1>b. \A j \in 0 .. Last' : OutIs(j)'
  BY OutIsStep
<1>c. ASSUME \A j \in writeQueue' \cup Taken' : Job(j)'.out # <<>>,
             \A c \in Working' :
                /\ pc'[c] # "deflate" => Job(cur[c])'.out # <<>>
                /\ pc'[c] = "deflate" => Job(cur[c])'.out = <<>>
                /\ pc'[c] \in {"check", "drop_dict"}
                      => Content(cur[c])' = Job(cur[c])'.out[1].data,
             \A j \in Elements(jobQueue') : Job(j)'.out = <<>>
      PROVE  CompressedInv'
  BY <1>b, <1>c DEF CompressedInv, OutIs
<1>d. \A j \in Queued : j \in 0 .. Last
  BY <1>a
<1>e. ASSUME NEW c \in Worker, pc[c] \in {"deflate", "check", "drop_dict"}, NEW j, j = cur[c]
      PROVE  Content(j)' = Content(j)
  <2>1. j \in InUse /\ j \in 0 .. Last /\ j \in Queued
    BY <1>d, <1>e, JobsInUse DEF Working, PlaceInv
  <2>2. Load => j # Last
    BY <2>1, <1>a DEF Load, Queued
  <2>3. \A d \in Worker : DropIn(d) => cur[d] # j
    BY <1>e DEF DropIn, PlaceInv, Working
  <2> QED
    BY <2>1, <2>2, <2>3, ContentKept
<1>f. \A j \in 0 .. Last : Job(j).out # <<>> => Job(j)'.out = Job(j).out
  <2>1. ASSUME NEW j \in 0 .. Last, Job(j).out # <<>>
        PROVE  \A c \in Worker : Deflate(c) => cur[c] # j
    BY <2>1 DEF CompressedInv, Deflate, Working
  <2> QED
    BY <2>1, OutKept
<1>g. \A j \in Elements(jobQueue) : j \in 0 .. Last /\ Job(j)'.out = <<>>
  <2>1. ASSUME NEW j \in Elements(jobQueue)
        PROVE  j \in 0 .. Last /\ \A c \in Worker : Deflate(c) => cur[c] # j
    BY <1>d DEF PlaceInv, Deflate, Working
  <2> QED
    BY <2>1, OutKept DEF CompressedInv
<1>1. CASE ReaderStep \/ WriterStep
  <2>1. /\ cur' = cur /\ Working' = Working /\ \A c \in Worker : pc'[c] = pc[c]
    BY <1>1, ReaderEffects, WriterEffects DEF Working
  <2>2. \A c \in Worker : ~Deflate(c) /\ ~DropIn(c)
    <3>1. \A c \in Worker : Deflate(c) => pc'[c] # pc[c]
      BY DeflateJobs
    <3>2. \A c \in Worker : DropIn(c) => pc[c] = "drop_in" /\ pc'[c] = "add"
      BY Moved DEF DropIn, TypeInv, WorkerAt
    <3> QED
      BY <2>1, <3>1, <3>2
  <2>3. \A j \in 0 .. Last : Job(j)'.out = Job(j).out
    BY <2>2, OutKept
  <2>4. ASSUME NEW c \in Working, pc[c] \in {"check", "drop_dict"}
        PROVE  Content(cur[c])' = Job(cur[c])'.out[1].data
    <3>1. cur[c] \in 0 .. Last
      BY <1>d DEF PlaceInv
    <3>2. ASSUME NEW j, j = cur[c]
          PROVE  Content(j)' = Job(j)'.out[1].data
      BY <1>e, <2>3, <2>4, <3>1, <3>2 DEF CompressedInv, Working
    <3> QED
      BY <2>1, <3>2
  <2>5. \A j \in writeQueue' \cup Taken' : j \in writeQueue \cup Taken
    <3>1. CASE ReaderStep
      BY <3>1, ReaderEffects DEF Taken
    <3>2. CASE WriterStep
      <4>1. PlaceInv' /\ Queued' = Queued /\ jobQueue' = jobQueue
        BY <3>2, PlaceInvStep, WriterEffects DEF Queued, Last
      <4> QED
        BY <2>1, <4>1 DEF PlaceInv
    <3> QED
      BY <1>1, <3>1, <3>2
  <2>6. \A j \in Elements(jobQueue') : j \in 0 .. Last /\ Job(j).out = <<>>
    <3>1. \A j \in Elements(jobQueue) : j \in 0 .. Last /\ Job(j).out = <<>>
      BY <1>d DEF PlaceInv, CompressedInv
    <3>2. CASE AddJob
      <4>1. pc["reader"] = "add" /\ Last >= 1 /\ jobQueue' = Append(jobQueue, Last - 1)
        BY <3>2 DEF AddJob, ReaderInv
      <4>2. Last - 1 \in Int /\ jobQueue \in Seq(Int)
        BY <1>a DEF TypeInv
      <4>3. Elements(jobQueue') = Elements(jobQueue) \cup {Last - 1}
        BY <4>1, <4>2, AppendToList
      <4>4. Last - 1 \in 0 .. Last /\ Last - 1 \notin Queued
        BY <4>1, <1>a DEF Queued
      <4> QED
        BY <3>1, <4>3, <4>4 DEF CompressedInv
    <3>3. CASE EndOfInput
      <4>1. pc["reader"] = "eof" /\ Last >= 0
        BY <3>3 DEF EndOfInput, ReaderInv
      <4>2. CASE Last = 0
        BY <3>1, <3>3, <4>2, EndOfInputJobs
      <4>3. CASE Last # 0
        <5>1. Last - 1 \in Int /\ jobQueue \in Seq(Int)
          BY <1>a DEF TypeInv
        <5>4. jobQueue' = Append(jobQueue, Last - 1)
          BY <3>3, <4>3, EndOfInputJobs
        <5>2. Elements(jobQueue') = Elements(jobQueue) \cup {Last - 1}
          BY <5>1, <5>4, AppendToList
        <5>3. Last - 1 \in 0 .. Last /\ Last - 1 \notin Queued
          BY <4>1, <4>3, <1>a DEF Queued
        <5> QED
          BY <3>1, <5>2, <5>3 DEF CompressedInv
      <4> QED
        BY <4>2, <4>3
    <3>4. CASE ~AddJob /\ ~EndOfInput
      <4>1. jobQueue' = jobQueue
        BY <1>1, <3>4, WriterEffects DEF ReaderStep, GetIn, GetOut, Load, SetDictionary,
                                         CloseJobs, Join, queues
      <4> QED
        BY <3>1, <4>1
    <3> QED
      BY <3>2, <3>3, <3>4
  <2>7. \A c \in Working : cur[c] \in 0 .. Last /\ cur'[c] = cur[c] /\ pc'[c] = pc[c]
    BY <1>d, <2>1 DEF PlaceInv, Working
  <2>8. \A j \in writeQueue \cup Taken : j \in 0 .. Last
    BY <1>d DEF PlaceInv
  <2>9. \A c \in Working : Job(cur[c])'.out = Job(cur[c]).out
    <3>1. ASSUME NEW c \in Working, NEW j, j = cur[c]
          PROVE  Job(j)'.out = Job(j).out
      BY <2>3, <2>7, <3>1
    <3> QED
      BY <2>1, <3>1
  <2>10. \A c \in Working : /\ pc[c] # "deflate" => Job(cur[c]).out # <<>>
                            /\ pc[c] = "deflate" => Job(cur[c]).out = <<>>
    BY DEF CompressedInv
  <2>11. \A j \in writeQueue' \cup Taken' : Job(j)'.out # <<>>
    BY <2>3, <2>5, <2>8 DEF CompressedInv
  <2>12. \A j \in Elements(jobQueue') : Job(j)'.out = <<>>
    BY <2>3, <2>6
  <2> QED
    BY <1>c, <2>1, <2>4, <2>7, <2>9, <2>10, <2>11, <2>12

<1>2. ASSUME NEW c \in Worker, WorkerStep(c)
      PROVE  CompressedInv'
  <2>1. /\ Last' = Last /\ Taken' = Taken
        /\ \A d \in Worker : d # c => pc'[d] = pc[d] /\ cur'[d] = cur[d]
    BY <1>2, WorkerEffects DEF Taken
  <2>2. ASSUME NEW d \in Working', d # c
        PROVE  /\ pc'[d] # "deflate" => Job(cur[d])'.out # <<>>
               /\ pc'[d] = "deflate" => Job(cur[d])'.out = <<>>
               /\ pc'[d] \in {"check", "drop_dict"}
                     => Content(cur[d])' = Job(cur[d])'.out[1].data
    <3>1. pc'[d] = pc[d] /\ cur'[d] = cur[d] /\ d \in Working /\ d \in Worker
          /\ cur[d] \in 0 .. Last
      BY <1>d, <2>1, <2>2 DEF Working, PlaceInv
    <3>2. ASSUME NEW j, j = cur[d]
          PROVE  /\ pc[d] # "deflate" => Job(j)'.out # <<>>
                 /\ pc[d] = "deflate" => Job(j)'.out = <<>>
                 /\ pc[d] \in {"check", "drop_dict"} => Content(j)' = Job(j)'.out[1].data
      <4>1. pc[d] # "deflate" => Job(j).out # <<>> /\ Job(j)'.out = Job(j).out
        BY <1>f, <3>1, <3>2 DEF CompressedInv
      <4>2. pc[d] \in {"check", "drop_dict"} => Content(j)' = Content(j)
                                               /\ Content(j) = Job(j).out[1].data
        BY <1>e, <3>1, <3>2 DEF CompressedInv
      <4>3. ASSUME pc[d] = "deflate"
            PROVE  Job(j)'.out = <<>>
        <5>1. \A e \in Worker : Deflate(e) => pc[e] = "deflate" /\ pc'[e] = "check"
          BY DeflateJobs
        <5>2. \A e \in Worker : Deflate(e) => cur[e] # j
          BY <3>1, <3>2, <4>3, <5>1 DEF PlaceInv, Working
        <5>3. Job(j)'.out = Job(j).out
          BY <3>1, <3>2, <5>2, OutKept
        <5> QED
          BY <3>1, <3>2, <4>3, <5>3 DEF CompressedInv
      <4> QED
        BY <4>1, <4>2, <4>3
    <3> QED
      BY <3>1, <3>2
  <2>3. \A j \in writeQueue \cup Taken : Job(j)'.out # <<>>
    BY <1>d, <1>f DEF PlaceInv, CompressedInv
  <2>4. CASE GetJob(c)
    <3>1. /\ pc'[c] = "deflate" /\ cur'[c] = Head(jobQueue) /\ writeQueue' = writeQueue
          /\ jobQueue' = Tail(jobQueue) /\ jobQueue # <<>>
      BY <2>4, Moved DEF GetJob, TypeInv, WorkerAt
    <3>2. Elements(jobQueue') \subseteq Elements(jobQueue) /\ Head(jobQueue) \in Elements(jobQueue)
      BY <3>1, TailOfList DEF TypeInv
    <3>3. Job(cur[c])'.out = <<>>
      BY <1>g, <3>1, <3>2
    <3> QED
      BY <1>c, <1>g, <2>1, <2>2, <2>3, <3>1, <3>2, <3>3
  <2>5. CASE Deflate(c)
    <3>1. /\ pc[c] = "deflate" /\ pc'[c] = "check" /\ cur' = cur
          /\ writeQueue' = writeQueue /\ jobQueue' = jobQueue
      BY <2>5, DeflateJobs DEF Deflate, queues
    <3>2. ASSUME NEW j, j = cur[c]
          PROVE  Job(j)'.out # <<>> /\ Content(j)' = Job(j)'.out[1].data
      BY <1>e, <2>5, <3>1, <3>2, DeflateJobs
    <3> QED
      BY <1>c, <1>g, <2>1, <2>2, <2>3, <3>1, <3>2
  <2>6. CASE NoMoreJobs(c) \/ AddResult(c)
    <3>1. c \notin Working' /\ jobQueue' = jobQueue
      BY <2>6, Moved DEF NoMoreJobs, AddResult, queues, Working, TypeInv, WorkerAt
    <3>2. \A j \in writeQueue' \cup Taken' : Job(j)'.out # <<>>
      <4>1. CASE NoMoreJobs(c)
        BY <2>1, <2>3, <4>1 DEF NoMoreJobs, queues
      <4>2. CASE AddResult(c)
        <5>1. writeQueue' = writeQueue \cup {cur[c]} /\ pc[c] = "add" /\ c \in Working
          BY <4>2 DEF AddResult, Working
        <5>2. \A j : j = cur[c] => Job(j)'.out # <<>>
          BY <1>d, <1>f, <5>1 DEF PlaceInv, CompressedInv
        <5> QED
          BY <2>1, <2>3, <5>1, <5>2
      <4> QED
        BY <2>6, <4>1, <4>2
    <3> QED
      BY <1>c, <1>g, <2>2, <3>1, <3>2
  <2>7. CASE Check(c) \/ DropDict(c) \/ DropIn(c)
    <3>1. /\ pc[c] \in {"check", "drop_dict", "drop_in"} /\ cur' = cur
          /\ writeQueue' = writeQueue /\ jobQueue' = jobQueue
          /\ pc'[c] # "deflate" /\ c \in Working
          /\ pc'[c] \in {"check", "drop_dict"} => pc[c] = "check"
      BY <2>7, Moved DEF Check, DropDict, DropIn, queues, Working, TypeInv, WorkerAt
    <3>2. ASSUME NEW j, j = cur[c]
          PROVE  /\ Job(j)'.out # <<>>
                 /\ pc[c] = "check" => Content(j)' = Job(j)'.out[1].data
      <4>1. Job(j).out # <<>> /\ Job(j)'.out = Job(j).out
        BY <1>d, <1>f, <3>1, <3>2 DEF PlaceInv, CompressedInv
      <4>2. pc[c] = "check" => Content(j)' = Content(j) /\ Content(j) = Job(j).out[1].data
        BY <1>e, <3>1, <3>2 DEF CompressedInv
      <4> QED
        BY <4>1, <4>2
    <3> QED
      BY <1>c, <1>g, <2>1, <2>2, <2>3, <3>1, <3>2
  <2> QED
    BY <1>2, <2>4, <2>5, <2>6, <2>7 DEF WorkerStep
<1>3. CASE UNCHANGED vars
  BY <1>3 DEF vars, pools, queues, output, CompressedInv, Job, Content, Queued, Taken,
              Working, Last
<1> QED
  BY <1>1, <1>2, <1>3 DEF Next, Returned

-----------------------------------------------------------------------------
(* The input is cut without a gap                                          *)

LEMMA JoinInit == Init => JoinInv
<1> SUFFICES ASSUME Init
             PROVE  JoinInv
  OBVIOUS
<1>1. Last = -1 /\ offset = 0 /\ pc["reader"] = "get_in"
  BY DeflateAssumption DEF Init, Last, Thread
<1>2. Loaded = {}
  BY <1>1 DEF Loaded
<1> QED
  BY <1>1, <1>2 DEF JoinInv

LEMMA InputType ==
    ASSUME TypeInv, CompressedInv, NEW j \in 0 .. Last
    PROVE  Input(j) \in Interval /\ Input(j).from \in Int /\ Input(j).len \in Nat
<1>1. Content(j) \in Interval /\ Job(j) \in JobRecord
  BY ContentType, Numbers
<1>2. ASSUME Job(j).out # <<>>
      PROVE  Job(j).out[1] \in Block
  <2>1. Job(j).out \in Seq(Block)
    BY <1>1 DEF JobRecord
  <2>2. 1 \in 1 .. Len(Job(j).out)
    BY <1>2 DEF CompressedInv
  <2> QED
    BY <2>1, <2>2, ElementOfSeq
<1>3. Input(j) \in Interval
  BY <1>1, <1>2 DEF Input, Block
<1> QED
  BY <1>3 DEF Interval

(* The parts of JoinInv about one loaded job                               *)
InputIs(j) == /\ Input(j).len \in 1 .. BlockSize
              /\ End(j) <= offset
              /\ End(j) = offset <=> j + 1 \notin Loaded
              /\ IF j = 0 THEN Input(j).from = 0
                          ELSE Input(j).from = End(j - 1) /\ Input(j).from > 0
DictIs(j) == \/ j = Last /\ pc["reader"] \in {"dict", "aborted"}
             \/ Job(j).dict = IF call.independent \/ j = 0 THEN NoData
                              ELSE [from |-> Input(j).from - Dict, len |-> Dict]

LEMMA JoinParts ==
    JoinInv <=>
      /\ Loaded = {} => offset = 0
      /\ \A j \in Loaded : InputIs(j) /\ DictIs(j)
      /\ \A j \in 0 .. Last :
            j \notin Loaded \/ (j = Last /\ pc["reader"] = "dict")
               => Job(j).dict = NoData
      /\ \A j \in 0 .. Last : Job(j).more = ~(Ended /\ j = Last - 1)
  BY DEF JoinInv, InputIs, DictIs

LEMMA JoinInvStep ==
    TypeInv /\ ReaderInv /\ PlaceInv /\ SpaceInv /\ CompressedInv /\ JoinInv
      /\ [Next]_vars => JoinInv'
<1> SUFFICES ASSUME TypeInv, ReaderInv, PlaceInv, SpaceInv, CompressedInv, JoinInv,
                    [Next]_vars
             PROVE  JoinInv'
  OBVIOUS
<1> USE DEF At
<1>a. /\ Last \in Int /\ Last >= -1 /\ offset \in Int /\ BlockSize \in Nat \ {0}
      /\ Dict \in 1 .. BlockSize /\ pc["reader"] \in ReaderAt
      /\ \A j \in Loaded : j \in 0 .. Last
  BY Numbers DEF TypeInv, PcInv, CallRecords, Loaded
<1>b. \A j \in Loaded : Input(j)' = Input(j)
  BY InputKept
<1>c. \A j \in Loaded : j # 0 => j - 1 \in Loaded
  BY <1>a DEF Loaded
<1>d. \A j \in Loaded : End(j)' = End(j)
  BY <1>b DEF End
<1>e. ASSUME Loaded' = Loaded, offset' = offset
      PROVE  /\ Loaded' = {} => offset' = 0
             /\ \A j \in Loaded : InputIs(j)'
  <2>1. \A j \in Loaded : InputIs(j)
    BY JoinParts
  <2>2. \A j \in Loaded : InputIs(j)'
    <3> SUFFICES ASSUME NEW j \in Loaded
                 PROVE  InputIs(j)'
      OBVIOUS
    <3>1. j = 0 \/ End(j - 1)' = End(j - 1)
      BY <1>c, <1>d
    <3> QED
      BY <1>b, <1>d, <1>e, <2>1, <3>1 DEF InputIs
  <2> QED
    BY <1>e, <2>2 DEF JoinInv
<1>f. ASSUME Loaded' = {} => offset' = 0,
             \A j \in Loaded' : InputIs(j)' /\ DictIs(j)',
             \A j \in 0 .. Last' :
                j \notin Loaded' \/ (j = Last' /\ pc'["reader"] = "dict")
                   => Job(j)'.dict = NoData,
             \A j \in 0 .. Last' : Job(j)'.more = ~(Ended' /\ j = Last' - 1)
      PROVE  JoinInv'
  BY <1>f DEF JoinInv, InputIs, DictIs
<1>1. ASSUME NEW c \in Worker, WorkerStep(c)
      PROVE  JoinInv'
  <2>1. /\ Last' = Last /\ UNCHANGED <<call, offset>> /\ pc'["reader"] = pc["reader"]
        /\ \A j \in 0 .. Last : Job(j)'.more = Job(j).more /\ Job(j)'.dict = Job(j).dict
    BY <1>1, WorkerEffects
  <2>2. Loaded' = Loaded /\ Ended' = Ended
    BY <2>1 DEF Loaded, Ended
  <2>3. \A j \in Loaded : DictIs(j)'
    BY <1>a, <1>b, <2>1, JoinParts DEF DictIs
  <2>4. /\ \A j \in 0 .. Last : j \notin Loaded \/ (j = Last /\ pc'["reader"] = "dict")
               => Job(j)'.dict = NoData
        /\ \A j \in 0 .. Last : Job(j)'.more = ~(Ended /\ j = Last - 1)
    BY <2>1 DEF JoinInv
  <2> QED
    BY <1>e, <2>1, <2>2, <2>3, <2>4, <1>f
<1>2. CASE WriterStep
  <2>1. UNCHANGED <<call, offset, jobs>> /\ pc'["reader"] = pc["reader"]
    BY <1>2, WriterEffects
  <2>2. Last' = Last /\ Loaded' = Loaded /\ Ended' = Ended /\ \A j : Job(j)' = Job(j)
    BY <2>1 DEF Last, Loaded, Ended, Job
  <2>3. \A j \in Loaded : DictIs(j)'
    BY <1>b, <2>1, <2>2, JoinParts DEF DictIs
  <2> QED
    BY <1>e, <2>1, <2>2, <2>3 DEF JoinInv, InputIs, DictIs
<1>3. CASE GetIn
  <2>1. /\ pc["reader"] = "get_in" /\ pc'["reader"] = "get_out" /\ Last' = Last + 1
        /\ UNCHANGED <<call, offset>>
    BY <1>3, GetInJobs DEF GetIn
  <2>2. Loaded = 0 .. Last /\ Loaded' = Loaded /\ ~Ended /\ ~Ended'
    BY <1>a, <2>1 DEF Loaded, Ended
  <2>3. /\ \A j \in 0 .. Last : Job(j)' = Job(j)
        /\ \A j : j = Last + 1 => Job(j)'.more = TRUE /\ Job(j)'.dict = NoData
    BY <1>3, GetInJobs
  <2>4. \A j \in 0 .. Last' : j \in Loaded \/ j = Last + 1
    BY <1>a, <2>1, <2>2
  <2>5. \A j \in Loaded : DictIs(j)'
    BY <1>a, <1>b, <2>1, <2>2, <2>3, JoinParts DEF DictIs
  <2>7. /\ \A j \in 0 .. Last : Job(j).more = TRUE
        /\ \A j \in 0 .. Last : j \notin Loaded => Job(j).dict = NoData
    BY <2>2 DEF JoinInv
  <2>6. /\ \A j \in 0 .. Last' : j \notin Loaded => Job(j)'.dict = NoData
        /\ \A j \in 0 .. Last' : Job(j)'.more = TRUE
    BY <1>a, <2>2, <2>3, <2>4, <2>7
  <2> QED
    BY <1>e, <2>1, <2>2, <2>5, <2>6, <1>f
<1>4. CASE GetOut \/ AddJob \/ CloseJobs \/ Join
  <2>1. UNCHANGED <<call, offset, jobs>>
    BY <1>4 DEF GetOut, AddJob, CloseJobs, Join, pools
  <2>2. Last' = Last /\ \A j : Job(j)' = Job(j)
    BY <2>1 DEF Last, Job
  <2>3. GetOut => pc["reader"] = "get_out" /\ pc'["reader"] = "load"
    BY Moved DEF GetOut, TypeInv, ReaderAt
  <2>4. AddJob => pc["reader"] = "add" /\ pc'["reader"] = "get_in"
    BY Moved DEF AddJob, TypeInv, ReaderAt
  <2>5. CloseJobs => pc["reader"] = "close" /\ pc'["reader"] = "join"
    BY Moved DEF CloseJobs, TypeInv, ReaderAt
  <2>6. Join => pc["reader"] = "join" /\ pc'["reader"] = "done"
    BY Moved DEF Join, TypeInv, ReaderAt
  <2>7. Loaded' = Loaded /\ Ended' = Ended
    BY <1>4, <2>2, <2>3, <2>4, <2>5, <2>6 DEF Loaded, Ended
  <2>8. pc["reader"] \notin {"dict", "aborted"} /\ pc'["reader"] \notin {"dict", "aborted"}
    BY <1>4, <2>3, <2>4, <2>5, <2>6
  <2>9. \A j \in Loaded : DictIs(j)'
    BY <1>b, <2>1, <2>2, <2>8, JoinParts DEF DictIs
  <2>10. /\ \A j \in 0 .. Last : j \notin Loaded => Job(j)'.dict = NoData
         /\ \A j \in 0 .. Last : Job(j)'.more = ~(Ended /\ j = Last - 1)
    BY <2>2 DEF JoinInv
  <2> QED
    BY <1>e, <2>1, <2>2, <2>7, <2>8, <2>9, <2>10, <1>f
<1>5. CASE SetDictionary
  <2>1. /\ pc["reader"] = "dict" /\ pc'["reader"] \in {"add", "aborted"}
        /\ UNCHANGED <<call, offset>> /\ Last' = Last /\ Last >= 1
        /\ ~call.independent
    BY <1>5, SetDictionaryJobs DEF SetDictionary, ReaderInv
  <2>2. Loaded = 0 .. Last /\ Loaded' = Loaded /\ ~Ended /\ ~Ended'
    BY <2>1 DEF Loaded, Ended
  <2>3. /\ \A j \in 0 .. Last : /\ Job(j)'.more = Job(j).more
                                /\ j # Last => Job(j)'.dict = Job(j).dict
    BY <1>5, SetDictionaryJobs
  <2>4. \A j \in Loaded : j # Last => DictIs(j)'
    BY <1>b, <2>1, <2>2, <2>3, JoinParts DEF DictIs
  <2>5. \A j : j = Last => DictIs(j)'
    <3>1. CASE pc'["reader"] = "aborted"
      BY <2>1, <3>1 DEF DictIs
    <3>2. CASE pc'["reader"] = "add"
      <4>1. \A j : j = Last => Job(j)'.dict =
               [from |-> Content(Last - 1).from + Content(Last - 1).len - Dict, len |-> Dict]
        BY <1>5, <3>2, SetDictionaryJobs
      <4>2. Last - 1 \in 0 .. Last /\ Last - 1 \notin Queued /\ Last \in Loaded /\ Last # 0
        BY <1>a, <2>1, <2>2 DEF Queued
      <4>3. Job(Last - 1).out = <<>>
        BY <4>2 DEF CompressedInv
      <4>4. Content(Last - 1).from + Content(Last - 1).len = End(Last - 1)
        BY <4>3 DEF Input, End
      <4>5. Input(Last).from = End(Last - 1)
        BY <4>2 DEF JoinInv
      <4>6. \A j : j = Last => Input(j)'.from = Input(Last).from
        BY <1>b, <4>2
      <4>7. ASSUME NEW j, j = Last
            PROVE  Job(j)'.dict = [from |-> Input(j)'.from - Dict, len |-> Dict]
        <5>1. Input(j)'.from = Content(Last - 1).from + Content(Last - 1).len
          BY <4>4, <4>5, <4>6, <4>7
        <5>2. Job(j)'.dict = [from |-> Content(Last - 1).from + Content(Last - 1).len - Dict,
                              len |-> Dict]
          BY <4>1, <4>7
        <5>4. Content(Last - 1).from \in Int /\ Content(Last - 1).len \in Int
          BY <4>2, ContentType DEF Interval
        <5>3. Input(j)'.from - Dict = Content(Last - 1).from + Content(Last - 1).len - Dict
          BY <1>a, <5>1, <5>4
        <5> QED
          BY <5>2, <5>3, Zenon
      <4> QED
        BY <2>1, <4>2, <4>7 DEF DictIs
    <3> QED
      BY <2>1, <3>1, <3>2
  <2>6. /\ \A j \in 0 .. Last : j \in Loaded
        /\ \A j \in 0 .. Last : Job(j)'.more = TRUE
    BY <2>2, <2>3 DEF JoinInv
  <2> QED
    BY <1>e, <2>1, <2>2, <2>4, <2>5, <2>6, <1>f
<1>6. CASE EndOfInput
  <2>1. /\ pc["reader"] = "eof" /\ pc'["reader"] = "close" /\ Last' = Last /\ Last >= 0
        /\ UNCHANGED <<call, offset>>
    BY <1>6, EndOfInputJobs DEF EndOfInput
  <2>2. Loaded' = Loaded /\ ~Ended /\ Ended'
    BY <2>1 DEF Loaded, Ended
  <2>3. \A j \in 0 .. Last : /\ Job(j)'.dict = Job(j).dict
                             /\ Job(j)'.more = IF j = Last - 1 THEN FALSE ELSE Job(j).more
    BY <1>6, EndOfInputJobs
  <2>4. \A j \in Loaded : DictIs(j)'
    BY <1>a, <1>b, <2>1, <2>3, JoinParts DEF DictIs
  <2>5. /\ \A j \in 0 .. Last : j \notin Loaded => Job(j)'.dict = NoData
        /\ \A j \in 0 .. Last : Job(j).more = TRUE
    BY <2>2, <2>3 DEF JoinInv
  <2>6. \A j \in 0 .. Last : Job(j)'.more = ~(j = Last - 1)
    BY <2>3, <2>5
  <2> QED
    BY <1>e, <2>1, <2>2, <2>4, <2>5, <2>6, <1>f

<1>7. CASE Load
  <2>1. /\ pc["reader"] = "load" /\ UNCHANGED <<call, jobs>> /\ Last >= 0
        /\ Last' = Last /\ \A j : Job(j)' = Job(j)
    BY <1>7 DEF Load, ReaderInv, Last, Job
  <2>2. PICK k \in 0 .. Least(BlockSize, call.len - offset) :
          /\ len' = [len EXCEPT ![Job(Last).in] = k]
          /\ data' = IF k = 0 THEN data
                     ELSE [data EXCEPT ![Job(Last).in] = [from |-> offset, len |-> k]]
          /\ offset' = offset + k
          /\ Goto("reader", IF k = 0 THEN "eof"
                            ELSE IF Last = 0 THEN "get_in"
                            ELSE IF call.independent THEN "add" ELSE "dict")
    BY <1>7 DEF Load
  <2>3. k \in 0 .. BlockSize /\ k \in Int
    BY <1>a, Numbers DEF Least, CallRecords
  <2>4. pc'["reader"] = IF k = 0 THEN "eof"
                        ELSE IF Last = 0 THEN "get_in"
                        ELSE IF call.independent THEN "add" ELSE "dict"
    BY <2>2, Moved DEF TypeInv, ReaderAt
  <2>5. Loaded = 0 .. Last - 1 /\ ~Ended /\ ~Ended' /\ Last \notin Loaded
        /\ Last \in 0 .. Last /\ Last \notin Queued
    BY <1>a, <2>1, <2>4 DEF Loaded, Ended, Queued
  <2>6. \A j \in Loaded : j # Last
    BY <2>5
  <2>7. \A j \in 0 .. Last : Job(j).more = TRUE
    BY <2>5 DEF JoinInv
  <2>8. \A j \in Loaded : DictIs(j)'
    BY <1>b, <2>1, <2>6, JoinParts DEF DictIs
  <2>9. CASE k = 0
    <3>1. Loaded' = Loaded /\ offset' = offset /\ pc'["reader"] = "eof"
      BY <1>a, <2>1, <2>2, <2>3, <2>4, <2>5, <2>9 DEF Loaded
    <3>2. \A j \in 0 .. Last : j \notin Loaded => Job(j).dict = NoData
      BY DEF JoinInv
    <3> QED
      BY <1>e, <2>1, <2>5, <2>7, <2>8, <3>1, <3>2, <1>f
  <2>10. CASE k # 0
    <3>1. Loaded' = 0 .. Last
      BY <2>1, <2>4, <2>10 DEF Loaded
    <3>2. \A j \in 0 .. Last : j \in Loaded \/ j = Last
      BY <1>a, <2>5
    <3>3. Job(Last).in \in Space /\ DOMAIN data = Space /\ DOMAIN len = Space
      BY <2>5, ContentType DEF TypeInv
    <3>4. Job(Last).out = <<>> /\ Job(Last).dict = NoData
      BY <2>5 DEF CompressedInv, JoinInv
    <3>5. ASSUME NEW j, j = Last
          PROVE  Input(j)' = [from |-> offset, len |-> k] /\ End(j)' = offset + k
      <4>1. data'[Job(Last).in] = [from |-> offset, len |-> k] /\ len'[Job(Last).in] = k
        BY <2>2, <2>10, <3>3
      <4>2. Job(j)' = Job(Last)
        BY <2>1, <3>5
      <4>3. Content(j)' = [from |-> offset, len |-> k]
        BY <4>1, <4>2 DEF Content
      <4>4. Input(j)' = [from |-> offset, len |-> k]
        BY <3>4, <4>2, <4>3 DEF Input
      <4> QED
        BY <4>4 DEF End
    <3>6. \A j \in Loaded : InputIs(j)'
      <4> SUFFICES ASSUME NEW j \in Loaded
                   PROVE  InputIs(j)'
        OBVIOUS
      <4>1. InputIs(j)
        BY JoinParts
      <4>2. j = 0 \/ End(j - 1)' = End(j - 1)
        BY <1>c, <1>d
      <4>3. End(j) <= offset /\ End(j) \in Int
        <5>1. End(j) <= offset /\ Input(j).len \in Int
          BY <4>1, <1>a DEF InputIs
        <5>2. Input(j).from \in Int
          BY <1>a, InputType
        <5> QED
          BY <5>1, <5>2 DEF End
      <4>4. j + 1 \in Loaded' /\ End(j) # offset' /\ End(j) <= offset'
        BY <1>a, <2>2, <2>3, <2>5, <2>10, <3>1, <4>3
      <4> QED
        BY <1>b, <1>d, <4>1, <4>2, <4>4 DEF InputIs
    <3>7. ASSUME NEW j, j = Last
          PROVE  InputIs(j)'
      <4>1. End(j)' = offset' /\ Input(j)'.from = offset /\ Input(j)'.len \in 1 .. BlockSize
        BY <2>2, <2>3, <2>10, <3>5, <3>7
      <4>2. j + 1 \notin Loaded' /\ offset' \in Int
        BY <1>a, <2>2, <2>3, <3>1, <3>7
      <4>3. CASE j = 0
        <5>1. Loaded = {}
          BY <2>5, <3>7, <4>3
        <5>2. offset = 0
          BY <5>1 DEF JoinInv
        <5> QED
          BY <4>1, <4>2, <4>3, <5>2 DEF InputIs
      <4>4. CASE j # 0
        <5>1. Last - 1 \in Loaded /\ Last - 1 + 1 \notin Loaded
          BY <1>a, <2>1, <2>5, <3>7, <4>4
        <5>2. InputIs(Last - 1)
          BY <5>1, JoinParts
        <5>3. End(Last - 1) = offset
          BY <5>1, <5>2 DEF InputIs
        <5>4. offset > 0
          <6>1. Input(Last - 1).len \in 1 .. BlockSize
            BY <5>2 DEF InputIs
          <6>2. Input(Last - 1).from = 0 \/ Input(Last - 1).from > 0
            BY <5>2 DEF InputIs
          <6>3. offset = Input(Last - 1).from + Input(Last - 1).len
            BY <5>3 DEF End
          <6>4. Input(Last - 1).from \in Int /\ Input(Last - 1).len \in Nat
            BY <1>a, <5>1, InputType
          <6> QED
            BY <1>a, <6>1, <6>2, <6>3, <6>4
        <5>5. End(j - 1)' = offset
          BY <1>d, <3>7, <5>1, <5>3
        <5> QED
          BY <4>1, <4>2, <4>4, <5>4, <5>5 DEF InputIs
      <4> QED
        BY <4>3, <4>4
    <3>8. \A j : j = Last => DictIs(j)'
      BY <2>1, <2>4, <2>10, <3>4 DEF DictIs
    <3>9. \A j \in 0 .. Last : j \notin Loaded => Job(j).dict = NoData
      BY DEF JoinInv
    <3>10. Loaded' # {}
      BY <3>1, <2>5
    <3>11. \A j \in 0 .. Last : j = Last => Job(j).dict = NoData
      BY <3>4
    <3>12. \A j \in Loaded' : InputIs(j)' /\ DictIs(j)'
      BY <2>8, <3>1, <3>2, <3>6, <3>7, <3>8
    <3>13. \A j \in 0 .. Last' :
             j \notin Loaded' \/ (j = Last' /\ pc'["reader"] = "dict") => Job(j)'.dict = NoData
      BY <2>1, <3>1, <3>11
    <3>14. \A j \in 0 .. Last' : Job(j)'.more = ~(Ended' /\ j = Last' - 1)
      BY <2>1, <2>5, <2>7
    <3> QED
      BY <3>10, <3>12, <3>13, <3>14, <1>f
  <2> QED
    BY <2>9, <2>10
<1>8. CASE UNCHANGED vars
  <2>1. Last' = Last /\ Loaded' = Loaded /\ Ended' = Ended /\ (\A j : Job(j)' = Job(j))
        /\ UNCHANGED <<call, offset>> /\ pc' = pc
    BY <1>8 DEF vars, pools, Last, Loaded, Ended, Job
  <2>2. \A j \in Loaded : DictIs(j)'
    BY <1>b, <2>1, JoinParts DEF DictIs
  <2>3. /\ \A j \in 0 .. Last : j \notin Loaded \/ (j = Last /\ pc["reader"] = "dict")
                                => Job(j).dict = NoData
        /\ \A j \in 0 .. Last : Job(j).more = ~(Ended /\ j = Last - 1)
    BY DEF JoinInv
  <2> QED
    BY <1>e, <1>f, <2>1, <2>2, <2>3
<1> QED
  BY <1>1, <1>2, <1>3, <1>4, <1>5, <1>6, <1>7, <1>8 DEF Next, ReaderStep, Returned

-----------------------------------------------------------------------------
(* The file                                                                *)

LEMMA FileInit == Init => FileInv
<1> SUFFICES ASSUME Init
             PROVE  FileInv
  OBVIOUS
<1>1. pc["writer"] = "get_job"
  BY DeflateAssumption DEF Init, Thread
<1> QED
  BY <1>1 DEF Init, FileInv, BlocksWritten

(* What the writer appends to the file                                     *)
LEMMA OneBlock ==
    ASSUME TypeInv, ReaderInv, PlaceInv, CompressedInv, WriteOut
    PROVE  /\ seq \in Taken /\ seq \in 0 .. Last
           /\ Job(seq).out # <<>>
           /\ Job(seq).out[1] \in Block
           /\ file' = Append(file, Job(seq).out[1])
<1>1. pc["writer"] = "write" /\ seq \in 0 .. Last /\ seq \in Taken
  BY InHand DEF WriteOut, At, Taken, TypeInv
<1>2. Job(seq).out # <<>>
  BY <1>1 DEF CompressedInv
<1>3. Len(Job(seq).out) = 1
  BY <1>1, <1>2 DEF CompressedInv
<1>4. Job(seq).out \in Seq(Block)
  BY <1>1, Numbers DEF JobRecord
<1>5. Job(seq).out[1] \in Block
  BY <1>3, <1>4, ElementOfSeq
<1>6. Job(seq).out = <<Job(seq).out[1]>>
  <2>1. <<Job(seq).out[1]>> \in Seq(Block) /\ Len(<<Job(seq).out[1]>>) = 1
        /\ <<Job(seq).out[1]>>[1] = Job(seq).out[1]
    BY <1>5
  <2>2. \A i \in 1 .. 1 : i = 1
    OBVIOUS
  <2> QED
    BY <1>3, <1>4, <2>1, <2>2, SeqEqual
<1>7. file' = file \o <<Job(seq).out[1]>>
  BY <1>6 DEF WriteOut
<1>8. file' = Append(file, Job(seq).out[1])
  BY <1>5, <1>7, AppendIsConcat DEF TypeInv
<1> QED
  BY <1>1, <1>2, <1>5, <1>8

LEMMA FileInvStep ==
    TypeInv /\ ReaderInv /\ PlaceInv /\ SpaceInv /\ CompressedInv /\ FileInv
      /\ [Next]_vars => FileInv'
<1> SUFFICES ASSUME TypeInv, ReaderInv, PlaceInv, SpaceInv, CompressedInv, FileInv,
                    [Next]_vars
             PROVE  FileInv'
  OBVIOUS
<1> USE DEF At
<1>a. seq \in Nat /\ Len(file) \in Nat /\ (file # <<>> => Len(file) # 0)
      /\ Last \in Int /\ Last >= -1
  BY Numbers, EmptySeq, LenProperties DEF TypeInv
<1>b. \A j \in Taken : j \in Loaded
  <2>1. Queued \subseteq Loaded
    BY <1>a DEF Queued, Loaded
  <2> QED
    BY <2>1 DEF PlaceInv
<1>c. \A j \in 0 .. seq - 1 : j \in Taken
  BY <1>a DEF Taken
<1>d. file # <<>> => Len(file) - 1 \in Taken
  BY <1>a, <1>c DEF FileInv, BlocksWritten, Taken
<1>e. \A j : j = Len(file) - 1 /\ file # <<>> => Input(j)' = file[Len(file)].data
  BY <1>b, <1>d, InputKept DEF FileInv
<1>f. ASSUME file' = file, BlocksWritten' = BlocksWritten
      PROVE  FileInv'
  BY <1>e, <1>f DEF FileInv
<1>1. CASE ReaderStep
  BY <1>1, <1>f, ReaderEffects DEF BlocksWritten
<1>2. ASSUME NEW c \in Worker, WorkerStep(c)
      PROVE  FileInv'
  BY <1>2, <1>f, WorkerEffects DEF BlocksWritten
<1>3. CASE FetchJob \/ FetchNull \/ AddLength \/ Combine \/ FreeJob \/ PutTrailer
  <2>1. file' = file
    BY <1>3 DEF FetchJob, FetchNull, AddLength, Combine, FreeJob, PutTrailer, output
  <2>2. FetchJob \/ FetchNull \/ AddLength \/ Combine \/ PutTrailer
          => seq' = seq /\ (pc["writer"] \in {"combine", "free"} <=>
                            pc'["writer"] \in {"combine", "free"})
    BY Moved DEF FetchJob, FetchNull, AddLength, Combine, PutTrailer, output, TypeInv, WriterAt
  <2>3. FreeJob => /\ seq' = seq + 1 /\ pc["writer"] = "free"
                   /\ pc'["writer"] \in {"get_job", "trailer"}
    BY Moved DEF FreeJob, TypeInv, WriterAt
  <2> QED
    BY <1>3, <1>f, <2>1, <2>2, <2>3 DEF BlocksWritten
<1>4. CASE WriteOut
  <2>1. /\ pc["writer"] = "write" /\ pc'["writer"] = "combine" /\ seq' = seq
    BY <1>4, Moved DEF WriteOut, TypeInv, WriterAt
  <2>2. /\ file' = Append(file, Job(seq).out[1]) /\ Job(seq).out[1] \in Block
        /\ Job(seq).out # <<>> /\ seq \in Taken
    BY <1>4, OneBlock
  <2>3. Len(file') = Len(file) + 1 /\ file'[Len(file) + 1] = Job(seq).out[1]
    BY <2>2, AppendToList DEF TypeInv
  <2>4. Len(file) = seq
    BY <2>1 DEF FileInv, BlocksWritten
  <2>5. Input(seq) = Job(seq).out[1].data
    BY <2>2 DEF Input
  <2>6. \A j : j = seq => Input(j)' = Job(seq).out[1].data
    BY <1>b, <2>2, <2>5, InputKept
  <2> QED
    BY <1>a, <2>1, <2>3, <2>4, <2>6 DEF FileInv, BlocksWritten
<1>5. CASE UNCHANGED vars
  BY <1>5, <1>f DEF vars, output, BlocksWritten
<1> QED
  BY <1>1, <1>2, <1>3, <1>4, <1>5 DEF Next, WriterStep, Returned

-----------------------------------------------------------------------------
(* The invariant holds in every reachable state.                            *)
LEMMA Invariant == Spec => []IInv
<1>1. Init => IInv
  BY TypeInit, ReaderInit, PlaceInit, EndInit, SpaceInit, CompressedInit, JoinInit,
     FileInit DEF IInv
<1>2. IInv /\ [Next]_vars => IInv'
  BY TypeStep, ReaderInvStep, PlaceInvStep, EndInvStep, SpaceInvStep, CompressedInvStep,
     JoinInvStep, FileInvStep DEF IInv
<1> QED
  BY <1>1, <1>2, PTL DEF Spec

(* InputStable: whatever the number of threads, no input space is free or   *)
(* has two owners while its block is read, waits, is copied from as a       *)
(* dictionary, is compressed or checked (parallel.c: drop_space after the   *)
(* check value, deflate.c: the reader holds the block before).              *)
THEOREM InputsAreStable == Spec => []InputStable
<1>1. IInv => InputStable
  <2> SUFFICES ASSUME IInv
               PROVE  InputStable
    OBVIOUS
  <2>1. \A j \in InUse : \A i \in DOMAIN inList : inList[i] # Job(j).in
    BY DEF IInv, SpaceInv, Elements
  <2>2. \A c \in Worker : pc[c] \in {"check", "drop_dict"} =>
           Content(cur[c]) = Job(cur[c]).out[1].data
    BY DEF IInv, CompressedInv, Working
  <2> QED
    BY <2>1, <2>2 DEF IInv, SpaceInv, InputStable
<1> QED
  BY <1>1, Invariant, PTL

(* Every step writes the next block of a sequential compressor, or its      *)
(* trailer, or nothing.                                                     *)
LEMMA SequentialStep ==
    ASSUME Fits = {TRUE}
    PROVE  IInv /\ [Next]_vars => [Sequential!Next]_<<call, file, trailer # <<>>>>
<1> SUFFICES ASSUME IInv, [Next]_vars
             PROVE  [Sequential!Next]_<<call, file, trailer # <<>>>>
  OBVIOUS
<1>a. TypeInv /\ ReaderInv /\ PlaceInv /\ EndInv /\ SpaceInv /\ CompressedInv
      /\ JoinInv /\ FileInv
  BY DEF IInv
<1>b. seq \in Nat /\ Len(file) \in Nat /\ (file # <<>> <=> Len(file) # 0)
      /\ Last \in Int /\ Last >= -1 /\ offset \in Int
  BY <1>a, Numbers, EmptySeq, LenProperties DEF TypeInv, CallRecords
<1>c. \A j \in Taken : j \in Loaded /\ j \in 0 .. Last
  <2>1. Queued \subseteq Loaded /\ Loaded \subseteq 0 .. Last
    BY <1>b DEF Queued, Loaded
  <2> QED
    BY <1>a, <2>1 DEF PlaceInv
<1>1. CASE WriteOut
  <2>1. /\ seq \in Taken /\ seq \in 0 .. Last /\ Job(seq).out # <<>>
        /\ file' = Append(file, Job(seq).out[1]) /\ Job(seq).out[1] \in Block
    BY <1>1, <1>a, OneBlock
  <2>2. /\ pc["writer"] = "write" /\ call' = call /\ trailer' = trailer
    BY <1>1 DEF WriteOut, At
  <2>3. Len(file) = seq /\ trailer = <<>>
    BY <1>a, <2>2 DEF FileInv, BlocksWritten, EndInv
  <2>4. Input(seq) = Job(seq).out[1].data
    BY <2>1 DEF Input
  <2>5. InputIs(seq) /\ DictIs(seq)
    BY <1>a, <1>c, <2>1, JoinParts
  <2>6. Input(seq) \in Interval /\ Input(seq).from \in Int /\ Input(seq).len \in Nat
    BY <1>a, <2>1, InputType
  <2>7. Sequential!Covered = Input(seq).from
    <3>1. CASE seq = 0
      BY <1>b, <2>3, <2>5, <3>1 DEF Sequential!Covered, InputIs
    <3>2. CASE seq # 0
      <4>1. file # <<>> /\ file[Len(file)].data = Input(seq - 1)
        BY <1>a, <1>b, <2>3, <3>2 DEF FileInv
      <4> QED
        BY <2>5, <3>2, <4>1 DEF Sequential!Covered, InputIs, End
    <3> QED
      BY <3>1, <3>2
  <2>8. /\ Job(seq).out[1].dict = Job(seq).dict
        /\ Job(seq).out[1].final = ~Job(seq).more
        /\ Job(seq).out[1].whole = TRUE
        /\ seq \in Queued
    BY <1>a, <2>1 DEF CompressedInv
  <2>9. Job(seq).dict = Sequential!Preceding
    <3>1. ~(seq = Last /\ pc["reader"] \in {"dict", "aborted"})
      BY <1>b, <2>8 DEF Queued
    <3>2. Sequential!Covered = 0 <=> seq = 0
      BY <2>5, <2>7 DEF InputIs
    <3> QED
      BY <2>5, <2>7, <3>1, <3>2 DEF DictIs, Sequential!Preceding, Sequential!NoData, NoData
  <2>10. End(seq) <= call.len
    <3>1. End(seq) \in Int /\ End(seq) <= offset
      BY <2>5, <2>6 DEF InputIs, End
    <3>2. offset <= call.len /\ call.len \in Int
      BY <1>a, Numbers DEF TypeInv, CallRecords
    <3> QED
      BY <1>b, <3>1, <3>2
  <2>11. Job(seq).more = ~(Sequential!Covered + Input(seq).len = call.len)
    <3>1. Job(seq).more = ~(Ended /\ seq = Last - 1)
      BY <1>a, <2>1 DEF JoinInv
    <3>2. ASSUME Ended, seq = Last - 1
          PROVE  End(seq) = call.len
      <4>1. offset = call.len /\ seq + 1 \notin Loaded
        BY <1>a, <1>b, <3>2 DEF ReaderInv, Ended, Loaded
      <4> QED
        BY <2>5, <4>1 DEF InputIs
    <3>3. ASSUME ~(Ended /\ seq = Last - 1)
          PROVE  End(seq) # call.len
      <4>1. seq + 1 \in Loaded
        BY <1>b, <2>8, <3>3 DEF Queued, Loaded, Ended
      <4>2. End(seq) # offset /\ End(seq) <= offset
        BY <2>5, <4>1 DEF InputIs
      <4>3. offset <= call.len /\ call.len \in Int
        BY <1>a, Numbers DEF TypeInv, CallRecords
      <4>4. End(seq) \in Int
        BY <2>5, <2>6 DEF InputIs, End
      <4> QED
        BY <1>b, <4>2, <4>3, <4>4
    <3>4. Sequential!Covered + Input(seq).len = End(seq)
      BY <2>7 DEF End
    <3> QED
      BY <3>1, <3>2, <3>3, <3>4
  <2>12. Job(seq).out[1] = [data  |-> [from |-> Sequential!Covered, len |-> Input(seq).len],
                            dict  |-> Sequential!Preceding,
                            final |-> Sequential!Covered + Input(seq).len = call.len,
                            whole |-> TRUE]
    <3>1. Input(seq) = [from |-> Sequential!Covered, len |-> Input(seq).len]
      BY <2>6, <2>7 DEF Interval
    <3>2. (~Job(seq).more) = (Sequential!Covered + Input(seq).len = call.len)
      BY <2>11
    <3> QED
      BY <2>1, <2>4, <2>8, <2>9, <3>1, <3>2 DEF Block
  <2>13. Input(seq).len \in 1 .. BlockSize
    BY <2>5 DEF InputIs
  <2>14. Sequential!Covered + Input(seq).len <= call.len
    BY <2>7, <2>10 DEF End
  <2>15. Sequential!WriteBlock(Input(seq).len)
    BY <2>1, <2>2, <2>3, <2>12, <2>14 DEF Sequential!WriteBlock
  <2> QED
    BY <2>13, <2>15 DEF Sequential!Next
<1>2. CASE PutTrailer
  <2>1. /\ pc["writer"] = "trailer" /\ call' = call /\ file' = file /\ trailer' # <<>>
    BY <1>2 DEF PutTrailer, At
  <2>2. trailer = <<>> /\ Ended /\ seq = Last /\ Len(file) = seq
    BY <1>a, <2>1 DEF EndInv, FileInv, BlocksWritten
  <2>3. offset = call.len /\ Last >= 0 /\ Loaded = 0 .. Last - 1
    BY <1>a, <2>2 DEF ReaderInv, Ended, Loaded
  <2>4. Sequential!Covered = call.len
    <3>1. CASE seq = 0
      <4>1. Loaded = {}
        BY <2>2, <2>3, <3>1
      <4> QED
        BY <1>a, <1>b, <2>2, <2>3, <3>1, <4>1 DEF JoinInv, Sequential!Covered
    <3>2. CASE seq # 0
      <4>1. file # <<>> /\ file[Len(file)].data = Input(seq - 1)
        BY <1>a, <1>b, <2>2, <3>2 DEF FileInv
      <4>2. seq - 1 \in Loaded /\ seq - 1 + 1 \notin Loaded
        BY <1>b, <2>2, <2>3, <3>2
      <4>3. End(seq - 1) = offset
        BY <1>a, <4>2 DEF JoinInv
      <4> QED
        BY <2>3, <4>1, <4>3 DEF Sequential!Covered, End
    <3> QED
      BY <3>1, <3>2
  <2>5. Sequential!WriteTrailer
    BY <2>1, <2>2, <2>4 DEF Sequential!WriteTrailer
  <2> QED
    BY <2>5 DEF Sequential!Next
<1>3. CASE ReaderStep
  BY <1>3, <1>a, ReaderEffects
<1>4. ASSUME NEW c \in Worker, WorkerStep(c)
      PROVE  UNCHANGED <<call, file, trailer>>
  BY <1>4, <1>a, WorkerEffects
<1>5. CASE FetchJob \/ FetchNull \/ AddLength \/ Combine \/ FreeJob \/ UNCHANGED vars
  BY <1>5 DEF FetchJob, FetchNull, AddLength, Combine, FreeJob, output, vars
<1> QED
  BY <1>1, <1>2, <1>3, <1>4, <1>5 DEF Next, WriterStep, Returned

(* SequentialSpec: with any number of compress threads the file is the one  *)
(* of a single thread, block by block and with the same dictionaries,       *)
(* provided that every compressed block fits its output space (what happens *)
(* otherwise is run block_truncated).                                       *)
THEOREM ParallelImplementsSequential ==
    ASSUME Fits = {TRUE}
    PROVE  Spec => SequentialSpec
<1>1. Init => Sequential!Init
  BY DEF Init, Sequential!Init
<1>2. IInv /\ [Next]_vars => [Sequential!Next]_<<call, file, trailer # <<>>>>
  BY SequentialStep
<1> QED
  BY <1>1, <1>2, Invariant, PTL DEF Spec, SequentialSpec, Sequential!Spec

-----------------------------------------------------------------------------
(* How many spaces there are                                               *)

(* The jobs that have a dictionary: finished_processing gives it back       *)
(* before the input space.                                                  *)
WithDict == {j \in InUse : /\ Job(j).dict # NoData
                           /\ \A c \in Worker : pc[c] = "drop_in" => cur[c] # j}

(* The number of the last job that was given an output space                *)
LastWithOut == IF pc["reader"] \in {"get_out", "close", "join", "done"}
               THEN Last - 1 ELSE Last

(* Every output space is free or belongs to a job that is not written yet.  *)
OutCount == /\ outFree \in Nat
            /\ outFree + (LastWithOut + 1 - seq) = Limit

(* Every dictionary space is free or belongs to a job.                      *)
DictCount == /\ dictFree \in 0 .. Limit
             /\ ~Aborted => dictFree + Cardinality(WithDict) = Limit

(* Every input space is free or belongs to a job in use, but the one of the *)
(* job that met the end of the input.                                       *)
InCount == ~Aborted =>
    Len(inList) + Cardinality(InUse) + (IF Ended THEN 1 ELSE 0) = Limit

(* What the threads have at their places, and that the reader is the last   *)
RestInv ==
    /\ ulen \in Nat /\ crcOk \in BOOLEAN
    /\ \A c \in Worker \ Working : cur[c] = NoJob
    /\ pc["reader"] = "done" => \A t \in Thread \ {"reader"} : pc[t] = "done"

CountInv == OutCount /\ DictCount /\ InCount /\ RestInv

(* Which jobs have an input space changes in three steps only.              *)
LEMMA InUseStep ==
    ASSUME TypeInv, ReaderInv, PlaceInv
    PROVE  /\ GetIn => InUse' = InUse \cup {Last + 1}
           /\ EndOfInput => InUse' = InUse \ {Last} /\ Last \in InUse
           /\ GetOut \/ Load \/ AddJob \/ CloseJobs \/ Join => InUse' = InUse
           /\ SetDictionary => InUse' = InUse \/ Aborted'
           /\ \A c \in Worker :
                 /\ DropIn(c) => InUse' = InUse \ {cur[c]} /\ cur[c] \in InUse
                 /\ GetJob(c) \/ NoMoreJobs(c) \/ Deflate(c) \/ Check(c) \/ DropDict(c)
                       \/ AddResult(c) => InUse' = InUse
           /\ WriterStep \/ UNCHANGED vars => InUse' = InUse
<1> USE DEF At
<1> DEFINE AtWork == {"deflate", "check", "drop_dict", "drop_in"}
           Hand   == {cur[c] : c \in {w \in Worker : pc[w] \in AtWork}}
<1>a. Last \in Int /\ Last >= -1
  BY Numbers
<1>b. InUse = WithReader \cup Elements(jobQueue) \cup Hand
  BY JobsInUse
<1>c. InUse' = WithReader' \cup Elements(jobQueue)' \cup Hand'
  BY DEF InUse, Elements
<1>d. \A c \in Worker : WorkerStep(c) =>
             /\ WithReader' = WithReader
             /\ \A d \in Worker : d # c => pc'[d] = pc[d] /\ cur'[d] = cur[d]
  BY WorkerEffects DEF WithReader
<1>e. ReaderStep => Hand' = Hand
  BY ReaderEffects
<1> HIDE DEF Hand
<1>1. ASSUME NEW c \in Worker, GetJob(c)
      PROVE  InUse' = InUse
  <2>1. WorkerStep(c)
    BY <1>1 DEF WorkerStep
  <2>2. /\ pc[c] = "get_job" /\ pc'[c] = "deflate" /\ cur'[c] = Head(jobQueue)
        /\ jobQueue' = Tail(jobQueue) /\ jobQueue # <<>>
    BY <1>1, Moved DEF GetJob, TypeInv, WorkerAt
  <2>3. Elements(jobQueue) = Elements(jobQueue)' \cup {Head(jobQueue)}
    <3>1. Elements(jobQueue) = Elements(Tail(jobQueue)) \cup {Head(jobQueue)}
      BY <2>2, TailOfList DEF TypeInv
    <3> QED
      BY <2>2, <3>1 DEF Elements
  <2>4. Hand' = Hand \cup {Head(jobQueue)}
    BY <1>d, <2>1, <2>2 DEF Hand
  <2> QED
    BY <1>b, <1>c, <1>d, <2>1, <2>3, <2>4
<1>2. ASSUME NEW c \in Worker,
             NoMoreJobs(c) \/ Deflate(c) \/ Check(c) \/ DropDict(c) \/ AddResult(c)
      PROVE  InUse' = InUse
  <2>1. WorkerStep(c)
    BY <1>2 DEF WorkerStep
  <2>2. jobQueue' = jobQueue
    BY <1>2 DEF NoMoreJobs, Deflate, Check, DropDict, AddResult, queues
  <2>3. \/ pc[c] \in AtWork /\ pc'[c] \in AtWork /\ cur'[c] = cur[c]
        \/ pc[c] \notin AtWork /\ pc'[c] \notin AtWork
    BY <1>2, Moved DEF NoMoreJobs, Deflate, Check, DropDict, AddResult, TypeInv, WorkerAt
  <2>4. Hand' = Hand
    BY <1>d, <2>1, <2>3 DEF Hand
  <2>5. Elements(jobQueue)' = Elements(jobQueue)
    BY <2>2 DEF Elements
  <2> QED
    BY <1>b, <1>c, <1>d, <2>1, <2>4, <2>5
<1>3. ASSUME NEW c \in Worker, DropIn(c)
      PROVE  InUse' = InUse \ {cur[c]} /\ cur[c] \in InUse
  <2>1. WorkerStep(c)
    BY <1>3 DEF WorkerStep
  <2>2. pc[c] = "drop_in" /\ pc'[c] = "add" /\ cur' = cur /\ jobQueue' = jobQueue
    BY <1>3, Moved DEF DropIn, queues, TypeInv, WorkerAt
  <2>3. cur[c] \in Queued /\ cur[c] \notin Elements(jobQueue)
        /\ \A d \in Worker : d # c => pc[d] \notin AtWork \/ cur[d] # cur[c]
    BY <2>2 DEF PlaceInv, Working
  <2>4. cur[c] \notin WithReader
    BY <2>3, JobsInUse
  <2>5. Hand' = Hand \ {cur[c]} /\ cur[c] \in Hand
    BY <1>d, <2>1, <2>2, <2>3 DEF Hand
  <2>6. Elements(jobQueue)' = Elements(jobQueue)
    BY <2>2 DEF Elements
  <2> QED
    BY <1>b, <1>c, <1>d, <2>1, <2>3, <2>4, <2>5, <2>6
<1>4. ASSUME GetIn
      PROVE  InUse' = InUse \cup {Last + 1}
  <2>1. jobQueue' = jobQueue /\ pc["reader"] = "get_in"
    BY <1>4 DEF GetIn, queues
  <2>2. Last' = Last + 1 /\ pc'["reader"] = "get_out"
    BY <1>4, GetInJobs
  <2>3. WithReader = {Last} \cap Nat /\ WithReader' = {Last + 1, Last} \cap Nat
    BY <2>1, <2>2, <1>a DEF WithReader
  <2>4. WithReader' = WithReader \cup {Last + 1}
    BY <2>3, <1>a
  <2>5. Elements(jobQueue)' = Elements(jobQueue)
    BY <2>1 DEF Elements
  <2> QED
    BY <1>4, <1>b, <1>c, <1>e, <2>4, <2>5 DEF ReaderStep
<1>5. ASSUME AddJob
      PROVE  InUse' = InUse
  <2>1. /\ pc["reader"] = "add" /\ pc'["reader"] = "get_in" /\ Last >= 1 /\ jobs' = jobs
        /\ jobQueue' = Append(jobQueue, Last - 1)
    BY <1>5, Moved DEF AddJob, TypeInv, ReaderAt, ReaderInv
  <2>2. Elements(jobQueue)' = Elements(jobQueue) \cup {Last - 1}
    <3>1. Last - 1 \in Int /\ jobQueue \in Seq(Int)
      BY <1>a DEF TypeInv
    <3>2. Elements(Append(jobQueue, Last - 1)) = Elements(jobQueue) \cup {Last - 1}
      BY <3>1, AppendToList
    <3> QED
      BY <2>1, <3>2 DEF Elements
  <2>3. WithReader = {Last, Last - 1} /\ WithReader' = {Last}
    BY <2>1, <1>a DEF WithReader, Last
  <2> QED
    BY <1>5, <1>b, <1>c, <1>e, <2>2, <2>3 DEF ReaderStep
<1>6. ASSUME GetOut \/ Load \/ CloseJobs \/ Join
      PROVE  InUse' = InUse
  <2>1. jobs' = jobs /\ Last' = Last /\ jobQueue' = jobQueue
    BY <1>6 DEF GetOut, Load, CloseJobs, Join, pools, queues, Last
  <2>2. GetOut => pc["reader"] = "get_out" /\ pc'["reader"] = "load"
    BY Moved DEF GetOut, TypeInv, ReaderAt
  <2>3. Load => /\ pc["reader"] = "load" /\ Last >= 0
                /\ \/ pc'["reader"] \in {"eof", "add", "dict"}
                   \/ pc'["reader"] = "get_in" /\ Last = 0
    BY Moved DEF Load, TypeInv, ReaderAt, ReaderInv
  <2>4. CloseJobs => pc["reader"] = "close" /\ pc'["reader"] = "join"
    BY Moved DEF CloseJobs, TypeInv, ReaderAt
  <2>5. Join => pc["reader"] = "join" /\ pc'["reader"] = "done"
    BY Moved DEF Join, TypeInv, ReaderAt
  <2>6. WithReader' = WithReader
    BY <1>6, <1>a, <2>1, <2>2, <2>3, <2>4, <2>5 DEF WithReader
  <2>7. Elements(jobQueue)' = Elements(jobQueue)
    BY <2>1 DEF Elements
  <2> QED
    BY <1>6, <1>b, <1>c, <1>e, <2>6, <2>7 DEF ReaderStep
<1>7. ASSUME SetDictionary
      PROVE  InUse' = InUse \/ Aborted'
  <2>1. jobQueue' = jobQueue /\ pc["reader"] = "dict"
    BY <1>7 DEF SetDictionary, queues
  <2>2. Aborted' \/ WithReader' = WithReader
    BY <1>7, <2>1, SetDictionaryJobs DEF WithReader, Aborted
  <2>3. Elements(jobQueue)' = Elements(jobQueue)
    BY <2>1 DEF Elements
  <2> QED
    BY <1>7, <1>b, <1>c, <1>e, <2>2, <2>3 DEF ReaderStep
<1>8. ASSUME EndOfInput
      PROVE  InUse' = InUse \ {Last} /\ Last \in InUse
  <2>1. /\ pc["reader"] = "eof" /\ pc'["reader"] = "close" /\ Last' = Last /\ Last >= 0
        /\ jobQueue' = IF Last = 0 THEN jobQueue ELSE Append(jobQueue, Last - 1)
    BY <1>8, EndOfInputJobs DEF EndOfInput
  <2>2. Elements(jobQueue)' = Elements(jobQueue) \cup ({Last - 1} \cap Nat)
    <3>1. Last - 1 \in Int /\ jobQueue \in Seq(Int)
      BY <1>a DEF TypeInv
    <3>2. Elements(Append(jobQueue, Last - 1)) = Elements(jobQueue) \cup {Last - 1}
      BY <3>1, AppendToList
    <3>3. Elements(jobQueue)' = Elements(jobQueue')
      BY DEF Elements
    <3>4. IF Last = 0 THEN {Last - 1} \cap Nat = {} ELSE {Last - 1} \cap Nat = {Last - 1}
      BY <2>1, <1>a
    <3> QED
      BY <2>1, <3>2, <3>3, <3>4
  <2>3. WithReader' = {} /\ WithReader = {Last, Last - 1} \cap Nat
    BY <2>1 DEF WithReader
  <2>4. WithReader = ({Last - 1} \cap Nat) \cup {Last} /\ Last # Last - 1
    BY <2>1, <2>3, <1>a
  <2>5. Last \notin Queued /\ Last \in WithReader
    BY <2>4, JobsInUse
  <2>6. Last \notin Elements(jobQueue) /\ Last \notin Hand
    BY <2>5 DEF PlaceInv, Working, Hand
  <2> QED
    BY <1>8, <1>b, <1>c, <1>e, <2>2, <2>3, <2>4, <2>5, <2>6 DEF ReaderStep
<1>9. ASSUME WriterStep
      PROVE  InUse' = InUse
  <2>1. UNCHANGED <<jobs, jobQueue, cur>> /\ pc'["reader"] = pc["reader"]
        /\ \A c \in Worker : pc'[c] = pc[c]
    BY <1>9, WriterEffects
  <2>2. WithReader' = WithReader
    BY <2>1 DEF WithReader, Last
  <2>3. Elements(jobQueue)' = Elements(jobQueue)
    BY <2>1 DEF Elements
  <2>4. Hand' = Hand
    BY <2>1 DEF Hand
  <2> QED
    BY <1>b, <1>c, <2>2, <2>3, <2>4
<1>10. ASSUME UNCHANGED vars
      PROVE  InUse' = InUse
  <2>1. WithReader' = WithReader
    BY <1>10 DEF vars, WithReader, Last
  <2>2. Elements(jobQueue)' = Elements(jobQueue) /\ Hand' = Hand
    BY <1>10 DEF vars, queues, Elements, Hand
  <2> QED
    BY <1>b, <1>c, <2>1, <2>2
<1> QED
  BY <1>1, <1>2, <1>3, <1>4, <1>5, <1>6, <1>7, <1>8, <1>9, <1>10

LEMMA CountInit == Init => CountInv
<1> SUFFICES ASSUME Init
             PROVE  CountInv
  OBVIOUS
<1> USE DEF At
<1>1. /\ jobQueue = <<>> /\ Last = -1 /\ pc["reader"] = "get_in"
      /\ \A c \in Worker : pc[c] \in {"get_job", "done"}
  BY DeflateAssumption DEF Init, Thread, Last
<1>2. InUse = {} /\ WithDict = {} /\ Working = {}
  BY <1>1 DEF InUse, WithReader, WithDict, Working
<1>3. Limit \in Nat
  BY TypeInit, Numbers
<1>4. Len(inList) = Limit
  BY <1>3 DEF Init
<1>5. Cardinality({}) = 0
  BY FS_EmptySet
<1>6. OutCount
  BY <1>1, <1>3 DEF Init, OutCount, LastWithOut
<1>7. DictCount
  BY <1>2, <1>3, <1>5 DEF Init, DictCount
<1>8. InCount
  BY <1>1, <1>2, <1>3, <1>4, <1>5 DEF InCount, Ended
<1>9. RestInv
  BY <1>1 DEF Init, RestInv
<1> QED
  BY <1>6, <1>7, <1>8, <1>9 DEF CountInv

LEMMA OutCountStep ==
    TypeInv /\ ReaderInv /\ PlaceInv /\ OutCount /\ [Next]_vars => OutCount'
<1> SUFFICES ASSUME TypeInv, ReaderInv, PlaceInv, OutCount, [Next]_vars
             PROVE  OutCount'
  OBVIOUS
<1> USE DEF At
<1>1. Last \in Int /\ Last >= -1 /\ seq \in Nat /\ Limit \in Nat
  BY Numbers DEF TypeInv
<1>2. call' = call => Limit' = Limit
  BY SameSpaces
<1>3. ASSUME NEW c \in Worker, WorkerStep(c)
      PROVE  OutCount'
  <2>1. /\ call' = call /\ seq' = seq /\ Last' = Last /\ pc'["reader"] = pc["reader"]
    BY <1>3, WorkerEffects
  <2>2. outFree' = outFree
    BY <1>3 DEF WorkerStep, GetJob, NoMoreJobs, Deflate, Check, DropDict, DropIn,
                AddResult, pools
  <2> QED
    BY <1>2, <2>1, <2>2 DEF OutCount, LastWithOut
<1>4. CASE WriterStep
  <2>1. call' = call /\ Last' = Last /\ pc'["reader"] = pc["reader"]
    BY <1>4, WriterEffects DEF Last
  <2>2. \/ outFree' = outFree /\ seq' = seq
        \/ outFree' = outFree + 1 /\ seq' = seq + 1
    BY <1>4 DEF WriterStep, FetchJob, FetchNull, AddLength, WriteOut, Combine,
                FreeJob, PutTrailer, pools, output
  <2> QED
    BY <1>1, <1>2, <2>1, <2>2 DEF OutCount, LastWithOut
<1>5. CASE ReaderStep
  <2>1. call' = call /\ seq' = seq
    BY <1>5, ReaderEffects
  <2>2. \/ outFree' = outFree /\ LastWithOut' = LastWithOut
        \/ outFree > 0 /\ outFree' = outFree - 1 /\ LastWithOut' = LastWithOut + 1
        \/ outFree' = outFree + 1 /\ LastWithOut' = LastWithOut - 1
    <3>1. CASE GetIn
      <4>1. outFree' = outFree /\ pc["reader"] = "get_in"
        BY <3>1 DEF GetIn
      <4>2. LastWithOut' = LastWithOut
        BY <1>1, <3>1, <4>1, GetInJobs DEF LastWithOut
      <4> QED
        BY <4>1, <4>2
    <3>2. CASE GetOut
      <4>1. /\ pc["reader"] = "get_out" /\ pc'["reader"] = "load" /\ Last' = Last
            /\ outFree > 0 /\ outFree' = outFree - 1
        BY <3>2, Moved DEF GetOut, TypeInv, ReaderAt, Last
      <4> QED
        BY <1>1, <4>1 DEF LastWithOut
    <3>3. CASE Load \/ AddJob \/ CloseJobs \/ Join
      <4>1. outFree' = outFree /\ Last' = Last
        BY <3>3 DEF Load, AddJob, CloseJobs, Join, pools, Last
      <4>2. CASE Load \/ AddJob
        <5>1. pc["reader"] \in {"load", "add"}
          BY <4>2 DEF Load, AddJob
        <5>2. pc'["reader"] \in {"eof", "get_in", "add", "dict"}
          BY <4>2, Moved DEF Load, AddJob, TypeInv, ReaderAt
        <5> QED
          BY <4>1, <5>1, <5>2 DEF LastWithOut
      <4>3. CASE CloseJobs \/ Join
        <5>1. pc["reader"] \in {"close", "join"}
          BY <4>3 DEF CloseJobs, Join
        <5>2. pc'["reader"] \in {"join", "done"}
          BY <4>3, Moved DEF CloseJobs, Join, TypeInv, ReaderAt
        <5> QED
          BY <4>1, <5>1, <5>2 DEF LastWithOut
      <4> QED
        BY <3>3, <4>2, <4>3
    <3>4. CASE SetDictionary
      <4>1. outFree' = outFree /\ pc["reader"] = "dict"
        BY <3>4 DEF SetDictionary
      <4>2. Last' = Last /\ pc'["reader"] \in {"aborted", "add"}
        BY <3>4, SetDictionaryJobs
      <4> QED
        BY <4>1, <4>2 DEF LastWithOut
    <3>5. CASE EndOfInput
      <4>1. outFree' = outFree + 1 /\ pc["reader"] = "eof"
        BY <3>5 DEF EndOfInput
      <4>2. Last' = Last /\ pc'["reader"] = "close"
        BY <3>5, EndOfInputJobs
      <4> QED
        BY <1>1, <4>1, <4>2 DEF LastWithOut
    <3> QED
      BY <1>5, <3>1, <3>2, <3>3, <3>4, <3>5 DEF ReaderStep
  <2>3. LastWithOut \in Int
    BY <1>1 DEF LastWithOut
  <2> QED
    BY <1>1, <1>2, <2>1, <2>2, <2>3 DEF OutCount
<1>6. CASE UNCHANGED vars
  BY <1>6, <1>2 DEF vars, pools, output, OutCount, LastWithOut, Last
<1> QED
  BY <1>3, <1>4, <1>5, <1>6 DEF Next, Returned

LEMMA InCountStep ==
    TypeInv /\ ReaderInv /\ PlaceInv /\ InCount /\ [Next]_vars => InCount'
<1> SUFFICES ASSUME TypeInv, ReaderInv, PlaceInv, InCount, [Next]_vars, ~Aborted'
             PROVE  (Len(inList) + Cardinality(InUse) + (IF Ended THEN 1 ELSE 0) = Limit)'
  BY DEF InCount
<1> USE DEF At
<1>1. /\ Last \in Int /\ Last >= -1 /\ Limit \in Nat
      /\ inList \in Seq(Space) /\ Len(inList) \in Nat
  BY Numbers, LenProperties DEF TypeInv
<1>2. InUse \subseteq 0 .. Last /\ IsFiniteSet(InUse) /\ Cardinality(InUse) \in Nat
  <2>1. InUse \subseteq 0 .. Last
    BY JobsInUse
  <2>2. IsFiniteSet(0 .. Last)
    BY <1>1, FS_Interval
  <2> QED
    BY <2>1, <2>2, FS_Subset, FS_CardinalityType
<1>3. call' = call => Limit' = Limit
  BY SameSpaces
<1>4. ASSUME call' = call, inList' = inList, InUse' = InUse, Ended' = Ended, ~Aborted
      PROVE  (Len(inList) + Cardinality(InUse) + (IF Ended THEN 1 ELSE 0) = Limit)'
  BY <1>3, <1>4 DEF InCount
<1>5. ASSUME NEW c \in Worker, WorkerStep(c)
      PROVE  (Len(inList) + Cardinality(InUse) + (IF Ended THEN 1 ELSE 0) = Limit)'
  <2>1. call' = call /\ Ended' = Ended /\ ~Aborted
    BY <1>5, WorkerEffects DEF Ended, Aborted
  <2>2. CASE DropIn(c)
    <3>1. InUse' = InUse \ {cur[c]} /\ cur[c] \in InUse
      BY <2>2, InUseStep
    <3>2. Cardinality(InUse') = Cardinality(InUse) - 1
      BY <1>2, <3>1, FS_RemoveElement
    <3>3. Job(cur[c]).in \in Space
      BY <1>2, <3>1, ContentType
    <3>4. inList' = <<Job(cur[c]).in>> \o inList
      BY <2>2 DEF DropIn
    <3>5. Len(inList') = Len(inList) + 1
      BY <1>1, <3>3, <3>4
    <3> QED
      BY <1>1, <1>2, <1>3, <2>1, <3>2, <3>5 DEF InCount
  <2>3. CASE GetJob(c) \/ NoMoreJobs(c) \/ Deflate(c) \/ Check(c) \/ DropDict(c)
             \/ AddResult(c)
    <3>1. inList' = inList
      BY <2>3 DEF GetJob, NoMoreJobs, Deflate, Check, DropDict, AddResult, pools
    <3>2. InUse' = InUse
      BY <2>3, InUseStep
    <3> QED
      BY <1>4, <2>1, <3>1, <3>2
  <2> QED
    BY <1>5, <2>2, <2>3 DEF WorkerStep
<1>6. CASE WriterStep \/ UNCHANGED vars
  <2>1. call' = call /\ inList' = inList /\ pc'["reader"] = pc["reader"]
    BY <1>6, WriterEffects DEF vars, pools
  <2>2. Ended' = Ended /\ ~Aborted
    BY <2>1 DEF Ended, Aborted
  <2>3. InUse' = InUse
    BY <1>6, InUseStep
  <2> QED
    BY <1>4, <2>1, <2>2, <2>3
<1>7. CASE ReaderStep
  <2>1. call' = call /\ ~Aborted
    BY <1>7, ReaderEffects DEF ReaderStep, GetIn, GetOut, Load, SetDictionary, AddJob,
                               EndOfInput, CloseJobs, Join
  <2>2. CASE GetIn
    <3>1. InUse' = InUse \cup {Last + 1} /\ Last + 1 \notin InUse
      BY <1>1, <1>2, <2>2, InUseStep
    <3>2. Cardinality(InUse') = Cardinality(InUse) + 1
      BY <1>2, <3>1, FS_AddElement
    <3>3. inList' = Tail(inList) /\ inList # <<>> /\ pc["reader"] = "get_in"
      BY <2>2 DEF GetIn
    <3>4. Len(inList') = Len(inList) - 1
      BY <1>1, <3>3, HeadTailProperties
    <3>5. ~Ended /\ ~Ended'
      BY <2>2, <3>3, GetInJobs DEF Ended
    <3> QED
      BY <1>1, <1>2, <1>3, <2>1, <3>2, <3>4, <3>5 DEF InCount
  <2>3. CASE EndOfInput
    <3>1. InUse' = InUse \ {Last} /\ Last \in InUse
      BY <2>3, InUseStep
    <3>2. Cardinality(InUse') = Cardinality(InUse) - 1
      BY <1>2, <3>1, FS_RemoveElement
    <3>3. ~Ended /\ Ended' /\ inList' = inList
      BY <2>3, EndOfInputJobs DEF Ended, EndOfInput
    <3> QED
      BY <1>1, <1>2, <1>3, <2>1, <3>2, <3>3 DEF InCount
  <2>4. CASE SetDictionary
    <3>1. InUse' = InUse /\ inList' = inList /\ pc["reader"] = "dict"
      BY <2>4, InUseStep DEF SetDictionary
    <3>2. Ended' = Ended
      BY <2>4, <3>1, SetDictionaryJobs DEF Ended
    <3> QED
      BY <1>4, <2>1, <3>1, <3>2
  <2>5. CASE GetOut \/ Load \/ AddJob \/ CloseJobs \/ Join
    <3>1. InUse' = InUse
      BY <2>5, InUseStep
    <3>2. inList' = inList
      BY <2>5 DEF GetOut, Load, AddJob, CloseJobs, Join, pools
    <3>3. CASE GetOut \/ Load \/ AddJob
      <4>1. pc["reader"] \in {"get_out", "load", "add"}
        BY <3>3 DEF GetOut, Load, AddJob
      <4>2. pc'["reader"] \in {"load", "eof", "get_in", "add", "dict"}
        BY <3>3, Moved DEF GetOut, Load, AddJob, TypeInv, ReaderAt
      <4>3. Ended' = Ended
        BY <4>1, <4>2 DEF Ended
      <4> QED
        BY <1>4, <2>1, <3>1, <3>2, <4>3
    <3>4. CASE CloseJobs \/ Join
      <4>1. pc["reader"] \in {"close", "join"}
        BY <3>4 DEF CloseJobs, Join
      <4>2. pc'["reader"] \in {"join", "done"}
        BY <3>4, Moved DEF CloseJobs, Join, TypeInv, ReaderAt
      <4>3. Ended' = Ended
        BY <4>1, <4>2 DEF Ended
      <4> QED
        BY <1>4, <2>1, <3>1, <3>2, <4>3
    <3> QED
      BY <2>5, <3>3, <3>4
  <2> QED
    BY <1>7, <2>2, <2>3, <2>4, <2>5 DEF ReaderStep
<1> QED
  BY <1>5, <1>6, <1>7 DEF Next, Returned

LEMMA DictCountStep ==
    TypeInv /\ ReaderInv /\ PlaceInv /\ JoinInv /\ DictCount /\ [Next]_vars => DictCount'
<1> SUFFICES ASSUME TypeInv, ReaderInv, PlaceInv, JoinInv, DictCount, [Next]_vars
             PROVE  DictCount'
  OBVIOUS
<1> USE DEF At
<1> DEFINE InDrop(c, j) == pc[c] = "drop_in" /\ cur[c] = j
<1>1. Last \in Int /\ Last >= -1 /\ Limit \in Nat
  BY Numbers
<1>2. /\ InUse \subseteq 0 .. Last
      /\ \A W : W \subseteq InUse => IsFiniteSet(W) /\ Cardinality(W) \in Nat
  <2>1. InUse \subseteq 0 .. Last
    BY JobsInUse
  <2>2. IsFiniteSet(0 .. Last)
    BY <1>1, FS_Interval
  <2>3. ASSUME NEW W, W \subseteq InUse
        PROVE  IsFiniteSet(W) /\ Cardinality(W) \in Nat
    BY <2>1, <2>2, <2>3, FS_Subset, FS_CardinalityType
  <2> QED
    BY <2>1, <2>3
<1>3. WithDict \subseteq InUse /\ IsFiniteSet(WithDict) /\ Cardinality(WithDict) \in Nat
  <2>1. WithDict \subseteq InUse
    BY DEF WithDict
  <2> QED
    BY <2>1, <1>2
<1>4. call' = call => Limit' = Limit
  BY SameSpaces
<1>5. \A j : j \in WithDict <=> /\ j \in InUse /\ Job(j).dict # NoData
                                /\ \A c \in Worker : ~InDrop(c, j)
  BY DEF WithDict
<1>6. \A j : j \in WithDict' <=> /\ j \in InUse' /\ Job(j)'.dict # NoData
                                 /\ \A c \in Worker : ~InDrop(c, j)'
  BY DEF WithDict
<1>7. ASSUME call' = call, dictFree' = dictFree, WithDict' = WithDict, Aborted' = Aborted
      PROVE  DictCount'
  BY <1>4, <1>7 DEF DictCount
<1> HIDE DEF InDrop
<1>8. ASSUME NEW c \in Worker, WorkerStep(c)
      PROVE  DictCount'
  <2>1. /\ call' = call /\ Aborted' = Aborted /\ ~Aborted
        /\ \A j \in InUse : Job(j)'.dict = Job(j).dict
    <3>1. ~Aborted
      BY <1>8 DEF WorkerStep, GetJob, NoMoreJobs, Deflate, Check, DropDict, DropIn,
                  AddResult
    <3> QED
      BY <1>2, <1>8, <3>1, WorkerEffects DEF Aborted
  <2>2. \A d \in Worker : d # c => \A j : InDrop(d, j)' = InDrop(d, j)
    BY <1>8, WorkerEffects DEF InDrop
  <2>3. CASE DropDict(c)
    <3>1. pc[c] = "drop_dict" /\ pc'[c] = "drop_in" /\ cur' = cur
      BY <2>3, Moved DEF DropDict, TypeInv, WorkerAt
    <3>2. InUse' = InUse
      BY <2>3, InUseStep
    <3>3. cur[c] \in InUse
      BY <3>1 DEF InUse
    <3>4. \A j : InDrop(c, j)' <=> j = cur[c]
      BY <3>1 DEF InDrop
    <3>5. \A j : ~InDrop(c, j)
      BY <3>1 DEF InDrop
    <3>6. \A d \in Worker : ~InDrop(d, cur[c])
      BY <3>1 DEF InDrop, PlaceInv, Working
    <3>7. WithDict' = WithDict \ {cur[c]}
      BY <1>5, <1>6, <2>1, <2>2, <3>2, <3>4, <3>5
    <3>8. cur[c] \in WithDict <=> Job(cur[c]).dict # NoData
      BY <1>5, <3>3, <3>6
    <3>9. Cardinality(WithDict') = IF Job(cur[c]).dict = NoData THEN Cardinality(WithDict)
                                   ELSE Cardinality(WithDict) - 1
      BY <1>3, <3>7, <3>8, FS_RemoveElement
    <3>10. dictFree' = IF Job(cur[c]).dict = NoData THEN dictFree ELSE dictFree + 1
      BY <2>3 DEF DropDict
    <3>11. WithDict' \subseteq InUse
      BY <1>3, <3>7
    <3>12. Cardinality(WithDict') \in Nat
      BY <1>2, <3>11
    <3> QED
      BY <1>1, <1>3, <1>4, <2>1, <3>9, <3>10, <3>12 DEF DictCount
  <2>4. CASE DropIn(c)
    <3>1. pc[c] = "drop_in" /\ pc'[c] = "add" /\ cur' = cur /\ dictFree' = dictFree
      BY <2>4, Moved DEF DropIn, TypeInv, WorkerAt
    <3>2. InUse' = InUse \ {cur[c]} /\ cur[c] \in InUse
      BY <2>4, InUseStep
    <3>3. \A j : InDrop(c, j) <=> j = cur[c]
      BY <3>1 DEF InDrop
    <3>4. \A j : ~InDrop(c, j)'
      BY <3>1 DEF InDrop
    <3>5. \A j : j \in WithDict' <=> j \in WithDict
      <4>1. \A j : (\A d \in Worker : ~InDrop(d, j))
                     <=> j # cur[c] /\ (\A d \in Worker : d # c => ~InDrop(d, j))
        BY <1>8, <3>3
      <4>2. \A j : (\A d \in Worker : ~InDrop(d, j)')
                     <=> (\A d \in Worker : d # c => ~InDrop(d, j))
        BY <1>8, <2>2, <3>4
      <4> QED
        BY <1>5, <1>6, <2>1, <3>2, <4>1, <4>2
    <3>6. WithDict' = WithDict
      BY <3>5
    <3> QED
      BY <1>7, <2>1, <3>1, <3>6
  <2>5. CASE GetJob(c) \/ NoMoreJobs(c) \/ Deflate(c) \/ Check(c) \/ AddResult(c)
    <3>1. InUse' = InUse
      BY <2>5, InUseStep
    <3>2. dictFree' = dictFree
      BY <2>5 DEF GetJob, NoMoreJobs, Deflate, Check, AddResult, pools
    <3>3. pc[c] # "drop_in" /\ pc'[c] # "drop_in"
      BY <2>5, Moved DEF GetJob, NoMoreJobs, Deflate, Check, AddResult, TypeInv, WorkerAt
    <3>4. \A j : ~InDrop(c, j) /\ ~InDrop(c, j)'
      BY <3>3 DEF InDrop
    <3>5. WithDict' = WithDict
      BY <1>5, <1>6, <2>1, <2>2, <3>1, <3>4
    <3> QED
      BY <1>7, <2>1, <3>2, <3>5
  <2> QED
    BY <1>8, <2>3, <2>4, <2>5 DEF WorkerStep
<1>9. CASE WriterStep \/ UNCHANGED vars
  <2>1. /\ call' = call /\ pc'["reader"] = pc["reader"] /\ jobs' = jobs /\ cur' = cur
        /\ \A c \in Worker : pc'[c] = pc[c]
    BY <1>9, WriterEffects DEF vars
  <2>2. dictFree' = dictFree
    BY <1>9 DEF WriterStep, FetchJob, FetchNull, AddLength, WriteOut, Combine, FreeJob,
                PutTrailer, pools, vars
  <2>3. InUse' = InUse
    BY <1>9, InUseStep
  <2>4. WithDict' = WithDict
    BY <2>1, <2>3 DEF WithDict, Job
  <2> QED
    BY <1>7, <2>1, <2>2, <2>4 DEF Aborted
<1>10. CASE ReaderStep
  <2>1. /\ call' = call /\ ~Aborted
        /\ \A c \in Worker : \A j : InDrop(c, j)' = InDrop(c, j)
    BY <1>10, ReaderEffects DEF InDrop, ReaderStep, GetIn, GetOut, Load, SetDictionary,
                                AddJob, EndOfInput, CloseJobs, Join
  <2>2. CASE GetIn
    <3>1. InUse' = InUse \cup {Last + 1}
      BY <2>2, InUseStep
    <3>2. \A j \in InUse : Job(j)'.dict = Job(j).dict
      BY <1>2, <2>2, GetInJobs
    <3>3. \A j : j = Last + 1 => Job(j)'.dict = NoData
      BY <2>2, GetInJobs
    <3>4. WithDict' = WithDict
      BY <1>5, <1>6, <2>1, <3>1, <3>2, <3>3
    <3>5. dictFree' = dictFree /\ Aborted' = Aborted
      BY <2>2, GetInJobs DEF GetIn, Aborted
    <3> QED
      BY <1>7, <2>1, <3>4, <3>5
  <2>3. CASE EndOfInput
    <3>1. InUse' = InUse \ {Last} /\ Last \in InUse
      BY <2>3, InUseStep
    <3>2. \A j \in InUse : Job(j)'.dict = Job(j).dict
      BY <1>2, <2>3, EndOfInputJobs
    <3>3. Job(Last).dict = NoData
      <4>1. pc["reader"] = "eof" /\ Last \in 0 .. Last
        BY <2>3, <1>2, <3>1 DEF EndOfInput
      <4>2. Last \notin Loaded
        BY <1>1, <4>1 DEF Loaded
      <4> QED
        BY <4>1, <4>2 DEF JoinInv
    <3>4. WithDict' = WithDict
      BY <1>5, <1>6, <2>1, <3>1, <3>2, <3>3
    <3>5. dictFree' = dictFree /\ Aborted' = Aborted
      BY <2>3, EndOfInputJobs DEF EndOfInput, Aborted
    <3> QED
      BY <1>7, <2>1, <3>4, <3>5
  <2>4. CASE SetDictionary
    <3>1. dictFree > 0 /\ dictFree' = dictFree - 1 /\ pc["reader"] = "dict"
      BY <2>4 DEF SetDictionary
    <3>2. CASE Aborted'
      BY <1>1, <1>4, <2>1, <3>1, <3>2 DEF DictCount
    <3>3. CASE ~Aborted'
      <4>1. InUse' = InUse
        BY <2>4, <3>3, InUseStep
      <4>2. \A j \in InUse : j # Last => Job(j)'.dict = Job(j).dict
        BY <1>2, <2>4, SetDictionaryJobs
      <4>3. Last \in 0 .. Last /\ Last >= 1
        BY <1>1, <2>4, SetDictionaryJobs
      <4>4. Job(Last).dict = NoData
        BY <3>1, <4>3 DEF JoinInv
      <4>5. \A j : j = Last => Job(j)'.dict # NoData
        <5>1. Dict # 0
          BY DeflateAssumption
        <5> QED
          BY <2>4, <3>3, <5>1, SetDictionaryJobs DEF NoData, Aborted
      <4>6. Last \in WithReader
        BY <1>1, <3>1, <4>3 DEF WithReader
      <4>7. Last \in InUse /\ Last \notin Queued
        BY <4>6, JobsInUse
      <4>8. \A c \in Worker : ~InDrop(c, Last)
        BY <4>7 DEF InDrop, PlaceInv, Working
      <4>9. WithDict' = WithDict \cup {Last} /\ Last \notin WithDict
        BY <1>5, <1>6, <2>1, <4>1, <4>2, <4>4, <4>5, <4>7, <4>8
      <4>10. Cardinality(WithDict') = Cardinality(WithDict) + 1
        BY <1>3, <4>9, FS_AddElement
      <4> QED
        BY <1>1, <1>3, <1>4, <2>1, <3>1, <4>10 DEF DictCount
    <3> QED
      BY <3>2, <3>3
  <2>5. CASE GetOut \/ Load \/ AddJob \/ CloseJobs \/ Join
    <3>1. InUse' = InUse
      BY <2>5, InUseStep
    <3>2. dictFree' = dictFree /\ jobs' = jobs
      BY <2>5 DEF GetOut, Load, AddJob, CloseJobs, Join, pools
    <3>3. pc'["reader"] \in ReaderAt \ {"aborted"}
      BY <2>5, Moved DEF GetOut, Load, AddJob, CloseJobs, Join, TypeInv, ReaderAt
    <3>4. \A j \in InUse : Job(j)'.dict = Job(j).dict
      BY <3>2 DEF Job
    <3>5. WithDict' = WithDict
      BY <1>5, <1>6, <2>1, <3>1, <3>4
    <3>6. Aborted' = Aborted
      BY <2>1, <3>3 DEF Aborted
    <3> QED
      BY <1>7, <2>1, <3>2, <3>5, <3>6
  <2> QED
    BY <1>10, <2>2, <2>3, <2>4, <2>5 DEF ReaderStep
<1> QED
  BY <1>8, <1>9, <1>10 DEF Next, Returned

LEMMA RestStep ==
    TypeInv /\ ReaderInv /\ PlaceInv /\ RestInv /\ [Next]_vars => RestInv'
<1> SUFFICES ASSUME TypeInv, ReaderInv, PlaceInv, RestInv, [Next]_vars
             PROVE  RestInv'
  OBVIOUS
<1> USE DEF At
<1>1. /\ \A c \in Worker : c \in Thread \ {"reader"}
      /\ \A t \in Thread \ {"reader"} : t = "writer" \/ t \in Worker
      /\ "writer" \in Thread \ {"reader"}
  BY DeflateAssumption DEF Thread
<1>2. ASSUME NEW c \in Worker, WorkerStep(c)
      PROVE  RestInv'
  <2>1. /\ pc'["reader"] = pc["reader"] /\ pc'["writer"] = pc["writer"]
        /\ \A d \in Worker : d # c => pc'[d] = pc[d] /\ cur'[d] = cur[d]
    BY <1>2, WorkerEffects
  <2>2. ulen' = ulen /\ crcOk' = crcOk
    BY <1>2 DEF WorkerStep, GetJob, NoMoreJobs, Deflate, Check, DropDict, DropIn,
                AddResult, output
  <2>3. c \in Working' \/ cur'[c] = NoJob
    <3>1. CASE GetJob(c) \/ Deflate(c) \/ Check(c) \/ DropDict(c) \/ DropIn(c)
      <4>1. pc'[c] \in {"deflate", "check", "drop_dict", "drop_in", "add"}
        BY <3>1, Moved DEF GetJob, Deflate, Check, DropDict, DropIn, TypeInv, WorkerAt
      <4> QED
        BY <4>1 DEF Working
    <3>2. CASE NoMoreJobs(c)
      <4>1. pc[c] = "get_job" /\ cur' = cur
        BY <3>2 DEF NoMoreJobs
      <4> QED
        BY <4>1 DEF RestInv, Working
    <3>3. CASE AddResult(c)
      BY <3>3 DEF AddResult, TypeInv
    <3> QED
      BY <1>2, <3>1, <3>2, <3>3 DEF WorkerStep
  <2>4. \A d \in Worker \ Working' : cur'[d] = NoJob
    BY <2>1, <2>3 DEF RestInv, Working
  <2>5. pc[c] # "done"
    BY <1>2 DEF WorkerStep, GetJob, NoMoreJobs, Deflate, Check, DropDict, DropIn, AddResult
  <2>6. pc'["reader"] # "done"
    BY <1>1, <2>1, <2>5 DEF RestInv
  <2> QED
    BY <2>2, <2>4, <2>6 DEF RestInv
<1>3. CASE WriterStep
  <2>1. /\ UNCHANGED <<len, jobs, cur>> /\ pc'["reader"] = pc["reader"]
        /\ \A c \in Worker : pc'[c] = pc[c]
    BY <1>3, WriterEffects
  <2>2. pc["writer"] # "done"
    BY <1>3 DEF WriterStep, FetchJob, FetchNull, AddLength, WriteOut, Combine, FreeJob,
                PutTrailer
  <2>3. ulen' \in Nat /\ crcOk' \in BOOLEAN
    <3>1. CASE AddLength
      <4>1. seq \in 0 .. Last
        BY <3>1, InHand DEF AddLength
      <4>2. Job(seq).in \in Space
        BY <4>1, ContentType
      <4>3. len[Job(seq).in] \in Nat
        BY <4>2, Numbers DEF TypeInv
      <4> QED
        BY <3>1, <4>3 DEF AddLength, RestInv
    <3>2. CASE Combine
      BY <3>2 DEF Combine, RestInv
    <3>3. CASE FetchJob \/ FetchNull \/ WriteOut \/ FreeJob \/ PutTrailer
      BY <3>3 DEF FetchJob, FetchNull, WriteOut, FreeJob, PutTrailer, output, RestInv
    <3> QED
      BY <1>3, <3>1, <3>2, <3>3 DEF WriterStep
  <2>4. pc'["reader"] # "done"
    BY <1>1, <2>1, <2>2 DEF RestInv
  <2> QED
    BY <2>1, <2>3, <2>4 DEF RestInv, Working
<1>4. CASE ReaderStep
  <2>1. /\ cur' = cur /\ pc'["writer"] = pc["writer"]
        /\ \A c \in Worker : pc'[c] = pc[c]
    BY <1>4, ReaderEffects
  <2>2. ulen' = ulen /\ crcOk' = crcOk
    BY <1>4 DEF ReaderStep, GetIn, GetOut, Load, SetDictionary, AddJob, EndOfInput,
                CloseJobs, Join, output
  <2>3. Join \/ pc'["reader"] # "done"
    BY <1>4, Moved DEF ReaderStep, GetIn, GetOut, Load, SetDictionary, AddJob, EndOfInput,
                       CloseJobs, TypeInv, ReaderAt
  <2>4. Join => \A t \in Thread \ {"reader"} : pc[t] = "done"
    BY DEF Join
  <2>5. \A t \in Thread \ {"reader"} : pc'[t] = pc[t]
    BY <1>1, <2>1
  <2>6. pc'["reader"] = "done" => \A t \in Thread \ {"reader"} : pc'[t] = "done"
    BY <2>3, <2>4, <2>5
  <2>7. Thread' = Thread
    BY DEF Thread
  <2> QED
    BY <2>1, <2>2, <2>6 DEF RestInv, Working
<1>5. CASE UNCHANGED vars
  BY <1>5 DEF vars, output, RestInv, Working
<1> QED
  BY <1>2, <1>3, <1>4, <1>5 DEF Next, Returned

LEMMA CountInvariant == Spec => [](IInv /\ CountInv)
<1>1. Init => CountInv
  BY CountInit
<1>2. IInv /\ CountInv /\ [Next]_vars => CountInv'
  BY OutCountStep, DictCountStep, InCountStep, RestStep DEF IInv, CountInv
<1> QED
  BY <1>1, <1>2, Invariant, PTL DEF Spec

(* What the variables hold in every reachable state: no pool has more        *)
(* spaces than it was made with, so that none is given back twice.          *)
THEOREM TypeCorrect == Spec => []TypeOK
<1>1. IInv /\ CountInv => TypeOK
  <2> SUFFICES ASSUME IInv, CountInv
               PROVE  TypeOK
    OBVIOUS
  <2>1. TypeInv /\ ReaderInv /\ PlaceInv
    BY DEF IInv
  <2>2. Last \in Int /\ Last >= -1 /\ Limit \in Nat /\ seq \in Nat
    BY <2>1, Numbers DEF TypeInv
  <2>3. \A j \in 0 .. Last : /\ Job(j).in \in Space /\ Job(j).more \in BOOLEAN
                             /\ Job(j).dict \in Interval /\ Job(j).check \in Interval
    BY <2>1, Numbers DEF JobRecord
  <2>4. Elements(jobQueue) \cup writeQueue \subseteq 0 .. Last
    BY <2>1, InHand DEF PlaceInv
  <2>5. jobQueue \in Seq(0 .. Last)
    <3>1. jobQueue \in Seq(Int)
      BY <2>1 DEF TypeInv
    <3>2. \A i \in 1 .. Len(jobQueue) : jobQueue[i] \in 0 .. Last
      BY <2>4, <3>1, LenProperties DEF Elements
    <3>3. jobQueue \in [1 .. Len(jobQueue) -> 0 .. Last] /\ Len(jobQueue) \in Nat
      BY <3>1, <3>2, LenProperties
    <3> QED
      BY <3>3, SeqDef
  <2>6. cur \in [Worker -> 0 .. Last \cup {NoJob}]
    <3>1. \A c \in Worker : cur[c] \in 0 .. Last \cup {NoJob}
      BY <2>1, InHand DEF CountInv, RestInv, Working
    <3> QED
      BY <2>1, <3>1 DEF TypeInv
  <2>7. outFree \in 0 .. Limit
    <3>1. seq = 0 \/ seq - 1 \in Queued
      BY <2>1, <2>2 DEF Taken, PlaceInv
    <3>2. seq <= LastWithOut + 1 /\ LastWithOut \in Int
      BY <2>1, <2>2, <3>1 DEF LastWithOut, Queued, ReaderInv
    <3> QED
      BY <2>2, <3>2 DEF CountInv, OutCount
  <2>8. dictFree \in 0 .. Limit /\ ulen \in Nat /\ crcOk \in BOOLEAN
    BY DEF CountInv, DictCount, RestInv
  <2> QED
    BY <2>1, <2>2, <2>3, <2>4, <2>5, <2>6, <2>7, <2>8 DEF TypeOK, TypeInv, PcInv
<1> QED
  BY <1>1, CountInvariant, PTL

(* DictNeverBlocks: the reader never waits in set_dictionary, where it holds *)
(* the input space of the block before: every dictionary in use belongs to a *)
(* job that holds an input space as well, and the newest job has none yet.  *)
THEOREM ReaderNeverWaitsForADictionary == Spec => []DictNeverBlocks
<1>1. IInv /\ CountInv => DictNeverBlocks
  <2> SUFFICES ASSUME IInv, CountInv, pc["reader"] = "dict"
               PROVE  dictFree > 0
    BY DEF DictNeverBlocks
  <2>1. TypeInv /\ ReaderInv /\ PlaceInv /\ JoinInv /\ ~Aborted
    BY DEF IInv, Aborted
  <2>2. Last \in Int /\ Last >= 1 /\ Limit \in Nat /\ Len(inList) \in Nat
    BY <2>1, Numbers, LenProperties DEF TypeInv, ReaderInv
  <2>3. InUse \subseteq 0 .. Last /\ WithReader \subseteq InUse
    BY <2>1, JobsInUse
  <2>4. IsFiniteSet(InUse) /\ Cardinality(InUse) \in Nat
    <3>1. IsFiniteSet(0 .. Last)
      BY <2>2, FS_Interval
    <3> QED
      BY <2>3, <3>1, FS_Subset, FS_CardinalityType
  <2>5. Last \in InUse
    BY <2>2, <2>3 DEF WithReader
  <2>6. Job(Last).dict = NoData
    BY <2>1, <2>2 DEF JoinInv
  <2>7. WithDict \subseteq InUse \ {Last}
    BY <2>6 DEF WithDict
  <2>8. IsFiniteSet(InUse \ {Last}) /\ Cardinality(InUse \ {Last}) = Cardinality(InUse) - 1
    BY <2>4, <2>5, FS_RemoveElement
  <2>9. Cardinality(WithDict) <= Cardinality(InUse \ {Last}) /\ Cardinality(WithDict) \in Nat
    BY <2>7, <2>8, FS_Subset, FS_CardinalityType
  <2>10. Cardinality(InUse) <= Limit
    BY <2>1, <2>2, <2>4 DEF CountInv, InCount
  <2> QED
    BY <2>1, <2>2, <2>4, <2>8, <2>9, <2>10 DEF CountInv, DictCount
<1> QED
  BY <1>1, CountInvariant, PTL

(* PoolsRefilled: when the threads have returned, no space is missing but    *)
(* the input space of the job that met the end of the input.                *)
THEOREM SpacesComeBack == Spec => []PoolsRefilled
<1>1. IInv /\ CountInv => PoolsRefilled
  <2> SUFFICES ASSUME IInv, CountInv, pc["reader"] = "done"
               PROVE  outFree = Limit /\ dictFree = Limit /\ Len(inList) = Limit - 1
    BY DEF PoolsRefilled
  <2>1. TypeInv /\ ReaderInv /\ PlaceInv /\ EndInv /\ ~Aborted /\ Ended
    BY DEF IInv, Aborted, Ended
  <2>2. /\ Last \in Int /\ Limit \in Nat /\ Len(inList) \in Nat
        /\ call.threads \subseteq Worker /\ call.threads # {}
    BY <2>1, Numbers, LenProperties DEF TypeInv, CallRecords
  <2>3. \A t \in Thread \ {"reader"} : pc[t] = "done"
    BY DEF CountInv, RestInv
  <2>4. pc["writer"] = "done" /\ \A c \in Worker : pc[c] = "done"
    BY <2>3, DeflateAssumption DEF Thread
  <2>5. jobQueue = <<>> /\ seq = Last
    BY <2>1, <2>2, <2>4 DEF EndInv
  <2>6. InUse = {} /\ WithDict = {}
    BY <2>4, <2>5 DEF InUse, WithReader, WithDict
  <2>7. Cardinality({}) = 0
    BY FS_EmptySet
  <2>8. outFree = Limit
    BY <2>2, <2>5 DEF CountInv, OutCount, LastWithOut
  <2>9. dictFree = Limit /\ Len(inList) = Limit - 1
    BY <2>1, <2>2, <2>6, <2>7 DEF CountInv, DictCount, InCount
  <2> QED
    BY <2>8, <2>9
<1> QED
  BY <1>1, CountInvariant, PTL

=============================================================================
