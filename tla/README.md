# A specification of the parallelized gzip prototype

TLA+ modules that describe how this gzip compresses a file with several threads,
how it decompresses each of the formats it knows, what it calls its files and how it
replaces them, TLC runs that check this on small instances,
and proofs checked by TLAPS for every number of threads, buffers and files.

## 1. The system

`gzip` walks over its arguments (`main`, `treat_file`, `treat_stdin` in
`gzip.c`), opens an input and an output file, and hands two file descriptors to
a worker: `zip` (compression, `zip.c` and `deflate.c`) or `unzip`, `unlzw`,
`unpack`, `unlzh` (decompression).  Compression is what this program adds to GNU
gzip, and is parallel:

    reader (main thread)        compress threads           write thread
    deflate_file_parallel       compress_thread x P        write_thread
      new_job, load_job   --->   get_job_bgn         --->   get_job_seq
      set_dictionary             deflate, crc32             write, crc32_combine
      add_job_end                finished_processing        free_job
      close_job_queue            add_job_bgn                put_trailer
            |                       |                          |
            +--------- pools of input, output, dictionary spaces

| Component | State | Operations | Hard because | Correct if |
|---|---|---|---|---|
| Pools (`parallel.c`, `space_t`, `pool_t`) | free list, semaphores `have` and `safe` | `get_space`, `drop_space` | spaces are got and given back by different threads; the list head is dereferenced unchecked | one user per space, none lost, the head is never NULL |
| Compress queue (`job_queue_t`, unordered) | list, tail, len, semaphores `active` and `use`, `closed` | `add_job_end`, `close_job_queue`, `get_job_bgn` | the end is one unit of a semaphore that is passed on | FIFO, each job once, every thread told the end, and not before it |
| Write queue (`job_queue_t`, ordered) | the same, and a condition variable | `add_job_bgn`, `close_job_queue`, `get_job_seq` | blocks come in any order; `closed` and the list are read without the lock; the condition is never reset | blocks by number, none lost, no early NULL, no lost wake-up |
| Parallel compression (`deflate.c`, `parallel.c`) | jobs, three pools, two queues, output file | `deflate_file_parallel`, `compress_thread`, `write_thread` | buffers are reused while others are in flight; three pools may run dry | the file one thread would write, for every input; the threads end |
| Bytes out (`writen`, `put`) | pointer and rest | `writen` | short writes, errors | all bytes once, in order, or an error |
| gzip decompression (`inflate.c`, `unzip.c`) | zlib stream, 16 KiB buffers | `inflate_file` | members that end anywhere in a buffer, short reads and writes, errors ignored | the concatenated members, and errors are reported |
| Life of a file (`treat_file`, `create_outfile`, signal handlers) | input, output, `remove_ofname_fd`, exit code | open, work, sync, close, unlink | signals and crashes between the steps | at every moment one complete copy of the data |
| Standard input (`treat_stdin`, `fill_inbuf`) | the file `tempfd` | spool, rewind, unlink | shared fixed name, no truncation; the copy is a side effect of `fill_inbuf` | `tempfd` holds all that came in |
| Input and output buffers (`util.c`) | `inbuf`, `inptr`, `outbuf`, `outcnt` | `fill_inbuf`, `flush_outbuf`, `flush_window` | partial buffers | the bytes of the file in order |
| Formats (`get_method`, `unlzw.c`, `unpack.c`, `unlzh.c`) | tables, bit buffers | header walk, table building, decoding | corrupt input, code widths | the inverse of the format; tables stay within bounds |
| Names (`get_suffix`, `make_ofname`, `shorten_name`, `treat_dir`) | `ifname`, `ofname`, the entries of a directory | suffix rules, cutting, `-r` | look-alike suffixes, short name limits, names that are taken | no data is lost by a name; a name comes back |
| Old encoder (`trees.c`, `bits.c`), sequential `deflate_file` | | none called any more | | |
| Options, `do_list`, wrappers, gnulib | | | no concurrency, no lasting state | |

`PROJECT.json` lists the hazards line by line; section 6 says what is not modelled.

## 2. The modules

| Module | Models |
|---|---|
| `BufferBank` | what a pool promises: each space is free or lent to one client |
| `SpacePool` | `get_space` and `drop_space`, one step per semaphore operation and per access to the list |
| `MCSpacePool` | symmetry for the run of `SpacePool` |
| `ClosableQueue` | what the compress queue promises: a FIFO that can be closed |
| `JobQueue` | `add_job_end`, `close_job_queue`, `get_job_bgn`, one step per semaphore operation and critical section |
| `LockedListsProofs` | theorems about `SpacePool` and `JobQueue`, the two lists that a counting and a binary semaphore guard; names that both need have `Pool` or `Space` in `SpacePool` |
| `SeqMailbox` | what the write queue promises: blocks in any order in, by number out |
| `WriteQueue` | `add_job_bgn`, `close_job_queue`, `condition_t`, `get_job_seq` with its unlocked reads |
| `WriteQueueProofs` | theorems about `WriteQueue` |
| `SequentialDeflate` | what parallel compression promises: the file of a single thread |
| `ParallelDeflate` | reader, compress threads and writer over pools and queues that work in one step |
| `MCParallelDeflate` | the calls of `deflate_file_parallel` in the runs |
| `ParallelDeflateProofs` | theorems about `ParallelDeflate` |
| `Writen` | `writen` and its callers: every `write()` may be short or fail |
| `Gunzip` | decompression from descriptor to descriptor: `get_method`, `input_eof`, the loops over members, `treat_stdin` with `tempfd`, `fill_inbuf`, `unzip`, `inflate_file`, the window; it extends `Writen`, which is at the other end of standard input |
| `MCGunzip` | the inputs in the runs of `Gunzip` |
| `GunzipProofs` | theorems about `Writen` and `Gunzip` |
| `OldFormats` | what the models of the older formats share |
| `Unlzw` | `unlzw`: codes of growing width, groups, the table, the clear code |
| `UnlzwProofs` | theorems about `Unlzw`: its table for any bits, its output for compressed files |
| `Unpack` | `unpack`: `read_tree`, `build_tree`, the decoding loop |
| `UnpackProofs` | the theorem about `Unpack`: it inverts the format, for any bytes |
| `Unlzh` | `unlzh`: `fillbuf`, `make_table`, `decode_c`, `decode_p`, the window of `decode` |
| `Decoders` | the three of them behind `get_method`; it extends `Unlzw` and `Unpack`, whose variables are therefore named apart |
| `MCDecoders` | files in the three formats, with a compressor for the format of `unlzw` |
| `ReplaceFiles` | what the program promises about each file: a second copy before the first is given up |
| `FileLife` | `treat_file`, `create_outfile`, `check_ofname`, `remove_output_file`, the signal handlers, and a system crash |
| `MCFileLife` | the directories in the run of `FileLife` |
| `FileLifeProofs` | theorems about `FileLife`: at every moment, and when it has ended |
| `FileNames` | `get_suffix`, `open_input_file`, `make_ofname`, `create_outfile`, `shorten_name`, `check_ofname`, `treat_dir`, over one command after another |
| `MCFileNames` | directories and commands in the run of `FileNames` |
| `FileNamesProofs` | theorems about `FileNames` |

How the parts are composed.  `ParallelDeflate` takes a space, a job or a block in
one step.  `SpacePool`, `JobQueue` and `WriteQueue` show that the operations may
be taken so: each of them refines an abstract specification (`BufferBank`,
`ClosableQueue`, `SeqMailbox`) whose steps are the ones `ParallelDeflate` takes.
`Gunzip` composes the receiver of a pipe with the `Writen` of a sender.  `FileLife` and
`FileNames` have a worker of one step, which is `ParallelDeflate` or `Gunzip` seen
from `treat_file`: `FileLife` looks at failures and has names that never collide,
`FileNames` looks at names and has no failures.

State and code.  A thread's program counter (`pc[t]`, `at[t]` in `SpacePool`, `stage` in
`Unpack`) names the place in the function, as in `get_unlink` before `pool->head = space->next`.

* `SpacePool`: `freeList` is the list from `pool->head`; `chain[t]` the list reached
  from the local variable `space`, so that a NULL pointer is `<<>>` and the two
  steps "read head" and "write head" can interleave.  `lent` is history: the
  spaces out of the list.  The clients are arbitrary: any idle thread may ask, and
  may drop any lent space, as jobs are handed from thread to thread.
* `JobQueue`: `list` is the list from `head`, `tail` and `len` are kept apart, and
  a job added behind a stale tail is lost.  A job is its number.
* `WriteQueue`: `head` and `next` are pointers, because the writer follows them
  while they change.  The two stores of `add_job_bgn` are a data race with
  `search_job_queue`; `AddLink`/`AddHead` and `AddHeadFirst`/`AddLateLink` are the
  two orders in which they can be seen.  `mutex`, `ready` and `asleep` are the
  condition variable; `pthread_cond_wait` releases the mutex and sleeps in one
  step and may wake up spuriously.  The search of `get_job_seq` that holds the lock
  is one step, as nobody else changes the list then.
* `ParallelDeflate`: `call` holds what `deflate_file_parallel` is called with: the
  length of the input, whether it is a pipe, `--independent`, and the compress threads.
  The input is the units 0 .. `call.len`-1, and data is an interval of it.  Input
  spaces are numbered, reused in LIFO order as in the code, and have `len`; output and
  dictionary spaces are counted.  A compressed block is
  a record of the data it covers, the dictionary used, whether it is final, and
  whether it fit its output space.  The check value is an interval as well: what
  `crc32_combine` returns is right as long as each length given to it is.
* `Writen`: a stream is a sequence of units (a header, a piece of data, the end of a
  member, a letter of a name) with their positions, so that a unit that is sent
  twice, or is none of the buffer's, can be told.  `next` and `left` are the pointer and the rest
  of `writen`, which a failed `write()` moves the wrong way.
* `Gunzip`: `pos` and `tpos` are the offsets of the two descriptors, `temp` the file
  `tempfd`, `inbuf` and `inptr` the buffer (`insize` is its length), `back` the caller of
  `fill_inbuf`.  `zlib` is what the external `inflate()` expects next; each of
  its steps takes a unit or puts one out, and it returns when it must.  `lost` is history: a
  short `write()` that the code does not repeat.  Offsets, names in headers and members
  are there; the check value of a header and the time stamp are not.  A header that `get_method` refuses
  but for `--force --force` is taken with it (gzip.c:1571).  `InputFails` is a `read()` or `lseek()` that fails, for
  which `read_error`, an assertion or `exit` ends the program.  `Content` says what
  should come out: `Reading` is a reader of the formats that goes over the units once, with no
  buffers and no offsets, and knows where it is (`mode`) and what the data so far is.
* `Unlzw`: `inbuf` is a sequence of bits, and the table has the entries that have
  codes; `Strings` are the codes that have a string, which are all but CLEAR, and
  `String` is the inner loop that follows their prefixes.  The format is what `unlzw` reads, said of a
  whole file: a sequence of codes (`Places`: where each is and how wide) that stand for strings
  (`StringIsRight`: a character, or an earlier string and the first character of what followed
  it).  `Compressed` says that a file has this form, or is a piece of such a file from its
  beginning; `Parameters` has it of every file that is not damaged, and so TLC checks
  it of what the compressor in `MCDecoders` makes.  `Unpack`: `packed` is
  the file, `unpacked` what is put out, `bitbuf` the sequence of valid bits; the format is said apart from the code,
  by Kraft's sum (`Weight`), the codes of the leaves (`Codes`) and what a sequence of bits stands for (`Decoded`).  `Unlzh`: `cells` has
  `c_table`, `pt_table`, `left` and `right` with the values of earlier blocks,
  `subbitbuf` and `bitcount` are as in the code, with Width bits.  Bytes, alphabets and
  codes are smaller than the real ones, and each module names the constant it replaces.
* `FileLife`: `file` is the argument being treated and `pc` the place in
  `treat_file`.  `ofname` and `remove_ofname_fd` name the file they were set for, so
  that they can be out of step.  The worker is one step that completes its output; returns `ERROR`
  (`WorkFails`); returns OK although the output is not complete, as `inflate_file` does with damaged data and `zip` with
  what `deflate` or `write` leaves over (`WorkIgnoresError`: such files are `overlooked`, and those of both
  kinds `spoiled`); calls `abort_gzip` (`WorkAborts`); or dies with no call of `remove_output_file`, by an assertion (SIGABRT
  is not in `handled_sig`) or by `exit` (`WorkDies`: inflate.c:57, 73, 85, 87, unzip.c:120, 126, utils.c:30, 40, 51, parallel.c:290,
  574, 603).  A section with signals blocked is one step, or two steps with
  `Blocked` between them, because the system may crash there.  A signal mask is one
  thread's: while compress and write threads run, another of them can take a second signal, or fail an
  assertion, while the first handler is on its way (`threads`, `SecondSignal`, `WorkDies`).  One program counter is
  still enough, because `treat_file` waits for these threads, and what they could do meanwhile is to end the program.
  `synced` and `entered` record
  which data and which directory entries have reached the disk; `SystemCrash` keeps
  these and any part of the rest.
* `FileNames`: names are sequences of characters, `dir` maps them to contents, and a content is
  whose data it is and what was done to it, layer by layer; a layer records as history what the file
  was called before and then, with which suffix, and whether the name was cut.  `todo` has the arguments, each with its
  options, so that files are compressed by one command and decompressed by
  another; `listed` counts those at the front that a directory gave.  `agreed` and `made`
  are history: files that were removed with permission, and outputs of the walk.

Bodies of critical sections are single steps where only the thread inside can see
the difference; mutual exclusion itself is proved.

Definitions marked "mutant" are plausible mistakes in a step; they are in no
behaviour of the specifications and serve to show that a property notices them.

## 3. The runs

| Run | Instance | Shows |
|---|---|---|
| `space_pool` | 4 threads, 3 spaces | no NULL head, no space lost or shared, refinement of `BufferBank` |
| `job_queue` | 1 reader, 3 consumers, up to 3 jobs | exact `active`, consistent links, NULL only when drained, every thread ends, refinement of `ClosableQueue` |
| `write_queue` | 2 compress threads, 0 to 3 blocks | the list survives the races, `assert (result != NULL)` holds, NULL only at the end, every block is fetched, refinement of `SeqMailbox` |
| `parallel_deflate` | 2 compress threads, inputs of 0, 1, 3, 14 units; the same with `--independent` and reads of any length; 1 compress thread, inputs up to 18 units | input spaces stay untouched while used, the reader never waits for a dictionary, pools refill, the file is the sequential one, all threads end |
| `gunzip` | every gzip input of up to five units from a file; members, names, garbage, cut and foreign formats from files and pipes, with and without `--force`, with an old `tempfd` | nothing is skipped, `tempfd` holds the input, the output is the content of the members, every run ends |
| `formats` | compressed texts and damaged ones for `unlzw`, 2000 headers and codes for `unpack`, 8 codes by 3 by 64 inputs for `unlzh` | the decoders invert the formats, chains end, tables decode, only trees are accepted |
| `file_life` | 3 files in 2 directories, every command line, errors, failed assertions, one signal or two, and a crash anywhere | one complete copy at all times, with `--synchronous` also after the crash; which incomplete outputs are left, and what exit status 0 says; only own output removed, refinement of `ReplaceFiles` |
| `file_names` | pairs of 11 names under 6 suffixes there and back, also twice, `-r`, two directories of compressed files under two commands of 24 | the data of each file stays, names come back, suffixes survive the cutting, no output becomes an input, all arguments are treated |
| `trailer_wrong` | 1 block | finding 1 |
| `short_read_aborts` | short reads | finding 2 |
| `block_truncated` | a block that grows | finding 3 |
| `damage_is_silent` | a file that ends in a member | finding 4 |

Bounds.  In `SpacePool` more threads than spaces make `have` block, and two threads
compete for `safe` behind it; nothing in the code distinguishes threads or
spaces, so symmetry is used.  Three jobs and three consumers let consumers race for
the last job, for an empty open queue and for a closed one.  Two compress threads
and three blocks are the least for which a block arrives before, after and between
its neighbours; with `MaxBlocks` the number of blocks is chosen at the start, so that
0 (the writer only ever sees the close) is covered.  Two compress threads give pools
of four spaces; an input of five blocks makes the reader wait for each pool.  One
thread gives pools of two spaces, both of which the reader needs.  A
block of three units with a dictionary of two keeps the proportions that matter: a
dictionary shorter than a block, and short blocks shorter than a dictionary.
In `Gunzip` an `inbuf` of three units, zlib buffers of two and three units of content
per unit of data let members, names and the input end before, at and behind the end of each buffer, and let
the output fill its buffer while input is left; one failed `write()` (`MaxErrors`) is enough for
`writen` to go back, and a second one goes back the same way.  Each decoder has codes
shorter than, as long as and longer than its table's index, and a window or table that is used up and used
again.  Three files are one finished, one being treated and one to come; two of them share a
directory, and the directory between them cannot be opened, so that `dfd` is reused,
replaced, and missing.  Names of up to nine characters are cut in every way of `shorten_name`,
by one character and by several, and two of them are the same when they are cut.

Fairness.  Each thread is weakly fair: it goes on unless it waits, and a thread that
waits for a semaphore gets a unit that stays there.  The number of operations is
finite, so that weak fairness of semaphores is enough for `use`, `active` and the
pools.  The mutex of the write queue's condition is different: the writer polls
(`reset_condition` is commented out at parallel.c:433) and holds the mutex again
and again, so that a compress thread may find it free infinitely often without it
staying free.  `WriteQueue` assumes strong fairness for these two locks
(`SigLock`, `BcLock`); POSIX does not promise it, and without it the termination of
the program depends on the scheduler.  In `Gunzip` sender and receiver are processes
that the scheduler runs (weak fairness of each), and `write()` fails finitely often;
`FileNames` is one process that goes on (weak fairness of its steps).  `FileLife` and the
decoders have safety properties only, and no fairness.

Deadlock is checked in every run but `space_pool`, whose clients are free never to give
a space back.  Threads and programs that have ended are a stuttering step.

## 4. What the runs found

With a run of their own:

1. `write_thread` reads `job->in->len` (parallel.c:787, 792) after the space was given
   back by `finished_processing` (parallel.c:635): length and check value in
   the trailer are wrong, while the compressed data is right.
2. A read that returns fewer than 32768 bytes and is not the last fails the
   assertion at parallel.c:290.
3. `deflate_engine` calls `deflate` once, with an output space as large as the input
   block: incompressible blocks are cut off.
4. `inflate_file` looks at the result of `inflate` only for the end of a stream: a member
   that is damaged or cut off is decompressed as far as it goes, the exit status is 0, and
   the input is removed (inflate.c:84).

The same models say more.  Each of these is a step of a specification or an exception in a
property, at the line given:

* Compression.  For an empty input nothing is written between header and trailer, so
  that there is no final block (deflate.c:112; `SequentialDeflate` has no block then).  The input
  space of the job that met the end of the input is not given back (deflate.c:117; `PoolsRefilled`
  says that exactly this one is missing).  A failed `write()` makes `writen` go back by a
  byte: what follows is sent twice, or the byte before the buffer is sent (parallel.c:653;
  `NeverSkips` is what remains true).
* Files.  When the worker returns `ERROR`, as `unlzw` does for codes that are too wide, or a
  later member has a bad header, the input is removed and the incomplete output is left
  (gzip.c:1029, 1064).  The same happens, with exit status 0, when the worker returns OK over an incomplete output: findings 3 and 4, and
  a failed `write()` of a compression (parallel.c:653).  Such a file is `spoiled` in `FileLife`; nothing is promised about its data,
  while the other files keep all promises, and `SuccessMeansWhole` has to except those of the second kind (`overlooked`).
  `gunzip` on a full disk fails the assertion at inflate.c:87: SIGABRT is not caught, so that the
  incomplete output is left, where gzip.c:220 says of `remove_ofname_fd` that it is closed and unlinked on error.
  A signal that comes to a second thread while the first one's handler is between gzip.c:2161 and 2163 ends the
  program before the output is unlinked (`NoPartialLeft` excepts both: they leave the output of the current file, and no other).  With `--keep`, `remove_ofname_fd` still holds the last
  output when `ofname` names the next one: an error or signal removes a file that the
  program did not create (gzip.c:1063; `ForeignKept` is stated for runs without `--keep`).
* Standard input.  A longer `tempfd` of an earlier run is not truncated: its rest is
  decompressed as well (gzip.c:800; `Leftover`).  `tempfd` stays when the
  program ends with an error.  Only `unzip` reads `tempfd`; files of `pack` fail,
  because the spooling has used up the input (gzip.c:812).
* Short writes of `inflate_file` and of `fill_inbuf` to `tempfd` are not repeated
  (inflate.c:85, util.c:177; `lost`).  For a zip file nothing is put out, and the status is 0
  (`OutputIsContent` excepts it).  Trailing garbage behind a gzip member is ignored with `--force` too, because `unzip`
  says that `inbuf` is empty (unzip.c:134), while tests/mixed expects it to be copied.
* `unlzh` accepts codes that fill a table a whole number of times more than once
  (`Full` in `TablesDecode`).
* Names.  `zip` passes the constant name "compressed_file" and the time 0 on for
  the header (zip.c:81), where gzip.1:52 says that the original name and time stamp are kept:
  `gunzip --name` calls each file so, and asks whether to remove the one before.  `--name --force`
  for a file whose header has its own name removes the input for the output, and then
  the output for the input (`DataIsKept` takes the permission to cover it).  A suffix that is the end of a built-in
  one, as in `--suffix z`, may not be the one that `gunzip` takes off; `--suffix .TGZ` and the like are taken to stand for
  `.tar`; and with a suffix such as `x.tgz` a name that was shortened to `.tgz` may end with the
  suffix by chance (`Ambiguous` in `NameComesBack`).  `-r --force`
  can compress an output that took the place of an entry which is still to come
  (`OutputIsNotInput` excepts it).  `shorten_name` looks at the four
  characters before the suffix with the length taken before the suffix was cut off, which for stems
  shorter than four is memory in front of them (gzip.c:1882; assumed away by `IsScript`, for it
  takes a `NAME_MAX` of a few characters).

The run of `ParallelDeflate` excludes 2 and 3 by its constants (no pipe without
`--independent`, `Fits`), and says nothing about the trailer; it shows that everything else is
right.

## 5. What is proved

All theorems are for every value of the constants under the assumptions named.

`LockedListsProofs`, first for `SpacePool` and every finite set of threads and non-empty finite set of
spaces (`PoolAssumption`): type correctness, mutual exclusion, `HaveAccounts`,
`NoNullHead`, `NoSpaceLostOrShared`, and the refinement of `BufferBank`.  None of
these is inductive by itself.  `PoolInv` adds that `safe` is taken exactly while a
thread is inside (`SafeSemaphore`), what `space` points to at each place
(`ChainOf`), and that no two threads drop the same space (`OneDropPerSpace`).  The
argument: a thread that has passed `have` is counted in `SpaceClaims`, so that
`HaveAccounts` makes the list non-empty when it has passed `safe` as well
(`ClaimMeansSpace`).

Then for `JobQueue` and every finite set of compress threads and any number of jobs
(`QueueAssumption`): type correctness, mutual exclusion, `ActiveAccounts`,
`ListConsistent`, `EndOnlyWhenDrained`, and the refinement of `ClosableQueue`.  `QueueInv`
adds the meaning of `use`, the places of the reader at which the queue is closed,
and that a consumer about to unlink sees the current list.  The argument: a
consumer that holds a unit of `active` and finds the list empty holds the unit that
stands for the close (`EmptyMeansClosed`).

`WriteQueueProofs`, for any number of threads and jobs (`WriteAssumption`): type
correctness, `NullOnlyAtTheEnd`, `FoundJobIsThere`, `ListConsistent`, and the refinement of
`SeqMailbox`, all for both orders of the two stores of `add_job_bgn`.  The invariant speaks of
a list that no variable holds: `chain` is the list as it will be when the job that is half
published has both its stores, and `rank` numbers the jobs by the order in which they were
added.  Pointers lead to the next lower rank, whether or not the job is still in the list, so that a
walk without the lock cannot step over a job that was there when it began.
`ClosedMeansAllIn` says that after a read of `closed` nothing is added any more:
a walk begun after it that ends at NULL has seen every job there will be.

`ParallelDeflateProofs`, for any calls, any sizes and limits and any set of compress
threads (`DeflateAssumption`): `InputStable`, and, if every block fits its output space
(`Fits = {TRUE}`), the refinement of `SequentialDeflate`.  `IInv` says where each job is at each
moment, and that it is at one place only (`PlaceInv`); that an input space is free, the
reader's, or of one job or as a dictionary of its successor (`SpaceInv`); what a job holds before and after `deflate`
(`CompressedInv`); and that the intervals of consecutive numbers join without a gap, up to
what the reader has read (`JoinInv`).  `FileInv` then gives the file as the blocks of the
numbers before `seq`.  `CountInv`, on top of it, counts: each
output space is free or belongs to a number from `seq` on, each dictionary space to a job of
`WithDict`, each input space to a job of `InUse`, but the one of the job that met the end of the
input.  It gives type correctness, `DictNeverBlocks` and `PoolsRefilled`.  The argument for the dictionaries:
`finished_processing` gives back the dictionary before the input space, so that
`WithDict` is part of `InUse`, and the newest job, which needs one, is in `InUse` only.

`GunzipProofs`, for any inputs, any sizes of the buffers and any number of errors
(`WritenAssumption`, `GunzipAssumption`): `NeverSkips`, type correctness, `SpoolIsInput` and
`OutputIsContent`.  `WritenInv` adds that `next` is never more than one ahead of what was
sent last, and exactly one when a call has returned, so that going back is the only thing
that can happen.  `SpoolInv` adds that until `unzip` begins to read, `tempfd` is what was read so far, up to what
was there before, that its offset is that of the input, and that the loop of `treat_stdin` is left only by a buffer that is not full or by the end of the input.
`OutputInv`, for `OutputIsContent`, has one conjunct for each place of the program, and each compares what has
come out and what is in the decoder's buffers with the place and the content that the reader of the formats has behind the
units consumed so far: those up to the end of a member when the next header is looked for, those zlib has taken while
it inflates, those in front of `inbuf` while the program waits for more.  It needs to know what
`inbuf` and `tempfd` hold (`InputInv`: `inbuf` is the units that were read last, and a
buffer that is not full is the end of a file, although not of a pipe; `TempInv`).  The argument is the same for
each step: the decoder takes a unit and the reader moves over the same unit.  The steps
that are no such moves are the ones that could go wrong: a member that ends inside a buffer, a read that begins again at the
start of the file or of `tempfd`, a last member with garbage behind it.
Three things are excepted, because with them the statement is false (section 4): a short write
that is not repeated (`lost`), a longer `tempfd` of an earlier run (`Leftover`), and zip files.

`FileLifeProofs`, for every number of files in any directories and every set of command
lines (`FilesAssumption`): type correctness, `NeverLost`, `ForeignKept`, and the
refinement of `ReplaceFiles`, all for errors, signals and a crash anywhere.  `IInv` adds
what is known of the file being treated at each place
(`CurrentFile`), that later files are untouched (`OthersUntouched`), and that what
`remove_output_file` would unlink is not the only copy (`RemovableIsOwn`,
`RemovingIsOwn`).  The argument: `remove_ofname_fd` is set only while the input is
there, because it is reset before the input is unlinked and signals are blocked
between the two.

Its second part is about the end: `NoPartialLeft`, `SuccessMeansWhole`, and, as `""` is no
directory (`DirsAssumption`), `CrashKeeps`.  `NoPartialLeft` says of each way to end but a crash which outputs can be incomplete: none when the program
returns, aborts, or dies of the signal its handler removed the output for; the current one at most when it dies in the worker or of a
second signal; and those of workers that returned without completing them.  `SuccessMeansWhole` says that of
the ways in which a file may fail only one is not in the exit status, a worker that returns OK over an incomplete output.
`PartialInv` says that an incomplete output is the current one, and that
`ofname` and `remove_ofname_fd` are set for it until `remove_output_file` begins, `SuccessInv` that an exit status of OK speaks for each file
before the current one, `DirectoryInv` that `dfd` is the directory of the file
being treated, and `DiskInv` that both parts of an output have reached the disk before its input goes.

`UnlzwProofs`, for any file, damaged ones too, any width of bytes and codes and any size of
the buffers (`Parameters`): `ChainsEnd`, and that no code is taken from behind the bits in `inbuf` and
every code that is kept has a string (`CodesAreThere`).  `ChainInv` says that the prefix of each entry
is a lower code, and that `oldcode` is a code lower than `free_ent`, with two exceptions: the code behind a
CLEAR, where the first entry made is that of CLEAR itself and is made over later, and a full table,
which gets no entries.  `GroupInv` says that codes begin at multiples of their width, and that `inbits`
is such a multiple or leaves room for one more code; it rests on `WidthInv`, what `maxcode` is for each width.
Since the prefix is lower, the recursion of `String` has a value for each code, and its length is at most
that of the codes from `First` on.  TLAPS knows nothing of 2^n: the
facts are proved for the number of subsets of a set of n elements.  Induction over
numbers is done without the library's theorems about operators, from the least element of a set of numbers.

Its second part is `OutputIsText`, for every file that is `Compressed`: what `unlzw` puts out is a beginning
of the text, and the whole text at the end of a whole file.  The invariant, `FormatInv`, says that for some k
the first k - 1 codes have done their work (`Progress`).  `HeldInv` says that `inbuf` is the piece of the file
that ends at `fpos`, and so which bit of the file comes next (`Bit`).  That bit is where `Places` has the k-th
code (`Ahead`); or codes are about to become wider, and it is the end of the code before (`Pending`); or the
file ends inside the group that was skipped (`Lost`).  `EndsInv` says that a group ends inside `inbuf` as long as
there is more to read, and `InGroup` that groups begin in `inbuf` as far apart as in the file: the
code computes the end of a group from the beginning of `inbuf`, the format from where the width last
changed, and `GroupEnd` shows that it is the same bit.  `OutputOf`, `TableOf` and `LastOf` say that
the output, the strings in the table and the last string are those of the format.  TLC checked
`FormatInv` on the run `formats` before it was proved.  Three assumptions in `Parameters` carry it:
a code is at least a byte wide, so that the bits that fill the last byte are no code; `INIT_BITS` is more
than 1, so that there is a code left after `CLEAR` in the first width; and the files have the form that
`Compressed` states, which TLC checks of what the compressor in `MCDecoders` makes.

`FileNamesProofs`, for any files, commands and suffixes and any limit on the length of a name
(`FileNamesAssumption`): `DataIsKept` and `OutputIsNotInput`, whatever `get_suffix` and `shorten_name` make of a name.
`KeptInv` adds that the input is at its name until the output is complete, or went with
permission, and that an output is nobody's until then.  `WalkInv` adds that the entries not treated yet are
different files, are still there, and are not among the outputs, because
`create_outfile` never takes a name that exists (O_EXCL).

Its second part is about the characters of names: `NameComesBack` and `SuffixIsKept`.  The lemmas
before `NamesInv` say what the operators make of any text: a known suffix behind a name is found,
or another (`SuffixFound`); the suffix in use is found first if no built-in one ends with it
(`SuffixIsFirst`), and `.tgz` is found as such (`TgzIsFound`), so that
`make_ofname` inverts both ways in which gzip makes a name (`NamesComeBack`); and a name of three characters
always has a part or a dot to cut, which leaves something of it (`CutText`).  The invariant,
`NamesInv`, says that an output of gzip ends with the suffix or with `.tgz` (`HasSuffix`) and, while it has lost
no character, comes from the input's name in one of these two ways (`Gives`); that an output of
gunzip is what `make_ofname` made, or a name from a header; and that every layer of
every file tells the truth about its names (`LayerTrue`), so that the name comes back through any number of
layers and whatever other commands lie between.  That a name ends in `.tar` before its suffix when it is too long
makes the shorter name the one `Gives` speaks of only if the input's name was not too long itself
(`SourceName`), which `open_input_file` sees to.  The assumptions: `NAME_MAX` is at least 8 and the suffix leaves four
characters of it, and files that others compressed have no history.

`UnpackProofs`, for any bytes in the file, any width of bytes, any `MAX_BITLEN`, `MAX_PEEK` and `LITERALS`
(`PackParameters`): `PackIsInverted`, in both directions.  What ends in an error is no `Good` file, and so
no check refuses too much; what ends well is one, and so no check lets too much through; and what is put out up to
any moment are the literals of the leaves that the bits stand for.  The code counts in three ways: `max_leaves` from
the shortest codes on, `parents` from the longest codes back, and `prefix_len` down from the codes of all ones.  The invariant
counts in one: `Inner(counts)[n]` is the number of inner nodes at depth n, 1 at the root and then twice as many less the leaves.
A tree is complete when no level has fewer than none and the last has none, and this is Kraft's sum
(`Weight`); `max_leaves` is twice `Inner` less 1 (`LeavesInv`), because the code keeps one inner node for the longer codes; and `parents`
is `Inner` when it ends with 0, while in every other case the division that rounds down gives a root other than 1.
A code of n bits is a leaf exactly when it is at least `Inner` of its level and no shorter beginning of it is,
because the leaves of a level have the higher numbers (`IsNext`); from this follow both the table
(`PrefixTable`) and the search behind it, and that no two codes are beginnings of one another, so that `Decoded` has one choice.
`StreamInv` says that what is still to be decoded is what the bits from `Taken` on stand for (`Rest`), where
`Taken` is the bits read less the valid ones; the bytes that `look_bits` fetches are bits of the file behind
them (`LaterBits`).  `CodeIsCut` is refused rightly because behind EOB or a whole code there is nothing
shorter to find.  Sums, numbers of bits and `Decoded` are recursive functions; each is given its recurrence by a lemma
(`Recurrence`), proved from the least number at which it fails.  TLC checked the invariant on the files of the run `formats`
before it was proved.

Only model-checked.  All liveness (termination, no lost wake-up), which is out of the
prover's reach.  What `unlzh` builds and puts out (`TablesDecode`, `WindowIsText`): `Unlzh` uses the
bitwise operators, which TLAPS cannot take.

## 6. Not modelled

* `do_list` (totals and layout), options and `main` (a pass over the arguments that sets flags), output to
  stdout and `--test` in `treat_file`, terminal checks.
* `trees.c`, `bits.c` and the sequential `deflate_file`, with `flush_outbuf` and `put_byte`:
  they are linked and nothing calls them any more.
* Paths: `FileNames` has one directory, so that `MAX_PATH_LEN`, `last_component` and
  deeper recursion of `treat_dir` are left out.
* The header of a block in `unlzh` (`read_pt_len`, `read_c_len`) is abstracted to the lengths it
  gives; that of a code without bits gives one symbol, which in a damaged file need not be of the alphabet, and is then taken for
  any (`Symbols`; `TablesDecode` excepts it).  Damaged files of `unlzw` with codes no wider than `INIT_BITS` are left out, because they
  reach uninitialized memory.
* `zlib` is external: it is modelled from how `inflate.c` and `parallel.c` use it.
* `new_space` and `free_pool` (they run when no other thread does), the checked library calls of
  `utils.c` (their assertions are in the callers' models), the
  shell wrappers, and gnulib in `lib/`, which is vendored.  It is by far the largest
  part of the source tree, which is why the modules cover a small share of all its lines.

What would come next: the totals of `do_list`; `treat_dir` over a tree of directories; the header of a
block in `unlzh`.
