------------------------------ MODULE FileLife ------------------------------
(***************************************************************************)
(* The life of the files given to gzip on the command line: treat_file for *)
(* each of them in turn, with its output file, the signal handlers, and    *)
(* what a system crash leaves.  Output to stdout, --list, --test, --quiet  *)
(* (which also hides some warnings from the exit status) and directories   *)
(* (-r) are left out.                                                      *)
(*                                                                         *)
(* File f has an input name and an output name; no output name is the name *)
(* of another file of the command line.                                    *)
(***************************************************************************)
EXTENDS Integers, FiniteSets

CONSTANTS NFiles,      \* number of files on the command line
          Dirs,        \* directories they are in
          DirOf,       \* the directory of each file
          Searchable,  \* directories that can be opened for fdatasync
          Options      \* the command lines considered

Files == 1 .. NFiles
None == 0              \* for a file descriptor: -1

OptionRecords == [keep : BOOLEAN, force : BOOLEAN,
                  synchronous : BOOLEAN, decompress : BOOLEAN]

ASSUME FilesAssumption ==
    /\ NFiles \in Nat
    /\ DirOf \in [Files -> Dirs]
    /\ Searchable \subseteq Dirs
    /\ Options \subseteq OptionRecords

\* atdir_set calls the directory of a name without one ".".
ASSUME DirsAssumption == "" \notin Dirs

VARIABLES
    opt,               \* the options, set once by main
    file,              \* the file being treated
    pc,                \* the place in treat_file
    return,            \* where remove_output_file returns to
    in,                \* the input files: "there" or "gone"
    out,               \* what is at the output names
    ofname,            \* the file whose output name is in ofname
    remove_ofname_fd,  \* the file whose output descriptor this is, or None
    dfname,            \* the directory of dfd
    dfd,               \* whether dfd is open
    method,            \* "ok", or "error" for -1
    exit_code,
    synced,            \* outputs whose data reached the disk
    entered,           \* outputs whose directory entry reached the disk
    spoiled,           \* files whose worker returned without completing them
    overlooked,        \* those of them whose worker returned OK
    threads            \* other threads run beside the signal handler

vars == <<opt, file, pc, return, in, out, ofname, remove_ofname_fd, dfname,
          dfd, method, exit_code, synced, entered, spoiled, overlooked, threads>>
names == <<ofname, dfname, dfd>>
fate == <<synced, entered, spoiled, overlooked, threads>>

\* The program returned or called exit after abort_gzip; the signal it handled
\* killed it; it died in the worker, without a word to remove_output_file; the
\* second of two signals killed it while the first was handled; the system
\* crashed.
Final == {"exited", "killed", "died", "overtaken", "crashed"}

\* What the variables hold (proved in FileLifeProofs).
TypeOK ==
    /\ opt \in Options
    /\ file \in 1 .. NFiles + 1
    /\ pc \in {"open", "names", "method", "atdir", "create", "exists", "work",
               "close_in", "copy_stat", "sync_dir", "sync_out", "close_out", "unlink", "unlinking",
               "cleanup", "remove", "removing"} \union Final
    /\ return \in {"next", "exited", "killed"}
    /\ in \in [Files -> {"there", "gone"}]
    /\ out \in [Files -> {"none", "foreign", "partial", "whole"}]
    /\ ofname \in 0 .. NFiles
    /\ remove_ofname_fd \in 0 .. NFiles
    /\ dfname \in Dirs \union {""}
    /\ dfd \in BOOLEAN
    /\ method \in {"ok", "error"}
    /\ exit_code \in {"OK", "ERROR", "WARNING"}
    /\ synced \subseteq Files
    /\ entered \subseteq Files
    /\ spoiled \subseteq Files
    /\ overlooked \subseteq Files
    /\ threads \in BOOLEAN

\* An output name may already be taken by a file of the user's.
Init ==
    /\ opt \in Options
    /\ file = 1 /\ pc = IF NFiles = 0 THEN "exited" ELSE "open"
    /\ return = "next"
    /\ in = [f \in Files |-> "there"]
    /\ out \in [Files -> {"none", "foreign"}]
    /\ ofname = None /\ remove_ofname_fd = None
    /\ dfname = "" /\ dfd = FALSE
    /\ method = "ok" /\ exit_code = "OK"
    /\ synced = {} /\ entered = {} /\ spoiled = {} /\ overlooked = {} /\ threads = FALSE

-----------------------------------------------------------------------------
(* Ways out of treat_file.                                                 *)

Goto(place) == pc' = place /\ UNCHANGED <<file, return>>

\* The while loop of main.
NextFile == /\ file' = file + 1
            /\ pc' = IF file = NFiles THEN "exited" ELSE "open"
            /\ UNCHANGED return

\* WARN: an error already reported is not overwritten.
Warn == exit_code' = IF exit_code = "OK" THEN "WARNING" ELSE exit_code

\* abort_gzip, called by read_error, write_error and gzip_error.
Abort == /\ pc' = "remove" /\ return' = "exited" /\ UNCHANGED file
         /\ exit_code' = "ERROR"

-----------------------------------------------------------------------------
(* Names and output file.                                                  *)

\* open_input_file and the tests on the type and mode of the file.
OpenInput ==
    /\ pc = "open"
    /\ \/ Goto("names") /\ UNCHANGED exit_code
       \/ NextFile /\ exit_code' = "ERROR"
       \/ NextFile /\ Warn
    /\ UNCHANGED <<opt, in, out, names, remove_ofname_fd, method, fate>>

\* make_ofname writes ofname before it looks at the suffix.
MakeOfname ==
    /\ pc = "names"
    /\ ofname' = file
    /\ \/ Goto(IF opt.decompress THEN "method" ELSE "atdir") /\ UNCHANGED exit_code
       \/ NextFile /\ Warn
       \/ ~opt.decompress /\ NextFile /\ UNCHANGED exit_code  \* already has the suffix
    /\ UNCHANGED <<opt, in, out, remove_ofname_fd, dfname, dfd, method, fate>>

\* Mutant: a bad header is reported, but not in the exit status.
GetMethodQuiet ==
    /\ pc = "method"
    /\ \/ Goto("atdir") /\ UNCHANGED exit_code
       \/ NextFile /\ UNCHANGED exit_code
       \/ Abort
    /\ UNCHANGED <<opt, in, out, names, remove_ofname_fd, method, fate>>

\* The first get_method: the header is good, or it is not, or it cannot be read.
GetMethod ==
    /\ pc = "method"
    /\ \/ Goto("atdir") /\ UNCHANGED exit_code
       \/ NextFile /\ exit_code' = "ERROR"
       \/ Abort
    /\ UNCHANGED <<opt, in, out, names, remove_ofname_fd, method, fate>>

\* atdir_set: dfd is kept from file to file while the directory stays the same.
AtdirSet ==
    /\ pc = "atdir"
    /\ IF opt.keep \/ dfname = DirOf[file]
       THEN UNCHANGED <<dfname, dfd>>
       ELSE dfname' = DirOf[file] /\ dfd' = (DirOf[file] \in Searchable)
    /\ Goto("create")
    /\ UNCHANGED <<opt, in, out, ofname, remove_ofname_fd, method, exit_code, fate>>

\* Mutant: signals are not blocked, and remove_ofname_fd is not set yet when one
\* comes.
CreateOutfileUnguarded ==
    /\ pc = "create"
    /\ \/ /\ out[file] = "none"
          /\ out' = [out EXCEPT ![file] = "partial"]
          /\ remove_ofname_fd' = None
          /\ Goto("work") /\ UNCHANGED exit_code
       \/ /\ out[file] # "none"
          /\ remove_ofname_fd' = None
          /\ Goto("exists") /\ UNCHANGED <<out, exit_code>>
       \/ /\ remove_ofname_fd' = None
          /\ NextFile /\ exit_code' = "ERROR" /\ UNCHANGED out
    /\ UNCHANGED <<opt, in, names, method, fate>>

\* Mutant: O_TRUNC instead of O_EXCL.
CreateOutfileTruncates ==
    /\ pc = "create"
    /\ \/ /\ out' = [out EXCEPT ![file] = "partial"]
          /\ remove_ofname_fd' = file
          /\ Goto("work") /\ UNCHANGED exit_code
       \/ /\ remove_ofname_fd' = None
          /\ NextFile /\ exit_code' = "ERROR" /\ UNCHANGED out
    /\ UNCHANGED <<opt, in, names, method, fate>>

\* openat with O_EXCL, in create_outfile, with signals blocked.  A name that is
\* too long is shortened and tried again, which is not told apart, unless it
\* cannot be shortened.
CreateOutfile ==
    /\ pc = "create"
    /\ \/ /\ out[file] = "none"
          /\ out' = [out EXCEPT ![file] = "partial"]
          /\ remove_ofname_fd' = file
          /\ Goto("work") /\ UNCHANGED exit_code
       \/ /\ out[file] # "none"
          /\ remove_ofname_fd' = None
          /\ Goto("exists") /\ UNCHANGED <<out, exit_code>>
       \/ /\ remove_ofname_fd' = None
          /\ (NextFile /\ exit_code' = "ERROR") \/ Abort
          /\ UNCHANGED out
    /\ UNCHANGED <<opt, in, names, method, fate>>

\* check_ofname: with the user's consent the file in the way is removed.
CheckOfname ==
    /\ pc = "exists"
    /\ \/ out' = [out EXCEPT ![file] = "none"] /\ Goto("create") /\ UNCHANGED exit_code
       \/ ~opt.force /\ NextFile /\ Warn /\ UNCHANGED out
       \/ NextFile /\ exit_code' = "ERROR" /\ UNCHANGED out
    /\ UNCHANGED <<opt, in, names, remove_ofname_fd, method, fate>>

-----------------------------------------------------------------------------
(* The worker and the end of a file.                                       *)

\* The worker has done all of its file.  It may warn of garbage behind the last
\* member, or of a time stamp out of range.
WorkCompletes ==
    /\ pc = "work"
    /\ out' = [out EXCEPT ![file] = "whole"]
    /\ method' = "ok"
    /\ Warn \/ UNCHANGED exit_code
    /\ Goto("close_in")
    /\ UNCHANGED <<opt, in, names, remove_ofname_fd, fate>>

\* The worker, or get_method between two members, reports an error.
WorkFails ==
    /\ pc = "work" /\ opt.decompress
    /\ method' = "error" /\ exit_code' = "ERROR"
    /\ spoiled' = spoiled \union {file}
    /\ Goto("close_in")
    /\ UNCHANGED <<opt, in, out, names, remove_ofname_fd, synced, entered, overlooked, threads>>

\* inflate_file returns 0 whatever inflate says of the data, and zip returns OK
\* whatever deflate leaves over and write does not write.
WorkIgnoresError ==
    /\ pc = "work"
    /\ method' = "ok"
    /\ spoiled' = spoiled \union {file}
    /\ overlooked' = overlooked \union {file}
    /\ Warn \/ UNCHANGED exit_code
    /\ Goto("close_in")
    /\ UNCHANGED <<opt, in, out, names, remove_ofname_fd, synced, entered, threads>>

\* read_error, write_error or gzip_error: in a worker that decompresses, in
\* get_method, or in a close or sync.
WorkAborts ==
    /\ pc \in {"work", "close_in", "sync_dir", "sync_out", "close_out"}
    /\ pc = "work" => opt.decompress
    /\ pc \in {"sync_dir", "sync_out"} => opt.synchronous
    /\ Abort
    /\ UNCHANGED <<opt, in, out, names, remove_ofname_fd, method, fate>>

\* A failed read, write or allocation, or what zlib says of its own state, fails
\* an assertion, and SIGABRT is not caught; or the worker calls exit.  One of its
\* threads may do so while another handles a signal.
WorkDies ==
    /\ pc = "work" \/ (threads /\ pc \in {"remove", "removing"})
    /\ Goto("died")
    /\ UNCHANGED <<opt, in, out, names, remove_ofname_fd, method, exit_code, fate>>

CloseInput ==
    /\ pc = "close_in" /\ Goto("copy_stat")
    /\ UNCHANGED <<opt, in, out, names, remove_ofname_fd, method, exit_code, fate>>

\* copy_stat warns when times, owner or mode cannot be set.
CopyStat ==
    /\ pc = "copy_stat" /\ Goto("sync_dir")
    /\ Warn \/ UNCHANGED exit_code
    /\ UNCHANGED <<opt, in, out, names, remove_ofname_fd, method, fate>>

\* Mutant: the directory is not synced.
SyncDirSkipped ==
    /\ pc = "sync_dir" /\ Goto("sync_out")
    /\ UNCHANGED <<opt, in, out, names, remove_ofname_fd, method, exit_code, fate>>

\* fdatasync (dfd): every entry made in that directory so far is on disk.
SyncDir ==
    /\ pc = "sync_dir" /\ Goto("sync_out")
    /\ entered' = IF opt.synchronous /\ dfd
                  THEN entered \union {f \in Files : DirOf[f] = dfname /\ out[f] \in {"partial", "whole"}}
                  ELSE entered
    /\ UNCHANGED <<opt, in, out, names, remove_ofname_fd, method, exit_code, synced, spoiled,
                   overlooked, threads>>

\* fsync (ofd).
SyncOut ==
    /\ pc = "sync_out" /\ Goto("close_out")
    /\ synced' = IF opt.synchronous THEN synced \union {file} ELSE synced
    /\ UNCHANGED <<opt, in, out, names, remove_ofname_fd, method, exit_code, entered, spoiled,
                   overlooked, threads>>

CloseOut ==
    /\ pc = "close_out" /\ Goto(IF opt.keep THEN "cleanup" ELSE "unlink")
    /\ UNCHANGED <<opt, in, out, names, remove_ofname_fd, method, exit_code, fate>>

\* Mutant: remove_ofname_fd keeps its value.
ForgetOutputNot ==
    /\ pc = "unlink" /\ Goto("unlinking")
    /\ UNCHANGED <<opt, in, out, names, remove_ofname_fd, method, exit_code, fate>>

\* Signals are blocked from here ...
ForgetOutput ==
    /\ pc = "unlink" /\ Goto("unlinking")
    /\ remove_ofname_fd' = None
    /\ UNCHANGED <<opt, in, out, names, method, exit_code, fate>>

\* ... to here.
UnlinkInput ==
    /\ pc = "unlinking" /\ Goto("cleanup")
    /\ \/ in' = [in EXCEPT ![file] = "gone"] /\ UNCHANGED exit_code
       \/ Warn /\ UNCHANGED in
    /\ UNCHANGED <<opt, out, names, remove_ofname_fd, method, fate>>

\* method == -1: force cleanup.
Cleanup ==
    /\ pc = "cleanup"
    /\ IF method = "error"
       THEN pc' = "remove" /\ return' = "next" /\ UNCHANGED file
       ELSE NextFile
    /\ UNCHANGED <<opt, in, out, names, remove_ofname_fd, method, exit_code, fate>>

-----------------------------------------------------------------------------
(* remove_output_file, its callers, and the end of the world.              *)

Return == IF return = "next" THEN NextFile ELSE Goto(return)

\* Mutant: ofname is unlinked whether or not it is to be removed.
RemoveAlways ==
    /\ pc = "remove" /\ (IF ofname # None THEN Goto("removing") ELSE Return)
    /\ remove_ofname_fd' = None
    /\ UNCHANGED <<opt, in, out, names, method, exit_code, fate>>

\* Signals are blocked while remove_ofname_fd is reset and ofname is unlinked.
RemoveBegin ==
    /\ pc = "remove"
    /\ IF remove_ofname_fd # None THEN Goto("removing") ELSE Return
    /\ remove_ofname_fd' = None
    /\ UNCHANGED <<opt, in, out, names, method, exit_code, fate>>

RemoveUnlink ==
    /\ pc = "removing"
    /\ out' = [out EXCEPT ![ofname] = "none"]
    /\ Return
    /\ UNCHANGED <<opt, in, names, remove_ofname_fd, method, exit_code, fate>>

\* The thread that runs the handler has all caught signals blocked (sa_mask), as
\* have the sections of create_outfile, treat_file and remove_output_file, which
\* main runs when all other threads have been joined.
Blocked == pc \in {"unlinking", "removing"} \/ (pc = "remove" /\ return = "killed")

\* abort_gzip_signal: remove the output, and die of the signal.  The threads of a
\* compression go on meanwhile, but main cannot leave the worker.
Signal ==
    /\ pc \notin Final /\ ~Blocked
    /\ pc' = "remove" /\ return' = "killed"
    /\ threads' = (pc = "work" /\ ~opt.decompress)
    /\ UNCHANGED <<opt, file, in, out, names, remove_ofname_fd, method, exit_code, synced, entered,
                   spoiled, overlooked>>

\* Another thread, where the signals are not blocked, handles a second one: it
\* finds nothing left to remove and dies of the signal, perhaps before the first
\* handler comes to the unlink.  Two handlers that both find the descriptor do the
\* same thing twice, which is not told apart.
SecondSignal ==
    /\ threads /\ pc = "removing"
    /\ Goto("overtaken")
    /\ UNCHANGED <<opt, in, out, names, remove_ofname_fd, method, exit_code, fate>>

\* What is not on the disk yet may be lost: the entry of an output file, its
\* data, and the removal of an input file.
AfterCrash(f) ==
    IF out[f] \in {"partial", "whole"}
    THEN {out[f]} \union {o \in {"none", "partial"} : \/ o = "none" /\ f \notin entered
                                                      \/ o = "partial" /\ f \notin synced}
    ELSE {out[f]}

SystemCrash ==
    /\ pc # "crashed" /\ pc' = "crashed"
    /\ out' \in {o \in [Files -> {"none", "foreign", "partial", "whole"}] :
                    \A f \in Files : o[f] \in AfterCrash(f)}
    /\ in' \in {i \in [Files -> {"there", "gone"}] :
                    \A f \in Files : in[f] = "there" => i[f] = "there"}
    /\ UNCHANGED <<opt, file, return, names, remove_ofname_fd, method, exit_code, fate>>

Done == pc \in Final /\ UNCHANGED vars

Next ==
    \/ OpenInput \/ MakeOfname \/ GetMethod \/ AtdirSet \/ CreateOutfile \/ CheckOfname
    \/ WorkCompletes \/ WorkFails \/ WorkIgnoresError \/ WorkAborts \/ WorkDies
    \/ CloseInput \/ CopyStat \/ SyncDir \/ SyncOut \/ CloseOut
    \/ ForgetOutput \/ UnlinkInput \/ Cleanup
    \/ RemoveBegin \/ RemoveUnlink \/ Signal \/ SecondSignal \/ SystemCrash
    \/ Done

Spec == Init /\ [][Next]_vars

-----------------------------------------------------------------------------
(* Properties.                                                             *)

\* treat_file: whatever goes wrong with the program, the data of each file is
\* in the input file or in a complete output file, unless the worker of this
\* very file returned without completing it: then treat_file removes the input all the
\* same, and leaves the output (gzip.c:1029, gzip.c:1064).
NeverLost ==
    pc # "crashed" => \A f \in Files \ spoiled : in[f] = "there" \/ out[f] = "whole"

\* --synchronous: this is so even when the system crashes, if the directory of
\* the file can be opened.
CrashKeeps ==
    opt.synchronous =>
        \A f \in Files \ spoiled :
            DirOf[f] \in Searchable => in[f] = "there" \/ out[f] = "whole"

\* remove_output_file: when the program returns, calls abort_gzip or dies of a
\* signal it handles, every output that is left is a complete one, as gzip.c:220
\* has it ("unlink ofname on error"); and when it dies in the worker (inflate.c:87),
\* or of a second signal while another thread handles the first (gzip.c:2161), only
\* the one it was working on is not, whatever that comment says.  The
\* outputs of workers that returned without completing them are excepted.
NoPartialLeft ==
    pc \in Final \ {"crashed"} =>
        \A f \in Files \ spoiled :
            out[f] = "partial" => pc \in {"died", "overtaken"} /\ f = file

\* main: exit status 0 of a decompression means that each file was decompressed
\* or that its worker returned OK although it did not complete it: inflate_file
\* does so with damaged data (inflate.c:84), against what the manual promises of
\* the exit status (gzip.1:420).  Every other failure shows in the exit status.
SuccessMeansWhole ==
    pc = "exited" /\ exit_code = "OK" /\ opt.decompress =>
        \A f \in Files \ overlooked : out[f] = "whole"

Removed(f) == out[f] = "foreign" /\ out'[f] # "foreign"

\* create_outfile, remove_output_file: a file that was there before and has the
\* name of an output file is removed only when check_ofname was told so.  Not so
\* with --keep, which leaves remove_ofname_fd set when the output is finished,
\* so that it meets the name of the next one (gzip.c:1063).
ForeignKept == [][~opt.keep => \A f \in Files : Removed(f) => pc = "exists"]_vars

\* For each file a second copy is made before the first one is given up.  A
\* spoiled file counts as one that is not replaced.
Copies == [f \in Files |->
              IF f \in spoiled THEN {"in"}
              ELSE {c \in {"in", "out"} : \/ c = "in" /\ in[f] = "there"
                                          \/ c = "out" /\ out[f] = "whole"}]

\* The program replaces files as ReplaceFiles says, until the system crashes.
Replacement == INSTANCE ReplaceFiles WITH copies <- Copies
ReplaceSpec == /\ Replacement!Init
               /\ [][Replacement!Next \/ pc' = "crashed"]_Copies
=============================================================================
