--------------------------- MODULE FileLifeProofs ---------------------------
(***************************************************************************)
(* Theorems about FileLife, for any number of files in any directories and *)
(* any set of command lines: what holds at every moment, and what is left  *)
(* when gzip ends.                                                         *)
(***************************************************************************)
EXTENDS FileLife, TLAPS

-----------------------------------------------------------------------------
(* The invariant.                                                          *)

BeforeWork == {"open", "names", "method", "atdir", "create", "exists", "work"}
AfterWork == {"close_in", "copy_stat", "sync_dir", "sync_out", "close_out", "unlink"}

\* Outside the final states there is a file to treat.
OneIsTreated == pc \notin Final => file \in Files

\* Files not reached yet are as they were.
OthersUntouched ==
    \A f \in Files : f > file => in[f] = "there" /\ out[f] \in {"none", "foreign"}

\* The file being treated has its input until it is unlinked, and its complete output as
\* soon as the worker has returned, unless the worker spoiled it.
CurrentFile ==
    /\ pc \in BeforeWork \union AfterWork \union {"unlinking"} => in[file] = "there"
    /\ pc \in AfterWork \union {"unlinking"} => out[file] = "whole" \/ file \in spoiled
    /\ pc \in {"method", "atdir", "create", "exists", "work"} => ofname = file
    /\ pc \in BeforeWork => out[file] \in (IF pc = "work" THEN {"partial"} ELSE {"none", "foreign"})

\* With --keep no input is ever unlinked.
KeepKeeps == opt.keep => /\ pc \notin {"unlink", "unlinking"}
                         /\ \A f \in Files : in[f] = "there"

\* What remove_output_file would unlink is not the only copy, and, if inputs are
\* replaced, it is the output of the file being treated.
RemovableIsOwn ==
    remove_ofname_fd # None =>
        /\ ofname \in Files /\ in[ofname] = "there"
        /\ ~opt.keep => /\ out[ofname] # "foreign" /\ ofname = file
                        /\ pc \in AfterWork \union {"work", "remove"} \union Final

\* The same once remove_ofname_fd has been reset.
RemovingIsOwn ==
    pc = "removing" => /\ ofname \in Files /\ in[ofname] = "there"
                       /\ ~opt.keep => out[ofname] # "foreign" /\ ofname = file

IInv == /\ TypeOK /\ NeverLost /\ OneIsTreated /\ OthersUntouched /\ CurrentFile
        /\ KeepKeeps /\ RemovableIsOwn /\ RemovingIsOwn

-----------------------------------------------------------------------------
(* Types.                                                                  *)

Places == {"open", "names", "method", "atdir", "create", "exists", "work",
           "close_in", "copy_stat", "sync_dir", "sync_out", "close_out", "unlink",
           "unlinking", "cleanup", "remove", "removing"} \union Final

\* Where the program is, and what it works on.
ControlOK == /\ file \in 1 .. NFiles + 1
             /\ pc \in Places
             /\ return \in {"next", "exited", "killed"}
             /\ OneIsTreated
DataOK == /\ opt \in Options
          /\ in \in [Files -> {"there", "gone"}]
          /\ out \in [Files -> {"none", "foreign", "partial", "whole"}]
          /\ ofname \in 0 .. NFiles
          /\ remove_ofname_fd \in 0 .. NFiles
          /\ dfname \in Dirs \union {""}
          /\ dfd \in BOOLEAN
          /\ method \in {"ok", "error"}
          /\ exit_code \in {"OK", "ERROR", "WARNING"}
          /\ synced \subseteq Files
          /\ entered \subseteq Files
          /\ spoiled \subseteq Files
          /\ overlooked \subseteq Files
          /\ threads \in BOOLEAN

\* The while loop of main keeps what is known of the place in the program.
LEMMA NextFileControl ==
    ASSUME ControlOK, pc \notin Final, NextFile
    PROVE  ControlOK'
<1>1. file \in 1 .. NFiles /\ file' = file + 1 /\ NFiles \in Nat
  BY FilesAssumption DEF FilesAssumption, ControlOK, OneIsTreated, NextFile, Files
<1>2. CASE file = NFiles
  <2>1. pc' = "exited"
    BY <1>2 DEF NextFile
  <2> QED
    BY <1>1, <1>2, <2>1 DEF ControlOK, OneIsTreated, NextFile, Places, Final
<1>3. CASE file # NFiles
  <2>1. pc' = "open"
    BY <1>3 DEF NextFile
  <2> QED
    BY <1>1, <1>3, <2>1 DEF ControlOK, OneIsTreated, NextFile, Places, Files
<1> QED
  BY <1>2, <1>3

\* The state has its types initially, and there is a file to treat.
LEMMA InitTyped == Init => TypeOK /\ OneIsTreated
<1> SUFFICES ASSUME Init PROVE TypeOK /\ OneIsTreated
  OBVIOUS
<1>0. None \in 0 .. NFiles /\ 1 \in 1 .. NFiles + 1 /\ (NFiles # 0 => 1 \in Files)
  BY FilesAssumption DEF FilesAssumption, Files, None
<1>1. DataOK
  BY <1>0 DEF Init, DataOK
<1>2. ControlOK
  BY <1>0 DEF Init, ControlOK, OneIsTreated, Places, Final
<1> QED
  BY <1>1, <1>2 DEF TypeOK, DataOK, ControlOK, Places

\* Every step keeps the types, and goes on only while files are left.
LEMMA TypeInductive == TypeOK /\ OneIsTreated /\ [Next]_vars => TypeOK' /\ OneIsTreated'
<1> SUFFICES ASSUME TypeOK, OneIsTreated, [Next]_vars
             PROVE  TypeOK' /\ OneIsTreated'
  OBVIOUS
<1>0. ControlOK /\ DataOK
  BY DEF TypeOK, ControlOK, DataOK, Places
<1>a. None \in 0 .. NFiles /\ (pc \notin Final => file \in Files /\ file \in 0 .. NFiles)
  BY FilesAssumption DEF FilesAssumption, OneIsTreated, Files, None
<1>1. CASE OpenInput
  <2>1. (pc \notin Final /\ NextFile) \/ ControlOK'
    BY <1>1, <1>0 DEF OpenInput, Goto, Return, ControlOK, Places, OneIsTreated, Final
  <2>2. ControlOK'
    BY <2>1, <1>0, NextFileControl
  <2>3. DataOK'
    BY <1>1, <1>0, <1>a DEF OpenInput, Warn, Abort, names, fate, vars, DataOK, Final
  <2> QED
    BY <2>2, <2>3 DEF TypeOK, ControlOK, DataOK, Places
<1>2. CASE MakeOfname
  <2>1. (pc \notin Final /\ NextFile) \/ ControlOK'
    BY <1>2, <1>0 DEF MakeOfname, Goto, Return, ControlOK, Places, OneIsTreated, Final
  <2>2. ControlOK'
    BY <2>1, <1>0, NextFileControl
  <2>3. DataOK'
    BY <1>2, <1>0, <1>a DEF MakeOfname, Warn, Abort, names, fate, vars, DataOK, Final
  <2> QED
    BY <2>2, <2>3 DEF TypeOK, ControlOK, DataOK, Places
<1>3. CASE GetMethod
  <2>1. (pc \notin Final /\ NextFile) \/ ControlOK'
    BY <1>3, <1>0 DEF GetMethod, Goto, Return, Abort, ControlOK, Places, OneIsTreated, Final
  <2>2. ControlOK'
    BY <2>1, <1>0, NextFileControl
  <2>3. DataOK'
    BY <1>3, <1>0, <1>a DEF GetMethod, Warn, Abort, names, fate, vars, DataOK, Final
  <2> QED
    BY <2>2, <2>3 DEF TypeOK, ControlOK, DataOK, Places
<1>4. CASE AtdirSet
  <2>2. ControlOK'
    BY <1>4, <1>0 DEF AtdirSet, Goto, vars, ControlOK, Places, OneIsTreated, Final
  <2>0. file \in Files
    BY <1>4, <1>a DEF AtdirSet, Final
  <2>1. DirOf[file] \in Dirs
    BY <2>0, FilesAssumption DEF FilesAssumption
  <2>4. UNCHANGED <<opt, in, out, ofname, remove_ofname_fd, method, exit_code, fate>>
    BY <1>4 DEF AtdirSet
  <2>5. \/ dfname' = dfname /\ dfd' = dfd
        \/ dfname' = DirOf[file] /\ dfd' = (DirOf[file] \in Searchable)
    BY <1>4, Zenon DEF AtdirSet
  <2>6. dfd \in BOOLEAN /\ dfname \in Dirs \union {""}
    BY <1>0 DEF DataOK
  <2>7. dfd' \in BOOLEAN
    <3>1. CASE dfd' = dfd
      BY <2>6, <3>1
    <3>2. CASE dfd' = (DirOf[file] \in Searchable)
      <4>1. CASE DirOf[file] \in Searchable
        BY <3>2, <4>1
      <4>2. CASE DirOf[file] \notin Searchable
        BY <3>2, <4>2
      <4> QED
        BY <4>1, <4>2
    <3> QED
      BY <2>5, <3>1, <3>2, Zenon
  <2>8. dfname' = dfname \/ dfname' = DirOf[file]
    BY <2>5, Zenon
  <2>9. dfname' \in Dirs \union {""}
    BY <2>1, <2>6, <2>8
  <2>3. DataOK'
    BY <1>0, <2>4, <2>7, <2>9 DEF fate, DataOK
  <2> QED
    BY <2>2, <2>3 DEF TypeOK, ControlOK, DataOK, Places
<1>5. CASE CreateOutfile
  <2>1. (pc \notin Final /\ NextFile) \/ ControlOK'
    BY <1>5, <1>0 DEF CreateOutfile, Goto, Return, Abort, ControlOK, Places, OneIsTreated, Final
  <2>2. ControlOK'
    BY <2>1, <1>0, NextFileControl
  <2>3. DataOK'
    BY <1>5, <1>0, <1>a DEF CreateOutfile, Warn, Abort, names, fate, vars, DataOK, Final
  <2> QED
    BY <2>2, <2>3 DEF TypeOK, ControlOK, DataOK, Places
<1>6. CASE CheckOfname
  <2>1. (pc \notin Final /\ NextFile) \/ ControlOK'
    BY <1>6, <1>0 DEF CheckOfname, Goto, Return, ControlOK, Places, OneIsTreated, Final
  <2>2. ControlOK'
    BY <2>1, <1>0, NextFileControl
  <2>3. DataOK'
    BY <1>6, <1>0, <1>a DEF CheckOfname, Warn, Abort, names, fate, vars, DataOK, Final
  <2> QED
    BY <2>2, <2>3 DEF TypeOK, ControlOK, DataOK, Places
<1>7. CASE WorkCompletes
  <2>2. ControlOK'
    BY <1>7, <1>0 DEF WorkCompletes, Goto, vars, ControlOK, Places, OneIsTreated, Final
  <2>3. DataOK'
    BY <1>7, <1>0, <1>a DEF WorkCompletes, Warn, Abort, names, fate, vars, DataOK, Final
  <2> QED
    BY <2>2, <2>3 DEF TypeOK, ControlOK, DataOK, Places
<1>8. CASE WorkFails
  <2>2. ControlOK'
    BY <1>8, <1>0 DEF WorkFails, Goto, vars, ControlOK, Places, OneIsTreated, Final
  <2>3. DataOK'
    BY <1>8, <1>0, <1>a DEF WorkFails, Warn, Abort, names, fate, vars, DataOK, Final
  <2> QED
    BY <2>2, <2>3 DEF TypeOK, ControlOK, DataOK, Places
<1>9. CASE WorkIgnoresError
  <2>2. ControlOK'
    BY <1>9, <1>0 DEF WorkIgnoresError, Goto, vars, ControlOK, Places, OneIsTreated, Final
  <2>3. DataOK'
    BY <1>9, <1>0, <1>a DEF WorkIgnoresError, Warn, Abort, names, fate, vars, DataOK, Final
  <2> QED
    BY <2>2, <2>3 DEF TypeOK, ControlOK, DataOK, Places
<1>10. CASE WorkAborts
  <2>2. ControlOK'
    BY <1>10, <1>0 DEF WorkAborts, Goto, Abort, vars, ControlOK, Places, OneIsTreated, Final
  <2>3. DataOK'
    BY <1>10, <1>0, <1>a DEF WorkAborts, Warn, Abort, names, fate, vars, DataOK, Final
  <2> QED
    BY <2>2, <2>3 DEF TypeOK, ControlOK, DataOK, Places
<1>11. CASE CloseInput
  <2>2. ControlOK'
    BY <1>11, <1>0 DEF CloseInput, Goto, vars, ControlOK, Places, OneIsTreated, Final
  <2>3. DataOK'
    BY <1>11, <1>0, <1>a DEF CloseInput, Warn, Abort, names, fate, vars, DataOK, Final
  <2> QED
    BY <2>2, <2>3 DEF TypeOK, ControlOK, DataOK, Places
<1>12. CASE CopyStat
  <2>2. ControlOK'
    BY <1>12, <1>0 DEF CopyStat, Goto, vars, ControlOK, Places, OneIsTreated, Final
  <2>3. DataOK'
    BY <1>12, <1>0, <1>a DEF CopyStat, Warn, Abort, names, fate, vars, DataOK, Final
  <2> QED
    BY <2>2, <2>3 DEF TypeOK, ControlOK, DataOK, Places
<1>13. CASE SyncDir
  <2>2. ControlOK'
    BY <1>13, <1>0 DEF SyncDir, Goto, vars, ControlOK, Places, OneIsTreated, Final
  <2>3. DataOK'
    BY <1>13, <1>0, <1>a DEF SyncDir, Warn, Abort, names, fate, vars, DataOK, Final
  <2> QED
    BY <2>2, <2>3 DEF TypeOK, ControlOK, DataOK, Places
<1>14. CASE SyncOut
  <2>2. ControlOK'
    BY <1>14, <1>0 DEF SyncOut, Goto, vars, ControlOK, Places, OneIsTreated, Final
  <2>3. DataOK'
    BY <1>14, <1>0, <1>a DEF SyncOut, Warn, Abort, names, fate, vars, DataOK, Final
  <2> QED
    BY <2>2, <2>3 DEF TypeOK, ControlOK, DataOK, Places
<1>15. CASE CloseOut
  <2>2. ControlOK'
    BY <1>15, <1>0 DEF CloseOut, Goto, vars, ControlOK, Places, OneIsTreated, Final
  <2>3. DataOK'
    BY <1>15, <1>0, <1>a DEF CloseOut, Warn, Abort, names, fate, vars, DataOK, Final
  <2> QED
    BY <2>2, <2>3 DEF TypeOK, ControlOK, DataOK, Places
<1>16. CASE ForgetOutput
  <2>2. ControlOK'
    BY <1>16, <1>0 DEF ForgetOutput, Goto, vars, ControlOK, Places, OneIsTreated, Final
  <2>3. DataOK'
    BY <1>16, <1>0, <1>a DEF ForgetOutput, Warn, Abort, names, fate, vars, DataOK, Final
  <2> QED
    BY <2>2, <2>3 DEF TypeOK, ControlOK, DataOK, Places
<1>17. CASE UnlinkInput
  <2>2. ControlOK'
    BY <1>17, <1>0 DEF UnlinkInput, Goto, vars, ControlOK, Places, OneIsTreated, Final
  <2>3. DataOK'
    BY <1>17, <1>0, <1>a DEF UnlinkInput, Warn, Abort, names, fate, vars, DataOK, Final
  <2> QED
    BY <2>2, <2>3 DEF TypeOK, ControlOK, DataOK, Places
<1>18. CASE Cleanup
  <2>1. (pc \notin Final /\ NextFile) \/ ControlOK'
    BY <1>18, <1>0 DEF Cleanup, Goto, Return, ControlOK, Places, OneIsTreated, Final
  <2>2. ControlOK'
    BY <2>1, <1>0, NextFileControl
  <2>3. DataOK'
    BY <1>18, <1>0, <1>a DEF Cleanup, Warn, Abort, names, fate, vars, DataOK, Final
  <2> QED
    BY <2>2, <2>3 DEF TypeOK, ControlOK, DataOK, Places
<1>19. CASE RemoveBegin
  <2>1. (pc \notin Final /\ NextFile) \/ ControlOK'
    BY <1>19, <1>0 DEF RemoveBegin, Goto, Return, ControlOK, Places, OneIsTreated, Final
  <2>2. ControlOK'
    BY <2>1, <1>0, NextFileControl
  <2>3. DataOK'
    BY <1>19, <1>0, <1>a DEF RemoveBegin, Warn, Abort, names, fate, vars, DataOK, Final
  <2> QED
    BY <2>2, <2>3 DEF TypeOK, ControlOK, DataOK, Places
<1>20. CASE RemoveUnlink
  <2>1. (pc \notin Final /\ NextFile) \/ ControlOK'
    BY <1>20, <1>0 DEF RemoveUnlink, Goto, Return, ControlOK, Places, OneIsTreated, Final
  <2>2. ControlOK'
    BY <2>1, <1>0, NextFileControl
  <2>3. DataOK'
    BY <1>20, <1>0, <1>a DEF RemoveUnlink, Warn, Abort, names, fate, vars, DataOK, Final
  <2> QED
    BY <2>2, <2>3 DEF TypeOK, ControlOK, DataOK, Places
<1>21. CASE Signal
  <2>2. ControlOK'
    BY <1>21, <1>0 DEF Signal, Goto, vars, ControlOK, Places, OneIsTreated, Final
  <2>3. DataOK'
    BY <1>21, <1>0, <1>a DEF Signal, Warn, Abort, names, fate, vars, DataOK, Final
  <2> QED
    BY <2>2, <2>3 DEF TypeOK, ControlOK, DataOK, Places
<1>22. CASE SystemCrash
  <2>2. ControlOK'
    BY <1>22, <1>0 DEF SystemCrash, Goto, vars, ControlOK, Places, OneIsTreated, Final
  <2>3. DataOK'
    BY <1>22, <1>0, <1>a
       DEF SystemCrash, Warn, Abort, names, fate, vars, DataOK, Final, AfterCrash
  <2> QED
    BY <2>2, <2>3 DEF TypeOK, ControlOK, DataOK, Places
<1>23. CASE Done
  <2>2. ControlOK'
    BY <1>23, <1>0 DEF Done, Goto, vars, ControlOK, Places, OneIsTreated, Final
  <2>3. DataOK'
    BY <1>23, <1>0, <1>a DEF Done, Warn, Abort, names, fate, vars, DataOK, Final
  <2> QED
    BY <2>2, <2>3 DEF TypeOK, ControlOK, DataOK, Places
<1>24. CASE UNCHANGED vars
  <2>1. ControlOK'
    BY <1>24, <1>0 DEF vars, ControlOK, OneIsTreated
  <2>2. DataOK'
    BY <1>24, <1>0 DEF vars, DataOK
  <2> QED
    BY <2>1, <2>2 DEF TypeOK, ControlOK, DataOK, Places
<1>25. CASE WorkDies
  <2>2. ControlOK'
    BY <1>25, <1>0 DEF WorkDies, Goto, vars, ControlOK, Places, OneIsTreated, Final
  <2>3. DataOK'
    BY <1>25, <1>0, <1>a DEF WorkDies, Warn, Abort, names, fate, vars, DataOK, Final
  <2> QED
    BY <2>2, <2>3 DEF TypeOK, ControlOK, DataOK, Places
<1>26. CASE SecondSignal
  <2>2. ControlOK'
    BY <1>26, <1>0 DEF SecondSignal, Goto, vars, ControlOK, Places, OneIsTreated, Final
  <2>3. DataOK'
    BY <1>26, <1>0, <1>a DEF SecondSignal, Warn, Abort, names, fate, vars, DataOK, Final
  <2> QED
    BY <2>2, <2>3 DEF TypeOK, ControlOK, DataOK, Places
<1> QED
  BY <1>1, <1>2, <1>3, <1>4, <1>5, <1>6, <1>7, <1>8, <1>9, <1>10, <1>11, <1>12, <1>13,
     <1>14, <1>15, <1>16, <1>17, <1>18, <1>19, <1>20, <1>21, <1>22, <1>23, <1>24,
     <1>25, <1>26
     DEF Next

\* The state of treat_file and create_outfile has the types of FileLife.
THEOREM TypeCorrect == Spec => []TypeOK
<1>1. Init => TypeOK /\ OneIsTreated
  BY InitTyped
<1>2. TypeOK /\ OneIsTreated /\ [Next]_vars => TypeOK' /\ OneIsTreated'
  BY TypeInductive
<1> QED
  BY <1>1, <1>2, PTL DEF Spec

-----------------------------------------------------------------------------
(* The inductive invariant.                                                *)

\* The invariant holds when main starts.
LEMMA InitIInv == Init => IInv
<1> SUFFICES ASSUME Init PROVE IInv
  OBVIOUS
<1>0. NFiles \in Nat /\ (NFiles # 0 => 1 \in Files) /\ \A f \in Files : f \in Nat
  BY FilesAssumption DEF FilesAssumption, Files
<1>1. TypeOK /\ OneIsTreated
  BY InitTyped
<1>2. NeverLost /\ OthersUntouched /\ KeepKeeps
  BY DEF Init, NeverLost, OthersUntouched, KeepKeeps
<1>3. CurrentFile
  BY <1>0 DEF Init, CurrentFile, BeforeWork, AfterWork
<1>4. RemovableIsOwn /\ RemovingIsOwn
  BY DEF Init, RemovableIsOwn, RemovingIsOwn
<1> QED
  BY <1>1, <1>2, <1>3, <1>4 DEF IInv

\* The next file is as it was.
LEMMA NextFileCurrent ==
    ASSUME ControlOK, pc \notin Final, NextFile,
           \A f \in Files : f > file => in'[f] = "there" /\ out'[f] \in {"none", "foreign"}
    PROVE  CurrentFile'
<1>1. file \in Nat /\ file' = file + 1 /\ pc' \in {"open", "exited"}
  BY FilesAssumption DEF FilesAssumption, ControlOK, NextFile
<1>2. pc' = "open" => file' \in Files
  BY NextFileControl DEF ControlOK, OneIsTreated, Final
<1>3. pc' = "open" => in'[file'] = "there" /\ out'[file'] \in {"none", "foreign"}
  BY <1>1, <1>2
<1> QED
  BY <1>1, <1>3 DEF CurrentFile, BeforeWork, AfterWork

\* An output file that is not there, or not ours, is not changed by a crash.
LEMMA AfterCrashUnwritten ==
    ASSUME NEW f \in Files, out[f] \in {"none", "foreign"}
    PROVE  AfterCrash(f) = {out[f]}
  BY DEF AfterCrash

\* Every step of treat_file, of a handler and of a crash keeps the invariant.
LEMMA IInvInductive == IInv /\ [Next]_vars => IInv'
<1> SUFFICES ASSUME IInv, [Next]_vars
             PROVE  IInv'
  OBVIOUS
<1>0. TypeOK /\ OneIsTreated /\ TypeOK' /\ OneIsTreated'
  BY TypeInductive DEF IInv
<1>a. /\ ControlOK /\ DataOK /\ ControlOK'
      /\ pc \notin Final => file \in Files
      /\ \A f \in Files : f \in Nat /\ f # None
      /\ file \in Nat
  <2>1. ControlOK /\ DataOK /\ ControlOK' /\ (pc \notin Final => file \in Files)
    BY <1>0 DEF TypeOK, ControlOK, DataOK, Places, OneIsTreated
  <2>2. \A f \in Files : f \in Nat /\ f # None
    BY FilesAssumption DEF FilesAssumption, Files, None
  <2>3. file \in Nat
    BY <2>1, FilesAssumption DEF FilesAssumption, ControlOK
  <2> QED
    BY <2>1, <2>2, <2>3
<1>b. /\ NeverLost /\ OthersUntouched /\ CurrentFile /\ KeepKeeps
      /\ RemovableIsOwn /\ RemovingIsOwn
  BY DEF IInv
<1>1. CASE OpenInput
  <2>1. NeverLost'
    BY <1>a, <1>b, <1>1
       DEF OpenInput, DataOK, NeverLost, CurrentFile, AfterWork, BeforeWork,
           RemovingIsOwn, Final, fate
  <2>2. OthersUntouched'
    <3>1. file' = file \/ file' = file + 1
      BY <1>1 DEF OpenInput, Goto, NextFile, Return
    <3>2. \A f \in Files : f > file' => f > file /\ f # file
      BY <1>a, <3>1
    <3> QED
      BY <1>a, <1>b, <1>1, <3>2 DEF OpenInput, DataOK, OthersUntouched
  <2>3. CurrentFile'
    <3>2. CASE NextFile
      <4>1. pc \notin Final /\ file' = file + 1
        BY <1>1, <3>2 DEF OpenInput, NextFile, Final
      <4>2. \A f \in Files : f > file => in'[f] = "there" /\ out'[f] \in {"none", "foreign"}
        BY <1>a, <1>b, <1>1, <3>2, <4>1
           DEF OpenInput, Goto, NextFile, DataOK, OthersUntouched
      <4> QED
        BY <1>a, <3>2, <4>1, <4>2, NextFileCurrent
    <3>3. CASE ~NextFile
      BY <1>a, <1>b, <1>1, <3>3
         DEF OpenInput, Goto, Return, ControlOK, DataOK, CurrentFile, BeforeWork,
             AfterWork, names, fate, Final
    <3> QED
      BY <3>2, <3>3
  <2>4. KeepKeeps'
    BY <1>a, <1>b, <1>1 DEF OpenInput, Goto, NextFile, Return, DataOK, KeepKeeps, ControlOK
  <2>5. RemovableIsOwn'
    BY <1>a, <1>b, <1>1
       DEF OpenInput, Goto, Return, names, DataOK, ControlOK, RemovableIsOwn, KeepKeeps,
           CurrentFile, BeforeWork, AfterWork, Final, Blocked
  <2>6. RemovingIsOwn'
    BY <1>a, <1>b, <1>1
       DEF OpenInput, Goto, NextFile, Return, names, ControlOK, DataOK, RemovableIsOwn,
           RemovingIsOwn, Blocked, Final
  <2> QED
    BY <1>0, <2>1, <2>2, <2>3, <2>4, <2>5, <2>6 DEF IInv
<1>2. CASE MakeOfname
  <2>1. NeverLost'
    BY <1>a, <1>b, <1>2
       DEF MakeOfname, DataOK, NeverLost, CurrentFile, AfterWork, BeforeWork,
           RemovingIsOwn, Final, fate
  <2>2. OthersUntouched'
    <3>1. file' = file \/ file' = file + 1
      BY <1>2 DEF MakeOfname, Goto, NextFile, Return
    <3>2. \A f \in Files : f > file' => f > file /\ f # file
      BY <1>a, <3>1
    <3> QED
      BY <1>a, <1>b, <1>2, <3>2 DEF MakeOfname, DataOK, OthersUntouched
  <2>3. CurrentFile'
    <3>2. CASE NextFile
      <4>1. pc \notin Final /\ file' = file + 1
        BY <1>2, <3>2 DEF MakeOfname, NextFile, Final
      <4>2. \A f \in Files : f > file => in'[f] = "there" /\ out'[f] \in {"none", "foreign"}
        BY <1>a, <1>b, <1>2, <3>2, <4>1
           DEF MakeOfname, Goto, NextFile, DataOK, OthersUntouched
      <4> QED
        BY <1>a, <3>2, <4>1, <4>2, NextFileCurrent
    <3>3. CASE ~NextFile
      BY <1>a, <1>b, <1>2, <3>3
         DEF MakeOfname, Goto, Return, ControlOK, DataOK, CurrentFile, BeforeWork,
             AfterWork, names, fate, Final
    <3> QED
      BY <3>2, <3>3
  <2>4. KeepKeeps'
    BY <1>a, <1>b, <1>2 DEF MakeOfname, Goto, NextFile, Return, DataOK, KeepKeeps, ControlOK
  <2>5. RemovableIsOwn'
    BY <1>a, <1>b, <1>2
       DEF MakeOfname, Goto, Return, names, DataOK, ControlOK, RemovableIsOwn, KeepKeeps,
           CurrentFile, BeforeWork, AfterWork, Final, Blocked
  <2>6. RemovingIsOwn'
    BY <1>a, <1>b, <1>2
       DEF MakeOfname, Goto, NextFile, Return, names, ControlOK, DataOK, RemovableIsOwn,
           RemovingIsOwn, Blocked, Final
  <2> QED
    BY <1>0, <2>1, <2>2, <2>3, <2>4, <2>5, <2>6 DEF IInv
<1>3. CASE GetMethod
  <2>1. NeverLost'
    BY <1>a, <1>b, <1>3
       DEF GetMethod, DataOK, NeverLost, CurrentFile, AfterWork, BeforeWork,
           RemovingIsOwn, Final, fate
  <2>2. OthersUntouched'
    <3>1. file' = file \/ file' = file + 1
      BY <1>3 DEF GetMethod, Goto, NextFile, Return, Abort
    <3>2. \A f \in Files : f > file' => f > file /\ f # file
      BY <1>a, <3>1
    <3> QED
      BY <1>a, <1>b, <1>3, <3>2 DEF GetMethod, DataOK, OthersUntouched
  <2>3. CurrentFile'
    <3>2. CASE NextFile
      <4>1. pc \notin Final /\ file' = file + 1
        BY <1>3, <3>2 DEF GetMethod, NextFile, Final
      <4>2. \A f \in Files : f > file => in'[f] = "there" /\ out'[f] \in {"none", "foreign"}
        BY <1>a, <1>b, <1>3, <3>2, <4>1
           DEF GetMethod, Goto, NextFile, DataOK, OthersUntouched
      <4> QED
        BY <1>a, <3>2, <4>1, <4>2, NextFileCurrent
    <3>3. CASE ~NextFile
      BY <1>a, <1>b, <1>3, <3>3
         DEF GetMethod, Goto, Return, Abort, ControlOK, DataOK, CurrentFile, BeforeWork,
             AfterWork, names, fate, Final
    <3> QED
      BY <3>2, <3>3
  <2>4. KeepKeeps'
    BY <1>a, <1>b, <1>3
       DEF GetMethod, Goto, NextFile, Return, Abort, DataOK, KeepKeeps, ControlOK
  <2>5. RemovableIsOwn'
    BY <1>a, <1>b, <1>3
       DEF GetMethod, Goto, Return, names, Abort, DataOK, ControlOK, RemovableIsOwn,
           KeepKeeps, CurrentFile, BeforeWork, AfterWork, Final, Blocked
  <2>6. RemovingIsOwn'
    BY <1>a, <1>b, <1>3
       DEF GetMethod, Goto, NextFile, Return, names, Abort, ControlOK, DataOK,
           RemovableIsOwn, RemovingIsOwn, Blocked, Final
  <2> QED
    BY <1>0, <2>1, <2>2, <2>3, <2>4, <2>5, <2>6 DEF IInv
<1>4. CASE AtdirSet
  <2>1. NeverLost'
    BY <1>a, <1>b, <1>4
       DEF AtdirSet, DataOK, NeverLost, CurrentFile, AfterWork, BeforeWork, RemovingIsOwn,
           Final, fate
  <2>2. OthersUntouched'
    <3>1. file' = file \/ file' = file + 1
      BY <1>4 DEF AtdirSet, Goto, NextFile, Return
    <3>2. \A f \in Files : f > file' => f > file /\ f # file
      BY <1>a, <3>1
    <3> QED
      BY <1>a, <1>b, <1>4, <3>2 DEF AtdirSet, DataOK, OthersUntouched
  <2>3. CurrentFile'
    BY <1>a, <1>b, <1>4
       DEF AtdirSet, Goto, Return, ControlOK, DataOK, CurrentFile, BeforeWork, AfterWork,
           names, fate, Final
  <2>4. KeepKeeps'
    BY <1>a, <1>b, <1>4 DEF AtdirSet, Goto, NextFile, Return, DataOK, KeepKeeps, ControlOK
  <2>5. RemovableIsOwn'
    BY <1>a, <1>b, <1>4
       DEF AtdirSet, Goto, Return, names, DataOK, ControlOK, RemovableIsOwn, KeepKeeps,
           CurrentFile, BeforeWork, AfterWork, Final, Blocked
  <2>6. RemovingIsOwn'
    BY <1>a, <1>b, <1>4
       DEF AtdirSet, Goto, NextFile, Return, names, ControlOK, DataOK, RemovableIsOwn,
           RemovingIsOwn, Blocked, Final
  <2> QED
    BY <1>0, <2>1, <2>2, <2>3, <2>4, <2>5, <2>6 DEF IInv
<1>5. CASE CreateOutfile
  <2>1. NeverLost'
    BY <1>a, <1>b, <1>5
       DEF CreateOutfile, DataOK, NeverLost, CurrentFile, AfterWork, BeforeWork,
           RemovingIsOwn, Final, fate
  <2>2. OthersUntouched'
    <3>1. file' = file \/ file' = file + 1
      BY <1>5 DEF CreateOutfile, Goto, NextFile, Abort, Return
    <3>2. \A f \in Files : f > file' => f > file /\ f # file
      BY <1>a, <3>1
    <3> QED
      BY <1>a, <1>b, <1>5, <3>2 DEF CreateOutfile, DataOK, OthersUntouched
  <2>3. CurrentFile'
    <3>2. CASE NextFile
      <4>1. pc \notin Final /\ file' = file + 1
        BY <1>5, <3>2 DEF CreateOutfile, NextFile, Final
      <4>2. \A f \in Files : f > file => in'[f] = "there" /\ out'[f] \in {"none", "foreign"}
        BY <1>a, <1>b, <1>5, <3>2, <4>1
           DEF CreateOutfile, Goto, NextFile, DataOK, OthersUntouched
      <4> QED
        BY <1>a, <3>2, <4>1, <4>2, NextFileCurrent
    <3>3. CASE ~NextFile
      <4>1. in' = in /\ file' = file /\ ofname' = ofname /\ file \in Files /\ ofname = file
        BY <1>a, <1>b, <1>5, <3>3 DEF CreateOutfile, Goto, Abort, names, CurrentFile, Final
      <4>2. in[file] = "there" /\ out[file] \in {"none", "foreign"}
        BY <1>a, <1>b, <1>5 DEF CreateOutfile, CurrentFile, BeforeWork
      <4>3. \/ pc' = "work" /\ out'[file] = "partial"
            \/ pc' \in {"exists", "remove"} /\ out' = out
        BY <1>a, <1>5, <3>3, <4>1 DEF CreateOutfile, Goto, Abort, DataOK
      <4> QED
        BY <4>1, <4>2, <4>3 DEF CurrentFile, BeforeWork, AfterWork
    <3> QED
      BY <3>2, <3>3
  <2>4. KeepKeeps'
    BY <1>a, <1>b, <1>5
       DEF CreateOutfile, Goto, NextFile, Abort, Return, DataOK, KeepKeeps, ControlOK
  <2>5. RemovableIsOwn'
    BY <1>a, <1>b, <1>5
       DEF CreateOutfile, Goto, Abort, Return, names, DataOK, ControlOK, RemovableIsOwn,
           KeepKeeps, CurrentFile, BeforeWork, AfterWork, Final, Blocked
  <2>6. RemovingIsOwn'
    BY <1>a, <1>b, <1>5
       DEF CreateOutfile, Goto, NextFile, Abort, Return, names, ControlOK, DataOK,
           RemovableIsOwn, RemovingIsOwn, Blocked, Final
  <2> QED
    BY <1>0, <2>1, <2>2, <2>3, <2>4, <2>5, <2>6 DEF IInv
<1>6. CASE CheckOfname
  <2>1. NeverLost'
    BY <1>a, <1>b, <1>6
       DEF CheckOfname, DataOK, NeverLost, CurrentFile, AfterWork, BeforeWork,
           RemovingIsOwn, Final, fate
  <2>2. OthersUntouched'
    <3>1. file' = file \/ file' = file + 1
      BY <1>6 DEF CheckOfname, Goto, NextFile, Return
    <3>2. \A f \in Files : f > file' => f > file /\ f # file
      BY <1>a, <3>1
    <3> QED
      BY <1>a, <1>b, <1>6, <3>2 DEF CheckOfname, DataOK, OthersUntouched
  <2>3. CurrentFile'
    <3>2. CASE NextFile
      <4>1. pc \notin Final /\ file' = file + 1
        BY <1>6, <3>2 DEF CheckOfname, NextFile, Final
      <4>2. \A f \in Files : f > file => in'[f] = "there" /\ out'[f] \in {"none", "foreign"}
        BY <1>a, <1>b, <1>6, <3>2, <4>1
           DEF CheckOfname, Goto, NextFile, DataOK, OthersUntouched
      <4> QED
        BY <1>a, <3>2, <4>1, <4>2, NextFileCurrent
    <3>3. CASE ~NextFile
      BY <1>a, <1>b, <1>6, <3>3
         DEF CheckOfname, Goto, Return, ControlOK, DataOK, CurrentFile, BeforeWork,
             AfterWork, names, fate, Final
    <3> QED
      BY <3>2, <3>3
  <2>4. KeepKeeps'
    BY <1>a, <1>b, <1>6
       DEF CheckOfname, Goto, NextFile, Return, DataOK, KeepKeeps, ControlOK
  <2>5. RemovableIsOwn'
    BY <1>a, <1>b, <1>6
       DEF CheckOfname, Goto, Return, names, DataOK, ControlOK, RemovableIsOwn, KeepKeeps,
           CurrentFile, BeforeWork, AfterWork, Final, Blocked
  <2>6. RemovingIsOwn'
    BY <1>a, <1>b, <1>6
       DEF CheckOfname, Goto, NextFile, Return, names, ControlOK, DataOK, RemovableIsOwn,
           RemovingIsOwn, Blocked, Final
  <2> QED
    BY <1>0, <2>1, <2>2, <2>3, <2>4, <2>5, <2>6 DEF IInv
<1>7. CASE WorkCompletes
  <2>1. NeverLost'
    BY <1>a, <1>b, <1>7
       DEF WorkCompletes, DataOK, NeverLost, CurrentFile, AfterWork, BeforeWork,
           RemovingIsOwn, Final, fate
  <2>2. OthersUntouched'
    <3>1. file' = file \/ file' = file + 1
      BY <1>7 DEF WorkCompletes, Goto, NextFile, Return
    <3>2. \A f \in Files : f > file' => f > file /\ f # file
      BY <1>a, <3>1
    <3> QED
      BY <1>a, <1>b, <1>7, <3>2 DEF WorkCompletes, DataOK, OthersUntouched
  <2>3. CurrentFile'
    BY <1>a, <1>b, <1>7
       DEF WorkCompletes, Goto, Return, ControlOK, DataOK, CurrentFile, BeforeWork,
           AfterWork, names, fate, Final
  <2>4. KeepKeeps'
    BY <1>a, <1>b, <1>7
       DEF WorkCompletes, Goto, NextFile, Return, DataOK, KeepKeeps, ControlOK
  <2>5. RemovableIsOwn'
    BY <1>a, <1>b, <1>7
       DEF WorkCompletes, Goto, Return, names, DataOK, ControlOK, RemovableIsOwn,
           KeepKeeps, CurrentFile, BeforeWork, AfterWork, Final, Blocked
  <2>6. RemovingIsOwn'
    BY <1>a, <1>b, <1>7
       DEF WorkCompletes, Goto, NextFile, Return, names, ControlOK, DataOK,
           RemovableIsOwn, RemovingIsOwn, Blocked, Final
  <2> QED
    BY <1>0, <2>1, <2>2, <2>3, <2>4, <2>5, <2>6 DEF IInv
<1>8. CASE WorkFails
  <2>1. NeverLost'
    BY <1>a, <1>b, <1>8
       DEF WorkFails, DataOK, NeverLost, CurrentFile, AfterWork, BeforeWork,
           RemovingIsOwn, Final, fate
  <2>2. OthersUntouched'
    <3>1. file' = file \/ file' = file + 1
      BY <1>8 DEF WorkFails, Goto, NextFile, Return
    <3>2. \A f \in Files : f > file' => f > file /\ f # file
      BY <1>a, <3>1
    <3> QED
      BY <1>a, <1>b, <1>8, <3>2 DEF WorkFails, DataOK, OthersUntouched
  <2>3. CurrentFile'
    BY <1>a, <1>b, <1>8
       DEF WorkFails, Goto, Return, ControlOK, DataOK, CurrentFile, BeforeWork, AfterWork,
           names, fate, Final
  <2>4. KeepKeeps'
    BY <1>a, <1>b, <1>8 DEF WorkFails, Goto, NextFile, Return, DataOK, KeepKeeps, ControlOK
  <2>5. RemovableIsOwn'
    BY <1>a, <1>b, <1>8
       DEF WorkFails, Goto, Return, names, DataOK, ControlOK, RemovableIsOwn, KeepKeeps,
           CurrentFile, BeforeWork, AfterWork, Final, Blocked
  <2>6. RemovingIsOwn'
    BY <1>a, <1>b, <1>8
       DEF WorkFails, Goto, NextFile, Return, names, ControlOK, DataOK, RemovableIsOwn,
           RemovingIsOwn, Blocked, Final
  <2> QED
    BY <1>0, <2>1, <2>2, <2>3, <2>4, <2>5, <2>6 DEF IInv
<1>9. CASE WorkIgnoresError
  <2>1. NeverLost'
    BY <1>a, <1>b, <1>9
       DEF WorkIgnoresError, DataOK, NeverLost, CurrentFile, AfterWork, BeforeWork,
           RemovingIsOwn, Final, fate
  <2>2. OthersUntouched'
    <3>1. file' = file \/ file' = file + 1
      BY <1>9 DEF WorkIgnoresError, Goto, NextFile, Return
    <3>2. \A f \in Files : f > file' => f > file /\ f # file
      BY <1>a, <3>1
    <3> QED
      BY <1>a, <1>b, <1>9, <3>2 DEF WorkIgnoresError, DataOK, OthersUntouched
  <2>3. CurrentFile'
    BY <1>a, <1>b, <1>9
       DEF WorkIgnoresError, Goto, Return, ControlOK, DataOK, CurrentFile, BeforeWork,
           AfterWork, names, fate, Final
  <2>4. KeepKeeps'
    BY <1>a, <1>b, <1>9
       DEF WorkIgnoresError, Goto, NextFile, Return, DataOK, KeepKeeps, ControlOK
  <2>5. RemovableIsOwn'
    BY <1>a, <1>b, <1>9
       DEF WorkIgnoresError, Goto, Return, names, DataOK, ControlOK, RemovableIsOwn,
           KeepKeeps, CurrentFile, BeforeWork, AfterWork, Final, Blocked
  <2>6. RemovingIsOwn'
    BY <1>a, <1>b, <1>9
       DEF WorkIgnoresError, Goto, NextFile, Return, names, ControlOK, DataOK,
           RemovableIsOwn, RemovingIsOwn, Blocked, Final
  <2> QED
    BY <1>0, <2>1, <2>2, <2>3, <2>4, <2>5, <2>6 DEF IInv
<1>10. CASE WorkAborts
  <2>1. NeverLost'
    BY <1>a, <1>b, <1>10
       DEF WorkAborts, DataOK, NeverLost, CurrentFile, AfterWork, BeforeWork,
           RemovingIsOwn, Final, fate
  <2>2. OthersUntouched'
    <3>1. file' = file \/ file' = file + 1
      BY <1>10 DEF WorkAborts, Goto, NextFile, Return, Abort
    <3>2. \A f \in Files : f > file' => f > file /\ f # file
      BY <1>a, <3>1
    <3> QED
      BY <1>a, <1>b, <1>10, <3>2 DEF WorkAborts, DataOK, OthersUntouched
  <2>3. CurrentFile'
    BY <1>a, <1>b, <1>10
       DEF WorkAborts, Goto, Return, Abort, ControlOK, DataOK, CurrentFile, BeforeWork,
           AfterWork, names, fate, Final
  <2>4. KeepKeeps'
    BY <1>a, <1>b, <1>10
       DEF WorkAborts, Goto, NextFile, Return, Abort, DataOK, KeepKeeps, ControlOK
  <2>5. RemovableIsOwn'
    BY <1>a, <1>b, <1>10
       DEF WorkAborts, Goto, Return, names, Abort, DataOK, ControlOK, RemovableIsOwn,
           KeepKeeps, CurrentFile, BeforeWork, AfterWork, Final, Blocked
  <2>6. RemovingIsOwn'
    BY <1>a, <1>b, <1>10
       DEF WorkAborts, Goto, NextFile, Return, names, Abort, ControlOK, DataOK,
           RemovableIsOwn, RemovingIsOwn, Blocked, Final
  <2> QED
    BY <1>0, <2>1, <2>2, <2>3, <2>4, <2>5, <2>6 DEF IInv
<1>11. CASE CloseInput
  <2>1. NeverLost'
    BY <1>a, <1>b, <1>11
       DEF CloseInput, DataOK, NeverLost, CurrentFile, AfterWork, BeforeWork,
           RemovingIsOwn, Final, fate
  <2>2. OthersUntouched'
    <3>1. file' = file \/ file' = file + 1
      BY <1>11 DEF CloseInput, Goto, NextFile, Return
    <3>2. \A f \in Files : f > file' => f > file /\ f # file
      BY <1>a, <3>1
    <3> QED
      BY <1>a, <1>b, <1>11, <3>2 DEF CloseInput, DataOK, OthersUntouched
  <2>3. CurrentFile'
    BY <1>a, <1>b, <1>11
       DEF CloseInput, Goto, Return, ControlOK, DataOK, CurrentFile, BeforeWork,
           AfterWork, names, fate, Final
  <2>4. KeepKeeps'
    BY <1>a, <1>b, <1>11
       DEF CloseInput, Goto, NextFile, Return, DataOK, KeepKeeps, ControlOK
  <2>5. RemovableIsOwn'
    BY <1>a, <1>b, <1>11
       DEF CloseInput, Goto, Return, names, DataOK, ControlOK, RemovableIsOwn, KeepKeeps,
           CurrentFile, BeforeWork, AfterWork, Final, Blocked
  <2>6. RemovingIsOwn'
    BY <1>a, <1>b, <1>11
       DEF CloseInput, Goto, NextFile, Return, names, ControlOK, DataOK, RemovableIsOwn,
           RemovingIsOwn, Blocked, Final
  <2> QED
    BY <1>0, <2>1, <2>2, <2>3, <2>4, <2>5, <2>6 DEF IInv
<1>12. CASE CopyStat
  <2>1. NeverLost'
    BY <1>a, <1>b, <1>12
       DEF CopyStat, DataOK, NeverLost, CurrentFile, AfterWork, BeforeWork, RemovingIsOwn,
           Final, fate
  <2>2. OthersUntouched'
    <3>1. file' = file \/ file' = file + 1
      BY <1>12 DEF CopyStat, Goto, NextFile, Return
    <3>2. \A f \in Files : f > file' => f > file /\ f # file
      BY <1>a, <3>1
    <3> QED
      BY <1>a, <1>b, <1>12, <3>2 DEF CopyStat, DataOK, OthersUntouched
  <2>3. CurrentFile'
    BY <1>a, <1>b, <1>12
       DEF CopyStat, Goto, Return, ControlOK, DataOK, CurrentFile, BeforeWork, AfterWork,
           names, fate, Final
  <2>4. KeepKeeps'
    BY <1>a, <1>b, <1>12 DEF CopyStat, Goto, NextFile, Return, DataOK, KeepKeeps, ControlOK
  <2>5. RemovableIsOwn'
    BY <1>a, <1>b, <1>12
       DEF CopyStat, Goto, Return, names, DataOK, ControlOK, RemovableIsOwn, KeepKeeps,
           CurrentFile, BeforeWork, AfterWork, Final, Blocked
  <2>6. RemovingIsOwn'
    BY <1>a, <1>b, <1>12
       DEF CopyStat, Goto, NextFile, Return, names, ControlOK, DataOK, RemovableIsOwn,
           RemovingIsOwn, Blocked, Final
  <2> QED
    BY <1>0, <2>1, <2>2, <2>3, <2>4, <2>5, <2>6 DEF IInv
<1>13. CASE SyncDir
  <2>1. NeverLost'
    BY <1>a, <1>b, <1>13
       DEF SyncDir, DataOK, NeverLost, CurrentFile, AfterWork, BeforeWork, RemovingIsOwn,
           Final, fate
  <2>2. OthersUntouched'
    <3>1. file' = file \/ file' = file + 1
      BY <1>13 DEF SyncDir, Goto, NextFile, Return
    <3>2. \A f \in Files : f > file' => f > file /\ f # file
      BY <1>a, <3>1
    <3> QED
      BY <1>a, <1>b, <1>13, <3>2 DEF SyncDir, DataOK, OthersUntouched
  <2>3. CurrentFile'
    BY <1>a, <1>b, <1>13
       DEF SyncDir, Goto, Return, ControlOK, DataOK, CurrentFile, BeforeWork, AfterWork,
           names, fate, Final
  <2>4. KeepKeeps'
    BY <1>a, <1>b, <1>13 DEF SyncDir, Goto, NextFile, Return, DataOK, KeepKeeps, ControlOK
  <2>5. RemovableIsOwn'
    BY <1>a, <1>b, <1>13
       DEF SyncDir, Goto, Return, names, DataOK, ControlOK, RemovableIsOwn, KeepKeeps,
           CurrentFile, BeforeWork, AfterWork, Final, Blocked
  <2>6. RemovingIsOwn'
    BY <1>a, <1>b, <1>13
       DEF SyncDir, Goto, NextFile, Return, names, ControlOK, DataOK, RemovableIsOwn,
           RemovingIsOwn, Blocked, Final
  <2> QED
    BY <1>0, <2>1, <2>2, <2>3, <2>4, <2>5, <2>6 DEF IInv
<1>14. CASE SyncOut
  <2>1. NeverLost'
    BY <1>a, <1>b, <1>14
       DEF SyncOut, DataOK, NeverLost, CurrentFile, AfterWork, BeforeWork, RemovingIsOwn,
           Final, fate
  <2>2. OthersUntouched'
    <3>1. file' = file \/ file' = file + 1
      BY <1>14 DEF SyncOut, Goto, NextFile, Return
    <3>2. \A f \in Files : f > file' => f > file /\ f # file
      BY <1>a, <3>1
    <3> QED
      BY <1>a, <1>b, <1>14, <3>2 DEF SyncOut, DataOK, OthersUntouched
  <2>3. CurrentFile'
    BY <1>a, <1>b, <1>14
       DEF SyncOut, Goto, Return, ControlOK, DataOK, CurrentFile, BeforeWork, AfterWork,
           names, fate, Final
  <2>4. KeepKeeps'
    BY <1>a, <1>b, <1>14 DEF SyncOut, Goto, NextFile, Return, DataOK, KeepKeeps, ControlOK
  <2>5. RemovableIsOwn'
    BY <1>a, <1>b, <1>14
       DEF SyncOut, Goto, Return, names, DataOK, ControlOK, RemovableIsOwn, KeepKeeps,
           CurrentFile, BeforeWork, AfterWork, Final, Blocked
  <2>6. RemovingIsOwn'
    BY <1>a, <1>b, <1>14
       DEF SyncOut, Goto, NextFile, Return, names, ControlOK, DataOK, RemovableIsOwn,
           RemovingIsOwn, Blocked, Final
  <2> QED
    BY <1>0, <2>1, <2>2, <2>3, <2>4, <2>5, <2>6 DEF IInv
<1>15. CASE CloseOut
  <2>1. NeverLost'
    BY <1>a, <1>b, <1>15
       DEF CloseOut, DataOK, NeverLost, CurrentFile, AfterWork, BeforeWork, RemovingIsOwn,
           Final, fate
  <2>2. OthersUntouched'
    <3>1. file' = file \/ file' = file + 1
      BY <1>15 DEF CloseOut, Goto, NextFile, Return
    <3>2. \A f \in Files : f > file' => f > file /\ f # file
      BY <1>a, <3>1
    <3> QED
      BY <1>a, <1>b, <1>15, <3>2 DEF CloseOut, DataOK, OthersUntouched
  <2>3. CurrentFile'
    BY <1>a, <1>b, <1>15
       DEF CloseOut, Goto, Return, ControlOK, DataOK, CurrentFile, BeforeWork, AfterWork,
           names, fate, Final
  <2>4. KeepKeeps'
    BY <1>a, <1>b, <1>15 DEF CloseOut, Goto, NextFile, Return, DataOK, KeepKeeps, ControlOK
  <2>5. RemovableIsOwn'
    BY <1>a, <1>b, <1>15
       DEF CloseOut, Goto, Return, names, DataOK, ControlOK, RemovableIsOwn, KeepKeeps,
           CurrentFile, BeforeWork, AfterWork, Final, Blocked
  <2>6. RemovingIsOwn'
    BY <1>a, <1>b, <1>15
       DEF CloseOut, Goto, NextFile, Return, names, ControlOK, DataOK, RemovableIsOwn,
           RemovingIsOwn, Blocked, Final
  <2> QED
    BY <1>0, <2>1, <2>2, <2>3, <2>4, <2>5, <2>6 DEF IInv
<1>16. CASE ForgetOutput
  <2>1. NeverLost'
    BY <1>a, <1>b, <1>16
       DEF ForgetOutput, DataOK, NeverLost, CurrentFile, AfterWork, BeforeWork,
           RemovingIsOwn, Final, fate
  <2>2. OthersUntouched'
    <3>1. file' = file \/ file' = file + 1
      BY <1>16 DEF ForgetOutput, Goto, NextFile, Return
    <3>2. \A f \in Files : f > file' => f > file /\ f # file
      BY <1>a, <3>1
    <3> QED
      BY <1>a, <1>b, <1>16, <3>2 DEF ForgetOutput, DataOK, OthersUntouched
  <2>3. CurrentFile'
    BY <1>a, <1>b, <1>16
       DEF ForgetOutput, Goto, Return, ControlOK, DataOK, CurrentFile, BeforeWork,
           AfterWork, names, fate, Final
  <2>4. KeepKeeps'
    BY <1>a, <1>b, <1>16
       DEF ForgetOutput, Goto, NextFile, Return, DataOK, KeepKeeps, ControlOK
  <2>5. RemovableIsOwn'
    BY <1>a, <1>b, <1>16
       DEF ForgetOutput, Goto, Return, names, DataOK, ControlOK, RemovableIsOwn,
           KeepKeeps, CurrentFile, BeforeWork, AfterWork, Final, Blocked
  <2>6. RemovingIsOwn'
    BY <1>a, <1>b, <1>16
       DEF ForgetOutput, Goto, NextFile, Return, names, ControlOK, DataOK, RemovableIsOwn,
           RemovingIsOwn, Blocked, Final
  <2> QED
    BY <1>0, <2>1, <2>2, <2>3, <2>4, <2>5, <2>6 DEF IInv
<1>17. CASE UnlinkInput
  <2>1. NeverLost'
    BY <1>a, <1>b, <1>17
       DEF UnlinkInput, DataOK, NeverLost, CurrentFile, AfterWork, BeforeWork,
           RemovingIsOwn, Final, fate
  <2>2. OthersUntouched'
    <3>1. file' = file \/ file' = file + 1
      BY <1>17 DEF UnlinkInput, Goto, NextFile, Return
    <3>2. \A f \in Files : f > file' => f > file /\ f # file
      BY <1>a, <3>1
    <3> QED
      BY <1>a, <1>b, <1>17, <3>2 DEF UnlinkInput, DataOK, OthersUntouched
  <2>3. CurrentFile'
    BY <1>a, <1>b, <1>17
       DEF UnlinkInput, Goto, Return, ControlOK, DataOK, CurrentFile, BeforeWork,
           AfterWork, names, fate, Final
  <2>4. KeepKeeps'
    BY <1>a, <1>b, <1>17
       DEF UnlinkInput, Goto, NextFile, Return, DataOK, KeepKeeps, ControlOK
  <2>5. RemovableIsOwn'
    BY <1>a, <1>b, <1>17
       DEF UnlinkInput, Goto, Return, names, DataOK, ControlOK, RemovableIsOwn, KeepKeeps,
           CurrentFile, BeforeWork, AfterWork, Final, Blocked
  <2>6. RemovingIsOwn'
    BY <1>a, <1>b, <1>17
       DEF UnlinkInput, Goto, NextFile, Return, names, ControlOK, DataOK, RemovableIsOwn,
           RemovingIsOwn, Blocked, Final
  <2> QED
    BY <1>0, <2>1, <2>2, <2>3, <2>4, <2>5, <2>6 DEF IInv
<1>18. CASE Cleanup
  <2>1. NeverLost'
    BY <1>a, <1>b, <1>18
       DEF Cleanup, DataOK, NeverLost, CurrentFile, AfterWork, BeforeWork, RemovingIsOwn,
           Final, fate
  <2>2. OthersUntouched'
    <3>1. file' = file \/ file' = file + 1
      BY <1>18 DEF Cleanup, Goto, NextFile, Return
    <3>2. \A f \in Files : f > file' => f > file /\ f # file
      BY <1>a, <3>1
    <3> QED
      BY <1>a, <1>b, <1>18, <3>2 DEF Cleanup, DataOK, OthersUntouched
  <2>3. CurrentFile'
    <3>2. CASE NextFile
      <4>1. pc \notin Final /\ file' = file + 1
        BY <1>18, <3>2 DEF Cleanup, NextFile, Final
      <4>2. \A f \in Files : f > file => in'[f] = "there" /\ out'[f] \in {"none", "foreign"}
        BY <1>a, <1>b, <1>18, <3>2, <4>1
           DEF Cleanup, Goto, NextFile, DataOK, OthersUntouched
      <4> QED
        BY <1>a, <3>2, <4>1, <4>2, NextFileCurrent
    <3>3. CASE ~NextFile
      BY <1>a, <1>b, <1>18, <3>3
         DEF Cleanup, Goto, Return, ControlOK, DataOK, CurrentFile, BeforeWork, AfterWork,
             names, fate, Final
    <3> QED
      BY <3>2, <3>3
  <2>4. KeepKeeps'
    BY <1>a, <1>b, <1>18 DEF Cleanup, Goto, NextFile, Return, DataOK, KeepKeeps, ControlOK
  <2>5. RemovableIsOwn'
    BY <1>a, <1>b, <1>18
       DEF Cleanup, Goto, Return, names, DataOK, ControlOK, RemovableIsOwn, KeepKeeps,
           CurrentFile, BeforeWork, AfterWork, Final, Blocked
  <2>6. RemovingIsOwn'
    BY <1>a, <1>b, <1>18
       DEF Cleanup, Goto, NextFile, Return, names, ControlOK, DataOK, RemovableIsOwn,
           RemovingIsOwn, Blocked, Final
  <2> QED
    BY <1>0, <2>1, <2>2, <2>3, <2>4, <2>5, <2>6 DEF IInv
<1>19. CASE RemoveBegin
  <2>1. NeverLost'
    BY <1>a, <1>b, <1>19
       DEF RemoveBegin, DataOK, NeverLost, CurrentFile, AfterWork, BeforeWork,
           RemovingIsOwn, Final, fate
  <2>2. OthersUntouched'
    <3>1. file' = file \/ file' = file + 1
      BY <1>19 DEF RemoveBegin, Goto, NextFile, Return
    <3>2. \A f \in Files : f > file' => f > file /\ f # file
      BY <1>a, <3>1
    <3> QED
      BY <1>a, <1>b, <1>19, <3>2 DEF RemoveBegin, DataOK, OthersUntouched
  <2>3. CurrentFile'
    <3>2. CASE NextFile
      <4>1. pc \notin Final /\ file' = file + 1
        BY <1>19, <3>2 DEF RemoveBegin, NextFile, Final
      <4>2. \A f \in Files : f > file => in'[f] = "there" /\ out'[f] \in {"none", "foreign"}
        BY <1>a, <1>b, <1>19, <3>2, <4>1
           DEF RemoveBegin, Goto, NextFile, DataOK, OthersUntouched
      <4> QED
        BY <1>a, <3>2, <4>1, <4>2, NextFileCurrent
    <3>3. CASE ~NextFile
      BY <1>a, <1>b, <1>19, <3>3
         DEF RemoveBegin, Goto, Return, ControlOK, DataOK, CurrentFile, BeforeWork,
             AfterWork, names, fate, Final
    <3> QED
      BY <3>2, <3>3
  <2>4. KeepKeeps'
    BY <1>a, <1>b, <1>19
       DEF RemoveBegin, Goto, NextFile, Return, DataOK, KeepKeeps, ControlOK
  <2>5. RemovableIsOwn'
    BY <1>a, <1>b, <1>19
       DEF RemoveBegin, Goto, Return, names, DataOK, ControlOK, RemovableIsOwn, KeepKeeps,
           CurrentFile, BeforeWork, AfterWork, Final, Blocked
  <2>6. RemovingIsOwn'
    BY <1>a, <1>b, <1>19
       DEF RemoveBegin, Goto, NextFile, Return, names, ControlOK, DataOK, RemovableIsOwn,
           RemovingIsOwn, Blocked, Final
  <2> QED
    BY <1>0, <2>1, <2>2, <2>3, <2>4, <2>5, <2>6 DEF IInv
<1>20. CASE RemoveUnlink
  <2>1. NeverLost'
    BY <1>a, <1>b, <1>20
       DEF RemoveUnlink, DataOK, NeverLost, CurrentFile, AfterWork, BeforeWork,
           RemovingIsOwn, Final, fate
  <2>2. OthersUntouched'
    <3>1. file' = file \/ file' = file + 1
      BY <1>20 DEF RemoveUnlink, Goto, NextFile, Return
    <3>2. \A f \in Files : f > file' => f > file /\ f # file
      BY <1>a, <3>1
    <3> QED
      BY <1>a, <1>b, <1>20, <3>2 DEF RemoveUnlink, DataOK, OthersUntouched
  <2>3. CurrentFile'
    <3>2. CASE NextFile
      <4>1. pc \notin Final /\ file' = file + 1
        BY <1>20, <3>2 DEF RemoveUnlink, NextFile, Final
      <4>2. \A f \in Files : f > file => in'[f] = "there" /\ out'[f] \in {"none", "foreign"}
        BY <1>a, <1>b, <1>20, <3>2, <4>1
           DEF RemoveUnlink, Goto, NextFile, DataOK, OthersUntouched
      <4> QED
        BY <1>a, <3>2, <4>1, <4>2, NextFileCurrent
    <3>3. CASE ~NextFile
      BY <1>a, <1>b, <1>20, <3>3
         DEF RemoveUnlink, Goto, Return, ControlOK, DataOK, CurrentFile, BeforeWork,
             AfterWork, names, fate, Final
    <3> QED
      BY <3>2, <3>3
  <2>4. KeepKeeps'
    BY <1>a, <1>b, <1>20
       DEF RemoveUnlink, Goto, NextFile, Return, DataOK, KeepKeeps, ControlOK
  <2>5. RemovableIsOwn'
    BY <1>a, <1>b, <1>20
       DEF RemoveUnlink, Goto, Return, names, DataOK, ControlOK, RemovableIsOwn,
           KeepKeeps, CurrentFile, BeforeWork, AfterWork, Final, Blocked
  <2>6. RemovingIsOwn'
    BY <1>a, <1>b, <1>20
       DEF RemoveUnlink, Goto, NextFile, Return, names, ControlOK, DataOK, RemovableIsOwn,
           RemovingIsOwn, Blocked, Final
  <2> QED
    BY <1>0, <2>1, <2>2, <2>3, <2>4, <2>5, <2>6 DEF IInv
<1>21. CASE Signal
  <2>1. NeverLost'
    BY <1>a, <1>b, <1>21
       DEF Signal, DataOK, NeverLost, CurrentFile, AfterWork, BeforeWork, RemovingIsOwn,
           Final, fate
  <2>2. OthersUntouched'
    <3>1. file' = file \/ file' = file + 1
      BY <1>21 DEF Signal, Goto, NextFile, Return
    <3>2. \A f \in Files : f > file' => f > file /\ f # file
      BY <1>a, <3>1
    <3> QED
      BY <1>a, <1>b, <1>21, <3>2 DEF Signal, DataOK, OthersUntouched
  <2>3. CurrentFile'
    BY <1>a, <1>b, <1>21
       DEF Signal, Goto, Return, ControlOK, DataOK, CurrentFile, BeforeWork, AfterWork,
           names, fate, Final
  <2>4. KeepKeeps'
    BY <1>a, <1>b, <1>21 DEF Signal, Goto, NextFile, Return, DataOK, KeepKeeps, ControlOK
  <2>5. RemovableIsOwn'
    BY <1>a, <1>b, <1>21
       DEF Signal, Goto, Return, names, DataOK, ControlOK, RemovableIsOwn, KeepKeeps,
           CurrentFile, BeforeWork, AfterWork, Final, Blocked
  <2>6. RemovingIsOwn'
    BY <1>a, <1>b, <1>21
       DEF Signal, Goto, NextFile, Return, names, ControlOK, DataOK, RemovableIsOwn,
           RemovingIsOwn, Blocked, Final
  <2> QED
    BY <1>0, <2>1, <2>2, <2>3, <2>4, <2>5, <2>6 DEF IInv
<1>22. CASE SystemCrash
  <2>1. NeverLost'
    BY <1>a, <1>b, <1>22
       DEF SystemCrash, AfterCrash, DataOK, NeverLost, CurrentFile, AfterWork, BeforeWork,
           RemovingIsOwn, Final, fate
  <2>2. OthersUntouched'
    <3>1. file' = file \/ file' = file + 1
      BY <1>22 DEF SystemCrash, Goto, NextFile, Return
    <3>2. \A f \in Files : f > file' => f > file /\ f # file
      BY <1>a, <3>1
    <3>3. ASSUME NEW f \in Files, f > file' PROVE in'[f] = "there" /\ out'[f] \in {"none", "foreign"}
      <4>1. in[f] = "there" /\ out[f] \in {"none", "foreign"}
        BY <1>b, <3>2, <3>3 DEF OthersUntouched
      <4>2. in'[f] = "there"
        BY <1>22, <4>1 DEF SystemCrash
      <4>3. out'[f] \in AfterCrash(f)
        BY <1>22 DEF SystemCrash
      <4> QED
        BY <4>1, <4>2, <4>3, AfterCrashUnwritten
    <3> QED
      BY <3>3 DEF OthersUntouched
  <2>3. CurrentFile'
    BY <1>a, <1>b, <1>22
       DEF SystemCrash, Goto, Return, AfterCrash, ControlOK, DataOK, CurrentFile,
           BeforeWork, AfterWork, names, fate, Final
  <2>4. KeepKeeps'
    BY <1>a, <1>b, <1>22
       DEF SystemCrash, Goto, NextFile, Return, DataOK, KeepKeeps, ControlOK
  <2>5. RemovableIsOwn'
    BY <1>a, <1>b, <1>22
       DEF SystemCrash, Goto, Return, names, AfterCrash, DataOK, ControlOK,
           RemovableIsOwn, KeepKeeps, CurrentFile, BeforeWork, AfterWork, Final, Blocked
  <2>6. RemovingIsOwn'
    BY <1>a, <1>b, <1>22
       DEF SystemCrash, Goto, NextFile, Return, names, AfterCrash, ControlOK, DataOK,
           RemovableIsOwn, RemovingIsOwn, Blocked, Final
  <2> QED
    BY <1>0, <2>1, <2>2, <2>3, <2>4, <2>5, <2>6 DEF IInv
<1>23. CASE Done
  <2>1. NeverLost'
    BY <1>a, <1>b, <1>23
       DEF Done, vars, DataOK, NeverLost, CurrentFile, AfterWork, BeforeWork,
           RemovingIsOwn, Final, fate
  <2>2. OthersUntouched'
    <3>1. file' = file \/ file' = file + 1
      BY <1>23 DEF Done, Goto, NextFile, Return, vars
    <3>2. \A f \in Files : f > file' => f > file /\ f # file
      BY <1>a, <3>1
    <3> QED
      BY <1>a, <1>b, <1>23, <3>2 DEF Done, vars, DataOK, OthersUntouched
  <2>3. CurrentFile'
    BY <1>a, <1>b, <1>23
       DEF Done, Goto, Return, vars, ControlOK, DataOK, CurrentFile, BeforeWork,
           AfterWork, names, fate, Final
  <2>4. KeepKeeps'
    BY <1>a, <1>b, <1>23
       DEF Done, Goto, NextFile, Return, vars, DataOK, KeepKeeps, ControlOK
  <2>5. RemovableIsOwn'
    BY <1>a, <1>b, <1>23
       DEF Done, Goto, Return, names, vars, DataOK, ControlOK, RemovableIsOwn, KeepKeeps,
           CurrentFile, BeforeWork, AfterWork, Final, Blocked
  <2>6. RemovingIsOwn'
    BY <1>a, <1>b, <1>23
       DEF Done, Goto, NextFile, Return, names, vars, ControlOK, DataOK, RemovableIsOwn,
           RemovingIsOwn, Blocked, Final
  <2> QED
    BY <1>0, <2>1, <2>2, <2>3, <2>4, <2>5, <2>6 DEF IInv
<1>24. CASE UNCHANGED vars
  <2>1. NeverLost' /\ OthersUntouched' /\ CurrentFile' /\ KeepKeeps'
    BY <1>b, <1>24 DEF vars, NeverLost, OthersUntouched, CurrentFile, KeepKeeps
  <2>2. RemovableIsOwn' /\ RemovingIsOwn'
    BY <1>b, <1>24 DEF vars, RemovableIsOwn, RemovingIsOwn, Final
  <2> QED
    BY <1>0, <2>1, <2>2 DEF IInv
<1>25. CASE WorkDies
  <2>1. NeverLost'
    BY <1>a, <1>b, <1>25
       DEF WorkDies, Goto, DataOK, NeverLost, CurrentFile, AfterWork, BeforeWork,
           RemovingIsOwn, Final, fate
  <2>2. OthersUntouched'
    BY <1>a, <1>b, <1>25 DEF WorkDies, Goto, DataOK, OthersUntouched
  <2>3. CurrentFile'
    BY <1>a, <1>b, <1>25
       DEF WorkDies, Goto, ControlOK, DataOK, CurrentFile, BeforeWork, AfterWork, names, Final
  <2>4. KeepKeeps'
    BY <1>a, <1>b, <1>25 DEF WorkDies, Goto, DataOK, KeepKeeps, ControlOK
  <2>5. RemovableIsOwn'
    BY <1>a, <1>b, <1>25
       DEF WorkDies, Goto, names, DataOK, ControlOK, RemovableIsOwn, KeepKeeps, CurrentFile,
           BeforeWork, AfterWork, Final
  <2>6. RemovingIsOwn'
    BY <1>25 DEF WorkDies, Goto, RemovingIsOwn
  <2> QED
    BY <1>0, <2>1, <2>2, <2>3, <2>4, <2>5, <2>6 DEF IInv
<1>26. CASE SecondSignal
  <2>1. NeverLost'
    BY <1>a, <1>b, <1>26
       DEF SecondSignal, Goto, DataOK, NeverLost, CurrentFile, AfterWork, BeforeWork,
           RemovingIsOwn, Final, fate
  <2>2. OthersUntouched'
    BY <1>a, <1>b, <1>26 DEF SecondSignal, Goto, DataOK, OthersUntouched
  <2>3. CurrentFile'
    BY <1>a, <1>b, <1>26
       DEF SecondSignal, Goto, ControlOK, DataOK, CurrentFile, BeforeWork, AfterWork, names, Final
  <2>4. KeepKeeps'
    BY <1>a, <1>b, <1>26 DEF SecondSignal, Goto, DataOK, KeepKeeps, ControlOK
  <2>5. RemovableIsOwn'
    BY <1>a, <1>b, <1>26
       DEF SecondSignal, Goto, names, DataOK, ControlOK, RemovableIsOwn, KeepKeeps, CurrentFile,
           BeforeWork, AfterWork, Final
  <2>6. RemovingIsOwn'
    BY <1>26 DEF SecondSignal, Goto, RemovingIsOwn
  <2> QED
    BY <1>0, <2>1, <2>2, <2>3, <2>4, <2>5, <2>6 DEF IInv
<1> QED
  BY <1>1, <1>2, <1>3, <1>4, <1>5, <1>6, <1>7, <1>8, <1>9, <1>10, <1>11, <1>12, <1>13,
     <1>14, <1>15, <1>16, <1>17, <1>18, <1>19, <1>20, <1>21, <1>22, <1>23, <1>24,
     <1>25, <1>26
     DEF Next

\* So it holds in every reachable state.
LEMMA IInvHolds == Spec => []IInv
<1>1. Init => IInv
  BY InitIInv
<1>2. IInv /\ [Next]_vars => IInv'
  BY IInvInductive
<1> QED
  BY <1>1, <1>2, PTL DEF Spec

-----------------------------------------------------------------------------
(* Theorems.                                                               *)

\* treat_file: at any moment each file's data is in the input file or in a
\* complete output file, as long as the system does not crash and the worker of
\* this file completed it or did not return.
THEOREM NothingIsLost == Spec => []NeverLost
<1>1. IInv => NeverLost
  BY DEF IInv
<1> QED
  BY <1>1, IInvHolds, PTL

\* create_outfile, remove_output_file: unless --keep is given, a file of the
\* user's in the way of an output is removed only by check_ofname.
THEOREM ForeignFilesAreKept == Spec => ForeignKept
<1>1. IInv /\ [Next]_vars =>
        [~opt.keep => \A f \in Files : Removed(f) => pc = "exists"]_vars
  <2> SUFFICES ASSUME IInv, [Next]_vars, ~opt.keep,
                      NEW f \in Files, out[f] = "foreign", pc # "exists"
               PROVE  out'[f] = "foreign"
    BY DEF Removed
  <2>1. DataOK /\ CurrentFile /\ RemovingIsOwn
    BY DEF IInv, TypeOK, DataOK
  <2>2. CASE CreateOutfile
    BY <2>1, <2>2 DEF CreateOutfile, DataOK
  <2>3. CASE WorkCompletes
    BY <2>1, <2>3 DEF WorkCompletes, DataOK, CurrentFile, BeforeWork
  <2>4. CASE RemoveUnlink
    BY <2>1, <2>4 DEF RemoveUnlink, RemovingIsOwn, DataOK
  <2>5. CASE SystemCrash
    BY <2>5, AfterCrashUnwritten DEF SystemCrash
  <2>6. CASE UNCHANGED out
    BY <2>6
  <2> QED
    BY <2>2, <2>3, <2>4, <2>5, <2>6
       DEF Next, OpenInput, MakeOfname, GetMethod, AtdirSet, CheckOfname, WorkFails,
           WorkIgnoresError, WorkAborts, WorkDies, CloseInput, CopyStat, SyncDir, SyncOut,
           CloseOut, ForgetOutput, UnlinkInput, Cleanup, RemoveBegin, Signal, SecondSignal,
           Done, vars
<1> QED
  BY <1>1, IInvHolds, PTL DEF Spec, ForeignKept

\* A step that completes no output and removes no copy is not seen.
LEMMA SameCopies ==
    ASSUME in' = in, spoiled' = spoiled,
           out' = out \/ \A f \in Files : (out'[f] = "whole") = (out[f] = "whole")
    PROVE  Copies' = Copies
  BY DEF Copies

\* A step that changes the copies of one file changes the function at one place.
LEMMA OneCopyChanges ==
    ASSUME NEW g \in Files, \A f \in Files : f # g => Copies'[f] = Copies[f]
    PROVE  Copies' = [Copies EXCEPT ![g] = Copies'[g]]
  BY DEF Copies

\* Nor is one that changes the copies of no file.
LEMMA NoCopyChanges ==
    ASSUME \A f \in Files : Copies'[f] = Copies[f]
    PROVE  Copies' = Copies
  BY DEF Copies

\* treat_file replaces files as ReplaceFiles says, as long as the system does
\* not crash: a second copy is made before the first one is given up.
THEOREM FilesAreReplaced == Spec => ReplaceSpec
<1>1. Init => Replacement!Init
  BY DEF Init, Replacement!Init, Copies
<1>2. IInv /\ [Next]_vars => [Replacement!Next \/ pc' = "crashed"]_Copies
  <2> SUFFICES ASSUME IInv, [Next]_vars
               PROVE  Replacement!Next \/ pc' = "crashed" \/ Copies' = Copies
    OBVIOUS
  <2>0. DataOK /\ NeverLost /\ CurrentFile /\ RemovingIsOwn /\ (pc \notin Final => file \in Files)
    BY DEF IInv, TypeOK, DataOK, OneIsTreated
  <2>1. CASE CreateOutfile
    <3>1. \A f \in Files : (out'[f] = "whole") = (out[f] = "whole")
      BY <2>0, <2>1 DEF CreateOutfile, DataOK
    <3> QED
      BY <2>1, <3>1, SameCopies DEF CreateOutfile, fate
  <2>2. CASE CheckOfname
    <3>1. out[file] # "whole"
      BY <2>0, <2>2 DEF CheckOfname, CurrentFile, BeforeWork
    <3>2. \A f \in Files : (out'[f] = "whole") = (out[f] = "whole")
      BY <2>0, <2>2, <3>1 DEF CheckOfname, DataOK
    <3> QED
      BY <2>2, <3>2, SameCopies DEF CheckOfname, fate
  <2>3. CASE WorkCompletes
    <3>1. /\ file \in Files /\ in' = in /\ out' = [out EXCEPT ![file] = "whole"]
          /\ in[file] = "there" /\ out[file] = "partial" /\ spoiled' = spoiled
      BY <2>0, <2>3 DEF WorkCompletes, CurrentFile, BeforeWork, Final, fate
    <3>2. \A f \in Files : f # file => Copies'[f] = Copies[f]
      BY <2>0, <3>1 DEF Copies, DataOK
    <3>3. CASE file \in spoiled
      <4>1. Copies'[file] = Copies[file]
        BY <3>1, <3>3 DEF Copies
      <4> QED
        BY <3>2, <4>1, NoCopyChanges
    <3>4. CASE file \notin spoiled
      <4>1. Copies[file] = {"in"} /\ Copies'[file] = {"in", "out"}
        BY <2>0, <3>1, <3>4 DEF Copies, DataOK
      <4> QED
        BY <3>1, <3>2, <4>1, OneCopyChanges DEF Replacement!Next, Replacement!Produce
    <3> QED
      BY <3>3, <3>4
  <2>4. CASE WorkFails \/ WorkIgnoresError
    <3>1. /\ file \in Files /\ in' = in /\ out' = out /\ spoiled' = spoiled \union {file}
          /\ in[file] = "there" /\ out[file] = "partial"
      BY <2>0, <2>4 DEF WorkFails, WorkIgnoresError, CurrentFile, BeforeWork, Final
    <3>2. \A f \in Files : f # file => Copies'[f] = Copies[f]
      BY <3>1 DEF Copies
    <3>3. Copies[file] = {"in"} /\ Copies'[file] = {"in"}
      BY <3>1 DEF Copies
    <3> QED
      BY <3>2, <3>3, NoCopyChanges
  <2>5. CASE UnlinkInput
    <3>1. /\ file \in Files /\ out' = out /\ in[file] = "there" /\ spoiled' = spoiled
          /\ out[file] = "whole" \/ file \in spoiled
      BY <2>0, <2>5 DEF UnlinkInput, CurrentFile, Final, fate
    <3>2. CASE in' = in
      BY <3>1, <3>2, SameCopies
    <3>3. CASE in' = [in EXCEPT ![file] = "gone"]
      <4>1. \A f \in Files : f # file => Copies'[f] = Copies[f]
        BY <2>0, <3>1, <3>3 DEF Copies, DataOK
      <4>2. CASE file \in spoiled
        <5>1. Copies'[file] = Copies[file]
          BY <3>1, <4>2 DEF Copies
        <5> QED
          BY <4>1, <5>1, NoCopyChanges
      <4>3. CASE file \notin spoiled
        <5>1. Copies[file] = {"in", "out"} /\ Copies'[file] = {"out"}
          BY <2>0, <3>1, <3>3, <4>3 DEF Copies, DataOK
        <5> QED
          BY <3>1, <4>1, <5>1, OneCopyChanges DEF Replacement!Next, Replacement!Replace
      <4> QED
        BY <4>2, <4>3
    <3> QED
      BY <2>5, <3>2, <3>3 DEF UnlinkInput
  <2>6. CASE RemoveUnlink
    <3>1. /\ ofname \in Files /\ in[ofname] = "there" /\ in' = in /\ spoiled' = spoiled
          /\ out' = [out EXCEPT ![ofname] = "none"]
      BY <2>0, <2>6 DEF RemoveUnlink, RemovingIsOwn, fate
    <3>2. \A f \in Files : f # ofname => Copies'[f] = Copies[f]
      BY <2>0, <3>1 DEF Copies, DataOK
    <3>3. Copies'[ofname] = {"in"}
      BY <2>0, <3>1 DEF Copies, DataOK
    <3>4. Copies[ofname] = {"in"} \/ Copies[ofname] = {"in", "out"}
      BY <2>0, <3>1 DEF Copies, DataOK
    <3>5. CASE Copies[ofname] = {"in"}
      BY <3>2, <3>3, <3>5, NoCopyChanges
    <3>6. CASE Copies[ofname] = {"in", "out"}
      BY <3>1, <3>2, <3>3, <3>6, OneCopyChanges DEF Replacement!Next, Replacement!Undo
    <3> QED
      BY <3>4, <3>5, <3>6
  <2>7. CASE SystemCrash
    BY <2>7 DEF SystemCrash
  <2>8. CASE in' = in /\ out' = out /\ spoiled' = spoiled
    BY <2>8, SameCopies
  <2> QED
    BY <2>1, <2>2, <2>3, <2>4, <2>5, <2>6, <2>7, <2>8
       DEF Next, OpenInput, MakeOfname, GetMethod, AtdirSet, WorkAborts, WorkDies,
           CloseInput, CopyStat, SyncDir, SyncOut, CloseOut, ForgetOutput, Cleanup,
           RemoveBegin, Signal, SecondSignal, Done, vars, fate
<1> QED
  BY <1>1, <1>2, IInvHolds, PTL DEF Spec, ReplaceSpec

-----------------------------------------------------------------------------
(* Incomplete outputs.                                                     *)

\* An incomplete output is that of the file being treated, which ofname names; it
\* will be removed, or the program died before it was.
PartialInv ==
    pc # "crashed" =>
        \A f \in Files \ spoiled :
            out[f] = "partial" =>
                /\ f = file /\ ofname = f
                /\ \/ pc \in {"removing", "died", "overtaken"}
                   \/ pc \in {"work", "remove"} /\ remove_ofname_fd # None

LEMMA FilesAreNumbers == \A f \in Files : f \in Nat /\ f # None
BY FilesAssumption, SMT DEF FilesAssumption, Files, None

LEMMA PartialKeeps == IInv /\ PartialInv /\ [Next]_vars => PartialInv'
<1> SUFFICES ASSUME IInv, PartialInv, [Next]_vars PROVE PartialInv'  OBVIOUS
<1>0. /\ DataOK /\ CurrentFile
      /\ pc \notin Final => file \in Files
    BY DEF IInv, TypeOK, DataOK, OneIsTreated
<1>1. CASE /\ pc \notin {"work", "remove", "removing"} \union Final
           /\ out' = out /\ spoiled' = spoiled
    BY <1>1 DEF PartialInv, Final
<1>2. CASE CreateOutfile
    BY <1>0, <1>2, FilesAreNumbers DEF CreateOutfile, PartialInv, CurrentFile, DataOK, Goto,
       NextFile, Abort, names, fate, Final
<1>3. CASE CheckOfname
    BY <1>0, <1>3 DEF CheckOfname, PartialInv, DataOK, fate, Final
<1>4. CASE WorkCompletes
    BY <1>0, <1>4 DEF WorkCompletes, PartialInv, CurrentFile, DataOK, names, fate, Final
<1>5. CASE WorkFails \/ WorkIgnoresError
    BY <1>0, <1>5 DEF WorkFails, WorkIgnoresError, PartialInv, CurrentFile, Final
<1>6. CASE WorkAborts
    BY <1>6 DEF WorkAborts, Abort, PartialInv, names, fate
<1>7. CASE RemoveBegin
    BY <1>7 DEF RemoveBegin, Goto, Return, PartialInv, names, fate
<1>8. CASE RemoveUnlink
    BY <1>0, <1>8 DEF RemoveUnlink, PartialInv, DataOK, fate
<1>9. CASE Signal
    BY <1>9 DEF Signal, Blocked, PartialInv, names, Final
<1>10. CASE SystemCrash
    BY <1>10 DEF SystemCrash, PartialInv
<1>11. CASE UNCHANGED vars
    BY <1>11 DEF vars, PartialInv
<1>12. CASE WorkDies \/ SecondSignal
    BY <1>12 DEF WorkDies, SecondSignal, Goto, PartialInv, names, fate
<1> QED
    BY <1>1, <1>2, <1>3, <1>4, <1>5, <1>6, <1>7, <1>8, <1>9, <1>10, <1>11, <1>12
       DEF Next, OpenInput, MakeOfname, GetMethod, AtdirSet, CloseInput, CopyStat, SyncDir,
           SyncOut, CloseOut, ForgetOutput, UnlinkInput, Cleanup, Done, fate, Final

\* remove_output_file: of the outputs whose worker did not return without completing
\* them, none is left incomplete when the program returns, aborts or dies of one
\* signal, and only the current one when it dies in the worker or of a second signal.
THEOREM NoPartialIsLeft == Spec => []NoPartialLeft
<1>1. Init => PartialInv
    BY DEF Init, PartialInv
<1>2. PartialInv => NoPartialLeft
    BY DEF PartialInv, NoPartialLeft, Final
<1> QED BY <1>1, <1>2, PartialKeeps, IInvHolds, PTL DEF Spec

-----------------------------------------------------------------------------
(* The exit status.                                                        *)

\* Files that treat_file is done with.
Passed(f) == f < file \/ (f = file /\ pc \in AfterWork \union {"unlinking", "cleanup"})

\* The program is about to end, or has, other than by the end of main.
Stopped == {"remove", "removing", "killed", "died", "overtaken", "crashed"}

\* Nothing has been reported yet, and everything passed is whole; an error is
\* reported before its file is passed.
SuccessInv ==
    /\ method = "error" => exit_code = "ERROR"
    /\ pc \in {"remove", "removing"} /\ exit_code = "OK" => return = "killed"
    /\ pc = "exited" /\ exit_code = "OK" => \A f \in Files : f < file
    /\ opt.decompress /\ exit_code = "OK" /\ pc \notin Stopped =>
           \A f \in Files \ spoiled : Passed(f) => out[f] = "whole"

\* Unless the exit status says so, no worker reported that it did not complete its
\* file: those that did not complete it returned OK.
OverlookedInv == exit_code # "ERROR" => spoiled \subseteq overlooked

\* The while loop of main ends behind the last file.
LEMMA LoopEnds ==
    ASSUME file \in Files, NextFile
    PROVE  /\ file' = file + 1
           /\ pc' = "exited" \/ pc' = "open"
           /\ pc' = "exited" => \A f \in Files : f < file'
           /\ \A f \in Files : f < file' <=> f < file \/ f = file
BY FilesAssumption DEF FilesAssumption, Files, NextFile

\* A file is passed as before.
LEMMA SuccessNext ==
    ASSUME SuccessInv, pc \notin Final \union {"remove", "removing"}, file \in Files,
           UNCHANGED <<opt, method, out, spoiled>>,
           exit_code' = exit_code \/ exit_code' # "OK",
           exit_code = "ERROR" => exit_code' = "ERROR",
           \/ /\ NextFile
              /\ \/ exit_code' # "OK" \/ ~opt.decompress
                 \/ pc = "cleanup"
           \/ /\ file' = file
              /\ pc' \notin Final \union {"remove", "removing"}
              /\ pc' \in AfterWork \union {"unlinking", "cleanup"} =>
                    pc \in AfterWork \union {"unlinking", "cleanup"}
    PROVE  SuccessInv'
<1>1. CASE NextFile
  <2>1. /\ pc' \in {"exited", "open"}
        /\ pc' = "exited" => \A f \in Files : f < file'
        /\ \A f \in Files : f < file' <=> f < file \/ f = file
      BY <1>1, LoopEnds
  <2>2. /\ pc' \notin {"remove", "removing"} \union AfterWork \union {"unlinking", "cleanup"}
      BY <2>1 DEF AfterWork
  <2>3. exit_code' = "OK" => exit_code = "OK"
      BY DEF SuccessInv
  <2>4. exit_code' = "OK" /\ opt.decompress => pc = "cleanup"
      BY <1>1, FilesAreNumbers, LoopEnds
  <2>5. opt.decompress /\ exit_code' = "OK" =>
            \A f \in Files \ spoiled : f < file' => out[f] = "whole"
      BY <2>1, <2>3, <2>4 DEF SuccessInv, Passed, Stopped
  <2> QED BY <2>1, <2>2, <2>5 DEF SuccessInv, Passed
<1>2. CASE ~NextFile
    BY <1>2, FilesAreNumbers DEF SuccessInv, Passed, Final, Stopped
<1> QED BY <1>1, <1>2

LEMMA SuccessKeeps == IInv /\ SuccessInv /\ [Next]_vars => SuccessInv'
<1> SUFFICES ASSUME IInv, SuccessInv, [Next]_vars PROVE SuccessInv'  OBVIOUS
<1>0. /\ DataOK /\ CurrentFile
      /\ pc \notin Final => file \in Files
    BY DEF IInv, TypeOK, DataOK, OneIsTreated
<1>1. CASE OpenInput \/ MakeOfname \/ GetMethod \/ AtdirSet
  <2>1. CASE GetMethod /\ Abort
      BY <2>1 DEF GetMethod, Abort, SuccessInv, Stopped
  <2> QED BY <1>0, <1>1, <2>1, SuccessNext
             DEF OpenInput, MakeOfname, GetMethod, AtdirSet, Goto, Warn, names, fate, Final, AfterWork
<1>2. CASE CreateOutfile \/ CheckOfname
  <2>1. \A f \in Files : f # file => out'[f] = out[f]
      BY <1>0, <1>2 DEF CreateOutfile, CheckOfname, DataOK
  <2>2. CASE NextFile
    <3>1. /\ pc' \in {"exited", "open"}
          /\ exit_code' # "OK" /\ UNCHANGED method /\ (exit_code = "ERROR" => exit_code' = "ERROR")
        BY <1>0, <1>2, <2>2 DEF CreateOutfile, CheckOfname, Goto, NextFile, Abort, Warn, Final
    <3> QED BY <3>1 DEF SuccessInv
  <2>4. CASE CreateOutfile /\ Abort
      BY <2>4 DEF Abort, SuccessInv, Stopped
  <2>3. CASE ~NextFile /\ ~(CreateOutfile /\ Abort)
    <3>1. /\ file' = file /\ pc' \in {"create", "work", "exists"}
          /\ UNCHANGED <<opt, exit_code, method, spoiled>>
        BY <1>2, <2>3 DEF CreateOutfile, CheckOfname, Goto, fate
    <3>2. pc \in {"create", "exists"}
        BY <1>2 DEF CreateOutfile, CheckOfname
    <3> QED BY <1>0, <2>1, <3>1, <3>2, FilesAreNumbers DEF SuccessInv, Passed, AfterWork, Stopped
  <2> QED BY <2>2, <2>3, <2>4
<1>3. CASE WorkCompletes
    BY <1>0, <1>3, FilesAreNumbers DEF WorkCompletes, Warn, Goto, SuccessInv, Passed, DataOK, fate, Stopped
<1>4. CASE WorkFails \/ WorkIgnoresError
    BY <1>0, <1>4, FilesAreNumbers
       DEF WorkFails, WorkIgnoresError, Warn, Goto, SuccessInv, Passed, Stopped
<1>5. CASE WorkAborts
    BY <1>5 DEF WorkAborts, Abort, SuccessInv, Stopped
<1>6. CASE CloseInput \/ CopyStat \/ SyncDir \/ SyncOut \/ CloseOut \/ ForgetOutput \/ UnlinkInput
  <2>1. /\ pc \in AfterWork \union {"unlinking"}
        /\ UNCHANGED <<opt, method, out, spoiled>>
        /\ exit_code' = exit_code \/ (exit_code' # "OK" /\ exit_code # "ERROR")
        /\ file' = file
        /\ pc' \in AfterWork \union {"unlinking", "cleanup"}
      BY <1>6 DEF CloseInput, CopyStat, SyncDir, SyncOut, CloseOut, ForgetOutput, UnlinkInput,
                  Goto, Warn, fate, AfterWork
  <2>2. /\ pc \notin Final \union {"remove", "removing"}
        /\ pc' \notin Final \union {"remove", "removing"}
      BY <2>1 DEF AfterWork, Final
  <2> QED BY <1>0, <2>1, <2>2, SuccessNext
<1>7. CASE Cleanup
  <2>1. CASE method = "error"
      BY <1>7, <2>1 DEF Cleanup, SuccessInv, Stopped
  <2>2. CASE method # "error"
      BY <1>0, <1>7, <2>2, SuccessNext DEF Cleanup, fate, Final
  <2> QED BY <2>1, <2>2
<1>8. CASE RemoveBegin
  <2>1. /\ pc = "remove" /\ UNCHANGED <<opt, method, out, spoiled, exit_code>>
        /\ \/ pc' = "removing" /\ return' = return
           \/ return # "next" /\ pc' = return
           \/ return = "next"
      BY <1>8 DEF RemoveBegin, Return, Goto, fate
  <2>2. CASE exit_code = "OK"
      BY <2>1, <2>2 DEF SuccessInv, Stopped
  <2>3. CASE exit_code # "OK"
      BY <2>1, <2>3 DEF SuccessInv
  <2> QED BY <2>2, <2>3
<1>9. CASE RemoveUnlink
    BY <1>9 DEF RemoveUnlink, Return, Goto, SuccessInv, fate, Stopped
<1>10. CASE Signal \/ SystemCrash
    BY <1>10 DEF Signal, SystemCrash, SuccessInv, Stopped
<1>11. CASE UNCHANGED vars
    BY <1>11 DEF vars, SuccessInv, Passed
<1>12. CASE WorkDies \/ SecondSignal
    BY <1>12 DEF WorkDies, SecondSignal, Goto, SuccessInv, Stopped
<1> QED
    BY <1>1, <1>2, <1>3, <1>4, <1>5, <1>6, <1>7, <1>8, <1>9, <1>10, <1>11, <1>12 DEF Next, Done

\* WARN does not take back an error.
LEMMA ErrorsStay == OverlookedInv /\ [Next]_vars => OverlookedInv'
<1> SUFFICES ASSUME OverlookedInv, [Next]_vars PROVE OverlookedInv'  OBVIOUS
<1>1. CASE /\ UNCHANGED <<spoiled, overlooked>>
           /\ exit_code = "ERROR" => exit_code' = "ERROR"
    BY <1>1 DEF OverlookedInv
<1>2. CASE OpenInput \/ MakeOfname \/ GetMethod \/ AtdirSet \/ CreateOutfile \/ CheckOfname
    BY <1>1, <1>2 DEF OpenInput, MakeOfname, GetMethod, AtdirSet, CreateOutfile, CheckOfname, Warn,
       Abort, fate
<1>3. CASE WorkFails
    BY <1>3 DEF WorkFails, OverlookedInv
<1>4. CASE WorkIgnoresError
  <2>1. exit_code = "ERROR" => exit_code' = "ERROR"
      BY <1>4 DEF WorkIgnoresError, Warn
  <2> QED BY <1>4, <2>1 DEF WorkIgnoresError, OverlookedInv
<1>5. CASE WorkCompletes \/ WorkAborts \/ WorkDies
    BY <1>1, <1>5 DEF WorkCompletes, WorkAborts, WorkDies, Warn, Abort, fate
<1>6. CASE CloseInput \/ CopyStat \/ SyncDir \/ SyncOut \/ CloseOut \/ ForgetOutput \/ UnlinkInput
    BY <1>1, <1>6 DEF CloseInput, CopyStat, SyncDir, SyncOut, CloseOut, ForgetOutput, UnlinkInput,
       Warn, fate
<1>7. CASE \/ Cleanup \/ RemoveBegin \/ RemoveUnlink
           \/ Signal \/ SecondSignal \/ SystemCrash \/ UNCHANGED vars
    BY <1>1, <1>7 DEF Cleanup, RemoveBegin, RemoveUnlink, Signal, SecondSignal, SystemCrash, fate,
       vars
<1> QED BY <1>2, <1>3, <1>4, <1>5, <1>6, <1>7 DEF Next, Done

\* main: exit status 0 of a decompression means that each file was decompressed, or
\* that its worker did not complete it and returned OK all the same.
THEOREM SuccessIsTrue == Spec => []SuccessMeansWhole
<1>1. Init => SuccessInv /\ OverlookedInv
  <2> SUFFICES ASSUME Init PROVE SuccessInv /\ OverlookedInv  OBVIOUS
  <2>0. file = 1 /\ pc = IF NFiles = 0 THEN "exited" ELSE "open"
      BY DEF Init
  <2>1. pc = "exited" => Files = {}
      BY <2>0, FilesAssumption DEF FilesAssumption, Files
  <2>2. \A f \in Files : ~(f < file)
      BY <2>0, FilesAssumption DEF FilesAssumption, Files
  <2>3. pc \notin AfterWork \union {"unlinking", "cleanup", "remove", "removing"}
      BY DEF Init, AfterWork
  <2> QED BY <2>1, <2>2, <2>3 DEF Init, SuccessInv, OverlookedInv, Passed
<1>2. SuccessInv /\ OverlookedInv => SuccessMeansWhole
    BY DEF SuccessInv, OverlookedInv, SuccessMeansWhole, Passed, Stopped
<1> QED BY <1>1, <1>2, SuccessKeeps, ErrorsStay, IInvHolds, PTL DEF Spec

-----------------------------------------------------------------------------
(* --synchronous.                                                          *)

\* dfd is the descriptor of the directory in dfname, and that is the one of the
\* file being treated, when its input is to be removed.
DirectoryInv ==
    /\ dfname \in Dirs => dfd = (dfname \in Searchable)
    /\ ~opt.keep /\ pc \in {"create", "exists", "work", "unlinking"} \union AfterWork =>
           dfname = DirOf[file]

\* Both parts of an output are on the disk before its input is removed.
DiskInv ==
    opt.synchronous /\ pc # "crashed" =>
        \A f \in Files \ spoiled :
            /\ (/\ DirOf[f] \in Searchable
                /\ \/ in[f] = "gone"
                   \/ /\ f = file /\ ~opt.keep
                      /\ pc \in {"sync_out", "close_out", "unlink", "unlinking"})
                   => f \in entered
            /\ (in[f] = "gone" \/ (f = file /\ pc \in {"close_out", "unlink", "unlinking"}))
                   => f \in synced

LEMMA DirectoryStarts == Init => DirectoryInv
<1> SUFFICES ASSUME Init PROVE DirectoryInv  OBVIOUS
<1>1. dfname = "" /\ pc \in {"exited", "open"}
    BY DEF Init
<1>2. dfname \notin Dirs
    BY <1>1, DirsAssumption DEF DirsAssumption
<1> QED BY <1>1, <1>2 DEF DirectoryInv, AfterWork

LEMMA DirectoryKeeps == IInv /\ DirectoryInv /\ [Next]_vars => DirectoryInv'
<1> SUFFICES ASSUME IInv, DirectoryInv, [Next]_vars PROVE DirectoryInv'  OBVIOUS
<1>0. pc \notin Final => file \in Files
    BY DEF IInv, OneIsTreated
<1>1. CASE AtdirSet
  <2>1. opt' = opt /\ file' = file /\ pc' = "create"
      BY <1>1 DEF AtdirSet, Goto
  <2>2. CASE opt.keep \/ dfname = DirOf[file]
      BY <1>1, <2>1, <2>2, Zenon DEF AtdirSet, DirectoryInv
  <2>3. CASE ~(opt.keep \/ dfname = DirOf[file])
    <3>1. dfname' = DirOf[file] /\ dfd' = (DirOf[file] \in Searchable)
        BY <1>1, <2>3, Zenon DEF AtdirSet
    <3> QED BY <2>1, <3>1, Zenon DEF DirectoryInv
  <2> QED BY <2>2, <2>3
<1>2. ASSUME UNCHANGED <<opt, dfname, dfd>>,
             \/ pc' \notin {"create", "exists", "work", "unlinking"} \union AfterWork
             \/ file' = file /\ pc \in {"create", "exists", "work", "unlinking"} \union AfterWork
      PROVE  DirectoryInv'
    BY <1>2 DEF DirectoryInv
<1>3. CASE OpenInput \/ MakeOfname \/ GetMethod
    BY <1>2, <1>3 DEF OpenInput, MakeOfname, GetMethod, Goto, NextFile, Abort, names, AfterWork
<1>4. CASE CreateOutfile \/ CheckOfname
    BY <1>2, <1>4 DEF CreateOutfile, CheckOfname, Goto, NextFile, Abort, names, AfterWork
<1>5. CASE WorkCompletes \/ WorkFails \/ WorkIgnoresError \/ WorkAborts \/ WorkDies
    BY <1>2, <1>5 DEF WorkCompletes, WorkFails, WorkIgnoresError, WorkAborts, WorkDies, Goto, Abort,
       names, AfterWork
<1>6. CASE CloseInput \/ CopyStat \/ SyncDir \/ SyncOut \/ CloseOut
    BY <1>2, <1>6 DEF CloseInput, CopyStat, SyncDir, SyncOut, CloseOut, Goto, names, AfterWork
<1>7. CASE ForgetOutput \/ UnlinkInput \/ Cleanup
    BY <1>2, <1>7 DEF ForgetOutput, UnlinkInput, Cleanup, Goto, NextFile, names, AfterWork
<1>8. CASE RemoveBegin \/ RemoveUnlink
  <2>1. return \in {"next", "exited", "killed"}
      BY DEF IInv, TypeOK
  <2> QED BY <1>2, <1>8, <2>1 DEF RemoveBegin, RemoveUnlink, Return, Goto, NextFile, names, AfterWork
<1>9. CASE Signal \/ SecondSignal \/ SystemCrash
    BY <1>2, <1>9 DEF Signal, SecondSignal, SystemCrash, Goto, names, AfterWork
<1>10. CASE UNCHANGED vars
    BY <1>10 DEF vars, DirectoryInv
<1> QED
    BY <1>1, <1>3, <1>4, <1>5, <1>6, <1>7, <1>8, <1>9, <1>10 DEF Next, Done

LEMMA DiskKeeps == IInv /\ DirectoryInv /\ DiskInv /\ [Next]_vars => DiskInv'
<1> SUFFICES ASSUME IInv, DirectoryInv, DiskInv, [Next]_vars PROVE DiskInv'  OBVIOUS
<1>0. /\ DataOK /\ CurrentFile /\ KeepKeeps
      /\ pc \notin Final => file \in Files
      /\ DirOf \in [Files -> Dirs]
    BY FilesAssumption DEF FilesAssumption, IInv, TypeOK, DataOK, OneIsTreated
<1> DEFINE Late == {"sync_out", "close_out", "unlink", "unlinking"}
\* A step that neither syncs nor removes an input.
<1>1. ASSUME UNCHANGED <<opt, in, synced, entered>>, spoiled \subseteq spoiled',
             \/ pc' \notin Late
             \/ file' = file /\ (pc = pc' \/ (pc \in Late \ {"sync_out"} /\ pc' # "sync_out")),
             pc # "crashed"
      PROVE  DiskInv'
    BY <1>1 DEF DiskInv
<1>2. CASE SyncDir
  <2>1. /\ pc = "sync_dir" /\ pc' = "sync_out" /\ file' = file
        /\ UNCHANGED <<opt, in, out, dfname, dfd, synced, spoiled>>
        /\ file \in Files
      BY <1>0, <1>2 DEF SyncDir, Goto, names, Final
  <2>2. entered \subseteq entered'
      BY <1>2 DEF SyncDir
  <2>3. opt.synchronous /\ ~opt.keep /\ DirOf[file] \in Searchable /\ file \notin spoiled =>
            file \in entered'
    <3> SUFFICES ASSUME opt.synchronous, ~opt.keep, DirOf[file] \in Searchable, file \notin spoiled
                 PROVE  file \in entered'
        OBVIOUS
    <3>1. dfname = DirOf[file]
        BY <2>1 DEF DirectoryInv, AfterWork
    <3>2. dfd
      <4>1. dfname \in Dirs /\ dfname \in Searchable  BY <1>0, <2>1, <3>1
      <4> QED BY <4>1 DEF DirectoryInv
    <3>3. out[file] = "whole"
        BY <1>0, <2>1 DEF CurrentFile, AfterWork
    <3> QED BY <1>2, <2>1, <3>1, <3>2, <3>3 DEF SyncDir
  <2> QED BY <2>1, <2>2, <2>3 DEF DiskInv
<1>3. CASE SyncOut
    BY <1>0, <1>3 DEF SyncOut, Goto, DiskInv, names, Final
<1>4. CASE UnlinkInput
  <2>1. /\ pc = "unlinking" /\ pc' = "cleanup" /\ file' = file /\ file \in Files
        /\ UNCHANGED <<opt, synced, entered, spoiled>>
        /\ \A f \in Files : f # file => in'[f] = in[f]
      BY <1>0, <1>4 DEF UnlinkInput, Goto, fate, DataOK, Final
  <2>2. ~opt.keep
      BY <1>0, <2>1 DEF KeepKeeps
  <2> QED BY <2>1, <2>2 DEF DiskInv
<1>5. CASE OpenInput \/ MakeOfname \/ GetMethod \/ AtdirSet \/ CreateOutfile \/ CheckOfname
    BY <1>1, <1>5 DEF OpenInput, MakeOfname, GetMethod, AtdirSet, CreateOutfile, CheckOfname, Goto,
       NextFile, Abort, fate
<1>6. CASE WorkCompletes \/ WorkFails \/ WorkIgnoresError \/ WorkAborts \/ WorkDies
    BY <1>1, <1>6 DEF WorkCompletes, WorkFails, WorkIgnoresError, WorkAborts, WorkDies, Goto, Abort,
       fate
<1>7. CASE CloseInput \/ CopyStat \/ CloseOut \/ ForgetOutput \/ Cleanup
    BY <1>1, <1>7 DEF CloseInput, CopyStat, CloseOut, ForgetOutput, Cleanup, Goto, NextFile, fate
<1>8. CASE RemoveBegin \/ RemoveUnlink
  <2>1. return \in {"next", "exited", "killed"}
      BY DEF IInv, TypeOK
  <2> QED BY <1>1, <1>8, <2>1 DEF RemoveBegin, RemoveUnlink, Return, Goto, NextFile, fate
<1>9. CASE Signal \/ SecondSignal
    BY <1>1, <1>9 DEF Signal, SecondSignal, Goto, fate, Final
<1>10. CASE SystemCrash
    BY <1>10 DEF SystemCrash, DiskInv
<1>11. CASE UNCHANGED vars
    BY <1>11 DEF vars, DiskInv
<1> QED
    BY <1>2, <1>3, <1>4, <1>5, <1>6, <1>7, <1>8, <1>9, <1>10, <1>11 DEF Next, Done

\* treat_file with --synchronous: at any moment, and after a crash of the system,
\* each file's data is in the input file or in a complete output file.
THEOREM CrashLosesNothing == Spec => []CrashKeeps
<1>1. Init => DirectoryInv /\ DiskInv /\ CrashKeeps
  <2> SUFFICES ASSUME Init PROVE DiskInv /\ CrashKeeps  BY DirectoryStarts
  <2>1. in = [f \in Files |-> "there"] /\ pc \in {"exited", "open"}
      BY DEF Init
  <2> QED BY <2>1 DEF DiskInv, CrashKeeps
<1>2. IInv /\ DirectoryInv /\ DiskInv /\ CrashKeeps /\ [Next]_vars => CrashKeeps'
  <2> SUFFICES ASSUME IInv, DirectoryInv, DiskInv, CrashKeeps, [Next]_vars PROVE CrashKeeps'
      OBVIOUS
  <2>1. NeverLost /\ NeverLost' /\ DataOK
      BY IInvInductive DEF IInv, TypeOK, DataOK
  <2>2. CASE SystemCrash
    <3> SUFFICES ASSUME opt.synchronous, NEW f \in Files \ spoiled, DirOf[f] \in Searchable
                 PROVE  in'[f] = "there" \/ out'[f] = "whole"
        BY <2>2 DEF SystemCrash, CrashKeeps, fate
    <3>1. pc # "crashed" /\ out'[f] \in AfterCrash(f) /\ (in[f] = "there" => in'[f] = "there")
        BY <2>2 DEF SystemCrash
    <3>2. CASE in[f] = "there"
        BY <3>1, <3>2
    <3>3. CASE in[f] = "gone"
      <4>1. f \in entered /\ f \in synced
          BY <3>1, <3>3 DEF DiskInv
      <4>2. out[f] = "whole"
          BY <2>1, <3>1, <3>3 DEF NeverLost
      <4> QED BY <3>1, <4>1, <4>2 DEF AfterCrash
    <3> QED BY <2>1, <3>2, <3>3 DEF DataOK
  <2>3. CASE pc' = "crashed" /\ ~SystemCrash
    <3>1. pc = "crashed" \/ pc' # "crashed"
        BY <2>3 DEF Next, OpenInput, MakeOfname, GetMethod, AtdirSet, CreateOutfile, CheckOfname,
           WorkCompletes, WorkFails, WorkIgnoresError, WorkAborts, WorkDies, CloseInput, CopyStat, SyncDir,
           SyncOut, CloseOut, ForgetOutput, UnlinkInput, Cleanup, RemoveBegin, RemoveUnlink, Signal,
           SecondSignal, Done, vars, Goto, NextFile, Abort, Return, IInv, TypeOK
    <3>2. CASE pc = "crashed"
      <4>1. UNCHANGED vars
          BY <2>3, <3>2 DEF Next, OpenInput, MakeOfname, GetMethod, AtdirSet, CreateOutfile,
             CheckOfname, WorkCompletes, WorkFails, WorkIgnoresError, WorkAborts, WorkDies, CloseInput,
             CopyStat, SyncDir, SyncOut, CloseOut, ForgetOutput, UnlinkInput, Cleanup, RemoveBegin,
             RemoveUnlink, Signal, SecondSignal, Done, Final
      <4> QED BY <4>1 DEF vars, CrashKeeps
    <3> QED BY <2>3, <3>1, <3>2
  <2>4. CASE pc' # "crashed"
      BY <2>1, <2>4 DEF NeverLost, CrashKeeps
  <2> QED BY <2>2, <2>3, <2>4
<1> QED BY <1>1, <1>2, DirectoryKeeps, DiskKeeps, IInvHolds, PTL DEF Spec
=============================================================================
