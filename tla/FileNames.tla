------------------------------ MODULE FileNames ------------------------------
(***************************************************************************)
(* The names of the files: which file treat_file opens, what its output is   *)
(* called, what happens when that name is too long or taken, and what is in  *)
(* the directory after one command has been given after another.  A name is *)
(* a sequence of characters, and all names are those of one directory.      *)
(*                                                                          *)
(* The worker is one step that does not fail, and nothing comes between; see *)
(* FileLife for what else may happen to a file.                              *)
(***************************************************************************)
EXTENDS Integers, FiniteSetsExt, SequencesExt

CONSTANTS
    Characters,    \* what names are made of
    NameMax,       \* NAME_MAX of the file system
    MinPart,       \* MIN_PART
    SavedName,     \* the name that zip passes on for the header
    Scripts        \* what the directory holds, and the commands given, see IsScript

\* An argument is a name, or Here, the directory, for --recursive.
Text == Seq(Characters)
Here == <<".">>
Nobody == <<".", ".">>
Names == Text \ {<<>>, Here, Nobody}

(***************************************************************************)
(* id: whose data it is; layers: what was done to it.  The header of a layer *)
(* has the name saved, or none; the rest is history: what it was called      *)
(* before and then, the suffix in use, and whether the name lost characters. *)
(***************************************************************************)
Layer == [saved : Text, name : Text, as : Text, suffix : Text, cut : BOOLEAN]
Contents == [id : Names, layers : Seq(Layer)]
Partial == [id |-> Nobody, layers |-> <<>>]

Item == [decompress : BOOLEAN, force : BOOLEAN, keep : BOOLEAN, restore : BOOLEAN,
         suffix : Names, arg : Names \cup {Here}]
IsScript(s) ==
    /\ IsFiniteSet(DOMAIN s.dir) /\ DOMAIN s.dir \subseteq Names
    /\ \A name \in DOMAIN s.dir :
        /\ s.dir[name] \in Contents
        \* What others have compressed has no history.
        /\ \A k \in 1 .. Len(s.dir[name].layers) : s.dir[name].layers[k].suffix = <<>>
    /\ s.todo \in Seq(Item)
    \* shorten_name looks at four characters before the suffix.
    /\ \A k \in 1 .. Len(s.todo) : Len(s.todo[k].suffix) + 4 <= NameMax

ASSUME FileNamesAssumption ==
    /\ {"G", "Z", "T", "A", "g", "z", "t", "a", "r", ".", "-", "_"} \subseteq Characters
    /\ NameMax \in Nat /\ NameMax >= 8      \* POSIX has 14
    /\ MinPart \in Nat \ {0}
    /\ SavedName \in Names
    /\ \A s \in Scripts : IsScript(s)

VARIABLES
    script,        \* what is given; it never changes
    dir,           \* the files
    todo,          \* the arguments that are left, each with its options
    listed,        \* how many of them come from a directory that was read
    pc,            \* the place in treat_file
    ifname, ofname,
    data,          \* the file that ifd is open for
    shortened,     \* name_shortened
    cut,           \* history: a character of ofname was removed
    agreed,        \* history: whose files were removed with permission
    made           \* history: the outputs since a directory was read
vars == <<script, dir, todo, listed, pc, ifname, ofname, data, shortened, cut, agreed, made>>
argVars == <<script, todo, listed, made>>
outVars == <<ofname, shortened, cut>>

item == Head(todo)
Without(name) == [n \in DOMAIN dir \ {name} |-> dir[n]]
With(name, content) == [n \in DOMAIN dir \cup {name} |-> IF n = name THEN content ELSE dir[n]]

-----------------------------------------------------------------------------
(* get_suffix.                                                              *)

Start(name, n) == SubSeq(name, 1, n)
End(name, n) == SubSeq(name, Len(name) - n + 1, Len(name))
Stem(name, suffix) == Start(name, Len(name) - Len(suffix))

\* strlwr, for the letters that a suffix has.
Upper == [G |-> "g", Z |-> "z", T |-> "t", A |-> "a"]
Lower(name) ==
    [k \in 1 .. Len(name) |-> IF name[k] \in DOMAIN Upper THEN Upper[name[k]] ELSE name[k]]

Ends(name, suffix) == Len(name) > Len(suffix) /\ End(name, Len(suffix)) = suffix

Tar == <<".", "t", "a", "r">>
Taz == <<".", "t", "a", "z">>
Tgz == <<".", "t", "g", "z">>
Gz == <<".", "g", "z">>
DotZ == <<".", "z">>
DashZ == <<"-", "z">>
DashGz == <<"-", "g", "z">>
LowZ == <<"_", "z">>
BuiltIn == <<Gz, DotZ, Taz, Tgz, DashGz, DashZ, LowZ>>
OfBuiltIn(suffix) == \E known \in ToSet(BuiltIn) : Ends(known, suffix)
\* Mutant: the suffix of --suffix is looked for last.
KnownLast(suffix) == Append(BuiltIn, Lower(suffix))

\* What get_suffix looks for, in this order.
Known(suffix) ==
    IF OfBuiltIn(suffix) THEN Append(BuiltIn, Lower(suffix))
                         ELSE <<Lower(suffix)>> \o BuiltIn

\* The suffix in a name, as it is written there, or none.
GetSuffix(name, suffix) ==
    LET known   == Known(suffix)
        lower   == Lower(name)
        matches == {k \in 1 .. Len(known) : Ends(lower, known[k])}
    IN  IF matches = {} THEN <<>> ELSE End(name, Len(known[Min(matches)]))

-----------------------------------------------------------------------------
(* shorten_name, for compression.                                           *)

\* Where the parts between dots end, and how long they are.
Dots(name) == {i \in 1 .. Len(name) : name[i] = "."}
PartEnds(name) == {i \in 1 .. Len(name) \ Dots(name) : i = Len(name) \/ i + 1 \in Dots(name)}
PartLen(name, end) == end - Max({0} \cup {i \in Dots(name) : i < end})
LongParts(name, min) == {end \in PartEnds(name) : PartLen(name, end) > min}

\* Mutant: the character stays where it is.
TruncatedOneLess(name) ==
    LET mins == {min \in 1 .. MinPart : LongParts(name, min) # {}}
        end  == Max(LongParts(name, Max(mins)))
        dot  == Max(Dots(name))
    IN  IF mins # {} THEN Start(name, end - 1) \o End(name, Len(name) - end + 1)
        ELSE Start(name, IF dot = Len(name) THEN dot - 2 ELSE dot - 1)

\* The last part that is longer than MIN_PART loses a character, or than the next
\* smaller number; where all have one character, the last part goes.
Truncated(name) ==
    LET mins == {min \in 1 .. MinPart : LongParts(name, min) # {}}
        end  == Max(LongParts(name, Max(mins)))
        dot  == Max(Dots(name))
    IN  IF mins # {} THEN Start(name, end - 1) \o End(name, Len(name) - end)
        ELSE Start(name, IF dot = Len(name) THEN dot - 2 ELSE dot - 1)

\* The four characters before the suffix; a name that is shorter is not too long.
IsTar(name) == Len(name) >= 4 /\ End(name, 4) = Tar

\* Otherwise it is "can't recover suffix" or "internal error".
Shortens(name, suff) ==
    suff # <<>> /\ (IsTar(name) \/ LongParts(name, 1) # {} \/ Dots(name) # {})

Shortened(name, suffix) ==
    IF IsTar(name) THEN Stem(name, Tar) \o Tgz ELSE Truncated(name) \o suffix

-----------------------------------------------------------------------------
Init ==
    /\ script \in Scripts
    /\ dir = script.dir
    /\ todo = script.todo /\ listed = 0
    /\ pc = "open"
    /\ ifname = <<>> /\ ofname = <<>> /\ data = Partial
    /\ shortened = FALSE /\ cut = FALSE
    /\ agreed = {} /\ made = {}

\* treat_file returns.
Return ==
    /\ pc' = "open"
    /\ todo' = Tail(todo)
    /\ listed' = IF listed = 0 THEN 0 ELSE listed - 1
    /\ UNCHANGED script

\* Mutant of TreatDir: the directory is read again after each entry.
TreatDirAgain ==
    /\ pc = "open" /\ todo # <<>> /\ item.arg = Here
    /\ \/ /\ dir = <<>>
          /\ Return
       \/ \E name \in DOMAIN dir :
            /\ todo' = <<[item EXCEPT !.arg = name]>> \o todo
            /\ listed' = 2 /\ UNCHANGED <<script, pc>>
    /\ made' = IF listed = 0 THEN {} ELSE made
    /\ UNCHANGED <<dir, ifname, ofname, data, shortened, cut, agreed>>

\* treat_dir: all entries are read before the first of them is treated.
TreatDir ==
    /\ pc = "open" /\ todo # <<>> /\ item.arg = Here
    /\ \E entries \in SetToSeqs(DOMAIN dir) :
        /\ todo' = [i \in 1 .. Len(entries) |-> [item EXCEPT !.arg = entries[i]]] \o Tail(todo)
        /\ listed' = Len(entries)
    /\ made' = {}
    /\ UNCHANGED <<script, dir, pc, ifname, ofname, data, shortened, cut, agreed>>

\* open_input_file: the name itself, or with a suffix if it has none.
Candidates ==
    LET more     == <<DotZ, DashZ, <<".", "Z">>>>
        suffixes == IF item.suffix = Gz THEN <<Gz>> \o more ELSE <<item.suffix, Gz>> \o more
    IN  IF item.decompress /\ GetSuffix(item.arg, item.suffix) = <<>>
        THEN <<item.arg>> \o [i \in 1 .. Len(suffixes) |-> item.arg \o suffixes[i]]
        ELSE <<item.arg>>

\* The first that exists is opened; one that is too long is an error.
OpenInput ==
    /\ pc = "open" /\ todo # <<>> /\ item.arg # Here
    /\ \E names \in {Candidates} :
       LET Decides(name) == Len(name) > NameMax \/ name \in DOMAIN dir
           Opens(k) == /\ Len(names[k]) <= NameMax /\ names[k] \in DOMAIN dir
                       /\ \A j \in 1 .. k - 1 : ~Decides(names[j])
       IN  \/ \E k \in 1 .. Len(names) :
              /\ Opens(k)
              /\ ifname' = names[k] /\ data' = dir[names[k]]
              /\ pc' = "name"
              /\ UNCHANGED <<script, todo, listed>>
           \/ /\ \A k \in 1 .. Len(names) : ~Opens(k)
              /\ Return
              /\ UNCHANGED <<ifname, data>>
    /\ UNCHANGED <<dir, outVars, agreed, made>>

\* make_ofname, and get_method, which takes the name in the header with --name.
MakeOfname ==
    /\ pc = "name"
    /\ \E suff \in {GetSuffix(ifname, item.suffix)} :
       LET whole == item.decompress => data.layers # <<>>
           saved == data.layers[1].saved
       IN  \/ /\ item.decompress <=> suff # <<>>
              /\ whole
              /\ ofname' = IF ~item.decompress THEN ifname \o item.suffix
                           ELSE IF item.restore /\ saved # <<>> THEN saved
                           ELSE Stem(ifname, suff) \o
                                IF Lower(suff) \in {Tgz, Taz} THEN Tar ELSE <<>>
              /\ pc' = "create"
              /\ UNCHANGED <<script, todo, listed>>
           \/ /\ ~item.decompress /\ suff # <<>> /\ item.force
              /\ ofname' = ifname \o item.suffix
              /\ pc' = "create"
              /\ UNCHANGED <<script, todo, listed>>
           \/ /\ \/ item.decompress /\ (suff = <<>> \/ ~whole)
                 \/ ~item.decompress /\ suff # <<>> /\ ~item.force
              /\ Return
              /\ UNCHANGED ofname
    /\ shortened' = FALSE /\ cut' = FALSE
    /\ UNCHANGED <<dir, ifname, data, agreed, made>>

-----------------------------------------------------------------------------
(* create_outfile.  The file system looks at the length of a name first.     *)

TooLong == pc = "create" /\ Len(ofname) > NameMax
Taken == pc = "create" /\ ~TooLong /\ ofname \in DOMAIN dir

\* Mutant: the suffix is not put back.
ShortenWithoutSuffix ==
    /\ TooLong
    /\ ofname' = IF item.decompress THEN Start(ofname, Len(ofname) - 1)
                                    ELSE Truncated(ofname)
    /\ shortened' = TRUE
    /\ cut' = TRUE
    /\ UNCHANGED <<argVars, dir, pc, ifname, data, agreed>>

\* shorten_name; the loop tries again.
Shorten ==
    /\ TooLong
    /\ \E suff \in {GetSuffix(ofname, item.suffix)} : \E name \in {Stem(ofname, suff)} :
          \/ /\ item.decompress
              /\ ofname' = Start(ofname, Len(ofname) - 1)
              /\ cut' = TRUE
              /\ UNCHANGED pc
           \/ /\ ~item.decompress /\ Shortens(name, suff)
              /\ ofname' = Shortened(name, item.suffix)
              /\ cut' = (cut \/ ~IsTar(name))
              /\ UNCHANGED pc
           \/ /\ ~item.decompress /\ ~Shortens(name, suff)
              /\ pc' = "aborted"
              /\ UNCHANGED <<ofname, cut>>
    /\ shortened' = TRUE
    /\ UNCHANGED <<argVars, dir, ifname, data, agreed>>

\* check_ofname: with --force, or after a "y", the file is removed.
CheckOfname ==
    /\ Taken
    /\ \/ /\ dir' = Without(ofname)
          /\ agreed' = agreed \cup {dir[ofname].id}
          /\ UNCHANGED <<argVars, pc>>
       \/ /\ ~item.force
          /\ Return
          /\ UNCHANGED <<dir, agreed, made>>
    /\ UNCHANGED <<ifname, outVars, data>>

\* Mutant: without O_EXCL.
CreateTruncates ==
    /\ pc = "create" /\ ~TooLong
    /\ dir' = With(ofname, Partial)
    /\ made' = IF listed = 0 THEN made ELSE made \cup {ofname}
    /\ pc' = "work"
    /\ UNCHANGED <<script, todo, listed, ifname, outVars, data, agreed>>

\* openat with O_EXCL.
Create ==
    /\ pc = "create" /\ ~TooLong /\ ~Taken
    /\ dir' = With(ofname, Partial)
    /\ made' = IF listed = 0 THEN made ELSE made \cup {ofname}
    /\ pc' = "work"
    /\ UNCHANGED <<script, todo, listed, ifname, outVars, data, agreed>>

\* The worker.  zip does not pass on the name of the file for the header, but a
\* name of its own, whatever save_orig_name says.
Work ==
    /\ pc = "work"
    /\ LET layer == [saved |-> SavedName, name |-> ifname, as |-> ofname, suffix |-> item.suffix,
                  cut |-> cut]
       IN  dir' = [dir EXCEPT ![ofname] =
                    [id |-> data.id, layers |-> IF item.decompress THEN Tail(data.layers)
                                                ELSE <<layer>> \o data.layers]]
    /\ pc' = "unlink"
    /\ UNCHANGED <<argVars, ifname, outVars, data, agreed>>

\* The end of treat_file: the input is removed, by its name.
Unlink ==
    /\ pc = "unlink"
    /\ dir' = IF item.keep THEN dir ELSE Without(ifname)
    /\ Return
    /\ UNCHANGED <<ifname, outVars, data, agreed, made>>

Ended == (pc = "aborted" \/ (pc = "open" /\ todo = <<>>)) /\ UNCHANGED vars

Step ==
    \/ TreatDir \/ OpenInput \/ MakeOfname
    \/ Shorten \/ CheckOfname \/ Create \/ Work \/ Unlink

Next == Step \/ Ended

Spec == Init /\ [][Next]_vars /\ WF_vars(Step)

-----------------------------------------------------------------------------
\* Files do not get lost by their names: whatever commands are given, and however
\* output names are made, cut and found to be taken, the data of each file is in
\* some file, but for those that may be removed because of --force or a "y"
\* (gzip.c:1137, gzip.c:1941).  That permission also covers the input, if
\* its own name is that of the output.
DataIsKept ==
    \A name \in DOMAIN script.dir :
        \/ script.dir[name].id \in agreed
        \/ \E n \in DOMAIN dir : dir[n].id = script.dir[name].id

\* A file that was compressed, and perhaps given a shorter suffix for ".tar.gz", gets
\* its name back when it is decompressed with the same --suffix, if it is still called
\* as gzip called it: get_suffix finds the suffix that make_ofname added, though names
\* may look as if they had another (gzip.c:1202, gzip.c:1432).  Suffixes that are the end
\* of a built-in one, and those that stand for ".tar", may be taken for more
\* than they are; those that end so may be found in a name that was shortened.
Ambiguous(suffix) ==
    \/ OfBuiltIn(suffix) \/ OfBuiltIn(Lower(suffix))
    \/ Lower(suffix) \in {Tgz, Taz} \/ Ends(Lower(suffix), Tgz)
NameComesBack ==
    LET layer == data.layers[1] IN
    pc = "work" /\ item.decompress /\ ~item.restore
    /\ layer.suffix = item.suffix /\ ~layer.cut /\ layer.as = ifname
        => Ambiguous(item.suffix) \/ ofname = layer.name

\* "Try several times if necessary to avoid truncating the z_suffix" (gzip.c:1104): what
\* is compressed gets a name that gunzip takes, however often it is cut, and
\* shorten_name always has something to cut.
SuffixIsKept ==
    /\ pc # "aborted"
    /\ pc = "work" /\ ~item.decompress =>
        Len(ofname) <= NameMax /\ GetSuffix(ofname, item.suffix) # <<>>

\* With --recursive no output becomes an input, though it appears in the directory
\* whose files are treated, unless it took the place of another file (gzip.c:2045).
OutputIsNotInput == pc = "name" /\ listed # 0 /\ agreed = {} => ifname \notin made

\* The loop of create_outfile ends, and all arguments are treated (gzip.c:1129).
EveryFileIsTreated == <>(pc = "aborted" \/ todo = <<>>)
=============================================================================
