--------------------------- MODULE FileNamesProofs ---------------------------
(***************************************************************************)
(* Theorems about FileNames, for any files, commands and suffixes, and any    *)
(* limit on the length of a name.  The first two hold whatever get_suffix,    *)
(* make_ofname and shorten_name make of a name; the last two are about that. *)
(***************************************************************************)
EXTENDS FileNames, FiniteSetTheorems, SequenceTheorems, WellFoundedInduction, TLAPS

-----------------------------------------------------------------------------
(* The data of each file is in some file.                                    *)

Inside == {"name", "create", "work", "unlink"}
Places == Inside \cup {"open", "aborted"}

\* The input is at its name until the output is complete.  If that name is free, or
\* the output has it, it was removed with permission.
SourceInv ==
    pc \in Inside =>
        /\ ifname \in DOMAIN dir =>
               dir[ifname].id = data.id \/ (pc = "work" /\ ofname = ifname)
        /\ ifname \notin DOMAIN dir \/ (pc \in {"work", "unlink"} /\ ofname = ifname) =>
               data.id \in agreed

\* The output is nobody's until it is complete.
OutputInv ==
    /\ pc \in {"work", "unlink"} => ofname \in DOMAIN dir
    /\ pc = "work" => dir[ofname].id = Nobody
    /\ pc = "unlink" => dir[ofname].id = data.id

KeptInv ==
    /\ script \in Scripts /\ pc \in Places
    /\ DataIsKept /\ SourceInv /\ OutputInv

\* Nobody is not one of those whose files are given.
LEMMA OwnersAreNames ==
    \A s \in Scripts : \A name \in DOMAIN s.dir : s.dir[name].id # Nobody
  BY FileNamesAssumption DEF IsScript, Contents, Names

LEMMA KeptStarts == Init => KeptInv
  BY DEF Init, KeptInv, Places, Inside, DataIsKept, SourceInv, OutputInv

LEMMA KeptKeeps == KeptInv /\ [Next]_vars => KeptInv'
<1> SUFFICES ASSUME KeptInv, [Next]_vars PROVE KeptInv'
  OBVIOUS
<1> USE DEF KeptInv, Places, Inside
<1>1. CASE TreatDir
  BY <1>1 DEF TreatDir, DataIsKept, SourceInv, OutputInv
<1>2. CASE OpenInput
  BY <1>2 DEF OpenInput, Return, argVars, outVars, DataIsKept, SourceInv, OutputInv
<1>3. CASE MakeOfname
  BY <1>3 DEF MakeOfname, Return, DataIsKept, SourceInv, OutputInv
<1>4. CASE Shorten
  BY <1>4 DEF Shorten, TooLong, argVars, DataIsKept, SourceInv, OutputInv
<1>5. CASE CheckOfname
  <2>1. CASE dir' = Without(ofname) /\ agreed' = agreed \cup {dir[ofname].id} /\ pc' = pc
    BY <1>5, <2>1 DEF CheckOfname, Taken, Without, argVars, outVars, DataIsKept, SourceInv,
                      OutputInv
  <2>2. CASE Return /\ UNCHANGED <<dir, agreed>>
    BY <1>5, <2>2 DEF CheckOfname, Return, Taken, argVars, outVars, DataIsKept, SourceInv,
                      OutputInv
  <2> QED BY <1>5, <2>1, <2>2 DEF CheckOfname, argVars
<1>6. CASE Create
  BY <1>6 DEF Create, With, Partial, Taken, outVars, DataIsKept, SourceInv, OutputInv
<1>7. CASE Work
  <2>1. /\ pc = "work" /\ pc' = "unlink"
        /\ DOMAIN dir' = DOMAIN dir /\ dir'[ofname].id = data.id
        /\ \A n \in DOMAIN dir : n # ofname => dir'[n] = dir[n]
        /\ UNCHANGED <<script, ifname, ofname, data, agreed>>
    BY <1>7 DEF Work, argVars, outVars, OutputInv
  <2> QED BY <2>1, OwnersAreNames DEF DataIsKept, SourceInv, OutputInv
<1>8. CASE Unlink
  BY <1>8 DEF Unlink, Return, Without, outVars, DataIsKept, SourceInv, OutputInv
<1>9. CASE Ended \/ UNCHANGED vars
  BY <1>9 DEF Ended, vars, DataIsKept, SourceInv, OutputInv
<1> QED
  BY <1>1, <1>2, <1>3, <1>4, <1>5, <1>6, <1>7, <1>8, <1>9 DEF Next, Step

\* treat_file, create_outfile: the data of each file stays in some file, unless its
\* user agreed to the removal of one of that data (gzip.c:1137, gzip.c:1941).
THEOREM DataIsNotLost == Spec => []DataIsKept
<1>1. KeptInv => DataIsKept
  BY DEF KeptInv
<1> QED BY <1>1, KeptStarts, KeptKeeps, PTL DEF Spec

-----------------------------------------------------------------------------
(* No output of a walk through the directory becomes an input of it.         *)

Items(args) == [decompress : BOOLEAN, force : BOOLEAN, keep : BOOLEAN, restore : BOOLEAN,
                suffix : Names, arg : args]

\* The arguments that come from the directory are the first ones.
Entry(k) == todo[k].arg
ListOK ==
    /\ \E args : todo \in Seq(Items(args))
    /\ listed \in 0 .. Len(todo)
    /\ IsFiniteSet(DOMAIN dir)
    /\ pc \in Inside => todo # <<>>

\* Those not treated yet are different files, and not outputs.
EntriesInv ==
    listed # 0 /\ agreed = {} =>
        /\ \A k, l \in 1 .. listed : Entry(k) = Entry(l) => k = l
        /\ \A k \in 2 .. listed : Entry(k) \in DOMAIN dir /\ Entry(k) \notin made
        /\ pc = "open" => Entry(1) \in DOMAIN dir /\ Entry(1) \notin made
        /\ pc \in Inside => ifname = Entry(1)
        /\ pc \in {"name", "create"} => ifname \notin made

WalkInv == ListOK /\ EntriesInv

LEMMA ItemsGrow ==
    ASSUME NEW S, NEW T, NEW s \in Seq(Items(S)), S \subseteq T
    PROVE  s \in Seq(Items(T))
  <1>1. Items(S) \subseteq Items(T)
    BY DEF Items
  <1> QED BY <1>1

LEMMA WalkStarts == Init => WalkInv
<1> SUFFICES ASSUME Init PROVE WalkInv
  OBVIOUS
<1>1. IsScript(script)
  BY FileNamesAssumption DEF Init
<1>2. Item = Items(Names \cup {Here})
  BY DEF Item, Items
<1>3. todo \in Seq(Items(Names \cup {Here})) /\ IsFiniteSet(DOMAIN dir) /\ listed = 0
  BY <1>1, <1>2 DEF Init, IsScript
<1>4. Len(todo) \in Nat
  BY <1>3
<1>5. pc = "open"
  BY DEF Init
<1> QED BY <1>3, <1>4, <1>5 DEF WalkInv, ListOK, EntriesInv, Inside

LEMMA ListTypes ==
    ASSUME ListOK, todo # <<>>
    PROVE  \E args : /\ todo \in Seq(Items(args)) /\ Tail(todo) \in Seq(Items(args))
                     /\ item \in Items(args) /\ item = todo[1]
                     /\ Len(todo) \in Nat \ {0} /\ Len(Tail(todo)) = Len(todo) - 1
                     /\ \A k \in 1 .. Len(todo) - 1 : Tail(todo)[k] = todo[k + 1]
<1>1. PICK args : todo \in Seq(Items(args))
  BY DEF ListOK
<1> WITNESS args
<1> QED BY <1>1 DEF item

\* What treat_file does when it returns.
LEMMA WalkReturn ==
    ASSUME WalkInv, Return, todo # <<>>, UNCHANGED <<agreed, made>>, IsFiniteSet(DOMAIN dir'),
           agreed = {} => \A k \in 2 .. listed : Entry(k) \in DOMAIN dir'
    PROVE  WalkInv'
<1>1. PICK args : /\ Tail(todo) \in Seq(Items(args))
                  /\ Len(todo) \in Nat \ {0} /\ Len(Tail(todo)) = Len(todo) - 1
                  /\ \A k \in 1 .. Len(todo) - 1 : Tail(todo)[k] = todo[k + 1]
  BY ListTypes DEF WalkInv
<1>2. /\ listed \in 0 .. Len(todo) /\ pc' = "open" /\ todo' = Tail(todo)
      /\ listed' = IF listed = 0 THEN 0 ELSE listed - 1
  BY DEF WalkInv, ListOK, Return
<1>3. ListOK'
  BY <1>1, <1>2 DEF ListOK, Inside
<1>4. ASSUME listed' # 0, agreed = {} PROVE EntriesInv'
  <2>1. \A k \in 1 .. listed' : k + 1 \in 2 .. listed /\ Entry(k)' = Entry(k + 1)
    BY <1>1, <1>2, <1>4 DEF Entry
  <2>2. /\ \A k, l \in 1 .. listed : Entry(k) = Entry(l) => k = l
        /\ \A k \in 2 .. listed : Entry(k) \notin made
    BY <1>2, <1>4 DEF WalkInv, EntriesInv
  <2>3. \A k, l \in 1 .. listed' : Entry(k)' = Entry(l)' => k = l
    <3> SUFFICES ASSUME NEW k \in 1 .. listed', NEW l \in 1 .. listed', Entry(k)' = Entry(l)'
                 PROVE  k = l
      OBVIOUS
    <3>1. k + 1 \in 1 .. listed /\ l + 1 \in 1 .. listed /\ Entry(k + 1) = Entry(l + 1)
      BY <1>2, <2>1
    <3> QED BY <1>2, <2>2, <3>1
  <2>4. \A k \in 1 .. listed' : Entry(k)' \in DOMAIN dir' /\ Entry(k)' \notin made'
    BY <1>4, <2>1, <2>2
  <2>5. 1 \in 1 .. listed' /\ \A k \in 2 .. listed' : k \in 1 .. listed'
    BY <1>2, <1>4
  <2> QED BY <1>2, <2>3, <2>4, <2>5 DEF EntriesInv, Inside, Entry
<1> QED BY <1>3, <1>4 DEF WalkInv, EntriesInv

LEMMA TabulatedSequence ==
    ASSUME NEW S, NEW n \in Nat, NEW f \in [1 .. n -> S]
    PROVE  f \in Seq(S) /\ Len(f) = n
<1>1. f \in Seq(S)
  BY SeqDef
<1>2. Len(f) \in Nat /\ 1 .. n = 1 .. Len(f)
  BY <1>1, LenProperties
<1> QED BY <1>1, <1>2

\* treat_dir: each name is listed once.
LEMMA WalkTreatDir == WalkInv /\ TreatDir => WalkInv'
<1> SUFFICES ASSUME WalkInv, TreatDir PROVE WalkInv'
  OBVIOUS
<1> DEFINE n == Cardinality(DOMAIN dir)
           First(entries) == [i \in 1 .. Len(entries) |-> [item EXCEPT !.arg = entries[i]]]
<1>1. n \in Nat
  BY FS_CardinalityType DEF WalkInv, ListOK
<1>2. PICK entries \in SetToSeqs(DOMAIN dir) :
        todo' = First(entries) \o Tail(todo) /\ listed' = Len(entries)
  BY DEF TreatDir
<1>3. /\ entries \in [1 .. n -> DOMAIN dir] /\ Len(entries) = n
      /\ \A k, l \in 1 .. n : k # l => entries[k] # entries[l]
  BY <1>1, <1>2 DEF SetToSeqs
<1>4. PICK args : Tail(todo) \in Seq(Items(args)) /\ item \in Items(args)
  BY ListTypes DEF TreatDir, WalkInv
<1>5. First(entries) \in Seq(Items(args \cup DOMAIN dir)) /\ Len(First(entries)) = n
  <2>1. \A i \in 1 .. n : [item EXCEPT !.arg = entries[i]] \in Items(args \cup DOMAIN dir)
    BY <1>3, <1>4 DEF Items
  <2>2. First(entries) \in [1 .. n -> Items(args \cup DOMAIN dir)]
    BY <1>3, <2>1
  <2> HIDE DEF First, n
  <2> QED BY <1>1, <2>2, TabulatedSequence
<1>6. Tail(todo) \in Seq(Items(args \cup DOMAIN dir))
  BY <1>4, ItemsGrow
<1>7. /\ todo' \in Seq(Items(args \cup DOMAIN dir)) /\ n \in 0 .. Len(todo')
      /\ \A k \in 1 .. n : todo'[k] = First(entries)[k]
  <2> HIDE DEF First, n
  <2> QED BY <1>1, <1>2, <1>5, <1>6
<1>8. \A k \in 1 .. n : Entry(k)' = entries[k]
  <2> SUFFICES ASSUME NEW k \in 1 .. n PROVE Entry(k)' = entries[k]
    OBVIOUS
  <2>1. todo'[k] = [item EXCEPT !.arg = entries[k]]
    BY <1>3, <1>7
  <2> QED BY <1>4, <2>1 DEF Entry, Items
<1>9. /\ listed' = n /\ pc = "open" /\ made' = {}
      /\ UNCHANGED <<dir, pc, ifname, agreed>>
  BY <1>2, <1>3 DEF TreatDir
<1>10. ListOK'
  BY <1>7, <1>9 DEF WalkInv, ListOK, Inside
<1>11. EntriesInv'
  <2> HIDE DEF n
  <2>1. \A k, l \in 1 .. n : Entry(k)' = Entry(l)' => k = l
    BY <1>3, <1>8
  <2>2. \A k \in 1 .. n : Entry(k)' \in DOMAIN dir' /\ Entry(k)' \notin made'
    BY <1>3, <1>8, <1>9
  <2>3. (n # 0 => 1 \in 1 .. n) /\ \A k \in 2 .. n : k \in 1 .. n
    BY <1>1
  <2> QED BY <1>9, <2>1, <2>2, <2>3 DEF EntriesInv, Inside, Entry
<1> QED BY <1>10, <1>11 DEF WalkInv
\* open_input_file tries the name itself first.
LEMMA FirstCandidate == Candidates[1] = item.arg
<1> DEFINE rest     == <<DotZ, DashZ, <<".", "Z">>>>
           suffixes == IF item.suffix = Gz THEN <<Gz>> \o rest ELSE <<item.suffix, Gz>> \o rest
           n == Len(suffixes)
           more == [i \in 1 .. n |-> item.arg \o suffixes[i]]
           S == {item.arg} \cup {more[i] : i \in 1 .. n}
<1>1. n \in Nat
  OBVIOUS
<1>2. more \in Seq(S)
  <2>1. more \in [1 .. n -> S]
    <3> HIDE DEF suffixes, n
    <3> QED OBVIOUS
  <2> HIDE DEF more, S, n
  <2> QED BY <1>1, <2>1, TabulatedSequence
<1>3. <<item.arg>> \in Seq(S)
  OBVIOUS
<1>4. (<<item.arg>> \o more)[1] = item.arg
  <2> HIDE DEF more, S
  <2> QED BY <1>2, <1>3
<1> QED BY <1>4 DEF Candidates

\* What is said of those not treated yet, with no file removed.
LEMMA WalkReturnsEarly ==
    ASSUME WalkInv, Return, todo # <<>>, UNCHANGED <<dir, agreed, made>>
    PROVE  WalkInv'
<1>1. agreed = {} => \A k \in 2 .. listed : Entry(k) \in DOMAIN dir'
  BY DEF WalkInv, ListOK, EntriesInv
<1>2. IsFiniteSet(DOMAIN dir')
  BY DEF WalkInv, ListOK
<1> QED BY <1>1, <1>2, WalkReturn

\* The first file to be found is the one that was listed.
LEMMA WalkOpenInput == WalkInv /\ OpenInput => WalkInv'
<1> SUFFICES ASSUME WalkInv, OpenInput PROVE WalkInv'
  OBVIOUS
<1> DEFINE Decides(name) == Len(name) > NameMax \/ name \in DOMAIN dir
<1>1. /\ pc = "open" /\ todo # <<>>
      /\ UNCHANGED <<dir, agreed, made>>
  BY DEF OpenInput
<1>2. CASE Return
  BY <1>1, <1>2, WalkReturnsEarly
<1>3. ASSUME NEW k \in 1 .. Len(Candidates), Candidates[k] \in DOMAIN dir,
             \A j \in 1 .. k - 1 : ~Decides(Candidates[j]),
             ifname' = Candidates[k], pc' = "name", UNCHANGED <<todo, listed>>
      PROVE  WalkInv'
  <2>1. ListOK'
    BY <1>1, <1>3 DEF WalkInv, ListOK
  <2>2. ASSUME listed # 0, agreed = {} PROVE EntriesInv'
    <3>1. /\ Entry(1) \in DOMAIN dir /\ Entry(1) \notin made
          /\ Candidates[1] = Entry(1)
      BY <1>1, <2>2, FirstCandidate, ListTypes DEF WalkInv, EntriesInv, Entry
    <3>2. k = 1
      <4>1. k # 1 => 1 \in 1 .. k - 1
        OBVIOUS
      <4> QED BY <1>3, <3>1, <4>1
    <3> QED BY <1>1, <1>3, <2>2, <3>1, <3>2 DEF WalkInv, EntriesInv, Inside, Entry
  <2> QED BY <1>1, <1>3, <2>1, <2>2 DEF WalkInv, EntriesInv
<1> QED BY <1>2, <1>3 DEF OpenInput

LEMMA WalkKeeps == WalkInv /\ [Next]_vars => WalkInv'
<1> SUFFICES ASSUME WalkInv, [Next]_vars PROVE WalkInv'
  OBVIOUS
<1>0. pc \in Inside => todo # <<>>
  BY DEF WalkInv, ListOK
<1>1. CASE TreatDir
  BY <1>1, WalkTreatDir
<1>2. CASE OpenInput
  BY <1>2, WalkOpenInput
<1>3. CASE MakeOfname
  <2>1. CASE Return
    BY <1>0, <1>3, <2>1, WalkReturnsEarly DEF MakeOfname, Inside
  <2>2. CASE pc' = "create" /\ UNCHANGED <<todo, listed>>
    BY <1>0, <1>3, <2>2 DEF MakeOfname, WalkInv, ListOK, EntriesInv, Inside, Entry
  <2> QED BY <1>3, <2>1, <2>2 DEF MakeOfname
<1>4. CASE Shorten
  BY <1>0, <1>4 DEF Shorten, TooLong, argVars, WalkInv, ListOK, EntriesInv, Inside, Entry
<1>5. CASE CheckOfname
  <2>1. CASE /\ dir' = Without(ofname) /\ agreed' = agreed \cup {dir[ofname].id}
             /\ UNCHANGED <<argVars, pc>>
    <3>1. IsFiniteSet(DOMAIN dir')
      BY <2>1, FS_Subset DEF Without, WalkInv, ListOK
    <3>2. agreed' # {}
      BY <2>1
    <3> QED BY <2>1, <3>1, <3>2 DEF argVars, WalkInv, ListOK, EntriesInv
  <2>2. CASE Return /\ UNCHANGED <<dir, agreed, made>>
    BY <1>0, <1>5, <2>2, WalkReturnsEarly DEF CheckOfname, Taken, Inside
  <2> QED BY <1>5, <2>1, <2>2 DEF CheckOfname
<1>6. CASE Create
  <2>1. /\ DOMAIN dir' = DOMAIN dir \cup {ofname} /\ ofname \notin DOMAIN dir
        /\ made' = IF listed = 0 THEN made ELSE made \cup {ofname}
        /\ pc = "create" /\ pc' = "work"
        /\ UNCHANGED <<todo, listed, ifname, agreed>>
    BY <1>6 DEF Create, With, Taken
  <2>2. IsFiniteSet(DOMAIN dir')
    BY <2>1, FS_AddElement DEF WalkInv, ListOK
  <2>3. ListOK'
    BY <2>1, <2>2 DEF WalkInv, ListOK, Inside
  <2>4. EntriesInv'
    BY <2>1 DEF WalkInv, EntriesInv, Inside, Entry
  <2> QED BY <2>3, <2>4 DEF WalkInv
<1>7. CASE Work
  <2>1. /\ DOMAIN dir' = DOMAIN dir /\ pc = "work" /\ pc' = "unlink"
        /\ UNCHANGED <<todo, listed, made, ifname, agreed>>
    BY <1>7 DEF Work, argVars, outVars
  <2> QED BY <2>1 DEF WalkInv, ListOK, EntriesInv, Inside, Entry
<1>8. CASE Unlink
  <2>1. /\ Return /\ todo # <<>> /\ pc = "unlink" /\ UNCHANGED <<agreed, made>>
        /\ DOMAIN dir \ {ifname} \subseteq DOMAIN dir' /\ DOMAIN dir' \subseteq DOMAIN dir
    BY <1>0, <1>8 DEF Unlink, Without, Inside
  <2>2. IsFiniteSet(DOMAIN dir')
    BY <2>1, FS_Subset DEF WalkInv, ListOK
  <2>3. ASSUME agreed = {}, NEW k \in 2 .. listed PROVE Entry(k) \in DOMAIN dir'
    <3>1. listed # 0 /\ 1 \in 1 .. listed /\ k \in 1 .. listed /\ k # 1
      BY <2>3 DEF WalkInv, ListOK
    <3>2. Entry(k) \in DOMAIN dir /\ Entry(1) = ifname /\ Entry(k) # Entry(1)
      BY <2>1, <2>3, <3>1 DEF WalkInv, EntriesInv, Inside
    <3> QED BY <2>1, <3>2
  <2> QED BY <2>1, <2>2, <2>3, WalkReturn
<1>9. CASE Ended \/ UNCHANGED vars
  BY <1>9 DEF Ended, vars, WalkInv, ListOK, EntriesInv, Inside, Entry
<1> QED
  BY <1>1, <1>2, <1>3, <1>4, <1>5, <1>6, <1>7, <1>8, <1>9 DEF Next, Step

\* treat_dir: with --recursive no output of a walk through the directory is opened as
\* an input of it, unless a file was removed with permission (gzip.c:2045).
THEOREM OutputsAreNotInputs == Spec => []OutputIsNotInput
<1>1. WalkInv => OutputIsNotInput
  BY DEF WalkInv, EntriesInv, OutputIsNotInput
<1> QED BY <1>1, WalkStarts, WalkKeeps, PTL DEF Spec

-----------------------------------------------------------------------------
(* Least and greatest elements, the parts of a text, and its suffixes.       *)

\* A set of numbers that is not empty has a least one.
LEMMA LeastNatural ==
    ASSUME NEW S \in SUBSET Nat, S # {}
    PROVE  \E x \in S : \A y \in S : x <= y
<1>1. PICK x \in S : \A y \in S : ~ <<y, x>> \in OpToRel(<, Nat)
  BY WFMin, NatLessThanWellFounded
<1>2. \A y \in S : ~ (y < x)
  BY <1>1 DEF OpToRel
<1>3. \A y \in S : x <= y
  BY <1>2
<1> QED BY <1>3

\* What Min and Max choose.
LEMMA MinIsLeast ==
    ASSUME NEW S \in SUBSET Nat, S # {}
    PROVE  Min(S) \in S /\ \A y \in S : Min(S) <= y
BY LeastNatural DEF Min

LEMMA MaxIsGreatest ==
    ASSUME NEW n \in Nat, NEW S \in SUBSET (0 .. n), S # {}
    PROVE  Max(S) \in S /\ \A y \in S : y <= Max(S)
<1> DEFINE T == {n - x : x \in S}
<1>1. T \in SUBSET Nat /\ T # {}
  <2>1. \A x \in S : n - x \in Nat
    OBVIOUS
  <2> QED BY <2>1
<1>2. PICK m \in T : \A y \in T : m <= y
  BY <1>1, LeastNatural
<1>3. PICK x \in S : m = n - x
  BY <1>2
<1>4. \A y \in S : x >= y
  <2> SUFFICES ASSUME NEW y \in S PROVE x >= y
    OBVIOUS
  <2>1. n - y \in T
    OBVIOUS
  <2>2. n - x <= n - y
    BY <1>2, <1>3, <2>1
  <2> QED BY <2>2
<1>5. Max(S) \in S /\ \A y \in S : Max(S) >= y
  BY <1>3, <1>4 DEF Max
<1> QED BY <1>5

\* The beginning and the end of a text, and what was put together.
LEMMA Parts ==
    ASSUME NEW t \in Text, NEW n \in 0 .. Len(t)
    PROVE  /\ Start(t, n) \in Text /\ Len(Start(t, n)) = n
           /\ \A k \in 1 .. n : Start(t, n)[k] = t[k]
           /\ End(t, n) \in Text /\ Len(End(t, n)) = n
           /\ \A k \in 1 .. n : End(t, n)[k] = t[Len(t) - n + k]
<1>1. Len(t) \in Nat /\ \A k \in 1 .. Len(t) : t[k] \in Characters
  BY ElementOfSeq, LenProperties DEF Text
<1>2. /\ SubSeq(t, 1, n) \in Seq(Characters)
      /\ Len(SubSeq(t, 1, n)) = IF 1 <= n THEN n - 1 + 1 ELSE 0
      /\ \A k \in 1 .. n - 1 + 1 : SubSeq(t, 1, n)[k] = t[1 + k - 1]
  BY <1>1, SubSeqProperties
<1>3. Len(t) - n + 1 \in Int /\ \A k \in Len(t) - n + 1 .. Len(t) : t[k] \in Characters
  BY <1>1
<1> DEFINE first == Len(t) - n + 1
<1>4. /\ SubSeq(t, first, Len(t)) \in Seq(Characters)
      /\ Len(SubSeq(t, first, Len(t))) = IF first <= Len(t) THEN Len(t) - first + 1 ELSE 0
      /\ \A k \in 1 .. Len(t) - first + 1 : SubSeq(t, first, Len(t))[k] = t[first + k - 1]
  <2>1. first \in Int /\ Len(t) \in Int
    BY <1>1
  <2> HIDE DEF first
  <2> QED BY <1>3, <2>1, SubSeqProperties DEF first
<1>5. /\ Len(t) - first + 1 = n
      /\ Len(End(t, n)) = n
  BY <1>1, <1>4 DEF End
<1>6. Start(t, n) = SubSeq(t, 1, n) /\ End(t, n) = SubSeq(t, first, Len(t))
  BY DEF Start, End
<1> HIDE DEF first
<1>7. /\ Start(t, n) \in Text /\ Len(Start(t, n)) = n
      /\ \A k \in 1 .. n : Start(t, n)[k] = t[k]
  <2> DEFINE u == SubSeq(t, 1, n)
  <2>1. /\ u \in Seq(Characters) /\ Len(u) = n
        /\ \A k \in 1 .. n : u[k] = t[k]
    <3> HIDE DEF u
    <3>1. /\ u \in Seq(Characters) /\ Len(u) = IF 1 <= n THEN n - 1 + 1 ELSE 0
          /\ \A k \in 1 .. n - 1 + 1 : u[k] = t[1 + k - 1]
      BY <1>2 DEF u
    <3> QED BY <1>1, <3>1
  <2> QED BY <1>6, <2>1, Zenon DEF Text
<1>8. /\ End(t, n) \in Text
      /\ \A k \in 1 .. n : End(t, n)[k] = t[Len(t) - n + k]
  <2> DEFINE u == SubSeq(t, first, Len(t))
  <2>1. u \in Seq(Characters) /\ \A k \in 1 .. n : u[k] = t[Len(t) - n + k]
    <3> HIDE DEF u
    <3>1. /\ u \in Seq(Characters)
          /\ \A k \in 1 .. Len(t) - first + 1 : u[k] = t[first + k - 1]
      BY <1>4 DEF u
    <3> QED BY <1>1, <3>1 DEF first
  <2> QED BY <1>6, <2>1, Zenon DEF Text
<1> QED BY <1>5, <1>7, <1>8

\* Texts are equal if their characters are.
LEMMA SameText ==
    ASSUME NEW s \in Text, NEW t \in Text, Len(s) = Len(t), \A k \in 1 .. Len(s) : s[k] = t[k]
    PROVE  s = t
BY SeqEqual DEF Text

LEMMA TextLength == \A t \in Text : Len(t) \in Nat /\ (t = <<>> <=> Len(t) = 0)
BY EmptySeq, LenProperties DEF Text

\* Two texts put together, and taken apart again.
LEMMA Joined ==
    ASSUME NEW s \in Text, NEW t \in Text
    PROVE  /\ s \o t \in Text /\ Len(s \o t) = Len(s) + Len(t)
           /\ \A k \in 1 .. Len(s) : (s \o t)[k] = s[k]
           /\ \A k \in 1 .. Len(t) : (s \o t)[Len(s) + k] = t[k]
           /\ Start(s \o t, Len(s)) = s
           /\ End(s \o t, Len(t)) = t
           /\ Stem(s \o t, t) = s
<1>0. Len(s) \in Nat /\ Len(t) \in Nat
  BY TextLength
<1>1. /\ s \o t \in Text /\ Len(s \o t) = Len(s) + Len(t)
      /\ \A k \in 1 .. Len(s) + Len(t) :
            (s \o t)[k] = IF k <= Len(s) THEN s[k] ELSE t[k - Len(s)]
  BY ConcatProperties DEF Text
<1>2. /\ \A k \in 1 .. Len(s) : (s \o t)[k] = s[k]
      /\ \A k \in 1 .. Len(t) : (s \o t)[Len(s) + k] = t[k]
  BY <1>0, <1>1
<1>a. Len(s) \in 0 .. Len(s \o t) /\ Len(t) \in 0 .. Len(s \o t)
  BY <1>0, <1>1
<1>3. Start(s \o t, Len(s)) = s
  <2>1. /\ Start(s \o t, Len(s)) \in Text /\ Len(Start(s \o t, Len(s))) = Len(s)
        /\ \A k \in 1 .. Len(s) : Start(s \o t, Len(s))[k] = (s \o t)[k]
    BY <1>a, <1>1, Parts
  <2> QED BY <1>2, <2>1, SameText
<1>4. End(s \o t, Len(t)) = t
  <2>1. /\ End(s \o t, Len(t)) \in Text /\ Len(End(s \o t, Len(t))) = Len(t)
        /\ \A k \in 1 .. Len(t) : End(s \o t, Len(t))[k] = (s \o t)[Len(s \o t) - Len(t) + k]
    BY <1>a, <1>1, Parts
  <2>2. Len(s \o t) - Len(t) = Len(s)
    BY <1>0, <1>1
  <2> QED BY <1>2, <2>1, <2>2, SameText
<1>5. Stem(s \o t, t) = s
  <2>1. Len(s \o t) - Len(t) = Len(s)
    BY <1>0, <1>1
  <2> QED BY <1>3, <2>1 DEF Stem
<1> QED BY <1>1, <1>2, <1>3, <1>4, <1>5

\* Without what Joined says of each character.
LEMMA JoinedLength == \A s, t \in Text : s \o t \in Text /\ Len(s \o t) = Len(s) + Len(t)
  BY Joined

\* Every end of a text can be taken off and put back.
LEMMA Split ==
    ASSUME NEW t \in Text, NEW n \in 0 .. Len(t)
    PROVE  t = Start(t, Len(t) - n) \o End(t, n)
<1> DEFINE s == Start(t, Len(t) - n)
           e == End(t, n)
<1>0. Len(t) \in Nat /\ Len(t) - n \in 0 .. Len(t)
  BY TextLength
<1>1. /\ s \in Text /\ Len(s) = Len(t) - n /\ e \in Text /\ Len(e) = n
      /\ \A k \in 1 .. Len(t) - n : s[k] = t[k]
      /\ \A k \in 1 .. n : e[k] = t[Len(t) - n + k]
  BY <1>0, Parts
<1> HIDE DEF s, e
<1>2. /\ s \o e \in Text /\ Len(s \o e) = Len(t)
      /\ \A k \in 1 .. Len(s) : (s \o e)[k] = s[k]
      /\ \A k \in 1 .. Len(e) : (s \o e)[Len(s) + k] = e[k]
  <2>1. Len(s) + Len(e) = Len(t)
    BY <1>0, <1>1
  <2> QED BY <1>1, <2>1, Joined
<1>3. ASSUME NEW k \in 1 .. Len(t) PROVE t[k] = (s \o e)[k]
  <2>1. CASE k <= Len(t) - n
    BY <1>0, <1>1, <1>2, <2>1
  <2>2. CASE k > Len(t) - n
    <3>1. k - Len(s) \in 1 .. Len(e) /\ Len(s) + (k - Len(s)) = k
      BY <1>0, <1>1, <2>2
    <3>2. (s \o e)[Len(s) + (k - Len(s))] = e[k - Len(s)]
      BY <1>2, <3>1
    <3>3. k - Len(s) \in 1 .. n /\ Len(t) - n + (k - Len(s)) = k
      BY <1>0, <1>1, <3>1
    <3>4. e[k - Len(s)] = t[Len(t) - n + (k - Len(s))]
      BY <1>1, <3>3
    <3>5. (s \o e)[k] = e[k - Len(s)] /\ e[k - Len(s)] = t[k]
      <4> HIDE DEF e, s
      <4> QED BY <3>1, <3>2, <3>3, <3>4, Zenon
    <3> QED BY <3>5
  <2>3. k <= Len(t) - n \/ k > Len(t) - n
    BY <1>0
  <2> QED BY <2>1, <2>2, <2>3
<1>4. t = s \o e
  BY <1>2, <1>3, SameText
<1> QED BY <1>4 DEF s, e

\* strlwr keeps the length.
LEMMA LowerText ==
    ASSUME NEW t \in Text
    PROVE  /\ Lower(t) \in Text /\ Len(Lower(t)) = Len(t)
           /\ \A k \in 1 .. Len(t) :
                Lower(t)[k] = IF t[k] \in DOMAIN Upper THEN Upper[t[k]] ELSE t[k]
<1>1. Len(t) \in Nat /\ \A k \in 1 .. Len(t) : t[k] \in Characters
  BY ElementOfSeq, LenProperties DEF Text
<1>2. \A c \in DOMAIN Upper : Upper[c] \in Characters
  <2>1. /\ DOMAIN Upper = {"G", "Z", "T", "A"}
        /\ Upper["G"] = "g" /\ Upper["Z"] = "z" /\ Upper["T"] = "t" /\ Upper["A"] = "a"
    BY DEF Upper
  <2> QED BY <2>1, FileNamesAssumption, Zenon
<1>a. \A k \in 1 .. Len(t) : (IF t[k] \in DOMAIN Upper THEN Upper[t[k]] ELSE t[k]) \in Characters
  BY <1>1, <1>2, Zenon
<1>3. Lower(t) \in [1 .. Len(t) -> Characters]
  BY <1>a DEF Lower
<1>4. Lower(t) \in Text /\ Len(Lower(t)) = Len(t)
  BY <1>1, <1>3, TabulatedSequence DEF Text
<1> QED BY <1>4 DEF Lower

LEMMA ShortSequences ==
    ASSUME NEW S, NEW a \in S, NEW b \in S, NEW c \in S, NEW d \in S
    PROVE  /\ <<a, b>> \in Seq(S) /\ Len(<<a, b>>) = 2
           /\ <<a, b, c>> \in Seq(S) /\ Len(<<a, b, c>>) = 3
           /\ <<a, b, c, d>> \in Seq(S) /\ Len(<<a, b, c, d>>) = 4
OBVIOUS

\* The suffixes that are built in.
LEMMA BuiltInText ==
    /\ Len(BuiltIn) = 7 /\ BuiltIn \in Seq(Text)
    /\ \A k \in 1 .. 7 : BuiltIn[k] \in Text /\ Len(BuiltIn[k]) \in 2 .. 4
    /\ Tar \in Text /\ Taz \in Text /\ Tgz \in Text
    /\ Gz \in Text /\ DotZ \in Text /\ DashZ \in Text
    /\ Len(Tar) = 4 /\ Len(Taz) = 4 /\ Len(Tgz) = 4
<1>a. {".", "t", "a", "r", "z", "g", "-", "_"} \subseteq Characters
  BY FileNamesAssumption
<1>1. /\ Tar \in Text /\ Len(Tar) = 4
      /\ Taz \in Text /\ Len(Taz) = 4
      /\ Tgz \in Text /\ Len(Tgz) = 4
      /\ Gz \in Text /\ Len(Gz) = 3
      /\ DotZ \in Text /\ Len(DotZ) = 2
      /\ DashZ \in Text /\ Len(DashZ) = 2
      /\ DashGz \in Text /\ Len(DashGz) = 3
      /\ LowZ \in Text /\ Len(LowZ) = 2
  BY <1>a, ShortSequences, Zenon DEF Tar, Taz, Tgz, Gz, DotZ, DashZ, DashGz, LowZ, Text
<1>3. /\ BuiltIn \in Seq(Text) /\ Len(BuiltIn) = 7
      /\ BuiltIn[1] = Gz /\ BuiltIn[2] = DotZ /\ BuiltIn[3] = Taz /\ BuiltIn[4] = Tgz
      /\ BuiltIn[5] = DashGz /\ BuiltIn[6] = DashZ /\ BuiltIn[7] = LowZ
  BY <1>1 DEF BuiltIn
<1>4. \A k \in 1 .. 7 : BuiltIn[k] \in Text /\ Len(BuiltIn[k]) \in 2 .. 4
  <2> SUFFICES ASSUME NEW k \in 1 .. 7 PROVE BuiltIn[k] \in Text /\ Len(BuiltIn[k]) \in 2 .. 4
    OBVIOUS
  <2>1. k = 1 \/ k = 2 \/ k = 3 \/ k = 4 \/ k = 5 \/ k = 6 \/ k = 7
    OBVIOUS
  <2>2. 2 \in 2 .. 4 /\ 3 \in 2 .. 4 /\ 4 \in 2 .. 4
    OBVIOUS
  <2> QED BY <1>1, <1>3, <2>1, <2>2, Zenon
<1> QED BY <1>1, <1>3, <1>4

\* The suffix of --suffix, at the end or the beginning of the list.
LEMMA AppendText ==
    ASSUME NEW s \in Seq(Text), NEW t \in Text
    PROVE  /\ Len(Append(s, t)) = Len(s) + 1 /\ Append(s, t)[Len(s) + 1] = t
           /\ \A k \in 1 .. Len(s) : Append(s, t)[k] = s[k]
BY AppendProperties

LEMMA PrefixText ==
    ASSUME NEW s \in Seq(Text), NEW t \in Text
    PROVE  /\ Len(<<t>> \o s) = Len(s) + 1 /\ (<<t>> \o s)[1] = t
           /\ \A k \in 1 .. Len(s) : (<<t>> \o s)[k + 1] = s[k]
<1>1. <<t>> \in Seq(Text) /\ Len(<<t>>) = 1 /\ <<t>>[1] = t /\ Len(s) \in Nat
  OBVIOUS
<1>2. /\ Len(<<t>> \o s) = 1 + Len(s)
      /\ \A k \in 1 .. 1 + Len(s) :
            (<<t>> \o s)[k] = IF k <= 1 THEN <<t>>[k] ELSE s[k - 1]
  BY <1>1, ConcatProperties
<1> QED BY <1>1, <1>2

\* What get_suffix looks for: the suffix in use, and those built in.
LEMMA KnownText ==
    ASSUME NEW s \in Text, s # <<>>
    PROVE  /\ Len(Known(s)) = 8
           /\ \A k \in 1 .. 8 : Known(s)[k] \in Text /\ Known(s)[k] # <<>>
           /\ \A k \in 1 .. 8 : Len(Known(s)[k]) = Len(s) \/ Len(Known(s)[k]) \in 2 .. 4
           /\ \E k \in 1 .. 8 : Known(s)[k] = Lower(s)
           /\ \A l \in 1 .. 7 : \E k \in 1 .. 8 : Known(s)[k] = BuiltIn[l]
           /\ ~OfBuiltIn(s) => /\ Known(s)[1] = Lower(s)
                               /\ \A k \in 1 .. 7 : Known(s)[k + 1] = BuiltIn[k]
<1>1. Lower(s) \in Text /\ Len(Lower(s)) = Len(s) /\ Lower(s) # <<>> /\ Len(s) \in Nat \ {0}
  BY LowerText, TextLength
<1>b. \A l \in 1 .. 7 : /\ BuiltIn[l] \in Text /\ BuiltIn[l] # <<>>
                       /\ Len(BuiltIn[l]) \in 2 .. 4
  <2>1. \A l \in 1 .. 7 : BuiltIn[l] \in Text /\ Len(BuiltIn[l]) \in 2 .. 4
    BY BuiltInText
  <2>2. \A t \in Text : Len(t) \in 2 .. 4 => t # <<>>
    BY TextLength
  <2> QED BY <2>1, <2>2
<1>0. BuiltIn \in Seq(Text)
  BY BuiltInText
<1>2. CASE OfBuiltIn(s)
  <2>1. /\ Len(Known(s)) = 8 /\ Known(s)[8] = Lower(s)
        /\ \A k \in 1 .. 7 : Known(s)[k] = BuiltIn[k]
    <3>1. Known(s) = Append(BuiltIn, Lower(s))
      BY <1>2 DEF Known
    <3>2. /\ Len(Known(s)) = Len(BuiltIn) + 1 /\ Known(s)[Len(BuiltIn) + 1] = Lower(s)
          /\ \A k \in 1 .. Len(BuiltIn) : Known(s)[k] = BuiltIn[k]
      BY <1>0, <1>1, <3>1, AppendText
    <3> QED BY <3>2, BuiltInText
  <2>2. \A k \in 1 .. 8 : Known(s)[k] = Lower(s) \/ \E l \in 1 .. 7 : Known(s)[k] = BuiltIn[l]
    BY <2>1
  <2>3. \E k \in 1 .. 8 : Known(s)[k] = Lower(s)
    BY <2>1
  <2>4. \A l \in 1 .. 7 : l \in 1 .. 8 /\ Known(s)[l] = BuiltIn[l]
    BY <2>1
  <2> QED BY <1>1, <1>2, <1>b, <2>1, <2>2, <2>3, <2>4
<1>3. CASE ~OfBuiltIn(s)
  <2>1. Known(s) = <<Lower(s)>> \o BuiltIn
    BY <1>3 DEF Known
  <2>2. /\ Len(Known(s)) = Len(BuiltIn) + 1 /\ Known(s)[1] = Lower(s)
        /\ \A k \in 1 .. Len(BuiltIn) : Known(s)[k + 1] = BuiltIn[k]
    BY <1>0, <1>1, <2>1, PrefixText
  <2>3. Len(Known(s)) = 8 /\ \A k \in 1 .. 7 : Known(s)[k + 1] = BuiltIn[k]
    BY <2>2, BuiltInText
  <2>5. \A k \in 1 .. 8 : Known(s)[k] = Lower(s) \/ \E l \in 1 .. 7 : Known(s)[k] = BuiltIn[l]
    <3> SUFFICES ASSUME NEW k \in 1 .. 8, k # 1 PROVE \E l \in 1 .. 7 : Known(s)[k] = BuiltIn[l]
      BY <2>2
    <3>1. k - 1 \in 1 .. 7 /\ (k - 1) + 1 = k
      OBVIOUS
    <3>2. Known(s)[k] = BuiltIn[k - 1]
      BY <2>3, <3>1
    <3> QED BY <3>1, <3>2
  <2>7. \E k \in 1 .. 8 : Known(s)[k] = Lower(s)
    BY <2>2
  <2>4. \A l \in 1 .. 7 : l + 1 \in 1 .. 8 /\ Known(s)[l + 1] = BuiltIn[l]
    BY <2>3
  <2>6. \A l \in 1 .. 7 : \E k \in 1 .. 8 : Known(s)[k] = BuiltIn[l]
    BY <2>4
  <2>8. \A k \in 1 .. 8 : /\ Known(s)[k] \in Text /\ Known(s)[k] # <<>>
                          /\ Len(Known(s)[k]) = Len(s) \/ Len(Known(s)[k]) \in 2 .. 4
    BY <1>1, <1>b, <2>5
  <2>9. Len(Known(s)) = 8 /\ Known(s)[1] = Lower(s)
    BY <2>2, <2>3
  <2> HIDE DEF Known
  <2> QED BY <1>3, <2>3, <2>6, <2>7, <2>8, <2>9
<1> QED BY <1>2, <1>3

\* get_suffix takes the first that matches.
LEMMA FirstMatch ==
    ASSUME NEW name \in Text, NEW s \in Text, s # <<>>
    PROVE  \/ /\ GetSuffix(name, s) = <<>>
              /\ \A k \in 1 .. 8 : ~Ends(Lower(name), Known(s)[k])
           \/ \E k \in 1 .. 8 :
                /\ Ends(Lower(name), Known(s)[k])
                /\ \A j \in 1 .. 8 : Ends(Lower(name), Known(s)[j]) => k <= j
                /\ GetSuffix(name, s) = End(name, Len(Known(s)[k]))
<1> DEFINE M == {k \in 1 .. 8 : Ends(Lower(name), Known(s)[k])}
<1>1. Len(Known(s)) = 8
  BY KnownText
<1>2. GetSuffix(name, s) = IF M = {} THEN <<>> ELSE End(name, Len(Known(s)[Min(M)]))
  BY <1>1 DEF GetSuffix
<1>3. M \in SUBSET Nat
  OBVIOUS
<1>4. CASE M = {}
  BY <1>2, <1>4
<1>5. CASE M # {}
  <2>1. Min(M) \in M /\ \A y \in M : Min(M) <= y
    <3> HIDE DEF M
    <3> QED BY <1>3, <1>5, MinIsLeast
  <2> QED BY <1>2, <1>5, <2>1
<1> QED BY <1>4, <1>5

\* What it finds is the end of the name, and not all of it.
LEMMA SuffixIsEnd ==
    ASSUME NEW name \in Text, NEW s \in Text, s # <<>>, GetSuffix(name, s) # <<>>
    PROVE  \E n \in 1 .. Len(name) - 1 :
                /\ n = Len(s) \/ n \in 2 .. 4
                /\ GetSuffix(name, s) = End(name, n)
                /\ Len(GetSuffix(name, s)) = n
                /\ Stem(name, GetSuffix(name, s)) = Start(name, Len(name) - n)
<1>1. PICK k \in 1 .. 8 : /\ Ends(Lower(name), Known(s)[k])
                          /\ GetSuffix(name, s) = End(name, Len(Known(s)[k]))
  BY FirstMatch
<1> DEFINE n == Len(Known(s)[k])
<1>2. /\ n \in Nat \ {0} /\ (n = Len(s) \/ n \in 2 .. 4) /\ Len(name) > n
  BY <1>1, KnownText, TextLength, LowerText DEF Ends
<1>3. n \in 1 .. Len(name) - 1 /\ n \in 0 .. Len(name)
  BY <1>2, TextLength
<1>4. Len(GetSuffix(name, s)) = n
  BY <1>1, <1>3, Parts
<1>5. n = Len(s) \/ n \in 2 .. 4
  BY <1>2
<1>6. Stem(name, GetSuffix(name, s)) = Start(name, Len(name) - n)
  BY <1>4 DEF Stem
<1> HIDE DEF n
<1> QED BY <1>1, <1>3, <1>4, <1>5, <1>6 DEF n

\* What it means to end with a suffix, for each character.
LEMMA EndsCharacters ==
    ASSUME NEW t \in Text, NEW u \in Text
    PROVE  Ends(t, u) <=> /\ Len(t) > Len(u)
                          /\ \A k \in 1 .. Len(u) : t[Len(t) - Len(u) + k] = u[k]
<1>0. Len(t) \in Nat /\ Len(u) \in Nat
  BY TextLength
<1>1. CASE Len(t) > Len(u)
  <2>1. Len(u) \in 0 .. Len(t)
    BY <1>0, <1>1
  <2>2. /\ End(t, Len(u)) \in Text /\ Len(End(t, Len(u))) = Len(u)
        /\ \A k \in 1 .. Len(u) : End(t, Len(u))[k] = t[Len(t) - Len(u) + k]
    BY <2>1, Parts
  <2>3. End(t, Len(u)) = u <=> \A k \in 1 .. Len(u) : End(t, Len(u))[k] = u[k]
    BY <2>2, SameText
  <2>4. Ends(t, u) <=> End(t, Len(u)) = u
    BY <1>1 DEF Ends
  <2> QED BY <1>1, <2>2, <2>3, <2>4
<1>2. CASE ~(Len(t) > Len(u))
  BY <1>2 DEF Ends
<1> QED BY <1>1, <1>2

LEMMA EndsWith ==
    ASSUME NEW t \in Text, NEW u \in Text, Ends(t, u), NEW k \in 1 .. Len(u)
    PROVE  t[Len(t) - Len(u) + k] = u[k]
BY EndsCharacters

\* What is behind a name, in small letters, ends the name in small letters.
LEMMA EndsLower ==
    ASSUME NEW y \in Text, y # <<>>, NEW t \in Text
    PROVE  Ends(Lower(y \o t), Lower(t))
<1>1. /\ y \o t \in Text /\ Len(y \o t) = Len(y) + Len(t)
      /\ \A k \in 1 .. Len(t) : (y \o t)[Len(y) + k] = t[k]
      /\ Len(y) \in Nat \ {0} /\ Len(t) \in Nat
  BY Joined, TextLength
<1>2. /\ Lower(t) \in Text /\ Len(Lower(t)) = Len(t)
      /\ Lower(y \o t) \in Text /\ Len(Lower(y \o t)) = Len(y) + Len(t)
  BY <1>1, LowerText
<1>3. ASSUME NEW k \in 1 .. Len(t) PROVE Lower(y \o t)[Len(y) + k] = Lower(t)[k]
  <2>1. Len(y) + k \in 1 .. Len(y \o t)
    BY <1>1
  <2>2. Lower(y \o t)[Len(y) + k] = IF (y \o t)[Len(y) + k] \in DOMAIN Upper
                                    THEN Upper[(y \o t)[Len(y) + k]] ELSE (y \o t)[Len(y) + k]
    BY <1>1, <2>1, LowerText
  <2>3. Lower(t)[k] = IF t[k] \in DOMAIN Upper THEN Upper[t[k]] ELSE t[k]
    BY LowerText
  <2> QED BY <1>1, <2>2, <2>3
<1>4. Len(Lower(y \o t)) - Len(Lower(t)) = Len(y)
  BY <1>1, <1>2
<1>5. Len(Lower(y \o t)) > Len(Lower(t))
  BY <1>1, <1>2
<1>6. \A k \in 1 .. Len(Lower(t)) :
        Lower(y \o t)[Len(Lower(y \o t)) - Len(Lower(t)) + k] = Lower(t)[k]
  BY <1>2, <1>3, <1>4
<1> QED BY <1>2, <1>5, <1>6, EndsCharacters

\* A known suffix is found, or another one.
LEMMA SuffixFound ==
    ASSUME NEW y \in Text, y # <<>>, NEW s \in Text, s # <<>>, NEW t \in Text,
           \E k \in 1 .. 8 : Known(s)[k] = Lower(t)
    PROVE  GetSuffix(y \o t, s) # <<>>
<1>1. PICK k \in 1 .. 8 : Known(s)[k] = Lower(t)
  OBVIOUS
<1>2. Ends(Lower(y \o t), Known(s)[k]) /\ y \o t \in Text
  BY <1>1, EndsLower, Joined
<1>3. PICK l \in 1 .. 8 : /\ Ends(Lower(y \o t), Known(s)[l])
                          /\ GetSuffix(y \o t, s) = End(y \o t, Len(Known(s)[l]))
  BY <1>2, FirstMatch
<1> DEFINE n == Len(Known(s)[l])
<1>4. n \in Nat \ {0} /\ n \in 0 .. Len(y \o t)
  <2>1. Known(s)[l] \in Text /\ Known(s)[l] # <<>>
    BY KnownText
  <2>2. n \in Nat \ {0} /\ Len(y \o t) \in Nat
    BY <1>2, <2>1, TextLength
  <2>3. Len(y \o t) > n
    BY <1>2, <1>3, LowerText DEF Ends
  <2> QED BY <2>2, <2>3
<1>5. End(y \o t, n) \in Text /\ Len(End(y \o t, n)) = n
  BY <1>2, <1>4, Parts
<1> QED BY <1>3, <1>4, <1>5, TextLength

LEMMA LowerTgz == Lower(Tgz) = Tgz
<1>1. Tgz \in Text /\ Len(Tgz) = 4
  BY BuiltInText
<1>2. /\ Lower(Tgz) \in Text /\ Len(Lower(Tgz)) = 4
      /\ \A k \in 1 .. 4 : Lower(Tgz)[k] = IF Tgz[k] \in DOMAIN Upper THEN Upper[Tgz[k]] ELSE Tgz[k]
  BY <1>1, LowerText
<1>3. Tgz[1] = "." /\ Tgz[2] = "t" /\ Tgz[3] = "g" /\ Tgz[4] = "z"
  BY DEF Tgz
<1>4. DOMAIN Upper = {"G", "Z", "T", "A"}
  BY DEF Upper
<1>5. \A k \in 1 .. 4 : k = 1 \/ k = 2 \/ k = 3 \/ k = 4
  OBVIOUS
<1>6. \A k \in 1 .. 4 : Tgz[k] \notin DOMAIN Upper
  BY <1>3, <1>4, <1>5
<1>7. \A k \in 1 .. 4 : Lower(Tgz)[k] = Tgz[k]
  BY <1>2, <1>6
<1> QED BY <1>1, <1>2, <1>7, SameText

-----------------------------------------------------------------------------
(* What gunzip makes of the names that gzip gives.                           *)

\* make_ofname for decompression.
Restored(name, s) ==
    Stem(name, GetSuffix(name, s)) \o
        IF Lower(GetSuffix(name, s)) \in {Tgz, Taz} THEN Tar ELSE <<>>

\* How a file of a name is called when it is compressed and no character is cut.
Gives(as, name, s) ==
    \/ name # <<>> /\ as = name \o s
    \/ \E x \in Text : x # <<>> /\ name = x \o Tar /\ as = x \o Tgz

\* A suffix that no built-in one ends with is found before any other.
LEMMA SuffixIsFirst ==
    ASSUME NEW y \in Text, y # <<>>, NEW s \in Text, s # <<>>, ~OfBuiltIn(s)
    PROVE  GetSuffix(y \o s, s) = s /\ Stem(y \o s, GetSuffix(y \o s, s)) = y
<1>1. Known(s)[1] = Lower(s) /\ Len(Lower(s)) = Len(s)
  BY KnownText, LowerText
<1>2. Ends(Lower(y \o s), Known(s)[1]) /\ y \o s \in Text
  BY <1>1, EndsLower, Joined
<1>3. PICK k \in 1 .. 8 : /\ \A j \in 1 .. 8 : Ends(Lower(y \o s), Known(s)[j]) => k <= j
                          /\ GetSuffix(y \o s, s) = End(y \o s, Len(Known(s)[k]))
  BY <1>2, FirstMatch
<1>4. k = 1
  BY <1>2, <1>3
<1>5. GetSuffix(y \o s, s) = s
  BY <1>1, <1>3, <1>4, Joined
<1> QED BY <1>5, Joined

\* What zip has called by adding the suffix, unzip calls as before.
LEMMA PlainComesBack ==
    ASSUME NEW y \in Text, y # <<>>, NEW s \in Text, s # <<>>, ~Ambiguous(s)
    PROVE  Restored(y \o s, s) = y
<1>1. ~OfBuiltIn(s) /\ Lower(s) \notin {Tgz, Taz}
  BY DEF Ambiguous
<1>2. GetSuffix(y \o s, s) = s /\ Stem(y \o s, GetSuffix(y \o s, s)) = y
  BY <1>1, SuffixIsFirst
<1>3. y \o <<>> = y
  BY ConcatEmptySeq DEF Text
<1> QED BY <1>1, <1>2, <1>3 DEF Restored

\* The characters of the suffixes that may end ".tgz".
LEMMA BuiltInCharacters ==
    /\ Gz[1] = "." /\ Len(Gz) = 3
    /\ DotZ[1] = "." /\ Len(DotZ) = 2
    /\ Taz[3] = "a" /\ Len(Taz) = 4
    /\ Tgz[1] = "." /\ Tgz[2] = "t" /\ Tgz[3] = "g" /\ Tgz[4] = "z" /\ Len(Tgz) = 4
    /\ BuiltIn[1] = Gz /\ BuiltIn[2] = DotZ /\ BuiltIn[3] = Taz /\ BuiltIn[4] = Tgz
<1>1. Gz[1] = "." /\ Len(Gz) = 3 /\ DotZ[1] = "." /\ Len(DotZ) = 2
  BY DEF Gz, DotZ
<1>2. Taz[3] = "a" /\ Len(Taz) = 4
  BY DEF Taz
<1>3. Tgz[1] = "." /\ Tgz[2] = "t" /\ Tgz[3] = "g" /\ Tgz[4] = "z" /\ Len(Tgz) = 4
  BY DEF Tgz
<1>4. BuiltIn[1] = Gz /\ BuiltIn[2] = DotZ /\ BuiltIn[3] = Taz /\ BuiltIn[4] = Tgz
  BY DEF BuiltIn
<1> QED BY <1>1, <1>2, <1>3, <1>4

\* ".tgz" is found, where the suffix in use is not an end of it or ends with it.
LEMMA TgzIsFound ==
    ASSUME NEW x \in Text, x # <<>>, NEW s \in Text, s # <<>>, ~Ambiguous(s)
    PROVE  GetSuffix(x \o Tgz, s) = Tgz
<1> DEFINE t == x \o Tgz
           w == Lower(t)
           u == Lower(s)
<1>1. /\ Tgz \in Text /\ t \in Text /\ Len(t) = Len(x) + 4
      /\ End(t, Len(Tgz)) = Tgz
      /\ Len(x) \in Nat \ {0} /\ Len(s) \in Nat \ {0}
  <2>1. Tgz \in Text /\ Len(Tgz) = 4
    BY BuiltInText
  <2>2. t \in Text /\ Len(t) = Len(x) + Len(Tgz) /\ End(t, Len(Tgz)) = Tgz
    BY <2>1, Joined
  <2> QED BY <2>1, <2>2, TextLength
<1>2. w \in Text /\ Len(w) = Len(x) + 4 /\ u \in Text /\ Len(u) = Len(s)
  BY <1>1, LowerText
<1>3. Ends(w, Tgz)
  BY <1>1, EndsLower, LowerTgz
<1>4. \A k \in 1 .. 4 : w[Len(x) + k] = Tgz[k]
  <2>1. Len(w) - Len(Tgz) = Len(x) /\ Len(Tgz) = 4
    BY <1>1, <1>2, BuiltInText
  <2>2. \A k \in 1 .. Len(Tgz) : w[Len(w) - Len(Tgz) + k] = Tgz[k]
    BY <1>1, <1>2, <1>3, EndsWith
  <2> QED BY <2>1, <2>2
<1> HIDE DEF w, u, t
<1>5. ~Ends(w, Gz)
  <2> SUFFICES ASSUME Ends(w, Gz) PROVE FALSE
    OBVIOUS
  <2>1. Len(w) - 3 + 1 = Len(x) + 2 /\ 1 \in 1 .. 3 /\ 2 \in 1 .. 4
    BY <1>1, <1>2
  <2>2. w[Len(w) - 3 + 1] = "."
    <3>1. Gz \in Text /\ Len(Gz) = 3 /\ Gz[1] = "."
      BY BuiltInText, BuiltInCharacters, Zenon
    <3>a. 1 \in 1 .. Len(Gz)
      BY <2>1, <3>1
    <3>2. w[Len(w) - Len(Gz) + 1] = Gz[1]
      BY <1>2, <3>1, <3>a, EndsWith, Zenon
    <3> QED BY <3>1, <3>2
  <2> QED BY <1>4, <2>1, <2>2, BuiltInCharacters
<1>6. ~Ends(w, DotZ)
  <2> SUFFICES ASSUME Ends(w, DotZ) PROVE FALSE
    OBVIOUS
  <2>1. Len(w) - 2 + 1 = Len(x) + 3 /\ 1 \in 1 .. 2 /\ 3 \in 1 .. 4
    BY <1>1, <1>2
  <2>2. w[Len(w) - 2 + 1] = "."
    <3>1. DotZ \in Text /\ Len(DotZ) = 2 /\ DotZ[1] = "."
      BY BuiltInText, BuiltInCharacters, Zenon
    <3>a. 1 \in 1 .. Len(DotZ)
      BY <2>1, <3>1
    <3>2. w[Len(w) - Len(DotZ) + 1] = DotZ[1]
      BY <1>2, <3>1, <3>a, EndsWith, Zenon
    <3> QED BY <3>1, <3>2
  <2> QED BY <1>4, <2>1, <2>2, BuiltInCharacters
<1>7. ~Ends(w, Taz)
  <2> SUFFICES ASSUME Ends(w, Taz) PROVE FALSE
    OBVIOUS
  <2>1. Len(w) - 4 + 3 = Len(x) + 3 /\ 3 \in 1 .. 4
    BY <1>1, <1>2
  <2>2. w[Len(w) - 4 + 3] = "a"
    <3>1. Taz \in Text /\ Len(Taz) = 4 /\ Taz[3] = "a"
      BY BuiltInText, BuiltInCharacters, Zenon
    <3>a. 3 \in 1 .. Len(Taz)
      BY <2>1, <3>1
    <3>2. w[Len(w) - Len(Taz) + 3] = Taz[3]
      BY <1>2, <3>1, <3>a, EndsWith, Zenon
    <3> QED BY <3>1, <3>2
  <2> QED BY <1>4, <2>1, <2>2, BuiltInCharacters
<1>8. ~Ends(w, u)
  <2> SUFFICES ASSUME Ends(w, u) PROVE FALSE
    OBVIOUS
  <2>1. \A k \in 1 .. Len(u) : w[Len(w) - Len(u) + k] = u[k]
    BY <1>2, EndsCharacters
  <2>2. ~OfBuiltIn(u) /\ u # Tgz /\ ~Ends(u, Tgz)
    BY DEF Ambiguous, u
  <2>3. CASE Len(u) < 4
    <3>1. \A k \in 1 .. Len(u) : Tgz[Len(Tgz) - Len(u) + k] = u[k]
      <4> SUFFICES ASSUME NEW k \in 1 .. Len(u) PROVE Tgz[Len(Tgz) - Len(u) + k] = u[k]
        OBVIOUS
      <4>1. /\ 4 - Len(u) + k \in 1 .. 4
            /\ Len(x) + (4 - Len(u) + k) = Len(w) - Len(u) + k
        BY <1>1, <1>2, <2>3
      <4>2. w[Len(x) + (4 - Len(u) + k)] = Tgz[4 - Len(u) + k]
        BY <1>4, <4>1
      <4> QED BY <2>1, <4>1, <4>2, BuiltInText
    <3>2. Ends(Tgz, u)
      BY <1>1, <1>2, <2>3, <3>1, BuiltInText, EndsCharacters
    <3>3. Tgz \in ToSet(BuiltIn)
      <4>1. BuiltIn \in Seq(Text) /\ 4 \in 1 .. Len(BuiltIn) /\ BuiltIn[4] = Tgz
        BY BuiltInText, BuiltInCharacters
      <4>2. DOMAIN BuiltIn = 1 .. Len(BuiltIn)
        BY <4>1, LenProperties
      <4> QED BY <4>1, <4>2 DEF ToSet
    <3> QED BY <2>2, <3>2, <3>3 DEF OfBuiltIn
  <2>4. CASE Len(u) >= 4
    <3>1. \A k \in 1 .. 4 : u[Len(u) - 4 + k] = Tgz[k]
      <4> SUFFICES ASSUME NEW k \in 1 .. 4 PROVE u[Len(u) - 4 + k] = Tgz[k]
        OBVIOUS
      <4>1. /\ Len(u) - 4 + k \in 1 .. Len(u)
            /\ Len(w) - Len(u) + (Len(u) - 4 + k) = Len(x) + k
        BY <1>1, <1>2, <2>4
      <4>2. w[Len(w) - Len(u) + (Len(u) - 4 + k)] = u[Len(u) - 4 + k]
        BY <2>1, <4>1
      <4> QED BY <1>4, <4>1, <4>2
    <3>2. CASE Len(u) = 4
      <4>1. \A k \in 1 .. Len(u) : u[k] = Tgz[k]
        BY <3>1, <3>2
      <4>2. Len(Tgz) = Len(u) /\ Tgz \in Text
        BY <3>2, BuiltInText
      <4>3. u = Tgz
        BY <1>2, <4>1, <4>2, SameText
      <4> QED BY <2>2, <4>3
    <3>3. CASE Len(u) > 4
      <4>1. Len(Tgz) = 4
        BY BuiltInText
      <4>2. Ends(u, Tgz)
        <5>1. \A k \in 1 .. Len(Tgz) : u[Len(u) - Len(Tgz) + k] = Tgz[k]
          BY <3>1, <4>1
        <5>2. Len(u) > Len(Tgz) /\ Tgz \in Text
          BY <3>3, <4>1, <1>1
        <5> QED BY <1>2, <5>1, <5>2, EndsCharacters
      <4> QED BY <2>2, <4>2
    <3> QED BY <1>2, <2>4, <3>2, <3>3
  <2> QED BY <1>1, <1>2, <2>3, <2>4
<1>9. /\ Known(s)[1] = u /\ Known(s)[2] = Gz /\ Known(s)[3] = DotZ /\ Known(s)[4] = Taz
      /\ Known(s)[5] = Tgz
  <2>1. ~OfBuiltIn(s)
    BY DEF Ambiguous
  <2>2. Known(s)[1] = u /\ \A k \in 1 .. 7 : Known(s)[k + 1] = BuiltIn[k]
    BY <2>1, KnownText DEF u
  <2>3. /\ Known(s)[1 + 1] = BuiltIn[1] /\ Known(s)[2 + 1] = BuiltIn[2]
        /\ Known(s)[3 + 1] = BuiltIn[3] /\ Known(s)[4 + 1] = BuiltIn[4]
    BY <2>2
  <2> QED BY <2>2, <2>3, BuiltInCharacters
<1>10. PICK k \in 1 .. 8 : /\ Ends(w, Known(s)[k])
                           /\ \A j \in 1 .. 8 : Ends(w, Known(s)[j]) => k <= j
                           /\ GetSuffix(t, s) = End(t, Len(Known(s)[k]))
  <2>1. Ends(w, Known(s)[5]) /\ 5 \in 1 .. 8
    BY <1>3, <1>9
  <2> QED BY <1>1, <2>1, FirstMatch DEF w
<1>11. k = 5
  <2>1. k <= 5
    BY <1>3, <1>9, <1>10
  <2>2. k # 1 /\ k # 2 /\ k # 3 /\ k # 4
    BY <1>5, <1>6, <1>7, <1>8, <1>9, <1>10
  <2> QED BY <2>1, <2>2
<1>12. GetSuffix(t, s) = Tgz
  BY <1>1, <1>9, <1>10, <1>11, BuiltInText
<1> QED BY <1>12 DEF t

\* So it is with what zip has called, with the suffix or with ".tgz".
LEMMA NamesComeBack ==
    ASSUME NEW as \in Text, NEW name \in Text, NEW s \in Text, s # <<>>, ~Ambiguous(s),
           Gives(as, name, s)
    PROVE  Restored(as, s) = name
<1>1. CASE name # <<>> /\ as = name \o s
  BY <1>1, PlainComesBack
<1>2. ASSUME NEW x \in Text, x # <<>>, name = x \o Tar, as = x \o Tgz PROVE Restored(as, s) = name
  <2>1. GetSuffix(as, s) = Tgz
    BY <1>2, TgzIsFound
  <2>2. Stem(as, Tgz) = x
    BY <1>2, BuiltInText, Joined
  <2> QED BY <1>2, <2>1, <2>2, LowerTgz DEF Restored
<1> QED BY <1>1, <1>2 DEF Gives

-----------------------------------------------------------------------------
(* What shorten_name leaves of a name.                                       *)

\* The limits that names have.
LEMMA Limits == MinPart \in Nat \ {0} /\ NameMax \in Nat /\ NameMax >= 8
BY FileNamesAssumption, Zenon

LEMMA PartsAreInside ==
    ASSUME NEW t \in Text
    PROVE  /\ Len(t) \in Nat
           /\ Dots(t) \in SUBSET (1 .. Len(t)) /\ PartEnds(t) \in SUBSET (1 .. Len(t))
           /\ \A min : LongParts(t, min) \in SUBSET (1 .. Len(t))
BY TextLength DEF Dots, PartEnds, LongParts

\* Where a part begins: behind the last dot before it.
LEMMA PartLenIs ==
    ASSUME NEW t \in Text, NEW end \in 1 .. Len(t)
    PROVE  \E dot \in {0} \cup {i \in Dots(t) : i < end} :
                /\ \A i \in Dots(t) : i < end => i <= dot
                /\ PartLen(t, end) = end - dot
<1> DEFINE S == {0} \cup {i \in Dots(t) : i < end}
<1>1. S \in SUBSET (0 .. Len(t)) /\ S # {} /\ Len(t) \in Nat
  BY PartsAreInside
<1>2. Max(S) \in S /\ \A i \in S : i <= Max(S)
  <2> HIDE DEF S
  <2> QED BY <1>1, MaxIsGreatest
<1>3. PartLen(t, end) = end - Max(S)
  BY DEF PartLen
<1> QED BY <1>2, <1>3

\* Where no part has two characters, the last dot is the last character or the one before.
LEMMA LastDot ==
    ASSUME NEW t \in Text, Len(t) >= 2, LongParts(t, 1) = {}
    PROVE  /\ Dots(t) # {} /\ Max(Dots(t)) \in Dots(t)
           /\ Max(Dots(t)) >= Len(t) - 1
<1>1. Len(t) \in 1 .. Len(t) /\ Len(t) \in Nat
  BY PartsAreInside
<1>2. CASE Len(t) \in Dots(t)
  <2>1. Dots(t) \in SUBSET (0 .. Len(t))
    BY PartsAreInside
  <2>2. Max(Dots(t)) \in Dots(t) /\ \A i \in Dots(t) : i <= Max(Dots(t))
    BY <1>1, <1>2, <2>1, MaxIsGreatest
  <2>3. Max(Dots(t)) >= Len(t) /\ Max(Dots(t)) \in Int
    BY <1>1, <1>2, <2>1, <2>2
  <2> QED BY <1>1, <1>2, <2>2, <2>3
<1>3. CASE Len(t) \notin Dots(t)
  <2>1. Len(t) \in PartEnds(t)
    BY <1>1, <1>3 DEF PartEnds
  <2>2. PICK dot \in {0} \cup {i \in Dots(t) : i < Len(t)} :
            /\ \A i \in Dots(t) : i < Len(t) => i <= dot
            /\ PartLen(t, Len(t)) = Len(t) - dot
    BY <1>1, PartLenIs
  <2>3. ~(PartLen(t, Len(t)) > 1)
    BY <2>1 DEF LongParts
  <2>4. dot \in Nat
    BY <2>2, PartsAreInside
  <2>5. dot >= Len(t) - 1 /\ dot # 0 /\ dot \in Dots(t)
    BY <1>1, <2>2, <2>3, <2>4
  <2>6. Dots(t) \in SUBSET (0 .. Len(t))
    BY PartsAreInside
  <2>7. Max(Dots(t)) \in Dots(t) /\ \A i \in Dots(t) : i <= Max(Dots(t))
    BY <1>1, <2>5, <2>6, MaxIsGreatest
  <2>8. dot <= Max(Dots(t)) /\ Max(Dots(t)) \in Int
    BY <2>5, <2>6, <2>7
  <2> QED BY <1>1, <2>4, <2>5, <2>7, <2>8
<1> QED BY <1>2, <1>3

\* There is something to cut, and two characters at most go.
LEMMA CutText ==
    ASSUME NEW t \in Text, Len(t) >= 3
    PROVE  /\ LongParts(t, 1) # {} \/ Dots(t) # {}
           /\ Truncated(t) \in Text /\ Truncated(t) # <<>>
<1> DEFINE mins == {min \in 1 .. MinPart : LongParts(t, min) # {}}
           end  == Max(LongParts(t, Max(mins)))
           dot  == Max(Dots(t))
<1>0. Len(t) \in Nat
  BY PartsAreInside
<1>1. CASE mins # {}
  <2>1. mins \in SUBSET (0 .. MinPart) /\ MinPart \in Nat
    BY Limits
  <2>2. Max(mins) \in mins
    <3> HIDE DEF mins
    <3> QED BY <1>1, <2>1, MaxIsGreatest
  <2>3. LongParts(t, Max(mins)) # {}
    BY <2>2
  <2>4. end \in 1 .. Len(t)
    <3> DEFINE L == LongParts(t, Max(mins))
    <3>1. L \in SUBSET (1 .. Len(t)) /\ L \in SUBSET (0 .. Len(t)) /\ L # {}
      <4>1. L \in SUBSET (1 .. Len(t)) /\ L # {}
        BY <2>3, PartsAreInside
      <4> HIDE DEF L
      <4> QED BY <1>0, <4>1
    <3>2. Max(L) \in L
      <4> HIDE DEF L
      <4> QED BY <1>0, <3>1, MaxIsGreatest
    <3> QED BY <3>1, <3>2
  <2>5. Truncated(t) = Start(t, end - 1) \o End(t, Len(t) - end)
    BY <1>1 DEF Truncated
  <2> HIDE DEF end, mins
  <2>6. end - 1 \in 0 .. Len(t) /\ Len(t) - end \in 0 .. Len(t)
    BY <1>0, <2>4
  <2>7. /\ Start(t, end - 1) \in Text /\ Len(Start(t, end - 1)) = end - 1
        /\ End(t, Len(t) - end) \in Text /\ Len(End(t, Len(t) - end)) = Len(t) - end
    BY <2>6, Parts
  <2>8. Truncated(t) \in Text /\ Len(Truncated(t)) = (end - 1) + (Len(t) - end)
    <3>1. \A u, v \in Text : u \o v \in Text /\ Len(u \o v) = Len(u) + Len(v)
      BY Joined
    <3> QED BY <2>5, <2>7, <3>1
  <2>9. Len(Truncated(t)) # 0
    BY <1>0, <2>4, <2>8
  <2>10. LongParts(t, 1) # {}
    <3>1. PICK min \in 1 .. MinPart : LongParts(t, min) # {}
      BY <1>1 DEF mins
    <3>2. PICK e \in PartEnds(t) : PartLen(t, e) > min
      BY <3>1 DEF LongParts
    <3>3. PartLen(t, e) \in Int
      <4>1. e \in 1 .. Len(t)
        BY PartsAreInside
      <4> QED BY <4>1, PartLenIs, PartsAreInside
    <3>4. PartLen(t, e) > 1
      BY <2>1, <3>2, <3>3
    <3> QED BY <3>4 DEF LongParts
  <2> QED BY <2>8, <2>9, <2>10, TextLength
<1>2. CASE mins = {}
  <2>1. LongParts(t, 1) = {}
    <3>1. 1 \in 1 .. MinPart
      BY Limits
    <3> QED BY <1>2, <3>1
  <2>2. Dots(t) # {} /\ dot \in 1 .. Len(t) /\ dot >= Len(t) - 1
    BY <1>0, <2>1, LastDot, PartsAreInside
  <2>3. Truncated(t) = Start(t, IF dot = Len(t) THEN dot - 2 ELSE dot - 1)
    BY <1>2 DEF Truncated
  <2> HIDE DEF dot, mins
  <2> DEFINE n == IF dot = Len(t) THEN dot - 2 ELSE dot - 1
  <2>4. n \in 0 .. Len(t) /\ n # 0
    BY <1>0, <2>2
  <2>5. Truncated(t) \in Text /\ Len(Truncated(t)) = n
    BY <2>3, <2>4, Parts
  <2> QED BY <2>2, <2>4, <2>5, TextLength
<1> QED BY <1>1, <1>2

-----------------------------------------------------------------------------
(* Every name of the directory, and what is in the files.                    *)

Commands ==
    {c \in [decompress : BOOLEAN, force : BOOLEAN, keep : BOOLEAN, restore : BOOLEAN,
            suffix : Text, arg : Text] :
        c.suffix # <<>> /\ Len(c.suffix) + 4 <= NameMax}

\* The history that a layer has is true, if the name could be given back.
LayerTrue(layer) ==
    layer.suffix # <<>> /\ ~layer.cut /\ ~Ambiguous(layer.suffix)
        => Gives(layer.as, layer.name, layer.suffix)
Files ==
    {c \in [id : Text, layers : Seq(Layer)] : \A k \in 1 .. Len(c.layers) : LayerTrue(c.layers[k])}

TypeOK ==
    /\ pc \in Places /\ todo \in Seq(Commands) /\ (pc \in Inside => todo # <<>>)
    /\ IsFiniteSet(DOMAIN dir) /\ DOMAIN dir \subseteq Text \ {<<>>}
    /\ \A n \in DOMAIN dir : dir[n] \in Files
    /\ ifname \in Text /\ ofname \in Text /\ data \in Files /\ cut \in BOOLEAN

\* What is known of the names of the file that is treated.
SourceName == pc \in Inside => ifname # <<>> /\ Len(ifname) <= NameMax

\* gunzip: what make_ofname made, or a name from a header, which may be too long.
Named == pc \in {"create", "work"}
GunzipName ==
    Named /\ item.decompress =>
        /\ ofname # <<>> /\ data.layers # <<>>
        /\ ~item.restore => ofname = Restored(ifname, item.suffix) /\ Len(ofname) <= NameMax

\* gzip: a name with the suffix; it is the whole name of the input, unless it was cut.
HasSuffix(name, s) == \E y \in Text : y # <<>> /\ (name = y \o s \/ name = y \o Tgz)
GzipName ==
    Named /\ ~item.decompress =>
        /\ HasSuffix(ofname, item.suffix)
        /\ ~cut /\ ~Ambiguous(item.suffix) => Gives(ofname, ifname, item.suffix)

Fits == pc # "aborted" /\ (pc = "work" => Len(ofname) <= NameMax)

NamesInv == TypeOK /\ SourceName /\ GunzipName /\ GzipName /\ Fits

\* What is known of the command that is treated.
LEMMA CommandText ==
    ASSUME todo \in Seq(Commands), todo # <<>>
    PROVE  /\ item \in Commands
           /\ item.suffix \in Text /\ item.suffix # <<>> /\ Len(item.suffix) + 4 <= NameMax
           /\ item.arg \in Text /\ item.decompress \in BOOLEAN
           /\ Tail(todo) \in Seq(Commands)
<1>1. item \in Commands /\ Tail(todo) \in Seq(Commands)
  BY HeadTailProperties DEF item
<1> QED BY <1>1 DEF Commands

\* What make_ofname makes of a name for decompression is no longer than that.
LEMMA RestoredText ==
    ASSUME NEW name \in Text, NEW s \in Text, s # <<>>, GetSuffix(name, s) # <<>>
    PROVE  /\ Restored(name, s) \in Text /\ Restored(name, s) # <<>>
           /\ Len(Restored(name, s)) <= Len(name)
<1> DEFINE g == GetSuffix(name, s)
<1>0. Len(name) \in Nat
  BY TextLength
<1>1. PICK n \in 1 .. Len(name) - 1 :
        g = End(name, n) /\ Len(g) = n /\ Stem(name, g) = Start(name, Len(name) - n)
  BY SuffixIsEnd
<1>2. n \in 0 .. Len(name) /\ Len(name) - n \in 0 .. Len(name)
  BY <1>0
<1>3. /\ g \in Text
      /\ Stem(name, g) \in Text /\ Len(Stem(name, g)) = Len(name) - n
  BY <1>1, <1>2, Parts
<1> HIDE DEF g
<1>4. CASE Lower(g) \in {Tgz, Taz}
  <2>1. n = 4
    <3>1. Len(Lower(g)) = Len(g)
      BY <1>3, LowerText
    <3>2. Len(Lower(g)) = 4
      BY <1>4, BuiltInText
    <3> QED BY <1>1, <3>1, <3>2
  <2>2. Restored(name, s) = Stem(name, g) \o Tar
    BY <1>4 DEF Restored, g
  <2>3. Tar \in Text /\ Len(Tar) = 4
    BY BuiltInText
  <2>4. Restored(name, s) \in Text /\ Len(Restored(name, s)) = (Len(name) - n) + 4
    <3>1. \A u \in Text : u \o Tar \in Text /\ Len(u \o Tar) = Len(u) + Len(Tar)
      BY <2>3, JoinedLength, Zenon
    <3>2. /\ Restored(name, s) \in Text
          /\ Len(Restored(name, s)) = Len(Stem(name, g)) + Len(Tar)
      BY <1>3, <2>2, <3>1, Zenon
    <3> QED BY <1>3, <2>3, <3>2, Zenon
  <2>5. Len(Restored(name, s)) = Len(name) /\ Len(name) # 0
    BY <1>0, <2>1, <2>4
  <2> QED BY <1>0, <2>4, <2>5, TextLength
<1>5. CASE Lower(g) \notin {Tgz, Taz}
  <2>1. Restored(name, s) = Stem(name, g)
    BY <1>3, <1>5, ConcatEmptySeq DEF Restored, g, Text
  <2>2. Len(name) - n # 0 /\ Len(name) - n <= Len(name)
    BY <1>0
  <2> QED BY <1>3, <2>1, <2>2, TextLength
<1> QED BY <1>4, <1>5

\* A name with the suffix is one that get_suffix finds it in.
LEMMA HasSuffixIsSome ==
    ASSUME NEW o \in Text, NEW s \in Text, s # <<>>, HasSuffix(o, s)
    PROVE  o # <<>> /\ GetSuffix(o, s) # <<>>
<1>1. PICK y \in Text : y # <<>> /\ (o = y \o s \/ o = y \o Tgz)
  BY DEF HasSuffix
<1>2. GetSuffix(o, s) # <<>>
  <2>2. CASE o = y \o s
    <3>1. \E k \in 1 .. 8 : Known(s)[k] = Lower(s)
      BY KnownText
    <3> QED BY <1>1, <2>2, <3>1, SuffixFound
  <2>3. CASE o = y \o Tgz
    <3>1. \E k \in 1 .. 8 : Known(s)[k] = BuiltIn[4]
      BY KnownText
    <3>2. \E k \in 1 .. 8 : Known(s)[k] = Lower(Tgz) /\ Tgz \in Text
      BY <3>1, LowerTgz, BuiltInCharacters, BuiltInText
    <3> QED BY <1>1, <2>3, <3>2, SuffixFound
  <2> QED BY <1>1, <2>2, <2>3
<1>3. o # <<>>
  <2>1. Len(y) \in Nat \ {0} /\ Len(s) \in Nat /\ Tgz \in Text /\ Len(Tgz) = 4
    BY <1>1, TextLength, BuiltInText
  <2>2. Len(o) = Len(y) + Len(s) \/ Len(o) = Len(y) + Len(Tgz)
    BY <1>1, <2>1, JoinedLength, Zenon
  <2>3. Len(o) # 0
    BY <2>1, <2>2
  <2> QED BY <2>3, TextLength
<1> QED BY <1>2, <1>3

\* shorten_name for compression: there is something to cut, and the suffix is put back.
LEMMA ShortenedText ==
    ASSUME NEW o \in Text, NEW s \in Text, s # <<>>, Len(s) + 4 <= NameMax,
           HasSuffix(o, s), Len(o) > NameMax,
           NEW suff, suff = GetSuffix(o, s), NEW name, name = Stem(o, suff)
    PROVE  /\ Shortens(name, suff)
           /\ Shortened(name, s) \in Text /\ HasSuffix(Shortened(name, s), s)
           /\ \A f \in Text :
                ~Ambiguous(s) /\ Gives(o, f, s) /\ Len(f) <= NameMax /\ IsTar(name)
                    => Gives(Shortened(name, s), f, s)
<1>0. /\ NameMax \in Nat /\ NameMax >= 8 /\ Len(o) \in Nat /\ Len(s) \in Nat \ {0}
      /\ Tgz \in Text /\ Tar \in Text /\ Len(Tgz) = 4 /\ Len(Tar) = 4
  BY Limits, TextLength, BuiltInText
<1>1. suff # <<>>
  BY HasSuffixIsSome
<1>2. PICK n \in 1 .. Len(o) - 1 :
        /\ n = Len(s) \/ n \in 2 .. 4
        /\ suff = End(o, n) /\ Len(suff) = n /\ name = Start(o, Len(o) - n)
  BY <1>1, SuffixIsEnd
<1>3. name \in Text /\ Len(name) = Len(o) - n /\ Len(name) >= 5
  <2>1. Len(o) - n \in 0 .. Len(o) /\ Len(o) - n >= 5
    BY <1>0, <1>2
  <2> QED BY <1>2, <2>1, Parts
<1>4. /\ LongParts(name, 1) # {} \/ Dots(name) # {}
      /\ Truncated(name) \in Text /\ Truncated(name) # <<>>
  BY <1>3, CutText
<1>5. Shortens(name, suff)
  BY <1>1, <1>4 DEF Shortens
<1>6. CASE ~IsTar(name)
  <2>1. Shortened(name, s) = Truncated(name) \o s
    BY <1>6 DEF Shortened
  <2>2. Shortened(name, s) \in Text
    BY <1>4, <2>1, Joined
  <2> QED BY <1>4, <1>5, <1>6, <2>1, <2>2 DEF HasSuffix
<1>7. CASE IsTar(name)
  <2> DEFINE x == Start(name, Len(name) - 4)
  <2>1. Stem(name, Tar) = x /\ Shortened(name, s) = x \o Tgz
    BY <1>0, <1>7 DEF Shortened, Stem
  <2>2. Len(name) - 4 \in 0 .. Len(name) /\ Len(name) - 4 >= 1 /\ 4 \in 0 .. Len(name)
    BY <1>0, <1>3
  <2>3. x \in Text /\ Len(x) = Len(name) - 4 /\ x # <<>>
    <3>1. x \in Text /\ Len(x) = Len(name) - 4
      BY <1>3, <2>2, Parts
    <3> QED BY <2>2, <3>1, TextLength
  <2>4. name = x \o Tar
    BY <1>3, <1>7, <2>2, Split DEF IsTar
  <2>5. Shortened(name, s) \in Text
    BY <1>0, <2>1, <2>3, Joined
  <2> HIDE DEF x
  <2>6. ASSUME NEW f \in Text, ~Ambiguous(s), Gives(o, f, s), Len(f) <= NameMax
        PROVE  Gives(Shortened(name, s), f, s)
    <3>1. CASE f # <<>> /\ o = f \o s
      <4>1. ~OfBuiltIn(s)
        BY <2>6 DEF Ambiguous
      <4>2. Stem(f \o s, GetSuffix(f \o s, s)) = f
        BY <3>1, <4>1, SuffixIsFirst
      <4>3. name = f
        BY <3>1, <4>2
      <4> QED BY <2>1, <2>3, <2>4, <4>3 DEF Gives
    <3>2. ASSUME NEW z \in Text, f = z \o Tar, o = z \o Tgz PROVE FALSE
      <4>1. Len(f) = Len(z) + 4 /\ Len(o) = Len(z) + 4 /\ Len(z) \in Nat
        <5>1. Len(f) = Len(z) + Len(Tar) /\ Len(o) = Len(z) + Len(Tgz)
          BY <1>0, <3>2, JoinedLength, Zenon
        <5> QED BY <1>0, <5>1, TextLength
      <4> QED BY <1>0, <2>6, <4>1
    <3> QED BY <2>6, <3>1, <3>2 DEF Gives
  <2> QED BY <1>5, <2>1, <2>3, <2>5, <2>6 DEF HasSuffix
<1> QED BY <1>6, <1>7

\* Files with a layer more, one less, or none.
LEMMA FilesChange ==
    ASSUME NEW c \in Files
    PROVE  /\ \A layer \in Layer : LayerTrue(layer) =>
                [id |-> c.id, layers |-> <<layer>> \o c.layers] \in Files
           /\ c.layers # <<>> => [id |-> c.id, layers |-> Tail(c.layers)] \in Files
<1>1. /\ c.id \in Text /\ c.layers \in Seq(Layer)
      /\ \A k \in 1 .. Len(c.layers) : LayerTrue(c.layers[k])
  BY DEF Files
<1>2. ASSUME NEW layer \in Layer, LayerTrue(layer)
      PROVE  [id |-> c.id, layers |-> <<layer>> \o c.layers] \in Files
  <2> DEFINE l == <<layer>> \o c.layers
  <2>1. /\ l \in Seq(Layer) /\ Len(l) = Len(c.layers) + 1
        /\ \A k \in 1 .. Len(l) : l[k] = IF k = 1 THEN layer ELSE c.layers[k - 1]
    BY <1>1
  <2>2. Len(c.layers) \in Nat
    BY <1>1
  <2> HIDE DEF l
  <2>3. \A k \in 1 .. Len(l) : LayerTrue(l[k])
    <3> SUFFICES ASSUME NEW k \in 1 .. Len(l) PROVE LayerTrue(l[k])
      OBVIOUS
    <3>1. CASE k = 1
      BY <1>2, <2>1, <3>1
    <3>2. CASE k # 1
      <4>1. k - 1 \in 1 .. Len(c.layers)
        BY <2>1, <2>2, <3>2
      <4>2. LayerTrue(c.layers[k - 1])
        BY <1>1, <4>1, Zenon
      <4>3. l[k] = c.layers[k - 1]
        BY <2>1, <3>2
      <4> QED BY <4>2, <4>3
    <3> QED BY <3>1, <3>2
  <2>4. [id |-> c.id, layers |-> l] \in Files
    BY <1>1, <2>1, <2>3 DEF Files
  <2> QED BY <2>4 DEF l
<1>3. ASSUME c.layers # <<>> PROVE [id |-> c.id, layers |-> Tail(c.layers)] \in Files
  <2> DEFINE l == Tail(c.layers)
  <2>1. /\ l \in Seq(Layer) /\ Len(l) = Len(c.layers) - 1 /\ Len(c.layers) \in Nat
        /\ \A k \in 1 .. Len(l) : l[k] = c.layers[k + 1]
    BY <1>1, <1>3, HeadTailProperties, LenProperties
  <2>2. \A k \in 1 .. Len(l) : LayerTrue(l[k])
    <3> HIDE DEF l
    <3> SUFFICES ASSUME NEW k \in 1 .. Len(l) PROVE LayerTrue(l[k])
      OBVIOUS
    <3>1. k + 1 \in 1 .. Len(c.layers)
      BY <2>1
    <3>2. LayerTrue(c.layers[k + 1])
      BY <1>1, <3>1, Zenon
    <3>3. l[k] = c.layers[k + 1]
      BY <2>1
    <3> QED BY <3>2, <3>3
  <2> HIDE DEF l
  <2>3. [id |-> c.id, layers |-> l] \in Files
    BY <1>1, <2>1, <2>2 DEF Files
  <2> QED BY <2>3 DEF l
<1> QED BY <1>2, <1>3

\* Names that no file has, and the name that zip passes on.
LEMMA DotNames == Here \in Text /\ Nobody \in Text /\ SavedName \in Text
<1>1. "." \in Characters /\ SavedName \in Text
  BY FileNamesAssumption DEF Names
<1>2. Here \in Text /\ Nobody \in Text
  BY <1>1 DEF Here, Nobody, Text
<1> QED BY <1>1, <1>2

LEMMA PartialText == Partial \in Files
<1>1. <<>> \in Seq(Layer) /\ Len(<<>>) = 0
  OBVIOUS
<1> QED BY <1>1, DotNames DEF Partial, Files

\* The files given have names, and no history.
LEMMA NamesStart == Init => NamesInv
<1> SUFFICES ASSUME Init PROVE NamesInv
  OBVIOUS
<1>1. IsScript(script)
  BY FileNamesAssumption DEF Init
<1>2. todo \in Seq(Commands)
  <2>1. todo \in Seq(Item) /\ \A k \in 1 .. Len(todo) : Len(todo[k].suffix) + 4 <= NameMax
    BY <1>1 DEF Init, IsScript
  <2>2. \A k \in 1 .. Len(todo) : todo[k] \in Item
    BY <2>1, ElementOfSeq
  <2>3. \A k \in 1 .. Len(todo) : todo[k] \in Commands
    BY <2>1, <2>2, DotNames DEF Item, Commands, Names
  <2>4. todo \in [1 .. Len(todo) -> Commands] /\ Len(todo) \in Nat
    <3>1. todo = [k \in 1 .. Len(todo) |-> todo[k]] /\ Len(todo) \in Nat
      BY <2>1, LenProperties
    <3> QED BY <2>3, <3>1
  <2> QED BY <2>4, TabulatedSequence
<1>3. IsFiniteSet(DOMAIN dir) /\ DOMAIN dir \subseteq Text \ {<<>>}
  BY <1>1 DEF Init, IsScript, Names
<1>4. ASSUME NEW n \in DOMAIN dir PROVE dir[n] \in Files
  <2>1. dir[n] \in Contents /\ \A k \in 1 .. Len(dir[n].layers) : dir[n].layers[k].suffix = <<>>
    BY <1>1 DEF Init, IsScript
  <2> QED BY <2>1 DEF Contents, Files, LayerTrue, Names
<1>5. <<>> \in Text
  BY EmptySeq DEF Text
<1>6. /\ pc = "open" /\ ifname = <<>> /\ ofname = <<>> /\ data = Partial /\ cut = FALSE
  BY DEF Init
<1> QED BY <1>2, <1>3, <1>4, <1>5, <1>6, PartialText
        DEF NamesInv, TypeOK, SourceName, GunzipName, GzipName, Fits, Named, Places, Inside

\* What treat_file does when it returns.
LEMMA NamesReturn ==
    ASSUME NamesInv, Return, todo # <<>>, ifname' \in Text, ofname' \in Text, data' \in Files,
           cut' \in BOOLEAN,
           DOMAIN dir' \subseteq DOMAIN dir, \A n \in DOMAIN dir' : dir'[n] = dir[n]
    PROVE  NamesInv'
<1>1. todo' \in Seq(Commands) /\ pc' = "open"
  BY CommandText DEF NamesInv, TypeOK, Return
<1>2. TypeOK'
  BY <1>1, FS_Subset DEF NamesInv, TypeOK, Places, Inside
<1> QED BY <1>1, <1>2 DEF NamesInv, SourceName, GunzipName, GzipName, Fits, Named, Inside

\* treat_dir: the arguments that it adds are names.
LEMMA NamesTreatDir == NamesInv /\ TreatDir => NamesInv'
<1> SUFFICES ASSUME NamesInv, TreatDir PROVE NamesInv'
  OBVIOUS
<1>0. /\ pc = "open" /\ todo # <<>>
      /\ UNCHANGED <<dir, pc, ifname, ofname, data, cut>>
  BY DEF TreatDir
<1>1. PICK entries \in SetToSeqs(DOMAIN dir) :
        todo' = [i \in 1 .. Len(entries) |-> [item EXCEPT !.arg = entries[i]]] \o Tail(todo)
  BY DEF TreatDir
<1> DEFINE First == [i \in 1 .. Len(entries) |-> [item EXCEPT !.arg = entries[i]]]
           n == Cardinality(DOMAIN dir)
<1>2. n \in Nat /\ entries \in [1 .. n -> DOMAIN dir]
  BY <1>1, FS_CardinalityType DEF SetToSeqs, NamesInv, TypeOK
<1>3. Len(entries) \in Nat /\ \A i \in 1 .. Len(entries) : entries[i] \in Text
  <2> HIDE DEF n
  <2>1. Len(entries) = n
    BY <1>2, TabulatedSequence
  <2> QED BY <1>2, <2>1 DEF NamesInv, TypeOK
<1>4. item \in Commands /\ Tail(todo) \in Seq(Commands)
  BY <1>0, CommandText DEF NamesInv, TypeOK
<1>5. First \in Seq(Commands)
  <2>1. First \in [1 .. Len(entries) -> Commands]
    BY <1>3, <1>4 DEF Commands
  <2> HIDE DEF First
  <2> QED BY <1>3, <2>1, TabulatedSequence
<1>6. todo' \in Seq(Commands)
  <2> HIDE DEF First
  <2>1. First \o Tail(todo) \in Seq(Commands)
    BY <1>4, <1>5
  <2> QED BY <1>1, <2>1 DEF First
<1> QED BY <1>0, <1>6 DEF NamesInv, TypeOK, SourceName, GunzipName, GzipName, Fits, Named, Inside

LEMMA NamesOpenInput == NamesInv /\ OpenInput => NamesInv'
<1> SUFFICES ASSUME NamesInv, OpenInput PROVE NamesInv'
  OBVIOUS
<1>0. pc = "open" /\ todo # <<>> /\ UNCHANGED <<dir, ofname, cut>>
  BY DEF OpenInput, outVars
<1>1. CASE Return /\ UNCHANGED <<ifname, data>>
  BY <1>0, <1>1, NamesReturn DEF NamesInv, TypeOK
<1>2. ASSUME NEW name \in DOMAIN dir, Len(name) <= NameMax, ifname' = name, data' = dir[name],
             pc' = "name", UNCHANGED todo
      PROVE  NamesInv'
  BY <1>0, <1>2 DEF NamesInv, TypeOK, SourceName, GunzipName, GzipName, Fits, Named, Places, Inside
<1> QED BY <1>0, <1>1, <1>2 DEF OpenInput

\* make_ofname: with the suffix for compression, without it for decompression.
LEMMA NamesMakeOfname == NamesInv /\ MakeOfname => NamesInv'
<1> SUFFICES ASSUME NamesInv, MakeOfname PROVE NamesInv'
  OBVIOUS
<1> DEFINE suff == GetSuffix(ifname, item.suffix)
<1>0. /\ pc = "name" /\ cut' = FALSE
      /\ UNCHANGED <<dir, ifname, data>>
  BY DEF MakeOfname
<1>1. /\ todo \in Seq(Commands) /\ todo # <<>> /\ ifname \in Text /\ ifname # <<>>
      /\ Len(ifname) <= NameMax /\ Len(ifname) \in Nat /\ NameMax \in Nat
      /\ data \in Files /\ ofname \in Text
  BY <1>0, Limits, TextLength DEF NamesInv, TypeOK, SourceName, Inside
<1>2. item.suffix \in Text /\ item.suffix # <<>>
  BY <1>1, CommandText
<1>3. CASE Return /\ UNCHANGED ofname
  BY <1>0, <1>1, <1>3, NamesReturn
<1>4. ASSUME pc' = "create", UNCHANGED todo, ofname' \in Text,
             item.decompress => /\ ofname' # <<>> /\ data.layers # <<>>
                                /\ ~item.restore => /\ ofname' = Restored(ifname, item.suffix)
                                                    /\ Len(ofname') <= NameMax,
             ~item.decompress => ofname' = ifname \o item.suffix
      PROVE  NamesInv'
  <2>1. item' = item
    BY <1>4 DEF item
  <2>2. TypeOK'
    BY <1>0, <1>1, <1>4 DEF NamesInv, TypeOK, Places, Inside
  <2>3. GunzipName' /\ SourceName'
    BY <1>0, <1>1, <1>4, <2>1 DEF GunzipName, SourceName
  <2>4. GzipName'
    BY <1>0, <1>1, <1>2, <1>4, <2>1 DEF GzipName, HasSuffix, Gives
  <2> QED BY <1>4, <2>2, <2>3, <2>4 DEF NamesInv, Fits
<1>5. CASE ~item.decompress /\ ofname' = ifname \o item.suffix /\ pc' = "create" /\ UNCHANGED todo
  <2>1. ofname' \in Text
    BY <1>1, <1>2, <1>5, JoinedLength
  <2> QED BY <1>4, <1>5, <2>1
<1>6. CASE item.decompress /\ suff # <<>> /\ data.layers # <<>> /\ pc' = "create" /\ UNCHANGED todo
           /\ ofname' = IF item.restore /\ data.layers[1].saved # <<>> THEN data.layers[1].saved
                         ELSE Restored(ifname, item.suffix)
  <2>1. data.layers[1].saved \in Text
    <3>1. data.layers \in Seq(Layer) /\ 1 \in 1 .. Len(data.layers)
      <4>1. data.layers \in Seq(Layer) /\ data.layers # <<>>
        BY <1>1, <1>6 DEF Files
      <4> QED BY <4>1
    <3>2. data.layers[1] \in Layer
      BY <3>1, ElementOfSeq
    <3> QED BY <3>2 DEF Layer
  <2>2. LET name == Restored(ifname, item.suffix)
        IN  name \in Text /\ name # <<>> /\ Len(name) <= Len(ifname) /\ Len(name) \in Nat
    BY <1>1, <1>2, <1>6, RestoredText, TextLength
  <2> QED BY <1>1, <1>4, <1>6, <2>1, <2>2
<1>7. Restored(ifname, item.suffix) =
        Stem(ifname, suff) \o IF Lower(suff) \in {Tgz, Taz} THEN Tar ELSE <<>>
  BY DEF Restored
<1> HIDE DEF suff
<1>8. \/ Return /\ UNCHANGED ofname
      \/ /\ item.decompress <=> suff # <<>>
         /\ item.decompress => data.layers # <<>>
         /\ ofname' = IF ~item.decompress THEN ifname \o item.suffix
                      ELSE IF item.restore /\ data.layers[1].saved # <<>>
                      THEN data.layers[1].saved
                      ELSE Stem(ifname, suff) \o IF Lower(suff) \in {Tgz, Taz} THEN Tar ELSE <<>>
         /\ pc' = "create" /\ UNCHANGED todo
      \/ ~item.decompress /\ ofname' = ifname \o item.suffix /\ pc' = "create" /\ UNCHANGED todo
  BY DEF MakeOfname, suff
<1> QED BY <1>3, <1>5, <1>6, <1>7, <1>8

\* shorten_name: for decompression only names from a header are too long.
LEMMA NamesShorten == NamesInv /\ Shorten => NamesInv'
<1> SUFFICES ASSUME NamesInv, Shorten PROVE NamesInv'
  OBVIOUS
<1> DEFINE suff == GetSuffix(ofname, item.suffix)
           name == Stem(ofname, suff)
<1>0. /\ pc = "create" /\ Len(ofname) > NameMax /\ item' = item
      /\ UNCHANGED <<todo, dir, ifname, data>>
  BY DEF Shorten, TooLong, argVars, item
<1>1. /\ todo \in Seq(Commands) /\ todo # <<>> /\ ifname \in Text
      /\ Len(ifname) <= NameMax /\ Len(ofname) \in Nat /\ NameMax \in Nat /\ NameMax >= 8
      /\ ofname \in Text /\ cut \in BOOLEAN
  BY <1>0, Limits, TextLength DEF NamesInv, TypeOK, SourceName, Inside
<1>2. item.suffix \in Text /\ item.suffix # <<>> /\ Len(item.suffix) + 4 <= NameMax
  BY <1>1, CommandText
<1>3. ASSUME ofname' \in Text, cut' \in BOOLEAN, UNCHANGED pc,
             GunzipName', GzipName'
      PROVE  NamesInv'
  BY <1>0, <1>3 DEF NamesInv, TypeOK, SourceName, Fits
<1>4. CASE /\ item.decompress /\ ofname' = Start(ofname, Len(ofname) - 1)
           /\ cut' = TRUE /\ UNCHANGED pc
  <2>1. Len(ofname) - 1 \in 0 .. Len(ofname) /\ Len(ofname) - 1 # 0
    <3>1. Len(ofname) \in Nat /\ Len(ofname) >= 2
      BY <1>0, <1>1
    <3>2. \A n \in Nat : n >= 2 => n - 1 \in 0 .. n /\ n - 1 # 0
      OBVIOUS
    <3> QED BY <3>1, <3>2, Zenon
  <2>2. ofname' \in Text /\ ofname' # <<>>
    <3>1. ofname' \in Text /\ Len(ofname') = Len(ofname) - 1
      BY <1>1, <1>4, <2>1, Parts
    <3> QED BY <2>1, <3>1, TextLength
  <2>3. item.restore
    BY <1>0, <1>1, <1>4 DEF NamesInv, GunzipName, Named
  <2>4. GunzipName' /\ GzipName'
    BY <1>0, <1>4, <2>2, <2>3 DEF NamesInv, GunzipName, GzipName, Named
  <2> QED BY <1>3, <1>4, <2>2, <2>4
<1>5. CASE ~item.decompress
  <2>1. /\ HasSuffix(ofname, item.suffix)
        /\ ~cut /\ ~Ambiguous(item.suffix) => Gives(ofname, ifname, item.suffix)
    BY <1>0, <1>5 DEF NamesInv, GzipName, Named
  <2>2. /\ Shortens(name, suff)
        /\ Shortened(name, item.suffix) \in Text
        /\ HasSuffix(Shortened(name, item.suffix), item.suffix)
        /\ \A f \in Text :
             ~Ambiguous(item.suffix) /\ Gives(ofname, f, item.suffix) /\ Len(f) <= NameMax
             /\ IsTar(name)
                 => Gives(Shortened(name, item.suffix), f, item.suffix)
    BY <1>0, <1>1, <1>2, <2>1, ShortenedText
  <2>3. ofname' = Shortened(name, item.suffix) /\ cut' = (cut \/ ~IsTar(name)) /\ UNCHANGED pc
    BY <1>5, <2>2 DEF Shorten
  <2> HIDE DEF name, suff
  <2>4. ofname' \in Text /\ cut' \in BOOLEAN
    BY <2>2, <2>3
  <2>5. GzipName'
    <3>1. ASSUME ~cut', ~Ambiguous(item.suffix) PROVE Gives(ofname', ifname, item.suffix)
      <4>1. ~cut /\ IsTar(name)
        BY <2>3, <3>1
      <4> QED BY <1>1, <2>1, <2>2, <2>3, <3>1, <4>1
    <3> QED BY <1>0, <2>2, <2>3, <3>1 DEF GzipName
  <2>6. GunzipName'
    BY <1>0, <1>5 DEF GunzipName
  <2> QED BY <1>3, <2>3, <2>4, <2>5, <2>6
<1> QED BY <1>4, <1>5 DEF Shorten

LEMMA NamesCheckOfname == NamesInv /\ CheckOfname => NamesInv'
<1> SUFFICES ASSUME NamesInv, CheckOfname PROVE NamesInv'
  OBVIOUS
<1>0. pc = "create" /\ todo # <<>> /\ UNCHANGED <<ifname, ofname, cut, data>>
  BY DEF CheckOfname, Taken, outVars, NamesInv, TypeOK, Inside
<1>1. CASE Return /\ UNCHANGED dir
  BY <1>0, <1>1, NamesReturn DEF NamesInv, TypeOK
<1>2. CASE dir' = Without(ofname) /\ UNCHANGED <<argVars, pc>>
  <2>1. /\ DOMAIN dir' \subseteq DOMAIN dir /\ \A n \in DOMAIN dir' : dir'[n] = dir[n]
        /\ UNCHANGED todo
    BY <1>2 DEF Without, argVars
  <2>2. IsFiniteSet(DOMAIN dir')
    BY <2>1, FS_Subset DEF NamesInv, TypeOK
  <2> QED BY <1>0, <1>2, <2>1, <2>2
          DEF NamesInv, TypeOK, SourceName, GunzipName, GzipName, Fits, Named, item
<1> QED BY <1>1, <1>2 DEF CheckOfname

LEMMA NamesCreate == NamesInv /\ Create => NamesInv'
<1> SUFFICES ASSUME NamesInv, Create PROVE NamesInv'
  OBVIOUS
<1>0. /\ pc = "create" /\ pc' = "work" /\ ~(Len(ofname) > NameMax)
      /\ DOMAIN dir' = DOMAIN dir \cup {ofname}
      /\ \A n \in DOMAIN dir' : dir'[n] = IF n = ofname THEN Partial ELSE dir[n]
      /\ UNCHANGED <<todo, ifname, ofname, cut, data>>
  BY DEF Create, TooLong, With, outVars
<1>1. /\ item' = item /\ ofname \in Text /\ Len(ofname) <= NameMax
  BY <1>0, Limits, TextLength DEF item, NamesInv, TypeOK
<1>2. ofname # <<>>
  <2>1. todo \in Seq(Commands) /\ todo # <<>>
    BY <1>0 DEF NamesInv, TypeOK, Inside
  <2>2. item.decompress \in BOOLEAN /\ item.suffix \in Text /\ item.suffix # <<>>
    BY <2>1, CommandText
  <2>3. CASE item.decompress
    BY <1>0, <2>3 DEF NamesInv, GunzipName, Named
  <2>4. CASE ~item.decompress
    <3>1. HasSuffix(ofname, item.suffix)
      BY <1>0, <2>4 DEF NamesInv, GzipName, Named
    <3> QED BY <1>1, <2>2, <3>1, HasSuffixIsSome
  <2> QED BY <2>2, <2>3, <2>4
<1>3. IsFiniteSet(DOMAIN dir')
  BY <1>0, FS_AddElement DEF NamesInv, TypeOK
<1>4. TypeOK'
  <2>1. \A n \in DOMAIN dir' : dir'[n] \in Files
    BY <1>0, PartialText DEF NamesInv, TypeOK
  <2> QED BY <1>0, <1>1, <1>2, <1>3, <2>1 DEF NamesInv, TypeOK, Places, Inside
<1> QED BY <1>0, <1>1, <1>4
        DEF NamesInv, SourceName, GunzipName, GzipName, Fits, Named, Inside

\* The worker: what a new layer says of the names is true.
LEMMA NamesWork == NamesInv /\ Work => NamesInv'
<1> SUFFICES ASSUME NamesInv, Work PROVE NamesInv'
  OBVIOUS
<1> DEFINE layer == [saved |-> SavedName, name |-> ifname, as |-> ofname, suffix |-> item.suffix,
                     cut |-> cut]
           content == [id |-> data.id, layers |-> IF item.decompress THEN Tail(data.layers)
                                                  ELSE <<layer>> \o data.layers]
<1>0. /\ pc = "work" /\ pc' = "unlink"
      /\ dir' = [dir EXCEPT ![ofname] = content]
      /\ UNCHANGED <<todo, ifname, ofname, cut, data>>
  BY DEF Work, argVars, outVars
<1>1. /\ todo \in Seq(Commands) /\ todo # <<>> /\ data \in Files
      /\ ifname \in Text /\ ofname \in Text /\ cut \in BOOLEAN
  BY <1>0 DEF NamesInv, TypeOK, Inside
<1>2. item.suffix \in Text /\ item.decompress \in BOOLEAN
  BY <1>1, CommandText
<1>3. content \in Files
  <2>1. CASE item.decompress
    <3>1. data.layers # <<>>
      BY <1>0, <2>1 DEF NamesInv, GunzipName, Named
    <3> QED BY <1>1, <2>1, <3>1, FilesChange
  <2>2. CASE ~item.decompress
    <3>1. layer \in Layer
      BY <1>1, <1>2, DotNames DEF Layer
    <3>2. LayerTrue(layer)
      BY <1>0, <2>2 DEF NamesInv, GzipName, Named, LayerTrue
    <3> HIDE DEF layer
    <3> QED BY <1>1, <2>2, <3>1, <3>2, FilesChange
  <2> QED BY <1>2, <2>1, <2>2
<1> HIDE DEF content
<1>4. DOMAIN dir' = DOMAIN dir /\ \A n \in DOMAIN dir : dir'[n] \in Files
  BY <1>0, <1>3 DEF NamesInv, TypeOK
<1> QED BY <1>0, <1>4
        DEF NamesInv, TypeOK, SourceName, GunzipName, GzipName, Fits, Named, Places, Inside

\* All steps.
LEMMA NamesKeep == NamesInv /\ [Next]_vars => NamesInv'
<1> SUFFICES ASSUME NamesInv, [Next]_vars PROVE NamesInv'
  OBVIOUS
<1>1. CASE Unlink
  <2>1. /\ Return /\ pc = "unlink" /\ UNCHANGED <<ifname, ofname, cut, data>>
        /\ DOMAIN dir' \subseteq DOMAIN dir /\ \A n \in DOMAIN dir' : dir'[n] = dir[n]
    BY <1>1 DEF Unlink, Without, outVars
  <2> QED BY <2>1, NamesReturn DEF NamesInv, TypeOK, Inside
<1>2. CASE Ended \/ UNCHANGED vars
  BY <1>2 DEF Ended, vars, NamesInv, TypeOK, SourceName, GunzipName, GzipName, Fits, Named, item
<1> QED
  BY <1>1, <1>2, NamesTreatDir, NamesOpenInput, NamesMakeOfname, NamesShorten,
     NamesCheckOfname, NamesCreate, NamesWork DEF Next, Step

\* get_suffix, make_ofname, shorten_name: what gzip has called gets the name it had, for any
\* name and any suffix that is not taken for another (gzip.c:1202, gzip.c:1432).
THEOREM NamesAreRestored == Spec => []NameComesBack
<1>1. ASSUME NamesInv, pc = "work", item.decompress, ~item.restore,
             data.layers[1].suffix = item.suffix, ~data.layers[1].cut, data.layers[1].as = ifname,
             ~Ambiguous(item.suffix)
      PROVE  ofname = data.layers[1].name
  <2> DEFINE layer == data.layers[1]
  <2>1. /\ todo \in Seq(Commands) /\ todo # <<>> /\ data \in Files /\ ifname \in Text
        /\ data.layers # <<>> /\ ofname = Restored(ifname, item.suffix)
    BY <1>1 DEF NamesInv, TypeOK, GunzipName, Named, Inside
  <2>2. item.suffix \in Text /\ item.suffix # <<>>
    BY <2>1, CommandText
  <2>3. layer \in Layer /\ LayerTrue(layer)
    <3>1. /\ data.layers \in Seq(Layer)
          /\ \A k \in 1 .. Len(data.layers) : LayerTrue(data.layers[k])
      BY <2>1 DEF Files
    <3>2. 1 \in 1 .. Len(data.layers)
      BY <2>1, <3>1
    <3> QED BY <3>1, <3>2, ElementOfSeq
  <2> HIDE DEF layer
  <2>4. layer.name \in Text
    BY <2>3 DEF Layer
  <2>5. Gives(ifname, layer.name, item.suffix)
    BY <1>1, <2>2, <2>3 DEF LayerTrue, layer
  <2>6. Restored(ifname, item.suffix) = layer.name
    BY <1>1, <2>1, <2>2, <2>4, <2>5, NamesComeBack
  <2> QED BY <2>1, <2>6 DEF layer
<1>2. NamesInv => NameComesBack
  BY <1>1 DEF NameComesBack
<1> QED BY <1>2, NamesStart, NamesKeep, PTL DEF Spec

\* shorten_name: what is compressed has a name that fits and that get_suffix finds a suffix
\* in, and shorten_name never gives up (gzip.c:1104).
THEOREM SuffixSurvives == Spec => []SuffixIsKept
<1>1. ASSUME NamesInv, pc = "work", ~item.decompress
      PROVE  Len(ofname) <= NameMax /\ GetSuffix(ofname, item.suffix) # <<>>
  <2>1. /\ todo \in Seq(Commands) /\ todo # <<>> /\ ofname \in Text
        /\ HasSuffix(ofname, item.suffix) /\ Len(ofname) <= NameMax
    BY <1>1 DEF NamesInv, TypeOK, Fits, GzipName, Named, Inside
  <2>2. item.suffix \in Text /\ item.suffix # <<>>
    BY <2>1, CommandText
  <2> QED BY <2>1, <2>2, HasSuffixIsSome
<1>2. NamesInv => SuffixIsKept
  BY <1>1 DEF SuffixIsKept, NamesInv, Fits
<1> QED BY <1>2, NamesStart, NamesKeep, PTL DEF Spec
=============================================================================
