------------------------------- MODULE Writen --------------------------------
(***************************************************************************)
(* writen of parallel.c: a compressor writes header, blocks and trailer to  *)
(* a pipe or a file.  write() takes any part of what it is given, or fails  *)
(* and returns -1, which writen adds to its pointer and takes from what is  *)
(* left like any other count.                                               *)
(*                                                                          *)
(* The compressed stream is a sequence of units, each a kind and its        *)
(* position: "h" a gzip header, or "H", "n" and "0" one that has a name, its *)
(* letters and the NUL behind them; "d" a piece of compressed data; "e" the *)
(* end of a member with its check value; "p", "z" and "k" the magic numbers *)
(* of pack, compress and zip; "r" a header that get_method refuses; "x"      *)
(* anything else.                                                           *)
(***************************************************************************)
EXTENDS Integers, Sequences

CONSTANTS
    MaxErrors      \* bound: write() fails at most so often in writen

ASSUME WritenAssumption == MaxErrors \in Nat

VARIABLES
    source,        \* the kinds of the units to write; it never changes
    buffer,        \* position of the first unit of buf
    next,          \* position of the unit that next points to
    left,          \* units left of this call
    sent,          \* what write() has taken so far
    failures       \* number of failed writes
writenVars == <<source, buffer, next, left, sent, failures>>

Kinds == {"h", "H", "n", "0", "d", "e", "p", "z", "k", "r", "x"}
Unit(kind, id) == [kind |-> kind, id |-> id]
Units == [kind : Kinds, id : Int]

\* The memory at a position: before buf it is something else.
At(i) == Unit(IF i < buffer THEN "x" ELSE source[i], i)

\* A buffer is a header, a name, a block of data, or a trailer.
EndsBuffer(i) ==
    i < Len(source) =>
        \A pair \in {<<"d", "d">>, <<"n", "n">>, <<"n", "0">>} :
            <<source[i], source[i + 1]>> # pair

\* All has been written, and the descriptor is closed.
Closed == left = 0 /\ next > Len(source)

WritenInit(stream) ==
    /\ source = stream
    /\ buffer = 1
    /\ next = 1
    /\ left = 0
    /\ sent = <<>>
    /\ failures = 0

-----------------------------------------------------------------------------
\* put, put_header, write_thread: the next call of writen.
Put ==
    /\ left = 0
    /\ next <= Len(source)
    /\ \E last \in next .. Len(source) :
        /\ EndsBuffer(last)
        /\ \A i \in next .. last - 1 : ~EndsBuffer(i)
        /\ left' = last - next + 1
    /\ buffer' = next
    /\ UNCHANGED <<source, next, sent, failures>>

\* Mutant: a short write is taken for a whole one.
WriteOnceMutant ==
    /\ left > 0
    /\ \E n \in 1 .. left :
        sent' = sent \o [i \in 1 .. n |-> At(next + i - 1)]
    /\ next' = next + left
    /\ left' = 0
    /\ UNCHANGED <<source, buffer, failures>>

\* write() takes some of it.
Write ==
    /\ left > 0
    /\ \E n \in 1 .. left :
        /\ sent' = sent \o [i \in 1 .. n |-> At(next + i - 1)]
        /\ next' = next + n
        /\ left' = left - n
    /\ UNCHANGED <<source, buffer, failures>>

\* write() returns -1.
WriteFails ==
    /\ left > 0
    /\ failures < MaxErrors
    /\ failures' = failures + 1
    /\ next' = next - 1
    /\ left' = left + 1
    /\ UNCHANGED <<source, buffer, sent>>

WritenNext == Put \/ Write \/ WriteFails

-----------------------------------------------------------------------------
\* Whatever write() does, writen leaves out no unit of the stream: what it
\* sends goes ahead by one at a time, perhaps after going back, and has come
\* to the end of the buffer when writen returns (parallel.c:653).  It does go
\* back after an error, and so may send units twice, or others.
NeverSkips ==
    /\ \A i \in 1 .. Len(sent) :
        sent[i].id <= IF i = 1 THEN 1 ELSE sent[i - 1].id + 1
    /\ left = 0 /\ next > 1 => sent # <<>> /\ sent[Len(sent)].id = next - 1
    /\ Closed => next = Len(source) + 1
=============================================================================
