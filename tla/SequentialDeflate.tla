------------------------- MODULE SequentialDeflate --------------------------
(***************************************************************************)
(* What parallel compression promises: the file it writes is the one a      *)
(* single thread would write.  The body consists of the input cut into      *)
(* blocks, in order, each compressed completely, with the Dict units of     *)
(* input before it as dictionary unless blocks are independent; the last    *)
(* block, and no other, ends the deflate stream.                            *)
(*                                                                         *)
(* The input is the sequence of units 0 .. call.len-1; an interval          *)
(* [from, len] stands for the data of these units.                          *)
(***************************************************************************)
EXTENDS Integers, Sequences

CONSTANTS Dict,         \* units in a dictionary
          BlockSize,    \* units in the largest block
          Calls         \* inputs and options: call.len, call.independent

NoData == [from |-> -1, len |-> 0]

VARIABLES call,         \* this input and its options
          file,         \* the compressed blocks written so far
          finished      \* the trailer is written

(* Where the input of the next block starts                                *)
Covered == IF file = <<>> THEN 0
           ELSE file[Len(file)].data.from + file[Len(file)].data.len

Preceding == IF call.independent \/ Covered = 0 THEN NoData
             ELSE [from |-> Covered - Dict, len |-> Dict]

Init == /\ call \in Calls
        /\ file = <<>>
        /\ finished = FALSE

WriteBlock(k) == /\ ~finished
                 /\ Covered + k <= call.len
                 /\ file' = Append(file, [data  |-> [from |-> Covered, len |-> k],
                                          dict  |-> Preceding,
                                          final |-> Covered + k = call.len,
                                          whole |-> TRUE])
                 /\ UNCHANGED <<call, finished>>

WriteTrailer == /\ ~finished
                /\ Covered = call.len
                /\ finished' = TRUE
                /\ UNCHANGED <<call, file>>

Next == (\E k \in 1 .. BlockSize : WriteBlock(k)) \/ WriteTrailer

Spec == Init /\ [][Next]_<<call, file, finished>>
=============================================================================
