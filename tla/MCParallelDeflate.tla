------------------------- MODULE MCParallelDeflate --------------------------
(* Calls for ParallelDeflate: lengths around the block size, and long enough *)
(* to exhaust the pools; with two compress threads and with one.             *)
EXTENDS ParallelDeflate

CONSTANTS c1, c2

Call(n, piped, independent, threads) ==
    [len |-> n, piped |-> piped, independent |-> independent, threads |-> threads]

\* With two threads, five blocks exceed the four spaces of a pool; with one,
\* three exceed the two.  Blocks of any length need --independent.
MCCalls ==    {Call(n, FALSE, FALSE, {c1, c2}) : n \in {0, 1, 3, 14}}
         \cup {Call(n, TRUE, TRUE, {c1, c2}) : n \in {0, 1, 4}}
         \cup {Call(n, FALSE, FALSE, {c1}) : n \in {0, 1, 3, 4, 9, 17, 18}}

OneBlock == {Call(3, FALSE, FALSE, {c1})}
Piped    == {Call(5, TRUE, FALSE, {c1})}
=============================================================================
