---------------------------- MODULE ReplaceFiles ----------------------------
(***************************************************************************)
(* What gzip promises about each file it is given: it makes a second copy  *)
(* of the data, and only then gives up the first.  A copy is the input     *)
(* file ("in") or an output file that is complete ("out").                 *)
(***************************************************************************)
CONSTANT Files
VARIABLE copies

Init == copies = [f \in Files |-> {"in"}]

\* The output becomes complete.
Produce(f) == /\ copies[f] = {"in"}
              /\ copies' = [copies EXCEPT ![f] = {"in", "out"}]

\* The input goes, because the output is there.
Replace(f) == /\ copies[f] = {"in", "out"}
              /\ copies' = [copies EXCEPT ![f] = {"out"}]

\* The output goes, because the input is still there.
Undo(f) == /\ copies[f] = {"in", "out"}
           /\ copies' = [copies EXCEPT ![f] = {"in"}]

Next == \E f \in Files : Produce(f) \/ Replace(f) \/ Undo(f)

Spec == Init /\ [][Next]_copies
=============================================================================
