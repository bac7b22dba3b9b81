----------------------------- MODULE BufferBank -----------------------------
(***************************************************************************)
(* What a pool of buffers promises its clients: a fixed set of spaces, each *)
(* of them either free or lent to exactly one client.  A client that asks   *)
(* gets some free space, and only a lent space can come back.               *)
(***************************************************************************)
EXTENDS FiniteSets

CONSTANT Space      \* the spaces the pool was created with

VARIABLES free, lent

Init == /\ free = Space
        /\ lent = {}

Lend(s) == /\ s \in free
           /\ free' = free \ {s}
           /\ lent' = lent \cup {s}

Return(s) == /\ s \in lent
             /\ lent' = lent \ {s}
             /\ free' = free \cup {s}

Next == \E s \in Space : Lend(s) \/ Return(s)

Spec == Init /\ [][Next]_<<free, lent>>
=============================================================================
