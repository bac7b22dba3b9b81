--------------------------- MODULE ClosableQueue ----------------------------
(***************************************************************************)
(* What the queue between the reader and the compress threads promises: it  *)
(* is a FIFO, every job is taken once, and a consumer is told that there is *)
(* no more work only after the queue was closed and emptied.                *)
(***************************************************************************)
EXTENDS Naturals, Sequences

CONSTANT Consumer

VARIABLES queue,    \* the jobs that wait
          closed,   \* nothing will be added any more
          added,    \* how many jobs were ever added; they are numbered from 0
          ended     \* the consumers that were told to stop

Init == /\ queue = <<>>
        /\ closed = FALSE
        /\ added = 0
        /\ ended = {}

Add == /\ ~closed
       /\ queue' = Append(queue, added)
       /\ added' = added + 1
       /\ UNCHANGED <<closed, ended>>

Take == /\ queue # <<>>
        /\ queue' = Tail(queue)
        /\ UNCHANGED <<closed, added, ended>>

Close == /\ ~closed
         /\ closed' = TRUE
         /\ UNCHANGED <<queue, added, ended>>

End(c) == /\ closed
          /\ queue = <<>>
          /\ ended' = ended \cup {c}
          /\ UNCHANGED <<queue, closed, added>>

Next == Add \/ Take \/ Close \/ \E c \in Consumer : End(c)

Spec == Init /\ [][Next]_<<queue, closed, added, ended>>
=============================================================================
