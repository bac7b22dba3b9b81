----------------------------- MODULE SeqMailbox -----------------------------
(***************************************************************************)
(* What the write queue promises: the compress threads put the blocks 0 ..  *)
(* Blocks-1 into it in any order, the writer takes them out by number, in   *)
(* order, and is told that there is nothing more only after every thread    *)
(* that puts blocks has left and the box is empty.                          *)
(***************************************************************************)
EXTENDS Naturals

CONSTANTS Putter,   \* the compress threads
          Block     \* the numbers a block can have

VARIABLES box,      \* the blocks that wait for the writer
          seq,      \* the block the writer wants next
          left,     \* the putters that closed the queue
          ended     \* the writer was told that there is nothing more

Init == /\ box = {}
        /\ seq = 0
        /\ left = {}
        /\ ended = FALSE

Put(j) == /\ left # Putter
          /\ j >= seq
          /\ j \notin box
          /\ box' = box \cup {j}
          /\ UNCHANGED <<seq, left, ended>>

Fetch == /\ seq \in box
         /\ box' = box \ {seq}
         /\ seq' = seq + 1
         /\ UNCHANGED <<left, ended>>

Leave(c) == /\ left' = left \cup {c}
            /\ UNCHANGED <<box, seq, ended>>

End == /\ left = Putter
       /\ box = {}
       /\ ended' = TRUE
       /\ UNCHANGED <<box, seq, left>>

Next == \/ \E j \in Block : Put(j)
        \/ Fetch
        \/ \E c \in Putter : Leave(c)
        \/ End

Spec == Init /\ [][Next]_<<box, seq, left, ended>>
=============================================================================
