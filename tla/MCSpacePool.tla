---------------------------- MODULE MCSpacePool -----------------------------
(* Model values for SpacePool: threads and spaces are interchangeable.      *)
EXTENDS SpacePool, TLC

Symmetry == Permutations(User) \cup Permutations(Space)
=============================================================================
