---------------------------- MODULE MCLockOrder ----------------------------
(* Instances of LockOrder for TLC. *)
EXTENDS LockOrder, TLC

\* Threads and ids are interchangeable.
Symmetry == Permutations(Threads) \cup Permutations(Sids)
=============================================================================
