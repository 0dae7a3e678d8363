---------------------------- MODULE MCRemoteOutbox -----------------------------
(***************************************************************************)
(* Small instances of RemoteOutbox: two workers, one or two memories.       *)
(***************************************************************************)
EXTENDS RemoteOutbox, TLC

CONSTANTS p1, p2, m1, m2

Symmetry == Permutations({p1, p2}) \cup Permutations({m1, m2})
=============================================================================
