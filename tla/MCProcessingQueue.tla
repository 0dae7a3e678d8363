-------------------------- MODULE MCProcessingQueue --------------------------
(***************************************************************************)
(* Small instances of ProcessingQueue.  One generation built or active, and *)
(* two of them between which a process may rebind.                          *)
(***************************************************************************)
EXTENDS ProcessingQueue, TLC

CONSTANTS p1, p2, m1, g1, g2

MCKindOf1    == [g \in Gens |-> "embedding"]
MCKindOf2    == [g \in Gens |-> IF g = g1 THEN "embedding" ELSE "embedding_v2"]
MCBackoff    == [n \in 1 .. MaxAttempts |-> 1]
OneBinding   == {Gens}
TwoBindings  == {{g1, g2}, {g2}}
Symmetry     == Permutations(Procs)
=============================================================================
