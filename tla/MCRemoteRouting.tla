---------------------------- MODULE MCRemoteRouting ----------------------------
(***************************************************************************)
(* Small instances of RemoteRouting: a search and two writes.               *)
(***************************************************************************)
EXTENDS RemoteRouting, TLC

CONSTANTS search, write1, write2

Symmetry == Permutations({write1, write2})
=============================================================================
