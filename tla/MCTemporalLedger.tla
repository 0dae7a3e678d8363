--------------------------- MODULE MCTemporalLedger ----------------------------
(***************************************************************************)
(* Small instances of TemporalLedger: four instants, two payloads.          *)
(***************************************************************************)
EXTENDS TemporalLedger, TLC

CONSTANTS a, b

Symmetry == Permutations(Payloads)
=============================================================================
