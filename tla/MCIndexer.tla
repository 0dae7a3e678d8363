------------------------------ MODULE MCIndexer -------------------------------
(***************************************************************************)
(* The file indexer at the start of serve: a file whose second section is      *)
(* longer than a chunk may be.                                                *)
(***************************************************************************)
EXTENDS Indexer

MCLength == <<1, 3>>
===============================================================================
