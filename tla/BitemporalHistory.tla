--------------------------- MODULE BitemporalHistory ---------------------------
(***************************************************************************)
(* What the temporal ledger of one memory promises its readers, without the *)
(* rows it is kept in: for every instant v of the world and every instant k *)
(* of knowledge, what was known at k to hold at v.                          *)
(*                                                                         *)
(* A write made at `now' says something about an interval of the world.     *)
(* It changes what is known from `now' on about that interval, and nothing  *)
(* else: what was known before stays answerable as it was.                  *)
(***************************************************************************)
EXTENDS Integers

CONSTANTS
  Times,   \* the instants, a set of positive integers
  Ends,    \* where an interval may end: an instant or after all of them
  Facts,   \* what can be said of an instant
  Nothing  \* nothing is known

VARIABLES
  known,   \* known[v][k]: what was known at k to hold at v
  last     \* the time of the last write, 0 before the first

Init == known = [v \in Times |-> [k \in Times |-> Nothing]] /\ last = 0

Record(now, from, to, fact) ==
  /\ last < now
  /\ last' = now
  /\ known' = [v \in Times |-> [k \in Times |->
                 IF now <= k /\ from <= v /\ v < to THEN fact ELSE known[v][k]]]

(* The memory is deleted for good, its history with it.                      *)
Erase == known' = [v \in Times |-> [k \in Times |-> Nothing]] /\ last' = 0

Next ==
  \/ \E now, from \in Times, to \in Ends, fact \in Facts : Record(now, from, to, fact)
  \/ Erase

Spec == Init /\ [][Next]_<<known, last>>
=============================================================================
