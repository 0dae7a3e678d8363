---------------------------- MODULE TemporalLedger -----------------------------
(***************************************************************************)
(* The bitemporal ledger of one memory (pkg/memory/sqlite_temporal.go).     *)
(*                                                                         *)
(* memory_revisions holds immutable revisions, each true of an interval of  *)
(* the world (valid time) and known during an interval of system time.  A   *)
(* write closes the open revisions its interval overlaps, puts back the     *)
(* parts outside the interval, inserts its own revision and points the      *)
(* compatibility row in `memories' at the revision that is current.         *)
(* Everything is one SQLite transaction, so a write is one action.  The     *)
(* logical identities do not interact, so one of them is modelled.          *)
(*                                                                         *)
(* The wall clock may jump either way between writes; advanceSystemTimeTx   *)
(* moves the time of a write past every system_from, so with an arbitrary   *)
(* clock reading it is any instant after them.                              *)
(***************************************************************************)
EXTENDS Integers

CONSTANTS
  MaxTime,   \* bound: the instants
  Payloads,  \* content and metadata of a revision
  None       \* no row

ASSUME BoundsAssumption == MaxTime \in Nat

Times   == 1 .. MaxTime
Forever == MaxTime + 1      \* NULL in valid_to and system_to
Ends    == 1 .. Forever
Facts   == [payload : Payloads, tomb : BOOLEAN]
Revisions ==
  [from : Times, to : Ends, sysFrom : Times, sysTo : Ends, fact : Facts]

ASSUME NoneAssumption == None \notin Facts /\ None \notin Revisions

VARIABLES
  revs,     \* memory_revisions of the identity
  current,  \* the revision current_revision_id names, None without a row
  gone,     \* deleted_at of the row is set
  refused   \* auxiliary: validateBitemporalIntervalsTx rolled a write back

vars == <<revs, current, gone, refused>>

Init == revs = {} /\ current = None /\ gone = FALSE /\ refused = FALSE

-----------------------------------------------------------------------------
Open(r)    == r.sysTo = Forever
HasRow     == current # None
Tombstone  == HasRow /\ current.fact.tomb

(* Mutant: the time of a write may repeat the latest system time.            *)
AdvancesWeakly(now) == \A r \in revs : r.sysFrom <= now
(* advanceSystemTimeTx.                                                      *)
Advances(now) == \A r \in revs : r.sysFrom < now

(* validTemporalInterval and the rejection of future boundaries.             *)
Allowed(from, to, now) == from < to /\ from <= now /\ (to = Forever \/ to <= now)

Overlap(a, b) ==
  /\ a.from < b.to /\ b.from < a.to
  /\ a.sysFrom < b.sysTo /\ b.sysFrom < a.sysTo
(* validateBitemporalIntervalsTx.                                            *)
Disjoint(S) == \A a, b \in S : a # b => ~Overlap(a, b)

(* replaceCurrentIntervalTx: what is open and overlaps [from, to) is closed, *)
(* and the parts before and after the interval are put back as clones.       *)
Hit(from, to) == {r \in revs : Open(r) /\ from < r.to /\ r.from < to}
Before(from, to, now) ==
  {[r EXCEPT !.to = from, !.sysFrom = now] : r \in {q \in Hit(from, to) : q.from < from}}
(* Mutant: the part after the interval is forgotten.                         *)
AfterForgotten(from, to, now) == {}
After(from, to, now) ==
  {[r EXCEPT !.from = to, !.sysFrom = now] : r \in {q \in Hit(from, to) : to < q.to}}
Closed(from, to, now) == {[r EXCEPT !.sysTo = now] : r \in Hit(from, to)}

(* Mutant: what the interval replaces is not closed.                         *)
ReplacedLeavingOpen(from, to, now) ==
  revs \cup Before(from, to, now) \cup After(from, to, now)
Replaced(from, to, now) ==
  (revs \ Hit(from, to)) \cup Closed(from, to, now)
    \cup Before(from, to, now) \cup After(from, to, now)

Revision(from, to, now, fact) ==
  [from |-> from, to |-> to, sysFrom |-> now, sysTo |-> Forever, fact |-> fact]

(* selectCurrentRevisionTx at `now', else the revision just written.         *)
ValidAt(S, now) == {r \in S : Open(r) /\ r.from <= now /\ now < r.to}
(* Mutant: the row always shows the revision just written.                   *)
SelectedWritten(S, now, new) == {new}
Selected(S, now, new) ==
  IF ValidAt(S, now) = {} THEN {new}
  ELSE {r \in ValidAt(S, now) : \A q \in ValidAt(S, now) : q.from <= r.from}

(* The rest of a write transaction, from the interval on.                    *)
Commit(from, to, now, fact) ==
  LET new   == Revision(from, to, now, fact)
      after == Replaced(from, to, now) \cup {new}
  IN IF Disjoint(after)
     THEN /\ revs' = after
          /\ current' \in Selected(after, now, new)
          /\ gone' = current'.fact.tomb
          /\ UNCHANGED refused
     ELSE refused' = TRUE /\ UNCHANGED <<revs, current, gone>>

-----------------------------------------------------------------------------
(* SaveTemporal in the modes supersede and tombstone.  A tombstone needs the *)
(* memory to exist.  Saving over a tombstone revives the memory.             *)
Save(from, to, now, fact) ==
  /\ Advances(now) /\ Allowed(from, to, now)
  /\ fact.tomb => HasRow
  /\ Commit(from, to, now, fact)

(* SaveTemporal in the mode correct: the interval and the tombstone flag of  *)
(* the current revision stay.                                                *)
Correct(now, payload) ==
  /\ HasRow /\ Advances(now)
  /\ Allowed(current.from, current.to, now)
  /\ Commit(current.from, current.to, now,
            [payload |-> payload, tomb |-> current.fact.tomb])

(* updateMetadataTemporal: the row follows the corrected revision, and       *)
(* nothing happens when deleted_at is set.                                   *)
CorrectMetadata(now, payload) ==
  LET new   == Revision(current.from, current.to, now, [payload |-> payload, tomb |-> FALSE])
      after == Replaced(current.from, current.to, now) \cup {new}
  IN /\ HasRow /\ ~gone /\ Advances(now)
     /\ IF Disjoint(after)
        THEN revs' = after /\ current' = new /\ UNCHANGED <<gone, refused>>
        ELSE refused' = TRUE /\ UNCHANGED <<revs, current, gone>>

(* UpdateTemporal with an expected state: an update of an active memory, a   *)
(* soft delete of an active one, a restore of a deleted one.                 *)
Update(now, payload) ==
  /\ HasRow /\ ~Tombstone /\ Advances(now)
  /\ Commit(now, Forever, now, [payload |-> payload, tomb |-> FALSE])

SoftDelete(now) ==
  /\ HasRow /\ ~Tombstone /\ Advances(now)
  /\ Commit(now, Forever, now, [current.fact EXCEPT !.tomb = TRUE])

Restore(now) ==
  /\ Tombstone /\ Advances(now)
  /\ Commit(now, Forever, now, [current.fact EXCEPT !.tomb = FALSE])

(* deleted_at set by SQL outside the ledger, and the undo of such a delete.  *)
RawDelete ==
  /\ HasRow /\ ~gone
  /\ gone' = TRUE /\ UNCHANGED <<revs, current, refused>>

UndoUntrackedDelete ==
  /\ HasRow /\ gone /\ ~Tombstone
  /\ gone' = FALSE /\ UNCHANGED <<revs, current, refused>>

(* A hard delete removes the row and its ledger.                             *)
HardDelete ==
  /\ HasRow
  /\ revs' = {} /\ current' = None /\ gone' = FALSE /\ UNCHANGED refused

Next ==
  \/ \E now \in Times :
       \/ \E from \in Times, to \in Ends, fact \in Facts : Save(from, to, now, fact)
       \/ \E p \in Payloads : Correct(now, p) \/ CorrectMetadata(now, p) \/ Update(now, p)
       \/ SoftDelete(now) \/ Restore(now)
  \/ RawDelete \/ UndoUntrackedDelete \/ HardDelete

Spec == Init /\ [][Next]_vars

-----------------------------------------------------------------------------
(* Compact's sweep of redundant revisions: one that repeats the payload of   *)
(* an earlier one, is not the current one and is not named by an undelivered *)
(* outbox item (kept stands for those).                                      *)
Redundant ==
  {r \in revs : r # current /\ \E q \in revs : /\ q.fact.payload = r.fact.payload
                                                /\ q.sysFrom < r.sysFrom}

Compact ==
  /\ \E kept \in SUBSET Redundant : revs' = revs \ (Redundant \ kept)
  /\ UNCHANGED <<current, gone, refused>>

CompactSpec == Init /\ [][Next \/ Compact]_vars

-----------------------------------------------------------------------------
(* RevisionAt with both axes given (tombstones included): what the ledger    *)
(* answers for the instant v as known at k.                                  *)
Covers(r, v, k) == r.from <= v /\ v < r.to /\ r.sysFrom <= k /\ k < r.sysTo
AnswerIn(S, v, k) ==
  IF \E r \in S : Covers(r, v, k)
  THEN (CHOOSE r \in S : Covers(r, v, k)).fact
  ELSE None
Answer(v, k) == AnswerIn(revs, v, k)

(* The abstract view: the answers, and the time of the last write.           *)
Answers == [v \in Times |-> [k \in Times |-> Answer(v, k)]]
LastWrite ==
  IF revs = {} THEN 0
  ELSE CHOOSE t \in {r.sysFrom : r \in revs} : \A r \in revs : r.sysFrom <= t

History == INSTANCE BitemporalHistory WITH known <- Answers, last <- LastWrite,
                                           Nothing <- None

-----------------------------------------------------------------------------
(* Every variable has its type, no interval is empty (the CHECK constraints  *)
(* of the table) and there is a row exactly while there are revisions.       *)
TypeOK ==
  /\ revs \subseteq Revisions
  /\ \A r \in revs : r.from < r.to /\ r.sysFrom < r.sysTo
  /\ current \in Revisions \cup {None}
  /\ HasRow <=> revs # {}
  /\ gone \in BOOLEAN /\ refused \in BOOLEAN

(* The overlap check at the end of every write never rolls a legal write     *)
(* back: closing, cloning and the system clock always leave a ledger with at *)
(* most one revision for each pair of instants.                              *)
NeverRefused == ~refused

(* The compatibility row shows what the ledger says: the revision it names   *)
(* is stored and open, it is the one in force at every instant from the last *)
(* write on (no revision becomes current merely because time passes), and a  *)
(* tombstone hides the memory.                                               *)
CurrentViewIsLedger ==
  HasRow =>
    /\ current \in revs /\ Open(current)
    /\ \A t \in Times : Advances(t) => ValidAt(revs, t) \subseteq {current}
    /\ current.fact.tomb => gone

(* The ledger keeps what BitemporalHistory promises: a write changes what is *)
(* known from then on about its own interval, and every earlier answer and   *)
(* every other interval stays as it was.                                     *)
KeepsHistory == History!Spec

(* What Compact's comment says of its sweep: the revisions it removes record *)
(* nothing, so no answer changes.                                            *)
CompactIsLossless ==
  [][Compact => \A v, k \in Times : Answer(v, k)' = Answer(v, k)]_vars
=============================================================================
