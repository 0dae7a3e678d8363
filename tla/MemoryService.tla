----------------------------- MODULE MemoryService -----------------------------
(***************************************************************************)
(* What a caller of the memory service sees when several processes write at *)
(* once (service.go, sqlite_store.go).  A save looks for a duplicate, an     *)
(* update reads the memory, and only then is the transaction of the write    *)
(* opened; the backfills read rows and stamp them in a later transaction.    *)
(*                                                                         *)
(* A text is <<its normal form, a variant of case and spacing>>.  A stamp is *)
(* the value of content_hash or normalized_hash: 0 when the row was written  *)
(* before the column existed.  Categories, keywords and projects are data.   *)
(*                                                                         *)
(* A row is deleted twice over: by deleted_at, which readers look at, and by  *)
(* a tombstone of the ledger, which the conditional writes look at.  It is    *)
(* "dead" when it has both, and "raw" when a raw UPDATE set deleted_at alone. *)
(***************************************************************************)
EXTENDS Integers

CONSTANTS Mems,     \* identities
          Texts,    \* texts, each <<normal form, variant>>
          Callers,  \* processes
          MaxWrites \* bound: transactions of saves, updates and operators

VARIABLES row, call, backfill, writes
vars == <<row, call, backfill, writes>>

None    == [is |-> "none", text |-> <<0, 0>>, hash |-> <<0, 0>>, norm |-> 0, mark |-> FALSE]
Idle    == [pc |-> "idle", text |-> <<0, 0>>, found |-> {}, seen |-> None]
Unstamped == <<0, 0>>
Live(m) == row[m].is = "live"
Active(m) == row[m].is \in {"live", "raw"} \* its current revision is no tombstone
Stored(m) == row[m].is \in {"live", "raw", "dead"}

(* upsertCurrentMemoryTx: the one write path derives both stamps.            *)
Written(t, mark) == [is |-> "live", text |-> t, hash |-> t, norm |-> t[1], mark |-> mark]

(* One memory from before the columns, the other identities are unused.      *)
Init ==
  /\ \E old \in Mems, t \in Texts :
       row = [m \in Mems |-> IF m = old
         THEN [is |-> "live", text |-> t, hash |-> Unstamped, norm |-> 0, mark |-> FALSE]
         ELSE None]
  /\ call = [p \in Callers |-> Idle]
  /\ backfill = [pc |-> "idle", read |-> {}]
  /\ writes = 0

Write(m, r) == row' = [row EXCEPT ![m] = r] /\ writes' = writes + 1
Goto(p, c)  == call' = [call EXCEPT ![p] = c]
Return(p)   == Goto(p, Idle)

-----------------------------------------------------------------------------
(* saveWithOptions: FindByContentHash, then findNearDuplicate, each a query  *)
(* of its own for a live memory.                                             *)
FindByContentHash(p, t) ==
  /\ call[p] = Idle /\ writes < MaxWrites
  /\ \/ \E m \in Mems : /\ Live(m) /\ row[m].hash = t
                        /\ Goto(p, [pc |-> "save", text |-> t, found |-> {m}, seen |-> row[m]])
     \/ /\ \A m \in Mems : ~(Live(m) /\ row[m].hash = t)
        /\ Goto(p, [Idle EXCEPT !.pc = "near", !.text = t])
  /\ UNCHANGED <<row, backfill, writes>>

FindNearDuplicate(p) ==
  LET same == {m \in Mems : Live(m) /\ row[m].norm = call[p].text[1]} IN
  /\ call[p].pc = "near"
  /\ \/ \E m \in same : Goto(p, [call[p] EXCEPT !.pc = "save", !.found = {m}, !.seen = row[m]])
     \/ same = {} /\ Goto(p, [call[p] EXCEPT !.pc = "save"])
  /\ UNCHANGED <<row, backfill, writes>>

(* Nothing to persist when the found row already says it.                    *)
SkipSave(p) ==
  /\ call[p].pc = "save" /\ call[p].found # {}
  /\ call[p].seen.text = call[p].text /\ call[p].seen.hash = call[p].text
  /\ Return(p)
  /\ UNCHANGED <<row, backfill, writes>>

(* SaveTemporal on the found identity, whatever became of it, or a new one.  *)
PersistSave(p) ==
  /\ call[p].pc = "save" /\ writes < MaxWrites
  /\ \E m \in Mems :
       /\ IF call[p].found = {} THEN row[m] = None ELSE m \in call[p].found
       /\ Write(m, Written(call[p].text, call[p].seen.mark))
  /\ Return(p)
  /\ UNCHANGED backfill

-----------------------------------------------------------------------------
(* Update reads the live memory; without a new text (a change of category)   *)
(* it writes back the text it read, and always the metadata it read.         *)
UpdateRead(p, m) ==
  /\ call[p] = Idle /\ Live(m) /\ writes < MaxWrites
  /\ \E t \in Texts \cup {row[m].text} :
       Goto(p, [pc |-> "update", text |-> t, found |-> {m}, seen |-> row[m]])
  /\ UNCHANGED <<row, backfill, writes>>

(* Mutant: the memory was live when it was read, so the ledger is not asked.  *)
UpdateUnguarded(p) ==
  /\ call[p].pc = "update" /\ writes < MaxWrites
  /\ \E m \in call[p].found : Write(m, Written(call[p].text, call[p].seen.mark))
  /\ Return(p)
  /\ UNCHANGED backfill

(* UpdateTemporal asks the ledger alone: a tombstone is left, a row that a     *)
(* raw UPDATE deleted meanwhile is written as live.                          *)
UpdateTemporal(p) ==
  /\ call[p].pc = "update" /\ writes < MaxWrites
  /\ \E m \in call[p].found :
       IF Active(m) THEN Write(m, Written(call[p].text, call[p].seen.mark))
                    ELSE UNCHANGED <<row, writes>>
  /\ Return(p)
  /\ UNCHANGED backfill

(* A metadata correction, a soft delete, a restore: one transaction each,    *)
(* conditional on the state it finds: the correction on deleted_at, the other *)
(* two on the ledger.                                                        *)
UpdateMetadata(m) ==
  /\ Live(m) /\ writes < MaxWrites
  /\ Write(m, [row[m] EXCEPT !.mark = ~@])
  /\ UNCHANGED <<call, backfill>>

SoftDeleteIfActive(m) ==
  /\ Active(m) /\ writes < MaxWrites
  /\ Write(m, [Written(row[m].text, row[m].mark) EXCEPT !.is = "dead"])
  /\ UNCHANGED <<call, backfill>>

Restore(m) ==
  /\ row[m].is = "dead" /\ writes < MaxWrites
  /\ Write(m, Written(row[m].text, row[m].mark))
  /\ UNCHANGED <<call, backfill>>

(* The commands that do not go through the ledger (purge, curation clean,     *)
(* directives rm), and the undo of what they did.                            *)
RawDelete ==
  /\ writes < MaxWrites
  /\ \E ids \in SUBSET {m \in Mems : Live(m)} :
       /\ ids # {}
       /\ row' = [m \in Mems |-> IF m \in ids THEN [row[m] EXCEPT !.is = "raw"] ELSE row[m]]
  /\ writes' = writes + 1
  /\ UNCHANGED <<call, backfill>>

UndoUntrackedDelete(m) ==
  /\ row[m].is = "raw" /\ writes < MaxWrites
  /\ Write(m, [row[m] EXCEPT !.is = "live"])
  /\ UNCHANGED <<call, backfill>>

(* DeleteByScope resolves and deletes in one transaction: live memories are  *)
(* tombstoned, or memories of any state are erased.                          *)
DeleteByScope ==
  /\ writes < MaxWrites
  /\ \E ids \in SUBSET {m \in Mems : Stored(m)}, hard \in BOOLEAN :
       /\ ids # {} /\ (hard \/ \A m \in ids : Live(m))
       /\ row' = [m \in Mems |->
            IF m \notin ids THEN row[m]
            ELSE IF hard THEN [None EXCEPT !.is = "erased"]
            ELSE [Written(row[m].text, row[m].mark) EXCEPT !.is = "dead"]]
  /\ writes' = writes + 1
  /\ UNCHANGED <<call, backfill>>

-----------------------------------------------------------------------------
(* BackfillNormalizedHash and BackfillContentHash: the query, then the       *)
(* updates by id.                                                            *)
BackfillRead ==
  /\ backfill.pc = "idle"
  /\ \E what \in {"norm", "hash"} :
       LET todo == {m \in Mems : Stored(m) /\
                      IF what = "norm" THEN row[m].norm = 0 ELSE row[m].hash = Unstamped} IN
       /\ todo # {}
       /\ backfill' = [pc |-> what, read |-> {<<m, row[m].text>> : m \in todo}]
  /\ UNCHANGED <<row, call, writes>>

BackfillWrite ==
  /\ backfill.pc # "idle"
  /\ row' = [m \in Mems |->
       IF Stored(m) /\ \E t \in Texts : <<m, t>> \in backfill.read
       THEN LET t == CHOOSE t \in Texts : <<m, t>> \in backfill.read
            IN  IF backfill.pc = "norm" THEN [row[m] EXCEPT !.norm = t[1]]
                                        ELSE [row[m] EXCEPT !.hash = t]
       ELSE row[m]]
  /\ backfill' = [pc |-> "idle", read |-> {}]
  /\ UNCHANGED <<call, writes>>

Next ==
  \/ \E p \in Callers :
       \/ \E t \in Texts : FindByContentHash(p, t)
       \/ FindNearDuplicate(p) \/ SkipSave(p) \/ PersistSave(p)
       \/ \E m \in Mems : UpdateRead(p, m)
       \/ UpdateTemporal(p)
  \/ \E m \in Mems : UpdateMetadata(m) \/ SoftDeleteIfActive(m) \/ Restore(m)
                     \/ UndoUntrackedDelete(m)
  \/ RawDelete \/ DeleteByScope \/ BackfillRead \/ BackfillWrite

Spec == Init /\ [][Next]_vars

-----------------------------------------------------------------------------
Rows == [is : {"none", "live", "raw", "dead", "erased"}, text : Texts \cup {Unstamped},
         hash : Texts \cup {Unstamped}, norm : {t[1] : t \in Texts} \cup {0}, mark : BOOLEAN]
TypeOK ==
  /\ row \in [Mems -> Rows] /\ writes \in 0 .. MaxWrites
  /\ call \in [Callers -> [pc : {"idle", "near", "save", "update"}, text : Texts \cup {Unstamped},
                           found : SUBSET Mems, seen : Rows]]
  /\ backfill \in [pc : {"idle", "norm", "hash"}, read : SUBSET (Mems \X Texts)]

(* Call p writes memory m: a save that found it live, or an update.           *)
Ends(p, m, how) == call[p].pc = how /\ m \in call[p].found /\ call'[p] = Idle

(* A memory the ledger holds a tombstone of comes back as it was when it is    *)
(* restored, or when a save that found it live writes its text; an erased one  *)
(* by such a save alone.  An update that read it before does not revive it,    *)
(* nor does a metadata correction or a backfill.  One that was deleted outside *)
(* the ledger (purge.go 60) comes back by an undo, and an update that read it  *)
(* before does revive it (sqlite_temporal.go 243-263).                        *)
ForgottenStays ==
  [][\A m \in Mems : row[m].is \in {"raw", "dead", "erased"} /\ row'[m].is = "live" =>
       \/ /\ UNCHANGED <<call, backfill>>
          /\ \/ row[m].is = "dead" /\ row'[m] = Written(row[m].text, row[m].mark)
             \/ row[m].is = "raw" /\ row'[m] = [row[m] EXCEPT !.is = "live"]
       \/ \E p \in Callers : Ends(p, m, "save")
       \/ row[m].is = "raw" /\ \E p \in Callers : Ends(p, m, "update")]_vars
================================================================================
