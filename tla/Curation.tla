------------------------------- MODULE Curation -------------------------------
(***************************************************************************)
(* The quality lifecycle in a memory's metadata (cmd/anchored curation*.go,   *)
(* retention.go; pkg/memory/quality.go).  Every serve process runs a worker    *)
(* that reads a page of memories, works out new metadata and writes it back    *)
(* whole, one row at a time; operators reconcile, clean and sweep meanwhile,   *)
(* and the hooks count injections and uses in the same column.                 *)
(*                                                                         *)
(* The text decides the score.                                              *)
(***************************************************************************)
EXTENDS Integers, FiniteSets, FiniteSetsExt

CONSTANTS Mems, Workers, Operators,
          Low,      \* the memories whose text scores below the threshold
          Pinned, PastTime, \* the memories retention looks at first
          PageSize, \* page of runCurationMetadataPass
          MaxUpdates, \* max_updates_per_run
          Floor,    \* NeverUsedInjectionFloor
          MaxFails  \* bound on failed statements

VARIABLES mem, reconciled, due, pass, sweep, fails
vars == <<mem, reconciled, due, pass, sweep, fails>>

Missing == 0
Old == 2
Current == 3 \* QualityScorerVersion
Unlimited == 1000 \* curationBootstrapMax

Meta == [ver : {Missing, Old, Current}, flag : {"", "quality", "never", "consolidated"},
         injected : 0..Floor, used : 0..1, pinned : BOOLEAN]
Idle == [pc |-> "idle"]
Down == [pc |-> "down"]

Init ==
  /\ mem = [m \in Mems |-> [live |-> TRUE, meta |->
             [ver |-> IF m \in PastTime THEN Old ELSE Missing, flag |-> "", injected |-> Floor, used |-> 0, pinned |-> m \in Pinned]]]
  /\ reconciled = Old /\ due = TRUE /\ fails = 0
  /\ pass = [w \in Workers |-> Down]
  /\ sweep = [o \in Operators |-> Idle]

Live == {m \in Mems : mem[m].live}

-----------------------------------------------------------------------------
(* RecurateMetadata: the count from before the used-signal is forgotten, the  *)
(* version stamped, and the flag set, kept or lifted.                         *)
Fresh(x) == IF x.ver < Current /\ x.used = 0 THEN [x EXCEPT !.injected = 0, !.ver = Current]
            ELSE [x EXCEPT !.ver = Current]
Flag(x, low) ==
  CASE low /\ ~x.pinned -> "quality"
    [] x.injected >= Floor /\ x.used = 0 /\ ~x.pinned -> "never"
    [] x.flag # "consolidated" -> ""
    [] OTHER -> x.flag
Recurate(r) == [Fresh(r.meta) EXCEPT !.flag = Flag(Fresh(r.meta), r.id \in Low)]

(* UpdateMetadata: the column is replaced; a memory deleted since is skipped.  *)
UpdateMetadata(m, x) == mem' = [mem EXCEPT ![m].meta = IF mem[m].live THEN x ELSE @]

-----------------------------------------------------------------------------
(* runCurationWorker: a full drain once for every scorer version, then a pass *)
(* whenever the interval has gone by.                                         *)
At(w, pc) == pass[w].pc = pc
List(boot, left) == [pc |-> "list", boot |-> boot, left |-> left]

Bootstrap(w) ==
  /\ At(w, "down")
  /\ pass' = [pass EXCEPT ![w] = IF reconciled >= Current THEN Idle ELSE List(TRUE, Unlimited)]
  /\ UNCHANGED <<mem, reconciled, due, sweep, fails>>

TryRun(w) ==
  /\ At(w, "idle") /\ due
  /\ pass' = [pass EXCEPT ![w] = List(FALSE, MaxUpdates)]
  /\ UNCHANGED <<mem, reconciled, due, sweep, fails>>

(* Only the memories never scored: an older version is not looked at.         *)
NeverScored == {m \in Live : mem[m].meta.ver = Missing}

(* listRecentCurationCandidates                                              *)
Candidates == {m \in Live : mem[m].meta.ver < Current}

Rows(ms) == {[id |-> m, meta |-> mem[m].meta] : m \in ms}

ListPage(w) ==
  /\ At(w, "list")
  /\ \E page \in kSubset(Min({PageSize, Cardinality(Candidates)}), Candidates) :
       pass' = [pass EXCEPT ![w] = [pc |-> "page", boot |-> @.boot, left |-> @.left,
                                    page |-> Rows(page), full |-> Cardinality(page) = PageSize]]
  /\ UNCHANGED <<mem, reconciled, due, sweep, fails>>

(* One row of the page.  The metadata written was worked out from the page.    *)
CurateRow(w) ==
  /\ At(w, "page")
  /\ \E r \in pass[w].page :
       LET x == Recurate(r) IN
       /\ UpdateMetadata(r.id, x)
       /\ pass' = [pass EXCEPT ![w] =
            IF x # r.meta /\ pass[w].left = 1 THEN [pc |-> "end", boot |-> pass[w].boot]
            ELSE [pass[w] EXCEPT !.page = @ \ {r}, !.left = IF x = r.meta THEN @ ELSE @ - 1]]
  /\ UNCHANGED <<reconciled, due, sweep, fails>>

EndPage(w) ==
  /\ At(w, "page") /\ pass[w].page = {}
  /\ pass' = [pass EXCEPT ![w] = IF pass[w].full THEN List(pass[w].boot, pass[w].left)
                                 ELSE [pc |-> "end", boot |-> pass[w].boot]]
  /\ UNCHANGED <<mem, reconciled, due, sweep, fails>>

(* setCurationReconciledVersion or setCurationLastRun                        *)
Record(w) ==
  /\ At(w, "end")
  /\ IF pass[w].boot THEN reconciled' = Current /\ UNCHANGED due
     ELSE due' = FALSE /\ UNCHANGED reconciled
  /\ pass' = [pass EXCEPT ![w] = Idle]
  /\ UNCHANGED <<mem, sweep, fails>>

(* A statement fails or the pass runs out of its minutes: nothing is recorded. *)
FailPass(w) ==
  /\ pass[w].pc \in {"list", "page", "end"} /\ fails < MaxFails
  /\ fails' = fails + 1
  /\ pass' = [pass EXCEPT ![w] = Idle]
  /\ UNCHANGED <<mem, reconciled, due, sweep>>

(* The session ends, and with it its serve process; the next one starts over.  *)
Exit(w) ==
  /\ pass[w].pc # "down" /\ fails < MaxFails
  /\ fails' = fails + 1
  /\ pass' = [pass EXCEPT ![w] = Down]
  /\ UNCHANGED <<mem, reconciled, due, sweep>>

(* curationDue: the interval goes by since last_run_at.                       *)
IntervalPasses == ~due /\ due' = TRUE /\ UNCHANGED <<mem, reconciled, pass, sweep, fails>>

-----------------------------------------------------------------------------
(* curation reconcile and curation score --apply: every live memory, whatever *)
(* its version, and a row that cannot be written is passed over.              *)
ListAllLocal(o, record) ==
  /\ sweep[o] = Idle
  /\ sweep' = [sweep EXCEPT ![o] = [pc |-> "curate", rows |-> Rows(Live), record |-> record]]
  /\ UNCHANGED <<mem, reconciled, due, pass, fails>>

ReconcileRow(o) ==
  /\ sweep[o].pc = "curate"
  /\ \E r \in sweep[o].rows :
       /\ sweep' = [sweep EXCEPT ![o].rows = @ \ {r}]
       /\ \/ /\ Recurate(r) # r.meta
             /\ UpdateMetadata(r.id, Recurate(r)) /\ UNCHANGED fails
          \/ Recurate(r) = r.meta /\ UNCHANGED <<mem, fails>>
          \/ fails < MaxFails /\ fails' = fails + 1 /\ UNCHANGED mem
  /\ UNCHANGED <<reconciled, due, pass>>

EndReconcile(o) ==
  /\ sweep[o].pc = "curate" /\ sweep[o].rows = {}
  /\ reconciled' = IF sweep[o].record THEN Current ELSE reconciled
  /\ sweep' = [sweep EXCEPT ![o] = Idle]
  /\ UNCHANGED <<mem, due, pass, fails>>

(* curation clean: one statement, soft or hard.                              *)
Clean ==
  /\ mem' = [m \in Mems |-> IF ~mem[m].meta.pinned /\ (mem[m].meta.flag # "" \/ m \in Low)
                            THEN [mem[m] EXCEPT !.live = FALSE] ELSE mem[m]]
  /\ UNCHANGED <<reconciled, due, pass, sweep, fails>>

(* retention sweep: the memories past their time are listed, and then          *)
(* forgotten one by one, whatever happened to them meanwhile.                  *)
ListPastTime(o) ==
  /\ sweep[o] = Idle
  /\ sweep' = [sweep EXCEPT ![o] =
       [pc |-> "archive", ids |-> {m \in Live : ~mem[m].meta.pinned /\ m \in PastTime}]]
  /\ UNCHANGED <<mem, reconciled, due, pass, fails>>

Archive(o) ==
  /\ sweep[o].pc = "archive"
  /\ IF sweep[o].ids = {} THEN sweep' = [sweep EXCEPT ![o] = Idle] /\ UNCHANGED mem
     ELSE \E m \in sweep[o].ids : /\ mem' = [mem EXCEPT ![m].live = FALSE]
                                  /\ sweep' = [sweep EXCEPT ![o].ids = @ \ {m}]
  /\ UNCHANGED <<reconciled, due, pass, fails>>

-----------------------------------------------------------------------------
(* The hooks: json_set on the one field.                                     *)
TrackInjected(m) ==
  /\ mem[m].live /\ mem[m].meta.injected < Floor
  /\ mem' = [mem EXCEPT ![m].meta.injected = @ + 1]
  /\ UNCHANGED <<reconciled, due, pass, sweep, fails>>

MarkUsed(m) ==
  /\ mem[m].live /\ mem[m].meta.used = 0
  /\ mem' = [mem EXCEPT ![m].meta.used = 1]
  /\ UNCHANGED <<reconciled, due, pass, sweep, fails>>

WorkerStep(w) == Bootstrap(w) \/ TryRun(w) \/ ListPage(w) \/ CurateRow(w) \/ EndPage(w) \/ Record(w)
Next ==
  \/ \E w \in Workers : WorkerStep(w) \/ FailPass(w) \/ Exit(w)
  \/ IntervalPasses \/ Clean
  \/ \E o \in Operators : \/ \E record \in BOOLEAN : ListAllLocal(o, record)
                          \/ ReconcileRow(o) \/ EndReconcile(o) \/ ListPastTime(o) \/ Archive(o)
  \/ \E m \in Mems : TrackInjected(m) \/ MarkUsed(m)
Fairness == (\A w \in Workers : WF_vars(WorkerStep(w))) /\ WF_vars(IntervalPasses)
Spec == Init /\ [][Next]_vars /\ Fairness

-----------------------------------------------------------------------------
TypeOK ==
  /\ \A m \in Mems : mem[m].live \in BOOLEAN /\ mem[m].meta \in Meta
  /\ reconciled \in {Old, Current} /\ due \in BOOLEAN /\ fails \in 0..MaxFails
  /\ \A w \in Workers : pass[w].pc \in {"down", "idle", "list", "page", "end"}

(* Every memory is scored by the current scorer in the end, although a drain  *)
(* that stopped half-way, a reconcile that passed rows over and a page that   *)
(* went stale all count as done (curation_worker.go:115, curation.go:207).    *)
StaleIsRescored ==
  \A m \in Mems : (mem[m].live /\ mem[m].meta.ver < Current)
                    ~> (mem[m].live => mem[m].meta.ver = Current)
================================================================================
