------------------------------- MODULE HookMemory -------------------------------
(***************************************************************************)
(* What the hooks of the agents write to memory (hook_userpromptsubmit.go,   *)
(* hook_stop.go, hook_precompact.go, hook_posttooluse.go and the bootstrap of *)
(* hook_sessionstart.go).  Every hook is a short process; the turn hooks of   *)
(* a session (recall, stop, compaction) follow each other, its tool hooks and *)
(* the other sessions run meanwhile.  A process may be killed at any step.    *)
(*                                                                         *)
(* Rows are memories of one project in creation order, each with its base     *)
(* revision.  Near-duplicates (Jaccard of 0.7) are equal texts here.  `known`  *)
(* remembers the rows a Stop hook was shown.                                  *)
(***************************************************************************)
EXTENDS Naturals, Sequences, FiniteSets

CONSTANTS Sessions, Texts,
          Limit,    \* preSearchLimit
          MaxSaves, \* stopMaxSaves
          Recent,   \* stopDedupCandidates
          MaxRows,  \* bound: rows
          MaxHooks  \* bound: turn hooks started

VARIABLES
  rows,            \* memories: [text, live, low]
  working,         \* working_sets.memory_ids of a session
  injected, used,  \* rows counted as injected, as used
  turn,            \* the turn hook of a session
  tool,            \* the working set a tool hook of a session read, or NotRead
  seeding,         \* bootstraps on their way
  hooks            \* turn hooks started

feedback == <<working, injected, used>>
vars     == <<rows, feedback, turn, tool, seeding, hooks>>

NotRead == {0}
NoTurn == [pc |-> "idle", hits |-> {}, todo |-> {}, seen |-> {}, saves |-> 0, known |-> {}]
Ids         == DOMAIN rows
Eligible(i) == rows[i].live /\ ~rows[i].low
AtMost(n, S) == {T \in SUBSET S : Cardinality(T) <= n}
Row(t)      == [text |-> t, live |-> TRUE, low |-> FALSE]

Init ==
  /\ rows = <<>>
  /\ working = [s \in Sessions |-> {}] /\ injected = {} /\ used = {}
  /\ turn = [s \in Sessions |-> NoTurn]
  /\ tool = [s \in Sessions |-> NotRead]
  /\ seeding = 0 /\ hooks = 0

At(s, pc)    == turn[s].pc = pc
Step(s, t)   == turn' = [turn EXCEPT ![s] = t]
Goto(s, pc)  == turn' = [turn EXCEPT ![s].pc = pc]
EndTurn(s)   == turn' = [turn EXCEPT ![s] = NoTurn]

-----------------------------------------------------------------------------
(* UserPromptSubmit: keyword hits, then the neighbours of the best one, read  *)
(* from stored vectors that may be behind the rows and filtered like the hits. *)
Bm25TopHits(s) ==
  /\ At(s, "idle") /\ hooks < MaxHooks
  /\ \E hits \in AtMost(Limit, {i \in Ids : Eligible(i)}) :
       /\ hits # {}
       /\ Step(s, [NoTurn EXCEPT !.pc = IF Cardinality(hits) < Limit THEN "expand" ELSE "track",
                                 !.hits = hits])
  /\ hooks' = hooks + 1
  /\ UNCHANGED <<rows, feedback, tool, seeding>>

VectorExpandHits(s) ==
  /\ At(s, "expand")
  /\ \E near \in AtMost(1, {i \in Ids : Eligible(i)}) :
       Step(s, [turn[s] EXCEPT !.pc = "track", !.hits = @ \cup near])
  /\ UNCHANGED <<rows, feedback, tool, seeding, hooks>>

(* recordInjection, cut short by its budget: the working set is read and      *)
(* written, then the rows are counted.  The preview may show fewer.           *)
TrackRead(s) ==
  /\ At(s, "track")
  /\ Step(s, [turn[s] EXCEPT !.pc = "merge", !.seen = working[s]])
  /\ UNCHANGED <<rows, feedback, tool, seeding, hooks>>

TrackMerge(s) ==
  /\ At(s, "merge")
  /\ working' = [working EXCEPT ![s] = turn[s].seen \cup turn[s].hits]
  /\ Goto(s, "count")
  /\ UNCHANGED <<rows, injected, used, tool, seeding, hooks>>

TrackCount(s) ==
  /\ At(s, "count")
  /\ injected' = injected \cup turn[s].hits
  /\ EndTurn(s)
  /\ UNCHANGED <<rows, working, used, tool, seeding, hooks>>

(* PostToolUse merges the files of a call into the same record.               *)
ToolRead(s) ==
  /\ tool[s] = NotRead /\ tool' = [tool EXCEPT ![s] = working[s]]
  /\ UNCHANGED <<rows, feedback, turn, seeding, hooks>>

ToolWrite(s) ==
  /\ tool[s] # NotRead
  /\ working' = [working EXCEPT ![s] = tool[s]]
  /\ tool' = [tool EXCEPT ![s] = NotRead]
  /\ UNCHANGED <<rows, injected, used, turn, seeding, hooks>>

-----------------------------------------------------------------------------
(* What the patterns find worth keeping in the turn.                          *)
DurableCandidates == SUBSET Texts

(* Stop: mark what the turn used, load what is already known, save the        *)
(* candidates of the turn that are not.                                      *)
MarkUsedMemories(s) ==
  /\ At(s, "idle") /\ hooks < MaxHooks
  /\ \E drawn \in SUBSET {i \in working[s] : rows[i].live}, todo \in DurableCandidates :
       /\ used' = used \cup drawn
       /\ drawn # {} \/ todo # {}
       /\ Step(s, [NoTurn EXCEPT !.pc = IF todo = {} THEN "idle" ELSE "load", !.todo = todo])
  /\ hooks' = hooks + 1
  /\ UNCHANGED <<rows, working, injected, tool, seeding>>

RecentIds ==
  LET live == {i \in Ids : rows[i].live} IN
  {i \in live : Cardinality({j \in live : j > i}) < Recent}

(* Mutant: a list that broke off half way is used as it is.                   *)
LoadPartial(s) ==
  /\ At(s, "load")
  /\ \E got \in SUBSET RecentIds :
       Step(s, [turn[s] EXCEPT !.pc = "save", !.seen = {rows[i].text : i \in got}, !.known = RecentIds])
  /\ UNCHANGED <<rows, feedback, tool, seeding, hooks>>

LoadRecent(s) ==
  /\ At(s, "load")
  /\ \/ Step(s, [turn[s] EXCEPT !.pc = "save", !.known = RecentIds,
                  !.seen = {rows[i].text : i \in RecentIds}])
     \/ EndTurn(s) \* it could not be loaded completely: nothing is saved
  /\ UNCHANGED <<rows, feedback, tool, seeding, hooks>>

SkipDuplicate(s, t) ==
  /\ At(s, "save") /\ t \in turn[s].todo /\ t \in turn[s].seen
  /\ Step(s, [turn[s] EXCEPT !.todo = @ \ {t}])
  /\ UNCHANGED <<rows, feedback, tool, seeding, hooks>>

(* saveMemoryLightweight: the row and its base revision in one transaction,   *)
(* which may fail.                                                           *)
SaveMemory(s, t) ==
  /\ At(s, "save") /\ t \in turn[s].todo \ turn[s].seen
  /\ turn[s].saves < MaxSaves /\ Len(rows) < MaxRows
  /\ \/ /\ rows' = Append(rows, Row(t))
        /\ Step(s, [turn[s] EXCEPT !.todo = @ \ {t}, !.seen = @ \cup {t}, !.saves = @ + 1])
     \/ Step(s, [turn[s] EXCEPT !.todo = @ \ {t}]) /\ UNCHANGED rows
  /\ UNCHANGED <<feedback, tool, seeding, hooks>>

(* Done, out of saves, past the deadline, or killed.                          *)
EndHook(s) ==
  /\ ~At(s, "idle")
  /\ EndTurn(s)
  /\ UNCHANGED <<rows, feedback, tool, seeding, hooks>>

-----------------------------------------------------------------------------
(* PreCompact saves its snapshot through the service, which revises a row      *)
(* that already says it.                                                     *)
PreCompact(s, t) ==
  /\ At(s, "idle") /\ hooks < MaxHooks /\ Len(rows) < MaxRows
  /\ \A i \in Ids : rows[i].live => rows[i].text # t
  /\ rows' = Append(rows, Row(t))
  /\ hooks' = hooks + 1
  /\ UNCHANGED <<feedback, turn, tool, seeding>>

(* maybeAutoBootstrap sees no memory and starts a child, which saves its own. *)
AutoBootstrap ==
  /\ \A i \in Ids : ~rows[i].live
  /\ seeding < Cardinality(Sessions)
  /\ seeding' = seeding + 1
  /\ UNCHANGED <<rows, feedback, turn, tool, hooks>>

Seed(t) ==
  /\ seeding > 0 /\ Len(rows) < MaxRows
  /\ rows' = IF \E i \in Ids : rows[i].live /\ rows[i].text = t THEN rows ELSE Append(rows, Row(t))
  /\ seeding' = seeding - 1
  /\ UNCHANGED <<feedback, turn, tool, hooks>>

(* Other processes forget a memory or mark it low_signal.                     *)
Forget(i) ==
  /\ i \in Ids /\ rows[i].live
  /\ rows' = [rows EXCEPT ![i].live = FALSE]
  /\ UNCHANGED <<feedback, turn, tool, seeding, hooks>>

Demote(i) ==
  /\ i \in Ids /\ Eligible(i)
  /\ rows' = [rows EXCEPT ![i].low = TRUE]
  /\ UNCHANGED <<feedback, turn, tool, seeding, hooks>>

Next ==
  \/ \E s \in Sessions :
       \/ Bm25TopHits(s) \/ VectorExpandHits(s) \/ TrackRead(s) \/ TrackMerge(s) \/ TrackCount(s)
       \/ ToolRead(s) \/ ToolWrite(s) \/ MarkUsedMemories(s) \/ LoadRecent(s) \/ EndHook(s)
       \/ \E t \in Texts : SkipDuplicate(s, t) \/ SaveMemory(s, t) \/ PreCompact(s, t)
  \/ AutoBootstrap \/ \E t \in Texts : Seed(t)
  \/ \E i \in 1 .. MaxRows : Forget(i) \/ Demote(i)

Spec == Init /\ [][Next]_vars

-----------------------------------------------------------------------------
TypeOK ==
  /\ rows \in Seq([text : Texts, live : BOOLEAN, low : BOOLEAN]) /\ Len(rows) <= MaxRows
  /\ working \in [Sessions -> SUBSET Ids] /\ injected \subseteq Ids /\ used \subseteq Ids
  /\ \A s \in Sessions : turn[s].pc \in {"idle", "expand", "track", "merge", "count", "load", "save"}
  /\ tool \in [Sessions -> SUBSET (0 .. MaxRows)] 
  /\ seeding \in 0 .. Cardinality(Sessions) /\ hooks \in 0 .. MaxHooks

(* A Stop hook repeats no memory that was recent when it looked, whatever read  *)
(* failed: a second row for a text is the work of a process that ran meanwhile, *)
(* or the first one was beyond the window (hook_stop.go 157-164).               *)
StopRepeatsNothing ==
  [][\A s \in Sessions : turn'[s].saves > turn[s].saves =>
       \A i \in turn[s].known : rows[i].live => rows[i].text # rows'[Len(rows')].text]_vars
================================================================================
