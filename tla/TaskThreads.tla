------------------------------ MODULE TaskThreads ------------------------------
(***************************************************************************)
(* Sessions, task threads and working sets (pkg/session), and the callers    *)
(* that change them: the MCP tool, the CLI and the dashboard.  A call runs   *)
(* its statements one at a time; an upsert is one immediate transaction.     *)
(*                                                                         *)
(* A call is the key or session it works on, the delta it carries and the    *)
(* statements it has still to run.  `closed` says that the last status the     *)
(* thread got before the call's upsert closed it, and that another call, or   *)
(* one before it, set it.  Journals keep fewer notes than their cap.          *)
(***************************************************************************)
EXTENDS Integers, Sequences, FiniteSets

CONSTANTS Keys, Notes, Sessions, Topics, Callers,
          MaxCalls \* bound: calls started

VARIABLES thread, link, session, focus, summaries, call, calls
vars == <<thread, link, session, focus, summaries, call, calls>>

Terminal == {"done", "cancelled"}
Settable == Terminal \cup {"active", "paused"} \* SetTaskStatus: not "backlog"
Absent   == [status |-> "absent", journal |-> {}, sessions |-> {}]
NoCall   == [todo |-> <<>>, key |-> "none", notes |-> {}, sessions |-> {}, keep |-> TRUE,
             to |-> "none", read |-> {}, topic |-> "none", closed |-> FALSE]
Exists(k) == thread[k].status # "absent"

Init ==
  /\ thread = [k \in Keys |-> Absent]
  /\ link = [s \in Sessions |-> "none"]
  /\ session = [s \in Sessions |-> "none"]
  /\ focus = [s \in Sessions |-> [topic |-> "none", items |-> {}]]
  /\ summaries = {}
  /\ call = [p \in Callers |-> NoCall] /\ calls = 0

Begin(p, c) ==
  /\ call[p].todo = <<>> /\ calls < MaxCalls
  /\ call' = [call EXCEPT ![p] = c] /\ calls' = calls + 1
  /\ UNCHANGED <<thread, link, session, focus, summaries>>

Delta(k, note, s, keep, todo) ==
  [NoCall EXCEPT !.key = k, !.notes = note, !.sessions = s, !.keep = keep, !.todo = todo]
Optional(S) == {{}} \cup {{x} : x \in S}

-----------------------------------------------------------------------------
(* anchored_task start and note, dashboard create, `task note`: one upsert.  *)
StartTask(p, k) == \E n \in Optional(Notes), s \in Optional(Sessions) :
  Begin(p, Delta(k, n, s, FALSE, <<"upsert">>))
NoteTask(p, k) == \E n \in Notes, s \in Optional(Sessions) :
  Begin(p, Delta(k, {n}, s, TRUE, <<"upsert">>))

(* `task start` reopens a thread that it finds closed.                       *)
StartFromShell(p, k) ==
  Begin(p, [Delta(k, {}, {}, FALSE,
    IF thread[k].status \in Terminal THEN <<"status", "upsert">> ELSE <<"upsert">>)
      EXCEPT !.to = "active"])

(* Mutant: the status always goes first.                                     *)
StatusFirst(to) == <<"status", "upsert">>

(* UpdateTaskThread, behind the callers' existence check: a reopening status *)
(* goes before the delta, a closing one after it.                            *)
UpdateOrder(to) == IF to \in Terminal THEN <<"upsert", "status">> ELSE <<"status", "upsert">>

UpdateTask(p, k) == \E n \in Notes, to \in Settable :
  /\ Exists(k)
  /\ Begin(p, [Delta(k, {n}, {}, TRUE, UpdateOrder(to)) EXCEPT !.to = to,
        !.closed = thread[k].status \in Terminal])

SetStatus(p, k) == \E to \in Settable :
  Begin(p, [Delta(k, {}, {}, TRUE, <<"status">>) EXCEPT !.to = to])

(* `task done` reads the thread, saves its summary, then closes it.          *)
FinishTask(p, k) ==
  /\ Exists(k)
  /\ Begin(p, [Delta(k, {}, {}, TRUE, <<"save", "status">>)
                EXCEPT !.to = "done", !.read = thread[k].journal])

(* LinkTask and PromoteTaskFromSession.                                      *)
LinkTask(p, s, k) ==
  Exists(k) /\ Begin(p, Delta(k, {}, {s}, TRUE, <<"link", "upsert">>))
PromoteTask(p, s, k) == \E n \in Optional(Notes) :
  Begin(p, Delta(k, n, {s}, FALSE, <<"upsert", "link", "attach">>))

-----------------------------------------------------------------------------
Running(p, what) == call[p].todo # <<>> /\ Head(call[p].todo) = what
Advance(p) ==
  call' = [call EXCEPT ![p] = IF Len(@.todo) = 1 THEN NoCall ELSE [@ EXCEPT !.todo = Tail(call[p].todo)]]
Merges(c) == \E n \in DOMAIN c.todo : c.todo[n] = "upsert" \* still to come
Abort(p) == call' = [call EXCEPT ![p] = NoCall]

(* UpsertTaskThread: created active on first touch, frozen when terminal,    *)
(* reactivated when a paused one is worked on.                               *)
Upsert(p) ==
  LET c == call[p]
      t == thread[c.key] IN
  /\ Running(p, "upsert") \/ Running(p, "attach")
  /\ thread' = [thread EXCEPT ![c.key] =
       IF t.status \in Terminal THEN t
       ELSE [status |-> IF t.status = "absent" THEN "active"
                        ELSE IF ~c.keep /\ t.status = "paused" /\ c.sessions # {} THEN "active"
                        ELSE t.status,
             journal |-> t.journal \cup c.notes, sessions |-> t.sessions \cup c.sessions]]
  /\ Advance(p)
  /\ UNCHANGED <<link, session, focus, summaries, calls>>

(* SetTaskStatus: an absent thread is an error and ends the call.            *)
ApplyStatus(p) ==
  LET c == call[p] IN
  /\ Running(p, "status")
  /\ IF Exists(c.key)
     THEN /\ thread' = [thread EXCEPT ![c.key].status = c.to]
          /\ call' = [q \in Callers |->
               IF q = p THEN IF Len(c.todo) = 1 THEN NoCall
                             ELSE [c EXCEPT !.todo = Tail(@), !.closed = FALSE]
               ELSE IF call[q].key = c.key /\ Merges(call[q])
                    THEN [call[q] EXCEPT !.closed = c.to \in Terminal]
               ELSE call[q]]
     ELSE Abort(p) /\ UNCHANGED thread
  /\ UNCHANGED <<link, session, focus, summaries, calls>>

SaveSummary(p) ==
  /\ Running(p, "save")
  /\ summaries' = summaries \cup {<<call[p].key, call[p].read>>}
  /\ Advance(p)
  /\ UNCHANGED <<thread, link, session, focus, calls>>

InsertLink(p) ==
  /\ Running(p, "link")
  /\ link' = [s \in Sessions |-> IF s \in call[p].sessions THEN call[p].key ELSE link[s]]
  /\ Advance(p)
  /\ UNCHANGED <<thread, session, focus, summaries, calls>>

UnlinkTask(s) ==
  /\ link[s] # "none" /\ link' = [link EXCEPT ![s] = "none"]
  /\ UNCHANGED <<thread, session, focus, summaries, call, calls>>

(* AppendSessionJournal: a note for whatever task the session is linked to.  *)
AppendSessionJournal(p, s) == \E n \in Notes :
  link[s] # "none" /\ Begin(p, Delta(link[s], {n}, {}, TRUE, <<"upsert">>))

-----------------------------------------------------------------------------
(* StartSession resumes a live session or inserts one; EndSession and        *)
(* EndStaleSessions end it.                                                  *)
StartSession(s) ==
  /\ session[s] # "live" /\ session' = [session EXCEPT ![s] = "live"]
  /\ UNCHANGED <<thread, link, focus, summaries, call, calls>>
EndSession(s) ==
  /\ session[s] = "live" /\ session' = [session EXCEPT ![s] = "ended"]
  /\ UNCHANGED <<thread, link, focus, summaries, call, calls>>

(* UpdateWorkingSet reads, resets on a change of topic, merges, writes.      *)
FocusRead(p, s, t) ==
  Begin(p, [Delta("none", {}, {s}, TRUE, <<"focus">>) EXCEPT !.topic = t,
    !.read = IF focus[s].topic \in {"none", t} THEN focus[s].items ELSE {}])
FocusWrite(p) ==
  /\ Running(p, "focus")
  /\ focus' = [s \in Sessions |-> IF s \notin call[p].sessions THEN focus[s]
       ELSE [topic |-> call[p].topic, items |-> call[p].read \cup {call[p].topic}]]
  /\ Advance(p)
  /\ UNCHANGED <<thread, link, session, summaries, calls>>

Next ==
  \/ \E p \in Callers, k \in Keys :
       \/ StartTask(p, k) \/ NoteTask(p, k) \/ StartFromShell(p, k) \/ UpdateTask(p, k)
       \/ SetStatus(p, k) \/ FinishTask(p, k)
       \/ \E s \in Sessions : LinkTask(p, s, k) \/ PromoteTask(p, s, k)
  \/ \E p \in Callers : Upsert(p) \/ ApplyStatus(p) \/ SaveSummary(p) \/ InsertLink(p) \/ FocusWrite(p)
  \/ \E p \in Callers, s \in Sessions :
       AppendSessionJournal(p, s) \/ \E t \in Topics : FocusRead(p, s, t)
  \/ \E s \in Sessions : UnlinkTask(s) \/ StartSession(s) \/ EndSession(s)

Spec == Init /\ [][Next]_vars

-----------------------------------------------------------------------------
TypeOK ==
  /\ thread \in [Keys -> [status : Settable \cup {"absent"}, journal : SUBSET Notes,
                          sessions : SUBSET Sessions]]
  /\ link \in [Sessions -> Keys \cup {"none"}]
  /\ session \in [Sessions -> {"none", "live", "ended"}]
  /\ focus \in [Sessions -> [topic : Topics \cup {"none"}, items : SUBSET Topics]]
  /\ summaries \subseteq Keys \X SUBSET Notes
  /\ calls \in 0 .. MaxCalls

(* A note given with a change of status is in the journal when the call ends, *)
(* whether it closes the thread or reopens it, whatever the other calls do,    *)
(* unless the last of them to set the status before the note was merged had    *)
(* closed the thread: the order of statements in UpdateTaskThread             *)
(* (taskthread.go 232-244), which no transaction holds together.              *)
NotesLand ==
  [][\A p \in Callers :
       /\ call[p] # NoCall /\ call'[p] = NoCall
       /\ call[p].to # "none" /\ ~call[p].closed
       => call[p].notes \subseteq thread'[call[p].key].journal]_vars
================================================================================
