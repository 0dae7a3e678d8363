--------------------------------- MODULE Serve ----------------------------------
(***************************************************************************)
(* The life of one MCP server (cmd/anchored/serve.go): the client that      *)
(* started it and the pipe it reads, the loop that answers one request at a  *)
(* time, the watch on the parent, and the shutdown, with the sessions that    *)
(* servers and the hub close when nobody works in them.                      *)
(***************************************************************************)
EXTENDS Naturals

CONSTANTS Sessions,
          ServeIdle, HubIdle \* ages at which a server, the hub end a session

VARIABLES
  pc,        \* the main goroutine
  cancelled, \* the context
  watch,     \* the parent watch: not started, on the parent, or on nothing
  parent,    \* the client
  pipe,      \* stdin: open, or closed by every writer
  stuck,     \* a request, or the teardown, never returns
  listed,    \* the row in the process registry
  session    \* the sessions' rows

vars == <<pc, cancelled, watch, parent, pipe, stuck, listed, session>>

Ended == HubIdle + 1
Ages  == 0 .. HubIdle

Init ==
  /\ pc = "index" /\ cancelled = FALSE /\ watch = "off"
  /\ parent = "alive" /\ pipe = "open" /\ stuck = FALSE /\ listed = FALSE
  /\ session = [s \in Sessions |-> Ended]

Goto(from, to) == pc = from /\ pc' = to

-----------------------------------------------------------------------------
(* The client and the users.                                                *)
ParentExits ==
  /\ parent = "alive" /\ parent' = "gone"
  /\ pipe' \in {pipe, "closed"} \* another process may hold its write end
  /\ UNCHANGED <<pc, cancelled, watch, stuck, listed, session>>

CloseInput ==
  /\ pipe = "open" /\ pipe' = "closed"
  /\ UNCHANGED <<pc, cancelled, watch, parent, stuck, listed, session>>

Signal ==
  /\ pc \notin {"index", "exited"} /\ ~cancelled /\ cancelled' = TRUE
  /\ UNCHANGED <<pc, watch, parent, pipe, stuck, listed, session>>

-----------------------------------------------------------------------------
(* The indexer's first pass comes before everything else, the watch included. *)
(* A parent that is gone by then leaves nothing to watch.                    *)
StartServing ==
  /\ Goto("index", "loop")
  /\ watch' = IF parent = "alive" THEN "parent" ELSE "nothing"
  /\ listed' = TRUE
  /\ UNCHANGED <<cancelled, parent, pipe, stuck, session>>

PollParent ==
  /\ watch = "parent" /\ parent = "gone" /\ ~cancelled /\ pc # "exited"
  /\ cancelled' = TRUE
  /\ UNCHANGED <<pc, watch, parent, pipe, stuck, listed, session>>

(* A line from the client; the loop does not look at anything else until its *)
(* handler returns.                                                          *)
ReadLine ==
  /\ Goto("loop", "handle")
  /\ pipe = "open" /\ parent = "alive"
  /\ stuck' \in BOOLEAN
  /\ UNCHANGED <<cancelled, watch, parent, pipe, listed, session>>

(* A request may record activity in a session, ended or not.                  *)
HandleMessage ==
  /\ Goto("handle", "loop") /\ ~stuck
  /\ session' \in {session} \union
       {[session EXCEPT ![s] = IF @ = Ended THEN Ended ELSE 0] : s \in Sessions}
  /\ UNCHANGED <<cancelled, watch, parent, pipe, stuck, listed>>

Shutdown ==
  /\ Goto("loop", "sessions")
  /\ cancelled \/ pipe = "closed"
  /\ UNCHANGED <<cancelled, watch, parent, pipe, stuck, listed, session>>

(* A line over the limit ends the loop with an error: the process exits        *)
(* without the deferred calls of runServe.                                    *)
LongLine ==
  /\ Goto("loop", "exited") /\ pipe = "open" /\ parent = "alive" /\ ~cancelled
  /\ UNCHANGED <<cancelled, watch, parent, pipe, stuck, listed, session>>

-----------------------------------------------------------------------------
EndStale(limit) == [s \in Sessions |-> IF session[s] # Ended /\ session[s] > limit
                                       THEN Ended ELSE session[s]]

EndStaleSessions ==
  /\ Goto("sessions", "unlist")
  /\ session' = EndStale(ServeIdle)
  /\ UNCHANGED <<cancelled, watch, parent, pipe, stuck, listed>>

Unlist ==
  /\ Goto("unlist", "cancel")
  /\ listed' = FALSE
  /\ UNCHANGED <<cancelled, watch, parent, pipe, stuck, session>>

Cancel ==
  /\ Goto("cancel", "close")
  /\ cancelled' = TRUE /\ stuck' \in BOOLEAN
  /\ UNCHANGED <<watch, parent, pipe, listed, session>>

(* Mutant: the watchdog of the teardown starts with the teardown.             *)
ForceLate ==
  /\ cancelled /\ pc = "close" /\ pc' = "exited"
  /\ UNCHANGED <<cancelled, watch, parent, pipe, stuck, listed, session>>

(* Ten seconds after the cancellation.                                       *)
ForceExit ==
  /\ cancelled /\ pc # "exited" /\ pc' = "exited"
  /\ UNCHANGED <<cancelled, watch, parent, pipe, stuck, listed, session>>

(* Close waits for every worker of the service.                               *)
CloseService ==
  /\ Goto("close", "exited") /\ ~stuck
  /\ UNCHANGED <<cancelled, watch, parent, pipe, stuck, listed, session>>

-----------------------------------------------------------------------------
(* The hub and the hooks.                                                    *)
Upkeep ==
  /\ session' = EndStale(HubIdle - 1)
  /\ UNCHANGED <<pc, cancelled, watch, parent, pipe, stuck, listed>>

StartSession(s) ==
  /\ session' = [session EXCEPT ![s] = 0]
  /\ UNCHANGED <<pc, cancelled, watch, parent, pipe, stuck, listed>>

Idle ==
  /\ session' = [s \in Sessions |-> IF session[s] \in Ages \ {HubIdle}
                                    THEN session[s] + 1 ELSE session[s]]
  /\ UNCHANGED <<pc, cancelled, watch, parent, pipe, stuck, listed>>

-----------------------------------------------------------------------------
ServeStep ==
  \/ StartServing \/ HandleMessage \/ Shutdown \/ EndStaleSessions \/ Unlist \/ Cancel
  \/ CloseService

Next ==
  \/ ParentExits \/ CloseInput \/ Signal \/ PollParent \/ ReadLine \/ LongLine \/ ForceExit
  \/ ServeStep
  \/ Upkeep \/ Idle \/ \E s \in Sessions : StartSession(s)

Fairness == WF_vars(ServeStep) /\ WF_vars(PollParent) /\ WF_vars(ForceExit)
Spec == Init /\ [][Next]_vars /\ Fairness

-----------------------------------------------------------------------------
(* Every variable stays in its domain.                                       *)
TypeOK ==
  /\ pc \in {"index", "loop", "handle", "sessions", "unlist", "cancel", "close", "exited"}
  /\ watch \in {"off", "parent", "nothing"} /\ parent \in {"alive", "gone"}
  /\ pipe \in {"open", "closed"} /\ {cancelled, stuck, listed} \subseteq BOOLEAN
  /\ session \in [Sessions -> Ages \union {Ended}]

(* The comment on the lifecycle guards: a server whose client went away ends, *)
(* whoever holds the pipe and whatever its request or its teardown waits for. *)
ClientGoneEnds == (watch = "parent" /\ parent = "gone") ~> pc = "exited"
=============================================================================
