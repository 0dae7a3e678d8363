----------------------------- MODULE ContextTools -----------------------------
(***************************************************************************)
(* The context tools of one server: a batch of commands in the sandbox, a    *)
(* fetch cache shared by concurrent fetches, and the throttle that counts     *)
(* searches (pkg/context, pkg/mcp/server.go).                                *)
(*                                                                         *)
(* A command is a process group.  A member that inherits the output pipe      *)
(* keeps Wait from returning; without setsid it stays in the group.           *)
(***************************************************************************)
EXTENDS Integers, FiniteSets

CONSTANTS N,        \* commands of the batch
          Width,    \* concurrency asked for
          Fetchers, MaxVersions, MaxSearches \* bounds

Limit == IF Width <= 0 THEN 1 ELSE IF Width > 8 THEN 8 ELSE Width
Cmds == 1..N

VARIABLES cmd,     \* where each command is
  result,          \* its entry of results
  batch,           \* "run" | "index" | "search" | "done"
  indexed,         \* the commands whose output was indexed
  web, cache, fetch, searches
vars == <<cmd, result, batch, indexed, web, cache, fetch, searches>>
tools == <<web, cache, fetch, searches>>

NoCache == 0
Init ==
  /\ cmd = [i \in Cmds |-> [pc |-> "queued"]]
  /\ result = [i \in Cmds |-> "none"]
  /\ batch = "run" /\ indexed = {}
  /\ web = 1 /\ cache = NoCache
  /\ fetch = [f \in Fetchers |-> [pc |-> "idle"]]
  /\ searches = 0

-----------------------------------------------------------------------------
(* runCommands: in input order, at most Limit at a time.                     *)
Running == {i \in Cmds : cmd[i].pc \notin {"queued", "done"}}
Acquire(i) ==
  /\ batch = "run"
  /\ cmd[i].pc = "queued" /\ \A k \in 1..(i - 1) : cmd[k].pc # "queued"
  /\ Cardinality(Running) < Limit
  /\ cmd' = [cmd EXCEPT ![i] = [pc |-> "start"]]
  /\ UNCHANGED <<result, batch, indexed, tools>>

(* runOne: an unknown language, a missing runtime or a failed start is a     *)
(* failed command like any other.                                            *)
Finish(i, r) ==
  /\ cmd' = [cmd EXCEPT ![i] = [pc |-> "done"]]
  /\ result' = [result EXCEPT ![i] = r]

NoRuntime(i) ==
  /\ cmd[i].pc = "start"
  /\ Finish(i, "failed")
  /\ UNCHANGED <<batch, indexed, tools>>

Start(i) ==
  /\ cmd[i].pc = "start"
  /\ cmd' = [cmd EXCEPT ![i] = [pc |-> "wait", main |-> TRUE, child |-> FALSE, code |-> "ok"]]
  /\ UNCHANGED <<result, batch, indexed, tools>>

(* What the command does on its own.                                         *)
Spawn(i) ==
  /\ cmd[i].pc \in {"wait", "killed"} /\ cmd[i].main /\ ~cmd[i].child
  /\ cmd' = [cmd EXCEPT ![i].child = TRUE]
  /\ UNCHANGED <<result, batch, indexed, tools>>
Exit(i) ==
  /\ cmd[i].pc \in {"wait", "killed"} /\ cmd[i].main
  /\ \E code \in {"ok", "failed"} : cmd' = [cmd EXCEPT ![i].main = FALSE, ![i].code = code]
  /\ UNCHANGED <<result, batch, indexed, tools>>
ChildExit(i) ==
  /\ cmd[i].pc \in {"wait", "killed"} /\ cmd[i].child
  /\ cmd' = [cmd EXCEPT ![i].child = FALSE]
  /\ UNCHANGED <<result, batch, indexed, tools>>

(* The deadline, or the caller's context: kill the group and wait for it.  A  *)
(* child that has left the group (setsid) keeps the pipe and is not killed;   *)
(* `child` is one that has not.                                              *)
KillLeader(i) == cmd' = [cmd EXCEPT ![i].pc = "killed", ![i].main = FALSE]
KillGroup(i) == cmd' = [cmd EXCEPT ![i].pc = "killed", ![i].main = FALSE, ![i].child = FALSE]
Deadline(i) ==
  /\ cmd[i].pc = "wait"
  /\ KillGroup(i)
  /\ UNCHANGED <<result, batch, indexed, tools>>

(* cmd.Wait returns once nobody holds the pipe.  A killed command keeps exit *)
(* code 0; it timed out unless it was the caller that gave up.  The deadline  *)
(* can also pass between the end and the check.                               *)
Ended(i) == ~cmd[i].main /\ ~cmd[i].child
Return(i) ==
  /\ cmd[i].pc \in {"wait", "killed"} /\ Ended(i)
  /\ \E r \in IF cmd[i].pc = "killed" THEN {"timeout", "ok"} ELSE {cmd[i].code, "timeout"} : Finish(i, r)
  /\ UNCHANGED <<batch, indexed, tools>>

(* ExecuteBatch after wg.Wait: index all the output at once, then search.    *)
IndexOutput ==
  /\ batch = "run" /\ \A i \in Cmds : cmd[i].pc = "done"
  /\ indexed' = Cmds
  /\ batch' = "search"
  /\ UNCHANGED <<cmd, result, tools>>
SearchOutput ==
  /\ batch = "search"
  /\ batch' = "done"
  /\ UNCHANGED <<cmd, result, indexed, tools>>
NewBatch ==
  /\ batch = "done"
  /\ cmd' = [i \in Cmds |-> [pc |-> "queued"]]
  /\ result' = [i \in Cmds |-> "none"]
  /\ batch' = "run" /\ indexed' = {}
  /\ searches' = 0
  /\ UNCHANGED <<web, cache, fetch>>

-----------------------------------------------------------------------------
(* FetchAndIndex: force drops the entry, then the cache is looked up like    *)
(* for any other call; an answer is stored whenever it arrives.               *)
WebChanges ==
  /\ web < MaxVersions /\ web' = web + 1
  /\ UNCHANGED <<cmd, result, batch, indexed, cache, fetch, searches>>
FetchStart(f, force) ==
  /\ fetch[f].pc = "idle"
  /\ cache' = IF force THEN NoCache ELSE cache
  /\ fetch' = [fetch EXCEPT ![f] = [pc |-> "look"]]
  /\ searches' = 0
  /\ UNCHANGED <<cmd, result, batch, indexed, web>>
LookInCache(f) ==
  /\ fetch[f].pc = "look"
  /\ fetch' = [fetch EXCEPT ![f] = IF cache # NoCache THEN [pc |-> "idle"] ELSE [pc |-> "get"]]
  /\ UNCHANGED <<cmd, result, batch, indexed, web, cache, searches>>
Get(f) ==
  /\ fetch[f].pc = "get"
  /\ \/ fetch' = [fetch EXCEPT ![f] = [pc |-> "store", got |-> web]]
     \/ fetch' = [fetch EXCEPT ![f] = [pc |-> "idle"]] \* refused, too large, not text
  /\ UNCHANGED <<cmd, result, batch, indexed, web, cache, searches>>
Store(f) ==
  /\ fetch[f].pc = "store"
  /\ cache' = fetch[f].got
  /\ fetch' = [fetch EXCEPT ![f] = [pc |-> "idle"]]
  /\ UNCHANGED <<cmd, result, batch, indexed, web, searches>>
CacheExpires ==
  /\ cache # NoCache /\ cache' = NoCache
  /\ UNCHANGED <<cmd, result, batch, indexed, web, fetch, searches>>

(* anchored_ctx_search counts its calls; indexing anything starts over.      *)
Search == searches < MaxSearches /\ searches' = searches + 1
          /\ UNCHANGED <<cmd, result, batch, indexed, web, cache, fetch>>

RunStep(i) == Acquire(i) \/ Start(i) \/ NoRuntime(i) \/ Deadline(i) \/ Return(i)
Step == (\E i \in Cmds : RunStep(i)) \/ IndexOutput \/ SearchOutput
Next ==
  \/ Step \/ NewBatch
  \/ \E i \in Cmds : Spawn(i) \/ Exit(i) \/ ChildExit(i)
  \/ WebChanges \/ CacheExpires \/ Search
  \/ \E f \in Fetchers : (\E force \in BOOLEAN : FetchStart(f, force)) \/ LookInCache(f) \/ Get(f) \/ Store(f)
Fairness == (\A i \in Cmds : WF_vars(RunStep(i))) /\ WF_vars(IndexOutput) /\ WF_vars(SearchOutput)
Spec == Init /\ [][Next]_vars /\ Fairness

-----------------------------------------------------------------------------
TypeOK ==
  /\ batch \in {"run", "search", "done"} /\ indexed \subseteq Cmds
  /\ \A i \in Cmds : result[i] # "none" <=> cmd[i].pc = "done"
  /\ cache \in 0..web /\ searches \in 0..MaxSearches

(* Every batch ends, whatever its commands do: one that hangs, with children *)
(* holding its output, is killed with its group at the deadline              *)
(* (sandbox.go:113).                                                          *)
BatchEnds == batch = "run" ~> batch = "done"
================================================================================
