------------------------------ MODULE ContextGate ------------------------------
(***************************************************************************)
(* The hooks of one session around the context gate (context_gate.go,       *)
(* hook_pretooluse.go, hookroute/routing.go): an agent runs tools in         *)
(* parallel batches, each call a hook process of its own, and the state they *)
(* share is three marker files, each replaced by a rename.  Other hooks of   *)
(* the session write the same files.                                         *)
(*                                                                         *)
(* The gate is enforced and the session has an id.  A call is told apart by  *)
(* what the hooks look at: dangerous (a secret for a shared file, a pattern  *)
(* no sandbox runs), memory (a tool that consults it), anchored (another     *)
(* tool of anchored), redirected (a fetch, a build), agent, plain.           *)
(***************************************************************************)
EXTENDS Naturals, FiniteSets

CONSTANTS Hooks,     \* calls of the agent in flight at once
          MaxDenies, \* ctxGateMaxDenies
          MaxFails   \* bound: writes that fail

Calls   == {"dangerous", "memory", "anchored", "redirected", "agent", "plain"}
Files   == {"counter", "ok", "rich"}
Answers == {"none", "allow", "modify", "deny", "gated"}
Legacy  == MaxDenies + 1 \* "ok" in the counter file, as older builds wrote it

VARIABLES
  dir,      \* <storage>/ctxgate exists
  counter,  \* the counter file: a number of denies, 0 when absent, or Legacy
  there,    \* the marker files that exist, the counter apart: a subset of {"ok", "rich"}
  old,      \* files not written for ctxGateMarkerTTL
  hook,     \* where a call's hook is, what it is about, the count it read, its answer
  optimizer,\* context_optimizer.enabled
  fails,    \* writes that failed
  \* auxiliary
  denied,   \* calls the gate denied since the markers were last swept
  swept     \* the last step removed old markers

files == <<dir, counter, there, old>>
vars  == <<files, hook, optimizer, fails, denied, swept>>

Idle == [pc |-> "idle", call |-> "plain", denies |-> 0, answer |-> "none"]

Init ==
  /\ dir \in BOOLEAN
  /\ counter \in IF dir THEN {0, Legacy} ELSE {0}
  /\ there = {} /\ old = {}
  /\ hook = [h \in Hooks |-> Idle]
  /\ optimizer \in BOOLEAN
  /\ fails = 0 /\ denied = 0 /\ swept = FALSE

-----------------------------------------------------------------------------
(* Mutant: the marker is truncated, then written.                            *)
TornDenyCount == 0

(* gateIsSatisfied; readDenyCount takes what does not parse as zero.         *)
GateIsSatisfied == "ok" \in there \/ counter = Legacy
ReadDenyCount   == IF counter = Legacy THEN 0 ELSE counter

(* Mutant: one deny too many.                                                *)
RelentsLate(denies) == denies > MaxDenies
Relents(denies)     == denies >= MaxDenies

(* writeGateMarker: a temporary file and a rename, errors swallowed.  The     *)
(* directory is created first.                                               *)
WriteFails == fails < MaxFails /\ fails' = fails + 1

(* Mutant: the credit is a value of the counter file.                        *)
MarkInCounter ==
  \/ counter' = Legacy /\ dir' = TRUE /\ old' = old \ {"counter"} /\ UNCHANGED <<there, fails>>
  \/ WriteFails /\ dir' \in {dir, TRUE} /\ UNCHANGED <<there, counter, old>>

MarkGateSatisfied ==
  \/ there' = there \cup {"ok"} /\ dir' = TRUE /\ old' = old \ {"ok"} /\ UNCHANGED <<counter, fails>>
  \/ WriteFails /\ dir' \in {dir, TRUE} /\ UNCHANGED <<there, counter, old>>

Goto(h, pc)    == hook' = [hook EXCEPT ![h].pc = pc]
Answer(h, ans) == hook' = [hook EXCEPT ![h].pc = "answered", ![h].answer = ans]

(* Past the gate: RoutePreToolUse.                                           *)
Route(call) ==
  CASE call = "redirected" /\ optimizer -> "deny"
    [] call = "agent" -> "modify"
    [] OTHER -> "allow"

-----------------------------------------------------------------------------
(* A secret for a shared file, a command whose risk no sandbox takes away.     *)
Dangerous(call) == call = "dangerous"

(* runHookPreToolUse: the security blocks go before the gate.  The tools that *)
(* consult memory credit it, the other tools of anchored pass.               *)
PreToolUse(h, call) ==
  /\ hook[h].pc = "idle"
  /\ hook' = [hook EXCEPT ![h] = [Idle EXCEPT !.call = call,
       !.pc = CASE Dangerous(call) -> "answered" [] call = "memory" -> "credit"
                [] call = "anchored" -> "answered" [] OTHER -> "check",
       !.answer = CASE Dangerous(call) -> "deny" [] call = "anchored" -> "allow"
                    [] OTHER -> "none"]]
  /\ swept' = FALSE
  /\ UNCHANGED <<files, optimizer, fails, denied>>

Credit(h) ==
  /\ hook[h].pc = "credit"
  /\ MarkGateSatisfied
  /\ Answer(h, "allow") /\ swept' = FALSE
  /\ UNCHANGED <<optimizer, denied>>

CheckSatisfied(h) ==
  /\ hook[h].pc = "check"
  /\ IF GateIsSatisfied THEN Answer(h, Route(hook[h].call)) ELSE Goto(h, "count")
  /\ swept' = FALSE
  /\ UNCHANGED <<files, optimizer, fails, denied>>

CountDenies(h) ==
  /\ hook[h].pc = "count"
  /\ hook' = [hook EXCEPT ![h].denies = ReadDenyCount,
       ![h].pc = IF Relents(ReadDenyCount) THEN "relent" ELSE "deny"]
  /\ swept' = FALSE
  /\ UNCHANGED <<files, optimizer, fails, denied>>

Relent(h) ==
  /\ hook[h].pc = "relent"
  /\ MarkGateSatisfied
  /\ Answer(h, Route(hook[h].call)) /\ swept' = FALSE
  /\ UNCHANGED <<optimizer, denied>>

(* Without its directory the gate fails open; a marker it cannot write does  *)
(* not keep it from denying.                                                 *)
FailOpen(h) ==
  /\ hook[h].pc = "deny" /\ ~dir
  /\ WriteFails
  /\ Answer(h, Route(hook[h].call)) /\ swept' = FALSE
  /\ UNCHANGED <<files, optimizer, denied>>

Deny(h) ==
  /\ hook[h].pc = "deny"
  /\ \/ counter' = hook[h].denies + 1 /\ dir' = TRUE /\ old' = old \ {"counter"} /\ UNCHANGED fails
     \/ WriteFails /\ dir' = TRUE /\ UNCHANGED <<counter, old>>
  /\ denied' = denied + 1
  /\ hook' = [hook EXCEPT ![h].pc = "sweep", ![h].answer = "gated"] /\ swept' = FALSE
  /\ UNCHANGED <<there, optimizer>>

(* sweepStaleGateMarkers, on a deny and after a session start.               *)
RemoveOld ==
  /\ there' = there \ old
  /\ counter' = IF "counter" \in old THEN 0 ELSE counter
  /\ old' = {}
  /\ swept' = (old # {}) /\ denied' = IF old # {} THEN 0 ELSE denied
  /\ UNCHANGED dir

Sweep(h) ==
  /\ hook[h].pc = "sweep"
  /\ RemoveOld
  /\ Goto(h, "answered")
  /\ UNCHANGED <<optimizer, fails>>

(* The call runs or not; PostToolUse credits a tool that consulted memory a   *)
(* second time.                                                              *)
PostToolUse(h) ==
  /\ hook[h].pc = "answered"
  /\ IF hook[h].call = "memory" THEN MarkGateSatisfied ELSE UNCHANGED <<files, fails>>
  /\ hook' = [hook EXCEPT ![h] = Idle] /\ swept' = FALSE
  /\ UNCHANGED <<optimizer, denied>>

-----------------------------------------------------------------------------
(* SessionStart leaves a marker when its block carried the identity, and     *)
(* sweeps.                                                                   *)
SessionStart ==
  /\ \/ there' = (there \cup {"rich"}) \ (old \ {"rich"}) /\ dir' = TRUE /\ UNCHANGED fails
     \/ WriteFails /\ dir' \in {dir, TRUE} /\ there' = there \ old
  /\ counter' = IF "counter" \in old THEN 0 ELSE counter
  /\ old' = {}
  /\ swept' = (old # {}) /\ denied' = IF old # {} THEN 0 ELSE denied
  /\ UNCHANGED <<hook, optimizer>>

(* UserPromptSubmit credits a recall that rendered something after a rich     *)
(* block.                                                                    *)
CreditRecall ==
  /\ ~GateIsSatisfied /\ "rich" \in there
  /\ MarkGateSatisfied /\ swept' = FALSE
  /\ UNCHANGED <<hook, optimizer, denied>>

(* The session rests for a week.                                             *)
Rest ==
  /\ \A h \in Hooks : hook[h].pc = "idle"
  /\ old' = there \cup (IF counter = 0 THEN {} ELSE {"counter"})
  /\ old' # old /\ swept' = FALSE
  /\ UNCHANGED <<dir, counter, there, hook, optimizer, fails, denied>>

Next ==
  \/ \E h \in Hooks :
       \/ \E call \in Calls : PreToolUse(h, call)
       \/ Credit(h) \/ CheckSatisfied(h) \/ CountDenies(h) \/ Relent(h)
       \/ FailOpen(h) \/ Deny(h) \/ Sweep(h) \/ PostToolUse(h)
  \/ SessionStart \/ CreditRecall \/ Rest

Spec == Init /\ [][Next]_vars

-----------------------------------------------------------------------------
TypeOK ==
  /\ dir \in BOOLEAN /\ counter \in 0 .. Legacy /\ there \subseteq {"ok", "rich"}
  /\ old \subseteq Files /\ optimizer \in BOOLEAN /\ fails \in 0 .. MaxFails
  /\ hook \in [Hooks -> [pc : {"idle", "credit", "check", "count", "relent", "deny", "sweep", "answered"},
                         call : Calls, denies : 0 .. MaxDenies, answer : Answers]]
  /\ \A h \in Hooks : hook[h].pc = "deny" => hook[h].denies < MaxDenies
  /\ denied \in Nat /\ swept \in BOOLEAN

(* Once a session is credited, no write of another hook revokes the credit,   *)
(* whatever the interleaving; only a sweep a week later does                  *)
(* (context_gate.go 53-58).                                                   *)
CreditSticks == [][GateIsSatisfied => GateIsSatisfied' \/ swept']_vars

(* The gate relents.  Two calls in flight overwrite each other's counts: one   *)
(* that read k before the other counted on from k takes the count back to       *)
(* k + 1, once for every k, so they are denied up to                           *)
(* 2 + 3 + ... + (MaxDenies + 1) times, and once more for a write that fails    *)
(* (context_gate.go 294-304).                                                  *)
DeniesBounded ==
  Cardinality(Hooks) = 2 => denied <= (MaxDenies * (MaxDenies + 3)) \div 2 + fails
================================================================================
