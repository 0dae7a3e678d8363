---------------------------- MODULE EmbeddingUpgrade ----------------------------
(***************************************************************************)
(* The switch from the legacy generation to the one this process builds:    *)
(* the gate of embedding_upgrade.go over the process registry               *)
(* (processes.go) and the processes that hold the database (legacy_gate.go).*)
(*                                                                         *)
(* A process is one of these kinds:                                         *)
(*   server  registers, current version                                     *)
(*   cli     short-lived, does not register, runs this very binary          *)
(*   other   the same version from another install, does not register       *)
(*   old     before 0.20, does not register                                 *)
(*   dev     registers with a version that is older or does not parse       *)
(* A pid that is free may be taken again, whatever row its last owner left.  *)
(* Processes of another host are seen through the registry only.            *)
(* The host has /proc: where it has none the gate asks for confirm_upgrade,  *)
(* and what the operator then answers for is not modelled.                  *)
(***************************************************************************)
EXTENDS Naturals

CONSTANTS Local, Remote, \* pids, without this process's own
          Starts         \* bound: processes that start

Pids  == Local \cup Remote
Kinds == {"server", "cli", "other", "old", "dev"}
Old   == {"old", "dev"}
NoRow == "none"

VARIABLES
  running,  \* the kind that runs under a pid, or "none"
  started,  \* how many have started
  row,      \* the version registered under a pid: "new", "below" or NoRow
  fresh,    \* its heartbeat is younger than processStaleAfter
  missing, onHold, healthy, \* of the new generation: a memory or a job is left; hold_upgrade; health
  measured, \* the health this process remembers: "none", "good", "bad"
  active,   \* the active generation: "legacy" or "v2"
  gate,     \* where upgradeGate is
  live,     \* what LiveProcesses returned
  dead,     \* the rows it is about to prune
  \* auxiliary
  late,     \* processes that started after the gate last scanned
  shadowed  \* old processes on a pid whose row, stored or listed, a newer one left

registry == <<row, fresh>>
build    == <<missing, onHold, healthy>>
vars == <<running, started, registry, build, measured, active, gate, live, dead, late, shadowed>>

Init ==
  /\ running = [p \in Pids |-> "none"] /\ started = 0
  /\ row = [p \in Pids |-> NoRow] /\ fresh = [p \in Pids |-> FALSE]
  /\ missing = TRUE /\ onHold \in BOOLEAN /\ healthy \in BOOLEAN
  /\ measured = "none" /\ active = "legacy" /\ gate = "idle"
  /\ live = row /\ dead = {} /\ late = {} /\ shadowed = {}

-----------------------------------------------------------------------------
(* Processes come and go.                                                    *)
Start(p, k) ==
  /\ running[p] = "none" /\ started < Starts
  /\ p \in Remote => k \in {"server", "dev"}
  /\ running' = [running EXCEPT ![p] = k]
  /\ started' = started + 1
  /\ late' = late \cup {p}
  /\ shadowed' = IF k \in Old /\ "new" \in {row[p], live[p]}
                 THEN shadowed \cup {p} ELSE shadowed \ {p}
  /\ UNCHANGED <<registry, build, measured, active, gate, live, dead>>

(* RegisterProcess at the start, heartbeatProcess from then on: the second    *)
(* recreates a row that was pruned.                                          *)
Version(k) == IF k = "dev" THEN "below" ELSE "new"
Register(p) ==
  /\ running[p] \in {"server", "dev"} /\ ~(fresh[p] /\ row[p] = Version(running[p]))
  /\ row' = [row EXCEPT ![p] = Version(running[p])]
  /\ fresh' = [fresh EXCEPT ![p] = TRUE]
  /\ UNCHANGED <<running, started, build, measured, active, gate, live, dead, late, shadowed>>

Exit(p) ==
  /\ running[p] # "none"
  /\ running' = [running EXCEPT ![p] = "none"]
  /\ \/ running[p] \in {"server", "dev"} \* unregistered on the way out
        /\ row' = [row EXCEPT ![p] = NoRow] /\ fresh' = [fresh EXCEPT ![p] = FALSE]
     \/ UNCHANGED registry               \* killed, or never registered
  /\ UNCHANGED <<started, build, measured, active, gate, live, dead, late, shadowed>>

(* A row is not refreshed for processStaleAfter: a dead process, or a sleep.  *)
Age(p) ==
  /\ fresh[p]
  /\ fresh' = [fresh EXCEPT ![p] = FALSE]
  /\ UNCHANGED <<running, started, row, build, measured, active, gate, live, dead, late, shadowed>>

(* The workers embed, a save adds a memory to embed, the operator lifts the   *)
(* hold, the space changes as vectors come in.  The gate reads these once, so *)
(* what changes while it lists processes may as well have changed before.     *)
Build ==
  /\ gate \in {"idle", "activate"} /\ active = "legacy"
  /\ \/ missing' = ~missing /\ UNCHANGED <<onHold, healthy>>
     \/ onHold /\ onHold' = FALSE /\ UNCHANGED <<missing, healthy>>
     \/ healthy' = ~healthy /\ UNCHANGED <<missing, onHold>>
  /\ UNCHANGED <<running, started, registry, measured, active, gate, live, dead, late, shadowed>>

(* healthRecheckEvery passes.                                                *)
ForgetHealth ==
  /\ measured # "none" /\ gate = "idle"
  /\ measured' = "none"
  /\ UNCHANGED <<running, started, registry, build, active, gate, live, dead, late, shadowed>>

-----------------------------------------------------------------------------
(* Mutant: only an embedding job leads to a try.                             *)
TryAfterJob(idle) ==
  /\ ~idle /\ gate = "idle" /\ active = "legacy"
  /\ ~missing /\ ~onHold
  /\ gate' = "list"
  /\ UNCHANGED <<running, started, registry, build, measured, active, live, dead, late, shadowed>>

(* The gate: it is tried after an embedding job, and again by an idle process *)
(* every activationRetryEvery (checkActiveGeneration).                       *)
TryGate(idle) ==
  /\ gate = "idle" /\ active = "legacy"
  /\ ~missing /\ ~onHold
  /\ gate' = "list"
  /\ UNCHANGED <<running, started, registry, build, measured, active, live, dead, late, shadowed>>

Retry == TryGate(TRUE)

Dead(p) == row[p] # NoRow /\ (~fresh[p] \/ (p \in Local /\ running[p] = "none"))

List ==
  /\ gate = "list"
  /\ dead' = {p \in Pids : Dead(p)}
  /\ live' = [p \in Pids |-> IF Dead(p) THEN NoRow ELSE row[p]]
  /\ gate' = "prune"
  /\ UNCHANGED <<running, started, registry, build, measured, active, late, shadowed>>

(* By pid: a row that was refreshed since is pruned too.                     *)
Prune ==
  /\ gate = "prune"
  /\ row' = [p \in Pids |-> IF p \in dead THEN NoRow ELSE row[p]]
  /\ fresh' = [p \in Pids |-> p \notin dead /\ fresh[p]]
  /\ dead' = {} /\ gate' = "scan"
  /\ UNCHANGED <<running, started, build, measured, active, live, late, shadowed>>

(* Mutant: holders are known by the name of their binary.                    *)
BlockersByVersion == {p \in Pids : live[p] = "below"}
Blockers ==
  {p \in Pids : live[p] = "below"} \cup
  {p \in Local : running[p] \in Kinds \ {"cli"} /\ live[p] = NoRow}

Scan ==
  /\ gate = "scan"
  /\ gate' = IF Blockers = {} THEN "health" ELSE "idle"
  /\ late' = {}
  /\ live' = [p \in Pids |-> NoRow]
  /\ UNCHANGED <<running, started, registry, build, measured, active, dead, shadowed>>

Measure ==
  /\ gate = "health"
  /\ LET now == IF measured # "none" THEN measured ELSE IF healthy THEN "good" ELSE "bad" IN
     /\ measured' = now
     /\ gate' = IF now = "good" THEN "activate" ELSE "idle"
  /\ UNCHANGED <<running, started, registry, build, active, live, dead, late, shadowed>>

(* The transaction counts the missing revisions again.                       *)
Activate ==
  /\ gate = "activate"
  /\ active' = IF missing THEN active ELSE "v2"
  /\ gate' = "idle"
  /\ UNCHANGED <<running, started, registry, build, measured, live, dead, late, shadowed>>

Next ==
  \/ \E p \in Pids : Register(p) \/ Exit(p) \/ Age(p) \/ \E k \in Kinds : Start(p, k)
  \/ Build \/ ForgetHealth
  \/ TryGate(FALSE) \/ Retry \/ List \/ Prune \/ Scan \/ Measure \/ Activate

(* Processes beat, time passes, and the maintenance ticker retries.           *)
Fairness ==
  /\ \A p \in Pids : WF_vars(Register(p)) /\ WF_vars(running[p] \notin {"server", "dev"} /\ Age(p))
  /\ SF_vars(ForgetHealth)
  /\ WF_vars(Retry) /\ WF_vars(List \/ Prune \/ Scan \/ Measure \/ Activate)

Spec == Init /\ [][Next]_vars /\ Fairness

-----------------------------------------------------------------------------
TypeOK ==
  /\ running \in [Pids -> Kinds \cup {"none"}] /\ started \in 0 .. Starts
  /\ row \in [Pids -> {"new", "below", NoRow}] /\ fresh \in [Pids -> BOOLEAN]
  /\ {missing, onHold, healthy} \subseteq BOOLEAN
  /\ measured \in {"none", "good", "bad"} /\ active \in {"legacy", "v2"}
  /\ gate \in {"idle", "list", "prune", "scan", "health", "activate"}
  /\ live \in [Pids -> {"new", "below", NoRow}] /\ dead \subseteq Pids
  /\ late \subseteq Pids /\ shadowed \subseteq Pids

(* After the switch, an old process of this host holds the database only if it *)
(* came after the gate looked, or took the pid of a newer one whose row was     *)
(* still there (IrreversibleStepsMinVersion; LegacyBlockers): the gate          *)
(* overlooks nobody else, whatever processes and rows come and go.              *)
OldIsLate ==
  active = "v2" => \A p \in Local : running[p] \in Old => p \in late \cup shadowed

(* A complete, healthy generation that no old process holds back is activated  *)
(* in the end, by an idle process as well (checkActiveGeneration), as long as  *)
(* the heartbeats of the running servers arrive.                               *)
Ready ==
  /\ ~missing /\ ~onHold /\ healthy
  /\ \A p \in Pids : running[p] \in {"none", "cli"} \/ (running[p] = "server" /\ fresh[p])
HeldUpgradeCompletes == (<>[]Ready) => <>(active = "v2")
================================================================================
