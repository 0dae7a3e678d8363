------------------------------- MODULE MCUpkeep -------------------------------
(***************************************************************************)
(* What goes on beside a serve process: the switch of the embedding          *)
(* generation, the batches of the context tools, the curation of memories,   *)
(* the eviction of the context store and the context gate.  They share no    *)
(* state here, so each runs alone: one run explores all of them, one at a    *)
(* time.                                                                     *)
(***************************************************************************)
EXTENDS Integers, Sequences, FiniteSets, TLC

CONSTANTS
  Local, Remote, Starts, \* EmbeddingUpgrade's
  N, Width, Fetchers, MaxVersions, MaxSearches, \* ContextTools'
  Mems, Workers, Operators, Low, Pinned, PastTime, PageSize, MaxUpdates, Floor,
  cuMaxFails, \* Curation's
  Docs, Projects, Callers, Evictors, PartsOf, Size, Cap, MaxRows, \* ContextStore's
  Hooks, MaxDenies, cgMaxFails \* ContextGate's

(* Limits and bounds are numbers, and a document has a part, which is some    *)
(* bytes long.                                                               *)
ASSUME UpkeepAssumption ==
  /\ {Starts, N, MaxSearches, MaxUpdates, Floor, cuMaxFails, Cap, MaxRows, MaxDenies, cgMaxFails}
       \subseteq Nat
  /\ Size \in [DOMAIN Size -> Nat]
  /\ PartsOf \in [Docs -> Seq(DOMAIN Size) \ {<<>>}]
  /\ IsFiniteSet(Hooks)

VARIABLES
  focus, \* the component that runs
  running, started, row, fresh, missing, onHold, healthy, measured, active,
  gate, live, dead, late, shadowed,
  cmd, result, batch, indexed, web, cache, fetch, searches,
  mem, reconciled, due, pass, sweep, cuFails,
  chunks, artifacts, rows, horizon, job, cycle,
  dir, counter, there, old, hook, optimizer, cgFails, denied, swept

euState == <<running, started, row, fresh, missing, onHold, healthy, measured,
              active, gate, live, dead, late, shadowed>>
cxState == <<cmd, result, batch, indexed, web, cache, fetch, searches>>
cuState == <<mem, reconciled, due, pass, sweep, cuFails>>
csState == <<chunks, artifacts, rows, horizon, job, cycle>>
cgState == <<dir, counter, there, old, hook, optimizer, cgFails, denied,
              swept>>
all == <<focus, euState, cxState, cuState, csState, cgState>>

-----------------------------------------------------------------------------
(* The one document there is, and its parts.                                 *)
MCPartsOf == [a |-> <<"x", "y">>]
MCSize    == [x |-> 2, y |-> 1]

EU == INSTANCE EmbeddingUpgrade
CX == INSTANCE ContextTools
CU == INSTANCE Curation WITH MaxFails <- cuMaxFails, fails <- cuFails
CS == INSTANCE ContextStore
CG == INSTANCE ContextGate WITH MaxFails <- cgMaxFails, fails <- cgFails

-----------------------------------------------------------------------------
(* A component that does not run keeps one of its initial states.            *)
Initial ==
  /\ focus \in {"eu", "cx", "cu", "cs", "cg"}
  /\ EU!Init /\ (focus # "eu" => ~onHold /\ healthy)
  /\ CX!Init
  /\ CU!Init
  /\ CS!Init
  /\ CG!Init /\ (focus # "cg" => ~dir /\ optimizer)

Move ==
  /\ UNCHANGED focus
  /\ \/ focus = "eu" /\ EU!Next
     \/ focus = "cx" /\ CX!Next
     \/ focus = "cu" /\ CU!Next
     \/ focus = "cs" /\ CS!Next
     \/ focus = "cg" /\ CG!Next
  /\ focus # "eu" => UNCHANGED euState
  /\ focus # "cx" => UNCHANGED cxState
  /\ focus # "cu" => UNCHANGED cuState
  /\ focus # "cs" => UNCHANGED csState
  /\ focus # "cg" => UNCHANGED cgState

(* The fairness of each component's module.                                  *)
Justice ==
  /\ \A p \in EU!Pids : /\ WF_euState(focus = "eu" /\ EU!Register(p))
                         /\ WF_euState(focus = "eu" /\ running[p] \notin {"server", "dev"} /\ EU!Age(p))
  /\ SF_euState(focus = "eu" /\ EU!ForgetHealth) /\ WF_euState(focus = "eu" /\ EU!Retry)
  /\ WF_euState(focus = "eu" /\ (EU!List \/ EU!Prune \/ EU!Scan \/ EU!Measure \/ EU!Activate))
  /\ \A i \in CX!Cmds : WF_cxState(focus = "cx" /\ CX!RunStep(i))
  /\ WF_cxState(focus = "cx" /\ CX!IndexOutput) /\ WF_cxState(focus = "cx" /\ CX!SearchOutput)
  /\ \A w \in Workers : WF_cuState(focus = "cu" /\ CU!WorkerStep(w))
  /\ WF_cuState(focus = "cu" /\ CU!IntervalPasses)

UpkeepSpec == Initial /\ [][Move]_all /\ Justice

TypesOK == EU!TypeOK /\ CX!TypeOK /\ CU!TypeOK /\ CS!TypeOK /\ CG!TypeOK

(* EmbeddingUpgrade: the gate overlooks no old process but a late one.        *)
OldIsLate == EU!OldIsLate

(* Limits: the cap on what the context store holds, after every eviction      *)
(* (eviction.go), and on how often the gate denies a session, whatever its     *)
(* parallel calls read of the counter (context_gate.go).                      *)
LimitsHold ==
  /\ focus = "cs" => CS!CapHolds
  /\ focus = "cg" => CG!DeniesBounded

(* ContextGate: a session that satisfied the gate stays credited, whatever     *)
(* calls run in parallel.                                                    *)
CreditSticks == CG!CreditSticks

(* What is begun is brought to its end: a complete, healthy generation is      *)
(* activated although processes come and go (embedding_upgrade.go); a batch    *)
(* returns, whether its commands end in time or not (batch.go, sandbox.go);    *)
(* old memories are scored again, although drains, pages and reconciles stop   *)
(* half-way (curation_worker.go).                                            *)
UpkeepEnds ==
  /\ focus = "eu" => EU!HeldUpgradeCompletes
  /\ focus = "cx" => CX!BatchEnds
  /\ focus = "cu" => CU!StaleIsRescored
===============================================================================
