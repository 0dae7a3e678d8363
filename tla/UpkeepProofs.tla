---------------------------- MODULE UpkeepProofs ----------------------------
(***************************************************************************)
(* What MCUpkeep checks on a small instance holds of every one: any number   *)
(* of processes, commands, memories, callers, evictors and hooks, any sizes,  *)
(* any cap and any bounds.                                                   *)
(*                                                                         *)
(* No component's property is inductive.  Each gets the state that makes it  *)
(* so: whose row an old process hides behind (EUInv), what a batch and a     *)
(* fetch hold (CXInv), what a worker holds of a page (CUInv), what an evictor *)
(* may still rely on of what it measured (CSInv), and how often the hooks     *)
(* that have read the counter can still deny (CGInv).  Their conjunction is   *)
(* kept by every step, because a step of one component leaves the others      *)
(* alone.                                                                    *)
(***************************************************************************)
EXTENDS MCUpkeep, FiniteSetTheorems, SequenceTheorems, TLAPS

-----------------------------------------------------------------------------
(* EmbeddingUpgrade.  Once the gate has looked, and until it looks again,    *)
(* an old process that runs came late or hides behind a newer one's row; to  *)
(* hide, it took the pid while that row was stored or listed.                *)
OldHidesOrIsLate == \A p \in Local : running[p] \in EU!Old => p \in late \cup shadowed
OldBehindNewRow ==
  \A p \in EU!Pids : running[p] \in EU!Old /\ "new" \in {row[p], live[p]} => p \in shadowed
EUInv ==
  /\ EU!TypeOK
  /\ active = "v2" => gate = "idle"
  /\ active = "v2" \/ gate \in {"health", "activate"} => OldHidesOrIsLate
  /\ OldBehindNewRow

(* Nothing runs and nothing is on record when the gate is built.             *)
LEMMA EUInit == EU!Init => EUInv
BY UpkeepAssumption
   DEF EU!Init, EUInv, EU!TypeOK, OldHidesOrIsLate, OldBehindNewRow, EU!Old, EU!NoRow, EU!Pids

(* Processes that start, beat, end or sleep do not escape the gate.          *)
LEMMA ProcessesInv ==
  ASSUME EUInv, NEW p \in EU!Pids,
         EU!Register(p) \/ EU!Exit(p) \/ EU!Age(p) \/ \E k \in EU!Kinds : EU!Start(p, k)
  PROVE  EUInv'
<1> USE DEF EU!registry, EU!build
<1>1. /\ UNCHANGED <<missing, onHold, healthy, measured, active, gate, live, dead>>
      /\ row \in [EU!Pids -> {"new", "below", EU!NoRow}] /\ running \in [EU!Pids -> EU!Kinds \cup {"none"}]
      /\ fresh \in [EU!Pids -> BOOLEAN]
  BY DEF EUInv, EU!TypeOK, EU!Register, EU!Exit, EU!Age, EU!Start
<1>2. CASE \E k \in EU!Kinds : EU!Start(p, k)
  <2>1. PICK k \in EU!Kinds :
          /\ running' = [running EXCEPT ![p] = k] /\ late' = late \cup {p}
          /\ started' = started + 1 /\ started < Starts /\ UNCHANGED <<row, fresh>>
          /\ shadowed' = IF k \in EU!Old /\ "new" \in {row[p], live[p]}
                         THEN shadowed \cup {p} ELSE shadowed \ {p}
    BY <1>2 DEF EU!Start
  <2>2. EU!TypeOK'
    BY <1>1, <2>1, UpkeepAssumption DEF EUInv, EU!TypeOK
  <2>3. OldHidesOrIsLate => OldHidesOrIsLate'
    BY <1>1, <2>1 DEF OldHidesOrIsLate, EU!Pids
  <2>4. OldBehindNewRow'
    BY <1>1, <2>1 DEF EUInv, OldBehindNewRow
  <2> QED BY <1>1, <2>2, <2>3, <2>4 DEF EUInv
<1>3. CASE EU!Register(p)
  <2>1. /\ UNCHANGED <<running, started, late, shadowed>> /\ fresh' = [fresh EXCEPT ![p] = TRUE]
        /\ row' = [row EXCEPT ![p] = EU!Version(running[p])] /\ running[p] \in {"server", "dev"}
    BY <1>3 DEF EU!Register
  <2>2. EU!TypeOK'
    BY <1>1, <2>1 DEF EUInv, EU!TypeOK, EU!Version
  <2>3. OldHidesOrIsLate => OldHidesOrIsLate'
    BY <2>1 DEF OldHidesOrIsLate
  <2>4. OldBehindNewRow'
    BY <1>1, <2>1 DEF EUInv, OldBehindNewRow, EU!Version, EU!Old
  <2> QED BY <1>1, <2>2, <2>3, <2>4 DEF EUInv
<1>4. CASE EU!Exit(p)
  <2>1. /\ UNCHANGED <<started, late, shadowed>> /\ running' = [running EXCEPT ![p] = "none"]
        /\ \/ row' = [row EXCEPT ![p] = EU!NoRow] /\ fresh' = [fresh EXCEPT ![p] = FALSE]
           \/ UNCHANGED <<row, fresh>>
    BY <1>4 DEF EU!Exit
  <2>2. EU!TypeOK'
    BY <1>1, <2>1 DEF EUInv, EU!TypeOK
  <2>3. OldHidesOrIsLate => OldHidesOrIsLate'
    BY <1>1, <2>1 DEF OldHidesOrIsLate, EU!Old, EU!Pids
  <2>4. OldBehindNewRow'
    BY <1>1, <2>1 DEF EUInv, OldBehindNewRow, EU!Old, EU!NoRow
  <2> QED BY <1>1, <2>2, <2>3, <2>4 DEF EUInv
<1>5. CASE EU!Age(p)
  <2>1. UNCHANGED <<running, started, row, late, shadowed>> /\ fresh' = [fresh EXCEPT ![p] = FALSE]
    BY <1>5 DEF EU!Age
  <2>2. EU!TypeOK'
    BY <1>1, <2>1 DEF EUInv, EU!TypeOK
  <2> QED BY <1>1, <2>1, <2>2 DEF EUInv, OldHidesOrIsLate, OldBehindNewRow
<1> QED BY <1>2, <1>3, <1>4, <1>5

(* The gate lists, prunes, scans, measures and activates.  What it scans is  *)
(* what it listed, and what it prunes only leaves fewer rows.                *)
LEMMA GateInv ==
  ASSUME EUInv, \/ EU!TryGate(TRUE) \/ EU!TryGate(FALSE) \/ EU!List \/ EU!Prune \/ EU!Scan
                \/ EU!Measure \/ EU!Activate \/ EU!Build \/ EU!ForgetHealth
  PROVE  EUInv'
<1> USE DEF EU!registry, EU!build
<1>1. CASE EU!TryGate(TRUE) \/ EU!TryGate(FALSE) \/ EU!Build \/ EU!ForgetHealth
  <2>1. UNCHANGED <<running, started, row, fresh, active, live, dead, late, shadowed>>
    BY <1>1 DEF EU!TryGate, EU!Build, EU!ForgetHealth
  <2>2. /\ EU!TypeOK' /\ (active = "v2" => gate' = "idle")
        /\ gate' \in {"health", "activate"} => gate \in {"health", "activate"}
    BY <1>1, <2>1 DEF EUInv, EU!TypeOK, EU!TryGate, EU!Build, EU!ForgetHealth
  <2> QED BY <2>1, <2>2 DEF EUInv, OldHidesOrIsLate, OldBehindNewRow
<1>2. CASE EU!List \/ EU!Prune
  <2>1. /\ UNCHANGED <<running, started, missing, onHold, healthy, measured, active, late, shadowed>>
        /\ gate \in {"list", "prune"} /\ gate' \in {"prune", "scan"}
    BY <1>2 DEF EU!List, EU!Prune
  <2>2. /\ row' \in [EU!Pids -> {"new", "below", EU!NoRow}] /\ fresh' \in [EU!Pids -> BOOLEAN]
        /\ live' \in [EU!Pids -> {"new", "below", EU!NoRow}] /\ dead' \subseteq EU!Pids
        /\ \A p \in EU!Pids : "new" \in {row'[p], live'[p]} => "new" \in {row[p], live[p]}
    BY <1>2 DEF EUInv, EU!TypeOK, EU!List, EU!Prune, EU!NoRow
  <2>3. EU!TypeOK'
    BY <2>1, <2>2 DEF EUInv, EU!TypeOK
  <2>4. OldBehindNewRow'
    BY <2>1, <2>2 DEF EUInv, OldBehindNewRow
  <2> QED BY <2>1, <2>3, <2>4 DEF EUInv
<1>3. CASE EU!Scan
  <2>1. /\ UNCHANGED <<running, started, row, fresh, missing, onHold, healthy, measured, active, dead,
                       shadowed>>
        /\ gate = "scan" /\ gate' = (IF EU!Blockers = {} THEN "health" ELSE "idle")
        /\ late' = {} /\ live' = [p \in EU!Pids |-> EU!NoRow]
    BY <1>3 DEF EU!Scan
  <2>2. EU!TypeOK' /\ OldBehindNewRow'
    BY <2>1 DEF EUInv, EU!TypeOK, OldBehindNewRow, EU!NoRow
  <2>3. ASSUME EU!Blockers = {} PROVE OldHidesOrIsLate'
    <3>1. ASSUME NEW p \in Local, running[p] \in EU!Old PROVE p \in shadowed
      <4>1. live[p] # "below" /\ live[p] # EU!NoRow
        BY <2>3, <3>1 DEF EU!Blockers, EU!Pids, EU!Old, EU!Kinds
      <4>2. live[p] = "new"
        BY <4>1 DEF EUInv, EU!TypeOK, EU!Pids
      <4> QED BY <3>1, <4>2 DEF EUInv, OldBehindNewRow, EU!Pids
    <3> QED BY <2>1, <3>1 DEF OldHidesOrIsLate
  <2> QED BY <2>1, <2>2, <2>3 DEF EUInv
<1>4. CASE EU!Measure \/ EU!Activate
  <2>1. /\ UNCHANGED <<running, started, row, fresh, missing, onHold, healthy, live, dead, late, shadowed>>
        /\ gate \in {"health", "activate"}
    BY <1>4 DEF EU!Measure, EU!Activate
  <2>2. EU!TypeOK' /\ (active' = "v2" => gate' = "idle")
    BY <1>4, <2>1 DEF EUInv, EU!TypeOK, EU!Measure, EU!Activate
  <2> QED BY <2>1, <2>2 DEF EUInv, OldHidesOrIsLate, OldBehindNewRow
<1> QED BY <1>1, <1>2, <1>3, <1>4

(* Whatever processes and the gate do, they keep the invariant.              *)
LEMMA EUStep == EUInv /\ [Move]_all => EUInv'
<1> SUFFICES ASSUME EUInv, [Move]_all PROVE EUInv'
  OBVIOUS
<1>1. [EU!Next]_euState
  BY DEF Move, all
<1>2. CASE UNCHANGED euState
  BY <1>2 DEF euState, EUInv, EU!TypeOK, OldHidesOrIsLate, OldBehindNewRow
<1>3. CASE EU!Next
  BY <1>3, ProcessesInv, GateInv DEF EU!Next, EU!Retry
<1> QED BY <1>1, <1>2, <1>3

-----------------------------------------------------------------------------
(* ContextTools.  A command that waits is a process group.                   *)
Groups == [pc : {"wait", "killed"}, main : BOOLEAN, child : BOOLEAN, code : {"ok", "failed"}]
Commands == [pc : {"queued", "start", "done"}] \cup Groups
Results == {"none", "ok", "failed", "timeout"}
Fetches == [pc : {"idle", "look", "get"}] \cup [pc : {"store"}, got : Nat]

(* The batch: a command has a result exactly when it is done.                *)
BatchOK ==
  /\ batch \in {"run", "search", "done"} /\ indexed \subseteq CX!Cmds
  /\ cmd \in [CX!Cmds -> Commands] /\ result \in [CX!Cmds -> Results]
  /\ \A i \in CX!Cmds : result[i] # "none" <=> cmd[i].pc = "done"

(* The cache, and what a fetch is about to put into it, was on the web.       *)
CacheOK ==
  /\ web \in Nat /\ cache \in 0 .. web
  /\ fetch \in [Fetchers -> Fetches]
  /\ \A f \in Fetchers : fetch[f].pc = "store" => fetch[f].got \in 0 .. web
CXInv == BatchOK /\ CacheOK /\ searches \in 0 .. MaxSearches

(* A command at one of the two later stages is a group.                      *)
LEMMA GroupStages ==
  ASSUME NEW x \in Commands
  PROVE  /\ x.pc \in {"queued", "start", "wait", "killed", "done"}
         /\ x.pc \in {"wait", "killed"} => x \in Groups
         /\ x \in Groups => x.pc \in {"wait", "killed"}
BY DEF Commands, Groups

(* Commands are queued and nothing is fetched when the upkeep begins.         *)
LEMMA CXInit == CX!Init => CXInv
<1> SUFFICES ASSUME CX!Init PROVE CXInv
  OBVIOUS
<1>1. BatchOK
  BY DEF CX!Init, BatchOK, Commands, Results
<1>2. CacheOK
  BY DEF CX!Init, CacheOK, Fetches, CX!NoCache
<1>3. searches \in 0 .. MaxSearches
  BY UpkeepAssumption DEF CX!Init
<1> QED BY <1>1, <1>2, <1>3 DEF CXInv

(* A command that is not done moves to another stage before the end.          *)
LEMMA CommandMoves ==
  ASSUME BatchOK, NEW i \in CX!Cmds, NEW x \in Commands, x.pc # "done", cmd[i].pc # "done",
         cmd' = [cmd EXCEPT ![i] = x], UNCHANGED <<result, batch, indexed>>
  PROVE  BatchOK'
BY DEF BatchOK

(* A command that is not done ends with a result.                            *)
LEMMA CommandEnds ==
  ASSUME BatchOK, NEW i \in CX!Cmds, NEW r \in Results \ {"none"}, CX!Finish(i, r),
         UNCHANGED <<batch, indexed>>
  PROVE  BatchOK'
<1>1. [pc |-> "done"] \in Commands /\ [pc |-> "done"].pc = "done"
  BY DEF Commands
<1> QED BY <1>1 DEF BatchOK, CX!Finish

(* What a command does, and what is done to it.                              *)
LEMMA CommandInv ==
  ASSUME BatchOK, NEW i \in CX!Cmds,
         CX!RunStep(i) \/ CX!Spawn(i) \/ CX!Exit(i) \/ CX!ChildExit(i)
  PROVE  BatchOK'
<1>1. cmd \in [CX!Cmds -> Commands] /\ cmd[i] \in Commands
  BY DEF BatchOK
<1>2. cmd[i].pc \in {"wait", "killed"} => cmd[i] \in Groups
  BY <1>1, GroupStages
<1>3. ASSUME NEW x \in Groups, cmd[i].pc \in {"wait", "killed"}, cmd' = [cmd EXCEPT ![i] = x],
             UNCHANGED <<result, batch, indexed>>
      PROVE  BatchOK'
  <2>1. x \in Commands /\ x.pc # "done"
    BY <1>3 DEF Commands, Groups
  <2> QED BY <1>3, <2>1, CommandMoves
<1>4. CASE CX!Acquire(i)
  <2>1. [pc |-> "start"] \in Commands /\ [pc |-> "start"].pc # "done"
    BY DEF Commands
  <2> QED BY <1>4, <2>1, CommandMoves DEF CX!Acquire
<1>5. CASE CX!Start(i)
  <2>1. /\ [pc |-> "wait", main |-> TRUE, child |-> FALSE, code |-> "ok"] \in Commands
        /\ [pc |-> "wait", main |-> TRUE, child |-> FALSE, code |-> "ok"].pc # "done"
    BY DEF Commands, Groups
  <2> QED BY <1>5, <2>1, CommandMoves DEF CX!Start
<1>6. CASE CX!NoRuntime(i)
  <2>1. "failed" \in Results \ {"none"}
    BY DEF Results
  <2> QED BY <1>6, <2>1, CommandEnds DEF CX!NoRuntime
<1>7. CASE CX!Deadline(i)
  <2>1. cmd[i] \in Groups
    BY <1>2, <1>7 DEF CX!Deadline
  <2>2. [cmd[i] EXCEPT !.pc = "killed", !.main = FALSE, !.child = FALSE] \in Groups
    BY <2>1 DEF Groups
  <2>3. cmd' = [cmd EXCEPT ![i] = [cmd[i] EXCEPT !.pc = "killed", !.main = FALSE, !.child = FALSE]]
    BY <1>1, <1>7, <2>1 DEF CX!Deadline, CX!KillGroup
  <2> QED BY <1>3, <1>7, <2>2, <2>3 DEF CX!Deadline
<1>8. CASE CX!Return(i)
  <2>1. cmd[i].code \in {"ok", "failed"}
    BY <1>2, <1>8 DEF CX!Return, Groups
  <2>2. PICK r \in {"timeout", "ok", cmd[i].code} : CX!Finish(i, r)
    BY <1>8 DEF CX!Return
  <2>3. r \in Results \ {"none"}
    BY <2>1 DEF Results
  <2> QED BY <1>8, <2>2, <2>3, CommandEnds DEF CX!Return
<1>9. CASE CX!Spawn(i) \/ CX!ChildExit(i)
  <2>1. cmd[i] \in Groups
    BY <1>2, <1>9 DEF CX!Spawn, CX!ChildExit
  <2>2. ASSUME NEW b \in BOOLEAN PROVE [cmd[i] EXCEPT !.child = b] \in Groups
    BY <2>1 DEF Groups
  <2>3. PICK b \in BOOLEAN : cmd' = [cmd EXCEPT ![i] = [cmd[i] EXCEPT !.child = b]]
    BY <1>1, <1>9 DEF CX!Spawn, CX!ChildExit
  <2> QED BY <1>3, <1>9, <2>2, <2>3 DEF CX!Spawn, CX!ChildExit
<1>10. CASE CX!Exit(i)
  <2>1. cmd[i] \in Groups
    BY <1>2, <1>10 DEF CX!Exit
  <2>2. ASSUME NEW c \in {"ok", "failed"}
        PROVE  [cmd[i] EXCEPT !.main = FALSE, !.code = c] \in Groups
    BY <2>1 DEF Groups
  <2>3. PICK c \in {"ok", "failed"} :
          cmd' = [cmd EXCEPT ![i] = [cmd[i] EXCEPT !.main = FALSE, !.code = c]]
    BY <1>1, <1>10, <2>1 DEF CX!Exit
  <2> QED BY <1>3, <1>10, <2>2, <2>3 DEF CX!Exit
<1> QED BY <1>4, <1>5, <1>6, <1>7, <1>8, <1>9, <1>10 DEF CX!RunStep

(* The batch goes on once its commands are done, and the next one begins.     *)
LEMMA BatchInv ==
  ASSUME BatchOK, CX!IndexOutput \/ CX!SearchOutput \/ CX!NewBatch
  PROVE  BatchOK'
<1>1. CASE CX!NewBatch
  <2>1. [pc |-> "queued"] \in Commands /\ [pc |-> "queued"].pc # "done" /\ "none" \in Results
    BY DEF Commands, Results
  <2> QED BY <1>1, <2>1 DEF BatchOK, CX!NewBatch
<1>2. CASE CX!IndexOutput \/ CX!SearchOutput
  BY <1>2 DEF BatchOK, CX!IndexOutput, CX!SearchOutput
<1> QED BY <1>1, <1>2

(* What a fetch does, and what becomes of the web and the cache.              *)
LEMMA FetchInv ==
  ASSUME CacheOK,
         \/ CX!WebChanges \/ CX!CacheExpires
         \/ \E f \in Fetchers : \/ \E force \in BOOLEAN : CX!FetchStart(f, force)
                                \/ CX!LookInCache(f) \/ CX!Get(f) \/ CX!Store(f)
  PROVE  CacheOK'
<1>1. web \in Nat /\ cache \in 0 .. web /\ 0 \in 0 .. web
  BY DEF CacheOK
<1>2. CASE CX!WebChanges
  <2>1. web' \in Nat /\ \A n \in 0 .. web : n \in 0 .. web'
    BY <1>1, <1>2 DEF CX!WebChanges
  <2> QED BY <1>1, <1>2, <2>1 DEF CacheOK, CX!WebChanges
<1>3. CASE CX!CacheExpires
  BY <1>1, <1>3 DEF CacheOK, CX!CacheExpires, CX!NoCache
<1>4. ASSUME NEW f \in Fetchers, NEW x \in Fetches, x.pc = "store" => x.got \in 0 .. web,
             fetch' = [fetch EXCEPT ![f] = x], web' = web, cache' \in 0 .. web
      PROVE  CacheOK'
  <2>1. fetch' \in [Fetchers -> Fetches]
    BY <1>4 DEF CacheOK
  <2>2. \A g \in Fetchers : fetch'[g].pc = "store" => fetch'[g].got \in 0 .. web
    BY <1>4 DEF CacheOK
  <2> QED BY <1>1, <1>4, <2>1, <2>2 DEF CacheOK
<1>5. /\ [pc |-> "idle"] \in Fetches /\ [pc |-> "look"] \in Fetches /\ [pc |-> "get"] \in Fetches
      /\ [pc |-> "idle"].pc # "store" /\ [pc |-> "look"].pc # "store" /\ [pc |-> "get"].pc # "store"
  BY DEF Fetches
<1>6. ASSUME NEW f \in Fetchers, NEW force \in BOOLEAN, CX!FetchStart(f, force) PROVE CacheOK'
  BY <1>1, <1>4, <1>5, <1>6 DEF CX!FetchStart, CX!NoCache
<1>7. ASSUME NEW f \in Fetchers, CX!LookInCache(f) PROVE CacheOK'
  BY <1>1, <1>4, <1>5, <1>7 DEF CX!LookInCache
<1>8. ASSUME NEW f \in Fetchers, CX!Get(f) PROVE CacheOK'
  <2>1. /\ [pc |-> "store", got |-> web] \in Fetches
        /\ [pc |-> "store", got |-> web].got \in 0 .. web
    BY <1>1 DEF Fetches
  <2> QED BY <1>1, <1>4, <1>5, <1>8, <2>1 DEF CX!Get
<1>9. ASSUME NEW f \in Fetchers, CX!Store(f) PROVE CacheOK'
  <2>1. cache' \in 0 .. web
    BY <1>9 DEF CacheOK, CX!Store
  <2> QED BY <1>1, <1>4, <1>5, <1>9, <2>1 DEF CX!Store
<1> QED BY <1>2, <1>3, <1>6, <1>7, <1>8, <1>9

(* Whatever commands, fetches and searches do.                               *)
LEMMA CXStep == CXInv /\ [Move]_all => CXInv'
<1> SUFFICES ASSUME CXInv, [Move]_all PROVE CXInv'
  OBVIOUS
<1>1. [CX!Next]_cxState
  BY DEF Move, all
<1>2. CASE UNCHANGED cxState
  BY <1>2 DEF cxState, CXInv, BatchOK, CacheOK
<1>3. ASSUME BatchOK', CacheOK', searches' \in {searches, 0} PROVE CXInv'
  <2>1. MaxSearches \in Nat
    BY UpkeepAssumption
  <2> QED BY <1>3, <2>1 DEF CXInv
<1>4. CASE CX!Search
  <2>1. MaxSearches \in Nat
    BY UpkeepAssumption
  <2>2. searches' \in 0 .. MaxSearches
    BY <1>4, <2>1 DEF CXInv, CX!Search
  <2> QED BY <1>4, <2>2 DEF CXInv, BatchOK, CacheOK, CX!Search
<1>5. CASE \/ CX!WebChanges \/ CX!CacheExpires
           \/ \E f \in Fetchers : \/ \E force \in BOOLEAN : CX!FetchStart(f, force)
                                  \/ CX!LookInCache(f) \/ CX!Get(f) \/ CX!Store(f)
  <2>1. CacheOK'
    BY <1>5, FetchInv DEF CXInv
  <2>2. UNCHANGED <<cmd, result, batch, indexed>> /\ searches' \in {searches, 0}
    BY <1>5 DEF CX!WebChanges, CX!CacheExpires, CX!FetchStart, CX!LookInCache, CX!Get, CX!Store
  <2>3. BatchOK'
    BY <2>2 DEF CXInv, BatchOK
  <2> QED BY <1>3, <2>1, <2>2, <2>3
<1>6. CASE \/ CX!IndexOutput \/ CX!SearchOutput \/ CX!NewBatch
           \/ \E i \in CX!Cmds : CX!RunStep(i) \/ CX!Spawn(i) \/ CX!Exit(i) \/ CX!ChildExit(i)
  <2>1. BatchOK'
    BY <1>6, BatchInv, CommandInv DEF CXInv
  <2>2. UNCHANGED <<web, cache, fetch>> /\ searches' \in {searches, 0}
    BY <1>6 DEF CX!IndexOutput, CX!SearchOutput, CX!NewBatch, CX!RunStep, CX!Acquire, CX!Start,
                CX!NoRuntime, CX!Deadline, CX!Return, CX!Spawn, CX!Exit, CX!ChildExit, CX!tools
  <2>3. CacheOK'
    BY <2>2 DEF CXInv, CacheOK
  <2> QED BY <1>3, <2>1, <2>2, <2>3
<1> QED BY <1>1, <1>2, <1>4, <1>5, <1>6 DEF CX!Next, CX!Step

(* The invariant gives the types.                                            *)
LEMMA CXTypeOK == CXInv => CX!TypeOK
BY DEF CXInv, BatchOK, CacheOK, CX!TypeOK

-----------------------------------------------------------------------------
(* Curation.  What a worker and an operator hold of a page or a listing.     *)
CURows == [id : Mems, meta : CU!Meta]
Passes ==
  {CU!Idle, CU!Down} \cup [pc : {"list"}, boot : BOOLEAN, left : Int]
    \cup [pc : {"page"}, boot : BOOLEAN, left : Int, page : SUBSET CURows, full : BOOLEAN]
    \cup [pc : {"end"}, boot : BOOLEAN]
Sweeps ==
  {CU!Idle} \cup [pc : {"curate"}, rows : SUBSET CURows, record : BOOLEAN]
    \cup [pc : {"archive"}, ids : SUBSET Mems]
CUInv ==
  /\ mem \in [Mems -> [live : BOOLEAN, meta : CU!Meta]]
  /\ reconciled \in {CU!Old, CU!Current} /\ due \in BOOLEAN /\ cuFails \in 0 .. cuMaxFails
  /\ pass \in [Workers -> Passes] /\ sweep \in [Operators -> Sweeps]

(* The stage tells what is held.                                             *)
LEMMA PassStages ==
  ASSUME NEW x \in Passes
  PROVE  /\ x.pc \in {"down", "idle", "list", "page", "end"}
         /\ x.pc = "list" => x \in [pc : {"list"}, boot : BOOLEAN, left : Int]
         /\ x.pc = "page" => x \in [pc : {"page"}, boot : BOOLEAN, left : Int,
                                    page : SUBSET CURows, full : BOOLEAN]
         /\ x.pc = "end" => x \in [pc : {"end"}, boot : BOOLEAN]
BY DEF Passes, CU!Idle, CU!Down

(* As much for a sweep.                                                      *)
LEMMA SweepStages ==
  ASSUME NEW x \in Sweeps
  PROVE  /\ x.pc = "curate" => x \in [pc : {"curate"}, rows : SUBSET CURows, record : BOOLEAN]
         /\ x.pc = "archive" => x \in [pc : {"archive"}, ids : SUBSET Mems]
BY DEF Sweeps, CU!Idle

(* A memory that is curated has metadata of the current scorer.              *)
LEMMA RecurateOK ==
  ASSUME NEW r \in CURows
  PROVE  CU!Recurate(r) \in CU!Meta
<1> DEFINE f == CU!Fresh(r.meta)
<1>1. r.meta \in CU!Meta
  BY DEF CURows
<1>2. f \in CU!Meta
  <2>1. 0 \in 0 .. Floor /\ CU!Current \in {CU!Missing, CU!Old, CU!Current}
    BY UpkeepAssumption
  <2> QED BY <1>1, <2>1 DEF CU!Meta, CU!Fresh
<1> HIDE DEF f
<1>3. ASSUME NEW low PROVE CU!Flag(f, low) \in {"", "quality", "never", "consolidated"}
  BY <1>2 DEF CU!Meta, CU!Flag
<1>4. [f EXCEPT !.flag = CU!Flag(f, r.id \in Low)] \in CU!Meta
  BY <1>2, <1>3 DEF CU!Meta
<1> QED BY <1>4 DEF CU!Recurate, f

(* Metadata counts an injection or a use.                                    *)
LEMMA CountedOK ==
  ASSUME NEW x \in CU!Meta
  PROVE  /\ \A n \in 0 .. Floor : [x EXCEPT !.injected = n] \in CU!Meta
         /\ [x EXCEPT !.used = 1] \in CU!Meta
<1>1. 1 \in 0 .. 1
  OBVIOUS
<1> QED BY <1>1 DEF CU!Meta

(* The metadata of one memory is replaced.                                   *)
LEMMA UpdateOK ==
  ASSUME NEW m \in Mems, NEW x \in CU!Meta, CUInv, CU!UpdateMetadata(m, x)
  PROVE  mem' \in [Mems -> [live : BOOLEAN, meta : CU!Meta]]
BY DEF CUInv, CU!UpdateMetadata

(* Every memory is live and nobody curates when the upkeep begins.           *)
LEMMA CUInit == CU!Init => CUInv
<1> SUFFICES ASSUME CU!Init PROVE CUInv
  OBVIOUS
<1>1. Floor \in 0 .. Floor /\ 0 \in 0 .. 1 /\ 0 \in 0 .. cuMaxFails
  BY UpkeepAssumption
<1>2. mem \in [Mems -> [live : BOOLEAN, meta : CU!Meta]]
  <2>1. \A m \in Mems :
          [ver |-> IF m \in PastTime THEN CU!Old ELSE CU!Missing, flag |-> "", injected |-> Floor,
           used |-> 0, pinned |-> m \in Pinned] \in CU!Meta
    BY <1>1 DEF CU!Meta
  <2> QED BY <2>1 DEF CU!Init
<1>3. pass \in [Workers -> Passes] /\ sweep \in [Operators -> Sweeps]
  BY DEF CU!Init, Passes, Sweeps
<1> QED BY <1>1, <1>2, <1>3 DEF CU!Init, CUInv

(* What a worker does.                                                       *)
LEMMA WorkerInv ==
  ASSUME CUInv, NEW w \in Workers, CU!WorkerStep(w) \/ CU!FailPass(w) \/ CU!Exit(w)
  PROVE  CUInv'
<1>1. /\ pass \in [Workers -> Passes] /\ pass[w] \in Passes /\ cuFails \in 0 .. cuMaxFails
      /\ CU!Idle \in Passes /\ CU!Down \in Passes
  BY DEF CUInv, Passes
<1>2. ASSUME NEW next \in Passes, pass' = [pass EXCEPT ![w] = next] PROVE pass' \in [Workers -> Passes]
  BY <1>1, <1>2
<1>3. ASSUME pass' \in [Workers -> Passes], UNCHANGED <<mem, sweep>>,
             cuFails' = cuFails \/ (cuFails < cuMaxFails /\ cuFails' = cuFails + 1),
             reconciled' \in {reconciled, CU!Current}, due' \in {due, FALSE}
      PROVE  CUInv'
  <2>1. cuFails' \in 0 .. cuMaxFails
    BY <1>1, <1>3, UpkeepAssumption
  <2> QED BY <1>3, <2>1 DEF CUInv
<1>4. CASE CU!Bootstrap(w) \/ CU!TryRun(w)
  <2>1. CU!List(TRUE, CU!Unlimited) \in Passes /\ CU!List(FALSE, MaxUpdates) \in Passes
    BY UpkeepAssumption DEF CU!List, Passes, CU!Unlimited
  <2> QED BY <1>1, <1>2, <1>3, <1>4, <2>1 DEF CU!Bootstrap, CU!TryRun
<1>5. CASE CU!ListPage(w)
  <2>1. pass[w] \in [pc : {"list"}, boot : BOOLEAN, left : Int]
    BY <1>1, <1>5, PassStages DEF CU!ListPage, CU!At
  <2>2. PICK page \in SUBSET Mems :
          pass' = [pass EXCEPT ![w] = [pc |-> "page", boot |-> pass[w].boot, left |-> pass[w].left,
                                       page |-> CU!Rows(page),
                                       full |-> CU!Cardinality(page) = PageSize]]
    BY <1>5 DEF CU!ListPage, CU!kSubset, CU!Candidates, CU!Live
  <2>3. CU!Rows(page) \subseteq CURows
    BY DEF CUInv, CU!Rows, CURows
  <2>4. [pc |-> "page", boot |-> pass[w].boot, left |-> pass[w].left, page |-> CU!Rows(page),
         full |-> CU!Cardinality(page) = PageSize] \in Passes
    BY <2>1, <2>3 DEF Passes
  <2> QED BY <1>2, <1>3, <1>5, <2>2, <2>4 DEF CU!ListPage
<1>6. CASE CU!CurateRow(w)
  <2>1. pass[w] \in [pc : {"page"}, boot : BOOLEAN, left : Int, page : SUBSET CURows, full : BOOLEAN]
    BY <1>1, <1>6, PassStages DEF CU!CurateRow, CU!At
  <2>2. PICK r \in pass[w].page :
          /\ CU!UpdateMetadata(r.id, CU!Recurate(r))
          /\ pass' = [pass EXCEPT ![w] =
               IF CU!Recurate(r) # r.meta /\ pass[w].left = 1
               THEN [pc |-> "end", boot |-> pass[w].boot]
               ELSE [pass[w] EXCEPT !.page = @ \ {r},
                                    !.left = IF CU!Recurate(r) = r.meta THEN @ ELSE @ - 1]]
    BY <1>6 DEF CU!CurateRow
  <2>3. r \in CURows /\ r.id \in Mems
    BY <2>1 DEF CURows
  <2>4. mem' \in [Mems -> [live : BOOLEAN, meta : CU!Meta]]
    BY <2>2, <2>3, RecurateOK, UpdateOK
  <2>5. pass'[w] \in Passes
    <3>1. /\ pass[w].boot \in BOOLEAN /\ pass[w].left \in Int /\ pass[w].left - 1 \in Int
          /\ pass[w].page \ {r} \in SUBSET CURows
      BY <2>1
    <3>2. [pc |-> "end", boot |-> pass[w].boot] \in Passes
      BY <3>1 DEF Passes
    <3>3. ASSUME NEW left \in Int
          PROVE  [pass[w] EXCEPT !.page = pass[w].page \ {r}, !.left = left] \in Passes
      <4>1. [pass[w] EXCEPT !.page = pass[w].page \ {r}, !.left = left]
              \in [pc : {"page"}, boot : BOOLEAN, left : Int, page : SUBSET CURows, full : BOOLEAN]
        BY <2>1, <3>1
      <4> QED BY <4>1 DEF Passes
    <3>4. CASE CU!Recurate(r) # r.meta /\ pass[w].left = 1
      BY <1>1, <2>2, <3>2, <3>4
    <3>5. CASE CU!Recurate(r) = r.meta
      <4>1. pass'[w] = [pass[w] EXCEPT !.page = pass[w].page \ {r}, !.left = pass[w].left]
        BY <1>1, <2>1, <2>2, <3>5
      <4> QED BY <3>1, <3>3, <4>1
    <3>6. CASE CU!Recurate(r) # r.meta /\ pass[w].left # 1
      <4>1. pass'[w] = [pass[w] EXCEPT !.page = pass[w].page \ {r}, !.left = pass[w].left - 1]
        BY <1>1, <2>1, <2>2, <3>6
      <4> QED BY <3>1, <3>3, <4>1
    <3> QED BY <3>4, <3>5, <3>6
  <2>6. pass' \in [Workers -> Passes]
    <3>1. /\ pass' = [v \in Workers |-> pass'[v]]
          /\ \A v \in Workers : v # w => pass'[v] = pass[v]
      BY <1>1, <2>2
    <3> QED BY <1>1, <2>5, <3>1
  <2> QED BY <1>6, <2>4, <2>6 DEF CU!CurateRow, CUInv
<1>7. CASE CU!EndPage(w)
  <2>1. pass[w] \in [pc : {"page"}, boot : BOOLEAN, left : Int, page : SUBSET CURows, full : BOOLEAN]
    BY <1>1, <1>7, PassStages DEF CU!EndPage, CU!At
  <2>2. /\ CU!List(pass[w].boot, pass[w].left) \in Passes
        /\ [pc |-> "end", boot |-> pass[w].boot] \in Passes
    BY <2>1 DEF Passes, CU!List
  <2> QED BY <1>2, <1>3, <1>7, <2>2 DEF CU!EndPage
<1>8. CASE CU!Record(w) \/ CU!FailPass(w) \/ CU!Exit(w)
  BY <1>1, <1>2, <1>3, <1>8 DEF CU!Record, CU!FailPass, CU!Exit
<1> QED BY <1>4, <1>5, <1>6, <1>7, <1>8 DEF CU!WorkerStep

(* What an operator does.                                                    *)
LEMMA OperatorInv ==
  ASSUME CUInv, NEW o \in Operators,
         \/ \E record \in BOOLEAN : CU!ListAllLocal(o, record)
         \/ CU!ReconcileRow(o) \/ CU!EndReconcile(o) \/ CU!ListPastTime(o) \/ CU!Archive(o)
  PROVE  CUInv'
<1>1. sweep \in [Operators -> Sweeps] /\ sweep[o] \in Sweeps /\ CU!Idle \in Sweeps
  BY DEF CUInv, Sweeps
<1>2. ASSUME NEW next \in Sweeps, sweep' = [sweep EXCEPT ![o] = next]
      PROVE  sweep' \in [Operators -> Sweeps]
  BY <1>1, <1>2
<1>3. ASSUME NEW record \in BOOLEAN, CU!ListAllLocal(o, record) PROVE CUInv'
  <2>1. CU!Rows(CU!Live) \subseteq CURows
    BY DEF CUInv, CU!Rows, CURows, CU!Live
  <2>2. [pc |-> "curate", rows |-> CU!Rows(CU!Live), record |-> record] \in Sweeps
    BY <2>1 DEF Sweeps
  <2> QED BY <1>2, <1>3, <2>2 DEF CU!ListAllLocal, CUInv
<1>4. CASE CU!ReconcileRow(o)
  <2>1. sweep[o] \in [pc : {"curate"}, rows : SUBSET CURows, record : BOOLEAN]
    BY <1>1, <1>4, SweepStages DEF CU!ReconcileRow
  <2>2. PICK r \in sweep[o].rows :
          /\ sweep' = [sweep EXCEPT ![o] = [sweep[o] EXCEPT !.rows = sweep[o].rows \ {r}]]
          /\ mem' = mem \/ CU!UpdateMetadata(r.id, CU!Recurate(r))
          /\ cuFails' = cuFails \/ (cuFails < cuMaxFails /\ cuFails' = cuFails + 1)
    BY <1>1, <1>4, <2>1 DEF CU!ReconcileRow
  <2>3. [sweep[o] EXCEPT !.rows = sweep[o].rows \ {r}] \in Sweeps
    BY <2>1 DEF Sweeps
  <2>4. r \in CURows /\ r.id \in Mems
    BY <2>1 DEF CURows
  <2>5. mem' \in [Mems -> [live : BOOLEAN, meta : CU!Meta]]
    <3>1. CASE mem' = mem
      BY <3>1 DEF CUInv
    <3>2. CASE CU!UpdateMetadata(r.id, CU!Recurate(r))
      BY <2>4, <3>2, RecurateOK, UpdateOK
    <3> QED BY <2>2, <3>1, <3>2
  <2>6. cuFails' \in 0 .. cuMaxFails
    BY <2>2, UpkeepAssumption DEF CUInv
  <2>7. sweep' \in [Operators -> Sweeps]
    BY <1>2, <2>2, <2>3
  <2> QED BY <1>4, <2>5, <2>6, <2>7 DEF CU!ReconcileRow, CUInv
<1>5. CASE CU!EndReconcile(o)
  BY <1>1, <1>2, <1>5 DEF CU!EndReconcile, CUInv
<1>6. CASE CU!ListPastTime(o)
  <2>1. [pc |-> "archive", ids |-> {m \in CU!Live : ~mem[m].meta.pinned /\ m \in PastTime}] \in Sweeps
    BY DEF Sweeps, CU!Live
  <2> QED BY <1>2, <1>6, <2>1 DEF CU!ListPastTime, CUInv
<1>7. CASE CU!Archive(o)
  <2>1. sweep[o] \in [pc : {"archive"}, ids : SUBSET Mems]
    BY <1>1, <1>7, SweepStages DEF CU!Archive
  <2>2. CASE sweep[o].ids = {}
    BY <1>1, <1>2, <1>7, <2>2 DEF CU!Archive, CUInv
  <2>3. ASSUME NEW m \in sweep[o].ids, mem' = [mem EXCEPT ![m].live = FALSE],
               sweep' = [sweep EXCEPT ![o].ids = @ \ {m}]
        PROVE  CUInv'
    <3>1. [sweep[o] EXCEPT !.ids = sweep[o].ids \ {m}] \in Sweeps
      BY <2>1 DEF Sweeps
    <3>2. sweep' \in [Operators -> Sweeps]
      BY <1>1, <1>2, <2>3, <3>1
    <3>3. mem' \in [Mems -> [live : BOOLEAN, meta : CU!Meta]]
      BY <2>1, <2>3 DEF CUInv
    <3> QED BY <1>7, <3>2, <3>3 DEF CU!Archive, CUInv
  <2> QED BY <1>7, <2>2, <2>3 DEF CU!Archive
<1> QED BY <1>3, <1>4, <1>5, <1>6, <1>7

(* Whatever workers, operators, hooks and time do.                           *)
LEMMA CUStep == CUInv /\ [Move]_all => CUInv'
<1> SUFFICES ASSUME CUInv, [Move]_all PROVE CUInv'
  OBVIOUS
<1>1. [CU!Next]_cuState
  BY DEF Move, all
<1>2. CASE UNCHANGED cuState
  BY <1>2 DEF cuState, CUInv
<1>3. CASE CU!IntervalPasses \/ CU!Clean
  <2>1. mem' \in [Mems -> [live : BOOLEAN, meta : CU!Meta]]
    <3>1. CASE CU!IntervalPasses
      BY <3>1 DEF CU!IntervalPasses, CUInv
    <3>2. CASE CU!Clean
      BY <3>2 DEF CU!Clean, CUInv
    <3> QED BY <1>3, <3>1, <3>2
  <2> QED BY <1>3, <2>1 DEF CU!IntervalPasses, CU!Clean, CUInv
<1>4. ASSUME NEW m \in Mems, CU!TrackInjected(m) \/ CU!MarkUsed(m) PROVE CUInv'
  <2>1. PICK x \in CU!Meta : mem' = [mem EXCEPT ![m] = [mem[m] EXCEPT !.meta = x]]
    <3>1. mem[m] \in [live : BOOLEAN, meta : CU!Meta] /\ mem[m].meta \in CU!Meta
      BY DEF CUInv
    <3>2. CASE CU!TrackInjected(m)
      <4>1. mem[m].meta.injected + 1 \in 0 .. Floor
        <5>1. mem[m].meta.injected \in 0 .. Floor /\ mem[m].meta.injected < Floor
          BY <3>1, <3>2 DEF CU!Meta, CU!TrackInjected
        <5>2. Floor \in Nat
          BY UpkeepAssumption
        <5> QED BY <5>1, <5>2
      <4>2. [mem[m].meta EXCEPT !.injected = mem[m].meta.injected + 1] \in CU!Meta
        BY <3>1, <4>1, CountedOK
      <4>3. mem' = [mem EXCEPT ![m] =
              [mem[m] EXCEPT !.meta = [mem[m].meta EXCEPT !.injected = mem[m].meta.injected + 1]]]
        BY <3>1, <3>2 DEF CU!TrackInjected, CUInv
      <4> QED BY <4>2, <4>3
    <3>3. CASE CU!MarkUsed(m)
      <4>1. [mem[m].meta EXCEPT !.used = 1] \in CU!Meta
        BY <3>1, CountedOK
      <4>2. mem' = [mem EXCEPT ![m] = [mem[m] EXCEPT !.meta = [mem[m].meta EXCEPT !.used = 1]]]
        BY <3>1, <3>3 DEF CU!MarkUsed, CUInv
      <4> QED BY <4>1, <4>2
    <3> QED BY <1>4, <3>2, <3>3
  <2>2. mem' \in [Mems -> [live : BOOLEAN, meta : CU!Meta]]
    BY <2>1 DEF CUInv
  <2> QED BY <1>4, <2>2 DEF CU!TrackInjected, CU!MarkUsed, CUInv
<1> QED BY <1>1, <1>2, <1>3, <1>4, WorkerInv, OperatorInv DEF CU!Next

(* The invariant gives the types.                                            *)
LEMMA CUTypeOK == CUInv => CU!TypeOK
BY PassStages DEF CUInv, CU!TypeOK

-----------------------------------------------------------------------------
(* ContextStore.  How much a set of chunks holds.                            *)
Held(C) == Cardinality(CS!Bytes(C))

(* A byte is one of a chunk's.                                               *)
LEMMA ByteOf ==
  ASSUME NEW C, NEW x
  PROVE  x \in CS!Bytes(C) <=> \E k \in C : x \in {k} \X (1 .. Size[k.part])
BY DEF CS!Bytes

(* Two sets of bytes add up when the sets of chunks do.                      *)
LEMMA BytesSplit ==
  ASSUME NEW C, NEW D \in SUBSET C
  PROVE  /\ CS!Bytes(D) \subseteq CS!Bytes(C)
         /\ CS!Bytes(C \ D) = CS!Bytes(C) \ CS!Bytes(D)
<1>1. \A x : x \in CS!Bytes(D) => x \in CS!Bytes(C)
  BY ByteOf
<1>2. \A x : x \in CS!Bytes(C \ D) => x \in CS!Bytes(C) /\ x \notin CS!Bytes(D)
  <2>1. SUFFICES ASSUME NEW x, NEW k \in C \ D, x \in {k} \X (1 .. Size[k.part])
                 PROVE  x \in CS!Bytes(C) /\ x \notin CS!Bytes(D)
    BY ByteOf
  <2>2. x \in CS!Bytes(C)
    BY <2>1, ByteOf
  <2>3. \A d \in D : x \notin {d} \X (1 .. Size[d.part])
    BY <2>1
  <2> QED BY <2>2, <2>3, ByteOf
<1>3. \A x : x \in CS!Bytes(C) /\ x \notin CS!Bytes(D) => x \in CS!Bytes(C \ D)
  <2>1. SUFFICES ASSUME NEW x, NEW k \in C, x \in {k} \X (1 .. Size[k.part]), x \notin CS!Bytes(D)
                 PROVE  x \in CS!Bytes(C \ D)
    BY ByteOf
  <2>2. k \in C \ D
    BY <2>1, ByteOf
  <2> QED BY <2>1, <2>2, ByteOf
<1> QED BY <1>1, <1>2, <1>3

(* Finitely many bytes are counted by a number, and more chunks hold more.    *)
LEMMA HeldMono ==
  ASSUME NEW C, IsFiniteSet(CS!Bytes(C)), NEW D \in SUBSET C
  PROVE  /\ IsFiniteSet(CS!Bytes(D))
         /\ Held(C) \in Nat /\ Held(D) \in Nat /\ Held(D) <= Held(C)
<1>1. CS!Bytes(D) \in SUBSET CS!Bytes(C)
  BY BytesSplit
<1>2. IsFiniteSet(CS!Bytes(D)) /\ Cardinality(CS!Bytes(D)) <= Cardinality(CS!Bytes(C))
  BY <1>1, FS_Subset
<1> QED BY <1>2, FS_CardinalityType DEF Held

(* What is deleted is no longer held.                                        *)
LEMMA HeldSplit ==
  ASSUME NEW C, IsFiniteSet(CS!Bytes(C)), NEW D \in SUBSET C
  PROVE  Held(C \ D) = Held(C) - Held(D)
<1>1. /\ CS!Bytes(D) \subseteq CS!Bytes(C)
      /\ CS!Bytes(C \ D) = CS!Bytes(C) \ CS!Bytes(D)
  BY BytesSplit
<1>2. Cardinality(CS!Bytes(C) \ CS!Bytes(D))
        = Cardinality(CS!Bytes(C)) - Cardinality(CS!Bytes(C) \cap CS!Bytes(D))
  BY FS_Difference
<1>3. CS!Bytes(C) \cap CS!Bytes(D) = CS!Bytes(D)
  BY <1>1
<1> QED BY <1>1, <1>2, <1>3 DEF Held

(* Nothing holds nothing.                                                    *)
LEMMA HeldEmpty == CS!Bytes({}) = {} /\ Held({}) = 0
<1>1. CS!Bytes({}) = {}
  BY DEF CS!Bytes
<1> QED BY <1>1, FS_EmptySet DEF Held

(* One more chunk adds finitely many bytes.                                  *)
LEMMA BytesGrow ==
  ASSUME NEW C, IsFiniteSet(CS!Bytes(C)), NEW k, k.part \in DOMAIN Size
  PROVE  IsFiniteSet(CS!Bytes(C \cup {k}))
<1>1. Size[k.part] \in Nat
  BY UpkeepAssumption
<1>2. IsFiniteSet({k}) /\ IsFiniteSet(1 .. Size[k.part])
  <2>1. 1 \in Int /\ Size[k.part] \in Int
    BY <1>1
  <2> QED BY <2>1, FS_Singleton, FS_Interval
<1>3. IsFiniteSet({k} \X (1 .. Size[k.part]))
  BY <1>2, FS_Product
<1>4. CS!Bytes(C \cup {k}) = CS!Bytes(C) \cup ({k} \X (1 .. Size[k.part]))
  <2>1. \A x : x \in CS!Bytes(C \cup {k}) <=> x \in CS!Bytes(C) \/ x \in {k} \X (1 .. Size[k.part])
    <3>1. TAKE x
    <3> QED BY ByteOf
  <2> QED BY <2>1
<1>5. IsFiniteSet(CS!Bytes(C) \cup ({k} \X (1 .. Size[k.part])))
  BY <1>3, FS_Union
<1> QED BY <1>4, <1>5

(* The module's count is this one.                                           *)
LEMMA HeldIsTotal == ASSUME NEW C PROVE CS!TotalSize(C) = Held(C)
BY DEF CS!TotalSize, CS!Cardinality, Cardinality, Held

-----------------------------------------------------------------------------
(* What a caller and an evictor hold.                                        *)
Parts == Seq(DOMAIN Size) \ {<<>>}
Chunks == [id : Nat, part : DOMAIN Size, project : Projects, art : Nat, at : Nat]
Artifacts == [id : Nat, doc : Docs, ttl : BOOLEAN]
Indexing == [pc : {"look", "insert"}, todo : Parts, project : Projects]
Adding == [pc : {"row"}, doc : Docs, ttl : BOOLEAN, project : Projects]
Chunking == [pc : {"chunk"}, art : Nat, project : Projects, todo : Parts]
Jobs == [pc : {"idle"}] \cup Indexing \cup Adding \cup Chunking
Rounds ==
  [pc : {"idle", "find", "measure"}] \cup [pc : {"prune", "expire"}, ids : SUBSET Nat]
Picking == [pc : {"pick", "done"}, size : Nat, grew : BOOLEAN]
Evicting == [pc : {"evict"}, ids : SUBSET Nat, size : Nat, grew : BOOLEAN]
Cycles == Rounds \cup Picking \cup Evicting

(* What an evictor may rely on, if nothing was inserted since it measured.    *)
Kept(ids, C) == {k \in C : k.id \notin ids}
Fits(x, C) ==
  /\ x.pc = "pick" /\ ~x.grew => Held(C) <= x.size
  /\ x.pc = "evict" /\ ~x.grew => Held(Kept(x.ids, C)) <= Cap
  /\ x.pc = "done" /\ ~x.grew => Held(C) <= Cap

RowsOK ==
  /\ rows \in 0 .. MaxRows /\ horizon \in 0 .. rows
  /\ chunks \subseteq Chunks /\ \A k \in chunks : k.id \in 1 .. rows /\ k.at \in 1 .. k.id
  /\ artifacts \subseteq Artifacts /\ \A a \in artifacts : a.id \in 1 .. rows
JobsOK ==
  /\ job \in [Callers -> Jobs]
  /\ \A c \in Callers : job[c].pc = "chunk" => job[c].art \in 1 .. rows
CyclesOK ==
  /\ IsFiniteSet(CS!Bytes(chunks))
  /\ cycle \in [Evictors -> Cycles]
  /\ \A e \in Evictors : Fits(cycle[e], chunks)
CSInv == RowsOK /\ JobsOK /\ CyclesOK

(* The stage tells what is held.                                             *)
LEMMA JobStages ==
  ASSUME NEW x \in Jobs
  PROVE  /\ x.pc \in {"idle", "look", "insert", "row", "chunk"}
         /\ x.pc \in {"look", "insert"} => x \in Indexing
         /\ x.pc = "row" => x \in Adding
         /\ x.pc = "chunk" => x \in Chunking
BY DEF Jobs, Indexing, Adding, Chunking

(* As much for an evictor, and only the later stages know of insertions.      *)
LEMMA CycleStages ==
  ASSUME NEW x \in Cycles
  PROVE  /\ x.pc \in {"idle", "find", "measure", "prune", "expire", "pick", "done", "evict"}
         /\ x.pc \in {"pick", "done"} => x \in Picking
         /\ x.pc = "evict" => x \in Evicting
         /\ x.pc \in {"prune", "expire"} => x.ids \in SUBSET Nat
         /\ "grew" \in DOMAIN x <=> x.pc \in {"pick", "done", "evict"}
BY DEF Cycles, Rounds, Picking, Evicting

(* Deleting chunks takes nothing from an evictor.                            *)
LEMMA FitsMono ==
  ASSUME NEW x \in Cycles, NEW C, IsFiniteSet(CS!Bytes(C)), NEW D \in SUBSET C, Fits(x, C)
  PROVE  Fits(x, D)
<1>1. Held(C) \in Nat /\ Held(D) \in Nat /\ Held(D) <= Held(C) /\ Cap \in Nat
  BY HeldMono, UpkeepAssumption
<1>2. x.pc = "pick" => x.size \in Nat
  BY CycleStages DEF Picking
<1>3. ASSUME NEW ids
      PROVE  /\ Held(Kept(ids, D)) <= Held(Kept(ids, C))
             /\ Held(Kept(ids, D)) \in Nat /\ Held(Kept(ids, C)) \in Nat
  <2>1. Kept(ids, C) \in SUBSET C /\ Kept(ids, D) \in SUBSET Kept(ids, C)
    BY DEF Kept
  <2>2. IsFiniteSet(CS!Bytes(Kept(ids, C)))
    BY <2>1, HeldMono
  <2> QED BY <2>1, <2>2, HeldMono
<1> DEFINE then == Held(Kept(x.ids, D))
           now == Held(Kept(x.ids, C))
<1>4. then <= now /\ then \in Nat /\ now \in Nat
  BY <1>3
<1>5. x.pc = "evict" /\ ~x.grew => now <= Cap
  BY DEF Fits
<1> HIDE DEF then, now
<1>6. x.pc = "evict" /\ ~x.grew => then <= Cap
  BY <1>1, <1>4, <1>5
<1>7. x.pc = "evict" /\ ~x.grew => Held(Kept(x.ids, D)) <= Cap
  BY <1>6 DEF then
<1> QED BY <1>1, <1>2, <1>7 DEF Fits

(* The store is empty and everyone idle when the upkeep begins.               *)
LEMMA CSInit == CS!Init => CSInv
<1> SUFFICES ASSUME CS!Init PROVE CSInv
  OBVIOUS
<1>1. RowsOK
  BY UpkeepAssumption DEF CS!Init, RowsOK
<1>2. JobsOK
  BY DEF CS!Init, JobsOK, Jobs, CS!NoJob
<1>3. CyclesOK
  <2>1. IsFiniteSet(CS!Bytes(chunks))
    BY HeldEmpty, FS_EmptySet DEF CS!Init
  <2>2. \A e \in Evictors : cycle[e] \in Cycles /\ cycle[e].pc = "idle"
    BY DEF CS!Init, CS!Sleep, Cycles, Rounds
  <2>3. cycle \in [Evictors -> Cycles]
    BY <2>2 DEF CS!Init
  <2> QED BY <2>1, <2>2, <2>3 DEF CyclesOK, Fits
<1> QED BY <1>1, <1>2, <1>3 DEF CSInv

(* A caller that moves on, whatever becomes of the numbers.                   *)
LEMMA JobMoves ==
  ASSUME JobsOK, rows \in Nat, rows' \in Nat, rows <= rows', NEW c \in Callers, NEW x \in Jobs,
         x.pc = "chunk" => x.art \in 1 .. rows', job' = [job EXCEPT ![c] = x]
  PROVE  JobsOK'
<1>1. job' \in [Callers -> Jobs]
  BY DEF JobsOK
<1>2. ASSUME NEW d \in Callers, job'[d].pc = "chunk" PROVE job'[d].art \in 1 .. rows'
  <2>1. CASE d = c
    BY <1>2, <2>1 DEF JobsOK
  <2>2. CASE d # c
    <3>1. job[d].art \in 1 .. rows
      BY <1>2, <2>2 DEF JobsOK
    <3>2. job'[d] = job[d]
      BY <2>2 DEF JobsOK
    <3> QED BY <3>1, <3>2
  <2> QED BY <2>1, <2>2
<1> QED BY <1>1, <1>2 DEF JobsOK

(* What is left of a list of parts is one too, and the rest of a job is a job. *)
LEMMA RestOK ==
  ASSUME NEW x \in Indexing \cup Chunking, NEW pc,
         (x \in Indexing /\ pc = "look") \/ (x \in Chunking /\ pc = "chunk")
  PROVE  /\ CS!Rest(x, pc) \in Jobs
         /\ CS!Rest(x, pc).pc = "chunk" => x \in Chunking /\ CS!Rest(x, pc).art = x.art
<1>1. x.todo \in Seq(DOMAIN Size) /\ x.todo # <<>>
  BY DEF Indexing, Chunking, Parts
<1>2. CASE Len(x.todo) = 1
  BY <1>2 DEF CS!Rest, CS!NoJob, Jobs
<1>3. CASE Len(x.todo) # 1
  <2>1. Tail(x.todo) \in Parts
    <3>1. /\ Tail(x.todo) \in Seq(DOMAIN Size)
          /\ Len(Tail(x.todo)) = Len(x.todo) - 1
      BY <1>1, HeadTailProperties
    <3>2. Len(x.todo) \in Nat \ {0} /\ Len(<<>>) = 0
      BY <1>1, EmptySeq
    <3>3. Tail(x.todo) # <<>>
      <4>1. Len(Tail(x.todo)) # 0
        BY <1>3, <3>1, <3>2
      <4> QED BY <3>2, <4>1
    <3> QED BY <3>1, <3>3 DEF Parts
  <2>2. CS!Rest(x, pc) = [x EXCEPT !.pc = pc, !.todo = Tail(x.todo)]
    BY <1>3 DEF CS!Rest
  <2>3. CASE x \in Indexing /\ pc = "look"
    BY <2>1, <2>2, <2>3 DEF Indexing, Jobs
  <2>4. CASE x \in Chunking /\ pc = "chunk"
    BY <2>1, <2>2, <2>4 DEF Chunking, Jobs
  <2> QED BY <2>3, <2>4
<1> QED BY <1>2, <1>3

(* An insertion: the row is new, and whoever measured hears of it.            *)
LEMMA InsertInv ==
  ASSUME RowsOK, CyclesOK, NEW part \in DOMAIN Size, NEW project \in Projects,
         NEW art \in 0 .. rows, NEW at \in 1 .. rows + 1, CS!InsertChunk(part, project, art, at),
         UNCHANGED <<artifacts, horizon>>
  PROVE  RowsOK' /\ CyclesOK'
<1> DEFINE k == [id |-> rows + 1, part |-> part, project |-> project, art |-> art, at |-> at]
<1>1. MaxRows \in Nat /\ rows \in Nat /\ horizon \in 0 .. rows /\ rows < MaxRows /\ rows' = rows + 1
  BY UpkeepAssumption DEF RowsOK, CS!InsertChunk
<1>2. k \in Chunks /\ k.id = rows + 1 /\ k.at = at /\ k.part \in DOMAIN Size
  BY <1>1 DEF Chunks
<1>3. chunks' = chunks \cup {k}
  BY DEF CS!InsertChunk
<1> HIDE DEF k
<1>4. RowsOK'
  <2>1. rows' \in 0 .. MaxRows /\ horizon' \in 0 .. rows'
    BY <1>1
  <2>2. chunks' \subseteq Chunks
    BY <1>2, <1>3 DEF RowsOK
  <2>3. \A j \in chunks' : j.id \in 1 .. rows' /\ j.at \in 1 .. j.id
    BY <1>1, <1>2, <1>3 DEF RowsOK
  <2>4. \A a \in artifacts' : a.id \in 1 .. rows'
    BY <1>1 DEF RowsOK
  <2> QED BY <2>1, <2>2, <2>3, <2>4 DEF RowsOK
<1>5. IsFiniteSet(CS!Bytes(chunks'))
  BY <1>2, <1>3, BytesGrow DEF CyclesOK
<1>6. ASSUME NEW e \in Evictors PROVE cycle'[e] \in Cycles /\ Fits(cycle'[e], chunks')
  <2>1. /\ cycle[e] \in Cycles
        /\ cycle'[e] = IF "grew" \in DOMAIN cycle[e] THEN [cycle[e] EXCEPT !.grew = TRUE] ELSE cycle[e]
    BY DEF CyclesOK, CS!InsertChunk, CS!Grew
  <2>2. CASE "grew" \in DOMAIN cycle[e]
    <3>1. cycle[e] \in Picking \cup Evicting
      BY <2>1, <2>2, CycleStages
    <3>2. CASE cycle[e] \in Picking
      BY <2>1, <2>2, <3>2 DEF Picking, Cycles, Fits
    <3>3. CASE cycle[e] \in Evicting
      <4>1. PICK x : x = [cycle[e] EXCEPT !.grew = TRUE]
        OBVIOUS
      <4>2. x \in Evicting /\ x.pc = "evict" /\ x.grew
        BY <3>3, <4>1 DEF Evicting
      <4> QED BY <2>1, <2>2, <4>1, <4>2 DEF Cycles, Fits
    <3> QED BY <3>1, <3>2, <3>3
  <2>3. CASE "grew" \notin DOMAIN cycle[e]
    BY <2>1, <2>3, CycleStages DEF Fits
  <2> QED BY <2>2, <2>3
<1>7. cycle' = [e \in Evictors |-> cycle'[e]]
  BY DEF CS!InsertChunk, CS!Grew
<1>8. CyclesOK'
  <2>1. cycle' \in [Evictors -> Cycles]
    BY <1>6, <1>7
  <2> QED BY <1>5, <1>6, <2>1 DEF CyclesOK
<1> QED BY <1>4, <1>8

(* What a caller does.                                                       *)
LEMMA CallerInv ==
  ASSUME CSInv,
         \/ \E c \in Callers, d \in Docs, p \in Projects :
              CS!IndexStart(c, d, p) \/ \E ttl \in BOOLEAN : CS!ArtifactStart(c, d, p, ttl)
         \/ \E c \in Callers : \/ CS!LookUp(c) \/ CS!IndexPart(c) \/ CS!ArtifactRow(c)
                               \/ CS!ArtifactChunk(c) \/ CS!Abandon(c)
  PROVE  CSInv'
<1>1. /\ RowsOK /\ JobsOK /\ CyclesOK /\ rows \in Nat /\ MaxRows \in Nat
      /\ \A c \in Callers : job[c] \in Jobs
  BY UpkeepAssumption DEF CSInv, RowsOK, JobsOK
<1>2. \A d \in Docs : PartsOf[d] \in Parts
  BY UpkeepAssumption DEF Parts
<1>3. CS!NoJob \in Jobs /\ CS!NoJob.pc # "chunk"
  BY DEF CS!NoJob, Jobs
<1>4. ASSUME UNCHANGED <<chunks, artifacts, rows, horizon, cycle>> PROVE RowsOK' /\ CyclesOK'
  BY <1>1, <1>4 DEF RowsOK, CyclesOK
<1>5. ASSUME NEW c \in Callers, NEW x \in Jobs, x.pc # "chunk", job' = [job EXCEPT ![c] = x],
             UNCHANGED <<chunks, artifacts, rows, horizon, cycle>>
      PROVE  CSInv'
  <2>1. rows' \in Nat /\ rows <= rows'
    BY <1>1, <1>5
  <2>2. JobsOK'
    BY <1>1, <1>5, <2>1, JobMoves
  <2> QED BY <1>4, <1>5, <2>2 DEF CSInv
<1>6. ASSUME NEW c \in Callers, NEW d \in Docs, NEW p \in Projects, CS!IndexStart(c, d, p)
      PROVE  CSInv'
  <2>1. /\ [pc |-> "look", todo |-> PartsOf[d], project |-> p] \in Jobs
        /\ [pc |-> "look", todo |-> PartsOf[d], project |-> p].pc # "chunk"
    BY <1>2 DEF Jobs, Indexing
  <2> QED BY <1>5, <1>6, <2>1 DEF CS!IndexStart
<1>7. ASSUME NEW c \in Callers, NEW d \in Docs, NEW p \in Projects, NEW ttl \in BOOLEAN,
             CS!ArtifactStart(c, d, p, ttl)
      PROVE  CSInv'
  <2>1. /\ [pc |-> "row", doc |-> d, ttl |-> ttl, project |-> p] \in Jobs
        /\ [pc |-> "row", doc |-> d, ttl |-> ttl, project |-> p].pc # "chunk"
    BY DEF Jobs, Adding
  <2> QED BY <1>5, <1>7, <2>1 DEF CS!ArtifactStart
<1>8. ASSUME NEW c \in Callers, CS!LookUp(c) PROVE CSInv'
  <2>1. job[c] \in Indexing
    BY <1>1, <1>8, JobStages DEF CS!LookUp
  <2>2. [job[c] EXCEPT !.pc = "insert"] \in Jobs /\ [job[c] EXCEPT !.pc = "insert"].pc # "chunk"
    BY <2>1 DEF Indexing, Jobs
  <2>3. CS!Rest(job[c], "look") \in Jobs /\ CS!Rest(job[c], "look").pc # "chunk"
    <3>1. job[c] \notin Chunking
      BY <2>1 DEF Indexing, Chunking
    <3> QED BY <2>1, <3>1, RestOK
  <2>4. \/ job' = [job EXCEPT ![c] = CS!Rest(job[c], "look")]
        \/ job' = [job EXCEPT ![c] = [job[c] EXCEPT !.pc = "insert"]]
    BY <1>8 DEF CS!LookUp
  <2> QED BY <1>5, <1>8, <2>2, <2>3, <2>4 DEF CS!LookUp
<1>9. ASSUME NEW c \in Callers, CS!IndexPart(c) PROVE CSInv'
  <2>1. job[c] \in Indexing
    BY <1>1, <1>9, JobStages DEF CS!IndexPart
  <2>2. Head(job[c].todo) \in DOMAIN Size /\ job[c].project \in Projects
    BY <2>1 DEF Indexing, Parts
  <2>3. 0 \in 0 .. rows /\ rows + 1 \in 1 .. rows + 1
    BY <1>1
  <2>4. RowsOK' /\ CyclesOK'
    BY <1>1, <1>9, <2>2, <2>3, InsertInv DEF CS!IndexPart
  <2>5. CS!Rest(job[c], "look") \in Jobs /\ CS!Rest(job[c], "look").pc # "chunk"
    <3>1. job[c] \notin Chunking
      BY <2>1 DEF Indexing, Chunking
    <3> QED BY <2>1, <3>1, RestOK
  <2>6. rows' = rows + 1 /\ job' = [job EXCEPT ![c] = CS!Rest(job[c], "look")]
    BY <1>9 DEF CS!IndexPart, CS!InsertChunk
  <2>7. rows' \in Nat /\ rows <= rows'
    BY <1>1, <2>6
  <2>8. JobsOK'
    BY <1>1, <2>5, <2>6, <2>7, JobMoves
  <2> QED BY <2>4, <2>8 DEF CSInv
<1>10. ASSUME NEW c \in Callers, CS!ArtifactRow(c) PROVE CSInv'
  <2>1. job[c] \in Adding
    BY <1>1, <1>10, JobStages DEF CS!ArtifactRow
  <2>2. CASE \E a \in artifacts : a.doc = job[c].doc
    BY <1>3, <1>5, <1>10, <2>2 DEF CS!ArtifactRow
  <2>3. CASE ~\E a \in artifacts : a.doc = job[c].doc
    <3>1. /\ rows < MaxRows /\ rows' = rows + 1 /\ UNCHANGED <<chunks, horizon, cycle>>
          /\ artifacts' = artifacts \cup {[id |-> rows + 1, doc |-> job[c].doc, ttl |-> job[c].ttl]}
          /\ job' = [job EXCEPT ![c] = [pc |-> "chunk", art |-> rows + 1, project |-> job[c].project,
                                        todo |-> PartsOf[job[c].doc]]]
      BY <1>10, <2>3 DEF CS!ArtifactRow
    <3>2. [id |-> rows + 1, doc |-> job[c].doc, ttl |-> job[c].ttl] \in Artifacts
      BY <1>1, <2>1 DEF Adding, Artifacts
    <3>3. RowsOK'
      <4>1. rows' \in 0 .. MaxRows /\ horizon' \in 0 .. rows'
        BY <1>1, <3>1 DEF RowsOK
      <4>2. \A k \in chunks' : k.id \in 1 .. rows' /\ k.at \in 1 .. k.id
        BY <1>1, <3>1 DEF RowsOK
      <4>3. artifacts' \subseteq Artifacts /\ \A a \in artifacts' : a.id \in 1 .. rows'
        <5>1. \A n \in 1 .. rows : n \in 1 .. rows'
          BY <1>1, <3>1
        <5>2. artifacts \subseteq Artifacts /\ \A a \in artifacts : a.id \in 1 .. rows
          BY <1>1 DEF RowsOK
        <5>3. /\ [id |-> rows + 1, doc |-> job[c].doc, ttl |-> job[c].ttl].id = rows + 1
              /\ rows + 1 \in 1 .. rows'
          BY <1>1, <3>1
        <5> QED BY <3>1, <3>2, <5>1, <5>2, <5>3
      <4> QED BY <1>1, <3>1, <4>1, <4>2, <4>3 DEF RowsOK
    <3>4. CyclesOK'
      BY <1>1, <3>1 DEF CyclesOK
    <3>5. [pc |-> "chunk", art |-> rows + 1, project |-> job[c].project,
           todo |-> PartsOf[job[c].doc]] \in Jobs
      <4>1. job[c].project \in Projects /\ job[c].doc \in Docs
        BY <2>1 DEF Adding
      <4> QED BY <1>1, <1>2, <4>1 DEF Jobs, Chunking
    <3>6. rows <= rows' /\ rows' \in Nat /\ rows + 1 \in 1 .. rows'
      BY <1>1, <3>1
    <3>7. JobsOK'
      BY <1>1, <3>1, <3>5, <3>6, JobMoves
    <3> QED BY <3>3, <3>4, <3>7 DEF CSInv
  <2> QED BY <2>2, <2>3
<1>11. ASSUME NEW c \in Callers, CS!ArtifactChunk(c) PROVE CSInv'
  <2>1. job[c] \in Chunking /\ job[c].art \in 1 .. rows
    BY <1>1, <1>11, JobStages DEF CS!ArtifactChunk, JobsOK
  <2>2. Head(job[c].todo) \in DOMAIN Size /\ job[c].project \in Projects
    BY <2>1 DEF Chunking, Parts
  <2>3. job[c].art \in 0 .. rows /\ job[c].art \in 1 .. rows + 1
    BY <1>1, <2>1
  <2>4. RowsOK' /\ CyclesOK'
    BY <1>1, <1>11, <2>2, <2>3, InsertInv DEF CS!ArtifactChunk
  <2>5. /\ CS!Rest(job[c], "chunk") \in Jobs
        /\ CS!Rest(job[c], "chunk").pc = "chunk" => CS!Rest(job[c], "chunk").art = job[c].art
    BY <2>1, RestOK
  <2>6. rows' = rows + 1 /\ job' = [job EXCEPT ![c] = CS!Rest(job[c], "chunk")]
    BY <1>11 DEF CS!ArtifactChunk, CS!InsertChunk
  <2>7. job[c].art \in 1 .. rows' /\ rows' \in Nat /\ rows <= rows'
    BY <1>1, <2>1, <2>6
  <2>8. JobsOK'
    BY <1>1, <2>5, <2>6, <2>7, JobMoves
  <2> QED BY <2>4, <2>8 DEF CSInv
<1>12. ASSUME NEW c \in Callers, CS!Abandon(c) PROVE CSInv'
  BY <1>3, <1>5, <1>12 DEF CS!Abandon
<1> QED BY <1>6, <1>7, <1>8, <1>9, <1>10, <1>11, <1>12

(* An evictor moves on and no chunk comes.                                   *)
LEMMA CycleMoves ==
  ASSUME CyclesOK, chunks' \subseteq chunks, NEW e \in Evictors, NEW x \in Cycles,
         Fits(x, chunks'), cycle' = [cycle EXCEPT ![e] = x]
  PROVE  CyclesOK'
<1>1. chunks' \in SUBSET chunks /\ IsFiniteSet(CS!Bytes(chunks))
  BY DEF CyclesOK
<1>2. IsFiniteSet(CS!Bytes(chunks'))
  BY <1>1, HeldMono
<1>3. cycle' \in [Evictors -> Cycles]
  BY DEF CyclesOK
<1>4. ASSUME NEW d \in Evictors PROVE Fits(cycle'[d], chunks')
  <2>1. CASE d = e
    BY <2>1 DEF CyclesOK
  <2>2. CASE d # e
    <3>1. cycle'[d] = cycle[d] /\ cycle[d] \in Cycles /\ Fits(cycle[d], chunks)
      BY <2>2 DEF CyclesOK
    <3>2. Fits(cycle[d], chunks')
      BY <1>1, <3>1, FitsMono
    <3> QED BY <3>1, <3>2
  <2> QED BY <2>1, <2>2
<1> QED BY <1>2, <1>3, <1>4 DEF CyclesOK

(* The chunks and artifacts that stay are as good as before.                 *)
LEMMA RowsStay ==
  ASSUME RowsOK, chunks' \subseteq chunks, artifacts' \subseteq artifacts, UNCHANGED <<rows, horizon>>
  PROVE  RowsOK'
BY DEF RowsOK

(* What an evictor does.                                                     *)
LEMMA EvictorInv ==
  ASSUME CSInv, NEW e \in Evictors,
         \/ CS!FindArtifacts(e) \/ CS!PruneArtifacts(e) \/ CS!FindExpired(e) \/ CS!DeleteExpired(e)
         \/ CS!Measure(e) \/ CS!Pick(e) \/ CS!Evict(e) \/ CS!EndCycle(e)
  PROVE  CSInv'
<1>1. /\ RowsOK /\ JobsOK /\ CyclesOK /\ cycle[e] \in Cycles /\ Fits(cycle[e], chunks)
      /\ IsFiniteSet(CS!Bytes(chunks)) /\ Cap \in Nat /\ Held(chunks) \in Nat
  BY UpkeepAssumption, HeldMono DEF CSInv, CyclesOK
<1>2. ASSUME chunks' \subseteq chunks, artifacts' \subseteq artifacts, UNCHANGED <<rows, horizon, job>>,
             NEW x \in Cycles, Fits(x, chunks'), cycle' = [cycle EXCEPT ![e] = x]
      PROVE  CSInv'
  <2>1. RowsOK' /\ CyclesOK'
    BY <1>1, <1>2, RowsStay, CycleMoves
  <2>2. JobsOK'
    BY <1>1, <1>2 DEF JobsOK
  <2> QED BY <2>1, <2>2 DEF CSInv
<1>3. ASSUME NEW x \in Rounds, NEW C PROVE x \in Cycles /\ Fits(x, C)
  BY DEF Rounds, Cycles, Fits
<1>4. /\ [pc |-> "idle"] \in Rounds /\ [pc |-> "find"] \in Rounds /\ [pc |-> "measure"] \in Rounds
      /\ \A ids \in SUBSET Nat : [pc |-> "prune", ids |-> ids] \in Rounds
                                 /\ [pc |-> "expire", ids |-> ids] \in Rounds
  BY DEF Rounds
<1>5. CASE CS!FindArtifacts(e)
  <2>1. {a.id : a \in {x \in artifacts : x.ttl /\ x.id <= horizon}} \in SUBSET Nat
    BY <1>1 DEF RowsOK, Artifacts
  <2> QED BY <1>2, <1>3, <1>4, <1>5, <2>1 DEF CS!FindArtifacts, CS!Cycle
<1>6. CASE CS!PruneArtifacts(e)
  BY <1>2, <1>3, <1>4, <1>6 DEF CS!PruneArtifacts, CS!Cycle
<1>7. CASE CS!FindExpired(e)
  <2>1. {k.id : k \in {x \in chunks : CS!Expired(x)}} \in SUBSET Nat
    BY <1>1 DEF RowsOK, Chunks
  <2> QED BY <1>2, <1>3, <1>4, <1>7, <2>1 DEF CS!FindExpired, CS!Cycle
<1>8. CASE CS!DeleteExpired(e)
  BY <1>2, <1>3, <1>4, <1>8 DEF CS!DeleteExpired, CS!DeleteChunks, CS!Cycle
<1>9. CASE CS!EndCycle(e)
  BY <1>2, <1>3, <1>4, <1>9 DEF CS!EndCycle, CS!Sleep
<1>10. CASE CS!Measure(e)
  <2>1. PICK n \in Nat : n = Held(chunks)
    BY <1>1
  <2>2. CS!TotalSize(chunks) = n
    BY <2>1, HeldIsTotal
  <2>3. /\ UNCHANGED <<chunks, artifacts, rows, horizon, job>>
        /\ \/ n > Cap /\ cycle' = [cycle EXCEPT ![e] = [pc |-> "pick", size |-> n, grew |-> FALSE]]
           \/ n <= Cap /\ cycle' = [cycle EXCEPT ![e] = [pc |-> "done", size |-> n, grew |-> FALSE]]
    <3>1. /\ UNCHANGED <<chunks, artifacts, rows, horizon, job>>
          /\ cycle' = [cycle EXCEPT ![e] =
               [pc |-> IF n > Cap THEN "pick" ELSE "done", size |-> n, grew |-> FALSE]]
      BY <1>10, <2>2 DEF CS!Measure, CS!Cycle
    <3>2. CASE n > Cap
      BY <3>1, <3>2
    <3>3. CASE ~(n > Cap)
      BY <1>1, <3>1, <3>3
    <3> QED BY <3>2, <3>3
  <2>4. /\ [pc |-> "pick", size |-> n, grew |-> FALSE] \in Cycles
        /\ [pc |-> "done", size |-> n, grew |-> FALSE] \in Cycles
    BY DEF Cycles, Picking
  <2>5. Fits([pc |-> "pick", size |-> n, grew |-> FALSE], chunks)
    BY <2>1 DEF Fits
  <2>6. n <= Cap => Fits([pc |-> "done", size |-> n, grew |-> FALSE], chunks)
    BY <2>1 DEF Fits
  <2> QED BY <1>2, <2>3, <2>4, <2>5, <2>6
<1>11. CASE CS!Pick(e)
  <2>1. cycle[e] \in Picking /\ cycle[e].pc = "pick"
    BY <1>1, <1>11, CycleStages DEF CS!Pick
  <2>2. PICK n \in Nat, g \in BOOLEAN : cycle[e].size = n /\ cycle[e].grew = g
    BY <2>1 DEF Picking
  <2>3. ~g => Held(chunks) <= n
    BY <1>1, <2>1, <2>2 DEF Fits
  <2>4. CASE chunks = {}
    <3>1. cycle' = [cycle EXCEPT ![e] = [cycle[e] EXCEPT !.pc = "done"]]
      BY <1>11, <2>4 DEF CS!Pick, CS!Cycle
    <3>2. /\ [cycle[e] EXCEPT !.pc = "done"] \in Cycles
          /\ [cycle[e] EXCEPT !.pc = "done"].pc = "done"
      BY <2>1 DEF Picking, Cycles
    <3>3. Held(chunks) <= Cap
      BY <1>1, <2>4, HeldEmpty
    <3>4. Fits([cycle[e] EXCEPT !.pc = "done"], chunks)
      BY <3>2, <3>3 DEF Fits
    <3> QED BY <1>2, <1>11, <3>1, <3>2, <3>4 DEF CS!Pick
  <2>5. CASE chunks # {}
    <3>1. PICK D \in SUBSET chunks :
            /\ CS!TotalSize(D) >= n - Cap \/ D = chunks
            /\ cycle' = [cycle EXCEPT ![e] = [pc |-> "evict", ids |-> {k.id : k \in D},
                                              size |-> n, grew |-> g]]
      BY <1>11, <2>2, <2>5 DEF CS!Pick, CS!Oldest, CS!Cycle
    <3>2. {k.id : k \in D} \in SUBSET Nat
      BY <1>1 DEF RowsOK, Chunks
    <3>3. PICK ids \in SUBSET Nat : ids = {k.id : k \in D}
      BY <3>2
    <3>4. [pc |-> "evict", ids |-> ids, size |-> n, grew |-> g] \in Cycles
      BY DEF Cycles, Evicting
    <3>5. Kept(ids, chunks) \in SUBSET (chunks \ D) /\ chunks \ D \in SUBSET chunks
      BY <3>3 DEF Kept
    <3>6. /\ IsFiniteSet(CS!Bytes(chunks \ D)) /\ Held(chunks \ D) = Held(chunks) - Held(D)
          /\ Held(chunks) \in Nat /\ Held(D) \in Nat /\ Held(chunks \ D) \in Nat
      BY <1>1, <3>5, HeldMono, HeldSplit
    <3>7. Held(Kept(ids, chunks)) <= Held(chunks \ D) /\ Held(Kept(ids, chunks)) \in Nat
      BY <3>5, <3>6, HeldMono
    <3>8. ~g => Held(chunks \ D) <= Cap
      <4>1. CASE D = chunks
        <5>1. chunks \ D = {}
          BY <4>1
        <5> QED BY <1>1, <5>1, HeldEmpty
      <4>2. CASE Held(D) >= n - Cap
        BY <1>1, <2>3, <3>6, <4>2
      <4> QED BY <3>1, <4>1, <4>2, HeldIsTotal
    <3>9. ~g => Held(Kept(ids, chunks)) <= Cap
      BY <1>1, <3>6, <3>7, <3>8
    <3>10. Fits([pc |-> "evict", ids |-> ids, size |-> n, grew |-> g], chunks)
      BY <3>9 DEF Fits
    <3> QED BY <1>2, <1>11, <3>1, <3>3, <3>4, <3>10 DEF CS!Pick
  <2> QED BY <2>4, <2>5
<1>12. CASE CS!Evict(e)
  <2>1. cycle[e] \in Evicting /\ cycle[e].pc = "evict"
    BY <1>1, <1>12, CycleStages DEF CS!Evict, CS!Cycle
  <2>2. [pc |-> "done", size |-> cycle[e].size, grew |-> cycle[e].grew] \in Cycles
    BY <2>1 DEF Evicting, Picking, Cycles
  <2>3. chunks' = Kept(cycle[e].ids, chunks)
    BY <1>12 DEF CS!Evict, CS!DeleteChunks, Kept
  <2>4. ~cycle[e].grew => Held(chunks') <= Cap
    BY <1>1, <2>1, <2>3 DEF Fits
  <2>5. Fits([pc |-> "done", size |-> cycle[e].size, grew |-> cycle[e].grew], chunks')
    BY <2>4 DEF Fits
  <2>6. chunks' \subseteq chunks
    BY <2>3 DEF Kept
  <2> QED BY <1>2, <1>12, <2>2, <2>5, <2>6 DEF CS!Evict, CS!Cycle
<1> QED BY <1>5, <1>6, <1>7, <1>8, <1>9, <1>10, <1>11, <1>12

(* Whatever callers, evictors and time do.                                   *)
LEMMA CSStep == CSInv /\ [Move]_all => CSInv'
<1> SUFFICES ASSUME CSInv, [Move]_all PROVE CSInv'
  OBVIOUS
<1>1. [CS!Next]_csState
  BY DEF Move, all
<1>2. CASE UNCHANGED csState
  BY <1>2 DEF csState, CSInv, RowsOK, JobsOK, CyclesOK
<1>3. ASSUME NEW t \in 1 .. MaxRows, CS!Age(t) PROVE CSInv'
  <2>1. rows \in Nat /\ horizon \in Nat
    BY UpkeepAssumption DEF CSInv, RowsOK
  <2>2. horizon' \in 0 .. rows'
    BY <1>3, <2>1 DEF CS!Age
  <2> QED BY <1>3, <2>2 DEF CS!Age, CSInv, RowsOK, JobsOK, CyclesOK
<1> QED BY <1>1, <1>2, <1>3, CallerInv, EvictorInv DEF CS!Next

(* The invariant gives the types, and the cap.                               *)
LEMMA CSTypeOK == CSInv => CS!TypeOK
BY DEF CSInv, RowsOK, Chunks, Artifacts, CS!TypeOK

(* A cycle that is done kept the cap.                                        *)
LEMMA CSCapHolds == CSInv => CS!CapHolds
BY HeldIsTotal DEF CSInv, CyclesOK, Fits, CS!CapHolds
-----------------------------------------------------------------------------
(* ContextGate.  Denies come to an end because every one of them counts.  x  *)
(* denies are left by the counter, y by what a call read of it, and two      *)
(* calls in flight can take no more than x + (1 + ... + y), y the largest:   *)
(* the one that read least may put the counter back once, the other then     *)
(* counts on from there.  Twice that, to stay with whole numbers.            *)
Triangle(n) == n * (n + 1)
Deniable(y) ==
  2 * (denied + (MaxDenies - counter)) + Triangle(y) <= Triangle(MaxDenies) + 2 * MaxDenies + 2 * cgFails

InFlight(h) == hook[h].pc = "deny"
DeniesLeft ==
  /\ Deniable(MaxDenies - counter)
  /\ \A h \in Hooks : InFlight(h) => Deniable(MaxDenies - hook[h].denies)
  /\ \A g, h \in Hooks :
       g # h /\ InFlight(g) /\ InFlight(h) => hook[g].denies >= counter \/ hook[h].denies >= counter

(* A counter file of an older build is a credit: nobody counts from it.      *)
NoneCountsFromLegacy ==
  counter = CG!Legacy => denied = 0 /\ \A h \in Hooks : hook[h].pc \notin {"count", "deny"}

(* The type invariant in parts that a prover can take one at a time.         *)
HookStates ==
  [pc : {"idle", "credit", "check", "count", "relent", "deny", "sweep", "answered"},
   call : CG!Calls, denies : 0 .. MaxDenies, answer : CG!Answers]
HooksOK == hook \in [Hooks -> HookStates] /\ \A h \in Hooks : InFlight(h) => hook[h].denies < MaxDenies
FilesOK ==
  /\ counter \in 0 .. CG!Legacy /\ there \subseteq {"ok", "rich"} /\ old \subseteq CG!Files
  /\ cgFails \in 0 .. cgMaxFails /\ denied \in Nat
FlagsOK == dir \in BOOLEAN /\ optimizer \in BOOLEAN /\ swept \in BOOLEAN

CGInv ==
  /\ HooksOK /\ FilesOK /\ FlagsOK /\ NoneCountsFromLegacy
  /\ Cardinality(Hooks) = 2 /\ counter # CG!Legacy => DeniesLeft

(* The parts are the type invariant.                                         *)
LEMMA CGTypes == CG!TypeOK <=> HooksOK /\ FilesOK /\ FlagsOK
BY DEF CG!TypeOK, HooksOK, FilesOK, FlagsOK, HookStates, InFlight

(* Bounds are numbers.                                                       *)
LEMMA CGNumbers == MaxDenies \in Nat /\ cgMaxFails \in Nat
BY UpkeepAssumption

(* The module of the gate counts as this one does.                           *)
LEMMA CGCounts == CG!Cardinality(Hooks) = Cardinality(Hooks)
BY DEF CG!Cardinality, Cardinality

(* What is left of a number is within it.                                    *)
LEMMA Remains == \A m \in Nat : \A n \in 0 .. m : m - n \in 0 .. m
OBVIOUS

(* Half of a number.                                                         *)
LEMMA Half ==
  ASSUME NEW a \in Nat, NEW d \in Nat, NEW f \in Nat, 2 * d <= a + 2 * f
  PROVE  d <= (a \div 2) + f
OBVIOUS

(* Triangles grow, by twice their side.                                      *)
LEMMA Triangles ==
  /\ \A n \in Nat : Triangle(n) \in Nat
  /\ \A n \in Nat \ {0} : Triangle(n) = Triangle(n - 1) + 2 * n
  /\ \A n \in Nat, m \in Nat : m <= n => Triangle(m) <= Triangle(n)
<1>1. \A n \in Nat : Triangle(n) \in Nat
  BY DEF Triangle
<1>2. \A n \in Nat \ {0} : Triangle(n) = Triangle(n - 1) + 2 * n
  BY DEF Triangle
<1>3. ASSUME NEW n \in Nat, NEW m \in Nat, m <= n PROVE Triangle(m) <= Triangle(n)
  <2>1. PICK k \in Nat : n = m + k
    <3>1. n - m \in Nat /\ n = m + (n - m)
      BY <1>3
    <3> QED BY <3>1
  <2>2. Triangle(n) = Triangle(m) + (k * (2 * m + k + 1))
    BY <2>1 DEF Triangle
  <2>3. k * (2 * m + k + 1) \in Nat /\ Triangle(m) \in Nat
    BY DEF Triangle
  <2> QED BY <2>2, <2>3
<1> QED BY <1>1, <1>2, <1>3

(* The property is what is left when nothing is.                             *)
LEMMA CGBounded == CGInv => CG!DeniesBounded
<1> SUFFICES ASSUME CGInv PROVE CG!DeniesBounded
  OBVIOUS
<1>1. /\ denied \in Nat /\ counter \in 0 .. MaxDenies + 1 /\ cgFails \in Nat /\ MaxDenies \in Nat
  BY CGNumbers DEF CGInv, FilesOK, CG!Legacy
<1>2. ASSUME Cardinality(Hooks) = 2
      PROVE  2 * denied <= MaxDenies * (MaxDenies + 3) + 2 * cgFails
  <2>1. MaxDenies * (MaxDenies + 3) = Triangle(MaxDenies) + 2 * MaxDenies
    BY <1>1 DEF Triangle
  <2>2. Triangle(MaxDenies) \in Nat
    BY <1>1, Triangles
  <2>3. CASE counter = CG!Legacy
    BY <1>1, <2>1, <2>2, <2>3 DEF CGInv, NoneCountsFromLegacy
  <2>4. CASE counter # CG!Legacy
    <3>1. MaxDenies - counter \in Nat
      BY <1>1, <2>4 DEF CG!Legacy
    <3>2. Triangle(MaxDenies - counter) \in Nat
      BY <3>1, Triangles
    <3>3. 2 * (denied + (MaxDenies - counter)) + Triangle(MaxDenies - counter)
            <= Triangle(MaxDenies) + 2 * MaxDenies + 2 * cgFails
      BY <1>2, <2>4 DEF CGInv, DeniesLeft, Deniable
    <3> QED BY <1>1, <2>1, <2>2, <3>1, <3>2, <3>3
  <2> QED BY <2>3, <2>4
<1>3. MaxDenies * (MaxDenies + 3) \in Nat
  BY <1>1
<1>4. ASSUME Cardinality(Hooks) = 2
      PROVE  denied <= (MaxDenies * (MaxDenies + 3)) \div 2 + cgFails
  BY <1>1, <1>2, <1>3, <1>4, Half
<1> QED BY <1>4, CGCounts DEF CG!DeniesBounded

(* Of three calls among two, two are one.                                    *)
LEMMA TwoHooks ==
  ASSUME Cardinality(Hooks) = 2, NEW f \in Hooks, NEW g \in Hooks, NEW h \in Hooks,
         f # g, f # h, g # h
  PROVE  FALSE
<1>1. IsFiniteSet(Hooks)
  BY UpkeepAssumption
<1>2. IsFiniteSet({f, g}) /\ Cardinality({f, g}) = 2
  <2>1. {f, g} = {f} \cup {g} /\ g \notin {f}
    OBVIOUS
  <2>2. IsFiniteSet({f}) /\ Cardinality({f}) = 1
    BY FS_Singleton
  <2> QED BY <2>1, <2>2, FS_AddElement
<1>3. Cardinality({f, g} \cup {h}) = 3
  BY <1>2, FS_AddElement
<1>4. Cardinality({f, g} \cup {h}) <= Cardinality(Hooks)
  <2>1. {f, g} \cup {h} \in SUBSET Hooks
    OBVIOUS
  <2> QED BY <1>1, <2>1, FS_Subset
<1> QED BY <1>3, <1>4

(* A call that has no hook running.                                          *)
LEMMA IdleHook == CG!Idle \in HookStates /\ CG!Idle.pc = "idle"
BY CGNumbers DEF HookStates, CG!Idle, CG!Calls, CG!Answers

(* The gate has not denied when the hooks begin.                             *)
LEMMA CGInit == CG!Init => CGInv
<1> SUFFICES ASSUME CG!Init PROVE CGInv
  OBVIOUS
<1>1. HooksOK /\ FlagsOK /\ \A h \in Hooks : hook[h].pc = "idle"
  <2>1. hook \in [Hooks -> HookStates] /\ \A h \in Hooks : hook[h].pc = "idle"
    BY IdleHook DEF CG!Init
  <2>2. FlagsOK
    BY DEF CG!Init, FlagsOK
  <2> QED BY <2>1, <2>2 DEF HooksOK, InFlight
<1>2. FilesOK
  BY CGNumbers DEF CG!Init, FilesOK, CG!Legacy
<1>3. NoneCountsFromLegacy
  BY <1>1 DEF CG!Init, NoneCountsFromLegacy
<1>4. counter # CG!Legacy => Deniable(MaxDenies - counter)
  BY CGNumbers, Triangles DEF CG!Init, Deniable, CG!Legacy
<1>5. counter # CG!Legacy => DeniesLeft
  BY <1>1, <1>4 DEF DeniesLeft, InFlight
<1> QED BY <1>1, <1>2, <1>3, <1>5 DEF CGInv

(* A step that neither denies nor reads or changes the count.                *)
LEMMA QuietGate ==
  ASSUME CGInv, UNCHANGED <<counter, denied>>, cgFails' \in cgFails .. cgMaxFails,
         there' \subseteq {"ok", "rich"}, old' \subseteq CG!Files, FlagsOK',
         hook' \in [Hooks -> HookStates],
         \A h \in Hooks : \/ hook'[h] = hook[h]
                          \/ hook'[h].pc \notin {"count", "deny"}
                          \/ hook'[h].pc = "count" /\ counter # CG!Legacy
  PROVE  CGInv'
<1>1. HooksOK'
  BY DEF CGInv, HooksOK, InFlight
<1>2. FilesOK' /\ cgFails \in Nat /\ cgFails' \in Nat /\ cgFails <= cgFails'
  BY CGNumbers DEF CGInv, FilesOK
<1>3. NoneCountsFromLegacy'
  BY DEF CGInv, NoneCountsFromLegacy, CG!Legacy
<1>4. \A h \in Hooks : InFlight(h)' => InFlight(h) /\ hook'[h].denies = hook[h].denies
  BY DEF InFlight
<1>5. ASSUME NEW y \in Nat, Deniable(y) PROVE Deniable(y)'
  <2>1. Triangle(y) \in Nat /\ Triangle(MaxDenies) \in Nat /\ MaxDenies \in Nat
    BY CGNumbers, Triangles
  <2>2. counter \in Nat /\ denied \in Nat
    BY DEF CGInv, FilesOK
  <2> QED BY <1>2, <1>5, <2>1, <2>2 DEF Deniable
<1>6. counter # CG!Legacy /\ DeniesLeft => DeniesLeft'
  <2>1. counter # CG!Legacy => MaxDenies - counter \in Nat
    BY CGNumbers DEF CGInv, FilesOK, CG!Legacy
  <2>2. \A h \in Hooks : MaxDenies - hook[h].denies \in Nat
    BY CGNumbers DEF CGInv, HooksOK, HookStates
  <2> QED BY <1>4, <1>5, <2>1, <2>2 DEF DeniesLeft
<1> QED BY <1>1, <1>2, <1>3, <1>6 DEF CGInv, CG!Legacy

(* A call that reads the count holds what the counter leaves.                *)
LEMMA CountInv ==
  ASSUME CGInv, NEW h \in Hooks, CG!CountDenies(h)
  PROVE  CGInv'
<1>1. /\ hook[h].pc = "count" /\ hook \in [Hooks -> HookStates] /\ counter \in 0 .. MaxDenies
      /\ counter # CG!Legacy
  BY CGNumbers DEF CG!CountDenies, CGInv, HooksOK, FilesOK, NoneCountsFromLegacy, CG!Legacy
<1>2. /\ hook' = [hook EXCEPT ![h].denies = counter,
                              ![h].pc = IF CG!Relents(counter) THEN "relent" ELSE "deny"]
      /\ UNCHANGED <<dir, counter, there, old, optimizer, cgFails, denied>> /\ swept' = FALSE
  BY <1>1 DEF CG!CountDenies, CG!ReadDenyCount, CG!files
<1>3. /\ hook' \in [Hooks -> HookStates] /\ \A g \in Hooks : g # h => hook'[g] = hook[g]
      /\ hook'[h].denies = counter /\ hook'[h].pc \in {"relent", "deny"}
      /\ hook'[h].pc = "deny" => counter < MaxDenies
  <2>1. CASE CG!Relents(counter)
    BY <1>1, <1>2, <2>1 DEF HookStates
  <2>2. CASE ~CG!Relents(counter)
    BY <1>1, <1>2, <2>2, CGNumbers DEF HookStates, CG!Relents
  <2> QED BY <2>1, <2>2
<1>4. HooksOK' /\ FilesOK' /\ FlagsOK' /\ NoneCountsFromLegacy'
  BY <1>1, <1>2, <1>3 DEF CGInv, HooksOK, InFlight, FilesOK, FlagsOK, NoneCountsFromLegacy, CG!Legacy
<1>5. DeniesLeft => DeniesLeft'
  <2>1. \A y : Deniable(y)' <=> Deniable(y)
    BY <1>2 DEF Deniable
  <2> QED BY <1>1, <1>2, <1>3, <2>1 DEF DeniesLeft, InFlight
<1> QED BY <1>1, <1>2, <1>4, <1>5 DEF CGInv

(* Old markers are removed: nobody was denied since, whatever the count.     *)
LEMMA SweepInv ==
  ASSUME CGInv, hook' \in [Hooks -> HookStates], FlagsOK',
         \A h \in Hooks : hook'[h] = hook[h] \/ hook'[h].pc \notin {"count", "deny"},
         counter' \in {counter, 0}, denied' = 0, there' \subseteq {"ok", "rich"}, old' = {},
         cgFails' \in cgFails .. cgMaxFails
  PROVE  CGInv'
<1>1. HooksOK'
  BY DEF CGInv, HooksOK, InFlight
<1>2. FilesOK' /\ cgFails' \in Nat
  BY CGNumbers DEF CGInv, FilesOK, CG!Legacy
<1>3. NoneCountsFromLegacy'
  BY CGNumbers DEF CGInv, NoneCountsFromLegacy, CG!Legacy
<1>4. ASSUME counter' # CG!Legacy, NEW y \in 0 .. MaxDenies PROVE Deniable(y)'
  <2>1. Triangle(y) \in Nat /\ Triangle(MaxDenies) \in Nat /\ Triangle(y) <= Triangle(MaxDenies)
    BY CGNumbers, Triangles
  <2>2. counter' \in 0 .. MaxDenies
    BY <1>4, CGNumbers DEF CGInv, FilesOK, CG!Legacy
  <2> QED BY <1>2, <2>1, <2>2, CGNumbers DEF Deniable
<1>5. ASSUME counter' # CG!Legacy, Cardinality(Hooks) = 2 PROVE DeniesLeft'
  <2>1. MaxDenies - counter' \in 0 .. MaxDenies
    <3>1. counter' \in 0 .. MaxDenies
      BY <1>5, CGNumbers DEF CGInv, FilesOK, CG!Legacy
    <3> QED BY <3>1, Remains, CGNumbers
  <2>2. \A h \in Hooks : MaxDenies - hook'[h].denies \in 0 .. MaxDenies
    BY CGNumbers DEF HookStates
  <2>3. \A h \in Hooks : InFlight(h)' => InFlight(h) /\ hook'[h] = hook[h] /\ counter # CG!Legacy
    BY DEF InFlight, CGInv, NoneCountsFromLegacy
  <2>4. \A h \in Hooks : hook'[h].denies \in Nat /\ hook[h].denies \in Nat
    BY DEF HookStates, CGInv, HooksOK
  <2>5. \A g, h \in Hooks : g # h /\ InFlight(g)' /\ InFlight(h)' =>
          hook'[g].denies >= counter' \/ hook'[h].denies >= counter'
    BY <1>5, <2>3, <2>4 DEF CGInv, DeniesLeft
  <2> QED BY <1>4, <1>5, <2>1, <2>2, <2>5 DEF DeniesLeft
<1> QED BY <1>1, <1>2, <1>3, <1>5 DEF CGInv, CG!Legacy

(* A deny takes one of what is left, or a failed write pays for it.          *)
LEMMA DenyInv ==
  ASSUME CGInv, NEW h \in Hooks, CG!Deny(h)
  PROVE  CGInv'
<1> DEFINE d == hook[h].denies
<1>1. /\ hook[h].pc = "deny" /\ hook \in [Hooks -> HookStates] /\ d \in 0 .. MaxDenies - 1
      /\ counter \in 0 .. MaxDenies /\ counter # CG!Legacy
      /\ denied \in Nat /\ denied' = denied + 1 /\ cgFails \in Nat
  BY CGNumbers DEF CG!Deny, CGInv, HooksOK, HookStates, InFlight, FilesOK, NoneCountsFromLegacy,
     CG!Legacy
<1>2. /\ hook' = [hook EXCEPT ![h].pc = "sweep", ![h].answer = "gated"]
      /\ UNCHANGED <<there, optimizer>> /\ swept' = FALSE /\ dir' = TRUE
  BY DEF CG!Deny, CG!WriteFails
<1>3. /\ hook' \in [Hooks -> HookStates] /\ \A g \in Hooks : g # h => hook'[g] = hook[g]
      /\ hook'[h].pc = "sweep"
  <2>1. [hook[h] EXCEPT !.pc = "sweep", !.answer = "gated"] \in HookStates
    BY <1>1 DEF HookStates, CG!Answers
  <2> QED BY <1>1, <1>2, <2>1 DEF HookStates
<1>4. \/ counter' = d + 1 /\ cgFails' = cgFails /\ old' = old \ {"counter"}
      \/ counter' = counter /\ cgFails' = cgFails + 1 /\ cgFails < cgMaxFails /\ old' = old
  BY DEF CG!Deny, CG!WriteFails
<1>5. HooksOK' /\ FlagsOK'
  BY <1>2, <1>3 DEF CGInv, HooksOK, InFlight, FlagsOK
<1>6. FilesOK' /\ counter' # CG!Legacy /\ cgFails' \in Nat
  BY <1>1, <1>2, <1>4, CGNumbers DEF CGInv, FilesOK, CG!Legacy
<1>7. NoneCountsFromLegacy'
  BY <1>6 DEF NoneCountsFromLegacy, CG!Legacy
<1>8. ASSUME Cardinality(Hooks) = 2 PROVE DeniesLeft'
  <2>1. /\ MaxDenies - counter \in Nat /\ MaxDenies - d \in Nat \ {0} /\ MaxDenies - (d + 1) \in Nat
        /\ MaxDenies \in Nat
    BY <1>1, CGNumbers
  <2>2. /\ Triangle(MaxDenies - d) = Triangle(MaxDenies - (d + 1)) + 2 * (MaxDenies - d)
        /\ Triangle(MaxDenies - (d + 1)) \in Nat /\ Triangle(MaxDenies - counter) \in Nat
        /\ Triangle(MaxDenies) \in Nat
    <3>1. (MaxDenies - d) - 1 = MaxDenies - (d + 1)
      BY <2>1, <1>1
    <3> QED BY <2>1, <3>1, Triangles
  <2>3. Deniable(MaxDenies - counter) /\ Deniable(MaxDenies - d)
    BY <1>1, <1>8 DEF CGInv, DeniesLeft, InFlight
  <2>4. Deniable(MaxDenies - counter)'
    BY <1>1, <1>4, <2>1, <2>2, <2>3 DEF Deniable
  <2>5. ASSUME NEW g \in Hooks, g # h, InFlight(g) PROVE Deniable(MaxDenies - hook[g].denies)'
    <3>1. PICK y \in Nat : hook[g].denies \in Nat /\ y = MaxDenies - hook[g].denies
      <4>1. hook[g].denies \in Nat /\ MaxDenies - hook[g].denies \in Nat
        BY <1>1, <2>1, <2>5 DEF HookStates
      <4> QED BY <4>1
    <3>2. hook'[g].denies = hook[g].denies
      BY <1>3, <2>5
    <3>3. Deniable(y) /\ (d >= counter \/ hook[g].denies >= counter)
      BY <1>1, <1>8, <2>5, <3>1 DEF CGInv, DeniesLeft, InFlight
    <3>4. Triangle(y) \in Nat /\ (y <= MaxDenies - (d + 1) => Triangle(y) <= Triangle(MaxDenies - (d + 1)))
      BY <2>1, <3>1, Triangles
    <3>5. d < counter /\ hook[g].denies >= counter => y <= MaxDenies - (d + 1)
      BY <1>1, <2>1, <3>1
    <3> HIDE DEF d
    <3>6. Deniable(y)'
      <4>1. CASE counter' = counter /\ cgFails' = cgFails + 1
        BY <1>1, <2>1, <2>2, <3>3, <3>4, <4>1 DEF Deniable
      <4>2. CASE counter' = d + 1 /\ cgFails' = cgFails /\ d >= counter
        BY <1>1, <2>1, <2>2, <3>3, <3>4, <4>2 DEF Deniable
      <4>3. CASE counter' = d + 1 /\ cgFails' = cgFails /\ ~(d >= counter)
        <5>1. Triangle(y) <= Triangle(MaxDenies - (d + 1))
          BY <1>1, <3>3, <3>4, <3>5, <4>3
        <5> QED BY <1>1, <2>1, <2>2, <2>3, <3>4, <4>3, <5>1 DEF Deniable
      <4> QED BY <1>4, <4>1, <4>2, <4>3
    <3> QED BY <3>1, <3>2, <3>6
  <2>6. \A g \in Hooks : InFlight(g)' => g # h /\ InFlight(g)
    BY <1>3 DEF InFlight
  <2>7. \A f, g \in Hooks : ~(f # g /\ InFlight(f)' /\ InFlight(g)')
    BY <1>8, <2>6, TwoHooks
  <2> QED BY <2>4, <2>5, <2>6, <2>7 DEF DeniesLeft
<1> QED BY <1>5, <1>6, <1>7, <1>8 DEF CGInv

(* Whatever the hooks of the session do, the gate keeps the invariant.       *)
LEMMA CGStep == CGInv /\ [Move]_all => CGInv'
<1> SUFFICES ASSUME CGInv, [Move]_all PROVE CGInv'
  OBVIOUS
<1> USE DEF CG!files
<1>1. [CG!Next]_cgState
  BY DEF Move, all
<1>2. /\ hook \in [Hooks -> HookStates] /\ cgFails \in 0 .. cgMaxFails /\ cgMaxFails \in Nat
      /\ there \subseteq {"ok", "rich"} /\ old \subseteq CG!Files /\ FlagsOK
  BY CGNumbers DEF CGInv, HooksOK, FilesOK
<1>3. cgFails \in cgFails .. cgMaxFails
  BY <1>2
<1>4. CASE UNCHANGED cgState
  BY <1>2, <1>3, <1>4, QuietGate DEF cgState, FlagsOK
<1>5. ASSUME CG!MarkGateSatisfied
      PROVE  /\ there' \subseteq {"ok", "rich"} /\ old' \subseteq CG!Files /\ UNCHANGED counter
             /\ cgFails' \in cgFails .. cgMaxFails /\ dir' \in BOOLEAN
  <2>1. cgFails' \in {cgFails, cgFails + 1} /\ (cgFails' = cgFails \/ cgFails < cgMaxFails)
    BY <1>5 DEF CG!MarkGateSatisfied, CG!WriteFails
  <2>2. cgFails' \in cgFails .. cgMaxFails
    BY <1>2, <2>1
  <2> QED BY <1>2, <1>5, <2>2 DEF CG!MarkGateSatisfied, FlagsOK
<1>6. ASSUME NEW h \in Hooks, NEW call \in CG!Calls, CG!PreToolUse(h, call) PROVE CGInv'
  <2>1. CG!Idle \in HookStates
    BY IdleHook
  <2>2. PICK pc \in {"answered", "credit", "check"}, ans \in {"deny", "allow", "none"} :
          hook' = [hook EXCEPT ![h] = [CG!Idle EXCEPT !.call = call, !.pc = pc, !.answer = ans]]
    <3>1. CASE CG!Dangerous(call)
      BY <1>6, <3>1 DEF CG!PreToolUse, CG!Dangerous
    <3>2. CASE call = "memory"
      BY <1>6, <3>2 DEF CG!PreToolUse, CG!Dangerous
    <3>3. CASE call = "anchored"
      BY <1>6, <3>3 DEF CG!PreToolUse, CG!Dangerous
    <3>4. CASE ~CG!Dangerous(call) /\ call \notin {"memory", "anchored"}
      BY <1>6, <3>4 DEF CG!PreToolUse
    <3> QED BY <3>1, <3>2, <3>3, <3>4
  <2>3. [CG!Idle EXCEPT !.call = call, !.pc = pc, !.answer = ans] \in HookStates
    BY <2>1 DEF HookStates, CG!Answers
  <2>4. hook' \in [Hooks -> HookStates] /\ hook'[h].pc \notin {"count", "deny"}
        /\ \A g \in Hooks : g # h => hook'[g] = hook[g]
    BY <1>2, <2>1, <2>2, <2>3 DEF HookStates
  <2> QED BY <1>2, <1>3, <1>6, <2>4, QuietGate DEF CG!PreToolUse, FlagsOK
<1>7. ASSUME NEW h \in Hooks, CG!Credit(h) \/ CG!Relent(h) \/ CG!FailOpen(h) \/ CG!PostToolUse(h)
      PROVE  CGInv'
  <2>1. hook' \in [Hooks -> HookStates] /\ hook'[h].pc \notin {"count", "deny"}
        /\ \A g \in Hooks : g # h => hook'[g] = hook[g]
    <3>1. CG!Idle \in HookStates /\ CG!Idle.pc = "idle"
      BY IdleHook
    <3>2. \/ hook' = [hook EXCEPT ![h] = CG!Idle]
          \/ \E ans \in CG!Answers : hook' = [hook EXCEPT ![h].pc = "answered", ![h].answer = ans]
      BY <1>7 DEF CG!Credit, CG!Relent, CG!FailOpen, CG!PostToolUse, CG!Answer, CG!Route, CG!Answers
    <3> QED BY <1>2, <3>1, <3>2 DEF HookStates
  <2>2. CASE CG!FailOpen(h)
    <3>1. cgFails' \in cgFails .. cgMaxFails
      BY <1>2, <2>2 DEF CG!FailOpen, CG!WriteFails
    <3> QED BY <1>2, <2>1, <2>2, <3>1, QuietGate DEF CG!FailOpen, CG!WriteFails, FlagsOK
  <2>3. CASE CG!MarkGateSatisfied /\ UNCHANGED <<optimizer, denied>> /\ swept' = FALSE
    BY <1>2, <1>5, <2>1, <2>3, QuietGate DEF FlagsOK
  <2>4. CASE UNCHANGED <<dir, counter, there, old, cgFails, optimizer, denied>> /\ swept' = FALSE
    BY <1>2, <1>3, <2>1, <2>4, QuietGate DEF FlagsOK
  <2> QED BY <1>7, <2>2, <2>3, <2>4 DEF CG!Credit, CG!Relent, CG!PostToolUse
<1>8. ASSUME NEW h \in Hooks, CG!CheckSatisfied(h) PROVE CGInv'
  <2>1. hook[h].pc = "check" /\ UNCHANGED <<dir, counter, there, old, cgFails, optimizer, denied>>
        /\ swept' = FALSE
    BY <1>8 DEF CG!CheckSatisfied
  <2>2. CASE CG!GateIsSatisfied
    <3>1. PICK ans \in CG!Answers : hook' = [hook EXCEPT ![h].pc = "answered", ![h].answer = ans]
      BY <1>8, <2>2 DEF CG!CheckSatisfied, CG!Answer, CG!Route, CG!Answers
    <3>2. hook' \in [Hooks -> HookStates] /\ hook'[h].pc \notin {"count", "deny"}
          /\ \A g \in Hooks : g # h => hook'[g] = hook[g]
      BY <1>2, <3>1 DEF HookStates
    <3> QED BY <1>2, <1>3, <2>1, <3>2, QuietGate DEF FlagsOK
  <2>3. CASE ~CG!GateIsSatisfied
    <3>1. counter # CG!Legacy /\ hook' = [hook EXCEPT ![h].pc = "count"]
      BY <1>8, <2>3 DEF CG!CheckSatisfied, CG!Goto, CG!GateIsSatisfied
    <3>2. hook' \in [Hooks -> HookStates] /\ hook'[h].pc = "count"
          /\ \A g \in Hooks : g # h => hook'[g] = hook[g]
      BY <1>2, <3>1 DEF HookStates
    <3> QED BY <1>2, <1>3, <2>1, <3>1, <3>2, QuietGate DEF FlagsOK
  <2> QED BY <2>2, <2>3
<1>9. ASSUME hook' \in [Hooks -> HookStates], cgFails' \in cgFails .. cgMaxFails, FlagsOK',
             \A h \in Hooks : hook'[h] = hook[h] \/ hook'[h].pc \notin {"count", "deny"},
             counter' = (IF "counter" \in old THEN 0 ELSE counter), there' \subseteq {"ok", "rich"},
             old' = {}, denied' = (IF old # {} THEN 0 ELSE denied)
      PROVE  CGInv'
  <2>1. CASE old = {}
    BY <1>2, <1>9, <2>1, QuietGate
  <2>2. CASE old # {}
    BY <1>9, <2>2, SweepInv
  <2> QED BY <2>1, <2>2
<1>10. ASSUME NEW h \in Hooks, CG!Sweep(h) PROVE CGInv'
  <2>1. hook' = [hook EXCEPT ![h].pc = "answered"]
    BY <1>10 DEF CG!Sweep, CG!Goto
  <2>2. hook' \in [Hooks -> HookStates] /\ hook'[h].pc \notin {"count", "deny"}
        /\ \A g \in Hooks : g # h => hook'[g] = hook[g]
    BY <1>2, <2>1 DEF HookStates
  <2>3. FlagsOK' /\ there' \subseteq {"ok", "rich"}
    BY <1>2, <1>10 DEF CG!Sweep, CG!RemoveOld, FlagsOK
  <2> QED BY <1>3, <1>9, <1>10, <2>2, <2>3 DEF CG!Sweep, CG!RemoveOld
<1>11. CASE CG!SessionStart
  <2>1. cgFails' \in {cgFails, cgFails + 1} /\ (cgFails' = cgFails \/ cgFails < cgMaxFails)
    BY <1>11 DEF CG!SessionStart, CG!WriteFails
  <2>2. cgFails' \in cgFails .. cgMaxFails
    BY <1>2, <2>1
  <2>3. FlagsOK' /\ there' \subseteq {"ok", "rich"} /\ hook' = hook
    BY <1>2, <1>11 DEF CG!SessionStart, FlagsOK
  <2> QED BY <1>2, <1>9, <1>11, <2>2, <2>3 DEF CG!SessionStart
<1>12. CASE CG!CreditRecall \/ CG!Rest
  <2>1. hook' = hook /\ UNCHANGED <<counter, denied, optimizer>> /\ swept' = FALSE
        /\ (CG!MarkGateSatisfied \/ CG!Rest)
    BY <1>5, <1>12 DEF CG!CreditRecall, CG!Rest
  <2>2. CASE CG!MarkGateSatisfied
    BY <1>2, <1>5, <2>1, <2>2, QuietGate DEF FlagsOK
  <2>3. CASE CG!Rest
    <3>1. old' \subseteq CG!Files /\ UNCHANGED <<dir, there, cgFails>>
      BY <1>2, <2>3 DEF CG!Rest, CG!Files
    <3> QED BY <1>2, <1>3, <2>1, <3>1, QuietGate DEF FlagsOK
  <2> QED BY <2>1, <2>2, <2>3
<1> QED BY <1>1, <1>4, <1>6, <1>7, <1>8, <1>10, <1>11, <1>12, CountInv, DenyInv DEF CG!Next

(* The credit is a marker or an old counter: only a sweep removes either.    *)
LEMMA CGCredit ==
  ASSUME CGInv, [Move]_all
  PROVE  [CG!GateIsSatisfied => CG!GateIsSatisfied' \/ swept']_(CG!vars)
<1> SUFFICES ASSUME CG!Next, CG!GateIsSatisfied, ~swept' PROVE CG!GateIsSatisfied'
  BY DEF Move, all, cgState, CG!vars, CG!files
<1> USE DEF CG!files, CG!GateIsSatisfied
<1>1. ASSUME counter' = counter, there \subseteq there' PROVE CG!GateIsSatisfied'
  BY <1>1
<1>2. ASSUME CG!MarkGateSatisfied PROVE CG!GateIsSatisfied'
  BY <1>1, <1>2 DEF CG!MarkGateSatisfied
<1>3. ASSUME NEW h \in Hooks, CG!Deny(h) PROVE CG!GateIsSatisfied'
  <2>1. counter # CG!Legacy
    BY <1>3 DEF CG!Deny, CGInv, NoneCountsFromLegacy
  <2> QED BY <1>3, <2>1 DEF CG!Deny
<1>4. ASSUME NEW h \in Hooks, CG!Sweep(h) PROVE CG!GateIsSatisfied'
  BY <1>4 DEF CG!Sweep, CG!RemoveOld
<1>5. CASE CG!SessionStart
  BY <1>5 DEF CG!SessionStart
<1>6. ASSUME NEW h \in Hooks,
             (\E call \in CG!Calls : CG!PreToolUse(h, call)) \/ CG!CheckSatisfied(h)
               \/ CG!CountDenies(h) \/ CG!FailOpen(h)
      PROVE  CG!GateIsSatisfied'
  BY <1>1, <1>6 DEF CG!PreToolUse, CG!CheckSatisfied, CG!CountDenies, CG!FailOpen
<1>7. ASSUME NEW h \in Hooks, CG!Credit(h) \/ CG!Relent(h) \/ CG!PostToolUse(h)
      PROVE  CG!GateIsSatisfied'
  BY <1>1, <1>2, <1>7 DEF CG!Credit, CG!Relent, CG!PostToolUse
<1>8. CASE CG!CreditRecall \/ CG!Rest
  BY <1>1, <1>2, <1>8 DEF CG!CreditRecall, CG!Rest
<1> QED BY <1>3, <1>4, <1>5, <1>6, <1>7, <1>8 DEF CG!Next

-----------------------------------------------------------------------------
(* The upkeep: the invariants of its components, whichever runs.             *)
UpkeepInv ==
  /\ focus \in {"eu", "cx", "cu", "cs", "cg"}
  /\ EUInv /\ CXInv /\ CUInv /\ CSInv /\ CGInv

(* It holds when the upkeep begins,                                          *)
LEMMA UpkeepInit == Initial => UpkeepInv
BY EUInit, CXInit, CUInit, CSInit, CGInit DEF Initial, UpkeepInv

(* and every step of every component keeps it.                               *)
LEMMA UpkeepStep == UpkeepInv /\ [Move]_all => UpkeepInv'
<1> SUFFICES ASSUME UpkeepInv, [Move]_all PROVE UpkeepInv'
  OBVIOUS
<1>1. focus' = focus
  BY DEF Move, all
<1> QED BY <1>1, EUStep, CXStep, CUStep, CSStep, CGStep DEF UpkeepInv

(* so it holds always.                                                       *)
LEMMA UpkeepAlways == UpkeepSpec => []UpkeepInv
BY UpkeepInit, UpkeepStep, PTL DEF UpkeepSpec

(* Every variable of every component stays in its domain.                    *)
THEOREM UpkeepTyped == UpkeepSpec => []TypesOK
<1>1. UpkeepInv => TypesOK
  BY CXTypeOK, CUTypeOK, CSTypeOK, CGTypes DEF UpkeepInv, TypesOK, EUInv, CGInv
<1> QED BY <1>1, UpkeepAlways, PTL

(* Whatever processes start, end, beat and sleep: once a generation is active, *)
(* an old process that runs came after the gate had looked, or took the pid of *)
(* a newer one whose row hides it.                                           *)
THEOREM UpkeepOldIsLate == UpkeepSpec => []OldIsLate
<1>1. UpkeepInv => OldIsLate
  BY DEF UpkeepInv, EUInv, OldHidesOrIsLate, OldIsLate, EU!OldIsLate
<1> QED BY <1>1, UpkeepAlways, PTL

(* However many evictors delete, a cycle ends under the cap unless the store  *)
(* grew since it measured; and two hooks that run in parallel deny a session  *)
(* no more often than the counts that one takes back from the other.          *)
THEOREM UpkeepLimits == UpkeepSpec => []LimitsHold
<1>1. UpkeepInv => LimitsHold
  BY CSCapHolds, CGBounded DEF UpkeepInv, LimitsHold
<1> QED BY <1>1, UpkeepAlways, PTL

(* No call takes a session's credit away, unless it deletes old files.        *)
THEOREM UpkeepCredit == UpkeepSpec => CreditSticks
<1>1. UpkeepInv /\ [Move]_all => [CG!GateIsSatisfied => CG!GateIsSatisfied' \/ swept']_(CG!vars)
  BY CGCredit DEF UpkeepInv
<1> QED BY <1>1, UpkeepAlways, PTL DEF UpkeepSpec, CreditSticks, CG!CreditSticks

=============================================================================
