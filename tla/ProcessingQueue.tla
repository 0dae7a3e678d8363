---------------------------- MODULE ProcessingQueue ----------------------------
(***************************************************************************)
(* The durable embedding queue (pkg/memory/sqlite_processing_queue.go) and  *)
(* the workers that drain it (pkg/memory/service_workers.go).               *)
(*                                                                         *)
(* Every write of a memory appends an immutable revision and, in the same   *)
(* transaction, one job per embedding generation the writing process        *)
(* serves.  Each process runs one worker that claims a job under a lease,   *)
(* checks that the revision is still the current one, embeds it, stores the *)
(* vector and finalizes the job.  All processes share one SQLite file whose *)
(* transactions are serialized (txlock=immediate), so a transaction is one  *)
(* action and everything between two transactions interleaves.              *)
(*                                                                         *)
(* Deadlines are kept as the ticks left until they pass: 0 means NULL or    *)
(* not after `now'.  The clock is thereby unbounded and the state finite.   *)
(* A worker may outlive its lease: the context that bounds a drain pass     *)
(* runs on the monotonic clock, which stops while the machine sleeps, and   *)
(* finalizing has its own limit of five seconds on top.                     *)
(***************************************************************************)
EXTENDS Integers, FiniteSets

CONSTANTS
  Procs,        \* processes with a durable worker (MCP servers, hub, CLI)
  Memories,     \* memory identities
  MaxRev,       \* bound: revisions written per memory
  Gens,         \* embedding generations
  KindOf,       \* the job kind of a generation (embedding, embedding_v2)
  Bindings,     \* the sets of generations a process can be bound to
  MaxAttempts,  \* max_attempts of every job
  Lease,        \* processingLease, in ticks
  Grace,        \* unloadedClaimGrace, in ticks
  Backoff,      \* processingRetryAt: delay after the n-th attempt, in ticks
  MaxRequeues,  \* bound: operator requeues of failed jobs
  RawDeletes,   \* whether commands that delete outside the ledger are used
  None          \* NULL

Revs  == Memories \X (1 .. MaxRev)
Jobs  == Revs \X Gens
Kinds == {KindOf[g] : g \in Gens}

ASSUME BoundsAssumption ==
  /\ MaxRev \in Nat /\ MaxRequeues \in Nat /\ RawDeletes \in BOOLEAN
  /\ MaxAttempts \in Nat \ {0}
  /\ Lease \in Nat \ {0} /\ Grace \in Nat
  /\ Backoff \in [1 .. MaxAttempts -> 1 .. Lease]
ASSUME BindingsAssumption == Bindings \subseteq SUBSET Gens
ASSUME NoneAssumption == None \notin Procs /\ None \notin Jobs

VARIABLES
  \* the ledger: revisions written, their content version, tombstones
  made,      \* revisions written per memory; the last one is current
  text,      \* content version of a revision (a version is a write's number)
  tomb,      \* memories whose current revision is a tombstone
  gone,      \* memories with deleted_at set
  \* the generations and the vectors
  genState,  \* building, active or retired
  vec,       \* stored document vectors: a subset of Jobs
  emb,       \* memories.embedding: the version it was computed from, 0 if NULL
  \* memory_processing_jobs
  state, attempts, owner, lease, delay, grace, created,
  stamp,     \* the creation time given to the last inserted jobs
  requeues,
  \* the processes
  serves,    \* generations the process embeds into
  pc,        \* where its worker is in processClaimedJob
  job,       \* the job it holds, if any
  since,     \* ticks since it claimed it, up to Lease
  skipped    \* auxiliary: jobs finished without a vector on purpose

ledger  == <<made, text, tomb, gone>>
gens    == <<genState, vec, emb>>
jobs    == <<state, attempts, owner, lease, delay, grace, created, stamp>>
workers == <<serves, pc, job, since>>
vars    == <<ledger, gens, jobs, requeues, workers, skipped>>

-----------------------------------------------------------------------------
Cur(m)     == <<m, made[m]>>
Written(m) == made[m] > 0
(* The row ProcessingRevision looks for: current, not deleted, no tombstone. *)
Live(r)    == r = Cur(r[1]) /\ r[1] \notin gone /\ r[1] \notin tomb
LiveCurrent(m) == Written(m) /\ m \notin gone /\ m \notin tomb
Covered(g) == \A m \in Memories : LiveCurrent(m) => <<Cur(m), g>> \in vec

(* Mutant: a lease counts as expired one tick early.                         *)
ExpiredEarly(j) == state[j] = "processing" /\ lease[j] <= 1
Expired(j)   == state[j] = "processing" /\ lease[j] = 0
(* Mutant: one attempt too many.                                             *)
ExhaustedLate(j) == attempts[j] > MaxAttempts
Exhausted(j) == attempts[j] >= MaxAttempts
Busy(w)      == pc[w] # "idle"
Later(n)     == IF n > 0 THEN n - 1 ELSE 0

Init ==
  /\ made = [m \in Memories |-> 0] /\ text = [r \in Revs |-> 0]
  /\ tomb = {} /\ gone = {}
  /\ genState \in [Gens -> {"building", "active"}]
  /\ \A g, h \in Gens : genState[g] = "active" /\ genState[h] = "active" => g = h
  /\ vec = {} /\ emb = [m \in Memories |-> 0]
  /\ state = [j \in Jobs |-> "absent"] /\ attempts = [j \in Jobs |-> 0]
  /\ owner = [j \in Jobs |-> None] /\ lease = [j \in Jobs |-> 0]
  /\ delay = [j \in Jobs |-> 0] /\ grace = [j \in Jobs |-> 0]
  /\ created = [j \in Jobs |-> 0] /\ stamp = 0 /\ requeues = 0
  /\ serves \in [Procs -> Bindings]
  /\ pc = [w \in Procs |-> "idle"] /\ job = [w \in Procs |-> None]
  /\ since = [w \in Procs |-> 0] /\ skipped = {}

-----------------------------------------------------------------------------
(* Inserting jobs.  Jobs of one transaction share their creation time.       *)
Enqueue(new) ==
  LET fresh(j) == j \in new /\ state[j] = "absent" IN
  /\ state'   = [j \in Jobs |-> IF j \in new THEN "pending" ELSE state[j]]
  /\ attempts' = [j \in Jobs |-> IF j \in new THEN 0 ELSE attempts[j]]
  /\ owner'   = [j \in Jobs |-> IF j \in new THEN None ELSE owner[j]]
  /\ lease'   = [j \in Jobs |-> IF j \in new THEN 0 ELSE lease[j]]
  /\ delay'   = [j \in Jobs |-> IF j \in new THEN 0 ELSE delay[j]]
  /\ grace'   = [j \in Jobs |-> IF fresh(j) THEN Grace ELSE grace[j]]
  /\ created' = [j \in Jobs |-> IF fresh(j) THEN stamp + 1 ELSE created[j]]
  /\ stamp'   = IF \E j \in new : fresh(j) THEN stamp + 1 ELSE stamp
  /\ skipped' = skipped \ new

NextRev(m) == <<m, made[m] + 1>>
AppendRevision(m, version) ==
  /\ made[m] < MaxRev
  /\ made' = [made EXCEPT ![m] = @ + 1]
  /\ text' = [text EXCEPT ![NextRev(m)] = version]

JobsFor(w, r) == {<<r, g>> : g \in serves[w]}

(* A save or an update with new content: the new revision is current, its    *)
(* jobs are queued and the projected embedding is cleared.  Saving over a    *)
(* deleted memory revives it.                                                *)
Write(m, w) ==
  /\ AppendRevision(m, made[m] + 1)
  /\ tomb' = tomb \ {m} /\ gone' = gone \ {m}
  /\ emb' = [emb EXCEPT ![m] = 0]
  /\ Enqueue(JobsFor(w, NextRev(m)))
  /\ UNCHANGED <<genState, vec, requeues, workers>>

(* A revision that repeats the content, with jobs of its own: an update of    *)
(* the category alone, or Restore superseding a tombstone.  The projected    *)
(* embedding stays.                                                          *)
Rewrite(m, w) ==
  /\ Written(m)
  /\ AppendRevision(m, text[Cur(m)])
  /\ tomb' = tomb \ {m} /\ gone' = gone \ {m}
  /\ Enqueue(JobsFor(w, NextRev(m)))
  /\ UNCHANGED <<gens, requeues, workers>>

(* A soft delete through the ledger: a tombstone revision, no jobs.          *)
Forget(m) ==
  /\ Written(m) /\ m \notin tomb
  /\ AppendRevision(m, text[Cur(m)])
  /\ tomb' = tomb \cup {m} /\ gone' = gone \cup {m}
  /\ UNCHANGED <<gens, jobs, requeues, workers, skipped>>

(* A metadata correction: a new revision that copies the vectors the old one *)
(* has and queues nothing.  On a deleted memory it is rolled back.           *)
Correct(m) ==
  /\ Written(m) /\ m \notin gone /\ m \notin tomb
  /\ AppendRevision(m, text[Cur(m)])
  /\ vec' = vec \cup {<<NextRev(m), g>> : g \in {h \in Gens : <<Cur(m), h>> \in vec}}
  /\ UNCHANGED <<tomb, gone, genState, emb, jobs, requeues, workers, skipped>>

(* deleted_at set by SQL outside the ledger, and the undo of such a delete.  *)
RawDelete(m) ==
  /\ RawDeletes /\ Written(m) /\ m \notin gone
  /\ gone' = gone \cup {m}
  /\ UNCHANGED <<made, text, tomb, gens, jobs, requeues, workers, skipped>>

UndoUntrackedDelete(m) ==
  /\ RawDeletes /\ m \in gone /\ m \notin tomb
  /\ gone' = gone \ {m}
  /\ UNCHANGED <<made, text, tomb, gens, jobs, requeues, workers, skipped>>

-----------------------------------------------------------------------------
(* Claiming.  The sweep of expired leases and the claim are one transaction, *)
(* rolled back (sweep included) when no job can be claimed.                  *)
(* Mutants: the sweep gives up every expired job; it requeues none.          *)
SweptAlwaysFails(j) == IF ~Expired(j) THEN state[j] ELSE "failed"
SweptNeverRequeues(j) ==
  IF Expired(j) /\ Exhausted(j) THEN "failed" ELSE state[j]
Swept(j) ==
  IF ~Expired(j) THEN state[j]
  ELSE IF Exhausted(j) THEN "failed" ELSE "pending"

Claimable(w, k, aged) ==
  {j \in Jobs : /\ Swept(j) = "pending" /\ ~Exhausted(j) /\ delay[j] = 0
                /\ KindOf[j[2]] = k /\ j[2] \in serves[w]
                /\ aged => grace[j] = 0}

Oldest(S) == {j \in S : \A i \in S : created[j] <= created[i]}

(* aged: the pass is a poll in a process whose model is not loaded, which    *)
(* leaves fresh jobs alone (claimCutoff).                                    *)
Claim(w, k, aged) ==
  /\ pc[w] = "idle"
  /\ \E j \in Oldest(Claimable(w, k, aged)) :
       /\ state' = [i \in Jobs |-> IF i = j THEN "processing" ELSE Swept(i)]
       /\ owner' = [i \in Jobs |-> IF i = j THEN w
                                   ELSE IF Expired(i) THEN None ELSE owner[i]]
       /\ attempts' = [attempts EXCEPT ![j] = @ + 1]
       /\ lease' = [lease EXCEPT ![j] = Lease]
       /\ pc' = [pc EXCEPT ![w] = "claimed"]
       /\ job' = [job EXCEPT ![w] = j]
       /\ since' = [since EXCEPT ![w] = 0]
  /\ UNCHANGED <<ledger, gens, delay, grace, created, stamp, requeues, serves, skipped>>

-----------------------------------------------------------------------------
(* processClaimedJob, between its reads and writes.                          *)
Goto(w, l) == pc' = [pc EXCEPT ![w] = l]

(* A revision that is no longer current is finished without a vector.        *)
CheckRevision(w) ==
  /\ pc[w] = "claimed"
  /\ Goto(w, IF Live(job[w][1]) THEN "current" ELSE "done")
  /\ UNCHANGED <<ledger, gens, jobs, requeues, serves, job, since, skipped>>

(* So is one of a retired generation, or of one the process cannot embed.    *)
CheckGeneration(w) ==
  LET g == job[w][2] IN
  /\ pc[w] = "current"
  /\ Goto(w, IF genState[g] = "retired" \/ g \notin serves[w]
             THEN "skipped" ELSE "embed")
  /\ UNCHANGED <<ledger, gens, jobs, requeues, serves, job, since, skipped>>

(* Embed the revision and PutEmbeddingVector in one transaction: the vector  *)
(* is stored whatever happened since the checks, and projected onto the      *)
(* memory only if the generation is active and the revision still current.   *)
(* In a generation still being built the activation attempt that follows may *)
(* fail and fail the job with it.                                            *)
(* Mutant: the projection does not check that the revision is current.       *)
ProjectsStale(j) == genState[j[2]] = "active" /\ j[1][1] \notin gone
Projects(j) ==
  genState[j[2]] = "active" /\ j[1] = Cur(j[1][1]) /\ j[1][1] \notin gone

EmbedAndStore(w) ==
  LET j == job[w] IN
  /\ pc[w] = "embed"
  /\ vec' = vec \cup {j}
  /\ emb' = IF Projects(j) THEN [emb EXCEPT ![j[1][1]] = text[j[1]]] ELSE emb
  /\ \/ Goto(w, "done")
     \/ genState[j[2]] = "building" /\ Goto(w, "error")
  /\ UNCHANGED <<ledger, genState, jobs, requeues, serves, job, since, skipped>>

(* A database, context or provider error at any step.                        *)
(* Mutant: the error is dropped and the job completed.                       *)
ProcessingErrorDropped(w) ==
  /\ pc[w] \in {"claimed", "current", "embed"}
  /\ Goto(w, "done")
  /\ UNCHANGED <<ledger, gens, jobs, requeues, serves, job, since, skipped>>
ProcessingError(w) ==
  /\ pc[w] \in {"claimed", "current", "embed"}
  /\ Goto(w, "error")
  /\ UNCHANGED <<ledger, gens, jobs, requeues, serves, job, since, skipped>>

(* Mutant: finalizing does not check the owner and the state.                *)
OwnsUnchecked(w) == job[w] \in Jobs
Owns(w)    == state[job[w]] = "processing" /\ owner[job[w]] = w
Release(w) == Goto(w, "idle") /\ job' = [job EXCEPT ![w] = None]
                              /\ since' = [since EXCEPT ![w] = 0]

Complete(w) ==
  LET j == job[w] IN
  /\ pc[w] \in {"done", "skipped"}
  /\ IF Owns(w)
     THEN /\ state' = [state EXCEPT ![j] = "done"]
          /\ owner' = [owner EXCEPT ![j] = None]
          /\ lease' = [lease EXCEPT ![j] = 0]
          /\ delay' = [delay EXCEPT ![j] = 0]
          /\ skipped' = IF pc[w] = "skipped" THEN skipped \cup {j} ELSE skipped
     ELSE UNCHANGED <<state, owner, lease, delay, skipped>>
  /\ Release(w)
  /\ UNCHANGED <<ledger, gens, attempts, grace, created, stamp, requeues, serves>>

(* The retry time counts from the claim, not from the failure.               *)
Fail(w) ==
  LET j == job[w]
      left == Backoff[attempts[j]] - since[w] IN
  /\ pc[w] = "error"
  /\ IF Owns(w)
     THEN /\ state' = [state EXCEPT ![j] = IF Exhausted(j) THEN "failed" ELSE "pending"]
          /\ owner' = [owner EXCEPT ![j] = None]
          /\ lease' = [lease EXCEPT ![j] = 0]
          /\ delay' = [delay EXCEPT ![j] = IF Exhausted(j) \/ left < 0 THEN 0 ELSE left]
     ELSE UNCHANGED <<state, owner, lease, delay>>
  /\ Release(w)
  /\ UNCHANGED <<ledger, gens, attempts, grace, created, stamp, requeues, serves, skipped>>

(* The process dies holding a job, or its finalizing statement is lost.  A   *)
(* restarted process has a new owner id; nothing of the old one is in flight *)
(* then, so the model keeps the name.                                        *)
Abandon(w) ==
  /\ Busy(w)
  /\ Release(w)
  /\ UNCHANGED <<ledger, gens, jobs, requeues, serves, skipped>>

-----------------------------------------------------------------------------
(* EnsureEmbeddingGenerationJobs: every live revision without a vector gets  *)
(* a job; a finished one is re-armed, keeping its creation time.             *)
(* Mutant: only finished jobs are looked at, so a revision that never had    *)
(* one stays without.                                                        *)
MissingFinishedOnly(g) ==
  {j \in Jobs : j[2] = g /\ Live(j[1]) /\ j \notin vec /\ state[j] = "done"}
Missing(g) ==
  {j \in Jobs : j[2] = g /\ Live(j[1]) /\ j \notin vec
                /\ state[j] \notin {"pending", "processing", "failed"}}

Reconcile(w, g) ==
  /\ g \in serves[w] /\ genState[g] \in {"building", "active"}
  /\ Missing(g) # {}
  /\ Enqueue(Missing(g))
  /\ UNCHANGED <<ledger, gens, requeues, workers>>

(* activateEmbeddingGenerationLocked, tried after a job, by a warm start and *)
(* by the periodic check; the gate in front of it may hold it at will.       *)
Activate(w, g) ==
  /\ g \in serves[w] /\ genState[g] = "building" /\ Covered(g)
  /\ genState' = [h \in Gens |-> IF h = g THEN "active"
                                 ELSE IF genState[h] = "active" THEN "retired"
                                 ELSE genState[h]]
  /\ emb' = [m \in Memories |->
               IF ~Written(m) \/ m \in gone THEN emb[m]
               ELSE IF <<Cur(m), g>> \in vec THEN text[Cur(m)] ELSE 0]
  /\ UNCHANGED <<ledger, vec, jobs, requeues, workers, skipped>>

(* EnsureEmbeddingGeneration on a retired generation builds it again.        *)
Revive(g) ==
  /\ genState[g] = "retired"
  /\ genState' = [genState EXCEPT ![g] = "building"]
  /\ UNCHANGED <<ledger, vec, emb, jobs, requeues, workers, skipped>>

(* The process binds to other generations, at a restart or when the active   *)
(* generation changed under it; its worker may be holding a job meanwhile.   *)
Rebind(w) ==
  /\ \E b \in Bindings : serves' = [serves EXCEPT ![w] = b]
  /\ UNCHANGED <<ledger, gens, jobs, requeues, pc, job, since, skipped>>

Requeue(j) ==
  /\ requeues < MaxRequeues /\ state[j] = "failed"
  /\ Enqueue({j})
  /\ requeues' = requeues + 1
  /\ UNCHANGED <<ledger, gens, workers>>

(* Time passes.                                                              *)
Tick ==
  /\ lease' = [j \in Jobs |-> Later(lease[j])]
  /\ delay' = [j \in Jobs |-> Later(delay[j])]
  /\ grace' = [j \in Jobs |-> Later(grace[j])]
  /\ since' = [w \in Procs |-> IF Busy(w) /\ since[w] < Lease
                               THEN since[w] + 1 ELSE since[w]]
  /\ UNCHANGED <<ledger, gens, state, attempts, owner, created, stamp, requeues,
                 serves, pc, job, skipped>>

Step(w) == \/ CheckRevision(w) \/ CheckGeneration(w) \/ EmbedAndStore(w)
           \/ Complete(w) \/ Fail(w)

Next ==
  \/ \E m \in Memories :
       \/ Forget(m) \/ Correct(m) \/ RawDelete(m) \/ UndoUntrackedDelete(m)
       \/ \E w \in Procs : Write(m, w) \/ Rewrite(m, w)
  \/ \E w \in Procs :
       \/ \E k \in Kinds, aged \in BOOLEAN : Claim(w, k, aged)
       \/ Step(w) \/ ProcessingError(w) \/ Abandon(w) \/ Rebind(w)
       \/ \E g \in Gens : Reconcile(w, g) \/ Activate(w, g)
  \/ \E g \in Gens : Revive(g)
  \/ \E j \in Jobs : Requeue(j)
  \/ Tick

Spec == Init /\ [][Next]_vars

(***************************************************************************)
(* Fairness.  Time passes; a worker that holds a job takes its next step;   *)
(* an idle worker keeps polling, and a full batch of one kind yields to the *)
(* other (processingMaxBatchPerWake), so a claim that is enabled again and  *)
(* again is made.  The claim assumed is the weakest one: the poll of a      *)
(* process whose model is unloaded.  Startup reconciliation and the         *)
(* activation attempts recur while a generation is being built.             *)
(***************************************************************************)
Fairness ==
  /\ WF_vars(Tick)
  /\ \A w \in Procs : WF_vars(Step(w))
  /\ \A w \in Procs, k \in Kinds : SF_vars(Claim(w, k, TRUE))

BuildFairness ==
  \A w \in Procs, g \in Gens : WF_vars(Reconcile(w, g)) /\ WF_vars(Activate(w, g))

FairSpec  == Spec /\ Fairness
BuildSpec == FairSpec /\ BuildFairness

-----------------------------------------------------------------------------
LedgerOK ==
  /\ made \in [Memories -> 0 .. MaxRev] /\ text \in [Revs -> 0 .. MaxRev]
  /\ tomb \subseteq Memories /\ gone \subseteq Memories

GensOK ==
  /\ genState \in [Gens -> {"building", "active", "retired"}]
  /\ vec \subseteq Jobs /\ emb \in [Memories -> 0 .. MaxRev]

RowsOK ==
  /\ state \in [Jobs -> {"absent", "pending", "processing", "done", "failed"}]
  /\ attempts \in [Jobs -> 0 .. MaxAttempts]
  /\ owner \in [Jobs -> Procs \cup {None}]
  /\ lease \in [Jobs -> 0 .. Lease] /\ delay \in [Jobs -> 0 .. Lease]
  /\ grace \in [Jobs -> 0 .. Grace]
  /\ created \in [Jobs -> Nat] /\ stamp \in Nat
  /\ requeues \in 0 .. MaxRequeues /\ skipped \subseteq Jobs

WorkersOK ==
  /\ serves \in [Procs -> Bindings]
  /\ pc \in [Procs -> {"idle", "claimed", "current", "embed", "done", "skipped", "error"}]
  /\ job \in [Procs -> Jobs \cup {None}]
  /\ \A w \in Procs : Busy(w) <=> job[w] \in Jobs
  /\ since \in [Procs -> 0 .. Lease]

(* Every variable has its type, and a worker holds a job exactly while it is *)
(* in processClaimedJob.                                                     *)
TypeOK == LedgerOK /\ GensOK /\ RowsOK /\ WorkersOK

(* A job row agrees with itself after every transaction: it has an owner     *)
(* exactly while it is processing, only a processing job has a lease and     *)
(* only a pending one waits, and it is given up (failed) only when every     *)
(* attempt was used.                                                         *)
RowsConsistent ==
  \A j \in Jobs :
    /\ (owner[j] # None) <=> (state[j] = "processing")
    /\ lease[j] > 0 => state[j] = "processing"
    /\ delay[j] > 0 => state[j] = "pending"
    /\ state[j] = "failed" => attempts[j] = MaxAttempts
    /\ state[j] = "processing" => attempts[j] > 0

(* A worker whose lease has not run out still owns the job it is working on, *)
(* whatever the other workers, the sweeps, the reconciliation and the        *)
(* operator did meanwhile: no two workers embed the same job under a valid   *)
(* lease, and none loses its result to a takeover it could have prevented.   *)
LeaseHolderOwnsJob ==
  \A w \in Procs : Busy(w) /\ since[w] < Lease =>
    /\ state[job[w]] = "processing" /\ owner[job[w]] = w
    /\ lease[job[w]] = Lease - since[w]

(* A job recorded as done has its vector, or its revision is no longer the   *)
(* live one, or it was finished on purpose by a process that cannot embed    *)
(* its generation (which reconciliation re-arms).  So no order of takeovers, *)
(* late completions and writes loses an embedding silently.                  *)
DoneIsEmbedded ==
  \A j \in Jobs : state[j] = "done" => j \in vec \/ j \in skipped \/ ~Live(j[1])

(* The embedding projected on a live memory was computed from the content    *)
(* the memory has now: a worker that finishes late, for a revision replaced  *)
(* while it was embedding, never overwrites it.                              *)
ProjectionIsCurrent ==
  \A m \in Memories : LiveCurrent(m) /\ emb[m] # 0 => emb[m] = text[Cur(m)]

(* A finished job is reopened only to store a vector that is missing for a   *)
(* live revision: no stale worker, sweep or retry repeats finished work.     *)
DoneReopenedOnlyIfMissing ==
  [][\A j \in Jobs : state[j] = "done" /\ state'[j] # "done" =>
       state'[j] = "pending" /\ j \notin vec /\ Live(j[1])]_vars

(* The lease of a job expired on its last attempt and no claim swept it.     *)
Stuck(j) == Expired(j) /\ Exhausted(j)

(* Every queued job is eventually finished or given up, through crashes,     *)
(* lost finalizing statements and errors; a job whose last attempt crashed   *)
(* may stay processing while the sweep is rolled back with every claim.      *)
EveryJobSettles ==
  \A j \in Jobs : state[j] = "pending" ~>
                     state[j] \in {"done", "failed"} \/ Stuck(j)

(* A generation being built becomes the active one once the writes stop,     *)
(* unless a job of a live revision used all its attempts: the vectors that   *)
(* metadata corrections and crashes left missing are picked up again.        *)
BuildCompletes ==
  \A g \in Gens : genState[g] = "building" ~>
    \/ genState[g] # "building"
    \/ \E m \in Memories : LiveCurrent(m) /\
         (state[<<Cur(m), g>>] = "failed" \/ Stuck(<<Cur(m), g>>))
=============================================================================
