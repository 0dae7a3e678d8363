------------------------- MODULE ProcessingQueueProofs -------------------------
(***************************************************************************)
(* Proofs about ProcessingQueue, for every number of processes, memories,    *)
(* generations and attempts and every length of leases and delays.           *)
(***************************************************************************)
EXTENDS ProcessingQueue, TLAPS

(* A revision that was not written yet has no job.  Without this conjunct a  *)
(* write could reset a job a worker holds.                                   *)
UnwrittenHasNoJob ==
  \A j \in Jobs : made[j[1][1]] < j[1][2] => state[j] = "absent"

(* The inductive invariant behind the leases.  RowsConsistent bounds the     *)
(* attempts of a job that fails; LeaseHolderOwnsJob is what makes a sweep or *)
(* a claim leave a valid lease alone.                                        *)
LeaseInv ==
  TypeOK /\ RowsConsistent /\ LeaseHolderOwnsJob /\ UnwrittenHasNoJob

-----------------------------------------------------------------------------
(* The parts of a job, and of a memory's next revision.                      *)
LEMMA JobParts ==
  ASSUME NEW j \in Jobs
  PROVE  /\ j[1] \in Revs /\ j[2] \in Gens
         /\ j[1][1] \in Memories /\ j[1][2] \in 1 .. MaxRev
         /\ j = <<j[1], j[2]>> /\ j[1] = <<j[1][1], j[1][2]>>
BY DEF Jobs, Revs

(* The current revision of a memory that was written is a revision.          *)
LEMMA CurIsRevision ==
  ASSUME LedgerOK, NEW m \in Memories, Written(m)
  PROVE  Cur(m) \in Revs
BY BoundsAssumption DEF LedgerOK, Written, Cur, Revs

(* The jobs of the revision a write is about to append are absent, and no    *)
(* worker holds one of them.                                                 *)
LEMMA NextRevJobs ==
  ASSUME LedgerOK, UnwrittenHasNoJob, WorkersOK,
         NEW m \in Memories, NEW w \in Procs, made[m] < MaxRev
  PROVE  /\ NextRev(m) \in Revs
         /\ JobsFor(w, NextRev(m)) \subseteq Jobs
         /\ \A j \in JobsFor(w, NextRev(m)) : state[j] = "absent"
<1>1. made[m] \in 0 .. MaxRev /\ serves[w] \subseteq Gens
  BY BindingsAssumption DEF LedgerOK, WorkersOK
<1>2. NextRev(m) \in Revs
  BY <1>1, BoundsAssumption DEF NextRev, Revs
<1>3. ASSUME NEW j \in JobsFor(w, NextRev(m))
      PROVE  j \in Jobs /\ state[j] = "absent"
  <2>1. PICK g \in serves[w] : j = <<NextRev(m), g>>
    BY <1>3 DEF JobsFor
  <2>2. j \in Jobs
    BY <2>1, <1>1, <1>2 DEF Jobs
  <2>3. j[1][1] = m /\ j[1][2] = made[m] + 1
    BY <2>1 DEF NextRev
  <2>4. QED BY <1>1, <2>2, <2>3 DEF UnwrittenHasNoJob
<1>4. QED BY <1>2, <1>3

(* Appending a revision keeps the types of the ledger and frees no job.      *)
LEMMA AppendKeepsLedger ==
  ASSUME LedgerOK, NEW m \in Memories, NEW v \in 0 .. MaxRev, AppendRevision(m, v),
         tomb' \subseteq Memories, gone' \subseteq Memories
  PROVE  /\ LedgerOK'
         /\ \A j \in Jobs : made'[j[1][1]] < j[1][2] =>
              made[j[1][1]] < j[1][2] /\ ~ (j[1] = NextRev(m))
<1>1. made[m] \in 0 .. MaxRev /\ made[m] < MaxRev
  BY DEF LedgerOK, AppendRevision
<1>2. NextRev(m) \in Revs
  BY <1>1, BoundsAssumption DEF NextRev, Revs
<1>3. LedgerOK'
  BY <1>1, <1>2, BoundsAssumption DEF LedgerOK, AppendRevision
<1>4. ASSUME NEW j \in Jobs, made'[j[1][1]] < j[1][2]
      PROVE  made[j[1][1]] < j[1][2] /\ ~ (j[1] = NextRev(m))
  <2>1. j[1][1] \in Memories /\ j[1][2] \in 1 .. MaxRev /\ made[j[1][1]] \in 0 .. MaxRev
    BY JobParts DEF LedgerOK
  <2>2. CASE j[1][1] = m
    <3>1. made'[m] = made[m] + 1
      BY DEF AppendRevision, LedgerOK
    <3>2. made[m] + 1 < j[1][2]
      BY <1>4, <2>2, <3>1
    <3>3. NextRev(m)[2] = made[m] + 1
      BY DEF NextRev
    <3>4. QED BY <1>1, <2>1, <2>2, <3>2, <3>3
  <2>3. CASE j[1][1] # m
    <3>1. made'[j[1][1]] = made[j[1][1]]
      BY <2>1, <2>3 DEF AppendRevision, LedgerOK
    <3>2. NextRev(m)[1] = m
      BY DEF NextRev
    <3>3. QED BY <1>4, <2>3, <3>1, <3>2
  <2>4. QED BY <2>2, <2>3
<1>5. QED BY <1>3, <1>4

-----------------------------------------------------------------------------
(* Inserting or re-arming jobs keeps the rows consistent, and keeps every    *)
(* valid lease if none of the jobs is being processed.                       *)
LEMMA EnqueueKeepsRows ==
  ASSUME RowsOK, RowsConsistent, NEW new \in SUBSET Jobs, Enqueue(new),
         requeues' \in 0 .. MaxRequeues
  PROVE  RowsOK' /\ RowsConsistent'
<1>1. RowsOK'
  BY BoundsAssumption DEF RowsOK, Enqueue
<1>2. ASSUME NEW j \in Jobs
      PROVE  RowsConsistent!(j)'
  <2>1. CASE j \in new
    BY <2>1 DEF RowsOK, Enqueue
  <2>2. CASE j \notin new
    BY <2>2 DEF RowsOK, RowsConsistent, Enqueue
  <2>3. QED BY <2>1, <2>2
<1>3. QED BY <1>1, <1>2 DEF RowsConsistent

(* Inserting jobs disturbs no holder, since it overwrites no processing      *)
(* row.                                                                      *)
LEMMA EnqueueKeepsLeases ==
  ASSUME WorkersOK, LeaseHolderOwnsJob, NEW new \in SUBSET Jobs, Enqueue(new),
         \A j \in new : state[j] # "processing",
         UNCHANGED <<pc, job, since>>
  PROVE  LeaseHolderOwnsJob'
BY DEF WorkersOK, LeaseHolderOwnsJob, Enqueue, Busy

(* Inserting jobs only for written revisions leaves the others without a     *)
(* row.                                                                      *)
LEMMA EnqueueKeepsUnwritten ==
  ASSUME RowsOK, NEW new \in SUBSET Jobs, Enqueue(new),
         \A j \in Jobs : made'[j[1][1]] < j[1][2] =>
           made[j[1][1]] < j[1][2] /\ j \notin new,
         UnwrittenHasNoJob
  PROVE  UnwrittenHasNoJob'
BY DEF RowsOK, Enqueue, UnwrittenHasNoJob

(* A sweep leaves every job alone whose lease has not run out.               *)
LEMMA SweptFacts ==
  ASSUME RowsOK, RowsConsistent, NEW j \in Jobs
  PROVE  /\ Swept(j) \in {"absent", "pending", "processing", "done", "failed"}
         /\ Swept(j) # state[j] => Expired(j)
         /\ Expired(j) => Swept(j) \in {"pending", "failed"}
         /\ Swept(j) = "failed" => attempts[j] = MaxAttempts
         /\ Swept(j) = "processing" <=> state[j] = "processing" /\ lease[j] > 0
BY BoundsAssumption DEF RowsOK, RowsConsistent, Swept, Expired, Exhausted

(* Steps that leave the queue and the workers alone.                         *)
LEMMA LedgerStep ==
  ASSUME LeaseInv, UNCHANGED <<jobs, requeues, workers, skipped>>,
         LedgerOK', GensOK',
         \A j \in Jobs : made'[j[1][1]] < j[1][2] => made[j[1][1]] < j[1][2]
  PROVE  LeaseInv'
<1> USE DEF LeaseInv, TypeOK, jobs, workers
<1>1. RowsOK'
  BY DEF RowsOK
<1>2. WorkersOK'
  BY DEF WorkersOK, Busy
<1>3. RowsConsistent'
  BY DEF RowsConsistent
<1>4. LeaseHolderOwnsJob'
  BY DEF LeaseHolderOwnsJob, Busy
<1>5. UnwrittenHasNoJob'
  BY DEF UnwrittenHasNoJob
<1>6. QED BY <1>1, <1>2, <1>3, <1>4, <1>5

(* Steps that insert jobs.                                                   *)
LEMMA EnqueueStep ==
  ASSUME LeaseInv, NEW new \in SUBSET Jobs, Enqueue(new),
         \A j \in new : state[j] # "processing",
         \A j \in Jobs : made'[j[1][1]] < j[1][2] =>
           made[j[1][1]] < j[1][2] /\ j \notin new,
         UNCHANGED workers, requeues' \in 0 .. MaxRequeues, LedgerOK', GensOK'
  PROVE  LeaseInv'
<1> USE DEF LeaseInv, TypeOK, workers
<1>1. RowsOK' /\ RowsConsistent'
  BY EnqueueKeepsRows
<1>2. WorkersOK'
  BY DEF WorkersOK, Busy
<1>3. LeaseHolderOwnsJob'
  BY EnqueueKeepsLeases
<1>4. UnwrittenHasNoJob'
  BY EnqueueKeepsUnwritten
<1>5. QED BY <1>1, <1>2, <1>3, <1>4

(* Steps of a worker that only move it to another place.                     *)
LEMMA GotoStep ==
  ASSUME LeaseInv, NEW w \in Procs, Busy(w),
         NEW l \in {"current", "embed", "done", "skipped", "error"}, Goto(w, l),
         UNCHANGED <<ledger, jobs, requeues, serves, job, since, skipped>>, GensOK'
  PROVE  LeaseInv'
<1> USE DEF LeaseInv, TypeOK, jobs, ledger
<1>1. LedgerOK'
  BY DEF LedgerOK
<1>2. RowsOK' /\ RowsConsistent'
  BY DEF RowsOK, RowsConsistent
<1>3. WorkersOK'
  BY DEF WorkersOK, Busy, Goto
<1>4. LeaseHolderOwnsJob'
  BY DEF LeaseHolderOwnsJob, WorkersOK, Busy, Goto
<1>5. UnwrittenHasNoJob'
  BY DEF UnwrittenHasNoJob
<1>6. QED BY <1>1, <1>2, <1>3, <1>4, <1>5

-----------------------------------------------------------------------------
(* One lemma per action.                                                     *)
LEMMA WriteKeepsLeaseInv ==
  ASSUME LeaseInv, NEW m \in Memories, NEW w \in Procs, Write(m, w) \/ Rewrite(m, w)
  PROVE  LeaseInv'
<1> DEFINE new == JobsFor(w, NextRev(m))
<1> USE DEF LeaseInv, TypeOK
<1>1. made[m] \in 0 .. MaxRev /\ made[m] < MaxRev
  BY DEF LedgerOK, Write, Rewrite, AppendRevision
<1>2. new \subseteq Jobs /\ \A j \in new : state[j] = "absent"
  BY <1>1, NextRevJobs
<1>3. PICK v \in 0 .. MaxRev : AppendRevision(m, v)
  <2>1. CASE Write(m, w)
    BY <1>1, <2>1, BoundsAssumption DEF Write
  <2>2. CASE Rewrite(m, w)
    <3>1. text[Cur(m)] \in 0 .. MaxRev
      BY <2>2, CurIsRevision DEF Rewrite, LedgerOK
    <3>2. QED BY <2>2, <3>1 DEF Rewrite
  <2>3. QED BY <2>1, <2>2
<1>4. tomb' \subseteq Memories /\ gone' \subseteq Memories
  BY DEF Write, Rewrite, LedgerOK
<1>5. /\ LedgerOK'
      /\ \A j \in Jobs : made'[j[1][1]] < j[1][2] =>
           made[j[1][1]] < j[1][2] /\ ~ (j[1] = NextRev(m))
  BY <1>3, <1>4, AppendKeepsLedger
<1>6. \A j \in new : j[1] = NextRev(m)
  BY DEF JobsFor
<1>7. GensOK'
  BY BoundsAssumption DEF Write, Rewrite, GensOK, gens
<1>8. Enqueue(new) /\ UNCHANGED workers /\ requeues' \in 0 .. MaxRequeues
  BY DEF Write, Rewrite, RowsOK
<1>9. \A j \in Jobs : made'[j[1][1]] < j[1][2] =>
        made[j[1][1]] < j[1][2] /\ j \notin new
  BY <1>5, <1>6
<1> HIDE DEF new
<1>10. QED BY <1>2, <1>5, <1>7, <1>8, <1>9, EnqueueStep DEF LeaseInv, TypeOK

(* Ledger writes that enqueue nothing.                                       *)
LEMMA LedgerActionsKeepLeaseInv ==
  ASSUME LeaseInv, NEW m \in Memories,
         Forget(m) \/ Correct(m) \/ RawDelete(m) \/ UndoUntrackedDelete(m)
  PROVE  LeaseInv'
<1> USE DEF LeaseInv, TypeOK
<1>1. CASE Forget(m) \/ Correct(m)
  <2>1. text[Cur(m)] \in 0 .. MaxRev
    BY <1>1, CurIsRevision DEF Forget, Correct, LedgerOK
  <2>2. AppendRevision(m, text[Cur(m)]) /\ tomb' \subseteq Memories /\ gone' \subseteq Memories
    BY <1>1 DEF Forget, Correct, LedgerOK
  <2>3. /\ LedgerOK'
        /\ \A j \in Jobs : made'[j[1][1]] < j[1][2] => made[j[1][1]] < j[1][2]
    BY <2>1, <2>2, AppendKeepsLedger
  <2>4. NextRev(m) \in Revs
    BY <2>2, BoundsAssumption DEF LedgerOK, AppendRevision, NextRev, Revs
  <2>5. GensOK'
    <3>1. CASE Forget(m)
      BY <3>1 DEF Forget, GensOK, gens
    <3>2. CASE Correct(m)
      <4>1. {<<NextRev(m), g>> : g \in {h \in Gens : <<Cur(m), h>> \in vec}} \subseteq Jobs
        <5>1. \A g \in Gens : <<NextRev(m), g>> \in Jobs
          BY <2>4 DEF Jobs
        <5>2. QED BY <5>1
      <4>2. QED BY <3>2, <4>1 DEF Correct, GensOK
    <3>3. QED BY <1>1, <3>1, <3>2
  <2>6. UNCHANGED <<jobs, requeues, workers, skipped>>
    BY <1>1 DEF Forget, Correct
  <2>7. QED BY <2>3, <2>5, <2>6, LedgerStep
<1>2. CASE RawDelete(m) \/ UndoUntrackedDelete(m)
  <2>1. LedgerOK' /\ made' = made
    BY <1>2 DEF RawDelete, UndoUntrackedDelete, LedgerOK
  <2>2. GensOK'
    BY <1>2 DEF RawDelete, UndoUntrackedDelete, GensOK, gens
  <2>3. UNCHANGED <<jobs, requeues, workers, skipped>>
    BY <1>2 DEF RawDelete, UndoUntrackedDelete
  <2>4. QED BY <2>1, <2>2, <2>3, LedgerStep
<1>3. QED BY <1>1, <1>2

(* The sweep and the claim touch no row whose lease still runs.              *)
LEMMA ClaimKeepsLeaseInv ==
  ASSUME LeaseInv, NEW w \in Procs, NEW k \in Kinds, NEW aged \in BOOLEAN,
         Claim(w, k, aged)
  PROVE  LeaseInv'
<1> USE DEF LeaseInv, TypeOK
<1>1. PICK j \in Oldest(Claimable(w, k, aged)) : Claim(w, k, aged)!2!(j)
  BY DEF Claim
<1>2. j \in Jobs /\ Swept(j) = "pending" /\ attempts[j] < MaxAttempts
      /\ delay[j] = 0
  BY BoundsAssumption DEF Oldest, Claimable, Exhausted, RowsOK
<1>3. /\ pc[w] = "idle"
      /\ UNCHANGED <<ledger, gens, delay, grace, created, stamp, requeues, serves, skipped>>
  BY DEF Claim
<1>4. LedgerOK' /\ GensOK'
  BY <1>3 DEF LedgerOK, GensOK, ledger, gens
<1>5. RowsOK'
  <2>1. state' \in [Jobs -> {"absent", "pending", "processing", "done", "failed"}]
    BY <1>1, SweptFacts DEF RowsOK
  <2>2. owner' \in [Jobs -> Procs \cup {None}]
    BY <1>1 DEF RowsOK
  <2>3. /\ attempts' \in [Jobs -> 0 .. MaxAttempts]
        /\ lease' \in [Jobs -> 0 .. Lease]
    BY <1>1, <1>2, BoundsAssumption DEF RowsOK
  <2>4. QED BY <1>3, <2>1, <2>2, <2>3 DEF RowsOK
<1>6. WorkersOK'
  <2>1. /\ serves' = serves /\ pc' = [pc EXCEPT ![w] = "claimed"]
        /\ job' = [job EXCEPT ![w] = j] /\ since' = [since EXCEPT ![w] = 0]
    BY <1>1, <1>3
  <2>2. QED BY <1>2, <2>1, BoundsAssumption DEF WorkersOK, Busy
<1>7. ASSUME NEW i \in Jobs
      PROVE  RowsConsistent!(i)'
  <2>1. CASE i = j
    BY <1>1, <1>2, <1>3, <2>1, NoneAssumption DEF RowsOK
  <2>2. CASE i # j
    <3>1. /\ state'[i] = Swept(i) /\ attempts'[i] = attempts[i] /\ lease'[i] = lease[i]
          /\ delay'[i] = delay[i]
          /\ owner'[i] = IF Expired(i) THEN None ELSE owner[i]
      BY <1>1, <1>3, <2>2 DEF RowsOK
    <3>2. QED BY <3>1, SweptFacts DEF RowsOK, RowsConsistent, Expired
  <2>3. QED BY <2>1, <2>2
<1>8. ASSUME NEW v \in Procs, Busy(v)', since'[v] < Lease
      PROVE  LeaseHolderOwnsJob!(v)!2'
  <2>1. CASE v = w
    <3>1. job'[v] = j /\ since'[v] = 0 /\ state'[j] = "processing"
          /\ owner'[j] = w /\ lease'[j] = Lease
      BY <1>1, <1>2, <2>1 DEF RowsOK, WorkersOK
    <3>2. QED BY <2>1, <3>1, BoundsAssumption
  <2>2. CASE v # w
    <3>1. pc'[v] = pc[v] /\ job'[v] = job[v] /\ since'[v] = since[v]
      BY <1>1, <2>2 DEF WorkersOK
    <3>2. /\ Busy(v) /\ job[v] \in Jobs
          /\ state[job[v]] = "processing" /\ owner[job[v]] = v
          /\ lease[job[v]] = Lease - since[v] /\ lease[job[v]] > 0
      BY <1>8, <3>1, BoundsAssumption DEF LeaseHolderOwnsJob, Busy, WorkersOK
    <3>3. Swept(job[v]) = "processing" /\ ~Expired(job[v])
      BY <3>2 DEF Swept, Expired
    <3>4. job[v] # j
      BY <1>2, <3>3
    <3>5. QED BY <1>1, <3>1, <3>2, <3>3, <3>4 DEF RowsOK
  <2>3. QED BY <2>1, <2>2
<1>9. ASSUME NEW i \in Jobs, made'[i[1][1]] < i[1][2]
      PROVE  state'[i] = "absent"
  <2>1. state[i] = "absent"
    BY <1>3, <1>9 DEF UnwrittenHasNoJob, ledger
  <2>2. Swept(i) = "absent"
    BY <2>1 DEF Swept, Expired
  <2>3. QED BY <1>1, <1>2, <2>2
<1>10. QED
  BY <1>4, <1>5, <1>6, <1>7, <1>8, <1>9
     DEF RowsConsistent, LeaseHolderOwnsJob, UnwrittenHasNoJob

(* The checks before the embedding change no row.                            *)
LEMMA CheckKeepsLeaseInv ==
  ASSUME LeaseInv, NEW w \in Procs,
         CheckRevision(w) \/ CheckGeneration(w) \/ ProcessingError(w)
  PROVE  LeaseInv'
<1>1. PICK l \in {"current", "embed", "done", "skipped", "error"} : Goto(w, l)
  BY DEF CheckRevision, CheckGeneration, ProcessingError
<1>2. Busy(w)
  BY DEF CheckRevision, CheckGeneration, ProcessingError, Busy
<1>3. UNCHANGED <<ledger, gens, jobs, requeues, serves, job, since, skipped>>
  BY DEF CheckRevision, CheckGeneration, ProcessingError
<1>4. GensOK'
  BY <1>3 DEF LeaseInv, TypeOK, GensOK, gens
<1>5. QED BY <1>1, <1>2, <1>3, <1>4, GotoStep

(* Storing a vector changes no row of the queue.                             *)
LEMMA EmbedKeepsLeaseInv ==
  ASSUME LeaseInv, NEW w \in Procs, EmbedAndStore(w)
  PROVE  LeaseInv'
<1> USE DEF LeaseInv, TypeOK
<1>1. Busy(w) /\ job[w] \in Jobs
  BY DEF EmbedAndStore, Busy, WorkersOK
<1>2. PICK l \in {"done", "error"} : Goto(w, l)
  BY DEF EmbedAndStore
<1>3. text[job[w][1]] \in 0 .. MaxRev
  BY <1>1, JobParts DEF LedgerOK
<1>4. GensOK'
  BY <1>1, <1>3 DEF EmbedAndStore, GensOK
<1>5. UNCHANGED <<ledger, jobs, requeues, serves, job, since, skipped>>
  BY DEF EmbedAndStore
<1>6. QED BY <1>1, <1>2, <1>4, <1>5, GotoStep

(* A worker lets its job go and no row changes.                              *)
LEMMA ReleaseStep ==
  ASSUME LeaseInv, NEW w \in Procs, Release(w), UNCHANGED serves
  PROVE  WorkersOK' /\ ~Busy(w)' /\ \A v \in Procs \ {w} :
           pc'[v] = pc[v] /\ job'[v] = job[v] /\ since'[v] = since[v]
BY NoneAssumption, BoundsAssumption
   DEF LeaseInv, TypeOK, WorkersOK, Release, Goto, Busy

(* A worker that dies leaves its row to the sweep.                           *)
LEMMA AbandonKeepsLeaseInv ==
  ASSUME LeaseInv, NEW w \in Procs, Abandon(w)
  PROVE  LeaseInv'
<1> USE DEF LeaseInv, TypeOK
<1>1. /\ Release(w)
      /\ UNCHANGED <<ledger, gens, jobs, requeues, serves, skipped>>
  BY DEF Abandon
<1>2. WorkersOK' /\ ~Busy(w)' /\ \A v \in Procs \ {w} :
        pc'[v] = pc[v] /\ job'[v] = job[v] /\ since'[v] = since[v]
  BY <1>1, ReleaseStep
<1>3. LedgerOK' /\ GensOK' /\ RowsOK'
  BY <1>1 DEF LedgerOK, GensOK, RowsOK, ledger, gens, jobs
<1>4. RowsConsistent'
  BY <1>1 DEF RowsConsistent, jobs
<1>5. LeaseHolderOwnsJob'
  BY <1>1, <1>2 DEF LeaseHolderOwnsJob, Busy, jobs
<1>6. UnwrittenHasNoJob'
  BY <1>1 DEF UnwrittenHasNoJob, jobs, ledger
<1>7. QED BY <1>2, <1>3, <1>4, <1>5, <1>6

(* Finalizing a job the worker owns, in any state but processing.            *)
LEMMA FinalizeStep ==
  ASSUME LeaseInv, NEW w \in Procs, Busy(w), Owns(w),
         NEW s \in {"pending", "done", "failed"}, NEW d \in 0 .. Lease,
         s # "pending" => d = 0,
         s = "failed" => attempts[job[w]] = MaxAttempts,
         state' = [state EXCEPT ![job[w]] = s],
         owner' = [owner EXCEPT ![job[w]] = None],
         lease' = [lease EXCEPT ![job[w]] = 0],
         delay' = [delay EXCEPT ![job[w]] = d],
         skipped' \subseteq Jobs, Release(w),
         UNCHANGED <<ledger, gens, attempts, grace, created, stamp, requeues, serves>>
  PROVE  LeaseInv'
<1> USE DEF LeaseInv, TypeOK
<1>1. job[w] \in Jobs /\ state[job[w]] = "processing" /\ owner[job[w]] = w
  BY DEF WorkersOK, Owns
<1>2. WorkersOK' /\ ~Busy(w)' /\ \A v \in Procs \ {w} :
        pc'[v] = pc[v] /\ job'[v] = job[v] /\ since'[v] = since[v]
  BY ReleaseStep
<1>3. LedgerOK' /\ GensOK'
  BY DEF LedgerOK, GensOK, ledger, gens
<1>4. RowsOK'
  BY <1>1, BoundsAssumption DEF RowsOK
<1>5. ASSUME NEW i \in Jobs
      PROVE  RowsConsistent!(i)'
  <2>1. CASE i = job[w]
    BY <1>1, <2>1 DEF RowsOK
  <2>2. CASE i # job[w]
    BY <1>1, <2>2 DEF RowsOK, RowsConsistent
  <2>3. QED BY <2>1, <2>2
<1>6. ASSUME NEW v \in Procs, Busy(v)', since'[v] < Lease
      PROVE  LeaseHolderOwnsJob!(v)!2'
  <2>1. v # w
    BY <1>2, <1>6
  <2>2. pc'[v] = pc[v] /\ job'[v] = job[v] /\ since'[v] = since[v]
    BY <1>2, <2>1
  <2>3. /\ job[v] \in Jobs /\ state[job[v]] = "processing" /\ owner[job[v]] = v
        /\ lease[job[v]] = Lease - since[v]
    BY <1>6, <2>2 DEF LeaseHolderOwnsJob, Busy, WorkersOK
  <2>4. job[v] # job[w]
    BY <1>1, <2>1, <2>3
  <2>5. QED BY <2>2, <2>3, <2>4 DEF RowsOK
<1>7. UnwrittenHasNoJob'
  BY <1>1 DEF UnwrittenHasNoJob, RowsOK, ledger
<1>8. QED
  BY <1>2, <1>3, <1>4, <1>5, <1>6, <1>7 DEF RowsConsistent, LeaseHolderOwnsJob

(* A finalizing statement touches the row only while it names the worker.    *)
LEMMA FinalizeKeepsLeaseInv ==
  ASSUME LeaseInv, NEW w \in Procs, Complete(w) \/ Fail(w)
  PROVE  LeaseInv'
<1> USE DEF LeaseInv, TypeOK
<1>1. Busy(w) /\ job[w] \in Jobs
  BY DEF Complete, Fail, Busy, WorkersOK
<1>2. CASE ~Owns(w)
  <2>1. Abandon(w)
    BY <1>1, <1>2 DEF Complete, Fail, Abandon, jobs
  <2>2. QED BY <2>1, AbandonKeepsLeaseInv DEF LeaseInv, TypeOK
<1>3. CASE Owns(w) /\ Complete(w)
  <2>1. skipped' \subseteq Jobs
    BY <1>1, <1>3 DEF Complete, RowsOK
  <2>2. /\ state' = [state EXCEPT ![job[w]] = "done"]
        /\ owner' = [owner EXCEPT ![job[w]] = None]
        /\ lease' = [lease EXCEPT ![job[w]] = 0]
        /\ delay' = [delay EXCEPT ![job[w]] = 0]
        /\ Release(w)
        /\ UNCHANGED <<ledger, gens, attempts, grace, created, stamp, requeues, serves>>
    BY <1>3 DEF Complete
  <2>3. 0 \in 0 .. Lease
    BY BoundsAssumption
  <2>4. QED BY <1>1, <1>3, <2>1, <2>2, <2>3, FinalizeStep DEF LeaseInv, TypeOK
<1>4. CASE Owns(w) /\ Fail(w)
  <2> DEFINE s == IF Exhausted(job[w]) THEN "failed" ELSE "pending"
             left == Backoff[attempts[job[w]]] - since[w]
             d == IF Exhausted(job[w]) \/ left < 0 THEN 0 ELSE left
  <2>1. attempts[job[w]] \in 1 .. MaxAttempts
    BY <1>1, <1>4, BoundsAssumption DEF Owns, RowsConsistent, RowsOK
  <2>2. Backoff[attempts[job[w]]] \in 1 .. Lease /\ since[w] \in 0 .. Lease
    BY <2>1, BoundsAssumption DEF WorkersOK
  <2>3. d \in 0 .. Lease
    BY <2>2, BoundsAssumption
  <2>4. s \in {"pending", "done", "failed"} /\ (s # "pending" => d = 0)
    OBVIOUS
  <2>5. s = "failed" => attempts[job[w]] = MaxAttempts
    BY <2>1, BoundsAssumption DEF Exhausted
  <2>6. /\ state' = [state EXCEPT ![job[w]] = s]
        /\ owner' = [owner EXCEPT ![job[w]] = None]
        /\ lease' = [lease EXCEPT ![job[w]] = 0]
        /\ delay' = [delay EXCEPT ![job[w]] = d]
        /\ Release(w)
        /\ UNCHANGED <<ledger, gens, attempts, grace, created, stamp, requeues, serves, skipped>>
    BY <1>4 DEF Fail
  <2>7. skipped' \subseteq Jobs
    BY <2>6 DEF RowsOK
  <2> HIDE DEF s, d
  <2>8. QED BY <1>1, <1>4, <2>3, <2>4, <2>5, <2>6, <2>7, FinalizeStep DEF LeaseInv, TypeOK
<1>5. QED BY <1>2, <1>3, <1>4

(* Reconciliation enqueues no job that is being processed.                   *)
LEMMA ReconcileKeepsLeaseInv ==
  ASSUME LeaseInv, NEW w \in Procs, NEW g \in Gens, Reconcile(w, g)
  PROVE  LeaseInv'
<1> USE DEF LeaseInv, TypeOK
<1>1. Missing(g) \in SUBSET Jobs
      /\ \A j \in Missing(g) : state[j] # "processing" /\ j[1] = Cur(j[1][1])
  BY DEF Missing, Live
<1>2. \A j \in Missing(g) : j[1][2] = made[j[1][1]]
  BY <1>1 DEF Cur
<1>3. /\ Enqueue(Missing(g))
      /\ UNCHANGED <<ledger, gens, requeues, workers>>
  BY DEF Reconcile
<1>4. LedgerOK' /\ GensOK' /\ requeues' \in 0 .. MaxRequeues
  BY <1>3 DEF LedgerOK, GensOK, RowsOK, ledger, gens
<1>5. \A j \in Jobs : made'[j[1][1]] < j[1][2] =>
        made[j[1][1]] < j[1][2] /\ j \notin Missing(g)
  <2>1. \A j \in Jobs : made[j[1][1]] \in 0 .. MaxRev
    BY JobParts DEF LedgerOK
  <2>2. QED BY <1>2, <1>3, <2>1, BoundsAssumption DEF ledger
<1>6. QED BY <1>1, <1>3, <1>4, <1>5, EnqueueStep DEF LeaseInv, TypeOK

(* Reviving and activating a generation change no row of the queue.          *)
LEMMA GenerationActionsKeepLeaseInv ==
  ASSUME LeaseInv, NEW g \in Gens,
         Revive(g) \/ \E w \in Procs : Activate(w, g)
  PROVE  LeaseInv'
<1> USE DEF LeaseInv, TypeOK
<1>1. UNCHANGED <<ledger, vec, jobs, requeues, workers, skipped>>
  BY DEF Revive, Activate
<1>2. CASE Revive(g)
  <2>1. GensOK'
    BY <1>2 DEF Revive, GensOK
  <2>2. LedgerOK'
    BY <1>1 DEF LedgerOK, ledger
  <2>3. QED BY <1>1, <2>1, <2>2, LedgerStep DEF LeaseInv, TypeOK, ledger
<1>3. CASE \E w \in Procs : Activate(w, g)
  <2>1. emb' \in [Memories -> 0 .. MaxRev]
    <3>1. \A m \in Memories : Written(m) => text[Cur(m)] \in 0 .. MaxRev
      BY CurIsRevision DEF LedgerOK
    <3>2. QED BY <1>3, <3>1, BoundsAssumption DEF Activate, GensOK
  <2>2. GensOK'
    BY <1>1, <1>3, <2>1 DEF Activate, GensOK
  <2>3. LedgerOK'
    BY <1>1 DEF LedgerOK, ledger
  <2>4. QED BY <1>1, <2>2, <2>3, LedgerStep DEF LeaseInv, TypeOK, ledger
<1>4. QED BY <1>2, <1>3

(* Rebinding changes only what the process serves.                           *)
LEMMA RebindKeepsLeaseInv ==
  ASSUME LeaseInv, NEW w \in Procs, Rebind(w)
  PROVE  LeaseInv'
<1> USE DEF LeaseInv, TypeOK, Rebind
<1>1. LedgerOK' /\ GensOK' /\ RowsOK'
  BY DEF LedgerOK, GensOK, RowsOK, ledger, gens, jobs
<1>2. WorkersOK'
  BY DEF WorkersOK, Busy
<1>3. RowsConsistent' /\ LeaseHolderOwnsJob' /\ UnwrittenHasNoJob'
  BY DEF RowsConsistent, LeaseHolderOwnsJob, UnwrittenHasNoJob, Busy, jobs, ledger
<1>4. QED BY <1>1, <1>2, <1>3

(* An operator requeues only rows nobody holds.                              *)
LEMMA RequeueKeepsLeaseInv ==
  ASSUME LeaseInv, NEW j \in Jobs, Requeue(j)
  PROVE  LeaseInv'
<1> USE DEF LeaseInv, TypeOK
<1>1. /\ {j} \in SUBSET Jobs /\ state[j] = "failed" /\ Enqueue({j})
      /\ UNCHANGED <<ledger, gens, workers>>
  BY DEF Requeue
<1>2. requeues' \in 0 .. MaxRequeues
  BY BoundsAssumption DEF Requeue, RowsOK
<1>3. LedgerOK' /\ GensOK'
  BY <1>1 DEF LedgerOK, GensOK, ledger, gens
<1>4. \A i \in Jobs : made'[i[1][1]] < i[1][2] =>
        made[i[1][1]] < i[1][2] /\ i \notin {j}
  BY <1>1 DEF UnwrittenHasNoJob, ledger
<1>5. QED BY <1>1, <1>2, <1>3, <1>4, EnqueueStep DEF LeaseInv, TypeOK

(* Time moves the lease on a row and the time since its claim together.      *)
LEMMA TickKeepsLeaseInv ==
  ASSUME LeaseInv, Tick
  PROVE  LeaseInv'
<1> USE DEF LeaseInv, TypeOK
<1>1. UNCHANGED <<ledger, gens, state, attempts, owner, created, stamp, requeues,
                  serves, pc, job, skipped>>
  BY DEF Tick
<1>2. LedgerOK' /\ GensOK'
  BY <1>1 DEF LedgerOK, GensOK, ledger, gens
<1>3. RowsOK'
  BY <1>1, BoundsAssumption DEF Tick, RowsOK, Later
<1>4. WorkersOK'
  BY <1>1, BoundsAssumption DEF Tick, WorkersOK, Busy
<1>5. RowsConsistent'
  BY <1>1, BoundsAssumption DEF Tick, RowsOK, RowsConsistent, Later
<1>6. ASSUME NEW w \in Procs, Busy(w)', since'[w] < Lease
      PROVE  LeaseHolderOwnsJob!(w)!2'
  <2>1. Busy(w) /\ since[w] \in 0 .. Lease /\ job[w] \in Jobs
    BY <1>1, <1>6 DEF Busy, WorkersOK
  <2>2. since[w] < Lease /\ since'[w] = since[w] + 1
    BY <1>6, <2>1, BoundsAssumption DEF Tick
  <2>3. /\ state[job[w]] = "processing" /\ owner[job[w]] = w
        /\ lease[job[w]] = Lease - since[w]
    BY <2>1, <2>2 DEF LeaseHolderOwnsJob
  <2>4. lease'[job[w]] = lease[job[w]] - 1
    BY <2>1, <2>2, <2>3, BoundsAssumption DEF Tick, Later
  <2>5. QED BY <1>1, <2>1, <2>2, <2>3, <2>4, BoundsAssumption
<1>7. UnwrittenHasNoJob'
  BY <1>1 DEF UnwrittenHasNoJob, ledger
<1>8. QED BY <1>2, <1>3, <1>4, <1>5, <1>6, <1>7 DEF LeaseHolderOwnsJob

-----------------------------------------------------------------------------
(* The invariant holds at the start.                                         *)
LEMMA InitLeaseInv ==
  Init => LeaseInv
<1> SUFFICES ASSUME Init PROVE LeaseInv
  OBVIOUS
<1>1. LedgerOK /\ GensOK
  BY BoundsAssumption DEF Init, LedgerOK, GensOK
<1>2. RowsOK
  BY BoundsAssumption DEF Init, RowsOK
<1>3. WorkersOK
  BY BoundsAssumption, NoneAssumption DEF Init, WorkersOK, Busy
<1>4. RowsConsistent /\ LeaseHolderOwnsJob /\ UnwrittenHasNoJob
  BY NoneAssumption DEF Init, RowsConsistent, LeaseHolderOwnsJob, UnwrittenHasNoJob, Busy
<1>5. QED BY <1>1, <1>2, <1>3, <1>4 DEF LeaseInv, TypeOK

(* Every step keeps the invariant.                                           *)
LEMMA NextKeepsLeaseInv ==
  ASSUME LeaseInv, [Next]_vars
  PROVE  LeaseInv'
<1>1. ASSUME NEW m \in Memories,
             \/ Forget(m) \/ Correct(m) \/ RawDelete(m) \/ UndoUntrackedDelete(m)
             \/ \E w \in Procs : Write(m, w) \/ Rewrite(m, w)
      PROVE  LeaseInv'
  BY <1>1, LedgerActionsKeepLeaseInv, WriteKeepsLeaseInv
<1>2. ASSUME NEW w \in Procs,
             \/ \E k \in Kinds, aged \in BOOLEAN : Claim(w, k, aged)
             \/ Step(w) \/ ProcessingError(w) \/ Abandon(w) \/ Rebind(w)
      PROVE  LeaseInv'
  <2>1. CASE \E k \in Kinds, aged \in BOOLEAN : Claim(w, k, aged)
    BY <2>1, ClaimKeepsLeaseInv
  <2>2. CASE Step(w)
    BY <2>2, CheckKeepsLeaseInv, EmbedKeepsLeaseInv, FinalizeKeepsLeaseInv DEF Step
  <2>3. CASE ProcessingError(w)
    BY <2>3, CheckKeepsLeaseInv
  <2>4. CASE Abandon(w) \/ Rebind(w)
    BY <2>4, AbandonKeepsLeaseInv, RebindKeepsLeaseInv
  <2>5. QED BY <1>2, <2>1, <2>2, <2>3, <2>4
<1>3. ASSUME NEW w \in Procs, NEW g \in Gens, Reconcile(w, g) \/ Activate(w, g)
      PROVE  LeaseInv'
  BY <1>3, ReconcileKeepsLeaseInv, GenerationActionsKeepLeaseInv
<1>4. ASSUME NEW g \in Gens, Revive(g)
      PROVE  LeaseInv'
  BY <1>4, GenerationActionsKeepLeaseInv
<1>5. ASSUME NEW j \in Jobs, Requeue(j)
      PROVE  LeaseInv'
  BY <1>5, RequeueKeepsLeaseInv
<1>6. CASE Tick
  BY <1>6, TickKeepsLeaseInv
<1>7. CASE UNCHANGED vars
  <2>1. UNCHANGED <<jobs, requeues, workers, skipped>> /\ UNCHANGED <<ledger, gens>>
    BY <1>7 DEF vars
  <2>2. LedgerOK' /\ GensOK'
    BY <2>1 DEF LeaseInv, TypeOK, LedgerOK, GensOK, ledger, gens
  <2>3. QED BY <2>1, <2>2, LedgerStep DEF ledger
<1>8. QED BY <1>1, <1>2, <1>3, <1>4, <1>5, <1>6, <1>7 DEF Next

(* The invariant holds in every reachable state.                             *)
LEMMA LeaseInvariant ==
  Spec => []LeaseInv
<1>1. Init => LeaseInv
  BY InitLeaseInv
<1>2. LeaseInv /\ [Next]_vars => LeaseInv'
  BY NextKeepsLeaseInv
<1>3. QED BY <1>1, <1>2, PTL DEF Spec

(* Every reachable state is typed.                                           *)
THEOREM TypeCorrect ==
  Spec => []TypeOK
<1>1. LeaseInv => TypeOK
  BY DEF LeaseInv
<1>2. QED BY <1>1, LeaseInvariant, PTL

(* memory_processing_jobs rows agree with themselves after every transaction *)
(* of any number of processes.                                               *)
THEOREM RowsStayConsistent ==
  Spec => []RowsConsistent
<1>1. LeaseInv => RowsConsistent
  BY DEF LeaseInv
<1>2. QED BY <1>1, LeaseInvariant, PTL

(* A worker within its lease owns the job it is working on, whatever sweeps, *)
(* claims, writes, reconciliations and requeues the other processes run.     *)
THEOREM LeaseIsExclusive ==
  Spec => []LeaseHolderOwnsJob
<1>1. LeaseInv => LeaseHolderOwnsJob
  BY DEF LeaseInv
<1>2. QED BY <1>1, LeaseInvariant, PTL

-----------------------------------------------------------------------------
(* The projected embedding.  The invariant drops the condition that the      *)
(* memory is live: a forgotten memory keeps its embedding and may be         *)
(* restored.                                                                 *)
EmbeddingTracksText ==
  \A m \in Memories : emb[m] # 0 => Written(m) /\ emb[m] = text[Cur(m)]

(* A new revision keeps the text of the projected embedding or drops the     *)
(* embedding.                                                                *)
LEMMA AppendKeepsTracking ==
  ASSUME LedgerOK, GensOK, EmbeddingTracksText,
         NEW m \in Memories, NEW v \in 0 .. MaxRev, AppendRevision(m, v),
         \/ emb' = [emb EXCEPT ![m] = 0]
         \/ emb' = emb /\ Written(m) /\ v = text[Cur(m)]
  PROVE  EmbeddingTracksText'
<1>1. made[m] \in 0 .. MaxRev /\ made[m] < MaxRev /\ NextRev(m) \in Revs
  BY BoundsAssumption DEF LedgerOK, AppendRevision, NextRev, Revs
<1>2. SUFFICES ASSUME NEW n \in Memories, emb'[n] # 0
               PROVE  Written(n)' /\ emb'[n] = text'[Cur(n)']
  BY DEF EmbeddingTracksText
<1>3. CASE n = m
  <2>1. emb' = emb /\ Written(m) /\ v = text[Cur(m)]
    BY <1>2, <1>3 DEF GensOK
  <2>2. made'[m] = made[m] + 1 /\ Cur(m)' = NextRev(m)
    BY DEF AppendRevision, LedgerOK, Cur, NextRev
  <2>3. text'[NextRev(m)] = v
    BY <1>1 DEF AppendRevision, LedgerOK
  <2>4. emb[m] = text[Cur(m)]
    BY <1>2, <1>3, <2>1 DEF EmbeddingTracksText
  <2>5. QED BY <1>1, <1>3, <2>1, <2>2, <2>3, <2>4 DEF Written
<1>4. CASE n # m
  <2>1. emb'[n] = emb[n] /\ made'[n] = made[n]
    BY <1>4 DEF AppendRevision, LedgerOK, GensOK
  <2>2. Written(n) /\ emb[n] = text[Cur(n)]
    BY <1>2, <2>1 DEF EmbeddingTracksText
  <2>3. Cur(n) \in Revs /\ Cur(n)' = Cur(n) /\ Cur(n) # NextRev(m)
    BY <1>4, <2>1, <2>2, CurIsRevision DEF Cur, NextRev
  <2>4. text'[Cur(n)] = text[Cur(n)]
    BY <2>3 DEF AppendRevision, LedgerOK
  <2>5. QED BY <2>1, <2>2, <2>3, <2>4 DEF Written
<1>5. QED BY <1>3, <1>4

(* Every step keeps the embedding that of the current text.                  *)
LEMMA NextKeepsTracking ==
  ASSUME LeaseInv, EmbeddingTracksText, [Next]_vars
  PROVE  EmbeddingTracksText'
<1> USE DEF LeaseInv, TypeOK
<1>1. CASE UNCHANGED <<made, text, emb>>
  BY <1>1 DEF EmbeddingTracksText, Written, Cur
<1>2. ASSUME NEW m \in Memories, NEW w \in Procs, Write(m, w)
      PROVE  EmbeddingTracksText'
  <2>1. made[m] + 1 \in 0 .. MaxRev /\ AppendRevision(m, made[m] + 1)
    BY <1>2, BoundsAssumption DEF Write, AppendRevision, LedgerOK
  <2>2. emb' = [emb EXCEPT ![m] = 0]
    BY <1>2 DEF Write
  <2>3. QED BY <2>1, <2>2, AppendKeepsTracking
<1>3. ASSUME NEW m \in Memories,
             Forget(m) \/ Correct(m) \/ \E w \in Procs : Rewrite(m, w)
      PROVE  EmbeddingTracksText'
  <2>1. Written(m) /\ AppendRevision(m, text[Cur(m)]) /\ emb' = emb
    BY <1>3 DEF Forget, Correct, Rewrite, gens
  <2>2. text[Cur(m)] \in 0 .. MaxRev
    BY <2>1, CurIsRevision DEF LedgerOK
  <2>3. QED BY <2>1, <2>2, AppendKeepsTracking
<1>4. ASSUME NEW w \in Procs, EmbedAndStore(w)
      PROVE  EmbeddingTracksText'
  <2>1. UNCHANGED <<made, text>> /\ job[w] \in Jobs
    BY <1>4 DEF EmbedAndStore, ledger, WorkersOK, Busy
  <2>2. CASE Projects(job[w])
    <3> DEFINE m == job[w][1][1]
    <3>1. m \in Memories /\ job[w][1] = Cur(m) /\ job[w][1][2] \in 1 .. MaxRev
      BY <2>1, <2>2, JobParts DEF Projects
    <3>2. Written(m)
      BY <3>1, BoundsAssumption DEF Cur, Written
    <3>3. emb' = [emb EXCEPT ![m] = text[Cur(m)]]
      BY <1>4, <2>2, <3>1 DEF EmbedAndStore
    <3>4. QED BY <2>1, <3>1, <3>2, <3>3 DEF EmbeddingTracksText, Written, Cur, GensOK
  <2>3. CASE ~Projects(job[w])
    BY <1>1, <1>4, <2>1, <2>3 DEF EmbedAndStore
  <2>4. QED BY <2>2, <2>3
<1>5. ASSUME NEW w \in Procs, NEW g \in Gens, Activate(w, g)
      PROVE  EmbeddingTracksText'
  BY <1>5 DEF Activate, EmbeddingTracksText, Written, Cur, ledger
<1>6. ASSUME \/ \E m \in Memories : RawDelete(m) \/ UndoUntrackedDelete(m)
             \/ \E w \in Procs :
                  \/ \E k \in Kinds, aged \in BOOLEAN : Claim(w, k, aged)
                  \/ CheckRevision(w) \/ CheckGeneration(w) \/ ProcessingError(w)
                  \/ Complete(w) \/ Fail(w) \/ Abandon(w) \/ Rebind(w)
                  \/ \E g \in Gens : Reconcile(w, g)
             \/ \E g \in Gens : Revive(g)
             \/ \E j \in Jobs : Requeue(j)
             \/ Tick
             \/ UNCHANGED vars
      PROVE  UNCHANGED <<made, text, emb>>
  BY <1>6
     DEF RawDelete, UndoUntrackedDelete, Claim, CheckRevision, CheckGeneration,
         ProcessingError, Complete, Fail, Abandon, Rebind, Reconcile, Revive, Requeue,
         Tick, vars, ledger, gens
<1>7. QED BY <1>1, <1>2, <1>3, <1>4, <1>5, <1>6 DEF Next, Step

(* Whatever worker finishes late, and whatever generation becomes active     *)
(* meanwhile, a live memory never carries the embedding of older content.    *)
THEOREM ProjectionStaysCurrent ==
  Spec => []ProjectionIsCurrent
<1>1. Init => EmbeddingTracksText
  BY DEF Init, EmbeddingTracksText
<1>2. LeaseInv /\ EmbeddingTracksText /\ [Next]_vars => EmbeddingTracksText'
  BY NextKeepsTracking
<1>3. EmbeddingTracksText => ProjectionIsCurrent
  BY DEF EmbeddingTracksText, ProjectionIsCurrent, LiveCurrent
<1>4. QED BY <1>1, <1>2, <1>3, LeaseInvariant, PTL DEF Spec

-----------------------------------------------------------------------------
(* A finished job is reopened only by the reconciliation, for a vector that  *)
(* is missing.                                                               *)
LEMMA DoneStepsAreReconciliations ==
  ASSUME LeaseInv, [Next]_vars, NEW j \in Jobs, state[j] = "done", state'[j] # "done"
  PROVE  state'[j] = "pending" /\ j \notin vec /\ Live(j[1])
<1> USE DEF LeaseInv, TypeOK
<1>1. ASSUME NEW w \in Procs, NEW g \in Gens, Reconcile(w, g)
      PROVE  state'[j] = "pending" /\ j \notin vec /\ Live(j[1])
  <2>1. Enqueue(Missing(g))
    BY <1>1 DEF Reconcile
  <2>2. j \in Missing(g)
    BY <2>1 DEF Enqueue
  <2>3. QED BY <2>1, <2>2 DEF Enqueue, Missing
<1>2. ASSUME NEW m \in Memories, NEW w \in Procs, Write(m, w) \/ Rewrite(m, w)
      PROVE  FALSE
  <2>1. made[m] < MaxRev /\ Enqueue(JobsFor(w, NextRev(m)))
    BY <1>2 DEF Write, Rewrite, AppendRevision
  <2>2. j \notin JobsFor(w, NextRev(m))
    BY <2>1, NextRevJobs
  <2>3. QED BY <2>1, <2>2 DEF Enqueue
<1>3. ASSUME NEW i \in Jobs, Requeue(i)
      PROVE  FALSE
  BY <1>3 DEF Requeue, Enqueue
<1>4. ASSUME NEW w \in Procs, NEW k \in Kinds, NEW aged \in BOOLEAN, Claim(w, k, aged)
      PROVE  FALSE
  <2>1. PICK i \in Oldest(Claimable(w, k, aged)) :
          state' = [h \in Jobs |-> IF h = i THEN "processing" ELSE Swept(h)]
    BY <1>4 DEF Claim
  <2>2. Swept(j) = "done" /\ Swept(i) = "pending"
    BY DEF Swept, Expired, Oldest, Claimable
  <2>3. QED BY <2>1, <2>2
<1>5. ASSUME NEW w \in Procs, Complete(w) \/ Fail(w)
      PROVE  FALSE
  <2>1. CASE Owns(w)
    <3>1. job[w] # j
      BY <2>1 DEF Owns
    <3>2. QED BY <1>5, <2>1, <3>1 DEF Complete, Fail, RowsOK
  <2>2. CASE ~Owns(w)
    BY <1>5, <2>2 DEF Complete, Fail
  <2>3. QED BY <2>1, <2>2
<1>6. ASSUME \/ \E m \in Memories :
                  Forget(m) \/ Correct(m) \/ RawDelete(m) \/ UndoUntrackedDelete(m)
             \/ \E w \in Procs :
                  \/ CheckRevision(w) \/ CheckGeneration(w) \/ EmbedAndStore(w)
                  \/ ProcessingError(w) \/ Abandon(w) \/ Rebind(w)
                  \/ \E g \in Gens : Activate(w, g)
             \/ \E g \in Gens : Revive(g)
             \/ Tick
             \/ UNCHANGED vars
      PROVE  FALSE
  BY <1>6
     DEF Forget, Correct, RawDelete, UndoUntrackedDelete, CheckRevision,
         CheckGeneration, EmbedAndStore, ProcessingError, Abandon, Rebind, Activate,
         Revive, Tick, vars, jobs
<1>7. QED BY <1>1, <1>2, <1>3, <1>4, <1>5, <1>6 DEF Next, Step

(* Finished work is repeated only for a live revision whose vector is        *)
(* missing: no stale worker, sweep, retry or requeue reopens a done job.     *)
THEOREM DoneIsReopenedOnlyIfMissing ==
  Spec => DoneReopenedOnlyIfMissing
<1>1. LeaseInv /\ [Next]_vars =>
        [\A j \in Jobs : state[j] = "done" /\ state'[j] # "done" =>
           state'[j] = "pending" /\ j \notin vec /\ Live(j[1])]_vars
  BY DoneStepsAreReconciliations
<1>2. QED BY <1>1, LeaseInvariant, PTL DEF Spec, DoneReopenedOnlyIfMissing

-----------------------------------------------------------------------------
(* No embedding is lost silently, while every delete goes through the        *)
(* ledger.  A worker about to complete a job has stored its vector, or has   *)
(* seen a revision that can never be live again; the jobs workers hold       *)
(* belong to written revisions.                                              *)
Past(r)     == made[r[1]] >= r[2]
Embedded(j) == j \in vec \/ ~Live(j[1])

EmbeddingInv ==
  /\ gone = tomb
  /\ \A w \in Procs : Busy(w) => Past(job[w][1])
  /\ \A w \in Procs : pc[w] = "done" => Embedded(job[w])
  /\ DoneIsEmbedded

(* A job that has a row belongs to a revision that was written.              *)
LEMMA JobsArePast ==
  ASSUME LeaseInv, NEW j \in Jobs, state[j] # "absent"
  PROVE  Past(j[1])
<1>1. made[j[1][1]] \in 0 .. MaxRev /\ j[1][2] \in 1 .. MaxRev
  BY JobParts DEF LeaseInv, TypeOK, LedgerOK
<1>2. QED BY <1>1, BoundsAssumption DEF LeaseInv, UnwrittenHasNoJob, Past

(* A step that appends a revision ends the life of the older ones.           *)
LEMMA AppendKeepsDead ==
  ASSUME LedgerOK, NEW m \in Memories, NEW v, AppendRevision(m, v),
         tomb' \ {m} = tomb \ {m}, gone' \ {m} = gone \ {m},
         NEW r \in Revs, Past(r)
  PROVE  Past(r)' /\ (~Live(r) => ~Live(r)')
<1>1. r[1] \in Memories /\ r[2] \in 1 .. MaxRev /\ r = <<r[1], r[2]>>
  BY DEF Revs
<1>2. CASE r[1] = m
  <2>1. made'[m] = made[m] + 1 /\ made[m] \in 0 .. MaxRev
    BY DEF AppendRevision, LedgerOK
  <2>2. r[2] # made'[m] /\ Past(r)'
    BY <1>1, <1>2, <2>1, BoundsAssumption DEF Past
  <2>3. Cur(m)'[2] = made'[m]
    BY DEF Cur
  <2>4. QED BY <1>2, <2>2, <2>3 DEF Live
<1>3. CASE r[1] # m
  <2>1. made'[r[1]] = made[r[1]]
    BY <1>1, <1>3 DEF AppendRevision, LedgerOK
  <2>2. (r[1] \in tomb' <=> r[1] \in tomb) /\ (r[1] \in gone' <=> r[1] \in gone)
    BY <1>3
  <2>3. QED BY <2>1, <2>2 DEF Past, Live, Cur
<1>4. QED BY <1>2, <1>3

(* What a step never undoes.                                                 *)
LEMMA StepKeepsEmbedded ==
  ASSUME LeaseInv, ~RawDeletes, gone = tomb, [Next]_vars
  PROVE  /\ gone' = tomb' /\ vec \subseteq vec'
         /\ \A r \in Revs : Past(r) => Past(r)' /\ (~Live(r) => ~Live(r)')
         /\ \A j \in Jobs : Past(j[1]) /\ Embedded(j) => Embedded(j)'
<1> USE DEF LeaseInv, TypeOK
<1> DEFINE Kept == /\ gone' = tomb' /\ vec \subseteq vec'
                   /\ \A r \in Revs : Past(r) => Past(r)' /\ (~Live(r) => ~Live(r)')
<1>1. ASSUME UNCHANGED ledger, vec \subseteq vec'
      PROVE  Kept
  BY <1>1 DEF ledger, Past, Live, Cur
<1>2. ASSUME NEW m \in Memories,
             Forget(m) \/ Correct(m) \/ \E w \in Procs : Write(m, w) \/ Rewrite(m, w)
      PROVE  Kept
  <2>1. PICK v : AppendRevision(m, v)
    BY <1>2 DEF Forget, Correct, Write, Rewrite
  <2>2. tomb' \ {m} = tomb \ {m} /\ gone' \ {m} = gone \ {m} /\ gone' = tomb'
    BY <1>2 DEF Forget, Correct, Write, Rewrite
  <2>3. vec \subseteq vec'
    BY <1>2 DEF Forget, Correct, Write, Rewrite, gens
  <2>4. QED BY <2>1, <2>2, <2>3, AppendKeepsDead
<1>3. ASSUME NEW m \in Memories, RawDelete(m) \/ UndoUntrackedDelete(m)
      PROVE  FALSE
  BY <1>3 DEF RawDelete, UndoUntrackedDelete
<1>4. ASSUME \/ \E w \in Procs :
                  \/ \E k \in Kinds, aged \in BOOLEAN : Claim(w, k, aged)
                  \/ CheckRevision(w) \/ CheckGeneration(w) \/ EmbedAndStore(w)
                  \/ ProcessingError(w) \/ Complete(w) \/ Fail(w) \/ Abandon(w)
                  \/ Rebind(w)
                  \/ \E g \in Gens : Reconcile(w, g) \/ Activate(w, g)
             \/ \E g \in Gens : Revive(g)
             \/ \E j \in Jobs : Requeue(j)
             \/ Tick
             \/ UNCHANGED vars
      PROVE  UNCHANGED ledger /\ vec \subseteq vec'
  BY <1>4
     DEF Claim, CheckRevision, CheckGeneration, EmbedAndStore, ProcessingError,
         Complete, Fail, Abandon, Rebind, Reconcile, Activate, Revive, Requeue, Tick,
         vars, gens
<1>5. Kept
  BY <1>1, <1>2, <1>3, <1>4 DEF Next, Step
<1>6. \A j \in Jobs : Past(j[1]) /\ Embedded(j) => Embedded(j)'
  BY <1>5, JobParts DEF Embedded
<1>7. QED BY <1>5, <1>6

(* Where a done job, a worker about to complete and a held job come from.    *)
LEMMA DoneSources ==
  ASSUME LeaseInv, [Next]_vars, NEW j \in Jobs, state'[j] = "done"
  PROVE  \/ state[j] = "done" /\ (j \in skipped => j \in skipped')
         \/ \E w \in Procs : pc[w] = "done" /\ job[w] = j
         \/ j \in skipped'
<1> USE DEF LeaseInv, TypeOK
<1>1. ASSUME NEW new \in SUBSET Jobs, Enqueue(new)
      PROVE  state[j] = "done" /\ (j \in skipped => j \in skipped')
  BY <1>1 DEF Enqueue
<1>2. ASSUME NEW m \in Memories, NEW w \in Procs, Write(m, w) \/ Rewrite(m, w)
      PROVE  state[j] = "done" /\ (j \in skipped => j \in skipped')
  <2>1. made[m] < MaxRev /\ Enqueue(JobsFor(w, NextRev(m)))
    BY <1>2 DEF Write, Rewrite, AppendRevision
  <2>2. JobsFor(w, NextRev(m)) \in SUBSET Jobs
    BY <2>1, NextRevJobs
  <2>3. QED BY <1>1, <2>1, <2>2
<1>3. ASSUME NEW w \in Procs, NEW g \in Gens, Reconcile(w, g)
      PROVE  state[j] = "done" /\ (j \in skipped => j \in skipped')
  BY <1>1, <1>3 DEF Reconcile, Missing
<1>4. ASSUME NEW i \in Jobs, Requeue(i)
      PROVE  state[j] = "done" /\ (j \in skipped => j \in skipped')
  BY <1>1, <1>4 DEF Requeue
<1>5. ASSUME NEW w \in Procs, NEW k \in Kinds, NEW aged \in BOOLEAN, Claim(w, k, aged)
      PROVE  state[j] = "done" /\ skipped' = skipped
  <2>1. PICK i \in Jobs :
          state' = [h \in Jobs |-> IF h = i THEN "processing" ELSE Swept(h)]
    BY <1>5 DEF Claim, Oldest, Claimable
  <2>2. Swept(j) = "done"
    BY <2>1
  <2>3. QED BY <1>5, <2>2 DEF Claim, Swept
<1>6. ASSUME NEW w \in Procs, Complete(w)
      PROVE  \/ state[j] = "done" /\ (j \in skipped => j \in skipped')
             \/ pc[w] = "done" /\ job[w] = j
             \/ j \in skipped'
  <2>1. CASE Owns(w) /\ job[w] = j
    BY <1>6, <2>1 DEF Complete
  <2>2. CASE ~(Owns(w) /\ job[w] = j)
    BY <1>6, <2>2 DEF Complete, RowsOK
  <2>3. QED BY <2>1, <2>2
<1>7. ASSUME NEW w \in Procs, Fail(w)
      PROVE  state[j] = "done" /\ skipped' = skipped
  <2>1. skipped' = skipped
    BY <1>7 DEF Fail
  <2>2. state'[j] = state[j] \/ state'[j] \in {"failed", "pending"}
    BY <1>7 DEF Fail, RowsOK
  <2>3. QED BY <2>1, <2>2
<1>8. ASSUME \/ \E m \in Memories :
                  Forget(m) \/ Correct(m) \/ RawDelete(m) \/ UndoUntrackedDelete(m)
             \/ \E w \in Procs :
                  \/ CheckRevision(w) \/ CheckGeneration(w) \/ EmbedAndStore(w)
                  \/ ProcessingError(w) \/ Abandon(w) \/ Rebind(w)
                  \/ \E g \in Gens : Activate(w, g)
             \/ \E g \in Gens : Revive(g)
             \/ Tick
             \/ UNCHANGED vars
      PROVE  state[j] = "done" /\ skipped' = skipped
  BY <1>8
     DEF Forget, Correct, RawDelete, UndoUntrackedDelete, CheckRevision,
         CheckGeneration, EmbedAndStore, ProcessingError, Abandon, Rebind, Activate,
         Revive, Tick, vars, jobs
<1>9. QED BY <1>2, <1>3, <1>4, <1>5, <1>6, <1>7, <1>8 DEF Next, Step

(* A busy worker works on what it had, or on a row that was there before     *)
(* the step.                                                                 *)
LEMMA WorkerSources ==
  ASSUME LeaseInv, [Next]_vars, NEW w \in Procs, Busy(w)'
  PROVE  /\ \/ Busy(w) /\ job'[w] = job[w]
            \/ job'[w] \in Jobs /\ state[job'[w]] # "absent" /\ pc'[w] # "done"
         /\ pc'[w] = "done" => /\ job'[w] = job[w]
                               /\ \/ pc[w] = "done"
                                  \/ job[w] \in vec'
                                  \/ ~Live(job[w][1])
<1> USE DEF LeaseInv, TypeOK
<1> DEFINE Same == pc'[w] = pc[w] /\ job'[w] = job[w]
<1>1. ASSUME Same
      PROVE  Busy(w) /\ job'[w] = job[w] /\ (pc'[w] = "done" => pc[w] = "done")
  BY <1>1 DEF Busy
<1>2. ASSUME NEW v \in Procs, NEW k \in Kinds, NEW aged \in BOOLEAN, Claim(v, k, aged)
      PROVE  \/ Same
             \/ job'[w] \in Jobs /\ state[job'[w]] # "absent" /\ pc'[w] = "claimed"
  <2>1. PICK i \in Oldest(Claimable(v, k, aged)) :
          pc' = [pc EXCEPT ![v] = "claimed"] /\ job' = [job EXCEPT ![v] = i]
    BY <1>2 DEF Claim
  <2>2. i \in Jobs /\ state[i] # "absent"
    BY DEF Oldest, Claimable, Swept, Expired
  <2>3. QED BY <2>1, <2>2 DEF WorkersOK
<1>3. ASSUME NEW v \in Procs, CheckRevision(v)
      PROVE  \/ Same
             \/ Busy(w) /\ job'[w] = job[w] /\ (pc'[w] = "done" => ~Live(job[w][1]))
  BY <1>3 DEF CheckRevision, Goto, Busy, WorkersOK
<1>4. ASSUME NEW v \in Procs, EmbedAndStore(v)
      PROVE  \/ Same
             \/ Busy(w) /\ job'[w] = job[w] /\ job[w] \in vec'
  BY <1>4 DEF EmbedAndStore, Goto, Busy, WorkersOK
<1>5. ASSUME NEW v \in Procs, CheckGeneration(v) \/ ProcessingError(v)
      PROVE  \/ Same
             \/ Busy(w) /\ job'[w] = job[w] /\ pc'[w] # "done"
  BY <1>5 DEF CheckGeneration, ProcessingError, Goto, Busy, WorkersOK
<1>6. ASSUME NEW v \in Procs, Complete(v) \/ Fail(v) \/ Abandon(v)
      PROVE  Same
  <2>1. Release(v)
    BY <1>6 DEF Complete, Fail, Abandon
  <2>2. v # w
    BY <2>1 DEF Release, Goto, Busy, WorkersOK
  <2>3. QED BY <2>1, <2>2 DEF Release, Goto, WorkersOK
<1>7. ASSUME \/ \E m \in Memories :
                  \/ Forget(m) \/ Correct(m) \/ RawDelete(m) \/ UndoUntrackedDelete(m)
                  \/ \E v \in Procs : Write(m, v) \/ Rewrite(m, v)
             \/ \E v \in Procs :
                  Rebind(v) \/ \E g \in Gens : Reconcile(v, g) \/ Activate(v, g)
             \/ \E g \in Gens : Revive(g)
             \/ \E j \in Jobs : Requeue(j)
             \/ Tick
             \/ UNCHANGED vars
      PROVE  Same
  BY <1>7
     DEF Forget, Correct, RawDelete, UndoUntrackedDelete, Write, Rewrite, Rebind,
         Reconcile, Activate, Revive, Requeue, Tick, vars, workers
<1> HIDE DEF Same
<1>8. \/ Same
      \/ job'[w] \in Jobs /\ state[job'[w]] # "absent" /\ pc'[w] = "claimed"
      \/ Busy(w) /\ job'[w] = job[w] /\ (pc'[w] = "done" =>
                                           job[w] \in vec' \/ ~Live(job[w][1]))
  BY <1>2, <1>3, <1>4, <1>5, <1>6, <1>7 DEF Next, Step
<1>9. QED BY <1>1, <1>8

(* Every step keeps the invariant behind DoneIsEmbedded.                     *)
LEMMA NextKeepsEmbeddingInv ==
  ASSUME LeaseInv, ~RawDeletes, EmbeddingInv, [Next]_vars
  PROVE  EmbeddingInv'
<1>1. /\ gone' = tomb' /\ vec \subseteq vec'
      /\ \A r \in Revs : Past(r) => Past(r)' /\ (~Live(r) => ~Live(r)')
      /\ \A j \in Jobs : Past(j[1]) /\ Embedded(j) => Embedded(j)'
  BY StepKeepsEmbedded DEF EmbeddingInv
<1>2. ASSUME NEW w \in Procs, Busy(w)
      PROVE  job[w] \in Jobs /\ job[w][1] \in Revs /\ Past(job[w][1])
  BY <1>2, JobParts DEF LeaseInv, TypeOK, WorkersOK, EmbeddingInv
<1>3. ASSUME NEW w \in Procs, Busy(w)'
      PROVE  Past(job[w][1])'
  <2>1. CASE Busy(w) /\ job'[w] = job[w]
    BY <1>1, <1>2, <2>1 DEF Past
  <2>2. CASE job'[w] \in Jobs /\ state[job'[w]] # "absent"
    BY <1>1, <2>2, JobsArePast, JobParts DEF Past
  <2>3. QED BY <1>3, <2>1, <2>2, WorkerSources
<1>4. ASSUME NEW w \in Procs, pc'[w] = "done"
      PROVE  Embedded(job[w])'
  <2>1. Busy(w)'
    BY <1>4 DEF Busy
  <2>2. Busy(w) /\ job'[w] = job[w]
    BY <1>4, <2>1, WorkerSources
  <2>3. pc[w] = "done" \/ job[w] \in vec' \/ ~Live(job[w][1])
    BY <1>4, <2>1, WorkerSources
  <2>4. CASE pc[w] = "done"
    BY <1>1, <1>2, <2>2, <2>4 DEF EmbeddingInv, Embedded, Live
  <2>5. CASE job[w] \in vec'
    BY <2>2, <2>5 DEF Embedded
  <2>6. CASE ~Live(job[w][1])
    BY <1>1, <1>2, <2>2, <2>6 DEF Embedded, Live
  <2>7. QED BY <2>3, <2>4, <2>5, <2>6
<1>5. ASSUME NEW j \in Jobs, state'[j] = "done", j \notin skipped'
      PROVE  Embedded(j)'
  <2>1. CASE state[j] = "done" /\ j \notin skipped
    <3>1. Past(j[1]) /\ Embedded(j)
      BY <2>1, JobsArePast DEF EmbeddingInv, DoneIsEmbedded, Embedded
    <3>2. QED BY <1>1, <3>1
  <2>2. ASSUME NEW w \in Procs, pc[w] = "done", job[w] = j
        PROVE  Embedded(j)'
    BY <1>1, <1>2, <2>2 DEF EmbeddingInv, Busy
  <2>3. QED BY <1>5, <2>1, <2>2, DoneSources
<1>6. DoneIsEmbedded'
  BY <1>5 DEF DoneIsEmbedded, Embedded
<1>7. QED BY <1>1, <1>3, <1>4, <1>6 DEF EmbeddingInv

(* While every delete goes through the ledger, a job recorded as done has    *)
(* its vector, or was finished for a reason that stands: no takeover, late   *)
(* completion, write or restart loses an embedding.                          *)
THEOREM DoneStaysEmbedded ==
  ~RawDeletes => (Spec => []DoneIsEmbedded)
<1> SUFFICES ASSUME ~RawDeletes
             PROVE  Spec => []DoneIsEmbedded
  OBVIOUS
<1>1. Init => EmbeddingInv
  BY DEF Init, EmbeddingInv, DoneIsEmbedded, Busy
<1>2. LeaseInv /\ EmbeddingInv /\ [Next]_vars => EmbeddingInv'
  BY NextKeepsEmbeddingInv
<1>3. EmbeddingInv => DoneIsEmbedded
  BY DEF EmbeddingInv
<1>4. QED BY <1>1, <1>2, <1>3, LeaseInvariant, PTL DEF Spec
=============================================================================
