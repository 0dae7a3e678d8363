----------------------------- MODULE RemoteOutbox ------------------------------
(***************************************************************************)
(* The remote outbox (pkg/memory/sqlite_remote_outbox.go), the worker that  *)
(* drains it (drainRemoteOutbox) and the delivery adapter registered by the *)
(* MCP layer (pkg/mcp/remote_outbox.go).                                    *)
(*                                                                         *)
(* A save that may be synchronized inserts an outbox item in the            *)
(* transaction that appends the revision.  The worker of any process claims *)
(* the oldest item no older item of the same memory stands before, resolves *)
(* the remote, sends the item under its operation id and finalizes it by    *)
(* the outcome.  The requests and the server are outside the repository: a  *)
(* request may be lost, may reach the server after the client gave up, and  *)
(* is applied at most once per operation id (the Idempotency-Key).          *)
(*                                                                         *)
(* Deadlines are the ticks left until they pass, as in ProcessingQueue.     *)
(* Every item has the remote "anchored.auto-route.v1" and no project, so    *)
(* the lines in which items wait for each other are the memories.           *)
(***************************************************************************)
EXTENDS Integers, FiniteSets, FiniteSetsExt

CONSTANTS
  Procs,        \* processes with a durable worker
  Memories,     \* memory identities
  MaxItems,     \* bound: items queued
  MaxAttempts,  \* max_attempts of every item
  Lease,        \* processingLease, in ticks
  MaxDelay,     \* bound: the longest retry delay, in ticks
  HeldRetry,    \* outboxHeldRetry, in ticks
  Requeueable,  \* bound: items an operator may requeue, once each
  None          \* NULL

Items == 1 .. MaxItems   \* an item's number is its place in creation order

ASSUME BoundsAssumption ==
  /\ MaxItems \in Nat /\ MaxAttempts \in Nat \ {0} /\ Lease \in Nat \ {0}
  /\ MaxDelay \in Nat \ {0} /\ HeldRetry \in 1 .. MaxDelay
  /\ Requeueable \subseteq Items
ASSUME NoneAssumption == None \notin Procs /\ None \notin Memories /\ None \notin Items

VARIABLES
  \* remote_outbox
  made,      \* items inserted
  memory,    \* memory_id of an item
  state, attempts, owner, lease, delay,
  class,     \* error_class
  \* the workers
  pc,        \* where the worker is in one turn of drainRemoteOutbox
  item,      \* the item it claimed, if any
  since,     \* ticks since the claim, up to Lease
  \* outside the process
  sent,      \* items whose request was put on the wire
  applied,   \* operation ids the server has applied
  latest,    \* the item the server applied last, per memory; 0 if none
  \* auxiliary
  again,     \* items an operator requeued
  spared,    \* items finished without sending (automatic sync switched off)
  failures   \* per item, claims that ended in a failure or a lost lease

rows    == <<made, memory, state, attempts, owner, lease, delay, class>>
workers == <<pc, item, since>>
remote  == <<sent, applied, latest>>
history == <<again, spared, failures>>
vars    == <<rows, workers, remote, history>>

Init ==
  /\ made = 0 /\ memory = [i \in Items |-> None]
  /\ state = [i \in Items |-> "absent"] /\ attempts = [i \in Items |-> 0]
  /\ owner = [i \in Items |-> None] /\ lease = [i \in Items |-> 0]
  /\ delay = [i \in Items |-> 0] /\ class = [i \in Items |-> "none"]
  /\ pc = [w \in Procs |-> "idle"] /\ item = [w \in Procs |-> None]
  /\ since = [w \in Procs |-> 0]
  /\ sent = {} /\ applied = {} /\ latest = [m \in Memories |-> 0]
  /\ again = {} /\ spared = {} /\ failures = [i \in Items |-> 0]

-----------------------------------------------------------------------------
(* Mutant: a lease counts as expired one tick early.                         *)
ExpiredEarly(i) == state[i] = "processing" /\ lease[i] <= 1
Expired(i)   == state[i] = "processing" /\ lease[i] = 0
(* Mutant: one attempt too many.                                             *)
ExhaustedLate(i) == attempts[i] > MaxAttempts
Exhausted(i) == attempts[i] >= MaxAttempts
Busy(w)      == pc[w] # "idle"
Later(n)     == IF n > 0 THEN n - 1 ELSE 0
Left(d, w)   == IF d > since[w] THEN d - since[w] ELSE 0

(* A save or an update that carries an outbox spec.                          *)
Save(m) ==
  /\ made < MaxItems
  /\ made' = made + 1
  /\ memory' = [memory EXCEPT ![made + 1] = m]
  /\ state' = [state EXCEPT ![made + 1] = "pending"]
  /\ UNCHANGED <<attempts, owner, lease, delay, class, workers, remote, history>>

Open(i) == state[i] \in {"pending", "processing"}

(* A tombstone cancels what is queued for the memory, in its transaction.    *)
(* With nothing queued it leaves the outbox alone.                           *)
Forget(m) ==
  LET cancelled(i) == memory[i] = m /\ Open(i) IN
  /\ \E i \in Items : cancelled(i)
  /\ state' = [i \in Items |-> IF cancelled(i) THEN "dead_letter" ELSE state[i]]
  /\ owner' = [i \in Items |-> IF cancelled(i) THEN None ELSE owner[i]]
  /\ lease' = [i \in Items |-> IF cancelled(i) THEN 0 ELSE lease[i]]
  /\ delay' = [i \in Items |-> IF cancelled(i) THEN 0 ELSE delay[i]]
  /\ class' = [i \in Items |-> IF cancelled(i) THEN "local_tombstone" ELSE class[i]]
  /\ UNCHANGED <<made, memory, attempts, workers, remote, history>>

-----------------------------------------------------------------------------
(* Claiming: the two sweeps, the choice and the claim are one transaction,   *)
(* rolled back when there is no candidate.                                   *)
(* Mutant: expired items are not requeued.                                   *)
SweptNeverRequeues(i) ==
  IF Expired(i) /\ Exhausted(i) THEN "dead_letter" ELSE state[i]
Swept(i) ==
  IF ~Expired(i) THEN state[i]
  ELSE IF Exhausted(i) THEN "dead_letter" ELSE "pending"

(* Mutant: an older item someone is delivering no longer stands before.      *)
PriorOnlyPending(i) ==
  {j \in Items : j < i /\ memory[j] = memory[i] /\ Swept(j) = "pending"}
Prior(i) ==
  {j \in Items : j < i /\ memory[j] = memory[i]
                 /\ Swept(j) \in {"pending", "processing"}}

Claimable ==
  {i \in Items : Swept(i) = "pending" /\ ~Exhausted(i) /\ delay[i] = 0
                 /\ Prior(i) = {}}

Claim(w) ==
  /\ pc[w] = "idle"
  /\ \E i \in Claimable :
       /\ i = Min(Claimable)
       /\ state' = [j \in Items |-> IF j = i THEN "processing" ELSE Swept(j)]
       /\ owner' = [j \in Items |-> IF j = i THEN w
                                    ELSE IF Expired(j) THEN None ELSE owner[j]]
       /\ attempts' = [attempts EXCEPT ![i] = @ + 1]
       /\ lease' = [lease EXCEPT ![i] = Lease]
       /\ item' = [item EXCEPT ![w] = i]
  /\ class' = [j \in Items |-> IF Expired(j) /\ Exhausted(j) /\ class[j] = "none"
                               THEN "attempt_limit" ELSE class[j]]
  /\ failures' = [j \in Items |-> failures[j] + IF Expired(j) THEN 1 ELSE 0]
  /\ pc' = [pc EXCEPT ![w] = "claimed"]
  /\ since' = [since EXCEPT ![w] = 0]
  /\ UNCHANGED <<made, memory, delay, remote, again, spared>>

-----------------------------------------------------------------------------
(* Delivery.  The remote is resolved just before sending: it may hold the    *)
(* write (a remote that may own the repository does not answer), have        *)
(* automatic sync switched off, or not be resolvable.                        *)
Goto(w, l) == pc' = [pc EXCEPT ![w] = l]

Route(w) ==
  /\ pc[w] = "claimed"
  /\ \E l \in {"held", "spared", "retry"} : Goto(w, l)
  /\ UNCHANGED <<rows, item, since, remote, history>>

Send(w) ==
  /\ pc[w] = "claimed"
  /\ Goto(w, "waiting")
  /\ sent' = sent \cup {item[w]}
  /\ UNCHANGED <<rows, item, since, applied, latest, history>>

(* The server applies a request once per operation id; the answer of the     *)
(* first application is repeated to the requests that come after.            *)
Apply(i) ==
  /\ i \in sent \ applied
  /\ applied' = applied \cup {i}
  /\ latest' = [latest EXCEPT ![memory[i]] = i]
  /\ UNCHANGED <<rows, workers, sent, history>>

(* What the worker makes of the outcome (ClassifyOutboxResult): 2xx and a    *)
(* conflict on the same payload are delivered; no answer, 408, 425, 429 and  *)
(* 5xx are retried, whether or not the request was applied; 401 and 403 hold *)
(* the repository; the rest, among them a conflict on another payload (the   *)
(* project changed between attempts), is permanent.                          *)
(* Mutant: a transport failure is classified by its status, as delivered.    *)
OutcomesIgnoringTransport(i) == {"delivered", "retry", "held", "permanent"}
Outcomes(i) ==
  {"retry", "held", "permanent"} \cup (IF i \in applied THEN {"delivered"} ELSE {})

Answer(w) ==
  /\ pc[w] = "waiting"
  /\ \E l \in Outcomes(item[w]) : Goto(w, l)
  /\ UNCHANGED <<rows, item, since, remote, history>>

-----------------------------------------------------------------------------
(* Finalizing: each statement requires the item to be processing and owned   *)
(* by the worker, and changes nothing otherwise.                             *)
(* Mutant: it does not.                                                      *)
OwnsUnchecked(w) == item[w] \in Items
Owns(w)    == state[item[w]] = "processing" /\ owner[item[w]] = w
Release(w) == Goto(w, "idle") /\ item' = [item EXCEPT ![w] = None]
                              /\ since' = [since EXCEPT ![w] = 0]

Settle(i, s, c, n) ==
  /\ state' = [state EXCEPT ![i] = s] /\ owner' = [owner EXCEPT ![i] = None]
  /\ lease' = [lease EXCEPT ![i] = 0] /\ delay' = [delay EXCEPT ![i] = n]
  /\ class' = [class EXCEPT ![i] = c]

Deliver(w) ==
  LET i == item[w] IN
  /\ pc[w] \in {"delivered", "spared"}
  /\ IF Owns(w)
     THEN /\ Settle(i, "delivered", "none", 0)
          /\ spared' = IF pc[w] = "spared" THEN spared \cup {i} ELSE spared
     ELSE UNCHANGED <<state, owner, lease, delay, class, spared>>
  /\ Release(w)
  /\ UNCHANGED <<made, memory, attempts, remote, again, failures>>

(* FailRemoteOutbox.  The backoff, or the server's Retry-After, counts from  *)
(* the claim.                                                                *)
Fail(w) ==
  LET i == item[w] IN
  /\ pc[w] \in {"retry", "permanent"}
  /\ IF Owns(w)
     THEN /\ IF pc[w] = "permanent" \/ Exhausted(i)
             THEN Settle(i, "dead_letter", pc[w], 0)
             ELSE \E d \in 1 .. MaxDelay : Settle(i, "pending", "retry", Left(d, w))
          /\ failures' = [failures EXCEPT ![i] = @ + 1]
     ELSE UNCHANGED <<state, owner, lease, delay, class, failures>>
  /\ Release(w)
  /\ UNCHANGED <<made, memory, attempts, remote, again, spared>>

(* DeferRemoteOutbox: a held item goes back without its attempt.             *)
(* Mutant: the attempt is not given back.                                    *)
RefundedNot(i) == attempts
Refunded(i) == [attempts EXCEPT ![i] = IF @ > 0 THEN @ - 1 ELSE 0]

Defer(w) ==
  LET i == item[w] IN
  /\ pc[w] = "held"
  /\ IF Owns(w)
     THEN Settle(i, "pending", "held", HeldRetry) /\ attempts' = Refunded(i)
     ELSE UNCHANGED <<state, owner, lease, delay, class, attempts>>
  /\ Release(w)
  /\ UNCHANGED <<made, memory, remote, history>>

(* The process dies, or its finalizing statement fails.                      *)
Abandon(w) ==
  /\ Busy(w)
  /\ Release(w)
  /\ UNCHANGED <<rows, remote, history>>

-----------------------------------------------------------------------------
(* RequeueRemoteOutbox, by an operator.  What a tombstone cancelled stays.   *)
(* Mutant: it does not.                                                      *)
RequeuesAny(i) == state[i] = "dead_letter"
Requeues(i) == state[i] = "dead_letter" /\ class[i] # "local_tombstone"

Requeue(i) ==
  /\ i \in Requeueable \ again /\ Requeues(i)
  /\ Settle(i, "pending", "none", 0)
  /\ attempts' = [attempts EXCEPT ![i] = 0]
  /\ failures' = [failures EXCEPT ![i] = 0]
  /\ again' = again \cup {i}
  /\ UNCHANGED <<made, memory, workers, remote, spared>>

Tick ==
  /\ lease' = [i \in Items |-> Later(lease[i])]
  /\ delay' = [i \in Items |-> Later(delay[i])]
  /\ since' = [w \in Procs |-> IF Busy(w) /\ since[w] < Lease
                               THEN since[w] + 1 ELSE since[w]]
  /\ UNCHANGED <<made, memory, state, attempts, owner, class, pc, item, remote, history>>

Attempt(w) == Send(w) \/ Answer(w) \/ Deliver(w) \/ Fail(w) \/ Defer(w)

Next ==
  \/ \E m \in Memories : Save(m) \/ Forget(m)
  \/ \E w \in Procs : Claim(w) \/ Route(w) \/ Attempt(w) \/ Abandon(w)
  \/ \E i \in Items : Apply(i) \/ Requeue(i)
  \/ Tick

Spec == Init /\ [][Next]_vars

(***************************************************************************)
(* Fairness.  Time passes, a worker that claimed an item takes its steps    *)
(* (delivery is bounded by the context of the pass), idle workers poll, and *)
(* a remote that is asked again and again does not hold every time.         *)
(***************************************************************************)
Unheld(w) == pc[w] = "waiting" /\ Answer(w) /\ pc'[w] # "held"

Fairness ==
  /\ WF_vars(Tick)
  /\ \A w \in Procs : WF_vars(Attempt(w)) /\ SF_vars(Claim(w))
  /\ \A w \in Procs : SF_vars(Send(w)) /\ SF_vars(Unheld(w))

FairSpec == Spec /\ Fairness

-----------------------------------------------------------------------------
TypeOK ==
  /\ made \in 0 .. MaxItems
  /\ memory \in [Items -> Memories \cup {None}]
  /\ \A i \in Items : i <= made <=> memory[i] \in Memories
  /\ state \in [Items -> {"absent", "pending", "processing", "delivered", "dead_letter"}]
  /\ \A i \in Items : i > made <=> state[i] = "absent"
  /\ attempts \in [Items -> 0 .. MaxAttempts]
  /\ owner \in [Items -> Procs \cup {None}]
  /\ lease \in [Items -> 0 .. Lease] /\ delay \in [Items -> 0 .. MaxDelay]
  /\ class \in [Items -> {"none", "local_tombstone", "permanent", "retry",
                          "held", "attempt_limit"}]
  /\ pc \in [Procs -> {"idle", "claimed", "waiting", "delivered", "spared",
                       "retry", "permanent", "held"}]
  /\ item \in [Procs -> Items \cup {None}]
  /\ \A w \in Procs : Busy(w) <=> item[w] \in Items
  /\ since \in [Procs -> 0 .. Lease]
  /\ sent \subseteq Items /\ applied \subseteq sent
  /\ latest \in [Memories -> 0 .. MaxItems]
  /\ again \subseteq Items /\ spared \subseteq Items
  /\ failures \in [Items -> 0 .. MaxAttempts]

(* An attempt is counted for exactly the claims that failed, lost their      *)
(* lease or are still running: a held delivery gives its attempt back once,  *)
(* whatever takes the item over meanwhile.  So an item is given up for its   *)
(* attempts only after that many real failures, and never for being held.    *)
AttemptsAreFailures ==
  \A i \in Items :
    /\ Open(i) => attempts[i] = failures[i] + IF state[i] = "processing" THEN 1 ELSE 0
    /\ state[i] = "dead_letter" /\ class[i] \notin {"local_tombstone", "permanent"}
         => failures[i] = MaxAttempts

(* Under valid leases at most one worker is delivering a memory, and what it *)
(* delivers is the oldest open item of that memory.  Out of this are an item *)
(* cancelled by a tombstone while it was being delivered, and an older item  *)
(* that an operator requeued.                                                *)
OneSenderPerMemory ==
  \A w \in Procs : Busy(w) /\ since[w] < Lease /\ class[item[w]] # "local_tombstone" =>
    /\ Owns(w)
    /\ \A j \in Items : j < item[w] /\ memory[j] = memory[item[w]] =>
         ~Open(j) \/ j \in again

(* An item recorded as delivered was applied by the server, or was left out  *)
(* because automatic sync is off: no timeout, crash or takeover in between   *)
(* makes a lost request look delivered.                                      *)
DeliveredWasApplied ==
  \A i \in Items : state[i] = "delivered" => i \in applied \/ i \in spared

(* The server never replaces what it knows of a memory by an older save,     *)
(* through retries, duplicates and late requests, unless that older save was *)
(* given up (dead-lettered or spared) or an operator requeued it.            *)
RemoteNeverGoesBack ==
  [][\A m \in Memories :
       latest'[m] < latest[m] =>
         \/ state[latest'[m]] = "dead_letter"
         \/ latest'[m] \in again \cup spared]_vars

(* What a tombstone cancelled is never queued, claimed or delivered again,   *)
(* neither by the worker that was delivering it nor by a sweep or an         *)
(* operator.                                                                 *)
CancelledStaysCancelled ==
  [][\A i \in Items : class[i] = "local_tombstone" =>
       state'[i] = "dead_letter" /\ class'[i] = "local_tombstone"]_vars

(* Every queued item is delivered or given up, however often it was held or  *)
(* its process died; the last item of a memory may stay processing if its    *)
(* last attempt crashed, and never blocks the items after it.                *)
EveryItemSettles ==
  \A i \in Items : state[i] = "pending" ~>
    state[i] \in {"delivered", "dead_letter"} \/ (Expired(i) /\ Exhausted(i))
=============================================================================
