-------------------------- MODULE RemoteOutboxProofs ---------------------------
(***************************************************************************)
(* Proofs about RemoteOutbox, for every number of processes, memories,       *)
(* items and attempts and every length of leases and delays.                 *)
(***************************************************************************)
EXTENDS RemoteOutbox, TLAPS

(* An item that was not inserted yet has its initial row, and what a         *)
(* tombstone cancelled is dead.                                              *)
RowsInv ==
  /\ AttemptsAreFailures
  /\ \A i \in Items : state[i] = "absent" =>
       attempts[i] = 0 /\ failures[i] = 0 /\ class[i] = "none"
  /\ \A i \in Items : class[i] = "local_tombstone" => state[i] = "dead_letter"

(* A worker whose lease has not run out owns its item, and the row has the   *)
(* time it has left: no sweep and no other claim can touch it.               *)
Holds(w) == Busy(w) /\ since[w] < Lease /\ class[item[w]] # "local_tombstone"
HoldersOwn ==
  \A w \in Procs : Holds(w) => Owns(w) /\ lease[item[w]] = Lease - since[w]

(* The older items of i's memory are closed, or an operator reopened them.   *)
(* True once i was claimed, and then for good, whoever works on i.           *)
PriorSettled(i) ==
  /\ i <= made
  /\ \A j \in Items : j < i /\ memory[j] = memory[i] => ~Open(j) \/ j \in again
ClaimsInOrder ==
  /\ \A w \in Procs : Busy(w) => PriorSettled(item[w])
  /\ \A i \in sent : PriorSettled(i)

(* What the workers and the rows know of the server is so.                   *)
RemoteInv ==
  /\ DeliveredWasApplied
  /\ \A w \in Procs : pc[w] = "delivered" => item[w] \in applied
  /\ \A m \in Memories : latest[m] # 0 => latest[m] \in applied /\ memory[latest[m]] = m

OutboxInv == TypeOK /\ RowsInv /\ HoldersOwn /\ ClaimsInOrder /\ RemoteInv

-----------------------------------------------------------------------------
(* The item of a busy worker.                                                *)
LEMMA BusyItem ==
  ASSUME TypeOK, NEW w \in Procs, Busy(w)
  PROVE  item[w] \in Items
BY DEF TypeOK

(* Letting an item go makes the worker idle and leaves the others alone.     *)
LEMMA ReleaseFacts ==
  ASSUME TypeOK, NEW w \in Procs, Release(w)
  PROVE  /\ pc' \in [Procs -> {"idle", "claimed", "waiting", "delivered", "spared",
                               "retry", "permanent", "held"}]
         /\ item' \in [Procs -> Items \cup {None}]
         /\ since' \in [Procs -> 0 .. Lease]
         /\ ~Busy(w)' /\ item'[w] = None
         /\ \A v \in Procs : v # w => pc'[v] = pc[v] /\ item'[v] = item[v] /\ since'[v] = since[v]
         /\ \A v \in Procs : Busy(v)' <=> item'[v] \in Items
BY BoundsAssumption, NoneAssumption DEF TypeOK, Release, Goto, Busy

(* Every finalizing action either settles the row the worker owns and lets   *)
(* it go, or only lets it go.                                                *)
LEMMA Finalizing ==
  ASSUME TypeOK, RowsInv, NEW w \in Procs, Deliver(w) \/ Fail(w) \/ Defer(w)
  PROVE  /\ Busy(w) /\ Release(w) /\ UNCHANGED <<made, memory, remote, again>>
         /\ \/ ~Owns(w) /\ UNCHANGED <<rows, history>>
            \/ Owns(w) /\ \E s \in {"pending", "delivered", "dead_letter"},
                             c \in {"none", "retry", "permanent", "held"}, d \in 0 .. MaxDelay :
                 /\ Settle(item[w], s, c, d)
                 /\ s = "delivered" => pc[w] = "delivered" \/ item[w] \in spared'
                 /\ s = "pending" =>
                      \/ attempts'[item[w]] = attempts[item[w]] - 1 /\ failures' = failures
                      \/ /\ attempts' = attempts
                         /\ failures'[item[w]] = failures[item[w]] + 1
                 /\ s = "dead_letter" /\ c # "permanent" =>
                      Exhausted(item[w]) /\ failures'[item[w]] = failures[item[w]] + 1
                 /\ spared \subseteq spared' /\ spared' \subseteq Items
                 /\ attempts' \in [Items -> Int] /\ failures' \in [Items -> Int]
                 /\ \A i \in Items : i # item[w] =>
                      attempts'[i] = attempts[i] /\ failures'[i] = failures[i]
                 /\ attempts'[item[w]] \in {attempts[item[w]], attempts[item[w]] - 1}
                 /\ failures'[item[w]] \in {failures[item[w]], failures[item[w]] + 1}
<1>1. Busy(w) /\ item[w] \in Items /\ since[w] \in 0 .. Lease
  BY BusyItem DEF Deliver, Fail, Defer, Busy, TypeOK
<1>2. Release(w) /\ UNCHANGED <<made, memory, remote, again>>
  BY DEF Deliver, Fail, Defer, history
<1>3. CASE ~Owns(w)
  BY <1>1, <1>2, <1>3 DEF Deliver, Fail, Defer, rows, history
<1>4. CASE Owns(w)
  <2>1. attempts[item[w]] = failures[item[w]] + 1 /\ failures[item[w]] >= 0
    BY <1>1, <1>4 DEF RowsInv, AttemptsAreFailures, Owns, Open, TypeOK
  <2>2. attempts \in [Items -> Int] /\ failures \in [Items -> Int] /\ 0 \in 0 .. MaxDelay
    BY BoundsAssumption DEF TypeOK
  <2>3. CASE Deliver(w)
    <3>1. Settle(item[w], "delivered", "none", 0) /\ attempts' = attempts /\ failures' = failures
      BY <1>4, <2>3 DEF Deliver
    <3>2. (pc[w] = "delivered" \/ item[w] \in spared') /\ spared \subseteq spared' /\ spared' \subseteq Items
      BY <1>1, <1>4, <2>3 DEF Deliver, TypeOK
    <3>3. QED BY <1>1, <1>2, <1>4, <2>2, <3>1, <3>2
  <2>4. CASE Fail(w)
    <3>1. /\ failures' = [failures EXCEPT ![item[w]] = @ + 1] /\ attempts' = attempts
          /\ spared' = spared /\ spared \subseteq Items
      BY <1>4, <2>4 DEF Fail, TypeOK
    <3>2. CASE pc[w] = "permanent" \/ Exhausted(item[w])
      <4>1. Settle(item[w], "dead_letter", pc[w], 0) /\ pc[w] \in {"retry", "permanent"}
        BY <1>4, <2>4, <3>2 DEF Fail
      <4>2. QED BY <1>1, <1>2, <1>4, <2>2, <3>1, <3>2, <4>1
    <3>3. CASE ~(pc[w] = "permanent" \/ Exhausted(item[w]))
      <4>1. PICK d \in 1 .. MaxDelay : Settle(item[w], "pending", "retry", Left(d, w))
        BY <1>4, <2>4, <3>3 DEF Fail
      <4>2. Left(d, w) \in 0 .. MaxDelay
        BY <1>1, BoundsAssumption DEF Left
      <4>3. QED BY <1>1, <1>2, <1>4, <2>2, <3>1, <4>1, <4>2
    <3>4. QED BY <3>2, <3>3
  <2>5. CASE Defer(w)
    <3>1. /\ Settle(item[w], "pending", "held", HeldRetry) /\ HeldRetry \in 0 .. MaxDelay
          /\ attempts' = Refunded(item[w]) /\ failures' = failures
          /\ spared' = spared /\ spared \subseteq Items
      BY <1>4, <2>5, BoundsAssumption DEF Defer, history, TypeOK
    <3>2. attempts' = [attempts EXCEPT ![item[w]] = @ - 1]
      <4>1. attempts[item[w]] > 0
        BY <2>1, <2>2, <1>1
      <4>2. (IF attempts[item[w]] > 0 THEN attempts[item[w]] - 1 ELSE 0) = attempts[item[w]] - 1
        BY <4>1
      <4>3. QED BY <3>1, <4>2, Zenon DEF Refunded
    <3>3. QED BY <1>1, <1>2, <1>4, <2>2, <3>1, <3>2
  <2>6. QED BY <2>3, <2>4, <2>5
<1>5. QED BY <1>3, <1>4

-----------------------------------------------------------------------------
(* A save appends a pending item: it is younger than every claimed item, so  *)
(* it stands before none of them.                                            *)
LEMMA SaveKeepsInv ==
  ASSUME OutboxInv, NEW m \in Memories, Save(m)
  PROVE  OutboxInv'
<1> DEFINE n == made + 1
<1>1. /\ made \in 0 .. MaxItems /\ n \in Items /\ made' = n /\ n > made
      /\ memory' = [memory EXCEPT ![n] = m] /\ state' = [state EXCEPT ![n] = "pending"]
      /\ UNCHANGED <<attempts, owner, lease, delay, class, workers, remote, history>>
  BY BoundsAssumption DEF OutboxInv, TypeOK, Save, Items
<1>2. \A i \in Items : /\ i # n => state'[i] = state[i] /\ memory'[i] = memory[i]
                        /\ state'[n] = "pending" /\ memory'[n] = m
  BY <1>1 DEF OutboxInv, TypeOK
<1>3. state[n] = "absent"
  BY <1>1 DEF OutboxInv, TypeOK
<1>4. TypeOK'
  BY <1>1, <1>2, NoneAssumption DEF OutboxInv, TypeOK, workers, remote, history, Items, Busy
<1>5. RowsInv'
  BY <1>1, <1>2, <1>3 DEF OutboxInv, TypeOK, RowsInv, AttemptsAreFailures, Open, history
<1>6. HoldersOwn'
  <2> SUFFICES ASSUME NEW w \in Procs, Holds(w)'
               PROVE  (Owns(w) /\ lease[item[w]] = Lease - since[w])'
    BY DEF HoldersOwn
  <2>1. Holds(w) /\ item[w] \in Items
    BY <1>1, BusyItem DEF Holds, Busy, workers, OutboxInv
  <2>2. Owns(w) /\ item[w] # n
    BY <1>3, <2>1 DEF OutboxInv, HoldersOwn, Owns
  <2>3. QED BY <1>1, <1>2, <2>1, <2>2 DEF OutboxInv, HoldersOwn, Owns, workers
<1>7. ClaimsInOrder'
  <2>1. ASSUME NEW i \in Items, PriorSettled(i) PROVE PriorSettled(i)'
    <3>1. i < n /\ \A j \in Items : j < i => j # n
      BY <1>1, <2>1 DEF PriorSettled, Items
    <3>2. QED BY <1>1, <1>2, <2>1, <3>1 DEF PriorSettled, Open, history, Items
  <2>2. QED
    BY <1>1, <2>1, BusyItem DEF OutboxInv, ClaimsInOrder, TypeOK, Busy, workers, remote
<1>8. RemoteInv'
  <2>1. \A k \in Items : k \in applied => k # n
    BY <1>1 DEF OutboxInv, ClaimsInOrder, TypeOK, PriorSettled, Items
  <2>2. QED BY <1>1, <1>2, <2>1
    DEF OutboxInv, TypeOK, RemoteInv, DeliveredWasApplied, workers, remote, history
<1>9. QED BY <1>4, <1>5, <1>6, <1>7, <1>8 DEF OutboxInv

(* A tombstone closes items; who delivers one of them no longer holds it.    *)
LEMMA ForgetKeepsInv ==
  ASSUME OutboxInv, NEW m \in Memories, Forget(m)
  PROVE  OutboxInv'
<1> DEFINE cancelled(i) == memory[i] = m /\ Open(i)
<1>1. /\ state' = [i \in Items |-> IF cancelled(i) THEN "dead_letter" ELSE state[i]]
      /\ owner' = [i \in Items |-> IF cancelled(i) THEN None ELSE owner[i]]
      /\ lease' = [i \in Items |-> IF cancelled(i) THEN 0 ELSE lease[i]]
      /\ delay' = [i \in Items |-> IF cancelled(i) THEN 0 ELSE delay[i]]
      /\ class' = [i \in Items |-> IF cancelled(i) THEN "local_tombstone" ELSE class[i]]
      /\ UNCHANGED <<made, memory, attempts, workers, remote, history>>
  BY DEF Forget
<1>2. TypeOK'
  BY <1>1, BoundsAssumption DEF OutboxInv, TypeOK, Open, workers, remote, history, Busy
<1>3. RowsInv'
  BY <1>1 DEF OutboxInv, TypeOK, RowsInv, AttemptsAreFailures, Open, history
<1>4. HoldersOwn'
  <2> SUFFICES ASSUME NEW w \in Procs, Holds(w)'
               PROVE  (Owns(w) /\ lease[item[w]] = Lease - since[w])'
    BY DEF HoldersOwn
  <2>1. Busy(w) /\ item[w] \in Items /\ item' = item /\ since' = since
    BY <1>1, BusyItem DEF Holds, Busy, workers, OutboxInv
  <2>2. ~cancelled(item[w]) /\ Holds(w)
    BY <1>1, <2>1 DEF Holds
  <2>3. QED BY <1>1, <2>1, <2>2 DEF OutboxInv, HoldersOwn, Owns
<1>5. ClaimsInOrder'
  BY <1>1 DEF OutboxInv, TypeOK, ClaimsInOrder, PriorSettled, Open, workers, remote, history, Busy
<1>6. RemoteInv'
  BY <1>1 DEF OutboxInv, TypeOK, RemoteInv, DeliveredWasApplied, workers, remote, history
<1>7. QED BY <1>2, <1>3, <1>4, <1>5, <1>6 DEF OutboxInv

(* Routing, sending and reading the answer change no row.                    *)
LEMMA DeliveryKeepsInv ==
  ASSUME OutboxInv, NEW w \in Procs, Route(w) \/ Send(w) \/ Answer(w)
  PROVE  OutboxInv'
<1>1. UNCHANGED <<rows, item, since, applied, latest, history>> /\ item[w] \in Items
  BY BusyItem DEF OutboxInv, Route, Send, Answer, remote, Busy
<1>2. PICK l \in {"waiting", "delivered", "spared", "retry", "permanent", "held"} :
        pc' = [pc EXCEPT ![w] = l] /\ (l = "delivered" => item[w] \in applied)
  BY DEF Route, Send, Answer, Goto, Outcomes
<1>3. Busy(w) /\ \A v \in Procs : Busy(v)' <=> Busy(v)
  BY <1>2 DEF OutboxInv, TypeOK, Busy, Route, Send, Answer
<1>4. sent' = sent \/ sent' = sent \cup {item[w]}
  BY DEF Route, Send, Answer, remote
<1>5. TypeOK'
  BY <1>1, <1>2, <1>3, <1>4 DEF OutboxInv, TypeOK, rows, history
<1>6. RowsInv'
  BY <1>1 DEF OutboxInv, RowsInv, AttemptsAreFailures, Open, rows, history
<1>7. HoldersOwn'
  BY <1>1, <1>3 DEF OutboxInv, HoldersOwn, Holds, Owns, rows
<1>8. ClaimsInOrder'
  BY <1>1, <1>3, <1>4 DEF OutboxInv, ClaimsInOrder, PriorSettled, Open, rows, history
<1>9. RemoteInv'
  BY <1>1, <1>2 DEF OutboxInv, TypeOK, RemoteInv, DeliveredWasApplied, rows, history
<1>10. QED BY <1>5, <1>6, <1>7, <1>8, <1>9 DEF OutboxInv

(* The server applies what was sent.                                         *)
LEMMA ApplyKeepsInv ==
  ASSUME OutboxInv, NEW i \in Items, Apply(i)
  PROVE  OutboxInv'
<1>1. /\ i \in sent /\ applied' = applied \cup {i} /\ latest' = [latest EXCEPT ![memory[i]] = i]
      /\ UNCHANGED <<rows, workers, sent, history>>
  BY DEF Apply
<1>2. i \in 0 .. MaxItems /\ memory[i] \in Memories
  BY <1>1 DEF OutboxInv, TypeOK, ClaimsInOrder, PriorSettled, Items
<1>3. TypeOK'
  BY <1>1, <1>2 DEF OutboxInv, TypeOK, rows, workers, history, Busy
<1>4. RowsInv' /\ HoldersOwn' /\ ClaimsInOrder'
  BY <1>1 DEF OutboxInv, RowsInv, AttemptsAreFailures, HoldersOwn, Holds, Owns, ClaimsInOrder,
              PriorSettled, Open, Busy, rows, workers, history
<1>5. RemoteInv'
  <2>1. \A m \in Memories : latest'[m] # 0 => latest'[m] \in applied' /\ memory[latest'[m]] = m
    BY <1>1, <1>2 DEF OutboxInv, TypeOK, RemoteInv
  <2>2. QED BY <1>1, <2>1 DEF OutboxInv, RemoteInv, DeliveredWasApplied, rows, workers, history
<1>6. QED BY <1>3, <1>4, <1>5 DEF OutboxInv

(* Time moves a lease and the time since its claim together.                 *)
LEMMA TickKeepsInv ==
  ASSUME OutboxInv, Tick
  PROVE  OutboxInv'
<1>1. /\ lease' = [i \in Items |-> Later(lease[i])]
      /\ delay' = [i \in Items |-> Later(delay[i])]
      /\ since' = [w \in Procs |-> IF Busy(w) /\ since[w] < Lease THEN since[w] + 1 ELSE since[w]]
      /\ UNCHANGED <<made, memory, state, attempts, owner, class, pc, item, remote, history>>
  BY DEF Tick
<1>2. TypeOK'
  BY <1>1, BoundsAssumption DEF OutboxInv, TypeOK, Later, remote, history, Busy
<1>3. RowsInv'
  BY <1>1 DEF OutboxInv, RowsInv, AttemptsAreFailures, Open, history
<1>4. HoldersOwn'
  <2> SUFFICES ASSUME NEW w \in Procs, Holds(w)'
               PROVE  (Owns(w) /\ lease[item[w]] = Lease - since[w])'
    BY DEF HoldersOwn
  <2>1. Busy(w) /\ item[w] \in Items /\ since[w] \in 0 .. Lease
    BY <1>1, BusyItem DEF Holds, Busy, OutboxInv, TypeOK
  <2>2. since[w] < Lease /\ since'[w] = since[w] + 1 /\ Holds(w)
    BY <1>1, <2>1, BoundsAssumption DEF Holds
  <2>3. Owns(w) /\ lease[item[w]] = Lease - since[w]
    BY <2>2 DEF OutboxInv, HoldersOwn
  <2>4. lease'[item[w]] = Lease - since'[w]
    BY <1>1, <2>1, <2>2, <2>3, BoundsAssumption DEF Later
  <2>5. QED BY <1>1, <2>3, <2>4 DEF Owns
<1>5. ClaimsInOrder' /\ RemoteInv'
  BY <1>1 DEF OutboxInv, ClaimsInOrder, PriorSettled, Open, Busy, RemoteInv,
              DeliveredWasApplied, remote, history
<1>6. QED BY <1>2, <1>3, <1>4, <1>5 DEF OutboxInv

(* An operator reopens only an item nobody holds and no tombstone cancelled. *)
LEMMA RequeueKeepsInv ==
  ASSUME OutboxInv, NEW k \in Items, Requeue(k)
  PROVE  OutboxInv'
<1>1. /\ state[k] = "dead_letter" /\ class[k] # "local_tombstone"
      /\ Settle(k, "pending", "none", 0)
      /\ attempts' = [attempts EXCEPT ![k] = 0] /\ failures' = [failures EXCEPT ![k] = 0]
      /\ again' = again \cup {k}
      /\ UNCHANGED <<made, memory, workers, remote, spared>>
  BY DEF Requeue, Requeues
<1>2. TypeOK'
  BY <1>1, BoundsAssumption DEF OutboxInv, TypeOK, Settle, workers, remote, Busy
<1>3. RowsInv'
  BY <1>1 DEF OutboxInv, TypeOK, RowsInv, AttemptsAreFailures, Open, Settle
<1>4. HoldersOwn'
  <2> SUFFICES ASSUME NEW w \in Procs, Holds(w)'
               PROVE  (Owns(w) /\ lease[item[w]] = Lease - since[w])'
    BY DEF HoldersOwn
  <2>1. Busy(w) /\ item[w] \in Items /\ item' = item /\ since' = since
    BY <1>1, BusyItem DEF Holds, Busy, workers, OutboxInv
  <2>2. Holds(w)
    BY <1>1, <2>1 DEF Holds, Settle, OutboxInv, TypeOK
  <2>3. Owns(w) /\ lease[item[w]] = Lease - since[w] /\ item[w] # k
    BY <1>1, <2>2 DEF OutboxInv, HoldersOwn, Owns
  <2>4. QED BY <1>1, <2>1, <2>3 DEF OutboxInv, TypeOK, Owns, Settle
<1>5. ClaimsInOrder'
  BY <1>1 DEF OutboxInv, TypeOK, ClaimsInOrder, PriorSettled, Open, Settle, workers, remote, Busy
<1>6. RemoteInv'
  BY <1>1 DEF OutboxInv, TypeOK, RemoteInv, DeliveredWasApplied, Settle, workers, remote
<1>7. QED BY <1>2, <1>3, <1>4, <1>5, <1>6 DEF OutboxInv

(* A worker that lets its item go without a statement.                       *)
LEMMA ReleaseKeepsInv ==
  ASSUME OutboxInv, NEW w \in Procs, Release(w), UNCHANGED <<rows, remote, history>>
  PROVE  OutboxInv'
<1>1. /\ ~Busy(w)' /\ item'[w] = None
      /\ \A v \in Procs : Busy(v)' =>
           v # w /\ Busy(v) /\ pc'[v] = pc[v] /\ item'[v] = item[v] /\ since'[v] = since[v]
  BY ReleaseFacts DEF OutboxInv, Busy
<1>2. TypeOK'
  BY ReleaseFacts DEF OutboxInv, TypeOK, rows, remote, history
<1>3. RowsInv'
  BY DEF OutboxInv, RowsInv, AttemptsAreFailures, Open, rows, history
<1>4. HoldersOwn'
  BY <1>1 DEF OutboxInv, HoldersOwn, Holds, Owns, rows
<1>5. ClaimsInOrder'
  BY <1>1 DEF OutboxInv, ClaimsInOrder, PriorSettled, Open, rows, remote, history
<1>6. RemoteInv'
  BY <1>1 DEF OutboxInv, RemoteInv, DeliveredWasApplied, rows, remote, history, Busy
<1>7. QED BY <1>2, <1>3, <1>4, <1>5, <1>6 DEF OutboxInv

(* A finalizing statement that matches its row closes or releases an item    *)
(* that no other worker holds.                                               *)
LEMMA FinalizeKeepsInv ==
  ASSUME OutboxInv, NEW w \in Procs, Deliver(w) \/ Fail(w) \/ Defer(w)
  PROVE  OutboxInv'
<1> DEFINE i == item[w]
<1>1. Busy(w) /\ Release(w) /\ UNCHANGED <<made, memory, remote, again>>
  BY Finalizing DEF OutboxInv
<1>2. /\ ~Busy(w)' /\ item'[w] = None
      /\ \A v \in Procs : Busy(v)' =>
           v # w /\ Busy(v) /\ pc'[v] = pc[v] /\ item'[v] = item[v] /\ since'[v] = since[v]
  BY <1>1, ReleaseFacts DEF OutboxInv, Busy
<1>3. CASE UNCHANGED <<rows, history>>
  BY <1>1, <1>3, ReleaseKeepsInv DEF history
<1>4. CASE ~UNCHANGED <<rows, history>>
  <2>1. i \in Items /\ state[i] = "processing" /\ owner[i] = w
    BY <1>1, <1>4, BusyItem, Finalizing DEF OutboxInv, Owns
  <2>2. PICK s \in {"pending", "delivered", "dead_letter"},
             c \in {"none", "retry", "permanent", "held"}, d \in 0 .. MaxDelay :
          /\ Settle(i, s, c, d)
          /\ s = "delivered" => pc[w] = "delivered" \/ i \in spared'
          /\ s = "pending" =>
               \/ attempts'[i] = attempts[i] - 1 /\ failures' = failures
               \/ attempts' = attempts /\ failures'[i] = failures[i] + 1
          /\ s = "dead_letter" /\ c # "permanent" =>
               Exhausted(i) /\ failures'[i] = failures[i] + 1
          /\ spared \subseteq spared' /\ spared' \subseteq Items
          /\ attempts' \in [Items -> Int] /\ failures' \in [Items -> Int]
          /\ \A j \in Items : j # i => attempts'[j] = attempts[j] /\ failures'[j] = failures[j]
          /\ attempts'[i] \in {attempts[i], attempts[i] - 1}
          /\ failures'[i] \in {failures[i], failures[i] + 1}
    BY <1>4, Finalizing DEF OutboxInv
  <2>3. attempts[i] = failures[i] + 1 /\ failures[i] \in 0 .. MaxAttempts /\ attempts[i] \in 0 .. MaxAttempts
    BY <2>1 DEF OutboxInv, RowsInv, AttemptsAreFailures, Open, TypeOK
  <2>4. /\ attempts' \in [Items -> 0 .. MaxAttempts] /\ failures' \in [Items -> 0 .. MaxAttempts]
    BY <2>2, <2>3, BoundsAssumption DEF OutboxInv, TypeOK
  <2>5. /\ state' \in [Items -> {"absent", "pending", "processing", "delivered", "dead_letter"}]
        /\ owner' \in [Items -> Procs \cup {None}] /\ lease' \in [Items -> 0 .. Lease]
        /\ delay' \in [Items -> 0 .. MaxDelay]
        /\ class' \in [Items -> {"none", "local_tombstone", "permanent", "retry", "held", "attempt_limit"}]
        /\ state'[i] = s /\ class'[i] = c /\ state'[i] # "processing" /\ state'[i] # "absent"
        /\ \A j \in Items : j # i => /\ state'[j] = state[j] /\ owner'[j] = owner[j]
                                     /\ lease'[j] = lease[j] /\ class'[j] = class[j]
    BY <2>1, <2>2, BoundsAssumption DEF OutboxInv, TypeOK, Settle
  <2>6. TypeOK'
    BY <1>1, <2>1, <2>2, <2>4, <2>5, ReleaseFacts DEF OutboxInv, TypeOK, remote
  <2>7. RowsInv'
    <3>1. state'[i] = "pending" => attempts'[i] = failures'[i]
      BY <2>1, <2>2, <2>3, <2>5
    <3>2. state'[i] = "dead_letter" /\ class'[i] \notin {"local_tombstone", "permanent"}
            => failures'[i] = MaxAttempts
      BY <2>1, <2>2, <2>3, <2>5, BoundsAssumption DEF Exhausted
    <3>3. \A j \in Items : j # i =>
            (state'[j] = state[j] /\ class'[j] = class[j] /\ attempts'[j] = attempts[j]
             /\ failures'[j] = failures[j])
      BY <2>2, <2>5
    <3>4. AttemptsAreFailures'
      <4>1. SUFFICES ASSUME NEW j \in Items
                     PROVE  /\ Open(j)' => attempts'[j] = failures'[j]
                                                     + IF state'[j] = "processing" THEN 1 ELSE 0
                            /\ state'[j] = "dead_letter"
                                 /\ class'[j] \notin {"local_tombstone", "permanent"}
                                   => failures'[j] = MaxAttempts
        BY DEF AttemptsAreFailures
      <4>2. CASE j = i
        BY <2>2, <2>4, <2>5, <3>1, <3>2, <4>2 DEF Open
      <4>3. CASE j # i
        BY <3>3, <4>3 DEF OutboxInv, RowsInv, AttemptsAreFailures, Open
      <4>4. QED BY <4>2, <4>3
    <3>5. QED BY <2>2, <2>5, <3>3, <3>4 DEF OutboxInv, RowsInv
  <2>8. HoldersOwn'
    <3> SUFFICES ASSUME NEW v \in Procs, Holds(v)'
                 PROVE  (Owns(v) /\ lease[item[v]] = Lease - since[v])'
      BY DEF HoldersOwn
    <3>1. v # w /\ Busy(v) /\ item[v] \in Items /\ item'[v] = item[v] /\ since'[v] = since[v]
      BY <1>2, BusyItem DEF Holds, OutboxInv
    <3>2. Holds(v)
      BY <2>1, <2>5, <3>1 DEF Holds, OutboxInv, RowsInv
    <3>3. Owns(v) /\ lease[item[v]] = Lease - since[v]
      BY <3>2 DEF OutboxInv, HoldersOwn
    <3>4. item[v] # i
      BY <2>1, <3>1, <3>3 DEF Owns
    <3>5. QED BY <2>5, <3>1, <3>3, <3>4 DEF Owns
  <2>9. ClaimsInOrder'
    <3>1. \A j \in Items : Open(j)' => Open(j)
      BY <2>1, <2>5 DEF Open
    <3>2. QED BY <1>1, <1>2, <3>1 DEF OutboxInv, ClaimsInOrder, PriorSettled, remote
  <2>10. RemoteInv'
    <3>1. s = "delivered" => i \in applied \/ i \in spared'
      BY <2>2 DEF OutboxInv, RemoteInv
    <3>2. \A v \in Procs : pc'[v] = "delivered" => item'[v] \in applied
      BY <1>2 DEF OutboxInv, RemoteInv, Busy
    <3>3. QED BY <1>1, <2>2, <2>5, <3>1, <3>2 DEF OutboxInv, RemoteInv, DeliveredWasApplied, remote
  <2>11. QED BY <2>6, <2>7, <2>8, <2>9, <2>10 DEF OutboxInv
<1>5. QED BY <1>3, <1>4

(* A claim takes an item no live lease protects; the sweeps in its           *)
(* transaction release only rows whose lease has run out, which no holder    *)
(* has.                                                                      *)
LEMMA ClaimKeepsInv ==
  ASSUME OutboxInv, NEW w \in Procs, Claim(w)
  PROVE  OutboxInv'
<1>1. PICK i \in Claimable :
        /\ state' = [j \in Items |-> IF j = i THEN "processing" ELSE Swept(j)]
        /\ owner' = [j \in Items |-> IF j = i THEN w ELSE IF Expired(j) THEN None ELSE owner[j]]
        /\ attempts' = [attempts EXCEPT ![i] = @ + 1]
        /\ lease' = [lease EXCEPT ![i] = Lease]
        /\ item' = [item EXCEPT ![w] = i]
  BY DEF Claim
<1>2. /\ class' = [j \in Items |-> IF Expired(j) /\ Exhausted(j) /\ class[j] = "none"
                                   THEN "attempt_limit" ELSE class[j]]
      /\ failures' = [j \in Items |-> failures[j] + IF Expired(j) THEN 1 ELSE 0]
      /\ pc[w] = "idle" /\ pc' = [pc EXCEPT ![w] = "claimed"]
      /\ since' = [since EXCEPT ![w] = 0]
      /\ UNCHANGED <<made, memory, delay, remote, again, spared>>
  BY DEF Claim
<1>3. i \in Items /\ Swept(i) = "pending" /\ ~Exhausted(i) /\ Prior(i) = {}
  BY DEF Claimable
<1>4. ASSUME NEW j \in Items, Expired(j)
      PROVE  state[j] = "processing" /\ attempts[j] = failures[j] + 1
  BY <1>4 DEF Expired, OutboxInv, RowsInv, AttemptsAreFailures, Open
<1>5. \A j \in Items : /\ Swept(j) \in {"absent", "pending", "processing", "delivered", "dead_letter"}
                       /\ Swept(j) = "absent" <=> state[j] = "absent"
                       /\ Swept(j) = "delivered" => state[j] = "delivered"
                       /\ Swept(j) \in {"pending", "processing"} => Open(j)
  BY DEF Swept, Expired, Open, OutboxInv, TypeOK
<1>6. \A j \in Items : attempts[j] \in 0 .. MaxAttempts /\ failures[j] \in 0 .. MaxAttempts
  BY DEF OutboxInv, TypeOK
<1>7. /\ \A v \in Procs : v # w => pc'[v] = pc[v] /\ item'[v] = item[v] /\ since'[v] = since[v]
      /\ pc'[w] = "claimed" /\ item'[w] = i /\ since'[w] = 0
      /\ \A v \in Procs : v # w => (Busy(v)' <=> Busy(v))
  BY <1>1, <1>2 DEF OutboxInv, TypeOK, Busy
<1>8. TypeOK'
  <2>1. made' \in 0 .. MaxItems /\ memory' \in [Items -> Memories \cup {None}]
    BY <1>2 DEF OutboxInv, TypeOK
  <2>2. \A j \in Items : (j <= made' <=> memory'[j] \in Memories) /\ (j > made' <=> state'[j] = "absent")
    BY <1>1, <1>2, <1>3, <1>5 DEF OutboxInv, TypeOK
  <2>3. state' \in [Items -> {"absent", "pending", "processing", "delivered", "dead_letter"}]
    BY <1>1, <1>5
  <2>4. attempts' \in [Items -> 0 .. MaxAttempts]
    BY <1>1, <1>3, <1>6, BoundsAssumption DEF Exhausted, OutboxInv, TypeOK
  <2>5. owner' \in [Items -> Procs \cup {None}] /\ lease' \in [Items -> 0 .. Lease]
    <3>1. owner \in [Items -> Procs \cup {None}] /\ lease \in [Items -> 0 .. Lease]
      BY DEF OutboxInv, TypeOK
    <3>2. \A j \in Items : (IF j = i THEN w ELSE IF Expired(j) THEN None ELSE owner[j])
                            \in Procs \cup {None}
      BY <3>1
    <3>3. owner' \in [Items -> Procs \cup {None}]
      BY <1>1, <3>2
    <3>4. Lease \in 0 .. Lease /\ lease' = [lease EXCEPT ![i] = Lease]
      BY <1>1, BoundsAssumption
    <3>5. lease' \in [Items -> 0 .. Lease]
      BY <3>1, <3>4
    <3>6. QED BY <3>3, <3>5
  <2>6. class' \in [Items -> {"none", "local_tombstone", "permanent", "retry", "held", "attempt_limit"}]
    BY <1>2 DEF OutboxInv, TypeOK
  <2>7. failures' \in [Items -> 0 .. MaxAttempts]
    BY <1>2, <1>4, <1>6, BoundsAssumption
  <2>8. /\ pc' \in [Procs -> {"idle", "claimed", "waiting", "delivered", "spared",
                              "retry", "permanent", "held"}]
        /\ item' \in [Procs -> Items \cup {None}] /\ since' \in [Procs -> 0 .. Lease]
    BY <1>1, <1>2, <1>3, BoundsAssumption DEF OutboxInv, TypeOK
  <2>9. \A v \in Procs : Busy(v)' <=> item'[v] \in Items
    BY <1>3, <1>7 DEF OutboxInv, TypeOK, Busy
  <2>10. QED
    BY <1>2, <2>1, <2>2, <2>3, <2>4, <2>5, <2>6, <2>7, <2>8, <2>9 DEF OutboxInv, TypeOK, remote
<1>9. RowsInv'
  <2>1. SUFFICES ASSUME NEW j \in Items
                 PROVE  /\ state'[j] \in {"pending", "processing"} =>
                             attempts'[j] = failures'[j] + IF state'[j] = "processing" THEN 1 ELSE 0
                        /\ state'[j] = "dead_letter" /\ class'[j] \notin {"local_tombstone", "permanent"}
                             => failures'[j] = MaxAttempts
                        /\ state'[j] = "absent" => attempts'[j] = 0 /\ failures'[j] = 0 /\ class'[j] = "none"
                        /\ class'[j] = "local_tombstone" => state'[j] = "dead_letter"
    BY DEF RowsInv, AttemptsAreFailures, Open
  <2>2. /\ Open(j) => attempts[j] = failures[j] + IF state[j] = "processing" THEN 1 ELSE 0
        /\ state[j] = "dead_letter" /\ class[j] \notin {"local_tombstone", "permanent"}
             => failures[j] = MaxAttempts
        /\ state[j] = "absent" => attempts[j] = 0 /\ failures[j] = 0 /\ class[j] = "none"
        /\ class[j] = "local_tombstone" => state[j] = "dead_letter"
    BY DEF OutboxInv, RowsInv, AttemptsAreFailures
  <2>3. CASE Expired(j)
    BY <1>1, <1>2, <1>3, <1>4, <1>6, <2>2, <2>3, BoundsAssumption
      DEF Swept, Exhausted, Expired, OutboxInv, TypeOK
  <2>4. CASE ~Expired(j)
    BY <1>1, <1>2, <1>3, <1>6, <2>2, <2>4 DEF Swept, Open, OutboxInv, TypeOK
  <2>5. QED BY <2>3, <2>4
<1>10. HoldersOwn'
  <2> SUFFICES ASSUME NEW v \in Procs, Holds(v)'
               PROVE  (Owns(v) /\ lease[item[v]] = Lease - since[v])'
    BY DEF HoldersOwn
  <2>1. CASE v = w
    BY <1>1, <1>3, <1>7, <2>1, BoundsAssumption DEF Owns, OutboxInv, TypeOK
  <2>2. CASE v # w
    <3>1. Busy(v) /\ item[v] \in Items /\ item'[v] = item[v] /\ since'[v] = since[v]
          /\ since[v] \in 0 .. Lease
      BY <1>7, <2>2, BusyItem DEF Holds, OutboxInv, TypeOK
    <3>2. Holds(v)
      BY <1>2, <3>1 DEF Holds
    <3>3. Owns(v) /\ lease[item[v]] = Lease - since[v] /\ lease[item[v]] # 0
      BY <3>1, <3>2, BoundsAssumption DEF OutboxInv, HoldersOwn, Holds
    <3>4. ~Expired(item[v]) /\ Swept(item[v]) = "processing" /\ item[v] # i
      BY <1>3, <3>3 DEF Expired, Swept, Owns
    <3>5. QED BY <1>1, <3>1, <3>3, <3>4 DEF Owns, OutboxInv, TypeOK
  <2>3. QED BY <2>1, <2>2
<1>11. ClaimsInOrder'
  <2>1. \A j \in Items : Open(j)' => Open(j)
    BY <1>1, <1>3, <1>5 DEF Open
  <2>2. PriorSettled(i)'
    <3>1. i <= made
      <4>1. state[i] # "absent"
        BY <1>3, <1>5
      <4>2. QED BY <1>3, <4>1, BoundsAssumption DEF OutboxInv, TypeOK, Items
    <3>2. ASSUME NEW j \in Items, j < i, memory[j] = memory[i] PROVE ~Open(j)'
      BY <1>1, <1>3, <3>2 DEF Prior, Open, Items
    <3>3. QED BY <1>2, <3>1, <3>2 DEF PriorSettled
  <2>3. \A v \in Procs : v # w /\ Busy(v)' => PriorSettled(item[v])'
    BY <1>2, <1>7, <2>1 DEF OutboxInv, ClaimsInOrder, PriorSettled
  <2>4. \A k \in sent' : PriorSettled(k)'
    BY <1>2, <2>1 DEF OutboxInv, ClaimsInOrder, PriorSettled, remote
  <2>5. \A v \in Procs : Busy(v)' => PriorSettled(item[v])'
    <3>1. (item[w] = i)'  
      BY <1>7
    <3>2. QED BY <2>2, <2>3, <3>1 DEF PriorSettled
  <2>6. QED BY <2>4, <2>5 DEF ClaimsInOrder
<1>12. RemoteInv'
  <2>1. \A j \in Items : state'[j] = "delivered" => state[j] = "delivered"
    BY <1>1, <1>5
  <2>2. \A v \in Procs : pc'[v] = "delivered" => item'[v] \in applied
    BY <1>7 DEF OutboxInv, RemoteInv
  <2>3. QED BY <1>2, <2>1, <2>2 DEF OutboxInv, RemoteInv, DeliveredWasApplied, remote
<1>13. QED BY <1>8, <1>9, <1>10, <1>11, <1>12 DEF OutboxInv

-----------------------------------------------------------------------------
(* The invariant holds at the start.                                         *)
LEMMA InitInv == Init => OutboxInv
<1> SUFFICES ASSUME Init PROVE OutboxInv
  OBVIOUS
<1>1. TypeOK
  BY BoundsAssumption, NoneAssumption DEF Init, TypeOK, Items, Busy
<1>2. RowsInv /\ HoldersOwn /\ ClaimsInOrder /\ RemoteInv
  BY DEF Init, RowsInv, AttemptsAreFailures, Open, HoldersOwn, Holds, Busy, ClaimsInOrder,
         RemoteInv, DeliveredWasApplied
<1>3. QED BY <1>1, <1>2 DEF OutboxInv

(* Every step keeps the invariant.                                           *)
LEMMA NextInv == OutboxInv /\ [Next]_vars => OutboxInv'
<1> SUFFICES ASSUME OutboxInv, [Next]_vars PROVE OutboxInv'
  OBVIOUS
<1>1. ASSUME NEW m \in Memories, Save(m) \/ Forget(m) PROVE OutboxInv'
  BY <1>1, SaveKeepsInv, ForgetKeepsInv
<1>2. ASSUME NEW w \in Procs, Claim(w) \/ Route(w) \/ Attempt(w) PROVE OutboxInv'
  BY <1>2, ClaimKeepsInv, DeliveryKeepsInv, FinalizeKeepsInv DEF Attempt
<1>3. ASSUME NEW w \in Procs, Abandon(w) PROVE OutboxInv'
  BY <1>3, ReleaseKeepsInv DEF Abandon
<1>4. ASSUME NEW i \in Items, Apply(i) \/ Requeue(i) PROVE OutboxInv'
  BY <1>4, ApplyKeepsInv, RequeueKeepsInv
<1>5. ASSUME Tick PROVE OutboxInv'
  BY <1>5, TickKeepsInv
<1>6. ASSUME UNCHANGED vars PROVE OutboxInv'
  BY <1>6 DEF OutboxInv, TypeOK, RowsInv, AttemptsAreFailures, Open, HoldersOwn, Holds, Owns,
    Busy, ClaimsInOrder, PriorSettled, RemoteInv, DeliveredWasApplied, vars, rows, workers,
    remote, history
<1>7. QED BY <1>1, <1>2, <1>3, <1>4, <1>5, <1>6 DEF Next

(* The invariant holds in every reachable state.                             *)
THEOREM OutboxInvariant == Spec => []OutboxInv
BY InitInv, NextInv, PTL DEF Spec

(* Every variable of the outbox, its workers and the server keeps its type.  *)
THEOREM TypeCorrect == Spec => []TypeOK
<1>1. OutboxInv => TypeOK
  BY DEF OutboxInv
<1>2. QED BY OutboxInvariant, <1>1, PTL

(* The attempts of an item are its failures plus the claim that is running,  *)
(* and an item is given up for its attempts only after max_attempts failures *)
(* (ClaimRemoteOutbox, FailRemoteOutbox, DeferRemoteOutbox).                 *)
THEOREM AttemptsCountFailures == Spec => []AttemptsAreFailures
<1>1. OutboxInv => AttemptsAreFailures
  BY DEF OutboxInv, RowsInv
<1>2. QED BY OutboxInvariant, <1>1, PTL

(* A worker whose lease has not run out is the only one delivering its       *)
(* memory, and delivers the oldest open item (ClaimRemoteOutbox).            *)
THEOREM OneSender == Spec => []OneSenderPerMemory
<1>1. ASSUME OutboxInv PROVE OneSenderPerMemory
  BY <1>1, BusyItem
    DEF OutboxInv, HoldersOwn, Holds, ClaimsInOrder, PriorSettled, OneSenderPerMemory
<1>2. QED BY OutboxInvariant, <1>1, PTL

(* An item recorded as delivered was applied by the server or left out on    *)
(* purpose (drainRemoteOutbox, DeliverRemoteOutbox).                         *)
THEOREM DeliveredStaysApplied == Spec => []DeliveredWasApplied
<1>1. OutboxInv => DeliveredWasApplied
  BY DEF OutboxInv, RemoteInv
<1>2. QED BY OutboxInvariant, <1>1, PTL

(* The server replaces what it knows of a memory by an older save only when  *)
(* that save was given up or requeued by an operator.                        *)
THEOREM RemoteStaysOrdered == Spec => RemoteNeverGoesBack
<1>1. ASSUME OutboxInv, [Next]_vars, NEW m \in Memories, latest'[m] < latest[m]
      PROVE  state[latest'[m]] = "dead_letter" \/ latest'[m] \in again \cup spared
  <2>1. latest' # latest
    BY <1>1 DEF OutboxInv, TypeOK
  <2>2. PICK i \in Items : Apply(i)
    BY <1>1, <2>1 DEF Next, Save, Forget, Claim, Route, Attempt, Send, Answer, Deliver, Fail,
      Defer, Abandon, Requeue, Tick, vars, remote
  <2>3. i \in sent \ applied /\ latest' = [latest EXCEPT ![memory[i]] = i]
    BY <2>2 DEF Apply
  <2>4. memory[i] = m /\ latest'[m] = i /\ i < latest[m]
    BY <1>1, <2>3 DEF OutboxInv, TypeOK
  <2>5. latest[m] \in applied /\ memory[latest[m]] = m /\ PriorSettled(latest[m])
    BY <1>1, <2>4 DEF OutboxInv, TypeOK, RemoteInv, ClaimsInOrder, Items
  <2>6. (~Open(i) \/ i \in again) /\ state[i] # "absent"
    BY <1>1, <2>4, <2>5, <2>3, BoundsAssumption DEF OutboxInv, PriorSettled, TypeOK, ClaimsInOrder, Items
  <2>7. CASE i \in again
    BY <2>4, <2>7
  <2>8. CASE state[i] = "delivered"
    BY <1>1, <2>3, <2>4, <2>8 DEF OutboxInv, RemoteInv, DeliveredWasApplied
  <2>9. CASE state[i] = "dead_letter"
    BY <2>4, <2>9
  <2>10. QED BY <1>1, <2>6, <2>7, <2>8, <2>9 DEF Open, OutboxInv, TypeOK
<1>2. OutboxInv /\ [Next]_vars =>
        [\A m \in Memories : latest'[m] < latest[m] =>
           \/ state[latest'[m]] = "dead_letter"
           \/ latest'[m] \in again \cup spared]_vars
  BY <1>1
<1>3. QED BY OutboxInvariant, <1>2, PTL DEF Spec, RemoteNeverGoesBack

(* What a tombstone cancelled stays cancelled (cancelRemoteOutbox,           *)
(* RequeueRemoteOutbox).                                                     *)
THEOREM CancellationIsFinal == Spec => CancelledStaysCancelled
<1>1. ASSUME OutboxInv, Next, NEW i \in Items, class[i] = "local_tombstone"
      PROVE  state'[i] = "dead_letter" /\ class'[i] = "local_tombstone"
  <2>1. state[i] = "dead_letter"
    BY <1>1 DEF OutboxInv, RowsInv
  <2>2. CASE \E m \in Memories : Save(m) \/ Forget(m)
    BY <1>1, <2>1, <2>2 DEF Save, Forget, Open, OutboxInv, TypeOK
  <2>3. CASE \E w \in Procs : Claim(w)
    BY <1>1, <2>1, <2>3 DEF Claim, Claimable, Swept, Expired, OutboxInv, TypeOK
  <2>4. CASE \E w \in Procs : Route(w) \/ Send(w) \/ Answer(w) \/ Abandon(w)
    BY <1>1, <2>1, <2>4 DEF Route, Send, Answer, Abandon, rows
  <2>5. CASE \E w \in Procs : Deliver(w) \/ Fail(w) \/ Defer(w)
    <3>1. PICK w \in Procs : Deliver(w) \/ Fail(w) \/ Defer(w)
      BY <2>5
    <3>2. CASE ~Owns(w) /\ UNCHANGED <<rows, history>>
      BY <1>1, <2>1, <3>2 DEF rows
    <3>3. CASE Owns(w) /\ \E s, c, d : Settle(item[w], s, c, d)
      BY <1>1, <2>1, <3>3 DEF Owns, Settle, OutboxInv, TypeOK
    <3>4. QED BY <1>1, <3>1, <3>2, <3>3, Finalizing DEF OutboxInv
  <2>6. CASE \E k \in Items : Apply(k) \/ Requeue(k)
    BY <1>1, <2>1, <2>6 DEF Apply, Requeue, Requeues, Settle, rows, OutboxInv, TypeOK
  <2>7. CASE Tick
    BY <1>1, <2>1, <2>7 DEF Tick
  <2>8. QED BY <1>1, <2>2, <2>3, <2>4, <2>5, <2>6, <2>7 DEF Next, Attempt
<1>2. OutboxInv /\ [Next]_vars =>
        [\A i \in Items : class[i] = "local_tombstone" =>
           state'[i] = "dead_letter" /\ class'[i] = "local_tombstone"]_vars
  BY <1>1
<1>3. QED BY OutboxInvariant, <1>2, PTL DEF Spec, CancelledStaysCancelled
=============================================================================
