----------------------------- MODULE ServeProofs -----------------------------
(***************************************************************************)
(* What MCServe checks on a small process holds of every process: any number *)
(* of memories, generations, embedders, searches and files, any bounds.      *)
(*                                                                         *)
(* No component's property is inductive.  Each gets the state that makes it  *)
(* so: who holds which lock and what every thread of the vector cache        *)
(* carries (VCInv), how many embedders refs counts (ERInv), what a load of   *)
(* the lexicon has read of the rows and who loads (ELInv), which version the *)
(* indexer's walk holds at each stage (IXInv).  Their conjunction is kept by *)
(* every step, because a step of one component leaves the others alone.      *)
(***************************************************************************)
EXTENDS MCServe, FiniteSetTheorems, WellFoundedInduction, TLAPS

-----------------------------------------------------------------------------
(* VectorCache.  What each thread holds.                                     *)
Filling == {"load", "replace", "space"}
SomeMem == CHOOSE m \in Mems : TRUE
Savers == [pc : {VC!Idle, "active", "check", "load", "put"}, mem : Mems \cup {SomeMem},
           act : Gens \cup {0}, found : VC!Entries]
Workers == [pc : {VC!Idle, "check", "put"}, mem : Mems \cup {SomeMem}, vec : VC!Entries]
Binders == [pc : {"start", VC!Idle, "reset", "unspace", "off", "enable", "publish", "try", "done"}
                 \cup Filling,
            gen : Gens \cup {0}, activate : BOOLEAN, vecs : [Mems -> VC!Entries]]
VCThreads ==
  /\ saver \in Savers /\ worker \in Workers /\ binder \in Binders
  /\ saver.pc # VC!Idle => saver.mem \in Mems
  /\ worker.pc # VC!Idle => worker.mem \in Mems /\ worker.vec.by = "worker"
  /\ saver.found.by \in {"none", "save"}
  /\ binder.pc \in {"enable", "publish"} \cup Filling => binder.gen \in Serves

(* Who has which lock.                                                       *)
VCLocks ==
  /\ binder.pc \in Filling <=> embeddingLock = "binder"
  /\ worker.pc \in {"check", "put"} <=> embeddingLock = "worker"
  /\ binder.pc \in {"publish"} \cup Filling <=> searchLock = "write"
  /\ search = "score" <=> searchLock = "read"

(* What the cache holds beside what saves put is of its space, once there is *)
(* one; a space is the one searches embed their queries in.                  *)
OfSpace(vecs, g) == \A m \in Mems : vecs[m].by \in {"worker", "load"} => vecs[m].gen = g
VCSpaces ==
  /\ space # 0 => space = identity
  /\ binder.pc = "off" => space = 0
  /\ worker.pc = "put" => space \in {0, worker.vec.gen}
  /\ binder.pc = "replace" => OfSpace(binder.vecs, binder.gen)
  /\ binder.pc = "space" => OfSpace(quant, binder.gen)
  /\ space # 0 /\ binder.pc # "space" => OfSpace(quant, space)

VCInv == VC!TypeOK /\ VCThreads /\ VCLocks /\ VCSpaces

(* The property is part of the invariant.                                    *)
LEMMA VCApart == VCInv => VC!WorkerNeverMixes
BY DEF VCInv, VCLocks, VCSpaces, VC!WorkerNeverMixes, OfSpace, Filling

(* No generation is 0, and nothing is an entry of none.                      *)
LEMMA NoneIsEntry == VC!None \in VC!Entries /\ VC!None.by = "none" /\ VC!None.gen = 0
BY ServeAssumption DEF VC!None, VC!Entries

(* An entry says whose it is and of which generation.                        *)
LEMMA EntryIsEntry ==
  ASSUME NEW r \in 0 .. MaxRev, NEW g \in Gens \cup {0}, NEW who \in {"save", "worker", "load"}
  PROVE  /\ VC!Entry(r, g, who) \in VC!Entries
         /\ VC!Entry(r, g, who).gen = g /\ VC!Entry(r, g, who).by = who
BY DEF VC!Entry, VC!Entries

(* Nothing is cached when the process starts.                                *)
LEMMA VCInit == VC!Init => VCInv
<1> SUFFICES ASSUME VC!Init PROVE VCInv
  OBVIOUS
<1> USE ServeAssumption, NoneIsEntry DEF VC!Init
<1>1. quant \in [Mems -> VC!Entries] /\ \A m \in Mems : quant[m].by = "none"
  OBVIOUS
<1>2. VC!TypeOK
  <2>1. rev \in [Mems -> 1 .. MaxRev] /\ live \in [Mems -> BOOLEAN]
    OBVIOUS
  <2>2. vcStored \subseteq Mems \X (1 .. MaxRev) \X Gens
    OBVIOUS
  <2> QED BY <1>1, <2>1, <2>2 DEF VC!TypeOK
<1>3. VCThreads
  <2>1. saver \in Savers /\ worker \in Workers
    BY DEF Savers, Workers, VC!Idle, SomeMem
  <2>2. binder \in Binders
    BY <1>1 DEF Binders, Filling
  <2> QED BY <2>1, <2>2 DEF VCThreads, Filling, VC!Idle
<1>4. VCLocks /\ VCSpaces
  BY <1>1 DEF VCLocks, VCSpaces, OfSpace, Filling, VC!Idle
<1> QED BY <1>2, <1>3, <1>4 DEF VCInv

(* The database.  Nothing the threads rely on is there: a generation that is *)
(* activated elsewhere is found out about, a vector that is stored is put.   *)
LEMMA DatabaseInv ==
  ASSUME VCInv,
         UNCHANGED <<quant, space, identity, served, warm, embeddingLock, searchLock, worker, binder,
                     search>>,
         rev' \in [Mems -> 1 .. MaxRev], live' \in [Mems -> BOOLEAN],
         vcStored' \subseteq Mems \X (1 .. MaxRev) \X Gens,
         active' \in Gens \cup {0}, swaps' \in 0 .. MaxSwaps,
         saver' \in Savers, saver'.pc # VC!Idle => saver'.mem \in Mems,
         saver'.found.by \in {"none", "save"}
  PROVE  VCInv'
<1>1. VC!TypeOK'
  BY DEF VCInv, VC!TypeOK, VC!Entries
<1>2. VCThreads'
  BY DEF VCInv, VCThreads
<1>3. VCLocks' /\ VCSpaces'
  BY DEF VCInv, VCLocks, VCSpaces, OfSpace
<1> QED BY <1>1, <1>2, <1>3 DEF VCInv

(* A save, or a memory that is forgotten: the refresh begins.                *)
LEMMA SaveInv ==
  ASSUME VCInv, NEW m \in Mems, VC!Save(m) \/ VC!Forget(m)
  PROVE  VCInv'
<1> USE ServeAssumption, NoneIsEntry DEF VC!held, VC!bound, VC!locks
<1>1. saver \in Savers /\ saver.found.by \in {"none", "save"} /\ rev \in [Mems -> 1 .. MaxRev]
      /\ live \in [Mems -> BOOLEAN]
      /\ vcStored \subseteq Mems \X (1 .. MaxRev) \X Gens /\ active \in Gens \cup {0}
      /\ swaps \in 0 .. MaxSwaps
  BY DEF VCInv, VC!TypeOK, VCThreads
<1>2. CASE VC!Save(m)
  <2>1. /\ rev' = [rev EXCEPT ![m] = @ + 1] /\ rev[m] < MaxRev
        /\ live' = [live EXCEPT ![m] = TRUE]
        /\ saver' = [saver EXCEPT !.pc = "active", !.mem = m]
        /\ UNCHANGED <<active, swaps, quant, space, identity, served, warm, embeddingLock, searchLock,
                       worker, binder, search>>
    BY <1>2 DEF VC!Save
  <2>2. rev' \in [Mems -> 1 .. MaxRev] /\ live' \in [Mems -> BOOLEAN]
    BY <1>1, <2>1
  <2>3. vcStored' \subseteq Mems \X (1 .. MaxRev) \X Gens
    <3>1. PICK keep \in BOOLEAN :
            vcStored' = vcStored \cup
              {v \in {m} \X {rev[m] + 1} \X Gens : keep /\ <<m, rev[m], v[3]>> \in vcStored}
      BY <1>2 DEF VC!Save
    <3>2. rev[m] + 1 \in 1 .. MaxRev
      BY <1>1, <2>1
    <3>3. {m} \X {rev[m] + 1} \X Gens \subseteq Mems \X (1 .. MaxRev) \X Gens
      BY <3>2
    <3> QED BY <1>1, <3>1, <3>3
  <2>4. saver' \in Savers /\ saver'.mem = m /\ saver'.found = saver.found
    BY <1>1, <2>1 DEF Savers
  <2> QED BY <1>1, <2>1, <2>2, <2>3, <2>4, DatabaseInv
<1>3. CASE VC!Forget(m)
  <2>1. /\ live' = [live EXCEPT ![m] = FALSE]
        /\ saver' = [saver EXCEPT !.pc = "put", !.mem = m, !.found = VC!None]
        /\ UNCHANGED <<rev, vcStored, active, swaps, quant, space, identity, served, warm,
                       embeddingLock, searchLock, worker, binder, search>>
    BY <1>3 DEF VC!Forget
  <2>2. live' \in [Mems -> BOOLEAN]
    BY <1>1, <2>1
  <2>3. saver' \in Savers /\ saver'.mem = m /\ saver'.found = VC!None
    BY <1>1, <2>1 DEF Savers
  <2> QED BY <1>1, <2>1, <2>2, <2>3, DatabaseInv
<1> QED BY <1>2, <1>3

(* Another process stores a vector.                                          *)
LEMMA StoreInv ==
  ASSUME VCInv, NEW m \in Mems, NEW g \in Gens, VC!StoreElsewhere(m, g)
  PROVE  VCInv'
<1> USE DEF VC!held, VC!bound, VC!locks
<1>1. /\ UNCHANGED <<rev, live, active, swaps, quant, space, identity, served, warm, embeddingLock,
                     searchLock, saver, worker, binder, search>>
      /\ vcStored' = vcStored \cup {<<m, rev[m], g>>}
  BY DEF VC!StoreElsewhere
<1>2. /\ rev \in [Mems -> 1 .. MaxRev] /\ live \in [Mems -> BOOLEAN]
      /\ vcStored \subseteq Mems \X (1 .. MaxRev) \X Gens /\ active \in Gens \cup {0}
      /\ swaps \in 0 .. MaxSwaps
      /\ saver \in Savers /\ (saver.pc # VC!Idle => saver.mem \in Mems)
      /\ saver.found.by \in {"none", "save"}
  BY DEF VCInv, VC!TypeOK, VCThreads
<1>3. vcStored' \subseteq Mems \X (1 .. MaxRev) \X Gens
  <2>1. <<m, rev[m], g>> \in Mems \X (1 .. MaxRev) \X Gens
    BY <1>2
  <2> QED BY <2>1, <1>1, <1>2
<1> QED BY <1>1, <1>2, <1>3, DatabaseInv

(* Another process activates a generation; this one is not told.             *)
LEMMA ActivateInv ==
  ASSUME VCInv, NEW g \in Gens, VC!ActivateElsewhere(g)
  PROVE  VCInv'
<1> USE ServeAssumption DEF VC!held, VC!bound, VC!locks
<1>1. /\ UNCHANGED <<rev, live, vcStored, quant, space, identity, served, warm, embeddingLock,
                     searchLock, saver, worker, binder, search>>
      /\ active' = g /\ swaps < MaxSwaps /\ swaps' = swaps + 1
  BY DEF VC!ActivateElsewhere
<1>2. /\ rev \in [Mems -> 1 .. MaxRev] /\ live \in [Mems -> BOOLEAN]
      /\ vcStored \subseteq Mems \X (1 .. MaxRev) \X Gens /\ swaps' \in 0 .. MaxSwaps
      /\ saver \in Savers /\ (saver.pc # VC!Idle => saver.mem \in Mems)
      /\ saver.found.by \in {"none", "save"}
  BY <1>1 DEF VCInv, VC!TypeOK, VCThreads
<1> QED BY <1>1, <1>2, DatabaseInv

(* The refresh of a memory puts what it is not asked the space of.           *)
LEMMA SaverInv ==
  ASSUME VCInv, VC!SaverStep
  PROVE  VCInv'
<1> USE ServeAssumption, NoneIsEntry DEF VC!database, VC!held, VC!bound, VC!locks
<1>1. /\ rev \in [Mems -> 1 .. MaxRev] /\ live \in [Mems -> BOOLEAN]
      /\ vcStored \subseteq Mems \X (1 .. MaxRev) \X Gens /\ active \in Gens \cup {0}
      /\ swaps \in 0 .. MaxSwaps /\ quant \in [Mems -> VC!Entries]
      /\ saver \in Savers /\ (saver.pc # VC!Idle => saver.mem \in Mems)
      /\ saver.found.by \in {"none", "save"}
  BY DEF VCInv, VC!TypeOK, VCThreads
<1>2. ASSUME VC!RefreshActive \/ VC!RefreshCheck PROVE VCInv'
  <2>1. /\ UNCHANGED <<rev, live, vcStored, active, swaps, quant, space, identity, served, warm,
                       embeddingLock, searchLock, worker, binder, search>>
        /\ saver.pc \in {"active", "check"}
    BY <1>2 DEF VC!RefreshActive, VC!RefreshCheck
  <2>2. \/ saver' = [saver EXCEPT !.pc = "check", !.act = active]
        \/ saver' = [saver EXCEPT !.pc = VC!Idle]
        \/ saver' = [saver EXCEPT !.pc = "load"]
    BY <1>2 DEF VC!RefreshActive, VC!RefreshCheck
  <2>3. saver' \in Savers /\ saver'.mem = saver.mem /\ saver'.found = saver.found
    <3>1. CASE saver' = [saver EXCEPT !.pc = "check", !.act = active]
      BY <1>1, <3>1 DEF Savers
    <3>2. CASE saver' = [saver EXCEPT !.pc = VC!Idle]
      BY <1>1, <3>2 DEF Savers
    <3>3. CASE saver' = [saver EXCEPT !.pc = "load"]
      BY <1>1, <3>3 DEF Savers
    <3> QED BY <2>2, <3>1, <3>2, <3>3
  <2> QED BY <1>1, <2>1, <2>3, DatabaseInv DEF VC!Idle
<1>3. ASSUME VC!RefreshLoad PROVE VCInv'
  <2>1. /\ UNCHANGED <<rev, live, vcStored, active, swaps, quant, space, identity, served, warm,
                       embeddingLock, searchLock, worker, binder, search>>
        /\ saver.pc = "load"
    BY <1>3 DEF VC!RefreshLoad
  <2>2. saver.mem \in Mems /\ rev[saver.mem] \in 0 .. MaxRev /\ saver.act \in Gens \cup {0}
    BY <1>1, <2>1 DEF Savers, VC!Idle
  <2>3. PICK e \in VC!Entries : /\ saver' = [saver EXCEPT !.pc = "put", !.found = e]
                                /\ e.by \in {"none", "save"}
    <3>1. \/ saver' = [saver EXCEPT !.pc = "put", !.found = VC!None]
          \/ saver' = [saver EXCEPT !.pc = "put",
                                    !.found = VC!Entry(rev[saver.mem], saver.act, "save")]
      BY <1>3 DEF VC!RefreshLoad
    <3>2. CASE saver' = [saver EXCEPT !.pc = "put", !.found = VC!None]
      BY <3>2
    <3>3. CASE saver' = [saver EXCEPT !.pc = "put",
                                      !.found = VC!Entry(rev[saver.mem], saver.act, "save")]
      <4>1. /\ VC!Entry(rev[saver.mem], saver.act, "save") \in VC!Entries
            /\ VC!Entry(rev[saver.mem], saver.act, "save").by = "save"
        BY <2>2 DEF VC!Entry, VC!Entries
      <4> QED BY <3>3, <4>1
    <3> QED BY <3>1, <3>2, <3>3
  <2>4. saver' \in Savers /\ saver'.mem = saver.mem /\ saver'.found = e
    BY <1>1, <2>3 DEF Savers
  <2> QED BY <1>1, <2>1, <2>2, <2>3, <2>4, DatabaseInv
<1>4. ASSUME VC!RefreshPut PROVE VCInv'
  <2>1. /\ saver.pc = "put" /\ quant' = [quant EXCEPT ![saver.mem] = saver.found]
        /\ saver' = [saver EXCEPT !.pc = VC!Idle, !.act = 0, !.found = VC!None]
        /\ UNCHANGED <<rev, live, vcStored, active, swaps, space, identity, served, warm,
                       embeddingLock, searchLock, worker, binder, search>>
    BY <1>4 DEF VC!RefreshPut
  <2>2. saver.mem \in Mems /\ saver.found \in VC!Entries
    BY <1>1, <2>1 DEF Savers, VC!Idle
  <2>3. /\ quant' \in [Mems -> VC!Entries]
        /\ \A m \in Mems : quant'[m] = IF m = saver.mem THEN saver.found ELSE quant[m]
    BY <1>1, <2>1, <2>2
  <2>4. \A g : OfSpace(quant, g) => OfSpace(quant', g)
    BY <1>1, <2>3 DEF OfSpace
  <2>5. saver' \in Savers /\ saver'.pc = VC!Idle /\ saver'.found = VC!None
    BY <1>1, <2>1 DEF Savers
  <2>6. VC!TypeOK'
    BY <2>1, <2>3 DEF VCInv, VC!TypeOK
  <2>7. VCThreads' /\ VCLocks'
    BY <2>1, <2>5 DEF VCInv, VCThreads, VCLocks
  <2>8. VCSpaces'
    BY <2>1, <2>4 DEF VCInv, VCSpaces, OfSpace
  <2> QED BY <2>6, <2>7, <2>8 DEF VCInv
<1> QED BY <1>2, <1>3, <1>4 DEF VC!SaverStep

(* The worker puts a vector only while it has the lock that a fill needs, in *)
(* a cache of its space or of none.                                          *)
LEMMA WorkerInv ==
  ASSUME VCInv, VC!WorkerStep
  PROVE  VCInv'
<1> USE ServeAssumption, NoneIsEntry DEF VC!database, VC!held, VC!bound, VC!locks
<1>1. quant \in [Mems -> VC!Entries] /\ worker \in Workers
      /\ (worker.pc # VC!Idle => worker.mem \in Mems /\ worker.vec.by = "worker")
  BY DEF VCInv, VC!TypeOK, VCThreads
<1>2. /\ UNCHANGED <<rev, live, vcStored, active, swaps, space, identity, served, warm, searchLock,
                     saver, binder, search>>
      /\ worker.pc \in {"check", "put"} /\ embeddingLock = "worker" /\ binder.pc \notin Filling
  BY DEF VC!WorkerStep, VC!PutCheck, VC!PutCache, VCInv, VCLocks
<1>3. CASE VC!PutCheck
  <2>1. UNCHANGED quant
    BY <1>3 DEF VC!PutCheck
  <2>2. CASE space \in {0, worker.vec.gen}
    <3>1. worker' = [worker EXCEPT !.pc = "put"] /\ UNCHANGED embeddingLock
      BY <1>3, <2>2 DEF VC!PutCheck
    <3>2. worker' \in Workers /\ worker'.pc = "put" /\ worker'.vec = worker.vec
          /\ worker'.mem = worker.mem
      BY <1>1, <3>1 DEF Workers
    <3>3. VC!TypeOK' /\ VCThreads' /\ VCLocks'
      BY <1>1, <1>2, <2>1, <3>1, <3>2 DEF VCInv, VC!TypeOK, VCThreads, VCLocks, VC!Idle
    <3>4. VCSpaces'
      BY <1>2, <2>1, <2>2, <3>2 DEF VCInv, VCSpaces, OfSpace
    <3> QED BY <3>3, <3>4 DEF VCInv
  <2>3. CASE space \notin {0, worker.vec.gen}
    <3>1. worker' = [worker EXCEPT !.pc = VC!Idle, !.vec = VC!None] /\ embeddingLock' = "free"
      BY <1>3, <2>3 DEF VC!PutCheck
    <3>2. worker' \in Workers /\ worker'.pc = VC!Idle
      BY <1>1, <3>1 DEF Workers
    <3>3. VC!TypeOK' /\ VCThreads' /\ VCLocks'
      BY <1>1, <1>2, <2>1, <3>1, <3>2 DEF VCInv, VC!TypeOK, VCThreads, VCLocks, VC!Idle
    <3>4. VCSpaces'
      BY <1>2, <2>1, <3>2 DEF VCInv, VCSpaces, OfSpace, VC!Idle
    <3> QED BY <3>3, <3>4 DEF VCInv
  <2> QED BY <2>2, <2>3
<1>4. CASE VC!PutCache
  <2>1. /\ worker.pc = "put" /\ quant' = [quant EXCEPT ![worker.mem] = worker.vec]
        /\ worker' = [worker EXCEPT !.pc = VC!Idle, !.vec = VC!None] /\ embeddingLock' = "free"
    BY <1>4 DEF VC!PutCache
  <2>2. worker.mem \in Mems /\ worker.vec \in VC!Entries /\ space \in {0, worker.vec.gen}
    BY <1>1, <2>1 DEF VCInv, VCSpaces, Workers, VC!Idle
  <2>3. /\ quant' \in [Mems -> VC!Entries]
        /\ \A m \in Mems : quant'[m] = IF m = worker.mem THEN worker.vec ELSE quant[m]
    BY <1>1, <2>1, <2>2
  <2>4. worker' \in Workers /\ worker'.pc = VC!Idle
    BY <1>1, <2>1 DEF Workers
  <2>5. VC!TypeOK' /\ VCThreads' /\ VCLocks'
    BY <1>2, <2>1, <2>3, <2>4 DEF VCInv, VC!TypeOK, VCThreads, VCLocks, VC!Idle
  <2>6. space # 0 => OfSpace(quant', space)
    BY <1>2, <2>2, <2>3 DEF VCInv, VCSpaces, OfSpace, Filling
  <2>7. VCSpaces'
    BY <1>2, <2>4, <2>6 DEF VCInv, VCSpaces, OfSpace, Filling, VC!Idle
  <2> QED BY <2>5, <2>7 DEF VCInv
<1> QED BY <1>3, <1>4 DEF VC!WorkerStep

(* The worker stores a vector, and goes on when it is of the active space.   *)
LEMMA PutStoreInv ==
  ASSUME VCInv, NEW m \in Mems, NEW g \in Gens, VC!PutStore(m, g)
  PROVE  VCInv'
<1> USE ServeAssumption, NoneIsEntry DEF VC!held, VC!bound
<1>1. PICK r \in 1 .. rev[m] :
        /\ vcStored' = vcStored \cup {<<m, r, g>>}
        /\ \/ /\ worker' = [pc |-> "check", mem |-> m, vec |-> VC!Entry(r, g, "worker")]
              /\ embeddingLock' = "worker"
           \/ UNCHANGED <<worker, embeddingLock>>
  BY DEF VC!PutStore
<1>2. /\ worker.pc = VC!Idle /\ embeddingLock = "free"
      /\ UNCHANGED <<rev, live, active, swaps, quant, space, identity, served, warm, searchLock,
                     saver, binder, search>>
  BY DEF VC!PutStore
<1>3. r \in 1 .. MaxRev /\ r \in 0 .. MaxRev
  BY DEF VCInv, VC!TypeOK
<1>4. vcStored' \subseteq Mems \X (1 .. MaxRev) \X Gens
  <2>1. <<m, r, g>> \in Mems \X (1 .. MaxRev) \X Gens
    BY <1>3
  <2> QED BY <2>1, <1>1 DEF VCInv, VC!TypeOK
<1>5. CASE UNCHANGED <<worker, embeddingLock>>
  <2>1. VC!TypeOK'
    BY <1>2, <1>4, <1>5 DEF VCInv, VC!TypeOK, VC!Entries
  <2> QED BY <1>2, <1>5, <2>1 DEF VCInv, VCThreads, VCLocks, VCSpaces, OfSpace
<1>6. CASE /\ worker' = [pc |-> "check", mem |-> m, vec |-> VC!Entry(r, g, "worker")]
           /\ embeddingLock' = "worker"
  <2>1. worker' \in Workers /\ worker'.pc = "check" /\ worker'.mem = m
        /\ worker'.vec.by = "worker"
    BY <1>3, <1>6, EntryIsEntry DEF Workers
  <2>2. VC!TypeOK'
    BY <1>2, <1>4, <1>6 DEF VCInv, VC!TypeOK, VC!Entries
  <2>3. VCThreads' /\ VCLocks' /\ VCSpaces'
    BY <1>2, <1>6, <2>1 DEF VCInv, VCThreads, VCLocks, VCSpaces, OfSpace, Filling, VC!Idle
  <2> QED BY <2>2, <2>3 DEF VCInv
<1> QED BY <1>1, <1>5, <1>6

(* A search takes the read lock with the identity it embeds its query in.    *)
LEMMA SearchInv ==
  ASSUME VCInv, VC!SearchStep \/ VC!SearchStart \/ VC!GiveUpWaiting
  PROVE  VCInv'
<1> USE DEF VC!database, VC!held, VC!bound, VC!locks
<1>1. /\ UNCHANGED <<rev, live, vcStored, active, swaps, quant, space, identity, served, warm,
                     embeddingLock, saver, worker, binder>>
      /\ \/ UNCHANGED searchLock
         \/ searchLock = "free" /\ searchLock' = "read"
         \/ searchLock = "read" /\ searchLock' = "free"
      /\ (search' = "score") <=> (searchLock' = "read")
  BY DEF VC!SearchStep, VC!WaitWarm, VC!SearchLock, VC!Score, VC!SearchStart, VC!GiveUpWaiting,
     VCInv, VCLocks, VC!Idle
<1>2. VC!TypeOK'
  BY <1>1 DEF VCInv, VC!TypeOK, VC!Entries
<1> QED BY <1>1, <1>2 DEF VCInv, VCThreads, VCLocks, VCSpaces, OfSpace, Filling

(* The binder goes on without a lock, and leaves the cache alone.            *)
LEMMA BinderQuiet ==
  ASSUME VCInv, binder.pc \notin {"publish"} \cup Filling,
         binder' \in Binders, binder'.pc \notin {"publish", "off"} \cup Filling,
         binder'.pc = "enable" => binder'.gen \in Serves,
         UNCHANGED <<rev, live, vcStored, active, swaps, quant, space, identity, served,
                     embeddingLock, searchLock, saver, worker, search>>,
         warm' \in BOOLEAN
  PROVE  VCInv'
<1>1. VC!TypeOK'
  BY DEF VCInv, VC!TypeOK, VC!Entries
<1>2. VCThreads' /\ VCLocks'
  BY DEF VCInv, VCThreads, VCLocks, Filling
<1>3. VCSpaces'
  BY DEF VCInv, VCSpaces, OfSpace, Filling
<1> QED BY <1>1, <1>2, <1>3 DEF VCInv

(* It finds out which generation is active, or asks for its own.             *)
LEMMA RebindInv ==
  ASSUME VCInv, VC!Rebind \/ VC!TryActivate
  PROVE  VCInv'
<1> USE ServeAssumption DEF VC!database, VC!held, VC!bound, VC!locks
<1>1. /\ binder \in Binders /\ active \in Gens \cup {0} /\ vcOwn \in Serves /\ vcOwn \in Gens
      /\ binder.pc \in {"start", VC!Idle, "try", "done"} /\ warm \in BOOLEAN
      /\ 0 \notin Gens /\ Serves \subseteq Gens
  BY DEF VCInv, VC!TypeOK, VCThreads, VC!Rebind, VC!TryActivate
<1>2. /\ UNCHANGED <<rev, live, vcStored, active, swaps, quant, space, identity, served,
                     embeddingLock, searchLock, saver, worker, search>>
      /\ warm' \in BOOLEAN
  BY <1>1 DEF VC!Rebind, VC!TryActivate, VC!Finished
<1>3. \/ binder' = [binder EXCEPT !.gen = active, !.activate = FALSE, !.pc = "enable"]
         /\ active \in Serves
      \/ binder' = [binder EXCEPT !.gen = active, !.activate = FALSE, !.pc = "reset"]
      \/ binder' = [binder EXCEPT !.pc = "enable", !.gen = vcOwn, !.activate = TRUE]
      \/ binder' = [binder EXCEPT !.pc = VC!Idle, !.gen = 0, !.activate = FALSE]
  BY DEF VC!Rebind, VC!TryActivate, VC!Finished
<1>4. /\ binder' \in Binders /\ binder'.pc \in {"enable", "reset", VC!Idle}
      /\ binder'.pc = "enable" => binder'.gen \in Serves
  <2>1. CASE /\ binder' = [binder EXCEPT !.gen = active, !.activate = FALSE, !.pc = "enable"]
             /\ active \in Serves
    BY <1>1, <2>1 DEF Binders
  <2>2. CASE binder' = [binder EXCEPT !.gen = active, !.activate = FALSE, !.pc = "reset"]
    BY <1>1, <2>2 DEF Binders
  <2>3. CASE binder' = [binder EXCEPT !.pc = "enable", !.gen = vcOwn, !.activate = TRUE]
    BY <1>1, <2>3 DEF Binders
  <2>4. CASE binder' = [binder EXCEPT !.pc = VC!Idle, !.gen = 0, !.activate = FALSE]
    BY <1>1, <2>4 DEF Binders, VC!Idle
  <2> QED BY <1>3, <2>1, <2>2, <2>3, <2>4
<1> QED BY <1>1, <1>2, <1>4, BinderQuiet DEF Filling, VC!Idle

(* Semantic search is turned off: the cache is emptied, then is of no space, *)
(* then the searches are told.                                               *)
LEMMA TurnOffInv ==
  ASSUME VCInv, VC!Reset \/ VC!ResetSpace \/ VC!TurnOff
  PROVE  VCInv'
<1> USE ServeAssumption, NoneIsEntry DEF VC!database, VC!held, VC!bound, VC!locks
<1>1. /\ binder \in Binders /\ binder.pc \in {"reset", "unspace", "off"} /\ VC!TypeOK
      /\ UNCHANGED <<rev, live, vcStored, active, swaps, warm, embeddingLock, searchLock, saver,
                     worker, search>>
  BY DEF VCInv, VCThreads, VC!Reset, VC!ResetSpace, VC!TurnOff
<1>2. CASE VC!Reset
  <2>1. /\ quant' = [m \in Mems |-> VC!None] /\ binder' = [binder EXCEPT !.pc = "unspace"]
        /\ UNCHANGED <<space, identity, served>>
    BY <1>2 DEF VC!Reset
  <2>2. binder' \in Binders /\ binder'.pc = "unspace"
    BY <1>1, <2>1 DEF Binders
  <2>3. quant' \in [Mems -> VC!Entries] /\ \A g : OfSpace(quant', g)
    BY <2>1 DEF OfSpace
  <2>4. VC!TypeOK' /\ VCThreads' /\ VCLocks'
    BY <1>1, <2>1, <2>2, <2>3 DEF VCInv, VC!TypeOK, VCThreads, VCLocks, Filling
  <2>5. VCSpaces'
    BY <1>1, <2>1, <2>2, <2>3 DEF VCInv, VCSpaces, OfSpace, Filling
  <2> QED BY <2>4, <2>5 DEF VCInv
<1>3. CASE VC!ResetSpace
  <2>1. /\ space' = 0 /\ served' = 0 /\ binder' = [binder EXCEPT !.pc = "off"]
        /\ UNCHANGED <<quant, identity>>
    BY <1>3 DEF VC!ResetSpace
  <2>2. binder' \in Binders /\ binder'.pc = "off"
    BY <1>1, <2>1 DEF Binders
  <2>3. VC!TypeOK' /\ VCThreads' /\ VCLocks'
    BY <1>1, <2>1, <2>2 DEF VCInv, VC!TypeOK, VCThreads, VCLocks, Filling
  <2>4. VCSpaces'
    BY <1>1, <2>1, <2>2 DEF VCInv, VCSpaces, OfSpace, Filling
  <2> QED BY <2>3, <2>4 DEF VCInv
<1>4. CASE VC!TurnOff
  <2>1. /\ binder.pc = "off" /\ identity' = 0 /\ binder' = [binder EXCEPT !.pc = "try"]
        /\ UNCHANGED <<quant, space, served>>
    BY <1>4 DEF VC!TurnOff
  <2>2. binder' \in Binders /\ binder'.pc = "try"
    BY <1>1, <2>1 DEF Binders
  <2>3. VC!TypeOK' /\ VCThreads' /\ VCLocks'
    BY <1>1, <2>1, <2>2 DEF VCInv, VC!TypeOK, VCThreads, VCLocks, Filling
  <2>4. VCSpaces'
    BY <1>1, <2>1, <2>2 DEF VCInv, VCSpaces, OfSpace, Filling
  <2> QED BY <2>3, <2>4 DEF VCInv
<1> QED BY <1>2, <1>3, <1>4

(* The write lock is taken, and given back when the generation is not active. *)
LEMMA EnableInv ==
  ASSUME VCInv, VC!Enable \/ VC!Publish
  PROVE  VCInv'
<1> USE ServeAssumption DEF VC!database, VC!held, VC!bound, VC!locks
<1>1. binder \in Binders /\ VC!TypeOK
  BY DEF VCInv, VCThreads
<1>2. CASE VC!Enable
  <2>1. /\ binder.pc = "enable" /\ searchLock = "free" /\ searchLock' = "write"
        /\ binder' = [binder EXCEPT !.pc = "publish"]
        /\ UNCHANGED <<rev, live, vcStored, active, swaps, quant, space, identity, served, warm,
                       embeddingLock, saver, worker, search>>
    BY <1>2 DEF VC!Enable
  <2>2. binder' \in Binders /\ binder'.pc = "publish" /\ binder'.gen = binder.gen
    BY <1>1, <2>1 DEF Binders
  <2>3. VC!TypeOK' /\ VCThreads' /\ VCLocks'
    BY <1>1, <2>1, <2>2 DEF VCInv, VC!TypeOK, VCThreads, VCLocks, Filling
  <2>4. VCSpaces'
    BY <2>1, <2>2 DEF VCInv, VCSpaces, OfSpace, Filling
  <2> QED BY <2>3, <2>4 DEF VCInv
<1>3. CASE VC!Publish
  <2>1. /\ binder.pc = "publish" /\ embeddingLock = "free" /\ searchLock = "write"
        /\ binder.gen \in Serves /\ active' \in {active, binder.gen}
        /\ UNCHANGED <<rev, live, vcStored, swaps, quant, space, identity, served, saver, worker,
                       search>>
    BY <1>3 DEF VC!Publish, VCInv, VCLocks, VCThreads
  <2>2. active' \in Gens \cup {0}
    BY <1>1, <2>1 DEF VC!TypeOK
  <2>3. CASE active' = binder.gen
    <3>1. /\ embeddingLock' = "binder" /\ binder' = [binder EXCEPT !.pc = "load"]
          /\ UNCHANGED <<searchLock, warm>>
      BY <1>3, <2>3 DEF VC!Publish
    <3>2. binder' \in Binders /\ binder'.pc = "load" /\ binder'.gen = binder.gen
      BY <1>1, <3>1 DEF Binders, Filling
    <3>3. VC!TypeOK' /\ VCThreads' /\ VCLocks'
      BY <1>1, <2>1, <2>2, <3>1, <3>2 DEF VCInv, VC!TypeOK, VCThreads, VCLocks, Filling, VC!Entries
    <3>4. VCSpaces'
      BY <2>1, <3>2 DEF VCInv, VCSpaces, OfSpace, Filling
    <3> QED BY <3>3, <3>4 DEF VCInv
  <2>4. CASE active' # binder.gen
    <3>1. /\ searchLock' = "free" /\ warm' = FALSE /\ UNCHANGED embeddingLock
          /\ binder' = [binder EXCEPT !.pc = VC!Idle, !.gen = 0, !.activate = FALSE]
      BY <1>3, <2>4 DEF VC!Publish, VC!Finished
    <3>2. binder' \in Binders /\ binder'.pc = VC!Idle
      BY <1>1, <3>1 DEF Binders
    <3>3. VC!TypeOK' /\ VCThreads' /\ VCLocks'
      BY <1>1, <2>1, <2>2, <3>1, <3>2
      DEF VCInv, VC!TypeOK, VCThreads, VCLocks, Filling, VC!Entries, VC!Idle
    <3>4. VCSpaces'
      BY <2>1, <3>2 DEF VCInv, VCSpaces, OfSpace, Filling, VC!Idle
    <3> QED BY <3>3, <3>4 DEF VCInv
  <2> QED BY <2>3, <2>4
<1> QED BY <1>2, <1>3

(* The fill: the vectors of the generation that is active, put in one piece, *)
(* and only then is the cache of their space.                                *)
LEMMA FillInv ==
  ASSUME VCInv, VC!Load \/ VC!Replace \/ VC!SetSpace
  PROVE  VCInv'
<1> USE ServeAssumption, NoneIsEntry DEF VC!database, VC!held, VC!bound, VC!locks
<1>1. /\ binder \in Binders /\ VC!TypeOK /\ binder.pc \in Filling
      /\ binder.gen \in Serves /\ binder.gen \in Gens /\ binder.gen # 0
      /\ searchLock = "write" /\ embeddingLock = "binder" /\ worker.pc \notin {"check", "put"}
      /\ search # "score"
  BY DEF VCInv, VCThreads, VCLocks, VC!Load, VC!Replace, VC!SetSpace, Filling
<1>2. UNCHANGED <<rev, live, vcStored, active, swaps, warm, saver, worker, search>>
  BY DEF VC!Load, VC!Replace, VC!SetSpace
<1>3. CASE VC!Load
  <2> DEFINE loadedVecs ==
        [m \in Mems |-> IF live[m] /\ <<m, rev[m], binder.gen>> \in vcStored
                        THEN VC!Entry(rev[m], binder.gen, "load") ELSE VC!None]
  <2>1. /\ binder' = [binder EXCEPT !.pc = "replace", !.vecs = loadedVecs]
        /\ UNCHANGED <<quant, space, identity, served, embeddingLock, searchLock>>
    BY <1>3 DEF VC!Load
  <2>2. \A m \in Mems : rev[m] \in 0 .. MaxRev
    BY <1>1 DEF VC!TypeOK
  <2>8. \A m \in Mems : /\ VC!Entry(rev[m], binder.gen, "load") \in VC!Entries
                         /\ VC!Entry(rev[m], binder.gen, "load").gen = binder.gen
    BY <1>1, <2>2 DEF VC!Entry, VC!Entries
  <2>3. loadedVecs \in [Mems -> VC!Entries] /\ OfSpace(loadedVecs, binder.gen)
    BY <2>8 DEF OfSpace
  <2> HIDE DEF loadedVecs
  <2>4. /\ binder' \in Binders /\ binder'.pc = "replace" /\ binder'.gen = binder.gen
        /\ binder'.vecs = loadedVecs
    BY <1>1, <2>1, <2>3 DEF Binders, Filling
  <2>5. VC!TypeOK' /\ VCThreads' /\ VCLocks'
    BY <1>1, <1>2, <2>1, <2>4 DEF VCInv, VC!TypeOK, VCThreads, VCLocks, Filling, VC!Entries
  <2>6. binder.pc # "space"
    BY <1>3 DEF VC!Load
  <2>7. VCSpaces'
    BY <1>1, <1>2, <2>1, <2>3, <2>4, <2>6 DEF VCInv, VCSpaces, OfSpace
  <2> QED BY <2>5, <2>7 DEF VCInv
<1>4. CASE VC!Replace
  <2> DEFINE nothing == [m \in Mems |-> VC!None]
  <2>1. /\ binder.pc = "replace" /\ quant' = binder.vecs
        /\ binder' = [binder EXCEPT !.pc = "space", !.vecs = nothing]
        /\ UNCHANGED <<space, identity, served, embeddingLock, searchLock>>
    BY <1>4 DEF VC!Replace
  <2>2. nothing \in [Mems -> VC!Entries]
    OBVIOUS
  <2> HIDE DEF nothing
  <2>3. /\ binder' \in Binders /\ binder'.pc = "space" /\ binder'.gen = binder.gen
        /\ quant' \in [Mems -> VC!Entries]
    BY <1>1, <2>1, <2>2 DEF Binders, Filling
  <2>4. VC!TypeOK' /\ VCThreads' /\ VCLocks'
    BY <1>1, <1>2, <2>1, <2>3 DEF VCInv, VC!TypeOK, VCThreads, VCLocks, Filling, VC!Entries
  <2>5. OfSpace(quant', binder.gen)
    BY <2>1 DEF VCInv, VCSpaces
  <2>6. VCSpaces'
    BY <1>1, <1>2, <2>1, <2>3, <2>5 DEF VCInv, VCSpaces, OfSpace
  <2> QED BY <2>4, <2>6 DEF VCInv
<1>5. CASE VC!SetSpace
  <2>1. /\ binder.pc = "space" /\ UNCHANGED quant
        /\ space' = binder.gen /\ identity' = binder.gen /\ served' = binder.gen
        /\ embeddingLock' = "free" /\ searchLock' = "free"
        /\ \/ binder' = [binder EXCEPT !.pc = "done"]
           \/ binder' = [binder EXCEPT !.pc = "try"]
    BY <1>5 DEF VC!SetSpace
  <2>2. binder' \in Binders /\ binder'.pc \in {"done", "try"}
    BY <1>1, <2>1 DEF Binders
  <2>3. VC!TypeOK' /\ VCThreads' /\ VCLocks'
    BY <1>1, <1>2, <2>1, <2>2 DEF VCInv, VC!TypeOK, VCThreads, VCLocks, Filling, VC!Entries
  <2>4. OfSpace(quant, binder.gen)
    BY <2>1 DEF VCInv, VCSpaces
  <2>5. VCSpaces'
    BY <1>1, <1>2, <2>1, <2>2, <2>4 DEF VCSpaces, OfSpace
  <2> QED BY <2>3, <2>5 DEF VCInv
<1> QED BY <1>3, <1>4, <1>5

(* Whatever the process does, its cache keeps the invariant.                 *)
LEMMA VCStep == VCInv /\ [Move]_all => VCInv'
<1> SUFFICES ASSUME VCInv, [Move]_all PROVE VCInv'
  OBVIOUS
<1>1. [VC!Next]_vcState
  BY DEF Move, all
<1>2. CASE UNCHANGED vcState
  <2>1. UNCHANGED <<rev, live, vcStored, active, swaps, quant, space, identity, served, warm,
                    embeddingLock, searchLock, saver, worker, binder, search>>
    BY <1>2 DEF vcState
  <2>2. VC!TypeOK'
    BY <2>1 DEF VCInv, VC!TypeOK
  <2> QED BY <2>1, <2>2 DEF VCInv, VCThreads, VCLocks, VCSpaces, OfSpace
<1>3. CASE VC!Next
  BY <1>3, SaveInv, StoreInv, ActivateInv, PutStoreInv, SaverInv, WorkerInv, SearchInv, RebindInv,
     TurnOffInv, EnableInv, FillInv DEF VC!Next
<1> QED BY <1>1, <1>2, <1>3

-----------------------------------------------------------------------------
(* Serve.  Whatever the server, the hub and the hooks do with a session,     *)
(* its age is one.                                                           *)
LEMMA Aging ==
  ASSUME seSession \in [Sessions -> SE!Ages \cup {SE!Ended}]
  PROVE  /\ \A n \in Int : SE!EndStale(n) \in [Sessions -> SE!Ages \cup {SE!Ended}]
         /\ \A s \in Sessions : /\ [seSession EXCEPT ![s] = 0]
                                     \in [Sessions -> SE!Ages \cup {SE!Ended}]
                                /\ [seSession EXCEPT ![s] =
                                      IF @ = SE!Ended THEN SE!Ended ELSE 0]
                                     \in [Sessions -> SE!Ages \cup {SE!Ended}]
         /\ [s \in Sessions |-> IF seSession[s] \in SE!Ages \ {HubIdle}
                                THEN seSession[s] + 1 ELSE seSession[s]]
              \in [Sessions -> SE!Ages \cup {SE!Ended}]
BY ServeAssumption DEF SE!EndStale, SE!Ages, SE!Ended

(* The variables start in their domains,                                     *)
LEMMA SEInit == SE!Init => SE!TypeOK
BY ServeAssumption DEF SE!Init, SE!TypeOK, SE!Ages, SE!Ended

(* and every step of the server, its client, the hub and hooks keeps them.  *)
LEMMA SEStep == SE!TypeOK /\ [Move]_all => SE!TypeOK'
<1> SUFFICES ASSUME SE!TypeOK, [Move]_all PROVE SE!TypeOK'
  OBVIOUS
<1>1. [SE!Next]_seState
  BY DEF Move, all
<1>2. CASE UNCHANGED seState
  BY <1>2 DEF seState, SE!TypeOK
<1>3. CASE SE!Next
  <2>1. seSession' \in [Sessions -> SE!Ages \cup {SE!Ended}]
    <3>1. \/ UNCHANGED seSession
          \/ seSession' = SE!EndStale(ServeIdle) \/ seSession' = SE!EndStale(HubIdle - 1)
          \/ \E s \in Sessions :
               \/ seSession' = [seSession EXCEPT ![s] = 0]
               \/ seSession' = [seSession EXCEPT ![s] = IF @ = SE!Ended THEN SE!Ended ELSE 0]
          \/ seSession' = [s \in Sessions |-> IF seSession[s] \in SE!Ages \ {HubIdle}
                                THEN seSession[s] + 1 ELSE seSession[s]]
      BY <1>3 DEF SE!Next, SE!ServeStep, SE!ParentExits, SE!CloseInput, SE!Signal, SE!PollParent,
         SE!ReadLine, SE!LongLine, SE!ForceExit, SE!StartServing, SE!HandleMessage, SE!Shutdown,
         SE!EndStaleSessions, SE!Unlist, SE!Cancel, SE!CloseService, SE!Upkeep, SE!Idle,
         SE!StartSession
    <3>2. ServeIdle \in Int /\ HubIdle - 1 \in Int
      BY ServeAssumption
    <3>3. seSession \in [Sessions -> SE!Ages \cup {SE!Ended}]
      BY DEF SE!TypeOK
    <3> QED BY <3>1, <3>2, <3>3, Aging
  <2>2. /\ pc' \in {"index", "loop", "handle", "sessions", "unlist", "cancel", "close", "exited"}
        /\ watch' \in {"off", "parent", "nothing"} /\ parent' \in {"alive", "gone"}
        /\ pipe' \in {"open", "closed"}
    BY <1>3 DEF SE!Next, SE!ServeStep, SE!ParentExits, SE!CloseInput, SE!Signal, SE!PollParent,
       SE!ReadLine, SE!LongLine, SE!ForceExit, SE!StartServing, SE!HandleMessage, SE!Shutdown,
       SE!EndStaleSessions, SE!Unlist, SE!Cancel, SE!CloseService, SE!Upkeep, SE!Idle,
       SE!StartSession, SE!Goto, SE!TypeOK
  <2>3. cancelled' \in BOOLEAN /\ stuck' \in BOOLEAN /\ listed' \in BOOLEAN
    BY <1>3 DEF SE!Next, SE!ServeStep, SE!ParentExits, SE!CloseInput, SE!Signal, SE!PollParent,
       SE!ReadLine, SE!LongLine, SE!ForceExit, SE!StartServing, SE!HandleMessage, SE!Shutdown,
       SE!EndStaleSessions, SE!Unlist, SE!Cancel, SE!CloseService, SE!Upkeep, SE!Idle,
       SE!StartSession, SE!TypeOK
  <2> QED BY <2>1, <2>2, <2>3 DEF SE!TypeOK
<1> QED BY <1>1, <1>2, <1>3
-----------------------------------------------------------------------------
(* EmbedderRuntime.  The embedders of one kind that are open: refs counts    *)
(* them, so nothing is released under one and nothing is kept without one.   *)
Holding(l) == {e \in ER!Embedders : emb[e].state = "open" /\ emb[e].legacy = l}
RefsCount == \A l \in BOOLEAN : refs[l] = Cardinality(Holding(l))

(* Only the configured embedder may be of the v2 pipeline, and the tokenizer *)
(* loaded for that pipeline is the one the embedder is labelled by.          *)
OnlyOwnIsV2 ==
  /\ \A e \in ER!Embedders : e # erOwn => emb[e].legacy
  /\ \A e \in ER!Embedders : emb[e].legacy => emb[e].pipeline = "legacy"
LoadedIsLabelled ==
  ~emb[erOwn].legacy /\ tokenizers[FALSE] # ER!NoTokenizer =>
    tokenizers[FALSE] = emb[erOwn].pipeline

(* The type invariant in parts that a prover can take one at a time.         *)
ERFlags ==
  /\ vocabFile \in BOOLEAN /\ erSession \in BOOLEAN /\ idleAfter \in BOOLEAN
  /\ quiet \in BOOLEAN /\ used \in BOOLEAN
ERStates ==
  /\ tokenizerFile \in {"absent", "bad", "good"} /\ idle \in {"nil", "armed", "stopped"}
  /\ emb \in [ER!Embedders -> [state : {"none", "open", "closed"}, legacy : BOOLEAN,
                               pipeline : {"legacy", "hf", "vocab"}]]
  /\ tokenizers \in [BOOLEAN -> {ER!NoTokenizer, "hf", "greedy", "vocab"}]
ERCounts ==
  /\ refs \in [BOOLEAN -> Nat]
  /\ fired \in Nat /\ embeds \in 0 .. MaxEmbeds /\ erFails \in 0 .. erMaxFails

ERInv ==
  /\ ERFlags /\ ERStates /\ ERCounts /\ RefsCount /\ OnlyOwnIsV2 /\ LoadedIsLabelled
  /\ ER!VectorsAreTheirLabels /\ ER!ClosedHoldsNothing

(* The parts are the type invariant.                                         *)
LEMMA ERTypes == ER!TypeOK <=> ERFlags /\ ERStates /\ ERCounts
BY DEF ER!TypeOK, ERFlags, ERStates, ERCounts

(* A count that goes up, or down from more than zero, is a count.            *)
LEMMA Counting ==
  ASSUME NEW S, NEW f \in [S -> Nat], NEW x \in S
  PROVE  /\ [f EXCEPT ![x] = @ + 1] \in [S -> Nat]
         /\ [f EXCEPT ![x] = @ + 1][x] > 0
OBVIOUS

(* A set of embedders is finite: they are the configured one and siblings.   *)
LEMMA HoldingFinite ==
  \A l \in BOOLEAN : IsFiniteSet(Holding(l)) /\ Cardinality(Holding(l)) \in Nat
<1>1. IsFiniteSet({erOwn} \cup Siblings)
  BY FS_AddElement, ServeAssumption, {erOwn} \cup Siblings = Siblings \cup {erOwn}
<1>2. \A l \in BOOLEAN : Holding(l) \in SUBSET ({erOwn} \cup Siblings)
  BY DEF Holding, ER!Embedders
<1> QED BY <1>1, <1>2, FS_Subset, FS_CardinalityType

(* One embedder is open when the process starts: the configured one.         *)
LEMMA ERInit == ER!Init => ERInv
<1> SUFFICES ASSUME ER!Init PROVE ERInv
  OBVIOUS
<1> USE DEF ER!Init
<1>1. PICK legacy \in BOOLEAN :
        /\ emb = [e \in ER!Embedders |->
             IF e = erOwn
             THEN [state |-> "open", legacy |-> legacy,
                   pipeline |-> ER!expectedONNXPipeline(legacy)]
             ELSE [state |-> "none", legacy |-> TRUE, pipeline |-> "legacy"]]
        /\ refs = [l \in BOOLEAN |-> IF l = legacy THEN 1 ELSE 0]
  OBVIOUS
<1>2. ER!expectedONNXPipeline(legacy) \in {"legacy", "hf", "vocab"}
      /\ (legacy => ER!expectedONNXPipeline(legacy) = "legacy")
  BY DEF ER!expectedONNXPipeline
<1>3. ERFlags /\ ERStates /\ ERCounts
  <2>1. ERFlags
    BY DEF ERFlags
  <2>2. ERStates
    BY <1>1, <1>2 DEF ERStates, ER!NoTokenizer
  <2>3. ERCounts
    BY <1>1, ServeAssumption DEF ERCounts
  <2> QED BY <2>1, <2>2, <2>3
<1>4. \A l \in BOOLEAN : Holding(l) = IF l = legacy THEN {erOwn} ELSE {}
  BY <1>1 DEF Holding, ER!Embedders
<1>5. RefsCount
  BY <1>1, <1>4, FS_EmptySet, FS_Singleton DEF RefsCount
<1>6. OnlyOwnIsV2 /\ LoadedIsLabelled
  BY <1>1, <1>2 DEF OnlyOwnIsV2, LoadedIsLabelled, ER!Embedders
<1>7. ER!VectorsAreTheirLabels /\ ER!ClosedHoldsNothing
  BY DEF ER!VectorsAreTheirLabels, ER!ClosedHoldsNothing, ER!Loaded
<1> QED BY <1>3, <1>5, <1>6, <1>7 DEF ERInv

(* What the counts depend on: the embedders alone.                           *)
LEMMA HoldingKept ==
  ASSUME RefsCount, UNCHANGED <<emb, refs>>
  PROVE  RefsCount'
BY DEF RefsCount, Holding

(* A text is embedded by the tokenizer its embedder's label names.           *)
LEMMA TokenizerIsLabelled ==
  ASSUME ERInv, NEW e \in ER!Embedders, emb[e].state # "none",
         ER!tokenizerLocked(e) # ER!NoTokenizer
  PROVE  /\ ER!tokenizerLocked(e) \in {"hf", "greedy", "vocab"}
         /\ emb[e].pipeline # "legacy" => ER!tokenizerLocked(e) = emb[e].pipeline
         /\ ~emb[e].legacy => e = erOwn /\ ER!tokenizerLocked(e) = emb[e].pipeline
<1> emb[e] \in [state : {"none", "open", "closed"}, legacy : BOOLEAN,
                pipeline : {"legacy", "hf", "vocab"}]
  BY DEF ERInv, ERStates
<1>1. ER!tokenizerLocked(e) \in {"hf", "greedy", "vocab"}
  BY DEF ER!tokenizerLocked, ER!TokenizerOf, ER!LabelOf, ER!NoTokenizer, ERInv, ERStates
<1>2. ~emb[e].legacy => e = erOwn /\ ER!tokenizerLocked(e) = emb[e].pipeline
  BY DEF ER!tokenizerLocked, ER!LabelOf, ERInv, OnlyOwnIsV2, LoadedIsLabelled
<1>3. emb[e].legacy => emb[e].pipeline = "legacy"
  BY DEF ERInv, OnlyOwnIsV2
<1> QED BY <1>1, <1>2, <1>3

(* An embed loads what its label names, and only while an embedder is open.  *)
LEMMA EREmbed ==
  ASSUME ERInv, NEW e \in ER!Embedders, ER!embedSingle(e)
  PROVE  ERInv'
<1> DEFINE tok == ER!tokenizerLocked(e)
<1> USE DEF ER!files, ER!timing, ER!bounds, ER!shared
<1>1. /\ tok \in {"hf", "greedy", "vocab"}
      /\ emb[e].pipeline # "legacy" => tok = emb[e].pipeline
      /\ ~emb[e].legacy => e = erOwn /\ tok = emb[e].pipeline
  BY TokenizerIsLabelled DEF ER!embedSingle
<1> HIDE DEF tok
<1>2. /\ emb[e].legacy \in BOOLEAN /\ tokenizers \in [BOOLEAN -> {"none", "hf", "greedy", "vocab"}]
  BY DEF ERInv, ERStates, ER!NoTokenizer
<1>3. /\ tokenizers' = [tokenizers EXCEPT ![emb[e].legacy] = tok]
      /\ UNCHANGED <<emb, refs, tokenizerFile, vocabFile>>
      /\ ER!openLocked
      /\ made' \in {made, made \cup {[label |-> emb[e].pipeline, tokenizer |-> tok]}}
      /\ embeds < MaxEmbeds /\ embeds' = embeds + 1 /\ UNCHANGED fired
      /\ UNCHANGED erFails \/ (erFails < erMaxFails /\ erFails' = erFails + 1)
  BY Zenon DEF ER!embedSingle, ER!touchLocked, tok
<1>4. ERFlags' /\ ERStates' /\ ERCounts'
  <2>1. ERFlags'
    BY DEF ERFlags, ERInv, ER!embedSingle, ER!touchLocked
  <2>2. idle' \in {"nil", "armed", "stopped"}
    BY DEF ERInv, ERStates, ER!embedSingle, ER!touchLocked
  <2>3. tokenizers' \in [BOOLEAN -> {"none", "hf", "greedy", "vocab"}]
    BY <1>1, <1>2, <1>3
  <2>4. ERStates'
    BY <2>2, <2>3, <1>3 DEF ERStates, ERInv, ER!NoTokenizer, ER!Embedders
  <2>5. ERCounts'
    BY <1>3, ServeAssumption DEF ERCounts, ERInv
  <2> QED BY <2>1, <2>4, <2>5
<1>5. RefsCount' /\ OnlyOwnIsV2'
  BY <1>3, HoldingKept DEF ERInv, OnlyOwnIsV2
<1>6. LoadedIsLabelled'
  BY <1>1, <1>2, <1>3 DEF LoadedIsLabelled, ERInv
<1>7. ER!VectorsAreTheirLabels'
  BY <1>1, <1>3 DEF ER!VectorsAreTheirLabels, ERInv
<1>8. ER!ClosedHoldsNothing'
  BY <1>3 DEF ER!ClosedHoldsNothing, ER!openLocked
<1> QED BY <1>4, <1>5, <1>6, <1>7, <1>8 DEF ERInv

(* The embedder that opens takes a reference.                                *)
LEMMA EROpen ==
  ASSUME ERInv, NEW s \in Siblings, ER!LegacyPipeline(s)
  PROVE  ERInv'
<1> USE DEF ER!files, ER!timing, ER!bounds, ER!shared
<1>1. /\ s \in ER!Embedders /\ erOwn \in ER!Embedders /\ s # erOwn
      /\ emb[s].legacy /\ emb[s].pipeline = "legacy" /\ emb[s].state = "none"
  BY DEF ER!LegacyPipeline, ER!Embedders, ERInv, OnlyOwnIsV2
<1>2. /\ emb' = [emb EXCEPT ![s].state = "open", ![s].pipeline = "legacy"]
      /\ refs' = [refs EXCEPT ![TRUE] = @ + 1]
      /\ UNCHANGED <<tokenizers, made, erSession>>
  BY DEF ER!LegacyPipeline, ER!expectedONNXPipeline
<1>3. emb \in [ER!Embedders -> [state : {"none", "open", "closed"}, legacy : BOOLEAN,
                                pipeline : {"legacy", "hf", "vocab"}]]
      /\ refs \in [BOOLEAN -> Nat]
  BY DEF ERInv, ERStates, ERCounts
<1>4. \A e \in ER!Embedders : /\ emb'[e].legacy = emb[e].legacy
                              /\ emb'[e].pipeline = emb[e].pipeline
                              /\ emb'[e].state = IF e = s THEN "open" ELSE emb[e].state
  BY <1>1, <1>2, <1>3
<1>5. ERFlags' /\ ERStates' /\ ERCounts'
  <2>1. ERFlags'
    BY DEF ERFlags, ERInv, ER!LegacyPipeline
  <2>2. ERStates'
    <3>1. emb' \in [ER!Embedders -> [state : {"none", "open", "closed"}, legacy : BOOLEAN,
                                     pipeline : {"legacy", "hf", "vocab"}]]
      BY <1>2, <1>3
    <3> QED BY <3>1, <1>2 DEF ERStates, ERInv, ER!LegacyPipeline, ER!Embedders
  <2>3. ERCounts'
    <3>1. refs' \in [BOOLEAN -> Nat]
      BY <1>2, <1>3, Counting
    <3> QED BY <3>1 DEF ERCounts, ERInv, ER!LegacyPipeline
  <2> QED BY <2>1, <2>2, <2>3
<1>6. /\ \A l \in BOOLEAN : Holding(l)' = IF l THEN Holding(l) \cup {s} ELSE Holding(l)
      /\ s \notin Holding(TRUE)
  <2>1. Holding(TRUE)' = Holding(TRUE) \cup {s} /\ s \notin Holding(TRUE)
    BY <1>1, <1>4 DEF Holding, ER!Embedders
  <2>2. Holding(FALSE)' = Holding(FALSE)
    <3>1. \A e \in ER!Embedders : emb'[e].state = "open" /\ ~emb'[e].legacy <=> emb[e].state = "open" /\ ~emb[e].legacy
      BY <1>1, <1>4
    <3>2. \A e \in ER!Embedders : emb'[e].legacy \in BOOLEAN /\ emb[e].legacy \in BOOLEAN
      BY <1>3, <1>4
    <3> QED BY <3>1, <3>2 DEF Holding, ER!Embedders
  <2> QED BY <2>1, <2>2
<1>7. RefsCount'
  <2>1. Cardinality(Holding(TRUE) \cup {s}) = Cardinality(Holding(TRUE)) + 1
    BY <1>6, HoldingFinite, FS_AddElement
  <2> QED BY <2>1, <1>2, <1>3, <1>6 DEF RefsCount, ERInv
<1>8. OnlyOwnIsV2' /\ LoadedIsLabelled' /\ ER!VectorsAreTheirLabels'
  <2>1. \A e \in ER!Embedders : emb'[e].legacy = emb[e].legacy /\ emb'[e].pipeline = emb[e].pipeline
    BY <1>1, <1>4
  <2>2. OnlyOwnIsV2'
    BY <1>2, <2>1 DEF OnlyOwnIsV2, ERInv
  <2>3. LoadedIsLabelled'
    BY <1>2, <2>1 DEF LoadedIsLabelled, ERInv, ER!Embedders
  <2> QED BY <1>2, <2>2, <2>3 DEF ER!VectorsAreTheirLabels, ERInv
<1>9. ER!openLocked'
  <2>1. refs'[TRUE] > 0
    BY <1>2, <1>3, Counting
  <2> QED BY <2>1 DEF ER!openLocked
<1> QED BY <1>5, <1>7, <1>8, <1>9 DEF ERInv, ER!ClosedHoldsNothing

(* The last of a kind that closes releases its tokenizer, the last of all    *)
(* the session.                                                              *)
LEMMA ERClose ==
  ASSUME ERInv, NEW e \in ER!Embedders, ER!Close(e)
  PROVE  ERInv'
<1> DEFINE left == [refs EXCEPT ![emb[e].legacy] = @ - 1]
           last1 == \A l \in BOOLEAN : left[l] = 0
<1> USE DEF ER!files, ER!timing, ER!bounds, ER!shared
<1>1. emb \in [ER!Embedders -> [state : {"none", "open", "closed"}, legacy : BOOLEAN,
                                pipeline : {"legacy", "hf", "vocab"}]]
      /\ refs \in [BOOLEAN -> Nat]
  BY DEF ERInv, ERStates, ERCounts
<1>2. /\ emb[e].state = "open" /\ emb' = [emb EXCEPT ![e].state = "closed"] /\ refs' = left
      /\ tokenizers' = [l \in BOOLEAN |->
           IF last1 \/ left[l] = 0 THEN ER!NoTokenizer ELSE tokenizers[l]]
      /\ last1 => erSession' = FALSE
      /\ UNCHANGED made
  BY DEF ER!Close
<1>3. \A d \in ER!Embedders : /\ emb'[d].legacy = emb[d].legacy
                              /\ emb'[d].pipeline = emb[d].pipeline
                              /\ emb'[d].state = IF d = e THEN "closed" ELSE emb[d].state
  BY <1>1, <1>2
<1>4. /\ \A l \in BOOLEAN : Holding(l)' = IF l = emb[e].legacy THEN Holding(l) \ {e} ELSE Holding(l)
      /\ emb[e].legacy \in BOOLEAN /\ e \in Holding(emb[e].legacy)
  BY <1>1, <1>2, <1>3 DEF Holding, ER!Embedders
<1>5. Cardinality(Holding(emb[e].legacy) \ {e}) = Cardinality(Holding(emb[e].legacy)) - 1
  BY <1>4, HoldingFinite, FS_RemoveElement
<1>6. Cardinality(Holding(emb[e].legacy) \ {e}) \in Nat
  BY <1>4, HoldingFinite, FS_RemoveElement, FS_CardinalityType
<1>7. RefsCount' /\ refs' \in [BOOLEAN -> Nat]
  BY <1>1, <1>2, <1>4, <1>5, <1>6 DEF RefsCount, ERInv
<1>8. ERFlags' /\ ERStates' /\ ERCounts'
  <2>1. ERFlags'
    BY DEF ERFlags, ERInv, ER!Close
  <2>2. tokenizers' \in [BOOLEAN -> {ER!NoTokenizer, "hf", "greedy", "vocab"}]
    BY <1>2 DEF ERInv, ERStates
  <2>3. ERStates'
    BY <1>1, <1>2, <2>2 DEF ERStates, ERInv, ER!Close, ER!Embedders
  <2>4. ERCounts'
    BY <1>7 DEF ERCounts, ERInv, ER!Close
  <2> QED BY <2>1, <2>3, <2>4
<1>9. OnlyOwnIsV2' /\ ER!VectorsAreTheirLabels'
  BY <1>2, <1>3 DEF OnlyOwnIsV2, ER!VectorsAreTheirLabels, ERInv
<1>10. LoadedIsLabelled'
  BY <1>2, <1>3 DEF LoadedIsLabelled, ERInv, ER!Embedders
<1>11. ER!ClosedHoldsNothing'
  <2>1. ASSUME ~ER!openLocked' PROVE last1
    <3>1. \A l \in BOOLEAN : refs'[l] \in Nat /\ ~(refs'[l] > 0)
      BY <2>1, <1>7 DEF ER!openLocked
    <3>2. \A l \in BOOLEAN : refs'[l] = 0
      BY <3>1
    <3> QED BY <3>2, <1>2
  <2>2. last1 => \A l \in BOOLEAN : tokenizers'[l] = ER!NoTokenizer
    BY <1>2
  <2>3. last1 => ~ER!Loaded'
    BY <2>2, <1>2 DEF ER!Loaded
  <2> QED BY <2>1, <2>3 DEF ER!ClosedHoldsNothing
<1> QED BY <1>7, <1>8, <1>9, <1>10, <1>11 DEF ERInv

(* The timer and its callback only ever release.                             *)
LEMMA ERTimer ==
  ASSUME ERInv, ER!TimePasses \/ ER!TimerFires \/ ER!unloadIfIdle \/ ER!TokenizerArrives
  PROVE  ERInv'
<1> USE DEF ER!files, ER!timing, ER!bounds, ER!shared
<1>1. /\ UNCHANGED <<emb, refs, made>>
      /\ erSession' \in {erSession, FALSE}
      /\ tokenizers' \in {tokenizers, [l \in BOOLEAN |-> ER!NoTokenizer]}
  BY DEF ER!TimePasses, ER!TimerFires, ER!unloadIfIdle, ER!TokenizerArrives
<1>2. ERFlags' /\ ERStates' /\ ERCounts'
  <2> USE DEF ERInv, ER!TimePasses, ER!TimerFires, ER!unloadIfIdle, ER!TokenizerArrives
  <2>1. ERFlags'
    BY DEF ERFlags
  <2>2. ERStates'
    BY <1>1 DEF ERStates, ER!Embedders
  <2>3. ERCounts'
    BY <1>1 DEF ERCounts
  <2> QED BY <2>1, <2>2, <2>3
<1>3. RefsCount' /\ OnlyOwnIsV2' /\ ER!VectorsAreTheirLabels'
  BY <1>1, HoldingKept DEF ERInv, OnlyOwnIsV2, ER!VectorsAreTheirLabels
<1>4. LoadedIsLabelled'
  BY <1>1 DEF LoadedIsLabelled, ERInv
<1>5. ER!ClosedHoldsNothing'
  BY <1>1 DEF ER!ClosedHoldsNothing, ER!openLocked, ER!Loaded, ERInv, ERFlags
<1> QED BY <1>2, <1>3, <1>4, <1>5 DEF ERInv

(* Whatever the process does, its embedders keep the invariant.              *)
LEMMA ERStep == ERInv /\ [Move]_all => ERInv'
<1> SUFFICES ASSUME ERInv, [Move]_all PROVE ERInv'
  OBVIOUS
<1>1. [ER!Next]_erState
  BY DEF Move, all
<1>2. CASE UNCHANGED erState
  <2>1. UNCHANGED <<tokenizerFile, vocabFile, emb, refs, tokenizers, erSession, idleAfter, idle,
                    quiet, fired, made, used, embeds, erFails>>
    BY <1>2 DEF erState
  <2>2. ERFlags' /\ ERStates' /\ ERCounts' /\ RefsCount'
    BY <2>1, HoldingKept DEF ERInv, ERFlags, ERStates, ERCounts, ER!Embedders
  <2> QED
    BY <2>1, <2>2 DEF ERInv, OnlyOwnIsV2, LoadedIsLabelled, ER!VectorsAreTheirLabels,
       ER!ClosedHoldsNothing, ER!openLocked, ER!Loaded
<1>3. CASE ER!Next
  BY <1>3, EREmbed, EROpen, ERClose, ERTimer DEF ER!Next
<1> QED BY <1>1, <1>2, <1>3
-----------------------------------------------------------------------------
(* EntityLexicon.  What is stored, what a load has read of it and what is    *)
(* known: the watermark and a load in progress never run ahead of the        *)
(* largest rowid there ever was, so a memory inserted after a load read its  *)
(* rows is past them both, or took a used rowid.                             *)
Loads == [pc : {"none", "recent", "keywords", "merge"}, after : Nat, recent : SUBSET Nat,
          words : SUBSET Nat, upto : Nat, recentErr : BOOLEAN, keywordsErr : BOOLEAN]
ELRows ==
  /\ last \in 0 .. MaxInserts /\ purged \in 0 .. MaxDeletes /\ top \in 0 .. last
  /\ DOMAIN rows \subseteq 1 .. top /\ \A r \in DOMAIN rows : rows[r] \in 1 .. last
  /\ reused \subseteq 1 .. last
ELLexicon ==
  /\ keywords \subseteq 1 .. last /\ lastRowID \in 0 .. top
  /\ load \in Loads /\ load.recent \subseteq 1 .. last /\ load.words \subseteq 1 .. last
  /\ load.after <= lastRowID /\ load.upto <= top
ReadIsKnown ==
  load.pc = "merge" =>
    \A r \in DOMAIN rows : load.after < r /\ r <= load.upto => rows[r] \in load.words \cup reused

ELData == ELRows /\ ELLexicon /\ ReadIsKnown /\ EL!KnownToWatermark

(* Who loads: the one that has loadSem, a search that waits for it or the    *)
(* refresh behind the searches.                                              *)
ELTypes ==
  /\ sem \in {EL!Nobody, EL!Worker} \cup Searches
  /\ detect \in [Searches -> {"idle", "loaded", "try", "closed", "wait", "again", "load", "answer"}]
  /\ closer \in {"open", "marked", "cancelled", "waited"}
ELFlags ==
  /\ loaded \in BOOLEAN /\ fresh \in BOOLEAN /\ background \in BOOLEAN /\ store \in BOOLEAN
  /\ failed \in BOOLEAN /\ gaveUp \in [Searches -> BOOLEAN]
ELCounts == detects \in 0 .. MaxDetects /\ elFails \in 0 .. elMaxFails
ELOwner ==
  /\ background <=> sem = EL!Worker
  /\ \A s \in Searches : detect[s] \in {"closed", "again", "load"} => sem = s
  /\ load.pc # "none" => sem = EL!Worker \/ (sem \in Searches /\ detect[sem] = "load")
ELKnows ==
  /\ fresh /\ ~failed => loaded
  /\ \A s \in Searches : detect[s] \in {"try", "closed"} => loaded

ELControl ==
  /\ ELTypes /\ ELFlags /\ ELCounts /\ ELOwner /\ ELKnows
  /\ EL!FirstAnswersKnow /\ EL!NoRefreshAfterClose

ELInv == ELData /\ ELControl

(* The numbers are well founded,                                             *)
LEMMA NatLess == IsWellFoundedOn({ss \in Nat \X Nat : ss[1] < ss[2]}, Nat)
BY NatLessThanWellFounded DEF OpToRel

(* so a set of numbers up to a bound has a largest one.                      *)
LEMMA MaxOf ==
  ASSUME NEW S, S # {}, NEW b \in Nat, S \subseteq 0 .. b
  PROVE  EL!Max(S) \in S /\ \A y \in S : y <= EL!Max(S)
<1> DEFINE R == {ss \in Nat \X Nat : ss[1] < ss[2]}
           T == {n \in 0 .. b : b - n \in S}
<1>1. T \subseteq Nat /\ T # {}
  <2>1. PICK s \in S : TRUE
    OBVIOUS
  <2>2. b - s \in T
    BY <2>1
  <2> QED BY <2>2
<1>2. PICK t \in T : \A u \in T : <<u, t>> \notin R
  <2> HIDE DEF T, R
  <2>1. IsWellFoundedOn(R, Nat)
    BY NatLess DEF R
  <2> QED BY <2>1, <1>1, WFMin
<1>3. b - t \in S /\ \A y \in S : y <= b - t
  <2>1. ASSUME NEW y \in S PROVE y <= b - t
    <3>1. b - y \in T
      BY <2>1
    <3>2. <<b - y, t>> \notin R
      BY <3>1, <1>2
    <3> QED BY <3>2, <1>1, <1>2
  <2> QED BY <2>1
<1> QED BY <1>3 DEF EL!Max

(* The larger of two numbers.                                                *)
LEMMA MaxOfTwo ==
  ASSUME NEW a \in Nat, NEW b \in Nat
  PROVE  EL!Max({a, b}) = IF a >= b THEN a ELSE b
<1>1. EL!Max({a, b}) \in {a, b} /\ \A y \in {a, b} : y <= EL!Max({a, b})
  BY MaxOf, {a, b} \subseteq 0 .. (a + b), a + b \in Nat
<1> QED BY <1>1

(* A new row comes after all there are.                                      *)
LEMMA Largest ==
  ASSUME ELRows
  PROVE  /\ EL!LargestRowID \in 0 .. top
         /\ \A r \in DOMAIN rows : r <= EL!LargestRowID
<1>1. CASE DOMAIN rows = {}
  BY <1>1 DEF EL!LargestRowID, ELRows
<1>2. CASE DOMAIN rows # {}
  <2>1. DOMAIN rows \subseteq 0 .. top /\ top \in Nat
    BY DEF ELRows
  <2>2. EL!Max(DOMAIN rows) \in DOMAIN rows /\ \A r \in DOMAIN rows : r <= EL!Max(DOMAIN rows)
    BY <1>2, <2>1, MaxOf
  <2> QED BY <1>2, <2>1, <2>2 DEF EL!LargestRowID
<1> QED BY <1>1, <1>2

(* Nothing is known of nothing.                                              *)
LEMMA ELInit == EL!Init => ELInv
<1> SUFFICES ASSUME EL!Init PROVE ELInv
  OBVIOUS
<1> USE DEF EL!Init
<1>1. DOMAIN rows = {}
  OBVIOUS
<1>2. ELRows /\ EL!KnownToWatermark
  BY <1>1, ServeAssumption DEF ELRows, EL!KnownToWatermark
<1>3. ELLexicon /\ ReadIsKnown
  BY <1>1 DEF ELLexicon, ReadIsKnown, Loads, EL!NoLoad
<1>4. ELTypes /\ ELCounts
  BY ServeAssumption DEF ELTypes, ELCounts
<1>5. ELFlags
  BY DEF ELFlags
<1>6. ELOwner /\ ELKnows /\ EL!FirstAnswersKnow /\ EL!NoRefreshAfterClose
  BY DEF ELOwner, ELKnows, EL!FirstAnswersKnow, EL!NoRefreshAfterClose, EL!NoLoad, EL!Nobody,
     EL!Worker
<1> QED BY <1>2, <1>3, <1>4, <1>5, <1>6 DEF ELInv, ELData, ELControl

-----------------------------------------------------------------------------
(* The data.  A memory that is inserted is past the watermark and the load,  *)
(* or its rowid was used before.                                             *)
LEMMA InsertData ==
  ASSUME ELData, EL!Insert
  PROVE  ELData'
<1> DEFINE new == EL!LargestRowID + 1
<1> USE ServeAssumption DEF EL!lexicon, EL!closing
<1>1. /\ last' = last + 1 /\ last' \in 0 .. MaxInserts
      /\ DOMAIN rows' = DOMAIN rows \cup {new}
      /\ \A r \in DOMAIN rows' : rows'[r] = IF r = new THEN last + 1 ELSE rows[r]
      /\ reused' = IF new <= top THEN reused \cup {last + 1} ELSE reused
      /\ top' = EL!Max({top, new})
      /\ UNCHANGED <<purged, keywords, lastRowID, load>>
  BY DEF EL!Insert, ELData, ELRows
<1>2. last \in Nat /\ top \in 0 .. last /\ new \in 1 .. top + 1 /\ new \notin DOMAIN rows
  BY Largest DEF ELData, ELRows
<1> HIDE DEF new
<1>3. top' = IF top >= new THEN top ELSE new
  BY <1>1, <1>2, MaxOfTwo
<1>4. top' \in 0 .. last' /\ top' >= top /\ top' >= new /\ (new > top \/ last + 1 \in reused')
  BY <1>1, <1>2, <1>3
<1>5. ELRows'
  <2>1. DOMAIN rows' \subseteq 1 .. top'
    BY <1>1, <1>2, <1>4 DEF ELData, ELRows
  <2>2. \A r \in DOMAIN rows' : rows'[r] \in 1 .. last'
    BY <1>1, <1>2 DEF ELData, ELRows
  <2>3. reused' \subseteq 1 .. last'
    BY <1>1, <1>2 DEF ELData, ELRows
  <2> QED BY <1>1, <1>4, <2>1, <2>2, <2>3 DEF ELData, ELRows
<1>6. ELLexicon'
  BY <1>1, <1>2, <1>4 DEF ELData, ELLexicon, Loads
<1>7. ReadIsKnown'
  BY <1>1, <1>2, <1>4 DEF ELData, ELLexicon, ReadIsKnown, Loads
<1>8. EL!KnownToWatermark'
  BY <1>1, <1>2, <1>4 DEF ELData, ELLexicon, EL!KnownToWatermark
<1> QED BY <1>5, <1>6, <1>7, <1>8 DEF ELData

(* A purge only takes away.                                                  *)
LEMMA PurgeData ==
  ASSUME ELData, NEW r \in DOMAIN rows, EL!Purge(r)
  PROVE  ELData'
<1> USE ServeAssumption DEF EL!lexicon, EL!closing
<1>1. /\ DOMAIN rows' \subseteq DOMAIN rows /\ \A q \in DOMAIN rows' : rows'[q] = rows[q]
      /\ purged' \in 0 .. MaxDeletes
      /\ UNCHANGED <<last, top, reused, keywords, lastRowID, load>>
  BY DEF EL!Purge, ELData, ELRows
<1>2. ELRows'
  BY <1>1 DEF ELData, ELRows
<1>3. ELLexicon' /\ ReadIsKnown' /\ EL!KnownToWatermark'
  BY <1>1 DEF ELData, ELLexicon, ReadIsKnown, EL!KnownToWatermark
<1> QED BY <1>2, <1>3 DEF ELData

(* A step of the readers that neither reads rows nor merges them.            *)
LEMMA QuietData ==
  ASSUME ELData, UNCHANGED <<EL!memories, keywords, lastRowID>>,
         load' \in {load, EL!NoLoad, EL!Begin}
  PROVE  ELData'
<1> USE DEF EL!memories
<1>1. ELRows' /\ EL!KnownToWatermark'
  BY DEF ELData, ELRows, EL!KnownToWatermark
<1>2. /\ EL!NoLoad \in Loads /\ EL!NoLoad.recent = {} /\ EL!NoLoad.words = {}
      /\ EL!NoLoad.after = 0 /\ EL!NoLoad.upto = 0 /\ EL!NoLoad.pc = "none"
  BY DEF EL!NoLoad, Loads
<1>3. /\ EL!Begin \in Loads /\ EL!Begin.recent = {} /\ EL!Begin.words = {}
      /\ EL!Begin.after = lastRowID /\ EL!Begin.upto = 0 /\ EL!Begin.pc = "recent"
  <2>1. EL!Begin = [EL!NoLoad EXCEPT !.pc = "recent", !.after = lastRowID]
    BY DEF EL!Begin
  <2>2. lastRowID \in Nat
    BY DEF ELData, ELLexicon, ELRows
  <2> QED BY <1>2, <2>1, <2>2 DEF Loads
<1>4. ELLexicon'
  <2>1. CASE load' = load
    BY <2>1 DEF ELData, ELLexicon
  <2>2. CASE load' = EL!NoLoad
    BY <2>2, <1>2 DEF ELData, ELLexicon, ELRows
  <2>3. CASE load' = EL!Begin
    BY <2>3, <1>3 DEF ELData, ELLexicon, ELRows
  <2> QED BY <2>1, <2>2, <2>3
<1>5. ReadIsKnown'
  BY <1>2, <1>3 DEF ELData, ReadIsKnown
<1> QED BY <1>1, <1>4, <1>5 DEF ELData

(* The recent memories are memories.                                         *)
LEMMA RecentData ==
  ASSUME ELData, EL!loadRecent
  PROVE  ELData'
<1> DEFINE some == {rows[r] : r \in EL!Recent}
<1> USE DEF EL!memories, EL!lexicon
<1>1. some \subseteq 1 .. last /\ last \in Nat
  <2>1. EL!Recent \subseteq DOMAIN rows
    BY DEF EL!Recent
  <2> QED BY <2>1 DEF ELData, ELRows
<1>2. \/ load' = [load EXCEPT !.pc = "keywords", !.recent = some]
      \/ load' = [load EXCEPT !.pc = "keywords", !.recentErr = TRUE]
  BY DEF EL!loadRecent
<1>3. UNCHANGED <<rows, last, purged, top, reused, keywords, lastRowID>>
  BY DEF EL!loadRecent
<1> HIDE DEF some
<1>4. /\ load' \in Loads /\ load'.pc = "keywords" /\ load'.recent \subseteq 1 .. last
      /\ load'.words = load.words /\ load'.after = load.after /\ load'.upto = load.upto
  <2>1. load \in Loads /\ load.recent \subseteq 1 .. last
    BY DEF ELData, ELLexicon
  <2>2. some \in SUBSET Nat
    BY <1>1
  <2>3. CASE load' = [load EXCEPT !.pc = "keywords", !.recent = some]
    BY <1>1, <2>1, <2>2, <2>3 DEF Loads
  <2>4. CASE load' = [load EXCEPT !.pc = "keywords", !.recentErr = TRUE]
    BY <2>1, <2>4 DEF Loads
  <2> QED BY <1>2, <2>3, <2>4
<1>5. ELRows' /\ EL!KnownToWatermark'
  BY <1>3 DEF ELData, ELRows, EL!KnownToWatermark
<1>6. ELLexicon' /\ ReadIsKnown'
  BY <1>3, <1>4 DEF ELData, ELLexicon, ReadIsKnown
<1> QED BY <1>5, <1>6 DEF ELData

(* A scan reads the rows past the watermark up to one it reports.            *)
LEMMA KeywordsData ==
  ASSUME ELData, EL!loadKeywords
  PROVE  ELData'
<1> DEFINE words(r) == {rows[q] : q \in {p \in EL!Past : p <= r}}
<1> USE DEF EL!memories, EL!lexicon
<1>1. /\ load \in Loads /\ load.after \in 0 .. top /\ top \in Nat /\ last \in Nat
      /\ EL!Past \cup {load.after} \subseteq 0 .. top
  BY DEF ELData, ELRows, ELLexicon, Loads, EL!Past
<1>2. EL!Max(EL!Past \cup {load.after}) \in EL!Past \cup {load.after}
  BY <1>1, MaxOf
<1>3. PICK r \in EL!Past \cup {load.after}, err \in BOOLEAN : load' = EL!ReadTo(r, err)
  BY <1>2 DEF EL!loadKeywords
<1>4. UNCHANGED <<rows, last, purged, top, reused, keywords, lastRowID>>
  BY DEF EL!loadKeywords
<1>5. words(r) \subseteq 1 .. last
  BY DEF ELData, ELRows, EL!Past
<1>6. /\ load' \in Loads /\ load'.pc = "merge" /\ load'.recent = load.recent
      /\ load'.words = words(r) /\ load'.after = load.after /\ load'.upto = r
  <2>1. load' = [load EXCEPT !.pc = "merge", !.upto = r, !.words = words(r), !.keywordsErr = err]
    BY <1>3 DEF EL!ReadTo
  <2>2. words(r) \in SUBSET Nat /\ r \in Nat
    BY <1>1, <1>5
  <2> HIDE DEF words
  <2> QED BY <1>1, <2>1, <2>2 DEF Loads
<1>7. ELRows' /\ EL!KnownToWatermark'
  BY <1>4 DEF ELData, ELRows, EL!KnownToWatermark
<1>8. ELLexicon'
  BY <1>1, <1>4, <1>5, <1>6 DEF ELData, ELLexicon
<1>9. ReadIsKnown'
  BY <1>4, <1>6 DEF ReadIsKnown, EL!Past
<1> QED BY <1>7, <1>8, <1>9 DEF ELData

(* What a merge adds to the lexicon takes it to the new watermark.           *)
LEMMA MergeData ==
  ASSUME ELData, EL!mergeLexicon
  PROVE  ELData'
<1> USE DEF EL!memories
<1>1. /\ load.pc = "merge" /\ load' = EL!NoLoad
      /\ keywords' = keywords \cup load.words \cup load.recent
      /\ lastRowID' = EL!Max({lastRowID, load.upto})
      /\ UNCHANGED <<rows, last, purged, top, reused>>
  BY DEF EL!mergeLexicon
<1>2. lastRowID \in Nat /\ load.upto \in Nat /\ load.after \in Nat /\ top \in Nat
  BY DEF ELData, ELRows, ELLexicon, Loads
<1>3. lastRowID' = IF lastRowID >= load.upto THEN lastRowID ELSE load.upto
  BY <1>1, <1>2, MaxOfTwo
<1>4. /\ EL!NoLoad \in Loads /\ EL!NoLoad.recent = {} /\ EL!NoLoad.words = {}
      /\ EL!NoLoad.after = 0 /\ EL!NoLoad.upto = 0 /\ EL!NoLoad.pc = "none"
  BY DEF EL!NoLoad, Loads
<1>5. ELRows' /\ ReadIsKnown'
  BY <1>1, <1>4 DEF ELData, ELRows, ReadIsKnown
<1>6. ELLexicon'
  <2>1. keywords' \subseteq 1 .. last'
    BY <1>1 DEF ELData, ELLexicon
  <2>2. lastRowID' \in 0 .. top'
    BY <1>1, <1>2, <1>3 DEF ELData, ELLexicon
  <2> QED BY <1>1, <1>2, <1>4, <2>1, <2>2 DEF ELData, ELLexicon
<1>7. EL!KnownToWatermark'
  <2>1. ASSUME NEW r \in DOMAIN rows, r <= lastRowID'
        PROVE  rows[r] \in keywords \cup load.words \cup reused
    <3>1. r \in Nat
      BY DEF ELData, ELRows
    <3>2. r <= lastRowID \/ (load.after < r /\ r <= load.upto)
      BY <1>2, <1>3, <2>1, <3>1 DEF ELData, ELLexicon
    <3> QED BY <1>1, <3>2 DEF ELData, ReadIsKnown, EL!KnownToWatermark
  <2> QED BY <2>1, <1>1 DEF EL!KnownToWatermark
<1> QED BY <1>5, <1>6, <1>7 DEF ELData

-----------------------------------------------------------------------------
(* The control.  The memories do not disturb it.                             *)
LEMMA QuietControl ==
  ASSUME ELControl, UNCHANGED <<loaded, fresh, sem, load, detect, gaveUp, background, closer, store,
                                failed, detects, elFails>>
  PROVE  ELControl'
BY DEF ELControl, ELTypes, ELFlags, ELCounts, ELOwner, ELKnows, EL!FirstAnswersKnow,
   EL!NoRefreshAfterClose

(* Reading changes how far the load is, not whose it is.                     *)
LEMMA ReadControl ==
  ASSUME ELControl, EL!loadRecent \/ EL!loadKeywords, load \in Loads
  PROVE  ELControl'
<1> USE DEF EL!lexicon, EL!closing
<1>1. UNCHANGED <<loaded, fresh, sem, detect, gaveUp, background, closer, store, failed, detects>>
  BY DEF EL!loadRecent, EL!loadKeywords
<1>2. load.pc # "none"
  BY DEF EL!loadRecent, EL!loadKeywords
<1>3. UNCHANGED elFails \/ (EL!MayFail /\ EL!CountFail)
  BY DEF EL!loadRecent, EL!loadKeywords
<1>4. UNCHANGED elFails \/ (elFails < elMaxFails /\ elFails' = elFails + 1)
  BY <1>3 DEF EL!MayFail, EL!CountFail
<1>5. ELCounts'
  BY <1>1, <1>4, ServeAssumption DEF ELControl, ELCounts
<1>6. ELTypes' /\ ELFlags' /\ ELKnows' /\ EL!FirstAnswersKnow' /\ EL!NoRefreshAfterClose'
  BY <1>1 DEF ELControl, ELTypes, ELFlags, ELKnows, EL!FirstAnswersKnow, EL!NoRefreshAfterClose
<1>7. ELOwner'
  BY <1>1, <1>2 DEF ELControl, ELOwner
<1> QED BY <1>5, <1>6, <1>7 DEF ELControl

(* The one that merges hands loadSem back.  It marks its attempt unless it   *)
(* gave up, and then the lexicon is loaded or a load has failed.             *)
LEMMA MergeControl ==
  ASSUME ELControl, EL!mergeLexicon
  PROVE  ELControl'
<1> DEFINE err == load.recentErr \/ load.keywordsErr
<1> USE DEF EL!closing
<1>1. /\ load.pc = "merge" /\ load' = EL!NoLoad /\ sem' = EL!Nobody
      /\ detect' = [s \in Searches |-> IF s = sem THEN "answer" ELSE detect[s]]
      /\ background' = (background /\ sem # EL!Worker)
      /\ UNCHANGED <<gaveUp, closer, store, detects, elFails>>
  BY DEF EL!mergeLexicon
<1>2. /\ fresh' = (fresh \/ EL!Stamps)
      /\ failed' = (failed \/ (~EL!CtxEnded /\ err))
      /\ loaded' = (loaded \/ ~err)
  BY DEF EL!mergeLexicon
<1>3. sem = EL!Worker \/ (sem \in Searches /\ detect[sem] = "load")
  BY <1>1 DEF ELControl, ELOwner
<1>5. ELTypes' /\ ELCounts'
  BY <1>1 DEF ELControl, ELTypes, ELCounts
<1>6. ELFlags'
  BY <1>1, <1>2 DEF ELControl, ELFlags
<1>7. ELOwner'
  BY <1>1, ServeAssumption
  DEF ELControl, ELTypes, ELOwner, EL!NoLoad, EL!Nobody, EL!Worker
<1>8. fresh' /\ ~failed' => loaded'
  BY <1>2 DEF EL!Stamps, ELControl, ELKnows
<1>9. loaded => loaded'
  BY <1>2
<1>10. ELKnows'
  BY <1>1, <1>8, <1>9 DEF ELControl, ELKnows
<1>11. EL!FirstAnswersKnow'
  <2>1. ASSUME NEW s \in Searches, ~gaveUp[s], ~failed', s = sem
        PROVE  loaded'
    <3>1. ~EL!CtxEnded
      BY <2>1, ServeAssumption DEF EL!CtxEnded, EL!Worker
    <3> QED BY <3>1, <2>1, <1>2
  <2>2. ~failed' => ~failed
    BY <1>2
  <2> QED BY <2>1, <2>2, <1>1, <1>9 DEF ELControl, EL!FirstAnswersKnow
<1>12. EL!NoRefreshAfterClose'
  BY <1>1 DEF ELControl, EL!NoRefreshAfterClose
<1> QED BY <1>5, <1>6, <1>7, <1>10, <1>11, <1>12 DEF ELControl

(* A search goes on: nobody is loading what another has loadSem for.         *)
LEMMA SearchControl ==
  ASSUME ELControl, NEW s \in Searches, EL!Detect(s) \/ EL!DetectStep(s) \/ EL!GiveUp(s)
  PROVE  ELControl'
<1> USE DEF EL!lexicon, EL!closing
<1> DEFINE Places == {"idle", "loaded", "try", "closed", "wait", "again", "load", "answer"}
<1>1. /\ s # EL!Nobody /\ s # EL!Worker /\ EL!Nobody # EL!Worker
      /\ EL!Begin.pc = "recent"
      /\ detect \in [Searches -> Places] /\ gaveUp \in [Searches -> BOOLEAN]
  BY ServeAssumption DEF EL!Nobody, EL!Worker, EL!Begin, EL!NoLoad, ELControl, ELTypes, ELFlags
<1>2. UNCHANGED <<loaded, fresh, closer, store, failed, elFails>>
  BY DEF EL!Detect, EL!DetectStep, EL!GiveUp, EL!IsLoaded, EL!TryRefresh, EL!Spawn, EL!WaitFirst,
     EL!StopWaiting, EL!LoadFirst, EL!Answer
<1>3. CASE EL!Detect(s)
  <2>1. /\ detect[s] = "idle"
        /\ detect' = [detect EXCEPT ![s] = IF fresh THEN "answer" ELSE "loaded"]
        /\ gaveUp' = [gaveUp EXCEPT ![s] = FALSE]
        /\ UNCHANGED <<sem, load, background>>
    BY <1>3 DEF EL!Detect, EL!Goto
  <2>2. ELCounts'
    BY <1>2, <1>3, ServeAssumption DEF EL!Detect, ELControl, ELCounts
  <2>3. ELTypes' /\ ELFlags'
    BY <1>1, <1>2, <2>1 DEF ELControl, ELTypes, ELFlags
  <2>4. ELOwner'
    BY <1>1, <2>1 DEF ELControl, ELOwner
  <2>5. ELKnows' /\ EL!FirstAnswersKnow' /\ EL!NoRefreshAfterClose'
    BY <1>1, <1>2, <2>1 DEF ELControl, ELKnows, EL!FirstAnswersKnow, EL!NoRefreshAfterClose
  <2> QED BY <2>2, <2>3, <2>4, <2>5 DEF ELControl
<1>4. CASE EL!IsLoaded(s)
  <2>1. /\ detect[s] = "loaded"
        /\ detect' = [detect EXCEPT ![s] = IF loaded THEN "try" ELSE "wait"]
        /\ UNCHANGED <<sem, load, background, gaveUp, detects>>
    BY <1>4 DEF EL!IsLoaded, EL!Goto
  <2>2. ELTypes' /\ ELFlags' /\ ELCounts'
    BY <1>1, <1>2, <2>1 DEF ELControl, ELTypes, ELFlags, ELCounts
  <2>3. ELOwner'
    BY <1>1, <2>1 DEF ELControl, ELOwner
  <2>4. ELKnows' /\ EL!FirstAnswersKnow' /\ EL!NoRefreshAfterClose'
    BY <1>1, <1>2, <2>1 DEF ELControl, ELKnows, EL!FirstAnswersKnow, EL!NoRefreshAfterClose
  <2> QED BY <2>2, <2>3, <2>4 DEF ELControl
<1>5. CASE EL!TryRefresh(s)
  <2>1. /\ detect[s] = "try" /\ UNCHANGED <<load, background, gaveUp, detects>>
        /\ \/ /\ sem = EL!Nobody /\ sem' = s /\ detect' = [detect EXCEPT ![s] = "closed"]
           \/ UNCHANGED sem /\ detect' = [detect EXCEPT ![s] = "answer"]
    BY <1>5 DEF EL!TryRefresh, EL!Goto
  <2>2. ELTypes' /\ ELFlags' /\ ELCounts'
    BY <1>1, <1>2, <2>1 DEF ELControl, ELTypes, ELFlags, ELCounts
  <2>3. ELOwner'
    BY <1>1, <2>1, ServeAssumption DEF ELControl, ELOwner, ELTypes, EL!Nobody, EL!Worker
  <2>4. ELKnows' /\ EL!FirstAnswersKnow' /\ EL!NoRefreshAfterClose'
    BY <1>1, <1>2, <2>1 DEF ELControl, ELKnows, EL!FirstAnswersKnow, EL!NoRefreshAfterClose
  <2> QED BY <2>2, <2>3, <2>4 DEF ELControl
<1>6. CASE EL!Spawn(s)
  <2>1. /\ detect[s] = "closed" /\ UNCHANGED <<load, gaveUp, detects>>
        /\ detect' = [detect EXCEPT ![s] = "answer"]
        /\ \/ closer = "open" /\ sem' = EL!Worker /\ background' = TRUE
           \/ sem' = EL!Nobody /\ UNCHANGED background
    BY <1>6 DEF EL!Spawn, EL!Goto
  <2>2. sem = s /\ ~background /\ load.pc = "none"
    BY <1>1, <2>1 DEF ELControl, ELOwner
  <2>3. ELTypes' /\ ELFlags' /\ ELCounts'
    BY <1>1, <1>2, <2>1 DEF ELControl, ELTypes, ELFlags, ELCounts
  <2>4. ELOwner'
    BY <1>1, <2>1, <2>2 DEF ELControl, ELOwner
  <2>5. ELKnows' /\ EL!FirstAnswersKnow' /\ EL!NoRefreshAfterClose'
    BY <1>1, <1>2, <2>1, <2>2 DEF ELControl, ELKnows, EL!FirstAnswersKnow, EL!NoRefreshAfterClose
  <2> QED BY <2>3, <2>4, <2>5 DEF ELControl
<1>7. CASE EL!WaitFirst(s)
  <2>1. /\ detect[s] = "wait" /\ sem = EL!Nobody /\ sem' = s
        /\ detect' = [detect EXCEPT ![s] = "again"]
        /\ UNCHANGED <<load, background, gaveUp, detects>>
    BY <1>7 DEF EL!WaitFirst, EL!Goto
  <2>2. ELTypes' /\ ELFlags' /\ ELCounts'
    BY <1>1, <1>2, <2>1 DEF ELControl, ELTypes, ELFlags, ELCounts
  <2>3. ELOwner'
    BY <1>1, <2>1, ServeAssumption DEF ELControl, ELOwner, ELTypes, EL!Nobody, EL!Worker
  <2>4. ELKnows' /\ EL!FirstAnswersKnow' /\ EL!NoRefreshAfterClose'
    BY <1>1, <1>2, <2>1 DEF ELControl, ELKnows, EL!FirstAnswersKnow, EL!NoRefreshAfterClose
  <2> QED BY <2>2, <2>3, <2>4 DEF ELControl
<1>8. CASE EL!StopWaiting(s)
  <2>1. /\ detect[s] = "wait" /\ gaveUp[s]
        /\ detect' = [detect EXCEPT ![s] = "answer"]
        /\ UNCHANGED <<sem, load, background, gaveUp, detects>>
    BY <1>8 DEF EL!StopWaiting, EL!Goto
  <2>2. ELTypes' /\ ELFlags' /\ ELCounts'
    BY <1>1, <1>2, <2>1 DEF ELControl, ELTypes, ELFlags, ELCounts
  <2>3. ELOwner'
    BY <1>1, <2>1 DEF ELControl, ELOwner
  <2>4. ELKnows' /\ EL!FirstAnswersKnow' /\ EL!NoRefreshAfterClose'
    BY <1>1, <1>2, <2>1 DEF ELControl, ELKnows, EL!FirstAnswersKnow, EL!NoRefreshAfterClose
  <2> QED BY <2>2, <2>3, <2>4 DEF ELControl
<1>9. CASE EL!LoadFirst(s)
  <2>1. /\ detect[s] = "again" /\ UNCHANGED <<background, gaveUp, detects>>
        /\ \/ /\ fresh /\ sem' = EL!Nobody /\ detect' = [detect EXCEPT ![s] = "answer"]
              /\ UNCHANGED load
           \/ /\ load' = EL!Begin /\ detect' = [detect EXCEPT ![s] = "load"] /\ UNCHANGED sem
    BY <1>9 DEF EL!LoadFirst, EL!Goto
  <2>2. sem = s /\ ~background /\ load.pc = "none"
    BY <1>1, <2>1 DEF ELControl, ELOwner
  <2>3. ELTypes' /\ ELFlags' /\ ELCounts'
    BY <1>1, <1>2, <2>1 DEF ELControl, ELTypes, ELFlags, ELCounts
  <2>4. ELOwner'
    BY <1>1, <2>1, <2>2 DEF ELControl, ELOwner
  <2>5. ELKnows' /\ EL!FirstAnswersKnow' /\ EL!NoRefreshAfterClose'
    BY <1>1, <1>2, <2>1 DEF ELControl, ELKnows, EL!FirstAnswersKnow, EL!NoRefreshAfterClose
  <2> QED BY <2>3, <2>4, <2>5 DEF ELControl
<1>10. CASE EL!Answer(s)
  <2>1. /\ detect[s] = "answer" /\ detect' = [detect EXCEPT ![s] = "idle"]
        /\ gaveUp' = [gaveUp EXCEPT ![s] = FALSE]
        /\ UNCHANGED <<sem, load, background, detects>>
    BY <1>10 DEF EL!Answer, EL!Goto
  <2>2. ELTypes' /\ ELFlags' /\ ELCounts'
    BY <1>1, <1>2, <2>1 DEF ELControl, ELTypes, ELFlags, ELCounts
  <2>3. ELOwner'
    BY <1>1, <2>1 DEF ELControl, ELOwner
  <2>4. ELKnows' /\ EL!FirstAnswersKnow' /\ EL!NoRefreshAfterClose'
    BY <1>1, <1>2, <2>1 DEF ELControl, ELKnows, EL!FirstAnswersKnow, EL!NoRefreshAfterClose
  <2> QED BY <2>2, <2>3, <2>4 DEF ELControl
<1>11. CASE EL!GiveUp(s)
  <2>1. /\ gaveUp' = [gaveUp EXCEPT ![s] = TRUE]
        /\ UNCHANGED <<sem, load, detect, background, detects>>
    BY <1>11 DEF EL!GiveUp
  <2>2. ELTypes' /\ ELFlags' /\ ELCounts' /\ ELOwner'
    BY <1>1, <1>2, <2>1 DEF ELControl, ELTypes, ELFlags, ELCounts, ELOwner
  <2>3. ELKnows' /\ EL!FirstAnswersKnow' /\ EL!NoRefreshAfterClose'
    BY <1>1, <1>2, <2>1 DEF ELControl, ELKnows, EL!FirstAnswersKnow, EL!NoRefreshAfterClose
  <2> QED BY <2>2, <2>3 DEF ELControl
<1> QED BY <1>3, <1>4, <1>5, <1>6, <1>7, <1>8, <1>9, <1>10, <1>11 DEF EL!DetectStep

(* The refresh behind the searches begins a load or leaves; Close waits for  *)
(* it; the TTL makes the lexicon stale.                                      *)
LEMMA BehindControl ==
  ASSUME ELControl,
         EL!Refresh \/ EL!TTLPasses \/ EL!CloseStarts \/ EL!CloseGoesOn
  PROVE  ELControl'
<1> USE DEF EL!lexicon, EL!closing
<1>1. UNCHANGED <<loaded, detect, gaveUp, failed, detects, elFails>>
  BY DEF EL!Refresh, EL!TTLPasses, EL!CloseStarts, EL!CloseGoesOn, EL!CloseCancels, EL!CloseWaits,
     EL!CloseStep, EL!StoreCloses
<1>2. CASE EL!Refresh
  <2>1. /\ background /\ sem = EL!Worker /\ load.pc = "none" /\ UNCHANGED <<fresh, closer, store>>
        /\ \/ sem' = EL!Nobody /\ background' = FALSE /\ UNCHANGED load
           \/ load' = EL!Begin /\ UNCHANGED <<sem, background>>
    BY <1>2 DEF EL!Refresh
  <2>2. ELTypes' /\ ELFlags' /\ ELCounts'
    BY <1>1, <2>1 DEF ELControl, ELTypes, ELFlags, ELCounts
  <2>3. ELOwner'
    BY <1>1, <2>1, ServeAssumption DEF ELControl, ELOwner, EL!Nobody, EL!Worker
  <2>4. ELKnows' /\ EL!FirstAnswersKnow' /\ EL!NoRefreshAfterClose'
    BY <1>1, <2>1 DEF ELControl, ELKnows, EL!FirstAnswersKnow, EL!NoRefreshAfterClose
  <2> QED BY <2>2, <2>3, <2>4 DEF ELControl
<1>3. CASE EL!TTLPasses
  <2>1. fresh' = FALSE /\ UNCHANGED <<sem, load, background, closer, store>>
    BY <1>3 DEF EL!TTLPasses
  <2> QED
    BY <1>1, <2>1 DEF ELControl, ELTypes, ELFlags, ELCounts, ELOwner, ELKnows, EL!FirstAnswersKnow,
       EL!NoRefreshAfterClose
<1>4. CASE EL!CloseStarts \/ EL!CloseGoesOn
  <2>1. UNCHANGED <<fresh, sem, load, background>>
    BY <1>4 DEF EL!CloseStarts, EL!CloseGoesOn, EL!CloseCancels, EL!CloseWaits, EL!CloseStep,
       EL!StoreCloses
  <2>2. /\ closer' \in {closer, "marked", "cancelled", "waited"} /\ store' \in {store, FALSE}
        /\ closer' = "waited" => closer = "waited" \/ ~background
    BY <1>4 DEF EL!CloseStarts, EL!CloseGoesOn, EL!CloseCancels, EL!CloseWaits, EL!CloseStep,
       EL!StoreCloses
  <2>3. ELTypes' /\ ELFlags' /\ ELCounts' /\ ELOwner' /\ ELKnows'
    BY <1>1, <2>1, <2>2 DEF ELControl, ELTypes, ELFlags, ELCounts, ELOwner, ELKnows
  <2>4. EL!FirstAnswersKnow' /\ EL!NoRefreshAfterClose'
    BY <1>1, <2>1, <2>2 DEF ELControl, EL!FirstAnswersKnow, EL!NoRefreshAfterClose
  <2> QED BY <2>3, <2>4 DEF ELControl
<1> QED BY <1>2, <1>3, <1>4

(* Whatever the process does, its lexicon keeps the invariant.               *)
LEMMA ELStep == ELInv /\ [Move]_all => ELInv'
<1> SUFFICES ASSUME ELInv, [Move]_all PROVE ELInv'
  OBVIOUS
<1>1. [EL!Next]_elState
  BY DEF Move, all
<1> USE DEF EL!memories, EL!lexicon, EL!closing
<1>2. CASE UNCHANGED elState
  <2>1. UNCHANGED <<rows, last, purged, top, reused, keywords, lastRowID, load>>
        /\ UNCHANGED <<loaded, fresh, sem, load, detect, gaveUp, background, closer, store, failed,
                       detects, elFails>>
    BY <1>2 DEF elState
  <2> QED BY <2>1, QuietData, QuietControl DEF ELInv
<1>3. CASE EL!Insert \/ \E r \in DOMAIN rows : EL!Purge(r)
  <2>1. UNCHANGED <<loaded, fresh, sem, load, detect, gaveUp, background, closer, store, failed,
                    detects, elFails>>
    BY <1>3 DEF EL!Insert, EL!Purge
  <2> QED BY <1>3, <2>1, InsertData, PurgeData, QuietControl DEF ELInv
<1>4. CASE EL!LoadStep
  <2>1. load \in Loads
    BY DEF ELInv, ELData, ELLexicon
  <2> QED BY <1>4, <2>1, RecentData, KeywordsData, MergeData, ReadControl, MergeControl
          DEF EL!LoadStep, ELInv
<1>5. CASE EL!Refresh \/ EL!TTLPasses \/ EL!CloseStarts \/ EL!CloseGoesOn
  <2>1. UNCHANGED <<rows, last, purged, top, reused, keywords, lastRowID>>
        /\ load' \in {load, EL!Begin}
    BY <1>5 DEF EL!Refresh, EL!TTLPasses, EL!CloseStarts, EL!CloseGoesOn, EL!CloseCancels,
       EL!CloseWaits, EL!CloseStep, EL!StoreCloses
  <2> QED BY <1>5, <2>1, QuietData, BehindControl DEF ELInv
<1>6. ASSUME NEW s \in Searches, EL!Detect(s) \/ EL!DetectStep(s) \/ EL!GiveUp(s)
      PROVE  ELInv'
  <2>1. UNCHANGED <<rows, last, purged, top, reused, keywords, lastRowID>>
        /\ load' \in {load, EL!Begin}
    BY <1>6 DEF EL!Detect, EL!DetectStep, EL!GiveUp, EL!IsLoaded, EL!TryRefresh, EL!Spawn,
       EL!WaitFirst, EL!StopWaiting, EL!LoadFirst, EL!Answer
  <2> QED BY <1>6, <2>1, QuietData, SearchControl DEF ELInv
<1> QED BY <1>1, <1>2, <1>3, <1>4, <1>5, <1>6 DEF EL!Next

(* The invariant gives the types.                                            *)
LEMMA ELTypeOK == ELInv => EL!TypeOK
<1> SUFFICES ASSUME ELInv PROVE EL!TypeOK
  OBVIOUS
<1>1. /\ DOMAIN rows \subseteq 1 .. MaxInserts /\ \A r \in DOMAIN rows : rows[r] \in 1 .. last
      /\ last \in 0 .. MaxInserts /\ purged \in 0 .. MaxDeletes /\ top \in 0 .. MaxInserts
      /\ reused \subseteq 1 .. last /\ keywords \subseteq 1 .. last /\ lastRowID \in 0 .. MaxInserts
  BY ServeAssumption DEF ELInv, ELData, ELRows, ELLexicon
<1>2. load.pc \in {"none", "recent", "keywords", "merge"}
  BY DEF ELInv, ELData, ELLexicon, Loads
<1>3. {loaded, fresh, background, store, failed} \subseteq BOOLEAN /\ gaveUp \in [Searches -> BOOLEAN]
  BY DEF ELInv, ELControl, ELFlags
<1> QED BY <1>1, <1>2, <1>3 DEF ELInv, ELControl, ELTypes, ELCounts, EL!TypeOK
-----------------------------------------------------------------------------
(* Indexer.  What the walk holds at each of its stages.                      *)
Walks == {Stopped, Waiting} \cup [pc : {"walk"}, todo : SUBSET Files]
At(stage) == [pc : {stage}, file : Files, todo : SUBSET Files]
Hashed(stage) == [pc : {stage}, file : Files, todo : SUBSET Files, hash : Versions]
Cutting == [pc : {"chunk"}, file : Files, todo : SUBSET Files, hash : Versions,
            read : Versions, start : Nat]
WalkOK == idx \in Walks \cup At("hash") \cup Hashed("read") \cup Cutting \cup Hashed("record")

(* The file is at the version that was hashed, or a newer one was read; once *)
(* the chunks are saved, or the save failed, in that version or a newer one. *)
IsSaved(f, v) == \E w \in Versions : w >= v /\ <<f, w>> \in saved \cup unsaved
HashIsOld ==
  /\ idx.pc = "read" => idx.hash <= disk[idx.file]
  /\ idx.pc = "chunk" => idx.hash <= idx.read /\ idx.start <= Length[idx.read]
  /\ idx.pc = "record" => IsSaved(idx.file, idx.hash)

IXTypes ==
  /\ disk \in [Files -> Versions]
  /\ lastMod \in [Files -> Versions \cup {0}] /\ stored \in [Files -> Versions \cup {0}]
  /\ saved \subseteq Files \X Versions /\ unsaved \subseteq Files \X Versions
  /\ fails \in 0 .. MaxFails

IXInv == IXTypes /\ WalkOK /\ HashIsOld /\ RecordedIsSaved

(* The stage tells what the walk holds.                                      *)
LEMMA Stages ==
  ASSUME WalkOK
  PROVE  /\ idx.pc \in {"stopped", "waiting", "walk", "hash", "read", "chunk", "record"}
         /\ idx.pc = "walk" => idx \in [pc : {"walk"}, todo : SUBSET Files]
         /\ idx.pc = "hash" => idx \in At("hash")
         /\ idx.pc = "read" => idx \in Hashed("read")
         /\ idx.pc = "chunk" => idx \in Cutting
         /\ idx.pc = "record" => idx \in Hashed("record")
BY DEF WalkOK, Walks, At, Hashed, Cutting, Stopped, Waiting

(* A walk that only goes on, or ends, holds no version.                      *)
LEMMA Holds ==
  /\ Stopped \in Walks /\ Waiting \in Walks
  /\ \A s \in SUBSET Files : Walk(s) \in Walks
  /\ \A w \in Walks : w.pc \notin {"hash", "read", "chunk", "record"}
BY DEF Walks, Stopped, Waiting, Walk

(* Nothing is on record when the process starts.                             *)
LEMMA IXInit == Init => IXInv
<1> SUFFICES ASSUME Init PROVE IXInv
  OBVIOUS
<1>1. IXTypes
  BY IndexerAssumption DEF Init, IXTypes
<1>2. WalkOK /\ HashIsOld
  BY Holds DEF Init, WalkOK, HashIsOld
<1>3. RecordedIsSaved
  BY DEF Init, RecordedIsSaved
<1> QED BY <1>1, <1>2, <1>3 DEF IXInv

(* A step that ends, begins or goes on with the walk, and saves nothing.     *)
LEMMA WalkStep ==
  ASSUME IXInv, idx' \in Walks, lastMod' \in [Files -> Versions \cup {0}],
         UNCHANGED <<disk, stored, saved, unsaved>>, fails' \in 0 .. MaxFails
  PROVE  IXInv'
<1>1. IXTypes' /\ WalkOK'
  BY DEF IXInv, IXTypes, WalkOK, Walks, At, Hashed, Cutting, Stopped, Waiting
<1>2. HashIsOld'
  BY Holds DEF HashIsOld
<1>3. RecordedIsSaved'
  BY DEF IXInv, RecordedIsSaved
<1> QED BY <1>1, <1>2, <1>3 DEF IXInv

(* An edit leaves what was hashed behind, never ahead.                       *)
LEMMA EditInv ==
  ASSUME IXInv, NEW f \in Files, Edit(f)
  PROVE  IXInv'
<1> USE IndexerAssumption DEF IXInv, Edit
<1>1. IXTypes'
  BY DEF IXTypes
<1>2. WalkOK' /\ RecordedIsSaved'
  BY DEF WalkOK, Walks, At, Hashed, Cutting, RecordedIsSaved
<1>3. HashIsOld'
  <2>1. disk \in [Files -> Nat] /\ disk' = [disk EXCEPT ![f] = disk[f] + 1]
    BY DEF IXTypes
  <2>2. \A g \in Files : disk[g] \in Nat /\ disk'[g] \in Nat /\ disk'[g] >= disk[g]
    BY <2>1
  <2>3. ASSUME idx.pc = "read" PROVE idx.hash <= disk'[idx.file]
    <3>1. idx.file \in Files /\ idx.hash \in Nat
      BY <2>3, Stages DEF Hashed
    <3>2. idx.hash <= disk[idx.file]
      BY <2>3 DEF HashIsOld
    <3> QED BY <3>1, <3>2, <2>2
  <2> QED BY <2>3 DEF HashIsOld, IsSaved
<1> QED BY <1>1, <1>2, <1>3

(* The walk comes to the next file: it goes on, or looks at the hash.        *)
LEMMA VisitInv ==
  ASSUME IXInv, Visit
  PROVE  IXInv'
<1> USE IndexerAssumption
<1>1. idx \in [pc : {"walk"}, todo : SUBSET Files]
  BY Stages DEF IXInv, Visit
<1>2. CASE idx' \in Walks /\ UNCHANGED lastMod
  BY <1>2, WalkStep DEF Visit, IXInv, IXTypes
<1>3. ASSUME NEW f \in idx.todo, lastMod' = [lastMod EXCEPT ![f] = disk[f]],
             idx' = [pc |-> "hash", file |-> f, todo |-> idx.todo \ {f}]
      PROVE  IXInv'
  <2>1. f \in Files /\ idx.todo \ {f} \in SUBSET Files
    BY <1>1
  <2>2. IXTypes'
    BY <1>3, <2>1 DEF Visit, IXInv, IXTypes
  <2>3. idx' \in At("hash") /\ idx'.pc = "hash"
    BY <1>3, <2>1 DEF At
  <2>4. WalkOK' /\ HashIsOld'
    BY <2>3 DEF WalkOK, HashIsOld
  <2>5. RecordedIsSaved'
    BY DEF Visit, IXInv, RecordedIsSaved
  <2> QED BY <2>2, <2>4, <2>5 DEF IXInv
<1>4. (idx' \in Walks /\ UNCHANGED lastMod)
      \/ \E f \in idx.todo : /\ lastMod' = [lastMod EXCEPT ![f] = disk[f]]
                             /\ idx' = [pc |-> "hash", file |-> f, todo |-> idx.todo \ {f}]
  BY <1>1, Holds DEF Visit
<1> QED BY <1>2, <1>3, <1>4

(* What is hashed is on disk.                                                *)
LEMMA CompareHashInv ==
  ASSUME IXInv, CompareHash
  PROVE  IXInv'
<1> USE IndexerAssumption
<1>1. idx \in At("hash")
  BY Stages DEF IXInv, CompareHash
<1>2. CASE stored[idx.file] = disk[idx.file]
  <2>1. idx' \in Walks
    BY <1>1, <1>2, Holds DEF CompareHash, At
  <2> QED BY <2>1, WalkStep DEF CompareHash, IXInv, IXTypes
<1>3. CASE stored[idx.file] # disk[idx.file]
  <2>1. idx' = [pc |-> "read", file |-> idx.file, todo |-> idx.todo, hash |-> disk[idx.file]]
    BY <1>3 DEF CompareHash
  <2>2. disk[idx.file] \in Versions /\ disk[idx.file] \in Nat
    BY <1>1 DEF IXInv, IXTypes, At
  <2>3. idx' \in Hashed("read") /\ idx'.pc = "read" /\ idx'.hash <= disk[idx'.file]
    BY <1>1, <2>1, <2>2 DEF At, Hashed
  <2>4. WalkOK' /\ HashIsOld'
    BY <2>3 DEF WalkOK, HashIsOld, CompareHash
  <2>5. IXTypes' /\ RecordedIsSaved'
    BY DEF CompareHash, IXInv, IXTypes, RecordedIsSaved
  <2> QED BY <2>4, <2>5 DEF IXInv
<1> QED BY <1>2, <1>3

(* What is read is what was hashed, or newer.                                *)
LEMMA ReadFileInv ==
  ASSUME IXInv, ReadFile
  PROVE  IXInv'
<1> USE IndexerAssumption
<1>1. idx \in Hashed("read") /\ idx.hash <= disk[idx.file]
  BY Stages DEF IXInv, ReadFile, HashIsOld
<1>2. idx' = [pc |-> "chunk", file |-> idx.file, todo |-> idx.todo, hash |-> idx.hash,
              read |-> disk[idx.file], start |-> 0]
  BY DEF ReadFile
<1>3. disk[idx.file] \in Versions /\ Length[disk[idx.file]] \in Nat
  BY <1>1 DEF IXInv, IXTypes, Hashed
<1>4. idx' \in Cutting /\ idx'.pc = "chunk" /\ idx'.hash <= idx'.read
      /\ idx'.start <= Length[idx'.read]
  BY <1>1, <1>2, <1>3 DEF Cutting, Hashed
<1>5. WalkOK' /\ HashIsOld'
  BY <1>4 DEF WalkOK, HashIsOld
<1>6. IXTypes' /\ RecordedIsSaved'
  BY DEF ReadFile, IXInv, IXTypes, RecordedIsSaved
<1> QED BY <1>5, <1>6 DEF IXInv

(* A piece begins within its section, and before the end when the section    *)
(* is longer than a piece and pieces overlap.                                *)
LEMMA NextStartWithin ==
  ASSUME NEW start \in Nat, NEW len \in Nat, len > MaxChars
  PROVE  /\ NextStart(start, len) \in 0 .. len
         /\ Overlap > 0 => NextStart(start, len) < len
BY IndexerAssumption DEF NextStart, Smaller

(* A section is cut from a place within it.                                  *)
LEMMA SplitInv ==
  ASSUME IXInv, Split
  PROVE  IXInv'
<1> USE IndexerAssumption
<1> DEFINE len == Length[idx.read]
<1>1. idx \in Cutting /\ idx.start < len /\ idx.hash <= idx.read
  BY Stages DEF IXInv, Split, HashIsOld
<1>2. len \in Nat /\ idx.start \in Nat
  BY <1>1 DEF Cutting
<1>3. PICK next \in 0 .. len : idx' = [idx EXCEPT !.start = next]
  <2>1. idx' = [idx EXCEPT !.start = IF len <= MaxChars THEN len ELSE NextStart(idx.start, len)]
    BY DEF Split
  <2>2. (IF len <= MaxChars THEN len ELSE NextStart(idx.start, len)) \in 0 .. len
    BY <1>2, NextStartWithin
  <2> QED BY <2>1, <2>2
<1>4. idx' \in Cutting /\ idx'.pc = "chunk" /\ idx'.hash <= idx'.read
      /\ idx'.start <= Length[idx'.read]
  BY <1>1, <1>2, <1>3 DEF Cutting
<1>5. WalkOK' /\ HashIsOld'
  BY <1>4 DEF WalkOK, HashIsOld
<1>6. IXTypes' /\ RecordedIsSaved'
  BY DEF Split, IXInv, IXTypes, RecordedIsSaved
<1> QED BY <1>5, <1>6 DEF IXInv

(* The chunks are saved in the version that was read, or the save fails.     *)
LEMMA SaveChunksInv ==
  ASSUME IXInv, SaveChunks
  PROVE  IXInv'
<1> USE IndexerAssumption
<1>1. idx \in Cutting /\ idx.hash <= idx.read
  BY Stages DEF IXInv, SaveChunks, HashIsOld
<1>2. idx' = [pc |-> "record", file |-> idx.file, todo |-> idx.todo, hash |-> idx.hash]
  BY DEF SaveChunks
<1>3. idx' \in Hashed("record") /\ idx'.pc = "record" /\ idx'.file = idx.file
      /\ idx'.hash = idx.hash
  BY <1>1, <1>2 DEF Cutting, Hashed
<1>4. IXTypes'
  BY <1>1 DEF SaveChunks, IXInv, IXTypes, Cutting
<1>5. saved \cup unsaved \subseteq saved' \cup unsaved'
  BY DEF SaveChunks
<1>6. <<idx.file, idx.read>> \in saved' \cup unsaved'
  BY DEF SaveChunks
<1>7. WalkOK' /\ HashIsOld'
  BY <1>1, <1>3, <1>6 DEF WalkOK, HashIsOld, IsSaved, Cutting
<1>8. RecordedIsSaved'
  BY <1>5 DEF SaveChunks, IXInv, RecordedIsSaved
<1> QED BY <1>4, <1>7, <1>8 DEF IXInv

(* The hash goes on record when its chunks are saved.                        *)
LEMMA RecordInv ==
  ASSUME IXInv, UpdateIndexedFile
  PROVE  IXInv'
<1> USE IndexerAssumption
<1>1. idx \in Hashed("record") /\ IsSaved(idx.file, idx.hash)
  BY Stages DEF IXInv, UpdateIndexedFile, HashIsOld
<1>2. idx' \in Walks
  BY <1>1, Holds DEF UpdateIndexedFile, Hashed
<1>3. CASE stored' = [stored EXCEPT ![idx.file] = idx.hash] /\ UNCHANGED fails
  <2>1. IXTypes'
    BY <1>1, <1>3 DEF UpdateIndexedFile, IXInv, IXTypes, Hashed
  <2>2. WalkOK' /\ HashIsOld'
    BY <1>2, Holds DEF WalkOK, HashIsOld
  <2>3. RecordedIsSaved'
    BY <1>1, <1>3 DEF UpdateIndexedFile, IXInv, IXTypes, RecordedIsSaved, IsSaved
  <2> QED BY <2>1, <2>2, <2>3 DEF IXInv
<1>4. CASE fails < MaxFails /\ fails' = fails + 1 /\ UNCHANGED stored
  <2>1. fails' \in 0 .. MaxFails
    BY <1>4 DEF IXInv, IXTypes
  <2> QED BY <1>2, <1>4, <2>1, WalkStep DEF UpdateIndexedFile, IXInv, IXTypes
<1> QED BY <1>3, <1>4 DEF UpdateIndexedFile

(* Whatever the indexer does keeps the invariant.                            *)
LEMMA IXStep == IXInv /\ [Move]_all => IXInv'
<1> SUFFICES ASSUME IXInv, [Move]_all PROVE IXInv'
  OBVIOUS
<1>1. [Next]_ixState
  BY DEF Move, all
<1>2. CASE UNCHANGED ixState
  BY <1>2 DEF ixState, vars, IXInv, IXTypes, WalkOK, Walks, At, Hashed, Cutting, HashIsOld, IsSaved,
     RecordedIsSaved
<1>3. ASSUME Start \/ Tick \/ Stop \/ AbortWalk PROVE IXInv'
  <2>1. idx' \in Walks /\ UNCHANGED <<disk, stored, saved, unsaved>>
    BY <1>3, Holds DEF Start, Tick, Stop, AbortWalk
  <2>2. lastMod' \in [Files -> Versions \cup {0}]
    BY <1>3 DEF Start, Tick, Stop, AbortWalk, IXInv, IXTypes
  <2>3. fails' \in 0 .. MaxFails
    BY <1>3, IndexerAssumption DEF Start, Tick, Stop, AbortWalk, IXInv, IXTypes
  <2> QED BY <2>1, <2>2, <2>3, WalkStep
<1>4. CASE Next
  BY <1>3, <1>4, EditInv, VisitInv, CompareHashInv, ReadFileInv, SplitInv, SaveChunksInv,
     RecordInv DEF Next, Step
<1> QED BY <1>1, <1>2, <1>4 DEF ixState

(* The invariant gives the types.                                            *)
LEMMA IXTypeOK == IXInv => TypeOK
<1> SUFFICES ASSUME IXInv PROVE TypeOK
  OBVIOUS
<1>1. idx.pc = "chunk" => idx.start \in 0 .. Length[idx.read]
  BY Stages, IndexerAssumption DEF IXInv, HashIsOld, Cutting
<1> QED BY <1>1, Stages DEF IXInv, IXTypes, TypeOK

-----------------------------------------------------------------------------
(* A section longer than a chunk is cut again and again: every cut begins    *)
(* before its end, which is what the loop waits to reach.                    *)
LongNeverSaved == Overlap > 0 => \A p \in saved : Length[p[2]] <= MaxChars
LongGoesOn ==
  Overlap > 0 /\ idx.pc = "chunk" /\ Length[idx.read] > MaxChars => idx.start < Length[idx.read]
LongInv == LongGoesOn /\ LongNeverSaved

(* So it is never saved: the loop of a long section has no end.              *)
LEMMA LongStep == IXInv /\ LongInv /\ [Move]_all => LongInv'
<1> SUFFICES ASSUME IXInv, LongInv, [Move]_all PROVE LongInv'
  OBVIOUS
<1> USE IndexerAssumption DEF LongInv
<1>1. [Next]_ixState
  BY DEF Move, all
<1>2. CASE UNCHANGED ixState
  BY <1>2 DEF ixState, vars, LongGoesOn, LongNeverSaved
<1>3. CASE ReadFile
  <2>1. idx \in Hashed("read") /\ disk \in [Files -> Versions]
    BY <1>3, Stages DEF IXInv, IXTypes, ReadFile
  <2>2. idx'.read \in Versions /\ idx'.start = 0 /\ saved' = saved
    BY <1>3, <2>1 DEF ReadFile, Hashed
  <2>3. Length[idx'.read] \in Nat
    BY <2>2
  <2> QED BY <2>2, <2>3 DEF LongGoesOn, LongNeverSaved
<1>4. CASE Split
  <2>1. idx \in Cutting
    BY <1>4, Stages DEF IXInv, Split
  <2>2. idx.start \in Nat /\ Length[idx.read] \in Nat
    BY <2>1 DEF Cutting
  <2>3. ASSUME Overlap > 0, Length[idx.read] > MaxChars
        PROVE  idx' = [idx EXCEPT !.start = NextStart(idx.start, Length[idx.read])]
    BY <1>4, <2>2, <2>3 DEF Split
  <2>4. ASSUME Overlap > 0, Length[idx.read] > MaxChars
        PROVE  idx'.start < Length[idx.read]
    BY <2>1, <2>2, <2>3, <2>4, NextStartWithin DEF Cutting
  <2>5. idx'.read = idx.read /\ saved' = saved
    BY <1>4, <2>1 DEF Split, Cutting
  <2> QED BY <2>4, <2>5 DEF LongGoesOn, LongNeverSaved
<1>5. CASE SaveChunks
  <2>1. idx \in Cutting /\ idx'.pc = "record" /\ idx.start >= Length[idx.read]
        /\ saved' \in {saved, saved \cup {<<idx.file, idx.read>>}}
    BY <1>5, Stages DEF IXInv, SaveChunks
  <2>2. idx.start \in Nat /\ Length[idx.read] \in Nat
    BY <2>1 DEF Cutting
  <2>3. Overlap > 0 => Length[idx.read] <= MaxChars
    BY <1>5, <2>1, <2>2 DEF LongGoesOn, SaveChunks
  <2> QED BY <2>1, <2>3 DEF LongGoesOn, LongNeverSaved
<1>6. ASSUME idx'.pc # "chunk" \/ idx' = idx, UNCHANGED saved PROVE LongInv'
  BY <1>6 DEF LongGoesOn, LongNeverSaved
<1>7. CASE (\E f \in Files : Edit(f)) \/ Start \/ Tick \/ Stop \/ AbortWalk
  BY <1>6, <1>7 DEF Edit, Start, Tick, Stop, AbortWalk, Walk, Stopped, Waiting
<1>8. CASE Visit \/ CompareHash \/ UpdateIndexedFile
  BY <1>6, <1>8 DEF Visit, CompareHash, UpdateIndexedFile, Walk, Waiting
<1> QED BY <1>1, <1>2, <1>3, <1>4, <1>5, <1>7, <1>8 DEF Next, Step, ixState

-----------------------------------------------------------------------------
(* The process: the invariants of its components, whichever runs.            *)
ServeInv ==
  /\ focus \in {"vc", "se", "er", "el", "ix"}
  /\ VCInv /\ SE!TypeOK /\ ERInv /\ ELInv /\ IXInv /\ LongInv

(* It holds when the process starts,                                         *)
LEMMA ServeInit == Initial => ServeInv
<1> SUFFICES ASSUME Initial PROVE ServeInv
  OBVIOUS
<1>1. LongInv
  BY DEF Initial, Init, LongInv, LongGoesOn, LongNeverSaved, Stopped
<1> QED BY <1>1, VCInit, SEInit, ERInit, ELInit, IXInit DEF Initial, ServeInv

(* and every step of every component keeps it.                               *)
LEMMA ServeStep == ServeInv /\ [Move]_all => ServeInv'
<1> SUFFICES ASSUME ServeInv, [Move]_all PROVE ServeInv'
  OBVIOUS
<1>1. focus' = focus
  BY DEF Move, all
<1> QED BY <1>1, VCStep, SEStep, ERStep, ELStep, IXStep, LongStep DEF ServeInv

(* so it holds always.                                                       *)
LEMMA ServeAlways == ServeSpec => []ServeInv
BY ServeInit, ServeStep, PTL DEF ServeSpec

(* Every variable of every component stays in its domain.                    *)
THEOREM ServeTyped == ServeSpec => []TypesOK
<1>1. ServeInv => TypesOK
  BY ERTypes, ELTypeOK, IXTypeOK DEF ServeInv, TypesOK, VCInv, ERInv
<1> QED BY <1>1, ServeAlways, PTL

(* Vectors of two spaces never meet, and a vector was made by the tokenizer  *)
(* its pipeline is named after.                                              *)
THEOREM ServeApart == ServeSpec => []SpacesStayApart
<1>1. ServeInv => SpacesStayApart
  BY VCApart DEF ServeInv, SpacesStayApart, ERInv
<1> QED BY <1>1, ServeAlways, PTL

(* A recorded file was saved, the watermark and the closed embedder mean     *)
(* what they say.                                                            *)
THEOREM ServeMarks == ServeSpec => []MarksAreTrue
<1>1. ServeInv => MarksAreTrue
  BY DEF ServeInv, MarksAreTrue, IXInv, ELInv, ELData, ELControl, ERInv
<1> QED BY <1>1, ServeAlways, PTL

(* When chunks overlap, a file with a section longer than a chunk is never   *)
(* saved, however often the indexer meets it.                                *)
THEOREM ServeLong == ServeSpec => []LongNeverSaved
<1>1. ServeInv => LongNeverSaved
  BY DEF ServeInv, LongInv
<1> QED BY <1>1, ServeAlways, PTL
=============================================================================
