------------------------------ MODULE VectorCache ------------------------------
(***************************************************************************)
(* The vectors one process keeps in memory, and the threads that share them:*)
(* a save that refreshes its memory (sqlite_store.go), the embedding worker *)
(* (PutEmbeddingVector), the thread that binds the process to the active    *)
(* generation (service_embedding_generation.go) and a search                *)
(* (hybrid_search.go).                                                      *)
(*                                                                         *)
(* A generation stands for its semantic space; 0 is none.  Every critical   *)
(* section of VectorCache.mu is one step.  embeddingLock is                 *)
(* embeddingGenerationMu, searchLock is the searcher's generationMu.        *)
(***************************************************************************)
EXTENDS Integers, FiniteSets

CONSTANTS
  Mems,    \* memories
  Gens,    \* embedding generations, positive numbers
  Serves,  \* the generations this process has a pipeline for
  Own,     \* the generation of its configured pipeline
  MaxRev,  \* bound: revisions of a memory
  MaxSwaps \* bound: activations by other processes

VARIABLES
  rev, live, stored, active, swaps,  \* the database
  quant, space,                      \* VectorCache
  identity, served, warm,            \* what searches use; a fill is in flight
  embeddingLock, searchLock,
  saver, worker, binder, search      \* the threads

database == <<rev, live, stored, active, swaps>>
held     == <<quant, space>>
bound    == <<identity, served, warm>>
locks    == <<embeddingLock, searchLock>>
vars     == <<database, held, bound, locks, saver, worker, binder, search>>

None == [rev |-> 0, gen |-> 0, by |-> "none"]
Entry(r, g, who) == [rev |-> r, gen |-> g, by |-> who]
Idle == "idle"

Init ==
  /\ rev = [m \in Mems |-> 1] /\ live = [m \in Mems |-> TRUE]
  /\ active \in Gens \cup {0}
  /\ stored = {<<m, 1, active>> : m \in IF active = 0 THEN {} ELSE Mems}
  /\ swaps = 0
  /\ quant = [m \in Mems |-> None] /\ space = 0
  /\ identity = 0 /\ served = 0 /\ warm = TRUE
  /\ embeddingLock = "free" /\ searchLock = "free"
  /\ saver = [pc |-> Idle, mem |-> CHOOSE m \in Mems : TRUE, act |-> 0, found |-> None]
  /\ worker = [pc |-> Idle, mem |-> CHOOSE m \in Mems : TRUE, vec |-> None]
  /\ binder = [pc |-> "start", gen |-> 0, activate |-> FALSE, vecs |-> quant]
  /\ search = Idle

Covers(g) == \A m \in Mems : live[m] => <<m, rev[m], g>> \in stored

-----------------------------------------------------------------------------
(* A save: its transaction, then the refresh of the memory it wrote.         *)
Save(m) ==
  /\ saver.pc = Idle /\ rev[m] < MaxRev
  /\ rev' = [rev EXCEPT ![m] = @ + 1] /\ live' = [live EXCEPT ![m] = TRUE]
  /\ \E keep \in BOOLEAN : \* a rewrite of the same content may have its vector
       stored' = stored \cup
         {v \in {m} \X {rev[m] + 1} \X Gens : keep /\ <<m, rev[m], v[3]>> \in stored}
  /\ saver' = [saver EXCEPT !.pc = "active", !.mem = m]
  /\ UNCHANGED <<active, swaps, held, bound, locks, worker, binder, search>>

Forget(m) ==
  /\ saver.pc = Idle /\ live[m]
  /\ live' = [live EXCEPT ![m] = FALSE]
  /\ saver' = [saver EXCEPT !.pc = "put", !.mem = m, !.found = None]
  /\ UNCHANGED <<rev, stored, active, swaps, held, bound, locks, worker, binder, search>>

RefreshActive ==
  /\ saver.pc = "active"
  /\ saver' = [saver EXCEPT !.pc = "check", !.act = active]
  /\ UNCHANGED <<database, held, bound, locks, worker, binder, search>>

RefreshCheck ==
  /\ saver.pc = "check"
  /\ saver' = [saver EXCEPT !.pc =
       IF saver.act # 0 /\ space \notin {0, saver.act} THEN Idle ELSE "load"]
  /\ UNCHANGED <<database, held, bound, locks, worker, binder, search>>

(* Without an active generation the row may hold a legacy embedding.         *)
RefreshLoad ==
  LET m == saver.mem IN
  /\ saver.pc = "load"
  /\ \E found \in BOOLEAN :
       /\ saver.act # 0 => found = (<<m, rev[m], saver.act>> \in stored)
       /\ saver' = [saver EXCEPT !.pc = "put", !.found =
         IF found /\ live[m] THEN Entry(rev[m], saver.act, "save") ELSE None]
  /\ UNCHANGED <<database, held, bound, locks, worker, binder, search>>

RefreshPut ==
  /\ saver.pc = "put"
  /\ quant' = [quant EXCEPT ![saver.mem] = saver.found]
  /\ saver' = [saver EXCEPT !.pc = Idle, !.act = 0, !.found = None]
  /\ UNCHANGED <<database, space, bound, locks, worker, binder, search>>

-----------------------------------------------------------------------------
(* The worker: store a vector, project it, and put what was projected.       *)
PutStore(m, g) ==
  /\ worker.pc = Idle /\ embeddingLock = "free" /\ g \in Serves
  /\ \E r \in 1 .. rev[m] :
       /\ <<m, r, g>> \notin stored
       /\ stored' = stored \cup {<<m, r, g>>}
       /\ IF active = g /\ live[m] /\ rev[m] = r
          THEN /\ worker' = [pc |-> "check", mem |-> m, vec |-> Entry(r, g, "worker")]
               /\ embeddingLock' = "worker"
          ELSE UNCHANGED <<worker, embeddingLock>>
  /\ UNCHANGED <<rev, live, active, swaps, held, bound, searchLock, saver, binder, search>>

(* Mutant: the vector is put whatever space the cache holds.                 *)
PutAnySpace ==
  /\ worker.pc = "check"
  /\ worker' = [worker EXCEPT !.pc = "put"]
  /\ UNCHANGED <<database, held, bound, locks, saver, binder, search>>

PutCheck ==
  /\ worker.pc = "check"
  /\ IF space \in {0, worker.vec.gen}
     THEN worker' = [worker EXCEPT !.pc = "put"] /\ UNCHANGED embeddingLock
     ELSE worker' = [worker EXCEPT !.pc = Idle, !.vec = None] /\ embeddingLock' = "free"
  /\ UNCHANGED <<database, held, bound, searchLock, saver, binder, search>>

PutCache ==
  /\ worker.pc = "put"
  /\ quant' = [quant EXCEPT ![worker.mem] = worker.vec]
  /\ worker' = [worker EXCEPT !.pc = Idle, !.vec = None] /\ embeddingLock' = "free"
  /\ UNCHANGED <<database, space, bound, searchLock, saver, binder, search>>

-----------------------------------------------------------------------------
(* Binding: at startup behind the warm gate, later when the active           *)
(* generation is no longer the one served, or to retry a held activation.    *)
Rebind ==
  /\ binder.pc = "start" \/ (binder.pc = Idle /\ active # served)
  /\ binder' = [binder EXCEPT !.gen = active, !.activate = FALSE,
                              !.pc = IF active \in Serves THEN "enable" ELSE "reset"]
  /\ UNCHANGED <<database, held, bound, locks, saver, worker, search>>

(* cache.ReplaceSpace("", nil), then the searcher is told.                   *)
Reset ==
  /\ binder.pc = "reset"
  /\ quant' = [m \in Mems |-> None]
  /\ binder' = [binder EXCEPT !.pc = "unspace"]
  /\ UNCHANGED <<database, space, bound, locks, saver, worker, search>>

ResetSpace ==
  /\ binder.pc = "unspace"
  /\ space' = 0 /\ served' = 0
  /\ binder' = [binder EXCEPT !.pc = "off"]
  /\ UNCHANGED <<database, quant, identity, warm, locks, saver, worker, search>>

TurnOff ==
  /\ binder.pc = "off" /\ searchLock = "free"
  /\ identity' = 0
  /\ binder' = [binder EXCEPT !.pc = "try"]
  /\ UNCHANGED <<database, held, served, warm, locks, saver, worker, search>>

Enable ==
  /\ binder.pc = "enable" /\ searchLock = "free"
  /\ searchLock' = "write"
  /\ binder' = [binder EXCEPT !.pc = "publish"]
  /\ UNCHANGED <<database, held, bound, embeddingLock, saver, worker, search>>

Finished == binder' = [binder EXCEPT !.pc = Idle, !.gen = 0, !.activate = FALSE] /\ warm' = FALSE

(* PublishEmbeddingGeneration: activate if asked and covered, then load.     *)
Publish ==
  /\ binder.pc = "publish" /\ embeddingLock = "free"
  /\ IF binder.activate /\ active # binder.gen
     THEN active' = IF Covers(binder.gen) THEN binder.gen ELSE active
     ELSE UNCHANGED active
  /\ IF active' = binder.gen
     THEN /\ embeddingLock' = "binder"
          /\ binder' = [binder EXCEPT !.pc = "load"]
          /\ UNCHANGED <<searchLock, warm>>
     ELSE searchLock' = "free" /\ Finished /\ UNCHANGED embeddingLock
  /\ UNCHANGED <<rev, live, stored, swaps, held, identity, served, saver, worker, search>>

Load ==
  /\ binder.pc = "load"
  /\ binder' = [binder EXCEPT !.pc = "replace", !.vecs = [m \in Mems |->
       IF live[m] /\ <<m, rev[m], binder.gen>> \in stored
       THEN Entry(rev[m], binder.gen, "load") ELSE None]]
  /\ UNCHANGED <<database, held, bound, locks, saver, worker, search>>

Replace ==
  /\ binder.pc = "replace"
  /\ quant' = binder.vecs
  /\ binder' = [binder EXCEPT !.pc = "space", !.vecs = [m \in Mems |-> None]]
  /\ UNCHANGED <<database, space, bound, locks, saver, worker, search>>

SetSpace ==
  /\ binder.pc = "space"
  /\ space' = binder.gen /\ identity' = binder.gen /\ served' = binder.gen
  /\ embeddingLock' = "free" /\ searchLock' = "free"
  /\ binder' = [binder EXCEPT !.pc = IF binder.activate THEN "done" ELSE "try"]
  /\ UNCHANGED <<database, quant, warm, saver, worker, search>>

(* tryActivateEmbeddingGeneration; the gates are EmbeddingUpgrade's.         *)
TryActivate ==
  /\ binder.pc \in {"try", "done"} \/ (binder.pc = Idle /\ served = active)
  /\ \/ /\ active # Own /\ binder.pc # "done"
        /\ binder' = [binder EXCEPT !.pc = "enable", !.gen = Own, !.activate = TRUE]
        /\ UNCHANGED warm
     \/ binder.pc # Idle /\ Finished
  /\ UNCHANGED <<database, held, identity, served, locks, saver, worker, search>>

-----------------------------------------------------------------------------
(* A search waits for a fill before it takes the read lock, which it holds   *)
(* from the copy of the identity to the end of the scoring.                  *)
SearchStart ==
  /\ search = Idle /\ search' = "wait"
  /\ UNCHANGED <<database, held, bound, locks, saver, worker, binder>>

WaitWarm ==
  /\ search = "wait" /\ ~warm
  /\ search' = "lock"
  /\ UNCHANGED <<database, held, bound, locks, saver, worker, binder>>

(* The caller's context ends first: it scores what is there.                 *)
GiveUpWaiting ==
  /\ search = "wait" /\ warm
  /\ search' = "lock"
  /\ UNCHANGED <<database, held, bound, locks, saver, worker, binder>>

SearchLock ==
  /\ search = "lock" /\ searchLock = "free"
  /\ IF identity = 0 THEN search' = Idle /\ UNCHANGED searchLock
                     ELSE search' = "score" /\ searchLock' = "read"
  /\ UNCHANGED <<database, held, bound, embeddingLock, saver, worker, binder>>

(* Mutant: a fill is awaited under the read lock.                            *)
ScoreAfterWarm ==
  /\ search = "score" /\ ~warm
  /\ search' = Idle /\ searchLock' = "free"
  /\ UNCHANGED <<database, held, bound, embeddingLock, saver, worker, binder>>

Score ==
  /\ search = "score"
  /\ search' = Idle /\ searchLock' = "free"
  /\ UNCHANGED <<database, held, bound, embeddingLock, saver, worker, binder>>

-----------------------------------------------------------------------------
(* The other processes store vectors and activate generations; this one is   *)
(* not told.                                                                 *)
StoreElsewhere(m, g) ==
  /\ <<m, rev[m], g>> \notin stored
  /\ stored' = stored \cup {<<m, rev[m], g>>}
  /\ UNCHANGED <<rev, live, active, swaps, held, bound, locks, saver, worker, binder, search>>

ActivateElsewhere(g) ==
  /\ swaps < MaxSwaps /\ active # g /\ Covers(g)
  /\ active' = g /\ swaps' = swaps + 1
  /\ UNCHANGED <<rev, live, stored, held, bound, locks, saver, worker, binder, search>>

SaverStep  == RefreshActive \/ RefreshCheck \/ RefreshLoad \/ RefreshPut
WorkerStep == PutCheck \/ PutCache
BinderStep ==
  \/ Reset \/ ResetSpace \/ TurnOff \/ Enable \/ Publish \/ Load \/ Replace \/ SetSpace
  \/ Rebind /\ binder.pc = "start"
  \/ TryActivate /\ binder.pc # Idle
SearchStep == WaitWarm \/ SearchLock \/ Score

Next ==
  \/ \E m \in Mems : Save(m) \/ Forget(m)
  \/ \E m \in Mems, g \in Gens : PutStore(m, g) \/ StoreElsewhere(m, g)
  \/ \E g \in Gens : ActivateElsewhere(g)
  \/ SaverStep \/ WorkerStep \/ SearchStep
  \/ Reset \/ ResetSpace \/ TurnOff \/ Enable \/ Publish \/ Load \/ Replace \/ SetSpace
  \/ Rebind \/ TryActivate
  \/ SearchStart \/ GiveUpWaiting

(* Goroutines run, and sync.RWMutex starves neither side: a waiting writer    *)
(* keeps later readers out, the readers it blocked go before the next writer. *)
Fairness ==
  /\ WF_vars(WorkerStep) /\ WF_vars(BinderStep) /\ WF_vars(SearchStep)
  /\ SF_vars(Enable \/ TurnOff) /\ SF_vars(SearchLock)

Spec == Init /\ [][Next]_vars /\ Fairness

-----------------------------------------------------------------------------
Entries == [rev : 0 .. MaxRev, gen : Gens \cup {0}, by : {"none", "save", "worker", "load"}]
TypeOK ==
  /\ rev \in [Mems -> 1 .. MaxRev] /\ live \in [Mems -> BOOLEAN]
  /\ stored \subseteq Mems \X (1 .. MaxRev) \X Gens
  /\ active \in Gens \cup {0} /\ swaps \in 0 .. MaxSwaps
  /\ quant \in [Mems -> Entries] /\ space \in Gens \cup {0}
  /\ identity \in Serves \cup {0} /\ served \in Serves \cup {0} /\ warm \in BOOLEAN
  /\ embeddingLock \in {"free", "worker", "binder"}
  /\ searchLock \in {"free", "read", "write"}

(* While a search scores, the vectors the worker and the binder put are those *)
(* of the space the query was embedded in, unless semantic search is being    *)
(* turned off (space is 0 by then): hybrid_search.go 252-257.                 *)
WorkerNeverMixes ==
  searchLock = "read" /\ space # 0 =>
    /\ space = identity
    /\ \A m \in Mems : quant[m].by \in {"worker", "load"} => quant[m].gen = space

(* Every search ends, whatever binds meanwhile: the wait for a fill comes     *)
(* before the lock under which the fill publishes.                            *)
SearchesEnd == search # Idle ~> search = Idle
================================================================================
