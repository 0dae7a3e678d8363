----------------------------- MODULE ContextStore -----------------------------
(***************************************************************************)
(* The context optimizer's store (pkg/context): documents are cut into parts *)
(* and indexed one row at a time; artifacts are stored with their own chunks; *)
(* every process runs an evictor on the shared database.                      *)
(*                                                                         *)
(* A chunk's id is its insertion number; `at` orders chunks by indexed_at.    *)
(* Everything stored up to `horizon` has outlived its hours.                  *)
(***************************************************************************)
EXTENDS Integers, Sequences, FiniteSets

CONSTANTS Docs, Projects, Callers, Evictors,
          PartsOf, \* the parts the chunker makes of a document
          Size,    \* LENGTH(content) of a part
          Cap,     \* LRUCapBytes
          MaxRows  \* bound on insertions

VARIABLES chunks, artifacts, rows, horizon, job, cycle
vars == <<chunks, artifacts, rows, horizon, job, cycle>>

NoJob == [pc |-> "idle"]
Sleep == [pc |-> "idle"]
Init ==
  /\ chunks = {} /\ artifacts = {} /\ rows = 0 /\ horizon = 0
  /\ job = [c \in Callers |-> NoJob]
  /\ cycle = [e \in Evictors |-> Sleep]

(* SUM(LENGTH(content)): a chunk's bytes are told apart by their place in it. *)
Bytes(C) == UNION {{k} \X (1 .. Size[k.part]) : k \in C}
TotalSize(C) == Cardinality(Bytes(C))
Expired(k) == k.at <= horizon
Grew(S) == [e \in Evictors |-> IF "grew" \in DOMAIN S[e] THEN [S[e] EXCEPT !.grew = TRUE] ELSE S[e]]

(* InsertChunk: its own statement.  Every evictor that has measured is told. *)
InsertChunk(part, project, art, at) ==
  /\ rows < MaxRows
  /\ rows' = rows + 1
  /\ chunks' = chunks \cup {[id |-> rows + 1, part |-> part, project |-> project,
                             art |-> art, at |-> at]}
  /\ cycle' = Grew(cycle)

-----------------------------------------------------------------------------
(* IndexContent and IndexRaw: part by part, look the hash up, then insert.   *)
(* Artifact chunks carry no hash, so they are never found.                   *)
IndexStart(c, d, p) ==
  /\ job[c] = NoJob
  /\ job' = [job EXCEPT ![c] = [pc |-> "look", todo |-> PartsOf[d], project |-> p]]
  /\ UNCHANGED <<chunks, artifacts, rows, horizon, cycle>>

Duplicate(part) == \E k \in chunks : k.part = part /\ k.art = 0

Rest(j, pc) == IF Len(j.todo) = 1 THEN NoJob ELSE [j EXCEPT !.pc = pc, !.todo = Tail(j.todo)]

LookUp(c) ==
  /\ job[c].pc = "look"
  /\ job' = [job EXCEPT ![c] = IF Duplicate(Head(job[c].todo)) THEN Rest(@, "look")
                               ELSE [@ EXCEPT !.pc = "insert"]]
  /\ UNCHANGED <<chunks, artifacts, rows, horizon, cycle>>

IndexPart(c) ==
  /\ job[c].pc = "insert"
  /\ InsertChunk(Head(job[c].todo), job[c].project, 0, rows + 1)
  /\ job' = [job EXCEPT ![c] = Rest(@, "look")]
  /\ UNCHANGED <<artifacts, horizon>>

-----------------------------------------------------------------------------
(* AddArtifact: the row first, unless its hash is known, then the chunks,    *)
(* all stamped with the time of the row.  Without TTLHours the row never      *)
(* expires; the chunks take the default.                                      *)
ArtifactStart(c, d, p, ttl) ==
  /\ job[c] = NoJob
  /\ ~\E a \in artifacts : a.doc = d
  /\ job' = [job EXCEPT ![c] = [pc |-> "row", doc |-> d, ttl |-> ttl, project |-> p]]
  /\ UNCHANGED <<chunks, artifacts, rows, horizon, cycle>>

ArtifactRow(c) ==
  LET j == job[c] IN
  /\ j.pc = "row"
  /\ IF \E a \in artifacts : a.doc = j.doc
       THEN job' = [job EXCEPT ![c] = NoJob] /\ UNCHANGED <<artifacts, rows>>
       ELSE /\ rows < MaxRows /\ rows' = rows + 1
            /\ artifacts' = artifacts \cup {[id |-> rows + 1, doc |-> j.doc, ttl |-> j.ttl]}
            /\ job' = [job EXCEPT ![c] = [pc |-> "chunk", art |-> rows + 1, project |-> j.project,
                                          todo |-> PartsOf[j.doc]]]
  /\ UNCHANGED <<chunks, horizon, cycle>>

ArtifactChunk(c) ==
  /\ job[c].pc = "chunk"
  /\ InsertChunk(Head(job[c].todo), job[c].project, job[c].art, job[c].art)
  /\ job' = [job EXCEPT ![c] = Rest(@, "chunk")]
  /\ UNCHANGED <<artifacts, horizon>>

(* An insert fails, the tool is cancelled or the hook is killed: what was     *)
(* inserted stays.                                                            *)
Abandon(c) ==
  /\ job[c] # NoJob
  /\ job' = [job EXCEPT ![c] = NoJob]
  /\ UNCHANGED <<chunks, artifacts, rows, horizon, cycle>>

(* Hours pass.  A job does not last that long.                               *)
Age(t) ==
  /\ t \in (horizon + 1)..rows
  /\ \A c \in Callers : job[c].pc = "chunk" => job[c].art > t
  /\ horizon' = t
  /\ UNCHANGED <<chunks, artifacts, rows, job, cycle>>

-----------------------------------------------------------------------------
(* RunEviction.  PruneExpired, also `artifact prune`.                        *)
Cycle(e, pc, next) == cycle[e].pc = pc /\ cycle' = [cycle EXCEPT ![e] = next]

FindArtifacts(e) ==
  /\ Cycle(e, "idle", [pc |-> "prune", ids |-> {a.id : a \in {x \in artifacts : x.ttl /\ x.id <= horizon}}])
  /\ UNCHANGED <<chunks, artifacts, rows, horizon, job>>

PruneArtifacts(e) ==
  /\ Cycle(e, "prune", [pc |-> "find"])
  /\ chunks' = {k \in chunks : k.art \notin cycle[e].ids}
  /\ artifacts' = {a \in artifacts : a.id \notin cycle[e].ids}
  /\ UNCHANGED <<rows, horizon, job>>

FindExpired(e) ==
  /\ Cycle(e, "find", [pc |-> "expire", ids |-> {k.id : k \in {x \in chunks : Expired(x)}}])
  /\ UNCHANGED <<chunks, artifacts, rows, horizon, job>>

DeleteChunks(ids) == chunks' = {k \in chunks : k.id \notin ids}

DeleteExpired(e) ==
  /\ Cycle(e, "expire", [pc |-> "measure"])
  /\ DeleteChunks(cycle[e].ids)
  /\ UNCHANGED <<artifacts, rows, horizon, job>>

(* GetTotalSize: under the cap, the cycle is over.                           *)
Measure(e) ==
  LET size == TotalSize(chunks) IN
  /\ Cycle(e, "measure", [pc |-> IF size > Cap THEN "pick" ELSE "done", size |-> size, grew |-> FALSE])
  /\ UNCHANGED <<chunks, artifacts, rows, horizon, job>>

(* The same order, stopping before the chunk that brings the size down.      *)
OldestShort(target) ==
  {D \in SUBSET chunks :
     /\ \A k \in D, x \in chunks \ D : k.at <= x.at
     /\ TotalSize(D) < target
     /\ \A x \in chunks \ D : (\A y \in chunks \ D : x.at <= y.at) => TotalSize(D \cup {x}) >= target}

(* The first chunks in indexed_at order that free what is over the cap.      *)
Oldest(target) ==
  {D \in SUBSET chunks :
     /\ \A k \in D, x \in chunks \ D : k.at <= x.at
     /\ TotalSize(D) >= target \/ D = chunks
     /\ \E last \in D : /\ \A k \in D : k.at <= last.at
                        /\ TotalSize(D \ {last}) < target}
Pick(e) ==
  /\ cycle[e].pc = "pick"
  /\ IF chunks = {}
       THEN Cycle(e, "pick", [cycle[e] EXCEPT !.pc = "done"])
       ELSE \E D \in Oldest(cycle[e].size - Cap) :
              Cycle(e, "pick", [pc |-> "evict", ids |-> {k.id : k \in D},
                                size |-> cycle[e].size, grew |-> cycle[e].grew])
  /\ UNCHANGED <<chunks, artifacts, rows, horizon, job>>

Evict(e) ==
  /\ Cycle(e, "evict", [pc |-> "done", size |-> cycle[e].size, grew |-> cycle[e].grew])
  /\ DeleteChunks(cycle[e].ids)
  /\ UNCHANGED <<artifacts, rows, horizon, job>>

(* The next tick, or the process ends in the middle of a cycle.              *)
EndCycle(e) ==
  /\ cycle[e] # Sleep
  /\ cycle' = [cycle EXCEPT ![e] = Sleep]
  /\ UNCHANGED <<chunks, artifacts, rows, horizon, job>>

Next ==
  \/ \E c \in Callers, d \in Docs, p \in Projects :
       IndexStart(c, d, p) \/ \E ttl \in BOOLEAN : ArtifactStart(c, d, p, ttl)
  \/ \E c \in Callers : LookUp(c) \/ IndexPart(c) \/ ArtifactRow(c) \/ ArtifactChunk(c) \/ Abandon(c)
  \/ \E t \in 1..MaxRows : Age(t)
  \/ \E e \in Evictors : \/ FindArtifacts(e) \/ PruneArtifacts(e) \/ FindExpired(e) \/ DeleteExpired(e)
                         \/ Measure(e) \/ Pick(e) \/ Evict(e) \/ EndCycle(e)
Spec == Init /\ [][Next]_vars

-----------------------------------------------------------------------------
TypeOK ==
  /\ \A k \in chunks : k.id \in 1..rows /\ k.at \in 1..k.id /\ k.project \in Projects
  /\ \A a \in artifacts : a.id \in 1..rows /\ a.doc \in Docs
  /\ rows \in 0..MaxRows /\ horizon \in 0..rows

(* When a cycle ends, the chunks fit the cap, unless one was inserted after  *)
(* the cycle measured: whatever another evictor deletes meanwhile             *)
(* (eviction.go:53).                                                          *)
CapHolds ==
  \A e \in Evictors : cycle[e].pc = "done" => cycle[e].grew \/ TotalSize(chunks) <= Cap
================================================================================
