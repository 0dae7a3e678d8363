------------------------------- MODULE Indexer --------------------------------
(***************************************************************************)
(* The indexer of watched files (pkg/memory/indexer.go): started before the    *)
(* server answers, it walks the watched paths, and a file that changed since    *)
(* it was last seen, and whose hash is not the one on record, is cut into       *)
(* chunks that are saved as memories.                                         *)
(*                                                                         *)
(* A version of a file stands for its content, its hash and its time; Length    *)
(* is the length of its one section.                                          *)
(***************************************************************************)
EXTENDS Integers, Sequences, FiniteSets

CONSTANTS Files, Versions, \* 1..n
          Length,   \* of a version's section
          MaxChars, \* maxChunkChars
          Overlap,  \* chunkOverlapChars
          MaxFails

ASSUME IndexerAssumption ==
  /\ Versions \subseteq Nat \ {0} /\ Length \in [Versions -> Nat]
  /\ MaxChars \in Nat /\ Overlap \in 0..MaxChars
  /\ MaxFails \in Nat

VARIABLES disk, lastMod, stored, saved, idx, fails,
          unsaved \* auxiliary: the versions a save failed for
vars == <<disk, lastMod, stored, saved, idx, fails, unsaved>>

Stopped == [pc |-> "stopped"]
Waiting == [pc |-> "waiting"]
Init ==
  /\ disk \in [Files -> Versions]
  /\ lastMod = [f \in Files |-> 0] /\ stored = [f \in Files |-> 0]
  /\ saved = {} /\ idx = Stopped /\ fails = 0 /\ unsaved = {}

Walk(todo) == [pc |-> "walk", todo |-> todo]

(* The user edits a file.                                                    *)
Edit(f) ==
  /\ disk[f] + 1 \in Versions
  /\ disk' = [disk EXCEPT ![f] = @ + 1]
  /\ UNCHANGED <<lastMod, stored, saved, idx, fails, unsaved>>

(* Start, in the process that is about to serve.                             *)
Start ==
  /\ idx = Stopped
  /\ idx' = Walk(Files) /\ lastMod' = [f \in Files |-> 0]
  /\ UNCHANGED <<disk, stored, saved, fails, unsaved>>

(* The ticker of the polling goroutine.                                      *)
Tick ==
  /\ idx = Waiting
  /\ idx' = Walk(Files)
  /\ UNCHANGED <<disk, lastMod, stored, saved, fails, unsaved>>

(* Stop, or the process ends.                                                *)
Stop ==
  /\ idx # Stopped
  /\ idx' = Stopped
  /\ UNCHANGED <<disk, lastMod, stored, saved, fails, unsaved>>

(* maybeIndexFile: by its time,                                              *)
Seen(f) == lastMod[f] >= disk[f]

Visit ==
  /\ idx.pc = "walk"
  /\ IF idx.todo = {} THEN idx' = Waiting /\ UNCHANGED lastMod
     ELSE \E f \in idx.todo :
            IF Seen(f) THEN idx' = Walk(idx.todo \ {f}) /\ UNCHANGED lastMod
            ELSE /\ lastMod' = [lastMod EXCEPT ![f] = disk[f]]
                 /\ idx' = [pc |-> "hash", file |-> f, todo |-> idx.todo \ {f}]
  /\ UNCHANGED <<disk, stored, saved, fails, unsaved>>

(* then by its hash.                                                         *)
CompareHash ==
  /\ idx.pc = "hash"
  /\ idx' = IF stored[idx.file] = disk[idx.file] THEN Walk(idx.todo)
            ELSE [pc |-> "read", file |-> idx.file, todo |-> idx.todo, hash |-> disk[idx.file]]
  /\ UNCHANGED <<disk, lastMod, stored, saved, fails, unsaved>>

(* The hash goes on record before the chunks are saved.                       *)
ReadFileRecorded ==
  /\ idx.pc = "read"
  /\ stored' = [stored EXCEPT ![idx.file] = idx.hash]
  /\ idx' = [pc |-> "chunk", file |-> idx.file, todo |-> idx.todo, hash |-> idx.hash,
             read |-> disk[idx.file], start |-> 0]
  /\ UNCHANGED <<disk, lastMod, saved, fails, unsaved>>

ReadFile ==
  /\ idx.pc = "read"
  /\ idx' = [pc |-> "chunk", file |-> idx.file, todo |-> idx.todo, hash |-> idx.hash,
             read |-> disk[idx.file], start |-> 0]
  /\ UNCHANGED <<disk, lastMod, stored, saved, fails, unsaved>>

(* A file that cannot be read, or a database that is locked, ends the walk.    *)
AbortWalk ==
  /\ idx.pc \in {"hash", "read"} /\ fails < MaxFails
  /\ fails' = fails + 1 /\ idx' = Waiting
  /\ UNCHANGED <<disk, lastMod, stored, saved, unsaved>>

(* chunkMarkdown: a section that is too long is cut into pieces that overlap.   *)
Smaller(a, b) == IF a < b THEN a ELSE b

(* Mutant: neither the end of the section nor the overlap is looked at.       *)
StartAfter(start, len) == start + MaxChars
NextStart(start, len)  == Smaller(start + MaxChars, len) - Overlap

Split ==
  LET len == Length[idx.read] IN
  /\ idx.pc = "chunk" /\ idx.start < len
  /\ idx' = [idx EXCEPT !.start = IF len <= MaxChars THEN len ELSE NextStart(@, len)]
  /\ UNCHANGED <<disk, lastMod, stored, saved, fails, unsaved>>

SaveChunks ==
  /\ idx.pc = "chunk" /\ idx.start >= Length[idx.read]
  /\ \/ saved' = saved \cup {<<idx.file, idx.read>>} /\ UNCHANGED <<fails, unsaved>>
     \/ /\ fails < MaxFails /\ fails' = fails + 1 /\ UNCHANGED saved
        /\ unsaved' = unsaved \cup {<<idx.file, idx.read>>}
  /\ idx' = [pc |-> "record", file |-> idx.file, todo |-> idx.todo, hash |-> idx.hash]
  /\ UNCHANGED <<disk, lastMod, stored>>

(* An error of the last write is logged, and the walk goes on.               *)
UpdateIndexedFile ==
  /\ idx.pc = "record"
  /\ \/ stored' = [stored EXCEPT ![idx.file] = idx.hash] /\ UNCHANGED fails
     \/ fails < MaxFails /\ fails' = fails + 1 /\ UNCHANGED stored
  /\ idx' = Walk(idx.todo)
  /\ UNCHANGED <<disk, lastMod, saved, unsaved>>

Step == Visit \/ CompareHash \/ ReadFile \/ Split \/ SaveChunks \/ UpdateIndexedFile
Next == (\E f \in Files : Edit(f)) \/ Start \/ Tick \/ Stop \/ Step \/ AbortWalk
Fairness == WF_vars(Step)
Spec == Init /\ [][Next]_vars /\ Fairness

-----------------------------------------------------------------------------
TypeOK ==
  /\ disk \in [Files -> Versions]
  /\ \A f \in Files : lastMod[f] \in Versions \cup {0} /\ stored[f] \in Versions \cup {0}
  /\ saved \cup unsaved \subseteq Files \X Versions /\ fails \in 0..MaxFails
  /\ idx.pc \in {"stopped", "waiting", "walk", "hash", "read", "chunk", "record"}
  /\ idx.pc = "chunk" => idx.start \in 0 .. Length[idx.read]

(* A file whose hash is on record was saved, in that version or, when it was    *)
(* edited between hashing and reading, in a newer one; or a save of just such a  *)
(* version failed, which indexFile only logs (indexer.go:238): a file   *)
(* that could not be read, or not be put on record, is not taken for indexed.   *)
RecordedIsSaved ==
  \A f \in Files : stored[f] # 0 =>
    \E v \in Versions : v >= stored[f] /\ <<f, v>> \in saved \cup unsaved

(* Start "performs initial indexing of all watched paths, then starts a         *)
(* background goroutine that polls for changes" (indexer.go:69).               *)
StartReturns == (idx.pc = "walk") ~> (idx.pc \in {"waiting", "stopped"})
================================================================================
