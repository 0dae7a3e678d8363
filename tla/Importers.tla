------------------------------ MODULE Importers -------------------------------
(***************************************************************************)
(* Importing the memory of other tools (pkg/importer, cmd/anchored            *)
(* import_cmd.go, helpers.go).  A source is a directory or a database, read in *)
(* phases; what it holds is saved one text at a time, and the imports table     *)
(* says when it was last read.                                                *)
(*                                                                         *)
(* An item is what a source holds: its kind, its text, the directory it is      *)
(* about, the category it names itself, and whether it lies below the path      *)
(* whose modification time RunAll looks at, so that writing it leaves that time  *)
(* alone.                                                                     *)
(***************************************************************************)
EXTENDS Integers, Sequences

CONSTANTS Items,    \* records [src, kind, text, dir, cat, nested, useful]
          Importers, \* processes
          DirToPath, \* what the name of a session directory is taken for
          CategoryOf, \* memory.Categorize
          MaxClock, MaxRecords, MaxFails

VARIABLES present, touched, clock, records, run, saved, fails
vars == <<present, touched, clock, records, run, saved, fails>>

Sources == {i.src : i \in Items}
Idle == [pc |-> "idle"]
None == ""
Init ==
  /\ present = {} /\ saved = {} /\ records = <<>> /\ clock = 1 /\ fails = 0
  /\ touched = [s \in Sources |-> 1]
  /\ run = [r \in Importers |-> Idle]

-----------------------------------------------------------------------------
(* What each importer makes of an item of its source.                        *)
Text(i, cat, dir) == [text |-> i.text, cat |-> cat, dir |-> dir]
MemoryFile(i)   == Text(i, IF i.cat # None THEN i.cat ELSE CategoryOf[i.text], DirToPath[i.dir])
ClaudeFile(i)   == Text(i, "preference", IF i.dir = None THEN None ELSE DirToPath[i.dir])
Settings(i)     == Text(i, "preference", None)
Session(i)      == Text(i, IF i.cat = "summary" THEN "summary" ELSE CategoryOf[i.text],
                        IF i.cwd = None THEN DirToPath[i.dir] ELSE i.cwd)
ProjectRow(i)   == Text(i, "fact", i.dir)
Message(i)      == Text(i, CategoryOf[i.text], i.dir)
Todo(i)         == Text(i, "plan", i.dir)
ProjectConfig(i) == Text(i, "preference", i.dir)
Rule(i)         == Text(i, "preference", None)
McpConfig(i)    == Text(i, "fact", None)
Chunk(i)        == Text(i, "fact", None)

(* The phases of every source, in order.                                      *)
Phases == [claude   |-> <<"memory", "claude", "settings", "session">>,
           opencode |-> <<"project", "message", "todo", "config">>,
           cursor   |-> <<"rule", "mcp", "rules">>,
           devclaw  |-> <<"chunk">>]

SaveOf(i) ==
  CASE i.kind = "memory" -> MemoryFile(i)  [] i.kind = "claude" -> ClaudeFile(i)
    [] i.kind = "settings" -> Settings(i)  [] i.kind = "session" -> Session(i)
    [] i.kind = "project" -> ProjectRow(i) [] i.kind = "message" -> Message(i)
    [] i.kind = "todo" -> Todo(i)          [] i.kind = "config" -> ProjectConfig(i)
    [] i.kind \in {"rule", "rules"} -> Rule(i)
    [] i.kind = "mcp" -> McpConfig(i)      [] i.kind = "chunk" -> Chunk(i)

(* isUsefulClaudeMemory and extractText: what a session says in passing.       *)
Useful(i) == i.kind = "session" => i.useful

-----------------------------------------------------------------------------
(* The other tool writes.                                                    *)
ToolWrites(i) ==
  /\ i \notin present /\ clock < MaxClock
  /\ present' = present \cup {i}
  /\ clock' = clock + 1
  /\ touched' = IF i.nested THEN touched ELSE [touched EXCEPT ![i.src] = clock + 1]
  /\ UNCHANGED <<records, run, saved, fails>>

(* GetLastImport                                                             *)
OfSource(s) == {k \in DOMAIN records : records[k].src = s}
Last(s) == CHOOSE k \in OfSource(s) : \A j \in OfSource(s) : j <= k

(* RunAll: a source is left out when its last import is done and its path has  *)
(* not been touched since.                                                    *)
Unchanged(s) ==
  /\ OfSource(s) # {}
  /\ records[Last(s)].status = "done"
  /\ touched[s] <= records[Last(s)].finished

Check(r, s, force) ==
  /\ run[r] = Idle
  /\ run' = [run EXCEPT ![r] =
       IF ~force /\ Unchanged(s) THEN [pc |-> "skipped", src |-> s, by |-> Last(s)]
       ELSE [pc |-> "create", src |-> s]]
  /\ UNCHANGED <<present, touched, clock, records, saved, fails>>

(* The record of an import says done as soon as it is made.                   *)
RecordDone(s) == [src |-> s, status |-> "done", finished |-> clock, found |-> present,
                  lost |-> {}]

(* CreateImport; `found` remembers what the source held then, `lost` what of it  *)
(* this import could not read or save: the table has no such column.            *)
Record(s) == [src |-> s, status |-> "running", finished |-> 0, found |-> present,
              lost |-> {}]

CreateImport(r) ==
  /\ run[r].pc = "create" /\ Len(records) < MaxRecords
  /\ records' = Append(records, Record(run[r].src))
  /\ run' = [run EXCEPT ![r] = [pc |-> "phase", src |-> @.src, id |-> Len(records) + 1, phase |-> 1]]
  /\ UNCHANGED <<present, touched, clock, saved, fails>>

(* What the importer gives up is counted at best, and the count is not stored. *)
GivesUp(id, S) ==
  /\ fails < MaxFails /\ fails' = fails + 1
  /\ records' = [records EXCEPT ![id].lost = @ \cup S]

(* Import: the items of the next phase are listed, those that can be read: a    *)
(* directory, a file, a row or a line that cannot is passed over,              *)
ListPhase(r) ==
  LET j == run[r]
      all == {i \in present : i.src = j.src /\ i.kind = Phases[j.src][j.phase] /\ Useful(i)}
  IN
  /\ j.pc = "phase" /\ j.phase <= Len(Phases[j.src])
  /\ \E read \in SUBSET all :
       /\ run' = [run EXCEPT ![r] = [pc |-> "save", src |-> j.src, id |-> j.id, phase |-> j.phase,
                                    todo |-> read]]
       /\ \/ read = all /\ UNCHANGED <<records, fails>>
          \/ read # all /\ GivesUp(j.id, all \ read)
  /\ UNCHANGED <<present, touched, clock, saved>>

(* and saved one by one; a save that fails is passed over.                     *)
SaveItem(r) ==
  LET j == run[r] IN
  /\ j.pc = "save"
  /\ IF j.todo = {}
       THEN /\ run' = [run EXCEPT ![r] = [pc |-> "phase", src |-> j.src, id |-> j.id, phase |-> j.phase + 1]]
            /\ UNCHANGED <<records, saved, fails>>
       ELSE \E i \in j.todo :
              /\ run' = [run EXCEPT ![r].todo = @ \ {i}]
              /\ \/ saved' = saved \cup {SaveOf(i)} /\ UNCHANGED <<records, fails>>
                 \/ GivesUp(j.id, {i}) /\ UNCHANGED saved
  /\ UNCHANGED <<present, touched, clock>>

(* A database whose projects cannot be loaded is given up whole.                *)
LoadFails(r) ==
  LET j == run[r] IN
  /\ j.pc = "phase" /\ j.src = "opencode" /\ j.phase = 1
  /\ GivesUp(j.id, {i \in present : i.src = j.src /\ Useful(i)})
  /\ run' = [run EXCEPT ![r].phase = Len(Phases[j.src]) + 1]
  /\ UNCHANGED <<present, touched, clock, saved>>

(* UpdateImport: done, whatever was given up.                                 *)
UpdateImport(r) ==
  LET j == run[r] IN
  /\ j.pc = "phase" /\ j.phase > Len(Phases[j.src])
  /\ records' = [records EXCEPT ![j.id].status = "done", ![j.id].finished = clock]
  /\ run' = [run EXCEPT ![r] = Idle]
  /\ UNCHANGED <<present, touched, clock, saved, fails>>

(* RunAll goes on to its next source, or the process is killed.               *)
Leave(r) ==
  /\ run[r] # Idle
  /\ run' = [run EXCEPT ![r] = Idle]
  /\ UNCHANGED <<present, touched, clock, records, saved, fails>>

Next ==
  \/ \E i \in Items : ToolWrites(i)
  \/ \E r \in Importers : \/ \E s \in Sources, force \in BOOLEAN : Check(r, s, force)
                          \/ CreateImport(r) \/ ListPhase(r) \/ SaveItem(r) \/ LoadFails(r)
                          \/ UpdateImport(r) \/ Leave(r)
Spec == Init /\ [][Next]_vars

-----------------------------------------------------------------------------
TypeOK ==
  /\ present \subseteq Items /\ saved \subseteq {SaveOf(i) : i \in Items}
  /\ clock \in 1..MaxClock /\ fails \in 0..MaxFails
  /\ \A k \in DOMAIN records : records[k].status \in {"running", "done"} /\ records[k].finished \in 0..clock

(* A source is left out only when everything it held when its last import      *)
(* began was saved, but for what that import itself gave up, could not read or   *)
(* not save: an import that was killed is made again, and so is one that ran     *)
(* beside it (importer.go:71).  What was given up is recorded as done like the   *)
(* rest (importer.go:95) and stays out while its source is left alone.          *)
SkippedWasSaved ==
  \A r \in Importers : run[r].pc = "skipped" =>
    LET last == records[run[r].by] IN
    \A i \in last.found : i.src = run[r].src /\ Useful(i) => SaveOf(i) \in saved \/ i \in last.lost
================================================================================
