------------------------------- MODULE Projects -------------------------------
(***************************************************************************)
(* Projects: a directory is resolved to a row by the path of its repository, *)
(* memories and triples are filed under the row, and `project consolidate`   *)
(* folds the rows that older versions made for linked worktrees               *)
(* (pkg/project, pkg/kg).                                                    *)
(*                                                                         *)
(* A row is a memory, a triple or a story; `home` is the repository its       *)
(* writer worked in.  A story's table is keyed by the project.                *)
(***************************************************************************)
EXTENDS Integers, FiniteSets

CONSTANTS Dirs, Writers, Operators,
          RootOf,   \* what a linked worktree is a worktree of; else the directory itself
          RemoteOf, \* the origin of a directory; clones share it
          MaxRows   \* bound on rows written

VARIABLES projects, onDisk, rows, nextId, writer, plan
vars == <<projects, onDisk, rows, nextId, writer, plan>>

-----------------------------------------------------------------------------
(* linkedWorktreeRoot: only a linked worktree whose common dir is <repo>/.git *)
(* is redirected; a submodule, a bare repository and a clone are themselves.   *)
Linked(d) == RootOf[d] # d
LinkedWorktreeRoot(d) == IF Linked(d) THEN {RootOf[d]} ELSE {}
GitRoot(d) == RootOf[d]
At(path) == {p \in projects : p.path = path}

Nothing == [project |-> 0, home |-> "none"]
Row(id, d, key) == [id |-> id, path |-> d, key |-> key]
Numbering(S) == CHOOSE f \in [S -> 1..Cardinality(S)] : \A d, e \in S : d # e => f[d] # f[e]
(* What older versions left: a row per working tree, keyed or not.           *)
Init ==
  /\ onDisk = Dirs
  /\ \E old \in SUBSET Dirs : LET ids == Numbering(old) IN
       /\ projects = {Row(ids[d], d, "legacy") : d \in old}
       /\ rows = {[tbl |-> t, project |-> ids[d], home |-> GitRoot(d)] :
                    t \in {"memory", "story"}, d \in old}
       /\ nextId = Cardinality(old) + 1
  /\ writer = [w \in Writers |-> Nothing]
  /\ plan = [o \in Operators |-> [pc |-> "idle"]]

(* Detect: find the row and renew its key, or insert one; path is unique.    *)
Detect(w, d) ==
  LET root == GitRoot(d) IN
  /\ writer[w] = Nothing /\ d \in onDisk
  /\ IF At(root) # {}
       THEN LET p == CHOOSE q \in At(root) : TRUE IN
            /\ projects' = (projects \ {p}) \cup {[p EXCEPT !.key = RemoteOf[root]]}
            /\ writer' = [writer EXCEPT ![w] = [project |-> p.id, home |-> root]]
            /\ UNCHANGED nextId
       ELSE /\ projects' = projects \cup {Row(nextId, root, RemoteOf[root])}
            /\ writer' = [writer EXCEPT ![w] = [project |-> nextId, home |-> root]]
            /\ nextId' = nextId + 1
  /\ UNCHANGED <<onDisk, rows, plan>>

(* A save, AddTriple or a story rebuild, later, with the id it was given.    *)
Write(w, t) ==
  /\ writer[w] # Nothing /\ Cardinality(rows) < MaxRows
  /\ rows' = {r \in rows : ~(t = "story" /\ r.tbl = t /\ r.project = writer[w].project)}
             \cup {[tbl |-> t, project |-> writer[w].project, home |-> writer[w].home]}
  /\ writer' = [writer EXCEPT ![w] = Nothing]
  /\ UNCHANGED <<projects, onDisk, nextId, plan>>
Leave(w) ==
  /\ writer[w] # Nothing /\ writer' = [writer EXCEPT ![w] = Nothing]
  /\ UNCHANGED <<projects, onDisk, rows, nextId, plan>>
RemoveDir(d) ==
  /\ Linked(d) /\ onDisk' = onDisk \ {d} /\ d \in onDisk
  /\ UNCHANGED <<projects, rows, nextId, writer, plan>>

-----------------------------------------------------------------------------
(* PlanConsolidate: every row whose directory is a linked worktree is merged *)
(* into its repository's row, or moved onto the repository's path.           *)
MergesByRemote(p) ==
  {[from |-> p.id, path |-> q.path, into |-> {q.id}] :
     q \in {x \in projects : x.id < p.id /\ RemoteOf[x.path] = RemoteOf[p.path]}}
MergesOf(p) ==
  {[from |-> p.id, path |-> root,
    into |-> IF At(root) = {} THEN {} ELSE {q.id : q \in At(root)}] :
     root \in IF p.path \in onDisk THEN LinkedWorktreeRoot(p.path) ELSE {}}

Plan(o) ==
  /\ plan[o].pc = "idle"
  /\ plan' = [plan EXCEPT ![o] = [pc |-> "apply", merges |-> UNION {MergesOf(p) : p \in projects}]]
  /\ UNCHANGED <<projects, onDisk, rows, nextId, writer>>

Merges(o) == {m \in plan[o].merges : m.into # {}}
Repaths(o) == {m \in plan[o].merges : m.into = {}}
IntoOf(m) == CHOOSE i \in m.into : TRUE

(* Two rows moved onto one path, or onto a path taken meanwhile: the update  *)
(* fails and the transaction rolls back.                                      *)
Conflict(o) ==
  \/ \E m, k \in Repaths(o) : m # k /\ m.path = k.path
                              /\ \A x \in {m, k} : \E p \in projects : p.id = x.from
  \/ \E m \in Repaths(o) : \E p \in projects : p.path = m.path /\ p.id # m.from

(* UPDATE OR IGNORE keeps the destination's story; the other one is deleted. *)
Moved(r, o) ==
  IF \E m \in Merges(o) : m.from = r.project
  THEN [r EXCEPT !.project = IntoOf(CHOOSE m \in Merges(o) : m.from = r.project)] ELSE r
Survivors(o) ==
  {K \in SUBSET rows :
     LET into(r) == Moved(r, o).project
         story(r) == r.tbl = "story" IN
     /\ \A r \in rows \ K : /\ story(r) /\ Moved(r, o) # r
                            /\ \E s \in K : story(s) /\ into(s) = into(r)
     /\ \A r, s \in K : story(r) /\ story(s) /\ into(r) = into(s) => r = s}

Apply(o) ==
  /\ plan[o].pc = "apply"
  /\ plan' = [plan EXCEPT ![o] = [pc |-> "idle"]]
  /\ IF Conflict(o) THEN UNCHANGED <<projects, rows>>
     ELSE /\ \E K \in Survivors(o) : rows' = {Moved(r, o) : r \in K}
          /\ projects' = {IF \E m \in Repaths(o) : m.from = p.id
                          THEN [p EXCEPT !.path = (CHOOSE m \in Repaths(o) : m.from = p.id).path]
                          ELSE p : p \in {q \in projects : \A m \in Merges(o) : m.from # q.id}}
  /\ UNCHANGED <<onDisk, nextId, writer>>
Forgo(o) ==
  /\ plan[o].pc = "apply" /\ plan' = [plan EXCEPT ![o] = [pc |-> "idle"]] \* a dry run
  /\ UNCHANGED <<projects, onDisk, rows, nextId, writer>>

Next ==
  \/ \E w \in Writers : (\E d \in Dirs : Detect(w, d)) \/ Leave(w)
                        \/ \E t \in {"memory", "triple", "story"} : Write(w, t)
  \/ \E d \in Dirs : RemoveDir(d)
  \/ \E o \in Operators : Plan(o) \/ Apply(o) \/ Forgo(o)
Spec == Init /\ [][Next]_vars

-----------------------------------------------------------------------------
TypeOK ==
  /\ \A p, q \in projects : p.id \in 1..(nextId - 1) /\ (p.path = q.path \/ p.id = q.id => p = q)
  /\ \A r \in rows : r.project \in 1..(nextId - 1) /\ r.home \in Dirs
  /\ \A o \in Operators : plan[o].pc \in {"idle", "apply"}

(* What was written in one repository is never filed under the row of        *)
(* another: clones with one origin and submodules stay apart, whatever was    *)
(* planned before (consolidate.go:64).                                        *)
RepositoriesStayApart ==
  \A r \in rows, p \in projects : p.id = r.project => GitRoot(p.path) = r.home
================================================================================
