--------------------------- MODULE CallersProofs ----------------------------
(***************************************************************************)
(* What MCCallers checks of the callers that read before they write holds of   *)
(* every instance: any number of directories, operators, items, machines,      *)
(* projects, servers, batches, memories, threads and sessions, and any bounds. *)
(*                                                                         *)
(* RepositoriesStayApart and DoneMeansDone are not inductive.  Each component   *)
(* gets the state that makes them so: one directory behind every row of        *)
(* projects (PJInv), what an import that runs has still to save (IMInv), and    *)
(* what a machine that syncs has found, sent and still to send (BSInv).  Their  *)
(* conjunction is kept by every step, because a step of one component leaves    *)
(* the others alone.                                                         *)
(*                                                                         *)
(* NothingIsUndone says of single steps what they may not undo, so it needs    *)
(* what is true before each: a note that is still to write is on a thread that  *)
(* takes it (TTInv), what a runner is about to delete was a copy at its check   *)
(* and is one until another touches the two (DRInv), and a Stop hook that       *)
(* saves has seen every text it was shown (HMInv).  For memories, their types   *)
(* are enough (MSInv).                                                       *)
(***************************************************************************)
EXTENDS MCCallers, FiniteSetTheorems, SequenceTheorems, WellFoundedInduction, TLAPS

-----------------------------------------------------------------------------
(* Projects.  Every row stands for one repository from the day it is made:    *)
(* home[id], whatever its path becomes.  What is on its way, a writer with an  *)
(* id or a plan of merges, keeps to it.                                      *)
Filed(home) ==
  /\ DOMAIN home = 1 .. nextId - 1
  /\ \A p \in projects : p.id \in DOMAIN home /\ p.path \in Dirs /\ home[p.id] = RootOf[p.path]
  /\ \A r \in pjRows : r.project \in DOMAIN home /\ r.home = home[r.project]
  /\ \A w \in Writers : writer[w] # PJ!Nothing =>
       writer[w].project \in DOMAIN home /\ writer[w].home = home[writer[w].project]
  /\ \A o \in Operators : plan[o].pc = "apply" => \A m \in plan[o].merges :
       /\ m.from \in DOMAIN home /\ m.path \in Dirs /\ home[m.from] = RootOf[m.path]
       /\ \A i \in m.into : i \in DOMAIN home /\ home[i] = home[m.from]

PJInv ==
  /\ nextId \in Nat \ {0} /\ DOMAIN writer = Writers /\ DOMAIN plan = Operators
  /\ \E home \in [1 .. nextId - 1 -> Dirs] : Filed(home)

(* Rows are filed under the repository they were written in.                 *)
LEMMA PJApart == PJInv => PJ!RepositoriesStayApart
BY DEF PJInv, Filed, PJ!RepositoriesStayApart, PJ!GitRoot

(* The repository of a directory is a directory, and its own repository.      *)
LEMMA Roots ==
  ASSUME NEW d \in Dirs
  PROVE  RootOf[d] \in Dirs /\ RootOf[RootOf[d]] = RootOf[d] /\ PJ!GitRoot(d) = RootOf[d]
BY CallersAssumption DEF PJ!GitRoot

(* Rows of an older version can be numbered.                                 *)
LEMMA Numbered ==
  ASSUME NEW old \in SUBSET Dirs
  PROVE  /\ PJ!Cardinality(old) \in Nat
         /\ PJ!Numbering(old) \in [old -> 1 .. PJ!Cardinality(old)]
         /\ \A d, e \in old : d # e => PJ!Numbering(old)[d] # PJ!Numbering(old)[e]
<1>1. IsFiniteSet(old)
  BY CallersAssumption, FS_Subset
<1>2. PJ!Cardinality(old) = Cardinality(old) /\ Cardinality(old) \in Nat
  BY <1>1, FS_CardinalityType DEF PJ!Cardinality, Cardinality
<1>3. PICK b : b \in Bijection(1 .. Cardinality(old), old)
  BY <1>1, FS_CardinalityType DEF ExistsBijection
<1>4. DEFINE n == [d \in old |-> CHOOSE i \in 1 .. Cardinality(old) : b[i] = d]
<1>5. \A d \in old : n[d] \in 1 .. Cardinality(old) /\ b[n[d]] = d
  BY <1>3 DEF Bijection, Surjection, Injection
<1>6. n \in [old -> 1 .. Cardinality(old)] /\ \A d, e \in old : d # e => n[d] # n[e]
  BY <1>5
<1> HIDE DEF n
<1>7. \E f \in [old -> 1 .. PJ!Cardinality(old)] : \A d, e \in old : d # e => f[d] # f[e]
  BY <1>2, <1>6
<1> QED BY <1>2, <1>7 DEF PJ!Numbering

(* Whatever working trees older versions had a row for.                      *)
LEMMA PJInit == PJ!Init => PJInv
<1> SUFFICES ASSUME PJ!Init PROVE PJInv
  OBVIOUS
<1>1. PICK old \in SUBSET Dirs :
        /\ projects = {PJ!Row(PJ!Numbering(old)[d], d, "legacy") : d \in old}
        /\ pjRows = {[tbl |-> t, project |-> PJ!Numbering(old)[d], home |-> PJ!GitRoot(d)] :
                       t \in {"memory", "story"}, d \in old}
        /\ nextId = PJ!Cardinality(old) + 1
  BY DEF PJ!Init
<1>2. PICK n \in Nat : n = PJ!Cardinality(old)
  BY Numbered
<1>3. PICK num \in [old -> 1 .. n] : num = PJ!Numbering(old) /\ \A d, e \in old : d # e => num[d] # num[e]
  BY <1>2, Numbered
<1>4. nextId = n + 1 /\ 1 .. nextId - 1 = 1 .. n
  BY <1>1, <1>2
<1>5. PICK home : home = [i \in 1 .. n |-> IF \E d \in old : num[d] = i
                                 THEN RootOf[CHOOSE d \in old : num[d] = i]
                                 ELSE CHOOSE d \in Dirs : TRUE]
  OBVIOUS
<1>6. \A d \in old : home[num[d]] = RootOf[d]
  BY <1>3, <1>5
<1>7. home \in [1 .. n -> Dirs]
  <2>1. ASSUME NEW i \in 1 .. n PROVE old # {}
    <3>1. CASE old = {}
      BY <1>2, <2>1, <3>1, FS_EmptySet DEF PJ!Cardinality, Cardinality
    <3> QED BY <3>1
  <2>2. ASSUME NEW i \in 1 .. n PROVE home[i] \in Dirs
    BY <1>5, <2>1, Roots
  <2> QED BY <1>5, <2>2
<1>8. \A p \in projects : p.id \in 1 .. n /\ p.path \in Dirs /\ home[p.id] = RootOf[p.path]
  BY <1>1, <1>3, <1>6 DEF PJ!Row
<1>9. \A r \in pjRows : r.project \in 1 .. n /\ r.home = home[r.project]
  BY <1>1, <1>3, <1>6 DEF PJ!GitRoot
<1>10. /\ DOMAIN writer = Writers /\ \A w \in Writers : writer[w] = PJ!Nothing
       /\ DOMAIN plan = Operators /\ \A o \in Operators : plan[o].pc = "idle"
  BY DEF PJ!Init
<1>11. Filed(home)
  BY <1>4, <1>7, <1>8, <1>9, <1>10 DEF Filed
<1> QED BY <1>4, <1>7, <1>10, <1>11 DEF PJInv

(* A directory is resolved; a new row is for its repository.                 *)
LEMMA PJDetect == ASSUME PJInv, NEW w \in Writers, NEW d \in Dirs, PJ!Detect(w, d) PROVE PJInv'
<1>1. PICK home \in [1 .. nextId - 1 -> Dirs] : Filed(home)
  BY DEF PJInv
<1>2. PICK root \in Dirs : root = RootOf[d] /\ RootOf[root] = root /\ root = PJ!GitRoot(d)
  BY Roots
<1>3. CASE PJ!At(root) # {}
  <2>1. PICK p \in projects :
          /\ p.path = root
          /\ projects' = (projects \ {p}) \cup {[p EXCEPT !.key = RemoteOf[root]]}
          /\ writer' = [writer EXCEPT ![w] = [project |-> p.id, home |-> root]]
          /\ UNCHANGED <<nextId, onDisk, pjRows, plan>>
    <3>1. PICK p : p \in PJ!At(root) /\ p = CHOOSE q \in PJ!At(root) : TRUE
      BY <1>3
    <3> QED BY <1>2, <1>3, <3>1 DEF PJ!Detect, PJ!At
  <2>2. [p EXCEPT !.key = RemoteOf[root]].id = p.id /\ [p EXCEPT !.key = RemoteOf[root]].path = p.path
    OBVIOUS
  <2>3. home[p.id] = root /\ p.id \in DOMAIN home
    BY <1>1, <1>2, <2>1 DEF Filed
  <2>4. \A q \in projects' : q \in projects \/ (q.id = p.id /\ q.path = p.path)
    BY <2>1, <2>2
  <2>5. writer'[w] = [project |-> p.id, home |-> root] /\ \A x \in Writers \ {w} : writer'[x] = writer[x]
    BY <2>1 DEF PJInv
  <2>6. /\ DOMAIN home = 1 .. nextId' - 1
        /\ \A q \in projects' : q.id \in DOMAIN home /\ q.path \in Dirs /\ home[q.id] = RootOf[q.path]
        /\ \A r \in pjRows' : r.project \in DOMAIN home /\ r.home = home[r.project]
    BY <1>1, <2>1, <2>4 DEF Filed
  <2>7. \A x \in Writers : writer'[x] # PJ!Nothing =>
          writer'[x].project \in DOMAIN home /\ writer'[x].home = home[writer'[x].project]
    BY <1>1, <2>3, <2>5 DEF Filed
  <2>8. Filed(home)'
    BY <1>1, <2>1, <2>6, <2>7 DEF Filed
  <2> QED BY <1>1, <2>1, <2>8 DEF PJInv
<1>4. CASE PJ!At(root) = {}
  <2>1. /\ projects' = projects \cup {PJ!Row(nextId, root, RemoteOf[root])}
        /\ writer' = [writer EXCEPT ![w] = [project |-> nextId, home |-> root]]
        /\ nextId' = nextId + 1 /\ UNCHANGED <<onDisk, pjRows, plan>>
    BY <1>2, <1>4 DEF PJ!Detect
  <2>2. nextId \in Nat \ {0}
    BY DEF PJInv
  <2>3. PICK now : now = [i \in 1 .. nextId |-> IF i = nextId THEN root ELSE home[i]]
    OBVIOUS
  <2>4. now \in [1 .. nextId' - 1 -> Dirs] /\ now[nextId] = root /\ \A i \in DOMAIN home : i \in DOMAIN now /\ now[i] = home[i]
    BY <1>1, <2>1, <2>2, <2>3 DEF Filed
  <2>5. PJ!Row(nextId, root, RemoteOf[root]).id = nextId /\ PJ!Row(nextId, root, RemoteOf[root]).path = root
    BY DEF PJ!Row
  <2>6. nextId \in DOMAIN now
    BY <2>2, <2>3
  <2>7. Filed(now)'
    BY <1>1, <1>2, <2>1, <2>4, <2>5, <2>6 DEF Filed, PJInv
  <2> QED BY <2>1, <2>2, <2>4, <2>7 DEF PJInv
<1> QED BY <1>3, <1>4

(* A row is written with the id its writer was given; a story replaces one.   *)
LEMMA PJWrite ==
  ASSUME PJInv, NEW w \in Writers, NEW t, PJ!Write(w, t) \/ PJ!Leave(w)
  PROVE  PJInv'
<1>1. PICK home \in [1 .. nextId - 1 -> Dirs] : Filed(home)
  BY DEF PJInv
<1>2. writer' = [writer EXCEPT ![w] = PJ!Nothing] /\ UNCHANGED <<projects, nextId, plan>>
  BY DEF PJ!Write, PJ!Leave
<1>3. \A r \in pjRows' : \/ r \in pjRows
                         \/ r.project = writer[w].project /\ r.home = writer[w].home
                            /\ writer[w] # PJ!Nothing
  BY DEF PJ!Write, PJ!Leave
<1>4. Filed(home)'
  BY <1>1, <1>2, <1>3 DEF Filed, PJInv
<1> QED BY <1>1, <1>2, <1>4 DEF PJInv

(* A plan takes a worktree's row for its repository's, or onto its path.       *)
LEMMA PJPlan == ASSUME PJInv, NEW o \in Operators, PJ!Plan(o) \/ PJ!Forgo(o) PROVE PJInv'
<1>1. PICK home \in [1 .. nextId - 1 -> Dirs] : Filed(home)
  BY DEF PJInv
<1>2. UNCHANGED <<projects, onDisk, pjRows, nextId, writer>>
  BY DEF PJ!Plan, PJ!Forgo
<1>3. CASE PJ!Plan(o)
  <2>1. plan' = [plan EXCEPT ![o] = [pc |-> "apply", merges |-> UNION {PJ!MergesOf(p) : p \in projects}]]
    BY <1>3 DEF PJ!Plan
  <2>2. ASSUME NEW p \in projects, NEW m \in PJ!MergesOf(p)
        PROVE  /\ m.from \in DOMAIN home /\ m.path \in Dirs /\ home[m.from] = RootOf[m.path]
               /\ \A i \in m.into : i \in DOMAIN home /\ home[i] = home[m.from]
    <3>1. PICK root : /\ root \in IF p.path \in onDisk THEN PJ!LinkedWorktreeRoot(p.path) ELSE {}
                      /\ m = [from |-> p.id, path |-> root,
                              into |-> IF PJ!At(root) = {} THEN {} ELSE {q.id : q \in PJ!At(root)}]
      BY <2>2 DEF PJ!MergesOf
    <3>2. root = RootOf[p.path] /\ p.path \in Dirs /\ p.id \in DOMAIN home /\ home[p.id] = root
      BY <1>1, <3>1 DEF PJ!LinkedWorktreeRoot, Filed
    <3>3. root \in Dirs /\ RootOf[root] = root
      BY <3>2, Roots
    <3>4. \A i \in m.into : \E q \in projects : q.path = root /\ q.id = i
      BY <3>1 DEF PJ!At
    <3>5. m.from = p.id /\ m.path = root
      BY <3>1
    <3>6. \A i \in m.into : i \in DOMAIN home /\ home[i] = root
      BY <1>1, <3>3, <3>4 DEF Filed
    <3> QED BY <3>2, <3>3, <3>5, <3>6
  <2>3. plan'[o].pc = "apply" /\ plan'[o].merges = UNION {PJ!MergesOf(p) : p \in projects}
    BY <2>1 DEF PJInv
  <2>4. \A m \in plan'[o].merges :
          /\ m.from \in DOMAIN home /\ m.path \in Dirs /\ home[m.from] = RootOf[m.path]
          /\ \A i \in m.into : i \in DOMAIN home /\ home[i] = home[m.from]
    BY <2>2, <2>3
  <2>5. \A x \in Operators : x # o => plan'[x] = plan[x]
    BY <2>1 DEF PJInv
  <2>6. Filed(home)'
    BY <1>1, <1>2, <2>4, <2>5 DEF Filed
  <2> QED BY <1>1, <1>2, <2>1, <2>6 DEF PJInv
<1>4. CASE PJ!Forgo(o)
  <2>1. plan' = [plan EXCEPT ![o] = [pc |-> "idle"]]
    BY <1>4 DEF PJ!Forgo
  <2>2. Filed(home)'
    BY <1>1, <1>2, <2>1 DEF Filed, PJInv
  <2> QED BY <1>1, <1>2, <2>1, <2>2 DEF PJInv
<1> QED BY <1>3, <1>4

(* An old plan is applied to the rows there are now.                         *)
LEMMA PJApply == ASSUME PJInv, NEW o \in Operators, PJ!Apply(o) PROVE PJInv'
<1>1. PICK home \in [1 .. nextId - 1 -> Dirs] : Filed(home)
  BY DEF PJInv
<1>2. /\ plan' = [plan EXCEPT ![o] = [pc |-> "idle"]] /\ plan[o].pc = "apply"
      /\ UNCHANGED <<onDisk, nextId, writer>>
  BY DEF PJ!Apply
<1>3. \A m \in plan[o].merges :
        /\ m.from \in DOMAIN home /\ m.path \in Dirs /\ home[m.from] = RootOf[m.path]
        /\ \A i \in m.into : i \in DOMAIN home /\ home[i] = home[m.from]
  BY <1>1, <1>2 DEF Filed
<1>4. ASSUME NEW r \in pjRows
      PROVE  PJ!Moved(r, o).project \in DOMAIN home /\ PJ!Moved(r, o).home = home[PJ!Moved(r, o).project]
  <2>1. CASE \E m \in PJ!Merges(o) : m.from = r.project
    <3>1. PICK m \in PJ!Merges(o) : m.from = r.project /\ PJ!Moved(r, o) = [r EXCEPT !.project = PJ!IntoOf(m)]
      BY <2>1 DEF PJ!Moved
    <3>2. PJ!IntoOf(m) \in m.into /\ m \in plan[o].merges
      BY <3>1 DEF PJ!IntoOf, PJ!Merges
    <3> QED BY <1>1, <1>3, <3>1, <3>2 DEF Filed
  <2> QED BY <1>1, <2>1 DEF PJ!Moved, Filed
<1>5. \A r \in pjRows' : r.project \in DOMAIN home /\ r.home = home[r.project]
  <2>1. CASE UNCHANGED pjRows
    BY <1>1, <2>1 DEF Filed
  <2>2. CASE \E K \in PJ!Survivors(o) : pjRows' = {PJ!Moved(r, o) : r \in K}
    BY <1>4, <2>2 DEF PJ!Survivors
  <2> QED BY <2>1, <2>2 DEF PJ!Apply
<1>6. \A p \in projects' : p.id \in DOMAIN home /\ p.path \in Dirs /\ home[p.id] = RootOf[p.path]
  <2>1. CASE UNCHANGED projects
    BY <1>1, <2>1 DEF Filed
  <2>2. CASE projects' = {IF \E m \in PJ!Repaths(o) : m.from = p.id
                          THEN [p EXCEPT !.path = (CHOOSE m \in PJ!Repaths(o) : m.from = p.id).path]
                          ELSE p : p \in {q \in projects : \A m \in PJ!Merges(o) : m.from # q.id}}
    <3> SUFFICES ASSUME NEW p \in projects,
                        NEW q, q = IF \E m \in PJ!Repaths(o) : m.from = p.id
                          THEN [p EXCEPT !.path = (CHOOSE m \in PJ!Repaths(o) : m.from = p.id).path]
                          ELSE p
                 PROVE  q.id \in DOMAIN home /\ q.path \in Dirs /\ home[q.id] = RootOf[q.path]
      BY <2>2
    <3>1. CASE \E m \in PJ!Repaths(o) : m.from = p.id
      <4>1. PICK m \in PJ!Repaths(o) : m.from = p.id /\ q = [p EXCEPT !.path = m.path]
        BY <3>1
      <4> QED BY <1>1, <1>3, <4>1 DEF Filed, PJ!Repaths
    <3> QED BY <1>1, <3>1 DEF Filed
  <2> QED BY <2>1, <2>2 DEF PJ!Apply
<1>7. Filed(home)'
  BY <1>1, <1>2, <1>5, <1>6 DEF Filed, PJInv
<1> QED BY <1>1, <1>2, <1>7 DEF PJInv

(* Whatever is resolved, written and folded, in any order.                   *)
LEMMA PJStep == PJInv /\ [Move]_all => PJInv'
<1> SUFFICES ASSUME PJInv, [Move]_all PROVE PJInv'
  OBVIOUS
<1>1. [PJ!Next]_pjState
  BY DEF Move, all
<1>2. CASE UNCHANGED pjState
  BY <1>2 DEF pjState, PJInv, Filed
<1>3. ASSUME NEW d \in Dirs, PJ!RemoveDir(d) PROVE PJInv'
  BY <1>3 DEF PJ!RemoveDir, PJInv, Filed
<1> QED BY <1>1, <1>2, <1>3, PJDetect, PJWrite, PJPlan, PJApply DEF PJ!Next

-----------------------------------------------------------------------------
(* Importers.  What of an import is neither saved nor given up is what its run  *)
(* has yet to do: when no phase is left, nothing.                            *)
Imports == [src : IM!Sources, status : {"running", "done"}, finished : Nat,
            found : SUBSET imItems, lost : SUBSET imItems]
SeenTo(e, S) ==
  \A i \in S : i \in e.found /\ i.src = e.src /\ IM!Useful(i)
                 => IM!SaveOf(i) \in saved \/ i \in e.lost

(* The items of the first n phases of a source.                              *)
Phased(s, n) ==
  {i \in imItems : \E k \in DOMAIN IM!Phases[s] : k <= n /\ IM!Phases[s][k] = i.kind}

Skipping == [pc : {"skipped"}, src : IM!Sources, by : Nat]
Creating == [pc : {"create"}, src : IM!Sources]
AtPhase  == [pc : {"phase"}, src : IM!Sources, id : Nat, phase : Nat]
Saving   == [pc : {"save"}, src : IM!Sources, id : Nat, phase : Nat, todo : SUBSET imItems]

SkippedOK(j) ==
  /\ j \in Skipping /\ j.by \in DOMAIN records
  /\ records[j.by].src = j.src /\ records[j.by].status = "done"
Importing(j) ==
  j.id \in DOMAIN records /\ records[j.id].src = j.src /\ records[j.id].found \subseteq present
PhaseOK(j) ==
  j \in AtPhase /\ Importing(j) /\ SeenTo(records[j.id], Phased(j.src, j.phase - 1))
SaveOK(j) ==
  j \in Saving /\ Importing(j) /\ SeenTo(records[j.id], Phased(j.src, j.phase) \ j.todo)
RunOK(j) == j = IM!Idle \/ j \in Creating \/ SkippedOK(j) \/ PhaseOK(j) \/ SaveOK(j)

DoneIsSaved == \A k \in DOMAIN records : records[k].status = "done" => SeenTo(records[k], imItems)

IMInv ==
  /\ present \subseteq imItems /\ clock \in Nat /\ records \in Seq(Imports)
  /\ DOMAIN imRun = Importers
  /\ DoneIsSaved /\ \A r \in Importers : RunOK(imRun[r])

(* A run at a stage is of that stage's kind.                                 *)
LEMMA RunStages ==
  ASSUME NEW j, RunOK(j)
  PROVE  /\ j.pc = "idle" => j = IM!Idle
         /\ j.pc = "create" => j \in Creating
         /\ j.pc = "skipped" => SkippedOK(j)
         /\ j.pc = "phase" => PhaseOK(j)
         /\ j.pc = "save" => SaveOK(j)
BY DEF RunOK, IM!Idle, Creating, SkippedOK, Skipping, PhaseOK, AtPhase, SaveOK, Saving

(* The phases of a source are a sequence.                                    *)
LEMMA PhaseNumbers ==
  ASSUME NEW s \in IM!Sources
  PROVE  /\ Len(IM!Phases[s]) \in Nat
         /\ DOMAIN IM!Phases[s] = 1 .. Len(IM!Phases[s])
<1>1. s \in {"claude", "opencode", "cursor", "devclaw"}
  BY CallersAssumption DEF IM!Sources, IM!Phases
<1>2. CASE s = "claude"
  <2>1. IM!Phases[s] = <<"memory", "claude", "settings", "session">>
    BY <1>2 DEF IM!Phases
  <2> QED BY <2>1
<1>3. CASE s = "opencode"
  <2>1. IM!Phases[s] = <<"project", "message", "todo", "config">>
    BY <1>3 DEF IM!Phases
  <2> QED BY <2>1
<1>4. CASE s = "cursor"
  <2>1. IM!Phases[s] = <<"rule", "mcp", "rules">>
    BY <1>4 DEF IM!Phases
  <2> QED BY <2>1
<1>5. CASE s = "devclaw"
  <2>1. IM!Phases[s] = <<"chunk">>
    BY <1>5 DEF IM!Phases
  <2> QED BY <2>1
<1> QED BY <1>1, <1>2, <1>3, <1>4, <1>5

(* What is reported as skipped was saved.                                    *)
LEMMA IMSkipped == IMInv => IM!SkippedWasSaved
<1> SUFFICES ASSUME IMInv, NEW r \in Importers, imRun[r].pc = "skipped",
                    NEW i \in records[imRun[r].by].found, i.src = imRun[r].src, IM!Useful(i)
             PROVE  IM!SaveOf(i) \in saved \/ i \in records[imRun[r].by].lost
  BY DEF IM!SkippedWasSaved
<1>1. SkippedOK(imRun[r])
  BY RunStages DEF IMInv
<1>2. i \in imItems
  <2>1. records[imRun[r].by] \in Imports
    BY <1>1 DEF SkippedOK, IMInv
  <2> QED BY <2>1 DEF Imports
<1>3. SeenTo(records[imRun[r].by], imItems)
  BY <1>1 DEF SkippedOK, IMInv, DoneIsSaved
<1> QED BY <1>1, <1>2, <1>3 DEF SeenTo, SkippedOK

(* Nothing is recorded at first.                                             *)
LEMMA IMInit == IM!Init => IMInv
BY DEF IM!Init, IMInv, DoneIsSaved, RunOK, IM!Idle

(* What a run knows of its import stays true, when records only become done     *)
(* or give up more, and are added.                                           *)
Kept(e, f) ==
  /\ f.src = e.src /\ f.found = e.found /\ e.lost \subseteq f.lost
  /\ e.status = "done" => f.status = "done"
LEMMA SeenStays ==
  ASSUME saved \subseteq saved', NEW e, NEW f, Kept(e, f), NEW S, SeenTo(e, S)
  PROVE  SeenTo(f, S)'
BY DEF Kept, SeenTo

LEMMA RunStays ==
  ASSUME NEW j, RunOK(j), saved \subseteq saved',
         present \subseteq present', DOMAIN records \subseteq DOMAIN records',
         \A k \in DOMAIN records : Kept(records[k], records'[k])
  PROVE  RunOK(j)'
<1>1. CASE j = IM!Idle \/ j \in Creating
  BY <1>1 DEF RunOK
<1>2. CASE SkippedOK(j)
  BY <1>2 DEF RunOK, SkippedOK, Kept
<1>3. CASE PhaseOK(j)
  <2>1. Importing(j)'
    BY <1>3 DEF PhaseOK, Importing, Kept
  <2>2. Kept(records[j.id], records'[j.id])
    BY <1>3 DEF PhaseOK, Importing
  <2>3. PICK S : S = Phased(j.src, j.phase - 1)
    OBVIOUS
  <2>4. SeenTo(records[j.id], S)
    BY <1>3, <2>3 DEF PhaseOK
  <2>5. SeenTo(records[j.id], S)'
    BY <2>2, <2>4 DEF Kept, SeenTo
  <2>6. Phased(j.src, j.phase - 1)' = S
    BY <2>3 DEF Phased
  <2> QED BY <1>3, <2>1, <2>5, <2>6 DEF RunOK, PhaseOK
<1>4. CASE SaveOK(j)
  <2>1. Importing(j)'
    BY <1>4 DEF SaveOK, Importing, Kept
  <2>2. Kept(records[j.id], records'[j.id])
    BY <1>4 DEF SaveOK, Importing
  <2>3. PICK S : S = Phased(j.src, j.phase) \ j.todo
    OBVIOUS
  <2>4. SeenTo(records[j.id], S)
    BY <1>4, <2>3 DEF SaveOK
  <2>5. SeenTo(records[j.id], S)'
    BY <2>2, <2>4 DEF Kept, SeenTo
  <2>6. (Phased(j.src, j.phase) \ j.todo)' = S
    BY <2>3 DEF Phased
  <2> QED BY <1>4, <2>1, <2>5, <2>6 DEF RunOK, SaveOK
<1> QED BY <1>1, <1>2, <1>3, <1>4 DEF RunOK

(* And what was done stays done, if what becomes done was saved.              *)
LEMMA DoneStays ==
  ASSUME IMInv, saved \subseteq saved',
         \A k \in DOMAIN records' : records'[k].status = "done" =>
           \/ k \in DOMAIN records /\ records[k].status = "done" /\ Kept(records[k], records'[k])
           \/ SeenTo(records[k], imItems)'
  PROVE  DoneIsSaved'
<1> SUFFICES ASSUME NEW k \in DOMAIN records, records[k].status = "done", Kept(records[k], records'[k])
             PROVE  SeenTo(records[k], imItems)'
  BY DEF DoneIsSaved
<1>1. SeenTo(records[k], imItems)
  BY DEF IMInv, DoneIsSaved
<1> QED BY <1>1 DEF SeenTo, Kept

(* The last record of a source is one of its records.                        *)
LEMMA LastRecord ==
  ASSUME IMInv, NEW s, IM!OfSource(s) # {}
  PROVE  IM!Last(s) \in DOMAIN records /\ records[IM!Last(s)].src = s
<1> DEFINE R == {ss \in Nat \X Nat : ss[1] < ss[2]}
           K == IM!OfSource(s)
           T == {n \in 0 .. Len(records) : Len(records) - n \in K}
<1>1. Len(records) \in Nat /\ DOMAIN records = 1 .. Len(records)
  BY DEF IMInv
<1>2. K # {} /\ K \subseteq DOMAIN records
  BY DEF IM!OfSource
<1>3. T \subseteq Nat /\ T # {}
  <2>1. PICK k \in K : TRUE
    BY <1>2
  <2>2. Len(records) - k \in T
    BY <1>1, <1>2, <2>1
  <2> QED BY <2>2
<1>4. PICK t \in T : \A u \in T : <<u, t>> \notin R
  <2> HIDE DEF T, R
  <2>1. IsWellFoundedOn(R, Nat)
    BY NatLessThanWellFounded DEF OpToRel, R
  <2> QED BY <1>3, <2>1, WFMin
<1>5. Len(records) - t \in K /\ \A j \in K : j <= Len(records) - t
  <2>1. ASSUME NEW j \in K PROVE j <= Len(records) - t
    <3>1. Len(records) - j \in T
      BY <1>1, <1>2, <2>1
    <3>2. <<Len(records) - j, t>> \notin R
      BY <1>4, <3>1
    <3> QED BY <1>1, <1>2, <1>4, <2>1, <3>1, <3>2
  <2> QED BY <2>1
<1> HIDE DEF R, T
<1>6. IM!Last(s) \in K
  BY <1>5 DEF IM!Last
<1> QED BY <1>6 DEF IM!OfSource

(* What is said of a run depends on the records and the saves.                  *)
LEMMA IMSame ==
  ASSUME IMInv, UNCHANGED <<present, clock, records, saved>>,
         DOMAIN imRun' = Importers, \A x \in Importers : RunOK(imRun'[x])
  PROVE  IMInv'
<1>1. DoneIsSaved'
  BY DEF IMInv, DoneIsSaved, SeenTo
<1>2. ASSUME NEW x \in Importers PROVE RunOK(imRun[x])'
  <2>1. PICK j : j = imRun'[x] /\ RunOK(j)
    OBVIOUS
  <2>2. Importing(j) => Importing(imRun[x])'
    BY <2>1 DEF Importing
  <2>3. SkippedOK(j) => SkippedOK(imRun[x])'
    BY <2>1 DEF SkippedOK
  <2>4. PhaseOK(j) => PhaseOK(imRun[x])'
    BY <2>1, <2>2 DEF PhaseOK, SeenTo
  <2>5. SaveOK(j) => SaveOK(imRun[x])'
    BY <2>1, <2>2 DEF SaveOK, SeenTo
  <2> QED BY <2>1, <2>3, <2>4, <2>5 DEF RunOK
<1> QED BY <1>1, <1>2 DEF IMInv

(* A source is left out or an import of it begun.                            *)
LEMMA IMCheck ==
  ASSUME IMInv, NEW r \in Importers, NEW s \in IM!Sources, NEW force \in BOOLEAN, IM!Check(r, s, force)
  PROVE  IMInv'
<1>1. PICK j : imRun' = [imRun EXCEPT ![r] = j] /\ RunOK(j)
  <2>1. CASE ~force /\ IM!Unchanged(s)
    <3>1. imRun' = [imRun EXCEPT ![r] = [pc |-> "skipped", src |-> s, by |-> IM!Last(s)]]
      BY <2>1 DEF IM!Check
    <3>2. /\ IM!Last(s) \in DOMAIN records /\ records[IM!Last(s)].src = s
          /\ records[IM!Last(s)].status = "done"
      BY <2>1, LastRecord DEF IM!Unchanged
    <3>3. IM!Last(s) \in Nat
      BY <3>2 DEF IMInv
    <3>4. SkippedOK([pc |-> "skipped", src |-> s, by |-> IM!Last(s)])
      BY <3>2, <3>3 DEF SkippedOK, Skipping
    <3> QED BY <3>1, <3>4 DEF RunOK
  <2>2. CASE ~(~force /\ IM!Unchanged(s))
    <3>1. imRun' = [imRun EXCEPT ![r] = [pc |-> "create", src |-> s]]
      BY <2>2 DEF IM!Check
    <3>2. [pc |-> "create", src |-> s] \in Creating
      BY DEF Creating
    <3> QED BY <3>1, <3>2 DEF RunOK
  <2> QED BY <2>1, <2>2
<1>2. UNCHANGED <<present, imTouched, clock, records, saved, imFails>>
  BY DEF IM!Check
<1>3. DOMAIN imRun' = Importers /\ \A x \in Importers : RunOK(imRun'[x])
  BY <1>1 DEF IMInv
<1> QED BY <1>2, <1>3, IMSame

(* The tool writes, and nothing that an import knows of changes.              *)
LEMMA IMTool == ASSUME IMInv, NEW i \in imItems, IM!ToolWrites(i) PROVE IMInv'
<1>1. /\ present' = present \cup {i} /\ clock' = clock + 1
      /\ UNCHANGED <<records, imRun, saved, imFails>>
  BY DEF IM!ToolWrites
<1>2. \A k \in DOMAIN records : Kept(records[k], records'[k])
  BY <1>1 DEF Kept
<1>3. \A r \in Importers : RunOK(imRun[r])'
  BY <1>1, <1>2, RunStays DEF IMInv
<1>4. DoneIsSaved'
  BY <1>1 DEF IMInv, DoneIsSaved, SeenTo
<1> QED BY <1>1, <1>3, <1>4 DEF IMInv

(* A run ends.                                                               *)
LEMMA IMLeave == ASSUME IMInv, NEW r \in Importers, IM!Leave(r) PROVE IMInv'
<1>1. UNCHANGED <<present, imTouched, clock, records, saved, imFails>>
  BY DEF IM!Leave
<1>2. DOMAIN imRun' = Importers /\ \A x \in Importers : RunOK(imRun'[x])
  BY DEF IM!Leave, IMInv, RunOK
<1> QED BY <1>1, <1>2, IMSame

(* A record that gives up items of its own keeps all that was known of it, and  *)
(* of no other record is anything changed.                                    *)
LEMMA GivingUp ==
  ASSUME IMInv, NEW k \in DOMAIN records, NEW S \in SUBSET imItems, IM!GivesUp(k, S)
  PROVE  /\ records' \in Seq(Imports) /\ DOMAIN records' = DOMAIN records
         /\ \A x \in DOMAIN records : Kept(records[x], records'[x])
         /\ \A x \in DOMAIN records : records'[x].status = records[x].status
         /\ records'[k].src = records[k].src /\ records'[k].found = records[k].found
         /\ records'[k].lost = records[k].lost \cup S
<1>1. PICK o \in Imports : o = records[k]
  BY DEF IMInv
<1>2. PICK L \in SUBSET imItems : L = o.lost \cup S
  BY DEF Imports
<1>3. PICK e \in Imports : e = [o EXCEPT !.lost = L]
  BY DEF Imports
<1>4. e.src = o.src /\ e.found = o.found /\ e.status = o.status /\ e.lost = L
  BY <1>3 DEF Imports
<1>5. records' = [records EXCEPT ![k] = e]
  BY <1>1, <1>2, <1>3 DEF IM!GivesUp
<1>6. /\ records' \in Seq(Imports) /\ DOMAIN records' = DOMAIN records
      /\ records'[k] = e /\ \A x \in DOMAIN records : x # k => records'[x] = records[x]
  BY <1>5, ExceptSeq DEF IMInv
<1>7. ASSUME NEW x \in DOMAIN records
      PROVE  Kept(records[x], records'[x]) /\ records'[x].status = records[x].status
  <2>1. CASE x = k
    BY <1>1, <1>2, <1>4, <1>6, <2>1 DEF Kept
  <2>2. CASE x # k
    BY <1>6, <2>2 DEF Kept
  <2> QED BY <2>1, <2>2
<1> QED BY <1>1, <1>2, <1>4, <1>6, <1>7

(* A step of one run that only adds to what records give up and to what is saved  *)
(* leaves the invariant as it is, when what it does to its own stage is right.    *)
LEMMA IMOneRun ==
  ASSUME IMInv, NEW r \in Importers, NEW w, imRun' = [imRun EXCEPT ![r] = w], RunOK(w)',
         present' = present, clock' = clock, saved \subseteq saved',
         records' \in Seq(Imports), DOMAIN records' = DOMAIN records,
         \A x \in DOMAIN records : Kept(records[x], records'[x]),
         \A x \in DOMAIN records : records'[x].status = records[x].status
  PROVE  IMInv'
<1>1. ASSUME NEW x \in Importers PROVE RunOK(imRun[x])'
  <2>1. CASE x = r
    BY <2>1 DEF IMInv
  <2>2. CASE x # r
    <3>1. PICK y : y = imRun[x] /\ y = imRun'[x] /\ RunOK(y)
      BY <2>2 DEF IMInv
    <3>2. RunOK(y)'
      BY <3>1, RunStays
    <3> QED BY <3>1, <3>2
  <2> QED BY <2>1, <2>2
<1>2. DoneIsSaved'
  BY DoneStays
<1> QED BY <1>1, <1>2 DEF IMInv

(* A phase is listed: what of it cannot be read is given up.                   *)
LEMMA IMList == ASSUME IMInv, NEW r \in Importers, IM!ListPhase(r) PROVE IMInv'
<1>1. PICK j \in AtPhase : j = imRun[r] /\ PhaseOK(j) /\ j.phase <= Len(IM!Phases[j.src])
  BY RunStages DEF IM!ListPhase, IMInv, PhaseOK
<1>2. PICK n \in Nat : n = j.phase
  BY DEF AtPhase
<1>3. PICK A \in SUBSET imItems :
        A = {i \in present : i.src = j.src /\ i.kind = IM!Phases[j.src][n] /\ IM!Useful(i)}
  BY DEF IMInv
<1>4. PICK T \in SUBSET A :
        /\ imRun' = [imRun EXCEPT ![r] = [pc |-> "save", src |-> j.src, id |-> j.id,
                                          phase |-> n, todo |-> T]]
        /\ \/ T = A /\ UNCHANGED <<records, imFails>>
           \/ T # A /\ IM!GivesUp(j.id, A \ T)
        /\ UNCHANGED <<present, imTouched, clock, saved>>
  BY <1>1, <1>2, <1>3 DEF IM!ListPhase
<1>5. j.id \in DOMAIN records /\ Importing(j)
  BY <1>1 DEF PhaseOK, Importing
<1>6. /\ records' \in Seq(Imports) /\ DOMAIN records' = DOMAIN records
      /\ \A x \in DOMAIN records : Kept(records[x], records'[x])
      /\ \A x \in DOMAIN records : records'[x].status = records[x].status
      /\ records'[j.id].src = records[j.id].src /\ records'[j.id].found = records[j.id].found
      /\ records[j.id].lost \cup (A \ T) \subseteq records'[j.id].lost
  <2>1. CASE T = A /\ UNCHANGED <<records, imFails>>
    BY <2>1 DEF IMInv, Kept
  <2>2. CASE IM!GivesUp(j.id, A \ T)
    <3>1. A \ T \in SUBSET imItems
      OBVIOUS
    <3> QED BY <1>5, <2>2, <3>1, GivingUp
  <2> QED BY <1>4, <2>1, <2>2
<1>7. PICK w \in Saving : w = [pc |-> "save", src |-> j.src, id |-> j.id, phase |-> n, todo |-> T]
  <2>1. T \in SUBSET imItems
    OBVIOUS
  <2>2. [pc |-> "save", src |-> j.src, id |-> j.id, phase |-> n, todo |-> T] \in Saving
    BY <2>1 DEF AtPhase, Saving
  <2> QED BY <2>2
<1>8. w.src = j.src /\ w.id = j.id /\ w.phase = n /\ w.todo = T
  BY <1>7
<1>9. SeenTo(records[j.id], Phased(j.src, n) \ T)'
  <2> SUFFICES ASSUME NEW i \in Phased(j.src, n), i \notin T, i \in records'[j.id].found,
                      i.src = records'[j.id].src, IM!Useful(i)
               PROVE  IM!SaveOf(i) \in saved' \/ i \in records'[j.id].lost
    BY DEF SeenTo, Phased
  <2>1. i \in records[j.id].found /\ i.src = j.src /\ i \in present /\ i.src = records[j.id].src
    BY <1>5, <1>6 DEF Importing
  <2>2. CASE i \in Phased(j.src, n - 1)
    <3>1. IM!SaveOf(i) \in saved \/ i \in records[j.id].lost
      BY <1>1, <1>2, <2>1, <2>2 DEF PhaseOK, SeenTo
    <3> QED BY <1>4, <1>6, <3>1
  <2>3. CASE i \notin Phased(j.src, n - 1)
    <3>1. PICK k \in DOMAIN IM!Phases[j.src] : k <= n /\ IM!Phases[j.src][k] = i.kind
      BY DEF Phased
    <3>2. k \in Int
      BY <3>1, PhaseNumbers DEF AtPhase
    <3>3. k = n
      BY <2>3, <3>1, <3>2 DEF Phased
    <3>4. i \in A
      BY <1>3, <2>1, <3>1, <3>3
    <3> QED BY <1>6, <3>4
  <2> QED BY <2>2, <2>3
<1>10. Importing(w)'
  BY <1>4, <1>5, <1>6, <1>8 DEF Importing
<1>11. SaveOK(w)'
  BY <1>7, <1>8, <1>9, <1>10 DEF SaveOK, Phased
<1>12. imRun' = [imRun EXCEPT ![r] = w] /\ RunOK(w)'
  BY <1>4, <1>7, <1>11 DEF RunOK
<1>13. present' = present /\ clock' = clock /\ saved \subseteq saved'
  BY <1>4
<1> QED BY <1>6, <1>12, <1>13, IMOneRun

(* A source that cannot be loaded is given up whole.                           *)
LEMMA IMLoad == ASSUME IMInv, NEW r \in Importers, IM!LoadFails(r) PROVE IMInv'
<1>1. PICK j \in AtPhase : j = imRun[r] /\ PhaseOK(j)
  BY RunStages DEF IM!LoadFails, IMInv, PhaseOK
<1>2. PICK A \in SUBSET imItems : A = {i \in present : i.src = j.src /\ IM!Useful(i)}
  BY DEF IMInv
<1>3. PICK n \in Nat : n = Len(IM!Phases[j.src]) + 1
  BY PhaseNumbers DEF AtPhase
<1>4. /\ IM!GivesUp(j.id, A) /\ imRun' = [imRun EXCEPT ![r].phase = n]
      /\ UNCHANGED <<present, imTouched, clock, saved>>
  BY <1>1, <1>2, <1>3 DEF IM!LoadFails
<1>5. j.id \in DOMAIN records /\ Importing(j)
  BY <1>1 DEF PhaseOK, Importing
<1>6. /\ records' \in Seq(Imports) /\ DOMAIN records' = DOMAIN records
      /\ \A x \in DOMAIN records : Kept(records[x], records'[x])
      /\ \A x \in DOMAIN records : records'[x].status = records[x].status
      /\ records'[j.id].src = records[j.id].src /\ records'[j.id].found = records[j.id].found
      /\ records'[j.id].lost = records[j.id].lost \cup A
  BY <1>4, <1>5, GivingUp
<1>7. PICK w \in AtPhase : w = [j EXCEPT !.phase = n]
  BY DEF AtPhase
<1>8. w.src = j.src /\ w.id = j.id /\ w.phase = n
  BY <1>7 DEF AtPhase
<1>9. Importing(w)'
  BY <1>4, <1>5, <1>6, <1>8 DEF Importing
<1>10. SeenTo(records[w.id], Phased(w.src, w.phase - 1))'
  <2>1. \A i \in imItems : i \in records'[j.id].found /\ i.src = records'[j.id].src /\ IM!Useful(i)
          => i \in records'[j.id].lost
    BY <1>2, <1>5, <1>6 DEF Importing
  <2> QED BY <1>8, <2>1 DEF SeenTo, Phased
<1>11. RunOK(w)'
  BY <1>7, <1>9, <1>10 DEF RunOK, PhaseOK
<1>12. imRun' = [imRun EXCEPT ![r] = w]
  BY <1>1, <1>4, <1>7
<1>13. present' = present /\ clock' = clock /\ saved \subseteq saved'
  BY <1>4
<1> QED BY <1>6, <1>11, <1>12, <1>13, IMOneRun

(* A record is made of what is there; nothing of it is due yet.               *)
LEMMA IMCreate == ASSUME IMInv, NEW r \in Importers, IM!CreateImport(r) PROVE IMInv'
<1>1. PICK s \in IM!Sources : imRun[r].src = s
  BY RunStages DEF IM!CreateImport, IMInv, Creating
<1>2. PICK e \in Imports : e = IM!Record(s) /\ e.src = s /\ e.status = "running" /\ e.found = present
  <2>1. present \in SUBSET imItems
    BY DEF IMInv
  <2>2. [src |-> s, status |-> "running", finished |-> 0, found |-> present, lost |-> {}] \in Imports
    BY <2>1 DEF Imports
  <2> QED BY <2>2 DEF IM!Record
<1>3. /\ records' = Append(records, e)
      /\ imRun' = [imRun EXCEPT ![r] = [pc |-> "phase", src |-> s, id |-> Len(records) + 1, phase |-> 1]]
      /\ UNCHANGED <<present, imTouched, clock, saved, imFails>>
  BY <1>1, <1>2 DEF IM!CreateImport
<1>4. /\ records' \in Seq(Imports) /\ Len(records) \in Nat
      /\ DOMAIN records' = DOMAIN records \cup {Len(records) + 1}
      /\ records'[Len(records) + 1] = e /\ Len(records) + 1 \notin DOMAIN records
      /\ \A k \in DOMAIN records : records'[k] = records[k]
  BY <1>3, AppendProperties DEF IMInv
<1>5. \A x \in Importers : RunOK(imRun[x])'
  <2>1. \A k \in DOMAIN records : Kept(records[k], records'[k])
    BY <1>4 DEF Kept
  <2>2. ASSUME NEW x \in Importers, x # r PROVE RunOK(imRun[x])'
    <3>1. imRun'[x] = imRun[x] /\ RunOK(imRun[x])
      BY <1>3, <2>2 DEF IMInv
    <3>2. PICK j : j = imRun[x]
      OBVIOUS
    <3>3. RunOK(j)'
      BY <1>3, <1>4, <2>1, <3>1, <3>2, RunStays DEF IMInv
    <3> QED BY <3>1, <3>2, <3>3
  <2>3. PhaseOK(imRun[r])'
    <3>1. PICK j : j = [pc |-> "phase", src |-> s, id |-> Len(records) + 1, phase |-> 1]
      OBVIOUS
    <3>2. j \in AtPhase /\ j.src = s /\ j.id = Len(records) + 1 /\ j.phase = 1
      BY <1>4, <3>1 DEF AtPhase
    <3>3. imRun'[r] = j
      BY <1>3, <3>1 DEF IMInv
    <3>4. Phased(s, 0) = {}
      BY <1>1, PhaseNumbers DEF Phased
    <3>5. SeenTo(e, Phased(j.src, j.phase - 1))'
      BY <3>2, <3>4 DEF SeenTo
    <3> QED BY <1>2, <1>3, <1>4, <3>2, <3>3, <3>5 DEF PhaseOK, Importing
  <2> QED BY <2>2, <2>3 DEF RunOK
<1>6. DoneIsSaved'
  BY <1>2, <1>3, <1>4 DEF IMInv, DoneIsSaved, SeenTo
<1> QED BY <1>3, <1>4, <1>5, <1>6 DEF IMInv

(* A phase that is through is passed.                                        *)
LEMMA IMPass ==
  ASSUME IMInv, NEW r \in Importers, IM!SaveItem(r), imRun[r].todo = {}
  PROVE  IMInv'
<1>1. PICK j \in Saving : j = imRun[r] /\ SaveOK(j) /\ j.todo = {}
  BY RunStages DEF IM!SaveItem, IMInv, SaveOK
<1>2. PICK n \in Nat : n = j.phase
  BY DEF Saving
<1>3. PICK w \in AtPhase : /\ w = [pc |-> "phase", src |-> j.src, id |-> j.id, phase |-> n + 1]
                           /\ w.src = j.src /\ w.id = j.id /\ w.phase = n + 1
  <2>1. [pc |-> "phase", src |-> j.src, id |-> j.id, phase |-> n + 1] \in AtPhase
    BY DEF AtPhase, Saving
  <2> QED BY <2>1
<1>4. /\ imRun' = [imRun EXCEPT ![r] = w]
      /\ UNCHANGED <<present, imTouched, clock, records, saved, imFails>>
  BY <1>1, <1>2, <1>3 DEF IM!SaveItem
<1>5. Phased(w.src, w.phase - 1) = Phased(j.src, j.phase) \ j.todo
  BY <1>1, <1>2, <1>3
<1>6. PhaseOK(w)
  BY <1>1, <1>3, <1>5 DEF PhaseOK, SaveOK, Importing
<1>7. RunOK(w)
  BY <1>6 DEF RunOK
<1>8. DOMAIN imRun' = Importers /\ \A x \in Importers : RunOK(imRun'[x])
  BY <1>4, <1>7 DEF IMInv
<1> QED BY <1>4, <1>8, IMSame

(* An item is saved or given up.                                             *)
LEMMA IMSave ==
  ASSUME IMInv, NEW r \in Importers, IM!SaveItem(r), imRun[r].todo # {}
  PROVE  IMInv'
<1>1. PICK j \in Saving : j = imRun[r] /\ SaveOK(j)
  BY RunStages DEF IM!SaveItem, IMInv, SaveOK
<1>2. PICK T \in SUBSET imItems : T = j.todo
  BY DEF Saving
<1>3. PICK i \in T :
        /\ imRun' = [imRun EXCEPT ![r].todo = imRun[r].todo \ {i}]
        /\ \/ saved' = saved \cup {IM!SaveOf(i)} /\ UNCHANGED <<records, imFails>>
           \/ IM!GivesUp(j.id, {i}) /\ UNCHANGED saved
        /\ UNCHANGED <<present, imTouched, clock>>
  BY <1>1, <1>2 DEF IM!SaveItem
<1>4. PICK w \in Saving : /\ w = [j EXCEPT !.todo = T \ {i}]
                          /\ w.src = j.src /\ w.id = j.id /\ w.phase = j.phase /\ w.todo = T \ {i}
  <2>1. PICK R \in SUBSET imItems : R = T \ {i}
    OBVIOUS
  <2>2. PICK w \in Saving : w = [j EXCEPT !.todo = R]
    BY DEF Saving
  <2>3. w.src = j.src /\ w.id = j.id /\ w.phase = j.phase /\ w.todo = R
    BY <2>2 DEF Saving
  <2> QED BY <2>1, <2>2, <2>3
<1>5. imRun' = [imRun EXCEPT ![r] = w]
  BY <1>1, <1>2, <1>3, <1>4
<1>6. j.id \in DOMAIN records /\ Importing(j)
  BY <1>1 DEF SaveOK, Importing
<1>7. /\ records' \in Seq(Imports) /\ DOMAIN records' = DOMAIN records
      /\ \A x \in DOMAIN records : Kept(records[x], records'[x])
      /\ \A x \in DOMAIN records : records'[x].status = records[x].status
      /\ records'[j.id].src = records[j.id].src /\ records'[j.id].found = records[j.id].found
      /\ saved \subseteq saved'
      /\ IM!SaveOf(i) \in saved' \/ i \in records'[j.id].lost
  <2>1. CASE saved' = saved \cup {IM!SaveOf(i)} /\ UNCHANGED <<records, imFails>>
    BY <2>1 DEF IMInv, Kept
  <2>2. CASE IM!GivesUp(j.id, {i}) /\ UNCHANGED saved
    <3>1. {i} \in SUBSET imItems
      BY <1>3
    <3> QED BY <1>6, <2>2, <3>1, GivingUp
  <2> QED BY <1>3, <2>1, <2>2
<1>8. SeenTo(records[w.id], Phased(w.src, w.phase) \ w.todo)'
  <2> SUFFICES ASSUME NEW x \in Phased(j.src, j.phase), x \notin T \ {i}, x \in records'[j.id].found,
                      x.src = records'[j.id].src, IM!Useful(x)
               PROVE  IM!SaveOf(x) \in saved' \/ x \in records'[j.id].lost
    BY <1>4 DEF SeenTo, Phased
  <2>1. CASE x = i
    BY <1>7, <2>1
  <2>2. CASE x # i
    <3>1. IM!SaveOf(x) \in saved \/ x \in records[j.id].lost
      BY <1>1, <1>2, <1>7, <2>2 DEF SaveOK, SeenTo
    <3>2. records[j.id].lost \subseteq records'[j.id].lost
      BY <1>6, <1>7 DEF Kept
    <3> QED BY <1>7, <3>1, <3>2
  <2> QED BY <2>1, <2>2
<1>9. Importing(w)'
  BY <1>3, <1>4, <1>6, <1>7 DEF Importing
<1>10. RunOK(w)'
  BY <1>4, <1>8, <1>9 DEF RunOK, SaveOK
<1>11. present' = present /\ clock' = clock
  BY <1>3
<1> QED BY <1>5, <1>7, <1>10, <1>11, IMOneRun

(* With no phase left, all that is unsaved was given up.                       *)
LEMMA IMUpdate == ASSUME IMInv, NEW r \in Importers, IM!UpdateImport(r) PROVE IMInv'
<1>1. PICK j \in AtPhase : j = imRun[r] /\ PhaseOK(j) /\ j.phase > Len(IM!Phases[j.src])
  BY RunStages DEF IM!UpdateImport, IMInv, PhaseOK
<1>2. /\ records' = [records EXCEPT ![j.id].status = "done", ![j.id].finished = clock]
      /\ imRun' = [imRun EXCEPT ![r] = IM!Idle]
      /\ UNCHANGED <<present, imTouched, clock, saved, imFails>>
  BY <1>1 DEF IM!UpdateImport
<1>3. j.id \in DOMAIN records /\ records[j.id] \in Imports
  BY <1>1 DEF PhaseOK, Importing, IMInv
<1>4. PICK e \in Imports : /\ e = [records[j.id] EXCEPT !.status = "done", !.finished = clock]
                           /\ e.src = records[j.id].src /\ e.found = records[j.id].found
                           /\ e.lost = records[j.id].lost /\ e.status = "done"
  <2>1. PICK c \in Nat : c = clock
    BY DEF IMInv
  <2>2. PICK o \in Imports : o = records[j.id]
    BY <1>3
  <2>3. [o EXCEPT !.status = "done", !.finished = c] \in Imports
    BY DEF Imports
  <2>4. PICK e \in Imports : e = [o EXCEPT !.status = "done", !.finished = c]
    BY <2>3
  <2>5. e.src = o.src /\ e.found = o.found /\ e.lost = o.lost /\ e.status = "done"
    BY <2>4 DEF Imports
  <2> QED BY <2>1, <2>2, <2>4, <2>5
<1>5. records' = [records EXCEPT ![j.id] = e]
  BY <1>2, <1>3, <1>4
<1>6. /\ records' \in Seq(Imports) /\ DOMAIN records' = DOMAIN records
      /\ records'[j.id] = e /\ \A k \in DOMAIN records : k # j.id => records'[k] = records[k]
  BY <1>3, <1>4, <1>5, ExceptSeq DEF IMInv
<1>7. \A k \in DOMAIN records : Kept(records[k], records'[k])
  BY <1>4, <1>6 DEF Kept
<1>8. SeenTo(records[j.id], imItems)'
  <2>1. PICK n \in Nat : n = j.phase
    BY DEF AtPhase
  <2>2. \A i \in imItems : i.src = j.src => i \in Phased(j.src, n - 1)
    <3> SUFFICES ASSUME NEW i \in imItems, i.src = j.src PROVE i \in Phased(j.src, n - 1)
      OBVIOUS
    <3>1. PICK k \in DOMAIN IM!Phases[j.src] : IM!Phases[j.src][k] = i.kind
      BY CallersAssumption
    <3>2. k \in 1 .. Len(IM!Phases[j.src]) /\ Len(IM!Phases[j.src]) \in Nat
      BY <3>1, PhaseNumbers DEF AtPhase
    <3>3. k <= n - 1
      BY <1>1, <2>1, <3>2
    <3> QED BY <3>1, <3>3 DEF Phased
  <2>3. SeenTo(records[j.id], Phased(j.src, n - 1)) /\ records[j.id].src = j.src
    BY <1>1, <2>1 DEF PhaseOK, Importing
  <2>4. SeenTo(records[j.id], imItems)
    BY <2>2, <2>3 DEF SeenTo
  <2> QED BY <1>2, <1>4, <1>6, <2>4 DEF SeenTo
<1>9. /\ saved \subseteq saved' /\ present \subseteq present' /\ DOMAIN records \subseteq DOMAIN records'
  BY <1>2, <1>6 DEF IMInv
<1>10. ASSUME NEW x \in Importers PROVE RunOK(imRun[x])'
  <2>1. CASE x = r
    BY <1>2, <2>1 DEF IMInv, RunOK
  <2>2. CASE x # r
    <3>1. PICK y : y = imRun[x] /\ y = imRun'[x] /\ RunOK(y)
      BY <1>2, <2>2 DEF IMInv
    <3>2. RunOK(y)'
      BY <1>7, <1>9, <3>1, RunStays
    <3> QED BY <3>1, <3>2
  <2> QED BY <2>1, <2>2
<1>11. DoneIsSaved'
  <2>1. \A k \in DOMAIN records' : records'[k].status = "done" =>
           \/ k \in DOMAIN records /\ records[k].status = "done" /\ Kept(records[k], records'[k])
           \/ SeenTo(records[k], imItems)'
    BY <1>6, <1>7, <1>8
  <2> QED BY <1>9, <2>1, DoneStays
<1> QED BY <1>2, <1>6, <1>10, <1>11 DEF IMInv

(* Whatever tools, imports and failures do.                                  *)
LEMMA IMStep == IMInv /\ [Move]_all => IMInv'
<1> SUFFICES ASSUME IMInv, [Move]_all PROVE IMInv'
  OBVIOUS
<1>1. [IM!Next]_imState
  BY DEF Move, all
<1>2. CASE UNCHANGED imState
  <2>1. UNCHANGED <<present, clock, records, imRun, saved, imFails>>
    BY <1>2 DEF imState
  <2>2. DOMAIN imRun' = Importers /\ \A x \in Importers : RunOK(imRun'[x])
    BY <2>1 DEF IMInv
  <2> QED BY <2>1, <2>2, IMSame
<1> QED BY <1>1, <1>2, IMCheck, IMTool, IMList, IMLoad, IMLeave, IMCreate, IMPass, IMSave, IMUpdate
        DEF IM!Next

-----------------------------------------------------------------------------
(* BulkSync.  A server keeps its projects, and one of a slug: what a machine   *)
(* has found out about one, or sent to it, stays true whatever the others      *)
(* create meanwhile.                                                         *)
Slugs == STRING \cup {SlugOf[p] : p \in Projects} \cup {SuffixedSlug(SlugOf[p], KeyOf[p]) : p \in Projects}
Listable ==
  [slug : Slugs,
   key : STRING \cup {nokey} \cup {KeyOf[p] : p \in Projects} \cup {LocalKey(SlugOf[p]) : p \in Projects}]
Syncs ==
  [pc : {"idle", "next", "find", "refind", "create", "push", "sync", "sent", "ok", "failed"},
   todo : SUBSET Projects, p : Projects \cup {none}, r : Remotes \cup {none},
   slug : Slugs \cup {none}, next : Nat, listed : [Remotes -> {none} \cup SUBSET Listable],
   unsynced : Nat]

OneOfASlug == \A r \in Remotes : \A t, u \in server[r] : t.slug = u.slug => t = u
There(r, s) == \E t \in server[r] : t.slug = s

(* A repository may be sent to a slug that is registered to it or to nobody.    *)
Fitting(p, r, s) ==
  KeyOf[p] # nokey /\ <<p, r, s>> \notin blind =>
    \A t \in server[r] : t.slug = s => t.key \in {KeyOf[p]} \cup BS!Unowned(t.slug)

LandedOK(l) ==
  l[2] \in Projects /\ l[3] \in Remotes /\ There(l[3], l[4]) /\ Fitting(l[2], l[3], l[4])
LinkedOK == \A c \in Machines, r \in Remotes : \A i \in DOMAIN linked[c][r] : There(r, linked[c][r][i])

(* What a machine has sent of a project, and what it still has to send.        *)
SentTo(c, p, r, s, n) == \A b \in 1 .. n : <<c, p, r, s, b>> \in landed
Sent(c, p) == \E r \in Remotes : \E t \in server[r] : SentTo(c, p, r, t.slug, BS!Batches(p))
Due(p) == p \in Projects /\ bsRoute[p] # none /\ BS!Sendable(p) # {}
SentAllBut(c, S) == \A p \in Projects : Due(p) => p \in S \/ Sent(c, p)

ListsOK(j) == \A r \in Remotes : j.listed[r] = none \/ j.listed[r] \subseteq server[r]
BucketOK(j) ==
  /\ j.pc \in {"find", "refind", "create", "push", "sync"} => j.p \in Projects /\ j.r \in Remotes
  /\ j.pc \in {"find", "refind", "create"} => j.next = 1
  /\ j.pc = "create" => j.slug \in Slugs /\ j.listed[j.r] \subseteq server[j.r]
PushOK(c, j) ==
  j.pc \in {"push", "sync"} =>
    /\ There(j.r, j.slug) /\ Fitting(j.p, j.r, j.slug)
    /\ j.next # 0 /\ SentTo(c, j.p, j.r, j.slug, j.next - 1)
ToDo(j) == j.todo \cup IF j.pc \in {"next", "ok"} THEN {} ELSE {j.p}
SyncedOK(c, j) ==
  /\ j.pc \in {"next", "find", "refind", "create", "push", "ok"} /\ j.unsynced = 0 =>
       SentAllBut(c, ToDo(j))
  /\ j.pc = "ok" => j.todo = {} /\ j.unsynced = 0
SyncOK(c, j) == j \in Syncs /\ ListsOK(j) /\ BucketOK(j) /\ PushOK(c, j) /\ SyncedOK(c, j)

BSInv ==
  /\ server \in [Remotes -> SUBSET Listable] /\ OneOfASlug
  /\ linked \in [Machines -> [Remotes -> Seq(Slugs)]] /\ LinkedOK
  /\ \A l \in landed : LandedOK(l)
  /\ DOMAIN bsRun = Machines /\ \A c \in Machines : SyncOK(c, bsRun[c])

(* The properties are part of the invariant.                                 *)
LEMMA BSOwn == BSInv => BS!OwnOrUnowned
BY DEF BSInv, LandedOK, Fitting, BS!OwnOrUnowned

LEMMA BSSentAll == BSInv => BS!CleanExitSentAll
<1> SUFFICES ASSUME BSInv, NEW c \in Machines, bsRun[c].pc = "ok", NEW p \in Projects,
                    bsRoute[p] # none, BS!Sendable(p) # {}
             PROVE  Sent(c, p)
  BY DEF BS!CleanExitSentAll, Sent, SentTo
<1>1. SyncedOK(c, bsRun[c])
  BY DEF BSInv, SyncOK
<1>2. ToDo(bsRun[c]) = {}
  BY <1>1 DEF SyncedOK, ToDo
<1> QED BY <1>1, <1>2 DEF SyncedOK, SentAllBut, Due

(* Batches are counted in whole numbers.                                     *)
LEMMA BatchNumbers == ASSUME NEW p \in Projects PROVE BS!Batches(p) \in Int
<1>1. IsFiniteSet(BS!Sendable(p))
  <2>1. IsFiniteSet(Memories[p]) /\ BS!Sendable(p) \subseteq Memories[p]
    BY CallersAssumption DEF BS!Sendable
  <2> QED BY <2>1, FS_Subset
<1>2. BS!Cardinality(BS!Sendable(p)) \in Nat
  <2>1. BS!Cardinality(BS!Sendable(p)) = Cardinality(BS!Sendable(p))
    BY DEF BS!Cardinality, Cardinality
  <2> QED BY <1>1, <2>1, FS_CardinalityType
<1>3. PerBatch \in Nat \ {0}
  BY CallersAssumption
<1> QED BY <1>2, <1>3 DEF BS!Batches

(* Nothing is done at first.                                                 *)
LEMMA BSInit == BS!Init => BSInv
<1> SUFFICES ASSUME BS!Init PROVE BSInv
  OBVIOUS
<1>1. server \in [Remotes -> SUBSET Listable] /\ OneOfASlug
  <2>1. [slug : STRING, key : STRING \cup {nokey}] \subseteq Listable
    BY DEF Listable, Slugs
  <2>2. PICK f \in AtFirst : server = f
    BY DEF BS!Init
  <2> QED BY <2>1, <2>2, CallersAssumption DEF OneOfASlug
<1>2. linked \in [Machines -> [Remotes -> Seq(Slugs)]] /\ LinkedOK
  <2>1. <<>> \in Seq(Slugs) /\ DOMAIN <<>> = {}
    OBVIOUS
  <2> QED BY <2>1 DEF BS!Init, LinkedOK
<1>3. SyncOK("c", BS!Idle) /\ \A c \in Machines : SyncOK(c, BS!Idle)
  BY DEF BS!Idle, SyncOK, Syncs, ListsOK, BucketOK, PushOK, SyncedOK
<1> QED BY <1>1, <1>2, <1>3 DEF BS!Init, BSInv

(* Servers, what has landed and what went out unseen only grow.              *)
Grown ==
  /\ \A r \in Remotes : server[r] \subseteq server'[r]
  /\ landed \subseteq landed' /\ blind \subseteq blind' /\ OneOfASlug'

(* So what was found and sent stays,                                         *)
LEMMA FactsStay ==
  ASSUME Grown, NEW r \in Remotes, NEW s
  PROVE  /\ There(r, s) => There(r, s)'
         /\ \A p : There(r, s) /\ Fitting(p, r, s) => Fitting(p, r, s)'
         /\ \A c, p, n : SentTo(c, p, r, s, n) => SentTo(c, p, r, s, n)'
<1>1. There(r, s) => There(r, s)'
  BY DEF Grown, There
<1>2. ASSUME NEW p, There(r, s), Fitting(p, r, s) PROVE Fitting(p, r, s)'
  <2>1. PICK u \in server[r] : u.slug = s
    BY <1>2 DEF There
  <2>2. \A t \in server'[r] : t.slug = s => t = u
    BY <2>1 DEF Grown, OneOfASlug
  <2> QED BY <1>2, <2>1, <2>2 DEF Fitting, Grown
<1>3. \A c, p, n : SentTo(c, p, r, s, n) => SentTo(c, p, r, s, n)'
  BY DEF SentTo, Grown
<1> QED BY <1>1, <1>2, <1>3

LEMMA SyncedStays == ASSUME Grown, NEW c, NEW j, SyncedOK(c, j) PROVE SyncedOK(c, j)'
<1>1. \A p \in Projects : Sent(c, p) => Sent(c, p)'
  <2> SUFFICES ASSUME NEW p \in Projects, Sent(c, p) PROVE Sent(c, p)'
    OBVIOUS
  <2>1. PICK r \in Remotes : \E t \in server[r] : SentTo(c, p, r, t.slug, BS!Batches(p))
    BY DEF Sent
  <2>2. PICK t \in server[r] : SentTo(c, p, r, t.slug, BS!Batches(p))
    BY <2>1
  <2>3. t \in server'[r] /\ SentTo(c, p, r, t.slug, BS!Batches(p))'
    BY <2>2 DEF Grown, SentTo
  <2> QED BY <2>3 DEF Sent, BS!Batches, BS!Sendable
<1> QED BY <1>1 DEF SyncedOK, SentAllBut, Due, ToDo, BS!Sendable

(* and so does what a machine is about.                                      *)
LEMMA SyncStays == ASSUME Grown, NEW c, NEW j, SyncOK(c, j) PROVE SyncOK(c, j)'
<1>1. ListsOK(j)' /\ BucketOK(j)'
  BY DEF SyncOK, ListsOK, BucketOK, Grown
<1>2. PushOK(c, j)'
  BY FactsStay DEF SyncOK, BucketOK, PushOK
<1>3. SyncedOK(c, j)'
  BY SyncedStays DEF SyncOK
<1> QED BY <1>1, <1>2, <1>3 DEF SyncOK

(* A step of one machine is judged by what it sets out to do next and by what  *)
(* it adds to the landed.                                                    *)
LEMMA OneActs ==
  ASSUME BSInv, Grown, server' \in [Remotes -> SUBSET Listable], NEW c \in Machines, UNCHANGED linked,
         NEW j, bsRun' = [bsRun EXCEPT ![c] = j], SyncOK(c, j)',
         \A l \in landed' : l \in landed \/ LandedOK(l)'
  PROVE  BSInv'
<1>1. ASSUME NEW d \in Machines PROVE SyncOK(d, bsRun[d])'
  <2>1. CASE d = c
    BY <2>1 DEF BSInv
  <2>2. CASE d # c
    <3>1. PICK k : k = bsRun[d] /\ k = bsRun'[d] /\ SyncOK(d, k)
      BY <2>2 DEF BSInv
    <3>2. SyncOK(d, k)'
      BY <3>1, SyncStays
    <3> QED BY <3>1, <3>2
  <2> QED BY <2>1, <2>2
<1>2. LinkedOK'
  BY FactsStay DEF BSInv, LinkedOK
<1>3. \A l \in landed' : LandedOK(l)'
  BY FactsStay DEF BSInv, LandedOK
<1> QED BY <1>1, <1>2, <1>3 DEF BSInv, Grown

(* Nothing is created or sent in most steps.                                 *)
LEMMA QuietStep ==
  ASSUME BSInv, NEW c \in Machines, NEW j, BS!Become(c, j), SyncOK(c, j),
         UNCHANGED <<server, linked, landed>>, blind \subseteq blind'
  PROVE  BSInv'
<1>1. Grown /\ server' \in [Remotes -> SUBSET Listable]
  BY DEF BSInv, Grown, OneOfASlug
<1>2. SyncOK(c, j)'
  BY <1>1, SyncStays
<1>3. \A l \in landed' : l \in landed \/ LandedOK(l)'
  OBVIOUS
<1>4. bsRun' = [bsRun EXCEPT ![c] = j]
  BY DEF BS!Become
<1> QED BY <1>1, <1>2, <1>3, <1>4, OneActs

(* A machine is done with what it sent, or gives it up.                        *)
LEMMA EndOK ==
  ASSUME BSInv, NEW c \in Machines, NEW pc \in {"sent", "failed"}
  PROVE  SyncOK(c, [bsRun[c] EXCEPT !.pc = pc])
<1>1. bsRun[c] \in Syncs /\ ListsOK(bsRun[c])
  BY DEF BSInv, SyncOK
<1>2. [bsRun[c] EXCEPT !.pc = pc] \in Syncs
  BY <1>1 DEF Syncs
<1>3. PICK w : w = [bsRun[c] EXCEPT !.pc = pc]
  OBVIOUS
<1>4. w \in Syncs /\ w.pc = pc /\ w.listed = bsRun[c].listed
  BY <1>1, <1>2, <1>3 DEF Syncs
<1>5. ListsOK(w)
  BY <1>1, <1>4 DEF ListsOK
<1>6. BucketOK(w) /\ PushOK(c, w) /\ SyncedOK(c, w)
  BY <1>4 DEF BucketOK, PushOK, SyncedOK
<1> QED BY <1>3, <1>4, <1>5, <1>6 DEF SyncOK

LEMMA GivenUpOK ==
  ASSUME BSInv, NEW c \in Machines, NEW S \in SUBSET Projects
  PROVE  SyncOK(c, [bsRun[c] EXCEPT !.pc = "next", !.todo = S, !.unsynced = @ + 1])
<1>1. bsRun[c] \in Syncs /\ ListsOK(bsRun[c]) /\ bsRun[c].unsynced \in Nat
  BY DEF BSInv, SyncOK, Syncs
<1>2. [bsRun[c] EXCEPT !.pc = "next", !.todo = S, !.unsynced = @ + 1] \in Syncs
  <2>1. PICK n : n = bsRun[c].unsynced + 1 /\ n \in Nat
    BY <1>1
  <2>2. [bsRun[c] EXCEPT !.pc = "next", !.todo = S, !.unsynced = n] \in Syncs
    BY <1>1, <2>1 DEF Syncs
  <2> QED BY <2>1, <2>2
<1>3. PICK w : w = [bsRun[c] EXCEPT !.pc = "next", !.todo = S, !.unsynced = @ + 1]
  OBVIOUS
<1>4. /\ w \in Syncs /\ w.pc = "next" /\ w.listed = bsRun[c].listed
      /\ w.unsynced = bsRun[c].unsynced + 1
  BY <1>1, <1>2, <1>3 DEF Syncs
<1>5. ListsOK(w)
  BY <1>1, <1>4 DEF ListsOK
<1>6. w.unsynced # 0
  BY <1>1, <1>4
<1>7. BucketOK(w) /\ PushOK(c, w) /\ SyncedOK(c, w)
  BY <1>4, <1>6 DEF BucketOK, PushOK, SyncedOK
<1> QED BY <1>3, <1>4, <1>5, <1>7 DEF SyncOK

LEMMA GiveUpOK ==
  ASSUME BSInv, NEW c \in Machines
  PROVE  SyncOK(c, [bsRun[c] EXCEPT !.pc = "next", !.unsynced = @ + 1])
<1>1. bsRun[c] \in Syncs /\ bsRun[c].todo \in SUBSET Projects
  BY DEF BSInv, SyncOK, Syncs
<1>2. [bsRun[c] EXCEPT !.pc = "next", !.unsynced = @ + 1]
        = [bsRun[c] EXCEPT !.pc = "next", !.todo = bsRun[c].todo, !.unsynced = @ + 1]
  BY <1>1 DEF Syncs
<1> QED BY <1>1, <1>2, GivenUpOK

(* The whole plan is still to do when it is made.                            *)
LEMMA SyncAllKeeps == ASSUME BSInv, NEW c \in Machines, BS!SyncAll(c) PROVE BSInv'
<1> DEFINE S == {p \in Projects : \E m \in Memories[p] : BS!Syncable(m)}
           j == [bsRun[c] EXCEPT !.pc = "next", !.todo = S]
<1>1. bsRun[c] \in Syncs /\ ListsOK(bsRun[c])
  BY DEF BSInv, SyncOK
<1>2. j \in Syncs
  BY <1>1 DEF Syncs
<1>3. PICK w : w = j
  OBVIOUS
<1>4. w \in Syncs /\ w.pc = "next" /\ w.todo = S /\ w.listed = bsRun[c].listed
  BY <1>1, <1>2, <1>3 DEF Syncs
<1>5. SentAllBut(c, ToDo(w))
  <2>1. \A p : Due(p) => p \in S
    BY DEF Due, BS!Sendable
  <2>2. ToDo(w) = S
    BY <1>4 DEF ToDo
  <2> QED BY <2>1, <2>2 DEF SentAllBut
<1>6. ListsOK(w) /\ BucketOK(w) /\ PushOK(c, w) /\ SyncedOK(c, w)
  BY <1>1, <1>4, <1>5 DEF ListsOK, BucketOK, PushOK, SyncedOK
<1>7. SyncOK(c, j)
  BY <1>3, <1>4, <1>6 DEF SyncOK
<1> HIDE DEF j
<1>8. BS!Become(c, j) /\ UNCHANGED <<server, linked, landed>> /\ blind \subseteq blind'
  BY DEF BS!SyncAll, j
<1> QED BY <1>7, <1>8, QuietStep

LEMMA FinishKeeps == ASSUME BSInv, NEW c \in Machines, BS!Finish(c) PROVE BSInv'
<1>1. bsRun[c] \in Syncs /\ ListsOK(bsRun[c]) /\ SyncedOK(c, bsRun[c]) /\ bsRun[c].unsynced \in Nat
  BY DEF BSInv, SyncOK, Syncs
<1>2. CASE bsRun[c].unsynced > 0
  <2>1. BS!Become(c, [bsRun[c] EXCEPT !.pc = "failed"])
    BY <1>2 DEF BS!Finish, BS!Goto
  <2> QED BY <2>1, EndOK, QuietStep DEF BS!Finish
<1>3. CASE ~(bsRun[c].unsynced > 0)
  <2> DEFINE j == [bsRun[c] EXCEPT !.pc = "ok"]
  <2>1. BS!Become(c, j)
    BY <1>3 DEF BS!Finish, BS!Goto
  <2>2. j \in Syncs
    BY <1>1 DEF Syncs
  <2>3. PICK w : w = j
    OBVIOUS
  <2>4. /\ w \in Syncs /\ w.pc = "ok" /\ w.todo = bsRun[c].todo /\ w.listed = bsRun[c].listed
        /\ w.unsynced = bsRun[c].unsynced
    BY <1>1, <2>2, <2>3 DEF Syncs
  <2>5. bsRun[c].unsynced = 0
    BY <1>1, <1>3
  <2>6. ListsOK(w) /\ BucketOK(w) /\ PushOK(c, w)
    BY <1>1, <2>4 DEF ListsOK, BucketOK, PushOK
  <2>7. SyncedOK(c, w)
    <3>1. bsRun[c].pc = "next" /\ bsRun[c].todo = {}
      BY DEF BS!Finish
    <3>2. ToDo(w) = ToDo(bsRun[c])
      BY <2>4, <3>1 DEF ToDo
    <3> QED BY <1>1, <2>4, <2>5, <3>1, <3>2 DEF SyncedOK
  <2>8. SyncOK(c, j)
    BY <2>3, <2>4, <2>6, <2>7 DEF SyncOK
  <2> QED BY <2>1, <2>8, QuietStep DEF BS!Finish
<1> QED BY <1>2, <1>3

LEMMA FailuresKeep ==
  ASSUME BSInv, NEW c \in Machines, BS!ListFails(c) \/ \E p \in Projects : BS!Held(c, p)
  PROVE  BSInv'
<1>1. CASE BS!ListFails(c)
  BY <1>1, GiveUpOK, QuietStep DEF BS!ListFails, BS!GiveUp
<1>2. CASE \E p \in Projects : BS!Held(c, p)
  <2>1. PICK p \in Projects : BS!Held(c, p)
    BY <1>2
  <2>2. bsRun[c] \in Syncs /\ bsRun[c].todo \in SUBSET Projects /\ bsRun[c].pc = "next"
    BY <2>1 DEF BSInv, SyncOK, Syncs, BS!Held
  <2>3. [bsRun[c] EXCEPT !.todo = @ \ {p}, !.unsynced = @ + 1]
          = [bsRun[c] EXCEPT !.pc = "next", !.todo = bsRun[c].todo \ {p}, !.unsynced = @ + 1]
    BY <2>2 DEF Syncs
  <2>4. SyncOK(c, [bsRun[c] EXCEPT !.todo = @ \ {p}, !.unsynced = @ + 1])
    BY <2>2, <2>3, GivenUpOK
  <2> QED BY <2>1, <2>4, QuietStep DEF BS!Held
<1> QED BY <1>1, <1>2

(* What is known by its key is of the project; what may be adopted is nobody's.     *)
LEMMA OwnFits ==
  ASSUME BSInv, NEW p \in Projects, NEW r \in Remotes, NEW t \in server[r],
         \/ KeyOf[p] \in {nokey, t.key}
         \/ t.key = nokey
         \/ BS!AdoptableBySlug(t, p) /\ t.slug = SlugOf[p]
  PROVE  There(r, t.slug) /\ Fitting(p, r, t.slug) /\ t.slug \in Slugs
<1>1. t.slug \in Slugs
  BY DEF BSInv, Listable
<1>2. There(r, t.slug)
  BY DEF There
<1>3. KeyOf[p] # nokey => t.key \in {KeyOf[p]} \cup BS!Unowned(t.slug)
  BY DEF BS!AdoptableBySlug, BS!Unowned
<1>4. \A u \in server[r] : u.slug = t.slug => u = t
  BY DEF BSInv, OneOfASlug
<1> QED BY <1>1, <1>2, <1>3, <1>4 DEF Fitting

LEMMA PushBegins ==
  ASSUME NEW c, NEW j \in Syncs, j.next = 1, j.p \in Projects, j.r \in Remotes, There(j.r, j.slug),
         Fitting(j.p, j.r, j.slug), ListsOK(j), SyncedOK(c, j), j.pc \in {"push", "sync"}
  PROVE  SyncOK(c, j)
<1>1. SentTo(c, j.p, j.r, j.slug, j.next - 1)
  BY DEF SentTo
<1>2. BucketOK(j) /\ PushOK(c, j)
  BY <1>1 DEF BucketOK, PushOK
<1> QED BY <1>2 DEF SyncOK

LEMMA TakeBucketKeeps ==
  ASSUME BSInv, NEW c \in Machines, NEW p \in Projects, BS!TakeBucket(c, p) PROVE BSInv'
<1> DEFINE begin == [bsRun[c] EXCEPT !.p = p, !.next = 1, !.todo = @ \ {p}]
<1>1. bsRun[c] \in Syncs /\ ListsOK(bsRun[c]) /\ SyncedOK(c, bsRun[c])
  BY DEF BSInv, SyncOK
<1>2. bsRun[c].pc = "next" /\ p \in bsRun[c].todo
  BY DEF BS!TakeBucket
<1>3. begin \in Syncs
  BY <1>1 DEF Syncs
<1>4. PICK b : b = begin
  OBVIOUS
<1>5. /\ b \in Syncs /\ b.pc = "next" /\ b.p = p /\ b.next = 1 /\ b.todo = bsRun[c].todo \ {p}
      /\ b.listed = bsRun[c].listed /\ b.unsynced = bsRun[c].unsynced
  BY <1>1, <1>2, <1>3, <1>4 DEF Syncs
<1>6. bsRun[c].unsynced = 0 => SentAllBut(c, b.todo \cup {p})
  <2>1. ToDo(bsRun[c]) = b.todo \cup {p}
    BY <1>2, <1>5 DEF ToDo
  <2> QED BY <1>1, <1>2, <2>1 DEF SyncedOK
<1>7. \E j : BS!Become(c, j) /\ SyncOK(c, j)
  <2>1. CASE \E r \in BS!Preferred(p) : \E t \in BS!ByKey(server[r], KeyOf[p]) :
               BS!Become(c, [begin EXCEPT !.pc = "push", !.r = r, !.slug = t.slug])
    <3>1. PICK r \in BS!Preferred(p) : \E t \in BS!ByKey(server[r], KeyOf[p]) :
               BS!Become(c, [b EXCEPT !.pc = "push", !.r = r, !.slug = t.slug])
      BY <2>1, <1>4
    <3>2. PICK t \in BS!ByKey(server[r], KeyOf[p]) :
               BS!Become(c, [b EXCEPT !.pc = "push", !.r = r, !.slug = t.slug])
      BY <3>1
    <3>3. r \in Remotes /\ t \in server[r] /\ t.key = KeyOf[p]
      BY DEF BS!Preferred, BS!Knowing, BS!ByKey
    <3>4. There(r, t.slug) /\ Fitting(p, r, t.slug) /\ t.slug \in Slugs
      BY <3>3, OwnFits
    <3>5. PICK j : j = [b EXCEPT !.pc = "push", !.r = r, !.slug = t.slug]
      OBVIOUS
    <3>6. j \in Syncs
      BY <1>5, <3>3, <3>4, <3>5 DEF Syncs
    <3>7. /\ j.pc = "push" /\ j.p = p /\ j.r = r /\ j.slug = t.slug /\ j.next = 1 /\ j.todo = b.todo
          /\ j.listed = bsRun[c].listed /\ j.unsynced = bsRun[c].unsynced
      BY <1>5, <3>5 DEF Syncs
    <3>8. ListsOK(j)
      BY <1>1, <3>7 DEF ListsOK
    <3>9. SyncedOK(c, j)
      BY <1>6, <3>7 DEF SyncedOK, ToDo
    <3> QED BY <3>2, <3>3, <3>4, <3>5, <3>6, <3>7, <3>8, <3>9, PushBegins
  <2>2. CASE bsRoute[p] # none /\ BS!Become(c, [begin EXCEPT !.pc = "find", !.r = bsRoute[p]])
    <3>1. bsRoute[p] \in Remotes
      BY <2>2, CallersAssumption
    <3>2. PICK j : j = [b EXCEPT !.pc = "find", !.r = bsRoute[p]]
      OBVIOUS
    <3>3. j \in Syncs
      BY <1>5, <3>1, <3>2 DEF Syncs
    <3>4. /\ j.pc = "find" /\ j.p = p /\ j.r = bsRoute[p] /\ j.next = 1 /\ j.todo = b.todo
          /\ j.listed = bsRun[c].listed /\ j.unsynced = bsRun[c].unsynced
      BY <1>5, <3>2 DEF Syncs
    <3>5. ListsOK(j) /\ BucketOK(j) /\ PushOK(c, j)
      BY <1>1, <3>1, <3>4 DEF ListsOK, BucketOK, PushOK
    <3>6. SyncedOK(c, j)
      BY <1>6, <3>4 DEF SyncedOK, ToDo
    <3> QED BY <2>2, <1>4, <3>2, <3>3, <3>5, <3>6 DEF SyncOK
  <2>3. CASE bsRoute[p] = none /\ BS!Become(c, begin)
    <3>1. ListsOK(b) /\ BucketOK(b) /\ PushOK(c, b)
      BY <1>1, <1>5 DEF ListsOK, BucketOK, PushOK
    <3>2. SyncedOK(c, b)
      <4>1. ~Due(p) /\ ToDo(b) = b.todo
        BY <2>3, <1>5 DEF Due, ToDo
      <4>2. b.unsynced = 0 => SentAllBut(c, b.todo)
        BY <1>5, <1>6, <4>1 DEF SentAllBut
      <4> QED BY <1>5, <4>1, <4>2 DEF SyncedOK
    <3> QED BY <2>3, <1>4, <1>5, <3>1, <3>2 DEF SyncOK
  <2> QED BY <2>1, <2>2, <2>3 DEF BS!TakeBucket
<1>8. UNCHANGED <<server, linked, landed>> /\ blind \subseteq blind'
  BY DEF BS!TakeBucket
<1> QED BY <1>7, <1>8, QuietStep

LEMMA FindKeeps == ASSUME BSInv, NEW c \in Machines, BS!Find(c) PROVE BSInv'
<1> DEFINE again == bsRun[c].pc = "refind"
           list == IF again \/ bsRun[c].listed[bsRun[c].r] = none THEN server[bsRun[c].r]
                   ELSE bsRun[c].listed[bsRun[c].r]
           seen == [bsRun[c] EXCEPT !.listed[bsRun[c].r] = list]
           match == BS!ByKey(list, KeyOf[bsRun[c].p])
           own == IF match # {} THEN match
                  ELSE {t \in BS!BySlug(list, bsRun[c].p) : BS!AdoptableBySlug(t, bsRun[c].p)}
<1>1. bsRun[c] \in Syncs /\ ListsOK(bsRun[c]) /\ SyncedOK(c, bsRun[c]) /\ BucketOK(bsRun[c])
  BY DEF BSInv, SyncOK
<1>2. PICK p \in Projects, r \in Remotes : p = bsRun[c].p /\ r = bsRun[c].r /\ bsRun[c].next = 1
  BY <1>1 DEF BucketOK, BS!Find
<1>3. PICK L : L = list
  OBVIOUS
<1>4. L \subseteq server[r] /\ L \subseteq Listable /\ bsRun[c].listed \in [Remotes -> {none} \cup SUBSET Listable]
  <2>1. server[r] \subseteq Listable
    BY DEF BSInv
  <2>2. bsRun[c].listed[r] = none \/ bsRun[c].listed[r] \subseteq server[r]
    BY <1>1 DEF ListsOK
  <2> QED BY <1>1, <1>2, <1>3, <2>1, <2>2 DEF Syncs
<1>5. PICK b : b = seen
  OBVIOUS
<1>6. seen \in Syncs
  <2>1. [bsRun[c].listed EXCEPT ![r] = L] \in [Remotes -> {none} \cup SUBSET Listable]
    BY <1>4
  <2>2. seen = [bsRun[c] EXCEPT !.listed = [bsRun[c].listed EXCEPT ![r] = L]]
    BY <1>1, <1>2, <1>3 DEF Syncs
  <2> HIDE DEF seen
  <2> QED BY <1>1, <2>1, <2>2 DEF Syncs
<1>7. /\ b \in Syncs /\ b.p = p /\ b.r = r /\ b.next = 1 /\ b.todo = bsRun[c].todo
      /\ b.listed = [bsRun[c].listed EXCEPT ![r] = L] /\ b.unsynced = bsRun[c].unsynced
  BY <1>1, <1>2, <1>3, <1>5, <1>6 DEF Syncs
<1>8. ListsOK(b) /\ b.listed[r] = L
  BY <1>1, <1>4, <1>7 DEF ListsOK
<1>9. bsRun[c].unsynced = 0 => SentAllBut(c, b.todo \cup {p})
  <2>1. ToDo(bsRun[c]) = b.todo \cup {p}
    BY <1>2, <1>7 DEF ToDo, BS!Find
  <2> QED BY <1>1, <2>1 DEF SyncedOK, BS!Find
<1>10. UNCHANGED <<server, linked, landed>> /\ blind \subseteq blind'
  BY DEF BS!Find
<1>11. \A t \in own : t \in server[r] /\ (KeyOf[p] = t.key \/ (BS!AdoptableBySlug(t, p) /\ t.slug = SlugOf[p]))
  BY <1>2, <1>3, <1>4 DEF BS!ByKey, BS!BySlug
<1>12. ASSUME NEW s, s \in {SlugOf[p], SuffixedSlug(SlugOf[p], KeyOf[p])},
              BS!Become(c, [seen EXCEPT !.pc = "create", !.slug = s])
       PROVE  BSInv'
  <2>1. s \in Slugs
    BY <1>12 DEF Slugs
  <2>2. PICK j : j = [b EXCEPT !.pc = "create", !.slug = s]
    OBVIOUS
  <2>3. j \in Syncs
    BY <1>7, <2>1, <2>2 DEF Syncs
  <2>4. /\ j.pc = "create" /\ j.p = p /\ j.r = r /\ j.slug = s /\ j.next = 1 /\ j.todo = b.todo
        /\ j.listed = b.listed /\ j.unsynced = b.unsynced
    BY <1>7, <2>2 DEF Syncs
  <2>5. ListsOK(j) /\ BucketOK(j) /\ PushOK(c, j)
    BY <1>4, <1>8, <2>1, <2>4 DEF ListsOK, BucketOK, PushOK
  <2>6. SyncedOK(c, j)
    BY <1>7, <1>9, <2>4 DEF SyncedOK, ToDo
  <2>7. SyncOK(c, j)
    BY <2>3, <2>5, <2>6 DEF SyncOK
  <2> HIDE DEF seen
  <2>8. BS!Become(c, j)
    BY <1>5, <1>12, <2>2
  <2> QED BY <1>10, <2>7, <2>8, QuietStep
<1>13. CASE \E t \in own : BS!Become(c, [seen EXCEPT !.pc = "push", !.slug = t.slug])
  <2> HIDE DEF own, seen
  <2>1. PICK t \in own : BS!Become(c, [b EXCEPT !.pc = "push", !.slug = t.slug])
    BY <1>13, <1>5
  <2>2. There(r, t.slug) /\ Fitting(p, r, t.slug) /\ t.slug \in Slugs
    BY <1>11, OwnFits
  <2>3. PICK j : j = [b EXCEPT !.pc = "push", !.slug = t.slug]
    OBVIOUS
  <2>4. j \in Syncs
    BY <1>7, <2>2, <2>3 DEF Syncs
  <2>5. /\ j.pc = "push" /\ j.p = p /\ j.r = r /\ j.slug = t.slug /\ j.next = 1 /\ j.todo = b.todo
        /\ j.listed = b.listed /\ j.unsynced = b.unsynced
    BY <1>7, <2>3 DEF Syncs
  <2>6. ListsOK(j) /\ SyncedOK(c, j)
    BY <1>7, <1>8, <1>9, <2>5 DEF ListsOK, SyncedOK, ToDo
  <2>7. SyncOK(c, j)
    BY <2>2, <2>4, <2>5, <2>6, PushBegins
  <2> QED BY <1>10, <2>1, <2>3, <2>7, QuietStep
<1>14. CASE BS!GiveUp(c)
  BY <1>10, <1>14, GiveUpOK, QuietStep DEF BS!GiveUp
<1> QED BY <1>2, <1>12, <1>13, <1>14 DEF BS!Find

(* After a creation that failed, the list is read again.                       *)
LEMMA RefindOK ==
  ASSUME BSInv, NEW c \in Machines, NEW j, j = [bsRun[c] EXCEPT !.pc = "refind"], bsRun[c].pc = "create"
  PROVE  SyncOK(c, j)
<1>1. bsRun[c] \in Syncs /\ SyncOK(c, bsRun[c])
  BY DEF BSInv, SyncOK
<1>2. j \in Syncs
  BY <1>1 DEF Syncs
<1>3. /\ j.pc = "refind" /\ j.p = bsRun[c].p /\ j.r = bsRun[c].r /\ j.next = bsRun[c].next
      /\ j.todo = bsRun[c].todo /\ j.listed = bsRun[c].listed /\ j.unsynced = bsRun[c].unsynced
  BY <1>1, <1>2 DEF Syncs
<1>4. ListsOK(j) /\ BucketOK(j) /\ PushOK(c, j)
  BY <1>1, <1>3 DEF SyncOK, ListsOK, BucketOK, PushOK
<1>5. SyncedOK(c, j)
  BY <1>1, <1>3 DEF SyncOK, SyncedOK, ToDo
<1> QED BY <1>2, <1>4, <1>5 DEF SyncOK

(* A project is created where none has its slug or its key.                    *)
LEMMA Created ==
  ASSUME BSInv, NEW p \in Projects, NEW r \in Remotes, NEW new \in Listable,
         KeyOf[p] # nokey => new.key = KeyOf[p],
         \A t \in server[r] : t.slug # new.slug,
         server'[r] = server[r] \cup {new}, \A q \in Remotes : q # r => server'[q] = server[q],
         UNCHANGED <<landed, blind>>
  PROVE  Grown /\ There(r, new.slug)' /\ Fitting(p, r, new.slug)'
<1>2. OneOfASlug'
  <2> SUFFICES ASSUME NEW q \in Remotes, NEW t \in server'[q], NEW u \in server'[q], t.slug = u.slug
               PROVE  t = u
    BY DEF OneOfASlug
  <2>1. CASE q # r
    BY <2>1 DEF BSInv, OneOfASlug
  <2>2. CASE q = r
    BY <2>2 DEF BSInv, OneOfASlug
  <2> QED BY <2>1, <2>2
<1>3. There(r, new.slug)'
  BY DEF There
<1>4. Fitting(p, r, new.slug)'
  BY DEF Fitting
<1>5. Grown
  BY <1>2 DEF Grown
<1> QED BY <1>3, <1>4, <1>5

LEMMA CreateProjectKeeps == ASSUME BSInv, NEW c \in Machines, BS!CreateProject(c) PROVE BSInv'
<1>1. bsRun[c] \in Syncs /\ SyncOK(c, bsRun[c]) /\ bsRun[c].pc = "create"
  BY DEF BSInv, SyncOK, BS!CreateProject
<1>2. PICK p \in Projects, r \in Remotes, s \in Slugs :
        p = bsRun[c].p /\ r = bsRun[c].r /\ s = bsRun[c].slug /\ bsRun[c].next = 1
        /\ bsRun[c].listed[r] \subseteq server[r]
  BY <1>1 DEF SyncOK, BucketOK
<1> DEFINE new == [slug |-> s, key |-> IF KeyOf[p] = nokey THEN LocalKey(SlugOf[p]) ELSE KeyOf[p]]
           free == \A t \in server[r] : t.slug # new.slug /\ t.key # new.key
<1>3. \A l \in landed' : l \in landed \/ LandedOK(l)'
  BY DEF BS!CreateProject
<1> DEFINE Made == /\ Grown /\ server' \in [Remotes -> SUBSET Listable]
                   /\ new \in Listable /\ server'[r] = server[r] \cup {new}
                   /\ There(r, s)' /\ Fitting(p, r, s)'
<1>7. ASSUME free, server' = [server EXCEPT ![r] = @ \cup {new}] PROVE Made
  <2>1. PICK x : x = new
    OBVIOUS
  <2>2. x \in Listable /\ x.slug = s /\ (KeyOf[p] # nokey => x.key = KeyOf[p])
    BY <2>1 DEF Listable
  <2>3. /\ server \in [Remotes -> SUBSET Listable]
        /\ \A t \in server[r] : t.slug # x.slug
        /\ server' = [server EXCEPT ![r] = @ \cup {x}]
        /\ UNCHANGED <<landed, blind>>
    BY <1>7, <2>1, <2>2 DEF BSInv, BS!CreateProject
  <2> HIDE DEF new, free
  <2>4. server'[r] = server[r] \cup {x} /\ \A q \in Remotes : q # r => server'[q] = server[q]
    BY <2>3
  <2>5. server' \in [Remotes -> SUBSET Listable]
    BY <2>2, <2>3
  <2>6. Grown /\ There(r, x.slug)' /\ Fitting(p, r, x.slug)'
    BY <2>2, <2>3, <2>4, Created
  <2> QED BY <2>1, <2>2, <2>4, <2>5, <2>6
<1>4. Grown /\ server' \in [Remotes -> SUBSET Listable]
  <2>1. CASE server' = server
    BY <2>1 DEF BSInv, Grown, OneOfASlug, BS!CreateProject
  <2>2. CASE free /\ server' = [server EXCEPT ![r] = @ \cup {new}]
    BY <2>2, <1>7
  <2> QED BY <1>2, <2>1, <2>2 DEF BS!CreateProject
<1>5. CASE BS!Goto(c, "refind")
  <2>1. PICK j : j = [bsRun[c] EXCEPT !.pc = "refind"]
    OBVIOUS
  <2>2. bsRun' = [bsRun EXCEPT ![c] = j]
    BY <1>5, <2>1 DEF BS!Goto, BS!Become
  <2>3. SyncOK(c, j)'
    BY <1>1, <1>4, <2>1, RefindOK, SyncStays
  <2> QED BY <1>3, <1>4, <2>2, <2>3, OneActs DEF BS!CreateProject
<1>6. CASE /\ free /\ server' = [server EXCEPT ![r] = @ \cup {new}]
           /\ BS!Become(c, [bsRun[c] EXCEPT !.pc = "push", !.listed[r] = @ \cup {new}])
  <2>1. new \in Listable /\ server'[r] = server[r] \cup {new} /\ There(r, s)' /\ Fitting(p, r, s)'
    BY <1>6, <1>7
  <2>2. PICK k : k = [bsRun[c].listed EXCEPT ![r] = @ \cup {new}]
    OBVIOUS
  <2>3. bsRun[c].listed \in [Remotes -> {none} \cup SUBSET Listable] /\ bsRun[c].listed[r] \subseteq Listable
    <3>1. server[r] \subseteq Listable
      BY DEF BSInv
    <3> QED BY <1>1, <1>2, <3>1 DEF Syncs
  <2>4. k \in [Remotes -> {none} \cup SUBSET Listable]
    <3>1. bsRun[c].listed[r] \cup {new} \in {none} \cup SUBSET Listable
      BY <2>1, <2>3
    <3> QED BY <2>2, <2>3, <3>1
  <2>5. PICK j : j = [bsRun[c] EXCEPT !.pc = "push", !.listed = k]
    OBVIOUS
  <2>6. j = [bsRun[c] EXCEPT !.pc = "push", !.listed[r] = @ \cup {new}]
    BY <1>1, <2>2, <2>5 DEF Syncs
  <2>7. j \in Syncs
    BY <1>1, <2>4, <2>5 DEF Syncs
  <2>8. /\ j.pc = "push" /\ j.p = p /\ j.r = r /\ j.slug = s /\ j.next = 1 /\ j.todo = bsRun[c].todo
        /\ j.listed = k /\ j.unsynced = bsRun[c].unsynced
    BY <1>1, <1>2, <2>5 DEF Syncs
  <2>9. ListsOK(j)'
    <3> SUFFICES ASSUME NEW q \in Remotes PROVE k[q] = none \/ k[q] \subseteq server'[q]
      BY <2>8 DEF ListsOK
    <3>1. CASE q = r
      BY <1>2, <2>1, <2>2, <2>3, <3>1
    <3>2. CASE q # r
      BY <1>1, <1>4, <2>2, <2>3, <3>2 DEF SyncOK, ListsOK, Grown
    <3> QED BY <3>1, <3>2
  <2>10. SyncedOK(c, j)'
    <3>1. SyncedOK(c, j)
      BY <1>1, <1>2, <2>8 DEF SyncOK, SyncedOK, ToDo
    <3> QED BY <1>4, <3>1, SyncedStays
  <2>11. SentTo(c, p, r, s, j.next - 1)'
    BY <2>8 DEF SentTo
  <2>12. BucketOK(j)' /\ PushOK(c, j)'
    BY <2>1, <2>8, <2>11 DEF BucketOK, PushOK
  <2>13. SyncOK(c, j)'
    BY <2>7, <2>9, <2>10, <2>12 DEF SyncOK
  <2>14. bsRun' = [bsRun EXCEPT ![c] = j]
    BY <1>6, <2>6 DEF BS!Become
  <2> QED BY <1>3, <1>4, <2>13, <2>14, OneActs DEF BS!CreateProject
<1> QED BY <1>2, <1>5, <1>6 DEF BS!CreateProject

(* Batch by batch, a project is sent whole.                                    *)
LEMMA PushKeeps == ASSUME BSInv, NEW c \in Machines, BS!Push(c) PROVE BSInv'
<1>1. bsRun[c] \in Syncs /\ SyncOK(c, bsRun[c]) /\ bsRun[c].pc \in {"push", "sync"}
  BY DEF BSInv, SyncOK, BS!Push
<1>2. PICK p \in Projects, r \in Remotes, s \in Slugs, n \in Nat :
        p = bsRun[c].p /\ r = bsRun[c].r /\ s = bsRun[c].slug /\ n = bsRun[c].next
  <2>1. bsRun[c].slug \in Slugs
    BY <1>1 DEF SyncOK, PushOK, BucketOK, There, BSInv, Listable
  <2> QED BY <1>1, <2>1 DEF SyncOK, BucketOK, Syncs
<1>3. There(r, s) /\ Fitting(p, r, s) /\ n # 0 /\ SentTo(c, p, r, s, n - 1) /\ BS!Batches(p) \in Int
  BY <1>1, <1>2, BatchNumbers DEF SyncOK, PushOK
<1>4. Grown /\ server' \in [Remotes -> SUBSET Listable] /\ UNCHANGED <<server, linked, blind>>
  BY DEF BSInv, Grown, OneOfASlug, BS!Push
<1>5. There(r, s)' /\ Fitting(p, r, s)'
  BY <1>3, <1>4, FactsStay
<1>6. \A l \in landed' : l \in landed \/ LandedOK(l)'
  BY <1>2, <1>5 DEF BS!Push, LandedOK
<1>7. BS!Batches(p) # 0 => SentTo(c, p, r, s, n)'
  <2> SUFFICES ASSUME BS!Batches(p) # 0, NEW b \in 1 .. n PROVE <<c, p, r, s, b>> \in landed'
    BY DEF SentTo
  <2>1. landed' = landed \cup {<<c, p, r, s, n>>}
    BY <1>2 DEF BS!Push
  <2>2. b = n \/ b \in 1 .. (n - 1)
    OBVIOUS
  <2> QED BY <1>3, <2>1, <2>2 DEF SentTo
<1>8. CASE n < BS!Batches(p)
  <2>1. SentTo(c, p, r, s, n)' /\ n + 1 \in Nat /\ n + 1 # 0 /\ n + 1 - 1 = n
    BY <1>3, <1>7, <1>8
  <2>2. PICK j : j = [bsRun[c] EXCEPT !.next = n + 1]
    OBVIOUS
  <2>3. bsRun' = [bsRun EXCEPT ![c] = j]
    BY <1>2, <1>8, <2>2 DEF BS!Push, BS!Become
  <2>4. j \in Syncs
    BY <1>1, <2>1, <2>2 DEF Syncs
  <2>5. /\ j.pc = bsRun[c].pc /\ j.p = p /\ j.r = r /\ j.slug = s /\ j.next = n + 1 /\ j.todo = bsRun[c].todo
        /\ j.listed = bsRun[c].listed /\ j.unsynced = bsRun[c].unsynced
    BY <1>1, <1>2, <2>2 DEF Syncs
  <2>6. ListsOK(j)' /\ BucketOK(j)'
    BY <1>1, <1>4, <2>5 DEF SyncOK, ListsOK, BucketOK
  <2>7. PushOK(c, j)'
    BY <1>5, <2>1, <2>5 DEF PushOK
  <2>8. SyncedOK(c, j)'
    <3>1. ToDo(j) = ToDo(bsRun[c]) /\ SyncedOK(c, bsRun[c])
      BY <1>1, <1>2, <2>5 DEF SyncOK, ToDo
    <3>2. SyncedOK(c, j)
      BY <2>5, <3>1 DEF SyncedOK
    <3> QED BY <1>4, <3>2, SyncedStays
  <2>9. SyncOK(c, j)'
    BY <2>4, <2>6, <2>7, <2>8 DEF SyncOK
  <2> QED BY <1>4, <1>6, <2>3, <2>9, OneActs
<1>9. CASE ~(n < BS!Batches(p)) /\ bsRun[c].pc = "sync"
  <2>1. BS!Become(c, [bsRun[c] EXCEPT !.pc = "sent"])
    BY <1>2, <1>9 DEF BS!Push, BS!Goto
  <2>2. SyncOK(c, [bsRun[c] EXCEPT !.pc = "sent"])
    BY EndOK
  <2>3. PICK j : j = [bsRun[c] EXCEPT !.pc = "sent"]
    OBVIOUS
  <2>4. bsRun' = [bsRun EXCEPT ![c] = j] /\ SyncOK(c, j)'
    BY <1>4, <2>1, <2>2, <2>3, SyncStays DEF BS!Become
  <2> QED BY <1>4, <1>6, <2>4, OneActs
<1>10. CASE ~(n < BS!Batches(p)) /\ bsRun[c].pc = "push"
  <2>1. Sent(c, p)'
    <3>1. SentTo(c, p, r, s, BS!Batches(p))'
      BY <1>3, <1>7, <1>10 DEF SentTo
    <3>2. PICK t \in server[r] : t.slug = s
      BY <1>3 DEF There
    <3>3. t \in server'[r] /\ SentTo(c, p, r, t.slug, BS!Batches(p))'
      BY <1>4, <3>1, <3>2
    <3> QED BY <3>3 DEF Sent, BS!Batches, BS!Sendable
  <2>2. PICK j : j = [bsRun[c] EXCEPT !.pc = "next"]
    OBVIOUS
  <2>3. bsRun' = [bsRun EXCEPT ![c] = j]
    BY <1>2, <1>10, <2>2 DEF BS!Push, BS!Goto, BS!Become
  <2>4. j \in Syncs
    BY <1>1, <2>2 DEF Syncs
  <2>5. /\ j.pc = "next" /\ j.todo = bsRun[c].todo
        /\ j.listed = bsRun[c].listed /\ j.unsynced = bsRun[c].unsynced
    BY <1>1, <2>2 DEF Syncs
  <2>6. ListsOK(j)' /\ BucketOK(j)' /\ PushOK(c, j)'
    BY <1>1, <1>4, <2>5 DEF SyncOK, ListsOK, BucketOK, PushOK
  <2>7. SyncedOK(c, j)'
    <3>1. SyncedOK(c, bsRun[c]) /\ ToDo(bsRun[c]) = j.todo \cup {p} /\ ToDo(j) = j.todo
      BY <1>1, <1>2, <1>10, <2>5 DEF SyncOK, ToDo
    <3>2. PICK k : k = bsRun[c]
      OBVIOUS
    <3>3. SyncedOK(c, k)'
      BY <1>4, <3>1, <3>2, SyncedStays
    <3>4. SentAllBut(c, ToDo(k))' \/ j.unsynced # 0
      BY <1>10, <2>5, <3>2, <3>3 DEF SyncedOK
    <3>5. ToDo(k)' = j.todo \cup {p} /\ ToDo(j)' = j.todo
      BY <3>1, <3>2 DEF ToDo
    <3>6. SentAllBut(c, ToDo(j))' \/ j.unsynced # 0
      BY <2>1, <3>4, <3>5 DEF SentAllBut
    <3> QED BY <2>5, <3>6 DEF SyncedOK
  <2>8. SyncOK(c, j)'
    BY <2>4, <2>6, <2>7 DEF SyncOK
  <2> QED BY <1>4, <1>6, <2>3, <2>8, OneActs
<1> QED BY <1>1, <1>8, <1>9, <1>10

(* A batch that fails ends the push; it may have been applied.                 *)
LEMMA PushFailsKeeps == ASSUME BSInv, NEW c \in Machines, BS!PushFails(c) PROVE BSInv'
<1>1. bsRun[c] \in Syncs /\ SyncOK(c, bsRun[c]) /\ bsRun[c].pc \in {"push", "sync"}
  BY DEF BSInv, SyncOK, BS!PushFails
<1>2. /\ bsRun[c].p \in Projects /\ bsRun[c].r \in Remotes
      /\ There(bsRun[c].r, bsRun[c].slug) /\ Fitting(bsRun[c].p, bsRun[c].r, bsRun[c].slug)
  BY <1>1 DEF SyncOK, BucketOK, PushOK
<1>3. Grown /\ server' \in [Remotes -> SUBSET Listable] /\ UNCHANGED <<server, linked, blind>>
  BY DEF BSInv, Grown, OneOfASlug, BS!PushFails
<1>4. \A l \in landed' : l \in landed \/ LandedOK(l)'
  <2>1. PICK p \in Projects, r \in Remotes, s \in {bsRun[c].slug} : p = bsRun[c].p /\ r = bsRun[c].r /\ s = bsRun[c].slug
    BY <1>2
  <2>2. There(r, s)' /\ Fitting(p, r, s)'
    BY <1>2, <1>3, <2>1, FactsStay
  <2> QED BY <2>1, <2>2 DEF BS!PushFails, LandedOK
<1>5. PICK j : bsRun' = [bsRun EXCEPT ![c] = j] /\ SyncOK(c, j)
  <2>1. CASE bsRun[c].pc = "push"
    BY <2>1, GiveUpOK DEF BS!PushFails, BS!GiveUp, BS!Become
  <2>2. CASE bsRun[c].pc = "sync"
    BY <2>2, EndOK DEF BS!PushFails, BS!Goto, BS!Become
  <2> QED BY <1>1, <2>1, <2>2
<1>6. SyncOK(c, j)'
  BY <1>3, <1>5, SyncStays
<1> QED BY <1>3, <1>4, <1>5, <1>6, OneActs

(* One repository is sent to what fits it,                                   *)
LEMMA OneRepository ==
  ASSUME BSInv, NEW c \in Machines, NEW p \in Projects, NEW r \in Remotes, NEW s \in Slugs,
         There(r, s)', Fitting(p, r, s)', UNCHANGED <<server, linked, landed>>, blind \subseteq blind',
         BS!Become(c, [bsRun[c] EXCEPT !.pc = "sync", !.p = p, !.r = r, !.slug = s, !.next = 1])
  PROVE  BSInv'
<1>1. bsRun[c] \in Syncs /\ ListsOK(bsRun[c])
  BY DEF BSInv, SyncOK
<1>2. Grown /\ server' \in [Remotes -> SUBSET Listable]
  BY DEF BSInv, Grown, OneOfASlug
<1>3. PICK j : j = [bsRun[c] EXCEPT !.pc = "sync", !.p = p, !.r = r, !.slug = s, !.next = 1]
  OBVIOUS
<1>4. j \in Syncs
  BY <1>1, <1>3 DEF Syncs
<1>5. j.pc = "sync" /\ j.p = p /\ j.r = r /\ j.slug = s /\ j.next = 1 /\ j.listed = bsRun[c].listed
  BY <1>1, <1>3 DEF Syncs
<1>6. SentTo(c, p, r, s, j.next - 1)'
  BY <1>5 DEF SentTo
<1>7. ListsOK(j)' /\ BucketOK(j)' /\ PushOK(c, j)' /\ SyncedOK(c, j)'
  BY <1>1, <1>5, <1>6 DEF ListsOK, BucketOK, PushOK, SyncedOK
<1>8. SyncOK(c, j)'
  BY <1>4, <1>7 DEF SyncOK
<1>9. \A l \in landed' : l \in landed \/ LandedOK(l)'
  OBVIOUS
<1> QED BY <1>2, <1>3, <1>8, <1>9, OneActs DEF BS!Become

(* by its own key, or by the project that was linked,                        *)
LEMMA SyncKeeps == ASSUME BSInv, NEW c \in Machines, NEW p \in Projects, BS!Sync(c, p) PROVE BSInv'
<1> DEFINE To(r, s) ==
             BS!Become(c, [bsRun[c] EXCEPT !.pc = "sync", !.p = p, !.r = r, !.slug = s, !.next = 1])
<1>1. UNCHANGED <<server, linked, landed, blind>>
  BY DEF BS!Sync
<1>2. CASE BS!Goto(c, "failed")
  BY <1>1, <1>2, EndOK, QuietStep DEF BS!Goto
<1>3. ASSUME NEW r \in Remotes, NEW s \in Slugs, There(r, s), Fitting(p, r, s), To(r, s) PROVE BSInv'
  <2>1. Grown
    BY <1>1 DEF BSInv, Grown, OneOfASlug
  <2>2. There(r, s)' /\ Fitting(p, r, s)'
    BY <1>3, <2>1, FactsStay
  <2> QED BY <1>1, <1>3, <2>2, OneRepository
<1>4. CASE \E r \in BS!Preferred(p) : \E t \in BS!ByKey(server[r], KeyOf[p]) : To(r, t.slug)
  <2>1. PICK r \in BS!Preferred(p) : \E t \in BS!ByKey(server[r], KeyOf[p]) : To(r, t.slug)
    BY <1>4
  <2>2. PICK t \in BS!ByKey(server[r], KeyOf[p]) : To(r, t.slug)
    BY <2>1
  <2>3. r \in Remotes /\ t \in server[r] /\ t.key = KeyOf[p]
    BY DEF BS!Preferred, BS!Knowing, BS!ByKey
  <2>4. There(r, t.slug) /\ Fitting(p, r, t.slug) /\ t.slug \in Slugs
    BY <2>3, OwnFits
  <2> QED BY <1>3, <2>2, <2>3, <2>4
<1>5. CASE KeyOf[p] = nokey /\ bsRoute[p] # none /\ linked[c][bsRoute[p]] # <<>>
           /\ To(bsRoute[p], Head(linked[c][bsRoute[p]]))
  <2>1. bsRoute[p] \in Remotes
    BY <1>5, CallersAssumption
  <2>2. PICK l \in Seq(Slugs) : l = linked[c][bsRoute[p]]
    BY <2>1 DEF BSInv
  <2>3. Head(l) \in Slugs /\ There(bsRoute[p], Head(l))
    <3>1. l # <<>> /\ 1 \in DOMAIN l /\ Head(l) = l[1]
      BY <1>5, <2>2
    <3> QED BY <2>1, <2>2, <3>1 DEF BSInv, LinkedOK
  <2>4. Fitting(p, bsRoute[p], Head(l))
    BY <1>5 DEF Fitting
  <2> QED BY <1>3, <1>5, <2>1, <2>2, <2>3, <2>4
<1> QED BY <1>2, <1>4, <1>5 DEF BS!Sync

(* or into the project that was given, after a look at its key.                *)
LEMMA SyncToKeeps ==
  ASSUME BSInv, NEW c \in Machines, NEW p \in Projects, NEW t, NEW force, BS!SyncTo(c, p, t, force)
  PROVE  BSInv'
<1>1. UNCHANGED <<server, linked, landed>> /\ blind \subseteq blind'
  BY DEF BS!SyncTo
<1>2. CASE BS!Goto(c, "failed") /\ UNCHANGED blind
  BY <1>1, <1>2, EndOK, QuietStep DEF BS!Goto
<1>3. CASE /\ BS!Become(c, [bsRun[c] EXCEPT !.pc = "sync", !.p = p, !.r = bsRoute[p], !.slug = t.slug, !.next = 1])
           /\ <<p, bsRoute[p], t.slug>> \in blind' \/ ~BS!Mismatch(t, p)
  <2>1. bsRoute[p] \in Remotes /\ t \in server[bsRoute[p]]
    BY CallersAssumption DEF BS!SyncTo
  <2>2. There(bsRoute[p], t.slug)' /\ t.slug \in Slugs
    BY <1>1, <2>1 DEF There, BSInv, Listable
  <2>3. Fitting(p, bsRoute[p], t.slug)'
    <3>1. CASE <<p, bsRoute[p], t.slug>> \in blind'
      BY <3>1 DEF Fitting
    <3>2. CASE ~BS!Mismatch(t, p)
      <4>1. Fitting(p, bsRoute[p], t.slug)
        BY <2>1, <3>2, OwnFits DEF BS!Mismatch
      <4>2. Grown
        BY <1>1 DEF BSInv, Grown, OneOfASlug
      <4> QED BY <1>1, <4>1 DEF Fitting
    <3> QED BY <1>3, <3>1, <3>2
  <2> QED BY <1>1, <1>3, <2>1, <2>2, <2>3, OneRepository
<1> QED BY <1>2, <1>3 DEF BS!SyncTo

(* A linked project is there, and stays.                                       *)
LEMMA LinksChange ==
  ASSUME BSInv, NEW c \in Machines, NEW r \in Remotes, NEW l \in Seq(Slugs),
         \A i \in DOMAIN l : There(r, l[i]),
         linked' = [linked EXCEPT ![c][r] = l], UNCHANGED <<server, landed, blind, bsRun>>
  PROVE  BSInv'
<1>1. Grown
  BY DEF BSInv, Grown, OneOfASlug
<1>2. server' \in [Remotes -> SUBSET Listable] /\ OneOfASlug' /\ DOMAIN bsRun' = Machines
  BY DEF BSInv, OneOfASlug
<1>3. linked' \in [Machines -> [Remotes -> Seq(Slugs)]]
  BY DEF BSInv
<1>4. LinkedOK'
  <2> SUFFICES ASSUME NEW d \in Machines, NEW q \in Remotes, NEW i \in DOMAIN linked'[d][q]
               PROVE  There(q, linked'[d][q][i])
    BY DEF LinkedOK, There
  <2>1. CASE d = c /\ q = r
    BY <2>1 DEF BSInv
  <2>2. CASE ~(d = c /\ q = r)
    BY <2>2 DEF BSInv, LinkedOK
  <2> QED BY <2>1, <2>2
<1>5. \A k \in landed' : LandedOK(k)'
  BY <1>1, FactsStay DEF BSInv, LandedOK
<1>6. ASSUME NEW d \in Machines PROVE SyncOK(d, bsRun[d])'
  <2>1. PICK k : k = bsRun[d] /\ k = bsRun'[d] /\ SyncOK(d, k)
    BY DEF BSInv
  <2>2. SyncOK(d, k)'
    BY <1>1, <2>1, SyncStays
  <2> QED BY <2>1, <2>2
<1> QED BY <1>2, <1>3, <1>4, <1>5, <1>6 DEF BSInv

LEMMA LinkKeeps ==
  ASSUME BSInv, NEW c \in Machines, NEW r \in Remotes, NEW t \in server[r], BS!Link(c, r, t) PROVE BSInv'
<1>1. PICK l \in Seq(Slugs) : l = linked[c][r]
  BY DEF BSInv
<1>2. t.slug \in Slugs /\ There(r, t.slug)
  BY DEF BSInv, Listable, There
<1>3. PICK k : k = Append(l, t.slug)
  OBVIOUS
<1>4. k \in Seq(Slugs) /\ Len(k) = Len(l) + 1
      /\ \A i \in 1 .. Len(k) : k[i] = IF i \in 1 .. Len(l) THEN l[i] ELSE t.slug
  BY <1>1, <1>2, <1>3
<1>5. ASSUME NEW i \in DOMAIN k PROVE There(r, k[i])
  <2>1. i \in 1 .. Len(k) /\ DOMAIN l = 1 .. Len(l)
    BY <1>4
  <2>2. \A n \in DOMAIN l : There(r, l[n])
    BY <1>1 DEF BSInv, LinkedOK
  <2>3. k[i] = t.slug \/ (i \in DOMAIN l /\ k[i] = l[i])
    BY <1>4, <2>1
  <2> QED BY <1>2, <2>2, <2>3
<1>6. linked' = [linked EXCEPT ![c][r] = k]
  BY <1>1, <1>3 DEF BS!Link
<1> QED BY <1>4, <1>5, <1>6, LinksChange DEF BS!Link

LEMMA UnlinkKeeps ==
  ASSUME BSInv, NEW c \in Machines, NEW r \in Remotes, NEW i \in DOMAIN linked[c][r], BS!Unlink(c, r, i)
  PROVE  BSInv'
<1>1. PICK l \in Seq(Slugs) : l = linked[c][r]
  BY DEF BSInv
<1>2. PICK k : k = [n \in 1 .. Len(l) - 1 |-> IF n < i THEN l[n] ELSE l[n + 1]]
  OBVIOUS
<1>3. i \in 1 .. Len(l) /\ Len(l) - 1 \in Nat
  BY <1>1
<1>4. k \in Seq(Slugs) /\ \A n \in DOMAIN k : \E m \in DOMAIN l : k[n] = l[m]
  <2>1. PICK z \in Nat : z = Len(l) - 1 /\ DOMAIN l = 1 .. z + 1 /\ DOMAIN k = 1 .. z
    <3>1. PICK z \in Nat : z = Len(l) - 1
      BY <1>3
    <3>2. Len(l) = z + 1 /\ DOMAIN l = 1 .. z + 1
      BY <3>1
    <3>3. DOMAIN k = 1 .. z
      BY <1>2, <3>1
    <3> QED BY <3>1, <3>2, <3>3
  <2>2. ASSUME NEW n \in 1 .. z PROVE k[n] \in Slugs /\ \E m \in DOMAIN l : k[n] = l[m]
    <3>1. n \in DOMAIN l /\ n + 1 \in DOMAIN l
      BY <2>1
    <3>2. k[n] = l[n] \/ k[n] = l[n + 1]
      BY <1>2, <2>1
    <3>3. \A m \in DOMAIN l : l[m] \in Slugs
      OBVIOUS
    <3> QED BY <3>1, <3>2, <3>3
  <2>3. k \in [1 .. z -> Slugs]
    BY <1>2, <2>1, <2>2
  <2>4. k \in Seq(Slugs)
    BY <2>3
  <2> QED BY <2>1, <2>2, <2>4
<1>5. \A n \in DOMAIN k : There(r, k[n])
  BY <1>1, <1>4 DEF BSInv, LinkedOK
<1>6. linked' = [linked EXCEPT ![c][r] = k]
  BY <1>1, <1>2 DEF BS!Unlink
<1> QED BY <1>4, <1>5, <1>6, LinksChange DEF BS!Unlink

(* A memory that is saved goes where its repository is known or linked.          *)
LEMMA SaveKeeps ==
  ASSUME BSInv, NEW c \in Machines, NEW p \in Projects, NEW r \in Remotes,
         NEW s \in BS!ProjectOn(c, p, r), NEW text, BS!SaveRemote(c, p, r, s, text),
         UNCHANGED <<server, linked, blind>>
  PROVE  BSInv'
<1>1. There(r, s) /\ Fitting(p, r, s)
  <2>1. CASE KeyOf[p] # nokey
    <3>1. PICK t \in server[r] : t.key = KeyOf[p] /\ s = t.slug
      BY <2>1 DEF BS!ProjectOn, BS!ByKey
    <3> QED BY <3>1, OwnFits
  <2>2. CASE KeyOf[p] = nokey
    <3>1. PICK l \in Seq(Slugs) : l = linked[c][r] /\ l # <<>> /\ s = Head(l)
      BY <2>2 DEF BS!ProjectOn, BSInv
    <3>2. 1 \in DOMAIN l /\ s = l[1]
      BY <3>1
    <3> QED BY <2>2, <3>1, <3>2 DEF BSInv, LinkedOK, Fitting
  <2> QED BY <2>1, <2>2
<1>2. Grown /\ server' \in [Remotes -> SUBSET Listable] /\ landed' = landed \cup {<<c, p, r, s, 0>>}
  BY DEF BSInv, Grown, OneOfASlug, BS!SaveRemote
<1>3. There(r, s)' /\ Fitting(p, r, s)'
  BY <1>1, <1>2, FactsStay
<1>4. \A l \in landed' : l \in landed \/ LandedOK(l)'
  BY <1>2, <1>3 DEF LandedOK
<1>5. PICK j : bsRun' = [bsRun EXCEPT ![c] = j] /\ SyncOK(c, j)
  BY EndOK DEF BS!SaveRemote, BS!Goto, BS!Become
<1>6. SyncOK(c, j)'
  BY <1>2, <1>5, SyncStays
<1> QED BY <1>2, <1>4, <1>5, <1>6, OneActs

LEMMA SavesKeep ==
  ASSUME BSInv, NEW c \in Machines, NEW p \in Projects, NEW m,
         \/ BS!AutoSync(c, p, m)
         \/ \E r \in Remotes : BS!PushRemote(c, p, r, m) \/ BS!ToolSave(c, p, r, m)
  PROVE  BSInv'
<1>1. CASE BS!AutoSync(c, p, m)
  <2>1. PICK r \in AutoSynced : \E s \in BS!ProjectOn(c, p, r) :
               BS!SaveRemote(c, p, r, s, BS!Rewritten(m.text))
    BY <1>1 DEF BS!AutoSync
  <2>2. r \in Remotes /\ UNCHANGED <<server, linked, blind>>
    BY <1>1, CallersAssumption DEF BS!AutoSync
  <2> QED BY <2>1, <2>2, SaveKeeps
<1>2. CASE \E r \in Remotes : BS!PushRemote(c, p, r, m)
  BY <1>2, SaveKeeps DEF BS!PushRemote
<1>3. CASE \E r \in Remotes : BS!ToolSave(c, p, r, m)
  BY <1>3, SaveKeeps DEF BS!ToolSave
<1> QED BY <1>1, <1>2, <1>3

(* Whatever a machine does keeps it.                                         *)
LEMMA BSStep == BSInv /\ [BS!Next]_bsState => BSInv'
<1> SUFFICES ASSUME BSInv, [BS!Next]_bsState PROVE BSInv'
  OBVIOUS
<1>1. CASE BS!Next
  <2>1. PICK c \in Machines :
          \/ BS!SyncAll(c) \/ BS!Find(c) \/ BS!ListFails(c) \/ BS!CreateProject(c)
          \/ BS!Push(c) \/ BS!PushFails(c) \/ BS!Finish(c)
          \/ \E p \in Projects :
               \/ BS!TakeBucket(c, p) \/ BS!Held(c, p) \/ BS!Sync(c, p)
               \/ \E r \in Remotes : \E t \in server[r], force \in BOOLEAN : BS!SyncTo(c, p, t, force)
               \/ \E m \in Memories[p] :
                    BS!AutoSync(c, p, m) \/ \E r \in Remotes : BS!PushRemote(c, p, r, m) \/ BS!ToolSave(c, p, r, m)
          \/ c \in ByHand /\ \E r \in Remotes :
               \/ \E t \in server[r] : BS!Link(c, r, t)
               \/ \E i \in DOMAIN linked[c][r] : BS!Unlink(c, r, i)
    BY <1>1 DEF BS!Next
  <2>2. CASE BS!SyncAll(c) \/ BS!Find(c) \/ BS!CreateProject(c)
    BY <2>2, SyncAllKeeps, FindKeeps, CreateProjectKeeps
  <2>3. CASE BS!Push(c) \/ BS!PushFails(c) \/ BS!Finish(c)
    BY <2>3, PushKeeps, PushFailsKeeps, FinishKeeps
  <2>4. CASE BS!ListFails(c) \/ \E p \in Projects : BS!Held(c, p)
    BY <2>4, FailuresKeep
  <2>5. CASE \E p \in Projects : BS!TakeBucket(c, p) \/ BS!Sync(c, p)
    BY <2>5, TakeBucketKeeps, SyncKeeps
  <2>6. CASE \E p \in Projects, r \in Remotes : \E t \in server[r], force \in BOOLEAN : BS!SyncTo(c, p, t, force)
    BY <2>6, SyncToKeeps
  <2>7. CASE \E p \in Projects : \E m \in Memories[p] :
               BS!AutoSync(c, p, m) \/ \E r \in Remotes : BS!PushRemote(c, p, r, m) \/ BS!ToolSave(c, p, r, m)
    BY <2>7, SavesKeep
  <2>8. CASE \E r \in Remotes : \/ \E t \in server[r] : BS!Link(c, r, t)
                                \/ \E i \in DOMAIN linked[c][r] : BS!Unlink(c, r, i)
    BY <2>8, LinkKeeps, UnlinkKeeps
  <2> QED BY <2>1, <2>2, <2>3, <2>4, <2>5, <2>6, <2>7, <2>8
<1>2. CASE UNCHANGED bsState
  <2>1. UNCHANGED <<server, linked, landed, blind, bsRun>>
    BY <1>2 DEF bsState
  <2>2. Grown /\ server' \in [Remotes -> SUBSET Listable]
    BY <2>1 DEF BSInv, Grown, OneOfASlug
  <2>3. ASSUME NEW d \in Machines PROVE SyncOK(d, bsRun[d])'
    <3>1. PICK k : k = bsRun[d] /\ k = bsRun'[d] /\ SyncOK(d, k)
      BY <2>1 DEF BSInv
    <3>2. SyncOK(d, k)'
      BY <2>2, <3>1, SyncStays
    <3> QED BY <3>1, <3>2
  <2>4. LinkedOK' /\ \A k \in landed' : LandedOK(k)'
    BY <2>1, <2>2, FactsStay DEF BSInv, LinkedOK, LandedOK
  <2> QED BY <2>1, <2>2, <2>3, <2>4 DEF BSInv, Grown
<1> QED BY <1>1, <1>2

-----------------------------------------------------------------------------
(* MemoryService.  What is written of a memory, and what a call has read.       *)
Wording  == msTexts \cup {MS!Unstamped}
RowsOfMS == [is : {"none", "live", "raw", "dead", "erased"}, text : Wording, hash : Wording,
             norm : {t[1] : t \in Wording}, mark : BOOLEAN]
MSInv ==
  /\ row \in [msMems -> RowsOfMS]
  /\ msCall \in [msCallers -> [pc : {"idle", "near", "save", "update"}, text : Wording,
                               found : SUBSET msMems, seen : RowsOfMS]]

(* What a step may do to a memory that was deleted.                            *)
Forgotten ==
  \A m \in msMems : row[m].is \in {"raw", "dead", "erased"} /\ row'[m].is = "live" =>
    \/ /\ UNCHANGED <<msCall, backfill>>
       /\ \/ row[m].is = "dead" /\ row'[m] = MS!Written(row[m].text, row[m].mark)
          \/ row[m].is = "raw" /\ row'[m] = [row[m] EXCEPT !.is = "live"]
    \/ \E p \in msCallers : MS!Ends(p, m, "save")
    \/ row[m].is = "raw" /\ \E p \in msCallers : MS!Ends(p, m, "update")

(* What is written is a row.                                                 *)
LEMMA RowsWritten ==
  ASSUME NEW t \in Wording, NEW mark \in BOOLEAN
  PROVE  /\ MS!None \in RowsOfMS /\ MS!Written(t, mark) \in RowsOfMS
         /\ [MS!Written(t, mark) EXCEPT !.is = "dead"] \in RowsOfMS
         /\ [MS!None EXCEPT !.is = "erased"] \in RowsOfMS
         /\ \A r \in RowsOfMS : [r EXCEPT !.is = "raw"] \in RowsOfMS /\ [r EXCEPT !.is = "live"] \in RowsOfMS
<1>1. t[1] \in {u[1] : u \in Wording} /\ 0 \in {u[1] : u \in Wording}
  <2>1. MS!Unstamped[1] = 0 /\ MS!Unstamped \in Wording
    BY DEF Wording, MS!Unstamped
  <2> QED BY <2>1
<1>2. <<0, 0>> \in Wording
  BY DEF Wording, MS!Unstamped
<1>3. MS!None \in RowsOfMS
  BY <1>1, <1>2 DEF MS!None, RowsOfMS
<1>4. MS!Written(t, mark) \in RowsOfMS
  BY <1>1 DEF MS!Written, RowsOfMS
<1>5. \A r \in RowsOfMS : /\ [r EXCEPT !.is = "dead"] \in RowsOfMS /\ [r EXCEPT !.is = "erased"] \in RowsOfMS
                        /\ [r EXCEPT !.is = "raw"] \in RowsOfMS /\ [r EXCEPT !.is = "live"] \in RowsOfMS
  BY DEF RowsOfMS
<1> QED BY <1>3, <1>4, <1>5

LEMMA MSInit == MS!Init => MSInv
<1> SUFFICES ASSUME MS!Init PROVE MSInv
  OBVIOUS
<1>1. PICK old \in msMems, t \in msTexts :
        row = [m \in msMems |-> IF m = old
                 THEN [is |-> "live", text |-> t, hash |-> MS!Unstamped, norm |-> 0, mark |-> FALSE]
                 ELSE MS!None]
  BY DEF MS!Init
<1>2. MS!None \in RowsOfMS /\ t \in Wording /\ MS!Unstamped \in Wording
  BY RowsWritten DEF Wording
<1>3. 0 \in {u[1] : u \in Wording}
  BY <1>2 DEF RowsOfMS, MS!None
<1>4. [is |-> "live", text |-> t, hash |-> MS!Unstamped, norm |-> 0, mark |-> FALSE] \in RowsOfMS
  BY <1>2, <1>3 DEF RowsOfMS
<1>5. MS!Idle \in [pc : {"idle", "near", "save", "update"}, text : Wording,
                   found : SUBSET msMems, seen : RowsOfMS]
  BY <1>2 DEF MS!Idle, MS!Unstamped
<1> QED BY <1>1, <1>2, <1>4, <1>5 DEF MS!Init, MSInv

(* A call that looks writes no row.                                          *)
LEMMA MSLooks ==
  ASSUME MSInv, NEW p \in msCallers,
         \/ \E t \in msTexts : MS!FindByContentHash(p, t)
         \/ MS!FindNearDuplicate(p) \/ MS!SkipSave(p)
         \/ \E m \in msMems : MS!UpdateRead(p, m)
  PROVE  MSInv' /\ Forgotten
<1> DEFINE Calls == [pc : {"idle", "near", "save", "update"}, text : Wording,
                     found : SUBSET msMems, seen : RowsOfMS]
<1>1. UNCHANGED row
  BY DEF MS!FindByContentHash, MS!FindNearDuplicate, MS!SkipSave, MS!UpdateRead
<1>2. MS!Idle \in Calls /\ \A m \in msMems : row[m] \in RowsOfMS /\ row[m].text \in Wording
  <2>1. MS!None \in RowsOfMS /\ <<0, 0>> \in Wording
    BY RowsWritten DEF Wording, MS!Unstamped
  <2> QED BY <2>1 DEF MS!Idle, MSInv, RowsOfMS
<1>3. PICK c \in Calls : MS!Goto(p, c)
  <2>1. CASE \E t \in msTexts : MS!FindByContentHash(p, t)
    <3>1. PICK t \in msTexts : MS!FindByContentHash(p, t)
      BY <2>1
    <3>2. CASE \E m \in msMems : MS!Goto(p, [pc |-> "save", text |-> t, found |-> {m}, seen |-> row[m]])
      BY <1>2, <3>2 DEF Wording
    <3>3. CASE MS!Goto(p, [MS!Idle EXCEPT !.pc = "near", !.text = t])
      BY <1>2, <3>3 DEF Wording
    <3> QED BY <3>1, <3>2, <3>3 DEF MS!FindByContentHash
  <2>2. CASE MS!FindNearDuplicate(p)
    <3>1. msCall[p] \in Calls
      BY DEF MSInv
    <3>2. CASE \E m \in msMems : MS!Goto(p, [msCall[p] EXCEPT !.pc = "save", !.found = {m}, !.seen = row[m]])
      BY <1>2, <3>1, <3>2
    <3>3. CASE MS!Goto(p, [msCall[p] EXCEPT !.pc = "save"])
      BY <3>1, <3>3
    <3> QED BY <2>2, <3>2, <3>3 DEF MS!FindNearDuplicate
  <2>3. CASE MS!SkipSave(p)
    BY <1>2, <2>3 DEF MS!SkipSave, MS!Return
  <2>4. CASE \E m \in msMems : MS!UpdateRead(p, m)
    <3>1. PICK m \in msMems : MS!UpdateRead(p, m)
      BY <2>4
    <3>2. PICK t \in msTexts \cup {row[m].text} :
            MS!Goto(p, [pc |-> "update", text |-> t, found |-> {m}, seen |-> row[m]])
      BY <3>1 DEF MS!UpdateRead
    <3>3. t \in Wording
      BY <1>2 DEF Wording
    <3> QED BY <1>2, <3>2, <3>3
  <2> QED BY <2>1, <2>2, <2>3, <2>4
<1>4. msCall' \in [msCallers -> Calls]
  BY <1>3 DEF MSInv, MS!Goto
<1> QED BY <1>1, <1>4 DEF MSInv, Forgotten

(* A save of a text that was found live brings it back; an update does so with    *)
(* a row that was deleted outside the ledger.                                 *)
LEMMA MSWrites ==
  ASSUME MSInv, NEW p \in msCallers, MS!PersistSave(p) \/ MS!UpdateTemporal(p)
  PROVE  MSInv' /\ Forgotten
<1> DEFINE Calls == [pc : {"idle", "near", "save", "update"}, text : Wording,
                     found : SUBSET msMems, seen : RowsOfMS]
<1>1. msCall[p] \in Calls /\ msCall[p].seen \in RowsOfMS
  BY DEF MSInv
<1>2. PICK w \in RowsOfMS : w = MS!Written(msCall[p].text, msCall[p].seen.mark)
  <2>1. msCall[p].text \in Wording /\ msCall[p].seen.mark \in BOOLEAN
    BY <1>1 DEF RowsOfMS
  <2> QED BY <2>1, RowsWritten
<1>3. MS!Idle \in Calls
  BY RowsWritten DEF MS!Idle, Wording, MS!Unstamped
<1>4. msCall' = [msCall EXCEPT ![p] = MS!Idle]
  BY DEF MS!PersistSave, MS!UpdateTemporal, MS!Return, MS!Goto
<1>5. msCall' \in [msCallers -> Calls] /\ msCall'[p] = MS!Idle
  BY <1>3, <1>4 DEF MSInv
<1>6. CASE MS!PersistSave(p)
  <2>1. PICK m \in msMems :
          /\ IF msCall[p].found = {} THEN row[m] = MS!None ELSE m \in msCall[p].found
          /\ row' = [row EXCEPT ![m] = w]
    BY <1>2, <1>6 DEF MS!PersistSave, MS!Write
  <2>2. row' \in [msMems -> RowsOfMS] /\ \A k \in msMems \ {m} : row'[k] = row[k]
    BY <2>1 DEF MSInv
  <2>3. row[m].is \in {"raw", "dead", "erased"} => MS!Ends(p, m, "save")
    BY <1>5, <1>6, <2>1 DEF MS!None, MS!Ends, MS!PersistSave
  <2>4. \A k \in msMems : row[k].is \in {"raw", "dead", "erased"} /\ row'[k].is = "live" => k = m
    BY <2>2
  <2>5. Forgotten
    BY <2>3, <2>4 DEF Forgotten
  <2> QED BY <1>5, <2>2, <2>5 DEF MSInv
<1>7. CASE MS!UpdateTemporal(p)
  <2>1. PICK m \in msMems :
          /\ m \in msCall[p].found
          /\ IF row[m].is \in {"live", "raw"} THEN row' = [row EXCEPT ![m] = w] ELSE row' = row
    BY <1>1, <1>2, <1>7 DEF MS!UpdateTemporal, MS!Write, MS!Active
  <2>2. row' \in [msMems -> RowsOfMS]
        /\ \A k \in msMems : row[k].is \in {"raw", "dead", "erased"} /\ row'[k].is = "live"
                              => k = m /\ row[k].is = "raw"
    BY <2>1 DEF MSInv
  <2>3. MS!Ends(p, m, "update")
    BY <1>5, <1>7, <2>1 DEF MS!Ends, MS!UpdateTemporal
  <2>4. Forgotten
    BY <2>2, <2>3 DEF Forgotten
  <2> QED BY <1>5, <2>2, <2>4 DEF MSInv
<1> QED BY <1>6, <1>7

(* A correction and a delete bring no memory back; a restore gives it its text,  *)
(* and an undo leaves it as it was.                                           *)
LEMMA MSOperators ==
  ASSUME MSInv, NEW m \in msMems,
         \/ MS!UpdateMetadata(m) \/ MS!SoftDeleteIfActive(m)
         \/ MS!Restore(m) \/ MS!UndoUntrackedDelete(m)
  PROVE  MSInv' /\ Forgotten
<1>1. row[m] \in RowsOfMS /\ row[m].text \in Wording /\ row[m].mark \in BOOLEAN
  BY DEF MSInv, RowsOfMS
<1>2. UNCHANGED <<msCall, backfill>>
  BY DEF MS!UpdateMetadata, MS!SoftDeleteIfActive, MS!Restore, MS!UndoUntrackedDelete
<1>3. PICK w \in RowsOfMS :
        /\ row' = [row EXCEPT ![m] = w]
        /\ row[m].is \in {"raw", "dead", "erased"} /\ w.is = "live" =>
             \/ row[m].is = "dead" /\ w = MS!Written(row[m].text, row[m].mark)
             \/ row[m].is = "raw" /\ w = [row[m] EXCEPT !.is = "live"]
  <2>1. CASE MS!UpdateMetadata(m)
    <3>1. [row[m] EXCEPT !.mark = ~@] \in RowsOfMS
      BY <1>1 DEF RowsOfMS
    <3> QED BY <2>1, <3>1 DEF MS!UpdateMetadata, MS!Write, MS!Live
  <2>2. CASE MS!SoftDeleteIfActive(m)
    <3>1. PICK w \in RowsOfMS : w = [MS!Written(row[m].text, row[m].mark) EXCEPT !.is = "dead"]
      BY <1>1, RowsWritten
    <3>2. w.is = "dead"
      BY <3>1 DEF MS!Written
    <3> QED BY <2>2, <3>1, <3>2 DEF MS!SoftDeleteIfActive, MS!Write
  <2>3. CASE MS!Restore(m)
    BY <1>1, <2>3, RowsWritten DEF MS!Restore, MS!Write
  <2>4. CASE MS!UndoUntrackedDelete(m)
    BY <1>1, <2>4, RowsWritten DEF MS!UndoUntrackedDelete, MS!Write
  <2> QED BY <2>1, <2>2, <2>3, <2>4
<1>4. row' \in [msMems -> RowsOfMS] /\ row'[m] = w /\ \A k \in msMems \ {m} : row'[k] = row[k]
  BY <1>3 DEF MSInv
<1>5. \A k \in msMems : row[k].is \in {"raw", "dead", "erased"} /\ row'[k].is = "live" => k = m
  BY <1>4
<1>6. Forgotten
  BY <1>2, <1>3, <1>4, <1>5 DEF Forgotten
<1> QED BY <1>2, <1>4, <1>6 DEF MSInv

LEMMA MSSets ==
  ASSUME MSInv, MS!RawDelete \/ MS!DeleteByScope \/ MS!BackfillRead \/ MS!BackfillWrite
  PROVE  MSInv' /\ Forgotten
<1>1. UNCHANGED msCall
  BY DEF MS!RawDelete, MS!DeleteByScope, MS!BackfillRead, MS!BackfillWrite
<1>2. row' \in [msMems -> RowsOfMS]
      /\ \A m \in msMems : row'[m].is = "live" => row[m].is = "live"
  <2>1. CASE MS!DeleteByScope
    <3>1. PICK gone \in SUBSET msMems, hard \in BOOLEAN :
            row' = [m \in msMems |->
              IF m \notin gone THEN row[m]
              ELSE IF hard THEN [MS!None EXCEPT !.is = "erased"]
              ELSE [MS!Written(row[m].text, row[m].mark) EXCEPT !.is = "dead"]]
      BY <2>1 DEF MS!DeleteByScope
    <3>2. ASSUME NEW m \in msMems
          PROVE  row'[m] \in RowsOfMS /\ (row'[m].is = "live" => row[m].is = "live")
      <4>1. row[m] \in RowsOfMS /\ row[m].text \in Wording /\ row[m].mark \in BOOLEAN
        BY DEF MSInv, RowsOfMS
      <4>2. \/ row'[m] = row[m] \/ row'[m] = [MS!None EXCEPT !.is = "erased"]
            \/ row'[m] = [MS!Written(row[m].text, row[m].mark) EXCEPT !.is = "dead"]
        BY <3>1
      <4>3. [MS!None EXCEPT !.is = "erased"].is = "erased"
            /\ [MS!Written(row[m].text, row[m].mark) EXCEPT !.is = "dead"].is = "dead"
        BY DEF MS!None, MS!Written
      <4> QED BY <4>1, <4>2, <4>3, RowsWritten
    <3> QED BY <3>1, <3>2
  <2>2. CASE MS!BackfillRead
    BY <2>2 DEF MS!BackfillRead, MSInv
  <2>4. CASE MS!RawDelete
    <3>1. PICK gone \in SUBSET msMems :
            row' = [m \in msMems |-> IF m \in gone THEN [row[m] EXCEPT !.is = "raw"] ELSE row[m]]
      BY <2>4 DEF MS!RawDelete
    <3>2. ASSUME NEW m \in msMems
          PROVE  row'[m] \in RowsOfMS /\ (row'[m].is = "live" => row[m].is = "live")
      <4>1. PICK o \in RowsOfMS : o = row[m]
        BY DEF MSInv
      <4>2. row'[m] = o \/ row'[m] = [o EXCEPT !.is = "raw"]
        BY <3>1, <4>1
      <4>3. [o EXCEPT !.is = "raw"] \in RowsOfMS /\ [o EXCEPT !.is = "raw"].is = "raw"
        BY DEF RowsOfMS
      <4> QED BY <4>1, <4>2, <4>3
    <3> QED BY <3>1, <3>2
  <2>3. CASE MS!BackfillWrite
    <3>1. row' = [m \in msMems |-> row'[m]]
      BY <2>3 DEF MS!BackfillWrite
    <3>2. ASSUME NEW m \in msMems
          PROVE  row'[m] \in RowsOfMS /\ row'[m].is = row[m].is
      <4>1. row[m] \in RowsOfMS
        BY DEF MSInv
      <4>2. \/ row'[m] = row[m]
            \/ \E t \in msTexts : \/ row'[m] = [row[m] EXCEPT !.norm = t[1]]
                                  \/ row'[m] = [row[m] EXCEPT !.hash = t]
        BY <2>3 DEF MS!BackfillWrite
      <4>3. \A t \in msTexts : t \in Wording /\ t[1] \in {u[1] : u \in Wording}
        BY DEF Wording
      <4> QED BY <4>1, <4>2, <4>3 DEF RowsOfMS
    <3> QED BY <3>1, <3>2
  <2> QED BY <2>1, <2>2, <2>3, <2>4
<1> QED BY <1>1, <1>2 DEF MSInv, Forgotten

LEMMA MSStep ==
  ASSUME MSInv, [Move]_all
  PROVE  MSInv' /\ (Forgotten \/ UNCHANGED MS!vars)
<1>1. CASE MS!Next
  BY <1>1, MSLooks, MSWrites, MSOperators, MSSets DEF MS!Next
<1>2. CASE UNCHANGED msState
  BY <1>2 DEF msState, MSInv, MS!vars
<1> QED BY <1>1, <1>2 DEF Move, all, msState

-----------------------------------------------------------------------------
(* TaskThreads.  The statements a call has still to run.                        *)
Todos == {<<>>, <<"upsert">>, <<"status">>, <<"upsert", "status">>, <<"status", "upsert">>,
          <<"save", "status">>, <<"link", "upsert">>, <<"upsert", "link", "attach">>,
          <<"link", "attach">>, <<"attach">>, <<"focus">>}
Setting == {<<"status">>, <<"upsert", "status">>, <<"status", "upsert">>, <<"save", "status">>}
Shaped(c) ==
  /\ DOMAIN c = {"todo", "key", "notes", "sessions", "keep", "to", "read", "topic", "closed"}
  /\ c.todo \in Todos /\ (c.todo = <<>> => c = TT!NoCall)
  /\ c.todo \in Setting => c.to \in TT!Settable /\ c.key \in Keys

(* A call with a note and a status has the note still to write, on a thread that *)
(* takes it, or has written it.                                              *)
Takes(k) == thread[k].status \notin TT!Terminal
NoteOK(c) ==
  c.to # "none" /\ c.notes # {} =>
    /\ c.key \in Keys /\ TT!Exists(c.key)
    /\ \/ c.todo \in {<<"upsert", "status">>, <<"status">>} /\ c.to \in TT!Terminal
       \/ c.todo \in {<<"status", "upsert">>, <<"upsert">>} /\ c.to \notin TT!Terminal
    /\ ~c.closed /\ c.todo \in {<<"upsert", "status">>, <<"upsert">>} => Takes(c.key)
    /\ ~c.closed /\ c.todo = <<"status">> => c.notes \subseteq thread[c.key].journal

TTInv ==
  /\ DOMAIN thread = Keys
  /\ \A k \in Keys : DOMAIN thread[k] = {"status", "journal", "sessions"}
  /\ DOMAIN ttCall = ttCallers
  /\ \A p \in ttCallers : Shaped(ttCall[p]) /\ NoteOK(ttCall[p])

(* What a step may not do to the note of a call that it ends.                   *)
Noted ==
  \A p \in ttCallers :
    /\ ttCall[p] # TT!NoCall /\ ttCall'[p] = TT!NoCall
    /\ ttCall[p].to # "none" /\ ~ttCall[p].closed
    => ttCall[p].notes \subseteq thread'[ttCall[p].key].journal

LEMMA NoCallOK == Shaped(TT!NoCall) /\ NoteOK(TT!NoCall)
BY DEF Shaped, NoteOK, TT!NoCall, Todos, Setting

LEMMA TTInit == TT!Init => TTInv
<1> SUFFICES ASSUME TT!Init PROVE TTInv
  OBVIOUS
<1>1. DOMAIN TT!Absent = {"status", "journal", "sessions"}
  BY DEF TT!Absent
<1>2. thread = [k \in Keys |-> TT!Absent] /\ ttCall = [p \in ttCallers |-> TT!NoCall]
  BY DEF TT!Init
<1> QED BY <1>1, <1>2, NoCallOK DEF TTInv

(* A call goes on with what is left of it.                                     *)
LEMMA Rest ==
  ASSUME NEW t \in Todos, t # <<>>
  PROVE  /\ Len(t) = 1 \/ (Tail(t) \in Todos /\ Tail(t) # <<>>)
         /\ Len(t) # 1 /\ Tail(t) \in Setting => t \in Setting
         /\ t = <<"upsert", "status">> => Len(t) # 1 /\ Tail(t) = <<"status">>
         /\ t = <<"status", "upsert">> => Len(t) # 1 /\ Tail(t) = <<"upsert">>
         /\ Head(t) = "status" => t \in Setting \ {<<"upsert", "status">>}
         /\ t \in {<<"status", "upsert">>, <<"status">>} => Head(t) = "status"
         /\ t \in {<<"upsert", "status">>, <<"upsert">>} => Head(t) = "upsert"
<1>1. CASE t \in {<<"upsert">>, <<"status">>, <<"attach">>, <<"focus">>}
  BY <1>1 DEF Todos, Setting
<1>2. CASE t = <<"upsert", "status">>
  <2>1. Len(t) = 2 /\ Head(t) = "upsert" /\ Tail(t) = <<"status">>
    BY <1>2
  <2> QED BY <1>2, <2>1 DEF Todos, Setting
<1>3. CASE t = <<"status", "upsert">>
  <2>1. Len(t) = 2 /\ Head(t) = "status" /\ Tail(t) = <<"upsert">>
    BY <1>3
  <2> QED BY <1>3, <2>1 DEF Todos, Setting
<1>4. CASE t = <<"save", "status">>
  <2>1. Len(t) = 2 /\ Head(t) = "save" /\ Tail(t) = <<"status">>
    BY <1>4
  <2> QED BY <1>4, <2>1 DEF Todos, Setting
<1>5. CASE t = <<"link", "upsert">>
  <2>1. Len(t) = 2 /\ Head(t) = "link" /\ Tail(t) = <<"upsert">>
    BY <1>5
  <2> QED BY <1>5, <2>1 DEF Todos, Setting
<1>6. CASE t = <<"upsert", "link", "attach">>
  <2>1. Len(t) = 3 /\ Head(t) = "upsert" /\ Tail(t) = <<"link", "attach">>
    BY <1>6
  <2> QED BY <1>6, <2>1 DEF Todos, Setting
<1>7. CASE t = <<"link", "attach">>
  <2>1. Len(t) = 2 /\ Head(t) = "link" /\ Tail(t) = <<"attach">>
    BY <1>7
  <2> QED BY <1>7, <2>1 DEF Todos, Setting
<1> QED BY <1>1, <1>2, <1>3, <1>4, <1>5, <1>6, <1>7 DEF Todos

(* Threads are made and their journals grow.                                  *)
ThreadsGrow ==
  /\ DOMAIN thread' = Keys
  /\ \A k \in Keys : /\ DOMAIN thread'[k] = {"status", "journal", "sessions"}
                     /\ TT!Exists(k) => thread'[k].status # "absent"
                     /\ thread[k].journal \subseteq thread'[k].journal

LEMMA NoteStays ==
  ASSUME ThreadsGrow, NEW c, NoteOK(c), c.closed \/ (Takes(c.key) => Takes(c.key)')
  PROVE  NoteOK(c)'
BY DEF ThreadsGrow, NoteOK, Takes, TT!Exists

(* A call that begins ends none, and its note can land.                        *)
LEMMA TTBegins ==
  ASSUME TTInv, NEW p \in ttCallers, NEW c, TT!Begin(p, c), Shaped(c), NoteOK(c)
  PROVE  TTInv' /\ Noted
<1>1. ttCall' = [ttCall EXCEPT ![p] = c] /\ UNCHANGED thread /\ ttCall[p].todo = <<>>
  BY DEF TT!Begin
<1>2. ttCall[p] = TT!NoCall
  BY <1>1 DEF TTInv, Shaped
<1>3. Noted
  BY <1>1, <1>2 DEF TTInv, Noted
<1>4. ASSUME NEW q \in ttCallers PROVE Shaped(ttCall[q])' /\ NoteOK(ttCall[q])'
  <2>1. PICK d : d = ttCall'[q] /\ Shaped(d) /\ NoteOK(d)
    BY <1>1 DEF TTInv
  <2>2. NoteOK(d)'
    BY <1>1, <2>1 DEF NoteOK, Takes, TT!Exists
  <2> QED BY <2>1, <2>2 DEF Shaped
<1> QED BY <1>1, <1>3, <1>4 DEF TTInv

LEMMA PlainCall ==
  ASSUME TTInv, NEW p \in ttCallers, NEW c, TT!Begin(p, c),
         DOMAIN c = {"todo", "key", "notes", "sessions", "keep", "to", "read", "topic", "closed"},
         c.todo \in Todos \ {<<>>}, c.todo \in Setting => c.to \in TT!Settable /\ c.key \in Keys,
         c.to = "none" \/ c.notes = {}
  PROVE  TTInv' /\ Noted
<1>1. Shaped(c) /\ NoteOK(c)
  BY DEF Shaped, NoteOK
<1> QED BY <1>1, TTBegins

LEMMA TTCalls ==
  ASSUME TTInv, NEW p \in ttCallers,
         \/ \E k \in Keys : \/ TT!StartTask(p, k) \/ TT!NoteTask(p, k) \/ TT!StartFromShell(p, k)
                            \/ TT!SetStatus(p, k) \/ TT!FinishTask(p, k)
                            \/ \E s \in ttSessions : TT!LinkTask(p, s, k) \/ TT!PromoteTask(p, s, k)
         \/ \E s \in ttSessions : TT!AppendSessionJournal(p, s) \/ \E t \in Topics : TT!FocusRead(p, s, t)
  PROVE  TTInv' /\ Noted
<1> DEFINE Plain(c) ==
             /\ DOMAIN c = {"todo", "key", "notes", "sessions", "keep", "to", "read", "topic", "closed"}
             /\ c.todo \in Todos \ {<<>>} /\ (c.todo \in Setting => c.to \in TT!Settable /\ c.key \in Keys)
             /\ c.to = "none" \/ c.notes = {}
<1>1. ASSUME NEW key, NEW note, NEW s, NEW keep,
             NEW rest \in {<<"upsert">>, <<"link", "upsert">>, <<"upsert", "link", "attach">>, <<"focus">>}
      PROVE  /\ Plain(TT!Delta(key, note, s, keep, rest))
             /\ \A t, r : Plain([TT!Delta(key, note, s, keep, rest) EXCEPT !.topic = t, !.read = r])
  <2>1. rest \in Todos \ {<<>>} /\ rest \notin Setting
    BY DEF Todos, Setting
  <2>2. PICK c : c = TT!Delta(key, note, s, keep, rest)
    OBVIOUS
  <2>3. /\ DOMAIN c = {"todo", "key", "notes", "sessions", "keep", "to", "read", "topic", "closed"}
        /\ c.todo = rest /\ c.to = "none"
    BY <2>2 DEF TT!Delta, TT!NoCall
  <2>4. ASSUME NEW t, NEW r PROVE Plain([c EXCEPT !.topic = t, !.read = r])
    <3>1. PICK d : d = [c EXCEPT !.topic = t, !.read = r]
      OBVIOUS
    <3>2. DOMAIN d = DOMAIN c /\ d.todo = c.todo /\ d.to = c.to
      BY <2>3, <3>1
    <3>3. Plain(d)
      BY <2>1, <2>3, <3>2
    <3> QED BY <3>1, <3>3
  <2>5. Plain(c)
    BY <2>1, <2>3
  <2> QED BY <2>2, <2>4, <2>5
<1>2. ASSUME NEW key \in Keys, NEW s, NEW keep, NEW to \in TT!Settable,
             NEW rest \in {<<"upsert">>, <<"status">>, <<"status", "upsert">>, <<"save", "status">>}
      PROVE  /\ Plain([TT!Delta(key, {}, s, keep, rest) EXCEPT !.to = to])
             /\ \A r : Plain([TT!Delta(key, {}, s, keep, rest) EXCEPT !.to = to, !.read = r])
  <2>1. rest \in Todos \ {<<>>}
    <3>1. rest \in Todos
      BY DEF Todos
    <3>2. rest # <<>>
      OBVIOUS
    <3> QED BY <3>1, <3>2
  <2>2. PICK c : c = TT!Delta(key, {}, s, keep, rest)
    OBVIOUS
  <2>3. /\ DOMAIN c = {"todo", "key", "notes", "sessions", "keep", "to", "read", "topic", "closed"}
        /\ c.todo = rest /\ c.key = key /\ c.notes = {}
    BY <2>2 DEF TT!Delta, TT!NoCall
  <2>4. PICK d : d = [c EXCEPT !.to = to]
    OBVIOUS
  <2>5. DOMAIN d = DOMAIN c /\ d.todo = rest /\ d.key = key /\ d.notes = {} /\ d.to = to
    BY <2>3, <2>4
  <2>6. ASSUME NEW r PROVE Plain([c EXCEPT !.to = to, !.read = r])
    <3>1. PICK e : e = [c EXCEPT !.to = to, !.read = r]
      OBVIOUS
    <3>2. DOMAIN e = DOMAIN c /\ e.todo = rest /\ e.key = key /\ e.notes = {} /\ e.to = to
      BY <2>3, <3>1
    <3>3. Plain(e)
      BY <2>1, <2>3, <3>2
    <3> QED BY <3>1, <3>3
  <2>7. Plain(d)
    BY <2>1, <2>3, <2>5
  <2> QED BY <2>2, <2>4, <2>6, <2>7
<1>3. {"active", "done"} \subseteq TT!Settable
  BY DEF TT!Settable, TT!Terminal
<1>4. \E c : TT!Begin(p, c) /\ Plain(c)
  <2> HIDE DEF Plain
  <2>1. CASE \E k \in Keys : TT!StartTask(p, k)
    BY <1>1, <2>1 DEF TT!StartTask
  <2>2. CASE \E k \in Keys : TT!NoteTask(p, k)
    BY <1>1, <2>2 DEF TT!NoteTask
  <2>3. CASE \E k \in Keys : TT!StartFromShell(p, k)
    BY <1>2, <1>3, <2>3 DEF TT!StartFromShell
  <2>4. CASE \E k \in Keys : TT!SetStatus(p, k)
    BY <1>2, <2>4 DEF TT!SetStatus
  <2>5. CASE \E k \in Keys : TT!FinishTask(p, k)
    BY <1>2, <1>3, <2>5 DEF TT!FinishTask
  <2>6. CASE \E k \in Keys, s \in ttSessions : TT!LinkTask(p, s, k)
    BY <1>1, <2>6 DEF TT!LinkTask
  <2>7. CASE \E k \in Keys, s \in ttSessions : TT!PromoteTask(p, s, k)
    BY <1>1, <2>7 DEF TT!PromoteTask
  <2>8. CASE \E s \in ttSessions : TT!AppendSessionJournal(p, s)
    BY <1>1, <2>8 DEF TT!AppendSessionJournal
  <2>9. CASE \E s \in ttSessions, t \in Topics : TT!FocusRead(p, s, t)
    <3>1. PICK s, t : TT!FocusRead(p, s, t)
      BY <2>9
    <3>2. PICK r : TT!Begin(p, [TT!Delta("none", {}, {s}, TRUE, <<"focus">>) EXCEPT !.topic = t, !.read = r])
      BY <3>1 DEF TT!FocusRead
    <3>3. Plain([TT!Delta("none", {}, {s}, TRUE, <<"focus">>) EXCEPT !.topic = t, !.read = r])
      BY <1>1
    <3> QED BY <3>2, <3>3
  <2> QED BY <2>1, <2>2, <2>3, <2>4, <2>5, <2>6, <2>7, <2>8, <2>9
<1> QED BY <1>4, PlainCall

LEMMA TTUpdates == ASSUME TTInv, NEW p \in ttCallers, NEW k \in Keys, TT!UpdateTask(p, k) PROVE TTInv' /\ Noted
<1>1. PICK n \in Notes, to \in TT!Settable :
        /\ TT!Exists(k)
        /\ TT!Begin(p, [TT!Delta(k, {n}, {}, TRUE, TT!UpdateOrder(to)) EXCEPT !.to = to,
             !.closed = thread[k].status \in TT!Terminal])
  BY DEF TT!UpdateTask
<1>2. PICK c : c = [TT!Delta(k, {n}, {}, TRUE, TT!UpdateOrder(to)) EXCEPT !.to = to,
             !.closed = thread[k].status \in TT!Terminal]
  OBVIOUS
<1>3. /\ DOMAIN c = {"todo", "key", "notes", "sessions", "keep", "to", "read", "topic", "closed"}
      /\ c.todo = TT!UpdateOrder(to) /\ c.to = to /\ c.notes = {n} /\ c.key = k
      /\ c.closed = (thread[k].status \in TT!Terminal)
  BY <1>2 DEF TT!Delta, TT!NoCall
<1>4. TT!UpdateOrder(to) = IF to \in TT!Terminal THEN <<"upsert", "status">> ELSE <<"status", "upsert">>
  BY DEF TT!UpdateOrder
<1>5. {<<"upsert", "status">>, <<"status", "upsert">>} \subseteq Todos \ {<<>>}
      /\ <<"upsert", "status">> # <<"status", "upsert">> /\ <<"upsert">> # <<"status", "upsert">>
      /\ <<"status">> \notin {<<"upsert", "status">>, <<"status", "upsert">>}
  BY DEF Todos
<1>6. Shaped(c)
  BY <1>3, <1>4, <1>5 DEF Shaped
<1>7. NoteOK(c)
  BY <1>1, <1>3, <1>4, <1>5 DEF NoteOK, Takes
<1> QED BY <1>1, <1>2, <1>6, <1>7, TTBegins

(* A call that runs goes on, or ends.                                         *)
LEMMA GoesOn ==
  ASSUME TTInv, NEW p \in ttCallers, ttCall[p].todo # <<>>, TT!Advance(p)
  PROVE  /\ \A q \in ttCallers \ {p} : ttCall'[q] = ttCall[q]
         /\ DOMAIN ttCall' = ttCallers
         /\ IF Len(ttCall[p].todo) = 1 THEN ttCall'[p] = TT!NoCall
            ELSE ttCall'[p] = [ttCall[p] EXCEPT !.todo = Tail(ttCall[p].todo)]
BY DEF TTInv, TT!Advance

LEMMA RestShaped ==
  ASSUME NEW c, Shaped(c), c.todo # <<>>, Len(c.todo) # 1
  PROVE  LET d == [c EXCEPT !.todo = Tail(c.todo)] IN
         /\ Shaped(d) /\ d.todo = Tail(c.todo) /\ d.key = c.key /\ d.notes = c.notes /\ d.to = c.to
         /\ d.closed = c.closed /\ d # TT!NoCall
<1>1. c.todo \in Todos /\ Tail(c.todo) \in Todos /\ Tail(c.todo) # <<>>
      /\ (Tail(c.todo) \in Setting => c.todo \in Setting)
  BY Rest DEF Shaped
<1>2. PICK d : d = [c EXCEPT !.todo = Tail(c.todo)]
  OBVIOUS
<1>3. /\ DOMAIN d = DOMAIN c /\ d.todo = Tail(c.todo) /\ d.key = c.key /\ d.notes = c.notes /\ d.to = c.to
      /\ d.closed = c.closed
  BY <1>2 DEF Shaped
<1>4. d # TT!NoCall
  <2>1. TT!NoCall.todo = <<>>
    BY DEF TT!NoCall
  <2> QED BY <1>1, <1>3, <2>1
<1>5. Shaped(d)
  BY <1>1, <1>3 DEF Shaped
<1> QED BY <1>2, <1>3, <1>4, <1>5

(* An upsert writes the note of its call, unless the thread was closed.          *)
LEMMA TTUpserts == ASSUME TTInv, NEW p \in ttCallers, TT!Upsert(p) PROVE TTInv' /\ Noted
<1>1. PICK c : c = ttCall[p] /\ Shaped(c) /\ NoteOK(c)
  BY DEF TTInv
<1>2. c.todo # <<>> /\ Head(c.todo) # "status" /\ TT!Advance(p)
  BY <1>1 DEF TT!Upsert, TT!Running
<1>3. \A k \in Keys : k # c.key => thread'[k] = thread[k]
  BY <1>1 DEF TT!Upsert, TTInv
<1>4. c.key \in Keys =>
        \/ ~Takes(c.key) /\ thread'[c.key] = thread[c.key]
        \/ /\ Takes(c.key) /\ DOMAIN thread'[c.key] = {"status", "journal", "sessions"}
           /\ thread'[c.key].status \notin TT!Terminal \cup {"absent"}
           /\ thread'[c.key].journal = thread[c.key].journal \cup c.notes
  <2> SUFFICES ASSUME c.key \in Keys, Takes(c.key)
               PROVE  /\ DOMAIN thread'[c.key] = {"status", "journal", "sessions"}
                      /\ thread'[c.key].status \notin TT!Terminal \cup {"absent"}
                      /\ thread'[c.key].journal = thread[c.key].journal \cup c.notes
    BY <1>1 DEF TT!Upsert, TTInv, Takes
  <2>1. PICK s : thread'[c.key] = [status |-> s, journal |-> thread[c.key].journal \cup c.notes,
                                   sessions |-> thread[c.key].sessions \cup c.sessions]
                 /\ s = IF thread[c.key].status = "absent" THEN "active"
                        ELSE IF ~c.keep /\ thread[c.key].status = "paused" /\ c.sessions # {} THEN "active"
                        ELSE thread[c.key].status
    BY <1>1 DEF TT!Upsert, TTInv, Takes
  <2> QED BY <2>1 DEF Takes, TT!Terminal
<1>5. ThreadsGrow
  <2>1. DOMAIN thread' = Keys
    BY DEF TT!Upsert, TTInv
  <2>2. ASSUME NEW k \in Keys
        PROVE  /\ DOMAIN thread'[k] = {"status", "journal", "sessions"}
               /\ TT!Exists(k) => thread'[k].status # "absent"
               /\ thread[k].journal \subseteq thread'[k].journal
    <3>1. DOMAIN thread[k] = {"status", "journal", "sessions"}
      BY DEF TTInv
    <3> QED BY <1>3, <1>4, <3>1 DEF TT!Exists
  <2> QED BY <2>1, <2>2 DEF ThreadsGrow
<1>6. \A k : k \in Keys /\ Takes(k) => Takes(k)'
  BY <1>3, <1>4 DEF Takes
<1>7. ASSUME NEW d, NoteOK(d) PROVE NoteOK(d)'
  <2>1. CASE d.key \in Keys
    BY <1>5, <1>6, <1>7, <2>1, NoteStays
  <2>2. CASE d.key \notin Keys
    BY <1>7, <2>2 DEF NoteOK
  <2> QED BY <2>1, <2>2
<1>8. ASSUME NEW q \in ttCallers, q # p PROVE Shaped(ttCall[q])' /\ NoteOK(ttCall[q])' /\ ttCall'[q] = ttCall[q]
  <2>1. Shaped(ttCall[q]) /\ NoteOK(ttCall[q])
    BY DEF TTInv
  <2>2. ttCall'[q] = ttCall[q]
    BY <1>1, <1>2, <1>8, GoesOn
  <2>3. PICK d : d = ttCall[q] /\ d = ttCall'[q]
    BY <2>2
  <2> QED BY <1>7, <2>1, <2>3 DEF Shaped
<1>9. c.todo \in Todos /\ c.todo \notin {<<"status", "upsert">>, <<"status">>}
  BY <1>1, <1>2, Rest DEF Shaped
<1>10. CASE Len(c.todo) = 1
  <2>1. ttCall'[p] = TT!NoCall
    BY <1>1, <1>2, <1>10, GoesOn
  <2>2. c.to # "none" /\ ~c.closed => c.notes \subseteq thread'[c.key].journal
    <3> SUFFICES ASSUME c.to # "none", ~c.closed, c.notes # {} PROVE c.notes \subseteq thread'[c.key].journal
      OBVIOUS
    <3>1. c.todo = <<"upsert">>
      BY <1>1, <1>2, <1>9, <1>10, Rest DEF NoteOK
    <3> QED BY <1>1, <1>4, <3>1 DEF NoteOK
  <2>3. Noted
    BY <1>1, <1>8, <2>2 DEF Noted
  <2>4. Shaped(ttCall[p])' /\ NoteOK(ttCall[p])'
    <3>1. PICK d : d = TT!NoCall /\ Shaped(d) /\ NoteOK(d)
      BY NoCallOK
    <3> QED BY <1>7, <2>1, <3>1 DEF Shaped
  <2> QED BY <1>2, <1>5, <1>8, <2>3, <2>4, <1>1, GoesOn DEF TTInv, ThreadsGrow
<1>11. CASE Len(c.todo) # 1
  <2>1. PICK d : d = [c EXCEPT !.todo = Tail(c.todo)]
    OBVIOUS
  <2>2. /\ Shaped(d) /\ d.todo = Tail(c.todo) /\ d.key = c.key /\ d.notes = c.notes /\ d.to = c.to
        /\ d.closed = c.closed /\ d # TT!NoCall
    BY <1>1, <1>2, <1>11, <2>1, RestShaped
  <2>3. ttCall'[p] = d
    BY <1>1, <1>2, <1>11, <2>1, GoesOn
  <2>4. NoteOK(d)'
    <3> SUFFICES ASSUME c.to # "none", c.notes # {} PROVE NoteOK(d)'
      BY <2>2 DEF NoteOK
    <3>1. c.todo = <<"upsert", "status">> /\ d.todo = <<"status">> /\ c.key \in Keys
      BY <1>1, <1>2, <1>9, <1>11, <2>2, Rest DEF NoteOK
    <3>2. c.to \in TT!Terminal /\ (~c.closed => Takes(c.key)) /\ TT!Exists(c.key)
      BY <1>1, <3>1 DEF NoteOK
    <3>3. ~d.closed => d.notes \subseteq thread'[d.key].journal
      BY <1>4, <2>2, <3>1, <3>2
    <3>4. thread'[d.key].status # "absent"
      BY <1>5, <2>2, <3>1, <3>2 DEF ThreadsGrow
    <3> QED BY <2>2, <3>1, <3>2, <3>3, <3>4 DEF NoteOK, TT!Exists
  <2>5. Noted
    BY <1>8, <2>2, <2>3 DEF Noted
  <2> QED BY <1>1, <1>2, <1>5, <1>8, <2>2, <2>3, <2>4, <2>5, GoesOn DEF TTInv, ThreadsGrow, Shaped
<1> QED BY <1>10, <1>11

(* Other statements belong to calls that have a note or a status, not both.      *)
LEMMA TTOthers ==
  ASSUME TTInv, NEW p \in ttCallers, TT!SaveSummary(p) \/ TT!InsertLink(p) \/ TT!FocusWrite(p)
  PROVE  TTInv' /\ Noted
<1>1. PICK c : c = ttCall[p] /\ Shaped(c) /\ NoteOK(c)
  BY DEF TTInv
<1>2. c.todo # <<>> /\ Head(c.todo) \notin {"status", "upsert"} /\ TT!Advance(p) /\ UNCHANGED thread
  BY <1>1 DEF TT!SaveSummary, TT!InsertLink, TT!FocusWrite, TT!Running
<1>3. c.to = "none" \/ c.notes = {}
  BY <1>1, <1>2, Rest DEF NoteOK, Shaped
<1>4. \A d : NoteOK(d) => NoteOK(d)'
  BY <1>2 DEF NoteOK, Takes, TT!Exists
<1>5. ASSUME NEW q \in ttCallers, q # p PROVE Shaped(ttCall[q])' /\ NoteOK(ttCall[q])' /\ ttCall'[q] = ttCall[q]
  <2>1. Shaped(ttCall[q]) /\ NoteOK(ttCall[q])
    BY DEF TTInv
  <2>2. ttCall'[q] = ttCall[q]
    BY <1>1, <1>2, <1>5, GoesOn
  <2>3. PICK d : d = ttCall[q] /\ d = ttCall'[q]
    BY <2>2
  <2> QED BY <1>4, <2>1, <2>3 DEF Shaped
<1>6. Shaped(ttCall[p])' /\ NoteOK(ttCall[p])'
  <2>1. CASE Len(c.todo) = 1
    <3>1. PICK d : d = TT!NoCall /\ d = ttCall'[p] /\ Shaped(d) /\ NoteOK(d)
      BY <1>1, <1>2, <2>1, GoesOn, NoCallOK
    <3> QED BY <1>4, <3>1 DEF Shaped
  <2>2. CASE Len(c.todo) # 1
    <3>1. PICK d : d = [c EXCEPT !.todo = Tail(c.todo)]
      OBVIOUS
    <3>2. c.todo # <<>> /\ Shaped(c)
      BY <1>1, <1>2, Rest
    <3>3. Shaped(d) /\ d.to = c.to /\ d.notes = c.notes
      BY <2>2, <3>1, <3>2, RestShaped
    <3>4. d = ttCall'[p]
      BY <1>1, <1>2, <2>2, <3>1, GoesOn
    <3> QED BY <1>3, <3>2, <3>3, <3>4 DEF Shaped, NoteOK
  <2> QED BY <2>1, <2>2
<1>7. Noted
  BY <1>1, <1>3, <1>5 DEF Noted
<1> QED BY <1>1, <1>2, <1>5, <1>6, <1>7, GoesOn DEF TTInv

LEMMA MergingTodo ==
  ASSUME NEW t
  PROVE  /\ t \in {<<"upsert", "status">>, <<"upsert">>} => \E n \in DOMAIN t : t[n] = "upsert"
         /\ t = <<"status">> => ~\E n \in DOMAIN t : t[n] = "upsert"
<1>1. CASE t = <<"upsert", "status">>
  <2>1. 1 \in DOMAIN t /\ t[1] = "upsert"
    BY <1>1
  <2> QED BY <1>1, <2>1
<1>2. CASE t = <<"upsert">>
  <2>1. 1 \in DOMAIN t /\ t[1] = "upsert"
    BY <1>2
  <2> QED BY <1>2, <2>1
<1>3. CASE t = <<"status">>
  <2>1. DOMAIN t = {1} /\ t[1] = "status"
    BY <1>3
  <2> QED BY <1>3, <2>1
<1> QED BY <1>1, <1>2, <1>3

(* A status tells the calls that have still to merge what it did to the thread.  *)
LEMMA TTStatuses == ASSUME TTInv, NEW p \in ttCallers, TT!ApplyStatus(p) PROVE TTInv' /\ Noted
<1>1. PICK c : c = ttCall[p] /\ Shaped(c) /\ NoteOK(c)
  BY DEF TTInv
<1>2. c.todo # <<>> /\ Head(c.todo) = "status"
  BY <1>1 DEF TT!ApplyStatus, TT!Running
<1>3. /\ c.todo \in Todos /\ c.todo \in Setting \ {<<"upsert", "status">>}
      /\ c.to \in TT!Settable /\ c.key \in Keys
  BY <1>1, <1>2, Rest DEF Shaped
<1>4. CASE ~TT!Exists(c.key)
  <2>1. ttCall' = [ttCall EXCEPT ![p] = TT!NoCall] /\ UNCHANGED thread
    BY <1>1, <1>4 DEF TT!ApplyStatus, TT!Abort
  <2>2. c.to = "none" \/ c.notes = {}
    BY <1>1, <1>4 DEF NoteOK
  <2>3. ASSUME NEW q \in ttCallers PROVE Shaped(ttCall[q])' /\ NoteOK(ttCall[q])'
    <3>1. PICK d : d = ttCall'[q] /\ Shaped(d) /\ NoteOK(d)
      BY <2>1, NoCallOK DEF TTInv
    <3>2. NoteOK(d)'
      BY <2>1, <3>1 DEF NoteOK, Takes, TT!Exists
    <3> QED BY <3>1, <3>2 DEF Shaped
  <2>4. Noted
    BY <1>1, <2>1, <2>2 DEF TTInv, Noted
  <2> QED BY <2>1, <2>3, <2>4 DEF TTInv
<1>5. CASE TT!Exists(c.key)
  <2>1. /\ thread' = [thread EXCEPT ![c.key].status = c.to]
        /\ ttCall' = [q \in ttCallers |->
             IF q = p THEN IF Len(c.todo) = 1 THEN TT!NoCall
                           ELSE [c EXCEPT !.todo = Tail(@), !.closed = FALSE]
             ELSE IF ttCall[q].key = c.key /\ TT!Merges(ttCall[q])
                  THEN [ttCall[q] EXCEPT !.closed = c.to \in TT!Terminal]
             ELSE ttCall[q]]
    BY <1>1, <1>5 DEF TT!ApplyStatus
  <2>2. c.to # "absent"
    BY <1>3 DEF TT!Settable, TT!Terminal
  <2>3. \A k \in Keys : /\ DOMAIN thread'[k] = DOMAIN thread[k] /\ thread'[k].journal = thread[k].journal
                        /\ thread'[k].status = IF k = c.key THEN c.to ELSE thread[k].status
    BY <2>1 DEF TTInv
  <2>4. ThreadsGrow
    BY <2>1, <2>2, <2>3 DEF TTInv, ThreadsGrow, TT!Exists
  <2>5. ASSUME NEW q \in ttCallers, q # p PROVE Shaped(ttCall[q])' /\ NoteOK(ttCall[q])' /\ ~(
                 ttCall[q] # TT!NoCall /\ ttCall'[q] = TT!NoCall)
    <3>1. PICK d : d = ttCall[q] /\ Shaped(d) /\ NoteOK(d)
      BY DEF TTInv
    <3>2. PICK e : /\ e = ttCall'[q]
                   /\ e = IF d.key = c.key /\ TT!Merges(d) THEN [d EXCEPT !.closed = c.to \in TT!Terminal] ELSE d
      BY <2>1, <2>5, <3>1
    <3>3. /\ DOMAIN e = DOMAIN d /\ e.todo = d.todo /\ e.key = d.key /\ e.notes = d.notes /\ e.to = d.to
          /\ e.closed = IF d.key = c.key /\ TT!Merges(d) THEN c.to \in TT!Terminal ELSE d.closed
          /\ ~TT!Merges(d) => e = d
      BY <3>1, <3>2 DEF Shaped
    <3>4. NoteOK(e)'
      <4> SUFFICES ASSUME e.to # "none", e.notes # {} PROVE NoteOK(e)'
        BY DEF NoteOK
      <4>1. e.key \in Keys /\ TT!Exists(e.key)
        BY <3>1, <3>3 DEF NoteOK
      <4>2. thread'[e.key].status # "absent" /\ thread'[e.key].journal = thread[e.key].journal
        BY <2>3, <2>4, <4>1 DEF ThreadsGrow
      <4>3. e.todo \in {<<"upsert", "status">>, <<"upsert">>} /\ ~e.closed => Takes(e.key)'
        <5> SUFFICES ASSUME e.todo \in {<<"upsert", "status">>, <<"upsert">>}, ~e.closed PROVE Takes(e.key)'
          OBVIOUS
        <5>1. TT!Merges(d)
          BY <3>3, MergingTodo DEF TT!Merges
        <5>2. CASE d.key = c.key
          BY <2>3, <3>3, <4>1, <5>1, <5>2 DEF Takes
        <5>3. CASE d.key # c.key
          BY <2>3, <3>1, <3>3, <4>1, <5>3 DEF Takes, NoteOK
        <5> QED BY <5>2, <5>3
      <4>4. e.todo = <<"status">> /\ ~e.closed => e.notes \subseteq thread[e.key].journal
        <5> SUFFICES ASSUME e.todo = <<"status">>, ~e.closed PROVE e.notes \subseteq thread[e.key].journal
          OBVIOUS
        <5>1. ~TT!Merges(d)
          BY <3>3, MergingTodo DEF TT!Merges
        <5> QED BY <3>1, <3>3, <5>1 DEF NoteOK
      <4> QED BY <3>1, <3>3, <4>1, <4>2, <4>3, <4>4 DEF NoteOK, TT!Exists
    <3>5. Shaped(e) /\ ~(d # TT!NoCall /\ e = TT!NoCall)
      <4>1. CASE d.todo = <<>>
        <5>1. ~TT!Merges(d)
          BY <4>1 DEF TT!Merges
        <5> QED BY <3>1, <3>3, <5>1
      <4>2. CASE d.todo # <<>>
        <5>1. TT!NoCall.todo = <<>>
          BY DEF TT!NoCall
        <5> QED BY <3>1, <3>3, <4>2, <5>1 DEF Shaped
      <4> QED BY <4>1, <4>2
    <3> QED BY <3>1, <3>2, <3>4, <3>5 DEF Shaped
  <2>6. CASE Len(c.todo) = 1
    <3>1. ttCall'[p] = TT!NoCall
      BY <2>1, <2>6
    <3>2. c.to # "none" /\ ~c.closed => c.notes \subseteq thread'[c.key].journal
      <4> SUFFICES ASSUME c.to # "none", ~c.closed, c.notes # {} PROVE c.notes \subseteq thread'[c.key].journal
        OBVIOUS
      <4>1. c.todo = <<"status">>
        BY <1>1, <1>2, <1>3, <2>6, Rest DEF NoteOK
      <4> QED BY <1>1, <1>3, <2>3, <4>1 DEF NoteOK
    <3>3. Noted
      BY <1>1, <2>5, <3>2 DEF Noted
    <3>4. Shaped(ttCall[p])' /\ NoteOK(ttCall[p])'
      <4>1. PICK d : d = TT!NoCall /\ d = ttCall'[p] /\ Shaped(d) /\ d.notes = {}
        BY <3>1, NoCallOK DEF TT!NoCall
      <4> QED BY <4>1 DEF Shaped, NoteOK
    <3> QED BY <2>1, <2>4, <2>5, <3>3, <3>4 DEF TTInv, ThreadsGrow
  <2>7. CASE Len(c.todo) # 1
    <3>1. PICK b, d : b = [c EXCEPT !.todo = Tail(c.todo)] /\ d = [c EXCEPT !.todo = Tail(@), !.closed = FALSE]
      OBVIOUS
    <3>2. /\ Shaped(d) /\ d.todo = Tail(c.todo) /\ d.key = c.key /\ d.notes = c.notes /\ d.to = c.to
          /\ d # TT!NoCall
      <4>1. /\ Shaped(b) /\ b.todo = Tail(c.todo) /\ b.key = c.key /\ b.notes = c.notes /\ b.to = c.to
            /\ b.todo # <<>>
        <5>1. Tail(c.todo) # <<>>
          BY <1>2, <1>3, <2>7, Rest
        <5>2. LET e == [c EXCEPT !.todo = Tail(c.todo)] IN
              /\ Shaped(e) /\ e.todo = Tail(c.todo) /\ e.key = c.key /\ e.notes = c.notes /\ e.to = c.to
          BY <1>1, <1>2, <2>7, RestShaped
        <5> QED BY <3>1, <5>1, <5>2
      <4>2. /\ DOMAIN d = DOMAIN c /\ d.todo = Tail(c.todo) /\ d.key = c.key /\ d.notes = c.notes /\ d.to = c.to
        BY <1>1, <3>1 DEF Shaped
      <4>3. TT!NoCall.todo = <<>>
        BY DEF TT!NoCall
      <4>4. d # TT!NoCall
        BY <4>1, <4>2, <4>3
      <4>5. Shaped(d)
        BY <1>1, <4>1, <4>2 DEF Shaped
      <4> QED BY <4>2, <4>4, <4>5
    <3>3. ttCall'[p] = d
      BY <2>1, <2>7, <3>1
    <3>4. NoteOK(d)'
      <4> SUFFICES ASSUME c.to # "none", c.notes # {} PROVE NoteOK(d)'
        BY <3>2 DEF NoteOK
      <4>1. c.todo = <<"status", "upsert">> /\ d.todo = <<"upsert">>
        <5>1. Len(<<"status">>) = 1
          OBVIOUS
        <5> QED BY <1>1, <1>2, <1>3, <2>7, <3>2, <5>1, Rest DEF NoteOK
      <4>2. c.to \notin TT!Terminal
        BY <1>1, <4>1 DEF NoteOK
      <4>3. thread'[d.key].status = c.to
        BY <1>3, <2>3, <3>2
      <4> QED BY <1>3, <2>2, <3>2, <4>1, <4>2, <4>3 DEF NoteOK, Takes, TT!Exists
    <3>5. Noted
      BY <2>5, <3>2, <3>3 DEF Noted
    <3> QED BY <2>1, <2>4, <2>5, <3>2, <3>3, <3>4, <3>5 DEF TTInv, ThreadsGrow, Shaped
  <2> QED BY <2>6, <2>7
<1> QED BY <1>4, <1>5

LEMMA TTStep ==
  ASSUME TTInv, [Move]_all
  PROVE  TTInv' /\ (Noted \/ UNCHANGED TT!vars)
<1>1. CASE TT!Next
  <2>1. CASE UNCHANGED <<thread, ttCall>>
    BY <2>1 DEF TTInv, Noted, NoteOK, Shaped, Takes, TT!Exists
  <2> QED BY <1>1, <2>1, TTCalls, TTUpdates, TTUpserts, TTStatuses, TTOthers
       DEF TT!Next, TT!UnlinkTask, TT!StartSession, TT!EndSession
<1>2. CASE UNCHANGED ttState
  BY <1>2 DEF ttState, TTInv, NoteOK, Shaped, Takes, TT!Exists, TT!vars
<1> QED BY <1>1, <1>2 DEF Move, all, ttState

-----------------------------------------------------------------------------
(* Dream.  A dedup that is proposed, or on its way, is of two memories; what a   *)
(* runner is about to delete was a copy at its check, and is one as long as no   *)
(* other touches the two.                                                    *)
Said      == drTexts \cup {CHOOSE t \in drTexts : TRUE}
Memoirs   == [live : BOOLEAN, text : Said, hashed : BOOLEAN]
Paired(a) == a.type = "dedup" => a.mem \in drMems /\ \E k \in drMems \ {a.mem} : a.related = {k}
IsCopy(a, S) == a.type = "dedup" /\ DR!Kept(a) \notin S /\ DR!Target(a) \notin S => DR!CheckDedupPair(a)
DreamOK(r, S) ==
  /\ \A a \in r.todo \cup r.members : Paired(a)
  /\ r.pc = "delete" => \E a : r.members = {a} /\ IsCopy(a, S)
DRInv ==
  /\ mem \in [drMems -> Memoirs]
  /\ \A x \in proposals : Paired(x.action)
  /\ DOMAIN drRun = Runners /\ DOMAIN drTouched = Runners
  /\ \A p \in Runners : DreamOK(drRun[p], drTouched[p])

(* What a delete leaves behind.                                               *)
Copied ==
  \A p \in Runners, m \in drMems :
    /\ drRun[p].pc = "delete" /\ drRun'[p].pc = "mark" /\ DR!Live(m) /\ ~DR!Live(m)'
    /\ \A a \in drRun[p].members : a.type = "dedup" /\ DR!Kept(a) \notin drTouched[p] /\ m \notin drTouched[p]
    => \E k \in drMems \ {m} : /\ ProjectOf[k] = ProjectOf[m] /\ mem'[k].live
                               /\ mem'[k].text = mem[m].text

LEMMA ThePair ==
  ASSUME NEW a, Paired(a), a.type = "dedup"
  PROVE  DR!Target(a) = a.mem /\ DR!Kept(a) \in drMems \ {a.mem} /\ a.mem \in drMems
<1>1. PICK k \in drMems \ {a.mem} : a.related = {k}
  BY DEF Paired
<1>2. DR!Kept(a) = k
  BY <1>1 DEF DR!Kept
<1> QED BY <1>1, <1>2 DEF Paired, DR!Target

LEMMA DRInit == DR!Init => DRInv
<1> SUFFICES ASSUME DR!Init PROVE DRInv
  OBVIOUS
<1>1. mem \in [drMems -> Memoirs]
  <2>1. PICK w \in Said : w = CHOOSE t \in drTexts : TRUE
    BY DEF Said
  <2>2. mem = [m \in drMems |-> [live |-> TRUE, text |-> w, hashed |-> m # 1]]
    BY <2>1 DEF DR!Init
  <2>3. \A m \in drMems : [live |-> TRUE, text |-> w, hashed |-> m # 1] \in Memoirs
    BY DEF Memoirs
  <2> QED BY <2>2, <2>3
<1>2. \A x \in proposals : Paired(x.action)
  BY DEF DR!Init, DR!Stored, DR!Action, Paired
<1>3. ASSUME NEW p \in Runners PROVE DreamOK(drRun[p], drTouched[p])
  <2>1. drRun[p] = DR!Idle
    BY DEF DR!Init
  <2> QED BY <2>1 DEF DreamOK, DR!Idle
<1> QED BY <1>1, <1>2, <1>3 DEF DRInv, DR!Init

(* The oldest of equal memories is one of them.                                *)
LEMMA KeeperIsOne ==
  ASSUME NEW m \in drMems, DR!Same(m, m)
  PROVE  DR!Keeper(m) \in drMems
<1> DEFINE T == {k \in drMems : DR!Same(m, k)}
           R == {ss \in Nat \X Nat : ss[1] < ss[2]}
<1>1. m \in T /\ T \subseteq Nat
  BY CallersAssumption
<1>2. PICK k \in T : \A x \in T : <<x, k>> \notin R
  <2> HIDE DEF T, R
  <2>1. IsWellFoundedOn(R, Nat)
    BY NatLessThanWellFounded DEF OpToRel, R, R
  <2> QED BY <1>1, <2>1, WFMin
<1>3. ASSUME NEW x \in T PROVE k <= x
  <2>1. <<x, k>> \notin R
    BY <1>2
  <2> QED BY <1>1, <1>2, <2>1
<1>4. \E z \in drMems : DR!Same(m, z) /\ \A x \in drMems : DR!Same(m, x) => z <= x
  BY <1>2, <1>3
<1> QED BY <1>4 DEF DR!Keeper

(* What an analysis reports.                                                 *)
LEMMA ReportsPairs ==
  ASSUME NEW pairs \in SUBSET NearPairs
  PROVE  \A a \in (DR!ExactActions \cup DR!NearActions(pairs)) \cup DR!SynthesizeActions(pairs) : Paired(a)
<1>1. ASSUME NEW a \in DR!ExactActions PROVE Paired(a)
  <2>1. PICK m \in DR!Exact : a = DR!Action("dedup", m, {DR!Keeper(m)})
    BY <1>1 DEF DR!ExactActions
  <2>2. m \in drMems /\ DR!Same(m, m) /\ DR!Keeper(m) # m
    BY DEF DR!Exact, DR!Same
  <2>3. DR!Keeper(m) \in drMems
    BY <2>2, KeeperIsOne
  <2> QED BY <2>1, <2>2, <2>3 DEF DR!Action, Paired
<1>2. ASSUME NEW a \in DR!NearActions(pairs) PROVE Paired(a)
  <2>1. PICK q \in NearPairs : a = DR!Action("dedup", q[1], {q[2]})
    BY <1>2 DEF DR!NearActions
  <2>2. q[1] \in drMems /\ q[2] \in drMems /\ q[1] # q[2]
    BY CallersAssumption
  <2> QED BY <2>1, <2>2 DEF DR!Action, Paired
<1>3. ASSUME NEW a \in DR!SynthesizeActions(pairs) PROVE Paired(a)
  BY <1>3 DEF DR!SynthesizeActions, DR!Action, Paired
<1> QED BY <1>1, <1>2, <1>3

(* A step that changes no memory, or no run, deletes nothing,                     *)
LEMMA NothingGone ==
  ASSUME \/ UNCHANGED mem
         \/ UNCHANGED drRun
  PROVE  Copied
BY DEF Copied, DR!Live

(* and a step of one runner that changes no memory leaves the others alone.        *)
LEMMA RunnerGoes ==
  ASSUME DRInv, UNCHANGED mem, NEW p \in Runners, NEW r, drRun' = [drRun EXCEPT ![p] = r],
         drTouched' = drTouched \/ drTouched' = [drTouched EXCEPT ![p] = {}],
         \A x \in proposals' : Paired(x.action),
         \A a \in r.todo \cup r.members : Paired(a),
         r.pc = "delete" => \E a : r.members = {a} /\ (a.type = "dedup" => DR!CheckDedupPair(a))
  PROVE  DRInv' /\ Copied
<1>1. drRun'[p] = r /\ \A q \in Runners \ {p} : drRun'[q] = drRun[q] /\ drTouched'[q] = drTouched[q]
  BY DEF DRInv
<1>2. \A a, S : IsCopy(a, S) => IsCopy(a, S)'
  BY DEF IsCopy, DR!CheckDedupPair, DR!Live
<1>3. ASSUME NEW q \in Runners PROVE DreamOK(drRun[q], drTouched[q])'
  <2>1. CASE q = p
    <3>1. \A a : DR!CheckDedupPair(a) => DR!CheckDedupPair(a)'
      BY DEF DR!CheckDedupPair, DR!Live
    <3> QED BY <1>1, <2>1, <3>1 DEF DreamOK, IsCopy
  <2>2. CASE q # p
    BY <1>1, <2>2 DEF DRInv, DreamOK, IsCopy, DR!CheckDedupPair, DR!Live
  <2> QED BY <2>1, <2>2
<1> QED BY <1>3, NothingGone DEF DRInv, DreamOK

(* An analysis proposes, a run goes on with the next of its report, checked.       *)
LEMMA DRAnalyzes == ASSUME DRInv, NEW p \in Runners, DR!Analyze(p) PROVE DRInv' /\ Copied
<1>1. PICK pairs, report :
        /\ pairs \in SUBSET NearPairs
        /\ report = (DR!ExactActions \cup DR!NearActions(pairs)) \cup DR!SynthesizeActions(pairs)
        /\ proposals' = proposals \cup {DR!Stored(a, "proposed") : a \in {x \in report : ~DR!Known(x)}}
        /\ \/ drRun' = [drRun EXCEPT ![p] = DR!Idle]
           \/ drRun' = [drRun EXCEPT ![p] = [DR!Idle EXCEPT !.pc = "next", !.todo = {a \in report : a.type = "dedup"}]]
  BY DEF DR!Analyze
<1>2. \A a \in report : Paired(a)
  BY <1>1, ReportsPairs
<1>3. \A x \in proposals' : Paired(x.action)
  BY <1>1, <1>2 DEF DRInv, DR!Stored
<1>4. PICK r : /\ drRun' = [drRun EXCEPT ![p] = r] /\ r.todo \subseteq report /\ r.members = {}
              /\ r.pc \in {"idle", "next"}
  <2>1. PICK todo_ : todo_ = {a \in report : a.type = "dedup"} /\ todo_ \subseteq report
    OBVIOUS
  <2>2. PICK r : r = [DR!Idle EXCEPT !.pc = "next", !.todo = todo_]
    OBVIOUS
  <2>3. r.todo = todo_ /\ r.members = {} /\ r.pc = "next"
    BY <2>2 DEF DR!Idle
  <2>4. DR!Idle.todo = {} /\ DR!Idle.members = {} /\ DR!Idle.pc = "idle"
    BY DEF DR!Idle
  <2> QED BY <1>1, <2>1, <2>2, <2>3, <2>4
<1>5. UNCHANGED <<mem, drTouched>>
  BY DEF DR!Analyze
<1> QED BY <1>2, <1>3, <1>4, <1>5, RunnerGoes

LEMMA DRConsolidates == ASSUME DRInv, NEW p \in Runners, DR!Consolidate(p) PROVE DRInv' /\ Copied
<1>1. UNCHANGED <<mem, proposals>> /\ drTouched' = [drTouched EXCEPT ![p] = {}]
  BY DEF DR!Consolidate
<1>2. CASE drRun[p].todo = {}
  <2>1. drRun' = [drRun EXCEPT ![p] = DR!Idle]
    BY <1>2 DEF DR!Consolidate
  <2>2. DR!Idle.todo = {} /\ DR!Idle.members = {} /\ DR!Idle.pc = "idle"
    BY DEF DR!Idle
  <2> QED BY <1>1, <2>1, <2>2, RunnerGoes DEF DRInv
<1>3. CASE drRun[p].todo # {}
  <2>1. PICK a \in drRun[p].todo :
          drRun' = [drRun EXCEPT ![p].pc = IF DR!CheckDedupPair(a) THEN "delete" ELSE "next",
                       ![p].todo = IF DR!CheckDedupPair(a) THEN {a} \cup @ ELSE @ \ {a},
                       ![p].members = IF DR!CheckDedupPair(a) THEN {a} ELSE {}]
    BY <1>3 DEF DR!Consolidate
  <2>2. PICK r : r = [drRun[p] EXCEPT !.pc = IF DR!CheckDedupPair(a) THEN "delete" ELSE "next",
                       !.todo = IF DR!CheckDedupPair(a) THEN {a} \cup @ ELSE @ \ {a},
                       !.members = IF DR!CheckDedupPair(a) THEN {a} ELSE {}]
    OBVIOUS
  <2>3. drRun' = [drRun EXCEPT ![p] = r]
    BY <2>1, <2>2 DEF DRInv
  <2>4. /\ \A b \in r.todo \cup r.members : Paired(b)
        /\ r.pc = "delete" => r.members = {a} /\ DR!CheckDedupPair(a)
    BY <2>2 DEF DRInv, DreamOK
  <2> QED BY <1>1, <2>3, <2>4, RunnerGoes DEF DRInv
<1> QED BY <1>2, <1>3

(* An operator applies a stored proposal, checked again.                        *)
LEMMA DRApplies == ASSUME DRInv, NEW p \in Runners, DR!ApplyAction(p) PROVE DRInv' /\ Copied
<1>1. UNCHANGED <<mem, proposals>> /\ drTouched' = [drTouched EXCEPT ![p] = {}]
  BY DEF DR!ApplyAction
<1>2. PICK a : /\ \E x \in proposals : a = x.action
               /\ a.type \in {"dedup", "merge"} => DR!CheckDedupPair(a)
               /\ \/ drRun' = [drRun EXCEPT ![p] = [pc |-> "write", todo |-> {}, members |-> {a}]]
                  \/ drRun' = [drRun EXCEPT ![p] = [pc |-> "delete", todo |-> {}, members |-> {a}]]
  BY DEF DR!ApplyAction
<1>3. Paired(a) /\ \A x \in proposals' : Paired(x.action)
  BY <1>1, <1>2 DEF DRInv
<1>4. PICK r : /\ drRun' = [drRun EXCEPT ![p] = r] /\ r.todo = {} /\ r.members = {a}
              /\ r.pc \in {"write", "delete"}
  <2>1. PICK r1, r2 : r1 = [pc |-> "write", todo |-> {}, members |-> {a}]
                    /\ r2 = [pc |-> "delete", todo |-> {}, members |-> {a}]
    OBVIOUS
  <2>2. r1.todo = {} /\ r1.members = {a} /\ r1.pc = "write" /\ r2.todo = {} /\ r2.members = {a} /\ r2.pc = "delete"
    BY <2>1
  <2> QED BY <1>2, <2>1, <2>2
<1> QED BY <1>1, <1>2, <1>3, <1>4, RunnerGoes

(* What was applied, or deleted meanwhile, is marked, and the run goes on.          *)
LEMMA DRReturns ==
  ASSUME DRInv, NEW p \in Runners, DR!SkipDeleted(p) \/ DR!MarkApplied(p) \/ DR!ApplySynthesize(p)
  PROVE  DRInv' /\ Copied
<1>1. UNCHANGED <<mem, drTouched>>
  BY DEF DR!SkipDeleted, DR!MarkApplied, DR!ApplySynthesize
<1>2. \A x \in proposals' : Paired(x.action)
  <2>1. ASSUME NEW a \in drRun[p].members, proposals' = DR!Applied(a) PROVE \A x \in proposals' : Paired(x.action)
    <3>1. Paired(a)
      BY DEF DRInv, DreamOK
    <3> QED BY <2>1, <3>1 DEF DR!Applied, DR!Stored, DRInv
  <2> QED BY <2>1 DEF DRInv, DR!SkipDeleted, DR!MarkApplied, DR!ApplySynthesize
<1>3. PICK r : /\ drRun' = [drRun EXCEPT ![p] = r] /\ r.todo \subseteq drRun[p].todo /\ r.members = {}
              /\ r.pc \in {"idle", "next"}
  <2>1. DR!Idle.todo = {} /\ DR!Idle.members = {} /\ DR!Idle.pc = "idle"
    BY DEF DR!Idle
  <2>2. ASSUME NEW a, DR!Return(p, a)
        PROVE  \E r : /\ drRun' = [drRun EXCEPT ![p] = r] /\ r.todo \subseteq drRun[p].todo /\ r.members = {}
                      /\ r.pc \in {"idle", "next"}
    <3>1. PICK left : left = drRun[p].todo \ {a} /\ left \subseteq drRun[p].todo
      OBVIOUS
    <3>2. PICK r : r = [pc |-> "next", todo |-> left, members |-> {}]
      OBVIOUS
    <3>3. r.pc = "next" /\ r.todo = left /\ r.members = {}
      BY <3>2
    <3> QED BY <2>1, <2>2, <3>1, <3>2, <3>3 DEF DR!Return
  <2> QED BY <2>1, <2>2 DEF DR!SkipDeleted, DR!MarkApplied, DR!ApplySynthesize
<1> QED BY <1>1, <1>2, <1>3, RunnerGoes DEF DRInv, DreamOK

(* A change of a memory is told to the runners that are about to delete.           *)
LEMMA ToldOthers ==
  ASSUME DRInv, NEW m \in drMems, NEW a, NEW S, NEW T, IsCopy(a, S), S \cup {m} \subseteq T,
         \A k \in drMems \ {m} : mem'[k] = mem[k], Paired(a)
  PROVE  IsCopy(a, T)'
<1> SUFFICES ASSUME a.type = "dedup", DR!Kept(a) \notin T, DR!Target(a) \notin T PROVE DR!CheckDedupPair(a)'
  BY DEF IsCopy, DR!Kept, DR!Target
<1>1. DR!CheckDedupPair(a)
  BY DEF IsCopy
<1>2. DR!Target(a) \in drMems \ {m} /\ DR!Kept(a) \in drMems \ {m}
  BY ThePair
<1>3. mem'[DR!Target(a)] = mem[DR!Target(a)] /\ mem'[DR!Kept(a)] = mem[DR!Kept(a)]
  BY <1>2
<1> QED BY <1>1, <1>3 DEF DR!CheckDedupPair, DR!Live, DR!Target, DR!Kept

LEMMA DRDeletes == ASSUME DRInv, NEW p \in Runners, DR!SoftDelete(p) PROVE DRInv' /\ Copied
<1>1. PICK a \in drRun[p].members :
        /\ drRun[p].pc = "delete"
        /\ mem' = [mem EXCEPT ![DR!Target(a)].live = FALSE]
        /\ drRun' = [drRun EXCEPT ![p].pc = IF DR!Live(DR!Target(a)) \/ a.type = "merge" THEN "mark" ELSE "skip"]
        /\ drTouched' = [q \in Runners |-> IF q = p THEN drTouched[q] ELSE drTouched[q] \cup {DR!Target(a)}]
        /\ UNCHANGED proposals
  BY DEF DR!SoftDelete, DR!Touch
<1>2. Paired(a) /\ drRun[p].members = {a} /\ IsCopy(a, drTouched[p])
  BY <1>1 DEF DRInv, DreamOK
<1>3. mem' \in [drMems -> Memoirs]
  BY <1>1 DEF DRInv, Memoirs
<1>4. \A k \in drMems : k # DR!Target(a) => mem'[k] = mem[k]
  BY <1>1 DEF DRInv
<1>5. ASSUME NEW q \in Runners PROVE DreamOK(drRun[q], drTouched[q])'
  <2>1. CASE q = p
    <3>1. drRun'[p].todo = drRun[p].todo /\ drRun'[p].members = drRun[p].members /\ drRun'[p].pc # "delete"
      BY <1>1 DEF DRInv
    <3> QED BY <2>1, <3>1 DEF DRInv, DreamOK
  <2>2. CASE q # p
    <3>1. drRun'[q] = drRun[q] /\ drTouched'[q] = drTouched[q] \cup {DR!Target(a)}
      BY <1>1, <2>2 DEF DRInv
    <3>2. DreamOK(drRun[q], drTouched[q])
      BY DEF DRInv
    <3> SUFFICES ASSUME drRun[q].pc = "delete" PROVE \E b : drRun[q].members = {b} /\ IsCopy(b, drTouched[q])'
      BY <3>1, <3>2 DEF DreamOK
    <3>3. PICK b : drRun[q].members = {b} /\ IsCopy(b, drTouched[q]) /\ Paired(b)
      BY <3>2 DEF DreamOK
    <3>4. CASE DR!Target(a) \in drMems
      <4>1. PICK T : T = drTouched[q] \cup {DR!Target(a)} /\ T = drTouched'[q]
        BY <3>1
      <4>2. IsCopy(b, T)'
        BY <1>4, <3>3, <3>4, <4>1, ToldOthers
      <4> QED BY <3>3, <4>1, <4>2 DEF IsCopy
    <3>5. CASE DR!Target(a) \notin drMems
      <4>1. mem' = mem
        BY <1>3, <1>4, <3>5 DEF DRInv
      <4> QED BY <3>1, <3>3, <4>1 DEF IsCopy, DR!CheckDedupPair, DR!Live, DR!Target, DR!Kept
    <3> QED BY <3>4, <3>5
  <2> QED BY <2>1, <2>2
<1>6. Copied
  <2> SUFFICES ASSUME NEW q \in Runners, NEW m \in drMems,
                      drRun[q].pc = "delete", drRun'[q].pc = "mark", mem[m].live, ~mem'[m].live,
                      \A b \in drRun[q].members : b.type = "dedup" /\ DR!Kept(b) \notin drTouched[q] /\ m \notin drTouched[q]
               PROVE  \E k \in drMems \ {m} : /\ ProjectOf[k] = ProjectOf[m] /\ mem'[k].live
                                               /\ mem'[k].text = mem[m].text
    BY DEF Copied, DR!Live
  <2>1. q = p
    BY <1>1 DEF DRInv
  <2>2. m = DR!Target(a)
    BY <1>4
  <2>3. DR!CheckDedupPair(a) /\ a.type = "dedup"
    BY <1>2, <2>1, <2>2 DEF IsCopy
  <2>4. DR!Kept(a) \in drMems \ {m}
    BY <1>2, <2>2, <2>3, ThePair
  <2> QED BY <1>4, <2>2, <2>3, <2>4 DEF DR!CheckDedupPair, DR!Live
<1> QED BY <1>1, <1>3, <1>5, <1>6 DEF DRInv

LEMMA DREdits ==
  ASSUME DRInv, NEW m \in drMems, DR!Update(m) \/ DR!Forget(m) \/ DR!Restore(m)
  PROVE  DRInv' /\ Copied
<1>1. PICK r \in Memoirs : mem' = [mem EXCEPT ![m] = r]
  <2>1. mem[m] \in Memoirs
    BY DEF DRInv
  <2>2. \A w \in drTexts : [mem[m] EXCEPT !.text = w, !.hashed = TRUE] \in Memoirs
    BY <2>1 DEF Memoirs, Said
  <2>3. [mem[m] EXCEPT !.live = FALSE] \in Memoirs /\ [mem[m] EXCEPT !.live = TRUE] \in Memoirs
    BY <2>1 DEF Memoirs
  <2> QED BY <2>2, <2>3 DEF DR!Update, DR!Forget, DR!Restore, DR!Edit
<1>2. /\ drTouched' = [q \in Runners |-> drTouched[q] \cup {m}]
      /\ UNCHANGED <<proposals, drRun>>
  BY DEF DR!Update, DR!Forget, DR!Restore, DR!Edit
<1>3. mem' \in [drMems -> Memoirs] /\ \A k \in drMems \ {m} : mem'[k] = mem[k]
  BY <1>1 DEF DRInv
<1>4. ASSUME NEW q \in Runners PROVE DreamOK(drRun[q], drTouched[q])'
  <2>1. DreamOK(drRun[q], drTouched[q])
    BY DEF DRInv
  <2> SUFFICES ASSUME drRun[q].pc = "delete" PROVE \E b : drRun[q].members = {b} /\ IsCopy(b, drTouched[q])'
    BY <1>2, <2>1 DEF DreamOK
  <2>2. PICK b : drRun[q].members = {b} /\ IsCopy(b, drTouched[q]) /\ Paired(b)
    BY <2>1 DEF DreamOK
  <2>3. PICK T : T = drTouched[q] \cup {m} /\ T = drTouched'[q]
    BY <1>2
  <2>4. IsCopy(b, T)'
    BY <1>3, <2>2, <2>3, ToldOthers
  <2> QED BY <2>2, <2>3, <2>4 DEF IsCopy
<1> QED BY <1>2, <1>3, <1>4, NothingGone DEF DRInv

LEMMA DRStep ==
  ASSUME DRInv, [Move]_all
  PROVE  DRInv' /\ (Copied \/ UNCHANGED DR!vars)
<1>1. CASE DR!Next
  BY <1>1, DRAnalyzes, DRConsolidates, DRApplies, DRReturns, DRDeletes, DREdits DEF DR!Next
<1>2. CASE UNCHANGED drState
  BY <1>2 DEF drState, DRInv, DreamOK, IsCopy, DR!CheckDedupPair, DR!Live, DR!vars
<1> QED BY <1>1, <1>2 DEF Move, all, drState

-----------------------------------------------------------------------------
(* HookMemory.  A Stop hook that saves has seen every text it was shown that is  *)
(* still a memory.                                                           *)
HookRows == [text : hmTexts, live : BOOLEAN, low : BOOLEAN]
Turns == [pc : {"idle", "expand", "track", "merge", "count", "load", "save"}, hits : SUBSET Nat,
          todo : SUBSET hmTexts, seen : SUBSET (Nat \cup hmTexts), saves : Nat, known : SUBSET Nat]
ShownIsSeen(c) ==
  c.pc = "save" => \A i \in c.known : /\ i \in DOMAIN hmRows
                                      /\ hmRows[i].live => hmRows[i].text \in c.seen
HMInv ==
  /\ hmRows \in Seq(HookRows)
  /\ working \in [hmSessions -> SUBSET (Nat \cup hmTexts)]
  /\ tool \in [hmSessions -> SUBSET (Nat \cup hmTexts)]
  /\ turn \in [hmSessions -> Turns] /\ \A s \in hmSessions : ShownIsSeen(turn[s])

(* What a step may not save.                                                 *)
Fresh ==
  \A s \in hmSessions : turn'[s].saves > turn[s].saves =>
    \A i \in turn[s].known : hmRows[i].live => hmRows[i].text # hmRows'[Len(hmRows')].text

LEMMA HMInit == HM!Init => HMInv
<1> SUFFICES ASSUME HM!Init PROVE HMInv
  OBVIOUS
<1>1. HM!NoTurn \in Turns /\ ShownIsSeen(HM!NoTurn)
  BY DEF HM!NoTurn, Turns, ShownIsSeen
<1>2. HM!NotRead \in SUBSET Nat
  BY DEF HM!NotRead
<1> QED BY <1>1, <1>2 DEF HM!Init, HMInv

(* Rows are added at the end, forgotten and demoted.                           *)
RowsGrow ==
  /\ hmRows' \in Seq(HookRows) /\ DOMAIN hmRows \subseteq DOMAIN hmRows'
  /\ \A i \in DOMAIN hmRows : /\ hmRows'[i].text = hmRows[i].text
                              /\ hmRows'[i].live => hmRows[i].live

LEMMA ShownStays == ASSUME RowsGrow, NEW c, ShownIsSeen(c) PROVE ShownIsSeen(c)'
BY DEF RowsGrow, ShownIsSeen

LEMMA SameKept == ASSUME HMInv, UNCHANGED hmRows PROVE RowsGrow
BY DEF HMInv, RowsGrow

LEMMA AddedKept ==
  ASSUME HMInv, NEW t \in hmTexts, hmRows' = Append(hmRows, HM!Row(t))
  PROVE  RowsGrow /\ hmRows'[Len(hmRows')].text = t
<1>1. HM!Row(t) \in HookRows /\ HM!Row(t).text = t
  BY DEF HM!Row, HookRows
<1>2. PICK r \in HookRows : r = HM!Row(t)
  BY <1>1
<1>3. PICK old \in Seq(HookRows), new \in Seq(HookRows) : old = hmRows /\ new = hmRows' /\ new = Append(old, r)
  BY <1>2 DEF HMInv
<1>4. /\ Len(new) = Len(old) + 1 /\ new[Len(new)] = r
      /\ DOMAIN old = 1 .. Len(old) /\ DOMAIN new = 1 .. Len(new)
      /\ \A i \in 1 .. Len(old) : new[i] = old[i]
  BY <1>3
<1> QED BY <1>1, <1>2, <1>3, <1>4 DEF RowsGrow

LEMMA ChangedKept ==
  ASSUME HMInv, NEW i \in DOMAIN hmRows, NEW r \in HookRows, r.text = hmRows[i].text,
         r.live => hmRows[i].live, hmRows' = [hmRows EXCEPT ![i] = r]
  PROVE  RowsGrow
<1>1. PICK old \in Seq(HookRows) : old = hmRows
  BY DEF HMInv
<1>2. [old EXCEPT ![i] = r] \in Seq(HookRows) /\ DOMAIN [old EXCEPT ![i] = r] = DOMAIN old
  BY <1>1
<1> QED BY <1>1, <1>2 DEF RowsGrow

(* A step of a turn that saves nothing.                                       *)
LEMMA TurnGoes ==
  ASSUME HMInv, RowsGrow, NEW s \in hmSessions, NEW c \in Turns, turn' = [turn EXCEPT ![s] = c],
         c.saves <= turn[s].saves, ShownIsSeen(c),
         working' \in [hmSessions -> SUBSET (Nat \cup hmTexts)], UNCHANGED tool
  PROVE  HMInv' /\ Fresh
<1>1. turn' \in [hmSessions -> Turns] /\ turn'[s] = c /\ \A q \in hmSessions \ {s} : turn'[q] = turn[q]
  BY DEF HMInv
<1>2. ASSUME NEW q \in hmSessions PROVE ShownIsSeen(turn[q])'
  <2>1. PICK d : d = turn'[q] /\ ShownIsSeen(d)
    BY <1>1 DEF HMInv
  <2>2. ShownIsSeen(d)'
    BY <2>1, ShownStays
  <2> QED BY <2>1, <2>2 DEF ShownIsSeen
<1>3. \A q \in hmSessions : turn[q].saves \in Nat /\ turn'[q].saves \in Nat
  BY <1>1 DEF HMInv, Turns
<1>4. Fresh
  BY <1>1, <1>3 DEF Fresh
<1> QED BY <1>1, <1>2, <1>4 DEF HMInv, RowsGrow

(* Recall, the tools and the end of a turn.                                   *)
LEMMA HMRecalls ==
  ASSUME HMInv, NEW s \in hmSessions,
         \/ HM!Bm25TopHits(s) \/ HM!VectorExpandHits(s) \/ HM!TrackRead(s) \/ HM!TrackMerge(s)
         \/ HM!TrackCount(s) \/ HM!EndHook(s) \/ HM!MarkUsedMemories(s)
  PROVE  HMInv' /\ Fresh
<1>1. UNCHANGED <<hmRows, tool>>
  BY DEF HM!Bm25TopHits, HM!VectorExpandHits, HM!TrackRead, HM!TrackMerge, HM!TrackCount, HM!EndHook,
    HM!MarkUsedMemories, HM!feedback
<1>2. turn[s] \in Turns /\ turn[s].saves \in Nat /\ DOMAIN hmRows \subseteq Nat
      /\ 0 <= turn[s].saves /\ turn[s].saves <= turn[s].saves
  <2>1. PICK n \in Nat : n = turn[s].saves
    BY DEF HMInv, Turns
  <2>2. 0 <= n /\ n <= n
    BY <2>1
  <2> QED BY <2>1, <2>2 DEF HMInv, Turns
<1>3. HM!NoTurn \in Turns /\ HM!NoTurn.saves = 0 /\ HM!NoTurn.pc = "idle"
  BY DEF HM!NoTurn, Turns
<1>4. working' \in [hmSessions -> SUBSET (Nat \cup hmTexts)]
  <2>1. CASE HM!TrackMerge(s)
    <3>1. turn[s].seen \cup turn[s].hits \in SUBSET (Nat \cup hmTexts)
      BY <1>2 DEF Turns
    <3> QED BY <2>1, <3>1 DEF HM!TrackMerge, HMInv
  <2>2. CASE ~HM!TrackMerge(s)
    BY <2>2 DEF HMInv, HM!Bm25TopHits, HM!VectorExpandHits, HM!TrackRead, HM!TrackCount, HM!EndHook,
      HM!MarkUsedMemories, HM!feedback
  <2> QED BY <2>1, <2>2
<1>5. PICK c \in Turns : turn' = [turn EXCEPT ![s] = c] /\ c.saves <= turn[s].saves /\ c.pc # "save"
  <2>1. CASE HM!Bm25TopHits(s)
    <3>1. PICK found \in SUBSET (DOMAIN hmRows) :
            turn' = [turn EXCEPT ![s] = [HM!NoTurn EXCEPT
                       !.pc = IF HM!Cardinality(found) < Limit THEN "expand" ELSE "track", !.hits = found]]
      BY <2>1 DEF HM!Bm25TopHits, HM!AtMost, HM!Ids, HM!Step
    <3>2. PICK pc \in {"expand", "track"} : pc = IF HM!Cardinality(found) < Limit THEN "expand" ELSE "track"
      OBVIOUS
    <3>3. PICK c : c = [HM!NoTurn EXCEPT !.pc = pc, !.hits = found]
      OBVIOUS
    <3>4. c \in Turns /\ c.saves = 0 /\ c.pc = pc
      BY <1>2, <1>3, <3>3 DEF Turns
    <3> QED BY <1>2, <3>1, <3>2, <3>3, <3>4
  <2>2. CASE HM!VectorExpandHits(s)
    <3>1. PICK near \in SUBSET (DOMAIN hmRows) :
            turn' = [turn EXCEPT ![s] = [turn[s] EXCEPT !.pc = "track", !.hits = @ \cup near]]
      BY <2>2 DEF HM!VectorExpandHits, HM!AtMost, HM!Ids, HM!Step
    <3>2. PICK c : c = [turn[s] EXCEPT !.pc = "track", !.hits = @ \cup near]
      OBVIOUS
    <3>3. c \in Turns /\ c.saves = turn[s].saves /\ c.pc = "track"
      BY <1>2, <3>2 DEF Turns
    <3> QED BY <1>2, <3>1, <3>2, <3>3
  <2>3. CASE HM!TrackRead(s)
    <3>1. PICK c : c = [turn[s] EXCEPT !.pc = "merge", !.seen = working[s]]
      OBVIOUS
    <3>2. c \in Turns /\ c.saves = turn[s].saves /\ c.pc = "merge"
      BY <1>2, <3>1 DEF Turns, HMInv
    <3> QED BY <1>2, <2>3, <3>1, <3>2 DEF HM!TrackRead, HM!Step
  <2>4. CASE HM!TrackMerge(s)
    <3>1. PICK c : c = [turn[s] EXCEPT !.pc = "count"]
      OBVIOUS
    <3>2. c \in Turns /\ c.saves = turn[s].saves /\ c.pc = "count"
      BY <1>2, <3>1 DEF Turns
    <3>3. turn' = [turn EXCEPT ![s] = c]
      BY <2>4, <3>1 DEF HM!TrackMerge, HM!Goto, HMInv
    <3> QED BY <1>2, <3>2, <3>3
  <2>5. CASE HM!TrackCount(s) \/ HM!EndHook(s)
    BY <1>2, <1>3, <2>5 DEF HM!TrackCount, HM!EndHook, HM!EndTurn
  <2>6. CASE HM!MarkUsedMemories(s)
    <3>1. PICK know \in SUBSET hmTexts :
            turn' = [turn EXCEPT ![s] = [HM!NoTurn EXCEPT
                       !.pc = IF know = {} THEN "idle" ELSE "load", !.todo = know]]
      BY <2>6 DEF HM!MarkUsedMemories, HM!DurableCandidates, HM!Step
    <3>2. PICK pc \in {"idle", "load"} : pc = IF know = {} THEN "idle" ELSE "load"
      OBVIOUS
    <3>3. PICK c : c = [HM!NoTurn EXCEPT !.pc = pc, !.todo = know]
      OBVIOUS
    <3>4. c \in Turns /\ c.saves = 0 /\ c.pc = pc
      BY <1>3, <3>3 DEF Turns
    <3> QED BY <1>2, <3>1, <3>2, <3>3, <3>4
  <2> QED BY <2>1, <2>2, <2>3, <2>4, <2>5, <2>6
<1>6. ShownIsSeen(c)
  BY <1>5 DEF ShownIsSeen
<1> QED BY <1>1, <1>4, <1>5, <1>6, SameKept, TurnGoes

(* The Stop hook loads what it is shown, and leaves out or saves a candidate.    *)
LEMMA HMStops ==
  ASSUME HMInv, NEW s \in hmSessions,
         HM!LoadRecent(s) \/ \E t \in hmTexts : HM!SkipDuplicate(s, t) \/ HM!SaveMemory(s, t)
  PROVE  HMInv' /\ Fresh
<1>1. turn[s] \in Turns /\ turn[s].saves \in Nat /\ ShownIsSeen(turn[s]) /\ DOMAIN hmRows \subseteq Nat
      /\ 0 <= turn[s].saves /\ turn[s].saves <= turn[s].saves
  <2>1. PICK n \in Nat : n = turn[s].saves
    BY DEF HMInv, Turns
  <2>2. 0 <= n /\ n <= n
    BY <2>1
  <2> QED BY <2>1, <2>2 DEF HMInv, Turns
<1>2. UNCHANGED <<working, tool>> /\ working \in [hmSessions -> SUBSET (Nat \cup hmTexts)]
  BY DEF HMInv, HM!LoadRecent, HM!SkipDuplicate, HM!SaveMemory, HM!feedback
<1>3. CASE HM!LoadRecent(s)
  <2>1. UNCHANGED hmRows
    BY <1>3 DEF HM!LoadRecent
  <2>2. CASE turn' = [turn EXCEPT ![s] = HM!NoTurn]
    <3>1. HM!NoTurn \in Turns /\ HM!NoTurn.saves = 0 /\ ShownIsSeen(HM!NoTurn)
      BY DEF HM!NoTurn, Turns, ShownIsSeen
    <3> QED BY <1>1, <1>2, <2>1, <2>2, <3>1, SameKept, TurnGoes
  <2>3. CASE turn' = [turn EXCEPT ![s] = [turn[s] EXCEPT !.pc = "save", !.known = HM!RecentIds,
                        !.seen = {hmRows[i].text : i \in HM!RecentIds}]]
    <3>1. PICK R \in SUBSET (DOMAIN hmRows) : R = HM!RecentIds
      BY DEF HM!RecentIds, HM!Ids
    <3>2. PICK S \in SUBSET hmTexts : S = {hmRows[i].text : i \in R}
      <4>1. PICK old \in Seq(HookRows) : old = hmRows
        BY DEF HMInv
      <4>2. \A i \in DOMAIN old : old[i] \in HookRows
        BY <4>1
      <4>3. \A i \in DOMAIN hmRows : hmRows[i].text \in hmTexts
        BY <4>1, <4>2 DEF HookRows
      <4> QED BY <4>3
    <3>3. PICK c : c = [turn[s] EXCEPT !.pc = "save", !.known = R, !.seen = S]
      OBVIOUS
    <3>4. c \in Turns /\ c.saves = turn[s].saves /\ c.known = R /\ c.seen = S
      BY <1>1, <3>3 DEF Turns
    <3>5. ShownIsSeen(c)
      BY <3>2, <3>4 DEF ShownIsSeen
    <3>6. turn' = [turn EXCEPT ![s] = c]
      BY <2>3, <3>1, <3>2, <3>3
    <3> QED BY <1>1, <1>2, <2>1, <3>4, <3>5, <3>6, SameKept, TurnGoes
  <2> QED BY <1>3, <2>2, <2>3 DEF HM!LoadRecent, HM!Step, HM!EndTurn
<1>4. ASSUME NEW t \in hmTexts, turn' = [turn EXCEPT ![s] = [turn[s] EXCEPT !.todo = @ \ {t}]], UNCHANGED hmRows
      PROVE  HMInv' /\ Fresh
  <2>1. PICK c : c = [turn[s] EXCEPT !.todo = @ \ {t}]
    OBVIOUS
  <2>2. /\ c \in Turns /\ c.saves = turn[s].saves /\ c.known = turn[s].known /\ c.seen = turn[s].seen
        /\ c.pc = turn[s].pc
    BY <1>1, <2>1 DEF Turns
  <2>3. ShownIsSeen(c)
    BY <1>1, <2>2 DEF ShownIsSeen
  <2> QED BY <1>1, <1>2, <1>4, <2>1, <2>2, <2>3, SameKept, TurnGoes
<1>5. ASSUME NEW t \in hmTexts, HM!SaveMemory(s, t), hmRows' = Append(hmRows, HM!Row(t)),
             turn' = [turn EXCEPT ![s] = [turn[s] EXCEPT !.todo = @ \ {t}, !.seen = @ \cup {t}, !.saves = @ + 1]]
      PROVE  HMInv' /\ Fresh
  <2>1. RowsGrow /\ hmRows'[Len(hmRows')].text = t
    BY <1>5, AddedKept
  <2>2. turn[s].pc = "save" /\ t \notin turn[s].seen
    BY <1>5 DEF HM!SaveMemory, HM!At
  <2>3. PICK n \in Nat : n = turn[s].saves + 1
    BY <1>1
  <2>4. PICK c : c = [turn[s] EXCEPT !.todo = @ \ {t}, !.seen = @ \cup {t}, !.saves = n]
    OBVIOUS
  <2>5. /\ c \in Turns /\ c.known = turn[s].known /\ c.seen = turn[s].seen \cup {t} /\ c.pc = "save"
    BY <1>1, <2>2, <2>4 DEF Turns
  <2>6. turn' = [turn EXCEPT ![s] = c]
    BY <1>5, <2>3, <2>4
  <2>7. turn' \in [hmSessions -> Turns] /\ turn'[s] = c /\ \A q \in hmSessions \ {s} : turn'[q] = turn[q]
    BY <2>5, <2>6 DEF HMInv
  <2>8. ASSUME NEW q \in hmSessions PROVE ShownIsSeen(turn[q])'
    <3>1. CASE q = s
      <4>1. ShownIsSeen(c)
        BY <1>1, <2>2, <2>5 DEF ShownIsSeen
      <4>2. ShownIsSeen(c)'
        BY <2>1, <4>1, ShownStays
      <4> QED BY <2>7, <3>1, <4>2 DEF ShownIsSeen
    <3>2. CASE q # s
      <4>1. PICK d : d = turn[q] /\ d = turn'[q] /\ ShownIsSeen(d)
        BY <2>7, <3>2 DEF HMInv
      <4>2. ShownIsSeen(d)'
        BY <2>1, <4>1, ShownStays
      <4> QED BY <4>1, <4>2 DEF ShownIsSeen
    <3> QED BY <3>1, <3>2
  <2>9. Fresh
    <3> SUFFICES ASSUME NEW q \in hmSessions, turn'[q].saves > turn[q].saves, NEW i \in turn[q].known, hmRows[i].live
                 PROVE  hmRows[i].text # hmRows'[Len(hmRows')].text
      BY DEF Fresh
    <3>1. turn[q].saves \in Nat
      BY DEF HMInv, Turns
    <3>2. q = s
      BY <2>7, <3>1
    <3> QED BY <1>1, <2>1, <2>2, <3>2 DEF ShownIsSeen
  <2> QED BY <1>2, <2>1, <2>7, <2>8, <2>9 DEF HMInv, RowsGrow
<1> QED BY <1>3, <1>4, <1>5 DEF HM!SkipDuplicate, HM!SaveMemory, HM!Step

(* Rows that others add, forget or demote.                                     *)
LEMMA RowsGo ==
  ASSUME HMInv, RowsGrow, UNCHANGED turn, tool' \in [hmSessions -> SUBSET (Nat \cup hmTexts)],
         working' \in [hmSessions -> SUBSET (Nat \cup hmTexts)]
  PROVE  HMInv' /\ Fresh
<1>1. ASSUME NEW q \in hmSessions PROVE ShownIsSeen(turn[q])'
  <2>1. PICK d : d = turn[q] /\ d = turn'[q] /\ ShownIsSeen(d)
    BY DEF HMInv
  <2>2. ShownIsSeen(d)'
    BY <2>1, ShownStays
  <2> QED BY <2>1, <2>2 DEF ShownIsSeen
<1>2. ASSUME NEW q \in hmSessions PROVE ~(turn'[q].saves > turn[q].saves)
  <2>1. PICK n \in Nat : n = turn[q].saves /\ n = turn'[q].saves
    BY DEF HMInv, Turns
  <2> QED BY <2>1
<1>3. Fresh
  BY <1>2 DEF Fresh
<1> QED BY <1>1, <1>3 DEF HMInv, RowsGrow

(* A tool hook merges what it read, whatever was merged since.                   *)
LEMMA HMTools ==
  ASSUME HMInv, NEW s \in hmSessions, HM!ToolRead(s) \/ HM!ToolWrite(s)
  PROVE  HMInv' /\ Fresh
<1>1. UNCHANGED <<hmRows, turn>>
  BY DEF HM!ToolRead, HM!ToolWrite
<1>2. HM!NotRead \in SUBSET Nat
  BY DEF HM!NotRead
<1>3. tool' \in [hmSessions -> SUBSET (Nat \cup hmTexts)] /\ working' \in [hmSessions -> SUBSET (Nat \cup hmTexts)]
  BY <1>2 DEF HMInv, HM!ToolRead, HM!ToolWrite, HM!feedback
<1> QED BY <1>1, <1>3, SameKept, RowsGo

(* A snapshot, a bootstrap and its child, and other processes.                  *)
LEMMA HMAround ==
  ASSUME HMInv, \/ \E s \in hmSessions, t \in hmTexts : HM!PreCompact(s, t)
                \/ HM!AutoBootstrap \/ \E t \in hmTexts : HM!Seed(t)
                \/ \E i \in 1 .. hmMaxRows : HM!Forget(i) \/ HM!Demote(i)
  PROVE  HMInv' /\ Fresh
<1>1. UNCHANGED <<turn, tool, working>>
  BY DEF HM!PreCompact, HM!AutoBootstrap, HM!Seed, HM!Forget, HM!Demote, HM!feedback
<1>2. RowsGrow
  <2>1. CASE UNCHANGED hmRows
    BY <2>1, SameKept
  <2>2. CASE \E t \in hmTexts : hmRows' = Append(hmRows, HM!Row(t))
    BY <2>2, AddedKept
  <2>3. ASSUME NEW i \in DOMAIN hmRows, hmRows[i] \in HookRows, hmRows' = [hmRows EXCEPT ![i].live = FALSE]
        PROVE  RowsGrow
    <3>1. PICK r : r = [hmRows[i] EXCEPT !.live = FALSE]
      OBVIOUS
    <3>2. r \in HookRows /\ r.text = hmRows[i].text /\ ~r.live
      BY <2>3, <3>1 DEF HookRows
    <3> QED BY <2>3, <3>1, <3>2, ChangedKept
  <2>4. ASSUME NEW i \in DOMAIN hmRows, hmRows[i] \in HookRows, hmRows' = [hmRows EXCEPT ![i].low = TRUE]
        PROVE  RowsGrow
    <3>1. PICK r : r = [hmRows[i] EXCEPT !.low = TRUE]
      OBVIOUS
    <3>2. r \in HookRows /\ r.text = hmRows[i].text /\ r.live = hmRows[i].live
      BY <2>4, <3>1 DEF HookRows
    <3> QED BY <2>4, <3>1, <3>2, ChangedKept
  <2>5. \A i \in DOMAIN hmRows : hmRows[i] \in HookRows
    BY DEF HMInv
  <2> QED BY <2>1, <2>2, <2>3, <2>4, <2>5 DEF HM!PreCompact, HM!AutoBootstrap, HM!Seed, HM!Forget, HM!Demote, HM!Ids
<1> QED BY <1>1, <1>2, RowsGo DEF HMInv

LEMMA HMStep ==
  ASSUME HMInv, [Move]_all
  PROVE  HMInv' /\ (Fresh \/ UNCHANGED HM!vars)
<1>1. CASE HM!Next
  BY <1>1, HMRecalls, HMStops, HMTools, HMAround DEF HM!Next
<1>2. CASE UNCHANGED hmState
  BY <1>2 DEF hmState, HMInv, ShownIsSeen, HM!vars, HM!feedback
<1> QED BY <1>1, <1>2 DEF Move, all, hmState

-----------------------------------------------------------------------------
(* The callers: the invariants of three of their components, whichever runs.  *)
CallersInv == PJInv /\ IMInv /\ BSInv

(* It holds when they begin,                                                 *)
LEMMA CallersInit == Initial => CallersInv
BY PJInit, IMInit, BSInit DEF Initial, CallersInv

(* and every step keeps it: one of the component that runs, and none of the      *)
(* others.                                                                   *)
LEMMA BSMoves == BSInv /\ [Move]_all => BSInv'
<1> SUFFICES ASSUME BSInv, [Move]_all PROVE BSInv'
  OBVIOUS
<1>1. [BS!Next]_bsState
  BY DEF Move, all, bsState
<1> QED BY <1>1, BSStep

LEMMA CallersStep == CallersInv /\ [Move]_all => CallersInv'
BY PJStep, IMStep, BSMoves DEF CallersInv

(* so it holds always.                                                       *)
LEMMA CallersAlways == CallersSpec => []CallersInv
BY CallersInit, CallersStep, PTL DEF CallersSpec

(* However operators fold the projects of any number of directories, two        *)
(* repositories are never taken for one; and however machines find, adopt,      *)
(* create, link and sync theirs on the servers, a repository is sent only to a   *)
(* project of its own key or of nobody's.                                     *)
THEOREM CallersApart == CallersSpec => []RepositoriesStayApart
<1>1. CallersInv => RepositoriesStayApart
  BY PJApart, BSOwn DEF CallersInv, RepositoriesStayApart
<1> QED BY <1>1, CallersAlways, PTL

(* However imports of the same items overlap and fail, one that skips a source *)
(* misses nothing but what the last import of it gave up itself; and a sync of    *)
(* everything that ends well has sent every batch of every project that has a     *)
(* route.                                                                    *)
THEOREM CallersDone == CallersSpec => []DoneMeansDone
<1>1. CallersInv => DoneMeansDone
  BY IMSkipped, BSSentAll DEF CallersInv, DoneMeansDone
<1> QED BY <1>1, CallersAlways, PTL

-----------------------------------------------------------------------------
(* The four together, whichever component runs,                                *)
UndoneInv == MSInv /\ TTInv /\ DRInv /\ HMInv

LEMMA UndoneInit == Initial => UndoneInv
BY MSInit, TTInit, DRInit, HMInit DEF Initial, UndoneInv

LEMMA UndoneStep ==
  UndoneInv /\ [Move]_all =>
    /\ UndoneInv' /\ [Forgotten]_(MS!vars) /\ [Noted]_(TT!vars) /\ [Copied]_(DR!vars) /\ [Fresh]_(HM!vars)
BY MSStep, TTStep, DRStep, HMStep DEF UndoneInv

(* and what their steps may not do is what is said of them.                     *)
LEMMA UndoneSteps ==
  CallersSpec => /\ [][Forgotten]_(MS!vars) /\ [][Noted]_(TT!vars)
                 /\ [][Copied]_(DR!vars) /\ [][Fresh]_(HM!vars)
BY UndoneInit, UndoneStep, PTL DEF CallersSpec

(* Whoever acts between what an actor read and what it writes: a memory that   *)
(* was forgotten comes back only when it is restored, or saved again by a       *)
(* call that found it, and one deleted outside the ledger by an undo, a save or   *)
(* an update that had read it; the note of a call that changes a status is in     *)
(* the journal when the call ends, unless the last status set before the note     *)
(* was merged closed the thread; a consolidation leaves a copy of what it        *)
(* deletes, unless another changed the pair since its check; and a Stop hook      *)
(* repeats nothing it was shown.                                             *)
THEOREM CallersUndone == CallersSpec => NothingIsUndone
<1>1. [][Forgotten]_(MS!vars) => MS!ForgottenStays
  BY PTL DEF MS!ForgottenStays, Forgotten
<1>2. [][Noted]_(TT!vars) => TT!NotesLand
  BY PTL DEF TT!NotesLand, Noted
<1>3. [][Copied]_(DR!vars) => DR!CopySurvives
  BY PTL DEF DR!CopySurvives, Copied
<1>4. [][Fresh]_(HM!vars) => HM!StopRepeatsNothing
  BY PTL DEF HM!StopRepeatsNothing, Fresh
<1> QED BY <1>1, <1>2, <1>3, <1>4, UndoneSteps, PTL DEF NothingIsUndone

=============================================================================
