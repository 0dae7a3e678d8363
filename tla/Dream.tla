--------------------------------- MODULE Dream ---------------------------------
(***************************************************************************)
(* Dream: an analysis proposes actions and stores them; a run applies its    *)
(* own report, an operator applies stored proposals one by one, long after,  *)
(* while memories are edited, forgotten and restored (pkg/dream).            *)
(*                                                                         *)
(* Memories are numbered in the order they were created.  Cosine similarity  *)
(* and the antonym tables are data.  `touched` is what                        *)
(* others changed since a runner's check.  Deletions stay under the run cap.  *)
(***************************************************************************)
EXTENDS Integers, FiniteSets

CONSTANTS Mems, Texts, Runners,
          ProjectOf, \* the project of a memory
  NearPairs, \* pairs whose vectors are close, in the order a shuffle gives them
          MaxEdits,  \* bound: edits, forgets, restores
          MaxRuns    \* bound: analyses and manual applies

VARIABLES mem, proposals, demoted, summaries, run, touched, edits, runs
vars == <<mem, proposals, demoted, summaries, run, touched, edits, runs>>

Live(m) == mem[m].live
Action(type, m, related) == [type |-> type, mem |-> m, related |-> related]
Stored(a, s) == [action |-> a, status |-> s]
Idle == [pc |-> "idle", todo |-> {}, members |-> {}]

(* An older version may have left a merge proposal.                          *)
Init ==
  /\ mem = [m \in Mems |-> [live |-> TRUE, text |-> CHOOSE t \in Texts : TRUE, hashed |-> m # 1]]
  /\ proposals \in {{}} \cup {{Stored(Action("merge", m, {k}), "proposed")} :
                                m \in {1}, k \in {x \in Mems : x = 2}}
  /\ demoted = {} /\ summaries = {}
  /\ run = [p \in Runners |-> Idle]
  /\ touched = [p \in Runners |-> {}]
  /\ edits = 0 /\ runs = 0

-----------------------------------------------------------------------------
(* Analyze: exact duplicates within one project, the oldest kept; near pairs *)
(* unless both are among the exact ones; clusters of at least three.         *)
Same(m, k) == Live(m) /\ Live(k) /\ ProjectOf[m] = ProjectOf[k]
              /\ mem[m].hashed /\ mem[k].hashed /\ mem[m].text = mem[k].text
Keeper(m) == CHOOSE k \in Mems : Same(m, k) /\ \A x \in Mems : Same(m, x) => k <= x
Exact == {m \in Mems : Live(m) /\ mem[m].hashed /\ Keeper(m) # m}
Seen  == Exact \cup {Keeper(m) : m \in Exact}

ExactActions == {Action("dedup", m, {Keeper(m)}) : m \in Exact}
NearActions(pairs) == {Action("dedup", q[1], {q[2]}) : q \in pairs}
(* A cluster is a connected component of the near pairs.                     *)
Clusters(pairs) ==
  LET nodes == {q[1] : q \in pairs} \cup {q[2] : q \in pairs} IN
  {C \in SUBSET nodes : /\ Cardinality(C) >= 3
                        /\ \A q \in pairs : q[1] \in C <=> q[2] \in C
                        /\ \A D \in SUBSET C \ {{}, C} :
                             \E q \in pairs : (q[1] \in D) # (q[2] \in D)}
Leader(C) == CHOOSE m \in C : \A k \in C : m <= k
SynthesizeActions(pairs) ==
  {Action("synthesize", Leader(C), C \ {Leader(C)}) : C \in Clusters(pairs)}

(* SaveDreamActions: INSERT OR IGNORE under an id made of type and memories. *)
Known(a) == \E s \in {"proposed", "applied"} : Stored(a, s) \in proposals
Analyze(p) ==
  LET candidates == {q \in NearPairs : Live(q[1]) /\ Live(q[2])
                                     /\ ~(q[1] \in Seen /\ q[2] \in Seen)} IN
  /\ run[p].pc = "idle" /\ runs < MaxRuns
  /\ \E pairs \in SUBSET candidates, dry \in BOOLEAN :
       LET report == ExactActions \cup NearActions(pairs) \cup SynthesizeActions(pairs) IN
       /\ proposals' = proposals \cup {Stored(a, "proposed") : a \in {x \in report : ~Known(x)}}
       /\ run' = [run EXCEPT ![p] = IF dry THEN Idle ELSE
            [Idle EXCEPT !.pc = "next", !.todo = {a \in report : a.type = "dedup"}]]
  /\ runs' = runs + 1
  /\ UNCHANGED <<mem, demoted, summaries, touched, edits>>

(* checkDedupPair: may the target go in favour of the keeper?                *)
Target(a) == IF a.type = "merge" THEN CHOOSE k \in a.related : TRUE ELSE a.mem
Kept(a)   == IF a.type = "merge" THEN a.mem ELSE CHOOSE k \in a.related : TRUE

(* Mutant: the report is trusted.                                            *)
CheckLive(a) == Live(Target(a)) /\ Live(Kept(a))

CheckDedupPair(a) ==
  /\ Live(Target(a)) /\ Live(Kept(a))
  /\ ProjectOf[Target(a)] = ProjectOf[Kept(a)]
  /\ a.type = "dedup" =>
       mem[Target(a)].hashed /\ mem[Kept(a)].hashed /\ mem[Target(a)].text = mem[Kept(a)].text

(* Consolidate goes on with the next dedup of its report.                    *)
Consolidate(p) ==
  /\ run[p].pc = "next"
  /\ IF run[p].todo = {} THEN run' = [run EXCEPT ![p] = Idle]
     ELSE \E a \in run[p].todo :
            run' = [run EXCEPT ![p].pc = IF CheckDedupPair(a) THEN "delete" ELSE "next",
                               ![p].todo = IF CheckDedupPair(a) THEN {a} \cup @ ELSE @ \ {a},
                               ![p].members = IF CheckDedupPair(a) THEN {a} ELSE {}]
  /\ touched' = [touched EXCEPT ![p] = {}]
  /\ UNCHANGED <<mem, proposals, demoted, summaries, edits, runs>>

(* ApplyAction: the stored proposal, checked again.                          *)
ApplyAction(p) ==
  /\ run[p].pc = "idle" /\ runs < MaxRuns
  /\ \E a \in {x.action : x \in {y \in proposals : y.status = "proposed"}} :
       /\ a.type \in {"dedup", "merge"} => CheckDedupPair(a)
       /\ run' = [run EXCEPT ![p] = IF a.type = "synthesize"
            THEN [pc |-> "write", todo |-> {}, members |-> {a}]
            ELSE [pc |-> "delete", todo |-> {}, members |-> {a}]]
       /\ a.type = "synthesize" => Cardinality({m \in {a.mem} \cup a.related : Live(m)}) >= 3
  /\ touched' = [touched EXCEPT ![p] = {}]
  /\ runs' = runs + 1
  /\ UNCHANGED <<mem, proposals, demoted, summaries, edits>>

(* What p changes counts as touched for the other runners.                   *)
Touch(p, S) == touched' = [q \in Runners |-> IF q = p THEN touched[q] ELSE touched[q] \cup S]

SoftDelete(p) == \E a \in run[p].members :
  /\ run[p].pc = "delete"
  /\ mem' = [mem EXCEPT ![Target(a)].live = FALSE]
  /\ run' = [run EXCEPT ![p].pc = IF Live(Target(a)) \/ a.type = "merge" THEN "mark" ELSE "skip"]
  /\ Touch(p, {Target(a)})
  /\ UNCHANGED <<proposals, demoted, summaries, edits, runs>>

Return(p, a) == run' = [run EXCEPT ![p] =
  IF run[p].todo = {} THEN Idle ELSE [pc |-> "next", todo |-> run[p].todo \ {a}, members |-> {}]]

(* "was deleted meanwhile; nothing applied", and the run goes on.            *)
SkipDeleted(p) == \E a \in run[p].members :
  /\ run[p].pc = "skip" /\ Return(p, a)
  /\ UNCHANGED <<mem, proposals, demoted, summaries, touched, edits, runs>>

Applied(a) == {IF x.action = a THEN Stored(a, "applied") ELSE x : x \in proposals}
MarkApplied(p) == \E a \in run[p].members :
  /\ run[p].pc = "mark" /\ Return(p, a)
  /\ proposals' = Applied(a)
  /\ UNCHANGED <<mem, demoted, summaries, touched, edits, runs>>

(* applySynthesize: summary, demotions and status in one transaction, over   *)
(* the members that were live when they were read.                           *)
ApplySynthesize(p) == \E a \in run[p].members :
  /\ run[p].pc = "write"
  /\ \E C \in SUBSET ({a.mem} \cup a.related) :
       /\ Cardinality(C) >= 3 /\ \A m \in ({a.mem} \cup a.related) \ touched[p] : m \in C <=> Live(m)
       /\ summaries' = summaries \cup {C}
       /\ demoted' = demoted \cup C
  /\ proposals' = Applied(a)
  /\ run' = [run EXCEPT ![p] = Idle]
  /\ UNCHANGED <<mem, touched, edits, runs>>

-----------------------------------------------------------------------------
Edit(m, r) ==
  /\ edits < MaxEdits /\ edits' = edits + 1
  /\ mem' = [mem EXCEPT ![m] = r]
  /\ touched' = [q \in Runners |-> touched[q] \cup {m}]
  /\ UNCHANGED <<proposals, demoted, summaries, run, runs>>

Update(m)  == Live(m) /\ \E t \in Texts : Edit(m, [mem[m] EXCEPT !.text = t, !.hashed = TRUE])
Forget(m)  == Live(m) /\ Edit(m, [mem[m] EXCEPT !.live = FALSE])
Restore(m) == ~Live(m) /\ Edit(m, [mem[m] EXCEPT !.live = TRUE])

Next ==
  \/ \E p \in Runners :
       \/ Analyze(p) \/ Consolidate(p) \/ ApplyAction(p) \/ SoftDelete(p)
       \/ SkipDeleted(p) \/ MarkApplied(p) \/ ApplySynthesize(p)
  \/ \E m \in Mems : Update(m) \/ Forget(m) \/ Restore(m)

Spec == Init /\ [][Next]_vars

-----------------------------------------------------------------------------
Actions == [type : {"dedup", "merge", "synthesize"}, mem : Mems, related : SUBSET Mems]
TypeOK ==
  /\ mem \in [Mems -> [live : BOOLEAN, text : Texts, hashed : BOOLEAN]]
  /\ \A x \in proposals : x.action \in Actions /\ x.status \in {"proposed", "applied"}
  /\ demoted \subseteq Mems /\ summaries \subseteq SUBSET Mems
  /\ \A p \in Runners : run[p].pc \in {"idle", "next", "delete", "skip", "mark", "write"}

(* However old the proposal, a dedup leaves a live memory of the same project *)
(* with the same text, unless the pair was changed between its check and the  *)
(* delete (consolidator.go 45-50).                                            *)
CopySurvives ==
  [][\A p \in Runners, m \in Mems :
       /\ run[p].pc = "delete" /\ run'[p].pc = "mark" /\ Live(m) /\ ~Live(m)'
       /\ \A a \in run[p].members : a.type = "dedup" /\ Kept(a) \notin touched[p] /\ m \notin touched[p]
       => \E k \in Mems \ {m} : /\ ProjectOf[k] = ProjectOf[m] /\ mem'[k].live
                                /\ mem'[k].text = mem[m].text]_vars
================================================================================
