------------------------------- MODULE BulkSync -------------------------------
(***************************************************************************)
(* `anchored remote sync` of several machines against their servers          *)
(* (remote.go, remote_per_project.go): --all pushes every local project to    *)
(* the server that knows it, else to its route, where it finds, adopts or      *)
(* creates a remote project; the plain form pushes one repository, or funnels   *)
(* it into a given project after a check of the keys; `anchored save` sends the  *)
(* one memory it has just written (save.go).  A push goes out in batches; any   *)
(* request may fail, before or after the server applied it.                    *)
(*                                                                         *)
(* The text of a memory is "plain", names a path "inside" its repository, or one *)
(* inside it below a folder called home ("nested"), or a path "outside" it; a    *)
(* secret counts as "outside".  What makes a memory local-only besides (its kind, *)
(* its scope, its quality, its category, its sync state) is one flag.            *)
(* A remote project is its slug and the key it is registered under; servers     *)
(* refuse a second project of one slug or one key (external).  Nobody changes    *)
(* the key of a project that exists: one that is adopted stays as it was.         *)
(* A repository has one key here; the code tries the key its checkout derives,   *)
(* the stored one and the v1 key in turn (localProjectKeys).                    *)
(***************************************************************************)
EXTENDS Integers, Sequences, FiniteSets

CONSTANTS
  Machines, Projects,
  ByHand,     \* the machines where projects are linked (a bound)
  KeyOf,      \* Projects -> its repository key, or NoKey
  SlugOf,     \* Projects -> the slug of its name
  Remotes, Route,      \* Projects -> the remote its path routes to, or None
  Initial,    \* what may be registered at first: Remotes -> projects
  AutoSynced, \* remotes with auto_sync
  Memories,   \* Projects -> its memories, [text, local]
  PerBatch,   \* maxPushBatch
  NoKey, None, LocalKey(_), SuffixedSlug(_, _),
  StampedKeys(_),     \* "<slug>-<unix time>", for each time earlier versions ran
  MaxFails, MaxLinks  \* bounds: of the failed requests, the links at a time

VARIABLES
  server,     \* server[r]: its projects
  linked,     \* linked[c][r]: the slugs linked to r in the configuration of c
  landed,     \* <<c, p, r, s, b>>: machine c had batch b of p applied in project s of r
              \* (b = 0: a memory it saved)
  blind,      \* <<p, r, s>>: the key of the target was not compared
  run,        \* run[c]: what machine c is doing
  fails

vars == <<server, linked, landed, blind, run, fails>>

Idle == [pc |-> "idle", todo |-> {}, p |-> None, r |-> None, slug |-> None, next |-> 0,
         listed |-> [r \in Remotes |-> None], unsynced |-> 0]

Init == /\ server \in Initial /\ linked = [c \in Machines |-> [r \in Remotes |-> <<>>]]
        /\ landed = {} /\ blind = {}
        /\ run = [c \in Machines |-> Idle] /\ fails = 0

Fails == fails < MaxFails /\ fails' = fails + 1

(* MatchProjectByRemoteKeys, adoptableBySlug: what no repository owns has no      *)
(* key, the local one, or the one earlier versions gave every project.          *)
ByKey(S, k)      == {t \in S : k # NoKey /\ t.key = k}
BySlug(S, p)     == {t \in S : t.slug = SlugOf[p]}
AdoptsAny(t, p)  == TRUE                                         \* mutant
Unowned(slug)    == {NoKey, LocalKey(slug)} \cup StampedKeys(slug)
AdoptableBySlug(t, p) == t.key \in Unowned(SlugOf[p])

(* RemoteSafetyFilter: what is not allowed to leave, given the root the paths   *)
(* are relative to; and what it makes of the rest.                             *)
Violates(text, rooted) == text = "outside" \/ (~rooted /\ text \in {"inside", "nested"})
Rewritten(text) == CASE text = "inside" -> "plain" [] text = "nested" -> "outside" [] OTHER -> text

(* ClassifyForPreview; what Push lets through of it, in batches.               *)
Syncable(m) == ~m.local /\ ~Violates(m.text, TRUE)
Sendable(p) == {m \in Memories[p] : Syncable(m) /\ ~Violates(Rewritten(m.text), TRUE)}
Batches(p)  == (Cardinality(Sendable(p)) + PerBatch - 1) \div PerBatch

(* ResolveProjectAcrossRemotesForWrite with every remote answering.           *)
Knowing(p) == {r \in Remotes : ByKey(server[r], KeyOf[p]) # {}}
Preferred(p) == IF Route[p] \in Knowing(p) THEN {Route[p]} ELSE Knowing(p)

Become(c, j) == run' = [run EXCEPT ![c] = j]
Goto(c, pc)  == Become(c, [run[c] EXCEPT !.pc = pc])

-----------------------------------------------------------------------------
(* planPerProject: one bucket for each project with something to send.        *)
SyncAll(c) ==
  /\ run[c].pc = "idle"
  /\ Become(c, [run[c] EXCEPT !.pc = "next",
                !.todo = {p \in Projects : \E m \in Memories[p] : Syncable(m)}])
  /\ UNCHANGED <<server, linked, landed, blind, fails>>

(* Mutant: a bucket that failed is not counted.                              *)
Uncounted(c) == Goto(c, "next")

(* The bucket is given up: held, not created, not pushed.                    *)
GiveUp(c) == Become(c, [run[c] EXCEPT !.pc = "next", !.unsynced = @ + 1])

(* One bucket: the servers are asked, unless it has no key or there is one    *)
(* remote; one that does not answer holds it.                                *)
Probes(p) == KeyOf[p] # NoKey /\ Cardinality(Remotes) > 1
TakeBucket(c, p) ==
  LET begin == [run[c] EXCEPT !.p = p, !.next = 1, !.todo = @ \ {p}] IN
  /\ run[c].pc = "next" /\ p \in run[c].todo
  /\ \/ Probes(p) /\ \E r \in Preferred(p) : \E t \in ByKey(server[r], KeyOf[p]) :
          Become(c, [begin EXCEPT !.pc = "push", !.r = r, !.slug = t.slug])
     \/ ~(Probes(p) /\ Knowing(p) # {}) /\ Route[p] # None
          /\ Become(c, [begin EXCEPT !.pc = "find", !.r = Route[p]])
     \/ ~(Probes(p) /\ Knowing(p) # {}) /\ Route[p] = None /\ Become(c, begin)
  /\ UNCHANGED <<server, linked, landed, blind, fails>>

Held(c, p) ==
  /\ run[c].pc = "next" /\ p \in run[c].todo /\ Probes(p) /\ Fails
  /\ Become(c, [run[c] EXCEPT !.todo = @ \ {p}, !.unsynced = @ + 1])
  /\ UNCHANGED <<server, linked, landed, blind>>

(* remoteProjectFor, find: by key, then by slug if it may be adopted.  The     *)
(* list of a remote is fetched once in a run, and again after a creation       *)
(* that failed.                                                              *)
Find(c) ==
  LET p == run[c].p  r == run[c].r  again == run[c].pc = "refind"
      list == IF again \/ run[c].listed[r] = None THEN server[r] ELSE run[c].listed[r]
      seen == [run[c] EXCEPT !.listed[r] = list]
      match == ByKey(list, KeyOf[p])
      own == IF match # {} THEN match ELSE {t \in BySlug(list, p) : AdoptableBySlug(t, p)} IN
  /\ run[c].pc \in {"find", "refind"}
  /\ \/ \E t \in own : Become(c, [seen EXCEPT !.pc = "push", !.slug = t.slug])
     \/ own = {} /\ again /\ GiveUp(c)
     \/ own = {} /\ ~again /\ BySlug(list, p) = {} /\ Become(c, [seen EXCEPT !.pc = "create", !.slug = SlugOf[p]])
     \/ /\ own = {} /\ ~again /\ BySlug(list, p) # {}
        /\ IF KeyOf[p] = NoKey THEN GiveUp(c)
           ELSE Become(c, [seen EXCEPT !.pc = "create", !.slug = SuffixedSlug(SlugOf[p], KeyOf[p])])
  /\ UNCHANGED <<server, linked, landed, blind, fails>>

ListFails(c) ==
  /\ run[c].pc \in {"find", "refind"}
  /\ run[c].pc = "find" => run[c].listed[run[c].r] = None
  /\ Fails /\ GiveUp(c)
  /\ UNCHANGED <<server, linked, landed, blind>>

CreateProject(c) ==
  LET p == run[c].p  r == run[c].r
      new == [slug |-> run[c].slug, key |-> IF KeyOf[p] = NoKey THEN LocalKey(SlugOf[p]) ELSE KeyOf[p]]
      free == \A t \in server[r] : t.slug # new.slug /\ t.key # new.key IN
  /\ run[c].pc = "create"
  /\ \/ /\ free /\ server' = [server EXCEPT ![r] = @ \cup {new}] /\ UNCHANGED fails
        /\ Become(c, [run[c] EXCEPT !.pc = "push", !.listed[r] = @ \cup {new}])
     \/ /\ ~free /\ Goto(c, "refind") /\ UNCHANGED <<server, linked, fails>>
     \/ /\ Fails /\ Goto(c, "refind")                    \* the answer is lost
        /\ server' \in {server, IF free THEN [server EXCEPT ![r] = @ \cup {new}] ELSE server}
  /\ UNCHANGED <<linked, landed, blind>>

(* Push, pushBatch: the batches in order; the first that fails ends the push.  *)
Push(c) ==
  LET p == run[c].p  b == <<c, p, run[c].r, run[c].slug, run[c].next>> IN
  /\ run[c].pc \in {"push", "sync"}
  /\ landed' = IF Batches(p) = 0 THEN landed ELSE landed \cup {b}
  /\ IF run[c].next < Batches(p) THEN Become(c, [run[c] EXCEPT !.next = @ + 1])
     ELSE Goto(c, IF run[c].pc = "push" THEN "next" ELSE "sent")
  /\ UNCHANGED <<server, linked, blind, fails>>

PushFails(c) ==
  LET b == <<c, run[c].p, run[c].r, run[c].slug, run[c].next>> IN
  /\ run[c].pc \in {"push", "sync"} /\ Batches(run[c].p) > 0 /\ Fails
  /\ landed' \in {landed, landed \cup {b}}
  /\ IF run[c].pc = "push" THEN GiveUp(c) ELSE Goto(c, "failed")
  /\ UNCHANGED <<server, linked, blind>>

Finish(c) ==
  /\ run[c].pc = "next" /\ run[c].todo = {}
  /\ Goto(c, IF run[c].unsynced > 0 THEN "failed" ELSE "ok")
  /\ UNCHANGED <<server, linked, landed, blind, fails>>

-----------------------------------------------------------------------------
(* runRemoteSync: one repository.  Its own key wins over a linked project,     *)
(* which is for directories without an origin.                               *)
Sync(c, p) ==
  LET to(r, s) == Become(c, [run[c] EXCEPT !.pc = "sync", !.p = p, !.r = r, !.slug = s, !.next = 1]) IN
  /\ run[c].pc = "idle"
  /\ \/ KeyOf[p] # NoKey /\ UNCHANGED fails
          /\ \/ \E r \in Preferred(p) : \E t \in ByKey(server[r], KeyOf[p]) : to(r, t.slug)
             \/ Knowing(p) = {} /\ Goto(c, "failed")
     \/ KeyOf[p] # NoKey /\ Fails /\ Goto(c, "failed")
     \/ KeyOf[p] = NoKey /\ UNCHANGED fails
          /\ IF Route[p] = None \/ linked[c][Route[p]] = <<>> THEN Goto(c, "failed")
             ELSE to(Route[p], Head(linked[c][Route[p]]))
  /\ UNCHANGED <<server, linked, landed, blind>>

(* --project-id: the key of the target is compared with the repository's when  *)
(* both have one and the list answers; --force goes on.  --full-store, outside a   *)
(* repository, sends the whole store like that and compares nothing: for each    *)
(* project this step with `force`, left out as one step for all of them.         *)
Mismatch(t, p) == t.key # NoKey /\ KeyOf[p] # NoKey /\ t.key # KeyOf[p]
SyncTo(c, p, t, force) ==
  LET go == [run[c] EXCEPT !.pc = "sync", !.p = p, !.r = Route[p], !.slug = t.slug, !.next = 1] IN
  /\ run[c].pc = "idle" /\ Route[p] # None /\ t \in server[Route[p]]
  /\ \/ /\ UNCHANGED fails
        /\ IF Mismatch(t, p) /\ ~force THEN Goto(c, "failed") /\ UNCHANGED blind
           ELSE Become(c, go) /\ blind' = IF force THEN blind \cup {<<p, Route[p], t.slug>>} ELSE blind
     \/ Fails /\ Become(c, go) /\ blind' = blind \cup {<<p, Route[p], t.slug>>}
  /\ UNCHANGED <<server, linked, landed>>

-----------------------------------------------------------------------------
(* runRemoteLink, runRemoteUnlink.  A project is linked once, so one place is     *)
(* left out.                                                                 *)
Link(c, r, t) ==
  /\ run[c].pc = "idle" /\ t \in server[r]
  /\ Cardinality({x \in Machines \X Remotes : linked[x[1]][x[2]] # <<>>}) < MaxLinks
  /\ \A i \in DOMAIN linked[c][r] : linked[c][r][i] # t.slug
  /\ linked' = [linked EXCEPT ![c][r] = Append(@, t.slug)]
  /\ UNCHANGED <<server, landed, blind, run, fails>>

Unlink(c, r, i) ==
  LET l == linked[c][r] IN
  /\ run[c].pc = "idle" /\ i \in DOMAIN l
  /\ linked' = [linked EXCEPT ![c][r] = [n \in 1 .. Len(l) - 1 |-> IF n < i THEN l[n] ELSE l[n + 1]]]
  /\ UNCHANGED <<server, landed, blind, run, fails>>

(* saveRemote: it filters the text with no root.                              *)
SaveRemote(c, p, r, s, text) ==
  /\ ~Violates(text, FALSE)
  /\ Goto(c, "sent")
  /\ landed' = landed \cup {<<c, p, r, s, 0>>}

(* The project of p on the remote r: by its key; a linked one only for a         *)
(* directory without an origin.                                              *)
ProjectOn(c, p, r) ==
  IF KeyOf[p] # NoKey THEN {t.slug : t \in ByKey(server[r], KeyOf[p])}
  ELSE IF linked[c][r] = <<>> THEN {} ELSE {Head(linked[c][r])}

(* autoSyncRemote: a memory that was saved in p goes where p is known, if that   *)
(* remote and the routed one have auto_sync.                                  *)
AutoSync(c, p, m) ==
  /\ run[c].pc = "idle" /\ Route[p] \in AutoSynced /\ Syncable(m)
  /\ \E r \in AutoSynced \cap (IF KeyOf[p] # NoKey THEN Preferred(p) ELSE {Route[p]}) :
       \E s \in ProjectOn(c, p, r) : SaveRemote(c, p, r, s, Rewritten(m.text))
  /\ UNCHANGED <<server, linked, blind, fails>>

(* pushRemote (`save --remote`) sends the text as it is; toolSave, the tool of    *)
(* the MCP server, sends what the filter of the repository makes of it.         *)
PushRemote(c, p, r, m) ==
  /\ run[c].pc = "idle"
  /\ \E s \in ProjectOn(c, p, r) : SaveRemote(c, p, r, s, m.text)
  /\ UNCHANGED <<server, linked, blind, fails>>

ToolSave(c, p, r, m) ==
  /\ run[c].pc = "idle" /\ ~Violates(m.text, TRUE)
  /\ \E s \in ProjectOn(c, p, r) : SaveRemote(c, p, r, s, Rewritten(m.text))
  /\ UNCHANGED <<server, linked, blind, fails>>

Next == \E c \in Machines :
  \/ SyncAll(c) \/ Find(c) \/ ListFails(c) \/ CreateProject(c)
  \/ Push(c) \/ PushFails(c) \/ Finish(c)
  \/ \E p \in Projects :
       \/ TakeBucket(c, p) \/ Held(c, p) \/ Sync(c, p)
       \/ \E r \in Remotes : \E t \in server[r], force \in BOOLEAN : SyncTo(c, p, t, force)
       \/ \E m \in Memories[p] : AutoSync(c, p, m) \/ \E r \in Remotes : PushRemote(c, p, r, m) \/ ToolSave(c, p, r, m)
  \/ c \in ByHand /\ \E r \in Remotes :
       \/ \E t \in server[r] : Link(c, r, t)
       \/ \E i \in DOMAIN linked[c][r] : Unlink(c, r, i)

Spec == Init /\ [][Next]_vars

-----------------------------------------------------------------------------
TypeOK ==
  /\ \A c \in Machines : run[c].pc \in {"idle", "next", "find", "refind", "create", "push", "sync", "sent", "ok", "failed"}
  /\ fails \in 0 .. MaxFails

(* What a repository sends lands in the project that is registered to it, or in  *)
(* one that no repository owns, unless the key of the target was not looked at    *)
(* (remote_per_project.go 385-404, remote.go 712-716).  So of two repositories    *)
(* that share a project neither owns it: both adopted it by its slug, or were     *)
(* sent there by hand.                                                       *)
OwnOrUnowned ==
  \A l \in landed : KeyOf[l[2]] # NoKey /\ <<l[2], l[3], l[4]>> \notin blind =>
    \A t \in server[l[3]] : t.slug = l[4] => t.key \in {KeyOf[l[2]]} \cup Unowned(t.slug)

(* When --all ends well, every project that has a route and something to send    *)
(* was sent whole, to one project (remote_per_project.go 339-344).             *)
CleanExitSentAll ==
  \A c \in Machines : run[c].pc = "ok" =>
    \A p \in Projects : Route[p] # None /\ Sendable(p) # {} =>
      \E r \in Remotes : \E t \in server[r] : \A b \in 1 .. Batches(p) : <<c, p, r, t.slug, b>> \in landed
================================================================================
