------------------------------- MODULE SelfUpdate -------------------------------
(***************************************************************************)
(* Replacing the installed binary (pkg/updater, cmd/anchored/self_update):  *)
(* every serve starts an updater of its own, `anchored self-update` is       *)
(* another.  bin and bin.prev are names of files; a file is the version it  *)
(* holds and the run that staged it.  Versions are numbers, Dev is a local   *)
(* build.                                                                   *)
(***************************************************************************)
EXTENDS Naturals

CONSTANTS Runs,       \* updater runs, each of a process of its own
          MaxVersion, \* bound: releases published
          MaxFails    \* bound: failed renames and crashes

Dev     == 0
Nobody  == "nobody"
Missing == [ver |-> Dev, by |-> "missing"]
Files   == [ver : 0 .. MaxVersion, by : Runs \union {Nobody}]
Kinds   == {"serve", "command", "force"} \* force: consent for a dev build given
Swap    == {"stat", "clear", "backup", "rename", "rollback"}
Over    == {"done", "refused", "failed", "crashed"}

VARIABLES
  bin, prev,   \* the two names
  latest,      \* the release the API serves
  dashboard,   \* what /proc shows as the dashboard's executable
  local,       \* the facts of the machine
  run,         \* the updaters
  fails,
  \* auxiliary
  crossed      \* a swap of one run overlapped with another's, or met a failure then

vars == <<bin, prev, latest, dashboard, local, run, fails, crossed>>

Init ==
  /\ bin \in [ver : {Dev, 1}, by : {Nobody}] /\ prev = Missing
  /\ latest = 1 /\ dashboard = "bin"
  /\ local \in [canonical : BOOLEAN, noUpdate : BOOLEAN, links : BOOLEAN]
  /\ run = [u \in Runs |-> [pc |-> "start"]]
  /\ fails = 0 /\ crossed = FALSE

-----------------------------------------------------------------------------
Swapping == {u \in Runs : run[u].pc \in Swap}
Go(u, pc) == run' = [run EXCEPT ![u].pc = pc]

Publish ==
  /\ latest < MaxVersion
  /\ latest' = latest + 1
  /\ UNCHANGED <<bin, prev, dashboard, local, run, fails, crossed>>

(* A client spawns a serve, or a user runs the command: the process runs the *)
(* binary the path holds.                                                    *)
Start(u, kind) ==
  /\ run[u].pc = "start" /\ bin # Missing
  /\ run' = [run EXCEPT ![u] = [pc |-> "check", kind |-> kind, current |-> bin.ver]]
  /\ UNCHANGED <<bin, prev, latest, dashboard, local, fails, crossed>>

(* The first refusal encountered.                                           *)
Guard(r) ==
  CASE local.noUpdate     -> "env-disabled"
    [] r.current = Dev    -> "dev-build"
    [] ~local.canonical   -> "outside-canonical-dir"
    [] OTHER              -> "none"

Newer(a, b) == a > b

(* The serve stops at a refusal before any request; the command resolves the *)
(* release anyway, to report it.                                             *)
Check(u) ==
  /\ run[u].pc = "check"
  /\ LET guard == Guard(run[u]) IN
     run' = [run EXCEPT ![u] =
       [pc |-> IF guard # "none" /\ run[u].kind = "serve" THEN "refused" ELSE "resolve",
        kind |-> @.kind, current |-> @.current, blocked |-> guard]]
  /\ UNCHANGED <<bin, prev, latest, dashboard, local, fails, crossed>>

Resolve(u) ==
  /\ run[u].pc = "resolve"
  /\ \/ Go(u, "failed")
     \/ run' = [run EXCEPT ![u] =
          [pc |-> "decide", kind |-> @.kind, current |-> @.current, found |-> latest,
           blocked |-> IF @.blocked = "none" /\ ~Newer(latest, @.current)
                       THEN "not-newer" ELSE @.blocked]]
  /\ UNCHANGED <<bin, prev, latest, dashboard, local, fails, crossed>>

Overridable == {"dev-build", "outside-canonical-dir", "env-disabled", "not-newer"}

Decide(u) ==
  /\ run[u].pc = "decide"
  /\ Go(u, CASE run[u].blocked = "none" -> "digest"
            [] run[u].blocked \in Overridable /\ run[u].kind = "force" ->
                 IF run[u].current = Dev THEN "consent" ELSE "digest"
            [] OTHER -> "refused")
  /\ UNCHANGED <<bin, prev, latest, dashboard, local, fails, crossed>>

(* --yes, or a terminal and the answer yes.                                  *)
Consent(u) ==
  /\ run[u].pc = "consent"
  /\ \E pc \in {"digest", "refused"} : Go(u, pc)
  /\ UNCHANGED <<bin, prev, latest, dashboard, local, fails, crossed>>

(* checksums.txt, or the sidecar when it does not list the archive.          *)
Digest(u) ==
  /\ run[u].pc = "digest"
  /\ \E pc \in {"download", "failed"} : Go(u, pc)
  /\ UNCHANGED <<bin, prev, latest, dashboard, local, fails, crossed>>

(* The archive goes to a staged file of its own, which a failure, or a digest *)
(* that does not match, removes.                                             *)
Download(u) ==
  /\ run[u].pc = "download"
  /\ \E pc \in {"stat", "failed"} : Go(u, pc)
  /\ crossed' = (crossed \/ Swapping # {})
  /\ UNCHANGED <<bin, prev, latest, dashboard, local, fails>>

-----------------------------------------------------------------------------
(* swapUsing, one system call at a time.                                     *)
StatBin(u) ==
  /\ run[u].pc = "stat"
  /\ run' = [run EXCEPT ![u] =
       [pc |-> IF bin = Missing THEN "rename" ELSE "clear", kind |-> @.kind,
        current |-> @.current, found |-> @.found, backedUp |-> FALSE]]
  /\ UNCHANGED <<bin, prev, latest, dashboard, local, fails, crossed>>

Unlinked(name) ==
  IF dashboard # name THEN dashboard
  ELSE IF name = "bin" THEN "deleted bin" ELSE "deleted prev"

ClearPrev(u) ==
  /\ run[u].pc = "clear"
  /\ prev' = Missing
  /\ dashboard' = IF prev = Missing THEN dashboard ELSE Unlinked("prev")
  /\ Go(u, "backup")
  /\ UNCHANGED <<bin, latest, local, fails, crossed>>

(* A hard link; any failure of it degrades to a rename, which does nothing   *)
(* when both names already are the same file.                                *)
Link == prev = Missing /\ bin # Missing /\ local.links

Backup(u) ==
  /\ run[u].pc = "backup"
  /\ CASE bin = Missing ->
            Go(u, "failed") /\ UNCHANGED <<bin, prev, dashboard>>
       [] OTHER ->
            /\ prev' = bin
            /\ bin' = IF Link \/ prev = bin THEN bin ELSE Missing
            /\ dashboard' = IF Link \/ prev = bin THEN dashboard
                            ELSE CASE dashboard = "bin"  -> "prev"
                                   [] dashboard = "prev" -> "deleted prev"
                                   [] OTHER -> dashboard
            /\ run' = [run EXCEPT ![u].pc = "rename", ![u].backedUp = TRUE]
  /\ UNCHANGED <<latest, local, fails, crossed>>

Installed(u) == [ver |-> run[u].found, by |-> u]

Rename(u) ==
  /\ run[u].pc = "rename"
  /\ bin' = Installed(u)
  /\ dashboard' = IF bin = Missing THEN dashboard ELSE Unlinked("bin")
  /\ Go(u, "done")
  /\ UNCHANGED <<prev, latest, local, fails, crossed>>

RenameFails(u) ==
  /\ run[u].pc = "rename" /\ fails < MaxFails
  /\ fails' = fails + 1
  /\ Go(u, IF run[u].backedUp THEN "rollback" ELSE "failed")
  /\ UNCHANGED <<bin, prev, latest, dashboard, local, crossed>>

LeaveBackup(u) ==
  /\ run[u].pc = "rollback"
  /\ Go(u, "failed")
  /\ UNCHANGED <<bin, prev, latest, dashboard, local, fails, crossed>>

(* Only a backup this run made is put back.  An error of this, or of clearing *)
(* an older backup, leaves the files as a crash there does: Crash.           *)
Rollback(u) ==
  /\ run[u].pc = "rollback"
  /\ Go(u, "failed")
  /\ IF prev \in {Missing, bin} THEN UNCHANGED <<bin, prev, dashboard>>
     ELSE /\ bin' = prev /\ prev' = Missing
          /\ dashboard' = CASE dashboard = "bin" /\ bin # Missing -> "deleted bin"
                            [] dashboard = "prev" -> "bin"
                            [] OTHER -> dashboard
  /\ UNCHANGED <<latest, local, fails, crossed>>

(* The client closes its serve, or the machine goes down.                     *)
Crash(u) ==
  /\ run[u].pc \notin Over \union {"start"} /\ fails < MaxFails
  /\ Go(u, "crashed") /\ fails' = fails + 1
  /\ UNCHANGED <<bin, prev, latest, dashboard, local, crossed>>

-----------------------------------------------------------------------------
(* The service is restarted when /proc shows that the file it was started    *)
(* from is gone and a new one is in its place.                               *)
RestartStaleDashboard ==
  /\ dashboard = "deleted bin" /\ bin # Missing
  /\ dashboard' = "bin"
  /\ UNCHANGED <<bin, prev, latest, local, run, fails, crossed>>

Step(u) ==
  \/ Check(u) \/ Resolve(u) \/ Decide(u) \/ Consent(u) \/ Digest(u) \/ Download(u)
  \/ StatBin(u) \/ ClearPrev(u) \/ Backup(u) \/ Rename(u) \/ RenameFails(u) \/ Rollback(u)
  \/ Crash(u)

Next ==
  \/ Publish \/ RestartStaleDashboard
  \/ \E u \in Runs : Step(u) \/ \E k \in Kinds : Start(u, k)

Spec == Init /\ [][Next]_vars

-----------------------------------------------------------------------------
(* Every variable stays in its domain.                                       *)
TypeOK ==
  /\ bin \in Files \union {Missing} /\ prev \in Files \union {Missing}
  /\ latest \in 1 .. MaxVersion /\ fails \in 0 .. MaxFails /\ crossed \in BOOLEAN
  /\ dashboard \in {"bin", "prev", "deleted bin", "deleted prev"}
  /\ local \in [canonical : BOOLEAN, noUpdate : BOOLEAN, links : BOOLEAN]
  /\ \A u \in Runs : run[u].pc \in Swap \union Over \union 
       {"start", "check", "resolve", "decide", "consent", "digest", "download"}

(* Whatever fails or crashes in the swap of one updater at a time, a binary  *)
(* is left: at its name when the updater ended by itself, there or beside it *)
(* after a crash.  Several updaters that all finish leave one at its name.   *)
BinarySurvives ==
  /\ ~crossed => bin # Missing \/ prev # Missing
  /\ ((Swapping = {}) /\ (crossed => fails = 0)
      /\ (\A u \in Runs : run[u].pc # "crashed")) => bin # Missing
=============================================================================
