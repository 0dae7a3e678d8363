------------------------------ MODULE PluginSync ------------------------------
(***************************************************************************)
(* The plugin update of the SessionStart hook (plugin_sync.go,               *)
(* plugin_install.go): several sessions compare the version of the binary,     *)
(* of the marketplace mirror and of the installed cache; the one that gets the   *)
(* lock pulls the mirror, copies it beside the cache, swaps it in and rewrites    *)
(* the registry the host loads plugins from.  A session may be killed at any     *)
(* step; the lock goes with it.                                              *)
(***************************************************************************)
EXTENDS Integers, FiniteSets

CONSTANTS Sessions, MaxVersion, MaxCrashes, MaxEdits
Versions == 1 .. MaxVersion

VARIABLES
  upstream, binary,  \* the plugin version released, the version of the binary
  mirror,            \* the version of the mirror's tree
  tmp, cache, bak,   \* [Versions -> tree]: .<v>.tmp, <v>, <v>.bak
  registry,          \* [own: the version it points at, others: the other plugins]
  holder,            \* who holds plugin_sync.lock
  ses, crashes, edits

vars == <<upstream, binary, mirror, tmp, cache, bak, registry, holder, ses, crashes, edits>>
files == <<mirror, tmp, cache, bak, registry>>
world == <<upstream, binary, crashes, edits>>

Absent == "absent"  Partial == "partial"  Whole == "whole"
Fresh == [pc |-> "start", mv |-> 0, cv |-> 0, pull |-> FALSE, doc |-> [own |-> 0, others |-> 0]]

Init ==
  /\ upstream = 1 /\ binary = 1 /\ mirror = 1
  /\ tmp = [v \in Versions |-> Absent] /\ bak = tmp
  /\ cache = [v \in Versions |-> IF v = 1 THEN Whole ELSE Absent]
  /\ registry = [own |-> 1, others |-> 0]
  /\ holder = {} /\ ses = [s \in Sessions |-> Fresh] /\ crashes = 0 /\ edits = 0

Go(s, pc) == ses' = [ses EXCEPT ![s].pc = pc]
Leave(s)  == holder' = {} /\ ses' = [ses EXCEPT ![s] = Fresh]

(* newestInstalledVersion: the highest directory that is there, whole or not.  *)
Newest == LET there == {v \in Versions : cache[v] # Absent} IN
          CHOOSE v \in there \cup {0} : \A o \in there : o <= v

-----------------------------------------------------------------------------
(* detectPluginDrift, before the lock.                                       *)
Detect(s) ==
  /\ ses[s].pc = "start" /\ (mirror < binary \/ Newest < mirror)
  /\ ses' = [ses EXCEPT ![s].pc = "lock",
                        ![s].mv = mirror, ![s].cv = Newest, ![s].pull = mirror < binary]
  /\ UNCHANGED <<files, world, holder>>

(* tryAcquireSyncLock does not wait.                                         *)
TryAcquireSyncLock(s) ==
  /\ ses[s].pc = "lock"
  /\ IF holder = {} THEN holder' = {s} /\ Go(s, IF ses[s].pull THEN "pull" ELSE "compare")
     ELSE ses' = [ses EXCEPT ![s] = Fresh] /\ UNCHANGED holder
  /\ UNCHANGED <<files, world>>

(* gitFastForward: a mirror edited by hand is reset to its upstream; a pull     *)
(* that fails for good ends the update.                                      *)
GitFastForward(s) ==
  /\ ses[s].pc = "pull"
  /\ \/ /\ mirror' = upstream /\ UNCHANGED holder
        /\ ses' = [ses EXCEPT ![s].pc = "compare", ![s].mv = upstream]
     \/ Leave(s) /\ UNCHANGED mirror
  /\ UNCHANGED <<world, tmp, cache, bak, registry>>

(* The cache is compared again, with the version found before the lock, and the *)
(* registry is read before anything is copied.                                *)
Compare(s) ==
  /\ ses[s].pc = "compare"
  /\ IF ses[s].cv < ses[s].mv
     THEN /\ ses' = [ses EXCEPT ![s].pc = "clear", ![s].doc = registry] /\ UNCHANGED holder
     ELSE Leave(s)
  /\ UNCHANGED <<files, world>>

ClearTmp(s) ==
  /\ ses[s].pc = "clear"
  /\ tmp' = [tmp EXCEPT ![ses[s].mv] = Absent]
  /\ Go(s, "copy")
  /\ UNCHANGED <<world, mirror, cache, bak, registry, holder>>

(* Mutant: the tree is copied to where it is loaded from.                     *)
CopyInPlace(s) ==
  /\ ses[s].pc = "copy"
  /\ cache' = [cache EXCEPT ![ses[s].mv] = IF @ = Partial THEN Whole ELSE Partial]
  /\ Go(s, IF cache[ses[s].mv] = Partial THEN "registry" ELSE "copy")
  /\ UNCHANGED <<world, mirror, tmp, bak, registry, holder>>

(* copyDirExcludingGit, entry by entry; on an error the copy is removed.       *)
CopyTree(s) ==
  LET v == ses[s].mv IN
  /\ ses[s].pc = "copy"
  /\ \/ tmp[v] = Absent /\ tmp' = [tmp EXCEPT ![v] = Partial] /\ UNCHANGED <<ses, holder>>
     \/ tmp[v] = Partial /\ tmp' = [tmp EXCEPT ![v] = Whole] /\ Go(s, "backup") /\ UNCHANGED holder
     \/ tmp' = [tmp EXCEPT ![v] = Absent] /\ Leave(s)
  /\ UNCHANGED <<world, mirror, cache, bak, registry>>

BackUp(s) ==
  LET v == ses[s].mv IN
  /\ ses[s].pc = "backup"
  /\ bak' = [bak EXCEPT ![v] = cache[v]]
  /\ cache' = [cache EXCEPT ![v] = Absent]
  /\ Go(s, "promote")
  /\ UNCHANGED <<world, mirror, tmp, registry, holder>>

(* The rename, or the backup put back; an error of that is ignored, and leaves *)
(* what a kill there leaves: Crash.                                          *)
Promote(s) ==
  LET v == ses[s].mv IN
  /\ ses[s].pc = "promote"
  /\ \/ /\ cache' = [cache EXCEPT ![v] = tmp[v]] /\ tmp' = [tmp EXCEPT ![v] = Absent]
        /\ bak' = [bak EXCEPT ![v] = Absent] /\ Go(s, "registry") /\ UNCHANGED holder
     \/ /\ cache' = [cache EXCEPT ![v] = bak[v]] /\ bak' = [bak EXCEPT ![v] = Absent]
        /\ Leave(s) /\ UNCHANGED tmp
  /\ UNCHANGED <<world, mirror, registry>>

(* writePluginRegistry: our entry, and the others as they were read.          *)
WritePluginRegistry(s) ==
  /\ ses[s].pc = "registry"
  /\ registry' \in {registry, [ses[s].doc EXCEPT !.own = ses[s].mv]}
  /\ Leave(s)
  /\ UNCHANGED <<world, mirror, tmp, cache, bak>>

-----------------------------------------------------------------------------
Crash(s) ==
  /\ ses[s].pc # "start" /\ crashes < MaxCrashes
  /\ crashes' = crashes + 1
  /\ holder' = holder \ {s}
  /\ ses' = [ses EXCEPT ![s] = Fresh]
  /\ UNCHANGED <<files, upstream, binary, edits>>

Publish ==
  /\ upstream < MaxVersion /\ upstream' = upstream + 1
  /\ UNCHANGED <<files, binary, holder, ses, crashes, edits>>
UpdateBinary ==
  /\ binary < upstream /\ binary' = binary + 1
  /\ UNCHANGED <<files, upstream, holder, ses, crashes, edits>>
(* The host installs another plugin.                                         *)
Edit ==
  /\ edits < MaxEdits /\ edits' = edits + 1
  /\ registry' = [registry EXCEPT !.others = @ + 1]
  /\ UNCHANGED <<upstream, binary, mirror, tmp, cache, bak, holder, ses, crashes>>

Next ==
  \/ Publish \/ UpdateBinary \/ Edit
  \/ \E s \in Sessions :
       \/ Detect(s) \/ TryAcquireSyncLock(s) \/ GitFastForward(s) \/ Compare(s) \/ ClearTmp(s)
       \/ CopyTree(s) \/ BackUp(s) \/ Promote(s) \/ WritePluginRegistry(s) \/ Crash(s)

Spec == Init /\ [][Next]_vars

-----------------------------------------------------------------------------
Trees == {Absent, Partial, Whole}
TypeOK ==
  /\ upstream \in Versions /\ binary \in Versions /\ mirror \in Versions
  /\ tmp \in [Versions -> Trees] /\ cache \in [Versions -> Trees] /\ bak \in [Versions -> Trees]
  /\ registry.own \in Versions /\ holder \subseteq Sessions

(* A directory named after a version never holds half a tree, whoever is killed  *)
(* while installing, and the registry points at one that is whole unless it is    *)
(* being swapped or a session was killed (plugin_install.go 33-34).            *)
LoadedIsWhole ==
  /\ \A v \in Versions : cache[v] # Partial
  /\ \/ cache[registry.own] = Whole \/ crashes > 0
     \/ \E s \in Sessions : ses[s].pc = "promote" /\ ses[s].mv = registry.own
================================================================================
