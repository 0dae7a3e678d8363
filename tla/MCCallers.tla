------------------------------ MODULE MCCallers -------------------------------
(***************************************************************************)
(* Small instances of the components that share the machine or the database  *)
(* and each have processes, hooks or commands of their own. They share no    *)
(* state here, so each runs alone: one run explores all of them, one at a    *)
(* time.                                                                     *)
(***************************************************************************)
EXTENDS Integers, Sequences, FiniteSets, TLC

CONSTANTS
  Users, shMaxWrites, \* Shrink's
  msMems, msTexts, msCallers, msMaxWrites, \* MemoryService's
  Keys, Notes, ttSessions, Topics, ttCallers, MaxCalls, \* TaskThreads'
  drMems, drTexts, Runners, ProjectOf, NearPairs, drMaxEdits, MaxRuns, \* Dream's
  hmSessions, hmTexts, Limit, MaxSaves, Recent, hmMaxRows, MaxHooks, \* HookMemory's
  Dirs, Writers, Operators, RootOf, RemoteOf, pjMaxRows, \* Projects'
  imItems, Importers, DirToPath, CategoryOf, MaxClock, MaxRecords, imMaxFails, \* Importers'
  Machines, Projects, ByHand, KeyOf, SlugOf, Remotes, bsRoute, AtFirst, AutoSynced,
  Memories, PerBatch, LocalKey(_), SuffixedSlug(_, _), StampedKeys(_), bsMaxFails, MaxLinks,
  none, nokey, \* BulkSync's
  Runs, suMaxVersion, suMaxFails, \* SelfUpdate's
  psSessions, psMaxVersion, MaxCrashes, psMaxEdits, \* PluginSync's
  Procs, Size, MaxRetries, MaxStarts, mdMaxFails, \* ModelDownload's
  Lengths, MinRules, CharsPerToken, Budget, MaxItems, sbMaxEdits, \* SessionBlock's
  srMems, Elsewhere, Global, Covering, Low, Pinned, Aged, Focus, PerOrigin, Overscan, Limits,
  \* SearchRanking's
  fsIds, fsTexts, MaxHits, fsLimit \* FederatedSearch's

VARIABLES
  focus, \* the component that runs
  path, shTmp, content, copies, shPc, handle, shLog, cut, shWrites, window, gap, shCrossed,
  row, msCall, backfill, msWrites,
  thread, link, session, ttFocus, ttSummaries, ttCall, calls,
  mem, proposals, demoted, drSummaries, drRun, drTouched, drEdits, runs,
  hmRows, working, injected, used, turn, tool, seeding, hooks,
  projects, onDisk, pjRows, nextId, writer, plan,
  present, imTouched, clock, records, imRun, saved, imFails,
  cosine, bm25, origin, alike, limit, todo, kept, srPc, ranked, srPage,
  fsLocal, remote, selector, fsPc, entry, mode, said, got, hits, merged, fsPage,
  file, tiers, late, sbPc, at, included, remaining, identity, sbEdits, marked,
  bin, prev, latest, dashboard, suLocal, suRun, suFails, crossed,
  upstream, binary, mirror, psTmp, cache, bak, registry, holder, ses, crashes,
  psEdits,
  server, linked, landed, blind, bsRun, bsFails,
  inodes, mdTmp, dest, proc, starts, mdFails, clobbered,
  tkText, scores, legacy, tkPc, segs, words, ids, input

shState == <<path, shTmp, content, copies, shPc, handle, shLog, cut, shWrites, window, gap, shCrossed>>
msState == <<row, msCall, backfill, msWrites>>
ttState == <<thread, link, session, ttFocus, ttSummaries, ttCall, calls>>
drState == <<mem, proposals, demoted, drSummaries, drRun, drTouched, drEdits,
              runs>>
hmState == <<hmRows, working, injected, used, turn, tool, seeding, hooks>>
pjState == <<projects, onDisk, pjRows, nextId, writer, plan>>
imState == <<present, imTouched, clock, records, imRun, saved, imFails>>
srState == <<cosine, bm25, origin, alike, limit, todo, kept, srPc, ranked,
              srPage>>
fsState == <<fsLocal, remote, selector, fsPc, entry, mode, said, got, hits, merged,
              fsPage>>
sbState == <<file, tiers, late, sbPc, at, included, remaining, identity,
              sbEdits, marked>>
suState == <<bin, prev, latest, dashboard, suLocal, suRun, suFails, crossed>>
psState == <<upstream, binary, mirror, psTmp, cache, bak, registry, holder,
              ses, crashes, psEdits>>
bsState == <<server, linked, landed, blind, bsRun, bsFails>>
mdState == <<inodes, mdTmp, dest, proc, starts, mdFails, clobbered>>
tkState == <<tkText, scores, legacy, tkPc, segs, words, ids, input>>
all == <<focus, shState, msState, ttState, drState, hmState, pjState, imState,
         srState, fsState, sbState, suState, psState, bsState, mdState,
         tkState>>

-----------------------------------------------------------------------------
(* What the constants are in the small instances.                            *)
Item(src, kind, text, nested) ==
  [src |-> src, kind |-> kind, text |-> text, dir |-> "d", cwd |-> "", cat |-> "",
   nested |-> nested, useful |-> TRUE]
MCItems == {Item("claude", "memory", "t1", TRUE), Item("claude", "session", "t2", FALSE),
            Item("opencode", "todo", "t1", FALSE)}

MCRootOf   == [r |-> "r", w1 |-> "r", w2 |-> "r", c |-> "c"]
MCRemoteOf == [r |-> "o1", w1 |-> "o1", w2 |-> "o1", c |-> "o1"]
MCDirToPath  == [d |-> "d"]
MCCategoryOf == [t1 |-> "fact", t2 |-> "fact"]
MCmsTexts   == {<<1, 1>>, <<1, 2>>}
MCProjectOf == <<"a", "a", "a">>
MCNearPairs == {<<1, 2>>, <<3, 2>>}

MCKeyOf   == [app |-> "k1", web |-> "k2", notes |-> nokey]
MCSlugOf  == [app |-> "s", web |-> "s", notes |-> "n"]
MCRoute   == [app |-> "home", web |-> "home", notes |-> "work"]
MCProject(slug, key) == [slug |-> slug, key |-> key]
MCAtFirst ==
  {[home |-> {MCProject("s", "k2")}, work |-> {}],
   [home |-> {MCProject("s", "k2")}, work |-> {MCProject("t", "k1")}],
   [home |-> {MCProject("s", "s-1")}, work |-> {}]}
Memory(text, local) == [text |-> text, local |-> local]
MCMemories ==
  [app   |-> {Memory("plain", FALSE), Memory("inside", FALSE), Memory("nested", FALSE)},
   web   |-> {Memory("plain", FALSE), Memory("outside", FALSE)},
   notes |-> {Memory("plain", FALSE), Memory("plain", TRUE)}]
MCLocalKey(slug) == "local:" \o slug
MCSuffixedSlug(slug, key) == slug \o "-" \o key
MCStampedKeys(slug) == {slug \o "-1"}

MCTexts == UNION {[1 .. n -> {"a", "x", " ", "#"}] : n \in 0 .. 4}
MCPieces == {<<"_">>, <<"a">>, <<"_", "a">>, <<"a", "b">>, <<"_", "a", "b">>, <<"b", "a">>}
MCModels ==
  {[p \in MCPieces |-> CASE Len(p) = 1 -> -one [] Len(p) = 2 -> -two [] OTHER -> -3] :
     one \in {1, 3}, two \in {1, 3}}
MCAdded == {[content |-> <<"#">>, lstrip |-> TRUE, rstrip |-> FALSE],
            [content |-> <<"#", "a">>, lstrip |-> FALSE, rstrip |-> TRUE]}
MCNormal ==
  [a |-> <<"a">>, x |-> <<"b", "b">>] @@ (" " :> <<" ">>) @@ ("#" :> <<"#">>)

SH == INSTANCE Shrink WITH
  MaxWrites <- shMaxWrites, tmp <- shTmp, pc <- shPc, log <- shLog, writes <- shWrites,
  crossed <- shCrossed
MS == INSTANCE MemoryService WITH
  Mems <- msMems, Texts <- msTexts, Callers <- msCallers,
  MaxWrites <- msMaxWrites, call <- msCall, writes <- msWrites
TT == INSTANCE TaskThreads WITH
  Sessions <- ttSessions, Callers <- ttCallers, focus <- ttFocus,
  summaries <- ttSummaries, call <- ttCall
DR == INSTANCE Dream WITH
  Mems <- drMems, Texts <- drTexts, MaxEdits <- drMaxEdits,
  summaries <- drSummaries, run <- drRun, touched <- drTouched,
  edits <- drEdits
HM == INSTANCE HookMemory WITH
  Sessions <- hmSessions, Texts <- hmTexts, MaxRows <- hmMaxRows,
  rows <- hmRows
PJ == INSTANCE Projects WITH MaxRows <- pjMaxRows, rows <- pjRows
IM == INSTANCE Importers WITH
  Items <- imItems, MaxFails <- imMaxFails, touched <- imTouched,
  run <- imRun, fails <- imFails
SR == INSTANCE SearchRanking WITH Mems <- srMems, pc <- srPc, page <- srPage
FS == INSTANCE FederatedSearch WITH
  Ids <- fsIds, Texts <- fsTexts, Limit <- fsLimit, local <- fsLocal, pc <- fsPc,
  page <- fsPage
SB == INSTANCE SessionBlock WITH
  MaxEdits <- sbMaxEdits, pc <- sbPc, edits <- sbEdits
SU == INSTANCE SelfUpdate WITH
  MaxVersion <- suMaxVersion, MaxFails <- suMaxFails, local <- suLocal,
  run <- suRun, fails <- suFails
PS == INSTANCE PluginSync WITH
  Sessions <- psSessions, MaxVersion <- psMaxVersion, MaxEdits <- psMaxEdits,
  tmp <- psTmp, edits <- psEdits
BS == INSTANCE BulkSync WITH
  Route <- bsRoute, Initial <- AtFirst, NoKey <- nokey, None <- none,
  MaxFails <- bsMaxFails, run <- bsRun, fails <- bsFails
MD == INSTANCE ModelDownload WITH
  MaxFails <- mdMaxFails, tmp <- mdTmp, fails <- mdFails
TK == INSTANCE Tokenizer WITH
  Texts <- MCTexts, Models <- MCModels, Added <- MCAdded, Normal <- MCNormal,
  Space <- " ", Mark <- "_", MaxLen <- 4, text <- tkText, pc <- tkPc

-----------------------------------------------------------------------------
(* Limits and bounds are numbers; no task and no remote is called "none".  A     *)
(* worktree is of one repository, which is of itself; two memories make a      *)
(* pair.  An item is of a kind its source is read for.  A server has one        *)
(* project of a slug, a project is routed to a remote that exists or to none,    *)
(* and no repository has a key that marks a project as nobody's.  A search has   *)
(* a page.                                                                  *)
ASSUME CallersAssumption ==
  /\ {shMaxWrites, Recent, hmMaxRows} \subseteq Nat
  /\ "none" \notin Keys
  /\ drMems \subseteq Nat /\ NearPairs \subseteq {q \in drMems \X drMems : q[1] # q[2]}
  /\ IsFiniteSet(Dirs) /\ RootOf \in [Dirs -> Dirs]
  /\ \A d \in Dirs : RootOf[RootOf[d]] = RootOf[d]
  /\ \A i \in imItems : /\ i.src \in DOMAIN IM!Phases
                      /\ \E n \in DOMAIN IM!Phases[i.src] : IM!Phases[i.src][n] = i.kind
  /\ AtFirst \subseteq [Remotes -> SUBSET [slug : STRING, key : STRING \cup {nokey}]]
  /\ AutoSynced \subseteq Remotes /\ none \notin Remotes
  /\ \A f \in AtFirst, r \in Remotes : \A t, u \in f[r] : t.slug = u.slug => t = u
  /\ \A p \in Projects : /\ bsRoute[p] \in Remotes \cup {none} /\ IsFiniteSet(Memories[p])
                         /\ KeyOf[p] # nokey => \A q \in Projects : KeyOf[p] \notin BS!Unowned(SlugOf[q])
  /\ {PerBatch, psMaxVersion, Size, CharsPerToken} \subseteq Nat \ {0}
  /\ {suMaxVersion, suMaxFails, MaxCrashes, MinRules, Budget, MaxItems} \cup Lengths \subseteq Nat
  /\ srMems \subseteq Nat /\ IsFiniteSet(srMems)
  /\ MaxHits \in Nat /\ {Overscan, fsLimit} \cup Limits \subseteq Nat \ {0}

(* A component that does not run keeps one of its initial states, or zeros   *)
(* where that state is read by its own properties only.                      *)
Initial ==
  /\ focus \in {"sh", "ms", "tt", "dr", "hm", "pj", "im", "sr", "fs", "sb",
                "su", "ps", "bs", "md", "tk"}
  /\ SH!Init
  /\ MS!Init /\ (focus # "ms" => row[CHOOSE m \in msMems : TRUE].text = CHOOSE t \in msTexts : TRUE)
  /\ TT!Init
  /\ DR!Init /\ (focus # "dr" => proposals = {})
  /\ HM!Init
  /\ PJ!Init /\ (focus # "pj" => nextId = 1)
  /\ IM!Init
  /\ IF focus = "sr" THEN SR!Init ELSE
        /\ cosine = 0 /\ bm25 = 0 /\ origin = 0 /\ alike = 0 /\ limit = 0
        /\ todo = 0 /\ kept = 0 /\ srPc = 0 /\ ranked = 0 /\ srPage = 0
  /\ IF focus = "fs" THEN FS!Init ELSE
        /\ fsLocal = 0 /\ remote = 0 /\ selector = 0 /\ fsPc = 0 /\ entry = 0
        /\ mode = 0 /\ said = 0 /\ got = 0 /\ hits = 0 /\ merged = 0 /\ fsPage = 0
  /\ IF focus = "sb" THEN SB!Init ELSE
        /\ file = 0 /\ tiers = 0 /\ late = 0 /\ sbPc = 0 /\ at = 0
        /\ included = 0 /\ remaining = 0 /\ identity = 0 /\ sbEdits = 0
        /\ marked = 0
  /\ SU!Init /\ (focus # "su" => bin.ver = 1 /\ suLocal.canonical /\ suLocal.noUpdate /\ suLocal.links)
  /\ PS!Init
  /\ BS!Init /\ (focus # "bs" => server = CHOOSE s \in AtFirst : TRUE)
  /\ MD!Init
  /\ IF focus = "tk" THEN TK!Init ELSE
        /\ tkText = 0 /\ scores = 0 /\ legacy = 0 /\ tkPc = 0 /\ segs = 0
        /\ words = 0 /\ ids = 0 /\ input = 0

Move ==
  /\ UNCHANGED focus
  /\ \/ focus = "sh" /\ SH!Next
     \/ focus = "ms" /\ MS!Next
     \/ focus = "tt" /\ TT!Next
     \/ focus = "dr" /\ DR!Next
     \/ focus = "hm" /\ HM!Next
     \/ focus = "pj" /\ PJ!Next
     \/ focus = "im" /\ IM!Next
     \/ focus = "sr" /\ SR!Next
     \/ focus = "fs" /\ FS!Next
     \/ focus = "sb" /\ SB!Next
     \/ focus = "su" /\ SU!Next
     \/ focus = "ps" /\ PS!Next
     \/ focus = "bs" /\ BS!Next
     \/ focus = "md" /\ MD!Next
     \/ focus = "tk" /\ TK!Next
  /\ focus # "sh" => UNCHANGED shState
  /\ focus # "ms" => UNCHANGED msState
  /\ focus # "tt" => UNCHANGED ttState
  /\ focus # "dr" => UNCHANGED drState
  /\ focus # "hm" => UNCHANGED hmState
  /\ focus # "pj" => UNCHANGED pjState
  /\ focus # "im" => UNCHANGED imState
  /\ focus # "sr" => UNCHANGED srState
  /\ focus # "fs" => UNCHANGED fsState
  /\ focus # "sb" => UNCHANGED sbState
  /\ focus # "su" => UNCHANGED suState
  /\ focus # "ps" => UNCHANGED psState
  /\ focus # "bs" => UNCHANGED bsState
  /\ focus # "md" => UNCHANGED mdState
  /\ focus # "tk" => UNCHANGED tkState

CallersSpec == Initial /\ [][Move]_all

TypesOK ==
  CASE focus = "sh" -> SH!TypeOK [] focus = "ms" -> MS!TypeOK [] focus = "tt" -> TT!TypeOK
    [] focus = "dr" -> DR!TypeOK [] focus = "hm" -> HM!TypeOK [] focus = "pj" -> PJ!TypeOK
    [] focus = "im" -> IM!TypeOK [] focus = "sr" -> SR!TypeOK [] focus = "fs" -> FS!TypeOK
    [] focus = "sb" -> SB!TypeOK [] focus = "su" -> SU!TypeOK
    [] focus = "ps" -> PS!TypeOK [] focus = "bs" -> BS!TypeOK
    [] focus = "md" -> MD!TypeOK [] focus = "tk" -> TK!TypeOK

(* What one actor did is not undone, nor done twice, by another that read      *)
(* before it: a memory whose tombstone the ledger holds does not come back with  *)
(* a late update, as one deleted outside the ledger does (service.go,           *)
(* sqlite_temporal.go); a note is not lost to another call on its thread, unless *)
(* that closed it just before (taskthread.go); a consolidation leaves a copy of  *)
(* what it folds, however old its proposal, unless the pair changes between the   *)
(* check and the delete (consolidator.go); and a Stop hook saves nothing that it  *)
(* was shown (hook_stop.go).                                                  *)
NothingIsUndone ==
  /\ MS!ForgottenStays /\ TT!NotesLand
  /\ DR!CopySurvives /\ HM!StopRepeatsNothing

(* No fold takes two repositories for one (consolidate.go), and what a sync      *)
(* sends of a repository lands in a project that is registered to it or to       *)
(* nobody (remote_per_project.go): two that have one slug can still meet in a    *)
(* project nobody owned, which the code adopts for both.                      *)
RepositoriesStayApart ==
  /\ focus = "pj" => PJ!RepositoriesStayApart
  /\ focus = "bs" => BS!OwnOrUnowned

(* What is reported as done was done: an import that is left out was saved, but  *)
(* for what the last import of it could not list, read or save, which it records *)
(* as done all the same (importer.go); and a sync that exits clean sent          *)
(* everything (remote.go).                                                   *)
DoneMeansDone ==
  /\ focus = "im" => IM!SkippedWasSaved
  /\ focus = "bs" => BS!CleanExitSentAll

(* A search answers with the best there is: the scan keeps the best of the      *)
(* cache (vector_cache.go; of the later stages nothing is said), and the merge  *)
(* of two engines keeps what each found, once (federation.go).                *)
AnswersAreSound ==
  /\ focus = "sr" => SR!ScanKeepsTheBest
  /\ focus = "fs" => FS!MergedIsSound

(* The tokens of a text, of those that are not cut to hfMaxTokenizeBytes first,  *)
(* are those of its best segmentation, cut to the window and nowhere else        *)
(* (tokenizer_hf.go).                                                        *)
TokensAreBest == focus = "tk" => TK!SegmentedBest /\ TK!FramedPrefix /\ TK!SplitIsWhole

(* What is replaced or printed is whole: the database that is shrunk, unless it  *)
(* is opened between its close and the removal of its log, when the writes made  *)
(* in between are lost, and more where two logs meet (shrink.go); the binary,    *)
(* the plugin and the model, whoever fails or is killed (updater.go,             *)
(* plugin_install.go, embeddings_onnx.go); and the block of a session, which     *)
(* fills its budget and earns the mark it leaves (budget.go,                     *)
(* hook_sessionstart.go).                                                    *)
WholeOrNotAtAll ==
  /\ focus = "sh" => SH!OnlyWindowLost
  /\ focus = "su" => SU!BinarySurvives
  /\ focus = "ps" => PS!LoadedIsWhole
  /\ focus = "md" => MD!PlacedIsWhole
  /\ focus = "sb" => SB!BlockIsFull /\ SB!MarkIsEarned
===============================================================================
