----------------------------- MODULE EntityLexicon -----------------------------
(***************************************************************************)
(* The entity lexicon of a process (entity_detector.go): searches that      *)
(* detect entities, the load they wait for or that runs behind them, the    *)
(* writers of the memories it reads and the Close of the service.           *)
(*                                                                         *)
(* The keywords of a memory are one value, a number given in the order the  *)
(* memories are inserted.  SQLite gives a new row the rowid after the       *)
(* largest one, so a rowid freed at the end is used again.  The names and   *)
(* the words of recent, rebuilt by every load, are left out.                 *)
(***************************************************************************)
EXTENDS Integers, Sequences, FiniteSets, FiniteSetsExt

CONSTANTS
  Searches,    \* the calls of Detect that can be in flight
  RecentLimit, \* entityRecentLimit
  MaxInserts,  \* bound: memories inserted
  MaxDeletes,  \* bound: memories purged
  MaxDetects,  \* bound: calls of Detect
  MaxFails     \* bound: loads the database or a timeout cuts short

VARIABLES
  rows, last, purged, top,    \* memories: keywords by rowid; counts; the largest rowid ever
  reused,                     \* the keywords of the rows that took a used rowid
  keywords, lastRowID, loaded,
  fresh,                      \* the last stamped attempt is within the TTL
  sem,                        \* loadSem: who has it
  load,                       \* the load in progress
  detect, gaveUp,             \* each search; its context has ended
  background, closer, store,  \* bg; the Close of the service; the store is open
  failed, detects, fails      \* a load nobody gave up on failed; bounds

memories == <<rows, last, purged, top, reused>>
lexicon  == <<keywords, lastRowID, loaded, fresh>>
closing  == <<closer, store>>
vars == <<memories, lexicon, sem, load, detect, gaveUp, background, closing, failed, detects,
          fails>>

Nobody == "nobody"
Worker == "background"
NoLoad == [pc |-> "none", after |-> 0, recent |-> {}, words |-> {}, upto |-> 0,
           recentErr |-> FALSE, keywordsErr |-> FALSE]

TypeOK ==
  /\ DOMAIN rows \subseteq 1 .. MaxInserts /\ \A r \in DOMAIN rows : rows[r] \in 1 .. last
  /\ last \in 0 .. MaxInserts /\ purged \in 0 .. MaxDeletes /\ top \in 0 .. MaxInserts
  /\ reused \subseteq 1 .. last
  /\ keywords \subseteq 1 .. last
  /\ lastRowID \in 0 .. MaxInserts
  /\ {loaded, fresh, background, store, failed} \subseteq BOOLEAN
  /\ sem \in {Nobody, Worker} \cup Searches
  /\ load.pc \in {"none", "recent", "keywords", "merge"}
  /\ detect \in [Searches -> {"idle", "loaded", "try", "closed", "wait", "again", "load", "answer"}]
  /\ gaveUp \in [Searches -> BOOLEAN]
  /\ closer \in {"open", "marked", "cancelled", "waited"}
  /\ detects \in 0 .. MaxDetects /\ fails \in 0 .. MaxFails

Init ==
  /\ rows = <<>> /\ last = 0 /\ purged = 0 /\ top = 0 /\ reused = {}
  /\ keywords = {} /\ lastRowID = 0 /\ loaded = FALSE /\ fresh = FALSE
  /\ sem = Nobody /\ load = NoLoad
  /\ detect = [s \in Searches |-> "idle"] /\ gaveUp = [s \in Searches |-> FALSE]
  /\ background = FALSE /\ closer = "open" /\ store = TRUE
  /\ failed = FALSE /\ detects = 0 /\ fails = 0

LargestRowID == IF DOMAIN rows = {} THEN 0 ELSE Max(DOMAIN rows)

-----------------------------------------------------------------------------
(* The writers, in this process or another.                                  *)
Insert ==
  LET new == LargestRowID + 1 IN
  /\ last < MaxInserts /\ last' = last + 1
  /\ rows' = [r \in DOMAIN rows \cup {new} |-> IF r = new THEN last + 1 ELSE rows[r]]
  /\ top' = Max({top, new})
  /\ reused' = IF new <= top THEN reused \cup {last + 1} ELSE reused
  /\ UNCHANGED <<purged, lexicon, sem, load, detect, gaveUp, background, closing, failed, detects,
                 fails>>

Purge(r) ==
  /\ purged < MaxDeletes /\ purged' = purged + 1
  /\ rows' = [q \in DOMAIN rows \ {r} |-> rows[q]]
  /\ UNCHANGED <<last, top, reused, lexicon, sem, load, detect, gaveUp, background, closing,
                 failed, detects, fails>>

-----------------------------------------------------------------------------
(* A load, by whoever has loadSem.  One that its context ends, or that fails, *)
(* has read the rows up to any of them.                                      *)
CtxEnded == IF sem = Worker THEN closer \in {"cancelled", "waited"} ELSE gaveUp[sem]
MayFail == CtxEnded \/ ~store \/ fails < MaxFails
CountFail == fails' = IF CtxEnded \/ ~store THEN fails ELSE fails + 1

Begin == [NoLoad EXCEPT !.pc = "recent", !.after = lastRowID]

Recent == {r \in DOMAIN rows : Cardinality({q \in DOMAIN rows : q > r}) < RecentLimit}

loadRecent ==
  /\ load.pc = "recent"
  /\ \/ /\ store /\ UNCHANGED fails
        /\ load' = [load EXCEPT !.pc = "keywords", !.recent = {rows[r] : r \in Recent}]
     \/ MayFail /\ CountFail /\ load' = [load EXCEPT !.pc = "keywords", !.recentErr = TRUE]
  /\ UNCHANGED <<memories, lexicon, sem, detect, gaveUp, background, closing, failed, detects>>

Past == {r \in DOMAIN rows : r > load.after}
ReadTo(r, err) ==
  [load EXCEPT !.pc = "merge", !.upto = r, !.words = {rows[q] : q \in {p \in Past : p <= r}},
               !.keywordsErr = err]

(* Mutant: a scan cut short reports the last row there is.                   *)
ReadToTheEnd ==
  /\ load.pc = "keywords"
  /\ \/ store /\ load' = ReadTo(Max(Past \cup {load.after}), FALSE) /\ UNCHANGED fails
     \/ \E r \in Past \cup {load.after} : /\ MayFail /\ CountFail
          /\ load' = [ReadTo(r, TRUE) EXCEPT !.upto = Max(Past \cup {load.after})]
  /\ UNCHANGED <<memories, lexicon, sem, detect, gaveUp, background, closing, failed, detects>>

loadKeywords ==
  /\ load.pc = "keywords"
  /\ \/ store /\ load' = ReadTo(Max(Past \cup {load.after}), FALSE) /\ UNCHANGED fails
     \/ \E r \in Past \cup {load.after} : MayFail /\ CountFail /\ load' = ReadTo(r, TRUE)
  /\ UNCHANGED <<memories, lexicon, sem, detect, gaveUp, background, closing, failed, detects>>

(* Mutant: every attempt is stamped, the one its caller gave up on too.      *)
AlwaysStamps == TRUE

(* A load whose caller gave up is not stamped: the next search tries again.  *)
Stamps == ~CtxEnded

mergeLexicon ==
  LET err == load.recentErr \/ load.keywordsErr IN
  /\ load.pc = "merge" /\ load' = NoLoad
  /\ keywords' = keywords \cup load.words \cup load.recent
  /\ lastRowID' = Max({lastRowID, load.upto})
  /\ fresh' = (fresh \/ Stamps)
  /\ failed' = (failed \/ (~CtxEnded /\ err))
  /\ loaded' = (loaded \/ ~err)
  /\ sem' = Nobody
  /\ detect' = [s \in Searches |-> IF s = sem THEN "answer" ELSE detect[s]]
  /\ background' = (background /\ sem # Worker)
  /\ UNCHANGED <<memories, gaveUp, closing, detects, fails>>

-----------------------------------------------------------------------------
(* Detect: ensureLexicon, then the answer from the lexicon there is.         *)
Goto(s, pc) == detect' = [detect EXCEPT ![s] = pc]

Detect(s) ==
  /\ detect[s] = "idle" /\ detects < MaxDetects /\ detects' = detects + 1
  /\ Goto(s, IF fresh THEN "answer" ELSE "loaded")
  /\ gaveUp' = [gaveUp EXCEPT ![s] = FALSE]
  /\ UNCHANGED <<memories, lexicon, sem, load, background, closing, failed, fails>>

IsLoaded(s) ==
  /\ detect[s] = "loaded" /\ Goto(s, IF loaded THEN "try" ELSE "wait")
  /\ UNCHANGED <<memories, lexicon, sem, load, gaveUp, background, closing, failed, detects, fails>>

TryRefresh(s) ==
  /\ detect[s] = "try"
  /\ IF sem = Nobody THEN sem' = s /\ Goto(s, "closed") ELSE Goto(s, "answer") /\ UNCHANGED sem
  /\ UNCHANGED <<memories, lexicon, load, gaveUp, background, closing, failed, detects, fails>>

(* Mutant: the refresh starts although Close may have waited already.        *)
SpawnAlways(s) ==
  /\ detect[s] = "closed" /\ Goto(s, "answer")
  /\ sem' = Worker /\ background' = TRUE
  /\ UNCHANGED <<memories, lexicon, load, gaveUp, closing, failed, detects, fails>>

Spawn(s) ==
  /\ detect[s] = "closed" /\ Goto(s, "answer")
  /\ IF closer = "open" THEN sem' = Worker /\ background' = TRUE
     ELSE sem' = Nobody /\ UNCHANGED background
  /\ UNCHANGED <<memories, lexicon, load, gaveUp, closing, failed, detects, fails>>

(* Mutant: a refresh that finds nothing to do does not leave the wait group. *)
RefreshStays ==
  /\ background /\ sem = Worker /\ load.pc = "none"
  /\ IF fresh THEN sem' = Nobody /\ UNCHANGED load ELSE load' = Begin /\ UNCHANGED sem
  /\ UNCHANGED <<memories, lexicon, detect, gaveUp, background, closing, failed, detects, fails>>

Refresh ==
  /\ background /\ sem = Worker /\ load.pc = "none"
  /\ IF fresh THEN sem' = Nobody /\ background' = FALSE /\ UNCHANGED load
     ELSE load' = Begin /\ UNCHANGED <<sem, background>>
  /\ UNCHANGED <<memories, lexicon, detect, gaveUp, closing, failed, detects, fails>>

WaitFirst(s) ==
  /\ detect[s] = "wait" /\ sem = Nobody
  /\ sem' = s /\ Goto(s, "again")
  /\ UNCHANGED <<memories, lexicon, load, gaveUp, background, closing, failed, detects, fails>>

StopWaiting(s) ==
  /\ detect[s] = "wait" /\ gaveUp[s]
  /\ Goto(s, "answer")
  /\ UNCHANGED <<memories, lexicon, sem, load, gaveUp, background, closing, failed, detects, fails>>

LoadFirst(s) ==
  /\ detect[s] = "again"
  /\ IF fresh THEN sem' = Nobody /\ Goto(s, "answer") /\ UNCHANGED load
     ELSE load' = Begin /\ Goto(s, "load") /\ UNCHANGED sem
  /\ UNCHANGED <<memories, lexicon, gaveUp, background, closing, failed, detects, fails>>

Answer(s) ==
  /\ detect[s] = "answer" /\ Goto(s, "idle")
  /\ gaveUp' = [gaveUp EXCEPT ![s] = FALSE]
  /\ UNCHANGED <<memories, lexicon, sem, load, background, closing, failed, detects, fails>>

GiveUp(s) ==
  /\ detect[s] \in {"wait", "again", "load"} /\ ~gaveUp[s]
  /\ gaveUp' = [gaveUp EXCEPT ![s] = TRUE]
  /\ UNCHANGED <<memories, lexicon, sem, load, detect, background, closing, failed, detects, fails>>

TTLPasses ==
  /\ fresh /\ fresh' = FALSE
  /\ UNCHANGED <<memories, keywords, lastRowID, loaded, sem, load, detect, gaveUp,
                 background, closing, failed, detects, fails>>

-----------------------------------------------------------------------------
(* Service.Close: the detector's Close, then the store's.                    *)
CloseStep(from, to) ==
  /\ closer = from /\ closer' = to
  /\ UNCHANGED <<memories, lexicon, sem, load, detect, gaveUp, background, store, failed, detects,
                 fails>>

CloseStarts == CloseStep("open", "marked")
CloseCancels == CloseStep("marked", "cancelled")
CloseWaits == ~background /\ CloseStep("cancelled", "waited")

StoreCloses ==
  /\ closer = "waited" /\ store /\ store' = FALSE
  /\ UNCHANGED <<memories, lexicon, sem, load, detect, gaveUp, background, closer, failed, detects,
                 fails>>

CloseGoesOn == CloseCancels \/ CloseWaits \/ StoreCloses
LoadStep == loadRecent \/ loadKeywords \/ mergeLexicon
DetectStep(s) ==
  \/ IsLoaded(s) \/ TryRefresh(s) \/ Spawn(s) \/ WaitFirst(s) \/ StopWaiting(s) \/ LoadFirst(s)
  \/ Answer(s)

Next ==
  \/ Insert \/ \E r \in DOMAIN rows : Purge(r)
  \/ LoadStep \/ Refresh
  \/ \E s \in Searches : Detect(s) \/ DetectStep(s) \/ GiveUp(s)
  \/ TTLPasses
  \/ CloseStarts \/ CloseGoesOn

-----------------------------------------------------------------------------
(* The keywords of every memory up to the watermark are known, whatever      *)
(* loads were cut short or given up, but for a memory that took a used rowid. *)
KnownToWatermark ==
  \A r \in DOMAIN rows : r <= lastRowID => rows[r] \in keywords \cup reused

(* Until a load has failed, a search that did not give up answers from a     *)
(* loaded lexicon, whoever loaded it and whoever gave up on loading it.      *)
FirstAnswersKnow ==
  \A s \in Searches : detect[s] = "answer" /\ ~gaveUp[s] /\ ~failed => loaded

(* Nothing refreshes once Close has waited: the store is closed next.        *)
NoRefreshAfterClose == closer = "waited" => ~background

(* A search answers, and Close gets to the store, whoever has loadSem.       *)
DetectsEnd ==
  /\ \A s \in Searches : detect[s] # "idle" ~> detect[s] = "idle"
  /\ closer = "marked" ~> ~store
===============================================================================
