------------------------------- MODULE MCServe --------------------------------
(***************************************************************************)
(* What goes on inside a serve process: its vector cache, the model it       *)
(* embeds with, its entity lexicon, its file indexer and its shutdown. They  *)
(* share no state here, so each runs alone: one run explores all of them,    *)
(* one at a time.                                                            *)
(***************************************************************************)
EXTENDS Indexer, TLC

CONSTANTS
  Mems, Gens, Serves, vcOwn, MaxRev, MaxSwaps, \* VectorCache's
  Sessions, ServeIdle, HubIdle, \* Serve's
  erOwn, Siblings, MaxEmbeds, erMaxFails, \* EmbedderRuntime's
  Searches, RecentLimit, MaxInserts, MaxDeletes, MaxDetects, elMaxFails \* EntityLexicon's

(* Zero is the generation there is not; the configured pipeline is one the   *)
(* process has.  The others bound what the environment does.                 *)
ASSUME ServeAssumption ==
  /\ Gens \subseteq Nat \ {0} /\ Serves \subseteq Gens /\ vcOwn \in Serves
  /\ MaxRev \in Nat \ {0} /\ MaxSwaps \in Nat
  /\ {ServeIdle, HubIdle} \subseteq Nat
  /\ IsFiniteSet(Siblings) /\ MaxEmbeds \in Nat /\ erMaxFails \in Nat
  /\ {"nobody", "background"} \cap Searches = {}
  /\ {MaxInserts, MaxDeletes, MaxDetects, elMaxFails} \subseteq Nat

VARIABLES
  focus, \* the component that runs
  rev, live, vcStored, active, swaps, quant, space, identity, served, warm,
  embeddingLock, searchLock, saver, worker, binder, search,
  pc, cancelled, watch, parent, pipe, stuck, listed, seSession,
  tokenizerFile, vocabFile, emb, refs, tokenizers, erSession, idleAfter, idle,
  quiet, fired, made, used, embeds, erFails,
  rows, last, purged, top, reused, keywords, lastRowID, loaded, fresh, sem,
  load, detect, gaveUp, background, closer, store, failed, detects, elFails

vcState == <<rev, live, vcStored, active, swaps, quant, space, identity,
              served, warm, embeddingLock, searchLock, saver, worker, binder,
              search>>
seState == <<pc, cancelled, watch, parent, pipe, stuck, listed, seSession>>
erState == <<tokenizerFile, vocabFile, emb, refs, tokenizers, erSession,
              idleAfter, idle, quiet, fired, made, used, embeds, erFails>>
elState == <<rows, last, purged, top, reused, keywords, lastRowID, loaded,
              fresh, sem, load, detect, gaveUp, background, closer, store,
              failed, detects, elFails>>
ixState == vars
all == <<focus, vcState, seState, erState, elState, ixState>>

-----------------------------------------------------------------------------
(* The sections of the files the indexer meets.                              *)
MCLength == <<1, 3>>

VC == INSTANCE VectorCache WITH Own <- vcOwn, stored <- vcStored
SE == INSTANCE Serve WITH session <- seSession
ER == INSTANCE EmbedderRuntime WITH
  Own <- erOwn, MaxFails <- erMaxFails, session <- erSession, fails <- erFails
EL == INSTANCE EntityLexicon WITH MaxFails <- elMaxFails, fails <- elFails

-----------------------------------------------------------------------------
(* A component that does not run keeps one of its initial states.            *)
Initial ==
  /\ focus \in {"vc", "se", "er", "el", "ix"}
  /\ VC!Init /\ (focus # "vc" => active = 0)
  /\ SE!Init
  /\ ER!Init /\ (focus # "er" => tokenizerFile = "good" /\ vocabFile /\ idleAfter /\ ~emb[erOwn].legacy)
  /\ EL!Init
  /\ Init /\ (focus # "ix" => disk \in [Files -> {1}])

Move ==
  /\ UNCHANGED focus
  /\ \/ focus = "vc" /\ VC!Next
     \/ focus = "se" /\ SE!Next
     \/ focus = "er" /\ ER!Next
     \/ focus = "el" /\ EL!Next
     \/ focus = "ix" /\ Next
  /\ focus # "vc" => UNCHANGED vcState
  /\ focus # "se" => UNCHANGED seState
  /\ focus # "er" => UNCHANGED erState
  /\ focus # "el" => UNCHANGED elState
  /\ focus # "ix" => UNCHANGED ixState

(* The fairness of each component's module.                                  *)
Justice ==
  /\ WF_vcState(focus = "vc" /\ VC!WorkerStep) /\ WF_vcState(focus = "vc" /\ VC!BinderStep)
  /\ WF_vcState(focus = "vc" /\ VC!SearchStep)
  /\ SF_vcState(focus = "vc" /\ (VC!Enable \/ VC!TurnOff))
  /\ SF_vcState(focus = "vc" /\ VC!SearchLock)
  /\ WF_seState(focus = "se" /\ SE!ServeStep) /\ WF_seState(focus = "se" /\ SE!PollParent)
  /\ WF_seState(focus = "se" /\ SE!ForceExit)
  /\ WF_erState(focus = "er" /\ ER!TimePasses) /\ WF_erState(focus = "er" /\ ER!TimerFires)
  /\ WF_erState(focus = "er" /\ ER!unloadIfIdle)
  /\ WF_elState(focus = "el" /\ (EL!LoadStep \/ EL!Refresh))
  /\ WF_elState(focus = "el" /\ EL!CloseGoesOn)
  /\ \A s \in Searches : WF_elState(focus = "el" /\ EL!DetectStep(s))

ServeSpec == Initial /\ [][Move]_all /\ Justice

TypesOK ==
  CASE focus = "vc" -> VC!TypeOK [] focus = "se" -> SE!TypeOK [] focus = "er" -> ER!TypeOK
    [] focus = "el" -> EL!TypeOK [] focus = "ix" -> TypeOK

(* Vectors of two spaces never meet: what the worker and the binder cache      *)
(* while a search scores is of the space its query was embedded in             *)
(* (vector_cache.go), and a vector was made by the tokenizer its pipeline is   *)
(* named after, whatever file arrives or fails to parse (embeddings_onnx.go).  *)
SpacesStayApart ==
  /\ focus = "vc" => VC!WorkerNeverMixes
  /\ focus = "er" => ER!VectorsAreTheirLabels

(* Marks are true.  Recorded: the file was saved (indexer.go).  Watermark: the *)
(* entities of every memory up to it are known, whatever loads were cut short  *)
(* or given up (entity_detector.go).  Closed: no embedder holds the model or   *)
(* loads it again (embeddings_onnx.go), and nothing refreshes the lexicon.     *)
MarksAreTrue ==
  /\ focus = "ix" => RecordedIsSaved
  /\ focus = "el" => EL!KnownToWatermark /\ EL!FirstAnswersKnow /\ EL!NoRefreshAfterClose
  /\ focus = "er" => ER!ClosedHoldsNothing

(* Whatever has begun ends: a search, although a fill publishes under the      *)
(* lock it needs (hybrid_search.go) or another loads the lexicon it waits for  *)
(* (entity_detector.go); a serve process without a client, whatever its        *)
(* handler does (serve.go); the memory an idle model holds                     *)
(* (embeddings_onnx.go).                                                     *)
ServeSettles ==
  /\ focus = "vc" => VC!SearchesEnd
  /\ focus = "se" => SE!ClientGoneEnds
  /\ focus = "er" => ER!IdleModelUnloads
  /\ focus = "el" => EL!DetectsEnd
===============================================================================
