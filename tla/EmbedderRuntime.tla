---------------------------- MODULE EmbedderRuntime ----------------------------
(***************************************************************************)
(* The embedders of one process and the model they share                    *)
(* (embeddings_onnx.go): the pipeline the process is configured with and    *)
(* the legacy ones it opens beside it (embedding_upgrade.go).  The model    *)
(* loads on the first embed and unloads after a time without one.           *)
(*                                                                         *)
(* onnxRuntime.mu serializes everything, so a critical section is a step.   *)
(* The idle callback runs on the timer's goroutine: it is fired, and takes  *)
(* the lock later.  An embedder may be used after it was closed: a search   *)
(* keeps the one it picked while the service retires it.                    *)
(***************************************************************************)
EXTENDS Integers

CONSTANTS
  Own,       \* the configured embedder
  Siblings,  \* the embedders of the legacy pipeline opened from it
  MaxEmbeds, \* bound: embeds
  MaxFails   \* bound: embeds whose session fails to load or to run

VARIABLES
  tokenizerFile, vocabFile,  \* what the model directory holds
  emb,                       \* the embedders
  refs, tokenizers, session, \* onnxRuntime
  idleAfter, idle,           \* is the unload on; the timer
  quiet,                     \* idleAfter has passed since the last use
  fired,                     \* callbacks waiting for the lock
  made,                      \* vectors: the label and the tokenizer of each
  used,                      \* the loaded model has embedded
  embeds, fails

files  == <<tokenizerFile, vocabFile>>
shared == <<refs, tokenizers, session>>
timing == <<idleAfter, idle, quiet, fired>>
bounds == <<embeds, fails>>
vars   == <<files, emb, shared, timing, made, used, bounds>>

Embedders == {Own} \cup Siblings
NoTokenizer == "none"

(* A pipeline is labelled by the tokenizer its files promise; the legacy one *)
(* has a single label whichever tokenizer loads.                             *)
expectedONNXPipeline(legacy) ==
  IF legacy THEN "legacy" ELSE IF tokenizerFile # "absent" THEN "hf" ELSE "vocab"

TypeOK ==
  /\ tokenizerFile \in {"absent", "bad", "good"} /\ vocabFile \in BOOLEAN
  /\ emb \in [Embedders -> [state : {"none", "open", "closed"}, legacy : BOOLEAN,
                            pipeline : {"legacy", "hf", "vocab"}]]
  /\ refs \in [BOOLEAN -> Nat]
  /\ tokenizers \in [BOOLEAN -> {NoTokenizer, "hf", "greedy", "vocab"}]
  /\ session \in BOOLEAN /\ idleAfter \in BOOLEAN /\ quiet \in BOOLEAN /\ used \in BOOLEAN
  /\ idle \in {"nil", "armed", "stopped"}
  /\ fired \in Nat /\ embeds \in 0 .. MaxEmbeds /\ fails \in 0 .. MaxFails

(* An install on the English model keeps the legacy pipeline for its own.    *)
Init ==
  /\ tokenizerFile \in {"absent", "bad", "good"} /\ vocabFile \in BOOLEAN
  /\ \E legacy \in BOOLEAN :
       /\ emb = [e \in Embedders |->
            IF e = Own
            THEN [state |-> "open", legacy |-> legacy, pipeline |-> expectedONNXPipeline(legacy)]
            ELSE [state |-> "none", legacy |-> TRUE, pipeline |-> "legacy"]]
       /\ refs = [l \in BOOLEAN |-> IF l = legacy THEN 1 ELSE 0]
  /\ tokenizers = [l \in BOOLEAN |-> NoTokenizer] /\ session = FALSE
  /\ idleAfter \in BOOLEAN \* SetIdleUnload, right after the construction
  /\ idle = "nil" /\ quiet = FALSE /\ fired = 0
  /\ made = {} /\ used = FALSE /\ embeds = 0 /\ fails = 0

openLocked == \E l \in BOOLEAN : refs[l] > 0
Loaded == session \/ \E l \in BOOLEAN : tokenizers[l] # NoTokenizer

-----------------------------------------------------------------------------
(* The tokenizer loadONNXTokenizer builds, and the label that names it.      *)
TokenizerOf(legacy) ==
  IF tokenizerFile = "good" THEN IF legacy THEN "greedy" ELSE "hf"
  ELSE IF vocabFile THEN "vocab" ELSE NoTokenizer
LabelOf(legacy, tokenizer) == IF legacy THEN "legacy" ELSE tokenizer

(* Mutant: the tokenizer that loads is taken, whatever it is called.         *)
AnyTokenizer(e) ==
  IF tokenizers[emb[e].legacy] # NoTokenizer THEN tokenizers[emb[e].legacy]
  ELSE TokenizerOf(emb[e].legacy)

tokenizerLocked(e) ==
  LET legacy == emb[e].legacy
      got == TokenizerOf(legacy) IN
  IF tokenizers[legacy] # NoTokenizer THEN tokenizers[legacy]
  ELSE IF LabelOf(legacy, got) = emb[e].pipeline THEN got ELSE NoTokenizer

(* Mutant: a timer that exists is left alone.                                *)
touchOnce ==
  /\ quiet' = FALSE
  /\ idle' = IF idleAfter /\ idle = "nil" THEN "armed" ELSE idle
  /\ UNCHANGED <<idleAfter, fired>>

touchLocked ==
  /\ quiet' = FALSE
  /\ idle' = IF idleAfter THEN "armed" ELSE idle
  /\ UNCHANGED <<idleAfter, fired>>

(* Mutant: whoever holds an embedder may embed.                              *)
EmbedClosed(e) ==
  LET tok == tokenizerLocked(e) IN
  /\ emb[e].state # "none" /\ embeds < MaxEmbeds /\ embeds' = embeds + 1
  /\ tok # NoTokenizer
  /\ tokenizers' = [tokenizers EXCEPT ![emb[e].legacy] = tok] /\ session' = TRUE
  /\ used' = TRUE /\ touchLocked
  /\ made' = made \cup {[label |-> emb[e].pipeline, tokenizer |-> tok]}
  /\ UNCHANGED <<files, emb, refs, fails>>

(* One text of Embed.  The tokenizer stays when the session does not load;   *)
(* the session stays, untouched, when it does not run.                       *)
embedSingle(e) ==
  LET tok == tokenizerLocked(e) IN
  /\ emb[e].state # "none" /\ openLocked
  /\ embeds < MaxEmbeds /\ embeds' = embeds + 1
  /\ tok # NoTokenizer
  /\ tokenizers' = [tokenizers EXCEPT ![emb[e].legacy] = tok]
  /\ \/ /\ session' = TRUE /\ used' = TRUE /\ touchLocked
        /\ made' = made \cup {[label |-> emb[e].pipeline, tokenizer |-> tok]}
        /\ UNCHANGED fails
     \/ /\ fails < MaxFails /\ fails' = fails + 1 \* sessionLocked or Run fails
        /\ session' \in {session, TRUE}
        /\ UNCHANGED <<made, used, timing>>
  /\ UNCHANGED <<files, emb, refs>>

LegacyPipeline(s) ==
  /\ emb[Own].state = "open" /\ ~emb[Own].legacy /\ emb[s].state = "none"
  /\ emb' = [emb EXCEPT ![s].state = "open", ![s].pipeline = expectedONNXPipeline(TRUE)]
  /\ refs' = [refs EXCEPT ![TRUE] = @ + 1]
  /\ UNCHANGED <<files, tokenizers, session, timing, made, used, bounds>>

(* The service retires its legacy embedder before it closes its own.         *)
Close(e) ==
  LET left == [refs EXCEPT ![emb[e].legacy] = @ - 1]
      last == \A l \in BOOLEAN : left[l] = 0 IN
  /\ emb[e].state = "open"
  /\ e = Own => \A s \in Siblings : emb[s].state # "open"
  /\ emb' = [emb EXCEPT ![e].state = "closed"]
  /\ refs' = left
  /\ tokenizers' = [l \in BOOLEAN |->
       IF last \/ left[l] = 0 THEN NoTokenizer ELSE tokenizers[l]]
  /\ IF last
     THEN /\ session' = FALSE /\ used' = FALSE
          /\ idle' = IF idle = "armed" THEN "stopped" ELSE idle
     ELSE UNCHANGED <<session, used, idle>>
  /\ UNCHANGED <<files, idleAfter, quiet, fired, made, bounds>>

-----------------------------------------------------------------------------
TimePasses ==
  /\ ~quiet /\ quiet' = TRUE
  /\ UNCHANGED <<files, emb, shared, idleAfter, idle, fired, made, used, bounds>>

(* Every use resets the timer: it goes off when idleAfter passed without one. *)
TimerFires ==
  /\ idle = "armed" /\ quiet
  /\ idle' = "stopped" /\ fired' = fired + 1
  /\ UNCHANGED <<files, emb, shared, idleAfter, quiet, made, used, bounds>>

unloadIfIdle ==
  /\ fired > 0 /\ fired' = fired - 1
  /\ IF ~Loaded \/ ~idleAfter THEN UNCHANGED <<shared, used, idle>>
     ELSE IF ~quiet THEN idle' = "armed" /\ UNCHANGED <<shared, used>>
     ELSE /\ session' = FALSE /\ tokenizers' = [l \in BOOLEAN |-> NoTokenizer]
          /\ used' = FALSE /\ UNCHANGED <<refs, idle>>
  /\ UNCHANGED <<files, emb, idleAfter, quiet, made, bounds>>

(* Another process completes the download of a missing tokenizer.json.       *)
TokenizerArrives ==
  /\ tokenizerFile = "absent" /\ tokenizerFile' \in {"bad", "good"}
  /\ UNCHANGED <<vocabFile, emb, shared, timing, made, used, bounds>>

Next ==
  \/ \E e \in Embedders : embedSingle(e) \/ Close(e)
  \/ \E s \in Siblings : LegacyPipeline(s)
  \/ TimePasses \/ TimerFires \/ unloadIfIdle \/ TokenizerArrives

-----------------------------------------------------------------------------
(* A vector of the v2 pipeline was made by the tokenizer its label names,    *)
(* although tokenizer.json may arrive, or fail to parse, after the embedder  *)
(* was labelled.                                                             *)
VectorsAreTheirLabels ==
  \A v \in made : v.label # "legacy" => v.tokenizer = v.label

(* Once the last embedder is closed nothing is loaded and nothing loads      *)
(* again, although a search may still hold an embedder and a callback may    *)
(* wait for the lock.                                                        *)
ClosedHoldsNothing == ~openLocked => ~Loaded

(* With the idle unload on, a model that has embedded is unloaded: a         *)
(* callback that found a fresh use comes again, and every reload is timed.   *)
IdleModelUnloads == (idleAfter /\ session /\ used) ~> ~session
===============================================================================
