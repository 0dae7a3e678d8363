------------------------------ MODULE SearchRanking ------------------------------
(***************************************************************************)
(* One search over a fixed corpus (hybrid_search.go, vector_cache.go): the   *)
(* candidates of the vector cache, kept in a bounded heap while a map is      *)
(* iterated in any order, the lexical candidates, their fusion, the boosts,   *)
(* the cap per origin, the selection for diversity and the cut.              *)
(*                                                                         *)
(* A memory has a cosine and a BM25 score of 0 (no candidate) to 2.  Scores   *)
(* are integers: every boost multiplies all of them by whole numbers in the    *)
(* ratio of the code's factors.                                              *)
(***************************************************************************)
EXTENDS Integers, Sequences, FiniteSets, SequencesExt

CONSTANTS
  Mems,      \* 1 .. n: the ids, which break ties
  Elsewhere, \* memories of another project than the one searched
  Global,    \* memories of no project
  Covering,  \* memories that match every word of the query
  Low,       \* demoted memories (low_signal)
  Pinned,    \* pinned memories, which never decay
  Aged,      \* memories at their half-life
  Focus,     \* memories that mention the working set
  PerOrigin, \* DiversifyPerOrigin
  Overscan,  \* how many times the page the scan of the cache keeps (4 in the code)
  Limits     \* values of MaxResults

VARIABLES
  cosine, bm25,    \* the scores a memory gets
  origin, alike,   \* its source session, the class of near-duplicates it is in
  limit,           \* MaxResults of this search
  todo, kept,      \* the scan of the cache: entries to visit, the heap
  pc, ranked,      \* the list at this point of the pipeline
  page             \* what applyMMR has selected, then the result

input == <<cosine, bm25, origin, alike, limit>>
vars  == <<input, todo, kept, pc, ranked, page>>

Init ==
  /\ cosine \in [Mems -> 0 .. 2] /\ bm25 \in [Mems -> 0 .. 1]
  /\ origin \in [Mems -> 1 .. 2] /\ alike \in [Mems -> 1 .. 2]
  /\ limit \in Limits
  /\ todo = {m \in Mems : cosine[m] > 0} /\ kept = {}
  /\ pc = "scan" /\ ranked = <<>> /\ page = <<>>

InScope(m) == m \notin Elsewhere

AtLeast1(n) == IF n <= 0 THEN 1 ELSE n
MaxOf(S)   == CHOOSE x \in S \cup {0} : \A y \in S : y <= x

-----------------------------------------------------------------------------
(* Mutant: equal scores are ranked as the map yields them.                   *)
ScoreBefore(a, b) == cosine[a] > cosine[b]

(* scoredBefore: by score, then by id.                                       *)
ScoredBefore(a, b) == cosine[a] > cosine[b] \/ (cosine[a] = cosine[b] /\ a < b)

(* The root of the heap is the weakest entry kept.                           *)
Weakest == CHOOSE m \in kept : \A o \in kept : o = m \/ ~ScoredBefore(m, o)

(* searchVectorLocked asks the scan for more than the page.                  *)
Bound == Overscan * limit

(* Mutant: the heap takes one entry too many.                                *)
RoomForMore == Cardinality(kept) <= Bound
Room        == Cardinality(kept) < Bound

(* ScoreInScope: one entry, in the order of the map.                         *)
ScoreEntry(m) ==
  /\ pc = "scan" /\ m \in todo
  /\ todo' = todo \ {m}
  /\ kept' = IF ~InScope(m) THEN kept
             ELSE IF Room THEN kept \cup {m}
             ELSE IF ScoredBefore(m, Weakest) THEN (kept \ {Weakest}) \cup {m}
             ELSE kept
  /\ UNCHANGED <<input, pc, ranked, page>>

-----------------------------------------------------------------------------
(* fuse: each list normalised by its best score, 0.7 to 0.3 (in units of      *)
(* 1/20), cut at 0.05.                                                       *)
Fused(m) ==
  LET vec == IF m \in kept THEN cosine[m] ELSE 0
      lex == IF InScope(m) THEN bm25[m] ELSE 0 IN
  (14 * vec) \div AtLeast1(MaxOf({cosine[o] : o \in kept})) + 6 * lex

(* Coverage (2), lifecycle (0.03 and 1.5), decay (0.5), project (1.3 and 1.1)  *)
(* and working set (1.3).                                                    *)
CoverageBoost(m)   == IF m \in Covering THEN 2 ELSE 1
LifecycleBoost(m)  == IF m \in Pinned THEN 150 ELSE IF m \in Low THEN 3 ELSE 100
TemporalDecay(m)   == IF m \in Aged \ Pinned THEN 1 ELSE 2
ProjectBoost(m)    == IF m \in Elsewhere THEN 10 ELSE IF m \in Global THEN 11 ELSE 13
WorkingSetBoost(m) == IF m \in Focus THEN 13 ELSE 10
Score(m) == Fused(m) * CoverageBoost(m) * LifecycleBoost(m) * TemporalDecay(m)
              * ProjectBoost(m) * WorkingSetBoost(m)

SortResults(S) == SetToSortSeq(S, LAMBDA a, b : Score(a) > Score(b) \/ (Score(a) = Score(b) /\ a < b))

Fuse ==
  /\ pc = "scan" /\ todo = {}
  /\ ranked' = SortResults({m \in Mems : Fused(m) >= 1})
  /\ pc' = "diversify"
  /\ UNCHANGED <<input, todo, kept, page>>

(* diversifyByOrigin: a result stays when fewer than PerOrigin of its origin   *)
(* are before it.                                                            *)
Before(s, i) == {j \in 1 .. i - 1 : origin[s[j]] = origin[s[i]]}
DiversifyByOrigin(s) ==
  LET stays == {i \in DOMAIN s : Cardinality(Before(s, i)) < PerOrigin} IN
  SelectSeq(s, LAMBDA m : \E i \in stays : s[i] = m)

Diversify ==
  /\ pc = "diversify"
  /\ ranked' = DiversifyByOrigin(ranked)
  /\ pc' = "select"
  /\ UNCHANGED <<input, todo, kept, page>>

(* applyMMR: the best comes first, then whoever is best once its likeness to   *)
(* the selected is deducted; near-duplicates of the selected are out.  Which   *)
(* one that is depends on cosines the model leaves open.                      *)
NearDuplicate(m) == \E i \in DOMAIN page : alike[page[i]] = alike[m]
SelectNext ==
  /\ pc = "select" /\ Len(page) < limit
  /\ \E i \in DOMAIN ranked :
       /\ page = <<>> => i = 1
       /\ ~NearDuplicate(ranked[i])
       /\ page' = Append(page, ranked[i])
       /\ ranked' = RemoveAt(ranked, i)
  /\ UNCHANGED <<input, todo, kept, pc>>

Finish ==
  /\ pc = "select"
  /\ Len(page) = limit \/ \A i \in DOMAIN ranked : page # <<>> /\ NearDuplicate(ranked[i])
  /\ page' = SortResults(ToSet(page))
  /\ pc' = "done"
  /\ UNCHANGED <<input, todo, kept, ranked>>

Next ==
  \/ \E m \in Mems : ScoreEntry(m)
  \/ Fuse \/ Diversify \/ SelectNext \/ Finish

Spec == Init /\ [][Next]_vars

-----------------------------------------------------------------------------
TypeOK ==
  /\ todo \subseteq Mems /\ kept \subseteq Mems
  /\ pc \in {"scan", "diversify", "select", "done"}
  /\ ToSet(ranked) \subseteq Mems /\ ToSet(page) \subseteq Mems
  /\ Cardinality(kept) <= Bound /\ Len(page) <= limit

(* The scan keeps the best entries of the scope, whatever the order of the map *)
(* and whatever is close to the query in other projects                        *)
(* (vector_cache.go 130-133, hybrid_search.go 314-315).                        *)
ScanKeepsTheBest ==
  LET scope == {m \in Mems : cosine[m] > 0 /\ InScope(m)} IN
  pc # "scan" => kept = {m \in scope : Cardinality({o \in scope :
    cosine[o] > cosine[m] \/ (cosine[o] = cosine[m] /\ o < m)}) < Bound}
================================================================================
