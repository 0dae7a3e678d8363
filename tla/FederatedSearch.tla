--------------------------- MODULE FederatedSearch ---------------------------
(***************************************************************************)
(* anchored_search (server.go toolSearch, federation.go, client.go): a search *)
(* of the local store that merges what the repository's server answers, or a   *)
(* search of one server only, which falls back to the local store.             *)
(*                                                                         *)
(* Both engines are lists of candidates, an id and a text, in any order; a     *)
(* request to the server is answered, refused with the code that permits one     *)
(* lexical retry, or fails.  A candidate's rank is its position: the server     *)
(* declares no other, and no category filters its answer; the local search      *)
(* finds what it finds, and does not fail.                                   *)
(***************************************************************************)
EXTENDS Integers, Sequences, FiniteSets, Functions

CONSTANTS Ids, Texts, MaxHits, Limit

VARIABLES
  local, remote,  \* what each engine would answer
  selector,       \* "absent": local with a merge; else the server asked for
  pc, entry,      \* the server the search was routed to, "none" if it was not
  mode, said,     \* the mode asked for, the fallback said in the answer
  got,            \* the server's answer
  hits, merged,   \* the hits so far, how many of the server's candidates they hold
  page            \* the answer

vars == <<local, remote, selector, pc, entry, mode, said, got, hits, merged, page>>
store == <<local, remote, selector>>

Candidates == [id : Ids, text : Texts]
Lists == {s \in UNION {[1 .. n -> Candidates] : n \in 0 .. MaxHits} :
            \A i, j \in DOMAIN s : i # j => s[i].id # s[j].id}

Init ==
  /\ local \in Lists /\ remote \in Lists
  /\ selector \in {"absent", "default", "named"}
  /\ pc = "route" /\ entry = "none" /\ mode = "semantic" /\ said = "no"
  /\ got = <<>> /\ hits = <<>> /\ merged = 0 /\ page = <<>>

-----------------------------------------------------------------------------
(* federateSearchResults.  A hit holds at most one candidate of each engine,    *)
(* as a position in its list, 0 for none.                                    *)
Hit(l, r) == [l |-> l, r |-> r]
IdsOf(h)  == {local[i].id : i \in {h.l} \ {0}} \cup {got[i].id : i \in {h.r} \ {0}}
TextOf(h) == IF h.l > 0 THEN local[h.l].text ELSE got[h.r].text

(* Mutant: the text is looked up before the id.                              *)
TextFirst(c) ==
  LET byText == {i \in DOMAIN hits : TextOf(hits[i]) = c.text /\ hits[i].r = 0} IN
  IF byText # {} THEN byText ELSE {i \in DOMAIN hits : c.id \in IdsOf(hits[i])}

(* A candidate of the server joins the hit with its id, else one with its text  *)
(* that has none of the server's yet.                                        *)
Match(c) ==
  LET byId == {i \in DOMAIN hits : c.id \in IdsOf(hits[i])} IN
  IF byId # {} THEN byId ELSE {i \in DOMAIN hits : TextOf(hits[i]) = c.text /\ hits[i].r = 0}

First(S) == CHOOSE i \in S : \A j \in S : i <= j

(* Reciprocal rank fusion with k = 60, in units of 1/(61*62*63*64), then the   *)
(* better rank.                                                              *)
Vote(rank) == IF rank = 0 THEN 0 ELSE (61 * 62 * 63 * 64) \div (60 + rank)
Score(h)   == Vote(h.l) + Vote(h.r)
BestRank(h) == IF h.l = 0 THEN h.r ELSE IF h.r = 0 \/ h.l < h.r THEN h.l ELSE h.r
ScoredBefore(g, h) == Score(g) > Score(h) \/ (Score(g) = Score(h) /\ BestRank(g) < BestRank(h))

(* The orders the hits may be sorted in: times and identities, which break the *)
(* ties that are left, are not in the model.                                 *)
Sorted == {p \in Bijection(DOMAIN hits, DOMAIN hits) :
             \A i, j \in DOMAIN hits : i < j => ~ScoredBefore(hits[p[j]], hits[p[i]])}

-----------------------------------------------------------------------------
(* The server of the search: the repository's, by its keys, else the           *)
(* configured one, for a project it knows.                                   *)
Route ==
  /\ pc = "route"
  /\ \/ entry' = "server" /\ pc' = "ask" /\ UNCHANGED said
     \/ /\ entry' = "none" /\ pc' = "local"
        /\ said' = IF selector = "absent" THEN "no" ELSE "fallback"
  /\ UNCHANGED <<store, mode, got, hits, merged, page>>

(* SearchRemoteDetailed: only the declared code changes the mode, once.         *)
Answered ==
  /\ pc = "ask"
  /\ got' = remote
  /\ IF selector = "absent" THEN pc' = "local" /\ UNCHANGED page
     ELSE pc' = "done" /\ page' = [n \in DOMAIN remote |-> Hit(0, n)]
  /\ UNCHANGED <<store, entry, mode, said, hits, merged>>

SemanticUnavailable ==
  /\ pc = "ask" /\ mode = "semantic"
  /\ mode' = "text"
  /\ UNCHANGED <<store, pc, entry, said, got, hits, merged, page>>

AskFails ==
  /\ pc = "ask"
  /\ entry' = "none" /\ pc' = "local"
  /\ said' = IF selector = "absent" THEN "no" ELSE "fallback"
  /\ UNCHANGED <<store, mode, got, hits, merged, page>>

(* The local results are the first hits, then the server's join them, in the   *)
(* order of its answer.                                                      *)
SearchLocal ==
  /\ pc = "local"
  /\ hits' = [i \in DOMAIN local |-> Hit(i, 0)]
  /\ pc' = "merge"
  /\ UNCHANGED <<store, entry, mode, said, got, merged, page>>

AddRemote ==
  /\ pc = "merge" /\ merged < Len(got)
  /\ merged' = merged + 1
  /\ LET joins == Match(got[merged']) IN
     hits' = IF joins = {} THEN Append(hits, Hit(0, merged'))
             ELSE IF hits[First(joins)].r > 0 THEN hits          \* one vote of an engine
             ELSE [hits EXCEPT ![First(joins)].r = merged']
  /\ UNCHANGED <<store, pc, entry, mode, said, got, page>>

Answer ==
  /\ pc = "merge" /\ merged = Len(got)
  /\ \E p \in Sorted :
       page' = [i \in 1 .. IF Len(hits) < Limit THEN Len(hits) ELSE Limit |-> hits[p[i]]]
  /\ pc' = "done"
  /\ UNCHANGED <<store, entry, mode, said, got, hits, merged>>

Next ==
  \/ Route \/ Answered \/ SemanticUnavailable \/ AskFails
  \/ SearchLocal \/ AddRemote \/ Answer

Spec == Init /\ [][Next]_vars

-----------------------------------------------------------------------------
TypeOK ==
  /\ pc \in {"route", "ask", "local", "merge", "done"} /\ entry \in {"none", "server"}
  /\ mode \in {"semantic", "text"} /\ said \in {"no", "fallback"}
  /\ got \in {<<>>, remote} /\ merged \in 0 .. Len(got)
  /\ (selector = "absent" => Len(page) <= Limit)

(* No memory is shown twice, none of the local results is lost to a hit of the   *)
(* server, what both engines put first comes first, and local results are never  *)
(* passed off as the server's (federation.go 102-128, server.go 971-976).        *)
MergedIsSound ==
  pc = "done" =>
    /\ \A i, j \in DOMAIN page : i # j => IdsOf(page[i]) \cap IdsOf(page[j]) = {}
    /\ Len(local) + Len(got) <= Limit /\ (selector = "absent" \/ entry = "none") =>
         \A n \in DOMAIN local : \E i \in DOMAIN page : page[i].l = n
    /\ got # <<>> /\ local # <<>> /\ selector = "absent" /\ got[1].id = local[1].id => page[1] = Hit(1, 1)
    /\ selector # "absent" /\ (\E i \in DOMAIN page : page[i].l > 0) => said = "fallback"
================================================================================
