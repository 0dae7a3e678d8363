----------------------------- MODULE RemoteRouting -----------------------------
(***************************************************************************)
(* Which remote answers for a repository: the two resolvers of              *)
(* pkg/sync/resolve.go behind the cache of pkg/mcp/remote_resolution.go,    *)
(* and what the callers in pkg/mcp do to the cache when a remote fails them.*)
(*                                                                         *)
(* The remotes are numbered in precedence order (remotesToAsk; a path glob  *)
(* leaves one).  One repository, hence one cache key.  Searches and writes  *)
(* of one server resolve concurrently; a remote may list or drop the        *)
(* repository and may fail to answer at any time.  Expiry times are the     *)
(* ticks left until they pass; an entry that expired or was deleted is Miss  *)
(* with none left.                                                          *)
(***************************************************************************)
EXTENDS Integers

CONSTANTS
  Searches, \* tool calls that read
  Writes,   \* tool calls and outbox deliveries that send data
  Remotes,  \* how many remotes are asked
  TTL,      \* remoteResolutionTTL, in ticks
  MissTTL,  \* remoteMissTTL, in ticks
  MaxAsk    \* the deadlines that bound one resolution, in ticks

ASSUME CallsAssumption == Searches \cap Writes = {}
ASSUME TimesAssumption ==
  /\ Remotes \in Nat /\ TTL \in Nat /\ MissTTL \in 1 .. TTL /\ MaxAsk \in Nat

Calls == Searches \cup Writes
Ranks == 1 .. Remotes

(* How old what an answer rests on can be, and where an age stops growing.   *)
Long  == MaxAsk + TTL
Short == MaxAsk + MissTTL

(* A ProjectResolution: the rank of the remote, 0 for none.                  *)
Answers == [to : 0 .. Remotes, degraded : BOOLEAN, held : BOOLEAN]
Held == [to |-> 0, degraded |-> TRUE, held |-> TRUE]
Miss == [to |-> 0, degraded |-> FALSE, held |-> FALSE]

VARIABLES
  owns,      \* remotes that list a project for the repository
  cached,    \* the read answer in the cache
  cacheLeft, \* its ticks left, 0 when there is none
  holdLeft,  \* the same of the hold
  pc,        \* where a call is
  said,      \* what each remote answered the call
  asked,     \* ticks since the call began to ask
  answer,    \* the resolution it got
  \* auxiliary
  unowned,   \* ticks since a remote last did not list the repository
  failed     \* ticks since a remote last failed to answer or refused

cache == <<cached, cacheLeft, holdLeft>>
calls == <<pc, said, asked, answer>>
ages  == <<unowned, failed>>
vars  == <<owns, cache, calls, ages>>

Silent == [i \in Ranks |-> "none"]

Init ==
  /\ owns \in SUBSET Ranks
  /\ cached = Miss /\ cacheLeft = 0 /\ holdLeft = 0
  /\ pc = [c \in Calls |-> "idle"]
  /\ said = [c \in Calls |-> Silent] /\ asked = [c \in Calls |-> 0]
  /\ answer = [c \in Calls |-> Miss]
  /\ unowned = [i \in Ranks |-> IF i \in owns THEN Long ELSE 0]
  /\ failed = [i \in Ranks |-> Short]

-----------------------------------------------------------------------------
(* The cache.                                                                *)
Drop       == cached' = Miss /\ cacheLeft' = 0
Forget     == Drop /\ holdLeft' = 0

(* Mutant: a search that lost its remote drops the hold as well.             *)
ForgetBoth == Drop /\ holdLeft' = 0
ForgetRead == Drop /\ UNCHANGED holdLeft

(* Mutant: an answer is kept for the long time whatever was skipped.         *)
KeepsLong(r) == IF r.to # 0 THEN TTL ELSE MissTTL
KeptFor(r) == IF r.to # 0 /\ ~r.degraded THEN TTL ELSE MissTTL

(* Mutant: a hold is kept under the key of the read answers.                 *)
KeepTogether(r) == cached' = r /\ cacheLeft' = KeptFor(r) /\ UNCHANGED holdLeft
Keep(r) ==
  IF r.held THEN holdLeft' = MissTTL /\ UNCHANGED <<cached, cacheLeft>>
  ELSE cached' = r /\ cacheLeft' = KeptFor(r) /\ UNCHANGED holdLeft

(* A write is held while the hold lasts, and takes no degraded answer.       *)
(* Mutant: a hold does not run out.                                          *)
HoldingForever(c) == c \in Writes
Holding(c) == c \in Writes /\ holdLeft > 0

(* Mutant: a write reuses what a search found.                               *)
UsableByAll(c) == cacheLeft > 0
Usable(c) == cacheLeft > 0 /\ (c \in Searches \/ ~cached.degraded)

-----------------------------------------------------------------------------
(* A call begins.  A write looks for a hold first, the read answer after it  *)
(* in a lock section of its own; without an answer the call asks.            *)
Goto(c, l)  == pc' = [pc EXCEPT ![c] = l]
Got(c, r)   == Goto(c, "answered") /\ answer' = [answer EXCEPT ![c] = r]

Begin(c) ==
  /\ pc[c] = "idle"
  /\ \/ Holding(c) /\ Got(c, Held)
     \/ ~Holding(c) /\ Goto(c, "looking") /\ UNCHANGED answer
  /\ UNCHANGED <<owns, cache, said, asked, ages>>

Look(c) ==
  /\ pc[c] = "looking"
  /\ \/ Usable(c) /\ Got(c, cached)
     \/ ~Usable(c) /\ Goto(c, "asking") /\ UNCHANGED answer
  /\ UNCHANGED <<owns, cache, said, asked, ages>>

(* A read asks the others once the first is late, so in any order; a write   *)
(* asks one at a time, and the next only if the remote does not know it.     *)
MayAsk(c, i) ==
  /\ said[c][i] = "none"
  /\ c \in Writes => \A j \in 1 .. i - 1 : said[c][j] = "unknown"

Ask(c, i) ==
  /\ pc[c] = "asking" /\ MayAsk(c, i)
  /\ \/ /\ said' = [said EXCEPT ![c][i] = IF i \in owns THEN "knows" ELSE "unknown"]
        /\ UNCHANGED failed
     \/ /\ said' = [said EXCEPT ![c][i] = "error"]
        /\ failed' = [failed EXCEPT ![i] = 0]
  /\ UNCHANGED <<owns, cache, pc, asked, answer, unowned>>

(* ResolveProjectAcrossRemotesForWrite: the first that does not say no.      *)
WriteAnswers(s) ==
  {[to |-> i, degraded |-> FALSE, held |-> FALSE] :
     i \in {i \in Ranks : s[i] = "knows" /\ \A j \in 1 .. i - 1 : s[j] = "unknown"}}
  \cup {Held : i \in {i \in Ranks : s[i] = "error" /\ \A j \in 1 .. i - 1 : s[j] = "unknown"}}
  \cup (IF \A i \in Ranks : s[i] = "unknown" THEN {Miss} ELSE {})

(* ResolveProjectAcrossRemotesDetailed: the first that knows, once those     *)
(* before it have answered or failed.                                        *)
Failing(s, n) == \E j \in 1 .. n : s[j] = "error"
ReadAnswers(s) ==
  {[to |-> i, degraded |-> Failing(s, i - 1), held |-> FALSE] :
     i \in {i \in Ranks : s[i] = "knows" /\ \A j \in 1 .. i - 1 : s[j] \in {"unknown", "error"}}}
  \cup (IF \A i \in Ranks : s[i] \in {"unknown", "error"}
        THEN {[to |-> 0, degraded |-> Failing(s, Remotes), held |-> FALSE]} ELSE {})

Resolutions(c) == IF c \in Writes THEN WriteAnswers(said[c]) ELSE ReadAnswers(said[c])

(* The answer is kept, unless the caller's own deadline has passed.          *)
Resolve(c) ==
  /\ pc[c] = "asking"
  /\ \E r \in Resolutions(c) : Got(c, r) /\ (Keep(r) \/ UNCHANGED cache)
  /\ said' = [said EXCEPT ![c] = Silent] /\ asked' = [asked EXCEPT ![c] = 0]
  /\ UNCHANGED <<owns, ages>>

(* The call uses the remote it got.  A write it refuses (401, 403) drops     *)
(* what is cached and then, under the lock again, holds the repository; no   *)
(* answer or a 5xx drops it too, for a search only the read answer.          *)
Use(c) ==
  /\ pc[c] = "answered"
  /\ \/ UNCHANGED cache
     \/ answer[c].to # 0 /\ IF c \in Writes THEN Forget ELSE ForgetRead
  /\ Goto(c, "idle") /\ answer' = [answer EXCEPT ![c] = Miss]
  /\ UNCHANGED <<owns, said, asked, ages>>

Refused(c) ==
  /\ pc[c] = "answered" /\ c \in Writes /\ answer[c].to # 0
  /\ Forget /\ Goto(c, "refused")
  /\ UNCHANGED <<owns, said, asked, answer, ages>>

Hold(c) ==
  /\ pc[c] = "refused"
  /\ holdLeft' = MissTTL
  /\ failed' = [failed EXCEPT ![answer[c].to] = 0]
  /\ Goto(c, "idle") /\ answer' = [answer EXCEPT ![c] = Miss]
  /\ UNCHANGED <<owns, cached, cacheLeft, said, asked, unowned>>

-----------------------------------------------------------------------------
(* External: a remote lists the repository, or drops it.                     *)
Change(i) ==
  /\ owns' = IF i \in owns THEN owns \ {i} ELSE owns \cup {i}
  /\ unowned' = [unowned EXCEPT ![i] = 0]
  /\ UNCHANGED <<cache, calls, failed>>

Older(a, most) == IF a < most THEN a + 1 ELSE most
Fewer(n) == IF n > 0 THEN n - 1 ELSE 0

Tick ==
  /\ \A c \in Calls : pc[c] = "asking" => asked[c] < MaxAsk
  /\ cached' = IF cacheLeft > 1 THEN cached ELSE Miss
  /\ cacheLeft' = Fewer(cacheLeft) /\ holdLeft' = Fewer(holdLeft)
  /\ asked' = [c \in Calls |-> IF pc[c] = "asking" THEN asked[c] + 1 ELSE asked[c]]
  /\ unowned' = [i \in Ranks |-> IF i \in owns THEN Older(unowned[i], Long) ELSE 0]
  /\ failed' = [i \in Ranks |-> Older(failed[i], Short)]
  /\ UNCHANGED <<owns, pc, said, answer>>

Next ==
  \/ \E c \in Calls : \/ Begin(c) \/ Look(c) \/ Resolve(c)
                      \/ Use(c) \/ Refused(c) \/ Hold(c)
                      \/ \E i \in Ranks : Ask(c, i)
  \/ \E i \in Ranks : Change(i)
  \/ Tick

Spec == Init /\ [][Next]_vars

-----------------------------------------------------------------------------
TypeOK ==
  /\ owns \subseteq Ranks
  /\ cached \in Answers /\ ~cached.held /\ cacheLeft \in 0 .. TTL /\ holdLeft \in 0 .. MissTTL
  /\ pc \in [Calls -> {"idle", "looking", "asking", "answered", "refused"}]
  /\ said \in [Calls -> [Ranks -> {"none", "knows", "unknown", "error"}]]
  /\ asked \in [Calls -> 0 .. MaxAsk] /\ answer \in [Calls -> Answers]
  /\ unowned \in [Ranks -> 0 .. Long] /\ failed \in [Ranks -> 0 .. Short]

Answered(c) == pc[c] # "answered" /\ pc'[c] = "answered"

(* A write never passes over a remote that may own the repository: every     *)
(* remote ranked above the one it goes to did not list the repository at     *)
(* some moment no longer ago than one resolution and the life of an answer,  *)
(* whatever searches, outages and refusals went on meanwhile.  The cache that *)
(* searches fill is shared with writes (resolveProjectAcrossRemotes).        *)
WriteNeverPassesOver ==
  [][\A c \in Writes : Answered(c) =>
       \A j \in 1 .. answer'[c].to - 1 : unowned'[j] < Long]_vars

(* A search goes below a remote that lists the repository only shortly after *)
(* it failed to answer or began to list it: precedence comes back on its own.*)
SearchPrefersHigher ==
  [][\A c \in Calls : Answered(c) =>
       \A j \in 1 .. answer'[c].to - 1 :
         unowned'[j] < Long \/ failed'[j] < Short]_vars

(* Nothing is found only when every remote lacked the repository, or failed, *)
(* a short time ago; and a write is held only because one failed as recently *)
(* (remoteMissTTL), however holds and answers of other calls replace it.     *)
MissesAreShort ==
  [][\A c \in Calls : Answered(c) /\ answer'[c].to = 0 =>
       IF answer'[c].held
       THEN \E j \in Ranks : failed'[j] < Short
       ELSE \A j \in Ranks : \/ unowned'[j] < Short
                             \/ c \in Searches /\ failed'[j] < Short]_vars

(* No search lifts a hold on writes, not even one that lists the projects    *)
(* again: only its time, or a write that found its remote broken, ends it    *)
(* (forgetAutoRemoteRead against forgetAutoRemoteTarget).                    *)
SearchKeepsHold ==
  [][holdLeft' < holdLeft =>
       \/ holdLeft' = holdLeft - 1 /\ UNCHANGED pc
       \/ \E c \in Writes : pc[c] = "answered" /\ pc'[c] # "answered"]_vars
=============================================================================
