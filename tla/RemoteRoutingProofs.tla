-------------------------- MODULE RemoteRoutingProofs --------------------------
(***************************************************************************)
(* Proofs about RemoteRouting, for every number of calls and remotes and     *)
(* every length of the lifetimes.                                           *)
(***************************************************************************)
EXTENDS RemoteRouting, TLAPS

(* What a remote said to a call that still asks was so since it began.       *)
SaidRecently ==
  \A c \in Calls : /\ pc[c] # "asking" => said[c] = Silent
                   /\ \A j \in Ranks : /\ said[c][j] = "unknown" => unowned[j] <= asked[c]
                                       /\ said[c][j] = "error" => failed[j] <= asked[c]

(* What a cached answer passed over was so when it was put, or shortly       *)
(* before: the time it has left tells how long ago that is.                  *)
PassedOver == IF cached.to = 0 THEN Ranks ELSE 1 .. cached.to - 1
CachedRecently ==
  cacheLeft > 0 =>
    \A j \in PassedOver :
      \/ unowned[j] <= MaxAsk + KeptFor(cached) - cacheLeft
      \/ cached.degraded /\ failed[j] <= MaxAsk + KeptFor(cached) - cacheLeft

(* A hold was put because a remote failed, and tells when in the same way.   *)
HeldRecently ==
  holdLeft > 0 => \E j \in Ranks : failed[j] <= Short - holdLeft

(* The age of a remote without the repository is zero; only a write is       *)
(* refused, by the remote it went to.                                        *)
UnownedNow == \A j \in Ranks : j \notin owns => unowned[j] = 0
RefusedSomewhere == \A c \in Calls : pc[c] = "refused" => c \in Writes /\ answer[c].to # 0

(* The invariant: what the calls and the cache hold tells how old it is.     *)
RoutingInv ==
  /\ TypeOK /\ UnownedNow /\ RefusedSomewhere
  /\ SaidRecently /\ CachedRecently /\ HeldRecently

-----------------------------------------------------------------------------
(* What the remotes an answer passes over said to the call it resolved.      *)
Skipped(r) == IF r.to = 0 THEN Ranks ELSE 1 .. r.to - 1

(* A write goes to a remote only if every one above said no, finds nothing   *)
(* only if all did, and is held only by one that failed.                     *)
LEMMA WriteAnswersFacts ==
  ASSUME TypeOK, NEW c \in Calls, NEW r \in WriteAnswers(said[c])
  PROVE  /\ r \in Answers
         /\ r.held => r.to = 0 /\ \E j \in Ranks : said[c][j] = "error"
         /\ ~r.held => ~r.degraded /\ \A j \in Skipped(r) : said[c][j] = "unknown"
<1>1. CASE r = Held /\ \E j \in Ranks : said[c][j] = "error"
  BY <1>1, TimesAssumption DEF Held, Answers
<1>2. CASE r = Miss /\ \A j \in Ranks : said[c][j] = "unknown"
  BY <1>2, TimesAssumption DEF Miss, Answers, Skipped
<1>3. CASE \E i \in Ranks : /\ r = [to |-> i, degraded |-> FALSE, held |-> FALSE]
                            /\ \A j \in 1 .. i - 1 : said[c][j] = "unknown"
  BY <1>3, TimesAssumption DEF Answers, Skipped, Ranks
<1> QED BY <1>1, <1>2, <1>3 DEF WriteAnswers

(* A search passes over only remotes that said no or failed, and says when   *)
(* one failed.                                                               *)
LEMMA ReadAnswersFacts ==
  ASSUME TypeOK, NEW c \in Calls, NEW r \in ReadAnswers(said[c])
  PROVE  /\ r \in Answers /\ ~r.held
         /\ \A j \in Skipped(r) : said[c][j] = "unknown" \/ (r.degraded /\ said[c][j] = "error")
<1>1. CASE /\ r = [to |-> 0, degraded |-> Failing(said[c], Remotes), held |-> FALSE]
           /\ \A j \in Ranks : said[c][j] \in {"unknown", "error"}
  BY <1>1, TimesAssumption DEF Answers, Skipped, Ranks, Failing
<1>2. CASE \E i \in Ranks : /\ r = [to |-> i, degraded |-> Failing(said[c], i - 1), held |-> FALSE]
                            /\ \A j \in 1 .. i - 1 : said[c][j] \in {"unknown", "error"}
  BY <1>2, TimesAssumption DEF Answers, Skipped, Ranks, Failing
<1> QED BY <1>1, <1>2 DEF ReadAnswers

(* What both kinds of call get, and how recent what they passed over is.     *)
LEMMA ResolutionsFacts ==
  ASSUME RoutingInv, NEW c \in Calls, NEW r \in Resolutions(c)
  PROVE  /\ r \in Answers
         /\ r.held => c \in Writes /\ r.to = 0 /\ \E j \in Ranks : failed[j] <= MaxAsk
         /\ ~r.held /\ c \in Writes => ~r.degraded
         /\ ~r.held => \A j \in Skipped(r) :
                         unowned[j] <= MaxAsk \/ (r.degraded /\ failed[j] <= MaxAsk)
<1>1. /\ r \in Answers
      /\ r.held => c \in Writes /\ r.to = 0 /\ \E j \in Ranks : said[c][j] = "error"
      /\ ~r.held /\ c \in Writes => ~r.degraded
      /\ ~r.held => \A j \in Skipped(r) : said[c][j] = "unknown" \/ (r.degraded /\ said[c][j] = "error")
  BY WriteAnswersFacts, ReadAnswersFacts DEF Resolutions, RoutingInv
<1>2. \A j \in Ranks : /\ said[c][j] = "unknown" => unowned[j] <= MaxAsk
                       /\ said[c][j] = "error" => failed[j] <= MaxAsk
  BY TimesAssumption DEF RoutingInv, TypeOK, SaidRecently, Long, Short
<1>3. Skipped(r) \subseteq Ranks
  BY <1>1, TimesAssumption DEF Answers, Skipped, Ranks
<1> QED BY <1>1, <1>2, <1>3

-----------------------------------------------------------------------------
(* The answers that name no remote are answers.                              *)
LEMMA NoRemote == Held \in Answers /\ Miss \in Answers /\ ~Miss.held
BY TimesAssumption DEF Held, Miss, Answers

(* What the lengths of the lifetimes give.                                   *)
LEMMA Lifetimes == Long \in Nat /\ Short \in Nat /\ MaxAsk \in Nat /\ MissTTL \in Nat \ {0}
BY TimesAssumption DEF Long, Short

(* Nothing is cached and nobody asks when the server starts.                 *)
LEMMA RoutingInit == Init => RoutingInv
<1> SUFFICES ASSUME Init PROVE RoutingInv
  OBVIOUS
<1>1. TypeOK
  BY NoRemote, TimesAssumption DEF Init, TypeOK, Silent, Long, Short
<1>2. SaidRecently /\ CachedRecently /\ HeldRecently /\ RefusedSomewhere /\ UnownedNow
  BY DEF Init, UnownedNow, SaidRecently, CachedRecently, HeldRecently, RefusedSomewhere, Silent
<1> QED BY <1>1, <1>2 DEF RoutingInv

(* With the cache unchanged, ages that only get younger keep what it tells.  *)
LEMMA CacheKept ==
  ASSUME RoutingInv, UNCHANGED cache,
         unowned' \in [Ranks -> Nat], failed' \in [Ranks -> Nat],
         \A j \in Ranks : unowned'[j] <= unowned[j] /\ failed'[j] <= failed[j]
  PROVE  CachedRecently' /\ HeldRecently'
<1> PassedOver \subseteq Ranks
  BY TimesAssumption DEF RoutingInv, TypeOK, PassedOver, Answers, Ranks
<1> KeptFor(cached) \in Nat
  BY TimesAssumption DEF KeptFor
<1>1. CachedRecently'
  BY TimesAssumption DEF RoutingInv, TypeOK, CachedRecently, PassedOver, KeptFor, cache, Long, Short
<1>2. HeldRecently'
  BY TimesAssumption DEF RoutingInv, TypeOK, HeldRecently, cache, Long, Short
<1> QED BY <1>1, <1>2

(* A call that begins, or looks in the cache, leaves the cache and the ages  *)
(* alone.                                                                    *)
LEMMA BeginInv ==
  ASSUME RoutingInv, NEW c \in Calls, Begin(c)
  PROVE  RoutingInv'
<1> USE DEF RoutingInv, Begin, Got, Goto, cache, ages
<1>1. TypeOK'
  BY NoRemote DEF TypeOK
<1>2. SaidRecently' /\ RefusedSomewhere' /\ UnownedNow'
  BY DEF SaidRecently, RefusedSomewhere, UnownedNow, TypeOK
<1>3. CachedRecently' /\ HeldRecently'
  BY DEF CachedRecently, HeldRecently, PassedOver
<1> QED BY <1>1, <1>2, <1>3

(* The same for the look in the cache.                                       *)
LEMMA LookInv ==
  ASSUME RoutingInv, NEW c \in Calls, Look(c)
  PROVE  RoutingInv'
<1> USE DEF RoutingInv, Look, Got, Goto, cache, ages
<1>1. TypeOK'
  BY DEF TypeOK
<1>2. SaidRecently' /\ RefusedSomewhere' /\ UnownedNow'
  BY DEF SaidRecently, RefusedSomewhere, UnownedNow, TypeOK
<1>3. CachedRecently' /\ HeldRecently'
  BY DEF CachedRecently, HeldRecently, PassedOver
<1> QED BY <1>1, <1>2, <1>3

(* A remote answers: it says no only if it does not list the repository.     *)
LEMMA AskInv ==
  ASSUME RoutingInv, NEW c \in Calls, NEW i \in Ranks, Ask(c, i)
  PROVE  RoutingInv'
<1> USE DEF RoutingInv
<1>1. pc[c] = "asking" /\ UNCHANGED <<owns, cache, pc, asked, answer, unowned>>
  BY DEF Ask
<1>2. \/ \E a \in {"knows", "unknown"} :
           /\ said' = [said EXCEPT ![c][i] = a] /\ UNCHANGED failed
           /\ a = "unknown" => i \notin owns
      \/ said' = [said EXCEPT ![c][i] = "error"] /\ failed' = [failed EXCEPT ![i] = 0]
  BY DEF Ask
<1>3. /\ asked \in [Calls -> Nat]
      /\ unowned \in [Ranks -> Nat] /\ failed \in [Ranks -> Nat] /\ failed' \in [Ranks -> 0 .. Short]
      /\ \A j \in Ranks : failed'[j] <= failed[j]
  <2>1. /\ asked \in [Calls -> Nat]
        /\ unowned \in [Ranks -> Nat] /\ failed \in [Ranks -> 0 .. Short]
    BY Lifetimes DEF TypeOK
  <2>2. failed' \in [Ranks -> 0 .. Short]
    BY <1>2, <2>1, Lifetimes
  <2>3. \A j \in Ranks : failed'[j] <= failed[j]
    BY <1>2, <2>1, Lifetimes
  <2> QED BY <2>1, <2>2, <2>3, Lifetimes
<1>4. TypeOK'
  <2>1. said' \in [Calls -> [Ranks -> {"none", "knows", "unknown", "error"}]]
    <3>1. PICK a \in {"knows", "unknown", "error"} : said' = [said EXCEPT ![c][i] = a]
      BY <1>2
    <3>2. said \in [Calls -> [Ranks -> {"none", "knows", "unknown", "error"}]]
      BY DEF TypeOK
    <3> QED BY <3>1, <3>2
  <2> QED BY <1>1, <1>3, <2>1 DEF TypeOK, cache
<1>5. SaidRecently'
  <2> SUFFICES ASSUME NEW d \in Calls, NEW j \in Ranks PROVE
        /\ pc[d] # "asking" => said'[d] = Silent
        /\ said'[d][j] = "unknown" => unowned[j] <= asked[d]
        /\ said'[d][j] = "error" => failed'[j] <= asked[d]
    BY <1>1 DEF SaidRecently
  <2>1. asked[d] \in Nat /\ unowned[j] \in Nat /\ failed[j] \in Nat /\ failed'[j] \in Nat
        /\ failed'[j] <= failed[j]
    BY <1>3, TimesAssumption DEF Short
  <2>2. /\ pc[d] # "asking" => said[d] = Silent
        /\ said[d][j] = "unknown" => unowned[j] <= asked[d]
        /\ said[d][j] = "error" => failed[j] <= asked[d]
    BY DEF SaidRecently
  <2>3. CASE d # c \/ j # i
    <3>1. said'[d][j] = said[d][j] /\ (d # c => said'[d] = said[d])
      BY <1>2, <2>3 DEF TypeOK
    <3> QED BY <1>1, <2>1, <2>2, <3>1
  <2>4. CASE d = c /\ j = i
    <3>1. /\ said'[c][i] = "unknown" => unowned[i] = 0
          /\ said'[c][i] = "error" => failed'[i] = 0
      BY <1>2 DEF TypeOK, UnownedNow
    <3> QED BY <1>1, <2>1, <2>4, <3>1
  <2> QED BY <2>3, <2>4
<1>6. UnownedNow' /\ RefusedSomewhere'
  BY <1>1 DEF UnownedNow, RefusedSomewhere
<1>7. CachedRecently' /\ HeldRecently'
  <2>1. /\ unowned' \in [Ranks -> Nat] /\ failed' \in [Ranks -> Nat]
        /\ \A j \in Ranks : unowned'[j] <= unowned[j] /\ failed'[j] <= failed[j]
    BY <1>1, <1>3, TimesAssumption DEF Short
  <2> QED BY <1>1, <2>1, CacheKept
<1> QED BY <1>4, <1>5, <1>6, <1>7

(* What was just resolved is as recent as the call, and so is what is kept.  *)
LEMMA ResolveInv ==
  ASSUME RoutingInv, NEW c \in Calls, Resolve(c)
  PROVE  RoutingInv'
<1> USE DEF RoutingInv
<1>1. PICK r \in Resolutions(c) : Got(c, r) /\ (Keep(r) \/ UNCHANGED cache)
  BY DEF Resolve
<1>2. /\ r \in Answers
      /\ r.held => \E j \in Ranks : failed[j] <= MaxAsk
      /\ ~r.held => \A j \in Skipped(r) :
                      unowned[j] <= MaxAsk \/ (r.degraded /\ failed[j] <= MaxAsk)
  BY ResolutionsFacts
<1>3. /\ said' = [said EXCEPT ![c] = Silent] /\ asked' = [asked EXCEPT ![c] = 0]
      /\ UNCHANGED <<owns, ages>>
  BY DEF Resolve
<1>4. TypeOK'
  <2>1. KeptFor(r) \in 0 .. TTL
    BY TimesAssumption DEF KeptFor
  <2>2. pc' \in [Calls -> {"idle", "looking", "asking", "answered", "refused"}]
        /\ answer' \in [Calls -> Answers]
    BY <1>1, <1>2 DEF Got, Goto, TypeOK
  <2>3. Silent \in [Ranks -> {"none", "knows", "unknown", "error"}]
    BY DEF Silent
  <2>4. said' \in [Calls -> [Ranks -> {"none", "knows", "unknown", "error"}]]
        /\ asked' \in [Calls -> 0 .. MaxAsk]
    BY <1>3, <2>3, TimesAssumption DEF TypeOK
  <2>5. cached' \in Answers /\ ~cached'.held /\ cacheLeft' \in 0 .. TTL /\ holdLeft' \in 0 .. MissTTL
    BY <1>1, <1>2, <2>1, TimesAssumption DEF Keep, cache, TypeOK
  <2> QED BY <1>3, <2>2, <2>4, <2>5 DEF ages, TypeOK
<1>5. SaidRecently' /\ UnownedNow' /\ RefusedSomewhere'
  <2>1. \A j \in Ranks : Silent[j] = "none"
    BY DEF Silent
  <2> QED BY <1>1, <1>3, <2>1 DEF SaidRecently, UnownedNow, RefusedSomewhere, Got, Goto, ages, TypeOK
<1>6. CachedRecently' /\ HeldRecently'
  <2>1. CASE UNCHANGED cache
    BY <1>3, <2>1, CacheKept, TimesAssumption DEF ages, TypeOK, Long, Short
  <2>2. CASE Keep(r) /\ r.held
    BY <1>2, <1>3, <2>2, TimesAssumption
    DEF Keep, ages, CachedRecently, PassedOver, HeldRecently, KeptFor, Short, TypeOK
  <2>3. CASE Keep(r) /\ ~r.held
    <3>1. cached' = r /\ cacheLeft' = KeptFor(r) /\ UNCHANGED holdLeft
      BY <2>3 DEF Keep
    <3>2. KeptFor(r) \in Int /\ MaxAsk \in Int /\ MaxAsk + KeptFor(r) - KeptFor(r) = MaxAsk
      BY TimesAssumption DEF KeptFor
    <3>3. PassedOver' = Skipped(r)
      BY <3>1 DEF PassedOver, Skipped
    <3>4. CachedRecently'
      BY <1>2, <1>3, <2>3, <3>1, <3>2, <3>3 DEF CachedRecently, KeptFor, ages
    <3>5. HeldRecently'
      BY <1>3, <3>1 DEF HeldRecently, ages
    <3> QED BY <3>4, <3>5
  <2> QED BY <1>1, <2>1, <2>2, <2>3
<1> QED BY <1>4, <1>5, <1>6

(* What a call does after it used its answer only drops cache entries.       *)
LEMMA UseInv ==
  ASSUME RoutingInv, NEW c \in Calls, Use(c) \/ Refused(c)
  PROVE  RoutingInv'
<1> USE DEF RoutingInv
<1>1. /\ Drop \/ UNCHANGED <<cached, cacheLeft>>
      /\ holdLeft' = 0 \/ UNCHANGED holdLeft
  BY DEF Use, Refused, Forget, ForgetRead, Drop, cache
<1>2. /\ UNCHANGED <<owns, said, asked, ages>>
      /\ \/ Goto(c, "idle") /\ answer' = [answer EXCEPT ![c] = Miss]
         \/ Goto(c, "refused") /\ UNCHANGED answer /\ c \in Writes /\ answer[c].to # 0
      /\ pc[c] = "answered"
  BY DEF Use, Refused
<1>3. TypeOK'
  <2>1. cached' \in Answers /\ ~cached'.held /\ cacheLeft' \in 0 .. TTL /\ holdLeft' \in 0 .. MissTTL
    BY <1>1, NoRemote, TimesAssumption DEF TypeOK, Drop
  <2>2. pc' \in [Calls -> {"idle", "looking", "asking", "answered", "refused"}]
        /\ answer' \in [Calls -> Answers]
    BY <1>2, NoRemote DEF TypeOK, Goto
  <2> QED BY <1>2, <2>1, <2>2 DEF TypeOK, ages
<1>4. SaidRecently' /\ UnownedNow' /\ RefusedSomewhere'
  BY <1>2 DEF SaidRecently, UnownedNow, RefusedSomewhere, TypeOK, Goto, ages
<1>5. CachedRecently' /\ HeldRecently'
  <2>1. CachedRecently'
    BY <1>1, <1>2 DEF Drop, CachedRecently, PassedOver, KeptFor, ages
  <2>2. HeldRecently'
    BY <1>1, <1>2 DEF HeldRecently, ages
  <2> QED BY <2>1, <2>2
<1> QED BY <1>3, <1>4, <1>5

(* A hold begins when the remote has just refused.                           *)
LEMMA HoldInv ==
  ASSUME RoutingInv, NEW c \in Calls, Hold(c)
  PROVE  RoutingInv'
<1> USE DEF RoutingInv
<1>1. /\ pc[c] = "refused" /\ pc' = [pc EXCEPT ![c] = "idle"]
      /\ holdLeft' = MissTTL /\ answer' = [answer EXCEPT ![c] = Miss]
      /\ UNCHANGED <<owns, cached, cacheLeft, said, asked, unowned>>
  BY DEF Hold, Goto
<1>2. PICK i \in Ranks : failed' = [failed EXCEPT ![i] = 0]
  <2>1. answer[c].to \in Ranks
    BY <1>1, TimesAssumption DEF RefusedSomewhere, TypeOK, Answers, Ranks
  <2> QED BY <2>1 DEF Hold
<1>3. TypeOK'
  <2>1. failed \in [Ranks -> 0 .. Short]
    BY DEF TypeOK
  <2>2. failed' \in [Ranks -> 0 .. Short]
    BY <1>2, <2>1, Lifetimes
  <2>3. holdLeft' \in 0 .. MissTTL
    BY <1>1, Lifetimes
  <2> QED BY <1>1, <2>2, <2>3, NoRemote DEF TypeOK
<1>4. /\ unowned' \in [Ranks -> Nat] /\ failed' \in [Ranks -> Nat]
      /\ \A j \in Ranks : failed'[j] <= failed[j]
      /\ failed'[i] = 0
  BY <1>1, <1>2, Lifetimes DEF TypeOK
<1>5. SaidRecently'
  <2>1. asked \in [Calls -> Nat] /\ failed \in [Ranks -> Nat]
    BY Lifetimes DEF TypeOK
  <2> QED BY <1>1, <1>4, <2>1 DEF SaidRecently, TypeOK
<1>6. UnownedNow' /\ RefusedSomewhere'
  BY <1>1 DEF UnownedNow, RefusedSomewhere, TypeOK
<1>7. HeldRecently'
  BY <1>1, <1>4, Lifetimes DEF HeldRecently, Short
<1>8. CachedRecently'
  <2>1. PassedOver \subseteq Ranks /\ PassedOver' = PassedOver
    BY <1>1, TimesAssumption DEF TypeOK, PassedOver, Answers, Ranks
  <2>2. KeptFor(cached) \in Nat /\ cacheLeft \in Nat /\ failed \in [Ranks -> Nat]
    BY Lifetimes, TimesAssumption DEF KeptFor, TypeOK
  <2> QED BY <1>1, <1>4, <2>1, <2>2, Lifetimes DEF CachedRecently, KeptFor
<1> QED BY <1>3, <1>5, <1>6, <1>7, <1>8

(* A remote lists or drops the repository: nothing was ever more recent.     *)
LEMMA ChangeInv ==
  ASSUME RoutingInv, NEW i \in Ranks, Change(i)
  PROVE  RoutingInv'
<1> USE DEF RoutingInv
<1>1. /\ unowned' = [unowned EXCEPT ![i] = 0] /\ UNCHANGED <<cache, calls, failed>>
      /\ owns' \subseteq Ranks /\ \A j \in Ranks : j # i => (j \in owns <=> j \in owns')
  BY DEF Change, TypeOK
<1>2. /\ unowned \in [Ranks -> 0 .. Long] /\ failed \in [Ranks -> 0 .. Short]
      /\ asked \in [Calls -> Nat]
  BY Lifetimes DEF TypeOK
<1>3. unowned' \in [Ranks -> 0 .. Long] /\ \A j \in Ranks : unowned'[j] <= unowned[j]
  BY <1>1, <1>2, Lifetimes
<1>4. TypeOK'
  BY <1>1, <1>3 DEF TypeOK, cache, calls
<1>5. SaidRecently'
  BY <1>1, <1>2, <1>3, Lifetimes DEF SaidRecently, calls
<1>6. UnownedNow' /\ RefusedSomewhere'
  BY <1>1, <1>2 DEF UnownedNow, RefusedSomewhere, calls
<1>7. CachedRecently' /\ HeldRecently'
  BY <1>1, <1>2, <1>3, Lifetimes, CacheKept
<1> QED BY <1>4, <1>5, <1>6, <1>7

(* Time passes: every age grows by at most the tick that the entry loses and *)
(* the asking calls gain.                                                    *)
LEMMA TickInv ==
  ASSUME RoutingInv, Tick
  PROVE  RoutingInv'
<1> USE DEF RoutingInv
<1>1. /\ unowned \in [Ranks -> 0 .. Long] /\ failed \in [Ranks -> 0 .. Short]
      /\ asked \in [Calls -> 0 .. MaxAsk]
      /\ cacheLeft \in 0 .. TTL /\ holdLeft \in 0 .. MissTTL
  BY DEF TypeOK
<1>2. /\ unowned' \in [Ranks -> 0 .. Long] /\ failed' \in [Ranks -> 0 .. Short]
      /\ \A j \in Ranks : unowned'[j] <= unowned[j] + 1 /\ failed'[j] <= failed[j] + 1
  BY <1>1, Lifetimes DEF Tick, Older
<1>3. /\ asked' \in [Calls -> 0 .. MaxAsk]
      /\ \A c \in Calls : pc[c] = "asking" => asked'[c] = asked[c] + 1
  BY <1>1, Lifetimes DEF Tick
<1>4. /\ cacheLeft' = Fewer(cacheLeft) /\ holdLeft' = Fewer(holdLeft)
      /\ cached' = IF cacheLeft > 1 THEN cached ELSE Miss
      /\ UNCHANGED <<owns, pc, said, answer>>
  BY DEF Tick
<1>5. TypeOK'
  <2>1. cacheLeft' \in 0 .. TTL /\ holdLeft' \in 0 .. MissTTL
    BY <1>1, <1>4, TimesAssumption DEF Fewer
  <2> QED BY <1>2, <1>3, <1>4, <2>1, NoRemote DEF TypeOK
<1>6. SaidRecently'
  <2>1. \A j \in Ranks : Silent[j] = "none"
    BY DEF Silent
  <2> QED BY <1>1, <1>2, <1>3, <1>4, <2>1, Lifetimes DEF SaidRecently
<1>7. UnownedNow'
  BY <1>4 DEF UnownedNow, Tick
<1>8. RefusedSomewhere'
  BY <1>4 DEF RefusedSomewhere
<1>9. CachedRecently'
  <2> SUFFICES ASSUME cacheLeft > 1, NEW j \in PassedOver
               PROVE  \/ unowned'[j] <= MaxAsk + KeptFor(cached) - cacheLeft'
                      \/ cached.degraded /\ failed'[j] <= MaxAsk + KeptFor(cached) - cacheLeft'
    BY <1>1, <1>4, Lifetimes DEF CachedRecently, PassedOver, KeptFor, Fewer
  <2>1. j \in Ranks
    BY TimesAssumption DEF TypeOK, PassedOver, Answers, Ranks
  <2>2. KeptFor(cached) \in Nat
    BY TimesAssumption DEF KeptFor
  <2>3. \/ unowned[j] <= MaxAsk + KeptFor(cached) - cacheLeft
        \/ cached.degraded /\ failed[j] <= MaxAsk + KeptFor(cached) - cacheLeft
    BY <1>1 DEF CachedRecently
  <2>4. cacheLeft' = cacheLeft - 1
    BY <1>1, <1>4 DEF Fewer
  <2> QED BY <1>1, <1>2, <2>1, <2>2, <2>3, <2>4, Lifetimes
<1>10. HeldRecently'
  BY <1>1, <1>2, <1>4, Lifetimes DEF HeldRecently, Fewer
<1> QED BY <1>5, <1>6, <1>7, <1>8, <1>9, <1>10

-----------------------------------------------------------------------------
(* The invariant of every behaviour.                                         *)
LEMMA RoutingStep == RoutingInv /\ [Next]_vars => RoutingInv'
<1> SUFFICES ASSUME RoutingInv, [Next]_vars PROVE RoutingInv'
  OBVIOUS
<1>1. ASSUME NEW c \in Calls, Begin(c) PROVE RoutingInv'
  BY <1>1, BeginInv
<1>2. ASSUME NEW c \in Calls, Look(c) PROVE RoutingInv'
  BY <1>2, LookInv
<1>3. ASSUME NEW c \in Calls, NEW i \in Ranks, Ask(c, i) PROVE RoutingInv'
  BY <1>3, AskInv
<1>4. ASSUME NEW c \in Calls, Resolve(c) PROVE RoutingInv'
  BY <1>4, ResolveInv
<1>5. ASSUME NEW c \in Calls, Use(c) \/ Refused(c) PROVE RoutingInv'
  BY <1>5, UseInv
<1>6. ASSUME NEW c \in Calls, Hold(c) PROVE RoutingInv'
  BY <1>6, HoldInv
<1>7. ASSUME NEW i \in Ranks, Change(i) PROVE RoutingInv'
  BY <1>7, ChangeInv
<1>8. CASE Tick
  BY <1>8, TickInv
<1>9. CASE UNCHANGED vars
  BY <1>9 DEF vars, cache, calls, ages, RoutingInv, TypeOK, UnownedNow, RefusedSomewhere,
              SaidRecently, CachedRecently, HeldRecently, PassedOver, KeptFor
<1> QED BY <1>1, <1>2, <1>3, <1>4, <1>5, <1>6, <1>7, <1>8, <1>9 DEF Next

(* What the cache and the calls hold tells how old it is, in every state.    *)
THEOREM RoutingInvariant == Spec => []RoutingInv
BY RoutingInit, RoutingStep, PTL DEF Spec

(* The variables keep their types.                                           *)
THEOREM TypeCorrect == Spec => []TypeOK
<1>1. RoutingInv => TypeOK
  BY DEF RoutingInv
<1> QED BY <1>1, RoutingInvariant, PTL

-----------------------------------------------------------------------------
(* A call gets its answer by finding a hold, in the cache, or from the       *)
(* remotes.                                                                  *)
LEMMA HowAnswered ==
  ASSUME RoutingInv, Next, NEW c \in Calls, Answered(c)
  PROVE  \/ Begin(c) /\ Holding(c) /\ answer'[c] = Held /\ UNCHANGED ages
         \/ Look(c) /\ Usable(c) /\ answer'[c] = cached /\ UNCHANGED ages
         \/ \E r \in Resolutions(c) : answer'[c] = r /\ UNCHANGED ages
<1> USE DEF RoutingInv, Answered
<1>1. ASSUME NEW d \in Calls, Begin(d)
      PROVE  d = c /\ Begin(c) /\ Holding(c) /\ answer'[c] = Held /\ UNCHANGED ages
  BY <1>1 DEF Begin, Got, Goto, TypeOK
<1>2. ASSUME NEW d \in Calls, Look(d)
      PROVE  d = c /\ Look(c) /\ Usable(c) /\ answer'[c] = cached /\ UNCHANGED ages
  BY <1>2 DEF Look, Got, Goto, TypeOK
<1>3. ASSUME NEW d \in Calls, Resolve(d)
      PROVE  \E r \in Resolutions(c) : answer'[c] = r /\ UNCHANGED ages
  <2>1. d = c
    BY <1>3 DEF Resolve, Got, Goto, TypeOK
  <2> QED BY <1>3, <2>1 DEF Resolve, Got, Goto, TypeOK
<1>4. ASSUME NEW d \in Calls, Use(d) \/ Refused(d) \/ Hold(d) PROVE FALSE
  BY <1>4 DEF Use, Refused, Hold, Goto, TypeOK
<1>5. ASSUME NEW d \in Calls, NEW i \in Ranks, Ask(d, i) PROVE FALSE
  BY <1>5 DEF Ask
<1>6. ASSUME NEW i \in Ranks, Change(i) PROVE FALSE
  BY <1>6 DEF Change, calls
<1>7. ~Tick
  BY DEF Tick
<1> QED BY <1>1, <1>2, <1>3, <1>4, <1>5, <1>6, <1>7 DEF Next

(* How old what an answer passed over can be, of either kind of call.        *)
LEMMA AnswersAreRecent ==
  ASSUME RoutingInv, Next, NEW c \in Calls, Answered(c)
  PROVE  /\ answer'[c] \in Answers
         /\ answer'[c].held =>
              /\ c \in Writes /\ answer'[c].to = 0
              /\ \E j \in Ranks : failed'[j] < Short
         /\ ~answer'[c].held /\ c \in Writes => ~answer'[c].degraded
         /\ ~answer'[c].held =>
              \A j \in Skipped(answer'[c]) :
                \/ unowned'[j] < MaxAsk + KeptFor(answer'[c])
                \/ answer'[c].degraded /\ failed'[j] < Short
<1> USE DEF RoutingInv
<1>1. unowned \in [Ranks -> Nat] /\ failed \in [Ranks -> Nat] /\ cacheLeft \in Nat /\ holdLeft \in Nat
  BY Lifetimes DEF TypeOK
<1>2. CASE Begin(c) /\ Holding(c) /\ answer'[c] = Held /\ UNCHANGED ages
  <2>1. c \in Writes /\ holdLeft > 0
    BY <1>2 DEF Holding
  <2>2. \E j \in Ranks : failed[j] < Short
    BY <1>1, <2>1, Lifetimes DEF HeldRecently
  <2> QED BY <1>2, <2>1, <2>2, NoRemote DEF Held, ages
<1>3. CASE Look(c) /\ Usable(c) /\ answer'[c] = cached /\ UNCHANGED ages
  <2>1. cacheLeft > 0 /\ (c \in Writes => ~cached.degraded) /\ cached \in Answers /\ ~cached.held
    BY <1>3, CallsAssumption DEF Usable, TypeOK
  <2>2. PassedOver = Skipped(cached) /\ PassedOver \subseteq Ranks
    BY <2>1, TimesAssumption DEF PassedOver, Skipped, Answers, Ranks
  <2>3. KeptFor(cached) \in Nat /\ (cached.degraded => MaxAsk + KeptFor(cached) = Short)
    BY TimesAssumption DEF KeptFor, Short
  <2>4. ASSUME NEW j \in Skipped(cached)
        PROVE  \/ unowned[j] < MaxAsk + KeptFor(cached)
               \/ cached.degraded /\ failed[j] < Short
    BY <1>1, <2>1, <2>2, <2>3, Lifetimes DEF CachedRecently
  <2> QED BY <1>3, <2>1, <2>4 DEF ages
<1>4. CASE \E r \in Resolutions(c) : answer'[c] = r /\ UNCHANGED ages
  <2> DEFINE r == answer'[c]
  <2>1. r \in Resolutions(c) /\ UNCHANGED ages
    BY <1>4
  <2>2. /\ r \in Answers
        /\ r.held => c \in Writes /\ r.to = 0 /\ \E j \in Ranks : failed[j] <= MaxAsk
        /\ ~r.held /\ c \in Writes => ~r.degraded
        /\ ~r.held => \A j \in Skipped(r) :
                        unowned[j] <= MaxAsk \/ (r.degraded /\ failed[j] <= MaxAsk)
    BY <2>1, ResolutionsFacts
  <2>3. Skipped(r) \subseteq Ranks
    BY <2>2, TimesAssumption DEF Answers, Skipped, Ranks
  <2>4. KeptFor(r) \in Nat \ {0} /\ Short > MaxAsk
    BY TimesAssumption DEF KeptFor, Short
  <2> HIDE DEF r
  <2>5. \A j \in Ranks : /\ unowned[j] <= MaxAsk => unowned[j] < MaxAsk + KeptFor(r)
                         /\ failed[j] <= MaxAsk => failed[j] < Short
    BY <1>1, <2>4, Lifetimes
  <2>6. UNCHANGED <<unowned, failed>>
    BY <2>1 DEF ages
  <2>7. r.held => \E j \in Ranks : failed'[j] < Short
    BY <2>2, <2>5, <2>6
  <2>8. ~r.held => \A j \in Skipped(r) :
                     \/ unowned'[j] < MaxAsk + KeptFor(r)
                     \/ r.degraded /\ failed'[j] < Short
    BY <2>2, <2>3, <2>5, <2>6
  <2> QED BY <2>2, <2>7, <2>8 DEF r
<1> QED BY <1>2, <1>3, <1>4, HowAnswered

(* A write never passes over a remote that may own the repository.           *)
THEOREM WritesNeverPassOver == Spec => WriteNeverPassesOver
<1>1. ASSUME RoutingInv, [Next]_vars, ~UNCHANGED vars, NEW c \in Writes, Answered(c),
             NEW j \in 1 .. answer'[c].to - 1
      PROVE  unowned'[j] < Long
  <2>1. c \in Calls /\ Next
    BY <1>1 DEF Calls
  <2>2. answer'[c].to # 0
    BY <1>1, <2>1, AnswersAreRecent, TimesAssumption DEF Answers
  <2>3. ~answer'[c].held /\ ~answer'[c].degraded
    BY <1>1, <2>1, <2>2, AnswersAreRecent
  <2>4. j \in Skipped(answer'[c]) /\ MaxAsk + KeptFor(answer'[c]) = Long
    BY <1>1, <2>2, <2>3 DEF Skipped, KeptFor, Long
  <2> QED BY <1>1, <2>1, <2>3, <2>4, AnswersAreRecent
<1>2. RoutingInv /\ [Next]_vars =>
        [\A c \in Writes : Answered(c) =>
           \A j \in 1 .. answer'[c].to - 1 : unowned'[j] < Long]_vars
  BY <1>1
<1> QED BY RoutingInvariant, <1>2, PTL DEF Spec, WriteNeverPassesOver

(* A search goes below a remote only while that one is, or was a short time  *)
(* ago, without the repository or without an answer.                         *)
THEOREM SearchesPreferHigher == Spec => SearchPrefersHigher
<1>1. ASSUME RoutingInv, [Next]_vars, ~UNCHANGED vars, NEW c \in Calls, Answered(c),
             NEW j \in 1 .. answer'[c].to - 1
      PROVE  unowned'[j] < Long \/ failed'[j] < Short
  <2>1. Next /\ answer'[c] \in Answers
    BY <1>1, AnswersAreRecent
  <2>2. answer'[c].to # 0 /\ ~answer'[c].held
    BY <1>1, <2>1, AnswersAreRecent, TimesAssumption DEF Answers
  <2>3. j \in Skipped(answer'[c]) /\ j \in Ranks
    BY <1>1, <2>1, <2>2, TimesAssumption DEF Skipped, Answers, Ranks
  <2>4. unowned'[j] < MaxAsk + KeptFor(answer'[c]) \/ failed'[j] < Short
    BY <1>1, <2>1, <2>2, <2>3, AnswersAreRecent
  <2>5. MaxAsk + KeptFor(answer'[c]) <= Long
    BY TimesAssumption DEF KeptFor, Long
  <2>6. unowned'[j] \in Nat /\ KeptFor(answer'[c]) \in Nat
    <3>1. RoutingInv'
      BY <1>1, RoutingStep
    <3> QED BY <2>3, <3>1, Lifetimes, TimesAssumption DEF RoutingInv, TypeOK, KeptFor
  <2> QED BY <2>4, <2>5, <2>6, Lifetimes
<1>2. RoutingInv /\ [Next]_vars =>
        [\A c \in Calls : Answered(c) =>
           \A j \in 1 .. answer'[c].to - 1 : unowned'[j] < Long \/ failed'[j] < Short]_vars
  BY <1>1
<1> QED BY RoutingInvariant, <1>2, PTL DEF Spec, SearchPrefersHigher

(* A miss and a hold are believed for a short time only.                     *)
THEOREM MissesStayShort == Spec => MissesAreShort
<1>1. ASSUME RoutingInv, [Next]_vars, ~UNCHANGED vars, NEW c \in Calls, Answered(c),
             answer'[c].to = 0
      PROVE  IF answer'[c].held
             THEN \E j \in Ranks : failed'[j] < Short
             ELSE \A j \in Ranks : \/ unowned'[j] < Short
                                   \/ c \in Searches /\ failed'[j] < Short
  <2>1. Next
    BY <1>1
  <2>2. CASE answer'[c].held
    BY <1>1, <2>1, <2>2, AnswersAreRecent
  <2>3. CASE ~answer'[c].held
    <3>1. Skipped(answer'[c]) = Ranks /\ MaxAsk + KeptFor(answer'[c]) = Short
      BY <1>1 DEF Skipped, KeptFor, Short
    <3>2. answer'[c].degraded => c \in Searches
      BY <1>1, <2>1, <2>3, AnswersAreRecent DEF Calls
    <3>3. \A j \in Ranks : \/ unowned'[j] < Short
                           \/ answer'[c].degraded /\ failed'[j] < Short
      BY <1>1, <2>1, <2>3, <3>1, AnswersAreRecent
    <3> QED BY <2>3, <3>2, <3>3
  <2> QED BY <2>2, <2>3
<1>2. RoutingInv /\ [Next]_vars =>
        [\A c \in Calls : Answered(c) /\ answer'[c].to = 0 =>
           IF answer'[c].held
           THEN \E j \in Ranks : failed'[j] < Short
           ELSE \A j \in Ranks : \/ unowned'[j] < Short
                                 \/ c \in Searches /\ failed'[j] < Short]_vars
  BY <1>1
<1> QED BY RoutingInvariant, <1>2, PTL DEF Spec, MissesAreShort

(* No search lifts a hold on writes.                                         *)
THEOREM SearchesKeepHold == Spec => SearchKeepsHold
<1>1. ASSUME RoutingInv, [Next]_vars, ~UNCHANGED vars, holdLeft' < holdLeft
      PROVE  \/ holdLeft' = holdLeft - 1 /\ UNCHANGED pc
             \/ \E c \in Writes : pc[c] = "answered" /\ pc'[c] # "answered"
  <2>1. holdLeft \in 0 .. MissTTL
    BY <1>1 DEF RoutingInv, TypeOK
  <2>2. holdLeft' # holdLeft /\ holdLeft' # MissTTL
    BY <1>1, <2>1, Lifetimes
  <2>3. CASE Tick
    BY <2>1, <2>2, <2>3, Lifetimes DEF Tick, Fewer
  <2>4. ASSUME NEW c \in Calls, Use(c) \/ Refused(c)
        PROVE  \E d \in Writes : pc[d] = "answered" /\ pc'[d] # "answered"
    <3>1. c \in Writes
      BY <2>2, <2>4 DEF Use, Refused, ForgetRead, cache
    <3>2. pc[c] = "answered" /\ (Goto(c, "idle") \/ Goto(c, "refused"))
      BY <2>4 DEF Use, Refused
    <3> QED BY <1>1, <3>1, <3>2 DEF Goto, RoutingInv, TypeOK, Calls
  <2>5. ASSUME NEW c \in Calls, Begin(c) \/ Look(c) \/ Resolve(c) \/ Hold(c) \/ \E i \in Ranks : Ask(c, i)
        PROVE  FALSE
    BY <2>2, <2>5 DEF Begin, Look, Resolve, Keep, Hold, Ask, cache
  <2>6. ASSUME NEW i \in Ranks, Change(i) PROVE FALSE
    BY <2>2, <2>6 DEF Change, cache
  <2> QED BY <1>1, <2>3, <2>4, <2>5, <2>6 DEF Next
<1>2. RoutingInv /\ [Next]_vars =>
        [holdLeft' < holdLeft =>
           \/ holdLeft' = holdLeft - 1 /\ UNCHANGED pc
           \/ \E c \in Writes : pc[c] = "answered" /\ pc'[c] # "answered"]_vars
  BY <1>1
<1> QED BY RoutingInvariant, <1>2, PTL DEF Spec, SearchKeepsHold
=============================================================================
