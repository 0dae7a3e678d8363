-------------------------- MODULE TemporalLedgerProofs -------------------------
(***************************************************************************)
(* Proofs about TemporalLedger, for any number of instants and payloads.     *)
(*                                                                         *)
(* The inductive invariant LedgerInv says that the ledger is disjoint (at    *)
(* most one revision for a pair of instants), that nothing is closed or      *)
(* bounded later than the last write, and that the only revision that may    *)
(* still be in force is the current one.  From it a write replaces exactly   *)
(* its own interval (AnswersAfter), which gives the refinement of            *)
(* BitemporalHistory.                                                        *)
(***************************************************************************)
EXTENDS TemporalLedger, TLAPS

(* What was closed was closed no later than the last write.                  *)
ClosedPast ==
  \A r \in revs, t \in Times : Advances(t) => Open(r) \/ r.sysTo < t

(* A revision begins no later than it was recorded, and ends no later or     *)
(* never.                                                                    *)
NoFuture ==
  \A r \in revs : r.from <= r.sysFrom /\ (r.to = Forever \/ r.to <= r.sysFrom)

(* One revision was recorded last.                                           *)
HasLatest == revs = {} \/ \E r \in revs : \A q \in revs : q.sysFrom <= r.sysFrom

(* The row names an open revision, and only it may lack an end.              *)
CurrentOK ==
  /\ HasRow => current \in revs /\ Open(current) /\ (current.fact.tomb => gone)
  /\ \A r \in revs : Open(r) /\ r.to = Forever => r = current

LedgerInv ==
  /\ TypeOK /\ Disjoint(revs) /\ NeverRefused
  /\ ClosedPast /\ NoFuture /\ HasLatest /\ CurrentOK

-----------------------------------------------------------------------------
(* The revisions after a write of [from, to) at `now', and what one of them  *)
(* can be: an old one that was not hit, a part of an old one that was, or    *)
(* the new one.                                                              *)
Written(from, to, now, fact) ==
  Replaced(from, to, now) \cup {Revision(from, to, now, fact)}

Kept(r, from, to) == r \in revs /\ r \notin Hit(from, to)

ClosedCopy(r, q, now) ==
  /\ r.from = q.from /\ r.to = q.to
  /\ r.sysFrom = q.sysFrom /\ r.sysTo = now
PartBefore(r, q, from, now) ==
  /\ q.from < from /\ r.from = q.from /\ r.to = from
  /\ r.sysFrom = now /\ r.sysTo = Forever
PartAfter(r, q, to, now) ==
  /\ to < q.to /\ r.from = to /\ r.to = q.to
  /\ r.sysFrom = now /\ r.sysTo = Forever

Part(r, q, from, to, now) ==
  /\ r.fact = q.fact
  /\ ClosedCopy(r, q, now) \/ PartBefore(r, q, from, now) \/ PartAfter(r, q, to, now)

New(r, from, to, now, fact) ==
  /\ r.from = from /\ r.to = to /\ r.sysFrom = now /\ r.sysTo = Forever
  /\ r.fact = fact

(* The arithmetic of the bounds.                                             *)
LEMMA Bounds ==
  /\ Forever \in Nat /\ Times \subseteq Nat /\ Ends \subseteq Nat
  /\ \A t \in Times : t < Forever /\ 1 <= t /\ t \in Ends
  /\ \A t \in Ends : t <= Forever /\ (t # Forever => t \in Times)
  /\ Forever \in Ends
BY BoundsAssumption DEF Times, Ends, Forever

(* A revision has its fields in their types.                                 *)
LEMMA RevisionFields ==
  ASSUME NEW r \in Revisions
  PROVE  /\ r.from \in Times /\ r.to \in Ends
         /\ r.sysFrom \in Times /\ r.sysTo \in Ends /\ r.fact \in Facts
BY DEF Revisions

(* A revision is determined by its fields.                                   *)
LEMMA SameFields ==
  ASSUME NEW r \in Revisions, NEW q \in Revisions,
         r.from = q.from, r.to = q.to, r.sysFrom = q.sysFrom, r.sysTo = q.sysTo,
         r.fact = q.fact
  PROVE  r = q
BY DEF Revisions

(* Every revision after a write is one of the three.                         *)
LEMMA WrittenParts ==
  ASSUME TypeOK, NEW from \in Times, NEW to \in Ends, NEW now \in Times,
         NEW fact \in Facts, NEW r \in Written(from, to, now, fact)
  PROVE  /\ r \in Revisions
         /\ \/ Kept(r, from, to)
            \/ \E q \in Hit(from, to) : Part(r, q, from, to, now)
            \/ New(r, from, to, now, fact)
<1> USE Bounds
<1>1. CASE r \in revs \ Hit(from, to)
  BY <1>1 DEF Kept, TypeOK
<1>2. CASE \E q \in Hit(from, to) : r = [q EXCEPT !.sysTo = now]
  <2>1. PICK q \in Hit(from, to) : r = [q EXCEPT !.sysTo = now]
    BY <1>2
  <2>2. q \in Revisions
    BY DEF Hit, TypeOK
  <2>3. r \in Revisions /\ r.fact = q.fact /\ ClosedCopy(r, q, now)
    BY <2>1, <2>2 DEF Revisions, ClosedCopy
  <2> QED BY <2>3 DEF Part
<1>3. CASE \E q \in Hit(from, to) :
             q.from < from /\ r = [q EXCEPT !.to = from, !.sysFrom = now]
  <2>1. PICK q \in Hit(from, to) :
          q.from < from /\ r = [q EXCEPT !.to = from, !.sysFrom = now]
    BY <1>3
  <2>2. q \in Revisions /\ q.sysTo = Forever
    BY DEF Hit, TypeOK, Open
  <2>3. r \in Revisions /\ r.fact = q.fact /\ PartBefore(r, q, from, now)
    BY <2>1, <2>2 DEF Revisions, PartBefore
  <2> QED BY <2>3 DEF Part
<1>4. CASE \E q \in Hit(from, to) :
             to < q.to /\ r = [q EXCEPT !.from = to, !.sysFrom = now]
  <2>1. PICK q \in Hit(from, to) :
          to < q.to /\ r = [q EXCEPT !.from = to, !.sysFrom = now]
    BY <1>4
  <2>2. q \in Revisions /\ q.sysTo = Forever
    BY DEF Hit, TypeOK, Open
  <2>3. to \in Times
    BY <2>1, <2>2, RevisionFields
  <2>4. r \in Revisions /\ r.fact = q.fact /\ PartAfter(r, q, to, now)
    BY <2>1, <2>2, <2>3 DEF Revisions, PartAfter
  <2> QED BY <2>4 DEF Part
<1>5. CASE r = Revision(from, to, now, fact)
  BY <1>5 DEF Revision, Revisions, New
<1> QED
  BY <1>1, <1>2, <1>3, <1>4, <1>5 DEF Written, Replaced, Closed, Before, After

(* A write leaves what it did not hit, one part of each kind for what it     *)
(* hit, and the new revision.                                                *)
LEMMA WrittenHas ==
  ASSUME TypeOK, NEW from \in Times, NEW to \in Ends, NEW now \in Times,
         NEW fact \in Facts
  PROVE  /\ \A r \in revs \ Hit(from, to) : r \in Written(from, to, now, fact)
         /\ \A q \in Hit(from, to) :
              /\ \E r \in Written(from, to, now, fact) :
                   r.fact = q.fact /\ ClosedCopy(r, q, now)
              /\ q.from < from => \E r \in Written(from, to, now, fact) :
                   r.fact = q.fact /\ PartBefore(r, q, from, now)
              /\ to < q.to => \E r \in Written(from, to, now, fact) :
                   r.fact = q.fact /\ PartAfter(r, q, to, now)
         /\ Revision(from, to, now, fact) \in Written(from, to, now, fact)
         /\ New(Revision(from, to, now, fact), from, to, now, fact)
<1>1. ASSUME NEW q \in Hit(from, to)
      PROVE  /\ \E r \in Written(from, to, now, fact) :
                  r.fact = q.fact /\ ClosedCopy(r, q, now)
             /\ q.from < from => \E r \in Written(from, to, now, fact) :
                  r.fact = q.fact /\ PartBefore(r, q, from, now)
             /\ to < q.to => \E r \in Written(from, to, now, fact) :
                  r.fact = q.fact /\ PartAfter(r, q, to, now)
  <2>1. q \in Revisions /\ q.sysTo = Forever
    BY DEF Hit, TypeOK, Open
  <2>2. \E r \in Written(from, to, now, fact) : r.fact = q.fact /\ ClosedCopy(r, q, now)
    <3> DEFINE r == [q EXCEPT !.sysTo = now]
    <3>1. r \in Written(from, to, now, fact)
      BY DEF Written, Replaced, Closed
    <3>2. r.fact = q.fact /\ ClosedCopy(r, q, now)
      BY <2>1 DEF Revisions, ClosedCopy
    <3> QED BY <3>1, <3>2
  <2>3. ASSUME q.from < from
        PROVE  \E r \in Written(from, to, now, fact) :
                 r.fact = q.fact /\ PartBefore(r, q, from, now)
    <3> DEFINE r == [q EXCEPT !.to = from, !.sysFrom = now]
    <3>1. r \in Written(from, to, now, fact)
      BY <2>3 DEF Written, Replaced, Before
    <3>2. r.fact = q.fact /\ PartBefore(r, q, from, now)
      BY <2>1, <2>3 DEF Revisions, PartBefore
    <3> QED BY <3>1, <3>2
  <2>4. ASSUME to < q.to
        PROVE  \E r \in Written(from, to, now, fact) :
                 r.fact = q.fact /\ PartAfter(r, q, to, now)
    <3> DEFINE r == [q EXCEPT !.from = to, !.sysFrom = now]
    <3>1. r \in Written(from, to, now, fact)
      BY <2>4 DEF Written, Replaced, After
    <3>2. r.fact = q.fact /\ PartAfter(r, q, to, now)
      BY <2>1, <2>4 DEF Revisions, PartAfter
    <3> QED BY <3>1, <3>2
  <2> QED BY <2>2, <2>3, <2>4
<1>2. \A r \in revs \ Hit(from, to) : r \in Written(from, to, now, fact)
  BY DEF Written, Replaced
<1>3. /\ Revision(from, to, now, fact) \in Written(from, to, now, fact)
      /\ New(Revision(from, to, now, fact), from, to, now, fact)
  BY DEF Written, Revision, New
<1> QED BY <1>1, <1>2, <1>3

-----------------------------------------------------------------------------
(* Two different old revisions do not overlap, whatever their parts.         *)
LEMMA OldDisjoint ==
  ASSUME TypeOK, Disjoint(revs), NEW a \in revs, NEW b \in revs, a # b
  PROVE  ~Overlap(a, b) /\ ~Overlap(b, a)
BY DEF Disjoint, Overlap

(* The times of what a write can meet.                                       *)
LEMMA OldTimes ==
  ASSUME TypeOK, ClosedPast, NEW now \in Times, Advances(now),
         NEW r \in revs
  PROVE  /\ r \in Revisions /\ r.from < r.to /\ r.sysFrom < r.sysTo
         /\ r.sysFrom < now /\ (r.sysTo = Forever \/ r.sysTo < now)
BY DEF TypeOK, ClosedPast, Advances, Open

(* A part of a revision overlaps nothing that stays of another one.          *)
LEMMA KeptAndPart ==
  ASSUME TypeOK, Disjoint(revs), ClosedPast,
         NEW now \in Times, NEW from \in Times, NEW to \in Ends,
         Advances(now), from < to,
         NEW a, Kept(a, from, to),
         NEW q \in Hit(from, to), NEW b \in Revisions, Part(b, q, from, to, now)
  PROVE  ~Overlap(a, b)
<1> USE Bounds
<1>1. a \in revs /\ q \in revs /\ a # q /\ from < q.to /\ q.from < to /\ q.sysTo = Forever
  BY DEF Kept, Hit, Open
<1>2. /\ a \in Revisions /\ q \in Revisions
      /\ q.sysFrom < now /\ a.sysFrom < now
      /\ q.from < q.to
  BY <1>1, OldTimes
<1>3. /\ a.from \in Nat /\ a.to \in Nat /\ a.sysFrom \in Nat /\ a.sysTo \in Nat
      /\ q.from \in Nat /\ q.to \in Nat /\ q.sysFrom \in Nat
      /\ b.from \in Nat /\ b.to \in Nat /\ b.sysFrom \in Nat /\ b.sysTo \in Nat
      /\ now \in Nat /\ from \in Nat /\ to \in Nat /\ now < Forever
      /\ a.sysFrom < Forever
  BY <1>2, RevisionFields
<1>4. ~Overlap(a, q)
  BY <1>1, OldDisjoint
<1>5. b.from < b.to /\ b.sysFrom < b.sysTo => q.from <= b.from /\ b.to <= q.to
  BY <1>1, <1>3 DEF Part, ClosedCopy, PartBefore, PartAfter
<1>6. q.sysFrom <= b.sysFrom /\ b.sysTo <= Forever
  BY <1>2, <1>3 DEF Part, ClosedCopy, PartBefore, PartAfter
<1>7. b.from < b.to
  BY <1>1, <1>2, <1>3 DEF Part, ClosedCopy, PartBefore, PartAfter
<1>8. b.sysFrom < b.sysTo
  BY <1>2, <1>3 DEF Part, ClosedCopy, PartBefore, PartAfter
<1> QED BY <1>1, <1>3, <1>4, <1>5, <1>6, <1>7, <1>8 DEF Overlap

(* Parts of two revisions, or two parts of one, do not overlap.              *)
LEMMA PartAndPart ==
  ASSUME TypeOK, Disjoint(revs), ClosedPast,
         NEW now \in Times, NEW from \in Times, NEW to \in Ends,
         Advances(now), from < to,
         NEW q \in Hit(from, to), NEW a \in Revisions, Part(a, q, from, to, now),
         NEW p \in Hit(from, to), NEW b \in Revisions, Part(b, p, from, to, now),
         a # b
  PROVE  ~Overlap(a, b)
<1> USE Bounds
<1>1. /\ p \in revs /\ from < p.to /\ p.from < to /\ p.sysTo = Forever
      /\ q \in revs /\ from < q.to /\ q.from < to /\ q.sysTo = Forever
  BY DEF Hit, Open
<1>2. /\ p \in Revisions /\ q \in Revisions
      /\ q.sysFrom < now /\ p.sysFrom < now
  BY <1>1, OldTimes
<1>3. /\ p.from \in Nat /\ p.to \in Nat /\ p.sysFrom \in Nat
      /\ q.from \in Nat /\ q.to \in Nat /\ q.sysFrom \in Nat
      /\ a.from \in Nat /\ a.to \in Nat /\ a.sysFrom \in Nat /\ a.sysTo \in Nat
      /\ b.from \in Nat /\ b.to \in Nat /\ b.sysFrom \in Nat /\ b.sysTo \in Nat
      /\ now \in Nat /\ from \in Nat /\ to \in Nat /\ now < Forever
  BY <1>2, RevisionFields
<1>4. CASE p = q
  <2>1. \/ ClosedCopy(a, q, now) /\ ~ClosedCopy(b, q, now)
        \/ ClosedCopy(b, q, now) /\ ~ClosedCopy(a, q, now)
        \/ ~ClosedCopy(a, q, now) /\ ~ClosedCopy(b, q, now)
    BY <1>4, SameFields DEF ClosedCopy, Part
  <2>2. ~ClosedCopy(a, q, now) /\ ~ClosedCopy(b, q, now) =>
          \/ PartBefore(a, q, from, now) /\ PartAfter(b, q, to, now)
          \/ PartAfter(a, q, to, now) /\ PartBefore(b, q, from, now)
    BY <1>4, SameFields DEF Part, PartBefore, PartAfter
  <2> QED BY <1>1, <1>2, <1>3, <1>4, <2>1, <2>2
          DEF Part, ClosedCopy, PartBefore, PartAfter, Overlap
<1>5. CASE p # q
  <2>1. ~Overlap(p, q) /\ ~Overlap(q, p)
    BY <1>1, <1>5, OldDisjoint
  <2>2. q.to <= p.from \/ p.to <= q.from
    BY <1>1, <1>2, <1>3, <2>1 DEF Overlap
  <2>3. q.from <= a.from /\ a.to <= q.to
    BY <1>1, <1>3 DEF Part, ClosedCopy, PartBefore, PartAfter
  <2>4. p.from <= b.from /\ b.to <= p.to
    BY <1>1, <1>3 DEF Part, ClosedCopy, PartBefore, PartAfter
  <2> QED BY <1>3, <2>2, <2>3, <2>4 DEF Overlap
<1> QED BY <1>4, <1>5

(* The new revision overlaps nothing old.                                    *)
LEMMA OldAndNew ==
  ASSUME TypeOK, ClosedPast,
         NEW now \in Times, NEW from \in Times, NEW to \in Ends, NEW fact \in Facts,
         Advances(now), from < to,
         NEW a \in Revisions, NEW b \in Revisions, New(b, from, to, now, fact),
         Kept(a, from, to) \/ \E q \in Hit(from, to) : Part(a, q, from, to, now)
  PROVE  ~Overlap(a, b)
<1> USE Bounds
<1>1. /\ a.from \in Nat /\ a.to \in Nat /\ a.sysFrom \in Nat /\ a.sysTo \in Nat
      /\ now \in Nat /\ from \in Nat /\ to \in Nat /\ now < Forever
  BY RevisionFields
<1>2. CASE Kept(a, from, to)
  <2>1. a.sysTo = Forever \/ a.sysTo < now
    BY <1>2, OldTimes DEF Kept
  <2>2. a.sysTo = Forever => a.to <= from \/ to <= a.from
    BY <1>1, <1>2 DEF Kept, Hit, Open
  <2> QED BY <1>1, <2>1, <2>2 DEF New, Overlap
<1>3. CASE \E q \in Hit(from, to) : Part(a, q, from, to, now)
  BY <1>1, <1>3 DEF New, Part, ClosedCopy, PartBefore, PartAfter, Overlap
<1> QED BY <1>2, <1>3

(* After a legal write no two revisions overlap: the check at its end, which *)
(* would roll it back, never fires.                                          *)
LEMMA WrittenDisjoint ==
  ASSUME TypeOK, Disjoint(revs), ClosedPast,
         NEW now \in Times, NEW from \in Times, NEW to \in Ends, NEW fact \in Facts,
         Advances(now), from < to
  PROVE  Disjoint(Written(from, to, now, fact))
<1> DEFINE W == Written(from, to, now, fact)
<1> SUFFICES ASSUME NEW a \in W, NEW b \in W, a # b
             PROVE  ~Overlap(a, b)
  BY DEF Disjoint
<1>1. /\ a \in Revisions
      /\ \/ Kept(a, from, to)
         \/ \E q \in Hit(from, to) : Part(a, q, from, to, now)
         \/ New(a, from, to, now, fact)
  BY WrittenParts
<1>2. /\ b \in Revisions
      /\ \/ Kept(b, from, to)
         \/ \E q \in Hit(from, to) : Part(b, q, from, to, now)
         \/ New(b, from, to, now, fact)
  BY WrittenParts
<1>3. \A x, y : Overlap(x, y) <=> Overlap(y, x)
  BY DEF Overlap
<1>4. CASE Kept(a, from, to) /\ Kept(b, from, to)
  BY <1>4, OldDisjoint DEF Kept
<1>5. CASE Kept(a, from, to) /\ \E q \in Hit(from, to) : Part(b, q, from, to, now)
  BY <1>2, <1>5, KeptAndPart
<1>6. CASE Kept(b, from, to) /\ \E q \in Hit(from, to) : Part(a, q, from, to, now)
  BY <1>1, <1>3, <1>6, KeptAndPart
<1>7. CASE /\ \E q \in Hit(from, to) : Part(a, q, from, to, now)
           /\ \E q \in Hit(from, to) : Part(b, q, from, to, now)
  <2>1. PICK q \in Hit(from, to) : Part(a, q, from, to, now)
    BY <1>7
  <2>2. PICK p \in Hit(from, to) : Part(b, p, from, to, now)
    BY <1>7
  <2> QED BY <1>1, <1>2, <2>1, <2>2, PartAndPart
<1>8. CASE New(a, from, to, now, fact) /\ New(b, from, to, now, fact)
  BY <1>1, <1>2, <1>8, SameFields DEF New
<1>9. CASE New(b, from, to, now, fact) /\ ~New(a, from, to, now, fact)
  BY <1>1, <1>2, <1>9, OldAndNew
<1>10. CASE New(a, from, to, now, fact) /\ ~New(b, from, to, now, fact)
  BY <1>1, <1>2, <1>3, <1>10, OldAndNew
<1> QED
  BY <1>1, <1>2, <1>4, <1>5, <1>6, <1>7, <1>8, <1>9, <1>10

-----------------------------------------------------------------------------
(* No revision is bounded, recorded or closed later than the write.          *)
LEMMA WrittenBounds ==
  ASSUME TypeOK, ClosedPast, NoFuture,
         NEW now \in Times, NEW from \in Times, NEW to \in Ends, NEW fact \in Facts,
         Advances(now), Allowed(from, to, now),
         NEW r \in Written(from, to, now, fact)
  PROVE  /\ r.from < r.to /\ r.sysFrom < r.sysTo
         /\ r.sysFrom <= now /\ (r.sysTo = Forever \/ r.sysTo <= now)
         /\ r.from <= r.sysFrom /\ (r.to = Forever \/ r.to <= r.sysFrom)
<1> USE Bounds
<1>1. /\ r.from \in Nat /\ r.to \in Nat /\ r.sysFrom \in Nat /\ r.sysTo \in Nat
      /\ now \in Nat /\ from \in Nat /\ to \in Nat /\ now < Forever
  BY WrittenParts, RevisionFields
<1>2. CASE Kept(r, from, to)
  BY <1>1, <1>2, OldTimes DEF Kept, NoFuture
<1>3. CASE \E q \in Hit(from, to) : Part(r, q, from, to, now)
  <2>1. PICK q \in Hit(from, to) : Part(r, q, from, to, now)
    BY <1>3
  <2>2. q \in revs /\ from < q.to /\ q.from < to /\ q.sysTo = Forever
    BY DEF Hit, Open
  <2>3. /\ q \in Revisions /\ q.from < q.to /\ q.sysFrom < now
        /\ q.from <= q.sysFrom /\ (q.to = Forever \/ q.to <= q.sysFrom)
    BY <2>2, OldTimes DEF NoFuture
  <2>4. q.from \in Nat /\ q.to \in Nat /\ q.sysFrom \in Nat /\ q.to <= Forever
    BY <2>3, RevisionFields
  <2> QED BY <1>1, <2>1, <2>2, <2>3, <2>4
          DEF Part, ClosedCopy, PartBefore, PartAfter, Allowed
<1>4. CASE New(r, from, to, now, fact)
  BY <1>1, <1>4 DEF New, Allowed
<1> QED BY <1>2, <1>3, <1>4, WrittenParts

(* Of two open revisions without an end one would overlap the other.         *)
LEMMA OneOpenEnded ==
  ASSUME NEW S, S \subseteq Revisions, Disjoint(S),
         \A r \in S : r.from < r.to /\ r.sysFrom < r.sysTo,
         NEW a \in S, NEW b \in S,
         Open(a), a.to = Forever, Open(b), b.to = Forever
  PROVE  a = b
<1> USE Bounds
<1>1. /\ a.from \in Nat /\ a.sysFrom \in Nat /\ a.from < Forever /\ a.sysFrom < Forever
      /\ b.from \in Nat /\ b.sysFrom \in Nat /\ b.from < Forever /\ b.sysFrom < Forever
  BY RevisionFields
<1> QED BY <1>1 DEF Disjoint, Overlap, Open

(* The row chosen at the end of a write is a stored open revision, and the   *)
(* only one that may be without an end.                                      *)
LEMMA SelectedIsOpenEnded ==
  ASSUME TypeOK, Disjoint(revs), ClosedPast, NoFuture,
         NEW now \in Times, NEW from \in Times, NEW to \in Ends, NEW fact \in Facts,
         Advances(now), Allowed(from, to, now),
         NEW c \in Selected(Written(from, to, now, fact), now,
                            Revision(from, to, now, fact))
  PROVE  /\ c \in Written(from, to, now, fact) /\ Open(c)
         /\ \A r \in Written(from, to, now, fact) : Open(r) /\ r.to = Forever => r = c
<1> USE Bounds
<1> DEFINE W == Written(from, to, now, fact)
           new == Revision(from, to, now, fact)
<1>1. W \subseteq Revisions
  BY WrittenParts
<1>2. Disjoint(W)
  BY WrittenDisjoint DEF Allowed
<1>3. \A r \in W : /\ r.from < r.to /\ r.sysFrom < r.sysTo
                   /\ r.sysFrom <= now /\ r.from <= r.sysFrom
                   /\ (r.to = Forever \/ r.to <= r.sysFrom)
  BY WrittenBounds
<1>4. \A r \in W : /\ r.from \in Nat /\ r.to \in Nat /\ r.sysFrom \in Nat
                   /\ now \in Nat /\ now < Forever
  BY <1>1, RevisionFields
<1>5. \A r \in W : r \in ValidAt(W, now) <=> Open(r) /\ r.to = Forever
  BY <1>3, <1>4 DEF ValidAt
<1>6. ValidAt(W, now) \subseteq W
  BY DEF ValidAt
<1>7. new \in W /\ Open(new)
  BY DEF Written, Revision, Open
<1>8. CASE ValidAt(W, now) = {}
  BY <1>5, <1>7, <1>8 DEF Selected
<1>9. CASE ValidAt(W, now) # {}
  <2>1. c \in ValidAt(W, now)
    BY <1>9 DEF Selected
  <2>2. c \in W /\ Open(c) /\ c.to = Forever
    BY <1>5, <1>6, <2>1
  <2> QED BY <1>1, <1>2, <1>3, <2>2, OneOpenEnded
<1> QED BY <1>8, <1>9

(* The invariant after a write, for the row the write chooses.               *)
LEMMA WriteKeepsLedgerInv ==
  ASSUME LedgerInv,
         NEW now \in Times, NEW from \in Times, NEW to \in Ends, NEW fact \in Facts,
         Advances(now), Allowed(from, to, now),
         revs' = Written(from, to, now, fact),
         current' \in revs', Open(current'),
         \A r \in revs' : Open(r) /\ r.to = Forever => r = current',
         gone' \in BOOLEAN, current'.fact.tomb => gone',
         refused' = refused
  PROVE  LedgerInv'
<1> USE Bounds
<1> DEFINE W == Written(from, to, now, fact)
<1>1. /\ TypeOK /\ Disjoint(revs) /\ NeverRefused
      /\ ClosedPast /\ NoFuture
  BY DEF LedgerInv
<1>2. W \subseteq Revisions
  BY <1>1, WrittenParts
<1>3. \A r \in W :
        /\ r.from < r.to /\ r.sysFrom < r.sysTo
        /\ r.sysFrom <= now /\ (r.sysTo = Forever \/ r.sysTo <= now)
        /\ r.from <= r.sysFrom /\ (r.to = Forever \/ r.to <= r.sysFrom)
  BY <1>1, WrittenBounds
<1>4. Revision(from, to, now, fact) \in W /\ Revision(from, to, now, fact).sysFrom = now
  BY DEF Written, Revision
<1>5. None \notin Revisions
  BY NoneAssumption
<1>6. TypeOK'
  BY <1>1, <1>2, <1>3, <1>5 DEF TypeOK, HasRow
<1>7. Disjoint(revs)'
  BY <1>1, WrittenDisjoint DEF Allowed, Disjoint, Overlap
<1>8. NeverRefused'
  BY <1>1 DEF NeverRefused
<1>9. ClosedPast'
  <2> SUFFICES ASSUME NEW r \in W, NEW t \in Times, \A q \in W : q.sysFrom < t
               PROVE  r.sysTo = Forever \/ r.sysTo < t
    BY DEF ClosedPast, Advances, Open
  <2>1. now < t
    BY <1>4
  <2>2. r.sysTo \in Nat /\ now \in Nat /\ t \in Nat
    BY <1>2, RevisionFields
  <2> QED BY <1>3, <2>1, <2>2
<1>10. NoFuture'
  BY <1>3 DEF NoFuture
<1>11. HasLatest'
  BY <1>3, <1>4 DEF HasLatest
<1>12. CurrentOK'
  BY <1>6 DEF CurrentOK, Open, HasRow, TypeOK
<1> QED BY <1>6, <1>7, <1>8, <1>9, <1>10, <1>11, <1>12 DEF LedgerInv

-----------------------------------------------------------------------------
(* The invariant at the start.                                               *)
LEMMA InitLedgerInv == Init => LedgerInv
BY DEF Init, LedgerInv, TypeOK, HasRow, Disjoint, NeverRefused, ClosedPast, NoFuture,
       HasLatest, CurrentOK

(* A legal write commits: it is not refused, and the invariant holds after.  *)
LEMMA CommitStep ==
  ASSUME LedgerInv,
         NEW now \in Times, NEW from \in Times, NEW to \in Ends, NEW fact \in Facts,
         Advances(now), Allowed(from, to, now),
         Commit(from, to, now, fact)
  PROVE  revs' = Written(from, to, now, fact) /\ LedgerInv'
<1> DEFINE W == Written(from, to, now, fact)
           new == Revision(from, to, now, fact)
<1>1. TypeOK /\ Disjoint(revs) /\ ClosedPast /\ NoFuture
  BY DEF LedgerInv
<1>2. Disjoint(W)
  BY <1>1, WrittenDisjoint DEF Allowed
<1>3. /\ revs' = W /\ current' \in Selected(W, now, new)
      /\ gone' = current'.fact.tomb /\ refused' = refused
  BY <1>2 DEF Commit, Written
<1>4. /\ current' \in W /\ Open(current')
      /\ \A r \in W : Open(r) /\ r.to = Forever => r = current'
  BY <1>1, <1>3, SelectedIsOpenEnded
<1>5. current'.fact.tomb \in BOOLEAN
  <2>1. current' \in Revisions
    BY <1>1, <1>4, WrittenParts
  <2> QED BY <2>1 DEF Revisions, Facts
<1>6. LedgerInv'
  BY <1>3, <1>4, <1>5, WriteKeepsLedgerInv
<1> QED BY <1>3, <1>6

(* What the row says has its type.                                           *)
LEMMA CurrentFields ==
  ASSUME LedgerInv, HasRow
  PROVE  /\ current \in revs /\ current \in Revisions /\ Open(current)
         /\ current.from \in Times /\ current.to \in Ends /\ current.from < current.to
         /\ current.fact \in Facts /\ current.fact.tomb \in BOOLEAN
         /\ current.fact.payload \in Payloads
<1>1. current \in revs /\ current \in Revisions /\ Open(current) /\ current.from < current.to
  BY DEF LedgerInv, CurrentOK, TypeOK
<1> QED BY <1>1 DEF Revisions, Facts

(* The current revision's own interval is a legal one for a later write.     *)
LEMMA CurrentInterval ==
  ASSUME LedgerInv, HasRow, NEW now \in Times, Advances(now)
  PROVE  Allowed(current.from, current.to, now)
<1> USE Bounds
<1>1. current \in revs /\ current \in Revisions /\ current.from < current.to
  BY CurrentFields
<1>2. /\ current.from \in Nat /\ current.to \in Nat
      /\ current.sysFrom \in Nat /\ now \in Nat
  BY <1>1, RevisionFields
<1>3. /\ current.from <= current.sysFrom /\ current.sysFrom < now
      /\ (current.to = Forever \/ current.to <= current.sysFrom)
  BY <1>1 DEF LedgerInv, NoFuture, Advances
<1> QED BY <1>1, <1>2, <1>3 DEF Allowed

(* A metadata correction is a write over the interval of the current         *)
(* revision, and the revision it makes is the only one that may be without   *)
(* an end.                                                                   *)
LEMMA CorrectMetadataStep ==
  ASSUME LedgerInv, NEW now \in Times, NEW p \in Payloads, CorrectMetadata(now, p)
  PROVE  /\ Advances(now) /\ HasRow
         /\ revs' = Written(current.from, current.to, now, [payload |-> p, tomb |-> FALSE])
         /\ LedgerInv'
<1> USE Bounds
<1> DEFINE from == current.from
           to   == current.to
           fact == [payload |-> p, tomb |-> FALSE]
           W    == Written(from, to, now, fact)
           new  == Revision(from, to, now, fact)
<1>1. HasRow /\ Advances(now) /\ ~gone
  BY DEF CorrectMetadata
<1>2. /\ TypeOK /\ Disjoint(revs) /\ ClosedPast /\ NoFuture
      /\ from \in Times /\ to \in Ends /\ from < to /\ fact \in Facts
      /\ Allowed(from, to, now) /\ current \in revs /\ Open(current)
  BY <1>1, CurrentFields, CurrentInterval DEF LedgerInv, Facts
<1>3. Disjoint(W)
  BY <1>1, <1>2, WrittenDisjoint
<1>4. revs' = W /\ current' = new /\ gone' = gone /\ refused' = refused
  BY <1>3 DEF CorrectMetadata, Written
<1>5. new \in W /\ Open(new) /\ new.fact.tomb = FALSE
  BY DEF Written, Revision, Open
<1>6. ASSUME NEW r \in W, Open(r), r.to = Forever
      PROVE  r = new
  <2>1. /\ r \in Revisions
        /\ \/ Kept(r, from, to)
           \/ \E q \in Hit(from, to) : Part(r, q, from, to, now)
           \/ New(r, from, to, now, fact)
    BY <1>2, WrittenParts
  <2>2. ~Kept(r, from, to)
    <3>1. r \in revs => r = current
      BY <1>6 DEF LedgerInv, CurrentOK
    <3>2. current \in Hit(from, to)
      BY <1>2, RevisionFields DEF Hit
    <3> QED BY <3>1, <3>2 DEF Kept
  <2>3. ASSUME NEW q \in Hit(from, to), Part(r, q, from, to, now)
        PROVE  FALSE
    <3>1. /\ q \in revs /\ q \in Revisions /\ Open(q) /\ q.from < to /\ from < q.to
          /\ now < Forever /\ from < Forever /\ now \in Nat /\ from \in Nat /\ to \in Nat
          /\ q.to \in Nat /\ q.from \in Nat
      BY <1>2, RevisionFields DEF Hit, TypeOK
    <3>2. q.to = Forever /\ to < q.to
      BY <1>6, <2>3, <3>1 DEF Part, ClosedCopy, PartBefore, PartAfter, Open
    <3>3. q = current
      BY <3>1, <3>2 DEF LedgerInv, CurrentOK
    <3> QED BY <3>1, <3>2, <3>3
  <2>4. New(r, from, to, now, fact)
    BY <2>1, <2>2, <2>3
  <2>5. new \in Revisions
    BY <1>2, <1>5, WrittenParts
  <2>6. New(new, from, to, now, fact)
    BY DEF New, Revision
  <2> QED BY <2>1, <2>4, <2>5, <2>6, SameFields DEF New
<1>7. LedgerInv'
  BY <1>1, <1>2, <1>4, <1>5, <1>6, WriteKeepsLedgerInv DEF TypeOK
<1> QED BY <1>1, <1>4, <1>7

-----------------------------------------------------------------------------
(* A step either leaves the revisions alone, or writes one legal interval,   *)
(* or deletes everything; the invariant holds after it.                      *)
Writes(now, from, to, fact) ==
  /\ Advances(now) /\ Allowed(from, to, now)
  /\ revs' = Written(from, to, now, fact)

(* Every step keeps the invariant, and is a write of the abstract history    *)
(* or leaves it alone.                                                       *)
LEMMA StepIsWrite ==
  ASSUME LedgerInv, [Next]_vars
  PROVE  /\ LedgerInv'
         /\ \/ revs' = revs
            \/ \E now, from \in Times, to \in Ends, fact \in Facts :
                 Writes(now, from, to, fact)
            \/ revs' = {}
<1> USE Bounds
<1> DEFINE G == /\ LedgerInv'
                /\ \/ revs' = revs
                   \/ \E now, from \in Times, to \in Ends, fact \in Facts :
                        Writes(now, from, to, fact)
                   \/ revs' = {}
<1> SUFFICES G
  OBVIOUS
<1>1. ASSUME NEW now \in Times, NEW from \in Times, NEW to \in Ends, NEW fact \in Facts,
             Advances(now), Allowed(from, to, now), Commit(from, to, now, fact)
      PROVE  G
  BY <1>1, CommitStep DEF Writes
<1>2. ASSUME NEW now \in Times, NEW from \in Times, NEW to \in Ends, NEW fact \in Facts,
             Save(from, to, now, fact)
      PROVE  G
  BY <1>1, <1>2 DEF Save
<1>3. ASSUME NEW now \in Times, NEW p \in Payloads, Correct(now, p)
      PROVE  G
  <2>1. HasRow /\ Advances(now)
    BY <1>3 DEF Correct
  <2>2. /\ current.from \in Times /\ current.to \in Ends
        /\ [payload |-> p, tomb |-> current.fact.tomb] \in Facts
    BY <2>1, CurrentFields DEF Facts
  <2> QED BY <1>1, <1>3, <2>1, <2>2, CurrentInterval DEF Correct
<1>4. ASSUME NEW now \in Times, NEW p \in Payloads, CorrectMetadata(now, p)
      PROVE  G
  <2>1. /\ Advances(now) /\ HasRow /\ LedgerInv'
        /\ revs' = Written(current.from, current.to, now, [payload |-> p, tomb |-> FALSE])
    BY <1>4, CorrectMetadataStep
  <2>2. /\ current.from \in Times /\ current.to \in Ends
        /\ [payload |-> p, tomb |-> FALSE] \in Facts
    BY <2>1, CurrentFields DEF Facts
  <2> QED BY <2>1, <2>2, CurrentInterval DEF Writes
<1>5. ASSUME NEW now \in Times
      PROVE  Allowed(now, Forever, now)
  BY DEF Allowed
<1>6. ASSUME NEW now \in Times, NEW p \in Payloads, Update(now, p)
      PROVE  G
  <2>1. [payload |-> p, tomb |-> FALSE] \in Facts
    BY DEF Facts
  <2> QED BY <1>1, <1>5, <1>6, <2>1 DEF Update
<1>7. ASSUME NEW now \in Times, SoftDelete(now)
      PROVE  G
  <2>1. HasRow /\ current.fact \in Facts
    BY <1>7, CurrentFields DEF SoftDelete
  <2>2. [current.fact EXCEPT !.tomb = TRUE] \in Facts
    BY <2>1 DEF Facts
  <2> QED BY <1>1, <1>5, <1>7, <2>2 DEF SoftDelete
<1>8. ASSUME NEW now \in Times, Restore(now)
      PROVE  G
  <2>1. HasRow /\ current.fact \in Facts
    BY <1>8, CurrentFields DEF Restore, Tombstone
  <2>2. [current.fact EXCEPT !.tomb = FALSE] \in Facts
    BY <2>1 DEF Facts
  <2> QED BY <1>1, <1>5, <1>8, <2>2 DEF Restore
<1>9. ASSUME revs' = revs, current' = current, gone' \in BOOLEAN, refused' = refused,
             Tombstone /\ gone => gone'
      PROVE  G
  <2>1. TypeOK' /\ Disjoint(revs)' /\ NeverRefused'
    BY <1>9 DEF LedgerInv, TypeOK, HasRow, Disjoint, Overlap, NeverRefused
  <2>2. ClosedPast' /\ NoFuture' /\ HasLatest'
    BY <1>9 DEF LedgerInv, ClosedPast, Advances, Open, NoFuture, HasLatest
  <2>3. CurrentOK'
    BY <1>9 DEF LedgerInv, CurrentOK, HasRow, Open, Tombstone
  <2> QED BY <1>9, <2>1, <2>2, <2>3 DEF LedgerInv
<1>10. CASE RawDelete
  BY <1>9, <1>10 DEF RawDelete
<1>11. CASE UndoUntrackedDelete
  BY <1>9, <1>11 DEF UndoUntrackedDelete
<1>12. CASE HardDelete
  <2>1. TypeOK' /\ Disjoint(revs)' /\ NeverRefused'
    BY <1>12 DEF HardDelete, LedgerInv, TypeOK, HasRow, Disjoint, NeverRefused
  <2>2. ClosedPast' /\ NoFuture' /\ HasLatest' /\ CurrentOK'
    BY <1>12 DEF HardDelete, ClosedPast, NoFuture, HasLatest, CurrentOK, HasRow
  <2> QED BY <1>12, <2>1, <2>2 DEF HardDelete, LedgerInv
<1>13. CASE UNCHANGED vars
  BY <1>9, <1>13 DEF vars, LedgerInv, TypeOK
<1> QED
  BY <1>2, <1>3, <1>4, <1>6, <1>7, <1>8, <1>10, <1>11, <1>12, <1>13 DEF Next

(* LedgerInv is an invariant.                                                *)
LEMMA LedgerInvariant == Spec => []LedgerInv
<1>1. LedgerInv /\ [Next]_vars => LedgerInv'
  BY StepIsWrite
<1> QED BY InitLedgerInv, <1>1, PTL DEF Spec

(* Every variable always has its type, and no interval is ever empty.        *)
THEOREM TypeCorrect == Spec => []TypeOK
<1>1. LedgerInv => TypeOK
  BY DEF LedgerInv
<1> QED BY <1>1, LedgerInvariant, PTL

(* The overlap check of validateBitemporalIntervalsTx never rolls back a     *)
(* write whose interval is legal, whatever the clocks of the writers show.   *)
THEOREM WritesAreNeverRefused == Spec => []NeverRefused
<1>1. LedgerInv => NeverRefused
  BY DEF LedgerInv
<1> QED BY <1>1, LedgerInvariant, PTL

(* The row in memories always shows what the ledger says, and no revision    *)
(* becomes current because time passes.                                      *)
THEOREM CurrentViewStaysLedger == Spec => []CurrentViewIsLedger
<1>1. LedgerInv => CurrentViewIsLedger
  <2> USE Bounds
  <2> SUFFICES ASSUME LedgerInv, HasRow
               PROVE  /\ current \in revs /\ Open(current)
                      /\ \A t \in Times : Advances(t) => ValidAt(revs, t) \subseteq {current}
                      /\ current.fact.tomb => gone
    BY DEF CurrentViewIsLedger
  <2>1. current \in revs /\ Open(current) /\ (current.fact.tomb => gone)
    BY DEF LedgerInv, CurrentOK
  <2>2. ASSUME NEW t \in Times, Advances(t), NEW r \in ValidAt(revs, t)
        PROVE  r = current
    <3>1. r \in revs /\ r \in Revisions /\ Open(r) /\ t < r.to /\ r.sysFrom < t
      BY <2>2 DEF ValidAt, Advances, LedgerInv, TypeOK
    <3>2. r.to \in Nat /\ r.sysFrom \in Nat /\ t \in Nat
      BY <3>1, RevisionFields
    <3>3. r.to = Forever
      BY <3>1, <3>2 DEF LedgerInv, NoFuture
    <3> QED BY <3>1, <3>3 DEF LedgerInv, CurrentOK
  <2> QED BY <2>1, <2>2
<1> QED BY <1>1, LedgerInvariant, PTL

-----------------------------------------------------------------------------
(* A stored revision that covers a pair of instants is the answer to it.     *)
LEMMA AnswerIs ==
  ASSUME NEW S, Disjoint(S), NEW v, NEW k, NEW r \in S, Covers(r, v, k),
         S \subseteq Revisions, v \in Nat, k \in Nat
  PROVE  AnswerIn(S, v, k) = r.fact
<1> DEFINE c == CHOOSE q \in S : Covers(q, v, k)
<1>1. c \in S /\ Covers(c, v, k)
  OBVIOUS
<1>2. c = r
  <2>1. c \in Revisions /\ r \in Revisions
    BY <1>1
  <2>2. /\ c.from \in Nat /\ c.to \in Nat /\ c.sysFrom \in Nat /\ c.sysTo \in Nat
        /\ r.from \in Nat /\ r.to \in Nat /\ r.sysFrom \in Nat /\ r.sysTo \in Nat
    BY <2>1, RevisionFields, Bounds
  <2>3. Overlap(c, r)
    BY <1>1, <2>2 DEF Covers, Overlap
  <2> QED BY <1>1, <2>3 DEF Disjoint
<1> QED BY <1>2 DEF AnswerIn

(* Without one there is no answer.                                           *)
LEMMA NoAnswer ==
  ASSUME NEW S, NEW v, NEW k, \A r \in S : ~Covers(r, v, k)
  PROVE  AnswerIn(S, v, k) = None
BY DEF AnswerIn

(* What is answered after a write: what was written, from the write on and   *)
(* within its interval, and the old answer otherwise.                        *)
LEMMA AnswersAfter ==
  ASSUME LedgerInv,
         NEW now \in Times, NEW from \in Times, NEW to \in Ends, NEW fact \in Facts,
         Advances(now), Allowed(from, to, now),
         NEW v \in Times, NEW k \in Times
  PROVE  AnswerIn(Written(from, to, now, fact), v, k) =
           IF now <= k /\ from <= v /\ v < to THEN fact ELSE AnswerIn(revs, v, k)
<1> USE Bounds
<1> DEFINE W == Written(from, to, now, fact)
<1>1. /\ TypeOK /\ Disjoint(revs) /\ ClosedPast /\ NoFuture /\ revs \subseteq Revisions
      /\ from < to
  BY DEF LedgerInv, TypeOK, Allowed
<1>2. W \subseteq Revisions
  BY <1>1, WrittenParts
<1>3. Disjoint(W)
  BY <1>1, WrittenDisjoint
<1>4. \A r \in Revisions : /\ r.from \in Nat /\ r.to \in Nat
                           /\ r.sysFrom \in Nat /\ r.sysTo \in Nat
  BY RevisionFields
<1>5. v \in Nat /\ k \in Nat /\ now \in Nat /\ from \in Nat /\ to \in Nat /\ k < Forever
  OBVIOUS
<1>6. CASE now <= k /\ from <= v /\ v < to
  <2>1. PICK r \in W : New(r, from, to, now, fact)
    BY <1>1, WrittenHas
  <2>2. Covers(r, v, k) /\ r.fact = fact
    BY <1>5, <1>6, <2>1 DEF New, Covers
  <2> QED BY <1>2, <1>3, <1>5, <1>6, <2>2, AnswerIs
<1>7. CASE ~(now <= k /\ from <= v /\ v < to)
  (* Every revision that covers the pair before has one that does after... *)
  <2>1. ASSUME NEW q \in revs, Covers(q, v, k)
        PROVE  \E r \in W : Covers(r, v, k) /\ r.fact = q.fact
    <3>1. CASE q \notin Hit(from, to)
      BY <1>1, <2>1, <3>1, WrittenHas
    <3>2. CASE q \in Hit(from, to) /\ k < now
      <4>1. PICK r \in W : r.fact = q.fact /\ ClosedCopy(r, q, now)
        BY <1>1, <3>2, WrittenHas
      <4> QED BY <2>1, <3>2, <4>1 DEF ClosedCopy, Covers
    <3>3. CASE q \in Hit(from, to) /\ now <= k /\ v < from
      <4>1. q \in Revisions /\ q.from < from
        BY <1>1, <1>4, <1>5, <2>1, <3>3 DEF Covers
      <4>2. PICK r \in W : r.fact = q.fact /\ PartBefore(r, q, from, now)
        BY <1>1, <3>3, <4>1, WrittenHas
      <4> QED BY <1>5, <2>1, <3>3, <4>2 DEF PartBefore, Covers
    <3>4. CASE q \in Hit(from, to) /\ now <= k /\ to <= v
      <4>1. q \in Revisions /\ to < q.to
        BY <1>1, <1>4, <1>5, <2>1, <3>4 DEF Covers
      <4>2. PICK r \in W : r.fact = q.fact /\ PartAfter(r, q, to, now)
        BY <1>1, <3>4, <4>1, WrittenHas
      <4> QED BY <1>5, <2>1, <3>4, <4>2 DEF PartAfter, Covers
    <3> QED BY <1>5, <1>7, <3>1, <3>2, <3>3, <3>4
  (* ... and the other way round. *)
  <2>2. ASSUME NEW r \in W, Covers(r, v, k)
        PROVE  \E q \in revs : Covers(q, v, k)
    <3>1. /\ r \in Revisions
          /\ \/ Kept(r, from, to)
             \/ \E q \in Hit(from, to) : Part(r, q, from, to, now)
             \/ New(r, from, to, now, fact)
      BY <1>1, WrittenParts
    <3>2. CASE Kept(r, from, to)
      BY <2>2, <3>2 DEF Kept
    <3>3. CASE \E q \in Hit(from, to) : Part(r, q, from, to, now)
      <4>1. PICK q \in Hit(from, to) : Part(r, q, from, to, now)
        BY <3>3
      <4>2. /\ q \in revs /\ q \in Revisions /\ q.sysTo = Forever
            /\ from < q.to /\ q.from < to /\ q.sysFrom < now
        BY <1>1 DEF Hit, Open, Advances
      <4>3. q.from <= v /\ v < q.to
        BY <1>4, <1>5, <2>2, <3>1, <4>1, <4>2
        DEF Part, ClosedCopy, PartBefore, PartAfter, Covers
      <4>4. q.sysFrom <= k
        BY <1>4, <1>5, <2>2, <3>1, <4>1, <4>2
        DEF Part, ClosedCopy, PartBefore, PartAfter, Covers
      <4> QED BY <1>5, <4>2, <4>3, <4>4 DEF Covers
    <3>4. ~New(r, from, to, now, fact)
      BY <1>5, <1>7, <2>2 DEF New, Covers
    <3> QED BY <3>1, <3>2, <3>3, <3>4
  <2>3. CASE \E q \in revs : Covers(q, v, k)
    <3>1. PICK q \in revs : Covers(q, v, k)
      BY <2>3
    <3>2. AnswerIn(revs, v, k) = q.fact
      BY <1>1, <1>5, <3>1, AnswerIs
    <3>3. PICK r \in W : Covers(r, v, k) /\ r.fact = q.fact
      BY <2>1, <3>1
    <3>4. AnswerIn(W, v, k) = q.fact
      BY <1>2, <1>3, <1>5, <3>3, AnswerIs
    <3> QED BY <1>7, <3>2, <3>4
  <2>4. CASE \A q \in revs : ~Covers(q, v, k)
    <3>1. \A r \in W : ~Covers(r, v, k)
      BY <2>2, <2>4
    <3>2. AnswerIn(W, v, k) = None /\ AnswerIn(revs, v, k) = None
      BY <2>4, <3>1, NoAnswer
    <3> QED BY <1>7, <3>2
  <2> QED BY <2>3, <2>4
<1> QED BY <1>6, <1>7

(* The time of the last write, as an operator of the revisions.              *)
LastOf(S) ==
  IF S = {} THEN 0 ELSE CHOOSE t \in {r.sysFrom : r \in S} : \A r \in S : r.sysFrom <= t

(* It is the greatest system_from.                                           *)
LEMMA LastIs ==
  ASSUME NEW S, S \subseteq Revisions, NEW r \in S, \A q \in S : q.sysFrom <= r.sysFrom
  PROVE  LastOf(S) = r.sysFrom
<1> DEFINE t == CHOOSE u \in {q.sysFrom : q \in S} : \A q \in S : q.sysFrom <= u
<1>1. t \in {q.sysFrom : q \in S} /\ \A q \in S : q.sysFrom <= t
  OBVIOUS
<1>2. PICK q \in S : t = q.sysFrom
  BY <1>1
<1>3. q.sysFrom \in Nat /\ r.sysFrom \in Nat
  BY RevisionFields, Bounds
<1>4. t = r.sysFrom
  BY <1>1, <1>2, <1>3
<1> QED BY <1>4 DEF LastOf

(* The initial ledger is an empty history.                                   *)
LEMMA InitKeepsHistory == Init => History!Init
BY DEF Init, History!Init, Answers, Answer, AnswerIn, LastWrite

(* A write of the ledger is a record of the history.                         *)
LEMMA WriteIsRecord ==
  ASSUME LedgerInv,
         NEW now \in Times, NEW from \in Times, NEW to \in Ends, NEW fact \in Facts,
         Writes(now, from, to, fact)
  PROVE  History!Record(now, from, to, fact)
<1> DEFINE W == Written(from, to, now, fact)
<1>1. Advances(now) /\ Allowed(from, to, now) /\ revs' = W
  BY DEF Writes
<1>2. /\ TypeOK /\ ClosedPast /\ NoFuture /\ HasLatest
      /\ revs \subseteq Revisions
  BY DEF LedgerInv, TypeOK
<1>3. LastWrite < now
  <2>1. CASE revs = {}
    BY <2>1, Bounds DEF LastWrite
  <2>2. CASE revs # {}
    <3>1. PICK r \in revs : \A q \in revs : q.sysFrom <= r.sysFrom
      BY <1>2, <2>2 DEF HasLatest
    <3>2. LastWrite = r.sysFrom
      BY <1>2, <3>1, LastIs DEF LastWrite, LastOf
    <3> QED BY <1>1, <3>2 DEF Advances
  <2> QED BY <2>1, <2>2
<1>4. LastWrite' = now
  <2> DEFINE new == Revision(from, to, now, fact)
  <2>1. new \in W /\ new.sysFrom = now
    BY DEF Written, Revision
  <2>2. W \subseteq Revisions
    BY <1>2, WrittenParts
  <2>3. \A q \in W : q.sysFrom <= now
    BY <1>1, <1>2, WrittenBounds
  <2>4. LastOf(W) = now
    BY <2>1, <2>2, <2>3, LastIs
  <2> QED BY <1>1, <2>4 DEF LastWrite, LastOf
<1>5. Answers' = [v \in Times |-> [k \in Times |->
                   IF now <= k /\ from <= v /\ v < to THEN fact ELSE Answers[v][k]]]
  <2>1. Answers' = [v \in Times |-> [k \in Times |-> AnswerIn(W, v, k)]]
    BY <1>1 DEF Answers, Answer, AnswerIn
  <2>2. ASSUME NEW v \in Times, NEW k \in Times
        PROVE  AnswerIn(W, v, k) =
                 IF now <= k /\ from <= v /\ v < to THEN fact ELSE Answers[v][k]
    <3>1. Answers[v][k] = AnswerIn(revs, v, k)
      BY DEF Answers, Answer
    <3> QED BY <1>1, <3>1, AnswersAfter
  <2> QED BY <2>1, <2>2
<1> QED BY <1>3, <1>4, <1>5 DEF History!Record

(* A step of the ledger is a step of the history or changes no answer.       *)
LEMMA StepKeepsHistory ==
  ASSUME LedgerInv, [Next]_vars
  PROVE  [History!Next]_<<Answers, LastWrite>>
<1>1. CASE revs' = revs
  <2>1. Answers' = Answers
    BY <1>1 DEF Answers, Answer, AnswerIn
  <2>2. LastWrite' = LastWrite
    BY <1>1 DEF LastWrite
  <2> QED BY <2>1, <2>2
<1>2. CASE \E now, from \in Times, to \in Ends, fact \in Facts : Writes(now, from, to, fact)
  BY <1>2, WriteIsRecord DEF History!Next
<1>3. CASE revs' = {}
  BY <1>3 DEF Answers, Answer, AnswerIn, LastWrite, History!Next, History!Erase
<1> QED BY <1>1, <1>2, <1>3, StepIsWrite

(* The ledger implements the abstract history: closing, splitting and        *)
(* cloning revisions never changes an answer outside the interval written    *)
(* or before the write, for any sequence of writes, deletes and restores.    *)
THEOREM LedgerKeepsHistory == Spec => KeepsHistory
<1>1. LedgerInv /\ [Next]_vars => [History!Next]_<<Answers, LastWrite>>
  BY StepKeepsHistory
<1> QED BY InitKeepsHistory, <1>1, LedgerInvariant, PTL DEF Spec, KeepsHistory, History!Spec
=============================================================================
