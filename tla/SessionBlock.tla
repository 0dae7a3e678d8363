------------------------------ MODULE SessionBlock ------------------------------
(***************************************************************************)
(* The block of memories a session starts with (hook_sessionstart.go): the    *)
(* tiers are queried one after the other under one deadline, packed into a     *)
(* token budget (contextbudget/budget.go), and a marker is left for the        *)
(* context gate before the block is printed.  Meanwhile somebody edits the     *)
(* identity file, and the host may kill the hook.                            *)
(*                                                                         *)
(* An item is the length of its text.  The tiers are standing rules, identity,  *)
(* decisions, and one for the task and the events, which reserve nothing.      *)
(***************************************************************************)
EXTENDS Integers, Sequences, FiniteSets

CONSTANTS
  Lengths,       \* lengths of an item
  MinRules,      \* rules that are reserved (4 in the code)
  CharsPerToken, \* 4 in the code
  Budget,        \* the tokens of the block
  MaxItems, MaxEdits  \* bounds: the items of a query, the edits of the file

Tiers    == 1 .. 4
MinItems == <<MinRules, 1, 1, 0>>

VARIABLES
  file,      \* the length of the identity, 0 for no file
  tiers,     \* the items read so far
  late,      \* the deadline of the queries has passed
  pc, at,    \* where the hook is: the tier it reads, the item it weighs
  included,  \* the items taken: <<tier, position>>
  remaining, \* tokens left
  identity,  \* which edit of the file the block carries
  edits, marked

vars == <<file, tiers, late, pc, at, included, remaining, identity, edits, marked>>

Init ==
  /\ file \in {0} \cup Lengths /\ edits = 0
  /\ tiers = <<>> /\ late = FALSE
  /\ pc = "query" /\ at = <<1, 1>>
  /\ included = {} /\ remaining = Budget /\ identity = -1 /\ marked = FALSE

(* ApproxTokens rounds up.                                                   *)
RoundedDown(n)  == n \div CharsPerToken                                \* mutant
ApproxTokens(n) == (n + CharsPerToken - 1) \div CharsPerToken

-----------------------------------------------------------------------------
(* queryDirectives, queryDecisions, queryRecentEvents: rows, or nothing once    *)
(* the deadline has passed.                                                  *)
Query ==
  LET t == Len(tiers) + 1 IN
  /\ pc = "query" /\ t \in Tiers \ {2}
  /\ \/ ~late /\ \E n \in 0 .. MaxItems : \E items \in [1 .. n -> Lengths] : tiers' = Append(tiers, items)
        /\ UNCHANGED late
     \/ tiers' = Append(tiers, <<>>) /\ late' = TRUE
  /\ pc' = IF t = 4 THEN "reserve" ELSE "query"
  /\ UNCHANGED <<file, at, included, remaining, identity, edits, marked>>

(* readSessionIdentity.                                                      *)
ReadIdentity ==
  /\ pc = "query" /\ Len(tiers) = 1
  /\ tiers' = Append(tiers, IF file = 0 THEN <<>> ELSE <<file>>)
  /\ identity' = edits
  /\ UNCHANGED <<file, late, pc, at, included, remaining, edits, marked>>

(* cost: the separator counts from the second item on.                        *)
Cost(i) == ApproxTokens(tiers[i[1]][i[2]]) + IF included = {} THEN 0 ELSE ApproxTokens(1)

(* Once past the items of a tier, on to the next tier, and to the next pass.    *)
Forward(next) ==
  LET i == <<at[1], at[2] + 1>> IN
  IF i[2] <= Len(tiers[at[1]]) THEN at' = i /\ UNCHANGED pc
  ELSE IF at[1] < 4 THEN at' = <<at[1] + 1, 1>> /\ UNCHANGED pc
  ELSE at' = <<1, 1>> /\ pc' = next

Take == included' = included \cup {at} /\ remaining' = remaining - Cost(at)

(* Assemble, pass 1: the reserved items, tier by tier.                        *)
Reserved(t) == Cardinality({i \in included : i[1] = t})
Reserve ==
  /\ pc = "reserve"
  /\ IF at[2] <= Len(tiers[at[1]]) /\ Reserved(at[1]) < MinItems[at[1]] /\ Cost(at) <= remaining
     THEN Take ELSE UNCHANGED <<included, remaining>>
  /\ Forward("fill")
  /\ UNCHANGED <<file, tiers, late, identity, edits, marked>>

(* Pass 2: whatever else fits, in the same order.                             *)
Fill ==
  /\ pc = "fill"
  /\ IF at[2] <= Len(tiers[at[1]]) /\ at \notin included /\ Cost(at) <= remaining
     THEN Take ELSE UNCHANGED <<included, remaining>>
  /\ Forward("mark")
  /\ UNCHANGED <<file, tiers, late, identity, edits, marked>>

(* Mutant: any block that is not empty counts as carrying the identity.        *)
CarriesAnything == TRUE

(* richBlockCarriesIdentity reads the file again.                             *)
CarriesIdentity == file = 0 \/ (identity = edits /\ \E i \in included : i[1] = 2)

(* appendRichContextBlock: the marker, then the block is printed.              *)
Mark ==
  /\ pc = "mark"
  /\ marked' = (included # {} /\ CarriesIdentity)
  /\ pc' = "print"
  /\ UNCHANGED <<file, tiers, late, at, included, remaining, identity, edits>>

EmitSessionStart ==
  /\ pc = "print" /\ pc' = "printed"
  /\ UNCHANGED <<file, tiers, late, at, included, remaining, identity, edits, marked>>

EditIdentity ==
  /\ edits < MaxEdits /\ pc # "printed"
  /\ \E n \in {0} \cup Lengths : file' = n
  /\ edits' = edits + 1
  /\ UNCHANGED <<tiers, late, pc, at, included, remaining, identity, marked>>

Next == Query \/ ReadIdentity \/ Reserve \/ Fill \/ Mark \/ EmitSessionStart \/ EditIdentity

Spec == Init /\ [][Next]_vars

-----------------------------------------------------------------------------
Items == UNION {{<<t, j>> : j \in DOMAIN tiers[t]} : t \in DOMAIN tiers}

TypeOK ==
  /\ Len(tiers) <= 4 /\ late \in BOOLEAN /\ marked \in BOOLEAN
  /\ pc \in {"query", "reserve", "fill", "mark", "print", "printed"}
  /\ included \subseteq Items /\ edits \in 0 .. MaxEdits /\ identity \in -1 .. edits

(* The printed block, separators included, is within the budget; what it        *)
(* leaves out would not fit any more; and the identity is left out only for      *)
(* the rules that are reserved before it (budget.go 45, hook_sessionstart.go      *)
(* 213-221).                                                                  *)
Chars(S)   == UNION {{i} \X (1 .. tiers[i[1]][i[2]]) : i \in S}
Tokens(S)  == UNION {{i} \X (1 .. ApproxTokens(tiers[i[1]][i[2]])) : i \in S}
Printed    == Cardinality(Chars(included)) + Cardinality(included) - 1
Rules      == {i \in included : i[1] = 1}
FirstRules == {i \in Rules : Cardinality({o \in Rules : o[2] < i[2]}) < MinRules}
BlockIsFull ==
  pc \in {"mark", "print", "printed"} /\ included # {} =>
    /\ ApproxTokens(Printed) <= Budget
    /\ \A i \in Items \ included : Cost(i) > remaining
    /\ tiers[2] # <<>> /\ <<2, 1>> \notin included =>
         Cardinality(Tokens(FirstRules)) + Cardinality(FirstRules)
           + ApproxTokens(tiers[2][1]) > Budget

(* A session that was marked has been shown the identity, unless it was edited   *)
(* meanwhile: then there was none at the time of the mark                      *)
(* (hook_sessionstart.go 209-222).                                            *)
MarkIsEarned == marked => <<2, 1>> \in included \/ identity # edits \/ file = 0
================================================================================
