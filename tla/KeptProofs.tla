----------------------------- MODULE KeptProofs -----------------------------
(***************************************************************************)
(* WholeOrNotAtAll and AnswersAreSound, which MCCallers checks on a small      *)
(* instance, for any number of processes, updaters, sessions and memories, and *)
(* for models, budgets and lists of results of any length.                    *)
(*                                                                         *)
(* The first says of every state that what is replaced is whole.  The copy of a *)
(* database that is shrunk holds what was written before the swap (SHInv); a   *)
(* binary that is missing is one that a swap has put aside (SUInv); a plugin   *)
(* is swapped by the holder of the lock, which has copied all of it (PSInv); a *)
(* file of a model holds the first chunks the server sent, and who writes it   *)
(* stands at the next (MDInv); and a block has paid for each item it took, and *)
(* passed over what no longer fits (SBInv).                                   *)
(*                                                                         *)
(* The second says of an answer what it may not miss: what the scan has kept    *)
(* comes before all else it has seen (SRInv), and a hit of the merge stands for *)
(* one memory of each engine and no other hit for the same (FSInv).            *)
(***************************************************************************)
EXTENDS MCCallers, FiniteSetTheorems, SequenceTheorems, WellFoundedInduction, TLAPS

-----------------------------------------------------------------------------
(* Shrink.  Who has the file open and what the copy holds at each step; the   *)
(* inode in place is one of those used so far, so a new copy is another, which  *)
(* nobody has open.                                                          *)
SHCopies ==
  /\ path <= copies /\ shTmp <= copies
  /\ \A u \in Users : handle[u] <= copies
  /\ shPc = "vacuum" => copies < 3
  /\ shPc \in {"verify", "close", "swap"} =>
       shTmp \in SH!Inodes \ {path} /\ \A u \in Users : handle[u] # shTmp

SHCopied ==
  /\ SH!Locked => SH!Alone
  /\ shPc = "close" => content[shTmp] = content[path]
  /\ shPc = "swap" => shCrossed \/ \A w \in 0 .. shWrites : w \in content[shTmp] \cup window

(* While nobody came between, each has the file and the log in place, and none   *)
(* has it open from the lock to the removal of the log.                       *)
SHGap ==
  ~gap => /\ window = {} /\ ~shCrossed /\ cut = {}
          /\ \A u \in Users : handle[u] \in {SH!Nothing, path}
          /\ SH!Locked \/ SH!Closed => \A u \in Users : handle[u] = SH!Nothing
          /\ shPc # "wal" => ~SH!Stale

SHInv == SH!TypeOK /\ SHCopies /\ SHCopied /\ SHGap /\ SH!OnlyWindowLost

(* Bounds are numbers.                                                       *)
LEMMA SHNumbers == shMaxWrites \in Nat
BY CallersAssumption

(* The file as it was before the command.                                    *)
LEMMA SHInit == SH!Init => SHInv
<1> USE DEF SH!Inodes, SH!Nothing
<1> SUFFICES ASSUME SH!Init PROVE SHInv
  OBVIOUS
<1>1. SH!TypeOK
  <2>1. {gap, shCrossed} \subseteq BOOLEAN /\ window \subseteq 0 .. shMaxWrites
    BY DEF SH!Init
  <2> QED BY <2>1, SHNumbers DEF SH!Init, SH!TypeOK
<1>2. SHCopies /\ SHCopied
  BY DEF SH!Init, SHCopies, SHCopied, SH!Locked
<1>3. SHGap
  BY DEF SH!Init, SHGap, SH!Locked, SH!Closed, SH!Stale
<1>4. SH!OnlyWindowLost
  BY DEF SH!Init, SH!OnlyWindowLost
<1> QED BY <1>1, <1>2, <1>3, <1>4 DEF SHInv

(* A process opens, writes, closes.                                          *)
LEMMA SHUser ==
  ASSUME SHInv, NEW u \in Users, SH!Open(u) \/ SH!Write(u) \/ SH!Close(u)
  PROVE  SHInv'
<1> USE DEF SHInv, SH!TypeOK, SHCopies, SHCopied, SHGap, SH!Locked, SH!Closed, SH!Stale, SH!Alone,
  SH!OnlyWindowLost, SH!Inodes, SH!Nothing, SH!files, SH!aux
<1>1. CASE SH!Open(u)
  <2>1. /\ handle[u] = SH!Nothing /\ ~SH!Locked
        /\ handle' = [handle EXCEPT ![u] = path]
        /\ shLog' = IF shLog = SH!Nothing THEN path ELSE shLog
        /\ shCrossed' = (shCrossed \/ SH!Stale \/ \E v \in cut : handle[v] = path)
        /\ gap' = (gap \/ SH!Closed)
        /\ UNCHANGED <<path, shTmp, content, copies, shPc, cut, shWrites, window>>
    BY <1>1 DEF SH!Open, SH!TakeLog
  <2>2. SH!TypeOK'
    <3>1. {gap', shCrossed'} \subseteq BOOLEAN
      BY <2>1
    <3> QED BY <2>1, <3>1
  <2>3. SHCopies' /\ SHCopied'
    BY <2>1
  <2>4. SHGap'
    BY <2>1
  <2>5. SH!OnlyWindowLost'
    BY <2>1, <2>4
  <2> QED BY <2>2, <2>3, <2>4, <2>5
<1>2. CASE SH!Write(u)
  <2>1. /\ handle[u] \in 1 .. 3 /\ shWrites \in Nat /\ shWrites + 1 \in 0 .. shMaxWrites
    BY <1>2, SHNumbers DEF SH!Write
  <2>2. /\ shWrites' = shWrites + 1
        /\ content' = [content EXCEPT ![handle[u]] = content[handle[u]] \cup {shWrites + 1}]
        /\ window' = IF SH!Closed \/ handle[u] # path \/ u \in cut THEN window \cup {shWrites + 1} ELSE window
        /\ UNCHANGED <<path, shTmp, copies, shPc, handle, shLog, cut, gap, shCrossed>>
    BY <1>2 DEF SH!Write
  <2>3. SH!TypeOK'
    BY <2>1, <2>2
  <2>4. \A i \in SH!Inodes : content[i] \subseteq content'[i]
    BY <2>1, <2>2
  <2>5. window \subseteq window' /\ shWrites' \in content'[path] \cup window'
    BY <2>1, <2>2
  <2>6. (shCrossed \/ \A w \in 0 .. shWrites : w \in content[path] \cup window)'
    BY <2>1, <2>2, <2>4, <2>5
  <2>7. shPc = "swap" => shWrites' \in window'
    BY <2>2
  <2>8. (shPc = "swap" => shCrossed \/ \A w \in 0 .. shWrites : w \in content[shTmp] \cup window)'
    BY <2>1, <2>2, <2>4, <2>5, <2>7
  <2>9. (shPc = "close" => content[shTmp] = content[path])'
    BY <2>1, <2>2
  <2>10. SHCopies' /\ SHCopied'
    BY <2>2, <2>8, <2>9
  <2>11. SHGap'
    <3>1. ~gap => ~(SH!Closed \/ handle[u] # path \/ u \in cut)
      BY <2>1
    <3> QED BY <2>2, <3>1
  <2>12. (window # {} \/ shCrossed => gap)'
    BY <2>11
  <2> QED BY <2>3, <2>6, <2>10, <2>11, <2>12
<1>3. CASE SH!Close(u)
  <2>1. /\ handle' = [handle EXCEPT ![u] = SH!Nothing] /\ shLog' \in {shLog, SH!Nothing} /\ cut' = cut \ {u}
        /\ UNCHANGED <<path, shTmp, content, copies, shPc, shWrites, window, gap, shCrossed>>
    BY <1>3 DEF SH!Close
  <2>2. SH!TypeOK' /\ SHCopies' /\ SHCopied'
    BY <2>1
  <2>3. SHGap'
    BY <2>1
  <2> QED BY <2>1, <2>2, <2>3
<1> QED BY <1>1, <1>2, <1>3

(* The command takes the database to itself; it fails, with its log left or not. *)
LEMMA SHTakes ==
  ASSUME SHInv, SH!OpenExclusive \/ SH!CloseOwn \/ SH!Crash
  PROVE  SHInv'
<1> USE DEF SHInv, SH!TypeOK, SHCopies, SHCopied, SHGap, SH!Locked, SH!Closed, SH!Stale, SH!Alone,
  SH!OnlyWindowLost, SH!Inodes, SH!Nothing, SH!files, SH!aux
<1>1. CASE SH!OpenExclusive
  <2>1. /\ shPc = "idle" /\ copies < 3 /\ SH!Alone /\ shPc' = "vacuum"
        /\ shLog' = IF shLog = SH!Nothing THEN path ELSE shLog
        /\ shCrossed' = (shCrossed \/ SH!Stale \/ \E v \in cut : handle[v] = path)
        /\ UNCHANGED <<path, shTmp, content, copies, handle, cut, shWrites, window, gap>>
    BY <1>1 DEF SH!OpenExclusive, SH!TakeLog
  <2>2. SH!TypeOK'
    <3>1. {gap', shCrossed'} \subseteq BOOLEAN
      BY <2>1
    <3> QED BY <2>1, <3>1
  <2>3. SHCopies' /\ SHCopied'
    BY <2>1
  <2>4. SHGap'
    BY <2>1
  <2> QED BY <2>1, <2>2, <2>3, <2>4
<1>2. CASE SH!CloseOwn
  <2>1. /\ shPc = "close" /\ shPc' = "swap" /\ shLog' \in {SH!Nothing, shLog}
        /\ UNCHANGED <<path, shTmp, content, copies, handle, cut, shWrites, window, gap, shCrossed>>
    BY <1>2 DEF SH!CloseOwn
  <2>2. SH!TypeOK' /\ SHCopies' /\ SHCopied'
    BY <2>1
  <2>3. SHGap'
    BY <2>1
  <2> QED BY <2>1, <2>2, <2>3
<1>3. CASE SH!Crash
  <2>1. /\ shPc' = "idle" /\ gap' = (gap \/ SH!Stale)
        /\ UNCHANGED <<path, shTmp, content, copies, handle, shLog, cut, shWrites, window, shCrossed>>
    BY <1>3 DEF SH!Crash
  <2>2. SH!TypeOK' /\ SHCopies' /\ SHCopied'
    <3>1. {gap', shCrossed'} \subseteq BOOLEAN
      BY <2>1
    <3> QED BY <2>1, <3>1
  <2>3. SHGap'
    BY <2>1
  <2> QED BY <2>1, <2>2, <2>3
<1> QED BY <1>1, <1>2, <1>3

(* The copy is made, and read back.                                           *)
LEMMA SHMakes ==
  ASSUME SHInv, SH!Vacuum \/ SH!Verify
  PROVE  SHInv'
<1> USE DEF SHInv, SH!TypeOK, SHCopies, SHCopied, SHGap, SH!Locked, SH!Closed, SH!Stale, SH!Alone,
  SH!OnlyWindowLost, SH!Inodes, SH!Nothing, SH!files, SH!aux
<1>1. CASE SH!GivesUp /\ UNCHANGED <<path, content, copies, handle, cut, shWrites, window, gap, shCrossed>>
  <2>1. shPc' = "idle" /\ shTmp' = SH!Nothing /\ shLog' \in {SH!Nothing, shLog}
    BY <1>1 DEF SH!GivesUp
  <2>2. SH!TypeOK' /\ SHCopies' /\ SHCopied'
    BY <1>1, <2>1
  <2>3. shPc # "wal"
    BY DEF SH!Vacuum, SH!Verify
  <2>4. SHGap'
    BY <1>1, <2>1, <2>3
  <2> QED BY <1>1, <2>2, <2>4
<1>2. CASE shPc = "vacuum" /\ ~SH!GivesUp
  <2>1. PICK part \in SUBSET content[path] :
          /\ content' = [content EXCEPT ![copies + 1] = part]
          /\ shTmp' = copies + 1 /\ copies' = copies + 1 /\ shPc' = "verify"
          /\ UNCHANGED <<path, shLog, handle, cut, shWrites, window, gap, shCrossed>>
    BY <1>2 DEF SH!Vacuum, SH!Verify
  <2>2. copies + 1 \in 1 .. 3 /\ path # copies + 1
    BY <1>2
  <2>3. SH!TypeOK'
    <3>1. content' \in [1 .. 3 -> SUBSET (0 .. shMaxWrites)]
      BY <2>1, <2>2
    <3>2. shPc' \in {"idle", "vacuum", "verify", "close", "swap", "wal"} /\ shTmp' \in 1 .. 3 /\ copies' \in 1 .. 3
      BY <2>1, <2>2
    <3> QED BY <2>1, <3>1, <3>2
  <2>4. content'[path] = content[path]
    BY <2>1, <2>2
  <2>5. SHCopies'
    <3>1. \A u \in Users : handle'[u] <= copies' /\ handle'[u] # shTmp'
      BY <2>1, <2>2
    <3>2. path' <= copies' /\ shTmp' <= copies' /\ shTmp' \in 1 .. 3 /\ shTmp' # path'
      BY <2>1, <2>2
    <3> QED BY <2>1, <3>1, <3>2
  <2>6. SHCopied' /\ SHGap'
    BY <1>2, <2>1
  <2> QED BY <2>1, <2>3, <2>4, <2>5, <2>6
<1>3. CASE shPc = "verify" /\ ~SH!GivesUp
  <2>1. /\ content[shTmp] = content[path] /\ shPc' = "close"
        /\ UNCHANGED <<path, shTmp, content, copies, handle, shLog, cut, shWrites, window, gap, shCrossed>>
    BY <1>3 DEF SH!Vacuum, SH!Verify
  <2>2. SH!TypeOK' /\ SHCopies' /\ SHCopied'
    BY <1>3, <2>1
  <2>3. SHGap'
    BY <1>3, <2>1
  <2> QED BY <2>1, <2>2, <2>3
<1>4. shPc = "vacuum" \/ shPc = "verify"
  BY DEF SH!Vacuum, SH!Verify
<1>5. SH!GivesUp => UNCHANGED <<path, content, copies, handle, cut, shWrites, window, gap, shCrossed>>
  BY DEF SH!Vacuum, SH!Verify, SH!GivesUp
<1> QED BY <1>1, <1>2, <1>3, <1>4, <1>5

(* The copy takes the name, then the log goes.                                *)
LEMMA SHSwaps ==
  ASSUME SHInv, SH!Swap \/ SH!RemoveLog
  PROVE  SHInv'
<1> USE DEF SHInv, SH!TypeOK, SHCopies, SHCopied, SHGap, SH!Locked, SH!Closed, SH!Stale, SH!Alone,
  SH!OnlyWindowLost, SH!Inodes, SH!Nothing, SH!files, SH!aux
<1>1. CASE SH!Swap
  <2>1. /\ shPc = "swap" /\ ((path' = shTmp /\ shPc' = "wal") \/ (path' = path /\ shPc' = "idle"))
        /\ shTmp' = SH!Nothing
        /\ UNCHANGED <<content, copies, handle, shLog, cut, shWrites, window, gap, shCrossed>>
    BY <1>1 DEF SH!Swap
  <2>2. SH!TypeOK' /\ SHCopies' /\ SHCopied'
    BY <2>1
  <2>3. SHGap'
    BY <2>1
  <2>4. SH!OnlyWindowLost'
    BY <2>1
  <2> QED BY <2>2, <2>3, <2>4
<1>2. CASE SH!RemoveLog
  <2>1. /\ shPc = "wal" /\ shPc' = "idle"
        /\ \/ shLog' = SH!Nothing /\ cut' = cut \cup {u \in Users : handle[u] = path} /\ gap' = gap
           \/ gap' = (gap \/ SH!Stale) /\ UNCHANGED <<shLog, cut>>
        /\ UNCHANGED <<path, shTmp, content, copies, handle, shWrites, window, shCrossed>>
    BY <1>2 DEF SH!RemoveLog
  <2>2. SH!TypeOK' /\ SHCopies' /\ SHCopied'
    <3>1. {gap', shCrossed'} \subseteq BOOLEAN /\ cut' \subseteq Users
      BY <2>1
    <3> QED BY <2>1, <3>1
  <2>3. SHGap'
    <3>1. ~gap => {u \in Users : handle[u] = path} = {}
      BY <2>1
    <3> QED BY <2>1, <3>1
  <2>4. SH!OnlyWindowLost'
    BY <2>1, <2>3
  <2> QED BY <2>2, <2>3, <2>4
<1> QED BY <1>1, <1>2

(* Whatever happens around the swap.                                         *)
LEMMA SHStep == SHInv /\ [Move]_all => SHInv'
<1> SUFFICES ASSUME SHInv, [Move]_all PROVE SHInv'
  OBVIOUS
<1>1. [SH!Next]_shState
  BY DEF Move, all
<1>2. CASE UNCHANGED shState
  BY <1>2 DEF shState, SHInv, SH!TypeOK, SHCopies, SHCopied, SHGap, SH!Locked, SH!Closed, SH!Stale,
    SH!Alone, SH!OnlyWindowLost
<1> QED BY <1>1, <1>2, SHUser, SHTakes, SHMakes, SHSwaps DEF SH!Next

-----------------------------------------------------------------------------
(* SelfUpdate.  An updater has found a release before it decides, and in the     *)
(* swap knows whether it has a backup.                                        *)
Found   == SU!Swap \cup {"decide", "consent", "digest", "download"}
Updates(r) ==
  /\ "pc" \in DOMAIN r
  /\ r.pc \in Found => "found" \in DOMAIN r /\ r.found \in Nat \ {0}
  /\ r.pc \in SU!Swap \ {"stat"} => "backedUp" \in DOMAIN r /\ r.backedUp \in BOOLEAN

(* Unless two swaps overlapped, one updater swaps at most, and what it is about    *)
(* to take away is still somewhere; without a crash, a binary that is missing    *)
(* is the one a swap has put aside.                                           *)
Aside(u) == suRun[u].pc \in {"rename", "rollback"} /\ suRun[u].backedUp /\ prev # SU!Missing
Uncrossed ==
  /\ \A u, v \in SU!Swapping : u = v
  /\ bin # SU!Missing \/ prev # SU!Missing
  /\ \A u \in Runs : suRun[u].pc \in {"clear", "backup"} => bin # SU!Missing
  /\ (\A u \in Runs : suRun[u].pc # "crashed") /\ bin = SU!Missing => \E u \in Runs : Aside(u)
SUInv ==
  /\ latest \in Nat \ {0} /\ suFails \in Nat /\ crossed \in BOOLEAN
  /\ DOMAIN suRun = Runs /\ \A u \in Runs : Updates(suRun[u])
  /\ suFails = 0 => \A u \in Runs : suRun[u].pc \notin {"rollback", "crashed"}
  /\ suFails = 0 /\ bin = SU!Missing => \E u \in Runs : suRun[u].pc = "rename"
  /\ ~crossed => Uncrossed

LEMMA SUSurvives == SUInv => SU!BinarySurvives
<1> SUFFICES ASSUME SUInv PROVE SU!BinarySurvives
  OBVIOUS
<1>1. \A u \in Runs : suRun[u].pc = "rename" \/ Aside(u) => u \in SU!Swapping
  BY DEF Aside, SU!Swapping, SU!Swap
<1> QED BY <1>1 DEF SUInv, Uncrossed, SU!BinarySurvives

LEMMA SUInit == SU!Init => SUInv
<1> SUFFICES ASSUME SU!Init PROVE SUInv
  OBVIOUS
<1>1. bin # SU!Missing
  BY DEF SU!Init, SU!Missing, SU!Nobody
<1>2. \A u \in Runs : suRun[u] = [pc |-> "start"]
  BY DEF SU!Init
<1>3. \A u \in Runs : Updates(suRun[u])
  BY <1>2 DEF Updates, Found, SU!Swap
<1>4. SU!Swapping = {}
  BY <1>2 DEF SU!Swapping, SU!Swap
<1>5. latest = 1 /\ suFails = 0 /\ crossed = FALSE /\ DOMAIN suRun = Runs
  BY DEF SU!Init
<1>6. \A u \in Runs : suRun[u].pc = "start"
  BY <1>2
<1>7. Uncrossed
  BY <1>1, <1>4, <1>6 DEF Uncrossed
<1>8. latest \in Nat \ {0} /\ suFails \in Nat /\ crossed \in BOOLEAN
  <2>1. latest \in Nat \ {0} /\ suFails \in Nat
    BY <1>5
  <2>2. crossed \in BOOLEAN
    BY <1>5
  <2> QED BY <2>1, <2>2
<1>9. suFails = 0 => \A u \in Runs : suRun[u].pc \notin {"rollback", "crashed"}
  BY <1>6
<1>10. suFails = 0 /\ bin = SU!Missing => \E u \in Runs : suRun[u].pc = "rename"
  BY <1>1
<1> QED BY <1>3, <1>5, <1>7, <1>8, <1>9, <1>10 DEF SUInv

(* What an updater does before its swap.                                     *)
LEMMA SUBefore ==
  ASSUME SUInv, NEW u \in Runs, NEW r, Updates(r), r.pc \notin {"clear", "backup", "rename", "rollback", "crashed"},
         r.pc = "stat" => suRun[u].pc = "download" /\ crossed' = (crossed \/ SU!Swapping # {}),
         r.pc # "stat" => crossed' \in {crossed, TRUE},
         suRun[u].pc \notin SU!Swap \cup {"crashed"},
         suRun' = [suRun EXCEPT ![u] = r], UNCHANGED <<bin, prev, suFails>>, latest' \in Nat \ {0}
  PROVE  SUInv'
<1>1. DOMAIN suRun' = Runs /\ suRun'[u] = r /\ \A v \in Runs \ {u} : suRun'[v] = suRun[v]
  BY DEF SUInv
<1>2. \A v \in Runs : Updates(suRun[v])' 
  BY <1>1 DEF SUInv, Updates
<1>3. suFails' = 0 => \A v \in Runs : suRun'[v].pc \notin {"rollback", "crashed"}
  BY <1>1 DEF SUInv
<1>4. suFails' = 0 /\ bin' = SU!Missing => \E v \in Runs : suRun'[v].pc = "rename"
  BY <1>1 DEF SUInv, SU!Swap
<1>5. ASSUME ~crossed' PROVE Uncrossed'
  <2>1. ~crossed /\ Uncrossed
    BY <1>5 DEF SUInv
  <2>2. \A v \in SU!Swapping' : v = u \/ v \in SU!Swapping
    BY <1>1 DEF SU!Swapping
  <2>3. u \in SU!Swapping' => SU!Swapping = {}
    BY <1>1, <1>5 DEF SU!Swapping, SU!Swap
  <2>4. \A v, w \in SU!Swapping' : v = w
    BY <2>1, <2>2, <2>3 DEF Uncrossed
  <2>5. \A v \in Runs : Aside(v) => Aside(v)'
    BY <1>1 DEF Aside, SU!Swap
  <2>6. (\A v \in Runs : suRun'[v].pc # "crashed") => \A v \in Runs : suRun[v].pc # "crashed"
    BY <1>1
  <2>7. \A v \in Runs : suRun'[v].pc \in {"clear", "backup"} => bin' # SU!Missing
    BY <1>1, <2>1 DEF Uncrossed
  <2> QED BY <2>1, <2>4, <2>5, <2>6, <2>7 DEF Uncrossed
<1>6. crossed' \in BOOLEAN
  BY DEF SUInv
<1> QED BY <1>1, <1>2, <1>3, <1>4, <1>5, <1>6 DEF SUInv

LEMMA SUGoes ==
  ASSUME NEW u \in Runs, NEW c, SUInv, SU!Go(u, c), c \in Found => suRun[u].pc \in Found,
         c \in SU!Swap \ {"stat"} => suRun[u].pc \in SU!Swap \ {"stat"}
  PROVE  \E r : /\ suRun' = [suRun EXCEPT ![u] = r] /\ Updates(r) /\ r.pc = c
                /\ c \in SU!Swap \ {"stat"} => r.backedUp = suRun[u].backedUp
<1>1. suRun' = [suRun EXCEPT ![u] = [suRun[u] EXCEPT !.pc = c]]
  BY DEF SU!Go
<1>2. Updates(suRun[u])
  BY DEF SUInv
<1> DEFINE r == [suRun[u] EXCEPT !.pc = c]
<1>3. r.pc = c /\ Updates(r)
  BY <1>2 DEF Updates
<1>4. c \in SU!Swap \ {"stat"} => r.backedUp = suRun[u].backedUp
  BY <1>2 DEF Updates
<1> QED BY <1>1, <1>3, <1>4

LEMMA SULooks ==
  ASSUME SUInv, NEW u \in Runs,
         \/ SU!Check(u) \/ SU!Resolve(u) \/ SU!Decide(u) \/ SU!Consent(u) \/ SU!Digest(u)
         \/ SU!Download(u) \/ \E k \in SU!Kinds : SU!Start(u, k)
  PROVE  SUInv'
<1> DEFINE Safe == {"clear", "backup", "rename", "rollback", "crashed"}
<1>1. UNCHANGED <<bin, prev, suFails, latest>>
  BY DEF SU!Check, SU!Resolve, SU!Decide, SU!Consent, SU!Digest, SU!Download, SU!Start
<1>2. suRun[u].pc \notin SU!Swap \cup {"crashed"}
  BY DEF SU!Check, SU!Resolve, SU!Decide, SU!Consent, SU!Digest, SU!Download, SU!Start, SU!Swap
<1>3. latest \in Nat \ {0} /\ Updates(suRun[u])
  BY DEF SUInv
<1>4. CASE SU!Check(u)
  <2>1. PICK r : r = [pc |-> IF SU!Guard(suRun[u]) # "none" /\ suRun[u].kind = "serve" THEN "refused" ELSE "resolve",
                      kind |-> suRun[u].kind, current |-> suRun[u].current, blocked |-> SU!Guard(suRun[u])]
    OBVIOUS
  <2>2. suRun' = [suRun EXCEPT ![u] = r] /\ UNCHANGED crossed
    BY <1>4, <2>1 DEF SU!Check
  <2>3. r.pc \in {"refused", "resolve"} /\ Updates(r)
    BY <2>1 DEF Updates, Found, SU!Swap
  <2> QED BY <1>1, <1>2, <1>3, <2>2, <2>3, SUBefore
<1>5. CASE SU!Resolve(u)
  <2>1. UNCHANGED crossed
    BY <1>5 DEF SU!Resolve
  <2>2. CASE SU!Go(u, "failed")
    <3>1. PICK r : suRun' = [suRun EXCEPT ![u] = r] /\ Updates(r) /\ r.pc = "failed"
      BY <2>2, SUGoes DEF Found, SU!Swap
    <3> QED BY <1>1, <1>2, <1>3, <2>1, <3>1, SUBefore
  <2>3. CASE ~SU!Go(u, "failed")
    <3>1. PICK r : r = [pc |-> "decide", kind |-> suRun[u].kind, current |-> suRun[u].current, found |-> latest,
                        blocked |-> IF suRun[u].blocked = "none" /\ ~SU!Newer(latest, suRun[u].current)
                                    THEN "not-newer" ELSE suRun[u].blocked]
      OBVIOUS
    <3>2. suRun' = [suRun EXCEPT ![u] = r]
      BY <1>5, <2>3, <3>1 DEF SU!Resolve
    <3>3. r.pc = "decide" /\ Updates(r)
      BY <1>3, <3>1 DEF Updates, Found, SU!Swap
    <3> QED BY <1>1, <1>2, <1>3, <2>1, <3>2, <3>3, SUBefore
  <2> QED BY <2>2, <2>3
<1>6. CASE SU!Decide(u) \/ SU!Consent(u) \/ SU!Digest(u)
  <2>1. PICK c \in {"digest", "consent", "refused", "download", "failed"} : SU!Go(u, c)
    BY <1>6 DEF SU!Decide, SU!Consent, SU!Digest
  <2>2. suRun[u].pc \in Found /\ UNCHANGED crossed
    BY <1>6 DEF SU!Decide, SU!Consent, SU!Digest, Found
  <2>3. PICK r : suRun' = [suRun EXCEPT ![u] = r] /\ Updates(r) /\ r.pc = c
    BY <2>1, <2>2, SUGoes DEF SU!Swap
  <2> QED BY <1>1, <1>2, <1>3, <2>1, <2>2, <2>3, SUBefore
<1>7. CASE SU!Download(u)
  <2>1. PICK c \in {"stat", "failed"} : SU!Go(u, c)
    BY <1>7 DEF SU!Download
  <2>2. suRun[u].pc = "download" /\ crossed' = (crossed \/ SU!Swapping # {})
    BY <1>7 DEF SU!Download
  <2>3. PICK r : suRun' = [suRun EXCEPT ![u] = r] /\ Updates(r) /\ r.pc = c
    BY <2>1, <2>2, SUGoes DEF SU!Swap, Found
  <2>4. crossed' \in {crossed, TRUE}
    BY <2>2 DEF SUInv
  <2> QED BY <1>1, <1>2, <1>3, <2>1, <2>2, <2>3, <2>4, SUBefore
<1>8. CASE \E k \in SU!Kinds : SU!Start(u, k)
  <2>1. PICK k \in SU!Kinds : SU!Start(u, k)
    BY <1>8
  <2>2. PICK r : r = [pc |-> "check", kind |-> k, current |-> bin.ver]
    OBVIOUS
  <2>3. suRun' = [suRun EXCEPT ![u] = r] /\ UNCHANGED crossed
    BY <2>1, <2>2 DEF SU!Start
  <2>4. r.pc = "check" /\ Updates(r)
    BY <2>2 DEF Updates, Found, SU!Swap
  <2> QED BY <1>1, <1>2, <1>3, <2>3, <2>4, SUBefore
<1> QED BY <1>4, <1>5, <1>6, <1>7, <1>8

(* One that swaps alone.  Every other keeps its place.                         *)
LEMMA SUOne ==
  ASSUME SUInv, NEW u \in Runs, NEW r, Updates(r), suRun' = [suRun EXCEPT ![u] = r],
         suRun[u].pc \in SU!Swap, UNCHANGED <<latest, crossed>>, suFails' \in Nat
  PROVE  /\ DOMAIN suRun' = Runs /\ suRun'[u] = r /\ \A v \in Runs \ {u} : suRun'[v] = suRun[v]
         /\ \A v \in Runs : Updates(suRun[v])'
         /\ ~crossed' => /\ Uncrossed
                         /\ \A v \in Runs \ {u} : suRun[v].pc \notin SU!Swap /\ ~Aside(v)
                         /\ \A v, w \in SU!Swapping' : v = w
<1>1. DOMAIN suRun' = Runs /\ suRun'[u] = r /\ \A v \in Runs \ {u} : suRun'[v] = suRun[v]
  BY DEF SUInv
<1>2. \A v \in Runs : Updates(suRun[v])'
  BY <1>1 DEF SUInv, Updates
<1>3. ASSUME ~crossed'
      PROVE  /\ Uncrossed /\ \A v \in Runs \ {u} : suRun[v].pc \notin SU!Swap /\ ~Aside(v)
             /\ \A v, w \in SU!Swapping' : v = w
  <2>1. Uncrossed
    BY <1>3 DEF SUInv
  <2>2. \A v \in Runs \ {u} : suRun[v].pc \notin SU!Swap
    BY <2>1 DEF Uncrossed, SU!Swapping
  <2>3. \A v \in Runs \ {u} : ~Aside(v)
    BY <2>2 DEF Aside, SU!Swap
  <2>4. \A v \in SU!Swapping' : v = u
    BY <1>1, <2>2 DEF SU!Swapping
  <2> QED BY <2>1, <2>2, <2>3, <2>4
<1> QED BY <1>1, <1>2, <1>3

LEMMA SUSwaps ==
  ASSUME SUInv, NEW u \in Runs,
         SU!StatBin(u) \/ SU!ClearPrev(u) \/ SU!Backup(u)
  PROVE  SUInv'
<1>1. Updates(suRun[u]) /\ suRun[u].pc \in SU!Swap /\ suRun[u].pc \in Found /\ latest \in Nat \ {0}
      /\ suFails \in Nat /\ crossed \in BOOLEAN
  BY DEF SUInv, SU!StatBin, SU!ClearPrev, SU!Backup, SU!Swap, Found
<1>2. UNCHANGED <<latest, suFails, crossed>>
  BY DEF SU!StatBin, SU!ClearPrev, SU!Backup
<1>3. CASE SU!StatBin(u)
  <2>1. PICK r : r = [pc |-> IF bin = SU!Missing THEN "rename" ELSE "clear", kind |-> suRun[u].kind,
                      current |-> suRun[u].current, found |-> suRun[u].found, backedUp |-> FALSE]
    OBVIOUS
  <2>2. suRun' = [suRun EXCEPT ![u] = r] /\ UNCHANGED <<bin, prev>> /\ suRun[u].pc = "stat"
    BY <1>3, <2>1 DEF SU!StatBin
  <2>3. Updates(r) /\ r.pc = (IF bin = SU!Missing THEN "rename" ELSE "clear")
    BY <1>1, <2>1 DEF Updates
  <2>4. DOMAIN suRun' = Runs /\ suRun'[u] = r /\ \A v \in Runs \ {u} : suRun'[v] = suRun[v]
    BY <1>1, <1>2, <2>2, <2>3, SUOne
  <2>5. \A v \in Runs : Updates(suRun[v])'
    BY <1>1, <1>2, <2>2, <2>3, SUOne
  <2>6. ASSUME ~crossed' PROVE Uncrossed'
    <3>1. /\ Uncrossed /\ \A v \in Runs \ {u} : suRun[v].pc \notin SU!Swap /\ ~Aside(v)
          /\ \A v, w \in SU!Swapping' : v = w
      BY <1>1, <1>2, <2>2, <2>3, <2>6, SUOne
    <3>2. ~Aside(u)
      BY <2>2 DEF Aside
    <3>3. \A v \in Runs : suRun'[v].pc \in {"clear", "backup"} => bin' # SU!Missing
      BY <2>2, <2>3, <2>4, <3>1 DEF SU!Swap
    <3>4. (\A v \in Runs : suRun'[v].pc # "crashed") => bin' # SU!Missing
      BY <2>2, <2>4, <3>1, <3>2 DEF Uncrossed
    <3> QED BY <2>2, <3>1, <3>3, <3>4 DEF Uncrossed
  <2>7. suFails' = 0 => \A v \in Runs : suRun'[v].pc \notin {"rollback", "crashed"}
    BY <1>2, <2>3, <2>4 DEF SUInv
  <2>8. suFails' = 0 /\ bin' = SU!Missing => suRun'[u].pc = "rename"
    BY <2>2, <2>3, <2>4
  <2> QED BY <1>1, <1>2, <2>4, <2>5, <2>6, <2>7, <2>8 DEF SUInv
<1>4. CASE SU!ClearPrev(u)
  <2>1. UNCHANGED bin /\ suRun[u].pc = "clear" /\ SU!Go(u, "backup")
    BY <1>4 DEF SU!ClearPrev
  <2>2. PICK r : suRun' = [suRun EXCEPT ![u] = r] /\ Updates(r) /\ r.pc = "backup"
    BY <1>1, <2>1, SUGoes DEF SU!Swap
  <2>3. DOMAIN suRun' = Runs /\ suRun'[u] = r /\ \A v \in Runs \ {u} : suRun'[v] = suRun[v]
    BY <1>1, <1>2, <2>2, SUOne
  <2>4. \A v \in Runs : Updates(suRun[v])'
    BY <1>1, <1>2, <2>2, SUOne
  <2>5. ASSUME ~crossed' PROVE Uncrossed'
    <3>1. /\ Uncrossed /\ \A v, w \in SU!Swapping' : v = w
      BY <1>1, <1>2, <2>2, <2>5, SUOne
    <3>2. bin' # SU!Missing
      BY <2>1, <3>1 DEF Uncrossed
    <3> QED BY <3>1, <3>2 DEF Uncrossed
  <2>6. suFails' = 0 => \A v \in Runs : suRun'[v].pc \notin {"rollback", "crashed"}
    BY <1>2, <2>2, <2>3 DEF SUInv
  <2>7. suFails' = 0 /\ bin' = SU!Missing => \E v \in Runs : suRun'[v].pc = "rename"
    BY <1>2, <2>1, <2>3 DEF SUInv
  <2> QED BY <1>1, <1>2, <2>3, <2>4, <2>5, <2>6, <2>7 DEF SUInv
<1>5. CASE SU!Backup(u) /\ bin = SU!Missing
  <2>1. UNCHANGED <<bin, prev>> /\ suRun[u].pc = "backup" /\ SU!Go(u, "failed")
    BY <1>5 DEF SU!Backup
  <2>2. PICK r : suRun' = [suRun EXCEPT ![u] = r] /\ Updates(r) /\ r.pc = "failed"
    BY <1>1, <2>1, SUGoes DEF SU!Swap, Found
  <2>3. DOMAIN suRun' = Runs /\ suRun'[u] = r /\ \A v \in Runs \ {u} : suRun'[v] = suRun[v]
    BY <1>1, <1>2, <2>2, SUOne
  <2>4. \A v \in Runs : Updates(suRun[v])'
    BY <1>1, <1>2, <2>2, SUOne
  <2>5. crossed'
    <3>1. SUFFICES ASSUME ~crossed PROVE FALSE
      BY <1>1, <1>2
    <3> QED BY <1>5, <2>1, <3>1 DEF SUInv, Uncrossed
  <2>6. suFails' = 0 => \A v \in Runs : suRun'[v].pc \notin {"rollback", "crashed"}
    BY <1>2, <2>2, <2>3 DEF SUInv
  <2>7. suFails' = 0 /\ bin' = SU!Missing => \E v \in Runs : suRun'[v].pc = "rename"
    BY <1>2, <2>1, <2>3 DEF SUInv
  <2> QED BY <1>1, <1>2, <2>3, <2>4, <2>5, <2>6, <2>7 DEF SUInv
<1>6. CASE SU!Backup(u) /\ bin # SU!Missing
  <2>1. prev' = bin /\ suRun[u].pc = "backup"
        /\ suRun' = [suRun EXCEPT ![u].pc = "rename", ![u].backedUp = TRUE]
    BY <1>6 DEF SU!Backup
  <2>2. PICK r : r = [[suRun[u] EXCEPT !.pc = "rename"] EXCEPT !.backedUp = TRUE]
    OBVIOUS
  <2>3. suRun' = [suRun EXCEPT ![u] = r]
    BY <2>1, <2>2
  <2>4. Updates(r) /\ r.pc = "rename" /\ r.backedUp = TRUE
    BY <1>1, <2>1, <2>2 DEF Updates, SU!Swap, Found
  <2>5. DOMAIN suRun' = Runs /\ suRun'[u] = r /\ \A v \in Runs \ {u} : suRun'[v] = suRun[v]
    BY <1>1, <1>2, <2>3, <2>4, SUOne
  <2>6. \A v \in Runs : Updates(suRun[v])'
    BY <1>1, <1>2, <2>3, <2>4, SUOne
  <2>7. ASSUME ~crossed' PROVE Uncrossed'
    <3>1. /\ \A v \in Runs \ {u} : suRun[v].pc \notin SU!Swap
          /\ \A v, w \in SU!Swapping' : v = w
      BY <1>1, <1>2, <2>3, <2>4, <2>7, SUOne
    <3>2. Aside(u)' /\ prev' # SU!Missing
      BY <1>6, <2>1, <2>4, <2>5 DEF Aside
    <3>3. \A v \in Runs : suRun'[v].pc \notin {"clear", "backup"}
      BY <2>4, <2>5, <3>1 DEF SU!Swap
    <3> QED BY <3>1, <3>2, <3>3 DEF Uncrossed
  <2>8. suFails' = 0 => \A v \in Runs : suRun'[v].pc \notin {"rollback", "crashed"}
    BY <1>2, <2>4, <2>5 DEF SUInv
  <2> QED BY <1>1, <1>2, <2>4, <2>5, <2>6, <2>7, <2>8 DEF SUInv
<1> QED BY <1>3, <1>4, <1>5, <1>6

LEMMA SUEnds ==
  ASSUME SUInv, NEW u \in Runs, SU!Rename(u) \/ SU!RenameFails(u) \/ SU!Rollback(u)
  PROVE  SUInv'
<1>1. Updates(suRun[u]) /\ suRun[u].pc \in SU!Swap /\ suRun[u].pc \in Found /\ latest \in Nat \ {0}
      /\ suRun[u].pc \in {"rename", "rollback"} /\ suFails \in Nat /\ crossed \in BOOLEAN
  BY DEF SUInv, SU!Rename, SU!RenameFails, SU!Rollback, SU!Swap, Found
<1>2. /\ UNCHANGED <<latest, crossed>> /\ suFails' \in Nat /\ (suFails' = 0 => suFails = 0)
      /\ \E c \in {"done", "failed", "rollback"} :
           SU!Go(u, c) /\ (c = "rollback" => suRun[u].backedUp /\ suFails' # 0)
  <2>1. CASE SU!Rename(u)
    BY <1>1, <2>1 DEF SU!Rename
  <2>2. CASE SU!RenameFails(u)
    <3>1. suFails' = suFails + 1 /\ UNCHANGED <<latest, crossed>>
          /\ SU!Go(u, IF suRun[u].backedUp THEN "rollback" ELSE "failed")
      BY <2>2 DEF SU!RenameFails
    <3> QED BY <1>1, <3>1
  <2>3. CASE SU!Rollback(u)
    BY <1>1, <2>3 DEF SU!Rollback
  <2> QED BY <2>1, <2>2, <2>3
<1>3. PICK c \in {"done", "failed", "rollback"} :
        SU!Go(u, c) /\ (c = "rollback" => suRun[u].backedUp /\ suFails' # 0)
  BY <1>2
<1>4. PICK r : /\ suRun' = [suRun EXCEPT ![u] = r] /\ Updates(r) /\ r.pc = c
               /\ c = "rollback" => r.backedUp = suRun[u].backedUp
  BY <1>1, <1>3, SUGoes DEF SU!Swap, Found
<1>5. DOMAIN suRun' = Runs /\ suRun'[u] = r /\ \A v \in Runs \ {u} : suRun'[v] = suRun[v]
  BY <1>1, <1>2, <1>4, SUOne
<1>6. \A v \in Runs : Updates(suRun[v])'
  BY <1>1, <1>2, <1>4, SUOne
<1>7. suFails' = 0 => suFails = 0 /\ \A v \in Runs : suRun'[v].pc \notin {"rollback", "crashed"}
  <2>1. suFails = 0 => \A v \in Runs : suRun[v].pc \notin {"rollback", "crashed"}
    BY DEF SUInv
  <2> QED BY <1>2, <1>3, <1>4, <1>5, <2>1
<1>8. CASE SU!Rename(u)
  <2>1. bin' # SU!Missing
    <3>1. suRun[u].found # 0
      BY <1>1 DEF Updates
    <3> QED BY <1>8, <3>1 DEF SU!Rename, SU!Installed, SU!Missing, SU!Dev
  <2>2. c = "done"
    <3>1. suRun'[u].pc = "done"
      BY <1>1, <1>8 DEF SU!Rename, SU!Go, SUInv, Updates
    <3> QED BY <1>4, <1>5, <3>1
  <2>3. ASSUME ~crossed' PROVE Uncrossed'
    BY <1>1, <1>2, <1>4, <2>1, <2>3, SUOne DEF Uncrossed
  <2> QED BY <1>1, <1>2, <1>5, <1>6, <1>7, <2>1, <2>3 DEF SUInv
<1>9. CASE SU!RenameFails(u)
  <2>1. UNCHANGED <<bin, prev>> /\ suFails' # 0 /\ suRun[u].pc = "rename"
    BY <1>1, <1>9 DEF SU!RenameFails
  <2>2. suRun[u].backedUp => c = "rollback"
    <3>1. suRun[u].backedUp => suRun'[u].pc = "rollback"
      BY <1>1, <1>9 DEF SU!RenameFails, SU!Go, SUInv, Updates
    <3> QED BY <1>4, <1>5, <3>1
  <2>3. ASSUME ~crossed' PROVE Uncrossed'
    <3>1. /\ Uncrossed /\ \A v \in Runs \ {u} : suRun[v].pc \notin SU!Swap /\ ~Aside(v)
          /\ \A v, w \in SU!Swapping' : v = w
      BY <1>1, <1>2, <1>4, <2>3, SUOne
    <3>2. \A v \in Runs : suRun'[v].pc \notin {"clear", "backup"}
      BY <1>3, <1>4, <1>5, <3>1 DEF SU!Swap
    <3>3. (\A v \in Runs : suRun'[v].pc # "crashed") => \A v \in Runs : suRun[v].pc # "crashed"
      BY <1>5, <2>1
    <3>4. Aside(u) => Aside(u)'
      BY <1>4, <1>5, <2>1, <2>2 DEF Aside
    <3>5. (\A v \in Runs : suRun'[v].pc # "crashed") /\ bin' = SU!Missing => Aside(u)'
      BY <2>1, <3>1, <3>3, <3>4 DEF Uncrossed
    <3> QED BY <2>1, <3>1, <3>2, <3>5 DEF Uncrossed
  <2> QED BY <1>1, <1>2, <1>5, <1>6, <1>7, <2>1, <2>3 DEF SUInv
<1>10. CASE SU!Rollback(u)
  <2>1. suRun[u].pc = "rollback" /\ suFails' # 0
    BY <1>1, <1>10 DEF SU!Rollback, SUInv
  <2>2. IF prev \in {SU!Missing, bin} THEN UNCHANGED <<bin, prev>> ELSE bin' = prev
    BY <1>10 DEF SU!Rollback
  <2>3. c = "failed"
    <3>1. suRun'[u].pc = "failed"
      BY <1>1, <1>10 DEF SU!Rollback, SU!Go, SUInv, Updates
    <3> QED BY <1>4, <1>5, <3>1
  <2>4. ASSUME ~crossed' PROVE Uncrossed'
    <3>1. /\ Uncrossed /\ \A v \in Runs \ {u} : suRun[v].pc \notin SU!Swap /\ ~Aside(v)
          /\ \A v, w \in SU!Swapping' : v = w
      BY <1>1, <1>2, <1>4, <2>4, SUOne
    <3>2. \A v \in Runs : suRun'[v].pc \notin {"clear", "backup"}
      BY <1>4, <1>5, <2>3, <3>1 DEF SU!Swap
    <3>3. (\A v \in Runs : suRun'[v].pc # "crashed") => \A v \in Runs : suRun[v].pc # "crashed"
      BY <1>5, <2>1
    <3>4. (\A v \in Runs : suRun'[v].pc # "crashed") => bin' # SU!Missing
      BY <2>2, <3>1, <3>3 DEF Uncrossed, Aside
    <3>5. bin' # SU!Missing \/ prev' # SU!Missing
      BY <2>2, <3>1 DEF Uncrossed
    <3> QED BY <3>1, <3>2, <3>4, <3>5 DEF Uncrossed
  <2> QED BY <1>1, <1>2, <1>5, <1>6, <1>7, <2>1, <2>4 DEF SUInv
<1> QED BY <1>8, <1>9, <1>10

LEMMA SUCrash == ASSUME SUInv, NEW u \in Runs, SU!Crash(u) PROVE SUInv'
<1>1. SU!Go(u, "crashed") /\ suFails' = suFails + 1 /\ UNCHANGED <<bin, prev, latest, crossed>>
  BY DEF SU!Crash
<1>2. PICK r : suRun' = [suRun EXCEPT ![u] = r] /\ Updates(r) /\ r.pc = "crashed"
  BY <1>1, SUGoes DEF Found, SU!Swap
<1>3. DOMAIN suRun' = Runs /\ suRun'[u] = r /\ \A v \in Runs \ {u} : suRun'[v] = suRun[v]
  BY <1>2 DEF SUInv
<1>4. \A v \in Runs : Updates(suRun[v])'
  BY <1>2, <1>3 DEF SUInv, Updates
<1>5. suFails' \in Nat /\ suFails' # 0
  BY <1>1 DEF SUInv
<1>6. SU!Swapping' \subseteq SU!Swapping
  BY <1>2, <1>3 DEF SU!Swapping, SU!Swap
<1>7. ASSUME ~crossed' PROVE Uncrossed'
  <2>1. Uncrossed
    BY <1>1, <1>7 DEF SUInv
  <2>2. \A v \in Runs : suRun'[v].pc \in {"clear", "backup"} => bin' # SU!Missing
    BY <1>1, <1>2, <1>3, <2>1 DEF Uncrossed
  <2> QED BY <1>1, <1>2, <1>3, <1>6, <2>1, <2>2 DEF Uncrossed
<1> QED BY <1>1, <1>3, <1>4, <1>5, <1>7 DEF SUInv

LEMMA SUStep == SUInv /\ [Move]_all => SUInv'
<1> SUFFICES ASSUME SUInv, [Move]_all PROVE SUInv'
  OBVIOUS
<1>1. CASE SU!Next
  <2>1. CASE SU!Publish \/ SU!RestartStaleDashboard
    <3>1. UNCHANGED <<bin, prev, suRun, suFails, crossed>> /\ latest' \in {latest, latest + 1}
      BY <2>1 DEF SU!Publish, SU!RestartStaleDashboard
    <3>2. latest' \in Nat \ {0}
      BY <3>1 DEF SUInv
    <3> QED BY <3>1, <3>2 DEF SUInv, Updates, Uncrossed, Aside, SU!Swapping
  <2>2. ASSUME NEW u \in Runs, SU!Step(u) PROVE SUInv'
    BY <2>2, SULooks, SUSwaps, SUEnds, SUCrash DEF SU!Step
  <2>3. ASSUME NEW u \in Runs, NEW k \in SU!Kinds, SU!Start(u, k) PROVE SUInv'
    BY <2>3, SULooks
  <2> QED BY <1>1, <2>1, <2>2, <2>3 DEF SU!Next
<1>2. CASE UNCHANGED suState
  BY <1>2 DEF suState, SUInv, Updates, Uncrossed, Aside, SU!Swapping
<1> QED BY <1>1, <1>2 DEF Move, all, suState

-----------------------------------------------------------------------------
(* PluginSync.  Only the holder of the lock is past it; it copies a whole tree    *)
(* before it swaps it in, and points the registry at one that is in place.      *)
Docs == [own : 0 .. psMaxVersion, others : Nat]
Tree(v) == cache[v] = PS!Whole
Hooked(r) ==
  /\ DOMAIN r = {"pc", "mv", "cv", "pull", "doc"} /\ r.doc \in Docs
  /\ r.pc \in {"start", "lock", "pull", "compare", "clear", "copy", "backup", "promote", "registry"}
  /\ r.pc # "start" => r.mv \in PS!Versions
Swaps(s) == ses[s].pc = "promote" /\ ses[s].mv = registry.own /\ bak[registry.own] = PS!Whole
PSInv ==
  /\ {mirror, upstream} \subseteq PS!Versions /\ crashes \in Nat
  /\ psTmp \in [PS!Versions -> PS!Trees]
  /\ {cache, bak} \subseteq [PS!Versions -> {PS!Absent, PS!Whole}]
  /\ registry \in Docs /\ registry.own \in PS!Versions
  /\ DOMAIN ses = psSessions
  /\ \A s \in psSessions :
       /\ Hooked(ses[s]) /\ (ses[s].pc \notin {"start", "lock"} => holder = {s})
       /\ ses[s].pc \in {"backup", "promote"} => psTmp[ses[s].mv] = PS!Whole
       /\ ses[s].pc = "promote" => ~Tree(ses[s].mv)
       /\ ses[s].pc = "registry" => Tree(ses[s].mv)
  /\ crashes = 0 => Tree(registry.own) \/ \E s \in psSessions : Swaps(s)

LEMMA PSLoaded == PSInv => PS!LoadedIsWhole
BY DEF PSInv, PS!LoadedIsWhole, Swaps, Tree, PS!Absent, PS!Partial, PS!Whole

LEMMA PSNumbers == psMaxVersion \in Nat \ {0}
BY CallersAssumption

LEMMA FreshHook == Hooked(PS!Fresh) /\ PS!Fresh.pc = "start"
BY PSNumbers DEF Hooked, PS!Fresh, Docs

LEMMA PSInit == PS!Init => PSInv
<1> SUFFICES ASSUME PS!Init PROVE PSInv
  OBVIOUS
<1>1. 1 \in PS!Versions
  BY PSNumbers DEF PS!Versions
<1>2. \A s \in psSessions : ses[s] = PS!Fresh /\ Hooked(ses[s]) /\ ses[s].pc = "start"
  BY FreshHook DEF PS!Init
<1>3. registry \in Docs /\ registry.own = 1
  BY PSNumbers DEF PS!Init, Docs
<1>4. /\ psTmp \in [PS!Versions -> {PS!Absent}] /\ bak \in [PS!Versions -> {PS!Absent}]
      /\ cache \in [PS!Versions -> {PS!Absent, PS!Whole}] /\ cache[1] = PS!Whole
  BY <1>1 DEF PS!Init
<1> QED BY <1>1, <1>2, <1>3, <1>4 DEF PS!Init, PSInv, Tree, PS!Trees

(* What a session does with the lock, it does alone.                          *)
LEMMA PSHeld ==
  ASSUME PSInv, NEW s \in psSessions, ses[s].pc \notin {"start", "lock"}, NEW r, Hooked(r),
         ses' = [ses EXCEPT ![s] = r], holder' = {s} \/ r.pc = "start"
  PROVE  /\ DOMAIN ses' = psSessions /\ ses'[s] = r
         /\ \A o \in psSessions \ {s} : ses'[o] = ses[o] /\ ses[o].pc \in {"start", "lock"}
         /\ \A o \in psSessions : Hooked(ses[o])' /\ (ses'[o].pc \notin {"start", "lock"} => holder' = {o})
         /\ crashes = 0 => Tree(registry.own) \/ Swaps(s)
<1>1. DOMAIN ses' = psSessions /\ ses'[s] = r /\ \A o \in psSessions \ {s} : ses'[o] = ses[o]
  BY DEF PSInv
<1>2. \A o \in psSessions \ {s} : ses[o].pc \in {"start", "lock"}
  <2>1. ASSUME NEW o \in psSessions \ {s}, ses[o].pc \notin {"start", "lock"} PROVE FALSE
    <3>1. holder = {o} /\ holder = {s}
      BY <2>1 DEF PSInv
    <3> QED BY <3>1
  <2> QED BY <2>1
<1>3. \A o \in psSessions : Hooked(ses[o])'
  BY <1>1 DEF PSInv, Hooked
<1>4. \A o \in psSessions : ses'[o].pc \notin {"start", "lock"} => holder' = {o}
  BY <1>1, <1>2
<1>5. crashes = 0 => Tree(registry.own) \/ Swaps(s)
  BY <1>2 DEF PSInv, Swaps
<1> QED BY <1>1, <1>2, <1>3, <1>4, <1>5

LEMMA PSGoes ==
  ASSUME NEW s \in psSessions, NEW c, PSInv, PS!Go(s, c), ses[s].pc # "start",
         c \in {"pull", "compare", "clear", "copy", "backup", "promote", "registry"}
  PROVE  \E r : ses' = [ses EXCEPT ![s] = r] /\ Hooked(r) /\ r.pc = c /\ r.mv = ses[s].mv
<1> DEFINE r == [ses[s] EXCEPT !.pc = c]
<1>1. ses' = [ses EXCEPT ![s] = r]
  BY DEF PS!Go
<1>2. Hooked(r) /\ r.pc = c /\ r.mv = ses[s].mv
  BY DEF PSInv, Hooked
<1> QED BY <1>1, <1>2

(* Before the lock, and one that leaves it without touching a tree.            *)
LEMMA PSBefore ==
  ASSUME PSInv, NEW s \in psSessions, PS!Detect(s) \/ PS!TryAcquireSyncLock(s)
  PROVE  PSInv'
<1>1. UNCHANGED <<mirror, upstream, crashes, psTmp, cache, bak, registry>> /\ ses[s].pc \in {"start", "lock"}
  BY DEF PS!Detect, PS!TryAcquireSyncLock, PS!files, PS!world
<1>2. \E r : /\ ses' = [ses EXCEPT ![s] = r] /\ Hooked(r)
             /\ \/ r.pc \in {"start", "lock"} /\ UNCHANGED holder
                \/ r.pc \in {"pull", "compare"} /\ holder = {} /\ holder' = {s}
  <2>1. CASE PS!Detect(s)
    <3>1. PICK r : r = [[[[ses[s] EXCEPT !.pc = "lock"] EXCEPT !.mv = mirror] EXCEPT !.cv = PS!Newest]
                         EXCEPT !.pull = mirror < binary]
      OBVIOUS
    <3>2. ses' = [ses EXCEPT ![s] = r] /\ UNCHANGED holder
      BY <2>1, <3>1 DEF PS!Detect
    <3>3. Hooked(r) /\ r.pc = "lock"
      BY <3>1 DEF Hooked, PSInv
    <3> QED BY <3>2, <3>3
  <2>2. CASE PS!TryAcquireSyncLock(s) /\ holder = {}
    <3>1. holder' = {s} /\ \E c \in {"pull", "compare"} : PS!Go(s, c)
      BY <2>2 DEF PS!TryAcquireSyncLock
    <3>2. PICK c \in {"pull", "compare"} : PS!Go(s, c)
      BY <3>1
    <3>3. ses[s].pc # "start"
      BY <2>2 DEF PS!TryAcquireSyncLock
    <3>4. PICK r : ses' = [ses EXCEPT ![s] = r] /\ Hooked(r) /\ r.pc = c
      BY <3>2, <3>3, PSGoes
    <3> QED BY <2>2, <3>1, <3>4
  <2>3. CASE PS!TryAcquireSyncLock(s) /\ holder # {}
    BY <2>3, FreshHook DEF PS!TryAcquireSyncLock
  <2> QED BY <2>1, <2>2, <2>3
<1>3. PICK r : /\ ses' = [ses EXCEPT ![s] = r] /\ Hooked(r)
               /\ \/ r.pc \in {"start", "lock"} /\ UNCHANGED holder
                  \/ r.pc \in {"pull", "compare"} /\ holder = {} /\ holder' = {s}
  BY <1>2
<1>4. DOMAIN ses' = psSessions /\ ses'[s] = r /\ \A o \in psSessions \ {s} : ses'[o] = ses[o]
  BY <1>3 DEF PSInv
<1>5. \A o \in psSessions : Hooked(ses[o])'
  BY <1>3, <1>4 DEF PSInv, Hooked
<1>6. \A o \in psSessions : ses'[o].pc \notin {"start", "lock"} => holder' = {o}
  <2>1. ASSUME NEW o \in psSessions, ses[o].pc \notin {"start", "lock"} PROVE holder = {o}
    BY <2>1 DEF PSInv
  <2> QED BY <1>3, <1>4, <2>1
<1>7. crashes' = 0 => (Tree(registry.own) \/ \E o \in psSessions : Swaps(o))'
  BY <1>1, <1>4 DEF PSInv, Tree, Swaps
<1>8. \A o \in psSessions :
        /\ ses'[o].pc \in {"backup", "promote"} => psTmp'[ses'[o].mv] = PS!Whole
        /\ ses'[o].pc = "promote" => ~Tree(ses[o].mv)'
        /\ ses'[o].pc = "registry" => Tree(ses[o].mv)'
  BY <1>1, <1>3, <1>4 DEF PSInv, Tree
<1> QED BY <1>1, <1>4, <1>5, <1>6, <1>7, <1>8 DEF PSInv

LEMMA PSReads ==
  ASSUME PSInv, NEW s \in psSessions, PS!GitFastForward(s) \/ PS!Compare(s)
  PROVE  PSInv'
<1>1. /\ UNCHANGED <<upstream, crashes, psTmp, cache, bak, registry>> /\ mirror' \in {mirror, upstream}
      /\ ses[s].pc \in {"pull", "compare"}
  BY DEF PS!GitFastForward, PS!Compare, PS!files, PS!world
<1>2. \E r : /\ ses' = [ses EXCEPT ![s] = r] /\ Hooked(r) /\ r.pc \in {"start", "compare", "clear"}
             /\ holder' = {s} \/ r.pc = "start"
  <2>1. CASE PS!Leave(s)
    BY <2>1, FreshHook DEF PS!Leave
  <2>2. holder = {s} /\ Hooked(ses[s])
    BY <1>1 DEF PSInv
  <2>3. CASE PS!GitFastForward(s) /\ ~PS!Leave(s)
    <3>1. PICK r : r = [[ses[s] EXCEPT !.pc = "compare"] EXCEPT !.mv = upstream]
      OBVIOUS
    <3>2. ses' = [ses EXCEPT ![s] = r] /\ UNCHANGED holder
      BY <2>3, <3>1 DEF PS!GitFastForward
    <3>3. Hooked(r) /\ r.pc = "compare"
      BY <2>2, <3>1 DEF Hooked, PSInv
    <3> QED BY <2>2, <3>2, <3>3
  <2>4. CASE PS!Compare(s) /\ ~PS!Leave(s)
    <3>1. PICK r : r = [[ses[s] EXCEPT !.pc = "clear"] EXCEPT !.doc = registry]
      OBVIOUS
    <3>2. ses' = [ses EXCEPT ![s] = r] /\ UNCHANGED holder
      BY <2>4, <3>1 DEF PS!Compare
    <3>3. Hooked(r) /\ r.pc = "clear"
      BY <1>1, <2>2, <3>1 DEF Hooked, PSInv
    <3> QED BY <2>2, <3>2, <3>3
  <2> QED BY <2>1, <2>3, <2>4
<1>3. PICK r : /\ ses' = [ses EXCEPT ![s] = r] /\ Hooked(r) /\ r.pc \in {"start", "compare", "clear"}
               /\ holder' = {s} \/ r.pc = "start"
  BY <1>2
<1>4. /\ DOMAIN ses' = psSessions /\ ses'[s] = r
      /\ \A o \in psSessions \ {s} : ses'[o] = ses[o] /\ ses[o].pc \in {"start", "lock"}
      /\ \A o \in psSessions : Hooked(ses[o])' /\ (ses'[o].pc \notin {"start", "lock"} => holder' = {o})
      /\ crashes = 0 => Tree(registry.own) \/ Swaps(s)
  BY <1>1, <1>3, PSHeld
<1>5. \A o \in psSessions : ses'[o].pc \notin {"backup", "promote", "registry"}
  BY <1>3, <1>4
<1>6. crashes' = 0 => Tree(registry.own)'
  BY <1>1, <1>4 DEF Tree, Swaps
<1>7. {mirror', upstream'} \subseteq PS!Versions
  BY <1>1 DEF PSInv
<1> QED BY <1>1, <1>4, <1>5, <1>6, <1>7 DEF PSInv

LEMMA PSCopies ==
  ASSUME PSInv, NEW s \in psSessions, PS!ClearTmp(s) \/ PS!CopyTree(s)
  PROVE  PSInv'
<1> DEFINE v == ses[s].mv
<1>1. UNCHANGED <<mirror, upstream, crashes, cache, bak, registry>> /\ ses[s].pc \in {"clear", "copy"}
  BY DEF PS!ClearTmp, PS!CopyTree, PS!files, PS!world
<1>2. holder = {s} /\ Hooked(ses[s]) /\ v \in PS!Versions
  BY <1>1 DEF PSInv, Hooked
<1> DEFINE Goes == PS!CopyTree(s) /\ UNCHANGED <<ses, holder>> /\ psTmp' = [psTmp EXCEPT ![v] = PS!Partial]
<1>3. CASE Goes
  <2>1. ses[s].pc = "copy"
    BY <1>3 DEF PS!CopyTree
  <2>2. psTmp' \in [PS!Versions -> PS!Trees]
    BY <1>3 DEF PSInv, PS!Trees
  <2>3. \A o \in psSessions : ses[o].pc \notin {"backup", "promote", "registry"}
    <3>1. ASSUME NEW o \in psSessions, ses[o].pc \in {"backup", "promote", "registry"} PROVE FALSE
      <4>1. holder = {o} /\ o # s
        BY <2>1, <3>1 DEF PSInv
      <4> QED BY <1>2, <4>1
    <3> QED BY <3>1
  <2> QED BY <1>1, <1>3, <2>2, <2>3 DEF PSInv, Hooked, Tree, Swaps
<1> SUFFICES ASSUME ~Goes PROVE PSInv'
  BY <1>3
<1>4. \E r : /\ ses' = [ses EXCEPT ![s] = r] /\ Hooked(r) /\ r.pc \in {"start", "copy", "backup"}
             /\ holder' = {s} \/ r.pc = "start"
             /\ \E t \in PS!Trees : /\ psTmp' = [psTmp EXCEPT ![v] = t]
                                    /\ r.pc = "backup" => t = PS!Whole /\ r.mv = v
  <2>1. CASE PS!ClearTmp(s)
    <3>1. PS!Go(s, "copy") /\ UNCHANGED holder /\ psTmp' = [psTmp EXCEPT ![v] = PS!Absent]
      BY <2>1 DEF PS!ClearTmp
    <3>2. PICK r : ses' = [ses EXCEPT ![s] = r] /\ Hooked(r) /\ r.pc = "copy"
      BY <1>1, <3>1, PSGoes
    <3> QED BY <1>2, <3>1, <3>2 DEF PS!Trees
  <2>2. CASE PS!CopyTree(s) /\ psTmp' = [psTmp EXCEPT ![v] = PS!Whole] /\ PS!Go(s, "backup") /\ UNCHANGED holder
    <3>1. PICK r : ses' = [ses EXCEPT ![s] = r] /\ Hooked(r) /\ r.pc = "backup" /\ r.mv = v
      BY <1>1, <2>2, PSGoes
    <3> QED BY <1>2, <2>2, <3>1 DEF PS!Trees
  <2>3. CASE PS!CopyTree(s) /\ psTmp' = [psTmp EXCEPT ![v] = PS!Absent] /\ PS!Leave(s)
    BY <2>3, FreshHook DEF PS!Leave, PS!Trees
  <2> QED BY <2>1, <2>2, <2>3 DEF PS!CopyTree
<1>5. PICK r : /\ ses' = [ses EXCEPT ![s] = r] /\ Hooked(r) /\ r.pc \in {"start", "copy", "backup"}
               /\ holder' = {s} \/ r.pc = "start"
               /\ \E t \in PS!Trees : /\ psTmp' = [psTmp EXCEPT ![v] = t]
                                      /\ r.pc = "backup" => t = PS!Whole /\ r.mv = v
  BY <1>4
<1>6. /\ DOMAIN ses' = psSessions /\ ses'[s] = r
      /\ \A o \in psSessions \ {s} : ses'[o] = ses[o] /\ ses[o].pc \in {"start", "lock"}
      /\ \A o \in psSessions : Hooked(ses[o])' /\ (ses'[o].pc \notin {"start", "lock"} => holder' = {o})
      /\ crashes = 0 => Tree(registry.own) \/ Swaps(s)
  BY <1>1, <1>5, PSHeld
<1>7. psTmp' \in [PS!Versions -> PS!Trees] /\ (r.pc = "backup" => psTmp'[r.mv] = PS!Whole)
  BY <1>2, <1>5 DEF PSInv
<1>8. crashes' = 0 => Tree(registry.own)'
  BY <1>1, <1>6 DEF Tree, Swaps
<1>9. \A o \in psSessions : ses'[o].pc \notin {"promote", "registry"}
                            /\ (ses'[o].pc = "backup" => psTmp'[ses'[o].mv] = PS!Whole)
  BY <1>5, <1>6, <1>7
<1> QED BY <1>1, <1>6, <1>7, <1>8, <1>9 DEF PSInv

LEMMA PSSwaps ==
  ASSUME PSInv, NEW s \in psSessions, PS!BackUp(s) \/ PS!Promote(s)
  PROVE  PSInv'
<1> DEFINE v == ses[s].mv
<1>1. UNCHANGED <<mirror, upstream, crashes, registry>> /\ ses[s].pc \in {"backup", "promote"}
  BY DEF PS!BackUp, PS!Promote, PS!files, PS!world
<1>2. /\ holder = {s} /\ Hooked(ses[s]) /\ v \in PS!Versions /\ psTmp[v] = PS!Whole
      /\ cache[v] \in {PS!Absent, PS!Whole} /\ bak[v] \in {PS!Absent, PS!Whole}
      /\ ses[s].pc = "promote" => ~Tree(v)
  BY <1>1 DEF PSInv, Hooked
<1>3. PS!Absent # PS!Whole /\ PS!Absent \in PS!Trees
  BY DEF PS!Absent, PS!Whole, PS!Trees
<1>4. CASE PS!BackUp(s)
  <2>1. /\ bak' = [bak EXCEPT ![v] = cache[v]] /\ cache' = [cache EXCEPT ![v] = PS!Absent]
        /\ PS!Go(s, "promote") /\ UNCHANGED <<psTmp, holder>> /\ ses[s].pc = "backup"
    BY <1>4 DEF PS!BackUp
  <2>2. PICK r : ses' = [ses EXCEPT ![s] = r] /\ Hooked(r) /\ r.pc = "promote" /\ r.mv = v
    BY <2>1, PSGoes
  <2>3. /\ DOMAIN ses' = psSessions /\ ses'[s] = r
        /\ \A o \in psSessions \ {s} : ses'[o] = ses[o] /\ ses[o].pc \in {"start", "lock"}
        /\ \A o \in psSessions : Hooked(ses[o])' /\ (ses'[o].pc \notin {"start", "lock"} => holder' = {o})
        /\ crashes = 0 => Tree(registry.own) \/ Swaps(s)
    BY <1>1, <1>2, <2>1, <2>2, PSHeld
  <2>4. /\ {cache', bak'} \subseteq [PS!Versions -> {PS!Absent, PS!Whole}]
        /\ cache'[v] = PS!Absent /\ bak'[v] = cache[v]
        /\ \A o \in PS!Versions \ {v} : cache'[o] = cache[o]
    BY <1>2, <2>1 DEF PSInv
  <2>5. crashes' = 0 => Tree(registry.own)' \/ Swaps(s)'
    <3>1. crashes = 0 => Tree(registry.own) /\ registry.own \in PS!Versions
      BY <2>1, <2>3 DEF Swaps, PSInv
    <3> QED BY <1>1, <2>2, <2>3, <2>4, <3>1 DEF Tree, Swaps
  <2>6. \A o \in psSessions :
          /\ ses'[o].pc \in {"backup", "promote"} => psTmp'[ses'[o].mv] = PS!Whole
          /\ ses'[o].pc = "promote" => ~Tree(ses[o].mv)'
          /\ ses'[o].pc # "registry"
    BY <1>2, <1>3, <2>1, <2>2, <2>3, <2>4 DEF Tree
  <2> QED BY <1>1, <2>1, <2>3, <2>4, <2>5, <2>6 DEF PSInv
<1>5. CASE PS!Promote(s)
  <2>1. /\ bak' = [bak EXCEPT ![v] = PS!Absent] /\ ses[s].pc = "promote"
        /\ \/ /\ cache' = [cache EXCEPT ![v] = psTmp[v]] /\ psTmp' = [psTmp EXCEPT ![v] = PS!Absent]
              /\ PS!Go(s, "registry") /\ UNCHANGED holder
           \/ /\ cache' = [cache EXCEPT ![v] = bak[v]] /\ UNCHANGED psTmp /\ PS!Leave(s)
    BY <1>5 DEF PS!Promote
  <2>2. \E r : /\ ses' = [ses EXCEPT ![s] = r] /\ Hooked(r) /\ r.pc \in {"start", "registry"}
               /\ holder' = {s} \/ r.pc = "start"
               /\ r.pc = "registry" => r.mv = v /\ cache' = [cache EXCEPT ![v] = PS!Whole]
    <3>1. CASE PS!Leave(s)
      BY <3>1, FreshHook DEF PS!Leave
    <3>2. CASE ~PS!Leave(s)
      <4>1. PICK r : ses' = [ses EXCEPT ![s] = r] /\ Hooked(r) /\ r.pc = "registry" /\ r.mv = v
        BY <2>1, <3>2, PSGoes
      <4> QED BY <1>2, <2>1, <3>2, <4>1
    <3> QED BY <3>1, <3>2
  <2>3. PICK r : /\ ses' = [ses EXCEPT ![s] = r] /\ Hooked(r) /\ r.pc \in {"start", "registry"}
                 /\ holder' = {s} \/ r.pc = "start"
                 /\ r.pc = "registry" => r.mv = v /\ cache' = [cache EXCEPT ![v] = PS!Whole]
    BY <2>2
  <2>4. /\ DOMAIN ses' = psSessions /\ ses'[s] = r
        /\ \A o \in psSessions \ {s} : ses'[o] = ses[o] /\ ses[o].pc \in {"start", "lock"}
        /\ \A o \in psSessions : Hooked(ses[o])' /\ (ses'[o].pc \notin {"start", "lock"} => holder' = {o})
        /\ crashes = 0 => Tree(registry.own) \/ Swaps(s)
    BY <1>1, <2>3, PSHeld
  <2>5. PICK t \in {PS!Absent, PS!Whole} : cache' = [cache EXCEPT ![v] = t] /\ (t = PS!Whole \/ t = bak[v])
    BY <1>2, <2>1
  <2>6. /\ {cache', bak'} \subseteq [PS!Versions -> {PS!Absent, PS!Whole}] /\ cache'[v] = t
        /\ \A o \in PS!Versions \ {v} : cache'[o] = cache[o]
    BY <1>2, <2>1, <2>5 DEF PSInv
  <2>7. psTmp' \in [PS!Versions -> PS!Trees]
    BY <1>3, <2>1 DEF PSInv
  <2>8. crashes' = 0 => Tree(registry.own)'
    <3>1. registry.own \in PS!Versions
      BY DEF PSInv
    <3> QED BY <1>1, <1>2, <2>1, <2>4, <2>5, <2>6, <3>1 DEF Tree, Swaps
  <2>9. r.pc = "registry" => cache'[v] = PS!Whole
    BY <1>2, <2>3 DEF PSInv
  <2>10. \A o \in psSessions : /\ ses'[o].pc \notin {"backup", "promote"}
                               /\ ses'[o].pc = "registry" => Tree(ses[o].mv)'
    BY <2>3, <2>4, <2>9 DEF Tree
  <2> QED BY <1>1, <2>4, <2>6, <2>7, <2>8, <2>10 DEF PSInv
<1> QED BY <1>4, <1>5

LEMMA PSWrites == ASSUME PSInv, NEW s \in psSessions, PS!WritePluginRegistry(s) PROVE PSInv'
<1>1. /\ UNCHANGED <<mirror, upstream, crashes, psTmp, cache, bak>> /\ ses[s].pc = "registry" /\ PS!Leave(s)
      /\ registry' \in {registry, [ses[s].doc EXCEPT !.own = ses[s].mv]}
  BY DEF PS!WritePluginRegistry, PS!world
<1>2. Hooked(ses[s]) /\ Tree(ses[s].mv) /\ ses[s].mv \in PS!Versions
  BY <1>1 DEF PSInv, Hooked
<1>3. ses' = [ses EXCEPT ![s] = PS!Fresh]
  BY <1>1 DEF PS!Leave
<1>4. /\ DOMAIN ses' = psSessions /\ ses'[s] = PS!Fresh
      /\ \A o \in psSessions \ {s} : ses'[o] = ses[o] /\ ses[o].pc \in {"start", "lock"}
      /\ \A o \in psSessions : Hooked(ses[o])' /\ (ses'[o].pc \notin {"start", "lock"} => holder' = {o})
      /\ crashes = 0 => Tree(registry.own) \/ Swaps(s)
  BY <1>1, <1>3, FreshHook, PSHeld
<1>5. registry' \in Docs /\ registry'.own \in PS!Versions
      /\ (registry' = registry \/ registry'.own = ses[s].mv)
  <2>1. CASE registry' = registry
    BY <2>1 DEF PSInv
  <2>2. CASE registry' = [ses[s].doc EXCEPT !.own = ses[s].mv]
    <3>1. ses[s].doc \in Docs /\ ses[s].mv \in 0 .. psMaxVersion
      BY <1>2 DEF Hooked, PS!Versions
    <3> QED BY <1>2, <2>2, <3>1 DEF Docs
  <2> QED BY <1>1, <2>1, <2>2
<1>6. crashes' = 0 => Tree(registry.own)'
  BY <1>1, <1>2, <1>4, <1>5 DEF Tree, Swaps
<1>7. \A o \in psSessions : ses'[o].pc \notin {"backup", "promote", "registry"}
  BY <1>4, FreshHook
<1> QED BY <1>1, <1>4, <1>5, <1>6, <1>7 DEF PSInv

LEMMA PSCrash == ASSUME PSInv, NEW s \in psSessions, PS!Crash(s) PROVE PSInv'
<1>1. /\ UNCHANGED <<mirror, upstream, psTmp, cache, bak, registry>> /\ crashes' = crashes + 1
      /\ ses' = [ses EXCEPT ![s] = PS!Fresh] /\ holder' = holder \ {s}
  BY DEF PS!Crash, PS!files
<1>2. DOMAIN ses' = psSessions /\ ses'[s] = PS!Fresh /\ \A o \in psSessions \ {s} : ses'[o] = ses[o]
  BY <1>1 DEF PSInv
<1>3. \A o \in psSessions : Hooked(ses[o])' /\ (ses'[o].pc \notin {"start", "lock"} => holder' = {o})
  <2>1. ASSUME NEW o \in psSessions \ {s}, ses[o].pc \notin {"start", "lock"} PROVE holder' = {o}
    <3>1. holder = {o}
      BY <2>1 DEF PSInv
    <3> QED BY <1>1, <3>1
  <2>2. \A o \in psSessions : Hooked(ses[o])'
    BY <1>2, FreshHook DEF PSInv, Hooked
  <2> QED BY <1>2, <2>1, <2>2, FreshHook
<1>4. crashes' \in Nat /\ crashes' # 0
  BY <1>1 DEF PSInv
<1>5. \A o \in psSessions :
        /\ ses'[o].pc \in {"backup", "promote"} => psTmp'[ses'[o].mv] = PS!Whole
        /\ ses'[o].pc = "promote" => ~Tree(ses[o].mv)'
        /\ ses'[o].pc = "registry" => Tree(ses[o].mv)'
  BY <1>1, <1>2, FreshHook DEF PSInv, Tree
<1> QED BY <1>1, <1>2, <1>3, <1>4, <1>5 DEF PSInv

LEMMA PSStep == PSInv /\ [Move]_all => PSInv'
<1> SUFFICES ASSUME PSInv, [Move]_all PROVE PSInv'
  OBVIOUS
<1>1. CASE PS!Next
  <2>1. CASE PS!Publish \/ PS!UpdateBinary \/ PS!Edit
    <3>1. /\ UNCHANGED <<mirror, crashes, psTmp, cache, bak, holder, ses>>
          /\ upstream' \in {upstream, upstream + 1} /\ (upstream' # upstream => upstream < psMaxVersion)
          /\ registry' \in {registry, [registry EXCEPT !.others = @ + 1]}
      BY <2>1 DEF PS!Publish, PS!UpdateBinary, PS!Edit, PS!files
    <3>2. {mirror, upstream'} \subseteq PS!Versions
      BY <3>1, PSNumbers DEF PSInv, PS!Versions
    <3>3. registry' \in Docs /\ registry'.own = registry.own
      BY <3>1 DEF PSInv, Docs
    <3> QED BY <3>1, <3>2, <3>3 DEF PSInv, Hooked, Tree, Swaps
  <2>2. ASSUME NEW s \in psSessions,
               \/ PS!Detect(s) \/ PS!TryAcquireSyncLock(s) \/ PS!GitFastForward(s) \/ PS!Compare(s)
               \/ PS!ClearTmp(s) \/ PS!CopyTree(s) \/ PS!BackUp(s) \/ PS!Promote(s)
               \/ PS!WritePluginRegistry(s) \/ PS!Crash(s)
        PROVE  PSInv'
    BY <2>2, PSBefore, PSReads, PSCopies, PSSwaps, PSWrites, PSCrash
  <2> QED BY <1>1, <2>1, <2>2 DEF PS!Next
<1>2. CASE UNCHANGED psState
  BY <1>2 DEF psState, PSInv, Hooked, Tree, Swaps
<1> QED BY <1>1, <1>2 DEF Move, all, psState

-----------------------------------------------------------------------------
(* ModelDownload.  Until one process clobbers the file of another, a file holds    *)
(* the chunks the server sent from the first, and who writes one stands at the    *)
(* chunk it is sent, with all before it in the file.                           *)
Sent(n)   == [i \in 1 .. n |-> i]
Held(f)   == \E n \in 0 .. Size : inodes[f] = Sent(n)
Writes(r) ==
  /\ r.fd \in DOMAIN inodes /\ r.chunk = r.pos /\ r.pos \in 0 .. Len(inodes[r.fd])
  /\ r.pc = "rename" => r.chunk = Size
Loads(r) ==
  /\ DOMAIN r = {"pc", "attempt", "existing", "resumed", "fd", "pos", "chunk"}
  /\ r.pc \in {"request", "open"} => r.existing \in Nat
  /\ r.pc \in {"copy", "rename"} => Writes(r)
Unclobbered ==
  /\ inodes \in Seq(Seq(Nat)) /\ \A f \in DOMAIN inodes : Held(f)
  /\ {mdTmp, dest} \subseteq {0} \cup DOMAIN inodes
  /\ DOMAIN proc = Procs /\ \A p \in Procs : Loads(proc[p])
  /\ mdTmp # 0 => mdTmp # dest
  /\ dest # 0 => inodes[dest] = Sent(Size)
MDInv == clobbered \in BOOLEAN /\ (~clobbered => Unclobbered)

LEMMA MDPlaced == MDInv => MD!PlacedIsWhole
BY DEF MDInv, Unclobbered, Sent, MD!PlacedIsWhole, MD!Whole

LEMMA Chunks ==
  /\ Size \in Nat \ {0}
  /\ \A n \in Nat : Sent(n) \in Seq(Nat) /\ Len(Sent(n)) = n
<1>1. Size \in Nat \ {0}
  BY CallersAssumption
<1>2. ASSUME NEW n \in Nat PROVE Sent(n) \in Seq(Nat) /\ Len(Sent(n)) = n
  <2>1. \A i \in 1 .. n : i \in Nat
    OBVIOUS
  <2> QED BY <2>1 DEF Sent
<1> QED BY <1>1, <1>2

LEMMA MDOff == Loads(MD!Off) /\ MD!Off.pc = "off" /\ MD!Off.fd = 0
BY DEF Loads, MD!Off

LEMMA MDInit == MD!Init => MDInv
<1> SUFFICES ASSUME MD!Init PROVE MDInv
  OBVIOUS
<1>1. inodes = <<>> /\ mdTmp = 0 /\ dest = 0 /\ clobbered = FALSE
  BY DEF MD!Init
<1>2. DOMAIN proc = Procs /\ \A p \in Procs : Loads(proc[p])
  BY MDOff DEF MD!Init
<1>3. inodes \in Seq(Seq(Nat)) /\ DOMAIN inodes = {}
  BY <1>1
<1>4. clobbered \in BOOLEAN
  BY <1>1
<1> QED BY <1>1, <1>2, <1>3, <1>4 DEF MDInv, Unclobbered

(* One process takes a step that changes no file in place, nor shortens what     *)
(* another writes.                                                           *)
LEMMA MDOne ==
  ASSUME Unclobbered, NEW p \in Procs, NEW r, proc' = [proc EXCEPT ![p] = r], Loads(r)',
         inodes' \in Seq(Seq(Nat)), DOMAIN inodes \subseteq DOMAIN inodes',
         \A f \in DOMAIN inodes' : Held(f)',
         \A f \in DOMAIN inodes :
            \/ Len(inodes[f]) <= Len(inodes'[f])
            \/ \A q \in Procs : proc[q].fd # f,
         dest \in DOMAIN inodes => inodes'[dest] = inodes[dest],
         UNCHANGED dest, mdTmp' \in {0} \cup DOMAIN inodes', mdTmp' # 0 => mdTmp' # dest
  PROVE  Unclobbered'
<1>1. DOMAIN proc' = Procs /\ proc'[p] = r /\ \A q \in Procs \ {p} : proc'[q] = proc[q]
  BY DEF Unclobbered
<1>2. ASSUME NEW q \in Procs \ {p} PROVE Loads(proc[q])'
  <2>1. Loads(proc[q])
    BY DEF Unclobbered
  <2>2. ASSUME Writes(proc[q]) PROVE Writes(proc[q])'
    <3>1. proc[q].fd \in DOMAIN inodes /\ proc[q].fd \in DOMAIN inodes'
      BY <2>2 DEF Writes
    <3>2. Len(inodes[proc[q].fd]) <= Len(inodes'[proc[q].fd])
      BY <3>1
    <3>3. inodes[proc[q].fd] \in Seq(Nat) /\ inodes'[proc[q].fd] \in Seq(Nat)
      BY <3>1 DEF Unclobbered
    <3>4. Len(inodes[proc[q].fd]) \in Nat /\ Len(inodes'[proc[q].fd]) \in Nat
      BY <3>3
    <3>5. proc[q].pos \in 0 .. Len(inodes'[proc[q].fd])
      BY <2>2, <3>2, <3>4 DEF Writes
    <3> QED BY <1>1, <2>2, <3>1, <3>5 DEF Writes
  <2> QED BY <1>1, <2>1, <2>2 DEF Loads
<1>3. \A q \in Procs : Loads(proc[q])'
  BY <1>1, <1>2
<1>4. dest' # 0 => dest \in DOMAIN inodes' /\ inodes'[dest] = Sent(Size)
  BY DEF Unclobbered
<1>5. dest' \in {0} \cup DOMAIN inodes'
  BY DEF Unclobbered
<1> QED BY <1>1, <1>3, <1>4, <1>5 DEF Unclobbered, Sent

(* A step that leaves the files as they are.                                   *)
LEMMA MDQuiet ==
  ASSUME Unclobbered, NEW p \in Procs, NEW r, proc' = [proc EXCEPT ![p] = r], Loads(r),
         UNCHANGED <<inodes, dest>>, mdTmp' \in {mdTmp, 0}
  PROVE  Unclobbered'
<1>1. Loads(r)' /\ \A f \in DOMAIN inodes' : Held(f)'
  BY DEF Unclobbered, Loads, Writes, Held, Sent
<1>2. \A f \in DOMAIN inodes : inodes[f] \in Seq(Nat)
  BY DEF Unclobbered
<1>3. \A f \in DOMAIN inodes : Len(inodes[f]) <= Len(inodes'[f])
  BY <1>2
<1>4. mdTmp' \in {0} \cup DOMAIN inodes' /\ (mdTmp' # 0 => mdTmp' # dest) /\ inodes' \in Seq(Seq(Nat))
  BY DEF Unclobbered
<1>5. DOMAIN inodes \subseteq DOMAIN inodes' /\ (dest \in DOMAIN inodes => inodes'[dest] = inodes[dest])
  OBVIOUS
<1> QED BY <1>1, <1>3, <1>4, <1>5, MDOne

LEMMA RetryLoads == ASSUME NEW x PROVE Loads(MD!Retry(x))
BY DEF MD!Retry, MD!Off, Loads

LEMMA MDWaits ==
  ASSUME Unclobbered, NEW p \in Procs,
         \/ MD!Start(p) \/ MD!Stat(p) \/ MD!Request(p) \/ MD!CopyFails(p) \/ MD!EndOfFile(p) \/ MD!Killed(p)
  PROVE  Unclobbered'
<1>1. Loads(proc[p])
  BY DEF Unclobbered
<1>2. CASE MD!Start(p)
  <2>1. PICK r : r = IF dest # 0 THEN [MD!Off EXCEPT !.pc = "ready"] ELSE [MD!Off EXCEPT !.pc = "stat", !.attempt = 1]
    OBVIOUS
  <2>2. proc' = [proc EXCEPT ![p] = r] /\ UNCHANGED <<inodes, dest, mdTmp>>
    BY <1>2, <2>1 DEF MD!Start, MD!names
  <2>3. Loads(r)
    BY <2>1 DEF Loads, MD!Off
  <2> QED BY <2>2, <2>3, MDQuiet
<1>3. CASE MD!Stat(p)
  <2>1. PICK r : r = [[proc[p] EXCEPT !.pc = "request"] EXCEPT !.existing = MD!Length(mdTmp)]
    OBVIOUS
  <2>2. proc' = [proc EXCEPT ![p] = r] /\ UNCHANGED <<inodes, dest, mdTmp>>
    BY <1>3, <2>1 DEF MD!Stat, MD!names
  <2>3. MD!Length(mdTmp) \in Nat
    <3>1. mdTmp # 0 => inodes[mdTmp] \in Seq(Nat)
      BY DEF Unclobbered
    <3> QED BY <3>1 DEF MD!Length
  <2>4. Loads(r)
    BY <1>1, <2>1, <2>3 DEF Loads
  <2> QED BY <2>2, <2>4, MDQuiet
<1>4. CASE MD!Request(p)
  <2>1. proc[p].pc = "request" /\ UNCHANGED <<inodes, dest, mdTmp>>
    BY <1>4 DEF MD!Request, MD!At, MD!names
  <2>2. \E r \in {[proc[p] EXCEPT !.pc = "open"], [[proc[p] EXCEPT !.pc = "open"] EXCEPT !.resumed = TRUE],
                  MD!Retry(proc[p])} :
          proc' = [proc EXCEPT ![p] = r]
    BY <1>4 DEF MD!Request
  <2>3. Loads([proc[p] EXCEPT !.pc = "open"]) /\ Loads([[proc[p] EXCEPT !.pc = "open"] EXCEPT !.resumed = TRUE])
    BY <1>1, <2>1 DEF Loads
  <2> QED BY <2>1, <2>2, <2>3, RetryLoads, MDQuiet
<1>5. CASE MD!CopyFails(p)
  BY <1>5, RetryLoads, MDQuiet DEF MD!CopyFails
<1>6. CASE MD!EndOfFile(p)
  <2>1. PICK r : r = [proc[p] EXCEPT !.pc = "rename"]
    OBVIOUS
  <2>2. proc' = [proc EXCEPT ![p] = r] /\ UNCHANGED <<inodes, dest, mdTmp>>
        /\ proc[p].pc = "copy" /\ proc[p].chunk = Size
    BY <1>6, <2>1 DEF MD!EndOfFile, MD!At, MD!names
  <2>3. Writes(proc[p])
    BY <1>1, <2>2 DEF Loads
  <2>4. Loads(r)
    BY <1>1, <2>1, <2>2, <2>3 DEF Loads, Writes
  <2> QED BY <2>2, <2>4, MDQuiet
<1>7. CASE MD!Killed(p)
  BY <1>7, MDOff, MDQuiet DEF MD!Killed, MD!names
<1> QED BY <1>2, <1>3, <1>4, <1>5, <1>6, <1>7

(* A chunk goes where it belongs.                                            *)
LEMMA MDCopies == ASSUME Unclobbered, NEW p \in Procs, MD!Copy(p) PROVE Unclobbered'
<1> DEFINE f == proc[p].fd
           k == proc[p].pos
<1>1. proc[p].pc = "copy" /\ proc[p].chunk < Size /\ UNCHANGED <<dest, mdTmp>>
      /\ inodes' = [inodes EXCEPT ![f] = MD!Written(inodes[f], k + 1, proc[p].chunk + 1)]
  BY DEF MD!Copy, MD!At, MD!names
<1>2. Loads(proc[p]) /\ Writes(proc[p])
  BY <1>1 DEF Unclobbered, Loads
<1>3. f \in DOMAIN inodes /\ proc[p].chunk = k
  BY <1>2 DEF Writes
<1>4. PICK n \in 0 .. Size : inodes[f] = Sent(n)
  BY <1>3 DEF Unclobbered, Held
<1>5. n \in Nat /\ Len(Sent(n)) = n /\ k \in 0 .. n /\ k < Size /\ Size \in Nat
  BY <1>1, <1>2, <1>3, <1>4, Chunks DEF Writes
<1>6. PICK m \in 0 .. Size : n <= m /\ k + 1 <= m /\ MD!Written(Sent(n), k + 1, k + 1) = Sent(m)
  <2> DEFINE m == IF k + 1 > n THEN k + 1 ELSE n
  <2>1. m \in 0 .. Size /\ n <= m /\ k + 1 <= m
    BY <1>5
  <2>2. MD!Written(Sent(n), k + 1, k + 1)
          = [i \in 1 .. m |-> IF i = k + 1 THEN k + 1 ELSE IF i <= n THEN Sent(n)[i] ELSE 0]
    BY <1>5 DEF MD!Written
  <2>3. \A i \in 1 .. m : (IF i = k + 1 THEN k + 1 ELSE IF i <= n THEN Sent(n)[i] ELSE 0) = i
    BY <1>5 DEF Sent
  <2> HIDE DEF m
  <2>4. MD!Written(Sent(n), k + 1, k + 1) = [i \in 1 .. m |-> i]
    BY <2>2, <2>3
  <2> QED BY <2>1, <2>4 DEF Sent
<1>7. inodes' = [inodes EXCEPT ![f] = Sent(m)] /\ Sent(m) \in Seq(Nat) /\ Len(Sent(m)) = m /\ m \in Nat
  <2>1. m \in Nat
    BY <1>5
  <2> QED BY <1>1, <1>3, <1>4, <1>6, <2>1, Chunks
<1>8. /\ inodes' \in Seq(Seq(Nat)) /\ DOMAIN inodes' = DOMAIN inodes /\ inodes'[f] = Sent(m)
      /\ \A g \in DOMAIN inodes \ {f} : inodes'[g] = inodes[g]
  BY <1>3, <1>7 DEF Unclobbered
<1>9. \A g \in DOMAIN inodes' : Held(g)'
  <2>1. ASSUME NEW g \in DOMAIN inodes, g # f PROVE Held(g)'
    <3>1. PICK j \in 0 .. Size : inodes[g] = Sent(j)
      BY DEF Unclobbered, Held
    <3> QED BY <1>8, <2>1, <3>1 DEF Held, Sent
  <2>2. ASSUME NEW g \in DOMAIN inodes, g = f PROVE Held(g)'
    BY <1>6, <1>8, <2>2 DEF Held, Sent
  <2> QED BY <1>8, <2>1, <2>2
<1>10. \A g \in DOMAIN inodes : Len(inodes[g]) <= Len(inodes'[g])
  <2>1. ASSUME NEW g \in DOMAIN inodes, g # f PROVE Len(inodes[g]) <= Len(inodes'[g])
    <3>1. Len(inodes[g]) \in Nat
      BY DEF Unclobbered
    <3> QED BY <1>8, <2>1, <3>1
  <2>2. Len(inodes[f]) <= Len(inodes'[f])
    BY <1>4, <1>5, <1>6, <1>7, <1>8
  <2> QED BY <2>1, <2>2
<1>11. dest \in DOMAIN inodes => inodes'[dest] = inodes[dest]
  <2>1. CASE dest = f /\ dest # 0
    <3>1. inodes[f] = Sent(Size)
      BY <2>1 DEF Unclobbered
    <3>2. Len(Sent(Size)) = Size
      BY Chunks
    <3>3. n = Size
      BY <1>4, <1>5, <3>1, <3>2
    <3>4. m = n
      BY <1>5, <1>6, <3>3
    <3> QED BY <1>4, <1>8, <2>1, <3>4
  <2>2. CASE dest # f
    BY <1>8, <2>2
  <2>3. 0 \notin DOMAIN inodes
    BY DEF Unclobbered
  <2> QED BY <2>1, <2>2, <2>3
<1>12. PICK r : r = [[proc[p] EXCEPT !.pos = @ + 1] EXCEPT !.chunk = @ + 1]
  OBVIOUS
<1>13. proc' = [proc EXCEPT ![p] = r]
  BY <1>12 DEF MD!Copy
<1>14. DOMAIN r = DOMAIN proc[p] /\ r.pc = "copy" /\ r.fd = f /\ r.pos = k + 1 /\ r.chunk = k + 1
  BY <1>1, <1>2, <1>3, <1>12 DEF Loads
<1>15. r.pos \in 0 .. Len(inodes'[f])
  <2>1. Len(inodes'[f]) = m /\ m \in Nat
    BY <1>7, <1>8
  <2>2. k \in Nat /\ k + 1 <= m
    BY <1>5, <1>6
  <2> HIDE DEF k
  <2> QED BY <1>14, <2>1, <2>2
<1>16. Writes(r)'
  BY <1>3, <1>8, <1>14, <1>15 DEF Writes
<1>17. Loads(r)'
  BY <1>2, <1>14, <1>16 DEF Loads
<1>18. mdTmp' \in {0} \cup DOMAIN inodes' /\ (mdTmp' # 0 => mdTmp' # dest)
  BY <1>1, <1>8 DEF Unclobbered
<1> QED BY <1>1, <1>8, <1>9, <1>10, <1>11, <1>13, <1>17, <1>18, MDOne

(* A file is emptied only when nobody has it, and added to where it ends.        *)
LEMMA MDOpens == ASSUME Unclobbered, NEW p \in Procs, MD!Open(p), ~clobbered' PROVE Unclobbered'
<1> DEFINE f == IF mdTmp = 0 THEN Len(inodes) + 1 ELSE mdTmp
           there == IF mdTmp = 0 THEN Append(inodes, <<>>) ELSE inodes
           k == IF proc[p].resumed THEN proc[p].existing ELSE 0
<1>1. /\ proc[p].pc = "open" /\ inodes' = (IF proc[p].resumed THEN there ELSE [there EXCEPT ![f] = <<>>])
      /\ mdTmp' = f /\ UNCHANGED dest /\ ~MD!Clobbers(p)
  BY DEF MD!Open, MD!At
<1>2. Loads(proc[p]) /\ proc[p].existing \in Nat
  BY <1>1 DEF Unclobbered, Loads
<1>3. inodes \in Seq(Seq(Nat)) /\ Len(inodes) \in Nat /\ DOMAIN inodes = 1 .. Len(inodes)
  BY DEF Unclobbered
<1>4. /\ there \in Seq(Seq(Nat)) /\ f \in DOMAIN there /\ DOMAIN inodes \subseteq DOMAIN there
      /\ \A g \in DOMAIN inodes : there[g] = inodes[g]
      /\ \A g \in DOMAIN there \ DOMAIN inodes : g = f /\ mdTmp = 0 /\ there[g] = <<>>
  <2>1. CASE mdTmp = 0
    <3>1. <<>> \in Seq(Nat)
      OBVIOUS
    <3>2. there \in Seq(Seq(Nat)) /\ Len(there) = Len(inodes) + 1
      BY <1>3, <2>1, <3>1
    <3>3. \A g \in 1 .. Len(inodes) + 1 : there[g] = IF g = Len(inodes) + 1 THEN <<>> ELSE inodes[g]
      BY <1>3, <2>1
    <3>4. DOMAIN there = 1 .. Len(inodes) + 1
      BY <3>2
    <3> QED BY <1>3, <2>1, <3>2, <3>3, <3>4
  <2>2. CASE mdTmp # 0
    BY <1>3, <2>2 DEF Unclobbered
  <2> QED BY <2>1, <2>2
<1>5. Sent(0) = <<>> /\ 0 \in 0 .. Size /\ Len(Sent(0)) = 0
  BY Chunks DEF Sent
<1>6. \A g \in DOMAIN there : \E n \in 0 .. Size : there[g] = Sent(n)
  BY <1>4, <1>5 DEF Unclobbered, Held
<1>7. /\ inodes' \in Seq(Seq(Nat)) /\ DOMAIN inodes' = DOMAIN there
      /\ \A g \in DOMAIN there : inodes'[g] = there[g] \/ (g = f /\ ~proc[p].resumed /\ inodes'[g] = <<>>)
  <2>1. <<>> \in Seq(Nat)
    OBVIOUS
  <2>2. CASE proc[p].resumed
    BY <1>1, <1>4, <2>2
  <2>3. CASE ~proc[p].resumed
    <3>1. inodes' = [there EXCEPT ![f] = <<>>]
      BY <1>1, <2>3
    <3> HIDE DEF there, f
    <3> QED BY <1>4, <2>1, <2>3, <3>1
  <2> QED BY <2>2, <2>3
<1>8. \A g \in DOMAIN inodes' : Held(g)'
  BY <1>5, <1>6, <1>7 DEF Held, Sent
<1>9. ASSUME NEW g \in DOMAIN inodes
      PROVE  Len(inodes[g]) <= Len(inodes'[g]) \/ \A q \in Procs : proc[q].fd # g
  <2>1. Len(inodes[g]) \in Nat /\ g \in DOMAIN there /\ there[g] = inodes[g]
    BY <1>3, <1>4
  <2>2. CASE inodes'[g] = there[g]
    BY <2>1, <2>2
  <2>3. CASE g = f /\ ~proc[p].resumed /\ inodes'[g] = <<>>
    <3>1. mdTmp # 0 /\ mdTmp = g
      BY <1>3, <2>3
    <3>2. MD!Length(mdTmp) = Len(inodes[g])
      BY <3>1 DEF MD!Length
    <3>3. ~(Len(inodes[g]) > 0 /\ \E q \in Procs : proc[q].fd = g)
      BY <1>1, <2>3, <3>1, <3>2 DEF MD!Clobbers
    <3>4. CASE Len(inodes[g]) = 0
      <4>1. Len(inodes'[g]) = 0
        BY <2>3
      <4> QED BY <3>4, <4>1
    <3>5. CASE Len(inodes[g]) # 0
      BY <2>1, <3>3, <3>5
    <3> QED BY <3>4, <3>5
  <2> QED BY <1>7, <2>1, <2>2, <2>3
<1>10. dest \in DOMAIN inodes => inodes'[dest] = inodes[dest] /\ dest # f
  <2>1. dest \in DOMAIN inodes => dest # f
    BY <1>3 DEF Unclobbered
  <2> QED BY <1>4, <1>7, <2>1
<1>11. mdTmp' \in {0} \cup DOMAIN inodes' /\ (mdTmp' # 0 => mdTmp' # dest)
  <2>1. f # dest
    BY <1>3 DEF Unclobbered
  <2> QED BY <1>1, <1>4, <1>7, <2>1
<1>12. PICK r : r = [[[[proc[p] EXCEPT !.pc = "copy"] EXCEPT !.fd = f] EXCEPT !.pos = k] EXCEPT !.chunk = k]
  OBVIOUS
<1>13. proc' = [proc EXCEPT ![p] = r]
  BY <1>12 DEF MD!Open
<1>14. DOMAIN r = DOMAIN proc[p] /\ r.pc = "copy" /\ r.fd = f /\ r.pos = k /\ r.chunk = k
  BY <1>2, <1>12 DEF Loads
<1>15. k \in 0 .. Len(inodes'[f])
  <2>1. inodes'[f] \in Seq(Nat)
    BY <1>4, <1>7
  <2>2. Len(inodes'[f]) \in Nat
    BY <2>1
  <2>3. CASE ~proc[p].resumed
    BY <2>2, <2>3
  <2>4. CASE proc[p].resumed
    <3>1. ~(proc[p].existing > MD!Length(mdTmp))
      BY <1>1, <2>4 DEF MD!Clobbers
    <3>2. MD!Length(mdTmp) = Len(inodes'[f])
      <4>1. inodes'[f] = there[f]
        BY <1>4, <1>7, <2>4
      <4>2. CASE mdTmp = 0
        <5>1. there[f] = <<>>
          BY <1>3, <1>4, <4>2
        <5> QED BY <4>1, <4>2, <5>1 DEF MD!Length
      <4>3. CASE mdTmp # 0
        BY <4>1, <4>3 DEF MD!Length
      <4> QED BY <4>2, <4>3
    <3> QED BY <1>2, <2>2, <2>4, <3>1, <3>2
  <2> QED BY <2>3, <2>4
<1>16. Writes(r)'
  BY <1>4, <1>7, <1>14, <1>15 DEF Writes
<1>17. Loads(r)'
  BY <1>2, <1>14, <1>16 DEF Loads
<1>18. DOMAIN inodes \subseteq DOMAIN inodes'
  BY <1>4, <1>7
<1> HIDE DEF f, there, k
<1> QED BY <1>1, <1>7, <1>8, <1>9, <1>10, <1>11, <1>13, <1>17, <1>18, MDOne

(* What is put in place is what its process has written to the end.             *)
LEMMA MDRenames == ASSUME Unclobbered, NEW p \in Procs, MD!Rename(p), ~clobbered' PROVE Unclobbered'
<1>1. proc[p].pc = "rename" /\ UNCHANGED inodes /\ mdTmp \in {0, proc[p].fd}
  BY DEF MD!Rename, MD!At
<1>2. Loads([MD!Off EXCEPT !.pc = "ready"]) /\ Loads([MD!Off EXCEPT !.pc = "without"])
  BY DEF MD!Off, Loads
<1>3. CASE mdTmp = 0
  <2>1. proc' = [proc EXCEPT ![p] = [MD!Off EXCEPT !.pc = "without"]] /\ UNCHANGED <<inodes, dest, mdTmp>>
    BY <1>1, <1>3 DEF MD!Rename, MD!names
  <2> QED BY <1>2, <2>1, MDQuiet
<1>4. CASE mdTmp # 0
  <2>1. dest' = mdTmp /\ mdTmp' = 0 /\ proc' = [proc EXCEPT ![p] = [MD!Off EXCEPT !.pc = "ready"]]
    BY <1>4 DEF MD!Rename
  <2>2. Writes(proc[p]) /\ mdTmp = proc[p].fd
    BY <1>1, <1>4 DEF Unclobbered, Loads
  <2>3. mdTmp \in DOMAIN inodes /\ Size \in 0 .. Len(inodes[mdTmp])
    BY <1>1, <2>2 DEF Writes
  <2>4. PICK n \in 0 .. Size : inodes[mdTmp] = Sent(n)
    BY <2>3 DEF Unclobbered, Held
  <2>5. n = Size
    <3>1. Len(Sent(n)) = n /\ Size \in Nat
      BY Chunks
    <3> QED BY <2>3, <2>4, <3>1
  <2>6. \A q \in Procs : Loads(proc[q])'
    BY <1>1, <1>2, <2>1 DEF Unclobbered, Loads, Writes
  <2>7. \A g \in DOMAIN inodes' : Held(g)'
    BY <1>1 DEF Unclobbered, Held, Sent
  <2>8. DOMAIN proc' = Procs
    BY <2>1 DEF Unclobbered
  <2> QED BY <1>1, <2>1, <2>3, <2>4, <2>5, <2>6, <2>7, <2>8 DEF Unclobbered, Sent
<1> QED BY <1>3, <1>4

LEMMA MDStep == MDInv /\ [Move]_all => MDInv'
<1> SUFFICES ASSUME MDInv, [Move]_all PROVE MDInv'
  OBVIOUS
<1>1. CASE MD!Next
  <2>1. PICK p \in Procs :
          \/ MD!Start(p) \/ MD!Stat(p) \/ MD!Request(p) \/ MD!Open(p) \/ MD!Copy(p) \/ MD!CopyFails(p)
          \/ MD!EndOfFile(p) \/ MD!Rename(p) \/ MD!Killed(p)
    BY <1>1 DEF MD!Next
  <2>2. clobbered' \in BOOLEAN /\ (~clobbered' => ~clobbered)
    BY <2>1 DEF MDInv, MD!Start, MD!Stat, MD!Request, MD!Open, MD!Copy, MD!CopyFails, MD!EndOfFile,
                MD!Rename, MD!Killed
  <2>3. ASSUME ~clobbered' PROVE Unclobbered'
    <3>1. Unclobbered
      BY <2>2, <2>3 DEF MDInv
    <3> QED BY <2>1, <2>3, <3>1, MDWaits, MDCopies, MDOpens, MDRenames
  <2> QED BY <2>2, <2>3 DEF MDInv
<1>2. CASE UNCHANGED mdState
  BY <1>2 DEF mdState, MDInv, Unclobbered, Loads, Writes, Held, Sent
<1> QED BY <1>1, <1>2 DEF Move, all, mdState

-----------------------------------------------------------------------------
(* SessionBlock.  Items are weighed in the order of their tiers; what was passed   *)
(* over did not fit, or had no reserve left, and the identity is refused only     *)
(* when the rules before it have used the budget.                             *)
Before(i, j) == i[1] < j[1] \/ (i[1] = j[1] /\ i[2] < j[2])
Past(i)      == sbPc # "query" /\ (sbPc = "reserve" => Before(i, at))
Packed       == sbPc \in {"mark", "print", "printed"}
SBShape ==
  /\ sbPc \in {"query", "reserve", "fill", "mark", "print", "printed"}
  /\ tiers \in Seq(Seq(Nat)) /\ Len(tiers) <= 4 /\ (Len(tiers) >= 2 => Len(tiers[2]) <= 1)
  /\ IF sbPc = "query" THEN Len(tiers) < 4 /\ included = {} /\ at = <<1, 1>> ELSE Len(tiers) = 4
  /\ file \in Nat /\ at \in (1 .. 4) \X (Nat \ {0})
  /\ included \subseteq SB!Items /\ IsFiniteSet(included) /\ remaining \in Nat
SBSpent ==
  /\ IsFiniteSet(SB!Tokens(included)) /\ IsFiniteSet(SB!Chars(included))
  /\ included = {} => remaining = Budget
  /\ included # {} =>
       remaining + Cardinality(SB!Tokens(included)) + Cardinality(included) = Budget + 1
  /\ Cardinality(SB!Chars(included)) <= CharsPerToken * Cardinality(SB!Tokens(included))
SBPassed ==
  /\ sbPc = "fill" => \A i \in SB!Items \ included : Before(i, at) => SB!Cost(i) > remaining
  /\ Packed => \A i \in SB!Items \ included : SB!Cost(i) > remaining
Unreserved(i) ==
  Cardinality(SB!FirstRules) = MinRules /\ \A o \in SB!FirstRules : o[2] < i[2]
Refused ==
  Cardinality(SB!Tokens(SB!FirstRules)) + Cardinality(SB!FirstRules)
    + SB!ApproxTokens(tiers[2][1]) > Budget
SBReserved ==
  /\ sbPc = "reserve" => /\ \A i \in included : Before(i, at)
                         /\ Cardinality(SB!Rules) <= MinRules
  /\ \A i \in SB!Items \ included : i[1] = 1 /\ Past(i) => SB!Cost(i) > remaining \/ Unreserved(i)
  /\ <<2, 1>> \in SB!Items \ included /\ Past(<<2, 1>>) => Refused
SBMarked ==
  /\ identity \in Int /\ sbEdits \in Int /\ identity <= sbEdits /\ marked \in BOOLEAN
  /\ marked => sbPc \in {"print", "printed"} /\ SB!MarkIsEarned
SBInv == focus = "sb" => SBShape /\ SBSpent /\ SBPassed /\ SBReserved /\ SBMarked

LEMMA SBNumbers ==
  CharsPerToken \in Nat \ {0} /\ MinRules \in Nat /\ Budget \in Nat /\ MaxItems \in Nat /\ Lengths \subseteq Nat
BY CallersAssumption

LEMMA SBCounts == ASSUME NEW S PROVE SB!Cardinality(S) = Cardinality(S)
BY DEF SB!Cardinality, Cardinality

LEMMA TiersHold ==
  ASSUME SBShape, NEW t \in DOMAIN tiers
  PROVE  t \in 1 .. Len(tiers) /\ Len(tiers) \in 0 .. 4 /\ tiers[t] \in Seq(Nat)
<1> DEFINE N == Seq(Nat)
<1>1. tiers \in Seq(N) /\ Len(tiers) <= 4
  BY DEF SBShape
<1> HIDE DEF N
<1>2. Len(tiers) \in Nat /\ DOMAIN tiers = 1 .. Len(tiers)
  BY <1>1
<1>3. tiers[t] \in N
  BY <1>1, <1>2
<1>4. t \in 1 .. Len(tiers) /\ Len(tiers) \in 0 .. 4
  BY <1>1, <1>2
<1> QED BY <1>3, <1>4 DEF N

LEMMA Positions ==
  \A x : x \in SB!Items <=> \E t \in DOMAIN tiers : \E j \in DOMAIN tiers[t] : x = <<t, j>>
BY DEF SB!Items

(* Tokens hold the characters they are made of, and no more than they need.      *)
LEMMA RoundsUp ==
  ASSUME NEW n \in Nat
  PROVE  /\ SB!ApproxTokens(n) \in Nat /\ n <= CharsPerToken * SB!ApproxTokens(n)
         /\ \A b \in Nat : n <= CharsPerToken * b => SB!ApproxTokens(n) <= b
<1> DEFINE c == CharsPerToken
           a == n + c - 1
           q == a \div c
<1>1. c \in Nat \ {0} /\ a \in Nat
  BY SBNumbers
<1> HIDE DEF c, a
<1>2. q \in Int /\ c * q <= a /\ a < c * q + c
  BY <1>1
<1>3. q \in Nat
  BY <1>1
<1> HIDE DEF q
<1>4. n <= c * q
  <2>1. c * q \in Int
    BY <1>1, <1>3
  <2> QED BY <1>1, <1>2, <2>1 DEF a
<1>5. ASSUME NEW b \in Nat, n <= c * b PROVE q <= b
  <2>1. SUFFICES ASSUME q >= b + 1 PROVE FALSE
    BY <1>3
  <2>2. c * (b + 1) <= c * q
    BY <1>1, <1>3, <2>1
  <2>3. c * (b + 1) = c * b + c /\ c * b \in Int /\ c * q \in Int
    BY <1>1, <1>3
  <2> QED BY <1>1, <1>2, <1>5, <2>2, <2>3 DEF a
<1> QED BY <1>3, <1>4, <1>5 DEF q, a, c, SB!ApproxTokens

LEMMA OneToken == SB!ApproxTokens(1) = 1
<1>1. SB!ApproxTokens(1) \in Nat /\ 1 <= CharsPerToken * SB!ApproxTokens(1) /\ SB!ApproxTokens(1) <= 1
  BY RoundsUp, SBNumbers
<1>2. CASE SB!ApproxTokens(1) = 0
  BY <1>1, <1>2, SBNumbers
<1> QED BY <1>1, <1>2

(* A row of n has n, and one more row adds its own.                             *)
LEMMA OneRow ==
  ASSUME NEW x, NEW n \in Nat
  PROVE  IsFiniteSet({x} \X (1 .. n)) /\ Cardinality({x} \X (1 .. n)) = n
<1>1. IsFiniteSet({x}) /\ Cardinality({x}) = 1
  BY FS_Singleton
<1>2. IsFiniteSet(1 .. n)
  BY FS_Interval
<1>3. Cardinality(1 .. n) = n
  <2>1. Cardinality(1 .. n) = IF 1 > n THEN 0 ELSE n - 1 + 1
    BY FS_Interval
  <2> QED BY <2>1
<1>4. /\ IsFiniteSet({x} \X (1 .. n))
      /\ Cardinality({x} \X (1 .. n)) = Cardinality({x}) * Cardinality(1 .. n)
  BY <1>1, <1>2, FS_Product
<1> QED BY <1>1, <1>3, <1>4

LEMMA PileAdds ==
  ASSUME NEW w, NEW S, NEW x, x \notin S, w[x] \in Nat,
         IsFiniteSet(UNION {{i} \X (1 .. w[i]) : i \in S})
  PROVE  /\ IsFiniteSet(UNION {{i} \X (1 .. w[i]) : i \in S \cup {x}})
         /\ Cardinality(UNION {{i} \X (1 .. w[i]) : i \in S \cup {x}})
              = Cardinality(UNION {{i} \X (1 .. w[i]) : i \in S}) + w[x]
<1> DEFINE P == UNION {{i} \X (1 .. w[i]) : i \in S}
           Q == {x} \X (1 .. w[x])
<1>1. IsFiniteSet(Q) /\ Cardinality(Q) = w[x]
  BY OneRow
<1>2. UNION {{i} \X (1 .. w[i]) : i \in S \cup {x}} = P \cup Q
  OBVIOUS
<1>3. P \cap Q = {}
  <2>1. \A y \in P : \E i \in S : y \in {i} \X (1 .. w[i])
    OBVIOUS
  <2>2. \A y \in Q : y[1] = x
    OBVIOUS
  <2>3. \A y \in P : y[1] \in S
    BY <2>1
  <2> QED BY <2>2, <2>3
<1>4. IsFiniteSet(P \cup Q) /\ Cardinality(P \cup Q) = Cardinality(P) + Cardinality(Q) - Cardinality(P \cap Q)
  BY <1>1, FS_Union
<1>5. Cardinality(P \cap Q) = 0 /\ Cardinality(P) \in Nat
  BY <1>3, FS_EmptySet, FS_CardinalityType
<1>6. Cardinality(P \cup Q) = Cardinality(P) + w[x]
  <2> HIDE DEF P, Q
  <2> QED BY <1>1, <1>4, <1>5
<1> QED BY <1>2, <1>4, <1>6

(* The first of a few are all of them, and who comes after enough is not one.    *)
LEMMA FirstAll ==
  ASSUME NEW R, IsFiniteSet(R), \A i \in R : i[2] \in Nat, NEW m \in Nat, Cardinality(R) <= m
  PROVE  {i \in R : Cardinality({o \in R : o[2] < i[2]}) < m} = R
<1>1. ASSUME NEW i \in R PROVE Cardinality({o \in R : o[2] < i[2]}) < m
  <2>1. {o \in R : o[2] < i[2]} \subseteq R \ {i}
    OBVIOUS
  <2>2. IsFiniteSet(R \ {i}) /\ Cardinality(R \ {i}) = Cardinality(R) - 1
    BY FS_RemoveElement
  <2>3. Cardinality({o \in R : o[2] < i[2]}) <= Cardinality(R \ {i})
    BY <2>1, <2>2, FS_Subset
  <2>4. Cardinality({o \in R : o[2] < i[2]}) \in Nat /\ Cardinality(R) \in Nat
    BY <2>1, <2>2, FS_Subset, FS_CardinalityType
  <2> QED BY <2>2, <2>3, <2>4
<1> QED BY <1>1

LEMMA FirstKept ==
  ASSUME NEW R, IsFiniteSet(R), NEW x, x \notin R, \A i \in R \cup {x} : i[2] \in Nat, NEW m \in Nat,
         NEW F, F = {i \in R : Cardinality({o \in R : o[2] < i[2]}) < m},
         Cardinality(F) = m, \A o \in F : o[2] < x[2]
  PROVE  {i \in R \cup {x} : Cardinality({o \in R \cup {x} : o[2] < i[2]}) < m} = F
<1>1. IsFiniteSet(R \cup {x})
  BY FS_AddElement
<1>2. \A i : /\ IsFiniteSet({o \in R \cup {x} : o[2] < i[2]})
             /\ Cardinality({o \in R \cup {x} : o[2] < i[2]}) \in Nat
             /\ Cardinality({o \in R : o[2] < i[2]}) \in Nat
             /\ Cardinality({o \in R : o[2] < i[2]}) <= Cardinality({o \in R \cup {x} : o[2] < i[2]})
  <2>1. TAKE i
  <2>2. /\ {o \in R \cup {x} : o[2] < i[2]} \subseteq R \cup {x}
        /\ {o \in R : o[2] < i[2]} \subseteq {o \in R \cup {x} : o[2] < i[2]}
    OBVIOUS
  <2>3. IsFiniteSet({o \in R \cup {x} : o[2] < i[2]})
    BY <1>1, <2>2, FS_Subset
  <2> QED BY <2>2, <2>3, FS_Subset, FS_CardinalityType
<1>3. ~(Cardinality({o \in R \cup {x} : o[2] < x[2]}) < m)
  <2>1. F \subseteq {o \in R \cup {x} : o[2] < x[2]}
    OBVIOUS
  <2>2. IsFiniteSet({o \in R \cup {x} : o[2] < x[2]})
    BY <1>2
  <2>3. Cardinality(F) <= Cardinality({o \in R \cup {x} : o[2] < x[2]})
    BY <2>1, <2>2, FS_Subset
  <2>4. Cardinality({o \in R \cup {x} : o[2] < x[2]}) \in Nat
    BY <1>2
  <2> QED BY <2>3, <2>4
<1>4. ASSUME NEW i \in F PROVE Cardinality({o \in R \cup {x} : o[2] < i[2]}) < m
  <2>1. ~(x[2] < i[2])
    OBVIOUS
  <2>2. {o \in R \cup {x} : o[2] < i[2]} = {o \in R : o[2] < i[2]}
    BY <2>1
  <2> QED BY <2>2
<1>5. ASSUME NEW i \in R \ F PROVE ~(Cardinality({o \in R \cup {x} : o[2] < i[2]}) < m)
  <2>1. ~(Cardinality({o \in R : o[2] < i[2]}) < m)
    OBVIOUS
  <2>2. /\ Cardinality({o \in R \cup {x} : o[2] < i[2]}) \in Nat
        /\ Cardinality({o \in R : o[2] < i[2]}) \in Nat
        /\ Cardinality({o \in R : o[2] < i[2]}) <= Cardinality({o \in R \cup {x} : o[2] < i[2]})
    BY <1>2
  <2> QED BY <2>1, <2>2
<1>6. F \subseteq R
  OBVIOUS
<1> QED BY <1>3, <1>4, <1>5, <1>6

(* What an item weighs, and what it costs on top of others.                     *)
LEMMA Weights ==
  ASSUME SBShape, NEW i \in SB!Items
  PROVE  /\ i = <<i[1], i[2]>> /\ i[1] \in 1 .. 4 /\ i[2] \in Nat \ {0}
         /\ tiers[i[1]][i[2]] \in Nat /\ SB!ApproxTokens(tiers[i[1]][i[2]]) \in Nat
         /\ SB!Cost(i) = SB!ApproxTokens(tiers[i[1]][i[2]]) + (IF included = {} THEN 0 ELSE 1)
<1>1. PICK t \in DOMAIN tiers : \E j \in DOMAIN tiers[t] : i = <<t, j>>
  BY Positions
<1>2. PICK j \in DOMAIN tiers[t] : i = <<t, j>>
  BY <1>1
<1>3. t \in 1 .. 4 /\ tiers[t] \in Seq(Nat)
  BY TiersHold
<1>4. j \in Nat \ {0} /\ tiers[t][j] \in Nat
  BY <1>3
<1>5. i[1] = t /\ i[2] = j
  BY <1>2
<1>6. SB!ApproxTokens(tiers[t][j]) \in Nat
  BY <1>4, RoundsUp
<1> QED BY <1>2, <1>3, <1>4, <1>5, <1>6, OneToken DEF SB!Cost

(* The item that is weighed is taken: it is paid for, and whatever did not fit    *)
(* does not fit afterwards.                                                  *)
LEMMA SBTakes ==
  ASSUME SBShape, SBSpent, at \in SB!Items, at \notin included, SB!Cost(at) <= remaining, SB!Take,
         UNCHANGED tiers
  PROVE  /\ included' \subseteq SB!Items /\ IsFiniteSet(included') /\ remaining' \in Nat
         /\ included' = included \cup {at}
         /\ SBSpent'
         /\ \A i \in SB!Items : SB!Cost(i) > remaining => SB!Cost(i)' > remaining'
<1> DEFINE n == tiers[at[1]][at[2]]
           k == SB!ApproxTokens(n)
<1>1. included' = included \cup {at} /\ remaining' = remaining - SB!Cost(at)
  BY DEF SB!Take
<1>2. n \in Nat /\ k \in Nat /\ n <= CharsPerToken * k
      /\ SB!Cost(at) = k + (IF included = {} THEN 0 ELSE 1)
  BY Weights, RoundsUp
<1>3. remaining \in Nat /\ remaining' \in Nat
  BY <1>1, <1>2 DEF SBShape
<1>4. IsFiniteSet(included) /\ IsFiniteSet(included')
      /\ Cardinality(included') = Cardinality(included) + 1 /\ Cardinality(included) \in Nat
  BY <1>1, FS_AddElement, FS_CardinalityType DEF SBShape
<1>5. /\ IsFiniteSet(SB!Tokens(included)')
      /\ Cardinality(SB!Tokens(included)') = Cardinality(SB!Tokens(included)) + k
  <2> DEFINE w == [i \in SB!Items |-> SB!ApproxTokens(tiers[i[1]][i[2]])]
  <2>1. w[at] = k /\ included \subseteq SB!Items
    BY DEF SBShape
  <2>2. \A i \in SB!Items : w[i] = SB!ApproxTokens(tiers[i[1]][i[2]])
    OBVIOUS
  <2> HIDE DEF w
  <2>3. SB!Tokens(included) = UNION {{i} \X (1 .. w[i]) : i \in included}
    BY <2>1, <2>2 DEF SB!Tokens
  <2>4. SB!Tokens(included)' = UNION {{i} \X (1 .. w[i]) : i \in included \cup {at}}
    BY <1>1, <2>1, <2>2 DEF SB!Tokens, SB!ApproxTokens
  <2> HIDE DEF k
  <2>5. IsFiniteSet(UNION {{i} \X (1 .. w[i]) : i \in included}) /\ w[at] \in Nat
    BY <1>2, <2>1, <2>3 DEF SBSpent
  <2>6. /\ IsFiniteSet(UNION {{i} \X (1 .. w[i]) : i \in included \cup {at}})
        /\ Cardinality(UNION {{i} \X (1 .. w[i]) : i \in included \cup {at}})
             = Cardinality(UNION {{i} \X (1 .. w[i]) : i \in included}) + w[at]
    BY <2>5, PileAdds
  <2> QED BY <2>1, <2>3, <2>4, <2>6
<1>6. /\ IsFiniteSet(SB!Chars(included)')
      /\ Cardinality(SB!Chars(included)') = Cardinality(SB!Chars(included)) + n
  <2> DEFINE w == [i \in SB!Items |-> tiers[i[1]][i[2]]]
  <2>1. w[at] = n /\ included \subseteq SB!Items
    BY DEF SBShape
  <2>2. \A i \in SB!Items : w[i] = tiers[i[1]][i[2]]
    OBVIOUS
  <2> HIDE DEF w
  <2>3. SB!Chars(included) = UNION {{i} \X (1 .. w[i]) : i \in included}
    BY <2>1, <2>2 DEF SB!Chars
  <2>4. SB!Chars(included)' = UNION {{i} \X (1 .. w[i]) : i \in included \cup {at}}
    BY <1>1, <2>1, <2>2 DEF SB!Chars
  <2> HIDE DEF n
  <2>5. IsFiniteSet(UNION {{i} \X (1 .. w[i]) : i \in included}) /\ w[at] \in Nat
    BY <1>2, <2>1, <2>3 DEF SBSpent
  <2>6. /\ IsFiniteSet(UNION {{i} \X (1 .. w[i]) : i \in included \cup {at}})
        /\ Cardinality(UNION {{i} \X (1 .. w[i]) : i \in included \cup {at}})
             = Cardinality(UNION {{i} \X (1 .. w[i]) : i \in included}) + w[at]
    BY <2>5, PileAdds
  <2> QED BY <2>1, <2>3, <2>4, <2>6
<1>7. Cardinality(SB!Tokens(included)) \in Nat /\ Cardinality(SB!Chars(included)) \in Nat
  BY FS_CardinalityType DEF SBSpent
<1>8. included = {} => Cardinality(included) = 0 /\ Cardinality(SB!Tokens(included)) = 0
  <2>1. SB!Tokens({}) = {}
    BY DEF SB!Tokens
  <2> QED BY <2>1, FS_EmptySet
<1>9. remaining' + Cardinality(SB!Tokens(included)') + Cardinality(included') = Budget + 1
  <2> HIDE DEF k
  <2>1. Budget \in Nat
    BY SBNumbers
  <2>2. CASE included = {}
    <3>1. remaining = Budget
      BY <2>2 DEF SBSpent
    <3> QED BY <1>1, <1>2, <1>4, <1>5, <1>8, <2>1, <2>2, <3>1
  <2>3. CASE included # {}
    <3>1. remaining + Cardinality(SB!Tokens(included)) + Cardinality(included) = Budget + 1
      BY <2>3 DEF SBSpent
    <3> QED BY <1>1, <1>2, <1>3, <1>4, <1>5, <1>7, <2>1, <2>3, <3>1
  <2> QED BY <2>2, <2>3
<1>10. Cardinality(SB!Chars(included)') <= CharsPerToken * Cardinality(SB!Tokens(included)')
  <2> DEFINE x == Cardinality(SB!Tokens(included))
             y == Cardinality(SB!Chars(included))
  <2>1. y <= CharsPerToken * x /\ x \in Nat /\ y \in Nat /\ CharsPerToken \in Nat
    BY <1>7, SBNumbers DEF SBSpent
  <2>2. Cardinality(SB!Chars(included)') = y + n /\ Cardinality(SB!Tokens(included)') = x + k
    BY <1>5, <1>6
  <2> HIDE DEF x, y, n, k
  <2>3. CharsPerToken * (x + k) = CharsPerToken * x + CharsPerToken * k
        /\ CharsPerToken * x \in Nat /\ CharsPerToken * k \in Nat
    BY <1>2, <2>1
  <2> QED BY <1>2, <2>1, <2>2, <2>3
<1>11. SBSpent'
  BY <1>1, <1>5, <1>6, <1>9, <1>10 DEF SBSpent
<1>12. ASSUME NEW i \in SB!Items, SB!Cost(i) > remaining PROVE SB!Cost(i)' > remaining'
  <2>1. SB!ApproxTokens(tiers[i[1]][i[2]]) \in Nat
        /\ SB!Cost(i) = SB!ApproxTokens(tiers[i[1]][i[2]]) + (IF included = {} THEN 0 ELSE 1)
    BY Weights
  <2>2. SB!Cost(i)' = SB!ApproxTokens(tiers[i[1]][i[2]]) + 1
    BY <1>1, OneToken DEF SB!Cost, SB!ApproxTokens
  <2>3. remaining' <= remaining
    BY <1>1, <1>2, <1>3
  <2> QED BY <1>3, <1>12, <2>1, <2>2, <2>3
<1>13. included' \subseteq SB!Items
  BY <1>1 DEF SBShape
<1> QED BY <1>1, <1>3, <1>4, <1>11, <1>12, <1>13

(* On to the next item, the next tier or the next pass.                         *)
LEMMA SBForwards ==
  ASSUME SBShape, sbPc # "query", NEW next, next # sbPc, SB!Forward(next)
  PROVE  /\ at' \in (1 .. 4) \X (Nat \ {0}) /\ sbPc' \in {sbPc, next}
         /\ \A i \in SB!Items : i # at /\ (sbPc' = sbPc => Before(i, at')) => Before(i, at)
         /\ UNCHANGED sbPc => \A i \in SB!Items : Before(i, at) \/ i = at => Before(i, at')
         /\ ~UNCHANGED sbPc => sbPc' = next
<1>1. tiers \in Seq(Seq(Nat)) /\ Len(tiers) = 4 /\ at \in (1 .. 4) \X (Nat \ {0})
  BY DEF SBShape
<1>2. at = <<at[1], at[2]>> /\ at[1] \in 1 .. 4 /\ at[2] \in Nat \ {0}
  BY <1>1
<1>3. \A i \in SB!Items : /\ i = <<i[1], i[2]>> /\ i[1] \in 1 .. 4 /\ i[2] \in 1 .. Len(tiers[i[1]])
                        /\ Len(tiers[i[1]]) \in Nat
  <2>1. TAKE i \in SB!Items
  <2>2. PICK t \in DOMAIN tiers : \E j \in DOMAIN tiers[t] : i = <<t, j>>
    BY Positions
  <2>3. PICK j \in DOMAIN tiers[t] : i = <<t, j>>
    BY <2>2
  <2>4. t \in 1 .. 4 /\ tiers[t] \in Seq(Nat)
    BY TiersHold
  <2>5. DOMAIN tiers[t] = 1 .. Len(tiers[t]) /\ Len(tiers[t]) \in Nat
    BY <2>4
  <2> QED BY <2>3, <2>4, <2>5
<1>4. CASE at[2] + 1 <= Len(tiers[at[1]])
  <2>1. at' = <<at[1], at[2] + 1>> /\ UNCHANGED sbPc
    BY <1>4 DEF SB!Forward
  <2>2. at'[1] = at[1] /\ at'[2] = at[2] + 1
    BY <2>1
  <2>3. ASSUME NEW i \in SB!Items
        PROVE  /\ i # at /\ Before(i, at') => Before(i, at)
               /\ Before(i, at) \/ i = at => Before(i, at')
    <3>1. i = <<i[1], i[2]>> /\ i[1] \in Nat /\ i[2] \in Nat
      BY <1>3
    <3>2. Before(i, at') <=> i[1] < at[1] \/ (i[1] = at[1] /\ i[2] <= at[2])
      BY <1>2, <2>2, <3>1 DEF Before
    <3>3. i[1] = at[1] /\ i[2] = at[2] => i = at
      BY <1>2, <3>1
    <3> QED BY <1>2, <3>1, <3>2, <3>3 DEF Before
  <2> QED BY <1>2, <2>1, <2>3
<1>5. CASE ~(at[2] + 1 <= Len(tiers[at[1]])) /\ at[1] < 4
  <2>1. at' = <<at[1] + 1, 1>> /\ UNCHANGED sbPc
    BY <1>5 DEF SB!Forward
  <2>2. at'[1] = at[1] + 1 /\ at'[2] = 1
    BY <2>1
  <2>3. ASSUME NEW i \in SB!Items
        PROVE  /\ i # at /\ Before(i, at') => Before(i, at)
               /\ Before(i, at) \/ i = at => Before(i, at')
    <3>1. i = <<i[1], i[2]>> /\ i[1] \in Nat /\ i[2] \in 1 .. Len(tiers[i[1]]) /\ Len(tiers[i[1]]) \in Nat
      BY <1>3
    <3>2. Before(i, at') <=> i[1] <= at[1]
      BY <1>2, <2>2, <3>1 DEF Before
    <3>3. i[1] = at[1] => i[2] <= at[2]
      BY <1>2, <1>5, <3>1
    <3>4. i[1] = at[1] /\ i[2] = at[2] => i = at
      BY <1>2, <3>1
    <3> QED BY <1>2, <3>1, <3>2, <3>3, <3>4 DEF Before
  <2> QED BY <1>2, <1>5, <2>1, <2>3
<1>6. CASE ~(at[2] + 1 <= Len(tiers[at[1]])) /\ ~(at[1] < 4)
  <2>1. at' = <<1, 1>> /\ sbPc' = next
    BY <1>6 DEF SB!Forward
  <2>2. \A i \in SB!Items : i # at => Before(i, at)
    BY <1>2, <1>3, <1>6 DEF Before
  <2> QED BY <2>1, <2>2
<1> QED BY <1>4, <1>5, <1>6

(* In the first pass the rules taken are the first ones, and few.                *)
LEMMA FirstOnes ==
  ASSUME SBShape
  PROVE  /\ SB!FirstRules = {i \in SB!Rules : Cardinality({o \in SB!Rules : o[2] < i[2]}) < MinRules}
         /\ IsFiniteSet(SB!Rules) /\ \A i \in SB!Rules : i[2] \in Nat
         /\ Cardinality(SB!Rules) \in Nat
         /\ Cardinality(SB!Rules) <= MinRules => SB!FirstRules = SB!Rules
<1>1. SB!FirstRules = {i \in SB!Rules : Cardinality({o \in SB!Rules : o[2] < i[2]}) < MinRules}
  BY SBCounts DEF SB!FirstRules
<1>2. SB!Rules \subseteq included /\ IsFiniteSet(included)
  BY DEF SB!Rules, SBShape
<1>3. IsFiniteSet(SB!Rules) /\ Cardinality(SB!Rules) \in Nat
  BY <1>2, FS_Subset, FS_CardinalityType
<1>4. \A i \in SB!Rules : i[2] \in Nat
  BY <1>2, Weights DEF SBShape
<1>5. MinRules \in Nat
  BY SBNumbers
<1> QED BY <1>1, <1>3, <1>4, <1>5, FirstAll

(* Unless it has an item to weigh, it goes past; what it has a reserve for, and   *)
(* does not take, does not fit.                                              *)
LEMMA Weighed ==
  ASSUME SBShape, sbPc # "query"
  PROVE  /\ at = <<at[1], at[2]>> /\ at[1] \in 1 .. 4 /\ at[2] \in Nat \ {0}
         /\ at[2] <= Len(tiers[at[1]]) <=> at \in SB!Items
<1>1. at \in (1 .. 4) \X (Nat \ {0}) /\ tiers \in Seq(Seq(Nat)) /\ Len(tiers) = 4
  BY DEF SBShape
<1>2. at = <<at[1], at[2]>> /\ at[1] \in 1 .. 4 /\ at[2] \in Nat \ {0}
  BY <1>1
<1>3. DOMAIN tiers = 1 .. 4
  BY <1>1
<1>4. tiers[at[1]] \in Seq(Nat)
  BY <1>2, <1>3, TiersHold
<1>5. DOMAIN tiers[at[1]] = 1 .. Len(tiers[at[1]]) /\ Len(tiers[at[1]]) \in Nat
  BY <1>4
<1>6. at[2] <= Len(tiers[at[1]]) => at \in SB!Items
  <2>1. at[2] <= Len(tiers[at[1]]) => at[1] \in DOMAIN tiers /\ at[2] \in DOMAIN tiers[at[1]]
    BY <1>2, <1>3, <1>5
  <2> QED BY <1>2, <2>1, Positions
<1>7. at \in SB!Items => at[2] <= Len(tiers[at[1]])
  <2>1. SUFFICES ASSUME NEW t \in DOMAIN tiers, NEW j \in DOMAIN tiers[t], at = <<t, j>>
                 PROVE  at[2] <= Len(tiers[at[1]])
    BY Positions
  <2>2. at[1] = t /\ at[2] = j
    BY <2>1
  <2> QED BY <1>5, <2>2
<1> QED BY <1>2, <1>6, <1>7

LEMMA SBReserves == ASSUME SBShape, SBSpent, SBReserved, SBMarked, SB!Reserve PROVE SBShape' /\ SBSpent' /\ SBPassed' /\ SBReserved'
<1>1. /\ sbPc = "reserve" /\ SB!Forward("fill") /\ UNCHANGED <<file, tiers>>
      /\ IF at[2] <= Len(tiers[at[1]]) /\ SB!Reserved(at[1]) < SB!MinItems[at[1]] /\ SB!Cost(at) <= remaining
         THEN SB!Take ELSE UNCHANGED <<included, remaining>>
  BY DEF SB!Reserve
<1>2. /\ at = <<at[1], at[2]>> /\ at[1] \in 1 .. 4 /\ at[2] \in Nat \ {0}
      /\ at[2] <= Len(tiers[at[1]]) <=> at \in SB!Items
  BY <1>1, Weighed
<1>3. /\ at' \in (1 .. 4) \X (Nat \ {0}) /\ sbPc' \in {"reserve", "fill"}
      /\ \A i \in SB!Items : i # at /\ (sbPc' = "reserve" => Before(i, at')) => Before(i, at)
      /\ sbPc' = "reserve" => \A i \in SB!Items : Before(i, at) \/ i = at => Before(i, at')
      /\ sbPc' = "fill" => at' = <<1, 1>>
  <2>1. sbPc' = "fill" => at' = <<1, 1>>
    BY <1>1 DEF SB!Forward
  <2> QED BY <1>1, <2>1, SBForwards
<1>4. /\ \A i \in included : i \in SB!Items /\ Before(i, at) 
      /\ Cardinality(SB!Rules) <= MinRules /\ SB!FirstRules = SB!Rules
      /\ IsFiniteSet(SB!Rules) /\ Cardinality(SB!Rules) \in Nat /\ MinRules \in Nat
  BY <1>1, FirstOnes, SBNumbers DEF SBReserved, SBShape
<1>5. SB!Items' = SB!Items
  BY <1>1 DEF SB!Items
<1>6. \A i \in SB!Items : Past(i)' /\ i # at => Past(i)
  BY <1>1, <1>3 DEF Past
<1>7. at \notin included
  BY <1>2, <1>4 DEF Before
<1>8. at[1] = 1 => SB!Reserved(at[1]) = Cardinality(SB!Rules) /\ SB!MinItems[at[1]] = MinRules
  BY SBCounts DEF SB!Reserved, SB!Rules, SB!MinItems
<1>9. \A i \in SB!Items : ~Before(i, <<1, 1>>)
  <2>1. \A i \in SB!Items : i[1] \in 1 .. 4 /\ i[2] \in Nat \ {0}
    BY Weights
  <2> QED BY <2>1 DEF Before
<1>10. CASE at \in SB!Items /\ SB!Reserved(at[1]) < SB!MinItems[at[1]] /\ SB!Cost(at) <= remaining
  <2>1. SB!Take
    BY <1>1, <1>2, <1>10
  <2>2. /\ included' \subseteq SB!Items /\ IsFiniteSet(included') /\ remaining' \in Nat
        /\ included' = included \cup {at} /\ SBSpent'
        /\ \A i \in SB!Items : SB!Cost(i) > remaining => SB!Cost(i)' > remaining'
    BY <1>1, <1>7, <1>10, <2>1, SBTakes
  <2>3. SBShape'
    BY <1>1, <1>3, <1>5, <2>2 DEF SBShape
  <2>4. at[1] # 1 => SB!Rules' = SB!Rules
    BY <2>2 DEF SB!Rules
  <2>5. at[1] # 1 => SB!FirstRules' = SB!FirstRules
    BY <2>4 DEF SB!FirstRules
  <2>6. Cardinality(SB!Rules') <= MinRules
    <3>1. CASE at[1] = 1
      <4>1. SB!Rules' = SB!Rules \cup {at} /\ at \notin SB!Rules
        BY <1>7, <2>2, <3>1 DEF SB!Rules
      <4>2. Cardinality(SB!Rules') = Cardinality(SB!Rules) + 1
        BY <1>4, <4>1, FS_AddElement
      <4> QED BY <1>4, <1>8, <1>10, <3>1, <4>2
    <3>2. CASE at[1] # 1
      BY <1>4, <2>4, <3>2
    <3> QED BY <3>1, <3>2
  <2>7. sbPc' = "reserve" => \A i \in included' : Before(i, at')
    BY <1>3, <1>4, <1>10, <2>2
  <2>8. ASSUME NEW i \in SB!Items \ included', i[1] = 1, Past(i)' PROVE (SB!Cost(i) > remaining \/ Unreserved(i))'
    <3>1. i # at /\ i \notin included /\ Past(i)
      BY <1>6, <2>2, <2>8
    <3>2. SB!Cost(i) > remaining \/ Unreserved(i)
      BY <2>8, <3>1 DEF SBReserved
    <3>3. CASE SB!Cost(i) > remaining
      BY <2>2, <3>3
    <3>4. CASE Unreserved(i)
      <4>1. at[1] # 1
        BY <1>4, <1>8, <1>10, <3>4 DEF Unreserved
      <4> QED BY <2>5, <3>4, <4>1 DEF Unreserved
    <3> QED BY <3>2, <3>3, <3>4
  <2>9. ASSUME <<2, 1>> \in SB!Items \ included', Past(<<2, 1>>)' PROVE Refused'
    <3>1. <<2, 1>> # at /\ <<2, 1>> \notin included /\ Past(<<2, 1>>)
      BY <1>6, <2>2, <2>9
    <3>2. Refused
      BY <2>9, <3>1 DEF SBReserved
    <3>3. at[1] # 1
      BY <1>1, <1>2, <3>1 DEF Past, Before
    <3> QED BY <1>1, <2>5, <3>2, <3>3 DEF Refused, SB!Tokens, SB!ApproxTokens
  <2>10. SBReserved'
    BY <1>5, <2>6, <2>7, <2>8, <2>9 DEF SBReserved
  <2>11. SBPassed'
    BY <1>3, <1>5, <1>9 DEF SBPassed, Packed
  <2> QED BY <2>2, <2>3, <2>10, <2>11
<1>11. CASE ~(at \in SB!Items /\ SB!Reserved(at[1]) < SB!MinItems[at[1]] /\ SB!Cost(at) <= remaining)
  <2>1. UNCHANGED <<included, remaining>>
    BY <1>1, <1>2, <1>11
  <2>2. SBShape'
    BY <1>1, <1>3, <1>5, <2>1 DEF SBShape
  <2>3. SBSpent'
    BY <1>1, <2>1 DEF SBSpent, SB!Tokens, SB!Chars, SB!ApproxTokens
  <2>4. SB!Rules' = SB!Rules /\ SB!FirstRules' = SB!FirstRules
    BY <2>1 DEF SB!Rules, SB!FirstRules
  <2>5. \A i : SB!Cost(i)' = SB!Cost(i)
    BY <1>1, <2>1 DEF SB!Cost, SB!ApproxTokens
  <2>6. at \in SB!Items => SB!Cost(at) > remaining \/ ~(SB!Reserved(at[1]) < SB!MinItems[at[1]])
    <3>1. at \in SB!Items => SB!Cost(at) \in Nat /\ remaining \in Nat
      BY Weights DEF SBShape
    <3> QED BY <1>11, <3>1
  <2>7. ASSUME NEW i \in SB!Items \ included, i[1] = 1, Past(i)' PROVE SB!Cost(i) > remaining \/ Unreserved(i)
    <3>1. CASE i # at
      BY <1>6, <2>7, <3>1 DEF SBReserved
    <3>2. CASE i = at
      <4>1. CASE Cardinality(SB!Rules) < MinRules
        BY <1>8, <2>6, <2>7, <3>2, <4>1
      <4>2. CASE ~(Cardinality(SB!Rules) < MinRules)
        <5>1. Cardinality(SB!FirstRules) = MinRules
          BY <1>4, <4>2
        <5>2. \A o \in SB!FirstRules : o[2] < at[2]
          BY <1>4, <2>7, <3>2 DEF SB!Rules, Before
        <5> QED BY <3>2, <5>1, <5>2 DEF Unreserved
      <4> QED BY <4>1, <4>2
    <3> QED BY <3>1, <3>2
  <2>8. ASSUME <<2, 1>> \in SB!Items \ included, Past(<<2, 1>>)' PROVE Refused
    <3>1. CASE <<2, 1>> # at
      BY <1>6, <2>8, <3>1 DEF SBReserved
    <3>2. CASE <<2, 1>> = at
      <4>1. \A i \in included : i[1] = 1
        <5>1. \A i \in included : i[1] \in 1 .. 4 /\ i[2] \in Nat \ {0}
          BY <1>4, Weights
        <5>2. at[1] = 2 /\ at[2] = 1
          BY <3>2
        <5> QED BY <1>4, <5>1, <5>2 DEF Before
      <4>2. SB!Reserved(2) = 0
        <5>1. {i \in included : i[1] = 2} = {}
          BY <4>1
        <5> QED BY <5>1, SBCounts, FS_EmptySet DEF SB!Reserved
      <4>3. at[1] = 2 /\ at[2] = 1 /\ SB!MinItems[2] = 1
        BY <3>2 DEF SB!MinItems
      <4>4. SB!Cost(at) > remaining
        BY <2>6, <2>8, <3>2, <4>2, <4>3
      <4>5. SB!FirstRules = included
        BY <1>4, <4>1 DEF SB!Rules
      <4>6. /\ SB!ApproxTokens(tiers[2][1]) \in Nat
            /\ SB!Cost(at) = SB!ApproxTokens(tiers[2][1]) + (IF included = {} THEN 0 ELSE 1)
        BY <2>8, <3>2, <4>3, Weights
      <4>7. Cardinality(SB!Tokens(included)) \in Nat /\ Cardinality(included) \in Nat
            /\ remaining \in Nat /\ Budget \in Nat
        BY FS_CardinalityType, SBNumbers DEF SBShape, SBSpent
      <4>8. CASE included = {}
        BY <4>4, <4>5, <4>6, <4>7, <4>8 DEF SBSpent, Refused
      <4>9. CASE included # {}
        BY <4>4, <4>5, <4>6, <4>7, <4>9 DEF SBSpent, Refused
      <4> QED BY <4>8, <4>9
    <3> QED BY <3>1, <3>2
  <2>9. \A i \in SB!Items' \ included' : i[1] = 1 /\ Past(i)' => (SB!Cost(i) > remaining \/ Unreserved(i))'
    BY <1>5, <2>1, <2>4, <2>5, <2>7 DEF Unreserved
  <2>10. <<2, 1>> \in SB!Items' \ included' /\ Past(<<2, 1>>)' => Refused'
    BY <1>1, <1>5, <2>1, <2>4, <2>8 DEF Refused, SB!Tokens, SB!ApproxTokens
  <2>11. sbPc' = "reserve" => (\A i \in included' : Before(i, at')) /\ Cardinality(SB!Rules') <= MinRules
    BY <1>3, <1>4, <2>1, <2>4
  <2>12. SBReserved'
    BY <2>9, <2>10, <2>11 DEF SBReserved
  <2>13. SBPassed'
    BY <1>3, <1>5, <1>9 DEF SBPassed, Packed
  <2> QED BY <2>2, <2>3, <2>12, <2>13
<1> QED BY <1>10, <1>11

LEMMA SBFills == ASSUME SBShape, SBSpent, SBPassed, SBReserved, SB!Fill PROVE SBShape' /\ SBSpent' /\ SBPassed' /\ SBReserved'
<1>1. /\ sbPc = "fill" /\ SB!Forward("mark") /\ UNCHANGED <<file, tiers>>
      /\ IF at[2] <= Len(tiers[at[1]]) /\ at \notin included /\ SB!Cost(at) <= remaining
         THEN SB!Take ELSE UNCHANGED <<included, remaining>>
  BY DEF SB!Fill
<1>2. at[2] <= Len(tiers[at[1]]) <=> at \in SB!Items
  BY <1>1, Weighed
<1>3. /\ at' \in (1 .. 4) \X (Nat \ {0}) /\ sbPc' \in {"fill", "mark"}
      /\ \A i \in SB!Items : i # at /\ (sbPc' = "fill" => Before(i, at')) => Before(i, at)
  BY <1>1, SBForwards
<1>4. SB!Items' = SB!Items
  BY <1>1 DEF SB!Items
<1>5. \A i : Past(i) /\ Past(i)'
  BY <1>1, <1>3 DEF Past
<1>6. \A i \in SB!Items \ included :
        /\ Before(i, at) => SB!Cost(i) > remaining
        /\ i[1] = 1 => SB!Cost(i) > remaining \/ Unreserved(i)
        /\ i = <<2, 1>> => Refused
  BY <1>1, <1>5 DEF SBPassed, SBReserved
<1>7. CASE at \in SB!Items /\ at \notin included /\ SB!Cost(at) <= remaining
  <2>1. SB!Take
    BY <1>1, <1>2, <1>7
  <2>2. /\ included' \subseteq SB!Items /\ IsFiniteSet(included') /\ remaining' \in Nat
        /\ included' = included \cup {at} /\ SBSpent'
        /\ \A i \in SB!Items : SB!Cost(i) > remaining => SB!Cost(i)' > remaining'
    BY <1>1, <1>7, <2>1, SBTakes
  <2>3. SBShape'
    BY <1>1, <1>3, <1>4, <2>2 DEF SBShape
  <2>4. SB!FirstRules' = SB!FirstRules
    <3>1. CASE at[1] # 1
      <4>1. SB!Rules' = SB!Rules
        BY <2>2, <3>1 DEF SB!Rules
      <4> QED BY <4>1 DEF SB!FirstRules
    <3>2. CASE at[1] = 1
      <4>1. Unreserved(at)
        <5>1. SB!Cost(at) \in Nat /\ remaining \in Nat
          BY <1>7, Weights DEF SBShape
        <5> QED BY <1>6, <1>7, <3>2, <5>1
      <4>2. SB!Rules' = SB!Rules \cup {at} /\ at \notin SB!Rules /\ at[2] \in Nat
        BY <1>7, <2>2, <3>2, Weights DEF SB!Rules
      <4>3. /\ SB!FirstRules = {i \in SB!Rules : Cardinality({o \in SB!Rules : o[2] < i[2]}) < MinRules}
            /\ IsFiniteSet(SB!Rules) /\ \A i \in SB!Rules : i[2] \in Nat
        BY FirstOnes
      <4>4. SB!FirstRules'
              = {i \in SB!Rules \cup {at} : Cardinality({o \in SB!Rules \cup {at} : o[2] < i[2]}) < MinRules}
        BY <4>2, SBCounts DEF SB!FirstRules
      <4>5. \A i \in SB!Rules \cup {at} : i[2] \in Nat
        BY <4>2, <4>3
      <4>6. Cardinality(SB!FirstRules) = MinRules /\ (\A o \in SB!FirstRules : o[2] < at[2]) /\ MinRules \in Nat
        BY <4>1, SBNumbers DEF Unreserved
      <4>7. {i \in SB!Rules \cup {at} : Cardinality({o \in SB!Rules \cup {at} : o[2] < i[2]}) < MinRules}
              = SB!FirstRules
        BY <4>2, <4>3, <4>5, <4>6, FirstKept
      <4> QED BY <4>4, <4>7
    <3> QED BY <3>1, <3>2
  <2>5. ASSUME NEW i \in SB!Items \ included', i[1] = 1 PROVE (SB!Cost(i) > remaining \/ Unreserved(i))'
    <3>1. SB!Cost(i) > remaining \/ Unreserved(i)
      BY <1>6, <2>2, <2>5
    <3>2. CASE SB!Cost(i) > remaining
      BY <2>2, <3>2
    <3>3. CASE Unreserved(i)
      BY <2>4, <3>3 DEF Unreserved
    <3> QED BY <3>1, <3>2, <3>3
  <2>6. <<2, 1>> \in SB!Items \ included' => Refused'
    BY <1>1, <1>6, <2>2, <2>4 DEF Refused, SB!Tokens, SB!ApproxTokens
  <2>7. ASSUME NEW i \in SB!Items \ included', sbPc' = "fill" => Before(i, at')
        PROVE  SB!Cost(i)' > remaining'
    <3>1. Before(i, at) /\ i \notin included
      BY <1>3, <2>2, <2>7
    <3> QED BY <1>6, <2>2, <3>1
  <2>8. SBReserved'
    BY <1>3, <1>4, <2>5, <2>6 DEF SBReserved
  <2>9. SBPassed'
    BY <1>3, <1>4, <2>7 DEF SBPassed, Packed
  <2> QED BY <2>2, <2>3, <2>8, <2>9
<1>8. CASE ~(at \in SB!Items /\ at \notin included /\ SB!Cost(at) <= remaining)
  <2>1. UNCHANGED <<included, remaining>>
    BY <1>1, <1>2, <1>8
  <2>2. SBShape'
    BY <1>1, <1>3, <1>4, <2>1 DEF SBShape
  <2>3. SBSpent'
    BY <1>1, <2>1 DEF SBSpent, SB!Tokens, SB!Chars, SB!ApproxTokens
  <2>4. SB!FirstRules' = SB!FirstRules
    BY <2>1 DEF SB!Rules, SB!FirstRules
  <2>5. \A i : SB!Cost(i)' = SB!Cost(i)
    BY <1>1, <2>1 DEF SB!Cost, SB!ApproxTokens
  <2>6. at \in SB!Items \ included => SB!Cost(at) > remaining
    <3>1. at \in SB!Items => SB!Cost(at) \in Nat /\ remaining \in Nat
      BY Weights DEF SBShape
    <3> QED BY <1>8, <3>1
  <2>7. \A i \in SB!Items \ included : (sbPc' = "fill" => Before(i, at')) => SB!Cost(i) > remaining
    BY <1>3, <1>6, <2>6
  <2>8. SBReserved'
    <3>1. \A i \in SB!Items \ included : i[1] = 1 => (SB!Cost(i) > remaining \/ Unreserved(i))'
      BY <1>6, <2>1, <2>4, <2>5 DEF Unreserved
    <3>2. <<2, 1>> \in SB!Items \ included => Refused'
      BY <1>1, <1>6, <2>4 DEF Refused, SB!Tokens, SB!ApproxTokens
    <3> QED BY <1>3, <1>4, <2>1, <3>1, <3>2 DEF SBReserved
  <2>9. SBPassed'
    BY <1>3, <1>4, <2>1, <2>5, <2>7 DEF SBPassed, Packed
  <2> QED BY <2>2, <2>3, <2>8, <2>9
<1> QED BY <1>7, <1>8

(* A query adds a tier, and the identity is the second.                        *)
LEMMA SBQueries ==
  ASSUME SBShape, SBSpent, SBPassed, SBReserved, SBMarked, SB!Query \/ SB!ReadIdentity
  PROVE  SBShape' /\ SBSpent' /\ SBPassed' /\ SBReserved' /\ SBMarked'
<1>1. /\ sbPc = "query" /\ included = {} /\ at = <<1, 1>> /\ Len(tiers) < 4 /\ tiers \in Seq(Seq(Nat))
      /\ Len(tiers) \in Nat /\ file \in Nat
  BY DEF SBShape, SB!Query, SB!ReadIdentity
<1>2. UNCHANGED <<file, at, included, remaining, sbEdits, marked>>
  BY DEF SB!Query, SB!ReadIdentity
<1>3. \E x \in Seq(Nat) : tiers' = Append(tiers, x) /\ (Len(tiers) = 1 => Len(x) <= 1)
  <2>1. CASE SB!Query
    <3>1. Len(tiers) # 1
      <4>1. Len(tiers) + 1 # 2
        BY <2>1 DEF SB!Query
      <4>2. ASSUME Len(tiers) = 1 PROVE FALSE
        <5>1. Len(tiers) + 1 = 1 + 1
          BY <4>2
        <5> QED BY <4>1, <5>1
      <4> QED BY <4>2
    <3>2. CASE tiers' = Append(tiers, <<>>)
      <4>1. <<>> \in Seq(Nat)
        OBVIOUS
      <4> QED BY <3>1, <3>2, <4>1
    <3>3. CASE \E n \in 0 .. MaxItems : \E x \in [1 .. n -> Lengths] : tiers' = Append(tiers, x)
      <4>1. PICK n \in 0 .. MaxItems : \E x \in [1 .. n -> Lengths] : tiers' = Append(tiers, x)
        BY <3>3
      <4>2. PICK x \in [1 .. n -> Lengths] : tiers' = Append(tiers, x)
        BY <4>1
      <4>3. n \in Nat /\ x \in [1 .. n -> Nat]
        <5>1. MaxItems \in Nat /\ Lengths \subseteq Nat
          BY SBNumbers
        <5>2. n \in Nat
          BY <5>1
        <5>3. x \in [1 .. n -> Nat]
          BY <4>2, <5>1
        <5> QED BY <5>2, <5>3
      <4>4. x \in Seq(Nat)
        BY <4>3
      <4> QED BY <3>1, <4>2, <4>4
    <3> QED BY <2>1, <3>2, <3>3 DEF SB!Query
  <2>2. CASE SB!ReadIdentity
    <3>1. <<>> \in Seq(Nat) /\ Len(<<>>) <= 1 /\ <<file>> \in Seq(Nat) /\ Len(<<file>>) <= 1
      BY <1>1
    <3> QED BY <2>2, <3>1 DEF SB!ReadIdentity
  <2> QED BY <2>1, <2>2
<1>4. PICK x \in Seq(Nat) : tiers' = Append(tiers, x) /\ (Len(tiers) = 1 => Len(x) <= 1)
  BY <1>3
<1>5. /\ tiers' \in Seq(Seq(Nat)) /\ Len(tiers') = Len(tiers) + 1
      /\ Len(tiers') >= 2 => Len(tiers'[2]) <= 1
  <2>1. tiers' \in Seq(Seq(Nat)) /\ Len(tiers') = Len(tiers) + 1
    BY <1>1, <1>4
  <2>2. CASE Len(tiers) = 1
    <3>1. tiers'[Len(tiers) + 1] = x
      BY <1>1, <1>4
    <3> QED BY <1>4, <2>1, <2>2, <3>1
  <2>3. CASE Len(tiers) >= 2
    <3>1. tiers'[2] = tiers[2]
      BY <1>1, <1>4, <2>3
    <3> QED BY <2>1, <2>3, <3>1 DEF SBShape
  <2>4. CASE Len(tiers) = 0
    BY <2>1, <2>4
  <2>5. Len(tiers) = 0 \/ Len(tiers) = 1 \/ Len(tiers) >= 2
    <3>1. \A k \in Nat : k = 0 \/ k = 1 \/ k >= 2
      OBVIOUS
    <3> QED BY <1>1, <3>1
  <2> QED BY <2>1, <2>2, <2>3, <2>4, <2>5
<1>6. sbPc' = (IF Len(tiers') = 4 THEN "reserve" ELSE "query")
  <2>1. CASE SB!Query
    BY <1>5, <2>1 DEF SB!Query
  <2>2. CASE SB!ReadIdentity
    BY <1>1, <1>5, <2>2 DEF SB!ReadIdentity
  <2> QED BY <2>1, <2>2
<1>7. SBShape'
  <2>1. included' \subseteq SB!Items' /\ IsFiniteSet(included') /\ remaining' \in Nat
        /\ at' \in (1 .. 4) \X (Nat \ {0}) /\ file' \in Nat
    BY <1>1, <1>2 DEF SBShape
  <2> QED BY <1>1, <1>2, <1>5, <1>6, <2>1 DEF SBShape
<1>8. SBSpent'
  <2>1. SB!Tokens(included)' = {} /\ SB!Tokens(included) = {} /\ SB!Chars(included)' = {} /\ SB!Chars(included) = {}
    BY <1>1, <1>2 DEF SB!Tokens, SB!Chars
  <2> QED BY <1>1, <1>2, <2>1 DEF SBSpent
<1>9. SBPassed'
  BY <1>6 DEF SBPassed, Packed
<1>10. SBReserved'
  <2>1. SB!Rules' = {}
    BY <1>1, <1>2 DEF SB!Rules
  <2>2. Cardinality({}) = 0 /\ MinRules \in Nat
    BY FS_EmptySet, SBNumbers
  <2>3. \A i \in SB!Items' : ~Past(i)'
    <3>1. \A i \in SB!Items' : i[1] \in Nat \ {0} /\ i[2] \in Nat \ {0}
      <4>1. TAKE i \in SB!Items'
      <4>2. PICK t \in DOMAIN tiers' : \E j \in DOMAIN tiers'[t] : i = <<t, j>>
        BY DEF SB!Items
      <4>3. PICK j \in DOMAIN tiers'[t] : i = <<t, j>>
        BY <4>2
      <4>4. t \in Nat \ {0} /\ tiers'[t] \in Seq(Nat)
        <5> DEFINE N == Seq(Nat)
        <5>1. tiers' \in Seq(N) /\ t \in DOMAIN tiers'
          BY <1>5
        <5> HIDE DEF N
        <5>2. tiers'[t] \in N /\ t \in Nat \ {0}
          BY <5>1
        <5> QED BY <5>2 DEF N
      <4>5. j \in Nat \ {0}
        BY <4>4
      <4> QED BY <4>3, <4>4, <4>5
    <3> QED BY <1>1, <1>2, <1>6, <3>1 DEF Past, Before
  <2> QED BY <1>1, <1>2, <2>1, <2>2, <2>3 DEF SBReserved
<1>11. SBMarked'
  <2>1. identity' \in {identity, sbEdits}
    BY DEF SB!Query, SB!ReadIdentity
  <2> QED BY <1>1, <1>2, <2>1 DEF SBMarked
<1> QED BY <1>7, <1>8, <1>9, <1>10, <1>11

(* Steps that read no tier and take no item keep what was taken.                *)
LEMMA SBKeeps ==
  ASSUME SBShape, SBSpent, SBPassed, SBReserved, UNCHANGED <<tiers, at, included, remaining>>, file' \in Nat,
         \/ UNCHANGED sbPc
         \/ sbPc \in {"mark", "print"} /\ sbPc' \in {"print", "printed"}
  PROVE  SBShape' /\ SBSpent' /\ SBPassed' /\ SBReserved'
<1>1. SB!Items' = SB!Items /\ \A i : SB!Cost(i)' = SB!Cost(i)
  BY DEF SB!Items, SB!Cost, SB!ApproxTokens
<1>2. SB!Rules' = SB!Rules /\ SB!FirstRules' = SB!FirstRules
  BY DEF SB!Rules, SB!FirstRules
<1>3. \A S : SB!Tokens(S)' = SB!Tokens(S) /\ SB!Chars(S)' = SB!Chars(S)
  BY DEF SB!Tokens, SB!Chars, SB!ApproxTokens
<1>4. \A i : Past(i)' <=> Past(i)
  BY DEF Past, Before
<1>5. SBShape'
  BY <1>1 DEF SBShape
<1>6. SBSpent'
  BY <1>3 DEF SBSpent
<1>7. SBPassed'
  BY <1>1 DEF SBPassed, Packed, Before
<1>8. (\A i : Unreserved(i)' <=> Unreserved(i)) /\ (Refused' <=> Refused)
  BY <1>2, <1>3 DEF Unreserved, Refused, SB!ApproxTokens, SB!Tokens
<1>9. SBReserved'
  <2>1. \A i \in SB!Items \ included : i[1] = 1 /\ Past(i)' => (SB!Cost(i) > remaining \/ Unreserved(i))'
    BY <1>1, <1>4, <1>8 DEF SBReserved
  <2>2. <<2, 1>> \in SB!Items \ included /\ Past(<<2, 1>>)' => Refused'
    BY <1>4, <1>8 DEF SBReserved
  <2>3. sbPc' = "reserve" => (\A i \in included : Before(i, at)) /\ Cardinality(SB!Rules) <= MinRules
    BY DEF SBReserved
  <2> QED BY <1>1, <1>2, <2>1, <2>2, <2>3 DEF SBReserved, Before
<1> QED BY <1>5, <1>6, <1>7, <1>9

(* The marker is left for an identity that is in the block, or not there.       *)
LEMMA SBMarks == ASSUME SBShape, SBMarked, SB!Mark PROVE SBMarked'
<1>1. /\ sbPc = "mark" /\ marked' = (included # {} /\ SB!CarriesIdentity) /\ sbPc' = "print"
      /\ UNCHANGED <<file, included, identity, sbEdits>>
  BY DEF SB!Mark
<1>2. marked' \in BOOLEAN
  BY <1>1
<1>3. marked' => SB!MarkIsEarned'
  <2>1. SUFFICES ASSUME marked' PROVE SB!MarkIsEarned'
    OBVIOUS
  <2>2. CASE file = 0
    BY <1>1, <2>2 DEF SB!MarkIsEarned
  <2>3. CASE \E i \in included : i[1] = 2
    <3>1. PICK i \in included : i[1] = 2
      BY <2>3
    <3>2. PICK t \in DOMAIN tiers : \E j \in DOMAIN tiers[t] : i = <<t, j>>
      BY Positions DEF SBShape
    <3>3. PICK j \in DOMAIN tiers[t] : i = <<t, j>>
      BY <3>2
    <3>4. t = 2 /\ tiers[2] \in Seq(Nat) /\ Len(tiers[2]) <= 1
      <4>1. t = 2
        BY <3>1, <3>3
      <4>2. Len(tiers) >= 2
        BY <4>1, TiersHold
      <4> QED BY <4>1, <4>2, TiersHold DEF SBShape
    <3>5. j = 1
      BY <3>4
    <3> QED BY <1>1, <3>3, <3>4, <3>5 DEF SB!MarkIsEarned
  <2> QED BY <1>1, <2>1, <2>2, <2>3 DEF SB!CarriesIdentity
<1> QED BY <1>1, <1>2, <1>3 DEF SBMarked

LEMMA SBInit == Initial => SBInv
<1> SUFFICES ASSUME SB!Init, focus = "sb" PROVE SBShape /\ SBSpent /\ SBPassed /\ SBReserved /\ SBMarked
  BY DEF Initial, SBInv
<1>1. /\ sbPc = "query" /\ tiers = <<>> /\ at = <<1, 1>> /\ included = {} /\ remaining = Budget
      /\ identity = -1 /\ sbEdits = 0 /\ marked = FALSE /\ file \in {0} \cup Lengths
  BY DEF SB!Init
<1>2. Budget \in Nat /\ MinRules \in Nat /\ CharsPerToken \in Nat /\ file \in Nat
  BY <1>1, SBNumbers
<1>3. SB!Tokens({}) = {} /\ SB!Chars({}) = {} /\ SB!Items = {}
  BY <1>1 DEF SB!Tokens, SB!Chars, SB!Items
<1>4. IsFiniteSet({}) /\ Cardinality({}) = 0
  BY FS_EmptySet
<1>5. SBShape
  <2>1. tiers \in Seq(Seq(Nat)) /\ Len(tiers) = 0
    BY <1>1
  <2> QED BY <1>1, <1>2, <1>4, <2>1 DEF SBShape
<1>6. SBSpent
  <2>1. SB!Tokens(included) = {} /\ SB!Chars(included) = {}
    BY <1>1, <1>3
  <2>2. Cardinality(SB!Tokens(included)) = 0 /\ Cardinality(SB!Chars(included)) = 0
    BY <1>4, <2>1
  <2>3. CharsPerToken * 0 = 0
    BY <1>2
  <2>4. Cardinality(SB!Chars(included)) <= CharsPerToken * Cardinality(SB!Tokens(included))
    BY <2>2, <2>3
  <2> QED BY <1>1, <1>4, <2>1, <2>4 DEF SBSpent
<1>7. SBPassed /\ SBReserved
  BY <1>1, <1>3 DEF SBPassed, Packed, SBReserved
<1>8. SBMarked
  <2>1. marked \in BOOLEAN /\ ~marked
    BY <1>1
  <2> QED BY <1>1, <2>1 DEF SBMarked
<1> QED BY <1>5, <1>6, <1>7, <1>8

LEMMA SBNext ==
  ASSUME SBShape, SBSpent, SBPassed, SBReserved, SBMarked, SB!Next
  PROVE  SBShape' /\ SBSpent' /\ SBPassed' /\ SBReserved' /\ SBMarked'
<1>1. CASE SB!Query \/ SB!ReadIdentity
  BY <1>1, SBQueries
<1>2. CASE SB!Reserve
  <2>1. SBMarked'
    BY <1>2 DEF SB!Reserve, SBMarked
  <2> QED BY <1>2, <2>1, SBReserves
<1>3. CASE SB!Fill
  <2>1. SBMarked'
    BY <1>3 DEF SB!Fill, SBMarked
  <2> QED BY <1>3, <2>1, SBFills
<1>4. CASE SB!Mark
  <2>1. /\ UNCHANGED <<tiers, at, included, remaining>> /\ file' \in Nat
        /\ sbPc \in {"mark", "print"} /\ sbPc' \in {"print", "printed"}
    BY <1>4 DEF SB!Mark, SBShape
  <2> QED BY <1>4, <2>1, SBKeeps, SBMarks
<1>5. CASE SB!EmitSessionStart
  <2>1. /\ UNCHANGED <<tiers, at, included, remaining, file, identity, sbEdits, marked>> /\ file' \in Nat
        /\ sbPc = "print" /\ sbPc' = "printed"
    BY <1>5 DEF SB!EmitSessionStart, SBShape
  <2>2. SBMarked'
    BY <2>1 DEF SBMarked, SB!MarkIsEarned
  <2> QED BY <2>1, <2>2, SBKeeps
<1>6. CASE SB!EditIdentity
  <2>1. /\ UNCHANGED <<tiers, at, included, remaining, sbPc, identity, marked>>
        /\ sbEdits' = sbEdits + 1 /\ file' \in {0} \cup Lengths
    BY <1>6 DEF SB!EditIdentity
  <2>2. file' \in Nat
    BY <2>1, SBNumbers
  <2>3. SBMarked'
    BY <2>1 DEF SBMarked, SB!MarkIsEarned
  <2> QED BY <2>1, <2>2, <2>3, SBKeeps
<1> QED BY <1>1, <1>2, <1>3, <1>4, <1>5, <1>6 DEF SB!Next

LEMMA SBStep == SBInv /\ [Move]_all => SBInv'
<1> SUFFICES ASSUME SBInv, [Move]_all, focus' = "sb" PROVE SBShape' /\ SBSpent' /\ SBPassed' /\ SBReserved' /\ SBMarked'
  BY DEF SBInv
<1>1. focus = "sb" /\ (SB!Next \/ UNCHANGED sbState)
  BY DEF Move, all, sbState
<1>2. SBShape /\ SBSpent /\ SBPassed /\ SBReserved /\ SBMarked
  BY <1>1 DEF SBInv
<1>3. CASE SB!Next
  BY <1>2, <1>3, SBNext
<1>4. CASE UNCHANGED sbState
  <2>1. UNCHANGED <<tiers, at, included, remaining, sbPc, identity, marked, sbEdits, file>> /\ file' \in Nat
    BY <1>2, <1>4 DEF sbState, SBShape
  <2>2. SBMarked'
    BY <1>2, <2>1 DEF SBMarked, SB!MarkIsEarned
  <2> QED BY <1>2, <2>1, <2>2, SBKeeps
<1> QED BY <1>1, <1>3, <1>4

LEMMA SBFull == SBInv /\ focus = "sb" => SB!BlockIsFull /\ SB!MarkIsEarned
<1> SUFFICES ASSUME SBShape, SBSpent, SBPassed, SBReserved, SBMarked
             PROVE  SB!BlockIsFull /\ SB!MarkIsEarned
  BY DEF SBInv
<1>1. ASSUME Packed, included # {} PROVE SB!ApproxTokens(SB!Printed) <= Budget
  <2> DEFINE x == Cardinality(SB!Tokens(included))
             y == Cardinality(SB!Chars(included))
             z == Cardinality(included)
             c == CharsPerToken
  <2>1. x \in Nat /\ y \in Nat /\ z \in Nat \ {0} /\ remaining \in Nat /\ Budget \in Nat /\ c \in Nat \ {0}
    BY <1>1, FS_CardinalityType, FS_EmptySet, SBNumbers DEF SBSpent, SBShape
  <2>2. remaining + x + z = Budget + 1 /\ y <= c * x
    BY <1>1 DEF SBSpent
  <2>3. SB!Printed = y + z - 1
    BY SBCounts DEF SB!Printed
  <2> HIDE DEF x, y, z, c
  <2>4. y + z - 1 \in Nat /\ z - 1 \in Nat /\ x + (z - 1) \in Nat
    BY <2>1
  <2>5. z - 1 <= c * (z - 1)
    BY <2>1, <2>4
  <2>6. c * (x + (z - 1)) = c * x + c * (z - 1) /\ c * x \in Nat /\ c * (z - 1) \in Nat
    BY <2>1, <2>4
  <2>7. y + z - 1 <= c * (x + (z - 1))
    BY <2>1, <2>2, <2>4, <2>5, <2>6
  <2>8. SB!ApproxTokens(y + z - 1) <= x + (z - 1) /\ SB!ApproxTokens(y + z - 1) \in Nat
    BY <2>4, <2>7, RoundsUp DEF c
  <2> QED BY <2>1, <2>2, <2>3, <2>8
<1>2. ASSUME Packed, tiers[2] # <<>>, <<2, 1>> \notin included
      PROVE  SB!Cardinality(SB!Tokens(SB!FirstRules)) + SB!Cardinality(SB!FirstRules)
               + SB!ApproxTokens(tiers[2][1]) > Budget
  <2>1. sbPc \notin {"query", "reserve"} /\ Len(tiers) = 4 /\ tiers \in Seq(Seq(Nat))
    BY <1>2 DEF Packed, SBShape
  <2>2. 2 \in DOMAIN tiers
    BY <2>1
  <2>3. tiers[2] \in Seq(Nat)
    BY <2>2, TiersHold
  <2>4. 1 \in DOMAIN tiers[2]
    BY <1>2, <2>3
  <2>5. <<2, 1>> \in SB!Items
    BY <2>2, <2>4, Positions
  <2>6. Refused
    BY <1>2, <2>1, <2>5 DEF SBReserved, Past
  <2> QED BY <2>6, SBCounts DEF Refused
<1>3. SB!BlockIsFull
  BY <1>1, <1>2 DEF SB!BlockIsFull, SBPassed, Packed
<1>4. SB!MarkIsEarned
  BY DEF SBMarked, SB!MarkIsEarned
<1> QED BY <1>3, <1>4

-----------------------------------------------------------------------------
(* The five together, whichever component runs: only the block of a session is  *)
(* described where it runs, for it starts from nothing elsewhere.              *)
WholeInv == SHInv /\ SUInv /\ PSInv /\ MDInv /\ SBInv

LEMMA WholeInit == Initial => WholeInv
<1> SUFFICES ASSUME Initial PROVE WholeInv
  OBVIOUS
<1>1. SH!Init /\ SU!Init /\ PS!Init /\ MD!Init
  BY DEF Initial
<1>2. SHInv /\ SUInv /\ PSInv /\ MDInv
  BY <1>1, SHInit, SUInit, PSInit, MDInit
<1>3. SBInv
  BY SBInit
<1> QED BY <1>2, <1>3 DEF WholeInv

LEMMA WholeStep == WholeInv /\ [Move]_all => WholeInv'
BY SHStep, SUStep, PSStep, MDStep, SBStep DEF WholeInv

LEMMA WholeKept == WholeInv => WholeOrNotAtAll
<1>1. SHInv => SH!OnlyWindowLost
  BY DEF SHInv
<1> QED BY <1>1, SUSurvives, PSLoaded, MDPlaced, SBFull DEF WholeInv, WholeOrNotAtAll

(* Whoever writes, fails or is killed, what is replaced is whole.  A database    *)
(* that is shrunk loses nothing when nobody opens it between the close and the    *)
(* removal of its log, and else the writes of that window, unless a log is taken *)
(* up for another file.  A binary or its backup is left unless two updates        *)
(* crossed, and one is at its name when the updaters end by themselves; no       *)
(* plugin directory named after a version holds half a tree, and the registry   *)
(* names a complete one unless it is being swapped or a hook was killed; a       *)
(* model in place is the one the server has, unless one process wrote over the   *)
(* file of another; and the block of a session is within its budget, leaves out  *)
(* nothing it had room for, nor the identity but for the rules reserved before   *)
(* it, and is marked as shown only if it carries the identity or the file was    *)
(* edited meanwhile.                                                        *)
THEOREM CallersWhole == CallersSpec => []WholeOrNotAtAll
BY WholeInit, WholeStep, WholeKept, PTL DEF CallersSpec

-----------------------------------------------------------------------------
(* SearchRanking.  The scan has kept the best of what it has seen: it left an    *)
(* entry out only when the page was full, and what it kept comes before it.     *)
Scope == {m \in srMems : cosine[m] > 0 /\ SR!InScope(m)}
Seen  == Scope \ todo

BestSeen ==
  /\ kept \subseteq Seen /\ Cardinality(kept) <= SR!Bound
  /\ kept # Seen => Cardinality(kept) = SR!Bound
  /\ \A k \in kept, m \in Seen \ kept : SR!ScoredBefore(k, m)

SRInv ==
  focus = "sr" =>
    /\ cosine \in [srMems -> 0 .. 2] /\ limit \in Limits
    /\ todo \subseteq {m \in srMems : cosine[m] > 0}
    /\ srPc # "scan" => todo = {}
    /\ BestSeen

(* The scan has room for one entry at least.                                   *)
LEMMA BoundIsPage == ASSUME limit \in Limits PROVE SR!Bound \in Nat \ {0}
<1>1. limit \in Nat \ {0} /\ Overscan \in Nat \ {0}
  BY CallersAssumption
<1> HIDE DEF SR!Bound
<1>2. \A a, b \in Nat \ {0} : a * b \in Nat \ {0}
  OBVIOUS
<1> QED BY <1>1, <1>2 DEF SR!Bound

(* Scores are compared first, then ids, so any two entries are in order.         *)
LEMMA InOrder ==
  ASSUME cosine \in [srMems -> 0 .. 2]
  PROVE  \A a, b, c \in srMems :
           /\ ~SR!ScoredBefore(a, a)
           /\ a # b => SR!ScoredBefore(a, b) \/ SR!ScoredBefore(b, a)
           /\ SR!ScoredBefore(a, b) /\ SR!ScoredBefore(b, c) => SR!ScoredBefore(a, c)
<1> SUFFICES ASSUME NEW a \in srMems, NEW b \in srMems, NEW c \in srMems
             PROVE  /\ ~SR!ScoredBefore(a, a)
                    /\ a # b => SR!ScoredBefore(a, b) \/ SR!ScoredBefore(b, a)
                    /\ SR!ScoredBefore(a, b) /\ SR!ScoredBefore(b, c) => SR!ScoredBefore(a, c)
  OBVIOUS
<1>1. a \in Nat /\ b \in Nat /\ c \in Nat
  BY CallersAssumption
<1>2. cosine[a] \in Int /\ cosine[b] \in Int /\ cosine[c] \in Int
  OBVIOUS
<1> QED BY <1>1, <1>2 DEF SR!ScoredBefore

(* A set of memories is finite.                                               *)
LEMMA FewMems == ASSUME NEW S \in SUBSET srMems PROVE IsFiniteSet(S) /\ Cardinality(S) \in Nat
<1>1. IsFiniteSet(srMems)
  BY CallersAssumption
<1>2. IsFiniteSet(S)
  BY <1>1, FS_Subset
<1> QED BY <1>2, FS_CardinalityType

(* One of the entries kept has none after it,                                  *)
LEMMA WeakestIsLast ==
  ASSUME cosine \in [srMems -> 0 .. 2], kept \subseteq srMems, kept # {}
  PROVE  SR!Weakest \in kept /\ \A o \in kept \ {SR!Weakest} : SR!ScoredBefore(o, SR!Weakest)
<1> DEFINE After(k) == {o \in kept : SR!ScoredBefore(k, o)}
           T == {After(k) : k \in kept}
<1>1. IsWellFoundedOn(StrictSubsetOrdering(kept), FiniteSubsetsOf(kept))
  BY FS_StrictSubsetOrderingWellFounded
<1>2. T \subseteq FiniteSubsetsOf(kept) /\ T # {}
  <2>1. \A k \in kept : After(k) \in SUBSET kept /\ IsFiniteSet(After(k))
    BY FewMems
  <2> QED BY <2>1 DEF FiniteSubsetsOf
<1>3. PICK U \in T : \A W \in T : <<W, U>> \notin StrictSubsetOrdering(kept)
  <2> HIDE DEF T
  <2> QED BY <1>1, <1>2, WFMin
<1>4. PICK k \in kept : U = After(k)
  BY <1>3
<1>5. ASSUME NEW o \in kept, SR!ScoredBefore(k, o) PROVE FALSE
  <2>1. After(o) \subseteq After(k)
    BY <1>5, InOrder
  <2>2. o \in After(k) /\ o \notin After(o)
    BY <1>5, InOrder
  <2>3. <<After(o), After(k)>> \in StrictSubsetOrdering(kept)
    BY <2>1, <2>2 DEF StrictSubsetOrdering
  <2> QED BY <1>3, <1>4, <2>3
<1>6. \E m \in kept : \A o \in kept : o = m \/ ~SR!ScoredBefore(m, o)
  BY <1>5
<1>7. SR!Weakest \in kept /\ \A o \in kept : o = SR!Weakest \/ ~SR!ScoredBefore(SR!Weakest, o)
  BY <1>6 DEF SR!Weakest
<1> HIDE DEF SR!Weakest
<1> QED BY <1>7, InOrder

(* which is the one to leave when a better entry comes,                        *)
LEMMA ScanKeeps ==
  ASSUME SRInv, focus = "sr", NEW m \in srMems, SR!ScoreEntry(m), UNCHANGED focus
  PROVE  SRInv'
<1>1. /\ cosine \in [srMems -> 0 .. 2] /\ limit \in Limits
      /\ todo \subseteq {k \in srMems : cosine[k] > 0} /\ BestSeen
  BY DEF SRInv
<1>2. /\ srPc = "scan" /\ m \in todo /\ todo' = todo \ {m} /\ UNCHANGED <<cosine, limit, srPc>>
      /\ SR!Bound' = SR!Bound /\ Scope' = Scope
  BY DEF SR!ScoreEntry, SR!input, SR!Bound, Scope, SR!InScope
<1>3. SR!Bound \in Nat \ {0} /\ kept \subseteq srMems /\ m \notin kept
  BY <1>1, <1>2, BoundIsPage DEF BestSeen, Seen, Scope
<1>4. \A a, b : SR!ScoredBefore(a, b)' = SR!ScoredBefore(a, b)
  BY <1>2 DEF SR!ScoredBefore
<1>5. IsFiniteSet(kept) /\ Cardinality(kept) \in Nat
  BY <1>3, FewMems
<1>6. BestSeen'
  <2>1. CASE ~SR!InScope(m)
    <3>1. kept' = kept /\ Seen' = Seen
      BY <1>2, <2>1 DEF SR!ScoreEntry, Seen, Scope
    <3> QED BY <1>1, <1>2, <1>4, <3>1 DEF BestSeen
  <2>2. CASE SR!InScope(m)
    <3>1. Seen' = Seen \cup {m} /\ m \notin Seen
      BY <1>1, <1>2, <2>2 DEF Seen, Scope
    <3>2. CASE SR!Room
      <4>1. kept' = kept \cup {m} /\ Cardinality(kept) < SR!Bound
        BY <2>2, <3>2 DEF SR!ScoreEntry, SR!Room, SR!Cardinality, Cardinality
      <4>2. kept = Seen
        BY <1>1, <4>1, <1>3, <1>5 DEF BestSeen
      <4>3. Cardinality(kept') = Cardinality(kept) + 1
        BY <1>3, <1>5, <4>1, FS_AddElement
      <4>4. kept' = Seen' /\ Cardinality(kept') <= SR!Bound
        BY <1>3, <1>5, <3>1, <4>1, <4>2, <4>3
      <4> QED BY <1>2, <4>4 DEF BestSeen
    <3>3. CASE ~SR!Room
      <4>1. Cardinality(kept) = SR!Bound /\ kept \subseteq Seen /\ kept # {}
        <5>1. ~(Cardinality(kept) < SR!Bound)
          BY <3>3 DEF SR!Room, SR!Cardinality, Cardinality
        <5>2. Cardinality(kept) = SR!Bound /\ kept \subseteq Seen
          BY <1>1, <1>3, <1>5, <5>1 DEF BestSeen
        <5> QED BY <1>3, <5>2, FS_EmptySet
      <4>2. PICK w \in kept : w = SR!Weakest /\ \A o \in kept \ {w} : SR!ScoredBefore(o, w)
        BY <1>1, <1>3, <4>1, WeakestIsLast
      <4>3. \A k \in kept, o \in Seen \ kept : SR!ScoredBefore(k, o)
        BY <1>1 DEF BestSeen
      <4>4. Seen \subseteq srMems
        BY DEF Seen, Scope
      <4>5. CASE SR!ScoredBefore(m, w)
        <5>1. kept' = (kept \ {w}) \cup {m}
          BY <2>2, <3>3, <4>2, <4>5 DEF SR!ScoreEntry
        <5>2. Cardinality(kept') = SR!Bound
          <6>1. IsFiniteSet(kept \ {w}) /\ Cardinality(kept \ {w}) = Cardinality(kept) - 1
            BY <1>5, <4>2, FS_RemoveElement
          <6>2. Cardinality((kept \ {w}) \cup {m}) = Cardinality(kept \ {w}) + 1
            BY <1>3, <6>1, FS_AddElement
          <6> QED BY <1>3, <1>5, <4>1, <5>1, <6>1, <6>2
        <5>3. ASSUME NEW k \in kept', NEW o \in Seen' \ kept' PROVE SR!ScoredBefore(k, o)
          <6>1. (k = m \/ k \in kept \ {w}) /\ (o = w \/ o \in Seen \ kept)
            BY <3>1, <5>1, <5>3
          <6>2. SR!ScoredBefore(k, w)
            BY <4>2, <4>5, <6>1
          <6>3. o # w => SR!ScoredBefore(w, o)
            BY <4>2, <4>3, <6>1
          <6>4. k \in srMems /\ w \in srMems /\ o \in srMems
            BY <1>3, <4>1, <4>4, <6>1
          <6> QED BY <1>1, <6>2, <6>3, <6>4, InOrder
        <5>4. kept' \subseteq Seen' /\ Cardinality(kept') <= SR!Bound
          BY <1>3, <3>1, <4>1, <5>1, <5>2
        <5> QED BY <1>2, <1>4, <5>2, <5>3, <5>4 DEF BestSeen
      <4>6. CASE ~SR!ScoredBefore(m, w)
        <5>1. kept' = kept
          BY <2>2, <3>3, <4>2, <4>6 DEF SR!ScoreEntry
        <5>2. SR!ScoredBefore(w, m)
          BY <1>1, <1>3, <4>2, <4>6, InOrder
        <5>3. ASSUME NEW k \in kept', NEW o \in Seen' \ kept' PROVE SR!ScoredBefore(k, o)
          <6>1. k \in kept /\ (o = m \/ o \in Seen \ kept)
            BY <3>1, <5>1, <5>3
          <6>2. k # w => SR!ScoredBefore(k, w)
            BY <4>2, <6>1
          <6>3. k \in srMems /\ w \in srMems
            BY <1>3, <6>1
          <6> QED BY <1>1, <4>3, <5>2, <6>1, <6>2, <6>3, InOrder
        <5>4. kept' \subseteq Seen' /\ Cardinality(kept') = SR!Bound /\ Cardinality(kept') <= SR!Bound
          BY <1>3, <3>1, <4>1, <5>1
        <5> QED BY <1>2, <1>4, <5>3, <5>4 DEF BestSeen
      <4> QED BY <4>5, <4>6
    <3> QED BY <3>2, <3>3
  <2> QED BY <2>1, <2>2
<1> QED BY <1>1, <1>2, <1>6 DEF SRInv

(* so that, at the end of the scan, it has the best of the scope.               *)
LEMMA ScanIsBest == SRInv /\ focus = "sr" => SR!ScanKeepsTheBest
<1> SUFFICES ASSUME SRInv, focus = "sr", srPc # "scan" PROVE SR!ScanKeepsTheBest
  BY DEF SR!ScanKeepsTheBest
<1> DEFINE Better(m) == {o \in Scope : cosine[o] > cosine[m] \/ (cosine[o] = cosine[m] /\ o < m)}
<1>1. /\ cosine \in [srMems -> 0 .. 2] /\ limit \in Limits /\ Seen = Scope
      /\ kept \subseteq Scope /\ Scope \subseteq srMems /\ Cardinality(kept) <= SR!Bound
      /\ kept # Scope => Cardinality(kept) = SR!Bound
      /\ \A k \in kept, m \in Scope \ kept : SR!ScoredBefore(k, m)
  BY DEF SRInv, BestSeen, Seen, Scope
<1>2. \A m : Better(m) = {o \in Scope : SR!ScoredBefore(o, m)}
  BY DEF SR!ScoredBefore
<1> HIDE DEF Better
<1>3. SR!Bound \in Nat /\ IsFiniteSet(kept) /\ Cardinality(kept) \in Nat
  BY <1>1, BoundIsPage, FewMems
<1>4. ASSUME NEW m \in kept PROVE Cardinality(Better(m)) < SR!Bound
  <2>1. Better(m) \subseteq kept \ {m}
    <3>1. ASSUME NEW o \in Better(m) PROVE o \in kept /\ o # m
      <4>1. o \in Scope /\ SR!ScoredBefore(o, m) /\ m \in Scope
        BY <1>1, <1>2, <1>4, <3>1
      <4>2. o # m
        BY <1>1, <4>1, InOrder
      <4>3. ~SR!ScoredBefore(m, o)
        BY <1>1, <4>1, InOrder
      <4> QED BY <1>1, <1>4, <4>1, <4>2, <4>3
    <3> QED BY <3>1
  <2>2. IsFiniteSet(kept \ {m}) /\ Cardinality(kept \ {m}) = Cardinality(kept) - 1
    BY <1>3, <1>4, FS_RemoveElement
  <2>3. Cardinality(Better(m)) <= Cardinality(kept \ {m}) /\ Cardinality(Better(m)) \in Nat
    BY <2>1, <2>2, FS_Subset, FS_CardinalityType
  <2> QED BY <1>1, <1>3, <2>2, <2>3
<1>5. ASSUME NEW m \in Scope \ kept PROVE ~(Cardinality(Better(m)) < SR!Bound)
  <2>1. kept \subseteq Better(m) /\ Better(m) \subseteq srMems
    BY <1>1, <1>2, <1>5
  <2>2. IsFiniteSet(Better(m)) /\ Cardinality(Better(m)) \in Nat
    BY <2>1, FewMems
  <2>3. Cardinality(kept) <= Cardinality(Better(m)) /\ Cardinality(kept) = SR!Bound
    BY <1>1, <1>5, <2>1, <2>2, FS_Subset
  <2> QED BY <1>3, <2>2, <2>3
<1>6. kept = {m \in Scope : Cardinality(Better(m)) < SR!Bound}
  BY <1>1, <1>4, <1>5
<1> QED BY <1>6 DEF SR!ScanKeepsTheBest, Scope, Better, SR!Cardinality, Cardinality

(* The scan begins with nothing seen,                                          *)
LEMMA SRInit == Initial => SRInv
<1> SUFFICES ASSUME Initial, focus = "sr" PROVE SRInv
  BY DEF SRInv
<1>1. SR!Init
  BY DEF Initial
<1>2. kept = {} /\ Seen = {} /\ limit \in Limits /\ cosine \in [srMems -> 0 .. 2] /\ srPc = "scan"
      /\ todo = {m \in srMems : cosine[m] > 0}
  BY <1>1 DEF SR!Init, Seen, Scope
<1>3. SR!Bound \in Nat /\ Cardinality({}) = 0
  BY <1>2, BoundIsPage, FS_EmptySet
<1> QED BY <1>2, <1>3 DEF SRInv, BestSeen

(* and what follows it changes neither the scores nor what it kept.              *)
LEMMA SRStep == SRInv /\ [Move]_all => SRInv'
<1> SUFFICES ASSUME SRInv, [Move]_all, focus' = "sr" PROVE SRInv'
  BY DEF SRInv
<1>1. focus = "sr" /\ [SR!Next]_srState
  BY DEF Move, all
<1>2. ASSUME UNCHANGED <<cosine, limit, todo, kept>>, srPc' # "scan" => srPc # "scan" \/ todo = {}
      PROVE  SRInv'
  <2>1. SR!Bound' = SR!Bound /\ Seen' = Seen
    BY <1>2 DEF SR!Bound, Seen, Scope, SR!InScope
  <2>2. \A a, b : SR!ScoredBefore(a, b)' = SR!ScoredBefore(a, b)
    BY <1>2 DEF SR!ScoredBefore
  <2>3. BestSeen'
    BY <1>1, <1>2, <2>1, <2>2 DEF SRInv, BestSeen
  <2> QED BY <1>1, <1>2, <2>3 DEF SRInv
<1>3. CASE \E m \in srMems : SR!ScoreEntry(m)
  BY <1>1, <1>3, ScanKeeps
<1>4. CASE SR!Fuse
  BY <1>2, <1>4 DEF SR!Fuse, SR!input
<1>5. CASE SR!Diversify
  BY <1>2, <1>5 DEF SR!Diversify, SR!input
<1>6. CASE SR!SelectNext
  BY <1>2, <1>6 DEF SR!SelectNext, SR!input
<1>7. CASE SR!Finish
  BY <1>2, <1>7 DEF SR!Finish, SR!input
<1>8. CASE UNCHANGED srState
  BY <1>2, <1>8 DEF srState
<1> QED BY <1>1, <1>3, <1>4, <1>5, <1>6, <1>7, <1>8 DEF SR!Next

-----------------------------------------------------------------------------
(* FederatedSearch.  While the server's candidates join, every local result is   *)
(* the hit of its rank and no id is in two hits; who is first in both lists is  *)
(* the first hit, with both ranks.                                           *)
BothFirst == got # <<>> /\ fsLocal # <<>> /\ got[1].id = fsLocal[1].id

Merging ==
  /\ merged \in 0 .. Len(got)
  /\ hits \in Seq([l : 0 .. Len(fsLocal), r : 0 .. merged])
  /\ Len(hits) <= Len(fsLocal) + merged
  /\ \A i, j \in DOMAIN hits : i # j => FS!IdsOf(hits[i]) \cap FS!IdsOf(hits[j]) = {}
  /\ \A n \in DOMAIN fsLocal : n \in DOMAIN hits /\ hits[n].l = n
  /\ BothFirst /\ merged # 0 => hits[1].r = 1

(* A search that was not routed, or failed, has nothing of the server, and says  *)
(* that it fell back if the server was asked for.                            *)
Routing ==
  /\ fsPc \in {"route", "ask"} => got = <<>>
  /\ fsPc = "ask" => entry = "server"
  /\ entry = "none" => got = <<>>
  /\ fsPc \in {"local", "merge"} /\ selector # "absent" => said = "fallback"

FSInv ==
  focus = "fs" =>
    /\ fsLocal \in FS!Lists /\ remote \in FS!Lists /\ got \in {<<>>, remote}
    /\ Routing
    /\ fsPc \in {"route", "ask", "local"} => merged = 0
    /\ fsPc = "merge" => Merging
    /\ FS!MergedIsSound

(* What an engine answers is a list, in which no id is twice.                  *)
LEMMA ListsOK ==
  ASSUME NEW s \in FS!Lists
  PROVE  /\ s \in Seq(FS!Candidates) /\ Len(s) \in Nat /\ DOMAIN s = 1 .. Len(s)
         /\ \A i, j \in DOMAIN s : i # j => s[i].id # s[j].id
<1>1. PICK n \in 0 .. MaxHits : s \in [1 .. n -> FS!Candidates]
  BY DEF FS!Lists
<1>2. n \in Nat
  BY <1>1, CallersAssumption
<1>3. s \in Seq(FS!Candidates) /\ Len(s) = n
  BY <1>1, <1>2
<1> QED BY <1>1, <1>2, <1>3 DEF FS!Lists

(* What a sequence has.                                                      *)
LEMMA SeqFacts ==
  ASSUME NEW S, NEW s \in Seq(S)
  PROVE  /\ Len(s) \in Nat /\ DOMAIN s = 1 .. Len(s) /\ \A i \in DOMAIN s : s[i] \in S
         /\ \A T : S \subseteq T => s \in Seq(T)
OBVIOUS

(* The ids of a hit are those of its two candidates.                            *)
LEMMA IdsAre ==
  \A h, x : x \in FS!IdsOf(h) <=> \/ h.l # 0 /\ x = fsLocal[h.l].id
                                  \/ h.r # 0 /\ x = got[h.r].id
BY DEF FS!IdsOf

(* The vote of the first rank is the largest,                                  *)
LEMMA FirstVote == \A k \in Nat \ {1} : FS!Vote(k) \in Nat /\ FS!Vote(k) < FS!Vote(1)
<1>1. FS!Vote(1) = 249984
  BY DEF FS!Vote
<1>2. FS!Vote(0) = 0
  BY DEF FS!Vote
<1>3. ASSUME NEW k \in Nat, k >= 2 PROVE FS!Vote(k) \in Nat /\ FS!Vote(k) < 249984
  <2>1. PICK q : q = 15249024 \div (60 + k)
    OBVIOUS
  <2>2. q \in Nat /\ (60 + k) * q <= 15249024
    BY <1>3, <2>1
  <2>3. 62 * q <= (60 + k) * q
    BY <1>3, <2>2
  <2>4. q < 249984
    BY <2>2, <2>3
  <2>5. FS!Vote(k) = q
    BY <1>3, <2>1 DEF FS!Vote
  <2> QED BY <2>2, <2>4, <2>5
<1> QED BY <1>1, <1>2, <1>3

(* so the hit that is first in both lists comes before any other.               *)
LEMMA BothLead ==
  ASSUME NEW g, NEW h, g.l = 1, g.r = 1, h.l \in Nat \ {1}, h.r \in Nat \ {1}
  PROVE  FS!ScoredBefore(g, h)
<1>1. FS!Vote(h.l) \in Nat /\ FS!Vote(h.l) < FS!Vote(1) /\ FS!Vote(h.r) \in Nat /\ FS!Vote(h.r) < FS!Vote(1)
  BY FirstVote
<1>2. FS!Vote(1) \in Nat
  BY DEF FS!Vote
<1>3. FS!Score(g) > FS!Score(h)
  BY <1>1, <1>2 DEF FS!Score
<1> QED BY <1>3 DEF FS!ScoredBefore

(* A set of positions has a first.                                             *)
LEMMA FirstIsLeast ==
  ASSUME NEW S, S \subseteq Nat, S # {}
  PROVE  FS!First(S) \in S /\ \A j \in S : FS!First(S) <= j
<1> DEFINE R == {ss \in Nat \X Nat : ss[1] < ss[2]}
<1>1. PICK i \in S : \A j \in S : <<j, i>> \notin R
  <2> HIDE DEF R
  <2>1. IsWellFoundedOn(R, Nat)
    BY NatLessThanWellFounded DEF OpToRel, R
  <2> QED BY <2>1, WFMin
<1>2. ASSUME NEW j \in S PROVE i <= j
  <2>1. <<j, i>> \notin R
    BY <1>1
  <2> QED BY <2>1
<1> QED BY <1>2 DEF FS!First

(* The local results are the first hits,                                       *)
LEMMA LocalBegins ==
  ASSUME FSInv, focus = "fs", FS!SearchLocal
  PROVE  Merging'
<1>1. /\ fsLocal \in Seq(FS!Candidates) /\ Len(fsLocal) \in Nat /\ DOMAIN fsLocal = 1 .. Len(fsLocal)
      /\ \A i, j \in DOMAIN fsLocal : i # j => fsLocal[i].id # fsLocal[j].id
  BY ListsOK DEF FSInv
<1>2. merged = 0 /\ Len(got) \in Nat
  <2>1. got = <<>> \/ got \in FS!Lists
    BY DEF FSInv
  <2> QED BY <2>1, ListsOK DEF FSInv, FS!SearchLocal
<1>3. /\ hits' = [i \in 1 .. Len(fsLocal) |-> [l |-> i, r |-> 0]]
      /\ UNCHANGED <<fsLocal, got, merged>>
  BY <1>1 DEF FS!SearchLocal, FS!store, FS!Hit
<1>4. /\ hits' \in Seq([l : 0 .. Len(fsLocal), r : 0 .. 0]) /\ Len(hits') = Len(fsLocal)
      /\ DOMAIN hits' = 1 .. Len(fsLocal)
      /\ \A i \in 1 .. Len(fsLocal) : hits'[i].l = i /\ hits'[i].r = 0
  BY <1>1, <1>3
<1>7. \A h : FS!IdsOf(h)' = FS!IdsOf(h)
  BY <1>3 DEF FS!IdsOf
<1>5. \A i \in 1 .. Len(fsLocal) : FS!IdsOf(hits'[i]) = {fsLocal[i].id}
  <2>1. ASSUME NEW i \in 1 .. Len(fsLocal) PROVE \A x : x \in FS!IdsOf(hits'[i]) <=> x = fsLocal[i].id
    BY <1>4, IdsAre
  <2> QED BY <2>1
<1>6. \A i, j \in 1 .. Len(fsLocal) : i # j => FS!IdsOf(hits'[i]) \cap FS!IdsOf(hits'[j]) = {}
  BY <1>1, <1>5
<1> QED BY <1>1, <1>2, <1>3, <1>4, <1>6, <1>7 DEF Merging

(* and each candidate of the server joins one hit, or makes one.                 *)
LEMMA RemoteJoins ==
  ASSUME FSInv, focus = "fs", FS!AddRemote
  PROVE  Merging'
<1>1. Merging /\ merged < Len(got)
  BY DEF FSInv, FS!AddRemote
<1>2. /\ DOMAIN fsLocal = 1 .. Len(fsLocal) /\ Len(fsLocal) \in Nat
      /\ DOMAIN got = 1 .. Len(got) /\ Len(got) \in Nat
      /\ \A i, j \in DOMAIN got : i # j => got[i].id # got[j].id
  <2>1. got = <<>> \/ got \in FS!Lists
    BY DEF FSInv
  <2> QED BY <2>1, ListsOK DEF FSInv
<1>3. PICK n : n = merged + 1
  OBVIOUS
<1>4. n \in 1 .. Len(got) /\ merged' = n /\ merged \in Nat /\ UNCHANGED <<fsLocal, got>>
  BY <1>1, <1>2, <1>3 DEF Merging, FS!AddRemote, FS!store
<1>5. PICK joins : joins = FS!Match(got[n])
  OBVIOUS
<1>6. hits' = IF joins = {} THEN Append(hits, [l |-> 0, r |-> n])
              ELSE IF hits[FS!First(joins)].r > 0 THEN hits
              ELSE [hits EXCEPT ![FS!First(joins)].r = n]
  BY <1>4, <1>5 DEF FS!AddRemote, FS!Hit
<1>7. /\ DOMAIN hits = 1 .. Len(hits) /\ Len(hits) \in Nat
      /\ \A i \in DOMAIN hits : hits[i] \in [l : 0 .. Len(fsLocal), r : 0 .. merged]
      /\ hits \in Seq([l : 0 .. Len(fsLocal), r : 0 .. n])
      /\ Len(hits) <= Len(fsLocal) + merged
  <2>1. hits \in Seq([l : 0 .. Len(fsLocal), r : 0 .. merged]) /\ Len(hits) <= Len(fsLocal) + merged
    BY <1>1 DEF Merging
  <2>2. [l : 0 .. Len(fsLocal), r : 0 .. merged] \subseteq [l : 0 .. Len(fsLocal), r : 0 .. n]
    BY <1>3, <1>4
  <2>3. PICK S, T : S = [l : 0 .. Len(fsLocal), r : 0 .. merged] /\ T = [l : 0 .. Len(fsLocal), r : 0 .. n]
    OBVIOUS
  <2>4. hits \in Seq(S) /\ S \subseteq T
    BY <2>1, <2>2, <2>3
  <2>5. /\ Len(hits) \in Nat /\ DOMAIN hits = 1 .. Len(hits) /\ \A i \in DOMAIN hits : hits[i] \in S
        /\ hits \in Seq(T)
    BY <2>4, SeqFacts
  <2> QED BY <2>1, <2>3, <2>5
<1>8. \A i, j \in DOMAIN hits : i # j => FS!IdsOf(hits[i]) \cap FS!IdsOf(hits[j]) = {}
  BY <1>1 DEF Merging
<1>9. \A k \in DOMAIN fsLocal : k \in DOMAIN hits /\ hits[k].l = k
  BY <1>1 DEF Merging
<1>10. \A h : FS!IdsOf(h)' = FS!IdsOf(h)
  BY <1>4 DEF FS!IdsOf
<1>11. joins \subseteq DOMAIN hits
  BY <1>5 DEF FS!Match
<1>12. (\E i \in DOMAIN hits : got[n].id \in FS!IdsOf(hits[i])) =>
         joins = {i \in DOMAIN hits : got[n].id \in FS!IdsOf(hits[i])}
  BY <1>5 DEF FS!Match
<1>13. BothFirst' = BothFirst /\ (BothFirst => 1 \in DOMAIN hits /\ hits[1].l = 1)
  <2>1. fsLocal # <<>> => 1 \in DOMAIN fsLocal
    <3>1. fsLocal \in Seq(FS!Candidates)
      BY ListsOK DEF FSInv
    <3> QED BY <1>2, <3>1
  <2> QED BY <1>4, <1>9, <2>1 DEF BothFirst
<1>14. BothFirst /\ n = 1 => 1 \in joins /\ hits[1].r = 0
  <2> SUFFICES ASSUME BothFirst, n = 1 PROVE 1 \in joins /\ hits[1].r = 0
    OBVIOUS
  <2>1. got[1].id \in FS!IdsOf(hits[1])
    BY <1>13, IdsAre DEF BothFirst
  <2>2. hits[1].r = 0
    BY <1>3, <1>4, <1>7, <1>13
  <2> QED BY <1>12, <1>13, <2>1, <2>2
<1>15. BothFirst /\ n # 1 => hits[1].r = 1
  BY <1>1, <1>3, <1>4 DEF Merging
<1>16. CASE joins = {}
  <2>1. hits' = Append(hits, [l |-> 0, r |-> n])
    BY <1>6, <1>16
  <2>2. /\ DOMAIN hits' = 1 .. Len(hits) + 1 /\ Len(hits') = Len(hits) + 1
        /\ \A i \in DOMAIN hits : hits'[i] = hits[i]
        /\ hits'[Len(hits) + 1] = [l |-> 0, r |-> n]
    BY <1>7, <2>1
  <2>3. hits' \in Seq([l : 0 .. Len(fsLocal), r : 0 .. n])
    <3>2. [l |-> 0, r |-> n] \in [l : 0 .. Len(fsLocal), r : 0 .. n]
      BY <1>2, <1>4
    <3> QED BY <1>7, <2>1, <3>2
  <2>4. \A i \in DOMAIN hits : got[n].id \notin FS!IdsOf(hits[i])
    BY <1>12, <1>16
  <2>5. FS!IdsOf(hits'[Len(hits) + 1]) = {got[n].id}
    <3>1. PICK h : h = [l |-> 0, r |-> n]
      OBVIOUS
    <3>2. \A x : x \in FS!IdsOf(h) <=> x = got[n].id
      BY <1>4, <3>1, IdsAre
    <3> QED BY <2>2, <3>1, <3>2
  <2>6. \A i, j \in DOMAIN hits' : i # j => FS!IdsOf(hits'[i]) \cap FS!IdsOf(hits'[j]) = {}
    <3>1. \A i \in DOMAIN hits : FS!IdsOf(hits[i]) \cap FS!IdsOf(hits'[Len(hits) + 1]) = {}
      BY <2>4, <2>5
    <3>2. \A i \in DOMAIN hits' : i \in DOMAIN hits \/ i = Len(hits) + 1
      BY <1>7, <2>2
    <3> QED BY <1>8, <2>2, <3>1, <3>2
  <2>7. \A k \in DOMAIN fsLocal : k \in DOMAIN hits' /\ hits'[k].l = k
    BY <1>7, <1>9, <2>2
  <2>8. BothFirst => hits'[1].r = 1
    BY <1>13, <1>14, <1>15, <1>16, <2>2
  <2>9. Len(hits') <= Len(fsLocal) + n
    BY <1>2, <1>3, <1>4, <1>7, <2>2
  <2> QED BY <1>2, <1>4, <1>10, <1>13, <2>3, <2>6, <2>7, <2>8, <2>9 DEF Merging
<1>17. CASE joins # {}
  <2>1. PICK f \in joins : f = FS!First(joins) /\ \A j \in joins : f <= j
    <3>1. joins \subseteq Nat
      BY <1>7, <1>11
    <3> QED BY <1>17, <3>1, FirstIsLeast
  <2>2. f \in 1 .. Len(hits)
    BY <1>7, <1>11, <2>1
  <2>3. CASE hits[f].r > 0
    <3>1. hits' = hits
      BY <1>6, <1>17, <2>1, <2>3
    <3>3. BothFirst => hits[1].r = 1
      <4>1. BothFirst /\ n = 1 => f = 1
        BY <1>14, <2>1, <2>2
      <4> QED BY <1>14, <1>15, <2>3, <4>1
    <3> QED BY <1>2, <1>3, <1>4, <1>7, <1>8, <1>9, <1>10, <1>13, <3>1, <3>3 DEF Merging
  <2>4. CASE ~(hits[f].r > 0)
    <3>1. PICK g : g = [hits[f] EXCEPT !.r = n]
      OBVIOUS
    <3>2. g.l = hits[f].l /\ g.r = n /\ g \in [l : 0 .. Len(fsLocal), r : 0 .. n] /\ hits[f].r = 0
      <4>1. hits[f] \in [l : 0 .. Len(fsLocal), r : 0 .. merged]
        BY <1>7, <2>2
      <4>2. hits[f].r = 0 /\ 0 .. merged \subseteq 0 .. n
        BY <1>3, <1>4, <2>4, <4>1
      <4> QED BY <1>4, <3>1, <4>1, <4>2
    <3>3. hits' = [hits EXCEPT ![f] = g]
      BY <1>6, <1>17, <2>1, <2>2, <2>4, <3>1, <1>7
    <3>4. /\ DOMAIN hits' = DOMAIN hits /\ Len(hits') = Len(hits) /\ hits'[f] = g
          /\ \A i \in DOMAIN hits : i # f => hits'[i] = hits[i]
          /\ hits' \in Seq([l : 0 .. Len(fsLocal), r : 0 .. n])
      <4> PICK S : S = [l : 0 .. Len(fsLocal), r : 0 .. n]
        OBVIOUS
      <4>1. hits \in Seq(S) /\ g \in S
        BY <1>7, <3>2
      <4> QED BY <1>7, <2>2, <3>3, <4>1
    <3>5. FS!IdsOf(g) = FS!IdsOf(hits[f]) \cup {got[n].id}
      <4>1. \A x : x \in FS!IdsOf(g) <=> x \in FS!IdsOf(hits[f]) \/ x = got[n].id
        BY <1>4, <3>2, IdsAre
      <4> QED BY <4>1
    <3>6. \A i \in DOMAIN hits : i # f => got[n].id \notin FS!IdsOf(hits[i])
      <4>1. CASE \E i \in DOMAIN hits : got[n].id \in FS!IdsOf(hits[i])
        <5>1. got[n].id \in FS!IdsOf(hits[f])
          BY <1>12, <2>1, <4>1
        <5> QED BY <1>7, <1>8, <2>2, <5>1
      <4> QED BY <4>1
    <3>7. \A i, j \in DOMAIN hits' : i # j => FS!IdsOf(hits'[i]) \cap FS!IdsOf(hits'[j]) = {}
      <4>1. ASSUME NEW i \in DOMAIN hits, NEW j \in DOMAIN hits, i # j, i = f
            PROVE  FS!IdsOf(g) \cap FS!IdsOf(hits[j]) = {}
        BY <1>8, <3>5, <3>6, <4>1
      <4> QED BY <1>7, <1>8, <2>2, <3>4, <4>1
    <3>8. \A k \in DOMAIN fsLocal : k \in DOMAIN hits' /\ hits'[k].l = k
      BY <1>9, <3>2, <3>4
    <3>9. BothFirst => hits'[1].r = 1
      <4>1. BothFirst /\ n = 1 => f = 1
        BY <1>14, <2>1, <2>2
      <4>2. BothFirst /\ n # 1 => f # 1
        BY <1>15, <3>2
      <4> QED BY <1>13, <1>15, <3>2, <3>4, <4>1, <4>2
    <3>10. Len(hits') <= Len(fsLocal) + n
      BY <1>2, <1>3, <1>4, <1>7, <3>4
    <3> QED BY <1>2, <1>4, <1>10, <1>13, <3>4, <3>7, <3>8, <3>9, <3>10 DEF Merging
  <2> QED BY <2>3, <2>4
<1> QED BY <1>16, <1>17

(* However the hits are sorted, the page of them is sound.                       *)
LEMMA AnswerIsSound ==
  ASSUME FSInv, focus = "fs", FS!Answer
  PROVE  FS!MergedIsSound'
<1>1. Merging /\ merged = Len(got) /\ Routing /\ fsPc = "merge"
  BY DEF FSInv, FS!Answer
<1>2. PICK p \in FS!Sorted :
        fsPage' = [i \in 1 .. IF Len(hits) < fsLimit THEN Len(hits) ELSE fsLimit |-> hits[p[i]]]
  BY DEF FS!Answer
<1>3. PICK last : last = IF Len(hits) < fsLimit THEN Len(hits) ELSE fsLimit
  OBVIOUS
<1>4. PICK N \in Nat : /\ N = Len(hits) /\ DOMAIN hits = 1 .. N
                      /\ \A i \in 1 .. N : hits[i] \in [l : Nat, r : Nat]
  <2>1. hits \in Seq([l : 0 .. Len(fsLocal), r : 0 .. merged])
    BY <1>1 DEF Merging
  <2>2. PICK S : S = [l : 0 .. Len(fsLocal), r : 0 .. merged]
    OBVIOUS
  <2>3. hits \in Seq(S)
    BY <2>1, <2>2
  <2>4. Len(hits) \in Nat /\ DOMAIN hits = 1 .. Len(hits) /\ \A i \in DOMAIN hits : hits[i] \in S
    BY <2>3, SeqFacts
  <2>5. S \subseteq [l : Nat, r : Nat]
    BY <2>2
  <2> QED BY <2>4, <2>5
<1>13. /\ last \in 0 .. N /\ (N <= fsLimit => last = N)
       /\ (N # 0 => last # 0) /\ N <= Len(fsLocal) + Len(got) /\ fsLimit \in Nat
  <2>1. N <= Len(fsLocal) + Len(got)
    BY <1>1, <1>4 DEF Merging
  <2>2. fsLimit \in Nat \ {0}
    BY CallersAssumption
  <2>3. last = IF N < fsLimit THEN N ELSE fsLimit
    BY <1>3, <1>4
  <2> QED BY <2>1, <2>2, <2>3
<1>5. /\ \A i \in 1 .. N : p[i] \in 1 .. N
      /\ \A i, j \in 1 .. N : p[i] = p[j] => i = j
      /\ \A k \in 1 .. N : \E i \in 1 .. N : p[i] = k
      /\ \A i, j \in 1 .. N : i < j => ~FS!ScoredBefore(hits[p[j]], hits[p[i]])
  BY <1>2, <1>4 DEF FS!Sorted, FS!Bijection, FS!Injection, FS!IsInjective, FS!Surjection
<1>6. /\ DOMAIN fsPage' = 1 .. last /\ \A i \in 1 .. last : fsPage'[i] = hits[p[i]] /\ i \in 1 .. N
      /\ UNCHANGED <<fsLocal, got, selector, entry, said>>
  <2>1. \A i \in 1 .. last : i \in 1 .. N
    BY <1>13
  <2> QED BY <1>2, <1>3, <2>1 DEF FS!Answer, FS!store
<1>7. \A h : FS!IdsOf(h)' = FS!IdsOf(h)
  BY <1>6 DEF FS!IdsOf
<1>8. \A i, j \in DOMAIN fsPage' : i # j => FS!IdsOf(fsPage'[i]) \cap FS!IdsOf(fsPage'[j]) = {}
  <2>1. \A i, j \in 1 .. N : i # j => FS!IdsOf(hits[i]) \cap FS!IdsOf(hits[j]) = {}
    BY <1>1, <1>4 DEF Merging
  <2>2. ASSUME NEW i \in 1 .. last, NEW j \in 1 .. last, i # j
        PROVE  FS!IdsOf(hits[p[i]]) \cap FS!IdsOf(hits[p[j]]) = {}
    <3>1. i \in 1 .. N /\ j \in 1 .. N
      BY <1>6, <2>2
    <3>2. p[i] \in 1 .. N /\ p[j] \in 1 .. N /\ p[i] # p[j]
      BY <1>5, <2>2, <3>1
    <3> QED BY <2>1, <3>2
  <2> QED BY <1>6, <2>2
<1>9. Len(fsLocal) + Len(got) <= fsLimit =>
        \A n \in DOMAIN fsLocal : \E i \in DOMAIN fsPage' : fsPage'[i].l = n
  <2> SUFFICES ASSUME Len(fsLocal) + Len(got) <= fsLimit, NEW n \in DOMAIN fsLocal
               PROVE  \E i \in DOMAIN fsPage' : fsPage'[i].l = n
    OBVIOUS
  <2>1. n \in 1 .. N /\ hits[n].l = n
    BY <1>1, <1>4 DEF Merging
  <2>2. last = N
    <3>1. Len(fsLocal) \in Nat /\ Len(got) \in Nat
      <4>1. got = <<>> \/ got \in FS!Lists
        BY DEF FSInv
      <4> QED BY <4>1, ListsOK DEF FSInv
    <3> QED BY <1>13, <3>1
  <2>3. PICK i \in 1 .. N : p[i] = n
    BY <1>5, <2>1
  <2>4. i \in 1 .. last
    BY <2>2, <2>3
  <2> QED BY <1>6, <2>1, <2>3, <2>4
<1>10. BothFirst => 1 \in DOMAIN fsPage' /\ fsPage'[1] = FS!Hit(1, 1)
  <2> SUFFICES ASSUME BothFirst PROVE 1 \in DOMAIN fsPage' /\ fsPage'[1] = FS!Hit(1, 1)
    OBVIOUS
  <2>1. got \in FS!Lists /\ fsLocal \in FS!Lists
    BY DEF FSInv, BothFirst
  <2>2. 1 \in DOMAIN fsLocal /\ merged # 0 /\ Len(got) \in Nat /\ 1 \in DOMAIN got
    BY <1>1, <2>1, ListsOK DEF BothFirst
  <2>3. 1 \in 1 .. N /\ hits[1].l = 1 /\ hits[1].r = 1
    BY <1>1, <1>4, <2>2 DEF Merging
  <2>4. 1 \in 1 .. last /\ 1 \in 1 .. N
    BY <1>4, <1>13, <2>3
  <2>5. ASSUME NEW i \in 1 .. N, i # 1 PROVE hits[i].l \in Nat \ {1} /\ hits[i].r \in Nat \ {1}
    <3>1. hits[i].l \in Nat /\ hits[i].r \in Nat
      BY <1>4, <2>5
    <3>2. FS!IdsOf(hits[i]) \cap FS!IdsOf(hits[1]) = {}
      BY <1>1, <1>4, <2>3, <2>5 DEF Merging
    <3>3. fsLocal[1].id \in FS!IdsOf(hits[1]) /\ got[1].id \in FS!IdsOf(hits[1])
      BY <2>3, IdsAre
    <3> QED BY <3>1, <3>2, <3>3, IdsAre
  <2>6. p[1] = 1
    <3> SUFFICES ASSUME p[1] # 1 PROVE FALSE
      OBVIOUS
    <3>1. PICK j \in 1 .. N : p[j] = 1
      BY <1>5, <2>3
    <3>2. 1 < j /\ p[1] \in 1 .. N
      BY <1>5, <2>3, <3>1
    <3>3. FS!ScoredBefore(hits[1], hits[p[1]])
      BY <2>3, <2>5, <3>2, BothLead
    <3> QED BY <1>5, <2>3, <3>1, <3>2, <3>3
  <2>7. hits[1] = [l |-> 1, r |-> 1]
    BY <1>4, <2>3
  <2> QED BY <1>6, <2>4, <2>6, <2>7 DEF FS!Hit
<1>11. selector # "absent" => said = "fallback"
  BY <1>1 DEF Routing
<1>12. \A i, j \in DOMAIN fsPage' : i # j => FS!IdsOf(fsPage[i])' \cap FS!IdsOf(fsPage[j])' = {}
  BY <1>7, <1>8
<1> QED BY <1>6, <1>9, <1>10, <1>11, <1>12 DEF FS!MergedIsSound, BothFirst, FS!Hit

(* A search begins with nothing found,                                         *)
LEMMA FSInit == Initial => FSInv
<1> SUFFICES ASSUME Initial, focus = "fs" PROVE FSInv
  BY DEF FSInv
<1>1. FS!Init
  BY DEF Initial
<1> QED BY <1>1 DEF FS!Init, FSInv, Routing, FS!MergedIsSound

(* and every step keeps what its answer rests on.                               *)
LEMMA FSStep == FSInv /\ [Move]_all => FSInv'
<1> SUFFICES ASSUME FSInv, [Move]_all, focus' = "fs" PROVE FSInv'
  BY DEF FSInv
<1>1. focus = "fs" /\ [FS!Next]_fsState
  BY DEF Move, all
<1>2. CASE FS!Route
  BY <1>1, <1>2 DEF FS!Route, FS!store, FSInv, Routing, FS!MergedIsSound
<1>3. CASE FS!Answered
  <2>1. CASE selector = "absent"
    BY <1>1, <1>3, <2>1 DEF FS!Answered, FS!store, FSInv, Routing, FS!MergedIsSound
  <2>2. CASE selector # "absent"
    <3>1. /\ fsPage' = [n \in DOMAIN remote |-> [l |-> 0, r |-> n]] /\ fsPc' = "done" /\ got' = remote
          /\ UNCHANGED <<fsLocal, remote, selector, entry, mode, said, hits, merged>>
          /\ entry = "server" /\ fsPc = "ask"
      BY <1>1, <1>3, <2>2 DEF FS!Answered, FS!store, FSInv, Routing, FS!Hit
    <3>2. remote \in FS!Lists /\ fsLocal \in FS!Lists
      BY <1>1 DEF FSInv
    <3>3. DOMAIN remote \subseteq Nat \ {0} /\ \A i, j \in DOMAIN remote : i # j => remote[i].id # remote[j].id
      BY <3>2, ListsOK
    <3>4. \A i \in DOMAIN remote : fsPage'[i].l = 0 /\ fsPage'[i].r = i
      BY <3>1
    <3>5. \A h, i : i \in DOMAIN remote /\ h.l = 0 /\ h.r = i => FS!IdsOf(h)' = {remote[i].id}
      BY <3>1, <3>3 DEF FS!IdsOf
    <3>6. FS!MergedIsSound'
      <4>1. \A i, j \in DOMAIN remote : i # j => FS!IdsOf(fsPage[i])' \cap FS!IdsOf(fsPage[j])' = {}
        BY <3>3, <3>4, <3>5
      <4>2. DOMAIN fsPage' = DOMAIN remote /\ \A i \in DOMAIN remote : ~(fsPage'[i].l > 0)
        BY <3>1, <3>4
      <4> QED BY <2>2, <3>1, <4>1, <4>2 DEF FS!MergedIsSound
    <3> QED BY <1>1, <3>1, <3>2, <3>6 DEF FSInv, Routing
  <2> QED BY <2>1, <2>2
<1>4. CASE FS!SemanticUnavailable
  BY <1>1, <1>4 DEF FS!SemanticUnavailable, FS!store, FSInv, Routing, FS!MergedIsSound
<1>5. CASE FS!AskFails
  BY <1>1, <1>5 DEF FS!AskFails, FS!store, FSInv, Routing, FS!MergedIsSound
<1>6. CASE FS!SearchLocal
  <2>1. Merging'
    BY <1>1, <1>6, LocalBegins
  <2> QED BY <1>1, <1>6, <2>1 DEF FS!SearchLocal, FS!store, FSInv, Routing, FS!MergedIsSound
<1>7. CASE FS!AddRemote
  <2>1. Merging'
    BY <1>1, <1>7, RemoteJoins
  <2> QED BY <1>1, <1>7, <2>1 DEF FS!AddRemote, FS!store, FSInv, Routing, FS!MergedIsSound
<1>8. CASE FS!Answer
  <2>1. FS!MergedIsSound'
    BY <1>1, <1>8, AnswerIsSound
  <2> QED BY <1>1, <1>8, <2>1 DEF FS!Answer, FS!store, FSInv, Routing
<1>9. CASE UNCHANGED fsState
  <2>1. /\ UNCHANGED <<fsLocal, remote, selector, fsPc, entry, mode, said, got, hits, merged, fsPage>>
    BY <1>9 DEF fsState
  <2>2. \A h : FS!IdsOf(h)' = FS!IdsOf(h)
    BY <2>1 DEF FS!IdsOf
  <2>3. FS!MergedIsSound' /\ (Merging => Merging')
    BY <1>1, <2>1, <2>2 DEF FSInv, FS!MergedIsSound, Merging, BothFirst
  <2> QED BY <1>1, <2>1, <2>3 DEF FSInv, Routing
<1> QED BY <1>1, <1>2, <1>3, <1>4, <1>5, <1>6, <1>7, <1>8, <1>9 DEF FS!Next

-----------------------------------------------------------------------------
(* The two searches, whichever component runs.                                *)
AnswersInv == SRInv /\ FSInv

LEMMA AnswersInit == Initial => AnswersInv
BY SRInit, FSInit DEF AnswersInv

LEMMA AnswersStep == AnswersInv /\ [Move]_all => AnswersInv'
BY SRStep, FSStep DEF AnswersInv

LEMMA AnswersKept == AnswersInv => AnswersAreSound
<1>1. FSInv => (focus = "fs" => FS!MergedIsSound)
  BY DEF FSInv
<1> QED BY <1>1, ScanIsBest DEF AnswersInv, AnswersAreSound

(* In whatever order a scan meets the entries of its map, it ends with the best  *)
(* of its scope, as many as its page asks for; and however the lists of two      *)
(* engines overlap, in ids or in texts, and however ties are broken, no id is    *)
(* in two hits of the answer, no local result is lost while there is room, the   *)
(* memory both engines put first comes first, and a fallback says so.          *)
THEOREM CallersSound == CallersSpec => []AnswersAreSound
BY AnswersInit, AnswersStep, AnswersKept, PTL DEF CallersSpec

=============================================================================
