--------------------------------- MODULE Shrink ---------------------------------
(***************************************************************************)
(* Rewriting the database file (pkg/memory/shrink.go) while other processes *)
(* come and go.  File names point at inodes; a process that opened the      *)
(* database keeps the inode it opened.  Content is the set of writes an      *)
(* inode and its write-ahead log hold.                                      *)
(*                                                                         *)
(* The log is the pair of files -wal and -shm; SQLite finds it by name, so   *)
(* that of one inode can be taken up for another.  What SQLite does with the *)
(* two when a connection opens or closes is modelled from its rules; a       *)
(* process that opens between the two removals counts as before both.        *)
(***************************************************************************)
EXTENDS Naturals

CONSTANTS Users,    \* other processes
          MaxWrites \* bound: writes

Nothing == 0
Inodes  == 1 .. 3 \* the database, its first and its second copy

VARIABLES
  path, tmp,   \* the inodes the two names point at
  content,     \* what an inode holds
  copies,      \* inodes used so far
  pc,          \* the command
  handle,      \* the inode a user has open
  log,         \* the inode the log that lies there was written for
  cut,         \* users whose log was removed under them
  writes,      \* the last write
  \* auxiliary
  window,      \* writes whose inode or log Shrink puts away, or has put away
  gap,         \* a user opened the file between close and removal, or no removal came
  crossed      \* a log was taken up for another inode, or an inode has two

files == <<path, tmp, content, copies>>
aux   == <<window, gap, crossed>>
vars  == <<files, pc, handle, log, cut, writes, aux>>

Init ==
  /\ path = 1 /\ tmp = Nothing
  /\ content = [i \in Inodes |-> IF i = 1 THEN {0} ELSE {}] /\ copies = 1
  /\ pc = "idle"
  /\ handle = [u \in Users |-> Nothing] /\ log = Nothing /\ cut = {} /\ writes = 0
  /\ window = {} /\ gap = FALSE /\ crossed = FALSE

-----------------------------------------------------------------------------
(* While the command holds the exclusive lock nobody else gets in.           *)
Locked == pc \in {"vacuum", "verify", "close"}
Closed == pc \in {"swap", "wal"} \* from Close to the removal of the log
Stale  == log \notin {Nothing, path}
Alone  == \A u \in Users : handle[u] # path

(* SQLite makes or takes up the log that lies beside the name.               *)
TakeLog ==
  /\ log' = IF log = Nothing THEN path ELSE log
  /\ crossed' = (crossed \/ Stale \/ \E u \in cut : handle[u] = path)

Open(u) ==
  /\ handle[u] = Nothing /\ ~Locked
  /\ handle' = [handle EXCEPT ![u] = path]
  /\ TakeLog
  /\ gap' = (gap \/ Closed)
  /\ UNCHANGED <<files, pc, cut, writes, window>>

Write(u) ==
  /\ handle[u] # Nothing /\ writes < MaxWrites
  /\ writes' = writes + 1
  /\ content' = [content EXCEPT ![handle[u]] = @ \cup {writes + 1}]
  /\ window' = IF Closed \/ handle[u] # path \/ u \in cut THEN window \cup {writes + 1} ELSE window
  /\ UNCHANGED <<path, tmp, copies, pc, handle, log, cut, gap, crossed>>

(* The last to close the database removes the log, unless it is killed; one   *)
(* whose file was replaced leaves it.                                        *)
Close(u) ==
  /\ handle[u] # Nothing
  /\ handle' = [handle EXCEPT ![u] = Nothing]
  /\ \/ UNCHANGED log
     \/ handle[u] = path /\ (\A v \in Users \ {u} : handle[v] # path) /\ log' = Nothing
  /\ cut' = cut \ {u}
  /\ UNCHANGED <<files, pc, writes, aux>>

-----------------------------------------------------------------------------
(* openExclusive: refused while any other connection is open.                *)
(* Mutant: a write lock is taken for exclusivity.                            *)
TakeWriteLock ==
  /\ pc = "idle" /\ copies < 3
  /\ pc' = "vacuum"
  /\ TakeLog
  /\ UNCHANGED <<files, handle, cut, writes, window, gap>>

OpenExclusive ==
  /\ pc = "idle" /\ copies < 3 /\ Alone
  /\ pc' = "vacuum"
  /\ TakeLog
  /\ UNCHANGED <<files, handle, cut, writes, window, gap>>

(* The command's own Close; the log stays when it cannot be written back.     *)
GivesUp == pc' = "idle" /\ tmp' = Nothing /\ log' \in {Nothing, log}

(* VACUUM INTO, after a copy an earlier run left is removed; it may fail half *)
(* way.                                                                      *)
Vacuum ==
  /\ pc = "vacuum"
  /\ \/ /\ \E part \in SUBSET content[path] :
             content' = [content EXCEPT ![copies + 1] = part]
        /\ tmp' = copies + 1 /\ copies' = copies + 1 /\ pc' = "verify"
        /\ UNCHANGED log
     \/ GivesUp /\ UNCHANGED <<content, copies>>
  /\ UNCHANGED <<path, handle, cut, writes, aux>>

(* Mutant: the copy is not compared with the rows counted before.            *)
VerifySound ==
  /\ pc = "verify"
  /\ pc' = "close"
  /\ UNCHANGED <<files, handle, log, cut, writes, aux>>

Verify ==
  /\ pc = "verify"
  /\ IF content[tmp] = content[path]
     THEN pc' = "close" /\ UNCHANGED <<tmp, log>>
     ELSE GivesUp
  /\ UNCHANGED <<path, content, copies, handle, cut, writes, aux>>

CloseOwn ==
  /\ pc = "close"
  /\ pc' = "swap" /\ log' \in {Nothing, log}
  /\ UNCHANGED <<files, handle, cut, writes, aux>>

(* The rename; when it fails the copy is removed.                            *)
Swap ==
  /\ pc = "swap"
  /\ \/ path' = tmp /\ pc' = "wal"
     \/ UNCHANGED path /\ pc' = "idle"
  /\ tmp' = Nothing
  /\ UNCHANGED <<content, copies, handle, log, cut, writes, aux>>

(* Mutant: the log is not removed.                                           *)
KeepLog ==
  /\ pc = "wal"
  /\ pc' = "idle"
  /\ UNCHANGED <<files, handle, log, cut, writes, aux>>

(* The log goes after the rename; an error is ignored.                       *)
RemoveLog ==
  /\ pc = "wal"
  /\ pc' = "idle"
  /\ \/ /\ log' = Nothing
        /\ cut' = cut \cup {u \in Users : handle[u] = path}
        /\ UNCHANGED gap
     \/ gap' = (gap \/ Stale) /\ UNCHANGED <<log, cut>>
  /\ UNCHANGED <<files, handle, writes, window, crossed>>

Crash ==
  /\ pc # "idle"
  /\ pc' = "idle"
  /\ gap' = (gap \/ Stale)
  /\ UNCHANGED <<files, handle, log, cut, writes, window, crossed>>

Next ==
  \/ \E u \in Users : Open(u) \/ Write(u) \/ Close(u)
  \/ OpenExclusive \/ Vacuum \/ Verify \/ CloseOwn \/ Swap \/ RemoveLog \/ Crash

Spec == Init /\ [][Next]_vars

-----------------------------------------------------------------------------
TypeOK ==
  /\ path \in Inodes /\ tmp \in Inodes \cup {Nothing} /\ copies \in Inodes
  /\ content \in [Inodes -> SUBSET (0 .. MaxWrites)]
  /\ pc \in {"idle", "vacuum", "verify", "close", "swap", "wal"}
  /\ handle \in [Users -> Inodes \cup {Nothing}] /\ writes \in 0 .. MaxWrites
  /\ log \in Inodes \cup {Nothing} /\ cut \subseteq Users
  /\ window \subseteq 0 .. MaxWrites /\ {gap, crossed} \subseteq BOOLEAN

(* The database holds every write, whatever fails and wherever the command     *)
(* crashes (shrink.go 30-31, 63-67), as long as nobody opens the file between   *)
(* Shrink's close (88) and its removal of the log (100-101) and no log of the  *)
(* replaced file is left after it.  When that happens, still only writes made   *)
(* in the window, or by a process whose file or log was put away, are lost,    *)
(* unless a log is taken up for a file it was not written for, or a file gets   *)
(* a second one: then SQLite promises nothing.                               *)
OnlyWindowLost ==
  /\ window # {} \/ crossed => gap
  /\ crossed \/ \A w \in 0 .. writes : w \in content[path] \cup window
================================================================================
