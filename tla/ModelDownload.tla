----------------------------- MODULE ModelDownload -----------------------------
(***************************************************************************)
(* The download of one model file by processes that start without it        *)
(* (embeddings_onnx.go).  All write dest.download and rename it to dest; a  *)
(* download that stopped is resumed with a Range request.                   *)
(*                                                                         *)
(* A file is an inode: a descriptor stays on it through renames and         *)
(* removals.  Its content is the sequence of the chunks written, 0 for a    *)
(* hole; the file the server has is 1 .. Size.  Chunk i of a response goes  *)
(* where the descriptor stands, which ought to be offset i.                 *)
(***************************************************************************)
EXTENDS Integers, Sequences, FiniteSets

CONSTANTS
  Procs,      \* the processes
  Size,       \* chunks in the file
  MaxRetries, \* maxRetries
  MaxStarts,  \* bound: starts of processes
  MaxFails    \* bound: requests, reads and writes that fail, and processes killed

VARIABLES
  inodes,     \* contents, in the order of creation
  tmp, dest,  \* the inode each name leads to, 0 for none
  proc,       \* the processes
  starts, fails,
  clobbered   \* one process emptied, outdated or renamed the file of another

names == <<tmp, dest>>
vars  == <<inodes, names, proc, starts, fails, clobbered>>

Off == [pc |-> "off", attempt |-> 0, existing |-> 0, resumed |-> FALSE, fd |-> 0, pos |-> 0,
        chunk |-> 0]
Whole(f) == inodes[f] = [i \in 1 .. Size |-> i]
Length(f) == IF f = 0 THEN 0 ELSE Len(inodes[f])

TypeOK ==
  /\ \A f \in DOMAIN inodes : inodes[f] \in Seq(0 .. Size)
  /\ {tmp, dest} \subseteq {0} \cup DOMAIN inodes
  /\ \A p \in Procs :
       /\ proc[p].pc \in {"off", "stat", "request", "open", "copy", "rename", "ready", "without"}
       /\ proc[p].attempt \in 0 .. MaxRetries /\ proc[p].fd \in {0} \cup DOMAIN inodes
       /\ proc[p].existing \in 0 .. 2 * Size /\ proc[p].pos \in 0 .. 2 * Size
       /\ proc[p].chunk \in 0 .. Size /\ proc[p].resumed \in BOOLEAN
  /\ starts \in 0 .. MaxStarts /\ fails \in 0 .. MaxFails
  /\ clobbered \in BOOLEAN

Init ==
  /\ inodes = <<>> /\ tmp = 0 /\ dest = 0
  /\ proc = [p \in Procs |-> Off] /\ starts = 0 /\ fails = 0
  /\ clobbered = FALSE

At(p, pc) == proc[p].pc = pc

-----------------------------------------------------------------------------
(* ensureONNXModel: a file that is there is taken as it is.                  *)
Start(p) ==
  /\ proc[p].pc \in {"off", "without"} /\ starts < MaxStarts /\ starts' = starts + 1
  /\ proc' = [proc EXCEPT ![p] =
       IF dest # 0 THEN [Off EXCEPT !.pc = "ready"] ELSE [Off EXCEPT !.pc = "stat", !.attempt = 1]]
  /\ UNCHANGED <<inodes, names, fails, clobbered>>

Stat(p) ==
  /\ At(p, "stat")
  /\ proc' = [proc EXCEPT ![p].pc = "request", ![p].existing = Length(tmp)]
  /\ UNCHANGED <<inodes, names, starts, fails, clobbered>>

(* The next attempt, or none.                                                *)
Retry(r) ==
  IF r.attempt < MaxRetries THEN [Off EXCEPT !.pc = "stat", !.attempt = r.attempt + 1]
  ELSE [Off EXCEPT !.pc = "without"]

(* 206 for what a Range leaves, 200 for the whole file, which a server that   *)
(* ignores Range sends too; 416 when nothing is left.                        *)
Request(p) ==
  LET from == proc[p].existing IN
  /\ At(p, "request")
  /\ \/ /\ proc' = [proc EXCEPT ![p].pc = "open"]
        /\ UNCHANGED fails
     \/ /\ from \in 1 .. Size - 1
        /\ proc' = [proc EXCEPT ![p].pc = "open", ![p].resumed = TRUE]
        /\ UNCHANGED fails
     \/ /\ from >= Size
        /\ proc' = [proc EXCEPT ![p] = Retry(proc[p])]
        /\ UNCHANGED fails
     \/ /\ fails < MaxFails /\ fails' = fails + 1 \* the connection or the status
        /\ proc' = [proc EXCEPT ![p] = Retry(proc[p])]
  /\ UNCHANGED <<inodes, names, starts, clobbered>>

(* A resumed response is written past what is there now; one that starts    *)
(* over empties a file that another process has.                             *)
Clobbers(p) ==
  IF proc[p].resumed THEN proc[p].existing > Length(tmp)
  ELSE tmp # 0 /\ Length(tmp) > 0 /\ \E q \in Procs : proc[q].fd = tmp

(* Mutant: a response that starts over is written after what there was.      *)
OpenAppending(p) ==
  LET f == IF tmp = 0 THEN Len(inodes) + 1 ELSE tmp
      r == proc[p] IN
  /\ At(p, "open")
  /\ inodes' = IF tmp = 0 THEN Append(inodes, <<>>) ELSE inodes
  /\ tmp' = f
  /\ proc' = [proc EXCEPT ![p].pc = "copy", ![p].fd = f, ![p].pos = r.existing,
                          ![p].chunk = IF r.resumed THEN r.existing ELSE 0]
  /\ UNCHANGED <<dest, starts, fails, clobbered>>

(* The partial file is opened: positioned at its old end, or emptied.  An     *)
(* error ends the download, and leaves what Killed leaves there.             *)
Open(p) ==
  LET f == IF tmp = 0 THEN Len(inodes) + 1 ELSE tmp
      r == proc[p]
      there == IF tmp = 0 THEN Append(inodes, <<>>) ELSE inodes IN
  /\ At(p, "open")
  /\ inodes' = IF r.resumed THEN there ELSE [there EXCEPT ![f] = <<>>]
  /\ tmp' = f
  /\ proc' = [proc EXCEPT ![p].pc = "copy", ![p].fd = f,
                          ![p].pos = IF r.resumed THEN r.existing ELSE 0,
                          ![p].chunk = IF r.resumed THEN r.existing ELSE 0]
  /\ clobbered' = (clobbered \/ Clobbers(p))
  /\ UNCHANGED <<dest, starts, fails>>

(* A write past the end of the file leaves a hole.                           *)
Written(content, at, c) ==
  [i \in 1 .. IF at > Len(content) THEN at ELSE Len(content) |->
     IF i = at THEN c ELSE IF i <= Len(content) THEN content[i] ELSE 0]

Copy(p) ==
  LET r == proc[p] IN
  /\ At(p, "copy") /\ r.chunk < Size
  /\ inodes' = [inodes EXCEPT ![r.fd] = Written(@, r.pos + 1, r.chunk + 1)]
  /\ proc' = [proc EXCEPT ![p].pos = @ + 1, ![p].chunk = @ + 1]
  /\ UNCHANGED <<names, starts, fails, clobbered>>

(* A response that breaks keeps the file for the next attempt; a write that  *)
(* fails removes its name.                                                   *)
CopyFails(p) ==
  /\ At(p, "copy") /\ fails < MaxFails /\ fails' = fails + 1
  /\ tmp' \in {tmp, 0}
  /\ proc' = [proc EXCEPT ![p] = Retry(proc[p])]
  /\ UNCHANGED <<inodes, dest, starts, clobbered>>

EndOfFile(p) ==
  /\ At(p, "copy") /\ proc[p].chunk = Size
  /\ proc' = [proc EXCEPT ![p].pc = "rename"]
  /\ UNCHANGED <<inodes, names, starts, fails, clobbered>>

(* Whatever file has the name is put in place; without one the download       *)
(* fails, and is not tried again.                                            *)
Rename(p) ==
  /\ At(p, "rename")
  /\ IF tmp # 0
     THEN dest' = tmp /\ tmp' = 0 /\ proc' = [proc EXCEPT ![p] = [Off EXCEPT !.pc = "ready"]]
     ELSE proc' = [proc EXCEPT ![p] = [Off EXCEPT !.pc = "without"]] /\ UNCHANGED names
  /\ clobbered' = (clobbered \/ tmp \notin {0, proc[p].fd})
  /\ UNCHANGED <<inodes, starts, fails>>

Killed(p) ==
  /\ proc[p].pc \notin {"off", "ready", "without"} /\ fails < MaxFails /\ fails' = fails + 1
  /\ proc' = [proc EXCEPT ![p] = Off]
  /\ UNCHANGED <<inodes, names, starts, clobbered>>

Next ==
  \E p \in Procs :
    \/ Start(p) \/ Stat(p) \/ Request(p) \/ Open(p) \/ Copy(p) \/ CopyFails(p) \/ EndOfFile(p)
    \/ Rename(p) \/ Killed(p)

-----------------------------------------------------------------------------
(* A file that is in place is whole, after any broken, killed, resumed and   *)
(* restarted downloads and several at once, unless one process emptied the   *)
(* partial file under another, opened it after another had moved or emptied  *)
(* it, or renamed that of another.                                           *)
PlacedIsWhole == dest # 0 => Whole(dest) \/ clobbered
===============================================================================
