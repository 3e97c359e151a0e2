----------------------------- MODULE DiskStore -----------------------------
(***************************************************************************)
(* diskstorage/: the replicated store that keeps its values in a file, at  *)
(* valueSize times the key.  Sessions, server loop and proposals are those *)
(* of kvstore (KVService); here the group is one committed log, and the    *)
(* state machine, its file and its restarts are modelled.                  *)
(*                                                                         *)
(* The file outlives the process and the Raft log, which is in memory,     *)
(* does not: a process that restarts applies the log again, to the file it *)
(* left behind, and after a restart of the whole group to an empty log.    *)
(*                                                                         *)
(* A file is a sequence of cells, ValueSize of them to a value; "0" is the *)
(* zero byte the deployments fill it with.  A key is the integer Atoi      *)
(* makes of it, or NotANumber.                                             *)
(***************************************************************************)
EXTENDS Integers, FiniteSets, SequencesExt

CONSTANTS
  Nodes,
  NotANumber,
  Commands,    \* the commands clients send
  ValueSize,   \* valueSize
  Modulus,     \* an int is an integer modulo this, and signed
  FileSize,    \* cells of the file at deployment
  MaxFile,     \* the file system's limit on a file
  MaxLog,      \* bound: entries a group commits
  MaxCrashes,  \* bound: processes that die of a fault
  MaxGroups    \* bound: restarts of the whole group

ASSUME DiskAssumption ==
  /\ {ValueSize, Modulus, FileSize, MaxFile, MaxLog, MaxCrashes, MaxGroups} \subseteq Nat
  /\ ValueSize > 0 /\ Modulus > 0 /\ FileSize <= MaxFile
  /\ \A c \in Commands : c.op \in {"set", "get", "delete"} /\ c.key \in Int \cup {NotANumber}

VARIABLES
  log,      \* the committed entries of the present group
  up,       \* the nodes whose process runs
  applied,  \* applied[n]: entries n's state machine has applied
  file,     \* file[n]: the cells of n's file
  futures,  \* the entries whose proposer waits for the response
  replies,  \* ghost: what was replied
  crashes, groups

vars == <<log, up, applied, file, futures, replies, crashes, groups>>

Repeat(x) == [i \in 1..ValueSize |-> x]

\* The value every set stores, whatever value it carries: no value is kept here.
storeValue == Repeat("@")

Keys == {c.key : c \in Commands}
Cells == {"0", "@"}

\* after is a ghost: the sets replied to when e was proposed, and by whom.
Entry == [cmd: Commands, by: Nodes, after: SUBSET [key: Keys, by: Nodes]]
Reply == [group: 0..MaxGroups, idx: 1..MaxLog, entry: Entry, text: Seq(Cells)]

TypeOK ==
  /\ log \in Seq(Entry)
  /\ up \in SUBSET Nodes
  /\ \A n \in Nodes : applied[n] \in 0..Len(log) /\ (n \notin up => applied[n] = 0)
  /\ \A n \in Nodes : file[n] \in Seq(Cells) /\ Len(file[n]) \in FileSize..MaxFile
  /\ \A i \in futures : i \in DOMAIN log /\ log[i].by \in up /\ i > applied[log[i].by]
  /\ replies \in SUBSET Reply
  /\ crashes \in 0..MaxCrashes /\ groups \in 0..MaxGroups

\* The file the deployments make.
Deployed == [i \in 1..FileSize |-> "0"]

Init ==
  /\ log = <<>>
  /\ up = Nodes
  /\ applied = [n \in Nodes |-> 0]
  /\ file = [n \in Nodes |-> Deployed]
  /\ futures = {}
  /\ replies = {}
  /\ crashes = 0 /\ groups = 0

-----------------------------------------------------------------------------
(* The state machine, diskstorage/fsm.go. *)

\* Mutant: the values overlap by a cell.
StrideShort(pos) ==
  LET x == ((ValueSize - 1) * pos) % Modulus IN IF 2 * x < Modulus THEN x ELSE x - Modulus

\* int64(f.valueSize * pos), a product of machine integers.
Stride(pos) ==
  LET x == (ValueSize * pos) % Modulus IN IF 2 * x < Modulus THEN x ELSE x - Modulus

\* WriteAt and ReadAt refuse a negative offset; a write past the limit of the
\* file system fails, and so does a read that meets the end of the file.
SetFails(key) ==
  \/ key = NotANumber
  \/ Stride(key) < 0
  \/ Stride(key) + ValueSize > MaxFile

GetFails(f, key) ==
  \/ key = NotANumber
  \/ Stride(key) < 0
  \/ Stride(key) + ValueSize > Len(f)

\* The commands on which Apply panics: these, and every delete.
Panicking(f) ==
  {c \in Commands : \/ c.op = "delete"
                    \/ c.op = "set" /\ SetFails(c.key)
                    \/ c.op = "get" /\ GetFails(f, c.key)}

\* WriteAt extends the file where it has to, with zeros in between.
applySet(f, c) ==
  LET at == Stride(c.key)
      len == IF at + ValueSize > Len(f) THEN at + ValueSize ELSE Len(f)
  IN  [i \in 1..len |-> IF i > at /\ i <= at + ValueSize THEN storeValue[i - at]
                        ELSE IF i <= Len(f) THEN f[i] ELSE "0"]

applyGet(f, c) == SubSeq(f, Stride(c.key) + 1, Stride(c.key) + ValueSize)

ApplyFile(f, c) == IF c.op = "set" THEN applySet(f, c) ELSE f
ApplyResponse(f, c) == IF c.op = "get" THEN applyGet(f, c) ELSE <<>>

-----------------------------------------------------------------------------
(* The group. *)

Acked == {[key |-> r.entry.cmd.key, by |-> r.entry.by] : r \in {x \in replies : x.entry.cmd.op = "set"}}

\* n, leading, proposes a command, and the group commits it.
Propose(n, c) ==
  /\ n \in up
  /\ Len(log) < MaxLog
  /\ log' = Append(log, [cmd |-> c, by |-> n, after |-> Acked])
  /\ futures' = futures \cup {Len(log) + 1}
  /\ UNCHANGED <<up, applied, file, replies, crashes, groups>>

\* The next entry n's state machine applies.
NextIdx(n) == applied[n] + 1
HasNext(n) == n \in up /\ NextIdx(n) <= Len(log)
NextEntry(n) == log[NextIdx(n)]

\* Apply, and the reply if it is n that waits for this entry.
Apply(n) ==
  /\ HasNext(n)
  /\ NextEntry(n).cmd \notin Panicking(file[n])
  /\ file' = [file EXCEPT ![n] = ApplyFile(@, NextEntry(n).cmd)]
  /\ applied' = [applied EXCEPT ![n] = @ + 1]
  /\ futures' = IF NextEntry(n).by = n THEN futures \ {NextIdx(n)} ELSE futures
  /\ replies' = IF NextEntry(n).by = n /\ NextIdx(n) \in futures
                THEN replies \cup {[group |-> groups, idx |-> NextIdx(n), entry |-> NextEntry(n),
                                    text |-> ApplyResponse(file[n], NextEntry(n).cmd)]}
                ELSE replies
  /\ UNCHANGED <<log, up, crashes, groups>>

\* Mutant: the futures of a process outlive it.
DieKeepsFutures(n) ==
  /\ up' = up \ {n}
  /\ applied' = [applied EXCEPT ![n] = 0]
  /\ UNCHANGED <<log, file, replies, groups, futures>>

\* The process of n ends: nobody waits for its entries any more.
Die(n) ==
  /\ up' = up \ {n}
  /\ applied' = [applied EXCEPT ![n] = 0]
  /\ futures' = {i \in futures : log[i].by # n}
  /\ UNCHANGED <<log, file, replies, groups>>

ApplyPanic(n) ==
  /\ HasNext(n)
  /\ NextEntry(n).cmd \in Panicking(file[n])
  /\ Die(n)
  /\ UNCHANGED crashes

Crash(n) ==
  /\ n \in up
  /\ crashes < MaxCrashes
  /\ Die(n)
  /\ crashes' = crashes + 1

\* Mutant: a process that restarts takes up after the entry it was at.
RestartSkips(n) ==
  /\ n \notin up
  /\ up' = up \cup {n}
  /\ applied' = [applied EXCEPT ![n] = Len(log)]
  /\ UNCHANGED <<log, file, futures, replies, crashes, groups>>

\* New() opens the file as it is; Raft brings the whole log.
Restart(n) ==
  /\ n \notin up
  /\ up' = up \cup {n}
  /\ UNCHANGED <<log, applied, file, futures, replies, crashes, groups>>

\* Mutant: the processes start on new files.
GroupRestartNewFiles ==
  /\ groups < MaxGroups
  /\ groups' = groups + 1
  /\ log' = <<>>
  /\ up' = Nodes
  /\ applied' = [n \in Nodes |-> 0]
  /\ futures' = {}
  /\ file' = [n \in Nodes |-> Deployed]
  /\ UNCHANGED <<replies, crashes>>

\* Every process ends and starts again: a new group, with an empty log.
GroupRestart ==
  /\ groups < MaxGroups
  /\ groups' = groups + 1
  /\ log' = <<>>
  /\ up' = Nodes
  /\ applied' = [n \in Nodes |-> 0]
  /\ futures' = {}
  /\ UNCHANGED <<file, replies, crashes>>

Next ==
  \/ \E n \in Nodes, c \in Commands : Propose(n, c)
  \/ \E n \in Nodes : Apply(n) \/ ApplyPanic(n) \/ Crash(n) \/ Restart(n)
  \/ GroupRestart

Spec == Init /\ [][Next]_vars

-----------------------------------------------------------------------------
(* Properties. *)

Sets(k, i) == {j \in 1..(i - 1) : log[j].cmd.op = "set" /\ log[j].cmd.key = k}

(***************************************************************************)
(* A reply to a get is the stored value if a set of its key is in front of *)
(* it in the log, and the initial value if not: the later values a replica *)
(* sees in its file while it replays the log never come out.               *)
(***************************************************************************)
ReplyFollowsLog ==
  \A r \in replies :
    groups = 0 /\ r.entry.cmd.op = "get" =>
      r.text = IF Sets(r.entry.cmd.key, r.idx) # {} THEN storeValue ELSE Repeat("0")

(***************************************************************************)
(* Replay puts a file through no state that the log does not: it is what   *)
(* some prefix of the log leaves, that holds all the replica has applied.  *)
(***************************************************************************)
\* What an entry leaves of a file: all of it if Apply panics.
AfterEntry(f, e) == IF e.cmd \in Panicking(f) THEN f ELSE ApplyFile(f, e.cmd)

FileAfter(entries) ==
  LET upTo[i \in 0..Len(entries)] ==
        IF i = 0 THEN Deployed ELSE AfterEntry(upTo[i - 1], entries[i])
  IN upTo[Len(entries)]

FileIsOfAPrefix ==
  groups = 0 =>
    \A n \in Nodes : \E i \in applied[n]..Len(log) : file[n] = FileAfter(SubSeq(log, 1, i))

(***************************************************************************)
(* An entry that makes one replica panic stops all of them, before and     *)
(* after restarts: none applies it, though their files may differ.         *)
(***************************************************************************)
Poison(n) == HasNext(n) /\ NextEntry(n).cmd \in Panicking(file[n])

PanicsTogether ==
  groups = 0 => \A n, m \in Nodes : Poison(n) => applied[m] <= applied[n]

(***************************************************************************)
(* A node never forgets a set it has replied to, whatever restarts: every  *)
(* get that it serves afterwards returns the stored value.                 *)
(***************************************************************************)
OwnSetsSurvive ==
  \A r \in replies :
    r.entry.cmd.op = "get" /\ [key |-> r.entry.cmd.key, by |-> r.entry.by] \in r.entry.after =>
      r.text = storeValue
=============================================================================
