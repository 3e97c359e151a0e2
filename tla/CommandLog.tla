----------------------------- MODULE CommandLog -----------------------------
(***************************************************************************)
(* The command log that kvstore replicas (kvstore/fsm.go with Logging set) *)
(* and logger processes (logger/) write as their state machines apply, the *)
(* state transfer that serves it (UnsafeStateRecover, ListenStateTransfer) *)
(* and the recovery client that rebuilds a map from it (recovery/).        *)
(*                                                                         *)
(* A record is the length of a serialised command and then the command,    *)
(* in two writes.  A file is a sequence of cells: a "len" cell for a       *)
(* length, and Size(entry) "body" cells for a command, so that records of  *)
(* different sizes can fall out of step.  Two entries with the same index  *)
(* and command are the same bytes: the index is stored as the Id.          *)
(***************************************************************************)
EXTENDS KVReference, SequencesExt

CONSTANTS
  Nodes,              \* the replicas and loggers that keep a command log
  AdHoc,              \* the commands of Commands that come in the ad-hoc format
  MaxLog,             \* bound: entries a group commits
  MaxCrashes,         \* bound: processes that die
  MaxClusterRestarts  \* bound: restarts of the whole group

ASSUME LogAssumption ==
  AdHoc \subseteq Commands /\ {MaxLog, MaxCrashes, MaxClusterRestarts} \subseteq Nat

VARIABLES
  log,       \* the entries committed by the present Raft group
  up,        \* the nodes whose process runs
  applied,   \* applied[n]: entries n's state machine has gone through
  writing,   \* writing[n]: the length is written, the command is not
  file,      \* file[n]: the cells of the log file
  offset,    \* offset[n]: where the open file descriptor writes next
  crashes,   \* processes that died
  clusters,  \* restarts of the whole group
  installed  \* installed[n]: commands of the last transfer taken from n

logVars == <<log, up, applied, writing, file, offset, crashes, clusters, installed>>

\* A command, as serialised with the index of its log entry as Id.
Record == [idx: 1..MaxLog, cmd: Commands]

\* A set carries a value, and is longer.
Size(rec) == IF rec.cmd.op = "set" THEN 2 ELSE 1

LenCell(rec) == [kind |-> "len", n |-> Size(rec), rec |-> rec]
Cell == [kind: {"len", "body"}, n: 1..2, rec: Record]

Body(rec) == [i \in 1..Size(rec) |-> [kind |-> "body", n |-> i, rec |-> rec]]

CommandLogTypeOK ==
  /\ log \in Seq(Commands)
  /\ up \in SUBSET Nodes
  /\ applied \in [Nodes -> 0..MaxLog]
  /\ writing \in [Nodes -> BOOLEAN]
  /\ file \in [Nodes -> Seq(Cell)]
  /\ offset \in [Nodes -> Nat]
  /\ \A n \in Nodes : offset[n] <= Len(file[n])
  /\ crashes \in 0..MaxCrashes
  /\ clusters \in 0..MaxClusterRestarts
  /\ installed \in [Nodes -> Seq(Record)]

CommandLogInit ==
  /\ log = <<>>
  /\ up = Nodes
  /\ applied = [n \in Nodes |-> 0]
  /\ writing = [n \in Nodes |-> FALSE]
  /\ file = [n \in Nodes |-> <<>>]
  /\ offset = [n \in Nodes |-> 0]
  /\ crashes = 0
  /\ clusters = 0
  /\ installed = [n \in Nodes |-> <<>>]

-----------------------------------------------------------------------------
(* Writing the log. *)

\* Raft commits the next entry.
CommitEntry(cmd) ==
  /\ Len(log) < MaxLog
  /\ log' = Append(log, cmd)
  /\ UNCHANGED <<up, applied, writing, file, offset, crashes, clusters, installed>>

\* write(2) at the descriptor's offset: what was there is overwritten.
WriteAt(f, off, cells) ==
  [i \in 1..(IF off + Len(cells) > Len(f) THEN off + Len(cells) ELSE Len(f)) |->
     IF i \in off+1..off+Len(cells) THEN cells[i - off] ELSE f[i]]

WriteCells(n, cells) ==
  /\ file' = [file EXCEPT ![n] = WriteAt(@, offset[n], cells)]
  /\ offset' = [offset EXCEPT ![n] = @ + Len(cells)]

HasEntry(n) == n \in up /\ applied[n] < Len(log)

NextRecord(n) == [idx |-> applied[n] + 1, cmd |-> log[applied[n] + 1]]

\* An entry that does not unmarshal is not logged.
ApplySkips(n) ==
  /\ HasEntry(n)
  /\ NextRecord(n).cmd \in AdHoc
  /\ applied' = [applied EXCEPT ![n] = @ + 1]
  /\ UNCHANGED <<log, up, writing, file, offset, crashes, clusters, installed>>

\* Apply's first write: the length of the serialised command.
ApplyWritesLength(n) ==
  /\ HasEntry(n)
  /\ ~writing[n]
  /\ NextRecord(n).cmd \notin AdHoc
  /\ WriteCells(n, <<LenCell(NextRecord(n))>>)
  /\ writing' = [writing EXCEPT ![n] = TRUE]
  /\ UNCHANGED <<log, up, applied, crashes, clusters, installed>>

\* Mutant: the file keeps the length only, the error of the second write is lost.
ApplyWritesNothing(n) ==
  /\ HasEntry(n)
  /\ writing[n]
  /\ writing' = [writing EXCEPT ![n] = FALSE]
  /\ applied' = [applied EXCEPT ![n] = @ + 1]
  /\ UNCHANGED <<log, up, file, offset, crashes, clusters, installed>>

\* Apply's second write: the command.
ApplyWritesCommand(n) ==
  /\ HasEntry(n)
  /\ writing[n]
  /\ WriteCells(n, Body(NextRecord(n)))
  /\ writing' = [writing EXCEPT ![n] = FALSE]
  /\ applied' = [applied EXCEPT ![n] = @ + 1]
  /\ UNCHANGED <<log, up, crashes, clusters, installed>>

-----------------------------------------------------------------------------
(* Crashes and restarts. *)

\* The process is gone, between any two writes; the file stays.
Dies(n) ==
  /\ n \in up
  /\ crashes < MaxCrashes
  /\ crashes' = crashes + 1
  /\ up' = up \ {n}
  /\ writing' = [writing EXCEPT ![n] = FALSE]
  /\ UNCHANGED <<log, applied, file, offset, clusters>>

Crash(n) == Dies(n) /\ UNCHANGED installed

\* Mutant: the restarted process appends to the file.
RestartAppends(n) ==
  /\ n \notin up
  /\ up' = up \cup {n}
  /\ applied' = [applied EXCEPT ![n] = 0]
  /\ offset' = [offset EXCEPT ![n] = Len(file[n])]
  /\ UNCHANGED <<log, writing, file, crashes, clusters, installed>>

\* Mutant: createFile truncates the file that exists.
RestartTruncates(n) ==
  /\ n \notin up
  /\ up' = up \cup {n}
  /\ applied' = [applied EXCEPT ![n] = 0]
  /\ offset' = [offset EXCEPT ![n] = 0]
  /\ file' = [file EXCEPT ![n] = <<>>]
  /\ UNCHANGED <<log, writing, crashes, clusters, installed>>

\* Mutant: the file is truncated by another descriptor, whose offset stays.
RestartKeepsOffset(n) ==
  /\ n \notin up
  /\ up' = up \cup {n}
  /\ applied' = [applied EXCEPT ![n] = 0]
  /\ file' = [file EXCEPT ![n] = <<>>]
  /\ UNCHANGED <<log, writing, offset, crashes, clusters, installed>>

(***************************************************************************)
(* A process that starts again has an empty Raft log in memory, so that    *)
(* the leader sends it every entry from the first on; createFile opens the *)
(* file that exists for writing, neither truncating nor appending.         *)
(***************************************************************************)
Restart(n) ==
  /\ n \notin up
  /\ up' = up \cup {n}
  /\ applied' = [applied EXCEPT ![n] = 0]
  /\ offset' = [offset EXCEPT ![n] = 0]
  /\ UNCHANGED <<log, writing, file, crashes, clusters, installed>>

(***************************************************************************)
(* Every node goes down; the group that starts afterwards has an empty log *)
(* and new entries.                                                        *)
(***************************************************************************)
ClusterRestart ==
  /\ clusters < MaxClusterRestarts
  /\ clusters' = clusters + 1
  /\ log' = <<>>
  /\ up' = Nodes
  /\ applied' = [n \in Nodes |-> 0]
  /\ writing' = [n \in Nodes |-> FALSE]
  /\ offset' = [n \in Nodes |-> 0]
  /\ UNCHANGED <<file, crashes, installed>>

-----------------------------------------------------------------------------
(* State transfer and recovery. *)

(***************************************************************************)
(* InstallReceivedState reads records until one does not parse: the file   *)
(* ends, or the bytes after the length are not one whole command.  The     *)
(* function goes from a position in the file to the commands from there.   *)
(***************************************************************************)
WholeCommand(f, i) ==
  /\ f[i].kind = "len"
  /\ i + f[i].n <= Len(f)
  /\ \A k \in 1..f[i].n : f[i + k] = [kind |-> "body", n |-> k, rec |-> f[i + 1].rec]
  /\ Size(f[i + 1].rec) = f[i].n

ParsedFrom(f) ==
  LET from[i \in 1..Len(f) + 3] ==
        IF i > Len(f) THEN <<>>
        ELSE IF WholeCommand(f, i) THEN <<f[i + 1].rec>> \o from[i + 1 + f[i].n]
        ELSE <<>>
  IN from

Parsed(f) == ParsedFrom(f)[1]

\* Mutant: a key that is there already keeps its value.
InstallFirst(m, cmd) ==
  IF cmd.op = "set" /\ m[cmd.key] = Absent THEN [m EXCEPT ![cmd.key] = cmd.val] ELSE m

\* A set is applied, the rest is skipped.
Install(m, cmd) == IF cmd.op = "set" THEN [m EXCEPT ![cmd.key] = cmd.val] ELSE m

EmptyMap == [k \in Keys |-> Absent]

\* The map InstallReceivedState leaves.
InstalledMap(records) ==
  LET upTo[i \in 0..Len(records)] ==
        IF i = 0 THEN EmptyMap ELSE Install(upTo[i - 1], records[i].cmd)
  IN upTo[Len(records)]

\* A requester asks n for its log, from whatever index, and gets the whole file.
StateTransfer(n) ==
  /\ n \in up
  /\ installed' = [installed EXCEPT ![n] = Parsed(file[n])]
  /\ UNCHANGED <<log, up, applied, writing, file, offset, crashes, clusters>>

\* The requester is gone before the write: log.Fatalf ends the node's process.
StateTransferFails(n) == Dies(n) /\ UNCHANGED installed

-----------------------------------------------------------------------------
CommandLogNext ==
  \/ \E cmd \in Commands : CommitEntry(cmd)
  \/ \E n \in Nodes :
       \/ ApplySkips(n) \/ ApplyWritesLength(n) \/ ApplyWritesCommand(n)
       \/ Crash(n) \/ Restart(n)
       \/ StateTransfer(n) \/ StateTransferFails(n)
  \/ ClusterRestart

CommandLogSpec == CommandLogInit /\ [][CommandLogNext]_logVars

CommandLogFairSpec ==
  /\ CommandLogSpec
  /\ \A n \in Nodes : WF_logVars(ApplySkips(n) \/ ApplyWritesLength(n) \/ ApplyWritesCommand(n))
                      /\ WF_logVars(Restart(n))

-----------------------------------------------------------------------------
\* The records of the committed entries: those that are commands, in order.
Loggable(entries) ==
  LET upTo[i \in 0..Len(entries)] ==
        IF i = 0 THEN <<>>
        ELSE IF entries[i] \in AdHoc THEN upTo[i - 1]
        ELSE Append(upTo[i - 1], [idx |-> i, cmd |-> entries[i]])
  IN upTo[Len(entries)]

(***************************************************************************)
(* While a group lives, whatever crashes and restarts came between the two *)
(* writes of a record and while the file was written over again from its   *)
(* beginning, a log file parses to a prefix of the committed commands: no  *)
(* torn, stale or repeated record (Apply's writes, createFile,             *)
(* InstallReceivedState).                                                  *)
(***************************************************************************)
RecoversPrefix ==
  clusters = 0 => \A n \in Nodes : IsPrefix(Parsed(file[n]), Loggable(log))

(***************************************************************************)
(* A process that dies and replays its entries from the first on never     *)
(* makes its file lose a command: a transfer taken later has all that an   *)
(* earlier one had, as long as the group lives (createFile opens without   *)
(* O_TRUNC, and the records of an entry are the same bytes every time).    *)
(***************************************************************************)
NeverForgets ==
  [][clusters = 0 => \A n \in Nodes : IsPrefix(Parsed(file[n]), Parsed(file[n])')]_logVars

\* The reference map after some entries, from an empty map.
Reference(entries) ==
  LET upTo[i \in 0..Len(entries)] ==
        IF i = 0 THEN EmptyMap
        ELSE Exec(upTo[i - 1], [kind |-> IF entries[i] \in AdHoc THEN "adhoc" ELSE "proto", cmd |-> entries[i]])
  IN upTo[Len(entries)]

(***************************************************************************)
(* The map the recovery client installs from a transfer is the one the     *)
(* service had after the last entry in that transfer, but for the initial  *)
(* values: recovery/ does not initialise its map.                          *)
(***************************************************************************)
InstallsPastState ==
  clusters = 0 => \A n \in Nodes :
    LET last == IF installed[n] = <<>> THEN 0 ELSE Last(installed[n]).idx
    IN last <= Len(log) /\ InstalledMap(installed[n]) = Reference(SubSeq(log, 1, last))

(***************************************************************************)
(* What a running node's state machine has gone through is in its file, in *)
(* front of whatever is left there of earlier runs, even of an earlier     *)
(* group: Apply returns only after both writes.                            *)
(***************************************************************************)
AppliedIsLogged ==
  \A n \in up : IsPrefix(Loggable(SubSeq(log, 1, applied[n])), Parsed(file[n]))

(***************************************************************************)
(* In the end every node's file holds every command its group committed,   *)
(* however often it died on the way, unless the whole group went down.     *)
(***************************************************************************)
LogCompletes == \A n \in Nodes : <>[](clusters = 0 => Parsed(file[n]) = Loggable(log))
=============================================================================
