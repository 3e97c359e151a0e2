----------------------------- MODULE RaftGroup -----------------------------
(***************************************************************************)
(* hashicorp/raft as the replicas use it: who leads, who believes to lead, *)
(* and the sequence of committed entries.  Votes, terms and AppendEntries  *)
(* are left out; what the servers can observe of them is kept:             *)
(*   - a deposed leader goes on believing that it leads until it steps     *)
(*     down, and nothing it accepts meanwhile commits;                     *)
(*   - an entry whose leader failed before it committed may still be in    *)
(*     the log of the next leader, which then commits it, or be lost;      *)
(*   - electing and committing need a live majority.                       *)
(* The replicas have voted themselves a leader, the bootstrapped first     *)
(* one, and all have joined.                                               *)
(***************************************************************************)
EXTENDS ReplicaGroup, Sequences, FiniteSets

CONSTANTS
  None,          \* no leader
  MaxElections   \* bound: elections after the first

ASSUME RaftAssumption == None \notin Replicas /\ MaxElections \in Nat

VARIABLES
  alive,      \* the replicas whose process runs
  leader,     \* the leader of the latest term, or None
  believers,  \* the replicas with raft.State() = raft.Leader
  elections,  \* elections so far
  log,        \* the committed entries
  limbo       \* entries of failed leaders that a new leader may still commit

raftVars == <<alive, leader, believers, elections, log, limbo>>

\* Entries is the set of entries that the application proposes.
RaftTypeOK(Entries) ==
  /\ alive \in SUBSET Replicas
  /\ leader \in Replicas \cup {None}
  /\ believers \in SUBSET alive
  /\ elections \in Nat
  /\ log \in Seq(Entries)
  /\ limbo \in Seq(Entries)

RaftInit ==
  /\ alive = Replicas
  /\ leader = 1
  /\ believers = {1}
  /\ elections = 0
  /\ log = <<>>
  /\ limbo = <<>>

Majority == 2 * Cardinality(alive) > N

(***************************************************************************)
(* r wins an election.  orphans are the entries the leader it replaces had *)
(* in flight: r may or may not have them in its log.                       *)
(***************************************************************************)
RaftElect(r, orphans) ==
  /\ r \in alive \ believers
  /\ elections < MaxElections
  /\ Majority
  /\ leader' = r
  /\ believers' = believers \cup {r}
  /\ elections' = elections + 1
  /\ limbo' = limbo \o orphans
  /\ UNCHANGED <<alive, log>>

(***************************************************************************)
(* r finds a higher term, or has lost touch with its quorum, and becomes a *)
(* follower.  MaxElections bounds the second case too: a leader with a live*)
(* majority only gives up while there may be another election.             *)
(***************************************************************************)
RaftStepDown(r, orphans) ==
  /\ r \in believers
  /\ r = leader => elections < MaxElections \/ ~Majority
  /\ believers' = believers \ {r}
  /\ leader' = IF leader = r THEN None ELSE leader
  /\ limbo' = limbo \o orphans
  /\ UNCHANGED <<alive, elections, log>>

\* The process of r dies.
RaftDie(r, orphans) ==
  /\ alive' = alive \ {r}
  /\ believers' = believers \ {r}
  /\ leader' = IF leader = r THEN None ELSE leader
  /\ limbo' = limbo \o orphans
  /\ UNCHANGED <<elections, log>>

\* The process of r starts again, with its log on stable storage.
RaftRestart(r) ==
  /\ r \notin alive
  /\ alive' = alive \cup {r}
  /\ UNCHANGED <<leader, believers, elections, log, limbo>>

(***************************************************************************)
(* The leader commits an entry of its own term.  Whatever its log does not *)
(* hold of earlier terms is then overwritten everywhere.                   *)
(***************************************************************************)
RaftCommit(r, e) ==
  /\ r = leader
  /\ Majority
  /\ log' = Append(log, e)
  /\ limbo' = <<>>
  /\ UNCHANGED <<alive, leader, believers, elections>>

(***************************************************************************)
(* The leader has the i-th entry in limbo in its log and commits it, in    *)
(* front of any entry of its own term.  Earlier ones it does not have.     *)
(***************************************************************************)
RaftInherit(i) ==
  /\ leader \in alive
  /\ Majority
  /\ log' = Append(log, limbo[i])
  /\ limbo' = SubSeq(limbo, i + 1, Len(limbo))
  /\ UNCHANGED <<alive, leader, believers, elections>>
=============================================================================
