---------------------------- MODULE RaftPipeline ----------------------------
(***************************************************************************)
(* A Raft group whose leader has any number of proposals in flight: the    *)
(* applications that call raft.Apply from several goroutines, or without   *)
(* waiting for its future.                                                 *)
(***************************************************************************)
EXTENDS RaftGroup

VARIABLES
  flight,  \* flight[r]: what r has accepted as leader and not committed, in order
  known    \* known[r]: the commit index r had when it last led

pipeVars == <<raftVars, flight, known>>

PipeTypeOK(Entries) ==
  /\ RaftTypeOK(Entries)
  /\ flight \in [Replicas -> Seq(Entries)]
  /\ known \in [Replicas -> Nat]

PipeInit ==
  /\ RaftInit
  /\ flight = [r \in Replicas |-> <<>>]
  /\ known = [r \in Replicas |-> 0]

\* What is lost with r, or inherited from it; a deposed leader's are lost already.
Orphans(r) == IF r = leader THEN flight[r] ELSE <<>>

\* raft.Apply at a replica in state raft.Leader.
PipeAccept(r, e) ==
  /\ flight' = [flight EXCEPT ![r] = Append(@, e)]
  /\ UNCHANGED <<raftVars, known>>

PipeElect(r) ==
  /\ RaftElect(r, IF leader = None THEN <<>> ELSE flight[leader])
  /\ known' = [known EXCEPT ![r] = Len(log)]
  /\ UNCHANGED flight

\* The futures of everything in flight fail (ErrLeadershipLost).
PipeStepDown(r) ==
  /\ RaftStepDown(r, Orphans(r))
  /\ flight' = [flight EXCEPT ![r] = <<>>]
  /\ UNCHANGED known

PipeDie(r) ==
  /\ RaftDie(r, Orphans(r))
  /\ flight' = [flight EXCEPT ![r] = <<>>]
  /\ UNCHANGED known

\* The leader commits its oldest entry in flight.
PipeCommit(r) ==
  /\ flight[r] # <<>>
  /\ RaftCommit(r, Head(flight[r]))
  /\ flight' = [flight EXCEPT ![r] = Tail(@)]
  /\ known' = [known EXCEPT ![r] = Len(log) + 1]

PipeInherit(i) ==
  /\ RaftInherit(i)
  /\ known' = [known EXCEPT ![leader] = Len(log) + 1]
  /\ UNCHANGED flight

(***************************************************************************)
(* The entries r knows to be committed.  A deposed leader that has not     *)
(* noticed knows of none but those of its time; a follower learns of all.  *)
(***************************************************************************)
CommitIndex(r) == IF r \in believers THEN known[r] ELSE Len(log)
=============================================================================
