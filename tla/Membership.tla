----------------------------- MODULE Membership -----------------------------
(***************************************************************************)
(* How processes start, join and rejoin the group: main() and StartRaft of *)
(* kvstore and logger, ListenRaftJoins and JoinRaft of kvstore/store.go.   *)
(* diskstorage/ has the same text, but for the names of its packages.      *)
(*                                                                         *)
(* The pod First is the "leader" pod of a deployment: it bootstraps the    *)
(* group and is the only one that listens for join requests.  The others   *)
(* send it one request when they start.  The log, term and vote of a       *)
(* process are in memory and go with it; its address and its name, made    *)
(* from the address or drawn from an unseeded generator, do not change.    *)
(*                                                                         *)
(* Raft is an exchange of whole logs.  An entry carries the configuration  *)
(* in force, and perhaps a client's command.                               *)
(***************************************************************************)
EXTENDS Naturals, FiniteSets, SequencesExt

CONSTANTS
  Pods,          \* the processes, one to a pod: also their addresses
  First,         \* the pod whose name contains "leader"
  Loggers,       \* the pods that run logger/: they join as nonvoters
  NameOf,        \* NameOf[p]: "node" and the last part of p's address
  LoggerName,    \* "log" and the first number of the unseeded generator
  Cmds,          \* the commands clients send
  None,
  StartsAfter,   \* environment: StartsAfter[p]: the pods that p's process waits for
  Faulty,        \* environment: the pods that faults strike
  Restarting,    \* environment: the pods whose process is started again
  MaxTerm,       \* bound: terms
  MaxCrashes,    \* bound: faults
  MaxRestarts    \* bound: processes started again

ASSUME MembershipAssumption ==
  /\ IsFiniteSet(Pods) /\ First \in Pods /\ Loggers \subseteq Pods \ {First} /\ Faulty \cup Restarting \subseteq Pods
  /\ DOMAIN NameOf = Pods
  /\ None \notin Cmds \cup Pods
  /\ StartsAfter \in [Pods -> SUBSET Pods]
  /\ {MaxTerm, MaxCrashes, MaxRestarts} \subseteq Nat /\ MaxTerm > 0

VARIABLES
  st,        \* st[p]: "fresh", "down", "booting", "raft" (set up) or "up" (join sent)
  log,       \* log[p]: Raft's log
  term,      \* term[p]: Raft's term
  commit,    \* commit[p]: the commit index p knows as a leader
  lead,      \* the processes with raft.State() = raft.Leader
  joins,     \* connections to First's listener, by the pod that sent the request
  handling,  \* the request in JoinRaft, or None
  committed, \* ghost: the logs that leaders found committed
  crashes,   \* faults so far
  restarts   \* the pods whose process was started again, in order

raftVars == <<log, term, commit, lead>>
vars == <<st, log, term, commit, lead, joins, handling, committed, crashes, restarts>>

Name(p) == IF p \in Loggers THEN LoggerName ELSE NameOf[p]

\* What p asks for in its join request, and its entry in the configuration.
Member(p) == [id |-> Name(p), addr |-> p, voter |-> p \notin Loggers]
Members == {Member(p) : p \in Pods}

Entry == [term: 1..MaxTerm, conf: SUBSET Members, cmd: Cmds \cup {None}]
Handling == [pod: Pods, todo: SUBSET Members, idx: Nat]

TypeOK ==
  /\ st \in [Pods -> {"fresh", "down", "booting", "raft", "up"}]
  /\ log \in [Pods -> Seq(Entry)]
  /\ term \in [Pods -> 0..MaxTerm]
  /\ commit \in [Pods -> Nat]
  /\ lead \in SUBSET Pods
  /\ joins \in Seq(Pods \ {First})
  /\ handling \in Handling \cup {None}
  /\ committed \in SUBSET Seq(Entry)
  /\ crashes \in 0..MaxCrashes
  /\ restarts \in Seq(Restarting) /\ Len(restarts) <= MaxRestarts

Init ==
  /\ st = [p \in Pods |-> "fresh"]
  /\ log = [p \in Pods |-> <<>>]
  /\ term = [p \in Pods |-> 0]
  /\ commit = [p \in Pods |-> 0]
  /\ lead = {}
  /\ joins = <<>>
  /\ handling = None
  /\ committed = {}
  /\ crashes = 0
  /\ restarts = <<>>

Up == {p \in Pods : st[p] \in {"raft", "up"}}
Conf(p) == IF log[p] = <<>> THEN {} ELSE Last(log[p]).conf
Voters(p) == {m.addr : m \in {x \in Conf(p) : x.voter}}

\* The majorities of p's voters that run.
Quorums(p) == {Q \in SUBSET (Voters(p) \cap Up) : 2 * Cardinality(Q) > Cardinality(Voters(p))}

-----------------------------------------------------------------------------
(* Processes. *)

\* First leads, or another pod has sent its join request.
Settled(p) == IF p = First THEN First \in lead ELSE st[p] = "up"

\* The process of p starts.  New() of the first pod opens the join listener.
Boot(p) ==
  /\ st[p] \in {"fresh", "down"}
  /\ st[p] = "down" => p \in Restarting /\ Len(restarts) < MaxRestarts
  /\ \A q \in StartsAfter[p] : Settled(q)
  /\ restarts' = IF st[p] = "down" THEN Append(restarts, p) ELSE restarts
  /\ st' = [st EXCEPT ![p] = "booting"]
  /\ UNCHANGED <<raftVars, joins, handling, committed, crashes>>

\* Mutant: every process bootstraps a group.
StartRaftAlways(p) ==
  /\ st[p] = "booting"
  /\ st' = [st EXCEPT ![p] = "raft"]
  /\ log' = [log EXCEPT ![p] = <<[term |-> 1, conf |-> {Member(p)}, cmd |-> None]>>]
  /\ term' = [term EXCEPT ![p] = 1]
  /\ UNCHANGED <<commit, lead, joins, handling, committed, crashes, restarts>>

(***************************************************************************)
(* StartRaft, with enableSingle iff the process found no other address to  *)
(* join.  BootstrapCluster looks for peers in the process' own stores,     *)
(* which are new and empty.                                                *)
(***************************************************************************)
StartRaft(p) ==
  /\ st[p] = "booting"
  /\ st' = [st EXCEPT ![p] = "raft"]
  /\ IF p = First
     THEN /\ log' = [log EXCEPT ![p] = <<[term |-> 1, conf |-> {Member(p)}, cmd |-> None]>>]
          /\ term' = [term EXCEPT ![p] = 1]
     ELSE UNCHANGED <<log, term>>
  /\ UNCHANGED <<commit, lead, joins, handling, committed, crashes, restarts>>

\* Mutant: the first process asks itself to join.
SendJoinAlways(p) ==
  /\ st[p] = "raft"
  /\ st[First] \in {"booting", "raft"}
  /\ st' = [st EXCEPT ![p] = "up"]
  /\ joins' = Append(joins, p)
  /\ UNCHANGED <<raftVars, handling, committed, crashes, restarts>>

(***************************************************************************)
(* sendJoinRequest: connect, write, close.  While First does not listen    *)
(* the process ends and is started again, which comes to waiting here.     *)
(***************************************************************************)
SendJoin(p) ==
  /\ p # First
  /\ st[p] = "raft"
  /\ st[First] \in {"booting", "raft"}
  /\ st' = [st EXCEPT ![p] = "up"]
  /\ joins' = Append(joins, p)
  /\ UNCHANGED <<raftVars, handling, committed, crashes, restarts>>

\* The process of p ends, and all it held is gone.
Die(p) ==
  /\ st' = [st EXCEPT ![p] = "down"]
  /\ log' = [log EXCEPT ![p] = <<>>]
  /\ term' = [term EXCEPT ![p] = 0]
  /\ commit' = [commit EXCEPT ![p] = 0]
  /\ lead' = lead \ {p}
  /\ joins' = IF p = First THEN <<>> ELSE joins
  /\ handling' = IF p = First THEN None ELSE handling

\* A fault, of those that a group with a leader is to survive.
Crash(p) ==
  /\ p \in Up \cap Faulty
  /\ crashes < MaxCrashes
  /\ lead # {}
  /\ \A l \in lead : \E Q \in Quorums(l) : p \notin Q
  /\ Die(p)
  /\ crashes' = crashes + 1
  /\ UNCHANGED <<committed, restarts>>

-----------------------------------------------------------------------------
(* Raft. *)

LastTerm(l) == IF l = <<>> THEN 0 ELSE Last(l).term

AtLeastAsNew(l, m) ==
  LastTerm(l) > LastTerm(m) \/ (LastTerm(l) = LastTerm(m) /\ Len(l) >= Len(m))

\* p wins the votes of Q, appends an empty entry and begins to lead.
BecomeLeader(p, Q) ==
  /\ p \in Up \ lead
  /\ Q \in Quorums(p)
  /\ p \in Q /\ Q \cap lead = {}
  /\ \A q \in Q : AtLeastAsNew(log[p], log[q])
  /\ LET t == 1 + CHOOSE x \in {term[q] : q \in Q} : \A q \in Q : term[q] <= x
     IN  /\ t <= MaxTerm
         /\ term' = [q \in Pods |-> IF q \in Q THEN t ELSE term[q]]
         /\ log' = [log EXCEPT ![p] = Append(@, [term |-> t, conf |-> Conf(p), cmd |-> None])]
  /\ lead' = lead \cup {p}
  /\ UNCHANGED <<st, commit, joins, handling, committed, crashes, restarts>>

(***************************************************************************)
(* p has heard of a newer leader, or not heard from its quorum; while that *)
(* runs, another term is possible.                                         *)
(***************************************************************************)
StepDown(p) ==
  /\ p \in lead
  /\ Quorums(p) = {} \/ (Voters(p) # {p} /\ term[p] < MaxTerm)
  /\ lead' = lead \ {p}
  /\ UNCHANGED <<st, log, term, commit, joins, handling, committed, crashes, restarts>>

Propose(p, c) ==
  /\ p \in lead
  /\ \A q \in Pods : \A i \in DOMAIN log[q] : log[q][i].cmd # c
  /\ \A l \in committed : \A i \in DOMAIN l : l[i].cmd # c
  /\ log' = [log EXCEPT ![p] = Append(@, [term |-> term[p], conf |-> Conf(p), cmd |-> c])]
  /\ UNCHANGED <<st, term, commit, lead, joins, handling, committed, crashes, restarts>>

\* The leader p brings the log of a member q in line with its own.
CatchUp(p, q) ==
  /\ p \in lead
  /\ q \in Up \ {p}
  /\ \E m \in Conf(p) : m.addr = q
  /\ term[q] <= term[p] /\ (q \in lead => term[q] < term[p])
  /\ log[q] # log[p]
  /\ log' = [log EXCEPT ![q] = log[p]]
  /\ term' = [term EXCEPT ![q] = term[p]]
  /\ lead' = lead \ {q}
  /\ UNCHANGED <<st, commit, joins, handling, committed, crashes, restarts>>

(***************************************************************************)
(* A majority has the leader's log.  A leader that has removed itself      *)
(* stops leading: ShutdownOnRemove is raft's default.                      *)
(***************************************************************************)
AdvanceCommit(p) ==
  /\ p \in lead
  /\ commit[p] < Len(log[p])
  /\ LastTerm(log[p]) = term[p]
  /\ \E Q \in Quorums(p) : \A q \in Q : log[q] = log[p]
  /\ commit' = [commit EXCEPT ![p] = Len(log[p])]
  /\ committed' = committed \cup {log[p]}
  /\ lead' = IF \E m \in Conf(p) : m.addr = p THEN lead ELSE lead \ {p}
  /\ UNCHANGED <<st, log, term, joins, handling, crashes, restarts>>

-----------------------------------------------------------------------------
(* ListenRaftJoins and JoinRaft, one request at a time. *)

SameNode(m, p) == m.id = Name(p) /\ m.addr = p

\* Mutant: a node that is a member already is not passed over.
HandleJoinAgain(p) ==
  /\ joins # <<>> /\ p = Head(joins)
  /\ handling = None
  /\ First \in Up
  /\ joins' = Tail(joins)
  /\ handling' = [pod |-> p, todo |-> {m \in Conf(First) : m.id = Name(p) \/ m.addr = p}, idx |-> 0]
  /\ UNCHANGED <<st, raftVars, committed, crashes, restarts>>

(***************************************************************************)
(* JoinRaft reads the configuration.  A node with this name and address    *)
(* needs nothing; one with either is to be removed first.                  *)
(***************************************************************************)
HandleJoin(p) ==
  /\ joins # <<>> /\ p = Head(joins)
  /\ handling = None
  /\ First \in Up
  /\ joins' = Tail(joins)
  /\ handling' =
       IF \E m \in Conf(First) : SameNode(m, p) THEN None
       ELSE [pod |-> p, todo |-> {m \in Conf(First) : m.id = Name(p) \/ m.addr = p}, idx |-> 0]
  /\ UNCHANGED <<st, raftVars, committed, crashes, restarts>>

\* The listener is up before StartRaft has set s.raft: JoinRaft dereferences nil.
HandleJoinTooEarly ==
  /\ joins # <<>>
  /\ st[First] = "booting"
  /\ Die(First)
  /\ UNCHANGED <<committed, crashes, restarts>>

\* What Raft makes of AddVoter or AddNonvoter.
WithMember(conf, m) == {x \in conf : x.id # m.id} \cup {m}

\* The leader takes one change at a time, after an entry of its own term.
MayChange == commit[First] \in DOMAIN log[First]
             /\ log[First][commit[First]].term = term[First]
             /\ log[First][commit[First]].conf = Conf(First)

AppendConf(conf) ==
  /\ First \in lead
  /\ MayChange
  /\ log' = [log EXCEPT ![First] = Append(@, [term |-> term[First], conf |-> conf, cmd |-> None])]
  /\ handling' = [handling EXCEPT !.idx = Len(log[First]) + 1]
  /\ UNCHANGED <<st, term, commit, lead, joins, committed, crashes, restarts>>

\* Raft refuses a configuration without voters.
LeavesVoters(m) == \E x \in Conf(First) : x.voter /\ x.id # m.id

RemoveServer(m) ==
  /\ handling # None /\ handling.idx = 0
  /\ m \in handling.todo
  /\ LeavesVoters(m)
  /\ AppendConf({x \in Conf(First) : x.id # m.id})

AddServer ==
  /\ handling # None /\ handling.idx = 0
  /\ handling.todo = {}
  /\ AppendConf(WithMember(Conf(First), Member(handling.pod)))

\* The future of a change is resolved.
ChangeDone ==
  /\ handling # None /\ handling.idx > 0
  /\ commit[First] >= handling.idx
  /\ handling' = IF handling.todo = {} THEN None
                 ELSE [handling EXCEPT !.todo = {m \in @ : m \in Conf(First)}, !.idx = 0]
  /\ UNCHANGED <<st, raftVars, joins, committed, crashes, restarts>>

(***************************************************************************)
(* A change is refused, or its future fails, because First does not lead   *)
(* any more, or because First would remove itself, the only voter:         *)
(* log.Fatalf ends the process.                                            *)
(***************************************************************************)
JoinFails ==
  /\ handling # None
  /\ \/ First \notin lead /\ (handling.idx = 0 \/ commit[First] < handling.idx)
     \/ First \in lead /\ handling.idx = 0 /\ \E m \in handling.todo : ~LeavesVoters(m)
  /\ Die(First)
  /\ UNCHANGED <<committed, crashes, restarts>>

JoinSteps ==
  \/ \E p \in Pods : HandleJoin(p)
  \/ HandleJoinTooEarly
  \/ \E m \in Members : RemoveServer(m)
  \/ AddServer
  \/ ChangeDone
  \/ JoinFails

Elect == \E p \in Pods : \E Q \in Quorums(p) : BecomeLeader(p, Q)

Next ==
  \/ \E p \in Pods : Boot(p) \/ StartRaft(p) \/ SendJoin(p) \/ Crash(p)
  \/ Elect
  \/ \E p \in Pods : StepDown(p) \/ AdvanceCommit(p)
  \/ \E p \in Pods, c \in Cmds : Propose(p, c)
  \/ \E p, q \in Pods : CatchUp(p, q)
  \/ JoinSteps

Spec == Init /\ [][Next]_vars

(***************************************************************************)
(* Processes get on with what they do, and Kubernetes starts them again.   *)
(* A group without a leader elects one.                                    *)
(***************************************************************************)
Fairness ==
  /\ \A p \in Pods : WF_vars(Boot(p)) /\ WF_vars(StartRaft(p)) /\ WF_vars(SendJoin(p))
  /\ \A p \in Pods : WF_vars(AdvanceCommit(p))
  /\ \A p, q \in Pods : WF_vars(CatchUp(p, q))
  /\ WF_vars(Elect /\ lead = {})
  /\ WF_vars(JoinSteps)

FairSpec == Spec /\ Fairness

-----------------------------------------------------------------------------
(* Properties. *)

(***************************************************************************)
(* Nothing committed is ever lost: whoever leads in the term that committed*)
(* a log, or later, has this log, with its commands and its changes of the *)
(* membership.  deploys/README.md deploys "Respecting the replication      *)
(* factor of 2f + 1 replicas", and has a container that crashed            *)
(* "automatically restarted by Kube": Crash takes down f at a time, and    *)
(* Boot starts them again.                                                 *)
(***************************************************************************)
FaultsAreTolerated ==
  \A c \in committed, p \in lead : term[p] >= LastTerm(c) => IsPrefix(c, log[p])

(***************************************************************************)
(* It is so of replicas whose processes, once they end, do not come back:  *)
(* a store's log, term and vote are in memory (kvstore/store.go:           *)
(* NewInmemStore), and until the first restart of a replica every majority *)
(* of those that run still remembers.  Loggers have no vote and may return.*)
(***************************************************************************)
ReplicasStayAway == \A i \in DOMAIN restarts : restarts[i] \in Loggers

CommittedSurvive == ReplicasStayAway => FaultsAreTolerated

(***************************************************************************)
(* JoinRaft takes a node out of the configuration only for another node    *)
(* that has its name or its address, and has asked to join; a node that    *)
(* asks again, after a restart, is never taken out.                        *)
(***************************************************************************)
ByNamesake(m) ==
  /\ handling # None
  /\ ~SameNode(m, handling.pod)
  /\ m.id = Name(handling.pod) \/ m.addr = handling.pod

FirstKeepsLeading == First \in lead /\ First \in lead'

OnlyNamesakesRemove ==
  [][FirstKeepsLeading => \A m \in Conf(First) \ Conf(First)' : ByNamesake(m)]_vars

(***************************************************************************)
(* deploys/README.md: "the follower sends a *join* request in order to     *)
(* establish connection, and so participate on the consensus quorum."      *)
(* Every process that has sent its request becomes a member, a replica as  *)
(* a voter and a logger not (JoinRaft).                                    *)
(***************************************************************************)
Participates(p) == \E l \in lead : Member(p) \in Conf(l)

JoinersParticipate ==
  \A p \in Pods \ {First} : st[p] = "up" ~> (st[p] # "up" \/ Participates(p))
=============================================================================
