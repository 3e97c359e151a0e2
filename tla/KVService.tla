----------------------------- MODULE KVService -----------------------------
(***************************************************************************)
(* The replicated key-value service: the server loop, the sessions and     *)
(* Propose of kvstore/ (server.go, sessions.go, store.go), its state       *)
(* machine (KVFsm), the Raft group underneath (RaftGroup) and the clients  *)
(* that broadcast their requests to every replica (SeqClient).             *)
(*                                                                         *)
(* A replica has one Listen goroutine.  It takes a line from any session   *)
(* and runs HandleRequest, Propose and the wait for the future of          *)
(* raft.Apply before it takes the next one; serving[r] is where it is.     *)
(* A replica that dies stays dead: its Raft log was in memory, so a        *)
(* restarted process is a new replica that has to join.                    *)
(***************************************************************************)
EXTENDS KVFsm, SeqClient, RaftGroup

CONSTANTS
  MaxCrashes,  \* bound: replicas that die of a fault
  MaxLosses    \* bound: datagrams lost

ASSUME FaultAssumption == MaxCrashes \in Nat /\ MaxLosses \in Nat

VARIABLES
  serving,   \* serving[r]: the request in HandleRequest at r
  kv,        \* kv[r]: the map of r's Store
  applied,   \* applied[r]: entries r's state machine has applied
  panicked,  \* the replicas that Apply's panic killed
  crashes,   \* faults so far
  losses,    \* datagrams lost so far
  canon      \* ghost: canon[i+1] is the reference map after i entries

storeVars == <<serving, kv, applied, panicked>>
vars == <<clientVars, netVars, raftVars, storeVars, crashes, losses, canon>>

(***************************************************************************)
(* A request is "proposed" while the leader's future is open and its entry *)
(* uncommitted, "committed" at index idx until r's state machine gets      *)
(* there, and "applied" once the future has its response out.              *)
(***************************************************************************)
Serving == [st: {"idle", "proposed", "committed", "applied"},
            line: Line \cup {None}, idx: Nat, out: Seq(STRING)]

\* An entry: the line proposed, and the replica whose client session proposed it.
Entry == [line: Line, by: Replicas]

Idle == [st |-> "idle", line |-> None, idx |-> 0, out |-> NoResponse]

TypeOK ==
  /\ ClientTypeOK
  /\ RaftTypeOK(Entry)
  /\ serving \in [Replicas -> Serving]
  /\ \A r \in Replicas : serving[r].st # "idle" => serving[r].line \in Line
  /\ kv \in [Replicas -> Map]
  /\ applied \in [Replicas -> Nat]
  /\ panicked \in SUBSET Replicas
  /\ crashes \in Nat /\ losses \in Nat
  /\ canon \in Seq(Map) \ {<<>>}

Init ==
  /\ ClientInit
  /\ RaftInit
  /\ serving = [r \in Replicas |-> Idle]
  /\ kv = [r \in Replicas |-> New]
  /\ applied = [r \in Replicas |-> 0]
  /\ panicked = {}
  /\ crashes = 0 /\ losses = 0
  /\ canon = <<New>>

-----------------------------------------------------------------------------
(* The clients. *)

ClientCall(c, x) ==
  /\ Call(c, x)
  /\ UNCHANGED <<raftVars, storeVars, crashes, losses, canon>>

ClientWrite(c) ==
  /\ Write(c, alive)
  /\ UNCHANGED <<raftVars, storeVars, crashes, losses, canon>>

ClientWriteFails(c) ==
  /\ WriteFails(c, alive)
  /\ UNCHANGED <<raftVars, storeVars, crashes, losses, canon>>

ClientReadUDP(c) ==
  /\ ReadUDP(c)
  /\ UNCHANGED <<raftVars, storeVars, crashes, losses, canon>>

\* A datagram is lost.
LoseUDP(c) ==
  /\ losses < MaxLosses
  /\ \E m \in udp[c] : udp' = [udp EXCEPT ![c] = @ \ {m}]
  /\ losses' = losses + 1
  /\ UNCHANGED <<clientVars, tcp, raftVars, storeVars, crashes, canon>>

-----------------------------------------------------------------------------
(* A replica's sessions and server loop. *)

\* Session.Read skips a line of no more than the newline.
SessionSkip(r, c) ==
  /\ r \in alive
  /\ tcp[r][c] # <<>>
  /\ Head(tcp[r][c]).kind = "blank"
  /\ tcp' = [tcp EXCEPT ![r][c] = Tail(@)]
  /\ UNCHANGED <<clientVars, udp, raftVars, storeVars, crashes, losses, canon>>

\* Mutant: reads are answered from the local map, without going through Raft.
HandleRequestLocalGet(r, c) ==
  /\ r \in alive
  /\ serving[r].st = "idle"
  /\ tcp[r][c] # <<>>
  /\ tcp' = [tcp EXCEPT ![r][c] = Tail(@)]
  /\ serving' = IF r \in believers
                THEN [serving EXCEPT ![r] =
                        IF Head(tcp[r][c]).cmd.op = "get"
                        THEN [st |-> "applied", line |-> Head(tcp[r][c]), idx |-> applied[r],
                              out |-> applyGet(kv[r], Head(tcp[r][c]).cmd.key)]
                        ELSE [Idle EXCEPT !.st = "proposed", !.line = Head(tcp[r][c])]]
                ELSE serving
  /\ UNCHANGED <<clientVars, udp, raftVars, kv, applied, panicked, crashes, losses, canon>>

(***************************************************************************)
(* Listen takes the line that session c hands over, and HandleRequest      *)
(* proposes it.  A replica that does not believe to lead returns nil: the  *)
(* line is gone, and the client is told nothing.                           *)
(***************************************************************************)
HandleRequest(r, c) ==
  /\ r \in alive
  /\ serving[r].st = "idle"
  /\ tcp[r][c] # <<>>
  /\ Head(tcp[r][c]).kind # "blank"
  /\ tcp' = [tcp EXCEPT ![r][c] = Tail(@)]
  /\ serving' = IF r \in believers
                THEN [serving EXCEPT ![r] = [Idle EXCEPT !.st = "proposed", !.line = Head(tcp[r][c])]]
                ELSE serving
  /\ UNCHANGED <<clientVars, udp, raftVars, kv, applied, panicked, crashes, losses, canon>>

\* Mutant: a request without a result is not answered.
RespondToReadsOnly(r) ==
  /\ r \in alive
  /\ serving[r].st = "applied"
  /\ udp' = IF serving[r].out \in {NoResponse, EmptyStr} THEN udp
            ELSE [udp EXCEPT ![serving[r].line.from] =
                    @ \cup {[num |-> serving[r].line.num, idx |-> serving[r].idx,
                             text |-> ReplyText(serving[r].out)]}]
  /\ serving' = [serving EXCEPT ![r] = Idle]
  /\ UNCHANGED <<clientVars, tcp, raftVars, kv, applied, panicked, crashes, losses, canon>>

(***************************************************************************)
(* The future is resolved and Propose returns.  A string response goes to  *)
(* the client in a datagram; an error goes to the replica's own log only.  *)
(***************************************************************************)
Respond(r) ==
  /\ r \in alive
  /\ serving[r].st = "applied"
  /\ udp' = IF serving[r].out = NoResponse THEN udp
            ELSE [udp EXCEPT ![serving[r].line.from] =
                    @ \cup {[num |-> serving[r].line.num, idx |-> serving[r].idx,
                             text |-> ReplyText(serving[r].out)]}]
  /\ serving' = [serving EXCEPT ![r] = Idle]
  /\ UNCHANGED <<clientVars, tcp, raftVars, kv, applied, panicked, crashes, losses, canon>>

-----------------------------------------------------------------------------
(* Raft and the state machine. *)

\* The uncommitted entry the leader has in flight.
InFlight(r) ==
  IF r = leader /\ serving[r].st = "proposed"
  THEN <<[line |-> serving[r].line, by |-> r]>>
  ELSE <<>>

Elect(r) ==
  /\ RaftElect(r, IF leader = None THEN <<>> ELSE InFlight(leader))
  /\ UNCHANGED <<clientVars, netVars, storeVars, crashes, losses, canon>>

\* Mutant: Propose does not look at the future's error.
StepDownUnchecked(r) ==
  /\ RaftStepDown(r, InFlight(r))
  /\ serving' = IF serving[r].st = "proposed"
                THEN [serving EXCEPT ![r].st = "applied", ![r].out = EmptyStr]
                ELSE serving
  /\ UNCHANGED <<clientVars, netVars, kv, applied, panicked, crashes, losses, canon>>

\* Mutant: a request whose future fails goes back to the front of its queue.
StepDownRetries(r) ==
  /\ RaftStepDown(r, InFlight(r))
  /\ tcp' = IF serving[r].st = "proposed"
            THEN [tcp EXCEPT ![r][serving[r].line.from] = <<serving[r].line>> \o @]
            ELSE tcp
  /\ serving' = IF serving[r].st = "proposed" THEN [serving EXCEPT ![r] = Idle] ELSE serving
  /\ UNCHANGED <<clientVars, udp, kv, applied, panicked, crashes, losses, canon>>

(***************************************************************************)
(* A leader that steps down fails the futures of its uncommitted entries   *)
(* (ErrLeadershipLost); Propose returns the error, and nobody answers.  A  *)
(* committed entry keeps its future.                                       *)
(***************************************************************************)
StepDown(r) ==
  /\ RaftStepDown(r, InFlight(r))
  /\ serving' = IF serving[r].st = "proposed" THEN [serving EXCEPT ![r] = Idle] ELSE serving
  /\ UNCHANGED <<clientVars, netVars, kv, applied, panicked, crashes, losses, canon>>

Commit(r) ==
  /\ serving[r].st = "proposed"
  /\ RaftCommit(r, [line |-> serving[r].line, by |-> r])
  /\ serving' = [serving EXCEPT ![r].st = "committed", ![r].idx = Len(log) + 1]
  /\ canon' = Append(canon, Exec(canon[Len(canon)], serving[r].line))
  /\ UNCHANGED <<clientVars, netVars, kv, applied, panicked, crashes, losses>>

Inherit(i) ==
  /\ RaftInherit(i)
  /\ canon' = Append(canon, Exec(canon[Len(canon)], limbo[i].line))
  /\ UNCHANGED <<clientVars, netVars, storeVars, crashes, losses>>

\* Everything of the process that dies is lost with it.
Die(r) ==
  /\ RaftDie(r, InFlight(r))
  /\ tcp' = [tcp EXCEPT ![r] = [c \in Clients |-> <<>>]]
  /\ serving' = [serving EXCEPT ![r] = Idle]
  /\ UNCHANGED <<clientVars, udp, kv, applied, losses, canon>>

Crash(r) ==
  /\ r \in alive
  /\ crashes < MaxCrashes
  /\ crashes' = crashes + 1
  /\ Die(r)
  /\ UNCHANGED panicked

\* r's next committed entry, for its state machine.
NextLine(r) == log[applied[r] + 1].line

\* A deposed leader knows of no entry committed after its own.
HasNext(r) ==
  /\ r \in alive
  /\ applied[r] < Len(log)
  /\ r = leader \/ r \notin believers \/ applied[r] < serving[r].idx

\* Mutant: a replica executes only the requests it proposed itself.
FsmApplyOwn(r) ==
  /\ HasNext(r)
  /\ ~ApplyPanics(NextLine(r))
  /\ kv' = IF log[applied[r] + 1].by = r THEN [kv EXCEPT ![r] = ApplyMap(@, NextLine(r))] ELSE kv
  /\ applied' = [applied EXCEPT ![r] = @ + 1]
  /\ serving' = IF serving[r].st = "committed" /\ serving[r].idx = applied[r] + 1
                THEN [serving EXCEPT ![r].st = "applied",
                                     ![r].out = ApplyResponse(kv[r], NextLine(r))]
                ELSE serving
  /\ UNCHANGED <<clientVars, netVars, raftVars, panicked, crashes, losses, canon>>

(***************************************************************************)
(* The state machine goroutine applies the next committed entry and, at    *)
(* the replica that proposed it, resolves the future.                      *)
(***************************************************************************)
FsmApply(r) ==
  /\ HasNext(r)
  /\ ~ApplyPanics(NextLine(r))
  /\ kv' = [kv EXCEPT ![r] = ApplyMap(@, NextLine(r))]
  /\ applied' = [applied EXCEPT ![r] = @ + 1]
  /\ serving' = IF serving[r].st = "committed" /\ serving[r].idx = applied[r] + 1
                THEN [serving EXCEPT ![r].st = "applied",
                                     ![r].out = ApplyResponse(kv[r], NextLine(r))]
                ELSE serving
  /\ UNCHANGED <<clientVars, netVars, raftVars, panicked, crashes, losses, canon>>

\* Apply's default case: the panic ends the process.
FsmPanic(r) ==
  /\ HasNext(r)
  /\ ApplyPanics(NextLine(r))
  /\ panicked' = panicked \cup {r}
  /\ Die(r)
  /\ UNCHANGED crashes

-----------------------------------------------------------------------------
ClientNext(c) ==
  \/ \E x \in Commands : ClientCall(c, x)
  \/ ClientWrite(c)
  \/ ClientWriteFails(c)
  \/ ClientReadUDP(c)

ServerNext(r) ==
  \/ \E c \in Clients : SessionSkip(r, c) \/ HandleRequest(r, c)
  \/ Respond(r)
  \/ FsmApply(r)
  \/ FsmPanic(r)

RaftNext ==
  \/ \E r \in Replicas : Elect(r) \/ StepDown(r) \/ Commit(r) \/ Crash(r)
  \/ \E i \in DOMAIN limbo : Inherit(i)

Next ==
  \/ \E c \in Clients : ClientNext(c) \/ LoseUDP(c)
  \/ \E r \in Replicas : ServerNext(r)
  \/ RaftNext

Spec == Init /\ [][Next]_vars

(***************************************************************************)
(* Fairness.  Every goroutine that can run runs; a datagram in the buffer  *)
(* is read.  The sessions blocked on the unbuffered channel svr.incoming   *)
(* wait in a first-in first-out queue, so none waits forever while Listen  *)
(* goes round: strong fairness for each session.  A live leader with a     *)
(* majority commits, a deposed leader hears of the new term, and a group   *)
(* without a leader elects one.  Nothing forces faults, or the survival of *)
(* an entry in limbo.  Steps joined below exclude each other: each of them *)
(* stays enabled, and keeps the other disabled, until it is taken.         *)
(***************************************************************************)
Fairness ==
  /\ \A c \in Clients :
       WF_vars(ClientWrite(c) \/ ClientWriteFails(c)) /\ WF_vars(ClientReadUDP(c))
  /\ \A r \in Replicas :
       /\ \A c \in Clients : SF_vars(SessionSkip(r, c) \/ HandleRequest(r, c))
       /\ WF_vars(Commit(r) \/ Respond(r))
       /\ WF_vars(FsmApply(r) \/ FsmPanic(r))
       /\ WF_vars(r # leader /\ StepDown(r))
  /\ WF_vars(leader = None /\ \E r \in Replicas : Elect(r))

FairSpec == Spec /\ Fairness

-----------------------------------------------------------------------------
(* What holds whatever Raft's elections, the crashes and the losses do. *)

(***************************************************************************)
(* Replication: the map of a replica that has applied i entries is the     *)
(* reference map after i committed commands, so replicas that have applied *)
(* as much hold the same map (fsm.Apply, applySet, applyGet).              *)
(***************************************************************************)
StoreAgreement ==
  \A r \in Replicas : applied[r] <= Len(log) /\ kv[r] = canon[applied[r] + 1]

\* m answers, to c, the committed entry at m.idx with the reference's result.
AnswersCommit(c, m) ==
  /\ m.idx \in DOMAIN log
  /\ log[m.idx].line.from = c
  /\ log[m.idx].line.num = m.num
  /\ m.text = Result(canon[m.idx], log[m.idx].line)

(***************************************************************************)
(* No answer without a commit: every datagram Propose sends, and every     *)
(* reply a client reads, answers a committed request of that very client,  *)
(* with the whole result the request has at its place in the total order.  *)
(* (It is not so of a value with a dash: ReplyText.)                       *)
(***************************************************************************)
ReplyIsCommitted ==
  \A c \in Clients :
    /\ \A m \in udp[c] : AnswersCommit(c, m)
    /\ heard[c] # NoReply => AnswersCommit(c, heard[c])

(***************************************************************************)
(* One replica never commits a request twice, nor a client's requests out  *)
(* of order: Listen, HandleRequest and Propose handle a session's lines    *)
(* one at a time, whatever terms the replica leads in.  The copies of a    *)
(* request in the log therefore all come from different replicas.          *)
(***************************************************************************)
ProposerOrder ==
  \A i, j \in DOMAIN log :
    i < j /\ log[i].by = log[j].by /\ log[i].line.from = log[j].line.from
      => log[i].line.num < log[j].line.num

(***************************************************************************)
(* The client is sequential: when it goes on to its next request, the      *)
(* reply it has read is the one to the request before                      *)
(* (client/seqClient.go: "sending new msgs just after receiving their      *)
(* reponse").                                                              *)
(***************************************************************************)
SequentialClient ==
  \A c \in Clients : phase[c] = "idle" /\ c \notin TextClients => heard[c].num = num[c]

(***************************************************************************)
(* It is so until the first leader loses the lead, whatever followers die  *)
(* and datagrams get lost: only its copy of a request is proposed, so that *)
(* no second reply is under way when the client goes on.                   *)
(***************************************************************************)
SequentialUnderFirst == leader = 1 /\ elections = 0 => SequentialClient

\* Replica r has gone through the i-th entry, or has died of it.
WentThrough(r, i) == i <= applied[r] \/ (r \in panicked /\ i = applied[r] + 1)

\* The i-th entry, a request in the format f, is about k and has the operation op.
Requests(i, f, op, k) == log[i].line.kind = f /\ log[i].line.cmd.op = op /\ log[i].line.cmd.key = k

\* A request in the format f to delete k, after which nobody has set k.
DeletedBy(r, f, k) ==
  \E i \in DOMAIN log :
    /\ Requests(i, f, "delete", k) /\ WentThrough(r, i)
    /\ \A j \in DOMAIN log, g \in {"proto", "adhoc"} : Requests(j, g, "set", k) => j < i

(***************************************************************************)
(* A committed delete removes the key.  README.md offers it twice: "Applies*)
(* received "get", "set" and "delete" operations on a regular map", and as *)
(* "delete-[key]" in "the ad-hoc format described bellow".  The property   *)
(* only asks it of keys that were deleted in both formats, so that what    *)
(* violates it shows that neither does.                                    *)
(***************************************************************************)
DeletedIsGone ==
  \A r \in Replicas, k \in Keys :
    (\A f \in {"proto", "adhoc"} : DeletedBy(r, f, k)) => kv[r][k] = Absent

-----------------------------------------------------------------------------
(* What holds while the first leader stays: MaxElections = MaxCrashes = 0,   *)
(* MaxLosses = 0, no deletes and no dash in a value.                         *)

\* c's current request has its place in the total order.
Ordered(c) == \E i \in DOMAIN log : log[i].line.from = c /\ log[i].line.num = num[c]

IndexOf(c) == CHOOSE i \in DOMAIN log : log[i].line.from = c /\ log[i].line.num = num[c]

\* The clients that speak protobuf.
Generators == Clients \ TextClients

Atomic == INSTANCE AtomicKV WITH
  Clients <- Generators,
  mem <- canon[Len(canon)],
  stage <- [c \in Generators |-> IF phase[c] = "idle" THEN "idle"
                                ELSE IF Ordered(c) THEN "done" ELSE "called"],
  call <- [c \in Generators |-> cmd[c]],
  res <- [c \in Generators |-> IF phase[c] # "idle" /\ Ordered(c)
                              THEN Result(canon[IndexOf(c)], log[IndexOf(c)].line)
                              ELSE heard[c].text]

(***************************************************************************)
(* The service is a linearizable map: with a stable leader, the broadcast  *)
(* to all replicas, the filtering of Propose, Raft's order, the state      *)
(* machine and the datagram back to the client together implement AtomicKV *)
(* for the clients that speak protobuf, with the commit as the moment a    *)
(* call takes effect; what the others send changes nothing.                *)
(***************************************************************************)
ImplementsAtomicKV == Atomic!AtomicSpec

(***************************************************************************)
(* Nobody waits forever: every broadcast ends, the leader's Listen loop    *)
(* gets round to every session, and the client's ReadUDP returns; a        *)
(* session whose ad-hoc client waits in vain does not hold up the others.  *)
(***************************************************************************)
EveryCallReturns == \A c \in Generators : phase[c] # "idle" ~> phase[c] = "idle"
=============================================================================
