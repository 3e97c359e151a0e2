------------------------------ MODULE WebStore ------------------------------
(***************************************************************************)
(* The key-value store behind HTTP of webkvstore/: the handlers of         *)
(* service.go, the Store and its state machine, over a Raft group.         *)
(*                                                                         *)
(* A client sends a request to a node of its choice and waits for the      *)
(* answer; net/http runs each request in a goroutine of its own.  A write  *)
(* is a raft.Apply whose future the handler waits for; a read is a lookup  *)
(* in the node's own map.  With -inmem=false a node that died restarts     *)
(* from its Raft log and its latest snapshot.                              *)
(***************************************************************************)
EXTENDS RaftPipeline

CONSTANTS
  Clients,      \* the HTTP clients
  Keys, Vals,   \* keys and values; no value is the empty string
  EmptyString,  \* what a Get of an absent key returns
  Requests,     \* the requests sent: a subset of Request
  MaxReq,       \* bound: requests per client
  MaxCrashes,   \* bound: nodes that die
  MaxRestarts,  \* bound: restarts of a node; 0 with -inmem=true
  MaxSnapshots  \* bound: snapshots taken

Methods == {"GET", "POST", "DELETE"}

\* A map from some of the keys: the body of a POST, or the one key of the others.
Body == UNION {[K -> Vals \cup {EmptyString}] : K \in SUBSET Keys}

Request == [method: Methods, body: Body]

ASSUME WebAssumption ==
  /\ Keys # {} /\ EmptyString \notin Vals
  /\ Requests \subseteq Request
  /\ \A q \in Requests :
       q.body # <<>> /\ (q.method # "POST" => \E k \in Keys : DOMAIN q.body = {k})
  /\ MaxReq \in Nat /\ MaxCrashes \in Nat /\ MaxRestarts \in Nat /\ MaxSnapshots \in Nat

VARIABLES
  req,        \* req[c]: the handler of c's request
  answers,    \* answers[c]: c's requests that are over, with their outcome
  m,          \* m[r]: the map of r's Store
  applied,    \* applied[r]: the index r's state machine has got to
  cloned,     \* cloned[r]: the snapshot r is about to persist
  saved,      \* saved[r]: the latest snapshot in r's RaftDir
  crashes, snapshots,  \* how many there were
  run,        \* run[r]: restarts of r
  canon       \* ghost: canon[i+1] is the map after i entries

webVars == <<req, answers>>
storeVars == <<m, applied, cloned, saved>>
countVars == <<crashes, snapshots, run>>
vars == <<webVars, storeVars, countVars, canon, pipeVars>>

\* A Get does not tell an absent key from an empty value, and neither does this map.
Map == [Keys -> Vals \cup {EmptyString}]
NewMap == [k \in Keys |-> EmptyString]

(***************************************************************************)
(* A handler is about to make its next call ("ready"), or waits for the    *)
(* future of the command for key, which is committed at idx once idx # 0.  *)
(* todo holds what is still to be written; again marks the second Delete.  *)
(***************************************************************************)
Handler == [st: {"idle", "ready", "waiting"}, node: Replicas, method: Methods,
            body: Body, todo: SUBSET Keys, key: Keys, again: BOOLEAN, idx: Nat]

NoHandler == [st |-> "idle", node |-> 1, method |-> "GET", body |-> <<>>, todo |-> {},
              key |-> CHOOSE k \in Keys : TRUE, again |-> FALSE, idx |-> 0]

\* A command, with the client and the request it is for.
Entry == [op: {"set", "delete"}, key: Keys, val: Vals \cup {EmptyString},
          from: Clients, num: Nat, by: Replicas]

(***************************************************************************)
(* The outcome of a request: a status, or "broken" if the node died.  node,*)
(* its run, and the entries it had applied at the time are ghosts.         *)
(***************************************************************************)
Answer == [method: Methods, body: Body, status: {"200", "500", "broken"},
           node: Replicas, run: Nat, at: Nat]

Snapshot == [idx: Nat, map: Map]
NoSnapshot == [idx |-> 0, map |-> NewMap]

TypeOK ==
  /\ PipeTypeOK(Entry)
  /\ req \in [Clients -> Handler]
  /\ answers \in [Clients -> Seq(Answer)]
  /\ m \in [Replicas -> Map]
  /\ applied \in [Replicas -> Nat]
  /\ cloned \in [Replicas -> Snapshot]
  /\ saved \in [Replicas -> Snapshot]
  /\ crashes \in Nat /\ snapshots \in Nat
  /\ run \in [Replicas -> Nat]
  /\ canon \in Seq(Map) \ {<<>>}

Init ==
  /\ PipeInit
  /\ req = [c \in Clients |-> NoHandler]
  /\ answers = [c \in Clients |-> <<>>]
  /\ m = [r \in Replicas |-> NewMap]
  /\ applied = [r \in Replicas |-> 0]
  /\ cloned = [r \in Replicas |-> NoSnapshot]
  /\ saved = [r \in Replicas |-> NoSnapshot]
  /\ crashes = 0 /\ snapshots = 0
  /\ run = [r \in Replicas |-> 0]
  /\ canon = <<NewMap>>

-----------------------------------------------------------------------------
(* The clients and the handlers. *)

\* c sends the request q to r.
Ask(c, r, q) ==
  /\ req[c].st = "idle" /\ Len(answers[c]) < MaxReq
  /\ r \in alive
  /\ req' = [req EXCEPT ![c] = [NoHandler EXCEPT !.st = "ready", !.node = r,
                                  !.method = q.method, !.body = q.body, !.todo = DOMAIN q.body]]
  /\ UNCHANGED <<answers, storeVars, countVars, canon, pipeVars>>

\* The handlers of the clients in C are over, with the outcomes status[c].
Return(C, status) ==
  /\ req' = [c \in Clients |-> IF c \in C THEN NoHandler ELSE req[c]]
  /\ answers' = [c \in Clients |->
       IF c \in C
       THEN Append(answers[c], [method |-> req[c].method, body |-> req[c].body,
                                status |-> status[c], node |-> req[c].node,
                               run |-> run[req[c].node], at |-> applied[req[c].node]])
       ELSE answers[c]]

ReturnOne(c, status) == Return({c}, [d \in {c} |-> status])

\* Get answers from the local map, whatever the node's state in Raft.
HandleGet(c) ==
  /\ req[c].st = "ready" /\ req[c].method = "GET"
  /\ ReturnOne(c, "200")
  /\ UNCHANGED <<storeVars, countVars, canon, pipeVars>>

\* The command that c's handler hands to raft.Apply for the key k.
Cmd(c, k) == [op |-> IF req[c].method = "POST" THEN "set" ELSE "delete", key |-> k,
              val |-> IF req[c].method = "POST" THEN req[c].body[k] ELSE EmptyString,
              from |-> c, num |-> Len(answers[c]) + 1, by |-> req[c].node]

\* Mutant: DELETE starts its second Delete as a goroutine, which is late.
WriteLate(c) ==
  LET n == Len(answers[c])
      late(k) == IF n > 0 /\ answers[c][n].method = "DELETE" /\ answers[c][n].status = "200"
                 THEN {[Cmd(c, k) EXCEPT !.op = "delete", !.num = n, !.key = CHOOSE x \in
                         DOMAIN answers[c][n].body : TRUE]}
                 ELSE {}
  IN
  /\ req[c].st = "ready" /\ req[c].method # "GET"
  /\ req[c].node \in believers
  /\ \E k \in req[c].todo :
       IF req[c].again
       THEN ReturnOne(c, "200") /\ UNCHANGED pipeVars
       ELSE /\ flight' = [flight EXCEPT ![req[c].node] =
                 @ \o <<Cmd(c, k)>> \o (IF late(k) = {} THEN <<>> ELSE <<CHOOSE e \in late(k) : TRUE>>)]
            /\ req' = [req EXCEPT ![c].st = "waiting", ![c].key = k]
            /\ UNCHANGED <<answers, raftVars, known>>
  /\ UNCHANGED <<storeVars, countVars, canon>>

(***************************************************************************)
(* Set or Delete for the next key.  The keys of a body come in any order.  *)
(* Without the lead the error ends the request with a 500, the keys before *)
(* being written already; only the error of the second Delete is ignored.  *)
(***************************************************************************)
Write(c) ==
  /\ req[c].st = "ready" /\ req[c].method # "GET"
  /\ \E k \in req[c].todo :
       IF req[c].node \in believers
       THEN /\ PipeAccept(req[c].node, Cmd(c, k))
            /\ req' = [req EXCEPT ![c].st = "waiting", ![c].key = k]
            /\ UNCHANGED answers
       ELSE /\ ReturnOne(c, IF req[c].again THEN "200" ELSE "500")
            /\ UNCHANGED pipeVars
  /\ UNCHANGED <<storeVars, countVars, canon>>

\* Mutant: Set and Delete return as soon as the command is committed.
ResolvedEarly(c) == req[c].st = "waiting" /\ req[c].idx # 0

\* The node has applied c's command, which resolves the future without an error.
Resolved(c) == req[c].st = "waiting" /\ req[c].idx \in 1..applied[req[c].node]

\* The loop of a POST goes on to another key.
SetNext(c) ==
  /\ Resolved(c)
  /\ req[c].method = "POST" /\ req[c].todo # {req[c].key}
  /\ req' = [req EXCEPT ![c] = [@ EXCEPT !.st = "ready", !.idx = 0,
                                           !.todo = req[c].todo \ {req[c].key}]]
  /\ UNCHANGED <<answers, storeVars, countVars, canon, pipeVars>>

\* After the first Delete a DELETE calls Delete again.
DeleteAgain(c) ==
  /\ Resolved(c)
  /\ req[c].method = "DELETE" /\ ~req[c].again
  /\ req' = [req EXCEPT ![c] = [@ EXCEPT !.st = "ready", !.idx = 0, !.again = TRUE]]
  /\ UNCHANGED <<answers, storeVars, countVars, canon, pipeVars>>

WriteAnswered(c) ==
  /\ Resolved(c)
  /\ \/ req[c].method = "POST" /\ req[c].todo = {req[c].key}
     \/ req[c].method = "DELETE" /\ req[c].again
  /\ ReturnOne(c, "200")
  /\ UNCHANGED <<storeVars, countVars, canon, pipeVars>>

-----------------------------------------------------------------------------
(* Raft, the state machine and its snapshots. *)

\* Handlers at r that wait for a future whose entry is not committed.
Open(r) == {c \in Clients : req[c].st = "waiting" /\ req[c].node = r /\ req[c].idx = 0}

Elect(r) == PipeElect(r) /\ UNCHANGED <<webVars, storeVars, countVars, canon>>

\* Mutant: Set and Delete do not look at the error.
StepDownOk(r) ==
  /\ PipeStepDown(r)
  /\ Return(Open(r), [c \in Open(r) |-> "200"])
  /\ UNCHANGED <<storeVars, countVars, canon>>

\* Mutant: the futures of what was in flight are forgotten.
StepDownForgets(r) == PipeStepDown(r) /\ UNCHANGED <<webVars, storeVars, countVars, canon>>

\* Set and Delete return the error of the future; that of a second Delete is ignored.
StepDown(r) ==
  /\ PipeStepDown(r)
  /\ Return(Open(r), [c \in Open(r) |-> IF req[c].again THEN "200" ELSE "500"])
  /\ UNCHANGED <<storeVars, countVars, canon>>

\* The map after the command e.
ApplyMap(map, e) ==
  IF e.op = "set" THEN [map EXCEPT ![e.key] = e.val] ELSE [map EXCEPT ![e.key] = EmptyString]

Commit(r) ==
  /\ PipeCommit(r)
  /\ canon' = Append(canon, ApplyMap(canon[Len(canon)], Head(flight[r])))
  /\ req' = [c \in Clients |->
       IF c \in Open(r) /\ c = Head(flight[r]).from
       THEN [req[c] EXCEPT !.idx = Len(log) + 1]
       ELSE req[c]]
  /\ UNCHANGED <<answers, storeVars, countVars>>

Inherit(i) ==
  /\ PipeInherit(i)
  /\ canon' = Append(canon, ApplyMap(canon[Len(canon)], limbo[i]))
  /\ UNCHANGED <<webVars, storeVars, countVars>>

\* Raft calls Apply with the next committed command.
Apply(r) ==
  /\ r \in alive
  /\ applied[r] < CommitIndex(r)
  /\ m' = [m EXCEPT ![r] = ApplyMap(@, log[applied[r] + 1])]
  /\ applied' = [applied EXCEPT ![r] = @ + 1]
  /\ UNCHANGED <<webVars, cloned, saved, countVars, canon, pipeVars>>

\* Raft calls Snapshot, which clones the map, between two calls of Apply.
TakeSnapshot(r) ==
  /\ r \in alive
  /\ snapshots < MaxSnapshots
  /\ applied[r] > saved[r].idx
  /\ cloned[r] = NoSnapshot
  /\ snapshots' = snapshots + 1
  /\ cloned' = [cloned EXCEPT ![r] = [idx |-> applied[r], map |-> m[r]]]
  /\ UNCHANGED <<webVars, m, applied, saved, crashes, run, canon, pipeVars>>

\* Mutant: Snapshot hands out the map itself and not a clone.
PersistLive(r) ==
  /\ r \in alive
  /\ cloned[r] # NoSnapshot
  /\ saved' = [saved EXCEPT ![r] = [cloned[r] EXCEPT !.map = m[r]]]
  /\ cloned' = [cloned EXCEPT ![r] = NoSnapshot]
  /\ UNCHANGED <<webVars, m, applied, countVars, canon, pipeVars>>

\* Persist writes the clone while Apply goes on.
Persist(r) ==
  /\ r \in alive
  /\ cloned[r] # NoSnapshot
  /\ saved' = [saved EXCEPT ![r] = cloned[r]]
  /\ cloned' = [cloned EXCEPT ![r] = NoSnapshot]
  /\ UNCHANGED <<webVars, m, applied, countVars, canon, pipeVars>>

\* A follower that lags behind the leader's log gets its snapshot, and keeps a copy.
InstallSnapshot(r) ==
  /\ r \in alive \ believers
  /\ leader \in alive /\ saved[leader].idx > applied[r]
  /\ saved' = [saved EXCEPT ![r] = saved[leader]]
  /\ m' = [m EXCEPT ![r] = saved[leader].map]
  /\ applied' = [applied EXCEPT ![r] = saved[leader].idx]
  /\ UNCHANGED <<webVars, cloned, countVars, canon, pipeVars>>

\* r dies: the clients of its handlers lose their connection.
Crash(r) ==
  /\ r \in alive
  /\ crashes < MaxCrashes
  /\ crashes' = crashes + 1
  /\ PipeDie(r)
  /\ LET C == {c \in Clients : req[c].st # "idle" /\ req[c].node = r} IN
       Return(C, [c \in C |-> "broken"])
  /\ cloned' = [cloned EXCEPT ![r] = NoSnapshot]
  /\ UNCHANGED <<m, applied, saved, snapshots, run, canon>>

\* Mutant: New makes no map.
RestartNil(r) ==
  /\ r \notin alive
  /\ run[r] < MaxRestarts
  /\ run' = [run EXCEPT ![r] = @ + 1]
  /\ RaftRestart(r)
  /\ m' = [m EXCEPT ![r] = IF saved[r] = NoSnapshot THEN <<>> ELSE saved[r].map]
  /\ applied' = [applied EXCEPT ![r] = saved[r].idx]
  /\ UNCHANGED <<webVars, cloned, saved, crashes, snapshots, canon, flight, known>>

(***************************************************************************)
(* r starts again on its RaftDir: the latest snapshot is restored before   *)
(* the HTTP service starts, the entries behind it are applied as the leader*)
(* tells that they are committed.                                          *)
(***************************************************************************)
Restart(r) ==
  /\ r \notin alive
  /\ run[r] < MaxRestarts
  /\ run' = [run EXCEPT ![r] = @ + 1]
  /\ RaftRestart(r)
  /\ m' = [m EXCEPT ![r] = saved[r].map]
  /\ applied' = [applied EXCEPT ![r] = saved[r].idx]
  /\ UNCHANGED <<webVars, cloned, saved, crashes, snapshots, canon, flight, known>>

-----------------------------------------------------------------------------
HandlerNext(c) ==
  \/ HandleGet(c) \/ Write(c) \/ SetNext(c) \/ DeleteAgain(c) \/ WriteAnswered(c)

NodeNext(r) ==
  \/ Apply(r) \/ TakeSnapshot(r) \/ Persist(r) \/ InstallSnapshot(r)
  \/ Crash(r) \/ Restart(r)

RaftNext ==
  \/ \E r \in Replicas : Elect(r) \/ StepDown(r) \/ Commit(r)
  \/ \E i \in DOMAIN limbo : Inherit(i)

Next ==
  \/ \E c \in Clients :
       HandlerNext(c) \/ \E r \in Replicas, q \in Requests : Ask(c, r, q)
  \/ \E r \in Replicas : NodeNext(r)
  \/ RaftNext

Spec == Init /\ [][Next]_vars

(***************************************************************************)
(* Fairness.  Handlers and the state machine run; a live leader with a     *)
(* majority commits; a deposed leader, or one without its majority, finds  *)
(* out.  Nobody has to ask, to crash or to be elected.                     *)
(***************************************************************************)
Fairness ==
  /\ \A c \in Clients : WF_vars(HandlerNext(c))
  /\ \A r \in Replicas :
       /\ WF_vars(Apply(r)) /\ WF_vars(Commit(r))
       /\ WF_vars((r # leader \/ ~Majority) /\ StepDown(r))

FairSpec == Spec /\ Fairness

-----------------------------------------------------------------------------
(***************************************************************************)
(* Replication: a node's map is the one its applied commands make, after   *)
(* replays, snapshots taken while Apply went on, and installations of the  *)
(* leader's snapshot (fsm.Apply, Snapshot, Persist, Restore).              *)
(***************************************************************************)
StoreAgreement ==
  \A r \in Replicas :
    /\ applied[r] <= Len(log) /\ m[r] = canon[applied[r] + 1]
    /\ saved[r].idx <= Len(log) /\ saved[r].map = canon[saved[r].idx + 1]

(***************************************************************************)
(* An answered request is over: none of its commands commits after one of  *)
(* a request that the same client made later, be it at another node, after *)
(* an error, or after a crash.  So the second, unchecked Delete of a DELETE*)
(* cannot undo a write made after its answer, and an old POST that failed  *)
(* cannot come back.                                                       *)
(***************************************************************************)
AnsweredIsOver ==
  \A i, j \in DOMAIN log : i < j /\ log[i].from = log[j].from => log[i].num <= log[j].num

\* The places in the log of the command for the key k of c's n-th request.
Places(c, n, k) == {i \in DOMAIN log : log[i].from = c /\ log[i].num = n /\ log[i].key = k}

(***************************************************************************)
(* What a status says: a write answered with 200 has all of its keys       *)
(* committed; whatever the outcome, a POST writes a key once at most, and  *)
(* a DELETE twice (handleKeyRequest, Store.Set, Store.Delete).             *)
(***************************************************************************)
StatusIsTrue ==
  \A c \in Clients : \A n \in DOMAIN answers[c] :
    LET a == answers[c][n] IN
    \A k \in DOMAIN a.body :
      /\ a.method # "GET" /\ a.status = "200" => Places(c, n, k) # {}
      /\ Cardinality(Places(c, n, k)) <= (IF a.method = "DELETE" THEN 2 ELSE 1)

(***************************************************************************)
(* What a local read still promises: at one node, as long as it runs, a    *)
(* client reads its own acknowledged writes and never an older state than  *)
(* before (Store.Get).  At another node it may read an older one.          *)
(***************************************************************************)
ReadsKeepUp ==
  \A c \in Clients : \A i, j \in DOMAIN answers[c] :
    LET a == answers[c][i]
        b == answers[c][j]
    IN  i < j /\ a.node = b.node /\ a.run = b.run =>
          /\ a.at <= b.at
          /\ a.method # "GET" /\ a.status = "200" =>
               \A k \in DOMAIN a.body : \E p \in Places(c, i, k) : p <= b.at

(***************************************************************************)
(* Every request is answered, or its connection broken, through losses of  *)
(* the lead: no handler waits for a future for ever.                       *)
(***************************************************************************)
EveryRequestReturns == \A c \in Clients : req[c].st # "idle" ~> req[c].st = "idle"
=============================================================================
