-------------------------- MODULE WebStoreProofs --------------------------
(***************************************************************************)
(* Proofs about WebStore for every number of nodes and clients, every set  *)
(* of requests and every bound.                                            *)
(***************************************************************************)
EXTENDS WebStore, RaftPipelineProofs, FiniteSetTheorems

-----------------------------------------------------------------------------
(* What a step is to the group and to the answers. *)

\* c's handler proposes the write of k.
Proposes(c, k) ==
  /\ req[c].st = "ready" /\ req[c].method # "GET" /\ k \in req[c].todo
  /\ req[c].node \in believers
  /\ PipeAccept(req[c].node, Cmd(c, k))
  /\ req' = [req EXCEPT ![c].st = "waiting", ![c].key = k]
  /\ answers' = answers

\* The group moves, accepts one write, or does not notice the step.
GroupStep ==
  \/ PipeStep
  \/ \E c \in Clients : \E k \in req[c].todo : Proposes(c, k)
  \/ UNCHANGED pipeVars

\* A step of the store is one of these for the group.
LEMMA NextIsGroupStep == TypeOK /\ [Next]_vars => GroupStep
<1> SUFFICES ASSUME TypeOK, [Next]_vars PROVE GroupStep
  OBVIOUS
<1>1. ASSUME NEW c \in Clients, HandlerNext(c) PROVE GroupStep
  <2>1. CASE Write(c)
    BY <2>1 DEF Write, GroupStep, Proposes
  <2>2. CASE HandleGet(c) \/ SetNext(c) \/ DeleteAgain(c) \/ WriteAnswered(c)
    BY <2>2 DEF HandleGet, SetNext, DeleteAgain, WriteAnswered, GroupStep
  <2> QED BY <1>1, <2>1, <2>2 DEF HandlerNext
<1>2. ASSUME NEW c \in Clients, NEW r \in Replicas, NEW q \in Requests, Ask(c, r, q) PROVE GroupStep
  BY <1>2 DEF Ask, GroupStep
<1>3. ASSUME NEW r \in Replicas, NodeNext(r) PROVE GroupStep
  BY <1>3 DEF NodeNext, Apply, TakeSnapshot, Persist, InstallSnapshot, Crash, Restart, GroupStep, PipeStep
<1>4. CASE RaftNext
  BY <1>4 DEF RaftNext, Elect, StepDown, Commit, Inherit, GroupStep, PipeStep
<1>5. CASE UNCHANGED vars
  BY <1>5 DEF vars, GroupStep
<1> QED BY <1>1, <1>2, <1>3, <1>4, <1>5 DEF Next

-----------------------------------------------------------------------------
(* Types. *)

\* What is left to write is of the request's body.
TodoOfBody == \A c \in Clients : req[c].todo \subseteq DOMAIN req[c].body

\* A body is a map of keys to values.
LEMMA BodyType ==
  ASSUME NEW b \in Body
  PROVE  DOMAIN b \subseteq Keys /\ \A k \in DOMAIN b : b[k] \in Vals \cup {EmptyString}
  BY DEF Body

\* A handler at rest, and what a handler starts as.
LEMMA NoHandlerType ==
  /\ NoHandler \in Handler
  /\ \A q \in Request, r \in Replicas :
       [NoHandler EXCEPT !.st = "ready", !.node = r, !.method = q.method, !.body = q.body,
                         !.todo = DOMAIN q.body] \in Handler
<1>1. 1 \in Replicas
  BY ClusterAssumption DEF ClusterAssumption, Replicas
<1>2. (CHOOSE k \in Keys : TRUE) \in Keys
  BY WebAssumption DEF WebAssumption
<1>3. <<>> \in Body
  <2>1. <<>> \in [{} -> Vals \cup {EmptyString}]
    OBVIOUS
  <2> QED BY <2>1 DEF Body
<1>4. NoHandler \in Handler
  BY <1>1, <1>2, <1>3 DEF NoHandler, Handler, Methods
<1> QED BY <1>4, BodyType DEF NoHandler, Handler, Request

\* A handler whose command is committed.
LEMMA CommittedType ==
  ASSUME NEW h \in Handler, NEW i \in Nat
  PROVE  LET g == [h EXCEPT !.idx = i] IN
         g \in Handler /\ g.body = h.body /\ g.todo = h.todo
  BY DEF Handler

\* The command of a handler that writes.
LEMMA CmdType ==
  ASSUME TypeOK, TodoOfBody, NEW c \in Clients, NEW k \in req[c].todo
  PROVE  Cmd(c, k) \in Entry
<1>1. req[c] \in Handler /\ Len(answers[c]) + 1 \in Nat
  BY DEF TypeOK
<1>2. k \in DOMAIN req[c].body /\ req[c].body \in Body
  BY <1>1 DEF TodoOfBody, Handler
<1>3. k \in Keys /\ req[c].body[k] \in Vals \cup {EmptyString}
  BY <1>2, BodyType
<1> QED BY <1>1, <1>3 DEF Cmd, Entry, Handler

\* A map after a command is a map.
LEMMA ApplyMapType == ASSUME NEW map \in Map, NEW e \in Entry PROVE ApplyMap(map, e) \in Map
  BY DEF ApplyMap, Map, Entry

\* The end of handlers.
LEMMA ReturnType ==
  ASSUME TypeOK, TodoOfBody, NEW C \in SUBSET Clients, NEW status,
         \A c \in C : status[c] \in {"200", "500", "broken"}, Return(C, status)
  PROVE  /\ req' \in [Clients -> Handler] /\ answers' \in [Clients -> Seq(Answer)]
         /\ TodoOfBody'
<1>1. req' \in [Clients -> Handler] /\ TodoOfBody'
  BY NoHandlerType DEF Return, TypeOK, TodoOfBody, NoHandler
<1>2. ASSUME NEW c \in C
      PROVE [method |-> req[c].method, body |-> req[c].body, status |-> status[c],
             node |-> req[c].node, run |-> run[req[c].node], at |-> applied[req[c].node]] \in Answer
  BY DEF TypeOK, Handler, Answer
<1>3. answers' \in [Clients -> Seq(Answer)]
  BY <1>2 DEF Return, TypeOK
<1> QED BY <1>1, <1>3

\* The types hold in every step; PipeSane is what makes Apply find its entry.
WebTypes == TypeOK /\ PipeSane /\ TodoOfBody

\* The group's part.
LEMMA GroupTypes == ASSUME WebTypes, [Next]_vars PROVE PipeTypeOK(Entry)' /\ PipeSane'
<1>1. GroupStep
  BY NextIsGroupStep DEF WebTypes
<1>2. PipeTypeOK(Entry) /\ PipeSane
  BY DEF WebTypes, TypeOK
<1>3. CASE PipeStep
  BY <1>2, <1>3, PipeStepType, PipeStepSane
<1>4. ASSUME NEW c \in Clients, NEW k \in req[c].todo, Proposes(c, k)
      PROVE  PipeTypeOK(Entry)' /\ PipeSane'
  <2>1. Cmd(c, k) \in Entry
    BY CmdType DEF WebTypes
  <2>2. req[c].node \in Replicas /\ req[c].node \in believers /\ PipeAccept(req[c].node, Cmd(c, k))
    BY <1>4 DEF Proposes, WebTypes, TypeOK, Handler
  <2> QED BY <1>2, <2>1, <2>2, PipeAcceptType, PipeAcceptSane
<1>5. CASE UNCHANGED pipeVars
  BY <1>2, <1>5 DEF pipeVars, raftVars, PipeTypeOK, RaftTypeOK, PipeSane
<1> QED BY <1>1, <1>3, <1>4, <1>5 DEF GroupStep

\* The handlers' part.
LEMMA HandlerTypes ==
  ASSUME WebTypes, [Next]_vars
  PROVE  req' \in [Clients -> Handler] /\ answers' \in [Clients -> Seq(Answer)] /\ TodoOfBody'
<1> DEFINE Goal == req' \in [Clients -> Handler] /\ answers' \in [Clients -> Seq(Answer)] /\ TodoOfBody'
<1> USE DEF WebTypes
<1>0. req \in [Clients -> Handler] /\ answers \in [Clients -> Seq(Answer)] /\ TodoOfBody
  BY DEF TypeOK
<1>1. CASE UNCHANGED webVars
  BY <1>0, <1>1 DEF webVars, TodoOfBody
<1>2. ASSUME NEW c \in Clients, NEW status \in {"200", "500", "broken"}, ReturnOne(c, status) PROVE Goal
  BY <1>2, ReturnType DEF ReturnOne
<1>3. ASSUME NEW c \in Clients, HandlerNext(c) PROVE Goal
  <2>1. CASE HandleGet(c) \/ WriteAnswered(c)
    BY <1>2, <2>1 DEF HandleGet, WriteAnswered
  <2>2. ASSUME NEW k \in req[c].todo, Proposes(c, k) PROVE Goal
    <3>1. k \in Keys
      BY <1>0, <2>2 DEF Handler
    <3> QED BY <1>0, <2>2, <3>1 DEF Proposes, Handler, TodoOfBody
  <2>3. CASE Write(c)
    <3>1. PICK k \in req[c].todo :
            \/ Proposes(c, k)
            \/ ReturnOne(c, IF req[c].again THEN "200" ELSE "500")
      BY <2>3 DEF Write, Proposes
    <3> QED BY <1>2, <2>2, <3>1
  <2>4. CASE SetNext(c) \/ DeleteAgain(c)
    <3> DEFINE next == [req[c] EXCEPT !.st = "ready", !.idx = 0, !.todo = req[c].todo \ {req[c].key}]
               again == [req[c] EXCEPT !.st = "ready", !.idx = 0, !.again = TRUE]
    <3>1. /\ answers' = answers
          /\ req' = [req EXCEPT ![c] = next] \/ req' = [req EXCEPT ![c] = again]
      BY <2>4 DEF SetNext, DeleteAgain
    <3>2. /\ next \in Handler /\ next.body = req[c].body /\ next.todo \subseteq req[c].todo
          /\ again \in Handler /\ again.body = req[c].body /\ again.todo \subseteq req[c].todo
      <4>1. req[c] \in Handler /\ 1 \in Nat
        BY <1>0
      <4> QED BY <4>1 DEF Handler
    <3> HIDE DEF next, again
    <3> QED BY <1>0, <3>1, <3>2 DEF TodoOfBody
  <2> QED BY <1>3, <2>1, <2>3, <2>4 DEF HandlerNext
<1>4. ASSUME NEW c \in Clients, NEW r \in Replicas, NEW q \in Requests, Ask(c, r, q) PROVE Goal
  <2>1. q \in Request
    BY WebAssumption DEF WebAssumption
  <2>2. req' = [req EXCEPT ![c] = [NoHandler EXCEPT !.st = "ready", !.node = r, !.method = q.method,
                                                   !.body = q.body, !.todo = DOMAIN q.body]]
        /\ answers' = answers
    BY <1>4 DEF Ask
  <2>3. req' \in [Clients -> Handler]
    BY <1>0, <2>1, <2>2, NoHandlerType
  <2>4. req'[c].todo = DOMAIN req'[c].body
    BY <1>0, <2>2 DEF NoHandler
  <2>5. \A d \in Clients : d # c => req'[d] = req[d]
    BY <1>0, <2>2
  <2>6. TodoOfBody'
    BY <1>0, <2>4, <2>5 DEF TodoOfBody
  <2> QED BY <1>0, <2>2, <2>3, <2>6
<1>5. ASSUME NEW r \in Replicas, NodeNext(r) PROVE Goal
  <2>1. CASE Crash(r)
    <3> DEFINE C == {c \in Clients : req[c].st # "idle" /\ req[c].node = r}
    <3>1. Return(C, [c \in C |-> "broken"])
      BY <2>1 DEF Crash
    <3> QED BY <3>1, ReturnType
  <2>2. CASE ~Crash(r)
    BY <1>1, <1>5, <2>2 DEF NodeNext, Apply, TakeSnapshot, Persist, InstallSnapshot, Restart, webVars
  <2> QED BY <2>1, <2>2
<1>6. CASE RaftNext
  <2>1. ASSUME NEW r \in Replicas, StepDown(r) PROVE Goal
    <3>1. Return(Open(r), [c \in Open(r) |-> IF req[c].again THEN "200" ELSE "500"])
      BY <2>1 DEF StepDown
    <3>2. Open(r) \in SUBSET Clients
      BY DEF Open
    <3> QED BY <3>1, <3>2, ReturnType
  <2>2. ASSUME NEW r \in Replicas, Commit(r) PROVE Goal
    <3>1. Len(log) + 1 \in Nat
      BY DEF TypeOK, PipeTypeOK, RaftTypeOK
    <3>2. answers' = answers
          /\ req' = [c \in Clients |-> IF c \in Open(r) /\ c = Head(flight[r]).from
                                       THEN [req[c] EXCEPT !.idx = Len(log) + 1] ELSE req[c]]
      BY <2>2 DEF Commit
    <3>3. req' \in [Clients -> Handler]
      BY <1>0, <3>1, <3>2, CommittedType
    <3>4. \A d \in Clients : req'[d].body = req[d].body /\ req'[d].todo = req[d].todo
      BY <1>0, <3>1, <3>2, CommittedType
    <3> QED BY <1>0, <3>2, <3>3, <3>4 DEF TodoOfBody
  <2>3. ASSUME NEW r \in Replicas, Elect(r) PROVE Goal
    BY <1>1, <2>3 DEF Elect
  <2>4. ASSUME NEW i \in DOMAIN limbo, Inherit(i) PROVE Goal
    BY <1>1, <2>4 DEF Inherit
  <2> QED BY <1>6, <2>1, <2>2, <2>3, <2>4 DEF RaftNext
<1>7. CASE UNCHANGED vars
  BY <1>1, <1>7 DEF vars, webVars
<1> QED BY <1>3, <1>4, <1>5, <1>6, <1>7 DEF Next

\* The node's entry to apply is there.
LEMMA ApplyFinds ==
  ASSUME WebTypes, NEW r \in Replicas, applied[r] < CommitIndex(r)
  PROVE  applied[r] + 1 \in 1..Len(log) /\ log[applied[r] + 1] \in Entry
<1>1. log \in Seq(Entry) /\ Len(log) \in Nat /\ applied[r] \in Nat /\ known[r] \in Nat
  BY DEF WebTypes, TypeOK, PipeTypeOK, RaftTypeOK
<1>2. CommitIndex(r) <= Len(log) /\ CommitIndex(r) \in Nat
  BY <1>1 DEF CommitIndex, WebTypes, PipeSane
<1>3. applied[r] + 1 \in 1..Len(log)
  BY <1>1, <1>2
<1> QED BY <1>1, <1>3, ElementOfSeq

\* The stores' part, and the ghosts.
LEMMA StoreTypes ==
  ASSUME WebTypes, [Next]_vars
  PROVE  /\ m' \in [Replicas -> Map] /\ applied' \in [Replicas -> Nat]
         /\ cloned' \in [Replicas -> Snapshot] /\ saved' \in [Replicas -> Snapshot]
         /\ crashes' \in Nat /\ snapshots' \in Nat /\ run' \in [Replicas -> Nat]
<1> DEFINE Goal ==
      /\ m' \in [Replicas -> Map] /\ applied' \in [Replicas -> Nat]
      /\ cloned' \in [Replicas -> Snapshot] /\ saved' \in [Replicas -> Snapshot]
      /\ crashes' \in Nat /\ snapshots' \in Nat /\ run' \in [Replicas -> Nat]
<1>0. /\ m \in [Replicas -> Map] /\ applied \in [Replicas -> Nat]
      /\ cloned \in [Replicas -> Snapshot] /\ saved \in [Replicas -> Snapshot]
      /\ crashes \in Nat /\ snapshots \in Nat /\ run \in [Replicas -> Nat]
      /\ NoSnapshot \in Snapshot
  BY DEF WebTypes, TypeOK, NoSnapshot, Snapshot, NewMap, Map
<1>1. CASE UNCHANGED <<storeVars, countVars>>
  BY <1>0, <1>1 DEF storeVars, countVars
<1>2. ASSUME NEW r \in Replicas, NodeNext(r) PROVE Goal
  <2>1. CASE Apply(r)
    <3>1. ApplyMap(m[r], log[applied[r] + 1]) \in Map
      BY <1>0, <2>1, ApplyFinds, ApplyMapType DEF Apply
    <3> QED BY <1>0, <2>1, <3>1 DEF Apply, countVars
  <2>2. CASE TakeSnapshot(r)
    BY <1>0, <2>2 DEF TakeSnapshot, Snapshot
  <2>3. CASE Persist(r)
    BY <1>0, <2>3 DEF Persist, countVars
  <2>4. CASE InstallSnapshot(r)
    <3>1. leader \in Replicas
      BY <2>4 DEF InstallSnapshot, WebTypes, TypeOK, PipeTypeOK, RaftTypeOK
    <3> QED BY <1>0, <2>4, <3>1 DEF InstallSnapshot, Snapshot, countVars
  <2>5. CASE Crash(r)
    BY <1>0, <2>5 DEF Crash
  <2>6. CASE Restart(r)
    BY <1>0, <2>6 DEF Restart, Snapshot
  <2> QED BY <1>2, <2>1, <2>2, <2>3, <2>4, <2>5, <2>6 DEF NodeNext
<1>3. ASSUME NEW c \in Clients, HandlerNext(c) PROVE Goal
  BY <1>1, <1>3 DEF HandlerNext, HandleGet, Write, SetNext, DeleteAgain, WriteAnswered
<1>4. ASSUME NEW c \in Clients, NEW r \in Replicas, NEW q \in Requests, Ask(c, r, q) PROVE Goal
  BY <1>1, <1>4 DEF Ask
<1>5. CASE RaftNext
  BY <1>1, <1>5 DEF RaftNext, Elect, StepDown, Commit, Inherit
<1>6. CASE UNCHANGED vars
  BY <1>1, <1>6 DEF vars
<1> QED BY <1>2, <1>3, <1>4, <1>5, <1>6 DEF Next

\* Committing an entry extends the log and the ghost by it; nothing else touches them.
LEMMA CanonGrows ==
  ASSUME WebTypes, [Next]_vars
  PROVE  \/ log' = log /\ canon' = canon
         \/ \E e \in Entry : /\ log' = Append(log, e)
                             /\ canon' = Append(canon, ApplyMap(canon[Len(canon)], e))
<1> DEFINE Goal == \/ log' = log /\ canon' = canon
                   \/ \E e \in Entry : /\ log' = Append(log, e)
                                       /\ canon' = Append(canon, ApplyMap(canon[Len(canon)], e))
<1>0. limbo \in Seq(Entry) /\ flight \in [Replicas -> Seq(Entry)]
  BY DEF WebTypes, TypeOK, PipeTypeOK, RaftTypeOK
<1>1. ASSUME NEW c \in Clients, HandlerNext(c) PROVE Goal
  BY <1>1 DEF HandlerNext, HandleGet, Write, SetNext, DeleteAgain, WriteAnswered, PipeAccept, pipeVars, raftVars
<1>2. ASSUME NEW c \in Clients, NEW r \in Replicas, NEW q \in Requests, Ask(c, r, q) PROVE Goal
  BY <1>2 DEF Ask, pipeVars, raftVars
<1>3. ASSUME NEW r \in Replicas, NodeNext(r) PROVE Goal
  BY <1>3 DEF NodeNext, Apply, TakeSnapshot, Persist, InstallSnapshot, Crash, Restart,
              PipeDie, RaftDie, RaftRestart, pipeVars, raftVars
<1>4. ASSUME NEW r \in Replicas, Elect(r) \/ StepDown(r) PROVE Goal
  BY <1>4 DEF Elect, StepDown, PipeElect, RaftElect, PipeStepDown, RaftStepDown
<1>5. ASSUME NEW r \in Replicas, Commit(r) PROVE Goal
  <2>1. flight[r] \in Seq(Entry) /\ flight[r] # <<>>
    BY <1>0, <1>5 DEF Commit, PipeCommit
  <2>2. Head(flight[r]) \in Entry
    BY <2>1
  <2> QED BY <1>5, <2>2 DEF Commit, PipeCommit, RaftCommit
<1>6. ASSUME NEW i \in DOMAIN limbo, Inherit(i) PROVE Goal
  <2>1. limbo[i] \in Entry
    BY <1>0, ElementOfSeq
  <2> QED BY <1>6, <2>1 DEF Inherit, PipeInherit, RaftInherit
<1>7. CASE UNCHANGED vars
  BY <1>7 DEF vars, pipeVars, raftVars
<1> QED BY <1>1, <1>2, <1>3, <1>4, <1>5, <1>6, <1>7 DEF Next, RaftNext

\* The types hold at the start, and every step keeps them.
LEMMA WebTypesInductive ==
  /\ Init => WebTypes
  /\ WebTypes /\ [Next]_vars => WebTypes'
<1>1. ASSUME Init PROVE WebTypes
  <2>1. NewMap \in Map /\ NoSnapshot \in Snapshot
    BY DEF NewMap, Map, NoSnapshot, Snapshot
  <2>2. canon \in Seq(Map) \ {<<>>}
    BY <1>1, <2>1 DEF Init
  <2>3. answers \in [Clients -> Seq(Answer)]
    BY <1>1 DEF Init
  <2>4. PipeTypeOK(Entry) /\ PipeSane
    BY <1>1, PipeInitType, PipeInitSane DEF Init
  <2> QED BY <1>1, <2>1, <2>2, <2>3, <2>4, NoHandlerType DEF Init, WebTypes, TypeOK, TodoOfBody, NoHandler
<1>2. ASSUME WebTypes, [Next]_vars PROVE WebTypes'
  <2>1. canon' \in Seq(Map) \ {<<>>}
    <3>1. canon \in Seq(Map) /\ canon # <<>>
      BY <1>2 DEF WebTypes, TypeOK
    <3>2. ASSUME NEW e \in Entry, canon' = Append(canon, ApplyMap(canon[Len(canon)], e))
          PROVE  canon' \in Seq(Map) \ {<<>>}
      <4>1. canon[Len(canon)] \in Map
        BY <3>1
      <4>2. ApplyMap(canon[Len(canon)], e) \in Map
        BY <4>1, ApplyMapType
      <4> QED BY <3>1, <3>2, <4>2, AppendProperties
    <3> QED BY <1>2, <3>1, <3>2, CanonGrows
  <2> QED BY <1>2, <2>1, GroupTypes, HandlerTypes, StoreTypes DEF WebTypes, TypeOK
<1> QED BY <1>1, <1>2

\* Every variable keeps its type (the handlers, the stores and the group).
THEOREM WebTypeCorrect == Spec => []TypeOK
<1>1. Spec => []WebTypes
  BY WebTypesInductive, PTL DEF Spec
<1> QED BY <1>1, PTL DEF WebTypes

-----------------------------------------------------------------------------
(* Replication. *)

\* The ghost is the fold of the log, and a snapshot being written is of a prefix.
Replicated ==
  /\ Len(canon) = Len(log) + 1
  /\ canon[1] = NewMap
  /\ \A i \in 1..Len(log) : canon[i + 1] = ApplyMap(canon[i], log[i])
  /\ StoreAgreement
  /\ \A r \in Replicas : cloned[r].idx <= Len(log) /\ cloned[r].map = canon[cloned[r].idx + 1]

\* What was said of a prefix of the log stays said when the log grows.
LEMMA CanonStays ==
  ASSUME WebTypes, Replicated, [Next]_vars
  PROVE  /\ Len(log) \in Nat /\ Len(log') \in Nat /\ Len(log) <= Len(log')
         /\ Len(canon') = Len(log') + 1
         /\ \A i \in 1..Len(log) + 1 : canon'[i] = canon[i]
         /\ \A i \in 1..Len(log') : canon'[i + 1] = ApplyMap(canon'[i], log'[i])
<1>1. log \in Seq(Entry) /\ canon \in Seq(Map) /\ Len(log) \in Nat /\ Len(canon) = Len(log) + 1
  BY DEF WebTypes, TypeOK, PipeTypeOK, RaftTypeOK, Replicated
<1>2. CASE log' = log /\ canon' = canon
  BY <1>1, <1>2 DEF Replicated
<1>3. ASSUME NEW e \in Entry, log' = Append(log, e),
             canon' = Append(canon, ApplyMap(canon[Len(canon)], e))
      PROVE  /\ Len(log') = Len(log) + 1 /\ Len(canon') = Len(log) + 2
             /\ \A i \in 1..Len(log) + 1 : canon'[i] = canon[i]
             /\ \A i \in 1..Len(log) : log'[i] = log[i]
             /\ log'[Len(log) + 1] = e
             /\ canon'[Len(log) + 2] = ApplyMap(canon[Len(log) + 1], e)
  <2>1. canon[Len(canon)] \in Map
    BY <1>1
  <2>2. ApplyMap(canon[Len(canon)], e) \in Map
    BY <2>1, ApplyMapType
  <2> QED BY <1>1, <1>3, <2>2, AppendProperties
<1>4. ASSUME Len(log') = Len(log) + 1,
             \A i \in 1..Len(log) + 1 : canon'[i] = canon[i],
             \A i \in 1..Len(log) : log'[i] = log[i],
             canon'[Len(log) + 2] = ApplyMap(canon[Len(log) + 1], log'[Len(log) + 1])
      PROVE  \A i \in 1..Len(log') : canon'[i + 1] = ApplyMap(canon'[i], log'[i])
  <2> TAKE i \in 1..Len(log')
  <2>1. CASE i = Len(log) + 1
    BY <1>1, <1>4, <2>1
  <2>2. CASE i \in 1..Len(log)
    <3>1. canon'[i + 1] = canon[i + 1] /\ canon'[i] = canon[i] /\ log'[i] = log[i]
      BY <1>1, <1>4, <2>2
    <3> QED BY <2>2, <3>1 DEF Replicated
  <2> QED BY <1>1, <1>4, <2>1, <2>2
<1> QED BY <1>1, <1>2, <1>3, <1>4, CanonGrows

\* A map and an index, and the prefix of the log that they are of.
IsOf(map, i) == i \in 0..Len(log) /\ map = canon[i + 1]

\* The invariant, in these words.
LEMMA ReplicatedIsOf ==
  ASSUME TypeOK
  PROVE  Replicated <=>
           /\ Len(canon) = Len(log) + 1
           /\ canon[1] = NewMap
           /\ \A i \in 1..Len(log) : canon[i + 1] = ApplyMap(canon[i], log[i])
           /\ \A r \in Replicas : /\ IsOf(m[r], applied[r])
                                  /\ IsOf(saved[r].map, saved[r].idx)
                                  /\ IsOf(cloned[r].map, cloned[r].idx)
<1>1. /\ Len(log) \in Nat
      /\ \A r \in Replicas : applied[r] \in Nat /\ saved[r].idx \in Nat /\ cloned[r].idx \in Nat
  BY DEF TypeOK, PipeTypeOK, RaftTypeOK, Snapshot
<1> QED BY <1>1 DEF Replicated, StoreAgreement, IsOf

\* A node's state, or what it saves, moves from a prefix of the log to one.
LEMMA NodesStayOf ==
  ASSUME WebTypes, Replicated, [Next]_vars, NEW s \in Replicas
  PROVE  /\ IsOf(m'[s], applied'[s]) /\ IsOf(saved'[s].map, saved'[s].idx)
         /\ IsOf(cloned'[s].map, cloned'[s].idx)
<1> DEFINE Goal == /\ IsOf(m'[s], applied'[s]) /\ IsOf(saved'[s].map, saved'[s].idx)
                   /\ IsOf(cloned'[s].map, cloned'[s].idx)
<1>0. /\ m \in [Replicas -> Map] /\ applied \in [Replicas -> Nat]
      /\ cloned \in [Replicas -> Snapshot] /\ saved \in [Replicas -> Snapshot]
  BY DEF WebTypes, TypeOK
<1>1. \A r \in Replicas : /\ IsOf(m[r], applied[r]) /\ IsOf(saved[r].map, saved[r].idx)
                         /\ IsOf(cloned[r].map, cloned[r].idx)
  BY ReplicatedIsOf DEF WebTypes
<1>2. IsOf(NoSnapshot.map, NoSnapshot.idx)
  BY DEF NoSnapshot, Replicated, IsOf, WebTypes, TypeOK, PipeTypeOK, RaftTypeOK
<1>3. CASE UNCHANGED storeVars
  BY <1>1, <1>3 DEF storeVars
<1>4. ASSUME NEW r \in Replicas, NodeNext(r) PROVE Goal
  <2>1. CASE Apply(r)
    <3>1. IsOf(ApplyMap(m[r], log[applied[r] + 1]), applied[r] + 1)
      <4>1. applied[r] + 1 \in 1..Len(log) /\ applied[r] \in Nat /\ m[r] = canon[applied[r] + 1]
        BY <1>0, <1>1, <2>1, ApplyFinds DEF Apply, IsOf
      <4> QED BY <4>1 DEF IsOf, Replicated
    <3> QED BY <1>0, <1>1, <2>1, <3>1 DEF Apply
  <2>2. CASE TakeSnapshot(r)
    BY <1>0, <1>1, <2>2 DEF TakeSnapshot
  <2>3. CASE Persist(r)
    BY <1>0, <1>1, <1>2, <2>3 DEF Persist
  <2>4. CASE InstallSnapshot(r)
    <3>1. leader \in Replicas
      BY <2>4 DEF InstallSnapshot, WebTypes, TypeOK, PipeTypeOK, RaftTypeOK
    <3> QED BY <1>0, <1>1, <2>4, <3>1 DEF InstallSnapshot
  <2>5. CASE Crash(r)
    BY <1>0, <1>1, <1>2, <2>5 DEF Crash
  <2>6. CASE Restart(r)
    BY <1>0, <1>1, <2>6 DEF Restart
  <2> QED BY <1>4, <2>1, <2>2, <2>3, <2>4, <2>5, <2>6 DEF NodeNext
<1>5. ASSUME NEW c \in Clients, HandlerNext(c) PROVE Goal
  BY <1>3, <1>5 DEF HandlerNext, HandleGet, Write, SetNext, DeleteAgain, WriteAnswered
<1>6. ASSUME NEW c \in Clients, NEW r \in Replicas, NEW q \in Requests, Ask(c, r, q) PROVE Goal
  BY <1>3, <1>6 DEF Ask
<1>7. CASE RaftNext
  BY <1>3, <1>7 DEF RaftNext, Elect, StepDown, Commit, Inherit
<1>8. CASE UNCHANGED vars
  BY <1>3, <1>8 DEF vars
<1> QED BY <1>4, <1>5, <1>6, <1>7, <1>8 DEF Next

\* Replication holds at the start, and every step keeps it.
LEMMA ReplicatedInductive ==
  /\ Init => Replicated
  /\ WebTypes /\ Replicated /\ [Next]_vars => Replicated'
<1>1. ASSUME Init PROVE Replicated
  <2>1. Len(log) = 0 /\ canon = <<NewMap>>
    BY <1>1 DEF Init, PipeInit, RaftInit
  <2> QED BY <1>1, <2>1 DEF Init, NoSnapshot, Replicated, StoreAgreement
<1>2. ASSUME WebTypes, Replicated, [Next]_vars PROVE Replicated'
  <2>1. TypeOK'
    BY <1>2, WebTypesInductive DEF WebTypes
  <2>2. ASSUME NEW map, NEW i, IsOf(map, i) PROVE i \in 0..Len(log') /\ map = canon'[i + 1]
    <3>1. i \in 0..Len(log) /\ map = canon[i + 1] /\ i + 1 \in 1..Len(log) + 1
      BY <1>2, <2>2, CanonStays DEF IsOf
    <3> QED BY <1>2, <3>1, CanonStays
  <2>3. \A s \in Replicas :
          /\ applied'[s] \in 0..Len(log') /\ m'[s] = canon'[applied'[s] + 1]
          /\ saved'[s].idx \in 0..Len(log') /\ saved'[s].map = canon'[saved'[s].idx + 1]
          /\ cloned'[s].idx \in 0..Len(log') /\ cloned'[s].map = canon'[cloned'[s].idx + 1]
    BY <1>2, <2>2, NodesStayOf
  <2>4. canon'[1] = NewMap
    BY <1>2, CanonStays DEF Replicated
  <2>5. StoreAgreement'
    BY <1>2, <2>3, CanonStays DEF StoreAgreement
  <2> QED BY <1>2, <2>3, <2>4, <2>5, CanonStays DEF Replicated
<1> QED BY <1>1, <1>2

(***************************************************************************)
(* A node's map, and the snapshot in its RaftDir, are what the prefix of   *)
(* the log that it has applied makes of an empty map, through replays,     *)
(* snapshots and installations (fsm.Apply, Snapshot, Persist, Restore).    *)
(***************************************************************************)
THEOREM WebReplicasAgree == Spec => []StoreAgreement
<1>1. Spec => [](WebTypes /\ Replicated)
  BY WebTypesInductive, ReplicatedInductive, PTL DEF Spec
<1> QED BY <1>1, PTL DEF Replicated

-----------------------------------------------------------------------------
(* The order of commits. *)

\* The entries that the requests of the past and the present account for.
Due == {e \in Entry : e.num <= Len(answers[e.from]) + 1}

\* Of one client, the earlier request's commands commit first.
ByRequest == {p \in Entry \X Entry : p[1].from = p[2].from => p[1].num <= p[2].num}

RequestsInOrder == PipeTypeOK(Due) /\ PipeOrdered(ByRequest)

\* Answers are only ever added.
LEMMA AnswersGrow ==
  ASSUME WebTypes, [Next]_vars, NEW c \in Clients
  PROVE  Len(answers[c]) \in Nat /\ Len(answers'[c]) \in Nat /\ Len(answers[c]) <= Len(answers'[c])
<1> DEFINE Goal == Len(answers[c]) <= Len(answers'[c])
<1>0. answers \in [Clients -> Seq(Answer)] /\ answers' \in [Clients -> Seq(Answer)]
  BY HandlerTypes DEF WebTypes, TypeOK
<1>1. CASE answers' = answers
  BY <1>0, <1>1
<1>2. ASSUME NEW C, NEW status, Return(C, status) PROVE Goal
  <2>1. answers'[c] = answers[c] \/ \E a : answers'[c] = Append(answers[c], a)
    BY <1>2 DEF Return
  <2> QED BY <1>0, <2>1
<1>3. ASSUME NEW d \in Clients, HandlerNext(d) PROVE Goal
  BY <1>1, <1>2, <1>3 DEF HandlerNext, HandleGet, Write, SetNext, DeleteAgain, WriteAnswered, ReturnOne
<1>4. ASSUME NEW d \in Clients, NEW r \in Replicas, NEW q \in Requests, Ask(d, r, q) PROVE Goal
  BY <1>1, <1>4 DEF Ask
<1>5. ASSUME NEW r \in Replicas, NodeNext(r) PROVE Goal
  BY <1>1, <1>2, <1>5 DEF NodeNext, Apply, TakeSnapshot, Persist, InstallSnapshot, Crash, Restart, webVars
<1>6. ASSUME RaftNext PROVE Goal
  BY <1>1, <1>2, <1>6 DEF RaftNext, Elect, StepDown, Commit, Inherit, webVars
<1>7. CASE UNCHANGED vars
  BY <1>1, <1>7 DEF vars, webVars
<1>8. Goal
  BY <1>3, <1>4, <1>5, <1>6, <1>7 DEF Next
<1> QED BY <1>0, <1>8

\* What is accepted is of the client's present request, so nothing of it is of a later one.
LEMMA ProposalIsLast ==
  ASSUME WebTypes, NEW c \in Clients, NEW k \in req[c].todo, NEW s \in Seq(Due)
  PROVE  Cmd(c, k) \in Due /\ Follows(s, <<Cmd(c, k)>>, ByRequest)
<1>1. Cmd(c, k) \in Entry
  BY CmdType DEF WebTypes
<1>2. Cmd(c, k).from = c /\ Cmd(c, k).num = Len(answers[c]) + 1 /\ Len(answers[c]) + 1 \in Nat
  BY DEF Cmd, WebTypes, TypeOK
<1>3. \A i \in DOMAIN s : s[i] \in Due
  BY ElementOfSeq
<1>4. \A i \in DOMAIN s : <<s[i], Cmd(c, k)>> \in ByRequest
  BY <1>1, <1>2, <1>3 DEF Due, ByRequest
<1>5. Cmd(c, k) \in Due
  BY <1>1, <1>2 DEF Due
<1> HIDE DEF ByRequest
<1>6. Follows(s, <<Cmd(c, k)>>, ByRequest)
  BY <1>4, SingleOrder
<1> QED BY <1>5, <1>6

\* The order of commits holds at the start, and every step keeps it.
LEMMA RequestsInOrderInductive ==
  /\ Init => RequestsInOrder
  /\ WebTypes /\ RequestsInOrder /\ [Next]_vars => RequestsInOrder'
<1>1. Init => RequestsInOrder
  BY PipeInitType, PipeInitOrdered DEF Init, RequestsInOrder
<1>2. ASSUME WebTypes, RequestsInOrder, [Next]_vars PROVE RequestsInOrder'
  <2>1. PICK D, R : D = Due /\ R = ByRequest
    OBVIOUS
  <2>2. PipeTypeOK(D) /\ PipeOrdered(R) /\ PipeSane
    BY <1>2, <2>1 DEF RequestsInOrder, WebTypes
  <2>3. PipeTypeOK(D)' /\ PipeOrdered(R)'
    <3>1. CASE PipeStep
      BY <2>2, <3>1, PipeStepType, PipeStepOrdered
    <3>2. ASSUME NEW c \in Clients, NEW k \in req[c].todo, Proposes(c, k)
          PROVE  PipeTypeOK(D)' /\ PipeOrdered(R)'
      <4>1. req[c].node \in Replicas /\ PipeAccept(req[c].node, Cmd(c, k))
        BY <1>2, <3>2 DEF Proposes, WebTypes, TypeOK, Handler
      <4>2. log \in Seq(D) /\ limbo \in Seq(D) /\ Live \in Seq(D)
        BY <2>2, OrphansType DEF PipeTypeOK, RaftTypeOK
      <4>3. /\ Cmd(c, k) \in D
            /\ Follows(log, <<Cmd(c, k)>>, R) /\ Follows(limbo, <<Cmd(c, k)>>, R)
            /\ Follows(Live, <<Cmd(c, k)>>, R)
        BY <1>2, <2>1, <4>2, EmptySeq, ProposalIsLast
      <4> QED BY <2>2, <4>1, <4>3, PipeAcceptType, PipeAcceptOrdered
    <3>3. CASE UNCHANGED pipeVars
      BY <2>2, <3>3 DEF pipeVars, raftVars, PipeTypeOK, RaftTypeOK, PipeOrdered, Live
    <3> QED BY <1>2, <3>1, <3>2, <3>3, NextIsGroupStep DEF GroupStep, WebTypes
  <2>4. R = ByRequest'
    BY <2>1 DEF ByRequest
  <2>5. \A e \in D : e \in Due'
    <3> TAKE e \in D
    <3>1. e \in Entry /\ e.from \in Clients /\ e.num \in Nat /\ e.num <= Len(answers[e.from]) + 1
      BY <2>1 DEF Due, Entry
    <3> QED BY <1>2, <3>1, AnswersGrow DEF Due
  <2>6. PipeTypeOK(Due)'
    <3>1. PICK E : E = Due' /\ \A e \in D : e \in E
      BY <2>5
    <3>2. Seq(D) \subseteq Seq(E)
      BY <3>1, SeqMonotonic
    <3>3. PipeTypeOK(E)'
      BY <2>3, <3>2 DEF PipeTypeOK, RaftTypeOK
    <3> QED BY <3>1, <3>3 DEF PipeTypeOK, RaftTypeOK
  <2> QED BY <2>3, <2>4, <2>6 DEF RequestsInOrder, PipeOrdered
<1> QED BY <1>1, <1>2

(***************************************************************************)
(* No command of an answered request commits after one that its client     *)
(* sent later: not the second Delete of a DELETE, whose error nobody sees, *)
(* nor a POST that failed (handleKeyRequest, Store.Set, Store.Delete).     *)
(***************************************************************************)
THEOREM WebAnsweredIsOver == Spec => []AnsweredIsOver
<1>1. Spec => [](WebTypes /\ RequestsInOrder)
  BY WebTypesInductive, RequestsInOrderInductive, PTL DEF Spec
<1>2. RequestsInOrder => AnsweredIsOver
  BY DEF RequestsInOrder, PipeOrdered, CommitOrder, InOrder, ByRequest, AnsweredIsOver
<1> QED BY <1>1, <1>2, PTL

-----------------------------------------------------------------------------
(* What a step is to one handler, and to one node. *)

Busy(c) == req[c].st # "idle"
OpenAt(c) == req[c].st = "waiting" /\ req[c].idx = 0

\* c's request is over, with the status s.
Ends(c, s) ==
  /\ req'[c] = NoHandler
  /\ answers'[c] = Append(answers[c], [method |-> req[c].method, body |-> req[c].body, status |-> s,
                                       node |-> req[c].node, run |-> run[req[c].node],
                                       at |-> applied[req[c].node]])

\* A handler that waits for nothing that is still to commit ends its request.
EndsItself(c, s) ==
  /\ Ends(c, s) /\ req[c].st # "idle" /\ ~OpenAt(c) /\ UNCHANGED <<storeVars, countVars, pipeVars>>
  /\ \/ req[c].st = "ready" /\ s = (IF req[c].method = "GET" \/ req[c].again THEN "200" ELSE "500")
     \/ WriteAnswered(c) /\ s = "200"

\* Its node's fate ends it.
EndedBy(c, r, s) ==
  /\ Ends(c, s) /\ req[c].node = r /\ applied' = applied /\ run' = run
  /\ \/ StepDown(r) /\ OpenAt(c) /\ s = (IF req[c].again THEN "200" ELSE "500")
     \/ Crash(r) /\ Busy(c) /\ s = "broken"

\* The entry at the head of what r has in flight is c's, and commits.
CommitsFor(c, r) ==
  /\ Commit(r) /\ c \in Open(r) /\ c = Head(flight[r]).from
  /\ req'[c] = [req[c] EXCEPT !.idx = Len(log) + 1] /\ answers'[c] = answers[c]

\* It goes on, to another call.
GoesOn(c) ==
  /\ answers'[c] = answers[c] /\ UNCHANGED <<storeVars, countVars, pipeVars>>
  /\ \/ \E r \in Replicas, q \in Requests : Ask(c, r, q)
     \/ SetNext(c) \/ DeleteAgain(c)

\* All that can happen to c's handler.
HandlerStep(c) ==
  \/ req'[c] = req[c] /\ answers'[c] = answers[c]
  \/ GoesOn(c)
  \/ \E k \in req[c].todo : Proposes(c, k) /\ UNCHANGED <<storeVars, countVars>>
  \/ \E s \in {"200", "500"} : EndsItself(c, s)
  \/ \E r \in Replicas, s \in {"200", "500", "broken"} : EndedBy(c, r, s)
  \/ \E r \in Replicas : CommitsFor(c, r)

\* Return, of one of the clients it is for, and of another.
LEMMA ReturnEnds ==
  ASSUME WebTypes, NEW C, NEW status, Return(C, status), NEW c \in Clients
  PROVE  IF c \in C THEN Ends(c, status[c]) ELSE req'[c] = req[c] /\ answers'[c] = answers[c]
  BY DEF Return, Ends

\* Every step is one of these.
LEMMA NextIsHandlerStep == ASSUME WebTypes, [Next]_vars, NEW c \in Clients PROVE HandlerStep(c)
<1>0. req \in [Clients -> Handler] /\ answers \in [Clients -> Seq(Answer)] /\ req[c] \in Handler
  BY DEF WebTypes, TypeOK
<1>1. CASE UNCHANGED webVars
  BY <1>1 DEF webVars, HandlerStep
<1>2. ASSUME NEW d \in Clients, NEW s, ReturnOne(d, s)
      PROVE  IF c = d THEN Ends(c, s) ELSE req'[c] = req[c] /\ answers'[c] = answers[c]
  BY <1>2, ReturnEnds DEF ReturnOne
<1>3. ASSUME NEW d \in Clients, HandlerNext(d) PROVE HandlerStep(c)
  <2>1. CASE HandleGet(d)
    <3>1. c = d => EndsItself(c, "200")
      BY <1>2, <2>1 DEF HandleGet, EndsItself, OpenAt
    <3> QED BY <1>2, <2>1, <3>1 DEF HandleGet, HandlerStep
  <2>2. CASE WriteAnswered(d)
    <3>1. c = d => EndsItself(c, "200")
      <4>1. c = d => Ends(c, "200") /\ req[c].st = "waiting" /\ req[c].idx # 0 /\ UNCHANGED <<storeVars, countVars, pipeVars>>
        BY <1>2, <2>2 DEF WriteAnswered, Resolved
      <4> QED BY <2>2, <4>1 DEF EndsItself, OpenAt
    <3> QED BY <1>2, <2>2, <3>1 DEF WriteAnswered, HandlerStep
  <2>3. CASE Write(d)
    <3>1. req[d].st = "ready" /\ req[d].method # "GET" /\ UNCHANGED <<storeVars, countVars, canon>>
      BY <2>3 DEF Write
    <3>2. PICK k \in req[d].todo :
            \/ Proposes(d, k)
            \/ ReturnOne(d, IF req[d].again THEN "200" ELSE "500") /\ UNCHANGED pipeVars
      BY <2>3 DEF Write, Proposes
    <3>3. CASE Proposes(d, k)
      <4>1. c # d => req'[c] = req[c] /\ answers'[c] = answers[c]
        BY <1>0, <3>3 DEF Proposes
      <4> QED BY <3>1, <3>3, <4>1 DEF HandlerStep
    <3>4. CASE ReturnOne(d, IF req[d].again THEN "200" ELSE "500") /\ UNCHANGED pipeVars
      <4>1. c = d => EndsItself(c, IF req[c].again THEN "200" ELSE "500")
        BY <1>2, <3>1, <3>4 DEF EndsItself, OpenAt
      <4>2. c # d => req'[c] = req[c] /\ answers'[c] = answers[c]
        BY <1>2, <3>4
      <4> QED BY <4>1, <4>2 DEF HandlerStep
    <3> QED BY <3>2, <3>3, <3>4
  <2>4. CASE SetNext(d) \/ DeleteAgain(d)
    <3>1. answers' = answers /\ UNCHANGED <<storeVars, countVars, pipeVars>> /\ (c # d => req'[c] = req[c])
      BY <1>0, <2>4 DEF SetNext, DeleteAgain
    <3> QED BY <2>4, <3>1 DEF HandlerStep, GoesOn
  <2> QED BY <1>3, <2>1, <2>2, <2>3, <2>4 DEF HandlerNext
<1>4. ASSUME NEW d \in Clients, NEW r \in Replicas, NEW q \in Requests, Ask(d, r, q) PROVE HandlerStep(c)
  <2>1. answers' = answers /\ UNCHANGED <<storeVars, countVars, pipeVars>> /\ (c # d => req'[c] = req[c])
    BY <1>0, <1>4 DEF Ask
  <2> QED BY <1>4, <2>1 DEF HandlerStep, GoesOn
<1>5. ASSUME NEW r \in Replicas, NodeNext(r) PROVE HandlerStep(c)
  <2>1. CASE Crash(r)
    <3> DEFINE C == {d \in Clients : req[d].st # "idle" /\ req[d].node = r}
    <3>1. Return(C, [d \in C |-> "broken"]) /\ applied' = applied /\ run' = run
      BY <2>1 DEF Crash
    <3>2. c \in C => EndedBy(c, r, "broken")
      BY <2>1, <3>1, ReturnEnds DEF EndedBy, Busy
    <3>3. c \notin C => req'[c] = req[c] /\ answers'[c] = answers[c]
      BY <3>1, ReturnEnds
    <3> QED BY <3>2, <3>3 DEF HandlerStep
  <2>2. CASE ~Crash(r)
    BY <1>1, <1>5, <2>2 DEF NodeNext, Apply, TakeSnapshot, Persist, InstallSnapshot, Restart, webVars
  <2> QED BY <2>1, <2>2
<1>6. CASE RaftNext
  <2>1. ASSUME NEW r \in Replicas, StepDown(r) PROVE HandlerStep(c)
    <3>1. Return(Open(r), [d \in Open(r) |-> IF req[d].again THEN "200" ELSE "500"])
          /\ applied' = applied /\ run' = run
      BY <2>1 DEF StepDown, storeVars, countVars
    <3>2. c \in Open(r) => EndedBy(c, r, IF req[c].again THEN "200" ELSE "500")
      <4>1. c \in Open(r) => Ends(c, IF req[c].again THEN "200" ELSE "500")
        BY <3>1, ReturnEnds
      <4> QED BY <2>1, <3>1, <4>1 DEF EndedBy, Open, OpenAt
    <3>3. c \notin Open(r) => req'[c] = req[c] /\ answers'[c] = answers[c]
      BY <3>1, ReturnEnds
    <3> QED BY <3>2, <3>3 DEF HandlerStep
  <2>2. ASSUME NEW r \in Replicas, Commit(r) PROVE HandlerStep(c)
    <3>1. answers' = answers
          /\ req' = [d \in Clients |-> IF d \in Open(r) /\ d = Head(flight[r]).from
                                       THEN [req[d] EXCEPT !.idx = Len(log) + 1] ELSE req[d]]
      BY <2>2 DEF Commit
    <3> QED BY <2>2, <3>1 DEF HandlerStep, CommitsFor
  <2>3. ASSUME NEW r \in Replicas, Elect(r) PROVE HandlerStep(c)
    BY <1>1, <2>3 DEF Elect
  <2>4. ASSUME NEW i \in DOMAIN limbo, Inherit(i) PROVE HandlerStep(c)
    BY <1>1, <2>4 DEF Inherit
  <2> QED BY <1>6, <2>1, <2>2, <2>3, <2>4 DEF RaftNext
<1>7. CASE UNCHANGED vars
  BY <1>1, <1>7 DEF vars
<1> QED BY <1>3, <1>4, <1>5, <1>6, <1>7 DEF Next

\* A node that runs only applies more; one that restarts begins a new run.
LEMMA NodeStep ==
  ASSUME WebTypes, [Next]_vars, NEW r \in Replicas
  PROVE  /\ applied[r] \in Nat /\ applied'[r] \in Nat /\ run[r] \in Nat /\ run'[r] \in Nat
         /\ \/ applied[r] <= applied'[r] /\ run'[r] = run[r]
            \/ r \notin alive /\ run'[r] = run[r] + 1
<1> DEFINE Goal == \/ applied[r] <= applied'[r] /\ run'[r] = run[r]
                   \/ r \notin alive /\ run'[r] = run[r] + 1
<1>0. /\ applied \in [Replicas -> Nat] /\ run \in [Replicas -> Nat] /\ saved \in [Replicas -> Snapshot]
      /\ applied' \in [Replicas -> Nat] /\ run' \in [Replicas -> Nat]
  BY StoreTypes DEF WebTypes, TypeOK
<1>1. CASE UNCHANGED <<storeVars, countVars>>
  BY <1>0, <1>1 DEF storeVars, countVars
<1>2. ASSUME NEW s \in Replicas, NodeNext(s) PROVE Goal
  <2>1. CASE Apply(s)
    BY <1>0, <2>1 DEF Apply, countVars
  <2>2. CASE TakeSnapshot(s) \/ Persist(s) \/ Crash(s)
    BY <1>0, <2>2 DEF TakeSnapshot, Persist, Crash, countVars
  <2>3. CASE InstallSnapshot(s)
    <3>1. leader \in Replicas
      BY <2>3 DEF InstallSnapshot, WebTypes, TypeOK, PipeTypeOK, RaftTypeOK
    <3>2. saved[leader].idx \in Nat
      BY <1>0, <3>1 DEF Snapshot
    <3> QED BY <1>0, <2>3, <3>2 DEF InstallSnapshot, countVars
  <2>4. CASE Restart(s)
    BY <1>0, <2>4 DEF Restart
  <2> QED BY <1>2, <2>1, <2>2, <2>3, <2>4 DEF NodeNext
<1>3. ASSUME NEW c \in Clients, HandlerNext(c) PROVE Goal
  BY <1>1, <1>3 DEF HandlerNext, HandleGet, Write, SetNext, DeleteAgain, WriteAnswered
<1>4. ASSUME NEW c \in Clients, NEW s \in Replicas, NEW q \in Requests, Ask(c, s, q) PROVE Goal
  BY <1>1, <1>4 DEF Ask
<1>5. CASE RaftNext
  BY <1>1, <1>5 DEF RaftNext, Elect, StepDown, Commit, Inherit
<1>6. CASE UNCHANGED vars
  BY <1>1, <1>6 DEF vars
<1> QED BY <1>0, <1>2, <1>3, <1>4, <1>5, <1>6 DEF Next

\* A node whose process ends takes its handlers with it.
LEMMA AliveStep ==
  ASSUME WebTypes, [Next]_vars, NEW c \in Clients, Busy(c), req[c].node \in alive
  PROVE  req[c].node \in alive' \/ req'[c] = NoHandler
<1>1. ASSUME NEW r \in Replicas, Crash(r) PROVE req[c].node \in alive' \/ req'[c] = NoHandler
  <2>1. alive' = alive \ {r}
    BY <1>1 DEF Crash, PipeDie, RaftDie
  <2>2. req[c].node = r => req'[c] = NoHandler
    BY <1>1 DEF Crash, Return, Busy
  <2> QED BY <2>1, <2>2
<1>2. ASSUME NEW r \in Replicas, NodeNext(r), ~Crash(r) PROVE alive \subseteq alive'
  BY <1>2 DEF NodeNext, Apply, TakeSnapshot, Persist, InstallSnapshot, Restart, RaftRestart, pipeVars, raftVars
<1>3. ASSUME NEW d \in Clients, HandlerNext(d) PROVE alive \subseteq alive'
  BY <1>3 DEF HandlerNext, HandleGet, Write, SetNext, DeleteAgain, WriteAnswered, PipeAccept, pipeVars, raftVars
<1>4. ASSUME NEW d \in Clients, NEW r \in Replicas, NEW q \in Requests, Ask(d, r, q) PROVE alive \subseteq alive'
  BY <1>4 DEF Ask, pipeVars, raftVars
<1>5. ASSUME RaftNext PROVE alive \subseteq alive'
  BY <1>5 DEF RaftNext, Elect, StepDown, Commit, Inherit, PipeElect, RaftElect, PipeStepDown, RaftStepDown,
              PipeCommit, RaftCommit, PipeInherit, RaftInherit
<1>6. CASE UNCHANGED vars
  BY <1>6 DEF vars, pipeVars, raftVars
<1> QED BY <1>1, <1>2, <1>3, <1>4, <1>5, <1>6 DEF Next

\* What is in the log stays at its place.
LEMMA PlacesStay ==
  ASSUME WebTypes, [Next]_vars
  PROVE  /\ Len(log) \in Nat /\ DOMAIN log = 1..Len(log)
         /\ \A c, n, k : Places(c, n, k) \subseteq Places(c, n, k)' /\ Places(c, n, k) \subseteq 1..Len(log)
<1>1. log \in Seq(Entry) /\ Len(log) \in Nat /\ DOMAIN log = 1..Len(log)
  BY DEF WebTypes, TypeOK, PipeTypeOK, RaftTypeOK
<1>2. \A i \in DOMAIN log : i \in DOMAIN log' /\ log'[i] = log[i]
  BY <1>1, CanonGrows, AppendProperties
<1> QED BY <1>1, <1>2 DEF Places

-----------------------------------------------------------------------------
(* The handlers, and what is in flight for them. *)

\* The number of c's next answer.
Present(c) == Len(answers[c]) + 1

\* The command for k of c's n-th request is one of the first i entries.
AppliedAt(c, n, k, i) == \E p \in Places(c, n, k) : p <= i

(***************************************************************************)
(* A handler's node runs; what it has written its node has applied, but    *)
(* for the command whose future it waits for, and that is at idx once it   *)
(* is committed.                                                           *)
(***************************************************************************)
HandlerInv(c) ==
  /\ Busy(c) => req[c].node \in alive
  /\ req[c].again => req[c].method = "DELETE"
  /\ req[c].method = "DELETE" => \E k \in Keys : DOMAIN req[c].body = {k} /\ req[c].todo = {k}
  /\ req[c].st = "waiting" => req[c].key \in req[c].todo /\ req[c].method # "GET"
  /\ req[c].st # "waiting" => req[c].idx = 0
  /\ req[c].idx # 0 => req[c].idx \in Places(c, Present(c), req[c].key)
  /\ Busy(c) => \A k \in DOMAIN req[c].body :
                  req[c].again \/ k \notin req[c].todo => AppliedAt(c, Present(c), k, applied[req[c].node])

\* e is the command whose future its client's handler at r waits for.
Awaited(r, e) ==
  /\ OpenAt(e.from) /\ req[e.from].node = r
  /\ e.num = Present(e.from) /\ e.key = req[e.from].key

\* Every command in flight is awaited, each by another handler.
FlightInv ==
  \A r \in Replicas : \A i \in DOMAIN flight[r] :
    /\ Awaited(r, flight[r][i])
    /\ \A j \in DOMAIN flight[r] : i # j => flight[r][j].from # flight[r][i].from

\* A command is awaited until it commits, or its node loses the lead or dies.
LEMMA AwaitedStays ==
  ASSUME WebTypes, [Next]_vars, NEW r \in Replicas, NEW e \in Entry, Awaited(r, e)
  PROVE  \/ (Awaited(r, e))'
         \/ StepDown(r) \/ Crash(r)
         \/ Commit(r) /\ Head(flight[r]).from = e.from
<1> DEFINE c == e.from
<1>1. c \in Clients /\ HandlerStep(c)
  BY NextIsHandlerStep DEF Entry
<1>2. OpenAt(c) /\ req[c].node = r /\ req[c].st = "waiting" /\ req[c].idx = 0
  BY DEF Awaited, OpenAt
<1> HIDE DEF c
<1>3. CASE req'[c] = req[c] /\ answers'[c] = answers[c]
  BY <1>3 DEF Awaited, OpenAt, Present, c
<1>4. CASE GoesOn(c)
  BY <1>2, <1>4 DEF GoesOn, Ask, SetNext, DeleteAgain, Resolved
<1>5. ASSUME NEW k, Proposes(c, k) PROVE FALSE
  BY <1>2, <1>5 DEF Proposes
<1>6. ASSUME NEW s, EndsItself(c, s) PROVE FALSE
  BY <1>2, <1>6 DEF EndsItself
<1>7. ASSUME NEW r2 \in Replicas, NEW s, EndedBy(c, r2, s) PROVE StepDown(r) \/ Crash(r)
  BY <1>2, <1>7 DEF EndedBy
<1>8. ASSUME NEW r2 \in Replicas, CommitsFor(c, r2) PROVE Commit(r) /\ Head(flight[r]).from = c
  BY <1>2, <1>8 DEF CommitsFor, Open
<1> QED BY <1>1, <1>3, <1>4, <1>5, <1>6, <1>7, <1>8 DEF HandlerStep, c

\* What a step is to what r has in flight.
LEMMA FlightStep ==
  ASSUME WebTypes, [Next]_vars, NEW r \in Replicas
  PROVE  IF StepDown(r) \/ Crash(r) THEN flight'[r] = <<>>
         ELSE IF Commit(r) THEN flight'[r] = Tail(flight[r]) /\ flight[r] # <<>>
         ELSE \/ flight'[r] = flight[r]
              \/ \E c \in Clients : \E k \in req[c].todo :
                   Proposes(c, k) /\ req[c].node = r /\ flight'[r] = Append(flight[r], Cmd(c, k))
<1>0. flight \in [Replicas -> Seq(Entry)]
  BY DEF WebTypes, TypeOK, PipeTypeOK
<1>1. StepDown(r) \/ Crash(r) => flight'[r] = <<>>
  BY <1>0 DEF StepDown, Crash, PipeStepDown, PipeDie
<1>2. Commit(r) => flight'[r] = Tail(flight[r]) /\ flight[r] # <<>>
  BY <1>0 DEF Commit, PipeCommit
<1>3. ASSUME ~StepDown(r), ~Crash(r), ~Commit(r)
      PROVE  \/ flight'[r] = flight[r]
             \/ \E c \in Clients : \E k \in req[c].todo :
                  Proposes(c, k) /\ req[c].node = r /\ flight'[r] = Append(flight[r], Cmd(c, k))
  <2>1. ASSUME NEW c \in Clients, NEW k \in req[c].todo, Proposes(c, k)
        PROVE  flight'[r] = flight[r] \/ (req[c].node = r /\ flight'[r] = Append(flight[r], Cmd(c, k)))
    BY <1>0, <2>1 DEF Proposes, PipeAccept
  <2>2. ASSUME UNCHANGED pipeVars PROVE flight'[r] = flight[r]
    BY <2>2 DEF pipeVars
  <2>3. ASSUME NEW s \in Replicas, s # r, \/ PipeDie(s) \/ PipeStepDown(s) \/ PipeCommit(s)
        PROVE  flight'[r] = flight[r]
    BY <1>0, <2>3 DEF PipeDie, PipeStepDown, PipeCommit
  <2>4. ASSUME NEW s \in Replicas, NodeNext(s) PROVE flight'[r] = flight[r]
    <3>1. CASE Crash(s)
      BY <1>3, <2>3, <3>1 DEF Crash
    <3>2. CASE Restart(s)
      BY <3>2 DEF Restart
    <3>3. CASE ~Crash(s) /\ ~Restart(s)
      BY <2>2, <2>4, <3>3 DEF NodeNext, Apply, TakeSnapshot, Persist, InstallSnapshot
    <3> QED BY <3>1, <3>2, <3>3
  <2>5. ASSUME NEW s \in Replicas, StepDown(s) \/ Commit(s) PROVE flight'[r] = flight[r]
    BY <1>3, <2>3, <2>5 DEF StepDown, Commit
  <2>6. ASSUME RaftNext PROVE flight'[r] = flight[r]
    BY <2>5, <2>6 DEF RaftNext, Elect, Inherit, PipeElect, PipeInherit
  <2>7. ASSUME NEW c \in Clients, HandlerNext(c)
        PROVE  flight'[r] = flight[r] \/ \E k \in req[c].todo : Proposes(c, k)
    <3>1. CASE Write(c)
      <4>1. (\E k \in req[c].todo : Proposes(c, k)) \/ UNCHANGED pipeVars
        BY <3>1 DEF Write, Proposes
      <4> QED BY <2>2, <4>1
    <3>2. CASE ~Write(c)
      BY <2>2, <2>7, <3>2 DEF HandlerNext, HandleGet, SetNext, DeleteAgain, WriteAnswered
    <3> QED BY <3>1, <3>2
  <2>8. ASSUME NEW c \in Clients, NEW s \in Replicas, NEW q \in Requests, Ask(c, s, q) PROVE flight'[r] = flight[r]
    BY <2>2, <2>8 DEF Ask
  <2>9. CASE UNCHANGED vars
    BY <2>2, <2>9 DEF vars
  <2> QED BY <2>1, <2>4, <2>6, <2>7, <2>8, <2>9 DEF Next
<1> QED BY <1>1, <1>2, <1>3

\* Every step keeps what is in flight awaited.
LEMMA FlightInvStep ==
  ASSUME WebTypes, FlightInv, \A c \in Clients : HandlerInv(c), [Next]_vars
  PROVE  FlightInv'
<1> SUFFICES ASSUME NEW r \in Replicas, NEW i \in DOMAIN flight'[r]
             PROVE  /\ (Awaited(r, flight[r][i]))'
                    /\ \A j \in DOMAIN flight'[r] : i # j => flight'[r][j].from # flight'[r][i].from
  BY DEF FlightInv
<1>0. flight[r] \in Seq(Entry) /\ DOMAIN flight[r] = 1..Len(flight[r]) /\ Len(flight[r]) \in Nat
      /\ \A j \in DOMAIN flight[r] : flight[r][j] \in Entry
  BY DEF WebTypes, TypeOK, PipeTypeOK
<1>1. ~(StepDown(r) \/ Crash(r))
  BY FlightStep
<1>2. \A j \in DOMAIN flight[r] :
        Awaited(r, flight[r][j]) /\ \A l \in DOMAIN flight[r] : j # l => flight[r][l].from # flight[r][j].from
  BY DEF FlightInv
<1>4. CASE Commit(r)
  <2>1. flight'[r] = Tail(flight[r]) /\ flight[r] # <<>>
    BY <1>1, <1>4, FlightStep
  <2>2. /\ \A j \in DOMAIN flight'[r] : j \in Nat /\ j + 1 \in DOMAIN flight[r] /\ flight'[r][j] = flight[r][j + 1] /\ 1 < j + 1
        /\ 1 \in DOMAIN flight[r] /\ flight[r][1] = Head(flight[r])
    BY <1>0, <2>1, TailElements
  <2>3. ASSUME NEW e, e = flight'[r][i] PROVE (Awaited(r, e))'
    <3>1. e \in Entry /\ Awaited(r, e) /\ e.from # Head(flight[r]).from
      <4>1. e = flight[r][i + 1] /\ i + 1 # 1 /\ i + 1 \in DOMAIN flight[r]
        BY <2>2, <2>3
      <4> QED BY <1>0, <1>2, <2>2, <4>1
    <3> QED BY <1>1, <3>1, AwaitedStays
  <2>4. \A j \in DOMAIN flight'[r] : i # j => flight'[r][j].from # flight'[r][i].from
    <3> SUFFICES ASSUME NEW j \in DOMAIN flight'[r], i # j PROVE flight'[r][j].from # flight'[r][i].from
      OBVIOUS
    <3>1. i + 1 # j + 1
      BY <2>2
    <3> QED BY <1>2, <2>2, <3>1
  <2> QED BY <2>3, <2>4 DEF Awaited, OpenAt, Present
<1>5. CASE ~Commit(r)
  <2>1. ASSUME NEW j \in DOMAIN flight[r], NEW e, e = flight[r][j] PROVE (Awaited(r, e))'
    BY <1>0, <1>1, <1>2, <1>5, <2>1, AwaitedStays
  <2>2. CASE flight'[r] = flight[r]
    <3>1. ASSUME NEW e, e = flight'[r][i] PROVE (Awaited(r, e))'
      BY <2>1, <2>2, <3>1
    <3> QED BY <1>2, <2>2, <3>1 DEF Awaited, OpenAt, Present
  <2>3. ASSUME NEW c \in Clients, NEW k \in req[c].todo, Proposes(c, k), req[c].node = r,
               flight'[r] = Append(flight[r], Cmd(c, k))
        PROVE  /\ (Awaited(r, flight[r][i]))'
               /\ \A j \in DOMAIN flight'[r] : i # j => flight'[r][j].from # flight'[r][i].from
    <3>0. PICK n \in Entry : n = Cmd(c, k)
      BY CmdType DEF WebTypes
    <3>1. n.from = c /\ n.num = Present(c) /\ n.key = k
      BY <3>0 DEF Cmd, Present
    <3>2. /\ DOMAIN flight'[r] = 1..Len(flight[r]) + 1 /\ flight'[r][Len(flight[r]) + 1] = n
          /\ \A j \in 1..Len(flight[r]) : flight'[r][j] = flight[r][j]
      BY <1>0, <2>3, <3>0, AppendProperties
    <3>3. (Awaited(r, n))'
      <4>1. req'[c].st = "waiting" /\ req'[c].key = k /\ req'[c].node = r /\ req'[c].idx = req[c].idx /\ answers' = answers
        BY <2>3 DEF Proposes, WebTypes, TypeOK, Handler
      <4>2. req[c].idx = 0
        BY <2>3 DEF Proposes, HandlerInv
      <4> QED BY <3>1, <4>1, <4>2 DEF Awaited, OpenAt, Present
    <3>4. \A j \in 1..Len(flight[r]) : flight[r][j].from # c
      BY <1>0, <1>2, <2>3 DEF Proposes, Awaited, OpenAt
    <3>5. ASSUME NEW e, e = flight'[r][i] PROVE (Awaited(r, e))'
      <4>1. CASE i = Len(flight[r]) + 1
        BY <3>2, <3>3, <3>5, <4>1
      <4>2. CASE i \in 1..Len(flight[r])
        BY <1>0, <2>1, <3>2, <3>5, <4>2
      <4> QED BY <1>0, <3>2, <4>1, <4>2
    <3>6. ASSUME NEW j \in DOMAIN flight'[r], i # j PROVE flight'[r][j].from # flight'[r][i].from
      <4>1. CASE i \in 1..Len(flight[r]) /\ j \in 1..Len(flight[r])
        BY <1>0, <1>2, <3>2, <3>6, <4>1
      <4>2. CASE i = Len(flight[r]) + 1 /\ j \in 1..Len(flight[r])
        BY <3>1, <3>2, <3>4, <4>2
      <4>3. CASE j = Len(flight[r]) + 1 /\ i \in 1..Len(flight[r])
        BY <3>1, <3>2, <3>4, <4>3
      <4> QED BY <1>0, <3>2, <3>6, <4>1, <4>2, <4>3
    <3> QED BY <3>5, <3>6 DEF Awaited, OpenAt, Present
  <2> QED BY <1>1, <1>5, <2>2, <2>3, FlightStep
<1> QED BY <1>4, <1>5

\* Every step keeps what the handlers have done.
LEMMA HandlerInvStep ==
  ASSUME WebTypes, FlightInv, \A d \in Clients : HandlerInv(d), [Next]_vars, NEW c \in Clients
  PROVE  HandlerInv(c)'
<1>0. req[c] \in Handler /\ HandlerInv(c) /\ HandlerStep(c) /\ req \in [Clients -> Handler]
  BY NextIsHandlerStep DEF WebTypes, TypeOK
<1>1. ASSUME NEW n, NEW k, NEW i \in Nat, NEW j \in Nat, i <= j, AppliedAt(c, n, k, i) PROVE (AppliedAt(c, n, k, j))'
  <2>1. PICK p \in Places(c, n, k) : p <= i
    BY <1>1 DEF AppliedAt
  <2>2. p \in Places(c, n, k)' /\ p \in Nat
    BY PlacesStay
  <2>3. p <= j
    BY <1>1, <2>1, <2>2
  <2> QED BY <2>2, <2>3 DEF AppliedAt
<1>2. CASE req'[c] = NoHandler
  BY <1>2 DEF HandlerInv, Busy, NoHandler
<1>3. CASE req'[c] = req[c] /\ answers'[c] = answers[c] /\ req'[c] # NoHandler
  <2>1. Present(c)' = Present(c) /\ (Busy(c))' = Busy(c)
    BY <1>3 DEF Present, Busy
  <2>2. ASSUME Busy(c) PROVE req[c].node \in alive /\ req[c].node \in alive' /\ req[c].node \in Replicas
    BY <1>0, <1>3, <2>2, AliveStep DEF HandlerInv, Handler
  <2>3. ASSUME Busy(c), NEW k \in DOMAIN req[c].body, req[c].again \/ k \notin req[c].todo
        PROVE  (AppliedAt(c, Present(c), k, applied[req[c].node]))'
    <3>1. AppliedAt(c, Present(c), k, applied[req[c].node])
      BY <1>0, <2>3 DEF HandlerInv
    <3>2. applied[req[c].node] \in Nat /\ applied'[req[c].node] \in Nat /\ applied[req[c].node] <= applied'[req[c].node]
      BY <2>2, <2>3, NodeStep
    <3>3. PICK n : n = Present(c)
      OBVIOUS
    <3>4. \E p \in Places(c, n, k)' : p <= applied'[req[c].node]
      BY <1>1, <3>1, <3>2, <3>3 DEF AppliedAt
    <3> QED BY <1>3, <2>1, <3>3, <3>4 DEF AppliedAt
  <2>4. req[c].idx # 0 => (req[c].idx \in Places(c, Present(c), req[c].key))'
    <3>1. PICK n, k, i : n = Present(c) /\ k = req[c].key /\ i = req[c].idx
      OBVIOUS
    <3>2. i # 0 => i \in Places(c, n, k)'
      BY <1>0, <3>1, PlacesStay DEF HandlerInv
    <3> QED BY <1>3, <2>1, <3>1, <3>2
  <2> QED BY <1>0, <1>3, <2>1, <2>2, <2>3, <2>4 DEF HandlerInv, Busy
<1>4. CASE GoesOn(c)
  <2>0. /\ applied' = applied /\ alive' = alive /\ log' = log /\ Present(c)' = Present(c)
        /\ \A n, k, i : (AppliedAt(c, n, k, i) => \E p \in Places(c, n, k)' : p <= i)
    BY <1>4 DEF GoesOn, storeVars, pipeVars, raftVars, Present, AppliedAt, Places
  <2>1. ASSUME NEW r \in Replicas, NEW q \in Requests, Ask(c, r, q) PROVE HandlerInv(c)'
    <3>1. q \in Request /\ q.body # <<>> /\ (q.method # "POST" => \E k \in Keys : DOMAIN q.body = {k})
      BY WebAssumption DEF WebAssumption
    <3>2. /\ req'[c].st = "ready" /\ req'[c].node = r /\ req'[c].method = q.method /\ req'[c].body = q.body
          /\ req'[c].todo = DOMAIN q.body /\ req'[c].again = FALSE /\ req'[c].idx = 0 /\ r \in alive
      BY <1>0, <2>1 DEF Ask, NoHandler
    <3> QED BY <2>0, <3>1, <3>2 DEF HandlerInv
  <2>2. ASSUME Resolved(c) PROVE AppliedAt(c, Present(c), req[c].key, applied[req[c].node]) /\ req[c].key \in req[c].todo
    <3>1. req[c].idx \in 1..applied[req[c].node] /\ req[c].st = "waiting" /\ applied[req[c].node] \in Nat
      BY <1>0, <2>2 DEF Resolved, Handler, WebTypes, TypeOK
    <3>2. req[c].idx \in Places(c, Present(c), req[c].key) /\ req[c].key \in req[c].todo
      BY <1>0, <3>1 DEF HandlerInv
    <3> QED BY <3>1, <3>2 DEF AppliedAt
  <2>3. CASE SetNext(c)
    <3>1. /\ Resolved(c) /\ req[c].method = "POST" /\ ~req[c].again /\ Busy(c)
          /\ req'[c].st = "ready" /\ req'[c].idx = 0 /\ req'[c].todo = req[c].todo \ {req[c].key}
          /\ req'[c].node = req[c].node /\ req'[c].method = "POST" /\ req'[c].body = req[c].body
          /\ req'[c].again = FALSE
      BY <1>0, <2>3 DEF SetNext, Resolved, Busy, HandlerInv, Handler
    <3>2. ASSUME NEW k \in DOMAIN req[c].body, k \notin req'[c].todo
          PROVE  AppliedAt(c, Present(c), k, applied[req[c].node])
      BY <1>0, <2>2, <3>1, <3>2 DEF HandlerInv
    <3>3. req[c].node \in alive
      BY <1>0, <3>1 DEF HandlerInv
    <3> QED BY <2>0, <3>1, <3>2, <3>3 DEF HandlerInv, Busy, AppliedAt
  <2>4. CASE DeleteAgain(c)
    <3>1. /\ Resolved(c) /\ req[c].method = "DELETE" /\ Busy(c)
          /\ req'[c].st = "ready" /\ req'[c].idx = 0 /\ req'[c].todo = req[c].todo
          /\ req'[c].node = req[c].node /\ req'[c].method = "DELETE" /\ req'[c].body = req[c].body
          /\ req'[c].again = TRUE
      BY <1>0, <2>4 DEF DeleteAgain, Resolved, Busy, Handler
    <3>2. PICK k \in Keys : DOMAIN req[c].body = {k} /\ req[c].todo = {k}
      BY <1>0, <3>1 DEF HandlerInv
    <3>3. AppliedAt(c, Present(c), k, applied[req[c].node])
      BY <2>2, <3>1, <3>2
    <3>4. req[c].node \in alive
      BY <1>0, <3>1 DEF HandlerInv
    <3> QED BY <2>0, <3>1, <3>2, <3>3, <3>4 DEF HandlerInv, Busy, AppliedAt
  <2> QED BY <1>4, <2>1, <2>3, <2>4 DEF GoesOn
<1>5. ASSUME NEW k \in req[c].todo, Proposes(c, k), UNCHANGED <<storeVars, countVars>> PROVE HandlerInv(c)'
  <2>0. /\ applied' = applied /\ alive' = alive /\ log' = log /\ Present(c)' = Present(c)
        /\ \A n, x, i : (AppliedAt(c, n, x, i) => \E p \in Places(c, n, x)' : p <= i)
    BY <1>5 DEF Proposes, PipeAccept, storeVars, raftVars, Present, AppliedAt, Places
  <2>1. /\ req[c].st = "ready" /\ req[c].method # "GET" /\ Busy(c) /\ req[c].idx = 0
        /\ req'[c].st = "waiting" /\ req'[c].key = k /\ req'[c].idx = 0 /\ req'[c].todo = req[c].todo
        /\ req'[c].node = req[c].node /\ req'[c].method = req[c].method /\ req'[c].body = req[c].body
        /\ req'[c].again = req[c].again
    BY <1>0, <1>5 DEF Proposes, Busy, HandlerInv, Handler
  <2>2. /\ req[c].node \in alive
        /\ \A x \in DOMAIN req[c].body :
             req[c].again \/ x \notin req[c].todo => AppliedAt(c, Present(c), x, applied[req[c].node])
    BY <1>0, <2>1 DEF HandlerInv
  <2>3. \A x \in DOMAIN req[c].body :
          req[c].again \/ x \notin req[c].todo => (AppliedAt(c, Present(c), x, applied[req[c].node]))'
    BY <2>0, <2>1, <2>2 DEF AppliedAt
  <2>4. /\ req[c].again => req[c].method = "DELETE"
        /\ req[c].method = "DELETE" => \E x \in Keys : DOMAIN req[c].body = {x} /\ req[c].todo = {x}
    BY <1>0 DEF HandlerInv
  <2> QED BY <2>0, <2>1, <2>2, <2>3, <2>4 DEF HandlerInv, Busy, AppliedAt
<1>6. ASSUME NEW s, EndsItself(c, s) PROVE req'[c] = NoHandler
  BY <1>6 DEF EndsItself, Ends
<1>7. ASSUME NEW r, NEW s, EndedBy(c, r, s) PROVE req'[c] = NoHandler
  BY <1>7 DEF EndedBy, Ends
<1>8. ASSUME NEW r \in Replicas, CommitsFor(c, r) PROVE HandlerInv(c)'
  <2>1. /\ log' = Append(log, Head(flight[r])) /\ flight[r] # <<>> /\ alive' = alive /\ applied' = applied
        /\ c = Head(flight[r]).from /\ answers'[c] = answers[c] /\ Len(log) \in Nat
    BY <1>8 DEF CommitsFor, Commit, PipeCommit, RaftCommit, storeVars, WebTypes, TypeOK, PipeTypeOK, RaftTypeOK
  <2>2. PICK e \in Entry : e = Head(flight[r]) /\ Awaited(r, e)
    <3>1. flight[r] \in Seq(Entry)
      BY DEF WebTypes, TypeOK, PipeTypeOK
    <3>2. 1 \in DOMAIN flight[r] /\ flight[r][1] = Head(flight[r]) /\ Head(flight[r]) \in Entry
      BY <2>1, <3>1, TailElements
    <3>3. Awaited(r, flight[r][1])
      BY <3>2 DEF FlightInv
    <3> QED BY <3>2, <3>3
  <2>3. e.from = c /\ e.num = Present(c) /\ e.key = req[c].key /\ req[c].st = "waiting" /\ req[c].node = r
    BY <2>1, <2>2 DEF Awaited, OpenAt
  <2>4. \A n, k : n = Present(c) /\ k = req[c].key => Len(log) + 1 \in Places(c, n, k)'
    <3>1. log \in Seq(Entry)
      BY DEF WebTypes, TypeOK, PipeTypeOK, RaftTypeOK
    <3>2. Len(log) + 1 \in DOMAIN log' /\ log'[Len(log) + 1] = e
      BY <2>1, <2>2, <3>1, AppendProperties
    <3> QED BY <2>3, <3>2 DEF Places
  <2>5. /\ req'[c].st = "waiting" /\ req'[c].key = req[c].key /\ req'[c].idx = Len(log) + 1
        /\ req'[c].todo = req[c].todo /\ req'[c].node = req[c].node /\ req'[c].method = req[c].method
        /\ req'[c].body = req[c].body /\ req'[c].again = req[c].again
    BY <1>0, <1>8, <2>3 DEF CommitsFor, Handler
  <2>6. \A x \in DOMAIN req[c].body :
          req[c].again \/ x \notin req[c].todo => (AppliedAt(c, Present(c), x, applied[req[c].node]))'
    <3>1. applied[req[c].node] \in Nat
      BY <1>0 DEF WebTypes, TypeOK, Handler
    <3>2. Present(c)' = Present(c)
      BY <2>1 DEF Present
    <3>3. ASSUME NEW x \in DOMAIN req[c].body, req[c].again \/ x \notin req[c].todo
          PROVE  (AppliedAt(c, Present(c), x, applied[req[c].node]))'
      <4>1. AppliedAt(c, Present(c), x, applied[req[c].node])
        BY <1>0, <2>3, <3>3 DEF HandlerInv, Busy
      <4>2. PICK n : n = Present(c)
        OBVIOUS
      <4>3. \E p \in Places(c, n, x)' : p <= applied[req[c].node]
        BY <4>1, <4>2, PlacesStay DEF AppliedAt
      <4> QED BY <2>1, <2>5, <3>2, <4>2, <4>3 DEF AppliedAt
    <3> QED BY <3>3
  <2>7. /\ req[c].node \in alive
        /\ req[c].again => req[c].method = "DELETE"
        /\ req[c].method = "DELETE" => \E x \in Keys : DOMAIN req[c].body = {x} /\ req[c].todo = {x}
        /\ req[c].key \in req[c].todo /\ req[c].method # "GET"
    BY <1>0, <2>3 DEF HandlerInv, Busy
  <2>8. Present(c)' = Present(c)
    BY <2>1 DEF Present
  <2>9. (req[c].idx \in Places(c, Present(c), req[c].key))'
    <3>1. PICK n, k : n = Present(c) /\ k = req[c].key
      OBVIOUS
    <3>2. Len(log) + 1 \in Places(c, n, k)'
      BY <2>4, <3>1
    <3> QED BY <2>5, <2>8, <3>1, <3>2
  <2> QED BY <2>1, <2>5, <2>6, <2>7, <2>8, <2>9 DEF HandlerInv, Busy
<1> QED BY <1>0, <1>2, <1>3, <1>4, <1>5, <1>6, <1>7, <1>8 DEF HandlerStep

-----------------------------------------------------------------------------
(* What was answered. *)

\* The writes of an answer with 200 were applied at its node by then.
Kept200(c, i, a) ==
  a.method # "GET" /\ a.status = "200" => \A k \in DOMAIN a.body : AppliedAt(c, i, k, a.at)

\* And the node has not gone back behind it, in the same run.
AnswerInv(c) ==
  \A i \in DOMAIN answers[c] :
    LET a == answers[c][i] IN
    /\ a.run <= run[a.node] /\ (a.run = run[a.node] => a.at <= applied[a.node])
    /\ Kept200(c, i, a)
    /\ \A j \in DOMAIN answers[c] :
         LET b == answers[c][j] IN i < j /\ a.node = b.node /\ a.run = b.run => a.at <= b.at

\* What a handler's end says of its writes.
LEMMA EndIsTrue ==
  ASSUME WebTypes, NEW c \in Clients, HandlerInv(c), NEW s,
         EndsItself(c, s) \/ \E r \in Replicas : EndedBy(c, r, s), req[c].method # "GET", s = "200"
  PROVE  \A k \in DOMAIN req[c].body : AppliedAt(c, Present(c), k, applied[req[c].node])
<1>0. req[c] \in Handler /\ applied[req[c].node] \in Nat
  BY DEF WebTypes, TypeOK, Handler
<1>1. CASE req[c].again /\ Busy(c)
  BY <1>1 DEF HandlerInv
<1>2. CASE WriteAnswered(c) /\ ~req[c].again
  <2>1. /\ req[c].st = "waiting" /\ req[c].idx \in 1..applied[req[c].node]
        /\ req[c].method = "POST" /\ req[c].todo = {req[c].key}
    BY <1>2 DEF WriteAnswered, Resolved
  <2>2. AppliedAt(c, Present(c), req[c].key, applied[req[c].node])
    BY <1>0, <2>1 DEF HandlerInv, AppliedAt
  <2> QED BY <2>1, <2>2 DEF HandlerInv, Busy
<1>3. ASSUME EndsItself(c, s) PROVE Busy(c) /\ (req[c].again \/ WriteAnswered(c))
  BY <1>3 DEF EndsItself, Busy
<1>4. ASSUME NEW r \in Replicas, EndedBy(c, r, s) PROVE Busy(c) /\ req[c].again
  BY <1>4 DEF EndedBy, OpenAt, Busy
<1> QED BY <1>1, <1>2, <1>3, <1>4

\* Every step keeps it.
LEMMA AnswerInvStep ==
  ASSUME WebTypes, NEW c \in Clients, HandlerInv(c), AnswerInv(c), [Next]_vars
  PROVE  AnswerInv(c)'
<1>n. PICK n : n = Len(answers[c])
  OBVIOUS
<1>0. answers[c] \in Seq(Answer) /\ n \in Nat /\ DOMAIN answers[c] = 1..n
      /\ \A i \in 1..n : answers[c][i] \in Answer /\ answers[c][i].node \in Replicas /\ answers[c][i].run \in Nat
                         /\ answers[c][i].at \in Nat
  <2>1. answers[c] \in Seq(Answer)
    BY DEF WebTypes, TypeOK
  <2>2. \A i \in 1..n : answers[c][i] \in Answer
    BY <1>n, <2>1
  <2> QED BY <1>n, <2>1, <2>2 DEF Answer
<1>1. ASSUME NEW i \in 1..n, NEW a, a = answers[c][i]
      PROVE  /\ a.run <= run'[a.node] /\ (a.run = run'[a.node] => a.at <= applied'[a.node])
             /\ (Kept200(c, i, a))'
  <2>1. a.run <= run[a.node] /\ (a.run = run[a.node] => a.at <= applied[a.node]) /\ Kept200(c, i, a)
    BY <1>0, <1>1 DEF AnswerInv
  <2>2. /\ a.node \in Replicas /\ a.run \in Nat /\ a.at \in Nat
    BY <1>0, <1>1
  <2>3. /\ applied[a.node] \in Nat /\ applied'[a.node] \in Nat /\ run[a.node] \in Nat /\ run'[a.node] \in Nat
        /\ \/ applied[a.node] <= applied'[a.node] /\ run'[a.node] = run[a.node]
           \/ run'[a.node] = run[a.node] + 1
    BY <2>2, NodeStep
  <2>4. (Kept200(c, i, a))'
    BY <2>1, PlacesStay DEF Kept200, AppliedAt
  <2>5. a.run <= run'[a.node] /\ (a.run = run'[a.node] => a.at <= applied'[a.node])
    BY <2>1, <2>2, <2>3
  <2> QED BY <2>4, <2>5
<1>2. CASE answers'[c] = answers[c]
  BY <1>0, <1>1, <1>2 DEF AnswerInv
<1>3. ASSUME NEW s, Ends(c, s), EndsItself(c, s) \/ \E r \in Replicas : EndedBy(c, r, s)
      PROVE  AnswerInv(c)'
  <2>1. PICK b : b = [method |-> req[c].method, body |-> req[c].body, status |-> s,
                      node |-> req[c].node, run |-> run[req[c].node], at |-> applied[req[c].node]]
    OBVIOUS
  <2>2. /\ answers'[c] = Append(answers[c], b)
        /\ b.method = req[c].method /\ b.body = req[c].body /\ b.status = s /\ b.node = req[c].node
        /\ b.run = run[req[c].node] /\ b.at = applied[req[c].node]
    BY <1>3, <2>1 DEF Ends
  <2>3. applied' = applied /\ run' = run
    BY <1>3 DEF EndsItself, EndedBy, storeVars, countVars
  <2>4. /\ req[c].node \in Replicas /\ applied[req[c].node] \in Nat /\ run[req[c].node] \in Nat
    BY DEF WebTypes, TypeOK, Handler
  <2>5. /\ DOMAIN answers'[c] = 1..n + 1 /\ answers'[c][n + 1] = b
        /\ \A i \in 1..n : answers'[c][i] = answers[c][i]
    <3>1. answers[c] \in Seq(Answer \cup {b}) /\ b \in Answer \cup {b}
      BY <1>0
    <3> QED BY <1>0, <2>2, <3>1, AppendProperties, <1>n
  <2>6. (Kept200(c, n + 1, b))'
    <3>1. ASSUME b.method # "GET", b.status = "200", NEW k \in DOMAIN b.body
          PROVE  AppliedAt(c, n + 1, k, b.at)
      BY <1>3, <2>2, <3>1, EndIsTrue, <1>n DEF Present
    <3> QED BY <3>1, PlacesStay DEF Kept200, AppliedAt
  <2>7. ASSUME NEW i \in 1..n, answers[c][i].node = b.node, answers[c][i].run = b.run
        PROVE  answers[c][i].at <= b.at
    BY <1>0, <2>2, <2>7 DEF AnswerInv
  <2>8. \A i \in 1..n + 1 : \A a : a = answers'[c][i] =>
          /\ a.run <= run'[a.node] /\ (a.run = run'[a.node] => a.at <= applied'[a.node])
          /\ (Kept200(c, i, a))'
    <3>1. ASSUME NEW i \in 1..n + 1, NEW a, a = answers'[c][i]
          PROVE  /\ a.run <= run'[a.node] /\ (a.run = run'[a.node] => a.at <= applied'[a.node])
                 /\ (Kept200(c, i, a))'
      <4>1. CASE i \in 1..n
        BY <1>1, <2>5, <3>1, <4>1
      <4>2. CASE i = n + 1
        <5>1. a = b
          BY <2>5, <3>1, <4>2
        <5>2. b.run <= run'[b.node] /\ b.at <= applied'[b.node]
          BY <2>2, <2>3, <2>4
        <5> QED BY <2>6, <4>2, <5>1, <5>2
      <4> QED BY <1>0, <4>1, <4>2
    <3> QED BY <3>1
  <2>9. \A i, j \in 1..n + 1 :
          LET a == answers'[c][i]
              d == answers'[c][j]
          IN  i < j /\ a.node = d.node /\ a.run = d.run => a.at <= d.at
    <3>1. ASSUME NEW i \in 1..n + 1, NEW j \in 1..n + 1, NEW a, NEW d, a = answers'[c][i], d = answers'[c][j],
                 i < j, a.node = d.node, a.run = d.run
          PROVE  a.at <= d.at
      <4>1. i \in 1..n /\ a = answers[c][i]
        BY <1>0, <2>5, <3>1
      <4>2. CASE j = n + 1
        BY <2>5, <2>7, <3>1, <4>1, <4>2
      <4>3. CASE j \in 1..n
        BY <1>0, <2>5, <3>1, <4>1, <4>3 DEF AnswerInv
      <4> QED BY <1>0, <4>2, <4>3
    <3> QED BY <3>1
  <2>10. \A i \in 1..n + 1 :
           LET a == answers'[c][i] IN
           /\ a.run <= run'[a.node] /\ (a.run = run'[a.node] => a.at <= applied'[a.node])
           /\ Kept200(c, i, answers[c][i])'
    BY <2>8 DEF Kept200, AppliedAt
  <2> QED BY <2>5, <2>9, <2>10 DEF AnswerInv
<1>4. HandlerStep(c)
  BY NextIsHandlerStep
<1>5. ASSUME NEW k, Proposes(c, k) PROVE answers'[c] = answers[c]
  BY <1>5 DEF Proposes
<1> QED BY <1>2, <1>3, <1>4, <1>5 DEF HandlerStep, GoesOn, EndsItself, EndedBy, CommitsFor

-----------------------------------------------------------------------------
(* How often a write commits. *)

\* Commands of the same request, for the same key.
Alike(e, f) == e.from = f.from /\ e.num = f.num /\ e.key = f.key

\* The method of c's n-th request.
Method(c, n) == IF n = Present(c) THEN req[c].method ELSE answers[c][n].method

\* c's handler has proposed, or is past, the write of k.
Written(c, k) == req[c].again \/ k \notin req[c].todo \/ (req[c].st = "waiting" /\ k = req[c].key)

\* A command is of a request that was made, and of a write that was.
Seen(e) ==
  /\ e.num \in 1..Present(e.from)
  /\ e.num = Present(e.from) => Busy(e.from) /\ Written(e.from, e.key)

\* It may be there twice: a DELETE that has made its second call.
Twofold(e) ==
  /\ Method(e.from, e.num) = "DELETE"
  /\ e.num = Present(e.from) => req[e.from].again /\ req[e.from].st = "waiting"

PendingInv ==
  /\ \A i \in DOMAIN Pending : Seen(Pending[i])
  /\ \A i, j \in DOMAIN Pending : i < j /\ Alike(Pending[i], Pending[j]) => Twofold(Pending[i])
  /\ \A i, j, l \in DOMAIN Pending : i < j /\ j < l /\ Alike(Pending[i], Pending[j]) => ~Alike(Pending[j], Pending[l])

\* What is said of one command stays said.
LEMMA SeenStays ==
  ASSUME WebTypes, [Next]_vars, NEW e \in Entry, HandlerInv(e.from), Seen(e)
  PROVE  (Seen(e))' /\ (Twofold(e) => (Twofold(e))')
<1> DEFINE c == e.from
<1>0. /\ c \in Clients /\ HandlerStep(c) /\ req[c] \in Handler /\ answers[c] \in Seq(Answer) /\ HandlerInv(c)
      /\ Present(c) \in Nat /\ e.num \in Nat
  BY NextIsHandlerStep DEF Entry, WebTypes, TypeOK, Present
<1>a. PICK n : n = e.num
  OBVIOUS
<1>b. n \in 1..Present(c) /\ (n = Present(c) => Busy(c) /\ Written(c, e.key))
  BY <1>a DEF Seen
<1> HIDE DEF c
<1>1. CASE answers'[c] = answers[c] /\ n # Present(c)
  <2>1. Present(c)' = Present(c) /\ Method(c, n)' = Method(c, n)
    BY <1>1 DEF Present, Method
  <2> QED BY <1>a, <1>b, <1>1, <2>1 DEF Seen, Twofold, c
<1>2. ASSUME answers'[c] = answers[c], n = Present(c), Busy(c)', Written(c, e.key)', req'[c].method = req[c].method,
             req[c].again /\ req[c].st = "waiting" => req'[c].again /\ req'[c].st = "waiting"
      PROVE  (Seen(e))' /\ (Twofold(e) => (Twofold(e))')
  <2>1. Present(c)' = Present(c) /\ Method(c, n)' = Method(c, n)
    BY <1>2 DEF Present, Method
  <2> QED BY <1>a, <1>b, <1>2, <2>1 DEF Seen, Twofold, c
<1>3. CASE req'[c] = req[c] /\ answers'[c] = answers[c]
  <2>1. n = Present(c) => Busy(c)' /\ Written(c, e.key)'
    BY <1>b, <1>3 DEF Busy, Written
  <2> QED BY <1>1, <1>2, <1>3, <1>b, <2>1
<1>4. CASE GoesOn(c)
  <2>1. CASE n # Present(c)
    BY <1>1, <1>4, <2>1 DEF GoesOn
  <2>2. CASE n = Present(c)
    <3>1. Busy(c) /\ Written(c, e.key) /\ answers'[c] = answers[c]
      BY <1>b, <1>4, <2>2 DEF GoesOn
    <3>2. CASE SetNext(c)
      <4>1. /\ req[c].method = "POST" /\ ~req[c].again /\ req'[c].method = req[c].method
            /\ req'[c].st = "ready" /\ req'[c].todo = req[c].todo \ {req[c].key} /\ req'[c].again = req[c].again
        BY <1>0, <3>2 DEF SetNext, HandlerInv, Handler, WebTypes, TypeOK
      <4>2. Busy(c)' /\ Written(c, e.key)'
        BY <3>1, <4>1 DEF Busy, Written
      <4> QED BY <1>2, <2>2, <3>1, <4>1, <4>2
    <3>3. CASE DeleteAgain(c)
      <4>1. /\ ~req[c].again /\ req'[c].method = req[c].method /\ req'[c].st = "ready" /\ req'[c].again = TRUE
        BY <1>0, <3>3 DEF DeleteAgain, Handler, WebTypes, TypeOK
      <4>2. Busy(c)' /\ Written(c, e.key)'
        BY <4>1 DEF Busy, Written
      <4> QED BY <1>2, <2>2, <3>1, <4>1, <4>2
    <3>4. ASSUME NEW r, NEW q, Ask(c, r, q) PROVE FALSE
      BY <3>1, <3>4 DEF Ask, Busy
    <3> QED BY <1>4, <3>2, <3>3, <3>4 DEF GoesOn
  <2> QED BY <2>1, <2>2
<1>5. ASSUME NEW k \in req[c].todo, Proposes(c, k) PROVE (Seen(e))' /\ (Twofold(e) => (Twofold(e))')
  <2>1. /\ answers'[c] = answers[c] /\ req[c].st = "ready" /\ req'[c].st = "waiting" /\ req'[c].key = k
        /\ req'[c].method = req[c].method /\ req'[c].again = req[c].again /\ req'[c].todo = req[c].todo
    BY <1>0, <1>5 DEF Proposes, Handler, WebTypes, TypeOK
  <2>2. n = Present(c) => Busy(c)' /\ Written(c, e.key)'
    BY <1>b, <2>1 DEF Busy, Written
  <2> QED BY <1>1, <1>2, <1>b, <2>1, <2>2
<1>6. ASSUME NEW s, Ends(c, s) PROVE (Seen(e))' /\ (Twofold(e) => (Twofold(e))')
  <2> DEFINE b == [method |-> req[c].method, body |-> req[c].body, status |-> s,
                   node |-> req[c].node, run |-> run[req[c].node], at |-> applied[req[c].node]]
  <2>1. answers'[c] = Append(answers[c], b) /\ b.method = req[c].method
    BY <1>6 DEF Ends
  <2> HIDE DEF b
  <2>2. answers[c] \in Seq(Answer \cup {b}) /\ b \in Answer \cup {b} /\ Len(answers[c]) \in Nat
    BY <1>0
  <2>3. /\ Len(answers'[c]) = Len(answers[c]) + 1 /\ answers'[c][Len(answers[c]) + 1] = b
        /\ \A i \in 1..Len(answers[c]) : answers'[c][i] = answers[c][i]
    BY <2>1, <2>2, AppendProperties
  <2>4. Present(c)' = Present(c) + 1 /\ n \in 1..Present(c)' /\ n # Present(c)'
    BY <1>0, <1>b, <2>2, <2>3 DEF Present
  <2>5. Method(c, n)' = Method(c, n)
    <3>1. CASE n = Present(c)
      BY <2>1, <2>3, <2>4, <3>1 DEF Method, Present
    <3>2. CASE n # Present(c)
      <4>1. n \in 1..Len(answers[c])
        BY <1>b, <2>2, <3>2 DEF Present
      <4> QED BY <2>3, <2>4, <3>2, <4>1 DEF Method
    <3> QED BY <3>1, <3>2
  <2> QED BY <1>a, <2>4, <2>5 DEF Seen, Twofold, c
<1>7. ASSUME NEW r \in Replicas, CommitsFor(c, r) PROVE (Seen(e))' /\ (Twofold(e) => (Twofold(e))')
  <2>1. /\ answers'[c] = answers[c] /\ req'[c].st = req[c].st /\ req'[c].key = req[c].key
        /\ req'[c].method = req[c].method /\ req'[c].again = req[c].again /\ req'[c].todo = req[c].todo
    BY <1>0, <1>7 DEF CommitsFor, Handler
  <2>2. n = Present(c) => Busy(c)' /\ Written(c, e.key)'
    BY <1>b, <2>1 DEF Busy, Written
  <2> QED BY <1>1, <1>2, <1>b, <2>1, <2>2
<1> QED BY <1>0, <1>3, <1>4, <1>5, <1>6, <1>7 DEF HandlerStep, EndsItself, EndedBy

\* Every step keeps it: what commits or may loses elements, or gets a new proposal at its end.
LEMMA PendingInvStep ==
  ASSUME WebTypes, \A c \in Clients : HandlerInv(c), PendingInv, [Next]_vars
  PROVE  PendingInv'
<1>1. PICK P, Q : P = Pending /\ Q = Pending'
  OBVIOUS
<1>2. P \in Seq(Entry) /\ Len(P) \in Nat /\ DOMAIN P = 1..Len(P) /\ PipeTypeOK(Entry) /\ PipeSane
  <2>1. PipeTypeOK(Entry) /\ PipeSane
    BY DEF WebTypes, TypeOK
  <2> QED BY <1>1, <2>1, PendingType
<1>3. \A i, j, l \in DOMAIN P : i < j /\ j < l /\ Alike(P[i], P[j]) => ~Alike(P[j], P[l])
  BY <1>1 DEF PendingInv
<1>4. ASSUME NEW i \in DOMAIN P, NEW e, e = P[i]
      PROVE  /\ e \in Entry /\ Seen(e) /\ (Seen(e))'
             /\ \A j \in DOMAIN P : i < j /\ Alike(e, P[j]) => Twofold(e) /\ (Twofold(e))'
  <2>1. e \in Entry
    BY <1>2, <1>4
  <2>2. Seen(e) /\ \A j \in DOMAIN P : i < j /\ Alike(e, P[j]) => Twofold(e)
    BY <1>1, <1>4 DEF PendingInv
  <2>3. HandlerInv(e.from)
    BY <2>1 DEF Entry
  <2>4. (Seen(e))' /\ (Twofold(e) => (Twofold(e))')
    BY <2>1, <2>2, <2>3, SeenStays
  <2> QED BY <2>1, <2>2, <2>4
<1>5. SUFFICES /\ \A i \in DOMAIN Q : \A e : e = Q[i] => (Seen(e))'
               /\ \A i, j \in DOMAIN Q : \A e : e = Q[i] /\ i < j /\ Alike(e, Q[j]) => (Twofold(e))'
               /\ \A i, j, l \in DOMAIN Q : i < j /\ j < l /\ Alike(Q[i], Q[j]) => ~Alike(Q[j], Q[l])
  <2>1. (\A i \in DOMAIN Q : \A e : e = Q[i] => (Seen(e))') => (\A i \in DOMAIN Pending : Seen(Pending[i]))'
    BY <1>1 DEF Seen, Busy, Written, Present
  <2>2. (\A i, j \in DOMAIN Q : \A e : e = Q[i] /\ i < j /\ Alike(e, Q[j]) => (Twofold(e))')
          => (\A i, j \in DOMAIN Pending : i < j /\ Alike(Pending[i], Pending[j]) => Twofold(Pending[i]))'
    BY <1>1 DEF Twofold, Method, Present, Alike
  <2>3. (\A i, j, l \in DOMAIN Q : i < j /\ j < l /\ Alike(Q[i], Q[j]) => ~Alike(Q[j], Q[l]))
          => (\A i, j, l \in DOMAIN Pending :
                i < j /\ j < l /\ Alike(Pending[i], Pending[j]) => ~Alike(Pending[j], Pending[l]))'
    BY <1>1 DEF Alike
  <2> QED BY <2>1, <2>2, <2>3 DEF PendingInv
<1>6. ASSUME Kept(P, Q)
      PROVE  /\ \A i \in DOMAIN Q : \A e : e = Q[i] => (Seen(e))'
             /\ \A i, j \in DOMAIN Q : \A e : e = Q[i] /\ i < j /\ Alike(e, Q[j]) => (Twofold(e))'
             /\ \A i, j, l \in DOMAIN Q : i < j /\ j < l /\ Alike(Q[i], Q[j]) => ~Alike(Q[j], Q[l])
  <2>1. PICK f \in [DOMAIN Q -> DOMAIN P] :
          /\ \A i, j \in DOMAIN Q : i < j => f[i] < f[j]
          /\ \A i \in DOMAIN Q : Q[i] = P[f[i]]
    BY <1>6 DEF Kept
  <2>2. \A i \in DOMAIN Q : f[i] \in DOMAIN P
    BY <2>1
  <2>3. \A i \in DOMAIN Q : \A e : e = Q[i] => (Seen(e))'
    BY <1>4, <2>1, <2>2
  <2>4. \A i, j \in DOMAIN Q : \A e : e = Q[i] /\ i < j /\ Alike(e, Q[j]) => (Twofold(e))'
    BY <1>4, <2>1, <2>2
  <2>5. \A i, j, l \in DOMAIN Q : i < j /\ j < l /\ Alike(Q[i], Q[j]) => ~Alike(Q[j], Q[l])
    BY <1>3, <2>1, <2>2
  <2> QED BY <2>3, <2>4, <2>5
<1>7. CASE P = Q
  <2>1. Kept(P, Q)
    BY <1>2, <1>7, KeptSame
  <2> QED BY <1>6, <2>1
<1>8. ASSUME NEW c \in Clients, NEW k \in req[c].todo, Proposes(c, k), NEW a, a = Cmd(c, k), Q = Append(P, a)
      PROVE  /\ \A i \in DOMAIN Q : \A e : e = Q[i] => (Seen(e))'
             /\ \A i, j \in DOMAIN Q : \A e : e = Q[i] /\ i < j /\ Alike(e, Q[j]) => (Twofold(e))'
             /\ \A i, j, l \in DOMAIN Q : i < j /\ j < l /\ Alike(Q[i], Q[j]) => ~Alike(Q[j], Q[l])
  <2>1. a \in Entry /\ a.from = c /\ a.num = Present(c) /\ a.key = k
    <3>1. Cmd(c, k) \in Entry
      BY <1>8, CmdType DEF WebTypes
    <3> QED BY <1>8, <3>1 DEF Cmd, Present
  <2>2. /\ Len(Q) = Len(P) + 1 /\ DOMAIN Q = 1..Len(P) + 1 /\ Q[Len(P) + 1] = a
        /\ \A i \in 1..Len(P) : Q[i] = P[i]
    BY <1>2, <1>8, <2>1, AppendProperties
  <2>3. /\ req[c].st = "ready" /\ req'[c].st = "waiting" /\ req'[c].key = k /\ req'[c].again = req[c].again
        /\ req'[c].method = req[c].method /\ answers'[c] = answers[c]
    BY <1>8 DEF Proposes, WebTypes, TypeOK, Handler
  <2>4. PICK n : n = Present(c)
    OBVIOUS
  <2>5. Present(c)' = n /\ n \in 1..n
    BY <2>3, <2>4 DEF Present, WebTypes, TypeOK
  <2>6. (Seen(a))'
    <3>1. Busy(c)' /\ Written(c, k)'
      BY <2>3 DEF Busy, Written
    <3> QED BY <2>1, <2>4, <2>5, <3>1 DEF Seen
  <2>7. ASSUME NEW i \in DOMAIN P, NEW e, e = P[i], Alike(e, a)
        PROVE  (Twofold(e))' /\ ~Twofold(e)
    <3>1. e.from = c /\ e.num = n /\ e.key = k
      BY <2>1, <2>4, <2>7 DEF Alike
    <3>2. Written(c, k)
      BY <1>4, <2>4, <2>7, <3>1 DEF Seen
    <3>3. req[c].again /\ req[c].method = "DELETE"
      BY <1>8, <2>3, <3>2 DEF Written, HandlerInv
    <3>4. Method(c, n)' = "DELETE"
      BY <2>3, <2>5, <3>3 DEF Method
    <3>5. (Twofold(e))'
      BY <2>3, <3>1, <3>3, <3>4 DEF Twofold
    <3>6. ~Twofold(e)
      BY <2>3, <2>4, <3>1 DEF Twofold
    <3> QED BY <3>5, <3>6
  <2>8. ASSUME NEW i \in DOMAIN Q, NEW e, e = Q[i] PROVE (Seen(e))'
    <3>1. CASE i \in DOMAIN P
      BY <1>2, <1>4, <2>2, <2>8, <3>1
    <3>2. CASE i = Len(P) + 1
      BY <2>2, <2>6, <2>8, <3>2
    <3> QED BY <1>2, <2>2, <3>1, <3>2
  <2>9. ASSUME NEW i \in DOMAIN Q, NEW j \in DOMAIN Q, NEW e, e = Q[i], i < j, Alike(e, Q[j])
        PROVE  (Twofold(e))'
    <3>1. i \in DOMAIN P /\ e = P[i]
      BY <1>2, <2>2, <2>9
    <3>2. CASE j \in DOMAIN P
      BY <1>2, <1>4, <2>2, <2>9, <3>1, <3>2
    <3>3. CASE j = Len(P) + 1
      BY <2>2, <2>7, <2>9, <3>1, <3>3
    <3> QED BY <1>2, <2>2, <3>2, <3>3
  <2>10. ASSUME NEW i \in DOMAIN Q, NEW j \in DOMAIN Q, NEW l \in DOMAIN Q, i < j, j < l,
                Alike(Q[i], Q[j]), Alike(Q[j], Q[l])
         PROVE  FALSE
    <3>1. /\ i \in DOMAIN P /\ j \in DOMAIN P /\ Q[i] = P[i] /\ Q[j] = P[j]
      BY <1>2, <2>2, <2>10
    <3>2. CASE l \in DOMAIN P
      BY <1>2, <1>3, <2>2, <2>10, <3>1, <3>2
    <3>3. CASE l = Len(P) + 1
      <4>1. PICK e : e = P[i]
        OBVIOUS
      <4>2. Twofold(e) /\ Alike(e, a)
        BY <1>4, <2>2, <2>10, <3>1, <3>3, <4>1 DEF Alike
      <4> QED BY <2>7, <3>1, <4>1, <4>2
    <3> QED BY <1>2, <2>2, <3>2, <3>3
  <2> QED BY <2>8, <2>9, <2>10
<1>9. CASE PipeStep
  <2>1. Kept(P, Q)
    BY <1>1, <1>2, <1>9, PipeStepKeeps
  <2> QED BY <1>6, <2>1
<1>10. ASSUME NEW c \in Clients, NEW k \in req[c].todo, Proposes(c, k) PROVE P = Q \/ Q = Append(P, Cmd(c, k))
  <2>1. Cmd(c, k) \in Entry /\ req[c].node \in Replicas /\ PipeAccept(req[c].node, Cmd(c, k))
    BY <1>10, CmdType DEF Proposes, WebTypes, TypeOK, Handler
  <2> QED BY <1>1, <1>2, <2>1, PipeAcceptKeeps
<1>11. CASE UNCHANGED pipeVars
  BY <1>1, <1>7, <1>11 DEF pipeVars, raftVars, Pending, Live
<1> QED BY <1>7, <1>8, <1>9, <1>10, <1>11, NextIsGroupStep DEF GroupStep, WebTypes

-----------------------------------------------------------------------------
(* The invariant, and what it says of a status and of a read. *)

Truthful == FlightInv /\ PendingInv /\ \A c \in Clients : HandlerInv(c) /\ AnswerInv(c)

\* It holds at the start, and every step keeps it.
LEMMA TruthfulInductive ==
  /\ Init => Truthful
  /\ WebTypes /\ Truthful /\ [Next]_vars => Truthful'
<1>1. ASSUME Init PROVE Truthful
  <2>1. /\ log = <<>> /\ limbo = <<>> /\ leader \in Replicas /\ leader # None
        /\ flight = [r \in Replicas |-> <<>>]
    <3>1. None \notin Replicas
      BY RaftAssumption DEF RaftAssumption
    <3>2. PipeTypeOK(Entry)
      BY <1>1, PipeInitType DEF Init
    <3> QED BY <1>1, <3>1, <3>2 DEF Init, PipeInit, RaftInit, PipeTypeOK, RaftTypeOK
  <2>2. FlightInv
    BY <2>1 DEF FlightInv
  <2>3. PendingInv
    <3>1. Live = <<>>
      BY <2>1 DEF Live
    <3>2. Pending = <<>>
      BY <2>1, <3>1 DEF Pending
    <3> QED BY <3>2 DEF PendingInv
  <2>4. ASSUME NEW c \in Clients PROVE HandlerInv(c) /\ AnswerInv(c)
    <3>1. req[c] = NoHandler /\ answers[c] = <<>>
      BY <1>1 DEF Init
    <3>2. HandlerInv(c)
      BY <3>1 DEF HandlerInv, NoHandler, Busy
    <3> QED BY <3>1, <3>2 DEF AnswerInv
  <2> QED BY <2>2, <2>3, <2>4 DEF Truthful
<1>2. ASSUME WebTypes, Truthful, [Next]_vars PROVE Truthful'
  <2>1. FlightInv /\ PendingInv /\ (\A c \in Clients : HandlerInv(c)) /\ (\A c \in Clients : AnswerInv(c))
    BY <1>2 DEF Truthful
  <2>2. FlightInv' /\ PendingInv'
    BY <1>2, <2>1, FlightInvStep, PendingInvStep
  <2>3. ASSUME NEW c \in Clients PROVE HandlerInv(c)' /\ AnswerInv(c)'
    BY <1>2, <2>1, HandlerInvStep, AnswerInvStep
  <2> QED BY <2>2, <2>3 DEF Truthful
<1> QED BY <1>1, <1>2

\* A set of numbers of which no two, or no three, are different.
LEMMA AtMostTwo ==
  ASSUME NEW S \in SUBSET Nat
  PROVE  /\ (\A i, j \in S : ~(i < j)) => Cardinality(S) <= 1
         /\ (\A i, j, l \in S : ~(i < j /\ j < l)) => Cardinality(S) <= 2
<1>1. Cardinality({}) = 0 /\ \A x : IsFiniteSet({x}) /\ Cardinality({x}) = 1
  BY FS_EmptySet, FS_Singleton
<1>2. \A x, y : Cardinality({x} \cup {y}) <= 2
  <2> TAKE x, y
  <2>1. PICK T : T = {x}
    OBVIOUS
  <2>2. IsFiniteSet(T) /\ Cardinality(T) = 1
    BY <1>1, <2>1
  <2>3. Cardinality(T \cup {y}) = IF y \in T THEN Cardinality(T) ELSE Cardinality(T) + 1
    BY <2>2, FS_AddElement
  <2> QED BY <2>1, <2>2, <2>3
<1>3. \A i \in S : i \in Nat
  OBVIOUS
<1>4. CASE S = {}
  BY <1>1, <1>4
<1>5. ASSUME NEW x \in S, \A i, j \in S : ~(i < j) PROVE Cardinality(S) <= 1
  <2>1. \A i \in S : i = x
    BY <1>3, <1>5
  <2>2. S = {x}
    BY <2>1
  <2>3. PICK T : T = {x} /\ Cardinality(T) = 1
    BY <1>1
  <2> QED BY <2>2, <2>3
<1>6. ASSUME NEW x \in S, \A i, j, l \in S : ~(i < j /\ j < l) PROVE Cardinality(S) <= 2
  <2>1. CASE \A i \in S : i = x
    <3>1. S = {x} \cup {x}
      BY <2>1
    <3> QED BY <1>2, <3>1
  <2>2. ASSUME NEW y \in S, y # x PROVE Cardinality(S) <= 2
    <3>1. \A i \in S : i = x \/ i = y
      <4> TAKE i \in S
      <4>1. x \in Nat /\ y \in Nat /\ i \in Nat
        BY <1>3
      <4>2. x < y \/ y < x
        BY <2>2, <4>1
      <4> QED BY <1>6, <2>2, <4>1, <4>2
    <3>2. S = {x} \cup {y}
      BY <3>1
    <3> QED BY <1>2, <3>2
  <2> QED BY <2>1, <2>2
<1> QED BY <1>4, <1>5, <1>6

\* No write commits more often than its handler may have proposed it.
LEMMA WritesAreFew ==
  ASSUME WebTypes, Truthful, NEW c \in Clients, NEW n \in DOMAIN answers[c], NEW k
  PROVE  Cardinality(Places(c, n, k)) <= (IF answers[c][n].method = "DELETE" THEN 2 ELSE 1)
<1>1. /\ DOMAIN log = 1..Len(log) /\ Len(log) \in Nat
      /\ \A i \in DOMAIN log : i \in DOMAIN Pending /\ Pending[i] = log[i]
  <2>1. log \in Seq(Entry) /\ PipeTypeOK(Entry)
    BY DEF WebTypes, TypeOK, PipeTypeOK, RaftTypeOK
  <2> QED BY <2>1, PendingType
<1>2. Places(c, n, k) \in SUBSET Nat
  BY <1>1 DEF Places
<1>3. \A i, j \in Places(c, n, k) : Alike(log[i], log[j])
  BY DEF Places, Alike
<1>4. ASSUME NEW i \in Places(c, n, k), NEW j \in Places(c, n, k), i < j PROVE answers[c][n].method = "DELETE"
  <2>1. Twofold(log[i])
    BY <1>1, <1>3, <1>4 DEF Truthful, PendingInv, Places
  <2>2. n # Present(c)
    <3>1. answers[c] \in Seq(Answer)
      BY DEF WebTypes, TypeOK
    <3> QED BY <3>1 DEF Present
  <2> QED BY <2>1, <2>2 DEF Twofold, Method, Places
<1>5. ASSUME NEW i \in Places(c, n, k), NEW j \in Places(c, n, k), NEW l \in Places(c, n, k), i < j, j < l
      PROVE  FALSE
  BY <1>1, <1>3, <1>5 DEF Truthful, PendingInv, Places
<1> QED BY <1>2, <1>4, <1>5, AtMostTwo

(***************************************************************************)
(* A status is true: what was answered with 200 is committed, and no write *)
(* commits more often than it was called for, whatever the client is told  *)
(* (handleKeyRequest, Store.Set, Store.Delete).                            *)
(***************************************************************************)
THEOREM StatusesAreTrue == Spec => []StatusIsTrue
<1>1. Spec => [](WebTypes /\ Truthful)
  BY WebTypesInductive, TruthfulInductive, PTL DEF Spec
<1>2. WebTypes /\ Truthful => StatusIsTrue
  <2> SUFFICES ASSUME WebTypes, Truthful, NEW c \in Clients, NEW n \in DOMAIN answers[c], NEW a, a = answers[c][n],
                      NEW k \in DOMAIN a.body
               PROVE  /\ a.method # "GET" /\ a.status = "200" => Places(c, n, k) # {}
                      /\ Cardinality(Places(c, n, k)) <= (IF a.method = "DELETE" THEN 2 ELSE 1)
    BY DEF StatusIsTrue
  <2>1. a.method # "GET" /\ a.status = "200" => Places(c, n, k) # {}
    <3>1. Kept200(c, n, a)
      BY DEF Truthful, AnswerInv
    <3> QED BY <3>1 DEF Kept200, AppliedAt
  <2> QED BY <2>1, WritesAreFew
<1> QED BY <1>1, <1>2, PTL

(***************************************************************************)
(* At one node, as long as it runs, a client reads its acknowledged writes *)
(* and no older state than before (Store.Get, handleKeyRequest).           *)
(***************************************************************************)
THEOREM LocalReadsKeepUp == Spec => []ReadsKeepUp
<1>1. Spec => [](WebTypes /\ Truthful)
  BY WebTypesInductive, TruthfulInductive, PTL DEF Spec
<1>2. WebTypes /\ Truthful => ReadsKeepUp
  <2> SUFFICES ASSUME WebTypes, Truthful, NEW c \in Clients, NEW i \in DOMAIN answers[c], NEW j \in DOMAIN answers[c],
                      NEW a, NEW b, a = answers[c][i], b = answers[c][j], i < j, a.node = b.node, a.run = b.run
               PROVE  /\ a.at <= b.at
                      /\ a.method # "GET" /\ a.status = "200" =>
                           \A k \in DOMAIN a.body : \E p \in Places(c, i, k) : p <= b.at
    BY DEF ReadsKeepUp
  <2>1. a.at <= b.at /\ Kept200(c, i, a)
    BY DEF Truthful, AnswerInv
  <2>2. a.at \in Nat /\ b.at \in Nat
    <3>1. answers[c] \in Seq(Answer)
      BY DEF WebTypes, TypeOK
    <3>2. a \in Answer /\ b \in Answer
      BY <3>1
    <3> QED BY <3>2 DEF Answer
  <2>3. \A n, k : Places(c, n, k) \subseteq Nat
    <3>1. log \in Seq(Entry)
      BY DEF WebTypes, TypeOK, PipeTypeOK, RaftTypeOK
    <3> QED BY <3>1 DEF Places
  <2> QED BY <2>1, <2>2, <2>3 DEF Kept200, AppliedAt
<1> QED BY <1>1, <1>2, PTL
=============================================================================
