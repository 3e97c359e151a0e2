-------------------------- MODULE KVServiceProofs --------------------------
(***************************************************************************)
(* Proofs about KVService for every number of replicas and clients, every  *)
(* set of commands and every bound.                                        *)
(***************************************************************************)
EXTENDS KVService, OrderLemmas

-----------------------------------------------------------------------------
(* Lemmas on the operators of the model. *)

\* Strings of the model are nonempty sequences of fields.
LEMMA StringsAreSeqs == \A v \in Strings : v \in Seq(STRING) /\ v # <<>>
  BY ValuesAreStrings DEF ValuesAreStrings

\* The reference semantics maps maps to maps.
LEMMA ExecType == ASSUME NEW m \in Map, NEW line \in Line PROVE Exec(m, line) \in Map
  BY ValuesAreStrings DEF ValuesAreStrings, Exec, Map, Line, Command

\* So does the state machine's Apply; its response is a sequence of fields.
LEMMA ApplyType ==
  ASSUME NEW m \in Map, NEW line \in Line
  PROVE  ApplyMap(m, line) \in Map /\ ApplyResponse(m, line) \in Seq(STRING)
<1>1. line.cmd \in Command
  BY ValuesAreStrings DEF ValuesAreStrings, Line
<1>2. ApplyMap(m, line) \in Map
  BY <1>1 DEF ApplyMap, applySet, Map, Command
<1>3. m[line.cmd.key] # Absent => m[line.cmd.key] \in Strings
  BY <1>1 DEF Map, Command
<1>4. ApplyResponse(m, line) \in Seq(STRING)
  <2>1. EmptyStr \in Seq(STRING)
    BY StringsAreSeqs DEF Strings
  <2>2. NoResponse \in Seq(STRING)
    BY DEF NoResponse
  <2>3. applyGet(m, line.cmd.key) \in Seq(STRING)
    BY <1>3, <2>1, StringsAreSeqs DEF applyGet
  <2> QED BY <2>1, <2>2, <2>3 DEF ApplyResponse
<1> QED BY <1>2, <1>4

(***************************************************************************)
(* fsm.Apply does what the reference says of every line that does not make *)
(* it panic: the map it leaves, and the response it returns.               *)
(***************************************************************************)
LEMMA ApplyIsExec ==
  ASSUME NEW m \in Map, NEW line \in Line, ~ApplyPanics(line)
  PROVE  /\ ApplyMap(m, line) = Exec(m, line)
         /\ ApplyResponse(m, line) # NoResponse => ApplyResponse(m, line) = Result(m, line)
<1>1. line.cmd \in Command
  BY ValuesAreStrings DEF ValuesAreStrings, Line
<1>2. ApplyMap(m, line) = Exec(m, line)
  <2>1. CASE line.kind = "proto" /\ line.cmd.op = "set"
    BY <1>1, <2>1 DEF ApplyMap, applySet, Unmarshals, Exec, Map, Command
  <2>2. CASE ~(line.kind = "proto" /\ line.cmd.op = "set")
    BY <1>1, <2>2 DEF ApplyMap, ApplyPanics, Unmarshals, Exec, Map, Command
  <2> QED BY <2>1, <2>2
<1>3. ApplyResponse(m, line) # NoResponse => ApplyResponse(m, line) = Result(m, line)
  BY <1>1 DEF ApplyResponse, ApplyPanics, applyGet, Result, Unmarshals, Command
<1> QED BY <1>2, <1>3

\* The lines of one broadcast write.
LEMMA LinesType ==
  ASSUME TypeOK, NEW c \in Clients
  PROVE  Request(c) \in Line /\ Lines(c) \in Seq(Line)
<1>1. Request(c) \in Line
  BY DEF TypeOK, ClientTypeOK, Request, Line
<1>2. [Request(c) EXCEPT !.kind = "blank"] \in Line
  BY <1>1 DEF Line
<1> QED BY <1>1, <1>2 DEF Lines

\* What a leader has in flight is at most one entry.
LEMMA InFlightType ==
  ASSUME TypeOK, NEW r \in Replicas
  PROVE  InFlight(r) \in Seq(Entry)
<1>1. CASE r = leader /\ serving[r].st = "proposed"
  <2>1. [line |-> serving[r].line, by |-> r] \in Entry
    BY <1>1 DEF TypeOK, Entry
  <2> QED BY <1>1, <2>1 DEF InFlight
<1>2. CASE ~(r = leader /\ serving[r].st = "proposed")
  BY <1>2 DEF InFlight
<1> QED BY <1>1, <1>2

-----------------------------------------------------------------------------
(* Type correctness. *)

\* The state the service starts in is well typed.
LEMMA InitType == Init => TypeOK
<1> SUFFICES ASSUME Init PROVE TypeOK
  OBVIOUS
<1>1. New \in Map
  BY DEF New, Map, Strings
<1>2. NoReply \in Reply /\ (CHOOSE x \in Commands : TRUE) \in Commands
  BY StringsAreSeqs, ValuesAreStrings DEF ValuesAreStrings, NoReply, Reply, Strings
<1>3. 1 \in Replicas
  BY ClusterAssumption DEF ClusterAssumption, Replicas
<1>4. ClientTypeOK
  BY <1>2, <1>3 DEF Init, ClientInit, ClientTypeOK
<1>5. RaftTypeOK(Entry)
  BY <1>3 DEF Init, RaftInit, RaftTypeOK
<1>6. Idle \in Serving
  BY DEF Idle, Serving, NoResponse
<1>7. <<New>> \in Seq(Map) \ {<<>>}
  BY <1>1
<1> QED BY <1>1, <1>4, <1>5, <1>6, <1>7 DEF Init, TypeOK, Idle

\* The actions of the clients, and the loss of a datagram.
LEMMA ClientStepType ==
  ASSUME TypeOK, NEW c \in Clients, ClientNext(c) \/ LoseUDP(c)
  PROVE  TypeOK'
<1> USE DEF ClientTypeOK
<1>1. ASSUME NEW x \in Commands, ClientCall(c, x) PROVE TypeOK'
  <2>1. 1 \in Replicas
    BY ClusterAssumption DEF ClusterAssumption, Replicas
  <2> QED
    BY <1>1, <2>1 DEF ClientCall, Call, TypeOK, RaftTypeOK, netVars, raftVars, storeVars
<1>2. CASE ClientWrite(c)
  <2>1. phase' \in [Clients -> {"idle", "sending", "waiting"}] /\ pos' \in [Clients -> Replicas]
    <3>1. CASE pos[c] < N
      <4>1. pos[c] + 1 \in Replicas
        BY <3>1, ClusterAssumption DEF ClusterAssumption, TypeOK, Replicas
      <4> QED BY <1>2, <3>1, <4>1 DEF ClientWrite, Write, NextReplica, TypeOK
    <3>2. CASE ~(pos[c] < N)
      BY <1>2, <3>2 DEF ClientWrite, Write, NextReplica, TypeOK
    <3> QED BY <3>1, <3>2
  <2>2. tcp' \in [Replicas -> [Clients -> Seq(Line)]]
    <3>1. tcp[pos[c]][c] \o Lines(c) \in Seq(Line)
      BY LinesType DEF TypeOK
    <3> QED BY <1>2, <3>1 DEF ClientWrite, Write, TypeOK
  <2> QED
    BY <1>2, <2>1, <2>2 DEF ClientWrite, Write, TypeOK, RaftTypeOK, raftVars, storeVars
<1>3. CASE ClientWriteFails(c)
  BY <1>3 DEF ClientWriteFails, WriteFails, TypeOK, RaftTypeOK, netVars, raftVars, storeVars
<1>4. CASE ClientReadUDP(c)
  BY <1>4 DEF ClientReadUDP, ReadUDP, TypeOK, RaftTypeOK, raftVars, storeVars
<1>5. CASE LoseUDP(c)
  BY <1>5, FaultAssumption DEF FaultAssumption, LoseUDP, TypeOK, RaftTypeOK, clientVars, raftVars, storeVars
<1> QED BY <1>1, <1>2, <1>3, <1>4, <1>5 DEF ClientNext

\* A process that dies.
LEMMA DieType ==
  ASSUME TypeOK, NEW r \in Replicas, Die(r)
  PROVE  ClientTypeOK' /\ RaftTypeOK(Entry)' /\ serving' \in [Replicas -> Serving]
         /\ \A s \in Replicas : serving'[s].st # "idle" => serving'[s].line \in Line
<1>1. Idle \in Serving /\ Idle.st = "idle"
  BY DEF Idle, Serving, NoResponse
<1>2. ClientTypeOK'
  BY DEF Die, TypeOK, ClientTypeOK, clientVars
<1>3. RaftTypeOK(Entry)'
  BY InFlightType DEF Die, RaftDie, TypeOK, RaftTypeOK
<1>4. serving' \in [Replicas -> Serving]
  BY <1>1 DEF Die, TypeOK
<1>5. \A s \in Replicas : serving'[s].st # "idle" => serving'[s].line \in Line
  BY <1>1 DEF Die, TypeOK
<1> QED BY <1>2, <1>3, <1>4, <1>5

\* The next entry of a replica's state machine is a line.
LEMMA NextLineType ==
  ASSUME TypeOK, NEW r \in Replicas, HasNext(r)
  PROVE  NextLine(r) \in Line /\ applied[r] + 1 \in DOMAIN log
<1>1. log \in Seq(Entry) /\ applied[r] \in Nat /\ applied[r] < Len(log)
  BY DEF TypeOK, RaftTypeOK, HasNext
<1>2. applied[r] + 1 \in 1..Len(log)
  BY <1>1
<1>3. log[applied[r] + 1] \in Entry
  BY <1>1, <1>2, ElementOfSeq
<1> QED BY <1>1, <1>2, <1>3 DEF NextLine, Entry

\* The actions of a replica.
LEMMA ServerStepType ==
  ASSUME TypeOK, NEW r \in Replicas, ServerNext(r)
  PROVE  TypeOK'
<1>0. Idle \in Serving /\ Idle.st = "idle"
  BY DEF Idle, Serving, NoResponse
<1>1. ASSUME NEW c \in Clients, SessionSkip(r, c) PROVE TypeOK'
  <2>1. tcp' \in [Replicas -> [Clients -> Seq(Line)]]
    BY <1>1 DEF SessionSkip, TypeOK, ClientTypeOK
  <2> QED
    BY <1>1, <2>1 DEF SessionSkip, TypeOK, ClientTypeOK, RaftTypeOK, clientVars, raftVars, storeVars
<1>2. ASSUME NEW c \in Clients, HandleRequest(r, c) PROVE TypeOK'
  <2>1. tcp' \in [Replicas -> [Clients -> Seq(Line)]]
    BY <1>2 DEF HandleRequest, TypeOK, ClientTypeOK
  <2>2. Head(tcp[r][c]) \in Line
    BY <1>2 DEF HandleRequest, TypeOK, ClientTypeOK
  <2>3. [Idle EXCEPT !.st = "proposed", !.line = Head(tcp[r][c])] \in Serving
    BY <1>0, <2>2 DEF Serving, Idle
  <2>4. serving' \in [Replicas -> Serving]
    BY <1>2, <2>3 DEF HandleRequest, TypeOK
  <2>5. \A s \in Replicas : serving'[s].st # "idle" => serving'[s].line \in Line
    BY <1>2, <2>2 DEF HandleRequest, TypeOK, Idle
  <2> QED
    BY <1>2, <2>1, <2>4, <2>5 DEF HandleRequest, TypeOK, ClientTypeOK, RaftTypeOK, clientVars, raftVars
<1>3. CASE Respond(r)
  <2>1. serving[r].out # NoResponse =>
          [num |-> serving[r].line.num, idx |-> serving[r].idx, text |-> ReplyText(serving[r].out)] \in Reply
    <3>1. serving[r] \in Serving /\ serving[r].line \in Line
      BY <1>3 DEF Respond, TypeOK
    <3>2. serving[r].out # NoResponse => ReplyText(serving[r].out) \in Seq(STRING)
      BY <3>1 DEF Serving, ReplyText, NoResponse
    <3> QED BY <3>1, <3>2 DEF Serving, Reply, Line
  <2>2. udp' \in [Clients -> SUBSET Reply]
    BY <1>3, <2>1 DEF Respond, TypeOK, ClientTypeOK
  <2>3. serving' \in [Replicas -> Serving]
        /\ \A s \in Replicas : serving'[s].st # "idle" => serving'[s].line \in Line
    BY <1>0, <1>3 DEF Respond, TypeOK
  <2> QED
    BY <1>3, <2>2, <2>3 DEF Respond, TypeOK, ClientTypeOK, RaftTypeOK, clientVars, raftVars
<1>4. CASE FsmApply(r)
  <2>1. NextLine(r) \in Line
    BY <1>4, NextLineType DEF FsmApply
  <2>2. kv' \in [Replicas -> Map]
    BY <1>4, <2>1, ApplyType DEF FsmApply, TypeOK
  <2>3. ApplyResponse(kv[r], NextLine(r)) \in Seq(STRING)
    BY <2>1, ApplyType DEF TypeOK
  <2>4. [serving[r] EXCEPT !.st = "applied", !.out = ApplyResponse(kv[r], NextLine(r))] \in Serving
    BY <2>3 DEF TypeOK, Serving
  <2>5. serving' = serving
        \/ /\ serving[r].st = "committed"
           /\ serving' = [serving EXCEPT ![r] =
                 [serving[r] EXCEPT !.st = "applied", !.out = ApplyResponse(kv[r], NextLine(r))]]
    BY <1>4 DEF FsmApply, TypeOK, Serving
  <2>6. serving' \in [Replicas -> Serving]
    BY <2>4, <2>5 DEF TypeOK
  <2>7. \A s \in Replicas : serving'[s].st # "idle" => serving'[s].line \in Line
    BY <2>4, <2>5 DEF TypeOK, Serving
  <2>8. applied' \in [Replicas -> Nat]
    BY <1>4 DEF FsmApply, TypeOK
  <2> QED
    BY <1>4, <2>2, <2>6, <2>7, <2>8
    DEF FsmApply, TypeOK, ClientTypeOK, RaftTypeOK, clientVars, netVars, raftVars
<1>5. CASE FsmPanic(r)
  BY <1>5, DieType DEF FsmPanic, Die, TypeOK
<1> QED BY <1>1, <1>2, <1>3, <1>4, <1>5 DEF ServerNext

\* The actions of the Raft group.
LEMMA RaftStepType ==
  ASSUME TypeOK, RaftNext
  PROVE  TypeOK'
<1>0. Idle \in Serving /\ Idle.st = "idle"
  BY DEF Idle, Serving, NoResponse
<1>1. ASSUME NEW r \in Replicas, Elect(r) PROVE TypeOK'
  <2>1. (IF leader = None THEN <<>> ELSE InFlight(leader)) \in Seq(Entry)
    BY InFlightType DEF TypeOK, RaftTypeOK
  <2>2. RaftTypeOK(Entry)'
    BY <1>1, <2>1 DEF Elect, RaftElect, TypeOK, RaftTypeOK
  <2> QED
    BY <1>1, <2>2 DEF Elect, TypeOK, ClientTypeOK, clientVars, netVars, storeVars
<1>2. ASSUME NEW r \in Replicas, StepDown(r) PROVE TypeOK'
  <2>1. RaftTypeOK(Entry)'
    BY <1>2, InFlightType DEF StepDown, RaftStepDown, TypeOK, RaftTypeOK
  <2>2. serving' \in [Replicas -> Serving]
        /\ \A s \in Replicas : serving'[s].st # "idle" => serving'[s].line \in Line
    BY <1>0, <1>2 DEF StepDown, TypeOK
  <2> QED
    BY <1>2, <2>1, <2>2 DEF StepDown, TypeOK, ClientTypeOK, clientVars, netVars
<1>3. ASSUME NEW r \in Replicas, Commit(r) PROVE TypeOK'
  <2>1. serving[r] \in Serving /\ serving[r].line \in Line
    BY <1>3 DEF Commit, TypeOK
  <2>2. RaftTypeOK(Entry)'
    <3>1. [line |-> serving[r].line, by |-> r] \in Entry
      BY <2>1 DEF Entry
    <3> QED BY <1>3, <3>1 DEF Commit, RaftCommit, TypeOK, RaftTypeOK
  <2>3. serving' = [serving EXCEPT ![r] = [serving[r] EXCEPT !.st = "committed", !.idx = Len(log) + 1]]
    BY <1>3 DEF Commit, TypeOK, Serving
  <2>4. [serving[r] EXCEPT !.st = "committed", !.idx = Len(log) + 1] \in Serving
    <3>1. Len(log) + 1 \in Nat
      BY DEF TypeOK, RaftTypeOK
    <3> QED BY <2>1, <3>1 DEF Serving
  <2>5. serving' \in [Replicas -> Serving]
        /\ \A s \in Replicas : serving'[s].st # "idle" => serving'[s].line \in Line
    BY <2>1, <2>3, <2>4 DEF TypeOK, Serving
  <2>6. canon' \in Seq(Map) \ {<<>>}
    BY <1>3, <2>1, ExecType DEF Commit, TypeOK
  <2> QED
    BY <1>3, <2>2, <2>5, <2>6 DEF Commit, TypeOK, ClientTypeOK, clientVars, netVars
<1>4. ASSUME NEW r \in Replicas, Crash(r) PROVE TypeOK'
  <2>1. crashes' \in Nat
    BY <1>4 DEF Crash, TypeOK
  <2> QED BY <1>4, <2>1, DieType DEF Crash, Die, TypeOK
<1>5. ASSUME NEW i \in DOMAIN limbo, Inherit(i) PROVE TypeOK'
  <2>1. limbo[i] \in Entry /\ limbo[i].line \in Line
    <3>1. limbo \in Seq(Entry) /\ i \in 1..Len(limbo)
      BY DEF TypeOK, RaftTypeOK
    <3>2. limbo[i] \in Entry
      BY <3>1, ElementOfSeq
    <3> QED BY <3>2 DEF Entry
  <2>2. SubSeq(limbo, i + 1, Len(limbo)) \in Seq(Entry)
    BY SubSeqProperties DEF TypeOK, RaftTypeOK
  <2>3. RaftTypeOK(Entry)'
    BY <1>5, <2>1, <2>2 DEF Inherit, RaftInherit, TypeOK, RaftTypeOK
  <2>4. canon' \in Seq(Map) \ {<<>>}
    BY <1>5, <2>1, ExecType DEF Inherit, TypeOK
  <2> QED
    BY <1>5, <2>3, <2>4 DEF Inherit, TypeOK, ClientTypeOK, clientVars, netVars, storeVars
<1> QED BY <1>1, <1>2, <1>3, <1>4, <1>5 DEF RaftNext

\* Every step keeps the types.
LEMMA TypeStep ==
  ASSUME TypeOK, [Next]_vars
  PROVE  TypeOK'
<1>1. CASE \E c \in Clients : ClientNext(c) \/ LoseUDP(c)
  BY <1>1, ClientStepType
<1>2. CASE \E r \in Replicas : ServerNext(r)
  BY <1>2, ServerStepType
<1>3. CASE RaftNext
  BY <1>3, RaftStepType
<1>4. CASE UNCHANGED vars
  BY <1>4 DEF vars, clientVars, netVars, raftVars, storeVars, TypeOK, ClientTypeOK, RaftTypeOK
<1> QED BY <1>1, <1>2, <1>3, <1>4 DEF Next

(***************************************************************************)
(* Type correctness of the service: every variable, the buffers, futures   *)
(* and logs included, stays in its type for every instance.                *)
(***************************************************************************)
THEOREM TypeCorrect == Spec => []TypeOK
<1>1. TypeOK /\ [Next]_vars => TypeOK'
  BY TypeStep
<1> QED BY <1>1, InitType, PTL DEF Spec

-----------------------------------------------------------------------------
(***************************************************************************)
(* Agreement of the replicas and truth of the replies.  The inductive      *)
(* invariant adds to them what the ghost canon is, and what a request in   *)
(* HandleRequest knows once its entry is committed and once it is applied. *)
(***************************************************************************)
CanonInv ==
  /\ Len(canon) = Len(log) + 1
  /\ canon[1] = New
  /\ \A i \in DOMAIN log : canon[i + 1] = Exec(canon[i], log[i].line)

ServingInv ==
  \A r \in Replicas :
    /\ serving[r].st \in {"committed", "applied"} =>
         serving[r].idx \in DOMAIN log /\ log[serving[r].idx].line = serving[r].line
    /\ serving[r].st = "applied" /\ serving[r].out # NoResponse =>
         serving[r].out = Result(canon[serving[r].idx], serving[r].line)

\* m answers a committed request of c; what Propose sends is the result's first field.
AnswersCut(c, m) ==
  /\ m.idx \in DOMAIN log
  /\ log[m.idx].line.from = c
  /\ log[m.idx].line.num = m.num
  /\ m.text = ReplyText(Result(canon[m.idx], log[m.idx].line))

RepliesCut ==
  \A c \in Clients :
    /\ \A m \in udp[c] : AnswersCut(c, m)
    /\ heard[c] # NoReply => AnswersCut(c, heard[c])

IInv == TypeOK /\ CanonInv /\ StoreAgreement /\ ServingInv /\ RepliesCut

\* The log and the ghost only ever grow at the end.
LogExtends ==
  /\ \A i \in DOMAIN log : i \in DOMAIN log' /\ log'[i] = log[i]
  /\ \A i \in 1..Len(log) + 1 : canon'[i] = canon[i]
  /\ Len(log) <= Len(log')

\* Appending an entry, and its map to the ghost.
LEMMA AppendExtends ==
  ASSUME TypeOK, CanonInv, NEW e \in Entry,
         log' = Append(log, e), canon' = Append(canon, Exec(canon[Len(canon)], e.line))
  PROVE  LogExtends /\ CanonInv'
<1>1. log \in Seq(Entry) /\ canon \in Seq(Map) /\ Len(canon) = Len(log) + 1
  BY DEF TypeOK, RaftTypeOK, CanonInv
<1>2. /\ Len(log') = Len(log) + 1 /\ log'[Len(log) + 1] = e
      /\ \A i \in 1..Len(log) : log'[i] = log[i]
  BY <1>1, AppendProperties
<1>3. Exec(canon[Len(canon)], e.line) \in Map
  <2>1. canon[Len(canon)] \in Map /\ e.line \in Line
    BY <1>1 DEF Entry
  <2> QED BY <2>1, ExecType
<1>4. /\ Len(canon') = Len(canon) + 1 /\ canon'[Len(canon) + 1] = Exec(canon[Len(canon)], e.line)
      /\ \A i \in 1..Len(canon) : canon'[i] = canon[i]
  BY <1>1, <1>3, AppendProperties
<1>5. DOMAIN log = 1..Len(log) /\ DOMAIN log' = 1..Len(log) + 1 /\ Len(log) \in Nat
  BY <1>1, <1>2
<1>6. LogExtends
  BY <1>1, <1>2, <1>4, <1>5 DEF LogExtends
<1>7. \A i \in DOMAIN log' : canon'[i + 1] = Exec(canon'[i], log'[i].line)
  <2> SUFFICES ASSUME NEW i \in 1..Len(log) + 1
               PROVE  canon'[i + 1] = Exec(canon'[i], log'[i].line)
    BY <1>5
  <2>1. CASE i \in 1..Len(log)
    <3>1. i \in 1..Len(canon) /\ i + 1 \in 1..Len(canon)
      BY <1>1, <1>5, <2>1
    <3>2. canon[i + 1] = Exec(canon[i], log[i].line)
      BY <1>5, <2>1 DEF CanonInv
    <3>3. canon'[i] = canon[i]
      BY <1>4, <3>1
    <3>4. canon'[i + 1] = canon[i + 1]
      BY <1>4, <3>1
    <3>5. log'[i] = log[i]
      BY <1>2, <2>1
    <3>6. Exec(canon'[i], log'[i].line) = Exec(canon[i], log[i].line)
      BY <3>3, <3>5, Zenon
    <3> QED BY <3>2, <3>4, <3>6, Zenon
  <2>2. CASE i = Len(log) + 1
    BY <1>1, <1>2, <1>4, <1>5, <2>2
  <2>3. i \in 1..Len(log) \/ i = Len(log) + 1
    BY <1>5
  <2> QED BY <2>1, <2>2, <2>3, Zenon
<1>8. canon'[1] = New
  BY <1>1, <1>4, <1>5 DEF CanonInv
<1> QED BY <1>1, <1>2, <1>4, <1>5, <1>6, <1>7, <1>8 DEF CanonInv

\* Every step leaves the log as it is, or extends it with its map.
LEMMA LogStep ==
  ASSUME TypeOK, CanonInv, [Next]_vars
  PROVE  LogExtends /\ CanonInv'
<1>1. CASE log' = log /\ canon' = canon
  <2>1. Len(log) \in Nat
    BY DEF TypeOK, RaftTypeOK
  <2> QED BY <1>1, <2>1 DEF LogExtends, CanonInv
<1>2. ASSUME NEW r \in Replicas, Commit(r) PROVE LogExtends /\ CanonInv'
  <2>1. [line |-> serving[r].line, by |-> r] \in Entry
    BY <1>2 DEF Commit, TypeOK, Entry
  <2>2. log' = Append(log, [line |-> serving[r].line, by |-> r])
    BY <1>2 DEF Commit, RaftCommit
  <2>3. canon' = Append(canon, Exec(canon[Len(canon)], serving[r].line))
    BY <1>2 DEF Commit
  <2> QED BY <2>1, <2>2, <2>3, AppendExtends
<1>3. ASSUME NEW i \in DOMAIN limbo, Inherit(i) PROVE LogExtends /\ CanonInv'
  <2>1. limbo \in Seq(Entry) /\ i \in 1..Len(limbo)
    BY DEF TypeOK, RaftTypeOK
  <2>2. limbo[i] \in Entry
    BY <2>1, ElementOfSeq
  <2>3. log' = Append(log, limbo[i]) /\ canon' = Append(canon, Exec(canon[Len(canon)], limbo[i].line))
    BY <1>3 DEF Inherit, RaftInherit
  <2> QED BY <2>2, <2>3, AppendExtends
<1>4. ASSUME NEW c \in Clients, ClientNext(c) \/ LoseUDP(c) PROVE log' = log /\ canon' = canon
  BY <1>4 DEF ClientNext, LoseUDP, ClientCall, ClientWrite, ClientWriteFails, ClientReadUDP, raftVars
<1>5. ASSUME NEW r \in Replicas, ServerNext(r) PROVE log' = log /\ canon' = canon
  BY <1>5 DEF ServerNext, SessionSkip, HandleRequest, Respond, FsmApply, FsmPanic, Die, RaftDie, raftVars
<1>6. ASSUME NEW r \in Replicas, Elect(r) \/ StepDown(r) \/ Crash(r) PROVE log' = log /\ canon' = canon
  BY <1>6 DEF Elect, RaftElect, StepDown, RaftStepDown, Crash, Die, RaftDie
<1>7. CASE UNCHANGED vars
  BY <1>1, <1>7 DEF vars, raftVars
<1> QED BY <1>1, <1>2, <1>3, <1>4, <1>5, <1>6, <1>7 DEF Next, RaftNext

\* The step of a replica's state machine, in the ghost's terms.
LEMMA FsmStep ==
  ASSUME IInv, NEW r \in Replicas, FsmApply(r)
  PROVE  /\ applied[r] + 1 \in DOMAIN log
         /\ kv' = [kv EXCEPT ![r] = canon[applied[r] + 2]]
         /\ ApplyResponse(kv[r], NextLine(r)) # NoResponse =>
              ApplyResponse(kv[r], NextLine(r)) = Result(canon[applied[r] + 1], NextLine(r))
<1>1. NextLine(r) \in Line /\ applied[r] + 1 \in DOMAIN log
  BY NextLineType DEF FsmApply, IInv
<1>2. kv[r] \in Map /\ kv[r] = canon[applied[r] + 1] /\ applied[r] \in Nat
  BY DEF IInv, TypeOK, StoreAgreement
<1>3. ApplyMap(kv[r], NextLine(r)) = Exec(canon[applied[r] + 1], NextLine(r))
      /\ (ApplyResponse(kv[r], NextLine(r)) # NoResponse =>
            ApplyResponse(kv[r], NextLine(r)) = Result(canon[applied[r] + 1], NextLine(r)))
  BY <1>1, <1>2, ApplyIsExec DEF FsmApply
<1>4. canon[applied[r] + 1 + 1] = Exec(canon[applied[r] + 1], NextLine(r))
  BY <1>1 DEF IInv, CanonInv, NextLine
<1>5. applied[r] + 1 + 1 = applied[r] + 2
  BY <1>2
<1>6. kv' = [kv EXCEPT ![r] = ApplyMap(kv[r], NextLine(r))]
  BY DEF FsmApply
<1> QED BY <1>1, <1>3, <1>4, <1>5, <1>6

\* Agreement is preserved.
LEMMA StoreStep ==
  ASSUME IInv, [Next]_vars
  PROVE  StoreAgreement'
<1>0. LogExtends /\ Len(log) \in Nat /\ (\A r \in Replicas : applied[r] \in Nat)
  BY LogStep DEF IInv, TypeOK, RaftTypeOK
<1>1. CASE kv' = kv /\ applied' = applied
  <2> SUFFICES ASSUME NEW r \in Replicas
               PROVE  applied[r] <= Len(log)' /\ kv[r] = canon'[applied[r] + 1]
    BY <1>1 DEF StoreAgreement
  <2>1. applied[r] <= Len(log) /\ kv[r] = canon[applied[r] + 1]
    BY DEF IInv, StoreAgreement
  <2>2. applied[r] + 1 \in 1..Len(log) + 1
    BY <1>0, <2>1
  <2>3. Len(log') \in Nat
    BY <1>0, LogStep, TypeStep DEF IInv, TypeOK, RaftTypeOK
  <2> QED BY <1>0, <2>1, <2>2, <2>3 DEF LogExtends
<1>2. ASSUME NEW r \in Replicas, FsmApply(r) PROVE StoreAgreement'
  <2>1. /\ applied[r] + 1 \in 1..Len(log)
        /\ kv' = [kv EXCEPT ![r] = canon[applied[r] + 2]]
        /\ applied' = [applied EXCEPT ![r] = applied[r] + 1]
        /\ log' = log /\ canon' = canon
    <3>1. log \in Seq(Entry)
      BY DEF IInv, TypeOK, RaftTypeOK
    <3>2. DOMAIN log = 1..Len(log)
      BY <3>1
    <3>3. /\ applied' = [applied EXCEPT ![r] = applied[r] + 1]
          /\ log' = log /\ canon' = canon
      BY <1>2 DEF FsmApply, raftVars
    <3>4. /\ applied[r] + 1 \in DOMAIN log
          /\ kv' = [kv EXCEPT ![r] = canon[applied[r] + 2]]
      BY <1>2, FsmStep
    <3> QED BY <3>2, <3>3, <3>4
  <2> SUFFICES ASSUME NEW s \in Replicas
               PROVE  applied'[s] <= Len(log) /\ kv'[s] = canon[applied'[s] + 1]
    BY <2>1 DEF StoreAgreement
  <2>2. CASE s = r
    <3>1. applied'[s] = applied[r] + 1 /\ kv'[s] = canon[applied[r] + 2]
      BY <2>1, <2>2 DEF IInv, TypeOK
    <3> QED BY <1>0, <2>1, <3>1
  <2>3. CASE s # r
    <3>1. applied'[s] = applied[s] /\ kv'[s] = kv[s]
      BY <2>1, <2>3 DEF IInv, TypeOK
    <3> QED BY <3>1 DEF IInv, StoreAgreement
  <2> QED BY <2>2, <2>3
<1>3. ASSUME NEW c \in Clients, ClientNext(c) \/ LoseUDP(c) PROVE kv' = kv /\ applied' = applied
  BY <1>3 DEF ClientNext, LoseUDP, ClientCall, ClientWrite, ClientWriteFails, ClientReadUDP, storeVars
<1>4. ASSUME NEW r \in Replicas, ServerNext(r), ~FsmApply(r) PROVE kv' = kv /\ applied' = applied
  BY <1>4 DEF ServerNext, SessionSkip, HandleRequest, Respond, FsmPanic, Die, storeVars
<1>5. ASSUME RaftNext PROVE kv' = kv /\ applied' = applied
  BY <1>5 DEF RaftNext, Elect, StepDown, Commit, Crash, Die, Inherit, storeVars
<1>6. CASE UNCHANGED vars
  BY <1>1, <1>6 DEF vars, storeVars
<1> QED BY <1>1, <1>2, <1>3, <1>4, <1>5, <1>6 DEF Next

\* A reply that answers a commit goes on answering it.
LEMMA AnswerStable ==
  ASSUME IInv, LogExtends, NEW c, NEW m, AnswersCut(c, m)
  PROVE  AnswersCut(c, m)'
<1>1. /\ m.idx \in DOMAIN log
      /\ log[m.idx].line.from = c
      /\ log[m.idx].line.num = m.num
      /\ m.text = ReplyText(Result(canon[m.idx], log[m.idx].line))
  BY DEF AnswersCut
<1>2. m.idx \in 1..Len(log) + 1
  <2>1. DOMAIN log = 1..Len(log) /\ Len(log) \in Nat
    BY DEF IInv, TypeOK, RaftTypeOK
  <2> QED BY <1>1, <2>1
<1>3. m.idx \in DOMAIN log' /\ log'[m.idx] = log[m.idx] /\ canon'[m.idx] = canon[m.idx]
  BY <1>1, <1>2 DEF LogExtends
<1> QED BY <1>1, <1>3 DEF AnswersCut

\* A request that is committed, or applied, stays so until it is answered.
LEMMA ServingStable ==
  ASSUME IInv, LogExtends, NEW r \in Replicas, serving'[r] = serving[r]
  PROVE  /\ serving'[r].st \in {"committed", "applied"} =>
              serving'[r].idx \in DOMAIN log' /\ log'[serving'[r].idx].line = serving'[r].line
         /\ serving'[r].st = "applied" /\ serving'[r].out # NoResponse =>
              serving'[r].out = Result(canon'[serving'[r].idx], serving'[r].line)
<1> SUFFICES ASSUME serving[r].st \in {"committed", "applied"}
             PROVE  /\ serving[r].idx \in DOMAIN log' /\ log'[serving[r].idx].line = serving[r].line
                    /\ serving[r].st = "applied" /\ serving[r].out # NoResponse =>
                         serving[r].out = Result(canon'[serving[r].idx], serving[r].line)
  OBVIOUS
<1>1. serving[r].idx \in DOMAIN log /\ log[serving[r].idx].line = serving[r].line
  BY DEF IInv, ServingInv
<1>2. serving[r].st = "applied" /\ serving[r].out # NoResponse =>
        serving[r].out = Result(canon[serving[r].idx], serving[r].line)
  BY DEF IInv, ServingInv
<1>3. serving[r].idx \in 1..Len(log) + 1
  <2>1. DOMAIN log = 1..Len(log) /\ Len(log) \in Nat
    BY DEF IInv, TypeOK, RaftTypeOK
  <2> QED BY <1>1, <2>1
<1>4. log'[serving[r].idx] = log[serving[r].idx] /\ canon'[serving[r].idx] = canon[serving[r].idx]
      /\ serving[r].idx \in DOMAIN log'
  BY <1>1, <1>3 DEF LogExtends
<1> QED BY <1>1, <1>2, <1>4

\* What HandleRequest knows is preserved.
LEMMA ServingStep ==
  ASSUME IInv, [Next]_vars
  PROVE  ServingInv'
<1> DEFINE Same(s) == serving'[s] = serving[s] \/ serving'[s].st \in {"idle", "proposed"}
<1>0. LogExtends
  BY LogStep DEF IInv
<1>1. ASSUME \A s \in Replicas : Same(s) PROVE ServingInv'
  <2> SUFFICES ASSUME NEW s \in Replicas
               PROVE  /\ serving'[s].st \in {"committed", "applied"} =>
                           serving'[s].idx \in DOMAIN log' /\ log'[serving'[s].idx].line = serving'[s].line
                      /\ serving'[s].st = "applied" /\ serving'[s].out # NoResponse =>
                           serving'[s].out = Result(canon'[serving'[s].idx], serving'[s].line)
    BY DEF ServingInv
  <2> QED BY <1>0, <1>1, ServingStable
<1>2. ASSUME NEW r \in Replicas, Commit(r) PROVE ServingInv'
  <2>1. log \in Seq(Entry) /\ [line |-> serving[r].line, by |-> r] \in Entry
    BY <1>2 DEF IInv, TypeOK, RaftTypeOK, Commit, Entry
  <2>2. Len(log) + 1 \in DOMAIN log' /\ log'[Len(log) + 1].line = serving[r].line
    <3>1. log' = Append(log, [line |-> serving[r].line, by |-> r])
      BY <1>2 DEF Commit, RaftCommit
    <3> QED BY <2>1, <3>1, AppendProperties
  <2>3. serving'[r].st = "committed" /\ serving'[r].idx = Len(log) + 1 /\ serving'[r].line = serving[r].line
    BY <1>2 DEF Commit, IInv, TypeOK, Serving
  <2>4. \A s \in Replicas : s # r => serving'[s] = serving[s]
    BY <1>2 DEF Commit, IInv, TypeOK
  <2> QED BY <1>0, <2>2, <2>3, <2>4, ServingStable DEF ServingInv
<1>3. ASSUME NEW r \in Replicas, FsmApply(r) PROVE ServingInv'
  <2>1. CASE serving[r].st = "committed" /\ serving[r].idx = applied[r] + 1
    <3>1. /\ serving'[r].st = "applied" /\ serving'[r].idx = applied[r] + 1
          /\ serving'[r].line = serving[r].line
          /\ serving'[r].out = ApplyResponse(kv[r], NextLine(r))
      BY <1>3, <2>1 DEF FsmApply, IInv, TypeOK, Serving
    <3>2. log' = log /\ canon' = canon
      BY <1>3 DEF FsmApply, raftVars
    <3>3. applied[r] + 1 \in DOMAIN log /\ NextLine(r) = serving[r].line
      BY <2>1 DEF IInv, ServingInv, NextLine
    <3>4. serving'[r].out # NoResponse =>
            serving'[r].out = Result(canon[applied[r] + 1], serving[r].line)
      BY <1>3, <3>1, <3>3, FsmStep
    <3>5. \A s \in Replicas : s # r => serving'[s] = serving[s]
      BY <1>3 DEF FsmApply, IInv, TypeOK
    <3>6. log[applied[r] + 1].line = serving[r].line
      BY <3>3 DEF NextLine
    <3> QED BY <1>0, <3>1, <3>2, <3>3, <3>4, <3>5, <3>6, ServingStable DEF ServingInv
  <2>2. CASE ~(serving[r].st = "committed" /\ serving[r].idx = applied[r] + 1)
    BY <1>1, <1>3, <2>2 DEF FsmApply
  <2> QED BY <2>1, <2>2
<1>4. ASSUME NEW c \in Clients, ClientNext(c) \/ LoseUDP(c) PROVE serving' = serving
  BY <1>4 DEF ClientNext, LoseUDP, ClientCall, ClientWrite, ClientWriteFails, ClientReadUDP, storeVars
<1>5. ASSUME NEW r \in Replicas, ServerNext(r), ~FsmApply(r) PROVE \A s \in Replicas : Same(s)
  <2>1. ASSUME NEW c \in Clients, SessionSkip(r, c) PROVE serving' = serving
    BY <2>1 DEF SessionSkip, storeVars
  <2>2. ASSUME NEW c \in Clients, HandleRequest(r, c) PROVE \A s \in Replicas : Same(s)
    BY <2>2 DEF HandleRequest, IInv, TypeOK, Idle
  <2>3. CASE Respond(r)
    BY <2>3 DEF Respond, IInv, TypeOK, Idle
  <2>4. CASE FsmPanic(r)
    BY <2>4 DEF FsmPanic, Die, IInv, TypeOK, Idle
  <2> QED BY <1>5, <2>1, <2>2, <2>3, <2>4 DEF ServerNext
<1>6. ASSUME NEW r \in Replicas, Elect(r) \/ StepDown(r) \/ Crash(r) PROVE \A s \in Replicas : Same(s)
  BY <1>6 DEF Elect, StepDown, Crash, Die, IInv, TypeOK, Idle, storeVars
<1>7. ASSUME NEW i \in DOMAIN limbo, Inherit(i) PROVE serving' = serving
  BY <1>7 DEF Inherit, storeVars
<1>8. CASE UNCHANGED vars
  BY <1>1, <1>8 DEF vars, storeVars
<1> QED BY <1>1, <1>2, <1>3, <1>4, <1>5, <1>6, <1>7, <1>8 DEF Next, RaftNext

\* Replies stay answers to commits: what Respond sends, and what ReadUDP takes.
LEMMA ReplyStep ==
  ASSUME IInv, [Next]_vars
  PROVE  RepliesCut'
<1>0. LogExtends
  BY LogStep DEF IInv
<1>1. ASSUME NEW c \in Clients, NEW m, m \in udp[c] PROVE AnswersCut(c, m)'
  BY <1>0, <1>1, AnswerStable DEF IInv, RepliesCut
<1>2. ASSUME NEW c \in Clients, heard[c] # NoReply PROVE \A m : m = heard[c] => AnswersCut(c, m)'
  BY <1>0, <1>2, AnswerStable DEF IInv, RepliesCut
<1>3. ASSUME \A c \in Clients : udp'[c] \subseteq udp[c] /\ heard'[c] \in {heard[c]} \cup udp[c]
      PROVE  RepliesCut'
  <2> SUFFICES ASSUME NEW c \in Clients
               PROVE  /\ \A m \in udp'[c] : AnswersCut(c, m)'
                      /\ heard'[c] # NoReply => \A m : m = heard'[c] => AnswersCut(c, m)'
    BY DEF RepliesCut, AnswersCut
  <2> QED BY <1>1, <1>2, <1>3
<1>4. ASSUME NEW r \in Replicas, Respond(r), serving[r].out # NoResponse PROVE RepliesCut'
  <2> DEFINE c == serving[r].line.from
             reply == [num |-> serving[r].line.num, idx |-> serving[r].idx,
                       text |-> ReplyText(serving[r].out)]
  <2>1. /\ serving[r].idx \in DOMAIN log
        /\ log[serving[r].idx].line = serving[r].line
        /\ serving[r].out = Result(canon[serving[r].idx], serving[r].line)
    BY <1>4 DEF Respond, IInv, ServingInv
  <2>2. AnswersCut(c, reply)
    BY <2>1 DEF AnswersCut
  <2>3. ASSUME NEW d \in Clients, d = c, NEW m, m = reply PROVE AnswersCut(d, m)'
    <3>1. AnswersCut(d, m)
      BY <2>2, <2>3, Zenon
    <3> QED BY <1>0, <3>1, AnswerStable, Zenon
  <2>4. serving[r].line \in Line /\ c \in Clients
    BY <1>4 DEF Respond, IInv, TypeOK, Line
  <2>5. udp' = [udp EXCEPT ![c] = @ \cup {reply}] /\ heard' = heard
    BY <1>4 DEF Respond, clientVars
  <2>6. \A d \in Clients : \A m \in udp'[d] : m \in udp[d] \/ (d = c /\ m = reply)
    BY <2>4, <2>5 DEF IInv, TypeOK, ClientTypeOK
  <2> HIDE DEF c, reply
  <2> SUFFICES ASSUME NEW d \in Clients
               PROVE  /\ \A m \in udp'[d] : AnswersCut(d, m)'
                      /\ heard'[d] # NoReply => \A m : m = heard'[d] => AnswersCut(d, m)'
    BY DEF RepliesCut, AnswersCut
  <2>7. ASSUME NEW m \in udp'[d] PROVE AnswersCut(d, m)'
    <3>1. m \in udp[d] \/ (d = c /\ m = reply)
      BY <2>6, <2>7
    <3>2. CASE m \in udp[d]
      BY <1>1, <3>2
    <3>3. CASE d = c /\ m = reply
      BY <2>3, <3>3, Zenon
    <3> QED BY <3>1, <3>2, <3>3
  <2> QED BY <1>2, <2>5, <2>7
<1>5. ASSUME NEW r \in Replicas, ServerNext(r), ~(Respond(r) /\ serving[r].out # NoResponse)
      PROVE  udp' = udp /\ heard' = heard
  BY <1>5 DEF ServerNext, SessionSkip, HandleRequest, Respond, FsmApply, FsmPanic, Die, clientVars, netVars
<1>6. ASSUME RaftNext PROVE udp' = udp /\ heard' = heard
  BY <1>6 DEF RaftNext, Elect, StepDown, Commit, Crash, Die, Inherit, clientVars, netVars
<1>7. ASSUME NEW d \in Clients, ClientNext(d) \/ LoseUDP(d)
      PROVE  \A c \in Clients : udp'[c] \subseteq udp[c] /\ heard'[c] \in {heard[c]} \cup udp[c]
  <2>1. CASE ClientReadUDP(d)
    BY <2>1 DEF ClientReadUDP, ReadUDP, IInv, TypeOK, ClientTypeOK
  <2>2. CASE LoseUDP(d)
    BY <2>2 DEF LoseUDP, clientVars, IInv, TypeOK, ClientTypeOK
  <2>3. CASE ClientNext(d) /\ ~ClientReadUDP(d)
    BY <2>3 DEF ClientNext, ClientCall, Call, ClientWrite, Write, ClientWriteFails, WriteFails, netVars
  <2> QED BY <1>7, <2>1, <2>2, <2>3
<1>8. CASE UNCHANGED vars
  BY <1>3, <1>8 DEF vars, clientVars, netVars
<1>9. CASE udp' = udp /\ heard' = heard
  BY <1>3, <1>9
<1> QED BY <1>3, <1>4, <1>5, <1>6, <1>7, <1>8, <1>9 DEF Next

\* IInv is an inductive invariant of the service.
LEMMA Inductive ==
  /\ Init => IInv
  /\ IInv /\ [Next]_vars => IInv'
<1>1. Init => IInv
  <2> SUFFICES ASSUME Init PROVE IInv
    OBVIOUS
  <2>1. TypeOK
    BY InitType
  <2>2. log = <<>> /\ canon = <<New>> /\ DOMAIN log = {} /\ Len(log) = 0 /\ Len(canon) = 1 /\ canon[1] = New
    BY DEF Init, RaftInit
  <2>3. CanonInv
    BY <2>2 DEF CanonInv
  <2>4. StoreAgreement
    BY <2>2 DEF StoreAgreement, Init
  <2>5. ServingInv
    BY DEF ServingInv, Init, Idle
  <2>6. RepliesCut
    BY DEF RepliesCut, Init, ClientInit
  <2> QED BY <2>1, <2>3, <2>4, <2>5, <2>6 DEF IInv
<1>2. IInv /\ [Next]_vars => IInv'
  <2> SUFFICES ASSUME IInv, [Next]_vars PROVE IInv'
    OBVIOUS
  <2>1. TypeOK' /\ CanonInv'
    BY TypeStep, LogStep DEF IInv
  <2>2. StoreAgreement' /\ ServingInv' /\ RepliesCut'
    BY StoreStep, ServingStep, ReplyStep
  <2> QED BY <2>1, <2>2 DEF IInv
<1> QED BY <1>1, <1>2

(***************************************************************************)
(* Replicas agree: whatever the elections, the faults and the requests,    *)
(* the map of a replica that has applied i entries is the reference map    *)
(* after the first i committed ones.                                       *)
(***************************************************************************)
THEOREM ReplicasAgree == Spec => []StoreAgreement
<1>1. IInv => StoreAgreement
  BY DEF IInv
<1> QED BY <1>1, Inductive, PTL DEF Spec

\* A request's result is a string of the model.
LEMMA ResultType == ASSUME NEW m \in Map, NEW line \in Line PROVE Result(m, line) \in Strings
<1>1. line.cmd \in Command
  BY ValuesAreStrings DEF ValuesAreStrings, Line
<1> QED BY <1>1 DEF Result, Map, Command, Strings

\* No value has a dash in it.
Undashed == \A s \in Strings : Len(s) = 1

\* Without a dash, the first field of a result is the whole of it.
LEMMA WholeResult ==
  ASSUME Undashed, IInv, NEW c, NEW m, AnswersCut(c, m)
  PROVE  AnswersCommit(c, m)
<1>1. canon[m.idx] \in Map /\ log[m.idx].line \in Line
  <2>1. /\ canon \in Seq(Map) /\ log \in Seq(Entry)
        /\ Len(canon) = Len(log) + 1 /\ Len(log) \in Nat /\ m.idx \in 1..Len(log)
    BY DEF AnswersCut, IInv, TypeOK, RaftTypeOK, CanonInv
  <2>2. canon[m.idx] \in Map /\ log[m.idx] \in Entry
    <3>1. m.idx \in 1..Len(canon)
      BY <2>1
    <3> QED BY <2>1, <3>1, ElementOfSeq
  <2> QED BY <2>2 DEF Entry
<1>2. Result(canon[m.idx], log[m.idx].line) \in Strings
  BY <1>1, ResultType
<1>3. \A v \in Strings : ReplyText(v) = v
  <2> SUFFICES ASSUME NEW v \in Strings PROVE <<Head(v)>> = v
    BY DEF ReplyText
  <2>1. v \in Seq(STRING) /\ Len(v) = 1
    BY StringsAreSeqs DEF Undashed
  <2> QED BY <2>1
<1> QED BY <1>2, <1>3 DEF AnswersCut, AnswersCommit

(***************************************************************************)
(* Replies are true: no datagram reaches a client, from a deposed leader   *)
(* or any other, that does not answer a committed request of that client   *)
(* with the whole result the request has at its place in the total order,  *)
(* as long as no value has a dash in it.                                   *)
(***************************************************************************)
THEOREM RepliesAreCommitted == ASSUME Undashed PROVE Spec => []ReplyIsCommitted
<1>1. IInv => ReplyIsCommitted
  BY WholeResult DEF IInv, RepliesCut, ReplyIsCommitted
<1> QED BY <1>1, Inductive, PTL DEF Spec

(***************************************************************************)
(* With a dash, the reply to a committed request is still its own, but it  *)
(* is what Propose keeps of the result: the text before the first dash.    *)
(***************************************************************************)
THEOREM RepliesAreFirstFields == Spec => []RepliesCut
<1>1. IInv => RepliesCut
  BY DEF IInv
<1> QED BY <1>1, Inductive, PTL DEF Spec

-----------------------------------------------------------------------------
(***************************************************************************)
(* The order of one replica's proposals.  An entry is followed from the    *)
(* client's write, over the session's queue and HandleRequest, to the log  *)
(* or to what a failed leader leaves behind.                               *)
(***************************************************************************)

\* c's n-th request has been written to r.
Written(r, c, n) == n < num[c] \/ (n = num[c] /\ ~(phase[c] = "sending" /\ pos[c] <= r))

\* Requests come one after the other, each with the blank line that may go with it.
InTurn == {p \in Line \X Line : \/ p[1].kind = "blank" \/ p[2].kind = "blank"
                                \/ p[1].num < p[2].num}

\* A session's queue: requests of its client that it has written, in turn.
SessionQueue(r, c) ==
  /\ \A i \in DOMAIN tcp[r][c] :
       /\ tcp[r][c][i].from = c
       /\ tcp[r][c][i].kind # "blank" => Written(r, c, tcp[r][c][i].num)
  /\ InOrder(tcp[r][c], InTurn)

\* The entries whose line is before what waits in the queue it came from.
Taken == {e \in Entry :
            /\ Written(e.by, e.line.from, e.line.num)
            /\ \A i \in DOMAIN tcp[e.by][e.line.from] :
                 \/ tcp[e.by][e.line.from][i].kind = "blank"
                 \/ e.line.num < tcp[e.by][e.line.from][i].num}

\* What e may commit before: another proposer's, another client's, or a later request.
ByProposer == {p \in Entry \X Entry :
                 p[1].by = p[2].by /\ p[1].line.from = p[2].line.from
                   => p[1].line.num < p[2].line.num}

\* What HandleRequest has proposed; it commits only while r leads.
Proposal(r) == [line |-> serving[r].line, by |-> r]

QueuesInv == \A r \in Replicas, c \in Clients : SessionQueue(r, c)

TakenInv ==
  /\ log \in Seq(Taken) /\ limbo \in Seq(Taken)
  /\ \A r \in Replicas : serving[r].st = "proposed" => r \in believers /\ Proposal(r) \in Taken

\* What the leader has in flight.
Live == IF leader = None THEN <<>> ELSE InFlight(leader)

CommitInv == CommitOrder(log, limbo, Live, ByProposer)

OrderInv == QueuesInv /\ TakenInv /\ CommitInv

-----------------------------------------------------------------------------
(* The queues. *)

\* The queues after a step: as they were, shorter, empty, or with one more request.
LEMMA TcpStep ==
  ASSUME TypeOK, [Next]_vars
  PROVE  \/ tcp' = tcp /\ UNCHANGED <<num, pos>>
            /\ (phase' = phase \/ \E c \in Clients : phase' = [phase EXCEPT ![c] = "idle"]
                                                 \/ phase' = [phase EXCEPT ![c] = "waiting"])
         \/ \E c \in Clients : \E x \in Commands : ClientCall(c, x)
         \/ \E c \in Clients : ClientWrite(c)
         \/ \E r \in Replicas, c \in Clients : SessionSkip(r, c) \/ HandleRequest(r, c)
         \/ \E r \in Replicas : Die(r)
<1>1. ASSUME NEW c \in Clients, ClientNext(c) \/ LoseUDP(c),
             ~ClientWrite(c), \A x \in Commands : ~ClientCall(c, x)
      PROVE  /\ tcp' = tcp /\ UNCHANGED <<num, pos>>
             /\ phase' = phase \/ phase' = [phase EXCEPT ![c] = "idle"]
                \/ phase' = [phase EXCEPT ![c] = "waiting"]
  BY <1>1 DEF ClientNext, LoseUDP, ClientWriteFails, WriteFails, ClientReadUDP, ReadUDP, clientVars, netVars
<1>2. ASSUME NEW r \in Replicas, Respond(r) \/ FsmApply(r) PROVE tcp' = tcp /\ UNCHANGED <<num, pos, phase>>
  BY <1>2 DEF Respond, FsmApply, clientVars, netVars
<1>3. ASSUME NEW r \in Replicas, Elect(r) \/ StepDown(r) \/ Commit(r)
      PROVE tcp' = tcp /\ UNCHANGED <<num, pos, phase>>
  BY <1>3 DEF Elect, StepDown, Commit, clientVars, netVars
<1>4. ASSUME NEW i \in DOMAIN limbo, Inherit(i) PROVE tcp' = tcp /\ UNCHANGED <<num, pos, phase>>
  BY <1>4 DEF Inherit, clientVars, netVars
<1>5. ASSUME UNCHANGED vars PROVE tcp' = tcp /\ UNCHANGED <<num, pos, phase>>
  BY <1>5 DEF vars, clientVars, netVars
<1> QED BY <1>1, <1>2, <1>3, <1>4, <1>5 DEF Next, ServerNext, RaftNext, FsmPanic, Crash

\* What is written stays written.
LEMMA WrittenStays ==
  ASSUME TypeOK, [Next]_vars, NEW r \in Replicas, NEW c \in Clients, NEW n \in Nat, Written(r, c, n)
  PROVE  Written(r, c, n)'
<1>0. /\ num \in [Clients -> Nat] /\ pos \in [Clients -> Replicas] /\ Replicas \subseteq Nat
      /\ phase \in [Clients -> {"idle", "sending", "waiting"}]
  BY ClusterAssumption DEF ClusterAssumption, TypeOK, ClientTypeOK, Replicas
<1>1. CASE tcp' = tcp /\ UNCHANGED <<num, pos>>
           /\ (phase' = phase \/ \E d \in Clients : phase' = [phase EXCEPT ![d] = "idle"]
                                                \/ phase' = [phase EXCEPT ![d] = "waiting"])
  BY <1>0, <1>1 DEF Written
<1>2. ASSUME NEW d \in Clients, NEW x \in Commands, ClientCall(d, x) PROVE Written(r, c, n)'
  <2>1. CASE c = d
    <3>1. num'[c] = num[c] + 1 /\ num[c] \in Nat
      BY <1>0, <1>2, <2>1 DEF ClientCall, Call
    <3> QED BY <3>1 DEF Written
  <2>2. CASE c # d
    <3>1. num'[c] = num[c] /\ phase'[c] = phase[c] /\ pos'[c] = pos[c]
      BY <1>0, <1>2, <2>2 DEF ClientCall, Call
    <3> QED BY <3>1 DEF Written
  <2> QED BY <2>1, <2>2
<1>3. ASSUME NEW d \in Clients, ClientWrite(d) PROVE Written(r, c, n)'
  <2>1. num' = num /\ phase[d] = "sending"
    BY <1>3 DEF ClientWrite, Write
  <2>2. \/ phase'[c] = phase[c] /\ pos'[c] = pos[c]
        \/ phase'[c] # "sending"
        \/ c = d /\ pos'[c] = pos[c] + 1
    BY <1>0, <1>3 DEF ClientWrite, Write, NextReplica
  <2>3. pos[c] \in Nat /\ r \in Nat
    BY <1>0
  <2> QED BY <2>1, <2>2, <2>3 DEF Written
<1>4. ASSUME NEW s \in Replicas, NEW d \in Clients, SessionSkip(s, d) \/ HandleRequest(s, d)
      PROVE  Written(r, c, n)'
  BY <1>4 DEF SessionSkip, HandleRequest, clientVars, Written
<1>5. ASSUME NEW s \in Replicas, Die(s) PROVE Written(r, c, n)'
  BY <1>5 DEF Die, clientVars, Written
<1> QED BY <1>1, <1>2, <1>3, <1>4, <1>5, TcpStep

\* One session's queue after a step.
LEMMA QueueStep ==
  ASSUME TypeOK, [Next]_vars, NEW r \in Replicas, NEW c \in Clients
  PROVE  \/ tcp'[r][c] \in {tcp[r][c], <<>>}
         \/ tcp[r][c] # <<>> /\ tcp'[r][c] = Tail(tcp[r][c])
         \/ /\ tcp'[r][c] = tcp[r][c] \o Lines(c)
            /\ phase[c] = "sending" /\ pos[c] = r /\ num'[c] = num[c] /\ Written(r, c, num[c])'
<1> DEFINE Goal == \/ tcp'[r][c] \in {tcp[r][c], <<>>}
                   \/ tcp[r][c] # <<>> /\ tcp'[r][c] = Tail(tcp[r][c])
                   \/ /\ tcp'[r][c] = tcp[r][c] \o Lines(c)
                      /\ phase[c] = "sending" /\ pos[c] = r /\ num'[c] = num[c] /\ Written(r, c, num[c])'
<1>0. /\ num \in [Clients -> Nat] /\ pos \in [Clients -> Replicas] /\ Replicas \subseteq Nat
      /\ phase \in [Clients -> {"idle", "sending", "waiting"}]
      /\ tcp \in [Replicas -> [Clients -> Seq(Line)]]
  BY ClusterAssumption DEF ClusterAssumption, TypeOK, ClientTypeOK, Replicas
<1>1. ASSUME NEW d \in Clients, NEW x \in Commands, ClientCall(d, x) PROVE Goal
  BY <1>1 DEF ClientCall, Call, netVars
<1>2. ASSUME NEW d \in Clients, ClientWrite(d) PROVE Goal
  <2>1. CASE pos[d] \in alive /\ pos[d] = r /\ d = c
    <3>1. phase[c] = "sending" /\ tcp'[r][c] = tcp[r][c] \o Lines(c)
      BY <1>0, <1>2, <2>1 DEF ClientWrite, Write
    <3>2. num' = num /\ (pos'[c] = r + 1 \/ phase'[c] = "waiting")
      BY <1>0, <1>2, <2>1 DEF ClientWrite, Write, NextReplica
    <3>3. r \in Nat /\ num[c] \in Nat
      BY <1>0
    <3>4. Written(r, c, num[c])'
      BY <3>2, <3>3 DEF Written
    <3> QED BY <2>1, <3>1, <3>2, <3>4
  <2>2. CASE ~(pos[d] \in alive /\ pos[d] = r /\ d = c)
    BY <1>0, <1>2, <2>2 DEF ClientWrite, Write
  <2> QED BY <2>1, <2>2
<1>3. ASSUME NEW s \in Replicas, NEW d \in Clients, SessionSkip(s, d) \/ HandleRequest(s, d) PROVE Goal
  <2>1. tcp[s][d] # <<>> /\ tcp' = [tcp EXCEPT ![s][d] = Tail(tcp[s][d])]
    BY <1>3 DEF SessionSkip, HandleRequest
  <2> QED BY <1>0, <2>1
<1>4. ASSUME NEW s \in Replicas, Die(s) PROVE Goal
  BY <1>0, <1>4 DEF Die
<1> QED BY <1>1, <1>2, <1>3, <1>4, TcpStep

\* What waits was written before the request that the client is writing.
LEMMA EarlierIsLess ==
  ASSUME TypeOK, NEW r \in Replicas, NEW c \in Clients, NEW n \in Nat,
         phase[c] = "sending", pos[c] = r, Written(r, c, n)
  PROVE  n < num[c]
<1>1. r \in Nat /\ num[c] \in Nat
  BY ClusterAssumption DEF ClusterAssumption, TypeOK, ClientTypeOK, Replicas
<1> QED BY <1>1 DEF Written

\* The lines of one write are a session's, and its last.
LEMMA LinesLast ==
  ASSUME TypeOK, NEW r \in Replicas, NEW c \in Clients, SessionQueue(r, c),
         phase[c] = "sending", pos[c] = r
  PROVE  /\ Lines(c) \in Seq(Line) /\ InOrder(Lines(c), InTurn)
         /\ Follows(tcp[r][c], Lines(c), InTurn)
         /\ \A i \in DOMAIN Lines(c) :
              /\ Lines(c)[i].from = c
              /\ Lines(c)[i].kind # "blank" => Lines(c)[i].num = num[c]
<1>1. Request(c) \in Line /\ [Request(c) EXCEPT !.kind = "blank"] \in Line /\ Lines(c) \in Seq(Line)
  <2>1. Request(c) \in Line /\ Lines(c) \in Seq(Line)
    BY LinesType
  <2> QED BY <2>1 DEF Line
<1>2. \A i \in DOMAIN Lines(c) :
        /\ Lines(c)[i] \in Line /\ Lines(c)[i].from = c /\ Lines(c)[i].num = num[c]
        /\ Lines(c)[i].kind # "blank" => i = 1
        /\ i \in {1, 2}
  BY <1>1 DEF Lines, Request
<1>3. InOrder(Lines(c), InTurn)
  BY <1>2 DEF InOrder, InTurn
<1>4. Follows(tcp[r][c], Lines(c), InTurn)
  <2> SUFFICES ASSUME NEW i \in DOMAIN tcp[r][c], NEW j \in DOMAIN Lines(c)
               PROVE  <<tcp[r][c][i], Lines(c)[j]>> \in InTurn
    BY DEF Follows
  <2>1. tcp[r][c][i] \in Line
    BY ElementOfSeq DEF TypeOK, ClientTypeOK
  <2>2. tcp[r][c][i].kind # "blank" => tcp[r][c][i].num < num[c]
    <3>1. tcp[r][c][i].num \in Nat
      BY <2>1 DEF Line
    <3> QED BY <3>1, EarlierIsLess DEF SessionQueue
  <2> QED BY <1>2, <2>1, <2>2 DEF InTurn
<1> QED BY <1>1, <1>2, <1>3, <1>4

\* The queues stay in turn.
LEMMA QueuesStep ==
  ASSUME TypeOK, QueuesInv, [Next]_vars
  PROVE  QueuesInv'
<1> SUFFICES ASSUME NEW r \in Replicas, NEW c \in Clients PROVE SessionQueue(r, c)'
  BY DEF QueuesInv
<1>0. tcp[r][c] \in Seq(Line) /\ SessionQueue(r, c)
  BY DEF TypeOK, ClientTypeOK, QueuesInv
<1>1. ASSUME NEW i \in DOMAIN tcp[r][c], NEW l, l = tcp[r][c][i], NEW n, n = l.num
      PROVE  l \in Line /\ l.from = c /\ (l.kind # "blank" => Written(r, c, n)')
  <2>1. l \in Line
    BY <1>0, <1>1, ElementOfSeq
  <2>2. n \in Nat
    BY <1>1, <2>1 DEF Line
  <2>3. l.kind # "blank" => Written(r, c, n)
    BY <1>0, <1>1 DEF SessionQueue
  <2> QED BY <1>0, <1>1, <2>1, <2>2, <2>3, WrittenStays DEF SessionQueue
<1>2. ASSUME NEW q \in Seq(Line), tcp'[r][c] = q, InOrder(q, InTurn),
             \A i \in DOMAIN q : q[i].from = c /\ (q[i].kind # "blank" =>
                                  \A n : n = q[i].num => Written(r, c, n)')
      PROVE  SessionQueue(r, c)'
  <2>1. \A i \in DOMAIN tcp'[r][c] :
          tcp'[r][c][i].kind # "blank" => \A n : n = tcp'[r][c][i].num => Written(r, c, n)'
    BY <1>2
  <2> QED BY <1>2, <2>1 DEF SessionQueue, Written, InOrder, InTurn
<1>3. CASE tcp'[r][c] = tcp[r][c]
  BY <1>0, <1>1, <1>2, <1>3 DEF SessionQueue
<1>4. CASE tcp'[r][c] = <<>>
  <2>1. <<>> \in Seq(Line) /\ DOMAIN <<>> = {} /\ InOrder(<<>>, InTurn)
    BY DEF InOrder
  <2> QED BY <1>2, <1>4, <2>1
<1>5. CASE tcp[r][c] # <<>> /\ tcp'[r][c] = Tail(tcp[r][c])
  <2> DEFINE q == Tail(tcp[r][c])
  <2>1. /\ q \in Seq(Line) /\ q = SubSeq(tcp[r][c], 1 + 1, Len(tcp[r][c])) /\ 1 \in 1..Len(tcp[r][c])
        /\ \A i \in DOMAIN q : i + 1 \in DOMAIN tcp[r][c] /\ q[i] = tcp[r][c][i + 1]
    BY <1>0, <1>5, TailElements
  <2>2. InOrder(q, InTurn)
    <3>1. InOrder(SubSeq(tcp[r][c], 1 + 1, Len(tcp[r][c])), InTurn)
      BY <1>0, <2>1, SuffixOrder DEF SessionQueue
    <3> QED BY <2>1, <3>1
  <2> HIDE DEF q
  <2>3. \A i \in DOMAIN q : q[i].from = c /\ (q[i].kind # "blank" =>
                                  \A n : n = q[i].num => Written(r, c, n)')
    BY <1>1, <2>1
  <2>4. tcp'[r][c] = q
    BY <1>5 DEF q
  <2> QED BY <1>2, <2>1, <2>2, <2>3, <2>4
<1>6. CASE /\ tcp'[r][c] = tcp[r][c] \o Lines(c)
           /\ phase[c] = "sending" /\ pos[c] = r /\ num'[c] = num[c] /\ Written(r, c, num[c])'
  <2> DEFINE q == tcp[r][c] \o Lines(c)
  <2>1. /\ Lines(c) \in Seq(Line) /\ InOrder(Lines(c), InTurn)
        /\ Follows(tcp[r][c], Lines(c), InTurn)
        /\ \A i \in DOMAIN Lines(c) :
             /\ Lines(c)[i].from = c
             /\ Lines(c)[i].kind # "blank" => Lines(c)[i].num = num[c]
    BY <1>0, <1>6, LinesLast
  <2>2. q \in Seq(Line) /\ InOrder(q, InTurn)
    BY <1>0, <2>1, ConcatInOrder DEF SessionQueue
  <2>3. \A i \in DOMAIN q :
          \/ i \in DOMAIN tcp[r][c] /\ q[i] = tcp[r][c][i]
          \/ i - Len(tcp[r][c]) \in DOMAIN Lines(c) /\ q[i] = Lines(c)[i - Len(tcp[r][c])]
    BY <1>0, <2>1, ConcatElements
  <2>4. ASSUME NEW n, n = num[c] PROVE Written(r, c, n)'
    BY <1>6, <2>4 DEF Written
  <2> HIDE DEF q
  <2>5. \A i \in DOMAIN q : q[i].from = c /\ (q[i].kind # "blank" =>
                                  \A n : n = q[i].num => Written(r, c, n)')
    BY <1>1, <2>1, <2>3, <2>4
  <2>6. tcp'[r][c] = q
    BY <1>6 DEF q
  <2> QED BY <1>2, <2>2, <2>5, <2>6
<1> QED BY <1>3, <1>4, <1>5, <1>6, QueueStep

\* An entry that was before what waits stays so.
LEMMA TakenStays ==
  ASSUME TypeOK, QueuesInv, [Next]_vars, NEW e \in Taken
  PROVE  e \in Taken'
<1> DEFINE r == e.by
           c == e.line.from
           n == e.line.num
<1>0. /\ e \in Entry /\ r \in Replicas /\ c \in Clients /\ n \in Nat
      /\ tcp[r][c] \in Seq(Line) /\ SessionQueue(r, c)
  <2>1. e \in Entry /\ e.by \in Replicas /\ e.line \in Line
    BY DEF Taken, Entry
  <2>2. r \in Replicas /\ c \in Clients /\ n \in Nat
    BY <2>1 DEF Line
  <2> QED BY <2>1, <2>2 DEF TypeOK, ClientTypeOK, QueuesInv
<1>1. /\ Written(r, c, n)
      /\ \A i \in DOMAIN tcp[r][c] : tcp[r][c][i].kind = "blank" \/ n < tcp[r][c][i].num
  BY DEF Taken
<1> HIDE DEF r, c, n
<1>2. Written(r, c, n)'
  <2>1. PICK q, d, k : q = r /\ d = c /\ k = n
    OBVIOUS
  <2>2. Written(q, d, k)'
    BY <1>0, <1>1, <2>1, WrittenStays
  <2> QED BY <2>1, <2>2 DEF Written, r, c, n
<1>3. \A i \in DOMAIN tcp'[r][c] : tcp'[r][c][i].kind = "blank" \/ n < tcp'[r][c][i].num
  <2>1. CASE tcp'[r][c] \in {tcp[r][c], <<>>}
    BY <1>1, <2>1
  <2>2. CASE tcp[r][c] # <<>> /\ tcp'[r][c] = Tail(tcp[r][c])
    BY <1>0, <1>1, <2>2, TailElements
  <2>3. CASE tcp'[r][c] = tcp[r][c] \o Lines(c) /\ phase[c] = "sending" /\ pos[c] = r
    <3>1. Lines(c) \in Seq(Line)
          /\ \A i \in DOMAIN Lines(c) : Lines(c)[i].kind # "blank" => Lines(c)[i].num = num[c]
      BY <1>0, <2>3, LinesLast
    <3>2. n < num[c]
      BY <1>0, <1>1, <2>3, EarlierIsLess
    <3>3. \A i \in DOMAIN Lines(c) : Lines(c)[i].kind = "blank" \/ n < Lines(c)[i].num
      BY <3>1, <3>2
    <3>4. tcp[r][c] \in Seq(Line)
      BY <1>0
    <3> QED BY <1>1, <2>3, <3>1, <3>3, <3>4, ConcatElements
  <2> QED BY <1>0, <2>1, <2>2, <2>3, QueueStep
<1> QED BY <1>0, <1>2, <1>3 DEF Taken, r, c, n

\* The line that HandleRequest takes is after all that its replica has taken before.
LEMMA NextIsLater ==
  ASSUME TypeOK, QueuesInv, NEW r \in Replicas, NEW c \in Clients, HandleRequest(r, c), [Next]_vars
  PROVE  LET e == [line |-> Head(tcp[r][c]), by |-> r] IN
         /\ e \in Taken'
         /\ \A s \in Seq(Taken) : Follows(s, <<e>>, ByProposer)
<1> DEFINE l == Head(tcp[r][c])
           e == [line |-> l, by |-> r]
<1>0. /\ tcp[r][c] \in Seq(Line) /\ tcp[r][c] # <<>> /\ l.kind # "blank"
      /\ tcp' = [tcp EXCEPT ![r][c] = Tail(tcp[r][c])] /\ SessionQueue(r, c)
  BY DEF TypeOK, ClientTypeOK, HandleRequest, QueuesInv
<1>1. /\ l \in Line /\ 1 \in DOMAIN tcp[r][c] /\ tcp[r][c][1] = l
      /\ \A i \in DOMAIN Tail(tcp[r][c]) :
           i + 1 \in DOMAIN tcp[r][c] /\ Tail(tcp[r][c])[i] = tcp[r][c][i + 1] /\ 1 < i + 1
  BY <1>0, TailElements
<1> HIDE DEF l
<1>2. l.from = c /\ Written(r, c, l.num) /\ e \in Entry /\ e.by = r /\ e.line = l
  BY <1>0, <1>1 DEF SessionQueue, Entry
<1>3. \A i \in DOMAIN Tail(tcp[r][c]) :
        Tail(tcp[r][c])[i].kind = "blank" \/ l.num < Tail(tcp[r][c])[i].num
  BY <1>0, <1>1 DEF SessionQueue, InOrder, InTurn
<1> HIDE DEF e
<1>4. e \in Taken'
  <2>1. PICK n \in Nat : n = l.num
    BY <1>1 DEF Line
  <2>2. Written(r, c, n)'
    BY <1>2, <2>1, WrittenStays
  <2>3. tcp'[r][c] = Tail(tcp[r][c])
    BY <1>0 DEF TypeOK, ClientTypeOK
  <2>4. \A i \in DOMAIN tcp'[r][c] : tcp'[r][c][i].kind = "blank" \/ l.num < tcp'[r][c][i].num
    BY <1>3, <2>3
  <2> QED BY <1>2, <2>1, <2>2, <2>4 DEF Taken, Written
<1>5. ASSUME NEW s \in Seq(Taken) PROVE Follows(s, <<e>>, ByProposer)
  <2>1. ASSUME NEW i \in DOMAIN s PROVE <<s[i], e>> \in ByProposer
    <3>1. s[i] \in Taken
      BY ElementOfSeq
    <3>2. s[i].by = r /\ s[i].line.from = c => s[i].line.num < l.num
      BY <1>0, <1>1, <3>1 DEF Taken
    <3>3. s[i] \in Entry
      BY <3>1 DEF Taken
    <3> QED BY <1>2, <3>2, <3>3 DEF ByProposer
  <2> QED BY <2>1, SingleOrder
<1> QED BY <1>4, <1>5 DEF e, l

-----------------------------------------------------------------------------
(* The group. *)

\* What is in flight was taken from a queue.
LEMMA LiveTaken ==
  ASSUME TypeOK, TakenInv
  PROVE  Live \in Seq(Taken) /\ log \in Seq(Taken) /\ limbo \in Seq(Taken)
<1>1. CASE leader # None /\ serving[leader].st = "proposed"
  <2>1. Proposal(leader) \in Taken
    BY <1>1 DEF TakenInv, TypeOK, RaftTypeOK
  <2> QED BY <1>1, <2>1 DEF Live, InFlight, TakenInv, Proposal
<1>2. CASE ~(leader # None /\ serving[leader].st = "proposed")
  BY <1>2 DEF Live, InFlight, TakenInv
<1> QED BY <1>1, <1>2

\* What was taken and logged, left behind or proposed stays before what waits.
LEMMA TakenStep ==
  ASSUME TypeOK, OrderInv, [Next]_vars, log' \in Seq(Taken), limbo' \in Seq(Taken),
         \A s \in Replicas : serving'[s].st = "proposed" =>
           s \in believers' /\ (serving'[s] = serving[s] \/ Proposal(s)' \in Taken')
  PROVE  TakenInv'
<1>1. \A e \in Taken : e \in Taken'
  BY TakenStays DEF OrderInv
<1>2. log' \in Seq(Taken') /\ limbo' \in Seq(Taken')
  <2>1. PICK D, E : D = Taken /\ E = Taken'
    OBVIOUS
  <2>2. Seq(D) \subseteq Seq(E)
    BY <1>1, <2>1, SeqMonotonic
  <2> QED BY <2>1, <2>2
<1>3. ASSUME NEW s \in Replicas, serving'[s].st = "proposed" PROVE s \in believers' /\ Proposal(s)' \in Taken'
  <2>1. CASE serving'[s] = serving[s]
    <3>1. Proposal(s)' = Proposal(s) /\ Proposal(s) \in Taken
      BY <1>3, <2>1 DEF Proposal, OrderInv, TakenInv
    <3> QED BY <1>1, <1>3, <3>1
  <2> QED BY <1>3, <2>1
<1> QED BY <1>2, <1>3 DEF TakenInv

\* A step that the group does not notice.
LEMMA QuietStep ==
  ASSUME TypeOK, OrderInv, [Next]_vars,
         log' = log, limbo' = limbo, leader' = leader, believers' = believers,
         \A s \in Replicas : \/ serving'[s] = serving[s]
                             \/ serving[s].st # "proposed" /\ serving'[s].st # "proposed"
  PROVE  TakenInv' /\ CommitInv'
<1>1. TakenInv'
  BY TakenStep DEF OrderInv, TakenInv
<1>2. Live' = Live
  BY DEF Live, InFlight, TypeOK, RaftTypeOK
<1>3. CommitInv'
  BY <1>2 DEF OrderInv, CommitInv
<1> QED BY <1>1, <1>3

\* HandleRequest proposes the next line of a queue.
LEMMA HandleStep ==
  ASSUME TypeOK, OrderInv, NEW r \in Replicas, NEW c \in Clients, HandleRequest(r, c), [Next]_vars
  PROVE  TakenInv' /\ CommitInv'
<1> DEFINE e == [line |-> Head(tcp[r][c]), by |-> r]
<1>0. /\ log' = log /\ limbo' = limbo /\ leader' = leader /\ believers' = believers
      /\ serving \in [Replicas -> Serving] /\ serving[r].st = "idle"
      /\ QueuesInv /\ TakenInv /\ CommitInv
  BY DEF HandleRequest, raftVars, OrderInv, TypeOK
<1>1. CASE r \notin believers
  BY <1>0, <1>1, QuietStep DEF HandleRequest
<1>2. CASE r \in believers
  <2>1. /\ serving'[r].st = "proposed" /\ serving'[r].line = Head(tcp[r][c])
        /\ \A s \in Replicas : s # r => serving'[s] = serving[s]
    BY <1>0, <1>2 DEF HandleRequest, Idle
  <2>2. e \in Taken' /\ \A s \in Seq(Taken) : Follows(s, <<e>>, ByProposer)
    BY <1>0, NextIsLater
  <2>3. Proposal(r)' = e
    BY <2>1 DEF Proposal
  <2>4. TakenInv'
    <3>1. \A s \in Replicas : serving'[s].st = "proposed" =>
            s \in believers' /\ (serving'[s] = serving[s] \/ Proposal(s)' \in Taken')
      BY <1>0, <1>2, <2>1, <2>2, <2>3 DEF TakenInv
    <3> QED BY <1>0, <3>1, TakenStep DEF TakenInv
  <2>5. CASE r = leader
    <3>1. Live = <<>> /\ Live' = <<e>>
      BY <1>0, <2>1, <2>5, RaftAssumption DEF RaftAssumption, Live, InFlight
    <3>2. Follows(log, <<e>>, ByProposer) /\ Follows(limbo, <<e>>, ByProposer)
      BY <1>0, <2>2 DEF TakenInv
    <3>3. CommitOrder(log, limbo, <<e>>, ByProposer)
      <4>1. InOrder(<<e>>, ByProposer)
        BY SingleOrder
      <4> QED BY <1>0, <3>2, <4>1 DEF CommitInv, CommitOrder
    <3> QED BY <1>0, <2>4, <3>1, <3>3 DEF CommitInv
  <2>6. CASE r # leader
    <3>1. Live' = Live
      BY <1>0, <2>1, <2>6 DEF Live, InFlight, TypeOK, RaftTypeOK
    <3> QED BY <1>0, <2>4, <3>1 DEF CommitInv
  <2> QED BY <2>5, <2>6
<1> QED BY <1>1, <1>2

\* The leader is deposed, steps down or dies, and leaves its proposal behind.
LEMMA FailureStep ==
  ASSUME TypeOK, OrderInv, [Next]_vars, log' = log,
         \/ limbo' = limbo \o Live /\ Live' = <<>>
         \/ limbo' = limbo /\ Live' = Live,
         \A s \in Replicas : serving'[s].st = "proposed" => s \in believers' /\ serving'[s] = serving[s]
  PROVE  TakenInv' /\ CommitInv'
<1>1. Live \in Seq(Taken) /\ log \in Seq(Taken) /\ limbo \in Seq(Taken) /\ CommitInv
  BY LiveTaken DEF OrderInv
<1>2. limbo \o Live \in Seq(Taken)
  BY <1>1
<1>3. TakenInv'
  BY <1>1, <1>2, TakenStep
<1>4. CommitOrder(log, limbo \o Live, <<>>, ByProposer)
  BY <1>1, FailureOrder DEF CommitInv
<1> QED BY <1>1, <1>3, <1>4 DEF CommitInv

\* A replica that steps down or dies.
LEMMA LeaveStep ==
  ASSUME TypeOK, OrderInv, [Next]_vars, NEW r \in Replicas, StepDown(r) \/ Die(r)
  PROVE  TakenInv' /\ CommitInv'
<1>0. /\ log' = log /\ limbo' = limbo \o InFlight(r) /\ believers' = believers \ {r}
      /\ leader' = (IF leader = r THEN None ELSE leader)
      /\ serving \in [Replicas -> Serving] /\ leader \in Replicas \cup {None} /\ None \notin Replicas
      /\ limbo \in Seq(Entry)
  BY RaftAssumption DEF RaftAssumption, StepDown, RaftStepDown, Die, RaftDie, TypeOK, RaftTypeOK
<1>1. \A s \in Replicas :
        /\ s = r => serving'[s].st # "proposed"
        /\ s # r => serving'[s] = serving[s]
  BY <1>0 DEF StepDown, Die, Idle
<1>2. \A s \in Replicas : serving'[s].st = "proposed" => s \in believers' /\ serving'[s] = serving[s]
  BY <1>0, <1>1 DEF OrderInv, TakenInv
<1>3. CASE r = leader
  <2>1. limbo' = limbo \o Live /\ Live' = <<>>
    BY <1>0, <1>3 DEF Live
  <2> QED BY <1>0, <1>2, <2>1, FailureStep
<1>4. CASE r # leader
  <2>1. limbo' = limbo
    BY <1>0, <1>4 DEF InFlight
  <2>2. Live' = Live
    BY <1>0, <1>1, <1>4 DEF Live, InFlight
  <2> QED BY <1>0, <1>2, <2>1, <2>2, FailureStep
<1> QED BY <1>3, <1>4

\* A replica that is elected was no leader, and has nothing proposed.
LEMMA ElectStep ==
  ASSUME TypeOK, OrderInv, [Next]_vars, NEW r \in Replicas, Elect(r)
  PROVE  TakenInv' /\ CommitInv'
<1>1. /\ log' = log /\ limbo' = limbo \o Live /\ leader' = r /\ serving' = serving
      /\ believers \subseteq believers' /\ r \notin believers
  BY DEF Elect, RaftElect, storeVars, Live
<1>2. Live' = <<>>
  <2>1. serving[r].st # "proposed"
    BY <1>1 DEF OrderInv, TakenInv
  <2> QED BY <1>1, <2>1, RaftAssumption DEF RaftAssumption, Live, InFlight
<1>3. \A s \in Replicas : serving'[s].st = "proposed" => s \in believers' /\ serving'[s] = serving[s]
  BY <1>1 DEF OrderInv, TakenInv
<1> QED BY <1>1, <1>2, <1>3, FailureStep

\* The leader commits its proposal.
LEMMA CommitStep ==
  ASSUME TypeOK, OrderInv, [Next]_vars, NEW r \in Replicas, Commit(r)
  PROVE  TakenInv' /\ CommitInv'
<1>0. /\ Live \in Seq(Taken) /\ log \in Seq(Taken) /\ limbo \in Seq(Taken) /\ CommitInv
      /\ serving \in [Replicas -> Serving]
  BY LiveTaken DEF OrderInv, TypeOK
<1>1. r = leader /\ leader # None /\ Live = <<Proposal(r)>> /\ Proposal(r) \in Taken
  BY RaftAssumption DEF RaftAssumption, Commit, RaftCommit, Live, InFlight, Proposal, OrderInv, TakenInv
<1>2. /\ log' = Append(log, Proposal(r)) /\ limbo' = <<>> /\ leader' = leader /\ believers' = believers
      /\ serving'[r].st = "committed"
      /\ \A s \in Replicas : s # r => serving'[s] = serving[s]
  BY <1>0 DEF Commit, RaftCommit, Proposal, Serving
<1>3. Head(Live) = Proposal(r) /\ Tail(Live) = <<>> /\ Live # <<>>
  BY <1>1
<1>4. Live' = <<>>
  BY <1>1, <1>2 DEF Live, InFlight
<1>5. CommitInv'
  <2>1. CommitOrder(Append(log, Head(Live)), <<>>, Tail(Live), ByProposer)
    BY <1>0, <1>3, OwnCommitOrder DEF CommitInv
  <2> QED BY <1>2, <1>3, <1>4, <2>1 DEF CommitInv
<1>6. log' \in Seq(Taken) /\ limbo' \in Seq(Taken)
  BY <1>0, <1>1, <1>2
<1>7. \A s \in Replicas : serving'[s].st = "proposed" => s \in believers' /\ serving'[s] = serving[s]
  BY <1>2 DEF OrderInv, TakenInv
<1> QED BY <1>5, <1>6, <1>7, TakenStep

\* The leader commits what another has left behind.
LEMMA InheritStep ==
  ASSUME TypeOK, OrderInv, [Next]_vars, NEW i \in DOMAIN limbo, Inherit(i)
  PROVE  TakenInv' /\ CommitInv'
<1>0. /\ Live \in Seq(Taken) /\ log \in Seq(Taken) /\ limbo \in Seq(Taken) /\ CommitInv
      /\ i \in 1..Len(limbo) /\ limbo[i] \in Taken
  <2>1. Live \in Seq(Taken) /\ log \in Seq(Taken) /\ limbo \in Seq(Taken)
    BY LiveTaken DEF OrderInv
  <2>2. i \in 1..Len(limbo)
    BY <2>1
  <2> QED BY <2>1, <2>2, ElementOfSeq DEF OrderInv
<1>1. /\ log' = Append(log, limbo[i]) /\ limbo' = SubSeq(limbo, i + 1, Len(limbo))
      /\ leader' = leader /\ believers' = believers /\ serving' = serving
  BY DEF Inherit, RaftInherit, storeVars
<1>2. Live' = Live
  BY <1>1 DEF Live, InFlight
<1>3. CommitInv'
  <2>1. CommitOrder(Append(log, limbo[i]), SubSeq(limbo, i + 1, Len(limbo)), Live, ByProposer)
    BY <1>0, InheritOrder DEF CommitInv
  <2> QED BY <1>1, <1>2, <2>1 DEF CommitInv
<1>4. log' \in Seq(Taken) /\ limbo' \in Seq(Taken)
  BY <1>0, <1>1, SubSeqProperties
<1>5. \A s \in Replicas : serving'[s].st = "proposed" => s \in believers' /\ serving'[s] = serving[s]
  BY <1>1 DEF OrderInv, TakenInv
<1> QED BY <1>3, <1>4, <1>5, TakenStep

\* The order holds at the start, and every step keeps it.
LEMMA OrderInductive ==
  /\ Init => OrderInv
  /\ TypeOK /\ OrderInv /\ [Next]_vars => OrderInv'
<1>1. ASSUME Init PROVE OrderInv
  <2>1. QueuesInv
    BY <1>1 DEF Init, ClientInit, QueuesInv, SessionQueue, InOrder
  <2>2. TakenInv
    BY <1>1 DEF Init, RaftInit, Idle, TakenInv
  <2>3. log = <<>> /\ limbo = <<>> /\ Live = <<>>
    BY <1>1, ClusterAssumption DEF ClusterAssumption, Replicas, Init, RaftInit, Idle, Live, InFlight
  <2>4. CommitInv
    BY <2>3, SingleOrder DEF CommitInv, CommitOrder
  <2> QED BY <2>1, <2>2, <2>4 DEF OrderInv
<1>2. ASSUME TypeOK, OrderInv, [Next]_vars PROVE OrderInv'
  <2> DEFINE Quiet ==
        /\ log' = log /\ limbo' = limbo /\ leader' = leader /\ believers' = believers
        /\ \A s \in Replicas : \/ serving'[s] = serving[s]
                               \/ serving[s].st # "proposed" /\ serving'[s].st # "proposed"
  <2>0. serving \in [Replicas -> Serving] /\ QueuesInv'
    BY <1>2, QueuesStep DEF TypeOK, OrderInv
  <2>1. ASSUME Quiet PROVE TakenInv' /\ CommitInv'
    BY <1>2, <2>1, QuietStep
  <2>2. ASSUME NEW c \in Clients, ClientNext(c) \/ LoseUDP(c) PROVE Quiet
    BY <2>2 DEF ClientNext, LoseUDP, ClientCall, ClientWrite, ClientWriteFails, ClientReadUDP, raftVars, storeVars
  <2>3. ASSUME NEW r \in Replicas, NEW c \in Clients, SessionSkip(r, c) PROVE Quiet
    BY <2>3 DEF SessionSkip, raftVars, storeVars
  <2>4. ASSUME NEW r \in Replicas, Respond(r) PROVE Quiet
    BY <2>0, <2>4 DEF Respond, Idle, raftVars
  <2>5. ASSUME NEW r \in Replicas, FsmApply(r) PROVE Quiet
    BY <2>0, <2>5 DEF FsmApply, Serving, raftVars
  <2>6. ASSUME UNCHANGED vars PROVE Quiet
    BY <2>6 DEF vars, raftVars, storeVars
  <2>7. ASSUME NEW r \in Replicas, NEW c \in Clients, HandleRequest(r, c) PROVE TakenInv' /\ CommitInv'
    BY <1>2, <2>7, HandleStep
  <2>8. ASSUME NEW r \in Replicas, StepDown(r) \/ Crash(r) \/ FsmPanic(r) PROVE TakenInv' /\ CommitInv'
    BY <1>2, <2>8, LeaveStep DEF Crash, FsmPanic
  <2>9. TakenInv' /\ CommitInv'
    BY <1>2, <2>1, <2>2, <2>3, <2>4, <2>5, <2>6, <2>7, <2>8, ElectStep, CommitStep, InheritStep
    DEF Next, ServerNext, RaftNext
  <2> QED BY <2>0, <2>9 DEF OrderInv
<1> QED BY <1>1, <1>2

(***************************************************************************)
(* A replica commits a client's requests in order, and none of them twice, *)
(* whatever the elections and faults (Listen, HandleRequest, Propose).     *)
(***************************************************************************)
THEOREM ProposersCommitInOrder == Spec => []ProposerOrder
<1>1. Spec => [](TypeOK /\ OrderInv)
  <2>1. TypeOK /\ [Next]_vars => TypeOK'
    BY TypeStep
  <2> QED BY <2>1, InitType, OrderInductive, PTL DEF Spec
<1>2. OrderInv => ProposerOrder
  BY DEF OrderInv, CommitInv, CommitOrder, InOrder, ByProposer, ProposerOrder
<1> QED BY <1>1, <1>2, PTL

-----------------------------------------------------------------------------
(***************************************************************************)
(* The service is a linearizable map, and its clients are sequential, as   *)
(* long as the first leader keeps the lead, whatever the crashes of        *)
(* followers and the losses of datagrams.                                  *)
(*                                                                         *)
(* Only the leader's copy of a request matters then.  A request is at one  *)
(* place at a time: in its client, in the leader's session, proposed,      *)
(* committed, or answered; its commit is the moment it takes effect.       *)
(***************************************************************************)

\* The clients of the load generators, and values that a reply does not cut.
Plain == TextClients = {} /\ Undashed

\* The first leader leads, and serves such clients.
Steady == Plain /\ leader = 1

-----------------------------------------------------------------------------
(* Where a request is. *)

\* The leader serves nobody of c's.
NotServed(c) == serving[1].st = "idle" \/ serving[1].line.from # c

Serves(c, S) == serving[1].st \in S /\ serving[1].line = Request(c)

\* c's broadcast has reached the leader.
Sent1(c) == phase[c] = "waiting" \/ (phase[c] = "sending" /\ pos[c] # 1)

AtRest(c) == /\ phase[c] = "idle" /\ tcp[1][c] = <<>> /\ NotServed(c)
             /\ udp[c] = {} /\ heard[c].num = num[c]

Unwritten(c) == /\ phase[c] = "sending" /\ pos[c] = 1 /\ tcp[1][c] = <<>> /\ NotServed(c)
                /\ udp[c] = {} /\ ~Ordered(c)

Queued(c) == /\ Sent1(c) /\ tcp[1][c] = <<Request(c)>> /\ NotServed(c)
             /\ udp[c] = {} /\ ~Ordered(c)

Proposed(c) == /\ Sent1(c) /\ tcp[1][c] = <<>> /\ Serves(c, {"proposed"})
               /\ udp[c] = {} /\ ~Ordered(c)

Committed(c) == /\ Sent1(c) /\ tcp[1][c] = <<>> /\ Serves(c, {"committed", "applied"})
                /\ udp[c] = {} /\ Ordered(c)

Answered(c) == /\ Sent1(c) /\ tcp[1][c] = <<>> /\ NotServed(c) /\ Ordered(c)
               /\ \A m, n \in udp[c] : m = n /\ m.num = num[c]

Progress(c) ==
  AtRest(c) \/ Unwritten(c) \/ Queued(c) \/ Proposed(c) \/ Committed(c) \/ Answered(c)

\* The group under one leader.
LeadInv ==
  /\ believers = {1} /\ limbo = <<>>
  /\ \A r \in Replicas \ {1} : serving[r].st = "idle"
  /\ \A i \in DOMAIN log : log[i].by = 1 /\ log[i].line.num <= num[log[i].line.from]

StableInv == LeadInv /\ \A c \in Clients : Progress(c)

-----------------------------------------------------------------------------
(* One step. *)

\* A step under the leader: no election, no fault of the leader, nothing in limbo.
LEMMA StableNext ==
  ASSUME TypeOK, LeadInv, leader = 1, leader' = 1, Next
  PROVE  \/ \E c \in Clients : ClientNext(c) \/ LoseUDP(c)
         \/ \E r \in Replicas, c \in Clients : SessionSkip(r, c) \/ HandleRequest(r, c)
         \/ \E r \in Replicas : Respond(r) \/ FsmApply(r)
         \/ \E r \in Replicas \ {1} : Die(r)
         \/ Commit(1)
<1>0. 1 \in Replicas /\ None # 1
  BY ClusterAssumption, RaftAssumption DEF ClusterAssumption, RaftAssumption, Replicas
<1>1. ASSUME NEW r \in Replicas, Elect(r) PROVE FALSE
  BY <1>1 DEF Elect, RaftElect, LeadInv
<1>2. ASSUME NEW r \in Replicas, StepDown(r) PROVE FALSE
  BY <1>0, <1>2 DEF StepDown, RaftStepDown, LeadInv
<1>3. ASSUME NEW r \in Replicas, Die(r) PROVE r # 1
  BY <1>0, <1>3 DEF Die, RaftDie
<1>4. ASSUME NEW r \in Replicas, Commit(r) PROVE r = 1
  BY <1>4 DEF Commit, RaftCommit
<1>5. ASSUME NEW i \in DOMAIN limbo, Inherit(i) PROVE FALSE
  BY <1>5 DEF LeadInv
<1> QED BY <1>1, <1>2, <1>3, <1>4, <1>5 DEF Next, ServerNext, RaftNext, FsmPanic, Crash

\* Types at the leader.
LEMMA LeaderTypes ==
  ASSUME TypeOK
  PROVE  /\ 1 \in Replicas /\ Replicas \subseteq Nat
         /\ phase \in [Clients -> {"idle", "sending", "waiting"}]
         /\ num \in [Clients -> Nat] /\ pos \in [Clients -> Replicas] /\ cmd \in [Clients -> Commands]
         /\ tcp \in [Replicas -> [Clients -> Seq(Line)]]
         /\ udp \in [Clients -> SUBSET Reply] /\ heard \in [Clients -> Reply]
         /\ serving \in [Replicas -> Serving]
         /\ log \in Seq(Entry) /\ DOMAIN log = 1..Len(log) /\ Len(log) \in Nat
  BY ClusterAssumption DEF ClusterAssumption, Replicas, TypeOK, ClientTypeOK, RaftTypeOK

\* A step that does not concern c leaves it where it is.
LEMMA Frame ==
  ASSUME NEW c \in Clients, Progress(c),
         phase'[c] = phase[c], num'[c] = num[c], cmd'[c] = cmd[c], pos'[c] = pos[c],
         heard'[c] = heard[c], udp'[c] = udp[c], tcp'[1][c] = tcp[1][c],
         Ordered(c)' <=> Ordered(c),
         \/ serving'[1] = serving[1]
         \/ NotServed(c) /\ NotServed(c)'
  PROVE  Progress(c)'
<1>1. Request(c)' = Request(c) /\ Sent1(c)' = Sent1(c) /\ Request(c).from = c
  BY DEF Request, Sent1
<1>2. CASE serving'[1] = serving[1]
  <2>1. NotServed(c)' = NotServed(c) /\ \A S : Serves(c, S)' = Serves(c, S)
    BY <1>1, <1>2 DEF NotServed, Serves
  <2> QED BY <1>1, <2>1 DEF Progress, AtRest, Unwritten, Queued, Proposed, Committed, Answered
<1>3. CASE NotServed(c) /\ NotServed(c)'
  <2>1. ~Serves(c, {"proposed"}) /\ ~Serves(c, {"committed", "applied"})
    BY <1>1, <1>3 DEF NotServed, Serves
  <2>2. AtRest(c) \/ Unwritten(c) \/ Queued(c) \/ Answered(c)
    BY <2>1 DEF Progress, Proposed, Committed
  <2>3. AtRest(c)' \/ Unwritten(c)' \/ Queued(c)' \/ Answered(c)'
    BY <1>1, <1>3, <2>2 DEF AtRest, Unwritten, Queued, Answered
  <2> QED BY <2>3 DEF Progress
<1> QED BY <1>2, <1>3

\* The group under its leader, when the log and the served requests of the others stay.
LEMMA LeadStays ==
  ASSUME TypeOK, LeadInv, believers' = believers, limbo' = limbo, log' = log,
         \A c \in Clients : num[c] <= num'[c], num' \in [Clients -> Nat],
         \A r \in Replicas \ {1} : serving'[r].st = "idle"
  PROVE  LeadInv'
<1>1. ASSUME NEW i \in DOMAIN log PROVE log[i].line.num <= num'[log[i].line.from]
  <2>1. log[i] \in Entry
    BY LeaderTypes, ElementOfSeq
  <2>2. log[i].line.from \in Clients /\ log[i].line.num \in Nat
    BY <2>1 DEF Entry, Line
  <2>3. log[i].line.num <= num[log[i].line.from] /\ num[log[i].line.from] <= num'[log[i].line.from]
    BY <2>2 DEF LeadInv
  <2> QED BY <2>2, <2>3, LeaderTypes
<1> QED BY <1>1 DEF LeadInv

\* The clients' steps, and the loss of a datagram.
LEMMA StableClient ==
  ASSUME TextClients = {}, TypeOK, StableInv, leader = 1, NEW d \in Clients, ClientNext(d) \/ LoseUDP(d)
  PROVE  StableInv'
<1>0. /\ serving' = serving /\ log' = log /\ believers' = believers /\ limbo' = limbo
      /\ LeadInv /\ 1 \in alive
  BY DEF ClientNext, LoseUDP, ClientCall, ClientWrite, ClientWriteFails, ClientReadUDP,
         raftVars, storeVars, StableInv, LeadInv, TypeOK, RaftTypeOK
<1>1. ASSUME NEW c \in Clients, c # d PROVE Progress(c)'
  <2>1. /\ phase'[c] = phase[c] /\ num'[c] = num[c] /\ cmd'[c] = cmd[c] /\ pos'[c] = pos[c]
        /\ heard'[c] = heard[c] /\ udp'[c] = udp[c] /\ tcp'[1][c] = tcp[1][c]
    <3>1. ASSUME NEW x \in Commands, ClientCall(d, x)
          PROVE  /\ phase'[c] = phase[c] /\ num'[c] = num[c] /\ cmd'[c] = cmd[c] /\ pos'[c] = pos[c]
                 /\ heard'[c] = heard[c] /\ udp'[c] = udp[c] /\ tcp'[1][c] = tcp[1][c]
      BY <1>1, <3>1, LeaderTypes DEF ClientCall, Call, netVars
    <3>2. CASE ClientWrite(d)
      BY <1>1, <3>2, LeaderTypes DEF ClientWrite, Write, NextReplica
    <3>3. CASE ClientWriteFails(d)
      BY <1>1, <3>3, LeaderTypes DEF ClientWriteFails, WriteFails, netVars
    <3>4. CASE ClientReadUDP(d)
      BY <1>1, <3>4, LeaderTypes DEF ClientReadUDP, ReadUDP
    <3>5. CASE LoseUDP(d)
      BY <1>1, <3>5, LeaderTypes DEF LoseUDP, clientVars
    <3> QED BY <3>1, <3>2, <3>3, <3>4, <3>5 DEF ClientNext
  <2>2. Ordered(c)' <=> Ordered(c)
    BY <1>0, <2>1 DEF Ordered
  <2> QED BY <1>0, <2>1, <2>2, Frame DEF StableInv
<1>2. Progress(d)'
  <2>0. Progress(d) /\ NotServed(d)' = NotServed(d)
    BY <1>0 DEF StableInv, NotServed
  <2>1. ASSUME NEW x \in Commands, ClientCall(d, x) PROVE Progress(d)'
    <3>1. AtRest(d)
      BY <2>0, <2>1 DEF ClientCall, Call, Progress, AtRest, Unwritten, Queued, Proposed, Committed, Answered, Sent1
    <3>2. /\ phase'[d] = "sending" /\ pos'[d] = 1 /\ num'[d] = num[d] + 1
          /\ tcp'[1][d] = <<>> /\ udp'[d] = {}
      BY <2>1, <3>1, LeaderTypes DEF ClientCall, Call, netVars, AtRest
    <3>3. ~Ordered(d)'
      <4> SUFFICES ASSUME NEW i \in DOMAIN log, log[i].line.from = d, log[i].line.num = num[d] + 1
                   PROVE  FALSE
        BY <1>0, <3>2 DEF Ordered
      <4>1. num[d] + 1 <= num[d]
        BY <1>0 DEF LeadInv
      <4> QED BY <4>1, LeaderTypes
    <3> QED BY <2>0, <3>1, <3>2, <3>3 DEF AtRest, Unwritten, Progress
  <2>2. CASE ClientWrite(d)
    <3>1. /\ phase[d] = "sending" /\ num'[d] = num[d] /\ cmd'[d] = cmd[d] /\ udp'[d] = udp[d]
          /\ Sent1(d)' /\ Ordered(d)' = Ordered(d) /\ Request(d)' = Request(d)
      <4>1. phase[d] = "sending" /\ num'[d] = num[d] /\ cmd'[d] = cmd[d] /\ udp'[d] = udp[d]
        BY <2>2 DEF ClientWrite, Write
      <4>2. Sent1(d)'
        <5>1. pos[d] + 1 # 1
          <6>1. pos[d] \in 1..N /\ N \in Nat
            BY LeaderTypes, ClusterAssumption DEF ClusterAssumption, Replicas
          <6> QED BY <6>1
        <5>2. CASE pos[d] < N
          BY <2>2, <4>1, <5>1, <5>2, LeaderTypes DEF ClientWrite, Write, NextReplica, Sent1
        <5>3. CASE ~(pos[d] < N)
          BY <2>2, <5>3, LeaderTypes DEF ClientWrite, Write, NextReplica, Sent1
        <5> QED BY <5>2, <5>3
      <4> QED BY <1>0, <4>1, <4>2 DEF Ordered, Request
    <3>2. CASE pos[d] = 1
      <4>1. Unwritten(d)
        BY <2>0, <3>1, <3>2 DEF Progress, AtRest, Unwritten, Queued, Proposed, Committed, Answered, Sent1
      <4>2. tcp'[1][d] = <<>> \o Lines(d)
        BY <1>0, <2>2, <3>2, <4>1, LeaderTypes DEF ClientWrite, Write, Unwritten
      <4>3. Lines(d) = <<Request(d)>>
        BY DEF Lines
      <4> QED BY <2>0, <3>1, <4>1, <4>2, <4>3 DEF Unwritten, Queued, Progress
    <3>3. CASE pos[d] # 1
      <4>1. tcp'[1][d] = tcp[1][d]
        BY <2>2, <3>3, LeaderTypes DEF ClientWrite, Write
      <4>2. Sent1(d) /\ \A S : Serves(d, S)' = Serves(d, S)
        BY <1>0, <3>1, <3>3 DEF Sent1, Serves
      <4> QED BY <2>0, <3>1, <3>3, <4>1, <4>2
          DEF Progress, AtRest, Unwritten, Queued, Proposed, Committed, Answered
    <3> QED BY <3>2, <3>3
  <2>3. CASE ClientWriteFails(d)
    <3>1. /\ phase[d] = "sending" /\ pos[d] # 1 /\ Sent1(d)' /\ Sent1(d)
          /\ num' = num /\ cmd' = cmd /\ tcp' = tcp /\ udp' = udp
      BY <1>0, <2>3, LeaderTypes DEF ClientWriteFails, WriteFails, netVars, Sent1
    <3>2. Ordered(d)' = Ordered(d) /\ \A S : Serves(d, S)' = Serves(d, S)
      BY <1>0, <3>1 DEF Ordered, Serves, Request
    <3>3. Request(d)' = Request(d)
      BY <3>1 DEF Request
    <3> QED BY <2>0, <3>1, <3>2, <3>3
        DEF Progress, AtRest, Unwritten, Queued, Proposed, Committed, Answered
  <2>4. CASE ClientReadUDP(d)
    <3>1. PICK m \in udp[d] : heard' = [heard EXCEPT ![d] = m] /\ udp' = [udp EXCEPT ![d] = udp[d] \ {m}]
      BY <2>4 DEF ClientReadUDP, ReadUDP
    <3>2. Answered(d)
      BY <2>0, <2>4, <3>1 DEF ClientReadUDP, ReadUDP, Progress, AtRest, Unwritten, Queued, Proposed, Committed
    <3>3. udp'[d] = {} /\ heard'[d].num = num[d]
      BY <3>1, <3>2, LeaderTypes DEF Answered
    <3>4. phase'[d] = "idle" /\ num' = num /\ tcp' = tcp
      BY <2>4, LeaderTypes DEF ClientReadUDP, ReadUDP
    <3> QED BY <2>0, <3>2, <3>3, <3>4 DEF AtRest, Answered, Progress
  <2>5. CASE LoseUDP(d)
    <3>1. PICK m \in udp[d] : udp' = [udp EXCEPT ![d] = udp[d] \ {m}]
      BY <2>5 DEF LoseUDP
    <3>2. Answered(d)
      BY <2>0, <3>1 DEF Progress, AtRest, Unwritten, Queued, Proposed, Committed
    <3>3. udp'[d] \subseteq udp[d]
      BY <3>1, LeaderTypes
    <3>4. num' = num /\ tcp' = tcp /\ Sent1(d)' = Sent1(d) /\ Ordered(d)' = Ordered(d)
      BY <1>0, <2>5 DEF LoseUDP, clientVars, Sent1, Ordered
    <3> QED BY <2>0, <3>2, <3>3, <3>4 DEF Answered, Progress
  <2> QED BY <2>1, <2>2, <2>3, <2>4, <2>5 DEF ClientNext
<1>3. LeadInv'
  <2>1. num' \in [Clients -> Nat] /\ \A c \in Clients : num[c] <= num'[c]
    <3>1. num' = num \/ num' = [num EXCEPT ![d] = num[d] + 1]
      BY DEF ClientNext, LoseUDP, ClientCall, Call, ClientWrite, Write, ClientWriteFails, WriteFails,
             ClientReadUDP, ReadUDP, clientVars
    <3>2. \A c \in Clients : num[c] \in Nat /\ num[c] + 1 \in Nat /\ num[c] <= num[c] + 1 /\ num[c] <= num[c]
      BY LeaderTypes
    <3>3. \A c \in Clients : num'[c] = num[c] \/ num'[c] = num[c] + 1
      BY <3>1, LeaderTypes
    <3>4. num' \in [Clients -> Nat]
      BY <3>1, <3>2, LeaderTypes
    <3> QED BY <3>2, <3>3, <3>4
  <2>2. \A r \in Replicas \ {1} : serving'[r].st = "idle"
    BY <1>0 DEF LeadInv
  <2> QED BY <1>0, <2>1, <2>2, LeadStays
<1> QED BY <1>1, <1>2, <1>3 DEF StableInv

\* The leader's session and server loop, and those of the others.
LEMMA StableServer ==
  ASSUME TextClients = {}, TypeOK, StableInv, ServingInv, leader = 1, NEW r \in Replicas,
         \/ \E c \in Clients : SessionSkip(r, c) \/ HandleRequest(r, c)
         \/ Respond(r) \/ FsmApply(r)
         \/ r # 1 /\ Die(r)
  PROVE  StableInv'
<1>0. /\ log' = log /\ num' = num /\ cmd' = cmd /\ phase' = phase /\ pos' = pos /\ heard' = heard
      /\ LeadInv /\ Idle.st = "idle"
  BY DEF SessionSkip, HandleRequest, Respond, FsmApply, Die, RaftDie, raftVars, clientVars, StableInv, Idle
<1>1. \A c \in Clients : Ordered(c)' = Ordered(c) /\ Request(c)' = Request(c) /\ Sent1(c)' = Sent1(c)
  BY <1>0 DEF Ordered, Request, Sent1
<1>2. LeadInv'
  <2>1. believers' = believers /\ limbo' = limbo
    <3>1. CASE r # 1 /\ Die(r)
      <4>1. InFlight(r) = <<>> /\ limbo = <<>> /\ believers = {1}
        BY <1>0, <3>1 DEF InFlight, LeadInv
      <4>2. limbo' = limbo \o InFlight(r) /\ believers' = believers \ {r}
        BY <3>1 DEF Die, RaftDie
      <4> QED BY <3>1, <4>1, <4>2
    <3>2. CASE ~(r # 1 /\ Die(r))
      BY <3>2 DEF SessionSkip, HandleRequest, Respond, FsmApply, raftVars
    <3> QED BY <3>1, <3>2
  <2>2. \A s \in Replicas \ {1} : serving'[s].st = "idle"
    <3>1. \A s \in Replicas \ {1} : serving'[s] = serving[s] \/ serving'[s].st = "idle"
      BY <1>0, LeaderTypes DEF SessionSkip, HandleRequest, Respond, FsmApply, Die, LeadInv, storeVars
    <3> QED BY <1>0, <3>1 DEF LeadInv
  <2> QED BY <1>0, <2>1, <2>2, LeadStays, LeaderTypes
<1>3. CASE r # 1
  <2>1. serving'[1] = serving[1] /\ \A c \in Clients : tcp'[1][c] = tcp[1][c] /\ udp'[c] = udp[c]
    <3>1. ~Respond(r)
      BY <1>0, <1>3 DEF Respond, LeadInv
    <3>2. serving'[1] = serving[1]
      BY <1>3, <3>1, LeaderTypes DEF SessionSkip, HandleRequest, FsmApply, Die, storeVars
    <3>3. \A c \in Clients : tcp'[1][c] = tcp[1][c] /\ udp'[c] = udp[c]
      BY <1>3, <3>1, LeaderTypes DEF SessionSkip, HandleRequest, FsmApply, Die, netVars
    <3> QED BY <3>2, <3>3
  <2>2. \A c \in Clients : Progress(c)'
    BY <1>0, <1>1, <2>1, Frame DEF StableInv
  <2> QED BY <1>2, <2>2 DEF StableInv
<1>4. CASE r = 1
  <2>1. ASSUME NEW d \in Clients, SessionSkip(1, d) PROVE FALSE
    <3>1. Progress(d) /\ tcp[1][d] # <<>> /\ Head(tcp[1][d]).kind = "blank"
      BY <2>1 DEF SessionSkip, StableInv
    <3>2. tcp[1][d] = <<Request(d)>>
      BY <3>1 DEF Progress, AtRest, Unwritten, Queued, Proposed, Committed, Answered
    <3> QED BY <3>1, <3>2 DEF Request
  <2>2. ASSUME NEW d \in Clients, HandleRequest(1, d) PROVE \A c \in Clients : Progress(c)'
    <3>0. tcp' = [tcp EXCEPT ![1][d] = Tail(tcp[1][d])] /\ udp' = udp /\ serving[1].st = "idle" /\ tcp[1][d] # <<>>
      BY <2>2 DEF HandleRequest
    <3>1. Queued(d)
      BY <3>0 DEF StableInv, Progress, AtRest, Unwritten, Queued, Proposed, Committed, Answered
    <3>2. serving'[1].st = "proposed" /\ serving'[1].line = Request(d)
      <4>1. serving' = [serving EXCEPT ![1] = [Idle EXCEPT !.st = "proposed", !.line = Head(tcp[1][d])]]
        BY <1>0, <2>2 DEF HandleRequest, LeadInv
      <4>2. Head(tcp[1][d]) = Request(d)
        BY <3>1 DEF Queued
      <4> QED BY <4>1, <4>2, LeaderTypes DEF Idle
    <3>3. tcp'[1][d] = <<>>
      BY <3>0, <3>1, LeaderTypes DEF Queued
    <3>4. Proposed(d)'
      BY <1>0, <1>1, <3>0, <3>1, <3>2, <3>3 DEF Queued, Proposed, Serves
    <3>5. ASSUME NEW c \in Clients, c # d PROVE Progress(c)'
      <4>1. NotServed(c) /\ NotServed(c)' /\ tcp'[1][c] = tcp[1][c]
        BY <3>0, <3>2, <3>5, LeaderTypes DEF NotServed, Request
      <4> QED BY <1>0, <1>1, <3>0, <4>1, Frame DEF StableInv
    <3> QED BY <3>4, <3>5 DEF Progress
  <2>3. ASSUME Respond(1) PROVE \A c \in Clients : Progress(c)'
    <3>0. serving[1].st = "applied" /\ serving[1].line \in Line /\ tcp' = tcp
      BY <2>3, LeaderTypes DEF Respond, TypeOK
    <3>d. PICK d \in Clients : d = serving[1].line.from
      BY <3>0 DEF Line
    <3>1. Committed(d)
      BY <3>0, <3>d DEF StableInv, Progress, AtRest, Unwritten, Queued, Proposed, Answered, NotServed, Serves
    <3>2. serving'[1].st = "idle"
      BY <1>0, <2>3, LeaderTypes DEF Respond
    <3>3. \A m \in udp'[d] : m = [num |-> serving[1].line.num, idx |-> serving[1].idx,
                                  text |-> ReplyText(serving[1].out)]
      BY <2>3, <3>1, <3>0, <3>d, LeaderTypes DEF Respond, Committed
    <3>4. Answered(d)'
      <4>1. serving[1].line.num = num[d]
        BY <3>1 DEF Committed, Serves, Request
      <4> QED BY <1>0, <1>1, <3>0, <3>1, <3>2, <3>3, <4>1 DEF Committed, Answered, NotServed
    <3>5. ASSUME NEW c \in Clients, c # d PROVE Progress(c)'
      <4>1. NotServed(c) /\ NotServed(c)'
        BY <3>2, <3>d, <3>5 DEF NotServed
      <4>2. udp'[c] = udp[c]
        BY <2>3, <3>0, <3>d, <3>5, LeaderTypes DEF Respond
      <4> QED BY <1>0, <1>1, <3>0, <4>1, <4>2, Frame DEF StableInv
    <3> QED BY <3>4, <3>5 DEF Progress
  <2>4. ASSUME FsmApply(1) PROVE \A c \in Clients : Progress(c)'
    <3>0. tcp' = tcp /\ udp' = udp
      BY <2>4 DEF FsmApply, netVars
    <3>1. CASE serving' = serving
      BY <1>0, <1>1, <3>0, <3>1, Frame DEF StableInv
    <3>2. CASE serving' # serving
      <4>1. /\ serving[1].st = "committed" /\ serving'[1].st = "applied"
            /\ serving'[1].line = serving[1].line
        BY <2>4, <3>2, LeaderTypes DEF FsmApply, Serving
      <4>2. \A c \in Clients : /\ NotServed(c)' = NotServed(c)
                               /\ Serves(c, {"committed", "applied"})' = Serves(c, {"committed", "applied"})
                               /\ ~Serves(c, {"proposed"})
        BY <1>1, <4>1 DEF NotServed, Serves
      <4> QED BY <1>0, <1>1, <3>0, <4>2
          DEF StableInv, Progress, AtRest, Unwritten, Queued, Proposed, Committed, Answered
    <3> QED BY <3>1, <3>2
  <2> QED BY <1>2, <1>4, <2>1, <2>2, <2>3, <2>4 DEF StableInv
<1> QED BY <1>3, <1>4

\* The leader commits: of one client, from proposed to committed; of nobody else.
LEMMA StableCommit ==
  ASSUME TypeOK, StableInv, leader = 1, Commit(1)
  PROVE  StableInv'
<1> DEFINE e == [line |-> serving[1].line, by |-> 1]
<1>0. /\ num' = num /\ cmd' = cmd /\ phase' = phase /\ pos' = pos /\ heard' = heard
      /\ tcp' = tcp /\ udp' = udp /\ LeadInv
      /\ serving[1].st = "proposed" /\ serving[1].line \in Line
  BY LeaderTypes DEF Commit, clientVars, netVars, StableInv, TypeOK
<1>1. PICK d \in Clients : d = serving[1].line.from
  BY <1>0 DEF Line
<1>2. Proposed(d)
  BY <1>0, <1>1 DEF StableInv, Progress, AtRest, Unwritten, Queued, Committed, Answered, NotServed, Serves
<1>3. /\ log' = Append(log, e) /\ e \in Entry
      /\ DOMAIN log' = 1..Len(log) + 1 /\ log'[Len(log) + 1] = e
      /\ \A i \in DOMAIN log : i \in DOMAIN log' /\ log'[i] = log[i]
      /\ \A i \in DOMAIN log' : i \in DOMAIN log \/ i = Len(log) + 1
  <2>1. log' = Append(log, e) /\ e \in Entry
    BY <1>0, LeaderTypes DEF Commit, RaftCommit, Entry
  <2> QED BY <2>1, LeaderTypes, AppendProperties
<1>4. serving[1].line = Request(d) /\ Request(d).from = d /\ Request(d).num = num[d]
  BY <1>2 DEF Proposed, Serves, Request
<1>5. Committed(d)'
  <2>1. Ordered(d)'
    <3>1. Len(log) + 1 \in DOMAIN log' /\ log'[Len(log) + 1].line.from = d /\ log'[Len(log) + 1].line.num = num'[d]
      BY <1>0, <1>3, <1>4, LeaderTypes
    <3> QED BY <3>1 DEF Ordered
  <2>2. serving'[1].st = "committed" /\ serving'[1].line = serving[1].line
    BY LeaderTypes DEF Commit, Serving
  <2> QED BY <1>0, <1>2, <2>1, <2>2 DEF Proposed, Committed, Serves, Sent1, Request
<1>6. ASSUME NEW c \in Clients, c # d PROVE Progress(c)'
  <2>1. NotServed(c) /\ NotServed(c)'
    <3>1. serving'[1].line = serving[1].line
      BY LeaderTypes DEF Commit, Serving
    <3> QED BY <1>1, <1>6, <3>1 DEF NotServed
  <2>2. Ordered(c)' <=> Ordered(c)
    BY <1>0, <1>3, <1>4, <1>6 DEF Ordered
  <2> QED BY <1>0, <2>1, <2>2, Frame DEF StableInv
<1>7. LeadInv'
  <2>1. \A s \in Replicas \ {1} : serving'[s].st = "idle"
    BY <1>0, LeaderTypes DEF Commit, LeadInv
  <2>2. ASSUME NEW i \in DOMAIN log' PROVE log'[i].by = 1 /\ log'[i].line.num <= num[log'[i].line.from]
    <3>1. CASE i \in DOMAIN log
      BY <1>0, <1>3, <3>1 DEF LeadInv
    <3>2. CASE i = Len(log) + 1
      BY <1>3, <1>4, <3>2, LeaderTypes
    <3> QED BY <1>3, <3>1, <3>2
  <2>3. believers' = {1} /\ limbo' = <<>>
    BY <1>0 DEF Commit, RaftCommit, LeadInv
  <2> QED BY <1>0, <2>1, <2>2, <2>3 DEF LeadInv
<1> QED BY <1>5, <1>6, <1>7 DEF StableInv, Progress

\* StableInv holds at the start, and every step keeps it under the leader.
LEMMA StableInductive ==
  /\ Init => StableInv
  /\ TextClients = {} /\ IInv /\ StableInv /\ leader = 1 /\ leader' = 1 /\ [Next]_vars => StableInv'
<1>1. ASSUME Init PROVE StableInv
  <2>1. 1 \in Replicas /\ serving[1].st = "idle" /\ log = <<>>
    BY <1>1, ClusterAssumption DEF ClusterAssumption, Replicas, Init, RaftInit, Idle
  <2>2. LeadInv
    BY <1>1, <2>1 DEF Init, RaftInit, Idle, LeadInv
  <2>3. \A c \in Clients : AtRest(c)
    BY <1>1, <2>1 DEF Init, ClientInit, AtRest, NotServed, NoReply
  <2> QED BY <2>2, <2>3 DEF StableInv, Progress
<1>2. ASSUME TextClients = {}, IInv, StableInv, leader = 1, leader' = 1, [Next]_vars PROVE StableInv'
  <2>0. TypeOK /\ ServingInv /\ LeadInv
    BY <1>2 DEF IInv, StableInv
  <2>1. CASE UNCHANGED vars
    <3>1. \A c \in Clients : Progress(c)'
      BY <1>2, <2>1 DEF vars, clientVars, netVars, raftVars, storeVars, StableInv, Progress, AtRest, Unwritten,
         Queued, Proposed, Committed, Answered, Sent1, NotServed, Serves, Ordered, Request
    <3> QED BY <1>2, <2>1, <3>1 DEF vars, clientVars, raftVars, storeVars, StableInv, LeadInv
  <2>2. CASE Next
    BY <1>2, <2>0, <2>2, StableNext, StableClient, StableServer, StableCommit
  <2> QED BY <1>2, <2>1, <2>2
<1> QED BY <1>1, <1>2
-----------------------------------------------------------------------------
(* The two results. *)

\* Elections are only counted up, and the first leader cannot lead again without one.
LEMMA FirstBefore ==
  ASSUME TypeOK, [Next]_vars, leader' = 1, elections' = 0
  PROVE  leader = 1 /\ elections = 0
<1>0. elections \in Nat /\ None # 1
  BY ClusterAssumption, RaftAssumption DEF ClusterAssumption, RaftAssumption, Replicas, TypeOK, RaftTypeOK
<1>1. ASSUME NEW r \in Replicas, Elect(r) PROVE FALSE
  BY <1>0, <1>1 DEF Elect, RaftElect
<1>2. ASSUME NEW r \in Replicas, StepDown(r) PROVE leader = 1 /\ elections = 0
  BY <1>0, <1>2 DEF StepDown, RaftStepDown
<1>3. ASSUME NEW r \in Replicas, Die(r) PROVE leader = 1 /\ elections = 0
  BY <1>0, <1>3 DEF Die, RaftDie
<1>4. ASSUME NEW r \in Replicas, Commit(r) PROVE leader = 1 /\ elections = 0
  BY <1>4 DEF Commit, RaftCommit
<1>5. ASSUME NEW i \in DOMAIN limbo, Inherit(i) PROVE leader = 1 /\ elections = 0
  BY <1>5 DEF Inherit, RaftInherit
<1>6. ASSUME NEW c \in Clients, ClientNext(c) \/ LoseUDP(c) PROVE leader = 1 /\ elections = 0
  BY <1>6 DEF ClientNext, LoseUDP, ClientCall, ClientWrite, ClientWriteFails, ClientReadUDP, raftVars
<1>7. ASSUME NEW r \in Replicas, ServerNext(r), ~FsmPanic(r) PROVE leader = 1 /\ elections = 0
  BY <1>7 DEF ServerNext, SessionSkip, HandleRequest, Respond, FsmApply, raftVars
<1>8. CASE UNCHANGED vars
  BY <1>8 DEF vars, raftVars
<1> QED BY <1>1, <1>2, <1>3, <1>4, <1>5, <1>6, <1>7, <1>8 DEF Next, ServerNext, RaftNext, FsmPanic, Crash

(***************************************************************************)
(* The client is sequential: until the first leader loses the lead, the    *)
(* reply a client has read when it goes on is the one to its latest request*)
(* (client/seqClient.go), whatever datagrams are lost and followers die.   *)
(***************************************************************************)
THEOREM ClientsAreSequential == ASSUME TextClients = {} PROVE Spec => []SequentialUnderFirst
<1> DEFINE First == leader = 1 /\ elections = 0
<1>1. Init => (First => StableInv)
  BY StableInductive
<1>2. IInv /\ (First => StableInv) /\ [Next]_vars => (First => StableInv)'
  BY FirstBefore, StableInductive DEF IInv
<1>3. (First => StableInv) => SequentialUnderFirst
  BY DEF StableInv, SequentialUnderFirst, SequentialClient, Progress, AtRest, Unwritten, Queued, Proposed,
         Committed, Answered, Sent1
<1> QED BY <1>1, <1>2, <1>3, Inductive, PTL DEF Spec

\* What AtomicKV's variables stand for.
Stage(c) == IF phase[c] = "idle" THEN "idle" ELSE IF Ordered(c) THEN "done" ELSE "called"

Res(c) == IF phase[c] # "idle" /\ Ordered(c)
          THEN Result(canon[IndexOf(c)], log[IndexOf(c)].line)
          ELSE heard[c].text

\* The place of a request in the log is unique.
IndexInv == \A c \in Clients : \A i \in DOMAIN log :
              log[i].line.from = c /\ log[i].line.num = num[c] => IndexOf(c) = i

\* One proposer commits a client's requests in order, and there is one proposer.
LEMMA OnePlace == TypeOK /\ LeadInv /\ ProposerOrder => IndexInv
<1> SUFFICES ASSUME TypeOK, LeadInv, ProposerOrder, NEW c \in Clients, NEW i \in DOMAIN log,
                    log[i].line.from = c, log[i].line.num = num[c]
             PROVE  IndexOf(c) = i
  BY DEF IndexInv
<1>1. ASSUME NEW j \in DOMAIN log, log[j].line.from = c, log[j].line.num = num[c] PROVE j = i
  <2>1. log[i].by = log[j].by /\ log[i].line.from = log[j].line.from /\ log[j].line.num = log[i].line.num
    BY <1>1 DEF LeadInv
  <2>2. log[i].line.num \in Nat /\ i \in Nat /\ j \in Nat
    BY LeaderTypes
  <2>3. ~(i < j) /\ ~(j < i)
    BY <2>1, <2>2 DEF ProposerOrder
  <2> QED BY <2>2, <2>3
<1> QED BY <1>1 DEF IndexOf

\* A client whose request does not move keeps its part of the abstract state.
LEMMA StageStays ==
  ASSUME TypeOK, IndexInv, IndexInv', LogExtends, NEW c \in Clients,
         phase'[c] = "idle" <=> phase[c] = "idle", heard'[c] = heard[c], num'[c] = num[c],
         Ordered(c)' <=> Ordered(c)
  PROVE  Stage(c)' = Stage(c) /\ Res(c)' = Res(c)
<1>1. CASE Ordered(c)
  <2>1. PICK i \in DOMAIN log : log[i].line.from = c /\ log[i].line.num = num[c]
    BY <1>1 DEF Ordered
  <2>2. i \in DOMAIN log' /\ log'[i] = log[i] /\ canon'[i] = canon[i]
    <3>1. i \in 1..Len(log) + 1
      BY <2>1, LeaderTypes
    <3> QED BY <2>1, <3>1 DEF LogExtends
  <2>3. IndexOf(c) = i /\ IndexOf(c)' = i
    BY <2>1, <2>2 DEF IndexInv
  <2> QED BY <1>1, <2>2, <2>3 DEF Stage, Res
<1>2. CASE ~Ordered(c)
  BY <1>2 DEF Stage, Res
<1> QED BY <1>1, <1>2

-----------------------------------------------------------------------------
(* Each step of the service is one of AtomicKV, or a stutter. *)

\* What holds in every state while the first leader leads.
Linear == IInv /\ StableInv /\ IndexInv

\* Without text clients, every client generates load.
LEMMA AllGenerate == ASSUME Plain PROVE Generators = Clients
  BY DEF Plain, Generators

\* A step that leaves every client's part, and the log, leaves AtomicKV's variables.
LEMMA Stutters ==
  ASSUME canon' = canon, cmd' = cmd, \A c \in Clients : Stage(c)' = Stage(c) /\ Res(c)' = Res(c)
  PROVE  UNCHANGED Atomic!atomicVars
  BY DEF Atomic!atomicVars, Stage, Res, Generators

\* A new request is AtomicKV's invocation.
LEMMA CallInvokes ==
  ASSUME Plain, Linear, Linear', LogExtends, NEW d \in Clients, NEW x \in Commands, ClientCall(d, x)
  PROVE  Atomic!Invoke(d, x)
<1>0. /\ TypeOK /\ IndexInv /\ IndexInv' /\ log' = log /\ canon' = canon /\ heard' = heard
      /\ phase[d] = "idle" /\ phase' = [phase EXCEPT ![d] = "sending"] /\ cmd' = [cmd EXCEPT ![d] = x]
      /\ num' = [num EXCEPT ![d] = num[d] + 1] /\ pos' = [pos EXCEPT ![d] = 1]
  BY DEF ClientCall, Call, Linear, IInv, raftVars
<1>1. ~Ordered(d)'
  <2>1. Progress(d)' /\ phase'[d] = "sending" /\ pos'[d] = 1
    BY <1>0, LeaderTypes DEF Linear, StableInv
  <2> QED BY <2>1 DEF Progress, AtRest, Unwritten, Queued, Proposed, Committed, Answered, Sent1
<1>2. Stage(d) = "idle" /\ Stage(d)' = "called" /\ Res(d)' = Res(d)
  <2>1. phase'[d] = "sending"
    BY <1>0, LeaderTypes
  <2> QED BY <1>0, <1>1, <2>1 DEF Stage, Res
<1>3. ASSUME NEW c \in Clients, c # d PROVE Stage(c)' = Stage(c) /\ Res(c)' = Res(c)
  <2>1. phase'[c] = phase[c] /\ num'[c] = num[c] /\ heard'[c] = heard[c]
    BY <1>0, <1>3, LeaderTypes
  <2>2. Ordered(c)' <=> Ordered(c)
    BY <1>0, <2>1 DEF Ordered
  <2> QED BY <1>0, <2>1, <2>2, StageStays
<1>4. TypeOK /\ cmd \in [Clients -> Commands]
  BY <1>0, LeaderTypes
<1> QED BY <1>0, <1>2, <1>3, <1>4, AllGenerate DEF Atomic!Invoke, Stage, Res

\* A reply that the client reads is AtomicKV's return, of the result the commit gave.
LEMMA ReadReturns ==
  ASSUME Plain, Linear, Linear', LogExtends, NEW d \in Clients, ClientReadUDP(d)
  PROVE  Atomic!Return(d)
<1>0. /\ TypeOK /\ IndexInv /\ IndexInv' /\ log' = log /\ canon' = canon /\ cmd' = cmd /\ num' = num
      /\ phase[d] = "waiting" /\ phase' = [phase EXCEPT ![d] = "idle"]
  BY DEF ClientReadUDP, ReadUDP, Linear, IInv, raftVars
<1>1. PICK m \in udp[d] : heard' = [heard EXCEPT ![d] = m]
  BY DEF ClientReadUDP, ReadUDP
<1>2. Ordered(d) /\ m.num = num[d] /\ AnswersCut(d, m)
  <2>1. Answered(d)
    BY <1>0, <1>1 DEF Linear, StableInv, Progress, AtRest, Unwritten, Queued, Proposed, Committed
  <2> QED BY <1>1, <2>1 DEF Answered, Linear, IInv, RepliesCut
<1>3. IndexOf(d) = m.idx
  BY <1>0, <1>2 DEF AnswersCut, IndexInv
<1>4. m.text = Result(canon[m.idx], log[m.idx].line)
  BY <1>2, WholeResult DEF Plain, Linear, AnswersCommit
<1>5. Stage(d) = "done" /\ Stage(d)' = "idle" /\ Res(d)' = Res(d)
  <2>1. phase'[d] = "idle" /\ heard'[d] = m
    BY <1>0, <1>1, LeaderTypes
  <2> QED BY <1>0, <1>2, <1>3, <1>4, <2>1 DEF Stage, Res
<1>6. ASSUME NEW c \in Clients, c # d PROVE Stage(c)' = Stage(c) /\ Res(c)' = Res(c)
  <2>1. phase'[c] = phase[c] /\ num'[c] = num[c] /\ heard'[c] = heard[c]
    BY <1>0, <1>1, <1>6, LeaderTypes
  <2>2. Ordered(c)' <=> Ordered(c)
    BY <1>0, <2>1 DEF Ordered
  <2> QED BY <1>0, <2>1, <2>2, StageStays
<1> QED BY <1>0, <1>5, <1>6, AllGenerate DEF Atomic!Return, Stage, Res

\* The leader's commit is AtomicKV's execution of the call.
LEMMA CommitDoes ==
  ASSUME Plain, Linear, Linear', LogExtends, leader = 1, Commit(1)
  PROVE  \E d \in Clients : Atomic!Do(d)
<1>0. /\ TypeOK /\ IndexInv /\ IndexInv' /\ phase' = phase /\ cmd' = cmd /\ num' = num /\ heard' = heard
      /\ serving[1].st = "proposed" /\ serving[1].line \in Line
      /\ canon' = Append(canon, Exec(canon[Len(canon)], serving[1].line))
  BY LeaderTypes DEF Commit, Linear, IInv, TypeOK, clientVars
<1>1. PICK d \in Clients : d = serving[1].line.from
  BY <1>0 DEF Line
<1>2. Proposed(d) /\ serving[1].line = Request(d) /\ Request(d).from = d /\ Request(d).num = num[d]
  <2>1. Proposed(d)
    BY <1>0, <1>1 DEF Linear, StableInv, Progress, AtRest, Unwritten, Queued, Committed, Answered, NotServed, Serves
  <2> QED BY <2>1 DEF Proposed, Serves, Request
<1>3. /\ Len(log) + 1 \in DOMAIN log' /\ log'[Len(log) + 1].line = Request(d)
      /\ \A i \in DOMAIN log' : (i \in DOMAIN log /\ log'[i] = log[i]) \/ i = Len(log) + 1
  <2>1. log \in Seq(Entry) /\ log' = Append(log, [line |-> serving[1].line, by |-> 1])
        /\ [line |-> serving[1].line, by |-> 1] \in Entry
    BY <1>0, LeaderTypes DEF Commit, RaftCommit, Entry
  <2> QED BY <1>2, <2>1, AppendProperties
<1>4. canon'[Len(log) + 1] = canon[Len(canon)] /\ Len(canon) = Len(log) + 1
      /\ canon'[Len(canon')] = Exec(canon[Len(canon)], Request(d))
  <2>1. Len(canon) = Len(log) + 1 /\ Len(log) \in Nat
    BY <1>0, LeaderTypes DEF Linear, IInv, CanonInv
  <2>2. canon'[Len(log) + 1] = canon[Len(log) + 1]
    BY <2>1 DEF LogExtends
  <2>3. canon'[Len(canon')] = Exec(canon[Len(canon)], Request(d))
    <3>1. canon \in Seq(Map)
      BY <1>0 DEF TypeOK
    <3>2. Exec(canon[Len(canon)], Request(d)) \in Map
      <4>1. canon[Len(canon)] \in Map
        BY <2>1, <3>1, ElementOfSeq
      <4> QED BY <1>0, <1>2, <4>1, ExecType
    <3> QED BY <1>0, <1>2, <3>1, <3>2, AppendProperties
  <2> QED BY <2>1, <2>2, <2>3
<1>5. Stage(d) = "called" /\ Stage(d)' = "done" /\ Res(d)' = Result(canon[Len(canon)], Request(d))
  <2>1. ~Ordered(d) /\ phase[d] # "idle"
    BY <1>2 DEF Proposed, Sent1
  <2>2. Ordered(d)' /\ IndexOf(d)' = Len(log) + 1
    BY <1>0, <1>2, <1>3 DEF Ordered, IndexInv
  <2> QED BY <1>0, <1>3, <1>4, <2>1, <2>2 DEF Stage, Res
<1>6. ASSUME NEW c \in Clients, c # d PROVE Stage(c)' = Stage(c) /\ Res(c)' = Res(c)
  <2>1. Ordered(c)' <=> Ordered(c)
    <3>1. ASSUME Ordered(c) PROVE Ordered(c)'
      BY <1>0, <3>1 DEF Ordered, LogExtends
    <3>2. ASSUME Ordered(c)' PROVE Ordered(c)
      BY <1>0, <1>2, <1>3, <1>6, <3>2 DEF Ordered
    <3> QED BY <3>1, <3>2
  <2> QED BY <1>0, <2>1, StageStays
<1> DEFINE line == [kind |-> "proto", cmd |-> cmd[d]]
           m == canon[Len(canon)]
<1>7. /\ Exec(m, Request(d)) = Atomic!Exec(m, line)
      /\ Result(m, Request(d)) = Atomic!Result(m, line)
  <2>1. line.kind = "proto" /\ line.cmd = cmd[d] /\ Request(d).kind = "proto" /\ Request(d).cmd = cmd[d]
    BY DEF Request, Plain
  <2> HIDE DEF line, m
  <2> QED BY <2>1 DEF Exec, Result, Atomic!Exec, Atomic!Result, EmptyStr, Absent, Atomic!EmptyStr, Atomic!Absent
<1>8. Atomic!Do(d)
  <2>1. [c \in Clients |-> Stage(c)'] = [[c \in Clients |-> Stage(c)] EXCEPT ![d] = "done"]
    BY <1>5, <1>6
  <2>2. [c \in Clients |-> Res(c)'] = [[c \in Clients |-> Res(c)] EXCEPT ![d] = Atomic!Result(m, line)]
    BY <1>5, <1>6, <1>7
  <2>3. canon'[Len(canon')] = Atomic!Exec(m, line)
    BY <1>4, <1>7
  <2>4. [c \in Clients |-> Stage(c)][d] = "called"
    BY <1>5
  <2> HIDE DEF m
  <2> QED BY <1>0, <2>1, <2>2, <2>3, <2>4, AllGenerate DEF Atomic!Do, Stage, Res, m
<1> QED BY <1>8

\* The other steps leave the abstract state alone.
LEMMA OthersStutter ==
  ASSUME Plain, Linear, Linear', LogExtends, log' = log, canon' = canon, cmd' = cmd, num' = num, heard' = heard,
         \A c \in Clients : phase'[c] = "idle" <=> phase[c] = "idle"
  PROVE  UNCHANGED Atomic!atomicVars
<1>1. TypeOK /\ IndexInv /\ IndexInv' /\ \A c \in Clients : Ordered(c)' <=> Ordered(c)
  BY DEF Linear, IInv, Ordered
<1>2. \A c \in Clients : Stage(c)' = Stage(c) /\ Res(c)' = Res(c)
  BY <1>1, StageStays
<1> QED BY <1>2, Stutters

\* Every step under the first leader.
LEMMA StepRefines ==
  ASSUME Steady, Steady', Linear, Linear', [Next]_vars
  PROVE  [Atomic!AtomicNext]_(Atomic!atomicVars)
<1> USE DEF Steady
<1>0. TypeOK /\ LeadInv /\ CanonInv /\ LogExtends
  BY LogStep DEF Linear, IInv, StableInv
<1>1. CASE UNCHANGED vars
  BY <1>0, <1>1, OthersStutter DEF vars, clientVars, raftVars
<1>2. ASSUME NEW c \in Clients, NEW x \in Commands, ClientCall(c, x) PROVE Atomic!AtomicNext
  BY <1>0, <1>2, CallInvokes, AllGenerate DEF Atomic!AtomicNext
<1>3. ASSUME NEW c \in Clients, ClientReadUDP(c) PROVE Atomic!AtomicNext
  BY <1>0, <1>3, ReadReturns, AllGenerate DEF Atomic!AtomicNext
<1>4. ASSUME Commit(1) PROVE Atomic!AtomicNext
  BY <1>0, <1>4, CommitDoes, AllGenerate DEF Atomic!AtomicNext
<1>5. ASSUME NEW c \in Clients, ClientWrite(c) \/ ClientWriteFails(c) \/ LoseUDP(c)
      PROVE  UNCHANGED Atomic!atomicVars
  <2>1. /\ log' = log /\ canon' = canon /\ cmd' = cmd /\ num' = num /\ heard' = heard
        /\ phase' \in {phase, [phase EXCEPT ![c] = "waiting"]} /\ (phase' # phase => phase[c] = "sending")
    BY <1>5 DEF ClientWrite, Write, NextReplica, ClientWriteFails, WriteFails, LoseUDP, Plain, raftVars, clientVars
  <2>2. \A d \in Clients : phase'[d] = "idle" <=> phase[d] = "idle"
    BY <1>0, <2>1, LeaderTypes
  <2> QED BY <1>0, <2>1, <2>2, OthersStutter
<1>6. ASSUME NEW r \in Replicas,
             \/ \E c \in Clients : SessionSkip(r, c) \/ HandleRequest(r, c)
             \/ Respond(r) \/ FsmApply(r)
             \/ Die(r)
      PROVE  UNCHANGED Atomic!atomicVars
  <2>1. UNCHANGED <<log, canon, cmd, num, heard, phase>>
    BY <1>6 DEF SessionSkip, HandleRequest, Respond, FsmApply, Die, RaftDie, raftVars, clientVars
  <2> QED BY <1>0, <2>1, OthersStutter
<1> QED BY <1>0, <1>1, <1>2, <1>3, <1>4, <1>5, <1>6, StableNext DEF ClientNext

\* The service starts where AtomicKV does.
LEMMA InitRefines == Init => Atomic!AtomicInit
<1> SUFFICES ASSUME Init PROVE Atomic!AtomicInit
  OBVIOUS
<1>1. /\ canon[Len(canon)] = New /\ cmd = [c \in Clients |-> CHOOSE x \in Commands : TRUE]
      /\ \A c \in Clients : phase[c] = "idle" /\ heard[c].text = EmptyStr
  BY DEF Init, ClientInit, NoReply
<1>2. /\ canon[Len(canon)] = [k \in Keys |-> IF k \in InitKeys THEN InitValue ELSE Atomic!Absent]
      /\ \A c \in Generators : heard[c].text = Atomic!EmptyStr
  BY <1>1 DEF New, Generators, Absent, EmptyStr, Atomic!Absent, Atomic!EmptyStr
<1>3. \A c \in Generators : phase[c] = "idle" /\ cmd[c] = CHOOSE x \in Commands : TRUE
  BY <1>1 DEF Generators
<1> QED BY <1>2, <1>3 DEF Atomic!AtomicInit

(***************************************************************************)
(* The service is a linearizable map while the first leader leads: the     *)
(* broadcast, Propose, Raft's order, the state machine and the datagrams   *)
(* implement AtomicKV, each call taking effect at its commit.              *)
(***************************************************************************)
THEOREM Linearizable == Spec /\ []Steady => ImplementsAtomicKV
<1>1. IInv /\ StableInv /\ Steady /\ Steady' /\ [Next]_vars => StableInv'
  BY StableInductive DEF Steady, Plain
<1>2. IInv /\ StableInv /\ ProposerOrder => Linear
  BY OnePlace DEF IInv, StableInv, Linear
<1>3. Steady /\ Steady' /\ Linear /\ Linear' /\ [Next]_vars => [Atomic!AtomicNext]_(Atomic!atomicVars)
  BY StepRefines
<1> QED BY <1>1, <1>2, <1>3, InitRefines, Inductive, StableInductive, ProposersCommitInOrder, PTL
        DEF Spec, ImplementsAtomicKV, Atomic!AtomicSpec

=============================================================================
