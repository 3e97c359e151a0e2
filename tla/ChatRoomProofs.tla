--------------------------- MODULE ChatRoomProofs ---------------------------
(***************************************************************************)
(* Proofs about ChatRoom for every number of servers and clients, every    *)
(* size of the window and of the connections, and every bound.             *)
(***************************************************************************)
EXTENDS ChatRoom, RaftPipelineProofs

-----------------------------------------------------------------------------
(* Lemmas on the operators of the model. *)

\* At most the first k elements of a sequence.
LEMMA UpToProperties ==
  ASSUME NEW S, NEW s \in Seq(S), NEW k \in Nat
  PROVE  /\ UpTo(s, k) \in Seq(S) /\ Len(UpTo(s, k)) = (IF k < Len(s) THEN k ELSE Len(s))
         /\ \A i \in DOMAIN UpTo(s, k) : i \in DOMAIN s /\ UpTo(s, k)[i] = s[i]
<1> DEFINE n == IF k < Len(s) THEN k ELSE Len(s)
<1>1. n \in Nat /\ n <= Len(s) /\ Len(s) \in Nat
  OBVIOUS
<1>2. \A i \in 1..n : s[i] \in S
  BY <1>1
<1> HIDE DEF n
<1>3. /\ SubSeq(s, 1, n) \in Seq(S)
      /\ Len(SubSeq(s, 1, n)) = IF 1 <= n THEN n - 1 + 1 ELSE 0
      /\ \A i \in 1..n - 1 + 1 : SubSeq(s, 1, n)[i] = s[1 + i - 1]
  BY <1>1, <1>2, SubSeqProperties
<1>4. SubSeq(s, 1, n) = UpTo(s, k)
  BY DEF UpTo, n
<1>5. Len(UpTo(s, k)) = n /\ DOMAIN UpTo(s, k) = 1..n /\ UpTo(s, k) \in Seq(S)
  BY <1>1, <1>3, <1>4
<1>6. \A i \in 1..n : i \in DOMAIN s /\ UpTo(s, k)[i] = s[i]
  BY <1>1, <1>3, <1>4
<1> QED BY <1>5, <1>6 DEF n

\* The window always holds sequences; a line that it holds is left where it is.
LEMMA PushPopType ==
  ASSUME NEW S, NEW q \in Seq(S), NEW x \in S
  PROVE  PushPop(q, x) \in Seq(S) /\ (contains(q, x) => PushPop(q, x) = q)
<1>1. Consumed(q) \in Seq(S)
  <2>1. CASE q = <<>>
    <3>1. Len(q) + 1 >= Size => Tail(q) = <<>>
      BY <2>1
    <3> QED BY <2>1, <3>1 DEF Consumed
  <2>2. CASE q # <<>>
    BY <2>2 DEF Consumed
  <2> QED BY <2>1, <2>2
<1> QED BY <1>1 DEF PushPop

-----------------------------------------------------------------------------
(* The line that a client takes from a stream. *)

\* Where the next line in r's stream to c ends, and the line.
Cut(r, c) == CHOOSE k \in Whole(r, c) : \A j \in Whole(r, c) : k <= j

NextLine(r, c) == SubSeq(down[r][c], 1, Cut(r, c))

\* It is some blanks and then one entry with a text; the rest stays in the stream.
LEMMA NextLineProperties ==
  ASSUME NEW r, NEW c, down[r][c] \in Seq(Nat), Whole(r, c) # {}
  PROVE  LET s == down[r][c]
             k == Cut(r, c)
             rest == SubSeq(s, k + 1, Len(s))
         IN /\ k \in 1..Len(s) /\ log[s[k]].num # 0 /\ \A j \in 1..k - 1 : log[s[j]].num = 0
            /\ NextLine(r, c) \in Seq(Nat) /\ Len(NextLine(r, c)) = k
            /\ \A j \in 1..k : NextLine(r, c)[j] = s[j]
            /\ rest \in Seq(Nat) /\ Len(rest) = Len(s) - k
            /\ \A j \in 1..Len(s) - k : rest[j] = s[k + j]
<1> DEFINE s == down[r][c]
           k == Cut(r, c)
           rest == SubSeq(s, k + 1, Len(s))
<1>1. Whole(r, c) \subseteq 1..Len(s) /\ Len(s) \in Nat
  BY DEF Whole
<1>2. k \in Whole(r, c) /\ \A j \in Whole(r, c) : k <= j
  <2>1. Whole(r, c) \in SUBSET Nat
    BY <1>1
  <2>2. \E x \in Whole(r, c) : \A j \in Whole(r, c) : x <= j
    BY <2>1, Smallest
  <2> QED BY <2>2 DEF Cut
<1>3. k \in 1..Len(s) /\ log[s[k]].num # 0
  BY <1>1, <1>2 DEF Whole
<1>4. ASSUME NEW j \in 1..k - 1 PROVE log[s[j]].num = 0
  <2>1. j \in 1..Len(s) /\ ~(k <= j)
    BY <1>1, <1>3
  <2> QED BY <1>2, <2>1 DEF Whole
<1> HIDE DEF k
<1>5. \A i \in 1..Len(s) : s[i] \in Nat
  OBVIOUS
<1>6. /\ SubSeq(s, 1, k) \in Seq(Nat) /\ Len(SubSeq(s, 1, k)) = (IF 1 <= k THEN k - 1 + 1 ELSE 0)
      /\ \A j \in 1..k - 1 + 1 : SubSeq(s, 1, k)[j] = s[1 + j - 1]
  <2>1. \A i \in 1..k : s[i] \in Nat
    BY <1>1, <1>3, <1>5
  <2> QED BY <1>1, <1>3, <2>1, SubSeqProperties
<1>7. /\ rest \in Seq(Nat) /\ Len(rest) = (IF k + 1 <= Len(s) THEN Len(s) - (k + 1) + 1 ELSE 0)
      /\ \A j \in 1..Len(s) - (k + 1) + 1 : rest[j] = s[k + 1 + j - 1]
  <2>1. \A i \in k + 1..Len(s) : s[i] \in Nat
    BY <1>1, <1>3, <1>5
  <2>2. k + 1 \in Int /\ Len(s) \in Int
    BY <1>1, <1>3
  <2> QED BY <2>1, <2>2, SubSeqProperties
<1> HIDE DEF rest
<1>8. /\ Len(NextLine(r, c)) = k /\ NextLine(r, c) \in Seq(Nat)
      /\ \A j \in 1..k : NextLine(r, c)[j] = s[j]
  BY <1>1, <1>3, <1>6 DEF NextLine, k
<1>9. Len(rest) = Len(s) - k /\ \A j \in 1..Len(s) - k : rest[j] = s[k + j]
  BY <1>1, <1>3, <1>7
<1> QED BY <1>3, <1>4, <1>7, <1>8, <1>9 DEF k, rest

-----------------------------------------------------------------------------
(* Types. *)

ClientTypes ==
  /\ dialled \in [Clients -> 0..N] /\ num \in [Clients -> Nat] /\ pos \in [Clients -> 0..N]
  /\ left \in SUBSET Clients
  /\ mq \in [Clients -> Seq(Seq(Nat))] /\ shown \in [Clients -> Seq(Seq(Nat))]

NetTypes ==
  /\ conn \in [Replicas -> [Clients -> Conn]]
  /\ up \in [Replicas -> [Clients -> Seq(Entry)]]
  /\ down \in [Replicas -> [Clients -> Seq(Nat)]]

ServerTypes ==
  /\ clients \in [Replicas -> Seq(Clients)] /\ half \in SUBSET Replicas
  /\ bcast \in [Replicas -> Walk] /\ shut \in [Replicas -> Walk]
  /\ applied \in [Replicas -> Nat] /\ blanks \in Nat /\ stops \in Nat
  /\ sent \in [Replicas -> [Clients -> Seq(Nat)]]

\* The parts of the type invariant.
LEMMA TypeParts == TypeOK <=> PipeTypeOK(Entry) /\ ClientTypes /\ NetTypes /\ ServerTypes
  BY DEF TypeOK, ClientTypes, NetTypes, ServerTypes

\* What a client leaves behind.
LEMMA HangUpStep ==
  ASSUME NetTypes, left \in SUBSET Clients, NEW c \in Clients, HangUp(c)
  PROVE  /\ left' \in SUBSET Clients /\ left' = left \cup {c}
         /\ up' \in [Replicas -> [Clients -> Seq(Entry)]] /\ down' \in [Replicas -> [Clients -> Seq(Nat)]]
         /\ \A r \in Replicas, d \in Clients :
              /\ \E k \in Nat : up'[r][d] = IF d = c THEN UpTo(up[r][d], k) ELSE up[r][d]
              /\ down'[r][d] = IF d = c THEN <<>> ELSE down[r][d]
<1>1. PICK k \in [Replicas -> 0..Typed[c]] : up' = [r \in Replicas |-> [up[r] EXCEPT ![c] = UpTo(up[r][c], k[r])]]
  BY DEF HangUp
<1>2. \A r \in Replicas : k[r] \in Nat
  BY ChatAssumption DEF ChatAssumption
<1>3. \A r \in Replicas : up[r] \in [Clients -> Seq(Entry)] /\ UpTo(up[r][c], k[r]) \in Seq(Entry)
  BY <1>2, UpToProperties DEF NetTypes
<1>4. up' \in [Replicas -> [Clients -> Seq(Entry)]]
  BY <1>1, <1>3
<1>5. \A r \in Replicas, d \in Clients : up'[r][d] = IF d = c THEN UpTo(up[r][d], k[r]) ELSE up[r][d]
  BY <1>1, <1>3
<1>6. down' \in [Replicas -> [Clients -> Seq(Nat)]]
      /\ \A r \in Replicas, d \in Clients : down'[r][d] = IF d = c THEN <<>> ELSE down[r][d]
  BY DEF HangUp, NetTypes
<1>7. \A r \in Replicas, d \in Clients : \E n \in Nat : up'[r][d] = IF d = c THEN UpTo(up[r][d], n) ELSE up[r][d]
  BY <1>2, <1>5
<1> QED BY <1>4, <1>6, <1>7 DEF HangUp

\* What a server leaves behind.
LEMMA DieStep ==
  ASSUME NetTypes, ServerTypes, NEW r \in Replicas, Die(r)
  PROVE  /\ NetTypes' /\ PipeDie(r) /\ UNCHANGED <<clientVars, applied, blanks, sent>>
         /\ clients' \in [Replicas -> Seq(Clients)] /\ half' \in SUBSET Replicas
         /\ bcast' \in [Replicas -> Walk] /\ shut' \in [Replicas -> Walk]
         /\ \A s \in Replicas, c \in Clients :
              /\ conn'[s][c] = IF s = r THEN "none" ELSE conn[s][c]
              /\ up'[s][c] = IF s = r THEN <<>> ELSE up[s][c]
              /\ \E k \in Nat : down'[s][c] = IF s = r THEN UpTo(down[s][c], k) ELSE down[s][c]
         /\ \A s \in Replicas :
              /\ clients'[s] = IF s = r THEN <<>> ELSE clients[s]
              /\ bcast'[s] = IF s = r THEN NoWalk ELSE bcast[s]
<1>1. /\ conn' = [conn EXCEPT ![r] = [c \in Clients |-> "none"]]
      /\ up' = [up EXCEPT ![r] = [c \in Clients |-> <<>>]]
      /\ clients' = [clients EXCEPT ![r] = <<>>] /\ half' = half \ {r}
      /\ bcast' = [bcast EXCEPT ![r] = NoWalk] /\ shut' = [shut EXCEPT ![r] = NoWalk]
      /\ PipeDie(r) /\ UNCHANGED <<clientVars, applied, blanks, sent>>
  BY DEF Die
<1>2. PICK k \in [Clients -> 0..Buffer] : down' = [down EXCEPT ![r] = [c \in Clients |-> UpTo(down[r][c], k[c])]]
  BY DEF Die
<1>3. \A c \in Clients : k[c] \in Nat /\ UpTo(down[r][c], k[c]) \in Seq(Nat)
  BY UpToProperties, ChatAssumption DEF NetTypes, ChatAssumption
<1>4. down' \in [Replicas -> [Clients -> Seq(Nat)]]
      /\ \A s \in Replicas, c \in Clients : down'[s][c] = IF s = r THEN UpTo(down[s][c], k[c]) ELSE down[s][c]
  BY <1>2, <1>3 DEF NetTypes
<1>5. conn' \in [Replicas -> [Clients -> Conn]] /\ up' \in [Replicas -> [Clients -> Seq(Entry)]]
      /\ \A s \in Replicas, c \in Clients : /\ conn'[s][c] = IF s = r THEN "none" ELSE conn[s][c]
                                           /\ up'[s][c] = IF s = r THEN <<>> ELSE up[s][c]
  BY <1>1 DEF NetTypes, Conn
<1>6. /\ clients' \in [Replicas -> Seq(Clients)] /\ half' \in SUBSET Replicas
      /\ bcast' \in [Replicas -> Walk] /\ shut' \in [Replicas -> Walk]
      /\ \A s \in Replicas : /\ clients'[s] = IF s = r THEN <<>> ELSE clients[s]
                             /\ bcast'[s] = IF s = r THEN NoWalk ELSE bcast[s]
  BY <1>1 DEF ServerTypes, NoWalk, Walk
<1>7. \A s \in Replicas, c \in Clients : \E n \in Nat : down'[s][c] = IF s = r THEN UpTo(down[s][c], n) ELSE down[s][c]
  BY <1>3, <1>4
<1>8. NetTypes'
  BY <1>4, <1>5 DEF NetTypes
<1>9. \A s \in Replicas, c \in Clients :
        /\ conn'[s][c] = IF s = r THEN "none" ELSE conn[s][c]
        /\ up'[s][c] = IF s = r THEN <<>> ELSE up[s][c]
        /\ \E n \in Nat : down'[s][c] = IF s = r THEN UpTo(down[s][c], n) ELSE down[s][c]
  BY <1>5, <1>7
<1> QED BY <1>1, <1>6, <1>8, <1>9

\* The room opens in its types.
LEMMA InitTypes == Init => TypeOK
<1> SUFFICES ASSUME Init PROVE TypeOK
  OBVIOUS
<1>1. NewMQ \in Seq(Seq(Nat))
  BY SizeAssumption DEF SizeAssumption, NewMQ
<1>2. N \in Nat /\ NoWalk \in Walk
  BY ClusterAssumption DEF ClusterAssumption, NoWalk, Walk
<1>3. PipeTypeOK(Entry)
  BY PipeInitType DEF Init
<1>4. ClientTypes
  BY <1>1, <1>2 DEF Init, ClientTypes
<1>5. NetTypes /\ ServerTypes
  BY <1>2 DEF Init, NetTypes, ServerTypes, Conn
<1> QED BY <1>3, <1>4, <1>5, TypeParts

\* What does not concern the group leaves its types.
LEMMA PipeStays == ASSUME PipeTypeOK(Entry), UNCHANGED pipeVars PROVE PipeTypeOK(Entry)'
  BY DEF PipeTypeOK, RaftTypeOK, pipeVars, raftVars

\* The servers' state stays.
LEMMA ServersStay == ASSUME ServerTypes, UNCHANGED serverVars PROVE ServerTypes'
  BY DEF ServerTypes, serverVars

\* The clients' steps.
LEMMA ClientStepTypes ==
  ASSUME TypeOK, NEW c \in Clients, ClientNext(c)
  PROVE  TypeOK'
<1>0. /\ PipeTypeOK(Entry) /\ ClientTypes /\ NetTypes /\ ServerTypes /\ N \in Nat \ {0}
      /\ alive \subseteq Replicas /\ left \in SUBSET Clients
  BY TypeParts, ClusterAssumption DEF ClusterAssumption, PipeTypeOK, RaftTypeOK, ClientTypes
<1>1. UNCHANGED serverVars /\ UNCHANGED pipeVars
  BY DEF ClientNext, Dial, DialFails, Type, Write, WriteFails, Consume, Leave
<1>2. ASSUME ClientTypes', NetTypes' PROVE TypeOK'
  BY <1>0, <1>1, <1>2, PipeStays, ServersStay, TypeParts DEF TypeOK, ClientTypes, NetTypes, ServerTypes
<1>3. CASE Dial(c)
  <2>1. dialled[c] + 1 \in Replicas /\ dialled[c] + 1 \in 0..N
    BY <1>0, <1>3 DEF Dial, Replicas
  <2>2. ClientTypes' /\ NetTypes'
    BY <1>0, <1>3, <2>1 DEF Dial, ClientTypes, NetTypes, Conn
  <2> QED BY <1>2, <2>2
<1>4. CASE DialFails(c) \/ Leave(c)
  <2>1. HangUp(c) /\ UNCHANGED <<dialled, num, pos, mq, shown, conn>>
    BY <1>4 DEF DialFails, Leave
  <2>2. ClientTypes' /\ NetTypes'
    BY <1>0, <2>1, HangUpStep DEF ClientTypes, NetTypes
  <2> QED BY <1>2, <2>2
<1>5. CASE Type(c)
  <2>1. ClientTypes' /\ NetTypes'
    BY <1>0, <1>5 DEF Type, ClientTypes, NetTypes, netVars
  <2> QED BY <1>2, <2>1
<1>6. CASE Write(c)
  <2>1. pos[c] \in Replicas /\ (pos[c] # N => pos[c] + 1 \in 0..N) /\ num[c] \in Nat
    BY <1>0, <1>6 DEF Write, ClientTypes, Replicas
  <2>2. /\ pos' = [pos EXCEPT ![c] = IF pos[c] = N THEN 0 ELSE pos[c] + 1]
        /\ UNCHANGED <<dialled, num, left, mq, shown, down>>
    BY <1>6 DEF Write
  <2>3. ClientTypes'
    BY <1>0, <2>1, <2>2 DEF ClientTypes
  <2>4. [from |-> c, num |-> num[c], by |-> pos[c]] \in Entry
    BY <2>1 DEF Entry
  <2>5. up' \in [Replicas -> [Clients -> Seq(Entry)]]
    BY <1>0, <1>6, <2>1, <2>4 DEF Write, NetTypes
  <2>6. conn' \in [Replicas -> [Clients -> Conn]]
    BY <1>0, <1>6, <2>1 DEF Write, NetTypes, Conn
  <2>7. NetTypes'
    BY <1>0, <2>2, <2>5, <2>6 DEF NetTypes
  <2> QED BY <1>2, <2>3, <2>7
<1>7. CASE WriteFails(c)
  <2>1. ClientTypes' /\ NetTypes'
    BY <1>0, <1>7 DEF WriteFails, ClientTypes, NetTypes, netVars
  <2> QED BY <1>2, <2>1
<1>8. ASSUME NEW r \in Replicas, Consume(c, r) PROVE TypeOK'
  <2>1. NextLine(r, c) \in Seq(Nat) /\ SubSeq(down[r][c], Cut(r, c) + 1, Len(down[r][c])) \in Seq(Nat)
    BY <1>0, <1>8, NextLineProperties DEF Consume, NetTypes
  <2>2. /\ down' = [down EXCEPT ![r][c] = SubSeq(down[r][c], Cut(r, c) + 1, Len(down[r][c]))]
        /\ shown' = IF contains(mq[c], NextLine(r, c)) THEN shown
                    ELSE [shown EXCEPT ![c] = Append(shown[c], NextLine(r, c))]
        /\ mq' = [mq EXCEPT ![c] = PushPop(mq[c], NextLine(r, c))]
        /\ UNCHANGED <<dialled, num, pos, left, conn, up>>
    BY <1>8 DEF Consume, Cut, NextLine
  <2>3. PushPop(mq[c], NextLine(r, c)) \in Seq(Seq(Nat)) /\ Append(shown[c], NextLine(r, c)) \in Seq(Seq(Nat))
    BY <1>0, <2>1, PushPopType DEF ClientTypes
  <2>4. ClientTypes'
    BY <1>0, <2>2, <2>3 DEF ClientTypes
  <2>5. NetTypes'
    BY <1>0, <2>1, <2>2 DEF NetTypes
  <2> QED BY <1>2, <2>4, <2>5
<1> QED BY <1>3, <1>4, <1>5, <1>6, <1>7, <1>8 DEF ClientNext

\* The steps in which a server ends.
DieNext(r) == SendPanics(r) \/ ShutdownPanics(r) \/ ShutdownEnd(r) \/ Crash(r)

\* They leave the types.
LEMMA DieTypes ==
  ASSUME TypeOK, NEW r \in Replicas, DieNext(r)
  PROVE  Die(r) /\ TypeOK'
<1>0. PipeTypeOK(Entry) /\ ClientTypes /\ NetTypes /\ ServerTypes /\ Die(r)
  BY TypeParts DEF DieNext, SendPanics, ShutdownPanics, ShutdownEnd, Crash
<1>1. stops' \in Nat
  BY <1>0 DEF DieNext, SendPanics, ShutdownPanics, ShutdownEnd, Crash, ServerTypes
<1>2. PipeTypeOK(Entry)'
  BY <1>0, DieStep, PipeStepType DEF PipeStep
<1>3. NetTypes' /\ ServerTypes' /\ ClientTypes'
  BY <1>0, <1>1, DieStep DEF ServerTypes, ClientTypes, clientVars
<1> QED BY <1>0, <1>2, <1>3, TypeParts DEF TypeOK, ClientTypes, NetTypes, ServerTypes

\* The steps of the servers' sessions and of Listen.
LEMMA ListenTypes ==
  ASSUME TypeOK, NEW r \in Replicas, NEW c \in Clients, Join(r, c) \/ Propose(r, c) \/ ProposeBlank(r, c)
  PROVE  TypeOK'
<1>0. PipeTypeOK(Entry) /\ ClientTypes /\ NetTypes /\ ServerTypes
  BY TypeParts
<1>1. ASSUME PipeTypeOK(Entry)', NetTypes', ServerTypes', UNCHANGED clientVars PROVE TypeOK'
  BY <1>0, <1>1, TypeParts DEF TypeOK, ClientTypes, NetTypes, ServerTypes, clientVars
<1>2. CASE Join(r, c)
  <2>1. NetTypes' /\ ServerTypes' /\ UNCHANGED clientVars /\ UNCHANGED pipeVars
    BY <1>0, <1>2 DEF Join, Listening, NetTypes, Conn, ServerTypes
  <2> QED BY <1>0, <1>1, <2>1, PipeStays
<1>3. CASE Propose(r, c)
  <2>1. up[r][c] \in Seq(Entry) /\ up[r][c] # <<>>
    BY <1>0, <1>3 DEF Propose, NetTypes
  <2>2. Head(up[r][c]) \in Entry /\ Tail(up[r][c]) \in Seq(Entry)
    BY <2>1
  <2>3. NetTypes'
    BY <1>0, <1>3, <2>2 DEF Propose, NetTypes
  <2>4. PipeTypeOK(Entry)'
    BY <1>0, <1>3, <2>2, PipeAcceptType, PipeStays DEF Propose
  <2> QED BY <1>0, <1>1, <1>3, <2>3, <2>4, ServersStay DEF Propose
<1>4. CASE ProposeBlank(r, c)
  <2>1. [from |-> c, num |-> 0, by |-> r] \in Entry
    BY DEF Entry
  <2>2. PipeTypeOK(Entry)'
    BY <1>0, <1>4, <2>1, PipeAcceptType DEF ProposeBlank
  <2>3. NetTypes' /\ ServerTypes' /\ UNCHANGED clientVars
    BY <1>0, <1>4 DEF ProposeBlank, NetTypes, netVars, ServerTypes
  <2> QED BY <1>1, <2>2, <2>3
<1> QED BY <1>2, <1>3, <1>4

\* The client whose turn it is, and the one whose channels Shutdown closes.
LEMMA WalkTypes ==
  ASSUME TypeOK, NEW r \in Replicas
  PROVE  /\ bcast[r] \in Walk /\ shut[r] \in Walk /\ clients[r] \in Seq(Clients) /\ Len(clients[r]) \in Nat
         /\ \A i \in 1..Len(clients[r]) : clients[r][i] \in Clients
<1>1. clients[r] \in Seq(Clients) /\ bcast[r] \in Walk /\ shut[r] \in Walk
  BY TypeParts DEF ServerTypes
<1> QED BY <1>1, ElementOfSeq

\* The loops over the clients stay inside the list, which only grows while its server runs.
WalksInv ==
  \A r \in Replicas : bcast[r].n <= Len(clients[r]) /\ shut[r].n <= Len(clients[r])

\* The steps of Apply and of Shutdown.
LEMMA LoopTypes ==
  ASSUME TypeOK, WalksInv, NEW r \in Replicas,
         \/ JoinStored(r) \/ ApplyBegin(r) \/ Send(r) \/ ApplyEnd(r)
         \/ ShutdownBegin(r) \/ Disconnect(r)
  PROVE  TypeOK'
<1>0. /\ PipeTypeOK(Entry) /\ ClientTypes /\ NetTypes /\ ServerTypes
      /\ bcast[r] \in Walk /\ shut[r] \in Walk /\ Len(clients[r]) \in Nat
      /\ bcast[r].n <= Len(clients[r]) /\ shut[r].n <= Len(clients[r])
  BY TypeParts, WalkTypes DEF WalksInv
<1>1. UNCHANGED clientVars /\ UNCHANGED pipeVars
  BY DEF JoinStored, ApplyBegin, Send, ApplyEnd, ShutdownBegin, Disconnect
<1>2. ASSUME NetTypes', ServerTypes' PROVE TypeOK'
  BY <1>0, <1>1, <1>2, PipeStays, TypeParts DEF TypeOK, ClientTypes, NetTypes, ServerTypes, clientVars
<1>3. CASE JoinStored(r) \/ ApplyBegin(r) \/ ApplyEnd(r) \/ ShutdownBegin(r)
  <2>1. NetTypes'
    BY <1>0, <1>3 DEF JoinStored, ApplyBegin, ApplyEnd, ShutdownBegin, NetTypes, netVars
  <2>2. NoWalk \in Walk /\ [at |-> 1, n |-> Len(clients[r])] \in Walk
    BY <1>0 DEF NoWalk, Walk
  <2>3. ServerTypes'
    <3>1. CASE JoinStored(r)
      BY <1>0, <3>1 DEF JoinStored, ServerTypes
    <3>2. CASE ApplyBegin(r)
      BY <1>0, <2>2, <3>2 DEF ApplyBegin, ServerTypes
    <3>3. CASE ApplyEnd(r)
      BY <1>0, <2>2, <3>3 DEF ApplyEnd, ServerTypes
    <3>4. CASE ShutdownBegin(r)
      BY <1>0, <2>2, <3>4 DEF ShutdownBegin, ServerTypes
    <3> QED BY <1>3, <3>1, <3>2, <3>3, <3>4
  <2> QED BY <1>2, <2>1, <2>3
<1>4. CASE Send(r)
  <2>1. bcast[r].at \in 1..Len(clients[r]) /\ Turn(r) \in Clients
    <3>1. bcast[r].at \in 1..bcast[r].n /\ bcast[r].n \in Nat
      BY <1>0, <1>4 DEF Send, Sending, Walk
    <3>2. bcast[r].at \in 1..Len(clients[r])
      BY <1>0, <3>1
    <3> QED BY <3>2, WalkTypes DEF Turn
  <2>2. applied[r] + 1 \in Nat /\ bcast[r].at + 1 \in Nat /\ bcast[r].n \in Nat
    BY <1>0 DEF ServerTypes, Walk
  <2>3. NetTypes'
    BY <1>0, <1>4, <2>1, <2>2 DEF Send, NetTypes
  <2>4. bcast' \in [Replicas -> Walk]
    BY <1>0, <1>4, <2>2 DEF Send, ServerTypes, Walk
  <2>5. ServerTypes'
    BY <1>0, <1>4, <2>1, <2>2, <2>4 DEF Send, ServerTypes
  <2> QED BY <1>2, <2>3, <2>5
<1>5. CASE Disconnect(r)
  <2> DEFINE c == clients[r][shut[r].at]
  <2>1. c \in Clients /\ shut[r].at + 1 \in Nat /\ shut[r].n \in Nat
    <3>1. shut[r].at \in 1..shut[r].n /\ shut[r].n \in Nat
      BY <1>0, <1>5 DEF Disconnect, Walk
    <3>2. shut[r].at \in 1..Len(clients[r])
      BY <1>0, <3>1
    <3> QED BY <3>1, <3>2, WalkTypes
  <2>2. PICK k \in 0..1 : /\ up' = [up EXCEPT ![r][c] = UpTo(up[r][c], k)]
                          /\ conn' = [conn EXCEPT ![r][c] = IF Len(up[r][c]) > k THEN "spilled" ELSE "closed"]
    BY <1>5 DEF Disconnect
  <2>3. UpTo(up[r][c], k) \in Seq(Entry)
    BY <1>0, <2>1, UpToProperties DEF NetTypes
  <2>4. shut' = [shut EXCEPT ![r].at = shut[r].at + 1] /\ UNCHANGED <<down, clients, half, bcast, applied, blanks, stops, sent>>
    BY <1>5 DEF Disconnect
  <2> HIDE DEF c
  <2>5. NetTypes'
    BY <1>0, <2>1, <2>2, <2>3, <2>4 DEF NetTypes, Conn
  <2>6. ServerTypes'
    BY <1>0, <2>1, <2>4 DEF ServerTypes, Walk
  <2> QED BY <1>2, <2>5, <2>6
<1> QED BY <1>3, <1>4, <1>5

\* The steps of the group.
LEMMA GroupTypes ==
  ASSUME TypeOK, RaftNext
  PROVE  PipeStep /\ TypeOK' /\ UNCHANGED <<clientVars, netVars, serverVars>>
<1>1. PipeStep /\ UNCHANGED <<clientVars, netVars, serverVars>>
  BY DEF RaftNext, Elect, StepDown, Commit, Inherit, PipeStep
<1>2. PipeTypeOK(Entry)'
  BY <1>1, PipeStepType, TypeParts
<1>3. ClientTypes' /\ NetTypes' /\ ServerTypes'
  BY <1>1, TypeParts DEF ClientTypes, NetTypes, ServerTypes, clientVars, netVars, serverVars
<1> QED BY <1>1, <1>2, <1>3, TypeParts DEF TypeOK, ClientTypes, NetTypes, ServerTypes

\* Every step keeps the types.
LEMMA TypesStep == ASSUME TypeOK, WalksInv, [Next]_vars PROVE TypeOK'
<1>1. CASE UNCHANGED vars
  BY <1>1, PipeStays, ServersStay, TypeParts
     DEF vars, TypeOK, ClientTypes, NetTypes, ServerTypes, clientVars, netVars
<1> QED BY <1>1, ClientStepTypes, DieTypes, ListenTypes, LoopTypes, GroupTypes DEF Next, ServerNext, DieNext

\* Every step keeps the loops inside the list.
LEMMA WalksStep == ASSUME TypeOK, WalksInv, [Next]_vars PROVE WalksInv'
<1>0. ServerTypes /\ NetTypes /\ \A r \in Replicas : /\ bcast[r] \in Walk /\ shut[r] \in Walk
                                                   /\ clients[r] \in Seq(Clients) /\ Len(clients[r]) \in Nat
  BY TypeParts, WalkTypes
<1>1. CASE UNCHANGED <<clients, bcast, shut>>
  BY <1>1 DEF WalksInv
<1>2. ASSUME NEW c \in Clients, ClientNext(c) PROVE UNCHANGED <<clients, bcast, shut>>
  BY <1>2 DEF ClientNext, Dial, DialFails, Type, Write, WriteFails, Consume, Leave, serverVars
<1>3. ASSUME RaftNext PROVE UNCHANGED <<clients, bcast, shut>>
  BY <1>3, GroupTypes DEF serverVars
<1>4. ASSUME NEW r \in Replicas, DieNext(r) PROVE WalksInv'
  <2>1. /\ clients' = [clients EXCEPT ![r] = <<>>]
        /\ bcast' = [bcast EXCEPT ![r] = NoWalk] /\ shut' = [shut EXCEPT ![r] = NoWalk]
    BY <1>4, DieTypes DEF Die
  <2> QED BY <1>0, <2>1 DEF WalksInv, ServerTypes, NoWalk
<1>5. ASSUME NEW r \in Replicas, NEW c \in Clients, Join(r, c) PROVE WalksInv'
  <2>1. clients' = [clients EXCEPT ![r] = Append(clients[r], c)] /\ UNCHANGED <<bcast, shut>>
    BY <1>5 DEF Join
  <2>2. Len(Append(clients[r], c)) = Len(clients[r]) + 1
    BY <1>0
  <2> QED BY <1>0, <2>1, <2>2 DEF WalksInv, ServerTypes, Walk
<1>6. ASSUME NEW r \in Replicas, ApplyBegin(r) \/ Send(r) \/ ApplyEnd(r) \/ ShutdownBegin(r) \/ Disconnect(r)
      PROVE  WalksInv'
  <2>1. /\ clients' = clients
        /\ \A s \in Replicas : bcast'[s].n \in {0, Len(clients[s]), bcast[s].n}
                            /\ shut'[s].n \in {Len(clients[s]), shut[s].n}
    <3>1. CASE ApplyBegin(r)
      BY <1>0, <3>1 DEF ApplyBegin, ServerTypes
    <3>2. CASE Send(r)
      BY <1>0, <3>2 DEF Send, ServerTypes, Walk
    <3>3. CASE ApplyEnd(r)
      BY <1>0, <3>3 DEF ApplyEnd, ServerTypes, NoWalk
    <3>4. CASE ShutdownBegin(r)
      BY <1>0, <3>4 DEF ShutdownBegin, ServerTypes
    <3>5. CASE Disconnect(r)
      BY <1>0, <3>5 DEF Disconnect, ServerTypes, Walk
    <3> QED BY <1>6, <3>1, <3>2, <3>3, <3>4, <3>5
  <2> QED BY <1>0, <2>1 DEF WalksInv
<1>7. ASSUME NEW r \in Replicas, NEW c \in Clients, Propose(r, c) \/ ProposeBlank(r, c) \/ JoinStored(r)
      PROVE  UNCHANGED <<clients, bcast, shut>>
  BY <1>7 DEF Propose, ProposeBlank, JoinStored, serverVars
<1>8. CASE UNCHANGED vars
  BY <1>1, <1>8 DEF vars, serverVars
<1> QED BY <1>1, <1>2, <1>3, <1>4, <1>5, <1>6, <1>7, <1>8 DEF Next, ServerNext, DieNext, JoinStored

\* The types, with the loops, are an inductive invariant.
LEMMA TypesInductive ==
  /\ Init => TypeOK /\ WalksInv
  /\ TypeOK /\ WalksInv /\ [Next]_vars => TypeOK' /\ WalksInv'
<1>1. Init => WalksInv
  BY DEF Init, WalksInv, NoWalk
<1> QED BY <1>1, InitTypes, TypesStep, WalksStep

(***************************************************************************)
(* The room keeps its types: Apply and Shutdown only ever meet sessions of *)
(* the list, whoever joins while they walk it.                             *)
(***************************************************************************)
THEOREM ChatTypesCorrect == Spec => []TypeOK
<1>1. Spec => [](TypeOK /\ WalksInv)
  BY TypesInductive, PTL DEF Spec
<1> QED BY <1>1, PTL

-----------------------------------------------------------------------------
(* The streams. *)

(***************************************************************************)
(* r's stream to c is consecutive; before c is in the list, which it never *)
(* is twice, it is empty, and after that it has come as far as Apply has:  *)
(* one entry further if the loop has passed c's place.  If it is not empty *)
(* then the loop, where there is one, will come to that place.             *)
(***************************************************************************)
StreamAt(r, c) ==
  LET s == sent[r][c]
      InList == \E p \in DOMAIN clients[r] : clients[r][p] = c
  IN
  /\ \A i \in DOMAIN s : s[i] = s[1] + i - 1
  /\ dialled[c] < r => conn[r][c] = "none"
  /\ conn[r][c] \in {"none", "waiting"} <=> ~InList
  /\ r \in alive /\ ~InList => s = <<>>
  /\ \A p \in DOMAIN clients[r] : clients[r][p] = c =>
       /\ \A q \in DOMAIN clients[r] : clients[r][q] = c => q = p
       /\ s # <<>> => /\ s[Len(s)] = applied[r] + (IF bcast[r].at > p THEN 1 ELSE 0)
                      /\ bcast[r].at # 0 => p <= bcast[r].n

StreamInv == \A r \in Replicas, c \in Clients : StreamAt(r, c)

\* A stream that nothing happens to.
LEMMA StreamStays ==
  ASSUME NEW r, NEW c, StreamAt(r, c), r \in alive' => r \in alive,
         sent'[r][c] = sent[r][c], dialled'[c] = dialled[c], conn'[r][c] = conn[r][c],
         clients'[r] = clients[r], applied'[r] = applied[r], bcast'[r] = bcast[r]
  PROVE  StreamAt(r, c)'
  BY DEF StreamAt

\* Only a death makes a server disappear, and none comes back.
LEMMA AliveStays ==
  ASSUME [Next]_vars, NEW s \in Replicas
  PROVE  s \in alive' => s \in alive
<1>1. CASE UNCHANGED vars
  BY <1>1 DEF vars, pipeVars, raftVars
<1>2. ASSUME NEW c \in Clients, ClientNext(c) PROVE UNCHANGED alive
  BY <1>2 DEF ClientNext, Dial, DialFails, Type, Write, WriteFails, Consume, Leave, pipeVars, raftVars
<1>3. ASSUME RaftNext PROVE UNCHANGED alive
  BY <1>3 DEF RaftNext, Elect, StepDown, Commit, Inherit, PipeElect, PipeStepDown, PipeCommit, PipeInherit,
              RaftElect, RaftStepDown, RaftCommit, RaftInherit
<1>4. ASSUME NEW r \in Replicas, DieNext(r) PROVE alive' = alive \ {r}
  BY <1>4 DEF DieNext, SendPanics, ShutdownPanics, ShutdownEnd, Crash, Die, PipeDie, RaftDie
<1>5. ASSUME NEW r \in Replicas, NEW c \in Clients, Join(r, c) \/ Propose(r, c) \/ ProposeBlank(r, c)
      PROVE  UNCHANGED alive
  BY <1>5 DEF Join, Propose, ProposeBlank, PipeAccept, pipeVars, raftVars
<1>6. ASSUME NEW r \in Replicas, JoinStored(r) \/ ApplyBegin(r) \/ Send(r) \/ ApplyEnd(r) \/ ShutdownBegin(r) \/ Disconnect(r)
      PROVE  UNCHANGED alive
  BY <1>6 DEF JoinStored, ApplyBegin, Send, ApplyEnd, ShutdownBegin, Disconnect, pipeVars, raftVars
<1> QED BY <1>1, <1>2, <1>3, <1>4, <1>5, <1>6 DEF Next, ServerNext, DieNext

\* The clients' steps do nothing to a stream, but for Dial, which opens one.
LEMMA StreamClientStep ==
  ASSUME TypeOK, StreamInv, NEW d \in Clients, ClientNext(d), NEW r \in Replicas, NEW c \in Clients
  PROVE  StreamAt(r, c)'
<1>0. StreamAt(r, c) /\ NetTypes /\ ClientTypes /\ N \in Nat \ {0} /\ Replicas = 1..N
  BY TypeParts, ClusterAssumption DEF StreamInv, ClusterAssumption, Replicas
<1>1. UNCHANGED <<serverVars, pipeVars>>
  BY DEF ClientNext, Dial, DialFails, Type, Write, WriteFails, Consume, Leave
<1>2. UNCHANGED <<sent, clients, applied, bcast, alive>>
  BY <1>1 DEF serverVars, pipeVars, raftVars
<1>3. CASE conn' = conn /\ dialled' = dialled
  BY <1>0, <1>2, <1>3, StreamStays
<1>4. CASE Dial(d)
  <2>1. /\ dialled[d] + 1 \in Replicas /\ dialled[d] \in 0..N
        /\ dialled' = [dialled EXCEPT ![d] = dialled[d] + 1]
        /\ conn' = [conn EXCEPT ![dialled[d] + 1][d] = "waiting"]
    BY <1>0, <1>4 DEF Dial, ClientTypes
  <2>2. CASE c # d
    <3>1. conn'[r][c] = conn[r][c] /\ dialled'[c] = dialled[c]
      BY <1>0, <2>1, <2>2 DEF NetTypes, ClientTypes
    <3> QED BY <1>0, <1>2, <3>1, StreamStays
  <2>3. CASE c = d
    <3>1. dialled'[c] = dialled[c] + 1 /\ conn'[r][c] = IF r = dialled[c] + 1 THEN "waiting" ELSE conn[r][c]
      BY <1>0, <2>1, <2>3 DEF NetTypes, ClientTypes
    <3>2. r = dialled[c] + 1 => conn[r][c] = "none"
      BY <1>0, <2>1, <2>3 DEF StreamAt
    <3>3. conn'[r][c] \in {"none", "waiting"} <=> conn[r][c] \in {"none", "waiting"}
      BY <3>1, <3>2
    <3>4. dialled'[c] < r => conn'[r][c] = "none"
      BY <1>0, <2>1, <2>3, <3>1 DEF StreamAt
    <3> QED BY <1>0, <1>2, <3>3, <3>4 DEF StreamAt
  <2> QED BY <2>2, <2>3
<1>5. CASE Write(d)
  <2>1. pos[d] \in Replicas /\ dialled' = dialled
        /\ conn' = IF conn[pos[d]][d] = "closed" THEN [conn EXCEPT ![pos[d]][d] = "spilled"] ELSE conn
    BY <1>0, <1>5 DEF Write, ClientTypes
  <2>2. conn'[r][c] = conn[r][c] \/ (conn[r][c] = "closed" /\ conn'[r][c] = "spilled")
    BY <1>0, <2>1 DEF NetTypes
  <2>3. CASE conn[r][c] = "closed" /\ conn'[r][c] = "spilled"
    <3>1. ~(dialled[c] < r)
      BY <1>0, <2>3 DEF StreamAt
    <3> QED BY <1>0, <1>2, <2>1, <2>3, <3>1 DEF StreamAt
  <2> QED BY <1>0, <1>2, <2>1, <2>2, <2>3, StreamStays
<1>6. CASE DialFails(d) \/ Type(d) \/ WriteFails(d) \/ Leave(d) \/ \E q \in Replicas : Consume(d, q)
  <2>1. conn' = conn /\ dialled' = dialled
    BY <1>6 DEF DialFails, Type, WriteFails, Leave, Consume, netVars
  <2> QED BY <1>3, <2>1
<1> QED BY <1>4, <1>5, <1>6 DEF ClientNext

\* A server's death ends its list; what it has sent stays sent.
LEMMA StreamDieStep ==
  ASSUME TypeOK, StreamInv, NEW q \in Replicas, DieNext(q), NEW r \in Replicas, NEW c \in Clients
  PROVE  StreamAt(r, c)'
<1>0. StreamAt(r, c) /\ NetTypes /\ ServerTypes /\ Die(q) /\ PipeDie(q)
  BY TypeParts, DieTypes DEF StreamInv, Die
<1>1. /\ UNCHANGED <<dialled, applied, sent>> /\ alive' = alive \ {q}
      /\ conn'[r][c] = IF r = q THEN "none" ELSE conn[r][c]
      /\ clients'[r] = IF r = q THEN <<>> ELSE clients[r]
      /\ bcast'[r] = IF r = q THEN NoWalk ELSE bcast[r]
  <2>1. UNCHANGED <<clientVars, applied, sent>> /\ alive' = alive \ {q}
    BY <1>0 DEF Die, PipeDie, RaftDie
  <2>2. conn'[r][c] = IF r = q THEN "none" ELSE conn[r][c]
    BY <1>0, DieStep
  <2>3. clients'[r] = (IF r = q THEN <<>> ELSE clients[r]) /\ bcast'[r] = IF r = q THEN NoWalk ELSE bcast[r]
    BY <1>0, DieStep
  <2> QED BY <2>1, <2>2, <2>3 DEF clientVars
<1>2. CASE r # q
  BY <1>0, <1>1, <1>2, StreamStays
<1>3. CASE r = q
  <2>1. conn'[r][c] = "none" /\ clients'[r] = <<>> /\ r \notin alive' /\ sent'[r][c] = sent[r][c]
    BY <1>1, <1>3
  <2> QED BY <1>0, <2>1 DEF StreamAt
<1> QED BY <1>2, <1>3

\* A session that joins has been sent nothing, and is behind the end of the loop.
LEMMA StreamJoinStep ==
  ASSUME TypeOK, WalksInv, StreamInv, NEW q \in Replicas, NEW d \in Clients, Join(q, d),
         NEW r \in Replicas, NEW c \in Clients
  PROVE  StreamAt(r, c)'
<1>0. StreamAt(r, c) /\ NetTypes /\ ServerTypes /\ Len(clients[r]) \in Nat /\ clients[r] \in Seq(Clients)
  BY TypeParts, WalkTypes DEF StreamInv
<1>1. /\ q \in alive /\ conn[q][d] = "waiting" /\ UNCHANGED <<dialled, applied, sent, bcast, alive>>
      /\ conn' = [conn EXCEPT ![q][d] = "joined"]
      /\ clients' = [clients EXCEPT ![q] = Append(clients[q], d)]
  BY DEF Join, Listening, clientVars, pipeVars, raftVars
<1>2. CASE r # q
  <2>1. conn'[r][c] = conn[r][c] /\ clients'[r] = clients[r]
    BY <1>0, <1>1, <1>2 DEF NetTypes, ServerTypes
  <2> QED BY <1>0, <1>1, <2>1, StreamStays
<1>3. CASE r = q
  <2> DEFINE m == Len(clients[r]) + 1
  <2>1. /\ DOMAIN clients[r] = 1..Len(clients[r]) /\ DOMAIN clients'[r] = 1..m
        /\ clients'[r][m] = d /\ \A p \in 1..Len(clients[r]) : clients'[r][p] = clients[r][p]
    BY <1>0, <1>1, <1>3 DEF ServerTypes
  <2>2. CASE c = d
    <3>1. conn[r][c] = "waiting" /\ conn'[r][c] = "joined"
      BY <1>0, <1>1, <1>3, <2>2 DEF NetTypes
    <3>2. (\A p \in 1..Len(clients[r]) : clients[r][p] # c) /\ sent[r][c] = <<>> /\ ~(dialled[c] < r)
      BY <1>0, <1>1, <1>3, <2>1, <3>1 DEF StreamAt
    <3>3. \A p \in DOMAIN clients'[r] : clients'[r][p] = c <=> p = m
      BY <1>0, <2>1, <2>2, <3>2
    <3>4. m \in DOMAIN clients'[r]
      BY <1>0, <2>1
    <3> HIDE DEF m
    <3> QED BY <1>0, <1>1, <3>1, <3>2, <3>3, <3>4 DEF StreamAt
  <2>3. CASE c # d
    <3>1. conn'[r][c] = conn[r][c]
      BY <1>0, <1>1, <2>3 DEF NetTypes
    <3>2. /\ \A p \in DOMAIN clients'[r] : clients'[r][p] = c <=> p \in DOMAIN clients[r] /\ clients[r][p] = c
          /\ DOMAIN clients[r] \subseteq DOMAIN clients'[r]
      BY <1>0, <2>1, <2>3
    <3>3. /\ sent'[r][c] = sent[r][c] /\ dialled'[c] = dialled[c] /\ applied'[r] = applied[r] /\ bcast'[r] = bcast[r]
          /\ (r \in alive' <=> r \in alive)
      BY <1>1
    <3>4. (\E p \in DOMAIN clients'[r] : clients'[r][p] = c) <=> (\E p \in DOMAIN clients[r] : clients[r][p] = c)
      BY <3>2
    <3>5. /\ \A i \in DOMAIN sent'[r][c] : sent'[r][c][i] = sent'[r][c][1] + i - 1
          /\ dialled'[c] < r => conn'[r][c] = "none"
          /\ (conn'[r][c] \in {"none", "waiting"} <=> ~\E p \in DOMAIN clients'[r] : clients'[r][p] = c)
          /\ r \in alive' /\ (~\E p \in DOMAIN clients'[r] : clients'[r][p] = c) => sent'[r][c] = <<>>
      BY <1>0, <3>1, <3>3, <3>4 DEF StreamAt
    <3>6. \A p \in DOMAIN clients'[r] : clients'[r][p] = c =>
            /\ \A x \in DOMAIN clients'[r] : clients'[r][x] = c => x = p
            /\ sent'[r][c] # <<>> =>
                 /\ sent'[r][c][Len(sent'[r][c])] = applied'[r] + (IF bcast'[r].at > p THEN 1 ELSE 0)
                 /\ bcast'[r].at # 0 => p <= bcast'[r].n
      BY <1>0, <3>2, <3>3 DEF StreamAt
    <3> QED BY <3>5, <3>6 DEF StreamAt
  <2> QED BY <2>2, <2>3
<1> QED BY <1>2, <1>3

\* The loop of Apply: each stream gets the entry when the loop comes to its place.
LEMMA StreamApplyStep ==
  ASSUME TypeOK, WalksInv, StreamInv, NEW q \in Replicas, ApplyBegin(q) \/ Send(q) \/ ApplyEnd(q),
         NEW r \in Replicas, NEW c \in Clients
  PROVE  StreamAt(r, c)'
<1>0. /\ StreamAt(r, c) /\ NetTypes /\ ServerTypes /\ Len(clients[r]) \in Nat /\ clients[r] \in Seq(Clients)
      /\ bcast[r] \in Walk /\ bcast[r].n <= Len(clients[r]) /\ applied[r] \in Nat
      /\ bcast[r].at \in Nat /\ bcast[r].n \in Nat
  BY TypeParts, WalkTypes DEF StreamInv, WalksInv, ServerTypes, Walk
<1>1. UNCHANGED <<dialled, conn, clients, alive>>
  BY DEF ApplyBegin, Send, ApplyEnd, clientVars, netVars, pipeVars, raftVars
<1>2. CASE r # q
  <2>1. sent'[r] = sent[r] /\ bcast'[r] = bcast[r] /\ applied'[r] = applied[r]
    BY <1>0, <1>2 DEF ApplyBegin, Send, ApplyEnd, ServerTypes
  <2> QED BY <1>0, <1>1, <1>2, <2>1, StreamStays
<1>3. CASE r = q /\ ApplyBegin(q)
  <2>1. bcast[r].at = 0 /\ bcast'[r].at = 1 /\ bcast'[r].n = Len(clients[r]) /\ applied' = applied /\ sent' = sent
    BY <1>0, <1>3 DEF ApplyBegin, ServerTypes, NoWalk
  <2> QED BY <1>0, <1>1, <2>1 DEF StreamAt
<1>4. CASE r = q /\ ApplyEnd(q)
  <2>1. /\ bcast[r].at > bcast[r].n /\ bcast'[r].at = 0 /\ applied'[r] = applied[r] + 1 /\ sent' = sent
    BY <1>0, <1>4 DEF ApplyEnd, ServerTypes, NoWalk
  <2>2. \A p \in DOMAIN clients[r] : p \in Nat /\ p >= 1
    BY <1>0
  <2> QED BY <1>0, <1>1, <2>1, <2>2 DEF StreamAt
<1>5. CASE r = q /\ Send(q)
  <2> DEFINE b == bcast[r].at
             d == clients[r][b]
             s == sent[r][c]
  <2>1. /\ b \in 1..bcast[r].n /\ b \in 1..Len(clients[r]) /\ d \in Clients
        /\ applied' = applied /\ bcast'[r].at = b + 1 /\ bcast'[r].n = bcast[r].n
        /\ sent'[r][c] = IF c = d THEN Append(s, applied[r] + 1) ELSE s
    <3>1. b \in 1..bcast[r].n /\ b \in 1..Len(clients[r])
      BY <1>0, <1>5 DEF Send, Sending
    <3>2. d \in Clients
      BY <3>1, WalkTypes
    <3>3. sent' = [sent EXCEPT ![r][d] = Append(sent[r][d], applied[r] + 1)] /\ applied' = applied
      BY <1>5 DEF Send, Turn
    <3>4. bcast'[r].at = b + 1 /\ bcast'[r].n = bcast[r].n
      BY <1>0, <1>5 DEF Send, ServerTypes, Walk
    <3> QED BY <1>0, <3>1, <3>2, <3>3, <3>4 DEF ServerTypes
  <2>2. s \in Seq(Nat) /\ Len(s) \in Nat /\ DOMAIN s = 1..Len(s) /\ DOMAIN clients[r] = 1..Len(clients[r])
    BY <1>0 DEF ServerTypes
  <2> HIDE DEF b, d, s
  <2>3. CASE c = d
    <3>0. \A p \in DOMAIN clients[r] : clients[r][p] = c => p = b
      BY <1>0, <2>1, <2>2, <2>3 DEF StreamAt, d
    <3>1. b \in DOMAIN clients[r] /\ clients[r][b] = c
      BY <2>1, <2>2, <2>3 DEF d
    <3>2. s # <<>> => s[Len(s)] = applied[r]
      <4>1. ~(bcast[r].at > b)
        BY <1>0 DEF b
      <4> QED BY <1>0, <3>1, <4>1 DEF StreamAt, s
    <3>3. \A i \in DOMAIN s : s[i] = s[1] + i - 1
      BY <1>0 DEF StreamAt, s
    <3> DEFINE t == Append(s, applied[r] + 1)
    <3>4. /\ Len(t) = Len(s) + 1 /\ DOMAIN t = 1..Len(s) + 1 /\ t[Len(s) + 1] = applied[r] + 1
          /\ \A i \in 1..Len(s) : t[i] = s[i]
      BY <1>0, <2>2
    <3> HIDE DEF t
    <3>5. \A i \in DOMAIN t : t[i] = t[1] + i - 1
      <4>1. CASE s = <<>>
        <5>1. DOMAIN t = {1} /\ t[1] = applied[r] + 1 /\ applied[r] + 1 \in Nat
          BY <1>0, <3>4, <4>1
        <5> QED BY <5>1
      <4>2. CASE s # <<>>
        <5>1. Len(s) >= 1 /\ t[1] = s[1] /\ applied[r] = s[1] + Len(s) - 1
          BY <2>2, <3>2, <3>3, <3>4, <4>2
        <5>2. \A i \in 1..Len(s) : t[i] = s[1] + i - 1
          BY <2>2, <3>3, <3>4
        <5>3. t[Len(s) + 1] = s[1] + (Len(s) + 1) - 1
          <6>1. s[1] \in Nat
            BY <2>2, <5>1
          <6> QED BY <2>2, <3>4, <5>1, <6>1
        <5>4. ASSUME NEW i \in DOMAIN t PROVE t[i] = t[1] + i - 1
          <6>1. i \in 1..Len(s) \/ i = Len(s) + 1
            BY <2>2, <3>4
          <6>2. CASE i \in 1..Len(s)
            BY <5>1, <5>2, <6>2
          <6>3. CASE i = Len(s) + 1
            BY <5>1, <5>3, <6>3
          <6> QED BY <6>1, <6>2, <6>3
        <5> QED BY <5>4
      <4> QED BY <4>1, <4>2
    <3>6. t[Len(t)] = applied[r] + 1
      BY <3>4
    <3>7. sent'[r][c] = t /\ b + 1 > b
      BY <2>1, <2>3 DEF t
    <3>8. (r \in alive' <=> r \in alive) /\ conn'[r][c] = conn[r][c] /\ dialled'[c] = dialled[c] /\ clients'[r] = clients[r]
      BY <1>1
    <3>9. \A p \in DOMAIN clients[r] : clients[r][p] = c =>
            /\ \A x \in DOMAIN clients[r] : clients[r][x] = c => x = p
            /\ bcast'[r].at > p /\ p <= bcast'[r].n
      BY <2>1, <3>0, <3>7
    <3> QED BY <1>0, <1>1, <2>1, <3>1, <3>5, <3>6, <3>7, <3>8, <3>9 DEF StreamAt
  <2>4. CASE c # d
    <3>1. \A p \in DOMAIN clients[r] : clients[r][p] = c => p # b
      BY <2>4 DEF d
    <3>2. \A p \in DOMAIN clients[r] : clients[r][p] = c => (bcast[r].at > p <=> bcast'[r].at > p)
      BY <1>0, <2>1, <2>2, <3>1 DEF b
    <3>3. sent'[r][c] = sent[r][c] /\ bcast[r].at # 0
      BY <2>1, <2>4 DEF s, b
    <3> QED BY <1>0, <1>1, <2>1, <3>2, <3>3 DEF StreamAt
  <2> QED BY <2>3, <2>4
<1> QED BY <1>2, <1>3, <1>4, <1>5

\* Shutdown closes the channels of a session of the list, which stays in it.
LEMMA StreamDisconnectStep ==
  ASSUME TypeOK, WalksInv, StreamInv, NEW q \in Replicas, Disconnect(q), NEW r \in Replicas, NEW c \in Clients
  PROVE  StreamAt(r, c)'
<1>0. /\ StreamAt(r, c) /\ NetTypes /\ ServerTypes /\ clients[q] \in Seq(Clients) /\ Len(clients[q]) \in Nat
      /\ shut[q] \in Walk /\ shut[q].n \in Nat /\ shut[q].n <= Len(clients[q])
  BY TypeParts, WalkTypes DEF StreamInv, WalksInv, Walk
<1> DEFINE d == clients[q][shut[q].at]
<1>1. UNCHANGED <<dialled, sent, clients, applied, bcast, alive>>
  BY DEF Disconnect, clientVars, pipeVars, raftVars
<1>2. shut[q].at \in DOMAIN clients[q] /\ d \in Clients
  <2>1. shut[q].at \in 1..shut[q].n
    BY DEF Disconnect
  <2>2. shut[q].at \in 1..Len(clients[q])
    BY <1>0, <2>1
  <2> QED BY <1>0, <2>2, WalkTypes
<1>3. \E x \in {"spilled", "closed"} : conn' = [conn EXCEPT ![q][d] = x]
  BY DEF Disconnect
<1> HIDE DEF d
<1>4. CASE ~(r = q /\ c = d)
  <2>1. conn'[r][c] = conn[r][c]
    BY <1>0, <1>2, <1>3, <1>4 DEF NetTypes
  <2> QED BY <1>0, <1>1, <2>1, StreamStays
<1>5. CASE r = q /\ c = d
  <2>1. conn'[r][c] \in {"spilled", "closed"}
    BY <1>0, <1>2, <1>3, <1>5 DEF NetTypes
  <2>2. \E p \in DOMAIN clients[r] : clients[r][p] = c
    BY <1>2, <1>5 DEF d
  <2>3. ~(dialled[c] < r)
    BY <1>0, <2>2 DEF StreamAt
  <2> QED BY <1>0, <1>1, <2>1, <2>2, <2>3 DEF StreamAt
<1> QED BY <1>4, <1>5

\* Every step keeps the streams as they should be.
LEMMA StreamStep == ASSUME TypeOK, WalksInv, StreamInv, [Next]_vars PROVE StreamInv'
<1> SUFFICES ASSUME NEW r \in Replicas, NEW c \in Clients PROVE StreamAt(r, c)'
  BY DEF StreamInv
<1>0. StreamAt(r, c)
  BY DEF StreamInv
<1>1. CASE UNCHANGED <<dialled, conn, clients, applied, bcast, sent, alive>>
  BY <1>0, <1>1, StreamStays
<1>2. ASSUME RaftNext PROVE UNCHANGED <<dialled, conn, clients, applied, bcast, sent>>
  BY <1>2, GroupTypes DEF clientVars, netVars, serverVars
<1>3. CASE RaftNext
  BY <1>0, <1>2, <1>3, AliveStays, StreamStays
<1>4. ASSUME NEW q \in Replicas, NEW d \in Clients,
             Propose(q, d) \/ ProposeBlank(q, d) \/ JoinStored(q) \/ ShutdownBegin(q)
      PROVE  UNCHANGED <<dialled, conn, clients, applied, bcast, sent, alive>>
  BY <1>4 DEF Propose, ProposeBlank, JoinStored, ShutdownBegin, PipeAccept,
              clientVars, netVars, serverVars, pipeVars, raftVars
<1>5. CASE UNCHANGED vars
  BY <1>1, <1>5 DEF vars, clientVars, netVars, serverVars, pipeVars, raftVars
<1>6. ASSUME NEW q \in Replicas, ServerNext(q) PROVE StreamAt(r, c)'
  <2>1. CASE JoinStored(q) \/ ShutdownBegin(q) \/ \E d \in Clients : Propose(q, d) \/ ProposeBlank(q, d)
    BY <1>1, <1>4, <2>1
  <2> QED BY <1>6, <2>1, StreamDieStep, StreamJoinStep, StreamApplyStep, StreamDisconnectStep DEF ServerNext, DieNext
<1> QED BY <1>3, <1>5, <1>6, StreamClientStep DEF Next

\* The streams' invariant: it holds in the empty room, and says more than the property.
LEMMA StreamsInductive ==
  /\ Init => StreamInv
  /\ TypeOK /\ StreamInv => StreamsHaveNoGaps
<1>1. ASSUME Init PROVE StreamInv
  <2>1. \A r \in Replicas, c \in Clients :
          sent[r][c] = <<>> /\ conn[r][c] = "none" /\ clients[r] = <<>>
    BY <1>1 DEF Init
  <2> QED BY <2>1 DEF StreamInv, StreamAt
<1>2. ASSUME TypeOK, StreamInv, NEW r \in Replicas, NEW c \in Clients,
             sent[r][c] # <<>>, conn[r][c] = "joined"
      PROVE  applied[r] <= sent[r][c][Len(sent[r][c])]
  <2>1. StreamAt(r, c) /\ applied[r] \in Nat
    BY <1>2, TypeParts DEF StreamInv, ServerTypes
  <2>2. PICK p \in DOMAIN clients[r] : clients[r][p] = c
    BY <1>2, <2>1 DEF StreamAt
  <2>3. sent[r][c][Len(sent[r][c])] = applied[r] + (IF bcast[r].at > p THEN 1 ELSE 0)
    BY <1>2, <2>1, <2>2 DEF StreamAt
  <2> QED BY <2>1, <2>3
<1> QED BY <1>1, <1>2 DEF StreamsHaveNoGaps, StreamInv, StreamAt

(***************************************************************************)
(* What a server sends a client is consecutive, and as far as the server   *)
(* has applied, whatever joins, disconnects and deaths happen while Apply  *)
(* walks its copy of the list.                                             *)
(***************************************************************************)
THEOREM StreamsAreComplete == Spec => []StreamsHaveNoGaps
<1>1. Spec => [](TypeOK /\ WalksInv /\ StreamInv)
  BY TypesInductive, StreamStep, StreamsInductive, PTL DEF Spec
<1>2. TypeOK /\ WalksInv /\ StreamInv => StreamsHaveNoGaps
  BY StreamsInductive
<1> QED BY <1>1, <1>2, PTL

-----------------------------------------------------------------------------
(* The lines on their way to the log. *)

\* The numbers of the lines that c has written to r.
WrittenTo(r, c) == {n \in Nat \ {0} : n < num[c] \/ (n = num[c] /\ pos[c] \notin 1..r)}

Increasing == {p \in Entry \X Entry : p[1].num < p[2].num}

\* What waits between c and r's Listen: lines that c has written to r, in their order.
UpQueue(r, c) ==
  /\ \A i \in DOMAIN up[r][c] :
       LET e == up[r][c][i] IN e.from = c /\ e.by = r /\ e.num \in WrittenTo(r, c)
  /\ InOrder(up[r][c], Increasing)

UpQueues ==
  /\ \A r \in Replicas, c \in Clients : UpQueue(r, c)
  /\ \A c \in Clients : pos[c] # 0 => num[c] # 0

\* Shutdown has closed c's channels at r, or r is gone: no line will come any more.
Over(r, c) ==
  up[r][c] = <<>> /\ conn[r][c] \notin {"waiting", "joined"} /\ (conn[r][c] = "none" => r \notin alive)

(***************************************************************************)
(* The entries that Listen may have taken: a line before all that wait, or *)
(* an empty one of a session that is over.                                 *)
(***************************************************************************)
Taken ==
  {e \in Entry :
     \/ e.num = 0 /\ Over(e.by, e.from)
     \/ /\ e.num \in WrittenTo(e.by, e.from)
        /\ \A i \in DOMAIN up[e.by][e.from] : e.num < up[e.by][e.from][i].num}

\* What may commit before what: another proposer's, another client's, or a line and later ones.
BySession ==
  {p \in Entry \X Entry : p[1].by = p[2].by /\ p[1].from = p[2].from /\ p[2].num # 0
                            => p[1].num # 0 /\ p[1].num < p[2].num}

\* What a queue may become.
LEMMA UpStep ==
  ASSUME TypeOK, WalksInv, [Next]_vars, NEW r \in Replicas, NEW c \in Clients
  PROVE  \/ up'[r][c] = up[r][c]
         \/ \E k \in Nat : up'[r][c] = UpTo(up[r][c], k)
         \/ up[r][c] # <<>> /\ up'[r][c] = Tail(up[r][c])
         \/ /\ up'[r][c] = Append(up[r][c], [from |-> c, num |-> num[c], by |-> r])
            /\ pos[c] = r /\ conn[r][c] \in {"waiting", "joined"}
            /\ num'[c] = num[c] /\ pos'[c] \notin 1..r
<1> DEFINE Goal ==
      \/ up'[r][c] = up[r][c]
      \/ \E k \in Nat : up'[r][c] = UpTo(up[r][c], k)
      \/ up[r][c] # <<>> /\ up'[r][c] = Tail(up[r][c])
      \/ /\ up'[r][c] = Append(up[r][c], [from |-> c, num |-> num[c], by |-> r])
         /\ pos[c] = r /\ conn[r][c] \in {"waiting", "joined"}
         /\ num'[c] = num[c] /\ pos'[c] \notin 1..r
<1>0. /\ NetTypes /\ ClientTypes /\ ServerTypes /\ N \in Nat \ {0} /\ Replicas = 1..N
      /\ left \in SUBSET Clients /\ up[r][c] \in Seq(Entry)
  BY TypeParts, ClusterAssumption DEF ClusterAssumption, Replicas, ClientTypes, NetTypes
<1>1. ASSUME UNCHANGED up PROVE Goal
  BY <1>1
<1>2. ASSUME NEW d \in Clients, DialFails(d) \/ Leave(d) PROVE Goal
  <2>1. HangUp(d)
    BY <1>2 DEF DialFails, Leave
  <2>2. \A s \in Replicas, e \in Clients :
          /\ \E k \in Nat : up'[s][e] = IF e = d THEN UpTo(up[s][e], k) ELSE up[s][e]
          /\ down'[s][e] = IF e = d THEN <<>> ELSE down[s][e]
    BY <1>0, <2>1, HangUpStep
  <2>3. PICK k \in Nat : up'[r][c] = IF c = d THEN UpTo(up[r][c], k) ELSE up[r][c]
    BY <2>2
  <2> QED BY <2>3
<1>3. ASSUME NEW d \in Clients, Write(d) PROVE Goal
  <2>1. /\ pos[d] \in Replicas /\ num' = num
        /\ pos' = [pos EXCEPT ![d] = IF pos[d] = N THEN 0 ELSE pos[d] + 1]
        /\ up' = IF conn[pos[d]][d] \in {"waiting", "joined"}
                 THEN [up EXCEPT ![pos[d]][d] = Append(up[pos[d]][d], [from |-> d, num |-> num[d], by |-> pos[d]])]
                 ELSE up
    BY <1>0, <1>3 DEF Write, ClientTypes
  <2>2. CASE d = c /\ pos[d] = r /\ conn[r][c] \in {"waiting", "joined"}
    <3>1. up'[r][c] = Append(up[r][c], [from |-> c, num |-> num[c], by |-> r])
      BY <1>0, <2>1, <2>2 DEF NetTypes
    <3>2. pos'[c] = IF r = N THEN 0 ELSE r + 1
      BY <1>0, <2>1, <2>2 DEF ClientTypes
    <3>3. pos'[c] \notin 1..r
      BY <1>0, <3>2
    <3> QED BY <2>1, <2>2, <3>1, <3>3
  <2>3. CASE ~(d = c /\ pos[d] = r /\ conn[r][c] \in {"waiting", "joined"})
    <3>1. up'[r][c] = up[r][c]
      BY <1>0, <2>1, <2>3 DEF NetTypes
    <3> QED BY <3>1
  <2> QED BY <2>2, <2>3
<1>4. ASSUME NEW d \in Clients, ClientNext(d), ~(DialFails(d) \/ Leave(d) \/ Write(d)) PROVE UNCHANGED up
  BY <1>4 DEF ClientNext, Dial, Type, WriteFails, Consume, netVars
<1>5. ASSUME RaftNext PROVE UNCHANGED up
  BY <1>5, GroupTypes DEF netVars
<1>6. ASSUME NEW q \in Replicas, DieNext(q) PROVE Goal
  <2>1. up'[r][c] = IF r = q THEN <<>> ELSE up[r][c]
    BY <1>0, <1>6, DieTypes, DieStep
  <2>2. <<>> = UpTo(up[r][c], 0)
    BY <1>0, UpToProperties DEF UpTo
  <2> QED BY <2>1, <2>2
<1>7. ASSUME NEW q \in Replicas, NEW d \in Clients, Propose(q, d) PROVE Goal
  <2>1. up[q][d] # <<>> /\ up' = [up EXCEPT ![q][d] = Tail(up[q][d])]
    BY <1>7 DEF Propose
  <2> QED BY <1>0, <2>1 DEF NetTypes
<1>8. ASSUME NEW q \in Replicas, Disconnect(q) PROVE Goal
  <2> DEFINE d == clients[q][shut[q].at]
  <2>1. PICK k \in 0..1 : up' = [up EXCEPT ![q][d] = UpTo(up[q][d], k)]
    BY <1>8 DEF Disconnect
  <2> HIDE DEF d
  <2>2. up'[r][c] = UpTo(up[r][c], k) \/ up'[r][c] = up[r][c]
    BY <1>0, <2>1 DEF NetTypes
  <2> QED BY <2>2
<1>9. ASSUME NEW q \in Replicas, \/ \E d \in Clients : Join(q, d) \/ ProposeBlank(q, d)
                                 \/ JoinStored(q) \/ ApplyBegin(q) \/ Send(q) \/ ApplyEnd(q) \/ ShutdownBegin(q)
      PROVE  UNCHANGED up
  BY <1>9 DEF Join, ProposeBlank, JoinStored, ApplyBegin, Send, ApplyEnd, ShutdownBegin, netVars
<1>10. ASSUME UNCHANGED vars PROVE UNCHANGED up
  BY <1>10 DEF vars, netVars
<1>11. ASSUME NEW q \in Replicas, ServerNext(q) PROVE Goal
  BY <1>1, <1>6, <1>7, <1>8, <1>9, <1>11 DEF ServerNext, DieNext
<1>12. ASSUME NEW d \in Clients, ClientNext(d) PROVE Goal
  BY <1>1, <1>2, <1>3, <1>4, <1>12
<1> QED BY <1>1, <1>5, <1>10, <1>11, <1>12 DEF Next

\* What is written stays written, and a user who writes has typed a line.
LEMMA WrittenStays ==
  ASSUME TypeOK, UpQueues, [Next]_vars, NEW c \in Clients
  PROVE  /\ \A r \in Replicas : WrittenTo(r, c) \subseteq WrittenTo(r, c)'
         /\ pos'[c] # 0 => num'[c] # 0
<1>0. num[c] \in Nat /\ pos[c] \in 0..N /\ N \in Nat /\ Replicas = 1..N /\ (pos[c] # 0 => num[c] # 0) /\ ClientTypes
  BY TypeParts, ClusterAssumption DEF ClusterAssumption, Replicas, ClientTypes, UpQueues
<1>1. CASE num'[c] = num[c] /\ (pos'[c] \in {pos[c], 0} \/ (pos[c] # 0 /\ pos'[c] = pos[c] + 1))
  <2>1. \A r \in Replicas : pos[c] \notin 1..r => pos'[c] \notin 1..r
    BY <1>0, <1>1
  <2> QED BY <1>0, <1>1, <2>1 DEF WrittenTo
<1>2. CASE num'[c] = num[c] + 1
  BY <1>0, <1>2 DEF WrittenTo
<1>3. ASSUME NEW d \in Clients, ClientNext(d)
      PROVE  \/ num'[c] = num[c] + 1
             \/ num'[c] = num[c] /\ (pos'[c] \in {pos[c], 0} \/ (pos[c] # 0 /\ pos'[c] = pos[c] + 1))
  <2>1. CASE Type(d)
    BY <1>0, <2>1 DEF Type, ClientTypes
  <2>2. CASE Write(d)
    BY <1>0, <2>2 DEF Write, ClientTypes
  <2>3. CASE WriteFails(d)
    BY <1>0, <2>3 DEF WriteFails, ClientTypes
  <2>4. CASE Dial(d) \/ DialFails(d) \/ Leave(d) \/ \E r \in Replicas : Consume(d, r)
    BY <2>4 DEF Dial, DialFails, Leave, Consume
  <2> QED BY <1>3, <2>1, <2>2, <2>3, <2>4 DEF ClientNext
<1>4. ASSUME NEW q \in Replicas, ServerNext(q) PROVE UNCHANGED clientVars
  <2>1. ASSUME DieNext(q) PROVE UNCHANGED clientVars
    BY <2>1, DieTypes DEF Die
  <2> QED BY <1>4, <2>1 DEF ServerNext, DieNext, Join, Propose, ProposeBlank, JoinStored, ApplyBegin, Send,
                           ApplyEnd, ShutdownBegin, Disconnect
<1>5. ASSUME RaftNext PROVE UNCHANGED clientVars
  BY <1>5, GroupTypes
<1>6. ASSUME UNCHANGED clientVars PROVE num'[c] = num[c] /\ pos'[c] = pos[c]
  BY <1>6 DEF clientVars
<1>7. ASSUME UNCHANGED vars PROVE UNCHANGED clientVars
  BY <1>7 DEF vars
<1> QED BY <1>1, <1>2, <1>3, <1>4, <1>5, <1>6, <1>7 DEF Next

\* The queues keep their order.
LEMMA UpQueuesStep ==
  ASSUME TypeOK, WalksInv, UpQueues, [Next]_vars
  PROVE  UpQueues'
<1> SUFFICES ASSUME NEW r \in Replicas, NEW c \in Clients PROVE UpQueue(r, c)'
  BY WrittenStays DEF UpQueues
<1> DEFINE q == up[r][c]
           p == up'[r][c]
           Good(e) == e.from = c /\ e.by = r /\ e.num \in WrittenTo(r, c)'
<1>0. q \in Seq(Entry) /\ UpQueue(r, c) /\ NetTypes /\ ClientTypes
  BY TypeParts DEF NetTypes, UpQueues
<1>1. \A i \in DOMAIN q : q[i] \in Entry /\ Good(q[i])
  <2>1. \A i \in DOMAIN q : q[i] \in Entry
    BY <1>0, ElementOfSeq
  <2> QED BY <1>0, <2>1, WrittenStays DEF UpQueue
<1>2. InOrder(q, Increasing)
  BY <1>0 DEF UpQueue
<1>3. ASSUME \A i \in DOMAIN p : Good(p[i]), InOrder(p, Increasing) PROVE UpQueue(r, c)'
  BY <1>3 DEF UpQueue, InOrder, Increasing
<1>4. CASE p = q
  BY <1>1, <1>2, <1>3, <1>4
<1>5. ASSUME NEW k \in Nat, p = UpTo(q, k) PROVE UpQueue(r, c)'
  <2>1. \A i \in DOMAIN p : i \in DOMAIN q /\ p[i] = q[i]
    BY <1>0, <1>5, UpToProperties
  <2>2. InOrder(p, Increasing)
    BY <1>2, <2>1 DEF InOrder
  <2> QED BY <1>1, <1>3, <2>1, <2>2
<1>6. CASE q # <<>> /\ p = Tail(q)
  <2>1. \A i \in DOMAIN p : i + 1 \in DOMAIN q /\ p[i] = q[i + 1]
    BY <1>0, <1>6, TailElements
  <2>2. \A i, j \in DOMAIN p : i < j => i + 1 < j + 1
    BY <1>0, <1>6
  <2>3. InOrder(p, Increasing)
    BY <1>2, <2>1, <2>2 DEF InOrder
  <2> QED BY <1>1, <1>3, <2>1, <2>3
<1>7. CASE /\ p = Append(q, [from |-> c, num |-> num[c], by |-> r]) /\ pos[c] = r
           /\ num'[c] = num[c] /\ pos'[c] \notin 1..r
  <2> DEFINE e == [from |-> c, num |-> num[c], by |-> r]
  <2>1. num[c] \in Nat \ {0} /\ r # 0 /\ r \in 1..r
    BY <1>0, <1>7, ClusterAssumption DEF ClientTypes, UpQueues, Replicas, ClusterAssumption
  <2>2. e \in Entry /\ Good(e)
    BY <1>7, <2>1 DEF Entry, WrittenTo
  <2>3. \A n \in WrittenTo(r, c) : n < num[c]
    BY <1>7, <2>1 DEF WrittenTo
  <2>4. \A i \in DOMAIN q : <<q[i], e>> \in Increasing
    BY <1>0, <1>1, <2>2, <2>3 DEF Increasing, UpQueue
  <2> HIDE DEF e
  <2>5. <<e>> \in Seq(Entry) /\ Append(q, e) = q \o <<e>>
    BY <1>0, <2>2, AppendIsConcat
  <2>6. InOrder(p, Increasing)
    <3>1. InOrder(<<e>>, Increasing) /\ Follows(q, <<e>>, Increasing)
      BY <2>4, SingleOrder
    <3>2. InOrder(q \o <<e>>, Increasing)
      BY <1>0, <1>2, <2>5, <3>1, ConcatInOrder
    <3> QED BY <1>7, <2>5, <3>2 DEF e
  <2>7. \A i \in DOMAIN p : (i \in DOMAIN q /\ p[i] = q[i]) \/ p[i] = e
    BY <1>0, <1>7, <2>2 DEF e
  <2>8. \A i \in DOMAIN p : Good(p[i])
    BY <1>1, <2>2, <2>7
  <2> QED BY <1>3, <2>6, <2>8
<1> HIDE DEF p, q
<1>8. UpQueue(r, c)'
  BY <1>4, <1>5, <1>6, <1>7, UpStep DEF p, q
<1> QED BY <1>8

\* A session that is over stays over.
LEMMA OverStays ==
  ASSUME TypeOK, WalksInv, StreamInv, [Next]_vars, NEW r \in Replicas, NEW c \in Clients, Over(r, c)
  PROVE  Over(r, c)'
<1>0. /\ NetTypes /\ ClientTypes /\ ServerTypes /\ StreamAt(r, c) /\ up[r][c] = <<>> /\ N \in Nat \ {0} /\ Replicas = 1..N
      /\ conn[r][c] \in {"none", "closed", "spilled"} /\ (conn[r][c] = "none" => r \notin alive)
  BY TypeParts, ClusterAssumption DEF Over, NetTypes, Conn, StreamInv, ClusterAssumption, Replicas
<1>1. up'[r][c] = <<>>
  <2>1. ASSUME NEW k \in Nat PROVE UpTo(up[r][c], k) = <<>>
    <3>1. up[r][c] \in Seq(Entry) /\ Len(up[r][c]) = 0
      BY <1>0
    <3>2. UpTo(up[r][c], k) \in Seq(Entry) /\ Len(UpTo(up[r][c], k)) = IF k < 0 THEN k ELSE 0
      BY <3>1, UpToProperties
    <3> QED BY <3>2
  <2>2. \/ up'[r][c] = up[r][c]
        \/ \E k \in Nat : up'[r][c] = UpTo(up[r][c], k)
    BY <1>0, UpStep
  <2> QED BY <1>0, <2>1, <2>2
<1>2. CASE conn'[r][c] = conn[r][c]
  BY <1>0, <1>1, <1>2, AliveStays DEF Over
<1>3. CASE conn'[r][c] \in {"closed", "spilled"}
  BY <1>1, <1>3 DEF Over
<1>4. ASSUME NEW d \in Clients, ClientNext(d) PROVE conn'[r][c] = conn[r][c] \/ conn'[r][c] = "spilled"
  <2>1. CASE Dial(d)
    <3>1. dialled[d] + 1 \in alive /\ dialled[d] \in Nat /\ conn' = [conn EXCEPT ![dialled[d] + 1][d] = "waiting"]
      BY <1>0, <2>1 DEF Dial, ClientTypes
    <3>2. r = dialled[d] + 1 /\ c = d => conn[r][c] = "none" /\ r \in alive
      BY <1>0, <3>1 DEF StreamAt
    <3>3. ~(r = dialled[d] + 1 /\ c = d)
      BY <1>0, <3>2
    <3> QED BY <1>0, <3>1, <3>3 DEF NetTypes
  <2>2. CASE Write(d)
    BY <1>0, <2>2 DEF Write, NetTypes
  <2>3. CASE DialFails(d) \/ Type(d) \/ WriteFails(d) \/ Leave(d) \/ \E q \in Replicas : Consume(d, q)
    BY <2>3 DEF DialFails, Type, WriteFails, Leave, Consume, netVars
  <2> QED BY <1>4, <2>1, <2>2, <2>3 DEF ClientNext
<1>5. ASSUME NEW q \in Replicas, ServerNext(q) PROVE Over(r, c)'
  <2>1. CASE DieNext(q)
    <3>1. conn'[r][c] = (IF r = q THEN "none" ELSE conn[r][c]) /\ alive' = alive \ {q}
      <4>1. Die(q)
        BY <2>1, DieTypes
      <4>2. conn'[r][c] = IF r = q THEN "none" ELSE conn[r][c]
        BY <1>0, <4>1, DieStep
      <4> QED BY <4>1, <4>2 DEF Die, PipeDie, RaftDie
    <3>2. CASE r = q
      BY <1>1, <3>1, <3>2 DEF Over
    <3> QED BY <1>2, <3>1, <3>2
  <2>2. ASSUME NEW d \in Clients, Join(q, d) PROVE conn'[r][c] = conn[r][c]
    BY <1>0, <2>2 DEF Join, NetTypes
  <2>3. CASE Disconnect(q)
    <3>1. PICK x \in {"spilled", "closed"} : conn' = [conn EXCEPT ![q][clients[q][shut[q].at]] = x]
      BY <2>3 DEF Disconnect
    <3>2. conn'[r][c] = conn[r][c] \/ conn'[r][c] = x
      BY <1>0, <3>1 DEF NetTypes
    <3> QED BY <1>2, <1>3, <3>2
  <2>4. CASE \/ \E d \in Clients : Propose(q, d) \/ ProposeBlank(q, d)
             \/ JoinStored(q) \/ ApplyBegin(q) \/ Send(q) \/ ApplyEnd(q) \/ ShutdownBegin(q)
    <3>1. conn' = conn
      BY <2>4 DEF Propose, ProposeBlank, JoinStored, ApplyBegin, Send, ApplyEnd, ShutdownBegin, netVars
    <3> QED BY <1>2, <3>1
  <2> QED BY <1>2, <1>5, <2>1, <2>2, <2>3, <2>4 DEF ServerNext, DieNext
<1>6. ASSUME RaftNext PROVE conn' = conn
  BY <1>6, GroupTypes DEF netVars
<1>7. ASSUME UNCHANGED vars PROVE conn' = conn
  BY <1>7 DEF vars, netVars
<1> QED BY <1>2, <1>3, <1>4, <1>5, <1>6, <1>7 DEF Next

\* What was before all that wait stays so.
LEMMA TakenStays ==
  ASSUME TypeOK, WalksInv, StreamInv, UpQueues, [Next]_vars, NEW e \in Taken
  PROVE  e \in Taken'
<1> DEFINE r == e.by
           c == e.from
<1>0. e \in Entry /\ r \in Replicas /\ c \in Clients /\ up[r][c] \in Seq(Entry)
  <2>1. e \in Entry /\ e.by \in Replicas /\ e.from \in Clients
    BY DEF Taken, Entry
  <2> QED BY <2>1, TypeParts DEF NetTypes
<1>1. CASE e.num = 0 /\ Over(r, c)
  <2>1. PICK s \in Replicas, d \in Clients : s = r /\ d = c
    BY <1>0
  <2>2. Over(s, d)'
    BY <1>1, <2>1, OverStays
  <2> QED BY <1>0, <1>1, <2>1, <2>2 DEF Taken, Over
<1>2. CASE e.num \in WrittenTo(r, c) /\ \A i \in DOMAIN up[r][c] : e.num < up[r][c][i].num
  <2>1. e.num \in WrittenTo(r, c)'
    <3>1. PICK s \in Replicas, d \in Clients : s = r /\ d = c
      BY <1>0
    <3>2. WrittenTo(s, d) \subseteq WrittenTo(s, d)'
      BY WrittenStays
    <3> QED BY <1>2, <3>1, <3>2 DEF WrittenTo
  <2>2. \A i \in DOMAIN up'[r][c] : e.num < up'[r][c][i].num
    <3> HIDE DEF r, c
    <3>1. CASE up'[r][c] = up[r][c]
      BY <1>2, <3>1
    <3>2. ASSUME NEW k \in Nat, up'[r][c] = UpTo(up[r][c], k)
          PROVE  \A i \in DOMAIN up'[r][c] : e.num < up'[r][c][i].num
      BY <1>0, <1>2, <3>2, UpToProperties
    <3>3. CASE up[r][c] # <<>> /\ up'[r][c] = Tail(up[r][c])
      BY <1>0, <1>2, <3>3, TailElements
    <3>4. CASE up'[r][c] = Append(up[r][c], [from |-> c, num |-> num[c], by |-> r]) /\ pos[c] = r
      <4>1. e.num < num[c]
        <5>1. r \in 1..r
          BY <1>0, ClusterAssumption DEF Replicas, ClusterAssumption
        <5> QED BY <1>2, <3>4, <5>1 DEF WrittenTo
      <4>2. \A i \in DOMAIN up'[r][c] : up'[r][c][i].num = num[c] \/ (i \in DOMAIN up[r][c] /\ up'[r][c][i] = up[r][c][i])
        BY <1>0, <3>4
      <4> QED BY <1>2, <4>1, <4>2
    <3> QED BY <1>0, <3>1, <3>2, <3>3, <3>4, UpStep
  <2> QED BY <1>0, <2>1, <2>2 DEF Taken, r, c
<1> QED BY <1>1, <1>2 DEF Taken

\* The line that Listen takes is after all that this server has taken of its client.
LEMMA NextLineIsLater ==
  ASSUME TypeOK, WalksInv, UpQueues, [Next]_vars, NEW r \in Replicas, NEW c \in Clients, Propose(r, c)
  PROVE  LET e == Head(up[r][c]) IN
         /\ e \in Entry /\ e \in Taken' /\ \A s \in Seq(Taken) : Follows(s, <<e>>, BySession)
<1> DEFINE q == up[r][c]
           e == Head(q)
<1>0. /\ q \in Seq(Entry) /\ q # <<>> /\ UpQueue(r, c) /\ up' = [up EXCEPT ![r][c] = Tail(q)]
      /\ up \in [Replicas -> [Clients -> Seq(Entry)]]
  BY TypeParts DEF Propose, NetTypes, UpQueues
<1>1. /\ 1 \in DOMAIN q /\ q[1] = e /\ e \in Entry
      /\ \A i \in DOMAIN Tail(q) : i + 1 \in DOMAIN q /\ Tail(q)[i] = q[i + 1] /\ 1 < i + 1
  BY <1>0, TailElements
<1>2. e.from = c /\ e.by = r /\ e.num \in WrittenTo(r, c) /\ e.num # 0
  BY <1>0, <1>1 DEF UpQueue, WrittenTo
<1>3. \A i \in DOMAIN Tail(q) : e.num < Tail(q)[i].num
  BY <1>0, <1>1 DEF UpQueue, InOrder, Increasing
<1>4. up'[r][c] = Tail(q)
  BY <1>0
<1> HIDE DEF e, q
<1>5. e \in Taken'
  <2>1. e.num \in WrittenTo(r, c)'
    BY <1>2, WrittenStays
  <2>2. \A i \in DOMAIN up'[r][c] : e.num < up'[r][c][i].num
    BY <1>3, <1>4
  <2> QED BY <1>1, <1>2, <2>1, <2>2 DEF Taken, WrittenTo
<1>6. ASSUME NEW s \in Seq(Taken) PROVE Follows(s, <<e>>, BySession)
  <2>1. ASSUME NEW i \in DOMAIN s PROVE <<s[i], e>> \in BySession
    <3>1. s[i] \in Taken
      BY ElementOfSeq
    <3>2. s[i].by = r /\ s[i].from = c => s[i].num # 0 /\ s[i].num < e.num
      BY <1>0, <1>1, <3>1 DEF Taken, Over, WrittenTo, q
    <3>3. s[i] \in Entry
      BY <3>1 DEF Taken
    <3> QED BY <1>1, <1>2, <3>2, <3>3 DEF BySession
  <2> QED BY <2>1, SingleOrder
<1> QED BY <1>1, <1>5, <1>6 DEF e, q

\* An empty line of a session that is over may come after anything.
LEMMA BlankIsLast ==
  ASSUME TypeOK, WalksInv, StreamInv, [Next]_vars, NEW r \in Replicas, NEW c \in Clients, ProposeBlank(r, c)
  PROVE  LET e == [from |-> c, num |-> 0, by |-> r] IN
         /\ e \in Entry /\ e \in Taken' /\ \A s \in Seq(Taken) : Follows(s, <<e>>, BySession)
<1> DEFINE e == [from |-> c, num |-> 0, by |-> r]
<1>1. e \in Entry
  BY DEF Entry
<1>2. Over(r, c)
  BY DEF ProposeBlank, Over
<1>3. Over(r, c)'
  BY <1>2, OverStays
<1>4. e \in Taken'
  BY <1>1, <1>3 DEF Taken, Over
<1>5. ASSUME NEW s \in Seq(Taken) PROVE Follows(s, <<e>>, BySession)
  <2>1. ASSUME NEW i \in DOMAIN s PROVE <<s[i], e>> \in BySession
    <3>1. s[i] \in Entry
      BY ElementOfSeq DEF Taken
    <3> QED BY <1>1, <3>1 DEF BySession
  <2> QED BY <2>1, SingleOrder
<1> QED BY <1>1, <1>4, <1>5

-----------------------------------------------------------------------------
(* The group. *)

\* The group's part of a step.
LEMMA GroupStep ==
  ASSUME TypeOK, [Next]_vars
  PROVE  \/ UNCHANGED pipeVars
         \/ PipeStep
         \/ \E r \in Replicas, c \in Clients :
              \/ Propose(r, c) /\ r \in believers /\ PipeAccept(r, Head(up[r][c]))
              \/ ProposeBlank(r, c) /\ r \in believers /\ PipeAccept(r, [from |-> c, num |-> 0, by |-> r])
<1>1. ASSUME NEW c \in Clients, ClientNext(c) PROVE UNCHANGED pipeVars
  BY <1>1 DEF ClientNext, Dial, DialFails, Type, Write, WriteFails, Consume, Leave
<1>2. ASSUME RaftNext PROVE PipeStep
  BY <1>2, GroupTypes
<1>3. ASSUME NEW r \in Replicas, DieNext(r) PROVE PipeStep
  BY <1>3, DieTypes DEF Die, PipeStep
<1>4. ASSUME NEW r \in Replicas, NEW c \in Clients, Propose(r, c)
      PROVE  UNCHANGED pipeVars \/ (r \in believers /\ PipeAccept(r, Head(up[r][c])))
  BY <1>4 DEF Propose
<1>5. ASSUME NEW r \in Replicas, NEW c \in Clients, ProposeBlank(r, c)
      PROVE  r \in believers /\ PipeAccept(r, [from |-> c, num |-> 0, by |-> r])
  BY <1>5 DEF ProposeBlank
<1>6. ASSUME NEW r \in Replicas, \/ \E c \in Clients : Join(r, c)
                                 \/ JoinStored(r) \/ ApplyBegin(r) \/ Send(r) \/ ApplyEnd(r)
                                 \/ ShutdownBegin(r) \/ Disconnect(r)
      PROVE  UNCHANGED pipeVars
  BY <1>6 DEF Join, JoinStored, ApplyBegin, Send, ApplyEnd, ShutdownBegin, Disconnect
<1>7. ASSUME UNCHANGED vars PROVE UNCHANGED pipeVars
  BY <1>7 DEF vars
<1> QED BY <1>1, <1>2, <1>3, <1>4, <1>5, <1>6, <1>7 DEF Next, ServerNext, DieNext

\* All that the group has was taken, and can only commit in the order of its session.
SessionInv == UpQueues /\ PipeTypeOK(Taken) /\ PipeSane /\ PipeOrdered(BySession)

\* Every step keeps it so.
LEMMA SessionStep ==
  ASSUME TypeOK, WalksInv, StreamInv, SessionInv, [Next]_vars
  PROVE  SessionInv'
<1>0. UpQueues' /\ PipeTypeOK(Entry) /\ PipeSane /\ PipeOrdered(BySession) /\ PipeTypeOK(Taken) /\ Live \in Seq(Taken)
  BY UpQueuesStep, TypeParts, OrphansType DEF SessionInv
<1>1. ASSUME NEW D, Taken \subseteq D, Taken' \subseteq D, D \subseteq Taken', PipeTypeOK(D)' PROVE PipeTypeOK(Taken)'
  <2>1. D = Taken'
    BY <1>1
  <2> QED BY <1>1, <2>1 DEF PipeTypeOK, RaftTypeOK
<1>2. PICK D : D = Taken'
  OBVIOUS
<1>3. Taken \subseteq D
  BY <1>2, TakenStays DEF SessionInv
<1>4. PipeTypeOK(D)
  <2>1. PICK C : C = Taken
    OBVIOUS
  <2>2. Seq(C) \subseteq Seq(D)
    BY <1>3, <2>1, SeqMonotonic
  <2>3. Seq(Taken) \subseteq Seq(D)
    BY <2>1, <2>2
  <2> QED BY <1>0, <2>3 DEF PipeTypeOK, RaftTypeOK
<1>5. ASSUME PipeTypeOK(D)', PipeSane', PipeOrdered(BySession)' PROVE SessionInv'
  BY <1>0, <1>1, <1>2, <1>3, <1>5 DEF SessionInv
<1>6. CASE UNCHANGED pipeVars
  <2>1. PipeTypeOK(D)' /\ PipeSane' /\ PipeOrdered(BySession)'
    BY <1>0, <1>4, <1>6 DEF pipeVars, raftVars, PipeTypeOK, RaftTypeOK, PipeSane, PipeOrdered, Live
  <2> QED BY <1>5, <2>1
<1>7. CASE PipeStep
  <2>1. PipeTypeOK(D)' /\ PipeSane' /\ PipeOrdered(BySession)'
    BY <1>0, <1>4, <1>7, PipeStepType, PipeStepSane, PipeStepOrdered
  <2> QED BY <1>5, <2>1
<1>8. ASSUME NEW r \in Replicas, r \in believers, NEW e \in Entry, e \in D, PipeAccept(r, e),
             \A s \in Seq(Taken) : Follows(s, <<e>>, BySession)
      PROVE  SessionInv'
  <2>1. PipeTypeOK(D)'
    BY <1>4, <1>8, PipeAcceptType
  <2>2. PipeSane'
    BY <1>0, <1>8, PipeAcceptSane
  <2>3. log \in Seq(Taken) /\ limbo \in Seq(Taken)
    BY <1>0 DEF PipeTypeOK, RaftTypeOK
  <2>4. PipeOrdered(BySession)'
    BY <1>0, <1>8, <2>3, PipeAcceptOrdered
  <2> QED BY <1>5, <2>1, <2>2, <2>4
<1>9. ASSUME NEW r \in Replicas, NEW c \in Clients, r \in believers,
             \/ Propose(r, c) /\ PipeAccept(r, Head(up[r][c]))
             \/ ProposeBlank(r, c) /\ PipeAccept(r, [from |-> c, num |-> 0, by |-> r])
      PROVE  SessionInv'
  <2>1. CASE Propose(r, c) /\ PipeAccept(r, Head(up[r][c]))
    BY <1>2, <1>8, <1>9, <2>1, NextLineIsLater DEF SessionInv
  <2>2. CASE ProposeBlank(r, c) /\ PipeAccept(r, [from |-> c, num |-> 0, by |-> r])
    BY <1>2, <1>8, <1>9, <2>2, BlankIsLast
  <2> QED BY <1>9, <2>1, <2>2
<1> QED BY <1>6, <1>7, <1>9, GroupStep

\* At the start nothing is on its way.
LEMMA SessionInit == Init => SessionInv
<1> SUFFICES ASSUME Init PROVE SessionInv
  OBVIOUS
<1>1. UpQueues
  <2>1. (\A r \in Replicas, c \in Clients : up[r][c] = <<>>) /\ \A c \in Clients : pos[c] = 0
    BY DEF Init
  <2> QED BY <2>1 DEF UpQueues, UpQueue, InOrder
<1>2. PipeTypeOK(Taken) /\ PipeSane /\ PipeOrdered(BySession)
  BY PipeInitType, PipeInitSane, PipeInitOrdered DEF Init
<1> QED BY <1>1, <1>2 DEF SessionInv

(***************************************************************************)
(* Of one client's lines, what one server proposes commits in the order    *)
(* they were typed and none twice, through every loss of the lead, and no  *)
(* line commits after an empty one of its session, whose channels Shutdown *)
(* has closed.                                                             *)
(***************************************************************************)
THEOREM SessionsInOrder == Spec => []SessionOrder
<1>1. Spec => [](TypeOK /\ WalksInv /\ StreamInv /\ SessionInv)
  BY TypesInductive, StreamStep, StreamsInductive, SessionInit, SessionStep, PTL DEF Spec
<1>2. TypeOK /\ SessionInv => SessionOrder
  BY DEF SessionInv, PipeOrdered, CommitOrder, InOrder, BySession, SessionOrder
<1>3. TypeOK /\ WalksInv /\ StreamInv /\ SessionInv => SessionOrder
  BY <1>2
<1> QED BY <1>1, <1>3, PTL

-----------------------------------------------------------------------------
(* What happens to a stream on its way to the window. *)

\* The entry that Apply's loop sends is in the log.
InLog == \A r \in Replicas : bcast[r].at # 0 => applied[r] < Len(log)

\* The log only grows.
LEMMA LogStays ==
  ASSUME TypeOK, [Next]_vars
  PROVE  /\ DOMAIN log = 1..Len(log) /\ Len(log) \in Nat /\ Len(log') \in Nat /\ Len(log) <= Len(log')
         /\ DOMAIN log' = 1..Len(log') /\ \A i \in DOMAIN log : i \in DOMAIN log' /\ log'[i] = log[i]
<1>1. log \in Seq(Entry) /\ flight \in [Replicas -> Seq(Entry)]
  BY DEF TypeOK, PipeTypeOK, RaftTypeOK
<1>2. log' = log \/ \E e : log' = Append(log, e)
  <2>1. CASE PipeStep
    BY <2>1 DEF PipeStep, PipeElect, PipeStepDown, PipeDie, PipeCommit, PipeInherit, RaftElect, RaftStepDown,
                RaftDie, RaftCommit, RaftInherit, RaftRestart
  <2>2. CASE UNCHANGED pipeVars
    BY <2>2 DEF pipeVars, raftVars
  <2> QED BY <2>1, <2>2, GroupStep DEF PipeAccept, raftVars
<1>3. CASE log' = log
  BY <1>1, <1>3
<1>4. ASSUME NEW e, log' = Append(log, e) PROVE
         /\ DOMAIN log = 1..Len(log) /\ Len(log) \in Nat /\ Len(log') \in Nat /\ Len(log) <= Len(log')
         /\ DOMAIN log' = 1..Len(log') /\ \A i \in DOMAIN log : i \in DOMAIN log' /\ log'[i] = log[i]
  <2>1. log \in Seq(Entry \cup {e}) /\ e \in Entry \cup {e}
    BY <1>1
  <2> QED BY <1>4, <2>1, AppendProperties
<1> QED BY <1>2, <1>3, <1>4

\* Apply is only called with what is committed.
LEMMA InLogStep == ASSUME TypeOK, WalksInv, InLog, PipeSane, [Next]_vars PROVE InLog'
<1>0. /\ NetTypes /\ ServerTypes /\ PipeTypeOK(Entry) /\ Len(log) \in Nat /\ Len(log') \in Nat /\ Len(log) <= Len(log')
      /\ \A q \in Replicas : applied[q] \in Nat /\ bcast[q] \in Walk /\ known[q] \in Nat
  BY TypeParts, LogStays, WalkTypes DEF ServerTypes, PipeTypeOK
<1>1. CASE UNCHANGED <<bcast, applied>>
  BY <1>0, <1>1 DEF InLog
<1>2. ASSUME NEW q \in Replicas, DieNext(q) PROVE InLog'
  <2>1. applied' = applied /\ \A s \in Replicas : bcast'[s] = IF s = q THEN NoWalk ELSE bcast[s]
    BY <1>0, <1>2, DieTypes, DieStep
  <2> QED BY <1>0, <2>1 DEF InLog, NoWalk
<1>3. ASSUME NEW q \in Replicas, ApplyBegin(q) PROVE InLog'
  <2>1. applied[q] < Len(log)
    BY <1>0, <1>3 DEF ApplyBegin, CommitIndex, PipeSane
  <2>2. applied' = applied /\ \A s \in Replicas : s # q => bcast'[s] = bcast[s]
    BY <1>0, <1>3 DEF ApplyBegin, ServerTypes
  <2> QED BY <1>0, <2>1, <2>2 DEF InLog
<1>4. ASSUME NEW q \in Replicas, Send(q) PROVE InLog'
  <2>1. applied' = applied /\ bcast[q].at # 0 /\ \A s \in Replicas : s # q => bcast'[s] = bcast[s]
    BY <1>0, <1>4 DEF Send, Sending, ServerTypes
  <2> QED BY <1>0, <2>1 DEF InLog
<1>5. ASSUME NEW q \in Replicas, ApplyEnd(q) PROVE InLog'
  <2>1. bcast'[q] = NoWalk /\ \A s \in Replicas : s # q => bcast'[s] = bcast[s] /\ applied'[s] = applied[s]
    BY <1>0, <1>5 DEF ApplyEnd, ServerTypes
  <2> QED BY <1>0, <2>1 DEF InLog, NoWalk
<1>6. ASSUME NEW d \in Clients, ClientNext(d) PROVE UNCHANGED <<bcast, applied>>
  BY <1>6 DEF ClientNext, Dial, DialFails, Type, Write, WriteFails, Consume, Leave, serverVars
<1>7. ASSUME RaftNext PROVE UNCHANGED <<bcast, applied>>
  BY <1>7, GroupTypes, SMTT(30) DEF serverVars
<1>8. ASSUME NEW q \in Replicas,
             \/ \E d \in Clients : Join(q, d) \/ Propose(q, d) \/ ProposeBlank(q, d)
             \/ JoinStored(q) \/ ShutdownBegin(q) \/ Disconnect(q)
      PROVE  UNCHANGED <<bcast, applied>>
  BY <1>8 DEF Join, Propose, ProposeBlank, JoinStored, ShutdownBegin, Disconnect, serverVars
<1>9. CASE UNCHANGED vars
  BY <1>1, <1>9 DEF vars, serverVars
<1> QED BY <1>1, <1>2, <1>3, <1>4, <1>5, <1>6, <1>7, <1>8, <1>9 DEF Next, ServerNext, DieNext

\* Nothing happens to r's stream to c.
Still(r, c) ==
  /\ down'[r][c] = down[r][c] /\ sent'[r][c] = sent[r][c]
  /\ (c \in left' <=> c \in left) /\ (r \in alive' => r \in alive)

\* r sends c an entry that c is to read.
Gets(r, c) ==
  /\ r \in alive /\ c \notin left /\ left' = left
  /\ bcast[r].at \in DOMAIN clients[r] /\ clients[r][bcast[r].at] = c /\ bcast[r].at # 0
  /\ down'[r][c] = Append(down[r][c], applied[r] + 1)
  /\ sent'[r][c] = Append(sent[r][c], applied[r] + 1)

\* c has hung up, or does so.
Deaf(r, c) ==
  /\ c \in left'
  /\ \/ sent'[r][c] = sent[r][c]
     \/ sent'[r][c] = Append(sent[r][c], applied[r] + 1) /\ bcast[r].at # 0

\* r dies, and what it has sent may be cut off.
Falls(r, c) ==
  /\ r \notin alive' /\ sent'[r][c] = sent[r][c] /\ left' = left
  /\ \E k \in Nat : down'[r][c] = UpTo(down[r][c], k)

HearStep(r, c) == Still(r, c) \/ Gets(r, c) \/ Deaf(r, c) \/ Falls(r, c)

\* Unless c takes a line, its window is left alone, and a stream makes one of these steps.
LEMMA NextIsHearStep ==
  ASSUME TypeOK, WalksInv, [Next]_vars, NEW c \in Clients
  PROVE  \/ \E r \in Replicas : Consume(c, r)
         \/ shown'[c] = shown[c] /\ mq'[c] = mq[c] /\ \A r \in Replicas : HearStep(r, c)
<1>0. /\ NetTypes /\ ServerTypes /\ ClientTypes /\ \A q \in Replicas : bcast[q] \in Walk /\ Len(clients[q]) \in Nat
      /\ \A q \in Replicas : bcast[q].n <= Len(clients[q]) /\ clients[q] \in Seq(Clients)
  BY TypeParts, WalkTypes DEF WalksInv
<1>1. CASE UNCHANGED <<shown, mq, down, sent, left>>
  BY <1>1, AliveStays DEF HearStep, Still
<1>2. ASSUME NEW d \in Clients, ClientNext(d)
      PROVE  \/ UNCHANGED <<shown, mq, down, sent, left>>
             \/ HangUp(d) /\ UNCHANGED <<shown, mq, sent>>
             \/ \E q \in Replicas : Consume(d, q)
  BY <1>2 DEF ClientNext, Dial, DialFails, Type, Write, WriteFails, Leave, netVars, serverVars
<1>3. ASSUME NEW d \in Clients, HangUp(d), UNCHANGED <<shown, mq, sent>>
      PROVE  shown'[c] = shown[c] /\ mq'[c] = mq[c] /\ \A r \in Replicas : HearStep(r, c)
  <2>1. left' = left \cup {d} /\ \A r \in Replicas : down'[r][c] = IF c = d THEN <<>> ELSE down[r][c]
    BY <1>0, <1>3, HangUpStep DEF ClientTypes
  <2> QED BY <1>3, <2>1, AliveStays DEF HearStep, Still, Deaf
<1>4. ASSUME NEW d \in Clients, d # c, NEW q \in Replicas, Consume(d, q)
      PROVE  shown'[c] = shown[c] /\ mq'[c] = mq[c] /\ \A r \in Replicas : HearStep(r, c)
  <2>1. sent' = sent /\ left' = left /\ shown'[c] = shown[c] /\ mq'[c] = mq[c]
    BY <1>0, <1>4 DEF Consume, serverVars, ClientTypes
  <2>2. \A r \in Replicas : down'[r][c] = down[r][c]
    BY <1>0, <1>4 DEF Consume, NetTypes
  <2> QED BY <2>1, <2>2, AliveStays DEF HearStep, Still
<1>5. ASSUME NEW q \in Replicas, DieNext(q)
      PROVE  shown'[c] = shown[c] /\ mq'[c] = mq[c] /\ \A r \in Replicas : HearStep(r, c)
  <2>1. Die(q) /\ PipeDie(q) /\ UNCHANGED <<clientVars, sent>>
    BY <1>5, DieTypes DEF Die
  <2>2. alive' = alive \ {q} /\ UNCHANGED <<shown, mq, left>>
    BY <2>1 DEF PipeDie, RaftDie, clientVars
  <2>3. \A r \in Replicas : \E k \in Nat : down'[r][c] = IF r = q THEN UpTo(down[r][c], k) ELSE down[r][c]
    BY <1>0, <2>1, DieStep
  <2>4. ASSUME NEW r \in Replicas PROVE HearStep(r, c)
    <3>1. CASE r = q
      BY <2>1, <2>2, <2>3, <3>1 DEF HearStep, Falls
    <3>2. CASE r # q
      BY <2>1, <2>2, <2>3, <3>2 DEF HearStep, Still
    <3> QED BY <3>1, <3>2
  <2> QED BY <2>2, <2>4
<1>6. ASSUME NEW q \in Replicas, Send(q)
      PROVE  shown'[c] = shown[c] /\ mq'[c] = mq[c] /\ \A r \in Replicas : HearStep(r, c)
  <2>1. /\ UNCHANGED clientVars /\ UNCHANGED alive /\ q \in alive
        /\ bcast[q].at \in 1..bcast[q].n
        /\ down' = IF Turn(q) \in left THEN down ELSE [down EXCEPT ![q][Turn(q)] = Append(down[q][Turn(q)], applied[q] + 1)]
        /\ sent' = [sent EXCEPT ![q][Turn(q)] = Append(sent[q][Turn(q)], applied[q] + 1)]
    BY <1>6 DEF Send, Sending, pipeVars, raftVars
  <2>2. bcast[q].at \in DOMAIN clients[q] /\ bcast[q].at # 0 /\ clients[q][bcast[q].at] = Turn(q)
    <3>1. bcast[q].at \in Nat /\ bcast[q].n \in Nat /\ bcast[q].n <= Len(clients[q]) /\ Len(clients[q]) \in Nat
      BY <1>0 DEF Walk
    <3> QED BY <1>0, <2>1, <3>1 DEF Turn
  <2>3. shown' = shown /\ mq' = mq /\ left' = left
    BY <2>1 DEF clientVars
  <2>4. ASSUME NEW r \in Replicas PROVE HearStep(r, c)
    <3>1. CASE ~(r = q /\ c = Turn(q))
      <4>1. down'[r][c] = down[r][c] /\ sent'[r][c] = sent[r][c]
        BY <1>0, <2>1, <3>1 DEF NetTypes, ServerTypes
      <4> QED BY <2>1, <2>3, <4>1 DEF HearStep, Still
    <3>2. CASE r = q /\ c = Turn(q)
      <4>1. sent'[r][c] = Append(sent[r][c], applied[r] + 1)
        BY <1>0, <2>1, <3>2 DEF ServerTypes
      <4>2. CASE c \in left
        BY <2>2, <2>3, <3>2, <4>1, <4>2 DEF HearStep, Deaf
      <4>3. CASE c \notin left
        <5>1. down'[r][c] = Append(down[r][c], applied[r] + 1)
          BY <1>0, <2>1, <3>2, <4>3 DEF NetTypes
        <5> QED BY <2>1, <2>2, <2>3, <3>2, <4>1, <4>3, <5>1 DEF HearStep, Gets
      <4> QED BY <4>2, <4>3
    <3> QED BY <3>1, <3>2
  <2> QED BY <2>3, <2>4
<1>7. ASSUME RaftNext PROVE UNCHANGED <<shown, mq, down, sent, left>>
  BY <1>7, GroupTypes, SMTT(30) DEF clientVars, netVars, serverVars
<1>8. ASSUME NEW q \in Replicas,
             \/ \E d \in Clients : Join(q, d) \/ Propose(q, d) \/ ProposeBlank(q, d)
             \/ JoinStored(q) \/ ApplyBegin(q) \/ ApplyEnd(q) \/ ShutdownBegin(q) \/ Disconnect(q)
      PROVE  UNCHANGED <<shown, mq, down, sent, left>>
  BY <1>8 DEF Join, Propose, ProposeBlank, JoinStored, ApplyBegin, ApplyEnd, ShutdownBegin, Disconnect,
              clientVars, netVars, serverVars
<1>9. CASE UNCHANGED vars
  BY <1>1, <1>9 DEF vars, clientVars, netVars, serverVars
<1> QED BY <1>1, <1>2, <1>3, <1>4, <1>5, <1>6, <1>7, <1>8, <1>9 DEF Next, ServerNext, DieNext

-----------------------------------------------------------------------------
(* What a client has shown of a stream. *)

HasText(x) == x \in DOMAIN log /\ log[x].num # 0

(***************************************************************************)
(* A line may begin at x in r's stream to c, and the texts in the stream   *)
(* before x are among the first n lines that c has shown.                  *)
(***************************************************************************)
FrontShown(r, c, x, n) ==
  LET s == sent[r][c] IN
  /\ s # <<>> /\ s[1] <= x /\ x - 1 <= Len(log)
  /\ x = s[1] \/ HasText(x - 1)
  /\ \A y \in s[1]..x - 1 : HasText(y) => \E j \in 1..n : Ends(shown[c][j]) = y

\* Consecutive entries of which the last alone has a text.
LineAt(l) ==
  /\ l \in Seq(Nat) /\ l # <<>>
  /\ \A k \in DOMAIN l : l[k] = l[1] + k - 1 /\ l[k] \in DOMAIN log /\ (HasText(l[k]) <=> k = Len(l))

\* Each line was taken from a stream whose texts before it had been shown.
ShownInv ==
  \A c \in Clients : \A i \in DOMAIN shown[c] :
    LineAt(shown[c][i]) /\ \E r \in Replicas : FrontShown(r, c, shown[c][i][1], i - 1)

(***************************************************************************)
(* What c has not read of r's stream is consecutive too and, while r runs, *)
(* its end; what comes before it was shown.                                *)
(***************************************************************************)
UnreadAt(r, c) ==
  LET s == sent[r][c]
      d == down[r][c]
  IN
  /\ \A i \in DOMAIN s : s[i] \in DOMAIN log
  /\ c \notin left =>
       /\ \A i \in DOMAIN d : d[i] = d[1] + i - 1 /\ d[i] \in DOMAIN log
       /\ d # <<>> => FrontShown(r, c, d[1], Len(shown[c]))
       /\ r \in alive /\ s # <<>> => IF d # <<>> THEN d[Len(d)] = s[Len(s)]
                                     ELSE FrontShown(r, c, s[Len(s)] + 1, Len(shown[c]))

UnreadInv == \A r \in Replicas, c \in Clients : UnreadAt(r, c)

\* The window holds the last lines shown, and so no line is shown twice within its length.
WindowAt(c) ==
  LET n == Len(shown[c]) IN
  /\ Len(mq[c]) = Size
  /\ \A k \in 1..Size : mq[c][k] = IF n + k > Size THEN shown[c][n + k - Size] ELSE <<>>
  /\ \A i, j \in DOMAIN shown[c] : i < j /\ shown[c][i] = shown[c][j] => j - i > Size

\* What is shown stays shown.
LEMMA ShownStays ==
  ASSUME TypeOK, WalksInv, [Next]_vars, NEW c \in Clients
  PROVE  /\ shown[c] \in Seq(Seq(Nat)) /\ Len(shown[c]) \in Nat /\ DOMAIN shown[c] = 1..Len(shown[c])
         /\ shown'[c] \in Seq(Seq(Nat)) /\ Len(shown'[c]) \in Nat /\ DOMAIN shown'[c] = 1..Len(shown'[c])
         /\ Len(shown[c]) <= Len(shown'[c]) /\ \A i \in DOMAIN shown[c] : shown'[c][i] = shown[c][i]
<1>1. shown \in [Clients -> Seq(Seq(Nat))] /\ shown[c] \in Seq(Seq(Nat)) /\ TypeOK'
  BY TypesStep, TypeParts DEF ClientTypes
<1>2. shown'[c] \in Seq(Seq(Nat))
  BY <1>1, TypeParts DEF TypeOK
<1>3. shown'[c] = shown[c] \/ \E l : shown'[c] = Append(shown[c], l)
  <2>1. ASSUME NEW r \in Replicas, Consume(c, r) PROVE shown'[c] = shown[c] \/ \E l : shown'[c] = Append(shown[c], l)
    BY <1>1, <2>1 DEF Consume
  <2> QED BY <2>1, NextIsHearStep
<1>4. ASSUME shown'[c] = shown[c]
      PROVE  Len(shown[c]) <= Len(shown'[c]) /\ \A i \in DOMAIN shown[c] : shown'[c][i] = shown[c][i]
  BY <1>1, <1>4
<1>5. ASSUME NEW l, shown'[c] = Append(shown[c], l)
      PROVE  Len(shown[c]) <= Len(shown'[c]) /\ \A i \in DOMAIN shown[c] : shown'[c][i] = shown[c][i]
  <2>1. shown[c] \in Seq(Seq(Nat) \cup {l}) /\ l \in Seq(Nat) \cup {l}
    BY <1>1
  <2> QED BY <1>5, <2>1, AppendProperties
<1>6. Len(shown[c]) <= Len(shown'[c]) /\ \A i \in DOMAIN shown[c] : shown'[c][i] = shown[c][i]
  BY <1>3, <1>4, <1>5
<1> QED BY <1>1, <1>2, <1>6

\* A stream keeps its beginning.
LEMMA SentStays ==
  ASSUME TypeOK, WalksInv, [Next]_vars, NEW r \in Replicas, NEW c \in Clients
  PROVE  /\ sent[r][c] \in Seq(Nat) /\ sent'[r][c] \in Seq(Nat)
         /\ \/ sent'[r][c] = sent[r][c]
            \/ sent'[r][c] = Append(sent[r][c], applied[r] + 1) /\ bcast[r].at # 0 /\ applied[r] + 1 \in Nat
         /\ sent[r][c] # <<>> => sent'[r][c] # <<>> /\ sent'[r][c][1] = sent[r][c][1]
<1>1. /\ sent[r][c] \in Seq(Nat) /\ applied[r] + 1 \in Nat
  BY TypeParts DEF ServerTypes
<1>2. \/ sent'[r][c] = sent[r][c]
      \/ sent'[r][c] = Append(sent[r][c], applied[r] + 1) /\ bcast[r].at # 0
  <2>1. ASSUME NEW q \in Replicas, Consume(c, q) PROVE sent'[r][c] = sent[r][c]
    BY <2>1 DEF Consume, serverVars
  <2> QED BY <2>1, NextIsHearStep DEF HearStep, Still, Gets, Deaf, Falls
<1>3. CASE sent'[r][c] = sent[r][c]
  BY <1>1, <1>3
<1>4. CASE sent'[r][c] = Append(sent[r][c], applied[r] + 1) /\ bcast[r].at # 0
  BY <1>1, <1>4
<1> QED BY <1>2, <1>3, <1>4

\* A text stays one, and an entry without one gets none.
LEMMA TextStays ==
  ASSUME TypeOK, [Next]_vars, NEW x \in Int, x <= Len(log)
  PROVE  HasText(x)' <=> HasText(x)
  BY LogStays DEF HasText

\* What was shown before a place stays so.
LEMMA FrontStays ==
  ASSUME TypeOK, WalksInv, [Next]_vars, NEW r \in Replicas, NEW c \in Clients, NEW x \in Nat,
         NEW n \in Nat, n <= Len(shown[c]), NEW m \in Nat, n <= m, FrontShown(r, c, x, n)
  PROVE  FrontShown(r, c, x, m)'
<1>1. /\ sent[r][c] # <<>> /\ sent[r][c][1] <= x /\ x - 1 <= Len(log) /\ sent[r][c][1] \in Nat
      /\ sent'[r][c] # <<>> /\ sent'[r][c][1] = sent[r][c][1]
      /\ Len(log) \in Nat /\ Len(log') \in Nat /\ Len(log) <= Len(log')
  <2>1. sent[r][c] \in Seq(Nat) /\ sent[r][c] # <<>>
    BY SentStays DEF FrontShown
  <2>2. sent[r][c][1] \in Nat
    BY <2>1
  <2> QED BY <2>1, <2>2, SentStays, LogStays DEF FrontShown
<1>2. x = sent[r][c][1] \/ HasText(x - 1)'
  <2>1. x - 1 \in Int
    OBVIOUS
  <2> QED BY <1>1, <2>1, TextStays DEF FrontShown
<1>3. ASSUME NEW y \in sent[r][c][1]..x - 1, HasText(y)'
      PROVE  \E j \in 1..m : Ends(shown'[c][j]) = y
  <2>1. y \in Int /\ y <= Len(log)
    BY <1>1
  <2>2. PICK j \in 1..n : Ends(shown[c][j]) = y
    BY <1>3, <2>1, TextStays DEF FrontShown
  <2>3. shown'[c][j] = shown[c][j]
    BY <2>2, ShownStays
  <2>4. j \in 1..m
    OBVIOUS
  <2> QED BY <2>2, <2>3, <2>4
<1>4. x - 1 <= Len(log')
  BY <1>1
<1>5. \A y \in sent'[r][c][1]..x - 1 : HasText(y)' => \E j \in 1..m : Ends(shown'[c][j]) = y
  BY <1>1, <1>3
<1> QED BY <1>1, <1>2, <1>4, <1>5 DEF FrontShown, Ends

\* A line stays one.
LEMMA LineStays ==
  ASSUME TypeOK, [Next]_vars, NEW l, LineAt(l)
  PROVE  LineAt(l)'
<1>1. l \in Seq(Nat) /\ l # <<>>
  BY DEF LineAt
<1>2. ASSUME NEW k \in DOMAIN l
      PROVE  l[k] = l[1] + k - 1 /\ l[k] \in DOMAIN log' /\ (HasText(l[k])' <=> k = Len(l))
  <2>1. l[k] \in Nat /\ l[k] = l[1] + k - 1 /\ l[k] \in DOMAIN log /\ (HasText(l[k]) <=> k = Len(l))
    BY <1>1, <1>2 DEF LineAt
  <2>2. PICK x \in Int : x = l[k]
    BY <2>1
  <2> QED BY <2>1, <2>2, LogStays, TextStays
<1> QED BY <1>1, <1>2 DEF LineAt

\* A stream stays as it is, or goes on, with what its client has not read.
LEMMA UnreadHear ==
  ASSUME TypeOK, WalksInv, StreamInv, InLog, [Next]_vars, NEW r \in Replicas, NEW c \in Clients,
         UnreadAt(r, c), HearStep(r, c)
  PROVE  UnreadAt(r, c)'
<1>1. PICK d, s, t, v, n : /\ d = down[r][c] /\ s = sent[r][c] /\ t = down'[r][c] /\ v = sent'[r][c]
                           /\ n = Len(shown'[c])
  OBVIOUS
<1>2. /\ d \in Seq(Nat) /\ s \in Seq(Nat) /\ v \in Seq(Nat) /\ n \in Nat /\ applied[r] \in Nat
      /\ Len(shown[c]) \in Nat /\ Len(shown[c]) <= n
      /\ DOMAIN log = 1..Len(log) /\ Len(log) \in Nat /\ \A i \in DOMAIN log : i \in DOMAIN log'
  BY <1>1, TypeParts, SentStays, ShownStays, LogStays DEF NetTypes, ServerTypes
<1>3. SUFFICES /\ \A i \in DOMAIN v : v[i] \in DOMAIN log'
               /\ c \notin left' =>
                    /\ \A i \in DOMAIN t : t[i] = t[1] + i - 1 /\ t[i] \in DOMAIN log'
                    /\ t # <<>> => \A x : x = t[1] => FrontShown(r, c, x, n)'
                    /\ r \in alive' /\ v # <<>> =>
                         IF t # <<>> THEN t[Len(t)] = v[Len(v)]
                                     ELSE \A x : x = v[Len(v)] + 1 => FrontShown(r, c, x, n)'
  BY <1>1 DEF UnreadAt, FrontShown
<1>4. /\ \A i \in DOMAIN s : s[i] \in DOMAIN log
      /\ c \notin left =>
           /\ \A i \in DOMAIN d : d[i] = d[1] + i - 1 /\ d[i] \in DOMAIN log
           /\ d # <<>> => FrontShown(r, c, d[1], Len(shown[c]))
           /\ r \in alive /\ s # <<>> => IF d # <<>> THEN d[Len(d)] = s[Len(s)]
                                         ELSE FrontShown(r, c, s[Len(s)] + 1, Len(shown[c]))
  BY <1>1 DEF UnreadAt
<1>5. bcast[r].at # 0 => applied[r] + 1 \in DOMAIN log
  BY <1>2 DEF InLog
<1>6. \A i \in DOMAIN v : v[i] \in DOMAIN log'
  <2>1. CASE v = s
    BY <1>2, <1>4, <2>1
  <2>2. CASE v = Append(s, applied[r] + 1) /\ bcast[r].at # 0
    BY <1>2, <1>4, <1>5, <2>2
  <2> QED BY <1>1, <2>1, <2>2, SentStays
<1>7. ASSUME NEW x \in Nat, FrontShown(r, c, x, Len(shown[c])) PROVE FrontShown(r, c, x, n)'
  <2>1. PICK l \in Nat : l = Len(shown[c])
    BY <1>2
  <2>2. FrontShown(r, c, x, l) /\ l <= Len(shown[c]) /\ l <= n
    BY <1>2, <1>7, <2>1
  <2> QED BY <1>2, <1>7, <2>2, FrontStays
<1>8. d # <<>> => d[1] \in Nat
  BY <1>2
<1>9. s # <<>> => s[Len(s)] \in Nat /\ s[Len(s)] + 1 \in Nat
  <2>1. s # <<>> => Len(s) \in DOMAIN s
    BY <1>2
  <2> QED BY <1>2, <2>1
<1>10. CASE Still(r, c)
  <2>1. t = d /\ v = s /\ (c \in left' <=> c \in left) /\ (r \in alive' => r \in alive)
    BY <1>1, <1>10 DEF Still
  <2> QED BY <1>2, <1>4, <1>6, <1>7, <1>8, <1>9, <2>1
<1>11. CASE Deaf(r, c)
  BY <1>6, <1>11 DEF Deaf
<1>12. CASE Falls(r, c)
  <2>1. /\ r \notin alive' /\ left' = left
        /\ \E k \in Nat : t = UpTo(d, k)
    BY <1>1, <1>12 DEF Falls
  <2>2. \A i \in DOMAIN t : i \in DOMAIN d /\ t[i] = d[i]
    BY <1>2, <2>1, UpToProperties
  <2>3. t \in Seq(Nat) /\ (t # <<>> => 1 \in DOMAIN t)
    BY <1>2, <2>1, UpToProperties
  <2>4. t # <<>> => d # <<>> /\ t[1] = d[1]
    BY <1>2, <2>2, <2>3
  <2>5. \A i \in DOMAIN t : t # <<>>
    BY <2>3
  <2>6. c \notin left' => \A i \in DOMAIN t : t[i] = t[1] + i - 1 /\ t[i] \in DOMAIN log'
    BY <1>2, <1>4, <2>1, <2>2, <2>4, <2>5
  <2>7. c \notin left' => (t # <<>> => \A x : x = t[1] => FrontShown(r, c, x, n)')
    BY <1>4, <1>7, <1>8, <2>1, <2>4
  <2> QED BY <1>6, <2>1, <2>6, <2>7
<1>13. CASE Gets(r, c)
  <2>0. PICK a : a = applied[r] + 1
    OBVIOUS
  <2>1. /\ r \in alive /\ c \notin left /\ left' = left /\ t = Append(d, a) /\ v = Append(s, a)
        /\ bcast[r].at # 0 /\ a \in DOMAIN log /\ a \in Nat
    BY <1>1, <1>2, <1>5, <1>13, <2>0 DEF Gets
  <2>2. s # <<>> => s[Len(s)] + 1 = a
    <3>1. bcast[r].at \in DOMAIN clients[r] /\ clients[r][bcast[r].at] = c /\ StreamAt(r, c)
      BY <1>13 DEF Gets, StreamInv
    <3>2. bcast[r].at \in Nat
      BY TypeParts, WalkTypes DEF Walk
    <3>3. s # <<>> => s[Len(s)] = applied[r] + (IF bcast[r].at > bcast[r].at THEN 1 ELSE 0)
      BY <1>1, <3>1 DEF StreamAt
    <3> QED BY <1>2, <2>0, <3>2, <3>3
  <2>3. /\ t \in Seq(Nat) /\ Len(t) = Len(d) + 1 /\ DOMAIN t = 1..Len(d) + 1 /\ t[Len(d) + 1] = a /\ t # <<>>
        /\ \A i \in 1..Len(d) : t[i] = d[i]
    <3>1. a \in Nat /\ t = Append(d, a) /\ d \in Seq(Nat)
      BY <1>2, <2>1
    <3>2. /\ Append(d, a) \in Seq(Nat) /\ Append(d, a) # <<>> /\ Len(Append(d, a)) = Len(d) + 1
          /\ Append(d, a)[Len(d) + 1] = a /\ \A i \in 1..Len(d) : Append(d, a)[i] = d[i]
      BY <3>1, AppendProperties
    <3> QED BY <3>1, <3>2, LenProperties
  <2>4. v # <<>> /\ v[Len(v)] = a
    BY <1>2, <2>1, AppendProperties, SMTT(30)
  <2>5. CASE d = <<>>
    <3>1. t[1] = a /\ Len(d) = 0
      BY <2>3, <2>5
    <3>2. \A i \in DOMAIN t : t[i] = t[1] + i - 1 /\ t[i] \in DOMAIN log'
      BY <1>2, <2>1, <2>3, <3>1
    <3>3. FrontShown(r, c, a, n)'
      <4>1. CASE s # <<>>
        <5>1. FrontShown(r, c, s[Len(s)] + 1, Len(shown[c]))
          BY <1>4, <2>1, <2>5, <4>1
        <5> QED BY <1>7, <2>1, <2>2, <4>1, <5>1
      <4>2. CASE s = <<>>
        <5>1. v = <<a>> /\ v[1] = a
          BY <2>1, <4>2
        <5>2. a - 1 <= Len(log')
          BY <1>2, <2>1, LogStays
        <5>3. sent'[r][c] # <<>> /\ sent'[r][c][1] = a
          BY <1>1, <2>4, <5>1
        <5>4. \A y \in a..a - 1 : FALSE
          BY <2>1
        <5>5. sent'[r][c][1] <= a /\ \A y \in sent'[r][c][1]..a - 1 : FALSE
          BY <2>1, <5>3, <5>4
        <5> QED BY <5>2, <5>3, <5>5 DEF FrontShown
      <4> QED BY <4>1, <4>2
    <3>4. t[Len(t)] = v[Len(v)]
      BY <2>3, <2>4, <3>1
    <3>5. \A x : x = t[1] => FrontShown(r, c, x, n)'
      BY <3>1, <3>3
    <3> QED BY <1>6, <2>3, <3>2, <3>4, <3>5
  <2>6. CASE d # <<>>
    <3>1. t[1] = d[1] /\ Len(d) \in DOMAIN d /\ Len(d) \in Nat /\ s # <<>>
      <4>1. Len(d) \in DOMAIN d /\ Len(d) \in Nat /\ 1 \in 1..Len(d)
        BY <1>2, <2>6
      <4>2. FrontShown(r, c, d[1], Len(shown[c]))
        BY <1>4, <2>1, <2>6
      <4> QED BY <1>1, <2>3, <4>1, <4>2 DEF FrontShown
    <3>2. d[Len(d)] = d[1] + Len(d) - 1 /\ d[Len(d)] = s[Len(s)]
      BY <1>4, <2>1, <2>6, <3>1
    <3>3. a = d[1] + (Len(d) + 1) - 1
      BY <1>8, <1>9, <2>2, <2>6, <3>1, <3>2
    <3>4. \A i \in DOMAIN t : t[i] = t[1] + i - 1 /\ t[i] \in DOMAIN log'
      <4>1. ASSUME NEW i \in 1..Len(d) PROVE t[i] = t[1] + i - 1 /\ t[i] \in DOMAIN log'
        <5>1. i \in DOMAIN d /\ t[i] = d[i]
          BY <1>2, <2>3, SMTT(30)
        <5> QED BY <1>2, <1>4, <2>1, <3>1, <5>1
      <4>2. t[Len(d) + 1] = t[1] + (Len(d) + 1) - 1 /\ t[Len(d) + 1] \in DOMAIN log'
        BY <1>2, <2>1, <2>3, <3>1, <3>3
      <4>3. \A i \in DOMAIN t : i \in 1..Len(d) \/ i = Len(d) + 1
        BY <2>3, <3>1
      <4> QED BY <4>1, <4>2, <4>3
    <3>5. FrontShown(r, c, d[1], n)'
      BY <1>4, <1>7, <1>8, <2>1, <2>6
    <3>6. t[Len(t)] = v[Len(v)] /\ \A x : x = t[1] => FrontShown(r, c, x, n)'
      BY <2>3, <2>4, <3>1, <3>5
    <3> QED BY <1>6, <2>3, <3>4, <3>6
  <2> QED BY <2>5, <2>6
<1> QED BY <1>10, <1>11, <1>12, <1>13 DEF HearStep

(***************************************************************************)
(* Consume takes the line l, which is k entries, from the front of r's     *)
(* stream to c; it is new to the window and shown, or was shown before.    *)
(***************************************************************************)
Takes(c, r, l, k) ==
  LET d == down[r][c]
      t == down'[r][c]
  IN
  /\ LineAt(l) /\ FrontShown(r, c, l[1], Len(shown[c]))
  /\ k \in 1..Len(d) /\ l[1] = d[1] /\ Ends(l) = d[k] /\ HasText(d[k])
  /\ \A j \in 1..k - 1 : ~HasText(d[j])
  /\ t \in Seq(Nat) /\ Len(t) = Len(d) - k /\ \A j \in 1..Len(d) - k : t[j] = d[k + j]
  /\ \A q \in Replicas : q # r => down'[q][c] = down[q][c]
  /\ UNCHANGED <<sent, left, alive, log>> /\ c \notin left
  /\ \/ /\ shown'[c] = shown[c] /\ mq'[c] = mq[c]
        /\ \E j \in DOMAIN shown[c] : shown[c][j] = l
     \/ /\ shown'[c] = Append(shown[c], l) /\ mq'[c] = Append(Tail(mq[c]), l)
        /\ \A j \in DOMAIN mq[c] : mq[c][j] # l

\* Consume takes blanks and then one text.
LEMMA TakeLine ==
  ASSUME TypeOK, NEW r \in Replicas, NEW c \in Clients, UnreadAt(r, c), WindowAt(c), Consume(c, r)
  PROVE  \E l \in Seq(Nat), k \in Nat : Takes(c, r, l, k)
<1>0. /\ shown \in [Clients -> Seq(Seq(Nat))] /\ mq \in [Clients -> Seq(Seq(Nat))]
      /\ down \in [Replicas -> [Clients -> Seq(Nat)]]
  BY TypeParts DEF ClientTypes, NetTypes
<1>1. PICK d, k, l : d = down[r][c] /\ k = Cut(r, c) /\ l = NextLine(r, c)
  OBVIOUS
<1>2. d \in Seq(Nat) /\ Len(d) \in Nat /\ DOMAIN d = 1..Len(d) /\ Whole(r, c) # {}
  BY <1>0, <1>1 DEF Consume
<1>3. /\ k \in 1..Len(d) /\ log[d[k]].num # 0 /\ \A j \in 1..k - 1 : log[d[j]].num = 0
      /\ l \in Seq(Nat) /\ Len(l) = k /\ \A j \in 1..k : l[j] = d[j]
      /\ SubSeq(d, k + 1, Len(d)) \in Seq(Nat) /\ Len(SubSeq(d, k + 1, Len(d))) = Len(d) - k
      /\ \A j \in 1..Len(d) - k : SubSeq(d, k + 1, Len(d))[j] = d[k + j]
  <2>1. down[r][c] \in Seq(Nat)
    BY <1>1, <1>2
  <2>2. /\ Cut(r, c) \in 1..Len(down[r][c]) /\ log[down[r][c][Cut(r, c)]].num # 0
        /\ \A j \in 1..Cut(r, c) - 1 : log[down[r][c][j]].num = 0
        /\ NextLine(r, c) \in Seq(Nat) /\ Len(NextLine(r, c)) = Cut(r, c)
        /\ \A j \in 1..Cut(r, c) : NextLine(r, c)[j] = down[r][c][j]
        /\ SubSeq(down[r][c], Cut(r, c) + 1, Len(down[r][c])) \in Seq(Nat)
        /\ Len(SubSeq(down[r][c], Cut(r, c) + 1, Len(down[r][c]))) = Len(down[r][c]) - Cut(r, c)
        /\ \A j \in 1..Len(down[r][c]) - Cut(r, c) :
             SubSeq(down[r][c], Cut(r, c) + 1, Len(down[r][c]))[j] = down[r][c][Cut(r, c) + j]
    BY <1>2, <2>1, NextLineProperties, SMTT(60)
  <2> QED BY <1>1, <2>2, Zenon
<1>4. /\ down' = [down EXCEPT ![r][c] = SubSeq(d, k + 1, Len(d))]
      /\ shown' = IF contains(mq[c], l) THEN shown ELSE [shown EXCEPT ![c] = Append(shown[c], l)]
      /\ mq' = [mq EXCEPT ![c] = PushPop(mq[c], l)]
      /\ UNCHANGED <<sent, left, alive, log>> /\ c \notin left
  BY <1>1 DEF Consume, Cut, NextLine, serverVars, pipeVars, raftVars
<1>5. /\ \A i \in DOMAIN d : d[i] = d[1] + i - 1 /\ d[i] \in DOMAIN log
      /\ FrontShown(r, c, d[1], Len(shown[c]))
  <2>1. d # <<>>
    BY <1>2, <1>3
  <2> QED BY <1>1, <1>4, <2>1 DEF UnreadAt
<1>6. k \in Nat /\ 1 \in 1..k /\ 1 <= k /\ k <= Len(d) /\ l # <<>> /\ l[1] = d[1] /\ Ends(l) = d[k]
  <2>0. k \in 1..Len(d) /\ Len(d) \in Nat
    BY <1>2, <1>3
  <2>1. k \in Nat /\ 1 <= k /\ k <= Len(d) /\ 1 \in 1..k /\ k \in 1..k
    BY <2>0
  <2>2. l[1] = d[1] /\ l[Len(l)] = d[k] /\ l # <<>>
    BY <1>3, <2>1
  <2> QED BY <2>1, <2>2 DEF Ends
<1>7. HasText(d[k]) /\ \A j \in 1..k - 1 : ~HasText(d[j])
  BY <1>2, <1>3, <1>5, <1>6 DEF HasText
<1>8. LineAt(l)
  <2>1. ASSUME NEW j \in DOMAIN l
        PROVE  l[j] = l[1] + j - 1 /\ l[j] \in DOMAIN log /\ (HasText(l[j]) <=> j = Len(l))
    <3>1. j \in 1..k /\ j \in DOMAIN d /\ l[j] = d[j]
      <4>0. l \in Seq(Nat) /\ Len(l) = k
        BY <1>3
      <4>1. j \in 1..k /\ j \in 1..Len(d)
        BY <1>2, <1>6, <4>0
      <4> QED BY <1>2, <1>3, <4>1
    <3>2. j \in 1..k - 1 \/ j = k
      BY <1>6, <3>1
    <3> QED BY <1>3, <1>5, <1>6, <1>7, <3>1, <3>2, SMTT(30)
  <2> QED BY <1>3, <1>6, <2>1 DEF LineAt
<1>9. down'[r][c] = SubSeq(d, k + 1, Len(d)) /\ \A q \in Replicas : q # r => down'[q][c] = down[q][c]
  BY <1>0, <1>4
<1>10. \/ /\ shown'[c] = shown[c] /\ mq'[c] = mq[c]
          /\ \E j \in DOMAIN shown[c] : shown[c][j] = l
       \/ /\ shown'[c] = Append(shown[c], l) /\ mq'[c] = Append(Tail(mq[c]), l)
          /\ \A j \in DOMAIN mq[c] : mq[c][j] # l
  <2>1. Size \in Nat \ {0} /\ Len(mq[c]) = Size /\ DOMAIN mq[c] = 1..Size /\ Len(shown[c]) \in Nat
    BY <1>0, SizeAssumption DEF WindowAt
  <2>2. CASE contains(mq[c], l)
    <3>1. shown' = shown /\ mq'[c] = mq[c]
      BY <1>0, <1>4, <2>2 DEF PushPop
    <3>2. PICK i \in 1..Size : mq[c][i] = l
      BY <2>1, <2>2 DEF contains
    <3>3. Len(shown[c]) + i > Size /\ l = shown[c][Len(shown[c]) + i - Size]
      BY <1>6, <3>2 DEF WindowAt
    <3>4. Len(shown[c]) + i - Size \in DOMAIN shown[c]
      BY <1>0, <2>1, <3>3
    <3> QED BY <3>1, <3>3, <3>4
  <2>3. CASE ~contains(mq[c], l)
    <3>1. PushPop(mq[c], l) = Append(Tail(mq[c]), l)
      BY <2>1, <2>3 DEF PushPop, Consumed
    <3> QED BY <1>0, <1>4, <2>3, <3>1 DEF contains
  <2> QED BY <2>2, <2>3
<1>11. Takes(c, r, l, k)
  <2>1. /\ LineAt(l) /\ FrontShown(r, c, l[1], Len(shown[c]))
        /\ k \in 1..Len(d) /\ l[1] = d[1] /\ Ends(l) = d[k] /\ HasText(d[k])
        /\ \A j \in 1..k - 1 : ~HasText(d[j])
    BY <1>3, <1>5, <1>6, <1>7, <1>8
  <2>2. /\ down'[r][c] \in Seq(Nat) /\ Len(down'[r][c]) = Len(d) - k
        /\ \A j \in 1..Len(d) - k : down'[r][c][j] = d[k + j]
    BY <1>3, <1>9
  <2> QED BY <1>1, <1>4, <1>9, <1>10, <2>1, <2>2 DEF Takes
<1> QED BY <1>3, <1>6, <1>11

\* What c has not read, when it takes a line.
LEMMA UnreadTake ==
  ASSUME TypeOK, WalksInv, StreamInv, InLog, UnreadInv, [Next]_vars, NEW r \in Replicas, NEW c \in Clients,
         WindowAt(c), Consume(c, r), NEW q \in Replicas
  PROVE  UnreadAt(q, c)'
<1>0. UnreadAt(r, c) /\ UnreadAt(q, c)
  BY DEF UnreadInv
<1>1. PICK l \in Seq(Nat), k \in Nat : Takes(c, r, l, k)
  BY <1>0, TakeLine
<1>2. UNCHANGED <<sent, left, alive, log>> /\ c \notin left /\ \A p \in Replicas : p # r => down'[p][c] = down[p][c]
  BY <1>1 DEF Takes
<1>3. CASE q # r
  BY <1>0, <1>2, <1>3, UnreadHear DEF HearStep, Still
<1>4. CASE q = r
  <2>1. PICK d, s, t, n, m : /\ d = down[r][c] /\ s = sent[r][c] /\ t = down'[r][c]
                             /\ n = Len(shown'[c]) /\ m = Len(shown[c])
    OBVIOUS
  <2>2. /\ d \in Seq(Nat) /\ DOMAIN d = 1..Len(d) /\ Len(d) \in Nat /\ s \in Seq(Nat)
        /\ n \in Nat /\ m \in Nat /\ m <= n /\ k \in 1..Len(d) /\ d # <<>> /\ d[1] \in Nat
        /\ DOMAIN log = 1..Len(log) /\ Len(log) \in Nat
    <3>1. down[r][c] \in Seq(Nat) /\ sent[r][c] \in Seq(Nat) /\ k \in 1..Len(down[r][c])
      BY <1>1, TypeParts DEF NetTypes, ServerTypes, Takes
    <3>2. d \in Seq(Nat) /\ s \in Seq(Nat) /\ k \in 1..Len(d) /\ Len(d) \in Nat /\ DOMAIN d = 1..Len(d)
      BY <2>1, <3>1
    <3>3. 1 \in 1..Len(d)
      BY <3>2
    <3>4. d # <<>> /\ d[1] \in Nat
      BY <3>2, <3>3
    <3>5. n \in Nat /\ m \in Nat /\ m <= n
      BY <2>1, ShownStays
    <3> QED BY <3>2, <3>4, <3>5, LogStays
  <2>3. /\ \A i \in DOMAIN s : s[i] \in DOMAIN log
        /\ \A i \in DOMAIN d : d[i] = d[1] + i - 1 /\ d[i] \in DOMAIN log
        /\ FrontShown(r, c, d[1], m)
        /\ r \in alive /\ s # <<>> => d[Len(d)] = s[Len(s)]
    BY <1>0, <1>2, <2>1, <2>2 DEF UnreadAt
  <2>4. PICK e \in Nat : e = d[k] /\ e = d[1] + k - 1 /\ e <= Len(log) /\ HasText(e)
    <3>1. k \in DOMAIN d /\ HasText(d[k])
      BY <1>1, <2>1, <2>2 DEF Takes
    <3>2. d[k] = d[1] + k - 1 /\ d[k] \in 1..Len(log)
      BY <2>2, <2>3, <3>1
    <3> QED BY <2>2, <3>1, <3>2
  <2>5. \E j \in 1..n : Ends(shown'[c][j]) = e
    <3>1. CASE \E j \in DOMAIN shown[c] : shown[c][j] = l
      <4>1. PICK j \in DOMAIN shown[c] : shown[c][j] = l
        BY <3>1
      <4>2. j \in 1..m /\ shown'[c][j] = l
        BY <2>1, <4>1, ShownStays
      <4>3. j \in 1..n
        BY <2>2, <4>2
      <4> QED BY <1>1, <2>1, <2>4, <4>2, <4>3 DEF Takes
    <3>2. CASE shown'[c] = Append(shown[c], l)
      <4>1. shown[c] \in Seq(Seq(Nat)) /\ l \in Seq(Nat)
        BY ShownStays
      <4>2. n = m + 1 /\ shown'[c][n] = l
        BY <2>1, <3>2, <4>1, AppendProperties
      <4>3. n \in 1..n
        BY <2>2, <4>2
      <4> QED BY <1>1, <2>1, <2>4, <4>2, <4>3 DEF Takes
    <3> QED BY <1>1, <3>1, <3>2 DEF Takes
  <2>6. FrontShown(r, c, e + 1, n)'
    <3>1. \A x : x = d[1] => FrontShown(r, c, x, n)'
      <4>1. SUFFICES ASSUME NEW x \in Nat, x = d[1] PROVE FrontShown(r, c, x, n)'
        BY <2>2
      <4>2. FrontShown(r, c, x, m) /\ m <= Len(shown[c]) /\ m <= n
        BY <2>1, <2>2, <2>3, <4>1
      <4>3. FrontShown(r, c, x, n)'
        BY <2>2, <4>2, FrontStays
      <4> QED BY <4>3
    <3>2. HasText(e)' /\ \A y \in d[1]..e - 1 : ~HasText(y)'
      <4>1. ASSUME NEW y \in d[1]..e - 1 PROVE ~HasText(y)
        <5>0. d[1] \in Nat /\ k \in 1..Len(d) /\ Len(d) \in Nat /\ e = d[1] + k - 1 /\ DOMAIN d = 1..Len(d)
          BY <2>2, <2>4
        <5>1. PICK j \in Int : j = y - d[1] + 1
          BY <5>0
        <5>2. j \in 1..k - 1 /\ j \in 1..Len(d) /\ y = d[1] + j - 1
          <6>1. \A a, b \in Int : y \in a..(a + b - 1) - 1 => y - a + 1 \in 1..b - 1 /\ y = a + (y - a + 1) - 1
            OBVIOUS
          <6>2. d[1] \in Int /\ k \in Int /\ k <= Len(d)
            BY <5>0
          <6>3. j \in 1..k - 1 /\ y = d[1] + j - 1
            BY <5>0, <5>1, <6>1, <6>2
          <6> QED BY <5>0, <6>2, <6>3
        <5>3. d[j] = y
          BY <2>3, <5>0, <5>2
        <5> QED BY <1>1, <2>1, <5>2, <5>3 DEF Takes
      <4> QED BY <1>2, <2>4, <4>1 DEF HasText
    <3>3. /\ sent'[r][c] = s /\ s # <<>> /\ s[1] \in Nat /\ s[1] <= d[1] /\ d[1] <= e
          /\ \A y \in s[1]..d[1] - 1 : HasText(y)' => \E j \in 1..n : Ends(shown'[c][j]) = y
      <4>1. sent'[r][c] = s
        BY <1>2, <2>1
      <4>2. s # <<>> /\ s[1] \in Nat
        <5>1. s \in Seq(Nat) /\ s # <<>>
          BY <2>1, <2>2, <2>3 DEF FrontShown
        <5>2. 1 \in 1..Len(s)
          BY <5>1
        <5> QED BY <5>1, <5>2
      <4>3. /\ s[1] <= d[1]
            /\ \A y \in s[1]..d[1] - 1 : HasText(y)' => \E j \in 1..n : Ends(shown'[c][j]) = y
        BY <3>1, <4>1 DEF FrontShown, Ends
      <4>4. d[1] <= e
        BY <2>2, <2>4
      <4> QED BY <4>1, <4>2, <4>3, <4>4
    <3>4. ASSUME NEW y \in s[1]..e + 1 - 1, HasText(y)' PROVE \E j \in 1..n : Ends(shown'[c][j]) = y
      <4>1. y \in s[1]..d[1] - 1 \/ y \in d[1]..e - 1 \/ y = e
        BY <2>2, <3>3
      <4> QED BY <2>5, <3>2, <3>3, <3>4, <4>1
    <3>5. s[1] <= e + 1 /\ (e + 1) - 1 = e /\ e <= Len(log')
      <4>1. s[1] \in Nat /\ d[1] \in Nat /\ s[1] <= d[1] /\ d[1] <= e
        BY <2>2, <3>3
      <4> QED BY <1>2, <2>4, <4>1
    <3>6. PICK g \in Nat : g = e + 1 /\ g - 1 = e
      BY <2>4
    <3>7. HasText(g - 1)' /\ s[1] <= g /\ g - 1 <= Len(log')
      BY <3>2, <3>5, <3>6
    <3>8. \A y \in s[1]..g - 1 : HasText(y)' => \E j \in 1..n : Ends(shown'[c][j]) = y
      BY <3>4, <3>6
    <3>9. FrontShown(r, c, g, n)'
      BY <3>3, <3>7, <3>8 DEF FrontShown, Ends
    <3> QED BY <3>6, <3>9
  <2>7. /\ t \in Seq(Nat) /\ Len(t) = Len(d) - k /\ DOMAIN t = 1..Len(t)
        /\ \A j \in DOMAIN t : k + j \in DOMAIN d /\ t[j] = d[k + j]
    <3>1. t \in Seq(Nat) /\ Len(t) = Len(d) - k /\ \A j \in 1..Len(d) - k : t[j] = d[k + j]
      BY <1>1, <2>1 DEF Takes
    <3>2. DOMAIN t = 1..Len(d) - k
      BY <3>1
    <3>3. k \in 1..Len(d) /\ Len(d) \in Nat /\ DOMAIN d = 1..Len(d)
      BY <2>2
    <3>4. \A j \in 1..Len(d) - k : k + j \in 1..Len(d)
      BY <3>3
    <3> QED BY <3>1, <3>2, <3>3, <3>4
  <2>8. t # <<>> => t[1] = e + 1 /\ Len(t) \in 1..Len(t) /\ t[Len(t)] = d[Len(d)]
    <3>1. SUFFICES ASSUME t # <<>> PROVE t[1] = e + 1 /\ Len(t) \in 1..Len(t) /\ t[Len(t)] = d[Len(d)]
      OBVIOUS
    <3>2. Len(t) \in Nat /\ 1 \in DOMAIN t /\ Len(t) \in DOMAIN t
      BY <2>7, <3>1
    <3>3. t[1] = d[k + 1] /\ d[k + 1] = d[1] + (k + 1) - 1 /\ t[Len(t)] = d[k + Len(t)]
      BY <2>3, <2>7, <3>2
    <3>4. k \in Nat /\ d[1] \in Nat /\ Len(d) \in Nat /\ e = d[1] + k - 1 /\ k + Len(t) = Len(d)
      <4>1. k \in 1..Len(d) /\ Len(d) \in Nat /\ Len(t) = Len(d) - k
        BY <2>2, <2>7
      <4> QED BY <2>2, <2>4, <4>1
    <3>5. Len(t) \in 1..Len(t)
      BY <2>7, <3>2
    <3>6. t[Len(t)] = d[Len(d)]
      BY <3>3, <3>4
    <3>7. t[1] = e + 1
      BY <3>3, <3>4
    <3> QED BY <3>5, <3>6, <3>7
  <2>9. \A i \in DOMAIN t : t[i] = t[1] + i - 1 /\ t[i] \in DOMAIN log
    <3>1. \A i \in DOMAIN t : t # <<>> /\ t[i] = d[1] + (k + i) - 1 /\ t[i] \in DOMAIN log
      <4>1. \A i \in DOMAIN t : i \in 1..Len(t) /\ t # <<>>
        BY <2>7
      <4> QED BY <2>3, <2>7, <4>1
    <3>2. \A i \in DOMAIN t : i \in Int
      BY <2>7
    <3>3. k \in Int /\ d[1] \in Nat /\ e = d[1] + k - 1
      BY <2>2, <2>4
    <3>4. \A i \in DOMAIN t : t[1] = e + 1
      BY <2>8, <3>1
    <3>5. ASSUME NEW i \in DOMAIN t PROVE t[i] = t[1] + i - 1
      <4>1. t[i] = d[1] + (k + i) - 1 /\ i \in Int /\ t[1] = e + 1
        BY <3>1, <3>2, <3>4
      <4> QED BY <3>3, <4>1
    <3> QED BY <3>1, <3>5
  <2>10. t = <<>> => e = d[Len(d)]
    <3>1. t = <<>> => Len(t) = 0
      OBVIOUS
    <3>2. k \in 1..Len(d) /\ Len(d) \in Nat /\ Len(t) = Len(d) - k /\ e = d[k]
      BY <2>2, <2>4, <2>7
    <3>3. t = <<>> => k = Len(d)
      BY <3>1, <3>2
    <3> QED BY <3>2, <3>3
  <2>11. \A x : x = e + 1 => FrontShown(r, c, x, n)'
    BY <2>6
  <2>12. SUFFICES /\ \A i \in DOMAIN s : s[i] \in DOMAIN log'
                  /\ \A i \in DOMAIN t : t[i] = t[1] + i - 1 /\ t[i] \in DOMAIN log'
                  /\ t # <<>> => \A x : x = t[1] => FrontShown(r, c, x, n)'
                  /\ r \in alive /\ s # <<>> =>
                       IF t # <<>> THEN t[Len(t)] = s[Len(s)]
                                   ELSE \A x : x = s[Len(s)] + 1 => FrontShown(r, c, x, n)'
    BY <1>2, <1>4, <2>1 DEF UnreadAt, FrontShown
  <2> QED BY <1>2, <2>3, <2>8, <2>9, <2>10, <2>11
<1> QED BY <1>3, <1>4

\* What a client does with a step: nothing, or Consume takes a line.
LEMMA NextIsTake ==
  ASSUME TypeOK, WalksInv, UnreadInv, [Next]_vars, NEW c \in Clients, WindowAt(c)
  PROVE  \/ shown'[c] = shown[c] /\ mq'[c] = mq[c]
         \/ \E r \in Replicas, l \in Seq(Nat), k \in Nat :
              /\ Takes(c, r, l, k)
              /\ shown'[c] = Append(shown[c], l) /\ mq'[c] = Append(Tail(mq[c]), l)
              /\ \A j \in DOMAIN mq[c] : mq[c][j] # l
<1>1. ASSUME NEW r \in Replicas, Consume(c, r)
      PROVE  \/ shown'[c] = shown[c] /\ mq'[c] = mq[c]
             \/ \E l \in Seq(Nat), k \in Nat :
                  /\ Takes(c, r, l, k)
                  /\ shown'[c] = Append(shown[c], l) /\ mq'[c] = Append(Tail(mq[c]), l)
                  /\ \A j \in DOMAIN mq[c] : mq[c][j] # l
  <2>1. PICK l \in Seq(Nat), k \in Nat : Takes(c, r, l, k)
    BY <1>1, TakeLine DEF UnreadInv
  <2>2. \/ shown'[c] = shown[c] /\ mq'[c] = mq[c]
        \/ /\ shown'[c] = Append(shown[c], l) /\ mq'[c] = Append(Tail(mq[c]), l)
           /\ \A j \in DOMAIN mq[c] : mq[c][j] # l
    BY <2>1 DEF Takes
  <2> QED BY <2>1, <2>2
<1> QED BY <1>1, NextIsHearStep

\* The lines shown.
LEMMA ShownStep ==
  ASSUME TypeOK, WalksInv, UnreadInv, ShownInv, \A c \in Clients : WindowAt(c), [Next]_vars
  PROVE  ShownInv'
<1> SUFFICES ASSUME NEW c \in Clients, NEW t, t = shown'[c], NEW i \in DOMAIN t
             PROVE  LineAt(t[i])' /\ \E r \in Replicas : FrontShown(r, c, t[i][1], i - 1)'
  <2>1. PICK t : t = [c \in Clients |-> shown'[c]]
    OBVIOUS
  <2>2. ASSUME NEW c \in Clients, NEW i \in DOMAIN shown'[c]
        PROVE  (LineAt(shown[c][i]) /\ \E r \in Replicas : FrontShown(r, c, shown[c][i][1], i - 1))'
    <3>1. LineAt(t[c][i])' /\ t[c][i] = shown'[c][i]
      BY <2>1, <2>2
    <3>2. PICK r \in Replicas : FrontShown(r, c, t[c][i][1], i - 1)'
      BY <2>1, <2>2
    <3>3. LineAt(shown[c][i])'
      BY <3>1 DEF LineAt
    <3>4. FrontShown(r, c, shown[c][i][1], i - 1)'
      BY <3>1, <3>2 DEF FrontShown
    <3> QED BY <3>3, <3>4
  <2> QED BY <2>2 DEF ShownInv
<1>0. /\ shown[c] \in Seq(Seq(Nat)) /\ Len(shown[c]) \in Nat /\ DOMAIN shown[c] = 1..Len(shown[c])
      /\ DOMAIN shown'[c] = 1..Len(shown'[c]) /\ Len(shown'[c]) \in Nat
      /\ \A j \in DOMAIN shown[c] : shown'[c][j] = shown[c][j]
  BY ShownStays
<1>1. ASSUME NEW l, LineAt(l), l = t[i], NEW n \in Nat, n = i - 1, n <= Len(shown[c]),
             NEW r \in Replicas, FrontShown(r, c, l[1], n)
      PROVE  LineAt(t[i])' /\ FrontShown(r, c, t[i][1], i - 1)'
  <2>1. PICK x \in Nat : x = l[1]
    <3>1. l \in Seq(Nat) /\ l # <<>>
      BY <1>1 DEF LineAt
    <3>2. l[1] \in Nat
      BY <3>1
    <3> QED BY <3>2
  <2>2. FrontShown(r, c, x, n)'
    BY <1>1, <2>1, FrontStays
  <2>3. LineAt(l)'
    BY <1>1, LineStays
  <2> QED BY <1>1, <2>1, <2>2, <2>3
<1>2. CASE i \in DOMAIN shown[c]
  <2>1. PICK l : l = shown[c][i]
    OBVIOUS
  <2>2. LineAt(l) /\ l = t[i]
    BY <1>0, <1>2, <2>1 DEF ShownInv
  <2>3. PICK r \in Replicas : FrontShown(r, c, l[1], i - 1)
    BY <1>2, <2>1 DEF ShownInv
  <2>4. PICK n \in Nat : n = i - 1 /\ n <= Len(shown[c])
    BY <1>0, <1>2
  <2>5. FrontShown(r, c, l[1], n)
    BY <2>3, <2>4
  <2> QED BY <1>1, <2>2, <2>4, <2>5
<1>3. CASE i \notin DOMAIN shown[c]
  <2>1. PICK r \in Replicas, l \in Seq(Nat), k \in Nat : Takes(c, r, l, k) /\ shown'[c] = Append(shown[c], l)
    <3>1. shown'[c] # shown[c]
      BY <1>3
    <3> QED BY <3>1, NextIsTake
  <2>2. Len(shown'[c]) = Len(shown[c]) + 1 /\ shown'[c][Len(shown[c]) + 1] = l
    BY <1>0, <2>1, AppendProperties
  <2>3. i = Len(shown[c]) + 1
    BY <1>0, <1>3, <2>2
  <2>4. PICK n \in Nat : n = Len(shown[c]) /\ n = i - 1
    BY <1>0, <2>3
  <2>5. LineAt(l) /\ l = t[i] /\ FrontShown(r, c, l[1], n)
    BY <2>1, <2>2, <2>3, <2>4 DEF Takes
  <2> QED BY <1>1, <2>4, <2>5
<1> QED BY <1>2, <1>3

\* The window.
LEMMA WindowStep ==
  ASSUME TypeOK, WalksInv, UnreadInv, [Next]_vars, NEW c \in Clients, WindowAt(c)
  PROVE  WindowAt(c)'
<1>0. /\ shown[c] \in Seq(Seq(Nat)) /\ mq[c] \in Seq(Seq(Nat)) /\ Size \in Nat \ {0}
  BY TypeParts, SizeAssumption DEF ClientTypes
<1>1. CASE shown'[c] = shown[c] /\ mq'[c] = mq[c]
  BY <1>1 DEF WindowAt
<1>2. ASSUME NEW l \in Seq(Nat), shown'[c] = Append(shown[c], l), mq'[c] = Append(Tail(mq[c]), l),
             \A j \in DOMAIN mq[c] : mq[c][j] # l
      PROVE  WindowAt(c)'
  <2>1. PICK s, w, t, v, n : s = shown[c] /\ w = mq[c] /\ t = shown'[c] /\ v = mq'[c] /\ n = Len(s)
    OBVIOUS
  <2>2. /\ s \in Seq(Seq(Nat)) /\ w \in Seq(Seq(Nat)) /\ n \in Nat /\ DOMAIN s = 1..n
        /\ Len(w) = Size /\ DOMAIN w = 1..Size
        /\ \A k \in 1..Size : w[k] = IF n + k > Size THEN s[n + k - Size] ELSE <<>>
        /\ \A i, j \in DOMAIN s : i < j /\ s[i] = s[j] => j - i > Size
        /\ \A j \in 1..Size : w[j] # l
    BY <1>0, <1>2, <2>1 DEF WindowAt
  <2>3. /\ Len(t) = n + 1 /\ t[n + 1] = l /\ \A i \in 1..n : t[i] = s[i]
        /\ DOMAIN t = 1..n + 1
    <3>1. s \in Seq(Seq(Nat)) /\ l \in Seq(Nat)
      BY <2>2
    <3>2. /\ Append(s, l) \in Seq(Seq(Nat)) /\ Len(Append(s, l)) = Len(s) + 1
          /\ Append(s, l)[Len(s) + 1] = l
          /\ \A i \in 1..Len(s) : Append(s, l)[i] = s[i]
      BY <3>1, AppendProperties
    <3>3. t = Append(s, l) /\ n = Len(s)
      BY <1>2, <2>1
    <3> QED BY <3>2, <3>3, LenProperties
  <2>4. Len(v) = Size /\ v[Size] = l /\ \A k \in 1..Size - 1 : v[k] = w[k + 1]
    <3>1. Tail(w) \in Seq(Seq(Nat)) /\ Len(Tail(w)) = Size - 1 /\ \A k \in 1..Size - 1 : Tail(w)[k] = w[k + 1]
      <4>1. w # <<>>
        BY <1>0, <2>2
      <4> QED BY <1>0, <2>2, <4>1, HeadTailProperties
    <3>2. v = Append(Tail(w), l) /\ Len(Append(Tail(w), l)) = Len(Tail(w)) + 1
          /\ \A i \in 1..Len(Tail(w)) : Append(Tail(w), l)[i] = Tail(w)[i]
          /\ Append(Tail(w), l)[Len(Tail(w)) + 1] = l
      BY <1>2, <2>1, <3>1, AppendProperties
    <3> QED BY <1>0, <3>1, <3>2
  <2>5. ASSUME NEW k \in 1..Size
        PROVE  v[k] = IF (n + 1) + k > Size THEN t[(n + 1) + k - Size] ELSE <<>>
    <3>1. CASE k = Size
      BY <1>0, <2>2, <2>3, <2>4, <3>1
    <3>2. CASE k # Size
      <4>1. k \in 1..Size - 1 /\ k + 1 \in 1..Size
        BY <1>0, <3>2
      <4>2. v[k] = IF n + (k + 1) > Size THEN s[n + (k + 1) - Size] ELSE <<>>
        BY <2>2, <2>4, <4>1
      <4>3. n + (k + 1) > Size => n + (k + 1) - Size \in 1..n
        BY <1>0, <2>2, <4>1, SMTT(30)
      <4>4. (n + 1) + k = n + (k + 1)
        BY <2>2
      <4>5. n + (k + 1) > Size => t[(n + 1) + k - Size] = s[n + (k + 1) - Size]
        <5>1. \A p \in 1..n : t[p] = s[p]
          BY <2>3
        <5>2. (n + 1) + k - Size = n + (k + 1) - Size
          BY <1>0, <2>2
        <5> QED BY <4>3, <5>1, <5>2
      <4> QED BY <4>2, <4>4, <4>5
    <3> QED BY <3>1, <3>2
  <2>6. ASSUME NEW i \in 1..n + 1, NEW j \in 1..n + 1, i < j, t[i] = t[j]
        PROVE  j - i > Size
    <3>1. i \in 1..n
      BY <2>2, <2>6
    <3>2. CASE j \in 1..n
      BY <2>2, <2>3, <2>6, <3>1, <3>2
    <3>3. CASE j = n + 1
      <4>1. SUFFICES ASSUME j - i <= Size PROVE FALSE
        BY <1>0, <2>2
      <4>2. PICK k \in Int : k = i + Size - n
        BY <1>0, <2>2
      <4>3. k \in 1..Size /\ n + k > Size /\ n + k - Size = i
        BY <1>0, <2>2, <3>1, <3>3, <4>1, <4>2
      <4>4. w[k] = s[i]
        BY <2>2, <4>3
      <4> QED BY <2>2, <2>3, <2>6, <3>1, <3>3, <4>3, <4>4
    <3> QED BY <2>2, <3>2, <3>3
  <2> QED BY <2>1, <2>3, <2>4, <2>5, <2>6 DEF WindowAt
<1> QED BY <1>1, <1>2, NextIsTake

\* What was read so far, at the start and in every step.
HeardInv == InLog /\ UnreadInv /\ ShownInv /\ \A c \in Clients : WindowAt(c)

LEMMA HeardInit == Init => HeardInv
<1> SUFFICES ASSUME Init PROVE HeardInv
  OBVIOUS
<1>1. InLog
  BY DEF Init, InLog, NoWalk
<1>2. UnreadInv
  <2>1. \A r \in Replicas, c \in Clients : sent[r][c] = <<>> /\ down[r][c] = <<>>
    BY DEF Init
  <2> QED BY <2>1 DEF UnreadInv, UnreadAt
<1>3. ShownInv
  <2>1. \A c \in Clients : shown[c] = <<>>
    BY DEF Init
  <2> QED BY <2>1 DEF ShownInv
<1>4. ASSUME NEW c \in Clients PROVE WindowAt(c)
  <2>1. shown[c] = <<>> /\ mq[c] = NewMQ /\ Size \in Nat
    BY SizeAssumption DEF Init
  <2>2. NewMQ \in Seq({<<>>}) /\ Len(NewMQ) = Size /\ \A k \in 1..Size : NewMQ[k] = <<>>
    BY <2>1 DEF NewMQ
  <2>3. Len(shown[c]) = 0 /\ DOMAIN shown[c] = {}
    BY <2>1
  <2>4. \A k \in 1..Size : ~(0 + k > Size)
    BY <2>1
  <2> QED BY <2>1, <2>2, <2>3, <2>4 DEF WindowAt
<1> QED BY <1>1, <1>2, <1>3, <1>4 DEF HeardInv

LEMMA HeardStep ==
  ASSUME TypeOK, WalksInv, StreamInv, PipeSane, HeardInv, [Next]_vars
  PROVE  HeardInv'
<1>1. InLog' /\ ShownInv'
  BY InLogStep, ShownStep DEF HeardInv
<1>2. \A c \in Clients : WindowAt(c)'
  BY WindowStep DEF HeardInv
<1>3. ASSUME NEW r \in Replicas, NEW c \in Clients PROVE UnreadAt(r, c)'
  <2>1. UnreadAt(r, c) /\ InLog /\ WindowAt(c) /\ UnreadInv
    BY DEF HeardInv, UnreadInv
  <2>2. CASE \E q \in Replicas : Consume(c, q)
    BY <2>1, <2>2, UnreadTake
  <2>3. CASE HearStep(r, c)
    BY <2>1, <2>3, UnreadHear
  <2> QED BY <2>2, <2>3, NextIsHearStep
<1> QED BY <1>1, <1>2, <1>3 DEF HeardInv, UnreadInv

\* A line is numbered through, and blank before its end.
LEMMA LineProperties ==
  ASSUME NEW l, LineAt(l)
  PROVE  /\ l \in Seq(Nat) /\ Len(l) \in Nat \ {0} /\ l[1] \in Nat /\ Ends(l) = l[1] + Len(l) - 1
         /\ HasText(Ends(l)) /\ l[1] <= Ends(l)
         /\ \A x \in Int : l[1] <= x /\ x < Ends(l) => x \in ToSet(l) /\ x \in DOMAIN log /\ ~HasText(x)
<1>1. /\ l \in Seq(Nat) /\ l # <<>>
      /\ \A k \in DOMAIN l : l[k] = l[1] + k - 1 /\ l[k] \in DOMAIN log /\ (HasText(l[k]) <=> k = Len(l))
  BY DEF LineAt
<1>2. Len(l) \in Nat \ {0} /\ DOMAIN l = 1..Len(l) /\ 1 \in DOMAIN l /\ Len(l) \in DOMAIN l
  BY <1>1
<1>3. l[1] \in Nat /\ Ends(l) = l[1] + Len(l) - 1 /\ HasText(Ends(l))
  BY <1>1, <1>2 DEF Ends
<1>4. l[1] <= Ends(l)
  BY <1>2, <1>3
<1>5. ASSUME NEW x \in Int, l[1] <= x, x < Ends(l) PROVE x \in ToSet(l) /\ x \in DOMAIN log /\ ~HasText(x)
  <2>1. PICK k \in Int : k = x - l[1] + 1
    BY <1>3
  <2>2. k \in DOMAIN l /\ k # Len(l) /\ x = l[1] + k - 1
    BY <1>2, <1>3, <1>5, <2>1
  <2>3. x = l[k]
    BY <1>1, <2>2
  <2> QED BY <1>1, <2>2, <2>3 DEF ToSet
<1> QED BY <1>1, <1>2, <1>3, <1>4, <1>5

\* Two lines that begin and end with the same entries are the same.
LEMMA SameLine ==
  ASSUME NEW l, LineAt(l), NEW m, LineAt(m), l[1] = m[1], Ends(l) = Ends(m)
  PROVE  l = m
<1>1. l \in Seq(Nat) /\ m \in Seq(Nat) /\ Len(l) = Len(m)
  BY LineProperties
<1>2. ASSUME NEW k \in 1..Len(l) PROVE l[k] = m[k]
  <2>1. k \in DOMAIN l /\ k \in DOMAIN m
    BY <1>1
  <2> QED BY <2>1 DEF LineAt
<1> QED BY <1>1, <1>2, SeqEqual

\* When two lines end with one text, a stream began among the blanks of the longer.
LEMMA BeganInside ==
  ASSUME NEW r \in Replicas, NEW c \in Clients, NEW n, NEW l, LineAt(l), NEW m, LineAt(m),
         Ends(l) = Ends(m), m[1] < l[1], FrontShown(r, c, l[1], n), TypeOK
  PROVE  \E x \in ToSet(m) : log[x].num = 0 /\ BeginsAfter(r, c, x)
<1>1. l[1] \in Nat /\ m[1] \in Nat /\ l[1] <= Ends(l)
  BY LineProperties
<1>2. PICK x \in Int : x = l[1] - 1
  BY <1>1
<1>3. m[1] <= x /\ x < Ends(m)
  <2>1. Ends(m) \in Int
    BY LineProperties
  <2> QED BY <1>1, <1>2, <2>1
<1>4. x \in ToSet(m) /\ x \in DOMAIN log /\ ~HasText(x)
  BY <1>3, LineProperties
<1>5. l[1] = sent[r][c][1] /\ sent[r][c] # <<>>
  BY <1>2, <1>4 DEF FrontShown
<1>6. x < sent[r][c][1]
  BY <1>1, <1>2, <1>5
<1> QED BY <1>4, <1>5, <1>6 DEF HasText, BeginsAfter

\* All of it together.
LEMMA HeardAlways == Spec => [](TypeOK /\ HeardInv)
<1>1. Init => TypeOK /\ WalksInv /\ StreamInv /\ SessionInv /\ HeardInv
  BY TypesInductive, StreamsInductive, SessionInit, HeardInit
<1>2. TypeOK /\ WalksInv /\ StreamInv /\ SessionInv /\ HeardInv /\ [Next]_vars
        => (TypeOK /\ WalksInv /\ StreamInv /\ SessionInv /\ HeardInv)'
  BY TypesInductive, StreamStep, SessionStep, HeardStep DEF SessionInv
<1> QED BY <1>1, <1>2, PTL DEF Spec

(***************************************************************************)
(* A client shows the messages in the order of their commits, though it    *)
(* reads them from all servers at once, unless a server only began to send *)
(* to it after a message (Consume, Join).                                  *)
(***************************************************************************)
THEOREM ShownInOrder == Spec => []OutOfOrderOnlyAfterJoin
<1>1. TypeOK /\ HeardInv => OutOfOrderOnlyAfterJoin
  <2> SUFFICES ASSUME TypeOK, HeardInv, NEW c \in Clients, NEW i \in DOMAIN shown[c], NEW j \in DOMAIN shown[c],
                      i < j, FirstShown(c, j), Ends(shown[c][j]) < Ends(shown[c][i])
               PROVE  \E r \in Replicas : BeginsAfter(r, c, Ends(shown[c][j]))
    BY DEF OutOfOrderOnlyAfterJoin
  <2>1. PICK l, y : l = shown[c][i] /\ y = Ends(shown[c][j])
    OBVIOUS
  <2>2. LineAt(l) /\ LineAt(shown[c][j])
    BY <2>1 DEF HeardInv, ShownInv
  <2>3. PICK r \in Replicas : FrontShown(r, c, l[1], i - 1)
    BY <2>1 DEF HeardInv, ShownInv
  <2>4. y \in Nat /\ HasText(y) /\ y < Ends(l) /\ l[1] \in Nat
    <3>1. PICK m : m = shown[c][j] /\ LineAt(m) /\ y = Ends(m)
      BY <2>1, <2>2
    <3>2. y \in Nat /\ HasText(y)
      BY <3>1, LineProperties
    <3> QED BY <2>1, <2>2, <3>2, LineProperties
  <2>5. y < l[1]
    BY <2>2, <2>4, LineProperties
  <2>6. sent[r][c] # <<>> /\ sent[r][c][1] \in Nat
    <3>1. sent[r][c] \in Seq(Nat) /\ sent[r][c] # <<>>
      BY <2>3, TypeParts DEF ServerTypes, FrontShown
    <3> QED BY <3>1
  <2>7. ASSUME sent[r][c][1] <= y PROVE FALSE
    <3>1. y \in sent[r][c][1]..l[1] - 1
      BY <2>4, <2>5, <2>6, <2>7
    <3>2. PICK k \in 1..i - 1 : Ends(shown[c][k]) = y
      BY <2>3, <2>4, <3>1 DEF FrontShown
    <3>3. i \in Int /\ j \in Int
      BY TypeParts DEF ClientTypes
    <3>4. k \in 1..j - 1
      BY <3>2, <3>3
    <3> QED BY <2>1, <3>2, <3>4 DEF FirstShown
  <2> QED BY <2>1, <2>4, <2>6, <2>7 DEF BeginsAfter
<1> QED BY <1>1, HeardAlways, PTL

(***************************************************************************)
(* The window keeps copies away: an entry is shown a second time only more *)
(* than Size lines later, or with other blanks before it, which one of the *)
(* streams begins after (PushPop, ProposeBlank).                           *)
(***************************************************************************)
THEOREM CopiesAreDropped == Spec => []ShownOnce
<1>1. TypeOK /\ HeardInv => ShownOnce
  <2> SUFFICES ASSUME TypeOK, HeardInv, NEW c \in Clients, NEW i \in DOMAIN shown[c], NEW j \in DOMAIN shown[c],
                      i < j, Ends(shown[c][i]) = Ends(shown[c][j]), shown[c][i] # shown[c][j]
               PROVE  \E r \in Replicas, x \in ToSet(shown[c][i]) \cup ToSet(shown[c][j]) :
                        log[x].num = 0 /\ BeginsAfter(r, c, x)
    BY DEF ShownOnce, HeardInv, WindowAt
  <2>1. PICK l, m : l = shown[c][i] /\ m = shown[c][j]
    OBVIOUS
  <2>2. LineAt(l) /\ LineAt(m)
    BY <2>1 DEF HeardInv, ShownInv
  <2>3. PICK r \in Replicas : FrontShown(r, c, l[1], i - 1)
    BY <2>1 DEF HeardInv, ShownInv
  <2>4. PICK q \in Replicas : FrontShown(q, c, m[1], j - 1)
    BY <2>1 DEF HeardInv, ShownInv
  <2>5. l[1] # m[1] /\ l[1] \in Nat /\ m[1] \in Nat
    BY <2>1, <2>2, SameLine, LineProperties
  <2>6. CASE m[1] < l[1]
    BY <2>1, <2>2, <2>3, <2>6, BeganInside
  <2>7. CASE l[1] < m[1]
    BY <2>1, <2>2, <2>4, <2>7, BeganInside
  <2> QED BY <2>5, <2>6, <2>7
<1> QED BY <1>1, HeardAlways, PTL
=============================================================================
