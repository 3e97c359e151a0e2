-------------------------- MODULE MembershipProofs --------------------------
(***************************************************************************)
(* Proofs about Membership for every set of pods and names, every          *)
(* environment and every bound: what its variables hold, who may be taken  *)
(* out of the configuration, and that what is committed survives.          *)
(***************************************************************************)
EXTENDS Membership, OrderLemmas

-----------------------------------------------------------------------------
(* Types. *)

\* TypeOK, but for the ghosts, and with what a leader's term is at least.
Types ==
  /\ st \in [Pods -> {"fresh", "down", "booting", "raft", "up"}]
  /\ log \in [Pods -> Seq(Entry)]
  /\ term \in [Pods -> 0..MaxTerm]
  /\ commit \in [Pods -> Nat]
  /\ lead \in SUBSET Pods /\ \A p \in lead : term[p] >= 1
  /\ joins \in Seq(Pods \ {First})
  /\ handling \in Handling \cup {None}

\* A term that is the latest of some pods is a term.
LEMMA LatestTerm ==
  ASSUME term \in [Pods -> 0..MaxTerm], NEW Q \in SUBSET Pods, Q # {}
  PROVE  /\ (CHOOSE x \in {term[q] : q \in Q} : \A q \in Q : term[q] <= x) \in 0..MaxTerm
         /\ \A r \in Q : term[r] <= (CHOOSE x \in {term[q] : q \in Q} : \A q \in Q : term[q] <= x)
<1>0. MaxTerm \in Nat
  BY MembershipAssumption DEF MembershipAssumption
<1> DEFINE W == {k \in Nat : \A q \in Q : term[q] <= k}
<1>1. W \in SUBSET Nat /\ W # {}
  <2>1. MaxTerm \in W
    BY <1>0
  <2> QED BY <2>1
<1>2. PICK k \in W : \A j \in W : k <= j
  <2> HIDE DEF W
  <2> QED BY <1>1, Smallest
<1>3. k \in {term[q] : q \in Q}
  <2> SUFFICES ASSUME \A q \in Q : term[q] # k PROVE FALSE
    OBVIOUS
  <2>1. \A q \in Q : term[q] \in Nat /\ term[q] < k
    BY <1>0, <1>2
  <2>2. k - 1 \in W
    BY <1>2, <2>1
  <2> QED BY <1>2, <2>2
<1>4. \E x \in {term[q] : q \in Q} : \A q \in Q : term[q] <= x
  BY <1>2, <1>3
<1>5. \A x \in {term[q] : q \in Q} : x \in 0..MaxTerm
  OBVIOUS
<1> QED BY <1>4, <1>5

\* The members of a configuration are pods' own entries.
LEMMA ConfType ==
  ASSUME Types, NEW p \in Pods
  PROVE  /\ Conf(p) \subseteq Members /\ log[p] \in Seq(Entry) /\ Len(log[p]) \in Nat
         /\ log[p] # <<>> => Len(log[p]) \in DOMAIN log[p] /\ Conf(p) = log[p][Len(log[p])].conf
         /\ log[p] = <<>> => Conf(p) = {}
<1>1. log[p] \in Seq(Entry) /\ Len(log[p]) \in Nat
  BY DEF Types
<1>2. CASE log[p] = <<>>
  BY <1>1, <1>2 DEF Conf
<1>3. CASE log[p] # <<>>
  <2>1. Len(log[p]) \in DOMAIN log[p] /\ log[p][Len(log[p])] \in Entry
    BY <1>1, <1>3
  <2>2. Conf(p) = log[p][Len(log[p])].conf
    BY <1>3 DEF Conf, Last
  <2> QED BY <1>1, <1>3, <2>1, <2>2 DEF Entry
<1> QED BY <1>2, <1>3

\* Every pod's entry is its own.
LEMMA MemberProperties ==
  /\ \A p \in Pods : Member(p) \in Members /\ Member(p).addr = p /\ Member(p).id = Name(p)
  /\ \A m \in Members : m.addr \in Pods /\ m = Member(m.addr)
  BY DEF Members, Member

LEMMA InitTypes == Init => Types
  BY MembershipAssumption DEF MembershipAssumption, Init, Types

\* Raft's steps and the process' keep the types.
LEMMA DieTypes ==
  ASSUME Types, NEW p \in Pods, Die(p) PROVE Types'
<1>1. <<>> \in Seq(Entry) /\ <<>> \in Seq(Pods \ {First}) /\ 0 \in 0..MaxTerm
  BY MembershipAssumption DEF MembershipAssumption
<1>2. \A q \in lead' : q \in lead /\ q # p /\ term'[q] = term[q]
  BY DEF Types, Die
<1> QED BY <1>1, <1>2 DEF Types, Die

LEMMA ProcessTypes ==
  ASSUME Types, NEW p \in Pods, Boot(p) \/ StartRaft(p) \/ SendJoin(p) PROVE Types'
<1>1. CASE Boot(p)
  BY <1>1 DEF Types, Boot, raftVars
<1>2. CASE StartRaft(p)
  <2> DEFINE e == [term |-> 1, conf |-> {Member(p)}, cmd |-> None]
  <2>1. e \in Entry /\ 1 \in 0..MaxTerm
    BY MembershipAssumption, MemberProperties DEF MembershipAssumption, Entry
  <2>2. <<e>> \in Seq(Entry)
    BY <2>1
  <2> HIDE DEF e
  <2>3. log' = log \/ log' = [log EXCEPT ![p] = <<e>>]
    BY <1>2 DEF StartRaft, e
  <2>4. log' \in [Pods -> Seq(Entry)]
    BY <2>2, <2>3 DEF Types
  <2>5. term' \in [Pods -> 0..MaxTerm]
    BY <1>2, <2>1 DEF StartRaft, Types
  <2>6. \A q \in lead' : term'[q] >= 1
    <3>1. lead' = lead /\ (term' = term \/ term' = [term EXCEPT ![p] = 1])
      BY <1>2 DEF StartRaft
    <3>2. \A q \in lead : term'[q] = term[q] \/ term'[q] = 1
      BY <3>1 DEF Types
    <3>3. \A q \in lead : term[q] >= 1
      BY DEF Types
    <3>4. ASSUME NEW q \in lead PROVE term'[q] >= 1
      <4>1. CASE term'[q] = term[q]
        BY <3>3, <4>1
      <4>2. CASE term'[q] = 1
        BY <4>2
      <4> QED BY <3>2, <4>1, <4>2
    <3> QED BY <3>1, <3>4
  <2> QED BY <1>2, <2>4, <2>5, <2>6 DEF Types, StartRaft
<1>3. CASE SendJoin(p)
  <2>1. joins' \in Seq(Pods \ {First})
    BY <1>3, AppendProperties DEF SendJoin, Types
  <2> QED BY <1>3, <2>1 DEF Types, SendJoin, raftVars
<1> QED BY <1>1, <1>2, <1>3

\* An entry at the end of one log.
LEMMA AppendTypes ==
  ASSUME Types, NEW p \in Pods, NEW e \in Entry, log' = [log EXCEPT ![p] = Append(@, e)]
  PROVE  log' \in [Pods -> Seq(Entry)] /\ log'[p] = Append(log[p], e) /\ \A q \in Pods \ {p} : log'[q] = log[q]
<1>1. Append(log[p], e) \in Seq(Entry)
  BY ConfType, AppendProperties
<1> QED BY <1>1 DEF Types

LEMMA ElectTypes ==
  ASSUME Types, NEW p \in Pods, NEW Q \in SUBSET Pods, BecomeLeader(p, Q)
  PROVE  /\ Types' /\ joins' = joins /\ handling' = handling /\ st' = st
         /\ \E e \in Entry : log' = [log EXCEPT ![p] = Append(@, e)] /\ e.conf = Conf(p)
<1> DEFINE x == CHOOSE x \in {term[q] : q \in Q} : \A q \in Q : term[q] <= x
           t == 1 + x
           e == [term |-> t, conf |-> Conf(p), cmd |-> None]
<1>1. x \in 0..MaxTerm
  <2>1. Q # {} /\ term \in [Pods -> 0..MaxTerm]
    BY DEF BecomeLeader, Types
  <2> QED BY <2>1, LatestTerm
<1>2. /\ t <= MaxTerm /\ term' = [q \in Pods |-> IF q \in Q THEN t ELSE term[q]]
      /\ log' = [log EXCEPT ![p] = Append(@, e)]
      /\ lead' = lead \cup {p} /\ joins' = joins /\ handling' = handling /\ st' = st /\ commit' = commit
  BY DEF BecomeLeader
<1> HIDE DEF x
<1>3. t \in 1..MaxTerm /\ t \in 0..MaxTerm
  BY <1>1, <1>2, MembershipAssumption DEF MembershipAssumption
<1> HIDE DEF t
<1>4. e \in Entry /\ e.conf = Conf(p)
  BY <1>3, ConfType DEF Entry
<1> HIDE DEF e
<1>5. log' \in [Pods -> Seq(Entry)]
  BY <1>2, <1>4, AppendTypes
<1>6. term' \in [Pods -> 0..MaxTerm]
  BY <1>2, <1>3 DEF Types
<1>7. \A q \in lead' : term'[q] >= 1
  <2>1. p \in Q
    BY DEF BecomeLeader
  <2>2. \A q \in lead' : q \in Pods /\ (q = p \/ q \in lead)
    BY <1>2 DEF Types
  <2> QED BY <1>2, <1>3, <2>1, <2>2 DEF Types
<1>8. Types'
  BY <1>2, <1>5, <1>6, <1>7 DEF Types
<1> QED BY <1>2, <1>4, <1>8

\* A leader's entry, with any configuration.
LEMMA LeaderEntry ==
  ASSUME Types, NEW p \in lead, NEW conf \in SUBSET Members, NEW c \in Cmds \cup {None}
  PROVE  p \in Pods /\ [term |-> term[p], conf |-> conf, cmd |-> c] \in Entry
<1>1. p \in Pods /\ term[p] \in 0..MaxTerm /\ term[p] >= 1
  BY DEF Types
<1>2. term[p] \in 1..MaxTerm
  BY <1>1, MembershipAssumption DEF MembershipAssumption
<1> QED BY <1>1, <1>2 DEF Entry

LEMMA ProposeTypes ==
  ASSUME Types, NEW p \in Pods, NEW c \in Cmds, Propose(p, c)
  PROVE  /\ Types' /\ joins' = joins /\ handling' = handling /\ st' = st
         /\ \E e \in Entry : log' = [log EXCEPT ![p] = Append(@, e)] /\ e.conf = Conf(p)
<1> DEFINE e == [term |-> term[p], conf |-> Conf(p), cmd |-> c]
<1>1. p \in lead /\ log' = [log EXCEPT ![p] = Append(@, e)]
  BY DEF Propose
<1>2. e \in Entry /\ e.conf = Conf(p)
  BY <1>1, ConfType, LeaderEntry
<1> HIDE DEF e
<1>3. log' \in [Pods -> Seq(Entry)]
  BY <1>1, <1>2, AppendTypes
<1>4. Types'
  BY <1>3 DEF Types, Propose
<1> QED BY <1>1, <1>2, <1>4 DEF Propose

LEMMA CatchUpTypes ==
  ASSUME Types, NEW p \in Pods, NEW q \in Pods, CatchUp(p, q) PROVE Types'
<1>1. log' \in [Pods -> Seq(Entry)] /\ term' \in [Pods -> 0..MaxTerm]
  BY DEF Types, CatchUp
<1>2. \A r \in lead' : r \in lead /\ r # q /\ term'[r] = term[r]
  BY DEF Types, CatchUp
<1> QED BY <1>1, <1>2 DEF Types, CatchUp

LEMMA LeadTypes ==
  ASSUME Types, NEW p \in Pods, StepDown(p) \/ AdvanceCommit(p) PROVE Types'
<1>1. CASE StepDown(p)
  BY <1>1 DEF Types, StepDown
<1>2. CASE AdvanceCommit(p)
  <2>1. commit' \in [Pods -> Nat]
    BY <1>2, ConfType DEF Types, AdvanceCommit
  <2>2. lead' \subseteq lead
    BY <1>2 DEF AdvanceCommit
  <2> QED BY <1>2, <2>1, <2>2 DEF Types, AdvanceCommit
<1> QED BY <1>1, <1>2

\* A change of the configuration.
LEMMA ConfTypes ==
  ASSUME Types, handling # None, NEW conf \in SUBSET Members, AppendConf(conf)
  PROVE  /\ Types' /\ joins' = joins /\ st' = st
         /\ \E e \in Entry : log' = [log EXCEPT ![First] = Append(@, e)] /\ e.conf = conf
         /\ handling' = [handling EXCEPT !.idx = Len(log[First]) + 1]
<1> DEFINE e == [term |-> term[First], conf |-> conf, cmd |-> None]
<1>1. First \in lead /\ log' = [log EXCEPT ![First] = Append(@, e)]
  BY DEF AppendConf
<1>2. e \in Entry /\ e.conf = conf /\ First \in Pods
  BY <1>1, LeaderEntry
<1> HIDE DEF e
<1>3. log' \in [Pods -> Seq(Entry)]
  BY <1>1, <1>2, AppendTypes
<1>4. handling' \in Handling
  <2>1. handling \in Handling /\ Len(log[First]) + 1 \in Nat
    BY <1>2, ConfType DEF Types
  <2> QED BY <2>1 DEF Handling, AppendConf
<1>5. Types'
  BY <1>3, <1>4 DEF Types, AppendConf
<1> QED BY <1>1, <1>2, <1>5 DEF AppendConf

\* The request at the head of the queue.
LEMMA HandleTypes ==
  ASSUME Types, NEW p \in Pods, HandleJoin(p)
  PROVE  /\ Types' /\ p = joins[1] /\ p # First /\ Len(joins) \in Nat /\ 1 \in 1..Len(joins)
         /\ Len(joins') = Len(joins) - 1 /\ \A i \in 1..Len(joins) - 1 : joins'[i] = joins[i + 1]
<1>1. joins \in Seq(Pods \ {First}) /\ joins # <<>> /\ p = Head(joins) /\ joins' = Tail(joins)
  BY DEF HandleJoin, Types
<1>2. /\ Tail(joins) \in Seq(Pods \ {First}) /\ Len(Tail(joins)) = Len(joins) - 1
      /\ \A i \in 1..Len(Tail(joins)) : Tail(joins)[i] = joins[i + 1]
      /\ Head(joins) \in Pods \ {First}
  BY <1>1, HeadTailProperties
<1>3. Len(joins) \in Nat /\ 1 \in 1..Len(joins) /\ Head(joins) = joins[1]
  BY <1>1
<1>4. handling' \in Handling \cup {None}
  <2>1. \A m \in Conf(First) : m \in Members
    BY ConfType, MembershipAssumption DEF MembershipAssumption
  <2>2. [pod |-> p, todo |-> {m \in Conf(First) : m.id = Name(p) \/ m.addr = p}, idx |-> 0] \in Handling
    BY <2>1 DEF Handling
  <2> QED BY <2>2 DEF HandleJoin
<1>5. Types'
  BY <1>1, <1>2, <1>4 DEF Types, HandleJoin, raftVars
<1> QED BY <1>1, <1>2, <1>3, <1>5

LEMMA DoneTypes ==
  ASSUME Types, ChangeDone PROVE Types'
<1>1. handling \in Handling
  BY DEF Types, ChangeDone
<1>2. [handling EXCEPT !.todo = {m \in @ : m \in Conf(First)}, !.idx = 0] \in Handling
  BY <1>1 DEF Handling
<1>3. handling' \in Handling \cup {None}
  BY <1>2 DEF ChangeDone
<1> QED BY <1>3 DEF Types, ChangeDone, raftVars

\* What JoinRaft takes out and puts in.
LEMMA RemoveConf ==
  ASSUME Types, NEW m \in Members, RemoveServer(m)
  PROVE  /\ handling \in Handling /\ handling # None /\ handling.idx = 0 /\ m \in handling.todo
         /\ {x \in Conf(First) : x.id # m.id} \in SUBSET Members
         /\ AppendConf({x \in Conf(First) : x.id # m.id})
  BY ConfType, MembershipAssumption DEF MembershipAssumption, Types, RemoveServer

LEMMA AddConf ==
  ASSUME Types, AddServer
  PROVE  /\ handling \in Handling /\ handling # None /\ handling.todo = {} /\ handling.pod \in Pods
         /\ WithMember(Conf(First), Member(handling.pod)) \in SUBSET Members
         /\ WithMember(Conf(First), Member(handling.pod)) \subseteq Conf(First) \cup {Member(handling.pod)}
         /\ AppendConf(WithMember(Conf(First), Member(handling.pod)))
<1>1. handling \in Handling /\ handling.pod \in Pods
  BY DEF Types, AddServer, Handling
<1>2. Conf(First) \subseteq Members /\ Member(handling.pod) \in Members
  BY <1>1, ConfType, MemberProperties, MembershipAssumption DEF MembershipAssumption
<1> QED BY <1>1, <1>2 DEF AddServer, WithMember

\* An election is of a pod by pods.
LEMMA Elected ==
  ASSUME Elect PROVE \E p \in Pods : \E Q \in SUBSET Pods : BecomeLeader(p, Q)
<1>1. PICK p \in Pods : \E Q \in Quorums(p) : BecomeLeader(p, Q)
  BY DEF Elect
<1>2. Quorums(p) \subseteq SUBSET Pods
  BY DEF Quorums, Up
<1> QED BY <1>1, <1>2

LEMMA TypesStep == ASSUME Types, [Next]_vars PROVE Types'
<1>1. ASSUME NEW p \in Pods, Crash(p) PROVE Types'
  BY <1>1, DieTypes DEF Crash
<1>2. CASE HandleJoinTooEarly \/ JoinFails
  BY <1>2, DieTypes, MembershipAssumption DEF MembershipAssumption, HandleJoinTooEarly, JoinFails
<1>3. ASSUME NEW m \in Members, RemoveServer(m) PROVE Types'
  BY <1>3, RemoveConf, ConfTypes
<1>4. CASE AddServer
  BY <1>4, AddConf, ConfTypes
<1>5. CASE UNCHANGED vars
  BY <1>5 DEF Types, vars, raftVars
<1> QED BY <1>1, <1>2, <1>3, <1>4, <1>5, ProcessTypes, Elected, ElectTypes, ProposeTypes, CatchUpTypes, LeadTypes,
           HandleTypes, DoneTypes
        DEF Next, JoinSteps

-----------------------------------------------------------------------------
(* Who is taken out. *)

\* A pod whose process is started again shares its name with no other.
OwnNames == \A p \in Restarting, q \in Pods : Name(q) = Name(p) => q = p

\* p's entry is in no log.
Unknown(p) == \A q \in Pods : \A i \in DOMAIN log[q] : Member(p) \notin log[q][i].conf

Waits(p) == st[p] \in {"fresh", "booting", "raft"}
InQueue(p) == \E i \in DOMAIN joins : joins[i] = p
Handled(p) == handling # None /\ handling.pod = p
Added == handling.idx > 0 /\ handling.todo = {}

(***************************************************************************)
(* A pod that is not started again asks once, and is not known before its  *)
(* request is answered.                                                    *)
(***************************************************************************)
Once(p) ==
  /\ Waits(p) \/ InQueue(p) \/ (Handled(p) /\ ~Added) => Unknown(p)
  /\ \A i, j \in DOMAIN joins : joins[i] = p /\ joins[j] = p => i = j
  /\ Waits(p) => ~InQueue(p)
  /\ Waits(p) \/ InQueue(p) => ~Handled(p)

Singles == Pods \ (Restarting \cup {First})

\* Those to be removed for a joiner have its name, but not its address.
TodoInv ==
  handling # None =>
    handling.pod # First /\ \A m \in handling.todo : m.id = Name(handling.pod) /\ m.addr # handling.pod

JoinInv == Types /\ TodoInv /\ \A p \in Singles : Once(p)

\* Every log is one there was, perhaps without its entries, and perhaps with a new entry that
\* brings none but the members N.
LogsFrom(N) ==
  \A q \in Pods : \E s \in {<<>>} \cup {log[p] : p \in Pods} :
    log'[q] = s \/ \E e \in Entry : log'[q] = Append(s, e) /\ e.conf \subseteq N \cup UNION {Conf(p) : p \in Pods}

LEMMA UnknownStays ==
  ASSUME Types, NEW r \in Pods, Unknown(r), NEW N, LogsFrom(N), Member(r) \notin N
  PROVE  Unknown(r)'
<1>1. ASSUME NEW p \in Pods PROVE Member(r) \notin Conf(p)
  <2>1. CASE log[p] = <<>>
    BY <2>1, ConfType
  <2>2. CASE log[p] # <<>>
    BY <2>2, ConfType DEF Unknown
  <2> QED BY <2>1, <2>2
<1>2. ASSUME NEW q \in Pods, NEW i \in DOMAIN log'[q] PROVE Member(r) \notin log'[q][i].conf
  <2>1. PICK s \in {<<>>} \cup {log[p] : p \in Pods} :
          log'[q] = s \/ \E e \in Entry : log'[q] = Append(s, e) /\ e.conf \subseteq N \cup UNION {Conf(p) : p \in Pods}
    BY DEF LogsFrom
  <2>2. s \in Seq(Entry) /\ Len(s) \in Nat /\ \A j \in 1..Len(s) : Member(r) \notin s[j].conf
    <3>1. CASE s = <<>>
      BY <3>1
    <3>2. ASSUME NEW p \in Pods, s = log[p] PROVE s \in Seq(Entry) /\ \A j \in 1..Len(s) : Member(r) \notin s[j].conf
      <4>1. log[p] \in Seq(Entry)
        BY ConfType
      <4>2. DOMAIN log[p] = 1..Len(log[p])
        BY <4>1
      <4> QED BY <3>2, <4>1, <4>2 DEF Unknown
    <3> QED BY <3>1, <3>2
  <2>3. CASE log'[q] = s
    <3>1. i \in 1..Len(s)
      BY <2>2, <2>3
    <3> QED BY <2>2, <2>3, <3>1
  <2>4. ASSUME NEW e \in Entry, log'[q] = Append(s, e), e.conf \subseteq N \cup UNION {Conf(p) : p \in Pods}
        PROVE  Member(r) \notin log'[q][i].conf
    <3>1. PICK t : t = Append(s, e)
      OBVIOUS
    <3>2. t \in Seq(Entry) /\ Len(t) = Len(s) + 1 /\ (\A j \in 1..Len(s) : t[j] = s[j]) /\ t[Len(s) + 1] = e
      BY <2>2, <3>1, AppendProperties
    <3>3. i \in 1..Len(s) \/ i = Len(s) + 1
      <4>1. i \in 1..Len(t)
        BY <2>4, <3>1, <3>2
      <4> QED BY <2>2, <3>2, <4>1
    <3>4. Member(r) \notin e.conf
      BY <1>1, <2>4
    <3> QED BY <2>2, <2>4, <3>1, <3>2, <3>3, <3>4
  <2> QED BY <2>1, <2>3, <2>4
<1> QED BY <1>2 DEF Unknown

LEMMA SameLogs == ASSUME log' = log, NEW N PROVE LogsFrom(N)
  BY DEF LogsFrom

\* A log with an entry more.
LEMMA AppendedLogs ==
  ASSUME Types, NEW p \in Pods, NEW e \in Entry, log' = [log EXCEPT ![p] = Append(@, e)],
         NEW N, e.conf \subseteq N \cup Conf(p)
  PROVE  LogsFrom(N)
<1>1. log'[p] = Append(log[p], e) /\ \A q \in Pods \ {p} : log'[q] = log[q]
  BY AppendTypes
<1>2. e.conf \subseteq N \cup UNION {Conf(q) : q \in Pods}
  OBVIOUS
<1> QED BY <1>1, <1>2 DEF LogsFrom

\* A step that adds nothing to the queue and changes no request.
LEMMA OnceStays ==
  ASSUME Types, NEW r \in Singles, Once(r), LogsFrom({}), joins' = joins, handling' = handling, Waits(r)' => Waits(r)
  PROVE  Once(r)'
<1>1. Unknown(r) => Unknown(r)'
  BY UnknownStays DEF Singles
<1>2. (InQueue(r)' <=> InQueue(r)) /\ (Handled(r)' <=> Handled(r)) /\ (Added' <=> Added)
  BY DEF InQueue, Handled, Added
<1> QED BY <1>1, <1>2 DEF Once

LEMMA TodoStays == ASSUME TodoInv, handling' = handling PROVE TodoInv'
  BY DEF TodoInv, Name

\* A process ends.
LEMMA DieJoin ==
  ASSUME JoinInv, NEW p \in Pods, Die(p) PROVE TodoInv' /\ \A r \in Singles : Once(r)'
<1>0. Types
  BY DEF JoinInv
<1>1. CASE p # First
  <2>1. joins' = joins /\ handling' = handling
    BY <1>1 DEF Die
  <2> QED
  <3>1. LogsFrom({})
    BY <1>0 DEF Die, LogsFrom, Types
  <3>2. ASSUME NEW r \in Singles PROVE Waits(r)' => Waits(r)
    BY <1>0 DEF Die, Waits, Types, Singles
  <3> QED BY <1>0, <2>1, <3>1, <3>2, OnceStays, TodoStays DEF JoinInv
<1>2. CASE p = First
  <2>1. joins' = <<>> /\ handling' = None
    BY <1>2 DEF Die
  <2>2. LogsFrom({})
    BY <1>0 DEF Die, LogsFrom, Types
  <2>3. ASSUME NEW r \in Singles PROVE Once(r)'
    <3>1. Waits(r)' => Waits(r)
      BY <1>0 DEF Die, Waits, Types, Singles
    <3>2. Unknown(r) => Unknown(r)'
      BY <1>0, <2>2, UnknownStays DEF Singles
    <3>3. ~InQueue(r)' /\ ~Handled(r)' /\ DOMAIN joins' = {}
      BY <2>1 DEF InQueue, Handled
    <3> QED BY <3>1, <3>2, <3>3 DEF Once, JoinInv
  <2> QED BY <2>1, <2>3 DEF TodoInv
<1> QED BY <1>1, <1>2

\* A process starts, and asks to join.
LEMMA ProcessJoin ==
  ASSUME JoinInv, NEW p \in Pods, Boot(p) \/ StartRaft(p) \/ SendJoin(p)
  PROVE  TodoInv' /\ \A r \in Singles : Once(r)'
<1>0. Types /\ handling' = handling
  BY DEF JoinInv, Boot, StartRaft, SendJoin
<1>1. CASE Boot(p)
  <2>1. ASSUME NEW r \in Singles PROVE Waits(r)' => Waits(r)
    BY <1>0, <1>1 DEF Boot, Waits, Types, Singles
  <2>2. LogsFrom({}) /\ joins' = joins
    BY <1>1, SameLogs DEF Boot, raftVars
  <2> QED BY <1>0, <2>1, <2>2, OnceStays, TodoStays DEF JoinInv
<1>2. CASE StartRaft(p)
  <2> DEFINE e == [term |-> 1, conf |-> {Member(First)}, cmd |-> None]
  <2>1. e \in Entry /\ e.conf = {Member(First)}
    BY MembershipAssumption, MemberProperties DEF MembershipAssumption, Entry
  <2> HIDE DEF e
  <2>2. log' = log \/ (p = First /\ log' = [log EXCEPT ![p] = <<e>>])
    BY <1>2 DEF StartRaft, e
  <2>3. LogsFrom({Member(First)})
    <3>1. CASE log' = log
      BY <3>1, SameLogs
    <3>2. CASE log' = [log EXCEPT ![p] = <<e>>]
      <4>1. log'[p] = Append(<<>>, e) /\ \A q \in Pods \ {p} : log'[q] = log[q]
        BY <1>0, <3>2 DEF Types
      <4> QED BY <2>1, <4>1 DEF LogsFrom
    <3> QED BY <2>2, <3>1, <3>2
  <2>4. ASSUME NEW r \in Singles PROVE Once(r)'
    <3>1. Waits(r)' => Waits(r)
      BY <1>0, <1>2 DEF StartRaft, Waits, Types, Singles
    <3>2. Member(r) # Member(First) /\ r \in Pods
      BY MemberProperties, MembershipAssumption DEF MembershipAssumption, Singles
    <3>3. Unknown(r) => Unknown(r)'
      BY <1>0, <2>3, <3>2, UnknownStays
    <3>4. joins' = joins
      BY <1>2 DEF StartRaft
    <3>5. (InQueue(r)' <=> InQueue(r)) /\ (Handled(r)' <=> Handled(r)) /\ (Added' <=> Added)
      BY <1>0, <3>4 DEF InQueue, Handled, Added
    <3> QED BY <3>1, <3>3, <3>4, <3>5 DEF Once, JoinInv
  <2> QED BY <1>0, <2>4, TodoStays DEF JoinInv
<1>3. CASE SendJoin(p)
  <2>1. /\ joins' = Append(joins, p) /\ joins \in Seq(Pods \ {First}) /\ p \in Pods \ {First}
        /\ Waits(p) /\ st' = [st EXCEPT ![p] = "up"]
    BY <1>0, <1>3 DEF SendJoin, Types, Waits
  <2>2. /\ Len(joins) \in Nat /\ DOMAIN joins = 1..Len(joins) /\ DOMAIN joins' = 1..Len(joins) + 1
        /\ \A i \in 1..Len(joins) : joins'[i] = joins[i]
        /\ joins'[Len(joins) + 1] = p
    <3>1. PICK t : t = Append(joins, p)
      OBVIOUS
    <3>2. t \in Seq(Pods \ {First}) /\ Len(t) = Len(joins) + 1 /\ t[Len(joins) + 1] = p
          /\ \A i \in 1..Len(joins) : t[i] = joins[i]
      BY <2>1, <3>1, AppendProperties
    <3> QED BY <2>1, <3>1, <3>2
  <2>3. LogsFrom({})
    BY <1>3, SameLogs DEF SendJoin, raftVars
  <2>4. ASSUME NEW r \in Singles PROVE Once(r)'
    <3>1. /\ Waits(r)' => Waits(r) /\ r # p
          /\ Unknown(r) => Unknown(r)'
      BY <1>0, <2>1, <2>3, UnknownStays DEF Waits, Types, Singles
    <3>2. (Handled(r)' <=> Handled(r)) /\ (Added' <=> Added) /\ Once(r)
      BY <1>0 DEF Handled, Added, JoinInv
    <3>3. InQueue(r)' => InQueue(r) \/ r = p
      BY <2>2 DEF InQueue
    <3>4. r = p => ~InQueue(r)
      BY <2>1, <3>2 DEF Once
    <3>5. \A i, j \in DOMAIN joins' : joins'[i] = r /\ joins'[j] = r => i = j
      <4>1. \A i \in DOMAIN joins' : i \in DOMAIN joins \/ i = Len(joins) + 1
        BY <2>2
      <4>2. \A i \in DOMAIN joins : joins'[i] = r => joins[i] = r /\ r # p
        BY <2>2, <3>4 DEF InQueue
      <4> QED BY <2>2, <3>2, <4>1, <4>2 DEF Once
    <3> QED BY <2>1, <3>1, <3>2, <3>3, <3>4, <3>5 DEF Once
  <2> QED BY <1>0, <2>4, TodoStays DEF JoinInv
<1> QED BY <1>1, <1>2, <1>3

\* Raft's steps.
LEMMA RaftJoin ==
  ASSUME JoinInv, joins' = joins, handling' = handling, st' = st, LogsFrom({})
  PROVE  TodoInv' /\ \A r \in Singles : Once(r)'
<1>1. \A r \in Singles : Waits(r)' => Waits(r)
  BY DEF Waits
<1> QED BY <1>1, OnceStays, TodoStays DEF JoinInv

LEMMA ElectLogs ==
  ASSUME Types, NEW p \in Pods, NEW Q \in SUBSET Pods, BecomeLeader(p, Q)
  PROVE  LogsFrom({}) /\ joins' = joins /\ handling' = handling /\ st' = st
  BY ElectTypes, AppendedLogs

LEMMA ProposeLogs ==
  ASSUME Types, NEW p \in Pods, NEW c \in Cmds, Propose(p, c)
  PROVE  LogsFrom({}) /\ joins' = joins /\ handling' = handling /\ st' = st
  BY ProposeTypes, AppendedLogs

LEMMA CatchUpLogs ==
  ASSUME Types, NEW p \in Pods, NEW q \in Pods, CatchUp(p, q)
  PROVE  LogsFrom({}) /\ joins' = joins /\ handling' = handling /\ st' = st
<1>1. log' = [log EXCEPT ![q] = log[p]]
  BY DEF CatchUp
<1>2. LogsFrom({})
  BY <1>1 DEF LogsFrom, Types
<1> QED BY <1>2 DEF CatchUp

LEMMA LeadLogs ==
  ASSUME Types, NEW p \in Pods, StepDown(p) \/ AdvanceCommit(p)
  PROVE  LogsFrom({}) /\ joins' = joins /\ handling' = handling /\ st' = st
  BY SameLogs DEF StepDown, AdvanceCommit

\* The listener takes a request.
LEMMA HandleJoins ==
  ASSUME JoinInv, NEW p \in Pods, HandleJoin(p)
  PROVE  TodoInv' /\ \A r \in Singles : Once(r)'
<1>0. /\ Types /\ p = joins[1] /\ p # First /\ Len(joins) \in Nat /\ 1 \in 1..Len(joins)
      /\ Len(joins') = Len(joins) - 1 /\ \A i \in 1..Len(joins) - 1 : joins'[i] = joins[i + 1]
  BY HandleTypes DEF JoinInv
<1>1. joins \in Seq(Pods \ {First}) /\ joins' \in Seq(Pods \ {First}) /\ DOMAIN joins = 1..Len(joins)
      /\ DOMAIN joins' = 1..Len(joins) - 1
  BY <1>0, HandleTypes DEF Types
<1> DEFINE h == [pod |-> p, todo |-> {m \in Conf(First) : m.id = Name(p) \/ m.addr = p}, idx |-> 0]
<1>2. /\ handling = None /\ UNCHANGED <<st, log>>
      /\ handling' = None \/ (handling' = h /\ \A m \in Conf(First) : ~SameNode(m, p))
  BY DEF HandleJoin, raftVars
<1>3. TodoInv'
  <2> SUFFICES ASSUME handling' # None, NEW m \in handling'.todo
               PROVE  m.id = Name(handling'.pod) /\ m.addr # handling'.pod
    BY <1>0, <1>2 DEF TodoInv, Name
  <2>1. handling'.pod = p /\ m \in Conf(First) /\ (m.id = Name(p) \/ m.addr = p) /\ ~SameNode(m, p)
    BY <1>2
  <2>2. m \in Members
    BY <2>1, ConfType, <1>0, MembershipAssumption DEF MembershipAssumption
  <2>3. m = Member(m.addr) /\ m.addr \in Pods
    BY <2>2, MemberProperties
  <2>4. m.addr # p
    BY <2>1, <2>3, MemberProperties DEF SameNode
  <2> QED BY <2>1, <2>4
<1>4. ASSUME NEW r \in Singles PROVE Once(r)'
  <2>1. Once(r) /\ ~Handled(r)
    BY <1>2 DEF JoinInv, Handled
  <2>2. Waits(r)' <=> Waits(r)
    BY <1>2 DEF Waits
  <2>3. Unknown(r) => Unknown(r)'
    BY <1>2 DEF Unknown, Member, Name
  <2>4. ASSUME NEW i \in DOMAIN joins', joins'[i] = r
        PROVE  i \in Nat /\ i + 1 \in DOMAIN joins /\ joins[i + 1] = r /\ i + 1 # 1
    BY <1>0, <1>1, <2>4
  <2>5. InQueue(r)' => InQueue(r) /\ r # p
    <3>1. 1 \in DOMAIN joins
      BY <1>0, <1>1
    <3> QED BY <1>0, <2>1, <2>4, <3>1 DEF InQueue, Once
  <2>6. Handled(r)' => r = p /\ InQueue(r)
    <3>1. InQueue(p)
      BY <1>0, <1>1 DEF InQueue
    <3> QED BY <1>2, <3>1 DEF Handled
  <2>7. \A i, j \in DOMAIN joins' : joins'[i] = r /\ joins'[j] = r => i = j
    <3> SUFFICES ASSUME NEW i \in DOMAIN joins', NEW j \in DOMAIN joins', joins'[i] = r, joins'[j] = r PROVE i = j
      OBVIOUS
    <3>1. i + 1 = j + 1
      BY <2>1, <2>4 DEF Once
    <3> QED BY <2>4, <3>1
  <2> QED BY <2>1, <2>2, <2>3, <2>5, <2>6, <2>7 DEF Once
<1> QED BY <1>3, <1>4

\* JoinRaft's changes.
LEMMA ChangeJoins ==
  ASSUME JoinInv, ChangeDone
  PROVE  TodoInv' /\ \A r \in Singles : Once(r)'
<1>0. Types /\ handling \in Handling /\ handling # None /\ handling.idx > 0 /\ UNCHANGED <<st, log, joins>>
  BY DEF JoinInv, Types, ChangeDone, raftVars
<1>1. \/ handling' = None
      \/ /\ handling'.pod = handling.pod /\ handling'.todo \subseteq handling.todo
         /\ handling.todo # {}
  <2>1. handling.todo # {} => handling' = [handling EXCEPT !.todo = {m \in @ : m \in Conf(First)}, !.idx = 0]
    BY DEF ChangeDone
  <2>2. handling.todo = {} => handling' = None
    BY DEF ChangeDone
  <2>3. ASSUME handling.todo # {}
        PROVE  handling'.pod = handling.pod /\ handling'.todo \subseteq handling.todo
    BY <1>0, <2>1, <2>3 DEF Handling
  <2> QED BY <2>2, <2>3
<1>2. TodoInv'
  BY <1>0, <1>1 DEF JoinInv, TodoInv, Name
<1>3. ASSUME NEW r \in Singles PROVE Once(r)'
  <2>1. (Waits(r)' <=> Waits(r)) /\ (InQueue(r)' <=> InQueue(r)) /\ (Unknown(r) => Unknown(r)') /\ Once(r)
    BY <1>0 DEF Waits, InQueue, Unknown, Member, Name, JoinInv
  <2>2. Handled(r)' => Handled(r) /\ ~Added
    BY <1>0, <1>1 DEF Handled, Added
  <2> QED BY <1>0, <2>1, <2>2 DEF Once
<1> QED BY <1>2, <1>3

LEMMA RemoveJoins ==
  ASSUME JoinInv, NEW m \in Members, RemoveServer(m)
  PROVE  TodoInv' /\ \A r \in Singles : Once(r)'
<1> DEFINE conf == {x \in Conf(First) : x.id # m.id}
<1>0. /\ Types /\ handling \in Handling /\ handling # None /\ m \in handling.todo
      /\ conf \in SUBSET Members /\ conf \subseteq Conf(First) /\ AppendConf(conf) /\ First \in Pods
  BY RemoveConf, MembershipAssumption DEF MembershipAssumption, JoinInv
<1> HIDE DEF conf
<1>1. /\ joins' = joins /\ st' = st
      /\ \E e \in Entry : log' = [log EXCEPT ![First] = Append(@, e)] /\ e.conf = conf
      /\ handling' = [handling EXCEPT !.idx = Len(log[First]) + 1]
  BY <1>0, ConfTypes
<1>2. handling'.pod = handling.pod /\ handling'.todo = handling.todo
  BY <1>0, <1>1 DEF Handling
<1>3. TodoInv'
  BY <1>0, <1>2 DEF JoinInv, TodoInv, Name
<1>4. LogsFrom({})
  BY <1>0, <1>1, AppendedLogs
<1>5. ASSUME NEW r \in Singles PROVE Once(r)'
  <2>1. (Waits(r)' <=> Waits(r)) /\ (InQueue(r)' <=> InQueue(r)) /\ Once(r)
    BY <1>1 DEF Waits, InQueue, JoinInv
  <2>2. Unknown(r) => Unknown(r)'
    BY <1>0, <1>4, UnknownStays DEF Singles
  <2>3. Handled(r)' => Handled(r) /\ ~Added
    BY <1>0, <1>2 DEF Handled, Added
  <2> QED BY <1>1, <2>1, <2>2, <2>3 DEF Once
<1> QED BY <1>3, <1>5

LEMMA AddJoins ==
  ASSUME JoinInv, AddServer
  PROVE  TodoInv' /\ \A r \in Singles : Once(r)'
<1> DEFINE conf == WithMember(Conf(First), Member(handling.pod))
<1>0. /\ Types /\ handling \in Handling /\ handling # None /\ handling.todo = {} /\ handling.pod \in Pods
      /\ conf \in SUBSET Members /\ conf \subseteq {Member(handling.pod)} \cup Conf(First) /\ AppendConf(conf)
      /\ First \in Pods
  BY AddConf, MembershipAssumption DEF MembershipAssumption, JoinInv
<1> HIDE DEF conf
<1>1. /\ joins' = joins /\ st' = st
      /\ \E e \in Entry : log' = [log EXCEPT ![First] = Append(@, e)] /\ e.conf = conf
      /\ handling' = [handling EXCEPT !.idx = Len(log[First]) + 1]
  BY <1>0, ConfTypes
<1>2. handling'.pod = handling.pod /\ handling'.todo = {} /\ handling'.idx > 0
  <2>1. Len(log[First]) \in Nat
    BY <1>0, ConfType
  <2> QED BY <1>0, <1>1, <2>1 DEF Handling
<1>3. TodoInv'
  BY <1>0, <1>2 DEF JoinInv, TodoInv
<1>4. PICK N : N = {Member(handling.pod)}
  OBVIOUS
<1>5. LogsFrom(N)
  BY <1>0, <1>1, <1>4, AppendedLogs
<1>6. ASSUME NEW r \in Singles PROVE Once(r)'
  <2>1. (Waits(r)' <=> Waits(r)) /\ (InQueue(r)' <=> InQueue(r)) /\ Once(r) /\ r \in Pods
    BY <1>1 DEF Waits, InQueue, JoinInv, Singles
  <2>2. (Handled(r)' => Handled(r)) /\ Added'
    BY <1>0, <1>2 DEF Handled, Added
  <2>3. CASE r = handling.pod
    <3>1. Handled(r)
      BY <1>0, <2>3 DEF Handled
    <3> QED BY <1>1, <2>1, <2>2, <3>1 DEF Once
  <2>4. CASE r # handling.pod
    <3>1. Member(r) \notin N
      BY <1>0, <1>4, <2>1, <2>4, MemberProperties
    <3>2. Unknown(r) => Unknown(r)'
      BY <1>0, <1>5, <2>1, <3>1, UnknownStays
    <3> QED BY <1>1, <2>1, <2>2, <3>2 DEF Once
  <2> QED BY <2>3, <2>4
<1> QED BY <1>3, <1>6

LEMMA JoinInit == Init => JoinInv
<1> SUFFICES ASSUME Init PROVE JoinInv
  OBVIOUS
<1>1. joins = <<>> /\ handling = None /\ \A p \in Pods : log[p] = <<>>
  BY DEF Init
<1>2. ASSUME NEW r \in Singles PROVE Once(r)
  <2>1. Unknown(r) /\ ~InQueue(r) /\ ~Handled(r) /\ DOMAIN joins = {}
    BY <1>1 DEF Unknown, InQueue, Handled
  <2> QED BY <2>1 DEF Once
<1> QED BY <1>1, <1>2, InitTypes DEF JoinInv, TodoInv

LEMMA JoinStep == ASSUME JoinInv, [Next]_vars PROVE JoinInv'
<1> DEFINE Keeps == TodoInv' /\ \A r \in Singles : Once(r)'
<1>0. Types /\ Types'
  BY TypesStep DEF JoinInv
<1>1. ASSUME NEW p \in Pods, Boot(p) \/ StartRaft(p) \/ SendJoin(p) \/ Crash(p) PROVE Keeps
  BY <1>1, ProcessJoin, DieJoin DEF Crash
<1>2. ASSUME Elect PROVE Keeps
  BY <1>0, <1>2, Elected, ElectLogs, RaftJoin
<1>3. ASSUME NEW p \in Pods, StepDown(p) \/ AdvanceCommit(p) PROVE Keeps
  BY <1>0, <1>3, LeadLogs, RaftJoin
<1>4. ASSUME NEW p \in Pods, NEW c \in Cmds, Propose(p, c) PROVE Keeps
  BY <1>0, <1>4, ProposeLogs, RaftJoin
<1>5. ASSUME NEW p \in Pods, NEW q \in Pods, CatchUp(p, q) PROVE Keeps
  BY <1>0, <1>5, CatchUpLogs, RaftJoin
<1>6. ASSUME JoinSteps PROVE Keeps
  <2>1. CASE HandleJoinTooEarly \/ JoinFails
    BY <2>1, DieJoin, MembershipAssumption DEF MembershipAssumption, HandleJoinTooEarly, JoinFails
  <2> QED BY <1>6, <2>1, HandleJoins, ChangeJoins, RemoveJoins, AddJoins DEF JoinSteps
<1>7. ASSUME UNCHANGED vars PROVE Keeps
  <2>1. joins' = joins /\ handling' = handling /\ st' = st /\ LogsFrom({})
    BY <1>7, SameLogs DEF vars, raftVars
  <2> QED BY <2>1, RaftJoin
<1>8. Keeps
  <2> HIDE DEF Keeps
  <2> QED BY <1>1, <1>2, <1>3, <1>4, <1>5, <1>6, <1>7 DEF Next
<1> QED BY <1>0, <1>8 DEF JoinInv

\* A process that leads runs.
LeadersRun == lead \subseteq Up

LEMMA LeadersRunStep == ASSUME Types, LeadersRun, [Next]_vars PROVE LeadersRun'
<1>1. ASSUME NEW p \in Pods, Boot(p) \/ StartRaft(p) \/ SendJoin(p) PROVE LeadersRun'
  BY <1>1 DEF Types, LeadersRun, Up, Boot, StartRaft, SendJoin, raftVars
<1>2. ASSUME NEW p \in Pods, Die(p) PROVE LeadersRun'
  BY <1>2 DEF Types, LeadersRun, Up, Die
<1>3. ASSUME st' = st, lead' \subseteq lead PROVE LeadersRun'
  BY <1>3 DEF LeadersRun, Up
<1>4. ASSUME NEW p \in Pods, NEW Q, BecomeLeader(p, Q) PROVE LeadersRun'
  <2>1. p \in Up /\ lead' = lead \cup {p} /\ st' = st
    BY <1>4 DEF BecomeLeader
  <2> QED BY <2>1 DEF LeadersRun, Up
<1>5. ASSUME NEW p \in Pods, StepDown(p) \/ AdvanceCommit(p) PROVE LeadersRun'
  BY <1>3, <1>5 DEF StepDown, AdvanceCommit
<1>6. ASSUME NEW p, NEW c, Propose(p, c) \/ CatchUp(p, c) PROVE LeadersRun'
  BY <1>3, <1>6 DEF Propose, CatchUp
<1>7. CASE JoinSteps
  <2>1. CASE HandleJoinTooEarly \/ JoinFails
    BY <1>2, <2>1, MembershipAssumption DEF MembershipAssumption, HandleJoinTooEarly, JoinFails
  <2>2. ASSUME NEW p, HandleJoin(p) PROVE LeadersRun'
    BY <1>3, <2>2 DEF HandleJoin, raftVars
  <2>3. CASE AddServer \/ ChangeDone \/ \E m \in Members : RemoveServer(m)
    BY <1>3, <2>3 DEF AddServer, ChangeDone, RemoveServer, AppendConf, raftVars
  <2> QED BY <1>7, <2>1, <2>2, <2>3 DEF JoinSteps
<1>8. CASE UNCHANGED vars
  BY <1>3, <1>8 DEF vars, raftVars
<1> QED BY <1>1, <1>2, <1>4, <1>5, <1>6, <1>7, <1>8 DEF Next, Elect, Crash

\* Whom RemoveServer takes out.
LEMMA RemoveNamesake ==
  ASSUME OwnNames, JoinInv, NEW m \in Members, RemoveServer(m), NEW x \in Conf(First), x.id = m.id
  PROVE  ByNamesake(x)
<1>1. handling \in Handling /\ handling # None /\ handling.idx = 0 /\ m \in handling.todo /\ Types /\ First \in Pods
  BY RemoveConf, MembershipAssumption DEF MembershipAssumption, JoinInv
<1>2. PICK p \in Pods \ {First} : p = handling.pod
  BY <1>1 DEF Handling, JoinInv, TodoInv
<1>3. m.id = Name(p) /\ m.addr # p /\ m.addr \in Pods /\ m = Member(m.addr)
  BY <1>1, <1>2, MemberProperties DEF JoinInv, TodoInv
<1>4. x \in Members /\ x = Member(x.addr)
  <2>1. x \in Members
    BY <1>1, ConfType
  <2> QED BY <2>1, MemberProperties
<1>5. p \notin Restarting
  <2>1. Name(m.addr) = Name(p)
    BY <1>3, MemberProperties
  <2> QED BY <1>3, <2>1 DEF OwnNames
<1>6. x # Member(p)
  <2>1. p \in Singles
    BY <1>2, <1>5 DEF Singles
  <2>2. Unknown(p)
    BY <1>1, <1>2, <2>1 DEF JoinInv, Once, Handled, Added
  <2>3. log[First] # <<>> /\ Len(log[First]) \in DOMAIN log[First] /\ Conf(First) = log[First][Len(log[First])].conf
    BY <1>1, ConfType
  <2> QED BY <1>1, <2>2, <2>3 DEF Unknown
<1>7. x.addr # p
  BY <1>4, <1>6
<1> QED BY <1>1, <1>2, <1>3, <1>7 DEF ByNamesake, SameNode

(***************************************************************************)
(* If every pod whose process is started again has a name of its own, a    *)
(* leading first pod takes a node out of the configuration only for        *)
(* another node of that name that has asked to join, through all           *)
(* elections, faults and copies of older logs (JoinRaft).                  *)
(***************************************************************************)
THEOREM OnlyNamesakesAreRemoved ==
  ASSUME OwnNames PROVE Spec => OnlyNamesakesRemove
<1>1. ASSUME JoinInv, LeadersRun, [Next]_vars, FirstKeepsLeading, NEW x \in Conf(First) \ Conf(First)'
      PROVE  ByNamesake(x)
  <2>0. Types /\ First \in Pods /\ First \in lead /\ First \in lead'
    BY <1>1, MembershipAssumption DEF MembershipAssumption, JoinInv, FirstKeepsLeading
  <2>1. ASSUME log'[First] = log[First] PROVE FALSE
    BY <1>1, <2>1 DEF Conf
  <2>2. ASSUME NEW e \in Entry, log' = [log EXCEPT ![First] = Append(@, e)] PROVE Conf(First)' = e.conf
    <3>1. log'[First] = Append(log[First], e) /\ log[First] \in Seq(Entry)
      BY <2>0, <2>2, AppendTypes, ConfType
    <3>2. PICK t : t = Append(log[First], e)
      OBVIOUS
    <3>3. t # <<>> /\ t[Len(t)] = e
      BY <3>1, <3>2, AppendProperties
    <3> QED BY <3>1, <3>2, <3>3 DEF Conf, Last
  <2>3. ASSUME NEW p \in Pods, NEW e \in Entry, log' = [log EXCEPT ![p] = Append(@, e)], e.conf = Conf(p) PROVE FALSE
    <3>1. CASE p = First
      BY <1>1, <2>2, <2>3, <3>1
    <3>2. CASE p # First
      BY <2>0, <2>1, <2>3, <3>2, AppendTypes
    <3> QED BY <3>1, <3>2
  <2>4. ASSUME NEW p \in Pods, Die(p) PROVE FALSE
    <3>1. p # First
      BY <2>0, <2>4 DEF Die
    <3> QED BY <2>0, <2>1, <2>4, <3>1 DEF Die, Types
  <2>5. ASSUME NEW p \in Pods, Boot(p) \/ SendJoin(p) \/ StepDown(p) \/ AdvanceCommit(p) \/ HandleJoin(p) PROVE FALSE
    BY <2>1, <2>5 DEF Boot, SendJoin, StepDown, AdvanceCommit, HandleJoin, raftVars
  <2>6. ASSUME NEW p \in Pods, StartRaft(p) PROVE FALSE
    <3>1. p # First
      BY <1>1, <2>0, <2>6 DEF LeadersRun, Up, StartRaft
    <3> QED BY <2>1, <2>6, <3>1 DEF StartRaft
  <2>7. ASSUME NEW p \in Pods, NEW Q \in SUBSET Pods, BecomeLeader(p, Q) PROVE FALSE
    BY <2>0, <2>3, <2>7, ElectTypes
  <2>8. ASSUME NEW p \in Pods, NEW c \in Cmds, Propose(p, c) PROVE FALSE
    BY <2>0, <2>3, <2>8, ProposeTypes
  <2>9. ASSUME NEW p \in Pods, NEW q \in Pods, CatchUp(p, q) PROVE FALSE
    <3>1. q # First
      BY <2>0, <2>9 DEF CatchUp
    <3> QED BY <2>0, <2>1, <2>9, <3>1 DEF CatchUp, Types
  <2>10. CASE HandleJoinTooEarly \/ JoinFails
    BY <2>0, <2>4, <2>10 DEF HandleJoinTooEarly, JoinFails
  <2>11. CASE ChangeDone \/ UNCHANGED vars
    BY <2>1, <2>11 DEF ChangeDone, vars, raftVars
  <2>12. ASSUME NEW m \in Members, RemoveServer(m) PROVE ByNamesake(x)
    <3> DEFINE conf == {y \in Conf(First) : y.id # m.id}
    <3>1. conf \in SUBSET Members /\ AppendConf(conf) /\ handling # None
      BY <2>0, <2>12, RemoveConf
    <3>2. \A y \in Conf(First) \ conf : y.id = m.id
      OBVIOUS
    <3> HIDE DEF conf
    <3>3. Conf(First)' = conf
      BY <2>0, <2>2, <3>1, ConfTypes
    <3>4. x \in Conf(First) /\ x.id = m.id
      BY <1>1, <3>2, <3>3
    <3> QED BY <1>1, <2>12, <3>4, RemoveNamesake
  <2>13. CASE AddServer
    <3> DEFINE conf == WithMember(Conf(First), Member(handling.pod))
    <3>1. conf \in SUBSET Members /\ AppendConf(conf) /\ handling # None /\ handling.pod \in Pods
      BY <2>0, <2>13, AddConf
    <3>2. /\ \A y \in Conf(First) \ conf : y.id = Name(handling.pod)
          /\ Member(handling.pod) \in conf
      BY <3>1, MemberProperties DEF WithMember
    <3> HIDE DEF conf
    <3>3. Conf(First)' = conf
      BY <2>0, <2>2, <3>1, ConfTypes
    <3>4. x \in Conf(First) /\ x.id = Name(handling.pod) /\ x # Member(handling.pod)
      BY <1>1, <3>2, <3>3
    <3>5. x.addr # handling.pod
      <4>1. x \in Members
        BY <2>0, <3>4, ConfType
      <4> QED BY <3>4, <4>1, MemberProperties
    <3> QED BY <3>1, <3>4, <3>5 DEF ByNamesake, SameNode
  <2> QED BY <1>1, <2>4, <2>5, <2>6, <2>7, <2>8, <2>9, <2>10, <2>11, <2>12, <2>13, Elected
          DEF Next, JoinSteps, Crash
<1>2. ASSUME JoinInv, LeadersRun, [Next]_vars
      PROVE  [FirstKeepsLeading => \A m \in Conf(First) \ Conf(First)' : ByNamesake(m)]_vars
  BY <1>1, <1>2
<1>3. Init => JoinInv /\ LeadersRun
  BY JoinInit DEF Init, LeadersRun
<1>4. ASSUME JoinInv, LeadersRun, [Next]_vars PROVE JoinInv' /\ LeadersRun'
  BY <1>4, JoinStep, LeadersRunStep DEF JoinInv
<1> QED BY <1>2, <1>3, <1>4, PTL DEF Spec, OnlyNamesakesRemove

-----------------------------------------------------------------------------
(* Majorities and logs. *)

VotersIn(conf) == {m.addr : m \in {x \in conf : x.voter}}
Majorities(conf) == {Q \in SUBSET VotersIn(conf) : 2 * Cardinality(Q) > Cardinality(VotersIn(conf))}

\* C and D have the same voters, but for one.
OneOff(C, D) == \E x : VotersIn(C) \ {x} = VotersIn(D) \ {x}

LEMMA OneOffSame ==
  ASSUME NEW C, NEW D PROVE OneOff(C, C) /\ (OneOff(C, D) => OneOff(D, C))
  BY DEF OneOff

LEMMA MajoritiesMeet ==
  ASSUME NEW C \in SUBSET Members, NEW D \in SUBSET Members, OneOff(C, D),
         NEW P \in Majorities(C), NEW Q \in Majorities(D)
  PROVE  \E q \in P \cap Q : q \in Pods
<1> DEFINE V == VotersIn(C)
           W == VotersIn(D)
<1>1. V \in SUBSET Pods /\ W \in SUBSET Pods
  BY MemberProperties DEF VotersIn
<1>2. PICK x : V \ {x} = W \ {x}
  BY DEF OneOff
<1>3. P \in SUBSET V /\ Q \in SUBSET W /\ 2 * Cardinality(P) > Cardinality(V) /\ 2 * Cardinality(Q) > Cardinality(W)
  BY DEF Majorities
<1> HIDE DEF V, W
<1>4. IsFiniteSet(Pods)
  BY MembershipAssumption DEF MembershipAssumption
<1>5. IsFiniteSet(V) /\ IsFiniteSet(W) /\ Cardinality(V) \in Nat /\ Cardinality(W) \in Nat
  BY <1>1, <1>4, FS_Subset, FS_CardinalityType
<1>6. Cardinality(P) \in Nat /\ Cardinality(Q) \in Nat
  BY <1>3, <1>5, FS_Subset, FS_CardinalityType
<1>7. \/ V = W
      \/ W = V \cup {x} /\ x \notin V
      \/ V = W \cup {x} /\ x \notin W
  BY <1>2
<1>8. CASE V = W
  <2>1. Cardinality(P) + Cardinality(Q) > Cardinality(V)
    BY <1>3, <1>5, <1>6, <1>8
  <2>2. P \cap Q # {}
    BY <1>3, <1>5, <1>8, <2>1, FS_MajoritiesIntersect
  <2> QED BY <1>1, <1>3, <2>2
<1>9. CASE W = V \cup {x} /\ x \notin V
  <2>1. Cardinality(W) = Cardinality(V) + 1
    BY <1>5, <1>9, FS_AddElement
  <2>2. Cardinality(P) + Cardinality(Q) > Cardinality(W)
    BY <1>3, <1>5, <1>6, <2>1
  <2>3. P \cap Q # {}
    BY <1>3, <1>5, <1>9, <2>2, FS_MajoritiesIntersect
  <2> QED BY <1>1, <1>3, <2>3
<1>10. CASE V = W \cup {x} /\ x \notin W
  <2>1. Cardinality(V) = Cardinality(W) + 1
    BY <1>5, <1>10, FS_AddElement
  <2>2. Cardinality(P) + Cardinality(Q) > Cardinality(V)
    BY <1>3, <1>5, <1>6, <2>1
  <2>3. P \cap Q # {}
    BY <1>3, <1>5, <1>10, <2>2, FS_MajoritiesIntersect
  <2> QED BY <1>1, <1>3, <2>3
<1> QED BY <1>7, <1>8, <1>9, <1>10

\* The first i entries of l begin m.
Begins(l, i, m) == i <= Len(m) /\ \A k \in 1..i : l[k] = m[k]

\* Terms do not fall along a log, and the first is 1.
Rising(l) ==
  /\ l # <<>> => l[1].term = 1
  /\ \A i, j \in DOMAIN l : i <= j => l[i].term <= l[j].term

\* Of each term there is one log.
Agreed(l, m) == \A i \in DOMAIN l, j \in DOMAIN m : l[i].term = m[j].term /\ i <= j => Begins(l, i, m)

LEMMA LogFacts ==
  ASSUME NEW l \in Seq(Entry)
  PROVE  /\ Len(l) \in Nat /\ DOMAIN l = 1..Len(l)
         /\ \A i \in 1..Len(l) : l[i] \in Entry /\ l[i].term \in Nat /\ l[i].term >= 1 /\ l[i].conf \in SUBSET Members
         /\ l # <<>> => Len(l) \in 1..Len(l) /\ LastTerm(l) = l[Len(l)].term /\ Last(l) = l[Len(l)]
         /\ l = <<>> => Len(l) = 0 /\ LastTerm(l) = 0
<1>1. Len(l) \in Nat /\ DOMAIN l = 1..Len(l) /\ \A i \in 1..Len(l) : l[i] \in Entry
  OBVIOUS
<1>2. \A e \in Entry : e.term \in Nat /\ e.term >= 1 /\ e.conf \in SUBSET Members
  BY MembershipAssumption DEF MembershipAssumption, Entry
<1>3. l # <<>> => Len(l) \in 1..Len(l) /\ LastTerm(l) = l[Len(l)].term /\ Last(l) = l[Len(l)]
  BY DEF LastTerm, Last
<1>4. l = <<>> => Len(l) = 0 /\ LastTerm(l) = 0
  BY DEF LastTerm
<1> QED BY <1>1, <1>2, <1>3, <1>4

\* The last term of a log is its greatest.
LEMMA LastTermMax ==
  ASSUME NEW l \in Seq(Entry), Rising(l)
  PROVE  /\ LastTerm(l) \in Nat /\ \A i \in 1..Len(l) : l[i].term <= LastTerm(l)
         /\ \A i, j \in 1..Len(l) : l[i].term < l[j].term => i < j
<1>1. /\ Len(l) \in Nat /\ DOMAIN l = 1..Len(l)
      /\ \A i \in 1..Len(l) : l[i].term \in Nat
      /\ \A i, j \in 1..Len(l) : i <= j => l[i].term <= l[j].term
  BY LogFacts DEF Rising
<1>2. ASSUME NEW i \in 1..Len(l), NEW j \in 1..Len(l), l[i].term < l[j].term PROVE i < j
  <2>1. l[i].term \in Nat /\ l[j].term \in Nat /\ (j <= i => l[j].term <= l[i].term)
    BY <1>1
  <2> QED BY <1>1, <1>2, <2>1
<1>3. CASE l = <<>>
  <2>1. LastTerm(l) = 0 /\ 1..Len(l) = {}
    <3>1. LastTerm(l) = 0 /\ Len(l) = 0
      BY <1>3 DEF LastTerm
    <3> QED BY <3>1
  <2> QED BY <1>2, <2>1
<1>4. CASE l # <<>>
  <2>1. Len(l) \in 1..Len(l) /\ LastTerm(l) = l[Len(l)].term
    BY <1>4, LogFacts
  <2>2. \A i \in 1..Len(l) : l[i].term <= LastTerm(l)
    BY <1>1, <2>1
  <2> QED BY <1>1, <1>2, <2>1, <2>2
<1> QED BY <1>3, <1>4

LEMMA BeginsFacts ==
  ASSUME NEW l \in Seq(Entry), NEW m \in Seq(Entry), NEW i \in 1..Len(l), Begins(l, i, m)
  PROVE  /\ i \in 1..Len(m) /\ l[i] = m[i] /\ Begins(m, i, l)
         /\ \A j \in 1..i : Begins(l, j, m)
         /\ \A n \in Seq(Entry) : Begins(m, i, n) => Begins(l, i, n)
         /\ \A n \in Seq(Entry) : Begins(l, i, n) => Begins(m, i, n)
  BY LogFacts DEF Begins

\* A log that ends in a later term is newer, one of the same term is as long.
LEMMA NewerHas ==
  ASSUME NEW c \in Seq(Entry), NEW i \in 1..Len(c), NEW l \in Seq(Entry), NEW m \in Seq(Entry),
         Rising(l), Rising(m), Agreed(c, m),
         Begins(c, i, l), AtLeastAsNew(m, l), LastTerm(m) <= c[i].term
  PROVE  Begins(c, i, m)
<1>1. i \in 1..Len(l) /\ l[i] = c[i] /\ l # <<>>
  BY BeginsFacts, LogFacts
<1>2. c[i].term <= LastTerm(l) /\ LastTerm(l) \in Nat /\ LastTerm(m) \in Nat /\ c[i].term \in Nat /\ c[i].term >= 1
  BY <1>1, LastTermMax, LogFacts
<1>3. LastTerm(m) = c[i].term /\ LastTerm(l) = LastTerm(m) /\ Len(m) >= Len(l)
  BY <1>2 DEF AtLeastAsNew
<1>4. m # <<>>
  BY <1>2, <1>3, LogFacts
<1>5. Len(m) \in DOMAIN m /\ m[Len(m)].term = c[i].term /\ i <= Len(m) /\ i \in DOMAIN c
  BY <1>1, <1>3, <1>4, LogFacts
<1> QED BY <1>5 DEF Agreed

\* A change of the configuration at l[i]: by one voter, and after an entry of the same term
\* in P, since when there was no other.
ChangesAfter(l, i, P) ==
  l[i].conf # l[i - 1].conf =>
    /\ OneOff(l[i - 1].conf, l[i].conf)
    /\ \E j \in P : j < i /\ l[j].term = l[i].term /\ \A k \in j..i - 1 : l[k].conf = l[i - 1].conf

(***************************************************************************)
(* If all changes of l from a + 1 to n come after an entry up to a, there  *)
(* is one at most, and then l[a + 1] has the term of l[a].                 *)
(***************************************************************************)
LEMMA OneChange ==
  ASSUME NEW l \in Seq(Entry), Rising(l), NEW n \in 1..Len(l), NEW a \in 1..n,
         \A i \in a + 1..n : ChangesAfter(l, i, 1..a)
  PROVE  \/ l[n].conf = l[a].conf
         \/ OneOff(l[a].conf, l[n].conf) /\ a < n /\ l[a + 1].term = l[a].term
<1>1. Len(l) \in Nat /\ DOMAIN l = 1..Len(l) /\ n \in Nat /\ a \in Nat /\ n <= Len(l) /\ 1 <= a /\ a <= n
  BY LogFacts
<1>2. CASE \E k \in a..n : l[k].conf # l[n].conf
  <2> DEFINE W == {d \in Nat : n - d \in a..n /\ l[n - d].conf # l[n].conf}
  <2>1. W \in SUBSET Nat /\ W # {}
    <3>1. PICK k \in a..n : l[k].conf # l[n].conf
      BY <1>2
    <3>2. n - k \in Nat /\ n - (n - k) = k
      BY <1>1
    <3> QED BY <3>1, <3>2
  <2>2. PICK d \in W : \A e \in W : d <= e
    <3> HIDE DEF W
    <3> QED BY <2>1, Smallest
  <2>3. PICK k \in a..n : k = n - d
    OBVIOUS
  <2>4. k \in Nat /\ l[k].conf # l[n].conf /\ k < n
    BY <1>1, <2>3
  <2>5. l[k + 1].conf = l[n].conf
    <3>1. d - 1 \in Nat /\ n - (d - 1) = k + 1 /\ k + 1 \in a..n /\ ~(d <= d - 1)
      BY <1>1, <2>3, <2>4
    <3>2. d - 1 \notin W
      BY <2>2, <3>1
    <3> QED BY <3>1, <3>2
  <2>6. k + 1 \in a + 1..n /\ k + 1 - 1 = k
    BY <1>1, <2>3, <2>4
  <2> HIDE DEF W
  <2>7. PICK j \in 1..a : /\ l[j].term = l[k + 1].term /\ \A x \in j..k : l[x].conf = l[k].conf
                          /\ OneOff(l[k].conf, l[k + 1].conf)
    BY <2>4, <2>5, <2>6 DEF ChangesAfter
  <2>8. l[a].conf = l[k].conf
    BY <1>1, <2>3, <2>4, <2>7
  <2>9. l[a + 1].term = l[a].term
    <3>1. /\ j \in 1..Len(l) /\ a \in 1..Len(l) /\ a + 1 \in 1..Len(l) /\ k + 1 \in 1..Len(l)
          /\ j <= a /\ a <= a + 1 /\ a + 1 <= k + 1
      BY <1>1, <2>3, <2>4
    <3>2. l[j].term <= l[a].term /\ l[a].term <= l[a + 1].term /\ l[a + 1].term <= l[k + 1].term
      BY <1>1, <3>1 DEF Rising
    <3>3. \A x \in 1..Len(l) : l[x].term \in Nat
      BY LogFacts
    <3> QED BY <2>7, <3>1, <3>2, <3>3
  <2> QED BY <1>1, <2>3, <2>4, <2>5, <2>7, <2>8, <2>9
<1>3. CASE \A k \in a..n : l[k].conf = l[n].conf
  BY <1>1, <1>3
<1> QED BY <1>2, <1>3

(***************************************************************************)
(* If all changes in c and in m come after what they share, then the       *)
(* configurations at their ends differ by one voter: two changes in one    *)
(* term, on two logs, there cannot be.                                     *)
(***************************************************************************)
LEMMA ForkedConfs ==
  ASSUME NEW c \in Seq(Entry), NEW m \in Seq(Entry), Rising(c), Rising(m), Agreed(c, m),
         NEW n \in 1..Len(c), m # <<>>, ~Begins(c, n, m),
         \A i \in 2..n : ChangesAfter(c, i, {j \in 1..n : Begins(c, j, m)}),
         \A i \in 2..Len(m) : ChangesAfter(m, i, {j \in 1..Len(m) : j <= n /\ Begins(m, j, c)})
  PROVE  OneOff(c[n].conf, m[Len(m)].conf)
<1>1. /\ Len(c) \in Nat /\ DOMAIN c = 1..Len(c) /\ Len(m) \in Nat /\ DOMAIN m = 1..Len(m) /\ n \in Nat
      /\ n <= Len(c) /\ 1 <= n /\ c # <<>> /\ Len(m) \in 1..Len(m)
  BY LogFacts
<1> DEFINE W == {k \in Nat : k \in 1..n /\ ~(k <= Len(m) /\ c[k] = m[k])}
<1>2. W \in SUBSET Nat /\ W # {}
  <2> SUFFICES ASSUME W = {} PROVE FALSE
    OBVIOUS
  <2>1. \A k \in 1..n : k <= Len(m) /\ c[k] = m[k]
    OBVIOUS
  <2> QED BY <1>1, <2>1 DEF Begins
<1>3. PICK b \in W : \A k \in W : b <= k
  <2> HIDE DEF W
  <2> QED BY <1>2, Smallest
<1>4. b \in 1..n /\ ~(b <= Len(m) /\ c[b] = m[b]) /\ \A k \in 1..b - 1 : k <= Len(m) /\ c[k] = m[k]
  <2>1. \A k \in 1..b - 1 : k \in Nat /\ k \in 1..n /\ ~(b <= k)
    BY <1>1
  <2> QED BY <1>3, <2>1
<1> HIDE DEF W
<1>5. b # 1
  <2>1. c[1].term = 1 /\ m[1].term = 1 /\ 1 \in DOMAIN c /\ 1 \in DOMAIN m
    BY <1>1 DEF Rising
  <2>2. Begins(c, 1, m)
    BY <2>1 DEF Agreed
  <2> QED BY <1>4, <2>2 DEF Begins
<1>6. PICK a \in Nat : a = b - 1
  BY <1>4
<1>7. a \in 1..n /\ a \in 1..Len(m) /\ a < n /\ a + 1 = b /\ c[a] = m[a]
  BY <1>1, <1>4, <1>5, <1>6
<1>8. c[n].conf = c[a].conf \/ (OneOff(c[a].conf, c[n].conf) /\ c[a + 1].term = c[a].term)
  <2>1. ASSUME NEW i \in a + 1..n PROVE ChangesAfter(c, i, 1..a)
    <3>1. i \in 2..n
      BY <1>1, <1>7
    <3>2. \A j \in 1..n : Begins(c, j, m) => j \in 1..a
      <4> SUFFICES ASSUME NEW j \in 1..n, Begins(c, j, m), j >= b PROVE FALSE
        BY <1>1, <1>7
      <4> QED BY <1>1, <1>4 DEF Begins
    <3> QED BY <3>1, <3>2 DEF ChangesAfter
  <2> QED BY <1>7, <2>1, OneChange
<1>9. m[Len(m)].conf = m[a].conf
      \/ (OneOff(m[a].conf, m[Len(m)].conf) /\ b <= Len(m) /\ m[a + 1].term = m[a].term)
  <2>1. ASSUME NEW i \in a + 1..Len(m) PROVE ChangesAfter(m, i, 1..a)
    <3>1. i \in 2..Len(m)
      BY <1>1, <1>7
    <3>2. \A j \in 1..Len(m) : j <= n /\ Begins(m, j, c) => j \in 1..a
      <4> SUFFICES ASSUME NEW j \in 1..Len(m), Begins(m, j, c), j >= b PROVE FALSE
        BY <1>1, <1>7
      <4> QED BY <1>1, <1>4 DEF Begins
    <3> QED BY <3>1, <3>2 DEF ChangesAfter
  <2>2. a < Len(m) => b <= Len(m)
    BY <1>1, <1>7
  <2> QED BY <1>1, <1>7, <2>1, <2>2, OneChange
<1>10. ~(c[a + 1].term = c[a].term /\ b <= Len(m) /\ m[a + 1].term = m[a].term)
  <2> SUFFICES ASSUME b <= Len(m), c[b].term = m[b].term PROVE FALSE
    BY <1>7
  <2>1. b \in DOMAIN c /\ b \in DOMAIN m
    BY <1>1, <1>4
  <2>2. Begins(c, b, m)
    BY <1>4, <2>1 DEF Agreed
  <2> QED BY <1>4, <2>2 DEF Begins
<1> QED BY <1>7, <1>8, <1>9, <1>10, OneOffSame

-----------------------------------------------------------------------------
(* The group, until a replica comes back without its log. *)

\* No pod shares its name with a replica.  Loggers may have one name.
ReplicasDiffer == \A p \in Pods \ Loggers, q \in Pods : Name(q) = Name(p) => q = p

Present == {log[p] : p \in Pods} \cup committed
Gone(p) == st[p] = "down"

\* l[1..i] was found committed.
Found(l, i) == \E c \in committed : Len(c) = i /\ Begins(c, i, l)

\* q may yet tell the leader of l[i]'s term that it has l[1..i].
Accepts(q, l, i) ==
  /\ ~Gone(q)
  /\ term[q] <= l[i].term \/ (LastTerm(log[q]) = l[i].term /\ Begins(l, i, log[q]))

Choosable(l, i) == \E Q \in Majorities(l[i].conf) : \A q \in Q : Accepts(q, l, i)

\* Of each term there is one log, and its leader has all of it.
LogsInv ==
  /\ committed \in SUBSET (Seq(Entry) \ {<<>>})
  /\ \A l \in Present : Rising(l)
  /\ \A l, m \in Present : Agreed(l, m)
  /\ \A p \in Pods : LastTerm(log[p]) <= term[p]
  /\ \A p \in lead : log[p] # <<>> /\ LastTerm(log[p]) = term[p] /\ ~Gone(p)
  /\ \A p, q \in lead : term[p] = term[q] => p = q
  /\ \A p \in lead, l \in Present : \A i \in DOMAIN l : l[i].term = term[p] => Begins(l, i, log[p])

\* The configuration changes after a commit in the same term.
ChangesInv == \A l \in Present : \A i \in 2..Len(l) : ChangesAfter(l, i, {j \in 1..Len(l) : Found(l, j)})

\* A majority has voted for the leader of each term in a log.
VotesInv ==
  \A l \in Present : \A i \in DOMAIN l :
    i = 1 \/ l[i - 1].term < l[i].term =>
      \E Q \in Majorities(l[i].conf) : \A q \in Q : Gone(q) \/ term[q] >= l[i].term

\* Logs of later terms have what is committed, or may be yet.
SafeInv ==
  /\ \A l, m \in Present : \A i \in DOMAIN m :
       Choosable(m, i) /\ LastTerm(l) > m[i].term => Begins(m, i, l)
  /\ \A l \in Present, c \in committed : LastTerm(l) > LastTerm(c) => Begins(c, Len(c), l)
  /\ \A c \in committed : \E Q \in Majorities(Last(c).conf) : \A q \in Q : Gone(q) \/ Begins(c, Len(c), log[q])

\* What a process took for committed is in its log, and was found so.
CommitKnown(p) == commit[p] > 0 => commit[p] <= Len(log[p]) /\ Found(log[p], commit[p])

CommitsInv ==
  /\ \A p \in lead, c \in committed : LastTerm(c) = term[p] => Len(c) <= commit[p]
  /\ \A p \in Pods : CommitKnown(p)
  /\ st[First] \in {"fresh", "booting"} => Present \subseteq {<<>>}

RaftInv == Types /\ LogsInv /\ ChangesInv /\ VotesInv /\ SafeInv /\ CommitsInv

LEMMA PresentFacts ==
  ASSUME Types, LogsInv
  PROVE  /\ \A l \in Present : l \in Seq(Entry) /\ Rising(l)
         /\ \A p \in Pods : log[p] \in Present
         /\ \A c \in committed : c \in Present /\ c # <<>> /\ Len(c) \in 1..Len(c)
                                 /\ LastTerm(c) = c[Len(c)].term /\ Last(c) = c[Len(c)]
         /\ \A l, m \in Present : Agreed(l, m)
<1>1. \A p \in Pods : log[p] \in Seq(Entry)
  BY DEF Types
<1>2. \A l \in Present : l \in Seq(Entry)
  BY <1>1 DEF Present, LogsInv
<1>3. \A c \in committed : c \in Seq(Entry) /\ c # <<>>
  BY DEF LogsInv
<1>4. \A c \in committed : c # <<>> /\ Len(c) \in 1..Len(c) /\ LastTerm(c) = c[Len(c)].term /\ Last(c) = c[Len(c)]
  BY <1>3, LogFacts
<1> QED BY <1>2, <1>4 DEF LogsInv, Present

\* m[1..i] is not in p's log, though all that was found committed in it is.
LEMMA Overlap ==
  ASSUME RaftInv, NEW p \in Pods, log[p] # <<>>, NEW m \in Present, NEW i \in 1..Len(m),
         ~Begins(m, i, log[p]), LastTerm(log[p]) <= m[i].term,
         \A j \in 1..i - 1 : Found(m, j) => Begins(m, j, log[p])
  PROVE  OneOff(m[i].conf, Conf(p))
<1> DEFINE n == log[p]
<1>1. /\ m \in Seq(Entry) /\ Rising(m) /\ n \in Seq(Entry) /\ n \in Present /\ Rising(n) /\ Agreed(m, n) /\ n # <<>>
      /\ Len(n) \in 1..Len(n) /\ Len(m) \in Nat
  <2>1. m \in Seq(Entry) /\ Rising(m) /\ n \in Seq(Entry) /\ n \in Present /\ Rising(n) /\ Agreed(m, n)
    BY PresentFacts DEF RaftInv
  <2> QED BY <2>1, LogFacts
<1>2. ~Begins(m, i, n) /\ LastTerm(n) <= m[i].term /\ m[i].term \in Nat
  BY <1>1, LogFacts
<1>3. Conf(p) = n[Len(n)].conf
  BY <1>1 DEF Conf, Last
<1>4. \A j \in 1..i - 1 : Found(m, j) => Begins(m, j, n)
  OBVIOUS
<1>5. ASSUME NEW j \in 1..Len(n), Found(n, j) PROVE j <= i /\ Begins(n, j, m)
  <2>1. PICK c \in committed : Len(c) = j /\ Begins(c, j, n)
    BY <1>5 DEF Found
  <2>2. /\ c \in Present /\ c \in Seq(Entry) /\ j \in 1..Len(c) /\ LastTerm(c) = c[j].term /\ Agreed(m, c) /\ Agreed(c, m)
    BY <2>1, PresentFacts DEF RaftInv
  <2>3. c[j] = n[j] /\ c[j].term \in Nat /\ n[j].term <= LastTerm(n) /\ LastTerm(n) \in Nat
    BY <1>1, <2>1, <2>2, BeginsFacts, LogFacts, LastTermMax
  <2>4. Begins(c, j, m) => Begins(n, j, m) /\ j \in 1..Len(m) /\ m[j] = c[j]
    BY <1>1, <2>1, <2>2, BeginsFacts
  <2>5. CASE c[j].term < m[i].term
    <3>1. LastTerm(m) >= m[i].term /\ LastTerm(m) \in Nat
      BY <1>1, LastTermMax
    <3>2. Begins(c, j, m)
      <4>1. LastTerm(m) > LastTerm(c)
        BY <1>2, <2>2, <2>3, <2>5, <3>1
      <4> QED BY <2>1, <4>1 DEF RaftInv, SafeInv
    <3>3. j < i
      BY <1>1, <2>4, <2>5, <3>2, LastTermMax
    <3> QED BY <2>4, <3>2, <3>3
  <2>6. CASE c[j].term = m[i].term
    <3>1. CASE j <= i
      <4>1. Begins(c, j, m)
        BY <1>1, <2>2, <2>6, <3>1, LogFacts DEF Agreed
      <4> QED BY <2>4, <3>1, <4>1
    <3>2. CASE i <= j
      <4>1. Begins(m, i, c)
        BY <1>1, <2>2, <2>6, <3>2, LogFacts DEF Agreed
      <4>2. Begins(c, i, n)
        <5>1. i \in 1..j
          BY <3>2
        <5> QED BY <1>1, <2>1, <2>2, <5>1, BeginsFacts
      <4> QED BY <1>1, <1>2, <2>2, <4>1, <4>2, BeginsFacts
    <3> QED BY <1>1, <3>1, <3>2
  <2> QED BY <1>2, <2>3, <2>5, <2>6
<1>6. ASSUME NEW k \in 2..i PROVE ChangesAfter(m, k, {j \in 1..i : Begins(m, j, n)})
  <2>1. ChangesAfter(m, k, {j \in 1..Len(m) : Found(m, j)})
    BY <1>1 DEF RaftInv, ChangesInv
  <2>2. \A j \in 1..Len(m) : Found(m, j) /\ j < k => j \in 1..i /\ Begins(m, j, n)
    BY <1>1, <1>4
  <2> HIDE DEF n
  <2> QED BY <2>1, <2>2 DEF ChangesAfter
<1>7. ASSUME NEW k \in 2..Len(n) PROVE ChangesAfter(n, k, {j \in 1..Len(n) : j <= i /\ Begins(n, j, m)})
  <2>1. ChangesAfter(n, k, {j \in 1..Len(n) : Found(n, j)})
    BY <1>1 DEF RaftInv, ChangesInv
  <2> HIDE DEF n
  <2> QED BY <1>5, <2>1 DEF ChangesAfter
<1> HIDE DEF n
<1> QED BY <1>1, <1>2, <1>3, <1>6, <1>7, ForkedConfs

\* A majority of p's members has no newer log.
Electors(p, Q) ==
  /\ log[p] # <<>> /\ Q \in Majorities(Conf(p))
  /\ \A q \in Q : ~Gone(q) /\ AtLeastAsNew(log[p], log[q])

\* The logs of a candidate and of a member of its majority.
LEMMA ElectorHas ==
  ASSUME RaftInv, NEW p \in Pods, NEW Q, Electors(p, Q), NEW q \in Q \cap Pods, NEW m \in Present, NEW i \in 1..Len(m),
         Begins(m, i, log[q]), LastTerm(log[p]) <= m[i].term
  PROVE  Begins(m, i, log[p])
<1>1. /\ m \in Seq(Entry) /\ log[p] \in Seq(Entry) /\ log[q] \in Seq(Entry)
      /\ Rising(log[p]) /\ Rising(log[q]) /\ Agreed(m, log[p])
  BY PresentFacts DEF RaftInv
<1>2. AtLeastAsNew(log[p], log[q])
  BY DEF Electors
<1> QED BY <1>1, <1>2, NewerHas

\* A candidate with a majority has all that is committed.
LEMMA CandidatesKnow ==
  ASSUME RaftInv, NEW p \in Pods, NEW Q, Electors(p, Q), NEW c \in committed
  PROVE  Begins(c, Len(c), log[p])
<1> DEFINE W == {k \in Nat : \E d \in committed : Len(d) = k /\ ~Begins(d, k, log[p])}
<1>1. SUFFICES ASSUME W # {} PROVE FALSE
  <2>1. Len(c) \in Nat
    BY PresentFacts, LogFacts DEF RaftInv
  <2> QED BY <2>1
<1>2. PICK k \in W : \A j \in W : k <= j
  <2>1. W \in SUBSET Nat
    OBVIOUS
  <2> HIDE DEF W
  <2> QED BY <1>1, <2>1, Smallest
<1>3. PICK d \in committed : Len(d) = k /\ ~Begins(d, k, log[p])
  BY <1>2
<1>4. /\ d \in Seq(Entry) /\ d \in Present /\ k \in 1..Len(d) /\ k \in Nat /\ LastTerm(d) = d[k].term /\ Last(d) = d[k]
      /\ log[p] \in Seq(Entry) /\ log[p] \in Present /\ Rising(log[p]) /\ d[k].term \in Nat /\ d[k].conf \in SUBSET Members
  BY <1>3, PresentFacts, LogFacts DEF RaftInv
<1>5. LastTerm(log[p]) <= d[k].term
  <2>1. LastTerm(log[p]) \in Nat
    BY <1>4, LastTermMax
  <2>2. ~(LastTerm(log[p]) > LastTerm(d))
    BY <1>3, <1>4 DEF RaftInv, SafeInv
  <2> QED BY <1>4, <2>1, <2>2
<1>6. ASSUME NEW j \in 1..k - 1, Found(d, j) PROVE Begins(d, j, log[p])
  <2>1. PICK e \in committed : Len(e) = j /\ Begins(e, j, d)
    BY <1>6 DEF Found
  <2>2. j \in Nat /\ ~(k <= j)
    BY <1>4
  <2>3. Begins(e, j, log[p])
    BY <1>2, <2>1, <2>2
  <2>4. e \in Seq(Entry) /\ j \in 1..Len(e)
    BY <2>1, PresentFacts DEF RaftInv
  <2> QED BY <1>4, <2>1, <2>3, <2>4, BeginsFacts
<1> HIDE DEF W
<1>7. OneOff(d[k].conf, Conf(p)) /\ log[p] # <<>>
  BY <1>3, <1>4, <1>5, <1>6, Overlap DEF Electors
<1>8. PICK P \in Majorities(d[k].conf) : \A q \in P : Gone(q) \/ Begins(d, k, log[q])
  BY <1>3, <1>4 DEF RaftInv, SafeInv
<1>9. Q \in Majorities(Conf(p)) /\ Conf(p) \in SUBSET Members
  BY ConfType DEF Electors, RaftInv
<1>10. PICK q \in P \cap Q : q \in Pods
  BY <1>4, <1>7, <1>8, <1>9, MajoritiesMeet
<1>11. Begins(d, k, log[q])
  BY <1>8, <1>10 DEF Electors
<1> QED BY <1>3, <1>4, <1>5, <1>10, <1>11, ElectorHas

\* Its majority and that of another log's end meet.
LEMMA CandidatesMeet ==
  ASSUME RaftInv, NEW p \in Pods, NEW Q, Electors(p, Q), NEW m \in Present, NEW i \in 1..Len(m),
         ~Begins(m, i, log[p]), LastTerm(log[p]) <= m[i].term, NEW P \in Majorities(m[i].conf)
  PROVE  \E q \in P \cap Q : q \in Pods
<1>1. m \in Seq(Entry) /\ log[p] \in Seq(Entry) /\ m[i].conf \in SUBSET Members
  BY PresentFacts, LogFacts DEF RaftInv
<1>2. ASSUME NEW j \in 1..i - 1, Found(m, j) PROVE Begins(m, j, log[p])
  <2>1. PICK c \in committed : Len(c) = j /\ Begins(c, j, m)
    BY <1>2 DEF Found
  <2>2. Begins(c, j, log[p])
    BY <2>1, CandidatesKnow
  <2>3. c \in Seq(Entry) /\ j \in 1..Len(c)
    BY <2>1, PresentFacts DEF RaftInv
  <2> QED BY <1>1, <2>1, <2>2, <2>3, BeginsFacts
<1>3. OneOff(m[i].conf, Conf(p))
  BY <1>2, Overlap DEF Electors
<1>4. Q \in Majorities(Conf(p)) /\ Conf(p) \in SUBSET Members
  BY ConfType DEF Electors, RaftInv
<1> QED BY <1>1, <1>3, <1>4, MajoritiesMeet

\* The term it is elected for is new.
LEMMA ElectedLast ==
  ASSUME RaftInv, NEW p \in Pods, NEW Q, Electors(p, Q), NEW t \in Nat, LastTerm(log[p]) < t,
         \A q \in Q : term[q] < t, NEW l \in Present
  PROVE  LastTerm(l) < t
<1> SUFFICES ASSUME LastTerm(l) >= t PROVE FALSE
  <2>1. LastTerm(l) \in Nat
    BY PresentFacts, LastTermMax DEF RaftInv
  <2> QED BY <2>1
<1>1. l \in Seq(Entry) /\ Rising(l) /\ LastTerm(l) \in Nat /\ log[p] \in Seq(Entry) /\ Rising(log[p]) /\ Len(l) \in Nat
      /\ LastTerm(log[p]) \in Nat
  BY PresentFacts, LastTermMax, LogFacts DEF RaftInv
<1>2. l # <<>>
  BY <1>1 DEF LastTerm
<1> DEFINE W == {k \in Nat : k \in 1..Len(l) /\ l[k].term = LastTerm(l)}
<1>3. W \in SUBSET Nat /\ W # {}
  <2>1. Len(l) \in 1..Len(l) /\ l[Len(l)].term = LastTerm(l)
    BY <1>1, <1>2, LogFacts
  <2> QED BY <1>1, <2>1
<1>4. PICK k \in W : \A j \in W : k <= j
  <2> HIDE DEF W
  <2> QED BY <1>3, Smallest
<1>5. k \in 1..Len(l) /\ k \in DOMAIN l /\ l[k].term = LastTerm(l)
  BY <1>1, LogFacts
<1>6. k = 1 \/ l[k - 1].term < l[k].term
  <2> SUFFICES ASSUME k # 1 PROVE l[k - 1].term < l[k].term
    OBVIOUS
  <2>1. k - 1 \in 1..Len(l) /\ k - 1 \in Nat /\ ~(k <= k - 1)
    BY <1>1, <1>5
  <2>2. l[k - 1].term # LastTerm(l)
    BY <1>4, <2>1
  <2>3. l[k - 1].term <= LastTerm(l) /\ l[k - 1].term \in Nat
    BY <1>1, <2>1, LastTermMax, LogFacts
  <2> QED BY <1>1, <1>5, <2>2, <2>3
<1> HIDE DEF W
<1>7. PICK P \in Majorities(l[k].conf) : \A q \in P : Gone(q) \/ term[q] >= l[k].term
  BY <1>5, <1>6 DEF RaftInv, VotesInv
<1>8. ~Begins(l, k, log[p])
  <2> SUFFICES ASSUME Begins(l, k, log[p]) PROVE FALSE
    OBVIOUS
  <2>1. k \in 1..Len(log[p]) /\ log[p][k].term = LastTerm(l)
    BY <1>1, <1>5, BeginsFacts
  <2>2. LastTerm(l) <= LastTerm(log[p])
    BY <1>1, <2>1, LastTermMax
  <2> QED BY <1>1, <2>2
<1>9. PICK q \in P \cap Q : q \in Pods
  <2>1. LastTerm(log[p]) <= l[k].term
    BY <1>1, <1>5
  <2> QED BY <1>5, <1>7, <1>8, <2>1, CandidatesMeet
<1>10. ~Gone(q) /\ term[q] < t /\ term[q] >= LastTerm(l)
  BY <1>5, <1>7, <1>9 DEF Electors
<1>11. term[q] \in Nat
  BY <1>9, MembershipAssumption DEF MembershipAssumption, RaftInv, Types
<1> QED BY <1>1, <1>10, <1>11

\* A leader has all that was found committed in its term or before.
LEMMA LeaderHas ==
  ASSUME RaftInv, NEW p \in lead, NEW c \in committed, LastTerm(c) <= term[p]
  PROVE  Begins(c, Len(c), log[p])
<1>1. p \in Pods /\ log[p] \in Present /\ log[p] \in Seq(Entry) /\ LastTerm(log[p]) = term[p] /\ LastTerm(log[p]) \in Nat
  BY PresentFacts, LastTermMax DEF RaftInv, Types, LogsInv
<1>2. /\ c \in Present /\ c \in Seq(Entry) /\ Len(c) \in DOMAIN c /\ c[Len(c)].term = LastTerm(c) /\ LastTerm(c) \in Nat
  BY PresentFacts, LogFacts, LastTermMax DEF RaftInv
<1>3. CASE LastTerm(c) = term[p]
  BY <1>2, <1>3 DEF RaftInv, LogsInv
<1>4. CASE LastTerm(c) < term[p]
  BY <1>1, <1>4 DEF RaftInv, SafeInv
<1> QED BY <1>1, <1>2, <1>3, <1>4

LEMMA MajorityPods ==
  ASSUME NEW C \in SUBSET Members, NEW Q \in Majorities(C) PROVE Q \subseteq Pods \ Loggers
<1>1. ASSUME NEW x \in C, x.voter PROVE x.addr \in Pods \ Loggers
  <2>1. x.addr \in Pods /\ x = Member(x.addr)
    BY MemberProperties
  <2>2. Member(x.addr).voter => x.addr \notin Loggers
    BY DEF Member
  <2> QED BY <1>1, <2>1, <2>2
<1> QED BY <1>1 DEF Majorities, VotersIn

\* Steps that bring no new log, and let no replica come back.
Older ==
  /\ Present' \subseteq Present \cup {<<>>} /\ committed \subseteq committed'
  /\ \A q \in Pods \ Loggers : (Gone(q) => Gone(q)') /\ (Gone(q)' \/ (term'[q] \in Nat /\ term'[q] >= term[q]))

LEMMA OlderKeeps ==
  ASSUME RaftInv, Older
  PROVE  /\ ChangesInv' /\ VotesInv'
         /\ \A l \in Present' : Rising(l)
         /\ \A l, m \in Present' : Agreed(l, m)
<1>1. \A l \in Present' : l \in Seq(Entry) /\ (l \in Present \/ (DOMAIN l = {} /\ Len(l) = 0 /\ l = <<>>))
  <2>1. <<>> \in Seq(Entry) /\ DOMAIN <<>> = {} /\ Len(<<>>) = 0
    OBVIOUS
  <2>2. \A l \in Present' : l \in Present \/ l = <<>>
    BY DEF Older
  <2> QED BY <2>1, <2>2, PresentFacts DEF RaftInv
<1>2. \A l \in Present' : Rising(l)
  BY <1>1, PresentFacts DEF RaftInv, Rising
<1>3. \A l, m \in Present' : Agreed(l, m)
  BY <1>1, PresentFacts DEF RaftInv, Agreed
<1>4. ChangesInv'
  <2> SUFFICES ASSUME NEW l \in Present', NEW i \in 2..Len(l)
               PROVE  ChangesAfter(l, i, {j \in 1..Len(l) : Found(l, j)'})
    BY DEF ChangesInv
  <2>1. l \in Present
    BY <1>1
  <2>2. ChangesAfter(l, i, {j \in 1..Len(l) : Found(l, j)})
    BY <2>1 DEF RaftInv, ChangesInv
  <2>3. \A j \in 1..Len(l) : Found(l, j) => Found(l, j)'
    BY DEF Found, Older
  <2> QED BY <2>2, <2>3 DEF ChangesAfter
<1>5. VotesInv'
  <2> SUFFICES ASSUME NEW l \in Present', NEW i \in DOMAIN l, i = 1 \/ l[i - 1].term < l[i].term
               PROVE  \E Q \in Majorities(l[i].conf) : \A q \in Q : Gone(q)' \/ term'[q] >= l[i].term
    BY DEF VotesInv
  <2>1. l \in Present /\ l[i].conf \in SUBSET Members /\ l[i].term \in Nat
    BY <1>1, LogFacts
  <2>2. PICK Q \in Majorities(l[i].conf) : \A q \in Q : Gone(q) \/ term[q] >= l[i].term
    BY <2>1 DEF RaftInv, VotesInv
  <2>3. Q \subseteq Pods \ Loggers
    BY <2>1, MajorityPods
  <2>4. ASSUME NEW q \in Q PROVE Gone(q)' \/ term'[q] >= l[i].term
    <3>1. q \in Pods \ Loggers /\ term[q] \in Nat /\ (Gone(q) \/ term[q] >= l[i].term)
      BY <2>2, <2>3, MembershipAssumption DEF MembershipAssumption, RaftInv, Types
    <3>2. CASE Gone(q)
      BY <3>1, <3>2 DEF Older
    <3>3. CASE term[q] >= l[i].term /\ ~Gone(q)'
      <4>1. term'[q] >= term[q] /\ term'[q] \in Nat
        BY <3>1, <3>3 DEF Older
      <4> QED BY <2>1, <3>1, <3>3, <4>1
    <3> QED BY <3>1, <3>2, <3>3
  <2> QED BY <2>2, <2>4
<1> QED BY <1>2, <1>3, <1>4, <1>5

\* What may yet be committed.
LEMMA ChoosableBefore ==
  ASSUME RaftInv, NEW m \in Present, NEW i \in DOMAIN m,
         \A q \in Pods \ Loggers : Accepts(q, m, i)' => Accepts(q, m, i),
         Choosable(m, i)'
  PROVE  Choosable(m, i)
<1>1. m[i].conf \in SUBSET Members
  BY PresentFacts, LogFacts DEF RaftInv
<1>2. PICK Q \in Majorities(m[i].conf) : \A q \in Q : Accepts(q, m, i)'
  BY DEF Choosable
<1>3. Q \subseteq Pods \ Loggers
  BY <1>1, MajorityPods
<1> QED BY <1>2, <1>3 DEF Choosable

LEMMA OlderSafe ==
  ASSUME RaftInv, Older,
         \A q \in Pods \ Loggers, m \in Present : \A i \in DOMAIN m : Accepts(q, m, i)' => Accepts(q, m, i),
         NEW l \in Present', NEW m \in Present', NEW i \in DOMAIN m, Choosable(m, i)', LastTerm(l) > m[i].term
  PROVE  Begins(m, i, l)
<1>1. m \in Present /\ m[i].term \in Nat /\ m[i].term >= 1
  <2>1. m \in Present
    BY DEF Older
  <2> QED BY <2>1, PresentFacts, LogFacts DEF RaftInv
<1>2. l \in Present
  <2>1. l # <<>>
    BY <1>1 DEF LastTerm
  <2> QED BY <2>1 DEF Older
<1>3. Choosable(m, i)
  BY <1>1, ChoosableBefore
<1> QED BY <1>1, <1>2, <1>3 DEF RaftInv, SafeInv

\* Steps that leave the logs and the terms alone.
LEMMA QuietRaft ==
  ASSUME RaftInv, Types', UNCHANGED <<log, term, commit, committed>>, lead' \subseteq lead,
         \A p \in Pods : Gone(p)' => Gone(p),
         \A p \in Pods \ Loggers : Gone(p)' <=> Gone(p),
         st'[First] \in {"fresh", "booting"} => st[First] \in {"fresh", "booting"}
  PROVE  RaftInv'
<1>1. Present' = Present
  BY DEF Present
<1>2. Older
  BY <1>1, MembershipAssumption DEF MembershipAssumption, Older, RaftInv, Types
<1>3. LogsInv'
  <2>1. \A p \in lead' : p \in Pods /\ log[p] # <<>> /\ LastTerm(log[p]) = term[p] /\ ~Gone(p)'
    BY DEF RaftInv, LogsInv, Types
  <2> QED BY <1>1, <1>2, <2>1, OlderKeeps DEF RaftInv, LogsInv
<1>4. SafeInv'
  <2>1. \A q \in Pods \ Loggers, m \in Present : \A i \in DOMAIN m : Accepts(q, m, i)' => Accepts(q, m, i)
    BY DEF Accepts
  <2>2. \A l, m \in Present' : \A i \in DOMAIN m : Choosable(m, i)' /\ LastTerm(l) > m[i].term => Begins(m, i, l)
    BY <1>2, <2>1, OlderSafe
  <2>3. \A l \in Present', c \in committed' : LastTerm(l) > LastTerm(c) => Begins(c, Len(c), l)
    BY <1>1 DEF RaftInv, SafeInv
  <2>4. ASSUME NEW c \in committed'
        PROVE  \E Q \in Majorities(Last(c).conf) : \A q \in Q : Gone(q)' \/ Begins(c, Len(c), log'[q])
    <3>1. PICK Q \in Majorities(Last(c).conf) : \A q \in Q : Gone(q) \/ Begins(c, Len(c), log[q])
      BY DEF RaftInv, SafeInv
    <3>2. Last(c).conf \in SUBSET Members
      BY PresentFacts, LogFacts DEF RaftInv
    <3> QED BY <3>1, <3>2, MajorityPods
  <2> QED BY <2>2, <2>3, <2>4 DEF SafeInv
<1>5. CommitsInv'
  BY <1>1 DEF RaftInv, CommitsInv, CommitKnown, Found
<1> QED BY <1>2, <1>3, <1>4, <1>5, OlderKeeps DEF RaftInv

\* A process ends.
LEMMA DieRaft ==
  ASSUME RaftInv, Types', NEW p \in Pods, Die(p), committed' = committed
  PROVE  RaftInv'
<1>1. /\ log' = [log EXCEPT ![p] = <<>>] /\ term' = [term EXCEPT ![p] = 0] /\ commit' = [commit EXCEPT ![p] = 0]
      /\ lead' = lead \ {p} /\ Gone(p)'
      /\ log'[p] = <<>> /\ term'[p] = 0 /\ commit'[p] = 0
      /\ \A q \in Pods \ {p} : log'[q] = log[q] /\ term'[q] = term[q] /\ commit'[q] = commit[q] /\ (Gone(q)' <=> Gone(q))
                               /\ st'[q] = st[q]
  BY DEF Die, RaftInv, Types, Gone
<1>2. Older
  <2>1. Present' \subseteq Present \cup {<<>>}
    BY <1>1 DEF Present
  <2> QED BY <1>1, <2>1, MembershipAssumption DEF MembershipAssumption, Older, RaftInv, Types
<1>3. LogsInv'
  <2>1. \A q \in lead' : q \in lead /\ q \in Pods \ {p}
    BY <1>1 DEF RaftInv, Types
  <2>2. \A q \in Pods : LastTerm(log'[q]) <= term'[q]
    BY <1>1 DEF RaftInv, LogsInv, LastTerm
  <2>3. \A q \in lead' : log'[q] # <<>> /\ LastTerm(log'[q]) = term'[q] /\ ~Gone(q)'
    BY <1>1, <2>1 DEF RaftInv, LogsInv
  <2>4. \A q, r \in lead' : term'[q] = term'[r] => q = r
    BY <1>1, <2>1 DEF RaftInv, LogsInv
  <2>5. ASSUME NEW q \in lead', NEW l \in Present', NEW i \in DOMAIN l, l[i].term = term'[q]
        PROVE  Begins(l, i, log'[q])
    <3>1. l \in Present
      <4>1. l # <<>>
        OBVIOUS
      <4> QED BY <1>2, <4>1 DEF Older
    <3> QED BY <1>1, <2>1, <2>5, <3>1 DEF RaftInv, LogsInv
  <2>6. committed' \in SUBSET (Seq(Entry) \ {<<>>})
    BY DEF RaftInv, LogsInv
  <2> QED BY <1>2, <2>2, <2>3, <2>4, <2>5, <2>6, OlderKeeps DEF LogsInv
<1>4. SafeInv'
  <2>1. \A q \in Pods, m \in Present : \A i \in DOMAIN m : Accepts(q, m, i)' => Accepts(q, m, i)
    BY <1>1 DEF Accepts
  <2>2. \A l, m \in Present' : \A i \in DOMAIN m : Choosable(m, i)' /\ LastTerm(l) > m[i].term => Begins(m, i, l)
    BY <1>2, <2>1, OlderSafe
  <2>3. ASSUME NEW l \in Present', NEW c \in committed', LastTerm(l) > LastTerm(c) PROVE Begins(c, Len(c), l)
    <3>1. l # <<>>
      <4>1. LastTerm(c) \in Nat
        BY PresentFacts, LastTermMax DEF RaftInv
      <4> QED BY <2>3, <4>1 DEF LastTerm
    <3> QED BY <1>2, <2>3, <3>1 DEF Older, RaftInv, SafeInv
  <2>4. ASSUME NEW c \in committed'
        PROVE  \E Q \in Majorities(Last(c).conf) : \A q \in Q : Gone(q)' \/ Begins(c, Len(c), log'[q])
    <3>1. PICK Q \in Majorities(Last(c).conf) : \A q \in Q : Gone(q) \/ Begins(c, Len(c), log[q])
      BY DEF RaftInv, SafeInv
    <3>2. Last(c).conf \in SUBSET Members
      BY PresentFacts, LogFacts DEF RaftInv
    <3> QED BY <1>1, <3>1, <3>2, MajorityPods
  <2> QED BY <2>2, <2>3, <2>4 DEF SafeInv
<1>5. CommitsInv'
  <2>1. \A q \in lead', c \in committed' : LastTerm(c) = term'[q] => Len(c) <= commit'[q]
    BY <1>1 DEF RaftInv, CommitsInv, Types
  <2>2. ASSUME NEW q \in Pods PROVE CommitKnown(q)'
    <3>1. CASE q = p
      BY <1>1, <3>1 DEF CommitKnown
    <3>2. CASE q # p
      BY <1>1, <3>2 DEF CommitKnown, RaftInv, CommitsInv, Found
    <3> QED BY <3>1, <3>2
  <2>3. st'[First] \in {"fresh", "booting"} => Present' \subseteq {<<>>}
    <3>1. st'[p] = "down"
      BY <1>1 DEF Gone
    <3> QED BY <1>1, <1>2, <3>1, MembershipAssumption DEF MembershipAssumption, Older, RaftInv, CommitsInv
  <2> QED BY <2>1, <2>2, <2>3 DEF CommitsInv
<1> QED BY <1>2, <1>3, <1>4, <1>5, OlderKeeps DEF RaftInv

\* A member takes over a leader's log.
LEMMA CatchUpRaft ==
  ASSUME RaftInv, Types', NEW p \in Pods, NEW q \in Pods, CatchUp(p, q) PROVE RaftInv'
<1>1. /\ p \in lead /\ q # p /\ log' = [log EXCEPT ![q] = log[p]] /\ term' = [term EXCEPT ![q] = term[p]]
      /\ log'[q] = log[p] /\ term'[q] = term[p] /\ lead' = lead \ {q} /\ term[q] <= term[p]
      /\ UNCHANGED <<st, commit, committed>>
      /\ \A r \in Pods \ {q} : log'[r] = log[r] /\ term'[r] = term[r]
  BY DEF CatchUp, RaftInv, Types
<1>2. \A r \in Pods : Gone(r)' <=> Gone(r)
  BY <1>1 DEF Gone
<1>3. \A r \in Pods : term[r] \in Nat
  BY MembershipAssumption DEF MembershipAssumption, RaftInv, Types
<1>4. Older
  <2>1. Present' \subseteq Present
    BY <1>1 DEF Present
  <2> QED BY <1>1, <1>2, <1>3, <2>1 DEF Older
<1>5. LogsInv'
  <2>1. \A r \in lead' : r \in lead /\ r \in Pods \ {q}
    BY <1>1 DEF RaftInv, Types
  <2>2. \A r \in Pods : LastTerm(log'[r]) <= term'[r]
    BY <1>1 DEF RaftInv, LogsInv
  <2>3. \A r \in lead' : log'[r] # <<>> /\ LastTerm(log'[r]) = term'[r] /\ ~Gone(r)'
    BY <1>1, <1>2, <2>1 DEF RaftInv, LogsInv
  <2>4. \A r, s \in lead' : term'[r] = term'[s] => r = s
    BY <1>1, <2>1 DEF RaftInv, LogsInv
  <2>5. ASSUME NEW r \in lead', NEW l \in Present', NEW i \in DOMAIN l, l[i].term = term'[r]
        PROVE  Begins(l, i, log'[r])
    <3>1. l \in Present
      <4>1. l # <<>>
        OBVIOUS
      <4> QED BY <1>4, <4>1 DEF Older
    <3> QED BY <1>1, <2>1, <2>5, <3>1 DEF RaftInv, LogsInv
  <2>6. committed' \in SUBSET (Seq(Entry) \ {<<>>})
    BY <1>1 DEF RaftInv, LogsInv
  <2> QED BY <1>4, <2>2, <2>3, <2>4, <2>5, <2>6, OlderKeeps DEF LogsInv
<1>6. ASSUME NEW c \in committed, Begins(c, Len(c), log[q]) PROVE Begins(c, Len(c), log[p])
  <2>1. c \in Seq(Entry) /\ Len(c) \in 1..Len(c) /\ LastTerm(c) = c[Len(c)].term /\ log[q] \in Seq(Entry) /\ Rising(log[q])
    BY PresentFacts DEF RaftInv
  <2>2. Len(c) \in 1..Len(log[q]) /\ c[Len(c)] = log[q][Len(c)] /\ LastTerm(c) \in Nat
    BY <1>6, <2>1, BeginsFacts, LogFacts
  <2>3. LastTerm(c) <= LastTerm(log[q]) /\ LastTerm(log[q]) \in Nat
    BY <2>1, <2>2, LastTermMax
  <2>4. LastTerm(log[q]) <= term[q]
    BY DEF RaftInv, LogsInv
  <2> QED BY <1>1, <1>3, <2>2, <2>3, <2>4, LeaderHas
<1>7. SafeInv'
  <2>1. ASSUME NEW r \in Pods, NEW m \in Present, NEW i \in DOMAIN m, Accepts(r, m, i)' PROVE Accepts(r, m, i)
    <3>1. CASE r # q
      BY <1>1, <1>2, <2>1, <3>1 DEF Accepts
    <3>2. CASE r = q
      <4>1. m[i].term \in Nat /\ LastTerm(log[p]) = term[p]
        BY <1>1, PresentFacts, LogFacts DEF RaftInv, LogsInv
      <4>2. ~Gone(q) /\ (term[p] <= m[i].term \/ LastTerm(log[p]) = m[i].term)
        BY <1>1, <1>2, <2>1, <3>2 DEF Accepts
      <4>3. term[q] <= m[i].term
        BY <1>1, <1>3, <4>1, <4>2
      <4> QED BY <3>2, <4>2, <4>3 DEF Accepts
    <3> QED BY <3>1, <3>2
  <2>2. \A l, m \in Present' : \A i \in DOMAIN m : Choosable(m, i)' /\ LastTerm(l) > m[i].term => Begins(m, i, l)
    BY <1>4, <2>1, OlderSafe
  <2>3. \A l \in Present', c \in committed' : LastTerm(l) > LastTerm(c) => Begins(c, Len(c), l)
    <3>1. Present' \subseteq Present
      BY <1>1 DEF Present
    <3> QED BY <1>1, <3>1 DEF RaftInv, SafeInv
  <2>4. ASSUME NEW c \in committed'
        PROVE  \E Q \in Majorities(Last(c).conf) : \A r \in Q : Gone(r)' \/ Begins(c, Len(c), log'[r])
    <3>0. c \in committed
      BY <1>1
    <3>1. PICK Q \in Majorities(Last(c).conf) : \A r \in Q : Gone(r) \/ Begins(c, Len(c), log[r])
      BY <3>0 DEF RaftInv, SafeInv
    <3>2. Last(c).conf \in SUBSET Members
      BY <3>0, PresentFacts, LogFacts DEF RaftInv
    <3>3. \A r \in Q : r \in Pods
      BY <3>1, <3>2, MajorityPods
    <3>4. \A r \in Q : Gone(r)' \/ Begins(c, Len(c), log'[r])
      BY <1>1, <1>2, <1>6, <3>0, <3>1, <3>3
    <3> QED BY <3>1, <3>4
  <2> QED BY <2>2, <2>3, <2>4 DEF SafeInv
<1>8. CommitsInv'
  <2>1. \A r \in lead', c \in committed' : LastTerm(c) = term'[r] => Len(c) <= commit'[r]
    BY <1>1 DEF RaftInv, CommitsInv, Types
  <2>2. ASSUME NEW r \in Pods PROVE CommitKnown(r)'
    <3>1. CASE r = q
      <4>1. SUFFICES ASSUME commit[q] > 0 PROVE commit[q] <= Len(log[p]) /\ Found(log[p], commit[q])
        BY <1>1, <3>1 DEF CommitKnown, Found
      <4>2. PICK c \in committed : Len(c) = commit[q] /\ Begins(c, commit[q], log[q])
        BY <4>1 DEF RaftInv, CommitsInv, CommitKnown, Found
      <4>3. Begins(c, commit[q], log[p])
        BY <1>6, <4>2
      <4> QED BY <4>2, <4>3 DEF Found, Begins
    <3>2. CASE r # q
      BY <1>1, <3>2 DEF CommitKnown, RaftInv, CommitsInv, Found
    <3> QED BY <3>1, <3>2
  <2>3. st'[First] \in {"fresh", "booting"} => Present' \subseteq {<<>>}
    BY <1>1, <1>4 DEF Older, RaftInv, CommitsInv
  <2> QED BY <2>1, <2>2, <2>3 DEF CommitsInv
<1> QED BY <1>4, <1>5, <1>7, <1>8, OlderKeeps DEF RaftInv

\* A leader finds its log committed.
LEMMA CommitRaft ==
  ASSUME RaftInv, Types', NEW p \in Pods, AdvanceCommit(p) PROVE RaftInv'
<1>1. /\ p \in lead /\ UNCHANGED <<st, log, term>> /\ lead' \subseteq lead
      /\ commit' = [commit EXCEPT ![p] = Len(log[p])] /\ committed' = committed \cup {log[p]}
      /\ LastTerm(log[p]) = term[p] /\ log[p] # <<>>
      /\ commit'[p] = Len(log[p]) /\ \A r \in Pods \ {p} : commit'[r] = commit[r]
  BY DEF AdvanceCommit, RaftInv, Types, LogsInv
<1>2. Present' = Present
  BY <1>1 DEF Present
<1>3. Older /\ \A r \in Pods : Gone(r)' <=> Gone(r)
  BY <1>1, <1>2, MembershipAssumption DEF MembershipAssumption, Older, RaftInv, Types, Gone
<1>4. /\ log[p] \in Seq(Entry) /\ log[p] \in Present /\ Len(log[p]) \in 1..Len(log[p]) /\ Len(log[p]) \in DOMAIN log[p]
      /\ Last(log[p]) = log[p][Len(log[p])] /\ log[p][Len(log[p])].term = term[p] /\ term[p] \in Nat
      /\ Conf(p) = log[p][Len(log[p])].conf
  <2>1. log[p] \in Seq(Entry) /\ log[p] \in Present
    BY PresentFacts DEF RaftInv
  <2> QED BY <1>1, <2>1, LogFacts DEF Conf
<1>5. PICK Q \in Majorities(Conf(p)) : \A q \in Q : ~Gone(q) /\ log[q] = log[p]
  <2>1. PICK Q \in Quorums(p) : \A q \in Q : log[q] = log[p]
    BY DEF AdvanceCommit
  <2>2. Q \in Majorities(Conf(p)) /\ \A q \in Q : ~Gone(q)
    BY <2>1 DEF Quorums, Voters, Majorities, VotersIn, Up, Gone
  <2> QED BY <2>1, <2>2
<1>6. LogsInv'
  <2>1. \A r \in lead' : log[r] # <<>> /\ LastTerm(log[r]) = term[r] /\ ~Gone(r)'
    BY <1>1, <1>3 DEF RaftInv, LogsInv, Types
  <2>2. committed' \in SUBSET (Seq(Entry) \ {<<>>})
    BY <1>1, <1>4 DEF RaftInv, LogsInv
  <2>3. \A r \in Pods : LastTerm(log[r]) <= term[r]
    BY DEF RaftInv, LogsInv
  <2>4. \A q, r \in lead' : term[q] = term[r] => q = r
    BY <1>1 DEF RaftInv, LogsInv
  <2>5. \A r \in lead', l \in Present : \A i \in DOMAIN l : l[i].term = term[r] => Begins(l, i, log[r])
    BY <1>1 DEF RaftInv, LogsInv
  <2> QED BY <1>1, <1>2, <1>3, <2>1, <2>2, <2>3, <2>4, <2>5, OlderKeeps DEF LogsInv
<1>7. SafeInv'
  <2>1. \A r \in Pods, m \in Present : \A i \in DOMAIN m : Accepts(r, m, i)' => Accepts(r, m, i)
    BY <1>1, <1>3 DEF Accepts
  <2>2. \A l, m \in Present' : \A i \in DOMAIN m : Choosable(m, i)' /\ LastTerm(l) > m[i].term => Begins(m, i, l)
    BY <1>3, <2>1, OlderSafe
  <2>3. Choosable(log[p], Len(log[p]))
    <3>1. \A q \in Q : Accepts(q, log[p], Len(log[p]))
      BY <1>1, <1>4, <1>5 DEF Accepts, Begins
    <3> QED BY <1>4, <1>5, <3>1 DEF Choosable
  <2>4. ASSUME NEW l \in Present', NEW c \in committed', LastTerm(l) > LastTerm(c) PROVE Begins(c, Len(c), l)
    <3>1. CASE c \in committed
      BY <1>2, <2>4, <3>1 DEF RaftInv, SafeInv
    <3>2. CASE c = log[p]
      BY <1>1, <1>2, <1>4, <2>3, <2>4, <3>2 DEF RaftInv, SafeInv
    <3> QED BY <1>1, <3>1, <3>2
  <2>5. ASSUME NEW c \in committed'
        PROVE  \E P \in Majorities(Last(c).conf) : \A r \in P : Gone(r)' \/ Begins(c, Len(c), log'[r])
    <3>1. CASE c \in committed
      <4>1. PICK P \in Majorities(Last(c).conf) : \A r \in P : Gone(r) \/ Begins(c, Len(c), log[r])
        BY <3>1 DEF RaftInv, SafeInv
      <4>2. Last(c).conf \in SUBSET Members
        BY <3>1, PresentFacts, LogFacts DEF RaftInv
      <4> QED BY <1>1, <1>3, <4>1, <4>2, MajorityPods
    <3>2. CASE c = log[p]
      <4>1. \A r \in Q : Begins(c, Len(c), log'[r])
        BY <1>1, <1>4, <1>5, <3>2 DEF Begins
      <4> QED BY <1>4, <1>5, <3>2, <4>1
    <3> QED BY <1>1, <3>1, <3>2
  <2> QED BY <2>2, <2>4, <2>5 DEF SafeInv
<1>8. CommitsInv'
  <2>1. ASSUME NEW r \in lead', NEW c \in committed', LastTerm(c) = term'[r] PROVE Len(c) <= commit'[r]
    <3>1. r \in lead /\ r \in Pods /\ LastTerm(c) = term[r]
      BY <1>1, <2>1 DEF RaftInv, Types
    <3>2. CASE c \in committed /\ r # p
      BY <1>1, <3>1, <3>2 DEF RaftInv, CommitsInv
    <3>3. CASE c \in committed /\ r = p
      <4>1. c \in Seq(Entry) /\ Len(c) \in 1..Len(c) /\ LastTerm(c) \in Nat
        BY <3>3, PresentFacts, LastTermMax DEF RaftInv
      <4>2. Begins(c, Len(c), log[p])
        BY <1>4, <3>1, <3>3, <4>1, LeaderHas
      <4> QED BY <1>1, <3>3, <4>2 DEF Begins
    <3>4. CASE c = log[p]
      <4>1. r = p
        BY <1>1, <3>1, <3>4 DEF RaftInv, LogsInv
      <4> QED BY <1>1, <1>4, <3>4, <4>1
    <3> QED BY <1>1, <3>2, <3>3, <3>4
  <2>2. ASSUME NEW r \in Pods PROVE CommitKnown(r)'
    <3>1. \A i : Found(log[r], i) => Found(log[r], i)'
      BY <1>1 DEF Found
    <3>2. CASE r # p
      BY <1>1, <3>1, <3>2 DEF CommitKnown, RaftInv, CommitsInv, Found
    <3>3. CASE r = p
      <4>1. Begins(log[p], Len(log[p]), log[p])
        BY <1>4 DEF Begins
      <4> QED BY <1>1, <1>4, <3>3, <4>1 DEF CommitKnown, Found
    <3> QED BY <3>2, <3>3
  <2>3. st'[First] \in {"fresh", "booting"} => Present' \subseteq {<<>>}
    BY <1>1, <1>2 DEF RaftInv, CommitsInv
  <2> QED BY <2>1, <2>2, <2>3 DEF CommitsInv
<1> QED BY <1>3, <1>6, <1>7, <1>8, OlderKeeps DEF RaftInv

\* The first pod bootstraps the group.
LEMMA BootstrapRaft ==
  ASSUME RaftInv, Types', StartRaft(First) PROVE RaftInv'
<1> DEFINE e == [term |-> 1, conf |-> {Member(First)}, cmd |-> None]
<1>1. First \in Pods /\ First \notin Loggers
  BY MembershipAssumption DEF MembershipAssumption
<1>2. /\ st[First] = "booting" /\ st' = [st EXCEPT ![First] = "raft"] /\ log' = [log EXCEPT ![First] = <<e>>]
      /\ term' = [term EXCEPT ![First] = 1] /\ UNCHANGED <<commit, lead, committed>>
  BY DEF StartRaft
<1>3. Present \subseteq {<<>>} /\ committed = {} /\ lead = {} /\ \A p \in Pods : log[p] = <<>>
  <2>1. Present \subseteq {<<>>}
    BY <1>2 DEF RaftInv, CommitsInv
  <2>2. \A p \in Pods : log[p] = <<>>
    BY <2>1 DEF Present
  <2> QED BY <2>1, <2>2 DEF Present, RaftInv, LogsInv, Types
<1>4. e.term = 1 /\ e.conf = {Member(First)} /\ e \in Entry
  BY <1>1, MemberProperties, MembershipAssumption DEF MembershipAssumption, Entry
<1> HIDE DEF e
<1>5. /\ log'[First] = <<e>> /\ term'[First] = 1 /\ \A p \in Pods \ {First} : log'[p] = <<>> /\ term'[p] = term[p]
      /\ Present' \subseteq {<<>>, <<e>>} /\ committed' = {} /\ lead' = {}
  <2>1. log'[First] = <<e>> /\ term'[First] = 1 /\ \A p \in Pods \ {First} : log'[p] = <<>> /\ term'[p] = term[p]
    BY <1>1, <1>2, <1>3 DEF RaftInv, Types
  <2> QED BY <1>2, <1>3, <2>1 DEF Present
<1>6. \A l \in Present' : l = <<>> \/ l = <<e>>
  BY <1>5
<1>7. /\ LastTerm(<<>>) = 0 /\ LastTerm(<<e>>) = 1 /\ DOMAIN <<>> = {} /\ DOMAIN <<e>> = {1} /\ <<e>>[1] = e
      /\ Len(<<>>) = 0 /\ Len(<<e>>) = 1 /\ <<e>> # <<>>
  BY <1>4 DEF LastTerm, Last
<1>8. LogsInv'
  <2>1. \A l \in Present' : Rising(l)
    BY <1>4, <1>6, <1>7 DEF Rising
  <2>2. \A l, m \in Present' : Agreed(l, m)
    BY <1>6, <1>7 DEF Agreed, Begins
  <2>3. \A p \in Pods : LastTerm(log'[p]) <= term'[p]
    BY <1>3, <1>5, <1>7 DEF RaftInv, LogsInv
  <2> QED BY <1>5, <2>1, <2>2, <2>3 DEF LogsInv
<1>9. ChangesInv'
  <2>1. \A l \in Present' : 2..Len(l) = {}
    BY <1>6, <1>7
  <2> QED BY <2>1 DEF ChangesInv
<1>10. VotesInv'
  <2>1. VotersIn(e.conf) = {First} /\ {First} \in Majorities(e.conf)
    <3>1. Member(First).addr = First /\ Member(First).voter
      BY <1>1 DEF Member
    <3>2. VotersIn(e.conf) = {First}
      BY <1>4, <3>1 DEF VotersIn
    <3> QED BY <3>2, FS_Singleton DEF Majorities
  <2>2. ASSUME NEW l \in Present', NEW i \in DOMAIN l
        PROVE  \E Q \in Majorities(l[i].conf) : \A q \in Q : Gone(q)' \/ term'[q] >= l[i].term
    <3>1. l[i] = e
      BY <1>6, <1>7
    <3>2. \A q \in {First} : term'[q] >= e.term
      BY <1>4, <1>5
    <3> QED BY <2>1, <3>1, <3>2
  <2> QED BY <2>2 DEF VotesInv
<1>11. SafeInv'
  <2>1. \A l, m \in Present' : \A i \in DOMAIN m : LastTerm(l) <= m[i].term /\ LastTerm(l) \in Nat /\ m[i].term \in Nat
    BY <1>4, <1>6, <1>7
  <2>2. \A l, m \in Present' : \A i \in DOMAIN m : ~(LastTerm(l) > m[i].term)
    BY <2>1
  <2> QED BY <1>5, <2>2 DEF SafeInv
<1>12. CommitsInv'
  <2>1. ASSUME NEW p \in Pods PROVE CommitKnown(p)'
    BY <1>2, <1>3 DEF CommitKnown, RaftInv, CommitsInv, Found
  <2>2. st'[First] = "raft"
    BY <1>1, <1>2 DEF RaftInv, Types
  <2> QED BY <1>5, <2>1, <2>2 DEF CommitsInv
<1> QED BY <1>8, <1>9, <1>10, <1>11, <1>12 DEF RaftInv

(***************************************************************************)
(* A log grows: by an entry of a new term, or of its leader's.             *)
(***************************************************************************)
Grown(p, e, n) ==
  /\ log[p] # <<>> /\ n = Append(log[p], e) /\ committed' = committed
  /\ log' = [log EXCEPT ![p] = n]
  /\ LastTerm(log[p]) <= e.term
  /\ \A l \in Present : \A i \in DOMAIN l : l[i].term = e.term => Begins(l, i, log[p])

LEMMA GrownFacts ==
  ASSUME RaftInv, NEW p \in Pods, NEW e \in Entry, NEW n, Grown(p, e, n)
  PROVE  /\ n \in Seq(Entry) /\ Len(log[p]) \in 1..Len(log[p]) /\ Len(n) = Len(log[p]) + 1 /\ DOMAIN n = 1..Len(log[p]) + 1
         /\ Begins(log[p], Len(log[p]), n) /\ n[Len(n)] = e /\ LastTerm(n) = e.term
         /\ log'[p] = n /\ \A q \in Pods \ {p} : log'[q] = log[q]
         /\ Present' \subseteq Present \cup {n}
         /\ Conf(p) = log[p][Len(log[p])].conf /\ LastTerm(log[p]) = log[p][Len(log[p])].term
<1>1. /\ log[p] \in Seq(Entry) /\ Len(log[p]) \in 1..Len(log[p])
      /\ Conf(p) = log[p][Len(log[p])].conf /\ LastTerm(log[p]) = log[p][Len(log[p])].term
  <2>1. log[p] \in Seq(Entry) /\ log[p] # <<>>
    BY PresentFacts DEF RaftInv, Grown
  <2> QED BY <2>1, LogFacts DEF Conf
<1>2. n \in Seq(Entry) /\ Len(n) = Len(log[p]) + 1 /\ n[Len(log[p]) + 1] = e /\ \A i \in 1..Len(log[p]) : n[i] = log[p][i]
  BY <1>1, AppendProperties DEF Grown
<1>3. n # <<>>
  BY <1>1, <1>2
<1>4. LastTerm(n) = e.term
  BY <1>2, <1>3, LogFacts
<1>5. log'[p] = n /\ \A q \in Pods \ {p} : log'[q] = log[q]
  BY DEF Grown, RaftInv, Types
<1>6. Present' \subseteq Present \cup {n}
  BY <1>5 DEF Present, Grown
<1>7. Begins(log[p], Len(log[p]), n)
  BY <1>1, <1>2 DEF Begins
<1> QED BY <1>1, <1>2, <1>4, <1>5, <1>6, <1>7

LEMMA GrownOrder ==
  ASSUME RaftInv, NEW p \in Pods, NEW e \in Entry, NEW n, Grown(p, e, n)
  PROVE  /\ \A l \in Present' : l \in Seq(Entry) /\ Rising(l)
         /\ \A l, m \in Present' : Agreed(l, m)
<1> DEFINE k == Len(log[p])
<1>1. /\ n \in Seq(Entry) /\ k \in 1..k /\ k \in Nat /\ Len(n) = k + 1 /\ DOMAIN n = 1..k + 1
      /\ n[k + 1] = e /\ \A i \in 1..k : n[i] = log[p][i]
      /\ Present' \subseteq Present \cup {n} /\ log[p] \in Present /\ log[p] \in Seq(Entry) /\ Rising(log[p])
      /\ DOMAIN log[p] = 1..k
  BY GrownFacts, PresentFacts DEF Begins, RaftInv
<1>2. e.term \in Nat /\ \A i \in 1..k : n[i].term <= e.term /\ n[i].term \in Nat
  <2>1. \A i \in 1..k : log[p][i].term <= LastTerm(log[p]) /\ log[p][i].term \in Nat
    BY <1>1, LastTermMax, LogFacts
  <2>2. LastTerm(log[p]) <= e.term /\ LastTerm(log[p]) \in Nat
    BY <1>1, LastTermMax DEF Grown
  <2>3. e.term \in Nat
    BY MembershipAssumption DEF MembershipAssumption, Entry
  <2> QED BY <1>1, <2>1, <2>2, <2>3
<1>3. Rising(n)
  <2>1. n[1].term = 1
    BY <1>1, LogFacts DEF Rising
  <2>2. ASSUME NEW i \in 1..k + 1, NEW j \in 1..k + 1, i <= j PROVE n[i].term <= n[j].term
    <3>1. CASE j = k + 1
      <4>1. i = k + 1 \/ i \in 1..k
        BY <1>1
      <4> QED BY <1>1, <1>2, <3>1, <4>1
    <3>2. CASE j # k + 1
      <4>1. i \in 1..k /\ j \in 1..k
        BY <1>1, <2>2, <3>2
      <4> QED BY <1>1, <2>2, <4>1 DEF Rising
    <3> QED BY <3>1, <3>2
  <2> QED BY <1>1, <2>1, <2>2 DEF Rising
<1>4. \A l \in Present : \A i \in DOMAIN l : l[i].term = e.term => Begins(l, i, log[p])
  BY DEF Grown
<1>5. ASSUME NEW l \in Present PROVE Agreed(l, n) /\ Agreed(n, l)
  <2>1. l \in Seq(Entry) /\ Agreed(l, log[p]) /\ Agreed(log[p], l) /\ DOMAIN l = 1..Len(l) /\ Len(l) \in Nat
    BY <1>1, PresentFacts, LogFacts DEF RaftInv
  <2>2. ASSUME NEW i \in DOMAIN l, NEW j \in 1..k + 1, l[i].term = n[j].term, i <= j PROVE Begins(l, i, n)
    <3>1. Begins(l, i, log[p])
      <4>1. CASE j = k + 1
        BY <1>1, <1>4, <2>2, <4>1
      <4>2. CASE j # k + 1
        <5>1. j \in 1..k
          BY <1>1, <4>2
        <5> QED BY <1>1, <2>1, <2>2, <5>1 DEF Agreed
      <4> QED BY <4>1, <4>2
    <3>2. i \in Nat /\ i <= k /\ \A x \in 1..i : l[x] = log[p][x]
      BY <2>1, <3>1 DEF Begins
    <3>3. i <= Len(n) /\ \A x \in 1..i : x \in 1..k
      BY <1>1, <3>2
    <3> QED BY <1>1, <3>2, <3>3 DEF Begins
  <2>3. ASSUME NEW i \in 1..k + 1, NEW j \in DOMAIN l, n[i].term = l[j].term, i <= j PROVE Begins(n, i, l)
    <3>1. CASE i = k + 1
      <4>1. Begins(l, j, log[p])
        BY <1>1, <1>4, <2>3, <3>1
      <4> QED BY <1>1, <2>1, <2>3, <3>1, <4>1 DEF Begins
    <3>2. CASE i # k + 1
      <4>1. i \in 1..k
        BY <1>1, <3>2
      <4>2. Begins(log[p], i, l)
        BY <1>1, <2>1, <2>3, <4>1 DEF Agreed
      <4> QED BY <1>1, <4>1, <4>2 DEF Begins
    <3> QED BY <3>1, <3>2
  <2> QED BY <1>1, <2>2, <2>3 DEF Agreed
<1>6. Agreed(n, n)
  BY <1>1 DEF Agreed, Begins
<1> HIDE DEF k
<1> QED BY <1>1, <1>3, <1>5, <1>6, PresentFacts DEF RaftInv

\* Only its first i entries matter.
LEMMA ChoosableSame ==
  ASSUME NEW l \in Seq(Entry), NEW m \in Seq(Entry), NEW i \in 1..Len(l), Begins(l, i, m), Choosable(m, i)'
  PROVE  Choosable(l, i)'
<1>1. l[i] = m[i] /\ \A k \in 1..i : l[k] = m[k]
  BY BeginsFacts DEF Begins
<1>2. ASSUME NEW q, Accepts(q, m, i)' PROVE Accepts(q, l, i)'
  BY <1>1, <1>2 DEF Accepts, Begins
<1> QED BY <1>1, <1>2 DEF Choosable

LEMMA GrownSafe ==
  ASSUME RaftInv, NEW p \in Pods, NEW e \in Entry, NEW n, Grown(p, e, n),
         \A q \in Pods : Gone(q)' <=> Gone(q),
         \A m \in Present : \A i \in DOMAIN m :
           Choosable(m, i)' => Choosable(m, i) /\ (e.term > m[i].term => Begins(m, i, log[p])),
         \A l \in Present : LastTerm(l) > e.term => ~Choosable(n, Len(n))',
         \A c \in committed : e.term > LastTerm(c) => Begins(c, Len(c), log[p])
  PROVE  SafeInv'
<1> DEFINE k == Len(log[p])
<1>1. /\ n \in Seq(Entry) /\ k \in 1..k /\ k \in Nat /\ Len(n) = k + 1 /\ DOMAIN n = 1..k + 1 /\ LastTerm(n) = e.term
      /\ n[k + 1] = e /\ \A i \in 1..k : n[i] = log[p][i]
      /\ Present' \subseteq Present \cup {n} /\ log[p] \in Present /\ log[p] \in Seq(Entry)
      /\ DOMAIN log[p] = 1..k /\ e.term \in Nat /\ Begins(log[p], k, n)
      /\ log'[p] = n /\ \A q \in Pods \ {p} : log'[q] = log[q]
  <2>1. e.term \in Nat
    BY MembershipAssumption DEF MembershipAssumption, Entry
  <2> QED BY <2>1, GrownFacts, PresentFacts DEF Begins, RaftInv
<1>2. \A m \in Seq(Entry) : \A i \in 1..Len(m) : Begins(m, i, log[p]) => Begins(m, i, n)
  <2> SUFFICES ASSUME NEW m \in Seq(Entry), NEW i \in 1..Len(m), Begins(m, i, log[p]) PROVE Begins(m, i, n)
    OBVIOUS
  <2>1. i \in 1..k /\ \A x \in 1..i : m[x] = log[p][x] /\ x \in 1..k
    BY <1>1 DEF Begins
  <2> QED BY <1>1, <2>1 DEF Begins
<1>3. ASSUME NEW l \in Present', NEW m \in Present, NEW i \in DOMAIN m, Choosable(m, i)', LastTerm(l) > m[i].term
      PROVE  Begins(m, i, l)
  <2>1. Choosable(m, i) /\ (e.term > m[i].term => Begins(m, i, log[p]))
    BY <1>3
  <2>2. m \in Seq(Entry) /\ i \in 1..Len(m)
    BY PresentFacts, LogFacts DEF RaftInv
  <2>3. CASE l \in Present
    BY <1>3, <2>1, <2>3 DEF RaftInv, SafeInv
  <2>4. CASE l = n
    BY <1>1, <1>2, <1>3, <2>1, <2>2, <2>4
  <2> QED BY <1>1, <2>3, <2>4
<1>4. ASSUME NEW l \in Present', NEW i \in DOMAIN n, Choosable(n, i)', LastTerm(l) > n[i].term
      PROVE  Begins(n, i, l)
  <2>1. CASE i = k + 1
    <3>1. l \in Present
      BY <1>1, <1>4, <2>1
    <3> QED BY <1>1, <1>4, <2>1, <3>1
  <2>2. CASE i # k + 1
    <3>1. i \in 1..k /\ i \in DOMAIN log[p] /\ n[i] = log[p][i] /\ Begins(log[p], i, n)
      BY <1>1, <2>2, BeginsFacts
    <3>2. PICK m \in Present : m = log[p]
      BY <1>1
    <3>3. m \in Seq(Entry) /\ i \in 1..Len(m) /\ i \in DOMAIN m /\ Begins(m, i, n) /\ m[i] = n[i]
      BY <1>1, <3>1, <3>2
    <3>4. Choosable(m, i)'
      BY <1>1, <1>4, <3>3, ChoosableSame
    <3>5. Begins(m, i, l)
      BY <1>3, <1>4, <3>3, <3>4
    <3> QED BY <1>1, <3>1, <3>2, <3>5 DEF Begins
  <2> QED BY <2>1, <2>2
<1>5. ASSUME NEW l \in Present', NEW c \in committed, LastTerm(l) > LastTerm(c) PROVE Begins(c, Len(c), l)
  <2>1. c \in Seq(Entry) /\ Len(c) \in 1..Len(c)
    BY PresentFacts DEF RaftInv
  <2>2. CASE l \in Present
    BY <1>5, <2>2 DEF RaftInv, SafeInv
  <2>3. CASE l = n
    BY <1>1, <1>2, <1>5, <2>1, <2>3
  <2> QED BY <1>1, <2>2, <2>3
<1>6. ASSUME NEW c \in committed
      PROVE  \E Q \in Majorities(Last(c).conf) : \A q \in Q : Gone(q)' \/ Begins(c, Len(c), log'[q])
  <2>1. PICK Q \in Majorities(Last(c).conf) : \A q \in Q : Gone(q) \/ Begins(c, Len(c), log[q])
    BY DEF RaftInv, SafeInv
  <2>2. c \in Seq(Entry) /\ Len(c) \in 1..Len(c) /\ Last(c).conf \in SUBSET Members
    BY PresentFacts, LogFacts DEF RaftInv
  <2>3. \A q \in Q : q \in Pods
    BY <2>1, <2>2, MajorityPods
  <2>4. \A q \in Q : Gone(q)' \/ Begins(c, Len(c), log'[q])
    BY <1>1, <1>2, <2>1, <2>2, <2>3
  <2> QED BY <2>1, <2>4
<1>7. committed' = committed
  BY DEF Grown
<1> HIDE DEF k
<1> QED BY <1>1, <1>3, <1>4, <1>5, <1>6, <1>7 DEF SafeInv

LEMMA GrownChanges ==
  ASSUME RaftInv, NEW p \in Pods, NEW e \in Entry, NEW n, Grown(p, e, n),
         ChangesAfter(n, Len(n), {j \in 1..Len(n) : Found(n, j)})
  PROVE  ChangesInv'
<1> DEFINE k == Len(log[p])
<1>1. /\ n \in Seq(Entry) /\ k \in 1..k /\ k \in Nat /\ Len(n) = k + 1
      /\ \A i \in 1..k : n[i] = log[p][i]
      /\ Present' \subseteq Present \cup {n} /\ log[p] \in Present /\ committed' = committed
  <2>1. committed' = committed
    BY DEF Grown
  <2>2. log[p] \in Present
    BY PresentFacts DEF RaftInv
  <2> QED BY <2>1, <2>2, GrownFacts DEF Begins
<1>2. \A l : \A j : Found(l, j)' <=> Found(l, j)
  BY <1>1 DEF Found
<1>3. ASSUME NEW l \in Present', NEW i \in 2..Len(l) PROVE ChangesAfter(l, i, {j \in 1..Len(l) : Found(l, j)})
  <2>1. CASE l \in Present
    BY <2>1 DEF RaftInv, ChangesInv
  <2>2. CASE l = n /\ i # k + 1
    <3>1. i \in 2..k /\ i - 1 \in 1..k /\ i \in 1..k
      BY <1>1, <2>2
    <3>2. ChangesAfter(log[p], i, {j \in 1..k : Found(log[p], j)})
      BY <1>1, <3>1 DEF RaftInv, ChangesInv
    <3>3. ASSUME NEW j \in 1..k, Found(log[p], j) PROVE Found(n, j) /\ j \in 1..Len(n)
      <4>1. PICK c \in committed : Len(c) = j /\ Begins(c, j, log[p])
        BY <3>3 DEF Found
      <4>2. \A x \in 1..j : x \in 1..k
        BY <1>1
      <4>3. Begins(c, j, n)
        BY <1>1, <4>1, <4>2 DEF Begins
      <4> QED BY <1>1, <4>1, <4>3 DEF Found
    <3>4. n[i] = log[p][i] /\ n[i - 1] = log[p][i - 1] /\ \A x \in 1..i - 1 : n[x] = log[p][x]
      BY <1>1, <3>1
    <3>5. \A j \in 1..k : j < i => n[j] = log[p][j] /\ \A x \in j..i - 1 : n[x] = log[p][x]
      BY <1>1, <3>1
    <3> HIDE DEF k
    <3> QED BY <2>2, <3>2, <3>3, <3>4, <3>5 DEF ChangesAfter
  <2>3. CASE l = n /\ i = k + 1
    BY <1>1, <2>3
  <2> QED BY <1>1, <2>1, <2>2, <2>3
<1> QED BY <1>2, <1>3 DEF ChangesInv, ChangesAfter

LEMMA GrownVotes ==
  ASSUME RaftInv, NEW p \in Pods, NEW e \in Entry, NEW n, Grown(p, e, n),
         \A q \in Pods : (Gone(q) => Gone(q)') /\ term'[q] \in Nat /\ term'[q] >= term[q],
         LastTerm(log[p]) < e.term => \E Q \in Majorities(e.conf) : \A q \in Q : Gone(q)' \/ term'[q] >= e.term
  PROVE  VotesInv'
<1> DEFINE k == Len(log[p])
<1>1. /\ n \in Seq(Entry) /\ k \in 1..k /\ k \in Nat /\ Len(n) = k + 1 /\ DOMAIN n = 1..k + 1 /\ n[k + 1] = e
      /\ \A i \in 1..k : n[i] = log[p][i]
      /\ Present' \subseteq Present \cup {n} /\ log[p] \in Present /\ DOMAIN log[p] = 1..k
      /\ log[p][k].term = LastTerm(log[p])
  <2>1. log[p] \in Present /\ DOMAIN log[p] = 1..k
    BY PresentFacts, LogFacts DEF RaftInv
  <2> QED BY <2>1, GrownFacts DEF Begins
<1>2. ASSUME NEW l \in Present, NEW i \in DOMAIN l, i = 1 \/ l[i - 1].term < l[i].term
      PROVE  \E Q \in Majorities(l[i].conf) : \A q \in Q : Gone(q)' \/ term'[q] >= l[i].term
  <2>1. l[i].conf \in SUBSET Members /\ l[i].term \in Nat
    BY PresentFacts, LogFacts DEF RaftInv
  <2>2. PICK Q \in Majorities(l[i].conf) : \A q \in Q : Gone(q) \/ term[q] >= l[i].term
    BY <1>2 DEF RaftInv, VotesInv
  <2>3. Q \subseteq Pods
    BY <2>1, MajorityPods
  <2>4. ASSUME NEW q \in Q PROVE Gone(q)' \/ term'[q] >= l[i].term
    <3>1. q \in Pods /\ (Gone(q) \/ term[q] >= l[i].term)
      BY <2>2, <2>3
    <3>2. term[q] \in Nat /\ (Gone(q) => Gone(q)') /\ term'[q] \in Nat /\ term'[q] >= term[q]
      BY <3>1, MembershipAssumption DEF MembershipAssumption, RaftInv, Types
    <3> QED BY <2>1, <3>1, <3>2
  <2> QED BY <2>2, <2>4
<1>3. ASSUME NEW i \in DOMAIN n, i = 1 \/ n[i - 1].term < n[i].term
      PROVE  \E Q \in Majorities(n[i].conf) : \A q \in Q : Gone(q)' \/ term'[q] >= n[i].term
  <2>1. CASE i = k + 1
    <3>1. LastTerm(log[p]) < e.term
      <4>1. i # 1 /\ i - 1 = k
        BY <1>1, <2>1
      <4> QED BY <1>1, <1>3, <2>1, <4>1
    <3> QED BY <1>1, <2>1, <3>1
  <2>2. CASE i # k + 1
    <3>1. i \in 1..k /\ (i # 1 => i - 1 \in 1..k)
      BY <1>1, <2>2
    <3>2. n[i] = log[p][i] /\ (i # 1 => n[i - 1] = log[p][i - 1])
      BY <1>1, <3>1
    <3> QED BY <1>1, <1>2, <1>3, <3>1, <3>2
  <2> QED BY <2>1, <2>2
<1> HIDE DEF k
<1> QED BY <1>1, <1>2, <1>3 DEF VotesInv

LEMMA GrownKnown ==
  ASSUME RaftInv, NEW p \in Pods, NEW e \in Entry, NEW n, Grown(p, e, n), commit' = commit
  PROVE  \A r \in Pods : CommitKnown(r)'
<1>1. /\ Len(log[p]) \in Nat /\ Len(n) = Len(log[p]) + 1 /\ Begins(log[p], Len(log[p]), n)
      /\ log'[p] = n /\ (\A q \in Pods \ {p} : log'[q] = log[q]) /\ committed' = committed
  <2>1. Len(log[p]) \in Nat /\ committed' = committed
    BY PresentFacts, LogFacts DEF RaftInv, Grown
  <2> QED BY <2>1, GrownFacts
<1>2. ASSUME NEW r \in Pods, r # p PROVE CommitKnown(r)'
  BY <1>1, <1>2 DEF CommitKnown, RaftInv, CommitsInv, Found
<1>3. CASE commit[p] > 0
  <2>1. commit[p] \in Nat /\ commit[p] <= Len(log[p])
    BY <1>3 DEF RaftInv, CommitsInv, CommitKnown, Types
  <2>2. PICK c \in committed : Len(c) = commit[p] /\ Begins(c, commit[p], log[p])
    BY <1>3 DEF RaftInv, CommitsInv, CommitKnown, Found
  <2>3. Begins(c, commit[p], n) /\ commit[p] <= Len(n)
    BY <1>1, <2>1, <2>2 DEF Begins
  <2> QED BY <1>1, <1>2, <2>2, <2>3 DEF CommitKnown, Found
<1>4. CASE ~(commit[p] > 0)
  BY <1>2, <1>4 DEF CommitKnown
<1> QED BY <1>3, <1>4

LEMMA ElectFacts ==
  ASSUME RaftInv, NEW p \in Pods, NEW Q \in SUBSET Pods, BecomeLeader(p, Q)
  PROVE  /\ Electors(p, Q) /\ p \in Q /\ Q \cap lead = {}
         /\ lead' = lead \cup {p} /\ UNCHANGED <<st, commit, committed>>
         /\ \E t \in Nat, e \in Entry :
              /\ e.term = t /\ e.conf = Conf(p) /\ log' = [log EXCEPT ![p] = Append(log[p], e)]
              /\ \A q \in Q : term[q] < t /\ term'[q] = t
              /\ \A q \in Pods \ Q : term'[q] = term[q]
<1> DEFINE x == CHOOSE x \in {term[q] : q \in Q} : \A q \in Q : term[q] <= x
           t == 1 + x
           e == [term |-> t, conf |-> Conf(p), cmd |-> None]
<1>1. p \in Q /\ Q \cap lead = {} /\ Q \in Quorums(p) /\ \A q \in Q : AtLeastAsNew(log[p], log[q])
  BY DEF BecomeLeader
<1>2. Electors(p, Q)
  <2>1. Q \in Majorities(Conf(p)) /\ \A q \in Q : ~Gone(q)
    BY <1>1 DEF Quorums, Voters, Majorities, VotersIn, Up, Gone
  <2>2. log[p] # <<>>
    <3>1. Conf(p) # {}
      BY <1>1, <2>1 DEF Majorities, VotersIn
    <3> QED BY <3>1 DEF Conf
  <2> QED BY <1>1, <2>1, <2>2 DEF Electors
<1>3. x \in 0..MaxTerm /\ \A q \in Q : term[q] <= x
  <2>1. term \in [Pods -> 0..MaxTerm] /\ Q # {}
    BY <1>1 DEF RaftInv, Types
  <2> QED BY <2>1, LatestTerm
<1>4. /\ t <= MaxTerm /\ term' = [q \in Pods |-> IF q \in Q THEN t ELSE term[q]]
      /\ log' = [log EXCEPT ![p] = Append(@, e)]
      /\ lead' = lead \cup {p} /\ UNCHANGED <<st, commit, committed>>
  BY DEF BecomeLeader
<1> HIDE DEF x
<1>5. t \in 1..MaxTerm /\ t \in Nat /\ \A q \in Q : term[q] < t
  <2>1. \A q \in Q : term[q] \in Nat
    BY MembershipAssumption DEF MembershipAssumption, RaftInv, Types
  <2> QED BY <1>3, <1>4, <2>1, MembershipAssumption DEF MembershipAssumption
<1> HIDE DEF t
<1>6. e \in Entry /\ e.term = t /\ e.conf = Conf(p)
  BY <1>5, ConfType DEF Entry, RaftInv
<1> HIDE DEF e
<1>7. log' = [log EXCEPT ![p] = Append(log[p], e)]
  BY <1>4
<1> QED BY <1>1, <1>2, <1>4, <1>5, <1>6, <1>7

\* A process is elected.
LEMMA ElectRaft ==
  ASSUME RaftInv, Types', NEW p \in Pods, NEW Q \in SUBSET Pods, BecomeLeader(p, Q) PROVE RaftInv'
<1>1. Electors(p, Q) /\ p \in Q /\ Q \cap lead = {} /\ lead' = lead \cup {p} /\ UNCHANGED <<st, commit, committed>>
  BY ElectFacts
<1>2. PICK t \in Nat, e \in Entry :
              /\ e.term = t /\ e.conf = Conf(p) /\ log' = [log EXCEPT ![p] = Append(log[p], e)]
              /\ \A q \in Q : term[q] < t /\ term'[q] = t
              /\ \A q \in Pods \ Q : term'[q] = term[q]
  BY ElectFacts
<1>3. PICK n : n = Append(log[p], e)
  OBVIOUS
<1>4. \A q \in Pods : term[q] \in Nat /\ LastTerm(log[q]) \in Nat /\ LastTerm(log[q]) <= term[q]
  <2>1. \A q \in Pods : term[q] \in Nat
    BY MembershipAssumption DEF MembershipAssumption, RaftInv, Types
  <2>2. \A q \in Pods : log[q] \in Seq(Entry) /\ Rising(log[q])
    BY PresentFacts DEF RaftInv
  <2>3. \A q \in Pods : LastTerm(log[q]) <= term[q]
    BY DEF RaftInv, LogsInv
  <2> QED BY <2>1, <2>2, <2>3, LastTermMax
<1>5. LastTerm(log[p]) < t /\ LastTerm(log[p]) <= t
  BY <1>1, <1>2, <1>4
<1>6. \A l \in Present : LastTerm(l) < t /\ LastTerm(l) \in Nat
  BY <1>1, <1>2, <1>5, ElectedLast, PresentFacts, LastTermMax DEF RaftInv
<1>7. \A l \in Present : \A i \in DOMAIN l : l[i].term < t /\ l[i].term \in Nat
  <2> SUFFICES ASSUME NEW l \in Present, NEW i \in DOMAIN l PROVE l[i].term < t /\ l[i].term \in Nat
    OBVIOUS
  <2>1. l \in Seq(Entry) /\ Rising(l) /\ i \in 1..Len(l)
    BY PresentFacts, LogFacts DEF RaftInv
  <2>2. l[i].term <= LastTerm(l) /\ l[i].term \in Nat
    BY <2>1, LastTermMax, LogFacts
  <2> QED BY <1>6, <2>2
<1>8. Grown(p, e, n)
  <2>1. \A l \in Present : \A i \in DOMAIN l : l[i].term # t
    BY <1>7
  <2> QED BY <1>1, <1>2, <1>3, <1>5, <2>1 DEF Grown, Electors
<1>9. /\ n \in Seq(Entry) /\ Len(log[p]) \in 1..Len(log[p]) /\ Len(n) = Len(log[p]) + 1 /\ DOMAIN n = 1..Len(log[p]) + 1
      /\ Begins(log[p], Len(log[p]), n) /\ n[Len(n)] = e /\ LastTerm(n) = t
      /\ log'[p] = n /\ \A q \in Pods \ {p} : log'[q] = log[q]
      /\ Present' \subseteq Present \cup {n}
      /\ Conf(p) = log[p][Len(log[p])].conf
  BY <1>2, <1>8, GrownFacts
<1>10. \A q \in Pods : (Gone(q)' <=> Gone(q)) /\ term'[q] \in Nat /\ term'[q] >= term[q]
  BY <1>1, <1>2, <1>4 DEF Gone
<1>11. \A r \in lead : r \in Pods \ {p} /\ r \in Pods \ Q /\ term'[r] = term[r] /\ log'[r] = log[r]
                       /\ LastTerm(log[r]) = term[r] /\ term[r] < t /\ log[r] # <<>>
  <2>1. \A r \in lead : r \in Pods /\ r \notin Q /\ r # p
    BY <1>1 DEF RaftInv, Types
  <2>2. \A r \in lead : LastTerm(log[r]) = term[r] /\ log[r] \in Present /\ log[r] # <<>>
    BY <2>1, PresentFacts DEF RaftInv, LogsInv
  <2> QED BY <1>2, <1>6, <1>9, <2>1, <2>2
<1>12. LogsInv'
  <2>1. ASSUME NEW q \in Pods PROVE LastTerm(log'[q]) <= term'[q]
    <3>1. CASE q = p
      <4>1. LastTerm(log'[q]) = t
        BY <1>9, <3>1
      <4>2. term'[q] = t
        BY <1>1, <1>2, <3>1
      <4> QED BY <4>1, <4>2
    <3>2. CASE q # p
      <4>1. log'[q] = log[q] /\ term[q] \in Nat /\ LastTerm(log[q]) \in Nat /\ LastTerm(log[q]) <= term[q]
        BY <1>4, <1>9, <3>2
      <4>2. term'[q] \in Nat /\ term'[q] >= term[q]
        BY <1>10
      <4> QED BY <4>1, <4>2
    <3> QED BY <3>1, <3>2
  <2>2. ASSUME NEW r \in lead' PROVE log'[r] # <<>> /\ LastTerm(log'[r]) = term'[r] /\ ~Gone(r)'
    <3>1. CASE r = p
      <4>1. ~Gone(p)
        BY <1>1 DEF Electors
      <4>2. n # <<>>
        BY <1>9
      <4> QED BY <1>1, <1>2, <1>9, <1>10, <3>1, <4>1, <4>2
    <3>2. CASE r \in lead
      BY <1>10, <1>11, <3>2 DEF RaftInv, LogsInv
    <3> QED BY <1>1, <3>1, <3>2
  <2>3. ASSUME NEW q \in lead', NEW r \in lead', term'[q] = term'[r] PROVE q = r
    <3>1. term'[p] = t /\ \A s \in lead : term'[s] # t
      BY <1>1, <1>2, <1>11
    <3> QED BY <1>1, <1>11, <2>3, <3>1 DEF RaftInv, LogsInv
  <2>4. ASSUME NEW r \in lead', NEW l \in Present', NEW i \in DOMAIN l, l[i].term = term'[r] PROVE Begins(l, i, log'[r])
    <3>1. CASE r = p
      <4>1. l = n
        BY <1>1, <1>2, <1>7, <1>9, <2>4, <3>1
      <4> QED BY <1>9, <3>1, <4>1 DEF Begins
    <3>2. CASE r \in lead /\ l \in Present
      BY <1>11, <2>4, <3>2 DEF RaftInv, LogsInv
    <3>3. CASE r \in lead /\ l = n
      <4>1. i # Len(n)
        BY <1>2, <1>9, <1>11, <2>4, <3>3
      <4>2. i \in 1..Len(log[p]) /\ i \in DOMAIN log[p] /\ n[i] = log[p][i] /\ log[p] \in Present
        BY <1>9, <3>3, <4>1, PresentFacts, LogFacts DEF Begins, RaftInv
      <4>3. Begins(log[p], i, log[r])
        BY <1>11, <2>4, <3>3, <4>2 DEF RaftInv, LogsInv
      <4>4. \A x \in 1..i : x \in 1..Len(log[p])
        BY <1>9, <4>2
      <4> QED BY <1>9, <1>11, <3>3, <4>2, <4>3, <4>4 DEF Begins
    <3> QED BY <1>1, <1>9, <3>1, <3>2, <3>3
  <2>5. committed' \in SUBSET (Seq(Entry) \ {<<>>})
    BY <1>1 DEF RaftInv, LogsInv
  <2> QED BY <1>8, <2>1, <2>2, <2>3, <2>4, <2>5, GrownOrder DEF LogsInv
<1>13. ChangesInv'
  <2>1. Len(n) - 1 = Len(log[p]) /\ n[Len(log[p])] = log[p][Len(log[p])]
    BY <1>9 DEF Begins
  <2>2. ChangesAfter(n, Len(n), {j \in 1..Len(n) : Found(n, j)})
    BY <1>2, <1>9, <2>1 DEF ChangesAfter
  <2> QED BY <1>8, <2>2, GrownChanges
<1>14. VotesInv'
  <2>1. Q \in Majorities(e.conf) /\ \A q \in Q : term'[q] >= e.term
    BY <1>1, <1>2 DEF Electors
  <2> QED BY <1>8, <1>10, <2>1, GrownVotes
<1>15. SafeInv'
  <2>1. ASSUME NEW m \in Present, NEW i \in DOMAIN m, NEW q \in Pods, Accepts(q, m, i)'
        PROVE  Accepts(q, m, i) /\ q # p /\ (q \in Q => Begins(m, i, log[q]))
    <3>1. m[i].term < t /\ m[i].term \in Nat
      BY <1>7
    <3>2. q # p
      <4> SUFFICES ASSUME q = p PROVE FALSE
        OBVIOUS
      <4>1. term'[q] = t /\ LastTerm(log'[q]) = t
        BY <1>1, <1>2, <1>9
      <4>2. t <= m[i].term \/ t = m[i].term
        BY <2>1, <4>1 DEF Accepts
      <4> QED BY <3>1, <4>2
    <3>3. ~Gone(q) /\ (term'[q] <= m[i].term \/ (LastTerm(log[q]) = m[i].term /\ Begins(m, i, log[q])))
      BY <1>9, <1>10, <2>1, <3>2 DEF Accepts
    <3>4. q \in Q => ~(term'[q] <= m[i].term)
      BY <1>2, <3>1
    <3>5. q \notin Q => term'[q] = term[q]
      BY <1>2
    <3> QED BY <3>2, <3>3, <3>4, <3>5 DEF Accepts
  <2>2. ASSUME NEW m \in Present, NEW i \in DOMAIN m, Choosable(m, i)'
        PROVE  Choosable(m, i) /\ Begins(m, i, log[p])
    <3>1. Choosable(m, i)
      BY <2>1, <2>2, ChoosableBefore
    <3>2. i \in 1..Len(m) /\ m[i].conf \in SUBSET Members /\ m[i].term \in Nat /\ log[p] \in Present
      BY PresentFacts, LogFacts DEF RaftInv
    <3>3. PICK P \in Majorities(m[i].conf) : \A q \in P : Accepts(q, m, i)'
      BY <2>2 DEF Choosable
    <3>4. CASE LastTerm(log[p]) > m[i].term
      BY <3>1, <3>2, <3>4 DEF RaftInv, SafeInv
    <3>5. CASE LastTerm(log[p]) <= m[i].term /\ ~Begins(m, i, log[p])
      <4>1. PICK q \in P \cap Q : q \in Pods
        BY <1>1, <3>2, <3>3, <3>5, CandidatesMeet
      <4>2. Begins(m, i, log[q])
        BY <2>1, <3>3, <4>1
      <4> QED BY <1>1, <3>2, <3>5, <4>1, <4>2, ElectorHas
    <3> QED BY <1>4, <3>1, <3>2, <3>4, <3>5
  <2>3. \A l \in Present : ~(LastTerm(l) > e.term)
    BY <1>2, <1>6
  <2>4. \A c \in committed : Begins(c, Len(c), log[p])
    BY <1>1, CandidatesKnow
  <2>5. \A q \in Pods : Gone(q)' <=> Gone(q)
    BY <1>10
  <2> QED BY <1>8, <2>2, <2>3, <2>4, <2>5, GrownSafe
<1>16. CommitsInv'
  <2>1. ASSUME NEW r \in lead', NEW c \in committed', LastTerm(c) = term'[r] PROVE Len(c) <= commit'[r]
    <3>1. c \in committed /\ c \in Present
      BY <1>1, PresentFacts DEF RaftInv
    <3>2. r # p
      BY <1>1, <1>2, <1>6, <2>1, <3>1
    <3> QED BY <1>1, <1>11, <2>1, <3>1, <3>2 DEF RaftInv, CommitsInv
  <2>2. \A r \in Pods : CommitKnown(r)'
    BY <1>1, <1>8, GrownKnown
  <2>3. ~(st'[First] \in {"fresh", "booting"})
    BY <1>1, PresentFacts DEF RaftInv, CommitsInv, Electors
  <2> QED BY <2>1, <2>2, <2>3 DEF CommitsInv
<1> QED BY <1>12, <1>13, <1>14, <1>15, <1>16 DEF RaftInv

(***************************************************************************)
(* A leader appends an entry to its log.                                   *)
(***************************************************************************)
Appends(p, e, n) ==
  /\ p \in lead /\ e.term = term[p] /\ n = Append(log[p], e)
  /\ log' = [log EXCEPT ![p] = n] /\ UNCHANGED <<st, term, commit, lead, committed>>

\* l has p's log of its term, up to where the configuration last changed.
Anchored(p, l) ==
  \E i \in 1..Len(log[p]) :
    log[p][i].term = term[p] /\ Begins(log[p], i, l) /\ \A k \in i..Len(log[p]) : log[p][k].conf = Conf(p)

LEMMA AppendFacts ==
  ASSUME RaftInv, NEW p \in Pods, NEW e \in Entry, NEW n, Appends(p, e, n)
  PROVE  /\ Grown(p, e, n) /\ log[p] \in Present /\ log[p] \in Seq(Entry) /\ Rising(log[p])
         /\ LastTerm(log[p]) = term[p] /\ term[p] \in Nat /\ ~Gone(p)
         /\ Conf(p) \in SUBSET Members /\ e.conf \in SUBSET Members
         /\ \A q \in Pods : (Gone(q)' <=> Gone(q)) /\ term'[q] = term[q] /\ term[q] \in Nat
<1>1. log[p] # <<>> /\ LastTerm(log[p]) = term[p] /\ ~Gone(p)
  BY DEF Appends, RaftInv, LogsInv
<1>2. log[p] \in Present /\ log[p] \in Seq(Entry) /\ Rising(log[p])
  BY PresentFacts DEF RaftInv
<1>3. \A q \in Pods : term[q] \in Nat
  BY MembershipAssumption DEF MembershipAssumption, RaftInv, Types
<1>4. \A l \in Present : \A i \in DOMAIN l : l[i].term = e.term => Begins(l, i, log[p])
  BY DEF Appends, RaftInv, LogsInv
<1>5. Grown(p, e, n)
  BY <1>1, <1>3, <1>4 DEF Appends, Grown
<1>6. Conf(p) \in SUBSET Members /\ e.conf \in SUBSET Members
  BY ConfType DEF RaftInv, Entry
<1> QED BY <1>1, <1>2, <1>3, <1>5, <1>6 DEF Appends, Gone

\* No log of a later term parted from p's before the new entry could be committed.
LEMMA AppendLast ==
  ASSUME RaftInv, NEW p \in Pods, NEW e \in Entry, NEW n, Appends(p, e, n), OneOff(Conf(p), e.conf),
         NEW l \in Present, LastTerm(l) > term[p], Anchored(p, l), Choosable(n, Len(n))'
  PROVE  FALSE
<1>1. /\ Grown(p, e, n) /\ log[p] \in Seq(Entry) /\ term[p] \in Nat
      /\ Conf(p) \in SUBSET Members /\ e.conf \in SUBSET Members
      /\ \A q \in Pods : (Gone(q)' <=> Gone(q)) /\ term'[q] = term[q] /\ term[q] \in Nat
  BY AppendFacts
<1>2. /\ l \in Seq(Entry) /\ Rising(l) /\ DOMAIN l = 1..Len(l) /\ Len(l) \in Nat /\ LastTerm(l) \in Nat
      /\ \A x \in 1..Len(l) : l[x].term \in Nat /\ l[x].term >= 1
  BY PresentFacts, LogFacts, LastTermMax DEF RaftInv
<1>3. PICK i \in 1..Len(log[p]) :
         log[p][i].term = term[p] /\ Begins(log[p], i, l) /\ \A x \in i..Len(log[p]) : log[p][x].conf = Conf(p)
  BY DEF Anchored
<1>4. i \in 1..Len(l) /\ l[i].term = term[p]
  BY <1>1, <1>2, <1>3, BeginsFacts
<1> DEFINE W == {x \in Nat : x \in 1..Len(l) /\ l[x].term > term[p]}
<1>5. W \in SUBSET Nat /\ W # {}
  <2>1. l # <<>>
    BY <1>1 DEF LastTerm
  <2>2. Len(l) \in 1..Len(l) /\ l[Len(l)].term = LastTerm(l)
    BY <1>2, <2>1, LogFacts
  <2> QED BY <1>2, <2>2
<1>6. PICK k \in W : \A x \in W : k <= x
  <2> HIDE DEF W
  <2> QED BY <1>5, Smallest
<1>7. k \in 1..Len(l) /\ l[k].term > term[p] /\ i < k
  <2>1. k \in 1..Len(l) /\ l[k].term > term[p] /\ l[k].term \in Nat
    BY <1>2
  <2>2. l[i].term < l[k].term
    BY <1>1, <1>4, <2>1
  <2> QED BY <1>2, <1>4, <2>1, <2>2, LastTermMax
<1>8. k - 1 \in 1..Len(l) /\ k - 1 \in Nat /\ i <= k - 1 /\ l[k - 1].term = term[p]
  <2>1. k - 1 \in 1..Len(l) /\ k - 1 \in Nat /\ i <= k - 1 /\ ~(k <= k - 1)
    BY <1>2, <1>4, <1>7
  <2>2. ~(l[k - 1].term > term[p])
    BY <1>6, <2>1
  <2>3. l[i].term <= l[k - 1].term
    BY <1>2, <1>4, <2>1 DEF Rising
  <2> QED BY <1>1, <1>2, <1>4, <2>1, <2>2, <2>3
<1> HIDE DEF W
<1>9. l[k - 1].conf = Conf(p)
  <2>1. Begins(l, k - 1, log[p])
    BY <1>2, <1>8 DEF Appends, RaftInv, LogsInv
  <2>2. k - 1 \in 1..Len(log[p]) /\ l[k - 1] = log[p][k - 1]
    BY <1>1, <1>2, <1>8, <2>1, BeginsFacts
  <2> QED BY <1>3, <1>8, <2>2
<1>10. l[k].conf = l[k - 1].conf
  <2> SUFFICES ASSUME l[k].conf # l[k - 1].conf PROVE FALSE
    OBVIOUS
  <2>1. k \in 2..Len(l)
    BY <1>7, <1>8
  <2>2. PICK j \in 1..Len(l) : j < k /\ l[j].term = l[k].term
    BY <2>1 DEF RaftInv, ChangesInv, ChangesAfter
  <2>3. j <= k - 1
    BY <1>7, <2>2
  <2>4. l[j].term <= l[k - 1].term
    BY <1>2, <1>8, <2>3 DEF Rising
  <2> QED BY <1>1, <1>2, <1>7, <1>8, <2>2, <2>4
<1>11. PICK P \in Majorities(Conf(p)) : \A q \in P : Gone(q) \/ term[q] >= l[k].term
  <2>1. l[k - 1].term < l[k].term /\ k \in DOMAIN l
    BY <1>1, <1>2, <1>7, <1>8
  <2> QED BY <1>9, <1>10, <2>1 DEF RaftInv, VotesInv
<1>12. n[Len(n)] = e /\ n \in Seq(Entry) /\ Len(n) = Len(log[p]) + 1 /\ \A q \in Pods \ {p} : log'[q] = log[q]
  BY <1>1, GrownFacts
<1>13. PICK Q \in Majorities(e.conf) : \A q \in Q : Accepts(q, n, Len(n))'
  BY <1>12 DEF Choosable
<1>14. PICK q \in P \cap Q : q \in Pods
  BY <1>1, <1>11, <1>13, MajoritiesMeet
<1>15. ~Gone(q) /\ term[q] > term[p]
  <2>1. ~Gone(q)'
    BY <1>13, <1>14 DEF Accepts
  <2>2. ~Gone(q) /\ term[q] >= l[k].term
    BY <1>1, <1>11, <1>14, <2>1
  <2> QED BY <1>1, <1>2, <1>7, <1>14, <2>2
<1>16. q # p /\ log'[q] = log[q]
  BY <1>1, <1>12, <1>14, <1>15
<1>17. Begins(n, Len(n), log[q])
  <2>1. e.term = term[p]
    BY DEF Appends
  <2>2. ~(term'[q] <= e.term)
    BY <1>1, <1>14, <1>15, <2>1
  <2> QED BY <1>12, <1>13, <1>14, <1>16, <2>2 DEF Accepts
<1>18. log[q] \in Present /\ log[q] \in Seq(Entry) /\ Len(n) \in 1..Len(n) /\ Len(log[p]) \in Nat
  BY <1>1, <1>12, <1>14, PresentFacts DEF RaftInv
<1>19. Len(n) \in DOMAIN log[q] /\ log[q][Len(n)].term = term[p]
  BY <1>12, <1>17, <1>18, BeginsFacts, LogFacts DEF Appends
<1>20. Begins(log[q], Len(n), log[p])
  BY <1>18, <1>19 DEF Appends, RaftInv, LogsInv
<1> QED BY <1>12, <1>18, <1>20 DEF Begins

LEMMA AppendRaft ==
  ASSUME RaftInv, Types', NEW p \in Pods, NEW e \in Entry, NEW n, Appends(p, e, n), OneOff(Conf(p), e.conf),
         ChangesAfter(n, Len(n), {j \in 1..Len(n) : Found(n, j)}),
         \A l \in Present : LastTerm(l) > term[p] /\ Choosable(n, Len(n))' => Anchored(p, l)
  PROVE  RaftInv'
<1>1. /\ Grown(p, e, n) /\ log[p] \in Present /\ log[p] \in Seq(Entry) /\ LastTerm(log[p]) = term[p] /\ term[p] \in Nat
      /\ \A q \in Pods : (Gone(q)' <=> Gone(q)) /\ term'[q] = term[q] /\ term[q] \in Nat
  BY AppendFacts
<1>2. e.term = term[p] /\ p \in lead /\ UNCHANGED <<st, term, commit, lead, committed>>
  BY DEF Appends
<1>3. /\ n \in Seq(Entry) /\ Len(log[p]) \in 1..Len(log[p]) /\ Len(n) = Len(log[p]) + 1 /\ DOMAIN n = 1..Len(log[p]) + 1
      /\ Begins(log[p], Len(log[p]), n) /\ n[Len(n)] = e /\ LastTerm(n) = term[p]
      /\ log'[p] = n /\ \A q \in Pods \ {p} : log'[q] = log[q]
      /\ Present' \subseteq Present \cup {n} /\ DOMAIN log[p] = 1..Len(log[p])
  BY <1>1, <1>2, GrownFacts, LogFacts
<1>4. \A m : \A i \in 1..Len(log[p]) : Begins(m, i, log[p]) => Begins(m, i, n)
  BY <1>3 DEF Begins
<1>5. LogsInv'
  <2>1. ASSUME NEW q \in Pods PROVE LastTerm(log'[q]) <= term'[q]
    <3>1. CASE q = p
      BY <1>1, <1>3, <3>1
    <3>2. CASE q # p
      BY <1>1, <1>3, <3>2 DEF RaftInv, LogsInv
    <3> QED BY <3>1, <3>2
  <2>2. ASSUME NEW r \in lead' PROVE log'[r] # <<>> /\ LastTerm(log'[r]) = term'[r] /\ ~Gone(r)'
    <3>1. r \in lead /\ r \in Pods /\ log[r] # <<>> /\ LastTerm(log[r]) = term[r] /\ ~Gone(r)
      BY <1>2 DEF RaftInv, LogsInv, Types
    <3>2. CASE r = p
      <4>1. n # <<>>
        BY <1>3
      <4> QED BY <1>1, <1>3, <3>1, <3>2, <4>1
    <3>3. CASE r # p
      BY <1>1, <1>3, <3>1, <3>3
    <3> QED BY <3>2, <3>3
  <2>3. \A q, r \in lead' : term'[q] = term'[r] => q = r
    BY <1>2 DEF RaftInv, LogsInv
  <2>4. ASSUME NEW r \in lead', NEW l \in Present', NEW i \in DOMAIN l, l[i].term = term'[r] PROVE Begins(l, i, log'[r])
    <3>1. r \in lead /\ r \in Pods /\ l[i].term = term[r]
      BY <1>2, <2>4 DEF RaftInv, Types
    <3>2. ASSUME NEW m \in Present, NEW j \in DOMAIN m, m[j].term = term[r] PROVE Begins(m, j, log'[r])
      <4>1. Begins(m, j, log[r])
        BY <3>1, <3>2 DEF RaftInv, LogsInv
      <4>2. CASE r = p
        <5>1. m \in Seq(Entry) /\ j \in 1..Len(m)
          BY PresentFacts, LogFacts DEF RaftInv
        <5>2. j \in 1..Len(log[p])
          BY <1>1, <4>1, <4>2, <5>1, BeginsFacts
        <5> QED BY <1>3, <1>4, <4>1, <4>2, <5>2
      <4>3. CASE r # p
        BY <1>3, <3>1, <4>1, <4>3
      <4> QED BY <4>2, <4>3
    <3>3. CASE l = n
      <4>1. CASE i = Len(n)
        <5>1. term[r] = term[p]
          BY <1>2, <1>3, <3>1, <3>3, <4>1
        <5>2. r = p
          BY <1>2, <3>1, <5>1 DEF RaftInv, LogsInv
        <5> QED BY <1>3, <3>3, <4>1, <5>2 DEF Begins
      <4>2. CASE i # Len(n)
        <5>1. i \in DOMAIN log[p] /\ log[p][i] = n[i]
          BY <1>3, <3>3, <4>2 DEF Begins
        <5>2. Begins(log[p], i, log'[r])
          BY <1>1, <3>1, <3>2, <3>3, <5>1
        <5>3. \A x \in 1..i : x \in 1..Len(log[p])
          BY <1>3, <5>1
        <5> QED BY <1>3, <3>3, <5>2, <5>3 DEF Begins
      <4> QED BY <4>1, <4>2
    <3> QED BY <1>3, <3>1, <3>2, <3>3
  <2>5. committed' \in SUBSET (Seq(Entry) \ {<<>>})
    BY <1>2 DEF RaftInv, LogsInv
  <2> QED BY <1>1, <2>1, <2>2, <2>3, <2>4, <2>5, GrownOrder DEF LogsInv
<1>6. ChangesInv'
  BY <1>1, GrownChanges
<1>7. VotesInv'
  <2>1. ~(LastTerm(log[p]) < e.term)
    BY <1>1, <1>2
  <2>2. \A q \in Pods : (Gone(q) => Gone(q)') /\ term'[q] \in Nat /\ term'[q] >= term[q]
    BY <1>1
  <2> QED BY <1>1, <2>1, <2>2, GrownVotes
<1>8. SafeInv'
  <2>1. ASSUME NEW m \in Present, NEW i \in DOMAIN m, NEW q \in Pods, Accepts(q, m, i)' PROVE Accepts(q, m, i)
    <3>1. CASE q # p
      BY <1>1, <1>3, <2>1, <3>1 DEF Accepts
    <3>2. CASE q = p
      <4>1. ~Gone(p) /\ (term[p] <= m[i].term \/ LastTerm(n) = m[i].term)
        BY <1>1, <1>3, <2>1, <3>2 DEF Accepts
      <4>2. term[p] <= m[i].term
        BY <1>1, <1>3, <4>1
      <4> QED BY <3>2, <4>1, <4>2 DEF Accepts
    <3> QED BY <3>1, <3>2
  <2>2. ASSUME NEW m \in Present, NEW i \in DOMAIN m, Choosable(m, i)'
        PROVE  Choosable(m, i) /\ (e.term > m[i].term => Begins(m, i, log[p]))
    <3>1. Choosable(m, i)
      BY <2>1, <2>2, ChoosableBefore
    <3> QED BY <1>1, <1>2, <3>1 DEF RaftInv, SafeInv
  <2>3. \A l \in Present : LastTerm(l) > e.term => ~Choosable(n, Len(n))'
    BY <1>2, AppendLast
  <2>4. \A c \in committed : e.term > LastTerm(c) => Begins(c, Len(c), log[p])
    BY <1>1, <1>2 DEF RaftInv, SafeInv
  <2> QED BY <1>1, <2>2, <2>3, <2>4, GrownSafe
<1>9. CommitsInv'
  <2>1. \A r \in lead', c \in committed' : LastTerm(c) = term'[r] => Len(c) <= commit'[r]
    BY <1>2 DEF RaftInv, CommitsInv
  <2>2. \A r \in Pods : CommitKnown(r)'
    BY <1>1, <1>2, GrownKnown
  <2>3. ~(st'[First] \in {"fresh", "booting"})
    <3>1. log[p] # <<>>
      BY <1>1 DEF Grown
    <3> QED BY <1>1, <1>2, <3>1 DEF RaftInv, CommitsInv
  <2> QED BY <2>1, <2>2, <2>3 DEF CommitsInv
<1> QED BY <1>5, <1>6, <1>7, <1>8, <1>9 DEF RaftInv

\* A client's command.
LEMMA ProposeRaft ==
  ASSUME RaftInv, Types', NEW p \in Pods, NEW c \in Cmds, Propose(p, c) PROVE RaftInv'
<1> DEFINE a == [term |-> term[p], conf |-> Conf(p), cmd |-> c]
<1>1. PICK e \in Entry : e.term = term[p] /\ e.conf = Conf(p) /\ log' = [log EXCEPT ![p] = Append(log[p], e)]
  <2>1. p \in lead
    BY DEF Propose
  <2>2. a \in Entry
    BY <2>1, ConfType, LeaderEntry DEF RaftInv
  <2> QED BY <2>2 DEF Propose
<1>2. PICK n : n = Append(log[p], e)
  OBVIOUS
<1>3. Appends(p, e, n)
  BY <1>1, <1>2 DEF Appends, Propose
<1>4. /\ Grown(p, e, n) /\ log[p] \in Present /\ log[p] \in Seq(Entry) /\ LastTerm(log[p]) = term[p] /\ term[p] \in Nat
      /\ Conf(p) \in SUBSET Members
      /\ \A q \in Pods : (Gone(q)' <=> Gone(q)) /\ term'[q] = term[q] /\ term[q] \in Nat
  BY <1>3, AppendFacts
<1>5. /\ n \in Seq(Entry) /\ Len(log[p]) \in 1..Len(log[p]) /\ Len(n) = Len(log[p]) + 1
      /\ Begins(log[p], Len(log[p]), n) /\ n[Len(n)] = e /\ log'[p] = n /\ \A q \in Pods \ {p} : log'[q] = log[q]
      /\ Conf(p) = log[p][Len(log[p])].conf /\ log[p][Len(log[p])].term = term[p] /\ DOMAIN log[p] = 1..Len(log[p])
  BY <1>4, GrownFacts, LogFacts
<1>6. OneOff(Conf(p), e.conf)
  BY <1>1, OneOffSame
<1>7. ChangesAfter(n, Len(n), {j \in 1..Len(n) : Found(n, j)})
  <2>1. Len(n) - 1 = Len(log[p]) /\ n[Len(log[p])] = log[p][Len(log[p])]
    BY <1>5 DEF Begins
  <2> QED BY <1>1, <1>5, <2>1 DEF ChangesAfter
<1>8. ASSUME NEW l \in Present, LastTerm(l) > term[p], Choosable(n, Len(n))' PROVE Anchored(p, l)
  <2>1. PICK Q \in Majorities(Conf(p)) : \A q \in Q : Accepts(q, n, Len(n))'
    BY <1>1, <1>5, <1>8 DEF Choosable
  <2>2. ASSUME NEW q \in Q PROVE Accepts(q, log[p], Len(log[p]))
    <3>1. q \in Pods
      BY <1>4, MajorityPods
    <3>2. ~Gone(q) /\ (term[q] <= term[p] \/ (q # p /\ LastTerm(log[q]) = term[p] /\ Begins(n, Len(n), log[q])))
      <4>1. CASE q = p
        BY <1>4, <2>1, <3>1, <4>1 DEF Accepts
      <4>2. CASE q # p
        BY <1>1, <1>4, <1>5, <2>1, <3>1, <4>2 DEF Accepts
      <4> QED BY <4>1, <4>2
    <3>3. Begins(n, Len(n), log[q]) => Begins(log[p], Len(log[p]), log[q])
      <4>1. log[q] \in Seq(Entry) /\ Len(log[q]) \in Nat
        BY <3>1, PresentFacts, LogFacts DEF RaftInv
      <4>2. \A x \in 1..Len(log[p]) : x \in 1..Len(n) /\ n[x] = log[p][x]
        BY <1>5 DEF Begins
      <4> QED BY <1>5, <4>1, <4>2 DEF Begins
    <3> QED BY <1>5, <3>2, <3>3 DEF Accepts
  <2>3. Choosable(log[p], Len(log[p]))
    BY <1>5, <2>2 DEF Choosable
  <2>4. Begins(log[p], Len(log[p]), l)
    BY <1>4, <1>5, <1>8, <2>3 DEF RaftInv, SafeInv
  <2> QED BY <1>5, <2>4 DEF Anchored
<1> QED BY <1>3, <1>6, <1>7, <1>8, AppendRaft

\* A configuration without a member, or with another, has the same voters but for one.
LEMMA OneVoter ==
  ASSUME ReplicasDiffer, NEW C \in SUBSET Members, NEW m \in Members, NEW D,
         {x \in C : x.id # m.id} \subseteq D, D \subseteq {x \in C : x.id # m.id} \cup {m}
  PROVE  OneOff(C, D)
<1>1. ASSUME NEW x \in C, x.voter, x.id = m.id PROVE x.addr = m.addr
  <2>1. x.addr \in Pods /\ x = Member(x.addr) /\ m.addr \in Pods /\ m = Member(m.addr)
    BY MemberProperties
  <2>2. x.addr \notin Loggers /\ x.id = Name(x.addr) /\ m.id = Name(m.addr)
    <3>1. Member(x.addr).voter => x.addr \notin Loggers
      BY DEF Member
    <3> QED BY <1>1, <2>1, <3>1, MemberProperties
  <2> QED BY <1>1, <2>1, <2>2 DEF ReplicasDiffer
<1>2. ASSUME NEW a, a # m.addr PROVE a \in VotersIn(C) <=> a \in VotersIn(D)
  <2>1. ASSUME NEW x \in C, x.voter, x.addr = a PROVE x \in D
    <3>1. x.id # m.id
      BY <1>1, <1>2, <2>1
    <3> QED BY <3>1
  <2>2. ASSUME NEW x \in D, x.addr = a PROVE x \in C
    BY <1>2, <2>2
  <2> QED BY <2>1, <2>2 DEF VotersIn
<1>3. VotersIn(C) \ {m.addr} = VotersIn(D) \ {m.addr}
  BY <1>2
<1> QED BY <1>3 DEF OneOff

\* A change of the configuration, after a commit in the leader's term.
LEMMA ConfRaft ==
  ASSUME RaftInv, Types', NEW conf \in SUBSET Members, AppendConf(conf), OneOff(Conf(First), conf)
  PROVE  RaftInv'
<1> DEFINE a == [term |-> term[First], conf |-> conf, cmd |-> None]
           k == commit[First]
<1>1. PICK e \in Entry : e.term = term[First] /\ e.conf = conf /\ log' = [log EXCEPT ![First] = Append(log[First], e)]
  <2>1. First \in lead
    BY DEF AppendConf
  <2>2. a \in Entry
    BY <2>1, LeaderEntry DEF RaftInv
  <2> QED BY <2>2 DEF AppendConf
<1>2. PICK n : n = Append(log[First], e)
  OBVIOUS
<1>3. First \in Pods /\ Appends(First, e, n)
  BY <1>1, <1>2, MembershipAssumption DEF MembershipAssumption, Appends, AppendConf
<1>4. /\ Grown(First, e, n) /\ log[First] \in Present /\ log[First] \in Seq(Entry) /\ Rising(log[First])
      /\ LastTerm(log[First]) = term[First] /\ term[First] \in Nat
  BY <1>3, AppendFacts
<1>5. /\ Len(log[First]) \in 1..Len(log[First]) /\ Len(log[First]) \in Nat /\ Len(n) = Len(log[First]) + 1
      /\ \A x \in 1..Len(log[First]) : n[x] = log[First][x]
      /\ n[Len(n)] = e /\ Conf(First) = log[First][Len(log[First])].conf
  BY <1>3, <1>4, GrownFacts, LogFacts DEF Begins
<1>6. /\ k \in 1..Len(log[First]) /\ log[First][k].term = term[First] /\ log[First][k].conf = Conf(First)
      /\ Found(log[First], k)
  <2>1. k > 0 /\ log[First][k].term = term[First] /\ log[First][k].conf = Conf(First)
    BY <1>5, LogFacts DEF AppendConf, MayChange
  <2>2. k \in Nat /\ k <= Len(log[First]) /\ Found(log[First], k)
    BY <1>3, <2>1 DEF RaftInv, CommitsInv, CommitKnown, Types
  <2> QED BY <1>5, <2>1, <2>2
<1>7. PICK c \in committed : Len(c) = k /\ Begins(c, k, log[First])
  BY <1>6 DEF Found
<1>8. /\ c \in Seq(Entry) /\ k \in 1..Len(c) /\ LastTerm(c) = c[k].term /\ c[k] = log[First][k]
  <2>1. c \in Seq(Entry) /\ k \in 1..Len(c) /\ LastTerm(c) = c[k].term
    BY <1>7, PresentFacts DEF RaftInv
  <2> QED BY <1>4, <1>7, <2>1, BeginsFacts
<1>9. \A x \in k..Len(log[First]) : log[First][x].conf = Conf(First)
  <2> SUFFICES ASSUME \E x \in k..Len(log[First]) : log[First][x].conf # Conf(First) PROVE FALSE
    OBVIOUS
  <2> DEFINE W == {d \in Nat : Len(log[First]) - d \in k..Len(log[First]) /\ log[First][Len(log[First]) - d].conf # Conf(First)}
  <2>1. W \in SUBSET Nat /\ W # {}
    <3>1. PICK x \in k..Len(log[First]) : log[First][x].conf # Conf(First)
      OBVIOUS
    <3>2. Len(log[First]) - x \in Nat /\ Len(log[First]) - (Len(log[First]) - x) = x
      BY <1>5, <1>6
    <3> QED BY <3>1, <3>2
  <2>2. PICK d \in W : \A y \in W : d <= y
    <3> HIDE DEF W
    <3> QED BY <2>1, Smallest
  <2>3. PICK x \in k..Len(log[First]) : x = Len(log[First]) - d
    OBVIOUS
  <2>4. x \in Nat /\ log[First][x].conf # Conf(First) /\ x < Len(log[First])
    BY <1>5, <1>6, <2>3
  <2>5. log[First][x + 1].conf = Conf(First)
    <3>1. d - 1 \in Nat /\ Len(log[First]) - (d - 1) = x + 1 /\ x + 1 \in k..Len(log[First]) /\ ~(d <= d - 1)
      BY <1>5, <1>6, <2>3, <2>4
    <3>2. d - 1 \notin W
      BY <2>2, <3>1
    <3> QED BY <3>1, <3>2
  <2> HIDE DEF W, k
  <2>6. x + 1 \in 2..Len(log[First]) /\ x + 1 - 1 = x /\ x + 1 \in 1..Len(log[First])
    BY <1>5, <1>6, <2>3, <2>4
  <2>7. PICK j \in 1..Len(log[First]) :
           /\ Found(log[First], j) /\ j < x + 1 /\ log[First][j].term = log[First][x + 1].term
           /\ \A y \in j..x : log[First][y].conf = log[First][x].conf
    <3>1. ChangesAfter(log[First], x + 1, {j \in 1..Len(log[First]) : Found(log[First], j)})
      BY <1>4, <2>6 DEF RaftInv, ChangesInv
    <3> QED BY <2>4, <2>5, <2>6, <3>1 DEF ChangesAfter
  <2>8. log[First][j].term = term[First]
    <3>1. log[First][k].term <= log[First][x + 1].term
      <4>1. k \in DOMAIN log[First] /\ x + 1 \in DOMAIN log[First] /\ k <= x + 1
        BY <1>4, <1>5, <1>6, <2>3, <2>6, LogFacts
      <4> QED BY <1>4, <4>1 DEF Rising
    <3>2. log[First][x + 1].term <= LastTerm(log[First]) /\ log[First][x + 1].term \in Nat
      BY <1>4, <2>6, LastTermMax, LogFacts
    <3> QED BY <1>4, <1>6, <2>7, <3>1, <3>2
  <2>9. j <= k
    <3>1. PICK b \in committed : Len(b) = j /\ Begins(b, j, log[First])
      BY <2>7 DEF Found
    <3>2. b \in Seq(Entry) /\ j \in 1..Len(b) /\ LastTerm(b) = b[j].term
      BY <3>1, PresentFacts DEF RaftInv
    <3>3. LastTerm(b) = term[First]
      BY <1>4, <2>8, <3>1, <3>2, BeginsFacts
    <3> QED BY <1>3, <3>1, <3>3 DEF RaftInv, CommitsInv, Appends, k
  <2>10. k \in j..x
    BY <1>5, <1>6, <2>3, <2>7, <2>9
  <2> QED BY <1>6, <2>4, <2>7, <2>10
<1>10. ChangesAfter(n, Len(n), {j \in 1..Len(n) : Found(n, j)})
  <2>1. Begins(c, k, n)
    BY <1>5, <1>6, <1>7 DEF Begins
  <2>2. Found(n, k) /\ k \in 1..Len(n) /\ k < Len(n)
    BY <1>5, <1>6, <1>7, <2>1 DEF Found
  <2>3. Len(n) - 1 = Len(log[First])
    BY <1>5
  <2>4. \A x \in k..Len(log[First]) : n[x].conf = Conf(First)
    BY <1>5, <1>6, <1>9
  <2>5. n[k].term = n[Len(n)].term /\ n[Len(log[First])].conf = Conf(First) /\ n[Len(n)].conf = conf
    BY <1>1, <1>5, <1>6
  <2> HIDE DEF k
  <2> QED BY <2>2, <2>3, <2>4, <2>5 DEF ChangesAfter
<1>11. ASSUME NEW l \in Present, LastTerm(l) > term[First] PROVE Anchored(First, l)
  <2>1. Begins(c, k, l)
    BY <1>6, <1>7, <1>8, <1>11 DEF RaftInv, SafeInv
  <2>2. Begins(log[First], k, l)
    BY <1>6, <1>7, <2>1 DEF Begins
  <2> QED BY <1>6, <1>9, <2>2 DEF Anchored
<1> QED BY <1>1, <1>3, <1>10, <1>11, AppendRaft

\* JoinRaft changes one voter at a time.
LEMMA ChangeRaft ==
  ASSUME ReplicasDiffer, RaftInv, Types', (\E m \in Members : RemoveServer(m)) \/ AddServer
  PROVE  RaftInv'
<1>1. ASSUME NEW m \in Members, RemoveServer(m) PROVE RaftInv'
  <2> DEFINE D == {x \in Conf(First) : x.id # m.id}
  <2>1. D \in SUBSET Members /\ AppendConf(D) /\ Conf(First) \in SUBSET Members
    BY <1>1, RemoveConf, ConfType, MembershipAssumption DEF MembershipAssumption, RaftInv
  <2>2. OneOff(Conf(First), D)
    BY <2>1, OneVoter
  <2> HIDE DEF D
  <2> QED BY <2>1, <2>2, ConfRaft
<1>2. CASE AddServer
  <2> DEFINE D == WithMember(Conf(First), Member(handling.pod))
  <2>1. D \in SUBSET Members /\ AppendConf(D) /\ Conf(First) \in SUBSET Members /\ handling.pod \in Pods
    BY <1>2, AddConf, ConfType, MembershipAssumption DEF MembershipAssumption, RaftInv
  <2>2. PICK m \in Members : m = Member(handling.pod)
    BY <2>1, MemberProperties
  <2>3. D = {x \in Conf(First) : x.id # m.id} \cup {m}
    BY <2>2 DEF WithMember
  <2>4. OneOff(Conf(First), D)
    BY <2>1, <2>3, OneVoter
  <2> HIDE DEF D
  <2> QED BY <2>1, <2>4, ConfRaft
<1> QED BY <1>1, <1>2

LEMMA RaftInit == Init => RaftInv
<1> SUFFICES ASSUME Init PROVE RaftInv
  OBVIOUS
<1>1. Types
  BY InitTypes
<1>2. Present \subseteq {<<>>} /\ committed = {} /\ lead = {} /\ \A p \in Pods : log[p] = <<>> /\ term[p] = 0 /\ commit[p] = 0
  BY DEF Init, Present
<1>3. \A l \in Present : l = <<>> /\ DOMAIN l = {} /\ Len(l) = 0 /\ LastTerm(l) = 0
  BY <1>2 DEF LastTerm
<1>4. LogsInv
  <2>1. \A p \in Pods : LastTerm(log[p]) <= term[p]
    BY <1>2 DEF LastTerm
  <2> QED BY <1>2, <1>3, <2>1 DEF LogsInv, Rising, Agreed
<1>5. ChangesInv
  BY <1>3 DEF ChangesInv
<1>6. VotesInv /\ SafeInv
  BY <1>2, <1>3 DEF VotesInv, SafeInv
<1>7. CommitsInv
  BY <1>2 DEF CommitsInv, CommitKnown
<1> QED BY <1>1, <1>4, <1>5, <1>6, <1>7 DEF RaftInv

\* What the counters of the environment hold.
Counters == crashes \in 0..MaxCrashes /\ restarts \in Seq(Restarting) /\ Len(restarts) <= MaxRestarts

\* Only a process that starts has been started again.
LEMMA RestartsStay ==
  ASSUME [Next]_vars, \A p \in Pods : ~Boot(p) PROVE restarts' = restarts
<1>1. ASSUME NEW p \in Pods, StartRaft(p) \/ SendJoin(p) \/ Crash(p) \/ StepDown(p) \/ AdvanceCommit(p) \/ HandleJoin(p)
      PROVE  restarts' = restarts
  BY <1>1 DEF StartRaft, SendJoin, Crash, StepDown, AdvanceCommit, HandleJoin
<1>2. CASE Elect
  BY <1>2 DEF Elect, BecomeLeader
<1>3. ASSUME NEW p \in Pods, NEW c \in Cmds, Propose(p, c) PROVE restarts' = restarts
  BY <1>3 DEF Propose
<1>4. ASSUME NEW p \in Pods, NEW q \in Pods, CatchUp(p, q) PROVE restarts' = restarts
  BY <1>4 DEF CatchUp
<1>5. CASE HandleJoinTooEarly \/ JoinFails \/ ChangeDone
  BY <1>5 DEF HandleJoinTooEarly, JoinFails, ChangeDone
<1>6. CASE (\E m \in Members : RemoveServer(m)) \/ AddServer
  BY <1>6 DEF RemoveServer, AddServer, AppendConf
<1>7. CASE UNCHANGED vars
  BY <1>7 DEF vars
<1> QED BY <1>1, <1>2, <1>3, <1>4, <1>5, <1>6, <1>7 DEF Next, JoinSteps

LEMMA BootRestarts ==
  ASSUME Counters, NEW p \in Pods, Boot(p)
  PROVE  /\ Counters' /\ (ReplicasStayAway' => ReplicasStayAway)
         /\ ReplicasStayAway' /\ st[p] = "down" => p \in Loggers
<1>1. /\ restarts \in Seq(Restarting) /\ Len(restarts) <= MaxRestarts /\ MaxRestarts \in Nat
      /\ crashes' = crashes /\ crashes \in 0..MaxCrashes
  BY MembershipAssumption DEF MembershipAssumption, Counters, Boot
<1>2. CASE st[p] = "down"
  <2>1. p \in Restarting /\ Len(restarts) < MaxRestarts /\ restarts' = Append(restarts, p)
    BY <1>2 DEF Boot
  <2>2. /\ restarts' \in Seq(Restarting) /\ Len(restarts') = Len(restarts) + 1
        /\ restarts'[Len(restarts) + 1] = p /\ \A i \in 1..Len(restarts) : restarts'[i] = restarts[i]
    BY <1>1, <2>1, AppendProperties
  <2>3. DOMAIN restarts' = 1..Len(restarts) + 1 /\ DOMAIN restarts = 1..Len(restarts) /\ Len(restarts) \in Nat
    BY <1>1, <2>2
  <2>4. Counters'
    BY <1>1, <2>1, <2>2, <2>3 DEF Counters
  <2>5. ReplicasStayAway' => ReplicasStayAway /\ p \in Loggers
    BY <2>2, <2>3 DEF ReplicasStayAway
  <2> QED BY <2>4, <2>5
<1>3. CASE st[p] # "down"
  <2>1. restarts' = restarts
    BY <1>3 DEF Boot
  <2> QED BY <1>1, <1>3, <2>1 DEF Counters, ReplicasStayAway
<1> QED BY <1>2, <1>3

LEMMA CountersStep ==
  ASSUME Counters, [Next]_vars PROVE Counters' /\ (ReplicasStayAway' => ReplicasStayAway)
<1>1. CASE \E p \in Pods : Boot(p)
  BY <1>1, BootRestarts
<1>2. CASE \A p \in Pods : ~Boot(p)
  <2>1. restarts' = restarts
    BY <1>2, RestartsStay
  <2>2. crashes' \in 0..MaxCrashes
    <3>1. ASSUME NEW p \in Pods, Crash(p) PROVE crashes' \in 0..MaxCrashes
      BY <3>1, MembershipAssumption DEF MembershipAssumption, Crash, Counters
    <3>2. ASSUME crashes' = crashes PROVE crashes' \in 0..MaxCrashes
      BY <3>2 DEF Counters
    <3>3. ASSUME NEW p \in Pods, StartRaft(p) \/ SendJoin(p) \/ StepDown(p) \/ AdvanceCommit(p) \/ HandleJoin(p)
          PROVE  crashes' = crashes
      BY <3>3 DEF StartRaft, SendJoin, StepDown, AdvanceCommit, HandleJoin
    <3>4. ASSUME Elect PROVE crashes' = crashes
      BY <3>4 DEF Elect, BecomeLeader
    <3>5. ASSUME NEW p \in Pods, NEW c \in Cmds, Propose(p, c) PROVE crashes' = crashes
      BY <3>5 DEF Propose
    <3>6. ASSUME NEW p \in Pods, NEW q \in Pods, CatchUp(p, q) PROVE crashes' = crashes
      BY <3>6 DEF CatchUp
    <3>7. ASSUME HandleJoinTooEarly \/ JoinFails \/ ChangeDone PROVE crashes' = crashes
      BY <3>7 DEF HandleJoinTooEarly, JoinFails, ChangeDone
    <3>8. ASSUME (\E m \in Members : RemoveServer(m)) \/ AddServer PROVE crashes' = crashes
      BY <3>8 DEF RemoveServer, AddServer, AppendConf
    <3>9. ASSUME UNCHANGED vars PROVE crashes' = crashes
      BY <3>9 DEF vars
    <3> QED BY <1>2, <3>1, <3>2, <3>3, <3>4, <3>5, <3>6, <3>7, <3>8, <3>9 DEF Next, JoinSteps
  <2> QED BY <2>1, <2>2 DEF Counters, ReplicasStayAway
<1> QED BY <1>1, <1>2

LEMMA InitCounters == Init => Counters
  BY MembershipAssumption DEF MembershipAssumption, Init, Counters

\* A process starts, and if it comes back it is a logger's, which has no vote.
LEMMA BootRaft ==
  ASSUME Counters, ReplicasStayAway', RaftInv, Types', NEW p \in Pods, Boot(p) PROVE RaftInv'
<1>1. st' = [st EXCEPT ![p] = "booting"] /\ UNCHANGED <<log, term, commit, lead, committed>> /\ st[p] \in {"fresh", "down"}
  BY DEF Boot, raftVars
<1>2. st[p] = "down" => p \in Loggers
  BY BootRestarts
<1>3. \A q \in Pods : Gone(q)' => Gone(q)
  BY <1>1 DEF Gone, RaftInv, Types
<1>4. \A q \in Pods \ Loggers : Gone(q)' <=> Gone(q)
  BY <1>1, <1>2 DEF Gone, RaftInv, Types
<1>5. st'[First] \in {"fresh", "booting"} => st[First] \in {"fresh", "booting"}
  BY <1>1, <1>2, MembershipAssumption DEF MembershipAssumption, RaftInv, Types
<1> QED BY <1>1, <1>3, <1>4, <1>5, QuietRaft

LEMMA RaftStep ==
  ASSUME ReplicasDiffer, Counters, ReplicasStayAway', RaftInv, [Next]_vars PROVE RaftInv'
<1>1. Types /\ Types'
  BY TypesStep DEF RaftInv
<1>2. ASSUME NEW p \in Pods, SendJoin(p) \/ StepDown(p) \/ (StartRaft(p) /\ p # First) PROVE RaftInv'
  <2>1. UNCHANGED <<log, term, commit, committed>> /\ lead' \subseteq lead
    BY <1>2 DEF SendJoin, StepDown, StartRaft, raftVars
  <2>2. \A q \in Pods : Gone(q)' <=> Gone(q)
    BY <1>1, <1>2 DEF SendJoin, StepDown, StartRaft, Gone, Types
  <2>3. st'[First] \in {"fresh", "booting"} => st[First] \in {"fresh", "booting"}
    BY <1>1, <1>2, MembershipAssumption DEF MembershipAssumption, SendJoin, StepDown, StartRaft, Types
  <2> QED BY <1>1, <2>1, <2>2, <2>3, QuietRaft
<1>3. ASSUME UNCHANGED <<st, log, term, commit, lead, committed>> PROVE RaftInv'
  BY <1>1, <1>3, QuietRaft DEF Gone
<1>4. ASSUME NEW p \in Pods, HandleJoin(p) PROVE RaftInv'
  BY <1>3, <1>4 DEF HandleJoin, raftVars
<1>5. CASE ChangeDone
  BY <1>3, <1>5 DEF ChangeDone, raftVars
<1>6. CASE UNCHANGED vars
  BY <1>3, <1>6 DEF vars, raftVars
<1>7. ASSUME NEW p \in Pods, Crash(p) PROVE RaftInv'
  BY <1>1, <1>7, DieRaft DEF Crash
<1>8. CASE HandleJoinTooEarly \/ JoinFails
  BY <1>1, <1>8, DieRaft, MembershipAssumption DEF MembershipAssumption, HandleJoinTooEarly, JoinFails
<1>9. ASSUME NEW p \in Pods, StartRaft(p) PROVE RaftInv'
  BY <1>1, <1>2, <1>9, BootstrapRaft
<1>10. CASE Elect
  BY <1>1, <1>10, Elected, ElectRaft
<1>11. ASSUME NEW p \in Pods, AdvanceCommit(p) PROVE RaftInv'
  BY <1>1, <1>11, CommitRaft
<1>12. ASSUME NEW p \in Pods, NEW c \in Cmds, Propose(p, c) PROVE RaftInv'
  BY <1>1, <1>12, ProposeRaft
<1>13. ASSUME NEW p \in Pods, NEW q \in Pods, CatchUp(p, q) PROVE RaftInv'
  BY <1>1, <1>13, CatchUpRaft
<1>14. CASE (\E m \in Members : RemoveServer(m)) \/ AddServer
  BY <1>1, <1>14, ChangeRaft
<1>15. ASSUME NEW p \in Pods, Boot(p) PROVE RaftInv'
  BY <1>1, <1>15, BootRaft
<1> QED BY <1>2, <1>4, <1>5, <1>6, <1>7, <1>8, <1>9, <1>10, <1>11, <1>12, <1>13, <1>14, <1>15 DEF Next, JoinSteps

(***************************************************************************)
(* Let no two replicas have one name.  Until a replica's process is first  *)
(* started again, whoever leads has all that was found committed in its    *)
(* term or before, through the faults that Crash deals, the ends of First, *)
(* elections, partial replication, loggers that come and go, and the       *)
(* changes of the membership that JoinRaft makes.  Kubernetes starts       *)
(* replicas again: what that breaks is FaultsAreTolerated.                 *)
(***************************************************************************)
THEOREM CommittedLogsSurvive ==
  ASSUME ReplicasDiffer PROVE Spec => []CommittedSurvive
<1> DEFINE IInv == Types /\ Counters /\ (ReplicasStayAway => RaftInv)
<1>1. ASSUME RaftInv PROVE FaultsAreTolerated
  <2> SUFFICES ASSUME NEW c \in committed, NEW p \in lead, term[p] >= LastTerm(c) PROVE IsPrefix(c, log[p])
    BY DEF FaultsAreTolerated
  <2>1. /\ p \in Pods /\ c \in Seq(Entry) /\ Len(c) \in 0..Len(c) /\ Len(c) \in Nat /\ LastTerm(c) \in Nat
        /\ log[p] \in Seq(Entry) /\ term[p] \in Nat
    <3>1. p \in Pods /\ term[p] \in Nat
      BY <1>1, MembershipAssumption DEF MembershipAssumption, RaftInv, Types
    <3>2. c \in Seq(Entry) /\ LastTerm(c) \in Nat /\ log[p] \in Seq(Entry)
      BY <1>1, <3>1, PresentFacts, LastTermMax DEF RaftInv
    <3> QED BY <3>1, <3>2
  <2>2. Len(c) <= Len(log[p]) /\ \A i \in 1..Len(c) : log[p][i] = c[i]
    BY <1>1, <2>1, LeaderHas DEF Begins
  <2>3. SubSeq(log[p], 1, Len(c)) = SubSeq(c, 1, Len(c))
    BY <2>1, <2>2, BeginningStays
  <2> QED BY <2>2, <2>3 DEF IsPrefix
<1>2. Init => IInv
  BY InitTypes, InitCounters, RaftInit
<1>3. IInv /\ [Next]_vars => IInv'
  BY TypesStep, CountersStep, RaftStep
<1>4. IInv => CommittedSurvive
  BY <1>1 DEF CommittedSurvive
<1> HIDE DEF IInv
<1> QED BY <1>2, <1>3, <1>4, PTL DEF Spec

(***************************************************************************)
(* Every variable is of its type, in every environment: whatever pods      *)
(* crash, come back with empty stores, share names or lead groups of their *)
(* own.  The queue of join requests never has one of First.                *)
(***************************************************************************)
THEOREM MembershipTypeCorrect == Spec => []TypeOK
<1> DEFINE IInv == Types /\ Counters /\ committed \in SUBSET Seq(Entry)
<1>1. Init => IInv
  BY InitTypes, InitCounters DEF Init
<1>2. IInv /\ [Next]_vars => IInv'
  <2> SUFFICES ASSUME IInv, [Next]_vars PROVE committed' \in SUBSET Seq(Entry)
    BY TypesStep, CountersStep
  <2>1. ASSUME committed' = committed PROVE committed' \in SUBSET Seq(Entry)
    BY <2>1
  <2>2. ASSUME NEW p \in Pods, AdvanceCommit(p) PROVE committed' \in SUBSET Seq(Entry)
    BY <2>2 DEF AdvanceCommit, Types
  <2>3. ASSUME NEW p \in Pods,
               Boot(p) \/ StartRaft(p) \/ SendJoin(p) \/ Crash(p) \/ StepDown(p) \/ HandleJoin(p)
        PROVE  committed' = committed
    BY <2>3 DEF Boot, StartRaft, SendJoin, Crash, StepDown, HandleJoin
  <2>4. ASSUME Elect PROVE committed' = committed
    BY <2>4 DEF Elect, BecomeLeader
  <2>5. ASSUME NEW p \in Pods, NEW c \in Cmds, Propose(p, c) PROVE committed' = committed
    BY <2>5 DEF Propose
  <2>6. ASSUME NEW p \in Pods, NEW q \in Pods, CatchUp(p, q) PROVE committed' = committed
    BY <2>6 DEF CatchUp
  <2>7. ASSUME HandleJoinTooEarly \/ JoinFails \/ ChangeDone PROVE committed' = committed
    BY <2>7 DEF HandleJoinTooEarly, JoinFails, ChangeDone
  <2>8. ASSUME (\E m \in Members : RemoveServer(m)) \/ AddServer PROVE committed' = committed
    BY <2>8 DEF RemoveServer, AddServer, AppendConf
  <2>9. ASSUME UNCHANGED vars PROVE committed' = committed
    BY <2>9 DEF vars
  <2> HIDE DEF IInv
  <2> QED BY <2>1, <2>2, <2>3, <2>4, <2>5, <2>6, <2>7, <2>8, <2>9 DEF Next, JoinSteps
<1>3. IInv => TypeOK
  BY DEF TypeOK, Types, Counters
<1> HIDE DEF IInv
<1> QED BY <1>1, <1>2, <1>3, PTL DEF Spec
=============================================================================
