# raft-demo in TLA+

Specifications of the applications in this repository: a replicated key-value
store, the loggers and the recovery client around it, how its processes start
and join, the disk storage, the chat room and the key-value store behind HTTP.
The modules are translated from the Go
code; `PROJECT.json` names, for every definition, the lines it stands for.

## The system

A cluster runs one application as a Raft state machine (hashicorp/raft).
Clients connect over TCP to *every* replica and send *every* request to all of
them; the replica that leads proposes it. A kvstore leader answers in a UDP
datagram; every chat server sends every committed line to all of its clients.
The web store is the exception: a client asks one node over HTTP and waits.

| part | state | operations | interacts with |
|---|---|---|---|
| `client/` | count of requests, TCP connections, UDP socket | `Broadcast`, `BroadcastProtobuf`, `ReadUDP` | all replicas |
| `kvstore/` sessions | bufio reader, unbuffered channel `incoming` | `Read`, `Write`, `Disconnect` | client, server loop |
| `kvstore/` server | `clients`, `joins`, `incoming`, `req` | `Listen`, `HandleRequest`, `Join`, `SendUDP`, `monitor`, `Exit` | sessions, store |
| `kvstore/` store | map `m`, Raft instance, log file | `Propose`, `StartRaft`, `JoinRaft`, `ListenRaftJoins`, `ListenStateTransfer` | Raft, other nodes |
| `kvstore/` fsm | the same map, log file | `Apply`, `Snapshot`, `Restore` | Raft calls it |
| `logger/` | log file | `Apply`, `ListenStateTransfer`, join request | Raft as non-voter, recovery client |
| `recovery/` | a mock map | `AskForStateTransfer`, `InstallReceivedState` | one replica or logger |
| `diskstorage/` | data file at offset `key * valueSize` | as kvstore | as kvstore |
| `chatRoom/server` | client list, channels | `Join`, `Listen`, `Apply`, `Shutdown` | chat clients |
| `chatRoom/client` | window of remembered messages | `Read`, `PushPop`, `Consume` | all chat servers |
| `webkvstore/` | map, Raft instance | HTTP handlers, `Get`, `Set`, `Delete`, `Join` | HTTP clients |

What is hard about it:

- *Who answers.* Each replica decides alone, when it gets to a request, whether
  it leads. Requests carry no identity and clients no timeout. A change of
  leader can therefore run a request twice, run it and not answer it, or drop it.
- *What a reply is.* A datagram with a text, possibly lost or late.
- *The log as the only order.* Replicas apply at their own pace; reads go
  through the log so that they are ordered with the writes.
- *Poison.* What the servers accept and Raft commits may not be what `Apply`
  understands: it returns an error for bytes that are no command, and panics on
  an operation it does not know, at every replica.
- *Files.* A log record is two writes; a restarted process opens its file at
  offset 0 and replays; others read the file meanwhile.
- *Shared slices and channels.* The chat server's list of clients is appended to
  by one goroutine and read by two others without a lock; channels are closed
  under the feet of their senders; one slow reader holds up the state machine.
- *Copies.* A chat client gets every line from every server and tells copies by
  comparing texts with the last few it showed.
- *Local reads.* The web store answers a GET from the map of whatever node it
  comes to.
- *Membership.* Joining is a remove and an add, processed before Raft is set up;
  errors are fatal to the process; nothing is on stable storage.

Per component, the properties that make it correct: the state machine does what
a map does; replicas agree at each log position; a reply is the result of a
committed request of the receiver; a session's requests keep their order; with
a stable leader the service is linearizable and answers everything; a log file
parses to a prefix of the committed commands and never loses one; a chat client
shows every message, once and in the order of the commits; a web client's
answered request is over, its status is true, and at one node it reads its own
writes.

## Modules

    ReplicaGroup  the replicas
      RaftGroup     hashicorp/raft as the replicas use it (external)
        RaftPipeline  the same with several proposals in flight
          RaftPipelineProofs  its types, the order in which entries may commit, and
                              what has committed or may as one sequence
    OrderLemmas   induction and recursion along the numbers; sequences in order, put
                  together and cut (lemmas only)
    KVReference   data of the service; reference meaning of commands
      KVFsm         kvstore/fsm.go
      SeqClient     client/seqClient.go: request loop, broadcast, replies
      AtomicKV      abstract: one map, calls that take effect at one moment
      CommandLog    log files, state transfer, recovery
        CommandLogProofs  what files hold and what is parsed from them (with OrderLemmas)
    KVService     KVFsm + RaftGroup (+ SeqClient) + server loop and Propose;
                  instantiates AtomicKV under a refinement mapping
      KVServiceProofs   types, agreement of the replicas, replies, the order of
                        proposals; under the first leader, sequential clients and
                        AtomicKV (with OrderLemmas)
      MCKVService       instances for TLC
    MCCommandLog  instances of CommandLog for TLC
    Membership    main(), StartRaft, joins, over a Raft of whole logs
      MembershipProofs  who is taken out of the configuration, and that what is
                        committed survives (with OrderLemmas)
      MCMembership      instances for TLC
    DiskStore     diskstorage/: the state machine on a file, replays, restarts
      DiskStoreProofs   theorems about DiskStore (with OrderLemmas)
      MCDiskStore       instances for TLC
    MessageQueue  chatRoom/client/messageQueue.go: the window
    ChatRoom      RaftPipeline + MessageQueue + chat servers and clients
      ChatRoomProofs    theorems about ChatRoom (with RaftPipelineProofs)
      MCChatRoom        instances for TLC
    WebStore      RaftPipeline + HTTP handlers, Store, snapshots, restarts
      WebStoreProofs    theorems about WebStore (with RaftPipelineProofs)
      MCWebStore        instances for TLC

### State and actions of KVService

| variable | in the code |
|---|---|
| `phase`, `num`, `cmd`, `pos`, `heard` | where the client's loop is, its request, the connection it writes to next, the last reply |
| `tcp[r][c]` | bytes from c to r's loop: socket, bufio reader, the request in `client.incoming`, the one the forwarder of `Join` holds |
| `udp[c]` | datagrams under way and in the client's socket |
| `serving[r]` | the request inside `HandleRequest`, i.e. inside `Propose`, and its future |
| `kv[r]`, `applied[r]` | `Store.m`, and how far Raft has called `Apply` |
| `leader`, `believers` | the leader of the latest term; replicas with `raft.State() == raft.Leader` |
| `log`, `limbo` | committed entries; uncommitted ones of failed leaders |
| `canon` | ghost: the reference map after each committed entry |

`tcp[r][c]` joins three hand-overs into one queue: each is first-in first-out,
holds no more than one request beyond the socket, and nothing else looks at it.

Actions: `ClientCall`, `ClientWrite`, `ClientWriteFails`, `ClientReadUDP` (the
client's loop, one step per write); `SessionSkip` (`Read` drops an empty line);
`HandleRequest` (`Listen` takes a line, `Propose` looks at `raft.State()` and
calls `raft.Apply`, or returns); `Commit`, `Inherit`, `Elect`, `StepDown`
(Raft); `FsmApply`, `FsmPanic` (the state machine goroutine); `Respond`
(`Propose` after the future, with `SendUDP`); `Crash`; `LoseUDP`.

Raft is reduced to what the servers can see of it. A deposed leader stays a
believer until `StepDown`, and what it accepts after the next election is lost.
The entry a leader had in flight when it failed goes to `limbo`; the next leader
may have it (`Inherit`) and then commits it in front of its own entries, or may
not, and then its first own commit empties `limbo`. A leader's future fails in
`StepDown` unless its entry is already committed. `Apply`'s `ErrEnqueueTimeout`
has the effect of that failure without a change of leader and is left out, as
are terms, votes and messages.

A string is the sequence of its dash-separated fields, because `Apply` joins and
`Propose` splits its response on dashes. The text of an ad-hoc request is taken
not to unmarshal as a protobuf. By the accident of its bytes one might, as a
message of unknown fields; it has no reply port then and its client would not
be answered either.

### State and actions of CommandLog

`file[n]` is a sequence of cells, `offset[n]` the descriptor's position,
`writing[n]` says that the length is out and the command is not. `Restart`
models `createFile` on a file that exists and the empty in-memory Raft log: the
node goes through all entries again and writes over its file. `Parsed` is the
loop of `InstallReceivedState`. A read of the file is one step: while a node
writes, its file only grows or is overwritten with the bytes it has
(`NeverForgets`), so that a slower read returns what some single moment would.
Deletes are left out of the instances: a kvstore group does not survive the
first one, and `InstallReceivedState` skips them. The log files of both kvstore
and logger are meant; they differ in names, and in kvstore's deferring both
writes to the end of `Apply`.

### State and actions of Membership

| variable | in the code |
|---|---|
| `st[p]` | where `main()` is: `New` done and its listener up ("booting"), `s.raft` set ("raft"), join request written ("up") |
| `log`, `term`, `commit`, `lead` | Raft's, in memory stores |
| `joins` | connections accepted or waiting at the first pod's port 13000 |
| `handling` | the request in `JoinRaft`: the servers still to be removed, the index of the change whose future it waits for |
| `committed` | ghost: the logs that leaders found committed |
| `restarts` | the pods whose process was started again, in order |

`Boot`, `StartRaft` and `SendJoin` are the steps of `main()`; `HandleJoin`,
`RemoveServer`, `AddServer`, `ChangeDone` and `JoinFails` those of `JoinRaft`,
which reads the configuration once and then makes one change after another,
each a future of its own; `HandleJoinTooEarly` is a request that comes before
`s.raft` is set. `log.Fatalf` ends the process (`Die`) and takes its log with it.

`RaftGroup` cannot serve here, for who counts in a quorum is what these
properties are about. Raft is reduced to an exchange of whole logs: a candidate
whose log is as new as those of a majority of its own configuration leads,
a follower takes over the leader's log at once, and what a majority has is
committed. Every entry carries the configuration in force, as Raft uses the
latest one in its log. A fault strikes only while each leader has a majority
without its victim.

### State and actions of DiskStore

The group is one committed `log`; `file[n]` is the file of a node as cells,
`applied[n]` how far `Apply` went in the present process, `futures` the entries
whose proposer still waits. `Apply` reads or writes the file at `Stride`, the
product of machine integers, and resolves the proposer's future; `ApplyPanic`
is the entry at which it panics. `Restart` opens the file as it was left and
applies the log from its beginning; `GroupRestart` starts all processes, with
an empty log. The deployments fill the file with zeros whenever a container
starts, which is `Init`; the restarts modelled are those of the process on the
same file, as outside of these deployments.

### State and actions of ChatRoom

| variable | in the code |
|---|---|
| `dialled`, `num`, `pos`, `left` | how far `Connect` is, the line typed last, the server `Broadcast` writes to next, clients that have ended |
| `mq[c]`, `shown[c]` | `Mq.Data`; the lines `Consume` has printed, each as the entries it is made of |
| `conn[r][c]` | the session: in `svr.joins`, in `svr.clients`, its channels closed, `Read` at a closed channel |
| `up[r][c]`, `down[r][c]` | lines on their way from c to r's `Listen`; lines r's `Apply` has handed to c's `Write` |
| `clients[r]`, `half` | `svr.clients`, and the servers whose append has stored the length and not yet the element |
| `bcast[r]`, `shut[r]` | the loops of `Apply` and `Shutdown`: next client and the length read at the start |
| `flight[r]`, `known[r]` | (RaftPipeline) proposals not committed, the commit index a leader knows |

`Listen` proposes without waiting for the future, so a leader has any number of
lines in flight (`RaftPipeline`). `Send` is one client of `Apply`'s loop: it
waits until the client's connection takes the line (`Buffer` stands for the
socket buffers) or is broken. `Join` and `JoinStored` are the two halves of an
unsynchronised append: a loop that started in between may meet the nil element,
and then panics. `Disconnect` closes the channels of a session; after that
`Apply` panics at it, `Read` panics when a line comes (`"spilled"`), and the
forwarder of `Join` reads empty strings that `Listen` proposes (`ProposeBlank`).
A committed line is sent as `index-text`; the text of an empty proposal has no
newline, so a reader finds it glued to the next line (`Whole`), and a client that
joined between the two reads the second alone: `shown` keeps both shapes apart.
The newline that the client's `main` adds makes a second, empty line that `Read`
drops; it is left out. A text of a message with the form of an index and a dash
is left out too.

### State and actions of WebStore

| variable | in the code |
|---|---|
| `req[c]` | the goroutine of c's request: which of its calls comes next, or the future it waits for |
| `answers[c]` | c's finished requests with their status; ghosts for the node's run and applied index |
| `m[r]`, `applied[r]` | `Store.m`; how far Raft has called `Apply` |
| `cloned[r]`, `saved[r]` | the clone `Snapshot` made and `Persist` has not yet written; the latest snapshot in `RaftDir` |
| `canon` | ghost: the map after each committed entry |

`Ask` and `HandleGet`, `Write`, `SetNext`, `DeleteAgain`, `WriteAnswered` are the
handler; `Write` is `Set` or `Delete` up to the future, with the state check in
front. `StepDown` fails the open futures. `Restart` is `Open` on an existing
directory (`-inmem=false`): snapshot first, then the entries as the leader makes
their commit known. Handlers start after it, so none runs before the restore.
A map is total with the empty string for absent keys, as `Get` does not tell the
two apart.

## Runs

| run | instance | shows |
|---|---|---|
| `kv_stable` | 2 replicas, 1 request from each of 3 clients: one sets or gets, one gets, one sets in the ad-hoc format; stable leader, fair | `ImplementsAtomicKV`: KVService implements AtomicKV, the commit being the moment of effect; `EveryCallReturns`; `StoreAgreement` |
| `kv_failover` | 3 replicas, 1 client, 2 requests (set, get, delete), 1 election, 1 crash, 1 lost datagram | `StoreAgreement`, `ReplyIsCommitted`, `ProposerOrder`, `SequentialUnderFirst`, `TypeOK` |
| `clog` | 1 node, 3 entries of 4 kinds, 1 crash, 1 restart of the group, fair | `RecoversPrefix`, `NeverForgets`, `InstallsPastState`, `AppliedIsLogged`, `LogCompletes`, types |
| `disk_restarts` | 2 nodes, 2 entries per group, 1 crash, 1 restart of the group | `ReplyFollowsLog`, `FileIsOfAPrefix`, `PanicsTogether`, `OwnSetsSurvive`, `TypeOK` |
| `mem_joins` | 4 replicas with three names between them that join in turn, 1 command, 1 fault, 1 restart, terms to 3 | `CommittedSurvive`, `OnlyNamesakesRemove`, `TypeOK` |
| `chat_room` | 2 servers, 1 client that types a line, 1 that listens and may leave, window of 1, no faults, fair | `RoomHears` |
| `chat_faults` | 2 servers, 1 client with 2 lines, window of 2, 1 election, 1 interrupt or crash, 1 empty proposal | `StreamsHaveNoGaps`, `OutOfOrderOnlyAfterJoin`, `ShownOnce`, `SessionOrder`, `TypeOK` |
| `web` | 2 nodes, 1 client with 2 requests (read, write of two keys, delete), 1 election, 1 crash, 1 restart, 1 snapshot, fair | `StoreAgreement`, `AnsweredIsOver`, `StatusIsTrue`, `ReadsKeepUp`, `EveryRequestReturns`, `TypeOK` |
| `kv_stale_reply` | 3 replicas, 1 client, 2 requests, 1 election | finding: a reply to an earlier request is taken for the next one's |
| `kv_deletes` | 2 replicas, a protobuf and an ad-hoc client with a delete each, no faults | finding: a key survives its delete in either format |
| `mem_restart` | 3 replicas, 1 command, 1 fault, 1 restart, terms to 3 | finding: a replica that comes back has forgotten its vote, and the group a committed command |
| `mem_startup_race` | 2 replicas, started together, fair | finding: an early join stops the first process and is never repeated |

Nodes of `CommandLog` share nothing but the committed log, so that one node is
enough for what is said of its file.

Bounds: `MaxReq` per client, `MaxElections`, `MaxCrashes`, `MaxLosses`,
`MaxLog`, `MaxClusterRestarts`. Two requests are what it takes for a reply to
come to the wrong one and for an old request to be run after a newer one; one
election already gives a deposed leader that serves, an entry in limbo, and two
replicas that propose the same request; three replicas go on after one fails.
The stable instance needs one follower only, for followers do nothing there but
drop requests and apply; its clients send one request each, which already gives concurrent calls,
a read that a write overtakes, and a session that waits behind one that is never answered. Later
requests of a client under one leader are in `kv_failover` and in the theorem `Linearizable`.
`kv_failover` has no value with a dash: with one, TLC finds `ReplyIsCommitted` violated,
because `Propose` cuts the response (kvstore/store.go:137). `kv_stable` has no election:
a request that comes to every replica while it does not lead is dropped by all, and `ReadUDP` has no
timeout, so that `EveryCallReturns` is about a stable leader only. For the files, a crash in the middle of a record and
the replay after it are followed by a second writing over by the next group, and
records of two sizes let them fall out of step. In `Membership`
a first term bootstraps, a second makes the first leader and a third is what a
failover takes; one fault with one restart is enough for a process to vote
twice, to ask again and to bootstrap again. `StartsAfter`, `Faulty` and
`Restarting` describe the environment: which pods a pod is started after, and which fail and come
back; in `mem_joins` pods start one by one, each when the one before has asked to join, and any but
the last may fail; in `mem_restart` they start when the first leads; in `mem_startup_race` all start at
once. `mem_joins` has no loggers: they have no vote, and the proofs include them. In `DiskStore` a
key inside the file, one behind its end and a command that always panics are what
a replay can get wrong; a value is 2 cells, and 32 stands for 2^64. In `ChatRoom`
two servers give a client two copies of a line; two lines are what an order, a
gap or a repetition needs; a window of 1 or 2 is soon full, where the shipped
configuration has 100; `Buffer` 1 makes `Apply` wait; one stop is an interrupt, whose
`Shutdown` may panic half way, or a crash, after which two servers have no majority and the other
one goes on sending what is committed. In `WebStore` two requests of one client are what
`AnsweredIsOver` and `ReadsKeepUp` relate; the write of two keys may stop between
them; one election leaves a deposed leader, an entry in limbo and a future that
fails; the crashed node comes back from its snapshot with its majority. Two clients
with a request each (8.4 million states) satisfy the same invariants; that instance is no run for its length. All runs set
`CHECK_DEADLOCK FALSE`: the clients end after their last request, as the load
generators do, and the bounded models when their bounds are used up.

Fairness (`KVService!Fairness`): weak fairness of every goroutine's next step
(client loop, `Respond`, the state machine), of the leader's commit and of a
deposed leader's step down; an election when there is no leader; strong fairness
of `HandleRequest` per session, because the goroutines blocked on the unbuffered
channel `svr.incoming` queue up in order. Crashes, losses, elections that nobody
needs and the survival of limbo entries are not fair. In `CommandLog`, weak
fairness of applying and of restarting (Kubernetes restarts the pods). In
`Membership`, of the steps of each process and its restart, of Raft's exchange
with each member, of the listener, and of an election while nobody leads. In
`ChatRoom`, weak fairness of each goroutine and strong fairness of `Join` and
`Propose`, because Go's `select` chooses at random among what is ready; nobody has to
leave, and a user types what the instance lets him type. In `WebStore`, weak fairness
of each handler, of the state machine, of the commits of a leader with its majority,
and of the step down of a deposed leader or one that has lost its majority (its
lease runs out). Restarts and elections are not fair: `EveryRequestReturns` does not
need them.

Each property of a passing run has a mutant: a definition changed as a plausible
bug would change it, with which TLC finds the property violated. Their operators
stand before the definition they replace, marked `Mutant`.

## Proofs

The theorems hold for every number of replicas and clients, every set of keys,
values, commands or requests and every bound, from the ASSUMEs of the modules,
which give the types of the constants (and, for WebStore, that there is a key).
Seven have a hypothesis beyond these, `Undashed`, `TextClients = {}`, `[]Steady`, `KeysApart`, `NoDeletes`,
`OwnNames` or `ReplicasDiffer`, explained below.

| theorem | states |
|---|---|
| `KVServiceProofs!TypeCorrect` | `Spec => []TypeOK` |
| `KVServiceProofs!ReplicasAgree` | `Spec => []StoreAgreement` |
| `KVServiceProofs!RepliesAreCommitted` | `Undashed => (Spec => []ReplyIsCommitted)` |
| `KVServiceProofs!RepliesAreFirstFields` | `Spec => []RepliesCut` |
| `KVServiceProofs!ProposersCommitInOrder` | `Spec => []ProposerOrder` |
| `KVServiceProofs!ClientsAreSequential` | `TextClients = {} => (Spec => []SequentialUnderFirst)` |
| `KVServiceProofs!Linearizable` | `Spec /\ []Steady => ImplementsAtomicKV` |
| `CommandLogProofs!LogTypesCorrect` | `CommandLogSpec => []CommandLogTypeOK` |
| `CommandLogProofs!FilesParseToAPrefix` | `CommandLogSpec => []RecoversPrefix` |
| `CommandLogProofs!AppliedIsInTheFile` | `CommandLogSpec => []AppliedIsLogged` |
| `CommandLogProofs!NothingIsForgotten` | `CommandLogSpec => NeverForgets` |
| `CommandLogProofs!TransfersInstallThePast` | `NoDeletes => (CommandLogSpec => []InstallsPastState)` |
| `MembershipProofs!OnlyNamesakesAreRemoved` | `OwnNames => (Spec => OnlyNamesakesRemove)` |
| `MembershipProofs!CommittedLogsSurvive` | `ReplicasDiffer => (Spec => []CommittedSurvive)` |
| `MembershipProofs!MembershipTypeCorrect` | `Spec => []TypeOK` |
| `DiskStoreProofs!DiskTypeCorrect` | `Spec => []TypeOK` |
| `DiskStoreProofs!ReplicasPanicTogether` | `Spec => []PanicsTogether` |
| `DiskStoreProofs!OwnSetsAreKept` | `Spec => []OwnSetsSurvive` |
| `DiskStoreProofs!RepliesFollowTheLog` | `KeysApart /\ Spec => []ReplyFollowsLog` |
| `DiskStoreProofs!ReplaysAreInvisible` | `Spec => []FileIsOfAPrefix` |
| `ChatRoomProofs!ChatTypesCorrect` | `Spec => []TypeOK` |
| `ChatRoomProofs!StreamsAreComplete` | `Spec => []StreamsHaveNoGaps` |
| `ChatRoomProofs!SessionsInOrder` | `Spec => []SessionOrder` |
| `ChatRoomProofs!ShownInOrder` | `Spec => []OutOfOrderOnlyAfterJoin` |
| `ChatRoomProofs!CopiesAreDropped` | `Spec => []ShownOnce` |
| `WebStoreProofs!WebTypeCorrect` | `Spec => []TypeOK` |
| `WebStoreProofs!WebReplicasAgree` | `Spec => []StoreAgreement` |
| `WebStoreProofs!WebAnsweredIsOver` | `Spec => []AnsweredIsOver` |
| `WebStoreProofs!StatusesAreTrue` | `Spec => []StatusIsTrue` |
| `WebStoreProofs!LocalReadsKeepUp` | `Spec => []ReadsKeepUp` |

*KVService, agreement and replies.* `StoreAgreement` and `ReplyIsCommitted` are
not inductive alone. `IInv` adds
`CanonInv` (the ghost has one map more than the log has entries, and each comes
from the one before by the reference `Exec`) and `ServingInv` (a request in
`HandleRequest` that is committed carries the index of an entry with its own
line, and one that is applied carries the reference result at that index). The
argument: every step leaves the log and the ghost alone or extends both
(`LogStep`), so what was said of an index stays true (`AnswerStable`,
`ServingStable`); `ApplyIsExec` says that `Apply` is the reference for all
lines that do not make it panic, so an application takes a replica from one
ghost map to the next and gives the proposer the reference result.

What is proved of replies in general is `RepliesCut`: their text is what `Propose` keeps of the
result, the part before the first dash (store.go:137). `ReplyIsCommitted` asks for the whole result,
which is the same if no value has a dash (`Undashed`, `WholeResult`).

*Order.* In `ProposerOrder` an entry may come to the log by its own leader's
commit or from limbo under another one. `OrderInv` has three parts. `QueuesInv`: a
session's queue holds requests of its client that it has written to that replica, in
turn. `TakenInv`: what is logged, in limbo or proposed was written, and is before
everything that still waits in the queue it came from; so what `HandleRequest`
takes next is after all of it (`NextIsLater`). `CommitInv`: log, limbo and what the
leader has in flight are each in order, and each is before the next. `OrderLemmas`
shows for any relation on entries that a proposal, a commit, an inheritance and a
failure keep this (`AcceptOrder`, `OwnCommitOrder`, `InheritOrder`, `FailureOrder`).

*Under the first leader.* Through a change of leader the service is neither sequential to its
clients (`kv_stale_reply`) nor linearizable, so `SequentialUnderFirst` ends with the first lead, and
the refinement of `AtomicKV` is proved for the behaviours in which the first leader leads throughout: `Steady` is
`leader = 1`, no client in the ad-hoc format and values without a dash (a reply would cut
them). Followers may crash, datagrams may be lost, and deletes may stop the replicas.
`StableInv` says at which of six stages each client's request is, at rest, unwritten, in the
leader's session, proposed, committed, or answered, and that it is at no other place
(`Progress`); what lies in the sessions of other replicas is dropped there, for they do
not lead (`LeadInv`). That is `ClientsAreSequential`. With `IInv`, and `IndexInv` (a request is in the log once), each
step is mapped: the client's call to the invocation, the commit to the execution, the
read of the datagram to the return with the result of the commit, all others to a
stutter (`CallInvokes`, `CommitDoes`, `ReadReturns`, `OthersStutter`). That clients in the ad-hoc format
change nothing in this is checked by `kv_stable` only.

*CommandLog.* `CommandLogInv` is about places in a file: `pos[j]` is where it is when the
first j entries are written (`Layout`), and `Carries` says that the record of an entry is there
cell by cell. The node's file carries the entries it has applied in its present life, and its
descriptor is behind them, or one cell further between the two writes. While the first
group lives, it carries the first `h` entries, `h` being how far the node ever got, and ends there, or after
the length of the next record (`Written`). A replay writes the cells again that are
there (`WriteAtSame`), whatever the process died between; only at `h` does the file grow.
`ParseAlong` goes from the cells to the parse, by induction along the entries: from the front of such
a file the parser reads their records one by one, and then what it finds behind them, which is nothing where
the file ends (`ParsedWritten`). After a restart of the group the file may carry on with torn
records of the old one, and only what is applied is known of it. `InstalledIsPast` is a second
induction: the entries that are not logged do not change the map. It takes
`NoDeletes`: a delete is logged (in kvstore by the deferred writes of a call that then panics),
and recovery skips it where the reference removes the key.

*Membership, who is taken out.* What `RemoveServer` takes out was chosen by an earlier reading of the
configuration, and by then elections and older logs may have changed it. `TodoInv`: what is to be
removed for a joiner has its name and another address. `Once` is about a pod that is not started
again: it sends one request, and until that is answered by an `AddServer` its entry is in no log
of any pod (`Unknown`), so that a configuration that comes back from an older log cannot have it
(`UnknownStays`). Hence whoever goes with the name is another node (`RemoveNamesake`). First
cannot bootstrap while it leads (`LeadersRun`). Of a pod that is started again `Once` is not true, and
`OwnNames` asks that it share its name with no other (in one subnet none do); two loggers have
the same name (logger/main.go:65), so it excludes loggers that are started again where there are
several. `mem_joins` checks an instance beyond the hypothesis, in which names coincide.

*Membership, what survives.* That whoever leads has all that was committed (`FaultsAreTolerated`)
is false once a replica comes back: its stores are in memory, and it votes and acknowledges as if it
never had (`mem_restart`). Kubernetes starts replicas again, so this ends the guarantee of the
deployment, and `CommittedSurvive` says what it is until then: `ReplicasStayAway` is that the pods
started again so far were loggers, which have no vote. This is Raft's safety while `JoinRaft` changes the
voters, for any number of pods, crashes, elections and changes, loggers that come and go among them.
`ReplicasDiffer` is the hypothesis: no two replicas have one name,
so that an `AddServer` changes one voter (`OneVoter`; in one subnet no names coincide; `mem_joins` has an
instance in which two do). The invariant is `ReplicasStayAway => RaftInv`, with the types. `RaftInv` says:
`LogsInv`, of each term there is one log, its leader's, and every other log has a beginning of it
(`Agreed`). `ChangesInv`, a change of the configuration changes one voter, and comes after an entry of its
own term that was found committed under the configuration it changes (this is what `MayChange` is for).
`VotesInv`, a majority of the configuration of a term's first entry has gone on to that term or died.
`SafeInv`, a log that ends in a later term has what is committed, and also what is `Choosable`: what a
majority has, or may still take from the leader of its term. `CommitsInv`, what a process counts as
committed is in its log and was found so.
Majorities of configurations that differ by one voter meet (`MajoritiesMeet`). Two logs may part, and
each change its voters after that, but not both by a change in the term where they part (`OneChange`,
`ForkedConfs`), so that their last configurations do differ by one voter at most (`Overlap`). Hence a
candidate with a majority has all that is committed (`CandidatesKnow`, by the shortest committed log
it would lack), its majority meets that of whatever is `Choosable` (`CandidatesMeet`), and its term is new
(`ElectedLast`). An entry under a new configuration could be `Choosable` when a later leader
lacks it; `AppendLast` excludes this, for that leader's voters are those of the last change both have
(`Anchored`), and of these a majority has gone on. One lemma for each step follows (`ElectRaft`, `AppendRaft`,
`ConfRaft`, `CatchUpRaft`, `CommitRaft`, `DieRaft`, `BootRaft`, `BootstrapRaft`, `QuietRaft`).
`MembershipTypeCorrect` needs no hypothesis: whatever restarts and joins there are, terms stay within their bound
and only other pods than First are queued.

*DiskStore.* `FileInv` is about a group that has not been restarted as a whole: n's
file is as long as the first `h` entries make it and stores nothing but their sets, `h` being how far
n *ever* applied (`Reached`), and it has all sets n applied in its present life. A restarted process is behind `h` and applies entries again, which
changes nothing in a file that has them. That entry can be applied is then the same
question at every node (`Doable`: a get needs the file to be long enough, and only sets make
it longer), which gives `ReplicasPanicTogether`. `OwnSetsAreKept` is by the fact that
an application only ever writes the stored value, or fills up with zeros behind the end of the
file. In `RepliesFollowTheLog` a get returns what the sets before it left at *its* key, so
that two keys must not share cells: `KeysApart`. It holds when `valueSize * pos` fits in an int
(`KeysFit`, `FitApart`); keys k and k + 2^64/valueSize share their place in the file.
`ReplaysAreInvisible` needs none of it: `ReplayInv` says that n's file is `FileAfter` the first `h`
entries and has their sets, so that to apply one of them again changes nothing (`ReplaySame`), and to
apply the next is the next step of `FileAfter` (`FileAfterStep`).

*ChatRoom.* `StreamsAreComplete`: `StreamInv` says that what r sent to a client in its list are
the entries, without a gap, up to those the loop of `Apply` has come to, in front of the client's
place or behind it; a session that is still joining was sent nothing, a closed one a
prefix. `WalksInv` keeps the loops inside a list that only grows.
`SessionsInOrder` is the argument of `OrderInv` again, over `RaftPipeline`: queues of written
lines (`UpQueues`), entries that were taken from them (`Taken`), and the relation `BySession`,
in which an empty line of a closed session may come after anything, for no line of that
session comes any more (`Over`).
`HeardInv` joins what a server sends to what a client shows. `UnreadInv`: what c has not
read of r's stream is consecutive, ends where the stream ends as long as r runs (a death cuts off
its end), and every text of the stream before it is among the lines c has shown (`FrontShown`).
`ShownInv`: each line is blanks and a text, and was at such a front when it was taken; `WindowAt`: the
window is the last Size lines shown, none of them twice. A step adds to the end of one stream, takes
from the front of one, or ends one (`HearStep`, `Takes`). For `ShownInOrder`, let a later
line show y for the first time and an earlier one x > y, taken from r's stream. Had the stream y, then as one
of the texts before x, which had been shown, so that it began after y. For `CopiesAreDropped`,
two lines that end with one text are the same, and then the window tells them apart, or one begins among
the blanks of the other (`SameLine`, `BeganInside`), where only a stream's beginning can lie.

*WebStore.* `WebTypes` adds to the types that a handler's remaining keys are in its
request's body, and of the group that its leader believes to lead, that who does not
has nothing in flight, and that none knows more to be committed than is (`PipeSane`).
`Replicated` adds to `StoreAgreement` that the ghost is the fold of the log and that
a clone not yet written is of a prefix of it. `RequestsInOrder` is the argument of
`CommitInv` over `RaftPipeline`, with the order of a client's requests as the relation;
all entries, logged or not, are of requests answered or present, so what a handler
proposes is of none earlier.
`Truthful` is what `StatusIsTrue` and `ReadsKeepUp` need. `FlightInv`: a command in flight is
the one its handler waits for, and no two are of one handler; so whoever waits is told.
`HandlerInv`: the node of a handler has applied what the handler has written and gone on from.
`AnswerInv`: the same of an answer, at the index its node had got to, behind which the node
does not fall in the same run. `PendingInv` is why no write commits too often: log, limbo and
what the leader has in flight are one sequence (`Pending`), of which every step of the group only
loses elements and keeps the order of the rest (`Kept`, `PipeStepKeeps`), whatever the elections and
the deaths; new elements come by a proposal, at the end (`PipeAcceptKeeps`). A
handler proposes a key again only as the second Delete, and `PendingInv` says
where the handler is when a command is there once, or twice.

What is only model-checked, and why:

- `OnlyNamesakesRemove` where a pod that is started again has a namesake, and `CommittedSurvive` where
  two replicas have one name.
- `ImplementsAtomicKV` with a client in the ad-hoc format among the others.
- The liveness properties: fairness and ENABLED are out of the prover's reach.

## Differences from the documentation that no run shows

They follow from a single line each, and the models have them as the code does.

- kvstore/store.go:137: the response is split on the dash that `Apply` joined it with, so that a get
  of a value with a dash returns its first part (`ReplyText`, `RepliesAreFirstFields`); README.md:27 has
  a regular map. With a value `<<"a", "b">>` in the instance of `kv_failover`, TLC finds `ReplyIsCommitted` violated.
- README.md:35 names "delete" for diskstorage too; as in kvstore (`kv_deletes`), the case of `Apply` is commented
  out, and a delete panics (`Panicking`).
- README.md:35: diskstorage's set stores at signs whatever its value, and the
  offset wraps around for keys from 2^53 on (`storeValue`, `Stride`). "A persistent
  storage application": after a restart of the group only the nodes that had
  applied a set still have it (`OwnSetsSurvive` is about one node), and the
  deployments zero the file at each start of a container.
- logger/main.go:65: names are drawn from an unseeded generator and are all the
  same (`Name`).
- kvstore/store.go:122: `Propose` "Sends an "OK" repply to inform commitment"; an
  entry whose leader stepped down may be committed by the next one (`Inherit`), which
  has nobody to answer.
- kvstore/store.go:32: catastrophic faults "must be recoverable"; the file is opened at
  offset 0 without `O_APPEND`, and the first entries of a restarted group overwrite the
  commands logged before (`Restart`, `ClusterRestart` of CommandLog).
- chatRoom/server/chatServer.go:232: `Shutdown` "realeases every resource and finishes
  goroutines"; the goroutines panic on the closed channels or propose empty lines
  (`SendPanics`, `ShutdownPanics`, `ProposeBlank`).
- README.md:47: the message is broadcast "to every client connected"; one client that does not
  read stops `Apply`, and with it the room, at every server (`Send`).
- webkvstore/webserver/service.go:130: a GET without a key sets the status 400 and then
  answers all the same; :171 issues each delete twice.
- kvstore/store.go:159: "no existing peers" is looked up in an empty store, and a
  restarted first pod bootstraps a second group (`StartRaft`).

## Not modelled

- The gzip branch of kvstore's `Apply`: `compressValues` is false in this build.
- Snapshots of the key-value store: `SnapshotThreshold` is `2 << 62`, so that
  `Snapshot` and `Restore` are never called by Raft.
- Bytes: lengths against the 128-byte reply buffer, and newline bytes inside a
  protobuf, which split a request in two at the session.
- The throughput monitors, profiling, configuration, Kubernetes discovery,
  `ReadTCP`, `ReadTCPParallel`, `Server.Broadcast` and `validateReq` (unused).
- The end of a joiner between its connection and its request (`SendJoin` is one step), or after it
  (the listener then waits in its future for ever), and joins at diskstorage, chat room and web store groups: the first two
  have kvstore's text, and in the web store a handler of its own answers 500 where the
  others end the process.
- `Exit` of the web store and its recovery log (an external library).
- Requests of the web store without a key or with an empty body, which change nothing.
- In the chat room: a window of size 0 (`PushPop` panics), `MessageQueue.Add` (tests only),
  and texts that look like an index with a dash.
- `O_SYNC` and what a file system loses when its machine fails.
- Deployment files, scripts and the psutil monitor.

## Plan

1. `Lifecycle`: connections that come and go, `Exit`, the throughput counter.
2. `WebJoin`: joins over HTTP, several at a time, at nodes that do not lead.
3. Proofs: `OnlyNamesakesRemove` without `OwnNames`.
