------------------------------ MODULE ChatRoom ------------------------------
(***************************************************************************)
(* The chat room: servers that put every line a client types through Raft  *)
(* and send every committed one to every client, and clients connected to  *)
(* all servers, which show a line once and drop the copies.                *)
(*                                                                         *)
(* A server has a Listen goroutine, a main goroutine that ends in          *)
(* Shutdown, Raft's state machine goroutine in Apply, and for each session *)
(* a Read, a Write and a forwarder goroutine.  A line on its way from c's  *)
(* keyboard to r's Listen is in up[r][c]: the socket, Read and the         *)
(* forwarder hand it on in order.  A line from r's Apply to c's window is  *)
(* in down[r][c]: Write, the sockets and the client's Read.                *)
(***************************************************************************)
EXTENDS RaftPipeline, MessageQueue, SequencesExt

CONSTANTS
  Clients,    \* the chat clients
  Typed,      \* Typed[c]: bound, the lines c's user types
  Leavers,    \* the clients whose users type "exit"
  Buffer,     \* lines a connection takes before its writer blocks
  MaxBlanks,  \* bound: empty lines proposed
  MaxStops    \* bound: servers that are interrupted or die

ASSUME ChatAssumption ==
  /\ Typed \in [Clients -> Nat]
  /\ Leavers \subseteq Clients
  /\ Buffer \in Nat \ {0}
  /\ MaxBlanks \in Nat /\ MaxStops \in Nat

VARIABLES
  \* The clients.
  dialled,  \* dialled[c]: the servers Connect has reached
  num,      \* num[c]: lines typed
  pos,      \* pos[c]: the server Broadcast writes to next; 0 outside of it
  left,     \* the clients that have ended
  mq,       \* mq[c]: Mq.Data
  shown,    \* shown[c]: the lines printed so far
  \* The connections.
  conn,     \* conn[r][c]: see Conn
  up,       \* up[r][c]: lines from c to r's Listen
  down,     \* down[r][c]: what r has sent to c
  \* The servers.
  clients,  \* clients[r]: svr.clients
  half,     \* the servers inside the append of Join
  bcast,    \* bcast[r]: Apply's loop over the clients
  shut,     \* shut[r]: Shutdown's loop over the clients
  applied,  \* applied[r]: entries Apply has returned from
  blanks,   \* empty lines proposed so far
  stops,    \* servers ended so far
  sent      \* ghost: sent[r][c] is the indexes r has sent to c

clientVars == <<dialled, num, pos, left, mq, shown>>
netVars == <<conn, up, down>>
serverVars == <<clients, half, bcast, shut, applied, blanks, stops, sent>>
vars == <<clientVars, netVars, serverVars, pipeVars>>

\* A line as proposed: c's num-th, or the empty string (num = 0).
Entry == [from: Clients, num: Nat, by: Replicas]

(***************************************************************************)
(* A connection waits for Listen, is in svr.clients, has had its channels  *)
(* closed by Shutdown, or has in addition a line that Read is about to     *)
(* send on the closed channel.                                             *)
(***************************************************************************)
Conn == {"none", "waiting", "joined", "closed", "spilled"}

\* A loop over the first n clients, about to handle the at-th; at = 0 outside of it.
Walk == [at: Nat, n: Nat]
NoWalk == [at |-> 0, n |-> 0]

TypeOK ==
  /\ PipeTypeOK(Entry)
  /\ dialled \in [Clients -> 0..N]
  /\ num \in [Clients -> Nat]
  /\ pos \in [Clients -> 0..N]
  /\ left \in SUBSET Clients
  /\ mq \in [Clients -> Seq(Seq(Nat))]
  /\ shown \in [Clients -> Seq(Seq(Nat))]
  /\ conn \in [Replicas -> [Clients -> Conn]]
  /\ up \in [Replicas -> [Clients -> Seq(Entry)]]
  /\ down \in [Replicas -> [Clients -> Seq(Nat)]]
  /\ clients \in [Replicas -> Seq(Clients)]
  /\ half \in SUBSET Replicas
  /\ bcast \in [Replicas -> Walk]
  /\ shut \in [Replicas -> Walk]
  /\ applied \in [Replicas -> Nat]
  /\ blanks \in Nat /\ stops \in Nat
  /\ sent \in [Replicas -> [Clients -> Seq(Nat)]]

Init ==
  /\ PipeInit
  /\ dialled = [c \in Clients |-> 0]
  /\ num = [c \in Clients |-> 0]
  /\ pos = [c \in Clients |-> 0]
  /\ left = {}
  /\ mq = [c \in Clients |-> NewMQ]
  /\ shown = [c \in Clients |-> <<>>]
  /\ conn = [r \in Replicas |-> [c \in Clients |-> "none"]]
  /\ up = [r \in Replicas |-> [c \in Clients |-> <<>>]]
  /\ down = [r \in Replicas |-> [c \in Clients |-> <<>>]]
  /\ clients = [r \in Replicas |-> <<>>]
  /\ half = {}
  /\ bcast = [r \in Replicas |-> NoWalk]
  /\ shut = [r \in Replicas |-> NoWalk]
  /\ applied = [r \in Replicas |-> 0]
  /\ blanks = 0 /\ stops = 0
  /\ sent = [r \in Replicas |-> [c \in Clients |-> <<>>]]

\* At most the first k elements of s.
UpTo(s, k) == SubSeq(s, 1, IF k < Len(s) THEN k ELSE Len(s))

-----------------------------------------------------------------------------
(* The clients. *)

\* c's process ends and its sockets close; a server may still read a part of what c wrote.
HangUp(c) ==
  /\ left' = left \cup {c}
  /\ \E k \in [Replicas -> 0..Typed[c]] :
       up' = [r \in Replicas |-> [up[r] EXCEPT ![c] = UpTo(@, k[r])]]
  /\ down' = [r \in Replicas |-> [down[r] EXCEPT ![c] = <<>>]]

\* Connect reaches the next server, whose accept loop offers the connection to Listen.
Dial(c) ==
  /\ c \notin left /\ dialled[c] < N
  /\ dialled[c] + 1 \in alive
  /\ dialled' = [dialled EXCEPT ![c] = @ + 1]
  /\ conn' = [conn EXCEPT ![dialled[c] + 1][c] = "waiting"]
  /\ UNCHANGED <<num, pos, left, mq, shown, up, down, serverVars, pipeVars>>

\* It does not, which is fatal.
DialFails(c) ==
  /\ c \notin left /\ dialled[c] < N
  /\ dialled[c] + 1 \notin alive
  /\ HangUp(c)
  /\ UNCHANGED <<dialled, num, pos, mq, shown, conn, serverVars, pipeVars>>

\* A line is read from the keyboard.
Type(c) ==
  /\ c \notin left /\ dialled[c] = N /\ pos[c] = 0
  /\ num[c] < Typed[c]
  /\ num' = [num EXCEPT ![c] = @ + 1]
  /\ pos' = [pos EXCEPT ![c] = 1]
  /\ UNCHANGED <<dialled, left, mq, shown, netVars, serverVars, pipeVars>>

\* Mutant: Broadcast goes on after the last server.
WriteOn(c) ==
  LET r == pos[c] IN
  /\ c \notin left /\ pos[c] # 0
  /\ pos' = [pos EXCEPT ![c] = r + 1]
  /\ up' = [up EXCEPT ![r][c] = Append(@, [from |-> c, num |-> num[c], by |-> r])]
  /\ UNCHANGED <<dialled, num, left, mq, shown, conn, down, serverVars, pipeVars>>

(***************************************************************************)
(* Broadcast writes the line to the next server.  (The newline main() adds *)
(* makes a second, empty line, which the session skips.)  A server that    *)
(* has closed the session's channels still has the socket open.            *)
(***************************************************************************)
Write(c) ==
  LET r == pos[c] IN
  /\ c \notin left /\ pos[c] # 0
  /\ pos' = [pos EXCEPT ![c] = IF r = N THEN 0 ELSE r + 1]
  /\ up' = IF conn[r][c] \in {"waiting", "joined"}
           THEN [up EXCEPT ![r][c] = Append(@, [from |-> c, num |-> num[c], by |-> r])]
           ELSE up
  /\ conn' = IF conn[r][c] = "closed" THEN [conn EXCEPT ![r][c] = "spilled"] ELSE conn
  /\ UNCHANGED <<dialled, num, left, mq, shown, down, serverVars, pipeVars>>

\* The server is gone: Broadcast gives up, and the servers after it never see the line.
WriteFails(c) ==
  /\ c \notin left /\ pos[c] # 0
  /\ pos[c] \notin alive
  /\ pos' = [pos EXCEPT ![c] = 0]
  /\ UNCHANGED <<dialled, num, left, mq, shown, netVars, serverVars, pipeVars>>

Whole(r, c) == {k \in DOMAIN down[r][c] : log[down[r][c][k]].num # 0}

\* Mutant: Read drops the line if Consume is not waiting for it.
ConsumeOrDrop(c, r) ==
  /\ c \notin left /\ dialled[c] = N
  /\ Whole(r, c) # {}
  /\ LET k == CHOOSE k \in Whole(r, c) : \A j \in Whole(r, c) : k <= j
         line == SubSeq(down[r][c], 1, k)
     IN  /\ down' = [down EXCEPT ![r][c] = SubSeq(@, k + 1, Len(@))]
         /\ \/ UNCHANGED <<shown, mq>>
            \/ /\ ~contains(mq[c], line)
               /\ shown' = [shown EXCEPT ![c] = Append(@, line)]
               /\ mq' = [mq EXCEPT ![c] = PushPop(@, line)]
  /\ UNCHANGED <<dialled, num, pos, left, conn, up, serverVars, pipeVars>>

(***************************************************************************)
(* Read(r) hands a line to Consume, which prints it unless it is in the    *)
(* window.  An entry with no text has no newline either, so it is glued to *)
(* the next one.  Consume only starts once Connect has reached all servers.*)
(***************************************************************************)
Consume(c, r) ==
  /\ c \notin left /\ dialled[c] = N
  /\ Whole(r, c) # {}
  /\ LET k == CHOOSE k \in Whole(r, c) : \A j \in Whole(r, c) : k <= j
         line == SubSeq(down[r][c], 1, k)
     IN  /\ down' = [down EXCEPT ![r][c] = SubSeq(@, k + 1, Len(@))]
         /\ shown' = IF contains(mq[c], line) THEN shown
                     ELSE [shown EXCEPT ![c] = Append(@, line)]
         /\ mq' = [mq EXCEPT ![c] = PushPop(@, line)]
  /\ UNCHANGED <<dialled, num, pos, left, conn, up, serverVars, pipeVars>>

\* Shutdown of the client.
Leave(c) ==
  /\ c \in Leavers \ left /\ dialled[c] = N /\ pos[c] = 0
  /\ HangUp(c)
  /\ UNCHANGED <<dialled, num, pos, mq, shown, conn, serverVars, pipeVars>>

-----------------------------------------------------------------------------
(* The servers: sessions and Listen. *)

\* r's process ends: c may still read a part of what r sent.
Die(r) ==
  /\ PipeDie(r)
  /\ conn' = [conn EXCEPT ![r] = [c \in Clients |-> "none"]]
  /\ up' = [up EXCEPT ![r] = [c \in Clients |-> <<>>]]
  /\ \E k \in [Clients -> 0..Buffer] :
       down' = [down EXCEPT ![r] = [c \in Clients |-> UpTo(@[c], k[c])]]
  /\ clients' = [clients EXCEPT ![r] = <<>>]
  /\ half' = half \ {r}
  /\ bcast' = [bcast EXCEPT ![r] = NoWalk]
  /\ shut' = [shut EXCEPT ![r] = NoWalk]
  /\ UNCHANGED <<clientVars, applied, blanks, sent>>

\* Listen is at its select.
Listening(r) == r \in alive \ half

(***************************************************************************)
(* Join appends the session.  The append stores the new length before the  *)
(* new element, and Apply and Shutdown read the slice without a lock: until*)
(* JoinStored they may find a nil session at its end.                      *)
(***************************************************************************)
Join(r, c) ==
  /\ Listening(r)
  /\ conn[r][c] = "waiting"
  /\ conn' = [conn EXCEPT ![r][c] = "joined"]
  /\ clients' = [clients EXCEPT ![r] = Append(@, c)]
  /\ half' = half \cup {r}
  /\ UNCHANGED <<clientVars, up, down, bcast, shut, applied, blanks, stops, sent, pipeVars>>

JoinStored(r) ==
  /\ r \in half
  /\ half' = half \ {r}
  /\ UNCHANGED <<clientVars, netVars, clients, bcast, shut, applied, blanks, stops, sent, pipeVars>>

NilAt(r, i) == r \in half /\ i = Len(clients[r])

\* Listen takes c's next line: a leader proposes it and does not wait, another drops it.
Propose(r, c) ==
  /\ Listening(r)
  /\ conn[r][c] \notin {"none", "waiting"} /\ up[r][c] # <<>>
  /\ up' = [up EXCEPT ![r][c] = Tail(@)]
  /\ IF r \in believers THEN PipeAccept(r, Head(up[r][c])) ELSE UNCHANGED pipeVars
  /\ UNCHANGED <<clientVars, conn, down, serverVars>>

\* A closed channel gives the forwarder empty strings without end, and Listen proposes them.
ProposeBlank(r, c) ==
  /\ Listening(r)
  /\ conn[r][c] \in {"closed", "spilled"} /\ up[r][c] = <<>>
  /\ r \in believers
  /\ blanks < MaxBlanks
  /\ blanks' = blanks + 1
  /\ PipeAccept(r, [from |-> c, num |-> 0, by |-> r])
  /\ UNCHANGED <<clientVars, netVars, clients, half, bcast, shut, applied, stops, sent>>

-----------------------------------------------------------------------------
(* The servers: the state machine. *)

\* Mutant: the loop ends before the last client.
ApplyBeginShort(r) ==
  /\ r \in alive
  /\ bcast[r] = NoWalk
  /\ applied[r] < CommitIndex(r)
  /\ clients[r] # <<>>
  /\ bcast' = [bcast EXCEPT ![r] = [at |-> 1, n |-> Len(clients[r]) - 1]]
  /\ UNCHANGED <<clientVars, netVars, clients, half, shut, applied, blanks, stops, sent, pipeVars>>

\* Apply's range reads the list of clients once.
ApplyBegin(r) ==
  /\ r \in alive
  /\ bcast[r] = NoWalk
  /\ applied[r] < CommitIndex(r)
  /\ bcast' = [bcast EXCEPT ![r] = [at |-> 1, n |-> Len(clients[r])]]
  /\ UNCHANGED <<clientVars, netVars, clients, half, shut, applied, blanks, stops, sent, pipeVars>>

Sending(r) == r \in alive /\ bcast[r].at \in 1..bcast[r].n

\* The client whose turn it is in Apply's loop.
Turn(r) == clients[r][bcast[r].at]

\* Mutant: a client that is not ready to take the entry is passed over.
SendOrSkip(r) ==
  LET c == Turn(r) IN
  /\ Sending(r)
  /\ ~NilAt(r, bcast[r].at)
  /\ conn[r][c] = "joined"
  /\ IF c \notin left /\ Len(down[r][c]) < Buffer
     THEN /\ down' = [down EXCEPT ![r][c] = Append(@, applied[r] + 1)]
          /\ sent' = [sent EXCEPT ![r][c] = Append(@, applied[r] + 1)]
     ELSE UNCHANGED <<down, sent>>
  /\ bcast' = [bcast EXCEPT ![r].at = @ + 1]
  /\ UNCHANGED <<clientVars, conn, up, clients, half, shut, applied, blanks, stops, pipeVars>>

(***************************************************************************)
(* Apply sends the entry to the next client and goes on when its Write has *)
(* taken it, which it does not while the connection is full.  The writes to*)
(* a client that has hung up fail without notice.                          *)
(***************************************************************************)
Send(r) ==
  LET c == Turn(r) IN
  /\ Sending(r)
  /\ ~NilAt(r, bcast[r].at)
  /\ conn[r][c] = "joined"
  /\ c \in left \/ Len(down[r][c]) < Buffer
  /\ down' = IF c \in left THEN down ELSE [down EXCEPT ![r][c] = Append(@, applied[r] + 1)]
  /\ sent' = [sent EXCEPT ![r][c] = Append(@, applied[r] + 1)]
  /\ bcast' = [bcast EXCEPT ![r].at = @ + 1]
  /\ UNCHANGED <<clientVars, conn, up, clients, half, shut, applied, blanks, stops, pipeVars>>

\* The session is nil, or its channel closed: the process panics.
SendPanics(r) ==
  /\ Sending(r)
  /\ NilAt(r, bcast[r].at) \/ conn[r][Turn(r)] # "joined"
  /\ Die(r)
  /\ UNCHANGED stops

ApplyEnd(r) ==
  /\ r \in alive
  /\ bcast[r].at > bcast[r].n
  /\ bcast' = [bcast EXCEPT ![r] = NoWalk]
  /\ applied' = [applied EXCEPT ![r] = @ + 1]
  /\ UNCHANGED <<clientVars, netVars, clients, half, shut, blanks, stops, sent, pipeVars>>

-----------------------------------------------------------------------------
(* The servers: Shutdown, and faults. *)

ShutdownBegin(r) ==
  /\ r \in alive /\ shut[r] = NoWalk
  /\ stops < MaxStops
  /\ stops' = stops + 1
  /\ shut' = [shut EXCEPT ![r] = [at |-> 1, n |-> Len(clients[r])]]
  /\ UNCHANGED <<clientVars, netVars, clients, half, bcast, applied, blanks, sent, pipeVars>>

(***************************************************************************)
(* Disconnect closes the channels of the next session.  Of its lines, the  *)
(* forwarder may hold the first; the next one makes Read panic.            *)
(***************************************************************************)
Disconnect(r) ==
  LET c == clients[r][shut[r].at] IN
  /\ r \in alive /\ shut[r].at \in 1..shut[r].n
  /\ ~NilAt(r, shut[r].at)
  /\ \E k \in 0..1 :
       /\ up' = [up EXCEPT ![r][c] = UpTo(@, k)]
       /\ conn' = [conn EXCEPT ![r][c] = IF Len(up[r][c]) > k THEN "spilled" ELSE "closed"]
  /\ shut' = [shut EXCEPT ![r].at = @ + 1]
  /\ UNCHANGED <<clientVars, down, clients, half, bcast, applied, blanks, stops, sent, pipeVars>>

\* Read sends on a closed channel, or Disconnect is called on a nil session.
ShutdownPanics(r) ==
  /\ r \in alive
  /\ \/ \E c \in Clients : conn[r][c] = "spilled"
     \/ shut[r].at \in 1..shut[r].n /\ NilAt(r, shut[r].at)
  /\ Die(r)
  /\ UNCHANGED stops

\* joins and incoming are closed and main returns, unless a goroutine panics on them first.
ShutdownEnd(r) ==
  /\ r \in alive
  /\ shut[r].at > shut[r].n
  /\ Die(r)
  /\ UNCHANGED stops

Crash(r) ==
  /\ r \in alive
  /\ stops < MaxStops
  /\ stops' = stops + 1
  /\ Die(r)

-----------------------------------------------------------------------------
(* Raft. *)

Elect(r) == PipeElect(r) /\ UNCHANGED <<clientVars, netVars, serverVars>>

\* Mutant: the lines whose futures fail are queued again.
StepDownRetries(r) ==
  /\ PipeStepDown(r)
  /\ up' = [up EXCEPT ![r] = [c \in Clients |->
              SelectSeq(flight[r], LAMBDA e : e.from = c) \o @[c]]]
  /\ UNCHANGED <<clientVars, conn, down, serverVars>>

StepDown(r) == PipeStepDown(r) /\ UNCHANGED <<clientVars, netVars, serverVars>>

Commit(r) == PipeCommit(r) /\ UNCHANGED <<clientVars, netVars, serverVars>>

Inherit(i) == PipeInherit(i) /\ UNCHANGED <<clientVars, netVars, serverVars>>

-----------------------------------------------------------------------------
ClientNext(c) ==
  \/ Dial(c) \/ DialFails(c)
  \/ Type(c) \/ Write(c) \/ WriteFails(c)
  \/ \E r \in Replicas : Consume(c, r)
  \/ Leave(c)

ServerNext(r) ==
  \/ \E c \in Clients : Join(r, c) \/ Propose(r, c) \/ ProposeBlank(r, c)
  \/ JoinStored(r)
  \/ ApplyBegin(r) \/ Send(r) \/ SendPanics(r) \/ ApplyEnd(r)
  \/ ShutdownBegin(r) \/ Disconnect(r) \/ ShutdownPanics(r) \/ ShutdownEnd(r)
  \/ Crash(r)

RaftNext ==
  \/ \E r \in Replicas : Elect(r) \/ StepDown(r) \/ Commit(r)
  \/ \E i \in DOMAIN limbo : Inherit(i)

Next ==
  \/ \E c \in Clients : ClientNext(c)
  \/ \E r \in Replicas : ServerNext(r)
  \/ RaftNext

Spec == Init /\ [][Next]_vars

(***************************************************************************)
(* Fairness.  Every goroutine that can run runs.  Listen's select picks at *)
(* random among the connections and lines that are ready, so none is       *)
(* passed over for ever: strong fairness of Join and Propose.  Users that  *)
(* have begun to connect type their lines; the group commits.              *)
(***************************************************************************)
Fairness ==
  /\ \A c \in Clients :
       /\ WF_vars(Dial(c)) /\ WF_vars(Type(c))
       /\ WF_vars(Write(c) \/ WriteFails(c))
       /\ \A r \in Replicas :
            WF_vars(Consume(c, r)) /\ SF_vars(Join(r, c)) /\ SF_vars(Propose(r, c))
  /\ \A r \in Replicas :
       /\ WF_vars(JoinStored(r)) /\ WF_vars(Commit(r))
       /\ WF_vars(ApplyBegin(r)) /\ WF_vars(Send(r)) /\ WF_vars(ApplyEnd(r))
       /\ WF_vars(Disconnect(r)) /\ WF_vars(ShutdownEnd(r))

FairSpec == Spec /\ Fairness

-----------------------------------------------------------------------------
(***************************************************************************)
(* Nothing is skipped: what a server sends a client is every entry from the*)
(* first one on that it applies after the client is in its list, each once *)
(* and in order, whatever clients join, hang up or read slowly meanwhile   *)
(* (fsm.Apply, Server.Join).                                               *)
(***************************************************************************)
StreamsHaveNoGaps ==
  \A r \in Replicas, c \in Clients :
    LET s == sent[r][c] IN
    /\ \A i \in DOMAIN s : s[i] = s[1] + i - 1
    /\ s # <<>> /\ conn[r][c] = "joined" => applied[r] <= s[Len(s)]

\* The entry whose text ends the line l, which names it for a reader.
Ends(l) == l[Len(l)]

\* c's line at place i is the first to show its entry.
FirstShown(c, i) == \A j \in 1..(i - 1) : Ends(shown[c][j]) # Ends(shown[c][i])

\* r's stream to c begins after entry x.
BeginsAfter(r, c, x) == sent[r][c] # <<>> /\ x < sent[r][c][1]

(***************************************************************************)
(* Total order: a client shows messages in the order of their commits,     *)
(* though it reads from all servers at once, unless it was still connecting*)
(* when they were sent: then a server it reached late has shown it a later *)
(* message first.                                                          *)
(***************************************************************************)
OutOfOrderOnlyAfterJoin ==
  \A c \in Clients : \A i, j \in DOMAIN shown[c] :
    /\ i < j /\ FirstShown(c, j)
    /\ Ends(shown[c][j]) < Ends(shown[c][i])
    => \E r \in Replicas : BeginsAfter(r, c, Ends(shown[c][j]))

(***************************************************************************)
(* Once: a client shows an entry a second time only if more than Size      *)
(* lines later, or because an empty entry is glued to it in one stream and *)
(* lies before the beginning of the other (PushPop, ProposeBlank).         *)
(***************************************************************************)
ShownOnce ==
  \A c \in Clients : \A i, j \in DOMAIN shown[c] :
    i < j /\ Ends(shown[c][i]) = Ends(shown[c][j]) =>
      \/ shown[c][i] = shown[c][j] /\ j - i > Size
      \/ /\ shown[c][i] # shown[c][j]
         /\ \E r \in Replicas, x \in ToSet(shown[c][i]) \cup ToSet(shown[c][j]) :
              log[x].num = 0 /\ BeginsAfter(r, c, x)

(***************************************************************************)
(* What one server proposes of one client's lines is in the order they were*)
(* typed, none twice, through elections and the limbo of a failed leader   *)
(* (forwarder, Listen): duplicates in the room come from different servers.*)
(***************************************************************************)
SessionOrder ==
  \A i, j \in DOMAIN log :
    i < j /\ log[i].by = log[j].by /\ log[i].from = log[j].from /\ log[j].num # 0
      => log[i].num # 0 /\ log[i].num < log[j].num

\* d's window has shown c's k-th line.
HasSeen(d, c, k) ==
  \E i \in DOMAIN shown[d] : LET e == log[Ends(shown[d][i])] IN e.from = c /\ e.num = k

\* A server has ended, the lead has changed, or d has hung up.
Disturbed(d) == alive # Replicas \/ elections > 0 \/ leader # 1 \/ d \in left

(***************************************************************************)
(* Everybody in the room hears everything: with a stable leader, a line    *)
(* begun when d is in the list of every server is shown to d in the end.   *)
(***************************************************************************)
RoomHears ==
  \A c, d \in Clients : \A k \in 1..Typed[c] :
    (num[c] = k /\ pos[c] = 1 /\ \A r \in Replicas : conn[r][d] = "joined")
      ~> (HasSeen(d, c, k) \/ Disturbed(d) \/ c \in left)
=============================================================================
