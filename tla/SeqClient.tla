----------------------------- MODULE SeqClient -----------------------------
(***************************************************************************)
(* The sequential client of client/seqClient.go.  It writes each request   *)
(* to every replica over its TCP connections, one after the other, and     *)
(* then blocks reading one datagram from its UDP socket.  Two programs run *)
(* this protocol: main(), which sends the ad-hoc text format (TextClients),*)
(* and the load generators of seqClient_test.go, which send protobufs.     *)
(*                                                                         *)
(* The connections exist from the start: Connect fails the program         *)
(* otherwise.                                                              *)
(***************************************************************************)
EXTENDS KVReference, ReplicaGroup

CONSTANTS
  TextClients,  \* the clients that run main()
  Asks,         \* Asks[c]: the commands that c sends
  MaxReq        \* bound: requests a client sends

ASSUME ClientAssumption ==
  TextClients \subseteq Clients /\ Asks \in [Clients -> SUBSET Commands] /\ MaxReq \in Nat

VARIABLES
  phase,  \* phase[c]: "idle", "sending" the request, or "waiting" in ReadUDP
  num,    \* num[c]: requests begun so far
  cmd,    \* cmd[c]: the command of the latest request
  pos,    \* pos[c]: the replica the broadcast loop writes to next
  heard,  \* heard[c]: the latest reply ReadUDP returned
  tcp,    \* tcp[r][c]: lines written to r by c and not yet taken by its server loop
  udp     \* udp[c]: datagrams on their way to c, or in its socket's buffer

clientVars == <<phase, num, cmd, pos, heard>>
netVars == <<tcp, udp>>

(***************************************************************************)
(* A reply is only its text.  num and idx, the request and the log index   *)
(* it answers, are ghosts: no client reads them.                           *)
(***************************************************************************)
Reply == [num: Nat, idx: Nat, text: Seq(STRING)]

NoReply == [num |-> 0, idx |-> 0, text |-> EmptyStr]

ClientTypeOK ==
  /\ phase \in [Clients -> {"idle", "sending", "waiting"}]
  /\ num \in [Clients -> Nat]
  /\ cmd \in [Clients -> Commands]
  /\ pos \in [Clients -> Replicas]
  /\ heard \in [Clients -> Reply]
  /\ tcp \in [Replicas -> [Clients -> Seq(Line)]]
  /\ udp \in [Clients -> SUBSET Reply]

ClientInit ==
  /\ phase = [c \in Clients |-> "idle"]
  /\ num = [c \in Clients |-> 0]
  /\ cmd = [c \in Clients |-> CHOOSE x \in Commands : TRUE]
  /\ pos = [c \in Clients |-> 1]
  /\ heard = [c \in Clients |-> NoReply]
  /\ tcp = [r \in Replicas |-> [c \in Clients |-> <<>>]]
  /\ udp = [c \in Clients |-> {}]

\* The next request of the loop: its broadcast begins with the first replica.
Call(c, x) ==
  /\ phase[c] = "idle"
  /\ num[c] < MaxReq /\ x \in Asks[c]
  /\ phase' = [phase EXCEPT ![c] = "sending"]
  /\ num' = [num EXCEPT ![c] = @ + 1]
  /\ cmd' = [cmd EXCEPT ![c] = x]
  /\ pos' = [pos EXCEPT ![c] = 1]
  /\ UNCHANGED <<heard, netVars>>

(***************************************************************************)
(* The bytes of one write.  BroadcastProtobuf ends the message with one    *)
(* newline; main() reads a line with its newline, adds another and         *)
(* Broadcast prefixes the port, so that a blank line follows the request.  *)
(***************************************************************************)
Request(c) == 
  [from |-> c, num |-> num[c], kind |-> IF c \in TextClients THEN "adhoc" ELSE "proto", cmd |-> cmd[c]]

Lines(c) ==
  IF c \in TextClients
  THEN <<Request(c), [Request(c) EXCEPT !.kind = "blank"]>>
  ELSE <<Request(c)>>

\* Mutant: the client goes on without waiting for the reply.
NextReplicaNoWait(c) ==
  IF pos[c] < N
  THEN pos' = [pos EXCEPT ![c] = @ + 1] /\ UNCHANGED phase
  ELSE phase' = [phase EXCEPT ![c] = "idle"] /\ UNCHANGED pos

\* The broadcast loop moves on; after the last replica the client waits.
NextReplica(c) ==
  IF pos[c] < N
  THEN pos' = [pos EXCEPT ![c] = @ + 1] /\ UNCHANGED phase
  ELSE phase' = [phase EXCEPT ![c] = "waiting"] /\ UNCHANGED pos

\* A write that the transport accepts; a dead replica never reads it.
Write(c, alive) ==
  /\ phase[c] = "sending"
  /\ NextReplica(c)
  /\ tcp' = IF pos[c] \in alive
            THEN [tcp EXCEPT ![pos[c]][c] = @ \o Lines(c)]
            ELSE tcp
  /\ UNCHANGED <<num, cmd, heard, udp>>

(***************************************************************************)
(* A write to a dead replica that fails ends the broadcast: the replicas   *)
(* after it do not get the request.  main() then asks for the next line;   *)
(* the load generators log the error and wait for a reply all the same.    *)
(***************************************************************************)
WriteFails(c, alive) ==
  /\ phase[c] = "sending"
  /\ pos[c] \notin alive
  /\ phase' = [phase EXCEPT ![c] = IF c \in TextClients THEN "idle" ELSE "waiting"]
  /\ UNCHANGED <<num, cmd, pos, heard, netVars>>

\* ReadUDP returns whichever datagram the socket has.
ReadUDP(c) ==
  /\ phase[c] = "waiting"
  /\ \E m \in udp[c] :
       /\ heard' = [heard EXCEPT ![c] = m]
       /\ udp' = [udp EXCEPT ![c] = @ \ {m}]
  /\ phase' = [phase EXCEPT ![c] = "idle"]
  /\ UNCHANGED <<num, cmd, pos, tcp>>
=============================================================================
