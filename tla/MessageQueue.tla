---------------------------- MODULE MessageQueue ----------------------------
(***************************************************************************)
(* The window of remembered messages of chatRoom/client/messageQueue.go.   *)
(* A message is a sequence; <<>> is the empty string.  The client never    *)
(* asks for the mutex (Sync = false): only its Consume goroutine calls in. *)
(***************************************************************************)
EXTENDS Naturals, Sequences

CONSTANT Size  \* MqueueSize of the client's configuration

\* PushPop would index an empty slice with a size of 0.
ASSUME SizeAssumption == Size \in Nat \ {0}

\* Mutant: make([]string, 0, size), of which PushPop fills one less than Size.
NewMQEmpty == <<>>

\* make([]string, size, size): as many empty strings.
NewMQ == [i \in 1..Size |-> <<>>]

contains(mq, data) == \E i \in DOMAIN mq : mq[i] = data

\* The queue with its first element out, if there is no room for another.
Consumed(mq) == IF Len(mq) + 1 >= Size THEN Tail(mq) ELSE mq

PushPop(mq, data) == IF contains(mq, data) THEN mq ELSE Append(Consumed(mq), data)
=============================================================================
