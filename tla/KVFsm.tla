------------------------------- MODULE KVFsm -------------------------------
(***************************************************************************)
(* The replicated state machine of kvstore/fsm.go with the settings the    *)
(* code is built with: compressValues = false.  Every operator is a pure   *)
(* function of the map and of the log entry's bytes, as hashicorp/raft     *)
(* calls Apply from a single goroutine.                                    *)
(***************************************************************************)
EXTENDS KVReference

(***************************************************************************)
(* New(): the keys below numInitKeys hold initValue, the others are absent.*)
(***************************************************************************)
New == [k \in Keys |-> IF k \in InitKeys THEN InitValue ELSE Absent]

\* Mutant: the ad-hoc format is taken for a command.
UnmarshalsAny(line) == line.kind # "blank"

\* proto.Unmarshal accepts what BroadcastProtobuf serialised.
Unmarshals(line) == line.kind = "proto"

\* Mutant: the key is stored in place of the value.
applySetKey(m, key, value) == [m EXCEPT ![key] = <<key>>]

applySet(m, key, value) == [m EXCEPT ![key] = value]

applyGet(m, key) == IF m[key] = Absent THEN EmptyStr ELSE m[key]

(***************************************************************************)
(* Apply: a line that does not unmarshal returns the error and leaves the  *)
(* map alone; the switch knows SET and GET, and panics on anything else.   *)
(***************************************************************************)
ApplyPanics(line) == Unmarshals(line) /\ line.cmd.op \notin {"set", "get"}

ApplyMap(m, line) ==
  IF Unmarshals(line) /\ line.cmd.op = "set"
  THEN applySet(m, line.cmd.key, line.cmd.val)
  ELSE m

\* An error, as opposed to a string, in the response of the future.
NoResponse == <<>>

ApplyResponse(m, line) ==
  IF ~Unmarshals(line) THEN NoResponse
  ELSE IF line.cmd.op = "get" THEN applyGet(m, line.cmd.key)
  ELSE EmptyStr

(***************************************************************************)
(* Apply returns Ip + "-" + out and Propose splits that on "-": the client *)
(* gets the piece after the first dash, which is out's first field.        *)
(***************************************************************************)
ReplyText(out) == <<Head(out)>>
=============================================================================
