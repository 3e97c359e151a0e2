---------------------------- MODULE KVReference ----------------------------
(***************************************************************************)
(* The data the key-value service moves around, and the reference meaning  *)
(* of its commands: "get", "set" and "delete" on a regular map, as         *)
(* README.md describes the application.  Nothing here is translated from   *)
(* the implementation of the operations; KVFsm is, and the properties      *)
(* compare the two.                                                        *)
(*                                                                         *)
(* A string is the sequence of the fields that the delimiter "-" separates *)
(* in it: the server joins and splits its answers on that delimiter.  So   *)
(* <<"a">> is a string without a dash, <<"a", "b">> is "a-b", and <<"">>   *)
(* is the empty string.                                                    *)
(***************************************************************************)
EXTENDS Naturals, Sequences

CONSTANTS
  Keys,       \* the keys of the store
  Values,     \* the values clients write (strings, as above)
  InitKeys,   \* the keys New() initialises
  InitValue,  \* the value New() gives them
  Clients,    \* the clients of the service
  Commands    \* the commands the clients send: a subset of Command

EmptyStr == <<"">>

\* A key that is not in the map.
Absent == <<>>

Strings == Values \cup {InitValue, EmptyStr}

\* A protobuf command: a get or a delete leaves the value field empty.
Command == [op: {"set", "get", "delete"}, key: Keys, val: Strings]

ASSUME ValuesAreStrings ==
  /\ \A v \in Strings : v \in Seq(STRING) /\ v # <<>>
  /\ InitKeys \subseteq Keys
  /\ Commands \subseteq Command
  /\ Commands # {}

\* The contents of a map[string][]byte.
Map == [Keys -> Strings \cup {Absent}]

(***************************************************************************)
(* A line a session reads from a client: a serialised command ("proto"),   *)
(* a request in the ad-hoc text format ("adhoc"), or a lone newline        *)
(* ("blank").  num is the client's own count of its requests; it is not in *)
(* the bytes sent.                                                         *)
(***************************************************************************)
Line == [from: Clients, num: Nat, kind: {"proto", "adhoc", "blank"}, cmd: Commands]

\* The map a request leaves behind; a line that is no command changes nothing.
Exec(m, line) ==
  [k \in Keys |->
     IF line.kind = "proto" /\ line.cmd.key = k /\ line.cmd.op = "set" THEN line.cmd.val
     ELSE IF line.kind = "proto" /\ line.cmd.key = k /\ line.cmd.op = "delete" THEN Absent
     ELSE m[k]]

\* What a request returns: a get the value read, the others the empty string.
Result(m, line) ==
  IF line.cmd.op = "get" /\ m[line.cmd.key] # Absent THEN m[line.cmd.key] ELSE EmptyStr
=============================================================================
