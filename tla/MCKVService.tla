---------------------------- MODULE MCKVService ----------------------------
(***************************************************************************)
(* Small instances of KVService for TLC.                                   *)
(***************************************************************************)
EXTENDS KVService, TLC

Set(k, v) == [op |-> "set", key |-> k, val |-> v]
Get(k) == [op |-> "get", key |-> k, val |-> EmptyStr]
Delete(k) == [op |-> "delete", key |-> k, val |-> EmptyStr]

MCInitValue == <<"!">>

PlainValues == {<<"a">>}
TwoValues == {<<"a">>, <<"b">>}

StableCommands == {Set("k", <<"a">>), Set("k", <<"b">>), Get("k")}
PlainCommands == {Set("k", <<"a">>), Get("k")}
FaultyCommands == {Set("k", <<"a">>), Get("k"), Delete("k")}
OnlyDelete == {Delete("k")}

\* Everybody sends everything.
AskAll == [c \in Clients |-> Commands]

\* One client sets or gets, another gets, and a third one's set is in the ad-hoc format.
AskStable ==
  [c \in Clients |-> CASE c = "writer" -> PlainCommands
                      [] c = "reader" -> {Get("k")}
                      [] c = "text" -> {Set("k", <<"b">>)}]
=============================================================================
