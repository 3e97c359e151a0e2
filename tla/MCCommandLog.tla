---------------------------- MODULE MCCommandLog ----------------------------
(***************************************************************************)
(* Small instances of CommandLog for TLC: a long record, a short one, and  *)
(* an entry in the ad-hoc format.                                          *)
(***************************************************************************)
EXTENDS CommandLog

MCInitValue == <<"!">>
MCValues == {<<"a">>, <<"b">>}

SetA == [op |-> "set", key |-> "k", val |-> <<"a">>]
SetB == [op |-> "set", key |-> "k", val |-> <<"b">>]
GetK == [op |-> "get", key |-> "k", val |-> EmptyStr]
GetJ == [op |-> "get", key |-> "j", val |-> EmptyStr]

MCCommands == {SetA, SetB, GetK, GetJ}
MCAdHoc == {GetJ}
=============================================================================
