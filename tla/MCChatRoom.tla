----------------------------- MODULE MCChatRoom -----------------------------
(***************************************************************************)
(* Small instances of ChatRoom for TLC.                                    *)
(***************************************************************************)
EXTENDS ChatRoom

\* One user types a line and the other listens; one user types two lines.
OneLine == [c \in Clients |-> IF c = "ann" THEN 1 ELSE 0]
TwoLines == [c \in Clients |-> IF c = "ann" THEN 2 ELSE 0]
=============================================================================
