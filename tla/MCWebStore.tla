----------------------------- MODULE MCWebStore -----------------------------
(***************************************************************************)
(* Small instances of WebStore for TLC.                                    *)
(***************************************************************************)
EXTENDS WebStore, TLC

Get(k) == [method |-> "GET", body |-> k :> EmptyString]
Delete(k) == [method |-> "DELETE", body |-> k :> EmptyString]

\* A read, a write of one key, a write of two keys, and a delete.
MCRequests == {Get("x"), [method |-> "POST", body |-> "x" :> "a" @@ "y" :> "a"], Delete("x")}
=============================================================================
