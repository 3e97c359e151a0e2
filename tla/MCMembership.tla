---------------------------- MODULE MCMembership ----------------------------
(***************************************************************************)
(* Small instances of Membership for TLC.                                  *)
(***************************************************************************)
EXTENDS Membership

\* Every address gives a name of its own.
NamesDiffer == [p \in Pods |-> p]

\* Two pods, in different subnets, have addresses with the same last part.
NamesCoincide == [p \in Pods |-> IF p \in {"p2", "p4"} THEN "node8" ELSE p]

\* All pods start at once; the first one leads before any other starts; one by one.
AtOnce == [p \in Pods |-> {}]
AfterFirst == [p \in Pods |-> {First} \ {p}]
OneByOne == [p \in Pods |-> CASE p = "p1" -> {}
                             [] p = "p2" -> {"p1"}
                             [] p = "p3" -> {"p1", "p2"}
                             [] p = "p4" -> {"p1", "p2", "p3"}]
=============================================================================
