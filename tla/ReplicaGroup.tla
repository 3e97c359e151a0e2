---- MODULE ReplicaGroup ----
(***************************************************************************)
(* The replicas of a group, numbered in the order in which the clients'    *)
(* configuration (SvrIps) lists them.                                      *)
(***************************************************************************)
EXTENDS Naturals

CONSTANT N  \* number of replicas

ASSUME ClusterAssumption == N \in Nat \ {0}

Replicas == 1..N
====
