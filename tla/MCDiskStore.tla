---------------------------- MODULE MCDiskStore ----------------------------
(***************************************************************************)
(* A small instance of DiskStore for TLC.                                  *)
(***************************************************************************)
EXTENDS DiskStore

\* A key of the file as deployed, one behind its end, whose get panics until
\* it is set, and a command on which Apply always panics.
MCCommands == [op: {"set", "get"}, key: {1, 2}] \cup {[op |-> "delete", key |-> 1]}
=============================================================================
