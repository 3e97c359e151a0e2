------------------------------ MODULE AtomicKV ------------------------------
(***************************************************************************)
(* What the clients of a key-value store would like to see: one map, and   *)
(* for each client one call at a time that takes effect at one moment      *)
(* between its invocation and its return.                                  *)
(***************************************************************************)
EXTENDS KVReference

VARIABLES
  mem,    \* the map
  stage,  \* stage[c]: "idle", "called", or "done" but not returned
  call,   \* call[c]: the latest command of c
  res     \* res[c]: the result of c's latest executed command

atomicVars == <<mem, stage, call, res>>

AtomicInit ==
  /\ mem = [k \in Keys |-> IF k \in InitKeys THEN InitValue ELSE Absent]
  /\ stage = [c \in Clients |-> "idle"]
  /\ call = [c \in Clients |-> CHOOSE x \in Commands : TRUE]
  /\ res = [c \in Clients |-> EmptyStr]

Invoke(c, x) ==
  /\ stage[c] = "idle"
  /\ stage' = [stage EXCEPT ![c] = "called"]
  /\ call' = [call EXCEPT ![c] = x]
  /\ UNCHANGED <<mem, res>>

Do(c) ==
  LET line == [kind |-> "proto", cmd |-> call[c]]
  IN /\ stage[c] = "called"
     /\ stage' = [stage EXCEPT ![c] = "done"]
     /\ mem' = Exec(mem, line)
     /\ res' = [res EXCEPT ![c] = Result(mem, line)]
     /\ UNCHANGED call

Return(c) ==
  /\ stage[c] = "done"
  /\ stage' = [stage EXCEPT ![c] = "idle"]
  /\ UNCHANGED <<mem, call, res>>

AtomicNext ==
  \E c \in Clients : (\E x \in Commands : Invoke(c, x)) \/ Do(c) \/ Return(c)

AtomicSpec == AtomicInit /\ [][AtomicNext]_atomicVars
=============================================================================
