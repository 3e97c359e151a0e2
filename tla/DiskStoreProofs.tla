-------------------------- MODULE DiskStoreProofs --------------------------
(***************************************************************************)
(* Proofs about DiskStore for every set of nodes and commands, every size  *)
(* of the values, of the file and of a machine integer, and every bound.   *)
(***************************************************************************)
EXTENDS DiskStore, OrderLemmas

-----------------------------------------------------------------------------
(* Lemmas on the file. *)

\* The remainder of a division, which is all that is used of it.
LEMMA Remainder == ASSUME NEW x \in Int, NEW m \in Nat, m > 0 PROVE x % m \in 0..m - 1
  OBVIOUS

\* An offset is an integer.
LEMMA StrideType == ASSUME NEW k \in Int PROVE Stride(k) \in Int
<1>1. ValueSize * k \in Int /\ Modulus \in Nat /\ Modulus > 0
  BY DiskAssumption DEF DiskAssumption
<1>2. PICK x \in 0..Modulus - 1 : x = (ValueSize * k) % Modulus
  BY <1>1, Remainder
<1>3. Stride(k) = IF 2 * x < Modulus THEN x ELSE x - Modulus
  BY <1>2 DEF Stride
<1> QED BY <1>1, <1>3

\* The cells of the value at key k.
Place(k) == {x \in Int : Stride(k) < x /\ x <= Stride(k) + ValueSize}

\* A set puts the stored value at its place, and leaves the rest as it was or zero.
LEMMA SetFile ==
  ASSUME NEW f \in Seq(Cells), NEW c \in Commands, ~SetFails(c.key), Len(f) <= MaxFile
  PROVE  LET g == applySet(f, c)
             end == Stride(c.key) + ValueSize
         IN /\ c.key \in Int /\ Stride(c.key) \in Int /\ 0 <= Stride(c.key) /\ end <= MaxFile
            /\ g \in Seq(Cells) /\ Len(g) = (IF end > Len(f) THEN end ELSE Len(f))
            /\ \A x \in 1..Len(g) :
                 g[x] = IF x \in Place(c.key) THEN "@" ELSE IF x <= Len(f) THEN f[x] ELSE "0"
<1> DEFINE at == Stride(c.key)
           len == IF at + ValueSize > Len(f) THEN at + ValueSize ELSE Len(f)
           g == applySet(f, c)
<1>1. c.key \in Int /\ ValueSize \in Nat /\ ValueSize > 0 /\ MaxFile \in Nat
  BY DiskAssumption DEF DiskAssumption, SetFails
<1>2. at \in Int /\ 0 <= at /\ at + ValueSize <= MaxFile
  <2>1. Stride(c.key) \in Int
    BY <1>1, StrideType
  <2>2. ~(Stride(c.key) < 0) /\ ~(Stride(c.key) + ValueSize > MaxFile)
    BY DEF SetFails
  <2> QED BY <1>1, <2>1, <2>2
<1> HIDE DEF at
<1>3. len \in Nat /\ Len(f) \in Nat /\ len >= Len(f)
  BY <1>1, <1>2
<1>4. g = [i \in 1..len |-> IF i > at /\ i <= at + ValueSize THEN storeValue[i - at]
                             ELSE IF i <= Len(f) THEN f[i] ELSE "0"]
  BY DEF applySet, at
<1> HIDE DEF len
<1>5. ASSUME NEW i \in 1..len
      PROVE  /\ g[i] = IF i \in Place(c.key) THEN "@" ELSE IF i <= Len(f) THEN f[i] ELSE "0"
             /\ g[i] \in Cells
  <2>1. i \in Int /\ i >= 1
    BY <1>3
  <2>2. i \in Place(c.key) <=> (i > at /\ i <= at + ValueSize)
    BY <1>2, <2>1 DEF Place, at
  <2>3. CASE i > at /\ i <= at + ValueSize
    <3>1. i - at \in 1..ValueSize
      BY <1>1, <1>2, <2>1, <2>3
    <3>2. storeValue[i - at] = "@"
      BY <3>1 DEF storeValue, Repeat
    <3> QED BY <1>4, <2>2, <2>3, <3>2 DEF Cells
  <2>4. CASE ~(i > at /\ i <= at + ValueSize)
    <3>1. i <= Len(f) => f[i] \in Cells
      BY <2>1
    <3> QED BY <1>4, <2>2, <2>4, <3>1 DEF Cells
  <2> QED BY <2>3, <2>4
<1>6. g \in Seq(Cells) /\ Len(g) = len
  BY <1>3, <1>4, <1>5
<1> QED BY <1>1, <1>2, <1>5, <1>6 DEF at, len

\* A get returns the cells of its place.
LEMMA GetText ==
  ASSUME NEW f \in Seq(Cells), NEW c \in Commands, ~GetFails(f, c.key)
  PROVE  /\ c.key \in Int /\ Stride(c.key) \in Int /\ 0 <= Stride(c.key) /\ Stride(c.key) + ValueSize <= Len(f)
         /\ applyGet(f, c) \in Seq(Cells)
         /\ \A x : (\A i \in 1..ValueSize : f[Stride(c.key) + i] = x) => applyGet(f, c) = Repeat(x)
<1> DEFINE at == Stride(c.key)
           t == SubSeq(f, at + 1, at + ValueSize)
<1>1. c.key \in Int /\ ValueSize \in Nat /\ ValueSize > 0
  BY DiskAssumption DEF DiskAssumption, GetFails
<1>2. at \in Int /\ 0 <= at /\ at + ValueSize <= Len(f) /\ Len(f) \in Nat
  <2>1. Stride(c.key) \in Int
    BY <1>1, StrideType
  <2>2. ~(Stride(c.key) < 0) /\ ~(Stride(c.key) + ValueSize > Len(f))
    BY DEF GetFails
  <2> QED BY <1>1, <2>1, <2>2
<1> HIDE DEF at
<1>3. \A i \in at + 1..at + ValueSize : f[i] \in Cells
  BY <1>1, <1>2
<1>4. /\ t \in Seq(Cells) /\ Len(t) = (IF at + 1 <= at + ValueSize THEN at + ValueSize - (at + 1) + 1 ELSE 0)
      /\ \A i \in 1..at + ValueSize - (at + 1) + 1 : t[i] = f[at + 1 + i - 1]
  BY <1>1, <1>2, <1>3, SubSeqProperties
<1> HIDE DEF t
<1>5. Len(t) = ValueSize /\ \A i \in 1..ValueSize : t[i] = f[at + i]
  BY <1>1, <1>2, <1>4
<1>6. ASSUME NEW x, \A i \in 1..ValueSize : f[at + i] = x PROVE t = Repeat(x)
  <2>1. t = [i \in 1..ValueSize |-> t[i]]
    BY <1>1, <1>4, <1>5
  <2>2. \A i \in 1..ValueSize : t[i] = x
    BY <1>5, <1>6
  <2> QED BY <2>1, <2>2 DEF Repeat
<1>7. applyGet(f, c) = t
  BY DEF applyGet, t, at
<1> QED BY <1>1, <1>2, <1>4, <1>6, <1>7 DEF at

-----------------------------------------------------------------------------
(* Types. *)

\* The types, with those that TypeOK says of each node only, and the bound of the log.
DiskTypes ==
  /\ TypeOK
  /\ applied \in [Nodes -> Nat] /\ file \in [Nodes -> Seq(Cells)]
  /\ Len(log) <= MaxLog

\* What the types say of one node.
LEMMA NodeTypes ==
  ASSUME DiskTypes, NEW n \in Nodes
  PROVE  /\ applied[n] \in Nat /\ applied[n] <= Len(log) /\ Len(log) \in Nat /\ DOMAIN log = 1..Len(log)
         /\ file[n] \in Seq(Cells) /\ Len(file[n]) \in Nat /\ FileSize <= Len(file[n]) /\ Len(file[n]) <= MaxFile
         /\ FileSize \in Nat /\ MaxFile \in Nat /\ ValueSize \in Nat /\ ValueSize > 0
  BY DiskAssumption DEF DiskAssumption, DiskTypes, TypeOK

\* An entry of the log, and its command.
LEMMA EntryTypes ==
  ASSUME DiskTypes, NEW i \in 1..Len(log)
  PROVE  /\ log[i] \in Entry /\ log[i].cmd \in Commands /\ log[i].by \in Nodes
         /\ log[i].cmd.op \in {"set", "get", "delete"}
         /\ log[i].after \subseteq [key: Keys, by: Nodes]
<1>1. log[i] \in Entry
  BY DEF DiskTypes, TypeOK
<1> QED BY <1>1, DiskAssumption DEF DiskAssumption, Entry

\* The entry that a node applies.
LEMMA NextType ==
  ASSUME DiskTypes, NEW n \in Nodes, HasNext(n)
  PROVE  /\ n \in up /\ NextIdx(n) \in 1..Len(log) /\ NextIdx(n) = applied[n] + 1
         /\ NextEntry(n) = log[NextIdx(n)] /\ NextEntry(n).cmd \in Commands /\ NextEntry(n).by \in Nodes
         /\ NextEntry(n).cmd.op \in {"set", "get", "delete"}
<1>1. n \in up /\ NextIdx(n) \in 1..Len(log) /\ NextIdx(n) = applied[n] + 1
  BY NodeTypes DEF HasNext, NextIdx
<1> QED BY <1>1, EntryTypes DEF NextEntry

\* What Apply makes of the file: a set's place is stored, and nothing else of it changes.
LEMMA ApplyFileStep ==
  ASSUME DiskTypes, NEW n \in Nodes, Apply(n)
  PROVE  LET c == NextEntry(n).cmd
             f == file[n]
             g == file'[n]
         IN /\ file' = [file EXCEPT ![n] = g]
            /\ g \in Seq(Cells) /\ Len(g) \in Nat /\ Len(f) <= Len(g) /\ Len(g) <= MaxFile
            /\ c.op = "set" => /\ ~SetFails(c.key) /\ c.key \in Int /\ Stride(c.key) \in Int /\ 0 <= Stride(c.key)
                               /\ Len(g) = (IF Stride(c.key) + ValueSize > Len(f) THEN Stride(c.key) + ValueSize ELSE Len(f))
                               /\ \A x \in 1..Len(g) : g[x] = IF x \in Place(c.key) THEN "@"
                                                              ELSE IF x <= Len(f) THEN f[x] ELSE "0"
            /\ c.op # "set" => g = f /\ c.op = "get" /\ ~GetFails(f, c.key)
            /\ ApplyResponse(f, c) \in Seq(Cells)
<1> DEFINE c == NextEntry(n).cmd
           f == file[n]
           g == file'[n]
<1>1. /\ HasNext(n) /\ c \notin Panicking(f) /\ file' = [file EXCEPT ![n] = ApplyFile(f, c)]
  BY DEF Apply
<1>2. /\ c \in Commands /\ c.op \in {"set", "get", "delete"} /\ f \in Seq(Cells)
      /\ Len(f) \in Nat /\ Len(f) <= MaxFile /\ MaxFile \in Nat /\ ValueSize \in Nat
  BY <1>1, NextType, NodeTypes
<1>3. c.op # "delete" /\ (c.op = "set" => ~SetFails(c.key)) /\ (c.op = "get" => ~GetFails(f, c.key))
  BY <1>1, <1>2 DEF Panicking
<1>4. g = ApplyFile(f, c) /\ file' = [file EXCEPT ![n] = g]
  BY <1>1 DEF DiskTypes
<1> HIDE DEF c, f, g
<1>5. CASE c.op = "set"
  <2>1. g = applySet(f, c) /\ ApplyResponse(f, c) = <<>>
    BY <1>4, <1>5 DEF ApplyFile, ApplyResponse
  <2> DEFINE end == Stride(c.key) + ValueSize
  <2>2. /\ c.key \in Int /\ Stride(c.key) \in Int /\ 0 <= Stride(c.key) /\ end <= MaxFile
        /\ g \in Seq(Cells) /\ Len(g) = (IF end > Len(f) THEN end ELSE Len(f))
        /\ \A x \in 1..Len(g) : g[x] = IF x \in Place(c.key) THEN "@" ELSE IF x <= Len(f) THEN f[x] ELSE "0"
    BY <1>2, <1>3, <1>5, <2>1, SetFile
  <2>3. Len(g) \in Nat /\ Len(f) <= Len(g) /\ Len(g) <= MaxFile
    BY <1>2, <2>2
  <2> QED BY <1>3, <1>4, <1>5, <2>1, <2>2, <2>3 DEF c, f, g
<1>6. CASE c.op # "set"
  <2>1. g = f /\ c.op = "get" /\ ~GetFails(f, c.key) /\ ApplyResponse(f, c) = applyGet(f, c)
    BY <1>2, <1>3, <1>4, <1>6 DEF ApplyFile, ApplyResponse
  <2>2. applyGet(f, c) \in Seq(Cells)
    BY <1>2, <2>1, GetText
  <2> QED BY <1>2, <1>4, <1>6, <2>1, <2>2 DEF c, f, g
<1> QED BY <1>5, <1>6

\* What Apply does to the rest.
LEMMA ApplyRest ==
  ASSUME DiskTypes, NEW n \in Nodes, Apply(n)
  PROVE  LET i == applied[n] + 1
             r == [group |-> groups, idx |-> i, entry |-> log[i], text |-> ApplyResponse(file[n], log[i].cmd)]
         IN /\ n \in up /\ i \in 1..Len(log) /\ NextEntry(n) = log[i]
            /\ applied' = [applied EXCEPT ![n] = i] /\ UNCHANGED <<log, up, crashes, groups>>
            /\ futures' = IF log[i].by = n THEN futures \ {i} ELSE futures
            /\ replies' = (IF log[i].by = n /\ i \in futures THEN replies \cup {r} ELSE replies)
            /\ r \in Reply
<1>1. HasNext(n)
  BY DEF Apply
<1>2. NextIdx(n) = applied[n] + 1 /\ NextIdx(n) \in 1..Len(log) /\ n \in up /\ NextEntry(n) = log[applied[n] + 1]
  BY <1>1, NextType
<1> DEFINE i == applied[n] + 1
           r == [group |-> groups, idx |-> i, entry |-> log[i], text |-> ApplyResponse(file[n], log[i].cmd)]
<1>3. ApplyResponse(file[n], log[i].cmd) \in Seq(Cells)
  BY <1>2, ApplyFileStep
<1>4. groups \in 0..MaxGroups /\ i \in 1..MaxLog /\ log[i] \in Entry
  BY <1>2, EntryTypes, DiskAssumption DEF DiskTypes, TypeOK, DiskAssumption
<1>5. r \in Reply
  BY <1>3, <1>4 DEF Reply
<1>6. /\ applied' = [applied EXCEPT ![n] = i] /\ UNCHANGED <<log, up, crashes, groups>>
      /\ futures' = IF log[i].by = n THEN futures \ {i} ELSE futures
      /\ replies' = IF log[i].by = n /\ i \in futures THEN replies \cup {r} ELSE replies
  BY <1>2 DEF Apply
<1> QED BY <1>2, <1>5, <1>6

\* The store opens in its types.
LEMMA DiskInitTypes == Init => DiskTypes
<1> SUFFICES ASSUME Init PROVE DiskTypes
  OBVIOUS
<1>1. /\ MaxLog \in Nat /\ MaxCrashes \in Nat /\ MaxGroups \in Nat /\ FileSize \in Nat /\ MaxFile \in Nat
      /\ FileSize <= MaxFile
  BY DiskAssumption DEF DiskAssumption
<1>2. [i \in 1..FileSize |-> "0"] \in Seq(Cells) /\ Len([i \in 1..FileSize |-> "0"]) = FileSize
  BY <1>1 DEF Cells
<1>3. log = <<>> /\ log \in Seq(Entry) /\ Len(log) = 0
  BY DEF Init
<1>4. applied \in [Nodes -> Nat] /\ file \in [Nodes -> Seq(Cells)]
      /\ \A n \in Nodes : applied[n] = 0 /\ file[n] = [i \in 1..FileSize |-> "0"]
  BY <1>2 DEF Init, Deployed
<1> QED BY <1>1, <1>2, <1>3, <1>4 DEF Init, DiskTypes, TypeOK

\* Every step keeps the types.
LEMMA DiskTypesStep == ASSUME DiskTypes, [Next]_vars PROVE DiskTypes'
<1>0. /\ log \in Seq(Entry) /\ up \in SUBSET Nodes /\ replies \in SUBSET Reply /\ crashes \in 0..MaxCrashes
      /\ groups \in 0..MaxGroups /\ MaxCrashes \in Nat /\ MaxGroups \in Nat /\ MaxLog \in Nat
      /\ Len(log) \in Nat /\ DOMAIN log = 1..Len(log)
      /\ applied \in [Nodes -> Nat] /\ file \in [Nodes -> Seq(Cells)]
      /\ \A n \in Nodes : n \notin up => applied[n] = 0
      /\ \A i \in futures : i \in DOMAIN log /\ log[i].by \in up /\ i > applied[log[i].by]
      /\ \A n \in Nodes : applied[n] <= Len(log)
  BY DiskAssumption, NodeTypes DEF DiskAssumption, DiskTypes, TypeOK
<1>1. ASSUME NEW n \in Nodes, NEW c \in Commands, Propose(n, c) PROVE DiskTypes'
  <2> DEFINE e == [cmd |-> c, by |-> n, after |-> Acked]
  <2>1. Acked \subseteq [key: Keys, by: Nodes]
    <3>1. \A r \in replies : r.entry.cmd \in Commands /\ r.entry.by \in Nodes
      BY <1>0 DEF Reply, Entry
    <3> QED BY <3>1 DEF Acked, Keys
  <2>2. e \in Entry
    BY <2>1 DEF Entry
  <2>3. log' = Append(log, e) /\ n \in up /\ futures' = futures \cup {Len(log) + 1} /\ Len(log) < MaxLog
        /\ UNCHANGED <<up, applied, file, replies, crashes, groups>>
    BY <1>1 DEF Propose
  <2> HIDE DEF e
  <2>4. /\ log' \in Seq(Entry) /\ Len(log') = Len(log) + 1 /\ DOMAIN log' = 1..Len(log) + 1
        /\ log'[Len(log) + 1] = e /\ \A i \in 1..Len(log) : log'[i] = log[i]
    BY <1>0, <2>2, <2>3
  <2>5. \A i \in futures' : i \in DOMAIN log' /\ log'[i].by \in up' /\ i > applied'[log'[i].by]
    <3>1. e.by = n
      BY DEF e
    <3>2. ASSUME NEW i \in futures PROVE i \in DOMAIN log' /\ log'[i].by \in up' /\ i > applied'[log'[i].by]
      BY <1>0, <2>3, <2>4
    <3>3. Len(log) + 1 \in DOMAIN log' /\ n \in up' /\ Len(log) + 1 > applied'[n]
      BY <1>0, <2>3, <2>4
    <3> QED BY <2>3, <2>4, <3>1, <3>2, <3>3
  <2>6. \A m \in Nodes : applied'[m] \in 0..Len(log') /\ (m \notin up' => applied'[m] = 0)
    BY <1>0, <2>3, <2>4
  <2> QED BY <1>0, <2>3, <2>4, <2>5, <2>6, NodeTypes DEF DiskTypes, TypeOK
<1>2. ASSUME NEW n \in Nodes, Apply(n) PROVE DiskTypes'
  <2> DEFINE i == applied[n] + 1
  <2>1. /\ n \in up /\ i \in 1..Len(log)
        /\ applied' = [applied EXCEPT ![n] = i] /\ UNCHANGED <<log, up, crashes, groups>>
        /\ futures' = (IF log[i].by = n THEN futures \ {i} ELSE futures)
        /\ replies' \in SUBSET Reply
    <3> DEFINE r == [group |-> groups, idx |-> i, entry |-> log[i], text |-> ApplyResponse(file[n], log[i].cmd)]
    <3>1. /\ n \in up /\ i \in 1..Len(log)
          /\ applied' = [applied EXCEPT ![n] = i] /\ UNCHANGED <<log, up, crashes, groups>>
          /\ futures' = (IF log[i].by = n THEN futures \ {i} ELSE futures)
      BY <1>2, ApplyRest
    <3>2. replies' = (IF log[i].by = n /\ i \in futures THEN replies \cup {r} ELSE replies) /\ r \in Reply
      BY <1>2, ApplyRest
    <3>3. replies' \in SUBSET Reply
      BY <1>0, <3>2
    <3> QED BY <3>1, <3>3
  <2>2. /\ file' \in [Nodes -> Seq(Cells)]
        /\ \A m \in Nodes : Len(file'[m]) \in Nat /\ Len(file'[m]) >= FileSize /\ Len(file'[m]) <= MaxFile
    <3>1. /\ file' = [file EXCEPT ![n] = file'[n]]
          /\ file'[n] \in Seq(Cells) /\ Len(file'[n]) \in Nat /\ Len(file[n]) <= Len(file'[n]) /\ Len(file'[n]) <= MaxFile
      BY <1>2, ApplyFileStep
    <3>2. file' \in [Nodes -> Seq(Cells)]
      BY <1>0, <3>1
    <3>3. ASSUME NEW m \in Nodes PROVE Len(file'[m]) \in Nat /\ Len(file'[m]) >= FileSize /\ Len(file'[m]) <= MaxFile
      <4>1. CASE m = n
        BY <3>1, <4>1, NodeTypes
      <4>2. CASE m # n
        <5>1. file'[m] = file[m]
          BY <1>0, <3>1, <4>2
        <5> QED BY <5>1, NodeTypes
      <4> QED BY <4>1, <4>2
    <3> QED BY <3>2, <3>3
  <2>3. \A m \in Nodes : applied'[m] = IF m = n THEN i ELSE applied[m]
    BY <1>0, <2>1
  <2>4. ASSUME NEW j \in futures' PROVE j \in DOMAIN log' /\ log'[j].by \in up' /\ j > applied'[log'[j].by]
    <3>1. j \in futures /\ (log[i].by = n => j # i) /\ j \in 1..Len(log) /\ log[j].by \in up /\ j > applied[log[j].by]
      BY <1>0, <2>1
    <3>2. log[j].by = n => j # i
      BY <3>1
    <3>3. j > applied'[log[j].by]
      BY <1>0, <2>1, <2>3, <3>1, <3>2
    <3> QED BY <2>1, <3>1, <3>3
  <2>5. applied' \in [Nodes -> Nat] /\ \A m \in Nodes : applied'[m] \in 0..Len(log') /\ (m \notin up' => applied'[m] = 0)
    BY <1>0, <2>1, <2>3
  <2> QED BY <1>0, <2>1, <2>2, <2>4, <2>5 DEF DiskTypes, TypeOK
<1>3. ASSUME NEW n \in Nodes, Die(n), crashes' \in 0..MaxCrashes PROVE DiskTypes'
  <2>1. /\ up' = up \ {n} /\ applied' = [applied EXCEPT ![n] = 0] /\ futures' = {i \in futures : log[i].by # n}
        /\ UNCHANGED <<log, file, replies, groups>>
    BY <1>3 DEF Die
  <2>2. \A m \in Nodes : applied'[m] = IF m = n THEN 0 ELSE applied[m]
    BY <1>0, <2>1
  <2>3. \A j \in futures' : j \in DOMAIN log' /\ log'[j].by \in up' /\ j > applied'[log'[j].by]
    BY <1>0, <2>1, <2>2
  <2>4. applied' \in [Nodes -> Nat] /\ \A m \in Nodes : applied'[m] \in 0..Len(log') /\ (m \notin up' => applied'[m] = 0)
    BY <1>0, <2>1, <2>2
  <2> QED BY <1>0, <1>3, <2>1, <2>3, <2>4, NodeTypes DEF DiskTypes, TypeOK
<1>4. ASSUME NEW n \in Nodes, ApplyPanic(n) \/ Crash(n) PROVE Die(n) /\ crashes' \in 0..MaxCrashes
  BY <1>0, <1>4 DEF ApplyPanic, Crash
<1>5. ASSUME NEW n \in Nodes, Restart(n) PROVE DiskTypes'
  <2>1. \A m \in Nodes : m \notin up' => applied[m] = 0
    BY <1>0, <1>5 DEF Restart
  <2> QED BY <1>0, <1>5, <2>1, NodeTypes DEF Restart, DiskTypes, TypeOK
<1>6. CASE GroupRestart
  <2>1. log' = <<>> /\ Len(log') = 0 /\ log' \in Seq(Entry) /\ groups' \in 0..MaxGroups
    BY <1>0, <1>6 DEF GroupRestart
  <2> QED BY <1>0, <1>6, <2>1, NodeTypes DEF GroupRestart, DiskTypes, TypeOK
<1>7. CASE UNCHANGED vars
  BY <1>7 DEF vars, DiskTypes, TypeOK
<1> QED BY <1>1, <1>2, <1>3, <1>4, <1>5, <1>6, <1>7 DEF Next

\* The types are an inductive invariant.
THEOREM DiskTypeCorrect == Spec => []TypeOK
<1>1. Spec => []DiskTypes
  BY DiskInitTypes, DiskTypesStep, PTL DEF Spec
<1>2. DiskTypes => TypeOK
  BY DEF DiskTypes
<1> QED BY <1>1, <1>2, PTL

-----------------------------------------------------------------------------
(* The file and the log, while the group lives. *)

IsSet(i) == log[i].cmd.op = "set"

\* The file that the log leaves before entry i does not make Apply panic on it.
Doable(i) ==
  LET c == log[i].cmd IN
  /\ c.op # "delete"
  /\ c.op = "set" => ~SetFails(c.key)
  /\ c.op = "get" =>
       /\ c.key # NotANumber /\ 0 <= Stride(c.key)
       /\ \/ Stride(c.key) + ValueSize <= FileSize
          \/ \E j \in 1..i - 1 : IsSet(j) /\ Stride(c.key) <= Stride(log[j].cmd.key)

(***************************************************************************)
(* In all its lives n has applied the first h entries, and no more: its    *)
(* file is as long as they make it, and nothing else is stored in it.      *)
(***************************************************************************)
Reached(n, h) ==
  /\ \A i \in 1..h : Doable(i)
  /\ \/ Len(file[n]) = FileSize
     \/ \E j \in 1..h : IsSet(j) /\ Len(file[n]) = Stride(log[j].cmd.key) + ValueSize
  /\ \A x \in 1..Len(file[n]) : file[n][x] = "@" => \E j \in 1..h : IsSet(j) /\ x \in Place(log[j].cmd.key)
  /\ \A i \in futures : log[i].by = n => i > h

\* The value at key k is stored in n's file.
Stored(n, k) == \A x \in Place(k) : x \in 1..Len(file[n]) /\ file[n][x] = "@"

\* It holds what n has applied in this life, and nothing that n has never applied.
FileOf(n) ==
  /\ \A j \in 1..applied[n] : IsSet(j) => Stored(n, log[j].cmd.key)
  /\ \E h \in applied[n]..Len(log) : Reached(n, h)

\* So does every file, until the group restarts on files that an earlier log left.
FileInv == groups = 0 => \A n \in Nodes : FileOf(n)

\* What is promised of sets that were replied to.
OwnInv ==
  /\ \A a \in Acked : Stored(a.by, a.key)
  /\ \A i \in DOMAIN log : log[i].after \subseteq Acked
  /\ OwnSetsSurvive

\* An entry that could be applied still can.
LEMMA DoableStays ==
  ASSUME NEW i \in Nat, i >= 1, Doable(i), \A j \in 1..i : log'[j] = log[j]
  PROVE  Doable(i)'
<1>1. log'[i] = log[i] /\ \A j \in 1..i - 1 : log'[j] = log[j]
  OBVIOUS
<1> QED BY <1>1 DEF Doable, IsSet

\* A node to which nothing happens, while the log at most grows.
LEMMA ReachedStays ==
  ASSUME NEW n, NEW h \in Nat, Reached(n, h), \A j \in 1..h : log'[j] = log[j], file'[n] = file[n],
         \A i \in futures' : log'[i].by = n => i > h
  PROVE  Reached(n, h)'
<1>1. ASSUME NEW i \in 1..h PROVE Doable(i)'
  <2>1. i \in Nat /\ i >= 1 /\ \A j \in 1..i : j \in 1..h
    OBVIOUS
  <2> QED BY <2>1, DoableStays DEF Reached
<1>2. \A j \in 1..h : IsSet(j) => IsSet(j)' /\ log'[j].cmd.key = log[j].cmd.key
  BY DEF IsSet
<1>3. \/ Len(file'[n]) = FileSize
      \/ \E j \in 1..h : IsSet(j)' /\ Len(file'[n]) = Stride(log'[j].cmd.key) + ValueSize
  BY <1>2 DEF Reached
<1>4. \A x \in 1..Len(file'[n]) : file'[n][x] = "@" => \E j \in 1..h : IsSet(j)' /\ x \in Place(log'[j].cmd.key)
  BY <1>2 DEF Reached
<1> QED BY <1>1, <1>3, <1>4 DEF Reached

\* The same, of the entry i that is applied.
LEMMA ApplyNext ==
  ASSUME DiskTypes, NEW n \in Nodes, Apply(n), NEW i, i = applied[n] + 1
  PROVE  /\ n \in up /\ i \in Nat /\ i >= 1 /\ i \in 1..Len(log) /\ NextEntry(n) = log[i]
         /\ log' = log /\ groups' = groups /\ applied' = [applied EXCEPT ![n] = i]
         /\ futures' = (IF log[i].by = n THEN futures \ {i} ELSE futures)
         /\ log[i].cmd \in Commands /\ log[i].cmd.op \in {"set", "get", "delete"} /\ log[i].by \in Nodes
<1>1. /\ n \in up /\ i \in 1..Len(log) /\ NextEntry(n) = log[i]
      /\ applied' = [applied EXCEPT ![n] = i] /\ UNCHANGED <<log, up, crashes, groups>>
      /\ futures' = (IF log[i].by = n THEN futures \ {i} ELSE futures)
  BY ApplyRest
<1>2. i \in Nat /\ i >= 1
  BY NodeTypes
<1>3. log[i].cmd \in Commands /\ log[i].cmd.op \in {"set", "get", "delete"} /\ log[i].by \in Nodes
  BY <1>1, EntryTypes
<1> QED BY <1>1, <1>2, <1>3

\* The next entry is the one after the last that n has ever applied, or one of those.
LEMMA NextDoable ==
  ASSUME DiskTypes, NEW n \in Nodes, Apply(n), NEW h \in applied[n]..Len(log), Reached(n, h),
         NEW i, i = applied[n] + 1
  PROVE  Doable(i) /\ h \in Nat /\ (i <= h \/ i = h + 1)
<1> DEFINE c == log[i].cmd
<1>1. i \in 1..Len(log) /\ i \in Nat /\ i >= 1 /\ NextEntry(n) = log[i] /\ c \in Commands
      /\ c.op \in {"set", "get", "delete"}
  BY ApplyNext
<1>2. h \in Nat /\ h <= Len(log) /\ Len(log) \in Nat /\ (i <= h \/ i = h + 1)
  BY NodeTypes
<1>3. CASE i <= h
  BY <1>1, <1>2, <1>3 DEF Reached
<1>4. CASE i = h + 1
  <2>1. NextEntry(n).cmd = c
    BY <1>1
  <2>2. /\ c.op = "set" => ~SetFails(c.key)
        /\ c.op # "set" => c.op = "get" /\ ~GetFails(file[n], c.key)
    BY <2>1, ApplyFileStep
  <2> HIDE DEF c
  <2>3. ASSUME c.op = "get"
        PROVE  /\ c.key # NotANumber /\ 0 <= Stride(c.key)
               /\ \/ Stride(c.key) + ValueSize <= FileSize
                  \/ \E j \in 1..i - 1 : IsSet(j) /\ Stride(c.key) <= Stride(log[j].cmd.key)
    <3>1. /\ c.key # NotANumber
          /\ Stride(c.key) \in Int /\ 0 <= Stride(c.key) /\ Stride(c.key) + ValueSize <= Len(file[n])
      <4>1. file[n] \in Seq(Cells) /\ ~GetFails(file[n], c.key)
        BY <2>2, <2>3, NodeTypes
      <4> QED BY <1>1, <4>1, GetText DEF GetFails
    <3>2. CASE Len(file[n]) = FileSize
      BY <3>1, <3>2
    <3>3. ASSUME NEW j \in 1..h, IsSet(j), Len(file[n]) = Stride(log[j].cmd.key) + ValueSize
          PROVE  Stride(c.key) <= Stride(log[j].cmd.key) /\ j \in 1..i - 1
      <4>1. j \in 1..Len(log) /\ j \in 1..i - 1
        BY <1>1, <1>2, <1>4
      <4>2. ~SetFails(log[j].cmd.key)
        BY <3>3 DEF Reached, Doable, IsSet
      <4>3. Stride(log[j].cmd.key) \in Int
        BY <4>1, <4>2, EntryTypes, DiskAssumption, StrideType DEF SetFails, DiskAssumption
      <4>4. ValueSize \in Nat
        BY NodeTypes
      <4> QED BY <3>1, <3>3, <4>1, <4>3, <4>4
    <3> QED BY <3>1, <3>2, <3>3 DEF Reached
  <2>4. Doable(i)
    BY <1>1, <2>2, <2>3 DEF Doable, c
  <2> QED BY <1>2, <2>4
<1> QED BY <1>2, <1>3, <1>4

\* What is stored stays stored, and a set that is applied is.
LEMMA ApplyStored ==
  ASSUME DiskTypes, NEW n \in Nodes, Apply(n)
  PROVE  /\ \A x \in 1..Len(file[n]) : x \in 1..Len(file'[n]) /\ (file[n][x] = "@" => file'[n][x] = "@")
         /\ NextEntry(n).cmd.op = "set" =>
              \A x \in Place(NextEntry(n).cmd.key) : x \in 1..Len(file'[n]) /\ file'[n][x] = "@"
<1> DEFINE c == NextEntry(n).cmd
           f == file[n]
           g == file'[n]
<1>0. /\ g \in Seq(Cells) /\ Len(g) \in Nat /\ Len(f) \in Nat /\ Len(f) <= Len(g) /\ ValueSize \in Nat
      /\ c.op = "set" => /\ Stride(c.key) \in Int /\ 0 <= Stride(c.key)
                         /\ Len(g) = (IF Stride(c.key) + ValueSize > Len(f) THEN Stride(c.key) + ValueSize ELSE Len(f))
                         /\ \A x \in 1..Len(g) : g[x] = IF x \in Place(c.key) THEN "@"
                                                        ELSE IF x <= Len(f) THEN f[x] ELSE "0"
      /\ c.op # "set" => g = f
  BY ApplyFileStep, NodeTypes
<1> HIDE DEF c, f, g
<1>1. ASSUME NEW x \in 1..Len(f) PROVE x \in 1..Len(g) /\ (f[x] = "@" => g[x] = "@")
  <2>1. x \in 1..Len(g) /\ x <= Len(f)
    BY <1>0
  <2> QED BY <1>0, <2>1
<1>2. ASSUME c.op = "set", NEW x \in Place(c.key) PROVE x \in 1..Len(g) /\ g[x] = "@"
  <2>1. x \in Int /\ Stride(c.key) < x /\ x <= Stride(c.key) + ValueSize
    BY DEF Place
  <2>2. x \in 1..Len(g)
    BY <1>0, <1>2, <2>1
  <2> QED BY <1>0, <1>2, <2>2
<1> QED BY <1>1, <1>2 DEF c, f, g

\* One application takes the file to the next entry, or leaves it where it has been already.
LEMMA ReachedNext ==
  ASSUME DiskTypes, NEW n \in Nodes, Apply(n), NEW h \in applied[n]..Len(log), Reached(n, h)
  PROVE  \E k \in applied[n] + 1..Len(log) : Reached(n, k)'
<1>a. PICK i : i = applied[n] + 1
  OBVIOUS
<1>b. PICK k : k = IF i <= h THEN h ELSE i
  OBVIOUS
<1> DEFINE c == log[i].cmd
           f == file[n]
           g == file'[n]
<1>0. /\ i \in 1..Len(log) /\ i \in Nat /\ i >= 1 /\ NextEntry(n) = log[i] /\ log' = log
      /\ futures' = (IF log[i].by = n THEN futures \ {i} ELSE futures)
  BY <1>a, ApplyNext
<1>1. h \in Nat /\ h <= Len(log) /\ Len(log) \in Nat
  BY NodeTypes
<1>2. Doable(i) /\ (i <= h \/ i = h + 1)
  BY <1>a, NextDoable
<1>3. /\ k \in i..Len(log) /\ k \in 1..Len(log) /\ k \in Nat /\ h <= k /\ i <= k
      /\ \A j \in 1..k : j \in 1..h \/ (j = i /\ h < i)
      /\ i \in 1..k /\ \A j \in 1..h : j \in 1..k
  BY <1>b, <1>0, <1>1, <1>2
<1>4. /\ c.op = "set" => /\ Stride(c.key) \in Int
                         /\ Len(g) = (IF Stride(c.key) + ValueSize > Len(f) THEN Stride(c.key) + ValueSize ELSE Len(f))
                         /\ \A x \in 1..Len(g) : g[x] = IF x \in Place(c.key) THEN "@"
                                                        ELSE IF x <= Len(f) THEN f[x] ELSE "0"
      /\ c.op # "set" => g = f
  <2>1. NextEntry(n).cmd = c
    BY <1>0
  <2> HIDE DEF c
  <2> QED BY <2>1, ApplyFileStep
<1>5. Len(g) \in Nat /\ Len(f) \in Nat
  BY ApplyFileStep, NodeTypes
<1> HIDE DEF c, f, g
<1>6. \A j \in 1..k : Doable(j)'
  <2>1. ASSUME NEW j \in 1..k PROVE Doable(j)'
    <3>1. j \in Nat /\ j >= 1
      BY <1>3
    <3>2. Doable(j)
      BY <1>2, <1>3 DEF Reached
    <3> QED BY <1>0, <3>1, <3>2, DoableStays
  <2> QED BY <2>1
<1>7. Len(g) = FileSize \/ \E j \in 1..k : IsSet(j) /\ Len(g) = Stride(log[j].cmd.key) + ValueSize
  <2>1. CASE Len(g) = Len(f)
    BY <1>3, <2>1 DEF Reached, f
  <2>2. CASE Len(g) # Len(f)
    <3>1. c.op = "set" /\ Len(g) = Stride(c.key) + ValueSize
      BY <1>4, <1>5, <2>2
    <3> QED BY <1>3, <3>1 DEF IsSet, c
  <2> QED BY <2>1, <2>2
<1>8. ASSUME NEW x \in 1..Len(g), g[x] = "@" PROVE \E j \in 1..k : IsSet(j) /\ x \in Place(log[j].cmd.key)
  <2>1. CASE c.op = "set" /\ x \in Place(c.key)
    BY <1>3, <2>1 DEF IsSet, c
  <2>2. CASE ~(c.op = "set" /\ x \in Place(c.key))
    <3>1. x \in 1..Len(f) /\ f[x] = "@"
      BY <1>4, <1>5, <1>8, <2>2
    <3>2. PICK j \in 1..h : IsSet(j) /\ x \in Place(log[j].cmd.key)
      BY <3>1 DEF Reached, f
    <3> QED BY <1>3, <3>2
  <2> QED BY <2>1, <2>2
<1>9. ASSUME NEW j \in futures', log'[j].by = n PROVE j > k
  <2>1. j \in futures /\ log[j].by = n /\ j # i
    BY <1>0, <1>9
  <2>2. j > h /\ j \in 1..Len(log)
    BY <2>1 DEF Reached, DiskTypes, TypeOK
  <2> QED BY <1>b, <1>0, <1>1, <1>2, <2>1, <2>2
<1>10. \A j : IsSet(j)' <=> IsSet(j)
  BY <1>0 DEF IsSet
<1>11. /\ Len(file'[n]) = FileSize \/ \E j \in 1..k : IsSet(j)' /\ Len(file'[n]) = Stride(log'[j].cmd.key) + ValueSize
       /\ \A x \in 1..Len(file'[n]) : file'[n][x] = "@" => \E j \in 1..k : IsSet(j)' /\ x \in Place(log'[j].cmd.key)
  BY <1>0, <1>7, <1>8, <1>10 DEF g
<1>12. Reached(n, k)'
  BY <1>6, <1>9, <1>11 DEF Reached
<1> QED BY <1>a, <1>3, <1>12
\* Whatever else happens, a node that does not apply keeps its file, though it may start over.
LEMMA FileStays ==
  ASSUME DiskTypes, NEW n \in Nodes, FileOf(n), file'[n] = file[n], applied'[n] = applied[n] \/ applied'[n] = 0,
         Len(log') \in Nat, Len(log) <= Len(log'), \A j \in 1..Len(log) : log'[j] = log[j],
         \A i \in futures' : i \in futures \/ (i \in Nat /\ i > Len(log))
  PROVE  FileOf(n)'
<1>1. applied[n] \in Nat /\ applied[n] <= Len(log) /\ Len(log) \in Nat
  BY NodeTypes
<1>2. PICK h \in applied[n]..Len(log) : Reached(n, h)
  BY DEF FileOf
<1>3. h \in Nat /\ h <= Len(log) /\ h \in applied'[n]..Len(log') /\ \A j \in 1..h : log'[j] = log[j]
  BY <1>1
<1>4. ASSUME NEW i \in futures', log'[i].by = n PROVE i > h
  <2>1. CASE i \in futures
    <3>1. i \in 1..Len(log)
      BY <2>1 DEF DiskTypes, TypeOK
    <3>2. log[i].by = n
      BY <1>4, <3>1
    <3> QED BY <1>2, <2>1, <3>2 DEF Reached
  <2>2. CASE i \in Nat /\ i > Len(log)
    BY <1>3, <1>1, <2>2
  <2> QED BY <2>1, <2>2
<1>5. Reached(n, h)'
  BY <1>2, <1>3, <1>4, ReachedStays
<1>6. ASSUME NEW j \in 1..applied'[n], IsSet(j)' PROVE (Stored(n, log[j].cmd.key))'
  <2>1. j \in 1..applied[n] /\ j \in 1..Len(log)
    BY <1>1
  <2>2. log'[j] = log[j] /\ IsSet(j)
    BY <1>6, <2>1 DEF IsSet
  <2>3. Stored(n, log[j].cmd.key)
    BY <2>1, <2>2 DEF FileOf
  <2> QED BY <2>2, <2>3 DEF Stored
<1> QED BY <1>3, <1>5, <1>6 DEF FileOf

\* A node that applies an entry.
LEMMA FileApplies ==
  ASSUME DiskTypes, NEW n \in Nodes, FileOf(n), Apply(n)
  PROVE  FileOf(n)'
<1>a. PICK i : i = applied[n] + 1
  OBVIOUS
<1>1. /\ i \in Nat /\ i >= 1 /\ NextEntry(n) = log[i] /\ log' = log /\ applied'[n] = i
  BY <1>a, ApplyNext DEF DiskTypes
<1>2. \E k \in applied'[n]..Len(log') : Reached(n, k)'
  <2>1. PICK h \in applied[n]..Len(log) : Reached(n, h)
    BY DEF FileOf
  <2>2. PICK k \in applied[n] + 1..Len(log) : Reached(n, k)'
    BY <2>1, ReachedNext
  <2> QED BY <1>a, <1>1, <2>2
<1>3. ASSUME NEW j \in 1..applied'[n], IsSet(j)' PROVE (Stored(n, log[j].cmd.key))'
  <2>1. log[j].cmd.op = "set" /\ log'[j] = log[j] /\ (j = i \/ j \in 1..applied[n])
    BY <1>a, <1>1, <1>3, NodeTypes DEF IsSet
  <2>2. CASE j = i
    <3>1. \A x \in Place(log[j].cmd.key) : x \in 1..Len(file'[n]) /\ file'[n][x] = "@"
      BY <1>1, <2>1, <2>2, ApplyStored
    <3> QED BY <2>1, <3>1 DEF Stored, Place, Stride
  <2>3. CASE j \in 1..applied[n]
    <3>1. Stored(n, log[j].cmd.key)
      BY <2>1, <2>3 DEF FileOf, IsSet
    <3>2. \A x \in Place(log[j].cmd.key) : x \in 1..Len(file'[n]) /\ file'[n][x] = "@"
      BY <3>1, ApplyStored DEF Stored
    <3> QED BY <2>1, <3>2 DEF Stored, Place, Stride
  <2> QED BY <2>1, <2>2, <2>3
<1> QED BY <1>2, <1>3 DEF FileOf

\* Every step.
LEMMA FileStep == ASSUME DiskTypes, FileInv, [Next]_vars PROVE FileInv'
<1> SUFFICES ASSUME groups' = 0, NEW n \in Nodes PROVE FileOf(n)'
  BY DEF FileInv
<1>0. Len(log) \in Nat /\ log \in Seq(Entry) /\ applied \in [Nodes -> Nat] /\ file \in [Nodes -> Seq(Cells)]
      /\ groups \in Nat
  BY NodeTypes, DiskAssumption DEF DiskTypes, TypeOK, DiskAssumption
<1>1. ASSUME groups = 0, log' = log \/ \E e : log' = Append(log, e), file'[n] = file[n],
             applied'[n] = applied[n] \/ applied'[n] = 0, \A i \in futures' : i \in futures \/ (i \in Nat /\ i > Len(log))
      PROVE  FileOf(n)'
  <2>1. FileOf(n)
    BY <1>1 DEF FileInv
  <2>2. Len(log') \in Nat /\ Len(log) <= Len(log') /\ \A j \in 1..Len(log) : log'[j] = log[j]
    <3>1. CASE log' = log
      BY <1>0, <3>1
    <3>2. ASSUME NEW e, log' = Append(log, e)
          PROVE  Len(log') \in Nat /\ Len(log) <= Len(log') /\ \A j \in 1..Len(log) : log'[j] = log[j]
      <4>1. log \in Seq(Entry \cup {e}) /\ e \in Entry \cup {e}
        BY <1>0
      <4> QED BY <1>0, <3>2, <4>1, AppendProperties
    <3> QED BY <1>1, <3>1, <3>2
  <2> QED BY <1>1, <2>1, <2>2, FileStays
<1>2. ASSUME NEW m \in Nodes, NEW c \in Commands, Propose(m, c) PROVE FileOf(n)'
  <2>1. \A i \in futures' : i \in futures \/ (i \in Nat /\ i > Len(log))
    BY <1>0, <1>2 DEF Propose
  <2> QED BY <1>1, <1>2, <2>1 DEF Propose
<1>3. ASSUME NEW m \in Nodes, Apply(m) PROVE FileOf(n)'
  <2>1. groups' = groups /\ log' = log
    BY <1>3 DEF Apply
  <2>2. CASE m = n
    BY <1>3, <2>1, <2>2, FileApplies DEF FileInv
  <2>3. CASE m # n
    BY <1>0, <1>1, <1>3, <2>1, <2>3 DEF Apply
  <2> QED BY <2>2, <2>3
<1>4. ASSUME NEW m \in Nodes, Die(m) PROVE FileOf(n)'
  BY <1>0, <1>1, <1>4 DEF Die
<1>5. ASSUME NEW m \in Nodes, ApplyPanic(m) \/ Crash(m) PROVE FileOf(n)'
  BY <1>4, <1>5 DEF ApplyPanic, Crash
<1>6. ASSUME NEW m \in Nodes, Restart(m) PROVE FileOf(n)'
  BY <1>1, <1>6 DEF Restart
<1>7. CASE GroupRestart
  BY <1>0, <1>7 DEF GroupRestart
<1>8. CASE UNCHANGED vars
  BY <1>1, <1>8 DEF vars
<1> QED BY <1>2, <1>3, <1>5, <1>6, <1>7, <1>8 DEF Next

\* A file at deployment.
LEMMA FileInit == Init => FileInv
<1> SUFFICES ASSUME Init, NEW n \in Nodes PROVE FileOf(n)
  BY DEF FileInv
<1>1. applied[n] = 0 /\ log = <<>> /\ Len(log) = 0 /\ futures = {} /\ file[n] = [i \in 1..FileSize |-> "0"]
  BY DEF Init, Deployed
<1>2. FileSize \in Nat
  BY DiskAssumption DEF DiskAssumption
<1>3. Len(file[n]) = FileSize /\ \A x \in 1..FileSize : file[n][x] # "@"
  BY <1>1, <1>2
<1>4. Reached(n, 0)
  <2>1. 1..0 = {}
    OBVIOUS
  <2> QED BY <1>1, <1>3, <2>1 DEF Reached
<1> QED BY <1>1, <1>4 DEF FileOf

\* The files and the log, in every state.
LEMMA FilesFollow == Spec => [](DiskTypes /\ FileInv)
<1>1. Init => DiskTypes /\ FileInv
  BY DiskInitTypes, FileInit
<1>2. DiskTypes /\ FileInv /\ [Next]_vars => (DiskTypes /\ FileInv)'
  BY DiskTypesStep, FileStep
<1> QED BY <1>1, <1>2, PTL DEF Spec
\* An entry that can be applied does not make the next replica panic on it.
LEMMA DoableApplies ==
  ASSUME DiskTypes, NEW n \in Nodes, FileOf(n), NEW i \in 1..Len(log), i = applied[n] + 1,
         \A j \in 1..i : Doable(j)
  PROVE  log[i].cmd \notin Panicking(file[n])
<1> DEFINE c == log[i].cmd
<1>1. /\ c.op \in {"set", "get", "delete"} /\ c.key \in Int \cup {NotANumber} /\ i \in Nat
  BY EntryTypes, NodeTypes, DiskAssumption DEF DiskAssumption
<1>2. /\ c.op # "delete" /\ (c.op = "set" => ~SetFails(c.key))
      /\ c.op = "get" =>
           /\ c.key # NotANumber /\ 0 <= Stride(c.key)
           /\ \/ Stride(c.key) + ValueSize <= FileSize
              \/ \E j \in 1..i - 1 : IsSet(j) /\ Stride(c.key) <= Stride(log[j].cmd.key)
  BY DEF Doable
<1> HIDE DEF c
<1>3. ASSUME c.op = "get" PROVE ~GetFails(file[n], c.key)
  <2>1. c.key \in Int /\ Stride(c.key) \in Int /\ 0 <= Stride(c.key)
    BY <1>1, <1>2, <1>3, StrideType
  <2>2. Stride(c.key) + ValueSize <= Len(file[n])
    <3>1. FileSize \in Nat /\ ValueSize \in Nat /\ ValueSize > 0 /\ Len(file[n]) \in Nat /\ FileSize <= Len(file[n])
      BY NodeTypes
    <3>2. CASE Stride(c.key) + ValueSize <= FileSize
      BY <2>1, <3>1, <3>2
    <3>3. ASSUME NEW j \in 1..i - 1, IsSet(j), Stride(c.key) <= Stride(log[j].cmd.key)
          PROVE  Stride(c.key) + ValueSize <= Len(file[n])
      <4>1. j \in 1..applied[n] /\ j \in 1..i /\ j \in 1..Len(log)
        BY <1>1, NodeTypes
      <4>2. Stored(n, log[j].cmd.key) /\ ~SetFails(log[j].cmd.key)
        BY <3>3, <4>1 DEF FileOf, Doable, IsSet
      <4>3. Stride(log[j].cmd.key) \in Int
        BY <4>1, <4>2, EntryTypes, StrideType, DiskAssumption DEF SetFails, DiskAssumption
      <4>4. Stride(log[j].cmd.key) + ValueSize \in Place(log[j].cmd.key)
        BY <3>1, <4>3 DEF Place
      <4>5. Stride(log[j].cmd.key) + ValueSize <= Len(file[n])
        BY <3>1, <4>2, <4>4 DEF Stored
      <4> QED BY <2>1, <3>1, <3>3, <4>3, <4>5
    <3> QED BY <1>2, <1>3, <3>2, <3>3
  <2>3. Len(file[n]) \in Nat /\ ValueSize \in Nat
    BY NodeTypes
  <2> QED BY <1>2, <1>3, <2>1, <2>2, <2>3 DEF GetFails
<1> QED BY <1>2, <1>3 DEF Panicking, c

(***************************************************************************)
(* PanicsTogether: no replica applies an entry that makes another panic.   *)
(* The one that is ahead has a file that reaches further, but the entry    *)
(* could be applied in the state that the log leaves in front of it, and   *)
(* what that asks of a file the one behind has already stored.             *)
(***************************************************************************)
THEOREM ReplicasPanicTogether == Spec => []PanicsTogether
<1>1. DiskTypes /\ FileInv => PanicsTogether
  <2> SUFFICES ASSUME DiskTypes, FileInv, groups = 0, NEW n \in Nodes, NEW m \in Nodes, Poison(n),
                      ~(applied[m] <= applied[n])
               PROVE  FALSE
    BY DEF PanicsTogether
  <2>1. PICK i : i = applied[n] + 1
    OBVIOUS
  <2>2. HasNext(n) /\ NextEntry(n).cmd \in Panicking(file[n])
    BY DEF Poison
  <2>3. i \in 1..Len(log) /\ NextEntry(n) = log[i]
    BY <2>1, <2>2, NextType
  <2>4. PICK h \in applied[m]..Len(log) : Reached(m, h)
    BY DEF FileInv, FileOf
  <2>5. \A j \in 1..i : j \in 1..h
    BY <2>1, <2>4, NodeTypes
  <2>6. \A j \in 1..i : Doable(j)
    BY <2>4, <2>5 DEF Reached
  <2>7. FileOf(n)
    BY DEF FileInv
  <2>8. log[i].cmd \notin Panicking(file[n])
    BY <2>1, <2>3, <2>6, <2>7, DoableApplies
  <2> QED BY <2>2, <2>3, <2>8
<1> QED BY <1>1, FilesFollow, PTL

-----------------------------------------------------------------------------
(* What is replied. *)

\* No two keys share cells: of machine integers, a product that overflows may
\* put a key on the place of another.
KeysApart ==
  \A c, d \in Commands :
    c.key \in Int /\ d.key \in Int /\ c.key # d.key /\ 0 <= Stride(c.key) /\ 0 <= Stride(d.key) =>
      Place(c.key) \cap Place(d.key) = {}

\* valueSize * pos fits in an int, for every key there is.
KeysFit == \A c \in Commands : c.key \in Int => 2 * (ValueSize * c.key) \in -Modulus..Modulus - 1

\* What the remainder is of a number less than one modulus away from zero.
LEMMA RemainderNear ==
  ASSUME NEW x \in Int, NEW m \in Nat, m > 0, -m <= x, x < m
  PROVE  x % m = IF x >= 0 THEN x ELSE x + m
  OBVIOUS

\* A product that fits is the offset.
LEMMA StrideFits ==
  ASSUME KeysFit, NEW c \in Commands, c.key \in Int PROVE Stride(c.key) = ValueSize * c.key
<1>1. ValueSize \in Nat /\ Modulus \in Nat /\ Modulus > 0
  BY DiskAssumption DEF DiskAssumption
<1>2. PICK x \in Int : x = ValueSize * c.key
  BY <1>1
<1>3. 2 * x \in -Modulus..Modulus - 1
  BY <1>2 DEF KeysFit
<1>4. x % Modulus = IF x >= 0 THEN x ELSE x + Modulus
  BY <1>1, <1>3, RemainderNear
<1>5. Stride(c.key) = IF 2 * (x % Modulus) < Modulus THEN x % Modulus ELSE (x % Modulus) - Modulus
  BY <1>2 DEF Stride
<1>6. Stride(c.key) = x
  BY <1>1, <1>3, <1>4, <1>5
<1> QED BY <1>2, <1>6

\* Where the products fit, the keys have places of their own.
LEMMA FitApart == KeysFit => KeysApart
<1> SUFFICES ASSUME KeysFit, NEW c \in Commands, NEW d \in Commands, c.key \in Int, d.key \in Int, c.key # d.key,
                    NEW x \in Int, x \in Place(c.key), x \in Place(d.key)
             PROVE  FALSE
  BY DEF KeysApart, Place
<1>1. ValueSize \in Nat /\ ValueSize > 0
  BY DiskAssumption DEF DiskAssumption
<1>2. /\ ValueSize * c.key < x /\ x <= ValueSize * c.key + ValueSize
      /\ ValueSize * d.key < x /\ x <= ValueSize * d.key + ValueSize
  BY StrideFits DEF Place
<1>3. ASSUME NEW a \in Int, NEW b \in Int, a < b PROVE ValueSize * a + ValueSize <= ValueSize * b
  <2>1. b - a - 1 \in Nat
    BY <1>3
  <2>2. ValueSize * (b - a - 1) >= 0
    BY <1>1, <2>1
  <2> QED BY <1>1, <2>2
<1>4. PICK u \in Int, v \in Int : u = ValueSize * c.key /\ v = ValueSize * d.key
  BY <1>1
<1>5. c.key < d.key => u + ValueSize <= v
  BY <1>3, <1>4
<1>6. d.key < c.key => v + ValueSize <= u
  BY <1>3, <1>4
<1> QED BY <1>1, <1>2, <1>4, <1>5, <1>6

\* Every reply is to an entry of the log, and is what that log says.
Answered(r) ==
  /\ r.idx \in 1..Len(log) /\ r.entry = log[r.idx]
  /\ r.entry.cmd.op = "get" =>
       r.text = IF Sets(r.entry.cmd.key, r.idx) # {} THEN storeValue ELSE Repeat("0")
ReplyInv == KeysApart /\ (groups = 0 => \A r \in replies : Answered(r))

\* Nothing that the log gets later changes it.
LEMMA AnsweredStays ==
  ASSUME Len(log) \in Nat, NEW r, Answered(r), Len(log') \in Nat, Len(log) <= Len(log'),
         \A j \in 1..Len(log) : log'[j] = log[j]
  PROVE  Answered(r)'
<1>1. r.idx \in 1..Len(log') /\ log'[r.idx] = log[r.idx]
  BY DEF Answered
<1>2. ASSUME NEW k PROVE Sets(k, r.idx)' = Sets(k, r.idx)
  <2>1. \A j \in 1..r.idx - 1 : log'[j] = log[j]
    BY DEF Answered
  <2> QED BY <2>1 DEF Sets
<1> QED BY <1>1, <1>2 DEF Answered, storeValue, Repeat

\* The entry a proposer waits for is the first that its file has not seen, and
\* a get of it finds what the log before it leaves.
LEMMA ReplyIsRight ==
  ASSUME DiskTypes, KeysApart, NEW n \in Nodes, FileOf(n), Apply(n), NEW i, i = applied[n] + 1,
         i \in futures, log[i].by = n, log[i].cmd.op = "get"
  PROVE  applyGet(file[n], log[i].cmd) = IF Sets(log[i].cmd.key, i) # {} THEN storeValue ELSE Repeat("0")
<1> DEFINE c == log[i].cmd
           f == file[n]
<1>1. /\ i \in Nat /\ i >= 1 /\ i \in 1..Len(log) /\ NextEntry(n) = log[i] /\ c \in Commands
  BY ApplyNext
<1>2. applied[n] = i - 1 /\ applied[n] \in Nat /\ f \in Seq(Cells) /\ Len(f) \in Nat /\ Len(log) \in Nat
      /\ ValueSize \in Nat /\ ValueSize > 0
  BY NodeTypes
<1>3. Reached(n, i - 1)
  <2>1. PICK h \in applied[n]..Len(log) : Reached(n, h)
    BY DEF FileOf
  <2>2. i > h
    BY <2>1 DEF Reached
  <2>3. h = i - 1
    BY <1>1, <1>2, <2>2
  <2> QED BY <2>1, <2>3
<1>4. ~GetFails(f, c.key)
  <2>1. NextEntry(n).cmd = c
    BY <1>1
  <2>2. c.op # "set"
    OBVIOUS
  <2> HIDE DEF c
  <2> QED BY <2>1, <2>2, ApplyFileStep
<1>5. /\ c.key \in Int /\ Stride(c.key) \in Int /\ 0 <= Stride(c.key) /\ Stride(c.key) + ValueSize <= Len(f)
      /\ \A x : (\A y \in 1..ValueSize : f[Stride(c.key) + y] = x) => applyGet(f, c) = Repeat(x)
  BY <1>1, <1>2, <1>4, GetText
<1>6. \A y \in 1..ValueSize : /\ Stride(c.key) + y \in Place(c.key) /\ Stride(c.key) + y \in 1..Len(f)
                              /\ f[Stride(c.key) + y] \in Cells
  <2>1. \A y \in 1..ValueSize : Stride(c.key) + y \in Place(c.key) /\ Stride(c.key) + y \in 1..Len(f)
    BY <1>2, <1>5 DEF Place
  <2> QED BY <1>2, <2>1
<1> HIDE DEF c
<1>7. ASSUME NEW j \in Sets(c.key, i) PROVE applyGet(f, c) = storeValue
  <2>1. j \in 1..applied[n] /\ IsSet(j) /\ log[j].cmd.key = c.key
    BY <1>2 DEF Sets, IsSet
  <2>2. Stored(n, c.key)
    BY <2>1 DEF FileOf
  <2>3. \A y \in 1..ValueSize : f[Stride(c.key) + y] = "@"
    BY <1>6, <2>2 DEF Stored
  <2> QED BY <1>5, <2>3 DEF storeValue
<1>8. ASSUME Sets(c.key, i) = {} PROVE applyGet(f, c) = Repeat("0")
  <2>1. ASSUME NEW y \in 1..ValueSize, f[Stride(c.key) + y] = "@" PROVE FALSE
    <3>1. PICK j \in 1..i - 1 : IsSet(j) /\ Stride(c.key) + y \in Place(log[j].cmd.key)
      BY <1>3, <1>6, <2>1 DEF Reached
    <3>2. j \in 1..Len(log) /\ log[j].cmd \in Commands /\ ~SetFails(log[j].cmd.key)
      <4>1. j \in 1..Len(log)
        BY <1>1, <1>2
      <4> QED BY <1>3, <3>1, <4>1, EntryTypes DEF Reached, Doable, IsSet
    <3>3. log[j].cmd.key \in Int
      BY <3>2, DiskAssumption DEF SetFails, DiskAssumption
    <3>4. 0 <= Stride(log[j].cmd.key)
      <4>1. Stride(log[j].cmd.key) \in Int
        BY <3>3, StrideType
      <4>2. ~(Stride(log[j].cmd.key) < 0)
        BY <3>2 DEF SetFails
      <4> QED BY <4>1, <4>2
    <3>5. log[j].cmd.key # c.key
      BY <1>8, <3>1 DEF Sets, IsSet
    <3>6. c \in Commands
      BY <1>1 DEF c
    <3>7. Place(c.key) \cap Place(log[j].cmd.key) = {}
      BY <1>5, <3>2, <3>3, <3>4, <3>5, <3>6 DEF KeysApart
    <3> QED BY <1>6, <3>1, <3>7
  <2>2. \A y \in 1..ValueSize : f[Stride(c.key) + y] = "0"
    BY <1>6, <2>1 DEF Cells
  <2> QED BY <1>5, <2>2
<1> QED BY <1>7, <1>8 DEF c

\* Every step.
LEMMA ReplyStep == ASSUME DiskTypes, FileInv, ReplyInv, [Next]_vars PROVE ReplyInv'
<1> SUFFICES ASSUME groups' = 0, NEW r \in replies' PROVE Answered(r)'
  BY DEF ReplyInv, KeysApart, Place, Stride
<1>0. Len(log) \in Nat /\ log \in Seq(Entry) /\ groups \in Nat /\ KeysApart
  BY DiskAssumption DEF DiskTypes, TypeOK, DiskAssumption, ReplyInv
<1>1. ASSUME groups = 0, r \in replies, log' = log \/ \E e : log' = Append(log, e) PROVE Answered(r)'
  <2>1. Answered(r)
    BY <1>1 DEF ReplyInv
  <2>2. CASE log' = log
    BY <1>0, <2>1, <2>2, AnsweredStays
  <2>3. ASSUME NEW e, log' = Append(log, e) PROVE Answered(r)'
    <3>1. log \in Seq(Entry \cup {e}) /\ e \in Entry \cup {e}
      BY <1>0
    <3>2. Len(log') \in Nat /\ Len(log) <= Len(log') /\ \A j \in 1..Len(log) : log'[j] = log[j]
      BY <1>0, <2>3, <3>1, AppendProperties
    <3> QED BY <1>0, <2>1, <3>2, AnsweredStays
  <2> QED BY <1>1, <2>2, <2>3
<1>2. ASSUME NEW m \in Nodes, Apply(m) PROVE Answered(r)'
  <2>1. PICK i : i = applied[m] + 1
    OBVIOUS
  <2>2. groups = 0 /\ log' = log
    BY <1>2 DEF Apply
  <2>3. CASE r \in replies
    BY <1>1, <2>2, <2>3
  <2>4. CASE r \notin replies
    <3> DEFINE c == log[i].cmd
    <3>1. i \in 1..Len(log) /\ NextIdx(m) = i /\ NextEntry(m) = log[i]
      BY <1>2, <2>1, ApplyNext DEF NextIdx
    <3>2. /\ log[i].by = m /\ i \in futures
          /\ r = [group |-> groups, idx |-> i, entry |-> log[i], text |-> ApplyResponse(file[m], c)]
      BY <1>2, <2>4, <3>1 DEF Apply
    <3>3. r.idx = i /\ r.entry = log[i] /\ r.text = ApplyResponse(file[m], c)
      BY <3>2
    <3>4. FileOf(m)
      BY <2>2 DEF FileInv
    <3>5. c.op = "get" => applyGet(file[m], c) = IF Sets(c.key, i) # {} THEN storeValue ELSE Repeat("0")
      BY <1>0, <1>2, <2>1, <3>2, <3>4, ReplyIsRight
    <3>6. Answered(r)
      BY <3>1, <3>3, <3>5 DEF Answered, ApplyResponse
    <3> QED BY <1>0, <2>2, <3>6, AnsweredStays
  <2> QED BY <2>3, <2>4
<1>3. ASSUME NEW m \in Nodes, ApplyPanic(m) \/ Crash(m) \/ Restart(m) PROVE Answered(r)'
  BY <1>1, <1>3 DEF ApplyPanic, Crash, Die, Restart
<1>4. ASSUME NEW m \in Nodes, NEW c \in Commands, Propose(m, c) PROVE Answered(r)'
  BY <1>1, <1>4 DEF Propose
<1>5. CASE GroupRestart
  BY <1>0, <1>5 DEF GroupRestart
<1>6. CASE UNCHANGED vars
  BY <1>1, <1>6 DEF vars
<1> QED BY <1>2, <1>3, <1>4, <1>5, <1>6 DEF Next

(***************************************************************************)
(* ReplyFollowsLog: what is replied to a get is the value the log in front *)
(* of it leaves, although replicas apply entries again to files that later *)
(* ones have changed.  Who replays has no future of the entries it sees    *)
(* again, so the file of one that replies has seen no later entry.         *)
(***************************************************************************)
THEOREM RepliesFollowTheLog == KeysApart /\ Spec => []ReplyFollowsLog
<1>1. KeysApart /\ Init => ReplyInv
  BY DEF Init, ReplyInv
<1>2. DiskTypes /\ FileInv /\ ReplyInv /\ [Next]_vars => ReplyInv'
  BY ReplyStep
<1>3. ReplyInv => ReplyFollowsLog
  BY DEF ReplyInv, ReplyFollowsLog, Answered
<1> QED BY <1>1, <1>2, <1>3, FilesFollow, PTL DEF Spec

-----------------------------------------------------------------------------
(* What a node has replied to, through every restart. *)

\* What is stored in a file stays so, whatever happens.
LEMMA StoredStays ==
  ASSUME DiskTypes, [Next]_vars, NEW n \in Nodes, NEW k, Stored(n, k) PROVE (Stored(n, k))'
<1> SUFFICES ASSUME NEW x \in Place(k), x \in 1..Len(file[n]), file[n][x] = "@"
             PROVE  x \in 1..Len(file'[n]) /\ file'[n][x] = "@"
  BY DEF Stored, Place, Stride
<1>1. CASE file'[n] = file[n]
  BY <1>1
<1>2. ASSUME NEW m \in Nodes, Apply(m) PROVE x \in 1..Len(file'[n]) /\ file'[n][x] = "@"
  <2>1. CASE m = n
    BY <1>2, <2>1, ApplyStored
  <2>2. CASE m # n
    BY <1>1, <1>2, <2>2 DEF Apply, DiskTypes
  <2> QED BY <2>1, <2>2
<1> QED BY <1>1, <1>2 DEF Next, Propose, ApplyPanic, Crash, Die, Restart, GroupRestart, vars

\* The key and the proposer of a set that was replied to.
AckOf(r) == [key |-> r.entry.cmd.key, by |-> r.entry.by]

\* Nothing but an application replies.
LEMMA AckedGrows ==
  ASSUME DiskTypes, NEW n \in Nodes, Apply(n), NEW i, i = applied[n] + 1
  PROVE  /\ \A a \in Acked' : a \in Acked \/ (log[i].cmd.op = "set" /\ a = [key |-> log[i].cmd.key, by |-> n])
         /\ Acked \subseteq Acked'
         /\ \A r \in replies' : r \in replies \/ /\ r.entry = log[i] /\ log[i].by = n
                                                 /\ r.text = ApplyResponse(file[n], log[i].cmd)
<1> DEFINE r0 == [group |-> groups, idx |-> i, entry |-> log[i], text |-> ApplyResponse(file[n], log[i].cmd)]
<1>1. /\ NextIdx(n) = i /\ NextEntry(n) = log[i]
  BY ApplyNext DEF NextIdx
<1>2. replies' = replies \/ (replies' = replies \cup {r0} /\ log[i].by = n)
  BY <1>1 DEF Apply
<1>3. r0.entry = log[i] /\ r0.text = ApplyResponse(file[n], log[i].cmd)
  OBVIOUS
<1> HIDE DEF r0
<1>4. ASSUME NEW a \in Acked' PROVE a \in Acked \/ (log[i].cmd.op = "set" /\ a = [key |-> log[i].cmd.key, by |-> n])
  <2>1. PICK r \in replies' : r.entry.cmd.op = "set" /\ a = AckOf(r)
    BY DEF Acked, AckOf
  <2>2. CASE r \in replies
    BY <2>1, <2>2 DEF Acked, AckOf
  <2>3. CASE r = r0 /\ log[i].by = n
    BY <1>3, <2>1, <2>3 DEF AckOf
  <2> QED BY <1>2, <2>1, <2>2, <2>3
<1>5. Acked \subseteq Acked'
  <2>1. replies \subseteq replies'
    BY <1>2
  <2> QED BY <2>1 DEF Acked
<1> QED BY <1>2, <1>3, <1>4, <1>5

\* Every step.
LEMMA OwnStep == ASSUME DiskTypes, OwnInv, [Next]_vars PROVE OwnInv'
<1>0. /\ log \in Seq(Entry) /\ Len(log) \in Nat /\ DOMAIN log = 1..Len(log)
      /\ \A a \in Acked : a.by \in Nodes
  <2>1. \A r \in replies : r.entry.by \in Nodes
    BY DEF DiskTypes, TypeOK, Reply, Entry
  <2> QED BY <2>1 DEF DiskTypes, TypeOK, Acked
<1>1. \A a \in Acked : (Stored(a.by, a.key))'
  BY <1>0, StoredStays DEF OwnInv
<1>2. ASSUME NEW n \in Nodes, Apply(n) PROVE OwnInv'
  <2>0. PICK i : i = applied[n] + 1
    OBVIOUS
  <2>1. /\ i \in 1..Len(log) /\ NextEntry(n) = log[i] /\ log' = log
        /\ log[i].cmd \in Commands /\ log[i].cmd.op \in {"set", "get", "delete"}
    BY <1>2, <2>0, ApplyNext
  <2>2. /\ \A a \in Acked' : a \in Acked \/ (log[i].cmd.op = "set" /\ a = [key |-> log[i].cmd.key, by |-> n])
        /\ Acked \subseteq Acked'
        /\ \A r \in replies' : r \in replies \/ /\ r.entry = log[i] /\ log[i].by = n
                                                /\ r.text = ApplyResponse(file[n], log[i].cmd)
    BY <1>2, <2>0, AckedGrows
  <2>3. ASSUME log[i].cmd.op = "set" PROVE (Stored(n, log[i].cmd.key))'
    <3>1. \A x \in Place(log[i].cmd.key) : x \in 1..Len(file'[n]) /\ file'[n][x] = "@"
      BY <1>2, <2>1, <2>3, ApplyStored
    <3> QED BY <2>1, <3>1 DEF Stored, Place, Stride
  <2>4. ASSUME NEW a \in Acked' PROVE (Stored(a.by, a.key))'
    <3>1. CASE a \in Acked
      BY <1>1, <3>1
    <3>2. CASE log[i].cmd.op = "set" /\ a = [key |-> log[i].cmd.key, by |-> n]
      <4>1. a.key = log[i].cmd.key /\ a.by = n
        BY <3>2
      <4>2. (Stored(n, log[i].cmd.key))' /\ log'[i] = log[i]
        BY <2>1, <2>3, <3>2
      <4>3. log'[i].cmd.key = a.key
        BY <4>1, <4>2
      <4> QED BY <4>1, <4>2, <4>3 DEF Stored
    <3> QED BY <2>2, <3>1, <3>2
  <2>5. \A j \in DOMAIN log' : log'[j].after \subseteq Acked'
    BY <2>1, <2>2 DEF OwnInv
  <2>6. ASSUME NEW r \in replies', r.entry.cmd.op = "get", AckOf(r) \in r.entry.after PROVE r.text = storeValue
    <3>1. CASE r \in replies
      BY <2>6, <3>1 DEF OwnInv, OwnSetsSurvive, AckOf
    <3>2. CASE /\ r.entry = log[i] /\ log[i].by = n
               /\ r.text = ApplyResponse(file[n], log[i].cmd)
      <4> DEFINE c == log[i].cmd
                 f == file[n]
      <4>1. c.op = "get" /\ r.text = applyGet(f, c) /\ AckOf(r).key = c.key /\ AckOf(r).by = n
        BY <2>6, <3>2 DEF ApplyResponse, AckOf
      <4>2. AckOf(r) \in Acked
        BY <1>0, <2>1, <2>6, <3>2 DEF OwnInv
      <4>3. Stored(n, c.key)
        BY <4>1, <4>2 DEF OwnInv
      <4>4. f \in Seq(Cells) /\ ValueSize \in Nat /\ c \in Commands
        BY <2>1, NodeTypes
      <4>5. ~GetFails(f, c.key)
        <5>1. NextEntry(n).cmd = c /\ c.op # "set"
          BY <2>1, <4>1
        <5> HIDE DEF c
        <5> QED BY <1>2, <5>1, ApplyFileStep
      <4> HIDE DEF c, f
      <4>6. Stride(c.key) \in Int /\ \A x : (\A y \in 1..ValueSize : f[Stride(c.key) + y] = x) => applyGet(f, c) = Repeat(x)
        BY <4>4, <4>5, GetText
      <4>7. \A y \in 1..ValueSize : Stride(c.key) + y \in Place(c.key)
        BY <4>4, <4>6 DEF Place
      <4>8. \A y \in 1..ValueSize : f[Stride(c.key) + y] = "@"
        BY <4>3, <4>7 DEF Stored, f
      <4> QED BY <4>1, <4>6, <4>8 DEF storeValue
    <3> QED BY <2>2, <3>1, <3>2
  <2>7. OwnSetsSurvive'
    BY <2>6 DEF OwnSetsSurvive, AckOf, storeValue, Repeat
  <2> QED BY <2>4, <2>5, <2>7 DEF OwnInv
<1>3. ASSUME replies' = replies, \A j \in DOMAIN log' : log'[j].after \subseteq Acked PROVE OwnInv'
  <2>1. Acked' = Acked
    BY <1>3 DEF Acked
  <2>2. OwnSetsSurvive'
    BY <1>3 DEF OwnInv, OwnSetsSurvive, storeValue, Repeat
  <2> QED BY <1>1, <1>3, <2>1, <2>2 DEF OwnInv
<1>4. ASSUME NEW n \in Nodes, NEW c \in Commands, Propose(n, c) PROVE OwnInv'
  <2> DEFINE e == [cmd |-> c, by |-> n, after |-> Acked]
  <2>1. log' = Append(log, e) /\ e.after = Acked /\ replies' = replies
    BY <1>4 DEF Propose
  <2> HIDE DEF e
  <2>2. log \in Seq(Entry \cup {e}) /\ e \in Entry \cup {e}
    BY <1>0
  <2>3. \A j \in DOMAIN log' : log'[j] = e \/ (j \in DOMAIN log /\ log'[j] = log[j])
    BY <1>0, <2>1, <2>2, AppendProperties
  <2> QED BY <1>3, <2>1, <2>3 DEF OwnInv
<1>5. ASSUME NEW n \in Nodes, ApplyPanic(n) \/ Crash(n) \/ Restart(n) PROVE OwnInv'
  BY <1>3, <1>5 DEF OwnInv, ApplyPanic, Crash, Die, Restart
<1>6. CASE GroupRestart
  <2>1. DOMAIN log' = {}
    BY <1>6 DEF GroupRestart
  <2> QED BY <1>3, <1>6, <2>1 DEF GroupRestart
<1>7. CASE UNCHANGED vars
  BY <1>3, <1>7 DEF OwnInv, vars
<1> QED BY <1>2, <1>4, <1>5, <1>6, <1>7 DEF Next

(***************************************************************************)
(* OwnSetsSurvive: a node that has replied to a set serves the value for   *)
(* as long as it has its file, through crashes, replays of the log and     *)
(* restarts of the group that lose the log.                                *)
(***************************************************************************)
THEOREM OwnSetsAreKept == Spec => []OwnSetsSurvive
<1>1. Init => OwnInv
  <2> SUFFICES ASSUME Init PROVE OwnInv
    OBVIOUS
  <2>1. replies = {} /\ DOMAIN log = {}
    BY DEF Init
  <2> QED BY <2>1 DEF OwnInv, Acked, OwnSetsSurvive
<1>2. DiskTypes /\ OwnInv /\ [Next]_vars => OwnInv'
  BY OwnStep
<1>3. OwnInv => OwnSetsSurvive
  BY DEF OwnInv
<1> QED BY <1>1, <1>2, <1>3, DiskInitTypes, DiskTypesStep, PTL DEF Spec

-----------------------------------------------------------------------------
(* The file and the replay. *)

\* The files that entries leave.
Files == {f \in Seq(Cells) : Len(f) <= MaxFile}

FileSteps(es) ==
  [p \in Nat \X Files |-> IF p[1] \in 1..Len(es) THEN AfterEntry(p[2], es[p[1]]) ELSE p[2]]

LEMMA AfterEntryType ==
  ASSUME NEW f \in Files, NEW e \in Entry
  PROVE  AfterEntry(f, e) \in Files
<1> DEFINE c == e.cmd
<1>1. f \in Seq(Cells) /\ Len(f) \in Nat /\ Len(f) <= MaxFile /\ MaxFile \in Nat /\ ValueSize \in Nat
  BY DiskAssumption DEF DiskAssumption, Files
<1>2. c \in Commands /\ c.op \in {"set", "get", "delete"}
  BY DiskAssumption DEF DiskAssumption, Entry
<1>3. CASE c \in Panicking(f)
  BY <1>3 DEF AfterEntry
<1>4. CASE c \notin Panicking(f) /\ c.op = "set"
  <2>1. ~SetFails(c.key)
    BY <1>2, <1>4 DEF Panicking
  <2>2. AfterEntry(f, e) = applySet(f, c)
    BY <1>4 DEF AfterEntry, ApplyFile
  <2> HIDE DEF c
  <2>3. /\ applySet(f, c) \in Seq(Cells) /\ Stride(c.key) \in Int /\ Stride(c.key) + ValueSize <= MaxFile
        /\ Len(applySet(f, c)) = IF Stride(c.key) + ValueSize > Len(f) THEN Stride(c.key) + ValueSize ELSE Len(f)
    BY <1>1, <1>2, <2>1, SetFile
  <2> QED BY <1>1, <2>2, <2>3 DEF Files
<1>5. CASE c \notin Panicking(f) /\ c.op # "set"
  BY <1>5 DEF AfterEntry, ApplyFile
<1> QED BY <1>3, <1>4, <1>5

\* FileAfter goes from entry to entry.
LEMMA FileAfterExists ==
  ASSUME NEW es \in Seq(Entry)
  PROVE  \E f \in [0..Len(es) -> Files] :
           Recursive(f, Deployed, FileSteps(es), Len(es)) /\ FileAfter(es) = f[Len(es)]
<1> DEFINE L == Len(es)
           H == FileSteps(es)
<1>0. L \in Nat /\ Deployed \in Files /\ \A i \in 1..L : es[i] \in Entry
  <2>1. FileSize \in Nat /\ MaxFile \in Nat /\ FileSize <= MaxFile
    BY DiskAssumption DEF DiskAssumption
  <2>2. Deployed \in Seq(Cells) /\ Len(Deployed) = FileSize
    BY <2>1 DEF Deployed, Cells
  <2> QED BY <2>1, <2>2 DEF Files
<1>1. StepsIn(H, Files)
  <2>1. ASSUME NEW p \in Nat \X Files
        PROVE  (IF p[1] \in 1..L THEN AfterEntry(p[2], es[p[1]]) ELSE p[2]) \in Files
    <3>1. p[2] \in Files
      OBVIOUS
    <3>2. p[1] \in 1..L => AfterEntry(p[2], es[p[1]]) \in Files
      BY <1>0, <3>1, AfterEntryType
    <3> QED BY <3>1, <3>2
  <2> QED BY <2>1 DEF StepsIn, FileSteps
<1>2. PICK f \in [0..L -> Files] : Recursive(f, Deployed, H, L)
  BY <1>0, <1>1, Recursion
<1>3. ASSUME NEW i \in 1..L, NEW m \in Files PROVE H[<<i, m>>] = AfterEntry(m, es[i])
  <2>1. <<i, m>> \in Nat \X Files /\ <<i, m>>[1] = i /\ <<i, m>>[2] = m
    OBVIOUS
  <2> QED BY <2>1 DEF FileSteps
<1>4. f = [i \in 0..L |-> IF i = 0 THEN Deployed ELSE AfterEntry(f[i - 1], es[i])]
  <2>1. ASSUME NEW i \in 0..L, i # 0 PROVE f[i] = AfterEntry(f[i - 1], es[i])
    <3>1. i \in 1..L /\ i - 1 \in 0..L
      BY <1>0, <2>1
    <3>2. f[i] = H[<<i, f[i - 1]>>] /\ f[i - 1] \in Files
      BY <1>2, <3>1 DEF Recursive
    <3> QED BY <1>3, <3>1, <3>2
  <2>2. f[0] = Deployed
    BY <1>2 DEF Recursive
  <2> QED BY <1>0, <2>1, <2>2
<1> DEFINE F == CHOOSE upTo : upTo = [i \in 0..L |-> IF i = 0 THEN Deployed ELSE AfterEntry(upTo[i - 1], es[i])]
<1>5. F = [i \in 0..L |-> IF i = 0 THEN Deployed ELSE AfterEntry(F[i - 1], es[i])]
  BY <1>4
<1>6. FileAfter(es) = F[L]
  BY DEF FileAfter
<1> HIDE DEF F
<1>7. F[0] = Deployed
  BY <1>0, <1>5
<1>8. ASSUME NEW i \in 1..L, F[i - 1] \in Files PROVE F[i] = H[<<i, F[i - 1]>>]
  <2>1. i \in 0..L /\ i # 0
    BY <1>0
  <2>2. F[i] = AfterEntry(F[i - 1], es[i])
    BY <1>5, <2>1
  <2> QED BY <1>3, <1>8, <2>2
<1>9. F[L] = f[L]
  <2>1. L \in 0..L
    BY <1>0
  <2> HIDE DEF H, L
  <2> QED BY <1>0, <1>2, <1>7, <1>8, <2>1, RecursionUnique
<1> QED BY <1>2, <1>6, <1>9

\* The file after one more entry, and after none.
LEMMA FileAfterStep ==
  ASSUME NEW es \in Seq(Entry), NEW e \in Entry
  PROVE  FileAfter(es) \in Files /\ FileAfter(Append(es, e)) = AfterEntry(FileAfter(es), e)
<1> DEFINE L == Len(es)
<1>1. PICK ts : ts = Append(es, e)
  OBVIOUS
<1>2. L \in Nat /\ ts \in Seq(Entry) /\ Len(ts) = L + 1 /\ ts[L + 1] = e /\ \A i \in 1..L : ts[i] = es[i]
  BY <1>1, AppendProperties
<1>3. PICK f \in [0..L -> Files] : Recursive(f, Deployed, FileSteps(es), L) /\ FileAfter(es) = f[L]
  BY FileAfterExists
<1>4. PICK g \in [0..L + 1 -> Files] : Recursive(g, Deployed, FileSteps(ts), L + 1) /\ FileAfter(ts) = g[L + 1]
  BY <1>2, FileAfterExists
<1>5. g[L] = f[L]
  <2>1. ASSUME NEW i \in 1..L PROVE g[i] = FileSteps(es)[<<i, g[i - 1]>>]
    <3>1. i \in 1..L + 1 /\ i - 1 \in 0..L + 1
      BY <1>2
    <3>2. g[i] = FileSteps(ts)[<<i, g[i - 1]>>] /\ g[i - 1] \in Files
      BY <1>4, <3>1 DEF Recursive
    <3>3. PICK m \in Files : m = g[i - 1]
      BY <3>2
    <3>4. <<i, m>> \in Nat \X Files /\ <<i, m>>[1] = i /\ <<i, m>>[2] = m /\ i \in 1..Len(ts) /\ i \in 1..Len(es)
      BY <1>2, <3>1
    <3>5. FileSteps(ts)[<<i, m>>] = AfterEntry(m, ts[i]) /\ FileSteps(es)[<<i, m>>] = AfterEntry(m, es[i])
      BY <3>4 DEF FileSteps
    <3> QED BY <1>2, <3>2, <3>3, <3>5
  <2>2. g[0] = Deployed /\ L \in 0..L
    BY <1>2, <1>4 DEF Recursive
  <2>3. Deployed \in Files
    <3>1. 0 \in 0..L + 1
      BY <1>2
    <3> QED BY <1>4, <2>2, <3>1
  <2> HIDE DEF L
  <2> QED BY <1>2, <1>3, <2>1, <2>2, <2>3, RecursionUnique
<1>6. f[L] \in Files
  BY <1>2, <1>3
<1>7. g[L + 1] = AfterEntry(f[L], e)
  <2>1. g[L + 1] = FileSteps(ts)[<<L + 1, g[L]>>]
    <3>1. L + 1 \in 1..L + 1 /\ (L + 1) - 1 = L
      BY <1>2
    <3> QED BY <1>4, <3>1 DEF Recursive
  <2>2. PICK m \in Files : m = f[L]
    BY <1>6
  <2>3. PICK i \in 1..Len(ts) : i = L + 1
    BY <1>2
  <2>4. <<i, m>> \in Nat \X Files /\ <<i, m>>[1] = i /\ <<i, m>>[2] = m
    BY <1>2, <2>3
  <2>5. FileSteps(ts)[<<i, m>>] = AfterEntry(m, ts[i])
    BY <2>4 DEF FileSteps
  <2> QED BY <1>2, <1>5, <2>1, <2>2, <2>3, <2>5
<1> QED BY <1>1, <1>3, <1>4, <1>6, <1>7

LEMMA FileAfterNone == FileAfter(<<>>) = Deployed
<1>1. PICK es \in Seq(Entry) : es = <<>>
  <2>1. <<>> \in Seq(Entry)
    BY EmptySeq
  <2> QED BY <2>1
<1>2. PICK f \in [0..Len(es) -> Files] :
        Recursive(f, Deployed, FileSteps(es), Len(es)) /\ FileAfter(es) = f[Len(es)]
  BY FileAfterExists
<1>3. Len(es) = 0
  BY <1>1
<1> QED BY <1>1, <1>2, <1>3 DEF Recursive

(***************************************************************************)
(* n's file is what the first h entries leave, and their sets are in it,   *)
(* so that a replay of them changes nothing.                               *)
(***************************************************************************)
Replayed(n, h) ==
  /\ file[n] = FileAfter(SubSeq(log, 1, h))
  /\ \A j \in 1..h : IsSet(j) => Stored(n, log[j].cmd.key)

ReplayInv == groups = 0 => \A n \in Nodes : \E h \in applied[n]..Len(log) : Replayed(n, h)

\* An entry whose set the file has is applied without effect.
LEMMA ReplaySame ==
  ASSUME DiskTypes, NEW n \in Nodes, Apply(n),
         NextEntry(n).cmd.op = "set" => Stored(n, NextEntry(n).cmd.key)
  PROVE  file'[n] = file[n]
<1> DEFINE c == NextEntry(n).cmd
           f == file[n]
           g == file'[n]
<1>1. /\ f \in Seq(Cells) /\ g \in Seq(Cells) /\ Len(g) \in Nat /\ Len(f) \in Nat
      /\ ValueSize \in Nat /\ ValueSize > 0
      /\ c.op = "set" => /\ Stride(c.key) \in Int
                         /\ Len(g) = (IF Stride(c.key) + ValueSize > Len(f) THEN Stride(c.key) + ValueSize ELSE Len(f))
                         /\ \A x \in 1..Len(g) : g[x] = IF x \in Place(c.key) THEN "@"
                                                        ELSE IF x <= Len(f) THEN f[x] ELSE "0"
      /\ c.op # "set" => g = f
  BY ApplyFileStep, NodeTypes
<1>2. c.op = "set" => \A x \in Place(c.key) : x \in 1..Len(f) /\ f[x] = "@"
  BY DEF Stored
<1> HIDE DEF c, f, g
<1>3. CASE c.op = "set"
  <2>1. Stride(c.key) + ValueSize \in Place(c.key)
    BY <1>1, <1>3 DEF Place
  <2>2. Stride(c.key) + ValueSize \in 1..Len(f)
    BY <1>2, <1>3, <2>1
  <2>3. Len(g) = Len(f)
    BY <1>1, <1>3, <2>2
  <2>4. ASSUME NEW x \in 1..Len(f) PROVE g[x] = f[x]
    <3>1. x \in 1..Len(g) /\ x <= Len(f)
      BY <1>1, <2>3
    <3>2. g[x] = IF x \in Place(c.key) THEN "@" ELSE f[x]
      BY <1>1, <1>3, <3>1
    <3> QED BY <1>2, <1>3, <3>2
  <2>5. g = f
    BY <1>1, <2>3, <2>4, SeqEqual
  <2> QED BY <2>5 DEF f, g
<1>4. CASE c.op # "set"
  BY <1>1, <1>4 DEF f, g
<1> QED BY <1>3, <1>4

\* A node that does not apply, while the log at most grows.
LEMMA ReplayStays ==
  ASSUME DiskTypes, NEW n \in Nodes, NEW h \in 0..Len(log), Replayed(n, h), file'[n] = file[n],
         NEW T, log' \in Seq(T), Len(log) <= Len(log'), \A j \in 1..Len(log) : log'[j] = log[j]
  PROVE  h \in 0..Len(log') /\ Replayed(n, h)'
<1>1. Len(log) \in Nat /\ log \in Seq(Entry)
  BY NodeTypes DEF DiskTypes, TypeOK
<1>2. SubSeq(log', 1, h) = SubSeq(log, 1, h)
  <2>1. PICK es \in Seq(Entry) : es = log
    BY <1>1
  <2>2. PICK ts \in Seq(T) : ts = log'
    OBVIOUS
  <2>3. h \in 0..Len(es) /\ Len(es) <= Len(ts) /\ \A j \in 1..Len(es) : ts[j] = es[j]
    BY <2>1, <2>2
  <2>4. SubSeq(ts, 1, h) = SubSeq(es, 1, h)
    BY <2>3, BeginningStays
  <2> QED BY <2>1, <2>2, <2>4
<1>3. h \in 0..Len(log') /\ \A j \in 1..h : log'[j] = log[j]
  <2>1. Len(log') \in Nat
    BY LenProperties
  <2> QED BY <1>1, <2>1
<1>4. ASSUME NEW j \in 1..h, IsSet(j)' PROVE (Stored(n, log[j].cmd.key))'
  <2>1. log'[j] = log[j] /\ Stored(n, log[j].cmd.key)
    BY <1>3, <1>4 DEF IsSet, Replayed
  <2> QED BY <2>1 DEF Stored, Place, Stride
<1>5. file'[n] = FileAfter(SubSeq(log', 1, h))
  BY <1>2 DEF Replayed
<1> QED BY <1>3, <1>4, <1>5 DEF Replayed

\* A node that applies an entry: one of those its file has, or the next.
LEMMA ReplayApplies ==
  ASSUME DiskTypes, NEW n \in Nodes, Apply(n), NEW h \in applied[n]..Len(log), Replayed(n, h)
  PROVE  \E k \in applied[n] + 1..Len(log) : Replayed(n, k)'
<1>1. PICK i : i = applied[n] + 1
  OBVIOUS
<1>2. /\ i \in 1..Len(log) /\ i \in Nat /\ NextEntry(n) = log[i] /\ log' = log
      /\ Len(log) \in Nat /\ h \in 0..Len(log) /\ (i <= h \/ i = h + 1)
  BY <1>1, ApplyNext, NodeTypes
<1>3. ASSUME NEW j, IsSet(j)', Stored(n, log[j].cmd.key) \/ j = i
      PROVE  (Stored(n, log[j].cmd.key))'
  <2>1. log'[j] = log[j] /\ log[j].cmd.op = "set"
    BY <1>2, <1>3 DEF IsSet
  <2>2. CASE Stored(n, log[j].cmd.key)
    <3>1. \A x \in Place(log[j].cmd.key) : x \in 1..Len(file'[n]) /\ file'[n][x] = "@"
      BY <2>2, ApplyStored DEF Stored
    <3> QED BY <2>1, <3>1 DEF Stored, Place, Stride
  <2>3. CASE j = i
    <3>1. \A x \in Place(log[j].cmd.key) : x \in 1..Len(file'[n]) /\ file'[n][x] = "@"
      BY <1>2, <2>1, <2>3, ApplyStored
    <3> QED BY <2>1, <3>1 DEF Stored, Place, Stride
  <2> QED BY <1>3, <2>2, <2>3
<1>4. CASE i <= h
  <2>1. NextEntry(n).cmd.op = "set" => Stored(n, NextEntry(n).cmd.key)
    <3>1. i \in 1..h
      BY <1>2, <1>4
    <3> QED BY <1>2, <3>1 DEF Replayed, IsSet
  <2>2. file'[n] = file[n]
    BY <2>1, ReplaySame
  <2>3. ASSUME NEW j \in 1..h, IsSet(j)' PROVE (Stored(n, log[j].cmd.key))'
    <3>1. IsSet(j)
      BY <1>2, <2>3 DEF IsSet
    <3> QED BY <1>3, <2>3, <3>1 DEF Replayed
  <2>4. file'[n] = FileAfter(SubSeq(log', 1, h))
    BY <1>2, <2>2 DEF Replayed
  <2>5. Replayed(n, h)'
    BY <2>3, <2>4 DEF Replayed
  <2> QED BY <1>1, <1>2, <1>4, <2>5
<1>5. CASE i = h + 1
  <2>1. PICK e \in Entry : e = log[i]
    BY <1>2, EntryTypes
  <2>2. log \in Seq(Entry) /\ i - 1 = h
    BY <1>2, <1>5 DEF DiskTypes, TypeOK
  <2>3. PICK s \in Seq(Entry) : s = SubSeq(log, 1, h)
    BY <1>2, <2>2, BeginningStep
  <2>4. SubSeq(log, 1, i) = Append(s, e)
    BY <1>2, <2>1, <2>2, <2>3, BeginningStep
  <2>5. FileAfter(Append(s, e)) = AfterEntry(FileAfter(s), e) /\ FileAfter(s) = file[n]
    BY <2>3, FileAfterStep DEF Replayed
  <2>6. AfterEntry(file[n], e) = file'[n]
    <3>1. e.cmd \notin Panicking(file[n]) /\ file'[n] = ApplyFile(file[n], e.cmd)
      BY <1>2, <2>1 DEF Apply, DiskTypes
    <3> QED BY <3>1 DEF AfterEntry
  <2>7. file'[n] = FileAfter(SubSeq(log', 1, i))
    BY <1>2, <2>4, <2>5, <2>6
  <2>8. ASSUME NEW j \in 1..i, IsSet(j)' PROVE (Stored(n, log[j].cmd.key))'
    <3>1. IsSet(j) /\ (j \in 1..h \/ j = i)
      BY <1>2, <1>5, <2>8 DEF IsSet
    <3> QED BY <1>3, <2>8, <3>1 DEF Replayed
  <2>9. Replayed(n, i)'
    BY <2>7, <2>8 DEF Replayed
  <2> QED BY <1>1, <1>2, <2>9
<1> QED BY <1>2, <1>4, <1>5

\* Every step.
LEMMA ReplayStep == ASSUME DiskTypes, ReplayInv, [Next]_vars PROVE ReplayInv'
<1> SUFFICES ASSUME groups' = 0, NEW n \in Nodes PROVE (\E h \in applied[n]..Len(log) : Replayed(n, h))'
  BY DEF ReplayInv
<1>0. Len(log) \in Nat /\ log \in Seq(Entry) /\ applied \in [Nodes -> Nat] /\ file \in [Nodes -> Seq(Cells)]
      /\ groups \in Nat /\ applied[n] \in Nat
  BY NodeTypes, DiskAssumption DEF DiskTypes, TypeOK, DiskAssumption
<1>1. ASSUME groups = 0, log' = log \/ \E e : log' = Append(log, e), file'[n] = file[n],
             applied'[n] = applied[n] \/ applied'[n] = 0
      PROVE  \E h \in applied'[n]..Len(log') : Replayed(n, h)'
  <2>1. PICK h \in applied[n]..Len(log) : Replayed(n, h)
    BY <1>1 DEF ReplayInv
  <2>2. h \in 0..Len(log) /\ h \in Nat
    BY <1>0
  <2>3. \E T : log' \in Seq(T) /\ Len(log) <= Len(log') /\ \A j \in 1..Len(log) : log'[j] = log[j]
    <3>1. CASE log' = log
      BY <1>0, <3>1
    <3>2. ASSUME NEW e, log' = Append(log, e)
          PROVE  log' \in Seq(Entry \cup {e}) /\ Len(log) <= Len(log') /\ \A j \in 1..Len(log) : log'[j] = log[j]
      <4>1. log \in Seq(Entry \cup {e}) /\ e \in Entry \cup {e}
        BY <1>0
      <4> QED BY <1>0, <3>2, <4>1, AppendProperties
    <3> QED BY <1>1, <3>1, <3>2
  <2>4. h \in 0..Len(log') /\ Replayed(n, h)'
    BY <1>1, <2>1, <2>2, <2>3, ReplayStays
  <2>5. h \in applied'[n]..Len(log')
    BY <1>0, <1>1, <2>2, <2>4
  <2> QED BY <2>4, <2>5
<1>2. ASSUME NEW m \in Nodes, NEW c \in Commands, Propose(m, c)
      PROVE  \E h \in applied'[n]..Len(log') : Replayed(n, h)'
  BY <1>1, <1>2 DEF Propose
<1>3. ASSUME NEW m \in Nodes, Apply(m) PROVE \E h \in applied'[n]..Len(log') : Replayed(n, h)'
  <2>1. groups' = groups /\ log' = log
    BY <1>3 DEF Apply
  <2>2. CASE m = n
    <3>1. PICK h \in applied[n]..Len(log) : Replayed(n, h)
      BY <2>1 DEF ReplayInv
    <3>2. applied'[n] = applied[n] + 1
      BY <1>0, <1>3, <2>2 DEF Apply
    <3> QED BY <1>3, <2>1, <2>2, <3>1, <3>2, ReplayApplies
  <2>3. CASE m # n
    BY <1>0, <1>1, <1>3, <2>1, <2>3 DEF Apply
  <2> QED BY <2>2, <2>3
<1>4. ASSUME NEW m \in Nodes, Die(m) PROVE \E h \in applied'[n]..Len(log') : Replayed(n, h)'
  BY <1>0, <1>1, <1>4 DEF Die
<1>5. ASSUME NEW m \in Nodes, ApplyPanic(m) \/ Crash(m) PROVE \E h \in applied'[n]..Len(log') : Replayed(n, h)'
  BY <1>4, <1>5 DEF ApplyPanic, Crash
<1>6. ASSUME NEW m \in Nodes, Restart(m) PROVE \E h \in applied'[n]..Len(log') : Replayed(n, h)'
  BY <1>1, <1>6 DEF Restart
<1>7. CASE GroupRestart
  BY <1>0, <1>7 DEF GroupRestart
<1>8. CASE UNCHANGED vars
  BY <1>1, <1>8 DEF vars
<1> QED BY <1>2, <1>3, <1>5, <1>6, <1>7, <1>8 DEF Next

(***************************************************************************)
(* A replay puts a file through no state that the log does not: while the  *)
(* first group lives, every file is what some beginning of the log leaves, *)
(* one with all the node has applied since it started (WriteAt, New).      *)
(***************************************************************************)
THEOREM ReplaysAreInvisible == Spec => []FileIsOfAPrefix
<1>1. Init => ReplayInv
  <2> SUFFICES ASSUME Init, NEW n \in Nodes PROVE Replayed(n, 0) /\ 0 \in applied[n]..Len(log)
    BY DEF ReplayInv
  <2>1. log = <<>> /\ file[n] = Deployed /\ applied[n] = 0 /\ Len(log) = 0
    BY DEF Init
  <2>2. SubSeq(log, 1, 0) = <<>>
    BY <2>1
  <2>3. 1..0 = {}
    OBVIOUS
  <2>4. file[n] = FileAfter(SubSeq(log, 1, 0))
    BY <2>1, <2>2, FileAfterNone
  <2>5. Replayed(n, 0)
    BY <2>3, <2>4 DEF Replayed
  <2> QED BY <2>1, <2>5
<1>2. DiskTypes /\ ReplayInv /\ [Next]_vars => ReplayInv'
  BY ReplayStep
<1>3. ReplayInv => FileIsOfAPrefix
  BY DEF ReplayInv, Replayed, FileIsOfAPrefix
<1> QED BY <1>1, <1>2, <1>3, DiskInitTypes, DiskTypesStep, PTL DEF Spec
=============================================================================
