------------------------ MODULE RaftPipelineProofs ------------------------
(***************************************************************************)
(* What the applications over RaftPipeline rest on, for every size of the  *)
(* group: the types, who has proposals in flight, and the order in which   *)
(* what was accepted may still commit.                                     *)
(***************************************************************************)
EXTENDS RaftPipeline, OrderLemmas

\* A step of the group other than accepting a proposal.
PipeStep ==
  \/ \E r \in Replicas : \/ PipeElect(r) \/ PipeStepDown(r) \/ PipeDie(r) \/ PipeCommit(r)
                         \/ RaftRestart(r) /\ UNCHANGED <<flight, known>>
  \/ \E i \in DOMAIN limbo : PipeInherit(i)

\* What the leader has in flight.
Live == IF leader = None THEN <<>> ELSE flight[leader]

-----------------------------------------------------------------------------
(* Types. *)

\* A group starts in its types.
LEMMA PipeInitType == ASSUME NEW Entries, PipeInit PROVE PipeTypeOK(Entries)
<1>1. 1 \in Replicas
  BY ClusterAssumption DEF ClusterAssumption, Replicas
<1> QED BY <1>1 DEF PipeInit, RaftInit, PipeTypeOK, RaftTypeOK

\* Accepting a proposal keeps them.
LEMMA PipeAcceptType ==
  ASSUME NEW Entries, PipeTypeOK(Entries), NEW r \in Replicas, NEW e \in Entries, PipeAccept(r, e)
  PROVE  PipeTypeOK(Entries)'
  BY DEF PipeAccept, PipeTypeOK, RaftTypeOK, raftVars

\* What may be orphaned by a leader is a sequence of entries.
LEMMA OrphansType ==
  ASSUME NEW Entries, PipeTypeOK(Entries)
  PROVE  Live \in Seq(Entries) /\ \A r \in Replicas : Orphans(r) \in Seq(Entries)
  BY DEF Live, Orphans, PipeTypeOK, RaftTypeOK

\* So do the other steps of the group.
LEMMA PipeStepType ==
  ASSUME NEW Entries, PipeTypeOK(Entries), PipeStep
  PROVE  PipeTypeOK(Entries)'
<1>0. log \in Seq(Entries) /\ limbo \in Seq(Entries) /\ Len(log) \in Nat
  BY DEF PipeTypeOK, RaftTypeOK
<1>1. ASSUME NEW r \in Replicas, PipeElect(r) PROVE PipeTypeOK(Entries)'
  <2>1. limbo' \in Seq(Entries)
    BY <1>0, <1>1, OrphansType DEF PipeElect, RaftElect, Live
  <2> QED BY <1>1, <1>0, <2>1 DEF PipeElect, RaftElect, PipeTypeOK, RaftTypeOK
<1>2. ASSUME NEW r \in Replicas, PipeStepDown(r) PROVE PipeTypeOK(Entries)'
  <2>1. limbo' \in Seq(Entries)
    BY <1>0, <1>2, OrphansType DEF PipeStepDown, RaftStepDown
  <2> QED BY <1>2, <2>1 DEF PipeStepDown, RaftStepDown, PipeTypeOK, RaftTypeOK
<1>3. ASSUME NEW r \in Replicas, PipeDie(r) PROVE PipeTypeOK(Entries)'
  <2>1. limbo' \in Seq(Entries)
    BY <1>0, <1>3, OrphansType DEF PipeDie, RaftDie
  <2> QED BY <1>3, <2>1 DEF PipeDie, RaftDie, PipeTypeOK, RaftTypeOK
<1>4. ASSUME NEW r \in Replicas, PipeCommit(r) PROVE PipeTypeOK(Entries)'
  <2>1. flight[r] \in Seq(Entries) /\ flight[r] # <<>>
    BY <1>4 DEF PipeCommit, PipeTypeOK
  <2>2. Head(flight[r]) \in Entries /\ Tail(flight[r]) \in Seq(Entries)
    BY <2>1
  <2> QED BY <1>0, <1>4, <2>2 DEF PipeCommit, RaftCommit, PipeTypeOK, RaftTypeOK
<1>5. ASSUME NEW r \in Replicas, RaftRestart(r), UNCHANGED <<flight, known>> PROVE PipeTypeOK(Entries)'
  BY <1>5 DEF RaftRestart, PipeTypeOK, RaftTypeOK
<1>6. ASSUME NEW i \in DOMAIN limbo, PipeInherit(i) PROVE PipeTypeOK(Entries)'
  <2>1. i \in 1..Len(limbo)
    BY <1>0
  <2>2. limbo[i] \in Entries
    BY <1>0, <2>1, ElementOfSeq
  <2>3. SubSeq(limbo, i + 1, Len(limbo)) \in Seq(Entries)
    BY <1>0, <2>1, SubSeqProperties
  <2> QED BY <1>0, <1>6, <2>2, <2>3 DEF PipeInherit, RaftInherit, PipeTypeOK, RaftTypeOK
<1> QED BY <1>1, <1>2, <1>3, <1>4, <1>5, <1>6 DEF PipeStep

-----------------------------------------------------------------------------
(* Who has proposals in flight. *)

(***************************************************************************)
(* The leader believes to lead; who does not believe it has nothing in     *)
(* flight; nobody takes more for committed than is.                        *)
(***************************************************************************)
PipeSane ==
  /\ leader # None => leader \in believers
  /\ \A r \in Replicas : r \notin believers => flight[r] = <<>>
  /\ \A r \in Replicas : known[r] <= Len(log)

\* It holds at the start.
LEMMA PipeInitSane == PipeInit => PipeSane
<1> SUFFICES ASSUME PipeInit PROVE PipeSane
  OBVIOUS
<1>1. Len(log) = 0
  BY DEF PipeInit, RaftInit
<1> QED BY <1>1 DEF PipeInit, RaftInit, PipeSane

\* A believer that accepts a proposal keeps it.
LEMMA PipeAcceptSane ==
  ASSUME NEW Entries, PipeTypeOK(Entries), PipeSane, NEW r \in believers, NEW e, PipeAccept(r, e)
  PROVE  PipeSane'
  BY DEF PipeAccept, PipeSane, PipeTypeOK, RaftTypeOK, raftVars

\* So does every step of the group.
LEMMA PipeStepSane ==
  ASSUME NEW Entries, PipeTypeOK(Entries), PipeSane, PipeStep
  PROVE  PipeSane'
<1>0. log \in Seq(Entries) /\ limbo \in Seq(Entries) /\ Len(log) \in Nat
  BY DEF PipeTypeOK, RaftTypeOK
<1>1. ASSUME NEW r \in Replicas, PipeElect(r) PROVE PipeSane'
  BY <1>0, <1>1 DEF PipeElect, RaftElect, PipeSane, PipeTypeOK, RaftTypeOK
<1>2. ASSUME NEW r \in Replicas, PipeStepDown(r) PROVE PipeSane'
  BY <1>2 DEF PipeStepDown, RaftStepDown, PipeSane, PipeTypeOK, RaftTypeOK
<1>3. ASSUME NEW r \in Replicas, PipeDie(r) PROVE PipeSane'
  BY <1>3 DEF PipeDie, RaftDie, PipeSane, PipeTypeOK, RaftTypeOK
<1>4. ASSUME NEW e, log' = Append(log, e), NEW r \in Replicas, known' = [known EXCEPT ![r] = Len(log) + 1]
      PROVE  \A s \in Replicas : known'[s] <= Len(log')
  <2>1. Len(log') = Len(log) + 1
    BY <1>0, <1>4
  <2> QED BY <1>0, <1>4, <2>1 DEF PipeSane, PipeTypeOK
<1>5. ASSUME NEW r \in Replicas, PipeCommit(r) PROVE PipeSane'
  <2>1. \A s \in Replicas : known'[s] <= Len(log')
    BY <1>4, <1>5 DEF PipeCommit, RaftCommit
  <2> QED BY <1>5, <2>1, RaftAssumption DEF RaftAssumption, PipeCommit, RaftCommit, PipeSane, PipeTypeOK
<1>6. ASSUME NEW r \in Replicas, RaftRestart(r), UNCHANGED <<flight, known>> PROVE PipeSane'
  BY <1>6 DEF RaftRestart, PipeSane
<1>7. ASSUME NEW i \in DOMAIN limbo, PipeInherit(i) PROVE PipeSane'
  <2>1. leader \in Replicas
    BY <1>7 DEF PipeInherit, RaftInherit, PipeTypeOK, RaftTypeOK
  <2>2. \A s \in Replicas : known'[s] <= Len(log')
    BY <1>4, <1>7, <2>1 DEF PipeInherit, RaftInherit
  <2> QED BY <1>7, <2>2 DEF PipeInherit, RaftInherit, PipeSane
<1> QED BY <1>1, <1>2, <1>3, <1>5, <1>6, <1>7 DEF PipeStep

-----------------------------------------------------------------------------
(* The order of commits. *)

PipeOrdered(Rel) == CommitOrder(log, limbo, Live, Rel)

\* Nothing is pending at the start.
LEMMA PipeInitOrdered == ASSUME NEW Rel, PipeInit PROVE PipeOrdered(Rel)
<1>1. log = <<>> /\ limbo = <<>> /\ Live = <<>>
  BY ClusterAssumption DEF ClusterAssumption, Replicas, PipeInit, RaftInit, Live
<1> QED BY <1>1, SingleOrder DEF PipeOrdered, CommitOrder

\* A proposal accepted by the leader goes last; one accepted by another never commits.
LEMMA PipeAcceptOrdered ==
  ASSUME NEW Entries, PipeTypeOK(Entries), NEW Rel, PipeOrdered(Rel),
         NEW r \in Replicas, NEW e \in Entries, PipeAccept(r, e),
         r = leader => /\ Follows(log, <<e>>, Rel) /\ Follows(limbo, <<e>>, Rel)
                       /\ Follows(Live, <<e>>, Rel)
  PROVE  PipeOrdered(Rel)'
<1>1. log' = log /\ limbo' = limbo /\ leader' = leader
  BY DEF PipeAccept, raftVars
<1>2. Live \in Seq(Entries) /\ log \in Seq(Entries) /\ limbo \in Seq(Entries)
  BY OrphansType DEF PipeTypeOK, RaftTypeOK
<1>3. CASE r = leader
  <2>1. Live' = Append(Live, e)
    BY <1>1, <1>3, RaftAssumption DEF RaftAssumption, PipeAccept, Live, PipeTypeOK
  <2> QED BY <1>1, <1>2, <1>3, <2>1, AcceptOrder DEF PipeOrdered
<1>4. CASE r # leader
  <2>1. Live' = Live
    BY <1>1, <1>4 DEF PipeAccept, Live, PipeTypeOK, RaftTypeOK
  <2> QED BY <1>1, <2>1 DEF PipeOrdered
<1> QED BY <1>3, <1>4

\* The group's steps keep the order, through every loss of the lead.
LEMMA PipeStepOrdered ==
  ASSUME NEW Entries, PipeTypeOK(Entries), PipeSane, NEW Rel, PipeOrdered(Rel), PipeStep
  PROVE  PipeOrdered(Rel)'
<1>0. /\ Live \in Seq(Entries) /\ log \in Seq(Entries) /\ limbo \in Seq(Entries)
      /\ leader \in Replicas \cup {None} /\ flight \in [Replicas -> Seq(Entries)]
      /\ None \notin Replicas /\ believers \subseteq alive
      /\ CommitOrder(log, limbo, Live, Rel)
  BY OrphansType, RaftAssumption DEF RaftAssumption, PipeTypeOK, RaftTypeOK, PipeOrdered
<1>1. CASE log' = log /\ limbo' = limbo /\ Live' = Live
  BY <1>0, <1>1 DEF PipeOrdered
<1>2. CASE log' = log /\ limbo' = limbo \o Live /\ Live' = <<>>
  BY <1>0, <1>2, FailureOrder DEF PipeOrdered
<1>3. ASSUME NEW r \in Replicas, PipeElect(r) PROVE PipeOrdered(Rel)'
  <2>1. log' = log /\ limbo' = limbo \o Live
    BY <1>3 DEF PipeElect, RaftElect, Live
  <2>2. Live' = <<>>
    BY <1>0, <1>3 DEF PipeElect, RaftElect, Live, PipeSane
  <2> QED BY <1>2, <2>1, <2>2
<1>4. ASSUME NEW r \in Replicas, PipeStepDown(r) \/ PipeDie(r) PROVE PipeOrdered(Rel)'
  <2>1. CASE r = leader
    <3>1. log' = log /\ limbo' = limbo \o Live /\ Live' = <<>>
      BY <1>0, <1>4, <2>1 DEF PipeStepDown, RaftStepDown, PipeDie, RaftDie, Orphans, Live
    <3> QED BY <1>2, <3>1
  <2>2. CASE r # leader
    <3>1. log' = log /\ leader' = leader /\ limbo' = limbo \o <<>>
      BY <1>4, <2>2 DEF PipeStepDown, RaftStepDown, PipeDie, RaftDie, Orphans
    <3>2. limbo' = limbo
      BY <1>0, <3>1
    <3>3. Live' = Live
      BY <1>0, <1>4, <2>2, <3>1 DEF PipeStepDown, PipeDie, Live
    <3> QED BY <1>1, <3>1, <3>2, <3>3
  <2> QED BY <2>1, <2>2
<1>5. ASSUME NEW r \in Replicas, PipeCommit(r) PROVE PipeOrdered(Rel)'
  <2>1. Live = flight[r] /\ Live # <<>>
    BY <1>0, <1>5 DEF PipeCommit, RaftCommit, Live
  <2>2. log' = Append(log, Head(Live)) /\ limbo' = <<>> /\ Live' = Tail(Live)
    BY <1>0, <1>5, <2>1 DEF PipeCommit, RaftCommit, Live
  <2>3. CommitOrder(Append(log, Head(Live)), <<>>, Tail(Live), Rel)
    BY <1>0, <2>1, OwnCommitOrder
  <2> QED BY <2>2, <2>3 DEF PipeOrdered
<1>6. ASSUME NEW r \in Replicas, RaftRestart(r), UNCHANGED <<flight, known>> PROVE PipeOrdered(Rel)'
  <2>1. log' = log /\ limbo' = limbo /\ Live' = Live
    BY <1>6 DEF RaftRestart, Live
  <2> QED BY <1>1, <2>1
<1>7. ASSUME NEW i \in DOMAIN limbo, PipeInherit(i) PROVE PipeOrdered(Rel)'
  <2>1. /\ log' = Append(log, limbo[i]) /\ limbo' = SubSeq(limbo, i + 1, Len(limbo))
        /\ Live' = Live /\ i \in 1..Len(limbo)
    BY <1>0, <1>7 DEF PipeInherit, RaftInherit, Live
  <2>2. CommitOrder(Append(log, limbo[i]), SubSeq(limbo, i + 1, Len(limbo)), Live, Rel)
    BY <1>0, <2>1, InheritOrder
  <2> QED BY <2>1, <2>2 DEF PipeOrdered
<1> QED BY <1>3, <1>4, <1>5, <1>6, <1>7 DEF PipeStep

-----------------------------------------------------------------------------
(* What has committed or may, as one sequence. *)

Pending == (log \o limbo) \o Live

\* It is of entries.
LEMMA PendingType ==
  ASSUME NEW Entries, PipeTypeOK(Entries)
  PROVE  /\ Pending \in Seq(Entries) /\ Len(Pending) \in Nat /\ DOMAIN Pending = 1..Len(Pending)
         /\ \A i \in DOMAIN log : i \in DOMAIN Pending /\ Pending[i] = log[i]
<1>1. log \in Seq(Entries) /\ limbo \in Seq(Entries) /\ Live \in Seq(Entries)
  BY OrphansType DEF PipeTypeOK, RaftTypeOK
<1>2. PICK a \in Seq(Entries), b \in Seq(Entries), c \in Seq(Entries) : a = log /\ b = limbo /\ c = Live
  BY <1>1
<1>3. /\ (a \o b) \o c \in Seq(Entries)
      /\ Len((a \o b) \o c) = Len(a) + Len(b) + Len(c)
      /\ DOMAIN ((a \o b) \o c) = 1..Len(a) + Len(b) + Len(c)
      /\ \A i \in 1..Len(a) + Len(b) + Len(c) :
           i <= Len(a) => ((a \o b) \o c)[i] = a[i]
  BY ConcatThree
<1>4. DOMAIN a = 1..Len(a) /\ Len(a) \in Nat /\ Len(b) \in Nat /\ Len(c) \in Nat
  OBVIOUS
<1>5. \A i \in DOMAIN a : i \in 1..Len(a) + Len(b) + Len(c) /\ i <= Len(a)
  BY <1>4
<1>6. (a \o b) \o c = Pending
  BY <1>2 DEF Pending
<1> QED BY <1>2, <1>3, <1>4, <1>5, <1>6

\* The leader's proposal goes to its end; one of a deposed leader is not of it.
LEMMA PipeAcceptKeeps ==
  ASSUME NEW Entries, PipeTypeOK(Entries), NEW r \in Replicas, NEW e \in Entries, PipeAccept(r, e)
  PROVE  Pending' = Pending \/ Pending' = Append(Pending, e)
<1>1. log' = log /\ limbo' = limbo /\ leader' = leader /\ leader \in Replicas \cup {None} /\ None \notin Replicas
  BY RaftAssumption DEF RaftAssumption, PipeAccept, raftVars, PipeTypeOK, RaftTypeOK
<1>2. CASE r = leader
  <2>1. Live' = Append(Live, e)
    BY <1>1, <1>2 DEF PipeAccept, Live, PipeTypeOK
  <2>2. PICK a \in Seq(Entries), c \in Seq(Entries) : a = log \o limbo /\ c = Live
    <3>1. log \in Seq(Entries) /\ limbo \in Seq(Entries) /\ Live \in Seq(Entries)
      BY OrphansType DEF PipeTypeOK, RaftTypeOK
    <3>2. log \o limbo \in Seq(Entries)
      BY <3>1, ConcatProperties
    <3> QED BY <3>1, <3>2
  <2>3. a \o Append(c, e) = Append(a \o c, e)
    OBVIOUS
  <2> QED BY <1>1, <2>1, <2>2, <2>3 DEF Pending
<1>3. CASE r # leader
  <2>1. Live' = Live
    BY <1>1, <1>3 DEF PipeAccept, Live, PipeTypeOK
  <2> QED BY <1>1, <2>1 DEF Pending
<1> QED BY <1>2, <1>3

\* No other step of the group puts anything in it, and what stays keeps its order.
LEMMA PipeStepKeeps ==
  ASSUME NEW Entries, PipeTypeOK(Entries), PipeSane, PipeStep
  PROVE  Kept(Pending, Pending')
<1>0. /\ Live \in Seq(Entries) /\ log \in Seq(Entries) /\ limbo \in Seq(Entries)
      /\ leader \in Replicas \cup {None} /\ flight \in [Replicas -> Seq(Entries)]
      /\ None \notin Replicas /\ believers \subseteq alive
  BY OrphansType, RaftAssumption DEF RaftAssumption, PipeTypeOK, RaftTypeOK
<1>1. CASE log' = log /\ limbo' = limbo /\ Live' = Live
  <2>1. Pending' = Pending
    BY <1>1 DEF Pending
  <2> QED BY <2>1, PendingType, KeptSame
<1>2. CASE log' = log /\ limbo' = limbo \o Live /\ Live' = <<>>
  <2>1. Pending' = (log \o (limbo \o Live)) \o <<>>
    BY <1>2 DEF Pending
  <2> QED BY <1>0, <2>1, KeptFailure DEF Pending
<1>3. ASSUME NEW r \in Replicas, PipeElect(r) PROVE Kept(Pending, Pending')
  <2>1. log' = log /\ limbo' = limbo \o Live
    BY <1>3 DEF PipeElect, RaftElect, Live
  <2>2. Live' = <<>>
    BY <1>0, <1>3 DEF PipeElect, RaftElect, Live, PipeSane
  <2> QED BY <1>2, <2>1, <2>2
<1>4. ASSUME NEW r \in Replicas, PipeStepDown(r) \/ PipeDie(r) PROVE Kept(Pending, Pending')
  <2>1. CASE r = leader
    <3>1. log' = log /\ limbo' = limbo \o Live /\ Live' = <<>>
      BY <1>0, <1>4, <2>1 DEF PipeStepDown, RaftStepDown, PipeDie, RaftDie, Orphans, Live
    <3> QED BY <1>2, <3>1
  <2>2. CASE r # leader
    <3>1. log' = log /\ leader' = leader /\ limbo' = limbo \o <<>>
      BY <1>4, <2>2 DEF PipeStepDown, RaftStepDown, PipeDie, RaftDie, Orphans
    <3>2. limbo' = limbo
      BY <1>0, <3>1
    <3>3. Live' = Live
      BY <1>0, <1>4, <2>2, <3>1 DEF PipeStepDown, PipeDie, Live
    <3> QED BY <1>1, <3>1, <3>2, <3>3
  <2> QED BY <2>1, <2>2
<1>5. ASSUME NEW r \in Replicas, PipeCommit(r) PROVE Kept(Pending, Pending')
  <2>1. Live = flight[r] /\ Live # <<>>
    BY <1>0, <1>5 DEF PipeCommit, RaftCommit, Live
  <2>2. log' = Append(log, Head(Live)) /\ limbo' = <<>> /\ Live' = Tail(Live)
    BY <1>0, <1>5, <2>1 DEF PipeCommit, RaftCommit, Live
  <2>3. Pending' = (Append(log, Head(Live)) \o <<>>) \o Tail(Live)
    BY <2>2 DEF Pending
  <2> QED BY <1>0, <2>1, <2>3, KeptCommit DEF Pending
<1>6. ASSUME NEW r \in Replicas, RaftRestart(r), UNCHANGED <<flight, known>> PROVE Kept(Pending, Pending')
  <2>1. log' = log /\ limbo' = limbo /\ Live' = Live
    BY <1>6 DEF RaftRestart, Live
  <2> QED BY <1>1, <2>1
<1>7. ASSUME NEW i \in DOMAIN limbo, PipeInherit(i) PROVE Kept(Pending, Pending')
  <2>1. /\ log' = Append(log, limbo[i]) /\ limbo' = SubSeq(limbo, i + 1, Len(limbo))
        /\ Live' = Live /\ i \in 1..Len(limbo)
    BY <1>0, <1>7 DEF PipeInherit, RaftInherit, Live
  <2>2. Pending' = (Append(log, limbo[i]) \o SubSeq(limbo, i + 1, Len(limbo))) \o Live
    BY <2>1 DEF Pending
  <2> QED BY <1>0, <2>1, <2>2, KeptCommit DEF Pending
<1> QED BY <1>3, <1>4, <1>5, <1>6, <1>7 DEF PipeStep
=============================================================================
