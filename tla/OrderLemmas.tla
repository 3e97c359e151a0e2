---------------------------- MODULE OrderLemmas ----------------------------
(***************************************************************************)
(* Lemmas of several components' proofs: induction over numbers, and       *)
(* sequences in order.                                                     *)
(***************************************************************************)
EXTENDS Naturals, Sequences, SequenceTheorems, FiniteSetTheorems, TLAPS

-----------------------------------------------------------------------------
(* Induction. *)

\* A set of numbers has a smallest one.
LEMMA Smallest ==
  ASSUME NEW W \in SUBSET Nat, W # {}
  PROVE  \E k \in W : \A j \in W : k <= j
<1> DEFINE T == {1..k : k \in W}
<1>1. T \subseteq FiniteSubsetsOf(Nat) /\ T # {}
  <2>1. \A k \in W : 1..k \in SUBSET Nat /\ IsFiniteSet(1..k)
    BY FS_Interval
  <2> QED BY <2>1 DEF FiniteSubsetsOf
<1>2. IsWellFoundedOn(StrictSubsetOrdering(Nat), FiniteSubsetsOf(Nat))
  BY FS_StrictSubsetOrderingWellFounded
<1>3. PICK x \in T : \A y \in T : ~(<<y, x>> \in StrictSubsetOrdering(Nat))
  BY <1>1, <1>2, WFMin
<1>4. PICK k \in W : x = 1..k
  BY <1>3
<1>5. ASSUME NEW j \in W, j < k PROVE FALSE
  <2>1. 1..j \in T /\ 1..j \subseteq 1..k /\ k \in 1..k /\ k \notin 1..j
    BY <1>4, <1>5
  <2>2. <<1..j, 1..k>> \in StrictSubsetOrdering(Nat)
    BY <2>1 DEF StrictSubsetOrdering
  <2> QED BY <1>3, <1>4, <2>1, <2>2
<1> QED BY <1>5

\* Induction: a set of numbers with 0 and the successors of its members has all of them.
LEMMA Induction ==
  ASSUME NEW W \in SUBSET Nat, 0 \in W, \A n \in W : n + 1 \in W
  PROVE  W = Nat
<1> SUFFICES ASSUME Nat \ W # {} PROVE FALSE
  OBVIOUS
<1>1. Nat \ W \in SUBSET Nat
  OBVIOUS
<1>2. PICK k \in Nat \ W : \A j \in Nat \ W : k <= j
  BY <1>1, Smallest
<1>3. k # 0 /\ k - 1 \in Nat /\ ~(k <= k - 1)
  BY <1>2
<1>4. k - 1 \in W
  BY <1>2, <1>3
<1> QED BY <1>2, <1>3, <1>4

\* f goes on from a by H, along the numbers to n; H takes a number and a member of S.
Recursive(f, a, H, n) == f[0] = a /\ \A i \in 1..n : f[i] = H[<<i, f[i - 1]>>]

StepsIn(H, S) == H \in [Nat \X S -> S]

\* A recursion along the numbers has a result at every one.
LEMMA Recursion ==
  ASSUME NEW S, NEW a \in S, NEW n \in Nat, NEW H, StepsIn(H, S)
  PROVE  \E f \in [0..n -> S] : Recursive(f, a, H, n)
<1>0. H \in [Nat \X S -> S]
  BY DEF StepsIn
<1> DEFINE W == {k \in Nat : \E f \in [0..k -> S] : f[0] = a /\ \A i \in 1..k : f[i] = H[<<i, f[i - 1]>>]}
<1>1. 0 \in W
  <2> DEFINE f == [i \in 0..0 |-> a]
  <2>1. f \in [0..0 -> S] /\ f[0] = a /\ \A i \in 1..0 : FALSE
    OBVIOUS
  <2> HIDE DEF f
  <2> QED BY <2>1
<1>2. ASSUME NEW k \in W PROVE k + 1 \in W
  <2>1. k \in Nat
    OBVIOUS
  <2>2. PICK f \in [0..k -> S] : f[0] = a /\ \A i \in 1..k : f[i] = H[<<i, f[i - 1]>>]
    OBVIOUS
  <2> DEFINE g == [i \in 0..k + 1 |-> IF i <= k THEN f[i] ELSE H[<<k + 1, f[k]>>]]
  <2>3. g \in [0..k + 1 -> S]
    <3>1. H[<<k + 1, f[k]>>] \in S
      BY <1>0, <2>1
    <3>2. \A i \in 0..k + 1 : i <= k => f[i] \in S
      BY <2>1
    <3> QED BY <3>1, <3>2
  <2>4. g[0] = a
    BY <2>1, <2>2
  <2>5. ASSUME NEW i \in 1..k + 1 PROVE g[i] = H[<<i, g[i - 1]>>]
    <3>1. i - 1 \in 0..k + 1 /\ i \in 0..k + 1 /\ i - 1 <= k /\ g[i - 1] = f[i - 1]
      BY <2>1
    <3>2. CASE i <= k
      BY <2>1, <2>2, <3>1, <3>2
    <3>3. CASE i = k + 1
      BY <2>1, <3>1, <3>3
    <3> QED BY <2>1, <3>2, <3>3
  <2> HIDE DEF g
  <2> QED BY <2>1, <2>3, <2>4, <2>5
<1> HIDE DEF W
<1>3. W = Nat
  <2>1. W \in SUBSET Nat
    BY DEF W
  <2> QED BY <1>1, <1>2, <2>1, Induction
<1> QED BY <1>3 DEF W, Recursive

\* There is one such result: what goes on in the same way is the same.
LEMMA RecursionUnique ==
  ASSUME NEW S, NEW a \in S, NEW n \in Nat, NEW H, NEW f \in [0..n -> S], Recursive(f, a, H, n),
         NEW m \in 0..n, NEW g, g[0] = a, \A i \in 1..m : g[i - 1] \in S => g[i] = H[<<i, g[i - 1]>>]
  PROVE  g[m] = f[m]
<1> DEFINE W == {k \in Nat : k <= m => g[k] = f[k]}
<1>1. 0 \in W
  BY DEF Recursive
<1>2. ASSUME NEW k \in W PROVE k + 1 \in W
  <2>1. k \in Nat /\ k + 1 \in Nat
    OBVIOUS
  <2>2. ASSUME k + 1 <= m PROVE g[k + 1] = f[k + 1]
    <3>1. PICK i \in 1..m : i = k + 1
      BY <2>1, <2>2
    <3>2. i - 1 = k /\ i \in 1..n /\ k \in 0..n
      BY <2>1, <3>1
    <3>3. g[k] = f[k]
      BY <2>1, <2>2
    <3>4. f[k] \in S
      BY <3>2
    <3>5. f[i] = H[<<i, f[i - 1]>>]
      BY <3>2 DEF Recursive
    <3>6. g[i] = H[<<i, g[i - 1]>>]
      BY <3>2, <3>3, <3>4
    <3> QED BY <3>1, <3>2, <3>3, <3>5, <3>6
  <2> QED BY <2>1, <2>2
<1>3. m \in W
  <2>1. W \in SUBSET Nat /\ m \in Nat
    OBVIOUS
  <2> HIDE DEF W
  <2> QED BY <1>1, <1>2, <2>1, Induction
<1> QED BY <1>3

-----------------------------------------------------------------------------
(* Beginnings. *)

\* The beginning of a log.
LEMMA Beginning ==
  ASSUME NEW S, NEW es \in Seq(S), NEW h \in 0..Len(es)
  PROVE  /\ SubSeq(es, 1, h) \in Seq(S) /\ Len(SubSeq(es, 1, h)) = h
         /\ \A i \in 1..h : SubSeq(es, 1, h)[i] = es[i]
<1>1. h \in Int /\ 1 \in Int /\ \A i \in 1..h : es[i] \in S
  OBVIOUS
<1>2. CASE h = 0
  BY <1>2, SubSeqEmpty
<1>3. CASE h # 0
  BY <1>1, <1>3, SubSeqProperties
<1> QED BY <1>2, <1>3

\* The entry behind the beginning of a log.
LEMMA BeginningStep ==
  ASSUME NEW S, NEW es \in Seq(S), NEW j \in 1..Len(es)
  PROVE  /\ SubSeq(es, 1, j - 1) \in Seq(S) /\ es[j] \in S
         /\ SubSeq(es, 1, j) = Append(SubSeq(es, 1, j - 1), es[j])
<1>1. j - 1 \in 0..Len(es) /\ j \in 0..Len(es) /\ es[j] \in S
  OBVIOUS
<1>2. /\ SubSeq(es, 1, j) \in Seq(S) /\ Len(SubSeq(es, 1, j)) = j
      /\ \A i \in 1..j : SubSeq(es, 1, j)[i] = es[i]
  BY <1>1, Beginning
<1>3. PICK s : s = SubSeq(es, 1, j - 1)
  OBVIOUS
<1>4. s \in Seq(S) /\ Len(s) = j - 1 /\ \A i \in 1..j - 1 : s[i] = es[i]
  BY <1>1, <1>3, Beginning
<1>5. PICK t : t = Append(s, es[j])
  OBVIOUS
<1>6. t \in Seq(S) /\ Len(t) = j /\ \A i \in 1..j : t[i] = es[i]
  <2>1. t \in Seq(S) /\ Len(t) = Len(s) + 1 /\ t[Len(s) + 1] = es[j] /\ \A i \in 1..Len(s) : t[i] = s[i]
    BY <1>1, <1>4, <1>5, AppendProperties
  <2>2. \A i \in 1..j : i = j \/ i \in 1..j - 1
    OBVIOUS
  <2> QED BY <1>4, <2>1, <2>2
<1>7. SubSeq(es, 1, j) = t
  BY <1>2, <1>6, SeqEqual
<1> QED BY <1>1, <1>3, <1>4, <1>5, <1>7

\* A longer log begins in the same way.
LEMMA BeginningStays ==
  ASSUME NEW S, NEW es \in Seq(S), NEW T, NEW ts \in Seq(T), NEW h \in 0..Len(es),
         Len(es) <= Len(ts), \A i \in 1..Len(es) : ts[i] = es[i]
  PROVE  SubSeq(ts, 1, h) = SubSeq(es, 1, h)
<1>1. h \in 0..Len(ts) /\ \A i \in 1..h : i \in 1..Len(es)
  OBVIOUS
<1>2. PICK s : s = SubSeq(es, 1, h)
  OBVIOUS
<1>3. PICK t : t = SubSeq(ts, 1, h)
  OBVIOUS
<1>4. s \in Seq(S) /\ Len(s) = h /\ \A i \in 1..h : s[i] = es[i]
  BY <1>2, Beginning
<1>5. t \in Seq(T) /\ Len(t) = h /\ \A i \in 1..h : t[i] = ts[i]
  BY <1>1, <1>3, Beginning
<1>6. \A i \in 1..h : t[i] = s[i]
  BY <1>1, <1>4, <1>5
<1>7. t = s
  BY <1>4, <1>5, <1>6, SeqEqual
<1> QED BY <1>2, <1>3, <1>7

-----------------------------------------------------------------------------
(***************************************************************************)
(* Order.  Rel is the set of the pairs <<e, f>> such that e may come before*)
(* f: not a total order, nor a transitive one, as entries of different     *)
(* proposers may come in any.                                              *)
(***************************************************************************)
Follows(s, t, Rel) == \A i \in DOMAIN s : \A j \in DOMAIN t : <<s[i], t[j]>> \in Rel

InOrder(s, Rel) == \A i, j \in DOMAIN s : i < j => <<s[i], s[j]>> \in Rel

-----------------------------------------------------------------------------
\* The order of sequences put together, cut, or continued.
LEMMA ConcatInOrder ==
  ASSUME NEW S, NEW Rel, NEW s \in Seq(S), NEW t \in Seq(S),
         InOrder(s, Rel), InOrder(t, Rel), Follows(s, t, Rel)
  PROVE  InOrder(s \o t, Rel)
<1>1. /\ s \o t \in Seq(S) /\ Len(s \o t) = Len(s) + Len(t) /\ Len(s) \in Nat /\ Len(t) \in Nat
      /\ \A i \in 1..Len(s) + Len(t) : (s \o t)[i] = IF i <= Len(s) THEN s[i] ELSE t[i - Len(s)]
  BY ConcatProperties
<1>2. DOMAIN s = 1..Len(s) /\ DOMAIN t = 1..Len(t) /\ DOMAIN (s \o t) = 1..Len(s) + Len(t)
  BY <1>1
<1> SUFFICES ASSUME NEW i \in 1..Len(s) + Len(t), NEW j \in 1..Len(s) + Len(t), i < j
             PROVE  <<(s \o t)[i], (s \o t)[j]>> \in Rel
  BY <1>2 DEF InOrder
<1>3. CASE j <= Len(s)
  BY <1>1, <1>2, <1>3 DEF InOrder
<1>4. CASE i <= Len(s) /\ ~(j <= Len(s))
  <2>1. (s \o t)[i] = s[i] /\ (s \o t)[j] = t[j - Len(s)]
    BY <1>1, <1>4
  <2>2. i \in DOMAIN s /\ j - Len(s) \in DOMAIN t
    BY <1>1, <1>2, <1>4
  <2> QED BY <2>1, <2>2 DEF Follows
<1>5. CASE ~(i <= Len(s))
  <2>1. (s \o t)[i] = t[i - Len(s)] /\ (s \o t)[j] = t[j - Len(s)]
    BY <1>1, <1>5
  <2>2. i - Len(s) \in DOMAIN t /\ j - Len(s) \in DOMAIN t /\ i - Len(s) < j - Len(s)
    BY <1>1, <1>2, <1>5
  <2> QED BY <2>1, <2>2 DEF InOrder
<1> QED BY <1>1, <1>3, <1>4, <1>5

\* A sequence follows another if its parts do.
LEMMA ConcatFollows ==
  ASSUME NEW S, NEW Rel, NEW s \in Seq(S), NEW t \in Seq(S), NEW u \in Seq(S)
  PROVE  /\ Follows(u, s, Rel) /\ Follows(u, t, Rel) => Follows(u, s \o t, Rel)
         /\ Follows(s, u, Rel) /\ Follows(t, u, Rel) => Follows(s \o t, u, Rel)
<1>1. /\ s \o t \in Seq(S) /\ Len(s \o t) = Len(s) + Len(t) /\ Len(s) \in Nat /\ Len(t) \in Nat
      /\ \A i \in 1..Len(s) + Len(t) : (s \o t)[i] = IF i <= Len(s) THEN s[i] ELSE t[i - Len(s)]
  BY ConcatProperties
<1>2. DOMAIN s = 1..Len(s) /\ DOMAIN t = 1..Len(t) /\ DOMAIN (s \o t) = 1..Len(s) + Len(t)
  BY <1>1
<1>3. \A i \in DOMAIN (s \o t) :
        \/ i \in DOMAIN s /\ (s \o t)[i] = s[i]
        \/ i - Len(s) \in DOMAIN t /\ (s \o t)[i] = t[i - Len(s)]
  BY <1>1, <1>2
<1> QED BY <1>3 DEF Follows

\* A sequence with one element.
LEMMA SingleOrder ==
  ASSUME NEW Rel, NEW e, NEW s
  PROVE  /\ InOrder(<<e>>, Rel) /\ InOrder(<<>>, Rel)
         /\ Follows(<<>>, s, Rel) /\ Follows(s, <<>>, Rel)
         /\ Follows(s, <<e>>, Rel) <=> \A i \in DOMAIN s : <<s[i], e>> \in Rel
         /\ Follows(<<e>>, s, Rel) <=> \A i \in DOMAIN s : <<e, s[i]>> \in Rel
  BY DEF InOrder, Follows

\* What is cut from the end of a sequence in order.
LEMMA SuffixOrder ==
  ASSUME NEW S, NEW Rel, NEW s \in Seq(S), NEW i \in 1..Len(s)
  PROVE  LET u == SubSeq(s, i + 1, Len(s)) IN
         /\ u \in Seq(S) /\ s[i] \in S
         /\ InOrder(s, Rel) => InOrder(u, Rel) /\ Follows(<<s[i]>>, u, Rel)
         /\ \A t : /\ Follows(t, s, Rel) => Follows(t, u, Rel) /\ Follows(t, <<s[i]>>, Rel)
                   /\ Follows(s, t, Rel) => Follows(u, t, Rel) /\ Follows(<<s[i]>>, t, Rel)
<1> DEFINE u == SubSeq(s, i + 1, Len(s))
<1>1. /\ u \in Seq(S) /\ s[i] \in S /\ Len(s) \in Nat /\ DOMAIN s = 1..Len(s)
      /\ Len(u) = Len(s) - i
      /\ \A k \in 1..Len(u) : u[k] = s[k + i]
  <2>1. Len(s) \in Nat /\ i + 1 \in 1..Len(s) + 1 /\ i \in Nat
    OBVIOUS
  <2>2. /\ u \in Seq(S)
        /\ Len(u) = IF i + 1 <= Len(s) THEN Len(s) - (i + 1) + 1 ELSE 0
        /\ \A k \in 1..Len(s) - (i + 1) + 1 : u[k] = s[(i + 1) + k - 1]
    BY <2>1, SubSeqProperties
  <2>3. Len(u) = Len(s) - i
    BY <2>1, <2>2
  <2>4. \A k \in 1..Len(u) : k \in 1..Len(s) - (i + 1) + 1 /\ (i + 1) + k - 1 = k + i
    BY <2>1, <2>3
  <2> QED BY <2>2, <2>3, <2>4, ElementOfSeq
<1>2. DOMAIN u = 1..Len(u)
  BY <1>1
<1> HIDE DEF u
<1>3. \A k \in DOMAIN u : k + i \in DOMAIN s /\ i < k + i /\ u[k] = s[k + i] /\ k \in Nat
  BY <1>1, <1>2
<1>4. i \in DOMAIN s
  BY <1>1
<1>5. ASSUME InOrder(s, Rel) PROVE InOrder(u, Rel) /\ Follows(<<s[i]>>, u, Rel)
  <2>1. InOrder(u, Rel)
    <3> SUFFICES ASSUME NEW k \in DOMAIN u, NEW l \in DOMAIN u, k < l PROVE <<u[k], u[l]>> \in Rel
      BY DEF InOrder
    <3>1. k + i < l + i
      BY <1>1, <1>3
    <3> QED BY <1>3, <1>5, <3>1 DEF InOrder
  <2>2. \A k \in DOMAIN u : <<s[i], u[k]>> \in Rel
    BY <1>3, <1>4, <1>5 DEF InOrder
  <2> QED BY <2>1, <2>2, SingleOrder
<1>6. ASSUME NEW t, Follows(t, s, Rel) PROVE Follows(t, u, Rel) /\ Follows(t, <<s[i]>>, Rel)
  BY <1>3, <1>4, <1>6, SingleOrder DEF Follows
<1>7. ASSUME NEW t, Follows(s, t, Rel) PROVE Follows(u, t, Rel) /\ Follows(<<s[i]>>, t, Rel)
  BY <1>3, <1>4, <1>7, SingleOrder DEF Follows
<1> QED BY <1>1, <1>5, <1>6, <1>7 DEF u

\* A sequence without its first element.
LEMMA TailElements ==
  ASSUME NEW S, NEW s \in Seq(S), s # <<>>
  PROVE  /\ Tail(s) \in Seq(S) /\ Tail(s) = SubSeq(s, 1 + 1, Len(s)) /\ 1 \in 1..Len(s)
         /\ \A i \in DOMAIN Tail(s) : i + 1 \in DOMAIN s /\ Tail(s)[i] = s[i + 1] /\ 1 < i + 1
         /\ 1 \in DOMAIN s /\ s[1] = Head(s) /\ Head(s) \in S
  OBVIOUS

\* Elements of a concatenation.
LEMMA ConcatElements ==
  ASSUME NEW S, NEW s \in Seq(S), NEW t \in Seq(S), NEW i \in DOMAIN (s \o t)
  PROVE  \/ i \in DOMAIN s /\ (s \o t)[i] = s[i]
         \/ i - Len(s) \in DOMAIN t /\ (s \o t)[i] = t[i - Len(s)]
  BY ConcatProperties

-----------------------------------------------------------------------------
(***************************************************************************)
(* A group of replicas has committed the entries in done; those in left,   *)
(* of failed leaders, may still commit; those in live are the leader's     *)
(* proposals.  Whatever happens to them, they can only commit in order.    *)
(***************************************************************************)
CommitOrder(done, left, live, Rel) ==
  /\ InOrder(done, Rel) /\ InOrder(left, Rel) /\ InOrder(live, Rel)
  /\ Follows(done, left, Rel) /\ Follows(done, live, Rel) /\ Follows(left, live, Rel)

\* The leader accepts one more.
LEMMA AcceptOrder ==
  ASSUME NEW S, NEW Rel, NEW a \in Seq(S), NEW b \in Seq(S), NEW c \in Seq(S),
         CommitOrder(a, b, c, Rel), NEW e \in S,
         Follows(a, <<e>>, Rel), Follows(b, <<e>>, Rel), Follows(c, <<e>>, Rel)
  PROVE  CommitOrder(a, b, Append(c, e), Rel)
<1>1. <<e>> \in Seq(S)
  OBVIOUS
<1>2. InOrder(<<e>>, Rel)
  BY SingleOrder
<1>3. InOrder(c \o <<e>>, Rel) /\ Follows(a, c \o <<e>>, Rel) /\ Follows(b, c \o <<e>>, Rel)
  BY <1>1, <1>2, ConcatInOrder, ConcatFollows DEF CommitOrder
<1>4. Append(c, e) = c \o <<e>>
  BY AppendIsConcat
<1> QED BY <1>3, <1>4 DEF CommitOrder

\* The leader fails, and leaves its proposals behind.
LEMMA FailureOrder ==
  ASSUME NEW S, NEW Rel, NEW a \in Seq(S), NEW b \in Seq(S), NEW c \in Seq(S),
         CommitOrder(a, b, c, Rel)
  PROVE  CommitOrder(a, b \o c, <<>>, Rel)
<1>1. InOrder(b \o c, Rel) /\ Follows(a, b \o c, Rel)
  BY ConcatInOrder, ConcatFollows DEF CommitOrder
<1>2. InOrder(<<>>, Rel) /\ Follows(a, <<>>, Rel) /\ Follows(b \o c, <<>>, Rel)
  BY SingleOrder
<1> QED BY <1>1, <1>2 DEF CommitOrder

\* An entry commits that all that remains follows.
LEMMA AppendOrder ==
  ASSUME NEW S, NEW Rel, NEW a \in Seq(S), NEW b \in Seq(S), NEW c \in Seq(S), NEW e \in S,
         CommitOrder(a, b, c, Rel),
         Follows(a, <<e>>, Rel), Follows(<<e>>, b, Rel), Follows(<<e>>, c, Rel)
  PROVE  CommitOrder(Append(a, e), b, c, Rel)
<1>1. <<e>> \in Seq(S)
  OBVIOUS
<1>2. InOrder(<<e>>, Rel)
  BY SingleOrder
<1>3. /\ InOrder(a \o <<e>>, Rel)
      /\ Follows(a \o <<e>>, b, Rel) /\ Follows(a \o <<e>>, c, Rel)
  BY <1>1, <1>2, ConcatInOrder, ConcatFollows DEF CommitOrder
<1>4. Append(a, e) = a \o <<e>>
  BY AppendIsConcat
<1> QED BY <1>3, <1>4 DEF CommitOrder

\* A leader commits an entry of a failed one; those before it are lost.
LEMMA InheritOrder ==
  ASSUME NEW S, NEW Rel, NEW a \in Seq(S), NEW b \in Seq(S), NEW c \in Seq(S),
         CommitOrder(a, b, c, Rel), NEW i \in 1..Len(b)
  PROVE  CommitOrder(Append(a, b[i]), SubSeq(b, i + 1, Len(b)), c, Rel)
<1> DEFINE u == SubSeq(b, i + 1, Len(b))
           e == b[i]
<1>1. /\ u \in Seq(S) /\ e \in S /\ InOrder(u, Rel) /\ Follows(<<e>>, u, Rel)
      /\ Follows(a, u, Rel) /\ Follows(a, <<e>>, Rel)
      /\ Follows(u, c, Rel) /\ Follows(<<e>>, c, Rel)
  BY SuffixOrder DEF CommitOrder
<1> HIDE DEF u, e
<1>2. CommitOrder(a, u, c, Rel)
  BY <1>1 DEF CommitOrder
<1>3. CommitOrder(Append(a, e), u, c, Rel)
  BY <1>1, <1>2, AppendOrder
<1> QED BY <1>3 DEF u, e

\* A leader commits its oldest proposal; what failed leaders left is lost.
LEMMA OwnCommitOrder ==
  ASSUME NEW S, NEW Rel, NEW a \in Seq(S), NEW b \in Seq(S), NEW c \in Seq(S),
         CommitOrder(a, b, c, Rel), c # <<>>
  PROVE  CommitOrder(Append(a, Head(c)), <<>>, Tail(c), Rel)
<1> DEFINE u == SubSeq(c, 1 + 1, Len(c))
           e == c[1]
<1>1. 1 \in 1..Len(c) /\ Head(c) = e /\ Tail(c) = u
  OBVIOUS
<1>2. /\ u \in Seq(S) /\ e \in S /\ InOrder(u, Rel) /\ Follows(<<e>>, u, Rel)
      /\ Follows(a, u, Rel) /\ Follows(a, <<e>>, Rel)
  BY <1>1, SuffixOrder DEF CommitOrder
<1> HIDE DEF u, e
<1>3. <<>> \in Seq(S) /\ CommitOrder(a, <<>>, u, Rel)
  <2>1. InOrder(<<>>, Rel) /\ Follows(a, <<>>, Rel) /\ Follows(<<>>, u, Rel)
    BY SingleOrder
  <2> QED BY <1>2, <2>1 DEF CommitOrder
<1>4. Follows(<<e>>, <<>>, Rel)
  BY DEF Follows
<1>5. CommitOrder(Append(a, e), <<>>, u, Rel)
  BY <1>2, <1>3, <1>4, AppendOrder
<1> QED BY <1>1, <1>5

-----------------------------------------------------------------------------
(***************************************************************************)
(* The same as one sequence: done, left and live put together.  A step of  *)
(* the group leaves things out of it, and a proposal goes to its end.      *)
(***************************************************************************)
Kept(s, t) ==
  \E f \in [DOMAIN t -> DOMAIN s] :
    /\ \A i, j \in DOMAIN t : i < j => f[i] < f[j]
    /\ \A i \in DOMAIN t : t[i] = s[f[i]]

\* Three sequences put together.
LEMMA ConcatThree ==
  ASSUME NEW S, NEW a \in Seq(S), NEW b \in Seq(S), NEW c \in Seq(S)
  PROVE  /\ (a \o b) \o c \in Seq(S)
         /\ Len((a \o b) \o c) = Len(a) + Len(b) + Len(c)
         /\ DOMAIN ((a \o b) \o c) = 1..Len(a) + Len(b) + Len(c)
         /\ \A i \in 1..Len(a) + Len(b) + Len(c) :
              ((a \o b) \o c)[i] = IF i <= Len(a) THEN a[i]
                                   ELSE IF i <= Len(a) + Len(b) THEN b[i - Len(a)]
                                   ELSE c[i - Len(a) - Len(b)]
<1> DEFINE u == a \o b
<1>1. /\ u \in Seq(S) /\ Len(u) = Len(a) + Len(b) /\ Len(a) \in Nat /\ Len(b) \in Nat /\ Len(c) \in Nat
      /\ \A i \in 1..Len(a) + Len(b) : u[i] = IF i <= Len(a) THEN a[i] ELSE b[i - Len(a)]
  BY ConcatProperties
<1>a. u \in Seq(S)
  BY <1>1
<1> HIDE DEF u
<1>2. /\ u \o c \in Seq(S) /\ Len(u \o c) = Len(u) + Len(c)
      /\ \A i \in 1..Len(u) + Len(c) : (u \o c)[i] = IF i <= Len(u) THEN u[i] ELSE c[i - Len(u)]
  BY <1>a, ConcatProperties
<1>3. DOMAIN (u \o c) = 1..Len(a) + Len(b) + Len(c)
  BY <1>1, <1>2
<1>4. ASSUME NEW i \in 1..Len(a) + Len(b) + Len(c)
      PROVE  (u \o c)[i] = IF i <= Len(a) THEN a[i]
                           ELSE IF i <= Len(a) + Len(b) THEN b[i - Len(a)]
                           ELSE c[i - Len(a) - Len(b)]
  <2>1. (u \o c)[i] = IF i <= Len(u) THEN u[i] ELSE c[i - Len(u)]
    BY <1>1, <1>2
  <2>2. i <= Len(u) => u[i] = IF i <= Len(a) THEN a[i] ELSE b[i - Len(a)]
    BY <1>1
  <2>3. i - Len(u) = i - Len(a) - Len(b)
    BY <1>1
  <2> QED BY <1>1, <2>1, <2>2, <2>3
<1> QED BY <1>1, <1>2, <1>3, <1>4 DEF u

\* t is s of length l but for d elements behind the n-th, and perhaps some at the end.
Shifted(s, t, n, d, k, l) ==
  /\ n \in Nat /\ d \in Nat /\ k \in Nat /\ l \in Nat
  /\ DOMAIN s = 1..l /\ DOMAIN t = 1..k /\ k + d <= l
  /\ \A i \in 1..k : t[i] = IF i <= n THEN s[i] ELSE s[i + d]

LEMMA KeptShift ==
  ASSUME NEW s, NEW t, NEW n, NEW d, NEW k, NEW l, Shifted(s, t, n, d, k, l)
  PROVE  Kept(s, t)
<1>0. /\ n \in Nat /\ d \in Nat /\ k \in Nat /\ l \in Nat
      /\ DOMAIN s = 1..l /\ DOMAIN t = 1..k /\ k + d <= l
      /\ \A i \in 1..k : t[i] = IF i <= n THEN s[i] ELSE s[i + d]
  BY DEF Shifted
<1> DEFINE f == [i \in 1..k |-> IF i <= n THEN i ELSE i + d]
<1>1. f \in [DOMAIN t -> DOMAIN s]
  BY <1>0
<1>2. \A i, j \in DOMAIN t : i < j => f[i] < f[j]
  BY <1>0
<1>3. \A i \in DOMAIN t : t[i] = s[f[i]]
  BY <1>0
<1> QED BY <1>1, <1>2, <1>3 DEF Kept

\* Nothing is left out.
LEMMA KeptSame ==
  ASSUME NEW s, NEW t, NEW l \in Nat, DOMAIN s = 1..l, DOMAIN t = 1..l, \A i \in 1..l : t[i] = s[i]
  PROVE  Kept(s, t)
<1> DEFINE f == [i \in 1..l |-> i]
<1>1. f \in [DOMAIN t -> DOMAIN s] /\ (\A i, j \in DOMAIN t : i < j => f[i] < f[j])
      /\ \A i \in DOMAIN t : t[i] = s[f[i]]
  OBVIOUS
<1> QED BY <1>1 DEF Kept

\* A leader fails, and what it had in flight is orphaned.
LEMMA KeptFailure ==
  ASSUME NEW S, NEW a \in Seq(S), NEW b \in Seq(S), NEW c \in Seq(S)
  PROVE  Kept((a \o b) \o c, (a \o (b \o c)) \o <<>>)
<1> DEFINE s == (a \o b) \o c
           t == (a \o (b \o c)) \o <<>>
<1>1. /\ Len(a) \in Nat /\ Len(b) \in Nat /\ Len(c) \in Nat
      /\ b \o c \in Seq(S) /\ Len(b \o c) = Len(b) + Len(c) /\ <<>> \in Seq(S) /\ Len(<<>>) = 0
      /\ \A i \in 1..Len(b) + Len(c) : (b \o c)[i] = IF i <= Len(b) THEN b[i] ELSE c[i - Len(b)]
  BY ConcatProperties
<1> DEFINE l == Len(a) + Len(b) + Len(c)
<1>2. /\ DOMAIN s = 1..l
      /\ \A i \in 1..l : s[i] = IF i <= Len(a) THEN a[i]
                                ELSE IF i <= Len(a) + Len(b) THEN b[i - Len(a)] ELSE c[i - Len(a) - Len(b)]
  BY ConcatThree
<1>3. /\ DOMAIN t = 1..l
      /\ \A i \in 1..l : t[i] = IF i <= Len(a) THEN a[i] ELSE (b \o c)[i - Len(a)]
  <2>1. PICK bc \in Seq(S) : bc = b \o c
    BY <1>1
  <2>2. /\ DOMAIN ((a \o bc) \o <<>>) = 1..Len(a) + Len(bc) + Len(<<>>)
        /\ \A i \in 1..Len(a) + Len(bc) + Len(<<>>) :
              ((a \o bc) \o <<>>)[i] = IF i <= Len(a) THEN a[i]
                                       ELSE IF i <= Len(a) + Len(bc) THEN bc[i - Len(a)]
                                       ELSE <<>>[i - Len(a) - Len(bc)]
    BY <1>1, ConcatThree
  <2>3. Len(a) + Len(bc) + Len(<<>>) = l /\ Len(a) + Len(bc) = l
    BY <1>1, <2>1
  <2>4. \A i \in 1..l : i <= Len(a) + Len(bc)
    BY <1>1, <2>3
  <2> QED BY <2>1, <2>2, <2>3, <2>4
<1> HIDE DEF s, t
<1>4. ASSUME NEW i \in 1..l PROVE t[i] = s[i]
  <2>1. CASE i <= Len(a)
    BY <1>2, <1>3, <2>1
  <2>2. CASE i > Len(a)
    <3>1. i - Len(a) \in 1..Len(b) + Len(c) /\ (i - Len(a) <= Len(b) <=> i <= Len(a) + Len(b))
          /\ (i - Len(a)) - Len(b) = i - Len(a) - Len(b) /\ ~(i <= Len(a))
      BY <1>1, <2>2
    <3>2. (b \o c)[i - Len(a)] = IF i <= Len(a) + Len(b) THEN b[i - Len(a)] ELSE c[i - Len(a) - Len(b)]
      BY <1>1, <3>1
    <3> QED BY <1>2, <1>3, <3>1, <3>2
  <2> QED BY <1>1, <2>1, <2>2
<1>5. l \in Nat
  BY <1>1
<1> HIDE DEF l
<1>6. Kept(s, t)
  BY <1>2, <1>3, <1>4, <1>5, KeptSame
<1> QED BY <1>6 DEF s, t

\* An entry commits, the i-th of those left or the leader's first, and those in front are lost.
LEMMA KeptCommit ==
  ASSUME NEW S, NEW a \in Seq(S), NEW b \in Seq(S), NEW c \in Seq(S)
  PROVE  /\ \A i \in 1..Len(b) : Kept((a \o b) \o c, (Append(a, b[i]) \o SubSeq(b, i + 1, Len(b))) \o c)
         /\ c # <<>> => Kept((a \o b) \o c, (Append(a, Head(c)) \o <<>>) \o Tail(c))
<1> DEFINE s == (a \o b) \o c
           l == Len(a) + Len(b) + Len(c)
<1>1. Len(a) \in Nat /\ Len(b) \in Nat /\ Len(c) \in Nat /\ l \in Nat
  OBVIOUS
<1>2. /\ DOMAIN s = 1..l
      /\ \A i \in 1..l : s[i] = IF i <= Len(a) THEN a[i]
                                ELSE IF i <= Len(a) + Len(b) THEN b[i - Len(a)] ELSE c[i - Len(a) - Len(b)]
  BY ConcatThree
<1> HIDE DEF s, l
<1>3. ASSUME NEW i \in 1..Len(b) PROVE Kept(s, (Append(a, b[i]) \o SubSeq(b, i + 1, Len(b))) \o c)
  <2>1. PICK a2, b2 : a2 = Append(a, b[i]) /\ b2 = SubSeq(b, i + 1, Len(b))
    OBVIOUS
  <2>2. /\ a2 \in Seq(S) /\ Len(a2) = Len(a) + 1 /\ \A j \in 1..Len(a) : a2[j] = a[j]
        /\ a2[Len(a) + 1] = b[i]
    BY <2>1, AppendProperties
  <2>3. i \in Nat /\ i >= 1 /\ i <= Len(b)
    BY <1>1
  <2>4. b2 \in Seq(S) /\ Len(b2) = Len(b) - i /\ \A j \in 1..Len(b) - i : b2[j] = b[i + j]
    <3>1. /\ b2 \in Seq(S)
          /\ Len(b2) = IF i + 1 <= Len(b) THEN Len(b) - (i + 1) + 1 ELSE 0
          /\ \A j \in 1..Len(b) - (i + 1) + 1 : b2[j] = b[(i + 1) + j - 1]
      BY <1>1, <2>1, <2>3, SubSeqProperties
    <3>2. \A j \in 1..Len(b) - i : j \in 1..Len(b) - (i + 1) + 1 /\ (i + 1) + j - 1 = i + j
      BY <1>1, <2>3
    <3> QED BY <1>1, <2>3, <3>1, <3>2
  <2> DEFINE t == (a2 \o b2) \o c
             k == Len(a) + 1 + (Len(b) - i) + Len(c)
  <2>5. /\ DOMAIN t = 1..Len(a2) + Len(b2) + Len(c)
        /\ \A j \in 1..Len(a2) + Len(b2) + Len(c) :
             t[j] = IF j <= Len(a2) THEN a2[j]
                    ELSE IF j <= Len(a2) + Len(b2) THEN b2[j - Len(a2)] ELSE c[j - Len(a2) - Len(b2)]
    <3>1. a2 \in Seq(S) /\ b2 \in Seq(S)
      BY <2>2, <2>4
    <3> QED BY <3>1, ConcatThree
  <2>6. Len(a2) + Len(b2) + Len(c) = k /\ k \in Nat /\ k + (i - 1) <= l /\ i - 1 \in Nat
    BY <1>1, <2>2, <2>3, <2>4 DEF l
  <2> HIDE DEF t
  <2>7. ASSUME NEW j \in 1..k PROVE t[j] = IF j <= Len(a) THEN s[j] ELSE s[j + (i - 1)]
    <3>0. j \in Nat /\ j >= 1 /\ j + (i - 1) \in 1..l /\ j \in 1..l
      BY <1>1, <2>3 DEF l
    <3>1. CASE j <= Len(a)
      <4>1. t[j] = a2[j] /\ a2[j] = a[j] /\ s[j] = a[j]
        BY <1>1, <1>2, <2>2, <2>5, <2>6, <3>0, <3>1
      <4> QED BY <3>1, <4>1
    <3>2. CASE j = Len(a) + 1
      <4>1. t[j] = b[i]
        BY <1>1, <2>2, <2>5, <2>6, <3>2
      <4>2. ~(j + (i - 1) <= Len(a)) /\ j + (i - 1) <= Len(a) + Len(b) /\ j + (i - 1) - Len(a) = i
        BY <1>1, <2>3, <3>2
      <4>3. s[j + (i - 1)] = b[i]
        BY <1>2, <3>0, <4>2
      <4> QED BY <1>1, <3>2, <4>1, <4>3
    <3>3. CASE j > Len(a) + 1 /\ j <= Len(a) + 1 + (Len(b) - i)
      <4>1. j - (Len(a) + 1) \in 1..Len(b) - i
        BY <1>1, <2>3, <3>0, <3>3
      <4>2. t[j] = b2[j - (Len(a) + 1)]
        BY <1>1, <2>2, <2>3, <2>4, <2>5, <2>6, <3>3
      <4>3. t[j] = b[i + (j - (Len(a) + 1))]
        BY <2>4, <4>1, <4>2
      <4>4. ~(j + (i - 1) <= Len(a)) /\ j + (i - 1) <= Len(a) + Len(b)
            /\ j + (i - 1) - Len(a) = i + (j - (Len(a) + 1)) /\ ~(j <= Len(a))
        BY <1>1, <2>3, <3>0, <3>3
      <4>5. s[j + (i - 1)] = b[i + (j - (Len(a) + 1))]
        BY <1>2, <3>0, <4>4
      <4> QED BY <4>3, <4>4, <4>5
    <3>4. CASE j > Len(a) + 1 + (Len(b) - i)
      <4>1. ~(j <= Len(a) + 1) /\ ~(j <= Len(a) + 1 + (Len(b) - i))
        BY <1>1, <2>3, <3>0, <3>4
      <4>2. t[j] = c[j - (Len(a) + 1) - (Len(b) - i)]
        BY <2>2, <2>4, <2>5, <2>6, <4>1
      <4>3. ~(j + (i - 1) <= Len(a)) /\ ~(j + (i - 1) <= Len(a) + Len(b)) /\ ~(j <= Len(a))
            /\ j + (i - 1) - Len(a) - Len(b) = j - (Len(a) + 1) - (Len(b) - i)
        BY <1>1, <2>3, <3>0, <3>4
      <4>4. s[j + (i - 1)] = c[j - (Len(a) + 1) - (Len(b) - i)]
        BY <1>2, <3>0, <4>3
      <4> QED BY <4>2, <4>3, <4>4
    <3> QED BY <1>1, <2>3, <3>0, <3>1, <3>2, <3>3, <3>4
  <2>8. DOMAIN t = 1..k
    BY <2>5, <2>6
  <2> HIDE DEF k
  <2>9. PICK d \in Nat : d = i - 1
    BY <2>6
  <2>10. Kept(s, t)
    <3>1. k \in Nat /\ l \in Nat /\ k + d <= l /\ Len(a) \in Nat
      BY <1>1, <2>6, <2>9
    <3>2. \A j \in 1..k : t[j] = IF j <= Len(a) THEN s[j] ELSE s[j + d]
      BY <2>7, <2>9
    <3>3. DOMAIN s = 1..l /\ DOMAIN t = 1..k
      BY <1>2, <2>8
    <3>4. Shifted(s, t, Len(a), d, k, l)
      BY <3>1, <3>2, <3>3 DEF Shifted
    <3> QED BY <3>4, KeptShift
  <2> QED BY <2>1, <2>10 DEF t
<1>4. ASSUME c # <<>> PROVE Kept(s, (Append(a, Head(c)) \o <<>>) \o Tail(c))
  <2>1. PICK a2, c2 : a2 = Append(a, Head(c)) /\ c2 = Tail(c)
    OBVIOUS
  <2>2. /\ c2 \in Seq(S) /\ Head(c) \in S /\ Head(c) = c[1] /\ Len(c) >= 1 /\ Len(c2) = Len(c) - 1
        /\ \A j \in 1..Len(c) - 1 : c2[j] = c[j + 1]
    BY <1>4, <2>1
  <2>3. /\ a2 \in Seq(S) /\ Len(a2) = Len(a) + 1 /\ \A j \in 1..Len(a) : a2[j] = a[j]
        /\ a2[Len(a) + 1] = c[1]
    BY <2>1, <2>2, AppendProperties
  <2> DEFINE t == (a2 \o <<>>) \o c2
             k == Len(a) + Len(c)
  <2>4. /\ DOMAIN t = 1..Len(a2) + Len(<<>>) + Len(c2)
        /\ \A j \in 1..Len(a2) + Len(<<>>) + Len(c2) :
             t[j] = IF j <= Len(a2) THEN a2[j]
                    ELSE IF j <= Len(a2) + Len(<<>>) THEN <<>>[j - Len(a2)] ELSE c2[j - Len(a2) - Len(<<>>)]
    <3>1. a2 \in Seq(S) /\ c2 \in Seq(S) /\ <<>> \in Seq(S)
      BY <2>2, <2>3
    <3> QED BY <3>1, ConcatThree
  <2>5. Len(a2) + Len(<<>>) + Len(c2) = k /\ Len(a2) + Len(<<>>) = Len(a) + 1 /\ k \in Nat /\ k + Len(b) <= l
    BY <1>1, <2>2, <2>3 DEF l
  <2> HIDE DEF t
  <2>6. ASSUME NEW j \in 1..k PROVE t[j] = IF j <= Len(a) THEN s[j] ELSE s[j + Len(b)]
    <3>0. j \in Nat /\ j >= 1 /\ j + Len(b) \in 1..l /\ j \in 1..l
      BY <1>1 DEF l
    <3>1. CASE j <= Len(a)
      <4>1. t[j] = a2[j] /\ a2[j] = a[j] /\ s[j] = a[j]
        BY <1>1, <1>2, <2>3, <2>4, <2>5, <3>0, <3>1
      <4> QED BY <3>1, <4>1
    <3>2. CASE j = Len(a) + 1
      <4>1. t[j] = c[1]
        BY <1>1, <2>3, <2>4, <2>5, <3>2
      <4>2. ~(j + Len(b) <= Len(a)) /\ ~(j + Len(b) <= Len(a) + Len(b)) /\ j + Len(b) - Len(a) - Len(b) = 1
            /\ ~(j <= Len(a))
        BY <1>1, <3>2
      <4>3. s[j + Len(b)] = c[1]
        BY <1>2, <3>0, <4>2
      <4> QED BY <4>1, <4>2, <4>3
    <3>3. CASE j > Len(a) + 1
      <4>1. /\ ~(j <= Len(a) + 1) /\ j - (Len(a) + 1) \in 1..Len(c) - 1 /\ ~(j <= Len(a))
            /\ j - Len(a2) - Len(<<>>) = j - (Len(a) + 1)
        BY <1>1, <2>2, <2>3, <3>0, <3>3
      <4>2. t[j] = c2[j - (Len(a) + 1)]
        BY <2>3, <2>4, <2>5, <4>1
      <4>3. t[j] = c[(j - (Len(a) + 1)) + 1]
        BY <2>2, <4>1, <4>2
      <4>4. ~(j + Len(b) <= Len(a)) /\ ~(j + Len(b) <= Len(a) + Len(b))
            /\ j + Len(b) - Len(a) - Len(b) = (j - (Len(a) + 1)) + 1
        BY <1>1, <3>0, <3>3
      <4>5. s[j + Len(b)] = c[(j - (Len(a) + 1)) + 1]
        BY <1>2, <3>0, <4>4
      <4> QED BY <4>1, <4>3, <4>5
    <3>4. j <= Len(a) \/ j = Len(a) + 1 \/ j > Len(a) + 1
      BY <1>1, <3>0
    <3> QED BY <3>1, <3>2, <3>3, <3>4
  <2>7. DOMAIN t = 1..k
    <3>1. DOMAIN t = 1..Len(a2) + Len(<<>>) + Len(c2)
      BY <2>4
    <3> QED BY <2>5, <3>1
  <2> HIDE DEF k
  <2>8. Kept(s, t)
    <3>1. PICK d \in Nat : d = Len(b)
      BY <1>1
    <3>2. k \in Nat /\ l \in Nat /\ k + d <= l /\ Len(a) \in Nat
      BY <1>1, <2>5, <3>1
    <3>3. DOMAIN s = 1..l /\ DOMAIN t = 1..k
      BY <1>2, <2>7
    <3>4. \A j \in 1..k : t[j] = IF j <= Len(a) THEN s[j] ELSE s[j + d]
      BY <2>6, <3>1
    <3>5. Shifted(s, t, Len(a), d, k, l)
      BY <3>2, <3>3, <3>4 DEF Shifted
    <3> QED BY <3>5, KeptShift
  <2> QED BY <2>1, <2>8 DEF t
<1> QED BY <1>3, <1>4 DEF s
=============================================================================
