-------------------------- MODULE CommandLogProofs --------------------------
(***************************************************************************)
(* Proofs about CommandLog for every set of nodes and commands and every   *)
(* bound: what a file holds after crashes, replays and restarts, and what  *)
(* is parsed from it.                                                      *)
(***************************************************************************)
EXTENDS CommandLog, OrderLemmas

-----------------------------------------------------------------------------
(* Records and cells. *)

\* The record of an entry.
RecordAt(es, j) == [idx |-> j, cmd |-> es[j]]

Records == [idx: Nat, cmd: Commands]

\* A size is 1 or 2, and a body has as many cells.
LEMMA SizeProperties ==
  ASSUME NEW rec
  PROVE  /\ Size(rec) \in {1, 2}
         /\ Len(Body(rec)) = Size(rec) /\ DOMAIN Body(rec) = 1..Size(rec)
         /\ \A k \in 1..Size(rec) : Body(rec)[k] = [kind |-> "body", n |-> k, rec |-> rec]
<1>1. Size(rec) \in {1, 2}
  BY DEF Size
<1>2. Body(rec) \in Seq({[kind |-> "body", n |-> k, rec |-> rec] : k \in 1..Size(rec)})
  BY <1>1 DEF Body
<1>3. DOMAIN Body(rec) = 1..Size(rec) /\ Size(rec) \in Nat
  BY <1>1 DEF Body
<1>4. Len(Body(rec)) = Size(rec)
  BY <1>2, <1>3
<1> QED BY <1>1, <1>3, <1>4 DEF Body

\* A sequence is as long as its domain says.
LEMMA LenOfDomain ==
  ASSUME NEW S, NEW n \in Nat, NEW s \in [1..n -> S]
  PROVE  s \in Seq(S) /\ Len(s) = n /\ DOMAIN s = 1..n
  OBVIOUS

\* What a write leaves.
LEMMA WriteAtProperties ==
  ASSUME NEW S, NEW f \in Seq(S), NEW cells \in Seq(S), NEW off \in Nat, off <= Len(f)
  PROVE  /\ WriteAt(f, off, cells) \in Seq(S)
         /\ Len(WriteAt(f, off, cells)) = IF off + Len(cells) > Len(f) THEN off + Len(cells) ELSE Len(f)
         /\ \A i \in 1..off : WriteAt(f, off, cells)[i] = f[i]
         /\ \A i \in 1..Len(cells) : WriteAt(f, off, cells)[off + i] = cells[i]
<1>1. PICK n \in Nat : n = IF off + Len(cells) > Len(f) THEN off + Len(cells) ELSE Len(f)
  OBVIOUS
<1>2. PICK w : w = WriteAt(f, off, cells)
  OBVIOUS
<1>3. w = [i \in 1..n |-> IF i \in off + 1..off + Len(cells) THEN cells[i - off] ELSE f[i]]
  BY <1>1, <1>2 DEF WriteAt
<1>4. Len(cells) \in Nat /\ Len(f) \in Nat /\ Len(f) <= n /\ off + Len(cells) <= n
  BY <1>1
<1>5. ASSUME NEW i \in 1..n PROVE (IF i \in off + 1..off + Len(cells) THEN cells[i - off] ELSE f[i]) \in S
  <2>1. CASE i \in off + 1..off + Len(cells)
    <3>1. i - off \in 1..Len(cells)
      BY <1>4, <2>1
    <3> QED BY <2>1, <3>1
  <2>2. CASE i \notin off + 1..off + Len(cells)
    <3>1. i \in 1..Len(f)
      BY <1>1, <1>4, <2>2
    <3> QED BY <2>2, <3>1
  <2> QED BY <2>1, <2>2
<1>6. w \in Seq(S) /\ Len(w) = n /\ DOMAIN w = 1..n
  <2>1. w \in [1..n -> S]
    BY <1>3, <1>5
  <2> QED BY <2>1, LenOfDomain
<1>7. \A i \in 1..off : w[i] = f[i]
  BY <1>3, <1>4
<1>8. ASSUME NEW i \in 1..Len(cells) PROVE w[off + i] = cells[i]
  <2>1. off + i \in off + 1..off + Len(cells) /\ off + i \in 1..n /\ (off + i) - off = i
    BY <1>4
  <2> QED BY <1>3, <2>1
<1> QED BY <1>1, <1>2, <1>6, <1>7, <1>8

\* Cells that are there already are written again: nothing changes.
LEMMA WriteAtSame ==
  ASSUME NEW S, NEW f \in Seq(S), NEW cells \in Seq(S), NEW off \in Nat,
         off + Len(cells) <= Len(f), \A i \in 1..Len(cells) : f[off + i] = cells[i]
  PROVE  WriteAt(f, off, cells) = f
<1>1. PICK w : w = WriteAt(f, off, cells)
  OBVIOUS
<1>2. PICK n \in Nat : n = Len(f)
  OBVIOUS
<1>3. Len(cells) \in Nat /\ off <= Len(f)
  <2>1. Len(cells) \in Nat
    OBVIOUS
  <2> QED BY <1>2, <2>1
<1>4. /\ w \in Seq(S) /\ Len(w) = n
      /\ \A i \in 1..off : w[i] = f[i]
      /\ \A i \in 1..Len(cells) : w[off + i] = cells[i]
  BY <1>1, <1>2, <1>3, WriteAtProperties
<1>5. ASSUME NEW i \in 1..n PROVE w[i] = f[i]
  <2>1. CASE i \in off + 1..off + Len(cells)
    <3>1. PICK k \in 1..Len(cells) : i = off + k
      <4>1. i - off \in 1..Len(cells) /\ i = off + (i - off)
        BY <1>3, <2>1
      <4> QED BY <4>1
    <3> QED BY <1>4, <3>1
  <2>2. CASE i \notin off + 1..off + Len(cells)
    BY <1>1, <1>2, <1>3, <2>2 DEF WriteAt
  <2> QED BY <2>1, <2>2
<1> QED BY <1>1, <1>2, <1>4, <1>5, SeqEqual

-----------------------------------------------------------------------------
(* What is parsed. *)

\* The parser has a result at every place of a file.
LEMMA ParserExists ==
  ASSUME NEW f \in Seq(Cell)
  PROVE  /\ ParsedFrom(f) \in [1..Len(f) + 3 -> Seq(Record)]
         /\ ParsedFrom(f) = [i \in 1..Len(f) + 3 |->
                               IF i > Len(f) THEN <<>>
                               ELSE IF WholeCommand(f, i) THEN <<f[i + 1].rec>> \o ParsedFrom(f)[i + 1 + f[i].n]
                               ELSE <<>>]
<1> DEFINE L == Len(f)
           P(g, k) == \A i \in L + 4 - k..L + 3 :
                        g[i] = IF i > L THEN <<>>
                               ELSE IF WholeCommand(f, i) THEN <<f[i + 1].rec>> \o g[i + 1 + f[i].n]
                               ELSE <<>>
           W == {k \in Nat : k <= L + 3 => \E g \in [L + 4 - k..L + 3 -> Seq(Record)] : P(g, k)}
<1>0. L \in Nat /\ \A i \in 1..L : f[i] \in Cell
  OBVIOUS
<1>1. 0 \in W
  <2> DEFINE g == [i \in L + 4..L + 3 |-> <<>>]
  <2>1. g \in [L + 4 - 0..L + 3 -> Seq(Record)] /\ \A i \in L + 4 - 0..L + 3 : FALSE
    BY <1>0
  <2>2. P(g, 0)
    BY <2>1
  <2> QED BY <2>1, <2>2
<1>2. ASSUME NEW k \in W PROVE k + 1 \in W
  <2>1. SUFFICES ASSUME k + 1 <= L + 3
                 PROVE  \E g \in [L + 4 - (k + 1)..L + 3 -> Seq(Record)] : P(g, k + 1)
    OBVIOUS
  <2>2. PICK h \in [L + 4 - k..L + 3 -> Seq(Record)] : P(h, k)
    BY <1>0, <2>1
  <2>3. k \in Nat
    OBVIOUS
  <2>4. PICK p \in 1..L + 3 : p = L + 4 - (k + 1) /\ L + 4 - k = p + 1
    <3>1. L + 4 - (k + 1) \in 1..L + 3 /\ L + 4 - k = (L + 4 - (k + 1)) + 1
      BY <1>0, <2>1, <2>3
    <3> QED BY <3>1
  <2> DEFINE v == IF p > L THEN <<>>
                  ELSE IF WholeCommand(f, p) THEN <<f[p + 1].rec>> \o h[p + 1 + f[p].n]
                  ELSE <<>>
             g == [i \in p..L + 3 |-> IF i = p THEN v ELSE h[i]]
  <2>5. WholeCommand(f, p) /\ ~(p > L) => /\ p + 1 \in 1..L /\ f[p + 1].rec \in Record
                                          /\ p + 1 + f[p].n \in p + 1..L + 3 /\ f[p].n \in Nat
    <3>1. SUFFICES ASSUME WholeCommand(f, p), ~(p > L)
                   PROVE  p + 1 \in 1..L /\ f[p + 1].rec \in Record /\ p + 1 + f[p].n \in p + 1..L + 3 /\ f[p].n \in Nat
      OBVIOUS
    <3>2. p \in 1..L /\ f[p].n \in 1..2 /\ p + f[p].n <= L
      BY <1>0, <2>4, <3>1 DEF WholeCommand, Cell
    <3>3. p + 1 \in 1..L
      BY <1>0, <3>2
    <3> QED BY <1>0, <3>2, <3>3 DEF Cell
  <2>6. v \in Seq(Record)
    <3>1. CASE WholeCommand(f, p) /\ ~(p > L)
      <4>1. h[p + 1 + f[p].n] \in Seq(Record) /\ <<f[p + 1].rec>> \in Seq(Record)
        BY <2>4, <2>5, <3>1
      <4> QED BY <3>1, <4>1
    <3>2. CASE ~(WholeCommand(f, p) /\ ~(p > L))
      BY <3>2
    <3> QED BY <3>1, <3>2
  <2> HIDE DEF v
  <2>7. g \in [p..L + 3 -> Seq(Record)]
    <3>1. \A i \in p..L + 3 : i # p => i \in p + 1..L + 3
      BY <1>0, <2>4
    <3> QED BY <2>4, <2>6, <3>1
  <2>8. ASSUME NEW i \in p..L + 3
        PROVE  g[i] = IF i > L THEN <<>>
                      ELSE IF WholeCommand(f, i) THEN <<f[i + 1].rec>> \o g[i + 1 + f[i].n]
                      ELSE <<>>
    <3>1. i \in 1..L + 3 /\ (i = p \/ i \in p + 1..L + 3)
      BY <1>0, <2>4
    <3>2. WholeCommand(f, i) /\ ~(i > L) => i + 1 + f[i].n \in p + 1..L + 3 /\ g[i + 1 + f[i].n] = h[i + 1 + f[i].n]
      <4>1. SUFFICES ASSUME WholeCommand(f, i), ~(i > L)
                     PROVE  i + 1 + f[i].n \in p + 1..L + 3 /\ g[i + 1 + f[i].n] = h[i + 1 + f[i].n]
        OBVIOUS
      <4>2. i \in 1..L /\ f[i].n \in 1..2 /\ i + f[i].n <= L
        BY <1>0, <3>1, <4>1 DEF WholeCommand, Cell
      <4>3. PICK q \in Int : q = i + 1 + f[i].n
        BY <4>2
      <4>4. q \in p + 1..L + 3 /\ q \in p..L + 3 /\ q # p
        BY <1>0, <2>4, <4>2, <4>3
      <4> QED BY <4>3, <4>4
    <3>3. CASE i = p
      BY <3>2, <3>3 DEF v
    <3>4. CASE i \in p + 1..L + 3
      <4>1. g[i] = h[i] /\ i \in L + 4 - k..L + 3
        BY <1>0, <2>4, <3>4
      <4> QED BY <2>2, <3>2, <4>1
    <3> QED BY <3>1, <3>3, <3>4
  <2> HIDE DEF g
  <2> QED BY <2>4, <2>7, <2>8
<1>3. L + 3 \in W
  <2>1. W \in SUBSET Nat
    OBVIOUS
  <2> HIDE DEF W
  <2>2. W = Nat
    BY <1>1, <1>2, <2>1, Induction
  <2> QED BY <1>0, <2>2
<1>4. PICK g \in [1..L + 3 -> Seq(Record)] : P(g, L + 3)
  <2>1. L + 3 \in Nat /\ L + 4 - (L + 3) = 1
    BY <1>0
  <2> QED BY <1>3, <2>1
<1>5. g = [i \in 1..L + 3 |-> IF i > L THEN <<>>
                              ELSE IF WholeCommand(f, i) THEN <<f[i + 1].rec>> \o g[i + 1 + f[i].n]
                              ELSE <<>>]
  <2>1. L + 4 - (L + 3) = 1
    BY <1>0
  <2> QED BY <1>4, <2>1
<1> DEFINE F == CHOOSE from : from = [i \in 1..L + 3 |->
                                        IF i > L THEN <<>>
                                        ELSE IF WholeCommand(f, i) THEN <<f[i + 1].rec>> \o from[i + 1 + f[i].n]
                                        ELSE <<>>]
<1>6. F = [i \in 1..L + 3 |-> IF i > L THEN <<>>
                              ELSE IF WholeCommand(f, i) THEN <<f[i + 1].rec>> \o F[i + 1 + f[i].n]
                              ELSE <<>>]
  BY <1>5
<1>7. ParsedFrom(f) = F
  BY DEF ParsedFrom
<1> HIDE DEF F
<1>8. ASSUME NEW i \in 1..L, WholeCommand(f, i)
      PROVE  i + 1 + f[i].n \in i + 1..L + 3 /\ <<f[i + 1].rec>> \in Seq(Record)
  <2>1. f[i].n \in 1..2 /\ i + f[i].n <= L
    BY <1>0, <1>8 DEF WholeCommand, Cell
  <2>2. i + 1 \in 1..L
    BY <1>0, <2>1
  <2> QED BY <1>0, <2>1, <2>2 DEF Cell
<1> DEFINE V == {k \in Nat : \A i \in 1..L + 3 : i > L + 3 - k => F[i] \in Seq(Record)}
<1>9. 0 \in V
  BY <1>0
<1>10. ASSUME NEW k \in V PROVE k + 1 \in V
  <2>1. k \in Nat
    OBVIOUS
  <2>2. ASSUME NEW i \in 1..L + 3, i > L + 3 - (k + 1) PROVE F[i] \in Seq(Record)
    <3>1. CASE i <= L /\ WholeCommand(f, i)
      <4>1. i \in 1..L /\ ~(i > L)
        BY <1>0, <3>1
      <4>2. PICK q \in Int : q = i + 1 + f[i].n /\ q \in i + 1..L + 3
        BY <1>8, <3>1, <4>1
      <4>3. q \in 1..L + 3 /\ q > L + 3 - k
        BY <1>0, <2>1, <2>2, <4>1, <4>2
      <4>4. F[q] \in Seq(Record)
        BY <4>3
      <4>5. <<f[i + 1].rec>> \in Seq(Record)
        BY <1>8, <3>1, <4>1
      <4>6. F[i] = <<f[i + 1].rec>> \o F[q]
        BY <1>6, <3>1, <4>1, <4>2
      <4> HIDE DEF L
      <4> QED BY <4>4, <4>5, <4>6, ConcatProperties
    <3>2. CASE ~(i <= L /\ WholeCommand(f, i))
      <4>1. F[i] = <<>>
        BY <1>0, <1>6, <3>2
      <4> QED BY <4>1
    <3> QED BY <3>1, <3>2
  <2> QED BY <2>1, <2>2
<1>11. F \in [1..L + 3 -> Seq(Record)]
  <2>1. V \in SUBSET Nat
    OBVIOUS
  <2> HIDE DEF V
  <2>2. V = Nat
    BY <1>9, <1>10, <2>1, Induction
  <2>3. L + 3 \in V
    BY <1>0, <2>2
  <2>4. \A i \in 1..L + 3 : F[i] \in Seq(Record)
    BY <1>0, <2>3 DEF V
  <2> QED BY <1>6, <2>4
<1> QED BY <1>6, <1>7, <1>11

-----------------------------------------------------------------------------
(* What should be parsed. *)

\* The records r of the entries before the i-th, and the i-th.
WithEntry(es, r, i) == IF es[i] \in AdHoc THEN r ELSE Append(r, [idx |-> i, cmd |-> es[i]])

\* The records of the first entries, one entry after another.
LoggableOf(es, g) == g = [i \in 0..Len(es) |-> IF i = 0 THEN <<>> ELSE WithEntry(es, g[i - 1], i)]

LEMMA LoggableStep ==
  ASSUME NEW es, NEW g, LoggableOf(es, g), Len(es) \in Nat
  PROVE  g[0] = <<>> /\ \A i \in 1..Len(es) : g[i] = WithEntry(es, g[i - 1], i)
<1> DEFINE r == [i \in 0..Len(es) |-> IF i = 0 THEN <<>> ELSE WithEntry(es, g[i - 1], i)]
<1>1. g = r
  BY DEF LoggableOf
<1>2. r[0] = <<>>
  OBVIOUS
<1>3. ASSUME NEW i \in 1..Len(es) PROVE r[i] = WithEntry(es, g[i - 1], i)
  <2>1. i \in 0..Len(es) /\ i # 0
    OBVIOUS
  <2> QED BY <2>1
<1> HIDE DEF r
<1> QED BY <1>1, <1>2, <1>3

LEMMA WithEntryType ==
  ASSUME NEW es \in Seq(Commands), NEW r \in Seq(Records), NEW i \in 1..Len(es)
  PROVE  WithEntry(es, r, i) \in Seq(Records)
<1>1. [idx |-> i, cmd |-> es[i]] \in Records
  BY DEF Records
<1>2. Append(r, [idx |-> i, cmd |-> es[i]]) \in Seq(Records)
  BY <1>1, AppendProperties
<1> QED BY <1>2 DEF WithEntry

\* There are such records.
LEMMA LoggableExists ==
  ASSUME NEW es \in Seq(Commands)
  PROVE  \E g \in [0..Len(es) -> Seq(Records)] : LoggableOf(es, g) /\ Loggable(es) = g[Len(es)]
<1> DEFINE L == Len(es)
           H == [p \in Nat \X Seq(Records) |-> IF p[1] \in 1..L THEN WithEntry(es, p[2], p[1]) ELSE <<>>]
<1>0. L \in Nat /\ <<>> \in Seq(Records)
  OBVIOUS
<1>1. H \in [Nat \X Seq(Records) -> Seq(Records)]
  <2>1. ASSUME NEW p \in Nat \X Seq(Records), p[1] \in 1..L PROVE WithEntry(es, p[2], p[1]) \in Seq(Records)
    <3>1. p[2] \in Seq(Records)
      OBVIOUS
    <3> QED BY <2>1, <3>1, WithEntryType
  <2> QED BY <1>0, <2>1
<1> HIDE DEF H
<1>2. PICK g \in [0..L -> Seq(Records)] : g[0] = <<>> /\ \A i \in 1..L : g[i] = H[<<i, g[i - 1]>>]
  <2>1. StepsIn(H, Seq(Records))
    BY <1>1 DEF StepsIn
  <2>2. \E g \in [0..L -> Seq(Records)] : Recursive(g, <<>>, H, L)
    BY <1>0, <2>1, Recursion
  <2> QED BY <2>2 DEF Recursive
<1>3. LoggableOf(es, g)
  <2>1. ASSUME NEW i \in 0..L, i # 0 PROVE g[i] = WithEntry(es, g[i - 1], i)
    <3>1. i - 1 \in 0..L /\ i \in 1..L
      BY <1>0, <2>1
    <3>2. <<i, g[i - 1]>> \in Nat \X Seq(Records)
      BY <3>1
    <3> QED BY <1>2, <3>1, <3>2 DEF H
  <2>2. g = [i \in 0..L |-> IF i = 0 THEN <<>> ELSE WithEntry(es, g[i - 1], i)]
    BY <1>0, <1>2, <2>1
  <2> QED BY <2>2 DEF LoggableOf
<1> DEFINE F == CHOOSE upTo : upTo = [i \in 0..L |->
                                        IF i = 0 THEN <<>>
                                        ELSE IF es[i] \in AdHoc THEN upTo[i - 1]
                                        ELSE Append(upTo[i - 1], [idx |-> i, cmd |-> es[i]])]
<1>4. LoggableOf(es, F)
  <2> DEFINE G == CHOOSE upTo : LoggableOf(es, upTo)
  <2>1. G = F
    BY DEF LoggableOf, WithEntry
  <2> HIDE DEF F
  <2> QED BY <1>3, <2>1
<1>5. Loggable(es) = F[L]
  BY DEF Loggable
<1> HIDE DEF F
<1> DEFINE W == {k \in Nat : k <= L => F[k] = g[k]}
<1>6. 0 \in W
  BY <1>0, <1>3, <1>4, LoggableStep
<1>7. ASSUME NEW k \in W PROVE k + 1 \in W
  <2>1. k \in Nat
    OBVIOUS
  <2>2. ASSUME k + 1 <= L PROVE F[k + 1] = g[k + 1]
    <3>1. PICK i \in 1..L : i = k + 1 /\ i - 1 = k
      BY <1>0, <2>1, <2>2
    <3>2. F[k] = g[k]
      BY <1>0, <2>1, <2>2
    <3>3. g[i] = WithEntry(es, g[i - 1], i)
      BY <1>0, <1>3, LoggableStep
    <3>4. F[i] = WithEntry(es, F[i - 1], i)
      BY <1>0, <1>4, LoggableStep
    <3> QED BY <3>1, <3>2, <3>3, <3>4
  <2> QED BY <2>1, <2>2
<1>8. L \in W
  <2>1. W \in SUBSET Nat
    OBVIOUS
  <2> HIDE DEF W
  <2> QED BY <1>0, <1>6, <1>7, <2>1, Induction
<1> QED BY <1>0, <1>3, <1>5, <1>8

\* The log es begins with ts.
Begins(ts, es) == Len(ts) <= Len(es) /\ \A i \in 1..Len(ts) : ts[i] = es[i]

\* A log that another one begins with has the same records.
LEMMA LoggableAgree ==
  ASSUME NEW es \in Seq(Commands), NEW ts \in Seq(Commands), NEW g, NEW v,
         LoggableOf(es, g), LoggableOf(ts, v), Begins(ts, es)
  PROVE  g[Len(ts)] = v[Len(ts)]
<1> DEFINE h == Len(ts)
           W == {k \in Nat : k <= h => g[k] = v[k]}
<1>0. Len(es) \in Nat /\ h \in Nat /\ h <= Len(es) /\ \A i \in 1..h : ts[i] = es[i]
  BY DEF Begins
<1>1. 0 \in W
  BY <1>0, LoggableStep
<1>2. ASSUME NEW k \in W PROVE k + 1 \in W
  <2>1. k \in Nat
    OBVIOUS
  <2>2. ASSUME k + 1 <= h PROVE g[k + 1] = v[k + 1]
    <3>1. PICK i \in 1..h : i = k + 1 /\ i - 1 = k
      BY <2>1, <2>2
    <3>2. g[k] = v[k] /\ i \in 1..Len(es) /\ i \in 1..Len(ts) /\ es[i] = ts[i]
      BY <1>0, <2>1, <2>2, <3>1
    <3>3. g[i] = WithEntry(es, g[i - 1], i)
      BY <1>0, <3>2, LoggableStep
    <3>4. v[i] = WithEntry(ts, v[i - 1], i)
      BY <1>0, <3>2, LoggableStep
    <3>5. WithEntry(ts, v[i - 1], i) = WithEntry(es, g[i - 1], i)
      BY <3>1, <3>2 DEF WithEntry
    <3> QED BY <3>1, <3>3, <3>4, <3>5
  <2> QED BY <2>1, <2>2
<1>3. W = Nat
  <2>1. W \in SUBSET Nat
    OBVIOUS
  <2> HIDE DEF W
  <2> QED BY <1>1, <1>2, <2>1, Induction
<1>4. h \in W
  BY <1>0, <1>3
<1> QED BY <1>0, <1>4

\* The records of the first entries of a log.
LoggedTo(es, h) == Loggable(SubSeq(es, 1, h))

LEMMA LoggedToProperties ==
  ASSUME NEW es \in Seq(Commands)
  PROVE  /\ LoggedTo(es, 0) = <<>> /\ LoggedTo(es, Len(es)) = Loggable(es)
         /\ \A h \in 0..Len(es) : LoggedTo(es, h) \in Seq(Records)
         /\ \A h \in 1..Len(es) : LoggedTo(es, h) = IF es[h] \in AdHoc THEN LoggedTo(es, h - 1)
                                                    ELSE Append(LoggedTo(es, h - 1), RecordAt(es, h))
<1>1. PICK g \in [0..Len(es) -> Seq(Records)] : LoggableOf(es, g) /\ Loggable(es) = g[Len(es)]
  BY LoggableExists
<1>2. ASSUME NEW h \in 0..Len(es) PROVE LoggedTo(es, h) = g[h]
  <2>1. PICK ts : ts = SubSeq(es, 1, h)
    OBVIOUS
  <2>2. ts \in Seq(Commands) /\ Len(ts) = h /\ (\A i \in 1..h : ts[i] = es[i]) /\ h \in Nat /\ h <= Len(es)
    BY <2>1, Beginning
  <2>3. PICK v \in [0..Len(ts) -> Seq(Records)] : LoggableOf(ts, v) /\ Loggable(ts) = v[Len(ts)]
    BY <2>2, LoggableExists
  <2>4. g[h] = v[h]
    <3>1. LoggableOf(es, g) /\ LoggableOf(ts, v) /\ Begins(ts, es) /\ ts \in Seq(Commands)
      BY <1>1, <2>2, <2>3 DEF Begins
    <3>2. g[Len(ts)] = v[Len(ts)]
      BY <3>1, LoggableAgree
    <3> QED BY <2>2, <3>2
  <2> QED BY <2>1, <2>2, <2>3, <2>4 DEF LoggedTo
<1>3. Len(es) \in Nat
  OBVIOUS
<1>4. g[0] = <<>>
  BY <1>1, <1>3, LoggableStep
<1>5. ASSUME NEW h \in 1..Len(es)
      PROVE  g[h] = IF es[h] \in AdHoc THEN g[h - 1] ELSE Append(g[h - 1], RecordAt(es, h))
  <2>1. g[h] = WithEntry(es, g[h - 1], h)
    BY <1>1, <1>3, LoggableStep
  <2> QED BY <2>1 DEF WithEntry, RecordAt
<1>6. \A h \in 1..Len(es) : h \in 0..Len(es) /\ h - 1 \in 0..Len(es)
  BY <1>3
<1>7. LoggedTo(es, 0) = <<>> /\ LoggedTo(es, Len(es)) = Loggable(es)
  BY <1>1, <1>2, <1>3, <1>4
<1> QED BY <1>2, <1>5, <1>6, <1>7

\* The records of the first entries do not change as the log grows.
LEMMA LoggedToGrows ==
  ASSUME NEW es \in Seq(Commands), NEW e \in Commands, NEW h \in 0..Len(es)
  PROVE  LoggedTo(Append(es, e), h) = LoggedTo(es, h)
<1>1. PICK ts : ts = Append(es, e)
  OBVIOUS
<1>2. /\ ts \in Seq(Commands) /\ Len(ts) = Len(es) + 1 /\ Len(es) \in Nat
      /\ \A i \in 1..Len(es) : ts[i] = es[i]
  BY <1>1, AppendProperties
<1>3. h \in 0..Len(ts) /\ h \in Nat
  BY <1>2
<1>4. /\ SubSeq(es, 1, h) \in Seq(Commands) /\ Len(SubSeq(es, 1, h)) = h
      /\ \A i \in 1..h : SubSeq(es, 1, h)[i] = es[i]
  BY Beginning
<1>5. /\ SubSeq(ts, 1, h) \in Seq(Commands) /\ Len(SubSeq(ts, 1, h)) = h
      /\ \A i \in 1..h : SubSeq(ts, 1, h)[i] = ts[i]
  BY <1>2, <1>3, Beginning
<1>6. \A i \in 1..h : SubSeq(ts, 1, h)[i] = SubSeq(es, 1, h)[i]
  BY <1>2, <1>4, <1>5
<1>7. SubSeq(ts, 1, h) = SubSeq(es, 1, h)
  BY <1>4, <1>5, <1>6, SeqEqual
<1> QED BY <1>1, <1>7 DEF LoggedTo

-----------------------------------------------------------------------------
(***************************************************************************)
(* The records of a log in a file: pos[j] is where the file is when the    *)
(* first j entries are written.                                            *)
(***************************************************************************)
Width(es, j) == IF es[j] \in AdHoc THEN 0 ELSE 1 + Size(RecordAt(es, j))

Layout(es, pos) ==
  /\ pos \in [0..Len(es) -> Nat]
  /\ pos[0] = 0
  /\ \A j \in 1..Len(es) : pos[j] = pos[j - 1] + Width(es, j)
  /\ \A i, j \in 0..Len(es) : i <= j => pos[i] <= pos[j]

\* If entry j is logged, its record is in the file.
Carries(es, f, pos, j) ==
  es[j] \notin AdHoc =>
    /\ pos[j] <= Len(f)
    /\ f[pos[j - 1] + 1] = LenCell(RecordAt(es, j))
    /\ \A k \in 1..Size(RecordAt(es, j)) : f[pos[j - 1] + 1 + k] = Body(RecordAt(es, j))[k]

\* The length of the record after the first a entries is in the file.
Opening(es, f, pos, a) ==
  /\ a < Len(es) /\ es[a + 1] \notin AdHoc
  /\ pos[a] + 1 <= Len(f) /\ f[pos[a] + 1] = LenCell(RecordAt(es, a + 1))

\* The file ends after entry h, or with the length of the next record.
EndsAt(es, f, pos, h) ==
  Len(f) = pos[h] \/ (Opening(es, f, pos, h) /\ Len(f) = pos[h] + 1)

Carried(es, f, pos, h) == \A j \in 1..h : Carries(es, f, pos, j)

\* A carried record is there from its length to its last byte.
LEMMA CarriedRecord ==
  ASSUME NEW es \in Seq(Commands), NEW pos, Layout(es, pos), NEW f \in Seq(Cell),
         NEW j \in 1..Len(es), Carries(es, f, pos, j), es[j] \notin AdHoc
  PROVE  /\ pos[j - 1] \in Nat /\ pos[j] = pos[j - 1] + 1 + Size(RecordAt(es, j)) /\ pos[j] <= Len(f)
         /\ WholeCommand(f, pos[j - 1] + 1)
         /\ f[pos[j - 1] + 1].n = Size(RecordAt(es, j))
         /\ f[pos[j - 1] + 2].rec = RecordAt(es, j)
<1> DEFINE r == RecordAt(es, j)
<1>1. PICK p \in Nat : p = pos[j - 1]
  <2>1. j - 1 \in 0..Len(es)
    OBVIOUS
  <2> QED BY <2>1 DEF Layout
<1>2. pos[j] = p + 1 + Size(r)
  <2>1. pos[j] = pos[j - 1] + Width(es, j)
    BY DEF Layout
  <2>2. Width(es, j) = 1 + Size(r)
    BY DEF Width
  <2>3. Size(r) \in {1, 2}
    BY SizeProperties
  <2> HIDE DEF r
  <2> QED BY <1>1, <2>1, <2>2, <2>3
<1> HIDE DEF r
<1>3. Size(r) \in {1, 2} /\ \A k \in 1..Size(r) : Body(r)[k] = [kind |-> "body", n |-> k, rec |-> r]
  BY SizeProperties
<1>4. pos[j] <= Len(f) /\ f[p + 1] = LenCell(r) /\ \A k \in 1..Size(r) : f[p + 1 + k] = Body(r)[k]
  BY <1>1 DEF Carries, r
<1>5. f[p + 1].kind = "len" /\ f[p + 1].n = Size(r)
  BY <1>4 DEF LenCell
<1>6. \A k \in 1..Size(r) : f[p + 1 + k] = [kind |-> "body", n |-> k, rec |-> r]
  BY <1>3, <1>4
<1>7. f[p + 2].rec = r
  <2>1. 1 \in 1..Size(r) /\ p + 1 + 1 = p + 2
    BY <1>3
  <2>2. f[p + 2] = [kind |-> "body", n |-> 1, rec |-> r]
    BY <1>6, <2>1
  <2> QED BY <2>2
<1>8. WholeCommand(f, p + 1)
  <2>1. p + 1 + 1 = p + 2 /\ p + 1 + Size(r) <= Len(f)
    BY <1>2, <1>3, <1>4
  <2>2. f[p + 1 + 1].rec = r
    BY <1>7, <2>1
  <2> QED BY <1>5, <1>6, <2>1, <2>2 DEF WholeCommand
<1> QED BY <1>1, <1>2, <1>4, <1>5, <1>7, <1>8 DEF r

\* A file that carries the first h entries parses to their records and what is parsed behind them.
LEMMA ParseAlong ==
  ASSUME NEW es \in Seq(Commands), NEW pos, Layout(es, pos), NEW f \in Seq(Cell),
         NEW h \in 0..Len(es), Carried(es, f, pos, h)
  PROVE  /\ pos[h] \in 0..Len(f)
         /\ ParsedFrom(f)[pos[h] + 1] \in Seq(Record)
         /\ Parsed(f) = LoggedTo(es, h) \o ParsedFrom(f)[pos[h] + 1]
<1> DEFINE T == Seq(Records)
           P == ParsedFrom(f)
           W == {k \in Nat : k <= h => pos[k] \in 0..Len(f) /\ Parsed(f) = LoggedTo(es, k) \o P[pos[k] + 1]}
<1>0. /\ Len(es) \in Nat /\ Len(f) \in Nat /\ h \in Nat /\ pos[0] = 0
      /\ \A k \in 0..Len(es) : pos[k] \in Nat
  BY DEF Layout
<1>1. P \in [1..Len(f) + 3 -> Seq(Record)] /\ Seq(Record) \subseteq T
  <2>1. P \in [1..Len(f) + 3 -> Seq(Record)]
    BY ParserExists
  <2>2. Record \subseteq Records
    BY LogAssumption DEF Record, Records
  <2> QED BY <2>1, <2>2
<1> HIDE DEF P
<1>2. 0 \in W
  <2>1. LoggedTo(es, 0) = <<>>
    BY LoggedToProperties
  <2>2. Parsed(f) = P[1]
    BY DEF Parsed, P
  <2>3. PICK t \in T : t = P[1]
    <3>1. 1 \in 1..Len(f) + 3
      BY <1>0
    <3>2. P[1] \in Seq(Record)
      BY <1>1, <3>1
    <3> QED BY <1>1, <3>2
  <2>4. <<>> \o t = t
    BY <2>3, ConcatEmptySeq
  <2>5. pos[0] \in 0..Len(f) /\ Parsed(f) = LoggedTo(es, 0) \o P[pos[0] + 1]
    BY <1>0, <2>1, <2>2, <2>3, <2>4
  <2> QED BY <2>5
<1>3. ASSUME NEW k \in W, k + 1 <= h
      PROVE  pos[k + 1] \in 0..Len(f) /\ Parsed(f) = LoggedTo(es, k + 1) \o P[pos[k + 1] + 1]
  <2>1. k \in Nat
    OBVIOUS
  <2>2. PICK j \in 1..Len(es) : j = k + 1 /\ j - 1 = k /\ j \in 1..h /\ j \in 0..Len(es) /\ k \in 0..Len(es)
    BY <1>0, <1>3, <2>1
  <2>3. pos[k] \in 0..Len(f) /\ Parsed(f) = LoggedTo(es, k) \o P[pos[k] + 1]
    BY <1>0, <1>3, <2>1
  <2>4. Carries(es, f, pos, j)
    BY <2>2 DEF Carried
  <2>5. CASE es[j] \in AdHoc
    <3>1. pos[j] = pos[k]
      BY <1>0, <2>2, <2>5 DEF Layout, Width
    <3>2. LoggedTo(es, j) = LoggedTo(es, k)
      BY <2>2, <2>5, LoggedToProperties
    <3> QED BY <2>2, <2>3, <3>1, <3>2
  <2>6. CASE es[j] \notin AdHoc
    <3> DEFINE r == RecordAt(es, j)
    <3>1. /\ pos[k] \in Nat /\ pos[j] = pos[k] + 1 + Size(r) /\ pos[j] <= Len(f)
          /\ WholeCommand(f, pos[k] + 1) /\ f[pos[k] + 1].n = Size(r) /\ f[pos[k] + 2].rec = r
      <4>1. j \in 1..Len(es)
        OBVIOUS
      <4>2. /\ pos[j - 1] \in Nat /\ pos[j] = pos[j - 1] + 1 + Size(r) /\ pos[j] <= Len(f)
            /\ WholeCommand(f, pos[j - 1] + 1) /\ f[pos[j - 1] + 1].n = Size(r) /\ f[pos[j - 1] + 2].rec = r
        BY <2>4, <2>6, <4>1, CarriedRecord
      <4>3. j - 1 = k
        BY <2>2
      <4> HIDE DEF r
      <4> QED BY <4>2, <4>3
    <3>2. PICK p \in Nat : p = pos[k]
      BY <3>1
    <3>3. Size(r) \in {1, 2}
      BY SizeProperties
    <3> HIDE DEF r
    <3>4. P[p + 1] = <<r>> \o P[pos[j] + 1]
      <4>1. p + 1 \in 1..Len(f) + 3 /\ ~(p + 1 > Len(f)) /\ (p + 1) + 1 = p + 2
            /\ (p + 1) + 1 + Size(r) = pos[j] + 1
        BY <1>0, <3>1, <3>2, <3>3
      <4>2. P[p + 1] = <<f[(p + 1) + 1].rec>> \o P[(p + 1) + 1 + f[p + 1].n]
        BY <3>1, <3>2, <4>1, ParserExists DEF P
      <4> QED BY <3>1, <3>2, <4>1, <4>2
    <3>5. LoggedTo(es, j) = Append(LoggedTo(es, k), r) /\ LoggedTo(es, k) \in T
      BY <2>2, <2>6, LoggedToProperties DEF r
    <3>6. r \in Records
      BY <2>2 DEF r, RecordAt, Records
    <3>7. P[pos[j] + 1] \in T /\ pos[j] \in 0..Len(f)
      <4>1. pos[j] + 1 \in 1..Len(f) + 3 /\ pos[j] \in 0..Len(f)
        BY <1>0, <2>2, <3>1
      <4> QED BY <1>1, <4>1
    <3>8. LoggedTo(es, k) \o (<<r>> \o P[pos[j] + 1]) = LoggedTo(es, j) \o P[pos[j] + 1]
      <4>1. PICK s \in Seq(Records) : s = LoggedTo(es, k)
        BY <3>5
      <4>2. PICK t \in Seq(Records) : t = P[pos[j] + 1]
        BY <3>7
      <4>3. <<r>> \in Seq(Records)
        BY <3>6
      <4>4. (s \o <<r>>) \o t = s \o (<<r>> \o t)
        BY <4>3, ConcatAssociative
      <4>5. Append(s, r) = s \o <<r>>
        BY <3>6, AppendIsConcat
      <4> QED BY <3>5, <4>1, <4>2, <4>4, <4>5
    <3> QED BY <2>2, <2>3, <3>2, <3>4, <3>7, <3>8
  <2> QED BY <2>5, <2>6
<1>4. h \in W
  <2>1. ASSUME NEW k \in W PROVE k + 1 \in W
    <3>1. k + 1 \in Nat
      OBVIOUS
    <3> QED BY <1>3, <3>1
  <2>2. W \in SUBSET Nat
    OBVIOUS
  <2> HIDE DEF W
  <2> QED BY <1>0, <1>2, <2>1, <2>2, Induction
<1>5. pos[h] \in 0..Len(f) /\ Parsed(f) = LoggedTo(es, h) \o P[pos[h] + 1]
  BY <1>0, <1>4
<1>6. P[pos[h] + 1] \in Seq(Record)
  <2>1. pos[h] + 1 \in 1..Len(f) + 3
    BY <1>0, <1>5
  <2> QED BY <1>1, <2>1
<1> QED BY <1>5, <1>6 DEF P

\* Nothing is parsed where a file ends.
LEMMA ParsedWritten ==
  ASSUME NEW es \in Seq(Commands), NEW pos, Layout(es, pos), NEW f \in Seq(Cell),
         NEW h \in 0..Len(es), Carried(es, f, pos, h), EndsAt(es, f, pos, h)
  PROVE  Parsed(f) = LoggedTo(es, h)
<1>1. /\ pos[h] \in 0..Len(f)
      /\ ParsedFrom(f)[pos[h] + 1] \in Seq(Record)
      /\ Parsed(f) = LoggedTo(es, h) \o ParsedFrom(f)[pos[h] + 1]
  BY ParseAlong
<1>2. PICK i \in 1..Len(f) + 3 : i = pos[h] + 1
  BY <1>1
<1>3. i > Len(f) \/ ~WholeCommand(f, i)
  <2>1. CASE Len(f) = pos[h]
    BY <1>1, <1>2, <2>1
  <2>2. CASE Len(f) = pos[h] + 1 /\ f[pos[h] + 1] = LenCell(RecordAt(es, h + 1))
    <3>1. f[i].n = Size(RecordAt(es, h + 1))
      BY <1>2, <2>2 DEF LenCell
    <3>2. ~(i + f[i].n <= Len(f))
      BY <1>1, <1>2, <2>2, <3>1, SizeProperties
    <3> QED BY <3>2 DEF WholeCommand
  <2> QED BY <2>1, <2>2 DEF EndsAt, Opening
<1>4. ParsedFrom(f)[i] = <<>>
  BY <1>3, ParserExists
<1>5. LoggedTo(es, h) \in Seq(Records)
  BY LoggedToProperties
<1> QED BY <1>1, <1>2, <1>4, <1>5, ConcatEmptySeq

-----------------------------------------------------------------------------
(* How a file goes from step to step. *)

\* The file has the first h entries and nothing more, but perhaps a length.
Written(es, f, pos, h) == Carried(es, f, pos, h) /\ EndsAt(es, f, pos, h)

LEMMA LayoutGrows ==
  ASSUME NEW es \in Seq(Commands), NEW pos, Layout(es, pos), NEW e \in Commands
  PROVE  \E pos2 : Layout(Append(es, e), pos2) /\ \A i \in 0..Len(es) : pos2[i] = pos[i]
<1> DEFINE L == Len(es)
           ts == Append(es, e)
<1>0. L \in Nat /\ Len(ts) = L + 1 /\ \A j \in 1..L : ts[j] = es[j]
  BY AppendProperties
<1> HIDE DEF ts
<1>1. PICK w \in Nat : w = Width(ts, L + 1)
  BY SizeProperties DEF Width
<1>2. \A j \in 1..L : Width(ts, j) = Width(es, j)
  BY <1>0 DEF Width, RecordAt
<1>3. /\ \A i \in 0..L : pos[i] \in Nat
      /\ \A i, j \in 0..L : i <= j => pos[i] <= pos[j]
      /\ pos[0] = 0 /\ \A j \in 1..L : pos[j] = pos[j - 1] + Width(es, j)
  BY DEF Layout
<1> DEFINE pos2 == [i \in 0..L + 1 |-> IF i <= L THEN pos[i] ELSE pos[L] + w]
<1>4. pos2 \in [0..L + 1 -> Nat]
  <2>1. \A i \in 0..L + 1 : i <= L => i \in 0..L
    BY <1>0
  <2>2. pos[L] + w \in Nat
    BY <1>0, <1>1, <1>3
  <2> QED BY <1>3, <2>1, <2>2
<1>5. (\A i \in 0..L : pos2[i] = pos[i]) /\ pos2[L + 1] = pos[L] + w
  BY <1>0
<1> HIDE DEF pos2
<1>6. pos2[0] = 0
  BY <1>0, <1>3, <1>5
<1>7. ASSUME NEW j \in 1..L + 1 PROVE pos2[j] = pos2[j - 1] + Width(ts, j)
  <2>1. CASE j \in 1..L
    <3>1. j \in 0..L /\ j - 1 \in 0..L
      BY <1>0, <2>1
    <3> QED BY <1>2, <1>3, <1>5, <2>1, <3>1
  <2>2. CASE j = L + 1
    <3>1. j - 1 = L /\ L \in 0..L
      BY <1>0, <2>2
    <3> QED BY <1>1, <1>5, <2>2, <3>1
  <2> QED BY <1>0, <2>1, <2>2
<1>8. ASSUME NEW i \in 0..L + 1, NEW j \in 0..L + 1, i <= j PROVE pos2[i] <= pos2[j]
  <2>1. CASE j \in 0..L
    <3>1. i \in 0..L
      BY <1>0, <1>8, <2>1
    <3> QED BY <1>3, <1>5, <1>8, <2>1, <3>1
  <2>2. CASE j = L + 1 /\ i \in 0..L
    <3>1. L \in 0..L /\ i <= L
      BY <1>0, <2>2
    <3>2. pos[i] <= pos[L] /\ pos[i] \in Nat /\ pos[L] \in Nat
      BY <1>3, <2>2, <3>1
    <3> QED BY <1>1, <1>5, <2>2, <3>2
  <2>3. CASE j = L + 1 /\ i = L + 1
    BY <1>0, <1>4, <2>3
  <2> QED BY <1>0, <2>1, <2>2, <2>3
<1>9. Layout(ts, pos2)
  BY <1>0, <1>4, <1>6, <1>7, <1>8 DEF Layout
<1> QED BY <1>5, <1>9 DEF ts

\* A commit changes nothing in what a file has.
LEMMA CommitKeeps ==
  ASSUME NEW es \in Seq(Commands), NEW e \in Commands, NEW pos, NEW pos2,
         Layout(es, pos), \A i \in 0..Len(es) : pos2[i] = pos[i],
         NEW f, NEW h \in 0..Len(es)
  PROVE  /\ Carried(es, f, pos, h) => Carried(Append(es, e), f, pos2, h)
         /\ Opening(es, f, pos, h) => Opening(Append(es, e), f, pos2, h)
         /\ Written(es, f, pos, h) => Written(Append(es, e), f, pos2, h)
<1> DEFINE ts == Append(es, e)
<1>0. Len(es) \in Nat /\ Len(ts) = Len(es) + 1 /\ \A j \in 1..Len(es) : ts[j] = es[j]
  BY AppendProperties
<1> HIDE DEF ts
<1>1. \A j \in 1..Len(es) : RecordAt(ts, j) = RecordAt(es, j)
  BY <1>0 DEF RecordAt
<1>2. ASSUME NEW j \in 1..h, Carries(es, f, pos, j) PROVE Carries(ts, f, pos2, j)
  <2>1. j \in 1..Len(es) /\ j \in 0..Len(es) /\ j - 1 \in 0..Len(es)
    BY <1>0
  <2>2. pos2[j] = pos[j] /\ pos2[j - 1] = pos[j - 1] /\ RecordAt(ts, j) = RecordAt(es, j) /\ ts[j] = es[j]
    BY <1>0, <1>1, <2>1
  <2> QED BY <1>2, <2>2 DEF Carries
<1>3. Carried(es, f, pos, h) => Carried(ts, f, pos2, h)
  BY <1>2 DEF Carried
<1>4. Opening(es, f, pos, h) => Opening(ts, f, pos2, h)
  <2>1. ASSUME h < Len(es) PROVE h + 1 \in 1..Len(es) /\ h < Len(ts)
    BY <1>0, <2>1
  <2> QED BY <1>0, <1>1, <2>1 DEF Opening
<1>5. EndsAt(es, f, pos, h) => EndsAt(ts, f, pos2, h)
  BY <1>4 DEF EndsAt
<1> QED BY <1>3, <1>4, <1>5 DEF Written, ts

\* An entry that is not logged needs nothing in the file.
LEMMA SkipKeeps ==
  ASSUME NEW es \in Seq(Commands), NEW pos, Layout(es, pos), NEW f \in Seq(Cell),
         NEW a \in 0..Len(es), a < Len(es), es[a + 1] \in AdHoc
  PROVE  /\ a + 1 \in 0..Len(es) /\ pos[a + 1] = pos[a]
         /\ Carried(es, f, pos, a) => Carried(es, f, pos, a + 1)
         /\ Written(es, f, pos, a) => Written(es, f, pos, a + 1)
<1>1. PICK j \in 1..Len(es) : j = a + 1 /\ j - 1 = a
  OBVIOUS
<1>2. pos[j] = pos[a]
  <2>1. pos[a] \in Nat
    BY DEF Layout
  <2> QED BY <1>1, <2>1 DEF Layout, Width
<1>3. Carries(es, f, pos, j)
  BY <1>1 DEF Carries
<1>4. \A i \in 1..j : i \in 1..a \/ i = j
  BY <1>1
<1>5. Carried(es, f, pos, a) => Carried(es, f, pos, j)
  BY <1>3, <1>4 DEF Carried
<1>6. EndsAt(es, f, pos, a) => EndsAt(es, f, pos, j)
  BY <1>2 DEF EndsAt, Opening
<1> QED BY <1>1, <1>2, <1>5, <1>6 DEF Written

\* A write leaves the records in front of it.
LEMMA WriteKeeps ==
  ASSUME NEW es \in Seq(Commands), NEW pos, Layout(es, pos), NEW f \in Seq(Cell),
         NEW a \in 0..Len(es), Carried(es, f, pos, a),
         NEW off \in Nat, pos[a] <= off, off <= Len(f), NEW cells \in Seq(Cell)
  PROVE  Carried(es, WriteAt(f, off, cells), pos, a)
<1> DEFINE w == WriteAt(f, off, cells)
<1>1. Len(w) \in Nat /\ Len(f) <= Len(w) /\ Len(f) \in Nat /\ \A i \in 1..off : w[i] = f[i]
  <2>1. w \in Seq(Cell) /\ Len(w) = (IF off + Len(cells) > Len(f) THEN off + Len(cells) ELSE Len(f))
        /\ \A i \in 1..off : w[i] = f[i]
    BY WriteAtProperties
  <2>2. Len(cells) \in Nat /\ Len(f) \in Nat
    OBVIOUS
  <2> HIDE DEF w
  <2> QED BY <2>1, <2>2
<1> HIDE DEF w
<1>2. ASSUME NEW j \in 1..a, es[j] \notin AdHoc
      PROVE  /\ pos[j] <= Len(w) /\ w[pos[j - 1] + 1] = LenCell(RecordAt(es, j))
             /\ \A k \in 1..Size(RecordAt(es, j)) : w[pos[j - 1] + 1 + k] = Body(RecordAt(es, j))[k]
  <2> DEFINE r == RecordAt(es, j)
  <2>1. j \in 1..Len(es) /\ j \in 0..Len(es) /\ j <= a
    OBVIOUS
  <2>2. Carries(es, f, pos, j)
    BY DEF Carried
  <2>3. /\ pos[j - 1] \in Nat /\ pos[j] = pos[j - 1] + 1 + Size(r) /\ pos[j] <= Len(f)
    BY <1>2, <2>1, <2>2, CarriedRecord
  <2>4. f[pos[j - 1] + 1] = LenCell(r) /\ \A k \in 1..Size(r) : f[pos[j - 1] + 1 + k] = Body(r)[k]
    BY <1>2, <2>2 DEF Carries
  <2>5. Size(r) \in {1, 2}
    BY SizeProperties
  <2> HIDE DEF r
  <2>6. PICK p \in Nat : p = pos[j - 1]
    BY <2>3
  <2>7. pos[j] <= pos[a] /\ pos[a] \in Nat
    BY <2>1 DEF Layout
  <2>8. p + 1 + Size(r) <= off
    BY <2>3, <2>5, <2>6, <2>7
  <2>9. w[p + 1] = LenCell(r)
    <3>1. p + 1 \in 1..off
      BY <2>5, <2>8
    <3> QED BY <1>1, <2>4, <2>6, <3>1
  <2>10. ASSUME NEW k \in 1..Size(r) PROVE w[p + 1 + k] = Body(r)[k]
    <3>1. p + 1 + k \in 1..off
      BY <2>5, <2>8
    <3> QED BY <1>1, <2>4, <2>6, <3>1
  <2>11. pos[j] <= Len(w)
    BY <1>1, <2>3, <2>5, <2>6
  <2> QED BY <2>6, <2>9, <2>10, <2>11 DEF r
<1>3. Carried(es, w, pos, a)
  BY <1>2 DEF Carried, Carries
<1> QED BY <1>3 DEF w

\* Cells that are there already are written again: nothing changes behind them.
LEMMA LengthKeeps ==
  ASSUME NEW es \in Seq(Commands), NEW pos, Layout(es, pos), NEW f \in Seq(Cell),
         NEW a \in 0..Len(es), Carried(es, f, pos, a), a < Len(es), es[a + 1] \notin AdHoc,
         LenCell(RecordAt(es, a + 1)) \in Cell
  PROVE  LET w == WriteAt(f, pos[a], <<LenCell(RecordAt(es, a + 1))>>) IN
         /\ w \in Seq(Cell) /\ pos[a] \in 0..Len(f) /\ pos[a] + 1 <= Len(w) /\ Len(f) <= Len(w)
         /\ Carried(es, w, pos, a) /\ Opening(es, w, pos, a)
         /\ \A h \in a..Len(es) : Written(es, f, pos, h) => Written(es, w, pos, h)
<1> DEFINE r == RecordAt(es, a + 1)
           cells == <<LenCell(r)>>
           w == WriteAt(f, pos[a], cells)
<1>1. pos[a] \in 0..Len(f) /\ pos[a] \in Nat
  BY ParseAlong DEF Layout
<1>2. cells \in Seq(Cell) /\ Len(cells) = 1 /\ cells[1] = LenCell(r) /\ Len(f) \in Nat
  OBVIOUS
<1> HIDE DEF r, cells
<1>3. /\ w \in Seq(Cell)
      /\ Len(w) = IF pos[a] + 1 > Len(f) THEN pos[a] + 1 ELSE Len(f)
      /\ w[pos[a] + 1] = LenCell(r)
      /\ pos[a] + 1 <= Len(f) /\ f[pos[a] + 1] = LenCell(r) => w = f
  <2>1. PICK p \in Nat : p = pos[a]
    BY <1>1
  <2>2. p <= Len(f)
    BY <1>1, <2>1
  <2>3. /\ WriteAt(f, p, cells) \in Seq(Cell)
        /\ Len(WriteAt(f, p, cells)) = IF p + Len(cells) > Len(f) THEN p + Len(cells) ELSE Len(f)
        /\ \A i \in 1..Len(cells) : WriteAt(f, p, cells)[p + i] = cells[i]
    <3>1. cells \in Seq(Cell)
      BY <1>2
    <3> QED BY <2>2, <3>1, WriteAtProperties
  <2>4. WriteAt(f, p, cells)[p + 1] = LenCell(r)
    BY <1>2, <2>3
  <2>5. ASSUME p + 1 <= Len(f), f[p + 1] = LenCell(r) PROVE WriteAt(f, p, cells) = f
    <3>1. cells \in Seq(Cell) /\ p + Len(cells) <= Len(f) /\ \A i \in 1..Len(cells) : f[p + i] = cells[i]
      BY <1>2, <2>5
    <3> QED BY <3>1, WriteAtSame
  <2> QED BY <1>2, <2>1, <2>3, <2>4, <2>5
<1>4. Carried(es, w, pos, a)
  <2>1. PICK p \in Nat : p = pos[a] /\ p <= Len(f) /\ pos[a] <= p
    BY <1>1
  <2>2. Carried(es, WriteAt(f, p, cells), pos, a)
    BY <1>2, <2>1, WriteKeeps
  <2> QED BY <2>1, <2>2
<1> HIDE DEF w
<1>5. Opening(es, w, pos, a) /\ Len(f) <= Len(w) /\ pos[a] + 1 <= Len(w)
  BY <1>1, <1>2, <1>3 DEF Opening, r
<1>6. ASSUME NEW h \in a..Len(es), Written(es, f, pos, h) PROVE Written(es, w, pos, h)
  <2>1. CASE h = a /\ Len(f) = pos[a]
    <3>1. Len(w) = pos[a] + 1
      BY <1>1, <1>3, <2>1
    <3> QED BY <1>4, <1>5, <2>1, <3>1 DEF Written, EndsAt
  <2>2. CASE h = a /\ Opening(es, f, pos, a)
    <3>1. w = f
      BY <1>3, <2>2 DEF Opening, r
    <3> QED BY <1>6, <3>1
  <2>3. CASE h > a
    <3>1. PICK j \in 1..h : j = a + 1 /\ j - 1 = a /\ j \in 1..Len(es)
      BY <2>3
    <3>2. Carries(es, f, pos, j) /\ es[j] \notin AdHoc
      BY <1>6, <3>1 DEF Written, Carried
    <3>3. pos[j] = pos[a] + 1 + Size(r) /\ pos[j] <= Len(f) /\ f[pos[a] + 1] = LenCell(r)
      <4>1. pos[j] = pos[j - 1] + 1 + Size(RecordAt(es, j)) /\ pos[j] <= Len(f)
        BY <3>1, <3>2, CarriedRecord
      <4> QED BY <3>1, <3>2, <4>1 DEF Carries, r
    <3>4. w = f
      BY <1>1, <1>2, <1>3, <3>3, SizeProperties
    <3> QED BY <1>6, <3>4
  <2> QED BY <1>6, <2>1, <2>2, <2>3 DEF Written, EndsAt
<1> QED BY <1>1, <1>3, <1>4, <1>5, <1>6 DEF w, cells, r

LEMMA RecordCells ==
  ASSUME NEW r \in Record
  PROVE  LenCell(r) \in Cell /\ Body(r) \in Seq(Cell)
<1>1. Size(r) \in {1, 2} /\ Size(r) \in Nat
  BY SizeProperties
<1>2. LenCell(r) \in Cell
  BY <1>1 DEF LenCell, Cell
<1>3. \A k \in 1..Size(r) : [kind |-> "body", n |-> k, rec |-> r] \in Cell
  BY <1>1 DEF Cell
<1>4. Body(r) \in [1..Size(r) -> Cell]
  BY <1>3 DEF Body
<1> QED BY <1>1, <1>2, <1>4, LenOfDomain

\* The command comes behind its length.
LEMMA CommandKeeps ==
  ASSUME NEW es \in Seq(Commands), NEW pos, Layout(es, pos), NEW f \in Seq(Cell),
         NEW a \in 0..Len(es), Carried(es, f, pos, a), Opening(es, f, pos, a),
         RecordAt(es, a + 1) \in Record
  PROVE  LET r == RecordAt(es, a + 1)
             w == WriteAt(f, pos[a] + 1, Body(r)) IN
         /\ w \in Seq(Cell) /\ pos[a] \in Nat /\ pos[a] + 1 <= Len(f) /\ Len(f) <= Len(w)
         /\ a + 1 \in 0..Len(es) /\ pos[a + 1] = pos[a] + 1 + Len(Body(r)) /\ pos[a + 1] <= Len(w)
         /\ Carried(es, w, pos, a + 1)
         /\ \A h \in a..Len(es) :
              Written(es, f, pos, h) => \E k \in h..Len(es) : a + 1 <= k /\ Written(es, w, pos, k)
<1> DEFINE r == RecordAt(es, a + 1)
           cells == Body(r)
           w == WriteAt(f, pos[a] + 1, cells)
<1>1. PICK j \in 1..Len(es) : j = a + 1 /\ j - 1 = a
  BY DEF Opening
<1>2. es[j] \notin AdHoc /\ RecordAt(es, j) = r
  BY <1>1 DEF Opening
<1>3. cells \in Seq(Cell) /\ Len(cells) = Size(r) /\ Size(r) \in {1, 2}
  BY RecordCells, SizeProperties
<1> HIDE DEF r, cells
<1>4. PICK q \in Nat : q = pos[a] + 1
  <2>1. pos[a] \in Nat
    BY DEF Layout
  <2> QED BY <2>1
<1>5. pos[a] \in Nat /\ q <= Len(f) /\ pos[a] <= q /\ f[q] = LenCell(r) /\ Len(f) \in Nat
  BY <1>4 DEF Opening, Layout, r
<1>6. pos[j] = q + Size(r)
  <2>1. pos[j] = pos[a] + (1 + Size(r))
    BY <1>1, <1>2 DEF Layout, Width
  <2> QED BY <1>3, <1>4, <1>5, <2>1
<1>7. w = WriteAt(f, q, cells)
  BY <1>4
<1> HIDE DEF w
<1>8. /\ w \in Seq(Cell)
      /\ Len(w) = IF q + Size(r) > Len(f) THEN q + Size(r) ELSE Len(f)
      /\ w[q] = LenCell(r)
      /\ \A k \in 1..Size(r) : w[q + k] = cells[k]
  <2>1. cells \in Seq(Cell) /\ q <= Len(f)
    BY <1>3, <1>5
  <2>2. /\ WriteAt(f, q, cells) \in Seq(Cell)
        /\ Len(WriteAt(f, q, cells)) = IF q + Len(cells) > Len(f) THEN q + Len(cells) ELSE Len(f)
        /\ \A i \in 1..q : WriteAt(f, q, cells)[i] = f[i]
        /\ \A i \in 1..Len(cells) : WriteAt(f, q, cells)[q + i] = cells[i]
    BY <2>1, WriteAtProperties
  <2>3. q \in 1..q
    BY <1>4, <1>5
  <2> QED BY <1>3, <1>5, <1>7, <2>2, <2>3
<1>9. Carried(es, w, pos, a)
  <2>1. cells \in Seq(Cell) /\ q <= Len(f) /\ pos[a] <= q
    BY <1>3, <1>5
  <2>2. Carried(es, WriteAt(f, q, cells), pos, a)
    BY <2>1, WriteKeeps
  <2> QED BY <1>7, <2>2
<1>10. Len(f) <= Len(w) /\ pos[j] <= Len(w)
  <2>1. PICK m \in Nat : m = q + Size(r)
    BY <1>3, <1>4
  <2>2. Len(w) = IF m > Len(f) THEN m ELSE Len(f)
    BY <1>8, <2>1
  <2>3. pos[j] = m
    BY <1>6, <2>1
  <2> QED BY <1>5, <2>2, <2>3
<1>11. Carries(es, w, pos, j)
  <2>1. w[pos[j - 1] + 1] = LenCell(RecordAt(es, j))
    BY <1>1, <1>2, <1>4, <1>8
  <2>2. \A k \in 1..Size(RecordAt(es, j)) : w[pos[j - 1] + 1 + k] = Body(RecordAt(es, j))[k]
    BY <1>1, <1>2, <1>4, <1>8 DEF cells
  <2> QED BY <1>10, <2>1, <2>2 DEF Carries
<1>12. Carried(es, w, pos, j)
  <2>1. \A i \in 1..j : i \in 1..a \/ i = j
    BY <1>1
  <2> QED BY <1>9, <1>11, <2>1 DEF Carried
<1>13. ASSUME NEW h \in a..Len(es), Written(es, f, pos, h)
       PROVE  \E k \in h..Len(es) : j <= k /\ Written(es, w, pos, k)
  <2>1. CASE h = a
    <3>1. Len(f) = q
      BY <1>4, <1>5, <1>13, <2>1 DEF Written, EndsAt
    <3>2. Len(w) = pos[j]
      BY <1>3, <1>6, <1>8, <3>1
    <3>3. Written(es, w, pos, j)
      BY <1>12, <3>2 DEF Written, EndsAt
    <3>4. j \in h..Len(es) /\ j <= j
      BY <1>1, <2>1
    <3> QED BY <3>3, <3>4
  <2>2. CASE h > a
    <3>1. j \in 1..h /\ h \in h..Len(es) /\ j <= h
      BY <1>1, <2>2
    <3>2. Carries(es, f, pos, j)
      BY <1>13, <3>1 DEF Written, Carried
    <3>3. pos[j] <= Len(f) /\ \A k \in 1..Size(r) : f[q + k] = cells[k]
      BY <1>1, <1>2, <1>4, <3>2 DEF Carries, cells
    <3>4. w = f
      <4>1. cells \in Seq(Cell) /\ q + Len(cells) <= Len(f) /\ \A k \in 1..Len(cells) : f[q + k] = cells[k]
        BY <1>3, <1>6, <3>3
      <4>2. WriteAt(f, q, cells) = f
        BY <4>1, WriteAtSame
      <4> QED BY <1>7, <4>2
    <3> QED BY <1>13, <3>1, <3>4
  <2> QED BY <2>1, <2>2
<1>14. pos[a + 1] = pos[a] + 1 + Len(cells)
  BY <1>1, <1>3, <1>4, <1>6
<1> QED BY <1>1, <1>4, <1>5, <1>8, <1>10, <1>12, <1>13, <1>14 DEF w, cells, r

-----------------------------------------------------------------------------
(* Prefixes. *)

LEMMA PrefixOfConcat ==
  ASSUME NEW S, NEW s \in Seq(S), NEW t \in Seq(S)
  PROVE  IsPrefix(s, s \o t)
<1>1. /\ s \o t \in Seq(S) /\ Len(s \o t) = Len(s) + Len(t) /\ Len(s) \in Nat /\ Len(t) \in Nat
      /\ \A i \in 1..Len(s) + Len(t) : (s \o t)[i] = IF i <= Len(s) THEN s[i] ELSE t[i - Len(s)]
  BY ConcatProperties
<1>2. PICK v \in Seq(S) : v = s \o t
  BY <1>1
<1>3. Len(s) \in 0..Len(v) /\ Len(s) \in 0..Len(s) /\ \A i \in 1..Len(s) : v[i] = s[i]
  BY <1>1, <1>2
<1>4. /\ SubSeq(v, 1, Len(s)) \in Seq(S) /\ Len(SubSeq(v, 1, Len(s))) = Len(s)
      /\ \A i \in 1..Len(s) : SubSeq(v, 1, Len(s))[i] = v[i]
  BY <1>3, Beginning
<1>5. SubSeq(v, 1, Len(s)) = s
  BY <1>3, <1>4, SeqEqual
<1>6. SubSeq(s, 1, Len(s)) = s
  BY SubSeqFull
<1> QED BY <1>1, <1>2, <1>5, <1>6 DEF IsPrefix

\* The records of fewer entries come first.
LEMMA LoggedPrefix ==
  ASSUME NEW es \in Seq(Commands), NEW h \in 0..Len(es), NEW k \in h..Len(es)
  PROVE  IsPrefix(LoggedTo(es, h), LoggedTo(es, k))
<1> DEFINE W == {i \in Nat : h + i <= Len(es) => \E t \in Seq(Records) : LoggedTo(es, h + i) = LoggedTo(es, h) \o t}
<1>0. h \in Nat /\ Len(es) \in Nat /\ LoggedTo(es, h) \in Seq(Records)
  BY LoggedToProperties
<1>1. 0 \in W
  <2>1. LoggedTo(es, h + 0) = LoggedTo(es, h) \o <<>> /\ <<>> \in Seq(Records)
    BY <1>0, ConcatEmptySeq
  <2> QED BY <2>1
<1>2. ASSUME NEW i \in W PROVE i + 1 \in W
  <2>1. i \in Nat /\ i + 1 \in Nat
    OBVIOUS
  <2>2. ASSUME h + (i + 1) <= Len(es)
        PROVE  \E t \in Seq(Records) : LoggedTo(es, h + (i + 1)) = LoggedTo(es, h) \o t
    <3>1. PICK t \in Seq(Records) : LoggedTo(es, h + i) = LoggedTo(es, h) \o t
      <4>1. h + i <= Len(es)
        BY <1>0, <2>1, <2>2
      <4> QED BY <4>1
    <3>2. PICK j \in 1..Len(es) : j = h + (i + 1)
      BY <1>0, <2>1, <2>2
    <3>3. j - 1 = h + i
      BY <1>0, <2>1, <3>2
    <3>4. CASE es[j] \in AdHoc
      <4>1. LoggedTo(es, j) = LoggedTo(es, j - 1)
        BY <3>4, LoggedToProperties
      <4> QED BY <3>1, <3>2, <3>3, <4>1
    <3>5. CASE es[j] \notin AdHoc
      <4>1. LoggedTo(es, j) = Append(LoggedTo(es, j - 1), RecordAt(es, j))
        BY <3>5, LoggedToProperties
      <4>2. RecordAt(es, j) \in Records
        BY DEF RecordAt, Records
      <4>3. PICK r \in Records : r = RecordAt(es, j)
        BY <4>2
      <4>4. PICK s \in Seq(Records) : s = LoggedTo(es, h)
        BY <1>0
      <4>5. Append(s \o t, r) = (s \o t) \o <<r>>
        BY ConcatProperties, AppendIsConcat
      <4>6. <<r>> \in Seq(Records)
        OBVIOUS
      <4>7. (s \o t) \o <<r>> = s \o (t \o <<r>>) /\ t \o <<r>> \in Seq(Records)
        BY <4>6, ConcatAssociative, ConcatProperties
      <4>8. LoggedTo(es, j) = LoggedTo(es, h) \o (t \o <<r>>)
        BY <3>1, <3>3, <4>1, <4>3, <4>4, <4>5, <4>7
      <4> QED BY <3>2, <4>7, <4>8
    <3> QED BY <3>4, <3>5
  <2> QED BY <2>1, <2>2
<1>3. k - h \in W
  <2>1. k - h \in Nat
    BY <1>0
  <2>2. W \in SUBSET Nat
    OBVIOUS
  <2> HIDE DEF W
  <2> QED BY <1>1, <1>2, <2>1, <2>2, Induction
<1>4. PICK t \in Seq(Records) : LoggedTo(es, k) = LoggedTo(es, h) \o t
  <2>1. h + (k - h) = k /\ k <= Len(es)
    BY <1>0
  <2> QED BY <1>3, <2>1
<1>5. IsPrefix(LoggedTo(es, h), LoggedTo(es, h) \o t)
  BY <1>0, PrefixOfConcat
<1> QED BY <1>4, <1>5

-----------------------------------------------------------------------------
(***************************************************************************)
(* The invariant.  While an entry's position in the files is the same for  *)
(* every node, each file has the records its node went through in the      *)
(* present run, the descriptor stands behind them, and, as long as the     *)
(* first group lives, behind those come only the records that follow in    *)
(* the log, from an earlier run of the process.                            *)
(***************************************************************************)
FileAt(n, pos) ==
  /\ applied[n] \in 0..Len(log)
  /\ Carried(log, file[n], pos, applied[n])
  /\ n \in up => offset[n] = pos[applied[n]] + (IF writing[n] THEN 1 ELSE 0)
  /\ writing[n] => n \in up /\ Opening(log, file[n], pos, applied[n])
  /\ clusters = 0 => \E h \in applied[n]..Len(log) : Written(log, file[n], pos, h)

InstalledAt(n) == clusters = 0 => \E h \in 0..Len(log) : installed[n] = LoggedTo(log, h)

CommandLogInv ==
  /\ CommandLogTypeOK
  /\ Len(log) <= MaxLog
  /\ \A n \in Nodes : InstalledAt(n)
  /\ \E pos : Layout(log, pos) /\ \A n \in Nodes : FileAt(n, pos)

\* With nothing committed, a file has nothing to carry.
LEMMA EmptyLog ==
  ASSUME NEW f, NEW pos, pos = [i \in 0..0 |-> 0]
  PROVE  Layout(<<>>, pos) /\ Carried(<<>>, f, pos, 0) /\ pos[0] = 0 /\ LoggedTo(<<>>, 0) = <<>>
<1>1. Len(<<>>) = 0 /\ pos \in [0..0 -> Nat] /\ pos[0] = 0
  OBVIOUS
<1>2. Layout(<<>>, pos)
  <2>1. \A i, j \in 0..0 : pos[i] <= pos[j]
    BY <1>1
  <2> QED BY <1>1, <2>1 DEF Layout
<1>3. LoggedTo(<<>>, 0) = <<>>
  <2>1. PICK es \in Seq(Commands) : es = <<>>
    OBVIOUS
  <2>2. LoggedTo(es, 0) = <<>>
    BY LoggedToProperties
  <2> QED BY <2>1, <2>2
<1> QED BY <1>1, <1>2, <1>3 DEF Carried

LEMMA InitInv ==
  CommandLogInit => CommandLogInv
<1> SUFFICES ASSUME CommandLogInit PROVE CommandLogInv
  OBVIOUS
<1> USE DEF CommandLogInit
<1>1. CommandLogTypeOK
  BY LogAssumption DEF CommandLogTypeOK
<1>2. Len(log) <= MaxLog /\ log \in Seq(Commands)
  BY LogAssumption
<1>3. PICK pos : pos = [i \in 0..0 |-> 0]
  OBVIOUS
<1>4. Layout(log, pos) /\ \A f : Carried(log, f, pos, 0) /\ pos[0] = 0
  BY <1>3, EmptyLog
<1>5. ASSUME NEW n \in Nodes PROVE FileAt(n, pos)
  <2>1. Written(log, file[n], pos, 0)
    BY <1>4 DEF Written, EndsAt
  <2> QED BY <1>4, <2>1 DEF FileAt
<1>6. ASSUME NEW n \in Nodes PROVE InstalledAt(n)
  <2>1. LoggedTo(log, 0) = <<>> /\ 0 \in 0..Len(log)
    BY <1>3, EmptyLog
  <2>2. installed[n] = <<>>
    OBVIOUS
  <2> QED BY <2>1, <2>2 DEF InstalledAt
<1> QED BY <1>1, <1>2, <1>4, <1>5, <1>6 DEF CommandLogInv

LEMMA CommitInv ==
  ASSUME CommandLogInv, NEW cmd \in Commands, CommitEntry(cmd)
  PROVE  CommandLogInv'
<1>1. PICK pos : Layout(log, pos) /\ \A n \in Nodes : FileAt(n, pos)
  BY DEF CommandLogInv
<1>2. log \in Seq(Commands) /\ log' = Append(log, cmd) /\ Len(log) < MaxLog
      /\ UNCHANGED <<up, applied, writing, file, offset, crashes, clusters, installed>>
  BY DEF CommandLogInv, CommandLogTypeOK, CommitEntry
<1>3. log' \in Seq(Commands) /\ Len(log') = Len(log) + 1 /\ Len(log) \in Nat
  BY <1>2, AppendProperties
<1>4. PICK pos2 : Layout(log', pos2) /\ \A i \in 0..Len(log) : pos2[i] = pos[i]
  BY <1>1, <1>2, LayoutGrows
<1>5. ASSUME NEW n \in Nodes PROVE FileAt(n, pos2)'
  <2>1. FileAt(n, pos) /\ applied[n] \in 0..Len(log) /\ applied[n] \in 0..Len(log')
    BY <1>1, <1>3 DEF FileAt
  <2>2. ASSUME NEW h \in 0..Len(log)
        PROVE  /\ pos2[h] = pos[h]
               /\ Carried(log, file[n], pos, h) => Carried(log', file[n], pos2, h)
               /\ Opening(log, file[n], pos, h) => Opening(log', file[n], pos2, h)
               /\ Written(log, file[n], pos, h) => Written(log', file[n], pos2, h)
    BY <1>1, <1>2, <1>4, CommitKeeps
  <2>3. ASSUME clusters = 0 PROVE \E h \in applied[n]..Len(log') : Written(log', file[n], pos2, h)
    <3>1. PICK h \in applied[n]..Len(log) : Written(log, file[n], pos, h)
      BY <2>1, <2>3 DEF FileAt
    <3>2. h \in 0..Len(log) /\ h \in applied[n]..Len(log')
      BY <1>3, <2>1
    <3> QED BY <2>2, <3>1, <3>2
  <2> QED BY <1>2, <2>1, <2>2, <2>3 DEF FileAt
<1>6. ASSUME NEW n \in Nodes PROVE InstalledAt(n)'
  <2>1. ASSUME clusters = 0 PROVE \E h \in 0..Len(log') : installed[n] = LoggedTo(log', h)
    <3>1. PICK h \in 0..Len(log) : installed[n] = LoggedTo(log, h)
      BY <2>1 DEF CommandLogInv, InstalledAt
    <3>2. LoggedTo(log', h) = LoggedTo(log, h) /\ h \in 0..Len(log')
      BY <1>2, <1>3, LoggedToGrows
    <3> QED BY <3>1, <3>2
  <2> QED BY <1>2, <2>1 DEF InstalledAt
<1>7. CommandLogTypeOK' /\ Len(log') <= MaxLog
  BY <1>2, <1>3, LogAssumption DEF CommandLogInv, CommandLogTypeOK
<1> QED BY <1>4, <1>5, <1>6, <1>7 DEF CommandLogInv

LEMMA SkipInv ==
  ASSUME CommandLogInv, NEW n \in Nodes, ApplySkips(n)
  PROVE  CommandLogInv'
<1>1. PICK pos : Layout(log, pos) /\ \A m \in Nodes : FileAt(m, pos)
  BY DEF CommandLogInv
<1>2. PICK a \in 0..Len(log) : a = applied[n]
  BY <1>1 DEF FileAt
<1>3. /\ log \in Seq(Commands) /\ file[n] \in Seq(Cell) /\ Len(log) <= MaxLog /\ MaxLog \in Nat
      /\ a < Len(log) /\ log[a + 1] \in AdHoc
      /\ applied' = [applied EXCEPT ![n] = a + 1]
      /\ UNCHANGED <<log, up, writing, file, offset, crashes, clusters, installed>>
  BY <1>2, LogAssumption DEF CommandLogInv, CommandLogTypeOK, ApplySkips, HasEntry, NextRecord
<1>4. applied \in [Nodes -> 0..MaxLog] /\ a + 1 \in 0..MaxLog
  <2>1. applied \in [Nodes -> 0..MaxLog]
    BY DEF CommandLogInv, CommandLogTypeOK
  <2> QED BY <1>3, <2>1
<1>5. CommandLogTypeOK'
  BY <1>3, <1>4 DEF CommandLogInv, CommandLogTypeOK
<1>6. ASSUME NEW m \in Nodes PROVE FileAt(m, pos)'
  <2>1. CASE m # n
    BY <1>1, <1>3, <1>4, <2>1 DEF FileAt
  <2>2. CASE m = n
    <3>1. applied'[n] = a + 1
      BY <1>3, <1>4
    <3>2. /\ a + 1 \in 0..Len(log) /\ pos[a + 1] = pos[a]
          /\ Carried(log, file[n], pos, a) => Carried(log, file[n], pos, a + 1)
          /\ Written(log, file[n], pos, a) => Written(log, file[n], pos, a + 1)
      BY <1>1, <1>3, SkipKeeps
    <3>3. ~writing[n]
      BY <1>1, <1>2, <1>3 DEF FileAt, Opening
    <3>4. ASSUME clusters = 0 PROVE \E h \in a + 1..Len(log) : Written(log, file[n], pos, h)
      <4>1. PICK h \in a..Len(log) : Written(log, file[n], pos, h)
        BY <1>1, <1>2, <3>4 DEF FileAt
      <4>2. CASE h = a
        <5>1. a + 1 \in a + 1..Len(log)
          BY <3>2
        <5> QED BY <3>2, <4>1, <4>2, <5>1
      <4>3. CASE h # a
        <5>1. h \in a + 1..Len(log)
          BY <4>3
        <5> QED BY <4>1, <5>1
      <4> QED BY <4>2, <4>3
    <3> QED BY <1>1, <1>2, <1>3, <2>2, <3>1, <3>2, <3>3, <3>4 DEF FileAt
  <2> QED BY <2>1, <2>2
<1>7. \A m \in Nodes : InstalledAt(m)'
  BY <1>3 DEF CommandLogInv, InstalledAt
<1> QED BY <1>1, <1>3, <1>5, <1>6, <1>7 DEF CommandLogInv

\* Later files of a node have what earlier ones had.
LEMMA WrittenPrefix ==
  ASSUME NEW es \in Seq(Commands), NEW pos, Layout(es, pos), NEW f \in Seq(Cell), NEW w \in Seq(Cell),
         NEW h \in 0..Len(es), NEW k \in h..Len(es), Written(es, f, pos, h), Written(es, w, pos, k)
  PROVE  IsPrefix(Parsed(f), Parsed(w))
<1>1. Parsed(f) = LoggedTo(es, h)
  BY ParsedWritten DEF Written
<1>2. k \in 0..Len(es)
  OBVIOUS
<1>3. Parsed(w) = LoggedTo(es, k)
  BY <1>2, ParsedWritten DEF Written
<1> QED BY <1>1, <1>3, LoggedPrefix

LEMMA LengthInv ==
  ASSUME CommandLogInv, NEW n \in Nodes, ApplyWritesLength(n)
  PROVE  CommandLogInv' /\ (clusters = 0 => IsPrefix(Parsed(file[n]), Parsed(file'[n])))
<1>1. PICK pos : Layout(log, pos) /\ \A m \in Nodes : FileAt(m, pos)
  BY DEF CommandLogInv
<1>2. PICK a \in 0..Len(log) : a = applied[n]
  BY <1>1 DEF FileAt
<1> DEFINE r == RecordAt(log, a + 1)
           f == file[n]
<1>3. /\ log \in Seq(Commands) /\ f \in Seq(Cell) /\ Len(log) <= MaxLog /\ MaxLog \in Nat
      /\ a < Len(log) /\ log[a + 1] \notin AdHoc /\ n \in up /\ ~writing[n]
      /\ UNCHANGED <<log, up, applied, crashes, clusters, installed>>
      /\ writing' = [writing EXCEPT ![n] = TRUE] /\ writing \in [Nodes -> BOOLEAN]
      /\ file \in [Nodes -> Seq(Cell)] /\ offset \in [Nodes -> Nat]
      /\ \A m \in Nodes : offset[m] <= Len(file[m])
  BY <1>2, LogAssumption DEF CommandLogInv, CommandLogTypeOK, ApplyWritesLength, HasEntry, NextRecord
<1>4. offset[n] = pos[a]
  <2>1. pos[a] \in Nat
    BY <1>1 DEF Layout
  <2> QED BY <1>1, <1>2, <1>3, <2>1 DEF FileAt
<1>5. PICK w : w = WriteAt(f, pos[a], <<LenCell(r)>>)
  OBVIOUS
<1>6. file' = [file EXCEPT ![n] = w] /\ offset' = [offset EXCEPT ![n] = pos[a] + 1]
  <2>1. Len(<<LenCell(r)>>) = 1
    OBVIOUS
  <2>2. file' = [file EXCEPT ![n] = WriteAt(@, offset[n], <<LenCell(r)>>)]
        /\ offset' = [offset EXCEPT ![n] = @ + Len(<<LenCell(r)>>)]
    BY <1>2 DEF ApplyWritesLength, WriteCells, NextRecord, RecordAt
  <2> HIDE DEF r
  <2> QED BY <1>3, <1>4, <1>5, <2>1, <2>2
<1>7. LenCell(r) \in Cell
  <2>1. r \in Record
    BY <1>3 DEF RecordAt, Record
  <2> QED BY <2>1, RecordCells
<1>8. /\ w \in Seq(Cell) /\ pos[a] \in 0..Len(f) /\ pos[a] + 1 <= Len(w) /\ Len(f) <= Len(w)
      /\ Carried(log, w, pos, a) /\ Opening(log, w, pos, a)
      /\ \A h \in a..Len(log) : Written(log, f, pos, h) => Written(log, w, pos, h)
  <2>1. Carried(log, f, pos, a)
    BY <1>1, <1>2 DEF FileAt
  <2> HIDE DEF f
  <2> QED BY <1>1, <1>3, <1>5, <1>7, <2>1, LengthKeeps DEF f
<1>9. /\ file'[n] = w /\ offset'[n] = pos[a] + 1 /\ writing'[n] = TRUE
      /\ \A m \in Nodes : m # n => file'[m] = file[m] /\ offset'[m] = offset[m] /\ writing'[m] = writing[m]
  BY <1>3, <1>6
<1>10. CommandLogTypeOK'
  <2>1. file' \in [Nodes -> Seq(Cell)] /\ offset' \in [Nodes -> Nat] /\ writing' \in [Nodes -> BOOLEAN]
    BY <1>3, <1>6, <1>8
  <2>2. ASSUME NEW m \in Nodes PROVE offset'[m] <= Len(file'[m])
    BY <1>3, <1>8, <1>9
  <2> QED BY <1>3, <2>1, <2>2 DEF CommandLogInv, CommandLogTypeOK
<1>11. ASSUME clusters = 0
       PROVE  \E h \in a..Len(log) : Written(log, f, pos, h) /\ Written(log, w, pos, h)
  BY <1>1, <1>2, <1>8, <1>11 DEF FileAt
<1>12. ASSUME NEW m \in Nodes PROVE FileAt(m, pos)'
  <2>1. CASE m # n
    BY <1>1, <1>3, <1>9, <2>1 DEF FileAt
  <2>2. CASE m = n
    BY <1>2, <1>3, <1>8, <1>9, <1>11, <2>2 DEF FileAt
  <2> QED BY <2>1, <2>2
<1>13. \A m \in Nodes : InstalledAt(m)'
  BY <1>3 DEF CommandLogInv, InstalledAt
<1>14. CommandLogInv'
  BY <1>1, <1>3, <1>10, <1>12, <1>13 DEF CommandLogInv
<1>15. ASSUME clusters = 0 PROVE IsPrefix(Parsed(f), Parsed(w))
  <2>1. PICK h \in a..Len(log) : Written(log, f, pos, h) /\ Written(log, w, pos, h)
    BY <1>11, <1>15
  <2>2. h \in 0..Len(log) /\ h \in h..Len(log)
    OBVIOUS
  <2> HIDE DEF f
  <2> QED BY <1>1, <1>3, <1>8, <2>1, <2>2, WrittenPrefix
<1> QED BY <1>9, <1>14, <1>15

LEMMA CommandInv ==
  ASSUME CommandLogInv, NEW n \in Nodes, ApplyWritesCommand(n)
  PROVE  CommandLogInv' /\ (clusters = 0 => IsPrefix(Parsed(file[n]), Parsed(file'[n])))
<1>1. PICK pos : Layout(log, pos) /\ \A m \in Nodes : FileAt(m, pos)
  BY DEF CommandLogInv
<1>2. PICK a \in 0..Len(log) : a = applied[n]
  BY <1>1 DEF FileAt
<1> DEFINE r == RecordAt(log, a + 1)
           f == file[n]
<1>3. /\ log \in Seq(Commands) /\ f \in Seq(Cell) /\ Len(log) <= MaxLog /\ MaxLog \in Nat
      /\ a < Len(log) /\ n \in up /\ writing[n]
      /\ UNCHANGED <<log, up, crashes, clusters, installed>>
      /\ writing' = [writing EXCEPT ![n] = FALSE] /\ writing \in [Nodes -> BOOLEAN]
      /\ applied' = [applied EXCEPT ![n] = a + 1] /\ applied \in [Nodes -> 0..MaxLog]
      /\ file \in [Nodes -> Seq(Cell)] /\ offset \in [Nodes -> Nat]
      /\ \A m \in Nodes : offset[m] <= Len(file[m])
  BY <1>2, LogAssumption DEF CommandLogInv, CommandLogTypeOK, ApplyWritesCommand, HasEntry
<1>4. offset[n] = pos[a] + 1 /\ Carried(log, f, pos, a) /\ Opening(log, f, pos, a)
  BY <1>1, <1>2, <1>3 DEF FileAt
<1>5. PICK w : w = WriteAt(f, pos[a] + 1, Body(r))
  OBVIOUS
<1>6. PICK q : q = pos[a] + 1 + Len(Body(r))
  OBVIOUS
<1>7. file' = [file EXCEPT ![n] = w] /\ offset' = [offset EXCEPT ![n] = q]
  <2>1. file' = [file EXCEPT ![n] = WriteAt(@, offset[n], Body(r))]
        /\ offset' = [offset EXCEPT ![n] = @ + Len(Body(r))]
    BY <1>2 DEF ApplyWritesCommand, WriteCells, NextRecord, RecordAt
  <2> HIDE DEF r
  <2> QED BY <1>3, <1>4, <1>5, <1>6, <2>1
<1>8. r \in Record
  BY <1>3 DEF RecordAt, Record
<1>9. /\ w \in Seq(Cell) /\ pos[a] \in Nat /\ Len(f) <= Len(w)
      /\ a + 1 \in 0..Len(log) /\ pos[a + 1] = q /\ q <= Len(w) /\ Carried(log, w, pos, a + 1)
      /\ \A h \in a..Len(log) :
           Written(log, f, pos, h) => \E k \in h..Len(log) : a + 1 <= k /\ Written(log, w, pos, k)
  <2> HIDE DEF f
  <2> QED BY <1>1, <1>3, <1>4, <1>5, <1>6, <1>8, CommandKeeps DEF f
<1>10. /\ file'[n] = w /\ offset'[n] = q /\ writing'[n] = FALSE /\ applied'[n] = a + 1
       /\ \A m \in Nodes : m # n => /\ file'[m] = file[m] /\ offset'[m] = offset[m]
                                    /\ writing'[m] = writing[m] /\ applied'[m] = applied[m]
  BY <1>3, <1>7
<1>11. q \in Nat
  BY <1>1, <1>9 DEF Layout
<1>12. CommandLogTypeOK'
  <2>1. /\ file' \in [Nodes -> Seq(Cell)] /\ offset' \in [Nodes -> Nat] /\ writing' \in [Nodes -> BOOLEAN]
        /\ applied' \in [Nodes -> 0..MaxLog]
    BY <1>3, <1>7, <1>9, <1>11
  <2>2. ASSUME NEW m \in Nodes PROVE offset'[m] <= Len(file'[m])
    BY <1>3, <1>9, <1>10
  <2> QED BY <1>3, <2>1, <2>2 DEF CommandLogInv, CommandLogTypeOK
<1>13. ASSUME clusters = 0
       PROVE  \E h \in a..Len(log) : /\ Written(log, f, pos, h)
                                     /\ \E k \in h..Len(log) : a + 1 <= k /\ Written(log, w, pos, k)
  BY <1>1, <1>2, <1>9, <1>13 DEF FileAt
<1>14. ASSUME NEW m \in Nodes PROVE FileAt(m, pos)'
  <2>1. CASE m # n
    BY <1>1, <1>3, <1>10, <2>1 DEF FileAt
  <2>2. CASE m = n
    <3>1. ASSUME clusters = 0 PROVE \E k \in a + 1..Len(log) : Written(log, w, pos, k)
      <4>1. PICK h \in a..Len(log) : \E k \in h..Len(log) : a + 1 <= k /\ Written(log, w, pos, k)
        BY <1>13, <3>1
      <4>2. PICK k \in h..Len(log) : a + 1 <= k /\ Written(log, w, pos, k)
        BY <4>1
      <4>3. k \in a + 1..Len(log)
        BY <4>2
      <4> QED BY <4>2, <4>3
    <3> QED BY <1>3, <1>9, <1>10, <1>11, <2>2, <3>1 DEF FileAt
  <2> QED BY <2>1, <2>2
<1>15. \A m \in Nodes : InstalledAt(m)'
  BY <1>3 DEF CommandLogInv, InstalledAt
<1>16. CommandLogInv'
  BY <1>1, <1>3, <1>12, <1>14, <1>15 DEF CommandLogInv
<1>17. ASSUME clusters = 0 PROVE IsPrefix(Parsed(f), Parsed(w))
  <2>1. PICK h \in a..Len(log) : /\ Written(log, f, pos, h)
                                 /\ \E k \in h..Len(log) : a + 1 <= k /\ Written(log, w, pos, k)
    BY <1>13, <1>17
  <2>2. PICK k \in h..Len(log) : Written(log, w, pos, k)
    BY <2>1
  <2>3. h \in 0..Len(log)
    OBVIOUS
  <2> HIDE DEF f
  <2> QED BY <1>1, <1>3, <1>9, <2>1, <2>2, <2>3, WrittenPrefix
<1> QED BY <1>10, <1>16, <1>17

\* What leaves the logs and files alone.
LEMMA ProcessInv ==
  ASSUME CommandLogInv, NEW n \in Nodes, (Dies(n) /\ UNCHANGED installed) \/ Restart(n)
  PROVE  CommandLogInv' /\ file' = file
<1>1. PICK pos : Layout(log, pos) /\ \A m \in Nodes : FileAt(m, pos)
  BY DEF CommandLogInv
<1>2. /\ log \in Seq(Commands) /\ Len(log) <= MaxLog /\ UNCHANGED <<log, file, clusters, installed>>
      /\ applied \in [Nodes -> 0..MaxLog] /\ writing \in [Nodes -> BOOLEAN]
      /\ offset \in [Nodes -> Nat] /\ up \in SUBSET Nodes /\ MaxCrashes \in Nat /\ MaxLog \in Nat
      /\ file \in [Nodes -> Seq(Cell)] /\ \A m \in Nodes : offset[m] <= Len(file[m])
  BY LogAssumption DEF CommandLogInv, CommandLogTypeOK, Dies, Restart
<1>3. \A m \in Nodes : m # n => /\ applied'[m] = applied[m] /\ offset'[m] = offset[m]
                                /\ writing'[m] = writing[m] /\ (m \in up' <=> m \in up)
  BY <1>2 DEF Dies, Restart
<1>4. CommandLogTypeOK'
  <2>1. CASE Dies(n)
    BY <1>2, <2>1 DEF CommandLogInv, CommandLogTypeOK, Dies
  <2>2. CASE Restart(n)
    <3>1. applied' \in [Nodes -> 0..MaxLog] /\ offset' \in [Nodes -> Nat] /\ offset'[n] = 0
      BY <1>2, <2>2 DEF Restart
    <3>2. ASSUME NEW m \in Nodes PROVE offset'[m] <= Len(file'[m])
      <4>1. file'[m] = file[m] /\ offset[m] <= Len(file[m])
        BY <1>2
      <4>2. CASE m # n
        BY <1>3, <4>1, <4>2
      <4>3. CASE m = n
        <5>1. Len(file[n]) \in Nat
          BY <1>2
        <5> QED BY <3>1, <4>1, <4>3, <5>1
      <4> QED BY <4>2, <4>3
    <3>3. up' \in SUBSET Nodes /\ UNCHANGED <<writing, crashes>>
      BY <1>2, <2>2 DEF Restart
    <3> QED BY <1>2, <3>1, <3>2, <3>3 DEF CommandLogInv, CommandLogTypeOK
  <2> QED BY <2>1, <2>2
<1>5. FileAt(n, pos)'
  <2>1. FileAt(n, pos)
    BY <1>1
  <2>2. CASE Dies(n)
    <3>1. n \notin up' /\ writing'[n] = FALSE /\ applied' = applied
      BY <1>2, <2>2 DEF Dies
    <3> QED BY <1>2, <2>1, <3>1 DEF FileAt
  <2>3. CASE Restart(n)
    <3>1. ~writing'[n] /\ applied'[n] = 0 /\ offset'[n] = 0
      BY <1>2, <2>1, <2>3 DEF Restart, FileAt
    <3>2. 0 \in 0..Len(log) /\ pos[0] = 0 /\ Carried(log, file[n], pos, 0)
      BY <1>1, <1>2 DEF Layout, Carried
    <3>3. ASSUME clusters = 0 PROVE \E h \in 0..Len(log) : Written(log, file[n], pos, h)
      <4>1. PICK h \in applied[n]..Len(log) : Written(log, file[n], pos, h)
        BY <2>1, <3>3 DEF FileAt
      <4>2. h \in 0..Len(log)
        BY <1>2
      <4> QED BY <4>1, <4>2
    <3> QED BY <1>2, <3>1, <3>2, <3>3 DEF FileAt
  <2> QED BY <2>2, <2>3
<1>6. ASSUME NEW m \in Nodes, m # n PROVE FileAt(m, pos)'
  BY <1>1, <1>2, <1>3, <1>6 DEF FileAt
<1>7. \A m \in Nodes : InstalledAt(m)'
  BY <1>2 DEF CommandLogInv, InstalledAt
<1> QED BY <1>1, <1>2, <1>4, <1>5, <1>6, <1>7 DEF CommandLogInv

LEMMA ClusterInv ==
  ASSUME CommandLogInv, ClusterRestart
  PROVE  CommandLogInv' /\ file' = file
<1>1. /\ clusters < MaxClusterRestarts /\ clusters' = clusters + 1 /\ log' = <<>> /\ up' = Nodes
      /\ applied' = [n \in Nodes |-> 0] /\ writing' = [n \in Nodes |-> FALSE] /\ offset' = [n \in Nodes |-> 0]
      /\ UNCHANGED <<file, crashes, installed>>
  BY DEF ClusterRestart
<1>2. clusters \in Nat /\ {MaxLog, MaxClusterRestarts} \subseteq Nat /\ clusters \in 0..MaxClusterRestarts
  BY LogAssumption DEF CommandLogInv, CommandLogTypeOK
<1>3. CommandLogTypeOK'
  <2>1. clusters' \in 0..MaxClusterRestarts
    BY <1>1, <1>2
  <2> QED BY <1>1, <1>2, <2>1 DEF CommandLogInv, CommandLogTypeOK
<1>4. PICK pos : pos = [i \in 0..0 |-> 0]
  OBVIOUS
<1>5. Layout(<<>>, pos) /\ (\A f : Carried(<<>>, f, pos, 0)) /\ pos[0] = 0
  BY <1>4, EmptyLog
<1>6. clusters' # 0
  BY <1>1, <1>2
<1>7. \A n \in Nodes : FileAt(n, pos)'
  BY <1>1, <1>5, <1>6 DEF FileAt
<1>8. \A n \in Nodes : InstalledAt(n)'
  BY <1>6 DEF InstalledAt
<1> QED BY <1>1, <1>2, <1>3, <1>5, <1>7, <1>8 DEF CommandLogInv

\* A transfer is a prefix of the log.
LEMMA TransferInv ==
  ASSUME CommandLogInv, NEW n \in Nodes, StateTransfer(n)
  PROVE  CommandLogInv' /\ file' = file
<1>1. PICK pos : Layout(log, pos) /\ \A m \in Nodes : FileAt(m, pos)
  BY DEF CommandLogInv
<1>2. /\ log \in Seq(Commands) /\ file[n] \in Seq(Cell) /\ installed \in [Nodes -> Seq(Record)]
      /\ installed' = [installed EXCEPT ![n] = Parsed(file[n])]
      /\ UNCHANGED <<log, up, applied, writing, file, offset, crashes, clusters>>
  BY DEF CommandLogInv, CommandLogTypeOK, StateTransfer
<1>3. Parsed(file[n]) \in Seq(Record)
  <2>1. 1 \in 1..Len(file[n]) + 3
    BY <1>2
  <2>2. ParsedFrom(file[n]) \in [1..Len(file[n]) + 3 -> Seq(Record)]
    BY <1>2, ParserExists
  <2> QED BY <2>1, <2>2 DEF Parsed
<1>4. CommandLogTypeOK'
  BY <1>2, <1>3 DEF CommandLogInv, CommandLogTypeOK
<1>5. \A m \in Nodes : FileAt(m, pos)'
  BY <1>1, <1>2 DEF FileAt
<1>6. ASSUME NEW m \in Nodes PROVE InstalledAt(m)'
  <2>1. CASE m # n
    BY <1>2, <2>1 DEF CommandLogInv, InstalledAt
  <2>2. CASE m = n
    <3>1. ASSUME clusters = 0 PROVE \E h \in 0..Len(log) : Parsed(file[n]) = LoggedTo(log, h)
      <4>1. PICK h \in applied[n]..Len(log) : Written(log, file[n], pos, h)
        BY <1>1, <3>1 DEF FileAt
      <4>2. h \in 0..Len(log)
        BY <1>1 DEF FileAt
      <4>3. Parsed(file[n]) = LoggedTo(log, h)
        BY <1>1, <1>2, <4>1, <4>2, ParsedWritten DEF Written
      <4> QED BY <4>2, <4>3
    <3> QED BY <1>2, <2>2, <3>1 DEF InstalledAt
  <2> QED BY <2>1, <2>2
<1> QED BY <1>1, <1>2, <1>4, <1>5, <1>6 DEF CommandLogInv

\* Every step keeps the invariant, and loses nothing of a file.
LEMMA StepInv ==
  ASSUME CommandLogInv, [CommandLogNext]_logVars
  PROVE  CommandLogInv' /\ (clusters = 0 => \A n \in Nodes : IsPrefix(Parsed(file[n]), Parsed(file'[n])))
<1> DEFINE Keeps == CommandLogInv' /\ (clusters = 0 => \A n \in Nodes : IsPrefix(Parsed(file[n]), Parsed(file'[n])))
<1>1. \A m \in Nodes : IsPrefix(Parsed(file[m]), Parsed(file[m]))
  BY DEF IsPrefix, CommandLogInv, CommandLogTypeOK
<1>2. ASSUME CommandLogInv', file' = file PROVE Keeps
  BY <1>1, <1>2
<1>3. ASSUME NEW n \in Nodes, CommandLogInv',
             clusters = 0 => IsPrefix(Parsed(file[n]), Parsed(file'[n])),
             \A m \in Nodes : m # n => file'[m] = file[m]
      PROVE  Keeps
  BY <1>1, <1>3
<1>4. CASE UNCHANGED logVars
  <2>1. CommandLogInv' /\ file' = file
    BY <1>4 DEF logVars, CommandLogInv, CommandLogTypeOK, InstalledAt, FileAt
  <2> QED BY <1>2, <2>1
<1>5. CASE \E cmd \in Commands : CommitEntry(cmd)
  BY <1>2, <1>5, CommitInv DEF CommitEntry
<1>6. CASE ClusterRestart
  BY <1>2, <1>6, ClusterInv
<1>7. ASSUME NEW n \in Nodes,
             \/ ApplySkips(n) \/ ApplyWritesLength(n) \/ ApplyWritesCommand(n)
             \/ Crash(n) \/ Restart(n) \/ StateTransfer(n) \/ StateTransferFails(n)
      PROVE  Keeps
  <2>1. CASE ApplySkips(n)
    BY <1>2, <2>1, SkipInv DEF ApplySkips
  <2>2. CASE ApplyWritesLength(n)
    <3>1. \A m \in Nodes : m # n => file'[m] = file[m]
      BY <2>2 DEF ApplyWritesLength, WriteCells, CommandLogInv, CommandLogTypeOK
    <3> QED BY <1>3, <2>2, <3>1, LengthInv
  <2>3. CASE ApplyWritesCommand(n)
    <3>1. \A m \in Nodes : m # n => file'[m] = file[m]
      BY <2>3 DEF ApplyWritesCommand, WriteCells, CommandLogInv, CommandLogTypeOK
    <3> QED BY <1>3, <2>3, <3>1, CommandInv
  <2>4. CASE Crash(n)
    BY <1>2, <2>4, ProcessInv DEF Crash
  <2>5. CASE Restart(n)
    BY <1>2, <2>5, ProcessInv
  <2>6. CASE StateTransfer(n)
    BY <1>2, <2>6, TransferInv
  <2>7. CASE StateTransferFails(n)
    BY <1>2, <2>7, ProcessInv DEF StateTransferFails
  <2> QED BY <1>7, <2>1, <2>2, <2>3, <2>4, <2>5, <2>6, <2>7
<1> QED BY <1>4, <1>5, <1>6, <1>7 DEF CommandLogNext

-----------------------------------------------------------------------------
(* What is installed. *)

\* The commands do not delete: recovery/ has no case for a delete.
NoDeletes == \A cmd \in Commands : cmd.op # "delete"

LineOf(e) == [kind |-> IF e \in AdHoc THEN "adhoc" ELSE "proto", cmd |-> e]

ReferenceSteps(es) ==
  [p \in Nat \X Map |-> IF p[1] \in 1..Len(es) THEN Exec(p[2], LineOf(es[p[1]])) ELSE p[2]]

LEMMA ExecType ==
  ASSUME NEW m \in Map, NEW e \in Commands
  PROVE  Exec(m, LineOf(e)) \in Map
<1>1. e.val \in Strings
  BY ValuesAreStrings DEF Command
<1> QED BY <1>1 DEF Exec, LineOf, Map

LEMMA InstallType ==
  ASSUME NEW m \in Map, NEW e \in Commands
  PROVE  Install(m, e) \in Map
<1>1. e.val \in Strings
  BY ValuesAreStrings DEF Command
<1> QED BY <1>1 DEF Install, Map

LEMMA ReferenceExists ==
  ASSUME NEW es \in Seq(Commands)
  PROVE  \E f \in [0..Len(es) -> Map] :
           Recursive(f, EmptyMap, ReferenceSteps(es), Len(es)) /\ Reference(es) = f[Len(es)]
<1> DEFINE L == Len(es)
           H == ReferenceSteps(es)
<1>0. L \in Nat /\ EmptyMap \in Map /\ \A i \in 1..L : es[i] \in Commands
  BY DEF EmptyMap, Map
<1>1. StepsIn(H, Map)
  <2>1. ASSUME NEW p \in Nat \X Map
        PROVE  (IF p[1] \in 1..L THEN Exec(p[2], LineOf(es[p[1]])) ELSE p[2]) \in Map
    <3>1. p[2] \in Map
      OBVIOUS
    <3>2. p[1] \in 1..L => Exec(p[2], LineOf(es[p[1]])) \in Map
      BY <1>0, <3>1, ExecType
    <3> QED BY <3>1, <3>2
  <2> QED BY <2>1 DEF StepsIn, ReferenceSteps
<1>2. PICK f \in [0..L -> Map] : Recursive(f, EmptyMap, H, L)
  BY <1>0, <1>1, Recursion
<1>3. ASSUME NEW i \in 1..L, NEW m \in Map PROVE H[<<i, m>>] = Exec(m, LineOf(es[i]))
  <2>1. <<i, m>> \in Nat \X Map /\ <<i, m>>[1] = i /\ <<i, m>>[2] = m
    OBVIOUS
  <2> QED BY <2>1 DEF ReferenceSteps
<1>4. f = [i \in 0..L |-> IF i = 0 THEN EmptyMap ELSE Exec(f[i - 1], LineOf(es[i]))]
  <2>1. ASSUME NEW i \in 0..L, i # 0 PROVE f[i] = Exec(f[i - 1], LineOf(es[i]))
    <3>1. i \in 1..L /\ i - 1 \in 0..L
      BY <1>0, <2>1
    <3>2. f[i] = H[<<i, f[i - 1]>>] /\ f[i - 1] \in Map
      BY <1>2, <3>1 DEF Recursive
    <3> QED BY <1>3, <3>1, <3>2
  <2>2. f[0] = EmptyMap
    BY <1>2 DEF Recursive
  <2> QED BY <1>0, <2>1, <2>2
<1> DEFINE F == CHOOSE upTo : upTo = [i \in 0..L |-> IF i = 0 THEN EmptyMap
                                                    ELSE Exec(upTo[i - 1], LineOf(es[i]))]
<1>5. F = [i \in 0..L |-> IF i = 0 THEN EmptyMap ELSE Exec(F[i - 1], LineOf(es[i]))]
  BY <1>4
<1>6. Reference(es) = F[L]
  BY DEF Reference, LineOf
<1> HIDE DEF F
<1>7. F[0] = EmptyMap
  BY <1>0, <1>5
<1>8. ASSUME NEW i \in 1..L, F[i - 1] \in Map PROVE F[i] = H[<<i, F[i - 1]>>]
  <2>1. i \in 0..L /\ i # 0
    BY <1>0
  <2>2. F[i] = Exec(F[i - 1], LineOf(es[i]))
    BY <1>5, <2>1
  <2> QED BY <1>3, <1>8, <2>2
<1>9. F[L] = f[L]
  <2>1. L \in 0..L
    BY <1>0
  <2> HIDE DEF H, L
  <2> QED BY <1>0, <1>2, <1>7, <1>8, <2>1, RecursionUnique
<1> QED BY <1>2, <1>6, <1>9

\* The reference map of one more entry.
LEMMA ReferenceStep ==
  ASSUME NEW es \in Seq(Commands), NEW e \in Commands
  PROVE  Reference(es) \in Map /\ Reference(Append(es, e)) = Exec(Reference(es), LineOf(e))
<1> DEFINE L == Len(es)
<1>1. PICK ts : ts = Append(es, e)
  OBVIOUS
<1>2. L \in Nat /\ ts \in Seq(Commands) /\ Len(ts) = L + 1 /\ ts[L + 1] = e /\ \A i \in 1..L : ts[i] = es[i]
  BY <1>1, AppendProperties
<1>3. PICK f \in [0..L -> Map] : Recursive(f, EmptyMap, ReferenceSteps(es), L) /\ Reference(es) = f[L]
  BY ReferenceExists
<1>4. PICK g \in [0..L + 1 -> Map] : Recursive(g, EmptyMap, ReferenceSteps(ts), L + 1) /\ Reference(ts) = g[L + 1]
  BY <1>2, ReferenceExists
<1>5. g[L] = f[L]
  <2>1. ASSUME NEW i \in 1..L PROVE g[i] = ReferenceSteps(es)[<<i, g[i - 1]>>]
    <3>1. i \in 1..L + 1 /\ i - 1 \in 0..L + 1
      BY <1>2
    <3>2. g[i] = ReferenceSteps(ts)[<<i, g[i - 1]>>] /\ g[i - 1] \in Map
      BY <1>4, <3>1 DEF Recursive
    <3>3. PICK m \in Map : m = g[i - 1]
      BY <3>2
    <3>4. <<i, m>> \in Nat \X Map /\ <<i, m>>[1] = i /\ <<i, m>>[2] = m /\ i \in 1..Len(ts) /\ i \in 1..Len(es)
      BY <1>2, <3>1
    <3>5. ReferenceSteps(ts)[<<i, m>>] = Exec(m, LineOf(ts[i])) /\ ReferenceSteps(es)[<<i, m>>] = Exec(m, LineOf(es[i]))
      BY <3>4 DEF ReferenceSteps
    <3> QED BY <1>2, <3>2, <3>3, <3>5
  <2>2. g[0] = EmptyMap /\ EmptyMap \in Map /\ L \in 0..L
    BY <1>2, <1>4 DEF Recursive, EmptyMap, Map
  <2> HIDE DEF L
  <2> QED BY <1>2, <1>3, <2>1, <2>2, RecursionUnique
<1>6. f[L] \in Map
  BY <1>2, <1>3
<1>7. g[L + 1] = Exec(f[L], LineOf(e))
  <2>1. g[L + 1] = ReferenceSteps(ts)[<<L + 1, g[L]>>]
    <3>1. L + 1 \in 1..L + 1 /\ (L + 1) - 1 = L
      BY <1>2
    <3> QED BY <1>4, <3>1 DEF Recursive
  <2>2. PICK m \in Map : m = f[L]
    BY <1>6
  <2>3. PICK i \in 1..Len(ts) : i = L + 1
    BY <1>2
  <2>4. <<i, m>> \in Nat \X Map /\ <<i, m>>[1] = i /\ <<i, m>>[2] = m
    BY <1>2, <2>3
  <2>5. ReferenceSteps(ts)[<<i, m>>] = Exec(m, LineOf(ts[i]))
    BY <2>4 DEF ReferenceSteps
  <2> QED BY <1>2, <1>5, <2>1, <2>2, <2>3, <2>5
<1> QED BY <1>1, <1>3, <1>4, <1>6, <1>7

InstallSteps(es) ==
  [p \in Nat \X Map |-> IF p[1] \in 1..Len(es) THEN Install(p[2], es[p[1]].cmd) ELSE p[2]]

LEMMA InstalledExists ==
  ASSUME NEW es \in Seq(Records)
  PROVE  \E f \in [0..Len(es) -> Map] :
           Recursive(f, EmptyMap, InstallSteps(es), Len(es)) /\ InstalledMap(es) = f[Len(es)]
<1> DEFINE L == Len(es)
           H == InstallSteps(es)
<1>0. L \in Nat /\ EmptyMap \in Map /\ \A i \in 1..L : es[i].cmd \in Commands
  <2>1. EmptyMap \in Map /\ L \in Nat
    BY DEF EmptyMap, Map
  <2>2. \A i \in 1..L : es[i] \in Records
    OBVIOUS
  <2> QED BY <2>1, <2>2 DEF Records
<1>1. StepsIn(H, Map)
  <2>1. ASSUME NEW p \in Nat \X Map
        PROVE  (IF p[1] \in 1..L THEN Install(p[2], es[p[1]].cmd) ELSE p[2]) \in Map
    <3>1. p[2] \in Map
      OBVIOUS
    <3>2. p[1] \in 1..L => Install(p[2], es[p[1]].cmd) \in Map
      BY <1>0, <3>1, InstallType
    <3> QED BY <3>1, <3>2
  <2> QED BY <2>1 DEF StepsIn, InstallSteps
<1>2. PICK f \in [0..L -> Map] : Recursive(f, EmptyMap, H, L)
  BY <1>0, <1>1, Recursion
<1>3. ASSUME NEW i \in 1..L, NEW m \in Map PROVE H[<<i, m>>] = Install(m, es[i].cmd)
  <2>1. <<i, m>> \in Nat \X Map /\ <<i, m>>[1] = i /\ <<i, m>>[2] = m
    OBVIOUS
  <2> QED BY <2>1 DEF InstallSteps
<1>4. f = [i \in 0..L |-> IF i = 0 THEN EmptyMap ELSE Install(f[i - 1], es[i].cmd)]
  <2>1. ASSUME NEW i \in 0..L, i # 0 PROVE f[i] = Install(f[i - 1], es[i].cmd)
    <3>1. i \in 1..L /\ i - 1 \in 0..L
      BY <1>0, <2>1
    <3>2. f[i] = H[<<i, f[i - 1]>>] /\ f[i - 1] \in Map
      BY <1>2, <3>1 DEF Recursive
    <3> QED BY <1>3, <3>1, <3>2
  <2>2. f[0] = EmptyMap
    BY <1>2 DEF Recursive
  <2> QED BY <1>0, <2>1, <2>2
<1> DEFINE F == CHOOSE upTo : upTo = [i \in 0..L |-> IF i = 0 THEN EmptyMap
                                                    ELSE Install(upTo[i - 1], es[i].cmd)]
<1>5. F = [i \in 0..L |-> IF i = 0 THEN EmptyMap ELSE Install(F[i - 1], es[i].cmd)]
  BY <1>4
<1>6. InstalledMap(es) = F[L]
  BY DEF InstalledMap
<1> HIDE DEF F
<1>7. F[0] = EmptyMap
  BY <1>0, <1>5
<1>8. ASSUME NEW i \in 1..L, F[i - 1] \in Map PROVE F[i] = H[<<i, F[i - 1]>>]
  <2>1. i \in 0..L /\ i # 0
    BY <1>0
  <2>2. F[i] = Install(F[i - 1], es[i].cmd)
    BY <1>5, <2>1
  <2> QED BY <1>3, <1>8, <2>2
<1>9. F[L] = f[L]
  <2>1. L \in 0..L
    BY <1>0
  <2> HIDE DEF H, L
  <2> QED BY <1>0, <1>2, <1>7, <1>8, <2>1, RecursionUnique
<1> QED BY <1>2, <1>6, <1>9

\* The map of one more record.
LEMMA InstalledStep ==
  ASSUME NEW es \in Seq(Records), NEW e \in Records
  PROVE  InstalledMap(es) \in Map /\ InstalledMap(Append(es, e)) = Install(InstalledMap(es), e.cmd)
<1> DEFINE L == Len(es)
<1>1. PICK ts : ts = Append(es, e)
  OBVIOUS
<1>2. L \in Nat /\ ts \in Seq(Records) /\ Len(ts) = L + 1 /\ ts[L + 1] = e /\ \A i \in 1..L : ts[i] = es[i]
  BY <1>1, AppendProperties
<1>3. PICK f \in [0..L -> Map] : Recursive(f, EmptyMap, InstallSteps(es), L) /\ InstalledMap(es) = f[L]
  BY InstalledExists
<1>4. PICK g \in [0..L + 1 -> Map] : Recursive(g, EmptyMap, InstallSteps(ts), L + 1) /\ InstalledMap(ts) = g[L + 1]
  BY <1>2, InstalledExists
<1>5. g[L] = f[L]
  <2>1. ASSUME NEW i \in 1..L PROVE g[i] = InstallSteps(es)[<<i, g[i - 1]>>]
    <3>1. i \in 1..L + 1 /\ i - 1 \in 0..L + 1
      BY <1>2
    <3>2. g[i] = InstallSteps(ts)[<<i, g[i - 1]>>] /\ g[i - 1] \in Map
      BY <1>4, <3>1 DEF Recursive
    <3>3. PICK m \in Map : m = g[i - 1]
      BY <3>2
    <3>4. <<i, m>> \in Nat \X Map /\ <<i, m>>[1] = i /\ <<i, m>>[2] = m /\ i \in 1..Len(ts) /\ i \in 1..Len(es)
      BY <1>2, <3>1
    <3>5. InstallSteps(ts)[<<i, m>>] = Install(m, ts[i].cmd) /\ InstallSteps(es)[<<i, m>>] = Install(m, es[i].cmd)
      BY <3>4 DEF InstallSteps
    <3> QED BY <1>2, <3>2, <3>3, <3>5
  <2>2. g[0] = EmptyMap /\ EmptyMap \in Map /\ L \in 0..L
    BY <1>2, <1>4 DEF Recursive, EmptyMap, Map
  <2> HIDE DEF L
  <2> QED BY <1>2, <1>3, <2>1, <2>2, RecursionUnique
<1>6. f[L] \in Map
  BY <1>2, <1>3
<1>7. g[L + 1] = Install(f[L], e.cmd)
  <2>1. g[L + 1] = InstallSteps(ts)[<<L + 1, g[L]>>]
    <3>1. L + 1 \in 1..L + 1 /\ (L + 1) - 1 = L
      BY <1>2
    <3> QED BY <1>4, <3>1 DEF Recursive
  <2>2. PICK m \in Map : m = f[L]
    BY <1>6
  <2>3. PICK i \in 1..Len(ts) : i = L + 1
    BY <1>2
  <2>4. <<i, m>> \in Nat \X Map /\ <<i, m>>[1] = i /\ <<i, m>>[2] = m
    BY <1>2, <2>3
  <2>5. InstallSteps(ts)[<<i, m>>] = Install(m, ts[i].cmd)
    BY <2>4 DEF InstallSteps
  <2> QED BY <1>2, <1>5, <2>1, <2>2, <2>3, <2>5
<1> QED BY <1>1, <1>3, <1>4, <1>6, <1>7

\* Without deletes, installing a logged command is executing it; the others do nothing.
LEMMA InstallIsExec ==
  ASSUME NoDeletes, NEW m \in Map, NEW e \in Commands
  PROVE  /\ e \in AdHoc => Exec(m, LineOf(e)) = m
         /\ e \notin AdHoc => Exec(m, LineOf(e)) = Install(m, e)
<1>1. e.key \in Keys /\ e.op # "delete"
  BY ValuesAreStrings DEF Command, NoDeletes
<1>2. m = [k \in Keys |-> m[k]]
  BY DEF Map
<1>3. ASSUME e \in AdHoc PROVE Exec(m, LineOf(e)) = m
  BY <1>2, <1>3 DEF Exec, LineOf
<1>4. ASSUME e \notin AdHoc PROVE Exec(m, LineOf(e)) = Install(m, e)
  <2>1. CASE e.op = "set"
    BY <1>1, <1>2, <1>4, <2>1 DEF Exec, LineOf, Install
  <2>2. CASE e.op # "set"
    BY <1>1, <1>2, <1>4, <2>2 DEF Exec, LineOf, Install
  <2> QED BY <2>1, <2>2
<1> QED BY <1>3, <1>4

LEMMA EmptyMaps ==
  Reference(<<>>) = EmptyMap /\ InstalledMap(<<>>) = EmptyMap
<1>1. PICK es \in Seq(Commands) : es = <<>>
  <2>1. <<>> \in Seq(Commands)
    BY EmptySeq
  <2> QED BY <2>1
<1>2. PICK f \in [0..Len(es) -> Map] :
        Recursive(f, EmptyMap, ReferenceSteps(es), Len(es)) /\ Reference(es) = f[Len(es)]
  BY ReferenceExists
<1>3. PICK rs \in Seq(Records) : rs = <<>>
  <2>1. <<>> \in Seq(Records)
    BY EmptySeq
  <2> QED BY <2>1
<1>4. PICK g \in [0..Len(rs) -> Map] :
        Recursive(g, EmptyMap, InstallSteps(rs), Len(rs)) /\ InstalledMap(rs) = g[Len(rs)]
  BY InstalledExists
<1>5. Len(es) = 0 /\ Len(rs) = 0
  BY <1>1, <1>3
<1> QED BY <1>1, <1>2, <1>3, <1>4, <1>5 DEF Recursive

LastIndex(s) == IF s = <<>> THEN 0 ELSE Last(s).idx

\* The map installed from the records of some entries is the map after the last entry recorded.
LEMMA InstalledIsPast ==
  ASSUME NoDeletes, NEW es \in Seq(Commands), NEW h \in 0..Len(es)
  PROVE  /\ LastIndex(LoggedTo(es, h)) \in 0..h
         /\ InstalledMap(LoggedTo(es, h)) = Reference(SubSeq(es, 1, LastIndex(LoggedTo(es, h))))
<1> DEFINE P(k) == /\ LastIndex(LoggedTo(es, k)) \in 0..k
                   /\ InstalledMap(LoggedTo(es, k)) = Reference(SubSeq(es, 1, LastIndex(LoggedTo(es, k))))
                   /\ InstalledMap(LoggedTo(es, k)) = Reference(SubSeq(es, 1, k))
           W == {k \in Nat : k <= h => P(k)}
<1>0. Len(es) \in Nat /\ h \in Nat /\ h <= Len(es)
  OBVIOUS
<1>1. P(0)
  <2>1. LoggedTo(es, 0) = <<>>
    BY LoggedToProperties
  <2>2. LastIndex(<<>>) = 0
    BY DEF LastIndex
  <2>3. SubSeq(es, 1, 0) = <<>>
    BY SubSeqEmpty
  <2>4. LastIndex(LoggedTo(es, 0)) = 0 /\ InstalledMap(LoggedTo(es, 0)) = EmptyMap /\ Reference(SubSeq(es, 1, 0)) = EmptyMap
    BY <2>1, <2>2, <2>3, EmptyMaps
  <2>5. 0 \in 0..0
    OBVIOUS
  <2> QED BY <2>4, <2>5
<1>2. ASSUME NEW k \in Nat, k + 1 <= h, P(k) PROVE P(k + 1)
  <2>1. PICK j \in 1..Len(es) : j = k + 1
    BY <1>0, <1>2
  <2>2. j - 1 = k /\ j \in 0..Len(es) /\ k \in 0..Len(es)
    BY <1>0, <1>2, <2>1
  <2>3. PICK s \in Seq(Records) : s = LoggedTo(es, k)
    BY <2>2, LoggedToProperties
  <2>4. PICK t \in Seq(Commands) : t = SubSeq(es, 1, k)
    BY <2>2, Beginning
  <2>5. es[j] \in Commands /\ SubSeq(es, 1, j) = Append(t, es[j])
    BY <2>2, <2>4, BeginningStep
  <2>6. Reference(t) \in Map /\ Reference(SubSeq(es, 1, j)) = Exec(Reference(t), LineOf(es[j]))
    BY <2>5, ReferenceStep
  <2>7. /\ es[j] \in AdHoc => Reference(SubSeq(es, 1, j)) = Reference(t)
        /\ es[j] \notin AdHoc => Reference(SubSeq(es, 1, j)) = Install(Reference(t), es[j])
    BY <2>5, <2>6, InstallIsExec
  <2>8. CASE es[j] \in AdHoc
    <3>1. LoggedTo(es, j) = s
      BY <2>2, <2>3, <2>8, LoggedToProperties
    <3> QED BY <1>2, <2>1, <2>3, <2>4, <2>7, <2>8, <3>1
  <2>9. CASE es[j] \notin AdHoc
    <3>1. PICK r \in Records : r = RecordAt(es, j) /\ r.cmd = es[j] /\ r.idx = j
      <4>1. RecordAt(es, j) \in Records /\ RecordAt(es, j).cmd = es[j] /\ RecordAt(es, j).idx = j
        BY <2>5 DEF RecordAt, Records
      <4> QED BY <4>1
    <3>2. LoggedTo(es, j) = Append(s, r)
      BY <2>2, <2>3, <2>9, <3>1, LoggedToProperties
    <3>3. LastIndex(Append(s, r)) = j
      <4>1. Append(s, r) # <<>> /\ Len(Append(s, r)) = Len(s) + 1 /\ Append(s, r)[Len(s) + 1] = r
        BY AppendProperties
      <4> QED BY <3>1, <4>1 DEF LastIndex, Last
    <3>4. InstalledMap(Append(s, r)) = Install(InstalledMap(s), r.cmd)
      BY InstalledStep
    <3>5. InstalledMap(Append(s, r)) = Reference(SubSeq(es, 1, j))
      BY <1>2, <2>3, <2>4, <2>7, <2>9, <3>1, <3>4
    <3>6. j \in 0..j
      BY <2>2
    <3> QED BY <2>1, <3>2, <3>3, <3>5, <3>6
  <2> QED BY <2>8, <2>9
<1> HIDE DEF P
<1>3. h \in W
  <2>1. ASSUME NEW k \in W PROVE k + 1 \in W
    <3>1. k \in Nat /\ k + 1 \in Nat
      OBVIOUS
    <3>2. k + 1 <= h => k <= h
      BY <1>0, <3>1
    <3> QED BY <1>2, <3>1, <3>2
  <2>2. W \in SUBSET Nat /\ 0 \in W
    BY <1>1
  <2> HIDE DEF W
  <2> QED BY <1>0, <2>1, <2>2, Induction
<1> QED BY <1>0, <1>3 DEF P

-----------------------------------------------------------------------------
(* The theorems. *)

LEMMA LogInvariant ==
  CommandLogSpec => []CommandLogInv
<1>1. CommandLogInv /\ [CommandLogNext]_logVars => CommandLogInv'
  BY StepInv
<1> QED BY <1>1, InitInv, PTL DEF CommandLogSpec

(***************************************************************************)
(* The descriptor of an open log file never stands behind the file's end,  *)
(* so that a write never leaves a hole in it (Apply, createFile).          *)
(***************************************************************************)
THEOREM LogTypesCorrect ==
  CommandLogSpec => []CommandLogTypeOK
<1>1. CommandLogInv => CommandLogTypeOK
  BY DEF CommandLogInv
<1> QED BY <1>1, LogInvariant, PTL

(***************************************************************************)
(* As long as the first group lives, every log file parses to a prefix of  *)
(* the records of the committed entries, whatever the processes died of    *)
(* and however much of the file was written over again.                    *)
(***************************************************************************)
THEOREM FilesParseToAPrefix ==
  CommandLogSpec => []RecoversPrefix
<1>1. ASSUME CommandLogInv, clusters = 0, NEW n \in Nodes
      PROVE  IsPrefix(Parsed(file[n]), Loggable(log))
  <2>1. PICK pos : Layout(log, pos) /\ FileAt(n, pos)
    BY <1>1 DEF CommandLogInv
  <2>2. log \in Seq(Commands) /\ file[n] \in Seq(Cell)
    BY <1>1 DEF CommandLogInv, CommandLogTypeOK
  <2>3. PICK h \in 0..Len(log) : Written(log, file[n], pos, h)
    <3>1. PICK h \in applied[n]..Len(log) : Written(log, file[n], pos, h)
      BY <1>1, <2>1 DEF FileAt
    <3>2. h \in 0..Len(log)
      BY <2>1 DEF FileAt
    <3> QED BY <3>1, <3>2
  <2>4. Parsed(file[n]) = LoggedTo(log, h)
    BY <2>1, <2>2, <2>3, ParsedWritten DEF Written
  <2>5. Len(log) \in h..Len(log)
    BY <2>2
  <2>6. IsPrefix(LoggedTo(log, h), LoggedTo(log, Len(log)))
    BY <2>2, <2>5, LoggedPrefix
  <2> QED BY <2>2, <2>4, <2>6, LoggedToProperties
<1>2. CommandLogInv => RecoversPrefix
  BY <1>1 DEF RecoversPrefix
<1> QED BY <1>2, LogInvariant, PTL

(***************************************************************************)
(* What a running node's state machine has gone through is parsed from the *)
(* front of its file, even when an earlier group left its own records      *)
(* there: both writes of Apply come before the entry counts as applied.    *)
(***************************************************************************)
THEOREM AppliedIsInTheFile ==
  CommandLogSpec => []AppliedIsLogged
<1>1. ASSUME CommandLogInv, NEW n \in up
      PROVE  IsPrefix(Loggable(SubSeq(log, 1, applied[n])), Parsed(file[n]))
  <2>1. n \in Nodes /\ log \in Seq(Commands) /\ file[n] \in Seq(Cell)
    BY <1>1 DEF CommandLogInv, CommandLogTypeOK
  <2>2. PICK pos : Layout(log, pos) /\ FileAt(n, pos)
    BY <1>1, <2>1 DEF CommandLogInv
  <2>3. PICK a \in 0..Len(log) : a = applied[n]
    BY <2>2 DEF FileAt
  <2>4. Carried(log, file[n], pos, a)
    BY <2>2, <2>3 DEF FileAt
  <2>5. /\ ParsedFrom(file[n])[pos[a] + 1] \in Seq(Record)
        /\ Parsed(file[n]) = LoggedTo(log, a) \o ParsedFrom(file[n])[pos[a] + 1]
    BY <2>1, <2>2, <2>4, ParseAlong
  <2>6. PICK t \in Seq(Record) : t = ParsedFrom(file[n])[pos[a] + 1]
    BY <2>5
  <2>7. t \in Seq(Records) /\ LoggedTo(log, a) \in Seq(Records)
    <3>1. Record \subseteq Records
      BY LogAssumption DEF Record, Records
    <3>2. t \in Seq(Records)
      BY <3>1
    <3> QED BY <2>1, <3>2, LoggedToProperties
  <2>8. IsPrefix(LoggedTo(log, a), LoggedTo(log, a) \o t)
    BY <2>7, PrefixOfConcat
  <2> QED BY <2>3, <2>5, <2>6, <2>8 DEF LoggedTo
<1>2. CommandLogInv => AppliedIsLogged
  BY <1>1 DEF AppliedIsLogged
<1> QED BY <1>2, LogInvariant, PTL

(***************************************************************************)
(* No step makes a log file parse to less than before while the first      *)
(* group lives: not a replay from the first entry on, not a crash between  *)
(* the writes of a record that the file had whole.                         *)
(***************************************************************************)
THEOREM NothingIsForgotten ==
  CommandLogSpec => NeverForgets
<1>1. CommandLogInv /\ [CommandLogNext]_logVars
        => [clusters = 0 => \A n \in Nodes : IsPrefix(Parsed(file[n]), Parsed(file[n])')]_logVars
  BY StepInv
<1> QED BY <1>1, LogInvariant, PTL DEF CommandLogSpec, NeverForgets

(***************************************************************************)
(* Without deletes, the map the recovery client installs from a transfer   *)
(* is the service's, from an empty one, after the last entry transferred.  *)
(***************************************************************************)
THEOREM TransfersInstallThePast ==
  ASSUME NoDeletes
  PROVE  CommandLogSpec => []InstallsPastState
<1>1. ASSUME CommandLogInv, clusters = 0, NEW n \in Nodes
      PROVE  LET last == IF installed[n] = <<>> THEN 0 ELSE Last(installed[n]).idx
             IN last <= Len(log) /\ InstalledMap(installed[n]) = Reference(SubSeq(log, 1, last))
  <2>1. log \in Seq(Commands)
    BY <1>1 DEF CommandLogInv, CommandLogTypeOK
  <2>2. PICK h \in 0..Len(log) : installed[n] = LoggedTo(log, h)
    BY <1>1 DEF CommandLogInv, InstalledAt
  <2>3. /\ LastIndex(installed[n]) \in 0..h
        /\ InstalledMap(installed[n]) = Reference(SubSeq(log, 1, LastIndex(installed[n])))
    BY <2>1, <2>2, InstalledIsPast
  <2>4. LastIndex(installed[n]) <= Len(log)
    BY <2>1, <2>3
  <2> QED BY <2>3, <2>4 DEF LastIndex
<1>2. CommandLogInv => InstallsPastState
  BY <1>1 DEF InstallsPastState
<1> QED BY <1>2, LogInvariant, PTL
=============================================================================
