--------------------------- MODULE QueriesProofs ---------------------------
(***************************************************************************)
(* What the answers to the server's queries mean, for every chain, filter, *)
(* batch and input: FlattenSeq keeps what it is given, in order, so a log  *)
(* query selects exactly what its filter means; the fee and the head of an *)
(* answer stay right while blocks are sealed between the items of a batch; *)
(* and the precompiles accept exactly the encodings of what verifies.      *)
(***************************************************************************)
EXTENDS Queries, TLAPS, SequenceTheorems, WellFoundedInduction

USE Zenon

\* A set of natural numbers that is not empty has a least element.
LEMMA LeastNumber ==
  ASSUME NEW S \in SUBSET Nat, S # {}
  PROVE  \E m \in S : \A k \in S : m <= k
<1> DEFINE Less == {p \in Nat \X Nat : p[1] < p[2]}
<1>1. IsWellFoundedOn(Less, Nat)
  BY NatLessThanWellFounded DEF OpToRel
<1>2. PICK m \in S : \A k \in S : ~(<<k, m>> \in Less)
  <2> HIDE DEF Less
  <2> QED BY <1>1, WFMin
<1>3. ASSUME NEW k \in S PROVE m <= k
  <2>1. <<k, m>> \in Nat \X Nat /\ <<k, m>>[1] = k /\ <<k, m>>[2] = m
    OBVIOUS
  <2>2. ~(k < m)
    BY <1>2, <2>1
  <2> QED BY SMT, <2>2
<1> QED
  BY <1>3

-----------------------------------------------------------------------------
(* FlattenSeq. *)

\* One step of FlattenSeq.
Joined(g, q, i) == IF i = 1 THEN q[i] ELSE g[i - 1] \o q[i]

\* The function that FlattenSeq recurs over exists: it is built for longer and
\* longer prefixes.
LEMMA JoinsExist ==
  ASSUME NEW q, Len(q) \in Nat, Len(q) # 0
  PROVE  \E g : g = [i \in 1 .. Len(q) |-> Joined(g, q, i)]
<1> DEFINE Upto(g, n) == \A i \in 1 .. n : g[i] = Joined(g, q, i)
           Bad == {n \in Nat : ~\E g : Upto(g, n)}
<1>1. Bad = {}
  <2> SUFFICES ASSUME Bad # {} PROVE FALSE
    BY SMT
  <2>1. PICK n \in Bad : \A k \in Bad : n <= k
    <3>1. Bad \in SUBSET Nat
      OBVIOUS
    <3> HIDE DEF Bad
    <3> QED BY <3>1, LeastNumber
  <2>2. n \in Nat /\ ~\E g : Upto(g, n)
    BY <2>1
  <2>3. n # 0
    <3>1. n = 0 => 1 .. n = {}
      BY SMT
    <3> QED BY <2>2, <3>1
  <2>4. n - 1 \in Nat /\ ~(n <= n - 1)
    BY SMT, <2>2, <2>3
  <2>5. n - 1 \notin Bad
    <3> HIDE DEF Bad
    <3> QED BY <2>1, <2>4
  <2>6. PICK g : Upto(g, n - 1)
    <3> HIDE DEF Upto
    <3> QED BY <2>4, <2>5
  <2> DEFINE h == [i \in 1 .. n |-> IF i = n THEN Joined(g, q, n) ELSE g[i]]
  <2>7. ASSUME NEW i \in 1 .. n PROVE h[i] = Joined(h, q, i)
    <3>1. i # 1 => i - 1 \in 1 .. n /\ i - 1 # n
      BY SMT, <2>2
    <3>2. i # n => i \in 1 .. n - 1
      BY SMT, <2>2
    <3>3. i # 1 => h[i - 1] = g[i - 1]
      BY <3>1
    <3>4. Joined(h, q, i) = Joined(g, q, i)
      <4> HIDE DEF h
      <4> QED BY <3>3 DEF Joined
    <3>5. i # n => g[i] = Joined(g, q, i)
      BY <2>6, <3>2
    <3> QED BY <3>4, <3>5
  <2> HIDE DEF h
  <2> QED BY <2>2, <2>7
<1>2. PICK g : Upto(g, Len(q))
  <2> HIDE DEF Upto
  <2> QED BY <1>1
<1> DEFINE h == [i \in 1 .. Len(q) |-> g[i]]
<1>3. ASSUME NEW i \in 1 .. Len(q) PROVE h[i] = Joined(h, q, i)
  <2>1. i # 1 => i - 1 \in 1 .. Len(q)
    BY SMT
  <2>2. i # 1 => h[i - 1] = g[i - 1]
    BY <2>1
  <2>3. Joined(h, q, i) = Joined(g, q, i)
    <3> HIDE DEF h
    <3> QED BY <2>2 DEF Joined
  <2> QED BY <1>2, <2>3
<1>4. h = [i \in 1 .. Len(q) |-> h[i]]
  OBVIOUS
<1>5. h = [i \in 1 .. Len(q) |-> Joined(h, q, i)]
  <2> HIDE DEF h
  <2>1. [i \in 1 .. Len(q) |-> h[i]] = [i \in 1 .. Len(q) |-> Joined(h, q, i)]
    BY <1>3
  <2> QED BY <1>4, <2>1
<1> HIDE DEF h
<1> QED BY <1>5

\* FlattenSeq joins its sequences one after the other.
LEMMA FlattenIs ==
  ASSUME NEW q, Len(q) \in Nat, Len(q) # 0
  PROVE  \E g : /\ FlattenSeq(q) = g[Len(q)]
                /\ \A i \in 1 .. Len(q) : g[i] = Joined(g, q, i)
<1> DEFINE Eqn(g) == g = [i \in 1 .. Len(q) |-> IF i = 1 THEN q[i] ELSE g[i - 1] \o q[i]]
           flatten == CHOOSE g : Eqn(g)
<1>1. \E g : Eqn(g)
  BY JoinsExist DEF Joined
<1>2. Eqn(flatten)
  <2> HIDE DEF Eqn
  <2> QED BY <1>1
<1>3. FlattenSeq(q) = flatten[Len(q)]
  BY SMT DEF FlattenSeq
<1> HIDE DEF flatten
<1>4. \A i \in 1 .. Len(q) : flatten[i] = Joined(flatten, q, i)
  BY <1>2 DEF Joined
<1> QED BY <1>3, <1>4

\* r is made of the elements of the first n sequences of q, all of them and in
\* order: of two elements of r the first comes from an earlier sequence, or
\* from an earlier place in the same one.
At(q, n, k, l, e) == k \in 1 .. n /\ l \in 1 .. Len(q[k]) /\ q[k][l] = e

InTurn(q, n, d, e) ==
  \E k, l, m, o : /\ At(q, n, k, l, d) /\ At(q, n, m, o, e)
                  /\ k < m \/ (k = m /\ l < o)

Pieces(r, q, n, S) ==
  /\ r \in Seq(S)
  /\ \A k \in 1 .. n : \A l \in 1 .. Len(q[k]) : \E j \in 1 .. Len(r) : r[j] = q[k][l]
  /\ \A j \in 1 .. Len(r) : \E k, l : At(q, n, k, l, r[j])
  /\ \A i, j \in 1 .. Len(r) : i < j => InTurn(q, n, r[i], r[j])

\* The first sequence alone.
LEMMA PiecesOfOne ==
  ASSUME NEW S, NEW q, q[1] \in Seq(S)
  PROVE  Pieces(q[1], q, 1, S)
<1>1. Len(q[1]) \in Nat /\ 1 \in 1 .. 1 /\ \A k \in 1 .. 1 : k = 1
  BY SMT, LenProperties
<1>2. \A j \in 1 .. Len(q[1]) : At(q, 1, 1, j, q[1][j])
  BY <1>1 DEF At
<1>3. \A i, j \in 1 .. Len(q[1]) : i < j => InTurn(q, 1, q[1][i], q[1][j])
  BY <1>2 DEF InTurn
<1> QED BY <1>1, <1>2, <1>3 DEF Pieces

\* One more sequence.
LEMMA PiecesJoined ==
  ASSUME NEW S, NEW q, NEW n \in Nat, NEW r, Pieces(r, q, n, S), q[n + 1] \in Seq(S)
  PROVE  Pieces(r \o q[n + 1], q, n + 1, S)
<1> DEFINE a == q[n + 1]
           s == r \o a
           m == n + 1
<1>1. r \in Seq(S) /\ a \in Seq(S) /\ Len(r) \in Nat /\ Len(a) \in Nat
  BY SMT, LenProperties DEF Pieces
<1>2. /\ s \in Seq(S) /\ Len(s) = Len(r) + Len(a)
      /\ \A j \in 1 .. Len(s) : s[j] = IF j <= Len(r) THEN r[j] ELSE a[j - Len(r)]
  BY SMT, <1>1, ConcatProperties
<1>3. m \in 1 .. m /\ m = n + 1 /\ \A k \in 1 .. n : k \in 1 .. m /\ k < m
  BY SMT
<1>4. \A k \in 1 .. m : k \in 1 .. n \/ k = m
  BY SMT
<1>5. q[m] = a
  BY SMT
<1> HIDE DEF a, s, m
<1>6. \A k, l, e : At(q, n, k, l, e) => At(q, m, k, l, e) /\ k < m
  BY <1>3 DEF At
<1>7. \A l \in 1 .. Len(a) : At(q, m, m, l, a[l])
  BY <1>3, <1>5 DEF At
<1>8. ASSUME NEW j \in 1 .. Len(s)
      PROVE  \/ j \in 1 .. Len(r) /\ s[j] = r[j]
             \/ j - Len(r) \in 1 .. Len(a) /\ j > Len(r) /\ s[j] = a[j - Len(r)]
  BY SMT, <1>1, <1>2
<1>9. ASSUME NEW k \in 1 .. m, NEW l \in 1 .. Len(q[k])
      PROVE  \E j \in 1 .. Len(s) : s[j] = q[k][l]
  <2>1. CASE k \in 1 .. n
    <3>1. PICK j \in 1 .. Len(r) : r[j] = q[k][l]
      BY <2>1 DEF Pieces
    <3>2. j \in 1 .. Len(s) /\ s[j] = r[j]
      BY SMT, <1>1, <1>2
    <3> QED BY <3>1, <3>2
  <2>2. CASE k = m
    <3>1. l \in 1 .. Len(a)
      BY <1>5, <2>2
    <3> DEFINE j == Len(r) + l
    <3>2. j \in 1 .. Len(s) /\ ~(j <= Len(r)) /\ j - Len(r) = l
      BY SMT, <1>1, <1>2, <3>1
    <3> HIDE DEF j
    <3>3. s[j] = a[l]
      BY <1>2, <3>2
    <3> QED BY <1>5, <2>2, <3>2, <3>3
  <2> QED BY <1>4, <2>1, <2>2
<1>10. ASSUME NEW j \in 1 .. Len(s) PROVE \E k, l : At(q, m, k, l, s[j])
  <2>1. CASE j \in 1 .. Len(r) /\ s[j] = r[j]
    <3>1. PICK k, l : At(q, n, k, l, r[j])
      BY <2>1 DEF Pieces
    <3> QED BY <1>6, <2>1, <3>1
  <2>2. CASE j - Len(r) \in 1 .. Len(a) /\ s[j] = a[j - Len(r)]
    BY <1>7, <2>2
  <2> QED BY <1>8, <2>1, <2>2
<1>11. ASSUME NEW i \in 1 .. Len(s), NEW j \in 1 .. Len(s), i < j
       PROVE  InTurn(q, m, s[i], s[j])
  <2>1. CASE j \in 1 .. Len(r) /\ s[j] = r[j]
    <3>1. i \in 1 .. Len(r) /\ s[i] = r[i]
      BY SMT, <1>1, <1>2, <1>11, <2>1
    <3>2. InTurn(q, n, r[i], r[j])
      BY <1>11, <2>1, <3>1 DEF Pieces
    <3>3. PICK k, l, h, o : /\ At(q, n, k, l, r[i]) /\ At(q, n, h, o, r[j])
                            /\ k < h \/ (k = h /\ l < o)
      BY <3>2 DEF InTurn
    <3>4. At(q, m, k, l, s[i]) /\ At(q, m, h, o, s[j])
      BY <1>6, <2>1, <3>1, <3>3
    <3> QED BY <3>3, <3>4 DEF InTurn
  <2>2. CASE j - Len(r) \in 1 .. Len(a) /\ s[j] = a[j - Len(r)]
    <3>1. At(q, m, m, j - Len(r), s[j])
      BY <1>7, <2>2
    <3>2. CASE i \in 1 .. Len(r) /\ s[i] = r[i]
      <4>1. PICK k, l : At(q, n, k, l, r[i])
        BY <3>2 DEF Pieces
      <4>2. At(q, m, k, l, s[i]) /\ k < m
        BY <1>6, <3>2, <4>1
      <4> QED BY <3>1, <4>2 DEF InTurn
    <3>3. CASE i - Len(r) \in 1 .. Len(a) /\ s[i] = a[i - Len(r)]
      <4>1. At(q, m, m, i - Len(r), s[i])
        BY <1>7, <3>3
      <4>2. i - Len(r) < j - Len(r)
        BY SMT, <1>1, <1>2, <1>11
      <4> QED BY <3>1, <4>1, <4>2 DEF InTurn
    <3> QED BY <1>8, <3>2, <3>3
  <2> QED BY <1>8, <2>1, <2>2
<1> QED BY <1>2, <1>9, <1>10, <1>11 DEF Pieces, s, a, m

\* FlattenSeq keeps everything it is given, in order, and adds nothing.
LEMMA FlattenPieces ==
  ASSUME NEW S, NEW q, Len(q) \in Nat, Len(q) = 0 => q = <<>>,
         \A k \in 1 .. Len(q) : q[k] \in Seq(S)
  PROVE  Pieces(FlattenSeq(q), q, Len(q), S)
<1>1. CASE Len(q) = 0
  <2>1. FlattenSeq(q) = <<>> /\ Len(<<>>) = 0 /\ <<>> \in Seq(S) /\ 1 .. 0 = {}
    BY SMT, <1>1 DEF FlattenSeq
  <2> QED BY <1>1, <2>1 DEF Pieces
<1>2. CASE Len(q) # 0
  <2>1. PICK g : /\ FlattenSeq(q) = g[Len(q)]
                 /\ \A i \in 1 .. Len(q) : g[i] = Joined(g, q, i)
    BY <1>2, FlattenIs
  <2> DEFINE Bad == {n \in Nat : n \in 1 .. Len(q) /\ ~Pieces(g[n], q, n, S)}
  <2>2. Bad = {}
    <3> SUFFICES ASSUME Bad # {} PROVE FALSE
      BY SMT
    <3>1. PICK n \in Bad : \A k \in Bad : n <= k
      BY LeastNumber
    <3>2. n \in Nat /\ n \in 1 .. Len(q) /\ ~Pieces(g[n], q, n, S)
      BY <3>1
    <3> HIDE DEF Bad
    <3>3. n # 1
      <4>1. n = 1 => g[n] = q[1] /\ q[1] \in Seq(S)
        BY <2>1, <3>2 DEF Joined
      <4> QED BY <3>2, <4>1, PiecesOfOne
    <3> DEFINE m == n - 1
    <3>4. m \in Nat /\ m \in 1 .. Len(q) /\ ~(n <= m) /\ n = m + 1
      BY SMT, <3>2, <3>3
    <3>5. g[n] = g[m] \o q[n] /\ q[n] \in Seq(S)
      BY <2>1, <3>2, <3>3 DEF Joined
    <3> HIDE DEF m
    <3>6. Pieces(g[m], q, m, S)
      BY <3>1, <3>4 DEF Bad
    <3>7. Pieces(g[m] \o q[m + 1], q, m + 1, S)
      BY <3>4, <3>5, <3>6, PiecesJoined
    <3> QED BY <3>2, <3>4, <3>5, <3>7
  <2>3. Len(q) \in 1 .. Len(q)
    BY SMT, <1>2
  <2> QED BY <2>1, <2>2, <2>3
<1> QED BY <1>1, <1>2

-----------------------------------------------------------------------------
(* eth_getLogs. *)

ChainType == Seq([fee : Fees, logs : BlockLogs])

\* A log where logs_in_range finds it.
Entry(n, i) == [block |-> n, index |-> i, log |-> chain[n].logs[i]]
SealedLog == [block: Nat, index: Nat, log: LogType]

LogAt(n, i) == n \in 1 .. Len(chain) /\ i \in 1 .. Len(chain[n].logs)

Before(d, e) == d.block < e.block \/ (d.block = e.block /\ d.index < e.index)

\* What sealed blocks hold.
LEMMA ChainFacts ==
  ASSUME chain \in ChainType
  PROVE  /\ Len(chain) \in Nat /\ DOMAIN chain = 1 .. Len(chain)
         /\ \A n \in 1 .. Len(chain) :
              /\ chain[n].fee \in Fees /\ chain[n].logs \in Seq(LogType)
              /\ Len(chain[n].logs) \in Nat
              /\ DOMAIN chain[n].logs = 1 .. Len(chain[n].logs)
              /\ \A i \in 1 .. Len(chain[n].logs) :
                   chain[n].logs[i] \in LogType /\ Entry(n, i) \in SealedLog
<1>1. Len(chain) \in Nat /\ DOMAIN chain = 1 .. Len(chain)
  BY SMT, LenProperties DEF ChainType
<1>2. ASSUME NEW n \in 1 .. Len(chain)
      PROVE  chain[n].fee \in Fees /\ chain[n].logs \in Seq(LogType)
  <2>1. chain[n] \in [fee : Fees, logs : BlockLogs]
    BY <1>1, ElementOfSeq DEF ChainType
  <2> QED BY <2>1, QueriesAssumption
<1>3. ASSUME NEW n \in 1 .. Len(chain)
      PROVE  /\ Len(chain[n].logs) \in Nat
             /\ DOMAIN chain[n].logs = 1 .. Len(chain[n].logs)
  BY <1>2, LenProperties
<1>4. ASSUME NEW n \in 1 .. Len(chain), NEW i \in 1 .. Len(chain[n].logs)
      PROVE  chain[n].logs[i] \in LogType /\ Entry(n, i) \in SealedLog
  <2>1. chain[n].logs[i] \in LogType
    BY <1>2, ElementOfSeq
  <2>2. n \in Nat /\ i \in Nat
    BY SMT, <1>1, <1>3
  <2> QED BY <2>1, <2>2 DEF Entry, SealedLog
<1> QED BY <1>1, <1>2, <1>3, <1>4

\* logs_in_range returns the logs of the blocks of a range, all of them, in
\* chain order.
LEMMA RangeLogs ==
  ASSUME chain \in ChainType, NEW from \in Nat, NEW to \in Nat, NEW r,
         r = logs_in_range(from, to)
  PROVE  /\ r \in Seq(SealedLog)
         /\ \A n, i : LogAt(n, i) /\ from <= n /\ n <= to => \E j \in 1 .. Len(r) : r[j] = Entry(n, i)
         /\ \A j \in 1 .. Len(r) : \E n, i : LogAt(n, i) /\ from <= n /\ n <= to /\ r[j] = Entry(n, i)
         /\ \A i, j \in 1 .. Len(r) : i < j => Before(r[i], r[j])
<1> DEFINE len == IF from > to THEN 0 ELSE to - from + 1
           Logs(n) == IF n \in DOMAIN chain
                      THEN [i \in DOMAIN chain[n].logs |-> Entry(n, i)] ELSE <<>>
           q == [k \in 1 .. len |-> Logs(from + k - 1)]
<1>1. /\ len \in Nat
      /\ \A k \in 1 .. len : from <= from + k - 1 /\ from + k - 1 <= to
      /\ \A n \in Nat : from <= n /\ n <= to =>
           n - from + 1 \in 1 .. len /\ from + (n - from + 1) - 1 = n
  BY SMT
<1>2. r = FlattenSeq(q)
  BY DEF logs_in_range, Entry
<1> HIDE DEF len
<1>3. \A n \in 1 .. Len(chain) : /\ Logs(n) \in Seq(SealedLog) /\ Len(Logs(n)) = Len(chain[n].logs)
                                 /\ \A i \in 1 .. Len(chain[n].logs) : Logs(n)[i] = Entry(n, i)
  <2> TAKE n \in 1 .. Len(chain)
  <2> DEFINE s == [i \in 1 .. Len(chain[n].logs) |-> Entry(n, i)]
  <2>1. Logs(n) = s
    BY ChainFacts
  <2>2. \A i \in 1 .. Len(chain[n].logs) : Entry(n, i) \in SealedLog
    BY ChainFacts
  <2>3. Len(chain[n].logs) \in Nat
    BY ChainFacts
  <2>4. s \in Seq(SealedLog) /\ Len(s) = Len(chain[n].logs)
    BY SMT, <2>2, <2>3
  <2>5. \A i \in 1 .. Len(chain[n].logs) : s[i] = Entry(n, i)
    OBVIOUS
  <2> QED BY <2>1, <2>4, <2>5
<1>4. \A n : n \notin 1 .. Len(chain) => Logs(n) = <<>>
  BY ChainFacts
<1> HIDE DEF Logs
<1>5. Len(<<>>) = 0 /\ <<>> \in Seq(SealedLog) /\ 1 .. 0 = {}
  BY SMT
<1>6. \A n : Logs(n) \in Seq(SealedLog)
  BY <1>3, <1>4, <1>5
<1>7. /\ Len(q) = len /\ (len = 0 => q = <<>>)
      /\ \A k \in 1 .. len : q[k] = Logs(from + k - 1)
  BY SMT, <1>1
<1>8. Pieces(r, q, len, SealedLog)
  <2> HIDE DEF q
  <2>1. \A k \in 1 .. Len(q) : q[k] \in Seq(SealedLog)
    BY <1>6, <1>7
  <2>2. Len(q) \in Nat /\ (Len(q) = 0 => q = <<>>)
    BY <1>1, <1>7
  <2>3. Pieces(FlattenSeq(q), q, Len(q), SealedLog)
    BY <2>1, <2>2, FlattenPieces
  <2> QED BY <1>2, <1>7, <2>3
<1> HIDE DEF q
<1>9. ASSUME NEW k, NEW l, NEW e, At(q, len, k, l, e)
      PROVE  LET n == from + k - 1 IN
             LogAt(n, l) /\ from <= n /\ n <= to /\ e = Entry(n, l)
  <2> DEFINE n == from + k - 1
  <2>1. k \in 1 .. len /\ l \in 1 .. Len(Logs(n)) /\ Logs(n)[l] = e
    BY <1>7, <1>9 DEF At
  <2>2. from <= n /\ n <= to
    BY <1>1, <2>1
  <2> HIDE DEF n
  <2>3. n \in 1 .. Len(chain)
    BY <1>4, <1>5, <2>1
  <2> QED BY <1>3, <2>1, <2>2, <2>3 DEF LogAt, n
<1>10. ASSUME NEW n, NEW i, LogAt(n, i), from <= n, n <= to
       PROVE  \E j \in 1 .. Len(r) : r[j] = Entry(n, i)
  <2> DEFINE k == n - from + 1
  <2>1. n \in Nat
    BY SMT, <1>10, ChainFacts DEF LogAt
  <2>2. k \in 1 .. len /\ from + k - 1 = n
    BY <1>1, <1>10, <2>1
  <2> HIDE DEF k
  <2>3. q[k] = Logs(n) /\ i \in 1 .. Len(Logs(n)) /\ Logs(n)[i] = Entry(n, i)
    BY <1>3, <1>7, <1>10, <2>2 DEF LogAt
  <2>4. \E j \in 1 .. Len(r) : r[j] = q[k][i]
    <3>1. k \in 1 .. len /\ i \in 1 .. Len(q[k])
      BY <2>2, <2>3
    <3> QED BY <1>8, <3>1 DEF Pieces
  <2> QED BY <2>3, <2>4
<1>11. ASSUME NEW j \in 1 .. Len(r)
       PROVE  \E n, i : LogAt(n, i) /\ from <= n /\ n <= to /\ r[j] = Entry(n, i)
  <2>1. PICK k, l : At(q, len, k, l, r[j])
    BY <1>8 DEF Pieces
  <2> QED BY <1>9, <2>1
<1>12. ASSUME NEW i \in 1 .. Len(r), NEW j \in 1 .. Len(r), i < j
       PROVE  Before(r[i], r[j])
  <2>1. InTurn(q, len, r[i], r[j])
    BY <1>8, <1>12 DEF Pieces
  <2>2. PICK k, l, m, o : /\ At(q, len, k, l, r[i]) /\ At(q, len, m, o, r[j])
                          /\ k < m \/ (k = m /\ l < o)
    BY <2>1 DEF InTurn
  <2>3. r[i] = Entry(from + k - 1, l) /\ r[j] = Entry(from + m - 1, o)
    BY <1>9, <2>2
  <2>4. k \in 1 .. len /\ m \in 1 .. len
    BY <2>2 DEF At
  <2>5. /\ r[i].block = from + k - 1 /\ r[i].index = l
        /\ r[j].block = from + m - 1 /\ r[j].index = o
    BY SMT, <2>3 DEF Entry
  <2>6. (k < m => from + k - 1 < from + m - 1) /\ (k = m => from + k - 1 = from + m - 1)
    BY SMT, <1>1, <2>4
  <2> QED BY <2>2, <2>5, <2>6 DEF Before
<1> QED BY <1>8, <1>10, <1>11, <1>12 DEF Pieces

\* w holds the elements of r that f wants, in their order.
WantedOf(w, r, f, S) ==
  /\ w \in Seq(S)
  /\ \A k \in 1 .. Len(r) : Wanted(f, r[k]) => \E j \in 1 .. Len(w) : w[j] = r[k]
  /\ \A j \in 1 .. Len(w) : \E k \in 1 .. Len(r) : Wanted(f, r[k]) /\ w[j] = r[k]
  /\ \A i, j \in 1 .. Len(w) : i < j =>
       \E k, m \in 1 .. Len(r) : k < m /\ w[i] = r[k] /\ w[j] = r[m]

\* Filtering keeps the logs that are wanted, and their order.
LEMMA FilteredLogs ==
  ASSUME NEW S, NEW r \in Seq(S), NEW f
  PROVE  WantedOf(filtered(f, r), r, f, S)
<1> DEFINE w == filtered(f, r)
<1> DEFINE One(k) == IF Wanted(f, r[k]) THEN <<r[k]>> ELSE <<>>
           q == [k \in 1 .. Len(r) |-> One(k)]
<1>1. Len(r) \in Nat /\ DOMAIN r = 1 .. Len(r) /\ \A k \in 1 .. Len(r) : r[k] \in S
  BY SMT, LenProperties, ElementOfSeq
<1>2. w = FlattenSeq(q)
  BY <1>1 DEF filtered
<1>3. ASSUME NEW k \in 1 .. Len(r)
      PROVE  /\ One(k) \in Seq(S)
             /\ Wanted(f, r[k]) => 1 \in 1 .. Len(One(k)) /\ One(k)[1] = r[k]
             /\ \A l \in 1 .. Len(One(k)) : l = 1 /\ One(k)[l] = r[k] /\ Wanted(f, r[k])
  <2>1. CASE Wanted(f, r[k])
    <3>1. One(k) = <<r[k]>>
      BY <2>1
    <3> HIDE DEF One
    <3>2. /\ <<r[k]>> \in Seq(S) /\ Len(<<r[k]>>) = 1 /\ <<r[k]>>[1] = r[k]
          /\ 1 \in 1 .. 1 /\ \A l \in 1 .. 1 : l = 1
      BY SMT, <1>1
    <3> QED BY <2>1, <3>1, <3>2
  <2>2. CASE ~Wanted(f, r[k])
    <3>1. One(k) = <<>>
      BY <2>2
    <3> HIDE DEF One
    <3>2. <<>> \in Seq(S) /\ Len(<<>>) = 0 /\ 1 .. 0 = {}
      BY SMT
    <3> QED BY <2>2, <3>1, <3>2
  <2> QED BY <2>1, <2>2
<1> HIDE DEF One
<1>4. Len(q) = Len(r) /\ (Len(r) = 0 => q = <<>>) /\ \A k \in 1 .. Len(r) : q[k] = One(k)
  BY SMT, <1>1
<1> HIDE DEF q, w
<1>5. Pieces(w, q, Len(r), S)
  BY <1>1, <1>2, <1>3, <1>4, FlattenPieces
<1>6. ASSUME NEW k, NEW l, NEW e, At(q, Len(r), k, l, e)
      PROVE  k \in 1 .. Len(r) /\ l = 1 /\ Wanted(f, r[k]) /\ e = r[k]
  <2>1. k \in 1 .. Len(r) /\ l \in 1 .. Len(One(k)) /\ One(k)[l] = e
    BY <1>4, <1>6 DEF At
  <2> QED BY <1>3, <2>1
<1>7. ASSUME NEW k \in 1 .. Len(r), Wanted(f, r[k])
      PROVE  \E j \in 1 .. Len(w) : w[j] = r[k]
  <2>1. 1 \in 1 .. Len(q[k]) /\ q[k][1] = r[k]
    BY <1>3, <1>4, <1>7
  <2>2. \E j \in 1 .. Len(w) : w[j] = q[k][1]
    BY <1>5, <2>1 DEF Pieces
  <2> QED BY <2>1, <2>2
<1>8. ASSUME NEW j \in 1 .. Len(w)
      PROVE  \E k \in 1 .. Len(r) : Wanted(f, r[k]) /\ w[j] = r[k]
  <2>1. PICK k, l : At(q, Len(r), k, l, w[j])
    BY <1>5 DEF Pieces
  <2> QED BY <1>6, <2>1
<1>9. ASSUME NEW i \in 1 .. Len(w), NEW j \in 1 .. Len(w), i < j
      PROVE  \E k, m \in 1 .. Len(r) : k < m /\ w[i] = r[k] /\ w[j] = r[m]
  <2>1. PICK k, l, m, o : /\ At(q, Len(r), k, l, w[i]) /\ At(q, Len(r), m, o, w[j])
                          /\ k < m \/ (k = m /\ l < o)
    BY <1>5, <1>9 DEF Pieces, InTurn
  <2>2. k \in 1 .. Len(r) /\ m \in 1 .. Len(r) /\ l = 1 /\ o = 1 /\ w[i] = r[k] /\ w[j] = r[m]
    BY <1>6, <2>1
  <2>3. ~(1 < 1)
    BY SMT
  <2> QED BY <2>1, <2>2, <2>3
<1> QED BY <1>5, <1>7, <1>8, <1>9 DEF Pieces, WantedOf, w

\* The address and topics of a filter match exactly the logs they mean.
LEMMA WantedIsMeant ==
  ASSUME NEW f \in FilterType, f.topics \notin {Null, Malformed}, NEW e \in SealedLog
  PROVE  Wanted(f, e) <=> Meant(f, e.log)
<1>1. e.log.topics \in Seq(Topic)
  BY DEF SealedLog, LogType
<1>2. Len(e.log.topics) \in Nat /\ DOMAIN e.log.topics = 1 .. Len(e.log.topics)
  BY <1>1, LenProperties
<1>3. ASSUME f.topics # Absent, NEW k \in DOMAIN f.topics
      PROVE  k \in DOMAIN e.log.topics <=> Len(e.log.topics) >= k
  <2>1. f.topics \in Seq({Wildcard} \cup SUBSET Topic)
    BY <1>3 DEF FilterType
  <2>2. Len(f.topics) \in Nat /\ DOMAIN f.topics = 1 .. Len(f.topics)
    BY <2>1, LenProperties
  <2>3. k \in Nat /\ k >= 1
    BY SMT, <2>2
  <2> QED BY SMT, <1>2, <2>3
<1>4. f.topics # Absent =>
        (topics_match(f, e.log) <=>
           \A k \in DOMAIN f.topics :
              f.topics[k] # Wildcard =>
                \E t \in f.topics[k] : Len(e.log.topics) >= k /\ e.log.topics[k] = t)
  BY <1>3 DEF topics_match
<1> QED BY <1>4 DEF Wanted, Meant, address_matches

\* The ends of a range are numbers, the ones the filter's author means.
LEMMA BoundIsEnd ==
  ASSUME NEW v \in FilterEnd, v # Malformed, Len(chain) \in Nat
  PROVE  bound(v) = End(v, Len(chain)) /\ bound(v) \in Nat
BY SMT, QueriesAssumption DEF bound, End, FilterEnd, block_number

\* The range that is searched, unless the filter is answered with an error: it
\* is the one that is meant, cut off at the head, if it is not reversed.
LEMMA RangeIsMeant ==
  ASSUME chain \in ChainType, NEW f \in FilterType, log_block_range(f) # Error
  PROVE  \E from, to \in Nat :
           /\ log_block_range(f) = <<from, to>>
           /\ Ordered(f, Len(chain)) =>
                \A n \in 1 .. Len(chain) :
                  from <= n /\ n <= to <=> InRange(f, Len(chain), n)
<1>1. Len(chain) \in Nat /\ DOMAIN chain = 1 .. Len(chain)
  BY ChainFacts
<1>2. f.from \in FilterEnd /\ f.to \in FilterEnd
  BY DEF FilterType
<1>3. CASE f.hash # Absent
  <2>1. f.hash \in 1 .. Len(chain) /\ log_block_range(f) = <<f.hash, f.hash>>
    BY <1>1, <1>3 DEF log_block_range
  <2>2. f.hash \in Nat /\ \A n \in 1 .. Len(chain) : f.hash <= n /\ n <= f.hash <=> n = f.hash
    BY SMT, <1>1, <2>1
  <2> QED BY <1>3, <2>1, <2>2 DEF InRange
<1>4. CASE f.hash = Absent
  <2> DEFINE a == bound(f.from)
             b == bound(f.to)
             from == TheLower(a, b)
             to == TheLower(TheHigher(b, a), block_number)
  <2>1. Malformed \notin {f.from, f.to} /\ log_block_range(f) = <<from, to>>
    BY <1>4 DEF log_block_range
  <2>2. /\ a = End(f.from, Len(chain)) /\ b = End(f.to, Len(chain)) /\ a \in Nat /\ b \in Nat
    BY <1>1, <1>2, <2>1, BoundIsEnd
  <2> HIDE DEF a, b
  <2>3. from \in Nat /\ to \in Nat
    BY SMT, <1>1, <2>2 DEF TheLower, TheHigher, block_number
  <2>4. a <= b => \A n \in 1 .. Len(chain) : from <= n /\ n <= to <=> a <= n /\ n <= b
    BY SMT, <1>1, <2>2 DEF TheLower, TheHigher, block_number
  <2>5. Ordered(f, Len(chain)) => a <= b
    BY <1>4, <2>2 DEF Ordered
  <2>6. \A n : InRange(f, Len(chain), n) <=> a <= n /\ n <= b
    BY <1>4, <2>2 DEF InRange
  <2> HIDE DEF from, to
  <2> QED BY <2>1, <2>3, <2>4, <2>5, <2>6
<1> QED BY <1>3, <1>4

\* The positions a filter selects, one by one.
LEMMA SelectedAre ==
  ASSUME chain \in ChainType, NEW f, NEW at \in 0 .. Len(chain)
  PROVE  \A p : p \in Selected(f, at) <=>
           \E n, i : /\ p = <<n, i>> /\ n \in 1 .. at /\ LogAt(n, i)
                     /\ InRange(f, at, n) /\ Meant(f, chain[n].logs[i])
<1>1. \A n \in 1 .. at : n \in 1 .. Len(chain)
  BY SMT, ChainFacts
<1>2. \A n \in 1 .. at : DOMAIN chain[n].logs = 1 .. Len(chain[n].logs)
  BY <1>1, ChainFacts
<1> DEFINE Those(n) == {i \in DOMAIN chain[n].logs : Meant(f, chain[n].logs[i])}
           Of(n) == {<<n, i>> : i \in Those(n)}
           Numbers == {n \in 1 .. at : InRange(f, at, n)}
<1>3. Selected(f, at) = UNION {Of(n) : n \in Numbers}
  BY DEF Selected
<1>4. \A n \in 1 .. at : \A i : i \in Those(n) <=> LogAt(n, i) /\ Meant(f, chain[n].logs[i])
  BY <1>1, <1>2 DEF LogAt
<1>5. \A n : n \in Numbers <=> n \in 1 .. at /\ InRange(f, at, n)
  OBVIOUS
<1> HIDE DEF Those, Numbers
<1>6. \A p : p \in UNION {Of(n) : n \in Numbers} <=>
               \E n \in Numbers : \E i \in Those(n) : p = <<n, i>>
  <2>1. \A n : \A p : p \in Of(n) <=> \E i \in Those(n) : p = <<n, i>>
    OBVIOUS
  <2> HIDE DEF Of
  <2>2. \A p : p \in UNION {Of(n) : n \in Numbers} <=> \E n \in Numbers : p \in Of(n)
    OBVIOUS
  <2> QED BY <2>1, <2>2
<1> QED BY <1>3, <1>4, <1>5, <1>6

\* What is promised of an answer to eth_getLogs.
LogsRight(f, at, answer) ==
  /\ \A k \in DOMAIN answer : answer[k].block \in 1 .. at
  /\ Ordered(f, at) =>
       /\ {<<answer[k].block, answer[k].index>> : k \in DOMAIN answer} = Selected(f, at)
       /\ \A j, k \in DOMAIN answer : j < k => Before(answer[j], answer[k])

\* eth_getLogs keeps the promise.
LEMMA GetLogsRight ==
  ASSUME chain \in ChainType, NEW f \in FilterType, eth_getLogs(f) # Error
  PROVE  LogsRight(f, Len(chain), eth_getLogs(f))
<1>1. log_block_range(f) # Error /\ f.topics \notin {Null, Malformed}
  BY DEF eth_getLogs
<1>2. PICK from \in Nat, to \in Nat :
        /\ log_block_range(f) = <<from, to>>
        /\ Ordered(f, Len(chain)) =>
             \A n \in 1 .. Len(chain) : from <= n /\ n <= to <=> InRange(f, Len(chain), n)
  BY <1>1, RangeIsMeant
<1> DEFINE r == logs_in_range(from, to)
           w == filtered(f, r)
<1>3. eth_getLogs(f) = w
  <2>1. log_block_range(f)[1] = from /\ log_block_range(f)[2] = to
    BY SMT, <1>2
  <2> QED BY <2>1 DEF eth_getLogs
<1>4. /\ r \in Seq(SealedLog)
      /\ \A n, i : LogAt(n, i) /\ from <= n /\ n <= to => \E j \in 1 .. Len(r) : r[j] = Entry(n, i)
      /\ \A j \in 1 .. Len(r) : \E n, i : LogAt(n, i) /\ from <= n /\ n <= to /\ r[j] = Entry(n, i)
      /\ \A i, j \in 1 .. Len(r) : i < j => Before(r[i], r[j])
  BY RangeLogs
<1> HIDE DEF r
<1>5. WantedOf(w, r, f, SealedLog)
  BY <1>4, FilteredLogs
<1> HIDE DEF w
<1>6. Len(w) \in Nat /\ DOMAIN w = 1 .. Len(w) /\ Len(chain) \in Nat
  BY <1>5, LenProperties, ChainFacts DEF WantedOf
<1>7. ASSUME NEW n, NEW i, LogAt(n, i)
      PROVE  /\ Entry(n, i) \in SealedLog /\ Entry(n, i).log = chain[n].logs[i]
             /\ Entry(n, i).block = n /\ Entry(n, i).index = i
             /\ n \in 1 .. Len(chain) /\ n <= Len(chain)
             /\ Wanted(f, Entry(n, i)) <=> Meant(f, chain[n].logs[i])
  <2>1. Entry(n, i).log = chain[n].logs[i] /\ Entry(n, i).block = n /\ Entry(n, i).index = i
    BY SMT DEF Entry
  <2>2. Entry(n, i) \in SealedLog /\ n \in 1 .. Len(chain)
    BY <1>7, ChainFacts DEF LogAt
  <2>3. n <= Len(chain)
    BY SMT, <1>6, <2>2
  <2>4. Wanted(f, Entry(n, i)) <=> Meant(f, Entry(n, i).log)
    BY <1>1, <2>2, WantedIsMeant
  <2> QED BY <2>1, <2>2, <2>3, <2>4
<1>8. ASSUME NEW k \in DOMAIN w
      PROVE  \E n, i : /\ LogAt(n, i) /\ from <= n /\ n <= to /\ w[k] = Entry(n, i)
                       /\ Wanted(f, Entry(n, i))
  <2>1. PICK j \in 1 .. Len(r) : Wanted(f, r[j]) /\ w[k] = r[j]
    BY <1>5, <1>6 DEF WantedOf
  <2>2. PICK n, i : LogAt(n, i) /\ from <= n /\ n <= to /\ r[j] = Entry(n, i)
    BY <1>4
  <2> QED BY <2>1, <2>2
<1>9. \A k \in DOMAIN w : w[k].block \in 1 .. Len(chain)
  <2> TAKE k \in DOMAIN w
  <2>1. PICK n, i : LogAt(n, i) /\ w[k] = Entry(n, i)
    BY <1>8
  <2>2. Entry(n, i).block = n /\ n \in 1 .. Len(chain)
    BY <1>7, <2>1
  <2> QED BY <2>1, <2>2
<1>10. ASSUME NEW j \in DOMAIN w, NEW k \in DOMAIN w, j < k PROVE Before(w[j], w[k])
  <2>1. PICK h \in 1 .. Len(r), m \in 1 .. Len(r) : h < m /\ w[j] = r[h] /\ w[k] = r[m]
    <3>1. j \in 1 .. Len(w) /\ k \in 1 .. Len(w)
      BY <1>6
    <3>2. \E h, m \in 1 .. Len(r) : h < m /\ w[j] = r[h] /\ w[k] = r[m]
      BY <1>5, <1>10, <3>1 DEF WantedOf
    <3> QED BY <3>2
  <2> QED BY <1>4, <2>1
<1>11. ASSUME Ordered(f, Len(chain))
       PROVE  {<<w[k].block, w[k].index>> : k \in DOMAIN w} = Selected(f, Len(chain))
  <2> DEFINE at == Len(chain)
             found == {<<w[k].block, w[k].index>> : k \in DOMAIN w}
             Position(p, n, i) == /\ p = <<n, i>> /\ n \in 1 .. at /\ LogAt(n, i)
                                  /\ InRange(f, at, n) /\ Meant(f, chain[n].logs[i])
  <2>1. \A p : p \in Selected(f, at) <=> \E n, i : Position(p, n, i)
    <3>1. at \in 0 .. Len(chain)
      BY SMT, <1>6
    <3> QED BY <3>1, SelectedAre
  <2>2. ASSUME NEW k \in DOMAIN w PROVE \E n, i : Position(<<w[k].block, w[k].index>>, n, i)
    <3>1. PICK n, i : /\ LogAt(n, i) /\ from <= n /\ n <= to /\ w[k] = Entry(n, i)
                      /\ Wanted(f, Entry(n, i))
      BY <1>8
    <3>2. n \in 1 .. at /\ InRange(f, at, n)
      BY <1>2, <1>7, <1>11, <3>1
    <3>a. /\ Entry(n, i).block = n /\ Entry(n, i).index = i
          /\ Wanted(f, Entry(n, i)) <=> Meant(f, chain[n].logs[i])
      BY <1>7, <3>1
    <3>3. <<w[k].block, w[k].index>> = <<n, i>> /\ Meant(f, chain[n].logs[i])
      BY <3>1, <3>a
    <3> QED BY <3>1, <3>2, <3>3
  <2>3. ASSUME NEW p, NEW n, NEW i, Position(p, n, i) PROVE p \in found
    <3>1. from <= n /\ n <= to /\ LogAt(n, i)
      BY <1>2, <1>11, <2>3
    <3>2. PICK j \in 1 .. Len(r) : r[j] = Entry(n, i)
      BY <1>4, <3>1
    <3>a. /\ Entry(n, i).block = n /\ Entry(n, i).index = i
          /\ Wanted(f, Entry(n, i)) <=> Meant(f, chain[n].logs[i])
      BY <1>7, <3>1
    <3>3. Wanted(f, r[j])
      BY <2>3, <3>2, <3>a
    <3>4. PICK k \in DOMAIN w : w[k] = r[j]
      BY <1>5, <1>6, <3>3 DEF WantedOf
    <3>5. w[k].block = n /\ w[k].index = i
      BY <3>2, <3>4, <3>a
    <3> QED BY <2>3, <3>5
  <2> HIDE DEF Position
  <2>4. \A p : p \in found <=> p \in Selected(f, at)
    BY <2>1, <2>2, <2>3
  <2> HIDE DEF found
  <2>5. found = Selected(f, at)
    BY <2>4
  <2> QED BY <2>5 DEF found
<1> QED BY <1>3, <1>9, <1>10, <1>11 DEF LogsRight

-----------------------------------------------------------------------------
(* The precompiles. *)

\* Cutting a concatenation where it was joined.
LEMMA CutConcat ==
  ASSUME NEW S, NEW b \in Seq(S), NEW t \in Seq(S)
  PROVE  /\ SubSeq(b \o t, 1, Len(b)) = b
         /\ SubSeq(b \o t, Len(b) + 1, Len(b \o t)) = t
<1> DEFINE c == b \o t
           n == Len(b)
<1>1. /\ n \in Nat /\ Len(t) \in Nat /\ c \in Seq(S) /\ Len(c) = n + Len(t)
      /\ \A i \in 1 .. n + Len(t) : c[i] = IF i <= n THEN b[i] ELSE t[i - n]
  BY SMT, ConcatProperties, LenProperties
<1>2. \A i \in 1 .. Len(c) : c[i] \in S
  BY <1>1, ElementOfSeq
<1> HIDE DEF c, n
<1>3. 1 \in Int /\ n \in Int /\ n + 1 \in Int /\ Len(c) \in Int
  BY SMT, <1>1
<1>4. (\A i \in 1 .. n : c[i] \in S) /\ (\A i \in n + 1 .. Len(c) : c[i] \in S)
  BY SMT, <1>1, <1>2
<1> DEFINE front == SubSeq(c, 1, n)
           back == SubSeq(c, n + 1, Len(c))
<1>5. /\ front \in Seq(S) /\ Len(front) = IF 1 <= n THEN n - 1 + 1 ELSE 0
      /\ \A i \in 1 .. n - 1 + 1 : front[i] = c[1 + i - 1]
  BY SMT, <1>3, <1>4, SubSeqProperties
<1>6. /\ back \in Seq(S) /\ Len(back) = IF n + 1 <= Len(c) THEN Len(c) - (n + 1) + 1 ELSE 0
      /\ \A i \in 1 .. Len(c) - (n + 1) + 1 : back[i] = c[n + 1 + i - 1]
  BY SMT, <1>3, <1>4, SubSeqProperties
<1> HIDE DEF front, back
<1>7. Len(front) = n /\ \A i \in 1 .. n : front[i] = b[i]
  BY SMT, <1>1, <1>5
<1>8. Len(back) = Len(t) /\ \A i \in 1 .. Len(t) : back[i] = t[i]
  <2>1. Len(back) = Len(t)
    BY SMT, <1>1, <1>6
  <2>2. ASSUME NEW i \in 1 .. Len(t) PROVE back[i] = t[i]
    <3>1. back[i] = c[n + 1 + i - 1]
      BY SMT, <1>1, <1>6
    <3>2. n + 1 + i - 1 = n + i /\ n + i \in 1 .. n + Len(t) /\ ~(n + i <= n) /\ (n + i) - n = i
      BY SMT, <1>1
    <3>3. c[n + i] = t[i]
      <4> DEFINE m == n + i
      <4>1. m \in 1 .. n + Len(t) /\ ~(m <= n) /\ m - n = i
        BY <3>2
      <4> HIDE DEF m
      <4>2. c[m] = IF m <= n THEN b[m] ELSE t[m - n]
        BY <1>1, <4>1
      <4> QED BY <4>1, <4>2 DEF m
    <3> QED BY <3>1, <3>2, <3>3
  <2> QED BY <2>1, <2>2
<1>9. front = b
  BY <1>5, <1>7, SeqEqual DEF n
<1>10. back = t
  BY <1>6, <1>8, SeqEqual
<1> QED BY <1>9, <1>10 DEF front, back, c, n

\* Joining what was cut.
LEMMA CutJoin ==
  ASSUME NEW S, NEW r \in Seq(S), NEW n \in 0 .. Len(r)
  PROVE  LET a == SubSeq(r, 1, n)
             b == SubSeq(r, n + 1, Len(r))
         IN  a \in Seq(S) /\ b \in Seq(S) /\ Len(a) = n /\ Len(b) = Len(r) - n /\ a \o b = r
<1>1. Len(r) \in Nat /\ n \in Nat /\ \A i \in 1 .. Len(r) : r[i] \in S
  BY SMT, LenProperties, ElementOfSeq
<1>2. (\A i \in 1 .. n : r[i] \in S) /\ (\A i \in n + 1 .. Len(r) : r[i] \in S)
  BY SMT, <1>1
<1>3. /\ SubSeq(r, 1, n) \in Seq(S) /\ Len(SubSeq(r, 1, n)) = n
      /\ SubSeq(r, n + 1, Len(r)) \in Seq(S) /\ Len(SubSeq(r, n + 1, Len(r))) = Len(r) - n
  <2> DEFINE a == SubSeq(r, 1, n)
             b == SubSeq(r, n + 1, Len(r))
  <2>1. 1 \in Int /\ n \in Int /\ n + 1 \in Int /\ Len(r) \in Int
    BY SMT, <1>1
  <2>2. a \in Seq(S) /\ Len(a) = IF 1 <= n THEN n - 1 + 1 ELSE 0
    BY SMT, <1>2, <2>1, SubSeqProperties
  <2>3. b \in Seq(S) /\ Len(b) = IF n + 1 <= Len(r) THEN Len(r) - (n + 1) + 1 ELSE 0
    BY SMT, <1>2, <2>1, SubSeqProperties
  <2> HIDE DEF a, b
  <2>4. Len(a) = n /\ Len(b) = Len(r) - n
    BY SMT, <1>1, <2>2, <2>3
  <2> QED BY <2>2, <2>3, <2>4 DEF a, b
<1>4. SubSeq(r, 1, n) \o SubSeq(r, n + 1, Len(r)) = SubSeq(r, 1, Len(r))
  <2>1. 1 \in 1 .. Len(r) + 1 /\ n \in 1 - 1 .. Len(r) /\ Len(r) \in n .. Len(r)
    BY SMT, <1>1
  <2> QED BY <2>1, ConcatAdjacentSubSeq
<1>5. SubSeq(r, 1, Len(r)) = r
  BY SubSeqFull
<1> QED BY <1>3, <1>4, <1>5

\* A length as two bytes, high byte first.
Length(n) == <<n \div 256, n % 256>>

\* The bytes of a length, and the length of two bytes.
LEMMA LengthBytes ==
  /\ \A n \in Nat : /\ Length(n) \in Seq(Nat) /\ Len(Length(n)) = 2
                    /\ 256 * Length(n)[1] + Length(n)[2] = n
  /\ \A a, b \in Byte : Length(256 * a + b) = <<a, b>> /\ 256 * a + b \in Nat
<1>1. ASSUME NEW n \in Nat
      PROVE  /\ Length(n) \in Seq(Nat) /\ Len(Length(n)) = 2
             /\ 256 * Length(n)[1] + Length(n)[2] = n
  BY SMT DEF Length
<1>2. ASSUME NEW a \in Byte, NEW b \in Byte
      PROVE  Length(256 * a + b) = <<a, b>> /\ 256 * a + b \in Nat
  <2>1. (256 * a + b) \div 256 = a /\ (256 * a + b) % 256 = b /\ 256 * a + b \in Nat
    BY SMT DEF Byte
  <2> QED BY <2>1 DEF Length
<1> QED BY <1>1, <1>2

\* A prefix is read off the front.
LEMMA SplitOff ==
  ASSUME NEW n \in Nat, NEW t \in Seq(Nat)
  PROVE  split_u16_prefix(Length(n) \o t) = [len |-> n, rest |-> t]
<1> DEFINE p == Length(n)
           s == p \o t
<1>1. p \in Seq(Nat) /\ Len(p) = 2 /\ 256 * p[1] + p[2] = n
  BY LengthBytes
<1> HIDE DEF p
<1>2. /\ Len(t) \in Nat /\ Len(s) = 2 + Len(t)
      /\ \A i \in 1 .. 2 + Len(t) : s[i] = IF i <= 2 THEN p[i] ELSE t[i - 2]
  <2>1. /\ Len(t) \in Nat /\ Len(s) = Len(p) + Len(t)
        /\ \A i \in 1 .. Len(p) + Len(t) : s[i] = IF i <= Len(p) THEN p[i] ELSE t[i - Len(p)]
    BY ZenonT(20), <1>1, ConcatProperties, LenProperties
  <2> HIDE DEF s
  <2> QED BY <1>1, <2>1
<1>3. SubSeq(s, 3, Len(s)) = t
  <2>1. SubSeq(s, Len(p) + 1, Len(s)) = t
    BY <1>1, CutConcat
  <2>2. Len(p) + 1 = 3
    BY SMT, <1>1
  <2> QED BY <2>1, <2>2
<1> HIDE DEF s
<1>4. ~(Len(s) < 2) /\ s[1] = p[1] /\ s[2] = p[2]
  BY SMT, <1>2
<1> QED BY <1>1, <1>3, <1>4 DEF split_u16_prefix, s, p

\* What is split off is a prefix.
LEMMA SplitIs ==
  ASSUME NEW s \in Bytes, split_u16_prefix(s) # Nothing
  PROVE  LET k == split_u16_prefix(s) IN
         /\ k = [len |-> k.len, rest |-> k.rest]
         /\ k.len \in Nat /\ k.rest \in Bytes /\ s = Length(k.len) \o k.rest
<1> DEFINE a == s[1]
           b == s[2]
           r == SubSeq(s, 3, Len(s))
           h == SubSeq(s, 1, 2)
<1>1. Len(s) \in Nat /\ ~(Len(s) < 2)
  BY LenProperties DEF Bytes, split_u16_prefix
<1>2. split_u16_prefix(s) = [len |-> 256 * a + b, rest |-> r]
  BY <1>1 DEF split_u16_prefix
<1>3. 2 \in 0 .. Len(s) /\ 1 \in 1 .. Len(s) /\ 2 \in 1 .. Len(s) /\ 2 + 1 = 3
  BY SMT, <1>1
<1>4. a \in Byte /\ b \in Byte
  BY <1>3, ElementOfSeq DEF Bytes
<1>5. r \in Bytes /\ h \in Bytes /\ Len(h) = 2 /\ h \o r = s
  BY <1>3, CutJoin DEF Bytes
<1>6. h = <<a, b>>
  <2>1. h[1] = s[1] /\ h[2] = s[2]
    <3> DEFINE c == h \o r
    <3>1. /\ Len(r) \in Nat
          /\ \A i \in 1 .. 2 + Len(r) : c[i] = IF i <= 2 THEN h[i] ELSE r[i - 2]
      <4> HIDE DEF h, r
      <4>1. h \in Seq(Byte) /\ r \in Seq(Byte) /\ Len(h) = 2
        BY <1>5 DEF Bytes
      <4>2. /\ Len(r) \in Nat
            /\ \A i \in 1 .. Len(h) + Len(r) : c[i] = IF i <= Len(h) THEN h[i] ELSE r[i - Len(h)]
        BY <4>1, ConcatProperties, LenProperties
      <4> HIDE DEF c
      <4> QED BY <4>1, <4>2
    <3> HIDE DEF c
    <3>2. c[1] = h[1] /\ c[2] = h[2]
      BY SMT, <3>1
    <3> QED BY <1>5, <3>2 DEF c
  <2>2. <<a, b>> \in Bytes /\ Len(<<a, b>>) = 2 /\ <<a, b>>[1] = a /\ <<a, b>>[2] = b
    BY SMT, <1>4 DEF Bytes
  <2>3. \A i \in 1 .. 2 : i = 1 \/ i = 2
    BY SMT
  <2>4. \A i \in 1 .. Len(h) : h[i] = <<a, b>>[i]
    BY <1>5, <2>1, <2>2, <2>3
  <2> HIDE DEF h
  <2> QED BY <1>5, <2>2, <2>4, SeqEqual DEF Bytes
<1>7. Length(256 * a + b) = <<a, b>> /\ 256 * a + b \in Nat
  BY <1>4, LengthBytes
<1> HIDE DEF a, b, r, h
<1>8. split_u16_prefix(s).len = 256 * a + b /\ split_u16_prefix(s).rest = r
  BY SMT, <1>2
<1> QED BY <1>2, <1>5, <1>6, <1>7, <1>8

Associates(s, t, u) == (s \o t) \o u = s \o (t \o u)

\* Joining three sequences, from either end.
LEMMA JoinThree ==
  ASSUME NEW S, NEW s \in Seq(S), NEW t \in Seq(S), NEW u \in Seq(S)
  PROVE  Associates(s, t, u)
BY SMT, ConcatAssociative DEF Associates

\* The encoding of a public key, a message and a signature, piece by piece.
Encoded(input, a, m, s) == input = Length(Len(a)) \o (a \o (Length(Len(m)) \o (m \o s)))

\* It is the encoding that is meant.
LEMMA EncodingIs ==
  ASSUME NEW a \in Bytes, NEW m \in Bytes, NEW s \in Bytes
  PROVE  Encoded(Prefixed(a) \o Prefixed(m) \o s, a, m, s)
<1> DEFINE x == Length(Len(a))
           y == Length(Len(m))
<1>1. a \in Seq(Nat) /\ m \in Seq(Nat) /\ s \in Seq(Nat)
  <2>1. Byte \subseteq Nat
    BY SMT DEF Byte
  <2> QED BY <2>1, SeqMonotonic DEF Bytes
<1>2. x \in Seq(Nat) /\ y \in Seq(Nat)
  BY <1>1, LenProperties, LengthBytes
<1>3. Prefixed(a) = x \o a /\ Prefixed(m) = y \o m
  BY DEF Prefixed, Length
<1> HIDE DEF x, y
<1>4. x \o a \in Seq(Nat) /\ y \o m \in Seq(Nat) /\ m \o s \in Seq(Nat)
  BY <1>1, <1>2, ConcatProperties
<1>5. y \o (m \o s) \in Seq(Nat)
  BY <1>2, <1>4, ConcatProperties
<1>6. /\ Associates(y, m, s) /\ Associates(x \o a, y \o m, s)
      /\ Associates(x, a, y \o (m \o s))
  BY <1>1, <1>2, <1>4, <1>5, JoinThree
<1>7. ((x \o a) \o (y \o m)) \o s = x \o (a \o (y \o (m \o s)))
  BY <1>6 DEF Associates
<1> QED BY <1>3, <1>7 DEF x, y, Encoded

\* What the parser returns, it found encoded in the input.
LEMMA ParsedIsEncoded ==
  ASSUME NEW to, NEW input \in Bytes, parse_verify_input(to, input) # Nothing
  PROVE  \E a, m, s \in Bytes :
           /\ parse_verify_input(to, input) = <<a, m, s>>
           /\ Encoded(input, a, m, s)
           /\ Len(a) = PublicKeyLen[to] /\ SignatureFits(to, Len(s))
<1> DEFINE key == split_u16_prefix(input)
           msg == MessagePrefix(key)
           a == SubSeq(key.rest, 1, key.len)
           after == SubSeq(key.rest, key.len + 1, Len(key.rest))
           m == SubSeq(msg.rest, 1, msg.len)
           s == SubSeq(msg.rest, msg.len + 1, Len(msg.rest))
<1>1. /\ msg # Nothing /\ key.len = PublicKeyLen[to] /\ ~(msg.len > Len(msg.rest))
      /\ SignatureFits(to, Len(msg.rest) - msg.len)
      /\ parse_verify_input(to, input) = <<a, m, s>>
  BY DEF parse_verify_input
<1>2. key # Nothing /\ ~(key.len > Len(key.rest)) /\ msg = split_u16_prefix(after)
  BY <1>1 DEF MessagePrefix
<1>3. key.len \in Nat /\ key.rest \in Bytes /\ input = Length(key.len) \o key.rest
  BY <1>2, SplitIs
<1> HIDE DEF key
<1>4. key.len \in 0 .. Len(key.rest)
  BY SMT, <1>2, <1>3, LenProperties DEF Bytes
<1>5. a \in Bytes /\ after \in Bytes /\ Len(a) = key.len /\ a \o after = key.rest
  BY <1>3, <1>4, CutJoin DEF Bytes
<1> HIDE DEF a, after, msg
<1>6. msg.len \in Nat /\ msg.rest \in Bytes /\ after = Length(msg.len) \o msg.rest
  BY <1>1, <1>2, <1>5, SplitIs
<1>7. msg.len \in 0 .. Len(msg.rest)
  BY SMT, <1>1, <1>6, LenProperties DEF Bytes
<1>8. /\ m \in Bytes /\ s \in Bytes /\ Len(m) = msg.len /\ m \o s = msg.rest
      /\ Len(s) = Len(msg.rest) - msg.len
  BY <1>6, <1>7, CutJoin DEF Bytes
<1> HIDE DEF m, s
<1> QED BY <1>1, <1>3, <1>5, <1>6, <1>8 DEF Encoded

\* What is encoded, the parser returns.
LEMMA EncodedIsParsed ==
  ASSUME NEW to, NEW a \in Bytes, NEW m \in Bytes, NEW s \in Bytes, NEW input \in Bytes,
         Encoded(input, a, m, s),
         Len(a) = PublicKeyLen[to], SignatureFits(to, Len(s))
  PROVE  parse_verify_input(to, input) = <<a, m, s>>
<1> DEFINE key == split_u16_prefix(input)
           msg == MessagePrefix(key)
           ms == m \o s
           after == Length(Len(m)) \o ms
           rest == a \o after
<1>1. a \in Seq(Nat) /\ m \in Seq(Nat) /\ s \in Seq(Nat)
  <2>1. Byte \subseteq Nat
    BY SMT DEF Byte
  <2> QED BY <2>1, SeqMonotonic DEF Bytes
<1>2. Len(a) \in Nat /\ Len(m) \in Nat /\ Len(s) \in Nat
  BY <1>1, LenProperties
<1>3. /\ ms \in Seq(Nat) /\ Len(ms) = Len(m) + Len(s)
      /\ SubSeq(ms, 1, Len(m)) = m /\ SubSeq(ms, Len(m) + 1, Len(ms)) = s
  <2>1. SubSeq(m \o s, 1, Len(m)) = m /\ SubSeq(m \o s, Len(m) + 1, Len(m \o s)) = s
    BY <1>1, CutConcat
  <2>2. m \o s \in Seq(Nat) /\ Len(m \o s) = Len(m) + Len(s)
    BY SMT, <1>1, ConcatProperties
  <2> QED BY <2>1, <2>2
<1> HIDE DEF ms
<1>4. after \in Seq(Nat)
  BY <1>2, <1>3, LengthBytes, ConcatProperties
<1>5. split_u16_prefix(after) = [len |-> Len(m), rest |-> ms]
  BY <1>2, <1>3, SplitOff
<1> HIDE DEF after
<1>6. /\ rest \in Seq(Nat) /\ Len(rest) = Len(a) + Len(after) /\ Len(after) \in Nat
      /\ SubSeq(rest, 1, Len(a)) = a /\ SubSeq(rest, Len(a) + 1, Len(rest)) = after
  <2>1. /\ SubSeq(a \o after, 1, Len(a)) = a
        /\ SubSeq(a \o after, Len(a) + 1, Len(a \o after)) = after
    BY <1>1, <1>4, CutConcat
  <2>2. /\ a \o after \in Seq(Nat) /\ Len(a \o after) = Len(a) + Len(after)
        /\ Len(after) \in Nat
    BY <1>1, <1>4, ConcatProperties, LenProperties
  <2> QED BY <2>1, <2>2
<1>7. input = Length(Len(a)) \o rest
  BY DEF ms, after, Encoded
<1> HIDE DEF rest
<1>8. key = [len |-> Len(a), rest |-> rest]
  BY <1>2, <1>6, <1>7, SplitOff
<1>9. key # Nothing
  <2>1. Len(input) \in Nat /\ ~(Len(input) < 2)
    <3>1. Length(Len(a)) \in Seq(Nat) /\ Len(Length(Len(a))) = 2
      BY <1>2, LengthBytes
    <3>2. Len(input) = 2 + Len(rest) /\ Len(rest) \in Nat
      <4> DEFINE x == Length(Len(a))
      <4> HIDE DEF x
      <4>1. x \in Seq(Nat) /\ rest \in Seq(Nat) /\ Len(x) = 2 /\ input = x \o rest
        BY <1>6, <1>7, <3>1 DEF x
      <4>2. Len(x \o rest) = Len(x) + Len(rest) /\ Len(rest) \in Nat
        BY <4>1, ConcatProperties, LenProperties
      <4> QED BY <4>1, <4>2
    <3> QED BY SMT, <3>2
  <2>2. key.rest = SubSeq(input, 3, Len(input))
    BY SMT, <2>1 DEF split_u16_prefix
  <2>3. SubSeq(input, 3, Len(input)) \in Bytes
    <3>1. 2 \in 0 .. Len(input) /\ 2 + 1 = 3
      BY SMT, <2>1
    <3> QED BY <3>1, CutJoin DEF Bytes
  <2>4. key.rest = rest
    BY SMT, <1>8
  <2>5. key \in [len: Nat, rest: Bytes]
    <3>1. Len(a) \in Nat /\ rest \in Bytes /\ key = [len |-> Len(a), rest |-> rest]
      BY <1>2, <1>8, <2>2, <2>3, <2>4
    <3> HIDE DEF key
    <3> QED BY SMT, <3>1
  <2> QED BY <2>5, PrecompilesAssumption
<1> HIDE DEF key
<1>10. key.len = Len(a) /\ key.rest = rest
  BY SMT, <1>8
<1>11. ~(Len(a) > Len(rest)) /\ ~(Len(m) > Len(ms)) /\ Len(ms) - Len(m) = Len(s)
  BY SMT, <1>2, <1>3, <1>6
<1>12. msg = [len |-> Len(m), rest |-> ms]
  BY <1>5, <1>6, <1>9, <1>10, <1>11 DEF MessagePrefix
<1>13. msg # Nothing
  <2>1. ms \in Bytes
    BY ConcatProperties DEF Bytes, ms
  <2>2. msg \in [len: Nat, rest: Bytes]
    BY SMT, <1>2, <1>12, <2>1
  <2> QED BY <2>2, PrecompilesAssumption
<1> HIDE DEF msg
<1>14. msg.len = Len(m) /\ msg.rest = ms
  BY SMT, <1>12
<1> QED BY <1>3, <1>6, <1>10, <1>11, <1>13, <1>14 DEF parse_verify_input, key, msg

\* A precompile answers 1 exactly to the encodings of what verifies.
LEMMA VerifyExact ==
  ASSUME NEW to \in {Falcon512, Dilithium3}, NEW input \in Bytes
  PROVE  parse_verify_input(to, input) \in Genuine[to] <=>
           \E g \in Genuine[to] :
              /\ input = Prefixed(g[1]) \o Prefixed(g[2]) \o g[3]
              /\ Len(g[1]) = PublicKeyLen[to] /\ g[3] # <<>>
              /\ to = Dilithium3 => Len(g[3]) = SignatureLen
<1>1. Genuine[to] \subseteq Bytes \X Bytes \X Bytes /\ Nothing \notin Genuine[to]
  BY PrecompilesAssumption
<1>2. \A s \in Bytes : Len(s) > 0 <=> s # <<>>
  <2> TAKE s \in Bytes
  <2>1. Len(s) \in Nat /\ (s # <<>> => Len(s) \in Nat \ {0}) /\ Len(<<>>) = 0
    BY LenProperties, EmptySeq DEF Bytes
  <2> QED BY SMT, <2>1
<1>3. ASSUME parse_verify_input(to, input) \in Genuine[to]
      PROVE  \E g \in Genuine[to] :
              /\ input = Prefixed(g[1]) \o Prefixed(g[2]) \o g[3]
              /\ Len(g[1]) = PublicKeyLen[to] /\ g[3] # <<>>
              /\ to = Dilithium3 => Len(g[3]) = SignatureLen
  <2>1. PICK a, m, s \in Bytes :
          /\ parse_verify_input(to, input) = <<a, m, s>>
          /\ Encoded(input, a, m, s)
          /\ Len(a) = PublicKeyLen[to] /\ SignatureFits(to, Len(s))
    BY <1>1, <1>3, ParsedIsEncoded
  <2>2. input = Prefixed(a) \o Prefixed(m) \o s
    BY <2>1, EncodingIs DEF Encoded
  <2>3. s # <<>> /\ (to = Dilithium3 => Len(s) = SignatureLen)
    BY <1>2, <2>1 DEF SignatureFits
  <2> DEFINE g == <<a, m, s>>
  <2>4. g[1] = a /\ g[2] = m /\ g[3] = s /\ g \in Genuine[to]
    BY SMT, <1>3, <2>1
  <2> HIDE DEF g
  <2> QED BY <2>1, <2>2, <2>3, <2>4
<1>4. ASSUME NEW g \in Genuine[to],
             input = Prefixed(g[1]) \o Prefixed(g[2]) \o g[3],
             Len(g[1]) = PublicKeyLen[to], g[3] # <<>>,
             to = Dilithium3 => Len(g[3]) = SignatureLen
      PROVE  parse_verify_input(to, input) \in Genuine[to]
  <2>1. \E a, m, s \in Bytes : g = <<a, m, s>> /\ g[1] = a /\ g[2] = m /\ g[3] = s
    BY SMT, <1>1
  <2>2. PICK a, m, s \in Bytes : g = <<a, m, s>> /\ g[1] = a /\ g[2] = m /\ g[3] = s
    BY <2>1
  <2>3. input = Prefixed(a) \o Prefixed(m) \o s
    BY <1>4, <2>2
  <2>4. Encoded(input, a, m, s)
    BY <2>3, EncodingIs
  <2>5. Len(a) = PublicKeyLen[to] /\ SignatureFits(to, Len(s))
    BY <1>2, <1>4, <2>2 DEF SignatureFits
  <2>6. parse_verify_input(to, input) = <<a, m, s>>
    BY SMT, <2>4, <2>5, EncodedIsParsed
  <2> QED BY <2>2, <2>6
<1> QED BY <1>3, <1>4

-----------------------------------------------------------------------------
(* The inductive invariant. *)

\* The fee of the block after the head `at`: the block's, or what is pending.
FeeAfter(c, p, at) == IF at + 1 \in DOMAIN c THEN c[at + 1].fee ELSE p

\* What a filter selects in a chain, and the right answer to it.
SelectedIn(c, f, at) ==
  UNION {{<<n, i>> : i \in {i \in DOMAIN c[n].logs : Meant(f, c[n].logs[i])}} :
           n \in {n \in 1 .. at : InRange(f, at, n)}}

RightIn(c, f, at, answer) ==
  /\ \A k \in DOMAIN answer : answer[k].block \in 1 .. at
  /\ Ordered(f, at) =>
       /\ {<<answer[k].block, answer[k].index>> : k \in DOMAIN answer} = SelectedIn(c, f, at)
       /\ \A j, k \in DOMAIN answer : j < k => Before(answer[j], answer[k])

\* What an answer goes on satisfying, in the chain c and with p pending.
Kept(c, p, item, at, answer) ==
  /\ item.method = "eth_blockNumber" => answer = at
  /\ item.method = "eth_getLogs" =>
       (answer # Error => RightIn(c, item.filter, at, answer))
  /\ item.method = "eth_feeHistory" => Last(answer.baseFeePerGas) = FeeAfter(c, p, at)
  /\ item.method = "eth_call" => answer = run_pqc_verify(item.to, item.input, item.gas)

Answered(c, p, e) ==
  /\ e.at \in 0 .. Len(c)
  /\ e.item \in ItemType \cup {Absent}
  /\ e.item # Absent => Kept(c, p, e.item, e.at, e.answer)

\* The answers of a batch each keep their promise, and later ones saw a head
\* that is not lower.
AnswersKept ==
  /\ \E S : out \in Seq(S)
  /\ \A n \in DOMAIN out : Answered(chain, pending, out[n])
  /\ \A m, n \in DOMAIN out : m <= n => out[m].at <= out[n].at

QueriesInv ==
  /\ chain \in ChainType /\ Len(chain) <= MaxBlocks
  /\ pending \in Fees
  /\ todo \in Seq(ItemType)
  /\ AnswersKept

\* The last fee of a fee history is the pending one.
LEMMA HistoryEnds ==
  ASSUME Len(chain) \in Nat, NEW count \in 1 .. 32
  PROVE  Last(eth_feeHistory(count).baseFeePerGas) = pending
<1> DEFINE oldest == IF block_number < count - 1 THEN 0 ELSE block_number - (count - 1)
           blocks == block_number - oldest + 1
           FeeOf(n) == IF n \in DOMAIN chain THEN chain[n].fee ELSE pending
           s == [k \in 1 .. blocks |-> FeeOf(oldest + k - 1)]
<1>1. blocks \in Nat
  BY SMT DEF block_number
<1>2. eth_feeHistory(count).baseFeePerGas = Append(s, pending)
  BY DEF eth_feeHistory, NextFee
<1> HIDE DEF blocks
<1> DEFINE S == {FeeOf(oldest + k - 1) : k \in 1 .. blocks} \cup {pending}
<1>3. s \in [1 .. blocks -> S] /\ pending \in S
  OBVIOUS
<1> HIDE DEF s, S
<1>4. s \in Seq(S)
  BY SMT, <1>1, <1>3
<1>5. Len(Append(s, pending)) = Len(s) + 1 /\ Append(s, pending)[Len(s) + 1] = pending
  BY SMT, <1>3, <1>4, AppendProperties
<1> QED BY <1>2, <1>5 DEF Last

\* An answer keeps its promise when it is given.
LEMMA AnswerKept ==
  ASSUME chain \in ChainType, NEW item \in ItemType
  PROVE  Kept(chain, pending, item, Len(chain), dispatch(item))
<1>1. Len(chain) \in Nat /\ DOMAIN chain = 1 .. Len(chain)
  BY ChainFacts
<1>2. /\ item.method = "eth_getLogs" => item.filter \in FilterType
      /\ item.method = "eth_feeHistory" => item.count \in 1 .. 32
  <2> HIDE DEF FilterType
  <2> QED BY SMT DEF ItemType
<1>3. item.method = "eth_blockNumber" => dispatch(item) = Len(chain)
  BY SMT DEF dispatch, block_number
<1>4. item.method = "eth_getLogs" => dispatch(item) = eth_getLogs(item.filter)
  BY SMT DEF dispatch
<1>5. item.method = "eth_feeHistory" => dispatch(item) = eth_feeHistory(item.count)
  BY SMT DEF dispatch
<1>6. item.method = "eth_call" =>
        dispatch(item) = run_pqc_verify(item.to, item.input, item.gas)
  BY SMT DEF dispatch
<1>7. FeeAfter(chain, pending, Len(chain)) = pending
  BY SMT, <1>1 DEF FeeAfter
<1>8. item.method = "eth_getLogs" =>
        (dispatch(item) # Error => RightIn(chain, item.filter, Len(chain), dispatch(item)))
  <2>1. \A f, at, answer : LogsRight(f, at, answer) => RightIn(chain, f, at, answer)
    BY DEF LogsRight, RightIn, Selected, SelectedIn
  <2> QED BY <1>2, <1>4, <2>1, GetLogsRight
<1>9. item.method = "eth_feeHistory" =>
        Last(dispatch(item).baseFeePerGas) = FeeAfter(chain, pending, Len(chain))
  BY <1>1, <1>2, <1>5, <1>7, HistoryEnds
<1> QED BY <1>3, <1>6, <1>8, <1>9 DEF Kept

\* What a filter selects up to a block depends on the blocks up to it.
LEMMA SelectedSame ==
  ASSUME NEW c, NEW d, NEW f, NEW at, \A n \in 1 .. at : c[n] = d[n]
  PROVE  SelectedIn(c, f, at) = SelectedIn(d, f, at)
<1> DEFINE C(n) == {<<n, i>> : i \in {i \in DOMAIN c[n].logs : Meant(f, c[n].logs[i])}}
           D(n) == {<<n, i>> : i \in {i \in DOMAIN d[n].logs : Meant(f, d[n].logs[i])}}
           R == {n \in 1 .. at : InRange(f, at, n)}
<1>1. \A n \in R : C(n) = D(n)
  OBVIOUS
<1>2. SelectedIn(c, f, at) = UNION {C(n) : n \in R} /\ SelectedIn(d, f, at) = UNION {D(n) : n \in R}
  BY DEF SelectedIn
<1> HIDE DEF C, D, R
<1>3. UNION {C(n) : n \in R} = UNION {D(n) : n \in R}
  BY <1>1
<1> QED BY <1>2, <1>3

\* Sealing a block breaks no promise.
LEMMA SealKeeps ==
  ASSUME QueriesInv, Seal, NEW e, Answered(chain, pending, e)
  PROVE  Answered(chain', pending', e)
<1>1. Len(chain) \in Nat /\ DOMAIN chain = 1 .. Len(chain) /\ chain \in ChainType
  BY ChainFacts DEF QueriesInv
<1>2. PICK logs \in BlockLogs : chain' = Append(chain, [fee |-> pending, logs |-> logs])
  BY DEF Seal
<1> DEFINE b == [fee |-> pending, logs |-> logs]
<1>3. b \in [fee : Fees, logs : BlockLogs] /\ b.fee = pending
  BY SMT DEF QueriesInv
<1> HIDE DEF b
<1>4. /\ Len(chain') = Len(chain) + 1 /\ DOMAIN chain' = 1 .. Len(chain) + 1
      /\ \A n \in 1 .. Len(chain) : chain'[n] = chain[n]
      /\ chain'[Len(chain) + 1] = b
  <2>1. chain' = Append(chain, b)
    BY <1>2 DEF b
  <2>2. /\ Append(chain, b) \in ChainType /\ Len(Append(chain, b)) = Len(chain) + 1
        /\ \A n \in 1 .. Len(chain) : Append(chain, b)[n] = chain[n]
        /\ Append(chain, b)[Len(chain) + 1] = b
    BY SMT, <1>1, <1>3, AppendProperties DEF ChainType
  <2>3. DOMAIN chain' = 1 .. Len(chain')
    BY <2>1, <2>2, LenProperties DEF ChainType
  <2> QED BY <2>1, <2>2, <2>3
<1>5. e.at \in 0 .. Len(chain) /\ e.at \in 0 .. Len(chain') /\ \A n \in 1 .. e.at : chain'[n] = chain[n]
  BY SMT, <1>1, <1>4 DEF Answered
<1>6. FeeAfter(chain', pending', e.at) = FeeAfter(chain, pending, e.at)
  <2>1. CASE e.at = Len(chain)
    <3>1. e.at + 1 \in DOMAIN chain' /\ ~(e.at + 1 \in DOMAIN chain)
      BY SMT, <1>1, <1>4, <2>1
    <3> QED BY <1>3, <1>4, <2>1, <3>1 DEF FeeAfter
  <2>2. CASE e.at # Len(chain)
    <3>1. e.at + 1 \in DOMAIN chain' /\ e.at + 1 \in 1 .. Len(chain)
      BY SMT, <1>1, <1>4, <1>5, <2>2
    <3> QED BY <1>1, <1>4, <3>1 DEF FeeAfter
  <2> QED BY <2>1, <2>2
<1>7. \A f, answer : RightIn(chain, f, e.at, answer) => RightIn(chain', f, e.at, answer)
  <2> TAKE f, answer
  <2>1. SelectedIn(chain', f, e.at) = SelectedIn(chain, f, e.at)
    BY SMT, <1>5, SelectedSame
  <2> QED BY <2>1 DEF RightIn
<1>8. e.item # Absent => Kept(chain', pending', e.item, e.at, e.answer)
  BY <1>6, <1>7 DEF Answered, Kept
<1> QED BY <1>5, <1>8 DEF Answered

\* Moving the first element of one sequence to the end of another leaves what
\* the two make together.
LEMMA MoveHead ==
  ASSUME NEW S, NEW x \in Seq(S), NEW y \in Seq(S), y # <<>>
  PROVE  Append(x, Head(y)) \o Tail(y) = x \o y
<1> DEFINE h == Head(y)
           t == Tail(y)
           a == Append(x, h)
           l == a \o t
           r == x \o y
<1>1. Len(x) \in Nat /\ Len(y) \in Nat /\ Len(y) # 0
  BY SMT, LenProperties, EmptySeq
<1>2. h \in S /\ t \in Seq(S) /\ Len(t) = Len(y) - 1 /\ h = y[1]
      /\ \A i \in 1 .. Len(t) : t[i] = y[i + 1]
  BY SMT, HeadTailProperties
<1> HIDE DEF h, t
<1>3. /\ a \in Seq(S) /\ Len(a) = Len(x) + 1 /\ a[Len(x) + 1] = h
      /\ \A i \in 1 .. Len(x) : a[i] = x[i]
  BY SMT, <1>2, AppendProperties
<1> HIDE DEF a
<1>4. /\ l \in Seq(S) /\ Len(l) = Len(a) + Len(t)
      /\ \A i \in 1 .. Len(a) + Len(t) : l[i] = IF i <= Len(a) THEN a[i] ELSE t[i - Len(a)]
  BY <1>2, <1>3, ConcatProperties
<1>5. /\ r \in Seq(S) /\ Len(r) = Len(x) + Len(y)
      /\ \A i \in 1 .. Len(x) + Len(y) : r[i] = IF i <= Len(x) THEN x[i] ELSE y[i - Len(x)]
  BY SMT, ConcatProperties
<1> HIDE DEF l, r
<1>6. Len(l) = Len(r)
  BY SMT, <1>1, <1>2, <1>3, <1>4, <1>5
<1>7. ASSUME NEW i \in 1 .. Len(l) PROVE l[i] = r[i]
  <2>1. i \in Nat /\ i \in 1 .. Len(a) + Len(t) /\ i \in 1 .. Len(x) + Len(y)
    BY SMT, <1>1, <1>4, <1>5, <1>6
  <2>2. CASE i <= Len(x)
    BY SMT, <1>1, <1>3, <1>4, <1>5, <2>1, <2>2
  <2>3. CASE i = Len(x) + 1
    <3>1. i <= Len(a) /\ ~(i <= Len(x)) /\ i - Len(x) = 1
      BY SMT, <1>1, <1>3, <2>3
    <3> QED BY <1>2, <1>3, <1>4, <1>5, <2>1, <2>3, <3>1
  <2>4. CASE i > Len(x) + 1
    <3> DEFINE k == i - Len(a)
    <3>1. ~(i <= Len(a)) /\ ~(i <= Len(x)) /\ k \in 1 .. Len(t) /\ i - Len(x) = k + 1
      BY SMT, <1>1, <1>2, <1>3, <2>1, <2>4
    <3>2. l[i] = t[k] /\ r[i] = y[k + 1]
      BY <1>4, <1>5, <2>1, <3>1
    <3> HIDE DEF k
    <3> QED BY <1>2, <3>1, <3>2
  <2> QED BY SMT, <1>1, <2>1, <2>2, <2>3, <2>4
<1>8. l = r
  BY SMT, <1>4, <1>5, <1>6, <1>7, SeqEqual
<1> QED BY <1>8 DEF l, r, a, h, t

\* The answers given and the items to come are a batch that was received.
Items == [n \in DOMAIN out |-> out[n].item]

Refusal == <<[item |-> Absent, at |-> 0, answer |-> Error]>>

Batched ==
  \/ todo = <<>> /\ out = <<>>
  \/ todo = <<>> /\ out = Refusal
  \/ Items \o todo \in Batches

\* A batch that arrives.
LEMMA ReceiveKeeps ==
  ASSUME QueriesInv, Batched, Receive
  PROVE  QueriesInv' /\ Batched'
<1>1. PICK b \in Batches : /\ todo' = b
                           /\ out' = IF b = <<>> THEN Refusal ELSE <<>>
  BY DEF Receive, Refusal
<1>2. chain' = chain /\ pending' = pending
  BY DEF Receive
<1>3. b \in Seq(ItemType)
  BY QueriesAssumption
<1>4. CASE b = <<>>
  <2> DEFINE e == [item |-> Absent, at |-> 0, answer |-> Error]
  <2>1. out' = <<e>>
    BY <1>1, <1>4 DEF Refusal
  <2>2. e.item = Absent /\ e.at = 0
    OBVIOUS
  <2>3. Len(chain) \in Nat
    BY ChainFacts DEF QueriesInv
  <2>4. 0 \in 0 .. Len(chain) /\ 0 <= 0
    BY SMT, <2>3
  <2>5. Answered(chain', pending', e)
    BY <1>2, <2>2, <2>4 DEF Answered
  <2> HIDE DEF e
  <2>6. out' \in Seq({e}) /\ DOMAIN out' = {1} /\ out'[1] = e
    BY SMT, <2>1
  <2>7. AnswersKept'
    BY <2>2, <2>4, <2>5, <2>6 DEF AnswersKept
  <2> QED BY <1>1, <1>2, <1>3, <1>4, <2>7 DEF QueriesInv, Batched
<1>5. CASE b # <<>>
  <2>1. out' = <<>>
    BY <1>1, <1>5
  <2>2. out' \in Seq({}) /\ DOMAIN out' = {}
    BY SMT, <2>1
  <2>3. AnswersKept'
    BY <2>2 DEF AnswersKept
  <2>4. Items' = <<>>
    BY SMT, <2>2 DEF Items
  <2>5. <<>> \o b = b
    BY SMT, <1>3, ConcatEmptySeq
  <2>6. Batched'
    BY <1>1, <2>4, <2>5 DEF Batched
  <2> QED BY <1>1, <1>2, <1>3, <2>3, <2>6 DEF QueriesInv
<1> QED BY <1>4, <1>5

\* An item that is dispatched.
LEMMA ItemKeeps ==
  ASSUME QueriesInv, Batched, Item
  PROVE  QueriesInv' /\ Batched'
<1> DEFINE h == Head(todo)
           e == [item |-> h, at |-> Len(chain), answer |-> dispatch(h)]
<1>1. todo # <<>> /\ out' = Append(out, e) /\ todo' = Tail(todo)
      /\ chain' = chain /\ pending' = pending
  BY DEF Item
<1>2. todo \in Seq(ItemType) /\ chain \in ChainType
  BY DEF QueriesInv
<1>3. h \in ItemType /\ Tail(todo) \in Seq(ItemType)
  BY SMT, <1>1, <1>2, HeadTailProperties
<1>4. h # Absent /\ Kept(chain, pending, h, Len(chain), dispatch(h))
  BY <1>2, <1>3, AnswerKept, QueriesAssumption
<1>5. e.item = h /\ e.at = Len(chain) /\ e.answer = dispatch(h)
  OBVIOUS
<1>6. Len(chain) \in Nat /\ Len(chain) \in 0 .. Len(chain)
  <2>1. Len(chain) \in Nat
    BY <1>2, ChainFacts
  <2> QED BY SMT, <2>1
<1> HIDE DEF e
<1>7. Answered(chain, pending, e)
  BY <1>3, <1>4, <1>5, <1>6 DEF Answered
<1>8. PICK S : out \in Seq(S)
  BY DEF QueriesInv, AnswersKept
<1> DEFINE T == S \cup {e}
<1>9. out \in Seq(T) /\ e \in T
  <2>1. S \subseteq T /\ e \in T
    OBVIOUS
  <2> QED BY <1>8, <2>1, SeqMonotonic
<1> HIDE DEF T
<1>10. /\ out' \in Seq(T) /\ Len(out') = Len(out) + 1
       /\ \A i \in 1 .. Len(out) : out'[i] = out[i]
       /\ out'[Len(out) + 1] = e
  <2> DEFINE more == Append(out, e)
  <2>1. /\ more \in Seq(T) /\ Len(more) = Len(out) + 1
        /\ \A i \in 1 .. Len(out) : more[i] = out[i]
        /\ more[Len(out) + 1] = e
    BY SMT, <1>9, AppendProperties
  <2> HIDE DEF more
  <2>2. out' = more
    BY <1>1 DEF more
  <2> QED BY <2>1, <2>2
<1>11. Len(out) \in Nat /\ DOMAIN out = 1 .. Len(out) /\ DOMAIN out' = 1 .. Len(out')
  BY <1>9, <1>10, LenProperties
<1> DEFINE z == Len(out) + 1
<1>12. \A n \in DOMAIN out' : n = z \/ n \in DOMAIN out
  BY SMT, <1>10, <1>11
<1>13. z \in DOMAIN out' /\ ~(z \in DOMAIN out) /\ \A n \in DOMAIN out : ~(z <= n)
  BY SMT, <1>10, <1>11
<1> HIDE DEF z
<1>14. out'[z] = e /\ \A n \in DOMAIN out : out'[n] = out[n]
  BY <1>10, <1>11 DEF z
<1>15. \A n \in DOMAIN out : Answered(chain, pending, out[n]) /\ out[n].at <= Len(chain)
  <2>1. \A n \in DOMAIN out : Answered(chain, pending, out[n])
    BY DEF QueriesInv, AnswersKept
  <2>2. \A x \in 0 .. Len(chain) : x <= Len(chain)
    BY SMT, <1>6
  <2> QED BY <2>1, <2>2 DEF Answered
<1>16. AnswersKept'
  <2>1. \A n \in DOMAIN out' : Answered(chain', pending', out'[n])
    BY <1>1, <1>7, <1>12, <1>14, <1>15
  <2>2. ASSUME NEW m \in DOMAIN out', NEW n \in DOMAIN out', m <= n
        PROVE  out'[m].at <= out'[n].at
    <3>1. CASE n \in DOMAIN out
      <4>1. m \in DOMAIN out
        BY <1>12, <1>13, <2>2, <3>1
      <4> QED BY <1>14, <2>2, <3>1, <4>1 DEF QueriesInv, AnswersKept
    <3>2. CASE n = z
      <4>1. out'[n].at = Len(chain) /\ Len(chain) <= Len(chain)
        <5>1. Len(chain) <= Len(chain)
          BY SMT, <1>6
        <5> QED BY <1>5, <1>14, <3>2, <5>1
      <4>2. CASE m = z
        BY <3>2, <4>1, <4>2
      <4>3. CASE m \in DOMAIN out
        BY <1>14, <1>15, <4>1, <4>3
      <4> QED BY <1>12, <4>2, <4>3
    <3> QED BY <1>12, <3>1, <3>2
  <2> QED BY <1>10, <2>1, <2>2 DEF AnswersKept
<1>17. Batched'
  <2> DEFINE A == ItemType \cup {Absent}
  <2>1. Items \o todo \in Batches
    BY <1>1 DEF Batched
  <2>2. Items \in Seq(A)
    <3>1. \A n \in 1 .. Len(out) : out[n].item \in A
      BY <1>11, <1>15 DEF Answered
    <3> HIDE DEF A
    <3>2. Items = [n \in 1 .. Len(out) |-> out[n].item]
      BY <1>11 DEF Items
    <3> QED BY SMT, <1>11, <3>1, <3>2
  <2>3. todo \in Seq(A) /\ h \in A
    BY <1>2, <1>3, SeqMonotonic
  <2> HIDE DEF A
  <2>4. Items' = Append(Items, h)
    <3> HIDE DEF h
    <3> DEFINE a == Append(Items, h)
    <3>1. /\ a \in Seq(A) /\ Len(a) = Len(Items) + 1
          /\ \A i \in 1 .. Len(Items) : a[i] = Items[i]
          /\ a[Len(Items) + 1] = h
      BY SMT, <2>2, <2>3, AppendProperties
    <3> HIDE DEF a
    <3>2. Len(Items) = Len(out)
      BY SMT, <1>11, <2>2 DEF Items
    <3>3. DOMAIN a = DOMAIN out' /\ a = [n \in DOMAIN a |-> a[n]]
      <4>1. DOMAIN a = 1 .. Len(a) /\ a = [n \in DOMAIN a |-> a[n]]
        BY SMT, <3>1
      <4> QED BY <1>10, <1>11, <3>1, <3>2, <4>1
    <3>4. ASSUME NEW n \in DOMAIN out' PROVE out'[n].item = a[n]
      <4>1. CASE n = z
        BY <1>5, <1>14, <3>1, <3>2, <4>1 DEF z
      <4>2. CASE n \in DOMAIN out
        BY <1>11, <1>14, <3>1, <3>2, <4>2 DEF Items
      <4> QED BY <1>12, <4>1, <4>2
    <3>5. Items' = a
      BY <3>3, <3>4 DEF Items
    <3> QED BY <3>5 DEF a
  <2>5. Append(Items, h) \o Tail(todo) = Items \o todo
    BY SMT, <1>1, <2>2, <2>3, MoveHead
  <2> QED BY <1>1, <2>1, <2>4, <2>5 DEF Batched
<1> QED BY <1>1, <1>3, <1>16, <1>17 DEF QueriesInv

\* Every step preserves the invariant.
LEMMA QueriesStep ==
  ASSUME QueriesInv, Batched, [Next]_vars
  PROVE  QueriesInv' /\ Batched'
<1>1. CASE Receive
  BY <1>1, ReceiveKeeps
<1>2. CASE Item
  BY <1>2, ItemKeeps
<1>3. CASE Respond
  <2>1. todo' = <<>> /\ out' = <<>> /\ chain' = chain /\ pending' = pending /\ todo' = todo
    BY <1>3 DEF Respond
  <2>2. out' \in Seq({}) /\ DOMAIN out' = {}
    BY SMT, <2>1
  <2>3. AnswersKept'
    BY <2>2 DEF AnswersKept
  <2> QED BY <2>1, <2>3 DEF QueriesInv, Batched
<1>4. CASE Seal
  <2>1. Len(chain) < MaxBlocks /\ todo' = todo /\ out' = out /\ pending' \in Fees
    BY <1>4 DEF Seal
  <2>2. PICK logs \in BlockLogs : chain' = Append(chain, [fee |-> pending, logs |-> logs])
    BY <1>4 DEF Seal
  <2> DEFINE b == [fee |-> pending, logs |-> logs]
  <2>3. b \in [fee : Fees, logs : BlockLogs]
    BY SMT DEF QueriesInv
  <2>4. chain' = Append(chain, b) /\ chain \in ChainType
    BY <2>2 DEF QueriesInv
  <2> HIDE DEF b
  <2>5. chain' \in ChainType /\ Len(chain') = Len(chain) + 1
    BY SMT, <2>3, <2>4, AppendProperties DEF ChainType
  <2>6. Len(chain) \in Nat
    BY <2>4, ChainFacts
  <2>7. Len(chain') <= MaxBlocks
    BY SMT, <2>1, <2>5, <2>6, QueriesAssumption
  <2>8. \A n \in DOMAIN out : Answered(chain', pending', out[n])
    <3>1. \A e : Answered(chain, pending, e) => Answered(chain', pending', e)
      BY <1>4, SealKeeps
    <3> QED BY <3>1 DEF QueriesInv, AnswersKept
  <2>9. AnswersKept'
    BY <2>1, <2>8 DEF QueriesInv, AnswersKept
  <2>10. Batched'
    BY <2>1 DEF Batched, Items
  <2> QED BY <2>1, <2>5, <2>7, <2>9, <2>10 DEF QueriesInv
<1>5. CASE UNCHANGED vars
  <2>1. chain' = chain /\ pending' = pending /\ todo' = todo /\ out' = out
    BY <1>5 DEF vars
  <2> QED BY <2>1 DEF QueriesInv, AnswersKept, Batched, Items
<1> QED BY <1>1, <1>2, <1>3, <1>4, <1>5 DEF Next

\* The invariant holds in every reachable state.
LEMMA QueriesAlways == Spec => [](QueriesInv /\ Batched)
<1>1. Init => QueriesInv /\ Batched
  <2> SUFFICES ASSUME Init PROVE QueriesInv /\ Batched
    BY SMT
  <2>1. /\ chain \in ChainType /\ Len(chain) = 0 /\ pending \in Fees
        /\ todo \in Seq(ItemType) /\ out \in Seq({}) /\ DOMAIN out = {}
    <3> HIDE DEF ItemType
    <3> QED BY SMT DEF Init, ChainType
  <2>2. Len(chain) <= MaxBlocks
    BY SMT, <2>1, QueriesAssumption
  <2>3. AnswersKept
    BY <2>1 DEF AnswersKept
  <2> QED BY <2>1, <2>2, <2>3 DEF QueriesInv, Batched, Init
<1>2. QueriesInv /\ Batched /\ [Next]_vars => (QueriesInv /\ Batched)'
  BY QueriesStep
<1> QED BY <1>1, <1>2, PTL DEF Spec

\* What the invariant says of the answers to one method.
LEMMA AnswerFacts ==
  ASSUME QueriesInv, NEW method, NEW n \in Answers(method)
  PROVE  /\ n \in DOMAIN out /\ out[n].item \in ItemType /\ out[n].item.method = method
         /\ out[n].at \in 0 .. Len(chain)
         /\ Kept(chain, pending, out[n].item, out[n].at, out[n].answer)
BY DEF Answers, QueriesInv, AnswersKept, Answered

\* The server's state keeps its types, and the answers of a batch belong to its
\* items, in order.
THEOREM QueriesTypeCorrect == Spec => []TypeOK
<1>1. QueriesInv /\ Batched => TypeOK
  BY DEF QueriesInv, Batched, Items, Refusal, TypeOK, ChainType
<1> QED BY <1>1, QueriesAlways, PTL

\* eth_getLogs: on a range that is not reversed, exactly the logs the filter
\* selects, in chain order, also after later blocks.
THEOREM LogsAlwaysExact == Spec => []GetLogsExact
<1>1. ASSUME QueriesInv PROVE GetLogsExact
  <2> SUFFICES ASSUME NEW n \in Answers("eth_getLogs"), out[n].answer # Error,
                      Ordered(out[n].item.filter, out[n].at)
               PROVE  LET f == out[n].item.filter
                          answer == out[n].answer
                      IN  /\ {<<answer[k].block, answer[k].index>> : k \in DOMAIN answer}
                               = Selected(f, out[n].at)
                          /\ \A j, k \in DOMAIN answer :
                               j < k => \/ answer[j].block < answer[k].block
                                        \/ /\ answer[j].block = answer[k].block
                                           /\ answer[j].index < answer[k].index
    BY DEF GetLogsExact
  <2>1. RightIn(chain, out[n].item.filter, out[n].at, out[n].answer)
    BY <1>1, AnswerFacts DEF Kept
  <2> QED BY <2>1 DEF RightIn, Before, Selected, SelectedIn
<1> QED BY <1>1, QueriesAlways, PTL

\* eth_blockNumber after eth_getLogs in one batch: no log is from a block above
\* the head that is reported, although blocks are sealed between the items.
THEOREM HeadAlwaysCoversLogs == Spec => []HeadCoversLogs
<1>1. ASSUME QueriesInv PROVE HeadCoversLogs
  <2> SUFFICES ASSUME NEW n \in Answers("eth_getLogs"), NEW m \in Answers("eth_blockNumber"),
                      n < m, out[n].answer # Error, NEW k \in DOMAIN out[n].answer
               PROVE  out[n].answer[k].block <= out[m].answer
    BY DEF HeadCoversLogs
  <2>1. RightIn(chain, out[n].item.filter, out[n].at, out[n].answer)
    BY <1>1, AnswerFacts DEF Kept
  <2>2. out[n].answer[k].block \in 1 .. out[n].at
    BY <2>1 DEF RightIn
  <2>3. /\ out[m].answer = out[m].at /\ out[m].at \in 0 .. Len(chain)
        /\ n \in DOMAIN out /\ m \in DOMAIN out /\ out[n].at \in 0 .. Len(chain)
    BY <1>1, AnswerFacts DEF Kept
  <2>4. n <= m
    <3>1. n \in Nat /\ m \in Nat
      <4>1. \E S : out \in Seq(S)
        BY <1>1 DEF QueriesInv, AnswersKept
      <4> QED BY SMT, <2>3, <4>1
    <3> QED BY SMT, <3>1
  <2>5. out[n].at <= out[m].at
    BY <1>1, <2>3, <2>4 DEF QueriesInv, AnswersKept
  <2>6. Len(chain) \in Nat
    BY <1>1, ChainFacts DEF QueriesInv
  <2> QED BY SMT, <2>2, <2>3, <2>5, <2>6
<1> QED BY <1>1, QueriesAlways, PTL

\* eth_feeHistory: the last fee is the one the next block is sealed under.
THEOREM FeePromiseAlwaysKept == Spec => []FeePromiseKept
<1>1. ASSUME QueriesInv PROVE FeePromiseKept
  <2> SUFFICES ASSUME NEW n \in Answers("eth_feeHistory"), out[n].at + 1 \in DOMAIN chain
               PROVE  Last(out[n].answer.baseFeePerGas) = chain[out[n].at + 1].fee
    BY DEF FeePromiseKept
  <2>1. Last(out[n].answer.baseFeePerGas) = FeeAfter(chain, pending, out[n].at)
    BY <1>1, AnswerFacts DEF Kept
  <2> QED BY <2>1 DEF FeeAfter
<1> QED BY <1>1, QueriesAlways, PTL

\* run_pqc_verify: for every input and every gas limit the answer is 1 exactly
\* on the encoding of a public key, a message and a signature that verify.
THEOREM AlwaysVerifiesExactly == Spec => []VerifiesExactly
<1>1. ASSUME QueriesInv PROVE VerifiesExactly
  <2> SUFFICES ASSUME NEW n \in Answers("eth_call"),
                      out[n].item.to \in {Falcon512, Dilithium3}
               PROVE  LET call == out[n].item IN
                      out[n].answer =
                        IF call.gas < VerifyGas[call.to] THEN <<>>
                        ELSE IF \E g \in Genuine[call.to] :
                                  /\ call.input = Prefixed(g[1]) \o Prefixed(g[2]) \o g[3]
                                  /\ Len(g[1]) = PublicKeyLen[call.to] /\ g[3] # <<>>
                                  /\ call.to = Dilithium3 => Len(g[3]) = SignatureLen
                        THEN <<1>> ELSE <<0>>
    BY DEF VerifiesExactly
  <2> DEFINE call == out[n].item
             to == call.to
  <2>1. /\ call \in ItemType /\ call.method = "eth_call"
        /\ out[n].answer = run_pqc_verify(to, call.input, call.gas)
    BY <1>1, AnswerFacts DEF Kept
  <2>2. call.input \in Bytes /\ call.gas \in Nat
    <3> HIDE DEF call
    <3> QED BY SMT, <2>1 DEF ItemType
  <2>3. VerifyGas[to] > call.gas <=> call.gas < VerifyGas[to]
    <3>1. VerifyGas[to] \in Nat
      BY PrecompilesAssumption
    <3> QED BY SMT, <2>2, <3>1
  <2>4. parse_verify_input(to, call.input) \in Genuine[to] <=>
           \E g \in Genuine[to] :
              /\ call.input = Prefixed(g[1]) \o Prefixed(g[2]) \o g[3]
              /\ Len(g[1]) = PublicKeyLen[to] /\ g[3] # <<>>
              /\ to = Dilithium3 => Len(g[3]) = SignatureLen
    <3> HIDE DEF call, to
    <3>1. to \in {Falcon512, Dilithium3}
      BY DEF call, to
    <3> QED BY <2>2, <3>1, VerifyExact
  <2> QED BY <2>1, <2>3, <2>4 DEF run_pqc_verify
<1> QED BY <1>1, QueriesAlways, PTL
=============================================================================
