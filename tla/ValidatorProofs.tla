--------------------------- MODULE ValidatorProofs ---------------------------
(***************************************************************************)
(* What the execution task of a validator promises, for every committee,   *)
(* every set of payloads and every sequence of sub-DAGs: between two        *)
(* commits, with every number of crashes, failed writes and resets; and     *)
(* across the validators, without such faults, where they are replicas of   *)
(* one log, and none of them loses a payload before its queue is full.      *)
(***************************************************************************)
EXTENDS Validator, TLAPS, WellFoundedInduction, SequenceTheorems

USE Zenon

(* The first half of the inductive invariant: types, the cap of the queue,  *)
(* and the places in the commit sequence.                                   *)

\* The least-number principle, for sets.
LEMMA LeastNumber ==
  ASSUME NEW S \in SUBSET Nat, S # {}
  PROVE  \E m \in S : \A k \in S : m <= k
<1> DEFINE R1 == {ss \in Nat \X Nat : ss[1] < ss[2]}
<1>1. IsWellFoundedOn(R1, Nat)
  BY NatLessThanWellFounded DEF OpToRel
<1>2. PICK x \in S : \A y \in S : ~(<<y, x>> \in R1)
  <2> HIDE DEF R1
  <2> QED BY <1>1, WFMin
<1>3. ASSUME NEW y \in S PROVE x <= y
  <2>1. <<y, x>> \in Nat \X Nat /\ <<y, x>>[1] = y /\ <<y, x>>[2] = x
    OBVIOUS
  <2>2. ~(y < x)
    BY <1>2, <2>1
  <2> QED BY SMT, <2>2
<1> QED
  BY <1>3

\* Concatenating the payloads of blocks one after another gives payloads.
LEMMA FlattenType ==
  ASSUME NEW commit \in CommitType
  PROVE  ordered_payloads(commit) \in Seq(Payloads)
<1> DEFINE bs == commit.blocks
           N == Len(bs)
           Step(f, n) == IF n = 0 THEN <<>> ELSE f[n - 1] \o bs[n].txs
           Upto(k, f) == f \in [0 .. k -> Seq(Payloads)]
                           /\ \A n \in 0 .. k : f[n] = Step(f, n)
           first == CHOOSE f : f = [n \in 0 .. N |-> Step(f, n)]
<1>1. N \in Nat /\ bs \in Seq([ts: Clock, txs: Seq(Payloads)])
  BY LenProperties DEF CommitType
<1>2. \A n \in 1 .. N : bs[n].txs \in Seq(Payloads)
  <2>1. \A n \in 1 .. N : bs[n] \in [ts: Clock, txs: Seq(Payloads)]
    BY <1>1, ElementOfSeq
  <2> QED BY <2>1
<1>3. ordered_payloads(commit) = first[N]
  BY DEF ordered_payloads
<1> HIDE DEF bs, N
<1>4. \A k \in 0 .. N : \E f : Upto(k, f)
  <2> DEFINE Bad == {k \in 0 .. N : ~\E f : Upto(k, f)}
  <2>1. SUFFICES ASSUME Bad # {} PROVE FALSE
    OBVIOUS
  <2>2. Bad \in SUBSET Nat
    BY SMT, <1>1
  <2>3. PICK k \in Bad : \A j \in Bad : k <= j
    <3> HIDE DEF Bad
    <3> QED BY <2>1, <2>2, LeastNumber
  <2>4. CASE k = 0
    <3> DEFINE f == [n \in 0 .. 0 |-> <<>>]
    <3>1. f \in [0 .. 0 -> Seq(Payloads)]
      BY EmptySeq
    <3>2. Upto(0, f)
      BY SMT, <3>1
    <3> QED BY <2>3, <2>4, <3>2
  <2>5. CASE k # 0
    <3>1. k \in 1 .. N /\ k - 1 \in 0 .. N /\ ~(k <= k - 1)
      BY SMT, <1>1, <2>3, <2>5
    <3>2. PICK g : Upto(k - 1, g)
      BY <2>3, <3>1
    <3> DEFINE f == [n \in 0 .. k |-> IF n = k THEN g[k - 1] \o bs[k].txs ELSE g[n]]
    <3>3. g[k - 1] \o bs[k].txs \in Seq(Payloads)
      BY SMT, <1>2, <3>1, <3>2, ConcatProperties
    <3>4. f \in [0 .. k -> Seq(Payloads)]
      BY SMT, <1>1, <3>1, <3>2, <3>3
    <3>5. \A n \in 0 .. k : f[n] = Step(f, n)
      <4> TAKE n \in 0 .. k
      <4>1. CASE n = k
        <5>1. f[k] = g[k - 1] \o bs[k].txs /\ f[k - 1] = g[k - 1]
          BY SMT, <3>1
        <5> QED BY <2>5, <4>1, <5>1
      <4>2. CASE n # k /\ n # 0
        <5>1. n \in 0 .. k - 1 /\ n - 1 \in 0 .. k /\ n - 1 # k
          BY SMT, <1>1, <3>1, <4>2
        <5>2. f[n] = g[n] /\ f[n - 1] = g[n - 1]
          BY <4>2, <5>1
        <5> QED BY <3>2, <4>2, <5>1, <5>2
      <4>3. CASE n # k /\ n = 0
        <5>1. 0 \in 0 .. k - 1 /\ f[0] = g[0]
          BY SMT, <3>1, <4>3
        <5> QED BY <3>2, <4>3, <5>1
      <4> QED BY <4>1, <4>2, <4>3
    <3> QED BY <2>3, <3>1, <3>4, <3>5
  <2> QED BY <2>4, <2>5
<1>5. first = [n \in 0 .. N |-> Step(first, n)]
  <2> HIDE DEF Upto
  <2>0. N \in 0 .. N
    BY SMT, <1>1
  <2>1. PICK f : Upto(N, f)
    BY <2>0, <1>4
  <2> USE DEF Upto
  <2>2. f = [n \in 0 .. N |-> Step(f, n)]
    BY <2>1
  <2> QED BY <2>2
<1>6. \A n \in 0 .. N : first[n] \in Seq(Payloads)
  <2> DEFINE Bad == {k \in 0 .. N : first[k] \notin Seq(Payloads)}
  <2> HIDE DEF first
  <2>1. SUFFICES ASSUME Bad # {} PROVE FALSE
    OBVIOUS
  <2>2. Bad \in SUBSET Nat
    BY SMT, <1>1
  <2>3. PICK k \in Bad : \A j \in Bad : k <= j
    <3> HIDE DEF Bad
    <3> QED BY <2>1, <2>2, LeastNumber
  <2>4. k # 0
    BY <1>1, <1>5, EmptySeq
  <2>5. k \in 1 .. N /\ k - 1 \in 0 .. N /\ ~(k <= k - 1)
    BY SMT, <1>1, <2>3, <2>4
  <2>6. first[k - 1] \in Seq(Payloads)
    BY <2>3, <2>5
  <2>7. first[k] = first[k - 1] \o bs[k].txs
    BY <1>5, <2>4, <2>5
  <2>8. first[k - 1] \o bs[k].txs \in Seq(Payloads)
    BY <1>2, <2>5, <2>6, ConcatProperties
  <2> QED BY <2>7, <2>8
<1> HIDE DEF first
<1> QED
  BY SMT, <1>1, <1>3, <1>6

\* A non-empty list of naturals has a greatest entry.
LEMMA GreatestEntry ==
  ASSUME NEW n \in Nat \ {0}, NEW f \in [1 .. n -> Nat]
  PROVE  \E i \in 1 .. n : \A j \in 1 .. n : f[j] <= f[i]
<1> DEFINE Bad == {m \in 1 .. n : ~\E i \in 1 .. m : \A j \in 1 .. m : f[j] <= f[i]}
<1>1. SUFFICES ASSUME Bad # {} PROVE FALSE
  <2>1. n \in 1 .. n
    BY SMT
  <2> QED BY <2>1
<1>2. Bad \in SUBSET Nat
  BY SMT
<1>3. PICK m \in Bad : \A k \in Bad : m <= k
  <2> HIDE DEF Bad
  <2> QED BY <1>1, <1>2, LeastNumber
<1>4. CASE m = 1
  BY SMT, <1>3, <1>4
<1>5. CASE m # 1
  <2>1. m - 1 \in 1 .. n /\ ~(m <= m - 1) /\ m \in 1 .. n
    BY SMT, <1>3, <1>5
  <2>2. PICK i \in 1 .. m - 1 : \A j \in 1 .. m - 1 : f[j] <= f[i]
    BY <1>3, <2>1
  <2>3. CASE f[m] <= f[i]
    <3>1. i \in 1 .. m /\ \A j \in 1 .. m : f[j] <= f[i]
      BY SMT, <2>1, <2>2, <2>3
    <3> QED BY <1>3, <3>1
  <2>4. CASE ~(f[m] <= f[i])
    <3>1. m \in 1 .. m /\ \A j \in 1 .. m : f[j] <= f[m]
      BY SMT, <2>1, <2>2, <2>4
    <3> QED BY <1>3, <3>1
  <2> QED BY <2>3, <2>4
<1> QED BY <1>4, <1>5

\* The later of two timestamps is one of them, and not before either.
LEMMA LatestOfTwo ==
  ASSUME NEW t \in Nat, NEW u \in Nat
  PROVE  Latest({t, u}) \in {t, u} /\ t <= Latest({t, u}) /\ u <= Latest({t, u})
<1>1. \E x \in {t, u} : \A y \in {t, u} : y <= x
  <2>1. CASE t <= u
    BY SMT, <2>1
  <2>2. CASE ~(t <= u)
    BY SMT, <2>2
  <2> QED BY <2>1, <2>2
<1> QED
  BY <1>1 DEF Latest

\* An interval without 1 is empty.
LEMMA EmptyInterval == ASSUME NEW n \in Nat, 1 \notin 1 .. n PROVE n = 0
BY SMT

\* A commit whose anchor, if it has one, is among its blocks has a timestamp,
\* and it is one of a block unless there is none.
LEMMA TimestampType ==
  ASSUME NEW commit \in CommitType, commit.anchor <= Len(commit.blocks)
  PROVE  /\ commit_timestamp(commit) \in Clock \cup {0}
         /\ commit.blocks = <<>> \/ commit_timestamp(commit) \in Clock
<1> DEFINE bs == commit.blocks
           times == {b.ts : b \in Range(bs)}
<1>1. Len(bs) \in Nat /\ DOMAIN bs = 1 .. Len(bs) /\ commit.anchor \in Nat
        /\ \A n \in 1 .. Len(bs) : bs[n] \in [ts: Clock, txs: Seq(Payloads)]
  BY LenProperties, ElementOfSeq DEF CommitType
<1>2. \A n \in 1 .. Len(bs) : bs[n].ts \in Clock /\ bs[n].ts \in Nat
  BY <1>1, ValidatorAssumption
<1>3. CASE commit.anchor # 0
  <2>1. commit.anchor \in 1 .. Len(bs)
    BY SMT, <1>1, <1>3
  <2> QED BY <1>2, <1>3, <2>1 DEF commit_timestamp
<1>4. CASE commit.anchor = 0
  <2>1. times \in SUBSET Clock
    BY <1>1, <1>2 DEF Range
  <2>2. CASE times = {}
    <3>1. commit_timestamp(commit) = 0
      BY <1>4, <2>2 DEF commit_timestamp, Latest
    <3>2. \A n \in DOMAIN bs : bs[n].ts \in times
      BY DEF Range
    <3>3. bs = <<>>
      <4>1. bs \in Seq([ts: Clock, txs: Seq(Payloads)])
        BY DEF CommitType
      <4>2. 1 \notin 1 .. Len(bs)
        BY <1>1, <2>2, <3>2
      <4>3. Len(bs) \in Nat
        BY <1>1
      <4>4. Len(bs) = 0
        BY <4>2, <4>3, EmptyInterval
      <4> QED BY <4>1, <4>4, EmptySeq
    <3> QED BY <3>1, <3>3
  <2>3. CASE times # {}
    <3>1. Len(bs) \in Nat \ {0}
      BY SMT, <1>1, <2>3 DEF Range
    <3> DEFINE f == [n \in 1 .. Len(bs) |-> bs[n].ts]
    <3>2. f \in [1 .. Len(bs) -> Nat]
      BY <1>2
    <3>3. PICK i \in 1 .. Len(bs) : \A j \in 1 .. Len(bs) : f[j] <= f[i]
      <4> HIDE DEF f
      <4> QED BY <3>1, <3>2, GreatestEntry
    <3>4. bs[i].ts \in times /\ \A u \in times : u <= bs[i].ts
      BY <1>1, <3>3 DEF Range
    <3>5. Latest(times) \in times
      BY <2>3, <3>4 DEF Latest
    <3> QED BY <1>4, <2>1, <3>5 DEF commit_timestamp
  <2> QED BY <2>2, <2>3
<1> QED BY <1>3, <1>4

\* Newest keeps payloads, and no more of them than the cap.
LEMMA NewestType ==
  ASSUME NEW s \in Seq(Payloads)
  PROVE  Newest(s) \in Seq(Payloads) /\ Len(Newest(s)) <= MaxPending
<1>1. Len(s) \in Nat /\ MaxPending \in Nat
  BY LenProperties, ValidatorAssumption
<1>2. CASE Len(s) <= MaxPending
  BY <1>2 DEF Newest
<1>3. CASE ~(Len(s) <= MaxPending)
  <2> DEFINE m == Len(s) - MaxPending + 1
  <2>1. m \in 1 .. Len(s) + 1 /\ Len(s) \in m - 1 .. Len(s) /\ Len(s) - m + 1 = MaxPending
    BY SMT, <1>1, <1>3
  <2>2. /\ SubSeq(s, m, Len(s)) \in Seq(Payloads)
        /\ Len(SubSeq(s, m, Len(s))) = Len(s) - m + 1
    BY SMT, <2>1, SubSeqProperties
  <2> QED BY SMT, <1>1, <1>3, <2>1, <2>2 DEF Newest
<1> QED BY <1>2, <1>3

-----------------------------------------------------------------------------
(* The inductive invariant. *)

\* The anchor of a commit is one of its blocks, or there is none.
AnchorsInside ==
  \A i \in 1 .. Len(commits) : commits[i].anchor <= Len(commits[i].blocks)

(* TypeOK in pieces, so that a step only has to deal with what it changes. *)

ChannelsOK == pool \in [Validators -> Seq(Payloads)] /\ queue \in [Validators -> Seq(Payloads)]

PlacesOK ==
  /\ given \in [Validators -> Nat] /\ taken \in [Validators -> Nat]
  /\ \A v \in Validators : taken[v] <= given[v] /\ given[v] <= Len(commits)

TasksOK ==
  /\ task \in [Validators -> Task]
  /\ \A v \in Validators : Len(task[v].pending) + Len(task[v].todo) <= MaxPending

LedgersOK == chain \in [Validators -> Seq(Block)] /\ unsaved \in [Validators -> SUBSET Payloads]

CountsOK == accepted \subseteq Payloads /\ submits \in Nat /\ faults \in Nat

CommitsOK == commits \in Seq(CommitType) /\ AnchorsInside

Types == CommitsOK /\ ChannelsOK /\ PlacesOK /\ TasksOK /\ LedgersOK /\ CountsOK

\* The parts of the invariant make up TypeOK.
LEMMA TypesTypeOK == Types <=> TypeOK /\ AnchorsInside
BY DEF Types, TypeOK, CommitsOK, ChannelsOK, PlacesOK, TasksOK, LedgersOK, CountsOK

\* What the proofs use of the assumption on the constants.
LEMMA ConstantFacts ==
  /\ MaxPending \in Nat /\ \A t \in Clock \cup {0} : t \in Nat
  /\ \A s \in Shapes : /\ s.order \in Seq(Validators) /\ s.times \in [DOMAIN s.order -> Clock]
                      /\ s.anchor \in 0 .. Len(s.order)
BY SMT, ValidatorAssumption

\* The task of a process that has just started.
LEMMA StartedType ==
  /\ Started \in Task /\ [Started EXCEPT !.phase = "down"] \in Task
  /\ Started.pending = <<>> /\ Started.todo = <<>>
  /\ [Started EXCEPT !.phase = "down"].pending = <<>>
  /\ [Started EXCEPT !.phase = "down"].todo = <<>>
<1>1. <<>> \in Seq(Payloads)
  BY EmptySeq
<1> QED BY <1>1 DEF Started, Task

\* A bound carried over to equal lengths.
LEMMA SumBound ==
  ASSUME NEW a \in Nat, NEW b \in Nat, NEW x, NEW y, x = a, y = b, a + b <= MaxPending
  PROVE  x + y <= MaxPending
BY ConstantFacts

\* A payload leaves the sweep, and may go back to the pending ones.
LEMMA OneFewer ==
  ASSUME NEW a \in Nat, NEW b \in Nat, b # 0, a + b <= MaxPending
  PROVE  b - 1 \in Nat /\ a + (b - 1) <= MaxPending /\ (a + 1) + (b - 1) <= MaxPending
BY SMT, ConstantFacts

\* A sweep that is through hands what is pending to the next one.
LEMMA NoneLeft == ASSUME NEW a \in Nat, NEW b, b = 0, a + b <= MaxPending PROVE 0 + a <= MaxPending
BY SMT, ConstantFacts

\* Empty queues are within the cap.
LEMMA ZeroBound == ASSUME NEW x, NEW y, x = 0, y = 0 PROVE x + y <= MaxPending
BY SMT, ConstantFacts

\* What a step does to one task is all it does to the tasks.
LEMMA TaskUpdate ==
  ASSUME TasksOK, NEW v \in Validators, NEW t \in Task, task' = [task EXCEPT ![v] = t],
         Len(t.pending) + Len(t.todo) <= MaxPending
  PROVE  TasksOK'
BY DEF TasksOK

\* A process that starts or dies has a well-typed, empty task.
LEMMA FreshTask ==
  ASSUME TasksOK, NEW v \in Validators,
         \/ task' = [task EXCEPT ![v] = Started]
         \/ task' = [task EXCEPT ![v] = [Started EXCEPT !.phase = "down"]]
  PROVE  TasksOK'
<1>1. MaxPending \in Nat /\ Len(<<>>) = 0
  BY ConstantFacts, EmptySeq
<1>2. Len(Started.pending) + Len(Started.todo) <= MaxPending
  BY SMT, <1>1, StartedType
<1>3. Len([Started EXCEPT !.phase = "down"].pending)
        + Len([Started EXCEPT !.phase = "down"].todo) <= MaxPending
  <2>1. /\ Len([Started EXCEPT !.phase = "down"].pending) = 0
        /\ Len([Started EXCEPT !.phase = "down"].todo) = 0
    BY <1>1, StartedType
  <2> QED BY <2>1, ZeroBound
<1>4. Started \in Task /\ [Started EXCEPT !.phase = "down"] \in Task
  BY StartedType
<1>5. CASE task' = [task EXCEPT ![v] = Started]
  BY <1>2, <1>4, <1>5, TaskUpdate
<1>6. CASE task' = [task EXCEPT ![v] = [Started EXCEPT !.phase = "down"]]
  BY <1>3, <1>4, <1>6, TaskUpdate
<1> QED BY <1>5, <1>6

\* The initial state has its types.
LEMMA InitTypes == Init => Types
<1> SUFFICES ASSUME Init PROVE Types
  OBVIOUS
<1>1. <<>> \in Seq(Payloads) /\ <<>> \in Seq(Block) /\ <<>> \in Seq(CommitType) /\ Len(<<>>) = 0
  BY EmptySeq
<1>2. CommitsOK /\ ChannelsOK /\ PlacesOK
  BY SMT, <1>1 DEF Init, CommitsOK, AnchorsInside, ChannelsOK, PlacesOK
<1>3. TasksOK
  <2>1. task \in [Validators -> Task]
    BY StartedType DEF Init
  <2>2. \A v \in Validators : task[v].pending = <<>> /\ task[v].todo = <<>>
    BY StartedType DEF Init
  <2>3. MaxPending \in Nat
    BY ConstantFacts
  <2>4. \A v \in Validators : Len(task[v].pending) = 0 /\ Len(task[v].todo) = 0
    BY <1>1, <2>2
  <2>5. \A v \in Validators : Len(task[v].pending) + Len(task[v].todo) <= MaxPending
    BY <2>4, ZeroBound
  <2> QED BY <2>1, <2>5 DEF TasksOK
<1>4. LedgersOK /\ CountsOK
  BY <1>1 DEF Init, LedgersOK, CountsOK
<1> QED BY <1>2, <1>3, <1>4 DEF Types

-----------------------------------------------------------------------------
(* Each action keeps the types, and the queue below its cap. *)

\* An interval from 1 determines its end.
LEMMA IntervalEnd ==
  ASSUME NEW a \in Nat, NEW b \in Nat, 1 .. a = 1 .. b
  PROVE  a = b
<1>1. CASE a < b
  <2>1. b \in 1 .. b /\ b \notin 1 .. a
    BY SMT, <1>1
  <2> QED BY <2>1
<1>2. CASE b < a
  <2>1. a \in 1 .. a /\ a \notin 1 .. b
    BY SMT, <1>2
  <2> QED BY <2>1
<1> QED BY SMT, <1>1, <1>2

\* A commit holds the pools of its authors, and an anchor among its blocks.
LEMMA CommitSubDagTypes ==
  ASSUME Types, NEW s \in Shapes, CommitSubDag(s)
  PROVE  Types'
<1> DEFINE blocks == [i \in DOMAIN s.order |-> [ts |-> s.times[i], txs |-> pool[s.order[i]]]]
           commit == [blocks |-> blocks, anchor |-> s.anchor]
           n == Len(s.order)
           Entry == [ts: Clock, txs: Seq(Payloads)]
<1>1. /\ s.order \in Seq(Validators) /\ s.times \in [1 .. n -> Clock]
      /\ s.anchor \in 0 .. n /\ n \in Nat /\ DOMAIN s.order = 1 .. n
      /\ \A i \in 1 .. n : s.order[i] \in Validators
  BY ConstantFacts, LenProperties, ElementOfSeq
<1>2. \A i \in 1 .. n : pool[s.order[i]] \in Seq(Payloads) /\ s.times[i] \in Clock
  BY <1>1 DEF Types, ChannelsOK
<1>3. blocks \in [1 .. n -> Entry]
  BY <1>1, <1>2
<1>4. blocks \in Seq(Entry) /\ Len(blocks) = n
  <2> HIDE DEF blocks, Entry, n
  <2>1. blocks \in Seq(Entry)
    BY <1>1, <1>3, SeqDef
  <2>2. Len(blocks) \in Nat /\ DOMAIN blocks = 1 .. Len(blocks)
    BY <2>1, LenProperties
  <2>3. 1 .. Len(blocks) = 1 .. n
    BY <1>3, <2>2
  <2> QED BY <1>1, <2>1, <2>2, <2>3, IntervalEnd
<1>5. commit \in CommitType /\ commit.anchor <= Len(commit.blocks)
  BY SMT, <1>1, <1>4 DEF CommitType
<1>6. commits' = Append(commits, commit)
  BY DEF CommitSubDag
<1> HIDE DEF commit
<1>7. /\ commits' \in Seq(CommitType) /\ Len(commits') = Len(commits) + 1
      /\ Len(commits) \in Nat
      /\ \A i \in 1 .. Len(commits) : commits'[i] = commits[i]
      /\ commits'[Len(commits) + 1] = commit
  BY SMT, <1>5, <1>6, AppendProperties, LenProperties DEF Types, CommitsOK
<1>8. AnchorsInside'
  <2> SUFFICES ASSUME NEW i \in 1 .. Len(commits')
               PROVE  commits'[i].anchor <= Len(commits'[i].blocks)
    BY DEF AnchorsInside
  <2>1. CASE i = Len(commits) + 1
    BY <1>5, <1>7, <2>1
  <2>2. CASE i # Len(commits) + 1
    <3>1. i \in 1 .. Len(commits)
      BY SMT, <1>7, <2>2
    <3> QED BY <1>7, <3>1 DEF Types, CommitsOK, AnchorsInside
  <2> QED BY <2>1, <2>2
<1>9. ChannelsOK'
  BY EmptySeq DEF CommitSubDag, Types, ChannelsOK
<1>10. PlacesOK'
  BY SMT, <1>7 DEF CommitSubDag, Types, PlacesOK
<1>11. TasksOK' /\ LedgersOK' /\ CountsOK'
  BY DEF CommitSubDag, ledger, Types, TasksOK, LedgersOK, CountsOK
<1> QED BY <1>7, <1>8, <1>9, <1>10, <1>11 DEF Types, CommitsOK

\* Submitting, dripping, forwarding and delivering.
LEMMA ChannelTypes ==
  ASSUME Types, NEW v \in Validators,
         Forward(v) \/ Deliver(v) \/ \E p \in Payloads : Submit(v, p) \/ Drip(v, p)
  PROVE  Types'
<1>1. ASSUME NEW p \in Payloads, Submit(v, p) \/ Drip(v, p) PROVE Types'
  <2>1. send_raw_transaction(v, p)
    BY <1>1 DEF Submit, Drip
  <2>2. Append(queue[v], p) \in Seq(Payloads)
    BY AppendProperties DEF Types, ChannelsOK
  <2>3. ChannelsOK' /\ CountsOK'
    BY SMT, <2>1, <2>2 DEF send_raw_transaction, dag, Types, ChannelsOK, CountsOK
  <2>4. CommitsOK' /\ PlacesOK' /\ TasksOK' /\ LedgersOK'
    BY <2>1
    DEF send_raw_transaction, dag, ledger, Types, CommitsOK, AnchorsInside, PlacesOK,
                TasksOK, LedgersOK
  <2> QED BY <2>3, <2>4 DEF Types
<1>2. CASE Forward(v)
  <2>1. Head(queue[v]) \in Payloads /\ Tail(queue[v]) \in Seq(Payloads)
    BY <1>2, HeadTailProperties DEF Forward, Types, ChannelsOK
  <2>2. Append(pool[v], Head(queue[v])) \in Seq(Payloads)
    BY <2>1, AppendProperties DEF Types, ChannelsOK
  <2>3. ChannelsOK'
    BY <1>2, <2>1, <2>2 DEF Forward, Types, ChannelsOK
  <2>4. CommitsOK' /\ PlacesOK' /\ TasksOK' /\ LedgersOK' /\ CountsOK'
    BY <1>2
    DEF Forward, ledger, Types, CommitsOK, AnchorsInside, PlacesOK, TasksOK, LedgersOK,
                CountsOK
  <2> QED BY <2>3, <2>4 DEF Types
<1>3. CASE Deliver(v)
  <2>1. Len(commits) \in Nat
    BY LenProperties DEF Types, CommitsOK
  <2>2. PlacesOK'
    BY SMT, <1>3, <2>1 DEF Deliver, dag, Types, PlacesOK
  <2>3. CommitsOK' /\ ChannelsOK' /\ TasksOK' /\ LedgersOK' /\ CountsOK'
    BY <1>3
    DEF Deliver, dag, ledger, Types, CommitsOK, AnchorsInside, ChannelsOK, TasksOK,
                LedgersOK, CountsOK
  <2> QED BY <2>2, <2>3 DEF Types
<1> QED BY <1>1, <1>2, <1>3

\* The execution task takes a commit, and cuts its queue to the cap.
LEMMA ReceiveCommitTypes ==
  ASSUME Types, NEW v \in Validators, ReceiveCommit(v)
  PROVE  Types'
<1> DEFINE commit == commits[taken[v] + 1]
           joined == Newest(task[v].pending \o ordered_payloads(commit))
           t == [phase |-> "sweeping", lastTs |-> Stamp(v, commit), pending |-> <<>>,
                 todo |-> joined, progress |-> FALSE]
<1>1. taken[v] + 1 \in 1 .. Len(commits) /\ taken[v] + 1 <= given[v]
  <2>1. Len(commits) \in Nat
    BY LenProperties DEF Types, CommitsOK
  <2> QED BY SMT, <2>1 DEF ReceiveCommit, Types, PlacesOK
<1>2. commit \in CommitType /\ commit.anchor <= Len(commit.blocks)
  BY <1>1, ElementOfSeq DEF Types, CommitsOK, AnchorsInside
<1>3. joined \in Seq(Payloads) /\ Len(joined) <= MaxPending
  <2>1. task[v].pending \in Seq(Payloads)
    BY DEF Types, TasksOK, Task
  <2>2. ordered_payloads(commit) \in Seq(Payloads)
    <3> HIDE DEF commit
    <3> QED BY <1>2, FlattenType
  <2>3. task[v].pending \o ordered_payloads(commit) \in Seq(Payloads)
    BY <2>1, <2>2, ConcatProperties
  <2> QED BY <2>3, NewestType
<1>4. Stamp(v, commit) \in Clock \cup {0}
  <2>1. task[v].lastTs \in Clock \cup {0}
    BY DEF Types, TasksOK, Task
  <2>2. commit_timestamp(commit) \in Clock \cup {0}
    <3> HIDE DEF commit
    <3> QED BY <1>2, TimestampType
  <2>3. commit_timestamp(commit) \in Nat /\ task[v].lastTs \in Nat
    BY <2>1, <2>2, ConstantFacts
  <2> QED BY <2>1, <2>2, <2>3, LatestOfTwo DEF Stamp
<1> HIDE DEF commit, joined
<1>5. t \in Task /\ t.pending = <<>> /\ t.todo = joined
  BY <1>3, <1>4, EmptySeq DEF Task
<1>6. Len(t.pending) + Len(t.todo) <= MaxPending
  <2>1. Len(t.pending) = 0 /\ Len(joined) \in Nat
    BY <1>3, <1>5, EmptySeq, LenProperties
  <2> QED BY SMT, <1>3, <1>5, <2>1
<1>7. task' = [task EXCEPT ![v] = t]
  BY DEF ReceiveCommit, commit, joined
<1> HIDE DEF t
<1>8. TasksOK'
  BY <1>5, <1>6, <1>7 DEF Types, TasksOK
<1>9. PlacesOK'
  BY SMT, <1>1 DEF ReceiveCommit, dag, Types, PlacesOK
<1>10. CommitsOK' /\ ChannelsOK' /\ LedgersOK' /\ CountsOK'
  BY
  DEF ReceiveCommit, dag, ledger, Types, CommitsOK, AnchorsInside, ChannelsOK, LedgersOK,
         CountsOK
<1> QED BY <1>8, <1>9, <1>10 DEF Types

\* A payload moves from `todo` to `pending`, or out of both.
LEMMA TryTypes ==
  ASSUME TasksOK, NEW v \in Validators, task[v].todo # <<>>
  PROVE  /\ Head(task[v].todo) \in Payloads
         /\ task' = [task EXCEPT ![v].todo = Tail(@), ![v].progress = TRUE] => TasksOK'
         /\ task' = [task EXCEPT ![v].todo = Tail(@),
                                 ![v].pending = Append(@, Head(task[v].todo))] => TasksOK'
<1> DEFINE t == task[v]
           p == Head(t.todo)
           out == [t EXCEPT !.todo = Tail(@), !.progress = TRUE]
           back == [t EXCEPT !.todo = Tail(@), !.pending = Append(@, p)]
<1>1. /\ t \in Task /\ t.pending \in Seq(Payloads) /\ t.todo \in Seq(Payloads) /\ t.todo # <<>>
      /\ Len(t.pending) + Len(t.todo) <= MaxPending /\ task \in [Validators -> Task]
  BY DEF TasksOK, Task
<1> HIDE DEF t
<1>2. p \in Payloads /\ Tail(t.todo) \in Seq(Payloads) /\ Len(Tail(t.todo)) = Len(t.todo) - 1
  BY <1>1, HeadTailProperties
<1>3. Append(t.pending, p) \in Seq(Payloads) /\ Len(Append(t.pending, p)) = Len(t.pending) + 1
  BY SMT, <1>1, <1>2, AppendProperties
<1>4. Len(t.pending) \in Nat /\ Len(t.todo) \in Nat /\ Len(t.todo) # 0
  BY <1>1, LenProperties, EmptySeq
<1>5. out \in Task /\ out.pending = t.pending /\ out.todo = Tail(t.todo)
  BY <1>1, <1>2 DEF Task
<1>6. back \in Task /\ back.pending = Append(t.pending, p) /\ back.todo = Tail(t.todo)
  BY <1>1, <1>2, <1>3 DEF Task
<1>7. ASSUME task' = [task EXCEPT ![v].todo = Tail(@), ![v].progress = TRUE] PROVE TasksOK'
  <2>1. task' = [task EXCEPT ![v] = out]
    BY <1>1, <1>7 DEF t
  <2> HIDE DEF out
  <2>2. Len(out.pending) + Len(out.todo) <= MaxPending
    <3>1. Len(out.pending) = Len(t.pending) /\ Len(out.todo) = Len(t.todo) - 1
      BY <1>2, <1>5
    <3>2. /\ Len(t.todo) - 1 \in Nat
          /\ Len(t.pending) + (Len(t.todo) - 1) <= MaxPending
      BY <1>1, <1>4, OneFewer
    <3> QED BY <1>4, <3>1, <3>2, SumBound
  <2> QED BY <1>5, <2>1, <2>2, TaskUpdate
<1>8. ASSUME task' = [task EXCEPT ![v].todo = Tail(@), ![v].pending = Append(@, p)]
      PROVE  TasksOK'
  <2>1. task' = [task EXCEPT ![v] = back]
    BY <1>1, <1>8 DEF t
  <2> HIDE DEF back
  <2>2. Len(back.pending) + Len(back.todo) <= MaxPending
    <3>1. Len(back.pending) = Len(t.pending) + 1 /\ Len(back.todo) = Len(t.todo) - 1
      BY <1>2, <1>3, <1>6
    <3>2. /\ Len(t.todo) - 1 \in Nat
          /\ (Len(t.pending) + 1) + (Len(t.todo) - 1) <= MaxPending
      BY <1>1, <1>4, OneFewer
    <3> QED BY <1>4, <3>1, <3>2, SumBound
  <2> QED BY <1>6, <2>1, <2>2, TaskUpdate
<1> QED BY <1>2, <1>7, <1>8 DEF t

\* One payload is tried, its write fails, or the sweep ends.
LEMMA SweepTypes ==
  ASSUME Types, NEW v \in Validators, TryPayload(v) \/ SaveFails(v) \/ EndSweep(v)
  PROVE  Types'
<1> DEFINE p == Head(task[v].todo)
<1>1. CASE TryPayload(v)
  <2>1. task[v].todo # <<>>
    BY <1>1 DEF TryPayload
  <2>2. CASE Seals(v, p)
    <3> DEFINE block == [tx |-> p, ts |-> task[v].lastTs, beside |-> unsaved[v]]
    <3>1. block \in Block
      BY <2>1, TryTypes DEF Block, Types, TasksOK, Task, LedgersOK
    <3>2. chain' = [chain EXCEPT ![v] = Append(@, block)]
            /\ task' = [task EXCEPT ![v].todo = Tail(@), ![v].progress = TRUE]
      BY <1>1, <2>2 DEF TryPayload
    <3> HIDE DEF block
    <3>3. Append(chain[v], block) \in Seq(Block)
      BY <3>1, AppendProperties DEF Types, LedgersOK
    <3>4. LedgersOK'
      BY <1>1, <3>2, <3>3 DEF TryPayload, Types, LedgersOK
    <3>5. TasksOK'
      BY <2>1, <3>2, TryTypes DEF Types
    <3>6. CommitsOK' /\ ChannelsOK' /\ PlacesOK' /\ CountsOK'
      BY <1>1
      DEF TryPayload, dag, Types, CommitsOK, AnchorsInside, ChannelsOK, PlacesOK, CountsOK
    <3> QED BY <3>4, <3>5, <3>6 DEF Types
  <2>3. CASE ~Seals(v, p)
    <3>1. task' = [task EXCEPT ![v].todo = Tail(@), ![v].pending = Append(@, p)]
            /\ UNCHANGED <<dag, queue, given, taken, chain, unsaved, accepted, submits, faults>>
      BY <1>1, <2>3 DEF TryPayload
    <3>2. TasksOK'
      BY <2>1, <3>1, TryTypes DEF Types
    <3>3. CommitsOK' /\ ChannelsOK' /\ PlacesOK' /\ LedgersOK' /\ CountsOK'
      BY <3>1
      DEF dag, Types, CommitsOK, AnchorsInside, ChannelsOK, PlacesOK, LedgersOK, CountsOK
    <3> QED BY <3>2, <3>3 DEF Types
  <2> QED BY <2>2, <2>3
<1>2. CASE SaveFails(v)
  <2>1. task[v].todo # <<>>
          /\ task' = [task EXCEPT ![v].todo = Tail(@), ![v].pending = Append(@, p)]
          /\ unsaved' = [unsaved EXCEPT ![v] = @ \cup {p}]
          /\ UNCHANGED <<dag, queue, given, taken, chain, accepted, submits>>
          /\ faults' = faults + 1
    BY <1>2 DEF SaveFails, Fault
  <2>2. TasksOK'
    BY <2>1, TryTypes DEF Types
  <2>3. LedgersOK'
    BY <2>1, TryTypes DEF Types, LedgersOK
  <2>4. CommitsOK' /\ ChannelsOK' /\ PlacesOK' /\ CountsOK'
    BY SMT, <2>1 DEF dag, Types, CommitsOK, AnchorsInside, ChannelsOK, PlacesOK, CountsOK
  <2> QED BY <2>2, <2>3, <2>4 DEF Types
<1>3. CASE EndSweep(v)
  <2>1. task[v].todo = <<>> /\ task[v] \in Task /\ Len(<<>>) = 0
          /\ task[v].pending \in Seq(Payloads) /\ Len(task[v].pending) \in Nat
    BY <1>3, EmptySeq, LenProperties DEF EndSweep, Types, TasksOK, Task
  <2>2. TasksOK'
    <3>1. CASE AnotherSweep(task[v])
      <4>1. task' = [task EXCEPT ![v] =
                       [@ EXCEPT !.todo = task[v].pending, !.pending = <<>>, !.progress = FALSE]]
        BY <1>3, <3>1 DEF EndSweep
      <4> DEFINE t == [task[v] EXCEPT !.todo = task[v].pending, !.pending = <<>>,
                                      !.progress = FALSE]
      <4>2. t \in Task /\ t.todo = task[v].pending /\ t.pending = <<>>
        BY <2>1, EmptySeq DEF Task
      <4> HIDE DEF t
      <4>3. Len(t.pending) = 0 /\ Len(t.todo) = Len(task[v].pending)
        BY <2>1, <4>2
      <4>4. 0 + Len(task[v].pending) <= MaxPending
        <5>1. Len(task[v].todo) = 0 /\ Len(task[v].pending) + Len(task[v].todo) <= MaxPending
          BY <2>1 DEF Types, TasksOK
        <5> QED BY <2>1, <5>1, NoneLeft
      <4>5. Len(t.pending) + Len(t.todo) <= MaxPending
        BY <2>1, <4>3, <4>4, SumBound
      <4>6. task' = [task EXCEPT ![v] = t]
        BY <2>1, <4>1 DEF t, Types, TasksOK
      <4> QED BY <4>2, <4>5, <4>6, TaskUpdate DEF Types
    <3>2. CASE ~AnotherSweep(task[v])
      <4>1. task' = [task EXCEPT ![v] = [@ EXCEPT !.phase = "idle", !.progress = FALSE]]
        BY <1>3, <3>2 DEF EndSweep
      <4> DEFINE t == [task[v] EXCEPT !.phase = "idle", !.progress = FALSE]
      <4>2. t \in Task /\ t.todo = task[v].todo /\ t.pending = task[v].pending
        BY <2>1 DEF Task
      <4>3. Len(t.pending) + Len(t.todo) <= MaxPending
        BY <2>1, <4>2 DEF Types, TasksOK
      <4> QED BY <4>1, <4>2, <4>3, TaskUpdate DEF Types
    <3> QED BY <3>1, <3>2
  <2>3. CommitsOK' /\ ChannelsOK' /\ PlacesOK' /\ LedgersOK' /\ CountsOK'
    BY <1>3
    DEF EndSweep, dag, ledger, Types, CommitsOK, AnchorsInside, ChannelsOK, PlacesOK,
                LedgersOK, CountsOK
  <2> QED BY <2>2, <2>3 DEF Types
<1> QED BY <1>1, <1>2, <1>3

\* What replay leaves of a chain is a chain.
LEMMA ReplayedType ==
  ASSUME NEW c \in Seq(Block)
  PROVE  Replayed(c) \in Seq(Block)
<1> DEFINE stops == {n \in DOMAIN c : Stops(c, n)}
           first == CHOOSE n \in stops : \A m \in stops : n <= m
<1>1. DOMAIN c = 1 .. Len(c) /\ Len(c) \in Nat /\ \A i \in 1 .. Len(c) : c[i] \in Block
  BY LenProperties, ElementOfSeq
<1>2. CASE stops = {}
  BY <1>2 DEF Replayed
<1>3. CASE stops # {}
  <2>1. stops \in SUBSET Nat
    BY SMT, <1>1
  <2>2. first \in stops
    <3> HIDE DEF stops
    <3>1. \E n \in stops : \A m \in stops : n <= m
      BY <1>3, <2>1, LeastNumber
    <3> QED BY <3>1
  <2>3. first \in 1 .. Len(c)
    BY <1>1, <2>2
  <2> HIDE DEF first
  <2>4. /\ SubSeq(c, 1, first) \in Seq(Block) /\ Len(SubSeq(c, 1, first)) = first
        /\ SubSeq(c, 1, first - 1) \in Seq(Block)
    <3>1. first \in Int /\ first - 1 \in Int /\ 1 <= first
      BY SMT, <1>1, <2>3
    <3>2. (\A i \in 1 .. first : c[i] \in Block) /\ \A i \in 1 .. first - 1 : c[i] \in Block
      BY SMT, <1>1, <2>3
    <3>3. SubSeq(c, 1, first) \in Seq(Block)
            /\ Len(SubSeq(c, 1, first)) = IF 1 <= first THEN first - 1 + 1 ELSE 0
      BY SMT, <3>1, <3>2, SubSeqProperties
    <3>4. SubSeq(c, 1, first - 1) \in Seq(Block)
      BY SMT, <3>1, <3>2, SubSeqProperties
    <3> QED BY SMT, <3>1, <3>3, <3>4
  <2>5. [SubSeq(c, 1, first) EXCEPT ![first].beside = {}] \in Seq(Block)
    <3> DEFINE q == SubSeq(c, 1, first)
    <3>1. first \in 1 .. Len(q) /\ q \in Seq(Block) /\ q[first] \in Block
      BY SMT, <2>3, <2>4, ElementOfSeq
    <3>2. [q[first] EXCEPT !.beside = {}] \in Block
      BY <3>1 DEF Block
    <3> HIDE DEF q
    <3>3. [q EXCEPT ![first] = [q[first] EXCEPT !.beside = {}]] \in Seq(Block)
      BY <3>1, <3>2, ExceptSeq
    <3> QED BY <3>3 DEF q
  <2> USE DEF first
  <2>6. CASE Refused(c, first)
    BY <1>3, <2>4, <2>6 DEF Replayed
  <2>7. CASE ~Refused(c, first)
    BY <1>3, <2>5, <2>7 DEF Replayed
  <2> QED BY <2>6, <2>7
<1> QED BY <1>2, <1>3

\* Crash, restart and reset.
LEMMA FaultTypes ==
  ASSUME Types, NEW v \in Validators, Crash(v) \/ Restart(v) \/ Reset(v)
  PROVE  Types'
<1>1. CASE Crash(v)
  <2>1. TasksOK'
    BY <1>1, FreshTask DEF Crash, Types
  <2>2. ChannelsOK'
    BY <1>1, EmptySeq DEF Crash, Types, ChannelsOK
  <2>3. CommitsOK' /\ PlacesOK' /\ LedgersOK' /\ CountsOK'
    BY SMT, <1>1 DEF Crash, Fault, Types, CommitsOK, AnchorsInside, PlacesOK, LedgersOK, CountsOK
  <2> QED BY <2>1, <2>2, <2>3 DEF Types
<1>2. CASE Restart(v)
  <2>1. chain[v] \in Seq(Block)
    BY DEF Types, LedgersOK
  <2>2. LedgersOK'
    BY <1>2, <2>1, ReplayedType DEF Restart, Types, LedgersOK
  <2>3. TasksOK' /\ PlacesOK'
    <3>1. CASE \E n \in DOMAIN chain[v] : Stops(chain[v], n)
      BY <1>2, <3>1 DEF Restart, dag, Types, TasksOK, PlacesOK
    <3>2. CASE ~\E n \in DOMAIN chain[v] : Stops(chain[v], n)
      <4>1. task' = [task EXCEPT ![v] = Started] /\ taken' = [taken EXCEPT ![v] = given[v]]
              /\ UNCHANGED <<commits, given>>
        BY <1>2, <3>2 DEF Restart, dag
      <4>2. TasksOK'
        BY <4>1, FreshTask DEF Types
      <4>3. PlacesOK'
        BY SMT, <4>1 DEF Types, PlacesOK
      <4> QED BY <4>2, <4>3
    <3> QED BY <3>1, <3>2
  <2>4. CommitsOK' /\ ChannelsOK' /\ CountsOK'
    BY <1>2 DEF Restart, dag, Types, CommitsOK, AnchorsInside, ChannelsOK, CountsOK
  <2> QED BY <2>2, <2>3, <2>4 DEF Types
<1>3. CASE Reset(v)
  <2>1. LedgersOK'
    BY <1>3, EmptySeq DEF Reset, Types, LedgersOK
  <2>2. TasksOK'
    BY <1>3 DEF Reset, Types, TasksOK
  <2>3. CommitsOK' /\ ChannelsOK' /\ PlacesOK' /\ CountsOK'
    BY SMT, <1>3
    DEF Reset, Fault, dag, Types, CommitsOK, AnchorsInside, ChannelsOK, PlacesOK, CountsOK
  <2> QED BY <2>1, <2>2, <2>3 DEF Types
<1> QED BY <1>1, <1>2, <1>3

-----------------------------------------------------------------------------
\* Every step keeps the types.
LEMMA NextTypes == Types /\ [Next]_vars => Types'
<1> SUFFICES ASSUME Types, [Next]_vars PROVE Types'
  OBVIOUS
<1>1. CASE UNCHANGED vars
  BY <1>1
  DEF vars, ledger, Types, CommitsOK, AnchorsInside, ChannelsOK, PlacesOK, TasksOK,
              LedgersOK, CountsOK
<1>2. CASE \E s \in Shapes : CommitSubDag(s)
  BY <1>2, CommitSubDagTypes
<1>3. ASSUME NEW v \in Validators,
             \/ \E p \in Payloads : Submit(v, p) \/ Drip(v, p)
             \/ Forward(v) \/ Deliver(v) \/ Execute(v)
             \/ SaveFails(v) \/ Crash(v) \/ Restart(v) \/ Reset(v)
      PROVE  Types'
  BY <1>3, ChannelTypes, ReceiveCommitTypes, SweepTypes, FaultTypes DEF Execute
<1> QED BY <1>1, <1>2, <1>3 DEF Next

\* For any committee, payloads, sub-DAGs and faults: types, the cap of the
\* queue of failed payloads (validator.rs, MAX_PENDING_PAYLOADS) in the middle
\* of a sweep too, and a task that is never past what it was handed.
THEOREM TypeCorrect == Spec => []TypeOK
<1>1. Spec => []Types
  BY InitTypes, NextTypes, PTL DEF Spec
<1>2. Types => TypeOK
  BY TypesTypeOK
<1> QED BY <1>1, <1>2, PTL

-----------------------------------------------------------------------------
(* The second half: what a sweep has settled, and the chain it has executed. *)

\* None of the payloads put back into v's queue would seal.
Settled(v) == \A p \in Range(task[v].pending) : ~Seals(v, p)

\* SweptToFixation, and what makes it inductive: as long as a sweep has sealed
\* nothing, none of the payloads it has put back would seal either.
Swept(v) ==
  task[v].phase # "down" /\ ~task[v].progress /\ unsaved[v] = {} => Settled(v)

\* Between commits no sweep has made progress, and nothing is left to try.
Rested(v) == task[v].phase = "idle" => ~task[v].progress

SweepInv == \A v \in Validators : Swept(v) /\ Rested(v)

\* A queue with one payload more.
LEMMA RangeAppend ==
  ASSUME NEW s \in Seq(Payloads), NEW p \in Payloads, NEW q \in Range(Append(s, p))
  PROVE  q = p \/ q \in Range(s)
<1>1. PICK i \in DOMAIN Append(s, p) : q = Append(s, p)[i]
  BY DEF Range
<1>2. Len(s) \in Nat /\ DOMAIN s = 1 .. Len(s) /\ DOMAIN Append(s, p) = 1 .. Len(s) + 1
  BY SMT, AppendProperties, LenProperties
<1>3. CASE i = Len(s) + 1
  BY SMT, <1>1, <1>3, AppendProperties
<1>4. CASE i # Len(s) + 1
  <2>1. i \in 1 .. Len(s)
    BY SMT, <1>1, <1>2, <1>4
  <2>2. Append(s, p)[i] = s[i]
    BY SMT, <2>1, AppendProperties
  <2> QED BY <1>1, <1>2, <2>1, <2>2 DEF Range
<1> QED BY <1>3, <1>4

\* An empty queue is settled.
LEMMA RangeEmpty == Range(<<>>) = {}
BY SMT DEF Range

-----------------------------------------------------------------------------
\* Queues are empty at the start.
LEMMA InitSwept == Init => SweepInv
BY SMT, StartedType, RangeEmpty DEF Init, SweepInv, Swept, Rested, Settled, Started

\* A step that touches neither w's queue nor the state it is tried on.
LEMMA SweptElsewhere ==
  ASSUME SweepInv, NEW w \in Validators,
         task'[w] = task[w], chain'[w] = chain[w], unsaved'[w] = unsaved[w]
  PROVE  (Swept(w) /\ Rested(w))'
BY DEF SweepInv, Swept, Rested, Settled, Seals, Executed

\* A step that leaves w's queue empty.
LEMMA SweptEmpty ==
  ASSUME NEW w \in Validators, task'[w].pending = <<>>, ~task'[w].progress
  PROVE  (Swept(w) /\ Rested(w))'
<1>1. Range(task'[w].pending) = {}
  BY RangeEmpty
<1> QED BY <1>1 DEF Swept, Rested, Settled

\* A payload that does not seal joins payloads that do not.
LEMMA TrySwept ==
  ASSUME Types, SweepInv, NEW v \in Validators, TryPayload(v)
  PROVE  (Swept(v) /\ Rested(v))'
<1> DEFINE p == Head(task[v].todo)
<1>1. /\ task[v] \in Task /\ task[v].pending \in Seq(Payloads) /\ p \in Payloads
      /\ task[v].phase = "sweeping" /\ unsaved' = unsaved /\ task \in [Validators -> Task]
  BY TryTypes DEF TryPayload, Types, TasksOK, Task
<1>2. CASE Seals(v, p)
  <2>1. task' = [task EXCEPT ![v].todo = Tail(@), ![v].progress = TRUE]
    BY <1>2 DEF TryPayload
  <2>2. task'[v].progress /\ task'[v].phase = "sweeping"
    BY <1>1, <2>1 DEF Task
  <2> QED BY <2>2 DEF Swept, Rested
<1>3. CASE ~Seals(v, p)
  <2>1. /\ task' = [task EXCEPT ![v].todo = Tail(@), ![v].pending = Append(@, p)]
        /\ chain' = chain
    BY <1>3 DEF TryPayload
  <2>2. /\ task'[v].phase = "sweeping" /\ task'[v].progress = task[v].progress
        /\ task'[v].pending = Append(task[v].pending, p)
    BY <1>1, <2>1 DEF Task
  <2>3. \A q \in Payloads : Seals(v, q)' <=> Seals(v, q)
    BY <1>1, <2>1 DEF Seals, Executed
  <2>4. ASSUME ~task'[v].progress, unsaved'[v] = {} PROVE Settled(v)'
    <3>1. Settled(v)
      BY <1>1, <2>2, <2>4 DEF SweepInv, Swept
    <3> SUFFICES ASSUME NEW q \in Range(Append(task[v].pending, p)) PROVE ~Seals(v, q)'
      BY <2>2 DEF Settled
    <3>2. q = p \/ q \in Range(task[v].pending)
      BY <1>1, RangeAppend
    <3>3. q \in Payloads
      BY SMT, <1>1, <3>2, ElementOfSeq, LenProperties DEF Range
    <3> QED BY <1>3, <2>3, <3>1, <3>2, <3>3 DEF Settled
  <2> QED BY <2>2, <2>4 DEF Swept, Rested
<1> QED BY <1>2, <1>3

\* A write that fails leaves its payload in the state in memory.
LEMMA SaveFailsSwept ==
  ASSUME Types, NEW v \in Validators, SaveFails(v)
  PROVE  (Swept(v) /\ Rested(v))'
<1>1. unsaved'[v] # {} /\ task'[v].phase = "sweeping"
  BY DEF SaveFails, Types, LedgersOK, TasksOK, Task
<1> QED BY <1>1 DEF Swept, Rested

\* The last sweep sealed nothing, or left nothing.
LEMMA EndSwept ==
  ASSUME Types, SweepInv, NEW v \in Validators, EndSweep(v)
  PROVE  (Swept(v) /\ Rested(v))'
<1>1. /\ task[v] \in Task /\ task \in [Validators -> Task] /\ task[v].phase = "sweeping"
      /\ chain' = chain /\ unsaved' = unsaved
  BY DEF EndSweep, ledger, Types, TasksOK
<1>2. CASE AnotherSweep(task[v])
  <2>1. task'[v].pending = <<>> /\ ~task'[v].progress
    BY <1>1, <1>2 DEF EndSweep, Task
  <2> QED BY <2>1, SweptEmpty
<1>3. CASE ~AnotherSweep(task[v])
  <2>1. /\ task'[v].phase = "idle" /\ ~task'[v].progress
        /\ task'[v].pending = task[v].pending
    BY <1>1, <1>3 DEF EndSweep, Task
  <2>2. CASE task[v].pending = <<>>
    BY <2>1, <2>2, SweptEmpty
  <2>3. CASE ~task[v].progress
    <3>1. unsaved[v] = {} => Settled(v)
      BY <1>1, <2>3 DEF SweepInv, Swept
    <3>2. Settled(v) => Settled(v)'
      BY <1>1, <2>1 DEF Settled, Seals, Executed
    <3> QED BY <1>1, <2>1, <3>1, <3>2 DEF Swept, Rested
  <2> QED BY <1>3, <2>2, <2>3 DEF AnotherSweep
<1> QED BY <1>2, <1>3

\* A process that dies, comes back, or is reset while it is down.
LEMMA FaultSwept ==
  ASSUME Types, SweepInv, NEW v \in Validators, Crash(v) \/ Restart(v) \/ Reset(v)
  PROVE  (Swept(v) /\ Rested(v))'
<1>1. task[v] \in Task /\ task \in [Validators -> Task]
  BY DEF Types, TasksOK
<1>2. CASE Crash(v)
  <2>1. task'[v] = [Started EXCEPT !.phase = "down"]
    BY <1>1, <1>2 DEF Crash
  <2> QED BY <2>1 DEF Swept, Rested, Started
<1>3. ASSUME task[v].phase = "down", task' = task PROVE (Swept(v) /\ Rested(v))'
  BY <1>3 DEF Swept, Rested
<1>4. CASE Restart(v)
  <2>1. task[v].phase = "down" /\ (task' = task \/ task'[v] = Started)
    BY <1>1, <1>4 DEF Restart, Up
  <2>2. CASE task'[v] = Started
    BY SMT, <2>2, SweptEmpty DEF Started
  <2> QED BY <1>3, <2>1, <2>2
<1>5. CASE Reset(v)
  BY <1>3, <1>5 DEF Reset, Up
<1> QED BY <1>2, <1>4, <1>5

\* What a step of v leaves alone: the other validators.
LEMMA StepIsLocal ==
  ASSUME Types, NEW v \in Validators, NEW w \in Validators, w # v,
         \/ Execute(v) \/ SaveFails(v) \/ Crash(v) \/ Restart(v) \/ Reset(v)
  PROVE  task'[w] = task[w] /\ chain'[w] = chain[w] /\ unsaved'[w] = unsaved[w]
<1>1. /\ task \in [Validators -> Task] /\ chain \in [Validators -> Seq(Block)]
      /\ unsaved \in [Validators -> SUBSET Payloads]
  BY DEF Types, TasksOK, LedgersOK
<1>2. CASE Execute(v)
  BY <1>1, <1>2 DEF Execute, ReceiveCommit, TryPayload, EndSweep, ledger
<1>3. CASE SaveFails(v) \/ Crash(v) \/ Restart(v) \/ Reset(v)
  BY <1>1, <1>3 DEF SaveFails, Crash, Restart, Reset, ledger
<1> QED BY <1>2, <1>3

\* What a step outside of the execution tasks leaves alone.
LEMMA StepIsOutside ==
  ASSUME \/ UNCHANGED vars
         \/ \E s \in Shapes : CommitSubDag(s)
         \/ \E v \in Validators : \/ \E p \in Payloads : Submit(v, p) \/ Drip(v, p)
                                  \/ Forward(v) \/ Deliver(v)
  PROVE  task' = task /\ chain' = chain /\ unsaved' = unsaved
BY
DEF vars, ledger, CommitSubDag, Submit, Drip, send_raw_transaction, Forward, Deliver

\* Every step keeps SweepInv: steps of other validators leave a queue and its
\* state alone, and a sweep puts back only what did not seal.
LEMMA NextSwept == Types /\ SweepInv /\ [Next]_vars => SweepInv'
<1> SUFFICES ASSUME Types, SweepInv, [Next]_vars, NEW w \in Validators
             PROVE  (Swept(w) /\ Rested(w))'
  BY DEF SweepInv
<1>1. ASSUME task' = task, chain' = chain, unsaved' = unsaved PROVE (Swept(w) /\ Rested(w))'
  BY <1>1, SweptElsewhere
<1>2. ASSUME NEW v \in Validators,
             \/ Execute(v) \/ SaveFails(v) \/ Crash(v) \/ Restart(v) \/ Reset(v)
      PROVE  (Swept(w) /\ Rested(w))'
  <2>1. CASE w # v
    BY <1>2, <2>1, StepIsLocal, SweptElsewhere
  <2>2. CASE w = v
    <3>1. CASE ReceiveCommit(v)
      <4>1. task'[v].pending = <<>> /\ ~task'[v].progress
        BY <3>1 DEF ReceiveCommit, Types, TasksOK
      <4> QED BY <2>2, <4>1, SweptEmpty
    <3>2. CASE TryPayload(v) \/ EndSweep(v) \/ SaveFails(v)
      BY <2>2, <3>2, TrySwept, EndSwept, SaveFailsSwept
    <3>3. CASE Crash(v) \/ Restart(v) \/ Reset(v)
      BY <2>2, <3>3, FaultSwept
    <3> QED BY <1>2, <3>1, <3>2, <3>3 DEF Execute
  <2> QED BY <2>1, <2>2
<1> QED BY <1>1, <1>2, StepIsOutside DEF Next

\* The sweep of validator.rs ends where it should: whatever the order of nonces
\* and fundings in the commits, and across crashes and resets, an idle task
\* whose process has lost no write has no payload left that would seal.
THEOREM SweptAlways == Spec => []SweptToFixation
<1>1. Spec => [](Types /\ SweepInv)
  <2>1. Init => Types /\ SweepInv
    BY InitTypes, InitSwept
  <2>2. Types /\ SweepInv /\ [Next]_vars => (Types /\ SweepInv)'
    BY NextTypes, NextSwept
  <2> QED BY <2>1, <2>2, PTL DEF Spec
<1>2. SweepInv => SweptToFixation
  BY DEF SweepInv, Swept, Rested, Settled, SweptToFixation, Idle
<1> QED BY <1>1, <1>2, PTL

-----------------------------------------------------------------------------
(* The chain a validator serves. *)

Replays(c) == \A n \in DOMAIN c : ~Refused(c, n) /\ c[n].beside = {}

Serves(v) == Up(v) /\ unsaved[v] = {} => Replays(chain[v])

\* A block that executes on top of a chain that replays.
LEMMA ReplaysAppend ==
  ASSUME NEW c \in Seq(Block), NEW b \in Block, Replays(c),
         Executes(Sealed(c), b.tx), b.beside = {}
  PROVE  Replays(Append(c, b))
<1> DEFINE d == Append(c, b)
<1>1. /\ d \in Seq(Block) /\ Len(c) \in Nat /\ Len(d) = Len(c) + 1
      /\ DOMAIN c = 1 .. Len(c) /\ DOMAIN d = 1 .. Len(c) + 1 /\ d[Len(c) + 1] = b
      /\ \A i \in 1 .. Len(c) : d[i] = c[i]
  BY SMT, AppendProperties, LenProperties
<1> HIDE DEF d
<1>2. ASSUME NEW n \in 1 .. Len(c) + 1 PROVE SubSeq(d, 1, n - 1) = SubSeq(c, 1, n - 1)
  <2>1. n - 1 \in 0 .. Len(c)
    BY SMT, <1>1
  <2>2. /\ SubSeq(d, 1, n - 1) \in Seq(Block) /\ SubSeq(c, 1, n - 1) \in Seq(Block)
        /\ Len(SubSeq(d, 1, n - 1)) = n - 1 /\ Len(SubSeq(c, 1, n - 1)) = n - 1
        /\ \A i \in 1 .. n - 1 : SubSeq(d, 1, n - 1)[i] = d[i] /\ SubSeq(c, 1, n - 1)[i] = c[i]
    BY SMT, <1>1, <2>1, SubSeqProperties
  <2>3. \A i \in 1 .. n - 1 : d[i] = c[i]
    BY SMT, <1>1, <2>1
  <2> QED BY <2>2, <2>3, SeqEqual
<1>3. SubSeq(c, 1, Len(c)) = c
  BY <1>1, SubSeqFull
<1>4. ASSUME NEW n \in 1 .. Len(c) + 1 PROVE ~Refused(d, n) /\ d[n].beside = {}
  <2>1. CASE n = Len(c) + 1
    <3>1. SubSeq(d, 1, n - 1) = c
      BY SMT, <1>1, <1>2, <1>3, <2>1
    <3> QED BY <1>1, <2>1, <3>1 DEF Refused
  <2>2. CASE n # Len(c) + 1
    <3>1. n \in 1 .. Len(c)
      BY SMT, <1>1, <2>2
    <3>2. ~Refused(c, n) /\ c[n].beside = {} /\ d[n] = c[n]
      BY <1>1, <3>1 DEF Replays
    <3> QED BY <1>2, <3>2 DEF Refused
  <2> QED BY <2>1, <2>2
<1> QED BY <1>1, <1>4 DEF Replays, d

\* Every step keeps what is served replayable: a new block executes on top of
\* it, and a restart serves only what replay_blocks gets through.
LEMMA NextServes ==
  Types /\ (\A v \in Validators : Serves(v)) /\ [Next]_vars => \A v \in Validators : Serves(v)'
<1> SUFFICES ASSUME Types, \A v \in Validators : Serves(v), [Next]_vars, NEW w \in Validators
             PROVE  Serves(w)'
  OBVIOUS
<1>1. ASSUME task'[w] = task[w], chain'[w] = chain[w], unsaved'[w] = unsaved[w]
      PROVE  Serves(w)'
  BY <1>1 DEF Serves, Up
<1>2. /\ task \in [Validators -> Task] /\ chain \in [Validators -> Seq(Block)]
      /\ unsaved \in [Validators -> SUBSET Payloads]
  BY DEF Types, TasksOK, LedgersOK
<1>3. ASSUME NEW v \in Validators,
             \/ Execute(v) \/ SaveFails(v) \/ Crash(v) \/ Restart(v) \/ Reset(v)
      PROVE  Serves(w)'
  <2>1. CASE w # v
    BY <1>1, <1>3, <2>1, StepIsLocal
  <2> SUFFICES Serves(v)'
    BY <2>1
  <2>2. ASSUME task[v].phase # "down", chain'[v] = chain[v], unsaved'[v] = unsaved[v]
        PROVE  Serves(v)'
    BY <2>2 DEF Serves, Up
  <2>3. CASE ReceiveCommit(v)
    BY <2>2, <2>3 DEF ReceiveCommit, ledger
  <2>4. CASE EndSweep(v)
    BY <2>2, <2>4 DEF EndSweep, ledger
  <2>5. CASE TryPayload(v)
    <3> DEFINE p == Head(task[v].todo)
               b == [tx |-> p, ts |-> task[v].lastTs, beside |-> unsaved[v]]
    <3>1. task[v].phase # "down" /\ unsaved'[v] = unsaved[v]
      BY <2>5 DEF TryPayload
    <3>2. CASE ~Seals(v, p)
      BY <2>2, <2>5, <3>1, <3>2 DEF TryPayload
    <3>3. CASE Seals(v, p) /\ unsaved[v] = {}
      <4>1. chain'[v] = Append(chain[v], b)
        BY <1>2, <2>5, <3>3 DEF TryPayload
      <4>2. Executes(Sealed(chain[v]), p)
        BY <3>3 DEF Seals, Executed
      <4>3. b \in Block /\ b.tx = p /\ b.beside = {} /\ chain[v] \in Seq(Block)
        BY <1>2, <2>5, <3>3, TryTypes DEF Block, Task, Types, TryPayload
      <4>4. Replays(chain[v])
        BY <3>1, <3>3 DEF Serves, Up
      <4> HIDE DEF b
      <4>5. Replays(Append(chain[v], b))
        BY <4>2, <4>3, <4>4, ReplaysAppend
      <4> QED BY <4>1, <4>5 DEF Serves
    <3>4. CASE unsaved[v] # {}
      BY <3>1, <3>4 DEF Serves
    <3> QED BY <3>2, <3>3, <3>4
  <2>6. CASE SaveFails(v)
    <3>1. unsaved'[v] # {}
      BY <1>2, <2>6 DEF SaveFails
    <3> QED BY <3>1 DEF Serves
  <2>7. CASE Crash(v)
    <3>1. task'[v].phase = "down"
      BY <1>2, <2>7 DEF Crash, Started
    <3> QED BY <3>1 DEF Serves, Up
  <2>8. CASE Restart(v)
    <3>1. CASE \E n \in DOMAIN chain[v] : Stops(chain[v], n)
      BY <2>8, <3>1 DEF Restart, Serves, Up
    <3>2. CASE ~\E n \in DOMAIN chain[v] : Stops(chain[v], n)
      <4>1. Replays(chain[v])
        BY <3>2 DEF Replays, Stops
      <4>2. Replayed(chain[v]) = chain[v]
        BY <3>2 DEF Replayed
      <4>3. chain'[v] = chain[v]
        BY <1>2, <2>8, <4>2 DEF Restart
      <4> QED BY <4>1, <4>3 DEF Serves
    <3> QED BY <3>1, <3>2
  <2>9. CASE Reset(v)
    BY <2>9 DEF Reset, Serves, Up
  <2> QED BY <1>3, <2>3, <2>4, <2>5, <2>6, <2>7, <2>8, <2>9 DEF Execute
<1> QED BY <1>1, <1>3, StepIsOutside DEF Next

\* A validator that is up serves a chain that executes from genesis, as long as
\* no write has failed in this process: what an earlier process left behind
\* does not get past replay_blocks (execution.rs).
THEOREM ServedChainExecutes == Spec => []ServesExecutedChain
<1> DEFINE Inv == \A v \in Validators : Serves(v)
<1>1. Init => Inv
  <2> SUFFICES ASSUME Init, NEW v \in Validators PROVE Replays(chain[v])
    BY DEF Serves
  <2>1. chain[v] = <<>> /\ DOMAIN chain[v] = {}
    BY SMT DEF Init
  <2> QED BY <2>1 DEF Replays
<1>2. Types /\ Inv /\ [Next]_vars => (Types /\ Inv)'
  BY NextTypes, NextServes
<1>3. Inv => ServesExecutedChain
  BY DEF Serves, Replays, ServesExecutedChain
<1> HIDE DEF Inv
<1>4. Spec => []Inv
  BY InitTypes, <1>1, <1>2, PTL DEF Spec
<1> QED BY <1>3, <1>4, PTL

-----------------------------------------------------------------------------

(***************************************************************************)
(* Without faults.  What an execution task makes of the commits depends on *)
(* nothing else: all validators follow one course, each at its own pace.   *)
(***************************************************************************)

\* No process has died, and no write was lost.
Calm == \A v \in Validators : Up(v) /\ unsaved[v] = {}

\* What the execution task of v has made of the commits it has taken.
View(v) == [chain |-> chain[v], task |-> task[v], taken |-> taken[v]]

ViewType == [chain: Seq(Block), task: Task, taken: Nat]

(* Its next step, as a relation between views that names no validator. *)

SealsOn(c, p) == Executes(Sealed(c), p) /\ (p \in Thrifty => ~Raised(c))

Joined(t, commit) ==
  [phase |-> "sweeping", lastTs |-> Latest({commit_timestamp(commit), t.lastTs}),
   pending |-> <<>>, todo |-> Newest(t.pending \o ordered_payloads(commit)),
   progress |-> FALSE]

Takes(cs, x, y) ==
  /\ x.task.phase = "idle" /\ x.taken < Len(cs)
  /\ y = [chain |-> x.chain, task |-> Joined(x.task, cs[x.taken + 1]), taken |-> x.taken + 1]

Out(t) == [t EXCEPT !.todo = Tail(@), !.progress = TRUE]
Back(t) == [t EXCEPT !.todo = Tail(@), !.pending = Append(@, Head(t.todo))]

Tries(x, y) ==
  /\ x.task.phase = "sweeping" /\ x.task.todo # <<>>
  /\ LET p == Head(x.task.todo)
         block == [tx |-> p, ts |-> x.task.lastTs, beside |-> {}]
     IN  y = IF SealsOn(x.chain, p)
             THEN [chain |-> Append(x.chain, block), task |-> Out(x.task), taken |-> x.taken]
             ELSE [chain |-> x.chain, task |-> Back(x.task), taken |-> x.taken]

Again(t) == [t EXCEPT !.todo = t.pending, !.pending = <<>>, !.progress = FALSE]
Rest(t) == [t EXCEPT !.phase = "idle", !.progress = FALSE]

Ends(x, y) ==
  /\ x.task.phase = "sweeping" /\ x.task.todo = <<>>
  /\ y = [chain |-> x.chain, taken |-> x.taken,
          task |-> IF AnotherSweep(x.task) THEN Again(x.task) ELSE Rest(x.task)]

Moves(cs, x, y) == Takes(cs, x, y) \/ Tries(x, y) \/ Ends(x, y)

\* A course: each view is the step after the one before it, and every
\* validator is somewhere on it.
IsCourse(c) ==
  /\ \A k \in 1 .. Len(c) : c[k].taken <= Len(commits)
  /\ \A k \in 1 .. Len(c) : k # Len(c) => Moves(commits, c[k], c[k + 1])
  /\ \A v \in Validators : \E k \in 1 .. Len(c) : c[k] = View(v)

OneCourse == \E c \in Seq(ViewType) : IsCourse(c)

-----------------------------------------------------------------------------
\* There is one step only.
LEMMA MovesOnce ==
  ASSUME NEW cs, NEW x, NEW y, NEW z, Moves(cs, x, y), Moves(cs, x, z)
  PROVE  y = z
<1>1. CASE x.task.phase = "idle"
  <2>1. "idle" # "sweeping"
    BY SMT
  <2> QED
    BY <1>1, <2>1 DEF Moves, Takes, Tries, Ends
<1>2. CASE x.task.phase # "idle" /\ x.task.todo # <<>>
  BY <1>2 DEF Moves, Takes, Tries, Ends
<1>3. CASE x.task.phase # "idle" /\ x.task.todo = <<>>
  BY <1>3 DEF Moves, Takes, Tries, Ends
<1> QED
  BY <1>1, <1>2, <1>3

ViewsTyped ==
  \A v \in Validators : View(v) \in ViewType /\ View(v).taken <= Len(commits)

\* The views of validators are views, of commits that there are.
LEMMA ViewIs == Types => ViewsTyped
<1> SUFFICES ASSUME Types, NEW v \in Validators
             PROVE  View(v) \in ViewType /\ View(v).taken <= Len(commits)
  BY DEF ViewsTyped
<1>1. chain[v] \in Seq(Block) /\ task[v] \in Task /\ taken[v] \in Nat
  BY DEF Types, LedgersOK, TasksOK, PlacesOK
<1>2. taken[v] <= Len(commits)
  <2>1. taken[v] <= given[v] /\ given[v] <= Len(commits) /\ given[v] \in Nat
    BY DEF Types, PlacesOK
  <2>2. Len(commits) \in Nat
    BY LenProperties DEF Types, CommitsOK
  <2> QED
    BY SMT, <1>1, <2>1, <2>2
<1>3. View(v) \in ViewType
  BY <1>1 DEF View, ViewType
<1>4. View(v).taken = taken[v]
  BY SMT DEF View
<1> QED
  BY <1>2, <1>3, <1>4

\* The same after a step.
LEMMA ViewIsNext == Types' => ViewsTyped'
  BY ViewIs, PTL

\* A step of the execution task of v is the next step of its view.
LEMMA TaskMoves ==
  ASSUME Types, NEW v \in Validators, unsaved[v] = {}, Execute(v)
  PROVE  Moves(commits, View(v), View(v)')
<1> DEFINE x == View(v)
<1>1. /\ chain[v] \in Seq(Block) /\ task[v] \in Task /\ taken[v] \in Nat
      /\ chain \in [Validators -> Seq(Block)] /\ task \in [Validators -> Task]
      /\ taken \in [Validators -> Nat]
  BY DEF Types, LedgersOK, TasksOK, PlacesOK
<1>2. x.chain = chain[v] /\ x.task = task[v] /\ x.taken = taken[v]
  BY SMT DEF View
<1>3. View(v)' = [chain |-> chain'[v], task |-> task'[v], taken |-> taken'[v]]
  BY DEF View
<1> HIDE DEF x
<1>4. CASE ReceiveCommit(v)
  <2>1. /\ chain'[v] = chain[v] /\ taken'[v] = taken[v] + 1
        /\ task'[v] = Joined(task[v], commits[taken[v] + 1])
    BY <1>1, <1>4 DEF ReceiveCommit, ledger, Joined, Stamp
  <2>2. taken[v] < Len(commits)
    <3>1. /\ taken[v] < given[v] /\ given[v] <= Len(commits) /\ given[v] \in Nat
          /\ Len(commits) \in Nat
      BY <1>4, LenProperties DEF ReceiveCommit, Types, PlacesOK, CommitsOK
    <3> QED
      BY SMT, <1>1, <3>1
  <2>3. task[v].phase = "idle"
    BY <1>4 DEF ReceiveCommit
  <2> QED
    BY <1>2, <1>3, <2>1, <2>2, <2>3 DEF Moves, Takes, x
<1>5. CASE TryPayload(v)
  <2> DEFINE p == Head(task[v].todo)
  <2>1. task[v].phase = "sweeping" /\ task[v].todo # <<>> /\ taken'[v] = taken[v]
    BY <1>5 DEF TryPayload
  <2>2. Seals(v, p) <=> SealsOn(chain[v], p)
    <3>1. Executed(v) = Sealed(chain[v])
      BY DEF Executed
    <3> QED
      BY <3>1 DEF Seals, SealsOn
  <2>3. CASE Seals(v, p)
    <3>1. chain'[v] = Append(chain[v], [tx |-> p, ts |-> task[v].lastTs, beside |-> {}])
      <4> DEFINE b == [tx |-> p, ts |-> task[v].lastTs, beside |-> unsaved[v]]
      <4>1. chain' = [chain EXCEPT ![v] = Append(@, b)]
        BY <1>5, <2>3 DEF TryPayload
      <4>2. b = [tx |-> p, ts |-> task[v].lastTs, beside |-> {}]
        OBVIOUS
      <4> HIDE DEF b
      <4> QED
        BY <1>1, <4>1, <4>2
    <3>2. task'[v] = Out(task[v])
      <4>1. task' = [task EXCEPT ![v].todo = Tail(@), ![v].progress = TRUE]
        BY <1>5, <2>3 DEF TryPayload
      <4> QED
        BY <1>1, <4>1 DEF Out
    <3> QED
      BY <1>2, <1>3, <2>1, <2>2, <2>3, <3>1, <3>2 DEF Moves, Tries, x
  <2>4. CASE ~Seals(v, p)
    <3>1. chain'[v] = chain[v] /\ task'[v] = Back(task[v])
      BY <1>1, <1>5, <2>4 DEF TryPayload, Back
    <3> QED
      BY <1>2, <1>3, <2>1, <2>2, <2>4, <3>1 DEF Moves, Tries, x
  <2> QED
    BY <2>3, <2>4
<1>6. CASE EndSweep(v)
  <2>1. /\ task[v].phase = "sweeping" /\ task[v].todo = <<>>
        /\ taken'[v] = taken[v] /\ chain'[v] = chain[v]
    BY <1>6 DEF EndSweep, ledger
  <2>2. task'[v] = IF AnotherSweep(task[v]) THEN Again(task[v]) ELSE Rest(task[v])
    BY <1>1, <1>6 DEF EndSweep, Again, Rest
  <2> QED
    BY <1>2, <1>3, <2>1, <2>2 DEF Moves, Ends, x
<1> QED
  BY <1>4, <1>5, <1>6 DEF Execute, x

-----------------------------------------------------------------------------
(* Along the course chains only grow. *)

Extends(d, c) == Len(c) <= Len(d) /\ \A n \in 1 .. Len(c) : d[n] = c[n]

Grows(x, y) == x.taken <= y.taken /\ Extends(y.chain, x.chain)

\* A chain extends itself, and what it was made from by a block more.
LEMMA ExtendsChain ==
  /\ \A c \in Seq(Block) : Extends(c, c)
  /\ \A c \in Seq(Block) : \A b \in Block : Extends(Append(c, b), c)
  /\ \A c, d, e \in Seq(Block) : Extends(d, c) /\ Extends(e, d) => Extends(e, c)
<1>1. \A c \in Seq(Block) : Extends(c, c)
  <2> TAKE c \in Seq(Block)
  <2>1. Len(c) \in Nat
    BY LenProperties
  <2> QED
    BY SMT, <2>1 DEF Extends
<1>2. \A c \in Seq(Block) : \A b \in Block : Extends(Append(c, b), c)
  <2> TAKE c \in Seq(Block)
  <2> TAKE b \in Block
  <2>1. /\ Len(c) \in Nat /\ Len(Append(c, b)) = Len(c) + 1
        /\ \A n \in 1 .. Len(c) : Append(c, b)[n] = c[n]
    BY SMT, AppendProperties, LenProperties
  <2>2. Len(c) <= Len(Append(c, b))
    BY SMT, <2>1
  <2> QED
    BY <2>1, <2>2 DEF Extends
<1>3. \A c, d, e \in Seq(Block) : Extends(d, c) /\ Extends(e, d) => Extends(e, c)
  <2> SUFFICES ASSUME NEW c \in Seq(Block), NEW d \in Seq(Block), NEW e \in Seq(Block),
                      Extends(d, c), Extends(e, d)
               PROVE  Extends(e, c)
    OBVIOUS
  <2>1. /\ Len(c) \in Nat /\ Len(d) \in Nat /\ Len(e) \in Nat
        /\ Len(c) <= Len(d) /\ Len(d) <= Len(e)
    BY LenProperties DEF Extends
  <2>2. Len(c) <= Len(e) /\ \A n \in 1 .. Len(c) : n \in 1 .. Len(d)
    BY SMT, <2>1
  <2> QED
    BY <2>2 DEF Extends
<1> QED
  BY <1>1, <1>2, <1>3

\* A step adds a block at most, and a task that was idle takes a commit.
LEMMA MovesGrow ==
  ASSUME NEW cs, NEW x \in ViewType, NEW y \in ViewType, Moves(cs, x, y)
  PROVE  Grows(x, y) /\ (x.task.phase = "idle" => y.taken = x.taken + 1)
<1>1. x.chain \in Seq(Block) /\ x.taken \in Nat /\ x.task \in Task
  BY DEF ViewType
<1>2. x.taken <= x.taken /\ x.taken <= x.taken + 1 /\ "idle" # "sweeping"
  BY SMT, <1>1
<1>3. CASE Takes(cs, x, y)
  <2>1. y.chain = x.chain /\ y.taken = x.taken + 1
    BY <1>3 DEF Takes
  <2> QED
    BY <1>1, <1>2, <2>1, ExtendsChain DEF Grows
<1>4. CASE Tries(x, y)
  <2> DEFINE b == [tx |-> Head(x.task.todo), ts |-> x.task.lastTs, beside |-> {}]
  <2>1. x.task.phase = "sweeping" /\ y.taken = x.taken /\ y.chain \in {x.chain, Append(x.chain, b)}
    BY <1>4 DEF Tries
  <2>2. b \in Block
    <3>1. x.task.todo \in Seq(Payloads) /\ x.task.todo # <<>> /\ x.task.lastTs \in Clock \cup {0}
      BY <1>1, <1>4 DEF Task, Tries
    <3>2. Head(x.task.todo) \in Payloads
      BY <3>1, HeadTailProperties
    <3> QED
      BY <3>1, <3>2 DEF Block
  <2> HIDE DEF b
  <2> QED
    BY <1>1, <1>2, <2>1, <2>2, ExtendsChain DEF Grows
<1>5. CASE Ends(x, y)
  <2>1. x.task.phase = "sweeping" /\ y.taken = x.taken /\ y.chain = x.chain
    BY <1>5 DEF Ends
  <2> QED
    BY <1>1, <1>2, <2>1, ExtendsChain DEF Grows
<1> QED
  BY <1>3, <1>4, <1>5 DEF Moves

\* Later views on the course extend earlier ones.
LEMMA CourseGrows ==
  ASSUME NEW c \in Seq(ViewType), IsCourse(c), NEW i \in 1 .. Len(c)
  PROVE  \A j \in i .. Len(c) : Grows(c[i], c[j])
<1> DEFINE bad == {j \in i .. Len(c) : ~Grows(c[i], c[j])}
<1> SUFFICES ASSUME bad # {} PROVE FALSE
  OBVIOUS
<1>1. Len(c) \in Nat /\ \A k \in 1 .. Len(c) : c[k] \in ViewType
  BY LenProperties, ElementOfSeq
<1>2. bad \in SUBSET Nat
  BY SMT, <1>1
<1>3. PICK j \in bad : \A k \in bad : j <= k
  <2> HIDE DEF bad
  <2> QED
    BY <1>2, LeastNumber
<1>4. c[i].chain \in Seq(Block) /\ c[i].taken \in Nat
  BY <1>1 DEF ViewType
<1>5. Grows(c[i], c[i])
  <2>1. c[i].taken <= c[i].taken
    BY SMT, <1>4
  <2> QED
    BY <1>4, <2>1, ExtendsChain DEF Grows
<1>6. j # i /\ j \in i .. Len(c) /\ ~Grows(c[i], c[j])
  BY <1>3, <1>5
<1>7. /\ j - 1 \in i .. Len(c) /\ ~(j <= j - 1) /\ j \in 1 .. Len(c) /\ j - 1 \in 1 .. Len(c)
      /\ j - 1 # Len(c) /\ (j - 1) + 1 = j
  BY SMT, <1>1, <1>6
<1>8. Grows(c[i], c[j - 1])
  BY <1>3, <1>7
<1>9. Moves(commits, c[j - 1], c[j])
  BY <1>7 DEF IsCourse
<1>10. Grows(c[j - 1], c[j])
  BY <1>1, <1>7, <1>9, MovesGrow
<1>11. Grows(c[i], c[j])
  <2>1. /\ c[j].chain \in Seq(Block) /\ c[j].taken \in Nat
        /\ c[j - 1].chain \in Seq(Block) /\ c[j - 1].taken \in Nat
    BY <1>1, <1>7 DEF ViewType
  <2>2. Extends(c[j].chain, c[i].chain)
    BY <1>4, <1>8, <1>10, <2>1, ExtendsChain DEF Grows
  <2>3. c[i].taken <= c[j - 1].taken /\ c[j - 1].taken <= c[j].taken
    BY <1>8, <1>10 DEF Grows
  <2>4. c[i].taken <= c[j].taken
    BY SMT, <1>4, <2>1, <2>3
  <2> QED
    BY <2>2, <2>4 DEF Grows
<1> QED
  BY <1>6, <1>11

\* Of two validators that are past the same commits and idle, neither is ahead.
LEMMA NeitherAhead ==
  ASSUME NEW c \in Seq(ViewType), IsCourse(c), NEW i \in 1 .. Len(c), NEW j \in i .. Len(c),
         c[i].task.phase = "idle", c[i].taken = c[j].taken
  PROVE  c[i] = c[j]
<1> SUFFICES ASSUME i # j PROVE FALSE
  OBVIOUS
<1>1. Len(c) \in Nat /\ \A k \in 1 .. Len(c) : c[k] \in ViewType
  BY LenProperties, ElementOfSeq
<1>2. i + 1 \in 1 .. Len(c) /\ i # Len(c) /\ j \in i + 1 .. Len(c) /\ j \in 1 .. Len(c)
  BY SMT, <1>1
<1>3. Moves(commits, c[i], c[i + 1])
  BY <1>2 DEF IsCourse
<1>4. c[i + 1].taken = c[i].taken + 1
  BY <1>1, <1>2, <1>3, MovesGrow
<1>5. c[i + 1].taken <= c[j].taken
  BY <1>2, CourseGrows DEF Grows
<1>6. c[i].taken \in Nat
  BY <1>1 DEF ViewType
<1> QED
  BY SMT, <1>4, <1>5, <1>6

\* One course makes the chain and the queue a function of the commits.
LEMMA CoursePure == OneCourse => PureFunctionOfCommits
<1> SUFFICES ASSUME OneCourse, NEW v \in Validators, NEW w \in Validators,
                    Idle(v), Idle(w), taken[v] = taken[w]
             PROVE  chain[v] = chain[w] /\ task[v] = task[w]
  BY DEF PureFunctionOfCommits
<1>1. PICK c \in Seq(ViewType) : IsCourse(c)
  BY DEF OneCourse
<1>2. PICK i \in 1 .. Len(c) : c[i] = View(v)
  BY <1>1 DEF IsCourse
<1>3. PICK j \in 1 .. Len(c) : c[j] = View(w)
  BY <1>1 DEF IsCourse
<1>4. /\ View(v).task = task[v] /\ View(v).taken = taken[v] /\ View(v).chain = chain[v]
      /\ View(w).task = task[w] /\ View(w).taken = taken[w] /\ View(w).chain = chain[w]
  BY SMT DEF View
<1>5. c[i].task.phase = "idle" /\ c[j].task.phase = "idle" /\ c[i].taken = c[j].taken
  BY <1>2, <1>3, <1>4 DEF Idle
<1>6. j \in i .. Len(c) \/ i \in j .. Len(c)
  <2>1. Len(c) \in Nat
    BY LenProperties
  <2> QED
    BY SMT, <2>1
<1>7. c[i] = c[j]
  BY <1>1, <1>5, <1>6, NeitherAhead
<1> QED
  BY <1>2, <1>3, <1>4, <1>7

-----------------------------------------------------------------------------
(* Every step keeps to the course. *)

\* Nothing was taken at the start.
LEMMA InitCourse == Init => Calm /\ OneCourse
<1> SUFFICES ASSUME Init PROVE Calm /\ OneCourse
  OBVIOUS
<1> DEFINE x == [chain |-> <<>>, task |-> Started, taken |-> 0]
<1>1. Calm
  BY SMT, StartedType DEF Init, Calm, Up, Started
<1>2. x \in ViewType
  <2>1. <<>> \in Seq(Block) /\ Started \in Task /\ 0 \in Nat
    BY StartedType, EmptySeq
  <2> QED
    BY <2>1 DEF ViewType
<1>3. x.taken = 0 /\ Len(commits) = 0
  BY SMT DEF Init
<1>4. \A v \in Validators : View(v) = x
  BY DEF Init, View
<1> HIDE DEF x
<1>5. <<x>> \in Seq(ViewType) /\ Len(<<x>>) = 1 /\ <<x>>[1] = x
  BY SMT, <1>2
<1>6. \A k \in 1 .. Len(<<x>>) : k = 1
  BY SMT, <1>5
<1>7. 1 \in 1 .. Len(<<x>>) /\ 0 <= 0
  BY SMT, <1>5
<1>8. IsCourse(<<x>>)
  BY <1>3, <1>4, <1>5, <1>6, <1>7 DEF IsCourse
<1> QED
  BY <1>1, <1>5, <1>8 DEF OneCourse

\* Without faults nobody dies and nothing is lost.
LEMMA NextCalm ==
  ASSUME Faults = {}, Types, Calm, [Next]_vars
  PROVE  /\ Calm'
         /\ \/ task' = task /\ chain' = chain /\ taken' = taken
               /\ (commits' = commits \/ \E s \in Shapes : CommitSubDag(s))
            \/ \E v \in Validators : Execute(v) /\ commits' = commits
<1>1. \A kind : ~Fault(kind)
  BY DEF Fault
<1>2. \A v \in Validators : ~SaveFails(v) /\ ~Crash(v) /\ ~Restart(v) /\ ~Reset(v)
  BY <1>1 DEF SaveFails, Crash, Restart, Reset, Calm
<1>3. CASE \/ UNCHANGED vars
           \/ \E s \in Shapes : CommitSubDag(s)
           \/ \E v \in Validators : \/ \E p \in Payloads : Submit(v, p) \/ Drip(v, p)
                                    \/ Forward(v) \/ Deliver(v)
  <2>1. task' = task /\ chain' = chain /\ unsaved' = unsaved
    BY <1>3, StepIsOutside
  <2>2. taken' = taken /\ (commits' = commits \/ \E s \in Shapes : CommitSubDag(s))
    BY <1>3
    DEF vars, dag, CommitSubDag, Submit, Drip, send_raw_transaction, Forward, Deliver
  <2> QED
    BY <2>1, <2>2 DEF Calm, Up
<1>4. ASSUME NEW v \in Validators, Execute(v) PROVE Calm' /\ commits' = commits
  <2>1. unsaved' = unsaved /\ commits' = commits
    BY <1>4 DEF Execute, ReceiveCommit, TryPayload, EndSweep, dag, ledger
  <2>2. ASSUME NEW w \in Validators PROVE Up(w)'
    <3>1. CASE w # v
      BY <1>4, <3>1, StepIsLocal DEF Calm, Up
    <3>2. CASE w = v
      <4>1. task \in [Validators -> Task]
        BY DEF Types, TasksOK
      <4>2. CASE ReceiveCommit(v)
        BY <3>2, <4>1, <4>2 DEF ReceiveCommit, Up
      <4>3. CASE TryPayload(v)
        <5> DEFINE p == Head(task[v].todo)
        <5>1. task[v] \in Task /\ task[v].phase = "sweeping"
          BY <4>1, <4>3 DEF TryPayload
        <5>2. task'[v].phase = "sweeping"
          <6>1. CASE Seals(v, p)
            <7>1. task' = [task EXCEPT ![v].todo = Tail(@), ![v].progress = TRUE]
              BY <4>3, <6>1 DEF TryPayload
            <7> QED
              BY <4>1, <5>1, <7>1 DEF Task
          <6>2. CASE ~Seals(v, p)
            <7>1. task' = [task EXCEPT ![v].todo = Tail(@), ![v].pending = Append(@, p)]
              BY <4>3, <6>2 DEF TryPayload
            <7> HIDE DEF p
            <7> QED
              BY <4>1, <5>1, <7>1 DEF Task
          <6> QED
            BY <6>1, <6>2
        <5> QED
          BY <3>2, <5>2 DEF Up
      <4>4. CASE EndSweep(v)
        <5>1. task'[v].phase \in {"sweeping", "idle"}
          BY <4>1, <4>4 DEF EndSweep, Task
        <5> QED
          BY <3>2, <5>1 DEF Up
      <4> QED
        BY <1>4, <4>2, <4>3, <4>4 DEF Execute
    <3> QED
      BY <3>1, <3>2
  <2> QED
    BY <2>1, <2>2 DEF Calm
<1> QED
  BY <1>2, <1>3, <1>4 DEF Next

\* A commit more does not change the steps that were taken.
LEMMA MovesStill ==
  ASSUME NEW cs, NEW more, NEW x, NEW y, Moves(cs, x, y),
         x.taken < Len(cs) => more[x.taken + 1] = cs[x.taken + 1] /\ x.taken < Len(more)
  PROVE  Moves(more, x, y)
BY DEF Moves, Takes

\* The course is still one when a commit is added to the sequence.
LEMMA CourseCommits ==
  ASSUME Types, NEW c \in Seq(ViewType), IsCourse(c), NEW s \in Shapes, CommitSubDag(s),
         task' = task, chain' = chain, taken' = taken
  PROVE  IsCourse(c)'
<1>1. PICK d : commits' = Append(commits, d)
  BY DEF CommitSubDag
<1>2. commits \in Seq(CommitType) /\ Len(commits) \in Nat
  BY LenProperties DEF Types, CommitsOK
<1>3. Len(commits') = Len(commits) + 1 /\ \A n \in 1 .. Len(commits) : commits'[n] = commits[n]
  BY SMT, <1>1, <1>2
<1>4. \A k \in 1 .. Len(c) : c[k].taken \in Nat
  <2>1. \A k \in 1 .. Len(c) : c[k] \in ViewType
    BY ElementOfSeq
  <2> QED
    BY <2>1 DEF ViewType
<1>5. ASSUME NEW k \in 1 .. Len(c) PROVE c[k].taken <= Len(commits')
  <2>1. c[k].taken <= Len(commits)
    BY DEF IsCourse
  <2> QED
    BY SMT, <1>2, <1>3, <1>4, <2>1
<1>6. ASSUME NEW k \in 1 .. Len(c), k # Len(c) PROVE Moves(commits', c[k], c[k + 1])
  <2>1. Moves(commits, c[k], c[k + 1])
    BY <1>6 DEF IsCourse
  <2>2. ASSUME c[k].taken < Len(commits)
        PROVE  commits'[c[k].taken + 1] = commits[c[k].taken + 1] /\ c[k].taken < Len(commits')
    <3>1. c[k].taken + 1 \in 1 .. Len(commits) /\ c[k].taken < Len(commits')
      BY SMT, <1>2, <1>3, <1>4, <2>2
    <3> QED
      BY <1>3, <3>1
  <2> QED
    BY <2>1, <2>2, MovesStill
<1>7. \A v \in Validators : \E k \in 1 .. Len(c) : c[k] = View(v)'
  BY DEF IsCourse, View
<1> QED
  BY <1>5, <1>6, <1>7 DEF IsCourse

\* A step of an execution task follows the course, or adds to its end.
LEMMA CourseMoves ==
  ASSUME Types, Types', Calm, NEW c \in Seq(ViewType), IsCourse(c),
         NEW v \in Validators, Execute(v), commits' = commits
  PROVE  OneCourse'
<1>1. Moves(commits, View(v), View(v)')
  BY TaskMoves DEF Calm
<1>2. ASSUME NEW w \in Validators, w # v PROVE View(w)' = View(w)
  <2>1. task'[w] = task[w] /\ chain'[w] = chain[w]
    BY <1>2, StepIsLocal
  <2>2. taken'[w] = taken[w]
    <3>1. taken \in [Validators -> Nat]
      BY DEF Types, PlacesOK
    <3> QED
      BY <1>2, <3>1 DEF Execute, ReceiveCommit, TryPayload, EndSweep
  <2> QED
    BY <2>1, <2>2 DEF View
<1> DEFINE y == View(v)'
<1>3. y \in ViewType /\ y.taken <= Len(commits)
  BY ViewIsNext DEF ViewsTyped
<1>4. PICK k \in 1 .. Len(c) : c[k] = View(v)
  BY DEF IsCourse
<1>5. Len(c) \in Nat
  BY LenProperties
<1>6. CASE k # Len(c)
  <2>1. k + 1 \in 1 .. Len(c)
    BY SMT, <1>5, <1>6
  <2>2. c[k + 1] = y
    <3>1. Moves(commits, View(v), c[k + 1])
      BY <1>4, <1>6 DEF IsCourse
    <3> QED
      BY <1>1, <3>1, MovesOnce
  <2>3. \A w \in Validators : \E j \in 1 .. Len(c) : c[j] = View(w)'
    BY <1>2, <2>1, <2>2 DEF IsCourse
  <2>4. IsCourse(c)'
    BY <2>3 DEF IsCourse
  <2> QED
    BY <2>4 DEF OneCourse
<1>7. CASE k = Len(c)
  <2> HIDE DEF y
  <2> DEFINE d == Append(c, y)
  <2>1. /\ d \in Seq(ViewType) /\ Len(d) = Len(c) + 1 /\ d[Len(c) + 1] = y
        /\ \A j \in 1 .. Len(c) : d[j] = c[j]
    BY SMT, <1>3, AppendProperties
  <2> HIDE DEF d
  <2>2. /\ Len(c) + 1 \in 1 .. Len(d) /\ \A j \in 1 .. Len(c) : j \in 1 .. Len(d)
        /\ \A j \in 1 .. Len(d) : j # Len(d) => j \in 1 .. Len(c)
        /\ \A j \in 1 .. Len(c) : j # Len(c) => j + 1 \in 1 .. Len(c)
    BY SMT, <1>5, <2>1
  <2>3. \A j \in 1 .. Len(d) : d[j].taken <= Len(commits)
    BY <1>3, <2>1, <2>2 DEF IsCourse
  <2>4. ASSUME NEW j \in 1 .. Len(d), j # Len(d) PROVE Moves(commits, d[j], d[j + 1])
    <3>1. CASE j = Len(c)
      BY <1>1, <1>4, <1>7, <2>1, <2>2, <2>4, <3>1 DEF y
    <3>2. CASE j # Len(c)
      BY <2>1, <2>2, <2>4, <3>2 DEF IsCourse
    <3> QED
      BY <3>1, <3>2
  <2>5. \A w \in Validators : \E j \in 1 .. Len(d) : d[j] = View(w)'
    BY <1>2, <2>1, <2>2 DEF IsCourse, y
  <2>6. \E e \in Seq(ViewType) : IsCourse(e)'
    BY <2>1, <2>3, <2>4, <2>5 DEF IsCourse
  <2> QED
    BY <2>6 DEF OneCourse
<1> QED
  BY <1>6, <1>7

\* Every step keeps to one course.
LEMMA NextCourse ==
  ASSUME Faults = {}, Types, Types', Calm, OneCourse, [Next]_vars
  PROVE  OneCourse'
<1>1. PICK c \in Seq(ViewType) : IsCourse(c)
  BY DEF OneCourse
<1>2. CASE task' = task /\ chain' = chain /\ taken' = taken /\ commits' = commits
  <2>1. IsCourse(c)'
    BY <1>1, <1>2 DEF IsCourse, View
  <2> QED
    BY <2>1 DEF OneCourse
<1>3. CASE /\ task' = task /\ chain' = chain /\ taken' = taken
           /\ \E s \in Shapes : CommitSubDag(s)
  <2>1. IsCourse(c)'
    BY <1>1, <1>3, CourseCommits
  <2> QED
    BY <2>1 DEF OneCourse
<1>4. CASE \E v \in Validators : Execute(v) /\ commits' = commits
  BY <1>1, <1>4, CourseMoves
<1> QED
  BY <1>2, <1>3, <1>4, NextCalm

\* ARCHITECTURE.md, invariant 5: without crashes, failed writes and resets the
\* chain and the queue of every validator are a pure function of the commit
\* sequence, for any committee, payloads and sub-DAGs.
THEOREM CommitsDecide == ASSUME Faults = {} PROVE Spec => []PureFunctionOfCommits
<1> DEFINE Inv == Types /\ Calm /\ OneCourse
<1>1. Init => Inv
  BY InitTypes, InitCourse
<1>2. Inv /\ [Next]_vars => Inv'
  <2>1. Types /\ [Next]_vars => Types'
    BY SMT, NextTypes
  <2> QED
    BY <2>1, NextCalm, NextCourse
<1>3. Inv => PureFunctionOfCommits
  BY CoursePure
<1> HIDE DEF Inv
<1> QED
  BY <1>1, <1>2, <1>3, PTL DEF Spec

-----------------------------------------------------------------------------
(* The validators implement the replicated log. *)

\* A commit without blocks has no payloads.
LEMMA NoBlocks ==
  ASSUME NEW commit \in CommitType, commit.blocks = <<>>
  PROVE  ordered_payloads(commit) = <<>>
<1> DEFINE Step(f, n) == IF n = 0 THEN <<>> ELSE f[n - 1] \o commit.blocks[n].txs
           first == CHOOSE f : f = [n \in 0 .. Len(commit.blocks) |-> Step(f, n)]
           none == [n \in 0 .. 0 |-> <<>>]
<1>1. Len(commit.blocks) = 0
  BY EmptySeq
<1>2. \A n \in 0 .. 0 : n = 0
  BY SMT
<1>3. none = [n \in 0 .. Len(commit.blocks) |-> Step(none, n)]
  BY <1>1, <1>2
<1> HIDE DEF none
<1>4. first = [n \in 0 .. Len(commit.blocks) |-> Step(first, n)]
  BY <1>3
<1>5. ordered_payloads(commit) = first[0]
  BY <1>1 DEF ordered_payloads
<1> HIDE DEF first
<1>6. 0 \in 0 .. 0
  BY SMT
<1> QED
  BY <1>1, <1>4, <1>5, <1>6

\* The newest of nothing is nothing.
LEMMA NewestEmpty == Newest(<<>>) = <<>> /\ <<>> \o <<>> = <<>>
<1>1. Len(<<>>) = 0 /\ <<>> \o <<>> = <<>>
  BY SMT
<1>2. 0 <= MaxPending
  BY SMT, ConstantFacts
<1> QED
  BY <1>1, <1>2 DEF Newest

\* The clock of the task is not before its last block, and it has been set
\* by a block of the DAG once there are payloads to seal.
Clocked(v) ==
  /\ chain[v] # <<>> => chain[v][Len(chain[v])].ts <= task[v].lastTs
  /\ task[v].lastTs \in Clock \/ (task[v].pending = <<>> /\ task[v].todo = <<>>)

\* Timestamps in the invariant are numbers.
LEMMA ClockFacts ==
  ASSUME Types, NEW v \in Validators
  PROVE  /\ task[v] \in Task /\ task[v].lastTs \in Nat /\ task[v].lastTs \in Clock \cup {0}
         /\ chain[v] # <<>> => chain[v][Len(chain[v])].ts \in Nat
<1>1. task[v] \in Task /\ chain[v] \in Seq(Block)
  BY DEF Types, TasksOK, LedgersOK
<1>2. task[v].lastTs \in Clock \cup {0} /\ task[v].lastTs \in Nat
  <2>1. task[v].lastTs \in Clock \cup {0}
    BY <1>1 DEF Task
  <2> QED
    BY <2>1, ConstantFacts
<1>3. ASSUME chain[v] # <<>> PROVE chain[v][Len(chain[v])].ts \in Nat
  <2>1. Len(chain[v]) \in 1 .. Len(chain[v])
    <3>1. Len(chain[v]) \in Nat /\ Len(chain[v]) # 0
      BY <1>1, <1>3, LenProperties, EmptySeq
    <3> QED
      BY SMT, <3>1
  <2>2. chain[v][Len(chain[v])] \in Block
    BY <1>1, <2>1, ElementOfSeq
  <2>3. chain[v][Len(chain[v])].ts \in Clock \cup {0}
    BY <2>2 DEF Block
  <2> QED
    BY <2>3, ConstantFacts
<1> QED
  BY <1>1, <1>2, <1>3

\* Taking a commit moves the clock on.
LEMMA ReceiveClocked ==
  ASSUME Types, NEW v \in Validators, Clocked(v), ReceiveCommit(v)
  PROVE  Clocked(v)'
<1> DEFINE commit == commits[taken[v] + 1]
           ts == commit_timestamp(commit)
           last == task[v].lastTs
           now == Latest({ts, last})
<1>1. commit \in CommitType /\ commit.anchor <= Len(commit.blocks)
  <2>1. taken[v] + 1 \in 1 .. Len(commits)
    <3>1. /\ taken[v] \in Nat /\ given[v] \in Nat /\ Len(commits) \in Nat
          /\ taken[v] < given[v] /\ given[v] <= Len(commits)
      BY LenProperties DEF Types, PlacesOK, CommitsOK, ReceiveCommit
    <3> QED
      BY SMT, <3>1
  <2> QED
    BY <2>1, ElementOfSeq DEF Types, CommitsOK, AnchorsInside
<1> HIDE DEF commit
<1>2. /\ ts \in Nat /\ last \in Nat /\ last \in Clock \cup {0}
      /\ commit.blocks = <<>> \/ ts \in Clock
  BY <1>1, TimestampType, ClockFacts, ConstantFacts
<1>3. /\ task'[v].lastTs = now /\ task'[v].pending = <<>>
      /\ task'[v].todo = Newest(task[v].pending \o ordered_payloads(commit))
      /\ chain'[v] = chain[v]
  BY DEF ReceiveCommit, Types, TasksOK, Stamp, ledger, commit
<1> HIDE DEF ts, last
<1>4. now \in {ts, last} /\ ts <= now /\ last <= now
  BY <1>2, LatestOfTwo
<1> HIDE DEF now
<1>5. chain[v] # <<>> => chain[v][Len(chain[v])].ts <= now
  <2> SUFFICES ASSUME chain[v] # <<>> PROVE chain[v][Len(chain[v])].ts <= now
    OBVIOUS
  <2> DEFINE top == chain[v][Len(chain[v])].ts
  <2>1. top \in Nat /\ top <= last
    BY ClockFacts DEF Clocked, last
  <2>2. now \in Nat
    BY <1>2, <1>4
  <2> HIDE DEF top
  <2>3. top <= now
    BY SMT, <1>2, <1>4, <2>1, <2>2
  <2> QED
    BY <2>3 DEF top
<1>6. CASE now \in Clock
  BY <1>3, <1>5, <1>6 DEF Clocked
<1>7. CASE now \notin Clock
  <2>1. last \notin Clock
    <3> SUFFICES ASSUME last \in Clock PROVE now = last
      BY <1>7
    <3>1. CASE now = ts
      <4>1. ts \notin Clock
        BY <1>7, <3>1
      <4>2. ts = 0
        BY <1>1, <4>1, TimestampType DEF ts
      <4> QED
        BY SMT, <1>2, <1>4, <3>1, <4>2
    <3> QED
      BY <1>4, <3>1
  <2>2. ts \notin Clock
    <3> SUFFICES ASSUME ts \in Clock PROVE now = ts
      BY <1>7
    <3>1. CASE now = last
      <4>1. last = 0
        BY <1>2, <2>1
      <4> QED
        BY SMT, <1>2, <1>4, <3>1, <4>1
    <3> QED
      BY <1>4, <3>1
  <2>3. ordered_payloads(commit) = <<>>
    BY <1>1, <1>2, <2>2, NoBlocks
  <2>4. task[v].pending = <<>>
    BY <2>1 DEF Clocked, last
  <2>5. task'[v].todo = <<>>
    BY <1>3, <2>3, <2>4, NewestEmpty
  <2> QED
    BY <1>3, <1>5, <2>5 DEF Clocked
<1> QED
  BY <1>6, <1>7

\* Every step of a task keeps the clock.
LEMMA NextClocked ==
  ASSUME Types, Types', \A v \in Validators : Clocked(v),
         \/ task' = task /\ chain' = chain
         \/ \E v \in Validators : Execute(v)
  PROVE  \A w \in Validators : Clocked(w)'
<1> SUFFICES ASSUME NEW w \in Validators PROVE Clocked(w)'
  OBVIOUS
<1>1. ASSUME task'[w] = task[w], chain'[w] = chain[w] PROVE Clocked(w)'
  BY <1>1 DEF Clocked
<1>2. ASSUME NEW v \in Validators, Execute(v) PROVE Clocked(w)'
  <2>1. CASE w # v
    BY <1>1, <1>2, <2>1, StepIsLocal
  <2> SUFFICES Clocked(v)'
    BY <2>1
  <2>2. Clocked(v) /\ task \in [Validators -> Task] /\ chain \in [Validators -> Seq(Block)]
    BY DEF Types, TasksOK, LedgersOK
  <2>3. task[v] \in Task /\ task[v].lastTs \in Nat /\ chain[v] \in Seq(Block)
    BY <2>2, ClockFacts
  <2>4. CASE ReceiveCommit(v)
    BY <2>2, <2>4, ReceiveClocked
  <2>5. CASE TryPayload(v)
    <3> DEFINE p == Head(task[v].todo)
               b == [tx |-> p, ts |-> task[v].lastTs, beside |-> unsaved[v]]
    <3>1. task[v].lastTs \in Clock
      BY <2>2, <2>5 DEF Clocked, TryPayload
    <3>2. CASE Seals(v, p)
      <4>1. /\ chain' = [chain EXCEPT ![v] = Append(@, b)]
            /\ task' = [task EXCEPT ![v].todo = Tail(@), ![v].progress = TRUE]
        BY <2>5, <3>2 DEF TryPayload
      <4>2. b.ts = task[v].lastTs
        OBVIOUS
      <4>3. b \in Block
        <5>1. p \in Payloads /\ unsaved[v] \in SUBSET Payloads /\ task[v].lastTs \in Clock \cup {0}
          BY <2>5, <3>1, TryTypes DEF TryPayload, Types, LedgersOK
        <5> HIDE DEF p
        <5> QED
          BY <5>1 DEF Block
      <4> HIDE DEF b
      <4>4. chain'[v] = Append(chain[v], b) /\ task'[v].lastTs = task[v].lastTs
        BY <2>2, <2>3, <4>1 DEF Task
      <4>5. Append(chain[v], b)[Len(Append(chain[v], b))] = b
        BY SMT, <2>3, <4>3, AppendProperties, LenProperties
      <4>6. task[v].lastTs <= task[v].lastTs
        BY SMT, <2>3
      <4> QED
        BY <3>1, <4>2, <4>4, <4>5, <4>6 DEF Clocked
    <3>3. CASE ~Seals(v, p)
      <4>1. /\ chain' = chain
            /\ task' = [task EXCEPT ![v].todo = Tail(@), ![v].pending = Append(@, p)]
        BY <2>5, <3>3 DEF TryPayload
      <4> HIDE DEF p
      <4>2. task'[v].lastTs = task[v].lastTs
        BY <2>2, <2>3, <4>1 DEF Task
      <4> QED
        BY <2>2, <3>1, <4>1, <4>2 DEF Clocked
    <3> QED
      BY <3>2, <3>3
  <2>6. CASE EndSweep(v)
    <3>1. chain' = chain /\ task[v].todo = <<>>
      BY <2>6 DEF EndSweep, ledger
    <3>2. CASE AnotherSweep(task[v])
      <4>1. /\ task'[v].lastTs = task[v].lastTs
            /\ task'[v].todo = task[v].pending /\ task'[v].pending = <<>>
        BY <2>2, <2>3, <2>6, <3>2 DEF EndSweep, Task
      <4> QED
        BY <2>2, <3>1, <4>1 DEF Clocked
    <3>3. CASE ~AnotherSweep(task[v])
      <4>1. /\ task'[v].lastTs = task[v].lastTs
            /\ task'[v].todo = task[v].todo /\ task'[v].pending = task[v].pending
        BY <2>2, <2>3, <2>6, <3>3 DEF EndSweep, Task
      <4> QED
        BY <2>2, <3>1, <4>1 DEF Clocked
    <3> QED
      BY <3>2, <3>3
  <2> QED
    BY <1>2, <2>4, <2>5, <2>6 DEF Execute
<1> QED
  BY <1>1, <1>2

\* The theorems on finite sets, which nothing above needs.
INSTANCE FiniteSetTheorems

\* The payloads of a chain are finitely many.
LEMMA SealedFinite ==
  ASSUME NEW c \in Seq(Block)
  PROVE  IsFiniteSet(Sealed(c)) /\ \A q : q \in Sealed(c) <=> \E n \in 1 .. Len(c) : c[n].tx = q
<1>1. Len(c) \in Nat /\ DOMAIN c = 1 .. Len(c)
  BY LenProperties
<1>2. \A q : q \in Sealed(c) <=> \E n \in 1 .. Len(c) : c[n].tx = q
  BY <1>1 DEF Sealed, Range
<1> DEFINE f == [n \in 1 .. Len(c) |-> c[n].tx]
<1>3. f \in Surjection(1 .. Len(c), Sealed(c))
  BY <1>2 DEF Surjection
<1>4. IsFiniteSet(1 .. Len(c))
  BY SMT, <1>1, FS_Interval
<1> HIDE DEF f
<1>5. IsFiniteSet(Sealed(c))
  BY <1>3, <1>4, FS_Surjection
<1> QED
  BY <1>2, <1>5

\* The payloads of the first blocks are those of some blocks.
LEMMA SealedBelow ==
  ASSUME NEW c \in Seq(Block), NEW m \in 1 .. Len(c), NEW q
  PROVE  q \in Sealed(SubSeq(c, 1, m - 1)) <=> \E n \in 1 .. m - 1 : c[n].tx = q
<1> DEFINE d == SubSeq(c, 1, m - 1)
<1>1. Len(c) \in Nat
  BY LenProperties
<1>2. m - 1 \in 0 .. Len(c)
  BY SMT, <1>1
<1>3. d \in Seq(Block) /\ Len(d) = m - 1 /\ \A i \in 1 .. m - 1 : d[i] = c[i]
  BY SMT, <1>2, SubSeqProperties
<1> HIDE DEF d
<1>4. q \in Sealed(d) <=> \E n \in 1 .. m - 1 : d[n].tx = q
  <2>1. q \in Sealed(d) <=> \E n \in 1 .. Len(d) : d[n].tx = q
    BY <1>3, SealedFinite
  <2> QED
    BY <1>3, <2>1
<1>5. (\E n \in 1 .. m - 1 : d[n].tx = q) <=> \E n \in 1 .. m - 1 : c[n].tx = q
  BY <1>3
<1> QED
  BY <1>4, <1>5 DEF d

\* A payload that executes on top of a chain that replays is not in it: its
\* nonce has moved on since it was sealed.
LEMMA SealedOnce ==
  ASSUME NEW c \in Seq(Block), Replays(c), NEW p, Executes(Sealed(c), p)
  PROVE  p \notin Sealed(c)
<1> SUFFICES ASSUME p \in Sealed(c) PROVE FALSE
  OBVIOUS
<1> DEFINE places == {n \in 1 .. Len(c) : c[n].tx = p}
<1>1. Len(c) \in Nat /\ DOMAIN c = 1 .. Len(c)
  BY LenProperties
<1>2. places \in SUBSET Nat /\ places # {}
  <2>1. places # {}
    BY SealedFinite
  <2> QED
    BY SMT, <2>1
<1>3. PICK m \in places : \A k \in places : m <= k
  <2> HIDE DEF places
  <2> QED
    BY <1>2, LeastNumber
<1>4. m \in 1 .. Len(c) /\ c[m].tx = p
  BY <1>3
<1> DEFINE below == Sealed(SubSeq(c, 1, m - 1))
           Mine(done) == {q \in done : Account[q] = Account[p]}
<1>5. \A n \in 1 .. m - 1 : n \in 1 .. Len(c) /\ ~(m <= n)
  BY SMT, <1>1, <1>4
<1>6. below \subseteq Sealed(c) /\ p \notin below
  <2>1. \A q : q \in below <=> \E n \in 1 .. m - 1 : c[n].tx = q
    BY <1>4, SealedBelow
  <2> HIDE DEF below
  <2> QED
    BY <1>3, <1>5, <2>1, SealedFinite
<1>7. Executes(below, p)
  BY <1>1, <1>4 DEF Replays, Refused
<1> HIDE DEF below
<1>8. Cardinality(Mine(Sealed(c))) = Cardinality(Mine(below))
  BY <1>7 DEF Executes, NonceOf
<1>9. IsFiniteSet(Mine(Sealed(c)))
  <2>1. Mine(Sealed(c)) \in SUBSET Sealed(c)
    OBVIOUS
  <2> HIDE DEF Mine
  <2> QED
    BY <2>1, SealedFinite, FS_Subset
<1>10. Mine(below) \in SUBSET Mine(Sealed(c))
  BY <1>6
<1>11. p \in Mine(Sealed(c)) /\ p \notin Mine(below)
  BY <1>6
<1> HIDE DEF Mine
<1>12. Mine(Sealed(c)) = Mine(below)
  BY <1>8, <1>9, <1>10, FS_Subset
<1> QED
  BY <1>11, <1>12

-----------------------------------------------------------------------------
(* The longest chain is the log. *)

Entry == Payloads \X (Clock \cup {0})

\* The entries of a chain, one per block.
LEMMA EntriesType ==
  ASSUME NEW c \in Seq(Block)
  PROVE  /\ Entries(c) \in Seq(Entry) /\ Len(Entries(c)) = Len(c)
         /\ DOMAIN Entries(c) = 1 .. Len(c)
         /\ \A n \in 1 .. Len(c) : Entries(c)[n] = <<c[n].tx, c[n].ts>>
<1>1. Len(c) \in Nat /\ DOMAIN c = 1 .. Len(c) /\ \A n \in 1 .. Len(c) : c[n] \in Block
  BY LenProperties, ElementOfSeq
<1>2. \A n \in 1 .. Len(c) : <<c[n].tx, c[n].ts>> \in Entry
  BY <1>1 DEF Entry, Block
<1>3. Entries(c) = [n \in 1 .. Len(c) |-> <<c[n].tx, c[n].ts>>]
  BY <1>1 DEF Entries
<1>4. Entries(c) \in Seq(Entry) /\ Len(Entries(c)) = Len(c)
  BY SMT, <1>1, <1>2, <1>3, SeqDef
<1> QED
  BY <1>3, <1>4

\* An entry holds the payload and the timestamp of its block.
LEMMA EntryParts ==
  ASSUME NEW c \in Seq(Block), NEW n \in 1 .. Len(c)
  PROVE  Entries(c)[n][1] = c[n].tx /\ Entries(c)[n][2] = c[n].ts
<1>1. Entries(c)[n] = <<c[n].tx, c[n].ts>>
  BY EntriesType
<1> QED
  BY SMT, <1>1

\* A block on top is an entry at the end.
LEMMA EntriesAppend ==
  ASSUME NEW c \in Seq(Block), NEW b \in Block
  PROVE  Entries(Append(c, b)) = Append(Entries(c), <<b.tx, b.ts>>)
<1> DEFINE d == Append(c, b)
           e == <<b.tx, b.ts>>
<1>1. /\ d \in Seq(Block) /\ Len(d) = Len(c) + 1 /\ Len(c) \in Nat
      /\ d[Len(c) + 1] = b /\ \A n \in 1 .. Len(c) : d[n] = c[n]
  BY SMT, AppendProperties, LenProperties
<1>2. e \in Entry
  BY DEF Entry, Block
<1>3. /\ Entries(c) \in Seq(Entry) /\ Len(Entries(c)) = Len(c)
      /\ \A n \in 1 .. Len(c) : Entries(c)[n] = <<c[n].tx, c[n].ts>>
  BY EntriesType
<1> HIDE DEF d
<1>4. /\ Entries(d) \in Seq(Entry) /\ Len(Entries(d)) = Len(c) + 1
      /\ \A n \in 1 .. Len(c) + 1 : Entries(d)[n] = <<d[n].tx, d[n].ts>>
  BY <1>1, EntriesType
<1>5. Entries(d)[Len(c) + 1] = e
  <2>1. Len(c) + 1 \in 1 .. Len(c) + 1
    BY SMT, <1>1
  <2> QED
    BY <1>1, <1>4, <2>1
<1> HIDE DEF e
<1>6. /\ Append(Entries(c), e) \in Seq(Entry) /\ Len(Append(Entries(c), e)) = Len(c) + 1
      /\ Append(Entries(c), e)[Len(c) + 1] = e
      /\ \A n \in 1 .. Len(c) : Append(Entries(c), e)[n] = Entries(c)[n]
  BY SMT, <1>2, <1>3, AppendProperties
<1>7. ASSUME NEW n \in 1 .. Len(c) + 1 PROVE Entries(d)[n] = Append(Entries(c), e)[n]
  <2>1. CASE n = Len(c) + 1
    BY <1>5, <1>6, <2>1
  <2>2. CASE n # Len(c) + 1
    <3>1. n \in 1 .. Len(c)
      BY SMT, <1>1, <2>2
    <3> QED
      BY <1>1, <1>3, <1>4, <1>6, <3>1
  <2> QED
    BY <2>1, <2>2
<1>8. Entries(d) = Append(Entries(c), e)
  BY <1>4, <1>6, <1>7, SeqEqual
<1> QED
  BY <1>8 DEF d, e

\* Chains of one length, of which one extends the other, are the same.
LEMMA ExtendsEqual ==
  ASSUME NEW c \in Seq(Block), NEW d \in Seq(Block), Extends(d, c), Len(d) <= Len(c)
  PROVE  d = c
<1>1. Len(c) \in Nat /\ Len(d) \in Nat /\ Len(c) <= Len(d)
  BY LenProperties DEF Extends
<1>2. Len(d) = Len(c)
  BY SMT, <1>1
<1> QED
  BY <1>2, SeqEqual DEF Extends

\* The validator CHOOSE picks has a chain that extends every other.
LongestIs ==
  Longest \in Validators /\ \A w \in Validators : Extends(chain[Longest], chain[w])

\* On one course there is a longest chain, and it extends all.
LEMMA CourseLongest == Types /\ OneCourse => LongestIs
<1> SUFFICES ASSUME Types, OneCourse PROVE LongestIs
  OBVIOUS
<1>1. PICK c \in Seq(ViewType) : IsCourse(c)
  BY DEF OneCourse
<1>2. /\ Len(c) \in Nat /\ \A v \in Validators : chain[v] \in Seq(Block) /\ Len(chain[v]) \in Nat
  BY LenProperties DEF Types, LedgersOK
<1>3. \A v \in Validators : View(v).chain = chain[v]
  BY SMT DEF View
<1> DEFINE Here(k) == \E v \in Validators : c[k] = View(v)
           f == [k \in 1 .. Len(c) |-> IF Here(k) THEN k ELSE 0]
<1>4. PICK u \in Validators : TRUE
  BY ValidatorAssumption
<1>5. PICK k0 \in 1 .. Len(c) : Here(k0)
  BY <1>1, <1>4 DEF IsCourse
<1> HIDE DEF Here
<1>6. f \in [1 .. Len(c) -> Nat] /\ Len(c) \in Nat \ {0}
  BY SMT, <1>2, <1>5
<1>7. PICK i \in 1 .. Len(c) : \A j \in 1 .. Len(c) : f[j] <= f[i]
  <2> HIDE DEF f
  <2> QED
    BY <1>6, GreatestEntry
<1>8. Here(i) /\ \A j \in 1 .. Len(c) : Here(j) => j <= i
  <2>1. f[k0] = k0 /\ f[k0] <= f[i] /\ f[i] \in {i, 0} /\ (f[i] # 0 => Here(i) /\ f[i] = i)
    BY <1>5, <1>7
  <2>2. f[i] # 0
    BY SMT, <1>2, <2>1
  <2>3. \A j \in 1 .. Len(c) : Here(j) => f[j] = j
    OBVIOUS
  <2> HIDE DEF f
  <2> QED
    BY <1>7, <2>1, <2>2, <2>3
<1>9. PICK v \in Validators : c[i] = View(v)
  BY <1>8 DEF Here
<1>10. ASSUME NEW w \in Validators PROVE Extends(chain[v], chain[w])
  <2>1. PICK j \in 1 .. Len(c) : c[j] = View(w)
    BY <1>1 DEF IsCourse
  <2>2. j <= i
    BY <1>8, <2>1 DEF Here
  <2>3. i \in j .. Len(c)
    BY SMT, <1>2, <2>2
  <2> QED
    BY <1>1, <1>3, <1>9, <2>1, <2>3, CourseGrows DEF Grows
<1>11. Longest \in Validators /\ \A w \in Validators : Len(chain[w]) <= Len(chain[Longest])
  <2>1. \A w \in Validators : Len(chain[w]) <= Len(chain[v])
    BY <1>10 DEF Extends
  <2> QED
    BY <2>1 DEF Longest
<1>12. chain[v] = chain[Longest]
  BY <1>2, <1>10, <1>11, ExtendsEqual
<1> QED
  BY <1>10, <1>11, <1>12 DEF LongestIs

\* The same after a step.
LEMMA CourseLongestNext == Types' /\ OneCourse' => LongestIs'
  BY CourseLongest, PTL

-----------------------------------------------------------------------------
(* Each step is a step of the replicated log. *)

\* What holds without faults.
Steady ==
  /\ Types /\ Calm /\ OneCourse
  /\ \A v \in Validators : Replays(chain[v]) /\ Clocked(v)

\* The block that is sealed fits on top of its chain.
LEMMA BlockFits ==
  ASSUME Steady, NEW v \in Validators, TryPayload(v), Seals(v, Head(task[v].todo))
  PROVE  \E b \in Block :
           /\ chain' = [chain EXCEPT ![v] = Append(@, b)]
           /\ b.tx \in Payloads /\ b.ts \in Clock /\ b.tx \notin Sealed(chain[v])
           /\ chain[v] # <<>> => chain[v][Len(chain[v])].ts <= b.ts
<1> DEFINE p == Head(task[v].todo)
           b == [tx |-> p, ts |-> task[v].lastTs, beside |-> unsaved[v]]
<1>1. chain' = [chain EXCEPT ![v] = Append(@, b)]
  BY DEF TryPayload
<1>2. task[v].lastTs \in Clock /\ (chain[v] # <<>> => chain[v][Len(chain[v])].ts <= task[v].lastTs)
  BY DEF Steady, Clocked, TryPayload
<1>3. p \in Payloads /\ unsaved[v] \in SUBSET Payloads
  BY TryTypes DEF TryPayload, Steady, Types, LedgersOK
<1>4. p \notin Sealed(chain[v])
  <2>1. Executes(Sealed(chain[v]), p)
    <3>1. Executed(v) = Sealed(chain[v])
      BY DEF Executed, Steady, Calm
    <3> QED
      BY <3>1 DEF Seals
  <2>2. chain[v] \in Seq(Block) /\ Replays(chain[v])
    BY DEF Steady, Types, LedgersOK
  <2> HIDE DEF p
  <2> QED
    BY <2>1, <2>2, SealedOnce
<1> HIDE DEF p
<1>5. b \in Block /\ b.tx = p /\ b.ts = task[v].lastTs
  BY <1>2, <1>3 DEF Block
<1> HIDE DEF b
<1> QED
  BY <1>1, <1>2, <1>3, <1>4, <1>5

\* A validator that is behind catches up by one entry; the log stays.
LEMMA CatchesUp ==
  ASSUME Types, LongestIs, LongestIs', Types', NEW v \in Validators, NEW b \in Block,
         chain' = [chain EXCEPT ![v] = Append(@, b)], Len(chain[v]) < Len(chain[Longest])
  PROVE  chain'[Longest'] = chain[Longest]
<1>1. /\ \A w \in Validators : chain[w] \in Seq(Block) /\ Len(chain[w]) \in Nat
      /\ \A w \in Validators : chain'[w] \in Seq(Block) /\ Len(chain'[w]) \in Nat
      /\ chain \in [Validators -> Seq(Block)]
  BY LenProperties DEF Types, LedgersOK
<1>2. Longest \in Validators /\ Longest' \in Validators
  BY DEF LongestIs
<1>3. Longest # v
  <2>1. ~(Len(chain[v]) < Len(chain[v]))
    BY SMT, <1>1
  <2> QED
    BY <2>1
<1>4. chain'[Longest] = chain[Longest]
  BY <1>1, <1>2, <1>3
<1>5. Extends(chain'[Longest'], chain[Longest])
  BY <1>2, <1>4 DEF LongestIs
<1>6. Len(chain'[Longest']) <= Len(chain[Longest])
  <2>1. CASE Longest' = v
    <3>1. chain'[v] = Append(chain[v], b)
      BY <1>1
    <3>2. Len(Append(chain[v], b)) = Len(chain[v]) + 1
      BY SMT, <1>1, AppendProperties
    <3>3. Len(chain[v]) \in Nat /\ Len(chain[Longest]) \in Nat
      BY <1>1, <1>2
    <3>4. Len(chain[v]) + 1 <= Len(chain[Longest])
      BY SMT, <3>3
    <3> QED
      BY <2>1, <3>1, <3>2, <3>4
  <2>2. CASE Longest' # v
    <3>1. chain'[Longest'] = chain[Longest']
      BY <1>1, <1>2, <2>2
    <3> QED
      BY <1>2, <3>1 DEF LongestIs, Extends
  <2> QED
    BY <2>1, <2>2
<1> QED
  BY <1>1, <1>2, <1>5, <1>6, ExtendsEqual

\* A validator that holds the whole log is the one that adds to it.
LEMMA AddsFirst ==
  ASSUME Types, LongestIs, LongestIs', Types', NEW v \in Validators, NEW b \in Block,
         chain' = [chain EXCEPT ![v] = Append(@, b)], ~(Len(chain[v]) < Len(chain[Longest]))
  PROVE  chain[v] = chain[Longest] /\ chain'[Longest'] = Append(chain[v], b)
<1>1. /\ \A w \in Validators : chain[w] \in Seq(Block) /\ Len(chain[w]) \in Nat
      /\ chain \in [Validators -> Seq(Block)]
  BY LenProperties DEF Types, LedgersOK
<1>2. Longest \in Validators /\ Longest' \in Validators
  BY DEF LongestIs
<1>3. Len(chain[v]) \in Nat /\ Len(chain[Longest]) \in Nat
  BY <1>1, <1>2
<1>4. chain[Longest] = chain[v]
  <2>1. Extends(chain[Longest], chain[v])
    BY DEF LongestIs
  <2>2. Len(chain[Longest]) <= Len(chain[v])
    BY SMT, <1>3
  <2> QED
    BY <1>1, <1>2, <2>1, <2>2, ExtendsEqual
<1>5. chain'[v] = Append(chain[v], b) /\ Len(Append(chain[v], b)) = Len(chain[v]) + 1
  <2>1. chain[v] \in Seq(Block)
    BY <1>1
  <2>2. Len(Append(chain[v], b)) = Len(chain[v]) + 1
    BY SMT, <2>1, AppendProperties
  <2> QED
    BY <1>1, <2>2
<1>6. Longest' = v
  <2> SUFFICES ASSUME Longest' # v PROVE FALSE
    OBVIOUS
  <2>1. chain'[Longest'] = chain[Longest']
    BY <1>1, <1>2
  <2>2. Len(chain[v]) + 1 <= Len(chain[Longest'])
    <3>1. Len(chain'[v]) <= Len(chain'[Longest'])
      BY DEF LongestIs, Extends
    <3> QED
      BY <1>5, <2>1, <3>1
  <2>3. Len(chain[Longest']) <= Len(chain[v])
    BY <1>2, <1>4 DEF LongestIs, Extends
  <2>4. Len(chain[Longest']) \in Nat
    BY <1>1, <1>2
  <2> QED
    BY SMT, <1>3, <2>2, <2>3, <2>4
<1> QED
  BY <1>4, <1>5, <1>6

\* Sealing a block is an advance of the replica.
LEMMA SealAdvances ==
  ASSUME Steady, Steady', NEW v \in Validators, TryPayload(v), Seals(v, Head(task[v].todo))
  PROVE  R!Advance(v)
<1>1. LongestIs /\ LongestIs' /\ Types /\ Types'
  BY CourseLongest, CourseLongestNext DEF Steady
<1>2. PICK b \in Block :
        /\ chain' = [chain EXCEPT ![v] = Append(@, b)]
        /\ b.tx \in Payloads /\ b.ts \in Clock /\ b.tx \notin Sealed(chain[v])
        /\ chain[v] # <<>> => chain[v][Len(chain[v])].ts <= b.ts
  BY BlockFits
<1> DEFINE log == Entries(chain[Longest])
           logN == Entries(chain'[Longest'])
           held == [w \in Validators |-> Entries(chain[w])]
           heldN == [w \in Validators |-> Entries(chain'[w])]
           e == <<b.tx, b.ts>>
<1>3. /\ Longest \in Validators /\ Longest' \in Validators
      /\ \A w \in Validators : chain[w] \in Seq(Block) /\ chain'[w] \in Seq(Block)
      /\ chain \in [Validators -> Seq(Block)]
  BY <1>1 DEF LongestIs, Types, LedgersOK
<1>4. chain'[v] = Append(chain[v], b) /\ Entries(chain'[v]) = Append(held[v], e)
  BY <1>2, <1>3, EntriesAppend
<1>5. Len(held[v]) = Len(chain[v]) /\ Len(chain[v]) \in Nat /\ Len(log) = Len(chain[Longest])
  BY <1>3, EntriesType, LenProperties
<1>6. logN[Len(held[v]) + 1] = e
  <2> DEFINE n == Len(chain[v]) + 1
  <2>1. n \in 1 .. Len(chain'[v]) /\ chain'[v][n] = b
    <3>1. chain[v] \in Seq(Block)
      BY <1>3
    <3>2. Len(Append(chain[v], b)) = n /\ Append(chain[v], b)[n] = b /\ n \in 1 .. n
      BY SMT, <1>5, <3>1, AppendProperties
    <3> HIDE DEF n
    <3> QED
      BY <1>4, <3>2
  <2>2. Len(chain'[v]) <= Len(chain'[Longest']) /\ chain'[Longest'][n] = b
    BY <1>1, <2>1 DEF LongestIs, Extends
  <2>3. Len(chain'[v]) \in Nat /\ Len(chain'[Longest']) \in Nat
    BY <1>3, LenProperties
  <2> HIDE DEF n
  <2>4. n \in 1 .. Len(chain'[Longest'])
    BY SMT, <2>1, <2>2, <2>3
  <2>5. logN[n] = e
    BY <1>3, <2>2, <2>4, EntriesType
  <2> QED
    BY <1>5, <2>5 DEF n
<1>7. heldN = [held EXCEPT ![v] = Append(@, logN[Len(@) + 1])]
  <2>1. \A w \in Validators : w # v => chain'[w] = chain[w]
    BY <1>2, <1>3
  <2> QED
    BY <1>4, <1>6, <2>1
<1>8. CASE Len(chain[v]) < Len(chain[Longest])
  <2>1. logN = log
    BY <1>1, <1>2, <1>8, CatchesUp
  <2>2. Len(held[v]) < Len(log)
    BY <1>5, <1>8
  <2> QED
    BY <1>7, <2>1, <2>2 DEF R!Advance
<1>9. CASE ~(Len(chain[v]) < Len(chain[Longest]))
  <2>1. chain[v] = chain[Longest] /\ chain'[Longest'] = Append(chain[v], b)
    BY <1>1, <1>2, <1>9, AddsFirst
  <2>2. held[v] = log /\ logN = Append(log, e)
    BY <1>4, <2>1
  <2>3. \A n \in DOMAIN log : log[n][1] # b.tx
    <3>1. DOMAIN log = 1 .. Len(chain[v])
      BY <1>3, <2>1, EntriesType
    <3>2. \A n \in 1 .. Len(chain[v]) : log[n][1] = chain[v][n].tx
      BY <1>3, <2>1, EntryParts
    <3>3. \A n \in 1 .. Len(chain[v]) : chain[v][n].tx \in Sealed(chain[v])
      BY <1>3, SealedFinite
    <3> HIDE DEF log
    <3> QED
      BY <1>2, <3>1, <3>2, <3>3
  <2>4. log # <<>> => log[Len(log)][2] <= b.ts
    <3> SUFFICES ASSUME log # <<>> PROVE log[Len(log)][2] <= b.ts
      OBVIOUS
    <3>1. log \in Seq(Entry) /\ Len(log) = Len(chain[v])
      BY <1>3, <2>1, EntriesType
    <3>2. \A n \in 1 .. Len(chain[v]) : log[n][2] = chain[v][n].ts
      BY <1>3, <2>1, EntryParts
    <3> HIDE DEF log
    <3>3. Len(chain[v]) # 0
      BY <3>1, EmptySeq
    <3>4. chain[v] # <<>>
      BY <3>3, EmptySeq
    <3>5. Len(chain[v]) \in 1 .. Len(chain[v])
      BY SMT, <1>5, <3>3
    <3> QED
      BY <1>2, <3>1, <3>2, <3>4, <3>5
  <2> HIDE DEF held, log, logN, heldN
  <2>5. \E payload \in Payloads, ts \in Clock :
          /\ \A n \in DOMAIN log : log[n][1] # payload
          /\ log # <<>> => log[Len(log)][2] <= ts
          /\ logN = Append(log, <<payload, ts>>)
    BY <1>2, <2>2, <2>3, <2>4
  <2> USE DEF held, log, logN, heldN
  <2> QED
    BY <1>7, <2>2, <2>5 DEF R!Advance, R!Fits
<1> QED
  BY <1>8, <1>9

\* The initial state holds an empty log.
LEMMA InitLog == Init => R!Init
<1> SUFFICES ASSUME Init PROVE R!Init
  OBVIOUS
<1>1. Entries(<<>>) = <<>>
  BY SMT DEF Entries
<1>2. chain = [v \in Validators |-> <<>>]
  BY DEF Init
<1>3. Longest \in Validators
  BY InitTypes, InitCourse, CourseLongest DEF LongestIs
<1> QED
  BY <1>1, <1>2, <1>3 DEF R!Init

\* The invariant at the start.
LEMMA InitSteady == Init => Steady
<1> SUFFICES ASSUME Init, NEW v \in Validators PROVE Replays(chain[v]) /\ Clocked(v)
  BY InitTypes, InitCourse DEF Steady
<1>1. chain[v] = <<>> /\ DOMAIN chain[v] = {} /\ task[v] = Started
  BY SMT DEF Init
<1> QED
  BY <1>1, StartedType DEF Replays, Clocked

\* Every step keeps the invariant.
LEMMA NextSteady == ASSUME Faults = {} PROVE Steady /\ [Next]_vars => Steady'
<1> SUFFICES ASSUME Steady, [Next]_vars PROVE Steady'
  OBVIOUS
<1>1. Types /\ Calm /\ OneCourse
  BY DEF Steady
<1>2. Types'
  BY <1>1, NextTypes
<1>3. /\ Calm' /\ OneCourse'
      /\ \/ task' = task /\ chain' = chain
         \/ \E v \in Validators : Execute(v)
  BY <1>1, <1>2, NextCalm, NextCourse
<1>4. \A v \in Validators : Clocked(v)'
  BY <1>1, <1>2, <1>3, NextClocked DEF Steady
<1>5. \A v \in Validators : Replays(chain'[v])
  <2>1. \A v \in Validators : Serves(v)
    BY DEF Steady, Serves
  <2>2. \A v \in Validators : Serves(v)'
    BY <1>1, <2>1, NextServes
  <2> QED
    BY <1>3, <2>2 DEF Serves, Calm
<1> QED
  BY <1>2, <1>3, <1>4, <1>5 DEF Steady

\* Every step is a step of the replicated log, or is not seen in it.
LEMMA NextLog == ASSUME Faults = {} PROVE Steady /\ Steady' /\ [Next]_vars => [R!Next]_R!vars
<1> SUFFICES ASSUME Steady, Steady', [Next]_vars PROVE R!Next \/ UNCHANGED R!vars
  OBVIOUS
<1>1. CASE chain' = chain
  <2>1. Longest' = Longest
    BY <1>1 DEF Longest
  <2> QED
    BY <1>1, <2>1 DEF R!vars, Entries
<1>2. ASSUME NEW v \in Validators, Execute(v) PROVE R!Next \/ chain' = chain
  <2>1. CASE TryPayload(v) /\ Seals(v, Head(task[v].todo))
    BY <2>1, SealAdvances DEF R!Next
  <2>2. CASE TryPayload(v) /\ ~Seals(v, Head(task[v].todo))
    BY <2>2 DEF TryPayload
  <2>3. CASE ReceiveCommit(v) \/ EndSweep(v)
    BY <2>3 DEF ReceiveCommit, EndSweep, ledger
  <2> QED
    BY <1>2, <2>1, <2>2, <2>3 DEF Execute
<1> QED
  BY <1>1, <1>2, NextCalm DEF Steady

\* Validators without faults are replicas of one append-only log: each payload
\* is in it once, its timestamps never go back, and every validator holds a
\* prefix of it (the execution task of validator.rs over seal_committed).
THEOREM ValidatorsAreReplicas == ASSUME Faults = {} PROVE Spec => ImplementsReplicatedLog
<1>1. Init => Steady /\ R!Init
  BY InitSteady, InitLog
<1>2. Steady /\ [Next]_vars => Steady'
  BY NextSteady
<1>3. Steady /\ Steady' /\ [Next]_vars => [R!Next]_R!vars
  BY NextLog
<1> QED
  BY <1>1, <1>2, <1>3, PTL DEF Spec, ImplementsReplicatedLog, R!Spec

-----------------------------------------------------------------------------
(* Nothing is dropped below the cap. *)

\* The places of the payloads of one commit, and of the first n.
Row(cs, i) == {i} \X DOMAIN ordered_payloads(cs[i])
PlacesIn(cs, n) == UNION {Row(cs, i) : i \in 1 .. n}
CoveredIn(cs, n) == UNION {Range(ordered_payloads(cs[i])) : i \in 1 .. n}

\* A commit has as many places as payloads.
LEMMA RowCount ==
  ASSUME NEW cs, NEW i, ordered_payloads(cs[i]) \in Seq(Payloads)
  PROVE  IsFiniteSet(Row(cs, i)) /\ Cardinality(Row(cs, i)) = Len(ordered_payloads(cs[i]))
<1> DEFINE n == Len(ordered_payloads(cs[i]))
<1>1. n \in Nat /\ DOMAIN ordered_payloads(cs[i]) = 1 .. n
  BY LenProperties
<1> HIDE DEF n
<1>2. IsFiniteSet(1 .. n) /\ Cardinality(1 .. n) = n
  <2>1. IsFiniteSet(1 .. n) /\ Cardinality(1 .. n) = IF 1 > n THEN 0 ELSE n - 1 + 1
    BY SMT, <1>1, FS_Interval
  <2> QED BY SMT, <1>1, <2>1
<1>3. IsFiniteSet({i}) /\ Cardinality({i}) = 1
  BY FS_Singleton
<1>4. IsFiniteSet({i} \X (1 .. n)) /\ Cardinality({i} \X (1 .. n)) = 1 * n
  BY ZenonT(30), <1>2, <1>3, FS_Product
<1>5. 1 * n = n
  BY SMT, <1>1
<1> QED BY <1>1, <1>4, <1>5 DEF Row, n

\* What one commit more adds.
LEMMA OneMore ==
  ASSUME NEW cs, NEW n \in Nat
  PROVE  /\ PlacesIn(cs, n + 1) = PlacesIn(cs, n) \cup Row(cs, n + 1)
         /\ PlacesIn(cs, n) \cap Row(cs, n + 1) = {}
         /\ CoveredIn(cs, n + 1) = CoveredIn(cs, n) \cup Range(ordered_payloads(cs[n + 1]))
<1> DEFINE m == n + 1
<1>1. (\A i : i \in 1 .. m <=> i \in 1 .. n \/ i = m) /\ m \notin 1 .. n
  BY SMT
<1> HIDE DEF m
<1>2. PlacesIn(cs, m) = PlacesIn(cs, n) \cup Row(cs, m)
  BY <1>1 DEF PlacesIn
<1>3. PlacesIn(cs, n) \cap Row(cs, m) = {}
  <2> SUFFICES ASSUME NEW p \in PlacesIn(cs, n), p \in Row(cs, m) PROVE FALSE
    OBVIOUS
  <2>1. PICK i \in 1 .. n : p \in Row(cs, i)
    BY DEF PlacesIn
  <2>2. p[1] = i /\ p[1] = m
    BY SMT, <2>1 DEF Row
  <2> QED BY <1>1, <2>2
<1>4. CoveredIn(cs, m) = CoveredIn(cs, n) \cup Range(ordered_payloads(cs[m]))
  BY <1>1 DEF CoveredIn
<1> QED BY <1>2, <1>3, <1>4 DEF m

\* The places up to a commit are finitely many.
LEMMA PlacesFinite ==
  ASSUME NEW cs, NEW N \in Nat, \A i \in 1 .. N : ordered_payloads(cs[i]) \in Seq(Payloads)
  PROVE  \A n \in 0 .. N : IsFiniteSet(PlacesIn(cs, n))
<1> DEFINE Bad == {n \in Nat : n <= N /\ ~IsFiniteSet(PlacesIn(cs, n))}
<1>1. Bad = {}
  <2> SUFFICES ASSUME Bad # {} PROVE FALSE
    OBVIOUS
  <2>1. PICK n \in Bad : \A k \in Bad : n <= k
    <3>1. Bad \in SUBSET Nat
      OBVIOUS
    <3> HIDE DEF Bad
    <3> QED BY <3>1, LeastNumber
  <2>2. CASE n = 0
    <3>1. 1 .. n = {}
      BY SMT, <2>2
    <3>2. PlacesIn(cs, n) = {}
      BY <3>1 DEF PlacesIn
    <3> QED BY <2>1, <3>2, FS_EmptySet
  <2>3. CASE n # 0
    <3> DEFINE k == n - 1
    <3>1. k \in Nat /\ k + 1 = n /\ ~(n <= k) /\ k <= N /\ n \in 1 .. N
      BY SMT, <2>3
    <3> HIDE DEF k
    <3>2. IsFiniteSet(PlacesIn(cs, k))
      BY <2>1, <3>1
    <3>3. IsFiniteSet(Row(cs, n))
      BY <3>1, RowCount
    <3>4. PlacesIn(cs, n) = PlacesIn(cs, k) \cup Row(cs, n)
      BY <3>1, OneMore
    <3>5. IsFiniteSet(PlacesIn(cs, k) \cup Row(cs, n))
      BY <3>2, <3>3, FS_Union
    <3> QED BY <2>1, <3>4, <3>5
  <2> QED BY <2>2, <2>3
<1>2. \A n \in 0 .. N : n \in Nat /\ n <= N
  BY SMT
<1> QED BY <1>1, <1>2

\* How many they are.
LEMMA PlacesCount ==
  ASSUME NEW cs, NEW N \in Nat, \A i \in 1 .. N : ordered_payloads(cs[i]) \in Seq(Payloads)
  PROVE  /\ \A n \in 0 .. N : /\ Cardinality(PlacesIn(cs, n)) \in Nat
                              /\ Cardinality(PlacesIn(cs, n)) <= Cardinality(PlacesIn(cs, N))
         /\ \A n \in 0 .. N : n # N =>
              Cardinality(PlacesIn(cs, n + 1)) =
                Cardinality(PlacesIn(cs, n)) + Len(ordered_payloads(cs[n + 1]))
<1>1. \A n \in 0 .. N : IsFiniteSet(PlacesIn(cs, n)) /\ Cardinality(PlacesIn(cs, n)) \in Nat
  BY PlacesFinite, FS_CardinalityType
<1>2. ASSUME NEW n \in 0 .. N
      PROVE  Cardinality(PlacesIn(cs, n)) <= Cardinality(PlacesIn(cs, N))
  <2>1. 1 .. n \subseteq 1 .. N /\ N \in 0 .. N
    BY SMT
  <2>2. PlacesIn(cs, n) \subseteq PlacesIn(cs, N)
    BY <2>1 DEF PlacesIn
  <2> QED BY <1>1, <2>1, <2>2, FS_Subset
<1>3. ASSUME NEW n \in 0 .. N, n # N
      PROVE  Cardinality(PlacesIn(cs, n + 1)) =
               Cardinality(PlacesIn(cs, n)) + Len(ordered_payloads(cs[n + 1]))
  <2> DEFINE m == n + 1
             P == PlacesIn(cs, n)
             R1 == Row(cs, m)
  <2>1. m \in 1 .. N /\ n \in Nat
    BY SMT, <1>3
  <2>2. PlacesIn(cs, m) = P \cup R1 /\ P \cap R1 = {}
    BY <2>1, OneMore
  <2> HIDE DEF m
  <2>3. IsFiniteSet(R1) /\ Cardinality(R1) = Len(ordered_payloads(cs[m]))
    BY <2>1, RowCount
  <2>4. IsFiniteSet(P) /\ Cardinality(P) \in Nat /\ Cardinality(R1) \in Nat
    BY <1>1, <2>3, FS_CardinalityType
  <2> HIDE DEF P, R1
  <2>5. Cardinality(P \cup R1) = Cardinality(P) + Cardinality(R1) - Cardinality(P \cap R1)
    BY <2>3, <2>4, FS_Union
  <2>6. Cardinality(P \cap R1) = 0
    BY <2>2, FS_EmptySet
  <2>7. Cardinality(P \cup R1) = Cardinality(P) + Cardinality(R1)
    BY SMT, <2>4, <2>5, <2>6
  <2> QED BY <2>2, <2>3, <2>7 DEF P, R1, m
<1> QED BY <1>1, <1>2, <1>3

\* What a task that has taken n commits holds: as long as the payloads of all
\* commits fit into the queue, those of the n commits are sealed, or wait, and
\* no more wait than were in the n commits.
Held(cs, c, t, n) ==
  /\ t.phase # "down" /\ (t.phase = "idle" => t.todo = <<>>)
  /\ Cardinality(PlacesIn(cs, Len(cs))) <= MaxPending =>
       /\ Len(t.pending) + Len(t.todo) <= Cardinality(PlacesIn(cs, n))
       /\ CoveredIn(cs, n) = Sealed(c) \cup (Range(t.pending) \cup Range(t.todo))

HeldInv == \A v \in Validators : Held(commits, chain[v], task[v], taken[v])

\* Payloads of commits are sequences.
LEMMA CommitsFlatten ==
  ASSUME NEW cs \in Seq(CommitType)
  PROVE  Len(cs) \in Nat /\ \A i \in 1 .. Len(cs) : ordered_payloads(cs[i]) \in Seq(Payloads)
BY LenProperties, ElementOfSeq, FlattenType

\* A queue with one payload more, exactly.
LEMMA RangeAppended ==
  ASSUME NEW s \in Seq(Payloads), NEW p \in Payloads
  PROVE  Range(Append(s, p)) = Range(s) \cup {p}
<1>1. /\ Append(s, p) = s \o <<p>> /\ <<p>> \in Seq(Payloads)
  BY SMT, AppendIsConcat
<1> DEFINE q == <<p>>
<1>2. Range(q) = {p}
  BY SMT DEF Range
<1>3. q \in Seq(Payloads) /\ Append(s, p) = s \o q
  BY <1>1
<1> HIDE DEF q
<1>4. Range(s \o q) = Range(s) \cup Range(q)
  BY SMT, <1>3, RangeConcatenation
<1> QED BY <1>2, <1>3, <1>4

\* A queue without its first payload.
LEMMA RangeTail ==
  ASSUME NEW s \in Seq(Payloads), s # <<>>
  PROVE  Range(s) = {Head(s)} \cup Range(Tail(s))
<1> DEFINE t == Tail(s)
<1>1. /\ Len(s) \in Nat \ {0} /\ DOMAIN s = 1 .. Len(s)
      /\ Len(t) = Len(s) - 1 /\ DOMAIN t = 1 .. Len(t) /\ Head(s) = s[1]
      /\ \A i \in 1 .. Len(t) : t[i] = s[i + 1]
  BY SMT, HeadTailProperties, LenProperties, EmptySeq
<1> HIDE DEF t
<1>2. ASSUME NEW x \in Range(s) PROVE x \in {Head(s)} \cup Range(t)
  <2>1. PICK i \in 1 .. Len(s) : x = s[i]
    BY <1>1 DEF Range
  <2>2. CASE i = 1
    BY <1>1, <2>1, <2>2
  <2>3. CASE i # 1
    <3> DEFINE k == i - 1
    <3>1. k \in 1 .. Len(t) /\ i = k + 1
      BY SMT, <1>1, <2>3
    <3> HIDE DEF k
    <3> QED BY <1>1, <2>1, <3>1 DEF Range
  <2> QED BY <2>2, <2>3
<1>3. 1 \in DOMAIN s /\ \A i \in 1 .. Len(t) : i + 1 \in DOMAIN s
  BY SMT, <1>1
<1>4. {Head(s)} \cup Range(t) \subseteq Range(s)
  BY <1>1, <1>3 DEF Range
<1> QED BY <1>2, <1>4 DEF t

\* A chain with one block more.
LEMMA SealedAppend ==
  ASSUME NEW c \in Seq(Block), NEW b \in Block
  PROVE  Sealed(Append(c, b)) = Sealed(c) \cup {b.tx}
<1> DEFINE d == Append(c, b)
           m == Len(c) + 1
<1>1. /\ DOMAIN c = 1 .. Len(c) /\ DOMAIN d = 1 .. Len(d) /\ Len(c) \in Nat
      /\ Len(d) = m /\ d[m] = b /\ \A i \in 1 .. Len(c) : d[i] = c[i]
  <2>1. d \in Seq(Block) /\ Len(d) = m /\ d[m] = b /\ \A i \in 1 .. Len(c) : d[i] = c[i]
    BY SMT, AppendProperties
  <2> HIDE DEF d, m
  <2> QED BY <2>1, LenProperties
<1>2. m \in 1 .. m /\ \A i : i \in 1 .. m <=> i \in 1 .. Len(c) \/ i = m
  BY SMT, <1>1
<1> HIDE DEF d, m
<1> QED BY <1>1, <1>2 DEF Sealed, Range, d

\* Nothing is cut from a queue that fits.
LEMMA TakeHeld ==
  ASSUME NEW cs \in Seq(CommitType), NEW c, NEW t \in Task, NEW n \in 0 .. Len(cs),
         n # Len(cs), Held(cs, c, t, n), t.phase = "idle", NEW u,
         u.phase = "sweeping", u.pending = <<>>,
         u.todo = Newest(t.pending \o ordered_payloads(cs[n + 1]))
  PROVE  Held(cs, c, u, n + 1)
<1> DEFINE m == n + 1
           a == t.pending
           b == ordered_payloads(cs[m])
           N == Len(cs)
<1>1. N \in Nat /\ \A i \in 1 .. N : ordered_payloads(cs[i]) \in Seq(Payloads)
  BY CommitsFlatten
<1>2. m \in 0 .. N /\ m \in 1 .. N
  BY SMT, <1>1
<1>3. a \in Seq(Payloads) /\ b \in Seq(Payloads) /\ a \o b \in Seq(Payloads)
  <2>1. a \in Seq(Payloads) /\ b \in Seq(Payloads)
    BY <1>1, <1>2 DEF Task
  <2> QED BY <2>1, ConcatProperties
<1>4. Len(a) \in Nat /\ Len(b) \in Nat /\ Len(<<>>) = 0 /\ Len(a \o b) = Len(a) + Len(b)
  <2>1. Len(a) \in Nat /\ Len(b) \in Nat /\ Len(<<>>) = 0
    BY <1>3, LenProperties, EmptySeq
  <2> HIDE DEF a, b
  <2>2. Len(a \o b) = Len(a) + Len(b)
    BY SMT, <1>3, ConcatProperties
  <2> QED BY <2>1, <2>2
<1>5. /\ Cardinality(PlacesIn(cs, n)) \in Nat /\ Cardinality(PlacesIn(cs, m)) \in Nat
      /\ Cardinality(PlacesIn(cs, m)) <= Cardinality(PlacesIn(cs, N))
      /\ Cardinality(PlacesIn(cs, m)) = Cardinality(PlacesIn(cs, n)) + Len(b)
      /\ Cardinality(PlacesIn(cs, N)) \in Nat
  <2>1. n \in 0 .. N /\ N \in 0 .. N
    BY SMT, <1>1
  <2> QED BY <1>1, <1>2, <2>1, PlacesCount
<1>6. CoveredIn(cs, m) = CoveredIn(cs, n) \cup Range(b)
  <2>1. n \in Nat
    BY SMT, <1>1
  <2> QED BY <2>1, OneMore
<1> HIDE DEF m, N, b
<1>7. ASSUME Cardinality(PlacesIn(cs, N)) <= MaxPending
      PROVE  /\ Len(u.pending) + Len(u.todo) <= Cardinality(PlacesIn(cs, m))
             /\ CoveredIn(cs, m) = Sealed(c) \cup (Range(u.pending) \cup Range(u.todo))
  <2>1. /\ t.todo = <<>> /\ Len(a) + Len(t.todo) <= Cardinality(PlacesIn(cs, n))
        /\ CoveredIn(cs, n) = Sealed(c) \cup (Range(a) \cup Range(t.todo))
    BY <1>7 DEF Held, N
  <2>2. Len(t.todo) = 0 /\ Range(t.todo) = {} /\ Range(u.pending) = {} /\ Len(u.pending) = 0
    BY <1>4, <2>1, RangeEmpty
  <2> HIDE DEF a
  <2>3. Len(a \o b) <= Cardinality(PlacesIn(cs, m)) /\ Len(a \o b) <= MaxPending
    BY SMT, <1>4, <1>5, <1>7, <2>1, <2>2, ConstantFacts
  <2>4. u.todo = a \o b
    BY <2>3 DEF Newest, a, b, m
  <2>5. Range(a \o b) = Range(a) \cup Range(b)
    BY SMT, <1>3, RangeConcatenation
  <2>6. Len(u.pending) + Len(u.todo) <= Cardinality(PlacesIn(cs, m))
    BY SMT, <1>4, <1>5, <2>2, <2>3, <2>4
  <2> QED BY <1>6, <2>1, <2>2, <2>4, <2>5, <2>6
<1> QED BY <1>7 DEF Held, m, N

\* A payload leaves the sweep, and may go back to the pending ones.
LEMMA NoMore ==
  ASSUME NEW a \in Nat, NEW b \in Nat, NEW k \in Nat, a + b <= k
  PROVE  a + (b - 1) <= k /\ (a + 1) + (b - 1) <= k
BY SMT

\* A payload is sealed.
LEMMA SealHeld ==
  ASSUME NEW cs \in Seq(CommitType), NEW c \in Seq(Block), NEW t \in Task,
         NEW n \in 0 .. Len(cs), Held(cs, c, t, n), t.todo # <<>>, NEW u, NEW b \in Block,
         u.phase = "sweeping", u.pending = t.pending, u.todo = Tail(t.todo),
         b.tx = Head(t.todo)
  PROVE  Held(cs, Append(c, b), u, n)
<1>1. t.todo \in Seq(Payloads) /\ t.pending \in Seq(Payloads)
  BY DEF Task
<1>2. Len(u.todo) = Len(t.todo) - 1 /\ Len(t.todo) \in Nat /\ Len(t.pending) \in Nat
  BY SMT, <1>1, HeadTailProperties, LenProperties
<1>3. Cardinality(PlacesIn(cs, n)) \in Nat
  BY CommitsFlatten, PlacesCount
<1>4. Len(t.pending) + Len(t.todo) <= Cardinality(PlacesIn(cs, n)) =>
        Len(u.pending) + Len(u.todo) <= Cardinality(PlacesIn(cs, n))
  BY <1>2, <1>3, NoMore
<1>5. Range(t.todo) = {b.tx} \cup Range(u.todo)
  BY <1>1, RangeTail
<1>6. Sealed(Append(c, b)) = Sealed(c) \cup {b.tx}
  BY SealedAppend
<1>7. Sealed(c) \cup (Range(t.pending) \cup Range(t.todo))
        = Sealed(Append(c, b)) \cup (Range(u.pending) \cup Range(u.todo))
  BY <1>5, <1>6
<1> QED BY <1>4, <1>7 DEF Held

\* A payload is put back.
LEMMA BackHeld ==
  ASSUME NEW cs \in Seq(CommitType), NEW c, NEW t \in Task,
         NEW n \in 0 .. Len(cs), Held(cs, c, t, n), t.todo # <<>>, NEW u,
         u.phase = "sweeping", u.pending = Append(t.pending, Head(t.todo)),
         u.todo = Tail(t.todo)
  PROVE  Held(cs, c, u, n)
<1>1. t.todo \in Seq(Payloads) /\ t.pending \in Seq(Payloads)
  BY DEF Task
<1>2. /\ Len(u.todo) = Len(t.todo) - 1 /\ Len(t.todo) \in Nat /\ Len(t.pending) \in Nat
      /\ Head(t.todo) \in Payloads
  BY SMT, <1>1, HeadTailProperties, LenProperties
<1>3. Len(u.pending) = Len(t.pending) + 1
  BY SMT, <1>1, <1>2, AppendProperties
<1>4. Cardinality(PlacesIn(cs, n)) \in Nat
  BY CommitsFlatten, PlacesCount
<1>5. Len(t.pending) + Len(t.todo) <= Cardinality(PlacesIn(cs, n)) =>
        Len(u.pending) + Len(u.todo) <= Cardinality(PlacesIn(cs, n))
  BY <1>2, <1>3, <1>4, NoMore
<1>6. Range(t.todo) = {Head(t.todo)} \cup Range(u.todo)
  BY <1>1, RangeTail
<1>7. Range(u.pending) = Range(t.pending) \cup {Head(t.todo)}
  BY <1>1, <1>2, RangeAppended
<1>8. Range(t.pending) \cup Range(t.todo) = Range(u.pending) \cup Range(u.todo)
  BY <1>6, <1>7
<1> QED BY <1>5, <1>8 DEF Held

\* A sweep is through.
LEMMA EndHeld ==
  ASSUME NEW cs, NEW c, NEW t \in Task, NEW n, Held(cs, c, t, n), t.todo = <<>>, NEW u,
         \/ u.phase = "sweeping" /\ u.pending = <<>> /\ u.todo = t.pending
         \/ u.phase = "idle" /\ u.pending = t.pending /\ u.todo = <<>>
  PROVE  Held(cs, c, u, n)
<1>1. Len(t.pending) \in Nat /\ Len(<<>>) = 0
  BY LenProperties, EmptySeq DEF Task
<1>2. Len(u.pending) + Len(u.todo) = Len(t.pending) + Len(t.todo)
  <2>1. Len(t.pending) + 0 = 0 + Len(t.pending)
    BY SMT, <1>1
  <2> QED BY <1>1, <2>1
<1>3. Range(u.pending) \cup Range(u.todo) = Range(t.pending) \cup Range(t.todo)
  BY RangeEmpty
<1> QED BY <1>2, <1>3 DEF Held

\* A commit more takes nothing from what a task holds.
LEMMA MoreHeld ==
  ASSUME NEW cs \in Seq(CommitType), NEW ds \in Seq(CommitType), NEW c, NEW t,
         NEW n \in 0 .. Len(cs), Held(cs, c, t, n),
         Len(ds) = Len(cs) + 1, \A i \in 1 .. Len(cs) : ds[i] = cs[i]
  PROVE  Held(ds, c, t, n)
<1> DEFINE N == Len(cs)
<1>1. /\ N \in Nat /\ N + 1 \in Nat /\ n \in Nat
      /\ 1 .. n \subseteq 1 .. N /\ N \in 0 .. N + 1 /\ N \in 0 .. N
  <2>1. N \in Nat
    BY LenProperties
  <2> QED BY SMT, <2>1
<1>2. PlacesIn(ds, n) = PlacesIn(cs, n) /\ CoveredIn(ds, n) = CoveredIn(cs, n)
  BY ZenonT(30), <1>1 DEF PlacesIn, CoveredIn, Row
<1>3. PlacesIn(ds, N) = PlacesIn(cs, N)
  BY DEF PlacesIn, Row
<1>4. /\ Cardinality(PlacesIn(ds, N)) \in Nat /\ Cardinality(PlacesIn(ds, N + 1)) \in Nat
      /\ Cardinality(PlacesIn(ds, N)) <= Cardinality(PlacesIn(ds, N + 1))
  <2>1. N + 1 = Len(ds) /\ \A i \in 1 .. N + 1 : ordered_payloads(ds[i]) \in Seq(Payloads)
    BY CommitsFlatten
  <2>2. N + 1 \in 0 .. N + 1
    BY SMT, <1>1
  <2> QED BY <1>1, <2>1, <2>2, PlacesCount
<1> HIDE DEF N
<1>5. Cardinality(PlacesIn(ds, N + 1)) <= MaxPending => Cardinality(PlacesIn(cs, N)) <= MaxPending
  BY SMT, <1>3, <1>4, ConstantFacts
<1> QED BY <1>2, <1>5 DEF Held, N

\* A task that receives a commit, tries a payload or ends a sweep.
LEMMA TaskHeld ==
  ASSUME Types, NEW v \in Validators, Held(commits, chain[v], task[v], taken[v]),
         Execute(v) \/ SaveFails(v)
  PROVE  Held(commits', chain'[v], task'[v], taken'[v])
<1> DEFINE t == task[v]
           p == Head(t.todo)
<1>1. /\ task \in [Validators -> Task] /\ t \in Task /\ commits \in Seq(CommitType)
      /\ chain \in [Validators -> Seq(Block)] /\ chain[v] \in Seq(Block)
      /\ unsaved[v] \in SUBSET Payloads /\ taken \in [Validators -> Nat]
  BY DEF Types, TasksOK, CommitsOK, LedgersOK, PlacesOK
<1>2. taken[v] \in 0 .. Len(commits) /\ (taken[v] < given[v] => taken[v] # Len(commits))
  <2>1. /\ taken[v] \in Nat /\ given[v] \in Nat /\ Len(commits) \in Nat
        /\ taken[v] <= given[v] /\ given[v] <= Len(commits)
    BY <1>1, LenProperties DEF Types, PlacesOK
  <2> QED BY SMT, <2>1
<1>3. CASE ReceiveCommit(v)
  <2>1. /\ t.phase = "idle" /\ taken[v] < given[v]
        /\ commits' = commits /\ chain' = chain /\ taken'[v] = taken[v] + 1
    BY <1>1, <1>3 DEF ReceiveCommit, dag, ledger
  <2>2. /\ task'[v].phase = "sweeping" /\ task'[v].pending = <<>>
        /\ task'[v].todo = Newest(t.pending \o ordered_payloads(commits[taken[v] + 1]))
    BY <1>1, <1>3 DEF ReceiveCommit
  <2> HIDE DEF t
  <2>3. Held(commits, chain[v], t, taken[v])
    BY DEF t
  <2>4. Held(commits, chain[v], task'[v], taken[v] + 1)
    BY <1>1, <1>2, <2>1, <2>2, <2>3, TakeHeld
  <2> QED BY <2>1, <2>4
<1>4. ASSUME t.phase = "sweeping", t.todo # <<>>,
             task' = [task EXCEPT ![v].todo = Tail(@), ![v].pending = Append(@, p)],
             commits' = commits, chain' = chain, taken' = taken
      PROVE  Held(commits', chain'[v], task'[v], taken'[v])
  <2>1. /\ task'[v].phase = "sweeping" /\ task'[v].pending = Append(t.pending, p)
        /\ task'[v].todo = Tail(t.todo)
    BY <1>1, <1>4 DEF Task
  <2>2. Held(commits, chain[v], task'[v], taken[v])
    BY <1>1, <1>2, <1>4, <2>1, BackHeld
  <2> QED BY <1>4, <2>2
<1>5. CASE TryPayload(v)
  <2>1. /\ t.phase = "sweeping" /\ t.todo # <<>> /\ commits' = commits /\ taken' = taken
    BY <1>5 DEF TryPayload, dag
  <2>2. CASE Seals(v, p)
    <3> DEFINE b == [tx |-> p, ts |-> t.lastTs, beside |-> unsaved[v]]
    <3>1. /\ chain'[v] = Append(chain[v], b)
          /\ task' = [task EXCEPT ![v].todo = Tail(@), ![v].progress = TRUE]
      BY <1>1, <1>5, <2>2 DEF TryPayload
    <3>2. /\ task'[v].phase = "sweeping" /\ task'[v].pending = t.pending
          /\ task'[v].todo = Tail(t.todo)
      BY <1>1, <2>1, <3>1 DEF Task
    <3>3. b \in Block /\ b.tx = p
      <4>1. p \in Payloads /\ t.lastTs \in Clock \cup {0}
        BY <1>1, <2>1, TryTypes DEF Types, Task
      <4> QED BY <1>1, <4>1 DEF Block
    <3> HIDE DEF b
    <3>4. Held(commits, Append(chain[v], b), task'[v], taken[v])
      BY <1>1, <1>2, <2>1, <3>2, <3>3, SealHeld
    <3> QED BY <2>1, <3>1, <3>4
  <2>3. CASE ~Seals(v, p)
    <3>1. /\ task' = [task EXCEPT ![v].todo = Tail(@), ![v].pending = Append(@, p)]
          /\ chain' = chain
      BY <1>5, <2>3 DEF TryPayload
    <3> QED BY <1>4, <2>1, <3>1
  <2> QED BY <2>2, <2>3
<1>6. CASE SaveFails(v)
  <2>1. /\ t.phase = "sweeping" /\ t.todo # <<>>
        /\ task' = [task EXCEPT ![v].todo = Tail(@), ![v].pending = Append(@, p)]
        /\ commits' = commits /\ chain' = chain /\ taken' = taken
    BY <1>6 DEF SaveFails, dag
  <2> QED BY <1>4, <2>1
<1>7. CASE EndSweep(v)
  <2>1. t.todo = <<>> /\ commits' = commits /\ chain' = chain /\ taken' = taken
    BY <1>7 DEF EndSweep, dag, ledger
  <2>2. CASE AnotherSweep(t)
    <3>1. /\ task'[v].phase = "sweeping" /\ task'[v].pending = <<>>
          /\ task'[v].todo = t.pending
      <4>1. t.phase = "sweeping"
        BY <1>7 DEF EndSweep
      <4>2. task'[v] = [t EXCEPT !.todo = t.pending, !.pending = <<>>, !.progress = FALSE]
        BY <1>1, <1>7, <2>2 DEF EndSweep
      <4> QED BY <1>1, <4>1, <4>2 DEF Task
    <3>2. Held(commits, chain[v], task'[v], taken[v])
      BY <1>1, <2>1, <3>1, EndHeld
    <3> QED BY <2>1, <3>2
  <2>3. CASE ~AnotherSweep(t)
    <3>1. task'[v].phase = "idle" /\ task'[v].pending = t.pending /\ task'[v].todo = <<>>
      <4>1. task'[v] = [t EXCEPT !.phase = "idle", !.progress = FALSE]
        BY <1>1, <1>7, <2>3 DEF EndSweep
      <4> QED BY <1>1, <2>1, <4>1 DEF Task
    <3>2. Held(commits, chain[v], task'[v], taken[v])
      BY <1>1, <2>1, <3>1, EndHeld
    <3> QED BY <2>1, <3>2
  <2> QED BY <2>2, <2>3
<1> QED BY <1>3, <1>5, <1>6, <1>7 DEF Execute

\* Every step keeps it, as long as processes neither die nor are reset.
LEMMA NextHeld ==
  ASSUME Faults \subseteq {"write_fails"}, Types, Types', HeldInv, [Next]_vars
  PROVE  HeldInv'
<1> SUFFICES ASSUME NEW w \in Validators
             PROVE  Held(commits', chain'[w], task'[w], taken'[w])
  BY DEF HeldInv
<1>1. Held(commits, chain[w], task[w], taken[w]) /\ \A v \in Validators : Up(v)
  BY DEF HeldInv, Held, Up
<1>2. \A v \in Validators : ~Crash(v) /\ ~Restart(v) /\ ~Reset(v)
  <2>1. "crash" # "write_fails" /\ "reset" # "write_fails"
    BY SMT
  <2> QED BY <1>1, <2>1 DEF Crash, Restart, Reset, Fault
<1>3. CASE \E s \in Shapes : CommitSubDag(s)
  <2>1. PICK d : commits' = Append(commits, d)
    BY <1>3 DEF CommitSubDag
  <2>2. task' = task /\ chain' = chain /\ taken' = taken
    BY <1>3 DEF CommitSubDag, ledger
  <2>3. commits \in Seq(CommitType) /\ commits' \in Seq(CommitType)
    BY DEF Types, CommitsOK
  <2>4. Len(commits') = Len(commits) + 1 /\ \A n \in 1 .. Len(commits) : commits'[n] = commits[n]
    BY SMT, <2>1, <2>3
  <2>5. taken[w] \in 0 .. Len(commits)
    <3>1. /\ taken[w] \in Nat /\ given[w] \in Nat /\ Len(commits) \in Nat
          /\ taken[w] <= given[w] /\ given[w] <= Len(commits)
      BY <2>3, LenProperties DEF Types, PlacesOK
    <3> QED BY SMT, <3>1
  <2>6. Held(commits', chain[w], task[w], taken[w])
    BY <1>1, <2>3, <2>4, <2>5, MoreHeld
  <2> QED BY <2>2, <2>6
<1>4. CASE \/ UNCHANGED vars
           \/ \E v \in Validators : \/ \E p \in Payloads : Submit(v, p) \/ Drip(v, p)
                                    \/ Forward(v) \/ Deliver(v)
  <2>1. task' = task /\ chain' = chain /\ taken' = taken /\ commits' = commits
    BY <1>4
    DEF vars, dag, ledger, Submit, Drip, send_raw_transaction, Forward, Deliver
  <2> QED BY <1>1, <2>1
<1>5. ASSUME NEW v \in Validators, Execute(v) \/ SaveFails(v)
      PROVE  Held(commits', chain'[w], task'[w], taken'[w])
  <2>1. CASE w = v
    BY <1>1, <1>5, <2>1, TaskHeld
  <2>2. CASE w # v
    <3>1. task'[w] = task[w] /\ chain'[w] = chain[w]
      BY <1>5, <2>2, StepIsLocal
    <3>2. taken'[w] = taken[w] /\ commits' = commits
      <4>1. taken \in [Validators -> Nat]
        BY DEF Types, PlacesOK
      <4> QED BY <1>5, <2>2, <4>1
          DEF Execute, ReceiveCommit, TryPayload, EndSweep, SaveFails, dag
    <3> QED BY <1>1, <3>1, <3>2
  <2> QED BY <2>1, <2>2
<1> QED BY <1>2, <1>3, <1>4, <1>5 DEF Next

\* Below the cap the queue of validator.rs loses nothing, for any committee,
\* commits and order of nonces: what a validator has received is sealed or
\* waits, and also when writes fail.
THEOREM BelowCapNothingDropped ==
  ASSUME Faults \subseteq {"write_fails"} PROVE Spec => []NothingDropped
<1>1. Init => HeldInv
  <2> SUFFICES ASSUME Init, NEW v \in Validators
               PROVE  Held(commits, chain[v], task[v], taken[v])
    BY DEF HeldInv
  <2>1. task[v] = Started /\ chain[v] = <<>> /\ taken[v] = 0 /\ commits = <<>>
    BY DEF Init
  <2>2. 1 .. 0 = {} /\ Len(<<>>) = 0 /\ 0 + 0 = 0 /\ 0 <= 0
    BY SMT
  <2>3. PlacesIn(<<>>, 0) = {} /\ CoveredIn(<<>>, 0) = {}
    BY <2>2 DEF PlacesIn, CoveredIn
  <2>4. Started.phase = "idle"
    BY DEF Started
  <2>5. Sealed(<<>>) = {}
    BY RangeEmpty DEF Sealed
  <2>6. Cardinality({}) = 0
    BY FS_EmptySet
  <2> QED BY <2>1, <2>2, <2>3, <2>4, <2>5, <2>6, StartedType, RangeEmpty DEF Held
<1>2. Types /\ Types' /\ HeldInv /\ [Next]_vars => HeldInv'
  BY NextHeld
<1>3. HeldInv => NothingDropped
  <2> SUFFICES ASSUME HeldInv, NEW v \in Validators, Idle(v),
                      Cardinality(Places(Len(commits))) <= MaxPending
               PROVE  Covered(taken[v]) = Sealed(chain[v]) \cup Range(task[v].pending)
    BY DEF NothingDropped
  <2>1. Held(commits, chain[v], task[v], taken[v])
    BY DEF HeldInv
  <2>2. /\ Places(Len(commits)) = PlacesIn(commits, Len(commits))
        /\ Covered(taken[v]) = CoveredIn(commits, taken[v])
    BY DEF Places, PlacesIn, Row, Covered, CoveredIn
  <2>3. /\ task[v].todo = <<>>
        /\ CoveredIn(commits, taken[v])
             = Sealed(chain[v]) \cup (Range(task[v].pending) \cup Range(task[v].todo))
    BY <2>1, <2>2 DEF Held, Idle
  <2> QED BY <2>2, <2>3, RangeEmpty
<1> QED BY <1>1, <1>2, <1>3, InitTypes, NextTypes, PTL DEF Spec
=============================================================================
