--------------------------- MODULE LauncherProofs ---------------------------
(***************************************************************************)
(* What the command line keeps of a data directory, for every set of       *)
(* secrets, flags, fundings and journals, and what a fork fetches from     *)
(* every remote chain.                                                     *)
(***************************************************************************)
EXTENDS ForkRun, TLAPS, WellFoundedInduction, SequenceTheorems

USE Zenon

(* Lists that are put together piece by piece. *)

\* A set of numbers has a least one.
LEMMA LeastOf ==
  ASSUME NEW S \in SUBSET Nat, S # {}
  PROVE  \E m \in S : \A k \in S : m <= k
<1> DEFINE less == {p \in Nat \X Nat : p[1] < p[2]}
<1>1. IsWellFoundedOn(less, Nat)
  BY NatLessThanWellFounded DEF OpToRel
<1>2. PICK m \in S : \A k \in S : <<k, m>> \notin less
  <2> HIDE DEF less
  <2> QED
    BY <1>1, WFMin
<1>3. \A k \in S : m <= k
  <2> TAKE k \in S
  <2>1. <<k, m>> \in Nat \X Nat /\ <<k, m>>[1] = k /\ <<k, m>>[2] = m
    OBVIOUS
  <2>2. ~(k < m)
    BY <1>2, <2>1
  <2> QED
    BY SMT, <2>2
<1> QED
  BY <1>3

\* f joins the first pieces, up to the last one of N.
Joins(f, N, piece) ==
  \A n \in 0 .. N : f[n] = IF n = 0 THEN <<>> ELSE f[n - 1] \o piece[n]

\* What joins sequences joins them to a sequence.
LEMMA JoinType ==
  ASSUME NEW S, NEW N \in Nat, NEW piece \in [1 .. N -> Seq(S)], NEW f, Joins(f, N, piece)
  PROVE  \A n \in 0 .. N : f[n] \in Seq(S)
<1> DEFINE bad == {n \in 0 .. N : f[n] \notin Seq(S)}
<1> SUFFICES ASSUME bad # {} PROVE FALSE
  OBVIOUS
<1>1. bad \in SUBSET Nat
  BY SMT
<1>2. PICK k \in bad : \A j \in bad : k <= j
  <2> HIDE DEF bad
  <2> QED
    BY <1>1, LeastOf
<1>3. k # 0
  BY EmptySeq DEF Joins
<1>4. k \in 1 .. N /\ k - 1 \in 0 .. N /\ ~(k <= k - 1)
  BY SMT, <1>2, <1>3
<1>5. f[k - 1] \in Seq(S) /\ f[k] = f[k - 1] \o piece[k]
  BY <1>2, <1>3, <1>4 DEF Joins
<1>6. f[k - 1] \o piece[k] \in Seq(S)
  BY <1>4, <1>5, ConcatProperties
<1> QED
  BY <1>2, <1>5, <1>6

\* There is a function that joins given pieces.
LEMMA JoinExists ==
  ASSUME NEW S, NEW N \in Nat, NEW piece \in [1 .. N -> Seq(S)]
  PROVE  \E f \in [0 .. N -> Seq(S)] : Joins(f, N, piece)
<1> DEFINE Upto(k) == \E f \in [0 .. k -> Seq(S)] : Joins(f, k, piece)
           bad == {k \in 0 .. N : ~Upto(k)}
<1>1. bad = {}
  <2> SUFFICES ASSUME bad # {} PROVE FALSE
    OBVIOUS
  <2>1. bad \in SUBSET Nat
    BY SMT
  <2>2. PICK k \in bad : \A j \in bad : k <= j
    <3> HIDE DEF bad
    <3> QED
      BY <2>1, LeastOf
  <2>3. CASE k = 0
    <3> DEFINE f == [n \in 0 .. 0 |-> <<>>]
    <3>1. f \in [0 .. 0 -> Seq(S)] /\ Joins(f, 0, piece)
      BY SMT, EmptySeq DEF Joins
    <3> QED
      BY <2>2, <2>3, <3>1
  <2>4. CASE k # 0
    <3>1. k \in 1 .. N /\ k - 1 \in 0 .. N /\ ~(k <= k - 1)
      BY SMT, <2>2, <2>4
    <3>2. PICK g \in [0 .. k - 1 -> Seq(S)] : Joins(g, k - 1, piece)
      BY <2>2, <3>1
    <3> DEFINE f == [n \in 0 .. k |-> IF n = k THEN g[k - 1] \o piece[k] ELSE g[n]]
    <3>3. g[k - 1] \o piece[k] \in Seq(S)
      BY SMT, <3>1, <3>2, ConcatProperties
    <3>4. f \in [0 .. k -> Seq(S)]
      BY SMT, <3>1, <3>2, <3>3
    <3>5. \A n \in 0 .. k : f[n] = IF n = 0 THEN <<>> ELSE f[n - 1] \o piece[n]
      <4> TAKE n \in 0 .. k
      <4>1. CASE n = k
        <5>1. f[k] = g[k - 1] \o piece[k] /\ f[k - 1] = g[k - 1]
          BY SMT, <3>1
        <5> QED
          BY <2>4, <4>1, <5>1
      <4>2. CASE n # k /\ n # 0
        <5>1. n \in 0 .. k - 1 /\ n - 1 \in 0 .. k /\ n - 1 # k
          BY SMT, <3>1, <4>2
        <5>2. f[n] = g[n] /\ f[n - 1] = g[n - 1]
          BY <4>2, <5>1
        <5> QED
          BY <3>2, <4>2, <5>1, <5>2 DEF Joins
      <4>3. CASE n # k /\ n = 0
        <5>1. 0 \in 0 .. k - 1 /\ f[0] = g[0]
          BY SMT, <3>1, <4>3
        <5> QED
          BY <3>2, <4>3, <5>1 DEF Joins
      <4> QED
        BY <4>1, <4>2, <4>3
    <3> HIDE DEF f
    <3>6. Joins(f, k, piece)
      BY <3>5 DEF Joins
    <3> QED
      BY <2>2, <3>4, <3>6
  <2> QED
    BY <2>3, <2>4
<1>2. N \in 0 .. N
  BY SMT
<1> QED
  BY <1>1, <1>2

-----------------------------------------------------------------------------
(* The lists of a fetch. *)

AccountCall == {"eth_getBalance", "eth_getCode"} \X Range(Accounts)
SlotCall == {"eth_getStorageAt"} \X Range(Slots)
Call == AccountCall \cup SlotCall

\* The calls of a fetch: balances and codes of accounts, then slots.
LEMMA CallsType == F!Calls \in Seq(Call)
<1> DEFINE N == Len(Accounts)
           Pair(n) == <<<<"eth_getBalance", Accounts[n]>>, <<"eth_getCode", Accounts[n]>>>>
           piece == [n \in 1 .. N |-> Pair(n)]
           Step(f, n) == IF n = 0 THEN <<>> ELSE f[n - 1] \o Pair(n)
           account == CHOOSE f : f = [n \in 0 .. N |-> Step(f, n)]
           slots == [n \in DOMAIN Slots |-> <<"eth_getStorageAt", Slots[n]>>]
<1>1. N \in Nat /\ \A n \in 1 .. N : Accounts[n] \in Range(Accounts)
  BY ForkRunAssumption, LenProperties, ElementOfSeq
<1>2. piece \in [1 .. N -> Seq(Call)]
  <2> SUFFICES ASSUME NEW n \in 1 .. N PROVE Pair(n) \in Seq(Call)
    OBVIOUS
  <2>1. <<"eth_getBalance", Accounts[n]>> \in Call /\ <<"eth_getCode", Accounts[n]>> \in Call
    BY <1>1 DEF Call, AccountCall
  <2> QED
    BY SMT, <2>1
<1>3. F!Calls = account[N] \o slots
  BY DEF F!Calls
<1> HIDE DEF Pair
<1>4. account = [n \in 0 .. N |-> Step(account, n)]
  <2>1. PICK f \in [0 .. N -> Seq(Call)] : Joins(f, N, piece)
    <3> HIDE DEF piece, N
    <3> QED
      BY <1>1, <1>2, JoinExists
  <2>2. \A n \in 0 .. N : f[n] = Step(f, n)
    <3> TAKE n \in 0 .. N
    <3>1. f[n] = IF n = 0 THEN <<>> ELSE f[n - 1] \o piece[n]
      BY <2>1 DEF Joins
    <3>2. n # 0 => n \in 1 .. N
      BY SMT, <1>1
    <3> HIDE DEF N
    <3> QED
      BY <3>1, <3>2
  <2> HIDE DEF Step
  <2>3. f = [n \in 0 .. N |-> Step(f, n)]
    BY <2>1, <2>2
  <2> QED
    BY <2>3
<1> HIDE DEF account
<1>5. Joins(account, N, piece)
  <2> SUFFICES ASSUME NEW n \in 0 .. N
               PROVE  account[n] = IF n = 0 THEN <<>> ELSE account[n - 1] \o piece[n]
    BY DEF Joins
  <2>1. n # 0 => n \in 1 .. N
    BY SMT, <1>1
  <2>2. account[n] = Step(account, n)
    <3> HIDE DEF Step, N
    <3> QED
      BY <1>4
  <2> HIDE DEF N
  <2> QED
    BY <2>1, <2>2
<1> HIDE DEF piece, N
<1>6. account[N] \in Seq(Call)
  <2>1. N \in 0 .. N
    BY SMT, <1>1
  <2> QED
    BY <1>1, <1>2, <1>5, <2>1, JoinType
<1>7. slots \in Seq(Call)
  <2>1. Len(Slots) \in Nat /\ DOMAIN Slots = 1 .. Len(Slots)
    BY ForkRunAssumption, LenProperties
  <2>2. \A n \in DOMAIN Slots : <<"eth_getStorageAt", Slots[n]>> \in Call
    BY DEF Call, SlotCall, Range
  <2> QED
    BY SMT, <2>1, <2>2, SeqDef
<1> HIDE DEF slots
<1> QED
  BY <1>3, <1>6, <1>7, ConcatProperties

Answer == Call \X Values

\* One answer adds at most one entry.
LEMMA EntryType ==
  ASSUME NEW call \in Call, NEW value \in Values
  PROVE  F!Entry(call, value) \in Seq(Answer)
<1>1. <<call, value>> \in Answer
  BY DEF Answer
<1> QED
  BY SMT, <1>1, EmptySeq DEF F!Entry

\* What a fetch takes from one state, call by call.
LEMMA TakenSteps ==
  ASSUME NEW state, \A n \in 1 .. Len(F!Calls) : state[F!Calls[n]] \in Values
  PROVE  /\ F!Taken(state)[0] = <<>>
         /\ \A n \in 1 .. Len(F!Calls) :
              F!Taken(state)[n] = F!Taken(state)[n - 1] \o F!Entry(F!Calls[n], state[F!Calls[n]])
         /\ \A n \in 0 .. Len(F!Calls) : F!Taken(state)[n] \in Seq(Answer)
<1> DEFINE N == Len(F!Calls)
           Piece(n) == F!Entry(F!Calls[n], state[F!Calls[n]])
           piece == [n \in 1 .. N |-> Piece(n)]
           Step(f, n) == IF n = 0 THEN <<>> ELSE f[n - 1] \o Piece(n)
           taken == CHOOSE f : f = [n \in 0 .. N |-> Step(f, n)]
<1>1. N \in Nat /\ \A n \in 1 .. N : F!Calls[n] \in Call
  BY CallsType, LenProperties, ElementOfSeq
<1>2. piece \in [1 .. N -> Seq(Answer)]
  BY <1>1, EntryType
<1>3. F!Taken(state) = taken
  BY DEF F!Taken
<1> HIDE DEF Piece
<1>4. taken = [n \in 0 .. N |-> Step(taken, n)]
  <2>1. PICK f \in [0 .. N -> Seq(Answer)] : Joins(f, N, piece)
    <3> HIDE DEF piece, N
    <3> QED
      BY <1>1, <1>2, JoinExists
  <2>2. \A n \in 0 .. N : f[n] = Step(f, n)
    <3> TAKE n \in 0 .. N
    <3>1. f[n] = IF n = 0 THEN <<>> ELSE f[n - 1] \o piece[n]
      BY <2>1 DEF Joins
    <3>2. n # 0 => n \in 1 .. N
      BY SMT, <1>1
    <3> HIDE DEF N
    <3> QED
      BY <3>1, <3>2
  <2> HIDE DEF Step
  <2>3. f = [n \in 0 .. N |-> Step(f, n)]
    BY <2>1, <2>2
  <2> QED
    BY <2>3
<1> HIDE DEF taken
<1>5. \A n \in 0 .. N : taken[n] = IF n = 0 THEN <<>> ELSE taken[n - 1] \o Piece(n)
  <2> HIDE DEF N
  <2> QED
    BY <1>4
<1>6. Joins(taken, N, piece)
  <2> SUFFICES ASSUME NEW n \in 0 .. N
               PROVE  taken[n] = IF n = 0 THEN <<>> ELSE taken[n - 1] \o piece[n]
    BY DEF Joins
  <2>1. n # 0 => n \in 1 .. N
    BY SMT, <1>1
  <2> HIDE DEF N
  <2> QED
    BY <1>5, <2>1
<1>7. \A n \in 0 .. N : taken[n] \in Seq(Answer)
  <2> HIDE DEF piece, N
  <2> QED
    BY <1>1, <1>2, <1>6, JoinType
<1>8. 0 \in 0 .. N /\ \A n \in 1 .. N : n \in 0 .. N /\ n # 0
  BY SMT, <1>1
<1> QED
  BY <1>3, <1>5, <1>7, <1>8 DEF Piece

-----------------------------------------------------------------------------
(* The data directory. *)

(***************************************************************************)
(* The inductive invariant of the directory.  The metadata is that of the  *)
(* genesis the chain was created with, and names allocations, or reopening *)
(* would take those of the command line.                                   *)
(***************************************************************************)
StorePinned ==
  \/ store = EmptyStore
  \/ /\ store = [chain |-> first.chain, alloc |-> first.alloc, key |-> store.key]
     /\ first.chain # NoChain /\ first.alloc # <<>>

NodePinned ==
  node.phase # "down" =>
    /\ node = [phase |-> node.phase, flag |-> node.flag, secret |-> node.secret,
               genesis |-> node.genesis]
    /\ store.chain # NoChain
    /\ node.genesis.chain = first.chain /\ node.genesis.alloc = first.alloc

DirInv ==
  /\ StorePinned /\ NodePinned
  /\ node.phase = "down" => node = Down

\* A genesis a command may ask open() for: it has allocations.
Want(want) ==
  /\ want = [chain |-> want.chain, alloc |-> want.alloc]
  /\ want.chain \in Nat /\ want.alloc # <<>>

\* What open() goes on with is the genesis of the directory, if it has one.
LEMMA KnownFacts ==
  ASSUME StorePinned, NEW want, Want(want), ~OtherChain(want)
  PROVE  /\ Known(want).chain = want.chain
         /\ Known(want).alloc # <<>> /\ want.chain # NoChain
         /\ store.chain # NoChain =>
              store.chain = want.chain /\ first.chain = want.chain
              /\ Known(want).alloc = first.alloc
<1>1. want.chain # NoChain
  BY LauncherAssumption DEF Want
<1>2. Known(want).chain = want.chain /\ Known(want).alloc # <<>>
  BY DEF Known, Want
<1>3. ASSUME store.chain # NoChain
      PROVE  store.chain = want.chain /\ first.chain = want.chain
             /\ Known(want).alloc = first.alloc
  <2>1. /\ store.chain = first.chain /\ store.alloc = first.alloc /\ first.alloc # <<>>
    BY SMT, <1>3 DEF StorePinned, EmptyStore
  <2>2. ~Migrates
    BY <1>3 DEF Migrates
  <2>3. store.chain = want.chain
    BY <1>3, <2>2 DEF OtherChain
  <2>4. Known(want).alloc = first.alloc
    BY <2>1, <2>2 DEF Known, Want
  <2> QED
    BY <2>1, <2>3, <2>4
<1> QED
  BY <1>1, <1>2, <1>3

\* Opening the node, whether it goes through, is refused or dies.
LEMMA OpenDir ==
  ASSUME DirInv, node.phase = "down", NEW want, NEW flag, NEW secret,
         Want(want), Open(want, flag, secret)
  PROVE  DirInv'
<1>0. node = Down /\ StorePinned
  BY DEF DirInv
<1> DEFINE opened == [phase |-> "opened", flag |-> flag, secret |-> secret,
                      genesis |-> Known(want)]
<1>1. CASE Refuse
  BY <1>0, <1>1 DEF Refuse, DirInv, StorePinned, NodePinned
<1>2. CASE /\ ~OtherChain(want) /\ store' = Meta(want, SidecarKey)
           /\ node' = opened /\ Created(want)
  <2> HIDE DEF opened
  <2>1. /\ Known(want).chain = want.chain
        /\ Known(want).alloc # <<>> /\ want.chain # NoChain
        /\ store.chain # NoChain =>
             store.chain = want.chain /\ first.chain = want.chain
             /\ Known(want).alloc = first.alloc
    BY <1>0, <1>2, KnownFacts
  <2>2. store' = [chain |-> want.chain, alloc |-> Known(want).alloc, key |-> SidecarKey]
    BY <1>2 DEF Meta
  <2>3. first'.chain = want.chain /\ first'.alloc = Known(want).alloc
    BY <1>2, <2>1 DEF Created
  <2>4. StorePinned'
    BY <2>1, <2>2, <2>3 DEF StorePinned
  <2>5. /\ node'.phase = "opened" /\ node'.genesis = Known(want)
        /\ node' = [phase |-> node'.phase, flag |-> node'.flag,
                    secret |-> node'.secret, genesis |-> node'.genesis]
    BY <1>2 DEF opened
  <2>6. NodePinned'
    BY SMT, <2>1, <2>2, <2>3, <2>5 DEF NodePinned
  <2> QED
    BY <2>4, <2>5, <2>6 DEF DirInv
<1>3. CASE /\ ~OtherChain(want) /\ Migrates
           /\ store' = Meta(want, NoKey) \/ store' = Meta(want, SidecarKey)
           /\ Created(want) /\ node' = node
  <2>1. /\ Known(want).chain = want.chain /\ Known(want).alloc # <<>> /\ want.chain # NoChain
    BY <1>0, <1>3, KnownFacts
  <2>2. store' = [chain |-> want.chain, alloc |-> Known(want).alloc, key |-> store'.key]
    BY SMT, <1>3 DEF Meta
  <2>3. first'.chain = want.chain /\ first'.alloc = Known(want).alloc
    BY <1>3, <2>1 DEF Created, Migrates
  <2>4. StorePinned'
    BY <2>1, <2>2, <2>3 DEF StorePinned
  <2> QED
    BY <1>0, <1>3, <2>4 DEF DirInv, NodePinned
<1> QED
  BY <1>1, <1>2, <1>3 DEF Open

\* What a command asks for has the dev account in its allocations.
LEMMA RequestedWant ==
  ASSUME NEW faucets \in Alloc
  PROVE  Want(Requested(faucets)) /\ Want(devnet)
<1>1. devnet.alloc \in Alloc /\ Len(devnet.alloc) = 1
  <2>1. <<Dev, DevBalance>> \in (Others \cup {Dev}) \X Nat
    BY LauncherAssumption
  <2> QED
    BY SMT, <2>1 DEF devnet, Alloc
<1>2. Want(devnet)
  BY <1>1, LauncherAssumption, EmptySeq DEF Want, devnet, Alloc
<1>3. devnet.alloc \o faucets # <<>>
  <2> DEFINE P == (Others \cup {Dev}) \X Nat
             dev == devnet.alloc
  <2>1. dev \in Seq(P) /\ faucets \in Seq(P) /\ Len(dev) = 1
    BY <1>1 DEF Alloc
  <2> HIDE DEF P, dev
  <2>2. Len(faucets) \in Nat
    BY <2>1, LenProperties
  <2>3. Len(dev \o faucets) # 0
    BY SMT, <2>1, <2>2, ConcatProperties
  <2> QED
    BY SMT, <2>3 DEF dev
<1>4. Fresh => Want(Requested(faucets))
  BY <1>2, <1>3 DEF Requested, Want
<1> QED
  BY <1>2, <1>4 DEF Requested

\* start, local and validator.
LEMMA RunDir ==
  ASSUME DirInv, NEW flag,
         (\E faucets \in Fundings : Start(faucets, flag)) \/ RunValidator(flag)
  PROVE  DirInv'
<1>1. ASSUME NEW faucets \in Fundings, Start(faucets, flag) PROVE DirInv'
  <2>1. Want(Requested(faucets))
    BY LauncherAssumption, RequestedWant
  <2> QED
    BY <1>1, <2>1, OpenDir DEF Start
<1>2. ASSUME RunValidator(flag) PROVE DirInv'
  <2>1. Want(devnet)
    <3>1. <<>> \in Alloc
      BY EmptySeq DEF Alloc
    <3> QED
      BY <3>1, RequestedWant
  <2> QED
    BY <1>2, <2>1, OpenDir DEF RunValidator
<1> QED
  BY <1>1, <1>2

\* Installing the secret changes no other part of the metadata.
LEMMA ServeDir == ASSUME DirInv, Serve PROVE DirInv'
<1> DEFINE key == IF node.secret # NoKey THEN node.secret ELSE store.key
<1>1. /\ node.phase = "opened" /\ store' = [store EXCEPT !.key = key]
      /\ node' = [node EXCEPT !.phase = "up"]
      /\ first' = first
  BY DEF Serve
<1> HIDE DEF key
<1>2. /\ NodePinned /\ store.chain # NoChain
      /\ node = [phase |-> node.phase, flag |-> node.flag,
                 secret |-> node.secret, genesis |-> node.genesis]
  BY <1>1 DEF DirInv, NodePinned
<1>3. node' = [phase |-> "up", flag |-> node.flag,
               secret |-> node.secret, genesis |-> node.genesis]
  BY <1>1, <1>2
<1>4. /\ store = [chain |-> first.chain, alloc |-> first.alloc, key |-> store.key]
      /\ first.chain # NoChain /\ first.alloc # <<>>
  BY SMT, <1>2 DEF DirInv, StorePinned, EmptyStore
<1>5. store' = [chain |-> first.chain, alloc |-> first.alloc, key |-> key]
  BY SMT, <1>1, <1>4
<1>6. StorePinned'
  BY <1>1, <1>4, <1>5 DEF StorePinned
<1>7. NodePinned'
  BY <1>1, <1>2, <1>3, <1>4, <1>5 DEF NodePinned
<1> QED
  BY <1>3, <1>6, <1>7 DEF DirInv

\* A process ends; its directory stays.
LEMMA StopDir == ASSUME DirInv, Stop PROVE DirInv'
  BY DEF Stop, DirInv, StorePinned, NodePinned, Down

\* A reset directory is empty.
LEMMA ResetDir == ASSUME DirInv, Reset PROVE DirInv'
  BY DEF Reset, DirInv, StorePinned, NodePinned, Down

\* A directory no process has opened.
LEMMA InitDir == Init => DirInv
  BY SMT DEF Init, DirInv, StorePinned, NodePinned, Down

\* DirInv speaks of the directory and the process.
LEMMA IdleDir == ASSUME DirInv, UNCHANGED <<store, node, first>> PROVE DirInv'
  BY DEF DirInv, StorePinned, NodePinned

-----------------------------------------------------------------------------
(* The secrets of the directory. *)

\* The secrets that are not new.
Old == drawn \cup Flags \cup {j.key : j \in Journals}

(***************************************************************************)
(* Nothing is retired as long as a journal may still be migrated, so that  *)
(* its sidecar cannot hold a retired secret; a process that is about to    *)
(* install a retired secret was given it on its command line.              *)
(***************************************************************************)
SecretInv ==
  /\ journal \in Journals \cup {NoJournal}
  /\ Migrates => retired = {}
  /\ NoKey \notin retired
  /\ retired \subseteq Old /\ store.key \in Old \cup {NoKey}
  /\ node.phase = "opened" =>
       /\ node.secret \in drawn \cup {NoKey}
       /\ node.secret \in retired => node.secret = node.flag

\* What the secrets of a directory never do in a step.
NoRevival ==
  store'.key # store.key /\ store'.key \in retired => store'.key = node.flag

\* A step that leaves the stored secret as it is.
LEMMA SameSecret ==
  ASSUME SecretInv, Retire, store'.key = store.key, drawn \subseteq drawn'
  PROVE  /\ NoRevival /\ retired' \subseteq retired /\ NoKey \notin retired'
         /\ retired' \subseteq Old' /\ store'.key \in Old' \cup {NoKey}
<1>1. retired' \subseteq retired /\ NoKey \notin retired'
  BY DEF Retire
<1>2. Old \subseteq Old'
  BY DEF Old
<1> QED
  BY <1>1, <1>2 DEF SecretInv, NoRevival

\* Opening the node with a secret that was passed, or that is new.
LEMMA OpenSecret ==
  ASSUME DirInv, SecretInv, Retire, node.phase = "down", NEW want, NEW flag,
         NEW secret \in {flag, NoKey} \cup Unused, Want(want), Open(want, flag, secret)
  PROVE  SecretInv' /\ NoRevival
<1> DEFINE opened == [phase |-> "opened", flag |-> flag, secret |-> secret,
                      genesis |-> Known(want)]
<1>0. StorePinned /\ node = Down
  BY DEF DirInv
<1>1. CASE Refuse
  <2>1. UNCHANGED <<journal, store, node, drawn>>
    BY <1>1 DEF Refuse
  <2>2. /\ NoRevival /\ retired' \subseteq retired /\ NoKey \notin retired'
        /\ retired' \subseteq Old' /\ store'.key \in Old' \cup {NoKey}
    BY <2>1, SameSecret
  <2>3. node'.phase # "opened"
    BY <2>1
  <2>4. Migrates' => retired' = {}
    BY <2>1, <2>2 DEF SecretInv, Migrates
  <2> QED
    BY <2>1, <2>2, <2>3, <2>4 DEF SecretInv
<1>2. CASE ~Refuse
  <2>1. /\ ~OtherChain(want) /\ drawn \subseteq drawn'
        /\ \/ store' = Meta(want, SidecarKey)
           \/ Migrates /\ store' = Meta(want, NoKey)
        /\ journal' \in {journal, NoJournal}
        /\ \/ node' = opened /\ drawn' = drawn \cup ({secret} \ {NoKey})
           \/ node' = node
    BY <1>2 DEF Open
  <2>2. want.chain # NoChain
    BY <1>0, <2>1, KnownFacts
  <2>3. /\ store'.chain = want.chain
        /\ store'.key = SidecarKey \/ (Migrates /\ store'.key = NoKey)
    BY SMT, <2>1 DEF Meta
  <2>4. ~Migrates'
    BY <2>2, <2>3 DEF Migrates
  <2>5. /\ NoRevival /\ retired' \subseteq retired /\ NoKey \notin retired'
        /\ retired' \subseteq Old' /\ store'.key \in Old' \cup {NoKey}
    <3>1. CASE ~Migrates
      <4>1. store'.key = store.key
        BY <2>3, <3>1 DEF SidecarKey
      <4> QED
        BY <2>1, <4>1, SameSecret
    <3>2. CASE Migrates
      <4>1. store.key = NoKey /\ retired = {}
        BY SMT, <1>0, <3>2 DEF StorePinned, EmptyStore, Migrates, SecretInv
      <4>2. retired' = {}
        BY <4>1 DEF Retire
      <4>3. store'.key \in {journal.key, NoKey}
        BY <2>3, <4>1 DEF SidecarKey
      <4>4. journal \in Journals
        BY <3>2 DEF SecretInv, Migrates
      <4>5. store'.key \in Old' \cup {NoKey}
        BY <4>3, <4>4 DEF Old
      <4> QED
        BY <4>1, <4>2, <4>5 DEF NoRevival
    <3> QED
      BY <3>1, <3>2
  <2>6. ASSUME node'.phase = "opened"
        PROVE  /\ node'.secret \in drawn' \cup {NoKey}
               /\ node'.secret \in retired' => node'.secret = node'.flag
    <3>1. /\ node'.secret = secret /\ node'.flag = flag
          /\ drawn' = drawn \cup ({secret} \ {NoKey})
      BY SMT, <1>0, <2>1, <2>6 DEF Down
    <3>2. secret \in Unused => secret \notin retired
      BY DEF Unused, SecretInv, Old
    <3>3. NoKey \notin retired'
      BY DEF Retire
    <3> QED
      BY <2>5, <3>1, <3>2, <3>3
  <2>7. journal' \in Journals \cup {NoJournal}
    BY <2>1 DEF SecretInv
  <2> QED
    BY <2>4, <2>5, <2>6, <2>7 DEF SecretInv
<1> QED
  BY <1>1, <1>2

\* start, local and validator.
LEMMA RunSecret ==
  ASSUME DirInv, SecretInv, Retire, NEW flag,
         (\E faucets \in Fundings : Start(faucets, flag)) \/ RunValidator(flag)
  PROVE  SecretInv' /\ NoRevival
<1>1. ASSUME NEW faucets \in Fundings, Start(faucets, flag) PROVE SecretInv' /\ NoRevival
  <2>1. Want(Requested(faucets))
    BY LauncherAssumption, RequestedWant
  <2>2. PICK secret \in SecretsFor(flag) : Open(Requested(faucets), flag, secret)
    BY <1>1 DEF Start
  <2>3. secret \in {flag, NoKey} \cup Unused
    BY <2>2 DEF SecretsFor
  <2>4. node.phase = "down"
    BY <1>1 DEF Start
  <2> QED
    BY <2>1, <2>2, <2>3, <2>4, OpenSecret
<1>2. ASSUME RunValidator(flag) PROVE SecretInv' /\ NoRevival
  <2>1. Want(devnet)
    <3>1. <<>> \in Alloc
      BY EmptySeq DEF Alloc
    <3> QED
      BY <3>1, RequestedWant
  <2>2. flag \in {flag, NoKey} \cup Unused /\ node.phase = "down" /\ Open(devnet, flag, flag)
    BY <1>2 DEF RunValidator
  <2> QED
    BY <2>1, <2>2, OpenSecret
<1> QED
  BY <1>1, <1>2

\* The secret of the process is installed.
LEMMA ServeSecret ==
  ASSUME DirInv, SecretInv, Retire, Serve PROVE SecretInv' /\ NoRevival
<1> DEFINE key == IF node.secret # NoKey THEN node.secret ELSE store.key
<1>1. /\ node.phase = "opened" /\ store' = [store EXCEPT !.key = key]
      /\ node' = [node EXCEPT !.phase = "up"]
      /\ UNCHANGED <<journal, drawn>>
  BY DEF Serve
<1>2. key \in Old \cup {NoKey} /\ (key # store.key /\ key \in retired => key = node.flag)
  BY <1>1 DEF SecretInv, Old
<1> HIDE DEF key
<1>3. /\ node = [phase |-> node.phase, flag |-> node.flag,
                 secret |-> node.secret, genesis |-> node.genesis]
      /\ store.chain # NoChain
  BY <1>1 DEF DirInv, NodePinned
<1>4. store = [chain |-> store.chain, alloc |-> store.alloc, key |-> store.key]
  BY SMT DEF DirInv, StorePinned, EmptyStore
<1>5. store'.key = key /\ store'.chain = store.chain
  BY SMT, <1>1, <1>4
<1>6. node'.phase = "up"
  BY <1>1, <1>3
<1>7. Old' = Old
  BY <1>1 DEF Old
<1>8. retired' \subseteq Old' /\ NoKey \notin retired'
  BY <1>7 DEF Retire, SecretInv
<1> QED
  BY <1>1, <1>2, <1>3, <1>5, <1>6, <1>7, <1>8 DEF SecretInv, NoRevival, Migrates

\* A process ends, or a command exits before it does anything.
LEMMA IdleSecret ==
  ASSUME SecretInv, Retire, UNCHANGED <<journal, store, drawn>>, node' \in {node, Down}
  PROVE  SecretInv' /\ NoRevival
<1>1. /\ NoRevival /\ retired' \subseteq retired /\ NoKey \notin retired'
      /\ retired' \subseteq Old' /\ store'.key \in Old' \cup {NoKey}
  BY SameSecret
<1>2. Migrates' => retired' = {}
  BY <1>1 DEF SecretInv, Migrates
<1>3. Down.phase # "opened"
  BY SMT DEF Down
<1> QED
  BY <1>1, <1>2, <1>3 DEF SecretInv

\* The stored secret is deleted with the database, the sidecar with its journal.
LEMMA ResetSecret ==
  ASSUME DirInv, SecretInv, Retire, Reset PROVE SecretInv' /\ NoRevival
<1>1. /\ journal' = NoJournal /\ store' = EmptyStore /\ drawn' = drawn
      /\ node' = node /\ node.phase = "down"
  BY DEF Reset
<1>2. store'.key = NoKey /\ NoKey \notin retired' /\ ~Migrates'
  BY <1>1 DEF EmptyStore, Retire, Migrates
<1>3. retired' \subseteq Old'
  <2>1. Old' = Old
    BY <1>1 DEF Old
  <2> QED
    BY <2>1 DEF Retire, SecretInv
<1> QED
  BY <1>1, <1>2, <1>3 DEF SecretInv, NoRevival

-----------------------------------------------------------------------------
(* The fetch inside the fork command. *)

States == [F!Subjects -> Values]

\* The calls answered so far brought what the block named on the command line
\* holds, however far the remote chain has got.
FetchInv ==
  /\ remote \in Seq(States) /\ Len(remote) >= 1
  /\ outcome \in {Idle, "fetching", "failed", "done"} /\ genesis \in Seq(Answer)
  /\ asked \in 0 .. Len(F!Calls) /\ block \in Nat \cup {Latest}
  /\ outcome = Idle => asked = 0 /\ genesis = <<>>
  /\ outcome = "done" => asked = Len(F!Calls)
  /\ asked = 0 => genesis = <<>>
  /\ block # Latest /\ asked # 0 =>
       block \in 1 .. Len(remote) /\ genesis = F!Taken(remote[block])[asked]

RunInv == DirInv /\ SecretInv /\ FetchInv

\* Every state of the remote chain answers every call.
LEMMA AnswersType ==
  ASSUME remote \in Seq(States), NEW b \in 1 .. Len(remote), NEW n \in 1 .. Len(F!Calls)
  PROVE  remote[b][F!Calls[n]] \in Values
<1>1. F!Calls[n] \in F!Subjects
  <2>1. n \in DOMAIN F!Calls
    BY CallsType, LenProperties
  <2> QED
    BY <2>1 DEF F!Subjects, F!Range
<1>2. remote[b] \in States
  BY ElementOfSeq
<1> QED
  BY <1>1, <1>2 DEF States

\* A fetch of a numbered block that is through brought that block's state.
LEMMA ExactFetch == RunInv => NumberedForkIsExact
<1> SUFFICES ASSUME FetchInv, outcome = "done", block # Latest
             PROVE  genesis = F!Snapshot(remote[block])
  BY DEF RunInv, NumberedForkIsExact
<1>1. asked = Len(F!Calls) /\ Len(F!Calls) \in Nat
  BY CallsType, LenProperties DEF FetchInv
<1>2. CASE asked = 0
  <2>1. F!Taken(remote[block])[0] = <<>>
    BY SMT, <1>1, <1>2, TakenSteps
  <2> QED
    BY <1>1, <1>2, <2>1 DEF FetchInv, F!Snapshot
<1>3. CASE asked # 0
  BY <1>1, <1>3 DEF FetchInv, F!Snapshot
<1> QED
  BY <1>2, <1>3

\* One answer.
LEMMA FetchRun == ASSUME FetchInv, F!Fetch PROVE FetchInv'
<1> DEFINE call == F!Calls[asked + 1]
           value == F!StateAt(block)[call]
<1>1. /\ outcome = "fetching" /\ asked < Len(F!Calls) /\ F!Exists(block)
      /\ genesis' = genesis \o F!Entry(call, value) /\ asked' = asked + 1
      /\ UNCHANGED <<remote, block, outcome>>
  BY DEF F!Fetch, F!BlockOf
<1>2. FetchInv /\ Len(F!Calls) \in Nat /\ Len(remote) \in Nat /\ DOMAIN remote = 1 .. Len(remote)
  BY CallsType, LenProperties DEF FetchInv
<1>3. asked \in Nat /\ asked + 1 \in 1 .. Len(F!Calls) /\ asked + 1 \in 0 .. Len(F!Calls)
  BY SMT, <1>1, <1>2 DEF FetchInv
<1>4. call \in Call /\ value \in Values
  <2>1. call \in Call
    BY <1>3, CallsType, ElementOfSeq
  <2>2. CASE block = Latest
    <3>1. Len(remote) \in 1 .. Len(remote)
      BY SMT, <1>2 DEF FetchInv
    <3> QED
      BY <1>2, <1>3, <2>1, <2>2, <3>1, AnswersType DEF F!StateAt, FetchInv
  <2>3. CASE block # Latest
    <3>1. block \in 1 .. Len(remote)
      BY <1>1, <1>2, <2>3 DEF F!Exists
    <3> QED
      BY <1>2, <1>3, <2>1, <2>3, <3>1, AnswersType DEF F!StateAt, FetchInv
  <2> QED
    BY <2>1, <2>2, <2>3
<1>5. genesis' \in Seq(Answer)
  <2>1. F!Entry(call, value) \in Seq(Answer) /\ genesis \in Seq(Answer)
    BY <1>2, <1>4, EntryType DEF FetchInv
  <2> HIDE DEF call, value
  <2> QED
    BY <1>1, <2>1, ConcatProperties
<1>6. ASSUME block # Latest
      PROVE  block \in 1 .. Len(remote) /\ genesis' = F!Taken(remote[block])[asked']
  <2>1. block \in 1 .. Len(remote) /\ value = remote[block][call]
    BY <1>1, <1>2, <1>6 DEF F!Exists, F!StateAt
  <2>2. \A n \in 1 .. Len(F!Calls) : remote[block][F!Calls[n]] \in Values
    BY <1>2, <2>1, AnswersType DEF FetchInv
  <2>3. /\ F!Taken(remote[block])[0] = <<>>
        /\ F!Taken(remote[block])[asked + 1]
             = F!Taken(remote[block])[asked] \o F!Entry(call, remote[block][call])
    <3> DEFINE state == remote[block]
               n == asked + 1
    <3>1. /\ F!Taken(state)[0] = <<>>
          /\ \A m \in 1 .. Len(F!Calls) :
               F!Taken(state)[m] = F!Taken(state)[m - 1] \o F!Entry(F!Calls[m], state[F!Calls[m]])
      <4> HIDE DEF state
      <4>1. \A m \in 1 .. Len(F!Calls) : state[F!Calls[m]] \in Values
        BY <2>2 DEF state
      <4> QED
        BY <4>1, TakenSteps
    <3>2. n \in 1 .. Len(F!Calls) /\ n - 1 = asked
      BY SMT, <1>3
    <3> QED
      BY <3>1, <3>2
  <2>4. genesis = F!Taken(remote[block])[asked]
    BY <1>2, <1>6, <2>3 DEF FetchInv
  <2> HIDE DEF call, value
  <2> QED
    BY <1>1, <2>1, <2>3, <2>4
<1> HIDE DEF call, value
<1> QED
  BY SMT, <1>1, <1>2, <1>3, <1>5, <1>6 DEF FetchInv, Idle

\* The fetch begins, ends, fails, is handed over, or its process is killed.
LEMMA AroundFetch ==
  ASSUME FetchInv,
         \/ \E b \in Blocks : BeginFetch(b)
         \/ F!FetchEnds \/ GiveUp \/ HandOver \/ EndFetch
  PROVE  FetchInv'
<1>0. 0 \in 0 .. Len(F!Calls)
  BY SMT, CallsType, LenProperties
<1>1. ASSUME NEW b \in Blocks, BeginFetch(b) PROVE FetchInv'
  BY <1>0, <1>1, ForkRunAssumption DEF BeginFetch, FetchInv, Idle
<1>2. ASSUME F!FetchEnds PROVE FetchInv'
  BY <1>0, <1>2 DEF F!FetchEnds, FetchInv, Idle
<1>3. ASSUME GiveUp PROVE FetchInv'
  BY <1>0, <1>3 DEF GiveUp, F!FetchFails, FetchInv, Idle
<1>4. ASSUME HandOver \/ EndFetch PROVE FetchInv'
  <2>1. remote' = remote /\ Forget
    BY <1>4 DEF HandOver, EndFetch
  <2> QED
    BY <1>0, <2>1, EmptySeq DEF Forget, FetchInv, Idle
<1> QED
  BY <1>1, <1>2, <1>3, <1>4

\* The remote chain gets a block.
LEMMA AdvanceRun == ASSUME FetchInv, AdvanceRemote PROVE FetchInv'
<1>1. /\ remote \in Seq(States) /\ Len(remote) \in 1 .. Len(remote)
      /\ Len(remote) \in Nat
  BY SMT, LenProperties DEF FetchInv
<1>2. PICK s \in F!Subjects, value \in Values :
        remote' = Append(remote, [remote[Len(remote)] EXCEPT ![s] = value])
  BY DEF AdvanceRemote, F!Advance
<1> DEFINE state == [remote[Len(remote)] EXCEPT ![s] = value]
<1>3. remote[Len(remote)] \in States
  BY <1>1, ElementOfSeq
<1>4. state \in States
  BY <1>3 DEF States
<1>5. remote' = Append(remote, state)
  BY <1>2
<1>6. UNCHANGED <<block, asked, genesis, outcome>>
  BY DEF AdvanceRemote, F!Advance
<1> HIDE DEF state
<1>7. /\ remote' \in Seq(States) /\ Len(remote') = Len(remote) + 1
      /\ \A b \in 1 .. Len(remote) : remote'[b] = remote[b] /\ b \in 1 .. Len(remote')
  BY SMT, <1>1, <1>4, <1>5, AppendProperties
<1>8. ASSUME block # Latest, asked # 0
      PROVE  block \in 1 .. Len(remote') /\ genesis = F!Taken(remote'[block])[asked]
  BY <1>1, <1>7, <1>8 DEF FetchInv
<1> QED
  BY SMT, <1>1, <1>6, <1>7, <1>8 DEF FetchInv

-----------------------------------------------------------------------------
(* The two together. *)

\* The invariant before anything happened.
LEMMA InitRun == ForkInit => RunInv
<1> SUFFICES ASSUME ForkInit PROVE RunInv
  OBVIOUS
<1>1. DirInv
  BY InitDir DEF ForkInit
<1>2. SecretInv
  BY SMT DEF ForkInit, Init, SecretInv, Down, EmptyStore
<1>3. remote \in Seq(States) /\ Len(remote) = 1
  <2>1. PICK state \in States : remote = <<state>>
    BY DEF ForkInit, States
  <2> QED
    BY SMT, <2>1
<1>4. 0 \in 0 .. Len(F!Calls)
  BY SMT, CallsType, LenProperties
<1>5. FetchInv
  BY SMT, <1>3, <1>4, EmptySeq DEF FetchInv, ForkInit, Idle
<1> QED
  BY <1>1, <1>2, <1>5 DEF RunInv

\* A command that exits before it opens the node.
LEMMA RefuseRun ==
  ASSUME DirInv, SecretInv, Refuse, Retire PROVE DirInv' /\ SecretInv' /\ NoRevival
<1>1. UNCHANGED <<journal, store, node, first, drawn>>
  BY DEF Refuse
<1> QED
  BY <1>1, IdleDir, IdleSecret

\* The commands of module Launcher.
LEMMA CommandRun ==
  ASSUME DirInv, SecretInv, Command PROVE DirInv' /\ SecretInv' /\ NoRevival
<1>0. Retire
  BY DEF Command, Operate
<1>1. ASSUME NEW flag, (\E faucets \in Fundings : Start(faucets, flag)) \/ RunValidator(flag)
      PROVE  DirInv' /\ SecretInv' /\ NoRevival
  BY <1>0, <1>1, RunDir, RunSecret
<1>2. ASSUME Serve PROVE DirInv' /\ SecretInv' /\ NoRevival
  BY <1>0, <1>2, ServeDir, ServeSecret
<1>3. ASSUME Stop PROVE DirInv' /\ SecretInv' /\ NoRevival
  <2>1. UNCHANGED <<journal, store, drawn>> /\ node' \in {node, Down}
    BY <1>3 DEF Stop
  <2> QED
    BY <1>0, <1>3, <2>1, StopDir, IdleSecret
<1>4. ASSUME Reset PROVE DirInv' /\ SecretInv' /\ NoRevival
  BY <1>0, <1>4, ResetDir, ResetSecret
<1>5. ASSUME ForkWithoutUrl \/ ForkReopens PROVE DirInv' /\ SecretInv' /\ NoRevival
  <2>1. Refuse
    BY <1>5 DEF ForkWithoutUrl, ForkReopens, ForkHandsOver
  <2> QED
    BY <1>0, <2>1, RefuseRun
<1> QED
  BY <1>1, <1>2, <1>3, <1>4, <1>5 DEF Command, Operate

\* A step of another part leaves the directory and its secrets alone.
LEMMA UnchangedRun ==
  ASSUME DirInv, SecretInv, UNCHANGED vars PROVE DirInv' /\ SecretInv' /\ NoRevival
<1>1. UNCHANGED <<journal, store, node, first, drawn, retired>>
  BY DEF vars
<1>2. SecretInv' /\ NoRevival
  BY <1>1 DEF SecretInv, Old, Migrates, NoRevival
<1> QED
  BY <1>1, <1>2, IdleDir

\* Every step of a directory and of the chain it may be forked from.
LEMMA StepRun == RunInv /\ [ForkNext]_allVars => RunInv' /\ NoRevival
<1> SUFFICES ASSUME RunInv, [ForkNext]_allVars PROVE RunInv' /\ NoRevival
  OBVIOUS
<1>0. DirInv /\ SecretInv /\ FetchInv
  BY DEF RunInv
<1>1. CASE UNCHANGED vars
  <2>1. DirInv' /\ SecretInv' /\ NoRevival
    BY <1>0, <1>1, UnchangedRun
  <2>2. FetchInv'
    <3>1. ASSUME Command PROVE FetchInv'
      BY <1>0, <3>1 DEF Command, forkVars, FetchInv
    <3>2. ASSUME UNCHANGED allVars PROVE FetchInv'
      BY <1>0, <3>2 DEF allVars, forkVars, FetchInv
    <3> QED
      BY <1>0, <3>1, <3>2, FetchRun, AroundFetch, AdvanceRun DEF ForkNext, FetchStep
  <2> QED
    BY <2>1, <2>2 DEF RunInv
<1>2. CASE GiveUp \/ HandOver
  <2>1. Refuse /\ Retire
    BY <1>2 DEF GiveUp, HandOver, ForkFetchFails, ForkHandsOver
  <2> QED
    BY <1>0, <1>2, <2>1, RefuseRun, AroundFetch DEF RunInv
<1>3. CASE Command
  <2>1. FetchInv'
    BY <1>0, <1>3 DEF Command, forkVars, FetchInv
  <2> QED
    BY <1>0, <1>3, <2>1, CommandRun DEF RunInv
<1> QED
  BY <1>1, <1>2, <1>3 DEF ForkNext, allVars, BeginFetch, FetchStep, EndFetch, AdvanceRemote, vars

\* The invariant holds throughout.
LEMMA AlwaysRun == ForkSpec => []RunInv
<1>1. RunInv /\ [ForkNext]_allVars => RunInv'
  BY StepRun
<1> QED
  BY <1>1, InitRun, PTL DEF ForkSpec

-----------------------------------------------------------------------------
(* The theorems. *)

\* Until it is reset, a directory keeps the chain id and the allocations it
\* was created with, whatever commands and flags reopen it.
THEOREM DirectoryKeepsGenesis == ForkSpec => []GenesisPinned
<1>1. RunInv => GenesisPinned
  BY SMT DEF RunInv, DirInv, StorePinned, NodePinned, EmptyStore, GenesisPinned
<1> QED
  BY <1>1, AlwaysRun, PTL

\* A faucet secret that another one has replaced comes back only when the
\* operator passes it: a start draws a new one or goes on with the stored one,
\* and open() does not take it from a sidecar that an interrupted migration has
\* left behind.
THEOREM SecretsStayRetired == ForkSpec => RetiredStayRetired
<1>1. RunInv /\ [ForkNext]_allVars
        => [store'.key # store.key /\ store'.key \in retired => store'.key = node.flag]_vars
  BY StepRun DEF NoRevival
<1> QED
  BY <1>1, AlwaysRun, PTL DEF ForkSpec, RetiredStayRetired

\* What a fork of a numbered block imports is that block's state, however far
\* the remote chain gets between the calls.
THEOREM NumberedForksAreExact == ForkSpec => []NumberedForkIsExact
  BY ExactFetch, AlwaysRun, PTL
=============================================================================
