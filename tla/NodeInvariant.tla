---------------------------- MODULE NodeInvariant ---------------------------
(***************************************************************************)
(* The inductive invariants of KanariNode, and the facts about its types and*)
(* helpers and about the chain of a directory that the proofs about the node*)
(* share.                                                                  *)
(***************************************************************************)
EXTENDS KanariNode, TLAPS, SequenceTheorems

(* Sealing a transaction keeps the state well formed: no balance goes below *)
(* zero, whoever sends, receives and collects the fees.                     *)

\* The price a sender pays lies between the base fee and the sender's cap.
LEMMA PriceRange ==
  ASSUME NEW tx, tx.maxFee \in Nat, tx.tip \in Nat, NEW fee \in 0 .. U64Modulus - 1,
         tx.maxFee >= fee
  PROVE  Price(tx, fee) \in Nat /\ fee <= Price(tx, fee) /\ Price(tx, fee) <= tx.maxFee
BY GasAssumption DEF Price, effective_gas_price, saturating_add, AtMost

\* A product grows with its second factor.
LEMMA ProductMonotone ==
  ASSUME NEW x \in Nat, NEW y \in Nat, NEW z \in Nat, x <= y
  PROVE  z * x <= z * y /\ z * x \in Nat /\ z * y \in Nat
  OBVIOUS

\* Settling an admissible transaction leaves every balance a natural number.
LEMMA SettleType ==
  ASSUME NEW d \in Db, NEW tx \in Tx, NEW fee \in 0 .. U64Modulus - 1,
         Admissible(d, tx, fee)
  PROVE  Settle(d.balance, tx, fee) \in [Addr -> Nat]
<1> DEFINE price == Price(tx, fee)
           moved == IF Succeeds(tx) THEN tx.value ELSE 0
           tipped == tx.gas * (price - fee)
           spent == tx.gas * price + moved
           paid == [d.balance EXCEPT ![tx.from] = @ - spent]
           received == [paid EXCEPT ![tx.to] = @ + moved]
<1>1. /\ tx \in TxType /\ tx.gas \in Nat /\ tx.value \in Nat /\ tx.maxFee \in Nat
      /\ tx.tip \in Nat /\ tx.from \in Addr /\ tx.to \in Addr /\ Beneficiary \in Addr
      /\ d.balance \in [Addr -> Nat] /\ fee \in Nat
  BY EvmAssumption, GasAssumption DEF TxType, Db
<1>2. price \in Nat /\ fee <= price /\ price <= tx.maxFee
  BY Zenon, <1>1, PriceRange DEF Admissible
<1>3. moved \in Nat /\ moved <= tx.value
  BY <1>1
<1> HIDE DEF moved, price
<1>4. tipped \in Nat
  BY <1>1, <1>2
<1>5. spent \in Nat /\ spent <= d.balance[tx.from]
  <2>1. tx.gas * price <= tx.gas * tx.maxFee /\ tx.gas * price \in Nat
        /\ tx.gas * tx.maxFee \in Nat
    BY Zenon, <1>1, <1>2, ProductMonotone
  <2> QED
    BY <1>1, <1>3, <2>1 DEF Admissible
<1> HIDE DEF spent, tipped
<1>6. paid \in [Addr -> Nat]
  BY <1>1, <1>5
<1>7. received \in [Addr -> Nat]
  BY <1>1, <1>3, <1>6
<1>8. [received EXCEPT ![Beneficiary] = @ + tipped] \in [Addr -> Nat]
  <2> HIDE DEF received
  <2> QED
    BY <1>1, <1>4, <1>7
<1> QED
  BY Zenon, <1>8 DEF Settle, received, paid, spent, tipped, moved, price

\* The state after transact_raw and credit_beneficiary is a state again.
LEMMA CreditedType ==
  ASSUME NEW d \in Db, NEW tx \in Tx, NEW fee \in 0 .. U64Modulus - 1,
         NEW timestamp \in Nat, Admissible(d, tx, fee)
  PROVE  /\ credit_beneficiary(transact_raw(d, tx, timestamp, fee),
                               base_fee_share(tx.gas, fee)) \in Db
         /\ credit_beneficiary(transact_raw(d, tx, timestamp, fee),
                               base_fee_share(tx.gas, fee)).nonce
              = [d.nonce EXCEPT ![tx.from] = @ + 1]
<1> DEFINE executed == transact_raw(d, tx, timestamp, fee)
           share == base_fee_share(tx.gas, fee)
<1>1. /\ tx.gas \in Nat /\ tx.from \in Addr /\ Beneficiary \in Addr /\ fee \in Nat
      /\ d.nonce \in [Addr -> Nat] /\ d.slot \in [Slot -> Nat \cup {Unloaded}]
  BY EvmAssumption, GasAssumption DEF TxType, Db
<1>2. share \in Nat
  BY <1>1 DEF base_fee_share
<1>3. /\ [d.nonce EXCEPT ![tx.from] = @ + 1] \in [Addr -> Nat]
      /\ [s \in Slot |-> timestamp] \in [Slot -> Nat \cup {Unloaded}]
  BY <1>1
<1>4. /\ executed \in Db
      /\ executed.nonce = [d.nonce EXCEPT ![tx.from] = @ + 1]
  BY Zenon, <1>1, <1>3, SettleType DEF transact_raw, Db
<1> HIDE DEF executed, share
<1>5. /\ credit_beneficiary(executed, share) \in Db
      /\ credit_beneficiary(executed, share).nonce = executed.nonce
  BY <1>1, <1>2, <1>4 DEF credit_beneficiary, Db
<1> QED
  BY Zenon, <1>4, <1>5 DEF executed, share

\* The committed root of a state.
LEMMA RootType == ASSUME NEW d \in Db PROVE rebuild_smt(d) \in Root
<1>1. \A a \in Addr : Leaf(d, a) \in (Nat \X Nat) \cup {Unloaded}
  BY Zenon DEF Leaf, Db
<1> QED
  BY Zenon, <1>1 DEF rebuild_smt, Root, Db

-----------------------------------------------------------------------------

Running == status \in {"replaying", "up"}

(***************************************************************************)
(* The inductive invariant.  StoreOK is about the database alone.          *)
(* SessionOK ties memory to it: what is in memory is a prefix of the       *)
(* store, and every transaction in it has used up its nonce, which is why  *)
(* none can be sealed again.  While replay rewrites the store, m:height    *)
(* either still covers the whole chain or follows memory.                  *)
(***************************************************************************)
StoreOK ==
  /\ \A n \in 1 .. height :
       /\ stored[n] \in Block /\ stored[n].number = n
       /\ stored[n].parent = IF n = 1 THEN genesis_hash ELSE stored[n - 1].hash
       /\ stored[n].hash = block_hash(stored[n].parent, n, stored[n].timestamp)
       /\ stored[n].tx.chain = metaChain
  /\ \A m, n \in 1 .. height : stored[m].tx = stored[n].tx => m = n
  /\ metaChain = NoChain => height = 0

SessionOK ==
  /\ metaChain = spec.chain /\ Len(blocks) <= height
  /\ \A n \in 1 .. Len(blocks) :
       /\ blocks[n] = stored[n]
       /\ blocks[n].tx.nonce < db.nonce[blocks[n].tx.from]
       /\ receipts[blocks[n].tx] = ReceiptOf(blocks[n])
       /\ storedReceipts[blocks[n].tx] = ReceiptOf(blocks[n])
  /\ \A t \in Tx : receipts[t] # NoReceipt =>
       \E n \in 1 .. Len(blocks) : blocks[n].tx = t

ReplayOK ==
  /\ Len(blocks) = height \/ (blocks = <<>> /\ Len(todo) = height)
  /\ Len(blocks) + Len(todo) <= MaxBlocks
  /\ \A i \in 1 .. Len(todo) : todo[i].number = Len(blocks) + i

PhaseOK ==
  /\ Running => SessionOK
  /\ ~Running => blocks = <<>> /\ receipts = NoReceipts
  /\ status = "replaying" => ReplayOK
  /\ status # "replaying" => todo = <<>>
  /\ status = "up" => Len(blocks) = height /\ faucetKey = storedKey
  /\ status \in {"migrating", "renaming"} =>
       journal # NoJournal /\ height = 0 /\ metaChain = spec.chain
  /\ status \in {"renaming", "replaying"} => (storedKey = NoKey => faucetKey = NoKey)
  /\ status \in {"down", "rejected", "diverged", "migrating"} => faucetKey = NoKey

IInv == TypeOK /\ StoreOK /\ PhaseOK

-----------------------------------------------------------------------------
(* Facts about the helpers. *)

\* Types of the fields of a decoded transaction.
LEMMA TxFields ==
  ASSUME NEW tx \in Tx
  PROVE  /\ tx.from \in Addr /\ tx.nonce \in Nat /\ tx.gas \in Nat /\ tx.chain \in Nat
  BY Zenon, EvmAssumption DEF TxType

\* `as u64` gives a u64.
LEMMA CastType == ASSUME NEW x \in Nat PROVE AsU64(x) \in 0 .. U64Modulus - 1
  BY GasAssumption DEF AsU64

\* What seal_raw_with_fee is called with, for a transaction it accepts.
SealArgs(d, tx, now, fee) ==
  /\ d \in Db /\ tx \in Tx /\ now \in Nat /\ fee \in 0 .. U64Modulus - 1
  /\ Admissible(d, tx, fee)

BlockArgs(d, bs, tx, number, now, fee) ==
  SealArgs(d, tx, now, fee) /\ bs \in Seq(Block) /\ number \in 1 .. MaxBlocks

\* e is a state in which tx, sent from d, has used up its nonce.
UsesNonce(d, tx, e) == e \in Db /\ e.nonce = [d.nonce EXCEPT ![tx.from] = @ + 1]

\* Sealing an admissible transaction keeps the state well typed, and uses up
\* one nonce of its sender.
LEMMA StateAfterType ==
  ASSUME NEW d, NEW tx, NEW now, NEW fee, SealArgs(d, tx, now, fee)
  PROVE  UsesNonce(d, tx, StateAfter(d, tx, now, fee))
  BY CreditedType DEF StateAfter, SealArgs, UsesNonce

\* What BlockOf seals is a block, linked to the head of bs.
LEMMA BlockOfType ==
  ASSUME NEW d, NEW bs, NEW tx, NEW number, NEW now, NEW fee,
         BlockArgs(d, bs, tx, number, now, fee)
  PROVE  LET b == BlockOf(d, bs, tx, number, now, fee) IN
         /\ b \in Block /\ b.number = number /\ b.tx = tx
         /\ b.parent = IF bs = <<>> THEN genesis_hash ELSE bs[Len(bs)].hash
         /\ b.hash = block_hash(b.parent, number, b.timestamp)
         /\ ReceiptOf(b) \in Receipt
<1> DEFINE parent == next_parent_hash(bs)
           hash == block_hash(parent, number, now)
           b == BlockOf(d, bs, tx, number, now, fee)
<1>0. /\ SealArgs(d, tx, now, fee) /\ tx \in Tx /\ now \in Nat /\ number \in 1 .. MaxBlocks
      /\ fee \in 0 .. U64Modulus - 1 /\ bs \in Seq(Block)
  BY Zenon DEF BlockArgs, SealArgs
<1>1. parent \in Hash
  <2>1. CASE bs = <<>>
    BY <2>1 DEF next_parent_hash, genesis_hash, Hash
  <2>2. CASE bs # <<>>
    <3>1. bs[Len(bs)] \in Block
      BY <1>0, <2>2, EmptySeq, ElementOfSeq, LenProperties
    <3> QED
      BY Zenon, <2>2, <3>1 DEF next_parent_hash, Block
  <2> QED
    BY Zenon, <2>1, <2>2
<1>2. hash \in Hash
  <2>1. <<number, now>> \in Nat \X Nat
    BY <1>0, NodeAssumption
  <2> QED
    BY Zenon, <1>1, <2>1, AppendProperties DEF block_hash, Hash
<1>3. rebuild_smt(StateAfter(d, tx, now, fee)) \in Root
  <2>1. UsesNonce(d, tx, StateAfter(d, tx, now, fee))
    BY <1>0, StateAfterType
  <2> QED
    BY Zenon, <2>1, RootType DEF UsesNonce
<1>4. b = [number |-> number, timestamp |-> now, hash |-> hash, parent |-> parent,
           tx |-> tx, root |-> rebuild_smt(StateAfter(d, tx, now, fee)), fee |-> fee]
  BY Zenon DEF BlockOf
<1>5. b \in Block
  <2> HIDE DEF b, hash, parent
  <2> QED
    BY Zenon, <1>0, <1>1, <1>2, <1>3, <1>4, NodeAssumption DEF Block
<1>6. ReceiptOf(b) \in Receipt
  <2> HIDE DEF b
  <2> QED
    BY Zenon, <1>5, TxFields DEF ReceiptOf, Receipt, Block, Succeeds
<1>7. /\ b.number = number /\ b.tx = tx /\ b.parent = parent /\ b.hash = hash
      /\ b.timestamp = now
  BY <1>4
<1>8. parent = IF bs = <<>> THEN genesis_hash ELSE bs[Len(bs)].hash
  BY Zenon DEF next_parent_hash
<1> QED
  BY Zenon, <1>5, <1>6, <1>7, <1>8

\* The block that is sealed, by a name.
LEMMA SealedBlock ==
  ASSUME NEW d, NEW bs, NEW tx, NEW number, NEW now, NEW fee,
         BlockArgs(d, bs, tx, number, now, fee),
         NEW b, b = BlockOf(d, bs, tx, number, now, fee)
  PROVE  b \in Block /\ b.number = number /\ b.tx = tx
  BY BlockOfType

\* A block is appended behind the others.
LEMMA AppendedBlock ==
  ASSUME NEW bs \in Seq(Block), NEW b \in Block
  PROVE  /\ Append(bs, b) \in Seq(Block) /\ Len(Append(bs, b)) = Len(bs) + 1
         /\ Append(bs, b)[Len(bs) + 1] = b
         /\ \A n \in 1 .. Len(bs) : Append(bs, b)[n] = bs[n]
  BY AppendProperties

\* calc_next_base_fee returns a number, for every gas limit.
LEMMA NextFeeType ==
  ASSUME NEW fee \in Nat, NEW gas \in Nat
  PROVE  calc_next_base_fee(fee, gas, BlockGasLimit) \in Nat
<1> DEFINE target == GasTarget(BlockGasLimit)
<1>1. target \in Nat
  BY GasAssumption DEF GasTarget, GasTargetDivisor
<1>2. \A miss \in Nat : target # 0 => FeeDelta(fee, miss, target) \in Nat
  <2> TAKE miss \in Nat
  <2> HAVE target # 0
  <2>1. saturating_mul(fee, miss) \in Nat
    BY GasAssumption DEF saturating_mul, AtMost
  <2> HIDE DEF target
  <2> QED
    BY <1>1, <2>1 DEF FeeDelta, MaxChangeDenominator
<1> HIDE DEF target
<1>3. calc_next_base_fee(fee, gas, BlockGasLimit) =
        CASE target = 0 \/ gas = target -> AtLeast(fee, MinBaseFee)
          [] target > 0 /\ gas > target ->
               AtLeast(saturating_add(fee, AtLeast(FeeDelta(fee, gas - target, target), 1)),
                       MinBaseFee)
          [] target > 0 /\ gas < target ->
               AtLeast(saturating_sub(fee, FeeDelta(fee, target - gas, target)), MinBaseFee)
  BY Zenon DEF calc_next_base_fee, target
<1>4. CASE target = 0 \/ gas = target
  BY <1>1, <1>3, <1>4 DEF AtLeast, MinBaseFee
<1>5. CASE target > 0 /\ gas > target
  <2>1. FeeDelta(fee, gas - target, target) \in Nat
    BY <1>1, <1>2, <1>5
  <2>2. AtLeast(saturating_add(fee, AtLeast(FeeDelta(fee, gas - target, target), 1)),
                MinBaseFee) \in Nat
    BY <2>1, GasAssumption DEF AtLeast, saturating_add, AtMost, MinBaseFee
  <2> QED
    BY <1>1, <1>3, <1>5, <2>2
<1>6. CASE target > 0 /\ gas < target
  <2>1. FeeDelta(fee, target - gas, target) \in Nat
    BY <1>1, <1>2, <1>6
  <2>2. AtLeast(saturating_sub(fee, FeeDelta(fee, target - gas, target)), MinBaseFee) \in Nat
    BY <2>1 DEF AtLeast, saturating_sub, MinBaseFee
  <2> QED
    BY <1>1, <1>3, <1>6, <2>2
<1> QED
  BY <1>1, <1>4, <1>5, <1>6

\* Types of the fields of a sealed block.
LEMMA BlockFields ==
  ASSUME NEW b \in Block
  PROVE  /\ b.number \in 1 .. MaxBlocks /\ b.timestamp \in Nat /\ b.tx \in Tx
         /\ b.fee \in 0 .. U64Modulus - 1 /\ b.hash \in Hash
         /\ b.root \in Root \cup {NoRoot}
  BY Zenon DEF Block

\* The fee the next block would be sealed under is a u64.
LEMMA PendingFeeType ==
  ASSUME TypeOK, SessionOK
  PROVE  AsU64(pending_base_fee) \in 0 .. U64Modulus - 1
<1>1. CASE blocks = <<>>
  <2>1. spec.baseFee \in Nat
    BY Zenon DEF TypeOK, SpecType
  <2> QED
    BY Zenon, <1>1, <2>1, CastType DEF pending_base_fee
<1>2. CASE blocks # <<>>
  <2> DEFINE head == blocks[Len(blocks)]
  <2>1. Len(blocks) \in 1 .. Len(blocks) /\ head \in Block
    BY <1>2, EmptySeq, ElementOfSeq, LenProperties DEF TypeOK
  <2>2. receipts[head.tx] = ReceiptOf(head)
    BY Zenon, <2>1 DEF SessionOK
  <2> HIDE DEF head
  <2>3. receipts[head.tx].gas \in Nat /\ head.fee \in Nat
    BY <2>1, <2>2, BlockFields, TxFields, GasAssumption DEF ReceiptOf
  <2>4. pending_base_fee \in Nat
    BY Zenon, <1>2, <2>3, NextFeeType DEF pending_base_fee, head
  <2> QED
    BY Zenon, <2>4, CastType
<1> QED
  BY Zenon, <1>1, <1>2

\* load_blocks of a store in order returns what m:height covers.
LEMMA LoadBlocks ==
  ASSUME TypeOK, StoreOK
  PROVE  /\ load_blocks = [n \in 1 .. height |-> stored[n]]
         /\ load_blocks \in Seq(Block) /\ Len(load_blocks) = height
         /\ \A n \in 1 .. height : load_blocks[n] = stored[n]
<1> DEFINE all == [n \in 1 .. height |-> stored[n]]
<1>1. height \in Nat /\ \A n \in 1 .. height : stored[n] \in Block
  BY NodeAssumption DEF TypeOK, StoreOK
<1>2. NoBlock \notin Range(all)
  BY Zenon, <1>1, NodeAssumption DEF Range
<1>3. all \in Seq(Block) /\ Len(all) = height
  BY <1>1, SeqDef
<1>4. load_blocks = all
  BY Zenon, <1>2 DEF load_blocks
<1> QED
  BY Zenon, <1>3, <1>4

\* The values a process starts from are well typed.
LEMMA EmptyTypes ==
  /\ NoSpec \in SpecType /\ EmptyDb \in Db /\ <<>> \in Seq(Block)
  /\ NoReceipts \in [Tx -> Receipt \cup {NoReceipt}] /\ Len(<<>>) = 0
<1>1. NoSpec \in SpecType
  BY DEF NoSpec, SpecType, AllocType
<1>2. EmptyDb \in Db
  BY Zenon DEF EmptyDb, Db
<1> QED
  BY <1>1, <1>2 DEF NoReceipts

\* A node that is up numbers its next block after the height of its store.
LEMMA NextSealed ==
  ASSUME IInv, NEW tx \in Tx, CanSeal(tx)
  PROVE  /\ TypeOK /\ StoreOK /\ SessionOK
         /\ block_number(blocks) = Len(blocks) /\ Len(blocks) < MaxBlocks
         /\ Len(blocks) = height /\ height \in Nat /\ status = "up"
         /\ AsU64(pending_base_fee) \in 0 .. U64Modulus - 1
         /\ Sealable(tx, AsU64(pending_base_fee))
         /\ Admissible(db, tx, AsU64(pending_base_fee))
<1>1. /\ TypeOK /\ StoreOK /\ SessionOK /\ status = "up" /\ Len(blocks) = height
  BY Zenon DEF IInv, PhaseOK, Running, CanSeal
<1>2. height \in Nat /\ blocks \in Seq(Block)
  BY <1>1, NodeAssumption DEF TypeOK
<1>3. block_number(blocks) = Len(blocks)
  <2>1. CASE blocks = <<>>
    BY Zenon, <2>1, EmptyTypes DEF block_number
  <2>2. CASE blocks # <<>>
    <3>1. Len(blocks) \in 1 .. Len(blocks) /\ Len(blocks) \in 1 .. height
      BY <1>1, <1>2, <2>2, EmptySeq
    <3> QED
      BY <1>1, <2>2, <3>1 DEF block_number, SessionOK, StoreOK
  <2> QED
    BY Zenon, <2>1, <2>2
<1> QED
  BY Zenon, <1>1, <1>2, <1>3, PendingFeeType DEF CanSeal, Sealable

-----------------------------------------------------------------------------
(***************************************************************************)
(* The inductive invariant without faults.  It follows the chain of the    *)
(* directory, Chain, through its three places: the journal, the store, and *)
(* the replay that moves it from either into memory.                       *)
(***************************************************************************)

\* Block n was sealed on the state before it, and left the state after it.
SealedAs(n, b) ==
  /\ b.number = n /\ b.hash = block_hash(b.parent, n, b.timestamp)
  /\ ExecutedFrom(hist[n - 1], b, hist[n])
  /\ b.root \in {NoRoot, rebuild_smt(hist[n])}

ChainSealed ==
  \A n \in 1 .. Len(Chain) :
    /\ SealedAs(n, Chain[n])
    /\ Chain[n].parent = IF n = 1 THEN genesis_hash ELSE Chain[n - 1].hash

\* Every answer is about a block of the chain.
AnswersInChain == \A a \in acked : \E n \in 1 .. Len(Chain) : a = Id(Chain[n])

\* b is c, up to a root that c may have and b not.
SameBlock(b, c) == b = [c EXCEPT !.root = b.root]

\* Whatever the store holds, below m:height or above it, is of the chain.
StoreInChain ==
  \A n \in 1 .. MaxBlocks :
    stored[n] # NoBlock =>
      /\ n <= Len(Chain) /\ SameBlock(stored[n], Chain[n])
      /\ stored[n].root \in {NoRoot, rebuild_smt(hist[n])}

\* A journal is either all there is, or being migrated.
JournalFirst ==
  /\ journal # NoJournal =>
       /\ height = 0 /\ ~Running
       /\ metaChain # NoChain => status \in {"migrating", "renaming"}
  /\ status \in {"migrating", "renaming"} =>
       apply_genesis(spec) = hist[0] /\ journal.chain = spec.chain

\* Memory is the state after the blocks replayed or sealed so far, and what
\* is left to replay decodes; a replay from the store has all of it to do.
MemoryFollows ==
  /\ Running =>
       /\ db = hist[Len(blocks)]
       /\ \A n \in 1 .. Len(blocks) : blocks[n].root = rebuild_smt(hist[n])
  /\ status = "replaying" =>
       /\ \A i \in 1 .. Len(todo) : todo[i].tx.chain = spec.chain
       /\ blocks = <<>> /\ Len(todo) = height =>
            \A i \in 1 .. Len(todo) : todo[i] = stored[i]

Undisturbed ==
  /\ status # "diverged" /\ ChainSealed /\ AnswersInChain /\ StoreInChain
  /\ JournalFirst /\ MemoryFollows

FInv == faults = {} => Undisturbed

\* A running node was started on the genesis its history begins with.
GenesisKept == faults = {} /\ Running => apply_genesis(spec) = hist[0]

-----------------------------------------------------------------------------
(* The chain of the directory. *)

\* Where the chain is, by the phase of the node.
LEMMA ChainPlaces ==
  /\ Running => Chain = blocks \o todo
  /\ ~Running /\ journal # NoJournal => Chain = journal.blocks
  /\ ~Running /\ journal = NoJournal => Chain = load_blocks
  BY Zenon DEF Chain, Running

\* The chain is a sequence of blocks, as long as numbers allow.
ChainTyped ==
  /\ Chain \in Seq(Block) /\ Len(Chain) \in 0 .. MaxBlocks
  /\ Running => Len(Chain) = Len(blocks) + Len(todo)

\* The chain has the type and the length the invariant allows it.
LEMMA ChainType == IInv => ChainTyped
<1> SUFFICES ASSUME IInv
             PROVE  /\ Chain \in Seq(Block) /\ Len(Chain) \in 0 .. MaxBlocks
                    /\ Running => Len(Chain) = Len(blocks) + Len(todo)
  BY Zenon DEF ChainTyped
<1>0. TypeOK /\ StoreOK /\ PhaseOK
  BY Zenon DEF IInv
<1>1. CASE Running
  <2>1. Chain = blocks \o todo /\ blocks \in Seq(Block) /\ todo \in Seq(Block)
    BY Zenon, <1>0, <1>1, ChainPlaces DEF TypeOK
  <2>2. Chain \in Seq(Block) /\ Len(Chain) = Len(blocks) + Len(todo)
    BY Zenon, <2>1, ConcatProperties
  <2>3. Len(blocks) \in Nat /\ Len(todo) \in Nat
    BY Zenon, <2>1, LenProperties
  <2>4. Len(blocks) + Len(todo) <= MaxBlocks
    <3>1. CASE status = "replaying"
      BY Zenon, <1>0, <3>1 DEF PhaseOK, ReplayOK
    <3>2. CASE status = "up"
      BY <1>0, <2>3, <3>2, EmptyTypes, NodeAssumption DEF PhaseOK, TypeOK
    <3> QED
      BY Zenon, <1>1, <3>1, <3>2 DEF Running
  <2> QED
    BY <2>2, <2>3, <2>4, NodeAssumption
<1>2. CASE ~Running /\ journal # NoJournal
  <2>1. Chain = journal.blocks /\ journal \in Journals
    BY Zenon, <1>0, <1>2, ChainPlaces DEF TypeOK
  <2> QED
    BY <1>2, <2>1, NodeAssumption, JournalAssumption, LenProperties DEF JournalType
<1>3. CASE ~Running /\ journal = NoJournal
  <2>1. Chain = load_blocks
    BY Zenon, <1>3, ChainPlaces
  <2> QED
    BY Zenon, <1>0, <1>3, <2>1, LoadBlocks, NodeAssumption DEF TypeOK
<1> QED
  BY Zenon, <1>1, <1>2, <1>3

\* The chain of a node that runs, block by block.
ChainRuns ==
  Running =>
    /\ \A n \in 1 .. Len(blocks) : Chain[n] = blocks[n]
    /\ \A i \in 1 .. Len(todo) : Chain[Len(blocks) + i] = todo[i]
    /\ status = "up" => Chain = blocks

\* The blocks of a running node are where the replay has put them.
LEMMA ChainOfRunning == IInv => ChainRuns
<1> SUFFICES ASSUME IInv, Running
             PROVE  /\ \A n \in 1 .. Len(blocks) : Chain[n] = blocks[n]
                    /\ \A i \in 1 .. Len(todo) : Chain[Len(blocks) + i] = todo[i]
                    /\ status = "up" => Chain = blocks
  BY Zenon DEF ChainRuns
<1>1. Chain = blocks \o todo /\ blocks \in Seq(Block) /\ todo \in Seq(Block)
  BY Zenon, ChainPlaces DEF IInv, TypeOK
<1>2. Len(blocks) \in Nat /\ Len(todo) \in Nat
  BY Zenon, <1>1, LenProperties
<1>3. \A n \in 1 .. Len(blocks) : Chain[n] = blocks[n]
  BY <1>1, <1>2, ConcatProperties
<1>4. \A i \in 1 .. Len(todo) : Chain[Len(blocks) + i] = todo[i]
  BY <1>1, <1>2, ConcatProperties
<1>5. status = "up" => Chain = blocks
  BY Zenon, <1>1, ConcatEmptySeq DEF IInv, PhaseOK
<1> QED
  BY Zenon, <1>3, <1>4, <1>5

\* The chain of a node that does not run, with no journal left.
ChainRests ==
  ~Running /\ journal = NoJournal =>
    Len(Chain) = height /\ \A n \in 1 .. height : Chain[n] = stored[n]

\* The chain of a stopped node without a journal is its store.
LEMMA ChainOfStore == IInv => ChainRests
  BY Zenon, ChainPlaces, LoadBlocks DEF ChainRests, IInv

\* What is known of the chain in every state, and so in the next one.
ChainKnown == ChainTyped /\ ChainRuns /\ ChainRests

\* What the invariant says of the chain, in every phase.
LEMMA ChainFacts == IInv => ChainKnown
  BY Zenon, ChainType, ChainOfRunning, ChainOfStore DEF ChainKnown
=============================================================================
