---------------------------- MODULE AccountLemmas ---------------------------
(***************************************************************************)
(* What balances add up to, and what is read from a chain, in every state  *)
(* that the invariants of the node allow (NodeInvariant): the faucet's     *)
(* drips (module Faucet), what deposits do to a state, the sums that the   *)
(* supply is made of, the views of blocks and receipts (Views) and the     *)
(* traces (Trace).  The theorems on finite sets come after the parts that  *)
(* do without them.                                                        *)
(***************************************************************************)
EXTENDS NodeInvariant, Views, Faucet, Trace

USE Zenon

(* The faucet. *)

\* Integer division, as a bound on what it returns.
LEMMA Quotient ==
  ASSUME NEW x \in Nat, NEW y \in Nat \ {0}
  PROVE  x \div y \in Nat /\ y * (x \div y) <= x
  BY SMT

\* A positive factor can be cancelled from a comparison.
LEMMA FactorCancels ==
  ASSUME NEW x \in Nat, NEW y \in Nat, NEW z \in Nat \ {0}, z * x <= z * y
  PROVE  x <= y
<1>1. SUFFICES ASSUME y + 1 <= x PROVE FALSE
  BY SMT
<1>2. z * (y + 1) <= z * x
  BY SMT, <1>1, ProductMonotone
<1>3. z * (y + 1) = z * y + z
  BY SMT
<1> QED
  BY SMT, <1>2, <1>3

\* A block that is not fuller than the limit moves the fee by no more than the
\* fee itself: it misses a target of half the limit by the target and one.
LEMMA DeltaAtMostFee ==
  ASSUME NEW fee \in Nat, NEW target \in Nat \ {0}, NEW miss \in Nat, miss <= target + 1
  PROVE  FeeDelta(fee, miss, target) \in Nat /\ FeeDelta(fee, miss, target) <= fee
<1> DEFINE product == saturating_mul(fee, miss)
           quotient == product \div target
           delta == quotient \div 8
<1>1. product \in Nat /\ product <= fee * miss
  <2>1. fee * miss \in Nat
    BY SMT
  <2> QED
    BY SMT, <2>1, GasAssumption DEF saturating_mul, AtMost
<1>2. quotient \in Nat /\ target * quotient <= product
  BY SMT, <1>1, Quotient
<1>3. delta \in Nat /\ 8 * delta <= quotient
  BY SMT, <1>2, Quotient
<1>4. delta = FeeDelta(fee, miss, target)
  BY SMT DEF FeeDelta, MaxChangeDenominator
<1> HIDE DEF delta, quotient, product
<1>5. quotient <= 2 * fee
  <2>1. miss <= 2 * target /\ 2 * target \in Nat
    BY SMT
  <2>2. fee * miss <= fee * (2 * target)
    BY SMT, <2>1, ProductMonotone
  <2>3. fee * (2 * target) = target * (2 * fee)
    BY SMT
  <2>4. fee * miss \in Nat /\ target * (2 * fee) \in Nat /\ target * quotient \in Nat
    BY SMT, <1>2
  <2>5. target * quotient <= target * (2 * fee)
    BY SMT, <1>1, <1>2, <2>2, <2>3, <2>4
  <2>6. 2 * fee \in Nat
    BY SMT
  <2> QED
    BY <1>2, <2>5, <2>6, FactorCancels
<1> QED
  BY SMT, <1>3, <1>4, <1>5, <1>2

\* The next base fee is below twice the width of a stored one.
LEMMA NextFeeBound ==
  ASSUME NEW fee \in 0 .. U64Modulus - 1, NEW gas \in 0 .. BlockGasLimit
  PROVE  /\ calc_next_base_fee(fee, gas, BlockGasLimit) \in Nat
         /\ calc_next_base_fee(fee, gas, BlockGasLimit) <= 2 * U64Modulus
<1> DEFINE target == GasTarget(BlockGasLimit)
           next == calc_next_base_fee(fee, gas, BlockGasLimit)
<1>1. /\ target \in Nat /\ BlockGasLimit <= 2 * target + 1 /\ U64Modulus \in Nat \ {0}
      /\ fee \in Nat /\ gas \in Nat /\ fee < U64Modulus /\ BlockGasLimit \in Nat
  BY SMT, GasAssumption DEF GasTarget, GasTargetDivisor
<1>2. CASE target = 0 \/ gas = target
  <2>1. next = AtLeast(fee, MinBaseFee)
    BY SMT, <1>2 DEF calc_next_base_fee
  <2> QED BY SMT, <1>1, <2>1 DEF AtLeast, MinBaseFee
<1>3. CASE target > 0 /\ gas > target
  <2> DEFINE delta == FeeDelta(fee, gas - target, target)
  <2>1. next = AtLeast(saturating_add(fee, AtLeast(delta, 1)), MinBaseFee)
    BY SMT, <1>1, <1>3 DEF calc_next_base_fee
  <2>2. delta \in Nat /\ delta <= fee
    <3>1. gas - target \in Nat /\ gas - target <= target + 1 /\ target \in Nat \ {0}
      BY SMT, <1>1, <1>3
    <3> QED BY <1>1, <3>1, DeltaAtMostFee
  <2> HIDE DEF delta
  <2> QED BY SMT, <1>1, <2>1, <2>2, GasAssumption DEF AtLeast, MinBaseFee, saturating_add, AtMost
<1>4. CASE target > 0 /\ gas < target
  <2> DEFINE delta == FeeDelta(fee, target - gas, target)
  <2>1. next = AtLeast(saturating_sub(fee, delta), MinBaseFee)
    BY SMT, <1>1, <1>4 DEF calc_next_base_fee
  <2>2. delta \in Nat
    <3>1. target - gas \in Nat /\ target - gas <= target + 1 /\ target \in Nat \ {0}
      BY SMT, <1>1, <1>4
    <3> QED BY <1>1, <3>1, DeltaAtMostFee
  <2> HIDE DEF delta
  <2> QED BY SMT, <1>1, <2>1, <2>2 DEF AtLeast, MinBaseFee, saturating_sub
<1> HIDE DEF target, next
<1>5. \/ target = 0 \/ gas = target
      \/ target > 0 /\ gas > target
      \/ target > 0 /\ gas < target
  BY SMT, <1>1
<1> QED BY <1>2, <1>3, <1>4, <1>5 DEF next

\* What bounds the pending fee: the chain spec's, or the head block's gas.
FeeBounded ==
  /\ TransferGas * spec.baseFee <= MaxU128
  /\ \A n \in 1 .. Len(blocks) : blocks[n].tx.gas <= BlockGasLimit

\* A process that exits forgets its spec and its blocks.
LEMMA ExitBounded == ASSUME NEW how, Exit(how) PROVE FeeBounded'
<1>1. spec' = NoSpec /\ blocks' = <<>>
  BY DEF Exit
<1>2. TransferGas * NoSpec.baseFee <= MaxU128
  BY SMT, FaucetAssumption, GasAssumption DEF NoSpec
<1>3. 1 .. Len(blocks') = {}
  BY SMT, <1>1
<1> QED BY <1>1, <1>2, <1>3 DEF FeeBounded

\* The spec a node is started with has a fee that is bounded.
LEMMA OpenBounded ==
  ASSUME NEW s \in Specs, NEW alloc, IInv, ~Running,
         spec' = SpecWithAlloc(s, alloc), blocks' = blocks
  PROVE  FeeBounded'
<1>1. SpecWithAlloc(s, alloc).baseFee = s.baseFee
  BY SMT, NodeAssumption DEF SpecWithAlloc, SpecType
<1>2. TransferGas * s.baseFee <= MaxU128
  BY DripCostAssumption
<1>3. blocks = <<>>
  BY DEF IInv, PhaseOK
<1>4. 1 .. Len(blocks') = {}
  BY SMT, <1>3
<1> QED BY <1>1, <1>2, <1>4 DEF FeeBounded

\* A transaction that is sealed keeps to the block gas limit.
LEMMA SealBounded ==
  ASSUME FeeBounded, IInv, NEW tx, NEW b, Admissible(db, tx, b.fee), b.tx = tx,
         spec' = spec, blocks' = Append(blocks, b), b \in Block
  PROVE  FeeBounded'
<1>1. blocks \in Seq(Block) /\ Len(blocks) \in Nat
  BY LenProperties DEF IInv, TypeOK
<1>2. /\ Len(blocks') = Len(blocks) + 1 /\ blocks'[Len(blocks) + 1] = b
      /\ \A n \in 1 .. Len(blocks) : blocks'[n] = blocks[n]
  BY SMT, <1>1, AppendProperties
<1>3. b.tx.gas <= BlockGasLimit
  BY DEF Admissible
<1>4. ASSUME NEW n \in 1 .. Len(blocks') PROVE blocks'[n].tx.gas <= BlockGasLimit
  <2>1. n = Len(blocks) + 1 \/ n \in 1 .. Len(blocks)
    BY SMT, <1>1, <1>2
  <2> QED BY <1>2, <1>3, <2>1 DEF FeeBounded
<1> QED BY <1>4 DEF FeeBounded

\* Every step of the node keeps the bounds.
LEMMA StepBounded == IInv /\ FeeBounded /\ [Next]_vars => FeeBounded'
<1> SUFFICES ASSUME IInv, FeeBounded, [Next]_vars PROVE FeeBounded'
  OBVIOUS
<1>0. TypeOK /\ db \in Db
  BY DEF IInv, TypeOK
<1>a. ASSUME UNCHANGED <<spec, blocks>> PROVE FeeBounded'
  BY <1>a DEF FeeBounded
<1>1. ASSUME NEW s \in Specs, Open(s) PROVE FeeBounded'
  <2>1. CASE OpenFresh(s)
    <3>1. ~Running /\ spec' = SpecWithAlloc(s, <<>>) /\ blocks' = blocks
      BY <2>1 DEF OpenFresh, Running, SpecWithAlloc
    <3> QED BY <3>1, OpenBounded
  <2>2. CASE OpenLegacy(s)
    <3>1. ~Running /\ spec' = SpecWithAlloc(s, journal.alloc) /\ blocks' = blocks
      BY <2>2 DEF OpenLegacy, Running
    <3> QED BY <3>1, OpenBounded
  <2>3. CASE OpenStored(s)
    <3>1. ~Running /\ spec' = SpecWithAlloc(s, metaAlloc) /\ blocks' = blocks
      BY <2>3 DEF OpenStored, Running
    <3> QED BY <3>1, OpenBounded
  <2>4. CASE OpenRejects(s)
    BY <2>4, ExitBounded DEF OpenRejects
  <2> QED BY <1>1, <2>1, <2>2, <2>3, <2>4 DEF Open
<1>2. CASE Opening
  <2>1. CASE MigrateKey
    BY <1>a, <2>1 DEF MigrateKey
  <2>2. CASE RenameJournal
    BY <1>a, <2>2 DEF RenameJournal
  <2>3. CASE ReplayBlock
    <3> DEFINE h == Head(todo)
               b == BlockOf(db, blocks, h.tx, h.number, h.timestamp, h.fee)
    <3>1. /\ status = "replaying" /\ Sealable(h.tx, h.fee) /\ spec' = spec
          /\ blocks' = Append(blocks, b) /\ todo # <<>>
      BY <2>3 DEF ReplayBlock, ReplayFee, seal_raw_with_fee
    <3>2. h \in Block /\ blocks \in Seq(Block)
      BY SMT, <1>0, <3>1, HeadTailProperties DEF TypeOK
    <3>3. BlockArgs(db, blocks, h.tx, h.number, h.timestamp, h.fee)
      BY <1>0, <3>1, <3>2 DEF Block, BlockArgs, SealArgs, Sealable
    <3>4. b \in Block /\ b.tx = h.tx
      <4> HIDE DEF h
      <4> QED BY SMT, <3>3, BlockOfType
    <3>5. b.fee = h.fee
      BY DEF BlockOf
    <3> HIDE DEF b
    <3>6. Admissible(db, h.tx, b.fee)
      BY <3>1, <3>5 DEF Sealable
    <3> HIDE DEF h
    <3> QED BY <3>1, <3>4, <3>6, SealBounded
  <2>4. CASE ReplayRefused
    BY <2>4, ExitBounded DEF ReplayRefused
  <2>5. CASE ReplayDiverges
    BY <2>5, ExitBounded DEF ReplayDiverges
  <2>6. CASE FinishOpen
    BY <1>a, <2>6 DEF FinishOpen
  <2> QED BY <1>2, <2>1, <2>2, <2>3, <2>4, <2>5, <2>6 DEF Opening
<1>3. CASE Crash
  BY <1>3, ExitBounded DEF Crash
<1>4. ASSUME NEW tx \in Tx, NEW now \in Time,
             SendRawTransaction(tx, now) \/ SealUnanswered(tx, now) \/ SealFails(tx, now)
      PROVE  FeeBounded'
  <2>1. CASE SendRawTransaction(tx, now)
    <3> DEFINE fee == AsU64(pending_base_fee)
               top == block_number(blocks) + 1
               b == BlockOf(db, blocks, tx, top, now, fee)
    <3>1. CanSeal(tx) /\ spec' = spec /\ blocks' = Append(blocks, b)
      BY <2>1 DEF SendRawTransaction, seal_raw_with_fee
    <3>2. /\ TypeOK /\ block_number(blocks) = Len(blocks) /\ Len(blocks) < MaxBlocks
          /\ Len(blocks) = height /\ height \in Nat
          /\ fee \in 0 .. U64Modulus - 1 /\ Admissible(db, tx, fee)
      BY <3>1, NextSealed
    <3>3. top \in 1 .. MaxBlocks
      BY SMT, <3>2, NodeAssumption
    <3>4. BlockArgs(db, blocks, tx, top, now, fee)
      BY <1>0, <3>2, <3>3, NodeAssumption DEF BlockArgs, SealArgs, TypeOK
    <3> HIDE DEF fee, top
    <3>5. b \in Block /\ b.tx = tx
      BY SMT, <3>4, BlockOfType
    <3>6. b.fee = fee
      BY DEF BlockOf
    <3> HIDE DEF b
    <3> QED BY <3>1, <3>2, <3>5, <3>6, SealBounded
  <2>2. CASE SealUnanswered(tx, now)
    BY <2>2, ExitBounded DEF SealUnanswered
  <2>3. CASE SealFails(tx, now)
    BY <1>a, <2>3 DEF SealFails
  <2> QED BY <1>4, <2>1, <2>2, <2>3
<1>5. ASSUME NEW s \in Slot, StorageOf(s) PROVE FeeBounded'
  BY <1>a, <1>5 DEF StorageOf
<1>6. ASSUME NEW read \in SUBSET Slot, Call(read) PROVE FeeBounded'
  BY <1>a, <1>6 DEF Call
<1>7. ASSUME NEW k \in Keys, SetFaucetKey(k) PROVE FeeBounded'
  BY <1>a, <1>7 DEF SetFaucetKey
<1>8. CASE UNCHANGED vars
  BY <1>a, <1>8 DEF vars, volatile
<1> QED
  BY <1>1, <1>2, <1>3, <1>4, <1>5, <1>6, <1>7, <1>8 DEF Next

\* The bounds hold at the start.
LEMMA InitBounded == Init => FeeBounded
<1> SUFFICES ASSUME Init PROVE FeeBounded
  OBVIOUS
<1>1. spec = NoSpec /\ blocks = <<>>
  BY DEF Init
<1>2. TransferGas * NoSpec.baseFee <= MaxU128
  BY SMT, FaucetAssumption, GasAssumption DEF NoSpec
<1>3. 1 .. Len(blocks) = {}
  BY SMT, <1>1
<1> QED BY <1>1, <1>2, <1>3 DEF FeeBounded

\* The cost of a transfer at the pending fee does not saturate.
LEMMA TransferCost ==
  ASSUME IInv, FeeBounded, status = "up"
  PROVE  pending_base_fee \in Nat /\ TransferGas * pending_base_fee <= MaxU128
<1>0. TypeOK /\ SessionOK /\ blocks \in Seq(Block) /\ spec.baseFee \in Nat
      /\ TransferGas \in Nat
  BY SMT, FaucetAssumption, GasAssumption DEF IInv, PhaseOK, Running, TypeOK, SpecType
<1>1. CASE blocks = <<>>
  BY <1>0, <1>1 DEF pending_base_fee, FeeBounded
<1>2. CASE blocks # <<>>
  <2> DEFINE head == blocks[Len(blocks)]
  <2>1. Len(blocks) \in 1 .. Len(blocks) /\ head \in Block
    BY SMT, <1>0, <1>2, EmptySeq, ElementOfSeq, LenProperties
  <2>2. receipts[head.tx] = ReceiptOf(head) /\ head.tx.gas <= BlockGasLimit
    BY <2>1 DEF SessionOK, FeeBounded, PhaseOK, IInv, Running
  <2>3. pending_base_fee
          = calc_next_base_fee(head.fee, receipts[head.tx].gas, BlockGasLimit)
    BY <1>2 DEF pending_base_fee
  <2> HIDE DEF head
  <2>4. receipts[head.tx].gas \in 0 .. BlockGasLimit /\ head.fee \in 0 .. U64Modulus - 1
    BY SMT, <2>1, <2>2, BlockFields, TxFields, GasAssumption DEF ReceiptOf
  <2>5. pending_base_fee \in Nat /\ pending_base_fee <= 2 * U64Modulus
    BY <2>3, <2>4, NextFeeBound
  <2>6. 2 * U64Modulus \in Nat
    BY SMT, GasAssumption
  <2>7. /\ TransferGas * pending_base_fee <= TransferGas * (2 * U64Modulus)
        /\ TransferGas * pending_base_fee \in Nat /\ TransferGas * (2 * U64Modulus) \in Nat
    BY <1>0, <2>5, <2>6, ProductMonotone
  <2>8. TransferGas * (2 * U64Modulus) <= MaxU128 /\ MaxU128 \in Nat
    BY DripCostAssumption, GasAssumption
  <2> QED BY SMT, <2>5, <2>7, <2>8
<1> QED BY <1>1, <1>2

\* Where the fee is bounded, a drip that the faucet grants can be sealed.
LEMMA DripsSealable ==
  IInv /\ FeeBounded => GrantedDripsSeal
<1> SUFFICES ASSUME IInv, FeeBounded, status = "up",
                    NEW to \in Addr, NEW amount \in 0 .. FaucetCap, Grants(amount),
                    NEW now, NEW drip, drip = faucet(to, amount)
             PROVE  /\ Sealable(drip, AsU64(pending_base_fee))
                    /\ to \notin {faucet_address, Beneficiary} =>
                         StateAfter(db, drip, now, AsU64(pending_base_fee)).balance[to]
                           = db.balance[to] + amount
  BY DEF GrantedDripsSeal
<1> DEFINE price == pending_base_fee
           fee == AsU64(price)
           from == faucet_address
           cost == TransferGas * price
<1>1. price \in Nat /\ cost <= MaxU128
  BY TransferCost
<1>2. fee \in Nat /\ fee <= price
  BY SMT, <1>1, GasAssumption DEF AsU64
<1>3. /\ drip.from = from /\ drip.to = to /\ drip.nonce = db.nonce[from]
      /\ drip.value = amount /\ drip.gas = TransferGas /\ drip.maxFee = price
      /\ drip.tip = price /\ drip.chain = spec.chain /\ drip.kind = "transfer"
  BY SMT DEF faucet
<1> HIDE DEF price, fee, from
<1>4. TransferGas \in Nat /\ TransferGas <= BlockGasLimit /\ cost \in Nat /\ MaxU128 \in Nat
  BY SMT, <1>1, FaucetAssumption, GasAssumption
<1>5. db.balance[from] >= amount + cost
  <2> HIDE DEF cost
  <2>1. ~(cost > MaxU128)
    BY SMT, <1>1, <1>4
  <2> QED BY <2>1 DEF Grants, DripCost, cost, price, from
<1>6. Admissible(db, drip, fee)
  <2>1. price >= fee /\ price >= price
    BY SMT, <1>1, <1>2
  <2> QED BY <1>3, <1>4, <1>5, <2>1 DEF Admissible, cost
<1>7. Sealable(drip, fee)
  BY <1>3, <1>6 DEF Sealable, Decodes
<1>8. ASSUME to \notin {from, Beneficiary}
      PROVE  StateAfter(db, drip, now, fee).balance[to] = db.balance[to] + amount
  <2>1. db.balance \in [Addr -> Nat] /\ Succeeds(drip)
    BY SMT, <1>3 DEF IInv, TypeOK, Db, Succeeds
  <2>2. Settle(db.balance, drip, fee)[to] = db.balance[to] + amount
    BY <1>3, <1>8, <2>1 DEF Settle
  <2>3. DOMAIN Settle(db.balance, drip, fee) = Addr
    BY <2>1 DEF Settle
  <2>4. transact_raw(db, drip, now, fee).balance = Settle(db.balance, drip, fee)
    BY SMT DEF transact_raw
  <2> DEFINE d == transact_raw(db, drip, now, fee)
             share == base_fee_share(drip.gas, fee)
  <2>5. credit_beneficiary(d, share).balance = [d.balance EXCEPT ![Beneficiary] = @ + share]
    BY SMT DEF credit_beneficiary, transact_raw
  <2>6. credit_beneficiary(d, share).balance[to] = Settle(db.balance, drip, fee)[to]
    <3> HIDE DEF d, share
    <3> QED BY <1>8, <2>3, <2>4, <2>5 DEF d
  <2> QED BY <2>2, <2>6 DEF StateAfter
<1> QED BY <1>7, <1>8 DEF fee, price, from

-----------------------------------------------------------------------------
(* Deposits, and what a transaction does to a state without some of them. *)

\* The tip and the base-fee share are together what the gas was paid with.
LEMMA PriceSplits ==
  ASSUME NEW gas \in Nat, NEW price \in Nat, NEW fee \in Nat, fee <= price
  PROVE  /\ gas * price \in Nat /\ gas * fee \in Nat /\ gas * (price - fee) \in Nat
         /\ gas * price = gas * (price - fee) + gas * fee
<1> DEFINE tip == price - fee
<1>1. tip \in Nat /\ price = tip + fee
  BY SMT
<1> HIDE DEF tip
<1>2. gas * (tip + fee) = gas * tip + gas * fee
  BY SMT, <1>1
<1>3. gas * tip \in Nat /\ gas * fee \in Nat
  BY SMT, <1>1
<1> QED BY SMT, <1>1, <1>2, <1>3 DEF tip

Deposit(b, a, v) == [b EXCEPT ![a] = @ + v]

\* Two deposits to one account are one.
LEMMA DepositTwice ==
  ASSUME NEW b \in [Addr -> Int], NEW a \in Addr, NEW u \in Int, NEW v \in Int
  PROVE  Deposit(Deposit(b, a, u), a, v) = Deposit(b, a, u + v)
<1> DEFINE once == [b EXCEPT ![a] = @ + u]
<1>1. once \in [Addr -> Int] /\ once[a] = b[a] + u /\ \A x \in Addr \ {a} : once[x] = b[x]
  BY SMT
<1>2. b[a] + u + v = b[a] + (u + v)
  BY SMT
<1> HIDE DEF once
<1>3. [once EXCEPT ![a] = @ + v] = [x \in Addr |-> IF x = a THEN b[a] + u + v ELSE b[x]]
  BY <1>1
<1>4. [b EXCEPT ![a] = @ + (u + v)] = [x \in Addr |-> IF x = a THEN b[a] + (u + v) ELSE b[x]]
  OBVIOUS
<1> QED BY <1>2, <1>3, <1>4 DEF Deposit, once

\* Deposits can be made in any order.
LEMMA DepositsCommute ==
  ASSUME NEW b \in [Addr -> Int], NEW a \in Addr, NEW c \in Addr, NEW u \in Int, NEW v \in Int
  PROVE  Deposit(Deposit(b, a, u), c, v) = Deposit(Deposit(b, c, v), a, u)
<1> DEFINE ua == [b EXCEPT ![a] = @ + u]
           vc == [b EXCEPT ![c] = @ + v]
<1>1. /\ ua \in [Addr -> Int] /\ vc \in [Addr -> Int]
      /\ \A x \in Addr : ua[x] = IF x = a THEN b[x] + u ELSE b[x]
      /\ \A x \in Addr : vc[x] = IF x = c THEN b[x] + v ELSE b[x]
  BY SMT
<1> HIDE DEF ua, vc
<1>2. \A x \in Addr : (IF x = c THEN ua[x] + v ELSE ua[x]) = (IF x = a THEN vc[x] + u ELSE vc[x])
  BY SMT, <1>1
<1>3. [ua EXCEPT ![c] = @ + v] = [x \in Addr |-> IF x = c THEN ua[x] + v ELSE ua[x]]
  BY <1>1
<1>4. [vc EXCEPT ![a] = @ + u] = [x \in Addr |-> IF x = a THEN vc[x] + u ELSE vc[x]]
  BY <1>1
<1> QED BY <1>2, <1>3, <1>4 DEF Deposit, ua, vc

\* A deposit leaves balances, below zero or not.
LEMMA DepositType ==
  ASSUME NEW b \in [Addr -> Int], NEW a \in Addr, NEW v \in Int
  PROVE  /\ Deposit(b, a, v) \in [Addr -> Int]
         /\ Deposit(b, a, v)[a] = b[a] + v
         /\ \A x \in Addr \ {a} : Deposit(b, a, v)[x] = b[x]
BY SMT DEF Deposit

\* Settling is a withdrawal and two deposits.
LEMMA SettleDeposits ==
  ASSUME NEW tx \in Tx, NEW fee \in 0 .. U64Modulus - 1,
         tx.maxFee >= fee
  PROVE  \E spent \in Int, moved \in Int, tipped \in Int :
           \A c \in [Addr -> Int] :
             Settle(c, tx, fee)
               = Deposit(Deposit(Deposit(c, tx.from, -spent), tx.to, moved), Beneficiary, tipped)
<1> DEFINE price == Price(tx, fee)
           moved == IF Succeeds(tx) THEN tx.value ELSE 0
           tipped == tx.gas * (price - fee)
           spent == tx.gas * price + moved
<1>1. /\ tx.gas \in Nat /\ tx.value \in Nat /\ tx.maxFee \in Nat
      /\ tx.tip \in Nat /\ tx.from \in Addr /\ fee \in Nat
  BY SMT, EvmAssumption, GasAssumption DEF TxType
<1>2. price \in Nat
  BY <1>1, PriceRange
<1>3. moved \in Int
  BY SMT, <1>1
<1> HIDE DEF moved, price
<1>4. tipped \in Int /\ spent \in Int
  BY SMT, <1>1, <1>2, <1>3
<1> HIDE DEF spent, tipped
<1>5. ASSUME NEW c \in [Addr -> Int]
      PROVE  Settle(c, tx, fee)
               = Deposit(Deposit(Deposit(c, tx.from, -spent), tx.to, moved), Beneficiary, tipped)
  <2> DEFINE paid == [c EXCEPT ![tx.from] = @ - spent]
  <2>1. paid = Deposit(c, tx.from, -spent)
    <3>1. c[tx.from] - spent = c[tx.from] + (-spent)
      BY SMT, <1>1, <1>4
    <3> QED BY <3>1 DEF Deposit
  <2>2. Settle(c, tx, fee) = Deposit(Deposit(paid, tx.to, moved), Beneficiary, tipped)
    BY DEF Settle, Deposit, spent, tipped, moved, price
  <2> QED BY <2>1, <2>2
<1> QED BY <1>3, <1>4, <1>5

\* A deposit made before a transaction is settled can be made after it.
LEMMA SettleAfterDeposit ==
  ASSUME NEW b \in [Addr -> Int], NEW tx \in Tx, NEW fee \in 0 .. U64Modulus - 1,
         tx.maxFee >= fee, NEW a \in Addr, NEW v \in Int
  PROVE  /\ Settle(Deposit(b, a, v), tx, fee) = Deposit(Settle(b, tx, fee), a, v)
         /\ Settle(b, tx, fee) \in [Addr -> Int]
<1>0. tx.from \in Addr /\ tx.to \in Addr /\ Beneficiary \in Addr
  BY EvmAssumption DEF TxType
<1>1. PICK spent \in Int, moved \in Int, tipped \in Int :
        \A c \in [Addr -> Int] :
          Settle(c, tx, fee)
            = Deposit(Deposit(Deposit(c, tx.from, -spent), tx.to, moved), Beneficiary, tipped)
  BY SMT, SettleDeposits
<1> DEFINE one == Deposit(b, tx.from, -spent)
           two == Deposit(one, tx.to, moved)
           early == Deposit(b, a, v)
<1>2. -spent \in Int
  BY SMT
<1>3. one \in [Addr -> Int] /\ early \in [Addr -> Int]
  BY <1>0, <1>2, DepositType
<1>4. Deposit(early, tx.from, -spent) = Deposit(one, a, v)
  BY SMT, <1>0, <1>2, DepositsCommute
<1> HIDE DEF one
<1>5. two \in [Addr -> Int]
  BY <1>0, <1>3, DepositType
<1>6. Deposit(Deposit(one, a, v), tx.to, moved) = Deposit(two, a, v)
  BY SMT, <1>0, <1>3, DepositsCommute
<1> HIDE DEF two
<1>7. Deposit(Deposit(two, a, v), Beneficiary, tipped)
        = Deposit(Deposit(two, Beneficiary, tipped), a, v)
  BY SMT, <1>0, <1>5, DepositsCommute
<1>8. Deposit(two, Beneficiary, tipped) \in [Addr -> Int]
  BY <1>0, <1>5, DepositType
<1>9. Settle(b, tx, fee) = Deposit(two, Beneficiary, tipped)
  BY <1>1 DEF two, one
<1>10. Settle(early, tx, fee)
         = Deposit(Deposit(Deposit(early, tx.from, -spent), tx.to, moved), Beneficiary, tipped)
  <2> HIDE DEF early
  <2> QED BY <1>1, <1>3
<1> QED BY <1>4, <1>6, <1>7, <1>8, <1>9, <1>10

\* A state without the last v the beneficiary was credited with.
Without(d, v) ==
  [balance |-> Deposit(d.balance, Beneficiary, -v), nonce |-> d.nonce, slot |-> d.slot]

\* Crediting v gives the state back.
LEMMA CreditBack ==
  ASSUME NEW d \in Db, NEW v \in Nat
  PROVE  credit_beneficiary(Without(d, v), v) = d
<1> DEFINE less == Deposit(d.balance, Beneficiary, -v)
<1>1. Beneficiary \in Addr /\ d.balance \in [Addr -> Int] /\ -v \in Int /\ v \in Int
  BY SMT, EvmAssumption DEF Db
<1>2. Deposit(less, Beneficiary, v) = Deposit(d.balance, Beneficiary, -v + v)
  BY SMT, <1>1, DepositTwice
<1>3. Deposit(d.balance, Beneficiary, -v + v) = d.balance
  <2>1. d.balance[Beneficiary] + (-v + v) = d.balance[Beneficiary]
    BY SMT, <1>1
  <2> QED BY <1>1, <2>1 DEF Deposit
<1> HIDE DEF less
<1>4. credit_beneficiary([balance |-> less, nonce |-> d.nonce, slot |-> d.slot], v)
        = [balance |-> [less EXCEPT ![Beneficiary] = @ + v], nonce |-> d.nonce, slot |-> d.slot]
  BY SMT DEF credit_beneficiary
<1>5. d = [balance |-> d.balance, nonce |-> d.nonce, slot |-> d.slot]
  BY SMT DEF Db
<1> QED BY <1>2, <1>3, <1>4, <1>5 DEF Without, Deposit, less

\* Taking nothing away changes nothing.
LEMMA WithoutNothing == ASSUME NEW d \in Db PROVE Without(d, 0) = d
<1>1. d = [balance |-> d.balance, nonce |-> d.nonce, slot |-> d.slot]
      /\ d.balance \in [Addr -> Int] /\ Beneficiary \in Addr
  BY SMT, EvmAssumption DEF Db
<1>2. d.balance[Beneficiary] + (-0) = d.balance[Beneficiary]
  BY SMT, <1>1
<1>3. Deposit(d.balance, Beneficiary, -0) = d.balance
  BY <1>1, <1>2 DEF Deposit
<1> QED BY <1>1, <1>3 DEF Without

\* What the beneficiary does not have it cannot spend, but everyone else can do
\* what they did: a transaction of another sender is accepted in the state
\* without the credits, and leaves the state without the credits, its own
\* base-fee share included.
LEMMA TraceFollows ==
  ASSUME NEW d, NEW tx, NEW now, NEW fee, SealArgs(d, tx, now, fee), NEW v \in Nat,
         Without(d, v) \in Db, tx.from # Beneficiary
  PROVE  LET s == Without(d, v) IN
         /\ Admissible(s, tx, fee)
         /\ transact_raw(s, tx, now, fee) \in Db
         /\ transact_raw(s, tx, now, fee)
              = Without(StateAfter(d, tx, now, fee), v + base_fee_share(tx.gas, fee))
<1> DEFINE s == Without(d, v)
           share == base_fee_share(tx.gas, fee)
           settled == Settle(d.balance, tx, fee)
           slots == IF tx.kind = "stamp" THEN [x \in Slot |-> now] ELSE d.slot
           nonces == [d.nonce EXCEPT ![tx.from] = @ + 1]
<1>1. /\ tx \in Tx /\ tx.gas \in Nat /\ tx.from \in Addr /\ Beneficiary \in Addr /\ d \in Db
      /\ d.balance \in [Addr -> Int] /\ fee \in Nat /\ fee \in 0 .. U64Modulus - 1
      /\ tx.maxFee >= fee /\ -v \in Int /\ v \in Int /\ now \in Nat
  BY SMT, EvmAssumption, GasAssumption DEF TxType, SealArgs, Db, Admissible
<1>2. share \in Nat /\ share \in Int
  BY SMT, <1>1 DEF base_fee_share
<1> HIDE DEF share
<1>3. /\ s.balance = Deposit(d.balance, Beneficiary, -v)
      /\ s.nonce = d.nonce /\ s.slot = d.slot
  BY SMT DEF Without
<1>4. s.balance[tx.from] = d.balance[tx.from]
  <2> DEFINE b == d.balance
             c == Deposit(b, Beneficiary, -v)
  <2>1. b \in [Addr -> Int]
    BY <1>1
  <2> HIDE DEF b
  <2>2. \A x \in Addr \ {Beneficiary} : c[x] = b[x]
    BY <1>1, <2>1, DepositType
  <2>3. tx.from \in Addr \ {Beneficiary}
    BY <1>1
  <2> HIDE DEF c, s
  <2>4. c[tx.from] = b[tx.from]
    BY <2>2, <2>3
  <2> QED BY <1>3, <2>4 DEF b, c
<1>5. Admissible(s, tx, fee)
  <2> HIDE DEF s
  <2> QED BY <1>3, <1>4 DEF SealArgs, Admissible
<1>6. transact_raw(s, tx, now, fee) \in Db
  <2> HIDE DEF s
  <2>1. Settle(s.balance, tx, fee) \in [Addr -> Nat] /\ s \in Db
    BY <1>1, <1>5, SettleType DEF s
  <2>2. [s.nonce EXCEPT ![tx.from] = @ + 1] \in [Addr -> Nat]
    BY SMT, <1>1, <2>1 DEF Db
  <2>3. [x \in Slot |-> now] \in [Slot -> Nat \cup {Unloaded}]
        /\ s.slot \in [Slot -> Nat \cup {Unloaded}]
    BY <1>1, <2>1 DEF Db
  <2> QED BY <2>1, <2>2, <2>3 DEF transact_raw, Db
<1>7. /\ Settle(s.balance, tx, fee) = Deposit(settled, Beneficiary, -v)
      /\ settled \in [Addr -> Int]
  BY SMT, <1>1, <1>3, SettleAfterDeposit
<1> HIDE DEF settled
<1>8. Deposit(Deposit(settled, Beneficiary, share), Beneficiary, -(v + share))
        = Deposit(settled, Beneficiary, -v)
  <2>1. -(v + share) \in Int /\ share + (-(v + share)) = -v
    BY SMT, <1>1, <1>2
  <2>2. Deposit(Deposit(settled, Beneficiary, share), Beneficiary, -(v + share))
          = Deposit(settled, Beneficiary, share + (-(v + share)))
    BY SMT, <1>1, <1>2, <1>7, <2>1, DepositTwice
  <2> QED BY <2>1, <2>2
<1>9. transact_raw(s, tx, now, fee)
        = [balance |-> Deposit(settled, Beneficiary, -v), nonce |-> nonces, slot |-> slots]
  <2> HIDE DEF s
  <2> QED BY <1>3, <1>7 DEF transact_raw
<1>10. StateAfter(d, tx, now, fee)
         = [balance |-> Deposit(settled, Beneficiary, share), nonce |-> nonces, slot |-> slots]
  <2>1. transact_raw(d, tx, now, fee) = [balance |-> settled, nonce |-> nonces, slot |-> slots]
    BY DEF transact_raw, settled
  <2> HIDE DEF nonces, slots
  <2>2. credit_beneficiary([balance |-> settled, nonce |-> nonces, slot |-> slots], share)
          = [balance |-> [settled EXCEPT ![Beneficiary] = @ + share],
             nonce |-> nonces, slot |-> slots]
    BY SMT DEF credit_beneficiary
  <2> QED BY <2>1, <2>2 DEF StateAfter, Deposit, share
<1> HIDE DEF nonces, slots
<1> DEFINE sealed == [balance |-> Deposit(settled, Beneficiary, share),
                      nonce |-> nonces, slot |-> slots]
<1>11. /\ sealed.balance = Deposit(settled, Beneficiary, share)
       /\ sealed.nonce = nonces /\ sealed.slot = slots
  BY SMT
<1> HIDE DEF sealed
<1>12. Without(sealed, v + share)
         = [balance |-> Deposit(settled, Beneficiary, -v), nonce |-> nonces, slot |-> slots]
  BY <1>8, <1>11 DEF Without
<1> QED BY <1>5, <1>6, <1>9, <1>10, <1>12 DEF sealed, share, s

-----------------------------------------------------------------------------
INSTANCE FiniteSetTheorems

(* A sum over a finite set is defined by recursion on a chosen element; it *)
(* is the same whichever element is taken first.                           *)

\* A set of natural numbers that is not empty has a least element.
LEMMA LeastNumber ==
  ASSUME NEW S \in SUBSET Nat, S # {}
  PROVE  \E m \in S : \A k \in S : m <= k
<1> DEFINE R1 == {ss \in Nat \X Nat : ss[1] < ss[2]}
<1>1. IsWellFoundedOn(R1, Nat)
  BY NatLessThanWellFounded DEF OpToRel
<1>2. PICK x \in S : \A y \in S : ~(<<y, x>> \in R1)
  <2> HIDE DEF R1
  <2> QED BY <1>1, WFMin
<1>3. ASSUME NEW y \in S PROVE x <= y
  <2>1. <<y, x>> \in Nat \X Nat /\ <<y, x>>[1] = y /\ <<y, x>>[2] = x
    OBVIOUS
  <2>2. ~(y < x)
    BY <1>2, <2>1
  <2> QED BY SMT, <2>2
<1> QED
  BY <1>3

-----------------------------------------------------------------------------
Picked(s) == CHOOSE x \in s : TRUE

\* The recursion that defines the sum of f over s, one step.
SumStep(g, f, s) == IF s = {} THEN 0 ELSE f[Picked(s)] + g[s \ {Picked(s)}]

Recurs(g, f, S) == \A s \in SUBSET S : g[s] = SumStep(g, f, s)

\* g holds the sums of f over every subset of S.
Sums(g, f, S) == g \in [SUBSET S -> Int] /\ Recurs(g, f, S)

\* The two functions have the same values on T.
Alike(f, e, T) == \A x \in T : f[x] = e[x]

\* f has a number for every element of the finite set S.
Summable(f, S) == IsFiniteSet(S) /\ \A x \in S : f[x] \in Int

\* Every subset of a finite set has a cardinality, one less without an element.
LEMMA SubsetSize ==
  ASSUME NEW S, IsFiniteSet(S), NEW s \in SUBSET S
  PROVE  /\ IsFiniteSet(s) /\ Cardinality(s) \in Nat
         /\ \A x \in s : /\ s \ {x} \in SUBSET S
                         /\ Cardinality(s \ {x}) = Cardinality(s) - 1
<1>1. IsFiniteSet(s)
  BY FS_Subset
<1>2. Cardinality(s) \in Nat
  BY <1>1, FS_CardinalityType
<1>3. ASSUME NEW x \in s PROVE Cardinality(s \ {x}) = Cardinality(s) - 1
  BY SMT, <1>1, FS_RemoveElement
<1> QED
  BY <1>1, <1>2, <1>3

\* The chosen element is one of the set.
LEMMA PickedIn == ASSUME NEW s, s # {} PROVE Picked(s) \in s
BY DEF Picked

\* Such sums exist: they are built for larger and larger subsets.
LEMMA SumsExist ==
  ASSUME NEW S, NEW f, Summable(f, S)
  PROVE  \E g : Sums(g, f, S)
<1> DEFINE Upto(g, n) ==
      /\ g \in [SUBSET S -> Int]
      /\ \A s \in SUBSET S : Cardinality(s) <= n => g[s] = SumStep(g, f, s)
           Bad == {n \in Nat : ~\E g : Upto(g, n)}
<1>1. IsFiniteSet(S) /\ \A x \in S : f[x] \in Int
  BY DEF Summable
<1>2. \A g \in [SUBSET S -> Int] : \A s \in SUBSET S : SumStep(g, f, s) \in Int
  <2> SUFFICES ASSUME NEW g \in [SUBSET S -> Int], NEW s \in SUBSET S, s # {}
      PROVE  f[Picked(s)] + g[s \ {Picked(s)}] \in Int
    BY SMT DEF SumStep
  <2>1. Picked(s) \in S /\ s \ {Picked(s)} \in SUBSET S
    BY PickedIn
  <2>2. f[Picked(s)] \in Int /\ g[s \ {Picked(s)}] \in Int
    BY <1>1, <2>1
  <2> QED BY SMT, <2>2
<1>3. Bad = {}
  <2> SUFFICES ASSUME Bad # {} PROVE FALSE
    OBVIOUS
  <2>1. PICK n \in Bad : \A k \in Bad : n <= k
    BY LeastNumber
  <2>2. n \in Nat /\ ~\E g : Upto(g, n)
    BY <2>1
  <2>3. CASE n = 0
    <3> DEFINE g == [s \in SUBSET S |-> 0]
    <3>1. g \in [SUBSET S -> Int]
      BY SMT
    <3>2. ASSUME NEW s \in SUBSET S, Cardinality(s) <= 0 PROVE g[s] = SumStep(g, f, s)
      <4>1. Cardinality(s) \in Nat /\ IsFiniteSet(s)
        BY <1>1, SubsetSize
      <4>2. Cardinality(s) = 0
        BY SMT, <3>2, <4>1
      <4>3. s = {}
        BY <4>1, <4>2, FS_EmptySet
      <4> QED BY SMT, <4>3 DEF SumStep
    <3>3. Upto(g, 0)
      <4> HIDE DEF g
      <4> QED BY <3>1, <3>2
    <3> QED BY <2>2, <2>3, <3>3
  <2>4. CASE n # 0
    <3>1. n - 1 \in Nat /\ ~(n <= n - 1)
      BY SMT, <2>2, <2>4
    <3>2. PICK g : Upto(g, n - 1)
      BY <2>1, <3>1
    <3> DEFINE h == [s \in SUBSET S |-> SumStep(g, f, s)]
    <3>3. h \in [SUBSET S -> Int]
      BY <1>2, <3>2
    <3>4. ASSUME NEW s \in SUBSET S, Cardinality(s) <= n PROVE h[s] = SumStep(h, f, s)
      <4>1. CASE s = {}
        BY <4>1 DEF SumStep
      <4>2. CASE s # {}
        <5> DEFINE t == s \ {Picked(s)}
        <5>1. t \in SUBSET S /\ Cardinality(t) = Cardinality(s) - 1 /\ Cardinality(s) \in Nat
          BY <1>1, <4>2, PickedIn, SubsetSize
        <5>2. Cardinality(t) <= n - 1
          BY SMT, <2>2, <3>4, <5>1
        <5>3. h[t] = g[t]
          BY <3>2, <5>1, <5>2
        <5> QED BY <4>2, <5>3 DEF SumStep
      <4> QED BY <4>1, <4>2
    <3>5. Upto(h, n)
      <4> HIDE DEF h
      <4> QED BY <3>3, <3>4
    <3> QED BY <2>2, <3>5
  <2> QED BY <2>3, <2>4
<1>4. Cardinality(S) \in Nat
  BY <1>1, FS_CardinalityType
<1>5. PICK g : Upto(g, Cardinality(S))
  BY <1>3, <1>4
<1>6. \A s \in SUBSET S : Cardinality(s) <= Cardinality(S)
  BY <1>1, FS_Subset
<1>7. Sums(g, f, S)
  BY <1>5, <1>6 DEF Sums, Recurs
<1> QED BY <1>7

\* What the recursion gives for T depends on the numbers of T only.
LEMMA SumsAgree ==
  ASSUME NEW S, NEW R, IsFiniteSet(S), IsFiniteSet(R), NEW g, NEW f, NEW h, NEW e,
         Recurs(g, f, S), Recurs(h, e, R),
         NEW T, T \subseteq S, T \subseteq R, Alike(f, e, T)
  PROVE  g[T] = h[T]
<1> DEFINE Bad == {n \in Nat : \E s \in SUBSET T : Cardinality(s) = n /\ g[s] # h[s]}
<1>1. IsFiniteSet(T)
  BY FS_Subset
<1>2. Bad = {}
  <2> SUFFICES ASSUME Bad # {} PROVE FALSE
    OBVIOUS
  <2>1. PICK n \in Bad : \A k \in Bad : n <= k
    BY LeastNumber
  <2>2. PICK s \in SUBSET T : Cardinality(s) = n /\ g[s] # h[s]
    BY <2>1
  <2>3. s \in SUBSET S /\ s \in SUBSET R
    BY <2>2
  <2>4. s # {}
    BY <2>2, <2>3 DEF SumStep, Recurs
  <2> DEFINE x == Picked(s)
             t == s \ {x}
  <2>5. x \in s /\ t \in SUBSET T /\ Cardinality(t) = n - 1 /\ n \in Nat
    BY <1>1, <2>2, <2>4, PickedIn, SubsetSize
  <2>6. Cardinality(t) \in Nat
    <3> HIDE DEF t
    <3> QED BY <1>1, <2>5, SubsetSize
  <2>7. Cardinality(t) \notin Bad
    <3> HIDE DEF t, Bad
    <3> QED BY SMT, <2>1, <2>5, <2>6
  <2>8. g[t] = h[t]
    BY <2>5, <2>6, <2>7
  <2>9. f[x] = e[x]
    BY <2>5 DEF Alike
  <2>10. g[s] = f[x] + g[t] /\ h[s] = e[x] + h[t]
    BY <2>3, <2>4 DEF SumStep, Recurs
  <2> QED BY <2>2, <2>8, <2>9, <2>10
<1>3. Cardinality(T) \in Nat /\ T \in SUBSET T
  BY <1>1, FS_CardinalityType
<1> QED BY <1>2, <1>3

\* The sum the library defines is one of them.
LEMMA SumIs ==
  ASSUME NEW S, NEW f, Summable(f, S)
  PROVE  \E g : Sums(g, f, S) /\ SumFunctionOnSet(f, S) = g[S]
<1> DEFINE Eqn(g) == g = [s \in SUBSET S |-> SumStep(g, f, s)]
           iter == CHOOSE g : Eqn(g)
<1>1. PICK w : Sums(w, f, S)
  BY SumsExist
<1>2. Eqn(w)
  BY SMT, <1>1 DEF Sums, Recurs
<1>3. Eqn(iter)
  <2> HIDE DEF Eqn
  <2> QED BY <1>2
<1>4. SumFunctionOnSet(f, S) = iter[S]
  BY SMT DEF SumFunctionOnSet, FoldFunctionOnSet, MapThenFoldSet, SumStep, Picked
<1> HIDE DEF iter
<1>5. Recurs(iter, f, S)
  BY <1>3 DEF Recurs
<1>6. Recurs(w, f, S)
  BY <1>1 DEF Sums
<1>7. IsFiniteSet(S) /\ S \subseteq S /\ Alike(f, f, S)
  BY DEF Summable, Alike
<1>8. iter[S] = w[S]
  BY SMT, <1>5, <1>6, <1>7, SumsAgree
<1> QED BY <1>1, <1>4, <1>8

\* Any element may be taken first.
LEMMA SumsRemove ==
  ASSUME NEW S, NEW f, Summable(f, S), NEW g, Sums(g, f, S),
         NEW T \in SUBSET S, NEW x \in T
  PROVE  g[T] = f[x] + g[T \ {x}]
<1> DEFINE Wrong(s) == \E y \in s : g[s] # f[y] + g[s \ {y}]
           Bad == {n \in Nat : \E s \in SUBSET S : Cardinality(s) = n /\ Wrong(s)}
<1>1. IsFiniteSet(S) /\ (\A y \in S : f[y] \in Int) /\ g \in [SUBSET S -> Int]
      /\ \A s \in SUBSET S : g[s] = SumStep(g, f, s)
  BY DEF Summable, Sums, Recurs
<1>2. Bad = {}
  <2> SUFFICES ASSUME Bad # {} PROVE FALSE
    OBVIOUS
  <2>1. PICK n \in Bad : \A k \in Bad : n <= k
    <3> HIDE DEF Wrong
    <3> QED BY LeastNumber
  <2>2. PICK s \in SUBSET S : Cardinality(s) = n /\ Wrong(s)
    BY <2>1
  <2>3. PICK y \in s : g[s] # f[y] + g[s \ {y}]
    BY <2>2
  <2> DEFINE p == Picked(s)
             sp == s \ {p}
             sy == s \ {y}
             spy == s \ {p, y}
  <2>4. p \in s /\ g[s] = f[p] + g[sp]
    BY <1>1, <2>3, PickedIn DEF SumStep
  <2>5. p # y
    BY <2>3, <2>4
  <2>6. y \in sp /\ p \in sy /\ sp \in SUBSET S /\ sy \in SUBSET S /\ spy \in SUBSET S
        /\ sp \ {y} = spy /\ sy \ {p} = spy
    BY <2>3, <2>4, <2>5
  <2>7. Cardinality(sp) = n - 1 /\ Cardinality(sy) = n - 1 /\ n \in Nat
    <3>1. IsFiniteSet(S) /\ Cardinality(s) = n
      BY <1>1, <2>2
    <3>2. Cardinality(s) \in Nat /\ \A q \in s : Cardinality(s \ {q}) = Cardinality(s) - 1
      BY <3>1, SubsetSize
    <3> HIDE DEF p
    <3> QED BY <2>3, <2>4, <3>1, <3>2
  <2>8. n - 1 \in Nat
    <3> HIDE DEF sp, p
    <3>1. Cardinality(sp) \in Nat
      BY <1>1, <2>6, SubsetSize
    <3> QED BY <2>7, <3>1
  <2>9. n - 1 \notin Bad
    <3> HIDE DEF Bad
    <3> QED BY SMT, <2>1, <2>7, <2>8
  <2>10. ~Wrong(sp) /\ ~Wrong(sy)
    <3> HIDE DEF Wrong, sp, sy
    <3> QED BY <2>6, <2>7, <2>8, <2>9
  <2>11. g[sp] = f[y] + g[spy] /\ g[sy] = f[p] + g[spy]
    BY <2>6, <2>10
  <2>12. f[y] \in Int /\ f[p] \in Int /\ g[spy] \in Int
    BY <1>1, <2>3, <2>4, <2>6
  <2> HIDE DEF p, sp, sy, spy
  <2>13. g[s] = f[y] + g[sy]
    BY SMT, <2>4, <2>11, <2>12
  <2> QED BY <2>3, <2>13 DEF sy
<1>3. Cardinality(T) \in Nat
  BY <1>1, SubsetSize
<1> QED BY <1>2, <1>3

-----------------------------------------------------------------------------
(* The facts the proofs about specifications cite. *)

\* The sum over a finite set is a number.
LEMMA SumType ==
  ASSUME NEW S, NEW f, Summable(f, S)
  PROVE  SumFunctionOnSet(f, S) \in Int
<1>1. PICK g : Sums(g, f, S) /\ SumFunctionOnSet(f, S) = g[S]
  BY SumIs
<1> QED BY <1>1 DEF Sums

\* The sum over nothing is 0.
LEMMA SumNothing == ASSUME NEW f PROVE SumFunctionOnSet(f, {}) = 0
<1>1. Summable(f, {})
  BY FS_EmptySet DEF Summable
<1>2. PICK g : Sums(g, f, {}) /\ SumFunctionOnSet(f, {}) = g[{}]
  BY <1>1, SumIs
<1> QED BY <1>2 DEF Sums, Recurs, SumStep

\* Only the numbers of the set matter.
LEMMA SumSame ==
  ASSUME NEW S, NEW f, NEW e, Summable(f, S), Alike(f, e, S)
  PROVE  SumFunctionOnSet(f, S) = SumFunctionOnSet(e, S)
<1>1. Summable(e, S) /\ IsFiniteSet(S)
  BY DEF Summable, Alike
<1>2. PICK g : Sums(g, f, S) /\ SumFunctionOnSet(f, S) = g[S]
  BY SumIs
<1>3. PICK h : Sums(h, e, S) /\ SumFunctionOnSet(e, S) = h[S]
  BY <1>1, SumIs
<1>4. Recurs(g, f, S) /\ Recurs(h, e, S) /\ S \subseteq S
  BY <1>2, <1>3 DEF Sums
<1>5. g[S] = h[S]
  BY SMT, <1>1, <1>4, SumsAgree
<1> QED BY <1>2, <1>3, <1>5

\* One element and the others.
LEMMA SumRemove ==
  ASSUME NEW S, NEW f, Summable(f, S), NEW x \in S
  PROVE  SumFunctionOnSet(f, S) = f[x] + SumFunctionOnSet(f, S \ {x})
<1> DEFINE R == S \ {x}
<1>1. IsFiniteSet(S) /\ IsFiniteSet(R) /\ Summable(f, R) /\ R \subseteq S
  BY FS_RemoveElement DEF Summable
<1>2. PICK g : Sums(g, f, S) /\ SumFunctionOnSet(f, S) = g[S]
  BY SumIs
<1>3. PICK h : Sums(h, f, R) /\ SumFunctionOnSet(f, R) = h[R]
  BY <1>1, SumIs
<1>4. g[S] = f[x] + g[R]
  <2>1. S \in SUBSET S
    BY SMT
  <2> QED BY SMT, <1>2, <2>1, SumsRemove
<1>5. Recurs(g, f, S) /\ Recurs(h, f, R) /\ R \subseteq R /\ Alike(f, f, R)
  BY <1>2, <1>3 DEF Sums, Alike
<1>6. g[R] = h[R]
  <2> HIDE DEF R
  <2> QED BY SMT, <1>1, <1>5, SumsAgree
<1> QED BY <1>2, <1>3, <1>4, <1>6

\* One number is replaced.
LEMMA SumUpdate ==
  ASSUME NEW S, IsFiniteSet(S), NEW f \in [S -> Int], NEW a \in S, NEW v \in Int
  PROVE  /\ SumFunction([f EXCEPT ![a] = v]) = SumFunction(f) - f[a] + v
         /\ SumFunction(f) \in Int
<1> DEFINE e == [f EXCEPT ![a] = v]
           rest == SumFunctionOnSet(f, S \ {a})
<1>1. e \in [S -> Int] /\ e[a] = v /\ DOMAIN e = S /\ DOMAIN f = S
      /\ \A x \in S \ {a} : f[x] = e[x]
  BY SMT
<1> HIDE DEF e
<1>2. Summable(f, S) /\ Summable(e, S)
  BY <1>1 DEF Summable
<1>3. Summable(f, S \ {a})
  BY FS_RemoveElement, <1>2 DEF Summable
<1>4. SumFunctionOnSet(f, S) = f[a] + rest
  BY <1>2, SumRemove
<1>5. SumFunctionOnSet(e, S) = v + SumFunctionOnSet(e, S \ {a})
  BY <1>1, <1>2, SumRemove
<1>6. SumFunctionOnSet(e, S \ {a}) = rest
  BY <1>1, <1>3, SumSame DEF Alike
<1>7. rest \in Int /\ SumFunctionOnSet(f, S) \in Int /\ f[a] \in Int
  BY <1>2, <1>3, SumType
<1>8. SumFunction(f) = SumFunctionOnSet(f, S) /\ SumFunction(e) = SumFunctionOnSet(e, S)
  BY <1>1 DEF SumFunction
<1> HIDE DEF rest
<1>9. SumFunction(e) = SumFunction(f) - f[a] + v /\ SumFunction(f) \in Int
  BY SMT, <1>4, <1>5, <1>6, <1>7, <1>8
<1> QED BY <1>9 DEF e

-----------------------------------------------------------------------------
(* Nothing is minted or burned. *)

\* Adding to one account adds to the sum.
LEMMA SumDeposit ==
  ASSUME NEW b \in [Addr -> Int], NEW a \in Addr, NEW v \in Int
  PROVE  /\ Deposit(b, a, v) \in [Addr -> Int]
         /\ SumFunction(Deposit(b, a, v)) = SumFunction(b) + v
         /\ SumFunction(b) \in Int
<1>1. IsFiniteSet(Addr)
  BY EvmAssumption
<1>2. b[a] \in Int /\ b[a] + v \in Int
  BY SMT
<1>3. [b EXCEPT ![a] = @ + v] = [b EXCEPT ![a] = b[a] + v]
  BY SMT
<1>4. /\ SumFunction([b EXCEPT ![a] = b[a] + v]) = SumFunction(b) - b[a] + (b[a] + v)
      /\ SumFunction(b) \in Int
  BY <1>1, <1>2, SumUpdate
<1>5. [b EXCEPT ![a] = @ + v] \in [Addr -> Int]
  BY SMT, <1>2
<1>6. SumFunction([b EXCEPT ![a] = @ + v]) = SumFunction(b) + v
  BY SMT, <1>2, <1>3, <1>4
<1> QED BY <1>4, <1>5, <1>6 DEF Deposit

\* Settling a transaction takes the base-fee share out of circulation, and no
\* more: what the sender pays, the receiver and the beneficiary have.
LEMMA SettleBurns ==
  ASSUME NEW balance \in [Addr -> Nat], NEW tx \in Tx, NEW fee \in 0 .. U64Modulus - 1,
         tx.maxFee >= fee
  PROVE  /\ Settle(balance, tx, fee) \in [Addr -> Int]
         /\ SumFunction(Settle(balance, tx, fee)) = SumFunction(balance) - tx.gas * fee
         /\ SumFunction(balance) \in Int /\ tx.gas * fee \in Nat
<1> DEFINE price == Price(tx, fee)
           moved == IF Succeeds(tx) THEN tx.value ELSE 0
           cost == tx.gas * price
           share == tx.gas * fee
           tipped == tx.gas * (price - fee)
           spent == cost + moved
           paid == [balance EXCEPT ![tx.from] = @ - spent]
           taken == Deposit(balance, tx.from, 0 - spent)
           received == Deposit(paid, tx.to, moved)
           settled == Deposit(received, Beneficiary, tipped)
<1>1. /\ tx.gas \in Nat /\ tx.value \in Nat /\ tx.maxFee \in Nat /\ tx.tip \in Nat
      /\ tx.from \in Addr /\ tx.to \in Addr /\ Beneficiary \in Addr
      /\ balance \in [Addr -> Int] /\ fee \in Nat
  BY SMT, EvmAssumption, GasAssumption DEF TxType
<1>2. price \in Nat /\ fee <= price
  BY <1>1, PriceRange
<1>3. moved \in Int
  BY SMT, <1>1
<1> HIDE DEF moved, price
<1>4. /\ cost \in Nat /\ share \in Nat /\ tipped \in Nat /\ cost = tipped + share
  <2>1. tx.gas \in Nat /\ fee \in Nat /\ price \in Nat /\ fee <= price
    BY <1>1, <1>2
  <2> QED BY <2>1, PriceSplits
<1> HIDE DEF cost, share, tipped
<1>5. spent \in Int /\ 0 - spent \in Int /\ paid = taken
  <2>1. spent \in Int
    BY SMT, <1>3, <1>4
  <2> HIDE DEF spent
  <2>2. balance[tx.from] - spent = balance[tx.from] + (0 - spent)
    BY SMT, <1>1, <2>1
  <2>3. paid = taken
    BY <2>2 DEF Deposit
  <2> QED BY SMT, <2>1, <2>3
<1>6. /\ paid \in [Addr -> Int] /\ SumFunction(paid) = SumFunction(balance) + (0 - spent)
      /\ SumFunction(balance) \in Int
  <2>1. /\ taken \in [Addr -> Int] /\ SumFunction(taken) = SumFunction(balance) + (0 - spent)
        /\ SumFunction(balance) \in Int
    <3> HIDE DEF spent
    <3> QED BY <1>1, <1>5, SumDeposit
  <2> QED BY <1>5, <2>1
<1> HIDE DEF paid
<1>7. /\ received \in [Addr -> Int] /\ SumFunction(received) = SumFunction(paid) + moved
  BY <1>1, <1>3, <1>6, SumDeposit
<1> HIDE DEF received
<1>8. /\ settled \in [Addr -> Int] /\ SumFunction(settled) = SumFunction(received) + tipped
  <2>1. tipped \in Int
    BY SMT, <1>4
  <2> QED BY <1>1, <2>1, <1>7, SumDeposit
<1>9. settled = Settle(balance, tx, fee)
  BY DEF Settle, received, paid, tipped, cost, moved, price, Deposit
<1> HIDE DEF settled
<1>10. SumFunction(settled) = SumFunction(balance) - share
  BY SMT, <1>3, <1>4, <1>6, <1>7, <1>8
<1> QED BY <1>4, <1>6, <1>8, <1>9, <1>10 DEF share

\* Sealing a transaction and crediting the beneficiary conserves the supply.
LEMMA SealConserves ==
  ASSUME NEW d, NEW tx, NEW now, NEW fee, SealArgs(d, tx, now, fee)
  PROVE  Circulating(StateAfter(d, tx, now, fee)) = Circulating(d)
<1> DEFINE settled == Settle(d.balance, tx, fee)
           share == tx.gas * fee
           credited == Deposit(settled, Beneficiary, share)
<1>1. /\ d.balance \in [Addr -> Nat] /\ tx \in Tx /\ fee \in 0 .. U64Modulus - 1
      /\ tx.maxFee >= fee /\ Beneficiary \in Addr
  BY EvmAssumption DEF SealArgs, Db, Admissible
<1>2. /\ settled \in [Addr -> Int] /\ SumFunction(settled) = SumFunction(d.balance) - share
      /\ SumFunction(d.balance) \in Int /\ share \in Nat
  BY <1>1, SettleBurns
<1>3. StateAfter(d, tx, now, fee).balance = credited
  <2> HIDE DEF settled
  <2>1. transact_raw(d, tx, now, fee).balance = settled
    BY SMT DEF transact_raw, settled
  <2>2. credit_beneficiary(transact_raw(d, tx, now, fee), share).balance
          = [transact_raw(d, tx, now, fee).balance EXCEPT ![Beneficiary] = @ + share]
    BY SMT DEF credit_beneficiary, transact_raw
  <2> QED BY <2>1, <2>2 DEF StateAfter, base_fee_share, Deposit
<1> HIDE DEF settled, share
<1>4. SumFunction(credited) = SumFunction(settled) + share
  <2>1. share \in Int
    BY SMT, <1>2
  <2> QED BY <1>1, <1>2, <2>1, SumDeposit
<1> HIDE DEF credited
<1>5. SumFunction(credited) = SumFunction(d.balance)
  BY SMT, <1>2, <1>4
<1> QED BY <1>3, <1>5 DEF Circulating

\* A step that leaves the spec and every balance alone.
LEMMA SupplyKept ==
  ASSUME SupplyConserved, Running, spec' = spec, Circulating(db)' = Circulating(db)
  PROVE  SupplyConserved'
BY DEF SupplyConserved, Running

\* Every step of the node conserves the supply, failed writes, interrupted
\* opens and cache reads included.
LEMMA StepSupply == IInv /\ SupplyConserved /\ [Next]_vars => SupplyConserved'
<1> SUFFICES ASSUME IInv, SupplyConserved, [Next]_vars PROVE SupplyConserved'
  OBVIOUS
<1>0. TypeOK /\ db \in Db
  BY DEF IInv, TypeOK
<1>1. ASSUME NEW s \in Specs, Open(s) PROVE SupplyConserved'
  <2>1. CASE OpenFresh(s)
    BY <2>1 DEF OpenFresh, SupplyConserved
  <2>2. CASE OpenLegacy(s)
    BY <2>2 DEF OpenLegacy, SupplyConserved
  <2>3. CASE OpenStored(s)
    BY <2>3 DEF OpenStored, SupplyConserved
  <2>4. CASE OpenRejects(s)
    BY <2>4 DEF OpenRejects, Exit, SupplyConserved
  <2> QED BY <1>1, <2>1, <2>2, <2>3, <2>4 DEF Open
<1>2. CASE Opening
  <2>1. CASE MigrateKey
    BY <2>1 DEF MigrateKey, SupplyConserved
  <2>2. CASE RenameJournal
    BY <2>2 DEF RenameJournal, SupplyConserved
  <2>3. CASE ReplayBlock
    <3> DEFINE b == Head(todo)
    <3>1. /\ status = "replaying" /\ Sealable(b.tx, b.fee) /\ spec' = spec
          /\ db' = StateAfter(db, b.tx, b.timestamp, b.fee)
          /\ todo \in Seq(Block) /\ todo # <<>>
      BY <1>0, <2>3 DEF ReplayBlock, ReplayFee, seal_raw_with_fee, TypeOK
    <3>2. b \in Block
      BY SMT, <3>1, HeadTailProperties
    <3>3. SealArgs(db, b.tx, b.timestamp, b.fee)
      BY <1>0, <3>1, <3>2 DEF Block, SealArgs, Sealable
    <3>4. Circulating(db') = Circulating(db)
      <4> HIDE DEF b
      <4> QED BY <3>1, <3>3, SealConserves
    <3> QED BY <3>1, <3>4, SupplyKept DEF Running
  <2>4. CASE ReplayRefused
    BY <2>4 DEF ReplayRefused, Exit, SupplyConserved
  <2>5. CASE ReplayDiverges
    BY <2>5 DEF ReplayDiverges, Exit, SupplyConserved
  <2>6. CASE FinishOpen
    BY <2>6 DEF FinishOpen, SupplyConserved
  <2> QED BY <1>2, <2>1, <2>2, <2>3, <2>4, <2>5, <2>6 DEF Opening
<1>3. CASE Crash
  BY <1>3 DEF Crash, Exit, SupplyConserved
<1>4. ASSUME NEW tx \in Tx, NEW now \in Time,
             SendRawTransaction(tx, now) \/ SealUnanswered(tx, now) \/ SealFails(tx, now)
      PROVE  SupplyConserved'
  <2> DEFINE fee == AsU64(pending_base_fee)
  <2>1. CanSeal(tx)
    BY <1>4 DEF SendRawTransaction, SealUnanswered, SealFails
  <2>2. SealArgs(db, tx, now, fee) /\ status = "up"
    BY <1>0, <2>1, NextSealed, NodeAssumption DEF SealArgs
  <2>3. Circulating(StateAfter(db, tx, now, fee)) = Circulating(db)
    <3> HIDE DEF fee
    <3> QED BY <2>2, SealConserves
  <2>4. CASE SealUnanswered(tx, now)
    BY <2>4 DEF SealUnanswered, Exit, SupplyConserved
  <2>5. CASE SendRawTransaction(tx, now) \/ SealFails(tx, now)
    <3>1. db' = StateAfter(db, tx, now, fee) /\ spec' = spec
      BY <2>5 DEF SendRawTransaction, SealFails, seal_raw_with_fee
    <3> QED BY <2>2, <2>3, <3>1, SupplyKept DEF Running
  <2> QED BY <1>4, <2>4, <2>5
<1>5. ASSUME NEW s \in Slot, StorageOf(s) PROVE SupplyConserved'
  <2>1. db'.balance = db.balance /\ spec' = spec /\ status = "up"
    BY SMT, <1>0, <1>5 DEF StorageOf, CacheSlot, Db
  <2> QED BY <2>1, SupplyKept DEF Running, Circulating
<1>6. ASSUME NEW read \in SUBSET Slot, Call(read) PROVE SupplyConserved'
  <2>1. db'.balance = db.balance /\ spec' = spec /\ status = "up"
    BY SMT, <1>0, <1>6 DEF Call, CacheSlots, Db
  <2> QED BY <2>1, SupplyKept DEF Running, Circulating
<1>7. ASSUME NEW k \in Keys, SetFaucetKey(k) PROVE SupplyConserved'
  BY <1>7 DEF SetFaucetKey, SupplyConserved
<1>8. CASE UNCHANGED vars
  BY <1>8 DEF vars, volatile, SupplyConserved
<1> QED
  BY <1>1, <1>2, <1>3, <1>4, <1>5, <1>6, <1>7, <1>8 DEF Next

-----------------------------------------------------------------------------
(***************************************************************************)
(* What the views read, in a state in which the node is up: the blocks are *)
(* numbered by their places, each is linked to the one before, and the     *)
(* receipt of each transaction is that of the block it is in.              *)
(***************************************************************************)
InOrder ==
  /\ blocks \in Seq(Block) /\ Len(blocks) \in Nat /\ DOMAIN blocks = 1 .. Len(blocks)
  /\ Len(blocks) \in 0 .. MaxBlocks
  /\ Top = Len(blocks)
  /\ \A n \in 1 .. Len(blocks) :
       /\ blocks[n] \in Block /\ blocks[n] # NoBlock /\ blocks[n].number = n
       /\ blocks[n].parent = IF n = 1 THEN genesis_hash ELSE blocks[n - 1].hash
       /\ blocks[n].hash = block_hash(blocks[n].parent, n, blocks[n].timestamp)
       /\ receipts[blocks[n].tx] = ReceiptOf(blocks[n])
       /\ receipts[blocks[n].tx] # NoReceipt

\* The invariant gives all of it.
LEMMA InOrderWhenUp == ASSUME IInv, status = "up" PROVE InOrder
<1>1. /\ TypeOK /\ StoreOK /\ SessionOK /\ Len(blocks) = height
      /\ blocks \in Seq(Block) /\ height \in 0 .. MaxBlocks
  BY DEF IInv, PhaseOK, Running, TypeOK
<1>2. /\ Len(blocks) \in Nat /\ DOMAIN blocks = 1 .. Len(blocks)
  BY <1>1, LenProperties
<1>3. ASSUME NEW n \in 1 .. Len(blocks)
      PROVE  /\ blocks[n] \in Block /\ blocks[n] # NoBlock /\ blocks[n].number = n
             /\ blocks[n].parent = IF n = 1 THEN genesis_hash ELSE blocks[n - 1].hash
             /\ blocks[n].hash = block_hash(blocks[n].parent, n, blocks[n].timestamp)
             /\ receipts[blocks[n].tx] = ReceiptOf(blocks[n])
             /\ receipts[blocks[n].tx] # NoReceipt
  <2>1. blocks[n] = stored[n] /\ receipts[blocks[n].tx] = ReceiptOf(blocks[n])
    BY <1>1 DEF SessionOK
  <2>2. n # 1 => n - 1 \in 1 .. Len(blocks)
    BY SMT, <1>2
  <2>3. n # 1 => blocks[n - 1] = stored[n - 1]
    BY <1>1, <2>2 DEF SessionOK
  <2>4. /\ stored[n] \in Block /\ stored[n].number = n
        /\ stored[n].parent = IF n = 1 THEN genesis_hash ELSE stored[n - 1].hash
        /\ stored[n].hash = block_hash(stored[n].parent, n, stored[n].timestamp)
    BY <1>1 DEF StoreOK
  <2>5. ReceiptOf(blocks[n]) \in Receipt
    BY <2>1, <2>4, BlockFields, TxFields DEF ReceiptOf, Receipt, Succeeds
  <2>6. blocks[n] # NoBlock /\ ReceiptOf(blocks[n]) # NoReceipt
    BY <2>1, <2>4, <2>5, NodeAssumption
  <2> QED BY <2>1, <2>3, <2>4, <2>6
<1>4. Top = Len(blocks)
  <2>1. CASE blocks = <<>>
    BY <2>1, EmptyTypes DEF block_number, Top
  <2>2. CASE blocks # <<>>
    <3>1. Len(blocks) \in 1 .. Len(blocks)
      BY SMT, <1>1, <1>2, <2>2, EmptySeq
    <3> QED BY <1>3, <2>2, <3>1 DEF block_number, Top
  <2> QED BY <2>1, <2>2
<1> QED BY <1>1, <1>2, <1>3, <1>4 DEF InOrder

\* There are no more blocks than the bound allows.
LEMMA InOrderLength ==
  ASSUME InOrder PROVE Len(blocks) \in Nat /\ Len(blocks) <= MaxBlocks
<1>1. Len(blocks) \in Nat /\ Len(blocks) \in 0 .. MaxBlocks
  BY DEF InOrder
<1> QED BY SMT, <1>1, NodeAssumption

\* The block at a height, and its receipt.
LEMMA InOrderAt ==
  ASSUME InOrder, NEW n \in 1 .. Len(blocks)
  PROVE  /\ blocks[n] \in Block /\ blocks[n].number = n
         /\ receipts[blocks[n].tx] = ReceiptOf(blocks[n])
  BY DEF InOrder

\* A search that finds one block only returns it.
LEMMA FirstOfOne == ASSUME NEW n \in Nat PROVE FirstBlock({n}) = blocks[n]
<1>1. \A k \in {n} : n <= k
  BY SMT
<1>2. (CHOOSE m \in {n} : \A k \in {n} : m <= k) = n
  BY <1>1
<1> QED BY <1>2 DEF FirstBlock

\* A search that finds nothing.
LEMMA FirstOfNone == FirstBlock({}) = NoBlock
BY DEF FirstBlock

\* Blocks are found under their numbers, and no other.
LEMMA FoundByNumber ==
  ASSUME InOrder
  PROVE  /\ \A n \in 1 .. Len(blocks) : block_by_number(n) = blocks[n]
         /\ block_by_number(0) = NoBlock
<1>1. ASSUME NEW n \in 1 .. Len(blocks) PROVE block_by_number(n) = blocks[n]
  <2>a. n \in DOMAIN blocks /\ \A k \in DOMAIN blocks : blocks[k].number = k
    BY DEF InOrder
  <2>1. {k \in DOMAIN blocks : blocks[k].number = n} = {n}
    BY <2>a
  <2>2. n \in Nat
    BY SMT, InOrderLength
  <2> QED BY <2>1, <2>2, FirstOfOne DEF block_by_number
<1>2. {k \in DOMAIN blocks : blocks[k].number = 0} = {}
  <2>1. DOMAIN blocks = 1 .. Len(blocks) /\ \A k \in DOMAIN blocks : blocks[k].number = k
    BY DEF InOrder
  <2>2. 0 \notin 1 .. Len(blocks)
    BY SMT, InOrderLength
  <2> QED BY <2>1, <2>2
<1> QED BY <1>1, <1>2, FirstOfNone DEF block_by_number

\* The hash of block n is a chain of n steps from the genesis hash.
LEMMA HashLength ==
  ASSUME InOrder, NEW n \in 1 .. Len(blocks)
  PROVE  Len(blocks[n].hash) = n
<1> DEFINE Bad == {m \in Nat : m \in 1 .. Len(blocks) /\ Len(blocks[m].hash) # m}
<1>1. Bad = {}
  <2> SUFFICES ASSUME Bad # {} PROVE FALSE
    BY SMT
  <2>1. PICK m \in Bad : \A k \in Bad : m <= k
    BY LeastNumber
  <2>2. /\ m \in 1 .. Len(blocks) /\ m \in Nat /\ Len(blocks[m].hash) # m
        /\ blocks[m] \in Block /\ Len(blocks) \in Nat
        /\ blocks[m].parent = IF m = 1 THEN genesis_hash ELSE blocks[m - 1].hash
        /\ blocks[m].hash = block_hash(blocks[m].parent, m, blocks[m].timestamp)
    BY <2>1 DEF InOrder
  <2> HIDE DEF Bad
  <2>3. Len(blocks[m].parent) = m - 1
    <3>1. CASE m = 1
      BY SMT, <2>2, <3>1, EmptySeq DEF genesis_hash
    <3>2. CASE m # 1
      <4>1. m - 1 \in 1 .. Len(blocks) /\ m - 1 \in Nat /\ ~(m <= m - 1)
        BY SMT, <2>2, <3>2
      <4>2. Len(blocks[m - 1].hash) = m - 1
        BY <2>1, <4>1 DEF Bad
      <4> QED BY <2>2, <3>2, <4>2
    <3> QED BY <3>1, <3>2
  <2>4. blocks[m].parent \in Seq(Nat \X Nat) /\ <<m, blocks[m].timestamp>> \in Nat \X Nat
    BY <2>2, BlockFields DEF Block, Hash
  <2>5. Len(blocks[m].hash) = Len(blocks[m].parent) + 1
    BY SMT, <2>2, <2>4, AppendProperties DEF block_hash
  <2> QED BY SMT, <2>2, <2>3, <2>5
<1>2. n \in Nat
  BY SMT, InOrderLength
<1> QED BY <1>1, <1>2

\* Blocks are found under their hashes, none of which is the genesis hash.
LEMMA FoundByHash ==
  ASSUME InOrder, NEW n \in 1 .. Len(blocks)
  PROVE  block_by_hash(blocks[n].hash) = blocks[n] /\ blocks[n].hash # genesis_hash
<1>1. ASSUME NEW k \in DOMAIN blocks, blocks[k].hash = blocks[n].hash PROVE k = n
  <2>1. k \in 1 .. Len(blocks)
    BY DEF InOrder
  <2> QED BY <1>1, <2>1, HashLength
<1>2. {k \in DOMAIN blocks : blocks[k].hash = blocks[n].hash} = {n}
  BY <1>1 DEF InOrder
<1>3. n \in Nat /\ n # 0
  BY SMT, InOrderLength
<1>4. blocks[n].hash # genesis_hash
  BY SMT, <1>3, HashLength, EmptySeq DEF genesis_hash
<1> QED BY <1>2, <1>3, <1>4, FirstOfOne DEF block_by_hash

\* A block view, and one step up from it.
LEMMA BlockViews ==
  ASSUME InOrder
  PROVE  /\ block_view(0) = empty_block_view
         /\ \A n \in 1 .. Len(blocks) :
              /\ block_view(n).number = n /\ block_view(n).root = blocks[n].root
              /\ block_view(n).txs = <<tx_view(blocks[n].tx)>>
              /\ block_view_by_hash(block_view(n).parent) = block_view(n - 1)
<1>1. /\ \A n \in 1 .. Len(blocks) : block_by_number(n) = blocks[n]
      /\ block_by_number(0) = NoBlock
  BY FoundByNumber
<1>2. block_view(0) = empty_block_view
  BY <1>1 DEF block_view
<1>3. ASSUME NEW n \in 1 .. Len(blocks)
      PROVE  /\ block_view(n).number = n /\ block_view(n).root = blocks[n].root
             /\ block_view(n).txs = <<tx_view(blocks[n].tx)>>
             /\ block_view(n).parent = blocks[n].parent
  <2>1. blocks[n] # NoBlock /\ blocks[n].number = n /\ block_by_number(n) = blocks[n]
    BY <1>1 DEF InOrder
  <2>2. block_view(n) =
          [number |-> blocks[n].number, hash |-> blocks[n].hash, parent |-> blocks[n].parent,
           root |-> blocks[n].root, fee |-> blocks[n].fee, gas |-> block_gas_used(n),
           txs |-> <<tx_view(blocks[n].tx)>>]
    BY <2>1 DEF block_view
  <2> QED BY SMT, <2>1, <2>2
<1>4. ASSUME NEW n \in 1 .. Len(blocks)
      PROVE  block_view_by_hash(block_view(n).parent) = block_view(n - 1)
  <2>1. CASE n = 1
    <3>a. blocks[n].parent = genesis_hash
      BY <2>1 DEF InOrder
    <3>1. block_view(n).parent = genesis_hash
      BY <1>3, <3>a
    <3>2. block_view_by_hash(genesis_hash) = empty_block_view
      BY <1>1 DEF block_view_by_hash
    <3>3. n - 1 = 0
      BY SMT, <2>1
    <3> QED BY <1>2, <3>1, <3>2, <3>3
  <2>2. CASE n # 1
    <3>1. n - 1 \in 1 .. Len(blocks)
      BY SMT, <2>2, InOrderLength
    <3> DEFINE m == n - 1
    <3>2. block_view(n).parent = blocks[m].hash
      BY <1>3, <2>2 DEF InOrder
    <3> HIDE DEF m
    <3>3. /\ block_by_hash(blocks[m].hash) = blocks[m] /\ blocks[m].hash # genesis_hash
          /\ blocks[m] # NoBlock /\ blocks[m].number = m
      BY <3>1, FoundByHash DEF InOrder, m
    <3>4. block_view_by_hash(blocks[m].hash) = block_view(m)
      BY <3>3 DEF block_view_by_hash
    <3> QED BY <3>2, <3>4 DEF m
  <2> QED BY <2>1, <2>2
<1> QED BY <1>2, <1>3, <1>4

\* Following parentHash from the head meets the views of the blocks in order.
LEMMA WalkIsChain ==
  ASSUME InOrder
  PROVE  \A k \in 0 .. Top : Walk[k] = block_view(Top - k)
<1> DEFINE Up(g, k) == IF k = 0 THEN block_view(Top) ELSE block_view_by_hash(g[k - 1].parent)
           Eqn(g) == g = [k \in 0 .. Top |-> Up(g, k)]
           w == [k \in 0 .. Top |-> block_view(Top - k)]
           seen == CHOOSE g : Eqn(g)
<1>1. Top = Len(blocks) /\ Top \in Nat
  BY DEF InOrder
<1>2. ASSUME NEW k \in 0 .. Top, k # 0
      PROVE  /\ k - 1 \in 0 .. Top
             /\ block_view_by_hash(block_view(Top - (k - 1)).parent) = block_view(Top - k)
  <2> DEFINE n == Top - (k - 1)
  <2>1. k - 1 \in 0 .. Top /\ n \in 1 .. Len(blocks) /\ n - 1 = Top - k
    BY SMT, <1>1, <1>2
  <2> HIDE DEF n
  <2>2. block_view_by_hash(block_view(n).parent) = block_view(n - 1)
    BY <2>1, BlockViews
  <2> QED BY <2>1, <2>2 DEF n
<1>3. Eqn(w)
  <2>1. ASSUME NEW k \in 0 .. Top PROVE block_view(Top - k) = Up(w, k)
    <3>1. CASE k = 0
      BY SMT, <1>1, <3>1
    <3>2. CASE k # 0
      <4>1. k - 1 \in 0 .. Top
        BY <1>2, <3>2
      <4>2. w[k - 1] = block_view(Top - (k - 1))
        BY <4>1
      <4> QED BY <1>2, <3>2, <4>2
    <3> QED BY <3>1, <3>2
  <2> QED BY <2>1
<1>4. Eqn(seen)
  <2> HIDE DEF Eqn
  <2> QED BY <1>3
<1>5. Walk = seen
  BY SMT DEF Walk
<1> HIDE DEF seen
<1>6. \A k \in 0 .. Top : seen[k] = Up(seen, k)
  BY <1>4
<1> DEFINE Bad == {k \in Nat : k \in 0 .. Top /\ seen[k] # block_view(Top - k)}
<1>7. Bad = {}
  <2> SUFFICES ASSUME Bad # {} PROVE FALSE
    BY SMT
  <2>1. PICK k \in Bad : \A m \in Bad : k <= m
    BY LeastNumber
  <2>2. k \in Nat /\ k \in 0 .. Top /\ seen[k] # block_view(Top - k)
    BY <2>1
  <2> HIDE DEF Bad
  <2>3. k # 0
    <3>1. k = 0 => Top - k = Top
      BY SMT, <1>1
    <3> QED BY <1>6, <2>2, <3>1
  <2>4. k - 1 \in Nat /\ k - 1 \in 0 .. Top /\ ~(k <= k - 1)
    BY SMT, <1>1, <2>2, <2>3
  <2>5. seen[k - 1] = block_view(Top - (k - 1))
    BY <2>1, <2>4 DEF Bad
  <2>6. seen[k] = block_view_by_hash(seen[k - 1].parent)
    BY <1>6, <2>2, <2>3
  <2> QED BY <1>2, <2>2, <2>3, <2>5, <2>6
<1>8. \A k \in 0 .. Top : k \in Nat
  BY SMT, <1>1
<1> QED BY <1>5, <1>7, <1>8

\* In a state that the invariants allow, the walk is the chain and ends at genesis.
LEMMA WalkIsComplete ==
  IInv /\ FInv /\ GenesisKept => WalkReachesGenesis
<1> SUFFICES ASSUME IInv, Undisturbed, status = "up", apply_genesis(spec) = hist[0],
                    NEW k \in 0 .. Top
             PROVE  /\ Walk[k] = block_view(Top - k)
                    /\ Walk[k].number = Top - k
                    /\ Walk[k].root = rebuild_smt(hist[Top - k])
  BY DEF FInv, GenesisKept, Running, WalkReachesGenesis
<1>1. InOrder /\ Running
  BY InOrderWhenUp DEF Running
<1>2. Walk[k] = block_view(Top - k)
  BY <1>1, WalkIsChain
<1> DEFINE n == Top - k
<1>a. Top = Len(blocks) /\ Len(blocks) \in Nat
  BY <1>1 DEF InOrder
<1>3. n = 0 \/ n \in 1 .. Len(blocks)
  BY SMT, <1>a
<1> HIDE DEF n
<1>4. CASE n = 0
  <2>1. block_view(0).number = 0 /\ block_view(0).root = rebuild_smt(hist[0])
    BY SMT, <1>1, BlockViews DEF empty_block_view
  <2> QED BY <1>2, <1>4, <2>1 DEF n
<1>5. CASE n \in 1 .. Len(blocks)
  <2>1. block_view(n).number = n /\ block_view(n).root = blocks[n].root
    BY <1>1, <1>5, BlockViews
  <2>2. blocks[n].root = rebuild_smt(hist[n])
    BY <1>1, <1>5 DEF Undisturbed, MemoryFollows
  <2> QED BY <1>2, <2>1, <2>2 DEF n
<1> QED BY <1>3, <1>4, <1>5

-----------------------------------------------------------------------------
(* Receipts account for balances. *)

\* The receipt a client sees of the transaction in block n.
LEMMA ReceiptViews ==
  ASSUME InOrder, NEW n \in 1 .. Len(blocks), NEW r,
         r = ReceiptIn(n)
  PROVE  LET b == blocks[n] IN
         /\ r.tx = b.tx /\ r.gas = b.tx.gas /\ r.success = Succeeds(b.tx)
         /\ Charged(r) = Price(b.tx, b.fee)
<1> DEFINE b == blocks[n]
<1>1. /\ block_by_number(n) = b /\ b # NoBlock /\ b.number = n
      /\ receipts[b.tx] = ReceiptOf(b) /\ receipts[b.tx] # NoReceipt
  BY FoundByNumber DEF InOrder
<1> HIDE DEF b
<1>2. ReceiptOf(b).number = n /\ ReceiptOf(b).gas = b.tx.gas
      /\ ReceiptOf(b).success = Succeeds(b.tx)
  BY SMT, <1>1 DEF ReceiptOf
<1>3. tx_record(b.tx) /\ FeeOf(n) = b.fee
  BY <1>1, <1>2 DEF tx_record, FeeOf
<1>4. tx_view(b.tx).tx = b.tx
  BY SMT, <1>3 DEF tx_view
<1>5. block_view(n).txs[1] = tx_view(b.tx)
  BY SMT, BlockViews DEF b
<1>6. r = [tx |-> b.tx, number |-> n, hash |-> ReceiptOf(b).hash, gas |-> b.tx.gas,
           success |-> Succeeds(b.tx), price |-> decode_tx_view(b.tx, b.fee)]
  BY <1>1, <1>2, <1>3, <1>4, <1>5 DEF ReceiptIn, receipt_view
<1>7. /\ r.tx = b.tx /\ r.gas = b.tx.gas /\ r.success = Succeeds(b.tx)
      /\ r.price = decode_tx_view(b.tx, b.fee)
  BY SMT, <1>6
<1>8. b.tx.form \in TxForm
  BY EvmAssumption DEF InOrder, Block, TxType, b
<1>9. Charged(r) = Price(b.tx, b.fee)
  BY <1>7, <1>8 DEF Charged, decode_tx_view, Price, TxForm
<1> QED BY <1>7, <1>9 DEF b

\* What a sealed transaction does to the balances is what its receipt says, at
\* the price that was charged:
\* the tip and the credited base-fee share are together the price.
LEMMA SealPays ==
  ASSUME NEW d, NEW tx, NEW now, NEW fee, SealArgs(d, tx, now, fee), NEW r,
         r.tx = tx, r.gas = tx.gas, r.success = Succeeds(tx)
  PROVE  StateAfter(d, tx, now, fee).balance = Pays(d.balance, r, Price(tx, fee))
<1> DEFINE price == Price(tx, fee)
           moved == IF Succeeds(tx) THEN tx.value ELSE 0
           cost == tx.gas * price
           share == tx.gas * fee
           tipped == tx.gas * (price - fee)
           paid == [d.balance EXCEPT ![tx.from] = @ - (cost + moved)]
           received == [paid EXCEPT ![tx.to] = @ + moved]
           settled == Deposit(received, Beneficiary, tipped)
<1>1. /\ tx.gas \in Nat /\ tx.value \in Nat /\ tx.maxFee \in Nat /\ tx.tip \in Nat
      /\ tx.from \in Addr /\ tx.to \in Addr /\ Beneficiary \in Addr
      /\ d.balance \in [Addr -> Nat] /\ fee \in Nat /\ fee \in 0 .. U64Modulus - 1
      /\ tx.maxFee >= fee
  BY SMT, EvmAssumption, GasAssumption DEF TxType, SealArgs, Db, Admissible
<1>2. price \in Nat /\ fee <= price
  BY <1>1, PriceRange
<1>3. moved \in Int
  BY SMT, <1>1
<1> HIDE DEF moved, price
<1>4. /\ cost \in Nat /\ share \in Nat /\ tipped \in Nat /\ cost = tipped + share
  <2>1. tx.gas \in Nat /\ fee \in Nat /\ price \in Nat /\ fee <= price
    BY <1>1, <1>2
  <2> QED BY SMT, <2>1, PriceSplits
<1> HIDE DEF cost, share, tipped
<1>5. paid \in [Addr -> Int]
  BY SMT, <1>1, <1>3, <1>4
<1>6. received \in [Addr -> Int]
  <2> HIDE DEF paid
  <2> QED BY SMT, <1>1, <1>3, <1>5
<1>7. Deposit(settled, Beneficiary, share) = Deposit(received, Beneficiary, cost)
  <2> HIDE DEF received
  <2>1. tipped \in Int /\ share \in Int
    BY SMT, <1>4
  <2> QED BY <1>1, <1>4, <1>6, <2>1, DepositTwice
<1>8. StateAfter(d, tx, now, fee).balance = Deposit(settled, Beneficiary, share)
  <2>1. transact_raw(d, tx, now, fee).balance = Settle(d.balance, tx, fee)
    BY SMT DEF transact_raw
  <2>2. credit_beneficiary(transact_raw(d, tx, now, fee), share).balance
          = [transact_raw(d, tx, now, fee).balance EXCEPT ![Beneficiary] = @ + share]
    BY SMT DEF credit_beneficiary, transact_raw
  <2>3. Settle(d.balance, tx, fee) = settled
    BY DEF Settle, Deposit, tipped, cost, moved, price
  <2> HIDE DEF settled
  <2> QED BY <2>1, <2>2, <2>3 DEF StateAfter, base_fee_share, Deposit, share
<1>9. Pays(d.balance, r, price) = Deposit(received, Beneficiary, cost)
  BY DEF Pays, Deposit, cost, moved, price
<1> QED BY <1>7, <1>8, <1>9 DEF price

\* The history of a node that is up, block after block.
LEMMA HistorySteps ==
  ASSUME IInv, Undisturbed, status = "up", NEW n \in 1 .. Len(blocks)
  PROVE  LET b == blocks[n] IN
         /\ SealArgs(hist[n - 1], b.tx, b.timestamp, b.fee)
         /\ hist[n] = StateAfter(hist[n - 1], b.tx, b.timestamp, b.fee)
<1>1. InOrder /\ blocks[n] \in Block
  BY InOrderWhenUp DEF InOrder
<1>2. Chain = blocks
  BY ChainFacts DEF ChainKnown, ChainRuns, Running
<1>3. ExecutedFrom(hist[n - 1], blocks[n], hist[n])
  BY <1>2 DEF Undisturbed, ChainSealed, SealedAs
<1>4. hist[n - 1] \in Db
  <2>1. n - 1 \in 0 .. MaxBlocks
    BY SMT, <1>1, InOrderLength, NodeAssumption
  <2> QED BY <2>1 DEF IInv, TypeOK
<1> QED BY <1>1, <1>3, <1>4, BlockFields DEF ExecutedFrom, SealArgs

\* In a state that the invariants allow, the receipts add up to the balances.
LEMMA ReceiptsAccount ==
  IInv /\ FInv /\ GenesisKept => ReceiptsMissOnlyHeadroom
<1> SUFFICES ASSUME IInv, Undisturbed, status = "up", apply_genesis(spec) = hist[0]
             PROVE  AccountedFor = db.balance
  BY DEF FInv, GenesisKept, Running, ReceiptsMissOnlyHeadroom
<1> DEFINE Paid(g, n) == IF n = 0 THEN apply_genesis(spec).balance
                         ELSE Pays(g[n - 1], ReceiptIn(n), Charged(ReceiptIn(n)))
           Eqn(g) == g = [n \in 0 .. Top |-> Paid(g, n)]
           w == [n \in 0 .. Top |-> hist[n].balance]
           balance == CHOOSE g : Eqn(g)
<1>1. InOrder /\ Running /\ Top = Len(blocks) /\ Top \in Nat
  BY InOrderWhenUp DEF InOrder, Running
<1>2. ASSUME NEW n \in 0 .. Top, n # 0
      PROVE  /\ n - 1 \in 0 .. Top
             /\ hist[n].balance
                  = Pays(hist[n - 1].balance, ReceiptIn(n), Charged(ReceiptIn(n)))
  <2> DEFINE b == blocks[n]
             r == ReceiptIn(n)
  <2>1. n \in 1 .. Len(blocks) /\ n - 1 \in 0 .. Top
    BY SMT, <1>1, <1>2
  <2>2. /\ r.tx = b.tx /\ r.gas = b.tx.gas /\ r.success = Succeeds(b.tx)
        /\ Charged(r) = Price(b.tx, b.fee)
    BY <1>1, <2>1, ReceiptViews
  <2>3. /\ SealArgs(hist[n - 1], b.tx, b.timestamp, b.fee)
        /\ hist[n] = StateAfter(hist[n - 1], b.tx, b.timestamp, b.fee)
    BY ZenonT(30), <2>1, HistorySteps
  <2> HIDE DEF b, r
  <2>4. hist[n].balance = Pays(hist[n - 1].balance, r, Charged(r))
    BY SMT, <2>2, <2>3, SealPays
  <2> QED BY <2>1, <2>4 DEF r
<1>3. Eqn(w)
  <2>1. ASSUME NEW n \in 0 .. Top PROVE hist[n].balance = Paid(w, n)
    <3>1. CASE n = 0
      BY <3>1
    <3>2. CASE n # 0
      <4>1. w[n - 1] = hist[n - 1].balance
        BY <1>2, <3>2
      <4> QED BY <1>2, <3>2, <4>1
    <3> QED BY <3>1, <3>2
  <2> QED BY <2>1
<1>4. Eqn(balance)
  <2> HIDE DEF Eqn
  <2> QED BY <1>3
<1>5. AccountedFor = balance[Top]
  BY SMT DEF AccountedFor
<1> HIDE DEF balance
<1>6. \A n \in 0 .. Top : balance[n] = Paid(balance, n)
  BY <1>4
<1> DEFINE Bad == {n \in Nat : n \in 0 .. Top /\ balance[n] # hist[n].balance}
<1>7. Bad = {}
  <2> SUFFICES ASSUME Bad # {} PROVE FALSE
    BY SMT
  <2>1. PICK n \in Bad : \A m \in Bad : n <= m
    BY LeastNumber
  <2>2. n \in Nat /\ n \in 0 .. Top /\ balance[n] # hist[n].balance
    BY <2>1
  <2> HIDE DEF Bad
  <2>3. n # 0
    BY <1>6, <2>2
  <2>4. n - 1 \in Nat /\ n - 1 \in 0 .. Top /\ ~(n <= n - 1)
    BY SMT, <1>1, <2>2, <2>3
  <2>5. balance[n - 1] = hist[n - 1].balance
    BY <2>1, <2>4 DEF Bad
  <2> QED BY ZenonT(30), <1>2, <1>6, <2>2, <2>3, <2>5
<1>8. Top \in 0 .. Top
  BY SMT, <1>1
<1>9. balance[Top] = hist[Top].balance
  BY <1>1, <1>7, <1>8
<1>10. db = hist[Top]
  BY <1>1 DEF Undisturbed, MemoryFollows
<1> QED BY <1>5, <1>9, <1>10

-----------------------------------------------------------------------------
(* A trace misses nothing but credits. *)

\* The credits before block n + 1 are those before block n and its share.
LEMMA CreditedSteps ==
  ASSUME blocks \in Seq(Block), Len(blocks) \in Nat,
         \A n \in 1 .. Len(blocks) : blocks[n] \in Block
  PROVE  /\ Credited(1) = 0
         /\ \A n \in 1 .. Len(blocks) :
              Credited(n + 1) = Credited(n) + base_fee_share(blocks[n].tx.gas, blocks[n].fee)
         /\ \A n \in 1 .. Len(blocks) + 1 : Credited(n) \in Int
<1> DEFINE share(n) == base_fee_share(blocks[n].tx.gas, blocks[n].fee)
           shares(n) == [i \in 1 .. n |-> share(i)]
<1>1. \A n \in 1 .. Len(blocks) : share(n) \in Int
  <2> TAKE n \in 1 .. Len(blocks)
  <2>1. blocks[n].tx \in Tx /\ blocks[n].fee \in 0 .. U64Modulus - 1
    BY ZenonT(30), BlockFields
  <2>2. blocks[n].tx.gas \in Nat /\ blocks[n].fee \in Nat
    BY SMT, <2>1, TxFields, GasAssumption
  <2> QED BY SMT, <2>2 DEF base_fee_share
<1> HIDE DEF share
<1>2. ASSUME NEW n \in 0 .. Len(blocks)
      PROVE  Summable(shares(n), 1 .. n) /\ Credited(n + 1) = SumFunctionOnSet(shares(n), 1 .. n)
  <2>1. n \in Nat /\ n + 1 - 1 = n /\ 1 \in Int /\ n \in Int /\ 1 .. n \subseteq 1 .. Len(blocks)
    BY SMT
  <2>2. IsFiniteSet(1 .. n)
    BY <2>1, FS_Interval
  <2>3. \A i \in 1 .. n : shares(n)[i] \in Int
    BY <1>1, <2>1
  <2>4. DOMAIN shares(n) = 1 .. n
    OBVIOUS
  <2>5. Credited(n + 1) = SumFunction(shares(n))
    <3> DEFINE all(m) == SumFunction([i \in 1 .. m |-> base_fee_share(blocks[i].tx.gas, blocks[i].fee)])
    <3>1. Credited(n + 1) = all(n + 1 - 1)
      BY SMT DEF Credited
    <3>2. all(n + 1 - 1) = all(n)
      BY <2>1
    <3> QED BY <3>1, <3>2 DEF share
  <2> QED BY <2>2, <2>3, <2>4, <2>5 DEF Summable, SumFunction
<1>3. Credited(1) = 0
  <2>1. 0 \in 0 .. Len(blocks) /\ 1 .. 0 = {} /\ 0 + 1 = 1
    BY SMT
  <2> QED BY <1>2, <2>1, SumNothing
<1>4. ASSUME NEW n \in 1 .. Len(blocks)
      PROVE  Credited(n + 1) = Credited(n) + share(n)
  <2> DEFINE m == n - 1
  <2>1. /\ n \in 0 .. Len(blocks) /\ m \in 0 .. Len(blocks) /\ m + 1 = n
        /\ (1 .. n) \ {n} = 1 .. m /\ n \in 1 .. n
    BY SMT
  <2> HIDE DEF m
  <2>2. SumFunctionOnSet(shares(n), 1 .. n)
          = shares(n)[n] + SumFunctionOnSet(shares(n), (1 .. n) \ {n})
    <3>1. Summable(shares(n), 1 .. n)
      BY <1>2, <2>1
    <3> HIDE DEF shares
    <3> QED BY SMT, <2>1, <3>1, SumRemove
  <2>3. Summable(shares(m), 1 .. m) /\ Alike(shares(m), shares(n), 1 .. m)
    <3>1. \A i \in 1 .. m : i \in 1 .. n
      BY <2>1
    <3>2. \A i \in 1 .. m : shares(m)[i] = shares(n)[i]
      BY <3>1
    <3> QED BY <1>2, <2>1, <3>2 DEF Alike
  <2>4. SumFunctionOnSet(shares(m), 1 .. m) = SumFunctionOnSet(shares(n), 1 .. m)
    <3> HIDE DEF shares
    <3> QED BY SMT, <2>3, SumSame
  <2>5. SumFunctionOnSet(shares(m), 1 .. m) \in Int
    <3> HIDE DEF shares
    <3> QED BY <2>3, SumType
  <2>6. shares(n)[n] = share(n)
    BY <2>1
  <2>7. Credited(n) = SumFunctionOnSet(shares(m), 1 .. m)
        /\ Credited(n + 1) = SumFunctionOnSet(shares(n), 1 .. n)
    BY <1>2, <2>1
  <2> HIDE DEF shares
  <2>8. Credited(n + 1) = share(n) + Credited(n) /\ Credited(n) \in Int /\ share(n) \in Int
    BY <1>1, <2>1, <2>2, <2>4, <2>5, <2>6, <2>7
  <2> QED BY SMT, <2>8
<1>5. ASSUME NEW n \in 1 .. Len(blocks) + 1 PROVE Credited(n) \in Int
  <2> DEFINE m == n - 1
  <2>1. m \in 0 .. Len(blocks) /\ m + 1 = n
    BY SMT
  <2> HIDE DEF m, shares
  <2>2. Summable(shares(m), 1 .. m) /\ Credited(m + 1) = SumFunctionOnSet(shares(m), 1 .. m)
    BY <1>2, <2>1
  <2> QED BY <2>1, <2>2, SumType
<1> QED BY <1>3, <1>4, <1>5 DEF share

\* The state the scratch database reaches: the sealed one without the credits.
Scratch(n) == Without(hist[n], Credited(n + 1))

\* Every block up to number was sealed by someone other than the beneficiary,
\* on the state its predecessor left, in a node that is up.
Traced(number) ==
  /\ InOrder /\ number \in 0 .. Len(blocks) /\ apply_genesis(spec) = hist[0]
  /\ hist[0] \in Db /\ Credited(1) = 0
  /\ \A n \in 1 .. number :
       /\ SealArgs(hist[n - 1], blocks[n].tx, blocks[n].timestamp, blocks[n].fee)
       /\ hist[n] = StateAfter(hist[n - 1], blocks[n].tx, blocks[n].timestamp, blocks[n].fee)
       /\ Credited(n) \in Int
       /\ Credited(n + 1) = Credited(n) + base_fee_share(blocks[n].tx.gas, blocks[n].fee)
       /\ base_fee_share(blocks[n].tx.gas, blocks[n].fee) \in Nat
       /\ Decodes(blocks[n].tx, spec.chain) /\ blocks[n].tx.from # Beneficiary

\* One execution in the scratch database.
LEMMA ScratchStep ==
  ASSUME NEW number, Traced(number), NEW n \in 1 .. number,
         Scratch(n - 1) \in Db, Credited(n) \in Nat
  PROVE  /\ TraceStep(Scratch(n - 1), blocks[n]) = Scratch(n)
         /\ Scratch(n) \in Db /\ Credited(n + 1) \in Nat
<1> DEFINE b == blocks[n]
           d == hist[n - 1]
           v == Credited(n)
           share == base_fee_share(b.tx.gas, b.fee)
<1>1. /\ SealArgs(d, b.tx, b.timestamp, b.fee)
      /\ hist[n] = StateAfter(d, b.tx, b.timestamp, b.fee)
      /\ Credited(n + 1) = v + share /\ share \in Nat
      /\ Decodes(b.tx, spec.chain) /\ b.tx.from # Beneficiary
  BY DEF Traced
<1>2. n - 1 + 1 = n
  <2>1. number \in 0 .. Len(blocks) /\ Len(blocks) \in Nat
    BY DEF Traced, InOrder
  <2> QED BY SMT, <2>1
<1>3. Scratch(n - 1) = Without(d, v)
  BY <1>2 DEF Scratch
<1>4. Scratch(n - 1) # Refused
  BY TraceAssumption
<1> HIDE DEF b, d, v, share
<1>5. v \in Nat /\ Without(d, v) \in Db
  BY <1>3 DEF v
<1>6. /\ Admissible(Without(d, v), b.tx, b.fee)
      /\ transact_raw(Without(d, v), b.tx, b.timestamp, b.fee) \in Db
      /\ transact_raw(Without(d, v), b.tx, b.timestamp, b.fee)
           = Without(StateAfter(d, b.tx, b.timestamp, b.fee), v + share)
  BY SMT, <1>1, <1>5, TraceFollows DEF share
<1>7. Scratch(n) = Without(StateAfter(d, b.tx, b.timestamp, b.fee), v + share)
  BY <1>1 DEF Scratch
<1>8. TraceStep(Scratch(n - 1), b) = Scratch(n)
  BY <1>1, <1>3, <1>4, <1>6, <1>7 DEF TraceStep
<1>9. Credited(n + 1) \in Nat
  BY SMT, <1>1, <1>5
<1> QED BY <1>6, <1>7, <1>8, <1>9 DEF b

\* The scratch database is a state all the way.
LEMMA ScratchType ==
  ASSUME NEW number, Traced(number)
  PROVE  \A n \in 0 .. number : Scratch(n) \in Db /\ Credited(n + 1) \in Nat
<1> DEFINE Good(n) == Scratch(n) \in Db /\ Credited(n + 1) \in Nat
           Bad == {n \in Nat : n \in 0 .. number /\ ~Good(n)}
<1>0. number \in Nat /\ 0 + 1 = 1 /\ 0 \in Nat
  <2>1. number \in 0 .. Len(blocks) /\ Len(blocks) \in Nat
    BY DEF Traced, InOrder
  <2> QED BY SMT, <2>1
<1>1. Good(0)
  <2>1. Scratch(0) = hist[0]
    BY <1>0, WithoutNothing DEF Traced, Scratch
  <2> QED BY <1>0, <2>1 DEF Traced
<1>2. ASSUME NEW n \in 1 .. number, Good(n - 1) PROVE Good(n)
  <2>1. n - 1 + 1 = n
    BY SMT, <1>0
  <2> QED BY <1>2, <2>1, ScratchStep
<1> HIDE DEF Good
<1>3. Bad = {}
  <2> SUFFICES ASSUME Bad # {} PROVE FALSE
    BY SMT
  <2>1. PICK n \in Bad : \A m \in Bad : n <= m
    BY LeastNumber
  <2>2. n \in Nat /\ n \in 0 .. number /\ ~Good(n) /\ n # 0
    BY <1>1, <2>1
  <2> HIDE DEF Bad
  <2>3. n \in 1 .. number /\ n - 1 \in Nat /\ n - 1 \in 0 .. number /\ ~(n <= n - 1)
    BY SMT, <1>0, <2>2
  <2>4. Good(n - 1)
    BY <2>1, <2>3 DEF Bad
  <2> QED BY <1>2, <2>2, <2>3, <2>4
<1>4. \A n \in 0 .. number : n \in Nat
  BY SMT, <1>0
<1> QED BY <1>3, <1>4 DEF Good

\* PreBlockState is the sealed state without the credits.
LEMMA PreBlockIs ==
  ASSUME NEW number \in 1 .. Len(blocks), Traced(number)
  PROVE  PreBlockState(number) = Scratch(number - 1)
<1> DEFINE last == number - 1
           Run(g, n) == IF n = 0 THEN apply_genesis(spec) ELSE TraceStep(g[n - 1], blocks[n])
           Eqn(g) == g = [n \in 0 .. last |-> Run(g, n)]
           w == [n \in 0 .. last |-> Scratch(n)]
           after == CHOOSE g : Eqn(g)
<1>1. last \in Nat /\ number \in Nat /\ last \in 0 .. last /\ 0 .. last \subseteq 0 .. number
      /\ 0 + 1 = 1
  <2>1. Len(blocks) \in Nat
    BY DEF Traced, InOrder
  <2> QED BY SMT, <2>1
<1>2. Scratch(0) = apply_genesis(spec)
  BY <1>1, WithoutNothing DEF Traced, Scratch
<1>3. ASSUME NEW n \in 0 .. last, n # 0
      PROVE  n - 1 \in 0 .. last /\ TraceStep(Scratch(n - 1), blocks[n]) = Scratch(n)
  <2>1. n \in 1 .. number /\ n - 1 \in 0 .. number /\ n - 1 \in 0 .. last /\ n - 1 + 1 = n
    BY SMT, <1>1, <1>3
  <2>2. Scratch(n - 1) \in Db /\ Credited(n) \in Nat
    BY <2>1, ScratchType
  <2> QED BY <2>1, <2>2, ScratchStep
<1>4. PreBlockState(number) = after[last]
  BY SMT DEF PreBlockState
<1> HIDE DEF last
<1>5. Eqn(w)
  <2>1. ASSUME NEW n \in 0 .. last PROVE Scratch(n) = Run(w, n)
    <3>1. CASE n = 0
      BY <1>2, <3>1
    <3>2. CASE n # 0
      <4>1. w[n - 1] = Scratch(n - 1)
        BY <1>3, <3>2
      <4> QED BY <1>3, <3>2, <4>1
    <3> QED BY <3>1, <3>2
  <2> QED BY <2>1
<1>6. Eqn(after)
  <2> HIDE DEF Eqn
  <2> QED BY <1>5
<1> HIDE DEF after
<1>7. \A n \in 0 .. last : after[n] = Run(after, n)
  BY <1>6
<1> DEFINE Bad == {n \in Nat : n \in 0 .. last /\ after[n] # Scratch(n)}
<1>8. Bad = {}
  <2> SUFFICES ASSUME Bad # {} PROVE FALSE
    BY SMT
  <2>1. PICK n \in Bad : \A m \in Bad : n <= m
    BY LeastNumber
  <2>2. n \in Nat /\ n \in 0 .. last /\ after[n] # Scratch(n)
    BY <2>1
  <2> HIDE DEF Bad
  <2>3. n # 0
    BY <1>2, <1>7, <2>2
  <2>4. n - 1 \in Nat /\ n - 1 \in 0 .. last /\ ~(n <= n - 1)
    BY SMT, <1>1, <2>2, <2>3
  <2>5. after[n - 1] = Scratch(n - 1)
    BY <2>1, <2>4 DEF Bad
  <2> QED BY <1>3, <1>7, <2>2, <2>3, <2>5
<1> QED BY <1>1, <1>4, <1>8 DEF last

\* In a state that the invariants allow, a trace misses the credits and nothing else.
LEMMA TraceMisses ==
  IInv /\ FInv /\ GenesisKept => TraceMissesOnlyCredits
<1> SUFFICES ASSUME IInv, Undisturbed, status = "up", apply_genesis(spec) = hist[0],
                    NEW tx \in Traceable, ~FromBeneficiary(receipts[tx].number)
             PROVE  LET number == receipts[tx].number
                        trace == trace_transaction(tx)
                    IN  /\ trace # Refused
                        /\ credit_beneficiary(trace.pre, Credited(number)) = hist[number - 1]
                        /\ trace.gas = receipts[tx].gas /\ trace.failed = ~receipts[tx].success
  BY DEF FInv, GenesisKept, Running, TraceMissesOnlyCredits
<1>1. InOrder /\ SessionOK /\ StoreOK /\ TypeOK /\ Len(blocks) = height
  BY InOrderWhenUp DEF IInv, PhaseOK, Running
<1>2. PICK n \in 1 .. Len(blocks) : blocks[n].tx = tx
  BY <1>1 DEF SessionOK, Traceable
<1>3. /\ receipts[tx] = ReceiptOf(blocks[n]) /\ blocks[n].number = n /\ blocks[n] \in Block
  BY <1>1, <1>2, InOrderAt
<1>4. receipts[tx].number = n /\ receipts[tx].gas = tx.gas /\ receipts[tx].success = Succeeds(tx)
  <2>1. /\ ReceiptOf(blocks[n]).number = blocks[n].number
        /\ ReceiptOf(blocks[n]).gas = blocks[n].tx.gas
        /\ ReceiptOf(blocks[n]).success = Succeeds(blocks[n].tx)
    BY DEF ReceiptOf
  <2> QED BY <1>2, <1>3, <2>1
<1>a. Len(blocks) \in Nat /\ Len(blocks) <= MaxBlocks
  BY <1>1, InOrderLength
<1>5. Traced(n)
  <2>1. n \in 0 .. Len(blocks) /\ 0 \in 0 .. MaxBlocks /\ 1 .. n \subseteq 1 .. Len(blocks)
        /\ \A k \in 1 .. n : k \in 1 .. Len(blocks) + 1
    BY SMT, <1>a, NodeAssumption
  <2>2. hist[0] \in Db
    BY <1>1, <2>1 DEF TypeOK
  <2>3. /\ Credited(1) = 0
        /\ \A k \in 1 .. Len(blocks) :
             Credited(k + 1) = Credited(k) + base_fee_share(blocks[k].tx.gas, blocks[k].fee)
        /\ \A k \in 1 .. Len(blocks) + 1 : Credited(k) \in Int
    BY <1>1, CreditedSteps DEF InOrder
  <2>4. ASSUME NEW k \in 1 .. n
        PROVE  /\ SealArgs(hist[k - 1], blocks[k].tx, blocks[k].timestamp, blocks[k].fee)
               /\ hist[k] = StateAfter(hist[k - 1], blocks[k].tx, blocks[k].timestamp,
                                       blocks[k].fee)
               /\ base_fee_share(blocks[k].tx.gas, blocks[k].fee) \in Nat
               /\ Decodes(blocks[k].tx, spec.chain) /\ blocks[k].tx.from # Beneficiary
    <3>1. k \in 1 .. Len(blocks) /\ blocks[k] \in Block
      BY <1>1, <2>1, InOrderAt
    <3>2. blocks[k].tx.gas \in Nat /\ blocks[k].fee \in Nat
      BY SMT, <3>1, BlockFields, TxFields, GasAssumption
    <3>3. base_fee_share(blocks[k].tx.gas, blocks[k].fee) \in Nat
      BY SMT, <3>2 DEF base_fee_share
    <3>4. blocks[k].tx.chain = spec.chain
      BY ZenonT(30), <1>1, <3>1 DEF SessionOK, StoreOK
    <3>5. blocks[k].tx.from # Beneficiary
      BY <1>4 DEF FromBeneficiary
    <3> QED BY <3>1, <3>3, <3>4, <3>5, HistorySteps DEF Decodes
  <2> QED BY <1>1, <2>1, <2>2, <2>3, <2>4 DEF Traced
<1>6. PreBlockState(n) = Scratch(n - 1)
  BY <1>5, PreBlockIs
<1>7. /\ n \in 1 .. n /\ n - 1 \in 0 .. n /\ n \in 0 .. n /\ n - 1 + 1 = n
      /\ n - 1 \in 0 .. MaxBlocks
  BY SMT, <1>a, NodeAssumption
<1>8. Scratch(n - 1) \in Db /\ Credited(n) \in Nat /\ Scratch(n) \in Db
  BY <1>5, <1>7, ScratchType
<1>9. TraceStep(Scratch(n - 1), blocks[n]) # Refused
  BY <1>5, <1>7, <1>8, ScratchStep, TraceAssumption
<1>10. trace_transaction(tx) = [pre |-> Scratch(n - 1), gas |-> tx.gas, failed |-> ~Succeeds(tx)]
  BY <1>2, <1>3, <1>4, <1>6, <1>9 DEF trace_transaction
<1>11. /\ trace_transaction(tx).pre = Scratch(n - 1)
       /\ trace_transaction(tx).gas = tx.gas /\ trace_transaction(tx).failed = ~Succeeds(tx)
  BY SMT, <1>10
<1>12. credit_beneficiary(Scratch(n - 1), Credited(n)) = hist[n - 1]
  <2>1. hist[n - 1] \in Db
    BY <1>1, <1>7 DEF TypeOK
  <2> QED BY <1>7, <1>8, <2>1, CreditBack DEF Scratch
<1>13. trace_transaction(tx) # Refused
  <2>1. tx \in Tx /\ tx.gas \in Nat
    BY ZenonT(30), TxFields DEF Traceable
  <2>2. trace_transaction(tx) \in TraceResult
    <3>1. (~Succeeds(tx)) \in BOOLEAN
      BY SMT DEF Succeeds
    <3> QED BY SMT, <1>8, <1>10, <2>1, <3>1 DEF TraceResult
  <2> QED BY <2>2, TraceAssumption
<1> QED BY <1>4, <1>11, <1>12, <1>13
=============================================================================
