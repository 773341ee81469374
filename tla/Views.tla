------------------------------- MODULE Views -------------------------------
(***************************************************************************)
(* The read side of a node (crates/move-execution/src/views.rs and the     *)
(* lookups of node.rs): what eth_getBlockByNumber, eth_getBlockByHash,     *)
(* eth_getTransactionByHash and eth_getTransactionReceipt answer.  They    *)
(* change nothing, so they are functions of the node's state.              *)
(***************************************************************************)
EXTENDS KanariNode

CONSTANTS NoView,     \* the answer null
          ZeroHash    \* B256::ZERO

\* The first of the blocks that were found, or NoBlock.
FirstBlock(found) ==
  IF found = {} THEN NoBlock
  ELSE blocks[CHOOSE n \in found : \A k \in found : n <= k]

block_by_number(number) == FirstBlock({n \in DOMAIN blocks : blocks[n].number = number})

\* Mutant of block_by_hash: it finds the child of the block asked for.
ChildOf(hash) == FirstBlock({n \in DOMAIN blocks : blocks[n].parent = hash})

block_by_hash(hash) == FirstBlock({n \in DOMAIN blocks : blocks[n].hash = hash})

\* tx_record: the sealed bytes of a transaction can be found.
tx_record(tx) ==
  /\ receipts[tx] # NoReceipt
  /\ LET b == block_by_number(receipts[tx].number) IN b # NoBlock /\ b.tx = tx

\* Mutant of FeeOf: views price a transaction under today's fee.
FeeToday(number) == pending_base_fee

\* The base fee a view prices a transaction of this block under.
FeeOf(number) ==
  IF block_by_number(number) = NoBlock THEN spec.baseFee
  ELSE block_by_number(number).fee

\* decode_tx_view: the price of a decoded transaction.
decode_tx_view(tx, fee) ==
  IF tx.form = "legacy" THEN tx.maxFee ELSE effective_gas_price(tx.maxFee, fee, tx.tip)

tx_view(tx) ==
  IF ~tx_record(tx) THEN NoView
  ELSE [tx |-> tx, number |-> receipts[tx].number, hash |-> receipts[tx].hash,
        price |-> decode_tx_view(tx, FeeOf(receipts[tx].number))]

\* A receipt whose transaction cannot be found is priced at the base fee.
receipt_view(tx) ==
  IF receipts[tx] = NoReceipt THEN NoView
  ELSE LET r == receipts[tx]
           fee == FeeOf(r.number)
       IN  [tx |-> tx, number |-> r.number, hash |-> r.hash, gas |-> r.gas,
            success |-> r.success,
            price |-> IF tx_record(tx) THEN decode_tx_view(tx, fee) ELSE fee]

\* block_gas_used: the receipt's gas, or 0 when the block or the receipt is unknown.
block_gas_used(number) ==
  LET b == block_by_number(number) IN
  IF b = NoBlock \/ receipts[b.tx] = NoReceipt THEN 0 ELSE receipts[b.tx].gas

\* The synthetic block 0; genesis_root is the root right after apply_genesis.
empty_block_view ==
  [number |-> 0, hash |-> genesis_hash, parent |-> ZeroHash,
   root |-> rebuild_smt(apply_genesis(spec)), fee |-> spec.baseFee, gas |-> 0,
   txs |-> <<>>]

\* block_view with full transactions.
block_view(number) ==
  LET b == block_by_number(number) IN
  CASE b # NoBlock ->
         [number |-> b.number, hash |-> b.hash, parent |-> b.parent, root |-> b.root,
          fee |-> b.fee, gas |-> block_gas_used(number), txs |-> <<tx_view(b.tx)>>]
    [] b = NoBlock /\ number = 0 -> empty_block_view
    [] OTHER -> NoView

block_view_by_hash(hash) ==
  IF hash = genesis_hash /\ block_by_number(0) = NoBlock THEN empty_block_view
  ELSE IF block_by_hash(hash) = NoBlock THEN NoView
  ELSE block_view(block_by_hash(hash).number)

-----------------------------------------------------------------------------
Top == block_number(blocks)

\* What a client sees that follows parentHash from the head, step after step.
Walk ==
  LET seen[k \in 0 .. Top] ==
        IF k = 0 THEN block_view(Top) ELSE block_view_by_hash(seen[k - 1].parent)
  IN  seen

\* A client that starts at the head and follows parentHash through
\* eth_getBlockByHash meets every block once, in order, down to the synthetic
\* genesis, also after the chain was reopened, migrated or replayed; and each
\* stateRoot on the way is the digest of the state that block left behind.
WalkReachesGenesis ==
  faults = {} /\ status = "up" =>
    \A k \in 0 .. Top :
      /\ Walk[k] = block_view(Top - k)
      /\ Walk[k].number = Top - k
      /\ Walk[k].root = rebuild_smt(hist[Top - k])

\* Gas at this price and the value change hands, all of the gas goes to the
\* beneficiary.
Pays(balance, r, price) ==
  LET moved == IF r.success THEN r.tx.value ELSE 0
      paid == [balance EXCEPT ![r.tx.from] = @ - (r.gas * price + moved)]
      received == [paid EXCEPT ![r.tx.to] = @ + moved]
  IN  [received EXCEPT ![Beneficiary] = @ + r.gas * price]

\* The receipt of the transaction that block n lists.
ReceiptIn(n) == receipt_view(block_view(n).txs[1].tx)

\* What was charged according to the receipt r: its price, but the maximum fee
\* for an EIP-1559 transaction.
Charged(r) == IF r.tx.form = "eip1559" THEN r.tx.maxFee ELSE r.price

\* The balances that the views account for: genesis, and then for each block
\* the transaction listed in it, at the gas and the outcome of its receipt.
AccountedFor ==
  LET balance[n \in 0 .. Top] ==
        IF n = 0 THEN apply_genesis(spec).balance
        ELSE Pays(balance[n - 1], ReceiptIn(n), Charged(ReceiptIn(n)))
  IN  balance[Top]

\* The receipts account for every balance eth_getBalance reports, but for one
\* thing: an EIP-1559 transaction was charged its maximum fee and not the
\* effectiveGasPrice.  The gas, the outcome and the price of every other receipt
\* are what was really paid, for old blocks too after the base fee has moved on
\* and after a replay of blocks sealed under a flat fee.
ReceiptsMissOnlyHeadroom ==
  faults = {} /\ status = "up" => AccountedFor = db.balance

\* gas.rs: an EIP-1559 transaction pays "base + priority when that is cheaper",
\* so that adding up the receipts as they are gives every balance.
ReceiptsAreExact ==
  faults = {} /\ status = "up" =>
    LET balance[n \in 0 .. Top] ==
          IF n = 0 THEN apply_genesis(spec).balance
          ELSE Pays(balance[n - 1], ReceiptIn(n), ReceiptIn(n).price)
    IN  balance[Top] = db.balance
=============================================================================
