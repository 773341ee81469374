-------------------------------- MODULE Evm --------------------------------
(***************************************************************************)
(* The state an EVM block acts on and one transaction's effect on it.      *)
(*                                                                         *)
(* revm itself is an external crate.  It is modelled here by what the node *)
(* relies on: the admission checks that make `transact` an error, the      *)
(* movement of value, the nonce bump, and an execution that is a function  *)
(* of the state, the transaction and the block environment.  A storage     *)
(* slot holds a timestamp a contract wrote, or Unloaded when the revm      *)
(* cache has no entry for it.                                              *)
(***************************************************************************)
EXTENDS Gas, Sequences, FiniteSets, Functions

CONSTANTS
  Addr,          \* accounts
  Beneficiary,   \* BLOCK_BENEFICIARY
  Slot,          \* storage slots of accounts that exist since genesis
  Unloaded,      \* the cache holds no value for a slot
  Tx             \* raw signed transactions that clients may send

\* The envelope.  "legacy" is an access list (EIP-2930) transaction too: its gas
\* price is in maxFee.  Blob transactions are refused when they are decoded.
TxForm == {"legacy", "eip1559", "eip7702"}

\* "stamp" calls a contract that stores block.timestamp in every slot;
\* "revert" is sealed with success: false.
TxKind == {"transfer", "stamp", "revert"}

TxType == [from: Addr, to: Addr, nonce: Nat, value: Nat, gas: Nat,
           maxFee: Nat, tip: Nat, chain: Nat, kind: TxKind, form: TxForm]

ASSUME EvmAssumption ==
  /\ IsFiniteSet(Addr) /\ Beneficiary \in Addr
  /\ Unloaded \notin Nat
  /\ Tx \subseteq TxType

Db == [balance: [Addr -> Nat], nonce: [Addr -> Nat],
       slot: [Slot -> Nat \cup {Unloaded}]]

EmptyDb == [balance |-> [a \in Addr |-> 0], nonce |-> [a \in Addr |-> 0],
            slot |-> [s \in Slot |-> Unloaded]]

(***************************************************************************)
(* The chain spec handed to KanariNode::open: chain id, genesis            *)
(* allocations in order (a later entry overwrites an earlier one), genesis *)
(* base fee, and the genesis storage a fork import adds.                   *)
(***************************************************************************)
AllocType == Seq(Addr \X Nat)

SpecType == [chain: Nat, alloc: AllocType, baseFee: Nat,
             storage: [Slot -> Nat \cup {Unloaded}]]

\* The last entry of alloc for account a, or 0.
AllocatedTo(alloc, a) ==
  LET last == {i \in DOMAIN alloc :
                 alloc[i][1] = a /\ \A j \in DOMAIN alloc : alloc[j][1] = a => j <= i}
  IN  IF last = {} THEN 0 ELSE alloc[CHOOSE i \in last : TRUE][2]

apply_genesis(s) ==
  [balance |-> [a \in Addr |-> AllocatedTo(s.alloc, a)],
   nonce |-> [a \in Addr |-> 0],
   slot |-> s.storage]

\* PreparedTx::decode accepts only transactions signed for this chain id.
Decodes(tx, chain) == tx.chain = chain

\* revm refuses the transaction before it executes anything.  decode hands it an
\* EIP-1559 envelope as a legacy transaction, for which revm ignores the tip.
Admissible(db, tx, fee) ==
  /\ tx.nonce = db.nonce[tx.from]
  /\ tx.maxFee >= fee
  /\ tx.form = "eip7702" => tx.maxFee >= tx.tip
  /\ tx.gas <= BlockGasLimit
  /\ db.balance[tx.from] >= tx.value + tx.gas * tx.maxFee

Succeeds(tx) == tx.kind # "revert"

\* What revm charges for a unit of gas: only an EIP-7702 transaction keeps its
\* type, every other one pays TxEnv.gas_price, which is the maximum fee.
Price(tx, fee) ==
  IF tx.form = "eip7702" THEN effective_gas_price(tx.maxFee, fee, tx.tip) ELSE tx.maxFee

\* The balances once the sender has paid for gas and value, the receiver has
\* the value and the beneficiary the priority share: the base-fee share
\* gas * fee is gone (vanilla EIP-1559 burns it).
Settle(balance, tx, fee) ==
  LET price == Price(tx, fee)
      moved == IF Succeeds(tx) THEN tx.value ELSE 0
      paid == [balance EXCEPT ![tx.from] = @ - (tx.gas * price + moved)]
      received == [paid EXCEPT ![tx.to] = @ + moved]
  IN  [received EXCEPT ![Beneficiary] = @ + tx.gas * (price - fee)]

\* Mutant of transact_raw: a revert takes the nonce bump back.
TransactRevertsNonce(db, tx, timestamp, fee) ==
  [balance |-> Settle(db.balance, tx, fee),
   nonce |-> IF Succeeds(tx) THEN [db.nonce EXCEPT ![tx.from] = @ + 1] ELSE db.nonce,
   slot |-> IF tx.kind = "stamp" THEN [s \in Slot |-> timestamp] ELSE db.slot]

\* transact_raw on an admissible transaction: execute and commit.
transact_raw(db, tx, timestamp, fee) ==
  [balance |-> Settle(db.balance, tx, fee),
   nonce |-> [db.nonce EXCEPT ![tx.from] = @ + 1],
   slot |-> IF tx.kind = "stamp" THEN [s \in Slot |-> timestamp] ELSE db.slot]

\* Mutant of credit_beneficiary: the base-fee share stays burned.
CreditNothing(db, amount) == db

credit_beneficiary(db, amount) ==
  [db EXCEPT !.balance[Beneficiary] = @ + amount]

(***************************************************************************)
(* The sparse Merkle root is an injective digest of the committed entries: *)
(* every account that is not empty, and every slot the cache holds, zero   *)
(* or not.                                                                 *)
(***************************************************************************)
\* The leaf of account a, if it has one.
Leaf(db, a) ==
  IF db.balance[a] = 0 /\ db.nonce[a] = 0 THEN Unloaded
  ELSE <<db.balance[a], db.nonce[a]>>

rebuild_smt(db) ==
  [accounts |-> [a \in Addr |-> Leaf(db, a)], slots |-> db.slot]

Root == [accounts: [Addr -> (Nat \X Nat) \cup {Unloaded}],
         slots: [Slot -> Nat \cup {Unloaded}]]

\* storage_of on a slot the cache does not hold yet: revm's CacheDB looks it
\* up in the empty database below and keeps the zero it finds.
CacheSlot(db, s) == [db EXCEPT !.slot[s] = IF @ = Unloaded THEN 0 ELSE @]

\* The same for every slot that a call reads.
CacheSlots(db, read) ==
  [db EXCEPT !.slot = [s \in Slot |-> IF s \in read /\ @[s] = Unloaded THEN 0 ELSE @[s]]]

Circulating(db) == SumFunction(db.balance)

\* supply(): the sum over the allocation list.
supply(alloc) == SumFunction([i \in DOMAIN alloc |-> alloc[i][2]])
=============================================================================
