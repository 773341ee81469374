----------------------------- MODULE FeeMarket -----------------------------
(***************************************************************************)
(* The base fee over the life of a chain: pending_base_fee of node.rs,     *)
(* driven by the gas its blocks use.  A block holds one transaction, whose *)
(* sender must afford gas * fee, so what all accounts own together limits  *)
(* how far the fee can climb.  A fee moves only when a block is sealed.    *)
(***************************************************************************)
EXTENDS Gas

CONSTANTS
  GenesisFees,   \* base fees a chain spec may start from
  Supply,        \* the sum of all balances
  MinGas,        \* gas of the cheapest transaction (21_000)
  MaxTxGas       \* revm's cap on the gas of one transaction (2^24)

ASSUME MarketAssumption ==
  /\ Supply \in Nat /\ MinGas \in Nat \ {0} /\ MaxTxGas \in Nat
  /\ GenesisFees \subseteq 1 .. U64Modulus - 1
  /\ BlockGasLimit = 2 * GasTarget(BlockGasLimit)
  /\ MaxTxGas <= BlockGasLimit
  /\ GasTarget(BlockGasLimit) > 0

\* u128 holds the product of any u64 fee and any gas amount of a block.
ASSUME WidthAssumption == U64Modulus * (BlockGasLimit + 1) <= MaxU128

\* The supply is too small to push the fee past a u64, and large against the
\* fee of one minimal transaction.
ASSUME SupplyAssumption ==
  /\ Supply < GasTarget(BlockGasLimit) * (U64Modulus - 1)
  /\ \A fee \in GenesisFees : MinGas * fee <= Supply
  /\ MinGas * (Supply + GasTarget(BlockGasLimit))
       <= Supply * GasTarget(BlockGasLimit)

VARIABLES
  genesisFee,   \* spec.base_fee_wei
  sealed,       \* there is a head block
  headFee,      \* its base fee
  headGas       \* the gas it used

market == <<genesisFee, sealed, headFee, headGas>>

pending_base_fee ==
  IF sealed THEN calc_next_base_fee(headFee, headGas, BlockGasLimit)
  ELSE genesisFee

MarketInit ==
  /\ genesisFee \in GenesisFees
  /\ sealed = FALSE /\ headFee = 0 /\ headGas = 0

\* seal_raw: the next block executes under the pending fee, kept in a u64.
Seal(gas) ==
  /\ gas * AsU64(pending_base_fee) <= Supply
  /\ sealed' = TRUE
  /\ headFee' = AsU64(pending_base_fee)
  /\ headGas' = gas
  /\ UNCHANGED genesisFee

MarketNext == \E gas \in MinGas .. MaxTxGas : Seal(gas)

MarketSpec == MarketInit /\ [][MarketNext]_market

-----------------------------------------------------------------------------
\* Fees and gas are u64 values.
MarketTypeOK ==
  /\ genesisFee \in GenesisFees /\ sealed \in BOOLEAN
  /\ headFee \in 0 .. U64Modulus - 1 /\ headGas \in 0 .. MaxTxGas

\* The fee never falls below one wei ("an idle chain never quotes zero"), and
\* above its genesis value it stays within what the supply pays for a target's
\* worth of gas.
FeeStaysInRange ==
  /\ pending_base_fee >= MinBaseFee
  /\ \/ pending_base_fee <= genesisFee
     \/ GasTarget(BlockGasLimit) * (pending_base_fee - 1) <= Supply

\* `pending_base_fee() as u64` in seal_raw never cuts the value.
FeeFitsU64 == AsU64(pending_base_fee) = pending_base_fee

\* Use above the target raises the fee, by an eighth at most or by one wei; use
\* below it never raises the fee, and lowers it by an eighth at most.
FeeFollowsDemand ==
  sealed =>
    /\ headGas > GasTarget(BlockGasLimit) =>
         /\ headFee < pending_base_fee
         /\ \/ pending_base_fee = headFee + 1
            \/ 8 * (pending_base_fee - headFee) <= headFee
    /\ headGas <= GasTarget(BlockGasLimit) =>
         /\ pending_base_fee <= headFee
         /\ 8 * (headFee - pending_base_fee) <= headFee

\* The fee moves only with a block, so a fee nobody can pay would stop the
\* chain for good: all accounts together can always pay for one transaction.
NeverPricedOut == MinGas * pending_base_fee <= Supply
=============================================================================
