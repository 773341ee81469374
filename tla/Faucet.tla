------------------------------- MODULE Faucet -------------------------------
(***************************************************************************)
(* kanari_faucet on an instant-sealing node (faucet.rs): the checks the    *)
(* node makes, and the transaction it signs when they pass and hands to    *)
(* its own send_raw_transaction.                                           *)
(***************************************************************************)
EXTENDS KanariNode

CONSTANTS
  KeyAccount,    \* the account of each faucet secret
  FaucetCap,     \* MAX_FAUCET_ETH_PER_REQUEST, in wei
  TransferGas    \* gas limit and gas use of a plain transfer, 21000

ASSUME FaucetAssumption ==
  /\ KeyAccount \in [Keys -> Addr] /\ FaucetCap \in Nat
  /\ TransferGas \in 1 .. BlockGasLimit

\* A transfer at the highest fee a chain may start with, or drift to from a fee
\* that fits a u64, costs less than a u128 holds (21000 * 2^65 < 2^128).
ASSUME DripCostAssumption ==
  /\ TransferGas * (2 * U64Modulus) <= MaxU128
  /\ \A s \in Specs : TransferGas * s.baseFee <= MaxU128

faucet_address == KeyAccount[faucetKey]

\* Mutant of DripCost: the gas is not part of what the faucet must hold.
ValueOnly(amount) == amount

\* The gas cost saturates at the largest u128.
DripCost(amount) ==
  LET gas == TransferGas * pending_base_fee IN
  amount + IF gas > MaxU128 THEN MaxU128 ELSE gas

\* The faucet signs: within the cap, a key is configured, the account not dry.
Grants(amount) ==
  /\ amount <= FaucetCap
  /\ faucetKey # NoKey
  /\ db.balance[faucet_address] >= DripCost(amount)

\* The signed drip: fee cap and tip are both the pending base fee.
faucet(to, amount) ==
  [from |-> faucet_address, to |-> to, nonce |-> db.nonce[faucet_address],
   value |-> amount, gas |-> TransferGas, maxFee |-> pending_base_fee,
   tip |-> pending_base_fee, chain |-> spec.chain, kind |-> "transfer",
   form |-> "eip1559"]

\* kanari_faucet: the drip goes through send_raw_transaction.  Tx bounds the
\* drips that are followed further; GrantedDripsSeal looks at all of them.
Drip(to, amount, now) ==
  /\ Grants(amount)
  /\ faucet(to, amount) \in Tx
  /\ SendRawTransaction(faucet(to, amount), now)

DripNext ==
  \/ Next
  \/ \E to \in Addr, amount \in 0 .. FaucetCap, now \in Time : Drip(to, amount, now)

DripSpec == Init /\ [][DripNext]_vars

-----------------------------------------------------------------------------
\* "sealing immediately" (faucet.rs): whatever the fee has drifted to, however
\* many transactions the faucet account has sent and whichever key a restart or
\* a migration left in force, a drip that passes the faucet's own checks is
\* never refused by send_raw_transaction, and pays the receiver the amount.
GrantedDripsSeal ==
  status = "up" =>
    \A to \in Addr, amount \in 0 .. FaucetCap :
      Grants(amount) =>
        LET drip == faucet(to, amount)
            fee == AsU64(pending_base_fee)
            after == StateAfter(db, drip, CHOOSE now \in Time : TRUE, fee)
        IN  /\ Sealable(drip, fee)
            /\ to \notin {faucet_address, Beneficiary} =>
                 after.balance[to] = db.balance[to] + amount
=============================================================================
