-------------------------------- MODULE Gas --------------------------------
(***************************************************************************)
(* Fee arithmetic shared by sealing, views and the faucet                  *)
(* (crates/evm-types/src/gas.rs).  The code computes in u128 with          *)
(* saturating operations and stores the fee of a block in a u64; both      *)
(* widths are parameters, so that a small instance reaches their edges.    *)
(***************************************************************************)
EXTENDS Naturals

CONSTANTS
  BlockGasLimit,   \* BLOCK_GAS_LIMIT
  MaxU128,         \* largest u128, where saturating arithmetic stops
  U64Modulus       \* 2^64: `as u64` keeps the value modulo this

ASSUME GasAssumption ==
  /\ BlockGasLimit \in Nat
  /\ U64Modulus \in Nat \ {0}
  /\ MaxU128 \in Nat /\ U64Modulus <= MaxU128

MinBaseFee == 1
MaxChangeDenominator == 8
GasTargetDivisor == 2

AtLeast(x, floor) == IF x < floor THEN floor ELSE x
AtMost(x, cap) == IF x > cap THEN cap ELSE x

saturating_mul(x, y) == AtMost(x * y, MaxU128)
saturating_add(x, y) == AtMost(x + y, MaxU128)
saturating_sub(x, y) == IF x > y THEN x - y ELSE 0

\* `x as u64`
AsU64(x) == x % U64Modulus

GasTarget(gasLimit) == gasLimit \div GasTargetDivisor

\* What the fee moves by when usage misses a nonzero target by miss.
FeeDelta(parentFee, miss, target) ==
  (saturating_mul(parentFee, miss) \div target) \div MaxChangeDenominator

\* Mutants of calc_next_base_fee: the fee of an idle chain decays to nothing;
\* a small fee never rises; the change is not scaled down at all.
NextFeeWithoutFloor(parentFee, gasUsed, gasLimit) ==
  LET target == GasTarget(gasLimit) IN
  IF gasUsed >= target THEN parentFee
  ELSE saturating_sub(parentFee, AtLeast(FeeDelta(parentFee, target - gasUsed, target), 1))

NextFeeRoundedDown(parentFee, gasUsed, gasLimit) ==
  LET target == GasTarget(gasLimit) IN
  IF gasUsed > target
  THEN saturating_add(parentFee, FeeDelta(parentFee, gasUsed - target, target))
  ELSE AtLeast(saturating_sub(parentFee, FeeDelta(parentFee, target - gasUsed, target)),
               MinBaseFee)

NextFeeUnscaled(parentFee, gasUsed, gasLimit) ==
  LET target == GasTarget(gasLimit) IN
  IF gasUsed > target
  THEN saturating_add(parentFee, saturating_mul(parentFee, gasUsed - target))
  ELSE parentFee

calc_next_base_fee(parentFee, gasUsed, gasLimit) ==
  LET target == GasTarget(gasLimit) IN
  CASE target = 0 \/ gasUsed = target -> AtLeast(parentFee, MinBaseFee)
    [] target > 0 /\ gasUsed > target ->
         AtLeast(saturating_add(parentFee,
                   AtLeast(FeeDelta(parentFee, gasUsed - target, target), 1)),
                 MinBaseFee)
    [] target > 0 /\ gasUsed < target ->
         AtLeast(saturating_sub(parentFee, FeeDelta(parentFee, target - gasUsed, target)),
                 MinBaseFee)

effective_gas_price(maxFee, baseFee, priorityFee) ==
  AtMost(saturating_add(baseFee, priorityFee), maxFee)

base_fee_share(gasUsed, baseFee) == gasUsed * baseFee
=============================================================================
