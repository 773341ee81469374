------------------------------- MODULE Trace -------------------------------
(***************************************************************************)
(* debug_traceTransaction (crates/move-execution/src/trace.rs): the blocks *)
(* before the traced one are executed again, from genesis, in a scratch    *)
(* database, and the traced transaction is run on what results.  It reads  *)
(* the node and changes nothing, so it is a function of the node's state.  *)
(***************************************************************************)
EXTENDS KanariNode

CONSTANT Refused   \* an execution in the scratch database failed

TraceResult == [pre: Db, gas: Nat, failed: BOOLEAN]

ASSUME TraceAssumption == Refused \notin Db \cup TraceResult

\* transact_raw in the scratch database: no no-burn credit follows it.
TraceStep(scratch, block) ==
  IF scratch = Refused \/ ~Decodes(block.tx, spec.chain)
       \/ ~Admissible(scratch, block.tx, block.fee)
  THEN Refused
  ELSE transact_raw(scratch, block.tx, block.timestamp, block.fee)

\* Mutant of PreBlockState: the blocks are selected with <= instead of <.
PostBlockState(number) ==
  LET after[n \in 0 .. number] ==
        IF n = 0 THEN apply_genesis(spec) ELSE TraceStep(after[n - 1], blocks[n])
  IN  after[number]

\* The scratch database once every block numbered below number was executed.
PreBlockState(number) ==
  LET after[n \in 0 .. number - 1] ==
        IF n = 0 THEN apply_genesis(spec) ELSE TraceStep(after[n - 1], blocks[n])
  IN  after[number - 1]

\* trace_transaction for a transaction with a receipt, or Refused.
trace_transaction(tx) ==
  LET block == blocks[receipts[tx].number]
      scratch == PreBlockState(block.number)
  IN  IF TraceStep(scratch, block) = Refused THEN Refused
      ELSE [pre |-> scratch, gas |-> tx.gas, failed |-> ~Succeeds(tx)]

-----------------------------------------------------------------------------
Traceable == {tx \in Tx : receipts[tx] # NoReceipt}

\* The transactions up to block number whose sender is the beneficiary.
FromBeneficiary(number) == \E n \in 1 .. number : blocks[n].tx.from = Beneficiary

\* The base-fee shares the beneficiary was credited with before block number.
Credited(number) ==
  SumFunction([n \in 1 .. number - 1 |-> base_fee_share(blocks[n].tx.gas, blocks[n].fee)])

\* As long as the beneficiary spends nothing, a trace differs from the sealed
\* execution in one number only: it runs on the state the block was sealed on,
\* but for the base-fee shares that the beneficiary was credited with, and
\* reports the gas and the outcome of the receipt.
TraceMissesOnlyCredits ==
  faults = {} /\ status = "up" =>
    \A tx \in Traceable :
      LET number == receipts[tx].number
          trace == trace_transaction(tx)
      IN  ~FromBeneficiary(number) =>
            /\ trace # Refused
            /\ credit_beneficiary(trace.pre, Credited(number)) = hist[number - 1]
            /\ trace.gas = receipts[tx].gas /\ trace.failed = ~receipts[tx].success

\* trace.rs: trace_transaction "rebuilds the exact pre-block state in a scratch
\* database", so every sealed transaction can be traced, on the state it was
\* sealed on.
TraceIsExact ==
  faults = {} /\ status = "up" =>
    \A tx \in Traceable :
      /\ trace_transaction(tx) # Refused
      /\ trace_transaction(tx).pre = hist[receipts[tx].number - 1]
=============================================================================
