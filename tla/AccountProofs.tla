---------------------------- MODULE AccountProofs ---------------------------
(***************************************************************************)
(* What balances add up to, and what is read from a chain, in every state  *)
(* a node reaches: the lemmas of AccountLemmas hold in the states that the *)
(* invariants allow, and KanariNodeProofs proves the invariants.           *)
(***************************************************************************)
EXTENDS KanariNodeProofs, AccountLemmas

\* Nothing is minted or burned, whatever faults happen: the balances always
\* sum to what genesis gave out.
THEOREM SupplyAlwaysConserved == Spec => []SupplyConserved
<1>1. Init => SupplyConserved
  BY Zenon DEF Init, SupplyConserved
<1> QED
  BY <1>1, StepSupply, AlwaysIInv, PTL DEF Spec

\* A client that follows parentHash from the head meets every block once, in
\* order, down to the synthetic genesis, and each state root on the way is the
\* digest of the state that block left behind.
THEOREM WalkAlwaysReachesGenesis == Spec => []WalkReachesGenesis
  BY WalkIsComplete, AlwaysIInv, AlwaysFInv, AlwaysGenesis, PTL

\* Adding up the receipts gives every account the balance that eth_getBalance
\* reports, for old blocks too after the fee has moved on and after a replay,
\* once EIP-1559 transactions are counted at the maximum fee they were charged.
THEOREM ReceiptsAddUp == Spec => []ReceiptsMissOnlyHeadroom
  BY ReceiptsAccount, AlwaysIInv, AlwaysFInv, AlwaysGenesis, PTL

\* Drips are transactions like any other: the node with a faucet is the node.
THEOREM DripsAreTransactions == DripSpec => Spec
<1>1. DripNext => Next
  <2> SUFFICES ASSUME NEW to \in Addr, NEW amount \in 0 .. FaucetCap, NEW now \in Time,
                      Drip(to, amount, now)
               PROVE  Next
    BY Zenon DEF DripNext
  <2>1. faucet(to, amount) \in Tx /\ SendRawTransaction(faucet(to, amount), now)
    BY Zenon DEF Drip
  <2> QED BY Zenon, <2>1 DEF Next
<1>2. [DripNext]_vars => [Next]_vars
  BY Zenon, <1>1
<1> QED BY <1>2, PTL DEF DripSpec, Spec

\* The fee bounds hold throughout.
LEMMA AlwaysBounded == Spec => []FeeBounded
  BY InitBounded, StepBounded, AlwaysIInv, PTL DEF Spec

\* "sealing immediately" (faucet.rs): a drip that passes the faucet's own checks
\* is never refused by send_raw_transaction, whatever faults have happened, and
\* pays the receiver the amount.
THEOREM DripsAlwaysSeal == Spec => []GrantedDripsSeal
  BY DripsSealable, AlwaysIInv, AlwaysBounded, PTL

\* As long as the beneficiary spends nothing, debug_traceTransaction misses the
\* credits of the base-fee shares and nothing else: it runs on the state the
\* block was sealed on but for them, and reports the receipt's gas and outcome.
THEOREM TraceAlwaysMissesOnlyCredits == Spec => []TraceMissesOnlyCredits
  BY TraceMisses, AlwaysIInv, AlwaysFInv, AlwaysGenesis, PTL
=============================================================================
