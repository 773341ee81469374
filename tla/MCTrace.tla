------------------------------ MODULE MCTrace ------------------------------
(* The node with its read side (Trace, Views) and its faucet, over the     *)
(* instances of MCKanariNode.                                              *)
EXTENDS MCKanariNode, Trace, Views, Faucet

\* One secret is the funded account's, the other the beneficiary's.
MCKeyAccount == [k \in {k1, k2} |-> IF k = k1 THEN alice ELSE treasury]

\* What alice's faucet signs for bob on a fresh chain.
FirstDrip == Signed("eip1559", alice, bob, 0, 4, 1, 16, 16, 1, "transfer")

TxAndDrip == MCTx \cup {FirstDrip}
=============================================================================
