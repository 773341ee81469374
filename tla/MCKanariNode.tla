---------------------------- MODULE MCKanariNode ----------------------------
(***************************************************************************)
(* Small instances of KanariNode.  The block gas limit is 4, so the gas    *)
(* target is 2: a full block raises the base fee from 16 to 18, a          *)
(* one-unit block lowers it to 15.                                         *)
(***************************************************************************)
EXTENDS KanariNode

CONSTANTS alice, treasury, bob   \* a funded account, the beneficiary, a bystander
CONSTANTS x          \* one storage slot
CONSTANTS k1, k2     \* faucet secrets

MCAddr == {alice, treasury, bob}
MCSlot == {x}

\* One signed transaction.
Signed(form, from, to, nonce, value, gas, maxFee, tip, chain, kind) ==
  [from |-> from, to |-> to, nonce |-> nonce, value |-> value, gas |-> gas,
   maxFee |-> maxFee, tip |-> tip, chain |-> chain, kind |-> kind,
   form |-> form]

Pay == Signed("eip1559", alice, bob, 0, 5, 1, 20, 2, 1, "transfer")
Stamp == Signed("eip7702", alice, treasury, 1, 0, 4, 18, 1, 1, "stamp")
Collect == Signed("legacy", treasury, bob, 0, 3, 1, 18, 18, 1, "revert")
Elsewhere == Signed("legacy", alice, bob, 0, 5, 1, 20, 20, 2, "transfer")

MCTx == {Pay, Stamp, Collect, Elsewhere}
FewTx == {Pay, Stamp, Collect}

NoStorage == [s \in MCSlot |-> Unloaded]

ChainSpec(chain, alloc, fee, storage) ==
  [chain |-> chain, alloc |-> alloc, baseFee |-> fee, storage |-> storage]

Devnet == ChainSpec(1, <<<<alice, 200>>, <<treasury, 40>>>>, 16, NoStorage)
OtherAlloc == ChainSpec(1, <<<<alice, 150>>, <<treasury, 30>>>>, 15, NoStorage)
OtherChain == ChainSpec(2, <<<<alice, 200>>, <<treasury, 40>>>>, 16, NoStorage)
Forked == ChainSpec(1, <<<<alice, 200>>, <<treasury, 40>>>>, 16, [s \in MCSlot |-> 7])

MCSpecs == {Devnet, OtherAlloc, OtherChain, Forked}
\* --faucet given twice for one address appends two entries.
TwiceFunded == ChainSpec(1, <<<<alice, 200>>, <<bob, 5>>, <<bob, 7>>>>, 16, NoStorage)
TwiceFundedOnly == {TwiceFunded}

FewSpecs == {Devnet, OtherChain, Forked}

(***************************************************************************)
(* A journal written before state roots and dynamic fees existed: both     *)
(* blocks have the flat fee 16, and no root.                               *)
(***************************************************************************)
LegacyBlock(bs, tx, timestamp) ==
  LET parent == next_parent_hash(bs) IN
  [number |-> Len(bs) + 1, timestamp |-> timestamp,
   hash |-> block_hash(parent, Len(bs) + 1, timestamp), parent |-> parent,
   tx |-> tx, root |-> NoRoot, fee |-> 16]

LegacyBlocks ==
  LET first == LegacyBlock(<<>>, Pay, 1) IN
  <<first, LegacyBlock(<<first>>, Stamp, 2)>>

LegacyStates ==
  LET s0 == apply_genesis(Devnet)
      s1 == StateAfter(s0, Pay, 1, 16)
  IN  <<s0, s1, StateAfter(s1, Stamp, 2, 16)>>

NoJournals == {}

MCJournals ==
  {[chain |-> 1, alloc |-> Devnet.alloc, blocks |-> LegacyBlocks, key |-> k1,
    states |-> LegacyStates]}
=============================================================================
