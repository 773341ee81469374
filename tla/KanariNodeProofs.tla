-------------------------- MODULE KanariNodeProofs --------------------------
(***************************************************************************)
(* The properties of KanariNode for every set of specs, journals,          *)
(* transactions, clock values and faults.  First every action preserves    *)
(* the inductive invariant (module NodeInvariant), and the theorems that   *)
(* hold whatever faults happen.  Then the chain a data directory stands    *)
(* for as long as no fault has happened: replay reproduces it block by     *)
(* block, on the states it was sealed on, and the node implements an       *)
(* append-only ledger with outages.                                        *)
(***************************************************************************)
EXTENDS NodeInvariant

USE Zenon

(* Sealing a block. *)

\* Genesis is a state.
LEMMA GenesisType == ASSUME NEW s \in SpecType PROVE apply_genesis(s) \in Db
<1>1. \A a \in Addr : AllocatedTo(s.alloc, a) \in Nat
  <2> TAKE a \in Addr
  <2> DEFINE last == {i \in DOMAIN s.alloc :
                        /\ s.alloc[i][1] = a
                        /\ \A j \in DOMAIN s.alloc : s.alloc[j][1] = a => j <= i}
  <2>1. CASE last = {}
    BY <2>1 DEF AllocatedTo
  <2>2. CASE last # {}
    <3>1. PICK i \in DOMAIN s.alloc : i = CHOOSE k \in last : TRUE
      BY <2>2
    <3>2. s.alloc[i][2] \in Nat
      BY SMT, <3>1 DEF SpecType, AllocType
    <3> QED
      BY <2>2, <3>1, <3>2 DEF AllocatedTo
  <2> QED
    BY <2>1, <2>2
<1> QED
  BY <1>1 DEF apply_genesis, Db, SpecType

\* A transaction that revm admits is in no block of memory: those have used
\* up their nonces.
LEMMA AdmissibleIsNew ==
  ASSUME TypeOK, SessionOK, NEW tx \in Tx, NEW fee, Sealable(tx, fee)
  PROVE  \A n \in 1 .. Len(blocks) : blocks[n].tx # tx
<1> SUFFICES ASSUME NEW n \in 1 .. Len(blocks), blocks[n].tx = tx PROVE FALSE
  OBVIOUS
<1>1. tx.nonce = db.nonce[tx.from] /\ tx.nonce < db.nonce[tx.from]
  BY DEF SessionOK, Sealable, Admissible
<1> QED
  BY SMT, <1>1, TxFields

\* save_block of a block on top of memory: the store is a chain again, and
\* m:height points at the new block.
LEMMA SaveKeepsStore ==
  ASSUME TypeOK, StoreOK, SessionOK, Len(blocks) < MaxBlocks,
         NEW tx \in Tx, NEW now \in Nat, NEW fee \in 0 .. U64Modulus - 1,
         Sealable(tx, fee), metaChain' = metaChain,
         save_block(BlockOf(db, blocks, tx, Len(blocks) + 1, now, fee))
  PROVE  /\ StoreOK' /\ height' = Len(blocks) + 1 /\ height' \in 0 .. MaxBlocks
         /\ stored' \in [1 .. MaxBlocks -> Block \cup {NoBlock}]
         /\ storedReceipts' \in [Tx -> Receipt \cup {NoReceipt}]
         /\ \A n \in 1 .. Len(blocks) :
              /\ stored'[n] = blocks[n]
              /\ storedReceipts'[blocks[n].tx] = storedReceipts[blocks[n].tx]
<1> DEFINE top == Len(blocks) + 1
           b == BlockOf(db, blocks, tx, top, now, fee)
<1>0. /\ Len(blocks) \in Nat /\ top \in Nat /\ top \in 1 .. MaxBlocks /\ MaxBlocks \in Nat
      /\ db \in Db /\ blocks \in Seq(Block) /\ Len(blocks) <= height /\ height \in Nat
  BY SMT, NodeAssumption, LenProperties DEF TypeOK, SessionOK
<1>1. /\ b \in Block /\ b.number = top /\ b.tx = tx /\ ReceiptOf(b) \in Receipt
      /\ b.parent = IF blocks = <<>> THEN genesis_hash ELSE blocks[Len(blocks)].hash
      /\ b.hash = block_hash(b.parent, top, b.timestamp)
  <2>1. BlockArgs(db, blocks, tx, top, now, fee)
    BY <1>0 DEF Sealable, BlockArgs, SealArgs
  <2> QED
    BY SMT, <2>1, BlockOfType
<1> HIDE DEF b
<1>2. /\ stored' = [stored EXCEPT ![top] = b] /\ height' = top
      /\ storedReceipts' = [storedReceipts EXCEPT ![tx] = ReceiptOf(b)]
  BY <1>1 DEF save_block, b
<1>3. /\ stored' \in [1 .. MaxBlocks -> Block \cup {NoBlock}] /\ stored'[top] = b
      /\ storedReceipts' \in [Tx -> Receipt \cup {NoReceipt}]
  BY <1>0, <1>1, <1>2 DEF TypeOK
<1>4. \A n \in 1 .. Len(blocks) : stored'[n] = stored[n] /\ stored[n] = blocks[n]
  <2> TAKE n \in 1 .. Len(blocks)
  <2>1. n \in 1 .. MaxBlocks /\ n # top
    BY SMT, <1>0
  <2>2. stored[n] = blocks[n]
    BY DEF SessionOK
  <2> QED
    BY <1>2, <2>1, <2>2 DEF TypeOK
<1>5. \A n \in 1 .. Len(blocks) :
        storedReceipts'[blocks[n].tx] = storedReceipts[blocks[n].tx]
  <2> TAKE n \in 1 .. Len(blocks)
  <2>1. blocks[n].tx # tx /\ blocks[n].tx \in Tx
    BY <1>0, AdmissibleIsNew, ElementOfSeq, BlockFields
  <2> QED
    BY <1>2, <2>1 DEF TypeOK
<1>6. \A n \in 1 .. top :
        /\ stored'[n] \in Block /\ stored'[n].number = n
        /\ stored'[n].parent = IF n = 1 THEN genesis_hash ELSE stored'[n - 1].hash
        /\ stored'[n].hash = block_hash(stored'[n].parent, n, stored'[n].timestamp)
        /\ stored'[n].tx.chain = metaChain
  <2> TAKE n \in 1 .. top
  <2>1. CASE n = top
    <3>1. b.tx.chain = metaChain
      BY <1>1 DEF Sealable, Decodes, SessionOK
    <3>2. b.parent = IF top = 1 THEN genesis_hash ELSE stored'[top - 1].hash
      <4>1. CASE blocks = <<>>
        BY SMT, <1>1, <4>1
      <4>2. CASE blocks # <<>>
        <5>1. Len(blocks) \in 1 .. Len(blocks) /\ top # 1 /\ top - 1 = Len(blocks)
          BY SMT, <1>0, <4>2, EmptySeq
        <5> QED
          BY <1>1, <1>4, <4>2, <5>1
      <4> QED
        BY <4>1, <4>2
    <3> QED
      BY <1>1, <1>3, <2>1, <3>1, <3>2
  <2>2. CASE n # top
    <3>1. n \in 1 .. Len(blocks) /\ n \in 1 .. height
      BY SMT, <1>0, <2>2
    <3>2. n # 1 => n - 1 \in 1 .. Len(blocks)
      BY SMT, <1>0, <3>1
    <3> QED
      BY SMT, <1>4, <3>1, <3>2 DEF StoreOK
  <2> QED
    BY <2>1, <2>2
<1>7. \A m, n \in 1 .. top : stored'[m].tx = stored'[n].tx => m = n
  <2> SUFFICES ASSUME NEW m \in 1 .. top, NEW n \in 1 .. top,
                      stored'[m].tx = stored'[n].tx
               PROVE  m = n
    OBVIOUS
  <2>1. \A k \in 1 .. Len(blocks) : stored'[k].tx # tx
    BY <1>4, AdmissibleIsNew
  <2>2. CASE m = top \/ n = top
    BY SMT, <1>0, <1>1, <1>3, <2>1, <2>2
  <2>3. CASE m # top /\ n # top
    <3>1. /\ m \in 1 .. Len(blocks) /\ n \in 1 .. Len(blocks)
          /\ m \in 1 .. height /\ n \in 1 .. height
      BY SMT, <1>0, <2>3
    <3> QED
      BY <1>4, <3>1 DEF StoreOK
  <2> QED
    BY <2>2, <2>3
<1>8. metaChain # NoChain
  BY NodeAssumption DEF SessionOK, TypeOK, SpecType
<1>9. StoreOK'
  BY <1>2, <1>6, <1>7, <1>8 DEF StoreOK
<1> QED
  BY SMT, <1>0, <1>2, <1>3, <1>4, <1>5, <1>9

\* seal_raw_with_fee: memory follows the store.
LEMMA SealKeepsSession ==
  ASSUME TypeOK, StoreOK, SessionOK, Len(blocks) < MaxBlocks,
         NEW tx \in Tx, NEW now \in Nat, NEW fee \in 0 .. U64Modulus - 1,
         Sealable(tx, fee), metaChain' = metaChain, spec' = spec,
         seal_raw_with_fee(tx, Len(blocks) + 1, now, fee)
  PROVE  /\ SessionOK' /\ StoreOK' /\ height' = Len(blocks')
         /\ Len(blocks') = Len(blocks) + 1
         /\ db' \in Db /\ blocks' \in Seq(Block)
         /\ receipts' \in [Tx -> Receipt \cup {NoReceipt}]
         /\ height' \in 0 .. MaxBlocks
         /\ stored' \in [1 .. MaxBlocks -> Block \cup {NoBlock}]
         /\ storedReceipts' \in [Tx -> Receipt \cup {NoReceipt}]
<1> DEFINE top == Len(blocks) + 1
           b == BlockOf(db, blocks, tx, top, now, fee)
<1>0. /\ Len(blocks) \in Nat /\ top \in Nat /\ top \in 1 .. MaxBlocks
      /\ db \in Db /\ blocks \in Seq(Block)
  BY SMT, NodeAssumption, LenProperties DEF TypeOK
<1>1. /\ save_block(b) /\ db' = StateAfter(db, tx, now, fee)
      /\ blocks' = Append(blocks, b)
      /\ receipts' = [receipts EXCEPT ![tx] = ReceiptOf(b)]
  BY DEF seal_raw_with_fee
<1>a. BlockArgs(db, blocks, tx, top, now, fee)
  BY <1>0 DEF Sealable, BlockArgs, SealArgs
<1>2. b \in Block /\ b.number = top /\ b.tx = tx /\ ReceiptOf(b) \in Receipt
  BY SMT, <1>a, BlockOfType
<1>3. /\ db' \in Db /\ db'.nonce = [db.nonce EXCEPT ![tx.from] = @ + 1]
  <2>1. SealArgs(db, tx, now, fee)
    BY <1>a DEF BlockArgs
  <2>2. UsesNonce(db, tx, StateAfter(db, tx, now, fee))
    BY SMT, <2>1, StateAfterType
  <2> QED
    BY <1>1, <2>2 DEF UsesNonce
<1>4. /\ StoreOK' /\ height' = top /\ height' \in 0 .. MaxBlocks
      /\ stored' \in [1 .. MaxBlocks -> Block \cup {NoBlock}]
      /\ storedReceipts' \in [Tx -> Receipt \cup {NoReceipt}]
      /\ \A n \in 1 .. Len(blocks) :
           /\ stored'[n] = blocks[n]
           /\ storedReceipts'[blocks[n].tx] = storedReceipts[blocks[n].tx]
  BY <1>1, SaveKeepsStore
<1>5. /\ stored'[top] = b /\ storedReceipts'[tx] = ReceiptOf(b)
  BY <1>0, <1>1, <1>2 DEF save_block, TypeOK
<1> HIDE DEF b
<1>6. /\ blocks' \in Seq(Block) /\ Len(blocks') = top /\ blocks'[top] = b
      /\ \A n \in 1 .. Len(blocks) : blocks'[n] = blocks[n]
  BY SMT, <1>0, <1>1, <1>2, AppendProperties
<1>7. receipts' \in [Tx -> Receipt \cup {NoReceipt}]
  BY <1>1, <1>2 DEF TypeOK
<1>8. \A n \in 1 .. top :
        /\ blocks'[n] = stored'[n]
        /\ blocks'[n].tx.nonce < db'.nonce[blocks'[n].tx.from]
        /\ receipts'[blocks'[n].tx] = ReceiptOf(blocks'[n])
        /\ storedReceipts'[blocks'[n].tx] = ReceiptOf(blocks'[n])
  <2> TAKE n \in 1 .. top
  <2>0. db.nonce \in [Addr -> Nat]
    BY <1>0 DEF Db
  <2>1. CASE n = top
    <3>1. tx.nonce = db.nonce[tx.from] /\ tx.from \in Addr /\ tx.nonce \in Nat
      BY TxFields DEF Sealable, Admissible
    <3>2. tx.nonce < db'.nonce[tx.from]
      BY SMT, <1>3, <2>0, <3>1
    <3>3. receipts'[tx] = ReceiptOf(b)
      BY <1>1 DEF TypeOK
    <3> QED
      BY <1>2, <1>5, <1>6, <2>1, <3>2, <3>3
  <2>2. CASE n # top
    <3>1. n \in 1 .. Len(blocks)
      BY SMT, <1>0, <2>2
    <3>2. blocks[n] \in Block /\ blocks[n].tx \in Tx /\ blocks[n].tx # tx
      BY <1>0, <3>1, AdmissibleIsNew, ElementOfSeq, BlockFields
    <3>3. receipts'[blocks[n].tx] = receipts[blocks[n].tx]
      BY <1>1, <3>2 DEF TypeOK
    <3>4. db.nonce[blocks[n].tx.from] <= db'.nonce[blocks[n].tx.from]
      BY SMT, <1>3, <2>0, <3>2, TxFields
    <3>5. blocks[n].tx.nonce < db'.nonce[blocks[n].tx.from]
      <4>1. /\ blocks[n].tx.nonce \in Nat /\ db.nonce[blocks[n].tx.from] \in Nat
            /\ db'.nonce[blocks[n].tx.from] \in Nat
        BY <1>3, <2>0, <3>2, TxFields DEF Db
      <4>2. blocks[n].tx.nonce < db.nonce[blocks[n].tx.from]
        BY <3>1 DEF SessionOK
      <4> QED
        BY SMT, <3>4, <4>1, <4>2
    <3> QED
      BY SMT, <1>4, <1>6, <3>1, <3>3, <3>5 DEF SessionOK
  <2> QED
    BY <2>1, <2>2
<1>9. \A t \in Tx : receipts'[t] # NoReceipt =>
        \E n \in 1 .. top : blocks'[n].tx = t
  <2> SUFFICES ASSUME NEW t \in Tx, receipts'[t] # NoReceipt
               PROVE  \E n \in 1 .. top : blocks'[n].tx = t
    OBVIOUS
  <2>1. CASE t = tx
    BY SMT, <1>0, <1>2, <1>6, <2>1
  <2>2. CASE t # tx
    <3>1. receipts[t] # NoReceipt
      BY <1>1, <2>2 DEF TypeOK
    <3>2. PICK n \in 1 .. Len(blocks) : blocks[n].tx = t
      BY <3>1 DEF SessionOK
    <3> QED
      BY SMT, <1>0, <1>6, <3>2
  <2> QED
    BY <2>1, <2>2
<1>10. metaChain' = spec'.chain
  BY DEF SessionOK
<1>11. SessionOK'
  BY SMT, <1>0, <1>4, <1>6, <1>8, <1>9, <1>10 DEF SessionOK
<1> QED
  BY <1>3, <1>4, <1>6, <1>7, <1>11

-----------------------------------------------------------------------------
(* Every action preserves the invariant. *)

VolatileType ==
  /\ status \in Status /\ spec \in SpecType /\ db \in Db
  /\ blocks \in Seq(Block) /\ todo \in Seq(Block)
  /\ receipts \in [Tx -> Receipt \cup {NoReceipt}]
  /\ faucetKey \in Keys \cup {NoKey}

\* Once the process is gone only the database matters.
LEMMA ExitPhase ==
  ASSUME NEW how \in {"down", "rejected", "diverged"}, Exit(how)
  PROVE  PhaseOK' /\ VolatileType'
<1>1. VolatileType'
  BY EmptyTypes DEF Exit, VolatileType, Status
<1>2. PhaseOK'
  BY DEF Exit, PhaseOK, Running
<1> QED
  BY <1>1, <1>2

\* StoreOK speaks of the chain id and the stored blocks only.
LEMMA StoreUnchanged ==
  ASSUME StoreOK, UNCHANGED <<metaChain, chainData>>
  PROVE  StoreOK'
  BY DEF StoreOK, chainData

\* Recording a fault keeps the set of faults well typed.
LEMMA FaultType ==
  ASSUME TypeOK, NEW kind \in FaultKind, Fault(kind)
  PROVE  faults' \subseteq FaultKind
  BY DEF TypeOK, Fault

\* Recording a state keeps the history well typed.
LEMMA RecordType ==
  ASSUME TypeOK, NEW number \in 0 .. MaxBlocks, NEW state \in Db,
         Record(number, state)
  PROVE  hist' \in [0 .. MaxBlocks -> Db]
  BY DEF TypeOK, Record

\* Stored allocations replace those of the spec and leave its chain id.
LEMMA SpecWithAllocType ==
  ASSUME NEW s \in SpecType, NEW alloc \in AllocType
  PROVE  /\ SpecWithAlloc(s, alloc) \in SpecType
         /\ SpecWithAlloc(s, alloc).chain = s.chain
         /\ SpecWithAlloc(s, alloc).alloc \in AllocType
  BY DEF SpecWithAlloc, SpecType

-----------------------------------------------------------------------------
(* The node starts in the invariant; opening, migrating, replaying and      *)
(* crashing keep it.                                                        *)

\* An empty directory, or one with a legacy journal, satisfies the invariant.
LEMMA InitIInv == Init => IInv
<1> SUFFICES ASSUME Init PROVE IInv
  OBVIOUS
<1>1. height = 0 /\ 1 .. height = {}
  BY SMT DEF Init, EmptyStore
<1>2. StoreOK
  BY <1>1 DEF StoreOK
<1>3. PhaseOK
  BY DEF Init, PhaseOK, Running
<1>4. /\ journal \in Journals \cup {NoJournal} /\ sidecar \in Keys \cup {NoKey}
      /\ hist \in [0 .. MaxBlocks -> Db] /\ acked \subseteq (1 .. MaxBlocks) \X Hash \X Tx
  <2>1. CASE journal = NoJournal /\ sidecar = NoKey /\ acked = {}
             /\ hist = [n \in 0 .. MaxBlocks |-> EmptyDb]
    BY <2>1, EmptyTypes
  <2>2. ASSUME NEW j \in Journals, journal = j, sidecar = j.key,
               acked = {Id(b) : b \in Range(j.blocks)},
               hist = [n \in 0 .. MaxBlocks |->
                        IF n < Len(j.states) THEN j.states[n + 1] ELSE EmptyDb]
        PROVE  /\ journal \in Journals /\ sidecar \in Keys \cup {NoKey}
               /\ hist \in [0 .. MaxBlocks -> Db]
               /\ acked \subseteq (1 .. MaxBlocks) \X Hash \X Tx
    <3>1. /\ j.key \in Keys \cup {NoKey} /\ j.states \in Seq(Db) /\ j.blocks \in Seq(Block)
      BY NodeAssumption DEF JournalType
    <3>2. \A n \in 0 .. MaxBlocks : n < Len(j.states) => j.states[n + 1] \in Db
      BY SMT, <3>1, NodeAssumption
    <3>3. \A b \in Range(j.blocks) : b \in Block
      BY SMT, <3>1 DEF Range
    <3>4. \A b \in Block : Id(b) \in (1 .. MaxBlocks) \X Hash \X Tx
      BY BlockFields DEF Id
    <3> QED
      BY <2>2, <3>1, <3>2, <3>3, <3>4, EmptyTypes
  <2> QED
    BY <2>1, <2>2 DEF Init
<1>5. TypeOK
  <2>1. 0 \in 0 .. MaxBlocks
    BY SMT, NodeAssumption
  <2>2. <<>> \in AllocType
    BY SMT DEF AllocType
  <2>3. [n \in 1 .. MaxBlocks |-> NoBlock] \in [1 .. MaxBlocks -> Block \cup {NoBlock}]
    OBVIOUS
  <2> QED
    BY <1>4, <2>1, <2>2, <2>3, EmptyTypes
    DEF Init, EmptyStore, TypeOK, Status
<1> QED
  BY <1>2, <1>3, <1>5 DEF IInv

\* open() on an empty directory.
LEMMA OpenFreshIInv ==
  ASSUME IInv, NEW s \in Specs, OpenFresh(s) PROVE IInv'
<1>0. TypeOK /\ StoreOK /\ PhaseOK /\ s \in SpecType
  BY NodeAssumption DEF IInv
<1>1. /\ height = 0 /\ blocks = <<>> /\ receipts = NoReceipts /\ todo = <<>>
      /\ UNCHANGED <<blocks, receipts, todo, storedKey, height, stored, storedReceipts,
                     journal, sidecar, acked, faults>>
      /\ metaChain' = s.chain /\ metaAlloc' = s.alloc /\ spec' = s /\ status' = "up"
      /\ db' = apply_genesis(s) /\ faucetKey' = storedKey
      /\ hist' = [hist EXCEPT ![0] = apply_genesis(s)]
  BY <1>0 DEF OpenFresh, StoreOK, PhaseOK, Running, chainData, legacy
<1>2. apply_genesis(s) \in Db /\ s.chain \in Nat /\ s.alloc \in AllocType
  BY <1>0, GenesisType DEF SpecType
<1>3. TypeOK'
  BY <1>0, <1>1, <1>2 DEF TypeOK, Status
<1>4. StoreOK'
  <2>1. 1 .. height' = {}
    BY SMT, <1>1
  <2> QED
    BY <1>1, <2>1 DEF StoreOK
<1>5. SessionOK' /\ Len(blocks') = height'
  <2>1. Len(blocks') = 0 /\ 1 .. Len(blocks') = {} /\ height' = 0
    BY SMT, <1>1, EmptyTypes
  <2>2. \A t \in Tx : receipts'[t] = NoReceipt
    BY <1>1 DEF NoReceipts
  <2> QED
    BY SMT, <1>1, <2>1, <2>2 DEF SessionOK
<1>6. PhaseOK'
  BY <1>1, <1>5 DEF PhaseOK, Running
<1> QED
  BY <1>3, <1>4, <1>6 DEF IInv

\* open() on a legacy journal, up to init_meta.
LEMMA OpenLegacyIInv ==
  ASSUME IInv, NEW s \in Specs, OpenLegacy(s) PROVE IInv'
<1> DEFINE known == SpecWithAlloc(s, journal.alloc)
<1>0. TypeOK /\ StoreOK /\ PhaseOK /\ s \in SpecType
  BY NodeAssumption DEF IInv
<1>1. /\ journal \in Journals /\ journal.alloc \in AllocType
  BY <1>0, NodeAssumption DEF OpenLegacy, TypeOK, JournalType
<1>2. known \in SpecType /\ known.alloc \in AllocType /\ known.chain \in Nat
  BY <1>0, <1>1, SpecWithAllocType DEF SpecType
<1>3. /\ UNCHANGED <<db, blocks, receipts, faucetKey, todo, storedKey, height, stored,
                     storedReceipts, journal, sidecar, hist, acked>>
      /\ metaChain' = known.chain /\ metaAlloc' = known.alloc /\ spec' = known
      /\ status' = "migrating" /\ metaChain = NoChain
      /\ status \in {"down", "rejected", "diverged"}
  BY DEF OpenLegacy, chainData, legacy
<1>4. faults' \subseteq FaultKind
  <2>1. "genesis_changed" \in FaultKind
    BY DEF FaultKind
  <2>2. CASE faults' = faults
    BY <1>0, <2>2 DEF TypeOK
  <2>3. CASE Fault("genesis_changed")
    BY <1>0, <2>1, <2>3, FaultType
  <2> QED
    BY <2>2, <2>3 DEF OpenLegacy
<1> HIDE DEF known
<1>5. TypeOK'
  BY <1>0, <1>2, <1>3, <1>4 DEF TypeOK, Status
<1>6. height = 0
  BY <1>0, <1>3 DEF StoreOK
<1>7. StoreOK'
  <2>1. 1 .. height' = {}
    BY SMT, <1>3, <1>6
  <2> QED
    BY <1>3, <1>6, <2>1 DEF StoreOK
<1>8. PhaseOK'
  BY <1>0, <1>1, <1>3, <1>6, NodeAssumption DEF PhaseOK, Running
<1> QED
  BY <1>5, <1>7, <1>8 DEF IInv

\* open() on a store that holds this chain: load_blocks hands replay the
\* whole chain.
LEMMA OpenStoredIInv ==
  ASSUME IInv, NEW s \in Specs, OpenStored(s) PROVE IInv'
<1> DEFINE known == SpecWithAlloc(s, metaAlloc)
<1>0. TypeOK /\ StoreOK /\ PhaseOK /\ s \in SpecType
  BY NodeAssumption DEF IInv
<1>1. /\ known \in SpecType /\ known.chain = s.chain /\ apply_genesis(known) \in Db
  BY <1>0, SpecWithAllocType, GenesisType DEF TypeOK
<1>2. /\ UNCHANGED <<blocks, receipts, faucetKey, metaChain, metaAlloc, storedKey, height,
                     stored, storedReceipts, journal, sidecar, hist, acked>>
      /\ spec' = known /\ db' = apply_genesis(known) /\ todo' = load_blocks
      /\ status' = "replaying" /\ metaChain = s.chain
      /\ status \in {"down", "rejected", "diverged"}
  BY DEF OpenStored, chainData, legacy, meta
<1>3. faults' \subseteq FaultKind
  <2>1. "genesis_changed" \in FaultKind
    BY DEF FaultKind
  <2>2. CASE faults' = faults
    BY <1>0, <2>2 DEF TypeOK
  <2>3. CASE Fault("genesis_changed")
    BY <1>0, <2>1, <2>3, FaultType
  <2> QED
    BY <2>2, <2>3 DEF OpenStored
<1> HIDE DEF known
<1>4. /\ load_blocks \in Seq(Block) /\ Len(load_blocks) = height
      /\ \A n \in 1 .. height : load_blocks[n] = stored[n]
  BY <1>0, LoadBlocks
<1>5. TypeOK'
  BY <1>0, <1>1, <1>2, <1>3, <1>4 DEF TypeOK, Status
<1>6. StoreOK'
  BY <1>0, <1>2 DEF StoreOK
<1>7. blocks' = <<>> /\ receipts' = NoReceipts /\ Len(blocks') = 0 /\ faucetKey' = NoKey
  BY <1>0, <1>2, EmptyTypes DEF PhaseOK, Running
<1>8. SessionOK'
  <2>1. 1 .. Len(blocks') = {} /\ 0 <= height'
    BY SMT, <1>0, <1>2, <1>7, NodeAssumption DEF TypeOK
  <2>2. \A t \in Tx : receipts'[t] = NoReceipt
    BY <1>7 DEF NoReceipts
  <2> QED
    BY <1>1, <1>2, <1>7, <2>1, <2>2 DEF SessionOK
<1>9. ReplayOK'
  BY SMT, <1>0, <1>2, <1>4, <1>7, NodeAssumption DEF ReplayOK, StoreOK, TypeOK
<1>10. PhaseOK'
  BY <1>2, <1>7, <1>8, <1>9 DEF PhaseOK, Running
<1> QED
  BY <1>5, <1>6, <1>10 DEF IInv

\* open() on another chain changes nothing durable.
LEMMA OpenRejectsIInv ==
  ASSUME IInv, NEW s \in Specs, OpenRejects(s) PROVE IInv'
<1>1. /\ Exit("rejected")
      /\ UNCHANGED <<metaChain, metaAlloc, storedKey, chainData, journal, sidecar, hist,
                     acked, faults>>
  BY DEF OpenRejects, meta, legacy, aux
<1>2. PhaseOK' /\ VolatileType'
  BY <1>1, ExitPhase
<1>3. StoreOK'
  BY <1>1, StoreUnchanged DEF IInv
<1>4. TypeOK'
  BY <1>1, <1>2 DEF IInv, TypeOK, VolatileType, chainData
<1> QED
  BY <1>2, <1>3, <1>4 DEF IInv

\* The migration stores the key of the faucet sidecar.
LEMMA MigrateKeyIInv == ASSUME IInv, MigrateKey PROVE IInv'
<1>0. TypeOK /\ StoreOK /\ PhaseOK
  BY DEF IInv
<1>1. /\ UNCHANGED <<spec, db, blocks, receipts, todo, metaChain, metaAlloc, chainData,
                     journal, sidecar, hist, acked, faults>>
      /\ status = "migrating" /\ status' = "renaming"
      /\ storedKey' = IF sidecar = NoKey THEN storedKey ELSE sidecar
      /\ faucetKey' = IF sidecar = NoKey THEN faucetKey ELSE sidecar
  BY DEF MigrateKey, meta, legacy, aux
<1>2. StoreOK'
  BY <1>0, <1>1, StoreUnchanged
<1>3. TypeOK'
  BY <1>0, <1>1 DEF TypeOK, chainData, Status
<1>4. PhaseOK'
  BY <1>0, <1>1 DEF PhaseOK, Running, chainData
<1> QED
  BY <1>2, <1>3, <1>4 DEF IInv

\* The migration renames the journal and hands its blocks to replay.
LEMMA RenameJournalIInv == ASSUME IInv, RenameJournal PROVE IInv'
<1>0. TypeOK /\ StoreOK /\ PhaseOK
  BY DEF IInv
<1>1. /\ UNCHANGED <<spec, blocks, receipts, faucetKey, metaChain, metaAlloc, storedKey,
                     chainData, hist, acked, faults>>
      /\ journal' = NoJournal /\ sidecar' = NoKey /\ todo' = journal.blocks
      /\ db' = apply_genesis(spec) /\ status' = "replaying" /\ status = "renaming"
  BY DEF RenameJournal, meta, aux
<1>2. /\ journal \in Journals /\ height = 0 /\ blocks = <<>> /\ receipts = NoReceipts
      /\ metaChain = spec.chain
  BY <1>0, <1>1 DEF PhaseOK, TypeOK, Running
<1>3. /\ journal.blocks \in Seq(Block) /\ Len(journal.blocks) <= MaxBlocks
      /\ \A i \in 1 .. Len(journal.blocks) : journal.blocks[i].number = i
  BY SMT, <1>2, NodeAssumption, JournalAssumption DEF JournalType, LinkedChain
<1>4. apply_genesis(spec) \in Db
  BY <1>0, GenesisType DEF TypeOK
<1>5. TypeOK'
  BY <1>0, <1>1, <1>3, <1>4 DEF TypeOK, chainData, Status
<1>6. StoreOK'
  BY <1>0, <1>1, StoreUnchanged
<1>7. /\ Len(blocks') = 0 /\ blocks' = <<>> /\ height' = 0 /\ Len(todo') \in Nat
  BY SMT, <1>1, <1>2, <1>3, EmptyTypes DEF chainData
<1>8. SessionOK'
  <2>1. 1 .. Len(blocks') = {}
    BY SMT, <1>7
  <2>2. \A t \in Tx : receipts'[t] = NoReceipt
    BY <1>1, <1>2 DEF NoReceipts
  <2> QED
    BY SMT, <1>1, <1>2, <1>7, <2>1, <2>2 DEF SessionOK
<1>9. ReplayOK'
  BY SMT, <1>1, <1>3, <1>7 DEF ReplayOK
<1>10. PhaseOK'
  BY <1>0, <1>1, <1>8, <1>9 DEF PhaseOK, Running
<1> QED
  BY <1>5, <1>6, <1>10 DEF IInv

\* The block replay takes next is numbered right after memory.
LEMMA NextReplayed ==
  ASSUME IInv, status = "replaying", todo # <<>>
  PROVE  /\ TypeOK /\ StoreOK /\ SessionOK /\ ReplayOK
         /\ Len(blocks) \in Nat /\ Len(todo) \in Nat \ {0} /\ Len(blocks) < MaxBlocks
         /\ Head(todo) \in Block /\ Head(todo) = todo[1]
         /\ Head(todo).number = Len(blocks) + 1
<1>1. TypeOK /\ StoreOK /\ SessionOK /\ ReplayOK
  BY DEF IInv, PhaseOK, Running
<1>2. blocks \in Seq(Block) /\ todo \in Seq(Block)
  BY <1>1 DEF TypeOK
<1>3. Len(blocks) \in Nat /\ Len(todo) \in Nat \ {0}
  BY <1>2, EmptySeq, LenProperties
<1>4. Head(todo) \in Block /\ Head(todo) = todo[1]
  BY SMT, <1>2, <1>3, HeadTailProperties, ElementOfSeq
<1>5. Head(todo).number = Len(blocks) + 1 /\ Len(blocks) < MaxBlocks
  BY SMT, <1>1, <1>3, <1>4, NodeAssumption DEF ReplayOK
<1> QED
  BY <1>1, <1>3, <1>4, <1>5

\* Replay seals a block again and cuts m:height back to it.
LEMMA ReplayBlockIInv == ASSUME IInv, ReplayBlock PROVE IInv'
<1> DEFINE b == Head(todo)
<1>1. /\ TypeOK /\ StoreOK /\ SessionOK /\ ReplayOK
      /\ Len(blocks) \in Nat /\ Len(todo) \in Nat \ {0} /\ Len(blocks) < MaxBlocks
      /\ b \in Block /\ b.number = Len(blocks) + 1
  BY NextReplayed DEF ReplayBlock
<1>2. /\ b.tx \in Tx /\ b.timestamp \in Nat /\ b.fee \in 0 .. U64Modulus - 1
  BY <1>1, BlockFields
<1>3. /\ Sealable(b.tx, b.fee)
      /\ seal_raw_with_fee(b.tx, Len(blocks) + 1, b.timestamp, b.fee)
      /\ todo' = Tail(todo) /\ status = "replaying"
      /\ UNCHANGED <<status, spec, faucetKey, metaChain, metaAlloc, storedKey, journal,
                     sidecar, hist, acked, faults>>
  BY <1>1 DEF ReplayBlock, ReplayFee, meta, legacy, aux
<1> HIDE DEF b
<1>4. /\ SessionOK' /\ StoreOK' /\ height' = Len(blocks')
      /\ Len(blocks') = Len(blocks) + 1
      /\ db' \in Db /\ blocks' \in Seq(Block)
      /\ receipts' \in [Tx -> Receipt \cup {NoReceipt}]
      /\ height' \in 0 .. MaxBlocks
      /\ stored' \in [1 .. MaxBlocks -> Block \cup {NoBlock}]
      /\ storedReceipts' \in [Tx -> Receipt \cup {NoReceipt}]
  BY <1>1, <1>2, <1>3, SealKeepsSession
<1>5. /\ todo' \in Seq(Block) /\ Len(todo') = Len(todo) - 1
      /\ \A i \in 1 .. Len(todo') : todo'[i] = todo[i + 1]
  BY <1>1, <1>3, EmptySeq, HeadTailProperties DEF TypeOK
<1>6. TypeOK'
  BY <1>1, <1>3, <1>4, <1>5 DEF TypeOK
<1>7. ReplayOK'
  <2>1. \A i \in 1 .. Len(todo') : todo'[i].number = Len(blocks') + i
    <3> TAKE i \in 1 .. Len(todo')
    <3>1. i + 1 \in 1 .. Len(todo) /\ i \in Nat
      BY SMT, <1>1, <1>5
    <3>2. todo[i + 1].number = Len(blocks) + (i + 1)
      BY <1>1, <3>1 DEF ReplayOK
    <3> QED
      BY SMT, <1>1, <1>4, <1>5, <3>1, <3>2
  <2>2. Len(blocks') + Len(todo') <= MaxBlocks
    BY SMT, <1>1, <1>4, <1>5, NodeAssumption DEF ReplayOK
  <2> QED
    BY <1>4, <2>1, <2>2 DEF ReplayOK
<1>8. PhaseOK'
  BY <1>3, <1>4, <1>7 DEF PhaseOK, Running, IInv
<1> QED
  BY <1>4, <1>6, <1>8 DEF IInv

\* Replay stops at a transaction that is refused.
LEMMA ReplayRefusedIInv == ASSUME IInv, ReplayRefused PROVE IInv'
<1>1. /\ Exit("diverged")
      /\ UNCHANGED <<metaChain, metaAlloc, storedKey, chainData, journal, sidecar, hist,
                     acked, faults>>
  BY DEF ReplayRefused, meta, legacy, aux
<1>2. PhaseOK' /\ VolatileType'
  BY <1>1, ExitPhase
<1>3. StoreOK'
  BY <1>1, StoreUnchanged DEF IInv
<1>4. TypeOK'
  BY <1>1, <1>2 DEF IInv, TypeOK, VolatileType, chainData
<1> QED
  BY <1>2, <1>3, <1>4 DEF IInv

\* Replay stops at a block that differs, after writing it: what the store then
\* holds is still a chain.
LEMMA ReplayDivergesIInv == ASSUME IInv, ReplayDiverges PROVE IInv'
<1> DEFINE b == Head(todo)
<1>1. /\ TypeOK /\ StoreOK /\ SessionOK
      /\ Len(blocks) \in Nat /\ Len(blocks) < MaxBlocks
      /\ b \in Block /\ b.number = Len(blocks) + 1
  BY NextReplayed DEF ReplayDiverges
<1>2. /\ b.tx \in Tx /\ b.timestamp \in Nat /\ b.fee \in 0 .. U64Modulus - 1
  BY <1>1, BlockFields
<1>3. /\ Sealable(b.tx, b.fee)
      /\ save_block(BlockOf(db, blocks, b.tx, Len(blocks) + 1, b.timestamp, b.fee))
      /\ Exit("diverged")
      /\ UNCHANGED <<metaChain, metaAlloc, storedKey, journal, sidecar, hist, acked, faults>>
  BY <1>1 DEF ReplayDiverges, ReplayFee, meta, legacy, aux
<1> HIDE DEF b
<1>4. /\ StoreOK' /\ height' \in 0 .. MaxBlocks
      /\ stored' \in [1 .. MaxBlocks -> Block \cup {NoBlock}]
      /\ storedReceipts' \in [Tx -> Receipt \cup {NoReceipt}]
  BY <1>1, <1>2, <1>3, SaveKeepsStore
<1>5. PhaseOK' /\ VolatileType'
  BY <1>3, ExitPhase
<1>6. TypeOK'
  BY <1>1, <1>3, <1>4, <1>5 DEF TypeOK, VolatileType
<1> QED
  BY <1>4, <1>5, <1>6 DEF IInv

\* open() returns.
LEMMA FinishOpenIInv == ASSUME IInv, FinishOpen PROVE IInv'
<1>0. TypeOK /\ StoreOK /\ PhaseOK
  BY DEF IInv
<1>1. /\ UNCHANGED <<spec, db, blocks, receipts, todo, metaChain, metaAlloc, storedKey,
                     chainData, journal, sidecar, hist, acked, faults>>
      /\ status = "replaying" /\ todo = <<>> /\ status' = "up"
      /\ faucetKey' = IF storedKey = NoKey THEN faucetKey ELSE storedKey
  BY DEF FinishOpen, meta, legacy, aux
<1>2. StoreOK'
  BY <1>0, <1>1, StoreUnchanged
<1>3. TypeOK'
  BY <1>0, <1>1 DEF TypeOK, chainData, Status
<1>4. SessionOK'
  BY <1>0, <1>1 DEF PhaseOK, Running, SessionOK, chainData
<1>5. Len(blocks') = height'
  BY <1>0, <1>1, EmptyTypes DEF PhaseOK, ReplayOK, chainData
<1>6. faucetKey' = storedKey'
  BY <1>0, <1>1 DEF PhaseOK
<1>7. PhaseOK'
  BY <1>1, <1>4, <1>5, <1>6 DEF PhaseOK, Running
<1> QED
  BY <1>2, <1>3, <1>7 DEF IInv

\* The process dies, at any point.
LEMMA CrashIInv == ASSUME IInv, Crash PROVE IInv'
<1>1. /\ Exit("down")
      /\ UNCHANGED <<metaChain, metaAlloc, storedKey, chainData, journal, sidecar, hist,
                     acked>>
  BY DEF Crash, meta, legacy
<1>2. PhaseOK' /\ VolatileType'
  BY <1>1, ExitPhase
<1>3. StoreOK'
  BY <1>1, StoreUnchanged DEF IInv
<1>4. faults' \subseteq FaultKind
  <2>1. "open_interrupted" \in FaultKind
    BY DEF FaultKind
  <2>2. CASE faults' = faults
    BY <2>2 DEF TypeOK, IInv
  <2>3. CASE Fault("open_interrupted")
    BY <2>1, <2>3, FaultType DEF IInv
  <2> QED
    BY <2>2, <2>3 DEF Crash
<1>5. TypeOK'
  BY <1>1, <1>2, <1>4 DEF IInv, TypeOK, VolatileType, chainData
<1> QED
  BY <1>2, <1>3, <1>5 DEF IInv

-----------------------------------------------------------------------------
(* Sealing, reading and the faucet key keep the invariant. *)

\* A transaction is sealed and answered.
LEMMA SendRawIInv ==
  ASSUME IInv, NEW tx \in Tx, NEW now \in Time, SendRawTransaction(tx, now)
  PROVE  IInv'
<1> DEFINE fee == AsU64(pending_base_fee)
           b == BlockOf(db, blocks, tx, Len(blocks) + 1, now, fee)
<1>1. /\ TypeOK /\ StoreOK /\ SessionOK
      /\ block_number(blocks) = Len(blocks) /\ Len(blocks) < MaxBlocks
      /\ Len(blocks) = height /\ height \in Nat /\ status = "up" /\ now \in Nat
      /\ fee \in 0 .. U64Modulus - 1 /\ Sealable(tx, fee) /\ Admissible(db, tx, fee)
  BY NextSealed, NodeAssumption DEF SendRawTransaction
<1>2. /\ seal_raw_with_fee(tx, Len(blocks) + 1, now, fee)
      /\ Record(Len(blocks) + 1, db')
      /\ acked' = IF faults = {} THEN acked \cup {Id(b)} ELSE acked
      /\ UNCHANGED <<status, spec, faucetKey, todo, metaChain, metaAlloc, storedKey,
                     journal, sidecar, faults>>
  BY <1>1 DEF SendRawTransaction, NextBlock, meta, legacy
<1>3. b \in Block
  <2>1. Len(blocks) + 1 \in 1 .. MaxBlocks
    BY SMT, <1>1, NodeAssumption
  <2>2. BlockArgs(db, blocks, tx, Len(blocks) + 1, now, fee)
    BY <1>1, <2>1 DEF TypeOK, BlockArgs, SealArgs
  <2> QED
    BY SMT, <2>2, BlockOfType
<1> HIDE DEF fee, b
<1>4. /\ SessionOK' /\ StoreOK' /\ height' = Len(blocks')
      /\ db' \in Db /\ blocks' \in Seq(Block)
      /\ receipts' \in [Tx -> Receipt \cup {NoReceipt}]
      /\ height' \in 0 .. MaxBlocks
      /\ stored' \in [1 .. MaxBlocks -> Block \cup {NoBlock}]
      /\ storedReceipts' \in [Tx -> Receipt \cup {NoReceipt}]
  BY <1>1, <1>2, SealKeepsSession
<1>5. hist' \in [0 .. MaxBlocks -> Db]
  BY SMT, <1>1, <1>2, <1>4, RecordType, NodeAssumption
<1>6. acked' \subseteq (1 .. MaxBlocks) \X Hash \X Tx
  <2>1. Id(b) \in (1 .. MaxBlocks) \X Hash \X Tx
    BY <1>3, BlockFields DEF Id
  <2> QED
    BY <1>1, <1>2, <2>1 DEF TypeOK
<1>7. TypeOK'
  BY <1>1, <1>2, <1>4, <1>5, <1>6 DEF TypeOK
<1>8. PhaseOK'
  BY <1>1, <1>2, <1>4 DEF PhaseOK, Running, IInv
<1> QED
  BY <1>4, <1>7, <1>8 DEF IInv

\* The process dies after save_block.
LEMMA SealUnansweredIInv ==
  ASSUME IInv, NEW tx \in Tx, NEW now \in Time, SealUnanswered(tx, now)
  PROVE  IInv'
<1> DEFINE fee == AsU64(pending_base_fee)
<1>1. /\ TypeOK /\ StoreOK /\ SessionOK
      /\ block_number(blocks) = Len(blocks) /\ Len(blocks) < MaxBlocks
      /\ Len(blocks) = height /\ height \in Nat /\ now \in Nat
      /\ fee \in 0 .. U64Modulus - 1 /\ Sealable(tx, fee) /\ Admissible(db, tx, fee)
  BY NextSealed, NodeAssumption DEF SealUnanswered
<1>2. /\ save_block(BlockOf(db, blocks, tx, Len(blocks) + 1, now, fee))
      /\ Record(Len(blocks) + 1, StateAfter(db, tx, now, fee)) /\ Exit("down")
      /\ UNCHANGED <<metaChain, metaAlloc, storedKey, journal, sidecar, acked, faults>>
  BY <1>1 DEF SealUnanswered, NextBlock, meta, legacy
<1> HIDE DEF fee
<1>3. /\ StoreOK' /\ height' \in 0 .. MaxBlocks
      /\ stored' \in [1 .. MaxBlocks -> Block \cup {NoBlock}]
      /\ storedReceipts' \in [Tx -> Receipt \cup {NoReceipt}]
  BY <1>1, <1>2, SaveKeepsStore
<1>4. hist' \in [0 .. MaxBlocks -> Db]
  <2>1. SealArgs(db, tx, now, fee)
    BY <1>1 DEF TypeOK, SealArgs
  <2>a. UsesNonce(db, tx, StateAfter(db, tx, now, fee))
    BY SMT, <2>1, StateAfterType
  <2>2. StateAfter(db, tx, now, fee) \in Db
    BY <2>a DEF UsesNonce
  <2> QED
    BY SMT, <1>1, <1>2, <2>2, RecordType, NodeAssumption
<1>5. PhaseOK' /\ VolatileType'
  BY <1>2, ExitPhase
<1>6. TypeOK'
  BY <1>1, <1>2, <1>3, <1>4, <1>5 DEF TypeOK, VolatileType
<1> QED
  BY <1>3, <1>5, <1>6 DEF IInv

\* A step that changes nothing but the EVM state, and lowers no nonce.
LEMMA StateMoves ==
  ASSUME IInv, status = "up", db' \in Db,
         \A a \in Addr : db.nonce[a] <= db'.nonce[a],
         faults' \subseteq FaultKind,
         UNCHANGED <<status, spec, blocks, receipts, faucetKey, todo, meta, storedKey,
                     chainData, legacy, hist, acked>>
  PROVE  IInv'
<1>0. TypeOK /\ StoreOK /\ PhaseOK /\ SessionOK
  BY DEF IInv, PhaseOK, Running
<1>1. UNCHANGED <<metaChain, metaAlloc, height, stored, storedReceipts, journal, sidecar>>
  BY DEF meta, chainData, legacy
<1>2. TypeOK'
  BY <1>0, <1>1 DEF TypeOK
<1>3. StoreOK'
  BY <1>0, <1>1 DEF StoreOK
<1>4. SessionOK'
  <2>1. \A n \in 1 .. Len(blocks) : blocks[n].tx.nonce < db'.nonce[blocks[n].tx.from]
    <3> TAKE n \in 1 .. Len(blocks)
    <3>1. blocks[n].tx \in Tx
      BY <1>0, ElementOfSeq, BlockFields DEF TypeOK
    <3>2. blocks[n].tx.from \in Addr /\ blocks[n].tx.nonce \in Nat
      BY <3>1, TxFields
    <3>3. /\ db.nonce[blocks[n].tx.from] \in Nat /\ db'.nonce[blocks[n].tx.from] \in Nat
      BY <1>0, <3>2 DEF TypeOK, Db
    <3>4. blocks[n].tx.nonce < db.nonce[blocks[n].tx.from]
      BY <1>0 DEF SessionOK
    <3> QED
      BY SMT, <3>2, <3>3, <3>4
  <2> QED
    BY <1>0, <1>1, <2>1 DEF SessionOK
<1>5. PhaseOK'
  BY <1>0, <1>1, <1>4 DEF PhaseOK, Running
<1> QED
  BY <1>2, <1>3, <1>5 DEF IInv

\* save_block fails: the state has moved on, and no nonce has gone back.
LEMMA SealFailsIInv ==
  ASSUME IInv, NEW tx \in Tx, NEW now \in Time, SealFails(tx, now)
  PROVE  IInv'
<1> DEFINE fee == AsU64(pending_base_fee)
<1>1. /\ TypeOK /\ status = "up" /\ now \in Nat
      /\ fee \in 0 .. U64Modulus - 1 /\ Admissible(db, tx, fee)
  BY NextSealed, NodeAssumption DEF SealFails
<1>2. /\ db' = StateAfter(db, tx, now, fee) /\ Fault("write_fails")
      /\ UNCHANGED <<status, spec, blocks, receipts, faucetKey, todo, meta, storedKey,
                     chainData, legacy, hist, acked>>
  BY DEF SealFails
<1> HIDE DEF fee
<1>3. /\ db' \in Db /\ db'.nonce = [db.nonce EXCEPT ![tx.from] = @ + 1]
  <2>1. SealArgs(db, tx, now, fee)
    BY <1>1 DEF TypeOK, SealArgs
  <2>2. UsesNonce(db, tx, StateAfter(db, tx, now, fee))
    BY SMT, <2>1, StateAfterType
  <2> QED
    BY <1>2, <2>2 DEF UsesNonce
<1>4. \A a \in Addr : db.nonce[a] <= db'.nonce[a]
  <2>1. db.nonce \in [Addr -> Nat]
    BY <1>1 DEF TypeOK, Db
  <2> QED
    BY SMT, <1>3, <2>1, TxFields
<1>5. faults' \subseteq FaultKind
  <2>1. "write_fails" \in FaultKind
    BY DEF FaultKind
  <2> QED
    BY <1>1, <1>2, <2>1, FaultType
<1> QED
  BY <1>1, <1>2, <1>3, <1>4, <1>5, StateMoves

\* A storage read changes the cache only.
LEMMA StorageOfIInv ==
  ASSUME IInv, NEW s \in Slot, StorageOf(s)
  PROVE  IInv'
<1>1. /\ TypeOK /\ status = "up" /\ db' = CacheSlot(db, s) /\ Fault("slot_read")
      /\ UNCHANGED <<status, spec, blocks, receipts, faucetKey, todo, meta, storedKey,
                     chainData, legacy, hist, acked>>
  BY DEF StorageOf, IInv
<1>2. db' \in Db /\ db'.nonce = db.nonce
  BY <1>1 DEF CacheSlot, TypeOK, Db
<1>3. \A a \in Addr : db.nonce[a] <= db'.nonce[a]
  BY SMT, <1>1, <1>2 DEF TypeOK, Db
<1>4. faults' \subseteq FaultKind
  <2>1. "slot_read" \in FaultKind
    BY DEF FaultKind
  <2> QED
    BY <1>1, <2>1, FaultType
<1> QED
  BY <1>1, <1>2, <1>3, <1>4, StateMoves

\* A call that commits nothing changes the cache only.
LEMMA CallIInv ==
  ASSUME IInv, NEW read \in SUBSET Slot, Call(read)
  PROVE  IInv'
<1>1. /\ TypeOK /\ status = "up" /\ db' = CacheSlots(db, read) /\ Fault("slot_read")
      /\ UNCHANGED <<status, spec, blocks, receipts, faucetKey, todo, meta, storedKey,
                     chainData, legacy, hist, acked>>
  BY DEF Call, IInv
<1>2. db' \in Db /\ db'.nonce = db.nonce
  BY <1>1 DEF CacheSlots, TypeOK, Db
<1>3. \A a \in Addr : db.nonce[a] <= db'.nonce[a]
  BY SMT, <1>1, <1>2 DEF TypeOK, Db
<1>4. faults' \subseteq FaultKind
  <2>1. "slot_read" \in FaultKind
    BY DEF FaultKind
  <2> QED
    BY <1>1, <2>1, FaultType
<1> QED
  BY <1>1, <1>2, <1>3, <1>4, StateMoves

\* A faucet key is stored and then kept in memory.
LEMMA SetFaucetKeyIInv ==
  ASSUME IInv, NEW k \in Keys, SetFaucetKey(k)
  PROVE  IInv'
<1>0. TypeOK /\ StoreOK /\ PhaseOK
  BY DEF IInv
<1>1. /\ UNCHANGED <<status, spec, db, blocks, receipts, todo, metaChain, metaAlloc,
                     chainData, journal, sidecar, hist, acked, faults>>
      /\ status = "up" /\ storedKey' = k /\ faucetKey' = k
  BY DEF SetFaucetKey, meta, legacy, aux
<1>2. StoreOK'
  BY <1>0, <1>1, StoreUnchanged
<1>3. TypeOK'
  BY <1>0, <1>1 DEF TypeOK, chainData
<1>4. SessionOK'
  BY <1>0, <1>1 DEF PhaseOK, Running, SessionOK, chainData
<1>5. PhaseOK'
  BY <1>0, <1>1, <1>4 DEF PhaseOK, Running, chainData
<1> QED
  BY <1>2, <1>3, <1>5 DEF IInv

\* A step that changes nothing.
LEMMA StutterIInv == ASSUME IInv, UNCHANGED vars PROVE IInv'
<1>0. TypeOK /\ StoreOK /\ PhaseOK
  BY DEF IInv
<1>1. UNCHANGED <<metaChain, metaAlloc, storedKey, height, stored, storedReceipts, journal,
                 sidecar, status, spec, db, blocks, receipts, faucetKey, todo, hist, acked,
                 faults>>
  BY DEF vars, meta, chainData, legacy, volatile, aux
<1>2. TypeOK'
  BY <1>0, <1>1 DEF TypeOK
<1>3. StoreOK'
  BY <1>0, <1>1 DEF StoreOK
<1>4. SessionOK = SessionOK' /\ ReplayOK = ReplayOK'
  BY <1>1 DEF SessionOK, ReplayOK
<1>5. PhaseOK'
  BY <1>0, <1>1, <1>4 DEF PhaseOK, Running
<1> QED
  BY <1>2, <1>3, <1>5 DEF IInv

\* Every step of the node, with faults or without, keeps the invariant.
THEOREM StepIInv == IInv /\ [Next]_vars => IInv'
<1> SUFFICES ASSUME IInv, [Next]_vars PROVE IInv'
  OBVIOUS
<1>1. ASSUME NEW s \in Specs, Open(s) PROVE IInv'
  BY <1>1, OpenFreshIInv, OpenLegacyIInv, OpenStoredIInv, OpenRejectsIInv DEF Open
<1>2. CASE Opening
  BY <1>2, MigrateKeyIInv, RenameJournalIInv, ReplayBlockIInv, ReplayRefusedIInv,
     ReplayDivergesIInv, FinishOpenIInv DEF Opening
<1>3. CASE Crash
  BY <1>3, CrashIInv
<1>4. ASSUME NEW tx \in Tx, NEW now \in Time,
             SendRawTransaction(tx, now) \/ SealUnanswered(tx, now) \/ SealFails(tx, now)
      PROVE  IInv'
  BY <1>4, SendRawIInv, SealUnansweredIInv, SealFailsIInv
<1>5. ASSUME NEW s \in Slot, StorageOf(s) PROVE IInv'
  BY <1>5, StorageOfIInv
<1>5a. ASSUME NEW read \in SUBSET Slot, Call(read) PROVE IInv'
  BY <1>5a, CallIInv
<1>6. ASSUME NEW k \in Keys, SetFaucetKey(k) PROVE IInv'
  BY <1>6, SetFaucetKeyIInv
<1>7. CASE UNCHANGED vars
  BY <1>7, StutterIInv
<1> QED
  BY <1>1, <1>2, <1>3, <1>4, <1>5, <1>5a, <1>6, <1>7 DEF Next

\* The invariant holds throughout.
LEMMA AlwaysIInv == Spec => []IInv
  BY InitIInv, StepIInv, PTL DEF Spec

-----------------------------------------------------------------------------
(* The theorems, whatever faults happen. *)

\* Everything the node holds keeps its type.
THEOREM TypeCorrect == Spec => []TypeOK
<1>1. IInv => TypeOK
  BY DEF IInv
<1> QED
  BY <1>1, AlwaysIInv, PTL

\* After every interruption, failed write and failed replay, the blocks that
\* m:height covers are a linked chain of the database's own chain id.
THEOREM StoreAlwaysChain == Spec => []StoreIsChain
<1>1. IInv => StoreIsChain
  <2> SUFFICES ASSUME IInv PROVE StoreIsChain
    OBVIOUS
  <2>1. TypeOK /\ StoreOK
    BY DEF IInv
  <2>2. /\ load_blocks = [n \in 1 .. height |-> stored[n]]
        /\ \A n \in 1 .. height : stored[n] # NoBlock /\ stored[n].tx.chain = metaChain
    BY SMT, <2>1, LoadBlocks, NodeAssumption DEF StoreOK
  <2>3. LinkedChain(load_blocks)
    <3>1. \A n \in 1 .. height : n # 1 => n - 1 \in 1 .. height
      BY SMT, <2>1, NodeAssumption DEF TypeOK
    <3> QED
      BY <2>1, <2>2, <3>1 DEF LinkedChain, StoreOK
  <2> QED
    BY <2>2, <2>3 DEF StoreIsChain
<1> QED
  BY <1>1, AlwaysIInv, PTL

\* No transaction is ever in two blocks of the chain.
THEOREM NeverSealedTwice == Spec => []SealedOnce
<1>1. IInv => SealedOnce
  BY DEF IInv, StoreOK, SealedOnce
<1> QED
  BY <1>1, AlwaysIInv, PTL

\* A node that is up serves exactly what its database holds.
THEOREM MemoryIsStore == Spec => []MemoryMatchesStore
<1>1. IInv => MemoryMatchesStore
  <2> SUFFICES ASSUME IInv, status = "up" PROVE
        /\ blocks = load_blocks
        /\ \A t \in Tx :
             /\ receipts[t] # NoReceipt <=> \E n \in 1 .. height : stored[n].tx = t
             /\ receipts[t] # NoReceipt => receipts[t] = storedReceipts[t]
        /\ \A n \in 1 .. height : receipts[stored[n].tx] = ReceiptOf(stored[n])
        /\ faucetKey = storedKey
    BY DEF MemoryMatchesStore
  <2>1. TypeOK /\ StoreOK /\ SessionOK /\ Len(blocks) = height /\ faucetKey = storedKey
    BY DEF IInv, PhaseOK, Running
  <2>2. /\ load_blocks \in Seq(Block) /\ Len(load_blocks) = height
        /\ \A n \in 1 .. height : load_blocks[n] = stored[n]
    BY <2>1, LoadBlocks
  <2>3. \A n \in 1 .. height :
          /\ blocks[n] = stored[n] /\ receipts[stored[n].tx] = ReceiptOf(stored[n])
          /\ storedReceipts[stored[n].tx] = ReceiptOf(stored[n])
    BY <2>1 DEF SessionOK
  <2>4. blocks = load_blocks
    BY <2>1, <2>2, <2>3, SeqEqual DEF TypeOK
  <2>5. \A n \in 1 .. height : ReceiptOf(stored[n]) # NoReceipt
    <3>1. \A b \in Block : ReceiptOf(b) \in Receipt
      BY BlockFields, TxFields DEF ReceiptOf, Receipt, Succeeds
    <3> QED
      BY SMT, <2>1, <3>1, NodeAssumption DEF StoreOK
  <2>6. \A t \in Tx : receipts[t] # NoReceipt => \E n \in 1 .. height : stored[n].tx = t
    BY SMT, <2>1, <2>3 DEF SessionOK
  <2> QED
    BY SMT, <2>1, <2>3, <2>4, <2>5, <2>6
<1> QED
  BY <1>1, AlwaysIInv, PTL

-----------------------------------------------------------------------------
(* The chain of the directory after a step. *)

\* Where the chain is after a step.
LEMMA ChainPlacesNext ==
  /\ status' \in {"replaying", "up"} => Chain' = blocks' \o todo'
  /\ status' \notin {"replaying", "up"} /\ journal' # NoJournal => Chain' = journal'.blocks
  /\ status' \notin {"replaying", "up"} /\ journal' = NoJournal => Chain' = load_blocks'
  BY DEF Chain

\* What the invariant says of the chain after a step.
LEMMA ChainFactsNext == IInv' => ChainKnown'
  BY ChainFacts, PTL

-----------------------------------------------------------------------------
(* What a step does to the chain. *)

\* A step that leaves the chain where it is, or moves it as it is.
LEMMA ChainKept ==
  ASSUME ChainSealed, AnswersInChain, StoreInChain, Chain' = Chain,
         UNCHANGED <<hist, acked, stored>>
  PROVE  ChainSealed' /\ AnswersInChain' /\ StoreInChain'
<1>1. ChainSealed'
  BY DEF ChainSealed, SealedAs
<1>2. AnswersInChain'
  BY DEF AnswersInChain
<1>3. StoreInChain'
  BY DEF StoreInChain
<1> QED
  BY <1>1, <1>2, <1>3

\* The fields of a block sealed on d after the blocks bs.
FieldsOf(b, d, bs, tx, number, now, fee) ==
  /\ b.number = number /\ b.timestamp = now /\ b.tx = tx /\ b.fee = fee
  /\ b.parent = next_parent_hash(bs) /\ b.hash = block_hash(b.parent, number, now)
  /\ b.root = rebuild_smt(StateAfter(d, tx, now, fee))

\* They are the fields BlockOf fills in.
LEMMA SealedFields ==
  ASSUME NEW d, NEW bs, NEW tx, NEW number, NEW now, NEW fee
  PROVE  FieldsOf(BlockOf(d, bs, tx, number, now, fee), d, bs, tx, number, now, fee)
  BY SMT DEF BlockOf, FieldsOf

\* The next block to replay was sealed on the state replay has reached, so it
\* is sealed again as it was, with its root filled in.
LEMMA ReplayedAgain ==
  ASSUME IInv, Undisturbed, status = "replaying", todo # <<>>,
         NEW b, b = Head(todo), NEW r,
         r = BlockOf(db, blocks, b.tx, b.number, b.timestamp, ReplayFee(b))
  PROVE  /\ b = Chain[Len(blocks) + 1] /\ b \in Block /\ b.number = Len(blocks) + 1
         /\ Sealable(b.tx, ReplayFee(b)) /\ Verifies(r, b) /\ ReplayFee(b) = b.fee
         /\ StateAfter(db, b.tx, b.timestamp, b.fee) = hist[Len(blocks) + 1]
         /\ SameBlock(b, r) /\ r.root = rebuild_smt(hist[Len(blocks) + 1])
<1> DEFINE top == Len(blocks) + 1
<1>1. /\ TypeOK /\ SessionOK /\ Running /\ Len(blocks) \in Nat /\ Len(todo) \in Nat \ {0}
      /\ b \in Block /\ b = todo[1] /\ b.number = top
  BY NextReplayed DEF Running
<1>2. /\ ChainTyped /\ ChainRuns /\ Len(Chain) = Len(blocks) + Len(todo)
      /\ \A n \in 1 .. Len(blocks) : Chain[n] = blocks[n]
  BY <1>1, ChainFacts DEF ChainKnown, ChainTyped, ChainRuns
<1>3. Chain[top] = b /\ top \in 1 .. Len(Chain)
  BY SMT, <1>1, <1>2 DEF ChainRuns
<1>4. /\ SealedAs(top, b) /\ b.parent = IF top = 1 THEN genesis_hash ELSE Chain[top - 1].hash
  BY <1>3 DEF Undisturbed, ChainSealed
<1>5. db = hist[top - 1]
  BY SMT, <1>1 DEF Undisturbed, MemoryFollows
<1>6. /\ Admissible(db, b.tx, b.fee)
      /\ StateAfter(db, b.tx, b.timestamp, b.fee) = hist[top]
      /\ b.root \in {NoRoot, rebuild_smt(hist[top])}
      /\ b.hash = block_hash(b.parent, top, b.timestamp)
  BY <1>4, <1>5 DEF SealedAs, ExecutedFrom
<1>7. Sealable(b.tx, b.fee)
  <2>1. b.tx.chain = spec.chain
    BY SMT, <1>1 DEF Undisturbed, MemoryFollows
  <2> QED
    BY <1>6, <2>1 DEF Sealable, Decodes
<1>8. b.parent = next_parent_hash(blocks)
  <2>1. CASE blocks = <<>>
    BY SMT, <1>4, <2>1, EmptyTypes DEF next_parent_hash
  <2>2. CASE blocks # <<>>
    <3>1. Len(blocks) \in 1 .. Len(blocks) /\ top # 1 /\ top - 1 = Len(blocks)
      BY SMT, <1>1, <2>2, EmptySeq DEF TypeOK
    <3> QED
      BY <1>2, <1>4, <2>2, <3>1 DEF next_parent_hash
  <2> QED
    BY <2>1, <2>2
<1>9. r = [number |-> top, timestamp |-> b.timestamp, hash |-> b.hash, parent |-> b.parent,
           tx |-> b.tx, root |-> rebuild_smt(hist[top]), fee |-> b.fee]
  BY <1>1, <1>6, <1>8 DEF BlockOf, ReplayFee
<1>10. SameBlock(b, r)
  BY SMT, <1>1, <1>9 DEF SameBlock, Block
<1>11. Verifies(r, b)
  BY SMT, <1>6, <1>9 DEF Verifies
<1>12. r.root = rebuild_smt(hist[top])
  <2>1. FieldsOf(r, db, blocks, b.tx, b.number, b.timestamp, ReplayFee(b))
    BY SealedFields
  <2>2. r.root = rebuild_smt(StateAfter(db, b.tx, b.timestamp, b.fee))
    BY <2>1 DEF FieldsOf, ReplayFee
  <2> QED
    BY <1>6, <2>2
<1> QED
  BY <1>1, <1>3, <1>6, <1>7, <1>10, <1>11, <1>12 DEF ReplayFee

\* A process that is down before and after a step that writes no block.
LEMMA ChainStays ==
  ASSUME IInv, IInv', ~Running, ~Running', UNCHANGED <<journal, height, stored>>
  PROVE  Chain' = Chain
<1>1. CASE journal # NoJournal
  BY <1>1, ChainPlaces, ChainPlacesNext DEF Running
<1>2. CASE journal = NoJournal
  <2>1. /\ Chain \in Seq(Block) /\ Chain' \in Seq(Block) /\ Len(Chain) = Len(Chain')
        /\ \A n \in 1 .. Len(Chain) : Chain[n] = Chain'[n]
    BY <1>2, ChainFacts, ChainFactsNext DEF ChainKnown, ChainTyped, ChainRests
  <2> QED
    BY <2>1, SeqEqual
<1> QED
  BY <1>1, <1>2

\* The place of the block on top of h others, on a chain with room for m.
OnTop(h, top, m) ==
  /\ h \in Nat /\ top \in 1 .. m /\ top \in 0 .. m /\ top \in 1 .. top /\ top <= top
  /\ top - 1 = h /\ h \in 0 .. h /\ (h = 0 => top = 1)
  /\ \A n \in 0 .. h : n # top /\ n \in 0 .. m
  /\ \A n \in 1 .. h : n \in 1 .. top /\ n \in 0 .. h /\ n <= top
  /\ \A n \in 1 .. top : n # top => n \in 1 .. h
  /\ \A n \in 1 .. m : n <= h => n \in 1 .. h

\* A chain with room has such a place, the one after its last block.
LEMMA NewPlace ==
  ASSUME NEW h \in Nat, NEW top, top = h + 1, NEW m \in Nat, h < m
  PROVE  OnTop(h, top, m)
  BY SMT DEF OnTop

\* A new block on top of the chain.
LEMMA ChainGrows ==
  ASSUME IInv, Undisturbed, NEW tx \in Tx, NEW now \in Time, CanSeal(tx),
         NEW b, b = NextBlock(tx, now), NEW top, top = Len(blocks) + 1,
         Len(Chain') = top, \A n \in 1 .. Len(blocks) : Chain'[n] = blocks[n],
         Chain'[top] = b, stored' = [stored EXCEPT ![top] = b],
         hist' = [hist EXCEPT ![top] = StateAfter(db, tx, now, AsU64(pending_base_fee))],
         acked' \subseteq acked \cup {Id(b)}
  PROVE  /\ ChainSealed' /\ AnswersInChain' /\ StoreInChain'
         /\ b.root = rebuild_smt(hist'[top])
         /\ hist'[top] = StateAfter(db, tx, now, AsU64(pending_base_fee))
         /\ \A n \in 0 .. Len(blocks) : hist'[n] = hist[n]
<1> DEFINE fee == AsU64(pending_base_fee)
           after == StateAfter(db, tx, now, fee)
<1>1. /\ TypeOK /\ SessionOK /\ block_number(blocks) = Len(blocks) /\ Len(blocks) < MaxBlocks
      /\ Len(blocks) = height /\ height \in Nat /\ status = "up" /\ Running
      /\ Admissible(db, tx, fee)
  BY NextSealed DEF Running
<1>2. /\ Len(Chain) = Len(blocks) /\ \A n \in 1 .. Len(blocks) : Chain[n] = blocks[n]
  BY <1>1, ChainFacts DEF ChainKnown, ChainRuns
<1>2a. OnTop(Len(blocks), top, MaxBlocks)
  <2>1. Len(blocks) \in Nat /\ Len(blocks) < MaxBlocks /\ MaxBlocks \in Nat
    BY <1>1, NodeAssumption
  <2> QED
    BY <2>1, NewPlace
<1>3. top \in 1 .. MaxBlocks /\ top \in 0 .. MaxBlocks /\ MaxBlocks \in Nat
  BY <1>2a, NodeAssumption DEF OnTop
<1>4. /\ hist'[top] = after /\ \A n \in 0 .. Len(blocks) : hist'[n] = hist[n]
  <2>1. hist \in [0 .. MaxBlocks -> Db]
    BY <1>1 DEF TypeOK
  <2> QED
    BY <1>2a, <1>3, <2>1 DEF OnTop
<1>5. db = hist[top - 1] /\ hist'[top - 1] = hist[top - 1]
  <2>1. db = hist[Len(blocks)]
    BY <1>1 DEF Undisturbed, MemoryFollows
  <2> QED
    BY <1>2a, <1>4, <2>1 DEF OnTop
<1>6. /\ b.number = top /\ b.timestamp = now /\ b.tx = tx /\ b.fee = fee
      /\ b.parent = next_parent_hash(blocks) /\ b.hash = block_hash(b.parent, top, now)
      /\ b.root = rebuild_smt(after)
  <2>1. b = BlockOf(db, blocks, tx, top, now, fee)
    BY <1>1 DEF NextBlock
  <2>2. FieldsOf(b, db, blocks, tx, top, now, fee)
    BY <2>1, SealedFields
  <2> QED
    BY <2>2 DEF FieldsOf
<1> HIDE DEF fee, after
<1>6a. /\ top \in 1 .. top /\ top <= top /\ (Len(blocks) = 0 => top = 1)
       /\ \A n \in 1 .. Len(blocks) : n \in 1 .. top /\ n \in 0 .. Len(blocks) /\ n <= top
       /\ \A n \in 1 .. top : n # top => n \in 1 .. Len(blocks)
       /\ \A n \in 1 .. MaxBlocks : n <= Len(blocks) => n \in 1 .. Len(blocks)
  BY <1>2a DEF OnTop
<1>7. ChainSealed'
  <2> SUFFICES ASSUME NEW n \in 1 .. Len(Chain')
               PROVE  /\ SealedAs(n, Chain[n])'
                      /\ Chain'[n].parent = IF n = 1 THEN genesis_hash ELSE Chain'[n - 1].hash
    BY DEF ChainSealed
  <2>1. CASE n = top
    <3>1. SealedAs(n, Chain[n])'
      BY <1>1, <1>4, <1>5, <1>6, <2>1 DEF SealedAs, ExecutedFrom, fee, after
    <3>2. CASE blocks = <<>>
      BY <1>6, <1>6a, <2>1, <3>1, <3>2, EmptyTypes DEF next_parent_hash
    <3>3. CASE blocks # <<>>
      <4>1. Len(blocks) \in 1 .. Len(blocks) /\ top # 1 /\ top - 1 = Len(blocks)
        BY SMT, <1>1, <3>3, EmptySeq DEF TypeOK
      <4> QED
        BY <1>6, <2>1, <3>1, <3>3, <4>1 DEF next_parent_hash
    <3> QED
      BY <3>2, <3>3
  <2>2. CASE n # top
    <3>1. n \in 1 .. Len(blocks) /\ n \in 1 .. Len(Chain)
      BY <1>2, <1>6a, <2>2
    <3>2. n \in 0 .. Len(blocks) /\ n - 1 \in 0 .. Len(blocks)
          /\ (n # 1 => n - 1 \in 1 .. Len(blocks))
      BY SMT, <1>1, <3>1
    <3>3. /\ SealedAs(n, Chain[n])
          /\ Chain[n].parent = IF n = 1 THEN genesis_hash ELSE Chain[n - 1].hash
      BY <3>1 DEF Undisturbed, ChainSealed
    <3>4. hist'[n] = hist[n] /\ hist'[n - 1] = hist[n - 1] /\ Chain'[n] = Chain[n]
          /\ (n # 1 => Chain'[n - 1] = Chain[n - 1])
      BY <1>2, <1>4, <3>1, <3>2
    <3> QED
      BY <3>3, <3>4 DEF SealedAs
  <2> QED
    BY <2>1, <2>2
<1>8. AnswersInChain'
  <2> SUFFICES ASSUME NEW a \in acked' PROVE \E n \in 1 .. Len(Chain') : a = Id(Chain'[n])
    BY DEF AnswersInChain
  <2>1. CASE a = Id(b)
    BY <1>6a, <2>1
  <2>2. CASE a \in acked
    <3>1. PICK n \in 1 .. Len(Chain) : a = Id(Chain[n])
      BY <2>2 DEF Undisturbed, AnswersInChain
    <3> QED
      BY <1>2, <1>6a, <3>1
  <2> QED
    BY <2>1, <2>2
<1>9. StoreInChain'
  <2> SUFFICES ASSUME NEW n \in 1 .. MaxBlocks, stored'[n] # NoBlock
               PROVE  /\ n <= Len(Chain') /\ SameBlock(stored'[n], Chain'[n])
                      /\ stored'[n].root \in {NoRoot, rebuild_smt(hist'[n])}
    BY DEF StoreInChain
  <2>1. CASE n = top
    <3>1. stored'[top] = b
      BY <1>1, <1>3 DEF TypeOK
    <3>2. SameBlock(b, b)
      BY <1>1 DEF SameBlock, NextBlock, BlockOf
    <3> QED
      BY <1>4, <1>6, <1>6a, <2>1, <3>1, <3>2
  <2>2. CASE n # top
    <3>1. stored'[n] = stored[n]
      BY <1>1, <2>2 DEF TypeOK
    <3>2. /\ n <= Len(Chain) /\ SameBlock(stored[n], Chain[n])
          /\ stored[n].root \in {NoRoot, rebuild_smt(hist[n])}
      BY <3>1 DEF Undisturbed, StoreInChain
    <3>3. n \in 1 .. Len(blocks) /\ n \in 0 .. Len(blocks) /\ n <= top
      BY <1>2, <1>6a, <3>2
    <3> QED
      BY <1>2, <1>4, <3>1, <3>2, <3>3
  <2> QED
    BY <2>1, <2>2
<1> QED
  BY <1>4, <1>6, <1>7, <1>8, <1>9 DEF fee, after

-----------------------------------------------------------------------------
(* The first state, and every action without a fault. *)

\* An empty directory, or one with a journal whose blocks were all answered.
LEMMA InitFInv == Init => FInv
<1> SUFFICES ASSUME Init PROVE Undisturbed
  BY DEF FInv
<1>1. /\ IInv /\ ~Running /\ status = "down" /\ height = 0 /\ metaChain = NoChain
      /\ \A n \in 1 .. MaxBlocks : stored[n] = NoBlock
  BY InitIInv DEF Init, EmptyStore, Running
<1>2. StoreInChain /\ JournalFirst /\ MemoryFollows
  BY <1>1 DEF StoreInChain, JournalFirst, MemoryFollows
<1>3. CASE journal = NoJournal /\ acked = {}
  <2>1. 1 .. Len(Chain) = {}
    BY SMT, <1>1, <1>3, ChainFacts DEF ChainKnown, ChainRests
  <2> QED
    BY <1>1, <1>2, <1>3, <2>1 DEF Undisturbed, ChainSealed, AnswersInChain
<1>4. ASSUME NEW j \in Journals, journal = j, acked = {Id(b) : b \in Range(j.blocks)},
             hist = [n \in 0 .. MaxBlocks |->
                       IF n < Len(j.states) THEN j.states[n + 1] ELSE EmptyDb]
      PROVE  Undisturbed
  <2>1. Chain = j.blocks /\ j.blocks \in Seq(Block) /\ Len(j.blocks) \in Nat
        /\ DOMAIN j.blocks = 1 .. Len(j.blocks)
    BY <1>1, <1>4, ChainPlaces, NodeAssumption, LenProperties DEF JournalType
  <2>2. /\ Len(j.blocks) <= MaxBlocks /\ Len(j.states) = Len(j.blocks) + 1
        /\ LinkedChain(j.blocks)
        /\ \A n \in 1 .. Len(j.blocks) :
             /\ ExecutedFrom(j.states[n], j.blocks[n], j.states[n + 1])
             /\ j.blocks[n].root = NoRoot
    BY <2>1, JournalAssumption
  <2>3. ChainSealed
    <3> SUFFICES ASSUME NEW n \in 1 .. Len(Chain)
                 PROVE  /\ SealedAs(n, Chain[n])
                        /\ Chain[n].parent = IF n = 1 THEN genesis_hash ELSE Chain[n - 1].hash
      BY DEF ChainSealed
    <3>1. /\ hist[n - 1] = j.states[n] /\ hist[n] = j.states[n + 1]
      <4>1. /\ n \in 0 .. MaxBlocks /\ n - 1 \in 0 .. MaxBlocks
            /\ n < Len(j.states) /\ n - 1 < Len(j.states) /\ (n - 1) + 1 = n
        BY SMT, <2>1, <2>2, NodeAssumption
      <4> QED
        BY <1>4, <4>1
    <3>2. /\ j.blocks[n].number = n
          /\ j.blocks[n].parent = IF n = 1 THEN genesis_hash ELSE j.blocks[n - 1].hash
          /\ j.blocks[n].hash = block_hash(j.blocks[n].parent, n, j.blocks[n].timestamp)
      BY <2>1, <2>2 DEF LinkedChain
    <3> QED
      BY <2>1, <2>2, <3>1, <3>2 DEF SealedAs
  <2>4. AnswersInChain
    BY <1>4, <2>1 DEF AnswersInChain, Range
  <2> QED
    BY <1>1, <1>2, <2>3, <2>4 DEF Undisturbed
<1> QED
  BY <1>3, <1>4 DEF Init

\* A step without a fault starts in a state without one.
LEMMA NoFaultBefore ==
  ASSUME FInv, faults' = {}, faults' = faults \/ \E kind \in FaultKind : Fault(kind)
  PROVE  faults = {} /\ Undisturbed /\ faults' = faults
  BY DEF FInv, Fault

\* open() on an empty directory: there is no chain yet.
LEMMA OpenFreshFInv ==
  ASSUME IInv, IInv', FInv, NEW s \in Specs, OpenFresh(s)
  PROVE  FInv' /\ (faults' = {} => Chain' = Chain)
<1> SUFFICES ASSUME faults' = {} PROVE Undisturbed' /\ Chain' = Chain
  BY DEF FInv
<1>1. /\ Undisturbed /\ faults' = faults
  BY NoFaultBefore DEF OpenFresh
<1>2. /\ TypeOK /\ StoreOK /\ ~Running /\ metaChain = NoChain /\ journal = NoJournal
      /\ status' = "up" /\ db' = apply_genesis(s)
      /\ hist' = [hist EXCEPT ![0] = apply_genesis(s)] /\ blocks = <<>>
      /\ UNCHANGED <<blocks, todo, stored, journal, acked>>
  BY DEF OpenFresh, IInv, PhaseOK, Running, chainData, legacy
<1>2a. Len(Chain) = 0
  BY <1>2, ChainFacts DEF ChainKnown, ChainRests, StoreOK
<1>3. 1 .. Len(Chain) = {} /\ Len(Chain) = 0
  BY SMT, <1>2a
<1>4. Len(blocks') = 0 /\ Len(Chain') = 0
  BY <1>2, EmptyTypes, ChainFactsNext DEF ChainKnown, ChainRuns, Running
<1>4a. Chain' = Chain
  BY <1>3, <1>4, ChainFacts, ChainFactsNext, EmptySeq DEF ChainKnown, ChainTyped
<1>5. ChainSealed'
  BY SMT, <1>4 DEF ChainSealed
<1>6. AnswersInChain'
  BY <1>1, <1>2, <1>3 DEF Undisturbed, AnswersInChain
<1>7. StoreInChain'
  BY SMT, <1>1, <1>2, <1>3 DEF Undisturbed, StoreInChain
<1>8. MemoryFollows'
  <2>1. hist'[0] = apply_genesis(s)
    BY SMT, <1>2, NodeAssumption DEF TypeOK
  <2>2. \A n \in 1 .. Len(blocks') : FALSE
    BY SMT, <1>4
  <2> QED
    BY <1>2, <1>4, <2>1, <2>2 DEF MemoryFollows
<1>9. JournalFirst'
  BY <1>2 DEF JournalFirst
<1> QED
  BY <1>2, <1>5, <1>6, <1>7, <1>8, <1>9, <1>4a DEF Undisturbed

\* open() on a journal, and the migration up to the rename: the chain is the
\* journal's.
LEMMA OpenLegacyFInv ==
  ASSUME IInv, IInv', FInv, NEW s \in Specs, OpenLegacy(s)
  PROVE  FInv' /\ (faults' = {} => Chain' = Chain)
<1> DEFINE known == SpecWithAlloc(s, journal.alloc)
<1> SUFFICES ASSUME faults' = {} PROVE Undisturbed' /\ Chain' = Chain
  BY DEF FInv
<1>1. /\ Undisturbed /\ faults' = faults
  <2>1. "genesis_changed" \in FaultKind
    BY DEF FaultKind
  <2> QED
    BY <2>1, NoFaultBefore DEF OpenLegacy
<1>2. /\ TypeOK /\ ~Running /\ ~Running' /\ journal # NoJournal /\ journal.chain = s.chain
      /\ status' = "migrating" /\ spec' = known
      /\ UNCHANGED <<height, stored, journal, hist, acked>>
  BY DEF OpenLegacy, IInv, Running, chainData, legacy
<1>3. known.chain = s.chain
  BY <1>2, SpecWithAllocType, NodeAssumption DEF TypeOK, JournalType
<1>4. apply_genesis(known) = hist[0]
  <2>1. CASE Fault("genesis_changed")
    BY <2>1 DEF Fault
  <2> QED
    BY <2>1 DEF OpenLegacy
<1> HIDE DEF known
<1>5a. Chain' = Chain
  BY <1>2, ChainStays
<1>5. ChainSealed' /\ AnswersInChain' /\ StoreInChain'
  BY <1>1, <1>2, <1>5a, ChainKept DEF Undisturbed
<1>6. JournalFirst'
  BY <1>1, <1>2, <1>3, <1>4 DEF Undisturbed, JournalFirst
<1>7. MemoryFollows'
  BY <1>2 DEF MemoryFollows
<1> QED
  BY <1>2, <1>5, <1>6, <1>7, <1>5a DEF Undisturbed

\* Writing the migrated key leaves the chain in the journal.
LEMMA MigrateKeyFInv ==
  ASSUME IInv, IInv', FInv, MigrateKey
  PROVE  FInv' /\ (faults' = {} => Chain' = Chain)
<1> SUFFICES ASSUME faults' = {} PROVE Undisturbed' /\ Chain' = Chain
  BY DEF FInv
<1>1. /\ Undisturbed /\ faults' = faults
  BY NoFaultBefore DEF MigrateKey, aux
<1>2. /\ ~Running /\ ~Running' /\ status = "migrating" /\ status' = "renaming"
      /\ UNCHANGED <<metaChain, spec, height, stored, journal, hist, acked>>
  BY DEF MigrateKey, Running, meta, chainData, legacy, aux
<1>3a. Chain' = Chain
  BY <1>2, ChainStays
<1>3. ChainSealed' /\ AnswersInChain' /\ StoreInChain'
  BY <1>1, <1>2, <1>3a, ChainKept DEF Undisturbed
<1>4. JournalFirst' /\ MemoryFollows'
  BY <1>1, <1>2 DEF Undisturbed, JournalFirst, MemoryFollows
<1> QED
  BY <1>2, <1>3, <1>4, <1>3a DEF Undisturbed

\* The rename hands the journal's chain to replay, which starts from the
\* state the chain started from.
LEMMA RenameJournalFInv ==
  ASSUME IInv, IInv', FInv, RenameJournal
  PROVE  FInv' /\ (faults' = {} => Chain' = Chain)
<1> SUFFICES ASSUME faults' = {} PROVE Undisturbed' /\ Chain' = Chain
  BY DEF FInv
<1>1. /\ Undisturbed /\ faults' = faults
  BY NoFaultBefore DEF RenameJournal, aux
<1>2. /\ TypeOK /\ ~Running /\ status = "renaming" /\ status' = "replaying"
      /\ journal # NoJournal /\ height = 0 /\ blocks = <<>>
      /\ db' = apply_genesis(spec) /\ todo' = journal.blocks /\ journal' = NoJournal
      /\ UNCHANGED <<spec, blocks, height, stored, hist, acked>>
  BY DEF RenameJournal, IInv, PhaseOK, Running, meta, chainData, aux
<1>3. /\ journal \in Journals /\ journal.blocks \in Seq(Block)
      /\ Len(journal.blocks) \in Nat /\ DOMAIN journal.blocks = 1 .. Len(journal.blocks)
  BY <1>2, NodeAssumption, LenProperties DEF TypeOK, JournalType
<1>4. Chain' = Chain
  <2>1. Chain = journal.blocks /\ Chain' = <<>> \o journal.blocks
    BY <1>2, ChainPlaces, ChainPlacesNext
  <2> QED
    BY <1>3, <2>1, ConcatEmptySeq
<1>5. ChainSealed' /\ AnswersInChain' /\ StoreInChain'
  BY <1>1, <1>2, <1>4, ChainKept DEF Undisturbed
<1>6. Len(blocks') = 0 /\ 1 .. Len(blocks') = {}
  BY SMT, <1>2, EmptyTypes
<1>7. apply_genesis(spec) = hist[0] /\ journal.chain = spec.chain
  BY <1>1, <1>2 DEF Undisturbed, JournalFirst
<1>8. \A i \in 1 .. Len(todo') : todo'[i].tx.chain = spec'.chain
  BY <1>2, <1>3, <1>7, JournalAssumption DEF Decodes
<1>9. MemoryFollows'
  <2>1. Len(todo') = height' => 1 .. Len(todo') = {}
    BY SMT, <1>2
  <2> QED
    BY <1>2, <1>6, <1>7, <1>8, <2>1 DEF MemoryFollows
<1>10. JournalFirst'
  BY <1>2 DEF JournalFirst
<1> QED
  BY <1>2, <1>5, <1>9, <1>10, <1>4 DEF Undisturbed

\* open() on a store hands its chain to replay, from the state it started from.
LEMMA OpenStoredFInv ==
  ASSUME IInv, IInv', FInv, NEW s \in Specs, OpenStored(s)
  PROVE  FInv' /\ (faults' = {} => Chain' = Chain)
<1> DEFINE known == SpecWithAlloc(s, metaAlloc)
<1> SUFFICES ASSUME faults' = {} PROVE Undisturbed' /\ Chain' = Chain
  BY DEF FInv
<1>1. /\ Undisturbed /\ faults' = faults
  <2>1. "genesis_changed" \in FaultKind
    BY DEF FaultKind
  <2> QED
    BY <2>1, NoFaultBefore DEF OpenStored
<1>2. /\ TypeOK /\ StoreOK /\ ~Running /\ status \in {"down", "rejected", "diverged"}
      /\ metaChain = s.chain /\ status' = "replaying" /\ blocks = <<>>
      /\ spec' = known /\ db' = apply_genesis(known) /\ todo' = load_blocks
      /\ UNCHANGED <<blocks, height, stored, journal, hist, acked>>
  BY DEF OpenStored, IInv, PhaseOK, Running, chainData, legacy
<1>3. known.chain = s.chain /\ s.chain \in Nat
  BY <1>2, SpecWithAllocType, NodeAssumption DEF TypeOK, SpecType
<1>4. apply_genesis(known) = hist[0]
  <2>1. CASE Fault("genesis_changed")
    BY <2>1 DEF Fault
  <2> QED
    BY <2>1 DEF OpenStored
<1> HIDE DEF known
<1>5. journal = NoJournal
  BY <1>1, <1>2, <1>3, NodeAssumption DEF Undisturbed, JournalFirst
<1>6. /\ load_blocks \in Seq(Block) /\ Len(load_blocks) = height
      /\ \A n \in 1 .. height : load_blocks[n] = stored[n]
  BY <1>2, LoadBlocks
<1>7. Chain' = Chain
  <2>1. Chain = load_blocks /\ Chain' = <<>> \o load_blocks
    BY <1>2, <1>5, ChainPlaces, ChainPlacesNext
  <2> QED
    BY <1>6, <2>1, ConcatEmptySeq
<1>8. ChainSealed' /\ AnswersInChain' /\ StoreInChain'
  BY <1>1, <1>2, <1>7, ChainKept DEF Undisturbed
<1>9. Len(blocks') = 0 /\ 1 .. Len(blocks') = {}
  BY SMT, <1>2, EmptyTypes
<1>10. \A i \in 1 .. Len(todo') : todo'[i].tx.chain = spec'.chain /\ todo'[i] = stored'[i]
  BY SMT, <1>2, <1>3, <1>6 DEF StoreOK
<1>11. MemoryFollows'
  BY <1>2, <1>4, <1>9, <1>10 DEF MemoryFollows
<1>12. JournalFirst'
  BY <1>2, <1>5 DEF JournalFirst
<1> QED
  BY <1>2, <1>8, <1>11, <1>12, <1>7 DEF Undisturbed

\* open() on another chain leaves the directory alone.
LEMMA OpenRejectsFInv ==
  ASSUME IInv, IInv', FInv, NEW s \in Specs, OpenRejects(s)
  PROVE  FInv' /\ (faults' = {} => Chain' = Chain)
<1> SUFFICES ASSUME faults' = {} PROVE Undisturbed' /\ Chain' = Chain
  BY DEF FInv
<1>1. /\ Undisturbed /\ faults' = faults
  BY NoFaultBefore DEF OpenRejects, aux
<1>2. /\ ~Running /\ ~Running' /\ status \in {"down", "rejected", "diverged"}
      /\ status' = "rejected" /\ UNCHANGED <<metaChain, height, stored, journal, hist, acked>>
  BY DEF OpenRejects, Exit, Running, meta, chainData, legacy, aux
<1>3a. Chain' = Chain
  BY <1>2, ChainStays
<1>3. ChainSealed' /\ AnswersInChain' /\ StoreInChain'
  BY <1>1, <1>2, <1>3a, ChainKept DEF Undisturbed
<1>4. JournalFirst' /\ MemoryFollows'
  BY <1>1, <1>2 DEF Undisturbed, JournalFirst, MemoryFollows
<1> QED
  BY <1>2, <1>3, <1>4, <1>3a DEF Undisturbed

-----------------------------------------------------------------------------
(* Replaying, sealing and crashing keep the chain. *)

\* Without a fault, replay neither refuses a transaction nor finds a block
\* that differs.
LEMMA ReplayNeverStops ==
  ASSUME IInv, FInv, ReplayRefused \/ ReplayDiverges PROVE faults' # {}
<1> SUFFICES ASSUME faults' = {} PROVE FALSE
  OBVIOUS
<1>1. Undisturbed /\ status = "replaying" /\ todo # <<>>
  BY NoFaultBefore DEF ReplayRefused, ReplayDiverges, aux
<1> DEFINE b == Head(todo)
           r == BlockOf(db, blocks, b.tx, b.number, b.timestamp, ReplayFee(b))
<1>2. Sealable(b.tx, ReplayFee(b)) /\ Verifies(r, b)
  BY <1>1, ReplayedAgain
<1> QED
  BY <1>2 DEF ReplayRefused, ReplayDiverges

\* Replay fills in the root of a block, and changes nothing else of the chain.
LEMMA ReplayBlockChain ==
  ASSUME IInv, IInv', Undisturbed, ReplayBlock, NEW top, top = Len(blocks) + 1,
         NEW r, r = BlockOf(db, blocks, Head(todo).tx, Head(todo).number,
                            Head(todo).timestamp, ReplayFee(Head(todo)))
  PROVE  /\ top \in 1 .. MaxBlocks /\ top \in 1 .. Len(Chain) /\ Len(Chain') = Len(Chain)
         /\ \A n \in 1 .. Len(Chain) : Chain'[n] = IF n = top THEN r ELSE Chain[n]
         /\ stored' = [stored EXCEPT ![top] = r] /\ blocks' = Append(blocks, r)
         /\ r \in Block /\ SameBlock(Chain[top], r) /\ r.root = rebuild_smt(hist[top])
         /\ db' = hist[top] /\ Len(blocks') = top /\ height' = top
<1> DEFINE b == Head(todo)
<1>1. /\ status = "replaying" /\ todo # <<>> /\ status' = "replaying" /\ Running /\ Running'
      /\ seal_raw_with_fee(b.tx, b.number, b.timestamp, ReplayFee(b))
      /\ todo' = Tail(todo)
  BY DEF ReplayBlock, Running
<1>2. /\ b = Chain[top] /\ b \in Block /\ b.number = top
      /\ StateAfter(db, b.tx, b.timestamp, b.fee) = hist[top] /\ ReplayFee(b) = b.fee
      /\ SameBlock(b, r) /\ r.root = rebuild_smt(hist[top])
  BY <1>1, ReplayedAgain
<1>3. /\ TypeOK /\ blocks \in Seq(Block) /\ todo \in Seq(Block) /\ Len(blocks) \in Nat
      /\ Len(todo) \in Nat \ {0}
      /\ Len(Chain) = Len(blocks) + Len(todo) /\ Len(Chain) <= MaxBlocks
      /\ \A n \in 1 .. Len(blocks) : Chain[n] = blocks[n]
      /\ \A i \in 1 .. Len(todo) : Chain[Len(blocks) + i] = todo[i]
  <2>1. ChainTyped /\ ChainRuns /\ TypeOK /\ Len(blocks) \in Nat /\ Len(todo) \in Nat \ {0}
    BY <1>1, NextReplayed, ChainFacts DEF ChainKnown
  <2>2. Len(Chain) \in 0 .. MaxBlocks
    BY <2>1 DEF ChainTyped
  <2>3. Len(Chain) <= MaxBlocks
    BY SMT, <2>2, NodeAssumption
  <2> QED
    BY <1>1, <2>1, <2>3 DEF ChainTyped, ChainRuns, TypeOK
<1>4. top \in 1 .. Len(Chain) /\ top \in 1 .. MaxBlocks
  BY SMT, <1>3, NodeAssumption
<1>5. r \in Block /\ r.number = top /\ r.tx = b.tx
  <2>1. /\ b.tx \in Tx /\ b.timestamp \in Nat /\ b.fee \in 0 .. U64Modulus - 1
    BY <1>2, BlockFields
  <2>2. db \in Db /\ Admissible(db, b.tx, b.fee)
    BY <1>1, <1>2, <1>3, ReplayedAgain DEF Sealable, TypeOK
  <2>3. r = BlockOf(db, blocks, b.tx, top, b.timestamp, b.fee)
    BY <1>2
  <2> HIDE DEF b
  <2>4. BlockArgs(db, blocks, b.tx, top, b.timestamp, b.fee)
    BY <1>3, <1>4, <2>1, <2>2 DEF BlockArgs, SealArgs
  <2> QED
    BY SMT, <2>3, <2>4, SealedBlock
<1>6. /\ blocks' = Append(blocks, r) /\ stored' = [stored EXCEPT ![top] = r]
      /\ db' = hist[top] /\ height' = top
  BY <1>1, <1>2, <1>5 DEF seal_raw_with_fee, save_block
<1> HIDE DEF b
<1>7. /\ Len(blocks') = top /\ blocks'[top] = r
      /\ \A n \in 1 .. Len(blocks) : blocks'[n] = blocks[n]
  BY SMT, <1>3, <1>5, <1>6, AppendProperties
<1>8. /\ Len(todo') = Len(todo) - 1 /\ \A i \in 1 .. Len(todo') : todo'[i] = todo[i + 1]
  BY <1>1, <1>3, EmptySeq, HeadTailProperties
<1>9. /\ Len(Chain') = Len(blocks') + Len(todo')
      /\ \A n \in 1 .. Len(blocks') : Chain'[n] = blocks'[n]
      /\ \A i \in 1 .. Len(todo') : Chain'[Len(blocks') + i] = todo'[i]
  BY <1>1, ChainFactsNext DEF ChainKnown, ChainTyped, ChainRuns
<1>10. \A n \in 1 .. Len(Chain) : Chain'[n] = IF n = top THEN r ELSE Chain[n]
  <2> TAKE n \in 1 .. Len(Chain)
  <2>1. CASE n <= top
    <3>1. n \in 1 .. Len(blocks') /\ (n # top => n \in 1 .. Len(blocks))
      BY SMT, <1>3, <1>7, <2>1
    <3> QED
      BY <1>3, <1>7, <1>9, <3>1
  <2>2. CASE ~(n <= top)
    <3> DEFINE i == n - top
    <3>1. i \in 1 .. Len(todo') /\ n = Len(blocks') + i
          /\ i + 1 \in 1 .. Len(todo) /\ n = Len(blocks) + (i + 1) /\ n # top
      BY SMT, <1>3, <1>7, <1>8, <2>2
    <3> HIDE DEF i
    <3>2. Chain'[n] = todo'[i] /\ todo'[i] = todo[i + 1] /\ Chain[n] = todo[i + 1]
      BY <1>3, <1>8, <1>9, <3>1
    <3> QED
      BY <3>1, <3>2
  <2> QED
    BY <2>1, <2>2
<1>11. Len(Chain') = Len(Chain)
  BY SMT, <1>3, <1>7, <1>8, <1>9
<1> QED
  BY <1>2, <1>4, <1>5, <1>6, <1>7, <1>10, <1>11

\* Replaying a block keeps the chain, its answers and the store.
LEMMA ReplayBlockFInv == ASSUME IInv, IInv', FInv, ReplayBlock PROVE FInv'
<1> SUFFICES ASSUME faults' = {} PROVE Undisturbed'
  BY DEF FInv
<1>1. /\ Undisturbed /\ faults' = faults
  BY NoFaultBefore DEF ReplayBlock, aux
<1>2. /\ TypeOK /\ Running /\ status = "replaying" /\ status' = "replaying"
      /\ todo # <<>> /\ todo' = Tail(todo)
      /\ UNCHANGED <<spec, metaChain, journal, hist, acked>>
  BY DEF ReplayBlock, IInv, Running, meta, legacy, aux
<1> DEFINE top == Len(blocks) + 1
           r == BlockOf(db, blocks, Head(todo).tx, Head(todo).number,
                        Head(todo).timestamp, ReplayFee(Head(todo)))
<1>3. /\ top \in 1 .. MaxBlocks /\ top \in 1 .. Len(Chain) /\ Len(Chain') = Len(Chain)
      /\ \A n \in 1 .. Len(Chain) : Chain'[n] = IF n = top THEN r ELSE Chain[n]
      /\ stored' = [stored EXCEPT ![top] = r] /\ blocks' = Append(blocks, r)
      /\ r \in Block /\ SameBlock(Chain[top], r) /\ r.root = rebuild_smt(hist[top])
      /\ db' = hist[top] /\ Len(blocks') = top /\ height' = top
  BY <1>1, ReplayBlockChain
<1>4. Len(Chain) \in Nat /\ Len(blocks) \in Nat /\ blocks \in Seq(Block)
      /\ todo \in Seq(Block)
  BY <1>2, ChainFacts, LenProperties DEF ChainKnown, ChainTyped, TypeOK
<1> HIDE DEF r, top
\* Everything but the root is as before.
<1>5. \A n \in 1 .. Len(Chain) :
        /\ Chain'[n].number = Chain[n].number /\ Chain'[n].timestamp = Chain[n].timestamp
        /\ Chain'[n].hash = Chain[n].hash /\ Chain'[n].parent = Chain[n].parent
        /\ Chain'[n].tx = Chain[n].tx /\ Chain'[n].fee = Chain[n].fee
        /\ SameBlock(Chain[n], Chain'[n]) /\ Chain'[n].root \in {NoRoot, rebuild_smt(hist[n])}
  <2> TAKE n \in 1 .. Len(Chain)
  <2>1. CASE n = top
    BY SMT, <1>3, <2>1 DEF SameBlock, Block
  <2>2. CASE n # top
    <3>1. Chain[n] \in Block
      BY ChainFacts, ElementOfSeq DEF ChainKnown, ChainTyped
    <3>2. SameBlock(Chain[n], Chain[n])
      BY <3>1 DEF SameBlock, Block
    <3> QED
      BY <1>1, <1>3, <2>2, <3>2 DEF Undisturbed, ChainSealed, SealedAs
  <2> QED
    BY <2>1, <2>2
<1>6. ChainSealed'
  <2> SUFFICES ASSUME NEW n \in 1 .. Len(Chain')
               PROVE  /\ SealedAs(n, Chain[n])'
                      /\ Chain'[n].parent = IF n = 1 THEN genesis_hash ELSE Chain'[n - 1].hash
    BY DEF ChainSealed
  <2>1. n \in 1 .. Len(Chain) /\ (n # 1 => n - 1 \in 1 .. Len(Chain))
    BY SMT, <1>3, <1>4
  <2>2. /\ SealedAs(n, Chain[n])
        /\ Chain[n].parent = IF n = 1 THEN genesis_hash ELSE Chain[n - 1].hash
    BY <1>1, <2>1 DEF Undisturbed, ChainSealed
  <2>3. SealedAs(n, Chain[n])'
    BY <1>2, <1>5, <2>1, <2>2 DEF SealedAs, ExecutedFrom
  <2> QED
    BY <1>5, <2>1, <2>2, <2>3
<1>7. AnswersInChain'
  <2> SUFFICES ASSUME NEW a \in acked' PROVE \E n \in 1 .. Len(Chain') : a = Id(Chain'[n])
    BY DEF AnswersInChain
  <2>1. PICK n \in 1 .. Len(Chain) : a = Id(Chain[n])
    BY <1>1, <1>2 DEF Undisturbed, AnswersInChain
  <2> QED
    BY <1>3, <1>5, <2>1 DEF Id
<1>8. StoreInChain'
  <2> SUFFICES ASSUME NEW n \in 1 .. MaxBlocks, stored'[n] # NoBlock
               PROVE  /\ n <= Len(Chain') /\ SameBlock(stored'[n], Chain'[n])
                      /\ stored'[n].root \in {NoRoot, rebuild_smt(hist'[n])}
    BY DEF StoreInChain
  <2>1. CASE n = top
    <3>1. SameBlock(r, r)
      BY <1>3 DEF SameBlock, Block
    <3>2. stored'[n] = r
      BY <1>2, <1>3, <2>1 DEF TypeOK
    <3> QED
      BY SMT, <1>2, <1>3, <1>4, <2>1, <3>1, <3>2
  <2>2. CASE n # top
    <3>1. stored'[n] = stored[n]
      BY <1>2, <1>3, <2>2 DEF TypeOK
    <3>2. /\ n <= Len(Chain) /\ SameBlock(stored[n], Chain[n])
          /\ stored[n].root \in {NoRoot, rebuild_smt(hist[n])}
      BY <1>1, <3>1 DEF Undisturbed, StoreInChain
    <3>3. Chain'[n] = Chain[n]
      BY SMT, <1>3, <1>4, <2>2, <3>2
    <3> QED
      BY <1>2, <1>3, <3>1, <3>2, <3>3
  <2> QED
    BY <2>1, <2>2
<1>9. MemoryFollows'
  <2>1. /\ blocks'[top] = r /\ \A n \in 1 .. Len(blocks) : blocks'[n] = blocks[n]
    BY SMT, <1>3, <1>4, AppendProperties DEF top
  <2>2. \A n \in 1 .. Len(blocks') : blocks'[n].root = rebuild_smt(hist'[n])
    <3> TAKE n \in 1 .. Len(blocks')
    <3>1. CASE n = top
      BY <1>2, <1>3, <2>1, <3>1
    <3>2. CASE n # top
      <4>1. n \in 1 .. Len(blocks)
        BY SMT, <1>3, <1>4, <3>2 DEF top
      <4> QED
        BY <1>1, <1>2, <2>1, <4>1 DEF Undisturbed, MemoryFollows
    <3> QED
      BY <3>1, <3>2
  <2>3. /\ Len(todo') = Len(todo) - 1 /\ \A i \in 1 .. Len(todo') : todo'[i] = todo[i + 1]
    BY <1>2, <1>4, EmptySeq, HeadTailProperties
  <2>4. \A i \in 1 .. Len(todo') : todo'[i].tx.chain = spec'.chain
    <3> TAKE i \in 1 .. Len(todo')
    <3>1. i + 1 \in 1 .. Len(todo)
      BY SMT, <1>4, <2>3, LenProperties
    <3> QED
      BY <1>1, <1>2, <2>3, <3>1 DEF Undisturbed, MemoryFollows
  <2>5. blocks' # <<>>
    BY SMT, <1>3, <1>4, EmptyTypes DEF top
  <2> QED
    BY <1>2, <1>3, <2>2, <2>4, <2>5 DEF MemoryFollows
<1>10. JournalFirst'
  BY <1>1, <1>2 DEF Undisturbed, JournalFirst
<1> QED
  BY <1>2, <1>6, <1>7, <1>8, <1>9, <1>10 DEF Undisturbed

\* open() returns: nothing was left to replay.
LEMMA FinishOpenFInv ==
  ASSUME IInv, IInv', FInv, FinishOpen
  PROVE  FInv' /\ (faults' = {} => Chain' = Chain)
<1> SUFFICES ASSUME faults' = {} PROVE Undisturbed' /\ Chain' = Chain
  BY DEF FInv
<1>1. /\ Undisturbed /\ faults' = faults
  BY NoFaultBefore DEF FinishOpen, aux
<1>2. /\ Running /\ status = "replaying" /\ status' = "up"
      /\ UNCHANGED <<metaChain, spec, db, blocks, todo, height, stored, journal, hist, acked>>
  BY DEF FinishOpen, Running, meta, chainData, legacy, aux
<1>3. Chain' = Chain
  BY <1>2, ChainPlaces, ChainPlacesNext
<1>4. ChainSealed' /\ AnswersInChain' /\ StoreInChain'
  BY <1>1, <1>2, <1>3, ChainKept DEF Undisturbed
<1>5. JournalFirst' /\ MemoryFollows'
  BY <1>1, <1>2 DEF Undisturbed, JournalFirst, MemoryFollows, Running
<1> QED
  BY <1>2, <1>4, <1>5, <1>3 DEF Undisturbed

\* A crash that interrupts no replay finds the whole chain in the store, or in
\* the journal.
LEMMA CrashFInv ==
  ASSUME IInv, IInv', FInv, Crash
  PROVE  FInv' /\ (faults' = {} => Chain' = Chain)
<1> SUFFICES ASSUME faults' = {} PROVE Undisturbed' /\ Chain' = Chain
  BY DEF FInv
<1>1. /\ Undisturbed /\ faults' = faults
  <2>1. "open_interrupted" \in FaultKind
    BY DEF FaultKind
  <2> QED
    BY <2>1, NoFaultBefore DEF Crash
<1>2. ~InterruptsOpen
  BY DEF Crash, Fault
<1>3. /\ TypeOK /\ Running /\ ~Running' /\ status' = "down" /\ SessionOK /\ PhaseOK
      /\ UNCHANGED <<metaChain, height, stored, journal, hist, acked>>
  BY <1>2
  DEF Crash, Exit, InterruptsOpen, IInv, PhaseOK, Running, meta, chainData, legacy
<1>4. journal = NoJournal
  BY <1>1, <1>3 DEF Undisturbed, JournalFirst
<1>5. /\ Chain \in Seq(Block) /\ Len(blocks) \in Nat /\ Len(todo) \in Nat /\ height \in Nat
      /\ Len(Chain) = Len(blocks) + Len(todo)
      /\ \A n \in 1 .. Len(blocks) : Chain[n] = blocks[n]
      /\ \A i \in 1 .. Len(todo) : Chain[Len(blocks) + i] = todo[i]
  BY SMT, <1>3, ChainFacts, LenProperties, NodeAssumption
  DEF ChainKnown, ChainTyped, ChainRuns, TypeOK
<1>6. Len(Chain) = height /\ \A n \in 1 .. height : Chain[n] = stored[n]
  <2>1. CASE Len(blocks) = height /\ Len(todo) = 0
    BY SMT, <1>3, <1>5, <2>1 DEF SessionOK
  <2>2. CASE status = "replaying" /\ blocks = <<>> /\ Len(todo) = height
    BY SMT, <1>1, <1>5, <2>2, EmptyTypes DEF Undisturbed, MemoryFollows
  <2>3. CASE status = "up"
    BY <1>3, <2>1, <2>3, EmptyTypes DEF PhaseOK
  <2>4. CASE status = "replaying"
    <3>1. height >= Len(blocks) + Len(todo)
      BY SMT, <1>2, <1>5, <2>4 DEF InterruptsOpen
    <3> QED
      BY SMT, <1>3, <1>5, <2>1, <2>2, <2>4, <3>1 DEF PhaseOK, ReplayOK
  <2> QED
    BY <1>3, <2>3, <2>4 DEF Running
<1>7. /\ Chain' \in Seq(Block) /\ Len(Chain') = height
      /\ \A n \in 1 .. height : Chain'[n] = stored[n]
  BY <1>3, <1>4, ChainFactsNext DEF ChainKnown, ChainTyped, ChainRests
<1>8. Chain' = Chain
  BY <1>5, <1>6, <1>7, SeqEqual
<1>9. ChainSealed' /\ AnswersInChain' /\ StoreInChain'
  BY <1>1, <1>3, <1>8, ChainKept DEF Undisturbed
<1>10. JournalFirst' /\ MemoryFollows'
  BY <1>3, <1>4 DEF JournalFirst, MemoryFollows
<1> QED
  BY <1>3, <1>8, <1>9, <1>10 DEF Undisturbed

\* A sealed block ends the chain of a node that stays up.
LEMMA SendChain ==
  ASSUME IInv, IInv', NEW tx \in Tx, NEW now \in Time, SendRawTransaction(tx, now),
         NEW b, b = NextBlock(tx, now)
  PROVE  /\ Chain = blocks /\ Chain' = Append(Chain, b) /\ blocks' = Append(blocks, b)
         /\ b \in Block /\ b.number = Len(blocks) + 1 /\ Len(Chain') = Len(blocks) + 1
         /\ \A n \in 1 .. Len(blocks) : Chain'[n] = blocks[n]
         /\ Chain'[Len(blocks) + 1] = b /\ stored' = [stored EXCEPT ![Len(blocks) + 1] = b]
<1> DEFINE fee == AsU64(pending_base_fee)
<1>1. /\ TypeOK /\ block_number(blocks) = Len(blocks) /\ Len(blocks) < MaxBlocks
      /\ Len(blocks) \in Nat /\ status = "up" /\ status' = "up" /\ Running /\ Running'
      /\ fee \in 0 .. U64Modulus - 1 /\ Admissible(db, tx, fee) /\ now \in Nat
      /\ db \in Db /\ blocks \in Seq(Block)
  BY NextSealed, NodeAssumption DEF SendRawTransaction, Running, TypeOK
<1>2. b \in Block /\ b.number = Len(blocks) + 1
  <2>1. Len(blocks) + 1 \in 1 .. MaxBlocks
    BY SMT, <1>1, NodeAssumption
  <2>2. BlockArgs(db, blocks, tx, Len(blocks) + 1, now, fee)
    BY <1>1, <2>1 DEF BlockArgs, SealArgs
  <2>3. b = BlockOf(db, blocks, tx, Len(blocks) + 1, now, fee)
    BY <1>1 DEF NextBlock
  <2> QED
    BY SMT, <2>2, <2>3, BlockOfType
<1>3. blocks' = Append(blocks, b) /\ stored' = [stored EXCEPT ![Len(blocks) + 1] = b]
  BY <1>1, <1>2 DEF SendRawTransaction, seal_raw_with_fee, save_block, NextBlock
<1>4. Chain = blocks /\ Chain' = blocks'
  BY <1>1, ChainFacts, ChainFactsNext DEF ChainKnown, ChainRuns
<1> QED
  BY SMT, <1>1, <1>2, <1>3, <1>4, AppendProperties

\* eth_sendRawTransaction appends the block it seals and answers for it.
LEMMA SendRawFInv ==
  ASSUME IInv, IInv', FInv, NEW tx \in Tx, NEW now \in Time, SendRawTransaction(tx, now)
  PROVE  FInv'
<1> DEFINE b == NextBlock(tx, now)
           after == StateAfter(db, tx, now, AsU64(pending_base_fee))
<1> SUFFICES ASSUME faults' = {} PROVE Undisturbed'
  BY DEF FInv
<1>1. /\ Undisturbed /\ faults = {}
  BY NoFaultBefore DEF SendRawTransaction
<1>2. /\ TypeOK /\ CanSeal(tx) /\ Running /\ status = "up" /\ status' = "up"
      /\ block_number(blocks) = Len(blocks) /\ Len(blocks) \in Nat
      /\ UNCHANGED <<metaChain, spec, journal>>
  BY NextSealed DEF SendRawTransaction, CanSeal, Running, meta, legacy
<1>3. /\ db' = after /\ hist' = [hist EXCEPT ![Len(blocks) + 1] = after]
      /\ acked' = acked \cup {Id(b)}
  BY <1>1, <1>2 DEF SendRawTransaction, seal_raw_with_fee, Record
<1>4. /\ blocks' = Append(blocks, b) /\ b \in Block
      /\ Len(Chain') = Len(blocks) + 1
      /\ \A n \in 1 .. Len(blocks) : Chain'[n] = blocks[n]
      /\ Chain'[Len(blocks) + 1] = b /\ stored' = [stored EXCEPT ![Len(blocks) + 1] = b]
  BY SMT, SendChain
<1> HIDE DEF b, after
<1>5. /\ ChainSealed' /\ AnswersInChain' /\ StoreInChain'
      /\ b.root = rebuild_smt(hist'[Len(blocks) + 1]) /\ hist'[Len(blocks) + 1] = after
      /\ \A n \in 0 .. Len(blocks) : hist'[n] = hist[n]
  <2>1. /\ hist' = [hist EXCEPT ![Len(blocks) + 1] = StateAfter(db, tx, now, AsU64(pending_base_fee))]
        /\ acked' \subseteq acked \cup {Id(b)} /\ b = NextBlock(tx, now)
    BY <1>3 DEF b, after
  <2>2. /\ ChainSealed' /\ AnswersInChain' /\ StoreInChain'
        /\ b.root = rebuild_smt(hist'[Len(blocks) + 1])
        /\ hist'[Len(blocks) + 1] = StateAfter(db, tx, now, AsU64(pending_base_fee))
        /\ \A n \in 0 .. Len(blocks) : hist'[n] = hist[n]
    BY <1>1, <1>2, <1>4, <2>1, ChainGrows
  <2> QED
    BY <2>2 DEF after
<1>6. MemoryFollows'
  <2>1. /\ Len(blocks') = Len(blocks) + 1 /\ blocks'[Len(blocks) + 1] = b
        /\ \A n \in 1 .. Len(blocks) : blocks'[n] = blocks[n]
    BY SMT, <1>2, <1>4, AppendProperties DEF TypeOK
  <2>2. \A n \in 1 .. Len(blocks') : blocks'[n].root = rebuild_smt(hist'[n])
    <3> TAKE n \in 1 .. Len(blocks')
    <3>1. CASE n = Len(blocks) + 1
      BY <1>5, <2>1, <3>1
    <3>2. CASE n # Len(blocks) + 1
      <4>1. n \in 1 .. Len(blocks) /\ n \in 0 .. Len(blocks)
        BY SMT, <1>2, <2>1, <3>2
      <4> QED
        BY <1>1, <1>2, <1>5, <2>1, <4>1 DEF Undisturbed, MemoryFollows
    <3> QED
      BY <3>1, <3>2
  <2> QED
    BY <1>2, <1>3, <1>5, <2>1, <2>2 DEF MemoryFollows
<1>7. JournalFirst'
  BY <1>1, <1>2 DEF Undisturbed, JournalFirst
<1> QED
  BY <1>2, <1>5, <1>6, <1>7 DEF Undisturbed

\* A sealed block is in the store when the process dies before it answers.
LEMMA UnansweredChain ==
  ASSUME IInv, IInv', FInv, faults' = {}, NEW tx \in Tx, NEW now \in Time,
         SealUnanswered(tx, now), NEW b, b = NextBlock(tx, now)
  PROVE  /\ Chain = blocks /\ Chain' = Append(Chain, b) /\ b \in Block
         /\ b.number = Len(blocks) + 1 /\ Len(Chain') = Len(blocks) + 1
         /\ \A n \in 1 .. Len(blocks) : Chain'[n] = blocks[n]
         /\ Chain'[Len(blocks) + 1] = b /\ stored' = [stored EXCEPT ![Len(blocks) + 1] = b]
<1> DEFINE fee == AsU64(pending_base_fee)
           top == Len(blocks) + 1
<1>1. /\ TypeOK /\ SessionOK /\ block_number(blocks) = Len(blocks) /\ Len(blocks) < MaxBlocks
      /\ Len(blocks) \in Nat /\ Len(blocks) = height /\ status = "up" /\ Running /\ ~Running'
      /\ fee \in 0 .. U64Modulus - 1 /\ Admissible(db, tx, fee) /\ now \in Nat
      /\ db \in Db /\ blocks \in Seq(Block) /\ journal' = journal
  BY NextSealed, NodeAssumption
  DEF SealUnanswered, Exit, Running, TypeOK, legacy
<1>0. top \in 1 .. MaxBlocks
  BY SMT, <1>1, NodeAssumption
<1>2. b \in Block /\ b.number = top
  <2>1. BlockArgs(db, blocks, tx, top, now, fee)
    BY <1>0, <1>1 DEF BlockArgs, SealArgs
  <2>2. b = BlockOf(db, blocks, tx, top, now, fee)
    BY <1>1 DEF NextBlock
  <2> QED
    BY SMT, <2>1, <2>2, SealedBlock
<1>3. /\ stored' = [stored EXCEPT ![top] = b] /\ height' = top /\ top \in 1 .. MaxBlocks
  BY <1>0, <1>1, <1>2 DEF SealUnanswered, save_block
<1>4. journal = NoJournal
  <2>1. Undisturbed
    BY NoFaultBefore DEF SealUnanswered
  <2> QED
    BY <1>1, <2>1 DEF Undisturbed, JournalFirst
<1>5. Chain = blocks
  BY <1>1, ChainFacts DEF ChainKnown, ChainRuns
<1>6. /\ Chain' \in Seq(Block) /\ Len(Chain') = top
      /\ \A n \in 1 .. top : Chain'[n] = stored'[n]
  BY <1>1, <1>3, <1>4, ChainFactsNext DEF ChainKnown, ChainTyped, ChainRests
<1>a. /\ 1 .. Len(blocks) \subseteq 1 .. MaxBlocks /\ top \notin 1 .. Len(blocks)
      /\ \A n \in 1 .. top : n = top \/ n \in 1 .. Len(blocks)
      /\ top \in 1 .. top /\ 1 .. Len(blocks) \subseteq 1 .. top
  <2>1. Len(blocks) \in Nat /\ Len(blocks) < MaxBlocks
    BY <1>1
  <2> QED
    BY SMT, <2>1, NodeAssumption
<1>7. stored'[top] = b /\ \A n \in 1 .. Len(blocks) : stored'[n] = blocks[n]
  <2>1. DOMAIN stored = 1 .. MaxBlocks /\ \A n \in 1 .. Len(blocks) : stored[n] = blocks[n]
    BY <1>1 DEF TypeOK, SessionOK
  <2> QED
    BY <1>3, <1>a, <2>1
<1>8. /\ Append(blocks, b) \in Seq(Block) /\ Len(Append(blocks, b)) = top
      /\ Append(blocks, b)[top] = b
      /\ \A n \in 1 .. Len(blocks) : Append(blocks, b)[n] = blocks[n]
  BY <1>1, <1>2, AppendedBlock
<1>9. \A n \in 1 .. top : Chain'[n] = Append(blocks, b)[n]
  BY <1>6, <1>7, <1>8, <1>a
<1>10. Chain' = Append(blocks, b)
  BY <1>6, <1>8, <1>9, SeqEqual
<1> QED
  BY <1>2, <1>3, <1>5, <1>6, <1>7, <1>10, <1>a

\* A seal that is never answered appends its block all the same.
LEMMA SealUnansweredFInv ==
  ASSUME IInv, IInv', FInv, NEW tx \in Tx, NEW now \in Time, SealUnanswered(tx, now)
  PROVE  FInv'
<1> DEFINE b == NextBlock(tx, now)
           after == StateAfter(db, tx, now, AsU64(pending_base_fee))
<1> SUFFICES ASSUME faults' = {} PROVE Undisturbed'
  BY DEF FInv
<1>1. /\ Undisturbed /\ faults = {}
  BY NoFaultBefore DEF SealUnanswered
<1>2. /\ CanSeal(tx) /\ block_number(blocks) = Len(blocks) /\ Running /\ ~Running'
      /\ status' = "down" /\ UNCHANGED <<metaChain, journal, acked>>
  BY NextSealed DEF SealUnanswered, CanSeal, Exit, Running, meta, legacy
<1>3. hist' = [hist EXCEPT ![Len(blocks) + 1] = after]
  BY <1>1, <1>2 DEF SealUnanswered, Record
<1>4. /\ Len(Chain') = Len(blocks) + 1
      /\ \A n \in 1 .. Len(blocks) : Chain'[n] = blocks[n]
      /\ Chain'[Len(blocks) + 1] = b /\ stored' = [stored EXCEPT ![Len(blocks) + 1] = b]
  BY SMT, UnansweredChain
<1> HIDE DEF b, after
<1>5. ChainSealed' /\ AnswersInChain' /\ StoreInChain'
  BY <1>1, <1>2, <1>3, <1>4, ChainGrows DEF b, after
<1>6. JournalFirst' /\ MemoryFollows'
  BY <1>1, <1>2 DEF Undisturbed, JournalFirst, MemoryFollows
<1> QED
  BY <1>2, <1>5, <1>6 DEF Undisturbed

\* Failed writes and reads of unloaded slots are faults; a faucet key is no
\* part of the chain.
LEMMA FaultsFInv ==
  ASSUME NEW kind, Fault(kind) PROVE FInv' /\ faults' # {}
  BY DEF Fault, FInv

\* A step that leaves the chain's places alone leaves the chain alone.
LEMMA IdleFInv ==
  ASSUME IInv, IInv', FInv,
         UNCHANGED <<metaChain, spec, status, db, blocks, todo, height, stored, journal,
                     hist, acked, faults>>
  PROVE  FInv' /\ Chain' = Chain
<1>1. Chain' = Chain
  <2>1. CASE Running
    BY <2>1, ChainPlaces, ChainPlacesNext DEF Running
  <2>2. CASE ~Running
    BY <2>2, ChainStays DEF Running
  <2> QED
    BY <2>1, <2>2
<1> SUFFICES ASSUME faults' = {} PROVE Undisturbed'
  BY <1>1 DEF FInv
<1>2. Undisturbed
  BY DEF FInv
<1>3. ChainSealed' /\ AnswersInChain' /\ StoreInChain'
  BY <1>1, <1>2, ChainKept DEF Undisturbed
<1>4. JournalFirst' /\ MemoryFollows'
  BY <1>2 DEF Undisturbed, JournalFirst, MemoryFollows, Running
<1> QED
  BY <1>2, <1>3, <1>4 DEF Undisturbed

\* Every step keeps the invariant.
LEMMA StepFInv == IInv /\ IInv' /\ FInv /\ [Next]_vars => FInv'
<1> SUFFICES ASSUME IInv, IInv', FInv, [Next]_vars PROVE FInv'
  OBVIOUS
<1>1. ASSUME NEW s \in Specs, Open(s) PROVE FInv'
  BY <1>1, OpenFreshFInv, OpenLegacyFInv, OpenStoredFInv, OpenRejectsFInv DEF Open
<1>2. CASE Opening
  <2>1. ASSUME ReplayRefused \/ ReplayDiverges PROVE FInv'
    BY <2>1, ReplayNeverStops DEF FInv
  <2> QED
    BY <1>2, <2>1, MigrateKeyFInv, RenameJournalFInv, ReplayBlockFInv, FinishOpenFInv
    DEF Opening
<1>3. CASE Crash
  BY <1>3, CrashFInv
<1>4. ASSUME NEW tx \in Tx, NEW now \in Time,
             SendRawTransaction(tx, now) \/ SealUnanswered(tx, now) \/ SealFails(tx, now)
      PROVE  FInv'
  <2>1. ASSUME SealFails(tx, now) PROVE FInv'
    BY <2>1, FaultsFInv DEF SealFails
  <2> QED
    BY <1>4, <2>1, SendRawFInv, SealUnansweredFInv
<1>5. ASSUME NEW s \in Slot, StorageOf(s) PROVE FInv'
  BY <1>5, FaultsFInv DEF StorageOf
<1>6. ASSUME NEW read \in SUBSET Slot, Call(read) PROVE FInv'
  BY <1>6, FaultsFInv DEF Call
<1>7. ASSUME NEW k \in Keys, SetFaucetKey(k) PROVE FInv'
  BY <1>7, IdleFInv DEF SetFaucetKey, meta, chainData, legacy, aux
<1>8. CASE UNCHANGED vars
  BY <1>8, IdleFInv DEF vars, meta, chainData, legacy, volatile, aux
<1> QED
  BY <1>1, <1>2, <1>3, <1>4, <1>5, <1>6, <1>7, <1>8 DEF Next

\* The invariant holds throughout.
LEMMA AlwaysFInv == Spec => []FInv
  BY InitFInv, StepFInv, AlwaysIInv, PTL DEF Spec

-----------------------------------------------------------------------------
(* The theorems, as long as no fault has happened. *)

\* Replay determinism: open() never reports a divergence, and the node comes
\* up in exactly the state in which the head block was first sealed.
THEOREM ReplayIsExact == Spec => []ReplayReproduces
<1>1. IInv /\ FInv => ReplayReproduces
  <2> SUFFICES ASSUME IInv, Undisturbed
               PROVE  /\ status # "diverged"
                      /\ status = "up" =>
                           /\ db = hist[height]
                           /\ height > 0 => stored[height].root = rebuild_smt(db)
    BY DEF FInv, ReplayReproduces
  <2>1. status # "diverged"
    BY DEF Undisturbed
  <2> SUFFICES ASSUME status = "up"
               PROVE  /\ db = hist[height]
                      /\ height > 0 => stored[height].root = rebuild_smt(db)
    BY <2>1
  <2>2. /\ Running /\ SessionOK /\ Len(blocks) = height /\ height \in Nat
    BY SMT, NodeAssumption DEF IInv, PhaseOK, Running, TypeOK
  <2>3. db = hist[height]
    BY <2>2 DEF Undisturbed, MemoryFollows
  <2>4. ASSUME height > 0 PROVE stored[height].root = rebuild_smt(db)
    <3>1. height \in 1 .. Len(blocks)
      BY SMT, <2>2, <2>4
    <3>2. stored[height] = blocks[height]
      BY <2>2, <3>1 DEF SessionOK
    <3>3. blocks[height].root = rebuild_smt(hist[height])
      BY <2>2, <3>1 DEF Undisturbed, MemoryFollows
    <3> QED
      BY <2>3, <3>2, <3>3
  <2> QED
    BY <2>3, <2>4
<1> QED
  BY <1>1, AlwaysIInv, AlwaysFInv, PTL

\* A node that is up has every block a client was ever told of, those of the
\* journal era included.
THEOREM AnswersSurvive == Spec => []AnswersAreDurable
<1>1. IInv /\ FInv => AnswersAreDurable
  <2> SUFFICES ASSUME IInv, Undisturbed, status = "up", NEW a \in acked
               PROVE  a \in {Id(b) : b \in Range(blocks)}
    BY DEF FInv, AnswersAreDurable
  <2>1. Chain = blocks /\ blocks \in Seq(Block)
    BY ChainFacts DEF ChainKnown, ChainRuns, Running, IInv, TypeOK
  <2>2. PICK n \in 1 .. Len(blocks) : a = Id(blocks[n])
    BY <2>1 DEF Undisturbed, AnswersInChain
  <2>3. blocks[n] \in Range(blocks)
    BY <2>1, LenProperties DEF Range
  <2> QED
    BY <2>2, <2>3
<1> QED
  BY <1>1, AlwaysIInv, AlwaysFInv, PTL

\* What a step may do to the blocks of the store: fill in a root.
RootsFilledIn ==
  \A n \in 1 .. MaxBlocks :
    stored[n] # NoBlock =>
      /\ stored'[n] # NoBlock
      /\ stored[n] = [stored'[n] EXCEPT !.root = stored[n].root]
      /\ stored[n].root \in {NoRoot, stored'[n].root}

\* A step that writes no block.
LEMMA StoreKept == ASSUME IInv, UNCHANGED stored PROVE RootsFilledIn
<1> SUFFICES ASSUME NEW n \in 1 .. MaxBlocks, stored[n] # NoBlock
             PROVE  stored[n] = [stored[n] EXCEPT !.root = stored[n].root]
  BY DEF RootsFilledIn
<1>1. stored[n] \in Block
  BY DEF IInv, TypeOK
<1> QED
  BY <1>1 DEF Block

\* A step that writes one block, over an older copy of it or over nothing.
LEMMA StoreWritten ==
  ASSUME IInv, NEW top \in 1 .. MaxBlocks, NEW r \in Block, stored' = [stored EXCEPT ![top] = r],
         stored[top] # NoBlock =>
           SameBlock(stored[top], r) /\ stored[top].root \in {NoRoot, r.root}
  PROVE  RootsFilledIn
<1> SUFFICES ASSUME NEW n \in 1 .. MaxBlocks, stored[n] # NoBlock
             PROVE  /\ stored'[n] # NoBlock
                    /\ stored[n] = [stored'[n] EXCEPT !.root = stored[n].root]
                    /\ stored[n].root \in {NoRoot, stored'[n].root}
  BY DEF RootsFilledIn
<1>1. stored[n] \in Block /\ stored'[n] = IF n = top THEN r ELSE stored[n]
  BY DEF IInv, TypeOK
<1>2. CASE n = top
  BY <1>1, <1>2, NodeAssumption DEF SameBlock
<1>3. CASE n # top
  BY <1>1, <1>3 DEF Block
<1> QED
  BY <1>2, <1>3

\* Replay writes a block over an older copy of the same block.
LEMMA ReplayFillsIn ==
  ASSUME IInv, IInv', FInv, faults' = {}, ReplayBlock PROVE RootsFilledIn
<1>1. Undisturbed
  BY NoFaultBefore DEF ReplayBlock, aux
<1> DEFINE top == Len(blocks) + 1
           r == BlockOf(db, blocks, Head(todo).tx, Head(todo).number,
                        Head(todo).timestamp, ReplayFee(Head(todo)))
<1>2. /\ top \in 1 .. MaxBlocks /\ stored' = [stored EXCEPT ![top] = r]
      /\ r \in Block /\ SameBlock(Chain[top], r) /\ r.root = rebuild_smt(hist[top])
  BY <1>1, ReplayBlockChain
<1> HIDE DEF top, r
<1>3. ASSUME stored[top] # NoBlock
      PROVE  SameBlock(stored[top], r) /\ stored[top].root \in {NoRoot, r.root}
  <2>1. SameBlock(stored[top], Chain[top]) /\ stored[top].root \in {NoRoot, r.root}
    BY <1>1, <1>2, <1>3 DEF Undisturbed, StoreInChain
  <2> QED
    BY <1>2, <2>1 DEF SameBlock, Block
<1> QED
  BY <1>2, <1>3, StoreWritten

\* Sealing writes where there was no block.
LEMMA SealFillsIn ==
  ASSUME IInv, IInv', FInv, faults' = {}, NEW tx \in Tx, NEW now \in Time,
         SendRawTransaction(tx, now) \/ SealUnanswered(tx, now)
  PROVE  RootsFilledIn
<1>1. Undisturbed
  BY NoFaultBefore DEF SendRawTransaction, SealUnanswered
<1> DEFINE b == NextBlock(tx, now)
           top == Len(blocks) + 1
<1>2. /\ Chain = blocks /\ b \in Block /\ stored' = [stored EXCEPT ![top] = b]
  BY SMT, SendChain, UnansweredChain
<1>3. Len(blocks) \in Nat /\ top \in 1 .. MaxBlocks
  BY SMT, NextSealed, NodeAssumption DEF SendRawTransaction, SealUnanswered
<1> HIDE DEF b
<1>4. stored[top] = NoBlock
  BY SMT, <1>1, <1>2, <1>3 DEF Undisturbed, StoreInChain
<1> HIDE DEF top
<1> QED
  BY <1>2, <1>3, <1>4, StoreWritten

\* A block that is stored stays where it is: it is never written again with
\* another hash, transaction, fee or state root.
THEOREM HistoryIsImmutable == Spec => HistoryImmutable
<1>1. IInv /\ IInv' /\ FInv /\ [Next]_vars => (faults' = {} => RootsFilledIn)
  <2> SUFFICES ASSUME IInv, IInv', FInv, [Next]_vars, faults' = {} PROVE RootsFilledIn
    OBVIOUS
  <2>1. ASSUME NEW s \in Specs, Open(s) PROVE UNCHANGED stored
    BY <2>1 DEF Open, OpenFresh, OpenLegacy, OpenStored, OpenRejects, chainData
  <2>2. ASSUME Opening PROVE RootsFilledIn
    <3>1. ASSUME MigrateKey \/ RenameJournal \/ FinishOpen PROVE UNCHANGED stored
      BY <3>1 DEF MigrateKey, RenameJournal, FinishOpen, chainData
    <3> QED
      BY <2>2, <3>1, StoreKept, ReplayFillsIn, ReplayNeverStops DEF Opening
  <2>3. ASSUME Crash PROVE UNCHANGED stored
    BY <2>3 DEF Crash, chainData
  <2>4. ASSUME NEW tx \in Tx, NEW now \in Time,
               SendRawTransaction(tx, now) \/ SealUnanswered(tx, now) \/ SealFails(tx, now)
        PROVE  RootsFilledIn
    <3>1. ASSUME SealFails(tx, now) PROVE UNCHANGED stored
      BY <3>1 DEF SealFails, chainData
    <3> QED
      BY <2>4, <3>1, StoreKept, SealFillsIn
  <2>5. ASSUME NEW s \in Slot, StorageOf(s) PROVE UNCHANGED stored
    BY <2>5 DEF StorageOf, chainData
  <2>6. ASSUME NEW read \in SUBSET Slot, Call(read) PROVE UNCHANGED stored
    BY <2>6 DEF Call, chainData
  <2>7. ASSUME NEW k \in Keys, SetFaucetKey(k) PROVE UNCHANGED stored
    BY <2>7 DEF SetFaucetKey, chainData
  <2>8. ASSUME UNCHANGED vars PROVE UNCHANGED stored
    BY <2>8 DEF vars, chainData
  <2> QED
    BY <2>1, <2>2, <2>3, <2>4, <2>5, <2>6, <2>7, <2>8, StoreKept DEF Next
<1>2. (faults' = {} => RootsFilledIn) =>
        (faults' = {} =>
           \A n \in 1 .. MaxBlocks :
             stored[n] # NoBlock =>
               /\ stored'[n] # NoBlock
               /\ stored[n] = [stored'[n] EXCEPT !.root = stored[n].root]
               /\ stored[n].root \in {NoRoot, stored'[n].root})
  BY DEF RootsFilledIn
<1> QED
  BY <1>1, <1>2, AlwaysIInv, AlwaysFInv, PTL DEF Spec, HistoryImmutable

-----------------------------------------------------------------------------
(* The node implements the ledger, step by step. *)

Entry == (1 .. MaxBlocks) \X Hash \X Tx

\* The places of the blocks of a chain are a log.
LEMMA IdsType ==
  ASSUME NEW s \in Seq(Block)
  PROVE  /\ Ids(s) \in Seq(Entry) /\ Len(Ids(s)) = Len(s) /\ DOMAIN Ids(s) = 1 .. Len(s)
         /\ Ids(s) # NoChain /\ \A n \in 1 .. Len(s) : Ids(s)[n] = Id(s[n])
<1>1. /\ Len(s) \in Nat /\ DOMAIN s = 1 .. Len(s)
      /\ \A n \in 1 .. Len(s) : s[n] \in Block
  BY LenProperties, ElementOfSeq
<1>2. \A n \in 1 .. Len(s) : Id(s[n]) \in Entry
  BY <1>1 DEF Id, Entry, Block
<1>3. Ids(s) = [n \in 1 .. Len(s) |-> Id(s[n])]
  BY <1>1 DEF Ids
<1>4. Ids(s) \in Seq(Entry) /\ Len(Ids(s)) = Len(s)
  BY SMT, <1>1, <1>2, <1>3, SeqDef
<1> QED
  BY <1>3, <1>4, OutageAssumption DEF Entry

\* A chain that differs in roots only has the same places.
LEMMA IdsEqual ==
  ASSUME NEW s \in Seq(Block), NEW u \in Seq(Block), Len(s) = Len(u),
         \A n \in 1 .. Len(s) : Id(s[n]) = Id(u[n])
  PROVE  Ids(s) = Ids(u)
<1>1. \A n \in 1 .. Len(Ids(s)) : Ids(s)[n] = Ids(u)[n]
  BY IdsType
<1> QED
  BY <1>1, IdsType, SeqEqual

\* A block on top is an entry at the end.
LEMMA IdsAppend ==
  ASSUME NEW s \in Seq(Block), NEW b \in Block
  PROVE  Ids(Append(s, b)) = Append(Ids(s), Id(b)) /\ Append(s, b) \in Seq(Block)
<1>1. /\ Append(s, b) \in Seq(Block) /\ Len(Append(s, b)) = Len(s) + 1 /\ Len(s) \in Nat
      /\ Append(s, b)[Len(s) + 1] = b /\ \A n \in 1 .. Len(s) : Append(s, b)[n] = s[n]
  BY SMT, AppendProperties, LenProperties
<1>2. Id(b) \in Entry
  BY DEF Id, Entry, Block
<1>3. /\ Ids(s) \in Seq(Entry) /\ Len(Ids(s)) = Len(s)
      /\ \A n \in 1 .. Len(s) : Ids(s)[n] = Id(s[n])
  BY IdsType
<1>4. /\ Append(Ids(s), Id(b)) \in Seq(Entry) /\ Len(Append(Ids(s), Id(b))) = Len(s) + 1
      /\ Append(Ids(s), Id(b))[Len(s) + 1] = Id(b)
      /\ \A n \in 1 .. Len(s) : Append(Ids(s), Id(b))[n] = Id(s[n])
  BY SMT, <1>2, <1>3, AppendProperties
<1>5. /\ Ids(Append(s, b)) \in Seq(Entry) /\ Len(Ids(Append(s, b))) = Len(s) + 1
      /\ \A n \in 1 .. Len(s) + 1 : Ids(Append(s, b))[n] = Id(Append(s, b)[n])
  BY <1>1, IdsType
<1>6. \A n \in 1 .. Len(s) + 1 : Ids(Append(s, b))[n] = Append(Ids(s), Id(b))[n]
  <2> SUFFICES ASSUME NEW n \in 1 .. Len(s) + 1
               PROVE  Ids(Append(s, b))[n] = Append(Ids(s), Id(b))[n]
    OBVIOUS
  <2>1. CASE n = Len(s) + 1
    BY <1>1, <1>4, <1>5, <2>1
  <2>2. CASE n # Len(s) + 1
    BY SMT, <1>1, <1>4, <1>5, <2>2
  <2> QED
    BY <2>1, <2>2
<1> QED
  BY <1>1, <1>4, <1>5, <1>6, SeqEqual

\* Initial states map to initial states.
LEMMA LedgerInit == Init => L!Init
<1> SUFFICES ASSUME Init PROVE L!Init
  OBVIOUS
<1>1. status = "down" /\ height = 0 /\ ~Running
  BY DEF Init, EmptyStore, Running
<1>2. CASE journal = NoJournal /\ acked = {}
  <2>1. Chain \in Seq(Block) /\ Len(Chain) = 0
    BY <1>1, <1>2, InitIInv, ChainFacts DEF ChainKnown, ChainTyped, ChainRests
  <2>2. Ids(Chain) = <<>> /\ DOMAIN Ids(Chain) = {}
    <3>1. Ids(Chain) \in Seq(Entry) /\ Len(Ids(Chain)) = 0 /\ DOMAIN Ids(Chain) = 1 .. 0
      BY <2>1, IdsType
    <3>2. 1 .. 0 = {}
      BY SMT
    <3> QED
      BY <3>1, <3>2, EmptySeq
  <2> QED
    BY <1>1, <1>2, <2>2 DEF L!Init, L!Range
<1>3. ASSUME NEW j \in Journals, journal = j, acked = {Id(b) : b \in Range(j.blocks)}
      PROVE  L!Init
  <2>1. Chain = j.blocks /\ j.blocks \in Seq(Block)
    BY <1>1, <1>3, ChainPlaces, NodeAssumption DEF JournalType
  <2>2. Range(Ids(j.blocks)) = {Id(b) : b \in Range(j.blocks)}
    <3>1. /\ DOMAIN Ids(j.blocks) = DOMAIN j.blocks
          /\ \A n \in DOMAIN j.blocks : Ids(j.blocks)[n] = Id(j.blocks[n])
      BY DEF Ids
    <3> QED
      BY <3>1 DEF Range
  <2>3. L!Range(Ids(j.blocks)) = Range(Ids(j.blocks))
    BY DEF L!Range, Range
  <2> QED
    BY <1>1, <1>3, <2>1, <2>2, <2>3 DEF L!Init
<1> QED
  BY <1>2, <1>3 DEF Init

\* While the node is up the ledger shows the whole log; otherwise it is down.
Shown == IF status = "up" THEN Ids(blocks) ELSE NoChain

ServesLog == status = "up" => Shown = Ids(Chain) /\ Shown # NoChain

\* What the ledger shows, before a step and after it.
LEMMA ShownIsLog == IInv => ServesLog
<1> SUFFICES ASSUME IInv, status = "up" PROVE Shown = Ids(Chain) /\ Shown # NoChain
  BY DEF ServesLog
<1>1. Chain = blocks /\ blocks \in Seq(Block)
  BY ChainFacts DEF ChainKnown, ChainRuns, Running, IInv, TypeOK
<1> QED
  BY <1>1, IdsType DEF Shown

\* The same after a step.
LEMMA ShownIsLogNext == IInv' => ServesLog'
  BY ShownIsLog, PTL

\* A step that keeps the chain starts the service, stops it, or is not seen.
LEMMA OutageStep ==
  ASSUME IInv, IInv', Chain' = Chain, acked' = acked,
         status = "up" /\ status' = "up" => blocks' = blocks
  PROVE  L!Start \/ L!Stop \/ UNCHANGED L!vars
<1>1. CASE status = "up" /\ status' = "up"
  BY <1>1 DEF L!vars, Ids
<1>2. CASE status # "up" /\ status' # "up"
  BY <1>2 DEF L!vars, Ids
<1>3. CASE status # "up" /\ status' = "up"
  <2>1. Shown' = Ids(Chain)
    BY <1>3, ShownIsLogNext DEF ServesLog, Ids
  <2> QED
    BY <1>3, <2>1 DEF L!Start, Shown, Ids
<1>4. CASE status = "up" /\ status' # "up"
  <2>1. Shown # NoChain
    BY <1>4, ShownIsLog DEF ServesLog
  <2> QED
    BY <1>4, <2>1 DEF L!Stop, Shown, Ids
<1> QED
  BY <1>1, <1>2, <1>3, <1>4

\* Sealing a block appends its entry to the log.
LEMMA EntryOf ==
  ASSUME IInv, NEW tx \in Tx, NEW now \in Time, CanSeal(tx),
         NEW b \in Block, b = NextBlock(tx, now), Chain = blocks, Chain' = Append(Chain, b)
  PROVE  /\ Id(b) = L!EntryFor(tx, now) /\ L!Fresh(tx)
         /\ Ids(Chain)' = Append(Ids(Chain), Id(b))
<1>1. /\ TypeOK /\ SessionOK /\ block_number(blocks) = Len(blocks) /\ blocks \in Seq(Block)
      /\ Len(blocks) \in Nat /\ Sealable(tx, AsU64(pending_base_fee)) /\ Running /\ status = "up"
  BY NextSealed DEF Running, TypeOK
<1>2. /\ Len(Ids(Chain)) = Len(blocks) /\ DOMAIN Ids(Chain) = 1 .. Len(blocks)
      /\ Ids(Chain) \in Seq(Entry) /\ \A n \in 1 .. Len(blocks) : Ids(Chain)[n] = Id(blocks[n])
  BY <1>1, IdsType
<1>3. L!Fresh(tx)
  BY SMT, <1>1, <1>2, AdmissibleIsNew DEF L!Fresh, Id
<1>4. L!HeadHash = next_parent_hash(blocks)
  <2>1. CASE blocks = <<>>
    <3>1. Ids(Chain) = <<>>
      BY <1>2, <2>1, EmptyTypes, EmptySeq
    <3> QED
      BY <2>1, <3>1 DEF L!HeadHash, next_parent_hash, genesis_hash
  <2>2. CASE blocks # <<>>
    <3>1. Len(blocks) \in 1 .. Len(blocks) /\ Len(Ids(Chain)) # 0
      BY SMT, <1>1, <1>2, <2>2, EmptySeq
    <3>2. Ids(Chain) # <<>>
      BY <3>1, EmptyTypes
    <3>3. Ids(Chain)[Len(Ids(Chain))] = Id(blocks[Len(blocks)])
      BY <1>2, <3>1
    <3> QED
      BY SMT, <2>2, <3>2, <3>3 DEF L!HeadHash, next_parent_hash, Id
  <2> QED
    BY <2>1, <2>2
<1>5. Id(b) = <<Len(blocks) + 1, Append(next_parent_hash(blocks), <<Len(blocks) + 1, now>>), tx>>
  BY <1>1 DEF Id, NextBlock, BlockOf, block_hash
<1>6. Id(b) = L!EntryFor(tx, now)
  BY <1>2, <1>4, <1>5 DEF L!EntryFor
<1>7. Ids(Chain)' = Append(Ids(Chain), Id(b))
  <2>1. Ids(Append(Chain, b)) = Append(Ids(Chain), Id(b))
    BY <1>1, IdsAppend
  <2> QED
    BY <2>1 DEF Ids
<1> QED
  BY <1>3, <1>6, <1>7

\* send_raw_transaction, answered or not, seals on the ledger.
LEMMA SealStep ==
  ASSUME IInv, IInv', FInv, faults' = {}, NEW tx \in Tx, NEW now \in Time,
         SendRawTransaction(tx, now) \/ SealUnanswered(tx, now)
  PROVE  L!Seal(tx, now)
<1> DEFINE b == NextBlock(tx, now)
<1>1. /\ CanSeal(tx) /\ status = "up" /\ faults = {}
  BY NoFaultBefore DEF SendRawTransaction, SealUnanswered, CanSeal
<1>2. /\ Chain = blocks /\ Chain' = Append(Chain, b) /\ b \in Block
  BY SMT, SendChain, UnansweredChain
<1> HIDE DEF b
<1>3. /\ Id(b) = L!EntryFor(tx, now) /\ L!Fresh(tx)
      /\ Ids(Chain)' = Append(Ids(Chain), Id(b))
  BY <1>1, <1>2, EntryOf DEF b
<1>4. Shown # NoChain
  BY <1>1, ShownIsLog DEF ServesLog
<1>5. CASE SendRawTransaction(tx, now)
  <2>1. status' = "up" /\ acked' = acked \cup {Id(b)}
    BY <1>1, <1>5 DEF SendRawTransaction, CanSeal, b
  <2>2. Shown' = Ids(Chain)'
    BY <2>1, ShownIsLogNext DEF ServesLog
  <2> QED
    BY <1>3, <1>4, <2>1, <2>2 DEF L!Seal, Shown
<1>6. CASE SealUnanswered(tx, now)
  <2>1. status' = "down" /\ acked' = acked
    BY <1>6 DEF SealUnanswered, Exit
  <2>2. Shown' = NoChain
    BY <2>1 DEF Shown
  <2> QED
    BY <1>3, <1>4, <2>1, <2>2 DEF L!Seal, Shown
<1> QED
  BY <1>5, <1>6

\* Replay fills in roots, which the ledger does not see.
LEMMA ReplayStep ==
  ASSUME IInv, IInv', FInv, faults' = {}, ReplayBlock PROVE UNCHANGED L!vars
<1>1. Undisturbed /\ status = "replaying" /\ status' = "replaying" /\ acked' = acked
  BY NoFaultBefore DEF ReplayBlock, aux
<1> DEFINE top == Len(blocks) + 1
           r == BlockOf(db, blocks, Head(todo).tx, Head(todo).number,
                        Head(todo).timestamp, ReplayFee(Head(todo)))
<1>2. /\ Len(Chain') = Len(Chain) /\ r \in Block /\ SameBlock(Chain[top], r)
      /\ \A n \in 1 .. Len(Chain) : Chain'[n] = IF n = top THEN r ELSE Chain[n]
  BY <1>1, ReplayBlockChain
<1> HIDE DEF top, r
<1>3. Chain \in Seq(Block) /\ Chain' \in Seq(Block)
  BY ChainFacts, ChainFactsNext DEF ChainKnown, ChainTyped
<1>4. \A n \in 1 .. Len(Chain) : Id(Chain[n]) = Id(Chain'[n])
  BY SMT, <1>2 DEF SameBlock, Id, Block
<1>5. Ids(Chain)' = Ids(Chain)
  <2>1. Ids(Chain') = Ids(Chain)
    BY <1>2, <1>3, <1>4, IdsEqual
  <2> QED
    BY <2>1 DEF Ids
<1> QED
  BY <1>1, <1>5 DEF L!vars

NoFault == faults = {}

\* Every step without a fault is a step of the ledger, or leaves it alone.
LEMMA LedgerStep ==
  IInv /\ IInv' /\ FInv /\ [Next]_vars => (NoFault' => [L!Next]_(L!vars))
<1> SUFFICES ASSUME IInv, IInv', FInv, [Next]_vars, faults' = {}
             PROVE  L!Start \/ L!Stop \/ UNCHANGED L!vars
                      \/ \E tx \in Tx, now \in Time : L!Seal(tx, now)
  BY DEF L!Next, NoFault
<1>1. ASSUME NEW s \in Specs, Open(s) PROVE L!Start \/ L!Stop \/ UNCHANGED L!vars
  <2>1. Chain' = Chain
    BY <1>1, OpenFreshFInv, OpenLegacyFInv, OpenStoredFInv, OpenRejectsFInv DEF Open
  <2>2. status # "up" /\ acked' = acked
    BY <1>1 DEF Open, OpenFresh, OpenLegacy, OpenStored, OpenRejects, aux
  <2> QED
    BY <2>1, <2>2, OutageStep
<1>2. ASSUME Opening PROVE L!Start \/ L!Stop \/ UNCHANGED L!vars
  <2>1. ASSUME MigrateKey \/ RenameJournal \/ FinishOpen
        PROVE  L!Start \/ L!Stop \/ UNCHANGED L!vars
    <3>1. Chain' = Chain
      BY <2>1, MigrateKeyFInv, RenameJournalFInv, FinishOpenFInv
    <3>2. status # "up" /\ acked' = acked
      BY <2>1 DEF MigrateKey, RenameJournal, FinishOpen, aux
    <3> QED
      BY <3>1, <3>2, OutageStep
  <2> QED
    BY <1>2, <2>1, ReplayStep, ReplayNeverStops DEF Opening
<1>3. ASSUME Crash PROVE L!Start \/ L!Stop \/ UNCHANGED L!vars
  <2>1. Chain' = Chain /\ status' # "up" /\ acked' = acked
    BY <1>3, CrashFInv DEF Crash, Exit
  <2> QED
    BY <2>1, OutageStep
<1>4. ASSUME NEW tx \in Tx, NEW now \in Time,
             SendRawTransaction(tx, now) \/ SealUnanswered(tx, now) \/ SealFails(tx, now)
      PROVE  L!Seal(tx, now)
  BY <1>4, SealStep, FaultsFInv DEF SealFails
<1>5. ASSUME NEW s \in Slot, StorageOf(s) PROVE FALSE
  BY <1>5, FaultsFInv DEF StorageOf
<1>6. ASSUME NEW read \in SUBSET Slot, Call(read) PROVE FALSE
  BY <1>6, FaultsFInv DEF Call
<1>7. ASSUME NEW k \in Keys, SetFaucetKey(k) PROVE L!Start \/ L!Stop \/ UNCHANGED L!vars
  <2>1. Chain' = Chain /\ UNCHANGED <<blocks, acked>>
    BY <1>7, IdleFInv DEF SetFaucetKey, meta, chainData, legacy, aux
  <2> QED
    BY <2>1, OutageStep
<1>8. ASSUME UNCHANGED vars PROVE L!Start \/ L!Stop \/ UNCHANGED L!vars
  <2>1. Chain' = Chain /\ UNCHANGED <<blocks, acked>>
    BY <1>8, IdleFInv DEF vars, meta, chainData, legacy, volatile, aux
  <2> QED
    BY <2>1, OutageStep
<1> QED
  BY <1>1, <1>2, <1>3, <1>4, <1>5, <1>6, <1>7, <1>8 DEF Next

\* Whatever the journal, the specs, the transactions and the clock, a node
\* without faults that is opened, migrated, replayed, killed and reopened is
\* one append-only ledger with outages.
THEOREM NodeIsLedger == ASSUME Faults = {} PROVE Spec => ImplementsLedger
<1>1. Init => NoFault
  BY DEF Init, NoFault
<1>2. [Next]_vars /\ NoFault => NoFault'
  <2> SUFFICES ASSUME [Next]_vars, faults = {} PROVE faults' = {}
    BY DEF NoFault
  <2>1. \A kind : ~Fault(kind)
    BY DEF Fault
  <2>2. ASSUME NEW s \in Specs, Open(s) PROVE faults' = {}
    BY <2>1, <2>2 DEF Open, OpenFresh, OpenLegacy, OpenStored, OpenRejects, aux
  <2>3. CASE Opening
    BY <2>3 DEF Opening, MigrateKey, RenameJournal, ReplayBlock, ReplayRefused,
       ReplayDiverges, FinishOpen, aux
  <2>4. CASE Crash
    BY <2>1, <2>4 DEF Crash
  <2>5. ASSUME NEW tx \in Tx, NEW now \in Time,
               SendRawTransaction(tx, now) \/ SealUnanswered(tx, now) \/ SealFails(tx, now)
        PROVE  faults' = {}
    BY <2>1, <2>5 DEF SendRawTransaction, SealUnanswered, SealFails
  <2>6. ASSUME NEW s \in Slot, StorageOf(s) PROVE faults' = {}
    BY <2>1, <2>6 DEF StorageOf
  <2>7. ASSUME NEW read \in SUBSET Slot, Call(read) PROVE faults' = {}
    BY <2>1, <2>7 DEF Call
  <2>8. ASSUME NEW k \in Keys, SetFaucetKey(k) PROVE faults' = {}
    BY <2>8 DEF SetFaucetKey, aux
  <2>9. CASE UNCHANGED vars
    BY <2>9 DEF vars, aux
  <2> QED
    BY <2>2, <2>3, <2>4, <2>5, <2>6, <2>7, <2>8, <2>9 DEF Next
<1> QED
  BY <1>1, <1>2, LedgerInit, LedgerStep, AlwaysIInv, AlwaysFInv, PTL
  DEF Spec, ImplementsLedger, L!Spec

-----------------------------------------------------------------------------
(* What a node that is up serves, as long as no fault has happened. *)

\* A step that leaves the node running, on its spec, and block 0 alone.
LEMMA GenesisStays ==
  ASSUME GenesisKept, Running, faults' = {} => faults = {}, spec' = spec,
         hist'[0] = hist[0]
  PROVE  GenesisKept'
BY DEF GenesisKept, Running

\* Every step keeps the genesis.
LEMMA StepGenesis == IInv /\ FInv /\ GenesisKept /\ [Next]_vars => GenesisKept'
<1> SUFFICES ASSUME IInv, FInv, GenesisKept, [Next]_vars PROVE GenesisKept'
  OBVIOUS
<1>0. TypeOK /\ hist \in [0 .. MaxBlocks -> Db] /\ 0 \in 0 .. MaxBlocks
  BY SMT, NodeAssumption DEF IInv, TypeOK
<1>1. ASSUME NEW s \in Specs, Open(s) PROVE GenesisKept'
  <2>1. CASE OpenFresh(s)
    BY <1>0, <2>1 DEF OpenFresh, GenesisKept
  <2>2. CASE OpenLegacy(s)
    BY <2>2 DEF OpenLegacy, GenesisKept, Running
  <2>3. CASE OpenStored(s)
    <3>1. faults' = {} => apply_genesis(spec') = hist[0]
      BY <2>3 DEF OpenStored, Fault
    <3>2. hist' = hist
      BY <2>3 DEF OpenStored
    <3> QED BY <3>1, <3>2 DEF GenesisKept
  <2>4. CASE OpenRejects(s)
    BY <2>4 DEF OpenRejects, Exit, GenesisKept, Running
  <2> QED BY <1>1, <2>1, <2>2, <2>3, <2>4 DEF Open
<1>2. CASE Opening
  <2>1. CASE MigrateKey
    BY <2>1 DEF MigrateKey, GenesisKept, Running
  <2>2. CASE RenameJournal
    <3>1. status = "renaming" /\ UNCHANGED <<spec, hist, faults>>
      BY <2>2 DEF RenameJournal, aux
    <3>2. faults = {} => apply_genesis(spec) = hist[0]
      BY <3>1 DEF FInv, Undisturbed, JournalFirst
    <3> QED BY <3>1, <3>2 DEF GenesisKept
  <2>3. CASE ReplayBlock
    BY <2>3, GenesisStays DEF ReplayBlock, aux, Running
  <2>4. CASE ReplayRefused
    BY <2>4 DEF ReplayRefused, Exit, GenesisKept, Running
  <2>5. CASE ReplayDiverges
    BY <2>5 DEF ReplayDiverges, Exit, GenesisKept, Running
  <2>6. CASE FinishOpen
    BY <2>6, GenesisStays DEF FinishOpen, aux, Running
  <2> QED BY <1>2, <2>1, <2>2, <2>3, <2>4, <2>5, <2>6 DEF Opening
<1>3. CASE Crash
  BY <1>3 DEF Crash, Exit, GenesisKept, Running
<1>4. ASSUME NEW tx \in Tx, NEW now \in Time,
             SendRawTransaction(tx, now) \/ SealUnanswered(tx, now) \/ SealFails(tx, now)
      PROVE  GenesisKept'
  <2>1. CASE SendRawTransaction(tx, now)
    <3> DEFINE top == block_number(blocks) + 1
    <3>1. CanSeal(tx) /\ Record(top, db') /\ UNCHANGED <<spec, faults>>
      BY <2>1 DEF SendRawTransaction
    <3>2. status = "up" /\ top # 0
      BY SMT, <3>1, NextSealed
    <3>3. hist'[0] = hist[0]
      <4> HIDE DEF top
      <4> QED BY <1>0, <3>1, <3>2 DEF Record
    <3> QED BY <3>1, <3>2, <3>3, GenesisStays DEF Running
  <2>2. CASE SealUnanswered(tx, now)
    BY <2>2 DEF SealUnanswered, Exit, GenesisKept, Running
  <2>3. CASE SealFails(tx, now)
    BY <2>3 DEF SealFails, Fault, GenesisKept
  <2> QED BY <1>4, <2>1, <2>2, <2>3
<1>5. ASSUME NEW s \in Slot, StorageOf(s) PROVE GenesisKept'
  BY <1>5 DEF StorageOf, Fault, GenesisKept
<1>6. ASSUME NEW read \in SUBSET Slot, Call(read) PROVE GenesisKept'
  BY <1>6 DEF Call, Fault, GenesisKept
<1>7. ASSUME NEW k \in Keys, SetFaucetKey(k) PROVE GenesisKept'
  BY <1>7, GenesisStays DEF SetFaucetKey, aux, Running
<1>8. CASE UNCHANGED vars
  BY <1>8 DEF vars, volatile, aux, GenesisKept, Running
<1> QED
  BY <1>1, <1>2, <1>3, <1>4, <1>5, <1>6, <1>7, <1>8 DEF Next

\* The genesis is kept throughout.
LEMMA AlwaysGenesis == Spec => []GenesisKept
<1>1. Init => GenesisKept
  BY DEF Init, GenesisKept, Running
<1> QED
  BY <1>1, StepGenesis, AlwaysIInv, AlwaysFInv, PTL DEF Spec
=============================================================================
