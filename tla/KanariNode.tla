----------------------------- MODULE KanariNode -----------------------------
(***************************************************************************)
(* One node: the in-memory chain and EVM state (crates/move-execution) and *)
(* the RocksDB chain store below it (crates/storage), through opening,     *)
(* legacy migration, replay, instant sealing, failed writes and crashes.   *)
(*                                                                         *)
(* What one lock acquisition or one WriteBatch makes indivisible is one    *)
(* action.  A crash may fall between any two durable writes.               *)
(***************************************************************************)
EXTENDS Evm

CONSTANTS
  Specs,       \* chain specs an operator may start the node with
  Journals,    \* legacy journals that may lie in the data directory
  Keys,        \* faucet secrets
  Time,        \* values the wall clock may show, in any order
  MaxBlocks,   \* bound: blocks are numbered 1 .. MaxBlocks
  Faults,      \* the kinds of fault that may happen, a subset of FaultKind
  NoBlock, NoReceipt, NoRoot, NoJournal, NoKey, NoChain   \* absent values

VARIABLES
  \* Durable: RocksDB keys m:chain_id, m:genesis, m:faucet_key, m:height,
  \* b:*, r:* (with t:*, always written beside it), and the legacy files.
  metaChain, metaAlloc, storedKey, height, stored, storedReceipts,
  journal, sidecar,
  \* Volatile: the KanariNode value, and how far open() has come.
  status, spec, db, blocks, receipts, faucetKey, todo,
  \* Auxiliary: the state after genesis and after each block when it was first
  \* sealed, the blocks clients were told of (both recorded up to the first
  \* fault), and the kinds of fault that happened.
  hist, acked, faults

meta == <<metaChain, metaAlloc>>
legacy == <<journal, sidecar>>
chainData == <<height, stored, storedReceipts>>
volatile == <<status, spec, db, blocks, receipts, faucetKey, todo>>
aux == <<hist, acked, faults>>
vars == <<meta, storedKey, chainData, legacy, volatile, aux>>

\* "write_fails": RocksDB refuses the batch of a new block.
\* "open_interrupted": the process dies, or a write fails, while open()
\* migrates or while it has replayed only a part of the chain.
\* "slot_read": eth_getStorageAt, eth_call or debug_traceCall reads a slot the
\* revm cache lacks.
\* "genesis_changed": a reopen brings other genesis storage than the first open.
FaultKind == {"write_fails", "open_interrupted", "slot_read", "genesis_changed"}

Hash == Seq(Nat \X Nat)

Block == [number: 1 .. MaxBlocks, timestamp: Nat, hash: Hash, parent: Hash,
          tx: Tx, root: Root \cup {NoRoot}, fee: 0 .. U64Modulus - 1]

Receipt == [number: 1 .. MaxBlocks, hash: Hash, gas: Nat, success: BOOLEAN]

\* A legacy journal: what the JSON file holds, the faucet sidecar beside it,
\* and (auxiliary) the states its chain went through, genesis first.
JournalType == [chain: Nat, alloc: AllocType, blocks: Seq(Block),
                key: Keys \cup {NoKey}, states: Seq(Db)]

Status == {"down", "migrating", "renaming", "replaying", "up",
           "rejected", "diverged"}

NoSpec == [chain |-> 0, alloc |-> <<>>, baseFee |-> 0,
           storage |-> [s \in Slot |-> Unloaded]]

NoReceipts == [t \in Tx |-> NoReceipt]

-----------------------------------------------------------------------------
(* Chain helpers. *)

genesis_hash == <<>>

\* keccak256(parent || number || timestamp): injective, and blind to the
\* transactions and the state of the block.
block_hash(parent, number, timestamp) == Append(parent, <<number, timestamp>>)

\* Mutant of next_parent_hash: every block hangs on the first one.
FirstHash(bs) == IF bs = <<>> THEN genesis_hash ELSE bs[1].hash

next_parent_hash(bs) == IF bs = <<>> THEN genesis_hash ELSE bs[Len(bs)].hash

block_number(bs) == IF bs = <<>> THEN 0 ELSE bs[Len(bs)].number

pending_base_fee ==
  IF blocks = <<>> THEN spec.baseFee
  ELSE calc_next_base_fee(blocks[Len(blocks)].fee, receipts[blocks[Len(blocks)].tx].gas,
                          BlockGasLimit)

\* The state after sealing tx on d: execution, then the no-burn credit.
StateAfter(d, tx, timestamp, fee) ==
  credit_beneficiary(transact_raw(d, tx, timestamp, fee),
                     base_fee_share(tx.gas, fee))

BlockOf(d, bs, tx, number, timestamp, fee) ==
  LET parent == next_parent_hash(bs) IN
  [number |-> number, timestamp |-> timestamp,
   hash |-> block_hash(parent, number, timestamp), parent |-> parent, tx |-> tx,
   root |-> rebuild_smt(StateAfter(d, tx, timestamp, fee)), fee |-> fee]

ReceiptOf(block) ==
  [number |-> block.number, hash |-> block.hash, gas |-> block.tx.gas,
   success |-> Succeeds(block.tx)]

Sealable(tx, fee) == Decodes(tx, spec.chain) /\ Admissible(db, tx, fee)

LinkedChain(bs) ==
  \A n \in DOMAIN bs :
    /\ bs[n].number = n
    /\ bs[n].parent = IF n = 1 THEN genesis_hash ELSE bs[n - 1].hash
    /\ bs[n].hash = block_hash(bs[n].parent, n, bs[n].timestamp)

\* load_blocks: numbers 1..height, skipping the ones that have no entry.
load_blocks ==
  LET all == [n \in 1 .. height |-> stored[n]] IN
  IF NoBlock \notin Range(all) THEN all
  ELSE SelectSeq(all, LAMBDA b : b # NoBlock)

(***************************************************************************)
(* The journals are those the journal era wrote: linked chains of          *)
(* transactions executed one after another from its genesis state, sealed  *)
(* under any fee, before headers had a state root.                         *)
(***************************************************************************)
ExecutedFrom(d, block, after) ==
  /\ Admissible(d, block.tx, block.fee)
  /\ after = StateAfter(d, block.tx, block.timestamp, block.fee)

ASSUME NodeAssumption ==
  /\ MaxBlocks \in Nat /\ Time \subseteq Nat
  /\ Specs \subseteq SpecType /\ Journals \subseteq JournalType
  /\ Faults \subseteq FaultKind
  /\ NoBlock \notin Block /\ NoReceipt \notin Receipt /\ NoRoot \notin Root
  /\ NoJournal \notin Journals /\ NoKey \notin Keys /\ NoChain \notin Nat

ASSUME JournalAssumption ==
  \A j \in Journals :
    /\ Len(j.blocks) <= MaxBlocks /\ Len(j.states) = Len(j.blocks) + 1
    /\ LinkedChain(j.blocks)
    /\ \A n \in DOMAIN j.blocks :
         /\ Decodes(j.blocks[n].tx, j.chain)
         /\ ExecutedFrom(j.states[n], j.blocks[n], j.states[n + 1])
         /\ j.blocks[n].root = NoRoot

\* What open() knows of the genesis: the stored allocations win.
SpecWithAlloc(s, alloc) == IF alloc = <<>> THEN s ELSE [s EXCEPT !.alloc = alloc]

-----------------------------------------------------------------------------
(* Pieces of actions. *)

Record(number, state) ==
  hist' = IF faults = {} THEN [hist EXCEPT ![number] = state] ELSE hist

Fault(kind) == kind \in Faults /\ faults' = faults \cup {kind}

\* The process is gone, or open() returned an error and the process exits.
Exit(how) ==
  /\ status' = how
  /\ spec' = NoSpec /\ db' = EmptyDb /\ blocks' = <<>> /\ receipts' = NoReceipts
  /\ faucetKey' = NoKey /\ todo' = <<>>

\* Mutants of save_block: the height is not part of the batch; the batch
\* holds no receipt; the height counts the block to come.
SaveWithoutHeight(block) ==
  /\ stored' = [stored EXCEPT ![block.number] = block]
  /\ storedReceipts' = [storedReceipts EXCEPT ![block.tx] = ReceiptOf(block)]
  /\ height' = height

SaveWithoutReceipt(block) ==
  /\ stored' = [stored EXCEPT ![block.number] = block]
  /\ storedReceipts' = storedReceipts
  /\ height' = block.number

SaveAhead(block) ==
  /\ stored' = [stored EXCEPT ![block.number] = block]
  /\ storedReceipts' = [storedReceipts EXCEPT ![block.tx] = ReceiptOf(block)]
  /\ height' = block.number + 1

\* One WriteBatch: block, receipt, transaction index, height.
save_block(block) ==
  /\ stored' = [stored EXCEPT ![block.number] = block]
  /\ storedReceipts' = [storedReceipts EXCEPT ![block.tx] = ReceiptOf(block)]
  /\ height' = block.number

\* seal_raw_with_fee on a sealable transaction, up to the end.
seal_raw_with_fee(tx, number, timestamp, fee) ==
  LET after == StateAfter(db, tx, timestamp, fee)
      block == BlockOf(db, blocks, tx, number, timestamp, fee)
  IN  /\ db' = after
      /\ save_block(block)
      /\ blocks' = Append(blocks, block)
      /\ receipts' = [receipts EXCEPT ![tx] = ReceiptOf(block)]

-----------------------------------------------------------------------------
(* KanariNode::open. *)

\* An empty data directory: metadata is written, the node is up.
OpenFresh(s) ==
  /\ status \in {"down", "rejected", "diverged"}
  /\ metaChain = NoChain /\ journal = NoJournal
  /\ metaChain' = s.chain /\ metaAlloc' = s.alloc
  /\ hist' = [hist EXCEPT ![0] = apply_genesis(s)]
  /\ status' = "up" /\ spec' = s /\ db' = apply_genesis(s)
  /\ faucetKey' = storedKey
  /\ UNCHANGED <<blocks, receipts, todo, storedKey, chainData, legacy, acked,
                 faults>>

\* A legacy journal for this chain: migrate_legacy_journal begins, up to and
\* including init_meta.
OpenLegacy(s) ==
  /\ status \in {"down", "rejected", "diverged"}
  /\ metaChain = NoChain /\ journal # NoJournal /\ journal.chain = s.chain
  /\ LET known == SpecWithAlloc(s, journal.alloc) IN
     /\ metaChain' = known.chain /\ metaAlloc' = known.alloc
     /\ spec' = known
     /\ IF apply_genesis(known) = hist[0] THEN UNCHANGED faults
        ELSE Fault("genesis_changed")
  /\ status' = "migrating"
  /\ UNCHANGED <<db, blocks, receipts, faucetKey, todo, storedKey, chainData,
                 legacy, hist, acked>>

\* The faucet sidecar, if there is one, moves into the store.
MigrateKey ==
  /\ status = "migrating"
  /\ storedKey' = IF sidecar = NoKey THEN storedKey ELSE sidecar
  /\ faucetKey' = IF sidecar = NoKey THEN faucetKey ELSE sidecar
  /\ status' = "renaming"
  /\ UNCHANGED <<spec, db, blocks, receipts, todo, meta, chainData, legacy,
                 aux>>

\* The journal is renamed aside, its sidecar removed, and its blocks handed
\* to replay.
RenameJournal ==
  /\ status = "renaming"
  /\ journal' = NoJournal /\ sidecar' = NoKey
  /\ todo' = journal.blocks
  /\ db' = apply_genesis(spec)
  /\ status' = "replaying"
  /\ UNCHANGED <<spec, blocks, receipts, faucetKey, meta, storedKey, chainData,
                 aux>>

\* A store that already holds this chain.
OpenStored(s) ==
  /\ status \in {"down", "rejected", "diverged"}
  /\ metaChain = s.chain
  /\ LET known == SpecWithAlloc(s, metaAlloc) IN
     /\ spec' = known
     /\ db' = apply_genesis(known)
     /\ IF apply_genesis(known) = hist[0] THEN UNCHANGED faults
        ELSE Fault("genesis_changed")
  /\ todo' = load_blocks
  /\ status' = "replaying"
  /\ UNCHANGED <<blocks, receipts, faucetKey, meta, storedKey, chainData,
                 legacy, hist, acked>>

\* A store or a journal of another chain.
OpenRejects(s) ==
  /\ status \in {"down", "rejected", "diverged"}
  /\ \/ metaChain \notin {NoChain, s.chain}
     \/ metaChain = NoChain /\ journal # NoJournal /\ journal.chain # s.chain
  /\ Exit("rejected")
  /\ UNCHANGED <<meta, storedKey, chainData, legacy, aux>>

Verifies(resealed, block) ==
  /\ resealed.hash = block.hash
  /\ block.root \in {NoRoot, resealed.root}

\* Mutant of ReplayFee: replay applies today's fee dynamics.
PendingReplayFee(block) == AsU64(pending_base_fee)

ReplayFee(block) == block.fee

\* One iteration of replay_blocks that verifies.  The block is sealed again
\* under its stored number, timestamp and base fee, which writes it again.
ReplayBlock ==
  /\ status = "replaying" /\ todo # <<>>
  /\ LET b == Head(todo) IN
     /\ Sealable(b.tx, ReplayFee(b))
     /\ Verifies(BlockOf(db, blocks, b.tx, b.number, b.timestamp, ReplayFee(b)), b)
     /\ seal_raw_with_fee(b.tx, b.number, b.timestamp, ReplayFee(b))
  /\ todo' = Tail(todo)
  /\ UNCHANGED <<status, spec, faucetKey, meta, storedKey, legacy, aux>>

\* The transaction is refused: open() fails before anything is written.
ReplayRefused ==
  /\ status = "replaying" /\ todo # <<>>
  /\ ~Sealable(Head(todo).tx, ReplayFee(Head(todo)))
  /\ Exit("diverged")
  /\ UNCHANGED <<meta, storedKey, chainData, legacy, aux>>

\* The hash or the state root differs: open() fails, after the block it just
\* sealed has replaced the stored one.
ReplayDiverges ==
  /\ status = "replaying" /\ todo # <<>>
  /\ LET b == Head(todo)
         resealed == BlockOf(db, blocks, b.tx, b.number, b.timestamp, ReplayFee(b))
     IN  /\ Sealable(b.tx, ReplayFee(b))
         /\ ~Verifies(resealed, b)
         /\ save_block(resealed)
  /\ Exit("diverged")
  /\ UNCHANGED <<meta, storedKey, legacy, aux>>

FinishOpen ==
  /\ status = "replaying" /\ todo = <<>>
  /\ status' = "up"
  /\ faucetKey' = IF storedKey = NoKey THEN faucetKey ELSE storedKey
  /\ UNCHANGED <<spec, db, blocks, receipts, todo, meta, storedKey, chainData,
                 legacy, aux>>

\* The process dies, at any point.
InterruptsOpen ==
  \/ status \in {"migrating", "renaming"}
  \/ status = "replaying" /\ height < Len(blocks) + Len(todo)

Crash ==
  /\ status \in {"migrating", "renaming", "replaying", "up"}
  /\ IF InterruptsOpen THEN Fault("open_interrupted") ELSE UNCHANGED faults
  /\ Exit("down")
  /\ UNCHANGED <<meta, storedKey, chainData, legacy, hist, acked>>

-----------------------------------------------------------------------------
(* A node that is up: send_raw_transaction with instant sealing. *)

\* What a client can hold on to: the place of a transaction in the chain.
Id(block) == <<block.number, block.hash, block.tx>>

NextBlock(tx, now) ==
  BlockOf(db, blocks, tx, block_number(blocks) + 1, now, AsU64(pending_base_fee))

CanSeal(tx) ==
  /\ status = "up"
  /\ block_number(blocks) < MaxBlocks
  /\ Sealable(tx, AsU64(pending_base_fee))

\* Executed, saved, remembered, and the hash returned.
SendRawTransaction(tx, now) ==
  /\ CanSeal(tx)
  /\ LET number == block_number(blocks) + 1 IN
     /\ seal_raw_with_fee(tx, number, now, AsU64(pending_base_fee))
     /\ Record(number, db')
  /\ acked' = IF faults = {} THEN acked \cup {Id(NextBlock(tx, now))} ELSE acked
  /\ UNCHANGED <<status, spec, faucetKey, todo, meta, storedKey, legacy, faults>>

\* The process dies after save_block and before the answer leaves.
SealUnanswered(tx, now) ==
  /\ CanSeal(tx)
  /\ save_block(NextBlock(tx, now))
  /\ Record(block_number(blocks) + 1,
            StateAfter(db, tx, now, AsU64(pending_base_fee)))
  /\ Exit("down")
  /\ UNCHANGED <<meta, storedKey, legacy, acked, faults>>

\* save_block fails: the client gets an error and the node goes on, with the
\* transaction already committed to the in-memory state.
SealFails(tx, now) ==
  /\ CanSeal(tx)
  /\ Fault("write_fails")
  /\ db' = StateAfter(db, tx, now, AsU64(pending_base_fee))
  /\ UNCHANGED <<status, spec, blocks, receipts, faucetKey, todo, meta,
                 storedKey, chainData, legacy, hist, acked>>

\* eth_getStorageAt on a slot the cache does not hold.
StorageOf(s) ==
  /\ status = "up" /\ db.slot[s] = Unloaded
  /\ Fault("slot_read")
  /\ db' = CacheSlot(db, s)
  /\ UNCHANGED <<status, spec, blocks, receipts, faucetKey, todo, meta,
                 storedKey, chainData, legacy, hist, acked>>

\* eth_call and debug_traceCall.  Nothing the call does is committed, but it
\* runs on the node's own cache, which keeps every slot the call read.
Call(read) ==
  /\ status = "up" /\ \E s \in read : db.slot[s] = Unloaded
  /\ Fault("slot_read")
  /\ db' = CacheSlots(db, read)
  /\ UNCHANGED <<status, spec, blocks, receipts, faucetKey, todo, meta,
                 storedKey, chainData, legacy, hist, acked>>

SetFaucetKey(k) ==
  /\ status = "up"
  /\ storedKey' = k /\ faucetKey' = k
  /\ UNCHANGED <<status, spec, db, blocks, receipts, todo, meta, chainData,
                 legacy, aux>>

-----------------------------------------------------------------------------
EmptyStore ==
  /\ metaChain = NoChain /\ metaAlloc = <<>> /\ storedKey = NoKey
  /\ height = 0 /\ stored = [n \in 1 .. MaxBlocks |-> NoBlock]
  /\ storedReceipts = NoReceipts

\* The data directory is empty, or holds the files of the journal era.
Init ==
  /\ EmptyStore
  /\ status = "down" /\ spec = NoSpec /\ db = EmptyDb /\ blocks = <<>>
  /\ receipts = NoReceipts /\ faucetKey = NoKey /\ todo = <<>>
  /\ faults = {}
  /\ \/ /\ journal = NoJournal /\ sidecar = NoKey /\ acked = {}
        /\ hist = [n \in 0 .. MaxBlocks |-> EmptyDb]
     \/ \E j \in Journals :
          /\ journal = j /\ sidecar = j.key /\ acked = {Id(b) : b \in Range(j.blocks)}
          /\ hist = [n \in 0 .. MaxBlocks |->
                       IF n < Len(j.states) THEN j.states[n + 1] ELSE EmptyDb]

Open(s) == OpenFresh(s) \/ OpenLegacy(s) \/ OpenStored(s) \/ OpenRejects(s)

Opening == MigrateKey \/ RenameJournal \/ ReplayBlock \/ ReplayRefused
             \/ ReplayDiverges \/ FinishOpen

Next ==
  \/ \E s \in Specs : Open(s)
  \/ Opening
  \/ Crash
  \/ \E tx \in Tx, now \in Time :
       SendRawTransaction(tx, now) \/ SealUnanswered(tx, now) \/ SealFails(tx, now)
  \/ \E s \in Slot : StorageOf(s)
  \/ \E read \in SUBSET Slot : Call(read)
  \/ \E k \in Keys : SetFaucetKey(k)

Spec == Init /\ [][Next]_vars

-----------------------------------------------------------------------------
(* Properties. *)

\* Types of everything KanariNode and ChainStore hold.
TypeOK ==
  /\ metaChain \in Nat \cup {NoChain} /\ metaAlloc \in AllocType
  /\ storedKey \in Keys \cup {NoKey} /\ height \in 0 .. MaxBlocks
  /\ stored \in [1 .. MaxBlocks -> Block \cup {NoBlock}]
  /\ storedReceipts \in [Tx -> Receipt \cup {NoReceipt}]
  /\ journal \in Journals \cup {NoJournal} /\ sidecar \in Keys \cup {NoKey}
  /\ status \in Status /\ spec \in SpecType /\ db \in Db
  /\ blocks \in Seq(Block) /\ todo \in Seq(Block)
  /\ receipts \in [Tx -> Receipt \cup {NoReceipt}]
  /\ faucetKey \in Keys \cup {NoKey}
  /\ hist \in [0 .. MaxBlocks -> Db] /\ faults \subseteq FaultKind
  /\ acked \subseteq (1 .. MaxBlocks) \X Hash \X Tx

\* Whatever was interrupted, retried or failed, the blocks m:height covers are
\* all there, numbered from 1, each linked to its parent, and signed for the
\* chain the database belongs to (save_block, load_blocks).
StoreIsChain ==
  /\ \A n \in 1 .. height : stored[n] # NoBlock
  /\ LinkedChain(load_blocks)
  /\ \A n \in 1 .. height : stored[n].tx.chain = metaChain

\* A node that is up serves what its database holds: the same blocks, the same
\* faucet key, and for every transaction the receipt of the block it is in
\* (seal_raw_with_fee updates memory only after save_block succeeded).
MemoryMatchesStore ==
  status = "up" =>
    /\ blocks = load_blocks
    /\ \A t \in Tx :
         /\ receipts[t] # NoReceipt <=> \E n \in 1 .. height : stored[n].tx = t
         /\ receipts[t] # NoReceipt => receipts[t] = storedReceipts[t]
    /\ \A n \in 1 .. height : receipts[stored[n].tx] = ReceiptOf(stored[n])
    /\ faucetKey = storedKey

\* No transaction is in two blocks of the chain, across restarts, replays and
\* failed writes.
SealedOnce ==
  \A m, n \in 1 .. height : stored[m].tx = stored[n].tx => m = n

\* Nothing is minted or burned: balances always sum to what genesis gave out
\* (credit_beneficiary returns the base-fee share that revm destroys).
SupplyConserved ==
  status \in {"replaying", "up"} => Circulating(db) = Circulating(apply_genesis(spec))

\* Replay determinism: as long as no fault has happened, open() never reports a
\* divergence, and the node comes up in exactly the state in which the head
\* block was first sealed, committed to by the root in its header.
ReplayReproduces ==
  faults = {} =>
    /\ status # "diverged"
    /\ status = "up" =>
         /\ db = hist[height]
         /\ height > 0 => stored[height].root = rebuild_smt(db)

\* As long as no fault has happened, a node that is up still has every block
\* that a client was ever told of, those of the journal era included.
AnswersAreDurable ==
  faults = {} /\ status = "up" => acked \subseteq {Id(b) : b \in Range(blocks)}

\* A block that is stored stays where it is: replay writes the blocks again,
\* but as long as no fault has happened never with another hash, transaction,
\* fee or state root.  A root is only ever filled in.
HistoryImmutable ==
  [][faults' = {} =>
       \A n \in 1 .. MaxBlocks :
         stored[n] # NoBlock =>
           /\ stored'[n] # NoBlock
           /\ stored[n] = [stored'[n] EXCEPT !.root = stored[n].root]
           /\ stored[n].root \in {NoRoot, stored'[n].root}]_vars

-----------------------------------------------------------------------------
(* The ledger this node implements. *)

Ids(bs) == [n \in DOMAIN bs |-> Id(bs[n])]

\* The chain the data directory stands for: an unmigrated journal, the chain
\* an open is replaying, or the blocks of the store.
Chain ==
  CASE status \in {"replaying", "up"} -> blocks \o todo
    [] status \notin {"replaying", "up"} /\ journal # NoJournal -> journal.blocks
    [] OTHER -> load_blocks

L == INSTANCE Ledger WITH
       Histories <- {<<>>} \cup {Ids(j.blocks) : j \in Journals},
       Entries <- Tx, Clock <- Time, Down <- NoChain,
       log <- Ids(Chain),
       served <- IF status = "up" THEN Ids(blocks) ELSE NoChain,
       answered <- acked

\* The absent value of a chain id also marks an outage: it is no log.
ASSUME OutageAssumption == NoChain \notin Seq((1 .. MaxBlocks) \X Hash \X Tx)

\* Without faults, a node that is opened, migrated, replayed, killed and
\* reopened in any order is one append-only ledger with outages.
ImplementsLedger == L!Spec

-----------------------------------------------------------------------------
(* What the repository says, as invariants over runs with faults. *)

\* ARCHITECTURE.md, invariant 1: reopening a data directory reproduces the
\* state or fails loudly, so a node that is up has what it told its clients.
ReopenKeepsAnswers ==
  status = "up" => acked \subseteq {Id(b) : b \in Range(blocks)}

\* KanariNode::open: a journal is replayed, verified and persisted, and then
\* renamed, so after a crash that finds it gone its blocks are in the store.
RenamedWhenPersisted ==
  journal = NoJournal /\ status = "down" => acked \subseteq {Id(b) : b \in Range(load_blocks)}

\* KanariNode::open: replay is deterministic, so it fails only on a corrupt
\* store; nothing here corrupts one.
ReplayNeverFails == status # "diverged"

\* ARCHITECTURE.md: a replay divergence is never silent, so a node that is up
\* on a block it answered for has the state that block was sealed with.
DivergenceIsLoud ==
  status = "up" /\ height > 0 /\ Id(stored[height]) \in acked => db = hist[height]

\* ARCHITECTURE.md, invariant 3: circulating supply equals the sum of the
\* genesis allocations, which is what supply() reports.
SupplyReported == status = "up" => Circulating(db) = supply(spec.alloc)
=============================================================================
