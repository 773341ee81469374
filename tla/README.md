# Kanari EVM in TLA+

Kanari EVM is a development chain: an EVM that seals one block per transaction,
keeps its blocks in RocksDB, rebuilds its state by replaying them, and can run
as one of several validators that execute what a Mysticeti DAG orders. This
directory models the parts of it that keep state, checks them with TLC, and
proves with TLAPS every safety property that the passing runs check, for every
value of the constants. `PROJECT.json` maps every definition to the lines it models.

## The system and its parts

| Part | Code (`src/crates/`) | Modules | Status |
|---|---|---|---|
| Fee arithmetic | `evm-types/src/gas.rs` | `Gas`, `FeeMarket` | modelled, proved |
| Chain spec, genesis | `move-execution/src/chainspec.rs` | `Evm`, `KanariNode`, `Launcher` | modelled |
| Execution and sealing | `move-execution/src/execution.rs` | `Evm`, `KanariNode` | modelled, proved |
| Node lifecycle, migration, replay | `move-execution/src/node.rs` | `KanariNode`, `Ledger` | modelled, proved |
| State reads, SMT root | `move-execution/src/state.rs` | `Evm`, `KanariNode` | partly |
| Chain store | `storage/src/store.rs` | `KanariNode` | modelled, proved |
| Handle registry | `storage/src/db.rs` | `DbRegistry` | modelled, proved |
| Faucet | `move-execution/src/faucet.rs` | `Faucet`, `Validator`, `KanariNode`, `Launcher` | modelled, proved |
| Views | `move-execution/src/views.rs` | `Views`, `KanariNode`, `Queries` | modelled, proved |
| Tracer | `move-execution/src/trace.rs` | `Trace`, `KanariNode` | modelled, proved |
| Precompiles | `move-execution/src/precompiles.rs` | `Precompiles`, `Queries` | partly, proved |
| Validator | `consensus/src/validator.rs` | `Validator`, `ReplicatedLog` | modelled, proved |
| Local DAG ordering | `consensus/src/ordering.rs` | `Validator` | partly |
| Committee files | `consensus/src/committee.rs` | `Committee` | modelled, proved |
| JSON-RPC server | `server_rpc/src/rpc.rs` | `Queries`, `Views` | partly, proved |
| Command line | `kanari-node/src/main.rs` | `Launcher`, `ForkRun` | modelled, proved |
| Checkpoint fork | `kanari-node/src/fork.rs` | `ForkFetch`, `ForkRun`, `Launcher` | modelled, proved |

How they interact. The command line decides which chain spec and which faucet
secret a data directory is opened with. `KanariNode::open` checks the stored
chain id, migrates a legacy journal if there is one, and replays the stored
blocks; every replayed block is executed *and written again*. From then on a
transaction arrives by JSON-RPC and is sealed at once, or, in validator mode, is
forwarded to the DAG and sealed when a commit covers it. All of it runs under
one lock on the node, so what one lock acquisition or one RocksDB `WriteBatch`
covers is one action of the models, and a process may die between any two
durable writes.

## The modules

**`Gas`** has the fee functions of `gas.rs` with saturating arithmetic, and the
widths of `u64` and `u128` as constants, so that small instances reach the edges.

**`FeeMarket`** is the base fee over the life of a chain. Its one action seals a
block using some amount of gas that the total supply can pay for.

**`Evm`** is the state and what execution does to it: balances, nonces, storage
slots that may or may not be in revm's cache, admission of a transaction,
settlement of its gas, the base-fee credit to the beneficiary
(`credit_beneficiary`), `apply_genesis` and the state root. revm is external: it
is modelled by the account changes the code relies on. Transactions have a form,
because `PreparedTx::decode` passes on a type for EIP-7702 only: revm takes every other
transaction for a legacy one, which pays its full fee cap per unit of gas and whose
priority fee is not looked at. EIP-2930 is priced like legacy. A root is the set of
entries `rebuild_smt` hashes, so equal roots mean equal entries.

**`KanariNode`** is one node and its store. Durable variables are the RocksDB key
families and the legacy files; volatile ones are the fields of the Rust value and
`status`, which says how far `open` has come. Actions cover opening a fresh,
stored or legacy directory, a refused open, migrating, renaming the journal,
replaying block by block, sealing (successful, refused, or with a failed write),
reading a slot, calling a contract, setting the faucet key, and a crash at any point. The auxiliary variables
`hist`, `acked` and `faults` only record. The constant `Faults` selects which
kinds of fault may happen:

- `write_fails`: RocksDB refuses the batch of a new block;
- `open_interrupted`: the process dies, or a write fails, within a migration or
  a partial replay;
- `slot_read`: `eth_getStorageAt`, `eth_call` or `debug_traceCall` loads slots into
  revm's cache, where they stay;
- `genesis_changed`: a reopen brings different genesis storage.

**`Ledger`** is the abstract specification: a sequence of answered blocks that is
only appended to, available or not. `KanariNode` without faults implements it.

**`Trace`** extends the node with `trace_transaction`, which re-executes the
earlier blocks on a scratch state. **`Views`** has the answers for blocks,
transactions and receipts, with the synthetic genesis, as functions of the node's
state. **`Faucet`** adds a drip to the node's steps: the faucet's own checks, the
transaction it signs, and the sealing of it. The receiver of a drip has no code.

**`Validator`** has several validators, each with a channel from RPC to the DAG, a
queue of pending payloads and an execution task that sweeps the queue, one
payload per step. Their faucets sign drips with one key, on the state of the last
commit. Consensus is external: one sequence of commits, delivered to every
validator in order. Whether a payload seals is reduced to what decides it: the
nonce of its sender (`Account`, `Nonce`), the transfers that fund it (`After`) and
the fee (`Raises`, `Thrifty`). `Faults` selects crashes with restart and replay,
failed writes of a block (`unsaved` holds the payloads whose effects are in memory
only), and `reset` of a stopped validator.
**`ReplicatedLog`** is its abstract specification: replicas that hold prefixes of
one log.

**`DbRegistry`** is `open_or_get_db`, run by several threads: the two critical
sections, the opening of the database between them, dropped handles, databases
that close a step after the last drop, I/O errors, and relative and absolute
spellings of a path. Within a process RocksDB keeps its locks by the name of the LOCK
file, so a symbolic link to the directory is a path of its own.

**`Launcher`** follows one data directory through any sequence of `start`,
`local`, `fork`, `validator` and `reset` with kills in between, within a migration
too, and tracks the chain id, the allocations and the faucet secret. A `fork` never
opens the directory: it ends in `run`, which sets up the logging that `run_fork` has
set up already (`init_logging`, main.rs:597 and 448), and the process exits with "logging
already initialized". What happens after that line in a fork is therefore not modelled.

**`ForkFetch`** fetches a remote chain's state call by call while that chain
moves on. **`ForkRun`** composes it with `Launcher`: the fetch runs beside whatever else
is done with the directory, on which it holds no lock, and may fail or be killed.

**`Precompiles`** has the input parser and the verdict of the signature-verification
precompiles as operators on short byte strings; the schemes are external.
**`Queries`** answers JSON-RPC batches, calls of the precompiles among them. Each item
takes the lock by itself, so blocks are sealed between the items of a batch. Addresses
(`Address`) and topics (`Topic`) are sets; a filter field that does not parse is a value
of its own.

**`Committee`** writes the files of `keygen` one at a time, with interruptions and
repeated runs, and loads them the way a validator does.

Modules named `MC...` give the constants small values. Definitions commented as
mutants are plausible mistakes in the code; each replaces one definition and
makes a property fail, which shows that the property depends on that code. The type
invariants of `Launcher` and `Committee` document their state and are not among the
properties of the runs; those of `DbRegistry` and `Queries` are proved.

## What the runs check

### Runs that pass

| Run | States | Shows |
|---|---|---|
| `node` | 78 189 | Without faults: replay reproduces the state (`ReplayReproduces`), answered blocks are durable (`AnswersAreDurable`), sealed history never changes (`HistoryImmutable`), and the node implements `Ledger`. A client that follows `parentHash` meets every block down to genesis (`WalkReachesGenesis`), the receipts add up to the balances but for the headroom that EIP-1559 transactions are charged (`ReceiptsMissOnlyHeadroom`), and a drip that passes the faucet's checks is never refused (`GrantedDripsSeal`). While the beneficiary spends nothing, a trace starts from the sealed pre-state but for the beneficiary's base-fee credits (`TraceMissesOnlyCredits`). |
| `node_faults` | 652 540 | With every fault: the store is a linked chain, memory agrees with it, no transaction is sealed twice, no value is minted or burned. |
| `fee_market` | 4 756 | The fee stays positive, fits a `u64`, follows demand within an eighth, and never exceeds what all accounts together can pay. |
| `validator` | 466 362 | Without faults, drips included: equal commits give equal chains, queues and clocks; below the cap nothing is lost; the whole implements `ReplicatedLog`. |
| `validator_faults` | 753 326 | With crashes, failed writes and resets at any point of a sweep: a validator in whose running process no write has failed leaves nothing in an idle queue that would seal (`SweptToFixation`), and serves a chain that executes from genesis (`ServesExecutedChain`). |
| `validator_live` | 52 886 | Under fairness, for every accepted payload that can be sealed, it or a payload with the same sender and nonce is sealed on every validator, although a drip that lost the race for its nonce sits in the queue. |
| `launcher` | 3 021 840 | A directory keeps its chain id and allocations (`GenesisPinned`). A faucet secret that was replaced comes back only when the operator passes it, although an interrupted migration leaves the old sidecar beside a store in use (`RetiredStayRetired`). A fetch of a numbered block brings exactly that block's state (`NumberedForkIsExact`). |
| `queries` | 1 164 746 | `eth_getLogs` returns exactly what an ordered filter selects, a later head covers earlier logs, the fee history foretells the next fee, a precompile accepts exactly the encodings of what verifies (`VerifiesExactly`). |
| `committee` | 4 284 | No validator ever loads a seat that is not its own, a finished keygen leaves a committee that loads, and its ports are usable. |
| `db_registry` | 567 645 | Returned handles can be found by the next caller, handles asked for under two spellings of one path share one database (`OneInstancePerPath`), an open is refused only in the races that the code leaves open, and every call returns. |

### Runs that end in a violation

Each states what a document says of the program, and TLC finds a behaviour of the
code in which it is false.

- `node_interrupted`: ARCHITECTURE.md says that reopening a directory "must
  reproduce identical state, or fail loudly". Replay writes every block again and
  sets `m:height` to it, so a kill within replay leaves a shorter chain, which the
  next open serves without an error.
- `validator_restart`: ARCHITECTURE.md asks to keep the pending queue "a pure
  function of the commit sequence". The queue, the last timestamp and the commits
  in the channel are lost in a restart, after which the DAG goes on where it was.

### Other disagreements between text and code

The configurations below are not part of the regular runs. Each checks one
sentence of a document or comment, and TLC ends with a counterexample
(`tlc -config <cfg> <module>`, where the module is the part before `_`). Where a
property or a fault is named next to it, the file says how to select it.

| Configuration | What is written | What the code does |
|---|---|---|
| `MCKanariNode_rename.cfg` | node.rs:152: the journal is persisted, "then renamed" | it is renamed before any of its blocks is stored |
| `MCKanariNode_writefails.cfg` | node.rs:148: a replay failure means a corrupt store | after a failed write memory keeps the transaction's effects, and later blocks cannot be replayed |
| `MCKanariNode_writefails.cfg`, fault `slot_read` | execution.rs:31: a "read-only" call; node.rs:148 as above | a read leaves a zero slot in the cache, the next root commits to it, and replay fails |
| `MCKanariNode_diverged.cfg` | ARCHITECTURE.md:99: a divergence is "never silent" | the block is overwritten before it is compared, so the next open succeeds |
| `MCKanariNode_supply.cfg` | ARCHITECTURE.md:192: the supply equals the allocation sum | an account that is listed twice holds its last allocation only |
| `MCTrace_exact.cfg` | trace.rs:9: a trace "rebuilds the exact pre-block state" | the base-fee credits of earlier blocks are missing |
| `MCTrace_exact.cfg`, `ReceiptsAreExact` | gas.rs:54-55: a sender pays "base + priority when that is cheaper (1559/7702 semantics)" | an EIP-1559 transaction reaches revm as a legacy one (execution.rs:357-371) and pays its cap; its receipt says less |
| `MCValidator_cap.cfg` | validator.rs:178: permanently invalid payloads are dropped at the cap | the oldest are, untried ones included |
| `MCValidator_drips.cfg`, `CoveredDripSeals` | execution.rs:66: a submitted transaction "seals once a DAG commit covers it" | drips signed before the next commit share a nonce, and one never seals |
| `MCValidator_drips.cfg`, `DripStaysValid` | faucet.rs:64: a drip "stays valid as fees drift" | its fee cap is the base fee when it was signed, and a raised fee refuses it |
| `MCValidator_writefails.cfg` | validator.rs:302: "sealed EVM state replays from the chain store" | after a failed write, later blocks commit to effects that no block holds |
| `MCDbRegistry_reuse.cfg` | db.rs:11: "repeated opens of one path reuse the same `Arc<DB>`" | two first opens race, and one is refused by the directory lock |
| `MCDbRegistry_reuse.cfg`, `OneInstancePerDirectory` | db.rs:11: "RocksDB takes a directory lock" | a link to the directory is another LOCK name, and a second database is opened |
| `MCForkRun_docs.cfg`, `KeyPersists` | README.md:61: the faucet key persists | a plain restart draws a new one |
| `MCForkRun_docs.cfg`, `ForkRunsLocal` | ARCHITECTURE.md:142: a fork goes "into genesis, then runs fully local" | the process exits after the fetch, where logging is set up a second time |
| `MCForkFetch_latest.cfg` | fork.rs:7: a snapshot "at one remote block" | with `latest` every call may see another block |
| `MCQueries_range.cfg` | ARCHITECTURE.md:123: block-range filtering | a range that starts past the head is reversed, and returns the head's logs |

## Bounds, and why they are enough

- **Node**: three accounts, one slot, three or four chain specs, up to three blocks,
  one legacy journal of two blocks. Three blocks are the least that have a first,
  a middle and a head block, so that replay can stop with a stored suffix and
  sealing can go on over it. The block gas limit is 4, so the fee both rises (16
  to 18) and falls (16 to 15). Transactions of all three forms are sealed, an EIP-1559
  one with headroom below its cap among them. The fault run has one clock value and three
  transactions; its four faults may all happen in one behaviour.
- **Fee market**: a gas limit of 8 and a modulus of 252. The supply is close to
  the largest for which the cast to `u64` is safe, and genesis fees reach from 1 to 60.
- **Drips and views**: the faucet's secret may be a funded account's or the
  beneficiary's. One drip is followed through sealing and replay;
  `GrantedDripsSeal` looks at every receiver and amount in every state.
- **Validator**: two validators, a sender with two dependent payloads that may
  arrive in the wrong order, a payload with a low fee cap, two drips with one nonce
  from two faucets; commits of one or two DAG blocks, in both orders, with authors'
  clocks that disagree. The cap of 2 bites in `validator`, with three submissions;
  in `validator_faults` and `validator_live` it does not. Two faults are enough for
  a failed write followed by a crash, and for a crash followed by a reset.
- **Queries**: short batches over a growing chain, with filters that hit, miss, are
  malformed, or pass the head; every precompile input of up to seven bits that
  starts with 0, and key lengths whose high byte is not 0.
- **Launcher and fork**: four secrets, one of them the operator's, so that two can be
  drawn after the one of a journal's sidecar; one account and one slot of a remote chain
  of two blocks. Kills may fall between calls of the fetch, after every durable step, and
  within a migration.
- **Handle registry**: three threads, four calls, two spellings of one path, and a
  symbolic link to its directory: enough for one thread to drop the
  last handle while a second looks it up and a third opens.
- **Committee**: the sets in `MCCommittee`; kills may fall after every file.

Deadlock checking is off where a bound ends the behaviour (`MaxBlocks`,
`MaxSubmits`) or where a process may stay down.

## Fairness

`validator_live` assumes weak fairness, for every validator, of the forwarding task,
of the commit of what it proposed, of delivery, and of the execution task. The first and the last are tokio tasks that loop without an
external condition, so the scheduler runs them. The two in the middle are what
Mysticeti promises to validators that are up, and are an assumption here. Nothing
is assumed of clients, and there are no crashes in that run, because a crash loses
accepted payloads (`validator_restart`).

`db_registry` assumes weak fairness of the steps of a thread that is inside
`open_or_get_db`: a running thread goes on. Nothing is assumed of callers that enter
or drop handles, of I/O errors, or of when a database closes. The number of calls
is bounded, so a thread is not starved of the mutex by an endless stream of others;
the standard mutex does not promise that either.

## What is proved

The proofs hold for every value of the constants that satisfies the named
assumptions; TLC evaluates these assumptions on every run. Most leaves need no
arithmetic and are proved by Zenon, which the larger modules make the default
(`USE Zenon`); a leaf for SMT then says so. What a recursive
function computes over a list, a range of heights or a finite set is proved by a least
counterexample (`LeastNumber` and `LeastOf`, from the well-foundedness of the naturals), since the
induction theorems of the library take an operator that no prover can instantiate.

### The node (`NodeInvariant`, `KanariNodeProofs`)

`NodeInvariant` defines the inductive invariants of the node and proves what several
modules cite of them; `KanariNodeProofs` shows that every step keeps them, and what
follows.

`TypeCorrect`, `StoreAlwaysChain`, `NeverSealedTwice` and `MemoryIsStore` prove
`TypeOK`, `StoreIsChain`, `SealedOnce` and `MemoryMatchesStore` of `Spec`, with any
set of faults, transactions, specs, journals and any `MaxBlocks`. Assumptions:
`GasAssumption`, `EvmAssumption`, `NodeAssumption` (types, distinct absent values)
and `JournalAssumption` (a legacy journal is a linked chain that its own era
executed).

None of the four is inductive. `IInv` adds:

- `StoreOK`: the blocks `m:height` covers are linked, hold transactions of this
  chain id, and no transaction twice;
- `SessionOK`: memory is a prefix of the store, and every transaction in memory
  has a nonce below its sender's. That is why it cannot be admitted again,
  and so why nothing is sealed twice even when a failed write left its effects in
  memory;
- `ReplayOK`: during replay `m:height` either still covers the whole chain (before
  the first rewrite) or equals the number of blocks in memory. This is what keeps
  the store a chain while it is overwritten;
- `PhaseOK`: what holds in each phase of `open`.

One lemma per action shows that it keeps `IInv`.

Four more theorems are about what survives a reopen.
`ReplayIsExact`, `AnswersSurvive` and `HistoryIsImmutable` prove `ReplayReproduces`,
`AnswersAreDurable` and the action property `HistoryImmutable` of `Spec`: they hold in
every behaviour up to its first fault. `NodeIsLedger` proves that a node with
`Faults = {}` implements `Ledger`. They rest on `IInv` and on `FInv`: as long as no
fault has happened,

- `ChainSealed`: every block of `Chain`, the chain the directory stands for (an
  unmigrated journal, what an open is replaying, or the store), was sealed on the
  state that the history variable `hist` has for the block before it, and left the
  state `hist` has for it. The replay of a block is then the sealing of it again, so
  it is never refused and never differs;
- `StoreInChain`: whatever the store holds, above `m:height` too, is of that chain,
  up to a root that a journal block does not have yet. This makes the rewriting of
  the store during replay harmless;
- `AnswersInChain`: every answer was about a block of that chain;
- `JournalFirst`: a journal is either all there is or being migrated, so that a kill
  in the middle of a migration finds it again;
- `MemoryFollows`: memory is the state after the blocks in it.

For the refinement, one lemma per action shows which step of `Ledger` it is: an open
that comes up is `Start`, a crash of a node that is up is `Stop`, a sealed block is
`Seal`, everything else, every step of migration and replay included, leaves the ledger alone.
`OutageAssumption` says that the value which marks an outage is not itself a log.

### Balances and what is read from a chain (`AccountLemmas`, `AccountProofs`)

`AccountLemmas` proves what holds in every state that the invariants of `NodeInvariant`
allow, and in every step from one; `AccountProofs` joins it with `KanariNodeProofs` to
the theorems about behaviours. They are apart because the provers slow down with the
number of facts above an obligation, and only `AccountLemmas` needs the theorems on
finite sets.

`SupplyAlwaysConserved` proves `SupplyConserved`, with any faults. The balances are
summed by a fold that takes the accounts in an order of its own choice. `SumRemove` shows
that any account may be taken out of the sum first, for finite sets of any size, and
`SumUpdate` what one changed balance does to the sum. Every transfer, gas payment
and credit is then such a change (`SumDeposit`), and the changes of one block cancel. It
needs that the accounts are finitely many (`EvmAssumption`), and of `IInv` the types.

`WalkAlwaysReachesGenesis`, `ReceiptsAddUp` and `TraceAlwaysMissesOnlyCredits` prove
`WalkReachesGenesis`, `ReceiptsMissOnlyHeadroom` and `TraceMissesOnlyCredits`, for chains of
any length and as long as no fault has happened. They rest on `IInv`, `FInv` and
`GenesisKept` (in `NodeInvariant`: a running node was started on the genesis its history begins with), from
which `InOrder` follows: blocks stand at their numbers, each is linked to the one before,
and each receipt is that of its block. A walk, an account of the receipts and the
scratch state of a trace are recursive functions of the height, each proved equal to its
closed form: the view of a block, the recorded balances, and the recorded state without
the credits so far. Removing a credit commutes with the execution of a transaction that
the beneficiary did not send, which is where that premise is needed. `TraceAssumption`
says that the mark of a refused trace is neither a state nor a result.

`DripsAreTransactions` shows that the node with a faucet implements the node, so that
all theorems about `Spec` hold for it. `DripsAlwaysSeal` proves `GrantedDripsSeal` with any
faults. The faucet computes the cost of a drip with saturating arithmetic, so the proof
needs that it does not saturate. `FeeBounded` says that the genesis fee was affordable in
this sense and that no block used more gas than the limit, so that the next fee is at most
twice the last, which is a `u64`; `DripCostAssumption` says that the gas of a transfer at
such a fee fits a `u128`, as it does for the constants of the code.

### The fee market (`ComponentProofs`)

`FeeRange`, `FeeCast`, `FeeDynamics` and `Affordability` prove the four properties
of `fee_market`, for every gas limit, width, supply and set of genesis fees that
satisfy `MarketAssumption`, `WidthAssumption` and `SupplyAssumption`. The invariant
`HeadInRange` says that the head's fee was at most its genesis value or was paid
for; the lemmas on nonlinear arithmetic (`MulMonotone`, `MulCancel`, `DivBound`)
carry it through one step.

### The validators (`ValidatorProofs`)

For any committee, payloads, sub-DAGs and faults that satisfy `ValidatorAssumption`:
`TypeCorrect` (`TypeOK`, with the cap of the pending queue in the middle of a
sweep), `SweptAlways` (`SweptToFixation`) and `ServedChainExecutes`
(`ServesExecutedChain`). The types need that anchors are among the blocks of their
commit (`AnchorsInside`). `SweptToFixation` speaks of idle tasks only; `SweepInv`
says of a sweep under way that, as long as it has sealed nothing, none of the payloads
it has put back would seal. A sweep that ends without progress has put back
everything. `ServesExecutedChain` is inductive with the types: a new block executes
on the chain below, and a restart serves only what replay gets through. Both exempt
a process in which a write has failed, until it ends: there the state in memory
has effects that no block holds.

Without faults (`Faults = {}`, as in `validator`) two theorems speak of all validators
together: `CommitsDecide` (`PureFunctionOfCommits`) and `ValidatorsAreReplicas`
(`ImplementsReplicatedLog`). A validator's `View` is its chain, its task and its place in
the commits; `Moves` is the step of the execution task as a relation between views
that names no validator, and has one outcome (`MovesOnce`). The invariant `OneCourse`
says that there is one sequence of views, each the step after the one before, on
which every validator stands somewhere. A task that moves either follows the course or
adds to its end; a new commit changes no step already on it. Of two idle
validators past the same commits neither is ahead, since the next view on the
course would have taken a commit more. For the refinement, chains grow along the
course (`CourseGrows`), so the longest chain extends all others (`CourseLongest`). A
validator behind it catches up by the entry that is there (`CatchesUp`), and one that
holds it all is the one that adds (`AddsFirst`). `Steady` adds what a new entry needs:
the chain replays, and a payload that executes on top of it is not in it, as its nonce
has moved on (`SealedOnce`); and the clock of a task is not before its last block
(`Clocked`). That the committee is not empty (`ValidatorAssumption`; `to_mysticeti` wants
four authorities) is needed for a longest chain to exist.

`BelowCapNothingDropped` proves `NothingDropped` when blocks may fail to be written but no
process ends (a crash loses the queue). Its premise counts the payloads of all commits:
`Places` is the set of their places, a commit and a position in it. `HeldInv` says that
the payloads a task has taken are sealed, pending or still to be tried in the sweep under
way, and that no more wait than there are places in the commits it has taken. The queue
then never passes its cap, and nothing is dropped.

### The handle registry (`ComponentProofs`)

`LiveAlwaysFindable`, `AlwaysOneInstance` and `RefusalsAreRaces` prove
`LiveIsFindable`, `OneInstancePerPath` and `RefusedOnlyInRaces` for any threads,
paths, spellings and number of calls (`RegistryAssumption`). The invariant `Inv`
adds which threads have a handle (`HandlesInv`), that a database in hand holds the lock
of its path (`LocksInv`), what entries and unregistered databases may be (`EntriesInv`,
`FreshInv`), and, for a caller that found nothing, that the databases of its path in hand
when it looked are gone (`MissedInv`).

### The command line and the fork (`LauncherProofs`)

All three properties of `launcher` are proved of `ForkSpec`, for any secrets, flags,
fundings, journals, accounts, slots and remote chains that satisfy
`LauncherAssumption` and `ForkRunAssumption`: `DirectoryKeepsGenesis`
(`GenesisPinned`), `SecretsStayRetired` (`RetiredStayRetired`) and
`NumberedForksAreExact` (`NumberedForkIsExact`). The invariant `RunInv` has three parts:

- `DirInv`: what the store holds, after every durable step of an open, is the
  genesis the directory was created with, and a process that is past `open` runs on it;
- `SecretInv`: nothing has been replaced as long as a journal can still be migrated, so
  that its sidecar cannot hold a replaced secret; and a process that is about to install
  a replaced secret was given it on its command line;
- `FetchInv`: what a fetch of a numbered block has brought so far is what its first
  calls would bring from that block all at once.

The remote chain may go on at any moment, but only by appending, so that the state
of a block that exists stays what it was.
The calls of a fetch and what they bring are recursive functions over lists of any
length. What is needed of them (`JoinType`, `JoinExists`, `TakenSteps`) is proved by a
least counterexample.

### The committee files (`ComponentProofs`)

`LoadedValidatorsOwnTheirSeats`, `FinishedKeygenLoads` and `CommitteePortsUsable` prove
the three properties of `committee` for any node counts, base ports and number of
runs (`CommitteeAssumption`, `FileAssumption`). The invariant `CInv` says that a
committee file that parses is the work of one run, that a secret is torn, missing
or one that some run drew for that very file, and that the secrets of the run in
progress, and of a directory in which the last run came to its end, are those of
its entries. Seats are found by key: two files never hold one key,
because each holds a key drawn for its own number, whichever run it comes from.

### The queries and the precompiles (`QueriesProofs`)

`LogsAlwaysExact`, `HeadAlwaysCoversLogs`, `FeePromiseAlwaysKept` and
`AlwaysVerifiesExactly` prove the four properties of `queries`, and `QueriesTypeCorrect`
its types, for any batches, logs, fees, filters and inputs that satisfy
`PrecompilesAssumption` and `QueriesAssumption` (types, and marks of absent fields that
are no values). The invariant `QueriesInv` says of every answer given so far in a batch
that it is right about the first `at` blocks of the chain, where `at` is the head it saw; the
chain only grows, so it stays right whatever is sealed before the response. `Batched` says
that the answers and the items still to come make up a batch. Each right answer is a
lemma on the operator that computes it. `logs_in_range` and `filtered` flatten a sequence of
sequences; `FlattenPieces` places every element of the result, which gives both that nothing
is missing and the order. `VerifyExact` shows that the input parser inverts the encoding:
a length that two bytes hold is read back, and an input that parses is the encoding of
what it was parsed into.

### What stays with TLC

`EventuallySealed` and `OpenReturns`: TLAPS does neither liveness under fairness nor
`ENABLED`. Everything else that a passing run checks is also proved; `NothingDropped`,
`PureFunctionOfCommits` and `ImplementsReplicatedLog` for the faults that are named above,
which are those of the run or more.

## What is not modelled

- revm's interpreter, RocksDB, Mysticeti, the SMT crate and axum are external; the
  models state what the code relies on.
- The signature schemes behind the precompiles, and how the precompiles are
  installed in revm.
- RPC methods that only pass one call on and format its result. `eth_estimateGas`
  is an `eth_call` whose gas is reported.
- What a receiver with code does with a drip.
- Corrupt database values (wrong length, bad JSON), metrics, logging, banners,
  argument parsing, key encodings and JSON formatting.
- `smt_proof`, and the test driver `DagOrdering::run_rounds`.

## Plan

Compose `Launcher` over `KanariNode`, so that what a directory is opened with is what the
command line passes, and `Validator` over the sealing of `KanariNode`.
