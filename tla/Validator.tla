----------------------------- MODULE Validator -----------------------------
(***************************************************************************)
(* Validators that execute the commits of a DAG consensus                  *)
(* (crates/consensus/src/validator.rs).  Each has an RPC side that submits *)
(* payloads, a forwarding task, and an execution task that takes commits   *)
(* one by one, keeps a queue of payloads that fail today, and sweeps it    *)
(* until nothing more seals.  The node lock is taken once per payload.     *)
(* The faucet of faucet.rs signs its drips on top of the sealed state and  *)
(* submits them the same way.                                              *)
(*                                                                         *)
(* Faults: a process may die and come back, a write to RocksDB may fail    *)
(* after the payload was executed, and an operator may `reset` a stopped   *)
(* validator, which removes its chain and leaves its DAG log.              *)
(*                                                                         *)
(* The consensus itself (crates dag and consensus) is external: it commits *)
(* one sequence of sub-DAGs, and hands it to every validator in order.     *)
(***************************************************************************)
EXTENDS Naturals, Sequences, FiniteSets, Functions

CONSTANTS
  Validators,
  Payloads,
  Account,       \* Account[p]: the sender of p
  Nonce,         \* Nonce[p]: how many payloads of its sender come before p
  After,         \* After[p]: transfers that must be sealed before p is funded
  Drips,         \* payloads that the faucets sign, all with the same key
  Raises,        \* payloads whose gas raises the base fee of the next block
  Thrifty,       \* payloads that cannot pay a raised base fee
  Clients,       \* which payloads may be submitted where: <<validator, payload>> pairs
  Clock,         \* timestamps of DAG blocks, in seconds
  Shapes,        \* shapes of sub-DAGs that may commit: the authors of its blocks
                 \* in linear order, their timestamps, and which is the anchor
  MaxPending,    \* MAX_PENDING_PAYLOADS
  ChannelSize,   \* capacity of the RPC-to-DAG channel
  MaxSubmits,    \* bound: submissions in all
  MaxEmpty,      \* bound: commits without payloads
  Faults,        \* the kinds of fault that may happen, a subset of FaultKind
  MaxFaults      \* bound: faults in all

\* "crash": the process dies.  "write_fails": RocksDB refuses a block.
\* "reset": `kanari-evm-node reset` on the data directory of a stopped process.
FaultKind == {"crash", "write_fails", "reset"}

\* A committee is never empty: to_mysticeti refuses fewer than four authorities.
ASSUME ValidatorAssumption ==
  /\ Validators # {}
  /\ Nonce \in [Payloads -> Nat] /\ DOMAIN Account = Payloads
  /\ After \in [Payloads -> SUBSET Payloads]
  /\ Clients \subseteq Validators \X Payloads
  /\ Raises \subseteq Payloads /\ Thrifty \subseteq Payloads /\ Drips \subseteq Payloads
  /\ Faults \subseteq FaultKind /\ MaxFaults \in Nat
  /\ Clock \subseteq Nat /\ MaxPending \in Nat
  /\ \A s \in Shapes : /\ s.order \in Seq(Validators) /\ IsInjective(s.order)
                      /\ s.times \in [DOMAIN s.order -> Clock]
                      /\ s.anchor \in 0 .. Len(s.order)

VARIABLES
  commits,    \* the sequence of committed sub-DAGs
  pool,       \* pool[v]: payloads in v's DAG mempool, or in its proposals
  queue,      \* queue[v]: payloads in the channel from RPC to the mempool
  given,      \* given[v]: commits handed to v's commit channel
  taken,      \* taken[v]: commits v's execution task is past
  task,       \* task[v]: the execution task
  chain,      \* chain[v]: sealed blocks, durable (module KanariNode)
  unsaved,    \* unsaved[v]: payloads in the memory state whose block was not saved
  accepted,   \* payloads whose submission returned a hash
  submits, faults

dag == <<commits, pool>>
ledger == <<chain, unsaved>>
vars == <<commits, pool, queue, given, taken, task, ledger, accepted, submits, faults>>

\* A block: its payload, its timestamp, and the effects that its state root
\* commits to although no block holds them.
Block == [tx: Payloads, ts: Clock \cup {0}, beside: SUBSET Payloads]

Task == [phase: {"down", "idle", "sweeping"}, lastTs: Clock \cup {0},
         pending: Seq(Payloads), todo: Seq(Payloads), progress: BOOLEAN]

Started == [phase |-> "idle", lastTs |-> 0, pending |-> <<>>, todo |-> <<>>,
            progress |-> FALSE]

Up(v) == task[v].phase # "down"

-----------------------------------------------------------------------------
(* Commits, and what the node seals. *)

\* A committed sub-DAG: its blocks in linear order, and which one is the
\* anchor, or 0 when the anchor is not among them.
CommitType == [blocks: Seq([ts: Clock, txs: Seq(Payloads)]), anchor: Nat]

Latest(times) == IF times = {} THEN 0 ELSE CHOOSE t \in times : \A u \in times : u <= t

commit_timestamp(commit) ==
  IF commit.anchor # 0 THEN commit.blocks[commit.anchor].ts
  ELSE Latest({b.ts : b \in Range(commit.blocks)})

ordered_payloads(commit) ==
  LET first[n \in 0 .. Len(commit.blocks)] ==
        IF n = 0 THEN <<>> ELSE first[n - 1] \o commit.blocks[n].txs
  IN  first[Len(commit.blocks)]

\* Mutants of Newest: no cap; a queue that is just full loses one.
KeepAll(seq) == seq

DropAtCap(seq) ==
  IF Len(seq) < MaxPending THEN seq
  ELSE SubSeq(seq, Len(seq) - MaxPending + 2, Len(seq))

\* drain(..drop_n): the oldest entries beyond the cap go.
Newest(seq) ==
  IF Len(seq) <= MaxPending THEN seq
  ELSE SubSeq(seq, Len(seq) - MaxPending + 1, Len(seq))

Sealed(c) == {block.tx : block \in Range(c)}

\* What the state in v's memory has executed, and the nonce of an account in it.
Executed(v) == Sealed(chain[v]) \cup unsaved[v]

NonceOf(done, a) == Cardinality({p \in done : Account[p] = a})

Executes(done, p) == Nonce[p] = NonceOf(done, Account[p]) /\ After[p] \subseteq done

\* The base fee of the next block depends on the head block alone.
Raised(c) == c # <<>> /\ c[Len(c)].tx \in Raises

(***************************************************************************)
(* When seal_committed gets as far as save_block: the nonce is the next of *)
(* its sender, the sender is funded, and it can pay the base fee.          *)
(***************************************************************************)
Seals(v, p) == Executes(Executed(v), p) /\ (p \in Thrifty => ~Raised(chain[v]))

-----------------------------------------------------------------------------
(* RPC to DAG. *)

\* send_raw_transaction with a DAG sender.  A full channel is an error, and
\* changes nothing.
send_raw_transaction(v, p) ==
  /\ submits < MaxSubmits
  /\ Up(v) /\ Len(queue[v]) < ChannelSize
  /\ queue' = [queue EXCEPT ![v] = Append(@, p)]
  /\ accepted' = accepted \cup {p}
  /\ submits' = submits + 1
  /\ UNCHANGED <<dag, given, taken, task, ledger, faults>>

Submit(v, p) ==
  /\ <<v, p>> \in Clients /\ p \notin Drips
  /\ send_raw_transaction(v, p)

\* The drip a faucet signs: with the nonce of the state in memory, from an
\* account that is funded in it, at the base fee that is pending.
faucet(v, p) ==
  /\ Nonce[p] = NonceOf(Executed(v), Account[p])
  /\ After[p] \subseteq Executed(v)
  /\ p \in Thrifty <=> ~Raised(chain[v])

Drip(v, p) ==
  /\ <<v, p>> \in Clients /\ p \in Drips
  /\ faucet(v, p)
  /\ send_raw_transaction(v, p)

\* The forwarding task moves one batch to the mempool.
Forward(v) ==
  /\ Up(v) /\ queue[v] # <<>>
  /\ pool' = [pool EXCEPT ![v] = Append(@, Head(queue[v]))]
  /\ queue' = [queue EXCEPT ![v] = Tail(@)]
  /\ UNCHANGED <<commits, given, taken, task, ledger, accepted, submits, faults>>

Empties == Cardinality({i \in DOMAIN commits : ordered_payloads(commits[i]) = <<>>})

\* External: a sub-DAG commits, with what its authors had to propose.
CommitSubDag(s) ==
  LET commit == [blocks |-> [i \in DOMAIN s.order |->
                               [ts |-> s.times[i], txs |-> pool[s.order[i]]]],
                 anchor |-> s.anchor]
  IN  /\ ordered_payloads(commit) = <<>> => Empties < MaxEmpty
      /\ commits' = Append(commits, commit)
      /\ pool' = [v \in Validators |-> IF v \in Range(s.order) THEN <<>> ELSE pool[v]]
      /\ UNCHANGED <<queue, given, taken, task, ledger, accepted, submits, faults>>

\* External: the syncer puts the next commit into v's commit channel.
Deliver(v) ==
  /\ Up(v) /\ given[v] < Len(commits)
  /\ given' = [given EXCEPT ![v] = @ + 1]
  /\ UNCHANGED <<dag, queue, taken, task, ledger, accepted, submits, faults>>

-----------------------------------------------------------------------------
(* DAG to node: the execution task. *)

\* Mutants of Stamp: the clock may go back; the time depends on what else has
\* arrived.
Unclamped(v, commit) == commit_timestamp(commit)

ArrivalTime(v, commit) ==
  Latest({commit_timestamp(commits[given[v]]), task[v].lastTs})

\* Never before the last commit's time.
Stamp(v, commit) == Latest({commit_timestamp(commit), task[v].lastTs})

\* A commit is received: the clock moves on, its payloads join the queue, and
\* the queue is cut to its cap before the first sweep begins.
ReceiveCommit(v) ==
  /\ task[v].phase = "idle" /\ taken[v] < given[v]
  /\ LET commit == commits[taken[v] + 1]
         joined == Newest(task[v].pending \o ordered_payloads(commit))
     IN  task' = [task EXCEPT ![v] =
                    [phase |-> "sweeping", lastTs |-> Stamp(v, commit), pending |-> <<>>,
                     todo |-> joined, progress |-> FALSE]]
  /\ taken' = [taken EXCEPT ![v] = @ + 1]
  /\ UNCHANGED <<dag, queue, given, ledger, accepted, submits, faults>>

\* One payload of a sweep: sealed under the commit's timestamp, or kept.
TryPayload(v) ==
  /\ task[v].phase = "sweeping" /\ task[v].todo # <<>>
  /\ LET p == Head(task[v].todo)
         block == [tx |-> p, ts |-> task[v].lastTs, beside |-> unsaved[v]]
     IN IF Seals(v, p)
        THEN /\ chain' = [chain EXCEPT ![v] = Append(@, block)]
             /\ task' = [task EXCEPT ![v].todo = Tail(@), ![v].progress = TRUE]
        ELSE /\ task' = [task EXCEPT ![v].todo = Tail(@), ![v].pending = Append(@, p)]
             /\ UNCHANGED chain
  /\ UNCHANGED <<dag, queue, given, taken, unsaved, accepted, submits, faults>>

Fault(kind) == kind \in Faults /\ faults < MaxFaults /\ faults' = faults + 1

\* The payload is executed, and save_block fails: it waits in the queue like
\* one that was refused, while its effects stay in memory.
SaveFails(v) ==
  /\ task[v].phase = "sweeping" /\ task[v].todo # <<>>
  /\ Fault("write_fails")
  /\ LET p == Head(task[v].todo) IN
     /\ Seals(v, p)
     /\ unsaved' = [unsaved EXCEPT ![v] = @ \cup {p}]
     /\ task' = [task EXCEPT ![v].todo = Tail(@), ![v].pending = Append(@, p)]
  /\ UNCHANGED <<dag, queue, given, taken, chain, accepted, submits>>

\* Mutant of AnotherSweep: one pass per commit.
SinglePass(t) == FALSE

AnotherSweep(t) == t.progress /\ t.pending # <<>>

EndSweep(v) ==
  /\ task[v].phase = "sweeping" /\ task[v].todo = <<>>
  /\ task' = [task EXCEPT ![v] =
                IF AnotherSweep(task[v])
                THEN [@ EXCEPT !.todo = task[v].pending, !.pending = <<>>, !.progress = FALSE]
                ELSE [@ EXCEPT !.phase = "idle", !.progress = FALSE]]
  /\ UNCHANGED <<dag, queue, given, taken, ledger, accepted, submits, faults>>

-----------------------------------------------------------------------------
(* Crashes, restarts and resets. *)

\* The process dies.  The chain is in RocksDB.  The clock, the queue of failed
\* payloads, both channels and the mempool are not; a payload that v already
\* proposed stays in the DAG.
Crash(v) ==
  /\ Up(v) /\ Fault("crash")
  /\ task' = [task EXCEPT ![v] = [Started EXCEPT !.phase = "down"]]
  /\ queue' = [queue EXCEPT ![v] = <<>>]
  /\ pool' = pool \/ pool' = [pool EXCEPT ![v] = <<>>]
  /\ unsaved' = [unsaved EXCEPT ![v] = {}]
  /\ UNCHANGED <<commits, given, taken, chain, accepted, submits>>

\* replay_blocks stops at block n: its payload is refused, or the root it was
\* sealed with is not that of the blocks up to it.
Refused(c, n) == ~Executes(Sealed(SubSeq(c, 1, n - 1)), c[n].tx)

\* Mutant of Stops: a block whose payload executes is taken as it is.
RootUnchecked(c, n) == Refused(c, n)

Stops(c, n) == Refused(c, n) \/ c[n].beside # {}

\* What replay leaves of a chain in the store.  Each block it seals again sets
\* the height, and the block whose root differs has been replaced by then.
\* A refused first block leaves the store as it was.
Replayed(c) ==
  LET stops == {n \in DOMAIN c : Stops(c, n)}
      first == CHOOSE n \in stops : \A m \in stops : n <= m
  IN  CASE stops = {} -> c
        [] stops # {} /\ ~Refused(c, first) ->
             [SubSeq(c, 1, first) EXCEPT ![first].beside = {}]
        [] stops # {} /\ Refused(c, first) ->
             IF first = 1 THEN c ELSE SubSeq(c, 1, first - 1)

\* A new process opens the chain, and exits if replay stops.  Otherwise it
\* joins: the syncer goes on after the last commit it handed over before, and
\* what the channel held is gone.
Restart(v) ==
  /\ ~Up(v)
  /\ chain' = [chain EXCEPT ![v] = Replayed(@)]
  /\ IF \E n \in DOMAIN chain[v] : Stops(chain[v], n) THEN UNCHANGED <<task, taken>>
     ELSE /\ task' = [task EXCEPT ![v] = Started]
          /\ taken' = [taken EXCEPT ![v] = given[v]]
  /\ UNCHANGED <<dag, queue, given, unsaved, accepted, submits, faults>>

\* cmd_reset removes the chain database; the DAG log, and with it the place in
\* the commit sequence, stays.
Reset(v) ==
  /\ ~Up(v) /\ Fault("reset")
  /\ chain' = [chain EXCEPT ![v] = <<>>]
  /\ UNCHANGED <<dag, queue, given, taken, task, unsaved, accepted, submits>>

-----------------------------------------------------------------------------
Init ==
  /\ commits = <<>> /\ accepted = {} /\ submits = 0 /\ faults = 0
  /\ pool = [v \in Validators |-> <<>>] /\ queue = [v \in Validators |-> <<>>]
  /\ given = [v \in Validators |-> 0] /\ taken = [v \in Validators |-> 0]
  /\ task = [v \in Validators |-> Started] /\ chain = [v \in Validators |-> <<>>]
  /\ unsaved = [v \in Validators |-> {}]

Execute(v) == ReceiveCommit(v) \/ TryPayload(v) \/ EndSweep(v)

Next ==
  \/ \E s \in Shapes : CommitSubDag(s)
  \/ \E v \in Validators :
       \/ \E p \in Payloads : Submit(v, p) \/ Drip(v, p)
       \/ Forward(v) \/ Deliver(v) \/ Execute(v)
       \/ SaveFails(v) \/ Crash(v) \/ Restart(v) \/ Reset(v)

Spec == Init /\ [][Next]_vars

(***************************************************************************)
(* The tasks are tokio tasks that never block for good, and the consensus  *)
(* keeps committing what validators propose.                               *)
(***************************************************************************)
CommitFrom(v) ==
  pool[v] # <<>> /\ \E s \in Shapes : v \in Range(s.order) /\ CommitSubDag(s)

Fairness ==
  \A v \in Validators :
    /\ WF_vars(Forward(v)) /\ WF_vars(CommitFrom(v)) /\ WF_vars(Deliver(v))
    /\ WF_vars(Execute(v))

FairSpec == Spec /\ Fairness

-----------------------------------------------------------------------------
(* Properties. *)

\* Types; the queue of failed payloads never outgrows its cap, during a sweep
\* neither.
TypeOK ==
  /\ commits \in Seq(CommitType)
  /\ pool \in [Validators -> Seq(Payloads)] /\ queue \in [Validators -> Seq(Payloads)]
  /\ given \in [Validators -> Nat] /\ taken \in [Validators -> Nat]
  /\ task \in [Validators -> Task] /\ chain \in [Validators -> Seq(Block)]
  /\ unsaved \in [Validators -> SUBSET Payloads]
  /\ \A v \in Validators :
       /\ taken[v] <= given[v] /\ given[v] <= Len(commits)
       /\ Len(task[v].pending) + Len(task[v].todo) <= MaxPending
  /\ accepted \subseteq Payloads /\ submits \in Nat /\ faults \in Nat

Idle(v) == task[v].phase = "idle"

\* ARCHITECTURE.md, invariant 5: the pending queue, and with it the chain, is a
\* pure function of the commit sequence.  Two validators that are past the same
\* commits have the same blocks, the same queue and the same clock, whichever
\* of them signed the drips in it and on top of which state.
PureFunctionOfCommits ==
  \A v, w \in Validators :
    Idle(v) /\ Idle(w) /\ taken[v] = taken[w] =>
      chain[v] = chain[w] /\ task[v] = task[w]

\* The queue is swept to fixation: between commits it holds no payload that
\* would seal, whatever order payloads came in, however the fee moved, and
\* across crashes and resets.  Only a process in which a write has failed may
\* go idle too soon: the failed payload changed the state after others had
\* been tried, and does not count as progress.
SweptToFixation ==
  \A v \in Validators :
    Idle(v) /\ unsaved[v] = {} =>
      \A p \in Range(task[v].pending) : ~Seals(v, p)

\* A validator that runs, and in whose process no write has failed, serves a
\* chain that executes: every payload in it has the nonce and the funds it
\* needs from the blocks below, and no root commits to anything else.  What an
\* earlier process left behind after a failed write is cut off by replay
\* before the validator is up again (replay_blocks).
ServesExecutedChain ==
  \A v \in Validators :
    Up(v) /\ unsaved[v] = {} =>
      \A n \in DOMAIN chain[v] : ~Refused(chain[v], n) /\ chain[v][n].beside = {}

\* The payloads that v's task has received in the first n commits.
Covered(n) == UNION {Range(ordered_payloads(commits[i])) : i \in 1 .. n}

\* The places of those payloads: the commit, and the position in it.
Places(n) == UNION {{i} \X DOMAIN ordered_payloads(commits[i]) : i \in 1 .. n}

\* As long as no more payloads were committed than the queue holds, none is
\* lost: each is sealed or waits, those whose block could not be saved too.
NothingDropped ==
  \A v \in Validators :
    Cardinality(Places(Len(commits))) <= MaxPending /\ Idle(v) =>
      Covered(taken[v]) = Sealed(chain[v]) \cup Range(task[v].pending)

Longest == CHOOSE v \in Validators : \A w \in Validators : Len(chain[w]) <= Len(chain[v])

Entries(c) == [n \in DOMAIN c |-> <<c[n].tx, c[n].ts>>]

R == INSTANCE ReplicatedLog WITH
       Replicas <- Validators, log <- Entries(chain[Longest]),
       held <- [v \in Validators |-> Entries(chain[v])]

\* Validators without faults hold prefixes of one append-only log, each payload
\* in it once, with timestamps that never go back.
ImplementsReplicatedLog == R!Spec

\* Payloads that spend the same nonce: at most one of them can ever seal.
Rivals(p) == {q \in Payloads : Account[q] = Account[p] /\ Nonce[q] = Nonce[p]}

\* A payload that must seal, or lose to a rival: the transfers that fund it have
\* no rivals, and they and its sender's earlier nonces were accepted too.
Sound(p) ==
  \E s \in SUBSET (accepted \ Thrifty) :
    /\ p \in s
    /\ \A q \in s :
         /\ After[q] \subseteq s /\ \A f \in After[q] : f # q /\ Rivals(f) = {f}
         /\ \A n \in 0 .. Nonce[q] - 1 :
              \E r \in s : Account[r] = Account[q] /\ Nonce[r] = n

\* "The transaction seals once a DAG commit covers it": what a client was given
\* a hash for is sealed in the end, on every validator, unless another payload
\* of its sender took its nonce.  Of the drips that faucets signed on the same
\* state, one is paid.
EventuallySealed ==
  \A p \in Payloads, v \in Validators :
    Sound(p) ~> Rivals(p) \cap Sealed(chain[v]) # {}

-----------------------------------------------------------------------------
(* What the repository says, as invariants that do not hold. *)

\* validator.rs: only permanently invalid payloads are dropped from an overfull
\* queue, so a first payload of a funded account is sealed once it is covered.
OnlyInvalidDropped ==
  \A v \in Validators : Idle(v) =>
    \A p \in Covered(taken[v]) \ Thrifty :
      After[p] = {} /\ Nonce[p] = 0 => p \in Sealed(chain[v])

\* faucet.rs: a drip seals immediately, and execution.rs: in validator mode it
\* seals once a DAG commit covers it.
CoveredDripSeals ==
  \A v \in Validators : Idle(v) => Drips \cap Covered(taken[v]) \subseteq Sealed(chain[v])

\* faucet.rs: a drip is priced at the pending base fee so that it stays valid
\* as fees drift, so the fee is never what a committed drip waits for.
DripStaysValid ==
  \A v \in Validators :
    \A p \in Drips \cap Range(task[v].pending) :
      Idle(v) /\ Executes(Executed(v), p) => Seals(v, p)

\* ValidatorNode::shutdown: sealed state replays from the chain store on the
\* next start, so no stopped validator has a chain that does not replay.
SealedStateReplays ==
  \A v \in Validators : ~Up(v) => \A n \in DOMAIN chain[v] : ~Stops(chain[v], n)
=============================================================================
