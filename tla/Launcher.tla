------------------------------ MODULE Launcher ------------------------------
(***************************************************************************)
(* The command line over one data directory: start and local, fork,        *)
(* validator, reset (crates/kanari-node/src/main.rs), restarted and killed *)
(* in any order.  It decides which genesis KanariNode::open is asked for   *)
(* and which faucet secret is installed.  KanariNode::open is module       *)
(* KanariNode; here it is reduced to the genesis and the secret it ends up *)
(* with.                                                                   *)
(*                                                                         *)
(* RocksDB's lock keeps a second process off the directory.  The operator  *)
(* runs reset on a stopped node; the code does not look.                   *)
(***************************************************************************)
EXTENDS Naturals, Sequences

CONSTANTS
  Keys,        \* faucet secrets
  Flags,       \* the secrets an operator may pass as --faucet-key
  Dev,         \* DEV_FUNDED_ACCOUNT
  Others,      \* further accounts
  DevChain,    \* KANARI_EVM_DEV_CHAIN_ID
  Fundings,    \* --faucet lists: sequences of <<account, amount>>
  Journals,    \* legacy journals, with their faucet sidecar
  DevBalance,  \* DEV_FUNDED_BALANCE
  NoKey, NoChain, NoJournal   \* absent values

VARIABLES
  \* Durable: state.json with its sidecar, and the metadata of the chain database.
  journal, store,
  \* The process.
  node,
  \* Auxiliary: the genesis the chain in the directory was created with, every
  \* secret a run has drawn, the secrets that another one has replaced, and how
  \* the last command that ended did so.
  first, drawn, retired, exit

vars == <<journal, store, node, first, drawn, retired, exit>>

\* Accounts and what genesis gives them, in order.
Alloc == Seq((Others \cup {Dev}) \X Nat)

Genesis == [chain: Nat, alloc: Alloc]

ASSUME LauncherAssumption ==
  /\ Flags \subseteq Keys /\ NoKey \notin Keys /\ DevChain \in Nat
  /\ NoChain \notin Nat /\ NoJournal \notin Journals /\ Fundings \subseteq Alloc
  /\ Journals \subseteq [chain: Nat, alloc: Alloc, key: Keys \cup {NoKey}]
  /\ DevBalance \in Nat

EmptyStore == [chain |-> NoChain, alloc |-> <<>>, key |-> NoKey]

Down == [phase |-> "down", flag |-> NoKey, secret |-> NoKey,
         genesis |-> [chain |-> DevChain, alloc |-> <<>>]]

Phase == {"down", "opened", "up"}

\* `fresh` of run and run_fork: state.json, the legacy journal, is not there.
Fresh == journal = NoJournal

-----------------------------------------------------------------------------
(* The genesis and the secret a command asks for. *)

devnet == [chain |-> DevChain, alloc |-> <<<<Dev, DevBalance>>>>]

\* run: the dev account first, then the --faucet accounts.
Requested(faucets) ==
  IF Fresh THEN [devnet EXCEPT !.alloc = @ \o faucets] ELSE devnet

\* Secrets that were never drawn, nor are known to the operator.
Unused == Keys \ (drawn \cup Flags \cup {j.key : j \in Journals})

\* run: the secret on the command line, or a new one on fresh state, or none.
SecretsFor(flag) ==
  IF flag # NoKey THEN {flag} ELSE IF Fresh THEN Unused ELSE {NoKey}

-----------------------------------------------------------------------------
(* KanariNode::open. *)

\* Mutant of Migrates: the journal is migrated as long as it is there.
MigratesAgain == journal # NoJournal

\* A journal is migrated when the store has no chain id.
Migrates == store.chain = NoChain /\ journal # NoJournal

\* Mutant of Known: the command line decides on the allocations.
AsRequested(want) == want

\* The genesis open() goes on with: recorded allocations win.
Known(want) ==
  LET recorded == IF Migrates THEN journal.alloc ELSE store.alloc IN
  IF recorded = <<>> THEN want ELSE [want EXCEPT !.alloc = recorded]

OtherChain(want) ==
  IF Migrates THEN journal.chain # want.chain
  ELSE store.chain \notin {NoChain, want.chain}

Created(want) == first' = IF store.chain = NoChain THEN Known(want) ELSE first

Meta(want, key) == [chain |-> want.chain, alloc |-> Known(want).alloc, key |-> key]

SidecarKey == IF Migrates /\ journal.key # NoKey THEN journal.key ELSE store.key

\* The process exits with an error, and leaves the directory as it is.
Refuse ==
  /\ exit' = "error"
  /\ UNCHANGED <<journal, store, node, first, drawn>>

\* A command opens the node with the genesis it wants and a secret to install.
Open(want, flag, secret) ==
  \/ OtherChain(want) /\ Refuse
  \/ /\ ~OtherChain(want)
     /\ store' = Meta(want, SidecarKey)
     /\ journal' = IF Migrates THEN NoJournal ELSE journal
     /\ node' = [phase |-> "opened", flag |-> flag, secret |-> secret,
                 genesis |-> Known(want)]
     /\ Created(want)
     /\ drawn' = drawn \cup ({secret} \ {NoKey})
     /\ exit' = "ok"
  \/ \* The process dies while it migrates.
     /\ ~OtherChain(want) /\ Migrates
     /\ \/ store' = Meta(want, NoKey) /\ UNCHANGED journal
        \/ store' = Meta(want, SidecarKey) /\ journal' \in {journal, NoJournal}
     /\ Created(want)
     /\ exit' = "error"
     /\ UNCHANGED <<node, drawn>>

-----------------------------------------------------------------------------
(* The commands. *)

\* start, and local, which has no flags.
Start(faucets, flag) ==
  /\ node.phase = "down"
  /\ \E secret \in SecretsFor(flag) : Open(Requested(faucets), flag, secret)

\* run_validator: always the devnet genesis; never draws a secret.
RunValidator(flag) ==
  /\ node.phase = "down"
  /\ Open(devnet, flag, flag)

(***************************************************************************)
(* run_fork.  It ends in run, whose first call sets up the logging that    *)
(* run_fork has set up already: the process exits there, before it looks   *)
(* at the directory, and what was fetched is gone.  A fork takes no lock   *)
(* while it fetches.                                                       *)
(***************************************************************************)
ForkWithoutUrl == Fresh /\ Refuse

ForkFetchFails == Refuse

ForkHandsOver == Refuse

\* With a state.json the chain id comes from the store.
ForkReopens ==
  /\ ~Fresh /\ node.phase = "down"
  /\ IF store.chain = NoChain THEN Refuse ELSE ForkHandsOver

\* The secret is installed, or the stored one is loaded, and RPC is served.
Serve ==
  /\ node.phase = "opened"
  /\ store' = [store EXCEPT !.key = IF node.secret # NoKey THEN node.secret ELSE @]
  /\ node' = [node EXCEPT !.phase = "up"]
  /\ UNCHANGED <<journal, first, drawn, exit>>

\* Shutdown, a failed bind, or the process is killed.
Stop ==
  /\ node.phase # "down"
  /\ node' = Down
  /\ UNCHANGED <<journal, store, first, drawn, exit>>

\* cmd_reset: the journal, its sidecar and the chain database are deleted.
Reset ==
  /\ node.phase = "down"
  /\ journal' = NoJournal /\ store' = EmptyStore
  /\ first' = Down.genesis /\ exit' = "ok"
  /\ UNCHANGED <<node, drawn>>

\* History: a stored secret that goes is retired, one that comes is not.
Retire == retired' = (retired \cup {store.key}) \ {store'.key, NoKey}

-----------------------------------------------------------------------------
Init ==
  /\ journal \in Journals \cup {NoJournal}
  /\ store = EmptyStore /\ node = Down /\ first = Down.genesis
  /\ drawn = {} /\ retired = {} /\ exit = "ok"

\* Every command but a fork.
Operate ==
  /\ \/ \E flag \in Flags \cup {NoKey} :
          \/ \E faucets \in Fundings : Start(faucets, flag)
          \/ RunValidator(flag)
     \/ Serve \/ Stop \/ Reset
  /\ Retire

\* With the fork as one step; module ForkRun has its fetch in steps.
Next ==
  \/ Operate
  \/ (ForkWithoutUrl \/ ForkReopens) /\ Retire
  \/ Fresh /\ (ForkFetchFails \/ ForkHandsOver) /\ Retire

Spec == Init /\ [][Next]_vars

-----------------------------------------------------------------------------
(* Properties. *)

\* Types; the metadata of a chain is there as a whole or not at all.
TypeOK ==
  /\ journal \in Journals \cup {NoJournal}
  /\ store = EmptyStore \/ store \in [chain: Nat, alloc: {first.alloc},
                                      key: Keys \cup {NoKey}]
  /\ node \in [phase: Phase, flag: Flags \cup {NoKey}, secret: Keys \cup {NoKey},
               genesis: Genesis]
  /\ first \in Genesis /\ drawn \subseteq Keys /\ retired \subseteq Keys
  /\ exit \in {"ok", "error"}

\* Until it is reset, a directory keeps the chain id and the allocations it was
\* created with, whatever commands and flags reopen it: every process runs on
\* them (Requested adds accounts on each start, open() discards them).
GenesisPinned ==
  node.phase # "down" =>
    /\ node.genesis.chain = first.chain /\ node.genesis.alloc = first.alloc
    /\ store.chain = first.chain /\ store.alloc = first.alloc

\* A faucet secret that another one has replaced does not come back unless the
\* operator passes it again.  An interrupted migration leaves state.json and its
\* sidecar beside a store that is in use: no later open takes the old secret
\* from there, or the drips of a node would move to another account.
RetiredStayRetired ==
  [][store'.key # store.key /\ store'.key \in retired => store'.key = node.flag]_vars

-----------------------------------------------------------------------------
(* What the repository says, as properties that do not hold. *)

\* README.md: "the key persists in the data dir so restarts keep working".  A
\* process that was given no secret goes on with the one that is stored.
KeyPersists ==
  [][store.key # NoKey /\ store'.key # NoKey /\ node.flag = NoKey
       => store'.key = store.key]_vars
=============================================================================
