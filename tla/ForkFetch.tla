----------------------------- MODULE ForkFetch -----------------------------
(***************************************************************************)
(* fetch_fork_genesis (crates/kanari-node/src/fork.rs): the snapshot a     *)
(* fork starts from is read with one JSON-RPC call per balance, code and   *)
(* storage slot, while the remote chain goes on.  Module ForkRun puts it   *)
(* into the command line.                                                  *)
(***************************************************************************)
EXTENDS Naturals, Sequences, Functions

CONSTANTS
  Accounts,   \* --account flags, in order
  Slots,      \* --slot flags, in order
  Blocks,     \* --block flags: "latest" is given as Latest
  Latest,
  Values,     \* what a balance, a code or a slot may be
  Empty,      \* the code of an account that has none; one of Values
  MaxHead     \* bound: blocks of the remote chain

(***************************************************************************)
(* The calls of a fetch: balance and code of each account, then the slots. *)
(***************************************************************************)
Calls ==
  LET account[n \in 0 .. Len(Accounts)] ==
        IF n = 0 THEN <<>>
        ELSE account[n - 1] \o <<<<"eth_getBalance", Accounts[n]>>,
                                 <<"eth_getCode", Accounts[n]>>>>
  IN  account[Len(Accounts)]
        \o [n \in DOMAIN Slots |-> <<"eth_getStorageAt", Slots[n]>>]

Subjects == Range(Calls)

VARIABLES
  remote,   \* the states of the remote chain, newest last
  block,    \* --block
  asked,    \* calls answered so far
  genesis,  \* what will become alloc, code and storage: <<call, value>> pairs
  outcome

vars == <<remote, block, asked, genesis, outcome>>

-----------------------------------------------------------------------------
\* External: the state the endpoint answers from.
Exists(b) == b = Latest \/ b \in DOMAIN remote
StateAt(b) == IF b = Latest THEN remote[Len(remote)] ELSE remote[b]

\* Accounts without code have no entry in the code list.
Entry(call, value) ==
  IF call[1] = "eth_getCode" /\ value = Empty THEN <<>> ELSE <<<<call, value>>>>

\* Mutant of BlockOf: a call without the block parameter.
LatestForSlots(call) == IF call[1] = "eth_getStorageAt" THEN Latest ELSE block

\* Every call names the block of the command line.
BlockOf(call) == block

\* The answer to one call.
Fetch ==
  /\ outcome = "fetching" /\ asked < Len(Calls)
  /\ LET call == Calls[asked + 1] IN
     /\ Exists(BlockOf(call))
     /\ genesis' = genesis \o Entry(call, StateAt(BlockOf(call))[call])
  /\ asked' = asked + 1
  /\ UNCHANGED <<remote, block, outcome>>

\* A call fails, or its answer does not parse: the fork is given up.
FetchFails ==
  /\ outcome = "fetching"
  /\ outcome' = "failed"
  /\ UNCHANGED <<remote, block, asked, genesis>>

FetchEnds ==
  /\ outcome = "fetching" /\ asked = Len(Calls)
  /\ outcome' = "done"
  /\ UNCHANGED <<remote, block, asked, genesis>>

\* External: the remote chain gets a block that changes one thing.
Advance ==
  /\ Len(remote) < MaxHead
  /\ \E s \in Subjects, value \in Values :
       remote' = Append(remote, [remote[Len(remote)] EXCEPT ![s] = value])
  /\ UNCHANGED <<block, asked, genesis, outcome>>

Init ==
  /\ remote \in {<<state>> : state \in [Subjects -> Values]}
  /\ block \in Blocks /\ asked = 0 /\ genesis = <<>> /\ outcome = "fetching"

Next == Fetch \/ FetchFails \/ FetchEnds \/ Advance

Spec == Init /\ [][Next]_vars

-----------------------------------------------------------------------------
\* What the first calls of a fetch would bring from one state, and all of them.
Taken(state) ==
  LET taken[n \in 0 .. Len(Calls)] ==
        IF n = 0 THEN <<>> ELSE taken[n - 1] \o Entry(Calls[n], state[Calls[n]])
  IN  taken

Snapshot(state) == Taken(state)[Len(Calls)]

\* fork.rs: accounts are imported "at one remote block".
SnapshotOfOneBlock ==
  outcome = "done" => \E n \in DOMAIN remote : genesis = Snapshot(remote[n])
=============================================================================
