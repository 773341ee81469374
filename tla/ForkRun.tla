------------------------------ MODULE ForkRun ------------------------------
(***************************************************************************)
(* The fork command from end to end: the command line of module Launcher   *)
(* with the fetch of module ForkFetch inside, one remote call at a time,   *)
(* over a remote chain that goes on, while the operator does whatever else *)
(* with the data directory.                                                *)
(***************************************************************************)
EXTENDS Launcher, Functions

CONSTANTS
  Accounts, Slots, Blocks, Latest, Values, Empty, MaxHead   \* of ForkFetch

VARIABLES
  remote, block, asked, genesis, outcome   \* of ForkFetch

F == INSTANCE ForkFetch

\* No fork command is running.
Idle == "none"

ASSUME ForkRunAssumption ==
  /\ Latest \notin Nat /\ Blocks \subseteq (Nat \cup {Latest})
  /\ Empty \in Values /\ MaxHead \in Nat \ {0}
  /\ Accounts \in Seq(Range(Accounts)) /\ Slots \in Seq(Range(Slots))

forkVars == <<remote, block, asked, genesis, outcome>>
allVars == <<vars, forkVars>>

-----------------------------------------------------------------------------
\* run_fork on fresh state with a URL: the fetch begins.
BeginFetch(b) ==
  /\ Fresh /\ outcome = Idle
  /\ block' = b /\ outcome' = "fetching"
  /\ UNCHANGED <<vars, remote, asked, genesis>>

FetchStep == (F!Fetch \/ F!FetchEnds) /\ UNCHANGED vars

\* A call fails: the process exits, and has not touched the directory.
GiveUp == F!FetchFails /\ ForkFetchFails /\ Retire

\* What was fetched is in the memory of one process.
Forget == block' = Latest /\ asked' = 0 /\ genesis' = <<>> /\ outcome' = Idle

\* The fetch is through: the process goes on to run, and exits.
HandOver ==
  /\ outcome = "done"
  /\ ForkHandsOver /\ Retire /\ Forget /\ UNCHANGED remote

\* The process is killed while it fetches, or is gone after a failed fetch.
EndFetch ==
  /\ outcome \in {"fetching", "failed"}
  /\ Forget /\ UNCHANGED <<vars, remote>>

\* Everything else a directory goes through.
Command ==
  /\ \/ Operate
     \/ (ForkWithoutUrl \/ ForkReopens) /\ Retire
  /\ UNCHANGED forkVars

AdvanceRemote == F!Advance /\ UNCHANGED vars

ForkInit ==
  /\ Init
  /\ remote \in {<<state>> : state \in [F!Subjects -> Values]}
  /\ block = Latest /\ asked = 0 /\ genesis = <<>> /\ outcome = Idle

ForkNext ==
  \/ \E b \in Blocks : BeginFetch(b)
  \/ FetchStep \/ GiveUp \/ HandOver \/ EndFetch \/ AdvanceRemote \/ Command

ForkSpec == ForkInit /\ [][ForkNext]_allVars

-----------------------------------------------------------------------------
\* What a fork of a numbered block imports is that block's state, however far
\* the remote chain gets between the calls of fetch_fork_genesis.
NumberedForkIsExact ==
  outcome = "done" /\ block # Latest => genesis = F!Snapshot(remote[block])

-----------------------------------------------------------------------------
\* What the repository says, and does not hold.  ARCHITECTURE.md: a fork goes
\* "into genesis, then runs fully local".
ForkRunsLocal ==
  [][outcome = "done" /\ outcome' # "done" => node'.phase # "down"]_allVars
=============================================================================
