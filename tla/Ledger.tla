------------------------------- MODULE Ledger -------------------------------
(***************************************************************************)
(* What a single node promises its clients: one append-only log of         *)
(* transactions that survives every outage.  While it serves, the node     *)
(* shows the whole log; whoever was answered finds the entry again.        *)
(***************************************************************************)
EXTENDS Naturals, Sequences, Functions

CONSTANTS
  Histories,   \* logs a data directory may already hold
  Entries,     \* transactions that may be sealed
  Clock,       \* timestamps
  Down         \* served is Down during an outage

VARIABLES
  log,        \* the chain, as a sequence of <<number, hash, transaction>>
  served,     \* what clients see
  answered    \* the entries clients were told of

vars == <<log, served, answered>>

HeadHash == IF log = <<>> THEN <<>> ELSE log[Len(log)][2]

\* The entry that transaction tx gets at time now.
EntryFor(tx, now) ==
  <<Len(log) + 1, Append(HeadHash, <<Len(log) + 1, now>>), tx>>

Fresh(tx) == \A i \in DOMAIN log : log[i][3] # tx

Init ==
  /\ log \in Histories
  /\ served = Down
  /\ answered = Range(log)

Start == served = Down /\ served' = log /\ UNCHANGED <<log, answered>>

Stop == served # Down /\ served' = Down /\ UNCHANGED <<log, answered>>

\* An entry is appended; its client is answered unless an outage comes first.
Seal(tx, now) ==
  /\ served # Down /\ Fresh(tx)
  /\ log' = Append(log, EntryFor(tx, now))
  /\ \/ served' = log' /\ answered' = answered \cup {EntryFor(tx, now)}
     \/ served' = Down /\ answered' = answered

Next == Start \/ Stop \/ \E tx \in Entries, now \in Clock : Seal(tx, now)

Spec == Init /\ [][Next]_vars
=============================================================================
