---------------------------- MODULE ReplicatedLog ----------------------------
(***************************************************************************)
(* What a network of validators promises: one append-only log of distinct  *)
(* payloads with timestamps that never go back, of which every validator   *)
(* holds a prefix.                                                         *)
(***************************************************************************)
EXTENDS Naturals, Sequences

CONSTANTS Replicas, Payloads, Clock

VARIABLES
  log,    \* the whole log, as <<payload, timestamp>> entries
  held    \* held[r]: what replica r holds of it

vars == <<log, held>>

Fits(payload, ts) ==
  /\ \A n \in DOMAIN log : log[n][1] # payload
  /\ log # <<>> => log[Len(log)][2] <= ts

Init == log = <<>> /\ held = [r \in Replicas |-> <<>>]

\* Replica r holds one entry more: a known one, or a new one it is first to add.
Advance(r) ==
  /\ \/ Len(held[r]) < Len(log) /\ log' = log
     \/ /\ held[r] = log
        /\ \E payload \in Payloads, ts \in Clock :
             Fits(payload, ts) /\ log' = Append(log, <<payload, ts>>)
  /\ held' = [held EXCEPT ![r] = Append(@, log'[Len(@) + 1])]

Next == \E r \in Replicas : Advance(r)

Spec == Init /\ [][Next]_vars
=============================================================================
