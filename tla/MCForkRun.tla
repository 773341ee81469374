----------------------------- MODULE MCForkRun -----------------------------
(* One account and one slot of a remote chain, and a data directory. *)
EXTENDS ForkRun

CONSTANTS k1, k2, k3, k4, friend, counter

\* No --faucet flag, one that funds a friend.
MCFundings == {<<>>, <<<<friend, 3>>>>}

MCAccounts == <<friend>>
MCSlots == <<counter>>

Journal(chain, key) == [chain |-> chain, alloc |-> <<<<Dev, 9>>, <<friend, 1>>>>, key |-> key]
MCJournals == {Journal(1, k4), Journal(2, NoKey),
               [Journal(1, k4) EXCEPT !.alloc = <<>>]}
=============================================================================
