---------------------------- MODULE MCForkFetch ----------------------------
(* A fetch of one account and one slot, while the remote chain grows. *)
EXTENDS ForkFetch

CONSTANTS token, counter

MCAccounts == <<token>>
MCSlots == <<counter>>
=============================================================================
