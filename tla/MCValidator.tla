---------------------------- MODULE MCValidator ----------------------------
(***************************************************************************)
(* Small instances of Validator.  `opener` and `follower` are the first    *)
(* two payloads of the dev account; the first funds the faucet account and *)
(* that of `cheap`, which only pays a low fee.  `drip1` and `drip2` are    *)
(* drips to two addresses, signed on the same state.  `gap` skips a nonce  *)
(* and never seals.                                                        *)
(***************************************************************************)
EXTENDS Validator

CONSTANTS v1, v2, opener, follower, cheap, drip1, drip2, gap, dev, other, tap

MCValidators == {v1, v2}
MCPayloads == {opener, follower, cheap, drip1, drip2}
CapPayloads == {opener, follower, gap}
LivePayloads == {opener, follower, drip1, drip2}

MCAccount == [p \in Payloads |->
                IF p \in {opener, follower} THEN dev
                ELSE IF p \in {drip1, drip2} THEN tap ELSE other]
MCNonce == [p \in Payloads |-> IF p = gap THEN 2 ELSE IF p = follower THEN 1 ELSE 0]
MCAfter == [p \in Payloads |-> IF MCAccount[p] = dev THEN {} ELSE {opener}]
MCDrips == Payloads \cap {drip1, drip2}

\* The second payload may come before the first, the first twice.
MCClients == {<<v1, follower>>, <<v2, opener>>, <<v2, cheap>>,
              <<v1, drip1>>, <<v2, drip2>>}
FaultClients == {<<v1, opener>>, <<v1, follower>>, <<v1, cheap>>}
LiveClients == {<<v1, follower>>, <<v2, opener>>, <<v1, drip1>>, <<v2, drip2>>}
CapClients == {<<v1, follower>>, <<v2, opener>>, <<v2, gap>>}
DripClients == {<<v1, opener>>, <<v1, follower>>, <<v1, drip1>>, <<v2, drip2>>}

\* One block or two, in both orders; the clocks of the authors disagree, and
\* the anchor is the first block, the last, or not among them.
Shape(order, times, anchor) == [order |-> order, times |-> times, anchor |-> anchor]

MCShapes == {Shape(<<v1>>, <<2>>, 1),
             Shape(<<v1, v2>>, <<1, 2>>, 1), Shape(<<v2, v1>>, <<1, 2>>, 0)}

OneShape == {Shape(<<v1>>, <<2>>, 1)}

FewShapes == {Shape(<<v1>>, <<2>>, 1), Shape(<<v2, v1>>, <<1, 1>>, 0)}
=============================================================================
