----------------------------- MODULE MCQueries -----------------------------
(* Every filter of a small range alone, every short input of a precompile, *)
(* and a few items in batches of two.                                      *)
EXTENDS Queries

CONSTANTS token, swap, sent, paid

MCBlockLogs ==
  {<<>>,
   <<[address |-> token, topics |-> <<sent>>]>>,
   <<[address |-> swap, topics |-> <<>>], [address |-> token, topics |-> <<sent, paid>>]>>}

Filter(hash, from, to, address, topics) ==
  [hash |-> hash, from |-> from, to |-> to, address |-> address, topics |-> topics]

Ends == {Absent, Latest, Pending, Earliest, 1, 2, 3, Malformed}

RangeFilters == {Filter(Absent, from, to, Absent, Absent) : from \in Ends, to \in Ends}

FieldFilters ==
  {Filter(hash, Earliest, Absent, address, topics) :
     hash \in {Absent, 0, 2},
     address \in {Absent, {token}, {token, swap}, Malformed},
     topics \in {Absent, Null, Malformed, <<Wildcard, {paid}>>, <<{sent, paid}>>, <<Wildcard>>, <<{}>>}}

Logs(f) == [method |-> "eth_getLogs", filter |-> f]
FeeHistory(count) == [method |-> "eth_feeHistory", count |-> count]
Block == [method |-> "eth_blockNumber"]
Garbled == [method |-> "malformed"]

Few == {Block, Garbled, FeeHistory(2), Logs(Filter(Absent, 1, Latest, Absent, Absent))}

\* Both schemes have one-byte public keys here and accept these triples: a
\* signature of two bytes, which no Dilithium3 signature may have, among them.
MCGenuine ==
  [to \in {Falcon512, Dilithium3} |->
     {<<<<1>>, <<>>, <<1, 0>>>>, <<<<1>>, <<0>>, <<1>>>>, <<<<0>>, <<>>, <<1>>>>,
      <<<<>>, <<0>>, <<1>>>>}
       \cup IF to = Falcon512 THEN {<<<<1>>, <<1>>, <<0>>>>} ELSE {}]

MCVerifyGas == [to \in {Falcon512, Dilithium3} |-> IF to = Falcon512 THEN 3 ELSE 5]
MCPublicKeyLen == [to \in {Falcon512, Dilithium3} |-> 1]

\* Every string of up to seven bits that starts with 0, and key lengths whose
\* high byte is not 0.
Inputs ==
  {<<>>, <<1, 0, 1, 0, 0, 1>>, <<1, 1, 1, 0, 0, 1, 0>>}
    \cup UNION {{<<0>> \o s : s \in [1 .. n -> {0, 1}]} : n \in 0 .. 6}

Call(to, input, gas) == [method |-> "eth_call", to |-> to, input |-> input, gas |-> gas]

Calls ==
  {Call(to, input, 5) : to \in {Falcon512, Dilithium3}, input \in Inputs}
    \cup {Call(to, <<0, 1, 1, 0, 1, 0, 1>>, gas) :
            to \in {Falcon512, Dilithium3, token}, gas \in {2, 3, 4}}

AllBatches ==
  {<<Logs(f)>> : f \in RangeFilters \cup FieldFilters}
    \cup {<<call>> : call \in Calls}
    \cup {<<FeeHistory(count)>> : count \in {1, 4}}
    \cup {<<a, b>> : a \in Few, b \in Few}
    \cup {<<Logs(Filter(2, Absent, Absent, Absent, Absent)), Block>>, <<>>}

\* The same as one enumerated set, in which TLC searches fast.
MCBatches == {b \in AllBatches : TRUE}
=============================================================================
