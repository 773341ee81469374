------------------------------ MODULE Queries ------------------------------
(***************************************************************************)
(* The JSON-RPC server's queries (crates/server_rpc/src/rpc.rs):           *)
(* eth_blockNumber, eth_getLogs and eth_feeHistory over the sealed chain,  *)
(* and eth_call to a precompile, alone or in a batch.  A batch takes the   *)
(* node lock once per item, so blocks are sealed between its items.        *)
(***************************************************************************)
EXTENDS Precompiles, SequencesExt

CONSTANTS
  Address,     \* accounts
  Topic,       \* log topics
  Batches,     \* the request bodies: sequences of items
  BlockLogs,   \* the log sequences a block's receipt may hold
  Fees,        \* base fees
  MaxBlocks,   \* bound: sealed blocks
  Absent,      \* a field that is missing or, but for topics, null
  Null,        \* topics: null
  Malformed,   \* a field or an item that does not parse
  Latest, Pending, Earliest,
  Wildcard,    \* a wildcard in topics
  Error        \* an error response

\* The fields of a log filter, as far as they parse.
FilterEnd == Nat \cup {Absent, Latest, Pending, Earliest, Malformed}
FilterType ==
  [hash: Nat \cup {Absent}, from: FilterEnd, to: FilterEnd,
   address: {Absent, Malformed} \cup SUBSET Address,
   topics: {Absent, Null, Malformed} \cup Seq({Wildcard} \cup SUBSET Topic)]

\* The count of a fee history is clamped to 1..32.
ItemType ==
  [method: {"eth_blockNumber", "malformed"}]
    \cup [method: {"eth_getLogs"}, filter: FilterType]
    \cup [method: {"eth_feeHistory"}, count: 1 .. 32]
    \cup [method: {"eth_call"}, to: Address \cup {Falcon512, Dilithium3}, input: Bytes,
          gas: Nat]

LogType == [address: Address, topics: Seq(Topic)]

ASSUME QueriesAssumption ==
  /\ MaxBlocks \in Nat
  /\ Batches \subseteq Seq(ItemType) /\ BlockLogs \subseteq Seq(LogType)
  /\ Absent \notin Nat \cup ItemType /\ Earliest \notin {Absent, Latest, Pending}

VARIABLES
  chain,    \* sealed blocks: [fee, logs], the number is the index
  pending,  \* pending_base_fee()
  todo,     \* items of the current batch not yet dispatched
  out       \* its answers: [item, at, answer]; `at` is the head they saw

vars == <<chain, pending, todo, out>>

TheLower(a, b) == IF a < b THEN a ELSE b
TheHigher(a, b) == IF a > b THEN a ELSE b

\* Types of the server's state; a batch has one answer per dispatched item.
TypeOK ==
  /\ chain \in Seq([fee : Fees, logs : BlockLogs]) /\ Len(chain) <= MaxBlocks
  /\ pending \in Fees
  /\ \/ todo = <<>> /\ out = <<>>
     \/ todo = <<>> /\ out = <<[item |-> Absent, at |-> 0, answer |-> Error]>>
     \/ [n \in DOMAIN out |-> out[n].item] \o todo \in Batches

-----------------------------------------------------------------------------
\* Mutant of block_number: the index of the last block, counted from zero.
IndexOfLast == IF chain = <<>> THEN 0 ELSE Len(chain) - 1

block_number == Len(chain)

\* One end of a block range.
bound(v) ==
  CASE v = Absent -> block_number
    [] v \in {Latest, Pending} -> block_number
    [] v = Earliest -> 0
    [] OTHER -> v

\* Mutant of log_block_range: the upper end is always the head.
RangeToHead(f) ==
  IF f.hash # Absent
  THEN IF f.hash \in DOMAIN chain THEN <<f.hash, f.hash>> ELSE Error
  ELSE IF Malformed \in {f.from, f.to} THEN Error
  ELSE <<TheLower(bound(f.from), bound(f.to)), block_number>>

\* A block hash is named by the number of its block; the synthetic genesis
\* block has number 0 and is no sealed block.
log_block_range(f) ==
  IF f.hash # Absent
  THEN IF f.hash \in DOMAIN chain THEN <<f.hash, f.hash>> ELSE Error
  ELSE IF Malformed \in {f.from, f.to} THEN Error
  ELSE <<TheLower(bound(f.from), bound(f.to)),
         TheLower(TheHigher(bound(f.to), bound(f.from)), block_number)>>

\* Absent addresses match every log.
address_matches(f, log) == f.address = Absent \/ log.address \in f.address

topics_match(f, log) ==
  \A i \in DOMAIN f.topics :
     f.topics[i] = Wildcard \/ (i \in DOMAIN log.topics /\ log.topics[i] \in f.topics[i])

\* The logs of the sealed blocks from..to with their positions, in chain order.
logs_in_range(from, to) ==
  FlattenSeq([k \in 1 .. (IF from > to THEN 0 ELSE to - from + 1) |->
    LET n == from + k - 1 IN
    IF n \in DOMAIN chain
    THEN [i \in DOMAIN chain[n].logs |->
            [block |-> n, index |-> i, log |-> chain[n].logs[i]]]
    ELSE <<>>])

Wanted(f, l) ==
  address_matches(f, l.log) /\ (f.topics = Absent \/ topics_match(f, l.log))

filtered(f, logs) ==
  FlattenSeq([k \in DOMAIN logs |-> IF Wanted(f, logs[k]) THEN <<logs[k]>> ELSE <<>>])

eth_getLogs(f) ==
  IF \/ log_block_range(f) = Error
     \/ f.address = Malformed
     \/ f.topics \in {Null, Malformed}
  THEN Error
  ELSE LET range == log_block_range(f)
       IN  filtered(f, logs_in_range(range[1], range[2]))

-----------------------------------------------------------------------------
\* Mutant of NextFee: the fee of the head instead of the next block's.
HeadFee == IF chain = <<>> THEN pending ELSE chain[Len(chain)].fee

\* The last entry of a fee history.
NextFee == pending

\* The gas ratios are left out; there is one per block, as for the fees.  The
\* synthetic genesis block is listed with the pending fee.
eth_feeHistory(count) ==
  LET oldest == IF block_number < count - 1 THEN 0 ELSE block_number - (count - 1)
      blocks == block_number - oldest + 1
      FeeOf(n) == IF n \in DOMAIN chain THEN chain[n].fee ELSE pending
  IN  [oldest |-> oldest,
       baseFeePerGas |-> Append([k \in 1 .. blocks |-> FeeOf(oldest + k - 1)], NextFee),
       gasUsedRatio |-> blocks,
       reward |-> count]

\* One request under the node lock.
dispatch(item) ==
  CASE item.method = "eth_blockNumber" -> block_number
    [] item.method = "eth_getLogs" -> eth_getLogs(item.filter)
    [] item.method = "eth_feeHistory" -> eth_feeHistory(item.count)
    [] item.method = "eth_call" -> run_pqc_verify(item.to, item.input, item.gas)
    [] OTHER -> Error

-----------------------------------------------------------------------------
\* A request body arrives: an empty batch is answered with one error.
Receive ==
  /\ todo = <<>> /\ out = <<>>
  /\ \E b \in Batches :
       /\ todo' = b
       /\ out' = IF b = <<>> THEN <<[item |-> Absent, at |-> 0, answer |-> Error]>>
                 ELSE <<>>
  /\ UNCHANGED <<chain, pending>>

\* The next item of the batch; one that does not parse gets an error and the
\* batch goes on.
Item ==
  /\ todo # <<>>
  /\ out' = Append(out, [item |-> Head(todo), at |-> Len(chain),
                         answer |-> dispatch(Head(todo))])
  /\ todo' = Tail(todo)
  /\ UNCHANGED <<chain, pending>>

\* The answers go out as one response.
Respond ==
  /\ todo = <<>> /\ out # <<>>
  /\ out' = <<>>
  /\ UNCHANGED <<chain, pending, todo>>

\* Another request seals a block at the pending fee.
Seal ==
  /\ Len(chain) < MaxBlocks
  /\ \E logs \in BlockLogs : chain' = Append(chain, [fee |-> pending, logs |-> logs])
  /\ pending' \in Fees
  /\ UNCHANGED <<todo, out>>

Init == chain = <<>> /\ pending \in Fees /\ todo = <<>> /\ out = <<>>

Next == Receive \/ Item \/ Respond \/ Seal

Spec == Init /\ [][Next]_vars

-----------------------------------------------------------------------------
Answers(method) == {n \in DOMAIN out : out[n].item # Absent /\ out[n].item.method = method}

\* The end of a range as the filter's author means it, at head `at`.
End(v, at) == IF v \in {Absent, Latest, Pending} THEN at
              ELSE IF v = Earliest THEN 0 ELSE v

InRange(f, at, n) ==
  IF f.hash # Absent THEN n = f.hash
  ELSE End(f.from, at) <= n /\ n <= End(f.to, at)

\* A log that matches the filter, by the meaning of its fields.
Meant(f, log) ==
  /\ f.address # Absent => log.address \in f.address
  /\ f.topics # Absent =>
       \A k \in DOMAIN f.topics :
          f.topics[k] # Wildcard =>
            \E t \in f.topics[k] : Len(log.topics) >= k /\ log.topics[k] = t

\* The positions a filter selects, by the meaning of its fields.
Selected(f, at) ==
  UNION {{<<n, i>> : i \in {i \in DOMAIN chain[n].logs : Meant(f, chain[n].logs[i])}} :
           n \in {n \in 1 .. at : InRange(f, at, n)}}

Ordered(f, at) == f.hash # Absent \/ End(f.from, at) <= End(f.to, at)

\* eth_getLogs on a range that is not reversed returns exactly the logs its
\* filter selects, each once and in chain order, and the answer stays right
\* when blocks are sealed afterwards.
GetLogsExact ==
  \A n \in Answers("eth_getLogs") :
    LET f == out[n].item.filter
        answer == out[n].answer
    IN  answer # Error /\ Ordered(f, out[n].at) =>
          /\ {<<answer[k].block, answer[k].index>> : k \in DOMAIN answer}
               = Selected(f, out[n].at)
          /\ \A j, k \in DOMAIN answer :
               j < k => \/ answer[j].block < answer[k].block
                        \/ /\ answer[j].block = answer[k].block
                           /\ answer[j].index < answer[k].index

\* A head asked for after logs in one batch covers the blocks of those logs,
\* although the lock is released in between.
HeadCoversLogs ==
  \A n \in Answers("eth_getLogs"), m \in Answers("eth_blockNumber") :
    n < m /\ out[n].answer # Error =>
      \A k \in DOMAIN out[n].answer : out[n].answer[k].block <= out[m].answer

\* The last fee of a fee history is the fee the next block is sealed under,
\* whenever that is.
FeePromiseKept ==
  \A n \in Answers("eth_feeHistory") :
    out[n].at + 1 \in DOMAIN chain =>
      Last(out[n].answer.baseFeePerGas) = chain[out[n].at + 1].fee

Prefixed(bytes) == <<Len(bytes) \div 256, Len(bytes) % 256>> \o bytes

\* The precompiles fail closed: whatever bytes they are called with, the answer
\* is 1 exactly when the bytes are the encoding of a public key and a signature
\* of the right lengths that verify, and 0 for everything else (truncated,
\* overlong, with lengths that point past the end); short of gas there is none.
VerifiesExactly ==
  \A n \in Answers("eth_call") :
    LET call == out[n].item IN
    call.to \in {Falcon512, Dilithium3} =>
      out[n].answer =
        IF call.gas < VerifyGas[call.to] THEN <<>>
        ELSE IF \E g \in Genuine[call.to] :
                  /\ call.input = Prefixed(g[1]) \o Prefixed(g[2]) \o g[3]
                  /\ Len(g[1]) = PublicKeyLen[call.to] /\ g[3] # <<>>
                  /\ call.to = Dilithium3 => Len(g[3]) = SignatureLen
        THEN <<1>> ELSE <<0>>

-----------------------------------------------------------------------------
\* ARCHITECTURE.md: eth_getLogs does "real address/topic/block-range
\* filtering", so no log is from before fromBlock.
RangeIsRespected ==
  \A n \in Answers("eth_getLogs") :
    LET f == out[n].item.filter IN
    out[n].answer # Error /\ f.hash = Absent =>
      \A k \in DOMAIN out[n].answer :
        out[n].answer[k].block >= End(f.from, out[n].at)
=============================================================================
