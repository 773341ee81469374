---------------------------- MODULE Precompiles ----------------------------
(***************************************************************************)
(* The signature-verification precompiles                                  *)
(* (crates/move-execution/src/precompiles.rs): how their input is cut into *)
(* public key, message and signature, and what a call returns.  The        *)
(* signature schemes are external: Genuine is what they accept.            *)
(***************************************************************************)
EXTENDS Naturals, Sequences

CONSTANTS
  Falcon512, Dilithium3,   \* the two addresses
  VerifyGas,               \* flat gas cost, by address
  PublicKeyLen,            \* expected length of a public key, by address
  SignatureLen,            \* expected length of a Dilithium3 signature
  Genuine,                 \* <<public key, message, signature>> that verify, by address
  Nothing                  \* None

Byte == 0 .. 255
Bytes == Seq(Byte)

ASSUME PrecompilesAssumption ==
  /\ SignatureLen \in Nat
  /\ PublicKeyLen \in [{Falcon512, Dilithium3} -> Nat]
  /\ VerifyGas \in [{Falcon512, Dilithium3} -> Nat]
  /\ Genuine \in [{Falcon512, Dilithium3} -> SUBSET (Bytes \X Bytes \X Bytes)]
  /\ Nothing \notin [len: Nat, rest: Bytes] \cup (Bytes \X Bytes \X Bytes)

\* Mutant of split_u16_prefix: the two bytes in little-endian order.
SplitLittleEndian(input) ==
  IF Len(input) < 2 THEN Nothing
  ELSE [len |-> input[1] + 256 * input[2], rest |-> SubSeq(input, 3, Len(input))]

split_u16_prefix(input) ==
  IF Len(input) < 2 THEN Nothing
  ELSE [len |-> 256 * input[1] + input[2], rest |-> SubSeq(input, 3, Len(input))]

\* The prefix that follows the public key, if there are so many bytes.
MessagePrefix(key) ==
  IF key = Nothing \/ key.len > Len(key.rest) THEN Nothing
  ELSE split_u16_prefix(SubSeq(key.rest, key.len + 1, Len(key.rest)))

\* Falcon signatures have no fixed length, but are not empty.
SignatureFits(to, length) ==
  length > 0 /\ (to = Dilithium3 => length = SignatureLen)

parse_verify_input(to, input) ==
  LET key == split_u16_prefix(input)
      msg == MessagePrefix(key)
  IN  IF msg = Nothing \/ key.len # PublicKeyLen[to] \/ msg.len > Len(msg.rest)
           \/ ~SignatureFits(to, Len(msg.rest) - msg.len)
      THEN Nothing
      ELSE <<SubSeq(key.rest, 1, key.len), SubSeq(msg.rest, 1, msg.len),
             SubSeq(msg.rest, msg.len + 1, Len(msg.rest))>>

\* The output of a call: nothing when the gas does not suffice or the address
\* has neither code nor a precompile, else a word that is 0 or 1.
run_pqc_verify(to, input, gas) ==
  IF to \notin {Falcon512, Dilithium3} \/ VerifyGas[to] > gas THEN <<>>
  ELSE IF parse_verify_input(to, input) \in Genuine[to] THEN <<1>> ELSE <<0>>
=============================================================================
