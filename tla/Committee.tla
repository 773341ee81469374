----------------------------- MODULE Committee -----------------------------
(***************************************************************************)
(* Committee files (crates/consensus/src/committee.rs): keygen writes one  *)
(* secret per validator and, last, the shared committee file; a validator  *)
(* finds its seat by the public key of its secret.  Keygen may be run      *)
(* again over a directory, and stopped between or within two writes.       *)
(***************************************************************************)
EXTENDS Naturals, Sequences, FiniteSets, SequencesExt

CONSTANTS
  NodeCounts,  \* --node-count
  BasePorts,   \* --base-dag-port, a u16
  MaxRuns,     \* bound: keygen runs over the directory
  NoFile,      \* a file that is missing
  Torn         \* a file whose write was cut short: it does not parse

U16Max == 65535

\* --node-count is a usize: there is a largest one.
ASSUME CommitteeAssumption ==
  /\ NodeCounts \subseteq Nat /\ BasePorts \subseteq 0 .. U16Max /\ MaxRuns \in Nat
  /\ \E n \in NodeCounts : \A k \in NodeCounts : k <= n

Numbers == 1 .. (CHOOSE n \in NodeCounts : \A k \in NodeCounts : k <= n)

\* A key is drawn at random: it is named by the run and the validator it was
\* drawn for, and no two draws agree.
Keys == (1 .. MaxRuns) \X Numbers
Entry == [id : Numbers, port : Nat, key : Keys]

\* No file that parses is missing or torn.
ASSUME FileAssumption == {NoFile, Torn} \cap (Keys \cup Seq(Entry)) = {}

VARIABLES
  secret,     \* validator-{i}.key
  committee,  \* dag-committee.json
  runs,       \* keygen runs so far
  gen,        \* the run in progress: [count, base, authorities], or NoFile
  intact      \* the last keygen that began writing came to its end

files == <<secret, committee, runs, gen, intact>>

\* Types of the directory and of the run in progress.
FilesTypeOK ==
  /\ secret \in [Numbers -> Keys \cup {NoFile, Torn}]
  /\ committee \in Seq(Entry) \cup {NoFile, Torn}
  /\ runs \in 0 .. MaxRuns /\ intact \in BOOLEAN
  /\ gen = NoFile \/ gen \in [count : NodeCounts, base : BasePorts,
                               authorities : Seq(Entry)]

-----------------------------------------------------------------------------
\* Mutant of PortsFit: the listen ports are checked, not the source ports.
ListenPortsFit(count, base) == base + (count - 1) * 10 <= U16Max

\* Mysticeti dials from source port listen * 10.  The cast of the count to u32
\* loses nothing: counts are below 2^32.
PortsFit(count, base) == (base + (count - 1) * 10) * 10 <= U16Max

\* The listen port of validator i.
PortOf(base, i) == base + (i - 1) * 10

\* A keygen that is refused changes nothing.
Keygen ==
  /\ gen = NoFile /\ runs < MaxRuns
  /\ \E count \in NodeCounts, base \in BasePorts :
       /\ count >= 4 /\ PortsFit(count, base)
       /\ gen' = [count |-> count, base |-> base, authorities |-> <<>>]
  /\ runs' = runs + 1 /\ intact' = FALSE
  /\ UNCHANGED <<secret, committee>>

\* Mutant of WriteSecret: a secret that is there is kept.
WriteSecretKeepsOld ==
  /\ gen # NoFile /\ Len(gen.authorities) < gen.count
  /\ LET i == Len(gen.authorities) + 1 IN
     /\ secret' = [secret EXCEPT ![i] = IF @ = NoFile THEN <<runs, i>> ELSE @]
     /\ gen' = [gen EXCEPT !.authorities =
                  Append(@, [id |-> i, port |-> PortOf(gen.base, i), key |-> <<runs, i>>])]
  /\ UNCHANGED <<committee, runs, intact>>

\* The next secret is drawn, written and read back.
WriteSecret ==
  /\ gen # NoFile /\ Len(gen.authorities) < gen.count
  /\ LET i == Len(gen.authorities) + 1 IN
     /\ secret' = [secret EXCEPT ![i] = <<runs, i>>]
     /\ gen' = [gen EXCEPT !.authorities =
                  Append(@, [id |-> i, port |-> PortOf(gen.base, i), key |-> <<runs, i>>])]
  /\ UNCHANGED <<committee, runs, intact>>

WriteCommittee ==
  /\ gen # NoFile /\ Len(gen.authorities) = gen.count
  /\ committee' = gen.authorities /\ gen' = NoFile /\ intact' = TRUE
  /\ UNCHANGED <<secret, runs>>

\* Keygen is stopped between two files, or within the next one.
Interrupt ==
  /\ gen # NoFile /\ gen' = NoFile
  /\ \/ UNCHANGED <<secret, committee>>
     \/ /\ Len(gen.authorities) < gen.count
        /\ secret' = [secret EXCEPT ![Len(gen.authorities) + 1] = Torn]
        /\ UNCHANGED committee
     \/ /\ Len(gen.authorities) = gen.count
        /\ committee' = Torn /\ UNCHANGED secret
  /\ UNCHANGED <<runs, intact>>

KeygenInit ==
  /\ secret = [i \in Numbers |-> NoFile] /\ committee = NoFile
  /\ runs = 0 /\ gen = NoFile /\ intact = FALSE

KeygenNext == Keygen \/ WriteSecret \/ WriteCommittee \/ Interrupt

KeygenSpec == KeygenInit /\ [][KeygenNext]_files

-----------------------------------------------------------------------------
\* Mutant of SeatOf: the seat is taken from the name of the key file.
SeatByFileName(n) == n

\* The first entry with the public key of secret n; 0 stands for none.
SeatOf(n) == SelectInSeq(committee, LAMBDA entry : entry.key = secret[n])

\* A committee of fewer than four has no quorum.
to_mysticeti == Len(committee) >= 4

\* load_validator on key file n: it refuses files that do not read or parse,
\* a key without a seat and a committee without a quorum.
Loads(n) ==
  /\ committee \notin {NoFile, Torn} /\ secret[n] \notin {NoFile, Torn}
  /\ SeatOf(n) # 0 /\ to_mysticeti

-----------------------------------------------------------------------------
\* A validator that loads holds the key its peers know that seat by, and no
\* two of them take one seat, also in a directory that mixes the files of
\* several keygen runs, interrupted ones included.
SeatsAreOwned ==
  \A n \in Numbers : Loads(n) =>
    /\ committee[SeatOf(n)].key = secret[n]
    /\ \A m \in Numbers : m # n /\ Loads(m) => SeatOf(m) # SeatOf(n)

\* After a keygen that came to its end every validator of the committee loads,
\* whatever earlier runs left behind.
WholeCommitteeLoads ==
  intact => \A n \in DOMAIN committee : Loads(n) /\ SeatOf(n) = n

\* In every committee file the listen ports differ, and the source port that
\* belongs to each is a u16.
MeshPortsUsable ==
  committee \notin {NoFile, Torn} =>
    \A m, n \in DOMAIN committee :
      /\ committee[n].port * 10 <= U16Max
      /\ m # n => committee[m].port # committee[n].port
=============================================================================
