-------------------------- MODULE ComponentProofs --------------------------
(***************************************************************************)
(* The components that stand by themselves, each with a specification of   *)
(* its own: the committee files (module Committee), the registry of the    *)
(* database handles (DbRegistry) and the fee market (FeeMarket).           *)
(***************************************************************************)
EXTENDS Committee, DbRegistry, FeeMarket, Integers, TLAPS, SequenceTheorems

(***************************************************************************)
(* The committee files of any number of keygen runs, interrupted or not,   *)
(* for every set of node counts and base ports.  The inductive invariant:  *)
(* a committee file is the work of one run; each secret is one that some   *)
(* run drew for that file, or torn.                                        *)
(***************************************************************************)

Readable == committee \notin {NoFile, Torn}

\* What run r writes for validator i.
EntryOf(r, base, i) == [id |-> i, port |-> PortOf(base, i), key |-> <<r, i>>]

\* The entries of run r, the first n of a committee of count.
Drawn(entries, r, count, base) ==
  /\ count \in NodeCounts /\ count >= 4 /\ base \in BasePorts /\ PortsFit(count, base)
  /\ entries \in Seq(Entry) /\ Len(entries) <= count
  /\ \A i \in 1 .. Len(entries) : entries[i] = EntryOf(r, base, i)

\* The secrets belong to the entries.
Held(entries) == \A i \in 1 .. Len(entries) : secret[i] = entries[i].key

SecretsOK ==
  secret \in [Numbers -> Keys \cup {NoFile, Torn}]
    /\ \A n \in Numbers : secret[n] \in Keys => secret[n][2] = n

FileOK ==
  Readable => \E r \in 1 .. MaxRuns, base \in BasePorts :
                /\ Drawn(committee, r, Len(committee), base)

GenOK ==
  gen # NoFile =>
    /\ gen = [count |-> gen.count, base |-> gen.base, authorities |-> gen.authorities]
    /\ Drawn(gen.authorities, runs, gen.count, gen.base) /\ Held(gen.authorities)
    /\ runs \in 1 .. MaxRuns /\ ~intact

CInv ==
  /\ SecretsOK /\ FileOK /\ GenOK /\ runs \in 0 .. MaxRuns
  /\ intact => Readable /\ Held(committee)

-----------------------------------------------------------------------------
(* Entries and seats. *)

\* A validator of a committee has a key file.
LEMMA NumberedBelow == \A count \in NodeCounts : \A i \in 1 .. count : i \in Numbers
<1> DEFINE M == CHOOSE n \in NodeCounts : \A k \in NodeCounts : k <= n
<1>1. M \in NodeCounts /\ \A k \in NodeCounts : k <= M
  BY Zenon, CommitteeAssumption
<1> HIDE DEF M
<1>2. \A count \in NodeCounts : \A i \in 1 .. count : i \in 1 .. M
  BY <1>1, CommitteeAssumption
<1> QED
  BY Zenon, <1>2 DEF Numbers, M

\* What a run writes is well typed.
LEMMA EntryType ==
  ASSUME NEW r \in 1 .. MaxRuns, NEW count \in NodeCounts, NEW base \in BasePorts,
         NEW i \in 1 .. count
  PROVE  EntryOf(r, base, i) \in Entry /\ i \in Numbers /\ <<r, i>> \in Keys
<1>1. i \in Numbers
  BY Zenon, NumberedBelow
<1>2. <<r, i>> \in Keys
  BY Zenon, <1>1 DEF Keys
<1>3. PortOf(base, i) \in Nat
  BY CommitteeAssumption DEF PortOf
<1> QED
  BY Zenon, <1>1, <1>2, <1>3 DEF EntryOf, Entry

\* A committee file holds each key once, at the number it was drawn for.
LEMMA FileEntries ==
  ASSUME CInv, Readable
  PROVE  /\ committee \in Seq(Entry) /\ Len(committee) \in Nat /\ Len(committee) >= 4
         /\ \E r \in 1 .. MaxRuns, base \in BasePorts :
              /\ PortsFit(Len(committee), base)
              /\ \A i \in 1 .. Len(committee) :
                   /\ committee[i].key = <<r, i>> /\ committee[i].port = PortOf(base, i)
                   /\ i \in Numbers
<1>1. PICK r \in 1 .. MaxRuns, base \in BasePorts :
        Drawn(committee, r, Len(committee), base)
  BY Zenon DEF CInv, FileOK
<1>2. /\ committee \in Seq(Entry) /\ Len(committee) >= 4 /\ Len(committee) \in NodeCounts
      /\ PortsFit(Len(committee), base)
      /\ \A i \in 1 .. Len(committee) : committee[i] = EntryOf(r, base, i)
  BY Zenon, <1>1 DEF Drawn
<1>3. \A i \in 1 .. Len(committee) :
        /\ committee[i].key = <<r, i>> /\ committee[i].port = PortOf(base, i)
        /\ i \in Numbers
  <2> TAKE i \in 1 .. Len(committee)
  <2>1. committee[i] = [id |-> i, port |-> PortOf(base, i), key |-> <<r, i>>]
    BY Zenon, <1>2 DEF EntryOf
  <2>2. i \in Numbers
    BY Zenon, <1>2, NumberedBelow
  <2> QED
    BY <2>1, <2>2
<1> QED
  BY Zenon, <1>2, <1>3, CommitteeAssumption

\* The seat of a key file is the one entry with its key, if there is one.
LEMMA SeatIs ==
  ASSUME CInv, Readable, NEW n \in Numbers
  PROVE  /\ SeatOf(n) # 0 => /\ SeatOf(n) \in 1 .. Len(committee)
                             /\ committee[SeatOf(n)].key = secret[n]
         /\ \A i \in 1 .. Len(committee) : committee[i].key = secret[n] => SeatOf(n) = i
<1> DEFINE I == {i \in 1 .. Len(committee) : committee[i].key = secret[n]}
<1>1. SeatOf(n) = IF I # {} THEN Min(I) ELSE 0
  BY Zenon DEF SeatOf, SelectInSeq
<1>2. Len(committee) \in Nat
  BY Zenon, FileEntries
<1>3. \A i, j \in I : i = j
  <2>1. PICK r \in 1 .. MaxRuns : \A i \in 1 .. Len(committee) : committee[i].key = <<r, i>>
    BY Zenon, FileEntries
  <2>2. \A i, j \in I : <<r, i>> = <<r, j>>
    BY Zenon, <2>1
  <2> QED
    BY <2>2
<1>4. ASSUME NEW i \in I PROVE SeatOf(n) = i
  <2>1. i <= i
    BY <1>2
  <2>2. \E x \in I : \A y \in I : x =< y
    BY Zenon, <1>3, <2>1
  <2>3. Min(I) \in I
    BY Zenon, <2>2 DEF Min
  <2> QED
    BY Zenon, <1>1, <1>3, <2>3
<1> HIDE DEF I
<1>5. SeatOf(n) # 0 => \E i \in I : TRUE
  BY Zenon, <1>1
<1> QED
  BY Zenon, <1>4, <1>5 DEF I

-----------------------------------------------------------------------------
(* Every step keeps the invariant. *)

\* An empty directory satisfies it.
LEMMA InitCInv == KeygenInit => CInv
<1> SUFFICES ASSUME KeygenInit PROVE CInv
  OBVIOUS
<1>1. SecretsOK
  BY Zenon, FileAssumption DEF KeygenInit, SecretsOK
<1>2. ~Readable /\ gen = NoFile /\ ~intact /\ runs \in 0 .. MaxRuns
  BY CommitteeAssumption DEF KeygenInit, Readable
<1> QED
  BY Zenon, <1>1, <1>2 DEF CInv, FileOK, GenOK

\* Keygen begins with no entry, and has touched no file.
LEMMA KeygenCInv == ASSUME CInv, Keygen PROVE CInv'
<1>1. /\ UNCHANGED <<secret, committee>> /\ runs' = runs + 1 /\ intact' = FALSE
      /\ runs < MaxRuns /\ runs \in 0 .. MaxRuns
  BY Zenon DEF Keygen, CInv
<1>2. runs' \in 0 .. MaxRuns /\ runs' \in 1 .. MaxRuns
  BY <1>1, CommitteeAssumption
<1>3. PICK count \in NodeCounts, base \in BasePorts :
        /\ count >= 4 /\ PortsFit(count, base)
        /\ gen' = [count |-> count, base |-> base, authorities |-> <<>>]
  BY Zenon DEF Keygen
<1>4. /\ gen'.count = count /\ gen'.base = base /\ gen'.authorities = <<>>
  BY <1>3
<1>5. <<>> \in Seq(Entry) /\ Len(<<>>) = 0 /\ 1 .. Len(<<>>) = {} /\ 0 <= count
  BY CommitteeAssumption
<1>6. Drawn(<<>>, runs', count, base) /\ Held(<<>>)'
  BY Zenon, <1>3, <1>5 DEF Drawn, Held
<1>7. GenOK'
  BY Zenon, <1>1, <1>2, <1>3, <1>4, <1>6 DEF GenOK, Held
<1>8. SecretsOK' /\ FileOK'
  BY Zenon, <1>1 DEF CInv, SecretsOK, FileOK, Readable
<1> QED
  BY Zenon, <1>1, <1>2, <1>7, <1>8 DEF CInv

\* The next secret and its entry belong together.
LEMMA WriteSecretCInv == ASSUME CInv, WriteSecret PROVE CInv'
<1> DEFINE entries == gen.authorities
           i == Len(entries) + 1
           e == EntryOf(runs, gen.base, i)
<1>1. /\ gen # NoFile /\ Len(entries) < gen.count
      /\ secret' = [secret EXCEPT ![i] = <<runs, i>>]
      /\ gen' = [gen EXCEPT !.authorities = Append(@, e)]
      /\ UNCHANGED <<committee, runs, intact>>
  BY Zenon DEF WriteSecret, EntryOf
<1>2. /\ gen = [count |-> gen.count, base |-> gen.base, authorities |-> entries]
      /\ Drawn(entries, runs, gen.count, gen.base) /\ Held(entries)
      /\ runs \in 1 .. MaxRuns /\ ~intact
  BY Zenon, <1>1 DEF CInv, GenOK
<1>3. /\ gen.count \in NodeCounts /\ gen.count >= 4 /\ gen.base \in BasePorts
      /\ PortsFit(gen.count, gen.base) /\ entries \in Seq(Entry) /\ Len(entries) <= gen.count
      /\ \A j \in 1 .. Len(entries) : entries[j] = EntryOf(runs, gen.base, j)
  BY Zenon, <1>2 DEF Drawn
<1>4. /\ Len(entries) \in Nat /\ gen.count \in Nat /\ i \in Nat /\ i \in 1 .. gen.count /\ i <= gen.count
      /\ \A j \in 1 .. i : j # i => j \in 1 .. Len(entries)
  <2>1. Len(entries) \in Nat /\ gen.count \in Nat
    BY Zenon, <1>3, LenProperties, CommitteeAssumption
  <2> HIDE DEF entries
  <2> QED
    BY <1>1, <2>1
<1>5. e \in Entry /\ i \in Numbers /\ <<runs, i>> \in Keys
  BY Zenon, <1>2, <1>3, <1>4, EntryType
<1> DEFINE more == Append(entries, e)
<1>6. /\ gen'.authorities = more /\ gen'.count = gen.count /\ gen'.base = gen.base
      /\ gen' = [count |-> gen.count, base |-> gen.base, authorities |-> more]
  <2> HIDE DEF entries, e
  <2>1. gen' = [[count |-> gen.count, base |-> gen.base, authorities |-> entries]
                  EXCEPT !.authorities = Append(entries, e)]
    BY Zenon, <1>1, <1>2 DEF entries
  <2> QED
    BY Zenon, <2>1
<1> HIDE DEF entries
<1>7. /\ more \in Seq(Entry) /\ Len(more) = i /\ more[i] = e
      /\ \A j \in 1 .. Len(entries) : more[j] = entries[j]
  <2> HIDE DEF e
  <2> QED
    BY <1>3, <1>4, <1>5, AppendProperties
<1> HIDE DEF i, e, more
<1>8. \A j \in 1 .. i : more[j] = EntryOf(runs, gen.base, j)
  BY Zenon, <1>3, <1>4, <1>7 DEF e
<1>9. Drawn(more, runs, gen.count, gen.base)
  BY Zenon, <1>3, <1>4, <1>7, <1>8 DEF Drawn
<1>10. SecretsOK /\ secret \in [Numbers -> Keys \cup {NoFile, Torn}]
  BY Zenon DEF CInv, SecretsOK
<1>11. /\ secret'[i] = <<runs, i>> /\ \A n \in Numbers : n # i => secret'[n] = secret[n]
       /\ secret' \in [Numbers -> Keys \cup {NoFile, Torn}]
  BY Zenon, <1>1, <1>5, <1>10
<1>12. \A j \in 1 .. i : secret'[j] = more[j].key
  <2> TAKE j \in 1 .. i
  <2>1. CASE j = i
    <3>1. e.key = <<runs, i>>
      BY DEF e, EntryOf
    <3> QED
      BY Zenon, <1>7, <1>11, <2>1, <3>1
  <2>2. CASE j # i
    <3>1. j \in 1 .. Len(entries) /\ j \in 1 .. gen.count
      BY <1>4, <2>2
    <3>2. j \in Numbers
      BY Zenon, <1>3, <3>1, NumberedBelow
    <3> QED
      BY Zenon, <1>2, <1>7, <1>11, <2>2, <3>1, <3>2 DEF Held
  <2> QED
    BY Zenon, <2>1, <2>2
<1>13. GenOK'
  <2>1. Held(gen.authorities)'
    BY Zenon, <1>6, <1>7, <1>12 DEF Held
  <2>2. Drawn(gen.authorities, runs, gen.count, gen.base)'
    BY Zenon, <1>1, <1>6, <1>9 DEF Drawn
  <2>3. gen' = [count |-> gen'.count, base |-> gen'.base, authorities |-> gen'.authorities]
    BY Zenon, <1>6
  <2>4. runs' \in 1 .. MaxRuns /\ ~intact'
    BY Zenon, <1>1, <1>2
  <2> QED
    BY Zenon, <2>1, <2>2, <2>3, <2>4 DEF GenOK
<1>14. SecretsOK'
  <2>1. secret'[i][2] = i
    BY <1>11
  <2> QED
    BY Zenon, <1>10, <1>11, <2>1 DEF SecretsOK
<1>15. FileOK' /\ runs' \in 0 .. MaxRuns /\ ~intact'
  BY Zenon, <1>1, <1>2 DEF CInv, FileOK, Readable
<1> QED
  BY Zenon, <1>13, <1>14, <1>15 DEF CInv

\* The committee file is written last: its secrets are all there.
LEMMA WriteCommitteeCInv == ASSUME CInv, WriteCommittee PROVE CInv'
<1>1. /\ gen # NoFile /\ Len(gen.authorities) = gen.count
      /\ committee' = gen.authorities /\ gen' = NoFile /\ intact' = TRUE
      /\ UNCHANGED <<secret, runs>>
  BY Zenon DEF WriteCommittee
<1>2. /\ Drawn(gen.authorities, runs, gen.count, gen.base) /\ Held(gen.authorities)
      /\ runs \in 1 .. MaxRuns /\ gen.base \in BasePorts /\ gen.authorities \in Seq(Entry)
  BY Zenon, <1>1 DEF CInv, GenOK, Drawn
<1>3. Readable'
  BY Zenon, <1>1, <1>2, FileAssumption DEF Readable
<1>4. Held(committee)'
  BY Zenon, <1>1, <1>2 DEF Held
<1>5. FileOK'
  <2>1. \E r \in 1 .. MaxRuns, base \in BasePorts :
          Drawn(gen.authorities, r, gen.count, base)
    BY Zenon, <1>2
  <2> QED
    BY Zenon, <1>1, <2>1 DEF FileOK, Drawn
<1> QED
  BY Zenon, <1>1, <1>3, <1>4, <1>5 DEF CInv, SecretsOK, GenOK

\* A torn file loses a secret, or the committee; what was whole before the run
\* is no longer taken to be.
LEMMA InterruptCInv == ASSUME CInv, Interrupt PROVE CInv'
<1>1. /\ gen # NoFile /\ gen' = NoFile /\ UNCHANGED <<runs, intact>> /\ ~intact
      /\ Drawn(gen.authorities, runs, gen.count, gen.base)
  BY Zenon DEF Interrupt, CInv, GenOK
<1>2. GenOK' /\ runs' \in 0 .. MaxRuns /\ ~intact'
  BY Zenon, <1>1 DEF GenOK, CInv
<1>3. Torn \notin Keys
  BY Zenon, FileAssumption
<1>4. CASE UNCHANGED <<secret, committee>>
  BY Zenon, <1>2, <1>4 DEF CInv, SecretsOK, FileOK, Readable
<1>5. CASE /\ secret' = [secret EXCEPT ![Len(gen.authorities) + 1] = Torn]
           /\ UNCHANGED committee
  <2> DEFINE i == Len(gen.authorities) + 1
  <2>1. \A n \in Numbers : secret'[n] = IF n = i THEN Torn ELSE secret[n]
    BY Zenon, <1>5 DEF CInv, SecretsOK
  <2>2. secret' \in [Numbers -> Keys \cup {NoFile, Torn}]
    BY Zenon, <1>5 DEF CInv, SecretsOK
  <2> HIDE DEF i
  <2>3. SecretsOK'
    BY Zenon, <1>3, <2>1, <2>2 DEF CInv, SecretsOK
  <2> QED
    BY Zenon, <1>2, <1>5, <2>3 DEF CInv, FileOK, Readable
<1>6. CASE committee' = Torn /\ UNCHANGED secret
  BY Zenon, <1>2, <1>6 DEF CInv, SecretsOK, FileOK, Readable
<1> QED
  BY Zenon, <1>4, <1>5, <1>6 DEF Interrupt

\* Every step keeps the invariant.
LEMMA StepCInv == CInv /\ [KeygenNext]_files => CInv'
<1> SUFFICES ASSUME CInv, [KeygenNext]_files PROVE CInv'
  OBVIOUS
<1>1. CASE UNCHANGED files
  BY Zenon, <1>1
  DEF files, CInv, SecretsOK, FileOK, GenOK, Readable, Held
<1> QED
  BY Zenon, <1>1, KeygenCInv, WriteSecretCInv, WriteCommitteeCInv, InterruptCInv DEF KeygenNext

\* The invariant holds throughout.
LEMMA AlwaysCInv == KeygenSpec => []CInv
  BY InitCInv, StepCInv, PTL DEF KeygenSpec

-----------------------------------------------------------------------------
(* The theorems. *)

\* The keys of two files differ, so the seats found by them do.
LEMMA OwnSeats == CInv => SeatsAreOwned
<1> SUFFICES ASSUME CInv, NEW n \in Numbers, Loads(n)
             PROVE  /\ committee[SeatOf(n)].key = secret[n]
                    /\ \A m \in Numbers : m # n /\ Loads(m) => SeatOf(m) # SeatOf(n)
  BY Zenon DEF SeatsAreOwned
<1>1. Readable /\ SeatOf(n) # 0 /\ secret[n] \in Keys
  BY Zenon DEF Loads, Readable, CInv, SecretsOK
<1>2. committee[SeatOf(n)].key = secret[n]
  BY Zenon, <1>1, SeatIs
<1>3. ASSUME NEW m \in Numbers, m # n, Loads(m) PROVE SeatOf(m) # SeatOf(n)
  <2>1. SeatOf(m) # 0 /\ secret[m] \in Keys
    BY Zenon, <1>3 DEF Loads, CInv, SecretsOK
  <2>2. committee[SeatOf(m)].key = secret[m]
    BY Zenon, <1>1, <2>1, SeatIs
  <2>3. secret[m] # secret[n]
    BY Zenon, <1>1, <1>3, <2>1 DEF CInv, SecretsOK
  <2> QED
    BY Zenon, <1>2, <2>2, <2>3
<1> QED
  BY Zenon, <1>2, <1>3

\* The secrets of a finished run are those of its committee, each at its number.
LEMMA FinishedLoads == CInv => WholeCommitteeLoads
<1> SUFFICES ASSUME CInv, intact, NEW n \in DOMAIN committee
             PROVE  Loads(n) /\ SeatOf(n) = n
  BY Zenon DEF WholeCommitteeLoads
<1>1. Readable /\ Held(committee)
  BY Zenon DEF CInv
<1>2. /\ committee \in Seq(Entry) /\ Len(committee) >= 4
      /\ \A i \in 1 .. Len(committee) : i \in Numbers
  BY Zenon, <1>1, FileEntries
<1>3. n \in 1 .. Len(committee)
  BY <1>2
<1>4. n \in Numbers /\ secret[n] = committee[n].key /\ n # 0
  <2>1. n # 0
    BY <1>2, <1>3
  <2> QED
    BY Zenon, <1>1, <1>2, <1>3, <2>1 DEF Held
<1>5. SeatOf(n) = n
  BY Zenon, <1>1, <1>3, <1>4, SeatIs
<1>6. secret[n] \notin {NoFile, Torn}
  <2>1. committee[n] \in Entry
    BY Zenon, <1>2, <1>3, ElementOfSeq
  <2>2. committee[n].key \in Keys
    BY <2>1 DEF Entry
  <2> QED
    BY Zenon, <1>4, <2>2, FileAssumption
<1> QED
  BY Zenon, <1>1, <1>2, <1>4, <1>5, <1>6 DEF Loads, Readable, to_mysticeti

\* Ports spaced by ten: they differ, and fit if the last one does.
LEMMA Spaced ==
  /\ \A b, len, max \in Nat : \A n \in 1 .. len :
       PortOf(b, len) * 10 <= max => PortOf(b, n) * 10 <= max
  /\ \A b, len \in Nat : \A m, n \in 1 .. len : m # n => PortOf(b, m) # PortOf(b, n)
  BY DEF PortOf

\* Ports grow with the number, and the last one fits.
LEMMA PortsUsable == CInv => MeshPortsUsable
<1> SUFFICES ASSUME CInv, Readable, NEW m \in DOMAIN committee, NEW n \in DOMAIN committee
             PROVE  /\ committee[n].port * 10 <= U16Max
                    /\ m # n => committee[m].port # committee[n].port
  BY Zenon DEF MeshPortsUsable, Readable
<1>1. committee \in Seq(Entry) /\ Len(committee) \in Nat
  BY Zenon, FileEntries
<1>2. PICK base \in BasePorts :
        /\ PortsFit(Len(committee), base)
        /\ \A i \in 1 .. Len(committee) : committee[i].port = PortOf(base, i)
  BY Zenon, FileEntries
<1>3. m \in 1 .. Len(committee) /\ n \in 1 .. Len(committee)
  BY <1>1
<1>4. committee[m].port = PortOf(base, m) /\ committee[n].port = PortOf(base, n)
  BY Zenon, <1>2, <1>3
<1>5. U16Max \in Nat /\ base \in Nat
  <2>1. U16Max \in Nat
    BY DEF U16Max
  <2>2. base \in 0 .. U16Max
    BY Zenon, CommitteeAssumption
  <2> QED
    BY <2>1, <2>2
<1>6. PortOf(base, Len(committee)) * 10 <= U16Max
  BY Zenon, <1>2 DEF PortsFit, PortOf
<1>7. PortOf(base, n) * 10 <= U16Max
  BY Zenon, <1>1, <1>3, <1>5, <1>6, Spaced
<1>8. m # n => PortOf(base, m) # PortOf(base, n)
  BY Zenon, <1>1, <1>3, <1>5, Spaced
<1> QED
  BY Zenon, <1>4, <1>7, <1>8

\* A validator that loads sits where its peers know it, and alone, whatever mix
\* of keygen runs wrote the files.
THEOREM LoadedValidatorsOwnTheirSeats == KeygenSpec => []SeatsAreOwned
  BY AlwaysCInv, OwnSeats, PTL

\* A keygen that came to its end leaves files from which every validator loads.
THEOREM FinishedKeygenLoads == KeygenSpec => []WholeCommitteeLoads
  BY AlwaysCInv, FinishedLoads, PTL

\* The mesh of every committee file can be dialled: distinct listen ports, whose
\* source ports are u16.
THEOREM CommitteePortsUsable == KeygenSpec => []MeshPortsUsable
  BY AlwaysCInv, PortsUsable, PTL

-----------------------------------------------------------------------------
(***************************************************************************)
(* The opener keeps its promises for any number of threads and paths,      *)
(* whatever relative names the paths have.                                 *)
(***************************************************************************)

USE RegistryAssumption DEF PathOf, Absolute

\* A thread has a handle from DB::open, or from the registry, until it drops it.
HandlesInv == \A t \in Threads : db[t] # 0 <=> pc[t] \in {"insert", "held"}

\* A database that a thread has holds the lock of its path, and no other lock.
LocksInv ==
  /\ \A t \in Threads : db[t] # 0 => locked[PathOf(t)] = db[t]
  /\ \A p, q \in Paths : locked[p] # 0 /\ locked[p] = locked[q] => p = q

\* What the registry can hand out holds the lock of its path.
EntriesInv == \A p \in Paths : Live(registry[p]) => locked[p] = registry[p]

\* Before a database is inserted, its opener alone knows it.
FreshInv ==
  \A t \in Threads : pc[t] = "insert" =>
    /\ \A p \in Paths : registry[p] # db[t]
    /\ \A u \in Threads : db[t] \notin seen[u] /\ (u # t => db[u] # db[t])

\* A caller that found nothing: of the databases that were in hand when it took
\* the mutex, those still in use were opened under other paths.
MissedInv ==
  \A t \in Threads : pc[t] = "opening" =>
    \A i \in seen[t] : Live(i) =>
      registry[PathOf(t)] # i /\ \A u \in Threads : db[u] = i => PathOf(u) # PathOf(t)

Inv ==
  /\ TypeOK /\ HandlesInv /\ LocksInv /\ LiveIsFindable
  /\ EntriesInv /\ FreshInv /\ MissedInv

\* At the start no path is known and none is locked.
LEMMA InitInv == Init => Inv
<1> SUFFICES ASSUME Init PROVE Inv
  OBVIOUS
<1>1. TypeOK
  <2>1. ASSUME NEW t \in Threads PROVE want[t] \in Paths
    BY RegistryAssumption DEF Init
  <2> QED BY <2>1 DEF Init, TypeOK
<1>2. HandlesInv /\ LocksInv /\ LiveIsFindable /\ EntriesInv
  BY DEF Init, HandlesInv, LocksInv, LiveIsFindable, EntriesInv, Live
<1>3. FreshInv /\ MissedInv
  BY DEF Init, FreshInv, MissedInv
<1> QED BY <1>1, <1>2, <1>3 DEF Inv

\* Taking the mutex drops dead entries only, and records what was in hand.
LEMMA EnterInv == ASSUME Inv, NEW t \in Threads, NEW r \in Paths, Enter(t, r) PROVE Inv'
<1>0. /\ r \in Paths /\ pc[t] = "idle" /\ db[t] = 0 /\ mutex = {}
      /\ db' = db /\ locked' = locked /\ opens' = opens
      /\ pc' = [pc EXCEPT ![t] = "lookup"] /\ want' = [want EXCEPT ![t] = r]
      /\ registry' = Retained(registry) /\ calls' = calls + 1 /\ mutex' = {t}
      /\ seen' = [seen EXCEPT ![t] = {db[u] : u \in {u \in Threads : pc[u] = "held"}}]
  BY RegistryAssumption DEF Enter, Inv, HandlesInv
<1>1. TypeOK'
  BY <1>0 DEF Inv, TypeOK, Retained
<1>2. \A i : Live(i)' <=> Live(i)
  BY <1>0 DEF Live
<1>3. \A p \in Paths : /\ Live(registry[p]) => registry'[p] = registry[p]
                       /\ registry'[p] = registry[p] \/ registry'[p] = 0
  BY <1>0 DEF Retained
<1>4. HandlesInv' /\ LocksInv'
  BY <1>0 DEF Inv, TypeOK, HandlesInv, LocksInv
<1>5. LiveIsFindable'
  <2> SUFFICES ASSUME NEW u \in Threads, pc'[u] = "held" PROVE registry'[PathOf(u)'] = db'[u]
    BY DEF LiveIsFindable
  <2>1. u # t /\ pc[u] = "held" /\ PathOf(u)' = PathOf(u) /\ PathOf(u) \in Paths
    BY <1>0 DEF Inv, TypeOK
  <2>2. registry[PathOf(u)] = db[u] /\ Live(db[u])
    BY <2>1 DEF Inv, LiveIsFindable, HandlesInv, Live
  <2> QED BY <1>0, <1>3, <2>1, <2>2
<1>6. EntriesInv'
  BY <1>0, <1>2, <1>3 DEF Inv, EntriesInv, Live
<1>7. FreshInv'
  <2> SUFFICES ASSUME NEW u \in Threads, pc'[u] = "insert"
               PROVE  /\ \A p \in Paths : registry'[p] # db'[u]
                      /\ \A w \in Threads : db'[u] \notin seen'[w] /\ (w # u => db'[w] # db'[u])
    BY DEF FreshInv
  <2>1. pc[u] = "insert" /\ db[u] # 0
    BY <1>0 DEF Inv, TypeOK, HandlesInv
  <2>2. /\ \A p \in Paths : registry[p] # db[u]
        /\ \A w \in Threads : db[u] \notin seen[w] /\ (w # u => db[w] # db[u])
    BY <2>1 DEF Inv, FreshInv
  <2>3. ASSUME NEW w \in Threads PROVE db[u] \notin seen'[w]
    <3>1. CASE w = t
      BY <1>0, <2>1, <2>2, <3>1 DEF Inv, TypeOK
    <3>2. CASE w # t
      BY <1>0, <2>2, <3>2 DEF Inv, TypeOK
    <3> QED BY <3>1, <3>2
  <2> QED BY <1>0, <1>3, <2>1, <2>2, <2>3
<1>8. MissedInv'
  <2> SUFFICES ASSUME NEW u \in Threads, pc'[u] = "opening", NEW i \in seen'[u], Live(i)'
               PROVE  /\ registry'[PathOf(u)'] # i
                      /\ \A w \in Threads : db'[w] = i => PathOf(w)' # PathOf(u)'
    BY DEF MissedInv
  <2>1. u # t /\ pc[u] = "opening" /\ seen'[u] = seen[u] /\ PathOf(u)' = PathOf(u)
          /\ PathOf(u) \in Paths /\ Live(i) /\ i # 0
    BY <1>0, <1>2 DEF Inv, TypeOK, Live
  <2>2. registry[PathOf(u)] # i /\ \A w \in Threads : db[w] = i => PathOf(w) # PathOf(u)
    BY <2>1 DEF Inv, MissedInv
  <2>3. registry'[PathOf(u)] # i
    BY <1>3, <2>1, <2>2
  <2> QED BY <1>0, <2>1, <2>2, <2>3 DEF Inv, TypeOK
<1> QED BY <1>1, <1>4, <1>5, <1>6, <1>7, <1>8 DEF Inv

\* A hit shares the database of the path; a miss leaves the mutex.
LEMMA LookupInv == ASSUME Inv, NEW t \in Threads, Lookup(t) PROVE Inv'
<1> DEFINE i == registry[PathOf(t)]
<1>0. /\ pc[t] = "lookup" /\ db[t] = 0 /\ PathOf(t) \in Paths /\ mutex = {t} /\ mutex' = {}
      /\ want' = want /\ seen' = seen /\ registry' = registry /\ locked' = locked
      /\ opens' = opens /\ calls' = calls
  <2>1. mutex = {t}
    BY DEF Lookup, Inv, TypeOK
  <2> QED BY <2>1 DEF Lookup, Inv, TypeOK, HandlesInv
<1>1. CASE Live(i)
  <2>1. db' = [db EXCEPT ![t] = i] /\ pc' = [pc EXCEPT ![t] = "held"] /\ i # 0
    BY <1>1 DEF Lookup, Live
  <2>2. TypeOK'
    BY <1>0, <2>1 DEF Inv, TypeOK
  <2>3. \A j : Live(j)' => Live(j)
    BY <1>1, <2>1 DEF Live, Inv, TypeOK
  <2>4. HandlesInv' /\ LiveIsFindable'
    BY <1>0, <2>1 DEF Inv, TypeOK, HandlesInv, LiveIsFindable
  <2>5. LocksInv' /\ EntriesInv'
    BY <1>0, <1>1, <2>1, <2>3 DEF Inv, TypeOK, LocksInv, EntriesInv
  <2>6. FreshInv'
    BY <1>0, <2>1 DEF Inv, TypeOK, FreshInv
  <2>7. MissedInv'
    <3> SUFFICES ASSUME NEW u \in Threads, pc'[u] = "opening", NEW j \in seen[u], Live(j)'
                 PROVE  /\ registry[PathOf(u)] # j
                        /\ \A w \in Threads : db'[w] = j => PathOf(w) # PathOf(u)
      BY <1>0 DEF MissedInv
    <3>1. pc[u] = "opening" /\ u # t
      BY <1>0, <2>1 DEF Inv, TypeOK
    <3>2. registry[PathOf(u)] # j /\ \A w \in Threads : db[w] = j => PathOf(w) # PathOf(u)
      BY <2>3, <3>1 DEF Inv, MissedInv
    <3>3. i = j => PathOf(t) # PathOf(u)
      BY <3>2
    <3> QED BY <2>1, <3>2, <3>3 DEF Inv, TypeOK
  <2> QED BY <2>2, <2>4, <2>5, <2>6, <2>7 DEF Inv
<1>2. CASE ~Live(i)
  <2>1. db' = db /\ pc' = [pc EXCEPT ![t] = "opening"]
    BY <1>2 DEF Lookup
  <2>2. TypeOK'
    BY <1>0, <2>1 DEF Inv, TypeOK
  <2>3. \A j : Live(j)' <=> Live(j)
    BY <2>1 DEF Live
  <2>4. HandlesInv' /\ LiveIsFindable' /\ LocksInv' /\ EntriesInv'
    BY <1>0, <2>1, <2>3
       DEF Inv, TypeOK, HandlesInv, LiveIsFindable, LocksInv, EntriesInv
  <2>5. FreshInv'
    BY <1>0, <2>1 DEF Inv, TypeOK, FreshInv
  <2>6. MissedInv'
    <3> SUFFICES ASSUME NEW u \in Threads, pc'[u] = "opening", NEW j \in seen[u], Live(j)
                 PROVE  /\ registry[PathOf(u)] # j
                        /\ \A w \in Threads : db[w] = j => PathOf(w) # PathOf(u)
      BY <1>0, <2>1, <2>3 DEF MissedInv
    <3>1. CASE u # t
      BY <2>1, <3>1 DEF Inv, TypeOK, MissedInv
    <3>2. CASE u = t
      <4>1. i # j
        BY <1>2
      <4>2. ASSUME NEW w \in Threads, db[w] = j PROVE PathOf(w) # PathOf(t)
        <5>1. pc[w] = "held"
          BY <3>2, <4>2 DEF Inv, HandlesInv, FreshInv, Live
        <5> QED BY <4>1, <4>2, <5>1 DEF Inv, LiveIsFindable
      <4> QED BY <3>2, <4>1, <4>2
    <3> QED BY <3>1, <3>2
  <2> QED BY <2>2, <2>4, <2>5, <2>6 DEF Inv
<1> QED BY <1>1, <1>2

\* A new database gets the lock that nobody holds, and a new number.
LEMMA OpenInv == ASSUME Inv, NEW t \in Threads, Open(t) PROVE Inv'
<1> DEFINE n == opens + 1
<1>0. /\ pc[t] = "opening" /\ db[t] = 0 /\ PathOf(t) \in Paths /\ locked[PathOf(t)] = 0
      /\ want' = want /\ seen' = seen /\ registry' = registry /\ mutex' = mutex
      /\ opens' = n /\ locked' = [locked EXCEPT ![PathOf(t)] = n]
      /\ db' = [db EXCEPT ![t] = n] /\ pc' = [pc EXCEPT ![t] = "insert"] /\ calls' = calls
  BY DEF Open, Inv, TypeOK, HandlesInv
<1>1. /\ n \in Nat /\ n # 0 /\ \A p \in Paths : registry[p] # n /\ locked[p] # n
      /\ \A u \in Threads : db[u] # n /\ n \notin seen[u]
  BY RegistryAssumption DEF Inv, TypeOK
<1>2. TypeOK'
  BY <1>0, <1>1 DEF Inv, TypeOK
<1> HIDE DEF n
<1>3. \A j : j # n => (Live(j)' <=> Live(j))
  BY <1>0, <1>1 DEF Live, Inv, TypeOK
<1>4. HandlesInv' /\ LiveIsFindable'
  BY <1>0, <1>1 DEF Inv, TypeOK, HandlesInv, LiveIsFindable
<1>5. LocksInv'
  BY <1>0, <1>1 DEF Inv, TypeOK, LocksInv
<1>6. EntriesInv'
  <2> SUFFICES ASSUME NEW p \in Paths, Live(registry[p]) PROVE locked'[p] = registry[p]
    BY <1>0, <1>1, <1>3 DEF EntriesInv
  <2>1. locked[p] = registry[p] /\ registry[p] # 0
    BY DEF Inv, EntriesInv, Live
  <2> QED BY <1>0, <1>1, <2>1 DEF Inv, TypeOK
<1>7. FreshInv'
  BY <1>0, <1>1 DEF Inv, TypeOK, FreshInv
<1>8. MissedInv'
  <2> SUFFICES ASSUME NEW u \in Threads, pc'[u] = "opening", NEW j \in seen[u], Live(j)'
               PROVE  /\ registry[PathOf(u)] # j
                      /\ \A w \in Threads : db'[w] = j => PathOf(w) # PathOf(u)
    BY <1>0 DEF MissedInv
  <2>1. pc[u] = "opening" /\ j # n
    BY <1>0, <1>1 DEF Inv, TypeOK
  <2>2. registry[PathOf(u)] # j /\ \A w \in Threads : db[w] = j => PathOf(w) # PathOf(u)
    BY <1>3, <2>1 DEF Inv, MissedInv
  <2> QED BY <1>0, <2>1, <2>2 DEF Inv, TypeOK
<1> QED BY <1>2, <1>4, <1>5, <1>6, <1>7, <1>8 DEF Inv

\* The second critical section makes the new database the entry of its path.
LEMMA InsertInv == ASSUME Inv, NEW t \in Threads, Insert(t) PROVE Inv'
<1>0. /\ pc[t] = "insert" /\ db[t] # 0 /\ PathOf(t) \in Paths
      /\ want' = want /\ seen' = seen /\ db' = db /\ locked' = locked /\ mutex' = mutex
      /\ opens' = opens /\ registry' = [registry EXCEPT ![PathOf(t)] = db[t]]
      /\ pc' = [pc EXCEPT ![t] = "held"] /\ calls' = calls
  BY DEF Insert, Inv, TypeOK, HandlesInv
<1>1. TypeOK'
  BY <1>0 DEF Inv, TypeOK
<1>2. \A j : Live(j)' <=> Live(j)
  BY <1>0 DEF Live
<1>3. locked[PathOf(t)] = db[t]
  BY <1>0 DEF Inv, LocksInv
<1>4. HandlesInv' /\ LocksInv' /\ EntriesInv'
  BY <1>0, <1>2, <1>3 DEF Inv, TypeOK, HandlesInv, LocksInv, EntriesInv
<1>5. LiveIsFindable'
  <2> SUFFICES ASSUME NEW u \in Threads, pc'[u] = "held" PROVE registry'[PathOf(u)] = db[u]
    BY <1>0 DEF LiveIsFindable
  <2>1. CASE u = t
    BY <1>0, <2>1 DEF Inv, TypeOK
  <2>2. CASE u # t
    <3>1. registry[PathOf(u)] = db[u] /\ locked[PathOf(u)] = db[u]
      BY <1>0, <2>2 DEF Inv, TypeOK, LiveIsFindable, HandlesInv, LocksInv
    <3> QED BY <1>0, <1>3, <3>1 DEF Inv, TypeOK
  <2> QED BY <2>1, <2>2
<1>6. FreshInv'
  BY <1>0 DEF Inv, TypeOK, FreshInv
<1>7. MissedInv'
  <2> SUFFICES ASSUME NEW u \in Threads, pc'[u] = "opening", NEW j \in seen[u], Live(j)
               PROVE  /\ registry'[PathOf(u)] # j
                      /\ \A w \in Threads : db[w] = j => PathOf(w) # PathOf(u)
    BY <1>0, <1>2 DEF MissedInv
  <2>1. pc[u] = "opening"
    BY <1>0 DEF Inv, TypeOK
  <2>2. registry[PathOf(u)] # j /\ \A w \in Threads : db[w] = j => PathOf(w) # PathOf(u)
    BY <2>1 DEF Inv, MissedInv
  <2>3. db[t] # j
    BY <1>0 DEF Inv, FreshInv
  <2> QED BY <1>0, <2>2, <2>3 DEF Inv, TypeOK
<1> QED BY <1>1, <1>4, <1>5, <1>6, <1>7 DEF Inv

\* An error, a drop, or the end of a database: nothing becomes live.
LEMMA ReleaseInv ==
  ASSUME Inv, \/ \E t \in Threads : Refuse(t) \/ IoError(t) \/ Drop(t)
              \/ \E p \in Paths : Close(p)
  PROVE  Inv'
<1>1. ASSUME NEW t \in Threads, Refuse(t) \/ IoError(t) PROVE Inv'
  <2>0. /\ pc[t] = "opening" /\ db[t] = 0 /\ pc' = [pc EXCEPT ![t] = "idle"]
        /\ UNCHANGED <<want, db, seen, registry, locked, mutex, opens, calls>>
    BY <1>1 DEF Refuse, IoError, Inv, HandlesInv
  <2>1. TypeOK'
    BY <2>0 DEF Inv, TypeOK
  <2>2. \A j : Live(j)' <=> Live(j)
    BY <2>0 DEF Live
  <2>3. HandlesInv' /\ LocksInv' /\ LiveIsFindable' /\ EntriesInv'
    BY <2>0, <2>2
       DEF Inv, TypeOK, HandlesInv, LocksInv, LiveIsFindable, EntriesInv
  <2>4. FreshInv' /\ MissedInv'
    BY <2>0, <2>2 DEF Inv, TypeOK, FreshInv, MissedInv
  <2> QED BY <2>1, <2>3, <2>4 DEF Inv
<1>2. ASSUME NEW t \in Threads, Drop(t) PROVE Inv'
  <2>0. /\ pc[t] = "held" /\ pc' = [pc EXCEPT ![t] = "idle"] /\ db' = [db EXCEPT ![t] = 0]
        /\ UNCHANGED <<want, seen, registry, locked, mutex, opens, calls>>
    BY <1>2 DEF Drop
  <2>1. TypeOK'
    BY <2>0 DEF Inv, TypeOK
  <2>2. \A j : Live(j)' => Live(j)
    BY <2>0 DEF Live, Inv, TypeOK
  <2>3. HandlesInv' /\ LocksInv' /\ LiveIsFindable' /\ EntriesInv'
    BY <2>0, <2>2
       DEF Inv, TypeOK, HandlesInv, LocksInv, LiveIsFindable, EntriesInv
  <2>4. FreshInv'
    BY <2>0 DEF Inv, TypeOK, FreshInv, HandlesInv
  <2>5. MissedInv'
    <3> SUFFICES ASSUME NEW u \in Threads, pc'[u] = "opening", NEW j \in seen[u], Live(j)'
                 PROVE  /\ registry[PathOf(u)] # j
                        /\ \A w \in Threads : db'[w] = j => PathOf(w) # PathOf(u)
      BY <2>0 DEF MissedInv
    <3>1. pc[u] = "opening" /\ Live(j) /\ j # 0
      BY <2>0, <2>2 DEF Inv, TypeOK, Live
    <3>2. registry[PathOf(u)] # j /\ \A w \in Threads : db[w] = j => PathOf(w) # PathOf(u)
      BY <3>1 DEF Inv, MissedInv
    <3> QED BY <2>0, <3>1, <3>2 DEF Inv, TypeOK
  <2> QED BY <2>1, <2>3, <2>4, <2>5 DEF Inv
<1>3. ASSUME NEW d \in Paths, Close(d) PROVE Inv'
  <2>0. /\ locked[d] # 0 /\ ~Live(locked[d]) /\ locked' = [locked EXCEPT ![d] = 0]
        /\ UNCHANGED <<pc, want, db, seen, registry, mutex, opens, calls>>
    BY <1>3 DEF Close
  <2>1. TypeOK'
    BY <2>0 DEF Inv, TypeOK
  <2>2. \A j : Live(j)' <=> Live(j)
    BY <2>0 DEF Live
  <2>3. LocksInv' /\ EntriesInv'
    BY <2>0, <2>2 DEF Inv, TypeOK, LocksInv, EntriesInv, Live
  <2>4. HandlesInv' /\ LiveIsFindable' /\ FreshInv' /\ MissedInv'
    BY <2>0, <2>2 DEF Inv, HandlesInv, LiveIsFindable, FreshInv, MissedInv
  <2> QED BY <2>1, <2>3, <2>4 DEF Inv
<1> QED BY <1>1, <1>2, <1>3

\* Every step keeps the invariant: one case for each action.
LEMMA NextInv == Inv /\ [Next]_vars => Inv'
<1> SUFFICES ASSUME Inv, [Next]_vars PROVE Inv'
  OBVIOUS
<1>1. CASE UNCHANGED vars
  BY <1>1 DEF vars, Inv, TypeOK, HandlesInv, LocksInv, LiveIsFindable,
              EntriesInv, FreshInv, MissedInv, Live
<1>2. CASE Next
  BY <1>2, EnterInv, LookupInv, OpenInv, InsertInv, ReleaseInv DEF Next
<1> QED BY <1>1, <1>2

\* The invariant holds in every reachable state.
LEMMA AlwaysInv == Spec => []Inv
BY InitInv, NextInv, PTL DEF Spec

\* open_or_get_db returns handles that the registry gives to the next caller of
\* the path, whatever happens between DB::open and the insertion.
THEOREM LiveAlwaysFindable == Spec => []LiveIsFindable
<1>1. Inv => LiveIsFindable
  BY DEF Inv
<1> QED BY <1>1, AlwaysInv, PTL

\* Threads that name one path, by whatever names, share one database.
THEOREM AlwaysOneInstance == Spec => []OneInstancePerPath
<1>1. Inv => OneInstancePerPath
  BY DEF Inv, LocksInv, OneInstancePerPath
<1> QED BY <1>1, AlwaysInv, PTL

\* The lock refuses an open only in the races the mutex leaves open.
THEOREM RefusalsAreRaces == Spec => RefusedOnlyInRaces
<1> DEFINE Excused(t) == ~Live(locked[PathOf(t)]) \/ locked[PathOf(t)] \notin seen[t]
<1>1. ASSUME Inv, NEW t \in Threads, Refuse(t) PROVE Excused(t)
  <2> SUFFICES ASSUME Live(locked[PathOf(t)]), locked[PathOf(t)] \in seen[t] PROVE FALSE
    OBVIOUS
  <2>1. PICK u \in Threads : db[u] = locked[PathOf(t)] /\ db[u] # 0
    BY DEF Live
  <2>2. PathOf(u) = PathOf(t)
    <3>1. PathOf(t) \in Paths /\ PathOf(u) \in Paths
      BY <1>1 DEF Inv, TypeOK
    <3>2. locked[PathOf(u)] = db[u]
      BY <1>1, <2>1 DEF Inv, LocksInv
    <3>3. \A p, q \in Paths : locked[p] # 0 /\ locked[p] = locked[q] => p = q
      BY <1>1 DEF Inv, LocksInv
    <3> HIDE DEF PathOf
    <3> QED BY <2>1, <3>1, <3>2, <3>3
  <2>3. PathOf(u) # PathOf(t)
    BY <1>1, <2>1 DEF Inv, MissedInv, Refuse
  <2> QED BY <2>2, <2>3
<1>2. Inv => [\A t \in Threads : Refuse(t) => Excused(t)]_vars
  BY <1>1
<1> QED BY <1>2, AlwaysInv, PTL DEF RefusedOnlyInRaces

HIDE RegistryAssumption DEF PathOf, Absolute

(***************************************************************************)
(* The fee market, for every gas limit, width and supply that satisfy its  *)
(* assumptions.                                                            *)
(***************************************************************************)

\* Integer division, as a bound on what it returns.
LEMMA DivBound ==
  ASSUME NEW x \in Nat, NEW y \in Nat \ {0}
  PROVE  x \div y \in Nat /\ y * (x \div y) <= x
  OBVIOUS

\* Products are monotone, and a positive factor can be cancelled.
LEMMA MulMonotone ==
  ASSUME NEW x \in Nat, NEW y \in Nat, NEW z \in Nat, x <= y
  PROVE  z * x <= z * y
  OBVIOUS

\* A positive factor can be cancelled from a comparison.
LEMMA MulCancel ==
  ASSUME NEW x \in Nat, NEW y \in Nat, NEW z \in Nat \ {0}, z * x <= z * y
  PROVE  x <= y
<1>1. SUFFICES ASSUME y + 1 <= x PROVE FALSE
  OBVIOUS
<1>2. z * (y + 1) <= z * x
  BY <1>1, MulMonotone
<1>3. z * (y + 1) = z * y + z
  OBVIOUS
<1> QED
  BY <1>2, <1>3

\* The delta of calc_next_base_fee: an eighth of the fee at most, and in
\* proportion to how far the target was missed.
LEMMA DeltaBound ==
  ASSUME NEW fee \in Nat, NEW target \in Nat \ {0}, NEW miss \in 0 .. target
  PROVE  LET delta == FeeDelta(fee, miss, target) IN
         /\ delta \in Nat
         /\ 8 * delta <= fee
         /\ target * (8 * delta) <= fee * miss
<1> DEFINE product == saturating_mul(fee, miss)
           quotient == product \div target
           delta == quotient \div 8
<1>1. product \in Nat /\ product <= fee * miss
  <2>1. fee * miss \in Nat
    OBVIOUS
  <2> QED
    BY <2>1, GasAssumption DEF saturating_mul, AtMost
<1>2. quotient \in Nat /\ target * quotient <= product
  BY <1>1, DivBound
<1>3. delta \in Nat /\ 8 * delta <= quotient
  BY <1>2, DivBound
<1>4. target * (8 * delta) <= fee * miss
  <2>1. target * (8 * delta) <= target * quotient
    BY <1>2, <1>3, MulMonotone
  <2> QED
    BY <1>1, <1>2, <1>3, <2>1
<1>5. quotient <= fee
  <2>1. fee * miss <= fee * target
    BY MulMonotone
  <2>2. target * quotient <= target * fee
    BY <1>1, <1>2, <2>1
  <2> QED
    BY <1>2, <2>2, MulCancel
<1>6. delta = FeeDelta(fee, miss, target)
  BY DEF FeeDelta, MaxChangeDenominator
<1> HIDE DEF delta, quotient, product
<1> QED
  BY <1>2, <1>3, <1>4, <1>5, <1>6

Target == GasTarget(BlockGasLimit)

\* The gas target is half the block gas limit, and not zero.
LEMMA TargetType == Target \in Nat \ {0} /\ BlockGasLimit = 2 * Target
  BY GasAssumption, MarketAssumption DEF Target, GasTarget, GasTargetDivisor

\* u128 saturation never shortens a sum of two fees.
LEMMA NoSaturation == 2 * U64Modulus <= MaxU128
<1>1. BlockGasLimit + 1 >= 2 /\ BlockGasLimit + 1 \in Nat
  BY TargetType, GasAssumption
<1>2. U64Modulus * 2 <= U64Modulus * (BlockGasLimit + 1)
  BY <1>1, GasAssumption, MulMonotone
<1> QED
  BY <1>1, <1>2, GasAssumption, WidthAssumption

\* A block above the target: the fee rises, and an affordable block bounds it.
LEMMA RisingFee ==
  ASSUME NEW fee \in 1 .. U64Modulus - 1, NEW gas \in 0 .. MaxTxGas, gas > Target
  PROVE  LET next == calc_next_base_fee(fee, gas, BlockGasLimit) IN
         /\ next \in Nat /\ fee < next
         /\ next = fee + 1 \/ 8 * (next - fee) <= fee
         /\ gas * fee <= Supply => Target * (next - 1) <= Supply
<1> DEFINE delta == FeeDelta(fee, gas - Target, Target)
           next == calc_next_base_fee(fee, gas, BlockGasLimit)
<1>0. fee \in Nat /\ fee < U64Modulus /\ gas \in Nat /\ gas - Target \in 0 .. Target
  BY TargetType, GasAssumption, MarketAssumption
<1>1. delta \in Nat /\ 8 * delta <= fee /\ Target * (8 * delta) <= fee * (gas - Target)
  BY Zenon, <1>0, TargetType, DeltaBound
<1> HIDE DEF delta
<1>2. next = fee + AtLeast(delta, 1)
  <2>1. next = AtLeast(saturating_add(fee, AtLeast(delta, 1)), MinBaseFee)
    BY <1>0, TargetType DEF calc_next_base_fee, delta, Target
  <2> QED
    BY <1>0, <1>1, <2>1, NoSaturation, GasAssumption
    DEF saturating_add, AtLeast, AtMost, MinBaseFee
<1> HIDE DEF next
<1>3. Target * (next - 1) <= gas * fee
  <2>1. Target * fee <= gas * fee
    <3>1. fee * Target <= fee * gas
      BY <1>0, TargetType, MulMonotone
    <3> QED
      BY <3>1, <1>0, TargetType
  <2>2. CASE delta = 0
    BY <1>2, <2>1, <2>2, <1>0 DEF AtLeast
  <2>3. CASE delta > 0
    <3>1. next = fee + delta
      BY <1>1, <1>2, <2>3 DEF AtLeast
    <3>2. /\ fee * (gas - Target) = fee * gas - fee * Target
          /\ fee * gas = gas * fee /\ fee * Target = Target * fee
      BY <1>0, TargetType
    <3>3. /\ Target * (8 * delta) = 8 * (Target * delta)
          /\ Target * (next - 1) = Target * fee + Target * delta - Target
          /\ Target * delta \in Nat /\ Target * fee \in Nat /\ gas * fee \in Nat
      BY <1>0, <1>1, <3>1, TargetType
    <3> QED
      BY <1>1, <2>1, <3>2, <3>3, TargetType
  <2> QED
    BY <1>1, <2>2, <2>3
<1>4. /\ next \in Nat /\ fee < next
      /\ next = fee + 1 \/ 8 * (next - fee) <= fee
  BY <1>0, <1>1, <1>2 DEF AtLeast
<1>5. gas * fee \in Nat /\ Target * (next - 1) \in Int
  BY <1>0, <1>4, TargetType
<1> QED
  BY <1>3, <1>4, <1>5, MarketAssumption DEF next

\* A block at or below the target: the fee does not rise, keeps seven eighths,
\* and stays positive.
LEMMA FallingFee ==
  ASSUME NEW fee \in 1 .. U64Modulus - 1, NEW gas \in 0 .. MaxTxGas, gas <= Target
  PROVE  LET next == calc_next_base_fee(fee, gas, BlockGasLimit) IN
         next \in Nat /\ 1 <= next /\ next <= fee /\ 8 * (fee - next) <= fee
<1> DEFINE delta == FeeDelta(fee, Target - gas, Target)
           next == calc_next_base_fee(fee, gas, BlockGasLimit)
<1>0. fee \in Nat /\ fee >= 1 /\ gas \in Nat /\ Target - gas \in 0 .. Target
  BY TargetType, GasAssumption, MarketAssumption
<1>1. delta \in Nat /\ 8 * delta <= fee
  BY Zenon, <1>0, TargetType, DeltaBound
<1> HIDE DEF delta
<1>2. CASE gas = Target
  BY <1>0, <1>2 DEF calc_next_base_fee, Target, AtLeast, MinBaseFee
<1>3. CASE gas < Target
  <2>1. next = AtLeast(saturating_sub(fee, delta), MinBaseFee)
    BY <1>0, <1>3, TargetType DEF calc_next_base_fee, delta, Target
  <2> QED
    BY <1>0, <1>1, <2>1 DEF AtLeast, saturating_sub, MinBaseFee
<1> QED
  BY <1>0, <1>2, <1>3, TargetType

\* What FeeStaysInRange needs to know of the head block: it was affordable, and
\* its own fee was in range.
HeadInRange ==
  sealed =>
    /\ headFee >= 1
    /\ headGas * headFee <= Supply
    /\ headFee <= genesisFee \/ Target * (headFee - 1) <= Supply

IInv == MarketTypeOK /\ HeadInRange

\* What the invariant says of the fee of the next block.
LEMMA PendingFee ==
  ASSUME IInv
  PROVE  /\ pending_base_fee \in Nat /\ FeeStaysInRange /\ FeeFollowsDemand
         /\ pending_base_fee < U64Modulus
<1>0. /\ genesisFee \in 1 .. U64Modulus - 1 /\ headFee \in 0 .. U64Modulus - 1
      /\ headGas \in 0 .. MaxTxGas /\ sealed \in BOOLEAN /\ Supply \in Nat
      /\ U64Modulus \in Nat
  BY MarketAssumption, GasAssumption DEF IInv, MarketTypeOK
<1>1. /\ pending_base_fee \in Nat /\ FeeStaysInRange /\ FeeFollowsDemand
  <2>1. CASE ~sealed
    BY <1>0, <2>1 DEF pending_base_fee, FeeStaysInRange, FeeFollowsDemand, MinBaseFee
  <2>2. CASE sealed
    <3>0. /\ headFee \in 1 .. U64Modulus - 1 /\ headGas * headFee <= Supply
          /\ headFee <= genesisFee \/ Target * (headFee - 1) <= Supply
          /\ pending_base_fee = calc_next_base_fee(headFee, headGas, BlockGasLimit)
      BY <1>0, <2>2 DEF IInv, HeadInRange, pending_base_fee
    <3>1. CASE headGas > Target
      BY <1>0, <3>0, <3>1, TargetType, RisingFee
      DEF FeeStaysInRange, FeeFollowsDemand, MinBaseFee, Target
    <3>2. CASE headGas <= Target
      <4>1. /\ pending_base_fee \in Nat /\ 1 <= pending_base_fee
            /\ pending_base_fee <= headFee
            /\ 8 * (headFee - pending_base_fee) <= headFee
        BY <1>0, <3>0, <3>2, FallingFee
      <4>2. Target * (pending_base_fee - 1) <= Target * (headFee - 1)
        BY <4>1, <3>0, TargetType, <1>0, MulMonotone
      <4>3. Target * (pending_base_fee - 1) \in Int /\ Target * (headFee - 1) \in Int
        BY <4>1, <3>0, TargetType, <1>0
      <4>4. pending_base_fee <= genesisFee \/ Target * (pending_base_fee - 1) <= Supply
        BY <4>1, <4>2, <4>3, <3>0, <1>0
      <4> QED
        BY <4>1, <4>4, <3>2, <1>0, TargetType
        DEF FeeStaysInRange, FeeFollowsDemand, MinBaseFee, Target
    <3> QED
      BY <3>1, <3>2, <1>0, TargetType
  <2> QED
    BY <2>1, <2>2
<1>2. pending_base_fee < U64Modulus
  <2>1. CASE pending_base_fee <= genesisFee
    BY <2>1, <1>0, <1>1
  <2>2. CASE Target * (pending_base_fee - 1) <= Supply
    <3>1. SUFFICES ASSUME pending_base_fee >= U64Modulus PROVE FALSE
      BY <1>0, <1>1
    <3>2. Target * (U64Modulus - 1) <= Target * (pending_base_fee - 1)
      BY <3>1, <1>0, <1>1, TargetType, MulMonotone
    <3>3. Target * (U64Modulus - 1) \in Int /\ Target * (pending_base_fee - 1) \in Int
      BY <1>0, <1>1, TargetType
    <3> QED
      BY <3>2, <3>3, <2>2, <1>0, SupplyAssumption DEF Target
  <2> QED
    BY <1>1, <2>1, <2>2 DEF FeeStaysInRange, Target
<1> QED
  BY <1>1, <1>2

\* `as u64` keeps every fee the market reaches.
LEMMA FeeIsKept == ASSUME IInv PROVE FeeFitsU64
<1>1. pending_base_fee \in Nat /\ pending_base_fee < U64Modulus
  BY PendingFee
<1> QED
  BY <1>1, GasAssumption DEF FeeFitsU64, AsU64

\* The fee range leaves a minimal transaction affordable.
LEMMA Affordable == ASSUME IInv PROVE NeverPricedOut
<1>0. /\ pending_base_fee \in Nat /\ pending_base_fee >= 1
      /\ genesisFee \in GenesisFees /\ genesisFee \in Nat
      /\ Supply \in Nat /\ MinGas \in Nat
  BY PendingFee, MarketAssumption, GasAssumption
  DEF FeeStaysInRange, IInv, MarketTypeOK, MinBaseFee
<1>1. CASE pending_base_fee <= genesisFee
  <2>1. MinGas * pending_base_fee <= MinGas * genesisFee
    BY <1>0, <1>1, MulMonotone
  <2>2. MinGas * genesisFee <= Supply
    BY <1>0, SupplyAssumption
  <2>3. MinGas * pending_base_fee \in Nat /\ MinGas * genesisFee \in Nat
    BY <1>0
  <2> QED
    BY <2>1, <2>2, <2>3, <1>0 DEF NeverPricedOut
<1>2. CASE Target * (pending_base_fee - 1) <= Supply
  <2> DEFINE cost == MinGas * pending_base_fee
  <2>0. cost \in Nat
    BY <1>0
  <2>1. Target * pending_base_fee <= Supply + Target
    BY <1>0, <1>2, TargetType
  <2>2. MinGas * (Target * pending_base_fee) <= MinGas * (Supply + Target)
    <3>1. Target * pending_base_fee \in Nat /\ Supply + Target \in Nat
      BY <1>0, TargetType
    <3> QED
      BY <3>1, <2>1, <1>0, MulMonotone
  <2>3. MinGas * (Target * pending_base_fee) = Target * cost
    BY <1>0, TargetType
  <2>4. Target * cost <= Target * Supply
    <3>1. MinGas * (Supply + Target) <= Supply * Target
      BY SupplyAssumption DEF Target
    <3>2. /\ Supply * Target = Target * Supply /\ Target * Supply \in Nat
          /\ MinGas * (Supply + Target) \in Nat
          /\ MinGas * (Target * pending_base_fee) \in Nat
      BY <1>0, TargetType
    <3> HIDE DEF cost
    <3> QED
      BY <2>2, <2>3, <3>1, <3>2
  <2>5. cost <= Supply
    <3> HIDE DEF cost
    <3> QED
      BY <2>0, <2>4, <1>0, TargetType, MulCancel
  <2> QED
    BY <2>5 DEF NeverPricedOut
<1> QED
  BY <1>1, <1>2, PendingFee DEF FeeStaysInRange, Target

\* The invariant holds throughout.
LEMMA IInvInductive == MarketSpec => []IInv
<1>1. MarketInit => IInv
  <2>1. 0 \in 0 .. U64Modulus - 1 /\ 0 \in 0 .. MaxTxGas
    BY GasAssumption, MarketAssumption
  <2> QED
    BY <2>1, Zenon DEF MarketInit, IInv, MarketTypeOK, HeadInRange
<1>2. IInv /\ [MarketNext]_market => IInv'
  <2> SUFFICES ASSUME IInv, [MarketNext]_market PROVE IInv'
    OBVIOUS
  <2>1. ASSUME NEW gas \in MinGas .. MaxTxGas, Seal(gas) PROVE IInv'
    <3>1. /\ pending_base_fee \in Nat /\ pending_base_fee < U64Modulus
          /\ AsU64(pending_base_fee) = pending_base_fee /\ FeeStaysInRange
      BY PendingFee, FeeIsKept DEF FeeFitsU64
    <3>2. /\ headFee' = pending_base_fee /\ headGas' = gas /\ sealed' = TRUE
          /\ genesisFee' = genesisFee /\ gas * pending_base_fee <= Supply
      BY <2>1, <3>1 DEF Seal
    <3>3. MarketTypeOK'
      BY <3>1, <3>2, GasAssumption, MarketAssumption DEF MarketTypeOK, IInv
    <3>4. HeadInRange'
      BY <3>1, <3>2 DEF HeadInRange, FeeStaysInRange, MinBaseFee, Target
    <3> QED
      BY <3>3, <3>4 DEF IInv
  <2>2. CASE UNCHANGED market
    BY <2>2 DEF market, IInv, MarketTypeOK, HeadInRange
  <2> QED
    BY <2>1, <2>2 DEF MarketNext
<1> QED
  BY <1>1, <1>2, PTL DEF MarketSpec

\* pending_base_fee keeps its floor and its supply-given ceiling forever.
THEOREM FeeRange == MarketSpec => []FeeStaysInRange
  BY IInvInductive, PendingFee, PTL

\* seal_raw's cast of the pending fee to u64 loses nothing, ever.
THEOREM FeeCast == MarketSpec => []FeeFitsU64
  BY IInvInductive, FeeIsKept, PTL

\* calc_next_base_fee moves in the direction of demand by an eighth at most.
THEOREM FeeDynamics == MarketSpec => []FeeFollowsDemand
  BY IInvInductive, PendingFee, PTL

\* No fee the chain can reach stops it for good.
THEOREM Affordability == MarketSpec => []NeverPricedOut
  BY IInvInductive, Affordable, PTL
=============================================================================
