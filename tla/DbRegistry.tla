----------------------------- MODULE DbRegistry -----------------------------
(***************************************************************************)
(* The opener of RocksDB databases (crates/storage/src/db.rs): a registry  *)
(* of weak references by path, under a mutex that is not held while the    *)
(* database is opened.  Threads open paths and drop their handles; the     *)
(* last drop closes the database, a step later, and with it gives back the *)
(* lock.  Within one process RocksDB keeps its locks by the name of the    *)
(* LOCK file, so two paths to one directory do not exclude each other.     *)
(***************************************************************************)
EXTENDS Naturals

CONSTANTS
  Threads,
  Paths,      \* as file names, relative ones among them
  Joined,     \* Joined[p]: the path itself, or if it is relative the cwd joined with it
  Dir,        \* Dir[p]: the directory a path leads to
  MaxCalls    \* bound: calls of open_or_get_db in all

ASSUME RegistryAssumption ==
  /\ Joined \in [Paths -> Paths] /\ Paths # {} /\ MaxCalls \in Nat
  /\ \A p \in Paths : Dir[Joined[p]] = Dir[p]

VARIABLES
  pc, want,   \* per thread: where it is in open_or_get_db, and the path it asked for
  db,         \* per thread: the database its Arc points to, or 0
  seen,       \* per thread: the databases in hand when it took the mutex (history)
  registry,   \* per path: the database its Weak points to, or 0
  locked,     \* per path: the database that holds its LOCK file, or 0
  mutex,      \* the threads in the first critical section
  opens,      \* databases opened so far; they are numbered by it
  calls

vars == <<pc, want, db, seen, registry, locked, mutex, opens, calls>>

\* strong_count() > 0
Live(i) == i # 0 /\ \E t \in Threads : db[t] = i

\* Mutant of Retained: only a database with two handles counts as in use.
SharedOnly(reg) ==
  [p \in Paths |->
     IF \E t, u \in Threads : t # u /\ db[t] = reg[p] /\ db[u] = reg[p] THEN reg[p] ELSE 0]

\* registry.retain(..)
Retained(reg) == [p \in Paths |-> IF Live(reg[p]) THEN reg[p] ELSE 0]

-----------------------------------------------------------------------------
(* open_or_get_db *)

\* Mutant of Absolute: a relative path is taken as it is.
AsGiven(p) == p

\* Relative paths resolve against the working directory.
Absolute(p) == Joined[p]

\* The path a thread opens.
PathOf(t) == Absolute(want[t])

\* The mutex is taken and dead entries go.
Enter(t, p) ==
  /\ pc[t] = "idle" /\ mutex = {}
  /\ calls < MaxCalls /\ calls' = calls + 1
  /\ want' = [want EXCEPT ![t] = p]
  /\ mutex' = {t}
  /\ registry' = Retained(registry)
  /\ seen' = [seen EXCEPT ![t] = {db[u] : u \in {u \in Threads : pc[u] = "held"}}]
  /\ pc' = [pc EXCEPT ![t] = "lookup"]
  /\ UNCHANGED <<db, locked, opens>>

\* Mutant of Lookup: on a miss the guard of the mutex lives on.
KeepsGuard(t) ==
  /\ pc[t] = "lookup"
  /\ IF Live(registry[PathOf(t)])
     THEN /\ db' = [db EXCEPT ![t] = registry[PathOf(t)]]
          /\ pc' = [pc EXCEPT ![t] = "held"]
          /\ mutex' = {}
     ELSE /\ pc' = [pc EXCEPT ![t] = "opening"]
          /\ UNCHANGED <<db, mutex>>
  /\ UNCHANGED <<want, seen, registry, locked, opens, calls>>

\* Weak::upgrade, which misses when the last handle went since.
Lookup(t) ==
  /\ pc[t] = "lookup"
  /\ mutex' = {}
  /\ IF Live(registry[PathOf(t)])
     THEN /\ db' = [db EXCEPT ![t] = registry[PathOf(t)]]
          /\ pc' = [pc EXCEPT ![t] = "held"]
     ELSE /\ pc' = [pc EXCEPT ![t] = "opening"]
          /\ UNCHANGED db
  /\ UNCHANGED <<want, seen, registry, locked, opens, calls>>

\* DB::open takes the LOCK file of the path.
Open(t) ==
  /\ pc[t] = "opening" /\ locked[PathOf(t)] = 0
  /\ opens' = opens + 1
  /\ locked' = [locked EXCEPT ![PathOf(t)] = opens + 1]
  /\ db' = [db EXCEPT ![t] = opens + 1]
  /\ pc' = [pc EXCEPT ![t] = "insert"]
  /\ UNCHANGED <<want, seen, registry, mutex, calls>>

\* The lock is taken: an error for the caller.
Refuse(t) ==
  /\ pc[t] = "opening" /\ locked[PathOf(t)] # 0
  /\ pc' = [pc EXCEPT ![t] = "idle"]
  /\ UNCHANGED <<want, db, seen, registry, locked, mutex, opens, calls>>

\* The parent directory cannot be created, or DB::open fails for another reason.
IoError(t) ==
  /\ pc[t] = "opening"
  /\ pc' = [pc EXCEPT ![t] = "idle"]
  /\ UNCHANGED <<want, db, seen, registry, locked, mutex, opens, calls>>

\* Mutant of Insert: an entry that is there stays, dead or not.
InsertIfAbsent(t) ==
  /\ pc[t] = "insert" /\ mutex = {}
  /\ registry' = [registry EXCEPT ![PathOf(t)] = IF @ = 0 THEN db[t] ELSE @]
  /\ pc' = [pc EXCEPT ![t] = "held"]
  /\ UNCHANGED <<want, db, seen, locked, mutex, opens, calls>>

\* The second critical section.
Insert(t) ==
  /\ pc[t] = "insert" /\ mutex = {}
  /\ registry' = [registry EXCEPT ![PathOf(t)] = db[t]]
  /\ pc' = [pc EXCEPT ![t] = "held"]
  /\ UNCHANGED <<want, db, seen, locked, mutex, opens, calls>>

-----------------------------------------------------------------------------
(* The callers, and the end of a database. *)

\* A caller drops its Arc.
Drop(t) ==
  /\ pc[t] = "held"
  /\ db' = [db EXCEPT ![t] = 0]
  /\ pc' = [pc EXCEPT ![t] = "idle"]
  /\ UNCHANGED <<want, seen, registry, locked, mutex, opens, calls>>

\* External: RocksDB closes after the last drop, and gives up the LOCK file.
Close(p) ==
  /\ locked[p] # 0 /\ ~Live(locked[p])
  /\ locked' = [locked EXCEPT ![p] = 0]
  /\ UNCHANGED <<pc, want, db, seen, registry, mutex, opens, calls>>

Init ==
  /\ pc = [t \in Threads |-> "idle"] /\ want = [t \in Threads |-> CHOOSE p \in Paths : TRUE]
  /\ db = [t \in Threads |-> 0] /\ seen = [t \in Threads |-> {}]
  /\ registry = [p \in Paths |-> 0] /\ locked = [p \in Paths |-> 0]
  /\ mutex = {} /\ opens = 0 /\ calls = 0

Next ==
  \/ \E t \in Threads :
       \/ \E p \in Paths : Enter(t, p)
       \/ Lookup(t) \/ Open(t) \/ Refuse(t) \/ IoError(t) \/ Insert(t) \/ Drop(t)
  \/ \E p \in Paths : Close(p)

Spec == Init /\ [][Next]_vars

\* Threads that are inside of open_or_get_db run.
FairSpec ==
  Spec /\ \A t \in Threads : WF_vars(Lookup(t) \/ Open(t) \/ Refuse(t) \/ Insert(t))

-----------------------------------------------------------------------------
(* Properties. *)

\* Types, and the mutex is held by who is looking up and by nobody else.
TypeOK ==
  /\ pc \in [Threads -> {"idle", "lookup", "opening", "insert", "held"}]
  /\ want \in [Threads -> Paths] /\ opens \in Nat /\ calls \in Nat
  /\ db \in [Threads -> 0 .. opens] /\ seen \in [Threads -> SUBSET (0 .. opens)]
  /\ mutex = {t \in Threads : pc[t] = "lookup"} /\ \A t, u \in mutex : t = u
  /\ registry \in [Paths -> 0 .. opens] /\ locked \in [Paths -> 0 .. opens]

\* A handle that open_or_get_db returned is the one the registry gives to the
\* next caller of its path: a live database is never forgotten, nor hidden by a
\* dead entry, although it is opened outside of the mutex.
LiveIsFindable ==
  \A t \in Threads : pc[t] = "held" => registry[PathOf(t)] = db[t]

\* "One shared instance per normalized path": threads that name a path by its
\* absolute and by a relative name, and race for it while it is opened, dropped
\* and closed, never have two databases on it.
OneInstancePerPath ==
  \A t, u \in Threads :
    db[t] # 0 /\ db[u] # 0 /\ Joined[want[t]] = Joined[want[u]] => db[t] = db[u]

\* An open is refused only when the lock belongs to a database that could not
\* have been found: one that is closing, or one that no call had returned when
\* this caller looked.
RefusedOnlyInRaces ==
  [][\A t \in Threads : Refuse(t) =>
       ~Live(locked[PathOf(t)]) \/ locked[PathOf(t)] \notin seen[t]]_vars

\* Every call returns, with a handle or an error: no thread waits for the mutex
\* for good, itself included.
OpenReturns == \A t \in Threads : pc[t] = "lookup" ~> pc[t] \in {"idle", "held"}

-----------------------------------------------------------------------------
(* What the repository says, as properties that do not hold. *)

\* db.rs: "repeated opens of one path reuse the same Arc<DB>", so that none
\* fails on the directory lock.
RepeatedOpensReuse == [][\A t \in Threads : ~Refuse(t)]_vars

\* db.rs: "RocksDB takes a directory lock", so that a directory is open once,
\* whatever path leads to it.
OneInstancePerDirectory ==
  \A t, u \in Threads :
    db[t] # 0 /\ db[u] # 0 /\ Dir[want[t]] = Dir[want[u]] => db[t] = db[u]
=============================================================================
