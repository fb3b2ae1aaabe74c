--------------------------------- MODULE Opening ---------------------------------
(* Who owns a repository's store: SfsCore::open_dir and close (surrealfs-core)      *)
(* with the migrations Store::open_with applies (surrealfs-store/src/lib.rs).       *)
(*                                                                                 *)
(* A process takes the lock file, then waits for the engine, which the last owner  *)
(* gives back some time after its lock; it brings the schema up to date with a     *)
(* ledger row around every migration, creates the repository if there is none, and *)
(* owns the store until it closes it.  It can be killed at any step.               *)
EXTENDS Naturals

CONSTANTS
    Processes,      \* the processes that open the store
    Last,           \* the migrations of the build are 1..Last
    NoProcess,      \* "held by nobody"
    CrashBound      \* bound: processes killed and statements that break off

ASSUME OpeningAssumption == Last \in Nat /\ NoProcess \notin Processes /\ CrashBound \in Nat

VARIABLES
    pc,         \* each process's place in opening the store
    step,       \* and the migration it is at
    lock,       \* who holds surrealfs.lock
    engine,     \* whose engine has the database directory open
    dropped,    \* that engine's store is dropped, and it has yet to let go
    ledger,     \* migration_receipt: the status of each migration's row
    ran,        \* how much of each migration's DDL has run
    created,    \* the repository record and its genesis exist
    crashes

openingVars == <<pc, step, lock, engine, dropped, ledger, ran, created, crashes>>

Migrations == 1..Last
Places == {"closed", "locked", "reading", "started", "applied", "migrated", "open"}

\* A new directory, or one an earlier build with fewer migrations has closed.
OpeningInit ==
    /\ pc = [p \in Processes |-> "closed"]
    /\ step = [p \in Processes |-> 1]
    /\ lock = NoProcess
    /\ engine = NoProcess
    /\ dropped = FALSE
    /\ \E had \in 0..Last :
        /\ ledger = [m \in Migrations |-> IF m <= had THEN "APPLIED" ELSE "none"]
        /\ ran = [m \in Migrations |-> IF m <= had THEN "all" ELSE "no"]
        /\ created = (had > 0)
    /\ crashes = 0

Goto(p, place) == pc' = [pc EXCEPT ![p] = place]

\* Leaving open_dir by an error, or dropping the core: the lock file is closed at
\* once, the engine lets go in its own time.
Leave(p) ==
    /\ Goto(p, "closed")
    /\ lock' = NoProcess
    /\ dropped' = IF engine = p THEN TRUE ELSE dropped

--------------------------------------------------------------------------------

\* acquire_lock; a process that finds the lock taken is told so and changes nothing.
Unlocked(p) == lock = NoProcess

AcquireLock(p) ==
    /\ pc[p] = "closed" /\ Unlocked(p)
    /\ lock' = p
    /\ Goto(p, "locked")
    /\ UNCHANGED <<step, engine, dropped, ledger, ran, created, crashes>>

\* The loop around Store::open_with: it retries while the engine is taken.
OpenEngine(p) ==
    /\ pc[p] = "locked" /\ engine = NoProcess
    /\ engine' = p /\ dropped' = FALSE
    /\ step' = [step EXCEPT ![p] = 1]
    /\ Goto(p, "reading")
    /\ UNCHANGED <<lock, ledger, ran, created, crashes>>

\* Its deadline passes first.
GiveUp(p) ==
    /\ pc[p] = "locked" /\ engine # NoProcess
    /\ Leave(p)
    /\ UNCHANGED <<step, engine, ledger, ran, created, crashes>>

EngineReleased ==
    /\ dropped
    /\ engine' = NoProcess /\ dropped' = FALSE
    /\ UNCHANGED <<pc, step, lock, ledger, ran, created, crashes>>

--------------------------------------------------------------------------------
(* apply_migrations *)

\* A bug the runs must catch: a migration that only started is passed over.
Begun(m) == ledger[m] # "none"

Done(m) == ledger[m] = "APPLIED"

\* The row says APPLIED: on to the next one, or to the manifest after the last.
SkipApplied(p) ==
    /\ pc[p] = "reading" /\ step[p] \in Migrations /\ Done(step[p])
    /\ step' = [step EXCEPT ![p] = @ + 1]
    /\ UNCHANGED <<pc, lock, engine, dropped, ledger, ran, created, crashes>>

\* The row says STARTED: "previously STARTED but never finished; refusing writes".
RefuseInterrupted(p) ==
    /\ pc[p] = "reading" /\ step[p] \in Migrations /\ ledger[step[p]] = "STARTED"
    /\ Leave(p)
    /\ UNCHANGED <<step, engine, ledger, ran, created, crashes>>

StartMigration(p) ==
    /\ pc[p] = "reading" /\ step[p] \in Migrations /\ ledger[step[p]] = "none"
    /\ ledger' = [ledger EXCEPT ![step[p]] = "STARTED"]
    /\ Goto(p, "started")
    /\ UNCHANGED <<step, lock, engine, dropped, ran, created, crashes>>

\* The DDL is many statements in no transaction.
RunDdl(p) ==
    /\ pc[p] = "started"
    /\ ran' = [ran EXCEPT ![step[p]] = "all"]
    /\ Goto(p, "applied")
    /\ UNCHANGED <<step, lock, engine, dropped, ledger, created, crashes>>

BreakOff(p) ==
    /\ pc[p] = "started" /\ crashes < CrashBound
    /\ ran' = [ran EXCEPT ![step[p]] = "part"]
    /\ Leave(p)
    /\ crashes' = crashes + 1
    /\ UNCHANGED <<step, engine, ledger, created>>

FinishMigration(p) ==
    /\ pc[p] = "applied"
    /\ ledger' = [ledger EXCEPT ![step[p]] = "APPLIED"]
    /\ step' = [step EXCEPT ![p] = @ + 1]
    /\ Goto(p, "reading")
    /\ UNCHANGED <<lock, engine, dropped, ran, created, crashes>>

WriteManifest(p) ==
    /\ pc[p] = "reading" /\ step[p] = Last + 1
    /\ Goto(p, "migrated")
    /\ UNCHANGED <<step, lock, engine, dropped, ledger, ran, created, crashes>>

--------------------------------------------------------------------------------

\* Kernel::open: ensure_repository in one transaction, then the session's run.
EnsureRepository(p) ==
    /\ pc[p] = "migrated"
    /\ created' = TRUE
    /\ Goto(p, "open")
    /\ UNCHANGED <<step, lock, engine, dropped, ledger, ran, crashes>>

\* SfsCore::close, which only drops.
Close(p) ==
    /\ pc[p] = "open"
    /\ Leave(p)
    /\ UNCHANGED <<step, engine, ledger, ran, created, crashes>>

\* The process is killed; the system frees what it held.
Crash(p) ==
    /\ pc[p] # "closed" /\ crashes < CrashBound
    /\ Goto(p, "closed")
    /\ lock' = NoProcess
    /\ engine' = IF engine = p THEN NoProcess ELSE engine
    /\ dropped' = IF engine = p THEN FALSE ELSE dropped
    /\ crashes' = crashes + 1
    /\ UNCHANGED <<step, ledger, ran, created>>

Opens(p) ==
    \/ AcquireLock(p) \/ OpenEngine(p) \/ GiveUp(p)
    \/ SkipApplied(p) \/ RefuseInterrupted(p) \/ StartMigration(p)
    \/ RunDdl(p) \/ BreakOff(p) \/ FinishMigration(p) \/ WriteManifest(p)
    \/ EnsureRepository(p)

OpeningNext == EngineReleased \/ \E p \in Processes : Opens(p) \/ Close(p) \/ Crash(p)

OpeningSpec == OpeningInit /\ [][OpeningNext]_openingVars

--------------------------------------------------------------------------------
(* Properties *)

\* A process that uses the store is its only user - no other holds the lock, and no
\* engine but its own has the directory open, the last owner's included - and every
\* migration of the build has run to its end.
OwnedAndMigrated ==
    \A p \in Processes : pc[p] = "open" =>
        /\ \A q \in Processes : pc[q] = "open" => q = p
        /\ lock = p /\ engine = p /\ ~dropped
        /\ \A m \in Migrations : ran[m] = "all"
        /\ created
================================================================================
