------------------------------ MODULE Migrations ------------------------------
(***************************************************************************)
(* runMigrations, which internal-api, report-generate-batch and batch run  *)
(* at their start from the same source (migrate.go is the same file in the  *)
(* three directories) against one MySQL: the lock, the table of recorded   *)
(* versions, and for each file of migrations/ the transaction that applies *)
(* and records it.                                                         *)
(*                                                                         *)
(* A file with a CREATE or an ALTER commits implicitly, so that what it    *)
(* does stays although the record of it fails; the transaction only holds  *)
(* the others together with their record. A call to MySQL succeeds, fails  *)
(* without effect ("callError"), or takes effect and loses its reply.      *)
(***************************************************************************)
EXTENDS Integers, FiniteSets

CONSTANTS
    Services,         \* the processes that run migrations at their start
    NoService,        \* who holds the lock when nobody does
    N,                \* how many files migrations/ has, numbered in the order of their names
    Ddl,              \* the files that commit implicitly: 001, 002 and 004 of five
    Preloaded,        \* whether docker-entrypoint-initdb.d ran the files on a new volume
    LockAttempts,     \* migrationLockAttempts
    Disturbances,     \* the kinds of disturbance that can happen
    MaxDisturbances   \* how many happen at most

Versions == 1..N

ASSUME MigrationsAssumption ==
    /\ NoService \notin Services
    /\ N \in Nat
    /\ Ddl \subseteq Versions
    /\ Preloaded \in BOOLEAN
    /\ LockAttempts \in Nat \ {0}
    /\ Disturbances \subseteq {"callError", "replyLost", "crash"}
    /\ MaxDisturbances \in Nat

VARIABLES
    pc,         \* where each service stands
    tries,      \* which GET_LOCK a service is at
    at,         \* the version a service is at in its loop
    pending,    \* whether the open transaction of a service has run a file that is not DDL
    lock,       \* the service whose session holds app_schema_migrations
    recorded,   \* the rows of schema_migrations
    applied,    \* history: how often the effect of each file became durable
    disturbed   \* how many disturbances have happened

local == <<tries, at>>
database == <<recorded, applied>>
vars == <<pc, tries, at, pending, lock, recorded, applied, disturbed>>

ServiceStates ==
    {"down", "lock", "create", "check", "apply", "record", "commit", "release", "serving"}

Migrating == ServiceStates \ {"down", "serving"}

\* The states in which a service has seen GET_LOCK answer 1.
Locked == Migrating \ {"lock"}

TypeOK ==
    /\ pc \in [Services -> ServiceStates]
    /\ tries \in [Services -> 1..LockAttempts]
    /\ at \in [Services -> 1..(N + 1)]
    /\ pending \in [Services -> BOOLEAN]
    /\ lock \in Services \cup {NoService}
    /\ recorded \subseteq Versions
    /\ applied \in [Versions -> Nat]
    /\ disturbed \in 0..MaxDisturbances

\* The entrypoint of the mysql image runs the files and records none of them.
Init ==
    /\ pc = [s \in Services |-> "down"]
    /\ tries = [s \in Services |-> 1]
    /\ at = [s \in Services |-> 1]
    /\ pending = [s \in Services |-> FALSE]
    /\ lock = NoService
    /\ recorded = {}
    /\ applied = [v \in Versions |-> IF Preloaded THEN 1 ELSE 0]
    /\ disturbed = 0

-----------------------------------------------------------------------------

Disturb(kind) ==
    /\ kind \in Disturbances
    /\ disturbed < MaxDisturbances
    /\ disturbed' = disturbed + 1

Outcomes == {"ok", "callError", "replyLost"}

Outcome(o) == IF o = "ok" THEN UNCHANGED disturbed ELSE Disturb(o)

Goto(s, where) == pc' = [pc EXCEPT ![s] = where]

\* The session of s ends: MySQL rolls back and frees the lock.
EndSession(s, where) ==
    /\ Goto(s, where)
    /\ pending' = [pending EXCEPT ![s] = FALSE]
    /\ lock' = IF lock = s THEN NoService ELSE lock
    /\ tries' = [tries EXCEPT ![s] = 1]
    /\ at' = [at EXCEPT ![s] = 1]

\* runMigrations returns an error: the deferred release runs and main exits.
Exit(s) == EndSession(s, "down")

Apply(v) == applied' = [applied EXCEPT ![v] = @ + 1]

-----------------------------------------------------------------------------
\* The steps of runMigrations.

Start(s) ==
    /\ pc[s] = "down"
    /\ Goto(s, "lock")
    /\ UNCHANGED <<local, pending, lock, database, disturbed>>

\* Mutant: any answer of GET_LOCK is taken for the lock.
AcquireLockUnchecked(s) ==
    /\ pc[s] = "lock"
    /\ lock' = IF lock = NoService THEN s ELSE lock
    /\ Goto(s, "create")
    /\ UNCHANGED <<local, pending, database, disturbed>>

\* Mutant: GET_LOCK is retried until it succeeds.
AcquireLockForEver(s) ==
    /\ pc[s] = "lock"
    /\ IF lock = NoService
       THEN lock' = s /\ Goto(s, "create")
       ELSE UNCHANGED <<lock, pc>>
    /\ UNCHANGED <<local, pending, database, disturbed>>

\* Mutant: the bound of the loop is taken for included.
TriesLeftIncluded(s) == tries[s] <= LockAttempts

TriesLeft(s) == tries[s] < LockAttempts

\* One GET_LOCK of acquireMigrationLock: 1, 0 after two seconds, or an error.
AcquireLock(s) ==
    /\ pc[s] = "lock"
    /\ \/ /\ lock = NoService
          /\ lock' = s
          /\ Goto(s, "create")
          /\ UNCHANGED <<local, pending, disturbed>>
       \/ /\ lock # NoService
          /\ TriesLeft(s)
          /\ tries' = [tries EXCEPT ![s] = @ + 1]
          /\ UNCHANGED <<pc, at, pending, lock, disturbed>>
       \/ /\ lock # NoService /\ ~TriesLeft(s)
          /\ Exit(s)
          /\ UNCHANGED disturbed
       \/ /\ \E o \in {"callError", "replyLost"} : Disturb(o)
          /\ Exit(s)
    /\ UNCHANGED database

CreateTable(s) ==
    /\ pc[s] = "create"
    /\ \E o \in Outcomes :
        /\ Outcome(o)
        /\ IF o = "ok"
           THEN Goto(s, "check") /\ UNCHANGED <<local, pending, lock>>
           ELSE Exit(s)
    /\ UNCHANGED database

\* SELECT COUNT(*) for the version the loop is at, and the end of the loop.
CheckVersion(s) ==
    /\ pc[s] = "check"
    /\ \/ /\ at[s] = N + 1
          /\ Goto(s, "release")
          /\ UNCHANGED <<local, pending, lock, disturbed>>
       \/ /\ at[s] \in recorded
          /\ at' = [at EXCEPT ![s] = @ + 1]
          /\ UNCHANGED <<pc, tries, pending, lock, disturbed>>
       \/ /\ at[s] \in Versions \ recorded
          /\ Goto(s, "apply")
          /\ UNCHANGED <<local, pending, lock, disturbed>>
       \/ /\ at[s] \in Versions
          /\ Disturb("callError")
          /\ Exit(s)
    /\ UNCHANGED database

\* Mutant: a file that fails is logged and the loop goes on.
FileFailsAndGoOn(s) ==
    /\ Goto(s, "check")
    /\ at' = [at EXCEPT ![s] = @ + 1]
    /\ UNCHANGED <<tries, pending, lock>>

\* What has not committed is rolled back, and the loop ends.
FileFails(s) == Exit(s)

\* Mutant: the file is run outside of the transaction.
ApplyFileOutside(s) ==
    /\ pc[s] = "apply"
    /\ Apply(at[s])
    /\ Goto(s, "record")
    /\ UNCHANGED <<local, pending, lock, recorded, disturbed>>

\* BeginTx and the file's statements. 001 is the one DDL file whose repetition
\* shows, and its INSERT is its last statement: no effect comes from a part.
ApplyFile(s) ==
    /\ pc[s] = "apply"
    /\ \E o \in Outcomes :
        /\ Outcome(o)
        /\ IF at[s] \in Ddl /\ o # "callError" THEN Apply(at[s]) ELSE UNCHANGED applied
        /\ IF o = "ok"
           THEN /\ Goto(s, "record")
                /\ pending' = [pending EXCEPT ![s] = at[s] \notin Ddl]
                /\ UNCHANGED <<local, lock>>
           ELSE FileFails(s)
    /\ UNCHANGED recorded

\* The INSERT into schema_migrations. After DDL no transaction is open, so that
\* it commits by itself. A duplicate key sends the loop on to the next version.
RecordVersion(s) ==
    /\ pc[s] = "record"
    /\ \E o \in Outcomes :
        /\ Outcome(o)
        /\ IF o # "callError" /\ at[s] \in Ddl
           THEN recorded' = recorded \cup {at[s]}
           ELSE UNCHANGED recorded
        /\ CASE o # "ok" -> Exit(s)
             [] o = "ok" /\ at[s] \in recorded ->
                    /\ pending' = [pending EXCEPT ![s] = FALSE]
                    /\ at' = [at EXCEPT ![s] = @ + 1]
                    /\ Goto(s, "check")
                    /\ UNCHANGED <<tries, lock>>
             [] o = "ok" /\ at[s] \notin recorded ->
                    Goto(s, "commit") /\ UNCHANGED <<local, pending, lock>>
    /\ UNCHANGED applied

CommitVersion(s) ==
    /\ pc[s] = "commit"
    /\ \E o \in Outcomes :
        /\ Outcome(o)
        /\ IF pending[s] /\ o # "callError"
           THEN Apply(at[s]) /\ recorded' = recorded \cup {at[s]}
           ELSE UNCHANGED database
        /\ IF o = "ok"
           THEN /\ Goto(s, "check")
                /\ at' = [at EXCEPT ![s] = @ + 1]
                /\ pending' = [pending EXCEPT ![s] = FALSE]
                /\ UNCHANGED <<tries, lock>>
           ELSE Exit(s)

\* releaseMigrationLock only logs an error; conn.Close then gives the connection
\* back to the pool, with the lock when the session survived.
ReleaseLock(s) ==
    /\ pc[s] = "release"
    /\ \/ EndSession(s, "serving") /\ \E o \in Outcomes : Outcome(o)
       \/ /\ Disturb("callError")
          /\ Goto(s, "serving")
          /\ tries' = [tries EXCEPT ![s] = 1]
          /\ at' = [at EXCEPT ![s] = 1]
          /\ UNCHANGED <<pending, lock>>
    /\ UNCHANGED database

\* SetConnMaxLifetime closes the pooled connection after five minutes.
ExpireConnection(s) ==
    /\ pc[s] = "serving"
    /\ lock = s
    /\ lock' = NoService
    /\ UNCHANGED <<pc, local, pending, database, disturbed>>

\* batch has done its work, or a container is stopped to start again.
Stop(s) ==
    /\ pc[s] = "serving"
    /\ Exit(s)
    /\ UNCHANGED <<database, disturbed>>

Crash(s) ==
    /\ pc[s] \in Migrating
    /\ Disturb("crash")
    /\ Exit(s)
    /\ UNCHANGED database

-----------------------------------------------------------------------------

\* runMigrations, which internal-api, the worker and the batch have each in a copy
\* of the same migrate.go.
Migrate(s) ==
    \/ AcquireLock(s) \/ CreateTable(s) \/ CheckVersion(s)
    \/ ApplyFile(s) \/ RecordVersion(s) \/ CommitVersion(s) \/ ReleaseLock(s)

Next ==
    \E s \in Services :
        Migrate(s) \/ Start(s) \/ ExpireConnection(s) \/ Stop(s) \/ Crash(s)

Spec == Init /\ [][Next]_vars

\* A started process runs, and MySQL answers or times out.
FairSpec == Spec /\ \A s \in Services : WF_vars(Migrate(s))

-----------------------------------------------------------------------------
\* Properties.

\* The record is always an initial part of the sorted list of files: no version
\* is recorded over a gap, although services die anywhere and start in any order.
RecordedInOrder == \A v \in recorded : 1..v \subseteq recorded

\* A service only serves a schema all of whose versions are recorded and applied.
ServesMigrated ==
    \A s \in Services :
        pc[s] = "serving" => recorded = Versions /\ \A v \in Versions : applied[v] > 0

\* The lock makes the two duplicate-key branches of runMigrations dead code: no
\* service applies or records a version that another one has recorded.
NeverRecordedTwice ==
    \A s \in Services : pc[s] \in {"apply", "record"} => at[s] \notin recorded

\* A file without DDL takes effect exactly when it is recorded, and once,
\* wherever a service dies or loses a reply.
AtomicWithoutDdl ==
    \A v \in Versions \ Ddl :
        applied[v] = (IF Preloaded THEN 1 ELSE 0) + (IF v \in recorded THEN 1 ELSE 0)

\* A file with DDL is applied again only after a disturbance, and each
\* disturbance causes one repetition at most.
RepeatedOnlyAfterDisturbance ==
    \A v \in Ddl : applied[v] <= (IF Preloaded THEN 2 ELSE 1) + disturbed

\* A service that starts either serves or exits, however often the others take
\* the lock before it.
StartEnds == \A s \in Services : pc[s] \in Migrating ~> pc[s] \in {"serving", "down"}

\* The version that the rows of schema_migrations stand for.
Version == CHOOSE n \in 0..N : recorded = 1..n

Schema ==
    INSTANCE SchemaVersions
    WITH version <- Version, serving <- {s \in Services : pc[s] = "serving"}

\* However many services start, fail and die together, the schema goes through its
\* versions as if one hand ran the files, and who serves has the last one.
KeepsSchema == Schema!SchemaSpec

\* README.md:295: the files of migrations/ that are not applied yet are applied
\* at the start of the services, as schema_migrations manages; so none is twice.
AppliedOnce == \A v \in Versions : applied[v] <= 1
=============================================================================
