----------------------------- MODULE Migrations -----------------------------
(***************************************************************************)
(* Schema migrations (ai_governance/migrations.py), run whenever a         *)
(* GovernanceDB is opened: several processes (the service, the command     *)
(* line, a test runner) open one file, any of them killed anywhere.        *)
(*                                                                         *)
(* The driver puts no transaction round a CREATE: each statement is on     *)
(* disk when it returns.  The INSERT of a version opens one, and with it   *)
(* takes the write lock until the commit.                                  *)
(***************************************************************************)
EXTENDS Integers, FiniteSets, Sequences

CONSTANTS
    Process,
    Statements,     \* how many tables and indexes each migration creates: a sequence
    MaxKills        \* bound

MigrationsAssumption == Process \subseteq Nat \ {0} /\ Statements \in Seq(Nat \ {0})

Version      == DOMAIN Statements
SchemaObject == UNION {{v} \X (1 .. Statements[v]) : v \in Version}

VARIABLES
    created,    \* the tables and indexes on disk
    recorded,   \* the committed rows of schema_migrations
    writer,     \* the process whose transaction is open, or Nobody
    place,      \* of each process: "closed", "choose", "up", "record", "commit", "open"
    applied,    \* the versions it has read as applied, or applied itself
    current,    \* the migration it is at
    statement,  \* and the next statement of it
    kills

migrationVars == <<created, recorded, writer, place, applied, current, statement, kills>>

Nobody == 0

MigrationsInit ==
    /\ created = {} /\ recorded = {} /\ writer = Nobody /\ kills = 0
    /\ place = [p \in Process |-> "closed"] /\ applied = [p \in Process |-> {}]
    /\ current = [p \in Process |-> 0] /\ statement = [p \in Process |-> 0]

Goto(p, where) == place' = [place EXCEPT ![p] = where]
-----------------------------------------------------------------------------
\* The bootstrap script waits for the write lock; what is recorded is read once.
ReadApplied(p) ==
    /\ place[p] = "closed" /\ writer = Nobody
    /\ applied' = [applied EXCEPT ![p] = recorded]
    /\ Goto(p, "choose")
    /\ UNCHANGED <<created, recorded, writer, current, statement, kills>>

Pending(p) == Version \ applied[p]

Choose(p) ==
    /\ place[p] = "choose"
    /\ IF Pending(p) = {} THEN Goto(p, "open") /\ UNCHANGED <<current, statement>>
       ELSE /\ Goto(p, "up")
            /\ current' = [current EXCEPT ![p] = CHOOSE v \in Pending(p) : \A w \in Pending(p) : v <= w]
            /\ statement' = [statement EXCEPT ![p] = 1]
    /\ UNCHANGED <<created, recorded, writer, applied, kills>>

\* CREATE ... IF NOT EXISTS: the first migration creates the tables the others index.
Up(p) ==
    /\ place[p] = "up" /\ writer = Nobody
    /\ created' = created \union {<<current[p], statement[p]>>}
    /\ IF statement[p] < Statements[current[p]]
       THEN statement' = [statement EXCEPT ![p] = @ + 1] /\ UNCHANGED place
       ELSE Goto(p, "record") /\ UNCHANGED statement
    /\ UNCHANGED <<recorded, writer, applied, current, kills>>

\* Wrong version: a migration may be recorded before it has run to its end.
RecordEarly(p) ==
    /\ place[p] \in {"up", "record"} /\ writer = Nobody /\ current[p] \notin recorded
    /\ writer' = p
    /\ Goto(p, "commit")
    /\ UNCHANGED <<created, recorded, applied, current, statement, kills>>

\* The INSERT, which takes the lock, unless the version is recorded already.
RecordVersion(p) ==
    /\ place[p] = "record" /\ writer = Nobody /\ current[p] \notin recorded
    /\ writer' = p
    /\ Goto(p, "commit")
    /\ UNCHANGED <<created, recorded, applied, current, statement, kills>>

Commit(p) ==
    /\ place[p] = "commit"
    /\ recorded' = recorded \union {current[p]}
    /\ applied' = [applied EXCEPT ![p] = @ \union {current[p]}]
    /\ writer' = Nobody
    /\ Goto(p, "choose")
    /\ UNCHANGED <<created, current, statement, kills>>

\* The version is recorded by another process since, or the lock is not free for the
\* length of the timeout: the statement raises, and opening the database fails.
Raise(p) ==
    /\ place[p] \in {"up", "record"}
    /\ writer # Nobody \/ (place[p] = "record" /\ current[p] \in recorded)
    /\ Goto(p, "closed")
    /\ UNCHANGED <<created, recorded, writer, applied, current, statement, kills>>

\* What is not committed is gone; the process may come back.
Kill(p) ==
    /\ place[p] # "closed" /\ kills < MaxKills
    /\ kills' = kills + 1
    /\ writer' = IF writer = p THEN Nobody ELSE writer
    /\ Goto(p, "closed")
    /\ UNCHANGED <<created, recorded, applied, current, statement>>

MigrationsNext ==
    \E p \in Process :
        \/ ReadApplied(p) \/ Choose(p) \/ Up(p) \/ RecordVersion(p) \/ Commit(p)
        \/ Raise(p) \/ Kill(p)

MigrationsSpec == MigrationsInit /\ [][MigrationsNext]_migrationVars
-----------------------------------------------------------------------------
\* What is recorded is there, and a database that opens is complete, whoever was killed
\* or failed in the middle of a migration, and whoever migrates beside it.
RecordedIsApplied ==
    /\ \A o \in SchemaObject : o[1] \in recorded => o \in created
    /\ \A p \in Process : place[p] = "open" => SchemaObject \subseteq created /\ recorded = Version
=============================================================================
