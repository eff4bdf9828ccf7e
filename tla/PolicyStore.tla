----------------------------- MODULE PolicyStore -----------------------------
(***************************************************************************)
(* The versions of one agent's governance policy                           *)
(* (ai_governance/policy_store.py) under the API's request handlers, which *)
(* FastAPI runs in a pool of threads.  Every request builds a PolicyStore  *)
(* of its own, hence a lock of its own: nothing orders the statements of   *)
(* two requests, nor those of a request and of GovernanceDB's own          *)
(* transactions, which take GovernanceDB's lock.                           *)
(***************************************************************************)
EXTENDS SqliteConnection, Naturals, FiniteSets

CONSTANTS
    Policy,       \* the policy ids that may ever be drawn (bounds the run)
    Request       \* the handlers that may run at the same time

Row   == {"absent", "inactive", "active"}
Stage == {"idle", "open", "select", "deactivate", "activate", "commit"}

CONSTANT NoPolicy
ASSUME NoPolicyIsNone == NoPolicy \notin Policy

VARIABLES
    statement,    \* the next statement of each request
    op,           \* "commit" or "rollback_to", and the policy id it is about
    latest,       \* history: the policy the last request to succeed made active
    saved,        \* history: the policies whose commit succeeded
    alone,        \* history: every request so far had the connection to itself
    smooth        \* history: no statement has raised, no process was killed

policyVars == <<connection, statement, op, latest, saved, alone, smooth>>

NoOp == [name |-> "none", policy |-> NoPolicy]

Active(tables) == {p \in Policy : tables[p] = "active"}
Stored(tables) == {p \in Policy : tables[p] # "absent"}

Deactivated(tables) ==
    [p \in Policy |-> IF tables[p] = "active" THEN "inactive" ELSE tables[p]]

PolicyInit ==
    /\ durable = [p \in Policy |-> "absent"]
    /\ working = durable
    /\ statement = [r \in Request |-> "idle"]
    /\ op = [r \in Request |-> NoOp]
    /\ latest = NoPolicy
    /\ saved = {}
    /\ alone = TRUE
    /\ smooth = TRUE

AllIdle == \A r \in Request : statement[r] = "idle"

GoTo(r, s) == statement' = [statement EXCEPT ![r] = s]

Finish(r) ==
    /\ GoTo(r, "idle")
    /\ op' = [op EXCEPT ![r] = NoOp]
-----------------------------------------------------------------------------
(***************************************************************************)
(* A request arrives: POST /admin/policy/commit draws a fresh uuid, POST   *)
(* /admin/policy/{id}/rollback names any id, stored or not.                *)
(***************************************************************************)
Arrive(r) ==
    /\ statement[r] = "idle"
    /\ GoTo(r, "open")
    /\ \E p \in Policy :
         \/ /\ p \notin Stored(working) \cup saved
            /\ \A q \in Request : op[q].name = "commit" => op[q].policy # p
            /\ op' = [op EXCEPT ![r] = [name |-> "commit", policy |-> p]]
         \/ op' = [op EXCEPT ![r] = [name |-> "rollback_to", policy |-> p]]
    /\ alone' = (alone /\ AllIdle)
    /\ UNCHANGED <<connection, latest, saved, smooth>>

(***************************************************************************)
(* PolicyStore(db): _ensure_table creates the table if need be and commits *)
(* the connection, whoever wrote to it.                                    *)
(***************************************************************************)
EnsureTable(r) ==
    /\ statement[r] = "open"
    /\ Commit
    /\ GoTo(r, IF op[r].name = "commit" THEN "deactivate" ELSE "select")
    /\ UNCHANGED <<op, latest, saved, alone, smooth>>

SelectUnchecked(r) ==             \* wrong version: the None check is missing
    /\ statement[r] = "select"
    /\ GoTo(r, "deactivate")
    /\ UNCHANGED <<connection, op, latest, saved, alone, smooth>>

\* rollback_to of an unknown id returns None; leaving the with block commits.
Select(r) ==
    /\ statement[r] = "select"
    /\ IF op[r].policy \in Stored(working)
       THEN GoTo(r, "deactivate") /\ UNCHANGED <<connection, op>>
       ELSE Commit /\ Finish(r)
    /\ UNCHANGED <<latest, saved, alone, smooth>>

\* UPDATE policy_versions SET is_active=0 WHERE agent_id=?
DeactivateNone(r) ==                  \* wrong version: the UPDATE is missing
    /\ statement[r] = "deactivate"
    /\ GoTo(r, "activate")
    /\ UNCHANGED <<connection, op, latest, saved, alone, smooth>>

Deactivate(r) ==
    /\ statement[r] = "deactivate"
    /\ Write(Deactivated(working))
    /\ GoTo(r, "activate")
    /\ UNCHANGED <<op, latest, saved, alone, smooth>>

\* INSERT of the new version, or UPDATE ... SET is_active=1 WHERE policy_id=?,
\* which changes no row when the row is not there any more.
Activate(r) ==
    /\ statement[r] = "activate"
    /\ LET p == op[r].policy
       IN  Write(IF op[r].name = "commit" \/ p \in Stored(working)
                 THEN [working EXCEPT ![p] = "active"] ELSE working)
    /\ GoTo(r, "commit")
    /\ UNCHANGED <<op, latest, saved, alone, smooth>>

CommitForgotten(r) ==                      \* wrong version: nobody commits
    /\ statement[r] = "commit"
    /\ UNCHANGED connection
    /\ latest' = op[r].policy
    /\ saved'  = IF op[r].name = "commit" THEN saved \cup {op[r].policy} ELSE saved
    /\ Finish(r)
    /\ UNCHANGED <<alone, smooth>>

\* Leaving the with block without an exception: the connection commits.
CommitRequest(r) ==
    /\ statement[r] = "commit"
    /\ Commit
    /\ latest' = op[r].policy
    /\ saved'  = IF op[r].name = "commit" THEN saved \cup {op[r].policy} ELSE saved
    /\ Finish(r)
    /\ UNCHANGED <<alone, smooth>>

\* A statement raises: the with block rolls the connection back and the request
\* fails with status 500.
StatementFails(r) ==
    /\ statement[r] # "idle"
    /\ Rollback
    /\ Finish(r)
    /\ smooth' = FALSE
    /\ UNCHANGED <<latest, saved, alone>>

(***************************************************************************)
(* GovernanceDB._tx of another table: it commits, or rolls back, the       *)
(* connection.  Its own rows are not modelled.                             *)
(***************************************************************************)
OtherCommit ==
    /\ Commit
    /\ alone' = (alone /\ AllIdle)
    /\ UNCHANGED <<statement, op, latest, saved, smooth>>

OtherRollback ==
    /\ Rollback
    /\ alone' = (alone /\ AllIdle)
    /\ smooth' = FALSE
    /\ UNCHANGED <<statement, op, latest, saved>>

\* The process is killed and restarted: what was not committed is gone.
ProcessRestarts ==
    /\ Rollback
    /\ smooth' = FALSE
    /\ statement' = [r \in Request |-> "idle"]
    /\ op' = [r \in Request |-> NoOp]
    /\ UNCHANGED <<latest, saved, alone>>

PolicyNext ==
    \/ \E r \in Request :
         \/ Arrive(r)
         \/ EnsureTable(r)
         \/ Select(r)
         \/ Deactivate(r)
         \/ Activate(r)
         \/ CommitRequest(r)
         \/ StatementFails(r)
    \/ OtherCommit
    \/ OtherRollback
    \/ ProcessRestarts

PolicySpec == PolicyInit /\ [][PolicyNext]_policyVars
-----------------------------------------------------------------------------
\* Type invariant: what the table, the requests and the history may hold; a request
\* has an operation exactly while it is under way.
PolicyTypeOK ==
    /\ durable \in [Policy -> Row]
    /\ working \in [Policy -> Row]
    /\ statement \in [Request -> Stage]
    /\ op \in [Request -> [name : {"none", "commit", "rollback_to"},
                           policy : Policy \cup {NoPolicy}]]
    /\ \A r \in Request : (statement[r] = "idle") = (op[r].name = "none")
    /\ \A r \in Request : op[r].name # "none" => op[r].policy \in Policy
    /\ latest \in Policy \cup {NoPolicy}
    /\ saved \subseteq Policy
    /\ alone \in BOOLEAN
    /\ smooth \in BOOLEAN

\* PolicyStore: "The active version is the one most recently committed."  Whenever
\* no request is under way the one active version on disk is the one the last
\* commit or rollback_to made active.
ActiveIsLatest ==
    AllIdle => Active(durable) = (IF latest = NoPolicy THEN {} ELSE {latest})

\* The same, as long as requests came one at a time and nobody else ended a
\* transaction of theirs: whatever failed or crashed in between.
LatestActiveWhenAlone == alone => ActiveIsLatest

\* "The active version": there is at most one on disk (which two requests at the
\* same time break).
ActiveIsUnique == Cardinality(Active(durable)) <= 1

\* However the statements of requests interleave, an agent that has versions is left
\* with an active one: a request that deactivated them all always activates one,
\* unless something failed.
SomeVersionStaysActive ==
    smooth /\ AllIdle /\ Stored(durable) # {} => Active(durable) # {}

\* PolicyStore: "Each config change is saved as a new PolicyVersion. ... Previous
\* versions are retained for audit and rollback."  What a commit reported as saved
\* is on disk ever after, if nothing failed or nobody interfered so far.
VersionsRetained == smooth \/ alone => saved \subseteq Stored(durable)

\* A version that reached the disk stays there, whoever commits or rolls back the
\* connection and whenever the process is killed: no request undoes another's.
NeverErased == [][Stored(durable) \subseteq Stored(durable')]_policyVars
=============================================================================
