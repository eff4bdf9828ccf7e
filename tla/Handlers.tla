------------------------------ MODULE Handlers ------------------------------
(***************************************************************************)
(* The request handlers of the API that change the tables                  *)
(* (ai_governance/api.py, ingestion.py, retention.py) or judge them        *)
(* (readiness.py).  Each works in transactions of its own and appends to   *)
(* the audit trail in a last one, so other threads, and the process that   *)
(* is killed or finds the database locked, come between any two of them.   *)
(***************************************************************************)
EXTENDS Integers, FiniteSets, Sequences

CONSTANTS
    Client,       \* the request threads, numbered
    CategoryOf,   \* the events clients may send, and the category of each
    Alert, Rollback,
    Snapshot,     \* the metric snapshots, taken before
    Old,          \* the events, alerts and snapshots beyond every retention period
    Batches,      \* the batches clients may send, as sequences of events
    Thresholds,   \* the categories with a drift threshold of their own
    Required,     \* the categories a readiness check asks for
    Needed,       \* min_baseline_events
    MaxRequests   \* bound: the requests ever made

Event     == DOMAIN CategoryOf
Category  == {CategoryOf[e] : e \in Event}

\* A batch of no events changes nothing.
HandlersAssumption ==
    /\ Event \cap Alert = {} /\ Event \cap Snapshot = {} /\ Alert \cap Snapshot = {}
    /\ Batches \subseteq Seq(Event) \ {<<>>}
    /\ IsFiniteSet(Thresholds) /\ IsFiniteSet(Required)

VARIABLES
    stored,       \* the decisions, alerts and metric snapshots on disk
    acknowledged, \* the alerts acknowledged
    fired,        \* the rollbacks on record
    settled,      \* those resolved
    intact,       \* the audit chain verifies
    request,      \* each client's request: what it does, has to do, has done and found
    made,         \* the number of requests made
    trail,        \* what the audit trail says happened
    deleted,      \* history: what a purge or a retention run removed
    silent,       \* history: what happened in a batch or in a request that failed
    held,         \* history: the conditions that held at some time since a check began
    missed        \* history: those that did not at some time since

tables      == <<stored, acknowledged, fired, settled>>
handlerVars == <<tables, intact, request, made, trail, deleted, silent, held, missed>>

Idle == [does |-> "nothing", todo |-> <<>>, done |-> {}, blockers |-> {}]

HandlersInit ==
    /\ stored = Snapshot /\ acknowledged = {}
    /\ fired = {} /\ settled = {} /\ intact = TRUE
    /\ request = [c \in Client |-> Idle]
    /\ made = 0 /\ trail = {} /\ deleted = {} /\ silent = {}
    /\ held = [c \in Client |-> {}] /\ missed = [c \in Client |-> {}]

Free(c)       == request[c] = Idle
Becomes(c, r) == request' = [request EXCEPT ![c] = r]

\* The threads are alike: the first that is free takes a request.
Arrives(c) ==
    /\ Free(c) /\ \A d \in 1 .. c - 1 : ~Free(d)
    /\ made < MaxRequests /\ made' = made + 1

\* A request whose work is done and whose audit entry is to come.
Audit(c, effects) == Becomes(c, [Idle EXCEPT !.does = "audit", !.done = effects])

Count(k) == Cardinality({e \in Event \cap stored : CategoryOf[e] = k})
Open     == fired \ settled
-----------------------------------------------------------------------------
\* The client chooses the id, so a retry meets the row of the first try.
IngestEvent(c, e) ==
    /\ Arrives(c)
    /\ stored' = stored \union {e}
    /\ Audit(c, {<<"stored", e>>})
    /\ UNCHANGED <<acknowledged, fired, settled, intact, trail, deleted, silent>>

\* The id is a fresh one.
IngestStructured(c, e) ==
    /\ Arrives(c) /\ e \notin stored \union deleted
    /\ stored' = stored \union {e}
    /\ Audit(c, {<<"stored", e>>})
    /\ UNCHANGED <<acknowledged, fired, settled, intact, trail, deleted, silent>>

\* A batch stores event after event and audits none.
BeginBatch(c, events) ==
    /\ Arrives(c)
    /\ Becomes(c, [Idle EXCEPT !.does = "batch", !.todo = events])
    /\ UNCHANGED <<tables, intact, trail, deleted, silent>>

IngestNext(c) ==
    /\ request[c].does = "batch"
    /\ LET e    == Head(request[c].todo)
           rest == Tail(request[c].todo)
       IN /\ stored' = stored \union {e}
          /\ silent' = silent \union {<<"stored", e>>}
          /\ Becomes(c, IF rest = <<>> THEN Idle ELSE [request[c] EXCEPT !.todo = rest])
    /\ UNCHANGED <<made, acknowledged, fired, settled, intact, trail, deleted>>

\* An invalid event answers 422 for the whole batch; the events before it stay.
RefuseBatch(c) ==
    /\ request[c].does = "batch"
    /\ Becomes(c, Idle)
    /\ UNCHANGED <<made, tables, intact, trail, deleted, silent>>

AcknowledgeAlert(c, a) ==
    /\ Arrives(c) /\ a \in stored
    /\ acknowledged' = acknowledged \union {a}
    /\ Audit(c, {<<"acknowledged", a>>})
    /\ UNCHANGED <<stored, fired, settled, intact, trail, deleted, silent>>

\* Wrong version: a rollback that is not found is not answered 404.
ResolveUnfound(c, r) ==
    /\ Arrives(c)
    /\ settled' = settled \union ({r} \cap Open)
    /\ Audit(c, {<<"resolved", r>>})
    /\ UNCHANGED <<stored, acknowledged, fired, intact, trail, deleted, silent>>

ResolveRollback(c, r) ==
    /\ Arrives(c) /\ r \in Open
    /\ settled' = settled \union {r}
    /\ Audit(c, {<<"resolved", r>>})
    /\ UNCHANGED <<stored, acknowledged, fired, intact, trail, deleted, silent>>

ResolveAllRollbacks(c) ==
    /\ Arrives(c) /\ Open # {}
    /\ settled' = settled \union Open
    /\ Audit(c, {<<"resolved", r>> : r \in Open})
    /\ UNCHANGED <<stored, acknowledged, fired, intact, trail, deleted, silent>>
-----------------------------------------------------------------------------
(***************************************************************************)
(* Purge and retention: the same three deletions in two orders, each a     *)
(* transaction, and an audit entry if they removed anything.               *)
(***************************************************************************)
PurgeOrder     == <<"decisions", "snapshots", "alerts">>
RetentionOrder == <<"decisions", "alerts", "snapshots">>

Removable(table) == CASE table = "decisions" -> stored \cap Event \cap Old
                      [] table = "snapshots" -> stored \cap Snapshot \cap Old
                      [] table = "alerts"    -> stored \cap acknowledged \cap Old

BeginPurge(c) ==
    /\ Arrives(c)
    /\ Becomes(c, [Idle EXCEPT !.does = "delete", !.todo = PurgeOrder])
    /\ UNCHANGED <<tables, intact, trail, deleted, silent>>

BeginRetention(c) ==
    /\ Arrives(c)
    /\ Becomes(c, [Idle EXCEPT !.does = "delete", !.todo = RetentionOrder])
    /\ UNCHANGED <<tables, intact, trail, deleted, silent>>

DeleteNext(c) ==
    /\ request[c].does = "delete"
    /\ LET gone == Removable(Head(request[c].todo))
           rest == Tail(request[c].todo)
           done == request[c].done \union {<<"deleted", x>> : x \in gone}
       IN /\ stored' = stored \ gone /\ acknowledged' = acknowledged \ gone
          /\ deleted' = deleted \union gone
          /\ IF rest # <<>> THEN Becomes(c, [request[c] EXCEPT !.todo = rest, !.done = done])
             ELSE IF done = {} THEN Becomes(c, Idle)
             ELSE Audit(c, done)
    /\ UNCHANGED <<made, fired, settled, intact, trail, silent>>
-----------------------------------------------------------------------------
(***************************************************************************)
(* The readiness check reads one thing after the other: of every category  *)
(* with a threshold the number of events, the open rollbacks, the audit    *)
(* chain, and of every required category the number of events.  What it    *)
(* reads of the configuration does not change.  A missing baseline is a    *)
(* warning and no blocker, so an agent without one may be ready.           *)
(***************************************************************************)
Condition == {<<"enough", k>> : k \in Thresholds} \union {<<"present", k>> : k \in Required}
             \union {<<"safe">>, <<"chain">>}

Holds(q) == CASE q[1] = "enough"  -> Count(q[2]) >= Needed
              [] q[1] = "present" -> Count(q[2]) > 0
              [] q[1] = "safe"    -> Open = {}
              [] q[1] = "chain"   -> intact

ReadOrder ==
    LET Ordered(S) == CHOOSE s \in [1 .. Cardinality(S) -> S] :
                          \A i, j \in DOMAIN s : i # j => s[i] # s[j]
    IN Ordered({<<"enough", k>> : k \in Thresholds}) \o <<<<"safe">>, <<"chain">>>>
           \o Ordered({<<"present", k>> : k \in Required})

BeginCheck(c) ==
    /\ Arrives(c)
    /\ Becomes(c, [Idle EXCEPT !.does = "check", !.todo = ReadOrder])
    /\ UNCHANGED <<tables, intact, trail, deleted, silent>>

\* Wrong version: one event more than needed is asked for.
BlocksAtNeeded(q) == IF q[1] = "enough" THEN Count(q[2]) <= Needed ELSE ~Holds(q)

Blocks(q) == ~Holds(q)

CheckNext(c) ==
    /\ request[c].does = "check"
    /\ LET q    == Head(request[c].todo)
           rest == Tail(request[c].todo)
       IN Becomes(c, [request[c] EXCEPT
              !.does = IF rest = <<>> THEN "report" ELSE "check", !.todo = rest,
              !.blockers = IF Blocks(q) THEN @ \union {q} ELSE @])
    /\ UNCHANGED <<made, tables, intact, trail, deleted, silent>>
-----------------------------------------------------------------------------
\* The last transaction of a handler, and its answer.
Record(c) ==
    /\ request[c].does \in {"audit", "report"}
    /\ trail' = trail \union request[c].done
    /\ Becomes(c, Idle)
    /\ UNCHANGED <<made, tables, intact, deleted, silent>>

\* The database is locked, or the process is killed: what was done stays done.
Fail(c) ==
    /\ ~Free(c)
    /\ silent' = silent \union request[c].done
    /\ Becomes(c, Idle)
    /\ UNCHANGED <<made, tables, intact, trail, deleted>>

\* What others write meanwhile: detection, the accuracy guard, and a second
\* process that appends to the trail at the same time.
Write(x) ==
    /\ x \in Alert \ (stored \union deleted)
    /\ stored' = stored \union {x}
    /\ UNCHANGED <<made, acknowledged, fired, settled, intact, request,
                   trail, deleted, silent>>

FireRollback(r) ==
    /\ r \notin fired
    /\ fired' = fired \union {r}
    /\ UNCHANGED <<made, stored, acknowledged, settled, intact, request,
                   trail, deleted, silent>>

ForkChain ==
    /\ intact /\ intact' = FALSE
    /\ UNCHANGED <<made, tables, request, trail, deleted, silent>>

HandlerStep(c) ==
    \/ \E e \in Event : IngestEvent(c, e) \/ IngestStructured(c, e)
    \/ \E events \in Batches : BeginBatch(c, events)
    \/ \E a \in Alert : AcknowledgeAlert(c, a)
    \/ \E r \in Rollback : ResolveRollback(c, r)
    \/ IngestNext(c) \/ RefuseBatch(c) \/ ResolveAllRollbacks(c)
    \/ BeginPurge(c) \/ BeginRetention(c) \/ DeleteNext(c)
    \/ BeginCheck(c) \/ CheckNext(c) \/ Record(c) \/ Fail(c)

OtherStep == \/ \E x \in Alert : Write(x)
             \/ \E r \in Rollback : FireRollback(r)
             \/ ForkChain

\* The conditions as every state from the first read of a check to the last has them.
Watching(c) == request'[c].does = "check"
Watch ==
    /\ held'   = [c \in Client |-> IF Watching(c) THEN held[c] \union {q \in Condition : Holds(q)'}
                                   ELSE IF request'[c].does = "report" THEN held[c] ELSE {}]
    /\ missed' = [c \in Client |-> IF Watching(c) THEN missed[c] \union {q \in Condition : ~Holds(q)'}
                                   ELSE IF request'[c].does = "report" THEN missed[c] ELSE {}]

HandlersNext == (OtherStep \/ \E c \in Client : HandlerStep(c)) /\ Watch

HandlersSpec == HandlersInit /\ [][HandlersNext]_handlerVars
-----------------------------------------------------------------------------
Happened(x) == CASE x[1] = "stored"       -> x[2] \in stored \union deleted
                 [] x[1] = "deleted"      -> x[2] \in deleted
                 [] x[1] = "acknowledged" -> x[2] \in acknowledged \union deleted
                 [] x[1] = "resolved"     -> x[2] \in settled

\* The trail and the tables agree: the trail tells of nothing that did not happen, and
\* of what happened it leaves out only what a batch did, what a request is about to
\* audit and what a request did that failed halfway.  An alert that nobody
\* acknowledged is never removed.
TrailIsTrue ==
    /\ \A x \in trail : Happened(x)
    /\ \A x \in ({"stored"} \X (stored \cap Event)) \union ({"deleted"} \X deleted)
                \union ({"acknowledged"} \X acknowledged) \union ({"resolved"} \X settled) :
           x \in trail \union silent \union UNION {request[c].done : c \in Client}
    /\ \A a \in Alert \cap deleted :
           <<"acknowledged", a>> \in trail \union silent \union UNION {request[c].done : c \in Client}

\* A check that reports an agent ready saw nothing that was wrong all the time it ran:
\* each condition held at some moment of it.  One that reports blockers names only
\* conditions that failed at some moment.
VerdictIsFounded ==
    \A c \in Client : request[c].does = "report" =>
        /\ Condition \ request[c].blockers \subseteq held[c]
        /\ request[c].blockers \subseteq missed[c]
=============================================================================
