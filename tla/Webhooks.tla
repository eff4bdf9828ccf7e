------------------------------ MODULE Webhooks ------------------------------
(***************************************************************************)
(* Asynchronous delivery of alerts by WebhookDispatcher                    *)
(* (ai_governance/webhooks.py): callers put payloads on a bounded queue,   *)
(* worker threads take them off and POST them to every registered target   *)
(* that wants their severity, with retries; shutdown puts one sentinel per *)
(* worker behind what is queued and joins the workers with a timeout.      *)
(***************************************************************************)
EXTENDS Naturals, Sequences, FiniteSets

CONSTANTS
    Payload,      \* the payloads callers offer
    Worker,       \* the worker threads
    QueueSize,    \* queue_size
    MaxTargets,   \* bound on the targets ever registered
    MaxRetries,   \* max_retries of every target
    Wanted,       \* the <<payload, target>> pairs the severity filters let pass
    Unsendable    \* payloads json.dumps raises on

ASSUME WebhookAssumption ==
    /\ IsFiniteSet(Worker)
    /\ QueueSize \in Nat \ {0}
    /\ MaxTargets \in Nat
    /\ MaxRetries \in Nat \ {0}
    /\ Wanted \subseteq Payload \X (1 .. MaxTargets)
    /\ Unsendable \subseteq Payload

CONSTANTS Stop, NoPayload
ASSUME SentinelsAreNoPayloads == Stop \notin Payload /\ NoPayload \notin Payload \cup {Stop}

Target == 1 .. MaxTargets

VARIABLES
    targets,    \* len(_targets): targets 1 .. targets are registered
    queue,      \* _queue
    dropped,    \* _dropped
    fate,       \* what dispatch_async said of each payload, and whether it is done
    early,      \* history: the payloads accepted before shutdown was called
    held,       \* the payload each worker is dispatching
    running,    \* the workers whose loop has not ended
    pos,        \* the target each worker's dispatch loop is at
    attempt,    \* the attempt _send_with_retry is making
    results,    \* [Payload \X Target -> Seq]: the deliveries logged of each pair
    closing,    \* where shutdown is: "no", "signal", "join" or "over"
    unsignalled \* workers shutdown has still to put a sentinel for

workerVars == <<held, running, pos, attempt>>
closeVars  == <<closing, unsignalled>>
vars == <<targets, queue, dropped, fate, early, workerVars, results, closeVars>>

Init ==
    /\ targets = 0
    /\ queue = <<>>
    /\ dropped = 0
    /\ fate = [p \in Payload |-> "new"]
    /\ early = {}
    /\ held = [w \in Worker |-> NoPayload]
    /\ running = Worker
    /\ pos = [w \in Worker |-> 1]
    /\ attempt = [w \in Worker |-> 1]
    /\ results = [d \in Payload \X Target |-> <<>>]
    /\ closing = "no"
    /\ unsignalled = 0
-----------------------------------------------------------------------------
AddTarget ==
    /\ targets < MaxTargets
    /\ targets' = targets + 1
    /\ UNCHANGED <<queue, dropped, fate, early, workerVars, results, closeVars>>

Full == Len(queue) >= QueueSize

\* dispatch_async: put_nowait, or count a drop when the queue is full.
DispatchAsync(p) ==
    /\ fate[p] = "new"
    /\ IF Full
       THEN /\ fate' = [fate EXCEPT ![p] = "refused"]
            /\ dropped' = dropped + 1
            /\ UNCHANGED <<queue, early>>
       ELSE /\ fate' = [fate EXCEPT ![p] = "accepted"]
            /\ queue' = Append(queue, p)
            /\ early' = IF closing = "no" THEN early \cup {p} ELSE early
            /\ UNCHANGED dropped
    /\ UNCHANGED <<targets, workerVars, results, closeVars>>
-----------------------------------------------------------------------------
Idle(w) == w \in running /\ held[w] = NoPayload
Busy(w) == held[w] # NoPayload

\* _queue.get() returns a payload: dispatch starts at the first target.
Take(w) ==
    /\ Idle(w) /\ queue # <<>> /\ Head(queue) # Stop
    /\ held' = [held EXCEPT ![w] = Head(queue)]
    /\ queue' = Tail(queue)
    /\ pos' = [pos EXCEPT ![w] = 1]
    /\ attempt' = [attempt EXCEPT ![w] = 1]
    /\ UNCHANGED <<targets, dropped, fate, early, running, results, closeVars>>

\* _queue.get() returns None: the worker's loop ends.
TakeStop(w) ==
    /\ Idle(w) /\ queue # <<>> /\ Head(queue) = Stop
    /\ queue' = Tail(queue)
    /\ running' = running \ {w}
    /\ UNCHANGED <<targets, dropped, fate, early, held, pos, attempt, results, closeVars>>

\* The loop of dispatch passes over a target that filters the severity out.
Pass(w) ==
    /\ Busy(w) /\ pos[w] <= targets
    /\ <<held[w], pos[w]>> \notin Wanted
    /\ pos' = [pos EXCEPT ![w] = @ + 1]
    /\ UNCHANGED <<targets, queue, dropped, fate, early, held, running, attempt, results,
                   closeVars>>

Sending(w) ==
    /\ Busy(w) /\ pos[w] <= targets
    /\ <<held[w], pos[w]>> \in Wanted

Log(w, status) ==
    /\ results' = [results EXCEPT ![<<held[w], pos[w]>>] =
                      Append(@, [status |-> status, attempts |-> attempt[w]])]
    /\ pos' = [pos EXCEPT ![w] = @ + 1]
    /\ attempt' = [attempt EXCEPT ![w] = 1]

\* _send succeeds: _send_with_retry returns and dispatch logs the delivery.
LogInPlace(w) ==               \* wrong version: the loop does not move on
    /\ Sending(w) /\ held[w] \notin Unsendable
    /\ results' = [results EXCEPT ![<<held[w], pos[w]>>] =
                      Append(@, [status |-> "sent", attempts |-> attempt[w]])]
    /\ UNCHANGED <<targets, queue, dropped, fate, early, workerVars, closeVars>>

SendSucceeds(w) ==
    /\ Sending(w) /\ held[w] \notin Unsendable
    /\ Log(w, "sent")
    /\ UNCHANGED <<targets, queue, dropped, fate, early, held, running, closeVars>>

\* _send fails and _send_with_retry backs off, or gives up on the last attempt.
SendFails(w) ==
    /\ Sending(w) /\ held[w] \notin Unsendable
    /\ IF attempt[w] < MaxRetries
       THEN attempt' = [attempt EXCEPT ![w] = @ + 1] /\ UNCHANGED <<results, pos>>
       ELSE Log(w, "failed")
    /\ UNCHANGED <<targets, queue, dropped, fate, early, held, running, closeVars>>

LetGo(w) ==
    /\ held' = [held EXCEPT ![w] = NoPayload]
    /\ fate' = [fate EXCEPT ![held[w]] = "done"]

\* dispatch has been through all targets there are now; or it raised, and the
\* worker gives the payload up and goes on.
FinishPayload(w) ==
    /\ Busy(w) /\ pos[w] > targets
    /\ LetGo(w)
    /\ UNCHANGED <<targets, queue, dropped, early, running, pos, attempt, results, closeVars>>

DieOnError(w) ==             \* wrong version: the exception ends the worker
    /\ Sending(w) /\ held[w] \in Unsendable
    /\ LetGo(w)
    /\ running' = running \ {w}
    /\ UNCHANGED <<targets, queue, dropped, early, pos, attempt, results, closeVars>>

DispatchRaises(w) ==
    /\ Sending(w) /\ held[w] \in Unsendable
    /\ LetGo(w)
    /\ UNCHANGED <<targets, queue, dropped, early, running, pos, attempt, results, closeVars>>
-----------------------------------------------------------------------------
\* shutdown: a sentinel per worker, none if the queue is full; then the joins.
CallShutdown ==
    /\ closing = "no"
    /\ closing' = "signal"
    /\ unsignalled' = Cardinality(Worker)
    /\ UNCHANGED <<targets, queue, dropped, fate, early, workerVars, results>>

Signal ==
    /\ closing = "signal"
    /\ IF unsignalled = 0
       THEN closing' = "join" /\ UNCHANGED <<queue, unsignalled>>
       ELSE /\ queue' = IF Full THEN queue ELSE Append(queue, Stop)
            /\ unsignalled' = unsignalled - 1
            /\ UNCHANGED closing
    /\ UNCHANGED <<targets, dropped, fate, early, workerVars, results>>

\* join returns when the worker has ended, or after its timeout.
ShutdownReturns ==
    /\ closing = "join"
    /\ closing' = "over"
    /\ UNCHANGED <<targets, queue, dropped, fate, early, workerVars, results, unsignalled>>

WorkerStep(w) ==
    \/ Take(w)
    \/ TakeStop(w)
    \/ Pass(w)
    \/ SendSucceeds(w)
    \/ SendFails(w)
    \/ FinishPayload(w)
    \/ DispatchRaises(w)

ShutdownStep == Signal \/ ShutdownReturns

Next ==
    \/ AddTarget
    \/ \E p \in Payload : DispatchAsync(p)
    \/ \E w \in Worker : WorkerStep(w)
    \/ CallShutdown
    \/ ShutdownStep

Spec == Init /\ [][Next]_vars

(***************************************************************************)
(* Fairness: a thread that can go on is scheduled in the end, and every    *)
(* POST ends, by an answer or by the target's timeout.                     *)
(***************************************************************************)
Fairness ==
    /\ WF_vars(ShutdownStep)
    /\ \A w \in Worker : WF_vars(WorkerStep(w))

FairSpec == Spec /\ Fairness
-----------------------------------------------------------------------------
Queued(p) == {i \in 1 .. Len(queue) : queue[i] = p}
Holders(p) == {w \in Worker : held[w] = p}

\* Type invariant; the queue never exceeds its size.
TypeOK ==
    /\ targets \in 0 .. MaxTargets
    /\ queue \in Seq(Payload \cup {Stop}) /\ Len(queue) <= QueueSize
    /\ dropped \in Nat
    /\ fate \in [Payload -> {"new", "refused", "accepted", "done"}]
    /\ early \subseteq Payload
    /\ held \in [Worker -> Payload \cup {NoPayload}]
    /\ running \subseteq Worker
    /\ pos \in [Worker -> 1 .. MaxTargets + 1]
    /\ attempt \in [Worker -> 1 .. MaxRetries]
    /\ results \in [Payload \X Target ->
                      Seq([status : {"sent", "failed"}, attempts : 1 .. MaxRetries])]
    /\ closing \in {"no", "signal", "join", "over"}
    /\ unsignalled \in 0 .. Cardinality(Worker)

\* An accepted payload that is not done is in exactly one place, the queue or one
\* worker's hands; any other payload is in neither.
HeldOnce ==
    \A p \in Payload :
        Cardinality(Queued(p)) + Cardinality(Holders(p)) =
            IF fate[p] = "accepted" THEN 1 ELSE 0

\* shutdown drains: as long as a payload accepted before shutdown was called is still
\* queued, no worker has ended, however many wait for work.
DrainedBeforeStop ==
    (\E p \in early : Queued(p) # {}) => running = Worker

\* Every payload accepted before shutdown is done in the end, whatever its targets
\* answer and whatever the payloads before it raise.
EarlyPayloadsSettle == \A p \in Payload : p \in early ~> fate[p] = "done"

(***************************************************************************)
(* The dispatcher implements Notification: outcome is what was logged of a *)
(* payload and a target, and is outside its values when it was logged      *)
(* twice.                                                                  *)
(***************************************************************************)
Outcome(deliveries) ==
    IF deliveries = <<>> THEN "none"
    ELSE IF Len(deliveries) = 1 THEN deliveries[1].status
    ELSE "repeated"

Promise == INSTANCE Notification WITH
    outcome <- [d \in Payload \X Target |-> Outcome(results[d])]

\* Every step of queue, workers and shutdown is a step of Notification or none:
\* payloads are accepted once and settled at most once for each target.
ImplementsNotification == Promise!Spec
=============================================================================
