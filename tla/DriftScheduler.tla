--------------------------- MODULE DriftScheduler ---------------------------
(***************************************************************************)
(* The background drift scheduler (ai_governance/scheduler.py) and the     *)
(* requests that start and stop it (ai_governance/api.py): every start     *)
(* builds a new DriftScheduler and puts it into the global _scheduler,     *)
(* every scheduler runs its loop in a thread of its own.  The requests run *)
(* in a pool of threads and take no lock; each of their steps reads the    *)
(* global, or an attribute of a scheduler, anew.                           *)
(*                                                                         *)
(* What a cycle does is in AlertEngine; it always comes to an end, its     *)
(* exceptions are caught.                                                  *)
(***************************************************************************)
EXTENDS Naturals, FiniteSets

CONSTANTS
    Handler,        \* the request threads
    MaxSchedulers   \* bound on the schedulers, and on the threads, ever built

ASSUME SchedulerAssumption == MaxSchedulers \in Nat

None      == 0
Scheduler == 1 .. MaxSchedulers
Thread    == 1 .. MaxSchedulers

VARIABLES
    built,    \* number of DriftSchedulers built
    spawned,  \* number of Thread objects made
    current,  \* the global _scheduler, or None
    runs,     \* _running of each scheduler
    stopping, \* the schedulers whose _stop_event is set
    thread,   \* _thread of each scheduler, or None
    owner,    \* the scheduler each thread runs the loop of
    loop,     \* where each thread is in _run_loop
    pc,       \* the next step of each handler
    obj,      \* the scheduler whose method the handler is in, or None
    serial    \* history: no two requests have been under way at the same time

objects  == <<runs, stopping, thread>>
threads  == <<spawned, owner, loop>>
requests == <<pc, obj, serial>>
schedulerVars == <<built, current, objects, threads, requests>>

Place == {"none", "unstarted", "check", "cycle", "wait", "ended"}
Step  == {"idle", "build", "start", "launch", "make", "go", "stop", "signal", "join"}

Alive(t) == loop[t] \in {"check", "cycle", "wait"}

\* is_running
IsRunning(s) == runs[s] /\ thread[s] # None /\ Alive(thread[s])

SchedulerInit ==
    /\ built = 0
    /\ spawned = 0
    /\ current = None
    /\ runs = [s \in Scheduler |-> FALSE]
    /\ stopping = {}
    /\ thread = [s \in Scheduler |-> None]
    /\ owner = [t \in Thread |-> None]
    /\ loop = [t \in Thread |-> "none"]
    /\ pc = [h \in Handler |-> "idle"]
    /\ obj = [h \in Handler |-> None]
    /\ serial = TRUE

AllIdle == \A h \in Handler : pc[h] = "idle"

GoTo(h, step) == pc' = [pc EXCEPT ![h] = step] /\ UNCHANGED <<obj, serial>>
Done(h) ==
    /\ pc' = [pc EXCEPT ![h] = "idle"]
    /\ obj' = [obj EXCEPT ![h] = None]
    /\ UNCHANGED serial
Enter(h, s, step) ==
    /\ pc' = [pc EXCEPT ![h] = step]
    /\ obj' = [obj EXCEPT ![h] = s]
    /\ UNCHANGED serial
Arrive(h, step) ==
    /\ pc[h] = "idle"
    /\ pc' = [pc EXCEPT ![h] = step]
    /\ serial' = (serial /\ AllIdle)
    /\ UNCHANGED obj
-----------------------------------------------------------------------------
\* POST /admin/scheduler/start, when no scheduler is running; else nothing happens.
StartWhateverRuns(h) ==              \* wrong version: the check is missing
    /\ Arrive(h, "build")
    /\ UNCHANGED <<built, current, objects, threads>>

StartRequest(h) ==
    /\ ~(current # None /\ IsRunning(current))
    /\ Arrive(h, "build")
    /\ UNCHANGED <<built, current, objects, threads>>

BuildScheduler(h) ==
    /\ pc[h] = "build"
    /\ built < MaxSchedulers
    /\ built' = built + 1
    /\ current' = built'
    /\ GoTo(h, "start")
    /\ UNCHANGED <<objects, threads>>

\* start of what _scheduler is by now: a no-op if it runs.
EnterStart(h) ==
    /\ pc[h] = "start"
    /\ IF runs[current] THEN Done(h) ELSE Enter(h, current, "launch")
    /\ UNCHANGED <<built, current, objects, threads>>

Launch(h) ==
    /\ pc[h] = "launch"
    /\ stopping' = stopping \ {obj[h]}
    /\ runs' = [runs EXCEPT ![obj[h]] = TRUE]
    /\ GoTo(h, "make")
    /\ UNCHANGED <<built, current, thread, threads>>

MakeThread(h) ==
    /\ pc[h] = "make"
    /\ spawned < MaxSchedulers
    /\ spawned' = spawned + 1
    /\ thread' = [thread EXCEPT ![obj[h]] = spawned']
    /\ owner' = [owner EXCEPT ![spawned'] = obj[h]]
    /\ loop' = [loop EXCEPT ![spawned'] = "unstarted"]
    /\ GoTo(h, "go")
    /\ UNCHANGED <<built, current, runs, stopping>>

\* self._thread.start(): raises when another request has started it already, or has
\* set _thread to None.
StartThread(h) ==
    /\ pc[h] = "go"
    /\ LET t == thread[obj[h]]
       IN  loop' = IF t # None /\ loop[t] = "unstarted"
                   THEN [loop EXCEPT ![t] = "check"] ELSE loop
    /\ Done(h)
    /\ UNCHANGED <<built, current, objects, spawned, owner>>
-----------------------------------------------------------------------------
\* POST /admin/scheduler/stop, when the scheduler is running.
StopRequest(h) ==
    /\ current # None /\ IsRunning(current)
    /\ Arrive(h, "stop")
    /\ UNCHANGED <<built, current, objects, threads>>

EnterStop(h) ==
    /\ pc[h] = "stop"
    /\ IF runs[current] THEN Enter(h, current, "signal") ELSE Done(h)
    /\ UNCHANGED <<built, current, objects, threads>>

SignalNobody(h) ==               \* wrong version: the event is not set
    /\ pc[h] = "signal"
    /\ runs' = [runs EXCEPT ![obj[h]] = FALSE]
    /\ GoTo(h, "join")
    /\ UNCHANGED <<built, current, stopping, thread, threads>>

SignalStop(h) ==
    /\ pc[h] = "signal"
    /\ runs' = [runs EXCEPT ![obj[h]] = FALSE]
    /\ stopping' = stopping \cup {obj[h]}
    /\ GoTo(h, "join")
    /\ UNCHANGED <<built, current, thread, threads>>

\* join returns when the thread has ended or its timeout is over, and _thread is
\* dropped; a thread that was never started makes join raise.
JoinThread(h) ==
    /\ pc[h] = "join"
    /\ LET t == thread[obj[h]]
       IN  thread' = IF t # None /\ loop[t] = "unstarted" THEN thread
                     ELSE [thread EXCEPT ![obj[h]] = None]
    /\ Done(h)
    /\ UNCHANGED <<built, current, runs, stopping, threads>>
-----------------------------------------------------------------------------
MoveTo(t, place) ==
    /\ loop' = [loop EXCEPT ![t] = place]
    /\ UNCHANGED <<built, current, objects, spawned, owner, requests>>

CheckEvent(t) ==
    /\ loop[t] = "check"
    /\ MoveTo(t, IF owner[t] \in stopping THEN "ended" ELSE "cycle")

\* _execute_cycle returns, whether it succeeded or failed.
FinishCycle(t) == loop[t] = "cycle" /\ MoveTo(t, "wait")

\* _stop_event.wait returns, the event set or the interval over.
WakeUp(t) == loop[t] = "wait" /\ MoveTo(t, "check")

LoopStep(t) == CheckEvent(t) \/ FinishCycle(t) \/ WakeUp(t)

SchedulerNext ==
    \/ \E h \in Handler :
         \/ StartRequest(h)
         \/ BuildScheduler(h)
         \/ EnterStart(h)
         \/ Launch(h)
         \/ MakeThread(h)
         \/ StartThread(h)
         \/ StopRequest(h)
         \/ EnterStop(h)
         \/ SignalStop(h)
         \/ JoinThread(h)
    \/ \E t \in Thread : LoopStep(t)

SchedulerSpec == SchedulerInit /\ [][SchedulerNext]_schedulerVars

(***************************************************************************)
(* Fairness: the threads of the loops are scheduled and every cycle ends.  *)
(***************************************************************************)
SchedulerFairness == \A t \in Thread : WF_schedulerVars(LoopStep(t))
FairSchedulerSpec == SchedulerSpec /\ SchedulerFairness
-----------------------------------------------------------------------------
\* Type invariant; a scheduler's _thread runs that scheduler's loop.
SchedulerTypeOK ==
    /\ built \in 0 .. MaxSchedulers
    /\ spawned \in 0 .. MaxSchedulers
    /\ current \in 0 .. built
    /\ runs \in [Scheduler -> BOOLEAN]
    /\ stopping \subseteq Scheduler
    /\ thread \in [Scheduler -> 0 .. spawned]
    /\ owner \in [Thread -> Scheduler \cup {None}]
    /\ loop \in [Thread -> Place]
    /\ pc \in [Handler -> Step]
    /\ obj \in [Handler -> 0 .. built]
    /\ serial \in BOOLEAN
    /\ \A s \in Scheduler : thread[s] # None => owner[thread[s]] = s

\* The loops that go on cycle after cycle until somebody stops them.
Unstopped == {t \in Thread : Alive(t) /\ owner[t] \notin stopping}

\* As long as start and stop requests come one at a time, at most one loop goes on, and
\* between requests it is the one is_running and stop know of: a start after a stop
\* whose join timed out leaks no loop, and no stop leaves one behind.
OneLoopWhenSerial ==
    serial =>
        /\ Cardinality(Unstopped) <= 1
        /\ AllIdle => Unstopped = {t \in Thread : current # None /\ IsRunning(current)
                                                  /\ thread[current] = t}

\* A loop that a request was told to have stopped ends, though the request does not
\* wait for it longer than its timeout.
StoppedLoopEnds ==
    \A t \in Thread :
        (serial /\ Alive(t) /\ ~runs[owner[t]]) ~> (loop[t] = "ended" \/ ~serial)
=============================================================================
