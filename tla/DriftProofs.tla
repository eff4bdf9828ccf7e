----------------------------- MODULE DriftProofs -----------------------------
(***************************************************************************)
(* Proofs about the drift scheduler and what its cycles do, for every      *)
(* value of the constants.  Requests which come one at a time never leave  *)
(* a loop running that nobody knows of; detection finds the drift there is *)
(* and invents none; forecasts lie on the line and breaches are announced. *)
(***************************************************************************)
EXTENDS DriftScheduler, Drift, Forecast, FiniteSetTheorems, SequenceTheorems, TLAPS

-----------------------------------------------------------------------------
(***************************************************************************)
(* What the scheduler s is like: never launched; launched without thread;  *)
(* with a thread that is not started; with a loop that goes on; or told to *)
(* stop.  A scheduler that goes on, or may yet, has one thread at most.    *)
(***************************************************************************)
NoThread(s) == thread[s] = None /\ \A t \in Thread : owner[t] # s
OneThread(s) == thread[s] # None /\ \A t \in Thread : owner[t] = s <=> t = thread[s]

Unlaunched(s) == ~runs[s] /\ s \notin stopping /\ NoThread(s)
Launched(s)   == runs[s]  /\ s \notin stopping /\ NoThread(s)
Threaded(s)   == runs[s]  /\ s \notin stopping /\ OneThread(s) /\ loop[thread[s]] = "unstarted"
GoingOn(s)    == runs[s]  /\ s \notin stopping /\ OneThread(s) /\ Alive(thread[s])
ToldToStop(s) == ~runs[s] /\ s \in stopping

\* The scheduler a request in progress works on is as the request's last step left it.
Expected(h) ==
    /\ pc[h] = "build"  => current = None \/ ToldToStop(current)
    /\ pc[h] \in Step \ {"idle", "build"} => current # None
    /\ pc[h] \in {"launch", "make", "go", "signal", "join"} => obj[h] = current
    /\ pc[h] \in {"start", "launch"} => Unlaunched(current)
    /\ pc[h] = "make" => Launched(current)
    /\ pc[h] = "go" => Threaded(current)
    /\ pc[h] \in {"stop", "signal"} => GoingOn(current)
    /\ pc[h] = "join" => ToldToStop(current)

OneRequest  == \A g, h \in Handler : pc[g] # "idle" /\ pc[h] # "idle" => g = h
Unbuilt     == \A s \in Scheduler : s > built => Unlaunched(s)
OthersToldToStop == \A s \in 1 .. built : s # current => s \in stopping
LoopsOwned  == \A t \in Thread : loop[t] # "none" => owner[t] \in 1 .. built
AtRest      == AllIdle => current = None \/ GoingOn(current) \/ ToldToStop(current)
AllExpected == \A h \in Handler : Expected(h)

InOrder == serial => OneRequest /\ Unbuilt /\ OthersToldToStop /\ LoopsOwned /\ AtRest /\ AllExpected

\* A request is in a method of a scheduler there is: _scheduler is never None again.
Aimed ==
    \A h \in Handler :
        /\ pc[h] \in {"start", "stop"} => current # None
        /\ pc[h] \in {"launch", "make", "go", "signal", "join"} => obj[h] # None

LEMMA AimedStep == SchedulerTypeOK /\ Aimed /\ [SchedulerNext]_schedulerVars => Aimed'
<1> SUFFICES ASSUME SchedulerTypeOK, Aimed, [SchedulerNext]_schedulerVars, NEW g \in Handler
             PROVE  /\ pc'[g] \in {"start", "stop"} => current' # None
                    /\ pc'[g] \in {"launch", "make", "go", "signal", "join"} => obj'[g] # None
  BY DEF Aimed
<1>1. current # None => current' # None
  <2>1. built \in Nat
    BY SchedulerAssumption DEF SchedulerTypeOK
  <2>2. current' = current \/ current' = built + 1
    BY DEF SchedulerNext, StartRequest, BuildScheduler, EnterStart, Launch, MakeThread, StartThread,
           StopRequest, EnterStop, SignalStop, JoinThread, LoopStep, CheckEvent, FinishCycle,
           WakeUp, MoveTo, schedulerVars
  <2>3. QED
    BY <2>1, <2>2 DEF None
<1>2. ASSUME NEW h \in Handler, BuildScheduler(h)
      PROVE  /\ pc'[g] \in {"start", "stop"} => current' # None
             /\ pc'[g] \in {"launch", "make", "go", "signal", "join"} => obj'[g] # None
  <2>1. current' # None
    BY <1>2, SchedulerAssumption DEF BuildScheduler, SchedulerTypeOK, None
  <2>2. QED
    BY <1>2, <2>1 DEF BuildScheduler, GoTo, SchedulerTypeOK, Aimed
<1>3. ASSUME NEW h \in Handler,
             \/ StartRequest(h) \/ EnterStart(h) \/ Launch(h) \/ MakeThread(h)
             \/ StartThread(h) \/ StopRequest(h) \/ EnterStop(h) \/ SignalStop(h)
             \/ JoinThread(h)
      PROVE  /\ pc'[g] \in {"start", "stop"} => current # None
             /\ pc'[g] \in {"launch", "make", "go", "signal", "join"} => obj'[g] # None
  <2>1. CASE g = h
    BY <1>3, <2>1
    DEF StartRequest, EnterStart, Launch, MakeThread, StartThread, StopRequest, EnterStop,
        SignalStop, JoinThread, GoTo, Done, Enter, Arrive, SchedulerTypeOK, Aimed
  <2>2. CASE g # h
    <3>1. pc'[g] = pc[g] /\ obj'[g] = obj[g]
      BY <1>3, <2>2
      DEF StartRequest, EnterStart, Launch, MakeThread, StartThread, StopRequest, EnterStop,
          SignalStop, JoinThread, GoTo, Done, Enter, Arrive, SchedulerTypeOK
    <3>2. QED
      BY <3>1 DEF Aimed
  <2>3. QED
    BY <2>1, <2>2
<1>4. CASE UNCHANGED requests
  BY <1>1, <1>4 DEF Aimed, requests
<1>5. QED
  BY <1>1, <1>2, <1>3, <1>4
  DEF SchedulerNext, LoopStep, CheckEvent, FinishCycle, WakeUp, MoveTo, schedulerVars

LEMMA InitTyped == SchedulerInit => SchedulerTypeOK /\ Aimed
BY SchedulerAssumption DEF SchedulerInit, SchedulerTypeOK, Aimed, None, Place, Step

LEMMA StepTyped == SchedulerTypeOK /\ Aimed /\ [SchedulerNext]_schedulerVars => SchedulerTypeOK'
<1> SUFFICES ASSUME SchedulerTypeOK, Aimed, [SchedulerNext]_schedulerVars PROVE SchedulerTypeOK'
  OBVIOUS
<1> USE SchedulerAssumption
<1>0. built \in Nat /\ spawned \in Nat /\ built <= MaxSchedulers /\ spawned <= MaxSchedulers
  BY DEF SchedulerTypeOK
<1>1. ASSUME NEW h \in Handler, BuildScheduler(h) PROVE SchedulerTypeOK'
  <2>1. built' = built + 1 /\ built' \in 0 .. MaxSchedulers /\ current' = built'
    BY <1>0, <1>1 DEF BuildScheduler
  <2>2. pc' \in [Handler -> Step] /\ UNCHANGED <<obj, serial, objects, threads>>
    BY <1>1 DEF BuildScheduler, GoTo, SchedulerTypeOK, Step
  <2>3. obj \in [Handler -> 0 .. built']
    <3>1. 0 .. built \subseteq 0 .. built'
      BY <1>0, <2>1
    <3>2. QED
      BY <3>1 DEF SchedulerTypeOK
  <2>4. QED
    BY <1>0, <2>1, <2>2, <2>3 DEF SchedulerTypeOK, objects, threads
<1>2. ASSUME NEW h \in Handler, MakeThread(h) PROVE SchedulerTypeOK'
  <2>1. spawned' = spawned + 1 /\ spawned' \in Thread /\ spawned' \in 0 .. MaxSchedulers
    BY <1>0, <1>2 DEF MakeThread, Thread
  <2>2. pc' \in [Handler -> Step] /\ UNCHANGED <<obj, serial, built, current, runs, stopping>>
    BY <1>2 DEF MakeThread, GoTo, SchedulerTypeOK, Step
  <2>3. loop' \in [Thread -> Place] /\ owner' \in [Thread -> Scheduler \cup {None}]
    <3>1. obj[h] \in Scheduler \cup {None}
      BY <1>0 DEF SchedulerTypeOK, Scheduler, None
    <3>2. QED
      BY <1>2, <2>1, <3>1 DEF MakeThread, SchedulerTypeOK, Place
  <2>4. thread' \in [Scheduler -> 0 .. spawned']
    <3>1. 0 .. spawned \subseteq 0 .. spawned' /\ spawned' \in 0 .. spawned'
      BY <1>0, <2>1
    <3>2. thread \in [Scheduler -> 0 .. spawned']
      BY <3>1 DEF SchedulerTypeOK
    <3>3. QED
      BY <1>2, <3>1, <3>2 DEF MakeThread
  <2>5. ASSUME NEW s \in Scheduler, thread'[s] # None PROVE owner'[thread'[s]] = s
    <3>1. CASE s = obj[h]
      <4>1. thread'[s] = spawned'
        BY <1>2, <3>1 DEF MakeThread, SchedulerTypeOK
      <4>2. QED
        BY <1>2, <2>1, <3>1, <4>1 DEF MakeThread, SchedulerTypeOK
    <3>2. CASE s # obj[h]
      <4>1. thread'[s] = thread[s] /\ thread[s] \in 0 .. spawned
        BY <1>2, <3>2 DEF MakeThread, SchedulerTypeOK
      <4>2. thread[s] # spawned'
        BY <1>0, <2>1, <4>1
      <4>3. owner[thread[s]] = s
        BY <2>5, <4>1 DEF SchedulerTypeOK
      <4>4. thread[s] \in Thread
        BY <1>0, <2>5, <4>1 DEF Thread, None
      <4>5. owner'[thread[s]] = owner[thread[s]]
        BY <1>2, <4>2, <4>4 DEF MakeThread, SchedulerTypeOK
      <4>6. QED
        BY <4>1, <4>3, <4>5
    <3>3. QED
      BY <3>1, <3>2
  <2>6. QED
    BY <1>0, <2>1, <2>2, <2>3, <2>4, <2>5 DEF SchedulerTypeOK
<1>3. ASSUME NEW h \in Handler, JoinThread(h) PROVE SchedulerTypeOK'
  <2>1. /\ pc' \in [Handler -> Step] /\ obj' \in [Handler -> 0 .. built]
        /\ UNCHANGED <<serial, built, current, runs, stopping, threads>>
    BY <1>3, <1>0 DEF JoinThread, Done, SchedulerTypeOK, Step, None
  <2>2. thread' = thread \/ thread' = [thread EXCEPT ![obj[h]] = None]
    BY <1>3 DEF JoinThread
  <2>3. /\ thread' \in [Scheduler -> 0 .. spawned]
        /\ \A s \in Scheduler : thread'[s] # None => thread'[s] = thread[s]
    BY <1>0, <2>2 DEF SchedulerTypeOK, None
  <2>4. QED
    BY <2>1, <2>3 DEF SchedulerTypeOK, threads
<1>4. ASSUME NEW h \in Handler, StartThread(h) PROVE SchedulerTypeOK'
  <2>1. pc' \in [Handler -> Step] /\ obj' \in [Handler -> 0 .. built]
    BY <1>4, <1>0 DEF StartThread, Done, SchedulerTypeOK, Step, None
  <2>2. loop' \in [Thread -> Place]
    BY <1>4 DEF StartThread, SchedulerTypeOK, Place
  <2>3. UNCHANGED <<serial, built, current, objects, spawned, owner>>
    BY <1>4 DEF StartThread, Done
  <2>4. QED
    BY <2>1, <2>2, <2>3 DEF SchedulerTypeOK, objects
<1>5. ASSUME NEW h \in Handler, Launch(h) \/ SignalStop(h) PROVE SchedulerTypeOK'
  <2>1. pc' \in [Handler -> Step] /\ UNCHANGED <<obj, serial, built, current, thread, threads>>
    BY <1>5 DEF Launch, SignalStop, GoTo, SchedulerTypeOK, Step
  <2>2. runs' \in [Scheduler -> BOOLEAN]
    BY <1>5 DEF Launch, SignalStop, SchedulerTypeOK
  <2>3. pc[h] \in {"launch", "signal"}
    BY <1>5 DEF Launch, SignalStop
  <2>4. obj[h] \in Scheduler
    BY <1>0, <2>3 DEF SchedulerTypeOK, Aimed, Scheduler, None
  <2>5. stopping' \subseteq Scheduler
    BY <1>5, <2>4 DEF Launch, SignalStop, SchedulerTypeOK
  <2>6. QED
    BY <2>1, <2>2, <2>5 DEF SchedulerTypeOK, threads
<1>6. ASSUME NEW h \in Handler,
             StartRequest(h) \/ StopRequest(h) \/ EnterStart(h) \/ EnterStop(h)
      PROVE  SchedulerTypeOK'
  <2>1. UNCHANGED <<built, current, objects, threads>>
    BY <1>6 DEF StartRequest, StopRequest, EnterStart, EnterStop
  <2>2. pc' \in [Handler -> Step]
    BY <1>6 DEF StartRequest, StopRequest, EnterStart, EnterStop, Arrive, Enter, Done, SchedulerTypeOK, Step
  <2>3. obj' \in [Handler -> 0 .. built]
    BY <1>6, <1>0 DEF StartRequest, StopRequest, EnterStart, EnterStop, Arrive, Enter, Done,
                      SchedulerTypeOK, None
  <2>4. serial' \in BOOLEAN
    BY <1>6 DEF StartRequest, StopRequest, EnterStart, EnterStop, Arrive, Enter, Done, SchedulerTypeOK
  <2>5. QED
    BY <2>1, <2>2, <2>3, <2>4 DEF SchedulerTypeOK, objects, threads
<1>7. ASSUME NEW t \in Thread, LoopStep(t) PROVE SchedulerTypeOK'
  <2>1. loop' \in [Thread -> Place]
    BY <1>7 DEF LoopStep, CheckEvent, FinishCycle, WakeUp, MoveTo, SchedulerTypeOK, Place
  <2>2. UNCHANGED <<built, current, objects, spawned, owner, requests>>
    BY <1>7 DEF LoopStep, CheckEvent, FinishCycle, WakeUp, MoveTo
  <2>3. QED
    BY <2>1, <2>2 DEF SchedulerTypeOK, objects, requests
<1>8. CASE UNCHANGED schedulerVars
  BY <1>8 DEF SchedulerTypeOK, schedulerVars, objects, threads, requests
<1>9. QED
  BY <1>1, <1>2, <1>3, <1>4, <1>5, <1>6, <1>7, <1>8 DEF SchedulerNext

\* A scheduler's _thread is always a thread that runs that scheduler's loop, however many
\* requests start and stop schedulers at the same time.
THEOREM SchedulerTyping == SchedulerSpec => []SchedulerTypeOK
<1>1. QED
  BY InitTyped, AimedStep, StepTyped, PTL DEF SchedulerSpec
-----------------------------------------------------------------------------
\* What a step of the only request there is has to show.
LEMMA OrderAfter ==
    ASSUME SchedulerTypeOK, InOrder, serial, NEW h \in Handler, pc[h] # "idle" \/ AllIdle,
           NEW step, pc' = [pc EXCEPT ![h] = step],
           Expected(h)',
           step = "idle" => \/ current' = None \/ GoingOn(current)' \/ ToldToStop(current)',
           Unbuilt', OthersToldToStop', LoopsOwned'
    PROVE  InOrder'
<1>1. \A g \in Handler : g # h => pc'[g] = "idle"
  BY DEF InOrder, OneRequest, AllIdle, SchedulerTypeOK
<1>2. pc'[h] = step
  BY DEF SchedulerTypeOK
<1>3. OneRequest'
  BY <1>1 DEF OneRequest
<1>4. AtRest'
  BY <1>2 DEF AtRest, AllIdle
<1>5. AllExpected'
  <2>1. ASSUME NEW g \in Handler, g # h PROVE Expected(g)'
    BY <1>1, <2>1 DEF Expected
  <2>2. QED
    BY <2>1 DEF AllExpected
<1>6. QED
  BY <1>3, <1>4, <1>5 DEF InOrder

\* Steps that leave schedulers and threads as they are.
LEMMA OrderFramed ==
    ASSUME SchedulerTypeOK, InOrder, serial, UNCHANGED <<built, current, objects, threads>>
    PROVE  Unbuilt' /\ OthersToldToStop' /\ LoopsOwned'
BY DEF InOrder, Unbuilt, OthersToldToStop, LoopsOwned, Unlaunched, NoThread, objects, threads

LEMMA Built ==
    ASSUME SchedulerTypeOK
    PROVE  /\ built \in Nat /\ spawned \in Nat /\ current \in 0 .. built
           /\ current # None => current \in Scheduler /\ current \in 1 .. built
           /\ \A s \in Scheduler : s > built => s # current
BY SchedulerAssumption DEF SchedulerTypeOK, Scheduler, None

LEMMA OrderStart ==
    ASSUME SchedulerTypeOK, InOrder, serial, NEW h \in Handler,
           StartRequest(h) \/ BuildScheduler(h) \/ EnterStart(h) \/ Launch(h), serial'
    PROVE  InOrder'
<1>1. CASE StartRequest(h)
  <2>1. AllIdle /\ pc' = [pc EXCEPT ![h] = "build"]
    BY <1>1 DEF StartRequest, Arrive
  <2>2. current = None \/ ToldToStop(current)
    BY <1>1, <2>1 DEF StartRequest, InOrder, AtRest, GoingOn, OneThread, IsRunning
  <2>3. UNCHANGED <<built, current, objects, threads>>
    BY <1>1 DEF StartRequest
  <2>4. Expected(h)'
    BY <2>1, <2>2, <2>3 DEF Expected, ToldToStop, objects, SchedulerTypeOK
  <2>5. QED
    BY <2>1, <2>3, <2>4, OrderAfter, OrderFramed
<1>2. CASE BuildScheduler(h)
  <2>1. /\ pc[h] = "build" /\ built' = built + 1 /\ current' = built + 1
        /\ built < MaxSchedulers
        /\ pc' = [pc EXCEPT ![h] = "start"] /\ UNCHANGED <<objects, threads>>
    BY <1>2 DEF BuildScheduler, GoTo
  <2>2. built + 1 \in Scheduler /\ built + 1 # None /\ built + 1 > built
    BY <2>1, Built, SchedulerAssumption DEF Scheduler, None
  <2>3. Unlaunched(built + 1)
    BY <2>2 DEF InOrder, Unbuilt
  <2>4. Expected(h)'
    <3>1. Unlaunched(current)'
      BY <2>1, <2>3 DEF Unlaunched, NoThread, objects, threads
    <3>2. pc'[h] = "start"
      BY <2>1 DEF SchedulerTypeOK
    <3>3. QED
      BY <2>1, <2>2, <3>1, <3>2 DEF Expected
  <2>5. Unbuilt'
    <3>1. \A s \in Scheduler : s > built' => s > built
      BY <2>1, Built DEF Scheduler
    <3>2. QED
      BY <2>1, <3>1 DEF InOrder, Unbuilt, Unlaunched, NoThread, objects, threads
  <2>6. OthersToldToStop'
    <3>1. \A s \in 1 .. built' : s # current' => s \in 1 .. built
      BY <2>1, Built
    <3>2. \A s \in 1 .. built : s \in stopping
      BY <2>1, Built DEF InOrder, OthersToldToStop, AllExpected, Expected, ToldToStop, None
    <3>3. QED
      BY <2>1, <3>1, <3>2 DEF OthersToldToStop, objects
  <2>7. LoopsOwned'
    <3>1. 1 .. built \subseteq 1 .. built'
      BY <2>1, Built
    <3>2. QED
      BY <2>1, <3>1 DEF InOrder, LoopsOwned, threads
  <2>8. QED
    BY <2>1, <2>4, <2>5, <2>6, <2>7, OrderAfter
<1>3. CASE EnterStart(h)
  <2>1. pc[h] = "start" /\ current # None /\ Unlaunched(current)
    BY <1>3 DEF EnterStart, InOrder, AllExpected, Expected, Step
  <2>2. /\ pc' = [pc EXCEPT ![h] = "launch"] /\ obj' = [obj EXCEPT ![h] = current]
        /\ UNCHANGED <<built, current, objects, threads>>
    BY <1>3, <2>1 DEF EnterStart, Enter, Unlaunched
  <2>3. Expected(h)'
    BY <2>1, <2>2 DEF Expected, Unlaunched, NoThread, objects, threads, SchedulerTypeOK
  <2>4. QED
    BY <2>1, <2>2, <2>3, OrderAfter, OrderFramed
<1>4. CASE Launch(h)
  <2>1. pc[h] = "launch" /\ current # None /\ Unlaunched(current) /\ obj[h] = current
    BY <1>4 DEF Launch, InOrder, AllExpected, Expected, Step
  <2>2. /\ pc' = [pc EXCEPT ![h] = "make"] /\ obj' = obj
        /\ runs' = [runs EXCEPT ![current] = TRUE] /\ stopping' = stopping
        /\ UNCHANGED <<built, current, thread, spawned, owner, loop>>
    BY <1>4, <2>1 DEF Launch, GoTo, Unlaunched, threads
  <2>3. current \in Scheduler
    BY <2>1, Built
  <2>4. Expected(h)'
    BY <2>1, <2>2, <2>3 DEF Expected, Unlaunched, Launched, NoThread, SchedulerTypeOK
  <2>5. Unbuilt'
    BY <2>2, <2>3, Built DEF InOrder, Unbuilt, Unlaunched, NoThread, SchedulerTypeOK
  <2>6. OthersToldToStop' /\ LoopsOwned'
    BY <2>2 DEF InOrder, OthersToldToStop, LoopsOwned
  <2>7. QED
    BY <2>1, <2>2, <2>4, <2>5, <2>6, OrderAfter
<1>5. QED
  BY <1>1, <1>2, <1>3, <1>4

LEMMA OrderLaunch ==
    ASSUME SchedulerTypeOK, InOrder, serial, NEW h \in Handler, MakeThread(h) \/ StartThread(h)
    PROVE  InOrder'
<1>1. CASE MakeThread(h)
  <2>1. pc[h] = "make" /\ current # None /\ Launched(current) /\ obj[h] = current
    BY <1>1 DEF MakeThread, InOrder, AllExpected, Expected, Step
  <2> DEFINE new == spawned + 1
  <2>2. /\ pc' = [pc EXCEPT ![h] = "go"] /\ obj' = obj
        /\ thread' = [thread EXCEPT ![current] = new]
        /\ owner' = [owner EXCEPT ![new] = current]
        /\ loop' = [loop EXCEPT ![new] = "unstarted"]
        /\ UNCHANGED <<built, current, runs, stopping>>
    BY <1>1, <2>1 DEF MakeThread, GoTo
  <2>3. current \in Scheduler /\ new \in Thread /\ new # None /\ current \in 1 .. built
    BY <1>1, <2>1, Built, SchedulerAssumption DEF MakeThread, Thread, None
  <2> HIDE DEF new
  <2>4. /\ owner'[new] = current /\ loop'[new] = "unstarted" /\ thread'[current] = new
        /\ \A t \in Thread : t # new => owner'[t] = owner[t] /\ loop'[t] = loop[t]
        /\ \A s \in Scheduler : s # current => thread'[s] = thread[s]
    BY <2>2, <2>3 DEF SchedulerTypeOK
  <2>5. Threaded(current)'
    BY <2>1, <2>2, <2>3, <2>4 DEF Launched, Threaded, NoThread, OneThread
  <2>6. Expected(h)'
    <3>1. pc'[h] = "go"
      BY <2>2 DEF SchedulerTypeOK
    <3>2. QED
      BY <2>1, <2>2, <2>5, <3>1 DEF Expected
  <2>7. Unbuilt'
    BY <2>2, <2>3, <2>4, Built DEF InOrder, Unbuilt, Unlaunched, NoThread
  <2>8. OthersToldToStop' /\ LoopsOwned'
    BY <2>2, <2>3, <2>4 DEF InOrder, OthersToldToStop, LoopsOwned
  <2>9. QED
    BY <2>1, <2>2, <2>6, <2>7, <2>8, OrderAfter
<1>2. CASE StartThread(h)
  <2>1. pc[h] = "go" /\ current # None /\ Threaded(current) /\ obj[h] = current
    BY <1>2 DEF StartThread, InOrder, AllExpected, Expected, Step
  <2> DEFINE t == thread[current]
  <2>2. current \in Scheduler /\ t \in Thread /\ t # None
    <3>1. current \in Scheduler /\ spawned \in Nat /\ spawned <= MaxSchedulers
      BY <2>1, Built DEF SchedulerTypeOK
    <3>2. t \in 0 .. spawned /\ t # None
      BY <2>1, <3>1 DEF SchedulerTypeOK, Threaded, OneThread
    <3>3. QED
      BY <3>1, <3>2, SchedulerAssumption DEF Thread, None
  <2>3. /\ pc' = [pc EXCEPT ![h] = "idle"] /\ loop' = [loop EXCEPT ![t] = "check"]
        /\ UNCHANGED <<built, current, objects, spawned, owner>>
    BY <1>2, <2>1, <2>2 DEF StartThread, Done, Threaded
  <2>4. GoingOn(current)'
    BY <2>1, <2>2, <2>3 DEF Threaded, GoingOn, OneThread, Alive, objects, SchedulerTypeOK
  <2>5. Expected(h)'
    BY <2>3 DEF Expected, SchedulerTypeOK
  <2>6. Unbuilt' /\ OthersToldToStop'
    BY <2>3 DEF InOrder, Unbuilt, OthersToldToStop, Unlaunched, NoThread, objects
  <2>7. LoopsOwned'
    <3>1. owner[t] = current
      BY <2>1, <2>2 DEF Threaded, OneThread
    <3>2. \A u \in Thread : loop'[u] # "none" => u = t \/ loop[u] # "none"
      BY <2>3 DEF SchedulerTypeOK
    <3>3. QED
      BY <2>1, <2>3, <3>1, <3>2, Built DEF InOrder, LoopsOwned
  <2>8. QED
    BY <2>1, <2>3, <2>4, <2>5, <2>6, <2>7, OrderAfter
<1>3. QED
  BY <1>1, <1>2

LEMMA OrderStop ==
    ASSUME SchedulerTypeOK, InOrder, serial, NEW h \in Handler,
           StopRequest(h) \/ EnterStop(h) \/ SignalStop(h) \/ JoinThread(h), serial'
    PROVE  InOrder'
<1>1. CASE StopRequest(h)
  <2>1. AllIdle /\ pc' = [pc EXCEPT ![h] = "stop"] /\ current # None
    BY <1>1 DEF StopRequest, Arrive
  <2>2. GoingOn(current)
    BY <1>1, <2>1 DEF StopRequest, InOrder, AtRest, ToldToStop, IsRunning
  <2>3. UNCHANGED <<built, current, objects, threads>>
    BY <1>1 DEF StopRequest
  <2>4. Expected(h)'
    BY <2>1, <2>2, <2>3 DEF Expected, GoingOn, OneThread, Alive, objects, threads, SchedulerTypeOK
  <2>5. QED
    BY <2>1, <2>3, <2>4, OrderAfter, OrderFramed
<1>2. CASE EnterStop(h)
  <2>1. pc[h] = "stop" /\ current # None /\ GoingOn(current)
    BY <1>2 DEF EnterStop, InOrder, AllExpected, Expected, Step
  <2>2. /\ pc' = [pc EXCEPT ![h] = "signal"] /\ obj' = [obj EXCEPT ![h] = current]
        /\ UNCHANGED <<built, current, objects, threads>>
    BY <1>2, <2>1 DEF EnterStop, Enter, GoingOn
  <2>3. Expected(h)'
    BY <2>1, <2>2 DEF Expected, GoingOn, OneThread, Alive, objects, threads, SchedulerTypeOK
  <2>4. QED
    BY <2>1, <2>2, <2>3, OrderAfter, OrderFramed
<1>3. CASE SignalStop(h)
  <2>1. pc[h] = "signal" /\ current # None /\ obj[h] = current
    BY <1>3 DEF SignalStop, InOrder, AllExpected, Expected, Step
  <2>2. /\ pc' = [pc EXCEPT ![h] = "join"] /\ obj' = obj
        /\ runs' = [runs EXCEPT ![current] = FALSE]
        /\ stopping' = stopping \cup {current}
        /\ UNCHANGED <<built, current, thread, owner, loop>>
    BY <1>3, <2>1 DEF SignalStop, GoTo, threads
  <2>3. current \in Scheduler
    BY <2>1, Built
  <2>4. Expected(h)'
    BY <2>1, <2>2, <2>3 DEF Expected, ToldToStop, SchedulerTypeOK
  <2>5. Unbuilt'
    BY <2>2, <2>3, Built DEF InOrder, Unbuilt, Unlaunched, NoThread, SchedulerTypeOK
  <2>6. OthersToldToStop' /\ LoopsOwned'
    BY <2>2 DEF InOrder, OthersToldToStop, LoopsOwned
  <2>7. QED
    BY <2>1, <2>2, <2>4, <2>5, <2>6, OrderAfter
<1>4. CASE JoinThread(h)
  <2>1. pc[h] = "join" /\ current # None /\ ToldToStop(current) /\ obj[h] = current
    BY <1>4 DEF JoinThread, InOrder, AllExpected, Expected, Step
  <2>2. /\ pc' = [pc EXCEPT ![h] = "idle"]
        /\ thread' = thread \/ thread' = [thread EXCEPT ![current] = None]
        /\ UNCHANGED <<built, current, runs, stopping, owner, loop>>
    BY <1>4, <2>1 DEF JoinThread, Done, threads
  <2>3. current \in Scheduler
    BY <2>1, Built
  <2>4. Expected(h)' /\ ToldToStop(current)'
    BY <2>1, <2>2 DEF Expected, ToldToStop, SchedulerTypeOK
  <2>5. Unbuilt'
    <3>1. \A s \in Scheduler : s # current => thread'[s] = thread[s]
      BY <2>2 DEF SchedulerTypeOK
    <3>2. QED
      BY <2>2, <2>3, <3>1, Built DEF InOrder, Unbuilt, Unlaunched, NoThread
  <2>6. OthersToldToStop' /\ LoopsOwned'
    BY <2>2 DEF InOrder, OthersToldToStop, LoopsOwned
  <2>7. QED
    BY <2>1, <2>2, <2>4, <2>5, <2>6, OrderAfter
<1>5. QED
  BY <1>1, <1>2, <1>3, <1>4

\* A loop goes from place to place, and ends only when it is told to.
LEMMA OrderLoop ==
    ASSUME SchedulerTypeOK, InOrder, serial, NEW t \in Thread, LoopStep(t)
    PROVE  InOrder'
<1>1. /\ Alive(t)
      /\ UNCHANGED <<built, current, runs, stopping, thread, spawned, owner, pc, obj, serial>>
      /\ \A u \in Thread : u # t => loop'[u] = loop[u]
      /\ loop'[t] \in {"check", "cycle", "wait", "ended"}
      /\ owner[t] \notin stopping => loop'[t] \in {"check", "cycle", "wait"}
  BY DEF LoopStep, CheckEvent, FinishCycle, WakeUp, MoveTo, Alive, objects, requests, SchedulerTypeOK
<1>2. current # None => current \in Scheduler
  BY Built
<1>3. ASSUME current # None, OneThread(current)
      PROVE  thread[current] \in Thread /\ owner[thread[current]] = current
  <2>1. thread[current] \in 0 .. spawned /\ spawned <= MaxSchedulers /\ spawned \in Nat
    BY <1>2, <1>3 DEF SchedulerTypeOK
  <2>2. thread[current] \in Thread
    BY <1>3, <2>1, SchedulerAssumption DEF OneThread, Thread, None
  <2>3. QED
    BY <1>3, <2>2 DEF OneThread
<1>4. /\ Unlaunched(current) => Unlaunched(current)'
      /\ Launched(current) => Launched(current)'
      /\ ToldToStop(current) => ToldToStop(current)'
  BY <1>1 DEF Unlaunched, Launched, ToldToStop, NoThread
<1>5. current # None /\ Threaded(current) => Threaded(current)'
  <2> SUFFICES ASSUME current # None, Threaded(current) PROVE Threaded(current)'
    OBVIOUS
  <2>1. thread[current] \in Thread /\ thread[current] # t
    BY <1>1, <1>3 DEF Threaded, Alive
  <2>2. QED
    BY <1>1, <2>1 DEF Threaded, OneThread
<1>6. current # None /\ GoingOn(current) => GoingOn(current)'
  <2> SUFFICES ASSUME current # None, GoingOn(current) PROVE GoingOn(current)'
    OBVIOUS
  <2>1. thread[current] \in Thread /\ owner[thread[current]] = current
    BY <1>3 DEF GoingOn
  <2>2. loop'[thread[current]] \in {"check", "cycle", "wait"}
    BY <1>1, <2>1 DEF GoingOn, Alive
  <2>3. QED
    BY <1>1, <2>2 DEF GoingOn, OneThread, Alive
<1>7. AllExpected'
  <2> SUFFICES ASSUME NEW h \in Handler PROVE Expected(h)'
    BY DEF AllExpected
  <2>1. Expected(h)
    BY DEF InOrder, AllExpected
  <2>2. QED
    BY <1>1, <1>4, <1>5, <1>6, <2>1 DEF Expected, Step
<1>8. AtRest'
  BY <1>1, <1>4, <1>6 DEF InOrder, AtRest, AllIdle
<1>9. Unbuilt' /\ OthersToldToStop' /\ OneRequest'
  BY <1>1 DEF InOrder, Unbuilt, OthersToldToStop, OneRequest, Unlaunched, NoThread
<1>10. LoopsOwned'
  BY <1>1 DEF InOrder, LoopsOwned, Alive
<1>11. QED
  BY <1>7, <1>8, <1>9, <1>10 DEF InOrder

LEMMA OrderStep == SchedulerTypeOK /\ InOrder /\ [SchedulerNext]_schedulerVars => InOrder'
<1> SUFFICES ASSUME SchedulerTypeOK, InOrder, [SchedulerNext]_schedulerVars, serial' PROVE InOrder'
  BY DEF InOrder
<1>1. serial
  BY DEF SchedulerNext, StartRequest, BuildScheduler, EnterStart, Launch, MakeThread, StartThread,
         StopRequest, EnterStop, SignalStop, JoinThread, LoopStep, CheckEvent, FinishCycle,
         WakeUp, MoveTo, GoTo, Done, Enter, Arrive, schedulerVars, requests
<1>2. CASE UNCHANGED schedulerVars
  BY <1>2
  DEF schedulerVars, objects, threads, requests, InOrder, OneRequest, Unbuilt, OthersToldToStop,
      LoopsOwned, AtRest, AllIdle, AllExpected, Expected, Unlaunched, Launched, Threaded,
      GoingOn, ToldToStop, NoThread, OneThread, Alive
<1>3. QED
  BY <1>1, <1>2, OrderStart, OrderLaunch, OrderStop, OrderLoop DEF SchedulerNext

LEMMA OrderMeansOneLoop == SchedulerTypeOK /\ InOrder => OneLoopWhenSerial
<1> SUFFICES ASSUME SchedulerTypeOK, InOrder, serial
             PROVE  /\ Cardinality(Unstopped) <= 1
                    /\ AllIdle => Unstopped = {t \in Thread : current # None /\ IsRunning(current)
                                                              /\ thread[current] = t}
  BY DEF OneLoopWhenSerial
<1>1. \A t \in Unstopped : t \in Thread /\ Alive(t) /\ owner[t] = current /\ current # None
                           /\ current \notin stopping
  <2> SUFFICES ASSUME NEW t \in Unstopped
               PROVE  t \in Thread /\ Alive(t) /\ owner[t] = current /\ current # None
                      /\ current \notin stopping
    OBVIOUS
  <2>1. t \in Thread /\ Alive(t) /\ owner[t] \notin stopping
    BY DEF Unstopped
  <2>2. owner[t] \in 1 .. built
    BY <2>1 DEF InOrder, LoopsOwned, Alive
  <2>3. owner[t] = current
    BY <2>1, <2>2 DEF InOrder, OthersToldToStop
  <2>4. QED
    BY <2>1, <2>2, <2>3, Built DEF None
<1>2. \/ current = None
      \/ /\ current # None
         /\ \/ NoThread(current) \/ OneThread(current) \/ current \in stopping
  <2>1. CASE AllIdle
    BY <2>1 DEF InOrder, AtRest, GoingOn, ToldToStop
  <2>2. CASE ~AllIdle
    <3>1. PICK h \in Handler : pc[h] \in Step \ {"idle"}
      BY <2>2 DEF AllIdle, SchedulerTypeOK
    <3>2. QED
      BY <3>1
      DEF InOrder, AllExpected, Expected, Step, Unlaunched, Launched, Threaded, GoingOn,
          ToldToStop
  <2>3. QED
    BY <2>1, <2>2
<1>3. \A t \in Unstopped : t = thread[current]
  BY <1>1, <1>2 DEF NoThread, OneThread
<1>4. Cardinality(Unstopped) <= 1
  <2>1. CASE Unstopped = {}
    BY <2>1, FS_EmptySet
  <2>2. CASE Unstopped # {}
    <3>1. Unstopped = {thread[current]}
      BY <1>3, <2>2
    <3>2. Cardinality(Unstopped) = 1
      BY <3>1, FS_Singleton
    <3>3. QED
      BY <3>2
  <2>3. QED
    BY <2>1, <2>2
<1>5. ASSUME AllIdle
      PROVE  Unstopped = {t \in Thread : current # None /\ IsRunning(current)
                                         /\ thread[current] = t}
  <2>1. ASSUME NEW t \in Unstopped
        PROVE  t \in Thread /\ current # None /\ IsRunning(current) /\ thread[current] = t
    <3>1. t \in Thread /\ current # None /\ current \notin stopping /\ thread[current] = t
      BY <1>1, <1>3
    <3>2. GoingOn(current)
      BY <1>5, <3>1 DEF InOrder, AtRest, ToldToStop
    <3>3. QED
      BY <3>1, <3>2 DEF GoingOn, OneThread, IsRunning
  <2>2. ASSUME NEW t \in Thread, current # None, IsRunning(current), thread[current] = t
        PROVE  t \in Unstopped
    <3>1. GoingOn(current)
      BY <1>5, <2>2 DEF InOrder, AtRest, ToldToStop, IsRunning
    <3>2. QED
      BY <2>2, <3>1 DEF GoingOn, OneThread, Unstopped, IsRunning
  <2>3. QED
    BY <2>1, <2>2
<1>6. QED
  BY <1>4, <1>5

\* As long as start and stop requests come one at a time, at most one loop goes on, and
\* between requests it is the one is_running and stop know of.
THEOREM OneLoopAtATime == SchedulerSpec => []OneLoopWhenSerial
<1>1. SchedulerInit => InOrder
  BY SchedulerAssumption
  DEF SchedulerInit, InOrder, OneRequest, Unbuilt, OthersToldToStop, LoopsOwned, AtRest, AllExpected,
      Expected, Unlaunched, NoThread, Scheduler, None
<1>2. QED
  BY <1>1, OrderStep, OrderMeansOneLoop, SchedulerTyping, PTL DEF SchedulerSpec
-----------------------------------------------------------------------------
\* A set of natural numbers has a least one: the sets 1 .. n are well founded under
\* inclusion.
LEMMA LeastNatural ==
    ASSUME NEW T \in SUBSET Nat, T # {}
    PROVE  \E x \in T : \A y \in T : x <= y
<1> DEFINE U == {1 .. n : n \in T}
<1>1. U \subseteq FiniteSubsetsOf(Nat)
  BY FS_Interval DEF FiniteSubsetsOf
<1>2. U # {}
  OBVIOUS
<1>3. IsWellFoundedOn(StrictSubsetOrdering(Nat), FiniteSubsetsOf(Nat))
  BY FS_StrictSubsetOrderingWellFounded
<1>4. PICK u \in U : \A w \in U : ~(<<w, u>> \in StrictSubsetOrdering(Nat))
  <2> HIDE DEF U
  <2> QED BY <1>1, <1>2, <1>3, WFMin
<1>5. PICK x \in T : u = 1 .. x
  OBVIOUS
<1>6. ASSUME NEW y \in T, y < x
      PROVE  FALSE
  <2>1. <<1 .. y, 1 .. x>> \in StrictSubsetOrdering(Nat)
    BY <1>6 DEF StrictSubsetOrdering
  <2> QED BY <2>1, <1>4, <1>5
<1> QED BY <1>6

\* A set of places has a last one.
LEMMA GreatestPlace ==
    ASSUME NEW n \in Nat, NEW T \in SUBSET (1 .. n), T # {}
    PROVE  \E x \in T : \A y \in T : y <= x
<1> DEFINE U == {n - x : x \in T}
<1>1. U \in SUBSET Nat /\ U # {}
  <2>1. PICK x \in T : TRUE
    OBVIOUS
  <2>2. n - x \in U
    OBVIOUS
  <2>3. \A y \in 1 .. n : n - y \in Nat
    OBVIOUS
  <2> QED BY <2>2, <2>3
<1>2. PICK u \in U : \A w \in U : u <= w
  <2> HIDE DEF U
  <2> QED BY <1>1, LeastNatural
<1>3. PICK x \in T : u = n - x
  OBVIOUS
<1>4. ASSUME NEW y \in T PROVE y <= x
  <2>1. n - y \in U
    OBVIOUS
  <2>2. u <= n - y
    BY <1>2, <2>1
  <2> QED BY <1>3, <2>2
<1> QED BY <1>4

-----------------------------------------------------------------------------
(***************************************************************************)
(* Forecasts.  Sums of a sequence from one end to the other; what holds of *)
(* all of them holds since no shortest one fails.                          *)
(***************************************************************************)
LEMMA PartialSums ==
    ASSUME NEW s \in Seq(Int)
    PROVE  \E g \in [0 .. Len(s) -> Int] :
              /\ g[0] = 0 /\ \A i \in 1 .. Len(s) : g[i] = g[i - 1] + s[i]
              /\ SumOf(s) = g[Len(s)]
<1> DEFINE n == Len(s)
           Sums(g, k) == /\ g \in [0 .. k -> Int] /\ g[0] = 0
                         /\ \A i \in 1 .. k : g[i] = g[i - 1] + s[i]
           T == {k \in 0 .. n : ~ \E g : Sums(g, k)}
<1>0. n \in Nat /\ \A i \in 1 .. n : s[i] \in Int
  OBVIOUS
<1>1. T = {}
  <2> SUFFICES ASSUME T # {} PROVE FALSE
    OBVIOUS
  <2>1. PICK k \in T : \A y \in T : k <= y
    <3>1. T \in SUBSET Nat
      BY <1>0
    <3> HIDE DEF T
    <3> QED BY <3>1, LeastNatural
  <2>2. k # 0
    <3>1. Sums([i \in 0 .. 0 |-> 0], 0)
      OBVIOUS
    <3> HIDE DEF Sums
    <3> QED BY <3>1
  <2>3. PICK g : Sums(g, k - 1)
    <3>1. k - 1 \in 0 .. n /\ ~(k <= k - 1)
      BY <1>0, <2>2
    <3> HIDE DEF Sums
    <3> QED BY <2>1, <3>1
  <2>4. Sums([i \in 0 .. k |-> IF i = k THEN g[k - 1] + s[k] ELSE g[i]], k)
    <3> DEFINE f == [i \in 0 .. k |-> IF i = k THEN g[k - 1] + s[k] ELSE g[i]]
    <3>1. k \in 1 .. n /\ k - 1 \in 0 .. k - 1 /\ s[k] \in Int
      BY <1>0, <2>2
    <3>2. f \in [0 .. k -> Int] /\ f[0] = 0
      BY <2>3, <3>1
    <3>3. \A i \in 1 .. k : f[i] = f[i - 1] + s[i]
      BY <2>3, <3>1
    <3> QED BY <3>2, <3>3
  <2> HIDE DEF Sums
  <2> QED BY <2>4
<1>2. PICK g : Sums(g, n)
  <2> HIDE DEF Sums
  <2> QED BY <1>0, <1>1
<1> DEFINE Jump(f) == [i \in 0 .. n |-> IF i = 0 THEN 0 ELSE f[i - 1] + s[i]]
           upTo == CHOOSE f : f = Jump(f)
<1>3. g = Jump(g)
  BY <1>0, <1>2
<1>4. upTo = Jump(upTo)
  <2> HIDE DEF Jump
  <2> QED BY <1>3
<1>5. SumOf(s) = upTo[n]
  BY DEF SumOf
<1> HIDE DEF upTo
<1> DEFINE W == {k \in 0 .. n : upTo[k] # g[k]}
<1>6. W = {}
  <2> SUFFICES ASSUME W # {} PROVE FALSE
    OBVIOUS
  <2>1. PICK k \in W : \A y \in W : k <= y
    <3>1. W \in SUBSET Nat
      BY <1>0
    <3> HIDE DEF W
    <3> QED BY <3>1, LeastNatural
  <2>2. upTo[k] = IF k = 0 THEN 0 ELSE upTo[k - 1] + s[k]
    BY <1>4
  <2>3. k # 0
    BY <1>2, <2>2
  <2>4. k - 1 \in 0 .. n /\ ~(k <= k - 1) /\ k \in 1 .. n
    BY <1>0, <2>3
  <2>5. upTo[k - 1] = g[k - 1]
    BY <2>1, <2>4
  <2> QED BY <1>2, <2>2, <2>3, <2>4, <2>5
<1>7. upTo[n] = g[n]
  BY <1>0, <1>6
<1> QED BY <1>2, <1>5, <1>7

Histories == Seq([at : Int, value : Int])
TimesInOrder(h) == \A i, j \in 1 .. Len(h) : i < j => h[i].at < h[j].at

LEMMA HistoryTyped ==
    ASSUME NEW h \in Histories
    PROVE  /\ Len(h) \in Nat /\ DOMAIN h = 1 .. Len(h)
           /\ \A i \in 1 .. Len(h) : h[i].at \in Int /\ h[i].value \in Int
<1> DEFINE Snap == [at : Int, value : Int]
<1>1. h \in Seq(Snap)
  BY DEF Histories
<1>2. \A e \in Snap : e.at \in Int /\ e.value \in Int
  OBVIOUS
<1> HIDE DEF Snap
<1>3. Len(h) \in Nat /\ DOMAIN h = 1 .. Len(h) /\ \A i \in 1 .. Len(h) : h[i] \in Snap
  BY <1>1
<1> QED BY <1>2, <1>3

LEMMA Square ==
    ASSUME NEW a \in Int, NEW b \in Int
    PROVE  /\ (a - b) * (a - b) >= 0 /\ a # b => (a - b) * (a - b) > 0
           /\ (a - b) * (a - b) = a * a - 2 * a * b + b * b
OBVIOUS

LEMMA Cancel ==
    ASSUME NEW a \in Int, NEW b \in Int, NEW c \in Int, c > 0
    PROVE  /\ c * a = c * b => a = b
           /\ c * a <= c * b => a <= b
           /\ c * a > 0 => a > 0
           /\ a > 0 => c * a > 0
           /\ a < 0 => c * a < 0
OBVIOUS

\* The sums the slope is made of, up to each snapshot.
SumsOf(h, x, y, xx, xy) ==
    /\ {x, y, xx, xy} \subseteq [0 .. Len(h) -> Int]
    /\ x[0] = 0 /\ y[0] = 0 /\ xx[0] = 0 /\ xy[0] = 0
    /\ \A i \in 1 .. Len(h) :
          /\ x[i] = x[i - 1] + h[i].at /\ y[i] = y[i - 1] + h[i].value
          /\ xx[i] = xx[i - 1] + h[i].at * h[i].at
          /\ xy[i] = xy[i - 1] + h[i].at * h[i].value

LEMMA SlopeFromSums ==
    ASSUME NEW h \in Histories
    PROVE  \E x, y, xx, xy :
              /\ SumsOf(h, x, y, xx, xy)
              /\ LET n == Len(h)
                     below == n * xx[n] - x[n] * x[n]
                 IN Slope(h) = IF n < 2 \/ below = 0 THEN <<0, 1>>
                               ELSE <<n * xy[n] - x[n] * y[n], below>>
<1> DEFINE n == Len(h)
           sx  == [i \in DOMAIN h |-> h[i].at]
           sy  == [i \in DOMAIN h |-> h[i].value]
           sxx == [i \in DOMAIN h |-> h[i].at * h[i].at]
           sxy == [i \in DOMAIN h |-> h[i].at * h[i].value]
<1>1. /\ n \in Nat /\ DOMAIN h = 1 .. n
      /\ \A i \in 1 .. n : h[i].at \in Int /\ h[i].value \in Int
  BY HistoryTyped
<1>2. \A i \in 1 .. n : h[i].at * h[i].at \in Int /\ h[i].at * h[i].value \in Int
  BY <1>1
<1>3. /\ sx \in Seq(Int) /\ Len(sx) = n /\ sy \in Seq(Int) /\ Len(sy) = n
      /\ sxx \in Seq(Int) /\ Len(sxx) = n /\ sxy \in Seq(Int) /\ Len(sxy) = n
  <2> HIDE DEF n
  <2>1. \A f : f \in [1 .. n -> Int] => f \in Seq(Int) /\ Len(f) = n
    BY <1>1
  <2>2. sx \in [1 .. n -> Int] /\ sy \in [1 .. n -> Int] /\ sxx \in [1 .. n -> Int] /\ sxy \in [1 .. n -> Int]
    BY <1>1, <1>2
  <2> HIDE DEF sx, sy, sxx, sxy
  <2> QED BY <2>1, <2>2
<1>4. PICK x \in [0 .. n -> Int] : x[0] = 0 /\ (\A i \in 1 .. n : x[i] = x[i - 1] + sx[i]) /\ SumOf(sx) = x[n]
  <2> HIDE DEF sx, n
  <2> QED BY <1>3, PartialSums
<1>5. PICK y \in [0 .. n -> Int] : y[0] = 0 /\ (\A i \in 1 .. n : y[i] = y[i - 1] + sy[i]) /\ SumOf(sy) = y[n]
  <2> HIDE DEF sy, n
  <2> QED BY <1>3, PartialSums
<1>6. PICK xx \in [0 .. n -> Int] : xx[0] = 0 /\ (\A i \in 1 .. n : xx[i] = xx[i - 1] + sxx[i]) /\ SumOf(sxx) = xx[n]
  <2> HIDE DEF sxx, n
  <2> QED BY <1>3, PartialSums
<1>7. PICK xy \in [0 .. n -> Int] : xy[0] = 0 /\ (\A i \in 1 .. n : xy[i] = xy[i - 1] + sxy[i]) /\ SumOf(sxy) = xy[n]
  <2> HIDE DEF sxy, n
  <2> QED BY <1>3, PartialSums
<1>8. \A i \in 1 .. n : sx[i] = h[i].at /\ sy[i] = h[i].value
                        /\ sxx[i] = h[i].at * h[i].at /\ sxy[i] = h[i].at * h[i].value
  BY <1>1
<1>9. SumsOf(h, x, y, xx, xy)
  BY <1>4, <1>5, <1>6, <1>7, <1>8 DEF SumsOf
<1>10. Slope(h) = LET below == n * SumOf(sxx) - SumOf(sx) * SumOf(sx)
                  IN IF n < 2 \/ below = 0 THEN <<0, 1>>
                     ELSE <<n * SumOf(sxy) - SumOf(sx) * SumOf(sy), below>>
  BY DEF Slope
<1> HIDE DEF sx, sy, sxx, sxy
<1>11. Slope(h) = LET below == n * xx[n] - x[n] * x[n]
                  IN IF n < 2 \/ below = 0 THEN <<0, 1>> ELSE <<n * xy[n] - x[n] * y[n], below>>
  BY <1>4, <1>5, <1>6, <1>7, <1>10
<1> QED BY <1>9, <1>11, Zenon

\* x and xx are the sums of the times and of their squares.
TimesSummed(n, stamps, x, xx) ==
    /\ n \in Nat /\ stamps \in [1 .. n -> Int] /\ x \in [0 .. n -> Int] /\ xx \in [0 .. n -> Int]
    /\ x[0] = 0 /\ xx[0] = 0
    /\ \A i \in 1 .. n : x[i] = x[i - 1] + stamps[i] /\ xx[i] = xx[i - 1] + stamps[i] * stamps[i]

Away(t, x, xx, k)  == xx[k] - 2 * t * x[k] + k * (t * t)
SpreadOf(x, xx, k) == k * xx[k] - x[k] * x[k]

LEMMA SumsTyped ==
    ASSUME NEW n, NEW stamps, NEW x, NEW xx, TimesSummed(n, stamps, x, xx)
    PROVE  /\ n \in Nat
           /\ \A k \in 1 .. n : stamps[k] \in Int
           /\ \A k \in 0 .. n : /\ x[k] \in Int /\ xx[k] \in Int /\ SpreadOf(x, xx, k) \in Int
                                /\ \A t \in Int : Away(t, x, xx, k) \in Int
<1>1. /\ n \in Nat /\ stamps \in [1 .. n -> Int] /\ x \in [0 .. n -> Int] /\ xx \in [0 .. n -> Int]
  BY DEF TimesSummed
<1>2. \A k \in 0 .. n : x[k] \in Int /\ xx[k] \in Int /\ k \in Int
  BY <1>1
<1>3. \A a, b, c, t \in Int : a * b - c * c \in Int /\ a - 2 * t * b + c * (t * t) \in Int
  OBVIOUS
<1> QED BY <1>1, <1>2, <1>3 DEF SpreadOf, Away

LEMMA OneMoreTime ==
    ASSUME NEW n, NEW stamps, NEW x, NEW xx, TimesSummed(n, stamps, x, xx), NEW k \in 1 .. n
    PROVE  /\ \A t \in Int : Away(t, x, xx, k) = Away(t, x, xx, k - 1) + (stamps[k] - t) * (stamps[k] - t)
           /\ SpreadOf(x, xx, k) = SpreadOf(x, xx, k - 1) + Away(stamps[k], x, xx, k - 1)
<1> DEFINE a == stamps[k]
           b == x[k - 1]
           c == xx[k - 1]
<1>1. /\ a \in Int /\ b \in Int /\ c \in Int /\ k \in Int
      /\ x[k] = b + a /\ xx[k] = c + a * a
  BY DEF TimesSummed
<1>2. /\ SpreadOf(x, xx, k) = k * (c + a * a) - (b + a) * (b + a)
      /\ SpreadOf(x, xx, k - 1) = (k - 1) * c - b * b
      /\ Away(a, x, xx, k - 1) = c - 2 * a * b + (k - 1) * (a * a)
  BY <1>1 DEF SpreadOf, Away
<1>3. \A t : /\ Away(t, x, xx, k) = (c + a * a) - 2 * t * (b + a) + k * (t * t)
             /\ Away(t, x, xx, k - 1) = c - 2 * t * b + (k - 1) * (t * t)
  BY <1>1 DEF Away
<1> HIDE DEF a, b, c
<1>4. k * (c + a * a) - (b + a) * (b + a) = ((k - 1) * c - b * b) + (c - 2 * a * b + (k - 1) * (a * a))
  BY <1>1
<1>5. \A t \in Int : (c + a * a) - 2 * t * (b + a) + k * (t * t)
                        = (c - 2 * t * b + (k - 1) * (t * t)) + (a - t) * (a - t)
  BY <1>1
<1> QED BY <1>2, <1>3, <1>4, <1>5 DEF a

\* A time that none of the others is has a distance from them.
LEMMA TimeAway ==
    ASSUME NEW n, NEW stamps, NEW x, NEW xx, TimesSummed(n, stamps, x, xx),
           NEW t \in Int, NEW m \in 1 .. n, \A i \in 1 .. m : stamps[i] # t
    PROVE  Away(t, x, xx, m) > 0
<1> DEFINE T == {k \in 1 .. m : ~(Away(t, x, xx, k) > 0)}
<1>0. n \in Nat
  BY SumsTyped
<1>1. \A k \in 0 .. m : Away(t, x, xx, k) \in Int
  <2>1. \A k \in 0 .. m : k \in 0 .. n
    BY <1>0
  <2> QED BY <2>1, SumsTyped
<1>2. Away(t, x, xx, 0) = 0
  BY DEF Away, TimesSummed
<1>3. \A k \in 1 .. m : Away(t, x, xx, k) > Away(t, x, xx, k - 1)
  <2> TAKE k \in 1 .. m
  <2>1. k \in 1 .. n /\ k \in 0 .. m /\ k - 1 \in 0 .. m
    BY <1>0
  <2>2. Away(t, x, xx, k) = Away(t, x, xx, k - 1) + (stamps[k] - t) * (stamps[k] - t)
    BY <2>1, OneMoreTime
  <2>3. stamps[k] \in Int /\ stamps[k] # t
    BY <2>1, SumsTyped
  <2>4. (stamps[k] - t) * (stamps[k] - t) > 0 /\ (stamps[k] - t) * (stamps[k] - t) \in Int
    <3>1. \A a, b \in Int : (a - b) * (a - b) \in Int /\ (a # b => (a - b) * (a - b) > 0)
      BY Square
    <3> QED BY <2>3, <3>1, Zenon
  <2>5. Away(t, x, xx, k) \in Int /\ Away(t, x, xx, k - 1) \in Int
    BY <1>1, <2>1
  <2> QED BY <2>2, <2>4, <2>5
<1>4. T = {}
  <2> SUFFICES ASSUME T # {} PROVE FALSE
    OBVIOUS
  <2>1. PICK k \in T : \A z \in T : k <= z
    <3>1. T \in SUBSET Nat
      BY <1>0
    <3> HIDE DEF T
    <3> QED BY <3>1, LeastNatural
  <2>2. k \in 1 .. m /\ k - 1 \in 0 .. m /\ k \in 0 .. m /\ ~(k <= k - 1)
    BY <1>0
  <2>3. CASE k = 1
    BY <1>1, <1>2, <1>3, <2>2, <2>3
  <2>4. CASE k # 1
    <3>1. k - 1 \in 1 .. m
      BY <2>2, <2>4
    <3>2. Away(t, x, xx, k - 1) > 0
      BY <2>1, <2>2, <3>1
    <3> QED BY <1>1, <1>3, <2>2, <3>2
  <2> QED BY <2>3, <2>4
<1>5. m \in 1 .. m
  BY <1>0
<1> QED BY <1>4, <1>5

\* Times that differ spread: what _linreg divides by is positive.
LEMMA TimesAreSpread ==
    ASSUME NEW n, NEW stamps, NEW x, NEW xx, TimesSummed(n, stamps, x, xx),
           \A i, j \in 1 .. n : i < j => stamps[i] < stamps[j]
    PROVE  n >= 2 => SpreadOf(x, xx, n) > 0
<1> DEFINE T == {k \in 2 .. n : ~(SpreadOf(x, xx, k) > 0)}
<1>0. n \in Nat
  BY SumsTyped
<1>1. \A k \in 0 .. n : SpreadOf(x, xx, k) \in Int
  BY SumsTyped
<1>2. n >= 1 => SpreadOf(x, xx, 1) = 0
  <2> SUFFICES ASSUME n >= 1 PROVE SpreadOf(x, xx, 1) = 0
    OBVIOUS
  <2>1. 1 \in 1 .. n
    BY <1>0
  <2>2. x[1] = stamps[1] /\ xx[1] = stamps[1] * stamps[1] /\ stamps[1] \in Int
    BY <2>1 DEF TimesSummed
  <2> QED BY <2>2 DEF SpreadOf
<1>3. \A k \in 2 .. n : SpreadOf(x, xx, k) > SpreadOf(x, xx, k - 1)
  <2> TAKE k \in 2 .. n
  <2>1. k - 1 \in 1 .. n /\ k - 1 \in 0 .. n /\ k \in 1 .. n /\ k \in 0 .. n
    BY <1>0
  <2>2. stamps[k] \in Int /\ \A i \in 1 .. k - 1 : stamps[i] # stamps[k]
    <3>1. stamps[k] \in Int /\ \A i \in 1 .. n : stamps[i] \in Int
      BY <2>1, SumsTyped
    <3>2. \A i \in 1 .. k - 1 : i \in 1 .. n /\ i < k
      BY <1>0
    <3> QED BY <2>1, <3>1, <3>2
  <2>3. Away(stamps[k], x, xx, k - 1) > 0
    BY <2>1, <2>2, TimeAway
  <2>4. SpreadOf(x, xx, k) = SpreadOf(x, xx, k - 1) + Away(stamps[k], x, xx, k - 1)
    BY <2>1, OneMoreTime
  <2>5. SpreadOf(x, xx, k - 1) \in Int /\ Away(stamps[k], x, xx, k - 1) \in Int
    BY <2>1, <2>2, SumsTyped
  <2> QED BY <2>3, <2>4, <2>5
<1>4. T = {}
  <2> SUFFICES ASSUME T # {} PROVE FALSE
    OBVIOUS
  <2>1. PICK k \in T : \A z \in T : k <= z
    <3>1. T \in SUBSET Nat
      BY <1>0
    <3> HIDE DEF T
    <3> QED BY <3>1, LeastNatural
  <2>2. k \in 2 .. n /\ k - 1 \in 0 .. n /\ k \in 0 .. n /\ ~(k <= k - 1) /\ n >= 1
    BY <1>0
  <2>3. CASE k = 2
    BY <1>1, <1>2, <1>3, <2>2, <2>3
  <2>4. CASE k # 2
    <3>1. k - 1 \in 2 .. n
      BY <2>2, <2>4
    <3>2. SpreadOf(x, xx, k - 1) > 0
      BY <2>1, <2>2, <3>1
    <3> QED BY <1>1, <1>3, <2>2, <3>2
  <2> QED BY <2>3, <2>4
<1>5. n >= 2 => n \in 2 .. n
  BY <1>0
<1> QED BY <1>4, <1>5

LEMMA HistorySpread ==
    ASSUME NEW h \in Histories, TimesInOrder(h), NEW x, NEW y, NEW xx, NEW xy, SumsOf(h, x, y, xx, xy)
    PROVE  Len(h) >= 2 => Len(h) * xx[Len(h)] - x[Len(h)] * x[Len(h)] > 0
<1> DEFINE n == Len(h)
           stamps == [i \in 1 .. n |-> h[i].at]
<1>1. n \in Nat /\ stamps \in [1 .. n -> Int] /\ \A i \in 1 .. n : stamps[i] = h[i].at
  BY HistoryTyped
<1>2. x \in [0 .. n -> Int] /\ xx \in [0 .. n -> Int] /\ x[0] = 0 /\ xx[0] = 0
  BY DEF SumsOf
<1>3. \A i \in 1 .. n : x[i] = x[i - 1] + stamps[i] /\ xx[i] = xx[i - 1] + stamps[i] * stamps[i]
  BY <1>1 DEF SumsOf
<1>4. \A i, j \in 1 .. n : i < j => stamps[i] < stamps[j]
  BY <1>1 DEF TimesInOrder
<1> HIDE DEF n, stamps
<1>5. n >= 2 => n * xx[n] - x[n] * x[n] > 0
  <2>1. TimesSummed(n, stamps, x, xx)
    BY <1>1, <1>2, <1>3 DEF TimesSummed
  <2> QED BY <1>4, <2>1, TimesAreSpread DEF SpreadOf
<1> QED BY <1>5 DEF n

LEMMA SlopeTyped ==
    ASSUME NEW h \in Histories, TimesInOrder(h)
    PROVE  Slope(h)[1] \in Int /\ Slope(h)[2] \in Int /\ Slope(h)[2] > 0
<1>1. PICK x, y, xx, xy :
              /\ SumsOf(h, x, y, xx, xy)
              /\ LET n == Len(h)
                     below == n * xx[n] - x[n] * x[n]
                 IN Slope(h) = IF n < 2 \/ below = 0 THEN <<0, 1>>
                               ELSE <<n * xy[n] - x[n] * y[n], below>>
  BY SlopeFromSums
<1> DEFINE n == Len(h)
           below == n * xx[n] - x[n] * x[n]
           above == n * xy[n] - x[n] * y[n]
<1>2. n \in Nat /\ x[n] \in Int /\ y[n] \in Int /\ xx[n] \in Int /\ xy[n] \in Int
  BY <1>1, HistoryTyped DEF SumsOf
<1>3. below \in Int /\ above \in Int /\ (n >= 2 => below > 0)
  <2>1. n >= 2 => below > 0
    BY <1>1, HistorySpread, Zenon
  <2>2. below \in Int
    BY <1>2
  <2>3. above \in Int
    BY <1>2
  <2> QED BY <2>1, <2>2, <2>3
<1>4. Slope(h) = IF n < 2 \/ below = 0 THEN <<0, 1>> ELSE <<above, below>>
  BY <1>1
<1> HIDE DEF n, below, above
<1> QED BY <1>2, <1>3, <1>4

\* Of snapshots on a line it is the line's slope.
OnLine(h, X, Y, C) == \A i \in 1 .. Len(h) : X * h[i].value = Y * h[i].at + C

LEMMA SlopeOfLine ==
    ASSUME NEW h \in Histories, TimesInOrder(h), Len(h) >= 2,
           NEW X \in Int, NEW Y \in Int, NEW C \in Int, OnLine(h, X, Y, C)
    PROVE  X * Slope(h)[1] = Y * Slope(h)[2]
<1>1. PICK x, y, xx, xy :
              /\ SumsOf(h, x, y, xx, xy)
              /\ LET n == Len(h)
                     below == n * xx[n] - x[n] * x[n]
                 IN Slope(h) = IF n < 2 \/ below = 0 THEN <<0, 1>>
                               ELSE <<n * xy[n] - x[n] * y[n], below>>
  BY SlopeFromSums
<1> DEFINE n == Len(h)
           Line(k) == X * y[k] = Y * x[k] + k * C /\ X * xy[k] = Y * xx[k] + C * x[k]
           T == {k \in 0 .. n : ~Line(k)}
<1>2. /\ n \in Nat
      /\ \A i \in 1 .. n : h[i].at \in Int /\ h[i].value \in Int
      /\ \A k \in 0 .. n : x[k] \in Int /\ y[k] \in Int /\ xx[k] \in Int /\ xy[k] \in Int
      /\ x[0] = 0 /\ y[0] = 0 /\ xx[0] = 0 /\ xy[0] = 0
      /\ \A i \in 1 .. n : 
          /\ x[i] = x[i - 1] + h[i].at /\ y[i] = y[i - 1] + h[i].value
          /\ xx[i] = xx[i - 1] + h[i].at * h[i].at
          /\ xy[i] = xy[i - 1] + h[i].at * h[i].value
  BY <1>1, HistoryTyped DEF SumsOf
<1>3. T = {}
  <2> SUFFICES ASSUME T # {} PROVE FALSE
    OBVIOUS
  <2>1. PICK k \in T : \A z \in T : k <= z
    <3>1. T \in SUBSET Nat
      BY <1>2
    <3> HIDE DEF T
    <3> QED BY <3>1, LeastNatural
  <2>2. k # 0
    <3>1. Line(0)
      BY <1>2
    <3> HIDE DEF Line
    <3> QED BY <3>1
  <2>3. k \in 1 .. n /\ k - 1 \in 0 .. n /\ ~(k <= k - 1)
    BY <1>2, <2>2
  <2>4. Line(k - 1)
    <3> HIDE DEF Line
    <3> QED BY <2>1, <2>3
  <2> DEFINE t == h[k].at
             v == h[k].value
             x0 == x[k - 1]
             y0 == y[k - 1]
             p0 == xx[k - 1]
             q0 == xy[k - 1]
  <2>5. t \in Int /\ v \in Int /\ x0 \in Int /\ y0 \in Int /\ p0 \in Int /\ q0 \in Int
    BY <1>2, <2>3
  <2>6. x[k] = x0 + t /\ y[k] = y0 + v /\ xx[k] = p0 + t * t /\ xy[k] = q0 + t * v
    BY <1>2, <2>3
  <2>7. X * v = Y * t + C
    BY <2>3 DEF OnLine
  <2>8. X * y0 = Y * x0 + (k - 1) * C /\ X * q0 = Y * p0 + C * x0
    BY <2>4
  <2> HIDE DEF t, v, x0, y0, p0, q0
  <2>9. X * (t * v) = Y * (t * t) + C * t
    <3>1. X * (t * v) = t * (X * v)
      BY <2>5
    <3>2. t * (Y * t + C) = Y * (t * t) + C * t
      BY <2>5
    <3> QED BY <2>7, <3>1, <3>2
  <2>10. X * (y0 + v) = Y * (x0 + t) + k * C
    BY <2>3, <2>5, <2>7, <2>8
  <2>11. X * (q0 + t * v) = Y * (p0 + t * t) + C * (x0 + t)
    <3>1. t * v \in Int /\ t * t \in Int
      BY <2>5
    <3>2. X * (q0 + t * v) = X * q0 + X * (t * v)
      BY <2>5, <3>1
    <3>3. Y * (p0 + t * t) + C * (x0 + t) = Y * p0 + C * x0 + (Y * (t * t) + C * t)
      BY <2>5, <3>1
    <3> QED BY <2>8, <2>9, <3>2, <3>3
  <2>12. Line(k)
    BY <2>6, <2>10, <2>11
  <2> HIDE DEF Line
  <2> QED BY <2>12
<1>4. Line(n)
  <2>1. n \in 0 .. n
    BY <1>2
  <2> HIDE DEF Line
  <2> QED BY <1>3, <2>1
<1> DEFINE below == n * xx[n] - x[n] * x[n]
           above == n * xy[n] - x[n] * y[n]
<1>5. Slope(h)[1] = above /\ Slope(h)[2] = below
  <2>1. below > 0 /\ n >= 2 /\ below \in Int
    <3>1. n >= 2 /\ n \in 0 .. n /\ x[n] \in Int /\ xx[n] \in Int
      BY <1>2
    <3>2. below > 0
      BY <1>1, <3>1, HistorySpread
    <3> QED BY <1>2, <3>1, <3>2
  <2>2. Slope(h) = IF n < 2 \/ below = 0 THEN <<0, 1>> ELSE <<above, below>>
    BY <1>1
  <2> HIDE DEF n, below, above
  <2> QED BY <1>2, <2>1, <2>2
<1>6. X * above = Y * below
  <2> DEFINE a == x[n]
             b == y[n]
             c == xx[n]
             d == xy[n]
  <2>1. n \in Int /\ a \in Int /\ b \in Int /\ c \in Int /\ d \in Int
    BY <1>2
  <2>2. X * b = Y * a + n * C /\ X * d = Y * c + C * a
    BY <1>4
  <2> HIDE DEF n, a, b, c, d
  <2>3. X * (n * d - a * b) = n * (X * d) - a * (X * b)
    BY <2>1
  <2>4. n * (Y * c + C * a) - a * (Y * a + n * C) = Y * (n * c - a * a)
    <3>1. n * (Y * c + C * a) = Y * (n * c) + n * (C * a)
      BY <2>1
    <3>2. a * (Y * a + n * C) = Y * (a * a) + n * (C * a)
      BY <2>1
    <3>3. Y * (n * c - a * a) = Y * (n * c) - Y * (a * a)
      BY <2>1
    <3>4. Y * (n * c) \in Int /\ n * (C * a) \in Int /\ Y * (a * a) \in Int
      BY <2>1
    <3> QED BY <3>1, <3>2, <3>3, <3>4
  <2>5. X * (n * d - a * b) = Y * (n * c - a * a)
    BY <2>2, <2>3, <2>4
  <2> QED BY <2>5 DEF a, b, c, d
<1> QED BY <1>5, <1>6

LEMMA CutHistory ==
    ASSUME NEW h \in Histories, TimesInOrder(h), NEW b \in 0 .. Len(h), NEW a \in 1 .. b + 1
    PROVE  LET s == SubSeq(h, a, b)
           IN /\ s \in Histories /\ Len(s) = b - a + 1 /\ TimesInOrder(s)
              /\ \A i \in 1 .. Len(s) : s[i] = h[a + i - 1]
              /\ \A X, Y, C : OnLine(h, X, Y, C) => OnLine(s, X, Y, C)
<1> DEFINE s == SubSeq(h, a, b)
<1>0. h \in Seq([at : Int, value : Int]) /\ Len(h) \in Nat
  BY DEF Histories
<1>1. s \in Histories /\ Len(s) = b - a + 1 /\ \A i \in 1 .. b - a + 1 : s[i] = h[a + i - 1]
  <2> DEFINE Snap == [at : Int, value : Int]
  <2>1. h \in Seq(Snap) /\ a \in 1 .. Len(h) + 1 /\ b \in a - 1 .. Len(h)
    BY <1>0
  <2> HIDE DEF Snap
  <2>2. s \in Seq(Snap) /\ Len(s) = b - a + 1 /\ \A i \in 1 .. b - a + 1 : s[i] = h[a + i - 1]
    BY <2>1, SubSeqProperties
  <2> QED BY <2>2 DEF Histories, Snap
<1> HIDE DEF s
<1>2. \A i \in 1 .. Len(s) : a + i - 1 \in 1 .. Len(h) /\ s[i] = h[a + i - 1]
  <2> SUFFICES ASSUME NEW i \in 1 .. Len(s)
               PROVE  a + i - 1 \in 1 .. Len(h) /\ s[i] = h[a + i - 1]
    OBVIOUS
  <2>1. i \in 1 .. b - a + 1 /\ s[i] = h[a + i - 1]
    BY <1>1
  <2>2. a + i - 1 \in 1 .. Len(h)
    <3> DEFINE n == Len(h)
    <3>1. n \in Nat /\ b \in 0 .. n /\ a \in 1 .. b + 1 /\ i \in 1 .. b - a + 1
      BY <1>0, <2>1
    <3> HIDE DEF n
    <3>2. a + i - 1 \in 1 .. n
      BY <3>1
    <3> QED BY <3>2 DEF n
  <2> QED BY <2>1, <2>2
<1>3. TimesInOrder(s)
  <2> SUFFICES ASSUME NEW i \in 1 .. Len(s), NEW j \in 1 .. Len(s), i < j
               PROVE  s[i].at < s[j].at
    BY DEF TimesInOrder
  <2>1. a + i - 1 < a + j - 1
    BY <1>0
  <2> QED BY <1>2, <2>1 DEF TimesInOrder
<1>4. \A X, Y, C : OnLine(h, X, Y, C) => OnLine(s, X, Y, C)
  BY <1>2 DEF OnLine
<1> QED BY <1>1, <1>2, <1>3, <1>4 DEF s

LEMMA WindowCut ==
    ASSUME ForecastAssumption, NEW h \in Histories, TimesInOrder(h)
    PROVE  LET w == TrendWindow(h)
           IN /\ w \in Histories /\ TimesInOrder(w)
              /\ Len(w) = IF Len(h) > HistoryLimit THEN HistoryLimit ELSE Len(h)
              /\ \A X, Y, C : OnLine(h, X, Y, C) => OnLine(w, X, Y, C)
<1> DEFINE a == IF Len(h) > HistoryLimit THEN Len(h) - HistoryLimit + 1 ELSE 1
<1>1. HistoryLimit \in Nat /\ Len(h) \in Nat
  BY HistoryTyped DEF ForecastAssumption
<1>2. Len(h) \in 0 .. Len(h) /\ a \in 1 .. Len(h) + 1
      /\ Len(h) - a + 1 = IF Len(h) > HistoryLimit THEN HistoryLimit ELSE Len(h)
  BY <1>1
<1> HIDE DEF a
<1>3. TrendWindow(h) = SubSeq(h, a, Len(h))
  BY DEF TrendWindow, a
<1> QED BY <1>2, <1>3, CutHistory

LEMMA StraightIsLine ==
    ASSUME NEW h \in Histories, TimesInOrder(h), Len(h) >= 2, Straight(h)
    PROVE  \E X, Y, C \in Int : X > 0 /\ OnLine(h, X, Y, C)
<1> DEFINE n == Len(h)
           X == h[n].at - h[1].at
           Y == h[n].value - h[1].value
           C == X * h[1].value - Y * h[1].at
<1>1. n \in Nat /\ n >= 2 /\ \A i \in 1 .. n : h[i].at \in Int /\ h[i].value \in Int
  BY HistoryTyped
<1>2. 1 \in 1 .. n /\ n \in 1 .. n /\ 1 < n
  BY <1>1
<1>3. h[1].at < h[n].at
  BY <1>2 DEF TimesInOrder
<1>4. X \in Int /\ Y \in Int /\ X > 0
  BY <1>1, <1>2, <1>3
<1>5. C \in Int
  BY <1>1, <1>2, <1>4
<1>6. ASSUME NEW i \in 1 .. n
      PROVE  X * h[i].value = Y * h[i].at + C
  <2>1. (h[i].value - h[1].value) * X = Y * (h[i].at - h[1].at)
    <3>1. CASE i = 1
      BY <3>1, <1>1, <1>2, <1>4
    <3>2. CASE i = n
      BY <3>2, <1>1, <1>2, <1>4
    <3>3. CASE i \in 2 .. n - 1
      BY <3>3 DEF Straight
    <3> QED BY <3>1, <3>2, <3>3, <1>1
  <2> DEFINE v == h[i].value
             t == h[i].at
             v0 == h[1].value
             t0 == h[1].at
  <2>2. v \in Int /\ t \in Int /\ v0 \in Int /\ t0 \in Int
    BY <1>1, <1>2
  <2>3. (v - v0) * X = Y * (t - t0) /\ C = X * v0 - Y * t0
    BY <2>1
  <2> HIDE DEF X, Y, C, v, t, v0, t0
  <2>4. X * v = Y * t + C
    BY <1>4, <2>2, <2>3
  <2> QED BY <2>4 DEF v, t
<1> HIDE DEF X, Y, C
<1>7. OnLine(h, X, Y, C)
  BY <1>6 DEF OnLine
<1> QED BY <1>4, <1>5, <1>7

LEMMA AccelerationOfLine ==
    ASSUME NEW h \in Histories, TimesInOrder(h), Len(h) >= 4,
           NEW X \in Int, NEW Y \in Int, NEW C \in Int, X > 0, OnLine(h, X, Y, C)
    PROVE  Acceleration(h)[1] = 0 /\ Acceleration(h)[2] \in Int /\ Acceleration(h)[2] > 0
<1> DEFINE m == Len(h) \div 2
           p == SubSeq(h, 1, m)
           q == SubSeq(h, m + 1, Len(h))
           a == Slope(p)
           b == Slope(q)
<1>1. /\ Len(h) \in Nat /\ m \in 0 .. Len(h) /\ 1 \in 1 .. m + 1 /\ m >= 2
      /\ Len(h) \in 0 .. Len(h) /\ m + 1 \in 1 .. Len(h) + 1 /\ Len(h) - (m + 1) + 1 >= 2 /\ m - 1 + 1 >= 2
  BY HistoryTyped
<1>2. p \in Histories /\ TimesInOrder(p) /\ Len(p) >= 2 /\ OnLine(p, X, Y, C)
  <2> HIDE DEF m
  <2> QED BY <1>1, CutHistory
<1>3. q \in Histories /\ TimesInOrder(q) /\ Len(q) >= 2 /\ OnLine(q, X, Y, C)
  <2> HIDE DEF m
  <2> QED BY <1>1, CutHistory
<1> HIDE DEF m, p, q
<1>4. a[1] \in Int /\ a[2] \in Int /\ a[2] > 0 /\ X * a[1] = Y * a[2]
  BY <1>2, SlopeTyped, SlopeOfLine
<1>5. b[1] \in Int /\ b[2] \in Int /\ b[2] > 0 /\ X * b[1] = Y * b[2]
  BY <1>3, SlopeTyped, SlopeOfLine
<1>6. Acceleration(h)[1] = b[1] * a[2] - a[1] * b[2] /\ Acceleration(h)[2] = a[2] * b[2]
  BY DEF Acceleration, m, p, q
<1> HIDE DEF a, b
<1> DEFINE a1 == a[1]
           a2 == a[2]
           b1 == b[1]
           b2 == b[2]
<1>7. /\ a1 \in Int /\ a2 \in Int /\ b1 \in Int /\ b2 \in Int /\ a2 > 0 /\ b2 > 0
      /\ X * a1 = Y * a2 /\ X * b1 = Y * b2
      /\ Acceleration(h)[1] = b1 * a2 - a1 * b2 /\ Acceleration(h)[2] = a2 * b2
  BY <1>4, <1>5, <1>6
<1> HIDE DEF a1, a2, b1, b2
<1>8. X * (b1 * a2) = X * (a1 * b2)
  <2>1. X * (b1 * a2) = (X * b1) * a2 /\ X * (a1 * b2) = (X * a1) * b2
    BY <1>7
  <2>2. (Y * b2) * a2 = (Y * a2) * b2
    BY <1>7
  <2> QED BY <1>7, <2>1, <2>2
<1>9. b1 * a2 \in Int /\ a1 * b2 \in Int /\ a2 * b2 \in Int /\ a2 * b2 > 0
  BY <1>7, Cancel
<1>10. b1 * a2 = a1 * b2
  BY <1>8, <1>9, Cancel
<1> QED BY <1>7, <1>9, <1>10

LEMMA TrendOfLine ==
    ASSUME ForecastAssumption, setup.named, NEW h \in Histories, TimesInOrder(h), Len(h) >= 4,
           Straight(TrendWindow(h))
    PROVE  TrendOf(h) \in {"rising", "stable"}
<1> DEFINE w == TrendWindow(h)
           accel == Acceleration(w)
           slope == Slope(w)
<1>1. w \in Histories /\ TimesInOrder(w) /\ Len(w) >= 4
  BY WindowCut DEF ForecastAssumption
<1>2. accel[1] = 0 /\ accel[2] \in Int /\ accel[2] > 0
  <2> HIDE DEF w
  <2>1. Len(w) >= 2
    BY <1>1, HistoryTyped
  <2> QED BY <1>1, <2>1, StraightIsLine, AccelerationOfLine DEF w
<1>3. TrendOf(h) = Classified(slope, accel)
  <2>1. ~(Len(w) < 3)
    BY <1>1, HistoryTyped
  <2> QED BY <2>1 DEF TrendOf
<1> HIDE DEF w, accel, slope
<1>4. ~(20 * 1 * accel[1] > accel[2]) /\ ~(20 * (-1) * accel[1] > accel[2])
  BY <1>2
<1> QED BY <1>3, <1>4 DEF Classified

\* The configuration is one of those to try, and what is stored is a baseline or none.
Configured == setup \in Setups /\ ownBaseline \in Baselines \cup {Missing}

\* Forecasts are for one of the rules, an own one if there is one.
LEMMA OneIsForeseen ==
    ASSUME ForecastAssumption, Configured, setup.rules # <<>>
    PROVE  /\ Foreseen \in DOMAIN setup.rules /\ (OwnRules # {} => Foreseen \in OwnRules)
           /\ ForeseenRule \in Rule
<1> DEFINE n == Len(setup.rules)
<1>1. setup.rules \in Seq(Rule)
  BY DEF Configured, ForecastAssumption
<1>2. n \in Nat /\ n # 0 /\ DOMAIN setup.rules = 1 .. n /\ \A i \in 1 .. n : setup.rules[i] \in Rule
  BY <1>1
<1> HIDE DEF n
<1>3. ASSUME NEW S \in SUBSET (1 .. n), S # {}
      PROVE  Max(S) \in S
  <2>1. PICK x \in S : \A y \in S : y <= x
    BY <1>2, <1>3, GreatestPlace
  <2>2. \A y \in S : x \in Int /\ y \in Int
    BY <1>2
  <2>3. \E z \in S : \A y \in S : z >= y
    BY <2>1, <2>2
  <2> QED BY <2>3, Zenon DEF Max
<1>4. OwnRules \subseteq 1 .. n
  BY <1>2 DEF OwnRules
<1>5. 1 .. n # {}
  <2>1. 1 \in 1 .. n
    BY <1>2
  <2> QED BY <2>1
<1>6. Foreseen \in 1 .. n /\ (OwnRules # {} => Foreseen \in OwnRules)
  <2>1. CASE OwnRules # {}
    <3>1. Foreseen = Max(OwnRules)
      BY <2>1 DEF Foreseen
    <3> QED BY <1>3, <1>4, <2>1, <3>1
  <2>2. CASE OwnRules = {}
    <3>1. Foreseen = Max(1 .. n)
      BY <1>2, <2>2 DEF Foreseen
    <3> QED BY <1>3, <1>5, <2>2, <3>1
  <2> QED BY <2>1, <2>2
<1> QED BY <1>2, <1>6 DEF ForeseenRule

LEMMA RuleTyped ==
    ASSUME NEW rule \in Rule
    PROVE  rule.max \in Int /\ rule.max > 0 /\ rule.direction \in {"increase", "decrease", "either"}
BY DEF Rule

LEMMA ForecastMeans ==
    ASSUME ForecastAssumption, Configured, NEW h \in Histories, TimesInOrder(h), h # <<>>,
           ForecastOf(h) # NoForecast
    PROVE  LET f == ForecastOf(h)
               delta == Last(h).value - ownBaseline
           IN /\ f.slope[1] \in Int /\ f.slope[2] \in Int /\ f.slope[2] > 0
              /\ f.slope = Slope(TrendWindow(h)) /\ Len(TrendWindow(h)) >= 3
              /\ setup.named /\ ForeseenRule \in Rule
              /\ delta \in Int /\ Magnitude(delta) < ForeseenRule.max
              /\ f.hours[1] = (ForeseenRule.max - Magnitude(delta)) * f.slope[2]
              /\ f.hours[2] = Magnitude(f.slope[1])
              /\ WillBreach(ForeseenRule, f.slope[1], delta)
              /\ f.hours[1] <= Horizon * f.hours[2]
<1> DEFINE w == TrendWindow(h)
           line == Slope(w)
           delta == Last(h).value - ownBaseline
           left == ForeseenRule.max - Magnitude(delta)
           hours == <<left * line[2], Magnitude(line[1])>>
           due == /\ setup.named /\ Len(w) >= 3 /\ ownBaseline # Missing /\ setup.rules # <<>>
                  /\ left > 0 /\ WillBreach(ForeseenRule, line[1], delta)
                  /\ hours[1] <= Horizon * hours[2]
<1>1. ForecastOf(h) = IF due THEN [slope |-> line, hours |-> hours] ELSE NoForecast
  BY DEF ForecastOf
<1>2. line[1] \in Int /\ line[2] \in Int /\ line[2] > 0
  BY WindowCut, SlopeTyped
<1>4. due /\ ForecastOf(h) = [slope |-> line, hours |-> hours]
  <2> HIDE DEF due, line, hours
  <2> QED BY <1>1
<1>3. delta \in Int
  <2>1. Len(h) \in 1 .. Len(h)
    BY HistoryTyped
  <2>2. Last(h).value \in Int
    BY <2>1, HistoryTyped DEF Last
  <2>3. ownBaseline \in Int
    BY <1>4 DEF Configured, ForecastAssumption
  <2> QED BY <2>2, <2>3
<1>5. ForeseenRule \in Rule
  BY <1>4, OneIsForeseen
<1>6. Magnitude(delta) < ForeseenRule.max
  <2>1. Magnitude(delta) \in Int
    BY <1>3 DEF Magnitude
  <2>2. left > 0 /\ ForeseenRule.max \in Int
    BY <1>4, <1>5, RuleTyped
  <2> HIDE DEF delta
  <2> QED BY <2>1, <2>2
<1> HIDE DEF line
<1>7. /\ ForecastOf(h).slope = line
      /\ ForecastOf(h).hours[1] = hours[1] /\ ForecastOf(h).hours[2] = hours[2]
  BY <1>4
<1> QED BY <1>2, <1>3, <1>4, <1>5, <1>6, <1>7 DEF line

LEMMA MagnitudeOf ==
    ASSUME NEW a \in Int
    PROVE  /\ Magnitude(a) \in Int /\ Magnitude(a) >= 0
           /\ a >= 0 => Magnitude(a) = a
           /\ a <= 0 => Magnitude(a) = -a
BY DEF Magnitude

\* After its hours the line is at the edge of the threshold.
LEMMA ForecastLands ==
    ASSUME ForecastAssumption, Configured, NEW h \in Histories, TimesInOrder(h), h # <<>>,
           ForecastOf(h) # NoForecast, ForeseenRule.direction # "either"
    PROVE  LET f == ForecastOf(h)
               delta == Last(h).value - ownBaseline
               edge  == IF ForeseenRule.direction = "increase" THEN ForeseenRule.max ELSE -ForeseenRule.max
           IN /\ delta * f.slope[2] * f.hours[2] + f.slope[1] * f.hours[1] = edge * f.slope[2] * f.hours[2]
              /\ f.hours[1] <= Horizon * f.hours[2]
<1> DEFINE f == ForecastOf(h)
           rule == ForeseenRule
           top == rule.max
           delta == Last(h).value - ownBaseline
           edge  == IF rule.direction = "increase" THEN top ELSE -top
           a == f.slope[1]
           b == f.slope[2]
           p == f.hours[1]
           q == f.hours[2]
<1>1. /\ a \in Int /\ b \in Int /\ b > 0 /\ delta \in Int /\ rule \in Rule
      /\ p = (top - Magnitude(delta)) * b /\ q = Magnitude(a)
      /\ WillBreach(rule, a, delta) /\ p <= Horizon * q
  BY ForecastMeans
<1>2. top \in Int /\ rule.direction \in {"increase", "decrease"}
  BY <1>1, RuleTyped
<1> HIDE DEF f, delta, a, b, p, q, rule, top
<1>3. CASE rule.direction = "increase"
  <2>1. a > 0 /\ delta > 0 /\ edge = top
    BY <1>1, <1>3 DEF WillBreach
  <2>2. q = a /\ p = (top - delta) * b
    BY <1>1, <2>1, MagnitudeOf
  <2>3. delta * b * a + a * ((top - delta) * b) = top * b * a
    BY <1>1, <1>2
  <2> QED BY <1>1, <2>1, <2>2, <2>3 DEF f, delta, a, b, p, q, rule, top
<1>4. CASE rule.direction = "decrease"
  <2>1. a < 0 /\ delta < 0 /\ edge = -top
    BY <1>1, <1>4 DEF WillBreach
  <2>2. q = -a /\ p = (top + delta) * b
    BY <1>1, <1>2, <2>1, MagnitudeOf
  <2>3. delta * b * (-a) + a * ((top + delta) * b) = (-top) * b * (-a)
    BY <1>1, <1>2
  <2> QED BY <1>1, <2>1, <2>2, <2>3 DEF f, delta, a, b, p, q, rule, top
<1> QED BY <1>2, <1>3, <1>4

\* A metric on its way over the edge, on a line, is forecast to get there.
Steps(X, Y, stride, gap) == X * stride = Y * gap
OnItsWay(top, delta, stride, gap) ==
    /\ delta * stride > 0 /\ top - Magnitude(delta) > 0
    /\ (top - Magnitude(delta)) * gap <= Horizon * Magnitude(stride)

LEMMA SteadyIsForecast ==
    ASSUME ForecastAssumption, Configured, NEW h \in Histories, TimesInOrder(h), Len(h) >= 3,
           NEW X \in Int, NEW Y \in Int, NEW C \in Int, X > 0, OnLine(h, X, Y, C),
           NEW stride \in Int, NEW gap \in Int, gap > 0, Steps(X, Y, stride, gap),
           setup.named, ownBaseline # Missing, setup.rules # <<>>,
           NEW delta \in Int, delta = Last(h).value - ownBaseline,
           OnItsWay(ForeseenRule.max, delta, stride, gap),
           Breached(ForeseenRule, delta + stride)
    PROVE  ForecastOf(h) # NoForecast
<1> DEFINE w == TrendWindow(h)
           a == Slope(w)[1]
           b == Slope(w)[2]
           rule == ForeseenRule
           top == rule.max
           rest == top - Magnitude(delta)
<1>1. /\ w \in Histories /\ TimesInOrder(w) /\ Len(w) >= 3 /\ OnLine(w, X, Y, C)
  BY WindowCut DEF ForecastAssumption
<1>2. a \in Int /\ b \in Int /\ b > 0 /\ X * a = Y * b
  <2> HIDE DEF w
  <2>1. Len(w) >= 2
    BY <1>1, HistoryTyped
  <2> QED BY <1>1, <2>1, SlopeTyped, SlopeOfLine
<1>3. /\ top \in Int /\ top > 0 /\ Horizon \in Nat /\ Magnitude(delta) \in Int /\ rest \in Int
      /\ rule.direction \in {"increase", "decrease", "either"}
  <2>1. top \in Int /\ top > 0 /\ Horizon \in Nat /\ rule.direction \in {"increase", "decrease", "either"}
    <3>1. rule \in Rule
      BY OneIsForeseen
    <3> QED BY <3>1, RuleTyped DEF ForecastAssumption
  <2>2. Magnitude(delta) \in Int
    BY MagnitudeOf, Zenon
  <2> QED BY <2>1, <2>2
<1>0. OnItsWay(top, delta, stride, gap) /\ Breached(rule, delta + stride)
  OBVIOUS
<1> HIDE DEF a, b, w, rule, top
<1>4. gap * a = stride * b
  <2>1. X * (gap * a) = X * (stride * b)
    <3>1. X * (gap * a) = (X * a) * gap /\ X * (stride * b) = (X * stride) * b
      BY <1>2
    <3>2. (Y * b) * gap = (Y * gap) * b
      BY <1>2
    <3> QED BY <1>2, <3>1, <3>2 DEF Steps
  <2>2. gap * a \in Int /\ stride * b \in Int
    BY <1>2
  <2>3. \A u, v \in Int : X * u = X * v => u = v
    BY Cancel
  <2> QED BY <2>1, <2>2, <2>3, Zenon
<1>5. \/ delta > 0 /\ stride > 0 /\ a > 0
      \/ delta < 0 /\ stride < 0 /\ a < 0
  <2>1. (delta > 0 /\ stride > 0) \/ (delta < 0 /\ stride < 0)
    BY <1>0 DEF OnItsWay
  <2>2. CASE delta > 0 /\ stride > 0
    <3>1. b * stride > 0 /\ b * stride = gap * a
      BY <1>2, <1>4, <2>2, Cancel
    <3>2. gap * a > 0
      BY <3>1
    <3> QED BY <1>2, <2>2, <3>2, Cancel
  <2>3. CASE delta < 0 /\ stride < 0
    <3>1. b * stride < 0 /\ b * stride = gap * a
      BY <1>2, <1>4, <2>3, Cancel
    <3>2. a > 0 => gap * a > 0
      BY <1>2, Cancel
    <3>3. a = 0 => gap * a = 0
      OBVIOUS
    <3> QED BY <1>2, <2>3, <3>1, <3>2, <3>3
  <2> QED BY <2>1, <2>2, <2>3
<1>6. WillBreach(rule, a, delta)
  <2>1. CASE delta > 0 /\ a > 0 /\ stride > 0
    <3>1. rule.direction # "decrease"
      BY <1>0, <1>3, <2>1 DEF Breached, top
    <3> QED BY <2>1, <3>1, <1>2 DEF WillBreach
  <2>2. CASE delta < 0 /\ a < 0 /\ stride < 0
    <3>1. rule.direction # "increase"
      BY <1>0, <1>3, <2>2 DEF Breached, top
    <3> QED BY <2>2, <3>1, <1>2 DEF WillBreach
  <2> QED BY <1>5, <2>1, <2>2
<1>7. gap * Magnitude(a) = Magnitude(stride) * b
  <2>1. CASE stride > 0 /\ a > 0
    <3>1. Magnitude(a) = a /\ Magnitude(stride) = stride
      BY <1>2, <2>1, MagnitudeOf
    <3> QED BY <1>2, <1>4, <3>1
  <2>2. CASE stride < 0 /\ a < 0
    <3>1. Magnitude(a) = -a /\ Magnitude(stride) = -stride
      BY <1>2, <2>2, MagnitudeOf
    <3> QED BY <1>2, <1>4, <3>1
  <2> QED BY <1>5, <2>1, <2>2
<1>8. rest * b <= Horizon * Magnitude(a)
  <2> DEFINE u == Magnitude(a)
             v == Magnitude(stride)
  <2>1. u \in Int /\ v \in Int
    BY <1>2, MagnitudeOf
  <2>2. rest * gap <= Horizon * v /\ gap * u = v * b
    BY <1>0, <1>7 DEF OnItsWay, rest
  <2> HIDE DEF u, v, rest
  <2>3. rest * gap \in Int /\ Horizon * v \in Int
    BY <1>3, <2>1
  <2>4. b * (rest * gap) <= b * (Horizon * v)
    <3>1. \A c, d \in Int : c <= d => b * c <= b * d
      BY <1>2
    <3> QED BY <2>2, <2>3, <3>1
  <2>5. gap * (rest * b) = b * (rest * gap) /\ gap * (Horizon * u) = b * (Horizon * v)
    <3>1. gap * (Horizon * u) = Horizon * (gap * u) /\ b * (Horizon * v) = Horizon * (v * b)
      BY <1>2, <1>3, <2>1
    <3> QED BY <1>2, <1>3, <2>1, <2>2, <3>1
  <2>6. rest * b \in Int /\ Horizon * u \in Int
    BY <1>2, <1>3, <2>1
  <2>7. rest * b <= Horizon * u
    BY <2>4, <2>5, <2>6, Cancel
  <2> QED BY <2>7 DEF u
<1>9. ForecastOf(h) = [slope |-> Slope(w), hours |-> <<rest * b, Magnitude(a)>>]
  <2>1. rest > 0
    BY <1>0 DEF OnItsWay
  <2> QED BY <1>1, <1>6, <1>8, <2>1 DEF ForecastOf, w, a, b, rule, top
<1>10. Magnitude(a) > 0
  <2>1. CASE a > 0
    <3>1. Magnitude(a) = a
      BY <1>2, <2>1, MagnitudeOf
    <3> QED BY <2>1, <3>1
  <2>2. CASE a < 0
    <3>1. Magnitude(a) = -a
      BY <1>2, <2>2, MagnitudeOf
    <3> QED BY <1>2, <2>2, <3>1
  <2> QED BY <1>5, <2>1, <2>2
<1>11. ForecastOf(h) = NoForecast => ForecastOf(h).hours[2] = 0
  BY DEF NoForecast
<1>12. ForecastOf(h).hours[2] = Magnitude(a)
  BY <1>9
<1>13. Magnitude(a) # 0
  BY <1>2, <1>10, MagnitudeOf
<1> QED BY <1>11, <1>12, <1>13

-----------------------------------------------------------------------------
\* The snapshots are in the order of their hours, none of them to come.
Recorded ==
    /\ hour \in Nat /\ history \in Seq([at : Nat, value : Int]) /\ TimesInOrder(history)
    /\ \A i \in 1 .. Len(history) : history[i].at <= hour
    /\ looked \in 0 .. Len(history)

\* What was broken at the last detection, if it stored a snapshot after the last forecast.
Judged ==
    /\ violated \subseteq DOMAIN setup.rules
    /\ looked # 0 /\ looked < Len(history) =>
        \A i \in violated \cap OwnRules :
            ownBaseline # Missing /\ Breached(setup.rules[i], Last(history).value - ownBaseline)

\* A forecast step that saw what there is reported on it; if it saw all but the last
\* snapshot, a forecast from those has been announced.
ToldOf(h) == ForecastOf(h) # NoForecast => announced # NotNotified /\ Last(h).at - announced <= Realert
Reported == UpToDate => forecast = ForecastOf(history) /\ trend = TrendOf(history) /\ ToldOf(history)
Told     == looked # 0 /\ looked = Len(history) - 1 => ToldOf(Front(history))

Remembered ==
    /\ notified \in Nat \cup {NotNotified} /\ announced \in Nat \cup {NotNotified}
    /\ notified # NotNotified => announced = notified

Forecasting == Configured /\ Recorded /\ Judged /\ Reported /\ Told /\ Remembered

LEMMA HistoryKept ==
    ASSUME Recorded
    PROVE  history \in Histories /\ TimesInOrder(history) /\ Len(history) \in Nat
<1>1. \A S, T : S \subseteq T => \A s \in Seq(S) : s \in Seq(T) /\ Len(s) \in Nat
  OBVIOUS
<1>2. [at : Nat, value : Int] \subseteq [at : Int, value : Int]
  OBVIOUS
<1>3. history \in Seq([at : Nat, value : Int]) /\ TimesInOrder(history)
  BY DEF Recorded
<1> QED BY <1>1, <1>2, <1>3, Zenon DEF Histories

\* Where the configuration and the baseline stay, so do the forecasts.
LEMMA SameForecasts ==
    ASSUME UNCHANGED <<setup, ownBaseline, history>>
    PROVE  /\ ForecastOf(history)' = ForecastOf(history) /\ TrendOf(history)' = TrendOf(history)
           /\ ForecastOf(Front(history))' = ForecastOf(Front(history))
           /\ OwnRules' = OwnRules /\ Configured' = Configured
BY DEF ForecastOf, TrendOf, Foreseen, ForeseenRule, OwnRules, Configured

LEMMA BaselineStored ==
    ASSUME ForecastAssumption, Forecasting, StoreBaseline
    PROVE  Forecasting'
<1>1. UNCHANGED <<setup, hour, history, violated, stage, forecast, trend, notified, announced>>
  BY DEF StoreBaseline
<1>2. CASE ownBaseline' \in Baselines /\ looked' = 0
  <2>1. Len(history) \in Nat /\ (history # <<>> => Len(history) # 0)
    BY HistoryKept DEF Forecasting, Recorded
  <2>2. Configured' /\ Remembered'
    BY <1>1, <1>2 DEF Forecasting, Configured, Remembered
  <2>3. Recorded'
    <3>1. 0 \in 0 .. Len(history)
      BY <2>1
    <3>2. history' = history /\ hour' = hour /\ looked' \in 0 .. Len(history')
      BY <1>1, <1>2, <3>1
    <3> QED BY <3>2 DEF Forecasting, Recorded, TimesInOrder
  <2>4. Judged' /\ Reported' /\ Told'
    BY <1>1, <1>2, <2>1 DEF Forecasting, Judged, Reported, Told, UpToDate
  <2> QED BY <2>2, <2>3, <2>4 DEF Forecasting
<1>3. CASE UNCHANGED <<ownBaseline, looked>>
  <2>1. /\ ForecastOf(history)' = ForecastOf(history) /\ TrendOf(history)' = TrendOf(history)
        /\ ForecastOf(Front(history))' = ForecastOf(Front(history))
        /\ OwnRules' = OwnRules /\ Configured' = Configured
    BY <1>1, <1>3, SameForecasts
  <2>2. Configured' /\ Remembered' /\ Recorded' /\ Judged'
    BY <1>1, <1>3, <2>1 DEF Forecasting, Remembered, Recorded, TimesInOrder, Judged, Breached
  <2>3. Reported' /\ Told'
    BY <1>1, <1>3, <2>1 DEF Forecasting, Reported, Told, ToldOf, UpToDate
  <2> QED BY <2>2, <2>3 DEF Forecasting
<1> QED BY <1>2, <1>3 DEF StoreBaseline

\* Steps that only move the cycle, forget what was announced or detect nothing.
LEMMA NothingForecast ==
    ASSUME ForecastAssumption, Forecasting,
           UNCHANGED <<setup, ownBaseline, hour, history, forecast, trend, announced, looked>>,
           violated' \in {violated, {}}, notified' \in {notified, NotNotified}
    PROVE  Forecasting'
<1>1. /\ ForecastOf(history)' = ForecastOf(history) /\ TrendOf(history)' = TrendOf(history)
      /\ ForecastOf(Front(history))' = ForecastOf(Front(history))
      /\ OwnRules' = OwnRules /\ Configured' = Configured
  BY SameForecasts
<1>2. Configured' /\ Remembered' /\ Recorded'
  BY <1>1 DEF Forecasting, Remembered, Recorded, TimesInOrder
<1>3. Judged'
  BY <1>1 DEF Forecasting, Judged, Breached
<1>4. Reported' /\ Told'
  BY <1>1 DEF Forecasting, Reported, Told, ToldOf, UpToDate
<1> QED BY <1>2, <1>3, <1>4 DEF Forecasting

LEMMA OldestPurged ==
    ASSUME ForecastAssumption, Forecasting, PurgeSnapshots
    PROVE  Forecasting'
<1> DEFINE n == Len(history)
           t == Tail(history)
           Snap == [at : Nat, value : Int]
<1>1. /\ history # <<>> /\ history' = t /\ looked' = 0
      /\ UNCHANGED <<setup, ownBaseline, starBaseline, hour, violated, stage,
                     forecast, trend, notified, announced>>
  BY DEF PurgeSnapshots
<1>2. history \in Seq(Snap) /\ TimesInOrder(history)
      /\ hour \in Nat /\ \A i \in 1 .. n : history[i].at <= hour
  BY DEF Forecasting, Recorded
<1>3. n \in Nat /\ n # 0
  BY <1>1, <1>2
<1>4. /\ t \in Seq(Snap) /\ Len(t) = n - 1
      /\ \A i \in 1 .. n - 1 : t[i] = history[i + 1]
  <2> HIDE DEF Snap
  <2> QED BY <1>1, <1>2
<1>5. \A i \in 1 .. n - 1 : i + 1 \in 1 .. n
  BY <1>3
<1> HIDE DEF t, Snap
<1>6. TimesInOrder(t) /\ \A i \in 1 .. Len(t) : t[i].at <= hour
  <2>1. ASSUME NEW i \in 1 .. n - 1, NEW j \in 1 .. n - 1, i < j
        PROVE  t[i].at < t[j].at
    <3>1. i + 1 \in 1 .. n /\ j + 1 \in 1 .. n /\ i + 1 < j + 1
      BY <1>5, <2>1
    <3>2. history[i + 1].at < history[j + 1].at
      BY <1>2, <3>1 DEF TimesInOrder
    <3> QED BY <1>4, <3>2
  <2>2. ASSUME NEW i \in 1 .. n - 1
        PROVE  t[i].at <= hour
    BY <1>2, <1>4, <1>5
  <2> QED BY <1>4, <2>1, <2>2 DEF TimesInOrder
<1>7. Recorded'
  <2>1. 0 \in 0 .. Len(t)
    BY <1>3, <1>4
  <2>2. /\ hour' \in Nat /\ history' \in Seq(Snap) /\ TimesInOrder(history')
        /\ \A i \in 1 .. Len(history') : history'[i].at <= hour'
        /\ looked' \in 0 .. Len(history')
    BY <1>1, <1>2, <1>4, <1>6, <2>1
  <2> QED BY <2>2 DEF Recorded, TimesInOrder, Snap
<1>8. Configured' /\ Remembered'
  BY <1>1 DEF Forecasting, Configured, Remembered
<1>9. Judged' /\ Told'
  BY <1>1 DEF Forecasting, Judged, Told
<1>10. Reported'
  <2>1. t # <<>> => Len(t) # 0
    BY <1>4 DEF Snap
  <2> QED BY <1>1, <2>1 DEF Reported, UpToDate
<1> QED BY <1>7, <1>8, <1>9, <1>10 DEF Forecasting

LEMMA SnapshotAppended ==
    ASSUME Recorded, NEW e \in [at : Nat, value : Int], e.at > hour, hour' = e.at,
           history' = Append(history, e), looked' = looked
    PROVE  /\ Recorded' /\ Len(history') = Len(history) + 1 /\ Last(history') = e
           /\ (history # <<>> => Front(history') = history) /\ looked' < Len(history')
<1> DEFINE n == Len(history)
           Snap == [at : Nat, value : Int]
<1>1. history \in Seq(Snap) /\ n \in Nat /\ DOMAIN history = 1 .. n
  BY DEF Recorded
<1>2. \A i \in 1 .. n : history[i] \in Snap
  <2> HIDE DEF Snap
  <2> QED BY <1>1
<1>3. /\ hour \in Nat /\ looked \in 0 .. n /\ e.at \in Nat
      /\ \A i \in 1 .. n : history[i].at \in Nat /\ history[i].at <= hour
  BY <1>2 DEF Recorded
<1>4. /\ history' \in Seq(Snap) /\ Len(history') = n + 1
      /\ history'[n + 1] = e /\ \A i \in 1 .. n : history'[i] = history[i]
  <2> HIDE DEF Snap
  <2>1. e \in Snap
    BY DEF Snap
  <2> QED BY <1>1, <2>1
<1>5. TimesInOrder(history')
  <2> SUFFICES ASSUME NEW i \in 1 .. n + 1, NEW j \in 1 .. n + 1, i < j
               PROVE  history'[i].at < history'[j].at
    BY <1>4 DEF TimesInOrder
  <2>1. i \in 1 .. n
    BY <1>1
  <2>2. CASE j \in 1 .. n
    <3>1. history[i].at < history[j].at
      BY <2>1, <2>2 DEF Recorded, TimesInOrder
    <3> QED BY <1>4, <2>1, <2>2, <3>1
  <2>3. CASE j = n + 1
    <3>1. history[i].at < e.at
      BY <1>3, <2>1
    <3> QED BY <1>4, <2>1, <2>3, <3>1
  <2>4. \A m \in Nat : \A k \in 1 .. m + 1 : k \in 1 .. m \/ k = m + 1
    OBVIOUS
  <2>5. j \in 1 .. n \/ j = n + 1
    <3> HIDE DEF n
    <3> QED BY <1>1, <2>4
  <2> QED BY <2>2, <2>3, <2>5
<1>6. \A i \in 1 .. n + 1 : history'[i].at <= hour'
  <2> SUFFICES ASSUME NEW i \in 1 .. n + 1
               PROVE  history'[i].at <= hour'
    OBVIOUS
  <2>1. CASE i \in 1 .. n
    <3>1. history[i].at <= e.at
      BY <1>3, <2>1
    <3> QED BY <1>4, <2>1, <3>1
  <2>2. CASE i = n + 1
    BY <1>3, <1>4, <2>2
  <2> QED BY <1>1, <2>1, <2>2
<1>7. looked' \in 0 .. Len(history') /\ looked' < Len(history')
  BY <1>1, <1>3, <1>4
<1>8. Recorded'
  <2>1. hour' \in Nat /\ TimesInOrder(history)'
    BY <1>3, <1>5 DEF TimesInOrder
  <2>2. (\A i \in 1 .. Len(history) : history[i].at <= hour)'
    BY <1>4, <1>6
  <2> QED BY <1>4, <1>7, <2>1, <2>2 DEF Recorded
<1>9. Last(history') = e
  BY <1>4 DEF Last
<1>10. history # <<>> => Front(history') = history
  <2>1. Front(history') = [i \in 1 .. n |-> history'[i]]
    BY <1>1, <1>4 DEF Front
  <2>2. history = [i \in 1 .. n |-> history[i]]
    BY <1>1
  <2> QED BY <1>4, <2>1, <2>2
<1> QED BY <1>4, <1>7, <1>8, <1>9, <1>10

LEMMA DetectionKept ==
    ASSUME ForecastAssumption, Forecasting, Detection
    PROVE  Forecasting'
<1>1. UNCHANGED <<setup, ownBaseline, starBaseline, forecast, trend, notified, announced, looked>>
  BY DEF Detection
<1>2. CASE violated' = {} /\ UNCHANGED <<hour, history>>
  BY <1>1, <1>2, NothingForecast
<1>3. ASSUME NEW v \in Values, NEW gap \in Gaps, NEW passed \in SUBSET DOMAIN setup.rules,
             hour' = hour + gap, history' = Append(history, [at |-> hour', value |-> v]),
             violated' = {i \in DOMAIN setup.rules \ passed :
                             /\ JudgedAgainst(i) # Missing
                             /\ Breached(setup.rules[i], v - JudgedAgainst(i))}
      PROVE  Forecasting'
  <2> DEFINE e == [at |-> hour + gap, value |-> v]
  <2>1. gap \in Nat /\ gap > 0 /\ v \in Int /\ hour \in Nat
    BY DEF ForecastAssumption, Forecasting, Recorded
  <2>2. e \in [at : Nat, value : Int] /\ e.at > hour /\ hour' = e.at /\ history' = Append(history, e) /\ e.value = v
    BY <1>3, <2>1
  <2> HIDE DEF e
  <2>3. /\ Recorded' /\ Len(history') = Len(history) + 1 /\ Last(history') = e
        /\ (history # <<>> => Front(history') = history) /\ looked' < Len(history')
    BY <1>1, <2>2, SnapshotAppended DEF Forecasting
  <2>4. Configured' /\ Remembered'
    BY <1>1 DEF Forecasting, Configured, Remembered
  <2>5. Judged'
    <3>1. OwnRules' = OwnRules /\ setup' = setup /\ ownBaseline' = ownBaseline
      BY <1>1 DEF OwnRules
    <3>2. violated' \subseteq DOMAIN setup.rules
      BY <1>3
    <3>3. ASSUME NEW i \in violated' \cap OwnRules
          PROVE  ownBaseline # Missing /\ Breached(setup.rules[i], v - ownBaseline)
      <4>1. ~setup.rules[i].wild
        BY <3>3 DEF OwnRules
      <4>2. JudgedAgainst(i) = ownBaseline
        BY <4>1 DEF JudgedAgainst
      <4> QED BY <1>3, <3>3, <4>2
    <3>4. \A i \in violated' \cap OwnRules' :
             ownBaseline' # Missing /\ Breached(setup'.rules[i], Last(history').value - ownBaseline')
      BY <2>2, <2>3, <3>1, <3>3
    <3> QED BY <3>1, <3>2, <3>4 DEF Judged, Breached
  <2>6. Reported'
    <3>1. looked' # Len(history')
      BY <2>3 DEF Recorded
    <3> QED BY <3>1 DEF Reported, UpToDate
  <2>7. Told'
    <3> SUFFICES ASSUME looked' # 0, looked' = Len(history') - 1
                 PROVE  ToldOf(Front(history))'
      BY DEF Told
    <3>1. Len(history) \in Nat /\ looked = Len(history) /\ history # <<>>
      <4>1. Len(history) \in Nat /\ (history = <<>> => Len(history) = 0)
        BY HistoryKept DEF Forecasting
      <4> QED BY <1>1, <2>3, <4>1
    <3>2. ToldOf(history)
      BY <3>1 DEF Forecasting, Reported, UpToDate
    <3>3. Front(history') = history
      BY <2>3, <3>1
    <3> QED BY <1>1, <3>2, <3>3
         DEF ToldOf, ForecastOf, Foreseen, ForeseenRule, OwnRules
  <2> QED BY <2>3, <2>4, <2>5, <2>6, <2>7 DEF Forecasting
<1> QED BY <1>2, <1>3 DEF Detection

LEMMA StepForecast ==
    ASSUME ForecastAssumption, Forecasting, ForecastStep
    PROVE  Forecasting'
<1>1. /\ UNCHANGED <<setup, ownBaseline, starBaseline, hour, history, violated>>
      /\ forecast' = ForecastOf(history) /\ trend' = TrendOf(history) /\ looked' = Len(history)
      /\ IF forecast' # NoForecast /\ (notified = NotNotified \/ hour - notified >= Realert)
         THEN notified' = hour /\ announced' = hour
         ELSE UNCHANGED <<notified, announced>>
  BY DEF ForecastStep
<1>2. /\ ForecastOf(history)' = ForecastOf(history) /\ TrendOf(history)' = TrendOf(history)
      /\ OwnRules' = OwnRules /\ Configured' = Configured
  BY <1>1, SameForecasts
<1>3. Len(history) \in Nat /\ hour \in Nat /\ hour # NotNotified
  BY HistoryKept DEF Forecasting, Recorded, NotNotified
<1>4. Remembered'
  BY <1>1, <1>3 DEF Forecasting, Remembered
<1>5. Recorded'
  <2>1. Len(history) \in 0 .. Len(history)
    BY <1>3
  <2> QED BY <1>1, <2>1 DEF Forecasting, Recorded, TimesInOrder
<1>6. Judged'
  BY <1>1, <1>2, <1>3 DEF Forecasting, Judged
<1>7. Told'
  BY <1>1, <1>3 DEF Told
<1>8. Reported'
  <2> SUFFICES ASSUME history # <<>>, forecast' # NoForecast
               PROVE  announced' # NotNotified /\ Last(history).at - announced' <= Realert
    BY <1>1, <1>2 DEF Reported, UpToDate, ToldOf
  <2>1. Last(history).at \in Nat /\ Last(history).at <= hour
    <3>1. Len(history) \in 1 .. Len(history)
      BY <1>3, HistoryKept DEF Forecasting
    <3>2. history \in Seq([at : Nat, value : Int]) /\ \A i \in 1 .. Len(history) : history[i].at <= hour
      BY DEF Forecasting, Recorded
    <3>3. history[Len(history)] \in [at : Nat, value : Int]
      BY <3>1, <3>2, ElementOfSeq
    <3> QED BY <3>1, <3>2, <3>3 DEF Last
  <2>2. Realert \in Nat
    BY DEF ForecastAssumption
  <2> DEFINE l == Last(history).at
  <2>3. CASE notified = NotNotified \/ hour - notified >= Realert
    <3>1. announced' = hour
      BY <1>1, <2>3
    <3> HIDE DEF l
    <3>2. l - hour <= Realert
      BY <1>3, <2>1, <2>2 DEF l
    <3> QED BY <1>3, <3>1, <3>2 DEF l
  <2>4. CASE notified # NotNotified /\ ~(hour - notified >= Realert)
    <3>1. announced' = announced /\ announced = notified /\ notified \in Nat /\ announced # NotNotified
      BY <1>1, <2>4 DEF Forecasting, Remembered
    <3>2. l \in Nat /\ l <= hour
      BY <2>1
    <3> HIDE DEF l
    <3>3. l - notified <= Realert
      BY <1>3, <2>2, <2>4, <3>1, <3>2
    <3> QED BY <3>1, <3>3 DEF l
  <2> QED BY <2>3, <2>4
<1> QED BY <1>2, <1>4, <1>5, <1>6, <1>7, <1>8 DEF Forecasting

LEMMA ForecastingKept ==
    ASSUME ForecastAssumption, Forecasting, [ForecastNext]_forecastVars
    PROVE  Forecasting'
<1>1. CASE StoreBaseline
  BY <1>1, BaselineStored
<1>2. CASE RequestDetects \/ CycleDetects
  BY <1>2, DetectionKept DEF RequestDetects, CycleDetects
<1>3. CASE ForecastStep
  BY <1>3, StepForecast
<1>4. CASE ForecastFails
  BY <1>4, NothingForecast DEF ForecastFails
<1>5. CASE PurgeSnapshots
  BY <1>5, OldestPurged
<1>6. CASE ForecasterRestarts
  BY <1>6, NothingForecast DEF ForecasterRestarts
<1>7. CASE UNCHANGED forecastVars
  BY <1>7, NothingForecast DEF forecastVars
<1> QED BY <1>1, <1>2, <1>3, <1>4, <1>5, <1>6, <1>7 DEF ForecastNext

LEMMA ForecastLandsThere ==
    ASSUME ForecastAssumption, Forecasting
    PROVE  LandsOnThreshold
<1> SUFFICES ASSUME UpToDate, forecast # NoForecast, ForeseenRule.direction # "either"
             PROVE  LandsOnThreshold
  BY DEF LandsOnThreshold
<1>1. history # <<>> /\ forecast = ForecastOf(history)
  BY DEF Forecasting, Reported, UpToDate
<1>2. history \in Histories /\ TimesInOrder(history) /\ Configured
  BY HistoryKept DEF Forecasting
<1>3. ForecastOf(history) # NoForecast
  BY <1>1
<1> QED BY <1>1, <1>2, <1>3, ForecastLands DEF LandsOnThreshold

LEMMA TrendThatFits ==
    ASSUME ForecastAssumption, Forecasting
    PROVE  TrendFits
<1> SUFFICES ASSUME UpToDate PROVE TrendFits
  BY DEF TrendFits
<1>1. history \in Histories /\ TimesInOrder(history) /\ Configured
  BY HistoryKept DEF Forecasting
<1>2. history # <<>> /\ forecast = ForecastOf(history) /\ trend = TrendOf(history)
  BY DEF Forecasting, Reported, UpToDate
<1>3. ASSUME setup.named, Len(history) >= 4, Straight(TrendWindow(history))
      PROVE  trend \in {"rising", "stable"}
  BY <1>1, <1>2, <1>3, TrendOfLine
<1>4. ASSUME forecast # NoForecast, ForeseenRule.direction = "increase"
      PROVE  trend # "recovering"
  <2> DEFINE w == TrendWindow(history)
             slope == Slope(w)
             delta == Last(history).value - ownBaseline
  <2>1. /\ slope[1] \in Int /\ slope[2] \in Int /\ slope[2] > 0 /\ Len(w) >= 3 /\ setup.named
        /\ WillBreach(ForeseenRule, slope[1], delta)
    BY <1>1, <1>2, <1>4, ForecastMeans
  <2>2. slope[1] > 0
    BY <1>4, <2>1 DEF WillBreach
  <2>3. trend = Classified(slope, Acceleration(w))
    <3>1. ~(Len(w) < 3)
      <4>1. Len(w) \in Nat
        BY <1>1, WindowCut, HistoryTyped
      <4> QED BY <2>1, <4>1
    <3> QED BY <1>2, <2>1, <3>1 DEF TrendOf
  <2> HIDE DEF w, slope
  <2>4. ~(2 * (-1) * slope[1] > slope[2])
    BY <2>1, <2>2
  <2> QED BY <2>3, <2>4 DEF Classified
<1> QED BY <1>3, <1>4 DEF TrendFits

LEMMA BreachIsAnnounced ==
    ASSUME ForecastAssumption, Forecasting
    PROVE  BreachAnnounced
<1> DEFINE before == Front(history)
           delta  == Last(before).value - ownBaseline
           stride == Last(history).value - Last(before).value
           gap    == Last(history).at - Last(before).at
           n      == Len(history)
<1> SUFFICES ASSUME Foreseen \in violated \cap OwnRules, n >= 4, looked = n - 1,
                    Straight(history), OnItsWay(ForeseenRule.max, delta, stride, gap)
             PROVE  announced # NotNotified /\ Last(before).at - announced <= Realert
  BY DEF BreachAnnounced, OnItsWay
<1>1. history \in Histories /\ TimesInOrder(history) /\ n \in Nat /\ Configured
  BY HistoryKept, HistoryTyped DEF Forecasting
<1>2. \A i \in 1 .. n : history[i].at \in Int /\ history[i].value \in Int
  BY <1>1, HistoryTyped
<1>3. PICK X, Y, C \in Int : X > 0 /\ OnLine(history, X, Y, C)
  <2>1. n >= 2
    BY <1>1
  <2> QED BY <1>1, <2>1, StraightIsLine
<1>4. /\ before \in Histories /\ TimesInOrder(before) /\ Len(before) = n - 1 /\ OnLine(before, X, Y, C)
      /\ Last(before) = history[n - 1]
  <2>1. before = SubSeq(history, 1, n - 1)
    BY DEF Front
  <2>2. n - 1 \in 0 .. n /\ 1 \in 1 .. (n - 1) + 1 /\ n - 1 \in 1 .. n - 1 /\ (n - 1) - 1 + 1 = n - 1
        /\ 1 + (n - 1) - 1 = n - 1
    BY <1>1
  <2> HIDE DEF n, before
  <2>3. /\ before \in Histories /\ TimesInOrder(before) /\ Len(before) = n - 1 /\ OnLine(before, X, Y, C)
        /\ \A i \in 1 .. n - 1 : before[i] = history[1 + i - 1]
    <3>1. n - 1 \in 0 .. Len(history)
      BY <2>2 DEF n
    <3> QED BY <1>1, <1>3, <2>1, <2>2, <3>1, CutHistory
  <2> QED BY <2>2, <2>3 DEF Last
<1>5. n \in 1 .. n /\ n - 1 \in 1 .. n /\ n - 1 < n /\ Len(before) >= 3
  BY <1>1, <1>4
<1>6. Last(history) = history[n]
  BY DEF Last
<1>7. ownBaseline # Missing /\ ownBaseline \in Int /\ Breached(ForeseenRule, Last(history).value - ownBaseline)
  <2>1. looked # 0 /\ looked < Len(history)
    BY <1>1
  <2>2. ownBaseline # Missing /\ Breached(setup.rules[Foreseen], Last(history).value - ownBaseline)
    BY <2>1 DEF Forecasting, Judged
  <2> QED BY <2>2 DEF ForeseenRule, Forecasting, Configured, ForecastAssumption
<1>8. /\ delta \in Int /\ stride \in Int /\ gap \in Int /\ gap > 0 /\ Steps(X, Y, stride, gap)
      /\ delta + stride = Last(history).value - ownBaseline
  <2> DEFINE v1 == history[n - 1].value
             v2 == history[n].value
             t1 == history[n - 1].at
             t2 == history[n].at
  <2>1. v1 \in Int /\ v2 \in Int /\ t1 \in Int /\ t2 \in Int
    BY <1>2, <1>5
  <2>2. t1 < t2
    BY <1>1, <1>5 DEF TimesInOrder
  <2>3. X * v1 = Y * t1 + C /\ X * v2 = Y * t2 + C
    BY <1>3, <1>5 DEF OnLine
  <2>4. /\ delta = v1 - ownBaseline /\ stride = v2 - v1 /\ gap = t2 - t1 /\ Last(history).value = v2
    BY <1>4, <1>6
  <2>5. ownBaseline \in Int
    BY <1>7
  <2> HIDE DEF v1, v2, t1, t2, delta, stride, gap
  <2>6. X * (v2 - v1) = Y * (t2 - t1)
    BY <1>3, <2>1, <2>3
  <2> QED BY <2>1, <2>2, <2>4, <2>5, <2>6 DEF Steps
<1>9. setup.rules # <<>>
  <2>1. Foreseen \in DOMAIN setup.rules
    BY DEF OwnRules
  <2> QED BY <2>1
<1>10. setup.named
  <2>1. Foreseen \in DOMAIN setup.rules /\ ~setup.rules[Foreseen].wild
    BY DEF OwnRules
  <2> QED BY <1>1, <2>1 DEF Configured, ForecastAssumption
<1>11. ForecastOf(before) # NoForecast
  <2>1. delta = Last(before).value - ownBaseline /\ Breached(ForeseenRule, delta + stride)
    BY <1>7, <1>8
  <2>2. OnItsWay(ForeseenRule.max, delta, stride, gap)
    OBVIOUS
  <2> HIDE DEF before, delta, stride, gap, n
  <2> QED BY <1>1, <1>3, <1>4, <1>5, <1>7, <1>8, <1>9, <1>10, <2>1, <2>2, SteadyIsForecast
<1>12. looked # 0
  BY <1>1
<1> QED BY <1>11, <1>12 DEF Forecasting, Told, ToldOf

\* What is forecast, announced and called a trend is sound, whatever requests and cycles
\* detect, for any values, rules, baselines, gaps, horizons, intervals and any limit on
\* the snapshots of four or more (drift.py, trend.py, forecast.py, scheduler.py).
THEOREM ForecastsAreSound == ForecastAssumption => (ForecastSpec => []ForecastIsSound)
<1> SUFFICES ASSUME ForecastAssumption PROVE ForecastSpec => []ForecastIsSound
  OBVIOUS
<1>1. ForecastInit => Forecasting
  <2> SUFFICES ASSUME ForecastInit PROVE Forecasting
    OBVIOUS
  <2>1. /\ history = <<>> /\ Len(history) = 0 /\ looked = 0 /\ hour = 0 /\ violated = {}
        /\ notified = NotNotified /\ announced = NotNotified
    BY DEF ForecastInit
  <2>2. Configured
    BY DEF ForecastInit, Configured
  <2>3. Recorded
    BY <2>1 DEF Recorded, TimesInOrder
  <2>4. Judged /\ Reported /\ Told /\ Remembered
    BY <2>1 DEF Judged, Reported, UpToDate, Told, Remembered
  <2> QED BY <2>2, <2>3, <2>4 DEF Forecasting
<1>2. Forecasting /\ [ForecastNext]_forecastVars => Forecasting'
  BY ForecastingKept
<1>3. Forecasting => ForecastIsSound
  BY ForecastLandsThere, TrendThatFits, BreachIsAnnounced DEF ForecastIsSound
<1> QED BY <1>1, <1>2, <1>3, PTL DEF ForecastSpec
-----------------------------------------------------------------------------
(***************************************************************************)
(* Drift detection.  Decisions are sets of places in the table; the first  *)
(* ones of a category stay the first ones when decisions are appended.     *)
(***************************************************************************)
DecidedCase == [category : CaseCategory, good : BOOLEAN]
Fraction == [good : Nat, of : Nat]

LEMMA CountOfPlaces ==
    ASSUME NEW s \in Seq(DecidedCase), NEW S \in SUBSET (DOMAIN s)
    PROVE  IsFiniteSet(S) /\ Cardinality(S) \in Nat
<1>1. DOMAIN s = 1 .. Len(s) /\ Len(s) \in Nat
  OBVIOUS
<1>2. IsFiniteSet(1 .. Len(s))
  BY <1>1, FS_Interval
<1>3. IsFiniteSet(S)
  BY <1>1, <1>2, FS_Subset
<1> QED BY <1>3, FS_CardinalityType

\* The rate of decisions is a fraction; it is one if all are good and zero decisions
\* out of some are good only if not all are.
LEMMA RateTyped ==
    ASSUME decisions \in Seq(DecidedCase), NEW S \in SUBSET (DOMAIN decisions)
    PROVE  /\ Rate(S) \in Fraction /\ Rate(S).of = Cardinality(S)
           /\ (\A i \in S : decisions[i].good) => Rate(S).good = Rate(S).of
<1> DEFINE G == {i \in S : decisions[i].good}
<1>1. Cardinality(S) \in Nat /\ Cardinality(G) \in Nat
  BY CountOfPlaces
<1>2. Rate(S) = [good |-> Cardinality(G), of |-> Cardinality(S)]
  BY DEF Rate
<1>3. (\A i \in S : decisions[i].good) => G = S
  OBVIOUS
<1> HIDE DEF G
<1> QED BY <1>1, <1>2, <1>3 DEF Fraction

\* At most n decisions are among the first n, and they are the first: a decision before
\* one of them is one of them.
LEMMA FirstOnes ==
    ASSUME NEW s \in Seq(DecidedCase), NEW S \in SUBSET (DOMAIN s), NEW n \in Nat
    PROVE  /\ EarliestOf(S, n) \subseteq S /\ Cardinality(EarliestOf(S, n)) <= n
           /\ \A i \in EarliestOf(S, n), j \in S : j <= i => j \in EarliestOf(S, n)
<1> DEFINE F == EarliestOf(S, n)
           B(i) == {j \in S : j <= i}
<1>1. F \subseteq S /\ DOMAIN s = 1 .. Len(s) /\ \A i \in S : i \in Int
  BY DEF EarliestOf
<1>2. \A i \in S : IsFiniteSet(B(i)) /\ Cardinality(B(i)) \in Nat
  BY CountOfPlaces
<1>3. \A i \in F, j \in S : j <= i => j \in F
  <2> SUFFICES ASSUME NEW i \in F, NEW j \in S, j <= i
               PROVE  j \in F
    OBVIOUS
  <2>1. B(j) \subseteq B(i)
    BY <1>1
  <2>2. Cardinality(B(j)) <= Cardinality(B(i))
    BY <1>1, <1>2, <2>1, FS_Subset
  <2>3. Cardinality(B(i)) <= n
    BY DEF EarliestOf
  <2>4. Cardinality(B(j)) <= n
    <3>1. Cardinality(B(i)) \in Nat /\ Cardinality(B(j)) \in Nat
      BY <1>1, <1>2
    <3> HIDE DEF B
    <3> QED BY <2>2, <2>3, <3>1
  <2> QED BY <2>4 DEF EarliestOf
<1>4. Cardinality(F) <= n
  <2>1. CASE F = {}
    <3>1. Cardinality(F) = 0
      BY <2>1, FS_EmptySet
    <3> QED BY <3>1
  <2>2. CASE F # {}
    <3>1. F \in SUBSET (1 .. Len(s)) /\ Len(s) \in Nat
      BY <1>1
    <3>2. PICK m \in F : \A j \in F : j <= m
      BY <2>2, <3>1, GreatestPlace
    <3>3. F \subseteq B(m)
      BY <1>1, <3>2
    <3>4. Cardinality(F) <= Cardinality(B(m)) /\ Cardinality(F) \in Nat
      BY <1>1, <1>2, <3>2, <3>3, FS_Subset, CountOfPlaces
    <3>5. Cardinality(B(m)) <= n
      BY <3>2 DEF EarliestOf
    <3>6. Cardinality(B(m)) \in Nat
      BY <1>1, <1>2, <3>2
    <3> HIDE DEF B, F
    <3> QED BY <3>4, <3>5, <3>6
  <2> QED BY <2>1, <2>2
<1> QED BY <1>1, <1>3, <1>4

\* The baseline of a category is taken from as many decisions as it needs, none of them
\* after a decision of the category that is not among them.
LEMMA BaselineIsFirst ==
    ASSUME DriftAssumption, decisions \in Seq(DecidedCase), NEW c \in CaseCategory
    PROVE  /\ BaselineWindow(c) \subseteq Of(DOMAIN decisions, c)
           /\ Of(DOMAIN decisions, c) \subseteq DOMAIN decisions
           /\ Cardinality(BaselineWindow(c)) \in Nat /\ Cardinality(BaselineWindow(c)) <= MinBaseline
           /\ \A i \in BaselineWindow(c), j \in Of(DOMAIN decisions, c) :
                  j <= i => j \in BaselineWindow(c)
<1> DEFINE D == DOMAIN decisions
           O == Of(Oldest, c)
           W == BaselineWindow(c)
<1>1. MinBaseline \in Nat /\ BaselineFetch \in Nat
  BY DEF DriftAssumption
<1>2. /\ Oldest \subseteq D
      /\ \A i \in Oldest, j \in D : j <= i => j \in Oldest
  BY <1>1, FirstOnes DEF Oldest
<1>3. O \subseteq Of(D, c) /\ Of(D, c) \subseteq D /\ O \in SUBSET D
  BY <1>2 DEF Of
<1>4. /\ W \subseteq O /\ Cardinality(W) <= MinBaseline
      /\ \A i \in W, j \in O : j <= i => j \in W
  BY <1>1, <1>3, FirstOnes DEF BaselineWindow
<1>5. Cardinality(W) \in Nat
  BY <1>3, <1>4, CountOfPlaces
<1>6. \A i \in W, j \in Of(D, c) : j <= i => j \in W
  BY <1>2, <1>3, <1>4 DEF Of
<1> QED BY <1>3, <1>4, <1>5, <1>6

\* A rate taken from the first decisions of a category: as many as a baseline needs, in
\* which there is no bad one if there is none among the first ones now.
FromTheFirst(c, W) ==
    /\ W \in SUBSET Of(DOMAIN decisions, c) /\ Cardinality(W) = MinBaseline
    /\ \A i \in W, j \in Of(DOMAIN decisions, c) : j <= i => j \in W

IsBaseline(c, r) ==
    /\ r.of = MinBaseline
    /\ tidy => \E W : FromTheFirst(c, W) /\ ((\A i \in W : decisions[i].good) => r.good = r.of)

LEMMA UpsertIsBaseline ==
    ASSUME DriftAssumption, decisions \in Seq(DecidedCase), NEW c \in CaseCategory,
           Cardinality(BaselineWindow(c)) >= MinBaseline
    PROVE  IsBaseline(c, Rate(BaselineWindow(c)))
<1> DEFINE W == BaselineWindow(c)
<1>1. MinBaseline \in Nat
  BY DEF DriftAssumption
<1>2. Cardinality(W) = MinBaseline
  BY <1>1, BaselineIsFirst
<1>3. FromTheFirst(c, W)
  BY <1>2, BaselineIsFirst DEF FromTheFirst
<1>4. W \in SUBSET (DOMAIN decisions)
  BY BaselineIsFirst
<1>5. Rate(W).of = MinBaseline /\ ((\A i \in W : decisions[i].good) => Rate(W).good = Rate(W).of)
  BY <1>2, <1>4, RateTyped
<1> QED BY <1>3, <1>5 DEF IsBaseline

\* The places of a baseline are among the first ones of the category.
LEMMA FirstAreGood ==
    ASSUME DriftAssumption, decisions \in Seq(DecidedCase), NEW c \in CaseCategory, NEW W,
           FromTheFirst(c, W), AllGoodAtFirst(c)
    PROVE  \A i \in W : decisions[i].good
<1> SUFFICES ASSUME NEW i \in W
             PROVE  i \in EarliestOf(Of(DOMAIN decisions, c), MinBaseline)
  BY DEF AllGoodAtFirst
<1> DEFINE B == {j \in Of(DOMAIN decisions, c) : j <= i}
<1>1. B \subseteq W /\ W \in SUBSET (DOMAIN decisions) /\ Cardinality(W) = MinBaseline
  BY DEF FromTheFirst, Of
<1>2. IsFiniteSet(W) /\ Cardinality(W) \in Nat /\ Cardinality(B) \in Nat
  BY <1>1, CountOfPlaces
<1>3. Cardinality(B) <= MinBaseline
  BY <1>1, <1>2, FS_Subset
<1> QED BY <1>3 DEF FromTheFirst, EarliestOf

\* Both stay when a decision is appended.
LEMMA FirstOnesKept ==
    ASSUME decisions \in Seq(DecidedCase), NEW row \in DecidedCase, decisions' = Append(decisions, row),
           NEW c \in CaseCategory
    PROVE  /\ \A i \in DOMAIN decisions : i \in DOMAIN decisions' /\ decisions'[i] = decisions[i]
           /\ Of(DOMAIN decisions, c) \subseteq Of(DOMAIN decisions, c)'
           /\ \A j \in Of(DOMAIN decisions, c)' \ Of(DOMAIN decisions, c) :
                  \A i \in DOMAIN decisions : i < j
           /\ Of(DOMAIN decisions, c)' \in SUBSET (DOMAIN decisions')
           /\ decisions' \in Seq(DecidedCase)
<1> DEFINE n == Len(decisions)
<1>1. n \in Nat /\ DOMAIN decisions = 1 .. n
  OBVIOUS
<1>2. decisions' \in Seq(DecidedCase) /\ Len(decisions') = n + 1 /\ DOMAIN decisions' = 1 .. n + 1
  OBVIOUS
<1>3. \A i \in 1 .. n : decisions'[i] = decisions[i]
  OBVIOUS
<1>4. \A i \in 1 .. n : i \in 1 .. n + 1 /\ i < n + 1
  BY <1>1
<1>5. \A j \in 1 .. n + 1 : j \notin 1 .. n => j = n + 1
  BY <1>1
<1> HIDE DEF n
<1>6. Of(DOMAIN decisions, c) = {i \in 1 .. n : decisions[i].category = c}
  BY <1>1 DEF Of
<1>7. Of(DOMAIN decisions, c)' = {i \in 1 .. n + 1 : decisions'[i].category = c}
  BY <1>2 DEF Of
<1>8. Of(DOMAIN decisions, c) \subseteq Of(DOMAIN decisions, c)'
  BY <1>3, <1>4, <1>6, <1>7
<1>9. \A j \in Of(DOMAIN decisions, c)' \ Of(DOMAIN decisions, c) : \A i \in 1 .. n : i < j
  BY <1>3, <1>4, <1>5, <1>6, <1>7
<1> QED BY <1>1, <1>2, <1>3, <1>4, <1>7, <1>8, <1>9

LEMMA BaselineKept ==
    ASSUME DriftAssumption, decisions \in Seq(DecidedCase), NEW row \in DecidedCase,
           decisions' = Append(decisions, row), tidy,
           NEW c \in CaseCategory, NEW r, IsBaseline(c, r)
    PROVE  IsBaseline(c, r)' /\ (AllGoodAtFirst(c) => AllGoodAtFirst(c)')
<1> DEFINE S == Of(DOMAIN decisions, c)
<1>1. PICK W : FromTheFirst(c, W) /\ ((\A i \in W : decisions[i].good) => r.good = r.of)
  BY DEF IsBaseline
<1>2. W \in SUBSET S /\ S \in SUBSET (DOMAIN decisions)
  BY <1>1 DEF FromTheFirst, Of
<1>3. FromTheFirst(c, W)'
  <2>1. W \in SUBSET S' /\ Cardinality(W) = MinBaseline
    BY <1>1, <1>2, FirstOnesKept DEF FromTheFirst
  <2>2. ASSUME NEW i \in W, NEW j \in S', j <= i
        PROVE  j \in W
    <3>1. i \in DOMAIN decisions /\ i \in Nat /\ j \in Nat
      BY <1>2, FirstOnesKept
    <3>2. j \in S
      BY <2>2, <3>1, FirstOnesKept
    <3> QED BY <1>1, <2>2, <3>2 DEF FromTheFirst
  <2> QED BY <2>1, <2>2 DEF FromTheFirst
<1>4. (\A i \in W : decisions'[i].good) => r.good = r.of
  BY <1>1, <1>2, FirstOnesKept
<1>5. IsBaseline(c, r)'
  BY <1>3, <1>4 DEF IsBaseline
<1>6. ASSUME AllGoodAtFirst(c), NEW i \in EarliestOf(Of(DOMAIN decisions, c), MinBaseline)'
      PROVE  decisions'[i].good
  <2> DEFINE B(k)  == {j \in S : j <= k}
             C(k) == {j \in S' : j <= k}
  <2>1. i \in S' /\ Cardinality(C(i)) <= MinBaseline
    BY <1>6 DEF EarliestOf
  <2>2. IsFiniteSet(C(i)) /\ Cardinality(C(i)) \in Nat
    BY FirstOnesKept, CountOfPlaces
  <2>3. MinBaseline \in Nat
    BY DEF DriftAssumption
  <2>4. CASE i \in S
    <3>1. B(i) \subseteq C(i)
      BY FirstOnesKept
    <3>2. Cardinality(B(i)) <= Cardinality(C(i)) /\ Cardinality(B(i)) \in Nat
      BY <1>2, <2>2, <3>1, FS_Subset, CountOfPlaces
    <3>3. Cardinality(B(i)) <= MinBaseline
      <4> HIDE DEF B, C
      <4> QED BY <2>1, <2>2, <2>3, <3>2
    <3>4. decisions[i].good
      BY <1>6, <2>4, <3>3 DEF AllGoodAtFirst, EarliestOf
    <3> QED BY <1>2, <2>4, <3>4, FirstOnesKept
  <2>5. CASE i \notin S
    <3>1. W \subseteq C(i) /\ i \in C(i) /\ i \notin W
      BY <1>2, <2>1, <2>5, FirstOnesKept
    <3>2. Cardinality(W) = MinBaseline /\ IsFiniteSet(W)
      BY <1>1, <1>2, CountOfPlaces DEF FromTheFirst
    <3>3. Cardinality(W \union {i}) = Cardinality(W) + 1
      BY <3>1, <3>2, FS_AddElement
    <3>4. W \union {i} \subseteq C(i)
      BY <3>1
    <3>5. Cardinality(W \union {i}) <= Cardinality(C(i))
      BY <2>2, <3>4, FS_Subset
    <3> HIDE DEF C
    <3> QED BY <2>1, <2>2, <2>3, <3>2, <3>3, <3>5
  <2> QED BY <2>4, <2>5
<1> QED BY <1>5, <1>6 DEF AllGoodAtFirst

DriftTyped ==
    /\ decisions \in Seq(DecidedCase)
    /\ baselines \in [CaseCategory \union {Wildcard} -> Fraction]
    /\ \A u \in computing : u.category \in CaseCategory \union {Wildcard} /\ u.rate \in Fraction
    /\ detecting \in {"idle", "judging", "reported"}
    /\ windows \in [CaseCategory -> Fraction]
    /\ pending \subseteq (DOMAIN DriftThresholds) \X CaseCategory
    /\ violations \subseteq CaseCategory /\ expected \subseteq CaseCategory
    /\ tidy \in BOOLEAN /\ steady \in BOOLEAN

GoodDecision == [category : CaseCategory, good : {TRUE}]

Perfect(r) == r.good = r.of

\* While no bad decision was ever made, every rate is one and nothing has drifted.
NothingBad ==
    steady =>
        /\ decisions \in Seq(GoodDecision)
        /\ \A c \in CaseCategory \union {Wildcard} : Perfect(baselines[c])
        /\ \A u \in computing : Perfect(u.rate)
        /\ \A c \in CaseCategory : Perfect(windows[c])
        /\ violations = {}

\* What is stored for a category, and what will be, is the rate of its first decisions.
BaselinesHold ==
    /\ \A c \in CaseCategory : baselines[c] # NoRate => IsBaseline(c, baselines[c])
    /\ \A u \in computing : u.category \in CaseCategory => IsBaseline(u.category, u.rate)

\* The judgement that will find the category, unless it was found.
Finds(t, c) ==
    /\ <<t, c>> \in pending /\ Sharp(DriftThresholds[t], c)
    /\ DriftThresholds[t].samples <= MinBaseline /\ DriftThresholds[t].window <= windows[c].of

Expecting(c) ==
    /\ ~steady /\ detecting # "idle"
    /\ windows[c].good = 0 /\ baselines[c] # NoRate /\ AllGoodAtFirst(c)
    /\ c \in violations \/ \E t \in DOMAIN DriftThresholds : Finds(t, c)

Detecting ==
    /\ DriftTyped /\ NothingBad /\ BaselinesHold
    /\ tidy \/ steady
    /\ \A c \in expected : Expecting(c)
    /\ detecting # "judging" => pending = {}
    /\ detecting = "idle" => violations = {} /\ expected = {}

\* A threshold has positive numbers in it.
LEMMA ThresholdTyped ==
    ASSUME DriftAssumption, NEW t \in DOMAIN DriftThresholds
    PROVE  LET d == DriftThresholds[t]
           IN /\ d \in DriftThreshold /\ d.max \in Nat /\ d.samples \in Nat \ {0} /\ d.window \in Nat \ {0}
              /\ d.category \in CaseCategory \union {Wildcard}
              /\ d.direction \in {"increase", "decrease", "either"}
<1>1. DriftThresholds[t] \in DriftThreshold
  BY DEF DriftAssumption
<1> QED BY <1>1 DEF DriftThreshold

LEMMA ProductOfNaturals ==
    /\ \A a, b \in Nat : a * b \in Nat
    /\ \A a, b \in Nat \ {0} : a * b \in Nat \ {0}
<1>1. \A a, b \in Nat : a * b \in Nat
  OBVIOUS
<1>2. ASSUME NEW a \in Nat \ {0}, NEW b \in Nat \ {0}
      PROVE  a * b \in Nat \ {0}
  OBVIOUS
<1> QED BY <1>1, <1>2

\* Two rates that are one do not differ.
LEMMA NoDriftInPerfect ==
    ASSUME DriftAssumption, NEW t \in DOMAIN DriftThresholds, NEW r \in Fraction, NEW b \in Fraction,
           Perfect(r), Perfect(b)
    PROVE  ~Violated(DriftThresholds[t], r, b)
<1> DEFINE d == DriftThresholds[t]
<1>1. d.max \in Nat /\ r.of \in Nat /\ b.of \in Nat /\ r.good = r.of /\ b.good = b.of
  BY ThresholdTyped DEF Fraction, Perfect
<1>2. Delta(r, b) = 0 /\ -Delta(r, b) = 0
  <2>1. \A x, y \in Nat : x * y - y * x = 0 /\ -(x * y - y * x) = 0
    OBVIOUS
  <2> QED BY <1>1, <2>1 DEF Delta
<1>3. d.max * (r.of * b.of) \in Nat
  BY <1>1, ProductOfNaturals, Zenon
<1>4. ~Exceeds(0, d, r, b)
  <2>1. \A n \in Nat : ~(100 * 0 > n)
    OBVIOUS
  <2> DEFINE n == d.max * (r.of * b.of)
  <2>2. Exceeds(0, d, r, b) <=> 100 * 0 > n
    BY Zenon DEF Exceeds
  <2>3. n \in Nat
    BY <1>3
  <2> HIDE DEF n, d
  <2> QED BY <2>1, <2>2, <2>3, Zenon
<1>5. ~Exceeds(Delta(r, b), d, r, b) /\ ~Exceeds(-Delta(r, b), d, r, b)
  BY <1>2, <1>4, Zenon
<1> QED BY <1>5 DEF Violated

\* A rate of zero has dropped from one by all there is.
LEMMA DriftIsFound ==
    ASSUME DriftAssumption, NEW t \in DOMAIN DriftThresholds, NEW c, Sharp(DriftThresholds[t], c),
           NEW r \in Fraction, NEW b \in Fraction, b # NoRate, Perfect(b), r.good = 0,
           r.of >= DriftThresholds[t].window, b.of >= DriftThresholds[t].samples
    PROVE  Violated(DriftThresholds[t], r, b)
<1> DEFINE d == DriftThresholds[t]
           p == r.of * b.of
<1>1. d.max \in Nat /\ d.max < 100 /\ d.direction # "increase"
  BY ThresholdTyped DEF Sharp
<1>2. r.of \in Nat \ {0} /\ b.of \in Nat \ {0} /\ b.good = b.of
  BY ThresholdTyped DEF Fraction, Perfect
<1>3. p \in Nat \ {0}
  BY <1>2, ProductOfNaturals, Zenon
<1>4. -Delta(r, b) = b.of * r.of
  <2>1. \A x, y \in Nat : -(0 * y - y * x) = y * x
    OBVIOUS
  <2> QED BY <1>2, <2>1 DEF Delta
<1>5. b.of * r.of = p
  <2>1. \A x, y \in Nat : y * x = x * y
    OBVIOUS
  <2> QED BY <1>2, <2>1
<1>6. 100 * p > d.max * p
  <2>1. \A x \in Nat \ {0}, m \in Nat : m < 100 => 100 * x > m * x
    <3> SUFFICES ASSUME NEW x \in Nat \ {0}, NEW m \in Nat, m < 100
                 PROVE  100 * x > m * x
      OBVIOUS
    <3>1. 100 - m \in Nat \ {0}
      OBVIOUS
    <3>2. (100 - m) * x \in Nat \ {0}
      BY <3>1, ProductOfNaturals, Zenon
    <3>3. (100 - m) * x = 100 * x - m * x
      OBVIOUS
    <3>4. m * x \in Nat
      BY ProductOfNaturals
    <3> QED BY <3>2, <3>3, <3>4
  <2> HIDE DEF p
  <2> QED BY <1>1, <1>3, <2>1
<1>7. Exceeds(-Delta(r, b), d, r, b)
  BY <1>4, <1>5, <1>6 DEF Exceeds
<1> QED BY <1>1, <1>7 DEF Violated

LEMMA DriftStart == DriftAssumption /\ DriftInit => Detecting
<1> SUFFICES ASSUME DriftAssumption, DriftInit
             PROVE  Detecting
  OBVIOUS
<1>1. NoRate \in Fraction /\ Perfect(NoRate)
  BY DEF NoRate, Fraction, Perfect
<1>2. DriftTyped
  BY <1>1 DEF DriftInit, DriftTyped, DecidedCase
<1>3. NothingBad
  BY <1>1 DEF DriftInit, NothingBad, GoodDecision
<1>4. BaselinesHold
  BY DEF DriftInit, BaselinesHold
<1> QED BY <1>2, <1>3, <1>4 DEF DriftInit, Detecting

\* Removing a decision, inserting one and keeping the end of the table leave a table, in
\* which there are no decisions that were not there.
LEMMA TableRemove ==
    ASSUME NEW D, NEW s \in Seq(D), NEW i \in DOMAIN s
    PROVE  RemoveAt(s, i) \in Seq(D)
<1>1. s \in [1 .. Len(s) -> D] /\ DOMAIN s = 1 .. Len(s) /\ Len(s) \in Nat
  BY LenProperties
<1>2. i \in 1 .. Len(s) /\ i - 1 \in Int /\ i + 1 \in Int
  BY <1>1
<1>3. (\A k \in 1 .. i - 1 : s[k] \in D) /\ (\A k \in i + 1 .. Len(s) : s[k] \in D)
  <2>1. \A k \in 1 .. i - 1 : k \in 1 .. Len(s)
    BY <1>1, <1>2
  <2>2. \A k \in i + 1 .. Len(s) : k \in 1 .. Len(s)
    BY <1>1, <1>2
  <2> QED BY <1>1, <2>1, <2>2
<1>4. SubSeq(s, 1, i - 1) \in Seq(D) /\ SubSeq(s, i + 1, Len(s)) \in Seq(D)
  BY <1>1, <1>2, <1>3, SubSeqProperties
<1> QED BY <1>4, ConcatProperties DEF RemoveAt

LEMMA TableInsert ==
    ASSUME NEW D, NEW s \in Seq(D), NEW i \in 1 .. Len(s) + 1, NEW e \in D
    PROVE  InsertAt(s, i, e) \in Seq(D)
<1>1. s \in [1 .. Len(s) -> D] /\ DOMAIN s = 1 .. Len(s) /\ Len(s) \in Nat
  BY LenProperties
<1>2. (\A k \in 1 .. i - 1 : s[k] \in D) /\ (\A k \in i .. Len(s) : s[k] \in D)
  <2>1. \A k \in 1 .. i - 1 : k \in 1 .. Len(s)
    BY <1>1
  <2>2. \A k \in i .. Len(s) : k \in 1 .. Len(s)
    BY <1>1
  <2> QED BY <1>1, <2>1, <2>2
<1>3. SubSeq(s, 1, i - 1) \in Seq(D) /\ SubSeq(s, i, Len(s)) \in Seq(D) /\ <<e>> \in Seq(D)
  BY <1>1, <1>2, SubSeqProperties
<1>4. SubSeq(s, 1, i - 1) \o <<e>> \in Seq(D)
  BY <1>3, ConcatProperties
<1> QED BY <1>3, <1>4, ConcatProperties DEF InsertAt

LEMMA TableAppend ==
    ASSUME NEW D, NEW s \in Seq(D), NEW e \in D
    PROVE  InsertAt(s, Len(s) + 1, e) = Append(s, e)
<1>1. Len(s) \in Nat
  OBVIOUS
<1> DEFINE i == Len(s) + 1
<1>2. i \in Int /\ i - 1 = Len(s) /\ Len(s) < i
  BY <1>1
<1> HIDE DEF i
<1>3. SubSeq(s, 1, i - 1) = s /\ SubSeq(s, i, Len(s)) = <<>>
  BY <1>1, <1>2, SubSeqEmpty
<1>4. s \o <<e>> = Append(s, e) /\ Append(s, e) \in Seq(D)
  OBVIOUS
<1>5. Append(s, e) \o <<>> = Append(s, e)
  BY <1>4, ConcatEmptySeq
<1>6. InsertAt(s, i, e) = SubSeq(s, 1, i - 1) \o <<e>> \o SubSeq(s, i, Len(s))
  BY DEF InsertAt
<1>7. InsertAt(s, i, e) = Append(s, e)
  BY <1>3, <1>4, <1>5, <1>6, Zenon
<1> QED BY <1>7 DEF i

LEMMA TableEnd ==
    ASSUME NEW D, NEW s \in Seq(D), NEW n \in DOMAIN s
    PROVE  SubSeq(s, n + 1, Len(s)) \in Seq(D)
<1>1. s \in [1 .. Len(s) -> D] /\ DOMAIN s = 1 .. Len(s) /\ Len(s) \in Nat
  BY LenProperties
<1>2. \A k \in n + 1 .. Len(s) : k \in 1 .. Len(s)
  BY <1>1
<1>3. \A k \in n + 1 .. Len(s) : s[k] \in D
  BY <1>1, <1>2
<1> QED BY <1>1, <1>3, SubSeqProperties

LEMMA AllAreGood ==
    ASSUME decisions \in Seq(GoodDecision)
    PROVE  /\ \A i \in DOMAIN decisions : decisions[i].good
           /\ \A S \in SUBSET (DOMAIN decisions) : Perfect(Rate(S))
<1>1. \A i \in DOMAIN decisions : decisions[i] \in GoodDecision
  OBVIOUS
<1>2. \A i \in DOMAIN decisions : decisions[i].good
  BY <1>1 DEF GoodDecision
<1>3. ASSUME NEW S \in SUBSET (DOMAIN decisions) PROVE Perfect(Rate(S))
  <2>1. {i \in S : decisions[i].good} = S
    BY <1>2
  <2> QED BY <2>1 DEF Perfect, Rate
<1> QED BY <1>2, <1>3

LEMMA BaselineStays ==
    ASSUME UNCHANGED <<decisions, tidy>>
    PROVE  \A c, r : (IsBaseline(c, r)' <=> IsBaseline(c, r)) /\ (AllGoodAtFirst(c)' <=> AllGoodAtFirst(c))
BY DEF IsBaseline, FromTheFirst, AllGoodAtFirst, EarliestOf, Of

LEMMA IngestKept == ASSUME DriftAssumption, Detecting, Ingest PROVE Detecting'
<1> USE DEF Detecting
<1>0. PICK row \in [category : CaseCategory, good : BOOLEAN],
           rest \in {decisions} \union {RemoveAt(decisions, i) : i \in DOMAIN decisions} :
        \E spot \in 1 .. Len(rest) + 1 :
           /\ decisions' = InsertAt(rest, spot, row)
           /\ tidy' = (tidy /\ rest = decisions /\ spot = Len(rest) + 1)
           /\ steady' = (steady /\ row.good)
           /\ tidy' \/ steady'
           /\ UNCHANGED <<baselines, computing, detection>>
  BY DEF Ingest
<1>1. PICK spot \in 1 .. Len(rest) + 1 :
        /\ decisions' = InsertAt(rest, spot, row)
        /\ tidy' = (tidy /\ rest = decisions /\ spot = Len(rest) + 1)
        /\ steady' = (steady /\ row.good)
        /\ tidy' \/ steady'
        /\ UNCHANGED <<baselines, computing, detection>>
  BY <1>0
<1>2. ASSUME NEW D, decisions \in Seq(D), row \in D
      PROVE  decisions' \in Seq(D)
  <2>1. rest \in Seq(D)
    BY <1>2, TableRemove
  <2> QED BY <1>1, <1>2, <2>1, TableInsert
<1>3. decisions \in Seq(DecidedCase) /\ row \in DecidedCase
  BY DEF DriftTyped, DecidedCase
<1>4. DriftTyped'
  BY <1>1, <1>2, <1>3 DEF DriftTyped, detection
<1>5. NothingBad'
  <2> SUFFICES ASSUME steady' PROVE NothingBad'
    BY DEF NothingBad
  <2>1. steady /\ row \in GoodDecision
    BY <1>1 DEF GoodDecision
  <2>2. decisions' \in Seq(GoodDecision)
    BY <1>2, <2>1 DEF NothingBad
  <2> QED BY <1>1, <2>1, <2>2 DEF NothingBad, detection
<1>6. ASSUME NEW c \in CaseCategory, NEW r, IsBaseline(c, r)
      PROVE  /\ IsBaseline(c, r)'
             /\ tidy' => (AllGoodAtFirst(c) => AllGoodAtFirst(c)')
  <2>1. CASE tidy'
    <3>1. tidy /\ decisions' = Append(decisions, row)
      BY <1>1, <1>3, <2>1, TableAppend
    <3> QED BY <1>3, <1>6, <3>1, BaselineKept
  <2>2. CASE ~tidy'
    BY <1>6, <2>2 DEF IsBaseline
  <2> QED BY <2>1, <2>2
<1>7. BaselinesHold'
  BY <1>1, <1>6 DEF BaselinesHold
<1>8. ASSUME NEW c \in expected PROVE Expecting(c)'
  <2>1. Expecting(c) /\ c \in CaseCategory
    BY DEF DriftTyped
  <2>2. ~steady' /\ tidy'
    BY <1>1, <2>1 DEF Expecting
  <2>3. AllGoodAtFirst(c)'
    BY <1>6, <2>1, <2>2 DEF Expecting, BaselinesHold
  <2> QED BY <1>1, <2>1, <2>2, <2>3 DEF Expecting, Finds, detection
<1> QED BY <1>1, <1>4, <1>5, <1>7, <1>8 DEF detection

LEMMA PurgeKept == ASSUME DriftAssumption, Detecting, Purge PROVE Detecting'
<1> USE DEF Detecting
<1>1. PICK n \in DOMAIN decisions : decisions' = SubSeq(decisions, n + 1, Len(decisions))
  BY DEF Purge
<1>2. steady /\ ~tidy' /\ UNCHANGED <<steady, baselines, computing, detection>> /\ tidy' \in BOOLEAN
  BY DEF Purge
<1>3. DriftTyped'
  BY <1>1, <1>2, TableEnd DEF DriftTyped, detection
<1>4. NothingBad'
  BY <1>1, <1>2, TableEnd DEF NothingBad, detection
<1>5. BaselinesHold'
  BY <1>2 DEF BaselinesHold, IsBaseline
<1>6. expected = {}
  BY <1>2 DEF Expecting
<1> QED BY <1>2, <1>3, <1>4, <1>5, <1>6 DEF detection

LEMMA UpsertsTyped ==
    ASSUME DriftAssumption, DriftTyped, NEW asked \in SUBSET CaseCategory, NEW u \in Upserts(asked)
    PROVE  /\ u.category \in CaseCategory \union {Wildcard} /\ u.rate \in Fraction
           /\ decisions \in Seq(GoodDecision) => Perfect(u.rate)
           /\ u.category \in CaseCategory => IsBaseline(u.category, u.rate)
<1> DEFINE enough == {c \in asked : Cardinality(BaselineWindow(c)) >= MinBaseline}
           together   == UNION {BaselineWindow(c) : c \in enough}
<1>1. decisions \in Seq(DecidedCase) /\ Wildcard \notin CaseCategory
  BY DEF DriftTyped, DriftAssumption
<1>2. \A c \in CaseCategory : BaselineWindow(c) \in SUBSET (DOMAIN decisions)
  BY <1>1, BaselineIsFirst
<1>3. together \in SUBSET (DOMAIN decisions)
  BY <1>2
<1>4. \/ \E c \in enough : u = [category |-> c, rate |-> Rate(BaselineWindow(c)), place |-> Min(BaselineWindow(c))]
      \/ u = [category |-> Wildcard, rate |-> Rate(together), place |-> Len(decisions) + 1]
  BY DEF Upserts
<1>5. CASE u = [category |-> Wildcard, rate |-> Rate(together), place |-> Len(decisions) + 1]
  <2>1. u.category = Wildcard /\ u.rate = Rate(together)
    BY <1>5
  <2> HIDE DEF together
  <2> QED BY <1>1, <1>3, <2>1, RateTyped, AllAreGood
<1>6. ASSUME NEW c \in enough,
             u = [category |-> c, rate |-> Rate(BaselineWindow(c)), place |-> Min(BaselineWindow(c))]
      PROVE  /\ u.category \in CaseCategory \union {Wildcard} /\ u.rate \in Fraction
             /\ decisions \in Seq(GoodDecision) => Perfect(u.rate)
             /\ u.category \in CaseCategory => IsBaseline(u.category, u.rate)
  <2>1. u.category = c /\ u.rate = Rate(BaselineWindow(c))
    BY <1>6
  <2>2. c \in CaseCategory /\ Cardinality(BaselineWindow(c)) >= MinBaseline
    OBVIOUS
  <2>3. BaselineWindow(c) \in SUBSET (DOMAIN decisions)
    BY <1>2, <2>2
  <2> QED BY <1>1, <2>1, <2>2, <2>3, RateTyped, AllAreGood, UpsertIsBaseline
<1> QED BY <1>4, <1>5, <1>6

LEMMA ComputeKept == ASSUME DriftAssumption, Detecting, ComputeBaseline PROVE Detecting'
<1> USE DEF Detecting
<1>1. PICK asked \in SUBSET CaseCategory : computing' = Upserts(asked)
  BY DEF ComputeBaseline
<1>2. UNCHANGED <<ingested, baselines, detection>>
  BY DEF ComputeBaseline
<1>3. DriftTyped'
  BY <1>1, <1>2, UpsertsTyped DEF DriftTyped, ingested, detection
<1>4. NothingBad'
  BY <1>1, <1>2, UpsertsTyped DEF NothingBad, ingested, detection
<1>5. BaselinesHold'
  BY <1>1, <1>2, UpsertsTyped, BaselineStays DEF BaselinesHold, ingested
<1>6. \A c \in expected : Expecting(c)'
  BY <1>2, BaselineStays DEF Expecting, Finds, ingested, detection
<1> QED BY <1>2, <1>3, <1>4, <1>5, <1>6 DEF ingested, detection

LEMMA UpsertKept == ASSUME DriftAssumption, Detecting, UpsertBaseline PROVE Detecting'
<1> USE DEF Detecting
<1>1. PICK u \in computing :
        /\ baselines' = [baselines EXCEPT ![u.category] = u.rate]
        /\ computing' = computing \ {u}
  BY DEF UpsertBaseline
<1>2. UNCHANGED <<ingested, detection>>
  BY DEF UpsertBaseline
<1>3. /\ u.category \in CaseCategory \union {Wildcard} /\ u.rate \in Fraction
      /\ \A c \in CaseCategory \union {Wildcard} :
            baselines'[c] = IF c = u.category THEN u.rate ELSE baselines[c]
      /\ baselines' \in [CaseCategory \union {Wildcard} -> Fraction]
  BY <1>1 DEF DriftTyped
<1>4. DriftTyped'
  BY <1>1, <1>2, <1>3 DEF DriftTyped, ingested, detection
<1>5. NothingBad'
  BY <1>1, <1>2, <1>3 DEF NothingBad, ingested, detection
<1>6. BaselinesHold'
  BY <1>1, <1>2, <1>3, BaselineStays DEF BaselinesHold, ingested
<1>7. ASSUME NEW c \in expected PROVE Expecting(c)'
  <2>1. Expecting(c) /\ c \in CaseCategory
    BY DEF DriftTyped
  <2>2. baselines'[c] # NoRate
    <3>1. MinBaseline # 0 /\ NoRate.of = 0
      BY DEF DriftAssumption, NoRate
    <3>2. c = u.category => u.rate.of = MinBaseline
      BY <2>1 DEF BaselinesHold, IsBaseline
    <3> QED BY <1>3, <2>1, <3>1, <3>2 DEF Expecting
  <2> QED BY <1>2, <2>1, <2>2, BaselineStays DEF Expecting, Finds, ingested, detection
<1> QED BY <1>2, <1>4, <1>5, <1>6, <1>7 DEF ingested, detection

LEMMA BeginKept == ASSUME DriftAssumption, Detecting, BeginDetect PROVE Detecting'
<1> USE DEF Detecting
<1>1. /\ detecting = "idle" /\ violations = {} /\ violations' = {}
      /\ windows' = [c \in CaseCategory |-> Rate(LatestOf(Of(Newest, c), RecentWindow))]
      /\ pending' = Judgements(windows') /\ expected' = Turned(windows')
      /\ detecting' = IF pending' = {} THEN "reported" ELSE "judging"
      /\ UNCHANGED <<ingested, baselines, computing>>
  BY DEF BeginDetect
<1>2. \A c \in CaseCategory : LatestOf(Of(Newest, c), RecentWindow) \in SUBSET (DOMAIN decisions)
  BY DEF LatestOf, Of, Newest
<1>3. /\ windows' \in [CaseCategory -> Fraction]
      /\ decisions \in Seq(GoodDecision) => \A c \in CaseCategory : Perfect(windows'[c])
  BY <1>1, <1>2, RateTyped, AllAreGood DEF DriftTyped
<1>4. /\ pending' \subseteq (DOMAIN DriftThresholds) \X CaseCategory
      /\ expected' \subseteq CaseCategory
  BY <1>1 DEF Judgements, Turned
<1>5. DriftTyped'
  BY <1>1, <1>3, <1>4 DEF DriftTyped, ingested
<1>6. NothingBad'
  BY <1>1, <1>3 DEF NothingBad, ingested
<1>7. BaselinesHold'
  BY <1>1, BaselineStays DEF BaselinesHold, ingested
<1>8. ASSUME NEW c \in expected' PROVE Expecting(c)'
  <2>1. PICK t \in DOMAIN DriftThresholds :
            /\ Sharp(DriftThresholds[t], c)
            /\ baselines[c].of >= DriftThresholds[t].samples
            /\ windows'[c].of >= DriftThresholds[t].window
    BY <1>1 DEF Turned
  <2>2. c \in CaseCategory /\ tidy /\ windows'[c].good = 0 /\ AllGoodAtFirst(c)
    BY <1>1 DEF Turned
  <2>3. /\ DriftThresholds[t].samples \in Nat \ {0} /\ DriftThresholds[t].window \in Nat \ {0}
        /\ windows'[c] \in Fraction /\ baselines[c] \in Fraction /\ NoRate = [good |-> 0, of |-> 0]
    BY <1>3, <2>2, ThresholdTyped DEF DriftTyped, NoRate
  <2>4. windows'[c] # NoRate /\ baselines[c] # NoRate /\ windows'[c].of # 0
    BY <2>1, <2>3
  <2>5. ~steady
    BY <1>3, <2>2, <2>4 DEF NothingBad, Perfect
  <2>6. baselines[c].of = MinBaseline
    BY <2>2, <2>4 DEF BaselinesHold, IsBaseline
  <2>7. <<t, c>> \in pending'
    BY <1>1, <2>1, <2>2, <2>4 DEF Judgements, Sharp
  <2>8. Finds(t, c)'
    BY <2>1, <2>3, <2>6, <2>7 DEF Finds, Sharp, Fraction
  <2>9. AllGoodAtFirst(c)'
    BY <1>1, <2>2, BaselineStays DEF ingested
  <2> QED BY <1>1, <2>2, <2>4, <2>5, <2>7, <2>8, <2>9 DEF Expecting, ingested
<1> QED BY <1>1, <1>5, <1>6, <1>7, <1>8 DEF ingested

LEMMA JudgeKept == ASSUME DriftAssumption, Detecting, Judge PROVE Detecting'
<1> USE DEF Detecting
<1>1. PICK t \in DOMAIN DriftThresholds, c \in CaseCategory :
        /\ <<t, c>> \in pending
        /\ pending' = pending \ {<<t, c>>}
        /\ violations' = IF Violated(DriftThresholds[t], windows[c], baselines[DriftThresholds[t].category])
                         THEN violations \union {c} ELSE violations
  BY DEF Judge
<1>2. /\ detecting = "judging" /\ detecting' = IF pending' = {} THEN "reported" ELSE "judging"
      /\ UNCHANGED <<ingested, baselines, computing, windows, expected>>
  BY DEF Judge
<1>3. /\ windows[c] \in Fraction /\ baselines[DriftThresholds[t].category] \in Fraction
      /\ DriftThresholds[t].category \in CaseCategory \union {Wildcard}
  BY ThresholdTyped DEF DriftTyped
<1>4. DriftTyped'
  BY <1>1, <1>2 DEF DriftTyped, ingested
<1>5. NothingBad'
  <2> SUFFICES ASSUME steady PROVE violations' = {}
    BY <1>2 DEF NothingBad, ingested
  <2>1. Perfect(windows[c]) /\ Perfect(baselines[DriftThresholds[t].category])
    BY <1>3 DEF NothingBad
  <2>2. ~Violated(DriftThresholds[t], windows[c], baselines[DriftThresholds[t].category])
    BY <1>3, <2>1, NoDriftInPerfect
  <2> QED BY <1>1, <2>2 DEF NothingBad
<1>6. BaselinesHold'
  BY <1>2, BaselineStays DEF BaselinesHold, ingested
<1>7. ASSUME NEW e \in expected PROVE Expecting(e)'
  <2>1. Expecting(e) /\ e \in CaseCategory
    BY DEF DriftTyped
  <2>2. violations \subseteq violations'
    BY <1>1
  <2>3. CASE e \in violations
    BY <1>2, <2>1, <2>2, <2>3, BaselineStays DEF Expecting, ingested
  <2>4. ASSUME NEW w \in DOMAIN DriftThresholds, Finds(w, e), <<w, e>> # <<t, c>>
        PROVE  Expecting(e)'
    <3>1. Finds(w, e)'
      BY <1>1, <1>2, <2>4 DEF Finds
    <3> QED BY <1>2, <2>1, <3>1, BaselineStays DEF Expecting, ingested
  <2>5. ASSUME Finds(t, c), c = e
        PROVE  Expecting(e)'
    <3> DEFINE b == baselines[c]
    <3>1. Sharp(DriftThresholds[t], c) /\ DriftThresholds[t].category = c
      BY <2>5 DEF Finds, Sharp
    <3>2. windows[c].good = 0 /\ b # NoRate /\ AllGoodAtFirst(c) /\ tidy
      BY <2>1, <2>5 DEF Expecting
    <3>3. IsBaseline(c, b)
      BY <3>2 DEF BaselinesHold
    <3>4. PICK W : FromTheFirst(c, W) /\ ((\A i \in W : decisions[i].good) => b.good = b.of)
      BY <3>2, <3>3 DEF IsBaseline
    <3>5. Perfect(b)
      BY <3>2, <3>4, FirstAreGood DEF DriftTyped, Perfect
    <3>6. /\ DriftThresholds[t].samples \in Nat /\ DriftThresholds[t].window \in Nat
          /\ MinBaseline \in Nat /\ windows[c].of \in Nat
      BY <1>3, ThresholdTyped DEF DriftAssumption, Fraction
    <3>7. windows[c].of >= DriftThresholds[t].window /\ b.of >= DriftThresholds[t].samples
      BY <2>5, <3>3, <3>6 DEF Finds, IsBaseline
    <3>8. Violated(DriftThresholds[t], windows[c], b)
      BY <1>3, <3>1, <3>2, <3>5, <3>7, DriftIsFound
    <3>9. e \in violations'
      BY <1>1, <2>5, <3>1, <3>8
    <3> QED BY <1>2, <2>1, <3>9, BaselineStays DEF Expecting, ingested
  <2> QED BY <2>1, <2>3, <2>4, <2>5 DEF Expecting
<1> QED BY <1>2, <1>4, <1>5, <1>6, <1>7 DEF ingested

LEMMA ReportKept == ASSUME DriftAssumption, Detecting, Report PROVE Detecting'
<1> USE DEF Detecting
<1>1. /\ detecting = "reported" /\ detecting' = "idle" /\ windows' = [c \in CaseCategory |-> NoRate]
      /\ violations' = {} /\ expected' = {} /\ pending = {}
      /\ UNCHANGED <<ingested, baselines, computing, pending>>
  BY DEF Report
<1>2. NoRate \in Fraction /\ Perfect(NoRate)
  BY DEF NoRate, Fraction, Perfect
<1>3. DriftTyped'
  BY <1>1, <1>2 DEF DriftTyped, ingested
<1>4. NothingBad'
  BY <1>1, <1>2 DEF NothingBad, ingested
<1>5. BaselinesHold'
  BY <1>1, BaselineStays DEF BaselinesHold, ingested
<1> QED BY <1>1, <1>3, <1>4, <1>5 DEF ingested

LEMMA DetectingKept == ASSUME DriftAssumption, Detecting, [DriftNext]_driftVars PROVE Detecting'
<1>1. CASE Ingest          BY <1>1, IngestKept
<1>2. CASE Purge           BY <1>2, PurgeKept
<1>3. CASE ComputeBaseline BY <1>3, ComputeKept
<1>4. CASE UpsertBaseline  BY <1>4, UpsertKept
<1>5. CASE BeginDetect     BY <1>5, BeginKept
<1>6. CASE Judge           BY <1>6, JudgeKept
<1>7. CASE Report          BY <1>7, ReportKept
<1>8. CASE UNCHANGED driftVars
  BY <1>8, BaselineStays DEF Detecting, DriftTyped, NothingBad, BaselinesHold, Expecting, Finds, driftVars,
         ingested, detection
<1> QED BY <1>1, <1>2, <1>3, <1>4, <1>5, <1>6, <1>7, <1>8 DEF DriftNext

LEMMA FoundWhenReported == Detecting => DetectionIsRight
BY DEF Detecting, DetectionIsRight, Expecting, Finds, NothingBad

(***************************************************************************)
(* A report of drift detection names every category that has turned from   *)
(* all good to all bad while its decisions came in order and stayed, and   *)
(* none while no decision was bad: for any categories, thresholds, sizes   *)
(* of baselines and windows and limits on the rows fetched, whatever is    *)
(* ingested, purged and computed while it judges (drift.py).               *)
(***************************************************************************)
THEOREM DetectionFindsDrift == DriftAssumption => (DriftSpec => []DetectionIsRight)
<1> SUFFICES ASSUME DriftAssumption
             PROVE  DriftSpec => []DetectionIsRight
  OBVIOUS
<1>1. DriftInit => Detecting
  BY DriftStart
<1>2. Detecting /\ [DriftNext]_driftVars => Detecting'
  BY DetectingKept
<1>3. Detecting => DetectionIsRight
  BY FoundWhenReported
<1> QED BY <1>1, <1>2, <1>3, PTL DEF DriftSpec
=============================================================================
