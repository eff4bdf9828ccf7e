---------------------------- MODULE WebhooksProofs ----------------------------
(***************************************************************************)
(* Proofs about Webhooks, for any number of payloads, workers and targets  *)
(* and any size of the queue: its type invariant; that an accepted payload *)
(* is in one place until it is done; that shutdown drains what was queued  *)
(* before it; and, from these, that the dispatcher implements Notification.*)
(***************************************************************************)
EXTENDS Webhooks, FiniteSetTheorems, SequenceTheorems, TLAPS

Item     == Payload \cup {Stop}
Delivery == [status : {"sent", "failed"}, attempts : 1 .. MaxRetries]

LEMMA WorkersCounted == Cardinality(Worker) \in Nat
BY FS_CardinalityType, WebhookAssumption

\* The queue after a payload or a sentinel is put, and after its head is taken off.
LEMMA PutItem ==
    ASSUME queue \in Seq(Item), NEW x \in Item
    PROVE  /\ Append(queue, x) \in Seq(Item)
           /\ Len(Append(queue, x)) = Len(queue) + 1
           /\ \A i \in 1 .. Len(queue) : Append(queue, x)[i] = queue[i]
           /\ Append(queue, x)[Len(queue) + 1] = x
BY AppendProperties

LEMMA TakeItem ==
    ASSUME queue \in Seq(Item), queue # <<>>
    PROVE  /\ Head(queue) = queue[1]
           /\ Head(queue) \in Item
           /\ Tail(queue) \in Seq(Item)
           /\ Len(queue) \in Nat \ {0}
           /\ Len(Tail(queue)) = Len(queue) - 1
           /\ \A i \in 1 .. Len(queue) - 1 : Tail(queue)[i] = queue[i + 1]
<1>1. Len(queue) \in Nat \ {0}
  BY EmptySeq
<1>2. Head(queue) = queue[1]
  OBVIOUS
<1>3. QED
  BY <1>1, <1>2, HeadTailProperties

(***************************************************************************)
(* The type invariant in three parts: the queue, the log, and the rest.    *)
(***************************************************************************)
QueueOK == queue \in Seq(Item) /\ Len(queue) <= QueueSize
LogOK   == results \in [Payload \X Target -> Seq(Delivery)]
PlainOK ==
    /\ targets \in 0 .. MaxTargets
    /\ dropped \in Nat
    /\ fate \in [Payload -> {"new", "refused", "accepted", "done"}]
    /\ early \subseteq Payload
    /\ held \in [Worker -> Payload \cup {NoPayload}]
    /\ running \subseteq Worker
    /\ pos \in [Worker -> 1 .. MaxTargets + 1]
    /\ attempt \in [Worker -> 1 .. MaxRetries]
    /\ closing \in {"no", "signal", "join", "over"}
    /\ unsignalled \in 0 .. Cardinality(Worker)

LEMMA TypeParts == TypeOK <=> QueueOK /\ LogOK /\ PlainOK
BY DEF TypeOK, QueueOK, LogOK, PlainOK, Item, Delivery

LEMMA QueueKept == QueueOK /\ UNCHANGED queue => QueueOK'
BY DEF QueueOK

LEMMA LogKept == LogOK /\ UNCHANGED results => LogOK'
BY DEF LogOK

\* Putting an item on a queue that is not full, and taking one off.
LEMMA QueuePut ==
    ASSUME QueueOK, ~Full, NEW x \in Item, queue' = Append(queue, x)
    PROVE  QueueOK'
<1>1. Len(queue) \in Nat /\ Len(queue) < QueueSize /\ QueueSize \in Nat
  BY LenProperties, WebhookAssumption DEF QueueOK, Full
<1>2. QED
  BY <1>1, PutItem DEF QueueOK

LEMMA QueueTaken ==
    ASSUME QueueOK, queue # <<>>, queue' = Tail(queue)
    PROVE  QueueOK' /\ Head(queue) \in Item
<1>1. QueueSize \in Nat
  BY WebhookAssumption
<1>2. QED
  BY <1>1, TakeItem DEF QueueOK

\* What one entry of the delivery log adds to the log.
LEMMA LogTyped ==
    ASSUME LogOK, PlainOK, NEW w \in Worker, Sending(w),
           NEW status \in {"sent", "failed"}, Log(w, status)
    PROVE  /\ LogOK'
           /\ pos' \in [Worker -> 1 .. MaxTargets + 1]
           /\ attempt' \in [Worker -> 1 .. MaxRetries]
<1> DEFINE entry == [status |-> status, attempts |-> attempt[w]]
<1>1. held[w] \in Payload /\ pos[w] \in Target
  BY WebhookAssumption DEF PlainOK, Sending, Busy, Target
<1>2. entry \in Delivery
  BY DEF PlainOK, Delivery
<1>3. <<held[w], pos[w]>> \in Payload \X Target
  BY <1>1
<1>4. results[<<held[w], pos[w]>>] \in Seq(Delivery)
  BY <1>3 DEF LogOK
<1>5. Append(results[<<held[w], pos[w]>>], entry) \in Seq(Delivery)
  BY <1>2, <1>4, AppendProperties
<1>6. results' = [results EXCEPT ![<<held[w], pos[w]>>] =
                     Append(results[<<held[w], pos[w]>>], entry)]
  BY DEF Log
<1> HIDE DEF entry
<1>7. LogOK'
  BY <1>3, <1>5, <1>6 DEF LogOK
<1>8. QED
  BY <1>1, <1>7, WebhookAssumption DEF Log, PlainOK, Target

LEMMA InitTyped == Init => TypeOK
<1> SUFFICES ASSUME Init PROVE TypeOK
  OBVIOUS
<1>1. QueueOK
  BY EmptySeq, WebhookAssumption DEF Init, QueueOK
<1>2. LogOK
  BY EmptySeq DEF Init, LogOK
<1>3. PlainOK
  BY WebhookAssumption, WorkersCounted DEF Init, PlainOK
<1>4. QED
  BY <1>1, <1>2, <1>3, TypeParts

LEMMA StepTyped == TypeOK /\ [Next]_vars => TypeOK'
<1> SUFFICES ASSUME TypeOK, [Next]_vars PROVE QueueOK' /\ LogOK' /\ PlainOK'
  BY DEF TypeOK, QueueOK, LogOK, PlainOK, Item, Delivery
<1> USE WebhookAssumption
<1>t. QueueOK /\ LogOK /\ PlainOK
  BY TypeParts
<1>1. CASE AddTarget
  <2>1. PlainOK'
    BY <1>1, <1>t DEF PlainOK, AddTarget, workerVars, closeVars
  <2>2. QED
    BY <1>1, <1>t, <2>1, QueueKept, LogKept DEF AddTarget
<1>2. ASSUME NEW p \in Payload, DispatchAsync(p) PROVE QueueOK' /\ LogOK' /\ PlainOK'
  <2>1. QueueOK'
    BY <1>2, <1>t, QueuePut, QueueKept DEF DispatchAsync, Item
  <2>2. PlainOK'
    <3>1. CASE Full
      BY <1>2, <1>t, <3>1 DEF PlainOK, DispatchAsync, workerVars, closeVars
    <3>2. CASE ~Full
      <4>1. early' \subseteq Payload
        BY <1>2, <1>t, <3>2 DEF PlainOK, DispatchAsync
      <4>2. QED
        BY <1>2, <1>t, <3>2, <4>1 DEF PlainOK, DispatchAsync, workerVars, closeVars
    <3>3. QED
      BY <3>1, <3>2
  <2>3. QED
    BY <1>2, <1>t, <2>1, <2>2, LogKept DEF DispatchAsync
<1>3. ASSUME NEW w \in Worker, Take(w) PROVE QueueOK' /\ LogOK' /\ PlainOK'
  <2>1. QueueOK' /\ Head(queue) \in Payload
    BY <1>3, <1>t, QueueTaken DEF Take, Item
  <2>2. PlainOK'
    BY <1>3, <1>t, <2>1 DEF PlainOK, Take, closeVars
  <2>3. QED
    BY <1>3, <1>t, <2>1, <2>2, LogKept DEF Take
<1>4. ASSUME NEW w \in Worker, TakeStop(w) PROVE QueueOK' /\ LogOK' /\ PlainOK'
  <2>1. QueueOK'
    BY <1>4, <1>t, QueueTaken DEF TakeStop
  <2>2. PlainOK'
    BY <1>4, <1>t DEF PlainOK, TakeStop, closeVars
  <2>3. QED
    BY <1>4, <1>t, <2>1, <2>2, LogKept DEF TakeStop
<1>5. ASSUME NEW w \in Worker, Pass(w) PROVE QueueOK' /\ LogOK' /\ PlainOK'
  <2>1. PlainOK'
    BY <1>5, <1>t DEF PlainOK, Pass, closeVars
  <2>2. QED
    BY <1>5, <1>t, <2>1, QueueKept, LogKept DEF Pass
<1>6. ASSUME NEW w \in Worker, SendSucceeds(w) PROVE QueueOK' /\ LogOK' /\ PlainOK'
  <2>1. LogOK' /\ pos' \in [Worker -> 1 .. MaxTargets + 1]
               /\ attempt' \in [Worker -> 1 .. MaxRetries]
    BY <1>6, <1>t, LogTyped DEF SendSucceeds
  <2>2. PlainOK'
    BY <1>6, <1>t, <2>1 DEF PlainOK, SendSucceeds, closeVars
  <2>3. QED
    BY <1>6, <1>t, <2>1, <2>2, QueueKept DEF SendSucceeds
<1>7. ASSUME NEW w \in Worker, SendFails(w) PROVE QueueOK' /\ LogOK' /\ PlainOK'
  <2>1. CASE attempt[w] < MaxRetries
    <3>1. PlainOK' /\ UNCHANGED results
      BY <1>7, <1>t, <2>1 DEF PlainOK, SendFails, closeVars
    <3>2. QED
      BY <1>7, <1>t, <3>1, QueueKept, LogKept DEF SendFails
  <2>2. CASE ~(attempt[w] < MaxRetries)
    <3>1. LogOK' /\ pos' \in [Worker -> 1 .. MaxTargets + 1]
                 /\ attempt' \in [Worker -> 1 .. MaxRetries]
      BY <1>7, <1>t, <2>2, LogTyped DEF SendFails
    <3>2. PlainOK'
      BY <1>7, <1>t, <3>1 DEF PlainOK, SendFails, closeVars
    <3>3. QED
      BY <1>7, <1>t, <3>1, <3>2, QueueKept DEF SendFails
  <2>3. QED
    BY <2>1, <2>2
<1>8. ASSUME NEW w \in Worker, FinishPayload(w) \/ DispatchRaises(w)
      PROVE  QueueOK' /\ LogOK' /\ PlainOK'
  <2>1. PlainOK'
    BY <1>8, <1>t DEF PlainOK, FinishPayload, DispatchRaises, LetGo, closeVars, Busy, Sending
  <2>2. QED
    BY <1>8, <1>t, <2>1, QueueKept, LogKept DEF FinishPayload, DispatchRaises
<1>9. CASE CallShutdown
  <2>1. PlainOK'
    BY <1>9, <1>t, WorkersCounted DEF PlainOK, CallShutdown, workerVars
  <2>2. QED
    BY <1>9, <1>t, <2>1, QueueKept, LogKept DEF CallShutdown
<1>10. CASE Signal
  <2>1. QueueOK'
    BY <1>10, <1>t, QueuePut, QueueKept DEF Signal, Item
  <2>2. PlainOK'
    BY <1>10, <1>t, WorkersCounted DEF PlainOK, Signal, workerVars
  <2>3. QED
    BY <1>10, <1>t, <2>1, <2>2, LogKept DEF Signal
<1>11. CASE ShutdownReturns
  <2>1. PlainOK'
    BY <1>11, <1>t DEF PlainOK, ShutdownReturns, workerVars
  <2>2. QED
    BY <1>11, <1>t, <2>1, QueueKept, LogKept DEF ShutdownReturns
<1>12. CASE UNCHANGED vars
  <2>1. PlainOK'
    BY <1>12, <1>t DEF PlainOK, vars, workerVars, closeVars
  <2>2. QED
    BY <1>12, <1>t, <2>1, QueueKept, LogKept DEF vars
<1>13. QED
  BY <1>1, <1>2, <1>3, <1>4, <1>5, <1>6, <1>7, <1>8, <1>9, <1>10, <1>11, <1>12
  DEF Next, WorkerStep, ShutdownStep

\* The queue never exceeds its size, and every counter and log keeps its type, for any
\* number of workers, targets and payloads.
THEOREM WebhookTyping == Spec => []TypeOK
<1>1. QED
  BY InitTyped, StepTyped, PTL DEF Spec
-----------------------------------------------------------------------------
(***************************************************************************)
(* Where an accepted payload is: once in the queue or with one worker.     *)
(***************************************************************************)
Index == 1 .. Len(queue)

\* What a worker holds, and what is queued, is accepted and not done ...
HeldAccepted   == \A w \in Worker : held[w] # NoPayload => fate[held[w]] = "accepted"
QueuedAccepted == \A i \in Index : queue[i] # Stop => fate[queue[i]] = "accepted"
\* ... and in no second place ...
HeldApart      == \A v, w \in Worker : held[v] = held[w] /\ held[v] # NoPayload => v = w
QueuedApart    == \A i, j \in Index : queue[i] = queue[j] /\ queue[i] # Stop => i = j
QueuedNotHeld  == \A i \in Index, w \in Worker : queue[i] # held[w]
\* ... and no accepted payload is lost.
NoneLost == \A p \in Payload : fate[p] = "accepted" =>
               (\E i \in Index : queue[i] = p) \/ (\E w \in Worker : held[w] = p)

OnePlace == HeldAccepted /\ QueuedAccepted /\ HeldApart /\ QueuedApart /\ QueuedNotHeld /\ NoneLost

LEMMA QueueTyped ==
    ASSUME TypeOK
    PROVE  /\ queue \in Seq(Item)
           /\ Len(queue) \in Nat
           /\ \A i \in Index : queue[i] \in Item
BY LenProperties, ElementOfSeq DEF TypeOK, Item, Index

\* A sentinel is put behind the rest.
LEMMA PlaceSignalled ==
    ASSUME TypeOK, OnePlace, queue' = Append(queue, Stop), UNCHANGED <<held, fate>>
    PROVE  OnePlace'
<1>1. /\ queue \in Seq(Item) /\ Len(queue) \in Nat
      /\ \A i \in Index : queue[i] \in Item
  BY QueueTyped
<1>2. /\ Len(queue') = Len(queue) + 1
      /\ \A i \in Index : queue'[i] = queue[i]
      /\ queue'[Len(queue) + 1] = Stop
  BY <1>1, PutItem DEF Item, Index
<1>3. Index' = Index \cup {Len(queue) + 1} /\ Len(queue) + 1 \notin Index
  BY <1>1, <1>2 DEF Index
<1>4. \A w \in Worker : held[w] # Stop
  BY SentinelsAreNoPayloads DEF TypeOK
<1>5. HeldAccepted'
  BY <1>2, <1>3, <1>4 DEF OnePlace, HeldAccepted
<1>6. QueuedAccepted'
  BY <1>2, <1>3, <1>4 DEF OnePlace, QueuedAccepted
<1>7. HeldApart'
  BY <1>2, <1>3, <1>4 DEF OnePlace, HeldApart
<1>8. QueuedApart'
  <2> SUFFICES ASSUME NEW i \in Index', NEW j \in Index', queue'[i] = queue'[j],
                      queue'[i] # Stop
               PROVE  i = j
    BY DEF QueuedApart
  <2>1. i \in Index /\ j \in Index
    BY <1>2, <1>3
  <2>2. queue[i] = queue[j] /\ queue[i] # Stop
    BY <1>2, <2>1
  <2>3. QED
    BY <2>1, <2>2 DEF OnePlace, QueuedApart
<1>9. QueuedNotHeld'
  BY <1>2, <1>3, <1>4 DEF OnePlace, QueuedNotHeld
<1>10. NoneLost'
  BY <1>2, <1>3, <1>4 DEF OnePlace, NoneLost
<1>11. QED
  BY <1>5, <1>6, <1>7, <1>8, <1>9, <1>10 DEF OnePlace

\* A payload is accepted.
LEMMA PlaceOffered ==
    ASSUME TypeOK, OnePlace, NEW p \in Payload, DispatchAsync(p)
    PROVE  OnePlace'
<1>1. /\ queue \in Seq(Item) /\ Len(queue) \in Nat
      /\ \A i \in Index : queue[i] \in Item
  BY QueueTyped
<1>2. fate[p] = "new" /\ held' = held
  BY DEF DispatchAsync, workerVars
<1>3. /\ \A i \in Index : queue[i] # p
      /\ \A w \in Worker : held[w] # p
      /\ p # Stop /\ p # NoPayload
  BY <1>2, SentinelsAreNoPayloads DEF OnePlace, HeldAccepted, QueuedAccepted
<1>4. CASE Full
  <2>1. fate' = [fate EXCEPT ![p] = "refused"] /\ queue' = queue
    BY <1>4 DEF DispatchAsync
  <2>2. \A q \in Payload : q # p => fate'[q] = fate[q]
    BY <2>1 DEF TypeOK
  <2>3. fate'[p] = "refused" /\ Index' = Index
    BY <2>1 DEF TypeOK, Index
  <2>4. \A i \in Index : queue[i] # Stop => queue[i] \in Payload
    BY <1>1 DEF Item
  <2>5. \A w \in Worker : held[w] # NoPayload => held[w] \in Payload
    BY DEF TypeOK
  <2>6. QED
    BY <1>2, <1>3, <2>1, <2>2, <2>3, <2>4, <2>5
    DEF OnePlace, HeldAccepted, QueuedAccepted, HeldApart, QueuedApart, QueuedNotHeld,
        NoneLost
<1>5. CASE ~Full
  <2>1. fate' = [fate EXCEPT ![p] = "accepted"] /\ queue' = Append(queue, p)
    BY <1>5 DEF DispatchAsync
  <2>2. /\ Len(queue') = Len(queue) + 1
        /\ \A i \in Index : queue'[i] = queue[i]
        /\ queue'[Len(queue) + 1] = p
    BY <1>1, <2>1, PutItem DEF Item, Index
  <2>3. Index' = Index \cup {Len(queue) + 1} /\ Len(queue) + 1 \notin Index
    BY <1>1, <2>2 DEF Index
  <2>4. fate'[p] = "accepted" /\ \A q \in Payload : q # p => fate'[q] = fate[q]
    BY <2>1 DEF TypeOK
  <2>5. \A i \in Index : queue[i] # Stop => queue[i] \in Payload
    BY <1>1 DEF Item
  <2>6. \A w \in Worker : held[w] # NoPayload => held[w] \in Payload
    BY DEF TypeOK
  <2>7. QED
    BY <1>2, <1>3, <2>2, <2>3, <2>4, <2>5, <2>6
    DEF OnePlace, HeldAccepted, QueuedAccepted, HeldApart, QueuedApart, QueuedNotHeld,
        NoneLost
<1>6. QED
  BY <1>4, <1>5

\* A worker takes the head of the queue: h is what its hands hold afterwards.
LEMMA PlaceTaken ==
    ASSUME TypeOK, OnePlace, NEW w \in Worker, Take(w) \/ TakeStop(w)
    PROVE  OnePlace'
<1>1. /\ queue \in Seq(Item) /\ Len(queue) \in Nat
      /\ \A i \in Index : queue[i] \in Item
  BY QueueTyped
<1>2. queue # <<>> /\ queue' = Tail(queue) /\ held[w] = NoPayload /\ fate' = fate
  BY DEF Take, TakeStop, Idle
<1>3. /\ Head(queue) = queue[1] /\ 1 \in Index
      /\ Len(queue') = Len(queue) - 1
      /\ \A i \in 1 .. Len(queue) - 1 : queue'[i] = queue[i + 1]
  BY <1>1, <1>2, TakeItem DEF Index
<1>4. \A i \in Index' : i + 1 \in Index /\ i + 1 # 1 /\ queue'[i] = queue[i + 1]
  BY <1>1, <1>3 DEF Index
<1>5. \A i \in Index : i # 1 => \E j \in Index' : i = j + 1
  <2> SUFFICES ASSUME NEW i \in Index, i # 1 PROVE i - 1 \in Index' /\ i = (i - 1) + 1
    OBVIOUS
  <2> QED
    BY <1>1, <1>3 DEF Index
<1>6. \A i, j \in Index' : i + 1 = j + 1 => i = j
  BY <1>1, <1>3 DEF Index
<1>7. held \in [Worker -> Payload \cup {NoPayload}]
  BY DEF TypeOK
<1>8. CASE Take(w)
  <2>1. queue[1] # Stop /\ queue[1] \in Payload /\ queue[1] # NoPayload
    BY <1>1, <1>3, <1>8, SentinelsAreNoPayloads DEF Take, Item
  <2>2. held'[w] = queue[1] /\ \A v \in Worker : v # w => held'[v] = held[v]
    BY <1>3, <1>7, <1>8 DEF Take
  <2>3. \A i \in Index' : queue'[i] # queue[1]
    BY <1>3, <1>4, <2>1 DEF OnePlace, QueuedApart
  <2>4. \A p \in Payload : fate'[p] = "accepted" =>
           (\E i \in Index' : queue'[i] = p) \/ (\E v \in Worker : held'[v] = p)
    <3> SUFFICES ASSUME NEW p \in Payload, fate[p] = "accepted", held'[w] # p,
                        \A v \in Worker : held[v] # p
                 PROVE  \E i \in Index' : queue'[i] = p
      <4>1. ASSUME NEW p \in Payload, fate[p] = "accepted", NEW v \in Worker, held[v] = p
            PROVE  held'[v] = p
        BY <1>2, <2>2, <4>1, SentinelsAreNoPayloads
      <4>2. QED
        BY <1>2, <4>1
    <3>1. PICK i \in Index : queue[i] = p
      BY DEF OnePlace, NoneLost
    <3>2. i # 1
      BY <2>2, <3>1
    <3>3. QED
      BY <1>4, <1>5, <3>1, <3>2
  <2>5. HeldAccepted'
    <3>1. fate[queue[1]] = "accepted"
      BY <1>3, <2>1 DEF OnePlace, QueuedAccepted
    <3>2. QED
      BY <1>2, <2>2, <3>1 DEF OnePlace, HeldAccepted
  <2>6. QueuedAccepted'
    BY <1>2, <1>4 DEF OnePlace, QueuedAccepted
  <2>7. HeldApart'
    <3>1. \A v \in Worker : held[v] # queue[1]
      BY <1>3 DEF OnePlace, QueuedNotHeld
    <3>2. QED
      BY <2>2, <3>1 DEF OnePlace, HeldApart
  <2>8. QueuedApart'
    BY <1>4, <1>6 DEF OnePlace, QueuedApart
  <2>9. QueuedNotHeld'
    BY <1>4, <2>2, <2>3 DEF OnePlace, QueuedNotHeld
  <2>10. NoneLost'
    BY <2>4 DEF NoneLost
  <2>11. QED
    BY <2>5, <2>6, <2>7, <2>8, <2>9, <2>10 DEF OnePlace
<1>9. CASE TakeStop(w)
  <2>1. queue[1] = Stop /\ held' = held
    BY <1>3, <1>9 DEF TakeStop
  <2>2. \A p \in Payload : p # Stop
    BY SentinelsAreNoPayloads
  <2>3. \A p \in Payload, i \in Index : queue[i] = p => \E j \in Index' : queue'[j] = p
    BY <1>4, <1>5, <2>1, <2>2
  <2>4. HeldAccepted'
    BY <1>2, <1>4, <1>6, <2>1, <2>3 DEF OnePlace, HeldAccepted
  <2>5. QueuedAccepted'
    BY <1>2, <1>4 DEF OnePlace, QueuedAccepted
  <2>6. HeldApart'
    BY <1>2, <1>4, <1>6, <2>1, <2>3 DEF OnePlace, HeldApart
  <2>7. QueuedApart'
    BY <1>4, <1>6 DEF OnePlace, QueuedApart
  <2>8. QueuedNotHeld'
    BY <1>4, <2>1 DEF OnePlace, QueuedNotHeld
  <2>9. NoneLost'
    BY <1>2, <1>4, <1>6, <2>1, <2>3 DEF OnePlace, NoneLost
  <2>10. QED
    BY <2>4, <2>5, <2>6, <2>7, <2>8, <2>9 DEF OnePlace
<1>10. QED
  BY <1>8, <1>9

\* A worker is done with its payload, or gives it up.
LEMMA PlaceLeft ==
    ASSUME TypeOK, OnePlace, NEW w \in Worker, Busy(w), LetGo(w), UNCHANGED queue
    PROVE  OnePlace'
<1>1. held[w] \in Payload /\ held[w] # NoPayload
  BY DEF TypeOK, Busy
<1>2. held'[w] = NoPayload /\ \A v \in Worker : v # w => held'[v] = held[v]
  BY DEF TypeOK, LetGo
<1>3. fate'[held[w]] = "done" /\ \A p \in Payload : p # held[w] => fate'[p] = fate[p]
  BY <1>1 DEF TypeOK, LetGo
<1>4. \A i \in Index : queue[i] # Stop => queue[i] \in Payload
  BY QueueTyped DEF Item
<1>5. \A v \in Worker : held[v] # NoPayload => held[v] \in Payload
  BY DEF TypeOK
<1>6. \A i \in Index : queue[i] # NoPayload
  BY QueueTyped, SentinelsAreNoPayloads DEF Item
<1>7. Index' = Index
  BY DEF Index
<1>8. QED
  BY <1>1, <1>2, <1>3, <1>4, <1>5, <1>6, <1>7
  DEF OnePlace, HeldAccepted, QueuedAccepted, HeldApart, QueuedApart, QueuedNotHeld,
      NoneLost

LEMMA OnePlaceStep == TypeOK /\ OnePlace /\ [Next]_vars => OnePlace'
<1> SUFFICES ASSUME TypeOK, OnePlace, [Next]_vars PROVE OnePlace'
  OBVIOUS
<1>1. CASE UNCHANGED <<queue, held, fate>>
  BY <1>1
  DEF OnePlace, HeldAccepted, QueuedAccepted, HeldApart, QueuedApart, QueuedNotHeld,
      NoneLost, Index
<1>2. ASSUME NEW p \in Payload, DispatchAsync(p) PROVE OnePlace'
  BY <1>2, PlaceOffered
<1>3. ASSUME NEW w \in Worker, Take(w) \/ TakeStop(w) PROVE OnePlace'
  BY <1>3, PlaceTaken
<1>4. ASSUME NEW w \in Worker, FinishPayload(w) \/ DispatchRaises(w) PROVE OnePlace'
  BY <1>4, PlaceLeft DEF FinishPayload, DispatchRaises, Sending
<1>5. CASE Signal
  BY <1>1, <1>5, PlaceSignalled DEF Signal, workerVars
<1>6. \/ UNCHANGED <<queue, held, fate>> \/ Signal
      \/ \E p \in Payload : DispatchAsync(p)
      \/ \E w \in Worker : \/ Take(w) \/ TakeStop(w)
                           \/ FinishPayload(w) \/ DispatchRaises(w)
  BY DEF Next, WorkerStep, ShutdownStep, AddTarget, Pass, SendSucceeds, SendFails,
         CallShutdown, ShutdownReturns, vars, workerVars
<1>7. QED
  BY <1>1, <1>2, <1>3, <1>4, <1>5, <1>6

LEMMA OnePlaceAlways == Spec => []OnePlace
<1>1. Init => OnePlace
  BY DEF Init, OnePlace, HeldAccepted, QueuedAccepted, HeldApart, QueuedApart, QueuedNotHeld,
         NoneLost, Index
<1>2. QED
  BY <1>1, OnePlaceStep, WebhookTyping, PTL DEF Spec

LEMMA OnePlaceCounted == TypeOK /\ OnePlace => HeldOnce
<1> SUFFICES ASSUME TypeOK, OnePlace, NEW p \in Payload
             PROVE  Cardinality(Queued(p)) + Cardinality(Holders(p)) =
                        IF fate[p] = "accepted" THEN 1 ELSE 0
  BY DEF HeldOnce
<1>1. p # Stop /\ p # NoPayload
  BY SentinelsAreNoPayloads
<1>2. /\ \A i \in Queued(p) : i \in Index /\ queue[i] = p
      /\ \A i \in Index : queue[i] = p => i \in Queued(p)
      /\ \A w \in Holders(p) : w \in Worker /\ held[w] = p
      /\ \A w \in Worker : held[w] = p => w \in Holders(p)
  BY DEF Queued, Holders, Index
<1>3. \A i, j \in Queued(p) : i = j
  BY <1>1, <1>2 DEF OnePlace, QueuedApart
<1>4. \A v, w \in Holders(p) : v = w
  BY <1>1, <1>2 DEF OnePlace, HeldApart
<1>5. Queued(p) = {} \/ Holders(p) = {}
  BY <1>2 DEF OnePlace, QueuedNotHeld
<1>6. Queued(p) # {} \/ Holders(p) # {} <=> fate[p] = "accepted"
  BY <1>1, <1>2 DEF OnePlace, HeldAccepted, QueuedAccepted, NoneLost
<1>7. ASSUME NEW S, \A x, y \in S : x = y
      PROVE  Cardinality(S) = IF S = {} THEN 0 ELSE 1
  <2>1. CASE S = {}
    BY <2>1, FS_EmptySet
  <2>2. CASE S # {}
    <3>1. PICK x \in S : S = {x}
      BY <1>7, <2>2
    <3>2. QED
      BY <2>2, <3>1, FS_Singleton
  <2>3. QED
    BY <2>1, <2>2
<1>8. /\ Cardinality(Queued(p)) = IF Queued(p) = {} THEN 0 ELSE 1
      /\ Cardinality(Holders(p)) = IF Holders(p) = {} THEN 0 ELSE 1
  BY <1>3, <1>4, <1>7
<1>9. QED
  BY <1>5, <1>6, <1>8

\* An accepted payload that is not done is in the queue or in the hands of one worker,
\* once, whatever callers, workers and shutdown do.
THEOREM AcceptedIsInOnePlace == Spec => []HeldOnce
<1>1. QED
  BY OnePlaceAlways, WebhookTyping, OnePlaceCounted, PTL
-----------------------------------------------------------------------------
(***************************************************************************)
(* Shutdown.  Until it is called no worker ends and no sentinel is queued; *)
(* after that whatever was accepted before lies in front of the sentinels, *)
(* so a worker that ends has found none of it left.                        *)
(***************************************************************************)
Draining ==
    /\ closing = "no" => running = Worker /\ \A i \in Index : queue[i] # Stop
    /\ \A i, j \in Index : queue[i] \in early /\ queue[j] = Stop => i < j
    /\ \A i \in Index : queue[i] \in early => running = Worker
    /\ \A p \in early : fate[p] # "new"

LEMMA DrainingStep == TypeOK /\ Draining /\ [Next]_vars => Draining'
<1> SUFFICES ASSUME TypeOK, Draining, [Next]_vars PROVE Draining'
  OBVIOUS
<1>1. /\ queue \in Seq(Item) /\ Len(queue) \in Nat
      /\ \A i \in Index : queue[i] \in Item
  BY QueueTyped
<1>2. CASE /\ UNCHANGED <<queue, early, running>> /\ (closing' = "no" => closing = "no")
           /\ \A p \in Payload : fate'[p] = "new" => fate[p] = "new"
  BY <1>2 DEF Draining, Index, TypeOK
<1>3. ASSUME NEW x \in Item, queue' = Append(queue, x)
      PROVE  /\ \A i \in Index : i \in Index' /\ i < Len(queue) + 1 /\ queue'[i] = queue[i]
             /\ \A i \in Index' : i \in Index \/ i = Len(queue) + 1
             /\ queue'[Len(queue) + 1] = x /\ Len(queue) + 1 \notin Index
  <2>1. Len(queue') = Len(queue) + 1 /\ queue'[Len(queue) + 1] = x
        /\ \A i \in Index : queue'[i] = queue[i]
    BY <1>1, <1>3, PutItem DEF Index
  <2>2. QED
    BY <1>1, <2>1 DEF Index
<1>4. ASSUME NEW p \in Payload, DispatchAsync(p) PROVE Draining'
  <2>1. fate[p] = "new" /\ p \notin early
    BY <1>4 DEF DispatchAsync, Draining
  <2>2. CASE Full
    BY <1>4, <2>1, <2>2, <1>2 DEF DispatchAsync, workerVars, closeVars, TypeOK
  <2>3. CASE ~Full
    <3>1. /\ queue' = Append(queue, p) /\ running' = running /\ closing' = closing
          /\ early' = IF closing = "no" THEN early \cup {p} ELSE early
          /\ fate' = [fate EXCEPT ![p] = "accepted"]
      BY <1>4, <2>3 DEF DispatchAsync, workerVars, closeVars
    <3>2. /\ \A i \in Index : i \in Index' /\ i < Len(queue) + 1 /\ queue'[i] = queue[i]
          /\ \A i \in Index' : i \in Index \/ i = Len(queue) + 1
          /\ queue'[Len(queue) + 1] = p
      BY <1>3, <3>1 DEF Item
    <3>3. p # Stop
      BY SentinelsAreNoPayloads
    <3>4. closing' = "no" => running' = Worker /\ \A i \in Index' : queue'[i] # Stop
      BY <3>1, <3>2, <3>3 DEF Draining
    <3>5. \A i, j \in Index' : queue'[i] \in early' /\ queue'[j] = Stop => i < j
      <4>1. CASE closing = "no"
        BY <3>1, <3>4, <4>1
      <4>2. CASE closing # "no"
        BY <2>1, <3>1, <3>2, <3>3, <4>2 DEF Draining
      <4>3. QED
        BY <4>1, <4>2
    <3>6. \A i \in Index' : queue'[i] \in early' => running' = Worker
      <4>1. CASE closing = "no"
        BY <3>1, <4>1 DEF Draining
      <4>2. CASE closing # "no"
        BY <2>1, <3>1, <3>2, <4>2 DEF Draining
      <4>3. QED
        BY <4>1, <4>2
    <3>7. \A q \in early' : fate'[q] # "new"
      BY <3>1 DEF Draining, TypeOK
    <3>8. QED
      BY <3>4, <3>5, <3>6, <3>7 DEF Draining
  <2>4. QED
    BY <2>2, <2>3
<1>5. ASSUME NEW w \in Worker, Take(w) \/ TakeStop(w) PROVE Draining'
  <2>1. queue # <<>> /\ queue' = Tail(queue) /\ UNCHANGED <<early, fate, closing>>
    BY <1>5 DEF Take, TakeStop, closeVars
  <2>2. /\ Head(queue) = queue[1] /\ 1 \in Index
        /\ Len(queue') = Len(queue) - 1
        /\ \A i \in 1 .. Len(queue) - 1 : queue'[i] = queue[i + 1]
    BY <1>1, <2>1, TakeItem DEF Index
  <2>3. \A i \in Index' : i \in Nat /\ i + 1 \in Index /\ queue'[i] = queue[i + 1] /\ ~(i + 1 < 1)
    BY <1>1, <2>2 DEF Index
  <2>4. \A i, j \in Index' : queue'[i] \in early' /\ queue'[j] = Stop => i < j
    <3> SUFFICES ASSUME NEW i \in Index', NEW j \in Index', queue'[i] \in early',
                        queue'[j] = Stop
                 PROVE  i < j
      OBVIOUS
    <3>1. i + 1 < j + 1
      BY <2>1, <2>3 DEF Draining
    <3>2. QED
      BY <2>3, <3>1
  <2>5. CASE Take(w)
    BY <2>1, <2>3, <2>4, <2>5 DEF Draining, Take
  <2>6. CASE TakeStop(w)
    <3>1. queue[1] = Stop
      BY <2>2, <2>6 DEF TakeStop
    <3>2. \A i \in Index : queue[i] \notin early
      <4> SUFFICES ASSUME NEW i \in Index, queue[i] \in early PROVE FALSE
        OBVIOUS
      <4>1. i < 1
        BY <2>2, <3>1 DEF Draining
      <4>2. QED
        BY <1>1, <4>1 DEF Index
    <3>3. closing # "no"
      BY <2>2, <3>1 DEF Draining
    <3>4. QED
      BY <2>1, <2>3, <2>4, <3>2, <3>3 DEF Draining
  <2>7. QED
    BY <1>5, <2>5, <2>6
<1>6. CASE Signal
  <2>1. CASE UNCHANGED queue
    BY <1>2, <1>6, <2>1 DEF Signal, workerVars
  <2>2. CASE queue' = Append(queue, Stop)
    <3>1. /\ \A i \in Index : i \in Index' /\ i < Len(queue) + 1 /\ queue'[i] = queue[i]
          /\ \A i \in Index' : i \in Index \/ i = Len(queue) + 1
          /\ queue'[Len(queue) + 1] = Stop
      BY <1>3, <2>2 DEF Item
    <3>2. Stop \notin early
      BY SentinelsAreNoPayloads DEF TypeOK
    <3>3. closing' # "no" /\ UNCHANGED <<early, running, fate>>
      BY <1>6 DEF Signal, workerVars
    <3>4. QED
      BY <3>1, <3>2, <3>3 DEF Draining
  <2>3. QED
    BY <1>6, <2>1, <2>2 DEF Signal
<1>7. ASSUME NEW w \in Worker, FinishPayload(w) \/ DispatchRaises(w) PROVE Draining'
  <2>1. fate' = [fate EXCEPT ![held[w]] = "done"] /\ UNCHANGED <<queue, early, running, closing>>
    BY <1>7 DEF FinishPayload, DispatchRaises, LetGo, closeVars
  <2>2. \A p \in Payload : fate'[p] = "new" => fate[p] = "new"
    BY <2>1 DEF TypeOK
  <2>3. QED
    BY <1>2, <2>1, <2>2
<1>8. \/ /\ UNCHANGED <<queue, early, running, fate>> /\ (closing' = "no" => closing = "no")
      \/ Signal
      \/ \E p \in Payload : DispatchAsync(p)
      \/ \E w \in Worker : \/ Take(w) \/ TakeStop(w)
                           \/ FinishPayload(w) \/ DispatchRaises(w)
  BY DEF Next, WorkerStep, ShutdownStep, AddTarget, Pass, SendSucceeds, SendFails,
         CallShutdown, ShutdownReturns, vars, workerVars, closeVars
<1>9. QED
  BY <1>2, <1>4, <1>5, <1>6, <1>7, <1>8

\* As long as a payload accepted before shutdown was called is still queued, no worker
\* has ended, however many callers, workers and sentinels compete for the queue.
THEOREM ShutdownDrains == Spec => []DrainedBeforeStop
<1>1. Init => Draining
  BY DEF Init, Draining, Index
<1>2. Spec => []Draining
  BY <1>1, DrainingStep, WebhookTyping, PTL DEF Spec
<1>3. Draining => DrainedBeforeStop
  BY DEF Draining, DrainedBeforeStop, Queued, Index
<1>4. QED
  BY <1>2, <1>3, PTL
-----------------------------------------------------------------------------
(***************************************************************************)
(* Refinement.  A target is logged for a payload only when the payload is  *)
(* done or the loop of the worker that holds it is past that target.       *)
(***************************************************************************)
PastTarget(p, t) == \E w \in Worker : held[w] = p /\ t < pos[w]

Settled ==
    \A p \in Payload, t \in Target :
        results[<<p, t>>] # <<>> => fate[p] = "done" \/ PastTarget(p, t)

\* One delivery is logged: by the worker that holds the payload, at its position.
LEMMA DeliveryLogged ==
    ASSUME TypeOK, NEW w \in Worker, Sending(w), NEW status \in {"sent", "failed"},
           Log(w, status)
    PROVE  /\ held[w] \in Payload /\ held[w] # NoPayload /\ pos[w] \in Target
           /\ \A d \in Payload \X Target :
                 d # <<held[w], pos[w]>> => results'[d] = results[d]
           /\ results'[<<held[w], pos[w]>>] =
                 Append(results[<<held[w], pos[w]>>],
                        [status |-> status, attempts |-> attempt[w]])
           /\ pos'[w] = pos[w] + 1
           /\ \A v \in Worker : v # w => pos'[v] = pos[v]
           /\ results' \in [Payload \X Target -> Seq(Delivery)]
<1>0. QueueOK /\ LogOK /\ PlainOK
  BY TypeParts
<1>1. held[w] \in Payload /\ held[w] # NoPayload /\ pos[w] \in Target
  BY <1>0, WebhookAssumption DEF PlainOK, Sending, Busy, Target
<1>2. <<held[w], pos[w]>> \in Payload \X Target
  BY <1>1
<1>3. LogOK'
  BY <1>0, LogTyped
<1>4. QED
  BY <1>0, <1>1, <1>2, <1>3 DEF LogOK, PlainOK, Log

LEMMA SettledStep == TypeOK /\ OnePlace /\ Settled /\ [Next]_vars => Settled'
<1> SUFFICES ASSUME TypeOK, OnePlace, Settled, [Next]_vars,
                    NEW p \in Payload, NEW t \in Target, results'[<<p, t>>] # <<>>
             PROVE  fate'[p] = "done" \/ PastTarget(p, t)'
  BY DEF Settled
<1>0. PlainOK
  BY TypeParts
<1>p. ASSUME NEW w \in Worker, held'[w] = p, t < pos'[w]
      PROVE  PastTarget(p, t)'
  BY <1>p DEF PastTarget
<1>1. ASSUME NEW w \in Worker, NEW status \in {"sent", "failed"}, Sending(w),
             Log(w, status), UNCHANGED <<held, fate>>
      PROVE  fate'[p] = "done" \/ PastTarget(p, t)'
  <2>1. CASE <<p, t>> = <<held[w], pos[w]>>
    <3>1. p = held[w] /\ t = pos[w]
      BY <2>1
    <3>2. pos'[w] = pos[w] + 1
      BY <1>1, DeliveryLogged
    <3>3. t \in Nat
      BY DEF Target
    <3>4. t < pos'[w] /\ held'[w] = p
      BY <1>1, <3>1, <3>2, <3>3
    <3>5. QED
      BY <1>p, <3>4
  <2>2. CASE <<p, t>> # <<held[w], pos[w]>>
    <3>1. results[<<p, t>>] # <<>>
      BY <1>1, <2>2, DeliveryLogged
    <3>2. CASE fate[p] = "done"
      BY <1>1, <3>2
    <3>3. ASSUME NEW v \in Worker, held[v] = p, t < pos[v] PROVE t < pos'[v]
      <4>1. pos'[v] \in {pos[v], pos[v] + 1}
        BY <1>1, DeliveryLogged
      <4>2. pos[v] \in Nat /\ t \in Nat
        BY <1>0 DEF PlainOK, Target
      <4>3. QED
        BY <3>3, <4>1, <4>2
    <3>4. QED
      BY <1>1, <1>p, <3>1, <3>2, <3>3 DEF Settled, PastTarget
  <2>3. QED
    BY <2>1, <2>2
<1>2. ASSUME NEW q \in Payload, DispatchAsync(q)
      PROVE  fate'[p] = "done" \/ PastTarget(p, t)'
  <2>1. UNCHANGED <<results, held, pos>> /\ fate[q] = "new"
    BY <1>2 DEF DispatchAsync, workerVars
  <2>2. fate[p] = "done" => fate'[p] = "done"
    BY <1>0, <1>2, <2>1 DEF DispatchAsync, PlainOK
  <2>3. QED
    BY <2>1, <2>2 DEF Settled, PastTarget
<1>3. ASSUME NEW w \in Worker, Take(w) \/ TakeStop(w)
      PROVE  fate'[p] = "done" \/ PastTarget(p, t)'
  <2>1. UNCHANGED <<results, fate>> /\ held[w] = NoPayload
    BY <1>3 DEF Take, TakeStop, Idle
  <2>2. \A v \in Worker : v # w => held'[v] = held[v] /\ pos'[v] = pos[v]
    BY <1>0, <1>3 DEF Take, TakeStop, PlainOK
  <2>3. p # NoPayload
    BY SentinelsAreNoPayloads
  <2>4. QED
    BY <1>p, <2>1, <2>2, <2>3 DEF Settled, PastTarget
<1>4. ASSUME NEW w \in Worker, FinishPayload(w) \/ DispatchRaises(w)
      PROVE  fate'[p] = "done" \/ PastTarget(p, t)'
  <2>1. UNCHANGED <<results, pos>> /\ LetGo(w)
    BY <1>4 DEF FinishPayload, DispatchRaises
  <2>2. \A v \in Worker : v # w => held'[v] = held[v]
    BY <1>0, <2>1 DEF PlainOK, LetGo
  <2>3. fate[p] = "done" \/ held[w] = p => fate'[p] = "done"
    BY <1>0, <2>1 DEF PlainOK, LetGo
  <2>4. QED
    BY <1>p, <2>1, <2>2, <2>3 DEF Settled, PastTarget
<1>5. ASSUME NEW w \in Worker, Pass(w)
      PROVE  fate'[p] = "done" \/ PastTarget(p, t)'
  <2>1. UNCHANGED <<results, held, fate>> /\ \A v \in Worker : pos'[v] \in {pos[v], pos[v] + 1}
    BY <1>0, <1>5 DEF Pass, PlainOK
  <2>2. \A v \in Worker : pos[v] \in Nat /\ t \in Nat
    BY <1>0 DEF PlainOK, Target
  <2>3. \A v \in Worker : t < pos[v] => t < pos'[v]
    BY <2>1, <2>2
  <2>4. QED
    BY <1>p, <2>1, <2>3 DEF Settled, PastTarget
<1>6. CASE UNCHANGED <<results, held, fate, pos>>
  BY <1>6 DEF Settled, PastTarget
<1>7. \/ UNCHANGED <<results, held, fate, pos>>
      \/ \E q \in Payload : DispatchAsync(q)
      \/ \E w \in Worker :
            \/ Take(w) \/ TakeStop(w) \/ Pass(w) \/ FinishPayload(w) \/ DispatchRaises(w)
            \/ \E status \in {"sent", "failed"} :
                  Sending(w) /\ Log(w, status) /\ UNCHANGED <<held, fate>>
  BY DEF Next, WorkerStep, ShutdownStep, AddTarget, Signal, SendSucceeds, SendFails,
         CallShutdown, ShutdownReturns, vars, workerVars
<1>8. QED
  BY <1>1, <1>2, <1>3, <1>4, <1>5, <1>6, <1>7

LEMMA SettledAlways == Spec => []Settled
<1>1. Init => Settled
  BY DEF Init, Settled
<1>2. QED
  BY <1>1, SettledStep, WebhookTyping, OnePlaceAlways, PTL DEF Spec

Shown == [d \in Payload \X Target |-> Outcome(results[d])]

\* A delivery that is logged settles one target of an accepted payload, once.
LEMMA LoggedSettles ==
    ASSUME TypeOK, OnePlace, Settled, NEW w \in Worker, Sending(w),
           NEW status \in {"sent", "failed"}, Log(w, status), UNCHANGED <<held, fate>>
    PROVE  Promise!Settle(held[w], pos[w]) /\ held[w] \in Payload /\ pos[w] \in Target
<1> DEFINE d == <<held[w], pos[w]>>
           entry == [status |-> status, attempts |-> attempt[w]]
<1>1. /\ held[w] \in Payload /\ held[w] # NoPayload /\ pos[w] \in Target
      /\ \A e \in Payload \X Target : e # d => results'[e] = results[e]
      /\ results'[d] = Append(results[d], entry)
  BY DeliveryLogged
<1>2. fate[held[w]] = "accepted"
  BY <1>1 DEF OnePlace, HeldAccepted
<1>3. results[d] = <<>>
  <2>1. ASSUME NEW v \in Worker, held[v] = held[w] PROVE ~(pos[w] < pos[v])
    BY <1>1, <2>1 DEF OnePlace, HeldApart, Target
  <2>2. QED
    BY <1>1, <1>2, <2>1 DEF Settled, PastTarget
<1>4. Outcome(results[d]) = "none" /\ Outcome(results'[d]) = status
  <2>1. results'[d] = <<entry>>
    BY <1>1, <1>3
  <2>2. QED
    BY <1>3, <2>1 DEF Outcome
<1>5. Shown' = [Shown EXCEPT ![d] = status]
  BY <1>1, <1>4 DEF Shown
<1>6. Shown[d] = "none"
  BY <1>1, <1>4 DEF Shown
<1>7. QED
  BY <1>1, <1>2, <1>5, <1>6 DEF Promise!Settle, Shown

LEMMA StepImplements ==
    TypeOK /\ OnePlace /\ Settled /\ [Next]_vars => [Promise!Next]_(Promise!vars)
<1> SUFFICES ASSUME TypeOK, OnePlace, Settled, [Next]_vars
             PROVE  Promise!Next \/ UNCHANGED Promise!vars
  OBVIOUS
<1>1. ASSUME NEW w \in Worker, NEW status \in {"sent", "failed"}, Sending(w),
             Log(w, status), UNCHANGED <<held, fate>>
      PROVE  Promise!Next
  <2>1. Promise!Settle(held[w], pos[w]) /\ held[w] \in Payload /\ pos[w] \in Target
    BY <1>1, LoggedSettles
  <2>2. QED
    BY <2>1 DEF Promise!Next
<1>2. ASSUME NEW p \in Payload, DispatchAsync(p) PROVE Promise!Next
  <2>1. Promise!Offer(p)
    BY <1>2 DEF Promise!Offer, DispatchAsync
  <2>2. QED
    BY <2>1 DEF Promise!Next
<1>3. ASSUME NEW w \in Worker, FinishPayload(w) \/ DispatchRaises(w) PROVE Promise!Next
  <2>1. held[w] # NoPayload /\ held[w] \in Payload
    BY <1>3 DEF FinishPayload, DispatchRaises, Sending, Busy, TypeOK
  <2>2. Promise!Complete(held[w])
    BY <1>3, <2>1
    DEF Promise!Complete, FinishPayload, DispatchRaises, LetGo, OnePlace, HeldAccepted
  <2>3. QED
    BY <2>1, <2>2 DEF Promise!Next
<1>4. CASE UNCHANGED <<results, fate>>
  BY <1>4 DEF Promise!vars
<1>5. \/ UNCHANGED <<results, fate>>
      \/ \E p \in Payload : DispatchAsync(p)
      \/ \E w \in Worker :
            \/ FinishPayload(w) \/ DispatchRaises(w)
            \/ \E status \in {"sent", "failed"} :
                  Sending(w) /\ Log(w, status) /\ UNCHANGED <<held, fate>>
  BY DEF Next, WorkerStep, ShutdownStep, AddTarget, Take, TakeStop, Pass, Signal,
         SendSucceeds, SendFails, CallShutdown, ShutdownReturns, vars, workerVars
<1>6. QED
  BY <1>1, <1>2, <1>3, <1>4, <1>5

\* Queue, workers and shutdown together do what Notification promises of the dispatcher:
\* a payload is refused or accepted once, settled at most once for every target while it
\* is accepted, and nothing more happens to it when it is done.
THEOREM DispatcherImplementsNotification == Spec => ImplementsNotification
<1>1. Init => Promise!Init
  BY DEF Init, Promise!Init, Outcome
<1>2. QED
  BY <1>1, StepImplements, WebhookTyping, OnePlaceAlways, SettledAlways, PTL
  DEF Spec, ImplementsNotification, Promise!Spec
=============================================================================
