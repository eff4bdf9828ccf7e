-------------------------- MODULE PolicyStoreProofs --------------------------
(***************************************************************************)
(* Proofs about PolicyStore, for any number of policies and requests: its  *)
(* type invariant; that requests that came one at a time leave the latest  *)
(* version, and no other, active, whatever fails; that as long as nothing  *)
(* fails, concurrent requests lose no version and leave one active; and    *)
(* that a version on disk is never erased.                                 *)
(***************************************************************************)
EXTENDS PolicyStore, TLAPS

LEMMA DeactivatedTyped ==
    ASSUME NEW t \in [Policy -> Row]
    PROVE  /\ Deactivated(t) \in [Policy -> Row]
           /\ Stored(Deactivated(t)) = Stored(t)
           /\ Active(Deactivated(t)) = {}
BY DEF Deactivated, Stored, Active, Row

LEMMA ActivatedTyped ==
    ASSUME NEW t \in [Policy -> Row], NEW p \in Policy
    PROVE  LET u == [t EXCEPT ![p] = "active"]
           IN  /\ u \in [Policy -> Row]
               /\ Stored(u) = Stored(t) \cup {p}
               /\ Active(u) = Active(t) \cup {p}
BY DEF Stored, Active, Row

\* What Activate leaves in the table.
LEMMA ActivateWrites ==
    ASSUME PolicyTypeOK, NEW r \in Request, Activate(r),
           op[r].name = "commit" \/ op[r].policy \in Stored(working)
    PROVE  /\ op[r].policy \in Policy
           /\ working' = [working EXCEPT ![op[r].policy] = "active"]
           /\ durable' = durable
<1>1. op[r].policy \in Policy
  BY DEF PolicyTypeOK, Activate
<1>2. QED
  BY <1>1 DEF Activate, Write

LEMMA InitTyped == PolicyInit => PolicyTypeOK
BY DEF PolicyInit, PolicyTypeOK, Row, Stage, NoOp

LEMMA FinishTyped ==
    ASSUME PolicyTypeOK, NEW r \in Request, Finish(r)
    PROVE  /\ statement' \in [Request -> Stage]
           /\ op' \in [Request -> [name : {"none", "commit", "rollback_to"},
                                   policy : Policy \cup {NoPolicy}]]
           /\ \A q \in Request : (statement'[q] = "idle") = (op'[q].name = "none")
           /\ \A q \in Request : op'[q].name # "none" => op'[q].policy \in Policy
BY DEF PolicyTypeOK, Finish, GoTo, Stage, NoOp

LEMMA StepTyped == PolicyTypeOK /\ [PolicyNext]_policyVars => PolicyTypeOK'
<1> SUFFICES ASSUME PolicyTypeOK, [PolicyNext]_policyVars PROVE PolicyTypeOK'
  OBVIOUS
<1>1. ASSUME NEW r \in Request, Arrive(r) PROVE PolicyTypeOK'
  <2>1. PICK o \in [name : {"commit", "rollback_to"}, policy : Policy] :
           op' = [op EXCEPT ![r] = o]
    BY <1>1 DEF Arrive
  <2>2. statement[r] = "idle" /\ statement' = [statement EXCEPT ![r] = "open"]
    BY <1>1 DEF Arrive, GoTo
  <2>3. UNCHANGED <<durable, working, latest, saved, smooth>> /\ alone' \in BOOLEAN
    BY <1>1 DEF Arrive, connection
  <2>4. \A q \in Request :
          /\ (statement'[q] = "idle") = (op'[q].name = "none")
          /\ op'[q].name # "none" => op'[q].policy \in Policy
    BY <2>1, <2>2 DEF PolicyTypeOK
  <2>5. statement' \in [Request -> Stage]
    BY <2>2 DEF PolicyTypeOK, Stage
  <2>6. op' \in [Request -> [name : {"none", "commit", "rollback_to"},
                              policy : Policy \cup {NoPolicy}]]
    BY <2>1 DEF PolicyTypeOK
  <2>7. QED
    BY <2>3, <2>4, <2>5, <2>6 DEF PolicyTypeOK
<1>2. ASSUME NEW r \in Request, EnsureTable(r) PROVE PolicyTypeOK'
  BY <1>2 DEF PolicyTypeOK, EnsureTable, GoTo, Commit, Stage
<1>3. ASSUME NEW r \in Request, Select(r) PROVE PolicyTypeOK'
  <2>1. CASE op[r].policy \in Stored(working)
    BY <1>3, <2>1 DEF PolicyTypeOK, Select, GoTo, Stage, connection
  <2>2. CASE op[r].policy \notin Stored(working)
    BY <1>3, <2>2, FinishTyped DEF PolicyTypeOK, Select, Commit
  <2>3. QED
    BY <2>1, <2>2
<1>4. ASSUME NEW r \in Request, Deactivate(r) PROVE PolicyTypeOK'
  BY <1>4, DeactivatedTyped DEF PolicyTypeOK, Deactivate, GoTo, Write, Stage
<1>5. ASSUME NEW r \in Request, Activate(r) PROVE PolicyTypeOK'
  <2>1. op[r].policy \in Policy
    BY <1>5 DEF PolicyTypeOK, Activate
  <2>2. working' \in [Policy -> Row] /\ durable' = durable
    BY <1>5, <2>1 DEF PolicyTypeOK, Activate, Write, Row
  <2>3. QED
    BY <1>5, <2>2 DEF PolicyTypeOK, Activate, GoTo, Stage
<1>6. ASSUME NEW r \in Request, CommitRequest(r) PROVE PolicyTypeOK'
  <2>1. op[r].policy \in Policy
    BY <1>6 DEF PolicyTypeOK, CommitRequest
  <2>2. QED
    BY <1>6, <2>1, FinishTyped DEF PolicyTypeOK, CommitRequest, Commit
<1>7. ASSUME NEW r \in Request, StatementFails(r) PROVE PolicyTypeOK'
  BY <1>7, FinishTyped DEF PolicyTypeOK, StatementFails, Rollback
<1>8. CASE OtherCommit \/ OtherRollback
  BY <1>8 DEF PolicyTypeOK, OtherCommit, OtherRollback, Commit, Rollback
<1>9. CASE ProcessRestarts
  BY <1>9 DEF PolicyTypeOK, ProcessRestarts, Rollback, Stage, NoOp
<1>10. CASE UNCHANGED policyVars
  BY <1>10 DEF PolicyTypeOK, policyVars, connection
<1>11. QED
  BY <1>1, <1>2, <1>3, <1>4, <1>5, <1>6, <1>7, <1>8, <1>9, <1>10 DEF PolicyNext

\* The tables, requests and history keep their types in every behaviour.
THEOREM PolicyTyping == PolicySpec => []PolicyTypeOK
<1>1. QED
  BY InitTyped, StepTyped, PTL DEF PolicySpec
-----------------------------------------------------------------------------
(***************************************************************************)
(* The working tables never hold fewer versions than the disk.             *)
(***************************************************************************)
WorkingKeeps == Stored(durable) \subseteq Stored(working)

LEMMA KeepsStep ==
    PolicyTypeOK /\ WorkingKeeps /\ [PolicyNext]_policyVars =>
        WorkingKeeps' /\ Stored(durable) \subseteq Stored(durable')
<1> DEFINE Goal == WorkingKeeps' /\ Stored(durable) \subseteq Stored(durable')
<1> SUFFICES ASSUME PolicyTypeOK, WorkingKeeps, [PolicyNext]_policyVars PROVE Goal
  OBVIOUS
<1>1. CASE UNCHANGED connection
  BY <1>1 DEF WorkingKeeps, connection, Stored
<1>2. CASE Commit
  BY <1>2 DEF WorkingKeeps, Commit, Stored
<1>3. CASE Rollback
  BY <1>3 DEF WorkingKeeps, Rollback, Stored
<1>4. CASE /\ durable' = durable /\ Stored(working) \subseteq Stored(working')
  BY <1>4 DEF WorkingKeeps, Stored
<1>5. ASSUME NEW r \in Request, Deactivate(r) PROVE Goal
  <2>1. durable' = durable /\ Stored(working') = Stored(working)
    BY <1>5, DeactivatedTyped DEF PolicyTypeOK, Deactivate, Write
  <2>2. QED
    BY <2>1, <1>4
<1>6. ASSUME NEW r \in Request, Activate(r) PROVE Goal
  <2>1. op[r].policy \in Policy /\ working \in [Policy -> Row]
    BY <1>6 DEF PolicyTypeOK, Activate
  <2>2. durable' = durable /\ Stored(working) \subseteq Stored(working')
    BY <1>6, <2>1 DEF Activate, Write, Stored, Row
  <2>3. QED
    BY <2>2, <1>4
<1>7. \/ UNCHANGED connection \/ Commit \/ Rollback
      \/ \E r \in Request : Deactivate(r) \/ Activate(r)
  BY DEF PolicyNext, Arrive, EnsureTable, Select, CommitRequest, StatementFails, OtherCommit,
         OtherRollback, ProcessRestarts, policyVars
<1>8. QED
  BY <1>1, <1>2, <1>3, <1>5, <1>6, <1>7

LEMMA WorkingKeepsAlways == PolicySpec => []WorkingKeeps
<1>1. PolicyInit => WorkingKeeps
  BY DEF PolicyInit, WorkingKeeps
<1>2. QED
  BY <1>1, KeepsStep, PolicyTyping, PTL DEF PolicySpec

\* Whoever commits or rolls back the connection, no version on disk is erased.
THEOREM VersionsOnDiskStay == PolicySpec => NeverErased
<1>1. PolicyTypeOK /\ WorkingKeeps /\ [PolicyNext]_policyVars =>
        [Stored(durable) \subseteq Stored(durable')]_policyVars
  BY KeepsStep
<1>2. QED
  BY <1>1, WorkingKeepsAlways, PolicyTyping, PTL DEF PolicySpec, NeverErased
-----------------------------------------------------------------------------
(***************************************************************************)
(* As long as every request had the connection to itself, what is on disk  *)
(* has exactly the latest version active, because between two commits the  *)
(* working tables differ from it only by what the one request has written. *)
(***************************************************************************)
Latest == IF latest = NoPolicy THEN {} ELSE {latest}

Targeted(r) == op[r].name = "rollback_to" => op[r].policy \in Stored(durable)

SerialInv ==
    /\ Active(durable) = Latest
    /\ \A r, q \in Request : statement[r] # "idle" /\ statement[q] # "idle" => r = q
    /\ (\A r \in Request : statement[r] \notin {"activate", "commit"}) => working = durable
    /\ \A r \in Request :
         /\ statement[r] \in {"deactivate", "activate"} => Targeted(r)
         /\ statement[r] = "activate" => working = Deactivated(durable)
         /\ statement[r] = "commit" => Active(working) = {op[r].policy}

LEMMA SerialInit == PolicyInit => SerialInv
BY DEF PolicyInit, SerialInv, Latest, Active

\* While a request is under way by itself, nobody else is.
LEMMA OthersIdle ==
    ASSUME SerialInv, NEW r \in Request, statement[r] # "idle"
    PROVE  \A q \in Request \ {r} : statement[q] = "idle"
BY DEF SerialInv

LEMMA SerialStep ==
    ASSUME PolicyTypeOK, PolicyTypeOK', SerialInv, alone', [PolicyNext]_policyVars
    PROVE  SerialInv'
<1>1. ASSUME NEW r \in Request, Arrive(r) PROVE SerialInv'
  <2>1. statement' = [statement EXCEPT ![r] = "open"] /\ AllIdle
    BY <1>1 DEF Arrive, GoTo
  <2>2. UNCHANGED <<durable, working, latest>>
    BY <1>1 DEF Arrive, connection
  <2>3. statement'[r] = "open" /\ \A q \in Request \ {r} : statement'[q] = "idle"
    BY <2>1 DEF AllIdle, PolicyTypeOK
  <2>4. working = durable
    BY <2>1 DEF AllIdle, SerialInv
  <2>5. QED
    BY <2>2, <2>3, <2>4 DEF SerialInv, Latest, Active
<1>2. ASSUME NEW r \in Request, EnsureTable(r) PROVE SerialInv'
  <2>1. statement[r] = "open" /\ \A q \in Request \ {r} : statement[q] = "idle"
    BY <1>2, OthersIdle DEF EnsureTable
  <2>2. working = durable
    BY <2>1 DEF SerialInv
  <2>3. UNCHANGED <<working, durable, latest, op>>
    BY <1>2, <2>2 DEF EnsureTable, Commit
  <2>4. /\ \A q \in Request \ {r} : statement'[q] = "idle"
        /\ statement'[r] \in {"deactivate", "select"}
        /\ statement'[r] = "deactivate" => op[r].name = "commit"
    BY <1>2, <2>1 DEF EnsureTable, GoTo, PolicyTypeOK
  <2>5. QED
    BY <2>2, <2>3, <2>4 DEF SerialInv, Latest, Active, Targeted
<1>3. ASSUME NEW r \in Request, Select(r) PROVE SerialInv'
  <2>1. statement[r] = "select" /\ \A q \in Request \ {r} : statement[q] = "idle"
    BY <1>3, OthersIdle DEF Select
  <2>2. working = durable
    BY <2>1 DEF SerialInv
  <2>3. UNCHANGED <<working, durable, latest>>
    BY <1>3, <2>2 DEF Select, Commit, connection
  <2>4. /\ \A q \in Request \ {r} : statement'[q] = "idle"
        /\ statement'[r] \in {"deactivate", "idle"}
        /\ statement'[r] = "deactivate" => op' = op /\ op[r].policy \in Stored(durable)
    BY <1>3, <2>1, <2>2 DEF Select, GoTo, Finish, PolicyTypeOK
  <2>5. QED
    BY <2>2, <2>3, <2>4 DEF SerialInv, Latest, Active, Targeted, Stored
<1>4. ASSUME NEW r \in Request, Deactivate(r) PROVE SerialInv'
  <2>1. statement[r] = "deactivate" /\ \A q \in Request \ {r} : statement[q] = "idle"
    BY <1>4, OthersIdle DEF Deactivate
  <2>2. working = durable /\ Targeted(r)
    BY <2>1 DEF SerialInv
  <2>3. UNCHANGED <<durable, latest, op>> /\ working' = Deactivated(durable)
    BY <1>4, <2>2 DEF Deactivate, Write
  <2>4. statement'[r] = "activate" /\ \A q \in Request \ {r} : statement'[q] = "idle"
    BY <1>4, <2>1 DEF Deactivate, GoTo, PolicyTypeOK
  <2>5. Deactivated(durable)' = Deactivated(durable)
    BY <2>3 DEF Deactivated
  <2>6. QED
    BY <2>2, <2>3, <2>4, <2>5 DEF SerialInv, Latest, Active, Targeted, Stored
<1>5. ASSUME NEW r \in Request, Activate(r) PROVE SerialInv'
  <2>1. statement[r] = "activate" /\ \A q \in Request \ {r} : statement[q] = "idle"
    BY <1>5, OthersIdle DEF Activate
  <2>2. working = Deactivated(durable) /\ Targeted(r)
    BY <2>1 DEF SerialInv
  <2>3. op[r].name = "commit" \/ op[r].policy \in Stored(working)
    BY <2>1, <2>2, DeactivatedTyped DEF Targeted, PolicyTypeOK
  <2>4. op[r].policy \in Policy /\ working' = [working EXCEPT ![op[r].policy] = "active"]
        /\ UNCHANGED <<durable, latest, op>>
    BY <1>5, <2>3, ActivateWrites DEF Activate
  <2>5. Active(working)' = {op[r].policy}
    BY <2>2, <2>4, DeactivatedTyped, ActivatedTyped DEF PolicyTypeOK, Active
  <2>6. statement'[r] = "commit" /\ \A q \in Request \ {r} : statement'[q] = "idle"
    BY <1>5, <2>1 DEF Activate, GoTo, PolicyTypeOK
  <2>7. QED
    BY <2>4, <2>5, <2>6 DEF SerialInv, Latest, Active
<1>6. ASSUME NEW r \in Request, CommitRequest(r) PROVE SerialInv'
  <2>1. statement[r] = "commit" /\ \A q \in Request \ {r} : statement[q] = "idle"
    BY <1>6, OthersIdle DEF CommitRequest
  <2>2. Active(working) = {op[r].policy} /\ op[r].policy \in Policy
    BY <2>1 DEF SerialInv, PolicyTypeOK
  <2>3. durable' = working /\ working' = working /\ latest' = op[r].policy
    BY <1>6 DEF CommitRequest, Commit
  <2>4. \A q \in Request : statement'[q] = "idle"
    BY <1>6, <2>1 DEF CommitRequest, Finish, GoTo, PolicyTypeOK
  <2>5. QED
    BY <2>2, <2>3, <2>4, NoPolicyIsNone DEF SerialInv, Latest, Active
<1>7. ASSUME NEW r \in Request, StatementFails(r) PROVE SerialInv'
  <2>1. working' = durable /\ durable' = durable /\ latest' = latest
    BY <1>7 DEF StatementFails, Rollback
  <2>2. \A q \in Request : statement'[q] = "idle"
    BY <1>7, OthersIdle DEF StatementFails, Finish, GoTo, PolicyTypeOK
  <2>3. QED
    BY <2>1, <2>2 DEF SerialInv, Latest, Active
<1>8. CASE OtherCommit \/ OtherRollback
  <2>1. AllIdle /\ UNCHANGED <<statement, op, latest>>
    BY <1>8 DEF OtherCommit, OtherRollback
  <2>2. working = durable
    BY <2>1 DEF AllIdle, SerialInv
  <2>3. UNCHANGED <<durable, working>>
    BY <1>8, <2>2 DEF OtherCommit, OtherRollback, Commit, Rollback
  <2>4. QED
    BY <2>1, <2>2, <2>3 DEF AllIdle, SerialInv, Latest, Active
<1>9. CASE ProcessRestarts
  <2>1. working' = durable /\ durable' = durable /\ latest' = latest
    BY <1>9 DEF ProcessRestarts, Rollback
  <2>2. \A q \in Request : statement'[q] = "idle"
    BY <1>9 DEF ProcessRestarts
  <2>3. QED
    BY <2>1, <2>2 DEF SerialInv, Latest, Active
<1>10. CASE UNCHANGED policyVars
  BY <1>10 DEF policyVars, connection, SerialInv, Latest, Active, Targeted, Stored, Deactivated
<1>11. QED
  BY <1>1, <1>2, <1>3, <1>4, <1>5, <1>6, <1>7, <1>8, <1>9, <1>10 DEF PolicyNext

\* Once a request shared the connection, the history says so for good.
LEMMA AloneNoMore == [PolicyNext]_policyVars /\ alone' => alone
BY DEF PolicyNext, Arrive, EnsureTable, Select, Deactivate, Activate, CommitRequest, StatementFails,
       OtherCommit, OtherRollback, ProcessRestarts, policyVars

LEMMA SerialInvariant == PolicySpec => [](alone => SerialInv)
<1>1. PolicyInit => (alone => SerialInv)
  BY SerialInit
<1>2. PolicyTypeOK /\ PolicyTypeOK' /\ (alone => SerialInv) /\ [PolicyNext]_policyVars => (alone => SerialInv)'
  BY SerialStep, AloneNoMore
<1>3. QED
  BY <1>1, <1>2, PolicyTyping, PTL DEF PolicySpec

\* Admin requests one at a time keep "The active version is the one most recently
\* committed" true, through failing statements and restarts.
THEOREM LatestIsActive == PolicySpec => []LatestActiveWhenAlone
<1>1. (alone => SerialInv) => LatestActiveWhenAlone
  BY DEF SerialInv, LatestActiveWhenAlone, ActiveIsLatest, Latest
<1>2. QED
  BY <1>1, SerialInvariant, PTL
-----------------------------------------------------------------------------
(***************************************************************************)
(* Any number of requests and other writers, but nothing fails: rows never *)
(* disappear, and whoever has left the agent without an active version is  *)
(* about to activate one.                                                  *)
(***************************************************************************)
Busy(s) == \E r \in Request : statement[r] \in s

ConcurrentInv ==
    /\ saved \subseteq Stored(durable)
    /\ Stored(durable) \subseteq Stored(working)
    /\ durable # working => Busy({"activate", "commit"})
    /\ Stored(working) # {} /\ Active(working) = {} => Busy({"activate"})
    /\ \A r \in Request :
         /\ statement[r] \in {"deactivate", "activate"} /\ op[r].name = "rollback_to"
              => op[r].policy \in Stored(working)
         /\ statement[r] = "commit" => op[r].policy \in Stored(working)

LEMMA ConcurrentInit == PolicyInit => ConcurrentInv
BY DEF PolicyInit, ConcurrentInv, Stored, Active

LEMMA ConcurrentStep ==
    ASSUME smooth', PolicyTypeOK, PolicyTypeOK', ConcurrentInv, [PolicyNext]_policyVars
    PROVE  ConcurrentInv'
<1>1. ASSUME NEW r \in Request, Arrive(r) PROVE ConcurrentInv'
  <2>1. /\ statement[r] = "idle" /\ statement' = [statement EXCEPT ![r] = "open"]
        /\ UNCHANGED <<durable, working, saved>>
    BY <1>1 DEF Arrive, GoTo, connection
  <2>2. \A q \in Request \ {r} : statement'[q] = statement[q] /\ op'[q] = op[q]
    BY <1>1 DEF Arrive, GoTo, PolicyTypeOK
  <2>3. statement'[r] = "open"
    BY <2>1 DEF PolicyTypeOK
  <2>4. QED
    BY <2>1, <2>2, <2>3 DEF ConcurrentInv, Busy, Stored, Active
<1>2. ASSUME NEW r \in Request, EnsureTable(r) PROVE ConcurrentInv'
  <2>1. /\ statement[r] = "open" /\ durable' = working
        /\ UNCHANGED <<working, saved, op>>
    BY <1>2 DEF EnsureTable, Commit
  <2>2. /\ \A q \in Request \ {r} : statement'[q] = statement[q]
        /\ \/ statement'[r] = "select"
           \/ statement'[r] = "deactivate" /\ op[r].name = "commit"
    BY <1>2 DEF EnsureTable, GoTo, PolicyTypeOK
  <2>3. QED
    BY <2>1, <2>2 DEF ConcurrentInv, Busy, Stored, Active
<1>3. ASSUME NEW r \in Request, Select(r) PROVE ConcurrentInv'
  <2>1. statement[r] = "select" /\ working' = working /\ saved' = saved
    BY <1>3 DEF Select, Commit, connection
  <2>2. durable' = durable \/ durable' = working
    BY <1>3 DEF Select, Commit, connection
  <2>3. /\ \A q \in Request \ {r} : statement'[q] = statement[q] /\ op'[q] = op[q]
        /\ \/ statement'[r] = "idle"
           \/ /\ statement'[r] = "deactivate"
              /\ op'[r].policy \in Stored(working)
    BY <1>3 DEF Select, GoTo, Finish, PolicyTypeOK
  <2>4. QED
    BY <2>1, <2>2, <2>3 DEF ConcurrentInv, Busy, Stored, Active
<1>4. ASSUME NEW r \in Request, Deactivate(r) PROVE ConcurrentInv'
  <2>1. /\ statement[r] = "deactivate" /\ working' = Deactivated(working)
        /\ UNCHANGED <<durable, saved, op>>
    BY <1>4 DEF Deactivate, Write
  <2>2. Stored(working') = Stored(working)
    BY <2>1, DeactivatedTyped DEF PolicyTypeOK
  <2>3. statement'[r] = "activate" /\ \A q \in Request \ {r} : statement'[q] = statement[q]
    BY <1>4 DEF Deactivate, GoTo, PolicyTypeOK
  <2>4. QED
    BY <2>1, <2>2, <2>3 DEF ConcurrentInv, Busy, Stored
<1>5. ASSUME NEW r \in Request, Activate(r) PROVE ConcurrentInv'
  <2>1. op[r].name = "commit" \/ op[r].policy \in Stored(working)
    BY <1>5 DEF Activate, ConcurrentInv, PolicyTypeOK
  <2>2. /\ op[r].policy \in Policy
        /\ working' = [working EXCEPT ![op[r].policy] = "active"]
        /\ UNCHANGED <<durable, saved, op>>
    BY <1>5, <2>1, ActivateWrites DEF Activate
  <2>3. /\ Stored(working') = Stored(working) \cup {op[r].policy}
        /\ Active(working') = Active(working) \cup {op[r].policy}
    BY <2>2, ActivatedTyped DEF PolicyTypeOK
  <2>4. statement'[r] = "commit" /\ \A q \in Request \ {r} : statement'[q] = statement[q]
    BY <1>5 DEF Activate, GoTo, PolicyTypeOK
  <2>5. QED
    BY <2>2, <2>3, <2>4 DEF ConcurrentInv, Busy, Stored
<1>6. ASSUME NEW r \in Request, CommitRequest(r) PROVE ConcurrentInv'
  <2>1. /\ statement[r] = "commit" /\ durable' = working /\ working' = working
        /\ saved' \subseteq saved \cup {op[r].policy}
    BY <1>6 DEF CommitRequest, Commit
  <2>2. /\ \A q \in Request \ {r} : statement'[q] = statement[q] /\ op'[q] = op[q]
        /\ statement'[r] = "idle"
    BY <1>6 DEF CommitRequest, Finish, GoTo, PolicyTypeOK
  <2>3. QED
    BY <2>1, <2>2 DEF ConcurrentInv, Busy, Stored, Active
<1>7. CASE OtherCommit
  BY <1>7 DEF OtherCommit, Commit, ConcurrentInv, Busy, Stored, Active
<1>8. CASE UNCHANGED policyVars
  BY <1>8 DEF policyVars, connection, ConcurrentInv, Busy, Stored, Active
<1>9. ~OtherRollback /\ ~ProcessRestarts /\ \A r \in Request : ~StatementFails(r)
  BY DEF OtherRollback, ProcessRestarts, StatementFails
<1>10. QED
  BY <1>1, <1>2, <1>3, <1>4, <1>5, <1>6, <1>7, <1>8, <1>9 DEF PolicyNext

LEMMA SmoothNoMore == [PolicyNext]_policyVars /\ smooth' => smooth
BY DEF PolicyNext, Arrive, EnsureTable, Select, Deactivate, Activate, CommitRequest, StatementFails,
       OtherCommit, OtherRollback, ProcessRestarts, policyVars

LEMMA ConcurrentInvariant == PolicySpec => [](smooth => ConcurrentInv)
<1>1. PolicyInit => (smooth => ConcurrentInv)
  BY ConcurrentInit
<1>2. /\ PolicyTypeOK /\ PolicyTypeOK' /\ (smooth => ConcurrentInv) /\ [PolicyNext]_policyVars
      => (smooth => ConcurrentInv)'
  BY ConcurrentStep, SmoothNoMore
<1>3. QED
  BY <1>1, <1>2, PolicyTyping, PTL DEF PolicySpec

\* With requests one at a time a commit returns when its version is on disk.
LEMMA SavedStep ==
    ASSUME PolicyTypeOK, WorkingKeeps, SerialInv, saved \subseteq Stored(durable), [PolicyNext]_policyVars
    PROVE  saved' \subseteq Stored(durable')
<1>1. Stored(durable) \subseteq Stored(durable')
  BY KeepsStep
<1>2. CASE saved' = saved
  BY <1>1, <1>2
<1>3. ASSUME NEW r \in Request, CommitRequest(r) PROVE saved' \subseteq Stored(durable')
  <2>1. statement[r] = "commit" /\ durable' = working /\ saved' \subseteq saved \cup {op[r].policy}
    BY <1>3 DEF CommitRequest, Commit
  <2>2. op[r].policy \in Stored(working)
    BY <2>1 DEF SerialInv, Active, Stored
  <2>3. QED
    BY <2>1, <2>2 DEF WorkingKeeps
<1>4. saved' = saved \/ \E r \in Request : CommitRequest(r)
  BY DEF PolicyNext, Arrive, EnsureTable, Select, Deactivate, Activate, StatementFails, OtherCommit,
         OtherRollback, ProcessRestarts, policyVars
<1>5. QED
  BY <1>2, <1>3, <1>4

LEMMA SavedInvariant == PolicySpec => [](alone => saved \subseteq Stored(durable))
<1>1. PolicyInit => saved \subseteq Stored(durable)
  BY DEF PolicyInit
<1>2. /\ PolicyTypeOK /\ WorkingKeeps /\ (alone => SerialInv) /\ [PolicyNext]_policyVars
      /\ (alone => saved \subseteq Stored(durable))
      => (alone => saved \subseteq Stored(durable))'
  BY SavedStep, AloneNoMore
<1>3. QED
  BY <1>1, <1>2, SerialInvariant, WorkingKeepsAlways, PolicyTyping, PTL DEF PolicySpec

\* What a commit reported as saved stays on disk, whatever the requests beside it do,
\* as long as nothing failed; or whatever fails, as long as it was not disturbed.
THEOREM NoVersionLost == PolicySpec => []VersionsRetained
<1>1. (smooth => ConcurrentInv) /\ (alone => saved \subseteq Stored(durable)) => VersionsRetained
  BY DEF ConcurrentInv, VersionsRetained
<1>2. QED
  BY <1>1, ConcurrentInvariant, SavedInvariant, PTL

\* While nothing fails, no interleaving of requests leaves an agent that has versions
\* without an active one (it may leave several).
THEOREM NeverWithoutPolicy == PolicySpec => []SomeVersionStaysActive
<1>1. (smooth => ConcurrentInv) => SomeVersionStaysActive
  BY DEF ConcurrentInv, SomeVersionStaysActive, Busy, AllIdle
<1>2. QED
  BY <1>1, ConcurrentInvariant, PTL
=============================================================================
