------------------------------ MODULE Services ------------------------------
(***************************************************************************)
(* The services behind the API (ai_governance/api.py): the first request   *)
(* builds them, attribute by attribute of the global _svc, the rollback of *)
(* a policy replaces those that hold the configuration, and the requests   *)
(* of the other threads use them meanwhile.  Nothing takes a lock.         *)
(***************************************************************************)
EXTENDS Integers, FiniteSets, Sequences

CONSTANTS
    Handler,    \* the request threads
    MaxBuilt,   \* bound: the _Services objects ever built
    Versions    \* the configurations a rollback may bring back; the default is 0

ServicesAssumption == MaxBuilt \in Nat /\ Versions \subseteq Nat

Default == 0
Object  == 1 .. MaxBuilt
Unset   == [config |-> -1, db |-> 0]

VARIABLES
    svc,        \* the global _svc, or 0
    built,
    attr,       \* of each object: what config, db and the components hold
    at,         \* each handler: "idle", "build", "rollback", "detect", "evaluate"
    step,       \* the next assignment of a build or a rollback
    target,     \* the local svc of the handler
    version,    \* the configuration a rollback brings back
    used,       \* what a drift request has taken its detector's configuration to be
    disturbed,  \* history: something was replaced while the drift request ran
    serial      \* history: no two builds or rollbacks overlapped, and none failed

handlers     == <<at, step, target, version>>
serviceVars  == <<svc, built, attr, handlers, used, disturbed, serial>>

\* Wrong version: a component is built before the database it is to work on.
BuildingEarly == <<"config", "ingestion", "db", "detector", "engine", "dashboard", "audit">>

\* The order of the assignments.  webhooks, between dashboard and audit, holds neither
\* the configuration nor the database.
Building  == <<"config", "db", "ingestion", "detector", "engine", "dashboard", "audit">>
Replacing == <<"config", "ingestion", "detector", "engine", "dashboard">>
Attribute == {Building[i] : i \in DOMAIN Building}

ServicesInit ==
    /\ svc = 0 /\ built = 0 /\ serial = TRUE
    /\ attr = [o \in Object |-> [a \in Attribute |-> Unset]]
    /\ at = [h \in Handler |-> "idle"] /\ step = [h \in Handler |-> 0]
    /\ target = [h \in Handler |-> 0] /\ version = [h \in Handler |-> Default]
    /\ used = [h \in Handler |-> -1] /\ disturbed = [h \in Handler |-> FALSE]

Writing == {h \in Handler : at[h] \in {"build", "rollback"}}
Go(h, where, o, v) ==
    /\ at' = [at EXCEPT ![h] = where] /\ step' = [step EXCEPT ![h] = 1]
    /\ target' = [target EXCEPT ![h] = o] /\ version' = [version EXCEPT ![h] = v]
Disturb == disturbed' = [h \in Handler |-> disturbed[h] \/ at[h] = "evaluate"]
-----------------------------------------------------------------------------
\* _get_svc finds None and publishes an object that has no attributes yet.
BeginBuild(h) ==
    /\ at[h] = "idle" /\ svc = 0
    /\ Go(h, "build", 0, Default)
    /\ serial' = (serial /\ Writing = {})
    /\ UNCHANGED <<svc, built, attr, used, disturbed>>

Publish(h) ==
    /\ at[h] = "build" /\ step[h] = 1 /\ target[h] = 0 /\ built < MaxBuilt
    /\ built' = built + 1 /\ svc' = built'
    /\ target' = [target EXCEPT ![h] = built']
    /\ UNCHANGED <<attr, at, step, version, used, disturbed, serial>>

\* What the assignment of attribute a leaves in it.  A component is made with the
\* configuration and the database that the object holds by now.
Built(o, a, h) ==
    CASE a = "config" -> [config |-> Default, db |-> 0]
      [] a = "db"     -> [config |-> Default, db |-> o]
      [] OTHER        -> [config |-> attr[o]["config"].config, db |-> attr[o]["db"].db]

\* One assignment: the object is the one that _svc names by now.
Build(h) ==
    /\ at[h] = "build" /\ target[h] # 0
    /\ attr' = [attr EXCEPT ![svc][Building[step[h]]] = Built(svc, Building[step[h]], h)]
    /\ IF step[h] < Len(Building)
       THEN step' = [step EXCEPT ![h] = @ + 1] /\ UNCHANGED <<at, target, version>>
       ELSE Go(h, "idle", 0, Default)
    /\ Disturb
    /\ UNCHANGED <<svc, built, used, serial>>

\* Opening the database raises: the request fails, the object stays as it is, and every
\* later request finds it and fails too.
FailBuild(h) ==
    /\ at[h] = "build" /\ target[h] # 0 /\ step[h] = 2
    /\ Go(h, "idle", 0, Default)
    /\ serial' = FALSE
    /\ UNCHANGED <<svc, built, attr, used, disturbed>>

(***************************************************************************)
(* rollback_policy, once PolicyStore has brought a version back.           *)
(***************************************************************************)
BeginRollback(h) ==
    /\ at[h] = "idle" /\ svc # 0 /\ attr[svc]["db"] # Unset
    /\ \E v \in Versions : Go(h, "rollback", svc, v)
    /\ serial' = (serial /\ Writing = {})
    /\ UNCHANGED <<svc, built, attr, used, disturbed>>

\* reload_config: the same assignments, with a configuration of the caller's.  It reads
\* only the old configuration first, so it may meet an object that is not complete.
BeginReload(h) ==
    /\ at[h] = "idle" /\ svc # 0 /\ attr[svc]["config"] # Unset
    /\ \E v \in Versions : Go(h, "rollback", svc, v)
    /\ serial' = (serial /\ Writing = {})
    /\ UNCHANGED <<svc, built, attr, used, disturbed>>

\* The object has no database yet: the reload ends
\* with the configuration replaced and the rest of the components as they were.
NotYet(h) == LET o == target[h]
                 a == Replacing[step[h]]
             IN a # "config" /\ attr[o]["db"] = Unset

FailReload(h) ==
    /\ at[h] = "rollback" /\ NotYet(h)
    /\ Go(h, "idle", 0, Default)
    /\ serial' = FALSE
    /\ UNCHANGED <<svc, built, attr, used, disturbed>>

Replace(h) ==
    /\ at[h] = "rollback" /\ ~NotYet(h)
    /\ LET o == target[h]
           a == Replacing[step[h]]
       IN attr' = [attr EXCEPT ![o][a] = [config |-> version[h],
                                          db |-> IF a = "config" THEN 0 ELSE attr[o]["db"].db]]
    /\ IF step[h] < Len(Replacing)
       THEN step' = [step EXCEPT ![h] = @ + 1] /\ UNCHANGED <<at, target, version>>
       ELSE Go(h, "idle", 0, Default)
    /\ Disturb
    /\ UNCHANGED <<svc, built, used, serial>>

\* GET /drift: the detector first, the engine when it has detected.  An attribute that
\* is not there yet fails the request.
Detect(h) ==
    /\ at[h] = "idle" /\ svc # 0 /\ attr[svc]["detector"] # Unset
    /\ used' = [used EXCEPT ![h] = attr[svc]["detector"].config]
    /\ disturbed' = [disturbed EXCEPT ![h] = FALSE]
    /\ Go(h, "evaluate", svc, Default)
    /\ UNCHANGED <<svc, built, attr, serial>>

Evaluated(h) == attr[target[h]]["engine"].config
Answered(h) ==
    /\ at[h] = "evaluate"
    /\ Go(h, "idle", 0, Default)
    /\ used' = [used EXCEPT ![h] = -1] /\ disturbed' = [disturbed EXCEPT ![h] = FALSE]
    /\ UNCHANGED <<svc, built, attr, serial>>

ServicesNext ==
    \E h \in Handler :
        \/ BeginBuild(h) \/ Publish(h) \/ Build(h) \/ FailBuild(h)
        \/ BeginRollback(h) \/ BeginReload(h) \/ Replace(h) \/ FailReload(h)
        \/ Detect(h) \/ Answered(h)

ServicesSpec == ServicesInit /\ [][ServicesNext]_serviceVars
-----------------------------------------------------------------------------
\* As long as builds and rollbacks come one at a time and none fails, the components
\* agree on one configuration and one database whenever none is under way, and a drift
\* request during which nothing was replaced detects and evaluates with the same
\* configuration.
ServicesAgree ==
    serial /\ svc # 0 =>
        /\ Writing = {} => \A a \in Attribute \ {"config", "db", "audit"} :
               attr[svc][a] = [config |-> attr[svc]["config"].config, db |-> attr[svc]["db"].db]
        /\ Writing = {} => attr[svc]["audit"].db = attr[svc]["db"].db
        /\ \A h \in Handler :
               at[h] = "evaluate" /\ ~disturbed[h] /\ Writing = {} => Evaluated(h) = used[h]
=============================================================================
