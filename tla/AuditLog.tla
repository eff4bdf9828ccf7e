------------------------------ MODULE AuditLog ------------------------------
(***************************************************************************)
(* The hash chain of one agent's audit log (ai_governance/audit.py).  Each *)
(* AuditLog object serialises its own appends with a lock and caches the   *)
(* last hash it wrote; the table is shared by every AuditLog object there  *)
(* is: the API's long-lived one, the throw-away ones of the behavioural    *)
(* test runner, those of other processes on the same file.                 *)
(*                                                                         *)
(* A hash is modelled by the number of the append that computed it: equal  *)
(* hashes mean the same entry (SHA-256 does not collide), and 0 is the     *)
(* "genesis" every chain starts from.                                      *)
(***************************************************************************)
EXTENDS SqliteConnection, Integers, Sequences

CONSTANTS
    Log,              \* the AuditLog objects on the table
    ShortLived,       \* those built for one append and dropped (test_runner.py)
    MaxAppends        \* bound on the appends attempted

ASSUME AuditAssumption ==
    /\ ShortLived \subseteq Log
    /\ MaxAppends \in Nat

CONSTANT Nobody
ASSUME NobodyIsNoLog == Nobody \notin Log

VARIABLES
    stage,     \* where append is in each log: idle, read, insert, commit
    prev,      \* prev_hash, the local variable of append
    cache,     \* _prev_hashes[agent_id], Unknown when not cached
    holder,    \* who holds GovernanceDB._lock across a transaction
    drawn,     \* the number of entry hashes computed so far
    returned,  \* history: the entries whose append returned to its caller
    appenders, \* history: the logs that have begun an append
    cut        \* history: PolicyStore has ended the transaction of an append

logVars == <<stage, prev, cache>>
history == <<returned, appenders, cut>>
vars    == <<connection, logVars, holder, drawn, history>>

Genesis == 0
Unknown == -1
Hash    == 0 .. MaxAppends
Entry   == [prev : Hash, hash : Hash \ {Genesis}]

\* SELECT entry_hash ... ORDER BY seq DESC LIMIT 1, or "genesis".
LastHash(rows) == IF rows = <<>> THEN Genesis ELSE rows[Len(rows)].hash

\* verify_chain: every row continues the row before it.
VerifyChain(rows) ==
    \A i \in 1 .. Len(rows) :
        rows[i].prev = IF i = 1 THEN Genesis ELSE rows[i-1].hash

Init ==
    /\ durable = <<>>
    /\ working = <<>>
    /\ stage = [l \in Log |-> "idle"]
    /\ prev = [l \in Log |-> Genesis]
    /\ cache = [l \in Log |-> Unknown]
    /\ holder = Nobody
    /\ drawn = 0
    /\ returned = {}
    /\ appenders = {}
    /\ cut = FALSE
-----------------------------------------------------------------------------
\* append enters its lock; _get_prev_hash finds the hash in the cache or not.
Begin(l) ==
    /\ stage[l] = "idle"
    /\ drawn < MaxAppends
    /\ IF cache[l] = Unknown
       THEN stage' = [stage EXCEPT ![l] = "read"] /\ UNCHANGED prev
       ELSE /\ stage' = [stage EXCEPT ![l] = "insert"]
            /\ prev' = [prev EXCEPT ![l] = cache[l]]
    /\ appenders' = appenders \cup {l}
    /\ UNCHANGED <<connection, cache, holder, drawn, returned, cut>>

\* _get_prev_hash reads the last row, under the database's lock, and caches it.
ReadStart(l) ==                \* wrong version: ORDER BY seq ASC
    /\ stage[l] = "read" /\ holder = Nobody
    /\ LET first == IF working = <<>> THEN Genesis ELSE working[1].hash
       IN  /\ cache' = [cache EXCEPT ![l] = first]
           /\ prev'  = [prev EXCEPT ![l] = first]
    /\ stage' = [stage EXCEPT ![l] = "insert"]
    /\ UNCHANGED <<connection, holder, drawn, history>>

ReadPrev(l) ==
    /\ stage[l] = "read" /\ holder = Nobody
    /\ cache' = [cache EXCEPT ![l] = LastHash(working)]
    /\ prev'  = [prev EXCEPT ![l] = LastHash(working)]
    /\ stage' = [stage EXCEPT ![l] = "insert"]
    /\ UNCHANGED <<connection, holder, drawn, history>>

\* INSERT INTO audit_log, inside GovernanceDB._tx.
InsertCachingHash(l) ==       \* wrong version: the cache moves on too early
    /\ stage[l] = "insert" /\ holder = Nobody /\ drawn < MaxAppends
    /\ drawn' = drawn + 1
    /\ Write(Append(working, [prev |-> prev[l], hash |-> drawn']))
    /\ cache' = [cache EXCEPT ![l] = drawn']
    /\ holder' = l
    /\ stage' = [stage EXCEPT ![l] = "commit"]
    /\ UNCHANGED <<prev, history>>

Insert(l) ==
    /\ stage[l] = "insert" /\ holder = Nobody /\ drawn < MaxAppends
    /\ drawn' = drawn + 1
    /\ Write(Append(working, [prev |-> prev[l], hash |-> drawn']))
    /\ holder' = l
    /\ stage' = [stage EXCEPT ![l] = "commit"]
    /\ UNCHANGED <<prev, cache, history>>

Forgotten(l, hash) == IF l \in ShortLived THEN Unknown ELSE hash

\* _tx commits, append caches the hash it wrote and returns the entry, which in
\* this model carries the number drawn last.
CommitLost(l) ==               \* wrong version: _tx yields but never commits
    /\ stage[l] = "commit" /\ holder = l
    /\ Rollback
    /\ cache' = [cache EXCEPT ![l] = Forgotten(l, drawn)]
    /\ holder' = Nobody
    /\ stage' = [stage EXCEPT ![l] = "idle"]
    /\ returned' = returned \cup {drawn}
    /\ UNCHANGED <<prev, drawn, appenders, cut>>

CommitAppend(l) ==
    /\ stage[l] = "commit" /\ holder = l
    /\ Commit
    /\ cache' = [cache EXCEPT ![l] = Forgotten(l, drawn)]
    /\ holder' = Nobody
    /\ stage' = [stage EXCEPT ![l] = "idle"]
    /\ returned' = returned \cup {drawn}
    /\ UNCHANGED <<prev, drawn, appenders, cut>>

\* The SELECT raises: nothing was written or cached, append raises.
FailRead(l) ==
    /\ stage[l] = "read" /\ holder = Nobody
    /\ stage' = [stage EXCEPT ![l] = "idle"]
    /\ UNCHANGED <<connection, prev, cache, holder, drawn, history>>

\* A statement raises: _tx rolls back and append raises, its cache untouched.
FailAppend(l) ==
    /\ \/ stage[l] = "insert" /\ holder = Nobody
       \/ stage[l] = "commit" /\ holder = l
    /\ Rollback
    /\ holder' = Nobody
    /\ stage' = [stage EXCEPT ![l] = "idle"]
    /\ cache' = [cache EXCEPT ![l] = Forgotten(l, @)]
    /\ UNCHANGED <<prev, drawn, history>>

(***************************************************************************)
(* PolicyStore uses the same connection without GovernanceDB's lock: its   *)
(* requests commit, and when they fail roll back, whatever is open.        *)
(***************************************************************************)
ForeignEnd ==
    /\ Commit \/ Rollback
    /\ cut' = (cut \/ holder # Nobody)
    /\ UNCHANGED <<logVars, holder, drawn, returned, appenders>>

\* Every process is killed and starts again with empty caches.
Restart ==
    /\ Rollback
    /\ stage' = [l \in Log |-> "idle"]
    /\ cache' = [l \in Log |-> Unknown]
    /\ holder' = Nobody
    /\ UNCHANGED <<prev, drawn, history>>

Done ==
    /\ drawn = MaxAppends
    /\ \A l \in Log : stage[l] # "commit"
    /\ UNCHANGED vars

Next ==
    \/ \E l \in Log :
         \/ Begin(l)
         \/ ReadPrev(l)
         \/ Insert(l)
         \/ CommitAppend(l)
         \/ FailRead(l)
         \/ FailAppend(l)
    \/ ForeignEnd
    \/ Restart
    \/ Done

Spec == Init /\ [][Next]_vars
-----------------------------------------------------------------------------
\* Type invariant; the lock is held by the log whose transaction is open.
TypeOK ==
    /\ durable \in Seq(Entry)
    /\ working \in Seq(Entry)
    /\ stage \in [Log -> {"idle", "read", "insert", "commit"}]
    /\ prev \in [Log -> Hash]
    /\ cache \in [Log -> Hash \cup {Unknown}]
    /\ holder \in Log \cup {Nobody}
    /\ \A l \in Log : (stage[l] = "commit") = (holder = l)
    /\ drawn \in 0 .. MaxAppends
    /\ returned \subseteq Hash
    /\ appenders \subseteq Log
    /\ cut \in BOOLEAN

\* AuditLog: "Append-only audit log with hash-chain integrity."  verify_chain accepts
\* what is on disk, unless PolicyStore ended the transaction of an append.
ChainIntact == ~cut => VerifyChain(durable)

\* The same, as long as one AuditLog object has done all the appending: whatever
\* failed or crashed between reading the last hash, inserting the entry, committing
\* it and moving the cache on.
ChainIntactOfOne == (\A k, l \in appenders : k = l) => ChainIntact

\* An append that returned is on disk ever after, whichever logs append beside it.
ReturnedEntriesKept ==
    ~cut => \A h \in returned : \E i \in 1 .. Len(durable) : durable[i].hash = h

\* Appends of several AuditLog objects may fork the chain but never leave a row
\* whose predecessor is not an earlier row: no cache outlives an entry that was
\* rolled back.
PredecessorOnDisk ==
    ~cut => \A i \in 1 .. Len(durable) :
                \/ durable[i].prev = Genesis
                \/ \E j \in 1 .. i-1 : durable[j].hash = durable[i].prev

\* "Append-only": a row on disk is never changed, moved or removed, whichever log
\* appends, whoever rolls the shared connection back and whatever crashes.
RowsNeverChange ==
    [][\A i \in DOMAIN durable :
          i \in DOMAIN durable' /\ durable'[i] = durable[i]]_vars
=============================================================================
