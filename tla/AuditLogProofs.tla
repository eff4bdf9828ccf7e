--------------------------- MODULE AuditLogProofs ---------------------------
(***************************************************************************)
(* Proofs about AuditLog, for any number of appends: its type invariant;   *)
(* that nothing an append returned for is lost and no row dangles, however *)
(* many AuditLog objects share the table; and that a single one keeps the  *)
(* chain verify_chain checks, through failures and restarts.  These three  *)
(* hold until PolicyStore ends the transaction of an append.  That rows    *)
(* never change holds for ever.                                            *)
(***************************************************************************)
EXTENDS AuditLog, TLAPS

LEMMA AppendFacts ==
    ASSUME NEW s \in Seq(Entry), NEW e \in Entry
    PROVE  /\ Append(s, e) \in Seq(Entry)
           /\ Append(s, e) # <<>>
           /\ Len(Append(s, e)) = Len(s) + 1
           /\ \A i \in 1 .. Len(s) : Append(s, e)[i] = s[i]
           /\ Append(s, e)[Len(s) + 1] = e
           /\ LastHash(Append(s, e)) = e.hash
<1>1. /\ Append(s, e) \in Seq(Entry)
      /\ Len(Append(s, e)) = Len(s) + 1
      /\ \A i \in 1 .. Len(s) : Append(s, e)[i] = s[i]
      /\ Append(s, e)[Len(s) + 1] = e
  OBVIOUS
<1>2. Append(s, e) # <<>>
  <2>1. Len(s) + 1 # 0
    OBVIOUS
  <2>2. QED
    BY <1>1, <2>1
<1>3. QED
  BY <1>1, <1>2 DEF LastHash

LEMMA LastHashTyped ==
    ASSUME NEW s \in Seq(Entry)
    PROVE  LastHash(s) \in Hash
<1>1. CASE s = <<>>
  BY <1>1, AuditAssumption DEF LastHash, Hash, Genesis
<1>2. CASE s # <<>>
  <2>1. Len(s) \in 1 .. Len(s) /\ s[Len(s)] \in Entry
    BY <1>2
  <2>2. QED
    BY <1>2, <2>1 DEF LastHash, Entry
<1>3. QED
  BY <1>1, <1>2

LEMMA InitTyped == Init => TypeOK
<1> SUFFICES ASSUME Init PROVE TypeOK
  OBVIOUS
<1>1. durable \in Seq(Entry) /\ working \in Seq(Entry)
  BY DEF Init
<1>2. prev \in [Log -> Hash] /\ drawn \in 0 .. MaxAppends
  BY AuditAssumption DEF Init, Hash, Genesis
<1>3. \A l \in Log : (stage[l] = "commit") = (holder = l)
  BY NobodyIsNoLog DEF Init
<1>4. cut \in BOOLEAN
  BY DEF Init
<1>5. QED
  BY <1>1, <1>2, <1>3, <1>4 DEF Init, TypeOK

LEMMA NextEntryTyped ==
    ASSUME TypeOK, NEW l \in Log, Insert(l)
    PROVE  /\ drawn' \in 0 .. MaxAppends
           /\ [prev |-> prev[l], hash |-> drawn'] \in Entry
BY AuditAssumption DEF TypeOK, Insert, Entry, Hash, Genesis

LEMMA StepTyped == TypeOK /\ [Next]_vars => TypeOK'
<1> SUFFICES ASSUME TypeOK, [Next]_vars PROVE TypeOK'
  OBVIOUS
<1> USE NobodyIsNoLog
<1>1. ASSUME NEW l \in Log, Begin(l) PROVE TypeOK'
  <2>1. CASE cache[l] = Unknown
    BY <1>1, <2>1 DEF TypeOK, Begin, connection
  <2>2. CASE cache[l] # Unknown
    BY <1>1, <2>2 DEF TypeOK, Begin, connection
  <2>3. QED
    BY <2>1, <2>2
<1>2. ASSUME NEW l \in Log, ReadPrev(l) PROVE TypeOK'
  <2>1. LastHash(working) \in Hash
    BY LastHashTyped DEF TypeOK
  <2>2. QED
    BY <1>2, <2>1 DEF TypeOK, ReadPrev, connection, history
<1>3. ASSUME NEW l \in Log, Insert(l) PROVE TypeOK'
  <2>1. working' \in Seq(Entry) /\ durable' = durable
    BY <1>3, NextEntryTyped, AppendFacts DEF Insert, Write, TypeOK
  <2>2. QED
    BY <1>3, <2>1, NextEntryTyped DEF TypeOK, Insert, history
<1>4. ASSUME NEW l \in Log, CommitAppend(l) PROVE TypeOK'
  <2>1. Forgotten(l, drawn) \in Hash \cup {Unknown} /\ drawn \in Hash
    BY DEF Forgotten, TypeOK, Hash
  <2>2. QED
    BY <1>4, <2>1 DEF TypeOK, CommitAppend, Commit
<1>5. ASSUME NEW l \in Log, FailRead(l) PROVE TypeOK'
  BY <1>5 DEF TypeOK, FailRead, connection, history
<1>6. ASSUME NEW l \in Log, FailAppend(l) PROVE TypeOK'
  <2>1. Forgotten(l, cache[l]) \in Hash \cup {Unknown}
    BY DEF Forgotten, TypeOK
  <2>2. QED
    BY <1>6, <2>1 DEF TypeOK, FailAppend, Rollback, history
<1>7. CASE ForeignEnd
  BY <1>7 DEF TypeOK, ForeignEnd, Commit, Rollback, logVars
<1>8. CASE Restart
  BY <1>8 DEF TypeOK, Restart, Rollback, history
<1>9. CASE Done \/ UNCHANGED vars
  BY <1>9 DEF TypeOK, Done, vars, logVars, history, connection
<1>10. QED
  BY <1>1, <1>2, <1>3, <1>4, <1>5, <1>6, <1>7, <1>8, <1>9 DEF Next

\* The table, the logs, the lock and the counter keep their types, and the lock is
\* always held by exactly the log whose transaction is open.
THEOREM AuditTyping == Spec => []TypeOK
<1>1. QED
  BY InitTyped, StepTyped, PTL DEF Spec
-----------------------------------------------------------------------------
(***************************************************************************)
(* Any number of logs.  An open transaction holds one new entry; what any  *)
(* log has cached or read as the previous hash is on disk.                 *)
(***************************************************************************)
OnDisk(rows, h) == h = Genesis \/ \E i \in 1 .. Len(rows) : rows[i].hash = h

Inserted == [prev |-> prev[holder], hash |-> drawn]

AllReturnedKept ==
    \A h \in returned : \E i \in 1 .. Len(durable) : durable[i].hash = h

NoneDangles ==
    \A i \in 1 .. Len(durable) :
        \/ durable[i].prev = Genesis
        \/ \E j \in 1 .. i-1 : durable[j].hash = durable[i].prev

SharedInv ==
    /\ holder = Nobody => working = durable
    /\ holder # Nobody => working = Append(durable, Inserted) /\ drawn # Genesis
    /\ \A l \in Log : cache[l] # Unknown => OnDisk(durable, cache[l])
    /\ \A l \in Log : stage[l] \in {"insert", "commit"} => OnDisk(durable, prev[l])
    /\ AllReturnedKept
    /\ NoneDangles

LEMMA SharedInit == Init => SharedInv
BY NobodyIsNoLog DEF Init, SharedInv, AllReturnedKept, NoneDangles, Unknown

LEMMA LastOnDisk == TypeOK => OnDisk(durable, LastHash(durable))
<1> SUFFICES ASSUME TypeOK PROVE OnDisk(durable, LastHash(durable))
  OBVIOUS
<1>1. CASE durable = <<>>
  BY <1>1 DEF OnDisk, LastHash
<1>2. CASE durable # <<>>
  <2>1. Len(durable) \in 1 .. Len(durable)
    BY <1>2 DEF TypeOK
  <2>2. QED
    BY <1>2, <2>1 DEF OnDisk, LastHash
<1>3. QED
  BY <1>1, <1>2

\* A transaction in which nothing is written, or that is rolled back.
LEMMA DiskUntouched ==
    ASSUME TypeOK, TypeOK', SharedInv,
           durable' = durable, returned' = returned,
           holder' = Nobody => working' = durable',
           holder' # Nobody => /\ holder' = holder /\ UNCHANGED <<working, drawn>>
                               /\ prev'[holder'] = prev[holder'],
           \A l \in Log : cache'[l] # Unknown => OnDisk(durable, cache'[l]),
           \A l \in Log : stage'[l] \in {"insert", "commit"} => OnDisk(durable, prev'[l])
    PROVE  SharedInv'
BY DEF SharedInv, OnDisk, Inserted, AllReturnedKept, NoneDangles

LEMMA SharedCommit ==
    ASSUME TypeOK, TypeOK', SharedInv, NEW l \in Log, CommitAppend(l)
    PROVE  SharedInv'
<1>1. /\ holder = l /\ l # Nobody /\ stage[l] = "commit"
      /\ holder' = Nobody /\ durable' = working /\ working' = working
      /\ drawn' = drawn /\ prev' = prev /\ returned' = returned \cup {drawn}
  BY NobodyIsNoLog DEF CommitAppend, Commit
<1> DEFINE e == [prev |-> prev[l], hash |-> drawn]
<1>2. working = Append(durable, e) /\ drawn # Genesis
  BY <1>1 DEF SharedInv, Inserted
<1>3. e \in Entry /\ durable \in Seq(Entry)
  BY <1>2 DEF TypeOK, Entry, Hash
<1>4. /\ Len(durable') = Len(durable) + 1
      /\ \A i \in 1 .. Len(durable) : durable'[i] = durable[i]
      /\ durable'[Len(durable) + 1] = e
  BY <1>1, <1>2, <1>3, AppendFacts
<1>5. Len(durable) \in Nat
  BY <1>3
<1>6. \A h : OnDisk(durable, h) => OnDisk(durable', h)
  BY <1>4, <1>5 DEF OnDisk
<1>7. OnDisk(durable', drawn)
  BY <1>1, <1>4, <1>5 DEF OnDisk
<1>8. OnDisk(durable, prev[l])
  BY <1>1 DEF SharedInv
<1>9. \A k \in Log : cache'[k] # Unknown => OnDisk(durable', cache'[k])
  <2>1. \A k \in Log \ {l} : cache'[k] = cache[k]
    BY DEF CommitAppend, TypeOK
  <2>2. cache'[l] = Unknown \/ cache'[l] = drawn
    BY DEF CommitAppend, Forgotten, TypeOK
  <2>3. drawn = drawn'
    BY <1>1
  <2>4. cache'[l] # Unknown => OnDisk(durable', cache'[l])
    BY <2>2, <1>7
  <2>5. ASSUME NEW k \in Log \ {l}, cache'[k] # Unknown PROVE OnDisk(durable', cache'[k])
    <3>1. OnDisk(durable, cache[k])
      BY <2>1, <2>5 DEF SharedInv
    <3>2. QED
      BY <3>1, <2>1, <1>6
  <2>6. QED
    BY <2>4, <2>5
<1>10. \A k \in Log : stage'[k] \in {"insert", "commit"} => OnDisk(durable', prev'[k])
  <2>1. \A k \in Log \ {l} : stage'[k] = stage[k]
    BY DEF CommitAppend, TypeOK
  <2>2. stage'[l] = "idle"
    BY DEF CommitAppend, TypeOK
  <2>3. QED
    BY <2>1, <2>2, <1>1, <1>6 DEF SharedInv
<1>11. AllReturnedKept'
  <2>1. \A h \in returned : \E i \in 1 .. Len(durable') : durable'[i].hash = h
    BY <1>4, <1>5 DEF SharedInv, AllReturnedKept
  <2>2. \E i \in 1 .. Len(durable') : durable'[i].hash = drawn
    BY <1>4, <1>5
  <2>3. QED
    BY <2>1, <2>2, <1>1 DEF AllReturnedKept
<1>12. NoneDangles'
  <2> SUFFICES ASSUME NEW i \in 1 .. Len(durable')
               PROVE  \/ durable'[i].prev = Genesis
                      \/ \E j \in 1 .. i-1 : durable'[j].hash = durable'[i].prev
    BY DEF NoneDangles
  <2>1. CASE i \in 1 .. Len(durable)
    BY <2>1, <1>4, <1>5 DEF SharedInv, NoneDangles
  <2>2. CASE i = Len(durable) + 1
    BY <2>2, <1>4, <1>5, <1>8 DEF OnDisk
  <2>3. QED
    BY <2>1, <2>2, <1>4, <1>5
<1>13. QED
  BY <1>1, <1>9, <1>10, <1>11, <1>12 DEF SharedInv

LEMMA SharedStep ==
    ASSUME ~cut', TypeOK, TypeOK', SharedInv, [Next]_vars
    PROVE  SharedInv'
<1> USE NobodyIsNoLog
<1>1. ASSUME NEW l \in Log, Begin(l) PROVE SharedInv'
  <2>1. UNCHANGED <<durable, working, cache, holder, drawn, returned>>
    BY <1>1 DEF Begin, connection
  <2>2. \A k \in Log \ {l} : stage'[k] = stage[k] /\ prev'[k] = prev[k]
    BY <1>1 DEF Begin, TypeOK
  <2>3. stage'[l] = "read" \/ (cache[l] # Unknown /\ prev'[l] = cache[l])
    BY <1>1 DEF Begin, TypeOK
  <2>4. stage[l] = "idle"
    BY <1>1 DEF Begin
  <2>5. holder # l
    BY <2>4 DEF TypeOK
  <2>6. holder # Nobody => prev'[holder] = prev[holder]
    BY <2>2, <2>5 DEF TypeOK
  <2>7. \A k \in Log : stage'[k] \in {"insert", "commit"} => OnDisk(durable, prev'[k])
    BY <2>2, <2>3 DEF SharedInv
  <2>8. \A k \in Log : cache'[k] # Unknown => OnDisk(durable, cache'[k])
    BY <2>1 DEF SharedInv
  <2>9. holder' = Nobody => working' = durable'
    BY <2>1 DEF SharedInv
  <2>10. QED
    BY <2>1, <2>6, <2>7, <2>8, <2>9, DiskUntouched
<1>2. ASSUME NEW l \in Log, ReadPrev(l) PROVE SharedInv'
  <2>1. UNCHANGED <<durable, working, holder, drawn, returned>> /\ holder = Nobody
    BY <1>2 DEF ReadPrev, connection, history
  <2>2. working = durable /\ OnDisk(durable, LastHash(durable))
    BY <2>1, LastOnDisk DEF SharedInv
  <2>3. \A k \in Log \ {l} : /\ stage'[k] = stage[k] /\ prev'[k] = prev[k]
                             /\ cache'[k] = cache[k]
    BY <1>2 DEF ReadPrev, TypeOK
  <2>4. prev'[l] = LastHash(durable) /\ cache'[l] = LastHash(durable)
    BY <1>2, <2>2 DEF ReadPrev, TypeOK
  <2>5. \A k \in Log : stage'[k] \in {"insert", "commit"} => OnDisk(durable, prev'[k])
    BY <2>2, <2>3, <2>4 DEF SharedInv
  <2>6. \A k \in Log : cache'[k] # Unknown => OnDisk(durable, cache'[k])
    BY <2>2, <2>3, <2>4 DEF SharedInv
  <2>7. QED
    BY <2>1, <2>2, <2>5, <2>6, DiskUntouched
<1>3. ASSUME NEW l \in Log, Insert(l) PROVE SharedInv'
  <2>1. /\ holder = Nobody /\ holder' = l /\ drawn' = drawn + 1
        /\ UNCHANGED <<durable, prev, cache, returned>>
        /\ working' = Append(working, [prev |-> prev[l], hash |-> drawn'])
    BY <1>3 DEF Insert, Write, history
  <2>2. working' = Append(durable', Inserted')
    BY <2>1 DEF SharedInv, Inserted
  <2>3. drawn' # Genesis
    BY <2>1 DEF TypeOK, Genesis
  <2>4. \A k \in Log : stage'[k] \in {"insert", "commit"} =>
                         stage[k] \in {"insert", "commit"}
    BY <1>3 DEF Insert, TypeOK
  <2>5. QED
    BY <2>1, <2>2, <2>3, <2>4
       DEF SharedInv, OnDisk, AllReturnedKept, NoneDangles
<1>4. ASSUME NEW l \in Log, CommitAppend(l) PROVE SharedInv'
  BY <1>4, SharedCommit
<1>5. ASSUME NEW l \in Log, FailRead(l) PROVE SharedInv'
  <2>1. UNCHANGED <<durable, working, prev, cache, holder, drawn, returned>>
    BY <1>5 DEF FailRead, connection, history
  <2>2. \A k \in Log : stage'[k] \in {"insert", "commit"} => stage'[k] = stage[k]
    BY <1>5 DEF FailRead, TypeOK
  <2>3. QED
    BY <2>1, <2>2, DiskUntouched DEF SharedInv
<1>6. ASSUME NEW l \in Log, FailAppend(l) PROVE SharedInv'
  <2>1. /\ working' = durable /\ holder' = Nobody
        /\ UNCHANGED <<durable, prev, drawn, returned>>
    BY <1>6 DEF FailAppend, Rollback, history
  <2>2. \A k \in Log : stage'[k] \in {"insert", "commit"} => stage'[k] = stage[k]
    BY <1>6 DEF FailAppend, TypeOK
  <2>3. \A k \in Log : cache'[k] # Unknown => cache'[k] = cache[k]
    BY <1>6 DEF FailAppend, Forgotten, TypeOK
  <2>4. QED
    BY <2>1, <2>2, <2>3, DiskUntouched DEF SharedInv
<1>7. CASE Restart
  <2>1. /\ working' = durable /\ holder' = Nobody /\ UNCHANGED <<durable, returned>>
        /\ \A k \in Log : stage'[k] = "idle" /\ cache'[k] = Unknown
    BY <1>7 DEF Restart, Rollback, history
  <2>2. QED
    BY <2>1, DiskUntouched
<1>8. CASE Done \/ UNCHANGED vars
  <2>1. UNCHANGED vars
    BY <1>8 DEF Done
  <2>2. QED
    BY <2>1 DEF vars, logVars, history, connection, SharedInv, OnDisk, Inserted,
                AllReturnedKept, NoneDangles
<1>9. CASE ForeignEnd
  <2>1. holder = Nobody /\ UNCHANGED <<logVars, holder, drawn, returned>>
    BY <1>9 DEF ForeignEnd
  <2>2. working = durable
    BY <2>1 DEF SharedInv
  <2>3. UNCHANGED <<durable, working>>
    BY <1>9, <2>2 DEF ForeignEnd, Commit, Rollback
  <2>4. QED
    BY <2>1, <2>3 DEF logVars, SharedInv, OnDisk, Inserted, AllReturnedKept, NoneDangles
<1>10. QED
  BY <1>1, <1>2, <1>3, <1>4, <1>5, <1>6, <1>7, <1>8, <1>9 DEF Next

\* Once PolicyStore has ended the transaction of an append, the history says so for good.
LEMMA CutForGood == [Next]_vars /\ ~cut' => ~cut
BY DEF Next, Begin, ReadPrev, Insert, CommitAppend, FailRead, FailAppend, ForeignEnd,
       Restart, Done, vars, history

LEMMA SharedInvariant == Spec => [](~cut => SharedInv)
<1>1. Init => (~cut => SharedInv)
  BY SharedInit
<1>2. TypeOK /\ TypeOK' /\ (~cut => SharedInv) /\ [Next]_vars => (~cut => SharedInv)'
  BY SharedStep, CutForGood
<1>3. QED
  BY <1>1, <1>2, AuditTyping, PTL DEF Spec

\* Entries append returned for stay on disk, whoever else appends, fails or crashes.
THEOREM NothingReturnedIsLost == Spec => []ReturnedEntriesKept
<1>1. (~cut => SharedInv) => ReturnedEntriesKept
  BY DEF SharedInv, AllReturnedKept, ReturnedEntriesKept
<1>2. QED
  BY <1>1, SharedInvariant, PTL

\* No row's predecessor was rolled back, whoever else appends, fails or crashes.
THEOREM NoRowDangles == Spec => []PredecessorOnDisk
<1>1. (~cut => SharedInv) => PredecessorOnDisk
  BY DEF SharedInv, NoneDangles, PredecessorOnDisk
<1>2. QED
  BY <1>1, SharedInvariant, PTL
-----------------------------------------------------------------------------
(***************************************************************************)
(* As long as one AuditLog object appends, its cache is the last hash on   *)
(* disk, and the others have nothing cached and nothing under way.         *)
(***************************************************************************)
OneAppender == \A k, l \in appenders : k = l

Quiet(l) == stage[l] = "idle" /\ cache[l] = Unknown

SingleInv ==
    /\ VerifyChain(durable)
    /\ \A l \in Log \ appenders : Quiet(l)
    /\ \A l \in Log : cache[l] # Unknown => cache[l] = LastHash(durable)
    /\ \A l \in Log : stage[l] \in {"insert", "commit"} => prev[l] = LastHash(durable)

LEMMA SingleInit == Init => SingleInv
BY DEF Init, SingleInv, Quiet, VerifyChain

\* While one log appends the others are quiet.
LEMMA OthersQuiet ==
    ASSUME OneAppender, SingleInv, NEW l \in Log, ~Quiet(l)
    PROVE  l \in appenders /\ \A k \in Log \ {l} : Quiet(k)
BY DEF OneAppender, SingleInv

LEMMA SingleStep ==
    ASSUME OneAppender', ~cut', TypeOK, SharedInv, SingleInv, [Next]_vars
    PROVE  SingleInv'
<1> USE NobodyIsNoLog
<1> DEFINE Others(l) == \A k \in Log \ {l} : Quiet(k)'
<1>0. OneAppender
  BY DEF OneAppender, Next, Begin, ReadPrev, Insert, CommitAppend, FailRead, FailAppend,
         ForeignEnd, Restart, Done, vars, history
<1>1. ASSUME NEW l \in Log, Begin(l) PROVE SingleInv'
  <2>1. durable' = durable /\ cache' = cache /\ l \in appenders'
    BY <1>1 DEF Begin, connection
  <2>2. \A k \in Log \ {l} : k \notin appenders
    BY <1>1 DEF Begin, OneAppender
  <2>3. Others(l)
    BY <1>1, <2>2 DEF Begin, SingleInv, Quiet, TypeOK
  <2>4. stage'[l] = "read" \/ (cache[l] # Unknown /\ prev'[l] = cache[l])
    BY <1>1 DEF Begin, TypeOK
  <2>5. QED
    BY <2>1, <2>3, <2>4 DEF SingleInv, Quiet, VerifyChain, LastHash
<1>2. ASSUME NEW l \in Log, ReadPrev(l) PROVE SingleInv'
  <2>1. durable' = durable /\ working = durable
    BY <1>2 DEF ReadPrev, connection, SharedInv
  <2>2. l \in appenders' /\ \A k \in Log \ {l} : Quiet(k)
    BY <1>0, <1>2, OthersQuiet DEF ReadPrev, Quiet, history
  <2>3. Others(l)
    BY <1>2, <2>2 DEF ReadPrev, Quiet, TypeOK
  <2>4. prev'[l] = LastHash(durable) /\ cache'[l] = LastHash(durable)
    BY <1>2, <2>1 DEF ReadPrev, TypeOK
  <2>5. QED
    BY <2>1, <2>2, <2>3, <2>4 DEF SingleInv, Quiet, VerifyChain, LastHash
<1>3. ASSUME NEW l \in Log, Insert(l) PROVE SingleInv'
  <2>1. UNCHANGED <<durable, prev, cache>> /\ stage[l] = "insert"
    BY <1>3 DEF Insert, Write, history
  <2>2. l \in appenders' /\ \A k \in Log \ {l} : Quiet(k)
    BY <1>0, <1>3, <2>1, OthersQuiet DEF Insert, Quiet, history
  <2>3. Others(l)
    BY <1>3, <2>1, <2>2 DEF Insert, Quiet, TypeOK
  <2>4. QED
    BY <2>1, <2>2, <2>3 DEF SingleInv, Quiet, VerifyChain, LastHash
<1>4. ASSUME NEW l \in Log, CommitAppend(l) PROVE SingleInv'
  <2> DEFINE e == [prev |-> LastHash(durable), hash |-> drawn]
  <2>1. holder = l /\ stage[l] = "commit" /\ durable' = working
    BY <1>4 DEF CommitAppend, Commit
  <2>2. prev[l] = LastHash(durable) /\ working = Append(durable, e) /\ drawn # Genesis
    BY <2>1 DEF SingleInv, SharedInv, Inserted
  <2>3. e \in Entry /\ durable \in Seq(Entry)
    BY <2>2, LastHashTyped DEF TypeOK, Entry, Hash
  <2>4. /\ Len(durable') = Len(durable) + 1
        /\ \A i \in 1 .. Len(durable) : durable'[i] = durable[i]
        /\ durable'[Len(durable) + 1] = e
        /\ LastHash(durable') = drawn
    BY <2>1, <2>2, <2>3, AppendFacts
  <2>5. Len(durable) \in Nat
    BY <2>3
  <2>6. VerifyChain(durable')
    <3> SUFFICES ASSUME NEW i \in 1 .. Len(durable')
                 PROVE  durable'[i].prev = IF i = 1 THEN Genesis ELSE durable'[i-1].hash
      BY DEF VerifyChain
    <3>1. CASE i \in 1 .. Len(durable)
      <4>1. durable'[i] = durable[i] /\ (i # 1 => durable'[i-1] = durable[i-1])
        BY <3>1, <2>4, <2>5
      <4>2. QED
        BY <3>1, <4>1 DEF SingleInv, VerifyChain
    <3>2. CASE i = Len(durable) + 1
      <4>1. CASE Len(durable) = 0
        BY <3>2, <4>1, <2>3, <2>4 DEF LastHash
      <4>2. CASE Len(durable) # 0
        <5>1. durable # <<>> /\ durable'[i-1] = durable[Len(durable)]
          BY <3>2, <4>2, <2>4, <2>5
        <5>2. QED
          BY <3>2, <4>2, <5>1, <2>4, <2>5 DEF LastHash
      <4>3. QED
        BY <4>1, <4>2
    <3>3. QED
      BY <3>1, <3>2, <2>4, <2>5
  <2>7. cache'[l] = Unknown \/ cache'[l] = drawn
    BY <1>4 DEF CommitAppend, Forgotten, TypeOK
  <2>8. stage'[l] = "idle"
    BY <1>4 DEF CommitAppend, TypeOK
  <2>9. l \in appenders' /\ \A k \in Log \ {l} : Quiet(k)
    BY <1>0, <1>4, <2>1, OthersQuiet DEF CommitAppend, Quiet
  <2>10. Others(l)
    BY <1>4, <2>9 DEF CommitAppend, Quiet, TypeOK
  <2>11. \A k \in Log : cache'[k] # Unknown => cache'[k] = LastHash(durable')
    BY <2>4, <2>7, <2>10 DEF Quiet
  <2>12. QED
    BY <2>6, <2>8, <2>9, <2>10, <2>11 DEF SingleInv, Quiet
<1>5. ASSUME NEW l \in Log, FailRead(l) \/ FailAppend(l) PROVE SingleInv'
  <2>1. durable' = durable /\ stage'[l] = "idle" /\ stage[l] # "idle"
    BY <1>5 DEF FailRead, FailAppend, connection, Rollback, TypeOK
  <2>2. cache'[l] = Unknown \/ cache'[l] = cache[l]
    BY <1>5 DEF FailRead, FailAppend, Forgotten, TypeOK
  <2>3. l \in appenders' /\ \A k \in Log \ {l} : Quiet(k)
    BY <1>0, <1>5, <2>1, OthersQuiet DEF FailRead, FailAppend, Quiet, history
  <2>4. Others(l)
    BY <1>5, <2>3 DEF FailRead, FailAppend, Quiet, TypeOK
  <2>5. QED
    BY <2>1, <2>2, <2>3, <2>4 DEF SingleInv, Quiet, VerifyChain, LastHash
<1>6. CASE ForeignEnd
  <2>1. holder = Nobody /\ UNCHANGED <<logVars, appenders>>
    BY <1>6 DEF ForeignEnd
  <2>2. durable' = durable
    BY <1>6, <2>1 DEF SharedInv, ForeignEnd, Commit, Rollback
  <2>3. QED
    BY <2>1, <2>2 DEF logVars, SingleInv, Quiet, VerifyChain, LastHash
<1>7. CASE Restart
  <2>1. /\ durable' = durable /\ appenders' = appenders
        /\ \A k \in Log : stage'[k] = "idle" /\ cache'[k] = Unknown
    BY <1>7 DEF Restart, Rollback, history
  <2>2. QED
    BY <2>1 DEF SingleInv, Quiet, VerifyChain
<1>8. CASE Done \/ UNCHANGED vars
  <2>1. UNCHANGED vars
    BY <1>8 DEF Done
  <2>2. QED
    BY <2>1 DEF vars, logVars, history, connection, SingleInv, Quiet, VerifyChain, LastHash
<1>9. QED
  BY <1>1, <1>2, <1>3, <1>4, <1>5, <1>6, <1>7, <1>8 DEF Next

LEMMA OneAppenderSoFar == [Next]_vars /\ OneAppender' => OneAppender
BY DEF OneAppender, Next, Begin, ReadPrev, Insert, CommitAppend, FailRead, FailAppend,
       ForeignEnd, Restart, Done, vars, history

\* A single AuditLog object keeps a chain that verify_chain accepts, whatever fails
\* or crashes while it appends.
THEOREM ChainVerifies == Spec => []ChainIntactOfOne
<1> DEFINE Inv == ~cut /\ OneAppender => SingleInv
<1>1. Init => Inv
  BY SingleInit
<1>2. TypeOK /\ (~cut => SharedInv) /\ Inv /\ [Next]_vars => Inv'
  BY SingleStep, CutForGood, OneAppenderSoFar
<1>3. Inv => ChainIntactOfOne
  BY DEF SingleInv, ChainIntactOfOne, ChainIntact, OneAppender
<1>4. QED
  BY <1>1, <1>2, <1>3, SharedInvariant, AuditTyping, PTL DEF Spec
-----------------------------------------------------------------------------
(***************************************************************************)
(* The working table only ever extends the one on disk.                    *)
(***************************************************************************)
Extends(rows, more) == \A i \in DOMAIN rows : i \in DOMAIN more /\ more[i] = rows[i]

WorkingExtends == Extends(durable, working)

LEMMA ExtendsAppend ==
    ASSUME NEW s \in Seq(Entry), NEW t \in Seq(Entry), NEW e \in Entry, Extends(s, t)
    PROVE  Extends(s, Append(t, e))
BY DEF Extends

LEMMA ExtendsStep ==
    TypeOK /\ WorkingExtends /\ [Next]_vars => WorkingExtends' /\ Extends(durable, durable')
<1> SUFFICES ASSUME TypeOK, WorkingExtends, [Next]_vars
             PROVE  WorkingExtends' /\ Extends(durable, durable')
  OBVIOUS
<1>1. Extends(durable, durable) /\ Extends(working, working)
  BY DEF Extends
<1>2. CASE UNCHANGED connection
  BY <1>1, <1>2 DEF WorkingExtends, Extends, connection
<1>3. CASE Commit
  BY <1>1, <1>3 DEF WorkingExtends, Extends, Commit
<1>4. CASE Rollback
  BY <1>1, <1>4 DEF WorkingExtends, Extends, Rollback
<1>5. ASSUME NEW l \in Log, Insert(l) PROVE WorkingExtends' /\ Extends(durable, durable')
  <2> DEFINE e == [prev |-> prev[l], hash |-> drawn']
  <2>1. working' = Append(working, e) /\ durable' = durable
    BY <1>5 DEF Insert, Write
  <2>2. Extends(durable, Append(working, e))
    BY <1>5, NextEntryTyped, ExtendsAppend DEF WorkingExtends, TypeOK
  <2>3. QED
    BY <1>1, <2>1, <2>2 DEF WorkingExtends
<1>6. \/ UNCHANGED connection \/ Commit \/ Rollback
      \/ \E l \in Log : Insert(l)
  BY DEF Next, Begin, ReadPrev, CommitAppend, FailRead, FailAppend, ForeignEnd,
         Restart, Done, vars
<1>7. QED
  BY <1>2, <1>3, <1>4, <1>5, <1>6

\* A row on disk never changes, moves or goes, whoever shares the connection.
THEOREM AppendOnly == Spec => RowsNeverChange
<1>1. Init => WorkingExtends
  BY DEF Init, WorkingExtends, Extends
<1>2. TypeOK /\ WorkingExtends /\ [Next]_vars =>
        [\A i \in DOMAIN durable : i \in DOMAIN durable' /\ durable'[i] = durable[i]]_vars
  BY ExtendsStep DEF Extends
<1>3. QED
  BY <1>1, <1>2, ExtendsStep, AuditTyping, PTL DEF Spec, RowsNeverChange
=============================================================================
