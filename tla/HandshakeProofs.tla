-------------------------- MODULE HandshakeProofs --------------------------
(* What TLAPS proves of Handshake, for any sets of storages and calls and   *)
(* any limits and times.                                                    *)
EXTENDS Handshake, FiniteSetTheorems, TLAPS

----------------------------------------------------------------------------
(* Type correctness.                                                        *)

\* The database's clock reads a whole number, and no step but a tick moves it.
LEMMA ClockType == TypeOK => NOW \in Int
BY SkewAssumption DEF TypeOK, NOW

LEMMA ClockStep ==
  ASSUME TypeOK, now' = now \/ now' = now + 1
  PROVE  NOW' \in Int /\ NOW <= NOW' /\ (now' = now => NOW' = NOW)
BY SkewAssumption DEF TypeOK, NOW

\* A call record keeps its type when the lookup sets its storage.
LEMMA CallWithStorage ==
  ASSUME NEW c \in Call, NEW s \in Storage, NEW d, d = [c EXCEPT !.storage = s]
  PROVE  d \in Call /\ d.storage = s
BY DEF Call

\* A handshake's transaction leaves rows of their types in both tables.
LEMMA CommitTypes ==
  ASSUME TypeOK, NEW h \in Handshakes, CommitHandshake(h)
  PROVE  /\ verifyKeys' \in SUBSET VerifyKeyRow /\ lastKey' \in Nat
         /\ sessions' \in SUBSET SessionRow /\ lastSession' \in Nat
<1> PICK k \in 1..(lastKey + 1), x \in 1..(lastSession + 1) :
      /\ ReuseVerifyKey(h, k) \/ IssueVerifyKey(h, k)
      /\ ReuseSession(h, x) \/ IssueSession(h, x)
  BY DEF CommitHandshake
<1>t. call[h].storage \in Storage /\ call[h].expiresAt \in Nat /\ NOW \in Int
  BY ClockType DEF TypeOK, Call, CommitHandshake
<1>1. verifyKeys' \in SUBSET VerifyKeyRow /\ lastKey' \in Nat
  <2>1. CASE ReuseVerifyKey(h, k)
    BY <2>1 DEF ReuseVerifyKey, TypeOK
  <2>2. CASE IssueVerifyKey(h, k)
    <3> DEFINE new == [storage |-> call[h].storage, key |-> k, createdAt |-> NOW]
    <3>1. new \in VerifyKeyRow /\ lastKey' \in Nat
      BY <1>t, <2>2 DEF IssueVerifyKey, VerifyKeyRow, TypeOK
    <3>2. verifyKeys' \subseteq verifyKeys \cup {new}
      BY <2>2 DEF IssueVerifyKey, DeleteOthers
    <3> QED BY <3>1, <3>2 DEF TypeOK
  <2> QED BY <2>1, <2>2
<1>2. sessions' \in SUBSET SessionRow /\ lastSession' \in Nat
  <2>1. CASE ReuseSession(h, x)
    BY <2>1 DEF ReuseSession, TypeOK
  <2>2. CASE IssueSession(h, x)
    <3> DEFINE new == [storage |-> call[h].storage, key |-> x, createdAt |-> NOW,
                       expiresAt |-> call[h].expiresAt]
    <3>1. new \in SessionRow /\ lastSession' \in Nat
      BY <1>t, <2>2 DEF IssueSession, SessionRow, TypeOK
    <3>2. sessions' \subseteq sessions \cup {new}
      BY <2>2 DEF IssueSession, DeleteOthers
    <3> QED BY <3>1, <3>2 DEF TypeOK
  <2> QED BY <2>1, <2>2
<1> QED BY <1>1, <1>2

LEMMA TypeInit == Init => TypeOK
BY TimesAssumption DEF Init, TypeOK, Steps, RegSteps

LEMMA TypeStep == TypeOK /\ [Next]_vars => TypeOK'
<1> SUFFICES ASSUME TypeOK, [Next]_vars PROVE TypeOK'
  OBVIOUS
<1> USE DEF TypeOK, Steps, RegSteps
<1>1. ASSUME NEW h \in Handshakes, NEW c \in Corporates, NEW k \in 0..lastKey,
             NEW u \in Urls, BeginHandshake(h, c, k, u)
      PROVE  TypeOK'
  <2>1. call'[h] \in Call
    BY <1>1, TimesAssumption DEF BeginHandshake, Call
  <2> QED BY <1>1, <2>1 DEF BeginHandshake
<1>2. ASSUME NEW h \in Handshakes, FindVerifyKey(h) PROVE TypeOK'
  <2> PICK r \in verifyKeys : call' = [call EXCEPT ![h].storage = r.storage]
    BY <1>2 DEF FindVerifyKey, Presented
  <2>1. r.storage \in Storage
    BY DEF VerifyKeyRow
  <2>2. call'[h] \in Call /\ call'[h].storage \in Storage
    <3>1. call[h] \in Call /\ call'[h] = [call[h] EXCEPT !.storage = r.storage]
      BY <1>2 DEF FindVerifyKey
    <3> QED BY <2>1, <3>1, CallWithStorage
  <2> QED BY <1>2, <2>2 DEF FindVerifyKey
<1>3. ASSUME NEW h \in Handshakes, AbortHandshake(h) PROVE TypeOK'
  BY <1>3 DEF AbortHandshake
<1>4. ASSUME NEW h \in Handshakes, RefuseHandshake(h) PROVE TypeOK'
  BY <1>4 DEF RefuseHandshake
<1>5. ASSUME NEW h \in Handshakes, UpdateUrl(h) PROVE TypeOK'
  BY <1>5 DEF UpdateUrl, Call
<1>6. ASSUME NEW h \in Handshakes, LockVerifyKeys(h) PROVE TypeOK'
  <2>1. /\ RowsOf(verifyKeys, call[h].storage) \in SUBSET VerifyKeyRow
        /\ RowsOf(sessions, call[h].storage) \in SUBSET SessionRow
    BY DEF RowsOf
  <2>2. call'[h] \in Call /\ call'[h].storage \in Storage
    <3>1. /\ call[h] \in Call /\ call[h].storage \in Storage
          /\ call'[h] = [call[h] EXCEPT
               !.keysRead = RowsOf(verifyKeys, call[h].storage),
               !.sessionsRead = RowsOf(sessions, call[h].storage)]
      BY <1>6 DEF LockVerifyKeys
    <3> QED BY <2>1, <3>1 DEF Call
  <2> QED BY <1>6, <2>2 DEF LockVerifyKeys
<1>7. ASSUME NEW h \in Handshakes, CommitHandshake(h) PROVE TypeOK'
  <2>1. call'[h] \in Call /\ call'[h].storage \in Storage
    <3> PICK k \in 1..(lastKey + 1), x \in 1..(lastSession + 1) :
          call' = [call EXCEPT ![h].newVerifyKey = k, ![h].newSessionKey = x]
      BY <1>7 DEF CommitHandshake
    <3>1. k \in Nat /\ x \in Nat
      OBVIOUS
    <3>2. /\ call[h] \in Call /\ call[h].storage \in Storage
          /\ call'[h] = [call[h] EXCEPT !.newVerifyKey = k, !.newSessionKey = x]
      BY <1>7 DEF CommitHandshake
    <3> QED BY <3>1, <3>2 DEF Call
  <2> QED BY <1>7, <2>1, CommitTypes DEF CommitHandshake
<1>8. ASSUME NEW h \in Handshakes, Answer(h) PROVE TypeOK'
  BY <1>8 DEF Answer
<1>9. ASSUME NEW p \in Registrations, NEW s \in Storage, UpsertBackupStorage(p, s)
      PROVE  TypeOK'
  BY <1>9 DEF UpsertBackupStorage
<1>10. ASSUME NEW p \in Registrations, ClearVerifyKeys(p) PROVE TypeOK'
  BY <1>10 DEF ClearVerifyKeys
<1>11. ASSUME NEW p \in Registrations, SaveVerifyKey(p) PROVE TypeOK'
  BY <1>11, ClockType DEF SaveVerifyKey, VerifyKeyRow
<1>12. ASSUME NEW p \in Registrations, EmitEmail(p) PROVE TypeOK'
  BY <1>12 DEF EmitEmail
<1>13. ASSUME NEW p \in Registrations, FailRegistration(p) PROVE TypeOK'
  BY <1>13 DEF FailRegistration
<1>14. CASE Crash
  BY <1>14 DEF Crash
<1>15. CASE Tick
  BY <1>15 DEF Tick
<1>16. CASE UNCHANGED vars
  BY <1>16 DEF vars
<1> QED
  BY <1>1, <1>2, <1>3, <1>4, <1>5, <1>6, <1>7, <1>8, <1>9, <1>10, <1>11,
     <1>12, <1>13, <1>14, <1>15, <1>16
  DEF Next, ServeHandshake, ServeRegistration, DeadlockVictim, FailHandshake

\* Every table and every call in progress keeps its type (TypeOK).
THEOREM TypeCorrect == Spec => []TypeOK
BY TypeInit, TypeStep, PTL DEF Spec

----------------------------------------------------------------------------
(* What the lock protects.                                                  *)

\* A commit leaves the other storages' rows alone.
LEMMA CommitOwnStorage ==
  ASSUME TypeOK, NEW h \in Handshakes, CommitHandshake(h),
         NEW s, s # call[h].storage
  PROVE  /\ RowsOf(verifyKeys, s)' = RowsOf(verifyKeys, s)
         /\ RowsOf(sessions, s)' = RowsOf(sessions, s)
<1> PICK k \in 1..(lastKey + 1), x \in 1..(lastSession + 1) :
      /\ ReuseVerifyKey(h, k) \/ IssueVerifyKey(h, k)
      /\ ReuseSession(h, x) \/ IssueSession(h, x)
  BY DEF CommitHandshake
<1>1. RowsOf(verifyKeys, s)' = RowsOf(verifyKeys, s)
  BY DEF ReuseVerifyKey, IssueVerifyKey, DeleteOthers, RowsOf
<1>2. RowsOf(sessions, s)' = RowsOf(sessions, s)
  BY DEF ReuseSession, IssueSession, DeleteOthers, RowsOf
<1> QED BY <1>1, <1>2

\* While a transaction is committing, no other is open on its storage: of two
\* that lock an empty set of rows neither can reuse a key, and neither insert.
LEMMA CommitIsAlone ==
  ASSUME TypeOK, LockProtects, NEW h \in Handshakes, CommitHandshake(h),
         NEW g \in Handshakes, g # h, pc[g] = "write"
  PROVE  call[g].storage # call[h].storage
<1> SUFFICES ASSUME call[g].storage = call[h].storage PROVE FALSE
  OBVIOUS
<1> PICK k \in 1..(lastKey + 1) : ReuseVerifyKey(h, k) \/ IssueVerifyKey(h, k)
  BY DEF CommitHandshake
<1>1. pc[h] = "write" /\ call[h].keysRead = {}
  BY DEF CommitHandshake, LockProtects, LockExcludes
<1>2. ~ReuseVerifyKey(h, k)
  BY <1>1 DEF ReuseVerifyKey, Latest
<1>3. ~IssueVerifyKey(h, k)
  BY DEF IssueVerifyKey, MayInsert, Holders
<1> QED BY <1>2, <1>3

LEMMA LockInit == Init => LockProtects
BY DEF Init, LockProtects, SnapshotIsCurrent, LockExcludes

\* A step that leaves the tables alone and opens no transaction.
LEMMA LockQuietStep ==
  ASSUME LockProtects, UNCHANGED <<verifyKeys, sessions>>,
         \A h \in Handshakes : pc'[h] = "write" => pc[h] = "write" /\ call'[h] = call[h]
  PROVE  LockProtects'
BY DEF LockProtects, SnapshotIsCurrent, LockExcludes, RowsOf

\* A step of a registration that changes verify keys only where no open
\* transaction has read any.
LEMMA LockRegistrationStep ==
  ASSUME LockProtects, UNCHANGED <<sessions, pc, call>>,
         \A h \in Handshakes :
           pc[h] = "write" =>
             RowsOf(verifyKeys', call[h].storage) = RowsOf(verifyKeys, call[h].storage)
  PROVE  LockProtects'
BY DEF LockProtects, SnapshotIsCurrent, LockExcludes, RowsOf

LEMMA LockStep == TypeOK /\ LockProtects /\ [Next]_vars => LockProtects'
<1> SUFFICES ASSUME TypeOK, LockProtects, [Next]_vars PROVE LockProtects'
  OBVIOUS
<1>pc. pc \in [Handshakes -> Steps] /\ call \in [Handshakes -> Call \cup {NoCall}]
  BY DEF TypeOK
<1>1. ASSUME NEW h \in Handshakes, LockVerifyKeys(h) PROVE LockProtects'
  <2> DEFINE s == call[h].storage
  <2>1. /\ pc'[h] = "write" /\ call'[h].storage = s
        /\ call'[h].keysRead = RowsOf(verifyKeys, s)
        /\ call'[h].sessionsRead = RowsOf(sessions, s)
    BY <1>1, <1>pc DEF LockVerifyKeys, TypeOK, Call
  <2>2. \A g \in Handshakes : g # h => pc'[g] = pc[g] /\ call'[g] = call[g]
    BY <1>1, <1>pc DEF LockVerifyKeys
  <2>3. verifyKeys' = verifyKeys /\ sessions' = sessions
    BY <1>1 DEF LockVerifyKeys
  <2>4. SnapshotIsCurrent'
    BY <2>1, <2>2, <2>3 DEF LockProtects, SnapshotIsCurrent, RowsOf
  <2>5. \A g \in Handshakes : g # h /\ pc[g] = "write" /\ call[g].storage = s =>
          RowsOf(verifyKeys, s) = {} /\ call[g].keysRead = {}
    BY <1>1 DEF LockVerifyKeys, MayLock, Holders, LockProtects, SnapshotIsCurrent
  <2>6. LockExcludes'
    BY <2>1, <2>2, <2>3, <2>5 DEF LockProtects, LockExcludes
  <2> QED BY <2>4, <2>6 DEF LockProtects
<1>2. ASSUME NEW h \in Handshakes, CommitHandshake(h) PROVE LockProtects'
  <2>1. \A g \in Handshakes : pc'[g] = "write" =>
          g # h /\ pc[g] = "write" /\ call'[g] = call[g]
    BY <1>2, <1>pc DEF CommitHandshake
  <2>2. \A g \in Handshakes : pc'[g] = "write" =>
          /\ RowsOf(verifyKeys', call[g].storage) = RowsOf(verifyKeys, call[g].storage)
          /\ RowsOf(sessions', call[g].storage) = RowsOf(sessions, call[g].storage)
    BY <1>2, <2>1, CommitIsAlone, CommitOwnStorage DEF RowsOf
  <2>3. SnapshotIsCurrent'
    BY <2>1, <2>2 DEF LockProtects, SnapshotIsCurrent, RowsOf
  <2>4. LockExcludes'
    BY <2>1 DEF LockProtects, LockExcludes
  <2> QED BY <2>3, <2>4 DEF LockProtects
<1>3. ASSUME NEW p \in Registrations, ClearVerifyKeys(p) PROVE LockProtects'
  <2>1. \A h \in Handshakes : pc[h] = "write" =>
          RowsOf(verifyKeys', call[h].storage) = RowsOf(verifyKeys, call[h].storage)
    BY <1>3 DEF ClearVerifyKeys, MayLock, Holders, RowsOf
  <2> QED BY <1>3, <2>1, LockRegistrationStep DEF ClearVerifyKeys
<1>4. ASSUME NEW p \in Registrations, SaveVerifyKey(p) PROVE LockProtects'
  <2>1. \A h \in Handshakes : pc[h] = "write" =>
          RowsOf(verifyKeys', call[h].storage) = RowsOf(verifyKeys, call[h].storage)
    BY <1>4 DEF SaveVerifyKey, Holders, RowsOf
  <2> QED BY <1>4, <2>1, LockRegistrationStep DEF SaveVerifyKey
<1>5. ASSUME NEW h \in Handshakes,
             \/ \E c \in Corporates, k \in 0..lastKey, u \in Urls : BeginHandshake(h, c, k, u)
             \/ FindVerifyKey(h) \/ RefuseHandshake(h) \/ UpdateUrl(h)
             \/ Answer(h) \/ AbortHandshake(h)
      PROVE  LockProtects'
  BY <1>5, <1>pc, LockQuietStep
  DEF BeginHandshake, FindVerifyKey, RefuseHandshake, UpdateUrl, Answer, AbortHandshake
<1>6. ASSUME NEW p \in Registrations,
             \/ \E s \in Storage : UpsertBackupStorage(p, s)
             \/ EmitEmail(p) \/ FailRegistration(p)
      PROVE  LockProtects'
  BY <1>6, LockQuietStep DEF UpsertBackupStorage, EmitEmail, FailRegistration
<1>7. CASE Crash
  BY <1>7, LockQuietStep DEF Crash
<1>8. CASE Tick \/ UNCHANGED vars
  BY <1>8, LockQuietStep DEF Tick, vars
<1> QED
  BY <1>1, <1>2, <1>3, <1>4, <1>5, <1>6, <1>7, <1>8
  DEF Next, ServeHandshake, ServeRegistration, DeadlockVictim, FailHandshake

\* What a transaction has read under the lock is still the truth when it
\* writes (LockProtects), however many calls are in progress.
THEOREM LockIsEnough == Spec => []LockProtects
BY TypeInit, TypeStep, LockInit, LockStep, PTL DEF Spec

----------------------------------------------------------------------------
(* The limits.                                                              *)

\* The rows kept beside a new one: one fewer than the limit when any is
\* dropped, and each of them created no earlier than those dropped.
LEMMA KeptByLimit ==
  ASSUME NEW rows, IsFiniteSet(rows), NEW limit \in Nat \ {0}, NEW column,
         NEW kept \in KeptRows(rows, limit, column)
  PROVE  /\ kept \subseteq rows /\ IsFiniteSet(kept)
         /\ Cardinality(kept) \in Nat /\ Cardinality(kept) <= limit - 1
         /\ kept # rows => Cardinality(kept) = limit - 1
<1>1. kept \subseteq rows /\ Cardinality(kept) <= limit - 1
      /\ (kept # rows => Cardinality(kept) = limit - 1)
  BY DEF KeptRows, Top
<1>2. IsFiniteSet(kept) /\ Cardinality(kept) \in Nat
  BY <1>1, FS_Subset, FS_CardinalityType
<1> QED BY <1>1, <1>2

LEMMA OneMore ==
  ASSUME NEW kept, IsFiniteSet(kept), NEW new
  PROVE  /\ IsFiniteSet(kept \cup {new}) /\ Cardinality(kept \cup {new}) \in Nat
         /\ Cardinality(kept \cup {new}) <= Cardinality(kept) + 1
         /\ new \notin kept => Cardinality(kept \cup {new}) = Cardinality(kept) + 1
<1>1. Cardinality(kept) \in Nat
  BY FS_CardinalityType
<1> QED BY <1>1, FS_AddElement

LEMMA PastInit == Init => RowsArePast
BY FS_EmptySet DEF Init, RowsArePast

\* A table to which a step adds at most one row, which it creates now.
LEMMA PastRows ==
  ASSUME NEW table, IsFiniteSet(table), NEW after, NEW new,
         after \subseteq table \cup {new}
  PROVE  IsFiniteSet(after)
<1>1. IsFiniteSet(table \cup {new})
  BY FS_AddElement
<1> QED BY <1>1, FS_Subset

LEMMA PastStep == TypeOK /\ RowsArePast /\ [Next]_vars => RowsArePast'
<1> SUFFICES ASSUME TypeOK, RowsArePast, [Next]_vars PROVE RowsArePast'
  OBVIOUS
<1>t. /\ now \in Nat /\ NOW \in Int /\ lastKey \in Nat /\ lastSession \in Nat
      /\ \A r \in verifyKeys : r.key \in Nat /\ r.createdAt \in Int
      /\ \A r \in sessions : r.key \in Nat /\ r.createdAt \in Int
  BY ClockType DEF TypeOK, VerifyKeyRow, SessionRow
<1>1. ASSUME NEW h \in Handshakes, CommitHandshake(h) PROVE RowsArePast'
  <2> PICK k \in 1..(lastKey + 1), x \in 1..(lastSession + 1) :
        /\ ReuseVerifyKey(h, k) \/ IssueVerifyKey(h, k)
        /\ ReuseSession(h, x) \/ IssueSession(h, x)
    BY <1>1 DEF CommitHandshake
  <2>n. NOW' = NOW
    BY <1>1, ClockStep DEF CommitHandshake
  <2>1. /\ IsFiniteSet(verifyKeys')
        /\ \A r \in verifyKeys' : r.key <= lastKey' /\ r.createdAt <= NOW
    <3>1. CASE ReuseVerifyKey(h, k)
      BY <3>1 DEF ReuseVerifyKey, RowsArePast
    <3>2. CASE IssueVerifyKey(h, k)
      <4> DEFINE new == [storage |-> call[h].storage, key |-> k, createdAt |-> NOW]
      <4>1. verifyKeys' \subseteq verifyKeys \cup {new} /\ lastKey' = lastKey + 1 /\ k = lastKey'
        BY <3>2 DEF IssueVerifyKey, DeleteOthers
      <4>2. IsFiniteSet(verifyKeys')
        BY <4>1, PastRows DEF RowsArePast
      <4>3. \A r \in verifyKeys' : r.key <= lastKey' /\ r.createdAt <= NOW
        BY <4>1, <1>t DEF RowsArePast
      <4> QED BY <4>2, <4>3
    <3> QED BY <3>1, <3>2
  <2>2. /\ IsFiniteSet(sessions')
        /\ \A r \in sessions' : r.key <= lastSession' /\ r.createdAt <= NOW
    <3>1. CASE ReuseSession(h, x)
      BY <3>1 DEF ReuseSession, RowsArePast
    <3>2. CASE IssueSession(h, x)
      <4> DEFINE new == [storage |-> call[h].storage, key |-> x, createdAt |-> NOW,
                         expiresAt |-> call[h].expiresAt]
      <4>1. sessions' \subseteq sessions \cup {new} /\ lastSession' = lastSession + 1 /\ x = lastSession'
        BY <3>2 DEF IssueSession, DeleteOthers
      <4>2. IsFiniteSet(sessions')
        BY <4>1, PastRows DEF RowsArePast
      <4>3. \A r \in sessions' : r.key <= lastSession' /\ r.createdAt <= NOW
        BY <4>1, <1>t DEF RowsArePast
      <4> QED BY <4>2, <4>3
    <3> QED BY <3>1, <3>2
  <2> QED BY <2>1, <2>2, <2>n DEF RowsArePast
<1>2. ASSUME NEW p \in Registrations, ClearVerifyKeys(p) PROVE RowsArePast'
  <2>1. verifyKeys' \subseteq verifyKeys
    BY <1>2 DEF ClearVerifyKeys
  <2>2. NOW' = NOW
    BY <1>2, ClockStep DEF ClearVerifyKeys
  <2> QED BY <1>2, <2>1, <2>2, FS_Subset DEF ClearVerifyKeys, RowsArePast
<1>3. ASSUME NEW p \in Registrations, SaveVerifyKey(p) PROVE RowsArePast'
  <2> DEFINE new == [storage |-> reg[p].storage, key |-> lastKey + 1, createdAt |-> NOW]
  <2>1. verifyKeys' = verifyKeys \cup {new} /\ lastKey' = lastKey + 1
        /\ UNCHANGED <<sessions, lastSession>> /\ NOW' = NOW
    BY <1>3, ClockStep DEF SaveVerifyKey
  <2>2. IsFiniteSet(verifyKeys')
    BY <2>1, PastRows DEF RowsArePast
  <2>3. \A r \in verifyKeys' : r.key <= lastKey' /\ r.createdAt <= NOW
    BY <2>1, <1>t DEF RowsArePast
  <2> QED BY <2>1, <2>2, <2>3 DEF RowsArePast
<1>4. CASE UNCHANGED <<verifyKeys, sessions, lastKey, lastSession, now>>
  BY <1>4, ClockStep DEF RowsArePast
<1>5. CASE Tick
  <2>1. NOW' \in Int /\ NOW <= NOW'
    BY <1>5, ClockStep DEF Tick
  <2> QED BY <1>5, <1>t, <2>1 DEF Tick, RowsArePast
<1> QED
  BY <1>1, <1>2, <1>3, <1>4, <1>5
  DEF Next, ServeHandshake, ServeRegistration, vars, BeginHandshake, FindVerifyKey, RefuseHandshake, UpdateUrl,
      LockVerifyKeys, Answer, DeadlockVictim, FailHandshake, AbortHandshake,
      UpsertBackupStorage, EmitEmail, FailRegistration, Crash

LEMMA LimitInit == Init => SessionLimit
<1> SUFFICES ASSUME Init, NEW s \in Storage
             PROVE  Cardinality(RowsOf(sessions, s)) <= MAX_NUMBER_OF_ACTIVE_SESSIONS
  BY DEF SessionLimit
<1>1. RowsOf(sessions, s) = {}
  BY DEF Init, RowsOf
<1> QED BY <1>1, FS_EmptySet, LimitsAssumption

\* Only a commit that issues a session adds one; it then leaves the rows it
\* kept of those it had read, which are all there were, and the new one.
LEMMA LimitStep ==
  TypeOK /\ RowsArePast /\ LockProtects /\ SessionLimit /\ [Next]_vars => SessionLimit'
<1> SUFFICES ASSUME TypeOK, RowsArePast, LockProtects, SessionLimit, [Next]_vars,
                    NEW s \in Storage
             PROVE  Cardinality(RowsOf(sessions', s)) <= MAX_NUMBER_OF_ACTIVE_SESSIONS
  BY DEF SessionLimit, RowsOf
<1>0. Cardinality(RowsOf(sessions, s)) <= MAX_NUMBER_OF_ACTIVE_SESSIONS
  BY DEF SessionLimit
<1>1. ASSUME NEW h \in Handshakes, CommitHandshake(h)
      PROVE  Cardinality(RowsOf(sessions', s)) <= MAX_NUMBER_OF_ACTIVE_SESSIONS
  <2>1. CASE s # call[h].storage
    BY <1>0, <1>1, <2>1, CommitOwnStorage DEF RowsOf
  <2>2. CASE s = call[h].storage
    <3> PICK x \in 1..(lastSession + 1) : ReuseSession(h, x) \/ IssueSession(h, x)
      BY <1>1 DEF CommitHandshake
    <3>1. CASE ReuseSession(h, x)
      BY <1>0, <3>1 DEF ReuseSession
    <3>2. CASE IssueSession(h, x)
      <4> DEFINE read == call[h].sessionsRead
                 new == [storage |-> s, key |-> x, createdAt |-> NOW,
                         expiresAt |-> call[h].expiresAt]
      <4>1. read = RowsOf(sessions, s)
        BY <1>1, <2>2 DEF CommitHandshake, LockProtects, SnapshotIsCurrent
      <4>2. IsFiniteSet(read)
        BY <4>1, FS_Subset DEF RowsOf, RowsArePast
      <4> PICK kept \in KeptRows(read, MAX_NUMBER_OF_ACTIVE_SESSIONS, "expiresAt") :
            sessions' = DeleteOthers(sessions, s, kept) \cup {new}
        BY <2>2, <3>2 DEF IssueSession
      <4>3. /\ kept \subseteq read /\ IsFiniteSet(kept) /\ Cardinality(kept) \in Nat
            /\ Cardinality(kept) <= MAX_NUMBER_OF_ACTIVE_SESSIONS - 1
        BY <4>2, KeptByLimit, LimitsAssumption
      <4>4. RowsOf(sessions', s) = kept \cup {new}
        BY <4>1, <4>3 DEF DeleteOthers, RowsOf
      <4> HIDE DEF new
      <4>5. /\ Cardinality(kept \cup {new}) \in Nat
            /\ Cardinality(kept \cup {new}) <= Cardinality(kept) + 1
        BY <4>3, OneMore
      <4>6. Cardinality(kept \cup {new}) <= MAX_NUMBER_OF_ACTIVE_SESSIONS
        BY <4>3, <4>5, LimitsAssumption
      <4> QED BY <4>4, <4>6, Zenon
    <3> QED BY <3>1, <3>2
  <2> QED BY <2>1, <2>2
<1>2. CASE UNCHANGED sessions
  BY <1>0, <1>2
<1> QED
  BY <1>1, <1>2
  DEF Next, ServeHandshake, ServeRegistration, vars, BeginHandshake, FindVerifyKey, RefuseHandshake, UpdateUrl,
      LockVerifyKeys, Answer, DeadlockVictim, FailHandshake, AbortHandshake,
      UpsertBackupStorage, ClearVerifyKeys, SaveVerifyKey, EmitEmail,
      FailRegistration, Crash, Tick

\* No storage ever has more than MAX_NUMBER_OF_ACTIVE_SESSIONS sessions
\* (SessionLimit), for any number of concurrent handshakes.
THEOREM SessionsAreLimited == Spec => []SessionLimit
BY TypeInit, TypeStep, LockInit, LockStep, PastInit, PastStep, LimitInit,
   LimitStep, PTL DEF Spec

LEMMA KeysStep ==
  TypeOK /\ RowsArePast /\ LockProtects /\ [Next]_vars => [KeepsRecentKeys]_vars
<1> SUFFICES ASSUME TypeOK, RowsArePast, LockProtects, [Next]_vars,
                    NEW r \in verifyKeys, r \notin verifyKeys'
             PROVE  \/ \E p \in Registrations : Clears(p) /\ reg[p].storage = r.storage
                    \/ Cardinality(Newer(verifyKeys', r)) >= REVOKE_VERIFY_KEY_AFTER
  BY DEF KeepsRecentKeys
<1>1. ASSUME NEW h \in Handshakes, CommitHandshake(h)
      PROVE  Cardinality(Newer(verifyKeys', r)) >= REVOKE_VERIFY_KEY_AFTER
  <2> DEFINE s == call[h].storage
             read == call[h].keysRead
  <2>1. PICK k \in 1..(lastKey + 1) : IssueVerifyKey(h, k)
    BY <1>1 DEF CommitHandshake, ReuseVerifyKey
  <2> DEFINE new == [storage |-> s, key |-> k, createdAt |-> NOW]
  <2>2. PICK kept \in KeptRows(read, REVOKE_VERIFY_KEY_AFTER, "createdAt") :
          verifyKeys' = DeleteOthers(verifyKeys, s, kept) \cup {new}
    BY <2>1 DEF IssueVerifyKey
  <2>3. read = RowsOf(verifyKeys, s) /\ IsFiniteSet(read)
    <3>1. read = RowsOf(verifyKeys, s)
      BY <1>1 DEF CommitHandshake, LockProtects, SnapshotIsCurrent
    <3> QED BY <3>1, FS_Subset DEF RowsOf, RowsArePast
  <2>4. /\ kept \subseteq read /\ IsFiniteSet(kept) /\ Cardinality(kept) \in Nat
        /\ kept # read => Cardinality(kept) = REVOKE_VERIFY_KEY_AFTER - 1
    BY <2>3, KeptByLimit, LimitsAssumption
  <2>5. r \in read \ kept
    BY <2>2, <2>3 DEF DeleteOthers, RowsOf
  <2>6. Cardinality(kept) = REVOKE_VERIFY_KEY_AFTER - 1
    BY <2>4, <2>5
  <2>7. new \notin kept
    <3>1. k = lastKey + 1 /\ new.key = k
      BY <2>1 DEF IssueVerifyKey
    <3>2. \A q \in kept : q.key <= lastKey /\ q.key \in Nat
      BY <2>3, <2>4 DEF RowsOf, RowsArePast, TypeOK, VerifyKeyRow
    <3> QED BY <3>1, <3>2 DEF TypeOK
  <2>8. kept \cup {new} \subseteq Newer(verifyKeys', r)
    <3>1. new \in Newer(verifyKeys', r)
      BY <2>2, <2>3, <2>5 DEF Newer, RowsOf, RowsArePast
    <3>2. ASSUME NEW q \in kept PROVE q \in Newer(verifyKeys', r)
      <4>1. Precedes(q, r, "createdAt")
        BY <2>5 DEF KeptRows, Top
      <4>2. q \in verifyKeys' /\ q.storage = r.storage /\ q # r
        BY <2>2, <2>3, <2>4, <2>5 DEF DeleteOthers, RowsOf
      <4>3. q.createdAt \in Int /\ r.createdAt \in Int
        BY <2>3, <2>4, <2>5 DEF TypeOK, VerifyKeyRow, RowsOf
      <4> QED BY <4>1, <4>2, <4>3 DEF Newer, Precedes
    <3> QED BY <3>1, <3>2
  <2> HIDE DEF new
  <2>9. IsFiniteSet(Newer(verifyKeys', r))
    <3>1. IsFiniteSet(verifyKeys')
      BY PastStep DEF RowsArePast
    <3> QED BY <3>1, FS_Subset DEF Newer
  <2>10. Cardinality(kept \cup {new}) = REVOKE_VERIFY_KEY_AFTER
    <3>1. Cardinality(kept \cup {new}) = Cardinality(kept) + 1
      BY <2>4, <2>7, OneMore
    <3> QED BY <3>1, <2>6, LimitsAssumption
  <2>11. /\ Cardinality(kept \cup {new}) <= Cardinality(Newer(verifyKeys', r))
         /\ Cardinality(Newer(verifyKeys', r)) \in Nat
    BY <2>8, <2>9, FS_Subset, FS_CardinalityType
  <2> QED BY <2>10, <2>11, LimitsAssumption
<1>2. ASSUME NEW p \in Registrations, ClearVerifyKeys(p)
      PROVE  Clears(p) /\ reg[p].storage = r.storage
  BY <1>2 DEF ClearVerifyKeys, Clears, RowsOf, TypeOK
<1>3. ASSUME verifyKeys \subseteq verifyKeys' PROVE FALSE
  BY <1>3
<1> QED
  BY <1>1, <1>2, <1>3
  DEF Next, ServeHandshake, ServeRegistration, vars, BeginHandshake, FindVerifyKey, RefuseHandshake, UpdateUrl,
      LockVerifyKeys, Answer, DeadlockVictim, FailHandshake, AbortHandshake,
      UpsertBackupStorage, SaveVerifyKey, EmitEmail, FailRegistration, Crash, Tick

\* A verify key goes only with a registration of its storage or when
\* REVOKE_VERIFY_KEY_AFTER keys as recent are stored (KeyRetention).
THEOREM KeysAreRetained == Spec => KeyRetention
BY TypeInit, TypeStep, LockInit, LockStep, PastInit, PastStep, KeysStep, PTL
DEF Spec, KeyRetention

----------------------------------------------------------------------------
(* A session has a url.                                                     *)

\* Nothing deletes a row of backup_storage or takes its url away; a call that
\* has found its storage found a row, and one past the update a url.
UrlsInOrder ==
  /\ SessionsHaveUrl
  /\ \A r \in verifyKeys : backupStorage[r.storage] # NoRow
  /\ \A p \in Registrations :
       regPc[p] \in {"clear", "save"} => backupStorage[reg[p].storage] # NoRow
  /\ \A h \in Handshakes :
       /\ pc[h] = "update" => backupStorage[call[h].storage] # NoRow
       /\ pc[h] \in {"lock", "write", "reply"} => backupStorage[call[h].storage] \in Urls

LEMMA UrlsInit == Init => UrlsInOrder
BY DEF Init, UrlsInOrder, SessionsHaveUrl

\* A step that starts no call that has found its storage, and adds no row to
\* another table, or only one of a storage that may have it.
LEMMA UrlsQuietStep ==
  ASSUME UrlsInOrder,
         \A s \in Storage :
           /\ backupStorage[s] # NoRow => backupStorage'[s] # NoRow
           /\ backupStorage[s] \in Urls => backupStorage'[s] \in Urls,
         TypeOK,
         \A r \in verifyKeys' : r \in verifyKeys \/ backupStorage'[r.storage] # NoRow,
         \A r \in sessions' : r \in sessions \/ backupStorage'[r.storage] \in Urls,
         \A p \in Registrations :
           regPc'[p] \in {"clear", "save"} =>
             \/ regPc[p] \in {"clear", "save"} /\ reg'[p] = reg[p]
             \/ backupStorage'[reg'[p].storage] # NoRow,
         \A h \in Handshakes :
           \/ pc'[h] \in {"idle", "lookup"}
           \/ pc'[h] = pc[h] /\ call'[h] = call[h]
           \/ pc'[h] = "update" /\ backupStorage'[call'[h].storage] # NoRow
           \/ backupStorage'[call'[h].storage] \in Urls
  PROVE  UrlsInOrder'
<1>t. /\ \A r \in verifyKeys : r.storage \in Storage
      /\ \A r \in sessions : r.storage \in Storage
      /\ \A p \in Registrations : regPc[p] # "idle" => reg[p].storage \in Storage
      /\ \A h \in Handshakes : pc[h] \notin {"idle", "lookup"} => call[h].storage \in Storage
  BY DEF TypeOK, VerifyKeyRow, SessionRow
<1>1. SessionsHaveUrl'
  BY <1>t DEF UrlsInOrder, SessionsHaveUrl
<1>2. \A r \in verifyKeys' : backupStorage'[r.storage] # NoRow
  BY <1>t DEF UrlsInOrder
<1>3. \A p \in Registrations :
        regPc'[p] \in {"clear", "save"} => backupStorage'[reg'[p].storage] # NoRow
  BY <1>t DEF UrlsInOrder
<1>4. \A h \in Handshakes :
        /\ pc'[h] = "update" => backupStorage'[call'[h].storage] # NoRow
        /\ pc'[h] \in {"lock", "write", "reply"} => backupStorage'[call'[h].storage] \in Urls
  BY <1>t, MarkersAssumption DEF UrlsInOrder
<1> QED BY <1>1, <1>2, <1>3, <1>4 DEF UrlsInOrder

LEMMA UrlsStep == TypeOK /\ UrlsInOrder /\ [Next]_vars => UrlsInOrder'
<1> SUFFICES ASSUME TypeOK, UrlsInOrder, [Next]_vars PROVE UrlsInOrder'
  OBVIOUS
<1>t. /\ backupStorage \in [Storage -> Urls \cup {NullUrl, NoRow}]
      /\ pc \in [Handshakes -> Steps] /\ call \in [Handshakes -> Call \cup {NoCall}]
      /\ regPc \in [Registrations -> RegSteps]
      /\ reg \in [Registrations -> [storage : Storage, key : Nat] \cup {NoCall}]
  BY DEF TypeOK
<1>1. ASSUME NEW h \in Handshakes,
             \/ \E c \in Corporates, k \in 0..lastKey, u \in Urls : BeginHandshake(h, c, k, u)
             \/ RefuseHandshake(h) \/ Answer(h) \/ AbortHandshake(h)
      PROVE  UrlsInOrder'
  BY <1>1, <1>t, UrlsQuietStep DEF BeginHandshake, RefuseHandshake, Answer, AbortHandshake
<1>2. ASSUME NEW h \in Handshakes, FindVerifyKey(h) PROVE UrlsInOrder'
  <2>1. PICK r \in verifyKeys : call' = [call EXCEPT ![h].storage = r.storage]
    BY <1>2 DEF FindVerifyKey, Presented
  <2>2. call[h] \in Call /\ call'[h] = [call[h] EXCEPT !.storage = r.storage]
    BY <1>2, <2>1, <1>t DEF FindVerifyKey, TypeOK
  <2>3. call'[h].storage = r.storage
    BY <2>2 DEF Call
  <2>4. backupStorage[call'[h].storage] # NoRow
    BY <2>3 DEF UrlsInOrder
  <2>5. /\ UNCHANGED <<backupStorage, verifyKeys, sessions, regPc, reg>>
        /\ pc'[h] = "update"
        /\ \A g \in Handshakes : g # h => pc'[g] = pc[g] /\ call'[g] = call[g]
    BY <1>2, <2>1, <1>t DEF FindVerifyKey
  <2> QED BY <2>4, <2>5, UrlsQuietStep
<1>3. ASSUME NEW h \in Handshakes, UpdateUrl(h) PROVE UrlsInOrder'
  <2>1. /\ call[h].storage \in Storage /\ call[h].url \in Urls
        /\ backupStorage[call[h].storage] # NoRow
    BY <1>3 DEF UpdateUrl, TypeOK, Call, UrlsInOrder
  <2>2. /\ UNCHANGED <<verifyKeys, sessions, regPc, reg, call>>
        /\ backupStorage' = [backupStorage EXCEPT ![call[h].storage] = call[h].url]
        /\ \A g \in Handshakes : g # h => pc'[g] = pc[g]
    BY <1>3, <2>1, <1>t DEF UpdateUrl
  <2> QED BY <2>1, <2>2, <1>t, UrlsQuietStep, MarkersAssumption
<1>4. ASSUME NEW h \in Handshakes, LockVerifyKeys(h) PROVE UrlsInOrder'
  <2>1. /\ call[h] \in Call
        /\ call'[h] = [call[h] EXCEPT
             !.keysRead = RowsOf(verifyKeys, call[h].storage),
             !.sessionsRead = RowsOf(sessions, call[h].storage)]
    BY <1>4, <1>t DEF LockVerifyKeys, TypeOK
  <2>2. call'[h].storage = call[h].storage
    BY <2>1 DEF Call
  <2>3. /\ UNCHANGED <<backupStorage, verifyKeys, sessions, regPc, reg>>
        /\ pc[h] = "lock"
        /\ \A g \in Handshakes : g # h => pc'[g] = pc[g] /\ call'[g] = call[g]
    BY <1>4, <1>t DEF LockVerifyKeys
  <2>4. backupStorage'[call'[h].storage] \in Urls
    BY <2>2, <2>3 DEF UrlsInOrder
  <2> QED BY <2>3, <2>4, UrlsQuietStep
<1>5. ASSUME NEW h \in Handshakes, CommitHandshake(h) PROVE UrlsInOrder'
  <2> DEFINE s == call[h].storage
  <2> PICK k \in 1..(lastKey + 1), x \in 1..(lastSession + 1) :
        /\ ReuseVerifyKey(h, k) \/ IssueVerifyKey(h, k)
        /\ ReuseSession(h, x) \/ IssueSession(h, x)
        /\ call' = [call EXCEPT ![h].newVerifyKey = k, ![h].newSessionKey = x]
    BY <1>5 DEF CommitHandshake
  <2>1. backupStorage[s] \in Urls /\ backupStorage[s] # NoRow
    BY <1>5, MarkersAssumption DEF CommitHandshake, UrlsInOrder
  <2>2. \A r \in verifyKeys' : r \in verifyKeys \/ r.storage = s
    BY DEF ReuseVerifyKey, IssueVerifyKey, DeleteOthers
  <2>3. \A r \in sessions' : r \in sessions \/ r.storage = s
    BY DEF ReuseSession, IssueSession, DeleteOthers
  <2>4. call[h] \in Call
        /\ call'[h] = [call[h] EXCEPT !.newVerifyKey = k, !.newSessionKey = x]
    BY <1>5, <1>t DEF CommitHandshake, TypeOK
  <2>5. call'[h].storage = s
    BY <2>4 DEF Call
  <2>6. /\ UNCHANGED <<backupStorage, regPc, reg>>
        /\ \A g \in Handshakes : g # h => pc'[g] = pc[g] /\ call'[g] = call[g]
    BY <1>5, <1>t DEF CommitHandshake
  <2> HIDE DEF s
  <2> QED BY <2>1, <2>2, <2>3, <2>5, <2>6, UrlsQuietStep
<1>6. ASSUME NEW p \in Registrations, NEW s \in Storage, UpsertBackupStorage(p, s)
      PROVE  UrlsInOrder'
  <2>1. /\ UNCHANGED <<verifyKeys, sessions, pc, call>>
        /\ backupStorage' = [backupStorage EXCEPT ![s] = IF @ = NoRow THEN NullUrl ELSE @]
        /\ reg'[p].storage = s
        /\ \A q \in Registrations : q # p => regPc'[q] = regPc[q] /\ reg'[q] = reg[q]
    BY <1>6, <1>t DEF UpsertBackupStorage
  <2>2. backupStorage'[s] # NoRow
    BY <2>1, <1>t, MarkersAssumption
  <2>3. \A r \in Storage :
          /\ backupStorage[r] # NoRow => backupStorage'[r] = backupStorage[r]
          /\ backupStorage[r] \in Urls => backupStorage'[r] = backupStorage[r]
    BY <2>1, <1>t, MarkersAssumption
  <2> QED BY <2>1, <2>2, <2>3, UrlsQuietStep
<1>7. ASSUME NEW p \in Registrations,
             ClearVerifyKeys(p) \/ EmitEmail(p) \/ FailRegistration(p)
      PROVE  UrlsInOrder'
  BY <1>7, <1>t, UrlsQuietStep DEF ClearVerifyKeys, EmitEmail, FailRegistration
<1>8. ASSUME NEW p \in Registrations, SaveVerifyKey(p) PROVE UrlsInOrder'
  <2> DEFINE new == [storage |-> reg[p].storage, key |-> lastKey + 1, createdAt |-> NOW]
  <2>1. /\ UNCHANGED <<backupStorage, sessions, pc, call>>
        /\ verifyKeys' = verifyKeys \cup {new} /\ new.storage = reg[p].storage
        /\ regPc[p] = "save" /\ regPc'[p] = "email"
        /\ \A q \in Registrations : q # p => regPc'[q] = regPc[q] /\ reg'[q] = reg[q]
    BY <1>8, <1>t DEF SaveVerifyKey
  <2>2. backupStorage[reg[p].storage] # NoRow
    BY <2>1 DEF UrlsInOrder
  <2> HIDE DEF new
  <2> QED BY <2>1, <2>2, UrlsQuietStep
<1>9. CASE Crash
  BY <1>9, UrlsQuietStep DEF Crash
<1>10. CASE Tick \/ UNCHANGED vars
  BY <1>10, UrlsQuietStep DEF Tick, vars
<1> QED
  BY <1>1, <1>2, <1>3, <1>4, <1>5, <1>6, <1>7, <1>8, <1>9, <1>10
  DEF Next, ServeHandshake, ServeRegistration, DeadlockVictim, FailHandshake

\* No storage ever has a session and no url to use it with (SessionsHaveUrl),
\* however handshakes fail after the update and registrations come again.
THEOREM UrlsAreKept == Spec => []SessionsHaveUrl
<1>1. UrlsInOrder => SessionsHaveUrl
  BY DEF UrlsInOrder
<1> QED BY <1>1, TypeInit, TypeStep, UrlsInit, UrlsStep, PTL DEF Spec

----------------------------------------------------------------------------
(* What a commit does, said of the tables instead of what was read.         *)

NewVerifyKey(h) ==
  [storage |-> call[h].storage, key |-> lastKey + 1, createdAt |-> NOW]

NewSession(h) ==
  [storage |-> call[h].storage, key |-> lastSession + 1, createdAt |-> NOW,
   expiresAt |-> call[h].expiresAt]

\* A commit hands out the latest row of a table again ...
ReusesVerifyKey(h, r) ==
  /\ r \in Latest(RowsOf(verifyKeys, call[h].storage), "createdAt") /\ IsFresh(r)
  /\ call'[h].newVerifyKey = r.key
  /\ UNCHANGED <<verifyKeys, lastKey>>

ReusesSession(h, r) ==
  /\ r \in Latest(RowsOf(sessions, call[h].storage), "expiresAt") /\ IsFresh(r)
  /\ call'[h].newSessionKey = r.key
  /\ UNCHANGED <<sessions, lastSession>>

\* ... or adds a row to those it keeps, because there is none or the latest is
\* no longer fresh.
IssuesVerifyKey(h, kept) ==
  LET rows == RowsOf(verifyKeys, call[h].storage)
  IN /\ rows = {} \/ \E r \in Latest(rows, "createdAt") : ~IsFresh(r)
     /\ kept \in KeptRows(rows, REVOKE_VERIFY_KEY_AFTER, "createdAt")
     /\ verifyKeys' = DeleteOthers(verifyKeys, call[h].storage, kept) \cup {NewVerifyKey(h)}
     /\ lastKey' = lastKey + 1
     /\ call'[h].newVerifyKey = lastKey + 1

IssuesSession(h, kept) ==
  LET rows == RowsOf(sessions, call[h].storage)
  IN /\ rows = {} \/ \E r \in Latest(rows, "expiresAt") : ~IsFresh(r)
     /\ kept \in KeptRows(rows, MAX_NUMBER_OF_ACTIVE_SESSIONS, "expiresAt")
     /\ sessions' = DeleteOthers(sessions, call[h].storage, kept) \cup {NewSession(h)}
     /\ lastSession' = lastSession + 1
     /\ call'[h].newSessionKey = lastSession + 1

\* The two cases of each table, and what a commit leaves alone.
LEMMA CommitCases ==
  ASSUME TypeOK, LockProtects, NEW h \in Handshakes, CommitHandshake(h)
  PROVE  /\ (\E r : ReusesVerifyKey(h, r)) \/ (\E kept : IssuesVerifyKey(h, kept))
         /\ (\E r : ReusesSession(h, r)) \/ (\E kept : IssuesSession(h, kept))
         /\ call[h].storage \in Storage
         /\ call'[h].from = call[h].from /\ call'[h].expiresAt = call[h].expiresAt
         /\ call'[h].storage = call[h].storage
         /\ pc[h] = "write" /\ pc'[h] = "reply"
         /\ \A g \in Handshakes \ {h} : pc'[g] = pc[g] /\ call'[g] = call[g]
         /\ now' = now /\ NOW' = NOW
<1>0. PICK k \in 1..(lastKey + 1), x \in 1..(lastSession + 1) :
      /\ ReuseVerifyKey(h, k) \/ IssueVerifyKey(h, k)
      /\ ReuseSession(h, x) \/ IssueSession(h, x)
      /\ call' = [call EXCEPT ![h].newVerifyKey = k, ![h].newSessionKey = x]
  BY DEF CommitHandshake
<1>1. /\ call[h] \in Call /\ call[h].storage \in Storage
      /\ call'[h] = [call[h] EXCEPT !.newVerifyKey = k, !.newSessionKey = x]
      /\ \A g \in Handshakes \ {h} : call'[g] = call[g]
  BY <1>0 DEF TypeOK, CommitHandshake
<1>2. /\ call'[h].from = call[h].from /\ call'[h].expiresAt = call[h].expiresAt
      /\ call'[h].storage = call[h].storage
      /\ call'[h].newVerifyKey = k /\ call'[h].newSessionKey = x
  <2>0. /\ call[h] \in Call
        /\ call'[h] = [call[h] EXCEPT !.newVerifyKey = k, !.newSessionKey = x]
    BY <1>1
  <2>1. call'[h].from = call[h].from BY <2>0 DEF Call
  <2>2. call'[h].expiresAt = call[h].expiresAt BY <2>0 DEF Call
  <2>3. call'[h].storage = call[h].storage BY <2>0 DEF Call
  <2>4. call'[h].newVerifyKey = k BY <2>0 DEF Call
  <2>5. call'[h].newSessionKey = x BY <2>0 DEF Call
  <2> QED BY <2>1, <2>2, <2>3, <2>4, <2>5
<1>3. /\ pc[h] = "write" /\ pc'[h] = "reply" /\ now' = now
      /\ \A g \in Handshakes \ {h} : pc'[g] = pc[g]
  BY DEF TypeOK, CommitHandshake
<1>4. /\ call[h].keysRead = RowsOf(verifyKeys, call[h].storage)
      /\ call[h].sessionsRead = RowsOf(sessions, call[h].storage)
  BY <1>3 DEF LockProtects, SnapshotIsCurrent
<1>5. (\E r : ReusesVerifyKey(h, r)) \/ (\E kept : IssuesVerifyKey(h, kept))
  <2>1. CASE ReuseVerifyKey(h, k)
    BY <1>2, <1>4, <2>1 DEF ReuseVerifyKey, ReusesVerifyKey
  <2>2. CASE IssueVerifyKey(h, k)
    BY <1>2, <1>4, <2>2 DEF IssueVerifyKey, IssuesVerifyKey, NewVerifyKey
  <2> QED BY <1>0, <2>1, <2>2
<1>6. (\E r : ReusesSession(h, r)) \/ (\E kept : IssuesSession(h, kept))
  <2>1. CASE ReuseSession(h, x)
    BY <1>2, <1>4, <2>1 DEF ReuseSession, ReusesSession
  <2>2. CASE IssueSession(h, x)
    BY <1>2, <1>4, <2>2 DEF IssueSession, IssuesSession, NewSession
  <2> QED BY <1>0, <2>1, <2>2
<1> QED
  BY <1>0, <1>1, <1>2, <1>3, <1>5, <1>6 DEF NOW

\* Only a commit touches the sessions; keys also change with a registration.
LEMMA TablesStep ==
  ASSUME TypeOK, [Next]_vars
  PROVE  \/ \E h \in Handshakes : CommitHandshake(h)
         \/ \E p \in Registrations :
              /\ ClearVerifyKeys(p) \/ SaveVerifyKey(p)
              /\ UNCHANGED <<now, sessions, lastSession, pc, call>>
         \/ UNCHANGED <<verifyKeys, sessions, lastKey, lastSession>>
BY DEF Next, ServeHandshake, ServeRegistration, vars, BeginHandshake, FindVerifyKey,
       RefuseHandshake, UpdateUrl, LockVerifyKeys, Answer, DeadlockVictim, FailHandshake,
       AbortHandshake, UpsertBackupStorage, ClearVerifyKeys, SaveVerifyKey, EmitEmail,
       FailRegistration, Crash, Tick

\* A step to "reply" is a commit.
LEMMA CommitsIsCommit ==
  ASSUME TypeOK, [Next]_vars, NEW h \in Handshakes, Commits(h)
  PROVE  CommitHandshake(h)
<1> USE DEF Commits
<1>1. ASSUME NEW g \in Handshakes,
             \/ \E c \in Corporates, k \in 0..lastKey, u \in Urls : BeginHandshake(g, c, k, u)
             \/ FindVerifyKey(g) \/ RefuseHandshake(g) \/ UpdateUrl(g) \/ LockVerifyKeys(g)
             \/ Answer(g) \/ AbortHandshake(g)
      PROVE  FALSE
  BY <1>1 DEF TypeOK, BeginHandshake, FindVerifyKey, RefuseHandshake, UpdateUrl,
              LockVerifyKeys, Answer, AbortHandshake
<1>2. ASSUME NEW g \in Handshakes, CommitHandshake(g) PROVE g = h
  BY <1>2 DEF TypeOK, CommitHandshake
<1>3. pc' # pc /\ ~Crash
  BY DEF Crash
<1> QED
  BY <1>1, <1>2, <1>3
  DEF Next, ServeHandshake, ServeRegistration, vars, DeadlockVictim, FailHandshake,
      UpsertBackupStorage, ClearVerifyKeys, SaveVerifyKey, EmitEmail,
      FailRegistration, Tick

\* A call that has found its storage is on one of the corporate it names.
OwnCorporate ==
  \A h \in Handshakes :
    pc[h] \notin {"idle", "lookup"} => call[h].storage.corporateId = call[h].corporateId

LEMMA OwnCorporateStep == TypeOK /\ OwnCorporate /\ [Next]_vars => OwnCorporate'
<1> SUFFICES ASSUME TypeOK, OwnCorporate, [Next]_vars PROVE OwnCorporate'
  OBVIOUS
<1>t. pc \in [Handshakes -> Steps] /\ call \in [Handshakes -> Call \cup {NoCall}]
  BY DEF TypeOK
<1>1. ASSUME NEW h \in Handshakes,
             \/ \E c \in Corporates, k \in 0..lastKey, u \in Urls : BeginHandshake(h, c, k, u)
             \/ RefuseHandshake(h) \/ Answer(h) \/ AbortHandshake(h)
      PROVE  OwnCorporate'
  BY <1>1, <1>t DEF OwnCorporate, BeginHandshake, RefuseHandshake, Answer, AbortHandshake
<1>2. ASSUME NEW h \in Handshakes, FindVerifyKey(h) PROVE OwnCorporate'
  <2>1. PICK r \in verifyKeys :
          /\ r.storage.corporateId = call[h].corporateId
          /\ call' = [call EXCEPT ![h].storage = r.storage]
    BY <1>2 DEF FindVerifyKey, Presented
  <2>2. call[h] \in Call /\ call'[h] = [call[h] EXCEPT !.storage = r.storage]
    BY <1>2, <2>1, <1>t DEF FindVerifyKey, TypeOK
  <2>3. call'[h].storage = r.storage /\ call'[h].corporateId = call[h].corporateId
    BY <2>2 DEF Call
  <2>4. \A g \in Handshakes : g # h => pc'[g] = pc[g] /\ call'[g] = call[g]
    BY <1>2, <2>1, <1>t DEF FindVerifyKey
  <2> QED BY <2>1, <2>3, <2>4 DEF OwnCorporate
<1>3. ASSUME NEW h \in Handshakes, UpdateUrl(h) PROVE OwnCorporate'
  BY <1>3, <1>t DEF UpdateUrl, OwnCorporate
<1>4. ASSUME NEW h \in Handshakes, LockVerifyKeys(h) PROVE OwnCorporate'
  <2>1. /\ call[h] \in Call
        /\ call'[h] = [call[h] EXCEPT
             !.keysRead = RowsOf(verifyKeys, call[h].storage),
             !.sessionsRead = RowsOf(sessions, call[h].storage)]
    BY <1>4, <1>t DEF LockVerifyKeys, TypeOK
  <2>2. call'[h].storage = call[h].storage /\ call'[h].corporateId = call[h].corporateId
    BY <2>1 DEF Call
  <2>3. /\ pc[h] = "lock"
        /\ \A g \in Handshakes : g # h => pc'[g] = pc[g] /\ call'[g] = call[g]
    BY <1>4, <1>t DEF LockVerifyKeys
  <2> QED BY <2>2, <2>3 DEF OwnCorporate
<1>5. ASSUME NEW h \in Handshakes, CommitHandshake(h) PROVE OwnCorporate'
  <2>1. PICK k, x : call' = [call EXCEPT ![h].newVerifyKey = k, ![h].newSessionKey = x]
    BY <1>5 DEF CommitHandshake
  <2>2. /\ call[h] \in Call
        /\ call'[h] = [call[h] EXCEPT !.newVerifyKey = k, !.newSessionKey = x]
    BY <1>5, <2>1, <1>t DEF CommitHandshake, TypeOK
  <2>3. call'[h].storage = call[h].storage /\ call'[h].corporateId = call[h].corporateId
    BY <2>2 DEF Call
  <2>4. /\ pc[h] = "write"
        /\ \A g \in Handshakes : g # h => pc'[g] = pc[g] /\ call'[g] = call[g]
    BY <1>5, <2>1, <1>t DEF CommitHandshake
  <2> QED BY <2>3, <2>4 DEF OwnCorporate
<1>6. CASE Crash
  BY <1>6 DEF Crash, OwnCorporate
<1>7. ASSUME UNCHANGED <<pc, call>> PROVE OwnCorporate'
  BY <1>7 DEF OwnCorporate
<1> QED
  BY <1>1, <1>2, <1>3, <1>4, <1>5, <1>6, <1>7
  DEF Next, ServeHandshake, ServeRegistration, vars, DeadlockVictim, FailHandshake,
      UpsertBackupStorage, ClearVerifyKeys, SaveVerifyKey, EmitEmail, FailRegistration, Tick

\* A handshake writes with its update of the url and its commit, nowhere else.
LEMMA HandshakeWrites ==
  ASSUME TypeOK, [Next]_vars, NEW h \in Handshakes, pc[h] # "idle", pc'[h] # pc[h]
  PROVE  UpdateUrl(h) \/ CommitHandshake(h) \/ UNCHANGED <<backupStorage, verifyKeys, sessions>>
<1>t. pc \in [Handshakes -> Steps]
  BY DEF TypeOK
<1>1. ASSUME NEW g \in Handshakes,
             \/ \E c \in Corporates, k \in 0..lastKey, u \in Urls : BeginHandshake(g, c, k, u)
             \/ FindVerifyKey(g) \/ RefuseHandshake(g) \/ LockVerifyKeys(g)
             \/ Answer(g) \/ AbortHandshake(g)
      PROVE  UNCHANGED <<backupStorage, verifyKeys, sessions>>
  BY <1>1 DEF BeginHandshake, FindVerifyKey, RefuseHandshake, LockVerifyKeys, Answer,
              AbortHandshake
<1>2. ASSUME NEW g \in Handshakes, UpdateUrl(g) \/ CommitHandshake(g) PROVE g = h
  BY <1>2, <1>t DEF UpdateUrl, CommitHandshake
<1>3. pc' # pc
  OBVIOUS
<1> QED
  BY <1>1, <1>2, <1>3
  DEF Next, ServeHandshake, ServeRegistration, vars, DeadlockVictim, FailHandshake,
      UpsertBackupStorage, ClearVerifyKeys, SaveVerifyKey, EmitEmail,
      FailRegistration, Crash, Tick

\* The keys a commit answers with are stored for its storage.
LEMMA AnswersOwnKeys ==
  ASSUME TypeOK, LockProtects, NEW h \in Handshakes, CommitHandshake(h)
  PROVE  /\ call'[h].newVerifyKey \in KeysOf(verifyKeys', call[h].storage)
         /\ call'[h].newSessionKey \in KeysOf(sessions', call[h].storage)
<1>1. ASSUME NEW r, ReusesVerifyKey(h, r)
      PROVE  call'[h].newVerifyKey \in KeysOf(verifyKeys', call[h].storage)
  BY <1>1 DEF ReusesVerifyKey, Latest, KeysOf, RowsOf
<1>2. ASSUME NEW kept, IssuesVerifyKey(h, kept)
      PROVE  call'[h].newVerifyKey \in KeysOf(verifyKeys', call[h].storage)
  <2>1. /\ NewVerifyKey(h) \in RowsOf(verifyKeys', call[h].storage)
        /\ NewVerifyKey(h).key = call'[h].newVerifyKey
    BY <1>2 DEF IssuesVerifyKey, NewVerifyKey, RowsOf
  <2> QED BY <2>1 DEF KeysOf
<1>3. ASSUME NEW r, ReusesSession(h, r)
      PROVE  call'[h].newSessionKey \in KeysOf(sessions', call[h].storage)
  BY <1>3 DEF ReusesSession, Latest, KeysOf, RowsOf
<1>4. ASSUME NEW kept, IssuesSession(h, kept)
      PROVE  call'[h].newSessionKey \in KeysOf(sessions', call[h].storage)
  <2>1. /\ NewSession(h) \in RowsOf(sessions', call[h].storage)
        /\ NewSession(h).key = call'[h].newSessionKey
    BY <1>4 DEF IssuesSession, NewSession, RowsOf
  <2> QED BY <2>1 DEF KeysOf
<1> QED
  BY <1>1, <1>2, <1>3, <1>4, CommitCases

\* A handshake writes only to its own storage, which is one of its corporate,
\* and answers with keys of it (OwnStorageOnly).
THEOREM StoragesAreSeparate == Spec => OwnStorageOnly
<1>1. Init => OwnCorporate
  BY DEF Init, OwnCorporate
<1>2. TypeOK /\ LockProtects /\ OwnCorporate /\ [Next]_vars =>
        [\A h \in Handshakes : pc[h] # "idle" /\ pc'[h] # pc[h] =>
           /\ \A s \in Storage :
                s # call[h].storage \/ s.corporateId # call[h].corporateId =>
                  /\ backupStorage'[s] = backupStorage[s]
                  /\ RowsOf(verifyKeys', s) = RowsOf(verifyKeys, s)
                  /\ RowsOf(sessions', s) = RowsOf(sessions, s)
           /\ Commits(h) =>
                /\ call'[h].newVerifyKey \in KeysOf(verifyKeys', call[h].storage)
                /\ call'[h].newSessionKey \in KeysOf(sessions', call[h].storage)]_vars
  <2> SUFFICES ASSUME TypeOK, LockProtects, OwnCorporate, [Next]_vars,
                      NEW h \in Handshakes, pc[h] # "idle", pc'[h] # pc[h]
               PROVE  /\ \A s \in Storage :
                           s # call[h].storage \/ s.corporateId # call[h].corporateId =>
                             /\ backupStorage'[s] = backupStorage[s]
                             /\ RowsOf(verifyKeys', s) = RowsOf(verifyKeys, s)
                             /\ RowsOf(sessions', s) = RowsOf(sessions, s)
                      /\ Commits(h) =>
                           /\ call'[h].newVerifyKey \in KeysOf(verifyKeys', call[h].storage)
                           /\ call'[h].newSessionKey \in KeysOf(sessions', call[h].storage)
    OBVIOUS
  <2>1. Commits(h) => CommitHandshake(h)
    BY CommitsIsCommit
  <2>2. ASSUME NEW s \in Storage,
               s # call[h].storage \/ s.corporateId # call[h].corporateId
        PROVE  /\ backupStorage'[s] = backupStorage[s]
               /\ RowsOf(verifyKeys', s) = RowsOf(verifyKeys, s)
               /\ RowsOf(sessions', s) = RowsOf(sessions, s)
    <3>1. CASE UpdateUrl(h)
      <4>1. s # call[h].storage
        BY <2>2, <3>1 DEF UpdateUrl, OwnCorporate
      <4> QED BY <3>1, <4>1 DEF UpdateUrl, TypeOK
    <3>2. CASE CommitHandshake(h)
      <4>1. s # call[h].storage /\ backupStorage' = backupStorage
        BY <2>2, <3>2 DEF CommitHandshake, OwnCorporate
      <4>2. /\ RowsOf(verifyKeys, s)' = RowsOf(verifyKeys, s)
            /\ RowsOf(sessions, s)' = RowsOf(sessions, s)
        BY <3>2, <4>1, CommitOwnStorage
      <4> QED BY <4>1, <4>2 DEF RowsOf
    <3>3. CASE UNCHANGED <<backupStorage, verifyKeys, sessions>>
      BY <3>3
    <3> QED BY <3>1, <3>2, <3>3, HandshakeWrites
  <2> QED BY <2>1, <2>2, AnswersOwnKeys
<1> QED
  BY <1>1, <1>2, OwnCorporateStep, TypeInit, TypeStep, LockInit, LockStep, PTL
  DEF Spec, OwnStorageOnly

\* A handshake stores no verify key while one of its storage is fresh (KeyReuse).
THEOREM FreshKeyIsReused == Spec => KeyReuse
<1>1. TypeOK /\ LockProtects /\ [Next]_vars =>
        [\A h \in Handshakes : Commits(h) /\ verifyKeys' # verifyKeys =>
           \A r \in RowsOf(verifyKeys, call[h].storage) : ~IsFresh(r)]_vars
  <2> SUFFICES ASSUME TypeOK, LockProtects, [Next]_vars, NEW h \in Handshakes, Commits(h),
                      verifyKeys' # verifyKeys, NEW r \in RowsOf(verifyKeys, call[h].storage)
               PROVE  ~IsFresh(r)
    OBVIOUS
  <2>1. CommitHandshake(h)
    BY CommitsIsCommit
  <2>2. PICK kept : IssuesVerifyKey(h, kept)
    BY <2>1, CommitCases DEF ReusesVerifyKey
  <2>3. PICK q \in RowsOf(verifyKeys, call[h].storage) :
          Precedes(q, r, "createdAt") /\ ~IsFresh(q)
    BY <2>2 DEF IssuesVerifyKey, Latest
  <2>4. /\ r.createdAt \in Int /\ q.createdAt \in Int /\ now \in Nat
        /\ q.createdAt >= r.createdAt
    BY <2>3 DEF TypeOK, RowsOf, VerifyKeyRow, Precedes
  <2> QED
    BY <2>3, <2>4, TimesAssumption DEF IsFresh
<1> QED
  BY <1>1, TypeInit, TypeStep, LockInit, LockStep, PTL DEF Spec, KeyReuse

----------------------------------------------------------------------------
(* Time and order.                                                          *)

\* A call in progress arrived at most MaxLatency ago, and computed its expiry
\* then.
CallsInTime ==
  \A h \in Handshakes :
    pc[h] # "idle" =>
      /\ call[h].from <= now /\ now <= call[h].from + MaxLatency
      /\ call[h].expiresAt = call[h].from + SESSION_LIFE

\* A number identifies a row, and numbers rank the rows of a table by age.
Numbered(table) ==
  \A r, q \in table :
    /\ r.key = q.key => r = q
    /\ r.key < q.key => r.createdAt <= q.createdAt

RowsNumbered == Numbered(verifyKeys) /\ Numbered(sessions)

\* A session expires SESSION_LIFE after the arrival of the call that stored
\* it, which stored it within MaxLatency of that; the row is dated by the
\* other clock.
SessionsDated ==
  \A r \in sessions :
    /\ r.expiresAt - SESSION_LIFE <= r.createdAt - Skew
    /\ r.createdAt - Skew <= r.expiresAt - SESSION_LIFE + MaxLatency

InOrder == CallsInTime /\ RowsNumbered /\ SessionsDated

LEMMA OrderInit == Init => InOrder
BY DEF Init, InOrder, CallsInTime, RowsNumbered, Numbered, SessionsDated

\* A step in which time stands still and no call arrives.
LEMMA CallsQuietStep ==
  ASSUME CallsInTime, now' = now,
         \A h \in Handshakes :
           \/ pc'[h] = "idle"
           \/ /\ pc[h] # "idle"
              /\ call'[h].from = call[h].from /\ call'[h].expiresAt = call[h].expiresAt
  PROVE  CallsInTime'
BY DEF CallsInTime

LEMMA CallsStep == TypeOK /\ LockProtects /\ CallsInTime /\ [Next]_vars => CallsInTime'
<1> SUFFICES ASSUME TypeOK, LockProtects, CallsInTime, [Next]_vars PROVE CallsInTime'
  OBVIOUS
<1>t. /\ now \in Nat /\ MaxLatency \in Nat
      /\ pc \in [Handshakes -> Steps] /\ call \in [Handshakes -> Call \cup {NoCall}]
      /\ \A h \in Handshakes : pc[h] # "idle" => call[h] \in Call /\ call[h].from \in Nat
  BY TimesAssumption DEF TypeOK, Call
<1>1. ASSUME NEW h \in Handshakes, NEW c \in Corporates, NEW k \in 0..lastKey,
             NEW u \in Urls, BeginHandshake(h, c, k, u)
      PROVE  CallsInTime'
  <2>1. /\ call'[h].from = now /\ call'[h].expiresAt = now + SESSION_LIFE /\ now' = now
        /\ \A g \in Handshakes : g # h => pc'[g] = pc[g] /\ call'[g] = call[g]
    BY <1>1, <1>t DEF BeginHandshake
  <2> QED BY <2>1, <1>t DEF CallsInTime
<1>2. ASSUME NEW h \in Handshakes, FindVerifyKey(h) PROVE CallsInTime'
  <2>1. PICK r \in verifyKeys : call' = [call EXCEPT ![h].storage = r.storage]
    BY <1>2 DEF FindVerifyKey, Presented
  <2>2. /\ call[h] \in Call /\ call'[h] = [call[h] EXCEPT !.storage = r.storage]
    BY <1>2, <2>1, <1>t DEF FindVerifyKey
  <2>3. call'[h].from = call[h].from
    BY <2>2 DEF Call
  <2>4. call'[h].expiresAt = call[h].expiresAt
    BY <2>2 DEF Call
  <2>5. \A g \in Handshakes : g # h => pc'[g] = pc[g] /\ call'[g] = call[g]
    BY <1>2, <2>1, <1>t DEF FindVerifyKey
  <2> QED BY <1>2, <2>3, <2>4, <2>5, CallsQuietStep DEF FindVerifyKey
<1>3. ASSUME NEW h \in Handshakes, UpdateUrl(h) PROVE CallsInTime'
  BY <1>3, <1>t, CallsQuietStep DEF UpdateUrl
<1>4. ASSUME NEW h \in Handshakes, LockVerifyKeys(h) PROVE CallsInTime'
  <2>1. /\ call[h] \in Call
        /\ call'[h] = [call[h] EXCEPT
             !.keysRead = RowsOf(verifyKeys, call[h].storage),
             !.sessionsRead = RowsOf(sessions, call[h].storage)]
    BY <1>4, <1>t DEF LockVerifyKeys
  <2>2. call'[h].from = call[h].from
    BY <2>1 DEF Call
  <2>3. call'[h].expiresAt = call[h].expiresAt
    BY <2>1 DEF Call
  <2>4. \A g \in Handshakes : g # h => pc'[g] = pc[g] /\ call'[g] = call[g]
    BY <1>4, <1>t DEF LockVerifyKeys
  <2> QED BY <1>4, <2>2, <2>3, <2>4, CallsQuietStep DEF LockVerifyKeys
<1>5. ASSUME NEW h \in Handshakes, CommitHandshake(h) PROVE CallsInTime'
  BY <1>5, CommitCases, CallsQuietStep
<1>6. ASSUME NEW h \in Handshakes, RefuseHandshake(h) \/ Answer(h) \/ AbortHandshake(h)
      PROVE  CallsInTime'
  BY <1>6, <1>t, CallsQuietStep DEF RefuseHandshake, Answer, AbortHandshake
<1>7. ASSUME UNCHANGED <<now, pc, call>> PROVE CallsInTime'
  BY <1>7, CallsQuietStep
<1>8. CASE Crash
  BY <1>8, CallsQuietStep DEF Crash
<1>9. CASE Tick
  BY <1>9, <1>t DEF Tick, CallsInTime, Busy
<1> QED
  BY <1>1, <1>2, <1>3, <1>4, <1>5, <1>6, <1>7, <1>8, <1>9
  DEF Next, ServeHandshake, ServeRegistration, DeadlockVictim, FailHandshake,
      UpsertBackupStorage, ClearVerifyKeys, SaveVerifyKey, EmitEmail, FailRegistration, vars

\* A step that changes a table takes rows away and adds at most one, which it
\* numbers next and creates now.
LEMMA KeysChange ==
  ASSUME TypeOK, LockProtects, [Next]_vars
  PROVE  \/ verifyKeys' \subseteq verifyKeys
         \/ \E new \in VerifyKeyRow :
              /\ verifyKeys' \subseteq verifyKeys \cup {new}
              /\ new.key = lastKey + 1 /\ new.createdAt = NOW
<1>1. ASSUME NEW h \in Handshakes, CommitHandshake(h), NEW kept, IssuesVerifyKey(h, kept)
      PROVE  \E new \in VerifyKeyRow :
               /\ verifyKeys' \subseteq verifyKeys \cup {new}
               /\ new.key = lastKey + 1 /\ new.createdAt = NOW
  <2>1. NewVerifyKey(h) \in VerifyKeyRow
    BY <1>1, CommitCases, ClockType DEF TypeOK, VerifyKeyRow, NewVerifyKey
  <2> QED BY <1>1, <2>1 DEF IssuesVerifyKey, DeleteOthers, NewVerifyKey
<1>2. ASSUME NEW p \in Registrations, SaveVerifyKey(p)
      PROVE  \E new \in VerifyKeyRow :
               /\ verifyKeys' \subseteq verifyKeys \cup {new}
               /\ new.key = lastKey + 1 /\ new.createdAt = NOW
  <2> DEFINE new == [storage |-> reg[p].storage, key |-> lastKey + 1, createdAt |-> NOW]
  <2>1. new \in VerifyKeyRow
    BY <1>2, ClockType DEF SaveVerifyKey, TypeOK, VerifyKeyRow
  <2> QED BY <1>2, <2>1 DEF SaveVerifyKey
<1>3. ASSUME NEW p \in Registrations, ClearVerifyKeys(p) PROVE verifyKeys' \subseteq verifyKeys
  BY <1>3 DEF ClearVerifyKeys
<1>4. ASSUME NEW h \in Handshakes, CommitHandshake(h), NEW r, ReusesVerifyKey(h, r)
      PROVE  verifyKeys' \subseteq verifyKeys
  BY <1>4 DEF ReusesVerifyKey
<1> QED BY <1>1, <1>2, <1>3, <1>4, TablesStep, CommitCases

LEMMA SessionsChange ==
  ASSUME TypeOK, LockProtects, [Next]_vars
  PROVE  \/ UNCHANGED <<sessions, lastSession>>
         \/ \E h \in Handshakes, kept \in SUBSET SessionRow :
              CommitHandshake(h) /\ IssuesSession(h, kept)
<1>1. ASSUME NEW h \in Handshakes, NEW kept, IssuesSession(h, kept)
      PROVE  kept \in SUBSET SessionRow
  BY <1>1 DEF IssuesSession, KeptRows, Top, RowsOf, TypeOK
<1> QED BY <1>1, TablesStep, CommitCases DEF ReusesSession

LEMMA NewSessionFields ==
  ASSUME TypeOK, CallsInTime, NEW h \in Handshakes, pc[h] = "write"
  PROVE  /\ NewSession(h) \in SessionRow
         /\ NewSession(h).storage = call[h].storage
         /\ NewSession(h).key = lastSession + 1
         /\ NewSession(h).createdAt = now + Skew
         /\ NewSession(h).expiresAt = call[h].from + SESSION_LIFE
         /\ call[h].from \in Nat /\ call[h].from <= now /\ now <= call[h].from + MaxLatency
BY ClockType DEF TypeOK, CallsInTime, Call, NewSession, SessionRow, NOW

\* A table that loses rows, or gains one that is newer than all, stays
\* numbered.
LEMMA NumberedStep ==
  ASSUME NEW table, Numbered(table), NEW last \in Nat, NEW after, NEW new, NEW time \in Int,
         \A r \in table : /\ r.key \in Nat /\ r.createdAt \in Int
                          /\ r.key <= last /\ r.createdAt <= time,
         new.key = last + 1, new.createdAt = time,
         after \subseteq table \cup {new}
  PROVE  Numbered(after)
<1> SUFFICES ASSUME NEW r \in after, NEW q \in after
             PROVE  /\ r.key = q.key => r = q
                    /\ r.key < q.key => r.createdAt <= q.createdAt
  BY DEF Numbered
<1>1. CASE r \in table /\ q \in table
  BY <1>1 DEF Numbered
<1>2. CASE r \in table /\ q = new
  BY <1>2
<1>3. CASE r = new /\ q \in table
  BY <1>3
<1>4. CASE r = new /\ q = new
  BY <1>4
<1> QED BY <1>1, <1>2, <1>3, <1>4

LEMMA OrderStep ==
  TypeOK /\ LockProtects /\ RowsArePast /\ InOrder /\ [Next]_vars => InOrder'
<1> SUFFICES ASSUME TypeOK, LockProtects, RowsArePast, InOrder, [Next]_vars
             PROVE  InOrder'
  OBVIOUS
<1>t. /\ NOW \in Int /\ lastKey \in Nat /\ lastSession \in Nat
      /\ \A r \in verifyKeys : /\ r.key \in Nat /\ r.createdAt \in Int
                               /\ r.key <= lastKey /\ r.createdAt <= NOW
      /\ \A r \in sessions : /\ r.key \in Nat /\ r.createdAt \in Int
                             /\ r.key <= lastSession /\ r.createdAt <= NOW
  BY ClockType DEF TypeOK, VerifyKeyRow, SessionRow, RowsArePast
<1>1. CallsInTime'
  BY CallsStep DEF InOrder
<1>2. Numbered(verifyKeys')
  <2>1. CASE verifyKeys' \subseteq verifyKeys
    BY <2>1 DEF InOrder, RowsNumbered, Numbered
  <2>2. ASSUME NEW new, verifyKeys' \subseteq verifyKeys \cup {new},
               new.key = lastKey + 1, new.createdAt = NOW
        PROVE  Numbered(verifyKeys')
    BY <2>2, <1>t, NumberedStep DEF InOrder, RowsNumbered
  <2> QED BY <2>1, <2>2, KeysChange
<1>3. Numbered(sessions') /\ SessionsDated'
  <2>1. CASE UNCHANGED sessions
    BY <2>1 DEF InOrder, RowsNumbered, SessionsDated
  <2>2. ASSUME NEW h \in Handshakes, NEW kept, CommitHandshake(h), IssuesSession(h, kept)
        PROVE  Numbered(sessions') /\ SessionsDated'
    <3>0. pc[h] = "write"
      BY <2>2 DEF CommitHandshake
    <3>1. sessions' \subseteq sessions \cup {NewSession(h)}
      BY <2>2 DEF IssuesSession, DeleteOthers
    <3>2. /\ NewSession(h).key = lastSession + 1
          /\ NewSession(h).createdAt = NOW
      BY <3>0, NewSessionFields DEF InOrder, NOW
    <3>3. Numbered(sessions')
      BY <3>1, <3>2, <1>t, NumberedStep DEF InOrder, RowsNumbered
    <3>4. SessionsDated'
      BY <3>0, <3>1, NewSessionFields, SkewAssumption, TimesAssumption
      DEF InOrder, SessionsDated, TypeOK
    <3> QED BY <3>3, <3>4
  <2> QED BY <2>1, <2>2, SessionsChange
<1> QED BY <1>1, <1>2, <1>3 DEF InOrder, RowsNumbered, Numbered

----------------------------------------------------------------------------
(* What short calls give.  The sessions are ranked by an expiry that dates  *)
(* from the arrival of a call, not by their age; that the two ranks agree   *)
(* takes calls that end before the latest session goes stale.               *)

ShortCalls == MaxLatency < FRESH_FOR + Skew

Ranked == SessionsSpaced /\ ExpiryRanksByAge

LEMMA SessionTypes ==
  TypeOK => \A r \in sessions :
              /\ r.key \in Nat /\ r.createdAt \in Int /\ r.expiresAt \in Nat
              /\ r.storage \in Storage
BY DEF TypeOK, SessionRow

\* The session that expires last is the latest one: of two sessions of a
\* storage, the one that expires no earlier is as recent and numbered no lower.
LEMMA ExpiryRanks ==
  ASSUME TypeOK, RowsNumbered, Ranked, ShortCalls,
         NEW r \in sessions, NEW q \in sessions, r.storage = q.storage,
         r.expiresAt >= q.expiresAt
  PROVE  r.createdAt >= q.createdAt /\ r.key >= q.key
<1>t. /\ r.key \in Nat /\ r.createdAt \in Int /\ r.expiresAt \in Nat
      /\ q.key \in Nat /\ q.createdAt \in Int /\ q.expiresAt \in Nat
      /\ MaxLatency \in Nat /\ FRESH_FOR \in Nat /\ Skew \in Int
  BY SessionTypes, TimesAssumption, SkewAssumption
<1>1. r.createdAt >= q.createdAt
  BY <1>t DEF Ranked, ExpiryRanksByAge
<1>2. ASSUME r.key < q.key PROVE FALSE
  <2>1. r.createdAt = q.createdAt /\ r # q
    BY <1>1, <1>2, <1>t DEF RowsNumbered, Numbered
  <2>2. q.createdAt - r.createdAt >= FRESH_FOR + Skew
    BY <2>1, <1>t DEF Ranked, SessionsSpaced
  <2> QED BY <2>1, <2>2, <1>t DEF ShortCalls
<1> QED BY <1>1, <1>2, <1>t

\* A session is issued when every session of the storage has gone stale, and
\* expires after all of them.
LEMMA IssuedWhenStale ==
  ASSUME TypeOK, InOrder, RowsArePast, Ranked, ShortCalls, NEW h \in Handshakes,
         CommitHandshake(h), NEW kept, IssuesSession(h, kept),
         NEW q \in RowsOf(sessions, call[h].storage)
  PROVE  /\ NOW - q.createdAt >= FRESH_FOR + Skew
         /\ q.expiresAt < NewSession(h).expiresAt
         /\ q.key < NewSession(h).key
<1>0. pc[h] = "write"
  BY DEF CommitHandshake
<1>t. /\ q \in sessions /\ q.storage = call[h].storage
      /\ q.createdAt \in Int /\ q.expiresAt \in Nat /\ now \in Nat
      /\ MaxLatency \in Nat /\ FRESH_FOR \in Nat /\ SESSION_LIFE \in Nat /\ Skew \in Int
  BY SessionTypes, TimesAssumption, SkewAssumption DEF RowsOf, TypeOK
<1>1. PICK r \in Latest(RowsOf(sessions, call[h].storage), "expiresAt") : ~IsFresh(r)
  BY DEF IssuesSession
<1>2. /\ r \in sessions /\ r.storage = q.storage /\ r.createdAt \in Int
      /\ r.expiresAt \in Nat
  BY <1>1, SessionTypes DEF Latest, RowsOf
<1>3. r.expiresAt >= q.expiresAt
  BY <1>1, <1>2, <1>t DEF Latest, Precedes
<1>4. r.createdAt >= q.createdAt
  BY <1>2, <1>3, <1>t, ExpiryRanks DEF InOrder
<1>5. now - r.createdAt >= FRESH_FOR
  BY <1>1, <1>2, <1>t DEF IsFresh
<1>6. NOW - q.createdAt >= FRESH_FOR + Skew
  BY <1>2, <1>4, <1>5, <1>t DEF NOW
<1>7. q.expiresAt - SESSION_LIFE <= q.createdAt - Skew
  BY <1>t DEF InOrder, SessionsDated
<1>8. /\ NewSession(h).expiresAt = call[h].from + SESSION_LIFE
      /\ call[h].from \in Nat /\ now <= call[h].from + MaxLatency
      /\ NewSession(h).key = lastSession + 1
  BY <1>0, NewSessionFields DEF InOrder
<1>9. q.expiresAt < NewSession(h).expiresAt
  BY <1>6, <1>7, <1>8, <1>t DEF NOW, ShortCalls
<1>10. q.key < NewSession(h).key
  BY <1>8, <1>t, SessionTypes DEF RowsArePast, TypeOK
<1> QED BY <1>6, <1>9, <1>10

LEMMA RankedInit == Init => Ranked
BY DEF Init, Ranked, SessionsSpaced, ExpiryRanksByAge

LEMMA RankedStep ==
  ASSUME ShortCalls, TypeOK, LockProtects, RowsArePast, InOrder, Ranked, [Next]_vars
  PROVE  Ranked'
<1>1. CASE UNCHANGED sessions
  BY <1>1 DEF Ranked, SessionsSpaced, ExpiryRanksByAge
<1>2. ASSUME NEW h \in Handshakes, NEW kept, CommitHandshake(h), IssuesSession(h, kept)
      PROVE  Ranked'
  <2> DEFINE new == NewSession(h)
  <2>1. sessions' \subseteq sessions \cup {new}
    BY <1>2 DEF IssuesSession, DeleteOthers
  <2>2. /\ new.storage = call[h].storage /\ new.createdAt = NOW /\ NOW \in Int
        /\ new.expiresAt \in Nat
    BY <1>2, NewSessionFields, ClockType, TimesAssumption
    DEF CommitHandshake, InOrder, NOW, SessionRow
  <2>3. \A q \in sessions : q.storage = new.storage =>
          /\ NOW - q.createdAt >= FRESH_FOR + Skew
          /\ q.expiresAt < new.expiresAt
          /\ q.createdAt <= NOW
    BY <1>2, <2>2, IssuedWhenStale DEF RowsOf, RowsArePast
  <2>4. \A q \in sessions : q.createdAt \in Int /\ q.expiresAt \in Nat
    BY SessionTypes
  <2>5. FRESH_FOR + Skew \in Int
    BY TimesAssumption, SkewAssumption
  <2> HIDE DEF new
  <2>6. ASSUME NEW r \in sessions', NEW q \in sessions', r.storage = q.storage, r # q,
               r.createdAt <= q.createdAt
        PROVE  q.createdAt - r.createdAt >= FRESH_FOR + Skew
    <3>1. CASE r \in sessions /\ q \in sessions
      BY <2>6, <3>1 DEF Ranked, SessionsSpaced
    <3>2. CASE r \in sessions /\ q = new
      BY <2>6, <3>2, <2>2, <2>3
    <3>3. CASE r = new /\ q \in sessions
      BY <2>6, <3>3, <2>2, <2>3, <2>4, <2>5
    <3> QED BY <2>1, <2>6, <3>1, <3>2, <3>3
  <2>7. ASSUME NEW r \in sessions', NEW q \in sessions', r.storage = q.storage,
               r.createdAt < q.createdAt
        PROVE  r.expiresAt < q.expiresAt
    <3>1. CASE r \in sessions /\ q \in sessions
      BY <2>7, <3>1 DEF Ranked, ExpiryRanksByAge
    <3>2. CASE r \in sessions /\ q = new
      BY <2>7, <3>2, <2>2, <2>3
    <3>3. CASE r = new /\ q \in sessions
      BY <2>7, <3>3, <2>2, <2>3, <2>4
    <3>4. CASE r = new /\ q = new
      BY <2>7, <3>4, <2>2
    <3> QED BY <2>1, <2>7, <3>1, <3>2, <3>3, <3>4
  <2> QED BY <2>6, <2>7 DEF Ranked, SessionsSpaced, ExpiryRanksByAge
<1> QED BY <1>1, <1>2, SessionsChange

\* Two sessions of a storage are at least FRESH_FOR + Skew apart by the
\* database's dates (SessionsSpaced), when calls are short.
THEOREM SessionsAreSpaced == ASSUME ShortCalls PROVE Spec => []SessionsSpaced
<1>1. TypeOK /\ LockProtects /\ RowsArePast /\ InOrder /\ Ranked /\ [Next]_vars => Ranked'
  BY RankedStep
<1>2. Ranked => SessionsSpaced
  BY DEF Ranked
<1> QED
  BY <1>1, <1>2, TypeInit, TypeStep, LockInit, LockStep, PastInit, PastStep,
     OrderInit, OrderStep, RankedInit, PTL DEF Spec

\* The rank by expiry is the rank by age (ExpiryRanksByAge), when calls are
\* short.
THEOREM ExpiryIsARank == ASSUME ShortCalls PROVE Spec => []ExpiryRanksByAge
<1>1. TypeOK /\ LockProtects /\ RowsArePast /\ InOrder /\ Ranked /\ [Next]_vars => Ranked'
  BY RankedStep
<1>2. Ranked => ExpiryRanksByAge
  BY DEF Ranked
<1> QED
  BY <1>1, <1>2, TypeInit, TypeStep, LockInit, LockStep, PastInit, PastStep,
     OrderInit, OrderStep, RankedInit, PTL DEF Spec

----------------------------------------------------------------------------
(* What goes, and what is handed out.                                       *)

\* A row that is dropped leaves the kept ones and the new one behind: as many
\* as the limit.
LEMMA DroppedAtLimit ==
  ASSUME NEW rows, IsFiniteSet(rows), NEW limit \in Nat \ {0}, NEW column,
         NEW kept \in KeptRows(rows, limit, column), kept # rows,
         NEW new, new \notin kept, NEW T, IsFiniteSet(T), kept \cup {new} \subseteq T
  PROVE  Cardinality(T) >= limit
<1>1. IsFiniteSet(kept) /\ Cardinality(kept) = limit - 1
  BY KeptByLimit
<1>2. Cardinality(kept \cup {new}) = limit
  BY <1>1, OneMore
<1>3. Cardinality(kept \cup {new}) <= Cardinality(T) /\ Cardinality(T) \in Nat
  BY FS_Subset, FS_CardinalityType
<1> QED BY <1>2, <1>3

LEMMA SessionsKept ==
  ASSUME ShortCalls, TypeOK, LockProtects, RowsArePast, InOrder, Ranked, [Next]_vars,
         NEW r \in sessions, r \notin sessions'
  PROVE  Cardinality({q \in Newer(sessions', r) : q.expiresAt >= r.expiresAt})
           >= MAX_NUMBER_OF_ACTIVE_SESSIONS
<1> DEFINE T == {q \in Newer(sessions', r) : q.expiresAt >= r.expiresAt}
<1>1. PICK h \in Handshakes, kept \in SUBSET SessionRow :
        CommitHandshake(h) /\ IssuesSession(h, kept)
  BY SessionsChange
<1> DEFINE new == NewSession(h)
           read == RowsOf(sessions, call[h].storage)
<1>2. /\ kept \in KeptRows(read, MAX_NUMBER_OF_ACTIVE_SESSIONS, "expiresAt")
      /\ sessions' = DeleteOthers(sessions, call[h].storage, kept) \cup {new}
      /\ kept \subseteq read
  BY <1>1 DEF IssuesSession, KeptRows, Top
<1>3. IsFiniteSet(read)
  BY FS_Subset DEF RowsOf, RowsArePast
<1>4. /\ r \in read \ kept /\ r.createdAt \in Int /\ r.expiresAt \in Nat
      /\ r.storage = call[h].storage
  BY <1>2, SessionTypes DEF DeleteOthers, RowsOf
<1>5. /\ new.storage = call[h].storage /\ new.createdAt = NOW /\ new.expiresAt \in Nat
      /\ NOW \in Int
  BY <1>1, NewSessionFields, ClockType DEF CommitHandshake, InOrder, NOW, SessionRow
<1>6. \A q \in read : q.key < new.key /\ q.expiresAt < new.expiresAt /\ q.createdAt <= NOW
  BY <1>1, IssuedWhenStale DEF RowsOf, RowsArePast
<1>k. \A q \in read : q.key \in Nat /\ q.expiresAt \in Nat /\ q.createdAt \in Int
  BY SessionTypes DEF RowsOf
<1> HIDE DEF new
<1>7. new \notin kept /\ new \in T
  BY <1>2, <1>4, <1>5, <1>6, <1>k DEF Newer
<1>8. ASSUME NEW q \in kept PROVE q \in T
  <2>1. Precedes(q, r, "expiresAt")
    BY <1>2, <1>4 DEF KeptRows, Top
  <2>2. q \in sessions /\ q \in sessions' /\ q.storage = r.storage /\ q # r
    BY <1>2, <1>4 DEF DeleteOthers, RowsOf
  <2>3. q.expiresAt >= r.expiresAt
    BY <2>1, <2>2, <1>4, SessionTypes DEF Precedes
  <2>4. q.createdAt >= r.createdAt
    BY <2>2, <2>3, ExpiryRanks DEF InOrder
  <2> QED BY <2>2, <2>3, <2>4 DEF Newer
<1>9. IsFiniteSet(T)
  <2>1. IsFiniteSet(sessions')
    BY PastStep DEF RowsArePast
  <2> QED BY <2>1, FS_Subset DEF Newer
<1>10. kept # read /\ kept \cup {new} \subseteq T
  BY <1>4, <1>7, <1>8
<1> HIDE DEF T
<1>11. Cardinality(T) >= MAX_NUMBER_OF_ACTIVE_SESSIONS
  BY <1>2, <1>3, <1>7, <1>9, <1>10, DroppedAtLimit, LimitsAssumption
<1> QED BY <1>11 DEF T

\* No session goes before an older one, or while fewer than
\* MAX_NUMBER_OF_ACTIVE_SESSIONS others are as recent (SessionRetention), when
\* calls are short.
THEOREM SessionsAreRetained == ASSUME ShortCalls PROVE Spec => SessionRetention
<1>1. TypeOK /\ LockProtects /\ RowsArePast /\ InOrder /\ Ranked /\ [Next]_vars => Ranked'
  BY RankedStep
<1>2. TypeOK /\ LockProtects /\ RowsArePast /\ InOrder /\ Ranked /\ [Next]_vars =>
        [\A r \in sessions \ sessions' :
           Cardinality({q \in Newer(sessions', r) : q.expiresAt >= r.expiresAt})
             >= MAX_NUMBER_OF_ACTIVE_SESSIONS]_vars
  BY SessionsKept
<1> QED
  BY <1>1, <1>2, TypeInit, TypeStep, LockInit, LockStep, PastInit, PastStep,
     OrderInit, OrderStep, RankedInit, PTL DEF Spec, SessionRetention

\* The latest verify key has the highest number.
LEMMA LatestKeyIsNewest ==
  ASSUME TypeOK, RowsNumbered, NEW r \in verifyKeys, NEW q \in verifyKeys,
         Precedes(r, q, "createdAt")
  PROVE  r.key >= q.key
<1>1. /\ r.key \in Nat /\ r.createdAt \in Int /\ q.key \in Nat /\ q.createdAt \in Int
  BY DEF TypeOK, VerifyKeyRow
<1> QED BY <1>1 DEF RowsNumbered, Numbered, Precedes

LEMMA NewestAnswered ==
  ASSUME ShortCalls, TypeOK, LockProtects, RowsArePast, InOrder, Ranked,
         NEW h \in Handshakes, CommitHandshake(h)
  PROVE  LET s == call[h].storage
         IN /\ call'[h].newVerifyKey \in KeysOf(verifyKeys', s)
            /\ call'[h].newSessionKey \in KeysOf(sessions', s)
            /\ \A k \in KeysOf(verifyKeys', s) : k <= call'[h].newVerifyKey
            /\ \A x \in KeysOf(sessions', s) : x <= call'[h].newSessionKey
<1> DEFINE s == call[h].storage
<1>t. /\ lastKey \in Nat /\ lastSession \in Nat
      /\ \A r \in verifyKeys : r.key \in Nat /\ r.key <= lastKey
      /\ \A r \in sessions : r.key \in Nat /\ r.key <= lastSession
  BY SessionTypes DEF TypeOK, VerifyKeyRow, RowsArePast
<1>1. /\ call'[h].newVerifyKey \in KeysOf(verifyKeys', s)
      /\ \A k \in KeysOf(verifyKeys', s) : k <= call'[h].newVerifyKey
  <2>1. ASSUME NEW r, ReusesVerifyKey(h, r)
        PROVE  /\ call'[h].newVerifyKey \in KeysOf(verifyKeys', s)
               /\ \A k \in KeysOf(verifyKeys', s) : k <= call'[h].newVerifyKey
    <3>1. /\ r \in RowsOf(verifyKeys, s) /\ call'[h].newVerifyKey = r.key
          /\ verifyKeys' = verifyKeys
          /\ \A q \in RowsOf(verifyKeys, s) : Precedes(r, q, "createdAt")
      BY <2>1 DEF ReusesVerifyKey, Latest
    <3>2. \A q \in RowsOf(verifyKeys, s) : q.key <= r.key
      BY <3>1, <1>t, LatestKeyIsNewest DEF RowsOf, InOrder
    <3> QED BY <3>1, <3>2 DEF KeysOf
  <2>2. ASSUME NEW kept, IssuesVerifyKey(h, kept)
        PROVE  /\ call'[h].newVerifyKey \in KeysOf(verifyKeys', s)
               /\ \A k \in KeysOf(verifyKeys', s) : k <= call'[h].newVerifyKey
    <3>1. /\ verifyKeys' \subseteq verifyKeys \cup {NewVerifyKey(h)}
          /\ NewVerifyKey(h) \in verifyKeys'
          /\ call'[h].newVerifyKey = lastKey + 1
      BY <2>2 DEF IssuesVerifyKey, DeleteOthers
    <3>2. NewVerifyKey(h).storage = s /\ NewVerifyKey(h).key = lastKey + 1
      BY DEF NewVerifyKey
    <3> QED BY <3>1, <3>2, <1>t DEF KeysOf, RowsOf
  <2> QED BY <2>1, <2>2, CommitCases
<1>2. /\ call'[h].newSessionKey \in KeysOf(sessions', s)
      /\ \A x \in KeysOf(sessions', s) : x <= call'[h].newSessionKey
  <2>1. ASSUME NEW r, ReusesSession(h, r)
        PROVE  /\ call'[h].newSessionKey \in KeysOf(sessions', s)
               /\ \A x \in KeysOf(sessions', s) : x <= call'[h].newSessionKey
    <3>1. /\ r \in RowsOf(sessions, s) /\ call'[h].newSessionKey = r.key
          /\ sessions' = sessions
          /\ \A q \in RowsOf(sessions, s) : Precedes(r, q, "expiresAt")
      BY <2>1 DEF ReusesSession, Latest
    <3>2. ASSUME NEW q \in RowsOf(sessions, s) PROVE q.key <= r.key
      <4>1. q \in sessions /\ r \in sessions /\ r.storage = q.storage
        BY <3>1 DEF RowsOf
      <4>2. r.expiresAt >= q.expiresAt
        BY <3>1, <4>1, SessionTypes DEF Precedes
      <4> QED BY <4>1, <4>2, <1>t, ExpiryRanks DEF InOrder
    <3> QED BY <3>1, <3>2 DEF KeysOf
  <2>2. ASSUME NEW kept, IssuesSession(h, kept)
        PROVE  /\ call'[h].newSessionKey \in KeysOf(sessions', s)
               /\ \A x \in KeysOf(sessions', s) : x <= call'[h].newSessionKey
    <3>1. /\ sessions' \subseteq sessions \cup {NewSession(h)}
          /\ NewSession(h) \in sessions'
          /\ call'[h].newSessionKey = lastSession + 1
      BY <2>2 DEF IssuesSession, DeleteOthers
    <3>2. NewSession(h).storage = s /\ NewSession(h).key = lastSession + 1
      BY DEF NewSession
    <3> QED BY <3>1, <3>2, <1>t DEF KeysOf, RowsOf
  <2> QED BY <2>1, <2>2, CommitCases
<1> QED BY <1>1, <1>2

\* A handshake answers with the newest verify key and session of its storage
\* (AnswersNewest), when calls are short.
THEOREM NewestIsAnswered == ASSUME ShortCalls PROVE Spec => AnswersNewest
<1>1. TypeOK /\ LockProtects /\ RowsArePast /\ InOrder /\ Ranked /\ [Next]_vars => Ranked'
  BY RankedStep
<1>2. TypeOK /\ LockProtects /\ RowsArePast /\ InOrder /\ Ranked /\ [Next]_vars =>
        [\A h \in Handshakes : Commits(h) =>
           LET s == call[h].storage
           IN /\ call'[h].newVerifyKey \in KeysOf(verifyKeys', s)
              /\ call'[h].newSessionKey \in KeysOf(sessions', s)
              /\ \A k \in KeysOf(verifyKeys', s) : k <= call'[h].newVerifyKey
              /\ \A x \in KeysOf(sessions', s) : x <= call'[h].newSessionKey]_vars
  BY CommitsIsCommit, NewestAnswered
<1> QED
  BY <1>1, <1>2, TypeInit, TypeStep, LockInit, LockStep, PastInit, PastStep,
     OrderInit, OrderStep, RankedInit, PTL DEF Spec, AnswersNewest

----------------------------------------------------------------------------
(* The rings.                                                               *)

\* The numbers of a set of rows.
Keys(rows) == {r.key : r \in rows}

\* KeyRing counts as this module does.
LEMMA RingNewest ==
  ASSUME NEW ring, NEW n
  PROVE  Ring!Newest(ring, n) = {k \in ring : Cardinality({j \in ring : j > k}) < n}
<1>1. ASSUME NEW S PROVE Ring!Cardinality(S) = Cardinality(S)
  BY DEF Ring!Cardinality, Cardinality
<1> QED BY <1>1 DEF Ring!Newest

\* Rows with different numbers are as many as their numbers.
LEMMA CountByKey ==
  ASSUME NEW rows, IsFiniteSet(rows), \A r, q \in rows : r.key = q.key => r = q
  PROVE  IsFiniteSet(Keys(rows)) /\ Cardinality(Keys(rows)) = Cardinality(rows)
<1> DEFINE f == [r \in rows |-> r.key]
<1>1. f \in Bijection(rows, Keys(rows))
  <2>1. f \in [rows -> Keys(rows)]
    BY DEF Keys
  <2>2. IsInjective(f)
    BY DEF IsInjective
  <2>3. \A k \in Keys(rows) : \E r \in rows : f[r] = k
    BY DEF Keys
  <2> QED BY <2>1, <2>2, <2>3 DEF Bijection, Injection, Surjection
<1> QED BY <1>1, FS_Bijection DEF ExistsBijection

\* The rows kept beside a new one are the newest of all by their numbers, when
\* the column they are ranked by agrees with the numbers.
LEMMA KeptAreNewest ==
  ASSUME NEW rows, IsFiniteSet(rows), NEW limit \in Nat \ {0}, NEW column,
         NEW kept \in KeptRows(rows, limit, column), NEW n \in Nat,
         \A r \in rows : r.key \in Nat /\ r.key < n,
         \A r, q \in rows : r.key = q.key => r = q,
         \A r, q \in rows : Precedes(r, q, column) => r.key >= q.key
  PROVE  Keys(kept) \cup {n} = Ring!Newest(Keys(rows) \cup {n}, limit)
<1> DEFINE all == Keys(rows) \cup {n}
           top == Keys(kept) \cup {n}
           above(k) == {j \in all : j > k}
<1>1. /\ kept \subseteq rows /\ IsFiniteSet(kept) /\ Cardinality(kept) \in Nat
      /\ Cardinality(kept) <= limit - 1
      /\ kept # rows => Cardinality(kept) = limit - 1
  BY KeptByLimit
<1>2. \A r \in kept, q \in rows \ kept : r.key > q.key
  <2> SUFFICES ASSUME NEW r \in kept, NEW q \in rows \ kept PROVE r.key > q.key
    OBVIOUS
  <2>1. Precedes(r, q, column)
    BY DEF KeptRows, Top
  <2>2. r \in rows /\ r # q
    BY <1>1
  <2> QED BY <2>1, <2>2
<1>3. IsFiniteSet(top) /\ Cardinality(top) = Cardinality(kept) + 1
  <2>1. IsFiniteSet(Keys(kept)) /\ Cardinality(Keys(kept)) = Cardinality(kept)
    BY <1>1, CountByKey
  <2>2. n \notin Keys(kept)
    BY <1>1 DEF Keys
  <2> QED BY <2>1, <2>2, OneMore
<1>4. top \subseteq all /\ all \subseteq Nat /\ \A k \in all : k <= n
  BY <1>1 DEF Keys
<1>5. IsFiniteSet(all)
  BY CountByKey, OneMore
<1>6. ASSUME NEW k \in top PROVE Cardinality(above(k)) < limit
  <2>1. above(k) \subseteq top \ {k}
    <3> SUFFICES ASSUME NEW j \in all, j > k, j \notin top PROVE FALSE
      BY <1>4
    <3>1. PICK q \in rows \ kept : j = q.key
      BY <1>4 DEF Keys
    <3>2. PICK r \in kept : k = r.key
      BY <1>4, <3>1 DEF Keys
    <3>3. r.key > q.key /\ r.key \in Nat /\ q.key \in Nat
      BY <1>1, <1>2
    <3> QED BY <3>1, <3>2, <3>3
  <2>2. IsFiniteSet(top \ {k}) /\ Cardinality(top \ {k}) = Cardinality(kept)
    <3> HIDE DEF top
    <3>1. /\ IsFiniteSet(top \ {k})
          /\ Cardinality(top \ {k}) =
               IF k \in top THEN Cardinality(top) - 1 ELSE Cardinality(top)
      BY <1>3, FS_RemoveElement
    <3> QED BY <3>1, <1>1, <1>3, <1>6
  <2>3. Cardinality(above(k)) <= Cardinality(kept) /\ Cardinality(above(k)) \in Nat
    BY <2>1, <2>2, FS_Subset, FS_CardinalityType
  <2> QED BY <1>1, <2>3
<1>7. ASSUME NEW k \in all \ top PROVE ~(Cardinality(above(k)) < limit)
  <2>1. PICK q \in rows \ kept : k = q.key
    BY DEF Keys
  <2>2. Cardinality(top) = limit
    BY <1>1, <1>3, <2>1
  <2>3. top \subseteq above(k)
    <3> SUFFICES ASSUME NEW j \in top PROVE j > k
      BY <1>4
    <3>1. CASE j = n
      BY <2>1, <3>1
    <3>2. ASSUME NEW r \in kept, j = r.key PROVE j > k
      BY <1>2, <2>1, <3>2
    <3> QED BY <3>1, <3>2 DEF Keys
  <2>4. IsFiniteSet(above(k))
    BY <1>5, FS_Subset
  <2>5. Cardinality(top) <= Cardinality(above(k)) /\ Cardinality(above(k)) \in Nat
    BY <2>3, <2>4, FS_Subset, FS_CardinalityType
  <2> QED BY <2>2, <2>5
<1>8. Ring!Newest(all, limit) = {k \in all : Cardinality(above(k)) < limit}
  BY RingNewest
<1> HIDE DEF all, top, above
<1>9. top = {k \in all : Cardinality(above(k)) < limit}
  BY <1>4, <1>6, <1>7
<1> QED BY <1>8, <1>9 DEF all, top

LEMMA KeysRotate ==
  ASSUME TypeOK, LockProtects, RowsArePast, InOrder, NEW h \in Handshakes,
         CommitHandshake(h), NEW kept, IssuesVerifyKey(h, kept)
  PROVE  Ring!RotateKeys(call[h].storage)
<1> DEFINE s == call[h].storage
           rows == RowsOf(verifyKeys, s)
           new == NewVerifyKey(h)
<1>0. s \in Storage
  BY CommitCases
<1>1. /\ kept \in KeptRows(rows, REVOKE_VERIFY_KEY_AFTER, "createdAt")
      /\ verifyKeys' = DeleteOthers(verifyKeys, s, kept) \cup {new}
      /\ lastKey' = lastKey + 1 /\ kept \subseteq rows
  BY DEF IssuesVerifyKey, KeptRows, Top
<1>2. new.storage = s /\ new.key = lastKey + 1
  BY DEF NewVerifyKey
<1>3. RowsOf(verifyKeys', s) = kept \cup {new}
  BY <1>1, <1>2 DEF RowsOf, DeleteOthers
<1>4. KeysOf(verifyKeys', s) = Keys(kept) \cup {lastKey + 1}
  BY <1>2, <1>3 DEF KeysOf, Keys
<1>5. /\ IsFiniteSet(rows) /\ lastKey + 1 \in Nat
      /\ \A r \in rows : r.key \in Nat /\ r.key < lastKey + 1
      /\ \A r, q \in rows : r.key = q.key => r = q
      /\ \A r, q \in rows : Precedes(r, q, "createdAt") => r.key >= q.key
  <2>1. IsFiniteSet(rows)
    BY FS_Subset DEF RowsOf, RowsArePast
  <2>2. lastKey + 1 \in Nat /\ \A r \in rows : r.key \in Nat /\ r.key < lastKey + 1
    BY DEF RowsOf, RowsArePast, TypeOK, VerifyKeyRow
  <2>3. \A r, q \in rows : r.key = q.key => r = q
    BY DEF RowsOf, InOrder, RowsNumbered, Numbered
  <2>4. \A r, q \in rows : Precedes(r, q, "createdAt") => r.key >= q.key
    BY LatestKeyIsNewest DEF RowsOf, InOrder
  <2> QED BY <2>1, <2>2, <2>3, <2>4
<1> HIDE DEF new, rows
<1>6. KeysOf(verifyKeys', s)
        = Ring!Newest(Keys(rows) \cup {lastKey + 1}, REVOKE_VERIFY_KEY_AFTER)
  <2>1. Keys(kept) \cup {lastKey + 1}
          = Ring!Newest(Keys(rows) \cup {lastKey + 1}, REVOKE_VERIFY_KEY_AFTER)
    BY <1>1, <1>5, KeptAreNewest, LimitsAssumption
  <2> QED BY <1>4, <2>1
<1>7. Keys(rows) = KeysOf(verifyKeys, s)
  BY DEF Keys, KeysOf, rows
<1>8. \A t \in Storage \ {s} : KeysOf(verifyKeys', t) = KeysOf(verifyKeys, t)
  BY CommitOwnStorage DEF KeysOf, RowsOf
<1> HIDE DEF s
<1>9. [t \in Storage |-> KeysOf(verifyKeys', t)]
        = [[t \in Storage |-> KeysOf(verifyKeys, t)] EXCEPT
             ![s] = Ring!Newest(@ \cup {lastKey + 1}, REVOKE_VERIFY_KEY_AFTER)]
  BY <1>0, <1>6, <1>7, <1>8
<1> QED BY <1>1, <1>9 DEF Ring!RotateKeys, s, KeysOf, RowsOf

LEMMA SessionsRotate ==
  ASSUME ShortCalls, TypeOK, LockProtects, RowsArePast, InOrder, Ranked,
         NEW h \in Handshakes, CommitHandshake(h), NEW kept, IssuesSession(h, kept)
  PROVE  Ring!RotateSessions(call[h].storage)
<1> DEFINE s == call[h].storage
           rows == RowsOf(sessions, s)
           new == NewSession(h)
<1>0. s \in Storage
  BY CommitCases
<1>1. /\ kept \in KeptRows(rows, MAX_NUMBER_OF_ACTIVE_SESSIONS, "expiresAt")
      /\ sessions' = DeleteOthers(sessions, s, kept) \cup {new}
      /\ lastSession' = lastSession + 1 /\ kept \subseteq rows
  BY DEF IssuesSession, KeptRows, Top
<1>2. new.storage = s /\ new.key = lastSession + 1
  BY DEF NewSession
<1>3. RowsOf(sessions', s) = kept \cup {new}
  BY <1>1, <1>2 DEF RowsOf, DeleteOthers
<1>4. KeysOf(sessions', s) = Keys(kept) \cup {lastSession + 1}
  BY <1>2, <1>3 DEF KeysOf, Keys
<1>5. /\ IsFiniteSet(rows) /\ lastSession + 1 \in Nat
      /\ \A r \in rows : r.key \in Nat /\ r.key < lastSession + 1
      /\ \A r, q \in rows : r.key = q.key => r = q
      /\ \A r, q \in rows : Precedes(r, q, "expiresAt") => r.key >= q.key
  <2>1. IsFiniteSet(rows)
    BY FS_Subset DEF RowsOf, RowsArePast
  <2>2. lastSession + 1 \in Nat /\ \A r \in rows : r.key \in Nat /\ r.key < lastSession + 1
    BY DEF RowsOf, RowsArePast, TypeOK, SessionRow
  <2>3. \A r, q \in rows : r.key = q.key => r = q
    BY DEF RowsOf, InOrder, RowsNumbered, Numbered
  <2>4. ASSUME NEW r \in rows, NEW q \in rows, Precedes(r, q, "expiresAt")
        PROVE  r.key >= q.key
    <3>1. r \in sessions /\ q \in sessions /\ r.storage = q.storage
      BY DEF RowsOf
    <3>2. r.expiresAt >= q.expiresAt
      BY <2>4, <3>1, SessionTypes DEF Precedes
    <3> QED BY <3>1, <3>2, ExpiryRanks DEF InOrder
  <2> QED BY <2>1, <2>2, <2>3, <2>4
<1> HIDE DEF new, rows
<1>6. KeysOf(sessions', s)
        = Ring!Newest(Keys(rows) \cup {lastSession + 1}, MAX_NUMBER_OF_ACTIVE_SESSIONS)
  <2>1. Keys(kept) \cup {lastSession + 1}
          = Ring!Newest(Keys(rows) \cup {lastSession + 1}, MAX_NUMBER_OF_ACTIVE_SESSIONS)
    BY <1>1, <1>5, KeptAreNewest, LimitsAssumption
  <2> QED BY <1>4, <2>1
<1>7. Keys(rows) = KeysOf(sessions, s)
  BY DEF Keys, KeysOf, rows
<1>8. \A t \in Storage \ {s} : KeysOf(sessions', t) = KeysOf(sessions, t)
  BY CommitOwnStorage DEF KeysOf, RowsOf
<1> HIDE DEF s
<1>9. [t \in Storage |-> KeysOf(sessions', t)]
        = [[t \in Storage |-> KeysOf(sessions, t)] EXCEPT
             ![s] = Ring!Newest(@ \cup {lastSession + 1}, MAX_NUMBER_OF_ACTIVE_SESSIONS)]
  BY <1>0, <1>6, <1>7, <1>8
<1> QED BY <1>1, <1>9 DEF Ring!RotateSessions, s, KeysOf, RowsOf

LEMMA CommitIsHandshake ==
  ASSUME ShortCalls, TypeOK, LockProtects, RowsArePast, InOrder, Ranked,
         NEW h \in Handshakes, CommitHandshake(h)
  PROVE  Ring!Handshake(call[h].storage)
<1> DEFINE s == call[h].storage
           keyRing == [t \in Storage |-> KeysOf(verifyKeys, t)]
           sessionRing == [t \in Storage |-> KeysOf(sessions, t)]
<1>0. s \in Storage
  BY CommitCases
<1>1. \/ keyRing[s] # {} /\ UNCHANGED <<keyRing, lastKey>>
      \/ Ring!RotateKeys(s)
  <2>1. ASSUME NEW r, ReusesVerifyKey(h, r)
        PROVE  keyRing[s] # {} /\ UNCHANGED <<keyRing, lastKey>>
    <3>1. r \in RowsOf(verifyKeys, s) /\ UNCHANGED <<verifyKeys, lastKey>>
      BY <2>1 DEF ReusesVerifyKey, Latest
    <3>2. r.key \in KeysOf(verifyKeys, s)
      BY <3>1 DEF KeysOf
    <3> QED BY <1>0, <3>1, <3>2 DEF KeysOf, RowsOf
  <2> QED BY <2>1, CommitCases, KeysRotate
<1>2. \/ sessionRing[s] # {} /\ UNCHANGED <<sessionRing, lastSession>>
      \/ Ring!RotateSessions(s)
  <2>1. ASSUME NEW r, ReusesSession(h, r)
        PROVE  sessionRing[s] # {} /\ UNCHANGED <<sessionRing, lastSession>>
    <3>1. r \in RowsOf(sessions, s) /\ UNCHANGED <<sessions, lastSession>>
      BY <2>1 DEF ReusesSession, Latest
    <3>2. r.key \in KeysOf(sessions, s)
      BY <3>1 DEF KeysOf
    <3> QED BY <1>0, <3>1, <3>2 DEF KeysOf, RowsOf
  <2> QED BY <2>1, CommitCases, SessionsRotate
<1> QED BY <1>1, <1>2 DEF Ring!Handshake

LEMMA RingInit == Init => Ring!RingInit
BY DEF Init, Ring!RingInit, KeysOf, RowsOf

LEMMA RingStep ==
  ASSUME ShortCalls, TypeOK, LockProtects, RowsArePast, InOrder, Ranked, [Next]_vars
  PROVE  [Ring!RingNext]_Ring!ringVars
<1>1. ASSUME NEW h \in Handshakes, CommitHandshake(h) PROVE Ring!RingNext
  BY <1>1, CommitIsHandshake, CommitCases DEF Ring!RingNext
<1>2. ASSUME NEW p \in Registrations, ClearVerifyKeys(p),
             UNCHANGED <<sessions, lastSession>>
      PROVE  Ring!RingNext
  <2> DEFINE s == reg[p].storage
  <2>1. s \in Storage /\ verifyKeys' = verifyKeys \ RowsOf(verifyKeys, s)
        /\ lastKey' = lastKey
    BY <1>2 DEF ClearVerifyKeys, TypeOK
  <2> HIDE DEF s
  <2>2. KeysOf(verifyKeys', s) = {}
    BY <2>1 DEF KeysOf, RowsOf
  <2>3. \A t \in Storage \ {s} : KeysOf(verifyKeys', t) = KeysOf(verifyKeys, t)
    <3> SUFFICES ASSUME NEW t \in Storage \ {s}
                 PROVE  KeysOf(verifyKeys', t) = KeysOf(verifyKeys, t)
      OBVIOUS
    <3>1. RowsOf(verifyKeys', t) = RowsOf(verifyKeys, t)
      BY <2>1 DEF RowsOf
    <3> QED BY <3>1 DEF KeysOf
  <2>4. [t \in Storage |-> KeysOf(verifyKeys', t)]
          = [[t \in Storage |-> KeysOf(verifyKeys, t)] EXCEPT ![s] = {}]
    BY <2>1, <2>2, <2>3
  <2>5. Ring!Revoke(s)
    BY <1>2, <2>1, <2>4 DEF Ring!Revoke, KeysOf, RowsOf
  <2> QED BY <2>1, <2>5 DEF Ring!RingNext
<1>3. ASSUME NEW p \in Registrations, SaveVerifyKey(p),
             UNCHANGED <<sessions, lastSession>>
      PROVE  Ring!RingNext
  <2> DEFINE s == reg[p].storage
             new == [storage |-> s, key |-> lastKey + 1, createdAt |-> NOW]
  <2>1. s \in Storage /\ verifyKeys' = verifyKeys \cup {new} /\ lastKey' = lastKey + 1
        /\ new.storage = s /\ new.key = lastKey + 1
    BY <1>3 DEF SaveVerifyKey, TypeOK
  <2> HIDE DEF s, new
  <2>2. KeysOf(verifyKeys', s) = KeysOf(verifyKeys, s) \cup {lastKey + 1}
    <3>1. RowsOf(verifyKeys', s) = RowsOf(verifyKeys, s) \cup {new}
      BY <2>1 DEF RowsOf
    <3> QED BY <2>1, <3>1 DEF KeysOf
  <2>3. \A t \in Storage \ {s} : KeysOf(verifyKeys', t) = KeysOf(verifyKeys, t)
    <3> SUFFICES ASSUME NEW t \in Storage \ {s}
                 PROVE  KeysOf(verifyKeys', t) = KeysOf(verifyKeys, t)
      OBVIOUS
    <3>1. RowsOf(verifyKeys', t) = RowsOf(verifyKeys, t)
      BY <2>1 DEF RowsOf
    <3> QED BY <3>1 DEF KeysOf
  <2>4. [t \in Storage |-> KeysOf(verifyKeys', t)]
          = [[t \in Storage |-> KeysOf(verifyKeys, t)] EXCEPT ![s] = @ \cup {lastKey + 1}]
    BY <2>1, <2>2, <2>3
  <2>5. Ring!Admit(s)
    BY <1>3, <2>1, <2>4 DEF Ring!Admit, KeysOf, RowsOf
  <2> QED BY <2>1, <2>5 DEF Ring!RingNext
<1>4. CASE UNCHANGED <<verifyKeys, sessions, lastKey, lastSession>>
  BY <1>4 DEF Ring!ringVars, KeysOf, RowsOf
<1> QED BY <1>1, <1>2, <1>3, <1>4, TablesStep

\* The interleaved handshakes and registrations implement the rings of KeyRing
\* (ImplementsKeyRing), when calls are short: every step is a step of the rings
\* or leaves them alone.
THEOREM RingsAreImplemented == ASSUME ShortCalls PROVE Spec => ImplementsKeyRing
<1>1. TypeOK /\ LockProtects /\ RowsArePast /\ InOrder /\ Ranked /\ [Next]_vars => Ranked'
  BY RankedStep
<1>2. TypeOK /\ LockProtects /\ RowsArePast /\ InOrder /\ Ranked /\ [Next]_vars =>
        [Ring!RingNext]_Ring!ringVars
  BY RingStep
<1> QED
  BY <1>1, <1>2, TypeInit, TypeStep, LockInit, LockStep, PastInit, PastStep,
     OrderInit, OrderStep, RankedInit, RingInit, PTL
  DEF Spec, ImplementsKeyRing, Ring!RingSpec

----------------------------------------------------------------------------
(* The answer on its way out.                                               *)

\* With one session only, a session is dropped as soon as the next is issued.
TwoSessions == MAX_NUMBER_OF_ACTIVE_SESSIONS >= 2

\* The session outlives the time it is handed out again in, two calls, and
\* twice what the clocks differ by.
LongLife == 2 * Skew + FRESH_FOR + 2 * MaxLatency <= SESSION_LIFE

\* The session announced in call record c: it expires about when c says, and
\* all that were issued after it were issued after the call arrived.
Stands(c, r) ==
  /\ r.key = c.newSessionKey
  /\ \/ c.expiresAt = r.expiresAt
     \/ c.expiresAt - r.expiresAt < FRESH_FOR + Skew + MaxLatency
  /\ r.expiresAt - c.expiresAt <= MaxLatency
  /\ \A q \in RowsOf(sessions, c.storage) :
       q.key > r.key => q.createdAt >= c.from + Skew

AnswersStand ==
  \A h \in Handshakes :
    pc[h] = "reply" => \E r \in RowsOf(sessions, call[h].storage) : Stands(call[h], r)

\* A call that is about to answer was so before, or commits.
LEMMA ReplyStep ==
  ASSUME TypeOK, [Next]_vars, NEW h \in Handshakes, pc'[h] = "reply"
  PROVE  CommitHandshake(h) \/ (pc[h] = "reply" /\ call'[h] = call[h])
<1>1. ASSUME NEW g \in Handshakes,
             \/ \E c \in Corporates, k \in 0..lastKey, u \in Urls : BeginHandshake(g, c, k, u)
             \/ FindVerifyKey(g) \/ RefuseHandshake(g) \/ UpdateUrl(g) \/ LockVerifyKeys(g)
             \/ Answer(g) \/ AbortHandshake(g)
      PROVE  pc[h] = "reply" /\ call'[h] = call[h]
  BY <1>1 DEF TypeOK, BeginHandshake, FindVerifyKey, RefuseHandshake, UpdateUrl,
              LockVerifyKeys, Answer, AbortHandshake
<1>2. ASSUME NEW g \in Handshakes, CommitHandshake(g), g # h
      PROVE  pc[h] = "reply" /\ call'[h] = call[h]
  BY <1>2 DEF TypeOK, CommitHandshake
<1>3. ~Crash
  BY DEF Crash
<1> QED
  BY <1>1, <1>2, <1>3
  DEF Next, ServeHandshake, ServeRegistration, vars, DeadlockVictim, FailHandshake,
      UpsertBackupStorage, ClearVerifyKeys, SaveVerifyKey, EmitEmail,
      FailRegistration, Tick

\* The answer of a commit stands.
LEMMA CommitStands ==
  ASSUME ShortCalls, TypeOK, LockProtects, RowsArePast, InOrder, Ranked,
         NEW h \in Handshakes, CommitHandshake(h)
  PROVE  \E r \in RowsOf(sessions, call[h].storage)' : Stands(call[h], r)'
<1> DEFINE s == call[h].storage
<1>0. pc[h] = "write" /\ call'[h].from = call[h].from /\ call'[h].storage = s
      /\ call'[h].expiresAt = call[h].expiresAt
  BY CommitCases
<1>t. /\ call[h].expiresAt = call[h].from + SESSION_LIFE /\ call[h].from \in Nat
      /\ call[h].from <= now /\ now <= call[h].from + MaxLatency /\ now \in Nat
      /\ MaxLatency \in Nat /\ FRESH_FOR \in Nat /\ SESSION_LIFE \in Nat /\ Skew \in Int
  BY <1>0, NewSessionFields, TimesAssumption, SkewAssumption
  DEF InOrder, CallsInTime, TypeOK
<1>1. \A q \in RowsOf(sessions', s) : q.key \in Nat /\ q.key <= call'[h].newSessionKey
  <2>1. \A q \in RowsOf(sessions', s) : q.key <= call'[h].newSessionKey
    BY NewestAnswered DEF KeysOf
  <2>2. \A q \in sessions' : q.key \in Nat
    BY CommitTypes DEF SessionRow
  <2> QED BY <2>1, <2>2 DEF RowsOf
<1>2. ASSUME NEW r \in RowsOf(sessions', s), r.key = call'[h].newSessionKey,
             r.expiresAt \in Nat,
             \/ call[h].expiresAt = r.expiresAt
             \/ call[h].expiresAt - r.expiresAt < FRESH_FOR + Skew + MaxLatency,
             r.expiresAt - call[h].expiresAt <= MaxLatency
      PROVE  \E q \in RowsOf(sessions, call[h].storage)' : Stands(call[h], q)'
  <2>1. \A q \in RowsOf(sessions', s) : ~(q.key > r.key)
    BY <1>1, <1>2
  <2>2. Stands(call[h], r)'
    BY <1>0, <1>2, <2>1 DEF Stands, RowsOf
  <2>3. r \in RowsOf(sessions, call[h].storage)'
    BY <1>0, <1>2 DEF RowsOf
  <2> QED BY <2>2, <2>3
<1>3. ASSUME NEW r, ReusesSession(h, r)
      PROVE  \E q \in RowsOf(sessions, call[h].storage)' : Stands(call[h], q)'
  <2>1. /\ r \in RowsOf(sessions', s) /\ r \in sessions /\ IsFresh(r)
        /\ r.key = call'[h].newSessionKey
    BY <1>3 DEF ReusesSession, Latest, RowsOf
  <2>2. /\ r.createdAt \in Int /\ r.expiresAt \in Nat /\ r.createdAt <= now + Skew
        /\ r.expiresAt - SESSION_LIFE <= r.createdAt - Skew
        /\ r.createdAt - Skew <= r.expiresAt - SESSION_LIFE + MaxLatency
        /\ now - r.createdAt < FRESH_FOR
    BY <2>1, SessionTypes DEF RowsArePast, InOrder, SessionsDated, NOW, IsFresh
  <2>3. call[h].expiresAt - r.expiresAt < FRESH_FOR + Skew + MaxLatency
    BY <2>2, <1>t
  <2>4. r.expiresAt - call[h].expiresAt <= MaxLatency
    BY <2>2, <1>t
  <2> QED BY <1>2, <2>1, <2>2, <2>3, <2>4
<1>4. ASSUME NEW kept, IssuesSession(h, kept)
      PROVE  \E q \in RowsOf(sessions, call[h].storage)' : Stands(call[h], q)'
  <2> DEFINE new == NewSession(h)
  <2>1. new \in RowsOf(sessions', s) /\ new.key = call'[h].newSessionKey
    BY <1>4 DEF IssuesSession, RowsOf, NewSession
  <2>2. new.expiresAt = call[h].expiresAt /\ new.expiresAt \in Nat
    BY <1>t DEF NewSession
  <2> HIDE DEF new
  <2>3. new.expiresAt - call[h].expiresAt <= MaxLatency
    BY <2>2, <1>t
  <2> QED BY <1>2, <2>1, <2>2, <2>3
<1> QED BY <1>3, <1>4, CommitCases

\* A session that nothing has been issued after since a call in progress
\* arrived is not dropped: the next issue waits until that call is over.
LEMMA NewestStays ==
  ASSUME ShortCalls, TwoSessions, TypeOK, LockProtects, RowsArePast, InOrder, Ranked,
         NEW g \in Handshakes, CommitHandshake(g), NEW kept, IssuesSession(g, kept),
         NEW r \in RowsOf(sessions, call[g].storage), NEW from \in Nat,
         from <= now, now <= from + MaxLatency,
         \A q \in RowsOf(sessions, call[g].storage) :
           q.key > r.key => q.createdAt >= from + Skew
  PROVE  /\ r \in sessions'
         /\ \A q \in RowsOf(sessions', call[g].storage) :
              q.key > r.key => q.createdAt >= from + Skew
<1> DEFINE s == call[g].storage
           rows == RowsOf(sessions, s)
<1>t. /\ now \in Nat /\ MaxLatency \in Nat /\ FRESH_FOR \in Nat /\ Skew \in Int
      /\ \A q \in rows : /\ q.key \in Nat /\ q.createdAt \in Int /\ q.expiresAt \in Nat
                         /\ q \in sessions /\ q.storage = s
  BY SessionTypes, TimesAssumption, SkewAssumption DEF TypeOK, RowsOf
<1>1. /\ kept \in KeptRows(rows, MAX_NUMBER_OF_ACTIVE_SESSIONS, "expiresAt")
      /\ sessions' = DeleteOthers(sessions, s, kept) \cup {NewSession(g)}
      /\ kept \subseteq rows
  BY DEF IssuesSession, KeptRows, Top
<1>2. r \in kept
  <2> SUFFICES ASSUME r \notin kept PROVE FALSE
    OBVIOUS
  <2>1. IsFiniteSet(rows)
    BY FS_Subset DEF RowsOf, RowsArePast
  <2>2. IsFiniteSet(kept) /\ Cardinality(kept) = MAX_NUMBER_OF_ACTIVE_SESSIONS - 1
    BY <1>1, <2>1, KeptByLimit, LimitsAssumption
  <2>3. kept # {}
    BY <2>2, FS_EmptySet, LimitsAssumption DEF TwoSessions
  <2>4. PICK q \in kept : Precedes(q, r, "expiresAt")
    BY <1>1, <2>3 DEF KeptRows, Top
  <2>5. q \in rows /\ q # r /\ q.expiresAt >= r.expiresAt
    BY <1>1, <1>t, <2>4 DEF Precedes
  <2>6. q.key > r.key
    <3>1. q.key >= r.key
      BY <1>t, <2>5, ExpiryRanks DEF InOrder
    <3>2. q.key # r.key
      BY <1>t, <2>5 DEF InOrder, RowsNumbered, Numbered
    <3>3. q.key \in Nat /\ r.key \in Nat
      BY <1>t, <2>5
    <3> QED BY <3>1, <3>2, <3>3
  <2>7. q.createdAt >= from + Skew
    BY <2>5, <2>6
  <2>8. NOW - q.createdAt >= FRESH_FOR + Skew
    BY <2>5, IssuedWhenStale
  <2> QED BY <2>5, <2>7, <2>8, <1>t DEF NOW, ShortCalls
<1>3. ASSUME NEW q \in RowsOf(sessions', s), q.key > r.key
      PROVE  q.createdAt >= from + Skew
  <2>1. CASE q = NewSession(g)
    <3>1. NewSession(g).createdAt = now + Skew
      BY NewSessionFields DEF CommitHandshake, InOrder
    <3> QED BY <2>1, <3>1, <1>t
  <2>2. CASE q # NewSession(g)
    BY <1>1, <1>3, <2>2 DEF RowsOf, DeleteOthers
  <2> QED BY <2>1, <2>2
<1>4. r \in sessions'
  BY <1>1, <1>2 DEF DeleteOthers, RowsOf
<1> QED BY <1>3, <1>4

LEMMA StandInit == Init => AnswersStand
BY DEF Init, AnswersStand

LEMMA StandStep ==
  ASSUME ShortCalls, TwoSessions, TypeOK, LockProtects, RowsArePast, InOrder, Ranked,
         AnswersStand, [Next]_vars
  PROVE  AnswersStand'
<1> SUFFICES ASSUME NEW h \in Handshakes, pc'[h] = "reply"
             PROVE  \E r \in RowsOf(sessions, call[h].storage)' : Stands(call[h], r)'
  BY DEF AnswersStand
<1>1. CASE CommitHandshake(h)
  BY <1>1, CommitStands
<1>2. CASE pc[h] = "reply" /\ call'[h] = call[h]
  <2> DEFINE s == call[h].storage
  <2>1. PICK r \in RowsOf(sessions, s) : Stands(call[h], r)
    BY <1>2 DEF AnswersStand
  <2>2. call[h].from \in Nat /\ call[h].from <= now /\ now <= call[h].from + MaxLatency
    BY <1>2 DEF InOrder, CallsInTime, TypeOK, Call
  <2>3. ASSUME r \in RowsOf(sessions', s),
               \A q \in RowsOf(sessions', s) : q.key > r.key => q.createdAt >= call[h].from + Skew
        PROVE  \E q \in RowsOf(sessions, call[h].storage)' : Stands(call[h], q)'
    <3>1. Stands(call[h], r)'
      BY <1>2, <2>1, <2>3 DEF Stands, RowsOf
    <3> QED BY <1>2, <2>3, <3>1 DEF RowsOf
  <2>4. CASE RowsOf(sessions', s) = RowsOf(sessions, s)
    BY <2>1, <2>3, <2>4 DEF Stands
  <2>5. ASSUME NEW g \in Handshakes, NEW kept, CommitHandshake(g), IssuesSession(g, kept),
               call[g].storage = s
        PROVE  \E q \in RowsOf(sessions, call[h].storage)' : Stands(call[h], q)'
    <3>1. \A q \in RowsOf(sessions, s) : q.key > r.key => q.createdAt >= call[h].from + Skew
      BY <2>1 DEF Stands
    <3>2. /\ r \in sessions'
          /\ \A q \in RowsOf(sessions', s) : q.key > r.key => q.createdAt >= call[h].from + Skew
      BY <2>1, <2>2, <2>5, <3>1, NewestStays
    <3> QED BY <2>1, <2>3, <3>2 DEF RowsOf
  <2>6. ASSUME NEW g \in Handshakes, CommitHandshake(g), call[g].storage # s
        PROVE  RowsOf(sessions', s) = RowsOf(sessions, s)
    BY <2>6, CommitOwnStorage DEF RowsOf
  <2>7. CASE UNCHANGED sessions
    BY <2>4, <2>7
  <2> QED BY <2>4, <2>5, <2>6, <2>7, SessionsChange
<1> QED BY <1>1, <1>2, ReplyStep

\* The expiry an answer announces is that of the stored session it hands out,
\* give or take FRESH_FOR, the clocks and a call (AnnouncedExpiry), when calls
\* are short and a storage may have two sessions.
THEOREM AnnouncedExpiryStands ==
  ASSUME ShortCalls, TwoSessions PROVE Spec => []AnnouncedExpiry
<1>1. TypeOK /\ LockProtects /\ RowsArePast /\ InOrder /\ Ranked /\ [Next]_vars => Ranked'
  BY RankedStep
<1>2. TypeOK /\ LockProtects /\ RowsArePast /\ InOrder /\ Ranked /\ AnswersStand
        /\ [Next]_vars => AnswersStand'
  BY StandStep
<1>3. AnswersStand => AnnouncedExpiry
  BY DEF AnswersStand, Stands, AnnouncedExpiry
<1> QED
  BY <1>1, <1>2, <1>3, TypeInit, TypeStep, LockInit, LockStep, PastInit, PastStep,
     OrderInit, OrderStep, RankedInit, StandInit, PTL DEF Spec

\* The session an answer hands out is one getBackupStoragesInfo still finds
\* (AnsweredSessionIsActive), when also sessions live long enough.
THEOREM AnsweredSessionLives ==
  ASSUME ShortCalls, TwoSessions, LongLife PROVE Spec => []AnsweredSessionIsActive
<1>1. TypeOK /\ LockProtects /\ RowsArePast /\ InOrder /\ Ranked /\ [Next]_vars => Ranked'
  BY RankedStep
<1>2. TypeOK /\ LockProtects /\ RowsArePast /\ InOrder /\ Ranked /\ AnswersStand
        /\ [Next]_vars => AnswersStand'
  BY StandStep
<1>3. TypeOK /\ InOrder /\ AnswersStand => AnsweredSessionIsActive
  <2> SUFFICES ASSUME TypeOK, InOrder, AnswersStand, NEW h \in Handshakes, pc[h] = "reply"
               PROVE  \E r \in RowsOf(sessions, call[h].storage) :
                        r.key = call[h].newSessionKey /\ r.expiresAt > NOW
    BY DEF AnsweredSessionIsActive
  <2>1. PICK r \in RowsOf(sessions, call[h].storage) : Stands(call[h], r)
    BY DEF AnswersStand
  <2>2. /\ call[h].expiresAt = call[h].from + SESSION_LIFE /\ call[h].from \in Nat
        /\ call[h].from <= now /\ now <= call[h].from + MaxLatency /\ now \in Nat
        /\ r.expiresAt \in Nat
    BY SessionTypes DEF InOrder, CallsInTime, TypeOK, Call, RowsOf
  <2>3. r.expiresAt > NOW
    BY <2>1, <2>2, TimesAssumption, SkewAssumption DEF Stands, NOW, ShortCalls, LongLife
  <2> QED BY <2>1, <2>3 DEF Stands
<1> QED
  BY <1>1, <1>2, <1>3, TypeInit, TypeStep, LockInit, LockStep, PastInit, PastStep,
     OrderInit, OrderStep, RankedInit, StandInit, PTL DEF Spec

=============================================================================
