---------------------------- MODULE Handshake ----------------------------
(* The handshakes of backup storages with the bridge, and the registration  *)
(* of a backup storage (generateScm), over the three tables they share.     *)
(*                                                                          *)
(* A backup storage presents a verify key; the bridge looks the key up,     *)
(* records the storage's URL, and then, in one transaction that locks the   *)
(* storage's verify keys, hands out a verify key and a session key: the     *)
(* latest stored one while it is younger than FRESH_FOR, a new one (which   *)
(* pushes the oldest ones out) otherwise.  generateScm creates the storage, *)
(* clears its verify keys and saves a first one, in three statements that   *)
(* no transaction joins.                                                    *)
(*                                                                          *)
(* Every action is one database round trip of one call: calls interleave    *)
(* exactly at their awaits.  Writes of an open transaction are invisible    *)
(* until it commits, so the statements after the locking read are a single  *)
(* action.                                                                  *)
EXTENDS Integers, FiniteSets

CONSTANTS
  Ids, Corporates,      \* ids of backup storages; the corporates (tenants)
  Urls, NullUrl, NoRow, \* values of backup_storage.url; no such row
  Handshakes,           \* handshake calls that may be in progress at once
  Registrations,        \* generateScm calls that may be in progress at once
  NoCall,               \* what an idle handler holds
  REVOKE_VERIFY_KEY_AFTER, MAX_NUMBER_OF_ACTIVE_SESSIONS,
  FRESH_FOR,            \* age below which the latest key is handed out again
  SESSION_LIFE,         \* BACKUP_STORAGE_EXPIRATION_TIME_IN_MINUTES
  Skew,                 \* how far the database's clock is ahead of the bridge's
  MaxLatency,           \* bound: time a call may take
  MaxTime, MaxKeys      \* bounds: the clock, the verify keys ever stored

ASSUME LimitsAssumption ==
  /\ REVOKE_VERIFY_KEY_AFTER \in Nat \ {0}
  /\ MAX_NUMBER_OF_ACTIVE_SESSIONS \in Nat \ {0}

ASSUME TimesAssumption ==
  /\ FRESH_FOR \in Nat /\ SESSION_LIFE \in Nat /\ MaxLatency \in Nat
  /\ MaxTime \in Nat /\ MaxKeys \in Nat

ASSUME SkewAssumption == Skew \in Int

ASSUME MarkersAssumption ==
  /\ NullUrl \notin Urls /\ NoRow \notin Urls /\ NullUrl # NoRow

VARIABLES
  now,            \* the clock of the bridge
  backupStorage,  \* table backup_storage: the url of each row, or NoRow
  verifyKeys,     \* table backup_storage_verify_key
  sessions,       \* table backup_storage_active_session
  lastKey,        \* verify keys and session keys stored so far: each new
  lastSession,    \*   one is a number no row ever had
  pc, call,       \* the handshake calls
  regPc, reg      \* the generateScm calls

vars == <<now, backupStorage, verifyKeys, sessions, lastKey, lastSession,
          pc, call, regPc, reg>>

----------------------------------------------------------------------------
(* The tables and the calls.                                                *)

Storage == [id : Ids, corporateId : Corporates]
VerifyKeyRow == [storage : Storage, key : Nat, createdAt : Int]
SessionRow == [storage : Storage, key : Nat, createdAt : Int, expiresAt : Nat]

\* A handshake call: what it was sent, the expiry it computed on arrival,
\* the storage the presented key belongs to, the rows its transaction has
\* read, and the keys it answers with.
Call == [from : Nat, corporateId : Corporates, verifyKey : Nat, url : Urls,
         expiresAt : Nat, storage : Storage \cup {NoRow},
         keysRead : SUBSET VerifyKeyRow, sessionsRead : SUBSET SessionRow,
         newVerifyKey : Nat, newSessionKey : Nat]

Steps == {"idle", "lookup", "update", "lock", "write", "reply"}
RegSteps == {"idle", "clear", "save", "email"}

\* The clock of the database, which dates created_at (DEFAULT
\* CURRENT_TIMESTAMP) and is what expiresAt is compared with (NOW()); the
\* bridge computes expiresAt and the age of a row with its own.
NOW == now + Skew

RowsOf(table, s) == {r \in table : r.storage = s}

Newer(rows, r) == {q \in rows : q.storage = r.storage /\ q.createdAt >= r.createdAt /\ q # r}

\* ORDER BY column DESC.  created_at counts microseconds, so rows created at
\* the same time of this clock still differ; rows with one expiresAt come in
\* any order.
Precedes(r, q, column) ==
  \/ r[column] > q[column]
  \/ r[column] = q[column] /\ (column = "createdAt" => r.key >= q.key)

\* Deviation: the rows are read in ascending order.
OldestFirst(rows, column) == {r \in rows : \A q \in rows : r[column] <= q[column]}

\* data[0] of the sorted rows.
Latest(rows, column) == {r \in rows : \A q \in rows : Precedes(r, q, column)}

\* rows.slice(0, n) of the sorted rows.
Top(rows, n, column) ==
  {K \in SUBSET rows :
     /\ Cardinality(K) <= n
     /\ K # rows => Cardinality(K) = n
     /\ \A r \in K, q \in rows \ K : Precedes(r, q, column)}

\* Deviation: the two times are subtracted the wrong way round.
IsFreshSwapped(r) == r.createdAt - now < FRESH_FOR

\* Deviation: a new key is issued each time.
IsNeverFresh(r) == FALSE

\* getKeysToSaveAndNewOne: the latest row is recent enough to be handed out.
IsFresh(r) == now - r.createdAt < FRESH_FOR

\* Deviation: the list is not cut again after the new key was added.
KeptRowsUncut(rows, limit, column) == Top(rows, limit, column)

\* Deviation: every key but the new one is deleted.
KeptRowsNone(rows, limit, column) == {{}}

\* The rows kept beside the new one: the new key goes in front of the rows
\* read and the list is cut to its first limit entries.
KeptRows(rows, limit, column) == Top(rows, limit - 1, column)

\* DELETE ... WHERE corporateId AND backupStorageId AND key NOT IN (kept)
DeleteOthers(table, s, kept) == {r \in table : r.storage # s \/ r \in kept}

Busy == {h \in Handshakes : pc[h] # "idle"}
BusyRegs == {p \in Registrations : regPc[p] # "idle"}

\* Bound: the calls in progress cannot exceed the verify keys left to issue.
RoomForKey ==
  lastKey + Cardinality(Busy) + Cardinality(BusyRegs) < MaxKeys

Init ==
  /\ now = 0
  /\ backupStorage = [s \in Storage |-> NoRow]
  /\ verifyKeys = {}
  /\ sessions = {}
  /\ lastKey = 0
  /\ lastSession = 0
  /\ pc = [h \in Handshakes |-> "idle"]
  /\ call = [h \in Handshakes |-> NoCall]
  /\ regPc = [p \in Registrations |-> "idle"]
  /\ reg = [p \in Registrations |-> NoCall]

----------------------------------------------------------------------------
(* Row locks.  A transaction in "write" has locked the verify keys of its   *)
(* storage.  InnoDB locks the gap when there is no row to lock: gap locks   *)
(* do not exclude each other, only inserts into the gap.                    *)

Holders(s) == {h \in Handshakes : pc[h] = "write" /\ call[h].storage = s}

\* Deviation: the rows are read without FOR UPDATE.
MayReadUnlocked(s) == TRUE

MayLock(s) == Holders(s) = {} \/ RowsOf(verifyKeys, s) = {}

MayInsert(h) == Holders(call[h].storage) = {h}

----------------------------------------------------------------------------
(* The handshake.                                                           *)

\* The call arrives.  A caller knows at most the keys that were ever stored;
\* 0 is a key that was not.
BeginHandshake(h, c, k, u) ==
  /\ pc[h] = "idle"
  /\ (\E r \in verifyKeys : r.key = k) => RoomForKey
  /\ pc' = [pc EXCEPT ![h] = "lookup"]
  /\ call' = [call EXCEPT ![h] =
       [from |-> now, corporateId |-> c, verifyKey |-> k, url |-> u,
        expiresAt |-> now + SESSION_LIFE, storage |-> NoRow,
        keysRead |-> {}, sessionsRead |-> {},
        newVerifyKey |-> 0, newSessionKey |-> 0]]
  /\ UNCHANGED <<now, backupStorage, verifyKeys, sessions, lastKey,
                 lastSession, regPc, reg>>

Presented(c, k) == {r \in verifyKeys : r.key = k /\ r.storage.corporateId = c}

FindVerifyKey(h) ==
  /\ pc[h] = "lookup"
  /\ \E r \in Presented(call[h].corporateId, call[h].verifyKey) :
       call' = [call EXCEPT ![h].storage = r.storage]
  /\ pc' = [pc EXCEPT ![h] = "update"]
  /\ UNCHANGED <<now, backupStorage, verifyKeys, sessions, lastKey,
                 lastSession, regPc, reg>>

\* Deviation: the handshake goes on when no row is found.
IgnoreMissingKey(h) ==
  /\ pc[h] = "lookup"
  /\ Presented(call[h].corporateId, call[h].verifyKey) = {}
  /\ pc' = [pc EXCEPT ![h] = "update"]
  /\ UNCHANGED <<now, backupStorage, verifyKeys, sessions, lastKey,
                 lastSession, call, regPc, reg>>

\* ForbiddenException('Invalid verify key')
RefuseHandshake(h) ==
  /\ pc[h] = "lookup"
  /\ Presented(call[h].corporateId, call[h].verifyKey) = {}
  /\ pc' = [pc EXCEPT ![h] = "idle"]
  /\ call' = [call EXCEPT ![h] = NoCall]
  /\ UNCHANGED <<now, backupStorage, verifyKeys, sessions, lastKey,
                 lastSession, regPc, reg>>

\* Deviation: the url is only written when there is none.
KeepFirstUrl(h) ==
  /\ pc[h] = "update"
  /\ backupStorage' = [backupStorage EXCEPT ![call[h].storage] =
                         IF @ = NullUrl THEN call[h].url ELSE @]
  /\ pc' = [pc EXCEPT ![h] = "lock"]
  /\ UNCHANGED <<now, verifyKeys, sessions, lastKey, lastSession, call,
                 regPc, reg>>

\* Deviation: the update does not compare corporateId.
UpdateUrlById(h) ==
  /\ pc[h] = "update"
  /\ backupStorage' = [s \in Storage |->
       IF backupStorage[s] = NoRow \/ s.id # call[h].storage.id
       THEN backupStorage[s] ELSE call[h].url]
  /\ pc' = [pc EXCEPT ![h] = "lock"]
  /\ UNCHANGED <<now, verifyKeys, sessions, lastKey, lastSession, call,
                 regPc, reg>>

\* The url is written before the transaction and committed on its own.
UpdateUrl(h) ==
  /\ pc[h] = "update"
  /\ backupStorage' = [backupStorage EXCEPT ![call[h].storage] =
                         IF @ = NoRow THEN NoRow ELSE call[h].url]
  /\ pc' = [pc EXCEPT ![h] = "lock"]
  /\ UNCHANGED <<now, verifyKeys, sessions, lastKey, lastSession, call,
                 regPc, reg>>

\* SELECT ... FOR UPDATE of the storage's verify keys, then a plain read of
\* its sessions in the same transaction.
LockVerifyKeys(h) ==
  /\ pc[h] = "lock"
  /\ MayLock(call[h].storage)
  /\ call' = [call EXCEPT
       ![h].keysRead = RowsOf(verifyKeys, call[h].storage),
       ![h].sessionsRead = RowsOf(sessions, call[h].storage)]
  /\ pc' = [pc EXCEPT ![h] = "write"]
  /\ UNCHANGED <<now, backupStorage, verifyKeys, sessions, lastKey,
                 lastSession, regPc, reg>>

\* Deviation: the key the storage presented is handed out again.
ReusePresentedKey(h, k) ==
  /\ \E r \in Latest(call[h].keysRead, "createdAt") : IsFresh(r)
  /\ k = call[h].verifyKey
  /\ UNCHANGED <<verifyKeys, lastKey>>

\* handleSavingOfNewVerifyKey: the latest key is handed out again ...
ReuseVerifyKey(h, k) ==
  /\ \E r \in Latest(call[h].keysRead, "createdAt") : IsFresh(r) /\ r.key = k
  /\ UNCHANGED <<verifyKeys, lastKey>>

\* ... or a new one is stored and the oldest are deleted.
IssueVerifyKey(h, k) ==
  LET s == call[h].storage
      new == [storage |-> s, key |-> k, createdAt |-> NOW]
  IN /\ \/ call[h].keysRead = {}
        \/ \E r \in Latest(call[h].keysRead, "createdAt") : ~IsFresh(r)
     /\ MayInsert(h)
     /\ k = lastKey + 1
     /\ lastKey' = k
     /\ \E kept \in KeptRows(call[h].keysRead, REVOKE_VERIFY_KEY_AFTER, "createdAt") :
          verifyKeys' = DeleteOthers(verifyKeys, s, kept) \cup {new}

\* handleSavingOfNewSessionKey: the same with the sessions, which are ranked
\* by their expiry and not by their age.
ReuseSession(h, k) ==
  /\ \E r \in Latest(call[h].sessionsRead, "expiresAt") : IsFresh(r) /\ r.key = k
  /\ UNCHANGED <<sessions, lastSession>>

IssueSession(h, k) ==
  LET s == call[h].storage
      new == [storage |-> s, key |-> k, createdAt |-> NOW,
              expiresAt |-> call[h].expiresAt]
  IN /\ \/ call[h].sessionsRead = {}
        \/ \E r \in Latest(call[h].sessionsRead, "expiresAt") : ~IsFresh(r)
     /\ k = lastSession + 1
     /\ lastSession' = k
     /\ \E kept \in KeptRows(call[h].sessionsRead, MAX_NUMBER_OF_ACTIVE_SESSIONS, "expiresAt") :
          sessions' = DeleteOthers(sessions, s, kept) \cup {new}

\* The rest of the transaction, and its commit.
CommitHandshake(h) ==
  /\ pc[h] = "write"
  /\ \E k \in 1..(lastKey + 1), x \in 1..(lastSession + 1) :
       /\ ReuseVerifyKey(h, k) \/ IssueVerifyKey(h, k)
       /\ ReuseSession(h, x) \/ IssueSession(h, x)
       /\ call' = [call EXCEPT ![h].newVerifyKey = k, ![h].newSessionKey = x]
  /\ pc' = [pc EXCEPT ![h] = "reply"]
  /\ UNCHANGED <<now, backupStorage, regPc, reg>>

\* The answer leaves the handler.
Answer(h) ==
  /\ pc[h] = "reply"
  /\ pc' = [pc EXCEPT ![h] = "idle"]
  /\ call' = [call EXCEPT ![h] = NoCall]
  /\ UNCHANGED <<now, backupStorage, verifyKeys, sessions, lastKey,
                 lastSession, regPc, reg>>

\* Deviation: a transaction that was rolled back is tried again at once.
RetryTransaction(h) ==
  /\ pc' = [pc EXCEPT ![h] = IF @ = "write" THEN "lock" ELSE "idle"]
  /\ call' = IF pc[h] = "write" THEN call ELSE [call EXCEPT ![h] = NoCall]
  /\ UNCHANGED <<now, backupStorage, verifyKeys, sessions, lastKey,
                 lastSession, regPc, reg>>

\* The call is answered with the error, and nothing is tried again.
AbortHandshake(h) ==
  /\ pc' = [pc EXCEPT ![h] = "idle"]
  /\ call' = [call EXCEPT ![h] = NoCall]
  /\ UNCHANGED <<now, backupStorage, verifyKeys, sessions, lastKey,
                 lastSession, regPc, reg>>

\* Two transactions hold the gap of an empty set of rows and both insert into
\* it: the database rolls one of them back.
DeadlockVictim(h) ==
  /\ pc[h] = "write"
  /\ Holders(call[h].storage) # {h}
  /\ AbortHandshake(h)

\* A statement fails: the open transaction, if any, is rolled back.
FailHandshake(h) ==
  /\ pc[h] \in {"lookup", "update", "lock", "write"}
  /\ AbortHandshake(h)

----------------------------------------------------------------------------
(* generateScm.                                                             *)

\* Deviation: the upsert writes every column of the row.
UpsertWholeRow(p, s) ==
  /\ regPc[p] = "idle"
  /\ RoomForKey
  /\ backupStorage' = [backupStorage EXCEPT ![s] = NullUrl]
  /\ regPc' = [regPc EXCEPT ![p] = "clear"]
  /\ reg' = [reg EXCEPT ![p] = [storage |-> s, key |-> 0]]
  /\ UNCHANGED <<now, verifyKeys, sessions, lastKey, lastSession, pc, call>>

\* upsert of {id, corporateId}: the url of an existing row stays.
UpsertBackupStorage(p, s) ==
  /\ regPc[p] = "idle"
  /\ RoomForKey
  /\ backupStorage' = [backupStorage EXCEPT ![s] = IF @ = NoRow THEN NullUrl ELSE @]
  /\ regPc' = [regPc EXCEPT ![p] = "clear"]
  /\ reg' = [reg EXCEPT ![p] = [storage |-> s, key |-> 0]]
  /\ UNCHANGED <<now, verifyKeys, sessions, lastKey, lastSession, pc, call>>

\* The delete waits for the row locks of an open handshake.
ClearVerifyKeys(p) ==
  /\ regPc[p] = "clear"
  /\ MayLock(reg[p].storage)
  /\ verifyKeys' = verifyKeys \ RowsOf(verifyKeys, reg[p].storage)
  /\ regPc' = [regPc EXCEPT ![p] = "save"]
  /\ UNCHANGED <<now, backupStorage, sessions, lastKey, lastSession, pc, call, reg>>

\* Deviation: the delete is not awaited, and comes after the insert.
SaveBeforeClear(p) ==
  /\ regPc[p] = "save"
  /\ Holders(reg[p].storage) = {}
  /\ lastKey' = lastKey + 1
  /\ verifyKeys' = verifyKeys \ RowsOf(verifyKeys, reg[p].storage)
  /\ regPc' = [regPc EXCEPT ![p] = "email"]
  /\ reg' = [reg EXCEPT ![p].key = lastKey + 1]
  /\ UNCHANGED <<now, backupStorage, sessions, lastSession, pc, call>>

SaveVerifyKey(p) ==
  /\ regPc[p] = "save"
  /\ Holders(reg[p].storage) = {}
  /\ lastKey' = lastKey + 1
  /\ verifyKeys' = verifyKeys \cup
       {[storage |-> reg[p].storage, key |-> lastKey + 1, createdAt |-> NOW]}
  /\ regPc' = [regPc EXCEPT ![p] = "email"]
  /\ reg' = [reg EXCEPT ![p].key = lastKey + 1]
  /\ UNCHANGED <<now, backupStorage, sessions, lastSession, pc, call>>

\* The event that mails the key is emitted and the call answered.
EmitEmail(p) ==
  /\ regPc[p] = "email"
  /\ regPc' = [regPc EXCEPT ![p] = "idle"]
  /\ reg' = [reg EXCEPT ![p] = NoCall]
  /\ UNCHANGED <<now, backupStorage, verifyKeys, sessions, lastKey,
                 lastSession, pc, call>>

\* A statement fails: what the earlier ones did stays.
FailRegistration(p) ==
  /\ regPc[p] \in {"clear", "save"}
  /\ regPc' = [regPc EXCEPT ![p] = "idle"]
  /\ reg' = [reg EXCEPT ![p] = NoCall]
  /\ UNCHANGED <<now, backupStorage, verifyKeys, sessions, lastKey,
                 lastSession, pc, call>>

----------------------------------------------------------------------------
(* The environment.                                                         *)

\* The process dies with every call in progress; the database rolls back.
Crash ==
  /\ Busy # {} \/ BusyRegs # {}
  /\ pc' = [h \in Handshakes |-> "idle"]
  /\ call' = [h \in Handshakes |-> NoCall]
  /\ regPc' = [p \in Registrations |-> "idle"]
  /\ reg' = [p \in Registrations |-> NoCall]
  /\ UNCHANGED <<now, backupStorage, verifyKeys, sessions, lastKey, lastSession>>

\* Bounds: the clock stops at MaxTime, no handshake takes more than MaxLatency.
Tick ==
  /\ now < MaxTime
  /\ \A h \in Busy : now < call[h].from + MaxLatency
  /\ now' = now + 1
  /\ UNCHANGED <<backupStorage, verifyKeys, sessions, lastKey, lastSession,
                 pc, call, regPc, reg>>

HandshakeStep(h) ==
  \/ FindVerifyKey(h) \/ RefuseHandshake(h) \/ UpdateUrl(h)
  \/ LockVerifyKeys(h) \/ CommitHandshake(h) \/ Answer(h)
  \/ DeadlockVictim(h)

RegistrationStep(p) == ClearVerifyKeys(p) \/ SaveVerifyKey(p) \/ EmitEmail(p)

\* What a call does before its result leaves the service.
ServeHandshake(h) ==
  \/ \E c \in Corporates, k \in 0..lastKey, u \in Urls : BeginHandshake(h, c, k, u)
  \/ FindVerifyKey(h)
  \/ RefuseHandshake(h)
  \/ UpdateUrl(h)
  \/ LockVerifyKeys(h)
  \/ CommitHandshake(h)
  \/ DeadlockVictim(h)
  \/ FailHandshake(h)

ServeRegistration(p) ==
  \/ \E s \in Storage : UpsertBackupStorage(p, s)
  \/ ClearVerifyKeys(p)
  \/ SaveVerifyKey(p)
  \/ FailRegistration(p)

Next ==
  \/ \E h \in Handshakes : ServeHandshake(h) \/ Answer(h)
  \/ \E p \in Registrations : ServeRegistration(p) \/ EmitEmail(p)
  \/ Crash
  \/ Tick

Spec == Init /\ [][Next]_vars

\* Node runs every continuation whose promise has settled, and InnoDB grants
\* the locks it queues in order, so a waiting call is not overtaken for ever.
FairSpec ==
  /\ Spec
  /\ \A h \in Handshakes : SF_vars(HandshakeStep(h))
  /\ \A p \in Registrations : SF_vars(RegistrationStep(p))

----------------------------------------------------------------------------
(* Properties.                                                              *)

\* The type invariant: every table holds rows of its type, and a call in
\* progress holds a call record, with a storage once its lookup has succeeded.
TypeOK ==
  /\ now \in Nat
  /\ backupStorage \in [Storage -> Urls \cup {NullUrl, NoRow}]
  /\ verifyKeys \in SUBSET VerifyKeyRow
  /\ sessions \in SUBSET SessionRow
  /\ lastKey \in Nat /\ lastSession \in Nat
  /\ pc \in [Handshakes -> Steps]
  /\ call \in [Handshakes -> Call \cup {NoCall}]
  /\ \A h \in Handshakes :
       /\ pc[h] # "idle" => call[h] \in Call
       /\ pc[h] \notin {"idle", "lookup"} => call[h].storage \in Storage
  /\ regPc \in [Registrations -> RegSteps]
  /\ reg \in [Registrations -> [storage : Storage, key : Nat] \cup {NoCall}]
  /\ \A p \in Registrations :
       regPc[p] # "idle" => reg[p] \in [storage : Storage, key : Nat]

\* However handshakes interleave, fail or deadlock, a storage never has more
\* than MAX_NUMBER_OF_ACTIVE_SESSIONS sessions: the transaction that adds one
\* cuts the list it read under the lock, and nothing added to it since.
SessionLimit ==
  \A s \in Storage :
    Cardinality(RowsOf(sessions, s)) <= MAX_NUMBER_OF_ACTIVE_SESSIONS

\* What the lock is for.  The rows an open transaction has read are the rows
\* of its storage until it commits, and two transactions are open on one
\* storage only while it has no verify key to lock.
SnapshotIsCurrent ==
  \A h \in Handshakes :
    pc[h] = "write" =>
      /\ call[h].keysRead = RowsOf(verifyKeys, call[h].storage)
      /\ call[h].sessionsRead = RowsOf(sessions, call[h].storage)

LockExcludes ==
  \A g, h \in Handshakes :
    pc[g] = "write" /\ pc[h] = "write" /\ g # h /\ call[g].storage = call[h].storage =>
      call[g].keysRead = {}

LockProtects == SnapshotIsCurrent /\ LockExcludes

\* The tables are finite, every row was created before now, and numbered
\* before the next key.
RowsArePast ==
  /\ IsFiniteSet(verifyKeys) /\ IsFiniteSet(sessions)
  /\ \A r \in verifyKeys : r.key <= lastKey /\ r.createdAt <= NOW
  /\ \A r \in sessions : r.key <= lastSession /\ r.createdAt <= NOW

\* Two sessions of a storage are issued at least FRESH_FOR apart, give or take
\* what the clocks differ by (an age is the bridge's time less the database's):
\* handshakes at the same time agree on one session instead of burning one
\* each (getKeysToSaveAndNewOne, "do not save new key and return latest key").
\* The code looks at the session that expires last, not at the latest one, so
\* this needs calls that take less than FRESH_FOR + Skew.
SessionsSpaced ==
  \A r, q \in sessions :
    r.storage = q.storage /\ r # q /\ r.createdAt <= q.createdAt =>
      q.createdAt - r.createdAt >= FRESH_FOR + Skew

\* Sorting sessions by expiry ranks them by age: the expiry is computed when
\* a call arrives and the row is written after it waited for the lock, and
\* still no session expires before one that is older.
ExpiryRanksByAge ==
  \A r, q \in sessions :
    r.storage = q.storage /\ r.createdAt < q.createdAt => r.expiresAt < q.expiresAt

\* The answer announces the expiry this call computed, also when it hands out
\* a session stored by another: the session is stored when the answer leaves,
\* and announced and stored expiry differ by less than FRESH_FOR, the time a
\* call takes and what the clocks differ by.
AnnouncedExpiry ==
  \A h \in Handshakes :
    pc[h] = "reply" =>
      \E r \in RowsOf(sessions, call[h].storage) :
        /\ r.key = call[h].newSessionKey
        /\ \/ call[h].expiresAt = r.expiresAt
           \/ call[h].expiresAt - r.expiresAt < FRESH_FOR + Skew + MaxLatency
        /\ r.expiresAt - call[h].expiresAt <= MaxLatency

\* The session in an answer can still be used: getBackupStoragesInfo, which
\* compares with the clock of the database, finds it.  A clock of the database
\* that is ahead makes rows look younger to the handshake and older to the
\* query, so twice its lead must fit between FRESH_FOR and the life of a
\* session: 2 * Skew + FRESH_FOR + 2 * MaxLatency <= SESSION_LIFE.
AnsweredSessionIsActive ==
  \A h \in Handshakes :
    pc[h] = "reply" =>
      \E r \in RowsOf(sessions, call[h].storage) :
        r.key = call[h].newSessionKey /\ r.expiresAt > NOW

\* A storage that has a session has a url to use it with: the url is written
\* before the transaction that stores the first session, and registering the
\* storage again does not reset it.
SessionsHaveUrl ==
  \A r \in sessions : backupStorage[r.storage] \in Urls

KeysOf(table, s) == {r.key : r \in RowsOf(table, s)}

Commits(h) == pc[h] = "write" /\ pc'[h] = "reply"

Clears(p) == regPc[p] = "clear" /\ regPc'[p] = "save"

KeepsRecentKeys ==
  \A r \in verifyKeys \ verifyKeys' :
    \/ \E p \in Registrations : Clears(p) /\ reg[p].storage = r.storage
    \/ Cardinality(Newer(verifyKeys', r)) >= REVOKE_VERIFY_KEY_AFTER

\* A verify key is revoked by a registration of its storage, or once
\* REVOKE_VERIFY_KEY_AFTER keys at least as recent are stored: a backup storage
\* may lose the answers of that many handshakes but one and still be let in.
KeyRetention == [][KeepsRecentKeys]_vars

\* A session goes only when MAX_NUMBER_OF_ACTIVE_SESSIONS sessions that are as
\* recent and expire no earlier are stored: neither a registration nor a slow
\* handshake drops a session in use before an older one.
SessionRetention ==
  [][\A r \in sessions \ sessions' :
       Cardinality({q \in Newer(sessions', r) : q.expiresAt >= r.expiresAt})
         >= MAX_NUMBER_OF_ACTIVE_SESSIONS]_vars

\* A handshake stores a verify key only when the storage has none younger than
\* FRESH_FOR at that moment: two handshakes at once get the same key, because
\* the second reads the keys after the first has committed.
KeyReuse ==
  [][\A h \in Handshakes :
       Commits(h) /\ verifyKeys' # verifyKeys =>
         \A r \in RowsOf(verifyKeys, call[h].storage) : ~IsFresh(r)]_vars

\* A handshake answers with the newest verify key and the newest session of
\* its storage, reused or not, although keys are ranked by creation, sessions
\* by an expiry computed before the lock was granted, and both are read once.
AnswersNewest ==
  [][\A h \in Handshakes : Commits(h) =>
       LET s == call[h].storage
       IN /\ call'[h].newVerifyKey \in KeysOf(verifyKeys', s)
          /\ call'[h].newSessionKey \in KeysOf(sessions', s)
          /\ \A k \in KeysOf(verifyKeys', s) : k <= call'[h].newVerifyKey
          /\ \A x \in KeysOf(sessions', s) : x <= call'[h].newSessionKey]_vars

\* A handshake writes no row but those of the storage its verify key belongs to,
\* which is one of the corporate the call names, neither url, nor keys, nor
\* sessions; and the keys it answers with are of that storage.  Storages of two
\* corporates may have one id, and each of the reads, updates and deletes of a
\* call names both columns by itself.
OwnStorageOnly ==
  [][\A h \in Handshakes : pc[h] # "idle" /\ pc'[h] # pc[h] =>
       /\ \A s \in Storage :
            s # call[h].storage \/ s.corporateId # call[h].corporateId =>
              /\ backupStorage'[s] = backupStorage[s]
              /\ RowsOf(verifyKeys', s) = RowsOf(verifyKeys, s)
              /\ RowsOf(sessions', s) = RowsOf(sessions, s)
       /\ Commits(h) =>
            /\ call'[h].newVerifyKey \in KeysOf(verifyKeys', call[h].storage)
            /\ call'[h].newSessionKey \in KeysOf(sessions', call[h].storage)]_vars

\* What the check of the verify key says ("Invalid verify key"): a handshake
\* succeeds only for a verify key that is valid.  The key is looked up before
\* the transaction, so a registration can revoke it in between.
OnlyValidKeysSucceed ==
  [][\A h \in Handshakes : Commits(h) =>
       Presented(call[h].corporateId, call[h].verifyKey) # {}]_vars

\* The interleaved, time-driven handshakes and registrations implement the
\* rings of KeyRing: each commit is one rotation by the order of issue.
Ring == INSTANCE KeyRing WITH
  KeyLimit <- REVOKE_VERIFY_KEY_AFTER,
  SessionLimit <- MAX_NUMBER_OF_ACTIVE_SESSIONS,
  keyRing <- [s \in Storage |-> KeysOf(verifyKeys, s)],
  sessionRing <- [s \in Storage |-> KeysOf(sessions, s)],
  keysIssued <- lastKey,
  sessionsIssued <- lastSession

ImplementsKeyRing == Ring!RingSpec

\* Every handshake ends: waiting for the lock and deadlocked inserts do not
\* keep it for ever.
HandshakeEnds == \A h \in Handshakes : pc[h] # "idle" ~> pc[h] = "idle"

\* So does every registration, though it waits for the handshakes' locks.
RegistrationEnds ==
  \A p \in Registrations : regPc[p] # "idle" ~> regPc[p] = "idle"

============================================================================
