---------------------------- MODULE KeyGeneration ----------------------------
(* generateKeyPair of the bridge: the private server generates a key, the   *)
(* bridge stores one slice of it in each backup storage of the vault, all   *)
(* at once, and asks the private server to roll the key back when that      *)
(* fails.                                                                   *)
(*                                                                          *)
(* The private server and the servers of the backup storages (SCMs) are     *)
(* outside this repository.  Nothing is assumed of them but that the        *)
(* private server answers alreadyGenerated for a key it has, numbers the    *)
(* keys it generates and deletes a key it is told to roll back, and that an *)
(* SCM that confirms a slice has it.                                        *)
EXTENDS ScmRequests, FiniteSets

CONSTANTS
  Calls,        \* calls of generateKeyPair
  Keys,         \* what keys are asked for (an asset of a vault)
  Storages,     \* ids of backup storages
  StoragesOf,   \* apiApprovalEssential.backupStoragesIds of each key
  NoRow,        \* marks an id getBackupStoragesInfo finds no row for
  MaxKeyId      \* bound: keys the private server generates

ASSUME StoragesOfAssumption == StoragesOf \in [Keys -> SUBSET Storages]
ASSUME KeyIdAssumption == MaxKeyId \in Nat
ASSUME NoRowAssumption == NoRow \notin Request /\ NoRow \notin Nat

VARIABLES
  generated,   \* private server: the id of each key it has, 0 for none
  lastKeyId,   \* private server: ids given so far
  rollbacks,   \* rollbackKeyGeneration events not yet handled
  leftBehind,  \* history: keys of failed calls nobody is left to roll back
  slices,      \* SCMs: the slices they have, <<storage, keyId>>
  pc,          \* calls: where each is
  key,         \* calls: the key asked for
  keyId,       \* calls: the id in the private server's answer
  already,     \* calls: alreadyGenerated in that answer
  request      \* calls: the request to each storage, or NoRow

private == <<generated, lastKeyId>>
events == <<rollbacks, leftBehind>>
vars == <<generated, lastKeyId, rollbacks, leftBehind, slices, pc, key, keyId, already, request>>

Steps == {"idle", "asked", "answered", "read", "store", "succeeded", "failed", "crashed"}

Ids(c) == StoragesOf[key[c]]

\* The calls the private server generated a key for.
Generators == {c \in Calls : keyId[c] # 0 /\ ~already[c]}

Init ==
  /\ generated = [k \in Keys |-> 0]
  /\ lastKeyId = 0
  /\ rollbacks = {}
  /\ leftBehind = {}
  /\ slices = {}
  /\ pc = [c \in Calls |-> "idle"]
  /\ key \in [Calls -> Keys]
  /\ keyId = [c \in Calls |-> 0]
  /\ already = [c \in Calls |-> FALSE]
  /\ request = [c \in Calls |-> [s \in Storages |-> NoRow]]

----------------------------------------------------------------------------
(* The bridge.                                                              *)

\* The call arrives and its payload is sent on to the private server.
AskForKey(c) ==
  /\ pc[c] = "idle"
  /\ pc' = [pc EXCEPT ![c] = "asked"]
  /\ UNCHANGED <<private, events, slices, key, keyId, already, request>>

\* Deviation: alreadyGenerated is not looked at.
StoreAnyway(c) == IF Ids(c) = {} THEN "succeeded" ELSE "read"

\* An existing key is answered with as it is, and a key without storages is
\* kept by the private server alone.
AfterAnswer(c) ==
  IF already[c] \/ Ids(c) = {} THEN "succeeded" ELSE "read"

TakeAnswer(c) ==
  /\ pc[c] = "answered"
  /\ pc' = [pc EXCEPT ![c] = AfterAnswer(c)]
  /\ UNCHANGED <<private, events, slices, key, keyId, already, request>>

\* catch: emit rollbackKeyGeneration, throw BadRequestException.
RollBack(c) ==
  /\ rollbacks' = rollbacks \cup {keyId[c]}
  /\ UNCHANGED leftBehind
  /\ pc' = [pc EXCEPT ![c] = "failed"]

\* Deviation: the failure is answered without the event.
FailOnly(c) ==
  /\ UNCHANGED events
  /\ pc' = [pc EXCEPT ![c] = "failed"]

Abandon(c) == RollBack(c)

\* getBackupStoragesInfo: which storages have a row, and how many active
\* sessions each, is whatever handshakes have left there.
StoreSlices(c, sessions) ==
  /\ pc[c] = "read"
  /\ \A s \in Ids(c) : sessions[s] # NoRow => sessions[s] > 0
  /\ request' = [request EXCEPT ![c] =
       [s \in Storages |-> IF s \notin Ids(c) \/ sessions[s] = NoRow
                           THEN NoRow ELSE StartRequest(sessions[s])]]
  /\ pc' = [pc EXCEPT ![c] = "store"]
  /\ UNCHANGED <<private, events, slices, key, keyId, already>>

\* A storage without an active session (checkAllHaveActiveSessions), or the
\* query fails: nothing has been stored yet.
CannotStore(c) ==
  /\ pc[c] = "read"
  /\ Abandon(c)
  /\ UNCHANGED <<private, slices, key, keyId, already, request>>

Pending(c) == {s \in Ids(c) : request[c][s] # NoRow /\ request[c][s].state = "trying"}

\* A store rejects: no row ("not found") or a request that failed for good.
Failures(c) == {s \in Ids(c) : request[c][s] = NoRow \/ Rejected(request[c][s])}

\* Deviation: Promise.any.
AnyStored(c) == \E s \in Ids(c) : s \notin Failures(c) /\ s \notin Pending(c)

AllStored(c) == Failures(c) = {} /\ Pending(c) = {}

\* Promise.all: fulfilled when every store is ...
FinishStores(c) ==
  /\ pc[c] = "store"
  /\ AllStored(c)
  /\ pc' = [pc EXCEPT ![c] = "succeeded"]
  /\ UNCHANGED <<private, events, slices, key, keyId, already, request>>

\* Deviation: the failure is handled when all stores have ended.
SomeStoreFailedAndAllEnded(c) == Failures(c) # {} /\ Pending(c) = {}

SomeStoreFailed(c) == Failures(c) # {}

\* ... and rejected as soon as one is.  The others go on.
FailStores(c) ==
  /\ pc[c] = "store"
  /\ SomeStoreFailed(c)
  /\ Abandon(c)
  /\ UNCHANGED <<private, slices, key, keyId, already, request>>

\* An answer to a request, also to one whose call has already failed.  Only an
\* SCM that has the slice confirms it.
ScmAnswers(c, s, reply) ==
  /\ s \in Pending(c) /\ pc[c] \in {"store", "failed"}
  /\ reply.body # "garbled"
  /\ reply.status = "ok" => <<s, keyId[c]>> \in slices
  /\ request' = [request EXCEPT ![c][s] = AfterReply(@, reply, FALSE)]
  /\ UNCHANGED <<private, events, slices, pc, key, keyId, already>>

----------------------------------------------------------------------------
(* The private server, the SCMs and the process.                            *)

PrivateServerGenerates(c) ==
  /\ pc[c] = "asked"
  /\ generated[key[c]] = 0
  /\ lastKeyId < MaxKeyId
  /\ lastKeyId' = lastKeyId + 1
  /\ generated' = [generated EXCEPT ![key[c]] = lastKeyId']
  /\ keyId' = [keyId EXCEPT ![c] = lastKeyId']
  /\ pc' = [pc EXCEPT ![c] = "answered"]
  /\ UNCHANGED <<events, slices, key, already, request>>

PrivateServerHasKey(c) ==
  /\ pc[c] = "asked"
  /\ generated[key[c]] # 0
  /\ keyId' = [keyId EXCEPT ![c] = generated[key[c]]]
  /\ already' = [already EXCEPT ![c] = TRUE]
  /\ pc' = [pc EXCEPT ![c] = "answered"]
  /\ UNCHANGED <<private, events, slices, key, request>>

\* An error comes back, or the answer is lost with the connection: the call
\* ends with it, outside the try block, and nothing is rolled back.
PrivateServerFails(c) ==
  /\ pc[c] \in {"asked", "answered"}
  /\ pc' = [pc EXCEPT ![c] = "failed"]
  /\ leftBehind' = leftBehind \cup {keyId[d] : d \in {c} \cap Generators}
  /\ UNCHANGED <<private, rollbacks, slices, key, keyId, already, request>>

PrivateServerRollsBack(id) ==
  /\ id \in rollbacks
  /\ rollbacks' = rollbacks \ {id}
  /\ generated' = [k \in Keys |-> IF generated[k] = id THEN 0 ELSE generated[k]]
  /\ UNCHANGED <<lastKeyId, leftBehind, slices, pc, key, keyId, already, request>>

\* The event is published without confirmation and may be lost.
LoseRollback(id) ==
  /\ id \in rollbacks
  /\ rollbacks' = rollbacks \ {id}
  /\ leftBehind' = leftBehind \cup {id}
  /\ UNCHANGED <<private, slices, pc, key, keyId, already, request>>

\* An SCM stores the slice it was sent, before it answers or long after the
\* bridge has given up on it; a slice sent twice is stored over itself.
ScmStores(c, s) ==
  /\ request[c][s] # NoRow
  /\ slices' = slices \cup {<<s, keyId[c]>>}
  /\ UNCHANGED <<private, events, pc, key, keyId, already, request>>

InProgress == {c \in Calls : pc[c] \in {"asked", "answered", "read", "store"}}

\* The process dies: its calls are never answered.
Crash ==
  /\ InProgress # {}
  /\ pc' = [c \in Calls |-> IF c \in InProgress THEN "crashed" ELSE pc[c]]
  /\ UNCHANGED <<private, events, slices, key, keyId, already, request>>

\* The callers ask for nothing more.
Quiet ==
  /\ \A c \in Calls : pc[c] \in {"succeeded", "failed", "crashed"}
  /\ UNCHANGED vars

BridgeStep(c) ==
  \/ TakeAnswer(c)
  \/ \E sessions \in [Ids(c) -> 0..MAX_NUMBER_OF_ACTIVE_SESSIONS \cup {NoRow}] :
       StoreSlices(c, sessions)
  \/ CannotStore(c) \/ FinishStores(c) \/ FailStores(c)

Next ==
  \/ \E c \in Calls :
       \/ AskForKey(c)
       \/ TakeAnswer(c)
       \/ \E sessions \in [Ids(c) -> 0..MAX_NUMBER_OF_ACTIVE_SESSIONS \cup {NoRow}] :
            StoreSlices(c, sessions)
       \/ CannotStore(c)
       \/ FinishStores(c)
       \/ FailStores(c)
       \/ \E s \in Storages :
            \/ \E reply \in Reply : ScmAnswers(c, s, reply)
            \/ ScmStores(c, s)
       \/ PrivateServerGenerates(c)
       \/ PrivateServerHasKey(c)
       \/ PrivateServerFails(c)
  \/ \E id \in rollbacks : PrivateServerRollsBack(id) \/ LoseRollback(id)
  \/ Crash
  \/ Quiet

Spec == Init /\ [][Next]_vars

\* Only the bridge itself is fair: neither the private server nor an SCM need
\* ever answer (no timeout is set on either).
FairSpec == Spec /\ \A c \in Calls : WF_vars(BridgeStep(c))

----------------------------------------------------------------------------
(* Properties.                                                              *)

\* The type invariant.
TypeOK ==
  /\ generated \in [Keys -> 0..MaxKeyId] /\ lastKeyId \in 0..MaxKeyId
  /\ rollbacks \subseteq 1..MaxKeyId /\ leftBehind \subseteq 1..MaxKeyId
  /\ slices \subseteq Storages \X (1..MaxKeyId)
  /\ pc \in [Calls -> Steps]
  /\ key \in [Calls -> Keys]
  /\ keyId \in [Calls -> 0..MaxKeyId]
  /\ already \in [Calls -> BOOLEAN]
  /\ request \in [Calls -> [Storages -> Request \cup {NoRow}]]

\* A key is complete: the private server has its part and each storage its own.
Complete(c) ==
  /\ generated[key[c]] = keyId[c]
  /\ \A s \in Ids(c) : <<s, keyId[c]>> \in slices

\* Once the call that generated a key has been answered with success, the key
\* is complete and stays so, for it and for every call that was answered
\* alreadyGenerated: no other call's failure, late answer, crash or rollback
\* takes part of it away.  (Until then alreadyGenerated promises nothing: the
\* generating call may still fail and have the key rolled back.)
SuccessIsDurable ==
  \A g \in Generators :
    pc[g] = "succeeded" =>
      \A c \in Calls : pc[c] = "succeeded" /\ keyId[c] = keyId[g] => Complete(c)

\* A rollback is asked for only by the call that generated the key, after it
\* has failed: a call that found the key there never has it deleted.
RollbackOnlyByGenerator ==
  \A id \in rollbacks :
    \E g \in Generators : keyId[g] = id /\ pc[g] = "failed"

\* A key at the private server that lacks a slice is on its way to be completed
\* or given up: the call that generated it has still to store slices, or has
\* failed and its rollback is on its way.  For good, half a key stays only after
\* a crash, the loss of the event, or a failure between the private server's
\* answer and the try block, whatever other calls do with the same key.
HalfKeysAreExplained ==
  \A k \in Keys :
    generated[k] # 0 /\ (\E s \in StoragesOf[k] : <<s, generated[k]>> \notin slices) =>
      \E g \in Generators :
        /\ keyId[g] = generated[k]
        /\ \/ pc[g] \in {"answered", "read", "store", "crashed"}
           \/ keyId[g] \in rollbacks \cup leftBehind

\* Once one store has failed the caller is answered, although the other SCMs
\* may never answer.
FailureIsAnswered ==
  \A c \in Calls :
    pc[c] = "store" /\ Failures(c) # {} ~> pc[c] \in {"failed", "crashed"}

============================================================================
