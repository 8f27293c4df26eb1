---------------------------- MODULE KeyLifecycle ----------------------------
(* The keys of KeyGeneration in use: backup storages are registered, keys   *)
(* generated and their slices stored, and requests to sign (Signing) fetch  *)
(* them again, all at once.  A caller asks to sign with the keys it was     *)
(* given, and names the storages their slices were to be stored in.         *)
(*                                                                          *)
(* Of an SCM it is assumed that it answers with a slice it has, and says    *)
(* 'file not found' only of one it does not have.                           *)
EXTENDS KeyGeneration

VARIABLES
  rows,       \* table backup_storage: the storages that have a row
  signsWith,  \* the request to sign: the id of each key it was sent
  confirmed,  \* history: its keys whose generation had succeeded by then
  begun,      \* history: its keys whose slices were being stored by then
  signPc, error, stage, info, fetch, keyPart  \* the rest of it, as in Signing

requestToSign == <<signsWith, confirmed, begun, signPc, error, stage, info, fetch, keyPart>>

lifecycleVars == <<vars, rows, requestToSign>>

Sign == INSTANCE Signing WITH Signers <- Keys, pc <- signPc, request <- fetch

----------------------------------------------------------------------------

NoKeyIds == [k \in Keys |-> 0]

LifecycleInit ==
  /\ Init
  /\ rows = {}
  /\ signsWith = NoKeyIds
  /\ confirmed = {}
  /\ begun = {}
  /\ Sign!Init

\* A request leaves nothing behind.
ForgetRequest ==
  /\ signsWith' = NoKeyIds
  /\ confirmed' = {}
  /\ begun' = {}
  /\ signPc' = "idle"
  /\ error' = Sign!NoError
  /\ stage' = [k \in Keys |-> "idle"]
  /\ info' = [k \in Keys |-> [s \in Storages |-> NoRow]]
  /\ fetch' = [k \in Keys |-> [s \in Storages |-> NoRow]]
  /\ keyPart' = [k \in Keys |-> {}]

\* The upsert of generateScm.  Nothing deletes a row.
Enroll(s) ==
  /\ s \notin rows
  /\ rows' = rows \cup {s}
  /\ UNCHANGED <<vars, requestToSign>>

\* Deviation: the query drops rows without sessions (an inner join).
FindsRowsWithSessions(ids, sessions) ==
  \A s \in ids : sessions[s] # NoRow => s \in rows /\ sessions[s] > 0

\* The query of getBackupStoragesInfo returns the rows that are there.
FindsRows(ids, sessions) == \A s \in ids : sessions[s] # NoRow <=> s \in rows

SessionCounts(ids) == [ids -> (0..MAX_NUMBER_OF_ACTIVE_SESSIONS) \cup {NoRow}]

\* Generation, by the bridge and those it asks.
Generate(c) ==
  /\ \/ AskForKey(c)
     \/ TakeAnswer(c)
     \/ \E sessions \in SessionCounts(Ids(c)) :
          FindsRows(Ids(c), sessions) /\ StoreSlices(c, sessions)
     \/ CannotStore(c)
     \/ FinishStores(c)
     \/ FailStores(c)
     \/ \E s \in Storages : ScmStores(c, s) \/ (\E reply \in Reply : ScmAnswers(c, s, reply))
     \/ PrivateServerGenerates(c)
     \/ PrivateServerHasKey(c)
     \/ PrivateServerFails(c)
  /\ UNCHANGED <<rows, requestToSign>>

HandleRollback(id) ==
  /\ PrivateServerRollsBack(id) \/ LoseRollback(id)
  /\ UNCHANGED <<rows, requestToSign>>

\* The ids callers were given for a key.
Given(k) == {keyId[c] : c \in {c \in Calls : key[c] = k /\ pc[c] = "succeeded"}}

\* The call that generated a key was answered with success.
Succeeded(id) == \E g \in Generators : pc[g] = "succeeded" /\ keyId[g] = id

\* The call that generated a key has found a row for each of its storages and
\* has sent the slices, whatever has come of it.
Begun(id) ==
  \E g \in Generators : keyId[g] = id /\ \A s \in Ids(g) : request[g][s] # NoRow

\* A request to sign with every key arrives.
AskToSign ==
  /\ signsWith' \in [Keys -> 1..MaxKeyId]
  /\ \A k \in Keys : signsWith'[k] \in Given(k)
  /\ confirmed' = {k \in Keys : Succeeded(signsWith'[k])}
  /\ begun' = {k \in Keys : Begun(signsWith'[k])}
  /\ Sign!Receive
  /\ UNCHANGED <<vars, rows>>

HasSlice(k, s) == <<s, signsWith[k]>> \in slices

\* What an SCM may answer when it is asked for the slice of a key.
SliceReplies(k, s) ==
  IF HasSlice(k, s)
  THEN {reply \in Reply : reply.body \in {"value", "some message", "none"}}
  ELSE {reply \in Reply : reply.body \in {"file not found", "some message", "none"}}

ContinueToSign ==
  /\ \/ \E k \in Keys :
          \/ \E sessions \in SessionCounts(StoragesOf[k]) :
               /\ FindsRows(StoragesOf[k], sessions)
               /\ Sign!StartFetch(k, sessions) \/ Sign!RefuseInactive(k, sessions)
          \/ Sign!FailRead(k)
          \/ \E s \in StoragesOf[k] : \E reply \in SliceReplies(k, s) :
               Sign!ScmAnswers(k, s, reply)
          \/ Sign!RejectFetch(k)
          \/ Sign!JoinSlices(k)
     \/ Sign!SendToPrivateServer
     \/ Sign!PrivateServerSigns
     \/ Sign!PrivateServerRefuses
  /\ UNCHANGED <<vars, rows, signsWith, confirmed, begun>>

\* The request is over, and the caller may send another one.
EndRequest ==
  /\ signPc \in {"signed", "failed"}
  /\ \A k \in Keys : stage[k] \in {"filled", "rejected"}
  /\ ForgetRequest
  /\ UNCHANGED <<vars, rows>>

\* The process dies, with every call and the request.
ProcessEnds ==
  /\ Crash \/ (UNCHANGED vars /\ signPc # "idle")
  /\ ForgetRequest
  /\ UNCHANGED rows

\* Nobody asks for anything more.
Rest ==
  /\ Quiet /\ signPc = "idle"
  /\ UNCHANGED <<rows, requestToSign>>

LifecycleNext ==
  \/ \E s \in Storages : Enroll(s)
  \/ \E c \in Calls : Generate(c)
  \/ \E id \in rollbacks : HandleRollback(id)
  \/ AskToSign
  \/ ContinueToSign
  \/ EndRequest
  \/ ProcessEnds
  \/ Rest

LifecycleSpec == LifecycleInit /\ [][LifecycleNext]_lifecycleVars

StoreStep(c) ==
  /\ FinishStores(c) \/ FailStores(c)
  /\ UNCHANGED <<rows, requestToSign>>

\* As in KeyGeneration: the bridge handles what its stores have come to.
FairLifecycleSpec ==
  LifecycleSpec /\ \A c \in Calls : WF_lifecycleVars(StoreStep(c))

----------------------------------------------------------------------------
(* Properties.                                                              *)

\* A transaction is signed with the whole key if the call that generated the
\* key had succeeded when the request came: the query of the rows drops storages
\* that are not registered without an error, but that call needed a row for
\* each of them, and rows stay; no rollback comes for it.  (A caller that was
\* answered alreadyGenerated for a half-stored key has no such promise.)
SignsWithWholeKey ==
  signPc \in {"signing", "signed"} =>
    \A k \in confirmed : keyPart[k] = StoragesOf[k] /\ generated[k] = signsWith[k]

\* The slices of such a key are found again: signing with it fails because a
\* storage cannot be reached, never because a slice is missing.
ConfirmedKeyIsFound ==
  \A k \in confirmed : \A s \in StoragesOf[k] :
    fetch[k][s] # NoRow => fetch[k][s].state # "KeyNotFoundInSCM"

\* The same for a caller that was answered alreadyGenerated while the key was
\* still being stored, or that signs after the generation has failed: it gets
\* the whole key or nothing.  A transaction signed for it has all slices, and
\* each of them is where it was to be stored, however stores, fetches, failures
\* and crashes interleave.  (If the storing has not begun, a storage that is not
\* registered yet is left out of the signature without an error.)
EarlySignerGetsAllOrNothing ==
  signPc \in {"signing", "signed"} =>
    \A k \in begun :
      keyPart[k] = StoragesOf[k] /\ \A s \in StoragesOf[k] : HasSlice(k, s)

============================================================================
