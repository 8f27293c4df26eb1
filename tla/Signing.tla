------------------------------- MODULE Signing -------------------------------
(* A request to sign a transaction.  For every signer the bridge fetches    *)
(* the slices of the signer's key from its backup storages, all signers and *)
(* storages at once, puts them together, and sends the transaction with the *)
(* key parts of all signers to the private server.                          *)
(*                                                                          *)
(* The six kinds of transaction differ in the command sent to the private   *)
(* server only.  A storage stands for the slice it has; the order in which  *)
(* slices are joined is the subject of KeySplit.                            *)
EXTENDS ScmRequests, FiniteSets

CONSTANTS
  Signers,     \* dto.signers
  Storages,    \* ids of backup storages
  StoragesOf,  \* requestFromApiApproval.backupStoragesIds of each signer
  NoRow        \* marks an id getBackupStoragesInfo finds no row for

ASSUME StoragesOfAssumption == StoragesOf \in [Signers -> SUBSET Storages]
ASSUME NoRowAssumption == NoRow \notin Request /\ NoRow \notin Nat

VARIABLES
  pc,       \* the request to the bridge
  error,    \* what it was rejected with
  stage,    \* of each signer: fillSignersPrivateKeysParts maps over them
  info,     \* of each signer: backupStorageInfo, how many active sessions each
            \*   storage was found with, NoRow for one that was not found
  request,  \* of each signer: the request to each of its storages, or NoRow
  keyPart   \* of each signer: the storages whose slices are in its keyPart

vars == <<pc, error, stage, info, request, keyPart>>

\* kind of the exception, and backupStoragesIds of SCMNotConnected
Errors == [kind : {"none", "SCMNotConnected", "Error", "QueryFailed", "PrivateServerError"},
           storages : SUBSET Storages]

NoError == [kind |-> "none", storages |-> {}]

SCMNotConnected(ids) == [kind |-> "SCMNotConnected", storages |-> ids]

OtherError == [kind |-> "Error", storages |-> {}]

Init ==
  /\ pc = "idle"
  /\ error = NoError
  /\ stage = [g \in Signers |-> "idle"]
  /\ info = [g \in Signers |-> [s \in Storages |-> NoRow]]
  /\ request = [g \in Signers |-> [s \in Storages |-> NoRow]]
  /\ keyPart = [g \in Signers |-> {}]

\* A signer without backup storages has the empty key part at once.
Receive ==
  /\ pc = "idle"
  /\ pc' = "filling"
  /\ stage' = [g \in Signers |-> IF StoragesOf[g] = {} THEN "filled" ELSE "reading"]
  /\ UNCHANGED <<error, info, request, keyPart>>

\* Promise.all over the signers: the first rejection rejects the request, the
\* other signers go on.
RejectSigner(g, e) ==
  /\ stage' = [stage EXCEPT ![g] = "rejected"]
  /\ pc' = IF pc = "filling" THEN "failed" ELSE pc
  /\ error' = IF pc = "filling" THEN e ELSE error

\* The rows getBackupStoragesInfo returns, and how many active sessions each
\* has: whatever handshakes have left there.
Found(sessions) == {s \in DOMAIN sessions : sessions[s] # NoRow}

ReadInfo(g, sessions) ==
  info' = [info EXCEPT ![g] =
    [s \in Storages |-> IF s \in DOMAIN sessions THEN sessions[s] ELSE NoRow]]

\* checkAllHaveActiveSessions looks at the rows that were found.
Inactive(sessions) == {s \in Found(sessions) : sessions[s] = 0}

\* Deviation: the error names all storages that were looked at.
NameAllFound(sessions) == SCMNotConnected(Found(sessions))

NoActiveSession(sessions) == SCMNotConnected(Inactive(sessions))

StartFetch(g, sessions) ==
  /\ stage[g] = "reading"
  /\ Inactive(sessions) = {}
  /\ ReadInfo(g, sessions)
  /\ request' = [request EXCEPT ![g] =
       [s \in Storages |-> IF s \in Found(sessions) THEN StartRequest(sessions[s]) ELSE NoRow]]
  /\ stage' = [stage EXCEPT ![g] = "fetching"]
  /\ UNCHANGED <<pc, error, keyPart>>

RefuseInactive(g, sessions) ==
  /\ stage[g] = "reading"
  /\ Inactive(sessions) # {}
  /\ ReadInfo(g, sessions)
  /\ RejectSigner(g, NoActiveSession(sessions))
  /\ UNCHANGED <<request, keyPart>>

\* The query fails.
FailRead(g) ==
  /\ stage[g] = "reading"
  /\ RejectSigner(g, [kind |-> "QueryFailed", storages |-> {}])
  /\ UNCHANGED <<info, request, keyPart>>

Asked(g) == {s \in Storages : request[g][s] # NoRow}

In(g, state) == {s \in Asked(g) : request[g][s].state = state}

ScmAnswers(g, s, reply) ==
  /\ stage[g] = "fetching"
  /\ s \in In(g, "trying")
  /\ request' = [request EXCEPT ![g][s] = AfterReply(@, reply, TRUE)]
  /\ UNCHANGED <<pc, error, stage, info, keyPart>>

\* Deviation: a rejected request is waited for like a pending one.
AllFulfilled(g) == In(g, "fulfilled") = Asked(g)

AllSettled(g) == In(g, "trying") = {}

Failed(g) == {s \in Asked(g) : Rejected(request[g][s])}

\* One storage that is not connected decides the kind of the error.
FetchError(g) ==
  IF In(g, "SCMNotConnected") # {}
  THEN SCMNotConnected(In(g, "SCMNotConnected")) ELSE OtherError

RejectFetch(g) ==
  /\ stage[g] = "fetching" /\ AllSettled(g)
  /\ Failed(g) # {}
  /\ RejectSigner(g, FetchError(g))
  /\ UNCHANGED <<info, request, keyPart>>

\* Deviation: rejected slices are left out.
NothingFulfilled(g) == In(g, "fulfilled") = {} /\ Asked(g) # {}

MustReject(g) == Failed(g) # {}

\* The slices that came are sorted and joined.
JoinSlices(g) ==
  /\ stage[g] = "fetching" /\ AllSettled(g)
  /\ ~MustReject(g)
  /\ keyPart' = [keyPart EXCEPT ![g] = In(g, "fulfilled")]
  /\ stage' = [stage EXCEPT ![g] = "filled"]
  /\ UNCHANGED <<pc, error, info, request>>

SendToPrivateServer ==
  /\ pc = "filling"
  /\ \A g \in Signers : stage[g] = "filled"
  /\ pc' = "signing"
  /\ UNCHANGED <<error, stage, info, request, keyPart>>

PrivateServerSigns ==
  /\ pc = "signing"
  /\ pc' = "signed"
  /\ UNCHANGED <<error, stage, info, request, keyPart>>

PrivateServerRefuses ==
  /\ pc = "signing"
  /\ pc' = "failed"
  /\ error' = [kind |-> "PrivateServerError", storages |-> {}]
  /\ UNCHANGED <<stage, info, request, keyPart>>

\* The call is over and nothing it started is left running.
Over ==
  /\ pc \in {"signed", "failed"}
  /\ \A g \in Signers : stage[g] \in {"filled", "rejected"}
  /\ UNCHANGED vars

SessionsRead(g) == [StoragesOf[g] -> (0..MAX_NUMBER_OF_ACTIVE_SESSIONS) \cup {NoRow}]

BridgeStep(g) ==
  \/ \E sessions \in SessionsRead(g) : StartFetch(g, sessions) \/ RefuseInactive(g, sessions)
  \/ FailRead(g) \/ RejectFetch(g) \/ JoinSlices(g)

Next ==
  \/ Receive
  \/ \E g \in Signers :
       \/ \E sessions \in SessionsRead(g) :
            StartFetch(g, sessions) \/ RefuseInactive(g, sessions)
       \/ FailRead(g)
       \/ \E s \in Storages, reply \in Reply : ScmAnswers(g, s, reply)
       \/ RejectFetch(g)
       \/ JoinSlices(g)
  \/ SendToPrivateServer
  \/ PrivateServerSigns
  \/ PrivateServerRefuses
  \/ Over

Spec == Init /\ [][Next]_vars

\* The bridge runs what can run.  That every SCM ends each request, with an
\* answer or a broken connection, is an assumption: no timeout is set.
FairSpec ==
  /\ Spec
  /\ \A g \in Signers :
       /\ WF_vars(BridgeStep(g))
       /\ \A s \in Storages : WF_vars(\E reply \in Reply : ScmAnswers(g, s, reply))
  /\ WF_vars(SendToPrivateServer)

----------------------------------------------------------------------------
(* Properties.                                                              *)

\* The type invariant.
TypeOK ==
  /\ pc \in {"idle", "filling", "signing", "signed", "failed"}
  /\ error \in Errors
  /\ stage \in [Signers -> {"idle", "reading", "fetching", "filled", "rejected"}]
  /\ info \in [Signers -> [Storages -> (0..MAX_NUMBER_OF_ACTIVE_SESSIONS) \cup {NoRow}]]
  /\ request \in [Signers -> [Storages -> Request \cup {NoRow}]]
  /\ keyPart \in [Signers -> SUBSET Storages]

\* The private server is asked to sign only with the slices of every storage
\* of every signer that the database has a row for: neither a slow answer nor
\* a failed one is ever taken for an empty slice.  (A storage whose row is
\* missing is left out without an error.)
SignsWithAllSlices ==
  pc \in {"signing", "signed"} =>
    \A g \in Signers :
      /\ keyPart[g] = Asked(g)
      /\ \A s \in StoragesOf[g] \ keyPart[g] : request[g][s] = NoRow

\* The storages a signer cannot reach: found without an active session, or with
\* sessions none of which worked.
NotConnected(g) ==
  {s \in StoragesOf[g] : info[g][s] = 0} \cup In(g, "SCMNotConnected")

\* The one error of a rejected request names exactly the storages that some
\* rejected signer cannot reach, all of them and no other, and however many of
\* its storages failed otherwise; it is a plain error only if a storage of a
\* signer failed and every storage of this signer could be reached.
NotConnectedIsReported ==
  /\ error.kind = "SCMNotConnected" =>
       \E g \in Signers :
         /\ stage[g] = "rejected"
         /\ error.storages = NotConnected(g) /\ error.storages # {}
  /\ error.kind = "Error" =>
       \E g \in Signers :
         stage[g] = "rejected" /\ Failed(g) # {} /\ NotConnected(g) = {}

\* What the comment above the handling of failed slice requests says: "if type
\* of scm not connected then prepare to throw that error, other errors throw
\* bad request".
OtherErrorsAreBadRequests ==
  pc = "failed" /\ error.kind \notin {"QueryFailed", "PrivateServerError"} =>
    error.kind \in {"SCMNotConnected", "BadRequest"}

\* What the comment in the loop over the sessions says: "if the status code is
\* 404, that mean the key is not found in the api approval".
Status404MeansNotFound ==
  [][\A g \in Signers, s \in Storages, reply \in Reply :
       ScmAnswers(g, s, reply) /\ reply.status = "404" =>
         request'[g][s].state = "KeyNotFoundInSCM"]_vars

\* Every request is answered or reaches the private server, provided every SCM
\* ends its requests: no signer's rejection and no retry keeps another waiting.
EveryRequestEnds == pc = "filling" ~> pc \in {"failed", "signing"}

============================================================================
