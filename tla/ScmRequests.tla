----------------------------- MODULE ScmRequests -----------------------------
(* A request to the server of one backup storage (an SCM): the loop of      *)
(* communicatingWithBackupStorageForKeyManagement over the storage's active *)
(* sessions.  The same request is sent with one session after the other     *)
(* until an answer ends the loop.  The requests of a call run concurrently, *)
(* so each is a record here and the modules that send requests keep one for *)
(* every storage.                                                           *)
EXTENDS Naturals

CONSTANT MAX_NUMBER_OF_ACTIVE_SESSIONS

ASSUME SessionsAssumption == MAX_NUMBER_OF_ACTIVE_SESSIONS \in Nat \ {0}

\* What can come back: a value, an empty one or one the session key does not
\* decrypt; an HTTP error with a message, none counting as some message, or
\* with one the handler cannot read; nothing.
Reply ==
  [status : {"ok"}, body : {"value", "empty", "garbled"}]
    \cup [status : {"404", "other"}, body : {"file not found", "some message", "unreadable"}]
    \cup [status : {"none"}, body : {"none"}]

RequestStates == {"trying", "fulfilled", "SCMNotConnected", "KeyNotFoundInSCM", "Error"}

\* left: the sessions no reply has come for yet.
Request == [left : 0..MAX_NUMBER_OF_ACTIVE_SESSIONS, state : RequestStates]

Rejected(req) == req.state \notin {"trying", "fulfilled"}

\* The for loop over no session falls through to SCMNotConnected.
StartRequest(sessions) ==
  [left |-> sessions,
   state |-> IF sessions = 0 THEN "SCMNotConnected" ELSE "trying"]

\* error?.response?.data.message?.toLowerCase() === 'file not found'
FileNotFound(reply) == reply.body = "file not found"

\* A message that is not a string (a list of messages), or no body that could
\* have one: the handler of the error throws a TypeError of its own, which ends
\* the loop.
HandlerThrows(reply) == reply.body = "unreadable"

Succeeds(reply, decrypts) ==
  reply.status = "ok" /\ (decrypts => reply.body # "garbled")

\* The state a reply ends the loop in; "trying" if it does not.  An empty key
\* is found out by the caller of the loop, in getKeyFromApiApproval.
Outcome(reply, decrypts) ==
  CASE Succeeds(reply, decrypts) ->
         IF decrypts /\ reply.body = "empty" THEN "KeyNotFoundInSCM" ELSE "fulfilled"
    [] FileNotFound(reply) -> "KeyNotFoundInSCM"
    [] HandlerThrows(reply) -> "Error"
    [] OTHER -> "trying"

\* Deviation: the loop does not stop at its last session.
KeepTrying(req) == "trying"

\* Deviation: the first failure ends the loop.
GiveUpAtOnce(req) == "SCMNotConnected"

\* The loop goes on to the next session, or ends after the last.
AfterFailure(req) == IF req.left = 1 THEN "SCMNotConnected" ELSE "trying"

\* Deviation: after the last session the first one is tried again.
StartOver(req, reply, decrypts) ==
  IF Outcome(reply, decrypts) = "trying"
  THEN [left |-> IF req.left = 1 THEN MAX_NUMBER_OF_ACTIVE_SESSIONS ELSE req.left - 1,
        state |-> "trying"]
  ELSE [left |-> req.left, state |-> Outcome(reply, decrypts)]

AfterReply(req, reply, decrypts) ==
  [left |-> req.left - 1,
   state |-> IF Outcome(reply, decrypts) = "trying"
             THEN AfterFailure(req) ELSE Outcome(reply, decrypts)]

============================================================================
