------------------------- MODULE ScmRequestsProofs -------------------------
(* Lemmas about the requests of ScmRequests, for any number of sessions:    *)
(* what the proofs of KeyLifecycle and Signing need of the loop.            *)
EXTENDS ScmRequests, TLAPS

\* A request that starts without a session has already failed.
LEMMA StartedRequest ==
  ASSUME NEW n \in 0..MAX_NUMBER_OF_ACTIVE_SESSIONS
  PROVE  /\ StartRequest(n) \in Request
         /\ StartRequest(n).state = "trying" => StartRequest(n).left # 0
         /\ StartRequest(n).state # "fulfilled"
BY DEF StartRequest, Request, RequestStates

\* One turn of the loop: the request stays one, and has a session left if it
\* goes on.
LEMMA TurnOfLoop ==
  ASSUME NEW req \in Request, req.state = "trying", req.left # 0,
         NEW outcome \in RequestStates,
         NEW next,
         next = [left |-> req.left - 1,
                 state |-> IF outcome = "trying" THEN AfterFailure(req) ELSE outcome]
  PROVE  /\ next \in Request
         /\ next.state = "trying" => next.left # 0
         /\ next.state = "fulfilled" => outcome = "fulfilled"
<1>1. req.left \in 1..MAX_NUMBER_OF_ACTIVE_SESSIONS
  BY SessionsAssumption DEF Request
<1>2. /\ AfterFailure(req) \in {"SCMNotConnected", "trying"}
      /\ AfterFailure(req) = "trying" => req.left # 1
  BY DEF AfterFailure
<1> QED
  BY <1>1, <1>2, SessionsAssumption DEF Request, RequestStates

\* A reply leaves a request, with a session left if it is tried on; it is
\* fulfilled only by a reply that says so, and finds no key only by one that
\* says 'file not found' or has none.
LEMMA RequestAfterReply ==
  ASSUME NEW req \in Request, NEW reply \in Reply, NEW decrypts \in BOOLEAN,
         req.state = "trying", req.left # 0
  PROVE  /\ AfterReply(req, reply, decrypts) \in Request
         /\ AfterReply(req, reply, decrypts).state = "trying" =>
              AfterReply(req, reply, decrypts).left # 0
         /\ AfterReply(req, reply, decrypts).state = "fulfilled" => reply.status = "ok"
         /\ AfterReply(req, reply, decrypts).state = "KeyNotFoundInSCM" =>
              reply.body \in {"file not found", "empty"}
<1>1. /\ Outcome(reply, decrypts) \in RequestStates
      /\ Outcome(reply, decrypts) = "fulfilled" => reply.status = "ok"
      /\ Outcome(reply, decrypts) = "KeyNotFoundInSCM" =>
           reply.body \in {"file not found", "empty"}
  BY DEF Outcome, RequestStates, Succeeds, FileNotFound, HandlerThrows
<1> QED
  BY <1>1, TurnOfLoop DEF AfterReply, AfterFailure

============================================================================
