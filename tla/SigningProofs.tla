--------------------------- MODULE SigningProofs ---------------------------
(* What TLAPS proves of Signing, for any number of signers, storages and    *)
(* sessions.                                                                *)
EXTENDS Signing, ScmRequestsProofs

----------------------------------------------------------------------------
(* The inductive invariant.                                                 *)

\* A request that is tried has a session left to try.
TriesASession ==
  \A g \in Signers, s \in Storages :
    request[g][s] # NoRow /\ request[g][s].state = "trying" => request[g][s].left # 0

\* What is known of a signer at each stage: nothing has been asked before the
\* rows are read, only storages of the signer are asked, and only if each that
\* was found has a session; a key part has the slices of all that were asked.
SignerOfStage ==
  \A g \in Signers :
    /\ Asked(g) \subseteq StoragesOf[g]
    /\ stage[g] \in {"idle", "reading"} => Asked(g) = {}
    /\ stage[g] = "fetching" => \A s \in StoragesOf[g] : info[g][s] # 0
    /\ stage[g] = "idle" => keyPart[g] = {}
    /\ stage[g] = "filled" => keyPart[g] = Asked(g) /\ In(g, "fulfilled") = Asked(g)

\* The private server is asked when every signer has its key part.
AllFilled == pc \in {"signing", "signed"} => \A g \in Signers : stage[g] = "filled"

\* The stages wait for the request to arrive.
IdleUntilReceived == pc = "idle" => \A g \in Signers : stage[g] = "idle"

Inv ==
  /\ TypeOK /\ TriesASession /\ SignerOfStage /\ AllFilled /\ IdleUntilReceived
  /\ NotConnectedIsReported

----------------------------------------------------------------------------
(* The steps.                                                               *)

\* Nothing has happened yet.
LEMMA InitInv == Init => Inv
<1> SUFFICES ASSUME Init PROVE Inv
  OBVIOUS
<1>1. TypeOK
  BY DEF Init, TypeOK, Errors, NoError
<1>2. \A g \in Signers : Asked(g) = {}
  BY DEF Init, Asked
<1>3. TriesASession /\ SignerOfStage /\ AllFilled /\ IdleUntilReceived
  BY <1>2 DEF Init, TriesASession, SignerOfStage, AllFilled, IdleUntilReceived
<1>4. NotConnectedIsReported
  BY DEF Init, NoError, NotConnectedIsReported
<1> QED
  BY <1>1, <1>3, <1>4 DEF Inv

\* The request arrives.
LEMMA RequestReceived == ASSUME Inv, Receive PROVE Inv'
<1> USE DEF Inv, Receive
<1>1. \A g \in Signers :
        /\ Asked(g)' = Asked(g) /\ Asked(g) = {} /\ stage[g] = "idle"
        /\ \A state : In(g, state)' = In(g, state) /\ In(g, state) = {}
  BY DEF Asked, In, IdleUntilReceived, SignerOfStage
<1>2. \A g \in Signers : stage'[g] = IF StoragesOf[g] = {} THEN "filled" ELSE "reading"
  OBVIOUS
<1>3. TypeOK'
  BY DEF TypeOK
<1>4. TriesASession' /\ AllFilled' /\ IdleUntilReceived'
  BY DEF TriesASession, AllFilled, IdleUntilReceived
<1>5. SignerOfStage'
  BY <1>1, <1>2 DEF SignerOfStage
<1>6. NotConnectedIsReported'
  BY <1>1 DEF NotConnectedIsReported
<1> QED
  BY <1>3, <1>4, <1>5, <1>6

\* A signer is rejected, with an error that says of its storages what is so:
\* nothing else of the invariant depends on the error.
LEMMA SignerIsRejected ==
  ASSUME Inv, NEW g \in Signers, stage[g] \in {"reading", "fetching"},
         NEW e \in Errors, RejectSigner(g, e), UNCHANGED <<request, keyPart>>,
         info' \in [Signers -> [Storages -> (0..MAX_NUMBER_OF_ACTIVE_SESSIONS) \cup {NoRow}]],
         \A h \in Signers \ {g} : info'[h] = info[h],
         e.kind = "SCMNotConnected" => e.storages = NotConnected(g)' /\ e.storages # {},
         e.kind = "Error" => Failed(g) # {} /\ NotConnected(g)' = {}
  PROVE  Inv'
<1> USE DEF Inv
<1>1. /\ stage' = [stage EXCEPT ![g] = "rejected"]
      /\ pc' = IF pc = "filling" THEN "failed" ELSE pc
      /\ error' = IF pc = "filling" THEN e ELSE error
  BY DEF RejectSigner
<1>2. \A h \in Signers : stage'[h] = IF h = g THEN "rejected" ELSE stage[h]
  BY <1>1 DEF TypeOK
<1>3. \A h \in Signers : /\ Asked(h)' = Asked(h) /\ Failed(h)' = Failed(h)
                         /\ \A state : In(h, state)' = In(h, state)
                         /\ h # g => NotConnected(h)' = NotConnected(h)
  BY DEF Asked, In, Failed, NotConnected
<1>4. TypeOK'
  BY <1>1 DEF TypeOK
<1>5. pc # "idle" /\ pc \notin {"signing", "signed"}
  BY DEF IdleUntilReceived, AllFilled
<1>6. TriesASession' /\ AllFilled' /\ IdleUntilReceived'
  BY <1>1, <1>5 DEF TriesASession, AllFilled, IdleUntilReceived
<1>7. SignerOfStage'
  BY <1>2, <1>3 DEF SignerOfStage
<1>8. NotConnectedIsReported'
  <2>1. CASE pc = "filling"
    BY <1>1, <1>2, <1>3, <2>1 DEF NotConnectedIsReported
  <2>2. CASE pc # "filling"
    <3>1. \A h \in Signers : stage[h] = "rejected" => h # g
      OBVIOUS
    <3> QED BY <1>1, <1>2, <1>3, <2>2, <3>1 DEF NotConnectedIsReported
  <2> QED BY <2>1, <2>2
<1> QED
  BY <1>4, <1>6, <1>7, <1>8

\* The rows are read and the storages that have one are asked.
LEMMA FetchStarts ==
  ASSUME Inv, NEW g \in Signers, NEW sessions \in SessionsRead(g), StartFetch(g, sessions)
  PROVE  Inv'
<1> USE DEF Inv
<1> DEFINE asked == [s \in Storages |->
             IF s \in Found(sessions) THEN StartRequest(sessions[s]) ELSE NoRow]
           read == [s \in Storages |-> IF s \in DOMAIN sessions THEN sessions[s] ELSE NoRow]
<1>1. /\ stage[g] = "reading"
      /\ request' = [request EXCEPT ![g] = asked]
      /\ stage' = [stage EXCEPT ![g] = "fetching"]
      /\ info' = [info EXCEPT ![g] = read]
      /\ UNCHANGED <<pc, error, keyPart>>
  BY DEF StartFetch, ReadInfo
<1>2. Found(sessions) \subseteq StoragesOf[g]
  BY DEF Found, SessionsRead
<1>3. \A s \in Storages :
        /\ asked[s] \in Request \cup {NoRow}
        /\ asked[s] # NoRow => s \in StoragesOf[g]
        /\ asked[s] # NoRow /\ asked[s].state = "trying" => asked[s].left # 0
  <2>1. ASSUME NEW s \in Storages, s \in Found(sessions)
        PROVE  /\ asked[s] \in Request
               /\ asked[s].state = "trying" => asked[s].left # 0
    <3>1. sessions[s] \in 0..MAX_NUMBER_OF_ACTIVE_SESSIONS
      BY <2>1 DEF Found, SessionsRead
    <3> QED BY <2>1, <3>1, StartedRequest
  <2> QED BY <1>2, <2>1
<1>r. /\ read \in [Storages -> (0..MAX_NUMBER_OF_ACTIVE_SESSIONS) \cup {NoRow}]
      /\ \A s \in StoragesOf[g] : read[s] # 0
  <2>1. \A s \in Storages : read[s] \in (0..MAX_NUMBER_OF_ACTIVE_SESSIONS) \cup {NoRow}
    BY DEF SessionsRead
  <2>2. ASSUME NEW s \in StoragesOf[g] PROVE read[s] # 0
    <3>1. s \in Storages /\ read[s] = sessions[s] /\ s \in DOMAIN sessions
      BY StoragesOfAssumption DEF SessionsRead
    <3>2. sessions[s] = 0 => s \in Inactive(sessions)
      BY <3>1, NoRowAssumption DEF Inactive, Found
    <3> QED BY <3>1, <3>2 DEF StartFetch
  <2> QED BY <2>1, <2>2
<1> HIDE DEF asked, read
<1>4. \A h \in Signers : request'[h] = (IF h = g THEN asked ELSE request[h])
                         /\ info'[h] = (IF h = g THEN read ELSE info[h])
                         /\ stage'[h] = (IF h = g THEN "fetching" ELSE stage[h])
  BY <1>1 DEF TypeOK
<1>5. asked \in [Storages -> Request \cup {NoRow}]
  BY <1>3 DEF asked
<1>6. TypeOK'
  BY <1>1, <1>5, <1>r DEF TypeOK
<1>7. TriesASession'
  BY <1>3, <1>4 DEF TriesASession
<1>8. Asked(g)' \subseteq StoragesOf[g]
  BY <1>3, <1>4 DEF Asked
<1>9. \A h \in Signers \ {g} :
        /\ Asked(h)' = Asked(h) /\ Failed(h)' = Failed(h)
        /\ \A state : In(h, state)' = In(h, state)
        /\ NotConnected(h)' = NotConnected(h)
  BY <1>4 DEF Asked, In, Failed, NotConnected
<1>10. SignerOfStage'
  BY <1>1, <1>4, <1>8, <1>9, <1>r DEF SignerOfStage
<1>11. pc # "idle" /\ pc \notin {"signing", "signed"}
  BY <1>1 DEF IdleUntilReceived, AllFilled
<1>12. AllFilled' /\ IdleUntilReceived'
  BY <1>1, <1>11 DEF AllFilled, IdleUntilReceived
<1>13. NotConnectedIsReported'
  BY <1>1, <1>4, <1>9 DEF NotConnectedIsReported
<1> QED
  BY <1>6, <1>7, <1>10, <1>12, <1>13

\* An SCM answers a signer that has not been rejected.
LEMMA AnswerArrives ==
  ASSUME Inv, NEW g \in Signers, NEW s \in Storages, NEW reply \in Reply,
         ScmAnswers(g, s, reply)
  PROVE  Inv'
<1> USE DEF Inv
<1> DEFINE next == AfterReply(request[g][s], reply, TRUE)
<1>1. /\ stage[g] = "fetching" /\ s \in In(g, "trying")
      /\ request' = [request EXCEPT ![g][s] = next]
      /\ UNCHANGED <<pc, error, stage, info, keyPart>>
  BY DEF ScmAnswers
<1>2. /\ request[g][s] # NoRow
      /\ request[g][s] \in Request /\ request[g][s].state = "trying"
      /\ request[g][s].left # 0
  BY <1>1 DEF In, Asked, TypeOK, TriesASession
<1>3. next \in Request /\ (next.state = "trying" => next.left # 0)
  BY <1>2, RequestAfterReply
<1> HIDE DEF next
<1>4. \A h \in Signers, t \in Storages :
        request'[h][t] = IF h = g /\ t = s THEN next ELSE request[h][t]
  BY <1>1 DEF TypeOK
<1>5. TypeOK'
  <2>1. request' \in [Signers -> [Storages -> Request \cup {NoRow}]]
    BY <1>1, <1>3 DEF TypeOK
  <2> QED BY <1>1, <2>1 DEF TypeOK
<1>6. TriesASession'
  BY <1>3, <1>4 DEF TriesASession
<1>7. \A h \in Signers : Asked(h)' = Asked(h)
  BY <1>2, <1>3, <1>4, NoRowAssumption DEF Asked
<1>8. \A h \in Signers \ {g} : /\ Failed(h)' = Failed(h) /\ NotConnected(h)' = NotConnected(h)
                               /\ \A state : In(h, state)' = In(h, state)
  BY <1>1, <1>4, <1>7 DEF In, Asked, Failed, NotConnected
<1>9. SignerOfStage' /\ AllFilled' /\ IdleUntilReceived'
  BY <1>1, <1>7, <1>8 DEF SignerOfStage, AllFilled, IdleUntilReceived
<1>10. NotConnectedIsReported'
  BY <1>1, <1>7, <1>8 DEF NotConnectedIsReported
<1> QED
  BY <1>5, <1>6, <1>9, <1>10

\* When no request is left and none has failed, each has brought a slice.
LEMMA SettledIsFulfilled ==
  ASSUME NEW g \in Signers, AllSettled(g), Failed(g) = {}
  PROVE  In(g, "fulfilled") = Asked(g)
BY DEF AllSettled, Failed, Rejected, In

\* The slices that came are joined.
LEMMA SlicesAreJoined == ASSUME Inv, NEW g \in Signers, JoinSlices(g) PROVE Inv'
<1> USE DEF Inv
<1>1. /\ stage[g] = "fetching" /\ AllSettled(g) /\ Failed(g) = {}
      /\ keyPart' = [keyPart EXCEPT ![g] = In(g, "fulfilled")]
      /\ stage' = [stage EXCEPT ![g] = "filled"]
      /\ UNCHANGED <<pc, error, info, request>>
  BY DEF JoinSlices, MustReject
<1>2. In(g, "fulfilled") = Asked(g) /\ In(g, "fulfilled") \subseteq Storages
  BY <1>1, SettledIsFulfilled DEF Asked
<1>3. \A h \in Signers : stage'[h] = (IF h = g THEN "filled" ELSE stage[h])
                         /\ keyPart'[h] = (IF h = g THEN Asked(g) ELSE keyPart[h])
  BY <1>1, <1>2 DEF TypeOK
<1>4. \A h \in Signers : /\ Asked(h)' = Asked(h) /\ Failed(h)' = Failed(h)
                         /\ NotConnected(h)' = NotConnected(h)
                         /\ \A state : In(h, state)' = In(h, state)
  BY <1>1 DEF Asked, In, Failed, NotConnected
<1>5. TypeOK'
  BY <1>1, <1>2 DEF TypeOK
<1>6. TriesASession' /\ SignerOfStage'
  BY <1>1, <1>2, <1>3, <1>4 DEF TriesASession, SignerOfStage
<1>7. AllFilled' /\ IdleUntilReceived'
  BY <1>1, <1>3 DEF AllFilled, IdleUntilReceived
<1>8. NotConnectedIsReported'
  BY <1>1, <1>3, <1>4 DEF NotConnectedIsReported
<1> QED
  BY <1>5, <1>6, <1>7, <1>8

\* What a signer is rejected with, and why.
LEMMA RejectionIsTrue ==
  ASSUME Inv, NEW g \in Signers
  PROVE  /\ \A sessions \in SessionsRead(g) : RefuseInactive(g, sessions) => Inv'
         /\ FailRead(g) => Inv'
         /\ RejectFetch(g) => Inv'
<1> USE DEF Inv
<1>1. ASSUME NEW sessions \in SessionsRead(g), RefuseInactive(g, sessions)
      PROVE  Inv'
  <2> DEFINE e == NoActiveSession(sessions)
             read == [s \in Storages |-> IF s \in DOMAIN sessions THEN sessions[s] ELSE NoRow]
  <2>1. /\ stage[g] = "reading" /\ RejectSigner(g, e)
        /\ UNCHANGED <<request, keyPart>>
        /\ info' = [info EXCEPT ![g] = read]
    BY <1>1 DEF RefuseInactive, ReadInfo
  <2>2. Inactive(sessions) \subseteq StoragesOf[g] /\ StoragesOf[g] \subseteq Storages
    BY StoragesOfAssumption DEF Inactive, Found, SessionsRead
  <2>3. /\ e \in Errors /\ e.kind = "SCMNotConnected"
        /\ e.storages = Inactive(sessions) /\ e.storages # {}
    BY <1>1, <2>2 DEF RefuseInactive, NoActiveSession, SCMNotConnected, Errors
  <2>4. Inactive(sessions) = {s \in StoragesOf[g] : read[s] = 0}
    BY <2>2, NoRowAssumption DEF Inactive, Found, SessionsRead
  <2>5. read \in [Storages -> (0..MAX_NUMBER_OF_ACTIVE_SESSIONS) \cup {NoRow}]
    BY DEF SessionsRead
  <2> HIDE DEF e, read
  <2>6. /\ info' \in [Signers -> [Storages -> (0..MAX_NUMBER_OF_ACTIVE_SESSIONS) \cup {NoRow}]]
        /\ info'[g] = read /\ \A h \in Signers \ {g} : info'[h] = info[h]
    BY <2>1, <2>5 DEF TypeOK
  <2>7. In(g, "SCMNotConnected")' = {}
    BY <2>1 DEF SignerOfStage, In, Asked
  <2>8. e.storages = NotConnected(g)'
    BY <2>3, <2>4, <2>6, <2>7 DEF NotConnected
  <2> QED BY <2>1, <2>3, <2>6, <2>8, SignerIsRejected
<1>2. ASSUME FailRead(g) PROVE Inv'
  <2> DEFINE e == [kind |-> "QueryFailed", storages |-> {}]
  <2>1. /\ e \in Errors /\ e.kind = "QueryFailed" /\ stage[g] = "reading"
        /\ RejectSigner(g, e) /\ UNCHANGED <<info, request, keyPart>>
    BY <1>2 DEF FailRead, Errors
  <2> HIDE DEF e
  <2> QED BY <2>1, SignerIsRejected DEF TypeOK
<1>3. ASSUME RejectFetch(g) PROVE Inv'
  <2>1. /\ stage[g] = "fetching" /\ RejectSigner(g, FetchError(g)) /\ Failed(g) # {}
        /\ UNCHANGED <<info, request, keyPart>>
    BY <1>3 DEF RejectFetch
  <2>2. In(g, "SCMNotConnected") \subseteq StoragesOf[g]
        /\ StoragesOf[g] \subseteq Storages
    BY StoragesOfAssumption DEF SignerOfStage, In
  <2>3. NotConnected(g)' = In(g, "SCMNotConnected")
    BY <2>1 DEF SignerOfStage, NotConnected, In, Asked
  <2>4. CASE In(g, "SCMNotConnected") # {}
    <3>1. FetchError(g) = SCMNotConnected(In(g, "SCMNotConnected"))
      BY <2>4 DEF FetchError
    <3>2. /\ FetchError(g) \in Errors /\ FetchError(g).kind = "SCMNotConnected"
          /\ FetchError(g).storages = In(g, "SCMNotConnected")
      BY <2>2, <3>1 DEF SCMNotConnected, Errors
    <3> QED BY <2>1, <2>3, <2>4, <3>2, SignerIsRejected DEF TypeOK
  <2>5. CASE In(g, "SCMNotConnected") = {}
    <3>1. FetchError(g) \in Errors /\ FetchError(g).kind = "Error"
      BY <2>5 DEF FetchError, OtherError, Errors
    <3> QED BY <2>1, <2>3, <2>5, <3>1, SignerIsRejected DEF TypeOK
  <2> QED BY <2>4, <2>5
<1> QED
  BY <1>1, <1>2, <1>3

\* The private server is asked, and answers or refuses.
LEMMA PrivateServerStep ==
  ASSUME Inv, SendToPrivateServer \/ PrivateServerSigns \/ PrivateServerRefuses
  PROVE  Inv'
<1> USE DEF Inv
<1>1. /\ pc' \in {"signing", "signed", "failed"}
      /\ UNCHANGED <<stage, info, request, keyPart>>
      /\ \/ error' = error
         \/ error' = [kind |-> "PrivateServerError", storages |-> {}]
      /\ \A g \in Signers : stage[g] = "filled"
  BY DEF SendToPrivateServer, PrivateServerSigns, PrivateServerRefuses, AllFilled
<1>2. \A g \in Signers : /\ Asked(g)' = Asked(g) /\ Failed(g)' = Failed(g)
                         /\ NotConnected(g)' = NotConnected(g)
                         /\ \A state : In(g, state)' = In(g, state)
  BY <1>1 DEF Asked, In, Failed, NotConnected
<1>3. TypeOK'
  BY <1>1 DEF TypeOK, Errors
<1>4. TriesASession' /\ SignerOfStage' /\ AllFilled' /\ IdleUntilReceived'
  BY <1>1, <1>2 DEF TriesASession, SignerOfStage, AllFilled, IdleUntilReceived
<1>5. NotConnectedIsReported'
  BY <1>1, <1>2 DEF NotConnectedIsReported
<1> QED
  BY <1>3, <1>4, <1>5

\* The invariant is inductive.
LEMMA StepInv == Inv /\ [Next]_vars => Inv'
<1> SUFFICES ASSUME Inv, [Next]_vars PROVE Inv'
  OBVIOUS
<1>1. CASE Receive
  BY <1>1, RequestReceived
<1>2. ASSUME NEW g \in Signers, NEW sessions \in SessionsRead(g),
             StartFetch(g, sessions) \/ RefuseInactive(g, sessions)
      PROVE  Inv'
  BY <1>2, FetchStarts, RejectionIsTrue
<1>3. ASSUME NEW g \in Signers, FailRead(g) \/ RejectFetch(g)
      PROVE  Inv'
  BY <1>3, RejectionIsTrue
<1>4. ASSUME NEW g \in Signers, NEW s \in Storages, NEW reply \in Reply,
             ScmAnswers(g, s, reply)
      PROVE  Inv'
  BY <1>4, AnswerArrives
<1>5. ASSUME NEW g \in Signers, JoinSlices(g) PROVE Inv'
  BY <1>5, SlicesAreJoined
<1>6. CASE SendToPrivateServer \/ PrivateServerSigns \/ PrivateServerRefuses
  BY <1>6, PrivateServerStep
<1>7. CASE Over \/ UNCHANGED vars
  <2>1. UNCHANGED vars
    BY <1>7 DEF Over
  <2> QED
    BY <2>1
    DEF vars, Inv, TypeOK, TriesASession, SignerOfStage, AllFilled, IdleUntilReceived,
        NotConnectedIsReported, NotConnected, Failed, Asked, In
<1> QED
  BY <1>1, <1>2, <1>3, <1>4, <1>5, <1>6, <1>7 DEF Next

----------------------------------------------------------------------------
(* The theorems.                                                            *)

\* The request, its signers and their fetches keep their types (TypeOK).
THEOREM TypeCorrect == Spec => []TypeOK
<1>1. Inv => TypeOK
  BY DEF Inv
<1> QED
  BY InitInv, StepInv, <1>1, PTL DEF Spec

\* A key part that was joined has the slice of every storage that has a row.
LEMMA InvImplies == Inv => SignsWithAllSlices
<1> SUFFICES ASSUME Inv, pc \in {"signing", "signed"}, NEW g \in Signers
             PROVE  /\ keyPart[g] = Asked(g)
                    /\ \A s \in StoragesOf[g] \ keyPart[g] : request[g][s] = NoRow
  BY DEF SignsWithAllSlices
<1>1. keyPart[g] = Asked(g)
  BY DEF Inv, AllFilled, SignerOfStage
<1> QED
  BY <1>1, StoragesOfAssumption DEF Asked

\* A transaction is signed with the slices of every storage that has a row
\* (SignsWithAllSlices).
THEOREM KeyPartsAreComplete == Spec => []SignsWithAllSlices
BY InitInv, StepInv, InvImplies, PTL DEF Spec

\* An error names all storages a signer cannot reach and no others, and is a
\* plain one only if there are none (NotConnectedIsReported).
THEOREM ErrorsAreTrue == Spec => []NotConnectedIsReported
<1>1. Inv => NotConnectedIsReported
  BY DEF Inv
<1> QED
  BY InitInv, StepInv, <1>1, PTL DEF Spec

============================================================================
