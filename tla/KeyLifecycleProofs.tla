------------------------- MODULE KeyLifecycleProofs -------------------------
(* What TLAPS proves of KeyGeneration and of KeyLifecycle, for any number   *)
(* of calls, keys, storages and sessions.  The steps of KeyLifecycle are    *)
(* steps of KeyGeneration and of Signing, so the invariants of both hold in *)
(* it.                                                                      *)
EXTENDS KeyLifecycle, ScmRequestsProofs

SignP == INSTANCE SigningProofs WITH Signers <- Keys, pc <- signPc, request <- fetch


----------------------------------------------------------------------------
(* The inductive invariant of key generation.                               *)

\* A request that is tried has a session left to try.
TriesASession ==
  \A c \in Calls, s \in Storages :
    request[c][s] # NoRow /\ request[c][s].state = "trying" => request[c][s].left # 0

\* What a call knows at each step: nothing before the private server has
\* answered, and the id of a key it generated itself from there to the stores.
AnswerOfStep ==
  \A c \in Calls :
    /\ pc[c] \in {"idle", "asked"} => keyId[c] = 0 /\ ~already[c]
    /\ pc[c] = "answered" => keyId[c] # 0
    /\ pc[c] \in {"read", "store"} => c \in Generators
    /\ pc[c] \in {"idle", "asked", "answered", "read"} =>
         \A s \in Storages : request[c][s] = NoRow
    /\ \A s \in Storages : request[c][s] # NoRow => keyId[c] # 0

\* The private server gives each id once, to one key, for one call.
IdsAreUnique ==
  /\ \A c \in Calls : keyId[c] <= lastKeyId
  /\ \A k \in Keys : generated[k] <= lastKeyId
  /\ \A g, h \in Generators : keyId[g] = keyId[h] => g = h
  /\ \A g \in Generators, k \in Keys : generated[k] = keyId[g] => k = key[g]
  /\ \A g \in Generators, c \in Calls : keyId[c] = keyId[g] => key[c] = key[g]

\* A key is there until the call that generated it has failed.
KeptUntilFailure ==
  \A g \in Generators : pc[g] # "failed" => generated[key[g]] = keyId[g]

\* A confirmed slice is stored, and success means that all slices are.
SlicesStored ==
  /\ \A c \in Calls, s \in Storages :
       request[c][s] # NoRow /\ request[c][s].state = "fulfilled" =>
         <<s, keyId[c]>> \in slices
  /\ \A g \in Generators :
       pc[g] = "succeeded" => \A s \in Ids(g) : <<s, keyId[g]>> \in slices

\* A key at the private server has a call that generated it, and if this call
\* has failed, a rollback for it is on its way or nobody is left to ask for one.
FailedAreGivenUp ==
  /\ \A k \in Keys : generated[k] # 0 => \E g \in Generators : keyId[g] = generated[k]
  /\ \A g \in Generators :
       pc[g] = "failed" =>
         \/ keyId[g] \in rollbacks \cup leftBehind
         \/ \A k \in Keys : generated[k] # keyId[g]

Inv ==
  /\ TypeOK /\ TriesASession /\ AnswerOfStep /\ IdsAreUnique
  /\ RollbackOnlyByGenerator /\ KeptUntilFailure /\ SlicesStored /\ FailedAreGivenUp

----------------------------------------------------------------------------
(* The steps of key generation.                                             *)

LEMMA InitInv == Init => Inv
<1> SUFFICES ASSUME Init PROVE Inv
  OBVIOUS
<1>1. Generators = {}
  BY DEF Init, Generators
<1>2. TypeOK
  BY KeyIdAssumption DEF Init, TypeOK, Steps
<1> QED
  BY <1>1, <1>2, KeyIdAssumption
  DEF Init, Inv, TriesASession, AnswerOfStep, IdsAreUnique,
      RollbackOnlyByGenerator, KeptUntilFailure, SlicesStored, FailedAreGivenUp

\* Steps of a call that leave its answer and its requests alone.
LEMMA CallMovesOn ==
  ASSUME Inv, NEW c \in Calls, NEW next \in Steps,
         pc' = [pc EXCEPT ![c] = next],
         UNCHANGED <<private, slices, key, keyId, already, request>>,
         \/ /\ UNCHANGED events
            /\ \/ pc[c] = "idle" /\ next = "asked"
               \/ pc[c] = "answered" /\ next = "read" /\ ~already[c]
               \/ pc[c] = "answered" /\ next = "succeeded" /\ (already[c] \/ Ids(c) = {})
               \/ pc[c] = "store" /\ next = "succeeded"
                  /\ \A s \in Ids(c) : <<s, keyId[c]>> \in slices
         \/ /\ UNCHANGED rollbacks
            /\ leftBehind' = leftBehind \cup {keyId[d] : d \in {c} \cap Generators}
            /\ pc[c] \in {"asked", "answered"} /\ next = "failed"
         \/ /\ rollbacks' = rollbacks \cup {keyId[c]} /\ UNCHANGED leftBehind
            /\ pc[c] \in {"read", "store"} /\ next = "failed"
  PROVE  Inv'
<1> USE DEF private, events, Inv
<1>1. Generators' = Generators /\ \A d \in Calls : Ids(d)' = Ids(d)
  BY DEF Generators, Ids
<1>2. \A d \in Calls : pc'[d] = IF d = c THEN next ELSE pc[d]
  BY DEF TypeOK
<1>3. TypeOK'
  <2>1. rollbacks' \subseteq 1..MaxKeyId
    <3>1. pc[c] \in {"read", "store"} => keyId[c] \in 1..MaxKeyId
      BY KeyIdAssumption DEF TypeOK, AnswerOfStep, Generators
    <3>2. \A id \in rollbacks' :
            \/ id \in rollbacks
            \/ pc[c] \in {"read", "store"} /\ id = keyId[c]
      OBVIOUS
    <3> QED BY <3>1, <3>2 DEF TypeOK
  <2>2. leftBehind' \subseteq 1..MaxKeyId
    <3>1. \A d \in Generators : keyId[d] \in 1..MaxKeyId
      BY KeyIdAssumption DEF TypeOK, Generators
    <3>2. \A id \in leftBehind' : id \in leftBehind \/ \E d \in Generators : id = keyId[d]
      OBVIOUS
    <3> QED BY <3>1, <3>2 DEF TypeOK
  <2> QED BY <2>1, <2>2 DEF TypeOK
<1>4. TriesASession'
  BY DEF TriesASession
<1>5. AnswerOfStep'
  BY <1>1, <1>2 DEF AnswerOfStep, Generators
<1>6. IdsAreUnique'
  BY <1>1 DEF IdsAreUnique
<1>7. RollbackOnlyByGenerator'
  <2>1. \A g \in Generators : pc[g] = "failed" => pc'[g] = "failed"
    BY <1>2 DEF Generators
  <2>2. pc[c] \in {"read", "store"} => c \in Generators
    BY DEF AnswerOfStep
  <2> QED
    BY <1>1, <1>2, <2>1, <2>2 DEF RollbackOnlyByGenerator
<1>8. KeptUntilFailure'
  BY <1>1, <1>2 DEF KeptUntilFailure, AnswerOfStep, Generators
<1>9. SlicesStored'
  BY <1>1, <1>2 DEF SlicesStored, Generators, AnswerOfStep
<1>10. FailedAreGivenUp'
  <2>1. /\ rollbacks \subseteq rollbacks' /\ leftBehind \subseteq leftBehind'
        /\ UNCHANGED <<generated, keyId>>
    OBVIOUS
  <2>2. c \in Generators /\ next = "failed" => keyId[c] \in rollbacks' \cup leftBehind'
    OBVIOUS
  <2>3. \A g \in Generators : pc'[g] = "failed" => pc[g] = "failed" \/ (g = c /\ next = "failed")
    BY <1>2 DEF Generators
  <2> QED BY <1>1, <2>1, <2>2, <2>3 DEF FailedAreGivenUp
<1> QED
  BY <1>3, <1>4, <1>5, <1>6, <1>7, <1>8, <1>9, <1>10

\* The requests of a call are sent, its answer stays.
LEMMA StoresStart ==
  ASSUME Inv, NEW c \in Calls,
         NEW sessions \in [Ids(c) -> (0..MAX_NUMBER_OF_ACTIVE_SESSIONS) \cup {NoRow}],
         StoreSlices(c, sessions)
  PROVE  Inv'
<1> USE DEF private, events, Inv, StoreSlices
<1>1. Generators' = Generators /\ \A d \in Calls : Ids(d)' = Ids(d)
  BY DEF Generators, Ids
<1>2. \A d \in Calls : pc'[d] = IF d = c THEN "store" ELSE pc[d]
  BY DEF TypeOK
<1>3. \A d \in Calls \ {c} : request'[d] = request[d]
  BY DEF TypeOK
<1>4. \A s \in Storages :
        request'[c][s] = IF s \notin Ids(c) \/ sessions[s] = NoRow
                         THEN NoRow ELSE StartRequest(sessions[s])
  BY DEF TypeOK
<1>5. \A s \in Storages :
        \/ request'[c][s] = NoRow
        \/ /\ request'[c][s] \in Request
           /\ request'[c][s].state = "trying" => request'[c][s].left # 0
           /\ request'[c][s].state # "fulfilled"
  BY <1>4, StartedRequest
<1>6. request'[c] \in [Storages -> Request \cup {NoRow}]
  <2>1. request'[c] = [s \in Storages |-> request'[c][s]]
    BY DEF TypeOK
  <2> QED BY <1>5, <2>1
<1>7. TypeOK'
  <2>1. request' \in [Calls -> [Storages -> Request \cup {NoRow}]]
    BY <1>6 DEF TypeOK
  <2>2. pc' \in [Calls -> Steps]
    BY DEF TypeOK, Steps
  <2> QED BY <2>1, <2>2 DEF TypeOK
<1>8. TriesASession'
  BY <1>3, <1>5 DEF TriesASession
<1>9. AnswerOfStep'
  <2>1. c \in Generators /\ keyId[c] # 0
    BY DEF AnswerOfStep, Generators
  <2>2. UNCHANGED <<keyId, already>>
    OBVIOUS
  <2>3. \A d \in Calls, s \in Storages : request'[d][s] # NoRow => keyId'[d] # 0
    BY <1>3, <2>1, <2>2 DEF AnswerOfStep
  <2>4. \A d \in Calls :
          /\ pc'[d] \in {"idle", "asked"} => keyId'[d] = 0 /\ ~already'[d]
          /\ pc'[d] = "answered" => keyId'[d] # 0
          /\ pc'[d] \in {"read", "store"} => d \in Generators'
    BY <1>1, <1>2, <2>1, <2>2 DEF AnswerOfStep
  <2>5. \A d \in Calls : pc'[d] \in {"idle", "asked", "answered", "read"} =>
          \A s \in Storages : request'[d][s] = NoRow
    BY <1>2, <1>3 DEF AnswerOfStep
  <2> QED BY <2>3, <2>4, <2>5 DEF AnswerOfStep
<1>10. IdsAreUnique'
  BY <1>1 DEF IdsAreUnique
<1>11. RollbackOnlyByGenerator'
  BY <1>1, <1>2 DEF RollbackOnlyByGenerator, Generators
<1>12. KeptUntilFailure'
  BY <1>1, <1>2 DEF KeptUntilFailure, Generators
<1>13. SlicesStored'
  <2>1. \A d \in Calls, s \in Storages :
          request'[d][s] # NoRow /\ request'[d][s].state = "fulfilled" =>
            <<s, keyId[d]>> \in slices
    BY <1>3, <1>5 DEF SlicesStored
  <2>2. \A g \in Generators : pc'[g] = "succeeded" => pc[g] = "succeeded"
    BY <1>2 DEF Generators
  <2> QED BY <1>1, <2>1, <2>2 DEF SlicesStored, Generators
<1>14. FailedAreGivenUp'
  BY <1>1, <1>2 DEF FailedAreGivenUp, Generators
<1> QED
  BY <1>7, <1>8, <1>9, <1>10, <1>11, <1>12, <1>13, <1>14

\* An SCM answers: only the request it answers changes.
LEMMA AnswerArrives ==
  ASSUME Inv, NEW c \in Calls, NEW s \in Storages, NEW reply \in Reply,
         ScmAnswers(c, s, reply)
  PROVE  Inv'
<1> DEFINE next == AfterReply(request[c][s], reply, FALSE)
<1>0. /\ s \in Pending(c) /\ pc[c] \in {"store", "failed"}
      /\ reply.status = "ok" => <<s, keyId[c]>> \in slices
      /\ request' = [request EXCEPT ![c][s] = next]
      /\ UNCHANGED <<generated, lastKeyId, rollbacks, leftBehind, slices, pc, key, keyId, already>>
  BY DEF ScmAnswers, private, events
<1> USE <1>0 DEF Inv
<1>1. Generators' = Generators /\ \A d \in Calls : Ids(d)' = Ids(d)
  BY DEF Generators, Ids
<1>2. /\ request[c][s] # NoRow
      /\ request[c][s] \in Request /\ request[c][s].state = "trying"
      /\ request[c][s].left # 0
  BY DEF Pending, TypeOK, TriesASession
<1>3. /\ next \in Request
      /\ next.state = "trying" => next.left # 0
      /\ next.state = "fulfilled" => <<s, keyId[c]>> \in slices
  BY <1>2, RequestAfterReply
<1> HIDE DEF next
<1>5. \A d \in Calls, t \in Storages :
        request'[d][t] = IF d = c /\ t = s THEN next ELSE request[d][t]
  BY DEF TypeOK
<1>6. TypeOK'
  <2>1. request' \in [Calls -> [Storages -> Request \cup {NoRow}]]
    BY <1>3 DEF TypeOK
  <2> QED BY <2>1 DEF TypeOK
<1>7. TriesASession'
  BY <1>3, <1>5 DEF TriesASession
<1>8. AnswerOfStep'
  <2>1. \A d \in Calls, t \in Storages :
          request'[d][t] # NoRow => request[d][t] # NoRow
    BY <1>2, <1>5
  <2> QED BY <1>1, <2>1 DEF AnswerOfStep
<1>9. IdsAreUnique' /\ RollbackOnlyByGenerator' /\ KeptUntilFailure' /\ FailedAreGivenUp'
  BY <1>1 DEF IdsAreUnique, RollbackOnlyByGenerator, KeptUntilFailure, FailedAreGivenUp
<1>10. SlicesStored'
  BY <1>1, <1>3, <1>5 DEF SlicesStored, Generators
<1> QED
  BY <1>6, <1>7, <1>8, <1>9, <1>10

\* When every store is fulfilled every slice is stored.
LEMMA AllStoredIsComplete ==
  ASSUME Inv, NEW c \in Calls, AllStored(c)
  PROVE  \A s \in Ids(c) : <<s, keyId[c]>> \in slices
<1> SUFFICES ASSUME NEW s \in Ids(c) PROVE <<s, keyId[c]>> \in slices
  OBVIOUS
<1>1. s \in Storages
  BY StoragesOfAssumption DEF Ids, Inv, TypeOK
<1>2. request[c][s] # NoRow /\ request[c][s].state = "fulfilled"
  BY DEF AllStored, Failures, Pending, Rejected
<1> QED
  BY <1>1, <1>2 DEF Inv, SlicesStored

\* The steps the bridge takes at one await.
LEMMA BridgeMoves ==
  ASSUME Inv, NEW c \in Calls,
         AskForKey(c) \/ TakeAnswer(c) \/ CannotStore(c) \/ FinishStores(c)
           \/ FailStores(c) \/ PrivateServerFails(c)
  PROVE  Inv'
<1>1. CASE AskForKey(c)
  BY <1>1, CallMovesOn DEF AskForKey, Steps
<1>2. CASE TakeAnswer(c)
  <2>1. CASE already[c] \/ Ids(c) = {}
    BY <1>2, <2>1, CallMovesOn DEF TakeAnswer, AfterAnswer, Steps
  <2>2. CASE ~(already[c] \/ Ids(c) = {})
    BY <1>2, <2>2, CallMovesOn DEF TakeAnswer, AfterAnswer, Steps
  <2> QED BY <2>1, <2>2
<1>3. CASE CannotStore(c)
  BY <1>3, CallMovesOn DEF CannotStore, Abandon, RollBack, Steps
<1>4. CASE FinishStores(c)
  BY <1>4, AllStoredIsComplete, CallMovesOn DEF FinishStores, Steps
<1>5. CASE FailStores(c)
  BY <1>5, CallMovesOn DEF FailStores, Abandon, RollBack, Steps
<1>6. CASE PrivateServerFails(c)
  BY <1>6, CallMovesOn DEF PrivateServerFails, Steps
<1> QED
  BY <1>1, <1>2, <1>3, <1>4, <1>5, <1>6

\* The private server gives a new id to a key it does not have.
LEMMA KeyIsGenerated ==
  ASSUME Inv, NEW c \in Calls, PrivateServerGenerates(c)
  PROVE  Inv'
<1> USE DEF Inv
<1> DEFINE id == lastKeyId + 1
<1>1. /\ pc[c] = "asked" /\ generated[key[c]] = 0 /\ lastKeyId < MaxKeyId
      /\ lastKeyId' = id
      /\ generated' = [generated EXCEPT ![key[c]] = id]
      /\ keyId' = [keyId EXCEPT ![c] = id]
      /\ pc' = [pc EXCEPT ![c] = "answered"]
      /\ UNCHANGED <<rollbacks, leftBehind, slices, key, already, request>>
  BY DEF PrivateServerGenerates, events
<1>2. /\ id \in 1..MaxKeyId /\ id > lastKeyId
      /\ \A d \in Calls : keyId[d] < id
      /\ \A k \in Keys : generated[k] < id
      /\ keyId[c] = 0 /\ ~already[c]
      /\ \A s \in Storages : request[c][s] = NoRow
  BY <1>1, KeyIdAssumption DEF TypeOK, IdsAreUnique, AnswerOfStep
<1> HIDE DEF id
<1>3. TypeOK'
  BY <1>1, <1>2, KeyIdAssumption DEF TypeOK, Steps
<1>4. /\ \A d \in Calls : keyId'[d] = IF d = c THEN id ELSE keyId[d]
      /\ \A d \in Calls : pc'[d] = IF d = c THEN "answered" ELSE pc[d]
      /\ \A k \in Keys : generated'[k] = IF k = key[c] THEN id ELSE generated[k]
      /\ key[c] \in Keys /\ id # 0
  BY <1>1, <1>2 DEF TypeOK
<1>5. /\ Generators' = Generators \cup {c}
      /\ c \notin Generators
      /\ \A d \in Calls : Ids(d)' = Ids(d)
  BY <1>1, <1>2, <1>4 DEF Generators, Ids
<1>6. TriesASession'
  BY <1>1 DEF TriesASession
<1>7. AnswerOfStep'
  BY <1>1, <1>2, <1>4, <1>5 DEF AnswerOfStep
<1>8. IdsAreUnique'
  <2>1. /\ \A d \in Calls : keyId'[d] <= lastKeyId'
        /\ \A k \in Keys : generated'[k] <= lastKeyId'
    BY <1>1, <1>2, <1>4 DEF TypeOK
  <2>2. \A d \in Calls \ {c} : keyId'[d] # id /\ keyId'[d] = keyId[d]
    BY <1>2, <1>4 DEF TypeOK
  <2>3. \A k \in Keys \ {key[c]} : generated'[k] # id /\ generated'[k] = generated[k]
    BY <1>2, <1>4 DEF TypeOK
  <2>4. \A g, h \in Generators' : keyId'[g] = keyId'[h] => g = h
    BY <1>4, <1>5, <2>2 DEF IdsAreUnique, Generators
  <2>5. \A g \in Generators', k \in Keys : generated'[k] = keyId'[g] => k = key[g]
    <3>1. \A g \in Generators' : g = c \/ (g \in Generators /\ keyId'[g] = keyId[g] /\ keyId'[g] # id)
      BY <1>5, <2>2 DEF Generators
    <3> QED BY <1>4, <2>3, <3>1 DEF IdsAreUnique
  <2>6. \A g \in Generators', d \in Calls : keyId'[d] = keyId'[g] => key[d] = key[g]
    BY <1>4, <1>5, <2>2 DEF IdsAreUnique, Generators
  <2> QED
    BY <1>1, <2>1, <2>4, <2>5, <2>6 DEF IdsAreUnique
<1>9. RollbackOnlyByGenerator'
  BY <1>1, <1>4, <1>5 DEF RollbackOnlyByGenerator, Generators
<1>10. KeptUntilFailure'
  <2>1. \A g \in Generators : pc[g] # "failed" => key[g] # key[c]
    BY <1>1 DEF KeptUntilFailure, Generators
  <2> QED
    BY <1>1, <1>4, <1>5, <2>1 DEF KeptUntilFailure, Generators, TypeOK
<1>11. SlicesStored'
  BY <1>1, <1>2, <1>4, <1>5 DEF SlicesStored, Generators
<1>12. FailedAreGivenUp'
  <2>1. \A g \in Generators : g # c /\ g \in Calls /\ keyId'[g] = keyId[g] /\ keyId[g] # id
    BY <1>2, <1>4, <1>5 DEF Generators, TypeOK
  <2>2. \A k \in Keys : generated'[k] # 0 => \E g \in Generators' : keyId'[g] = generated'[k]
    BY <1>4, <1>5, <2>1 DEF FailedAreGivenUp
  <2>3. \A g \in Generators' : pc'[g] = "failed" => g \in Generators /\ pc[g] = "failed"
    BY <1>4, <1>5 DEF Generators
  <2> QED BY <1>1, <1>4, <2>1, <2>2, <2>3 DEF FailedAreGivenUp
<1> QED
  BY <1>3, <1>6, <1>7, <1>8, <1>9, <1>10, <1>11, <1>12

\* The private server answers with the id of a key it has.
LEMMA KeyIsThere ==
  ASSUME Inv, NEW c \in Calls, PrivateServerHasKey(c)
  PROVE  Inv'
<1> USE DEF Inv
<1>1. /\ pc[c] = "asked" /\ generated[key[c]] # 0
      /\ keyId' = [keyId EXCEPT ![c] = generated[key[c]]]
      /\ already' = [already EXCEPT ![c] = TRUE]
      /\ pc' = [pc EXCEPT ![c] = "answered"]
      /\ UNCHANGED <<generated, lastKeyId, rollbacks, leftBehind, slices, key, request>>
  BY DEF PrivateServerHasKey, private, events
<1>2. /\ keyId[c] = 0 /\ ~already[c] /\ key[c] \in Keys
      /\ \A s \in Storages : request[c][s] = NoRow
  BY <1>1 DEF AnswerOfStep, TypeOK
<1>3. TypeOK'
  BY <1>1, <1>2 DEF TypeOK, Steps
<1>4. /\ \A d \in Calls : keyId'[d] = IF d = c THEN generated[key[c]] ELSE keyId[d]
      /\ \A d \in Calls : pc'[d] = IF d = c THEN "answered" ELSE pc[d]
      /\ \A d \in Calls \ {c} : already'[d] = already[d]
      /\ already'[c]
  BY <1>1 DEF TypeOK
<1>5. /\ Generators' = Generators
      /\ c \notin Generators
      /\ \A d \in Calls : Ids(d)' = Ids(d)
  BY <1>1, <1>2, <1>4 DEF Generators, Ids
<1>6. TriesASession'
  BY <1>1 DEF TriesASession
<1>7. AnswerOfStep'
  BY <1>1, <1>2, <1>4, <1>5 DEF AnswerOfStep
<1>8. IdsAreUnique'
  BY <1>1, <1>2, <1>4, <1>5 DEF IdsAreUnique, Generators
<1>9. RollbackOnlyByGenerator' /\ KeptUntilFailure' /\ FailedAreGivenUp'
  BY <1>1, <1>4, <1>5
  DEF RollbackOnlyByGenerator, KeptUntilFailure, FailedAreGivenUp, Generators
<1>10. SlicesStored'
  BY <1>1, <1>2, <1>4, <1>5 DEF SlicesStored, Generators
<1> QED
  BY <1>3, <1>6, <1>7, <1>8, <1>9, <1>10

\* A rollback deletes the key of a call that has failed, and of no other.
LEMMA KeyIsRolledBack ==
  ASSUME Inv, NEW id \in rollbacks, PrivateServerRollsBack(id) \/ LoseRollback(id)
  PROVE  Inv'
<1> USE DEF Inv
<1>1. /\ rollbacks' = rollbacks \ {id}
      /\ \/ leftBehind' = leftBehind /\ \A k \in Keys : generated'[k] # id
         \/ leftBehind' = leftBehind \cup {id}
      /\ \/ generated' = generated
         \/ generated' = [k \in Keys |-> IF generated[k] = id THEN 0 ELSE generated[k]]
      /\ UNCHANGED <<lastKeyId, slices, pc, key, keyId, already, request>>
  <2>1. id # 0
    BY KeyIdAssumption DEF TypeOK
  <2> QED BY <2>1 DEF PrivateServerRollsBack, LoseRollback, private
<1>2. \A k \in Keys :
        generated'[k] = generated[k] \/ (generated[k] = id /\ generated'[k] = 0)
  BY <1>1 DEF TypeOK
<1>3. Generators' = Generators /\ \A d \in Calls : Ids(d)' = Ids(d)
  BY <1>1 DEF Generators, Ids
<1>4. TypeOK'
  <2>1. rollbacks' \subseteq 1..MaxKeyId /\ leftBehind' \subseteq 1..MaxKeyId
    <3>1. leftBehind' \subseteq leftBehind \cup rollbacks
      BY <1>1
    <3> QED BY <1>1, <3>1 DEF TypeOK
  <2>2. generated' \in [Keys -> 0..MaxKeyId]
    BY <1>1, KeyIdAssumption DEF TypeOK
  <2> QED BY <1>1, <2>1, <2>2 DEF TypeOK
<1>5. TriesASession' /\ AnswerOfStep' /\ RollbackOnlyByGenerator' /\ SlicesStored'
  BY <1>1, <1>3
  DEF TriesASession, AnswerOfStep, RollbackOnlyByGenerator, SlicesStored, Generators
<1>6. IdsAreUnique'
  <2>1. \A k \in Keys : generated'[k] <= lastKeyId
    BY <1>2 DEF IdsAreUnique, TypeOK
  <2>2. \A g \in Generators : keyId[g] # 0
    BY DEF Generators
  <2> QED
    BY <1>1, <1>2, <1>3, <2>1, <2>2 DEF IdsAreUnique
<1>7. KeptUntilFailure'
  <2>1. \A g \in Generators : pc[g] # "failed" => keyId[g] # id
    BY DEF RollbackOnlyByGenerator, IdsAreUnique
  <2>2. \A g \in Generators : key[g] \in Keys
    BY DEF Generators, TypeOK
  <2> QED
    BY <1>1, <1>2, <1>3, <2>1, <2>2 DEF KeptUntilFailure
<1>8. FailedAreGivenUp'
  <2>1. \A k \in Keys : generated'[k] # 0 => generated'[k] = generated[k]
    BY <1>2
  <2>2. \A g \in Generators : keyId[g] # 0
    BY DEF Generators
  <2>3. ASSUME NEW g \in Generators, pc[g] = "failed"
        PROVE  \/ keyId[g] \in rollbacks' \cup leftBehind'
               \/ \A k \in Keys : generated'[k] # keyId[g]
    BY <1>1, <2>1, <2>2, <2>3 DEF FailedAreGivenUp
  <2> QED BY <1>1, <1>3, <2>1, <2>3 DEF FailedAreGivenUp
<1> QED
  BY <1>4, <1>5, <1>6, <1>7, <1>8

\* An SCM stores a slice.
LEMMA SliceIsStored ==
  ASSUME Inv, NEW c \in Calls, NEW s \in Storages, ScmStores(c, s)
  PROVE  Inv'
<1> USE DEF Inv
<1>1. /\ request[c][s] # NoRow
      /\ slices' = slices \cup {<<s, keyId[c]>>}
      /\ UNCHANGED <<generated, lastKeyId, rollbacks, leftBehind, pc, key, keyId, already, request>>
  BY DEF ScmStores, private, events
<1>2. Generators' = Generators /\ \A d \in Calls : Ids(d)' = Ids(d)
  BY <1>1 DEF Generators, Ids
<1>3. TypeOK'
  <2>1. keyId[c] \in 1..MaxKeyId
    BY <1>1, KeyIdAssumption DEF AnswerOfStep, TypeOK
  <2> QED BY <1>1, <2>1 DEF TypeOK
<1>4. TriesASession' /\ AnswerOfStep' /\ IdsAreUnique'
      /\ RollbackOnlyByGenerator' /\ KeptUntilFailure' /\ FailedAreGivenUp'
  BY <1>1, <1>2
  DEF TriesASession, AnswerOfStep, IdsAreUnique, RollbackOnlyByGenerator, KeptUntilFailure,
      FailedAreGivenUp
<1>5. SlicesStored'
  BY <1>1, <1>2 DEF SlicesStored, Generators
<1> QED
  BY <1>3, <1>4, <1>5

\* A crash ends calls without an answer and without a rollback.
LEMMA CallsAreLost == ASSUME Inv, Crash PROVE Inv'
<1> USE DEF Inv
<1>1. /\ pc' = [c \in Calls |-> IF c \in InProgress THEN "crashed" ELSE pc[c]]
      /\ UNCHANGED <<generated, lastKeyId, rollbacks, leftBehind, slices, key, keyId, already, request>>
  BY DEF Crash, private, events
<1>2. Generators' = Generators /\ \A d \in Calls : Ids(d)' = Ids(d)
  BY <1>1 DEF Generators, Ids
<1>3. \A c \in Calls : pc'[c] = "crashed" \/ pc'[c] = pc[c]
  BY <1>1
<1>4. \A c \in Calls : pc[c] = "failed" => pc'[c] = "failed"
  BY <1>1 DEF InProgress
<1>5. TypeOK'
  BY <1>1 DEF TypeOK, Steps
<1>6. TriesASession' /\ AnswerOfStep' /\ IdsAreUnique'
  BY <1>1, <1>2, <1>3 DEF TriesASession, AnswerOfStep, IdsAreUnique
<1>7. RollbackOnlyByGenerator' /\ KeptUntilFailure' /\ SlicesStored' /\ FailedAreGivenUp'
  BY <1>1, <1>2, <1>3, <1>4
  DEF RollbackOnlyByGenerator, KeptUntilFailure, SlicesStored, FailedAreGivenUp, Generators
<1> QED
  BY <1>5, <1>6, <1>7

LEMMA StepInv == Inv /\ [Next]_vars => Inv'
<1> SUFFICES ASSUME Inv, [Next]_vars PROVE Inv'
  OBVIOUS
<1>1. ASSUME NEW c \in Calls,
             NEW sessions \in [Ids(c) -> (0..MAX_NUMBER_OF_ACTIVE_SESSIONS) \cup {NoRow}],
             StoreSlices(c, sessions)
      PROVE  Inv'
  BY <1>1, StoresStart
<1>2. ASSUME NEW c \in Calls, NEW s \in Storages, NEW reply \in Reply,
             ScmAnswers(c, s, reply)
      PROVE  Inv'
  BY <1>2, AnswerArrives
<1>3. ASSUME NEW c \in Calls, NEW s \in Storages, ScmStores(c, s)
      PROVE  Inv'
  BY <1>3, SliceIsStored
<1>4. ASSUME NEW c \in Calls,
             AskForKey(c) \/ TakeAnswer(c) \/ CannotStore(c) \/ FinishStores(c)
               \/ FailStores(c) \/ PrivateServerFails(c)
      PROVE  Inv'
  BY <1>4, BridgeMoves
<1>5. ASSUME NEW c \in Calls, PrivateServerGenerates(c) \/ PrivateServerHasKey(c)
      PROVE  Inv'
  BY <1>5, KeyIsGenerated, KeyIsThere
<1>6. ASSUME NEW id \in rollbacks, PrivateServerRollsBack(id) \/ LoseRollback(id)
      PROVE  Inv'
  BY <1>6, KeyIsRolledBack
<1>7. CASE Crash
  BY <1>7, CallsAreLost
<1>8. CASE Quiet \/ UNCHANGED vars
  <2>1. UNCHANGED vars
    BY <1>8 DEF Quiet
  <2> QED
    BY <2>1
    DEF vars, Inv, TypeOK, TriesASession, AnswerOfStep, IdsAreUnique, Generators,
        RollbackOnlyByGenerator, KeptUntilFailure, SlicesStored, FailedAreGivenUp, Ids
<1> QED
  BY <1>1, <1>2, <1>3, <1>4, <1>5, <1>6, <1>7, <1>8 DEF Next

----------------------------------------------------------------------------
(* The theorems of key generation.                                          *)

LEMMA InvImplies == Inv => SuccessIsDurable
<1> SUFFICES ASSUME Inv, NEW g \in Generators, pc[g] = "succeeded",
                    NEW c \in Calls, pc[c] = "succeeded", keyId[c] = keyId[g]
             PROVE  Complete(c)
  BY DEF SuccessIsDurable
<1>1. key[c] = key[g] /\ Ids(c) = Ids(g)
  BY DEF Inv, IdsAreUnique, Ids
<1> QED
  BY <1>1 DEF Complete, Inv, KeptUntilFailure, SlicesStored

\* Calls, requests, keys and slices keep their types (TypeOK).
THEOREM TypeCorrect == Spec => []TypeOK
<1>1. Inv => TypeOK
  BY DEF Inv
<1> QED
  BY InitInv, StepInv, <1>1, PTL DEF Spec

\* A key whose generation was answered with success stays complete, for every
\* call that has been answered with it (SuccessIsDurable).
THEOREM SuccessLasts == Spec => []SuccessIsDurable
BY InitInv, StepInv, InvImplies, PTL DEF Spec

\* Only the failed call that generated a key has it rolled back
\* (RollbackOnlyByGenerator).
THEOREM RollbackIsOwn == Spec => []RollbackOnlyByGenerator
<1>1. Inv => RollbackOnlyByGenerator
  BY DEF Inv
<1> QED
  BY InitInv, StepInv, <1>1, PTL DEF Spec

\* A key that lacks a slice is no key of a call that succeeded.
LEMMA HalfKeyInv == Inv => HalfKeysAreExplained
<1> SUFFICES ASSUME Inv, NEW k \in Keys, generated[k] # 0,
                    NEW s \in StoragesOf[k], <<s, generated[k]>> \notin slices
             PROVE  \E g \in Generators :
                      /\ keyId[g] = generated[k]
                      /\ \/ pc[g] \in {"answered", "read", "store", "crashed"}
                         \/ keyId[g] \in rollbacks \cup leftBehind
  BY DEF HalfKeysAreExplained
<1>1. PICK g \in Generators : keyId[g] = generated[k]
  BY DEF Inv, FailedAreGivenUp
<1>2. g \in Calls /\ keyId[g] # 0 /\ key[g] = k /\ Ids(g) = StoragesOf[k]
  BY <1>1 DEF Inv, IdsAreUnique, Generators, Ids
<1>3. pc[g] \notin {"idle", "asked", "succeeded"}
  BY <1>1, <1>2 DEF Inv, AnswerOfStep, SlicesStored
<1>4. pc[g] = "failed" => keyId[g] \in rollbacks \cup leftBehind
  BY <1>1 DEF Inv, FailedAreGivenUp
<1> QED
  BY <1>1, <1>2, <1>3, <1>4 DEF Inv, TypeOK, Steps

\* A key of which a slice is missing is still being stored or being given up,
\* unless a crash, a lost event or an early failure left it (HalfKeysAreExplained).
THEOREM HalfKeysHaveAReason == Spec => []HalfKeysAreExplained
BY InitInv, StepInv, HalfKeyInv, PTL DEF Spec

----------------------------------------------------------------------------
(* The inductive invariant of the keys in use.                              *)

\* A slice was sent only to a storage that has a row, and a call that has
\* stored the slices of its key found a row for each storage.
StoresHaveRows ==
  /\ \A c \in Calls, s \in Storages : request[c][s] # NoRow => s \in rows
  /\ \A g \in Generators : pc[g] = "succeeded" => Ids(g) \subseteq rows

\* A confirmed key is one a caller was given, by a call that succeeded.
ConfirmedSucceeded ==
  /\ confirmed \subseteq Keys
  /\ \A k \in confirmed :
       \E g \in Generators :
         pc[g] = "succeeded" /\ keyId[g] = signsWith[k] /\ key[g] = k

\* Each storage of a key whose slices were being stored has a row.
BegunHaveRows ==
  /\ begun \subseteq Keys
  /\ \A k \in begun : StoragesOf[k] \subseteq rows

\* Every storage of such a key, or of a confirmed one, is asked for its slice.
AllAreAsked ==
  \A k \in confirmed \cup begun :
    stage[k] \in {"fetching", "filled"} => SignP!Asked(k) = StoragesOf[k]

\* A slice that was fetched is one the storage has.
FetchedIsStored ==
  \A k \in Keys, s \in Storages :
    fetch[k][s] # NoRow /\ fetch[k][s].state = "fulfilled" => HasSlice(k, s)

LifecycleInv ==
  /\ Inv /\ SignP!Inv
  /\ StoresHaveRows /\ ConfirmedSucceeded /\ BegunHaveRows
  /\ AllAreAsked /\ FetchedIsStored /\ ConfirmedKeyIsFound

----------------------------------------------------------------------------
(* Signing.                                                                 *)

\* Signing starts as it does by itself.
LEMMA SignInit == Sign!Init => SignP!Inv
BY SignP!InitInv, SessionsAssumption, StoragesOfAssumption, NoRowAssumption
DEF Sign!Init, SignP!Init, Sign!NoError, SignP!NoError, Request, SignP!Request,
    RequestStates, SignP!RequestStates

\* The same, of the state after a step.
LEMMA SignInitAgain == Sign!Init' => SignP!Inv'
BY SignInit, PTL

\* The steps of the request to sign are steps of Signing.
LEMMA ReceiveIsSigning == ASSUME Sign!Receive PROVE SignP!Next
BY DEF Sign!Receive, SignP!Receive, SignP!Next

\* So are those of a request that goes on.
LEMMA ContinueIsSigning == ASSUME ContinueToSign PROVE SignP!Next
<1>1. ASSUME NEW k \in Keys, NEW sessions \in SessionCounts(StoragesOf[k]),
             Sign!StartFetch(k, sessions) \/ Sign!RefuseInactive(k, sessions)
      PROVE  SignP!Next
  <2>1. SignP!StartFetch(k, sessions) \/ SignP!RefuseInactive(k, sessions)
    BY <1>1
    DEF Sign!StartFetch, SignP!StartFetch, Sign!RefuseInactive, SignP!RefuseInactive,
        Sign!Inactive, SignP!Inactive, Sign!Found, SignP!Found, Sign!StartRequest,
        SignP!StartRequest, Sign!RejectSigner, SignP!RejectSigner,
        Sign!ReadInfo, SignP!ReadInfo, Sign!NoActiveSession, SignP!NoActiveSession,
        Sign!SCMNotConnected, SignP!SCMNotConnected
  <2> QED BY <2>1 DEF SignP!Next, SignP!SessionsRead, SessionCounts
<1>2. ASSUME NEW k \in Keys, NEW s \in StoragesOf[k], NEW reply \in SliceReplies(k, s),
             Sign!ScmAnswers(k, s, reply)
      PROVE  SignP!Next
  <2>1. s \in Storages /\ reply \in SignP!Reply
    BY StoragesOfAssumption DEF SliceReplies, Reply, SignP!Reply
  <2>2. SignP!ScmAnswers(k, s, reply)
    BY <1>2
    DEF Sign!ScmAnswers, SignP!ScmAnswers, Sign!In, SignP!In, Sign!Asked, SignP!Asked,
        Sign!AfterReply, SignP!AfterReply, Sign!AfterFailure, SignP!AfterFailure,
        Sign!Outcome, SignP!Outcome, Sign!Succeeds, SignP!Succeeds,
        Sign!FileNotFound, SignP!FileNotFound, Sign!HandlerThrows, SignP!HandlerThrows
  <2> QED BY <2>1, <2>2 DEF SignP!Next
<1>3. ASSUME NEW k \in Keys, Sign!FailRead(k) \/ Sign!RejectFetch(k) \/ Sign!JoinSlices(k)
      PROVE  SignP!Next
  <2>1. SignP!FailRead(k) \/ SignP!RejectFetch(k) \/ SignP!JoinSlices(k)
    BY <1>3
    DEF Sign!FailRead, SignP!FailRead, Sign!RejectFetch, SignP!RejectFetch,
        Sign!JoinSlices, SignP!JoinSlices, Sign!RejectSigner, SignP!RejectSigner,
        Sign!AllSettled, SignP!AllSettled, Sign!In, SignP!In, Sign!Asked, SignP!Asked,
        Sign!MustReject, SignP!MustReject, Sign!Failed, SignP!Failed,
        Sign!Rejected, SignP!Rejected, Sign!FetchError, SignP!FetchError,
        Sign!SCMNotConnected, SignP!SCMNotConnected, Sign!OtherError, SignP!OtherError
  <2> QED BY <2>1 DEF SignP!Next
<1>4. CASE Sign!SendToPrivateServer \/ Sign!PrivateServerSigns \/ Sign!PrivateServerRefuses
  BY <1>4
  DEF Sign!SendToPrivateServer, SignP!SendToPrivateServer, Sign!PrivateServerSigns,
      SignP!PrivateServerSigns, Sign!PrivateServerRefuses, SignP!PrivateServerRefuses,
      SignP!Next
<1> QED
  BY <1>1, <1>2, <1>3, <1>4 DEF ContinueToSign

\* The invariant of Signing is kept by such a step, and by a step that leaves
\* the request alone.
LEMMA SignStep ==
  SignP!Inv /\ (SignP!Next \/ UNCHANGED requestToSign) => SignP!Inv'
<1>1. UNCHANGED requestToSign => UNCHANGED SignP!vars
  BY DEF requestToSign, SignP!vars
<1> QED
  BY <1>1, SignP!StepInv, SessionsAssumption, StoragesOfAssumption, NoRowAssumption
  DEF Request, SignP!Request, RequestStates, SignP!RequestStates

----------------------------------------------------------------------------
(* Generation.                                                              *)

\* The steps of generation are steps of KeyGeneration, or stutter there.
LEMMA LifecycleIsGeneration == [LifecycleNext]_lifecycleVars => [Next]_vars
<1> SUFFICES ASSUME [LifecycleNext]_lifecycleVars PROVE [Next]_vars
  OBVIOUS
<1>1. ASSUME NEW c \in Calls, Generate(c) PROVE Next
  BY <1>1 DEF Generate, Next, SessionCounts
<1>2. ASSUME NEW id \in rollbacks, HandleRollback(id) PROVE Next
  BY <1>2 DEF HandleRollback, Next
<1>3. ASSUME ProcessEnds \/ Rest PROVE [Next]_vars
  BY <1>3 DEF ProcessEnds, Rest, Next
<1>4. ASSUME AskToSign \/ ContinueToSign \/ EndRequest \/ UNCHANGED lifecycleVars
             \/ \E s \in Storages : Enroll(s)
      PROVE  UNCHANGED vars
  BY <1>4 DEF AskToSign, ContinueToSign, EndRequest, Enroll, lifecycleVars
<1> QED
  BY <1>1, <1>2, <1>3, <1>4 DEF LifecycleNext

\* What a call of KeyGeneration that has succeeded keeps, whatever step is
\* taken: its place, its answer, and its slices.
LEMMA SucceededStays ==
  ASSUME Inv, [Next]_vars, NEW g \in Calls, pc[g] = "succeeded"
  PROVE  /\ pc'[g] = "succeeded" /\ keyId'[g] = keyId[g]
         /\ already'[g] = already[g] /\ key'[g] = key[g]
<1> USE DEF Inv, TypeOK
<1>1. ASSUME NEW c \in Calls,
             \/ AskForKey(c) \/ TakeAnswer(c) \/ CannotStore(c) \/ FinishStores(c)
             \/ FailStores(c) \/ PrivateServerFails(c)
             \/ PrivateServerGenerates(c) \/ PrivateServerHasKey(c)
             \/ \E sessions \in SessionCounts(Ids(c)) : StoreSlices(c, sessions)
      PROVE  /\ pc[c] # "succeeded"
             /\ \E step : pc' = [pc EXCEPT ![c] = step]
             /\ keyId' = keyId \/ \E id : keyId' = [keyId EXCEPT ![c] = id]
             /\ already' = already \/ already' = [already EXCEPT ![c] = TRUE]
             /\ key' = key
  BY <1>1
  DEF AskForKey, TakeAnswer, CannotStore, Abandon, RollBack, FinishStores, FailStores,
      PrivateServerFails, PrivateServerGenerates, PrivateServerHasKey, StoreSlices
<1>2. ASSUME NEW c \in Calls, NEW s \in Storages,
             ScmStores(c, s) \/ (\E reply \in Reply : ScmAnswers(c, s, reply))
      PROVE  UNCHANGED <<pc, keyId, already, key>>
  BY <1>2 DEF ScmStores, ScmAnswers
<1>3. ASSUME NEW id \in rollbacks, PrivateServerRollsBack(id) \/ LoseRollback(id)
      PROVE  UNCHANGED <<pc, keyId, already, key>>
  BY <1>3 DEF PrivateServerRollsBack, LoseRollback
<1>4. CASE Crash
  BY <1>4 DEF Crash, InProgress
<1>5. CASE Quiet \/ UNCHANGED vars
  BY <1>5 DEF Quiet, vars
<1> QED
  BY <1>1, <1>2, <1>3, <1>4, <1>5 DEF Next, SessionCounts

\* The rows of StoresHaveRows: a request starts only for a row that is found,
\* and all stores end well only if there is one for each storage.
LEMMA GenerationHasRows ==
  ASSUME Inv, StoresHaveRows, NEW c \in Calls, Generate(c), Inv'
  PROVE  StoresHaveRows'
<1> USE DEF Inv, TypeOK
<1>1. rows' = rows /\ key' = key /\ \A d \in Calls : Ids(d)' = Ids(d)
  BY DEF Generate, AskForKey, TakeAnswer, StoreSlices, CannotStore, FinishStores, FailStores,
         ScmStores, ScmAnswers, PrivateServerGenerates, PrivateServerHasKey,
         PrivateServerFails, Ids
<1>2. ASSUME NEW sessions \in SessionCounts(Ids(c)),
             FindsRows(Ids(c), sessions), StoreSlices(c, sessions)
      PROVE  StoresHaveRows'
  <2>1. \A d \in Calls, s \in Storages :
          request'[d][s] # NoRow => request[d][s] # NoRow \/ s \in rows
    BY <1>2 DEF StoreSlices, FindsRows
  <2>2. pc' = [pc EXCEPT ![c] = "store"] /\ UNCHANGED <<keyId, already>>
    BY <1>2 DEF StoreSlices
  <2> QED BY <1>1, <2>1, <2>2 DEF StoresHaveRows, Generators
<1>3. ASSUME NEW s \in Storages, NEW reply \in Reply, ScmAnswers(c, s, reply)
      PROVE  StoresHaveRows'
  <2>1. \A d \in Calls, t \in Storages : request'[d][t] # NoRow => request[d][t] # NoRow
    BY <1>3 DEF ScmAnswers, Pending
  <2>2. UNCHANGED <<pc, keyId, already>>
    BY <1>3 DEF ScmAnswers
  <2> QED BY <1>1, <2>1, <2>2 DEF StoresHaveRows, Generators
<1>4. ASSUME UNCHANGED <<request, keyId, already>>,
             \E step \in Steps :
               /\ pc' = [pc EXCEPT ![c] = step]
               /\ step = "succeeded" /\ c \in Generators => Ids(c) \subseteq rows
      PROVE  StoresHaveRows'
  BY <1>1, <1>4 DEF StoresHaveRows, Generators
<1>5. CASE AskForKey(c) \/ CannotStore(c) \/ FailStores(c) \/ PrivateServerFails(c)
  BY <1>4, <1>5 DEF AskForKey, CannotStore, FailStores, Abandon, RollBack,
                    PrivateServerFails, Steps
<1>6. CASE TakeAnswer(c)
  BY <1>4, <1>6 DEF TakeAnswer, AfterAnswer, Generators, Steps
<1>7. CASE FinishStores(c)
  <2>1. Ids(c) \subseteq rows
    BY <1>7, StoragesOfAssumption
    DEF FinishStores, AllStored, Failures, Ids, StoresHaveRows
  <2> QED BY <1>4, <1>7, <2>1 DEF FinishStores, Steps
<1>8. ASSUME NEW s \in Storages, ScmStores(c, s) PROVE StoresHaveRows'
  BY <1>1, <1>8 DEF ScmStores, StoresHaveRows, Generators
<1>9. CASE PrivateServerGenerates(c) \/ PrivateServerHasKey(c)
  <2>1. /\ request' = request /\ pc' = [pc EXCEPT ![c] = "answered"]
        /\ keyId' = [keyId EXCEPT ![c] = keyId'[c]]
        /\ already' = [already EXCEPT ![c] = already'[c]]
    BY <1>9 DEF PrivateServerGenerates, PrivateServerHasKey
  <2>2. \A g \in Generators' :
          g \in Calls /\ (pc'[g] = "succeeded" => g \in Generators /\ pc[g] = "succeeded")
    BY <2>1 DEF Generators
  <2> QED BY <1>1, <2>1, <2>2 DEF StoresHaveRows
<1> QED
  BY <1>2, <1>3, <1>5, <1>6, <1>7, <1>8, <1>9 DEF Generate

\* An SCM loses no slice.
LEMMA SlicesStay == ASSUME [Next]_vars PROVE slices \subseteq slices'
<1>1. ASSUME NEW c \in Calls,
             \/ AskForKey(c) \/ TakeAnswer(c) \/ CannotStore(c) \/ FinishStores(c)
             \/ FailStores(c) \/ PrivateServerFails(c)
             \/ PrivateServerGenerates(c) \/ PrivateServerHasKey(c)
             \/ \E sessions \in SessionCounts(Ids(c)) : StoreSlices(c, sessions)
      PROVE  slices' = slices
  BY <1>1
  DEF AskForKey, TakeAnswer, CannotStore, FinishStores, FailStores, PrivateServerFails,
      PrivateServerGenerates, PrivateServerHasKey, StoreSlices
<1>2. ASSUME NEW c \in Calls, NEW s \in Storages,
             ScmStores(c, s) \/ (\E reply \in Reply : ScmAnswers(c, s, reply))
      PROVE  slices \subseteq slices'
  BY <1>2 DEF ScmStores, ScmAnswers
<1>3. ASSUME NEW id \in rollbacks, PrivateServerRollsBack(id) \/ LoseRollback(id)
      PROVE  slices' = slices
  BY <1>3 DEF PrivateServerRollsBack, LoseRollback
<1>4. CASE Crash \/ Quiet \/ UNCHANGED vars
  BY <1>4 DEF Crash, Quiet, vars
<1> QED
  BY <1>1, <1>2, <1>3, <1>4 DEF Next, SessionCounts

\* While the request to sign stands still nothing that confirmed a key is
\* taken back.
LEMMA RequestStands ==
  ASSUME LifecycleInv, [Next]_vars, UNCHANGED requestToSign, rows \subseteq rows'
  PROVE  /\ ConfirmedSucceeded' /\ BegunHaveRows'
         /\ AllAreAsked' /\ FetchedIsStored' /\ ConfirmedKeyIsFound'
<1> USE DEF LifecycleInv
<1>1. UNCHANGED <<signsWith, confirmed, begun, stage, fetch>>
  BY DEF requestToSign
<1>2. ASSUME NEW g \in Generators, pc[g] = "succeeded"
      PROVE  /\ g \in Generators' /\ pc'[g] = "succeeded"
             /\ keyId'[g] = keyId[g] /\ key'[g] = key[g]
  BY <1>2, SucceededStays DEF Generators
<1>3. ConfirmedSucceeded'
  BY <1>1, <1>2 DEF ConfirmedSucceeded
<1>4. AllAreAsked' /\ ConfirmedKeyIsFound' /\ BegunHaveRows'
  BY <1>1 DEF AllAreAsked, ConfirmedKeyIsFound, SignP!Asked, BegunHaveRows
<1>5. FetchedIsStored'
  BY <1>1, SlicesStay DEF FetchedIsStored, HasSlice
<1> QED
  BY <1>3, <1>4, <1>5

\* A step that leaves generation alone leaves what confirmed a key.
LEMMA GenerationStands ==
  ASSUME LifecycleInv, UNCHANGED vars, UNCHANGED <<signsWith, confirmed>>
  PROVE  Inv' /\ ConfirmedSucceeded'
<1> USE DEF LifecycleInv
<1>1. Inv'
  BY StepInv
<1> QED
  BY <1>1 DEF vars, ConfirmedSucceeded, Generators

\* A request to sign arrives: a key is confirmed only if a call generated it,
\* and succeeded.
LEMMA RequestArrives == ASSUME LifecycleInv, AskToSign PROVE LifecycleInv'
<1> USE DEF LifecycleInv
<1>1. /\ \A k \in Keys : signsWith'[k] \in Given(k)
      /\ confirmed' = {k \in Keys : Succeeded(signsWith'[k])}
      /\ begun' = {k \in Keys : Begun(signsWith'[k])}
      /\ Sign!Receive /\ UNCHANGED vars /\ rows' = rows
  BY DEF AskToSign
<1>2. Inv'
  BY <1>1, StepInv
<1>3. SignP!Inv'
  BY <1>1, ReceiveIsSigning, SignStep
<1>4. StoresHaveRows'
  BY <1>1 DEF StoresHaveRows, vars, Generators, Ids
<1>5. ConfirmedSucceeded'
  <2>1. ASSUME NEW k \in confirmed'
        PROVE  \E g \in Generators :
                 pc[g] = "succeeded" /\ keyId[g] = signsWith'[k] /\ key[g] = k
    <3>1. PICK g \in Generators : pc[g] = "succeeded" /\ keyId[g] = signsWith'[k]
      BY <1>1, <2>1 DEF Succeeded
    <3>2. PICK c \in Calls : key[c] = k /\ keyId[c] = signsWith'[k]
      BY <1>1, <2>1 DEF Given
    <3>3. key[g] = key[c]
      BY <3>1, <3>2 DEF Inv, IdsAreUnique
    <3> QED BY <3>1, <3>2, <3>3
  <2> QED BY <1>1, <2>1 DEF ConfirmedSucceeded, vars, Generators
<1>6. fetch' = fetch /\ stage' = [k \in Keys |-> IF StoragesOf[k] = {} THEN "filled" ELSE "reading"]
  BY <1>1 DEF Sign!Receive
<1>7. \A k \in Keys : SignP!Asked(k) = {}
  BY <1>1 DEF Sign!Receive, SignP!Inv, SignP!IdleUntilReceived, SignP!SignerOfStage
<1>8. \A k \in Keys, s \in Storages : fetch'[k][s] = NoRow
  BY <1>6, <1>7 DEF SignP!Asked
<1>9. AllAreAsked' /\ ConfirmedKeyIsFound' /\ FetchedIsStored'
  BY <1>1, <1>6, <1>7, <1>8, StoragesOfAssumption
  DEF AllAreAsked, ConfirmedKeyIsFound, FetchedIsStored, SignP!Asked
<1>10. BegunHaveRows'
  <2>1. ASSUME NEW k \in begun' PROVE StoragesOf[k] \subseteq rows
    <3>1. PICK g \in Generators :
            keyId[g] = signsWith'[k] /\ \A s \in Ids(g) : request[g][s] # NoRow
      BY <1>1, <2>1 DEF Begun
    <3>2. PICK c \in Calls : key[c] = k /\ keyId[c] = signsWith'[k]
      BY <1>1, <2>1 DEF Given
    <3>3. g \in Calls /\ Ids(g) = StoragesOf[k] /\ StoragesOf[k] \subseteq Storages
      BY <1>1, <2>1, <3>1, <3>2, StoragesOfAssumption DEF Inv, IdsAreUnique, Generators, Ids
    <3> QED BY <3>1, <3>3 DEF StoresHaveRows
  <2> QED BY <1>1, <2>1 DEF BegunHaveRows
<1> QED
  BY <1>2, <1>3, <1>4, <1>5, <1>9, <1>10

\* The slices of a confirmed key are stored, and its storages have rows.
LEMMA ConfirmedIsStored ==
  ASSUME LifecycleInv, NEW k \in confirmed
  PROVE  /\ \A s \in StoragesOf[k] : HasSlice(k, s) /\ s \in rows
         /\ generated[k] = signsWith[k]
<1> USE DEF LifecycleInv
<1>1. PICK g \in Generators : pc[g] = "succeeded" /\ keyId[g] = signsWith[k] /\ key[g] = k
  BY DEF ConfirmedSucceeded
<1>2. Ids(g) = StoragesOf[k]
  BY <1>1 DEF Ids
<1>3. \A s \in StoragesOf[k] : <<s, signsWith[k]>> \in slices /\ s \in rows
  BY <1>1, <1>2 DEF Inv, SlicesStored, StoresHaveRows
<1>4. generated[k] = signsWith[k]
  BY <1>1 DEF Inv, KeptUntilFailure
<1> QED
  BY <1>3, <1>4 DEF HasSlice

\* The request goes on: every storage of a confirmed key has a row to be found,
\* and has the slice it is asked for; one that has no slice does not answer with
\* one.
LEMMA RequestGoesOn == ASSUME LifecycleInv, ContinueToSign PROVE LifecycleInv'
<1> USE DEF LifecycleInv
<1>1. UNCHANGED <<vars, rows, signsWith, confirmed, begun>>
  BY DEF ContinueToSign
<1>2. Inv' /\ ConfirmedSucceeded'
  BY <1>1, GenerationStands
<1>3. SignP!Inv'
  BY ContinueIsSigning, SignStep
<1>4. StoresHaveRows'
  BY <1>1 DEF StoresHaveRows, vars, Generators, Ids
<1>5. /\ confirmed \subseteq Keys /\ begun \subseteq Keys /\ BegunHaveRows'
      /\ \A k \in confirmed \cup begun : \A s \in StoragesOf[k] : s \in rows
      /\ \A k \in Keys, s \in Storages : HasSlice(k, s)' = HasSlice(k, s)
  BY <1>1, ConfirmedIsStored DEF ConfirmedSucceeded, BegunHaveRows, HasSlice, vars
<1>6. /\ fetch \in [Keys -> [Storages -> SignP!Request \cup {NoRow}]]
      /\ stage \in [Keys -> {"idle", "reading", "fetching", "filled", "rejected"}]
  BY DEF SignP!Inv, SignP!TypeOK
<1>7. ASSUME NEW k \in Keys, NEW sessions \in SessionCounts(StoragesOf[k]),
             FindsRows(StoragesOf[k], sessions), Sign!StartFetch(k, sessions)
      PROVE  AllAreAsked' /\ FetchedIsStored' /\ ConfirmedKeyIsFound'
  <2> DEFINE asked == [s \in Storages |->
               IF s \in Sign!Found(sessions) THEN Sign!StartRequest(sessions[s]) ELSE NoRow]
  <2>1. /\ fetch' = [fetch EXCEPT ![k] = asked]
        /\ stage' = [stage EXCEPT ![k] = "fetching"]
    BY <1>7 DEF Sign!StartFetch
  <2>2. \A s \in Storages :
          asked[s] # NoRow => asked[s].state \notin {"KeyNotFoundInSCM", "fulfilled"}
    BY DEF Sign!StartRequest
  <2>3. k \in confirmed \cup begun => \A s \in Storages : asked[s] # NoRow <=> s \in StoragesOf[k]
    <3>1. ASSUME NEW s \in Storages, s \in StoragesOf[k], k \in confirmed \cup begun
          PROVE  asked[s] # NoRow
      <4>1. s \in Sign!Found(sessions)
        BY <1>5, <1>7, <3>1 DEF FindsRows, Sign!Found, SessionCounts
      <4>2. sessions[s] \in 0..MAX_NUMBER_OF_ACTIVE_SESSIONS
        BY <4>1 DEF Sign!Found, SessionCounts
      <4>3. asked[s] \in Request
        BY <4>1, <4>2 DEF Sign!StartRequest, Request, RequestStates
      <4> QED BY <4>3, NoRowAssumption
    <3> QED BY <3>1 DEF Sign!Found, SessionCounts
  <2> HIDE DEF asked
  <2>4. \A l \in Keys : fetch'[l] = (IF l = k THEN asked ELSE fetch[l])
                        /\ (l # k => stage'[l] = stage[l])
    BY <1>6, <2>1
  <2>5. k \in confirmed \cup begun => SignP!Asked(k)' = StoragesOf[k]
    BY <2>3, <2>4, StoragesOfAssumption DEF SignP!Asked
  <2>6. \A l \in Keys \ {k} : SignP!Asked(l)' = SignP!Asked(l)
    BY <2>4 DEF SignP!Asked
  <2>7. AllAreAsked'
    BY <1>1, <1>5, <2>4, <2>5, <2>6 DEF AllAreAsked
  <2>8. ConfirmedKeyIsFound'
    BY <1>1, <1>5, <2>2, <2>4, StoragesOfAssumption DEF ConfirmedKeyIsFound
  <2>9. FetchedIsStored'
    BY <1>5, <2>2, <2>4 DEF FetchedIsStored
  <2> QED BY <2>7, <2>8, <2>9
<1>8. ASSUME NEW k \in Keys, NEW s \in StoragesOf[k], NEW reply \in SliceReplies(k, s),
             Sign!ScmAnswers(k, s, reply)
      PROVE  AllAreAsked' /\ FetchedIsStored' /\ ConfirmedKeyIsFound'
  <2> DEFINE next == Sign!AfterReply(fetch[k][s], reply, TRUE)
  <2>1. /\ fetch' = [fetch EXCEPT ![k][s] = next]
        /\ stage' = stage /\ s \in Storages
        /\ fetch[k][s] # NoRow
    BY <1>8, StoragesOfAssumption DEF Sign!ScmAnswers, Sign!In, Sign!Asked
  <2>2. k \in confirmed => next.state # "KeyNotFoundInSCM"
    <3>1. k \in confirmed => reply.body \in {"value", "some message", "none"}
      BY ConfirmedIsStored DEF SliceReplies
    <3>2. k \in confirmed => Sign!Outcome(reply, TRUE) # "KeyNotFoundInSCM"
      BY <3>1 DEF Sign!Outcome, Sign!FileNotFound, Sign!HandlerThrows
    <3> QED BY <3>2 DEF Sign!AfterReply, Sign!AfterFailure
  <2>3. next.state = "fulfilled" => HasSlice(k, s)
    <3>1. reply.status = "ok" => HasSlice(k, s)
      BY DEF SliceReplies, Reply
    <3>2. Sign!Outcome(reply, TRUE) = "fulfilled" => reply.status = "ok"
      BY DEF Sign!Outcome, Sign!Succeeds
    <3> QED BY <3>1, <3>2 DEF Sign!AfterReply, Sign!AfterFailure
  <2> HIDE DEF next
  <2>4. \A l \in Keys, t \in Storages :
          fetch'[l][t] = IF l = k /\ t = s THEN next ELSE fetch[l][t]
    BY <1>6, <2>1
  <2>5. next # NoRow
    <3>1. /\ fetch[k][s] \in Request /\ fetch[k][s].state = "trying"
          /\ fetch[k][s].left # 0
      BY <1>6, <1>8, <2>1
      DEF Sign!ScmAnswers, Sign!In, SignP!Inv, SignP!TriesASession, Request,
          SignP!Request, RequestStates, SignP!RequestStates
    <3>2. next = AfterReply(fetch[k][s], reply, TRUE)
      BY DEF next, Sign!AfterReply, AfterReply, Sign!AfterFailure, AfterFailure,
             Sign!Outcome, Outcome, Sign!Succeeds, Succeeds, Sign!FileNotFound,
             FileNotFound, Sign!HandlerThrows, HandlerThrows
    <3>3. reply \in Reply
      BY DEF SliceReplies
    <3> QED BY <3>1, <3>2, <3>3, RequestAfterReply, NoRowAssumption
  <2>6. \A l \in Keys : SignP!Asked(l)' = SignP!Asked(l)
    BY <2>1, <2>4, <2>5 DEF SignP!Asked
  <2>7. ConfirmedKeyIsFound'
    BY <1>1, <1>5, <2>2, <2>4, StoragesOfAssumption DEF ConfirmedKeyIsFound
  <2>8. FetchedIsStored'
    BY <1>5, <2>3, <2>4 DEF FetchedIsStored
  <2>9. AllAreAsked'
    BY <1>1, <1>5, <2>1, <2>6 DEF AllAreAsked
  <2> QED BY <2>7, <2>8, <2>9
<1>9. ASSUME fetch' = fetch,
             \A k \in Keys : stage'[k] \in {"fetching", "filled"} =>
                               stage[k] \in {"fetching", "filled"}
      PROVE  AllAreAsked' /\ FetchedIsStored' /\ ConfirmedKeyIsFound'
  BY <1>1, <1>5, <1>9 DEF AllAreAsked, FetchedIsStored, ConfirmedKeyIsFound, SignP!Asked
<1>10. ASSUME NEW k \in Keys,
              \/ Sign!FailRead(k) \/ Sign!RejectFetch(k) \/ Sign!JoinSlices(k)
              \/ \E sessions : Sign!RefuseInactive(k, sessions)
       PROVE  AllAreAsked' /\ FetchedIsStored' /\ ConfirmedKeyIsFound'
  BY <1>6, <1>9, <1>10
  DEF Sign!FailRead, Sign!RejectFetch, Sign!JoinSlices, Sign!RefuseInactive,
      Sign!RejectSigner
<1>11. ASSUME \/ Sign!SendToPrivateServer \/ Sign!PrivateServerSigns
              \/ Sign!PrivateServerRefuses
       PROVE  AllAreAsked' /\ FetchedIsStored' /\ ConfirmedKeyIsFound'
  BY <1>9, <1>11
  DEF Sign!SendToPrivateServer, Sign!PrivateServerSigns, Sign!PrivateServerRefuses
<1>12. AllAreAsked' /\ FetchedIsStored' /\ ConfirmedKeyIsFound'
  BY <1>7, <1>8, <1>10, <1>11 DEF ContinueToSign
<1> QED
  BY <1>2, <1>3, <1>4, <1>5, <1>12

\* A request that is over, or lost in a crash, leaves nothing behind.
LEMMA RequestIsForgotten ==
  ASSUME LifecycleInv, ForgetRequest, [Next]_vars, rows' = rows, Inv',
         StoresHaveRows'
  PROVE  LifecycleInv'
<1> USE DEF LifecycleInv
<1>1. Sign!Init'
  BY DEF ForgetRequest, Sign!Init
<1>2. SignP!Inv'
  BY <1>1, SignInitAgain
<1>3. ConfirmedSucceeded' /\ BegunHaveRows' /\ AllAreAsked' /\ ConfirmedKeyIsFound'
  BY DEF ForgetRequest, ConfirmedSucceeded, BegunHaveRows, AllAreAsked, ConfirmedKeyIsFound
<1>4. FetchedIsStored'
  BY DEF ForgetRequest, FetchedIsStored
<1> QED
  BY <1>2, <1>3, <1>4

\* At first there is nothing.
LEMMA LifecycleInitInv == LifecycleInit => LifecycleInv
<1> SUFFICES ASSUME LifecycleInit PROVE LifecycleInv
  OBVIOUS
<1>1. Inv /\ SignP!Inv
  BY InitInv, SignInit DEF LifecycleInit
<1>2. StoresHaveRows
  BY DEF LifecycleInit, Init, StoresHaveRows, Generators
<1>3. ConfirmedSucceeded /\ BegunHaveRows /\ AllAreAsked /\ ConfirmedKeyIsFound
  BY DEF LifecycleInit, ConfirmedSucceeded, BegunHaveRows, AllAreAsked, ConfirmedKeyIsFound
<1>4. FetchedIsStored
  BY DEF LifecycleInit, Sign!Init, FetchedIsStored
<1> QED
  BY <1>1, <1>2, <1>3, <1>4 DEF LifecycleInv

\* The invariant is inductive.
LEMMA LifecycleStepInv == LifecycleInv /\ [LifecycleNext]_lifecycleVars => LifecycleInv'
<1> SUFFICES ASSUME LifecycleInv, [LifecycleNext]_lifecycleVars PROVE LifecycleInv'
  OBVIOUS
<1>1. [Next]_vars /\ Inv'
  BY LifecycleIsGeneration, StepInv DEF LifecycleInv
<1>2. ASSUME UNCHANGED requestToSign, rows \subseteq rows', StoresHaveRows'
      PROVE  LifecycleInv'
  BY <1>1, <1>2, RequestStands, SignStep DEF LifecycleInv
<1>3. ASSUME NEW s \in Storages, Enroll(s) PROVE LifecycleInv'
  <2>1. StoresHaveRows'
    BY <1>3 DEF Enroll, LifecycleInv, StoresHaveRows, vars, Generators, Ids
  <2> QED BY <1>2, <1>3, <2>1 DEF Enroll
<1>4. ASSUME NEW c \in Calls, Generate(c) PROVE LifecycleInv'
  <2>1. StoresHaveRows'
    BY <1>1, <1>4, GenerationHasRows DEF LifecycleInv
  <2> QED BY <1>2, <1>4, <2>1 DEF Generate
<1>5. ASSUME UNCHANGED <<rows, request, keyId, already, key>>,
             \A g \in Calls : pc'[g] = "succeeded" => pc[g] = "succeeded"
      PROVE  StoresHaveRows'
  BY <1>5 DEF LifecycleInv, StoresHaveRows, Generators, Ids
<1>6. ASSUME NEW id \in rollbacks, HandleRollback(id) PROVE LifecycleInv'
  <2>1. StoresHaveRows'
    BY <1>5, <1>6 DEF HandleRollback, PrivateServerRollsBack, LoseRollback, private
  <2> QED BY <1>2, <1>6, <2>1 DEF HandleRollback
<1>7. CASE AskToSign
  BY <1>7, RequestArrives
<1>8. CASE ContinueToSign
  BY <1>8, RequestGoesOn
<1>9. CASE EndRequest \/ ProcessEnds
  <2>1. ForgetRequest /\ rows' = rows /\ (Crash \/ UNCHANGED vars)
    BY <1>9 DEF EndRequest, ProcessEnds
  <2>2. StoresHaveRows'
    <3>1. UNCHANGED <<rows, request, keyId, already, key>>
      BY <2>1 DEF Crash, vars
    <3>2. \A g \in Calls : pc'[g] = "succeeded" => pc[g] = "succeeded"
      BY <2>1 DEF Crash, vars
    <3> QED BY <1>5, <3>1, <3>2
  <2> QED BY <1>1, <2>1, <2>2, RequestIsForgotten
<1>10. CASE Rest \/ UNCHANGED lifecycleVars
  <2>1. UNCHANGED <<vars, rows, requestToSign>>
    BY <1>10 DEF Rest, Quiet, lifecycleVars
  <2>2. StoresHaveRows'
    BY <1>5, <2>1 DEF vars
  <2> QED BY <1>2, <2>1, <2>2
<1> QED
  BY <1>3, <1>4, <1>6, <1>7, <1>8, <1>9, <1>10 DEF LifecycleNext

----------------------------------------------------------------------------
(* The theorems of the keys in use.                                         *)

\* The key parts of a confirmed key are joined of all its slices.
LEMMA ConfirmedIsWhole == LifecycleInv => SignsWithWholeKey
<1> SUFFICES ASSUME LifecycleInv, signPc \in {"signing", "signed"}, NEW k \in confirmed
             PROVE  keyPart[k] = StoragesOf[k] /\ generated[k] = signsWith[k]
  BY DEF SignsWithWholeKey
<1>1. k \in Keys
  BY DEF LifecycleInv, ConfirmedSucceeded
<1>2. stage[k] = "filled" /\ keyPart[k] = SignP!Asked(k)
  BY <1>1 DEF LifecycleInv, SignP!Inv, SignP!AllFilled, SignP!SignerOfStage
<1>3. SignP!Asked(k) = StoragesOf[k]
  BY <1>2 DEF LifecycleInv, AllAreAsked
<1> QED
  BY <1>2, <1>3, ConfirmedIsStored

\* So are those of a key whose slices were being stored, and each slice joined
\* is one its storage has.
LEMMA EarlyIsWhole == LifecycleInv => EarlySignerGetsAllOrNothing
<1> SUFFICES ASSUME LifecycleInv, signPc \in {"signing", "signed"}, NEW k \in begun
             PROVE  keyPart[k] = StoragesOf[k] /\ \A s \in StoragesOf[k] : HasSlice(k, s)
  BY DEF EarlySignerGetsAllOrNothing
<1>1. k \in Keys
  BY DEF LifecycleInv, BegunHaveRows
<1>2. /\ stage[k] = "filled" /\ keyPart[k] = SignP!Asked(k)
      /\ SignP!In(k, "fulfilled") = SignP!Asked(k)
  BY <1>1 DEF LifecycleInv, SignP!Inv, SignP!AllFilled, SignP!SignerOfStage
<1>3. SignP!Asked(k) = StoragesOf[k]
  BY <1>2 DEF LifecycleInv, AllAreAsked
<1>4. \A s \in StoragesOf[k] :
        s \in Storages /\ fetch[k][s] # NoRow /\ fetch[k][s].state = "fulfilled"
  BY <1>2, <1>3 DEF SignP!In, SignP!Asked
<1> QED
  BY <1>1, <1>2, <1>3, <1>4 DEF LifecycleInv, FetchedIsStored

\* A caller that was answered alreadyGenerated while the key was being stored
\* signs with the whole key or not at all (EarlySignerGetsAllOrNothing).
THEOREM EarlySignersGetAll == LifecycleSpec => []EarlySignerGetsAllOrNothing
BY LifecycleInitInv, LifecycleStepInv, EarlyIsWhole, PTL DEF LifecycleSpec

\* A key whose generation had succeeded is signed with as a whole
\* (SignsWithWholeKey).
THEOREM WholeKeySigns == LifecycleSpec => []SignsWithWholeKey
BY LifecycleInitInv, LifecycleStepInv, ConfirmedIsWhole, PTL DEF LifecycleSpec

\* The slices of such a key are found again (ConfirmedKeyIsFound).
THEOREM SlicesAreFound == LifecycleSpec => []ConfirmedKeyIsFound
<1>1. LifecycleInv => ConfirmedKeyIsFound
  BY DEF LifecycleInv
<1> QED
  BY LifecycleInitInv, LifecycleStepInv, <1>1, PTL DEF LifecycleSpec

\* Generation keeps its promise among requests to sign and registrations: a key
\* of a successful call stays complete (SuccessIsDurable).
THEOREM GenerationStaysDurable == LifecycleSpec => []SuccessIsDurable
<1>1. LifecycleInv => SuccessIsDurable
  BY InvImplies DEF LifecycleInv
<1> QED
  BY LifecycleInitInv, LifecycleStepInv, <1>1, PTL DEF LifecycleSpec

\* Among them too, a key that lacks a slice is on its way to be completed or
\* given up, or its reason is known (HalfKeysAreExplained).
THEOREM HalfKeysKeepTheirReason == LifecycleSpec => []HalfKeysAreExplained
<1>1. LifecycleInv => HalfKeysAreExplained
  BY HalfKeyInv DEF LifecycleInv
<1> QED
  BY LifecycleInitInv, LifecycleStepInv, <1>1, PTL DEF LifecycleSpec

============================================================================
