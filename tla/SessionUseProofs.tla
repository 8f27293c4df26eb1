--------------------------- MODULE SessionUseProofs ---------------------------
(* What TLAPS proves of SessionUse, for any storages, calls, requests and   *)
(* processes.                                                               *)
EXTENDS SessionUse, HandshakeProofs

----------------------------------------------------------------------------
(* The handshakes of SessionUse are those of Handshake.                     *)

\* Every step is a step of Handshake or leaves it alone.
LEMMA UseIsHandshake == [SessionUseNext]_sessionUseVars => [Next]_vars
BY DEF SessionUseNext, sessionUseVars, Shake, SendAnswer, ReceiveAnswer, LoseAnswer,
       BeginUse, TrySession, EndUse, ProcessEnds, PassTime, Next

\* What Handshake's proofs rest on.
Base == TypeOK /\ LockProtects /\ RowsArePast /\ InOrder /\ Ranked

LEMMA BaseInit == SessionUseInit => Base
<1> SUFFICES ASSUME NEW s \in Storage, Registered(s) PROVE Base
  BY DEF SessionUseInit
<1> DEFINE row == [storage |-> s, key |-> 1, createdAt |-> NOW]
<1>0. verifyKeys = {row} /\ sessions = {} /\ NOW \in Int
  BY SkewAssumption DEF Registered, NOW
<1>1. TypeOK
  <2>1. row \in VerifyKeyRow
    BY <1>0 DEF VerifyKeyRow
  <2> QED BY <1>0, <2>1, MarkersAssumption DEF Registered, TypeOK, Steps, RegSteps
<1>2. RowsArePast
  <2>1. IsFiniteSet(verifyKeys) /\ IsFiniteSet(sessions)
    BY <1>0, FS_EmptySet, FS_Singleton
  <2> QED BY <1>0, <2>1 DEF Registered, RowsArePast
<1>3. LockProtects /\ InOrder /\ Ranked
  BY <1>0
  DEF Registered, LockProtects, SnapshotIsCurrent, LockExcludes, InOrder, CallsInTime,
      RowsNumbered, Numbered, SessionsDated, Ranked, SessionsSpaced, ExpiryRanksByAge
<1> QED BY <1>1, <1>2, <1>3 DEF Base

LEMMA BaseStep == ASSUME ShortCalls, Base, [Next]_vars PROVE Base'
<1>1. TypeOK /\ LockProtects /\ RowsArePast /\ InOrder /\ Ranked
  BY DEF Base
<1> QED BY <1>1, TypeStep, LockStep, PastStep, OrderStep, RankedStep DEF Base

----------------------------------------------------------------------------
(* The sessions that were given out.                                        *)

\* What a process is given, and what is on its way to it.
Offer == [storage : Storage, url : Urls, session : Nat, until : Nat]

NewerStored(s, x) == {y \in Stored(s) : y > x}

\* The session is stored and expires about when the answer said, or as many
\* newer ones are stored as are kept.
Lasts(s, x, until) ==
  \/ \E r \in RowsOf(sessions, s) :
       /\ r.key = x
       /\ \/ until = r.expiresAt
          \/ until - r.expiresAt < FRESH_FOR + Skew + MaxLatency
  \/ Cardinality(NewerStored(s, x)) >= MAX_NUMBER_OF_ACTIVE_SESSIONS

OffersTyped == held \cup answers \subseteq Offer

OffersLast ==
  /\ OffersTyped
  /\ \A a \in held \cup answers : Lasts(a.storage, a.session, a.until)
  /\ \A h \in Handshakes :
       pc[h] = "reply" =>
         Lasts(call[h].storage, call[h].newSessionKey, call[h].expiresAt)

\* The numbers of a storage's rows are as finite as the table.
LEMMA KeysAreFinite ==
  ASSUME NEW table, IsFiniteSet(table), Numbered(table), NEW s
  PROVE  IsFiniteSet(KeysOf(table, s))
<1>1. /\ IsFiniteSet(RowsOf(table, s))
      /\ \A r, q \in RowsOf(table, s) : r.key = q.key => r = q
  BY FS_Subset DEF RowsOf, Numbered
<1>2. IsFiniteSet(Keys(RowsOf(table, s)))
  BY <1>1, CountByKey
<1> QED BY <1>2 DEF Keys, KeysOf

\* When a session that is no older is dropped, enough newer ones are stored.
LEMMA DroppedLeavesNewer ==
  ASSUME ShortCalls, Base, [Next]_vars, NEW r \in sessions, r \notin sessions',
         NEW x \in Nat, x <= r.key
  PROVE  Cardinality(NewerStored(r.storage, x)') >= MAX_NUMBER_OF_ACTIVE_SESSIONS
<1> DEFINE T == {q \in Newer(sessions', r) : q.expiresAt >= r.expiresAt}
           s == r.storage
<1>b. TypeOK /\ LockProtects /\ RowsArePast /\ InOrder /\ Ranked /\ Base'
  BY BaseStep DEF Base
<1>1. Cardinality(T) >= MAX_NUMBER_OF_ACTIVE_SESSIONS
  BY <1>b, SessionsKept
<1>2. IsFiniteSet(T) /\ \A q, p \in T : q.key = p.key => q = p
  <2>1. IsFiniteSet(sessions') /\ Numbered(sessions')
    BY <1>b DEF Base, RowsArePast, InOrder, RowsNumbered, Numbered
  <2> QED BY <2>1, FS_Subset DEF Newer, Numbered
<1>3. Keys(T) \subseteq NewerStored(s, x)'
  <2> SUFFICES ASSUME NEW q \in T PROVE q.key > x /\ q \in RowsOf(sessions', s)
    BY DEF Keys, NewerStored, Stored, RowsOf
  <2>1. q \in sessions' /\ q.storage = s /\ q # r /\ q.expiresAt >= r.expiresAt
    BY DEF Newer
  <2>2. PICK h \in Handshakes, kept \in SUBSET SessionRow :
          CommitHandshake(h) /\ IssuesSession(h, kept)
    BY <1>b, SessionsChange
  <2>3. pc[h] = "write" /\ NewSession(h).key = lastSession + 1
    BY <1>b, <2>2, NewSessionFields DEF CommitHandshake, InOrder
  <2>4. r.key \in Nat /\ r.key <= lastSession /\ lastSession \in Nat
    BY <1>b, SessionTypes DEF RowsArePast, TypeOK
  <2>5. CASE q = NewSession(h)
    BY <2>1, <2>3, <2>4, <2>5 DEF RowsOf
  <2>6. CASE q # NewSession(h)
    <3>1. q \in sessions
      BY <2>1, <2>2, <2>6 DEF IssuesSession, DeleteOthers
    <3>2. q.key >= r.key /\ q.key # r.key /\ q.key \in Nat
      BY <1>b, <2>1, <3>1, ExpiryRanks, SessionTypes DEF InOrder, RowsNumbered, Numbered
    <3> QED BY <2>1, <2>4, <3>2 DEF RowsOf
  <2> QED BY <2>5, <2>6
<1>4. IsFiniteSet(NewerStored(s, x)')
  <2>1. IsFiniteSet(KeysOf(sessions', s))
    BY <1>b, KeysAreFinite DEF Base, RowsArePast, InOrder, RowsNumbered, Numbered
  <2>2. NewerStored(s, x)' \subseteq KeysOf(sessions', s)
    BY DEF NewerStored, Stored, KeysOf, RowsOf
  <2> QED BY <2>1, <2>2, FS_Subset
<1> HIDE DEF T
<1>5. Cardinality(T) <= Cardinality(NewerStored(s, x)')
  BY <1>2, <1>3, <1>4, CountByKey, FS_Subset
<1>6. Cardinality(T) \in Nat /\ Cardinality(NewerStored(s, x)') \in Nat
  BY <1>2, <1>4, FS_CardinalityType
<1> QED BY <1>1, <1>5, <1>6, LimitsAssumption

LEMMA LastsStep ==
  ASSUME ShortCalls, Base, [Next]_vars,
         NEW s, NEW x \in Nat, NEW until, Lasts(s, x, until)
  PROVE  Lasts(s, x, until)'
<1>b. TypeOK /\ LockProtects /\ RowsArePast /\ InOrder /\ Ranked /\ Base'
  BY BaseStep DEF Base
<1>1. ASSUME NEW r \in sessions, r \notin sessions', r.storage = s, x <= r.key
      PROVE  Lasts(s, x, until)'
  BY <1>1, DroppedLeavesNewer DEF Lasts
<1>2. CASE \E r \in RowsOf(sessions, s) :
             /\ r.key = x
             /\ \/ until = r.expiresAt
                \/ until - r.expiresAt < FRESH_FOR + Skew + MaxLatency
  <2>1. PICK r \in RowsOf(sessions, s) :
             /\ r.key = x
             /\ \/ until = r.expiresAt
                \/ until - r.expiresAt < FRESH_FOR + Skew + MaxLatency
    BY <1>2
  <2>2. CASE r \in sessions'
    BY <2>1, <2>2 DEF Lasts, RowsOf
  <2>3. CASE r \notin sessions'
    BY <1>1, <2>1, <2>3 DEF RowsOf
  <2> QED BY <2>2, <2>3
<1>3. CASE Cardinality(NewerStored(s, x)) >= MAX_NUMBER_OF_ACTIVE_SESSIONS
  <2>1. CASE NewerStored(s, x) \subseteq NewerStored(s, x)'
    <3>1. IsFiniteSet(KeysOf(sessions', s))
      BY <1>b, KeysAreFinite DEF Base, RowsArePast, InOrder, RowsNumbered, Numbered
    <3>2. NewerStored(s, x)' \subseteq KeysOf(sessions', s)
      BY DEF NewerStored, Stored, KeysOf, RowsOf
    <3>3. IsFiniteSet(NewerStored(s, x)')
      BY <3>1, <3>2, FS_Subset
    <3>4. /\ Cardinality(NewerStored(s, x)) <= Cardinality(NewerStored(s, x)')
          /\ Cardinality(NewerStored(s, x)) \in Nat /\ Cardinality(NewerStored(s, x)') \in Nat
      BY <2>1, <3>3, FS_Subset, FS_CardinalityType
    <3> QED BY <1>3, <3>4, LimitsAssumption DEF Lasts
  <2>2. CASE ~(NewerStored(s, x) \subseteq NewerStored(s, x)')
    <3>1. PICK r \in RowsOf(sessions, s) : r.key > x /\ r.key \notin NewerStored(s, x)'
      BY <2>2 DEF NewerStored, Stored
    <3>2. r \in sessions /\ r \notin sessions' /\ r.storage = s /\ r.key \in Nat
      BY <1>b, <3>1, SessionTypes DEF NewerStored, Stored, RowsOf
    <3> QED BY <1>1, <3>1, <3>2
  <2> QED BY <2>1, <2>2
<1> QED BY <1>2, <1>3 DEF Lasts

\* The answer of a commit lasts.
LEMMA CommitLasts ==
  ASSUME ShortCalls, Base, NEW h \in Handshakes, CommitHandshake(h)
  PROVE  Lasts(call[h].storage, call[h].newSessionKey, call[h].expiresAt)'
<1>1. PICK r \in RowsOf(sessions, call[h].storage)' : Stands(call[h], r)'
  BY CommitStands DEF Base
<1> QED BY <1>1 DEF Stands, Lasts

\* An offer is the answer of a call.
LEMMA OfferComes ==
  ASSUME [SessionUseNext]_sessionUseVars, NEW a \in held' \cup answers'
  PROVE  \/ a \in held \cup answers
         \/ \E h \in Handshakes :
              /\ pc[h] = "reply"
              /\ a = [storage |-> call[h].storage, url |-> call[h].url,
                      session |-> call[h].newSessionKey, until |-> call[h].expiresAt]
BY DEF SessionUseNext, sessionUseVars, useVars, Shake, SendAnswer, Answer, ReceiveAnswer,
       LoseAnswer, BeginUse, TrySession, EndUse, ProcessEnds, PassTime

LEMMA OffersTypeStep ==
  TypeOK /\ OffersTyped /\ [SessionUseNext]_sessionUseVars => OffersTyped'
<1> SUFFICES ASSUME TypeOK, OffersTyped, [SessionUseNext]_sessionUseVars,
                    NEW a \in held' \cup answers'
             PROVE  a \in Offer
  BY DEF OffersTyped
<1>1. \A h \in Handshakes : pc[h] = "reply" =>
        /\ call[h].storage \in Storage /\ call[h].url \in Urls
        /\ call[h].newSessionKey \in Nat /\ call[h].expiresAt \in Nat
  BY DEF TypeOK, Call
<1> QED BY <1>1, OfferComes DEF OffersTyped, Offer

LEMMA OffersStep ==
  ASSUME ShortCalls, Base, OffersLast, [SessionUseNext]_sessionUseVars
  PROVE  OffersLast'
<1>b. TypeOK /\ [Next]_vars /\ Base'
  BY UseIsHandshake, BaseStep DEF Base
<1>t. \A h \in Handshakes : pc[h] = "reply" =>
        /\ call[h].storage \in Storage /\ call[h].url \in Urls
        /\ call[h].newSessionKey \in Nat /\ call[h].expiresAt \in Nat
  BY <1>b DEF TypeOK, Call
<1>1. ASSUME NEW h \in Handshakes, pc'[h] = "reply"
      PROVE  Lasts(call[h].storage, call[h].newSessionKey, call[h].expiresAt)'
  <2>1. CASE CommitHandshake(h)
    BY <2>1, CommitLasts
  <2>2. CASE pc[h] = "reply" /\ call'[h] = call[h]
    <3> DEFINE s == call[h].storage
               x == call[h].newSessionKey
               until == call[h].expiresAt
    <3>1. Lasts(s, x, until) /\ x \in Nat
      BY <1>t, <2>2 DEF OffersLast
    <3> SUFFICES ASSUME NEW c, c = call[h] 
                 PROVE  Lasts(c.storage, c.newSessionKey, c.expiresAt)'
      BY <2>2
    <3>2. Lasts(c.storage, c.newSessionKey, c.expiresAt) /\ c.newSessionKey \in Nat
      BY <3>1
    <3> QED BY <1>b, <3>2, LastsStep
  <2> QED BY <1>1, <1>b, <2>1, <2>2, ReplyStep
<1>2. OffersTyped'
  BY <1>b, OffersTypeStep DEF OffersLast
<1>3. ASSUME NEW a \in held' \cup answers'
      PROVE  Lasts(a.storage, a.session, a.until)'
  <2>1. a \in Offer /\ Lasts(a.storage, a.session, a.until)
    BY <1>2, OfferComes DEF OffersLast, OffersTyped
  <2>2. a.session \in Nat
    BY <2>1 DEF Offer
  <2> QED BY <1>b, <2>1, <2>2, LastsStep
<1> QED BY <1>1, <1>2, <1>3 DEF OffersLast

\* A session that a process was given is one the bridge would use, until its
\* announced expiry less what announced and stored expiry may differ by, or
\* until as many newer ones are stored as are kept (HeldSessionIsActive), when
\* calls are short.
THEOREM HeldSessionsLast ==
  ASSUME ShortCalls PROVE SessionUseSpec => []HeldSessionIsActive
<1>1. SessionUseInit => OffersLast
  BY DEF SessionUseInit, Registered, OffersLast, OffersTyped
<1>2. Base /\ OffersLast /\ [SessionUseNext]_sessionUseVars => Base' /\ OffersLast'
  BY UseIsHandshake, BaseStep, OffersStep
<1>3. Base /\ OffersLast => HeldSessionIsActive
  <2> SUFFICES ASSUME Base, OffersLast, NEW a \in held,
                      ~\E r \in ActiveSessions(a.storage) : r.key = a.session,
                      NEW r \in RowsOf(sessions, a.storage), r.key = a.session,
                      \/ a.until = r.expiresAt
                      \/ a.until - r.expiresAt < FRESH_FOR + Skew + MaxLatency
               PROVE  a.until < NOW + FRESH_FOR + Skew + MaxLatency
    BY DEF OffersLast, Lasts, HeldSessionIsActive, NewerStored
  <2>1. ~(r.expiresAt > NOW)
    BY DEF ActiveSessions
  <2>2. a.until \in Nat /\ r.expiresAt \in Nat /\ NOW \in Int
    BY SessionTypes, ClockType DEF OffersLast, OffersTyped, Offer, Base, RowsOf
  <2> QED BY <2>1, <2>2, TimesAssumption, SkewAssumption DEF ShortCalls
<1> QED BY <1>1, <1>2, <1>3, BaseInit, PTL DEF SessionUseSpec

----------------------------------------------------------------------------
(* The requests.                                                            *)

\* A request that the code has begun.
UseRecord ==
  [storage : Storage, url : Urls \cup {NullUrl}, activeSessions : SUBSET SessionRow,
   request : [left : Nat, state : Requests!RequestStates], from : Nat, expected : BOOLEAN]

\* The state a request that is expected to be answered may be in: a session
\* its process holds long enough is still left, or it was answered.
Reaches(u) ==
  \/ u.request.state = "fulfilled"
  \/ /\ u.request.state = "trying"
     /\ \E r \in u.activeSessions : Holds(u.storage, u.url, r.key, u.from + MaxLatency)

UseInOrder(u) ==
  /\ u \in UseRecord
  /\ now <= u.from + MaxLatency
  /\ IsFiniteSet(u.activeSessions)
  /\ u.request.state = "trying" => u.request.left = Cardinality(u.activeSessions)
  /\ u.expected => Reaches(u)

UsesInOrder ==
  /\ use = [i \in Uses |-> use[i]]
  /\ \A i \in Uses : use[i] # NoCall => UseInOrder(use[i])

\* A request that no step of its own touches stays in order: sessions once
\* given are not taken back.
LEMMA UseQuietStep ==
  ASSUME NEW u, UseInOrder(u), held \subseteq held', now' <= u.from + MaxLatency
  PROVE  UseInOrder(u)'
BY DEF UseInOrder, Reaches, Holds

LEMMA UseBegins ==
  ASSUME TypeOK, RowsArePast, NEW i \in Uses, NEW s \in Storage, UsesInOrder,
         BeginUse(i, s)
  PROVE  UseInOrder(use[i])'
<1> DEFINE active == ActiveSessions(s)
<1>1. IsFiniteSet(active) /\ Cardinality(active) \in Nat /\ active \in SUBSET SessionRow
  BY FS_Subset, FS_CardinalityType DEF ActiveSessions, RowsOf, RowsArePast, TypeOK
<1> DEFINE expects == \E r \in RowsOf(sessions, s) :
                        /\ r.expiresAt > NOW
                        /\ Holds(s, backupStorage[s], r.key, now + MaxLatency)
           new == [storage |-> s, url |-> backupStorage[s], activeSessions |-> active,
                   request |-> Requests!StartRequest(Cardinality(active)), from |-> now,
                   expected |-> expects]
<1>2. use'[i] = new
  BY DEF BeginUse, UsesInOrder
<1>3. /\ now \in Nat /\ MaxLatency \in Nat
      /\ backupStorage[s] \in Urls \cup {NullUrl}
  BY TimesAssumption DEF TypeOK, BeginUse
<1>4. Requests!StartRequest(Cardinality(active)) \in [left : Nat, state : Requests!RequestStates]
  BY <1>1 DEF Requests!StartRequest, Requests!RequestStates
<1>5. expects => Reaches(new)
  <2> SUFFICES ASSUME expects PROVE Reaches(new)
    OBVIOUS
  <2>1. \E r \in active : Holds(s, backupStorage[s], r.key, now + MaxLatency)
    BY DEF ActiveSessions
  <2>2. Cardinality(active) # 0
    BY <1>1, <2>1, FS_EmptySet
  <2> QED BY <2>1, <2>2 DEF Reaches, Requests!StartRequest
<1>6. UNCHANGED <<now, held>>
  BY DEF BeginUse, vars
<1>7. UseInOrder(new)
  BY <1>1, <1>3, <1>4, <1>5 DEF UseInOrder, UseRecord, Requests!StartRequest
<1> HIDE DEF new
<1>8. now' <= new.from + MaxLatency
  BY <1>6, <1>7 DEF UseInOrder
<1> QED BY <1>2, <1>6, <1>7, <1>8, UseQuietStep

\* One turn of the loop: a session the process does not hold is used up, and
\* the one it holds is still left.
LEMMA UseTries ==
  ASSUME TypeOK, OffersTyped, NEW i \in Uses, UsesInOrder, TrySession(i)
  PROVE  UseInOrder(use[i])'
<1> DEFINE u == use[i]
<1>1. PICK r \in NextSession(i) : \E reply \in Replies(i, r) :
        use' = [use EXCEPT
          ![i].activeSessions = @ \ {r},
          ![i].request = Requests!AfterReply(@, reply, TRUE),
          ![i].expected = @ /\ reply.status # "none"]
  BY DEF TrySession
<1>2. PICK reply \in Replies(i, r) :
        use' = [use EXCEPT
          ![i].activeSessions = @ \ {r},
          ![i].request = Requests!AfterReply(@, reply, TRUE),
          ![i].expected = @ /\ reply.status # "none"]
  BY <1>1
<1>3. /\ UseInOrder(u) /\ u \in UseRecord /\ r \in u.activeSessions
      /\ u.request.state = "trying"
      /\ UNCHANGED <<now, held>>
  BY <1>1 DEF TrySession, UsesInOrder, UseInOrder, NextSession, Latest, vars
<1> DEFINE left == u.activeSessions \ {r}
           next == Requests!AfterReply(u.request, reply, TRUE)
           expects == u.expected /\ reply.status # "none"
<1>4. use'[i] = [u EXCEPT !.activeSessions = left, !.request = next, !.expected = expects]
  BY <1>2 DEF UsesInOrder
<1> DEFINE new == [storage |-> u.storage, url |-> u.url, activeSessions |-> left,
                   request |-> next, from |-> u.from, expected |-> expects]
<1>5. use'[i] = new
  BY <1>3, <1>4 DEF UseRecord
<1>6. /\ IsFiniteSet(u.activeSessions) /\ IsFiniteSet(left)
      /\ Cardinality(left) \in Nat /\ Cardinality(u.activeSessions) = Cardinality(left) + 1
      /\ u.request.left = Cardinality(left) + 1
  <2>1. IsFiniteSet(u.activeSessions) /\ u.request.left = Cardinality(u.activeSessions)
    BY <1>3 DEF UseInOrder
  <2>2. IsFiniteSet(left) /\ Cardinality(left) = Cardinality(u.activeSessions) - 1
    BY <1>3, <2>1, FS_RemoveElement
  <2> QED BY <2>1, <2>2, FS_CardinalityType
<1>7. /\ \/ reply.status = "none" /\ reply.body = "none"
         \/ reply.status = "ok" /\ reply.body = "value"
         \/ reply.status = "other" /\ reply.body = "some message"
      /\ reply.status = "other" => ~Holds(u.storage, u.url, r.key, now)
  <2>1. \/ reply = [status |-> "none", body |-> "none"]
        \/ reply = [status |-> "ok", body |-> "value"]
        \/ /\ reply = [status |-> "other", body |-> "some message"]
           /\ ~Holds(u.storage, u.url, r.key, now)
    BY DEF Replies
  <2>2. CASE reply = [status |-> "none", body |-> "none"]
    BY <2>2
  <2>3. CASE reply = [status |-> "ok", body |-> "value"]
    BY <2>3
  <2>4. CASE /\ reply = [status |-> "other", body |-> "some message"]
             /\ ~Holds(u.storage, u.url, r.key, now)
    BY <2>4
  <2> QED BY <2>1, <2>2, <2>3, <2>4
<1>8. /\ next.left = Cardinality(left) /\ next \in [left : Nat, state : Requests!RequestStates]
      /\ reply.status = "ok" => next.state = "fulfilled"
      /\ reply.status # "ok" =>
           next.state = IF Cardinality(left) = 0 THEN "SCMNotConnected" ELSE "trying"
  <2>1. Requests!Outcome(reply, TRUE) = IF reply.status = "ok" THEN "fulfilled" ELSE "trying"
    BY <1>7 DEF Requests!Outcome, Requests!Succeeds, Requests!FileNotFound,
                Requests!HandlerThrows
  <2>2. u.request.left = 1 <=> Cardinality(left) = 0
    BY <1>6
  <2>3. next.left = Cardinality(left)
    BY <1>6 DEF Requests!AfterReply
  <2>4. /\ reply.status = "ok" => next.state = "fulfilled"
        /\ reply.status # "ok" =>
             next.state = IF Cardinality(left) = 0 THEN "SCMNotConnected" ELSE "trying"
    BY <2>1, <2>2 DEF Requests!AfterReply, Requests!AfterFailure
  <2>5. next = [left |-> next.left, state |-> next.state]
    BY DEF Requests!AfterReply
  <2> QED BY <1>6, <2>3, <2>4, <2>5 DEF Requests!RequestStates
<1> HIDE DEF next, left
<1>9. expects => Reaches(new)
  <2> SUFFICES ASSUME u.expected, reply.status # "none", reply.status # "ok"
               PROVE  Reaches(new)
    BY <1>8 DEF Reaches
  <2>1. ~Holds(u.storage, u.url, r.key, now)
    BY <1>7
  <2>2. PICK q \in u.activeSessions : Holds(u.storage, u.url, q.key, u.from + MaxLatency)
    BY <1>3 DEF UseInOrder, Reaches
  <2>3. q # r
    <3>1. PICK a \in held : a.storage = u.storage /\ a.url = u.url /\ a.session = q.key
                             /\ a.until > u.from + MaxLatency
      BY <2>2 DEF Holds
    <3>2. a.until > now
      <4>1. a.until \in Nat /\ u.from \in Nat /\ MaxLatency \in Nat /\ now \in Nat
        BY <1>3, TimesAssumption DEF OffersTyped, Offer, UseRecord, TypeOK
      <4> QED BY <4>1, <3>1, <1>3 DEF UseInOrder
    <3> QED BY <2>1, <3>1, <3>2 DEF Holds
  <2>4. q \in left /\ Cardinality(left) # 0
    BY <2>2, <2>3, <1>6, FS_EmptySet DEF left
  <2> QED BY <2>2, <2>4, <1>8 DEF Reaches
<1>10. UseInOrder(new)
  <2>1. new \in UseRecord
    BY <1>3, <1>8 DEF UseRecord, left
  <2>2. now <= new.from + MaxLatency
    BY <1>3 DEF UseInOrder
  <2> QED BY <2>1, <2>2, <1>6, <1>8, <1>9 DEF UseInOrder
<1> HIDE DEF new
<1>11. now' <= new.from + MaxLatency
  BY <1>3, <1>10 DEF UseInOrder
<1> QED BY <1>3, <1>5, <1>10, <1>11, UseQuietStep

LEMMA UsesStep ==
  ASSUME TypeOK, RowsArePast, OffersTyped, UsesInOrder, [SessionUseNext]_sessionUseVars
  PROVE  UsesInOrder'
<1>t. now \in Nat /\ MaxLatency \in Nat
  BY TimesAssumption DEF TypeOK
<1>1. ASSUME use' = use, held \subseteq held',
             \A i \in Uses : use[i] # NoCall => now' <= use[i].from + MaxLatency
      PROVE  UsesInOrder'
  <2> SUFFICES ASSUME NEW i \in Uses, use[i] # NoCall PROVE UseInOrder(use[i])'
    BY <1>1 DEF UsesInOrder
  <2> DEFINE u == use[i]
  <2>1. UseInOrder(u) /\ now' <= u.from + MaxLatency
    BY <1>1 DEF UsesInOrder
  <2>2. use'[i] = u
    BY <1>1
  <2> HIDE DEF u
  <2> QED BY <1>1, <2>1, <2>2, UseQuietStep
<1>2. ASSUME NEW i \in Uses, NEW v, use' = [use EXCEPT ![i] = v],
             v # NoCall => UseInOrder(use[i])', UNCHANGED <<now, held>>
      PROVE  UsesInOrder'
  <2>1. use' = [j \in Uses |-> use'[j]] /\ use'[i] = v
    BY <1>2 DEF UsesInOrder
  <2> SUFFICES ASSUME NEW j \in Uses, use'[j] # NoCall PROVE UseInOrder(use[j])'
    BY <2>1 DEF UsesInOrder
  <2>2. CASE j = i
    BY <1>2, <2>1, <2>2
  <2>3. CASE j # i
    <3> DEFINE u == use[j]
    <3>1. use'[j] = u /\ UseInOrder(u)
      BY <1>2, <2>3 DEF UsesInOrder
    <3>2. now' <= u.from + MaxLatency
      BY <1>2, <3>1 DEF UseInOrder
    <3> HIDE DEF u
    <3> QED BY <1>2, <3>1, <3>2, UseQuietStep
  <2> QED BY <2>2, <2>3
<1>3. ASSUME UNCHANGED <<now, use>>, held \subseteq held' PROVE UsesInOrder'
  BY <1>1, <1>3 DEF UsesInOrder, UseInOrder
<1>4. ASSUME NEW h \in Handshakes, Shake(h) \/ SendAnswer(h) PROVE UsesInOrder'
  <2>1. UNCHANGED <<now, use, held>>
    BY <1>4 DEF Shake, SendAnswer, ServeHandshake, BeginHandshake, FindVerifyKey,
               RefuseHandshake, UpdateUrl, LockVerifyKeys, CommitHandshake, DeadlockVictim,
               FailHandshake, AbortHandshake, Answer
  <2> QED BY <1>3, <2>1
<1>5. ASSUME NEW a \in answers, ReceiveAnswer(a) \/ LoseAnswer(a) PROVE UsesInOrder'
  BY <1>3, <1>5 DEF ReceiveAnswer, LoseAnswer, vars
<1>6. ASSUME NEW i \in Uses, NEW s \in Storage, BeginUse(i, s) PROVE UsesInOrder'
  BY <1>2, <1>6, UseBegins DEF BeginUse, vars
<1>7. ASSUME NEW i \in Uses, TrySession(i) PROVE UsesInOrder'
  <2>1. PICK v : use' = [use EXCEPT ![i] = v]
    BY <1>7 DEF TrySession
  <2> QED BY <1>2, <1>7, <2>1, UseTries DEF TrySession, vars
<1>8. ASSUME NEW i \in Uses, EndUse(i) PROVE UsesInOrder'
  BY <1>2, <1>8 DEF EndUse, vars
<1>9. CASE ProcessEnds
  BY <1>9 DEF ProcessEnds, UsesInOrder
<1>10. CASE PassTime
  <2>1. ASSUME NEW i \in Uses, use[i] # NoCall PROVE now' <= use[i].from + MaxLatency
    BY <1>10, <1>t, <2>1 DEF PassTime, Tick, UsesInOrder, UseInOrder, UseRecord
  <2> QED BY <1>1, <1>10, <2>1 DEF PassTime, useVars
<1>11. CASE UNCHANGED sessionUseVars
  BY <1>3, <1>11 DEF sessionUseVars, useVars, vars
<1> QED
  BY <1>4, <1>5, <1>6, <1>7, <1>8, <1>9, <1>10, <1>11 DEF SessionUseNext

\* A request whose process held one of the active sessions for long enough is
\* answered unless the network fails: the loop comes to that session before it
\* runs out, whatever is rotated meanwhile (HolderIsReached).
THEOREM HoldersAreReached == SessionUseSpec => []HolderIsReached
<1> DEFINE UseInv == TypeOK /\ RowsArePast /\ OffersTyped /\ UsesInOrder
<1>1. SessionUseInit => UseInv
  BY BaseInit DEF Base, SessionUseInit, Registered, OffersTyped, UsesInOrder
<1>2. UseInv /\ [SessionUseNext]_sessionUseVars => UseInv'
  BY UseIsHandshake, TypeStep, PastStep, OffersTypeStep, UsesStep
<1>3. UseInv => HolderIsReached
  BY DEF UsesInOrder, UseInOrder, Reaches, HolderIsReached
<1> QED BY <1>1, <1>2, <1>3, PTL DEF SessionUseSpec

----------------------------------------------------------------------------
(* The url.                                                                 *)

\* The session is stored, and those issued after it were issued since time T.
NewestSince(s, x, T) ==
  \E r \in RowsOf(sessions, s) :
    /\ r.key = x
    /\ \A q \in RowsOf(sessions, s) : q.key > x => q.createdAt >= T + Skew

\* The calls of the storage that may still issue a session came before T.
CameBefore(s, T) ==
  \A g \in Handshakes :
    pc[g] \in {"lock", "write"} /\ call[g].storage = s => call[g].from <= T

\* The process at the url is about to be given a session, holds one that no
\* call that came before T will have dropped, or was cut off.
ServedSince(s, u, T) ==
  \/ \E h \in Handshakes :
       pc[h] \in {"lock", "write"} /\ call[h].storage = s /\ call[h].url = u
  \/ \E h \in Handshakes :
       /\ pc[h] = "reply" /\ call[h].storage = s /\ call[h].url = u
       /\ NewestSince(s, call[h].newSessionKey, T)
  \/ \E a \in held \cup answers :
       a.storage = s /\ a.url = u /\ NewestSince(s, a.session, T)
  \/ <<s, u>> \in cutOff

\* T is the time of the last update of the url.
UrlsServed ==
  \A s \in Storage :
    backupStorage[s] \in Urls =>
      \E T \in Nat : T <= now /\ CameBefore(s, T) /\ ServedSince(s, backupStorage[s], T)

LEMMA NewestSinceStep ==
  ASSUME ShortCalls, TwoSessions, Base, [Next]_vars, NEW s, NEW x, NEW T \in Nat,
         T <= now, CameBefore(s, T), NewestSince(s, x, T)
  PROVE  NewestSince(s, x, T)'
<1>b. TypeOK /\ LockProtects /\ RowsArePast /\ InOrder /\ Ranked
  BY DEF Base
<1>1. PICK r \in RowsOf(sessions, s) :
        /\ r.key = x
        /\ \A q \in RowsOf(sessions, s) : q.key > x => q.createdAt >= T + Skew
  BY DEF NewestSince
<1>2. CASE RowsOf(sessions', s) = RowsOf(sessions, s)
  BY <1>1, <1>2 DEF NewestSince, RowsOf
<1>3. ASSUME NEW g \in Handshakes, NEW kept, CommitHandshake(g), IssuesSession(g, kept),
             call[g].storage = s
      PROVE  NewestSince(s, x, T)'
  <2>1. now <= T + MaxLatency
    <3>1. pc[g] = "write" /\ call[g].from \in Nat /\ now <= call[g].from + MaxLatency
      BY <1>b, <1>3, NewSessionFields DEF CommitHandshake, InOrder
    <3>2. call[g].from <= T
      BY <1>3, <3>1 DEF CameBefore
    <3> QED BY <1>b, <3>1, <3>2, TimesAssumption DEF TypeOK
  <2>2. /\ r \in sessions'
        /\ \A q \in RowsOf(sessions', s) : q.key > r.key => q.createdAt >= T + Skew
    BY <1>b, <1>1, <1>3, <2>1, NewestStays
  <2> QED BY <1>1, <2>2 DEF NewestSince, RowsOf
<1>4. ASSUME NEW g \in Handshakes, CommitHandshake(g), call[g].storage # s
      PROVE  RowsOf(sessions', s) = RowsOf(sessions, s)
  BY <1>b, <1>4, CommitOwnStorage DEF RowsOf
<1>5. CASE UNCHANGED sessions
  BY <1>2, <1>5
<1> QED BY <1>b, <1>2, <1>3, <1>4, <1>5, SessionsChange

\* Where a call past the update of the url goes.
LEMMA PastUpdate ==
  ASSUME TypeOK, [Next]_vars, NEW h \in Handshakes
  PROVE  /\ pc[h] \in {"lock", "write"} =>
              \/ /\ pc'[h] \in {"lock", "write"} /\ call'[h].storage = call[h].storage
                 /\ call'[h].url = call[h].url
              \/ CommitHandshake(h)
              \/ pc'[h] = "idle"
         /\ pc[h] = "reply" => (pc'[h] = "reply" /\ call'[h] = call[h]) \/ pc'[h] = "idle"
         /\ pc'[h] \in {"lock", "write"} =>
              \/ UpdateUrl(h)
              \/ /\ pc[h] \in {"lock", "write"} /\ call'[h].storage = call[h].storage
                 /\ call'[h].from = call[h].from
<1>t. /\ pc \in [Handshakes -> Steps] /\ call \in [Handshakes -> Call \cup {NoCall}]
      /\ \A g \in Handshakes : pc[g] # "idle" => call[g] \in Call
  BY DEF TypeOK
<1>1. CASE pc'[h] = pc[h] /\ call'[h] = call[h]
  BY <1>1
<1>2. ASSUME NEW g \in Handshakes, g # h, ServeHandshake(g) \/ Answer(g)
      PROVE  pc'[h] = pc[h] /\ call'[h] = call[h]
  BY <1>2, <1>t DEF ServeHandshake, BeginHandshake, FindVerifyKey, RefuseHandshake, UpdateUrl,
        LockVerifyKeys, CommitHandshake, DeadlockVictim, FailHandshake, AbortHandshake, Answer
<1>3. CASE \/ \E c \in Corporates, k \in 0..lastKey, u \in Urls : BeginHandshake(h, c, k, u)
           \/ FindVerifyKey(h) \/ RefuseHandshake(h) \/ Answer(h) \/ AbortHandshake(h)
           \/ CommitHandshake(h)
  BY <1>3, <1>t DEF BeginHandshake, FindVerifyKey, RefuseHandshake, Answer, AbortHandshake,
        CommitHandshake
<1>4. CASE UpdateUrl(h)
  BY <1>4, <1>t DEF UpdateUrl
<1>5. CASE LockVerifyKeys(h)
  <2>1. /\ call[h] \in Call
        /\ call'[h] = [call[h] EXCEPT
             !.keysRead = RowsOf(verifyKeys, call[h].storage),
             !.sessionsRead = RowsOf(sessions, call[h].storage)]
    BY <1>5, <1>t DEF LockVerifyKeys
  <2>2. call'[h].storage = call[h].storage BY <2>1 DEF Call
  <2>3. call'[h].url = call[h].url BY <2>1 DEF Call
  <2>4. call'[h].from = call[h].from BY <2>1 DEF Call
  <2>5. pc[h] = "lock" /\ pc'[h] = "write"
    BY <1>5, <1>t DEF LockVerifyKeys
  <2> QED BY <2>2, <2>3, <2>4, <2>5
<1>6. CASE Crash
  BY <1>6 DEF Crash
<1>7. CASE UNCHANGED <<pc, call>>
  BY <1>1, <1>7
<1> QED
  BY <1>1, <1>2, <1>3, <1>4, <1>5, <1>6, <1>7
  DEF Next, ServeHandshake, ServeRegistration, DeadlockVictim, FailHandshake,
      UpsertBackupStorage, ClearVerifyKeys, SaveVerifyKey, EmitEmail, FailRegistration,
      Tick, vars

\* A commit answers with a session that none is newer than.
LEMMA CommitNewest ==
  ASSUME ShortCalls, Base, NEW h \in Handshakes, CommitHandshake(h), NEW T,
         NEW s, s = call[h].storage, NEW x, x = call'[h].newSessionKey
  PROVE  NewestSince(s, x, T)'
<1>1. /\ x \in KeysOf(sessions', s)
      /\ \A y \in KeysOf(sessions', s) : y <= x
  BY NewestAnswered DEF Base
<1>2. KeysOf(sessions', s) \subseteq Nat
  BY CommitTypes DEF KeysOf, RowsOf, SessionRow, Base
<1>3. ASSUME NEW q \in RowsOf(sessions', s) PROVE ~(q.key > x)
  BY <1>1, <1>2 DEF KeysOf
<1> QED BY <1>1, <1>3 DEF NewestSince, KeysOf, RowsOf

\* The calls that break off are in the history when the step ends.
LEMMA BrokenOffAreCut ==
  ASSUME [SessionUseNext]_sessionUseVars, NEW h \in Handshakes,
         pc[h] \in {"lock", "write", "reply"}, pc'[h] = "idle", TypeOK
  PROVE  <<call[h].storage, call[h].url>> \in cutOff' \/ SendAnswer(h)
<1>1. ASSUME NEW g \in Handshakes, SendAnswer(g), g # h PROVE pc'[h] = pc[h]
  BY <1>1 DEF SendAnswer, Answer, TypeOK
<1>2. h \in BrokenOff
  BY DEF BrokenOff
<1> QED
  BY <1>1, <1>2
  DEF SessionUseNext, Shake, ProcessEnds, PassTime, Tick, ReceiveAnswer, LoseAnswer, BeginUse,
      TrySession, EndUse, sessionUseVars, useVars, vars

\* A session that was the newest of its storage still serves.
LEMMA ServedStep ==
  ASSUME ShortCalls, TwoSessions, Base, OffersTyped, [SessionUseNext]_sessionUseVars,
         NEW s \in Storage, NEW u, NEW T \in Nat, T <= now, CameBefore(s, T),
         ServedSince(s, u, T)
  PROVE  ServedSince(s, u, T)'
<1>b. TypeOK /\ [Next]_vars
  BY UseIsHandshake DEF Base
<1>1. ASSUME NEW h \in Handshakes, pc[h] \in {"lock", "write"}, call[h].storage = s,
             call[h].url = u
      PROVE  ServedSince(s, u, T)'
  <2>1. CASE /\ pc'[h] \in {"lock", "write"} /\ call'[h].storage = s /\ call'[h].url = u
    BY <2>1 DEF ServedSince
  <2>2. CASE CommitHandshake(h)
    <3>1. /\ pc'[h] = "reply" /\ call'[h].storage = s
      BY <1>1, <2>2, CommitCases DEF Base
    <3>2. call'[h].url = u
      <4>1. PICK k, x : call' = [call EXCEPT ![h].newVerifyKey = k, ![h].newSessionKey = x]
        BY <2>2 DEF CommitHandshake
      <4>2. call[h] \in Call /\ call'[h] = [call[h] EXCEPT !.newVerifyKey = k, !.newSessionKey = x]
        BY <1>b, <1>1, <4>1 DEF TypeOK
      <4> QED BY <1>1, <4>2 DEF Call
    <3>3. NewestSince(s, call[h].newSessionKey, T)'
      <4> SUFFICES ASSUME NEW x, x = call'[h].newSessionKey PROVE NewestSince(s, x, T)'
        OBVIOUS
      <4> QED BY <1>1, <2>2, CommitNewest
    <3> QED BY <3>1, <3>2, <3>3 DEF ServedSince
  <2>3. CASE pc'[h] = "idle"
    <3>1. ~SendAnswer(h)
      BY <1>1 DEF SendAnswer, Answer
    <3> QED BY <1>b, <1>1, <2>3, <3>1, BrokenOffAreCut DEF ServedSince
  <2> QED BY <1>b, <1>1, <2>1, <2>2, <2>3, PastUpdate
<1>2. ASSUME NEW h \in Handshakes, pc[h] = "reply", call[h].storage = s, call[h].url = u,
             NewestSince(s, call[h].newSessionKey, T)
      PROVE  ServedSince(s, u, T)'
  <2> SUFFICES ASSUME NEW x, x = call[h].newSessionKey PROVE ServedSince(s, u, T)'
    OBVIOUS
  <2>1. NewestSince(s, x, T)'
    BY <1>b, <1>2, NewestSinceStep
  <2>2. CASE pc'[h] = "reply" /\ call'[h] = call[h]
    BY <1>2, <2>1, <2>2 DEF ServedSince
  <2>3. CASE pc'[h] = "idle"
    <3>1. CASE SendAnswer(h)
      <4> DEFINE a == [storage |-> call[h].storage, url |-> call[h].url,
                       session |-> call[h].newSessionKey, until |-> call[h].expiresAt]
      <4>1. a \in answers' /\ a.storage = s /\ a.url = u /\ a.session = x
        BY <1>2, <3>1 DEF SendAnswer
      <4> HIDE DEF a
      <4> SUFFICES ASSUME NEW b \in answers', b.storage = s, b.url = u, b.session = x
                   PROVE  ServedSince(s, u, T)'
        BY <4>1
      <4> QED BY <2>1 DEF ServedSince
    <3>2. CASE ~SendAnswer(h)
      BY <1>b, <1>2, <2>3, <3>2, BrokenOffAreCut DEF ServedSince
    <3> QED BY <3>1, <3>2
  <2> QED BY <1>b, <1>2, <2>2, <2>3, PastUpdate
<1>3. ASSUME NEW a \in held \cup answers, a.storage = s, a.url = u,
             NewestSince(s, a.session, T)
      PROVE  ServedSince(s, u, T)'
  <2>1. NewestSince(s, a.session, T)'
    BY <1>b, <1>3, NewestSinceStep
  <2>2. CASE a \in held' \cup answers'
    BY <1>3, <2>1, <2>2 DEF ServedSince
  <2>3. CASE a \notin held' \cup answers'
    <3>1. LoseAnswer(a)
      BY <1>3, <2>3
      DEF SessionUseNext, Shake, SendAnswer, ReceiveAnswer, LoseAnswer, ProcessEnds, PassTime,
          BeginUse, TrySession, EndUse, sessionUseVars, useVars
    <3> QED BY <1>3, <3>1 DEF LoseAnswer, ServedSince
  <2> QED BY <2>2, <2>3
<1>4. ASSUME <<s, u>> \in cutOff PROVE ServedSince(s, u, T)'
  <2>1. CASE <<s, u>> \in cutOff'
    BY <2>1 DEF ServedSince
  <2>2. CASE <<s, u>> \notin cutOff'
    <3>1. PICK a \in answers : ReceiveAnswer(a) /\ IsNewest(a) /\ <<a.storage, a.url>> = <<s, u>>
      BY <1>4, <2>2
      DEF SessionUseNext, Shake, SendAnswer, ReceiveAnswer, LoseAnswer, ProcessEnds, PassTime,
          BeginUse, TrySession, EndUse, sessionUseVars, useVars
    <3>2. a.storage = s /\ a.url = u /\ a \in held' /\ sessions' = sessions
          /\ a.session \in Nat
      BY <3>1 DEF ReceiveAnswer, vars, OffersTyped, Offer
    <3>3. NewestSince(s, a.session, T)'
      <4>1. ASSUME NEW q \in RowsOf(sessions, s) PROVE ~(q.key > a.session)
        <5>1. q.key <= a.session /\ q.key \in Nat
          BY <1>b, <3>1, <3>2, SessionTypes DEF IsNewest, Stored, RowsOf
        <5> QED BY <3>2, <5>1
      <4> QED BY <3>1, <3>2, <4>1 DEF NewestSince, IsNewest, Stored, RowsOf
    <3> QED BY <3>2, <3>3 DEF ServedSince
  <2> QED BY <2>1, <2>2
<1> QED BY <1>1, <1>2, <1>3, <1>4 DEF ServedSince

LEMMA UrlsServedStep ==
  ASSUME ShortCalls, TwoSessions, Base, OffersTyped, UrlsServed,
         [SessionUseNext]_sessionUseVars
  PROVE  UrlsServed'
<1>b. TypeOK /\ [Next]_vars /\ Base' /\ now \in Nat
  BY UseIsHandshake, BaseStep DEF Base, TypeOK
<1> SUFFICES ASSUME NEW s \in Storage, NEW u \in Urls, backupStorage'[s] = u
             PROVE  \E T \in Nat : T <= now' /\ CameBefore(s, T)' /\ ServedSince(s, u, T)'
  BY DEF UrlsServed
<1>1. ASSUME NEW h \in Handshakes, UpdateUrl(h), call[h].storage = s
      PROVE  \E T \in Nat : T <= now' /\ CameBefore(s, T)' /\ ServedSince(s, u, T)'
  <2>1. /\ pc'[h] = "lock" /\ call' = call /\ now' = now
        /\ backupStorage'[s] = IF backupStorage[s] = NoRow THEN NoRow ELSE call[h].url
    BY <1>b, <1>1 DEF UpdateUrl, TypeOK
  <2>2. call[h].url = u
    BY <2>1, MarkersAssumption
  <2>3. ServedSince(s, u, now)'
    BY <1>1, <2>1, <2>2 DEF ServedSince
  <2>4. \A g \in Handshakes : pc'[g] # "idle" => call'[g].from <= now'
    BY <1>b DEF Base, InOrder, CallsInTime
  <2>5. CameBefore(s, now)'
    BY <2>4 DEF CameBefore
  <2> SUFFICES ASSUME NEW T, T = now, T = now'
               PROVE  T \in Nat /\ T <= now' /\ CameBefore(s, T)' /\ ServedSince(s, u, T)'
    BY <2>1
  <2> QED BY <1>b, <2>3, <2>5
<1>2. CASE ~\E h \in Handshakes : UpdateUrl(h) /\ call[h].storage = s
  <2>1. backupStorage[s] = u
    <3>1. ASSUME NEW h \in Handshakes, UpdateUrl(h), call[h].storage # s
          PROVE  backupStorage'[s] = backupStorage[s]
      BY <1>b, <3>1 DEF UpdateUrl, TypeOK
    <3>2. ASSUME NEW p \in Registrations, NEW r \in Storage, UpsertBackupStorage(p, r)
          PROVE  backupStorage[s] = u
      <4>1. backupStorage'[s] = IF s = r /\ backupStorage[s] = NoRow
                                THEN NullUrl ELSE backupStorage[s]
        BY <1>b, <3>2 DEF UpsertBackupStorage, TypeOK
      <4> QED BY <4>1, MarkersAssumption
    <3>3. CASE UNCHANGED backupStorage
      BY <3>3
    <3> QED
      BY <1>b, <1>2, <3>1, <3>2, <3>3
      DEF Next, ServeHandshake, ServeRegistration, BeginHandshake, FindVerifyKey,
          RefuseHandshake, LockVerifyKeys, CommitHandshake, Answer, DeadlockVictim,
          FailHandshake, AbortHandshake, ClearVerifyKeys, SaveVerifyKey, EmitEmail,
          FailRegistration, Crash, Tick, vars
  <2>2. PICK T \in Nat : T <= now /\ CameBefore(s, T) /\ ServedSince(s, u, T)
    BY <2>1 DEF UrlsServed
  <2>3. CameBefore(s, T)'
    <3> SUFFICES ASSUME NEW g \in Handshakes, pc'[g] \in {"lock", "write"},
                        call'[g].storage = s
                 PROVE  call'[g].from <= T
      BY DEF CameBefore
    <3>1. UpdateUrl(g) \/ /\ pc[g] \in {"lock", "write"} /\ call[g].storage = s
                          /\ call'[g].from = call[g].from
      BY <1>b, PastUpdate
    <3>2. ~UpdateUrl(g)
      BY <1>2 DEF UpdateUrl
    <3> QED BY <2>2, <3>1, <3>2 DEF CameBefore
  <2>4. ServedSince(s, u, T)'
    BY <2>2, ServedStep
  <2>5. T <= now'
    <3>1. now' = now \/ now' = now + 1
      BY <1>b DEF Next, ServeHandshake, ServeRegistration, BeginHandshake, FindVerifyKey,
          RefuseHandshake, UpdateUrl, LockVerifyKeys, CommitHandshake, Answer, DeadlockVictim,
          FailHandshake, AbortHandshake, UpsertBackupStorage, ClearVerifyKeys, SaveVerifyKey,
          EmitEmail, FailRegistration, Crash, Tick, vars
    <3> QED BY <1>b, <2>2, <3>1
  <2> QED BY <2>3, <2>4, <2>5
<1> QED BY <1>1, <1>2

\* The url of a storage is that of a process that has a session still stored,
\* is about to be given one, or was cut off (UrlIsServed), when calls are short
\* and a storage may have two sessions: the url is written without the lock,
\* and still no handshake that wrote it earlier drops the session of the one
\* that wrote it last.
THEOREM UrlsAreServed ==
  ASSUME ShortCalls, TwoSessions PROVE SessionUseSpec => []UrlIsServed
<1> DEFINE UrlInv == Base /\ OffersTyped /\ UrlsServed
<1>1. SessionUseInit => UrlInv
  <2>1. SessionUseInit => \A s \in Storage : backupStorage[s] \notin Urls
    BY MarkersAssumption DEF SessionUseInit, Registered
  <2> QED BY <2>1, BaseInit DEF SessionUseInit, OffersTyped, UrlsServed
<1>2. UrlInv /\ [SessionUseNext]_sessionUseVars => UrlInv'
  <2> SUFFICES ASSUME UrlInv, [SessionUseNext]_sessionUseVars PROVE UrlInv'
    OBVIOUS
  <2>1. TypeOK /\ [Next]_vars
    BY UseIsHandshake DEF Base
  <2> QED BY <2>1, BaseStep, OffersTypeStep, UrlsServedStep
<1>3. UrlInv => UrlIsServed
  BY DEF UrlsServed, ServedSince, NewestSince, UrlIsServed, Stored
<1> QED BY <1>1, <1>2, <1>3, PTL DEF SessionUseSpec

============================================================================
