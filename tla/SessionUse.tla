----------------------------- MODULE SessionUse -----------------------------
(* The sessions of Handshake in use.  The processes of a backup storage,    *)
(* one at each url, get sessions in the answers to their handshakes; the    *)
(* bridge reads the url of the storage and its active sessions and tries    *)
(* one session after the other (ScmRequests) with the process at that url,  *)
(* which can only answer with a session it holds.  Answers may be late or   *)
(* lost, and handshakes go on while a request is tried.                     *)
(*                                                                          *)
(* Of the processes outside the repository it is assumed that they keep a   *)
(* session until the expiry announced with it, and that they answer a       *)
(* request they cannot decrypt with a message.                              *)
EXTENDS Handshake

Requests == INSTANCE ScmRequests

CONSTANTS
  Uses,       \* requests to backup storages that may be in progress at once
  MaxAnswers  \* bound: answers on their way at once

VARIABLES
  answers,  \* answers of handshakes on their way
  held,     \* the sessions the process at each url was given
  use,      \* the requests: the url and the sessions left of those read, the
            \*   state of the loop, and whether an answer is to be expected: the
            \*   process held one of the sessions for all the time a call may
            \*   take, and was always reached
  cutOff    \* history: urls written by a handshake whose answer its process
            \*   never got, and that was not given the newest session since

useVars == <<answers, held, use, cutOff>>

sessionUseVars == <<vars, useVars>>

----------------------------------------------------------------------------

\* A storage that is registered and has its first verify key.
Registered(s) ==
  /\ now = 0
  /\ backupStorage = [t \in Storage |-> IF t = s THEN NullUrl ELSE NoRow]
  /\ verifyKeys = {[storage |-> s, key |-> 1, createdAt |-> NOW]}
  /\ sessions = {}
  /\ lastKey = 1
  /\ lastSession = 0
  /\ pc = [h \in Handshakes |-> "idle"]
  /\ call = [h \in Handshakes |-> NoCall]
  /\ regPc = [p \in Registrations |-> "idle"]
  /\ reg = [p \in Registrations |-> NoCall]

SessionUseInit ==
  /\ \E s \in Storage : Registered(s)
  /\ answers = {}
  /\ held = {}
  /\ use = [i \in Uses |-> NoCall]
  /\ cutOff = {}

\* The calls that end in this step after they have written the url.
BrokenOff ==
  {h \in Handshakes : pc[h] \in {"lock", "write", "reply"} /\ pc'[h] = "idle"}

Shake(h) ==
  /\ ServeHandshake(h)
  /\ cutOff' = cutOff \cup {<<call[g].storage, call[g].url>> : g \in BrokenOff}
  /\ UNCHANGED <<answers, held, use>>

\* The answer announces the expiry the call has computed.
SendAnswer(h) ==
  /\ Answer(h)
  /\ Cardinality(answers) < MaxAnswers
  /\ answers' = answers \cup
       {[storage |-> call[h].storage, url |-> call[h].url,
         session |-> call[h].newSessionKey, until |-> call[h].expiresAt]}
  /\ UNCHANGED <<held, use, cutOff>>

Stored(s) == {r.key : r \in RowsOf(sessions, s)}

IsNewest(a) == a.session \in Stored(a.storage) /\ \A x \in Stored(a.storage) : x <= a.session

ReceiveAnswer(a) ==
  /\ a \in answers
  /\ answers' = answers \ {a}
  /\ held' = held \cup {a}
  /\ cutOff' = IF IsNewest(a) THEN cutOff \ {<<a.storage, a.url>>} ELSE cutOff
  /\ UNCHANGED <<vars, use>>

LoseAnswer(a) ==
  /\ a \in answers
  /\ answers' = answers \ {a}
  /\ cutOff' = cutOff \cup {<<a.storage, a.url>>}
  /\ UNCHANGED <<vars, held, use>>

----------------------------------------------------------------------------
(* Requests.                                                                *)

\* getBackupStoragesInfo: expiresAt > NOW().
ActiveSessions(s) == {r \in RowsOf(sessions, s) : r.expiresAt > NOW}

\* The process at a url can decrypt with a session until time t.
Holds(s, u, session, t) ==
  \E a \in held : a.storage = s /\ a.url = u /\ a.session = session /\ a.until > t

\* The url and the sessions are read together, once.
BeginUse(i, s) ==
  /\ use[i] = NoCall
  /\ backupStorage[s] # NoRow
  /\ LET active == ActiveSessions(s)
     IN use' = [use EXCEPT ![i] =
          [storage |-> s, url |-> backupStorage[s], activeSessions |-> active,
           request |-> Requests!StartRequest(Cardinality(active)), from |-> now,
           expected |-> \E r \in RowsOf(sessions, s) :
              /\ r.expiresAt > NOW
              /\ Holds(s, backupStorage[s], r.key, now + MaxLatency)]]
  /\ UNCHANGED <<vars, answers, held, cutOff>>

\* What comes back from the process at the url of the request: what it asks
\* for, when the process holds the session; nothing, when it is not reached.
Replies(i, r) ==
  {[status |-> "none", body |-> "none"]} \cup
  IF Holds(use[i].storage, use[i].url, r.key, now)
  THEN {[status |-> "ok", body |-> "value"]}
  ELSE {[status |-> "other", body |-> "some message"]}

\* One turn of the loop, with the session that expires last of those left.
NextSession(i) == Latest(use[i].activeSessions, "expiresAt")

TrySession(i) ==
  /\ use[i] # NoCall
  /\ use[i].request.state = "trying"
  /\ \E r \in NextSession(i) : \E reply \in Replies(i, r) :
       use' = [use EXCEPT
         ![i].activeSessions = @ \ {r},
         ![i].request = Requests!AfterReply(@, reply, TRUE),
         ![i].expected = @ /\ reply.status # "none"]
  /\ UNCHANGED <<vars, answers, held, cutOff>>

EndUse(i) ==
  /\ use[i] # NoCall
  /\ use[i].request.state # "trying"
  /\ use' = [use EXCEPT ![i] = NoCall]
  /\ UNCHANGED <<vars, answers, held, cutOff>>

----------------------------------------------------------------------------

ProcessEnds ==
  /\ Crash
  /\ cutOff' = cutOff \cup {<<call[g].storage, call[g].url>> : g \in BrokenOff}
  /\ use' = [i \in Uses |-> NoCall]
  /\ UNCHANGED <<answers, held>>

\* Bound: a request takes no longer than a handshake may.
PassTime ==
  /\ Tick
  /\ \A i \in Uses : use[i] # NoCall => now < use[i].from + MaxLatency
  /\ UNCHANGED useVars

SessionUseNext ==
  \/ \E h \in Handshakes : Shake(h) \/ SendAnswer(h)
  \/ \E a \in answers : ReceiveAnswer(a) \/ LoseAnswer(a)
  \/ \E i \in Uses : (\E s \in Storage : BeginUse(i, s)) \/ TrySession(i) \/ EndUse(i)
  \/ ProcessEnds
  \/ PassTime

SessionUseSpec == SessionUseInit /\ [][SessionUseNext]_sessionUseVars

----------------------------------------------------------------------------
(* Properties.                                                              *)

\* The url the bridge sends requests to is the url of a process that holds a
\* session still stored (it may have expired), or is about to: it has a
\* handshake past the update of the url, or an answer on its way.  Only a
\* handshake that was broken off, or whose answer was lost, leaves the bridge
\* with the url of a process it cannot talk to, while another one is up.
UrlIsServed ==
  \A s \in Storage :
    backupStorage[s] \in Urls =>
      \/ \E a \in held :
           a.storage = s /\ a.url = backupStorage[s] /\ a.session \in Stored(s)
      \/ \E h \in Handshakes :
           pc[h] \in {"lock", "write", "reply"} /\ call[h].storage = s
             /\ call[h].url = backupStorage[s]
      \/ \E a \in answers : a.storage = s /\ a.url = backupStorage[s]
      \/ <<s, backupStorage[s]>> \in cutOff

\* A session that a process was given is one the bridge would use, until its
\* announced expiry less what announced and stored expiry may differ by, or
\* until as many newer ones are stored as are kept; late and lost answers and
\* what other processes of the storage did since do not matter.
HeldSessionIsActive ==
  \A a \in held :
    \/ \E r \in ActiveSessions(a.storage) : r.key = a.session
    \/ a.until < NOW + FRESH_FOR + Skew + MaxLatency
    \/ Cardinality({x \in Stored(a.storage) : x > a.session}) >= MAX_NUMBER_OF_ACTIVE_SESSIONS

\* A request whose storage held one of the active sessions when they were read
\* is answered, if the network does not fail: whichever session the storage
\* has kept and whatever handshakes change meanwhile, it is not reported as
\* not connected.
HolderIsReached ==
  \A i \in Uses :
    use[i] # NoCall /\ use[i].expected =>
      use[i].request.state \in {"trying", "fulfilled"}

\* What the answer says of a session (sessionExpirationDate): the bridge uses
\* it until the announced expiry, or until newer ones have replaced it.
ActiveUntilAnnounced ==
  \A a \in held :
    \/ \E r \in ActiveSessions(a.storage) : r.key = a.session
    \/ a.until <= NOW
    \/ Cardinality({x \in Stored(a.storage) : x > a.session}) >= MAX_NUMBER_OF_ACTIVE_SESSIONS

============================================================================
