------------------------------ MODULE KeyRing ------------------------------
(* What the bridge promises a backup storage about its verify keys and      *)
(* sessions, with no clock, no lock and no call in progress.  Each storage  *)
(* has a ring of verify keys and a ring of sessions.  A handshake, in one   *)
(* step, hands out the newest of a ring again or adds a new one and keeps   *)
(* the newest ones up to a limit; a registration empties the ring of verify *)
(* keys and later adds one.  Keys are numbered in the order of their issue. *)
EXTENDS Naturals, FiniteSets

CONSTANTS Storage,
          KeyLimit,     \* REVOKE_VERIFY_KEY_AFTER
          SessionLimit  \* MAX_NUMBER_OF_ACTIVE_SESSIONS

VARIABLES keyRing, sessionRing, keysIssued, sessionsIssued

ringVars == <<keyRing, sessionRing, keysIssued, sessionsIssued>>

RingInit ==
  /\ keyRing = [s \in Storage |-> {}]
  /\ sessionRing = [s \in Storage |-> {}]
  /\ keysIssued = 0
  /\ sessionsIssued = 0

\* The n newest keys of a ring.
Newest(ring, n) == {k \in ring : Cardinality({j \in ring : j > k}) < n}

RotateKeys(s) ==
  /\ keysIssued' = keysIssued + 1
  /\ keyRing' = [keyRing EXCEPT ![s] = Newest(@ \cup {keysIssued'}, KeyLimit)]

RotateSessions(s) ==
  /\ sessionsIssued' = sessionsIssued + 1
  /\ sessionRing' = [sessionRing EXCEPT ![s] = Newest(@ \cup {sessionsIssued'}, SessionLimit)]

\* The key or session handed out is the newest one of the ring afterwards.
Handshake(s) ==
  /\ \/ keyRing[s] # {} /\ UNCHANGED <<keyRing, keysIssued>>
     \/ RotateKeys(s)
  /\ \/ sessionRing[s] # {} /\ UNCHANGED <<sessionRing, sessionsIssued>>
     \/ RotateSessions(s)

Revoke(s) ==
  /\ keyRing' = [keyRing EXCEPT ![s] = {}]
  /\ UNCHANGED <<sessionRing, keysIssued, sessionsIssued>>

Admit(s) ==
  /\ keysIssued' = keysIssued + 1
  /\ keyRing' = [keyRing EXCEPT ![s] = @ \cup {keysIssued'}]
  /\ UNCHANGED <<sessionRing, sessionsIssued>>

RingNext == \E s \in Storage : Handshake(s) \/ Revoke(s) \/ Admit(s)

RingSpec == RingInit /\ [][RingNext]_ringVars

============================================================================
