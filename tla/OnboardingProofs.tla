--------------------------- MODULE OnboardingProofs ---------------------------
(* What TLAPS proves of Onboarding, for any storages, calls and mails.      *)
EXTENDS Onboarding, HandshakeProofs

\* Every step of the composition is a step of Handshake or leaves it alone.
LEMMA OnboardingIsHandshake == [OnboardingNext]_onboardingVars => [Next]_vars
<1> SUFFICES ASSUME [OnboardingNext]_onboardingVars PROVE [Next]_vars
  OBVIOUS
<1>1. ASSUME NEW h \in Handshakes, Enter(h) PROVE Next
  BY <1>1 DEF Enter, Next
<1>2. ASSUME NEW p \in Registrations, Register(p) \/ SaveKey(p) \/ BreakOff(p) \/ MailKey(p)
      PROVE  Next
  BY <1>2 DEF Register, SaveKey, BreakOff, MailKey, Next, ServeRegistration
<1>3. ASSUME NEW k \in Mails, Dispatch(k) PROVE UNCHANGED vars
  BY <1>3 DEF Dispatch
<1>4. CASE PassTime
  BY <1>4 DEF PassTime, Next
<1>5. CASE ProcessEnds
  BY <1>5 DEF ProcessEnds, Next
<1>6. CASE UNCHANGED onboardingVars
  BY <1>6 DEF onboardingVars
<1> QED BY <1>1, <1>2, <1>3, <1>4, <1>5, <1>6 DEF OnboardingNext

LEMMA OnboardingTypeStep == TypeOK /\ [OnboardingNext]_onboardingVars => TypeOK'
BY OnboardingIsHandshake, TypeStep

----------------------------------------------------------------------------
(* A registered storage has a key to get in with.                           *)

\* A commit never leaves a storage without a key that had one.
LEMMA CommitLeavesKey ==
  ASSUME TypeOK, NEW h \in Handshakes, CommitHandshake(h), NEW s \in Storage,
         RowsOf(verifyKeys, s) # {}
  PROVE  RowsOf(verifyKeys, s)' # {}
<1>1. CASE s # call[h].storage
  BY <1>1, CommitOwnStorage
<1>2. CASE s = call[h].storage
  <2> PICK k \in 1..(lastKey + 1) : ReuseVerifyKey(h, k) \/ IssueVerifyKey(h, k)
    BY DEF CommitHandshake
  <2>1. CASE ReuseVerifyKey(h, k)
    BY <2>1 DEF ReuseVerifyKey, RowsOf
  <2>2. CASE IssueVerifyKey(h, k)
    <3> DEFINE new == [storage |-> call[h].storage, key |-> k, createdAt |-> NOW]
    <3>1. new.storage = s /\ new \in verifyKeys'
      BY <2>2, <1>2 DEF IssueVerifyKey
    <3> HIDE DEF new
    <3> QED BY <3>1 DEF RowsOf
  <2> QED BY <2>1, <2>2
<1> QED BY <1>1, <1>2

\* A step that opens no storage, takes no key and ends no registration before
\* its save but an interrupted one.
LEMMA KeylessQuietStep ==
  ASSUME KeylessOnlyIfInterrupted,
         \A s \in Storage :
           /\ backupStorage'[s] # NoRow => backupStorage[s] # NoRow
           /\ RowsOf(verifyKeys, s) # {} => RowsOf(verifyKeys', s) # {}
           /\ s \in interrupted => s \in interrupted',
         \A p \in Registrations :
           regPc[p] \in {"clear", "save"} =>
             \/ regPc'[p] = regPc[p] /\ reg'[p] = reg[p]
             \/ reg[p].storage \in interrupted'
  PROVE  KeylessOnlyIfInterrupted'
BY DEF KeylessOnlyIfInterrupted, Registering, RowsOf

LEMMA KeylessStep ==
  TypeOK /\ KeylessOnlyIfInterrupted /\ [OnboardingNext]_onboardingVars
    => KeylessOnlyIfInterrupted'
<1> SUFFICES ASSUME TypeOK, KeylessOnlyIfInterrupted, [OnboardingNext]_onboardingVars
             PROVE  KeylessOnlyIfInterrupted'
  OBVIOUS
<1>t. /\ backupStorage \in [Storage -> Urls \cup {NullUrl, NoRow}]
      /\ regPc \in [Registrations -> RegSteps]
      /\ reg \in [Registrations -> [storage : Storage, key : Nat] \cup {NoCall}]
      /\ \A p \in Registrations : regPc[p] # "idle" => reg[p].storage \in Storage
  BY DEF TypeOK
<1>1. ASSUME NEW h \in Handshakes, Enter(h) PROVE KeylessOnlyIfInterrupted'
  <2>1. UNCHANGED <<regPc, reg, interrupted>>
    BY <1>1 DEF Enter, ServeHandshake, BeginHandshake, FindVerifyKey, RefuseHandshake,
               UpdateUrl, LockVerifyKeys, CommitHandshake, DeadlockVictim, FailHandshake,
               AbortHandshake, Answer
  <2>2. ASSUME NEW s \in Storage, backupStorage'[s] # NoRow PROVE backupStorage[s] # NoRow
    BY <1>1, <1>t, <2>2 DEF Enter, ServeHandshake, BeginHandshake, FindVerifyKey,
               RefuseHandshake, UpdateUrl, LockVerifyKeys, CommitHandshake, DeadlockVictim,
               FailHandshake, AbortHandshake, Answer
  <2>3. ASSUME NEW s \in Storage, RowsOf(verifyKeys, s) # {} PROVE RowsOf(verifyKeys', s) # {}
    <3>1. CASE CommitHandshake(h)
      BY <3>1, <2>3, CommitLeavesKey DEF RowsOf
    <3>2. CASE ~CommitHandshake(h)
      <4>1. verifyKeys' = verifyKeys
        BY <1>1, <3>2 DEF Enter, ServeHandshake, BeginHandshake, FindVerifyKey,
               RefuseHandshake, UpdateUrl, LockVerifyKeys, DeadlockVictim,
               FailHandshake, AbortHandshake, Answer
      <4> QED BY <4>1, <2>3
    <3> QED BY <3>1, <3>2
  <2> QED BY <2>1, <2>2, <2>3, KeylessQuietStep
<1>2. ASSUME NEW p \in Registrations, NEW s \in Storage, UpsertBackupStorage(p, s),
             UNCHANGED interrupted
      PROVE  KeylessOnlyIfInterrupted'
  <2>1. /\ verifyKeys' = verifyKeys
        /\ regPc[p] = "idle" /\ regPc'[p] = "clear" /\ reg'[p].storage = s
        /\ \A q \in Registrations : q # p => regPc'[q] = regPc[q] /\ reg'[q] = reg[q]
        /\ \A r \in Storage : r # s => backupStorage'[r] = backupStorage[r]
    BY <1>2, <1>t DEF UpsertBackupStorage
  <2> QED BY <2>1, <1>2 DEF KeylessOnlyIfInterrupted, Registering, RowsOf
<1>3. ASSUME NEW p \in Registrations, ClearVerifyKeys(p), UNCHANGED interrupted
      PROVE  KeylessOnlyIfInterrupted'
  <2>1. /\ backupStorage' = backupStorage /\ reg' = reg
        /\ verifyKeys' = verifyKeys \ RowsOf(verifyKeys, reg[p].storage)
        /\ regPc'[p] = "save"
        /\ \A q \in Registrations : q # p => regPc'[q] = regPc[q]
    BY <1>3, <1>t DEF ClearVerifyKeys
  <2> QED BY <2>1, <1>3 DEF KeylessOnlyIfInterrupted, Registering, RowsOf
<1>4. ASSUME NEW p \in Registrations, SaveKey(p) PROVE KeylessOnlyIfInterrupted'
  <2> DEFINE s == reg[p].storage
             row == [storage |-> s, key |-> lastKey + 1, createdAt |-> NOW]
  <2>1. /\ backupStorage' = backupStorage
        /\ verifyKeys' = verifyKeys \cup {row} /\ row.storage = s
        /\ interrupted' = interrupted \ {s}
        /\ \A q \in Registrations : q # p => regPc'[q] = regPc[q] /\ reg'[q] = reg[q]
    BY <1>4, <1>t DEF SaveKey, SaveVerifyKey
  <2> HIDE DEF row
  <2> QED BY <2>1 DEF KeylessOnlyIfInterrupted, Registering, RowsOf
<1>5. ASSUME NEW p \in Registrations, BreakOff(p) PROVE KeylessOnlyIfInterrupted'
  <2>1. /\ UNCHANGED <<backupStorage, verifyKeys>>
        /\ interrupted' = interrupted \cup {reg[p].storage}
        /\ \A q \in Registrations : q # p => regPc'[q] = regPc[q] /\ reg'[q] = reg[q]
    BY <1>5, <1>t DEF BreakOff, FailRegistration
  <2> QED BY <2>1, KeylessQuietStep
<1>6. ASSUME NEW p \in Registrations, MailKey(p) PROVE KeylessOnlyIfInterrupted'
  <2>1. /\ UNCHANGED <<backupStorage, verifyKeys, interrupted>>
        /\ regPc[p] = "email"
        /\ \A q \in Registrations : q # p => regPc'[q] = regPc[q] /\ reg'[q] = reg[q]
    BY <1>6, <1>t DEF MailKey, EmitEmail
  <2> QED BY <2>1, KeylessQuietStep
<1>7. ASSUME UNCHANGED <<vars, interrupted>> PROVE KeylessOnlyIfInterrupted'
  BY <1>7, KeylessQuietStep DEF vars
<1>8. CASE PassTime
  BY <1>8, KeylessQuietStep DEF PassTime, Tick
<1>9. CASE ProcessEnds
  <2>1. /\ UNCHANGED <<backupStorage, verifyKeys>>
        /\ interrupted' = interrupted \cup
             {reg[p].storage : p \in {p \in Registrations : regPc[p] \in {"clear", "save"}}}
    BY <1>9 DEF ProcessEnds, Crash, vars
  <2> QED BY <2>1, KeylessQuietStep
<1> QED
  BY <1>1, <1>2, <1>3, <1>4, <1>5, <1>6, <1>7, <1>8, <1>9
  DEF OnboardingNext, Register, Dispatch, onboardingVars

\* However registrations of a storage, handshakes and failures interleave, a
\* registered storage has a verify key unless a registration was interrupted
\* between its clear and its save (KeylessOnlyIfInterrupted).
THEOREM AlwaysAKey == OnboardingSpec => []KeylessOnlyIfInterrupted
<1>1. OnboardingInit => TypeOK /\ KeylessOnlyIfInterrupted
  <2>1. OnboardingInit => TypeOK
    BY TypeInit DEF OnboardingInit
  <2>2. OnboardingInit => KeylessOnlyIfInterrupted
    BY DEF OnboardingInit, Init, KeylessOnlyIfInterrupted
  <2> QED BY <2>1, <2>2
<1>2. TypeOK /\ KeylessOnlyIfInterrupted /\ [OnboardingNext]_onboardingVars
        => (TypeOK /\ KeylessOnlyIfInterrupted)'
  BY OnboardingTypeStep, KeylessStep
<1> QED BY <1>1, <1>2, PTL DEF OnboardingSpec

----------------------------------------------------------------------------
(* Keys are numbered up to MaxKeys, so each has its place among the mails.  *)

\* The calls that may still store a key, and the registrations that may.
MayIssue ==
  {h \in Handshakes :
     \/ pc[h] \in {"update", "lock", "write"}
     \/ pc[h] = "lookup" /\ \E r \in verifyKeys : r.key = call[h].verifyKey}

MaySave == {p \in Registrations : regPc[p] \in {"clear", "save"}}

RoomKept ==
  /\ IsFiniteSet(Busy) /\ IsFiniteSet(BusyRegs)
  /\ \A h \in Handshakes : pc[h] = "lookup" => call[h].verifyKey <= lastKey
  /\ lastKey + Cardinality(MayIssue) + Cardinality(MaySave) <= MaxKeys

LEMMA Fewer ==
  ASSUME NEW S, IsFiniteSet(S), NEW T, T \subseteq S
  PROVE  /\ IsFiniteSet(T) /\ Cardinality(T) \in Nat /\ Cardinality(S) \in Nat
         /\ Cardinality(T) <= Cardinality(S)
         /\ T # S => Cardinality(T) <= Cardinality(S) - 1
<1>1. /\ IsFiniteSet(T) /\ Cardinality(T) <= Cardinality(S)
      /\ Cardinality(S) = Cardinality(T) => S = T
  BY FS_Subset
<1>2. Cardinality(T) \in Nat /\ Cardinality(S) \in Nat
  BY <1>1, FS_CardinalityType
<1> QED BY <1>1, <1>2

\* What may issue or save a key is in progress.
LEMMA RoomTypes ==
  ASSUME TypeOK, RoomKept
  PROVE  /\ IsFiniteSet(MayIssue) /\ Cardinality(MayIssue) \in Nat
         /\ Cardinality(MayIssue) <= Cardinality(Busy) /\ Cardinality(Busy) \in Nat
         /\ IsFiniteSet(MaySave) /\ Cardinality(MaySave) \in Nat
         /\ Cardinality(MaySave) <= Cardinality(BusyRegs) /\ Cardinality(BusyRegs) \in Nat
         /\ lastKey \in Nat /\ MaxKeys \in Nat
<1>1. MayIssue \subseteq Busy /\ MaySave \subseteq BusyRegs
  BY DEF MayIssue, Busy, MaySave, BusyRegs
<1> QED BY <1>1, Fewer, TimesAssumption DEF RoomKept, TypeOK

\* A step that stores no key, and starts no call that may.
LEMMA RoomQuietStep ==
  ASSUME TypeOK, RoomKept, lastKey' = lastKey,
         NEW h, Busy' \subseteq Busy \cup {h}, BusyRegs' \subseteq BusyRegs,
         MayIssue' \subseteq MayIssue, MaySave' \subseteq MaySave,
         \A g \in Handshakes : pc'[g] = "lookup" => call'[g].verifyKey <= lastKey
  PROVE  RoomKept'
<1>1. IsFiniteSet(Busy') /\ IsFiniteSet(BusyRegs')
  BY PastRows, FS_Subset DEF RoomKept
<1>2. /\ Cardinality(MayIssue') <= Cardinality(MayIssue) /\ Cardinality(MayIssue') \in Nat
      /\ Cardinality(MaySave') <= Cardinality(MaySave) /\ Cardinality(MaySave') \in Nat
  BY RoomTypes, Fewer
<1>3. lastKey + Cardinality(MayIssue') + Cardinality(MaySave') <= MaxKeys
  BY <1>2, RoomTypes DEF RoomKept
<1> QED BY <1>1, <1>3 DEF RoomKept

\* A step that starts a call that may store a key, which RoomForKey allows.
LEMMA RoomTakenStep ==
  ASSUME TypeOK, RoomKept, RoomForKey, lastKey' = lastKey, NEW c,
         \/ /\ Busy' \subseteq Busy \cup {c} /\ BusyRegs' \subseteq BusyRegs
            /\ MayIssue' \subseteq MayIssue \cup {c} /\ MaySave' \subseteq MaySave
         \/ /\ Busy' \subseteq Busy /\ BusyRegs' \subseteq BusyRegs \cup {c}
            /\ MayIssue' \subseteq MayIssue /\ MaySave' \subseteq MaySave \cup {c},
         \A g \in Handshakes : pc'[g] = "lookup" => call'[g].verifyKey <= lastKey
  PROVE  RoomKept'
<1>1. IsFiniteSet(Busy') /\ IsFiniteSet(BusyRegs')
  BY PastRows, FS_Subset DEF RoomKept
<1>2. /\ Cardinality(MayIssue \cup {c}) <= Cardinality(MayIssue) + 1
      /\ IsFiniteSet(MayIssue \cup {c}) /\ Cardinality(MayIssue \cup {c}) \in Nat
      /\ Cardinality(MaySave \cup {c}) <= Cardinality(MaySave) + 1
      /\ IsFiniteSet(MaySave \cup {c}) /\ Cardinality(MaySave \cup {c}) \in Nat
  BY RoomTypes, OneMore
<1>3. Cardinality(MayIssue') + Cardinality(MaySave')
        <= Cardinality(MayIssue) + Cardinality(MaySave) + 1
      /\ Cardinality(MayIssue') \in Nat /\ Cardinality(MaySave') \in Nat
  <2>1. CASE MayIssue' \subseteq MayIssue \cup {c} /\ MaySave' \subseteq MaySave
    <3>1. /\ Cardinality(MayIssue') <= Cardinality(MayIssue \cup {c})
          /\ Cardinality(MayIssue') \in Nat
      BY <2>1, <1>2, Fewer
    <3>2. Cardinality(MaySave') <= Cardinality(MaySave) /\ Cardinality(MaySave') \in Nat
      BY <2>1, RoomTypes, Fewer
    <3> QED BY <3>1, <3>2, <1>2, RoomTypes
  <2>2. CASE MayIssue' \subseteq MayIssue /\ MaySave' \subseteq MaySave \cup {c}
    <3>1. /\ Cardinality(MaySave') <= Cardinality(MaySave \cup {c})
          /\ Cardinality(MaySave') \in Nat
      BY <2>2, <1>2, Fewer
    <3>2. Cardinality(MayIssue') <= Cardinality(MayIssue) /\ Cardinality(MayIssue') \in Nat
      BY <2>2, RoomTypes, Fewer
    <3> QED BY <3>1, <3>2, <1>2, RoomTypes
  <2> QED BY <2>1, <2>2
<1>4. lastKey + Cardinality(MayIssue') + Cardinality(MaySave') <= MaxKeys
  BY <1>3, RoomTypes DEF RoomForKey
<1> QED BY <1>1, <1>4 DEF RoomKept

\* A step that stores a key, and ends a call that might.
LEMMA RoomUsedStep ==
  ASSUME TypeOK, RoomKept, lastKey' = lastKey + 1,
         Busy' \subseteq Busy, BusyRegs' \subseteq BusyRegs,
         MayIssue' \subseteq MayIssue, MaySave' \subseteq MaySave,
         MayIssue' # MayIssue \/ MaySave' # MaySave,
         \A g \in Handshakes : pc'[g] = "lookup" => pc[g] = "lookup" /\ call'[g] = call[g]
  PROVE  RoomKept' /\ lastKey' <= MaxKeys
<1>1. IsFiniteSet(Busy') /\ IsFiniteSet(BusyRegs')
  BY FS_Subset DEF RoomKept
<1>2. /\ Cardinality(MayIssue') \in Nat /\ Cardinality(MayIssue') <= Cardinality(MayIssue)
      /\ MayIssue' # MayIssue => Cardinality(MayIssue') <= Cardinality(MayIssue) - 1
      /\ Cardinality(MaySave') \in Nat /\ Cardinality(MaySave') <= Cardinality(MaySave)
      /\ MaySave' # MaySave => Cardinality(MaySave') <= Cardinality(MaySave) - 1
  BY RoomTypes, Fewer
<1>3. /\ lastKey' + Cardinality(MayIssue') + Cardinality(MaySave') <= MaxKeys
      /\ lastKey' <= MaxKeys
  BY <1>2, RoomTypes DEF RoomKept
<1>4. \A g \in Handshakes : pc'[g] = "lookup" => call'[g].verifyKey <= lastKey'
  BY DEF RoomKept, TypeOK, Call
<1> QED BY <1>1, <1>3, <1>4 DEF RoomKept

LEMMA RoomInit == Init => RoomKept
<1> SUFFICES ASSUME Init PROVE RoomKept
  OBVIOUS
<1>1. /\ Busy = {} /\ BusyRegs = {} /\ MayIssue = {} /\ MaySave = {} /\ lastKey = 0
      /\ \A h \in Handshakes : pc[h] = "idle"
  BY DEF Init, Busy, BusyRegs, MayIssue, MaySave
<1>2. IsFiniteSet({}) /\ Cardinality({}) = 0
  BY FS_EmptySet
<1> QED BY <1>1, <1>2, TimesAssumption DEF RoomKept

LEMMA RoomStep ==
  ASSUME TypeOK, LockProtects, RoomKept, [Next]_vars
  PROVE  RoomKept' /\ (lastKey' = lastKey \/ lastKey' <= MaxKeys)
<1>t. /\ pc \in [Handshakes -> Steps] /\ call \in [Handshakes -> Call \cup {NoCall}]
      /\ regPc \in [Registrations -> RegSteps] /\ lastKey \in Nat
      /\ \A h \in Handshakes : pc[h] = "lookup" => call[h].verifyKey <= lastKey
      /\ \A h \in Handshakes : pc[h] = "lookup" => call[h].verifyKey \in Nat
  BY DEF TypeOK, RoomKept, Call
<1> USE DEF Busy, BusyRegs, MayIssue, MaySave
<1>1. ASSUME NEW h \in Handshakes, NEW c \in Corporates, NEW k \in 0..lastKey,
             NEW u \in Urls, BeginHandshake(h, c, k, u)
      PROVE  RoomKept' /\ lastKey' = lastKey
  <2>1. /\ UNCHANGED <<lastKey, verifyKeys, regPc>> /\ k <= lastKey
        /\ pc'[h] = "lookup" /\ call'[h].verifyKey = k
        /\ \A g \in Handshakes : g # h => pc'[g] = pc[g] /\ call'[g] = call[g]
    BY <1>1, <1>t DEF BeginHandshake
  <2>2. CASE \E r \in verifyKeys : r.key = k
    <3>1. RoomForKey
      BY <1>1, <2>2 DEF BeginHandshake
    <3>2. /\ Busy' \subseteq Busy \cup {h} /\ BusyRegs' \subseteq BusyRegs
          /\ MayIssue' \subseteq MayIssue \cup {h} /\ MaySave' \subseteq MaySave
      BY <2>1
    <3> QED BY <2>1, <3>1, <3>2, <1>t, RoomTakenStep
  <2>3. CASE ~\E r \in verifyKeys : r.key = k
    <3>1. /\ Busy' \subseteq Busy \cup {h} /\ BusyRegs' \subseteq BusyRegs
          /\ MayIssue' \subseteq MayIssue /\ MaySave' \subseteq MaySave
      BY <2>1, <2>3
    <3> QED BY <2>1, <3>1, <1>t, RoomQuietStep
  <2> QED BY <2>2, <2>3
<1>2. ASSUME NEW h \in Handshakes,
             \/ FindVerifyKey(h) \/ RefuseHandshake(h) \/ UpdateUrl(h) \/ LockVerifyKeys(h)
             \/ Answer(h) \/ AbortHandshake(h)
      PROVE  RoomKept' /\ lastKey' = lastKey
  <2>1. /\ UNCHANGED <<lastKey, verifyKeys, regPc>>
        /\ pc'[h] # "lookup"
        /\ pc'[h] \in {"update", "lock", "write"} => h \in MayIssue
        /\ pc'[h] # "idle" => pc[h] # "idle"
        /\ \A g \in Handshakes : g # h => pc'[g] = pc[g] /\ call'[g] = call[g]
    BY <1>2, <1>t DEF FindVerifyKey, Presented, RefuseHandshake, UpdateUrl, LockVerifyKeys,
                      Answer, AbortHandshake
  <2>2. /\ Busy' \subseteq Busy \cup {h} /\ BusyRegs' \subseteq BusyRegs
        /\ MayIssue' \subseteq MayIssue /\ MaySave' \subseteq MaySave
    BY <2>1
  <2> QED BY <2>1, <2>2, <1>t, RoomQuietStep
<1>3. ASSUME NEW h \in Handshakes, CommitHandshake(h)
      PROVE  RoomKept' /\ (lastKey' = lastKey \/ lastKey' <= MaxKeys)
  <2>1. /\ pc[h] = "write" /\ pc'[h] = "reply" /\ UNCHANGED regPc
        /\ \A g \in Handshakes : g # h => pc'[g] = pc[g] /\ call'[g] = call[g]
    BY <1>3, CommitCases DEF CommitHandshake
  <2>2. ASSUME NEW r, ReusesVerifyKey(h, r) PROVE RoomKept' /\ lastKey' = lastKey
    <3>1. UNCHANGED <<verifyKeys, lastKey>>
      BY <2>2 DEF ReusesVerifyKey
    <3>2. /\ Busy' \subseteq Busy \cup {h} /\ BusyRegs' \subseteq BusyRegs
          /\ MayIssue' \subseteq MayIssue /\ MaySave' \subseteq MaySave
      BY <2>1, <3>1
    <3> QED BY <2>1, <3>1, <3>2, <1>t, RoomQuietStep
  <2>3. ASSUME NEW kept, IssuesVerifyKey(h, kept) PROVE RoomKept' /\ lastKey' <= MaxKeys
    <3>1. /\ lastKey' = lastKey + 1
          /\ \A r \in verifyKeys' : r \in verifyKeys \/ r.key = lastKey + 1
      BY <2>3 DEF IssuesVerifyKey, DeleteOthers, NewVerifyKey
    <3>2. /\ Busy' \subseteq Busy /\ BusyRegs' \subseteq BusyRegs
          /\ MaySave' \subseteq MaySave
          /\ h \in MayIssue /\ h \notin MayIssue'
      BY <2>1
    <3>3. MayIssue' \subseteq MayIssue
      BY <2>1, <3>1, <1>t
    <3>4. \A g \in Handshakes : pc'[g] = "lookup" => pc[g] = "lookup" /\ call'[g] = call[g]
      BY <2>1
    <3> QED BY <3>1, <3>2, <3>3, <3>4, RoomUsedStep
  <2> QED BY <1>3, <2>2, <2>3, CommitCases
<1>4. ASSUME NEW p \in Registrations, NEW s \in Storage, UpsertBackupStorage(p, s)
      PROVE  RoomKept' /\ lastKey' = lastKey
  <2>1. /\ UNCHANGED <<lastKey, verifyKeys, pc, call>> /\ RoomForKey
        /\ \A q \in Registrations : q # p => regPc'[q] = regPc[q]
    BY <1>4, <1>t DEF UpsertBackupStorage
  <2>2. /\ Busy' \subseteq Busy /\ BusyRegs' \subseteq BusyRegs \cup {p}
        /\ MayIssue' \subseteq MayIssue /\ MaySave' \subseteq MaySave \cup {p}
    BY <2>1
  <2> QED BY <2>1, <2>2, <1>t, RoomTakenStep
<1>5. ASSUME NEW p \in Registrations,
             ClearVerifyKeys(p) \/ EmitEmail(p) \/ FailRegistration(p)
      PROVE  RoomKept' /\ lastKey' = lastKey
  <2>1. /\ UNCHANGED <<lastKey, pc, call>> /\ verifyKeys' \subseteq verifyKeys
        /\ regPc'[p] \in {"save", "idle"} /\ (regPc'[p] = "save" => regPc[p] = "clear")
        /\ \A q \in Registrations : q # p => regPc'[q] = regPc[q]
    BY <1>5, <1>t DEF ClearVerifyKeys, EmitEmail, FailRegistration
  <2>2. /\ Busy' \subseteq Busy \cup {p} /\ BusyRegs' \subseteq BusyRegs
        /\ MayIssue' \subseteq MayIssue /\ MaySave' \subseteq MaySave
    BY <2>1
  <2> QED BY <2>1, <2>2, <1>t, RoomQuietStep
<1>6. ASSUME NEW p \in Registrations, SaveVerifyKey(p)
      PROVE  RoomKept' /\ lastKey' <= MaxKeys
  <2>1. /\ UNCHANGED <<pc, call>> /\ lastKey' = lastKey + 1
        /\ regPc[p] = "save" /\ regPc'[p] = "email"
        /\ \A q \in Registrations : q # p => regPc'[q] = regPc[q]
        /\ \A r \in verifyKeys' : r \in verifyKeys \/ r.key = lastKey + 1
    BY <1>6, <1>t DEF SaveVerifyKey
  <2>2. /\ Busy' \subseteq Busy /\ BusyRegs' \subseteq BusyRegs
        /\ MaySave' \subseteq MaySave /\ p \in MaySave /\ p \notin MaySave'
    BY <2>1
  <2>3. MayIssue' \subseteq MayIssue
    BY <2>1, <1>t
  <2> QED BY <2>1, <2>2, <2>3, RoomUsedStep
<1>7. CASE Crash
  <2>1. /\ UNCHANGED <<lastKey, verifyKeys>>
        /\ Busy' = {} /\ BusyRegs' = {} /\ MayIssue' = {} /\ MaySave' = {}
        /\ \A g \in Handshakes : pc'[g] = "idle"
    BY <1>7 DEF Crash
  <2> QED BY <2>1, RoomQuietStep
<1>8. CASE Tick \/ UNCHANGED vars
  <2>1. UNCHANGED <<lastKey, verifyKeys, pc, call, regPc>>
    BY <1>8 DEF Tick, vars
  <2>2. Busy' = Busy /\ BusyRegs' = BusyRegs /\ MayIssue' = MayIssue /\ MaySave' = MaySave
    BY <2>1
  <2> QED BY <2>1, <2>2, <1>t, RoomQuietStep
<1> QED
  BY <1>1, <1>2, <1>3, <1>4, <1>5, <1>6, <1>7, <1>8
  DEF Next, ServeHandshake, ServeRegistration, DeadlockVictim, FailHandshake

----------------------------------------------------------------------------
(* A mailed key works.                                                      *)

\* A key that somebody has been mailed, or may still be.
Mailed(k) ==
  \/ asked[k] \cup taken[k] # {}
  \/ mail[k].state \notin {"none", "lost"}
  \/ NotMailedYet(k)

NewerKeys(s, k) == {r \in RowsOf(verifyKeys, s) : r.key > k}

\* Why a key saved for storage s may not be there any more.
Works(k, s) ==
  \/ k \in KeysOf(verifyKeys, s)
  \/ \E j \in Mails : j > k /\ j <= lastKey /\ savedFor[j] = s
  \/ Registering(s, {"save"}) \/ s \in interrupted
  \/ Cardinality(NewerKeys(s, k)) >= REVOKE_VERIFY_KEY_AFTER

MailedKeysWork ==
  \A k \in Mails :
    Mailed(k) => k <= lastKey /\ savedFor[k] \in Storage /\ Works(k, savedFor[k])

\* The history is kept for every mail, and every mail has a state.
HistoryOK ==
  /\ savedFor \in [Mails -> Storage \cup {NoRow}]
  /\ mail = [k \in Mails |-> mail[k]] /\ \A k \in Mails : "state" \in DOMAIN mail[k]
  /\ asked = [k \in Mails |-> asked[k]] /\ taken = [k \in Mails |-> taken[k]]

\* A handshake takes a key from a storage only when enough newer ones are
\* left, and never lets their number fall below that again.
LEMMA CommitLeavesNewer ==
  ASSUME TypeOK, LockProtects, RowsArePast, InOrder, NEW h \in Handshakes,
         CommitHandshake(h), NEW s \in Storage, NEW k \in Nat,
         \/ k \in KeysOf(verifyKeys, s)
         \/ Cardinality(NewerKeys(s, k)) >= REVOKE_VERIFY_KEY_AFTER
  PROVE  \/ k \in KeysOf(verifyKeys', s)
         \/ Cardinality(NewerKeys(s, k)') >= REVOKE_VERIFY_KEY_AFTER
<1> DEFINE rows == RowsOf(verifyKeys, s)
           new == NewVerifyKey(h)
           limit == REVOKE_VERIFY_KEY_AFTER
<1>1. CASE s # call[h].storage
  <2>1. RowsOf(verifyKeys', s) = RowsOf(verifyKeys, s)
    BY <1>1, CommitOwnStorage DEF RowsOf
  <2> QED BY <2>1 DEF KeysOf, NewerKeys, RowsOf
<1>2. ASSUME NEW r, ReusesVerifyKey(h, r)
      PROVE  \/ k \in KeysOf(verifyKeys', s)
             \/ Cardinality(NewerKeys(s, k)') >= limit
  <2>1. verifyKeys' = verifyKeys
    BY <1>2 DEF ReusesVerifyKey
  <2> QED BY <2>1 DEF KeysOf, NewerKeys, RowsOf
<1>3. ASSUME s = call[h].storage, NEW kept, IssuesVerifyKey(h, kept),
             k \notin KeysOf(verifyKeys', s)
      PROVE  Cardinality(NewerKeys(s, k)') >= limit
  <2>1. /\ kept \in KeptRows(rows, limit, "createdAt") /\ kept \subseteq rows
        /\ verifyKeys' = DeleteOthers(verifyKeys, s, kept) \cup {new}
        /\ new.storage = s /\ new.key = lastKey + 1
    BY <1>3 DEF IssuesVerifyKey, KeptRows, Top, NewVerifyKey
  <2>2. RowsOf(verifyKeys', s) = kept \cup {new}
    BY <2>1 DEF RowsOf, DeleteOthers
  <2>3. IsFiniteSet(rows)
    BY FS_Subset DEF RowsOf, RowsArePast
  <2>4. \A r \in rows : r \in verifyKeys /\ r.key \in Nat /\ r.key <= lastKey
    BY DEF RowsOf, RowsArePast, TypeOK, VerifyKeyRow
  <2>5. lastKey \in Nat /\ new \notin kept
    BY <2>1, <2>4 DEF TypeOK
  <2>6. IsFiniteSet(kept) /\ IsFiniteSet(NewerKeys(s, k)')
    <3>1. IsFiniteSet(kept)
      BY <2>1, <2>3, FS_Subset
    <3>2. NewerKeys(s, k)' \subseteq kept \cup {new}
      BY <2>2 DEF NewerKeys, RowsOf
    <3> QED BY <3>1, <3>2, PastRows
  <2> HIDE DEF new
  <2>7. ASSUME NEW r \in rows \ kept, r.key >= k
        PROVE  Cardinality(NewerKeys(s, k)') >= limit
    <3>1. ASSUME NEW q \in kept PROVE q.key > k
      <4>1. Precedes(q, r, "createdAt") /\ q \in rows /\ q # r
        BY <2>1, <2>7 DEF KeptRows, Top
      <4>2. q.key >= r.key
        BY <4>1, <2>4, LatestKeyIsNewest DEF InOrder
      <4>3. q.key # r.key
        BY <4>1, <2>4 DEF InOrder, RowsNumbered, Numbered
      <4>4. q.key \in Nat /\ r.key \in Nat
        BY <4>1, <2>4
      <4> QED BY <4>2, <4>3, <4>4, <2>7
    <3>2. new.key > k
      BY <2>1, <2>4, <2>5, <2>7
    <3>3. kept \cup {new} \subseteq NewerKeys(s, k)'
      BY <2>2, <3>1, <3>2 DEF NewerKeys, RowsOf
    <3>4. kept # rows
      BY <2>7
    <3> QED BY <2>1, <2>3, <2>5, <2>6, <3>3, <3>4, DroppedAtLimit, LimitsAssumption
  <2>8. CASE k \in KeysOf(verifyKeys, s)
    <3>1. PICK r \in rows : r.key = k
      BY <2>8 DEF KeysOf
    <3>2. r \notin kept
      BY <1>3, <2>2, <3>1 DEF KeysOf
    <3> QED BY <2>7, <3>1, <3>2
  <2>9. CASE Cardinality(NewerKeys(s, k)) >= limit
    <3>1. CASE NewerKeys(s, k) \subseteq kept
      <4>1. NewerKeys(s, k) \subseteq NewerKeys(s, k)'
        BY <2>2, <3>1 DEF NewerKeys, RowsOf
      <4>2. /\ Cardinality(NewerKeys(s, k)) <= Cardinality(NewerKeys(s, k)')
            /\ Cardinality(NewerKeys(s, k)) \in Nat /\ Cardinality(NewerKeys(s, k)') \in Nat
        BY <4>1, <2>6, Fewer
      <4> QED BY <4>2, <2>9, LimitsAssumption
    <3>2. CASE ~(NewerKeys(s, k) \subseteq kept)
      <4>1. PICK r \in rows \ kept : r.key > k
        BY <3>2 DEF NewerKeys
      <4> QED BY <4>1, <2>4, <2>7
    <3> QED BY <3>1, <3>2
  <2> QED BY <2>8, <2>9
<1> QED BY <1>1, <1>2, <1>3, CommitCases

\* A step that takes no key but as the limit has it, ends no registration
\* before its save but an interrupted one, and starts no mail of a new key.
LEMMA WorksQuietStep ==
  ASSUME TypeOK, MailedKeysWork, savedFor' = savedFor,
         lastKey' = lastKey \/ lastKey' = lastKey + 1,
         \A k \in Mails : Mailed(k)' => Mailed(k),
         \A k \in Mails, s \in Storage :
           \/ k \in KeysOf(verifyKeys, s)
           \/ Cardinality(NewerKeys(s, k)) >= REVOKE_VERIFY_KEY_AFTER
           => \/ k \in KeysOf(verifyKeys', s)
              \/ Cardinality(NewerKeys(s, k)') >= REVOKE_VERIFY_KEY_AFTER
              \/ Registering(s, {"save"})',
         \A s \in Storage :
           Registering(s, {"save"}) \/ s \in interrupted =>
             Registering(s, {"save"})' \/ s \in interrupted'
  PROVE  MailedKeysWork'
<1> SUFFICES ASSUME NEW k \in Mails, Mailed(k)'
             PROVE  k <= lastKey' /\ savedFor[k] \in Storage /\ Works(k, savedFor[k])'
  BY DEF MailedKeysWork
<1>0. \A j \in Mails : j <= lastKey => j <= lastKey'
  BY MailsAssumption, TimesAssumption DEF TypeOK
<1>1. k <= lastKey /\ savedFor[k] \in Storage /\ Works(k, savedFor[k])
  BY DEF MailedKeysWork
<1> DEFINE s == savedFor[k]
<1>2. s' = s /\ s \in Storage
  BY <1>1
<1>3. CASE \/ k \in KeysOf(verifyKeys, s)
           \/ Cardinality(NewerKeys(s, k)) >= REVOKE_VERIFY_KEY_AFTER
  <2>1. \/ k \in KeysOf(verifyKeys', s)
        \/ Cardinality(NewerKeys(s, k)') >= REVOKE_VERIFY_KEY_AFTER
        \/ Registering(s, {"save"})'
    BY <1>2, <1>3
  <2> QED BY <1>0, <1>1, <1>2, <2>1 DEF Works, KeysOf, RowsOf
<1>4. CASE \E j \in Mails : j > k /\ j <= lastKey /\ savedFor[j] = s
  BY <1>0, <1>1, <1>2, <1>4 DEF Works
<1>5. CASE Registering(s, {"save"}) \/ s \in interrupted
  BY <1>0, <1>1, <1>2, <1>5 DEF Works
<1> QED BY <1>1, <1>3, <1>4, <1>5 DEF Works

LEMMA HistoryInit == OnboardingInit => HistoryOK
BY DEF OnboardingInit, MailInit, HistoryOK

LEMMA HistoryStep == TypeOK /\ HistoryOK /\ [OnboardingNext]_onboardingVars => HistoryOK'
<1> SUFFICES ASSUME TypeOK, HistoryOK, [OnboardingNext]_onboardingVars PROVE HistoryOK'
  OBVIOUS
<1>1. CASE UNCHANGED <<mailVars, savedFor>>
  BY <1>1 DEF HistoryOK, mailVars
<1>2. ASSUME NEW p \in Registrations, SaveKey(p) PROVE HistoryOK'
  <2>1. reg[p].storage \in Storage
    BY <1>2 DEF SaveKey, SaveVerifyKey, TypeOK
  <2> QED BY <1>2, <2>1 DEF SaveKey, mailVars, HistoryOK
<1>3. ASSUME NEW p \in Registrations, MailKey(p) PROVE HistoryOK'
  BY <1>3 DEF MailKey, StartMail, Goes, HistoryOK
<1>4. ASSUME NEW k \in Mails, Dispatch(k) PROVE HistoryOK'
  <2>1. CASE FillTemplate(k) \/ FailTemplate(k) \/ GiveUp(k) \/ ProviderSucceeds(k)
    BY <1>4, <2>1 DEF Dispatch, FillTemplate, FailTemplate, GiveUp, ProviderSucceeds, Goes,
                      HistoryOK
  <2>2. CASE TryProvider(k)
    BY <1>4, <2>2 DEF Dispatch, TryProvider, HistoryOK
  <2>3. CASE ProviderFails(k)
    BY <1>4, <2>3 DEF Dispatch, ProviderFails, HistoryOK
  <2>4. CASE ProviderHandles(k)
    BY <1>4, <2>4 DEF Dispatch, ProviderHandles, ProviderTakes, ProviderDrops, HistoryOK
  <2> QED BY <1>4, <2>1, <2>2, <2>3, <2>4 DEF Dispatch, Serve, MailStep, ProviderAnswers
<1>5. CASE ProcessEnds
  BY <1>5 DEF ProcessEnds, HistoryOK
<1> QED
  BY <1>1, <1>2, <1>3, <1>4, <1>5
  DEF OnboardingNext, Enter, Register, BreakOff, PassTime, onboardingVars, mailVars

\* What is sent, taken or lost next has been mailed before.
LEMMA DispatchMailed ==
  ASSUME TypeOK, HistoryOK, NEW k \in Mails, Dispatch(k), NEW m \in Mails, Mailed(m)'
  PROVE  Mailed(m)
<1>1. NotMailedYet(m)' => NotMailedYet(m)
  BY DEF Dispatch, vars, NotMailedYet
<1>2. CASE m # k
  <2>1. mail'[m] = mail[m] /\ asked'[m] = asked[m] /\ taken'[m] = taken[m]
    <3>1. CASE FillTemplate(k) \/ FailTemplate(k) \/ GiveUp(k) \/ ProviderSucceeds(k)
      BY <1>2, <3>1 DEF FillTemplate, FailTemplate, GiveUp, ProviderSucceeds, Goes, HistoryOK
    <3>2. CASE TryProvider(k)
      BY <1>2, <3>2 DEF TryProvider, HistoryOK
    <3>3. CASE ProviderFails(k)
      BY <1>2, <3>3 DEF ProviderFails, HistoryOK
    <3>4. CASE ProviderHandles(k)
      BY <1>2, <3>4 DEF ProviderHandles, ProviderTakes, ProviderDrops, HistoryOK
    <3> QED BY <3>1, <3>2, <3>3, <3>4 DEF Dispatch, Serve, MailStep, ProviderAnswers
  <2> QED BY <1>1, <2>1 DEF Mailed
<1>3. CASE m = k
  <2>1. CASE MailStep(k) \/ ProviderAnswers(k)
    <3>1. mail[k].state \in {"template", "next", "waiting"}
      BY <2>1 DEF MailStep, ProviderAnswers, FillTemplate, FailTemplate, TryProvider, GiveUp,
                  ProviderSucceeds, ProviderFails, Goes
    <3> QED BY <1>3, <3>1 DEF Mailed
  <2>2. CASE ProviderHandles(k)
    BY <1>3, <2>2 DEF ProviderHandles, ProviderTakes, ProviderDrops, Mailed
  <2> QED BY <2>1, <2>2 DEF Dispatch, Serve
<1> QED BY <1>2, <1>3

\* A step of the calls: mails stay as they are, and no call has a key to mail
\* that it had not.
LEMMA SameMailed ==
  ASSUME TypeOK, UNCHANGED mailVars, NEW k \in Mails, Mailed(k)',
         \A p \in Registrations : regPc'[p] = "email" => regPc[p] = "email" /\ reg'[p] = reg[p]
  PROVE  Mailed(k)
BY DEF Mailed, mailVars, NotMailedYet

LEMMA WorksStep ==
  ASSUME TypeOK, LockProtects, RowsArePast, InOrder, RoomKept, HistoryOK, MailedKeysWork,
         [OnboardingNext]_onboardingVars
  PROVE  MailedKeysWork'
<1>t. /\ regPc \in [Registrations -> RegSteps]
      /\ reg \in [Registrations -> [storage : Storage, key : Nat] \cup {NoCall}]
      /\ \A p \in Registrations : regPc[p] # "idle" => reg[p].storage \in Storage
      /\ lastKey \in Nat /\ Mails \subseteq Nat
  BY MailsAssumption, TimesAssumption DEF TypeOK
<1>1. ASSUME NEW h \in Handshakes, Enter(h) PROVE MailedKeysWork'
  <2>1. UNCHANGED <<regPc, reg, interrupted, savedFor, mailVars>>
    BY <1>1 DEF Enter, ServeHandshake, BeginHandshake, FindVerifyKey, RefuseHandshake,
               UpdateUrl, LockVerifyKeys, CommitHandshake, DeadlockVictim, FailHandshake,
               AbortHandshake, Answer
  <2>2. \A k \in Mails : Mailed(k)' => Mailed(k)
    BY <2>1, SameMailed
  <2>3. CASE CommitHandshake(h)
    <3>1. lastKey' = lastKey \/ lastKey' = lastKey + 1
      BY <2>3 DEF CommitHandshake, ReuseVerifyKey, IssueVerifyKey
    <3>2. ASSUME NEW k \in Mails, NEW s \in Storage,
                 \/ k \in KeysOf(verifyKeys, s)
                 \/ Cardinality(NewerKeys(s, k)) >= REVOKE_VERIFY_KEY_AFTER
          PROVE  \/ k \in KeysOf(verifyKeys', s)
                 \/ Cardinality(NewerKeys(s, k)') >= REVOKE_VERIFY_KEY_AFTER
      BY <1>t, <2>3, <3>2, CommitLeavesNewer
    <3> QED BY <2>1, <2>2, <3>1, <3>2, WorksQuietStep DEF Registering
  <2>4. CASE ~CommitHandshake(h)
    <3>1. UNCHANGED <<verifyKeys, lastKey>>
      BY <1>1, <2>4 DEF Enter, ServeHandshake, BeginHandshake, FindVerifyKey,
               RefuseHandshake, UpdateUrl, LockVerifyKeys, DeadlockVictim,
               FailHandshake, AbortHandshake, Answer
    <3> QED BY <2>1, <2>2, <3>1, WorksQuietStep DEF Registering, NewerKeys, RowsOf
  <2> QED BY <2>3, <2>4
<1>2. ASSUME NEW p \in Registrations, NEW s \in Storage, UpsertBackupStorage(p, s),
             UNCHANGED <<mailVars, savedFor, interrupted>>
      PROVE  MailedKeysWork'
  <2>1. /\ UNCHANGED <<verifyKeys, lastKey>>
        /\ regPc[p] = "idle" /\ regPc'[p] = "clear"
        /\ \A q \in Registrations : q # p => regPc'[q] = regPc[q] /\ reg'[q] = reg[q]
    BY <1>2, <1>t DEF UpsertBackupStorage
  <2>2. \A k \in Mails : Mailed(k)' => Mailed(k)
    BY <1>2, <2>1, SameMailed
  <2> QED BY <1>2, <2>1, <2>2, WorksQuietStep DEF Registering, NewerKeys, RowsOf
<1>3. ASSUME NEW p \in Registrations, ClearVerifyKeys(p),
             UNCHANGED <<mailVars, savedFor, interrupted>>
      PROVE  MailedKeysWork'
  <2> DEFINE s == reg[p].storage
  <2>1. /\ lastKey' = lastKey /\ reg' = reg
        /\ verifyKeys' = verifyKeys \ RowsOf(verifyKeys, s)
        /\ regPc[p] = "clear" /\ regPc'[p] = "save"
        /\ \A q \in Registrations : q # p => regPc'[q] = regPc[q]
    BY <1>3, <1>t DEF ClearVerifyKeys
  <2>2. \A k \in Mails : Mailed(k)' => Mailed(k)
    BY <1>3, <2>1, SameMailed
  <2>3. regPc'[p] = "save" /\ reg'[p].storage = s
    BY <2>1
  <2>4. ASSUME NEW r \in Storage, r # s PROVE RowsOf(verifyKeys', r) = RowsOf(verifyKeys, r)
    BY <2>1, <2>4 DEF RowsOf
  <2>5. ASSUME NEW r \in Storage, r # s, NEW k \in Mails
        PROVE  /\ KeysOf(verifyKeys', r) = KeysOf(verifyKeys, r)
               /\ NewerKeys(r, k)' = NewerKeys(r, k)
    BY <2>4, <2>5 DEF KeysOf, NewerKeys, RowsOf
  <2>6. \A r \in Storage : Registering(r, {"save"}) => Registering(r, {"save"})'
    BY <2>1 DEF Registering
  <2> HIDE DEF s
  <2>7. ASSUME NEW k \in Mails, NEW r \in Storage,
               \/ k \in KeysOf(verifyKeys, r)
               \/ Cardinality(NewerKeys(r, k)) >= REVOKE_VERIFY_KEY_AFTER
        PROVE  \/ k \in KeysOf(verifyKeys', r)
               \/ Cardinality(NewerKeys(r, k)') >= REVOKE_VERIFY_KEY_AFTER
               \/ Registering(r, {"save"})'
    <3>1. CASE r = s
      BY <2>3, <3>1 DEF Registering
    <3>2. CASE r # s
      BY <2>5, <2>7, <3>2
    <3> QED BY <3>1, <3>2
  <2> QED BY <1>3, <2>1, <2>2, <2>6, <2>7, WorksQuietStep
<1>4. ASSUME NEW p \in Registrations, SaveKey(p) PROVE MailedKeysWork'
  <2> DEFINE s == reg[p].storage
             row == [storage |-> s, key |-> lastKey + 1, createdAt |-> NOW]
  <2>1. /\ lastKey' = lastKey + 1 /\ row.storage = s /\ row.key = lastKey + 1
        /\ verifyKeys' = verifyKeys \cup {row}
        /\ savedFor' = [savedFor EXCEPT ![lastKey + 1] = s]
        /\ interrupted' = interrupted \ {s}
        /\ regPc[p] = "save" /\ regPc'[p] = "email" /\ reg'[p].key = lastKey + 1
        /\ \A q \in Registrations : q # p => regPc'[q] = regPc[q] /\ reg'[q] = reg[q]
        /\ UNCHANGED mailVars
    BY <1>4, <1>t DEF SaveKey, SaveVerifyKey
  <2> HIDE DEF row
  <2>2. s \in Storage
    BY <1>t, <2>1
  <2>3. lastKey + 1 \in Mails
    <3>1. lastKey' <= MaxKeys
      BY <2>1, <1>t, RoomStep, OnboardingIsHandshake
    <3> QED BY <2>1, <3>1, <1>t, MailsAssumption, TimesAssumption
  <2> HIDE DEF s
  <2>4. \A j \in Mails : savedFor'[j] = IF j = lastKey + 1 THEN s ELSE savedFor[j]
    BY <2>1, <2>3 DEF HistoryOK
  <2> SUFFICES ASSUME NEW k \in Mails, Mailed(k)'
               PROVE  k <= lastKey' /\ savedFor'[k] \in Storage /\ Works(k, savedFor[k])'
    BY DEF MailedKeysWork
  <2>5. CASE k = lastKey + 1
    <3>1. savedFor'[k] = s /\ k <= lastKey'
      BY <2>1, <2>4, <2>5, <1>t
    <3>2. k \in KeysOf(verifyKeys', s)
      BY <2>1, <2>5 DEF KeysOf, RowsOf
    <3> QED BY <3>1, <3>2, <2>2 DEF Works, KeysOf, RowsOf
  <2>6. CASE k # lastKey + 1
    <3>1. Mailed(k)
      BY <2>1, <2>6 DEF Mailed, NotMailedYet, mailVars
    <3>2. k <= lastKey /\ savedFor[k] \in Storage /\ Works(k, savedFor[k])
      BY <3>1 DEF MailedKeysWork
    <3>3. savedFor'[k] = savedFor[k]
      BY <2>4, <2>6
    <3>4. CASE savedFor[k] = s
      <4>1. lastKey + 1 > k /\ lastKey + 1 <= lastKey' /\ savedFor'[lastKey + 1] = savedFor'[k]
        BY <3>2, <3>3, <3>4, <2>1, <2>3, <2>4, <1>t
      <4> QED BY <4>1, <2>1, <2>3, <3>2, <3>3, <1>t DEF Works
    <3>5. CASE savedFor[k] # s
      <4> DEFINE r == savedFor[k]
      <4>1. RowsOf(verifyKeys', r) = RowsOf(verifyKeys, r)
        BY <2>1, <3>5 DEF RowsOf
      <4>2. /\ KeysOf(verifyKeys', r) = KeysOf(verifyKeys, r)
            /\ NewerKeys(r, k)' = NewerKeys(r, k)
        BY <4>1, <3>3 DEF KeysOf, NewerKeys, RowsOf
      <4>3. r \in interrupted => r \in interrupted'
        BY <2>1, <3>5
      <4>4. Registering(r, {"save"}) => Registering(r, {"save"})'
        BY <2>1, <3>3, <3>5 DEF Registering, s
      <4>5. ASSUME NEW j \in Mails, j > k, j <= lastKey, savedFor[j] = r
            PROVE  j <= lastKey' /\ savedFor'[j] = r
        BY <4>5, <2>1, <2>4, <1>t
      <4>6. k <= lastKey'
        BY <3>2, <2>1, <1>t
      <4>7. Works(k, r)'
        BY <4>2, <4>3, <4>4, <4>5, <3>2, <3>3 DEF Works
      <4> QED BY <4>6, <4>7, <3>2, <3>3
    <3> QED BY <3>4, <3>5
  <2> QED BY <2>5, <2>6
<1>5. ASSUME NEW p \in Registrations, BreakOff(p) PROVE MailedKeysWork'
  <2>1. /\ UNCHANGED <<verifyKeys, lastKey, savedFor, mailVars>>
        /\ interrupted' = interrupted \cup {reg[p].storage}
        /\ regPc'[p] = "idle"
        /\ \A q \in Registrations : q # p => regPc'[q] = regPc[q] /\ reg'[q] = reg[q]
    BY <1>5, <1>t DEF BreakOff, FailRegistration
  <2>2. \A k \in Mails : Mailed(k)' => Mailed(k)
    BY <2>1, SameMailed
  <2> QED BY <2>1, <2>2, WorksQuietStep DEF Registering, NewerKeys, RowsOf
<1>6. ASSUME NEW p \in Registrations, MailKey(p) PROVE MailedKeysWork'
  <2>1. /\ UNCHANGED <<verifyKeys, lastKey, savedFor, interrupted, asked, taken>>
        /\ regPc[p] = "email" /\ regPc'[p] = "idle"
        /\ \A q \in Registrations : q # p => regPc'[q] = regPc[q] /\ reg'[q] = reg[q]
    BY <1>6, <1>t DEF MailKey, EmitEmail, StartMail
  <2>2. ASSUME NEW k \in Mails, Mailed(k)' PROVE Mailed(k)
    <3>1. CASE k = reg[p].key
      BY <2>1, <3>1 DEF Mailed, NotMailedYet
    <3>2. CASE k # reg[p].key
      <4>1. mail'[k] = mail[k]
        BY <1>6, <3>2 DEF MailKey, StartMail, Goes, HistoryOK
      <4> QED BY <2>1, <2>2, <4>1 DEF Mailed, NotMailedYet
    <3> QED BY <3>1, <3>2
  <2> QED BY <2>1, <2>2, WorksQuietStep DEF Registering, NewerKeys, RowsOf
<1>7. ASSUME NEW m \in Mails, Dispatch(m) PROVE MailedKeysWork'
  <2>1. UNCHANGED <<verifyKeys, lastKey, regPc, reg, savedFor, interrupted>>
    BY <1>7 DEF Dispatch, vars
  <2>2. \A k \in Mails : Mailed(k)' => Mailed(k)
    BY <1>7, DispatchMailed
  <2> QED BY <2>1, <2>2, WorksQuietStep DEF Registering, NewerKeys, RowsOf
<1>8. CASE PassTime \/ UNCHANGED onboardingVars
  <2>1. UNCHANGED <<verifyKeys, lastKey, regPc, reg, mailVars, savedFor, interrupted>>
    BY <1>8 DEF PassTime, Tick, onboardingVars, vars
  <2>2. \A k \in Mails : Mailed(k)' => Mailed(k)
    BY <2>1, SameMailed
  <2> QED BY <2>1, <2>2, WorksQuietStep DEF Registering, NewerKeys, RowsOf
<1>9. CASE ProcessEnds
  <2>1. /\ UNCHANGED <<verifyKeys, lastKey, savedFor, asked, taken>>
        /\ interrupted' = interrupted \cup
             {reg[p].storage : p \in {p \in Registrations : regPc[p] \in {"clear", "save"}}}
        /\ \A p \in Registrations : regPc'[p] # "idle" => regPc'[p] = regPc[p] /\ reg'[p] = reg[p]
        /\ \A k \in Mails :
             mail'[k] = IF Sending(k) \/ NotMailedYet(k)
                          THEN [mail[k] EXCEPT !.state = "lost"] ELSE mail[k]
    BY <1>9 DEF ProcessEnds, Crash, vars, HistoryOK
  <2>2. ASSUME NEW k \in Mails, Mailed(k)' PROVE Mailed(k)
    <3>1. CASE Sending(k) \/ NotMailedYet(k)
      BY <3>1 DEF Mailed, Sending
    <3>2. CASE ~(Sending(k) \/ NotMailedYet(k))
      BY <2>1, <2>2, <3>2 DEF Mailed, NotMailedYet
    <3> QED BY <3>1, <3>2
  <2>3. ASSUME NEW s \in Storage, Registering(s, {"save"}) PROVE s \in interrupted'
    BY <2>1, <2>3 DEF Registering
  <2>4. \A s \in Storage : s \in interrupted => s \in interrupted'
    BY <2>1
  <2> QED BY <2>1, <2>2, <2>3, <2>4, WorksQuietStep DEF NewerKeys, RowsOf
<1> QED
  BY <1>1, <1>2, <1>3, <1>4, <1>5, <1>6, <1>7, <1>8, <1>9 DEF OnboardingNext, Register

\* A verify key that somebody was mailed was saved for a storage and still
\* lets it in, unless a later registration has replaced it or handshakes have
\* issued as many newer keys as are kept (MailedKeyWorks): with any number of
\* registrations, handshakes, mails and failures at once.
THEOREM MailedKeysLetIn == OnboardingSpec => []MailedKeyWorks
<1> DEFINE Inv == /\ TypeOK /\ LockProtects /\ RowsArePast /\ InOrder
                  /\ RoomKept /\ HistoryOK /\ MailedKeysWork
<1>1. OnboardingInit => Inv
  <2> SUFFICES ASSUME OnboardingInit PROVE Inv
    OBVIOUS
  <2>1. TypeOK /\ LockProtects /\ RowsArePast /\ InOrder /\ RoomKept /\ HistoryOK
    BY TypeInit, LockInit, PastInit, OrderInit, RoomInit, HistoryInit DEF OnboardingInit
  <2>2. MailedKeysWork
    BY DEF OnboardingInit, Init, MailInit, MailedKeysWork, Mailed, NotMailedYet
  <2> QED BY <2>1, <2>2
<1>2. Inv /\ [OnboardingNext]_onboardingVars => Inv'
  <2> SUFFICES ASSUME Inv, [OnboardingNext]_onboardingVars PROVE Inv'
    OBVIOUS
  <2>1. [Next]_vars
    BY OnboardingIsHandshake
  <2>2. TypeOK' /\ LockProtects' /\ RowsArePast' /\ InOrder' /\ RoomKept'
    BY <2>1, TypeStep, LockStep, PastStep, OrderStep, RoomStep
  <2>3. HistoryOK' /\ MailedKeysWork'
    BY HistoryStep, WorksStep
  <2> QED BY <2>2, <2>3
<1>3. Inv => MailedKeyWorks
  BY DEF MailedKeysWork, MailedKeyWorks, Mailed, Works, NewerKeys
<1> QED BY <1>1, <1>2, <1>3, PTL DEF OnboardingSpec

============================================================================
