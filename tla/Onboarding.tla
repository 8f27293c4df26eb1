----------------------------- MODULE Onboarding -----------------------------
(* How the owner of a backup storage gets in: the registrations of          *)
(* Handshake, several of one storage at once, with the mails of             *)
(* MailDispatch that bring their keys, and the handshakes that rotate them. *)
(* A mail is identified by the verify key it carries.                       *)
EXTENDS Handshake, MailDispatch

ASSUME MailsAssumption == Mails = 1..MaxKeys

VARIABLES
  savedFor,     \* history: the storage a registration saved a key for
  interrupted   \* history: storages with a registration that ended before it
                \*   saved a key, and none that saved one since

onboardingVars == <<vars, mailVars, savedFor, interrupted>>

----------------------------------------------------------------------------

OnboardingInit ==
  /\ Init
  /\ MailInit
  /\ savedFor = [k \in Mails |-> NoRow]
  /\ interrupted = {}

\* A handshake of any storage.
Enter(h) ==
  /\ ServeHandshake(h) \/ Answer(h)
  /\ UNCHANGED <<mailVars, savedFor, interrupted>>

Register(p) ==
  /\ (\E s \in Storage : UpsertBackupStorage(p, s)) \/ ClearVerifyKeys(p)
  /\ UNCHANGED <<mailVars, savedFor, interrupted>>

SaveKey(p) ==
  /\ SaveVerifyKey(p)
  /\ savedFor' = [savedFor EXCEPT ![lastKey'] = reg[p].storage]
  /\ interrupted' = interrupted \ {reg[p].storage}
  /\ UNCHANGED mailVars

BreakOff(p) ==
  /\ FailRegistration(p)
  /\ interrupted' = interrupted \cup {reg[p].storage}
  /\ UNCHANGED <<mailVars, savedFor>>

\* emit calls the listener at once: the mail starts before the registration is
\* answered.
MailKey(p) ==
  /\ EmitEmail(p)
  /\ StartMail(reg[p].key)
  /\ UNCHANGED <<savedFor, interrupted>>

Dispatch(k) ==
  /\ Serve(k)
  /\ UNCHANGED <<vars, savedFor, interrupted>>

PassTime == Tick /\ UNCHANGED <<mailVars, savedFor, interrupted>>

\* A key whose mail was to be emitted next.
NotMailedYet(k) == \E p \in Registrations : regPc[p] = "email" /\ reg[p].key = k

\* The process ends, with all calls and all mails in progress.
ProcessEnds ==
  /\ Crash \/ (Busy = {} /\ BusyRegs = {} /\ (\E k \in Mails : Sending(k)) /\ UNCHANGED vars)
  /\ mail' = [k \in Mails |->
       IF Sending(k) \/ NotMailedYet(k) THEN [mail[k] EXCEPT !.state = "lost"] ELSE mail[k]]
  /\ interrupted' = interrupted \cup
       {reg[p].storage : p \in {p \in Registrations : regPc[p] \in {"clear", "save"}}}
  /\ UNCHANGED <<fallbackOrder, asked, taken, savedFor>>

OnboardingNext ==
  \/ \E h \in Handshakes : Enter(h)
  \/ \E p \in Registrations : Register(p) \/ SaveKey(p) \/ BreakOff(p) \/ MailKey(p)
  \/ \E k \in Mails : Dispatch(k)
  \/ PassTime
  \/ ProcessEnds

OnboardingSpec == OnboardingInit /\ [][OnboardingNext]_onboardingVars

\* The event is emitted once the save has returned; mails as in MailDispatch.
FairOnboardingSpec ==
  /\ OnboardingSpec
  /\ \A p \in Registrations : WF_onboardingVars(MailKey(p))
  /\ \A k \in Mails :
       /\ WF_onboardingVars(MailStep(k) /\ UNCHANGED <<vars, savedFor, interrupted>>)
       /\ WF_onboardingVars(ProviderAnswers(k) /\ UNCHANGED <<vars, savedFor, interrupted>>)
       /\ WF_onboardingVars(ProviderHandles(k) /\ UNCHANGED <<vars, savedFor, interrupted>>)

----------------------------------------------------------------------------
(* Properties.                                                              *)

Registering(s, steps) ==
  \E p \in Registrations : regPc[p] \in steps /\ reg[p].storage = s

\* A registered storage always has a verify key to get in with, unless one of
\* its registrations has not come to its save or was broken off before it:
\* neither rotation nor two registrations at once leave it without any.
KeylessOnlyIfInterrupted ==
  \A s \in Storage :
    backupStorage[s] # NoRow /\ RowsOf(verifyKeys, s) = {} =>
      Registering(s, {"clear", "save"}) \/ s \in interrupted

\* Of several registrations of a storage the last one wins.  A key somebody
\* was mailed was saved first, and still lets its storage in unless another
\* registration has saved a later key (or has cleared the keys and not come to
\* its own yet), or handshakes have issued as many newer keys as are kept.
MailedKeyWorks ==
  \A k \in Mails :
    taken[k] # {} =>
      /\ savedFor[k] \in Storage
      /\ \/ k \in KeysOf(verifyKeys, savedFor[k])
         \/ \E j \in Mails : j > k /\ savedFor[j] = savedFor[k]
         \/ Registering(savedFor[k], {"save"}) \/ savedFor[k] \in interrupted
         \/ Cardinality({r \in RowsOf(verifyKeys, savedFor[k]) : r.key > k})
              >= REVOKE_VERIFY_KEY_AFTER

\* A key that a registration has saved is mailed, unless the process ends or
\* the template cannot be read: the registration goes on to emit the event,
\* and the event to a provider that works.
SavedKeyIsMailed ==
  \A k \in Mails :
    savedFor[k] # NoRow /\ HasReliable ~>
      mail[k].state \in {"sent", "lost"} \/ (mail[k].state = "failed" /\ mail[k].try = 0)

============================================================================
