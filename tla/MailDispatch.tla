---------------------------- MODULE MailDispatch ----------------------------
(* The dispatch of mails: each sendEmail event fills in a template and is   *)
(* then sent through the first of the configured providers that takes it.   *)
(* A provider is asked over the network: it may take the mail and still     *)
(* answer with an error, or take it after the bridge has given it up.       *)
EXTENDS Naturals, FiniteSets, Sequences

CONSTANTS
  Mails,          \* the events that may be emitted
  Configurations, \* values of EMAIL_PROVIDER_FALLBACK_ORDER, split at commas;
                  \*   <<>> when it is not set
  Reliable        \* the providers that take every mail and say so

EmailProvider == {"Brevo", "SendGrid", "Mailtrap"}

DefaultOrder == <<"Mailtrap", "Brevo", "SendGrid">>

ASSUME ConfigurationsAssumption == Configurations \subseteq Seq(STRING)

ASSUME ReliableAssumption == Reliable \subseteq EmailProvider

VARIABLES
  fallbackOrder,  \* the providers to try, in order
  mail,           \* the sends, one for each event
  asked, taken    \* of each mail: the tries whose request a provider may still
                  \*   take, and those it has taken

mailVars == <<fallbackOrder, mail, asked, taken>>

----------------------------------------------------------------------------

MailStates == {"none", "template", "next", "waiting", "sent", "failed", "lost"}

\* The place of the provider being tried, and the providers that failed.
Mail == [state : MailStates, try : Nat, errors : Seq(EmailProvider)]

\* Deviation: unknown names are kept.
ParseUnfiltered(config) == config

\* The places of the names that are known.
Known(config) == {i \in DOMAIN config : config[i] \in EmailProvider}

\* Unknown names are dropped, which may leave none; repeated ones are kept.
ParseFallbackOrder(config) ==
  [j \in 1..Cardinality(Known(config)) |->
     config[CHOOSE i \in Known(config) : Cardinality(Known(config) \cap 1..i) = j]]

MailInit ==
  /\ \E config \in Configurations :
       fallbackOrder = ParseFallbackOrder(IF config = <<>> THEN DefaultOrder ELSE config)
  /\ mail = [m \in Mails |-> [state |-> "none", try |-> 0, errors |-> <<>>]]
  /\ asked = [m \in Mails |-> {}]
  /\ taken = [m \in Mails |-> {}]

Goes(m, from, to) ==
  /\ mail[m].state = from
  /\ mail' = [mail EXCEPT ![m].state = to]

\* The event is emitted, and the template read from disk.
StartMail(m) ==
  /\ Goes(m, "none", "template")
  /\ UNCHANGED <<fallbackOrder, asked, taken>>

FillTemplate(m) ==
  /\ Goes(m, "template", "next")
  /\ UNCHANGED <<fallbackOrder, asked, taken>>

FailTemplate(m) ==
  /\ Goes(m, "template", "failed")
  /\ UNCHANGED <<fallbackOrder, asked, taken>>

\* Deviation: the loop stops before the last provider.
StopsEarly(m) == mail[m].try + 1 >= Len(fallbackOrder)

\* The loop over the providers is through.
NoneLeft(m) == mail[m].try = Len(fallbackOrder)

\* One turn of the loop: the next provider is sent the mail.
TryProvider(m) ==
  /\ mail[m].state = "next"
  /\ ~NoneLeft(m)
  /\ mail' = [mail EXCEPT ![m].state = "waiting", ![m].try = @ + 1]
  /\ asked' = [asked EXCEPT ![m] = @ \cup {mail[m].try + 1}]
  /\ UNCHANGED <<fallbackOrder, taken>>

\* Deviation: the loop goes on after a success.
NextAfterSuccess(m) ==
  /\ mail[m].try \in taken[m]
  /\ Goes(m, "waiting", "next")
  /\ UNCHANGED <<fallbackOrder, asked, taken>>

\* A provider confirms only what it has taken.
ProviderSucceeds(m) ==
  /\ mail[m].try \in taken[m]
  /\ Goes(m, "waiting", "sent")
  /\ UNCHANGED <<fallbackOrder, asked, taken>>

\* An error answer, a timeout or a lost connection; what the request does at
\* the provider is unknown.
ProviderFails(m) ==
  /\ mail[m].state = "waiting"
  /\ fallbackOrder[mail[m].try] \notin Reliable
  /\ mail' = [mail EXCEPT ![m].state = "next",
                          ![m].errors = Append(@, fallbackOrder[mail[m].try])]
  /\ UNCHANGED <<fallbackOrder, asked, taken>>

\* Error('Failed to send email through all available providers')
GiveUp(m) ==
  /\ NoneLeft(m)
  /\ Goes(m, "next", "failed")
  /\ UNCHANGED <<fallbackOrder, asked, taken>>

ProviderTakes(m, i) ==
  /\ i \in asked[m]
  /\ asked' = [asked EXCEPT ![m] = @ \ {i}]
  /\ taken' = [taken EXCEPT ![m] = @ \cup {i}]
  /\ UNCHANGED <<fallbackOrder, mail>>

ProviderDrops(m, i) ==
  /\ i \in asked[m]
  /\ fallbackOrder[i] \notin Reliable
  /\ asked' = [asked EXCEPT ![m] = @ \ {i}]
  /\ UNCHANGED <<fallbackOrder, mail, taken>>

Sending(m) == mail[m].state \in {"template", "next", "waiting"}

\* Nothing keeps a mail but the process that sends it.
LoseMails ==
  mail' = [m \in Mails |-> IF Sending(m) THEN [mail[m] EXCEPT !.state = "lost"] ELSE mail[m]]

MailCrash ==
  /\ \E m \in Mails : Sending(m)
  /\ LoseMails
  /\ UNCHANGED <<fallbackOrder, asked, taken>>

\* The steps of the bridge, and those of the providers.
MailStep(m) ==
  FillTemplate(m) \/ FailTemplate(m) \/ TryProvider(m) \/ GiveUp(m)

ProviderAnswers(m) == ProviderSucceeds(m) \/ ProviderFails(m)

ProviderHandles(m) == \E i \in asked[m] : ProviderTakes(m, i) \/ ProviderDrops(m, i)

Serve(m) == MailStep(m) \/ ProviderAnswers(m) \/ ProviderHandles(m)

\* Every event was emitted and has ended.
Done ==
  /\ \A m \in Mails : mail[m].state \in {"sent", "failed", "lost"} /\ asked[m] = {}
  /\ UNCHANGED mailVars

MailNext ==
  \/ \E m \in Mails : StartMail(m) \/ Serve(m)
  \/ MailCrash
  \/ Done

MailSpec == MailInit /\ [][MailNext]_mailVars

\* Node runs every continuation.  That each request to a provider is handled and
\* answered, or its connection fails, in the end is an assumption: no timeout is
\* set.
MailFairness ==
  \A m \in Mails :
    WF_mailVars(MailStep(m)) /\ WF_mailVars(ProviderAnswers(m)) /\ WF_mailVars(ProviderHandles(m))

FairMailSpec == MailSpec /\ MailFairness

----------------------------------------------------------------------------
(* Properties.                                                              *)

\* The type invariant: a mail that is being tried is with a provider of the
\* order, and only providers that were tried are asked or have taken it.
MailTypeOK ==
  /\ fallbackOrder \in Seq(EmailProvider)
  /\ mail \in [Mails -> Mail]
  /\ asked \in [Mails -> SUBSET Nat] /\ taken \in [Mails -> SUBSET Nat]
  /\ \A m \in Mails :
       /\ mail[m].try <= Len(fallbackOrder)
       /\ mail[m].state = "waiting" => mail[m].try > 0
       /\ asked[m] \cup taken[m] \subseteq 1..mail[m].try

\* sendWithFallback throws only after every provider of the order has failed,
\* in this order; the only other way to fail is the template.
GivesUpAfterAll ==
  \A m \in Mails :
    mail[m].state = "failed" =>
      mail[m].errors = fallbackOrder \/ mail[m].try = 0

\* A mail is sent again only after an error: any copy but the last tried one,
\* also one a provider takes long after, was tried by a provider that has
\* reported an error, and no copy follows one that was reported sent.
ExtraCopiesFollowErrors ==
  \A m \in Mails : \A i \in asked[m] \cup taken[m] :
    \/ i = mail[m].try
    \/ i \in 1..Len(mail[m].errors) /\ mail[m].errors[i] = fallbackOrder[i]

HasReliable == \E i \in 1..Len(fallbackOrder) : fallbackOrder[i] \in Reliable

\* One provider of the order that works is enough: a mail with its template
\* filled in is sent unless the process ends.
ReliableIsEnough ==
  \A m \in Mails :
    mail[m].state = "next" /\ HasReliable ~> mail[m].state \in {"sent", "lost"}

============================================================================
