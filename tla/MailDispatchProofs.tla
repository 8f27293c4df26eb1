-------------------------- MODULE MailDispatchProofs --------------------------
(* What TLAPS proves of MailDispatch, for any mails and any order of        *)
(* providers.                                                               *)
EXTENDS MailDispatch, SequenceTheorems, FiniteSetTheorems, TLAPS

\* Of n places each has its turn: the turn of a place is one to n, and no two
\* places have the same.
LEMMA EachTurnComes ==
  ASSUME NEW n \in Nat, NEW K \in SUBSET (1..n), NEW j \in 1..Cardinality(K)
  PROVE  \E i \in K : Cardinality(K \cap 1..i) = j
<1> DEFINE turn == [i \in K |-> Cardinality(K \cap 1..i)]
<1>1. /\ IsFiniteSet(K) /\ Cardinality(K) \in Nat
      /\ \A i \in K : IsFiniteSet(K \cap 1..i) /\ Cardinality(K \cap 1..i) \in Nat
  <2>1. IsFiniteSet(1..n)
    BY FS_Interval
  <2>2. \A T \in SUBSET (1..n) : IsFiniteSet(T)
    BY <2>1, FS_Subset
  <2>3. \A i \in K : K \cap 1..i \in SUBSET (1..n)
    OBVIOUS
  <2> QED BY <2>2, <2>3, FS_CardinalityType
<1>2. ASSUME NEW i \in K PROVE Cardinality(K \cap 1..i) \in 1..Cardinality(K)
  <2>1. Cardinality(K \cap 1..i) <= Cardinality(K)
    BY <1>1, FS_Subset
  <2>2. i \in K \cap 1..i
    OBVIOUS
  <2>3. Cardinality(K \cap 1..i) # 0
    BY <1>1, <2>2, FS_EmptySet
  <2> QED BY <1>1, <2>1, <2>3
<1>3. ASSUME NEW i \in K, NEW k \in K, i < k
      PROVE  Cardinality(K \cap 1..i) < Cardinality(K \cap 1..k)
  <2>1. K \cap 1..i \subseteq K \cap 1..k /\ k \in K \cap 1..k /\ k \notin K \cap 1..i
    BY <1>3
  <2>2. K \cap 1..i # K \cap 1..k
    BY <2>1
  <2> QED BY <1>1, <2>1, <2>2, FS_Subset
<1>4. turn \in Injection(K, 1..Cardinality(K))
  <2>1. turn \in [K -> 1..Cardinality(K)]
    BY <1>2
  <2>2. IsInjective(turn)
    BY <1>1, <1>3 DEF IsInjective
  <2> QED BY <2>1, <2>2 DEF Injection
<1>5. IsFiniteSet(1..Cardinality(K)) /\ Cardinality(1..Cardinality(K)) = Cardinality(K)
  BY <1>1, FS_Interval
<1>6. turn \in Surjection(K, 1..Cardinality(K))
  BY <1>1, <1>4, <1>5, FS_Injection
<1> QED BY <1>6 DEF Surjection

\* ParseFallbackOrder leaves names of providers only, whatever was configured.
LEMMA ParsedNames ==
  ASSUME NEW Names, NEW config \in Seq(Names)
  PROVE  ParseFallbackOrder(config) \in Seq(EmailProvider)
<1>1. Known(config) \in SUBSET (1..Len(config)) /\ Len(config) \in Nat
  BY DEF Known
<1>2. ASSUME NEW j \in 1..Cardinality(Known(config))
      PROVE  ParseFallbackOrder(config)[j] \in EmailProvider
  <2>1. \E i \in Known(config) : Cardinality(Known(config) \cap 1..i) = j
    BY <1>1, EachTurnComes
  <2> DEFINE p == CHOOSE i \in Known(config) : Cardinality(Known(config) \cap 1..i) = j
  <2>2. p \in Known(config)
    BY <2>1
  <2>3. ParseFallbackOrder(config)[j] = config[p]
    BY DEF ParseFallbackOrder
  <2> QED BY <2>2, <2>3 DEF Known
<1>3. Cardinality(Known(config)) \in Nat
  <2>1. IsFiniteSet(1..Len(config))
    BY <1>1, FS_Interval
  <2>2. IsFiniteSet(Known(config))
    BY <1>1, <2>1, FS_Subset
  <2> QED BY <2>2, FS_CardinalityType
<1>4. DOMAIN ParseFallbackOrder(config) = 1..Cardinality(Known(config))
      /\ ParseFallbackOrder(config) = [j \in 1..Cardinality(Known(config)) |-> ParseFallbackOrder(config)[j]]
  BY DEF ParseFallbackOrder
<1> HIDE DEF ParseFallbackOrder
<1>5. ParseFallbackOrder(config) \in [1..Cardinality(Known(config)) -> EmailProvider]
  BY <1>2, <1>4
<1> QED BY <1>3, <1>5, SeqDef

\* The order configured at the start is one of providers.
LEMMA KnownProviders == MailInit => fallbackOrder \in Seq(EmailProvider)
<1> SUFFICES ASSUME MailInit PROVE fallbackOrder \in Seq(EmailProvider)
  OBVIOUS
<1>1. PICK config \in Configurations :
        fallbackOrder = ParseFallbackOrder(IF config = <<>> THEN DefaultOrder ELSE config)
  BY DEF MailInit
<1>2. config \in Seq(STRING) /\ DefaultOrder \in Seq(EmailProvider)
  BY ConfigurationsAssumption DEF DefaultOrder, EmailProvider
<1>3. CASE config = <<>>
  BY <1>1, <1>2, <1>3, ParsedNames
<1>4. CASE config # <<>>
  BY <1>1, <1>2, <1>4, ParsedNames
<1> QED BY <1>3, <1>4

\* The errors of a mail are those of the first providers of the order, one of
\* each try that is over and was not reported sent.
ErrorsInOrder ==
  \A m \in Mails :
    /\ \A i \in 1..Len(mail[m].errors) : mail[m].errors[i] = fallbackOrder[i]
    /\ mail[m].state \in {"none", "template"} => mail[m].try = 0
    /\ \/ Len(mail[m].errors) = mail[m].try
       \/ Len(mail[m].errors) = mail[m].try - 1 /\ mail[m].state \in {"waiting", "sent", "lost"}
    /\ mail[m].state = "waiting" => Len(mail[m].errors) = mail[m].try - 1
    /\ mail[m].state = "failed" => mail[m].try = 0 \/ mail[m].try = Len(fallbackOrder)

MailInv == MailTypeOK /\ ErrorsInOrder

LEMMA MailInvInit == MailInit => MailInv
<1> SUFFICES ASSUME MailInit PROVE MailInv
  OBVIOUS
<1>1. <<>> \in Seq(EmailProvider) /\ Len(<<>>) = 0 /\ Len(fallbackOrder) \in Nat
  BY EmptySeq, LenProperties, KnownProviders
<1>2. \A m \in Mails : mail[m] = [state |-> "none", try |-> 0, errors |-> <<>>]
  BY DEF MailInit
<1>3. MailTypeOK
  BY <1>1, <1>2, KnownProviders DEF MailInit, MailTypeOK, Mail, MailStates
<1>4. ErrorsInOrder
  <2> SUFFICES ASSUME NEW m \in Mails
               PROVE  /\ mail[m].state = "none" /\ mail[m].try = 0 /\ Len(mail[m].errors) = 0
                      /\ 1..Len(mail[m].errors) = {}
    BY DEF ErrorsInOrder
  <2>1. mail[m].state = "none" /\ mail[m].try = 0 /\ mail[m].errors = <<>>
    BY <1>2
  <2>2. Len(mail[m].errors) = 0
    BY <1>1, <2>1, Zenon
  <2>3. 1..0 = {}
    OBVIOUS
  <2> QED BY <2>1, <2>2, <2>3, Zenon
<1> QED BY <1>3, <1>4 DEF MailInv

\* A step that only takes one mail from one state to another.
LEMMA GoesStep ==
  ASSUME MailInv, NEW m \in Mails, NEW from, NEW to \in MailStates, Goes(m, from, to),
         UNCHANGED fallbackOrder
  PROVE  /\ mail' \in [Mails -> Mail]
         /\ mail[m].state = from
         /\ mail'[m] = [mail[m] EXCEPT !.state = to]
         /\ mail'[m].state = to /\ mail'[m].try = mail[m].try
         /\ mail'[m].errors = mail[m].errors
         /\ \A n \in Mails : n # m => mail'[n] = mail[n]
BY DEF MailInv, MailTypeOK, Goes, Mail

LEMMA MailInvStep == MailInv /\ [MailNext]_mailVars => MailInv'
<1> SUFFICES ASSUME MailInv, [MailNext]_mailVars PROVE MailInv'
  OBVIOUS
<1>t. /\ fallbackOrder \in Seq(EmailProvider) /\ Len(fallbackOrder) \in Nat
      /\ mail \in [Mails -> Mail]
      /\ \A m \in Mails : /\ mail[m].errors \in Seq(EmailProvider) /\ Len(mail[m].errors) \in Nat
                          /\ mail[m].try \in Nat /\ mail[m].try <= Len(fallbackOrder)
  BY LenProperties DEF MailInv, MailTypeOK, Mail
<1>1. ASSUME NEW m \in Mails,
             StartMail(m) \/ FillTemplate(m) \/ FailTemplate(m) \/ GiveUp(m) \/ ProviderSucceeds(m)
      PROVE  MailInv'
  <2>1. PICK from \in MailStates, to \in MailStates :
          /\ Goes(m, from, to) /\ UNCHANGED <<fallbackOrder, asked, taken>>
          /\ <<from, to>> \in {<<"none", "template">>, <<"template", "next">>, <<"template", "failed">>,
                               <<"next", "failed">>, <<"waiting", "sent">>}
          /\ from = "next" => NoneLeft(m)
    BY <1>1 DEF StartMail, FillTemplate, FailTemplate, GiveUp, ProviderSucceeds, MailStates
  <2>2. /\ mail' \in [Mails -> Mail] /\ mail[m].state = from
        /\ mail'[m].state = to /\ mail'[m].try = mail[m].try
        /\ mail'[m].errors = mail[m].errors
        /\ \A n \in Mails : n # m => mail'[n] = mail[n]
    BY <2>1, GoesStep
  <2>3. to # "waiting" /\ (from = "next" => mail[m].try = Len(fallbackOrder))
    BY <2>1 DEF NoneLeft
  <2>4. MailTypeOK'
    BY <2>1, <2>2, <2>3, <1>t DEF MailInv, MailTypeOK
  <2>5. ErrorsInOrder'
    BY <2>1, <2>2, <2>3, <1>t DEF MailInv, ErrorsInOrder
  <2> QED BY <2>4, <2>5 DEF MailInv
<1>2. ASSUME NEW m \in Mails, TryProvider(m) PROVE MailInv'
  <2>1. /\ mail[m].state = "next" /\ mail[m].try < Len(fallbackOrder)
        /\ mail' = [mail EXCEPT ![m].state = "waiting", ![m].try = @ + 1]
        /\ asked' = [asked EXCEPT ![m] = @ \cup {mail[m].try + 1}]
        /\ UNCHANGED <<fallbackOrder, taken>>
    BY <1>2, <1>t DEF TryProvider, NoneLeft
  <2>2. /\ mail' \in [Mails -> Mail]
        /\ mail'[m].state = "waiting" /\ mail'[m].try = mail[m].try + 1
        /\ mail'[m].errors = mail[m].errors
        /\ \A n \in Mails : n # m => mail'[n] = mail[n]
    <3> DEFINE new == [mail[m] EXCEPT !.state = "waiting", !.try = mail[m].try + 1]
    <3>1. mail[m] \in Mail /\ mail[m].try + 1 \in Nat
      BY <1>t
    <3>2. /\ new \in Mail /\ new.state = "waiting" /\ new.try = mail[m].try + 1
          /\ new.errors = mail[m].errors
      BY <3>1 DEF Mail, MailStates
    <3>3. mail' = [mail EXCEPT ![m] = new]
      BY <2>1, <1>t
    <3> HIDE DEF new
    <3> QED BY <3>2, <3>3, <1>t
  <2>3. MailTypeOK'
    BY <2>1, <2>2, <1>t DEF MailInv, MailTypeOK
  <2>4. ErrorsInOrder'
    BY <2>1, <2>2, <1>t DEF MailInv, ErrorsInOrder
  <2> QED BY <2>3, <2>4 DEF MailInv
<1>3. ASSUME NEW m \in Mails, ProviderFails(m) PROVE MailInv'
  <2> DEFINE old == mail[m].errors
             failed == fallbackOrder[mail[m].try]
  <2>1. /\ mail[m].state = "waiting"
        /\ mail' = [mail EXCEPT ![m].state = "next", ![m].errors = Append(@, failed)]
        /\ UNCHANGED <<fallbackOrder, asked, taken>>
    BY <1>3 DEF ProviderFails
  <2>2. mail[m].try \in 1..Len(fallbackOrder) /\ Len(old) = mail[m].try - 1
    BY <2>1, <1>t DEF MailInv, MailTypeOK, ErrorsInOrder
  <2>3. failed \in EmailProvider
    BY <2>2, <1>t, ElementOfSeq
  <2>4. /\ Append(old, failed) \in Seq(EmailProvider)
        /\ Len(Append(old, failed)) = mail[m].try
        /\ \A i \in 1..Len(old) : Append(old, failed)[i] = old[i]
        /\ Append(old, failed)[mail[m].try] = failed
    BY <2>2, <2>3, <1>t, AppendProperties
  <2>5. /\ mail' \in [Mails -> Mail]
        /\ mail'[m].state = "next" /\ mail'[m].try = mail[m].try
        /\ mail'[m].errors = Append(old, failed)
        /\ \A n \in Mails : n # m => mail'[n] = mail[n]
    BY <2>1, <2>4, <1>t DEF Mail, MailStates
  <2>6. MailTypeOK'
    BY <2>1, <2>5, <1>t DEF MailInv, MailTypeOK
  <2>7. \A i \in 1..Len(mail'[m].errors) : mail'[m].errors[i] = fallbackOrder'[i]
    <3> SUFFICES ASSUME NEW i \in 1..mail[m].try PROVE Append(old, failed)[i] = fallbackOrder[i]
      BY <2>1, <2>4, <2>5
    <3>1. i = mail[m].try \/ i \in 1..Len(old)
      BY <2>2, <1>t
    <3> QED BY <3>1, <2>4 DEF MailInv, ErrorsInOrder
  <2>8. ErrorsInOrder'
    BY <2>1, <2>4, <2>5, <2>7 DEF MailInv, ErrorsInOrder
  <2> QED BY <2>6, <2>8 DEF MailInv
<1>4. ASSUME NEW m \in Mails, NEW i \in asked[m], ProviderTakes(m, i) \/ ProviderDrops(m, i)
      PROVE  MailInv'
  <2>1. /\ UNCHANGED <<fallbackOrder, mail>>
        /\ asked' = [asked EXCEPT ![m] = @ \ {i}]
        /\ taken' = taken \/ taken' = [taken EXCEPT ![m] = @ \cup {i}]
    BY <1>4 DEF ProviderTakes, ProviderDrops
  <2>2. MailTypeOK'
    BY <2>1 DEF MailInv, MailTypeOK
  <2>3. ErrorsInOrder'
    BY <2>1 DEF MailInv, ErrorsInOrder
  <2> QED BY <2>2, <2>3 DEF MailInv
<1>5. CASE MailCrash
  <2>1. UNCHANGED <<fallbackOrder, asked, taken>>
    BY <1>5 DEF MailCrash
  <2>2. mail' \in [Mails -> Mail] /\ \A m \in Mails :
          /\ mail'[m].try = mail[m].try /\ mail'[m].errors = mail[m].errors
          /\ mail'[m].state = "lost" \/ mail'[m] = mail[m]
    BY <1>5, <1>t DEF MailCrash, LoseMails, Mail, MailStates
  <2>3. MailTypeOK'
    BY <2>1, <2>2 DEF MailInv, MailTypeOK
  <2>4. ErrorsInOrder'
    BY <2>1, <2>2 DEF MailInv, ErrorsInOrder
  <2> QED BY <2>3, <2>4 DEF MailInv
<1>6. CASE UNCHANGED mailVars
  BY <1>6 DEF MailInv, MailTypeOK, ErrorsInOrder, mailVars
<1> QED
  BY <1>1, <1>2, <1>3, <1>4, <1>5, <1>6
  DEF MailNext, Done, Serve, MailStep, ProviderAnswers, ProviderHandles

\* Every mail keeps its type and only providers of the order are tried
\* (MailTypeOK), whatever the configured names were.
THEOREM MailTypeCorrect == MailSpec => []MailTypeOK
<1>1. MailInv => MailTypeOK
  BY DEF MailInv
<1> QED BY <1>1, MailInvInit, MailInvStep, PTL DEF MailSpec

LEMMA GivesUpLast == MailInv => GivesUpAfterAll
<1> SUFFICES ASSUME MailInv, NEW m \in Mails, mail[m].state = "failed", mail[m].try # 0
             PROVE  mail[m].errors = fallbackOrder
  BY DEF GivesUpAfterAll
<1>1. Len(mail[m].errors) = Len(fallbackOrder)
  BY DEF MailInv, ErrorsInOrder
<1>2. /\ mail[m].errors \in Seq(EmailProvider) /\ fallbackOrder \in Seq(EmailProvider)
      /\ \A i \in 1..Len(mail[m].errors) : mail[m].errors[i] = fallbackOrder[i]
  BY DEF MailInv, MailTypeOK, Mail, ErrorsInOrder
<1> QED BY <1>1, <1>2, SeqEqual

\* A mail fails only when every provider of the order has failed, in its order,
\* or its template cannot be read (GivesUpAfterAll), for orders of any length.
THEOREM AllProvidersTried == MailSpec => []GivesUpAfterAll
BY MailInvInit, MailInvStep, GivesUpLast, PTL DEF MailSpec

LEMMA CopiesExplained == MailInv => ExtraCopiesFollowErrors
<1> SUFFICES ASSUME MailInv, NEW m \in Mails, NEW i \in asked[m] \cup taken[m], i # mail[m].try
             PROVE  i \in 1..Len(mail[m].errors) /\ mail[m].errors[i] = fallbackOrder[i]
  BY DEF ExtraCopiesFollowErrors
<1>1. i \in 1..mail[m].try /\ mail[m].try \in Nat
  BY DEF MailInv, MailTypeOK, Mail
<1>2. Len(mail[m].errors) = mail[m].try \/ Len(mail[m].errors) = mail[m].try - 1
  BY DEF MailInv, ErrorsInOrder
<1>3. i \in 1..Len(mail[m].errors)
  BY <1>1, <1>2
<1> QED BY <1>3 DEF MailInv, ErrorsInOrder

\* Whatever providers take late or answer wrongly, a second copy of a mail is
\* only ever sent after a reported error (ExtraCopiesFollowErrors).
THEOREM CopiesFollowErrors == MailSpec => []ExtraCopiesFollowErrors
BY MailInvInit, MailInvStep, CopiesExplained, PTL DEF MailSpec

==============================================================================
