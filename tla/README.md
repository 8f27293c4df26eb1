# Models of the custody keys bridge

TLA+ modules, TLC configurations and TLAPS proofs about the custody keys
bridge, a NestJS microservice. The bridge stands between the custody solution
and a *private server* that generates keys and signs with them. Part of each
vault key is not kept by the private server: the bridge cuts it into slices and
stores one slice in each *backup storage* (SCM) of the customer, and fetches the
slices back when a transaction is to be signed. Backup storages let themselves
in by *handshakes*.

Paths below are relative to `src/src/`; CM stands for
`backup-storage-integration/backup-storage-communication-manager/backup-storage-communication-manager.service.ts`.

## 1. Inventory

| Component | State | Operations | Talks to |
|---|---|---|---|
| Handshake and rotation (CM, `backup-storage-integration.rmq.controller.ts`) | tables `backup_storage_verify_key`, `backup_storage_active_session`, url of `backup_storage` | `handshakeWithBackupStorage` | backup storages (encrypted RMQ message), MySQL |
| Registration (`backup-storage-integration.service.ts`) | row of `backup_storage`, its verify keys | `generateScm` | custody solution, MySQL, mail |
| Requests to a backup storage (same file, and CM 224-249) | the session being tried | `storeKeyToApiApproval`, `getKeyFromApiApproval` | HTTP server of a backup storage |
| Key generation (`private-server/`) | the call's answer and its stores in flight | `generateKeyPair` | private server (RMQ), requests |
| Split and join (`private-server.service.ts` 28-54, `transactions.service.ts` 146-162) | the loop's remaining key, the parts | `splitKeyForBackupStorages`, end of `getKeyFromApiApprovalForSigning` | - |
| Signing (`transactions/`) | the fetches of each signer | six `...ThroughBridge` methods | requests, private server (RMQ) |
| Mail (`mail/`) | the provider being tried, the errors so far | `sendEmail`, `sendWithFallback` | three mail providers |
| Active sessions (`getBackupStoragesInfo`) | none: reads the rows and sessions above | one query, filtered by expiry and sorted | MySQL |
| Tenancy contexts (`libs/tenancy/`) | dependency injection sub-tree of each subdomain | `attach`, `getByRequest` | NestJS |
| Pipes, filters, queues, configuration | none that changes | | |

How they interact: handshakes write the sessions that key generation and
signing read; `generateScm` writes the rows handshakes lock, and emits the event
that starts a mail; generation and signing send requests with the url and the
sessions they read; generation asks the private
server for a key and, by an event, for its rollback. All calls run concurrently
in one Node process (and in every other instance of the bridge); they interleave
at each `await`.

What is hard, and what makes each part correct:

* **Handshakes of one storage at once.** A storage that retries, or two of its
  processes, send the same handshake twice. Both must end up with a key and a
  session that are valid when the answers leave; nothing in use may be dropped
  before older things are, and the tables must keep to their limits. What
  protects this is the `FOR UPDATE` on the verify keys; it also has to protect
  the sessions, which are read without a lock.
* **Registrations of one storage at once.** Each clears the keys, saves its own
  and mails it, in statements that no transaction joins. The last one should
  win, and the storage should not be left without a key.
* **Lost answers.** A storage that does not get the answer can only come back
  with an old verify key, so rotation must keep the last few.
* **Locks on no rows.** Between the delete and the insert of `generateScm` there
  is no verify key to lock; two transactions can then hold the same gap and
  block each other's insert.
* **Time.** The expiry is computed when the call arrives and stored after it has
  waited for the lock, and sessions are ranked by expiry. Two clocks are mixed:
  the bridge computes `expiresAt` and the age of a row, the database dates rows
  and answers `NOW()`.
* **Sessions in use.** The url and the sessions are read once and tried one
  after the other, while handshakes change both; the storage, on its side, knows
  only the sessions whose answers it got.
* **Tenants.** Ids of storages are only unique within a corporate.
* **Generation with slow or failing storages.** `Promise.all` rejects at the
  first failure while other stores go on; the rollback is an event that may be
  lost; a second call for the same key is answered `alreadyGenerated` at any
  moment, also half-way through the first.
* **Signing with part of the storages.** No slice may be left out silently, and
  the error must name the storages the customer has to reconnect.
* **Generation and signing of one key.** A caller that was answered
  `alreadyGenerated` may ask to sign while the slices are still being stored;
  storages without a row are left out of a signature without an error.
* **Mails.** A provider may take a mail and still report an error. Nothing waits
  for a mail, and nothing but the process that sends it knows of it.
* **Rounding.** Slices must be an even partition of the key and be joined in the
  order they were cut in, whatever order they arrive in.

`PROJECT.json` lists each hazard at its line with the properties that cover it.

## 2. Modules

| Module | Models | Checked by |
|---|---|---|
| `Handshake` | handshakes, registration, the three tables, row locks, the two clocks | `MCHandshake` with three configurations, `HandshakeProofs` |
| `KeyRing` | abstract: what a storage is promised about its keys and sessions | refined by `Handshake` (`ImplementsKeyRing`) |
| `ScmRequests` | one request to one storage over its sessions | part of `KeyGeneration`, `Signing` and `SessionUse`, `ScmRequestsProofs` |
| `KeyGeneration` | `generateKeyPair`, private server and SCMs around it | part of `KeyLifecycle`, `KeyLifecycleProofs` |
| `Signing` | a request to sign | `MCSigning` with three configurations, `SigningProofs` |
| `KeySplit` | the split loop, fetch in any order, sort and join | `KeySplit.cfg`, `KeySplitProofs` |
| `MailDispatch` | `sendEmail` and the fallback over the providers | `MCMailDispatch`, `MailDispatchProofs` |
| `Onboarding` | composes `Handshake` (several registrations) with `MailDispatch` | `MCOnboarding`, `OnboardingProofs` |
| `SessionUse` | composes `Handshake` with the requests of `ScmRequests` and the processes of a storage | `MCSessionUse` with two configurations, `SessionUseProofs` |
| `KeyLifecycle` | composes `KeyGeneration`, `Signing` and the rows of `backup_storage` | `MCKeyLifecycle`, `KeyLifecycleProofs` |

A definition whose comment begins with "Deviation" is not part of any
specification: it is a plausible mistake in the definition after it, which the
properties are checked to notice.

### Handshake

State: `backupStorage` (the url of each row, `NullUrl` for SQL NULL, `NoRow`),
`verifyKeys` and `sessions` (sets of rows), and for each call in progress a
program counter and a record of its local variables. Keys are numbers in the
order they were stored: uuids never repeat, and no step looks inside one.

An action is one database round trip:

| Action | Code |
|---|---|
| `BeginHandshake` | the message arrives, expiry computed (CM 158-159) |
| `FindVerifyKey`, `RefuseHandshake` | `findOne`, `ForbiddenException` (CM 161-167) |
| `UpdateUrl` | update outside the transaction (CM 172-175) |
| `LockVerifyKeys` | `SELECT ... FOR UPDATE` and the read of the sessions (CM 178-193) |
| `CommitHandshake` | both `handleSaving...` and the commit (CM 195-213) |
| `Answer` | return (CM 215-221) |
| `UpsertBackupStorage`, `ClearVerifyKeys`, `SaveVerifyKey`, `EmitEmail` | the steps of `generateScm` |
| `FailHandshake`, `FailRegistration`, `Crash` | a statement fails; the process dies |
| `DeadlockVictim` | InnoDB rolls back one of two transactions that wait for each other |

Reading the sessions is one action with taking the lock, and the writes one
action with the commit: nobody else sees an open transaction's writes, and while
it holds the lock nobody else can change the rows it reads. This rests on the
database behaving as InnoDB does: the plain read after the locking read sees
what was committed before it (the read view is made by the first plain read),
locks on an empty set of rows are gap locks that only exclude inserts, and
deletes wait for row locks. `MayLock` and `MayInsert` state this in one line
each. TypeORM's `upsert` is taken to be `INSERT ... ON DUPLICATE KEY UPDATE` of
the columns it was given.

Rows created at the same tick of the model's clock are still ordered, as the
column counts microseconds (`Precedes`); rows with one expiry are not, as
`ORDER BY` promises nothing about ties.

`now` is the clock of the bridge and `NOW` that of the database, ahead of it by
`Skew` (behind, if negative): 1 in the run `handshake`, 0 in the others.

### ScmRequests, KeyGeneration, Signing

`ScmRequests` has no state of its own: a request is a record (sessions left,
state) and `AfterReply` is one turn of the loop in
`communicatingWithBackupStorageForKeyManagement`. Replies are classified by what
the code can tell apart: a value, an empty one, one that cannot be decrypted, an
error with the message 'file not found', with another one or without one, with a
message that is not a string or without a body (the `catch` block then throws a
TypeError itself), and no response.

`KeyGeneration` keeps, beside the calls, what is outside the repository: which
keys the private server has, the rollback events on their way, and the slices
each SCM has. Outside behaviour is as free as the code's use of it allows: an
SCM may store a slice at any moment after it was sent, answer late, twice tried
or never; events may be lost; the process may die at any step. What is assumed
is in the module's head comment. `leftBehind` is a history variable: the keys whose
rollback was lost, or that a failure before the `try` block left without one.

`Signing` follows each signer through the read of its storages, the concurrent
fetches and the join. The session counts are whatever `getBackupStoragesInfo`
could return; an id without a row is left out by the query, as in the code. What
was read for a signer stays in `info`, so that a rejection can be compared with it.

### MailDispatch

A mail is a record: where `sendEmail` is, the place of the provider being tried
and the errors so far (`sendWithFallback`). `asked` and `taken` are outside the
bridge: requests a provider may still take, at any time after it was sent them,
and those it has taken. `ProviderFails` may follow a request that was taken;
`ProviderSucceeds` may not precede it. Configured names that are unknown are
dropped, as `parseFallbackOrder` does. The branch for a missing Mailtrap token is left out: the token is required at start-up.

### Onboarding

Extends `Handshake` and `MailDispatch`. `MailKey` is one step of both: `emit`
calls the listener synchronously. A mail is named by the key it carries. A crash
ends calls and mails together, and loses the event of a registration that had
saved its key. Two history variables say for which storage a key was saved and
which storages had a registration interrupted.

### SessionUse

Extends `Handshake` with what a storage sees. `answers` are answers on their
way, `held` the sessions the process at each url was given, with the announced
expiry. `BeginUse` is `getBackupStoragesInfo`, `TrySession` one turn of the loop
with the session that expires last; the process at the url read answers if it
holds that session and cannot decrypt the request otherwise. Assumed of the
storage: it keeps a session until the announced expiry, and it answers a request
it cannot decrypt with a message (otherwise the loop ends there). The initial
state is a storage that was registered and has not shaken hands.

### KeyLifecycle

Extends `KeyGeneration` and instantiates `Signing`, with a key as the signer.
`rows` are the storages that are registered; both sides read them with the same
query (`FindsRows`). A request to sign names ids some call was answered with,
`confirmed` those whose generating call had succeeded when it arrived, `begun`
those whose slices were at least being stored by then. Assumed
of an SCM: it answers with a slice it has, and says 'file not found' only of one
it does not have.

### KeySplit

A slice is a range of positions, so that "every character exactly once, in
order" can be stated. One iteration of the loop is one step; fetching takes the
parts in any order.

## 3. Runs

| Run | Asks | Bounds |
|---|---|---|
| `handshake` | all safety properties of keys and sessions, with two clocks, and the refinement | one storage, two handshakes and one registration in progress, clock to 5, database 1 ahead, keys fresh for 1, sessions live for 5, calls take at most 1, limits 2, 4 keys |
| `handshake_live` | does every call end, does a handshake read and write its own storage only | two corporates with one id, two handshakes and one registration in progress, clock stands, 4 keys |
| `stale_key` | *finding*: does only a valid verify key succeed | one handshake, one registration |
| `key_split` | partition, balance, order | keys to 12 characters, 5 storages |
| `key_lifecycle` | is success durable, who rolls back what, what leaves half a key, is a failed store answered, is a key signed with as a whole, also by a signer that comes early | two calls for one key, two storages, two generated keys, one session each, one request to sign at a time, any number of times |
| `signing` | all slices or none, does the error name exactly what could not be reached, does every request end | two signers that share a storage and one without any, two sessions |
| `signing_errors`, `signing_404` | *findings* about two comments | three storages |
| `session_use` | is a held session used, is its holder reached, is the url that of a process with a session | two handshakes at once from two urls, one request, two answers on their way, two sessions, keys fresh for 1, sessions live for 2, clock to 2 |
| `session_announced` | *finding*: is a session used until the announced expiry | one url, keys fresh for 2 |
| `onboarding` | which of two registrations wins, is a storage ever without a key, is a saved key mailed | two registrations and one handshake in progress, limits 2 and 1, clock to 2, 3 keys, one provider |
| `mail_dispatch` | who gets a copy, when does a send fail, is one provider that works enough | two mails; default order, an unknown name, a repeated one, none left |

Why the bounds are enough: one storage suffices for everything but tenancy,
because no statement reads rows of two storages. Two handshakes are the most
that matter under the lock (a third waits like the second), and with a
registration they make the gap-lock deadlock. Limits of 2 let a key be kept and
one be dropped (the code has 3 and 3; the proofs hold for any); the clock of
`handshake` runs long enough for a key to age past freshness twice. Ending and
tenancy do not depend on the clock, so `handshake_live` lets it stand. One
session is enough in `key_lifecycle`: what a retry with another session leads to,
a slice that comes late or twice, an SCM there may do by itself, and
`KeyLifecycleProofs` covers any number. The bounds `MaxTime`, `MaxKeys`,
`MaxLatency`, `MaxKeyId` and `MaxAnswers` are the only ones and appear in guards of
`Tick`, `BeginHandshake`, `UpsertBackupStorage`, `PrivateServerGenerates`,
`PassTime` and `SendAnswer`. `MaxLatency` is more than a bound: `SessionsSpaced`,
`ExpiryRanksByAge`, `AnswersNewest` and `UrlIsServed` rely on calls that take less
than `FRESH_FOR + Skew` (five minutes in the code, which nothing enforces).

In `session_use` a session is only handed out again at the tick it was stored, so
the announced and the stored expiry are the same there; by how much they may
differ is `AnnouncedExpiry` in `handshake`, and what it leads to `session_announced`.

`AnsweredSessionIsActive` needs `2 * Skew + FRESH_FOR + 2 * MaxLatency <=
SESSION_LIFE`, and `handshake` runs it at the bound: with the values of the code
(5 and 60 minutes) the clock of the database may be ahead by almost half an hour.
`UrlIsServed` needs that more than one session is kept if handshakes overlap: with
a limit of one, the session of the process that wrote its url last may be the one
dropped. The code keeps three.

Deadlock is checked in every run. Where a model may rest, an action says so
(`Over`, `Quiet`, `Done`, `Rest`); `Handshake` never rests because calls can always
arrive or the clock tick until the bounds, and then calls that are refused can.

### Findings

* `stale_key`: the verify key is looked up before the transaction and not again
  under the lock. If `generateScm` replaces the storage's keys in between, a
  handshake with a revoked key still gets a new verify key and a session.
* `session_announced`: a handshake that hands out a stored session again announces
  the expiry it computed for a new one. The stored expiry is up to five minutes
  earlier, and the bridge stops using the session then, while the storage was
  told that it is valid. `HeldSessionIsActive` is what does hold.
* `signing_errors`: the comment over the handling of failed fetches says that
  errors other than SCMNotConnected "throw bad request"; the code throws a plain
  `Error`.
* `signing_404`: the comment in the loop over the sessions says a 404 means the
  key is not found; the code compares a message instead, so a 404 with another
  message is retried and ends as SCMNotConnected, and one whose message is not a
  string ends the loop with a TypeError.

## 4. Fairness

* `Handshake!FairSpec`: strong fairness of each call's own steps, failures
  excepted. Node runs every continuation whose promise has settled, and InnoDB
  queues lock requests, so a waiting call is not overtaken for ever; weak
  fairness would not do, as the lock is taken and released by others. New calls,
  failures, crashes and the clock are not fair.
* `KeyGeneration!FairSpec`, and `KeyLifecycle!FairLifecycleSpec` for the step that
  handles the outcome of the stores: weak fairness of the bridge's own steps
  only. Neither the private server nor an SCM need ever answer.
* `Signing!FairSpec`: the bridge's steps, and every SCM ends each request. The
  second is an assumption about the environment (no timeout is configured);
  without it `EveryRequestEnds` is false, since `allSettled` waits for all.
* `MailDispatch!MailFairness`: weak fairness of the bridge's steps, and every request
  to a provider is handled and ends with an answer or an error. The second is an
  assumption about the environment, as for `Signing`: the repository sets no timeout
  for these requests, and the loop waits for each. New mails, the template and
  crashes are not fair.
* `Onboarding!FairOnboardingSpec`: the same of mails in the composition, and the
  step from the save of a key to the event. Nothing else is fair.

## 5. Proofs

Every invariant, action property and refinement that a passing run checks is also a
theorem, for every value of the constants; what is left to TLC is liveness. A
component's theorems are in a module of their own (`ScmRequestsProofs` has only lemmas
about the loop over sessions, for generation and signing). All rest on the named
assumptions of the modules: limits are positive naturals, times naturals, markers
distinct from what they mark, and a configured order of providers a sequence of names.

Three hypotheses appear in theorems about time. Each is a relation between constants
that the run checking the property satisfies, and that holds of the values in the
code as long as no handshake takes minutes:

* `ShortCalls`: `MaxLatency < FRESH_FOR + Skew`. A handshake ends before the newest
  session goes stale. Sessions are ranked by an expiry that dates from the arrival
  of a call; a call that waited longer for the lock would store a session that
  expires before an older one, and the code has nothing that prevents it. Where
  a theorem does not need it, it does not assume it.
* `TwoSessions`: `MAX_NUMBER_OF_ACTIVE_SESSIONS >= 2` (the code has 3). With one, the
  session just announced is dropped by the next handshake.
* `LongLife`: `2 * Skew + FRESH_FOR + 2 * MaxLatency <= SESSION_LIFE`.

`HandshakeProofs`, for every number of storages, calls and keys:

* `TypeCorrect`: `TypeOK`, with one lemma for the step of each action.
* `LockIsEnough`: `LockProtects`. It is inductive relative to `TypeOK`: what an
  open transaction has read is still what the tables hold, because a commit and
  a registration wait for the other transactions of the storage, and two
  transactions are open on one storage only while both have read no key.
* `SessionsAreLimited`: `SessionLimit`. It is not inductive alone: that the list
  a transaction cuts is the list in the table is `LockProtects`, and that tables
  are finite and new numbers fresh is `RowsArePast`. The counting is in two
  lemmas about adding one row to the rows kept.
* `KeysAreRetained`, `FreshKeyIsReused` and `StoragesAreSeparate`: `KeyRetention`,
  `KeyReuse` and `OwnStorageOnly`, action properties from the same invariant. What
  a commit may do to each table is said once (`ReusesVerifyKey` or
  `IssuesVerifyKey`, `ReusesSession` or `IssuesSession`). The last needs
  `OwnCorporate` too: a call that has found its storage found one of its corporate.
* `UrlsAreKept`: `SessionsHaveUrl`, from `UrlsInOrder`: a call that has found its
  storage found a row of `backup_storage`, one past its update a url, and no step
  takes either away.
* `SessionsAreSpaced`, `ExpiryIsARank`, `SessionsAreRetained` and `NewestIsAnswered`
  (with `ShortCalls`): `SessionsSpaced`, `ExpiryRanksByAge`, `SessionRetention` and
  `AnswersNewest`. The first two are inductive only together: that a new session
  is far from all others needs that the one looked at, which expires last, is the
  latest, and that needs that the new one is far from the one before. Under both
  lies `InOrder`: calls arrived at most `MaxLatency` ago, rows are numbered in the
  order of their creation, and a session expires `SESSION_LIFE` after the arrival of
  the call that stored it.
* `RingsAreImplemented` (with `ShortCalls`): `ImplementsKeyRing`. A commit is
  `Ring!Handshake`: the lemmas `KeysRotate` and `SessionsRotate` show that cutting
  the rows by creation or expiry leaves the `Newest` numbers. Every other step is a
  clear, an insert or a stutter.
* `AnnouncedExpiryStands` (with `ShortCalls` and `TwoSessions`) and
  `AnsweredSessionLives` (with `LongLife` too): `AnnouncedExpiry` and
  `AnsweredSessionIsActive`. The invariant `AnswersStand` says of a call about to
  answer that its session is stored and all newer ones were issued after the call
  arrived; so at most one is, which is why a limit of two is enough.

`SessionUseProofs`, for any processes, answers on their way and requests; the steps of
`SessionUse` are steps of `Handshake` (`UseIsHandshake`):

* `HeldSessionsLast` (with `ShortCalls`): `HeldSessionIsActive`. The invariant
  `OffersLast` says the same of sessions in answers and in calls about to answer.
* `HoldersAreReached`: `HolderIsReached`, from `UsesInOrder`: the sessions a request
  still has to try include the one the process holds, and each try leaves that so.
* `UrlsAreServed` (with `ShortCalls` and `TwoSessions`): `UrlIsServed`. The url is
  written without the lock and says nothing of which handshake wrote it, so the
  invariant `UrlsServed` has the time `T` of the last update as a witness: handshakes
  past their update arrived by then, and the session of the process at that url is
  the newest or followed only by sessions issued since `T`.

`OnboardingProofs`, for any number of registrations, handshakes and mails:

* `AlwaysAKey`: `KeylessOnlyIfInterrupted`, inductive with `TypeOK`. A step of the
  composition is a step of `Handshake` (`OnboardingIsHandshake`), a commit never
  takes the last key (`CommitLeavesKey`), and a clear keeps its registration open.
* `MailedKeysLetIn`: `MailedKeyWorks`, from `MailedKeysWork`, which says it of a key
  from the event on, `HistoryOK`, about the history variables, and `RoomKept`: there
  are keys left for the calls that may still issue one. A commit takes a key only
  when enough newer ones are left (`CommitLeavesNewer`).

`MailDispatchProofs`, for any mails, any configured names and orders of any length:

* `MailTypeCorrect`, `AllProvidersTried` and `CopiesFollowErrors`: `MailTypeOK`,
  `GivesUpAfterAll` and `ExtraCopiesFollowErrors`. The invariant behind them,
  `ErrorsInOrder`, says that the errors of a mail are those of the first providers of
  the order, one of each try that is over. That parsing leaves providers only is
  `KnownProviders`, by counting (`EachTurnComes`).

`KeyLifecycleProofs`, for any calls, keys and storages, requests that may have any
number of sessions up to the limit, and callers of which several may ask for the
same key. Of `KeyGeneration`:

* `TypeCorrect`: `TypeOK`.
* `SuccessLasts`: `SuccessIsDurable`, what a successful answer promised is still
  there whatever other calls did since.
* `RollbackIsOwn`: `RollbackOnlyByGenerator`.
* `HalfKeysHaveAReason`: `HalfKeysAreExplained`, what keeps a key that lacks a
  slice at the private server.

  All come from one invariant, `Inv`. That a rollback by one call leaves the key
  of another alone needs that the private server gives an id once, to one call
  (`IdsAreUnique`), and that a key is kept until the call that generated it has
  failed (`KeptUntilFailure`); that success means stored slices needs that a
  fulfilled request names a slice that is there (`SlicesStored`), which in turn
  needs that requests are only started once the id of the key is known
  (`AnswerOfStep`). That half a key has its reason needs both, and that the key of a
  call that has failed is given up (`FailedAreGivenUp`).

Of `KeyLifecycle`, whose steps are steps of `KeyGeneration` and of `Signing`, so that
both invariants hold in it:

* `GenerationStaysDurable` and `HalfKeysKeepTheirReason`: `SuccessIsDurable` and
  `HalfKeysAreExplained` in the composition.
* `WholeKeySigns` and `SlicesAreFound`: `SignsWithWholeKey` and
  `ConfirmedKeyIsFound`, from `LifecycleInv`: a storage that a call has a store for
  has a row, and rows stay (`StoresHaveRows`); a confirmed key has a call that
  succeeded for it (`ConfirmedSucceeded`); and every storage of a confirmed key, or
  of one that was being stored, is asked (`AllAreAsked`).
* `EarlySignersGetAll`: `EarlySignerGetsAllOrNothing`, from the same invariant: the
  storages of a key that was being stored when the request came have rows
  (`BegunHaveRows`), and a slice that was fetched is at the storage it came from
  (`FetchedIsStored`), where it stays (`SlicesStay`).

`SigningProofs`, for any signers, storages and sessions:

* `TypeCorrect`, `KeyPartsAreComplete` and `ErrorsAreTrue`: `TypeOK`,
  `SignsWithAllSlices` and `NotConnectedIsReported`. The invariant `Inv` relates the
  stage of a signer to its requests (`SignerOfStage`) and the stages of all signers
  to where the call is (`AllFilled`, `IdleUntilReceived`). A signer is asked
  for slices only if `info` has a session for each of its storages, so an error names
  those without a session or those whose sessions failed.

`KeySplitProofs`, for keys of any length and any number of storages:

* `SplitExact` and `SplitBalanced`: `SplitIsExact` and `Balanced`, with the types
  of `TypeOK`, which no run repeats. Balance is not
  inductive: one needs that what is left can still be cut evenly among the
  storages still to come (`EvenlyLeft`), which the lemma `EvenShare` shows a
  share rounded up preserves.
* `JoinExact`: `JoinedIsKey`. The parts come back once each (`FetchedOnce`); that
  their places by index are then exactly the places they were cut at is counting
  (`EachIndexCame`, `RankIsIndex`).

Two definitions are stated so that they can be reasoned about without induction over
a sequence, which the prover cannot do: the place of a part after sorting is the
number of smaller indexes plus one (`Rank`), and the j-th provider of the order is
the j-th known name (`ParseFallbackOrder`).

Only model-checked: the liveness properties, which are out of the prover's reach, as
is `ENABLED`: `HandshakeEnds`, `RegistrationEnds`, `EveryRequestEnds`,
`FailureIsAnswered`, `ReliableIsEnough` and `SavedKeyIsMailed`. The four properties
of the findings are false, and TLC refutes them.

## 6. Not modelled

* Encryption, hashing and the text of keys: a key is a number, a reply that does
  not decrypt is a kind of reply.
* The text and format of mails, and how each strategy maps a mail to what its
  provider takes: data of one call.
* What happens to a mail after a crash: nothing in the code sends it again, so the
  properties about mails are of those that are not lost.
* `getRequestFromApiApprovalData`, health checks, message patterns: no state.
* A signer or a vault that lists one storage twice.
* Tenancy contexts (`libs/tenancy/`). The only state is a map from subdomains to
  context ids, written by one synchronous method; it never evicts, and requests
  without a subdomain share one entry. No two steps can interleave in it, the
  services kept in a context have no state of their own, and the context key comes
  from a package that is not part of the repository.
* Pipes and the error filter (`libs/transformers/`, `libs/filters/`). `main.ts`
  registers them on the HTTP application, connects the microservice without
  inheriting its configuration and never listens for HTTP, so no message of the
  models passes through them.
* Queues, configuration and start-up: wiring, read once.

## 7. Plan

In order of importance; the first three blocks are done.

1. `KeyRing`, `Handshake` and its proofs of type, lock, limit and retention;
   `KeySplit` with its proofs; `ScmRequests`, `KeyGeneration` with its proofs,
   `Signing`.
2. The compositions: `MailDispatch` with its proofs, `Onboarding` with the proof that
   a storage keeps a key, `SessionUse`, `KeyLifecycle`; the second clock.
3. The proofs of all other safety properties: sessions and time, that `Handshake`
   implements `KeyRing`, mailed keys, `Signing`, `KeyLifecycle`, `SessionUse`, the join.
4. Left: that `KeyRing` itself keeps its promises (the limits of a ring, no number
   handed out twice), as theorems of the abstract specification; an abstract
   specification of a generated key (absent, stored as a whole, given up) that
   `KeyLifecycle` implements.

## Running

    tlc -config MCHandshake.cfg MCHandshake
    tlc -config MCKeyLifecycle.cfg MCKeyLifecycle
    tlapm HandshakeProofs.tla
