# A formal model of the DID wallet

The repository is a research prototype of a European digital-identity wallet: four
Solidity contracts that hold who may accredit and attest what, .NET services that
index what the contracts say and run the registration process, a React Native
wallet that holds the credentials, an Angular client for the issuers, and
zero-knowledge circuits the wallet proves predicates with.

This directory holds TLA+ modules for the parts where order, failure and
composition matter, the TLC configurations that check them on small instances, and
proofs, checked by TLAPS, that the main results hold for every value of the
constants. `PROJECT.json` maps every definition to the lines it stands for, lists
the hazards of the code with the properties that watch over them, and gives for
every property a faulty variant of the code that breaks it.

To run a check: `tlc -config MCAccreditationRegistry.cfg MCAccreditationRegistry.tla`.
To check the proofs: `tlapm RegistryProofs.tla`.

Paths below are relative to `src/`; `S/` stands for `DID.WalletThesis/src/`.

## 1. Inventory

| Component | Source | State | Operations |
| --- | --- | --- | --- |
| AccreditationRegistry contract | `blockchain/contracts/AccreditationRegistry.sol` | accreditations, two lookup lists, validity flags | issue, revoke, trust chain, lookups |
| CredentialRegistry contract | `blockchain/contracts/CredentialRegistry.sol` | credentials, two lookup lists | record, revoke, suspend, reactivate, four verdicts |
| EURootAuthority contract | `blockchain/contracts/EURootAuthority.sol` | member states and their active flags | add, remove, update, count |
| ZkpVerifierRegistry contract | `blockchain/contracts/ZkpVerifierRegistry.sol` | a verifier per circuit, its version and active flag | register, deactivate, get |
| BlockchainSync service | `S/Services/DID.BlockchainSync` | an in-memory cursor per subscription, SyncedEvent rows | poll, store, publish, mark |
| Credential service | `S/Services/DID.Credential` | a row per credential | issue, report, revoke, suspend, consume events |
| Accreditation service | `S/Services/DID.Accreditation` | a row per accreditation, challenges, enterprise registrations | issue, report, revoke, consume; log in; submit, approve, reject |
| Identity service | `S/Services/DID.Identity` | a DID document per identity | create, register, resolve, rotate the key |
| Mobile wallet: lock | `S/mobile-wallet/src` (`pinService`, `UnlockSplashScreen`, `WalletScreen`, `AuthContext`, `App.tsx`) | PIN hash, failure count, cool-down, the app's lock and that of the Wallet tab | set up, unlock by biometrics or PIN, lock in the background, on focus, or by hand |
| Mobile wallet: set-up | `RegistrationWizardScreen`, `didService`, `authService` | identity, draft of the wizard, session flags | create or restore, submit, poll, finish |
| Mobile wallet: presentations and proofs | `zkpBridge`, `zkpService`, `ActionsStubScreen`, presentation screens | the request on the screen, pending proof requests, history | paste, scan or open a request; prove, present, decline |
| Mobile wallet: credentials | `credentialService`, `CredentialsScreen`, `veramoAgent` | stored credentials, the cards on show | refresh, list |
| Mobile wallet: profile | `ProfileSettingsScreen`, `EditPersonalProfileScreen`, `didService` | the profile in storage, on the screens, and at the Identity service | show, edit, save |
| Admin client | `S/admin-client` | session, MetaMask connection, navigation context; a list, a panel and busy flags per page | log in and out; list, issue, verify, revoke |
| ZKP circuits | `S/zkp-service/src/circuits` | none | three predicates |

How they interact. The CredentialRegistry calls the AccreditationRegistry, in every
record and every verdict, and trusts whatever it answers at that moment. The admin
client and the wallet send transactions to the contracts themselves and *report*
them to the services by HTTP afterwards; the services also learn of them from
BlockchainSync, which polls the chain's logs, stores each in a table, publishes a
message on RabbitMQ and marks the row. The two paths are not coordinated. The
Identity service is told by a message of an approved enterprise, but the consumer
of it is never registered (`S/Services/DID.Identity/Program.cs:28`).

What is hard here:

* **Trust is derived, not stored.** An accreditation is trusted if a chain of records
  up to the EU root is in order *now*. Any issue, revocation or expiry anywhere
  above changes the answer. Ids do not hash the parent, so the records need not
  even form a tree. To be right: the code's recursion by scope, its lookups and its
  walk up the parents say the same; nobody gets into the hierarchy but through the
  parent's subject; trust that is lost does not come back.
* **Verdicts are computed four times over**, in code of their own, from status,
  expiry and trust chain. To be right: they agree; what they report only gets worse.
* **The index is fed by two uncoordinated paths**, one of which polls, forgets its
  cursor on restart, and delivers each kind of event separately. To be right: no
  event is skipped, no row runs ahead of the chain, a row becomes current (the last two
  with exceptions: see Findings).
* **The wallet's lock** is spread over asynchronous callbacks of the operating system,
  the biometric prompt and a deliberately slow PIN hash. To be right: the wallet is
  opened only by a proof given this session; wrong PINs lead to a cool-down; its
  owner always gets in.
* **Proofs are made elsewhere**, in a web view that is loaded late, answers in any order
  and may die. To be right: each promise is settled once, with its own answer, and
  what is presented was proved for the request it answers, as far as the app knows what
  is asked.
* **Screens outlive what they show, and requests their screens.** A request to present
  arrives while another is under review; a save, a refresh or a login goes on after its
  page is gone; answers come in any order. To be right: what is approved is what is
  shown; storage and service differ only where a call was lost; a page says nothing of
  one accreditation that is true of another, and no button stays disabled for good.
* **Two-step processes without a transaction**: chain first and database second,
  database first and message second, read-modify-write of a list in storage. Each is
  listed under `hazards` in `PROJECT.json`.


## 2. Plan

| Order | Module | What it models | State |
| --- | --- | --- | --- |
| 1 | `AccreditationRegistry` | the registry contract | modelled, checked, proved |
| 2 | `CredentialRegistry`, on 1; `CredentialLifecycle`, its abstract specification | the credential contract calling the registry | modelled, checked, proved |
| 3 | `EventSync` | chain, BlockchainSync, RabbitMQ, the index of the Credential service | modelled, checked, safety proved |
| 4 | `EnterpriseRegistration` | the service and the reviewers who decide requests | modelled, checked, proved |
| 5 | `WalletSetup`, on 4 | the wizard of the wallet against those requests | modelled, checked, proved |
| 6 | `ZkpBridge`, with `RequestReply`, its abstract specification; `Presentation`, on it | the bridge to the web view that proves; approving a request, up to the history | modelled, checked, safety proved |
| 7 | `WalletLock`, with `Doors`, its abstract specification | the wallet's two locks: PIN, biometric prompt, background, focus | modelled, checked, safety proved |
| 8 | `RequestExchange` | how a request gets onto the screen, and the approvals and alerts it leads to | modelled, checked, proved |
| 9 | `WalletDocuments` | refreshing the wallet's credentials | modelled, checked, safety proved |
| 10 | `WalletProfile` | the profile on the screens, in storage and at the Identity service | modelled, checked, proved |
| 11 | `AdminSession` | login, MetaMask connection and navigation context of the admin client | modelled, checked, proved |
| 12 | `AdminPage` | a page's list, panel and transactions against index and chain | modelled, checked, proved |

Not taken up, with the reasons under "Not modelled": the two small contracts, the login of
the services, the Accreditation service's own half of the event pipeline.

Abstract specifications worth stating: the life cycle of a credential and the
request-reply channel of the bridge, the two doors of the wallet.

## 3. Modules and the code

Constants that are only bounds are called `Max...`. Operators marked *faulty
variant* are not part of a specification: each stands for a plausible mistake in
the code, and `PROJECT.json` says which property it breaks when it takes the place
of the definition after it.

**`AccreditationRegistry`** (`blockchain/contracts/AccreditationRegistry.sol`). The four
mappings are variables, the lookup arrays sets (their order is not read by anything
modelled). `IssueAccreditation` and `RevokeAccreditation` are the two transactions
with every `require`; a transaction is atomic, and one that reverts is no step.
`now` is `block.timestamp`; `Tick` moves it. `AccreditationId` is the tuple of what the
contract hashes, so that two ids are equal exactly when the hashed values are. Hash
collisions are not modelled. `ValidateTrustChain` is one operator per scope, as the
contract recurses to a fixed depth. `Predicted` holds ids that are named as parents
before they exist.

**`CredentialRegistry`** (`CredentialRegistry.sol`) extends it: the two contracts share
one chain, and each verdict reads the registry in the same block.

**`CredentialLifecycle`** is what a reader of the contract would be told of a
credential. The mapping takes the `status` field; everything else is hidden.

**`EventSync`** (`BlockchainService.cs`, `EventListener.cs`, `BlockchainSyncWorker.cs`,
`CredentialEventHandler.cs`, `SyncRepository.cs`, the two consumers, `CredentialService.cs`).
One subscription per kind of event, in steps: `Start` reads the tip, `Poll` fetches the
logs from the cursor, and for each `SaveEvent`, `Publish`, `MarkPublished`. `Consume` is
the consumer with its row. `HandlerFails`, `ConsumeFails`, `ConsumeUnacknowledged`,
`StartFails` and `Restart` are the faults. The chain is the credential contract with the
guards that matter to its statuses. `RecordRevokedFromClientTx` names any confirmed
transaction (`ConfirmedTxs`), since the code asks no more of it than that; the history
variable `misreported` holds the credentials for which it was not the one that revoked them.

**`EnterpriseRegistration`** (`EnterpriseRegistrationService.cs`, its repository and entity,
`enterprises.component.ts`, the clients it calls). A reviewer goes through
`IssueOnChain`, `RecordFromClientTx`, `LoadToApprove`, `SaveApproval`,
`PublishApproved`, or `LoadToReject`, `SaveRejection`. Reading and writing the row are
separate steps, since they are separate queries without a version column; a write is
of all columns, since the repository calls `Update`. An accreditation's id is its place
in the order of issue; that two issues in the same second collide (and the second
reverts) is in module 1.

**`WalletSetup`** (`RegistrationWizardScreen.tsx`, `RegistrationContext.tsx`, `authService.ts`,
`didService.ts`, `WelcomeScreen.tsx`, startup in `AuthContext.tsx`) extends it by one
wallet. Variables are grouped as the code's: React state and context in `memory`, lost
by `Restart`; SecureStore and AsyncStorage in `storage`. A call to a service is two
steps, asking and answering, and the owner may do anything between them. `handleFinish`
is four. `Submit` of the registrations happens inside `SubmitRequest`; reviewers act on
their own.

Merged or left out there: the identity and address pages are one step `form`, the two
PIN pages one step `pin`; `createWallet` and `getOrCreateIdentity` find what they made
before and are one step; the wizard has at most one call of each sort in flight, also
when the owner leaves it and opens another.

**`RequestReply`** is what the bridge owes its callers: a call is made once and gets at
most one reply, the answer to itself.

**`ZkpBridge`** (`zkpBridge.ts`, `ZkpWebViewBridge.tsx`). `pending`, `queue`, `ready` and
`counter` are the class's fields. `Send` is `send`, with the dispatch made at once or
left to `LoadEnd`, which is `register` and its flush of the queue. `HandleMessage` is
the app's side of an answer, `Answer` the page's; in between, answers are a set, since
the page computes concurrently. `PageDies` and `LoadFails` are the two ways to have no
page. `asked` and `reply` are history, and what the channel sees.

**`Presentation`** (`PresentationConsentScreen.tsx`, `zkpService.ts`, `presentationService.ts`)
extends it by approvals, each one run of `handleApprove` that has its own place among
the `await`s: the requirements in order (`BuildZkpProof`, `VerifyProof`, `TakeProof`;
`BuildCredentialRef`; `BuildFullDisclosure`; `SkipUnknown`), then `SignResponse`, the post, and
the two halves of `presentationService.save`. A request is whatever JSON its link carries, so
that it may ask for what the app does not know: a requirement of another kind, or a proof for
a circuit it does not have. The loop passes over both (`SkipUnknown`). Several may be under way, as leaving the screen
does not stop one. A call of the bridge is named by the approval and the requirement
it is for; that this is the one it is answered for is not assumed but follows from
the bridge. `saves` and `listedAt` are history variables for the order of saves.

**`Doors`** is what the wallet promises of its two locks: a door opens only by a proof
(biometrics or PIN) given for that door, each proof opens it once, the Wallet tab is
never open while the app is shut, and shutting the app voids what was proved to the tab.

**`WalletLock`** (`AuthContext.tsx`, `App.tsx`, `UnlockSplashScreen.tsx`, `WalletScreen.tsx`,
`MainTabNavigator.tsx`, `pinService.ts`) has the PIN, the failure count and the cool-down in
SecureStore, the state of `AuthContext` and the refs that guard it, both screens' flags, and up to two
*checks*: runs of `verifyPin` or of the biometric prompt that belong to the screen that
started them and go on when it is gone. `verifyPin` is in steps, one per access to
SecureStore and one for the hash, since two of them interleave there. Only a personal
wallet has a Wallet tab; organisations have the first lock alone.

**`RequestExchange`** (`ActionsStubScreen.tsx`, `MainTabNavigator.tsx`, `ActionsStackNavigator.tsx`,
`PresentationConsentScreen.tsx`, `presentation.ts`) has the views of the Actions tab (the QR
code, the paste form, the scanner), links opened from outside at any time, the consent
screen with its decoded request, and approvals and alerts, which go on when the screen is
left. What an approval does inside is `Presentation`'s.

**`WalletDocuments`** (`credentialService.ts`, `CredentialsScreen.tsx`, `veramoAgent.ts`,
`didService.ts`) has the agent's database, the cards on the screen, and the tasks at work on
them: each fetches, lists what is stored, deletes and saves one by one, and lists again.

**`WalletProfile`** (`EditPersonalProfileScreen.tsx`, `ProfileSettingsScreen.tsx`,
`ProfileStackNavigator.tsx`, `didService.ts`, `authService.ts`, `DIDService.cs`) has the profile
in storage, the row at the Identity service, the two screens, and saves and loads that
may outlive them. The service's handler is in two steps, finding the row and writing it;
whether it accepts the proof of ownership, which depends on its clock, is left open.

**`AdminSession`** (`auth.service.ts`, `signer.service.ts`, `navigation-state.service.ts`,
`auth.interceptor.ts`, `scope.guard.ts`, `app.routes.ts`, the shell and the pages' `ngOnInit`) has
the session and its copy in sessionStorage (which a reload keeps or, expired, drops),
MetaMask's account, the signer, the navigation context, and connections, logins and page
initialisations in flight, each marked `old` once its session has ended.

**`AdminPage`** (`member-states.component.ts`, `government.component.ts`,
`universities.component.ts`, the detail panel, `accreditation.service.ts`,
`blockchain-client.service.ts`, the index in `AccreditationService.cs` and its consumer) is the
pattern the pages share, once: a list with its loads, a panel with its checks, and
transactions in the three calls of chain, report and answer. `viaWallet` tells the root's
page, for which the service sends the transactions (`IssueAsync`, which writes the row, and
`RevokeAsync`, which leaves that to the consumer of the event, `Synced`), from the others.
`told` is what the page was answered of its own changes, those of the root's page too; `early`
holds the checks under way, on another accreditation, when the panel was opened, and `stray`
that the verdict shown came of one.

## 4. Runs

| Run | Specification and bounds | What it shows |
| --- | --- | --- |
| `accreditation` | `Spec`; 2 accounts, all six scopes, expiries never and 1, time to 2, 3 accreditations, one id predicted | `LookupsMirrorRecords`, `IssuersHoldTheParent`, `TrustMatchesListing`, `LookupAgreesExceptAtExpiry`, `TrustNeverReturns` |
| `credential` | `CredSpec`; 2 accounts, the three scopes down to institutions, 3 accreditations, 2 credentials | `VerdictsAgree`, `CredentialsNameTheirAuthority`, `LostAuthorityIsFinal`, `ReportedStatusIsFinal`, `ImplementsLifecycle` |
| `event_sync` | `FairSpec`; 1 credential, 2 events, 3 blocks, 2 faults | `EveryEventAccountedFor`, `RowsFollowTheChain`, `NeverActiveAgain`, `EventsReachTheIndex` |
| `enterprise` | `Spec`; 2 requests, 2 wallets, 2 reviewers, 3 accreditations, 2 faults | `RowsCohere`, `ApprovedNamesIssued`, `OneRequestEach`, `SettledStaysSettled` |
| `wallet_setup` | `SetupSpec`; 2 requests, 1 reviewer, 1 accreditation, 2 faults | `OnlyFinishedWalletsOpen`, `EnterpriseIsAccredited` |
| `presentation` | `PresFairSpec`; 2 approvals, each of one of 2 requests | `EveryPromiseIsServed`, `ImplementsRequestReply`, `SubmittedIsProved`, `LostOnlyToOverlap`, `ApprovalsEnd` |
| `wallet_lock` | `LockFairSpec`; 2 checks, cool-down at the 1st failure, none from the 2nd, 3 failures counted | `CountLostOnlyToOverlap`, `LeftOpenOnlyLate`, `ImplementsDoors`, `OwnerGetsIn` |
| `request_exchange` | `ExchangeSpec`; 2 approvals, 2 alerts | `ReviewShowsTheLink`, `OneAnswerAtATime`, `ScannerAwaitsOrAsks` |
| `wallet_documents` | `DocumentsFairSpec`; 1 credential, 2 refreshes at once, 2 faults | `WholeAfterARefresh`, `RefreshesConverge` |
| `wallet_profile` | `ProfileSpec`; 2 values, 2 saves, 2 loads | `ProfileInStep`, `SettingsShowTheProfile` |
| `admin_session` | `SessionSpec`; 2 accounts of different scopes, 2 connections, 2 page initialisations, 1 call | `SignerIsTheSessions`, `ContextIsTheSessions` |
| `admin_page` | `PageSpec`; 2 accreditations, 2 loads, 2 checks, 1 transaction | `PageIsHonest`, `NoButtonIsStuck` |

The type invariants are proved (section 7), and so no run spends time on them; to check one
as well, add it to the cfg's INVARIANTS.

Why the bounds are enough to be worth checking:

* Three accreditations make a full chain of three scopes, or a chain of two and a
  competitor, with each link issued, revoked or expired in any order; scopes below a
  ministry all follow the same rule by table. One predicted id is enough for a
  dangling parent and a circle. Expiry 1 with time to 2 puts an accreditation before,
  at and after its last second. The registry's step does not depend on how many
  accounts there are beyond issuer and subject.
* Two events are the least that can overtake each other; three blocks let them share
  one or not. Two faults are needed to lose a subscription and a message in one run. A report
  names either of them, once mined, or a transaction that emitted neither.
* Two requests and two reviewers make every race on a row: two approvals, an approval
  and a rejection, a reviewer on the wrong row. With three accreditations a wallet can
  be accredited twice for one request and once more.
* A wallet that lost the answer to its first request posts a second: two requests. Two
  faults are a lost answer or a failed finish, and a restart after it. One
  accreditation suffices for the wizard; reviewers at odds are the `enterprise` run's.
* Two approvals are the least that can mix up answers or overlap in the history. Between
  them the two requests have every kind of requirement, two proofs in one request with one between
  them that the app does not know, and a callback URL or none; up to two calls wait in the queue or are in the page's hands.
* Two checks of a PIN or of biometrics, on either screen, are the least that overlap. A
  cool-down from the first failure, none from the second and a count up to three put the
  count before, in and past the code's 5 and 10. `MaxHandlers` bounds the background
  handlers that wait for storage.
* Two approvals are one that belongs to the screen and one that outlived it; two alerts are
  two codes read between two renders.
* Two refreshes overlap; two faults are one refresh cut off and the next one failing. Credentials
  are deleted and saved one by one, so that one of them is already a list cut in half;
  with two of them and one fault the properties hold as well.
* Two saves, two loads and two values let each overtake the other and be told apart.
* Two accounts of different scopes are a session and the one after it. The properties hold
  as well for two accounts of one scope, and for the root and an institution.
* Two ids are what a verdict or a panel can be mixed up between; two loads and two
  checks overtake each other. One transaction is under way at a time: with two the run does
  not end in reasonable time, so that an issue and a revocation that overlap are covered by
  the proofs alone (section 7), which are for any number of them.

Deadlock is not checked: the bounded systems stop when the bounds are used up, and a
wizard that was finished has nothing left to do.

Symmetry is used in `enterprise` (requests, reviewers), `wallet_setup` (requests),
`request_exchange` (approvals), `wallet_profile` (values, saves, loads), `admin_session`
(connections, initialisations) and `admin_page` (ids, loads, checks), whose
properties are invariants and an action property and tell these apart by nothing.

## 5. Fairness

Four modules have a liveness property. In `EventSync`, `FairSpec` assumes, weakly fair each: mining,
because the development node mines at an interval; starting, polling and handling of
each subscription, because `SubscribeToEventAsync` is a loop that sleeps and goes on as
long as the service runs; and consuming each message, because RabbitMQ redelivers until
it is acknowledged. Nothing is assumed of faults, issuers, reports or restarts. The
property speaks of the time when the bound on faults is used up, hence of no more
faults.

In `Presentation`, `PresFairSpec` assumes that the page's asset is read or cannot be
(one of the two is the end of the `useEffect`), that the page answers what it is given
(`__zkpReceive` posts a result or what it caught) and the app handles it, and that what
an approval waits for returns or throws. That includes the post to the callback
(`PresentationConsentScreen.tsx:292`), a `fetch` for which the app sets no time limit: that it
ends is the platform's doing. It assumes nothing of the owner, who need not
approve, and nothing of the order of answers. It does not assume that the page lives:
the property excepts a page that is gone, for then the approval does wait for ever.

In `WalletLock`, `LockFairness` assumes, weakly fair each, that the app starts, that it is
brought to the foreground again, that time passes, that a check goes on to its end (a hash
and accesses to SecureStore, which return or throw), and that the prompt the screen owes is
put up. What the owner does is strongly fair, since the lock comes and goes meanwhile:
again and again the unlock button is pressed, the prompt succeeds, and the right PIN is
typed. Nothing is assumed of wrong PINs or of the background. `OwnerGetsIn` excepts an app
that the system goes on killing for ever, and a wallet without biometrics whose PIN is none
or of the old algorithm: that one stays shut (see Findings).

In `WalletDocuments`, `DocumentsFairness` assumes, weakly fair, that a call under way returns
or fails, that the agent opens, and that the screen is opened; strongly fair, since it is
taken down at any time, that a refresh is asked for. `RefreshesConverge` speaks of
executions in which the screen is at some time left alone; faults are bounded.

## 6. Findings

* `AccreditationRegistry.sol:363`: the comment asks for a valid member-state
  accreditation behind a ministry; its expiry is not looked at.
* `README.md:134`, `CredentialService.cs:376`: the index is to be kept current; a
  suspension that is consumed after the revocation overwrites it for good.
* `CredentialService.cs:250`: a client's report is to record the revocation its transaction has
  made; the transaction is only waited for and the credential not read again (as
  `AccreditationService.cs:258` does), so that another confirmed transaction will do.
* `RegistrationWizardScreen.tsx:695`: the institution's key is said to be stored for the
  agent; it is not.
* `RegistrationWizardScreen.tsx:298`, `:313`: the request id is to be restored when the
  wizard opens again; it is removed before the set-up has kept the approval.
* `PresentationConsentScreen.tsx:310`, `:245`: a presentation is announced as successfully
  built and submitted when it was posted nowhere, or refused, and also when it leaves a
  requirement unanswered because the app does not know it.
* `AccreditationService.cs:241`: a row is to be written at once, so that it is there "without
  waiting for the blockchain sync consumer"; that of a revocation by the root is not.
* `authService.ts:140`: a profile written as plain text by an older version is to be read;
  it holds an e-mail address, is taken for ciphertext and read as no profile.
* `DIDService.cs:126`: the loser of an insert race is to update the winner's row; the
  entity it failed to insert is still in the context, and is inserted again.
* `pinService.ts:113`, `README.md:82`: ten wrong PINs are to wipe the wallet; from the tenth
  on there is no wipe and no cool-down either.
* `pinService.ts:57`, `UnlockSplashScreen.tsx:187`: a PIN of the old algorithm is to be
  registered again; it is cleared, and no screen can register another.
* `universities.component.ts:464`: the hash of a diploma is to be of name, university and
  time; the text is cut to 32 bytes first.
* `PresentationConsentScreen.tsx:227`, `docs/USER_TESTING_GUIDE.md:353`: an approval is to ask
  for biometrics or the PIN; it does not.

The first six are stated in the modules, as properties the code does not keep, and TLC shows
it when they are added to a cfg: `MinistryIssuerIsCurrent` (`PROPERTY`, in
`MCAccreditationRegistry.cfg`), `IndexBecomesCurrent` (`PROPERTY`, in `MCEventSync.cfg`
with `MaxFaults = 0`), `RevokedRowsAreRevoked` (`INVARIANT`, there too), `AgentCanSign` (`INVARIANT`) and `ApprovalSurvives` (`PROPERTY`, both in
`MCWalletSetup.cfg`), `AnnouncedIsSubmitted` (`INVARIANT`, in `MCPresentation.cfg`). Of
the others, what becomes of the loser of an insert race is in `WalletProfile` (refused), and
what the two findings on `pinService` describe is in `WalletLock`, and the root's revocations
are in `AdminPage`; the rest concern data that the modules leave out.

Some properties hold but for an exception they name, and the exception is what the code does:

* `SignerIsTheSessions`: a connection to MetaMask that is answered after its session has ended
  sets the signer of the next one (`signer.service.ts:66`). `ContextIsTheSessions`: so does
  the initialisation of a page with the navigation context (`government.component.ts:98`). A
  late 401 ends whichever session it finds (`auth.interceptor.ts:20`).
* `RowsFollowTheChain`: a row says Revoked of a credential that is not, if its revocation was
  reported with a transaction that did not revoke it (`CredentialService.cs:243-270`).
* `SubmittedIsProved`: a requirement for a circuit the app does not have, or of a kind it does
  not know, is left unanswered in what is handed in (`PresentationConsentScreen.tsx:176`,
  `:241-255`).
* `PageIsHonest`: a verdict is on another row than the panel's if its check was under way when
  the panel was opened (`government.component.ts:211`); a list may be replaced by an older one;
  and a revocation on the root's page is answered before the index has it
  (`AccreditationService.cs:227-243`), so that the list loaded upon the answer may still show
  the row as Active (`member-states.component.ts:160-165`).
* `CountLostOnlyToOverlap`: two checks that overlap lose a wrong PIN, as does a kill before
  the write. `LeftOpenOnlyLate`: a check that ends after its screen was locked by the
  background leaves the wallet open.
* `LostOnlyToOverlap`: two saves of presentations that overlap lose one of them.
* `ProfileInStep`: the device's copy and the service's row part when a save is cut off or overlaps
  another, until the next save that does neither.
* `ReviewShowsTheLink`: the error of a link that cannot be decoded is never cleared.

Also seen: a rejected request is a dead end in the wizard; `EnterpriseRegistrationApprovedEvent`
has a consumer that is not registered (`S/Services/DID.Identity/Program.cs:28`); a reactivation
is not listened for (`EventListener.cs:28`); waiting for a confirmation gives up after 60 s
while the transaction may still be mined (`BlockchainService.cs:160`); the set-up of another
kind of account can be handed the late answer of an earlier one.

## 7. Proofs

Each `...Proofs` module extends the module or modules it is about. The assumptions are those
of the modules: bounds are natural numbers, the owner is an account, `NoId` is no id, the
two addresses of a wallet differ. What is under way at once in the wallet (checks of a lock,
approvals, loads and refreshes, saves) is finite, as in any state it is; no other set need be.
Every safety invariant and action property of the runs is proved, for every value of the
constants; so is the type invariant of every component, and so are the refinements. The
invariants named below are inductive, and were checked by TLC on the runs' instances before
they were proved.

* **`RegistryProofs`**, first part, about the accreditation registry: types; finality of
  records, from what a step may do to a record; the mirror of the lookups;
  `IssuersHoldTheParent`, which is inductive together with the type invariant once it says
  that a parent's own parent exists. `TrustIsInherited` turns the contract's fixed recursion
  into one rule (trusted means issued by the owner under no parent, or under a trusted
  parent), and `TrustNeverReturnsAlways` follows by carrying that rule over a step from the
  owner downwards: a record standing after the step stood before it.
* **`RegistryProofs`, the listing**: `TrustAlwaysMatchesListing` is about two computations of
  the contract on the same state. The walk of `getTrustChain` has a fixed bound, so it is
  unfolded by exhibiting its result instead of by induction. A trusted record climbs one
  scope at a time and so ends at a root within four records, which the walk lists
  (`TrustedWalkEnds`); the other way round, whatever list certifies a record carries trust
  down it from its root (`CertificatesAreSound`). `LookupAlwaysAgrees` joins the mirror of
  the lookups with the trust rule.
* **`RegistryProofs`**, second part: the two contracts together implement the registry alone
  (`ImplementsAccreditationRegistry`), so all of the above holds of them and is cited; then
  types, the agreement of the verdicts, the authority of each credential, both finality
  properties, and the refinement of `CredentialLifecycle`, transaction by transaction.
* **`EventSyncProofs`**: types; `NoEventIsSkipped`, from an invariant about every place
  an event can be (ahead of the cursor, in the batch, marked, or behind one of its
  block), which has to say as well that batches lie behind the cursor and what a
  half-finished handler has done; `RowsAlwaysFollowTheChain`, from `RowsInv`, which
  adds that what is fetched, stored or in flight was mined; and that rows are never
  active again. The part on Revoked rows excepts `misreported`, as the property does; that a
  report with the right transaction needs no exception is what has to be shown of it.
* **`RegistrationProofs`**, first part, about the requests: one inductive invariant,
  `RegistrationInv`. What is needed beside the properties: a reviewer's accreditation was
  issued to the wallet of the request it works on (`ReviewsHold`), without which an approval
  could name anybody's, and nobody else holds or names it (`Unshared`), without which two
  approvals could share one. `SettledAlwaysStaysSettled` needs only the types.
* **`RegistrationProofs`**, second part, about the set-up: `ServicesStep` shows that each of
  its steps is, for the registrations, a step of theirs or a fault, so `RegistrationInv`
  holds in the composition, and that they only grow (`Grows`). On that rest `StorageInOrder`
  (what was written before what) and `AllOwn` (unless a key was typed in, there is one
  address and every accreditation is its own), from which the two properties follow.
* **`PresentationProofs`**, first part, about the bridge: one inductive invariant, `IInv`.
  That an answer finds its own promise needs that ids in the page's hands are ids of
  `pending`, for the same call (`InHandSound`), each in hand once; that a promise is settled
  once needs that it waits in one place only (`QueueSound`, `PendingSound`).
  `EveryPromiseIsServed` is part of it. The refinement of `RequestReply` follows step by step.
* **`PresentationProofs`**, second part: `ImplementsZkpBridge`, so the bridge's theorems hold
  of the approvals. `BuildInv` adds where an approval waits and that every reply is its own,
  which gives `SubmittedIsAlwaysProved`; `HistoryInv` adds that what an approval has read of
  the history lacks nothing but what an overlap had already cost, which gives
  `OnlyOverlapsLose`.
* **`WalletLockProofs`**: `LockInv` has a part for each thing that keeps a door shut. `AppInv`:
  the splash screen has one check at a time. `TabsInv`: without the tabs the wallet is shut
  and its checks are void. `LateInv`: the handler's refs never say that the app is open
  without a wallet, for else it would not shut it (`IsLeftOpenOnlyLate`). `CountInv`: until an
  answer is lost one check at most is being counted, and goes by the count as it is, which
  gives `CountIsLostOnlyToOverlap`. On `TabsInv` rests `LocksAreDoors`: a check that has
  passed and has not opened its door yet is a proof in the hand of the abstract door, so that
  what has to be shown of a step is how the number of such checks changes.
* **`WalletScreensProofs`**, the requests: `ExchangeInv` adds to the properties that an error
  comes of a link that could not be read, and which approval answers for the screen that is
  up: the one that made it busy, and none if it is not, for what a screen leaves running when
  it goes no longer does.
* **`WalletScreensProofs`**, the documents: `DocumentsInv` is about refreshes that write. While
  the store is whole none does (`WholeInv`); one that is alone is the only one (`AloneInv`);
  and what that one has yet to delete is what there is, what it has yet to save what is
  missing (`TodoInv`). A refresh that overlaps none is so by what happened since it began,
  which is why the last two are needed.
* **`WalletProfileProofs`**: `ProfileInv` has a part for device and service and one for the
  screens. `AloneInv` says what a save that none has overlapped knows: that both hold the same
  while it is asked for, and later that the service has what it will write; `RowInv`, that the
  row it found is not dropped before its columns are updated. `LoadInv` says of a reading that
  will be shown that it has what the device holds, unless the settings are marked as behind.
* **`AdminClientProofs`**, a page: `ButtonsInv` ties each flag that disables a button to a
  request under way of its kind, which gives `NoButtonIsEverStuck`. `HonestInv` says that what
  the page was told is in the index (but for the status of what the root revoked), that the
  index only grows, and that so is it in the answer of every load asked since, and in the list
  once the newest load is in. Its part `ChecksFit` is for the verdicts: while the panel is open,
  what is being checked is what it shows, or was begun before it was opened.
  `PageIsAlwaysHonest` follows.
* **`AdminClientProofs`**, the session: `SessionInv` ties each connection and each
  initialisation that has not outlived its session to the session's account. A connection
  then sets the session's signer or belongs to a login still under way, and an initialisation
  selects the context of the account it was begun for.

Only model-checked: `EventsReachTheIndex`, `ApprovalsEnd`, `OwnerGetsIn` and
`RefreshesConverge`, which are liveness under fairness and need ENABLED, out of this prover's
reach.

## 8. Not modelled

* `EURootAuthority`: a set its owner changes; no other contract consults it, only the login
  of the services. `ZkpVerifierRegistry`: a table its deployment script writes; the wallet's
  service for it is not called by any screen.
* The login of the services (challenges, tokens, the scope read from the index): single
  calls without state between them but the challenge. `AdminSession` takes a session as what
  the login answered.
* The Accreditation service's own half of the pipeline of events: `AdminPage` has its
  consumer of revocations as one step. Of the Credential service: `IssueAsync`, which no page
  calls, beyond the transaction it sends.
* Identity service: documents it creates itself, key rotation and resolution, which no client
  calls.
* Admin client: the diplomas of the universities page, and forms. Wallet: recovery and import
  of single credentials, which no screen offers; screens that only display (home, DID, theme).
* Gas, the order of transactions in a block and reorganisations: the repository runs a
  single development node.
* Signatures, encryption and hashes: who may call is a guard, a hash is the tuple of what
  is hashed.
* ZKP circuits: stateless arithmetic. Forms, layout, translations and logging.
* The names and addresses typed into the wizard, the consents, and the registration with
  the Identity service during set-up, which the code ignores the failure of.
* Of the presentations: what the profile says, `IncomingPresentationScreen` (nothing
  navigates to it), the expiry of a request (shown, never checked), the fallback from
  a signature to the bare hash, and the app being closed.
* Generated migrations, deployment scripts and configuration.
