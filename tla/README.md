# EKA ID: a verification project in TLA+

EKA ID is an identity platform: a Go API (`src/services/api`), a Next.js web
client and an Electron shell. This directory holds TLA+ modules of the parts of
the API and of its clients whose correctness depends on order, overlap and
failure, the TLC configurations that check them on small instances, and proofs,
checked by TLAPS, of the same properties for every value of the constants.

Run `tlc -config MCQRPostgres.cfg MCQRVerification` to check a model and
`tlapm QRVerificationProofs.tla` to check proofs. `PROJECT.json` lists the
runs, the mutants, the correspondence of definitions and source lines, the
hazards and the theorems.

## 1. The system

The web client calls the API with `fetch` and listens to its server-sent
events; the desktop shell starts the API and serves the web client.

The API is one process. A handler calls a service, a service calls
repositories, and these are one of two implementations chosen once at start-up
(`cmd/server/main.go:72`): PostgreSQL, or a store in memory that is saved to a
JSON file. Three facts shape every model here:

* **No transactions.** Every repository call is a statement of its own. A
  service method is a sequence of such calls, so concurrent requests interleave
  between them, and an error in the middle undoes nothing.
* **Two meanings of a read.** PostgreSQL returns a copy of a row; the memory
  store returns a pointer to the stored record, which sees later writes and can
  be written through. An error of a PostgreSQL statement does not say whether
  it took effect.
* **Discarded errors.** `_ = s.auditSvc.Record(...)`, `_ = s.qrRepo.MarkTokenUsed(...)`
  and others go on as if the call had worked.

And two facts shape the clients:

* **A handler is cut at its awaits.** Between a click and the answer anything
  else runs: other clicks, other answers, events, a link. The handler then goes
  on with the state the component has by then, and outlives its page.
* **Events are hints.** An event may come twice (two topics), late, out of order
  with the answers, or never; the pages reload when they hear one.

### Inventory

| Component | State | Operations | What is hard | What makes it correct |
|---|---|---|---|---|
| QR tokens (`qr_service.go`) | `qr_tokens` | generate, verify | overlapping scans, owner suspended or token expired in mid-scan, discarded failure of the burn | a disclosure is justified; a token that was marked is not honoured again |
| Consent (`verification_service.go`) | requests, results | create, respond, list | overlapping answers, failure between result and status | an approved request has a result; only the owner's approval makes one; events tell the truth |
| Registration (`auth_service.go`, `identity_service.go`) | users, identities, profiles, one-time codes | request and verify a code, register | check-then-create on email and EKA ID, collisions of draws, partial registrations | unique accounts and EKA IDs, a code spent once, nothing orphaned |
| Duplicate detection (`deduplication_service.go`) | flags | evaluate, list, resolve | two registrations of one person that overlap, the threshold, what is preselected | of two duplicates one is flagged |
| Amendments (`amendment_service.go`) | requests, documents, profile | upload, request, review | repeated and contradicting reviews, whole-row writes, aliasing, partial failure | only approvals change a profile; an approved request was applied; the ledger has the decision |
| Disk-backed store (`memory.go`, `main.go`) | maps, data file | writes, saves, load, seed | overlapping asynchronous saves, in-place changes, stops | what reached the disk stays; every change reaches it |
| Identity lifecycle (`identity_service.go`) | identity status | change status, list | changes during a scan or an answer; `old_status` read through a live record | (inside the other modules) |
| Event broker and SSE (`broker.go`, `handlers.go:455`) | subscribers, channels | subscribe, publish, unsubscribe | two topics of one event, lost connections, who may subscribe | what an event makes a page show is true |
| API client and session (`lib/api.ts`, `AuthContext.tsx`, login page) | `localStorage`, the context, calls under way | sign in, sign out, restore, move between pages | late answers to pages that were left, two handlers that sign in and out | one session everywhere |
| Registration page | a wizard of four steps | request a code, register, go back | going back while a call is under way | the last step is about the account created |
| Verify page | the token in the link and in the field, the verdict | verify | editing and sending again before the answer, a link that changes meanwhile | the verdict is of a token sent, and of the one sent last |
| Organization page | the request shown, its event stream | sign in as the demo recruiter, create a request, listen | answers to earlier requests | the answer shown is of the request shown, and recorded |
| Dashboard | identity, requests, QR, documents, the amendment form, an event stream | some twenty handlers | a chain of loads that events start again under the form | successes are true; untouched fields are not sent; waits end |
| Admin console | four lists, a review in two calls | sign in, change a status, resolve a flag, save the database settings | one of two calls failing | a duplicate is confirmed after its suspect was suspended |
| Desktop shell (`main.js`) | the child process, the static server, the window | start, save settings, close, quit | exit events that come late, a backend that never answers | no backend is left behind; the start ends |
| Rate limiting (`middlewares.go`) | windows, a Redis connection | allow | round trips that are not atomic | not modelled |
| DID and credentials (`vc_service.go`, `w3c.go`) | none | resolve, mint, verify | cryptography | not modelled |
| Audit ledger (`audit_service.go`) | `audit_events` | record, list | discarded errors | inside the other modules |
| Configuration, schema, mobile client | - | - | - | not modelled |

Calls go handler to service to repository; the services meet in shared
state: the status of an identity (written by administrators, read by scans and
answers), the profile (written by registration and reviews, read by scans,
answers and duplicate detection), the ledger, and the broker. The clients meet
the services only in answers and events. The list of hazards in
`PROJECT.json` gives each hard spot its line.

## 2. The modules

| Module | Models | Properties | Proved in |
|---|---|---|---|
| `SingleUseCapability` | the contract of something that may be presented by many and honoured until it is burned | (a specification) | |
| `QRVerification` | tokens, concurrent scans, status changes, time | `DisclosureJustified`, `NoSequentialReplay`, `AtMostOneDisclosure` (refuted), refines the contract | `QRVerificationProofs` |
| `ConsentFlow` | requests, concurrent answers, results, events | `ApprovedHasResult`, `ResultsAuthorised`, `EventsFollowDecision`, `DeniedHasNoResult` (refuted), refines the contract | `ConsentFlowProofs` |
| `DuplicateScore` | the score of two profiles and the preselection, as operators | (used by `Registration`) | `RegistrationProofs` |
| `Registration` | one-time codes, concurrent registrations, EKA ID draws, flags | `AccountsUnique`, `EkaIDsUnique`, `CodesSpentOnce`, `DuplicatesFlagged`, `NoOrphans`, `FlaggedAsDocumented` (refuted) | `RegistrationProofs` |
| `DurableStore` | the contract of a store that is saved as a whole, in one step | (a specification) | |
| `DiskStore` | the lock, the saves, the data file, stops and starts | `DurableNeverLost`, `WritesReachDisk` (liveness), refines `DurableStore` | `DiskStoreProofs` |
| `Amendment` | documents, amendment requests, concurrent reviews on either store | `ApprovedWasApplied`, `ProfileFromApprovals`, `VerifiedByApproval`, `DecisionsLogged`, `SharedAmendmentsStay`; `AmendmentsStay`, `DiffAccurate` (refuted) | `AmendmentProofs` |
| `WebBackend` | what the clients can tell of the API, and its event streams | | |
| `ApiClient` | the calls under way, what the API makes of them, lost answers | | |
| `AuthSession` | the session, the pages, the sign-in page | `SessionAgrees` (in `Clients`) | `ClientsProofs` |
| `RegisterPage` | the wizard | `WizardTellsTruth` | `ClientsProofs` |
| `VerifyPage` | the verifier's page | `VerdictIsOfTheToken` | `ClientsProofs` |
| `OrgPage` | the organization's page and its stream | `LiveResponseMatches` | `ClientsProofs` |
| `DashboardPage`, `DashboardAmendments` | the holder's dashboard, its stream, its form | `SuccessIsTrue`, `OnlyEditedFieldsRequested` | `ClientsProofs` |
| `AdminPage` | the console | `ConfirmedWasSuspended`; `PendingAmendmentsReviewable` (refuted) | `ClientsProofs` |
| `DesktopShell` | the shell and its backend | `NoBackendOutlivesShell`, `StartGoesForward`, `StartupShowsWindow` (liveness) | `DesktopShellProofs` |
| `Clients` | all of these together | `TypeOK`, `OneSubmissionAtATime`, `SpinnersHaveCalls`, `WaitsEnd` (liveness) | `ClientsInvariant`, `ClientsProofs` |

`WebBackend` is extended by `ApiClient`, that by `AuthSession`, that by the
pages, and all by `Clients`, which says what may happen when: the pages share
the session, the calls and the one event stream, so they cannot be checked
apart. Each `MC...` module instantiates a specification for TLC: the small sets, the
functions given as constants, the symmetry.

### How state and actions correspond to the code

*One action per stretch of code between two repository calls.* In
`QRVerification` a scanner's call goes through `GetToken`, `CheckExpiry`,
`CheckUsed`, `MarkTokenUsed`, `CheckIdentity`, `Answer`: the lines 116 to 196 of
`qr_service.go` in their order, each with its early return. `call[r].pc` in
`Registration`, `call[c].pc` in `ConsentFlow`, `call[v].pc` in `Amendment` and
`pc[s]` in `DiskStore` are the same idea. What a call keeps in local variables
is in its record; what it reads again from a shared record is read from the
store (`SeesUsed`, `Live`).

*The clients: one action per stretch between two awaits.* A handler with one
await is two actions: `HandleConsent` runs up to the `fetch` and puts a call in
`calls`; `HandleConsentResumes(c)` goes on when it is settled, with the `try`
and the `catch` as its disjuncts, the `finally` in both. `calls[c].got` has an entry
for each function of `api.ts` that is awaited there (several under
`Promise.all`): waiting, what it returned, or that it threw. A chain of loads is
one call whose `by` moves on. When a page is left, `mounted` becomes FALSE in
its calls: what they set is ignored, as React ignores it, and what they do besides (the
session, `router.push`, the next call) is done. `ui` is the state of the one
page that is mounted; `stored` is `localStorage`, `session` the context, `booted`
whether the provider's effect has run; `feed` is the `EventSource` with a queue
per topic; `world` the server's facts; `desk` the shell. A disabled button is a
guard (`VerifyEnabled`), and a control that is not shown is not clicked.

To the clients a call of the API takes effect in one step, except where two calls
that overlap leave what neither would leave alone. An answer to a consent request is
three steps: the status is tested (`RespondVerificationRequest`, or `HolderAnswers` for a
phone), the answer stored whatever the status is by then (`AnswerStored`), and then
published and returned (`AnswersCall`, or `AnswersNobody` when nobody waits any more):
two answers may both pass, as in `ConsentFlow`. A review of an amendment tests no status
(`AdministratorReviews`), a QR token that is verified may stay unspent (`VerifyQRToken`), and
a profile that cannot be read is answered as null (`GetMyIdentity`).

`opening`, chosen at the start, says which page is opened with which stored
session and bounds what people do: the clicks and on which controls, the links
followed, the acts of others, and the failures. A failure is a call that the API would have
accepted and that throws all the same, refused on the way or with its answer lost
after it took effect, or an identity without its profile; what the API itself refuses (`Accepts`) is not bounded.

*Failures.* In the models of the API, with `StoreMayFail` or `CallsMayFail`, a call whose error is
returned may end the operation having taken effect or not (the `Fail` actions),
and a call whose error is discarded may silently have no effect (`Record`,
`MarkTokenUsed`, `VerifyDocuments`). `AuditMayFail` lets an insert into the ledger fail
silently: the theorems hold with it; the runs of `QRVerification` and `Registration` set it to FALSE,
for nothing reads the ledger and each insert would double the states.

*Histories.* Fields such as `replay`, `active`, `missed`, and the variables
`applied`, `decisions`, `durable`, `since`, `asked`, `createdFor`, `edited`,
`suspended`, `calm`, `sent`, `overlapped`, `recorded`, `approved`, `burned` are not read by any guard: they
remember what a property has to relate to a later state.

*Data.* Names, emails, tokens and IDs are model values. Scopes map to claims as
the two `switch` statements do. Scores are whole percents with the code's
weights, its threshold and its cap; the cosine of two embeddings is a symmetric
parameter. A record of the disk store is its version number.

*Undefined behaviour.* On the memory store two reviews may assign one field of a
shared profile at once. A Go string is two words, so the outcome may be neither
value: `ApplyAtOnce` leaves `Torn`. A read torn by a concurrent write is left out
(the captured values are checked only where they are refuted anyway).
`DiskStore` encodes a record that is being changed in place as before or after.

## 3. The runs

| Run | Instance | What it shows |
|---|---|---|
| `qr_postgres` | 2 scanners, 1 token, clock 0..2, failures, 3 different answers | whatever fails, a disclosure is justified by status, expiry and scopes, a scan after an honoured one that burned the token is refused, and `VerifyToken` implements the contract for the scans that burn their token |
| `qr_double_scan` | 2 scanners | **refuted:** overlapping scans are both honoured |
| `consent_failures` | 2 clients, 2 identities, 1 request, failures | results, events and the contract survive every failure and overlap |
| `consent_race` | 2 clients, 1 request | **refuted:** an approval and a denial overlap, the denied request keeps a result |
| `registration` | 2 registrations, 2 emails, 3 profiles, 2 EKA IDs, 2 draws, 1 guess, 2 codes per email, failures | uniqueness, single use of codes, flags and integrity of what is stored |
| `registration_documented` | the same | **refuted:** a pair is flagged that scores 50 by the rule of `docs/ARCHITECTURE.md` |
| `disk_store` | 2 records, 3 savers, versions to 3, 2 troubles | no durable change is lost; every change reaches the disk (fair); saves look atomic |
| `amendment` | 3 reviews, 2 requests, 2 fields, 1 document, both stores, failures | approvals, documents, profile and ledger agree |
| `amendment_diff` | 2 reviews | **refuted:** the recorded previous values are stale |
| `amendment_lost` | 2 reviews, 2 requests | **refuted:** on PostgreSQL one approval undoes the other |
| `clients` | 21 openings, 2 calls under way, 2 requests, 2 QR tokens, 1 document, 2 amendments; 2 health checks, 1 save, 3 platforms | what the pages show is true, forms submit once, the session agrees, behind every spinner is a call and none turns for ever; the shell leaves no backend behind and its start ends (fair) |
| `admin_review` | 1 opening of the console | **refuted:** an amendment that waits for a review has no buttons |

*Why the bounds are enough.* The races are between two calls on one object; a
third scanner, saver or review is there to begin after the first two are over
(a replay, a save that overtakes two others, a third decision). Two EKA IDs with two draws
make the last draw collide; two codes per email and one guess reach the
re-issued, the exhausted and the expired code. Three versions let an old
snapshot, a newer one and the current state differ. Two troubles allow a failed
save and a stop, or two stops. The races of the pages are between two handlers,
or a handler and an event: `MaxCalls = 2` lets a second one start or a page be left
with one under way (a third would find no place and not start: the bound holds
a person back, never an answer). Two requests and two tokens tell the present one from
the one before. Two answers to one request overlap, from the browser and from a phone or both
from the browser. Each opening aims at one page with a few clicks; the proofs hold for all
openings.

*Deadlock.* Every bounded run may stop when its budget (calls, codes, versions,
troubles) is used up; runs of the models with such budgets say
`CHECK_DEADLOCK FALSE`. The two models whose calls begin again for ever are
checked for deadlock. The clients stop when nobody clicks any more and every
call is settled.

*Mutants.* Each property of a passing run comes with a mutation of a modelled
definition, stated beside it in the module (`CheckUsedSkipped`,
`CreateUserUnchecked`, `ReadLockedWhileEncoding`, ...), under which TLC finds
the property violated.

### What the refuted properties say

* **A single-use token can be honoured twice** when scans overlap
  (`qr_service.go:132,139`): the test and the update are two calls and the
  update is unconditional. `docs/ARCHITECTURE.md:38` promises that replay is
  prevented. What the code does guarantee is `NoSequentialReplay`: no scan is honoured that began after
  one whose update took effect (an error of it is discarded at line 139).
* **A denied request can have a result** (`verification_service.go:92,98,153`),
  though `docs/ARCHITECTURE.md:45` says a result is generated upon approval. One
  client is enough when the status update fails after the result was stored.
* **The duplicate rule is not the documented one** (`deduplication_service.go:51`): the code counts a
  name (30) and a date of birth (25) each alone and flags from 70 on, so a phone and a date of birth (75)
  are a flag; `docs/ARCHITECTURE.md:49-53` counts name and date of birth only together (55) and asks for more than
  70. `DuplicatesFlagged` is about the rule of the code.
* **An approved amendment can be undone** (`amendment_service.go:288`,
  `postgres.go:486`): each approval writes back the whole row it loaded. On the
  memory store, where reviews share the record, this cannot happen
  (`SharedAmendmentsStay`).
* **The before-and-after diff can be wrong** (`amendment_service.go:307`): the
  previous values were captured when the request was made.
* **A waiting amendment cannot be reviewed in the console**
  (`admin/page.tsx:442,562`): the page compares its status with `PENDING`, the API writes
  `PENDING_REVIEW` (`models.go:44`). `MCAdminReview` adds the steps of a review, which
  `Clients` leaves out because no button leads to them.

### Noticed while modelling, and not given a run

Of the API, each visible at one line: the list of pending requests is not
filtered by status (`verification_service.go:165`, `docs/API.md:61`); the
lifetime of a token is not bounded (`handlers.go:255`, `docs/SECURITY.md:13`); a
request never expires (`verification_service.go:66`).

Of the clients; the models behave as the code does, and no property asks for more:

* The dashboard shows answered requests as pending, with buttons that work
  (`dashboard/page.tsx:713`).
* The recruiter's event stream names a topic, which only an administrator may, and is refused;
  the page says "Real-Time SSE Loop Active" (`org/page.tsx:245`). An answer published before the
  stream opens is missed.
* An error of the dashboard is shown only while there is no identity (`:382`), and the message
  about a rejected amendment is cleared by the reload that the same event causes.
* That reload replaces a custom QR code by the default one, and the form by the stored profile;
  "Valid for ... minutes" (`:679`) is about the selection, not about the code shown.
* A profile without a gender has `MALE` requested, although nobody chose it
  (the exception in `OnlyEditedFieldsRequested`). A profile that the API could not read
  (`handlers.go:203`) leaves the form as it was and nothing to compare it with: every field of the form is
  requested (`:261-281`), also those somebody changed since (the same property leaves it out).
* When the link of the verify page changes while a token is verified, the effect (`verify/page.tsx:22`)
  sends the new one without the guard of the button, and the answer that comes last is shown: it may be the identity of the
  earlier token, next to the newer link (`overlapped` in `VerdictIsOfTheToken` and `OneSubmissionAtATime`).
* Two answers to one request that overlap are both stored and both announced: the organization
  may go on showing the one that was overwritten, and the dashboard the same of its own
  (hence `recorded`, not the status, in `LiveResponseMatches` and `SuccessIsTrue`); an amendment announced as approved may be rejected afterwards.
* When the list cannot be fetched after a consent, the error stands next to a message of success that no timer clears (`:314-318`).
* A file that is read after the page was left is uploaded all the same (`:226`).
* Lists that are loaded twice may be answered in the other order; the older one stays.
  Documents once selected stay selected.
* The console hides its errors while it asks for a sign-in (`admin/page.tsx:299`), claims to have
  saved the database settings without a call, and enables the sign-in button again when the lists are refreshed
  during a sign-in (so it is not in `Submissions`).
* A file that cannot be read leaves the upload under way for ever: there is no `onerror`
  (left out of `WaitsEnd`).
* The email of the wizard can be edited while its code is requested: step 3 then names the new one.
  A registration that is answered after the wizard was left signs in all the same.
* After a late sign-in the dashboard may show the identity of the earlier session until it is left.
* A blank token shows an error beside the earlier verdict; the ID card says ACTIVE whatever the status (`DigitalEkaCard.tsx:66`).
* Saving the database settings stops the static server for good; the dying backend may
  answer the health check, so that no new one is started; and its exit event makes the shell forget
  the new process, which then outlives it (`main.js:233`; hence `calm` in
  `NoBackendOutlivesShell`). On macOS a window activated later is blank. Quitting
  during the first health check may still start a backend.

## 4. Fairness

`DiskStore`: `FairSpec` assumes weak fairness of
each goroutine in `SaveToFile`: the Go scheduler runs every runnable goroutine,
the read lock it needs is only held by other saves, and the file system answers
or returns an error. Nothing is assumed of writers, of failures or of stops:
`WritesReachDisk` excludes a change followed by a stop or a failed save, for
nothing in the code retries.

`Clients`: weak fairness of `Progress`, which is what the browser and the network
owe a page: an effect runs after its page is mounted, a `fetch` is answered or
throws, and a handler whose promises are settled goes on. It is fairness of the
disjunction, no more: every step of it settles a call, works on an answer the API has begun, ends a
stretch of a handler, or mounts a page, of which there are finitely many without a further click. And weak fairness of `ShellSteps`: the shell's
event loop runs, a health check is answered or given up after a second. Nothing is assumed
of people, of other actors, of events (a stream may never open), or of
the backend, which may be missing, die or never answer.

## 5. What is proved

The proof modules hold, for all values of the constants that satisfy the named
assumptions (`QRAssumption`, `NoTokenAssumption`, `RegistrationAssumption`, `SimilarityAssumption`,
`DiskStoreAssumption`, `AmendmentAssumption`, `NoRequestAssumption`, those
of `ConsentFlow`, and of the clients `WebBackendAssumption`,
`ApiClientAssumption`, `DesktopAssumption` and `OpeningsAssumption`):

* `TypeCorrect` in each: `Spec => []TypeOK`.
* **QR.** `DisclosuresAreJustified` from `JustifiedInv`: what a scan knows at each
  step (it began before the expiry once that was tested; the owner has been
  `ACTIVE` since it was tested) carried to the disclosure. The property itself
  says nothing of scans under way, so it is not inductive.
  `HonouredTokensAreNotReplayed` and `VerifyTokenImplementsContract`, whatever fails,
  from `BurnInv`: past a burn that took effect a token is used, and a scan that began after a
  disclosure that burned its token has seen it used.
* **Consent.** `ApprovalsHaveResults`, `ResultsAreAuthorised`,
  `EventsTellTheTruth` and the refinement `RespondRequestImplementsContract`, all
  with failing calls, from `ConsentInv`: what an answer under way knows of its
  request and its caller (`CallInv`) with the properties themselves.
* **Registration.** `AccountsAreUnique`, `EkaIDsAreUnique`, `CodesAreSpentOnce`
  (a code still pending is one nobody spent, and issues only grow),
  `NothingIsOrphaned` (what each step has stored so far) and
  `DuplicatesAreFlagged`. The last rests on two lemmas about the score, listed
  as theorems: it is symmetric, and every pair that reaches the threshold is
  preselected (arithmetic over all combinations of matching fields). The
  invariant: of two stored profiles past their evaluation, one was evaluated
  after the other was stored. `EveryAccountHasACode`, without development mode: behind
  an account is a code that was sent to its email and spent by no other registration.
  `RegistrationsEnd`: whatever changes a registration brings it nearer to its end (`StepsLeft`), in at most
  `MaxRetries + 7` steps, though draws collide with identities that others store meanwhile.
* **Disk.** `DurableIsNeverLost`: a snapshot held by a save is at least as new
  as every durable version, because no write happens while the read lock is held
  and every snapshot lies between what is committed and what is in memory.
  `SaveToFileImplementsContract`: to its users the store is `DurableStore`, which
  saves everything in one step; that step is the rename. From `CutInv`: memory is
  at most one change ahead of what is committed, and a snapshot is what is
  committed *now*, or ahead by the change being made in place. It is the read lock,
  held from the encoding to the rename, that makes this hold (the mutant
  `ReadLockedWhileEncoding` lets go of it).
  `WritesAreNotForgotten`: until it is on disk, or a stop or a failed save has taken it, a committed change
  has a save under way that includes it, or will.
* **Amendments.** All rest on `ReviewInv`: what a review under way knows of its
  request (it is stored; past the update it is applied; past the status the
  decision is). `ApprovalsWereApplied` and `DocumentsVerifiedByApproval` follow
  from it by induction. `DecisionsAreLogged` strengthens the property to
  `LedgerInv`: before the entry is written, some review still has to write it.
  `ProfileComesFromApprovals` needs `OriginInv`, which speaks also of the copies
  that reviews hold, and asks more of a value on PostgreSQL, where a review that
  fails leaves no trace. `SharedAmendmentsAreKept` needs `StayInv`: it counts a
  change as made once a review has assigned it to the shared record, not only
  once it is stored.

* **Clients.** A theorem for each invariant of the run `clients`, for any number
  of calls under way, requests, documents, tokens, amendments and clicks. None of the
  properties is inductive: what a page shows comes from an answer that was under way while the page and the
  server changed. `ClientInv` (`ClientsInvariant`) says what holds meanwhile:
  a call of the mounted page is one of that page's handlers and awaits what that handler awaits
  (`CallsInv`); what the API answered is true of the server (`Promised`), and stays true because
  the facts it speaks of are never taken back (`Grown`: accounts, documents, answers that were stored, approvals,
  a suspension that was made); an answer is stored before it is published (`WorldOK`); a form has one call and shows it, unless the link
  changed under it (`FormInv`); a verdict under way is of a token sent, the last one unless the link changed (`VerifyInv`), an organization's call under way finds no request
  shown (`OrgInv`); an event under way is true (`FeedInv`); the form differs from the profile only
  where somebody typed (`FormOK`). `ClientsInvariant` proves how the pieces change: a call that starts, goes on, ends or is
  settled, a page that is left, a world that grows. `ClientsProofs` has a lemma for
  every action of every page, puts them together in `Step`, and
  gets from `Invariance` each property by one implication.
* **Desktop.** `NoBackendLeft` from `KnownInv` (`DesktopShellProofs`): as long as no settings were saved
  there is one process at most, and the shell knows it or has told it to stop. `calm` in the
  property is why that is enough. To tell a backend to stop is all the code does: SIGTERM is not awaited and a failed
  `taskkill` is ignored (`main.js:285-293`), so a backend told to stop may live on.

### When nothing overlaps

A refuted property is one the code does not have when calls overlap or fail. These
theorems say that this is all that can go wrong: `Spec` with the assumption that
certain calls do not overlap (an environment that sends the second after the
answer to the first) has the property, for every instance.

| Theorem | Assumed | Then |
|---|---|---|
| `SerialScansDiscloseOnce` | no call fails, one scan at a time per token (`OneScanPerToken`) | a token discloses once (`AtMostOneDisclosure`, refuted by `qr_double_scan`) |
| `SerialAnswersAreFinal` | one answer at a time per request (`OneAnswerPerRequest`) | whatever fails, a settled request is not settled otherwise |
| `SerialAnswersAnnouncedOnce` | the same | whatever fails, at most one answer is announced |
| `SerialDenialsHaveNoResult` | the same, and no call fails | a denied request has no result (`DeniedHasNoResult`, refuted by `consent_race`) |
| `SerialReviewsLoseNothing` | one review at a time (`OneReviewAtATime`) | whatever fails and on either store, no stored change is undone but by another amendment of that field (`AmendmentsStay`, refuted by `amendment_lost`) |

"No call fails" is needed where it stands: an error of `MarkTokenUsed` is
discarded, and a result whose status update failed is left behind. The
assumption is on behaviours (`[]OneScanPerToken`), and behaviours that satisfy
it exist: TLC was run on each with the assumption as a constraint before the proof. The invariants
are `BurnInv` with "a scan of a token that has been honoured began after that" (`FirstScans`),
"a request is pending while it is being answered" (`PendingWhileAnswered`) with "a
result is owed to an approval" (`ResultsAreOwed`), and `SerialInv`, which says of the one
review under way that the profile it read is still the stored one.

### Behind the liveness properties

Fairness and ENABLED are beyond the prover, but what liveness rests on is safety, and is
proved for every instance:

* `WritesReachDisk`: a change not on disk has a save under way that will put it
  there (`WritesAreNotForgotten`), and a save is three steps. What remains for TLC is that
  the goroutines take them.
* `WaitsEnd`: whatever spins has a call of the page behind it whose handler will clear it
  (`WaitsAreOwed`, from what `CallsInv` says of each handler). What remains is
  that calls are settled and handlers go on.
* `StartupShowsWindow`: each step of the start brings it nearer to its end and nothing sets
  it back (`StartIsBounded`: at most `MaxChecks + 2` steps). What remains is that the shell takes them.

*Model-checked only:* these three liveness properties, and the two refuted properties about
data (`DiffAccurate`, `PendingAmendmentsReviewable`), which are not about overlaps alone or not
about them at all.

## 6. What is not modelled

* Cryptography (bcrypt, Ed25519, JWT, EKA ID draws and check symbols, credentials and DID
  documents) is opaque or an arbitrary choice. Minting and resolving read one identity and
  sign it; what is left without the signatures is assignments.
* The sliding windows of the rate limiter: they only refuse calls, which the clients bear anyway.
* `old_status` in the ledger, verification levels, paging; the review of flags inside the API
  (the console's side of it is in `AdminPage`).
* The bound of 16 events on a subscriber's channel and the end of the forwarding
  goroutines: to a page, a dropped event and a lost connection are the same.
* Of the pages: tabs, filters, copy and download buttons, optional fields of the profile, the
  layout; the timers that clear a message are the one action `MessageTimeout`. A
  `localStorage` that throws is left out. Of the shell: the files it serves, its logging, the icon script; a
  `spawn` that fails is a backend that dies at once (Electron's dialog for the error nobody listens to is left out).
* SQL schemas (the constraints the services rely on are in `Registration`), configuration,
  and the mobile client, which has no code yet.

What a continuation would add first: the ledger as a chain of status changes, the broker's channels
composed with `ConsentFlow`, and the flags' review in the API beside the console's.
