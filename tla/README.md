# Vessel Caller: formal models

Vessel Caller is a multi-tenant harbour-operations service: Django REST handlers
over PostgreSQL, Celery workers over a Redis broker, an object store, and a React
client with an offline queue. This directory holds TLA+ models of it, TLC
configurations that check them on small instances, and TLAPS proofs of the safety
properties of its server and of its clients for every size of instance.

    tlc -workers 2 -config InvoiceBilling.cfg MCInvoiceBilling
    tlapm BillingProofs.tla

## 1. The system

| Component | State it keeps | Operations | Hard behaviour | What makes it correct |
|---|---|---|---|---|
| Invoice ledger and workflow (`billing/`, `api/operation_views.py`) | step table, invoices, status history, payments | provision, create, edit and reorder steps; manual transition; record and reverse a payment | `Invoice.status` and `current_status` cache what the payment rows and the history say; steps change under invoices that are in them; retries by key | never overpaid; paid exactly when covered; history explains the present step; only payments lead to Paid; a usable workflow |
| Vessel calls and inspections (`operations/`, `api/domain.py`) | calls, inspections, tariff | register, edit, cancel; draft, edit, submit, finalize; settings | drafts outlive changes of their call; direct submission and finalization share one routine; row versions; offline retries | billed exactly once; one inspection per key; a cancelled call stays cancelled |
| E-mail outbox (`accounts/tasks.py`, `services.py`, `emailing.py`) | outbox rows, broker messages | queue after commit, deliver, retry, sweep | crash between the provider's answer and the commit; lost, duplicated and late tasks; a suspension during a delivery | a sent row is sent once; a suspended organization is silent; every row is attempted |
| Organization lifecycle (`organizations/services.py`, `api/tenant_lifecycle.py`) | access status, sessions, tokens, invitations | approve, suspend, reactivate, reset | a suspension ends everything at once; customer mutations hold the organization's row lock | nothing of a suspended organization stays usable |
| Accounts, sessions, MFA (`api/auth_views.py`, `accounts/security.py`) | sessions, action tokens, challenges, failure counters | sign in, MFA, reset, sign out | a password is proven before the lock under which it counts; challenges and links outlive what they rest on | no session, challenge or link works after the access it rests on changed |
| Users and invitations (`api/user_views.py`, `UserManagement.tsx`) | users, roles, invitations, temporary passwords | invite, accept, create, change role, suspend, remove | two Admins act on each other from lists of any age | an organization always has an Admin who can sign in |
| Sign-up links and join requests (`accounts/organization_join.py`) | the link in force, requests | create and end a link, ask, verify, approve, reject | three ways into an organization meet in one address | one account per address and per request |
| System administration (`api/system_admin_views.py`, `api/platform_idempotency.py`, `frontend/src/system`) | idempotency records, the operators' copies and dialogs | platform mutations by key and revision | a retry and the delayed original both arrive; a payload changes between attempts | one confirmation acts once; a key names one payload |
| Measurements and disparity billing (`measurements/`) | plans, readings, reconciliations, acknowledgements, assessments | record, propose, acknowledge, finalize, amend, assess, invoice | forms opened on plans that change; a second round of quantities is billed against the first | only current, agreed quantities are final; invoices add up to the entitlement |
| Agency portal (`measurements/portal.py`, `GuestAgencyReading.tsx`, `AgencyReadingPage.tsx`) | links, guest pages | open a link, submit, replace and revoke links | an answer is lost and the page sends again; a link is replaced under an open page | one reading per agency, made independently; no false refusal |
| Browser authentication context (`AuthContext.tsx`, `authSessionEpoch.ts`, `api.ts`) | per tab: status, user, epoch, pending operations; one cookie | sign in, out and over, rotate, hydrate, broadcast | every tab shares one cookie; answers arrive after the identity changed | the tabs agree with the cookie; no late answer revives or ends a session |
| Workspace store (`store.tsx`) | per browser: records, revision, forms, polls | poll, merge an answer, edit, capture | answers overtake polls; forms are older than the list | no version is overwritten unseen |
| Offline queue (`offlineQueue.ts`) | IndexedDB captures shared by the tabs | queue, flush, block, retry, clear | a flush is repeated after its answer was lost; a sign-out in the middle | a capture is kept until it is one inspection |
| Capture wizards (`Inspections.tsx`, `MobileApp.tsx`, `calc.ts`) | form, step, preview, request | step, save, resume, submit | rates change and the call is cancelled under the form | the screen's figures are the server's |
| Voyage close-out preview (`closeoutPreview.ts`, `VoyageReadings.tsx`, `VariationInvoice.tsx`) | reports, variation drafts in localStorage | prepare, review, return, bill | two tabs write one record; readings change behind a report | nothing payable without an independent approval; history is kept |
| Retired application (`calabar/`, `mobile/`) | the whole port data, in each tab and in localStorage | all of the above, without a server | every tab writes everything | every copy is sound |
| Document numbers, evidence and attachments, audit trail, serializers, permissions, PDFs, deployment | - | - | see section 7 | - |

How the parts interact:

* **One lock per organization.** `TenantLifecycleAPIView.dispatch` and
  `domain.locked_organization` make every customer mutation one transaction that
  holds the organization's row; an error rolls it back. Customer handlers are thus
  serial within one organization, and each is one action of a model. What remains
  is the *order* of handlers, and everything that takes several of them. A
  measurement plan's row and a platform mutation are locked the same way.
* **Calls.** `finalize_inspection` issues invoices through the billing services
  inside the operations transaction; disparity assessments do the same.
* **Messages.** Handlers insert outbox rows in their transaction and publish a
  Celery task after the commit, best effort. Workers take the organization's lock
  for the whole delivery, so a suspension and a delivery exclude each other.
* **Copies.** The browser polls with the revision it has and sends the version of the
  row it shows; the platform console sends the organization's revision; an agency's
  page sends a request id. What a screen shows is always a copy of some age, and most
  of what is hard in this system is a decision taken on one.
* **Tabs.** Tabs of one browser share the session cookie, the IndexedDB queue and
  localStorage, and tell each other by broadcast messages and storage events.

The hazards, each at its line, with the properties that watch it, are in
`PROJECT.json`.

## 2. Modules

| Module | What it is | Run |
|---|---|---|
| `PaymentLedger` | abstract specification: accounts that are opened, credited up to their dues and debited; settled means covered | `billing` |
| `InvoiceBilling` | the ledger and workflow of one organization | `billing`, `operations` |
| `VesselOperations` | calls and inspections composed with `InvoiceBilling` (EXTENDS) | `operations` |
| `BillingProofs` | proofs: the money, workflow and history of `InvoiceBilling`, that it implements `PaymentLedger`, and that `VesselOperations` implements it and bills exactly once | - |
| `EmailOutbox` | outbox rows, the broker, the workers and the access of the organizations | `outbox`, `outbox_delivery` |
| `EmailOutboxProofs` | proofs: the safety of the outbox | - |
| `BrowserSession` | the signed-in identity of several tabs over one cookie | `session` |
| `BrowserSessionProofs` | proofs: the tabs and the cookie, and the loading screens | - |
| `WorkspaceSync` | the records each browser keeps, polls and its own writes | `store` |
| `OfflineQueue` | captures queued in IndexedDB and replayed | `store` |
| `StoreProofs` | proofs: no blind write, what the retired clients keep up with, and the queue's promise (EXTENDS `MCStore`) | - |
| `CaptureWizard` | the four capture screens and their figures | `screens` |
| `VoyageCloseout` | reports and variation drafts of a voyage in the browser's storage | `screens` |
| `LocalFallback` | the retired applications over localStorage | `screens` |
| `ScreensProofs` | proofs: `CaptureWizard`, `LocalFallback` and `VoyageCloseout` (EXTENDS `MCScreens`) | - |
| `AccountAdmission` | three ways into an organization | `accounts` |
| `AccountAccess` | sign-in, recovery and the Admins' decisions | `accounts` |
| `SystemConsole` | the operators' console and idempotent platform mutations | `accounts` |
| `AccountsProofs` | proofs: `AccountAccess`, `AccountAdmission` and `SystemConsole` (EXTENDS `MCAccounts`) | - |
| `MeasurementPlan` | readings, reconciliation, finalization and disparity billing | `measurements` |
| `AgencyPortal` | the agencies' links and pages, composed with `MeasurementPlan` (EXTENDS) | `measurements` |
| `MeasurementProofs` | proofs: plan and portal together | - |
| `FiniteFacts` | lemmas the proofs share: sums over finite sets, the largest of finitely many numbers | - |
| `MC...` | constants, scopes, symmetry and the recursive SUM for TLC | all |

A definition whose comment begins with "Mutant" is a plausible bug of the
definition below it. No action uses it; `PROJECT.json` pairs it with the property
that must fail when it takes that definition's place. A property that joins several
promises has a mutant for each of them.

**Scopes.** One instance that is large in every direction is out of TLC's reach, and
most questions need size in one direction only. Such a module has a variable that
`Init` takes from a constant set of *scopes* and that no action changes: a record of
who takes part and how often. A run then covers the union of its scopes, each of them
exhaustively. `store`, `screens` and `accounts` also put two or three modules that
share no variable into one run; its `Init` chooses which of them moves, and the others
stay in their initial state.

### InvoiceBilling

One variable per column that matters: `steps`, `active`, `notifying` and `position`
for `InvoiceStatusStep`; `issued`, `dues`, `status` and `current` for `Invoice`;
`events` for `InvoiceStatusEvent`; `payments` for `Payment`; `notices` for the event
keys of queued outbox rows; `revision`.

| Action | Handler |
|---|---|
| `ProvisionSteps` | `ensure_default_steps`, reached by GET of the state and of the steps |
| `CreateStep`, `UpdateStep`, `ReorderSteps` | the POST, PATCH and reorder views of status steps |
| `IssueInvoice` | the billing part of `finalize_inspection` |
| `TransitionManually` | `InvoiceTransitionView` |
| `CreatePayment`, `ReplayPayment` | `PaymentCreateView`, and the same with a key already used |
| `ReversePayment` | `PaymentReverseView` |
| `OtherMutation` | a mutation of another component that bumps `revision` |

`TransitionInvoice` and `ReconcilePaymentStatus` are the service routines, event,
notice and lazy provisioning included. A request that is refused changes nothing and
is not an action. The initial states are those of a new organization and those
the legacy importer leaves: an imported invoice has no step and no history, and is
unpaid, paid with one payment of exactly its dues (the retired application stamped
the payment with the dues), or paid without a payment.

Abstractions: amounts are whole cents; labels, roles, methods and dates are left
out; positions count in ones where the code counts in tens; `SUM(amount)` is the
constant operator `SumAmounts` with the two facts of `SumAssumption`, so that the
proofs need no recursion, and TLC's `MCSumAmounts` is checked against those facts.

### VesselOperations

`calls` and `inspections` carry status, version and the inputs of the dues.
`RegisterCall`, `EditCall`, `CancelCall`, `DraftInspection`, `SubmitInspection`,
`ReplayInspection`, `EditInspection`, `FinalizeInspection` and `UpdateSettings` are
the views of the same names. A finalization completes the inspection and its call,
computes the dues (`Money` keeps the half-up rounding, `RateForInspection` the jetty
no tariff covers, which is charged nothing), issues the invoice and bumps the
revision, twice on the paths where the code does. A stale version answers 409 and
changes nothing, so an enabled action is a request with the present version or, as
the serializers allow, with none.

### EmailOutbox

`outbox` is the committed status of a row, `messages` what the broker holds (by row
and retry number), `worker` the phase of each worker process, `delivered` the rows
the provider has accepted. A delivery is several steps (`Take`, `Begin`,
`ProviderAccepts` or `ProviderFails`, `Commit`, `PublishRetry`, `Acknowledge`) because
other processes act between them; it holds the organization's lock from `Begin` to
`Commit`. `Crash` rolls the transaction back. Tasks are acknowledged late, so the
message of a worker that is gone is handed out again; but `task_reject_on_worker_lost`
is not set, so when only the pool process of the task dies the worker acknowledges
the message and it is gone (counted as a lost one, too). The whole delivery is one
transaction, so "sending" is never committed and no other process sees it. `Approve`,
`Suspend` and `Reactivate` are the platform services as far as mail is concerned. The
broker (`Put`, `LoseMessage`) is outside the repository and modelled from its use.

### BrowserSession

Each tab has a status, the user it remembers (`identityRef`), its pending operations and the
peers whose announced transition it waits for; `inbox` holds the broadcast messages on their way,
`lock` the tab that holds the Web Lock under which the cookie changes, `cookie` the user
the server recognizes. A synchronous run of JavaScript is one action; requests are
begun, sent, answered and received in steps of their own. The code's generation,
epoch, intent and operation counters are only ever compared with a snapshot, so a
pending operation carries one flag for each: unchanged since. The continuation of a
request runs before the next one of its tab gets the lock (promise callbacks come before
the grant, which is a task), so `Send` waits for it. Requests and answers are
lost, sessions end on the server, tabs are closed, and the watchdog of an announced
transition fires.

### WorkspaceSync and OfflineQueue

`history` is the server's records at every revision and `store` what each client shows.
A poll is sent, answered from the server's state at that moment and applied later, or
lost; an answer of a write is merged in between (`MergeWrite`), and raises the cursor by
the rule of the current client or of the retired ones (`AdvanceRev`). `known`, what a
client was ever shown, only serves the properties. A write of an inspection also writes its
call: a draft reopens a completed call, a completion (`SendInspection` with the finalize
request after it) completes it, and both give the call a new version. The retired
application deletes a cancelled call together with its inspections and has no form for
editing a call; the edit form belongs to the current client alone.

The queue is one object store that every tab shares. A `Mount` is one life of
`StoreProvider`; its submission and its flush stop wherever the code awaits a request or
a transaction (`Submit`, `NextItem`, `Answer`, `Fault`, `RemoveItem`, `LookUp`, `Mark`,
`Store`), and go on after the component is unmounted. `Fault` loses a request or its
answer, or has the server refuse evidence or a finalization; a submission that fails in any
way while the browser says it is offline is queued. `SignOut`, `RemoteLogout` and
`ClearOwner` are the parts of a sign-out.

### CaptureWizard, VoyageCloseout, LocalFallback

`CaptureWizard` has one form at one of four screens and the request it sends, with the
rates the client was last sent and the rates the server has. Both computations are
modelled with their own rounding. The server's `Decimal` rounds a half up (`Round`, in
`Issue`). The device rounds a binary double with `Math.round`, and a product that is exactly
half a cent may be represented by a double just below it; `DoubleRound` is therefore a *set*,
with both neighbours at an exact half, and `CalcDues` and `CalcPreview` choose from it. Rates
may be zero, as the settings form and the server allow.

`VoyageCloseout` keeps the record of a voyage in localStorage. Every change reads the
record, changes it and writes it back in one step, but from a page that shows an
older one, until the storage event arrives; the agencies' readings are as old as the
tab's last poll. One user is signed in at a time. A save that meets a full storage is
the action's `room`. The stored record may begin with a report saved before the review step
existed: it has no status, and the code reads it as approved (`reportStatus`).

`LocalFallback` gives every tab the whole port data. A desktop tab writes all of it
after every change, one received from another tab included; a mobile tab writes what
it captures. Forms keep a copy from when they were opened.

### AccountAdmission, AccountAccess, SystemConsole

Every server operation holds the organization's lock and is one action. What may be old
is the Admin's drawer (`form`, `review`, `row`) and the password a sign-in proved before
the lock (`proof`). An account keeps the invitation link it was made with (`users[s].link`),
to be compared with `retired`, the links that were superseded, revoked, ended by a suspension
or expired. `era` (suspensions) and `cred` (passwords an account has had) count so that
a session, challenge or link can be compared with the access it rests on.

Beside the Admins' own operations there are the operator's resend of an Admin invitation
(`OperatorResend`, which does not ask whether the address is taken), a member's change of
address (`RequestEmailChange`, `VerifyEmailChange`), verification links and their resend
(`VerifyEmail`, `ResendVerification`) and the operator's reset of a second factor
(`OperatorResetMfa`).

In `SystemConsole` each operator has a cached copy (`view`), an open dialog (`task`) and the
idempotency key each kind of dialog holds (`hook`). `Send` puts a request on `net`, where
it outlives the dialog that gives up on it; requests are numbered (`copy`), so an unchanged
retry and its delayed original may both arrive. `Serve` is the wrapper of
`platform_idempotency.py` with the handler inside; `store` are the answers it keeps. An
organization is approved once a registered Admin has verified the address (`org.ready`,
`MemberVerifies`).

### MeasurementPlan and AgencyPortal

The plan has `readings`, `proposals` (reconciliations, by revision) and `assessments`;
`form` is each member's open form and whether the version it will send is still the
plan's. Versions only grow, so equality is all a version can tell. `Entitlement` keeps
tolerance, deductible and rounding; `prior_invoiced` what earlier rounds billed.

`AgencyPortal` adds `links`, the guests' `pages` and submissions under way (`posts`). A post
arrives, arrives twice, arrives after the page gave up, or never; a page that sends
again keeps its request id while its entries are unchanged. `voyage` is what a link rests
on outside the plan: the call's status and name and the organization's access. A link is
compared with the schedule *and* the name it was issued for, so an edit of the call
(`EditCall`) ends it, and in a suspended organization none is served (`ChangeAccess`).
`Reload` is a page that comes back with its context id: openness and fingerprint are not
checked again, and the page has forgotten its request id.

## 3. Runs

| Run | Shows |
|---|---|
| `billing` | one new and one imported invoice under every order of step changes, transitions, payments, reversals and retries: `NeverOverpaid`, `PaidIffCovered`, `HistoryExplainsStep`, `PaidIsGated`, `WorkflowUsable`, `EntersLiveSteps`, and the refinement `ImplementsLedger` |
| `operations` | calls and inspections with their invoices: `BilledExactlyOnce`, and that operations use the ledger only as `InvoiceBilling` allows (`ImplementsBilling`) |
| `cancelled_call` | violation, finding 1 |
| `outbox` | crashes, lost and duplicated tasks, retries and access changes: `SentOnceAndErased`, `SuspendedIsSilent` |
| `outbox_delivery` | any two of a refused publication, a lost task, a crash, a provider failure and a change of access: `EveryRowIsAttempted`, and `DeliveredUnlessLost` |
| `lost_task` | violation, finding 2 |
| `session` | two tabs that sign in, out and over, rotate sessions, lose answers and are closed: `TabsAgreeWithCookie` once all is quiet, `LoadingIsAwaited` but for the two screens its text names, `FollowsCookie` |
| `store` | two clients that poll and write, and two tabs that share a queue: `NoBlindWrite`, `RetiredKeepsUp`, `PromiseKept` |
| `lost_edit` | violation, finding 3; the current client alone |
| `screens` | `FiguresAgree` at the four capture screens, zero rates and half cents included; `PayableIsSound` and `HistoryKept` of the close-out in two tabs, and after a report without a status; `CopiesSound` of the retired application in two or three tabs |
| `accounts` | `OneWayIn` and `DeadLinksGrantNothing` for three paths into one address, and for two addresses that accounts move between; `NothingOutlived` and `AdminRemains` for two members, two devices and suspensions; `ActsOnce` for two operators with delayed and repeated requests |
| `measurements` | a plan through readings, two members' forms, finalization, amendment and three rounds of billing, and agencies that submit, repeat, reload and lose answers while calls are edited and the organization is suspended: `FinalIsSound`, `BilledIsEntitlement`, `OneLinkReading`, `NoFalseRefusal` |

Each run also checks the type invariants of its modules (`outbox_delivery` shares its
module with `outbox`). Deadlock is not checked: the counters of section 4 stop every
model in the end, and a service without requests is idle.

### Findings

1. **A cancelled call is completed and billed** (`cancelled_call`). A draft inspection
   is taken, the call is cancelled, the draft is finalized: `finalize_inspection`
   (`backend/api/domain.py:77`) sets the call to completed and issues the invoice
   without looking at the call's status. The handlers beside it refuse: "A cancelled
   call cannot be inspected", "A cancelled call cannot be edited".
2. **A lost retry is not recovered** (`lost_task`). A failed attempt commits the row as
   failed even when Celery will retry it (`backend/accounts/tasks.py:89`); when that
   retry is lost, the sweep passes over the row because it looks for pending ones.
   ADR 0004 promises recovery from the "loss of a previously published task".
3. **An edit is saved over one its author never saw** (`lost_edit`). The edit form of a call
   keeps the fields it was opened with, but `updateCall` (`store.tsx:335`) sends the version
   the store has when it is saved, which a poll may have moved on meanwhile; the check
   behind "The resource changed. Refresh and try again" then passes. In the trace one member
   opens the form, the other saves an edit, a poll brings it to the first member's list,
   and the first member's save is accepted over it.

### Observations

Behaviour met while modelling that no run is about, because the text beside it promises
nothing else or because the models' properties set it aside in so many words.

* Ledger: an invoice for zero dues stays unpaid for good while a payment is refused
  because it "is already fully paid"; `PaidIffCovered` sets zero dues aside. Only
  reordering keeps Paid last: a step created afterwards comes behind it.
* Session: two loading screens have nothing to end them, and `LoadingIsAwaited` sets both
  aside. A password reset or rotation begun in a tab that is still loading, and refused,
  leaves that tab loading (`api.ts:226` advances the epoch at the start, so the hydration's
  answer is dropped and nothing replaces it). And when the watchdog makes a tab ask that has
  signed in itself meanwhile, and the answer is lost, the error screen appears but the
  remembered identity stays; if the user then retries and, while that loads, a sign-in is
  refused, `settleIdentityAttemptWithoutSession` (`AuthContext.tsx:265`) sees an identity and
  leaves the screen loading. No text of the repository promises otherwise, so neither is a
  finding. A peer may still show the previous member at the moment the cookie changes, and
  a tab closed in mid-request leaves its peers showing a session that has ended until they
  next ask; the first part of `FollowsCookie` is off once a session was ended by the server,
  an answer lost or a tab closed.
* Store: the current client's `mergeInspection` raises its cursor past changes it has not
  fetched (`store.tsx:232`), so the next poll answers "unchanged" and they stay unseen until
  something else changes; the new version a saved draft gives its own call
  (`operation_views.py:347`) is such a change. `RetiredKeepsUp` is about the older rule; its
  mutant `NewestRev` is the current one. A draft on a completed call reopens it, and a
  completion writes the call without asking for its version. `addCall` can list a call twice.
  A cancelled call stays in the current list, so the effect of `MobileApp.tsx:58` never closes
  a capture. `updateCallStatus` (marking a call berthed) sends the list's version as a
  cancellation does, and is not an action of its own.
* Queue: an update whose finalization succeeded and whose answer was lost is refused on
  its retry and stays blocked. `mark` reads and writes apart, and may put a removed item
  back, which the idempotency key makes harmless. The cleanup after a sign-out may
  delete a capture queued after the next sign-in.
* Screens: where dues are exactly half a cent the device may show a cent less than the
  invoice (net tonnage 1 at 1.005: 1.00 on the screen, 1.01 charged); `FiguresAgree` allows
  that and nothing else. The mobile success screen shows the device's figures, not the
  invoice's (`MobileApp.tsx:279`; `FiguresAgree` says desktop), and the naira commission is
  previewed in whole naira but charged in kobo. A close-out report without a status counts as
  approved and is billed without a second reviewer (`closeoutPreview.ts:37`, as
  `closeoutPreview.test.tsx:225` wants it); `PayableIsSound` says so. The invoice editor keeps
  the rate 0 of a line that a new report raises above the declaration
  (`VariationInvoice.tsx:89`). In the retired application a deletion takes completed
  inspections with it, and whole-data writes drop changes that cross them.
* Accounts: an invitation can stay usable beside a live account of its address, which is why
  `OneWayIn` promises nothing of links: the operator's resend renews and mails it without
  asking whether the address is taken (`system_admin_views.py:616`), a member's change of
  address may end on an invited one (`auth_views.py:293`, `:823`), and the approval of a join
  request leaves an invitation pending; using the link is then refused. A verification link makes
  an account active again whatever became of it meanwhile (`auth_views.py:311`), and moves a
  removed one to its new address. Reactivating from an old list revives a removed account
  (`user_views.py:149`). A suspension leaves sign-up links and join requests usable after the
  reactivation. The console's profile form sends a refetched revision with its old fields
  (`SystemOrganizationDetail.tsx:218`).
* Measurements: the agency form is keyed by agency and keeps old figures under a new
  version (`AgencyCollection.tsx:161`). Editing title, time or place of the plan, or name or
  reference of the call, ends outstanding links without a word. Staff may record,
  finalize and bill on a cancelled call. Entries that are changed and changed back get a new
  request id, and a reloaded page has none, so that such a retry is refused although the first
  submission is on record; `NoFalseRefusal` is about the id of the present attempt, so it
  says nothing of these.

## 4. Bounds

| Bound | Where | Why it is enough |
|---|---|---|
| `MaxRevision` 7 | billing, operations | six mutations in a behaviour (provisioning and replays are free): enough to issue, pay in two parts, reverse and pay again, or to add a step, issue, move, pay, deactivate the step and reverse, so that an older step is restored |
| two invoices, one imported | billing | invoices share only the step table; one of each origin shows both histories |
| one review step, one custom step, Paid | billing | the step an invoice is in, another it moved to and that is deactivated behind it, and Paid; further steps repeat these parts |
| dues 0 and 2, `MaxAmount` 2 | billing | nothing owed, a part payment, a full one |
| two references, one key | billing | two payments of one invoice, a retry and a payment without a key |
| one call, two inspections, two tonnages, two tariffs | operations | two drafts of one call, dues that round up and change between draft and finalization |
| two workers, two rows, one organization | outbox | two deliveries of the same row, and of different rows under one lock |
| `MaxRetries` 1 (code: 5), `BatchSize` 1 (code: 100) | outbox | first and last retry differ; the sweep has to choose |
| `MaxCopies` 1 | outbox | with a copy in the broker and one at each worker a row has three tasks at once; a further copy is dropped, which removes only repetitions |
| `MaxFaults`, one of each kind of fault | outbox | every fault at every point; with liveness any two of them in one behaviour |
| two tabs, two users, two clicks | session | a tab that acts and one that hears of it, or two that race; two users tell a revived session from the present one. Scopes: sign-ins while a tab loads; rotations, temporary passwords and second factors; late answers to ordinary requests and sessions ended by the server; lost answers and closed tabs |
| two clients, one call, one inspection, three revisions, one poll under way each | store | an answer and a poll that overtake each other, and a second client's change between them |
| two mounts, two captures, two faults, one cancellation or one sign-out | store | two loops over the same item, a lost answer and its retry, a refusal that blocks, a sign-out in mid-flush |
| two sets of rates, net tonnage 7, one change by others, two submissions, tonnages 0 and 1 | screens | rates that need rounding in each rule, some that make exactly half a cent, and a rate of zero; a change under the form; a second attempt |
| two reports, one invoice, two tabs with one line; one tab with two lines; one tab that finds a report without a status | screens | a revised report while the other tab still shows the first; a line above and a line below the declaration, and one without a tariff; an old report billed, and followed by a reviewed one |
| one call and two captures or two rates in a desktop and a mobile tab; two members in two desktop tabs; one storage event waiting | screens | crossing writes of whole data sets, and forms saved over each other |
| one address, two accounts, two tokens, or two requests over two links; two addresses, two accounts, two tokens | accounts | the paths meet in pairs; a renewed invitation beside the old one; a second request after a removal; an account that moves to an invited address |
| two members, two devices; two suspensions; three passwords | accounts | two Admins acting on each other; before, between and after suspensions; a temporary password replaced twice |
| two operators, three keys, four revisions; one operator with two copies of a request | accounts | a retry under the old key, one under a new key, and another operator's change in between; an original that arrives after its unchanged retry |
| two members, two agencies, two lines, three proposals and assessments | measurements | a proposal that is disputed, revised and amended; three rounds of billing up and down under the same terms, two under terms that change; required and optional agencies |
| two pages and two links; or one page with two bodies, two request ids and two schedules; or one page with two names of the call and a suspension | measurements | a replaced link under an open page; changed entries between attempts, and a reload; a call that is edited, or an organization that is suspended, between two attempts |

References are symmetric in `billing`, workers in `outbox`, tabs and users in `session`,
clients and mounts in `store`; the runs with liveness properties use no symmetry, nor do
those whose scopes name their members.

## 5. Fairness

Only `EmailOutbox` has liveness. Weak fairness of taking a task, of the provider's
answer (the HTTP call has a 15-second timeout) and of the steps after it says that
workers keep running. `Begin` is strongly fair: it waits for a row lock that other
deliveries hold in between, and PostgreSQL grants row locks in turn. `Sweep` is
weakly fair: the worker's timer (`OutboxDispatcherStep`) enqueues it every minute.
Web requests, access changes and faults have none. The sweep runs in a worker slot
in reality; the model lets it run beside the workers, which matters only if every
slot were busy for ever, and the timeout excludes that.

The browser models state what must eventually happen as safety instead, because a
closed laptop owes nobody progress: `TabsAgreeWithCookie` holds whenever nothing is under
way, `LoadingIsAwaited` says that a loading tab has something that will end it, and
`PromiseKept` that a capture is somewhere it can still be sent from.

## 6. Proofs

Every theorem is for all values of the constants that the modules' named assumptions
allow: any number of invoices, tabs, members, agencies, keys, retries and revisions,
and every scope. TLC evaluates the assumptions in the runs.

| Module | Theorems (`Spec => []...` unless said otherwise) | Inductive invariant |
|---|---|---|
| `BillingProofs` | `TypeOK`, `NeverOverpaid`, `PaidIffCovered`; the refinement `ImplementsLedger`; `WorkflowUsable`, `HistoryExplainsStep`, `PaidIsGated`; the action property `EntersLiveSteps`; the refinement `ImplementsBilling`; `OperationsTypeOK`, `BilledExactlyOnce`; the billing invariants, carried over to the operations | `MoneyInv`, `WorkflowInv`, `BilledInv` |
| `EmailOutboxProofs` | `TypeOK`, `SentOnceAndErased`, `SuspendedIsSilent` | `OutboxInv` |
| `BrowserSessionProofs` | `TypeOK`, `TabsAgreeWithCookie`; the action property `FollowsCookie`; `LoadingIsAwaited` | `SessionInv`, `LoadingInv` |
| `StoreProofs` | `SyncTypeOK`, `NoBlindWrite`, `RetiredKeepsUp`; `QueueTypeOK`, `PromiseKept`; `Spec => SyncSpec /\ QueueSpec` and `StoreTypeOK` | `SyncInv`, `QueueInv` |
| `ScreensProofs` | `FiguresAgree`, `CopiesSound`, `PayableIsSound`; the action property `HistoryKept`; `Spec => WizardSpec /\ LocalSpec /\ CloseoutSpec` and `ScreensTypeOK` | `WizardInv`, `LocalInv`, `CloseoutInv` |
| `AccountsProofs` | `AccessTypeOK`, `NothingOutlived`, `AdminRemains`; `AdmissionTypeOK`, `OneWayIn`, `DeadLinksGrantNothing`; `ConsoleTypeOK`, `ActsOnce`; `Spec => AdmissionSpec /\ AccessSpec /\ ConsoleSpec` and `AccountsTypeOK` | `AccessInv`, `AdmissionInv`, `ConsoleInv` |
| `MeasurementProofs` | `PortalTypeOK`, `FinalIsSound`, `BilledIsEntitlement`, `OneLinkReading`; the action property `NoFalseRefusal` | `PlanInv`, `PortalInv` |

A proof has one lemma per action (`...Keeps`) and, below them, lemmas for what several
actions share: a step that only touches the screens, a step that adds a reading, a page
that changes while the links stay.

**Money (`MoneyInv`).** Neither `NeverOverpaid` nor `PaidIffCovered` is inductive: a
payment is refused by `status`, a sum over the rows and the uniqueness of its reference,
and reopening goes by `current`. `MoneyInv` ties them together: references are unique
within an invoice (else two payments would be one credit), an invoice not issued has no
payments, and every issued invoice is *settled* (paid, its live payments equal its dues),
*carried over* (imported as paid without a payment), *owing* (unpaid, not at Paid, below
the dues) or issued for *nothing*. The lemmas on `ActivePaid` say that a payment adds
its amount and a reversal takes it away. For the refinement an account is open when
issued, credited with `ActivePaid` and settled when paid; payments are `Credit`,
reversals `Debit`, issuing `Open`, everything else stutters.

**Workflow (`WorkflowInv`).** What any step does to one history is said once
(`Recorded`): nothing, or one event from the present step to another that is active,
gated at Paid. The chain of the history follows from it; the usable step table is needed
for a reversal to find an active step, and `MoneyInv` for what a payment settles.

**Operations.** Every handler is a step of billing or a mere bump of the revision, so the
composition implements `BillingSpec`, and the theorems about it carry over without being
proved again. `BilledExactlyOnce` is inductive once the invoice a finalization issues is
known to be new.

**Outbox (`OutboxInv`).** The two properties need the lock stated as a fact about the
workers (one delivery per organization at a time), that a worker about to mark its row
has the provider's acceptance, and that only committed rows have tasks.

**Workspace (`SyncInv`).** What a client was shown covers its list, and under the retired
rule everything up to its cursor. The retired rule advances only over its own write, so
an accepted write has to be known as the one change between its revision and the one before.

**Queue (`QueueInv`).** Every suspended step of a loop is tied to the server's row: who
uploads evidence or finalizes knows an inspection exists, who removes an item knows that it
is complete, and a capture has one submission at most, which alone may report on it.

**Session (`SessionInv`).** `TabsAgreeWithCookie` speaks of quiet moments only, so the
invariant has to say what holds in between. *(a)* Of each tab whose inbox is empty: what
it shows, and what an answer it is about to apply would make it show, is what the cookie
names, or the session ended unseen (`Agree`). *(b)* While a request that changes the
identity is under way in one tab, every other tab has forgotten its identity or has a
message that will make it (`Forgetful`); this is what lets the cookie change under (a).
*(c)* Within a tab, at most one request is out; a request of the current generation was
begun after every change of identity that is queued and waits behind it (`QueueSound`);
nobody is signed in while a change is pending, and no ordinary request of the earlier
session can end the next one (`PendingSound`). Most steps only make a tab *calmer*: their
operations are those of before with older snapshots, and lemma `CalmStepKeeps` deals with
all of them. `FollowsCookie` then follows step by step from (a).

**Loading (`LoadingInv`).** A loading tab waits for a message, for a peer or for a request
of its own. For a peer: each transition a tab waits for or has yet to hear of is
*reported*, its request is under way, a later message in the inbox says it settled, or
its tab is closed, when the watchdog fires. For a request: some pending operation
*drives* the screen, and when it is superseded it is so by one that drives. The
property's own `Ends` is not inductive: a refresh never ends a loading screen, and an
attempt that waits for a sign-out does only while it is the latest. Where no answer was
lost no tab is on its error screen and no loading tab remembers anybody, which the
last part of the invariant adds.

**Screens.** `WizardInv` says which steps a form has passed at its present one, that the
request under way carries that form's figures, and that the confirmation is of the
invoice; what preview and invoice have to do with each other is then arithmetic: every
member of `DoubleRound` is the server's rounding or, at an exact half, one less, and so
`Mirrors` holds of each figure. The arithmetic rests on the abstraction that doubles err
at exact halves only, which is so for amounts far below 2^53 hundredths.
`LocalInv` says there is *one* price for every invoice number that explains all copies at
once (tabs, storage, events on their way), however they were overwritten, and that a
number is drawn once; comparing the copies two by two is not inductive. `CloseoutInv` says of the
stored record that reports and invoices refer to earlier ones, that an approved report
was reviewed by somebody else or is the one without a status, and that an invoice charges
what its report's details make; a tab shows nothing that was not stored. The three composed
modules share no variable: the composition implements each part's specification, as it
does for the store and the accounts, and what is proved of a part holds of the whole.

**Accounts.** `AccessInv` adds to the properties that a temporary password is the last one
an account was given. `AdmissionInv` orders accounts and requests by their slots, gives
every pending invitation a token of its own, retired only if it has expired, and says which account
each approved request and each accepted link made; a link that was accepted belongs to no
pending invitation any more, so nothing retires it afterwards or makes a second account of
it. `ConsoleInv` says that a key has one meaning wherever it is (a dialog, the
network, a record) and that all current requests of a dialog carry one key, completed
once its change was made; without the first, a record answers for another payload, and
without the second, a retry acts again.

**Measurements (`PlanInv`, `PortalInv`).** `FinalIsSound` and `BilledIsEntitlement` name the
last of a set by `Max`; the invariant says instead that none is later. It adds that drafts
are not finalized, that what may be invoiced holds no credit, and which proposal an
assessment is of. Billing needs sums over sets of invoices: the community module's fold is
defined by a CHOSEN recursive function, and `FiniteFacts` shows that such a function
exists for every finite set, that any two agree, and that an element adds its value. The
portal's part ties a used link to its reading, and a link without one to no request.

**Assumptions about constants**, beside their being of the right kind: references,
outbox rows and users are finite sets; there is at least one call; a scope has at least
one revision; the markers for "none" (`NoRow`, `Nobody`, `None`, `NoOne`, ...) are no
member of what they stand beside, records included; the lines, final quantities and rates
of a close-out are finite, it has a rate, a sheet of readings and room for a report, and
the rates of a survey may be zero; the retired
application has a rate; `SumAssumption` (what SQL's SUM
answers), which TLC checks for the sum the runs use.

**Induction.** The library's induction theorems take a predicate, which the provers
at hand cannot instantiate. Where a proof needs induction over the size of a finite set it
uses the same fact for a *set* of numbers, shown from the well-foundedness of `<`
(`SetInduction`).

**Only model-checked.**

* Liveness (`EveryRowIsAttempted`, `DeliveredUnlessLost`): fairness and ENABLED are outside
  the prover's reach.

Every other invariant and action property of a passing run is a theorem.

## 7. Not modelled

* **Document numbers.** Per-year counters taken under a row lock in the transaction that
  uses the number; identifiers stand for the numbers in every model.
* **Evidence and invoice attachments.** Presigned uploads, promotion and deletion in the
  object store are I/O beside the rows; no model needs their state.
* **Audit trail.** Written beside every mutation and never read back.
* **Serializers, permissions, PDF documents, layout.** Input validation, role tables and
  rendering have no state of their own. Screens that hold state are modelled with the
  component they drive.
* **Retired servers and deployment.** Imported data appears in the initial states of the
  ledger; the retired browser clients are in `WorkspaceSync` and `LocalFallback`.
* **Within modelled parts:** the protected void status, which no handler enters; the
  arithmetic of one-time codes, rate limits and recovery-code lists; names, phone numbers
  and pictures; the creation of an organization with its first Admin; the directory of
  agencies; edits of a plan's participants and lines, which no screen sends; the
  console's list and audit view; the tariff of the close-out preview, a constant.
* Reads and writes of localStorage within one synchronous run are taken as one step, as
  the browsers' storage lock makes them in practice.
