# Callflow: a verification project

Callflow answers the missed calls of small businesses: an owner signs up and pays through Dodo,
is lent a US number, forwards unanswered calls to it, and reads in a dashboard what an AI agent
(Dograh, reached through Telnyx) wrote down about each call. The program is one Next.js server over
one SQLite file and one JSON file. This directory holds TLA+ modules of that server, the TLC
configurations that check them on small instances, and TLAPS proofs of what matters most for every
size. Paths below are relative to the application's `src/` directory; `deploy/`, `migrations/` and `scripts/`
lie beside it.

1. [The system](#the-system): components, their state, how they interact
2. [How the code becomes actions](#how-the-code-becomes-actions): atomicity, crashes, time
3. [The modules](#the-modules): one by one, with runs, bounds, fairness and proofs
4. [What the code and its words disagree about](#where-the-code-and-its-words-disagree)
5. [What is proved and what is only model-checked](#proved-and-model-checked)
6. [What is not modelled](#what-is-not-modelled)
7. [Plan](#plan)
8. [How to run it](#how-to-run-it)

## The system

| Component | State | Operations | What makes it correct |
|---|---|---|---|
| Number pool: `lib/numbers-pool.ts`, `lib/admin-customers.ts`, parts of `lib/db.ts` | `businesses.assignedNumber`, `data/phone_numbers.json` | assign, release, add, create with a number | a number is lent to one business at a time; none is lost for good |
| Billing: `lib/billing.ts`, the billing half of `lib/db.ts`, `api/billing/*`, `api/webhooks/dodo` | `subscriptionStatus`, `dodoCustomerId`, `dodoSubscriptionId`, `trialStartedAt`, `dodo_webhook_events` | signup, checkout, webhook, confirm | nobody is billed for another's checkout; who has paid is served; a trial starts once |
| Calls: `lib/dograh-webhook.ts`, `api/webhooks/dograh`, `api/calls/[id]`, `api/settings` | `calls`, the one row of `settings`, tasks planned with `after()` | report of a finished call, follow-up, settings | a call goes to who has the number; its owner is told once; nothing captured is blanked |
| Onboarding: `api/onboarding/start`, `api/onboarding/step` | `onboardingStep` | fill the form, next step | no forwarding step without a number; nobody restarts; the setup ends |
| Call gate and trial e-mails: `api/v1/telephony/telnyx/answer`, `lib/telnyx.ts`, `lib/trial-reminder.ts`, `describeBillingAccess` | `forwardingStatus`, two e-mail stamps | ringing call, render of the dashboard | the agent only where the business is entitled, yet no caller on a dead line |
| Owner sign-in and rate limiter: `lib/business-password.ts`, `lib/admin-customers.ts`, `lib/rate-limit.ts`, `api/auth/*`, `owner-login` | `passwordHash`, setup token, `owner_login_tokens`, the owner's cookie, the map `buckets` | login, links, setup, change, logout | a link works once; guesses are bounded; an owner gets in |
| Checkout hand-off: `lib/signup-handoff.ts`, `api/billing/signup`, `api/billing/confirm`, `components/onboarding/OnboardingWizard`, `CheckoutReturn` | cookies of the browser, the return URL, `dodoCheckoutSessionId`, the page's phase | signup, redirect, poll, hand over | a session only for who has proved the row; "confirmed" is signed in; a declined payer may try again |
| Call list and follow-ups: `components/dashboard/DashboardClient`, `CallLogs`, `calls/FollowUpControls`, `api/calls` | the list in the browser, the requests in flight | refresh, filter, open, change | what is shown converges to what is stored; no device undoes another |
| Contacts: `components/ContactDashboard`, `ContactForm`, `OnboardingGate`, `api/contacts`, `api/client` | `contacts`, `activity_logs`, `client_profile`, the list and the form in the browser | add, edit, delete, log, history | what was deleted stays deleted; what was saved is shown |
| Settings page: `components/settings/SettingsPanel`, `api/settings`, `lib/api.ts` | the draft in `localStorage`, the row, the shared token | load, type, save | a save that changes nothing undoes nothing |
| Leads and waitlist: `api/leads`, `api/waitlist`, `leads/StartForm`, `admin/LeadStatusSelect` | `leads`, `waitlist`, a bucket of the limiter | submit, pick a status | who is thanked is stored; no status is shown that never was |
| Admin sessions and audit trail: `lib/admin-session.ts`, `api/admin/login`, `api/admin/leads` | the admin's cookie, `admin_audit_log` | sign in, sign out, enter | the trail names only what happened |
| Operator's list of calls: `lib/admin-db.ts`, `admin/(protected)/calls` | none of its own | open, turn a page | turning every page shows every call |
| Database opening and deployment: `lib/database.ts`, `migrations/schema.sql`, `deploy/vps-deploy.sh` | the columns of the file, `clientUid`, the checkout, the build, the process | open, deploy, roll back | code finds the columns it names; a deployment that says it is done answers |
| Parsing, formatting, guards, clients of SMTP and FCM, rendering, scripts | see [What is not modelled](#what-is-not-modelled) | | |

How they interact:

- Through the row of the business. `assignedNumber` is written by the pool and read by the calls, the
  onboarding and the gate; `subscriptionStatus` and `trialStartedAt` are written by billing and read
  by the gate; `onboardingStep` is written by the onboarding, by the first call and by the admin.
  `updateBusiness` (`lib/db.ts:722`) rewrites every column, from a row it reads itself.
- Through calls. The Dodo webhook, the checkout return, the onboarding and the admin all end in
  `assignNumber`, which may e-mail the operator about a low pool and wait for that.
- Through events of others: Dodo, Dograh and Telnyx deliver theirs any number of times, late and in
  any order; Dodo's may be lost.
- Through browsers. A page keeps a copy of rows, asks for them again while earlier requests are in
  flight, and takes the answers in the order they come. Cookies are shared by the pages of a browser.
- Through the file. The running code, `schema.sql` in the checkout and the SQLite file may belong to
  three different commits.

What is hard: handlers that read a row, wait on the network and write it; two stores with no
transaction across them; duplicate, late and lost deliveries; tasks that die with the process; one
rate-limit bucket that two routes share; one row of settings that all businesses share; pages whose
requests overlap and are not cancelled; a deployment and an opening of the database, each of many
steps of which any may be the last.
`PROJECT.json` lists each hazard at its line, with the properties that would catch it.

## How the code becomes actions

**Atomicity.** There is one Node process. SQLite is better-sqlite3 and the pool file is read and
written with the `*Sync` calls of `fs`, so neither yields; an `await` of something already settled
yields to microtasks only. Another request can therefore run only where a handler really waits: for
Dodo, Telnyx, SMTP or FCM. A handler is one action from one such wait to the next, and each answer
is an action of its own that works with whatever was read before the wait. (Reading the body of a
request is a wait too; it comes before anything is read or written.)

**Crashes.** systemd restarts the server whenever it dies (`deploy/systemd/callflow.service:36`). Where a stored state can
differ depending on where the process dies, the choice is inside the action (`BestEffortWrite`,
`ReleaseNumber`, `Deliver` in `Billing`); where only the memory is lost (requests in flight, tasks,
rate-limit buckets), there is an action: `Crash`, `RequestFails`, `Restart`.

**Pages.** A page is modelled as its state, the requests it has in flight, and one action per handler:
a press, the work of the route, the arrival of the answer, its loss. A request that is lost may have
been carried out. Effects that cancel their fetch drop its answer (`Rerun`); those that do not, do not.

**Torn writes.** `writeFileSync` truncates before it writes. A crash inside leaves a file that
`readPool` throws on: `readable` is false, and `RestoreFile` is the operator who repairs it, with
the entries from before the write or those that were being written.

**Time** appears only where the code compares it: the days of a trial are four stages, the windows of
the limiter are counted in quarters of an hour, links have an action that expires them.

**Symmetry** is used in runs of safety properties only.

## The modules

`PROJECT.json` maps every definition to the lines it stands for. Each component has a module, a module
of proofs about it (`...Proofs`; `OwnerProofs` is about `OwnerPages` and `Onboarding`), and an `MC...`
module with the constants TLC cannot be given in a `.cfg`. TLAPS proves the type invariant of each;
runs repeat it for *billing*, *checkout_return*, *owner_pages* and *back_office*.
`NumberOwnership` is the abstract specification of lending numbers: `NumberPool` implements it, and
`DograhCalls`, `Onboarding` and `TrialGate` use its actions where the number of a business moves under
them, so their view of the pool is the one that is proved. `CheckoutReturn` has a run of its own.
`OwnerPages` composes `CallPages` and `ContactPages`; `BackOffice` composes `SettingsPage`, `LeadDesk`,
`CallWalk` and `Deployment`.

### NumberOwnership and NumberPool

`borrower[n]` of the abstract module is the business a number is lent to. The detailed module has
both stores: `rows`, `assigned` and `phone` are the table, `file` and `readable` the JSON file.

| Action | Code |
|---|---|
| `AssignNumber`, by `AssignFor`, `Candidates`, `Claim` | `assignNumber` (`lib/numbers-pool.ts`), `claimBusinessNumber` (`lib/db.ts:858`) |
| `ReleaseNumber`, `AddNumbers` | `releaseNumber`, `addNumbers` |
| `CreateAdminCustomer` | `createAdminCustomer` with `findNumberOwner` |
| `SignUp`, `OnboardingStart`, `SaveSettings` | the writers of `phoneNumber` |

The refinement mapping, `Borrower`, reads the rows only: they route calls, the file is bookkeeping.

- *number_pool*: `UniqueNumber`, `NoStrandedEntry` (an entry assigned in the file is the number of
  that row, which is why `assignNumber` writes the row first and `releaseNumber` the file first),
  `ExclusiveLending` (the refinement), `LocalFirst` (the owner's area code is preferred).
- Bounds: three businesses compete for two numbers in two area codes, and a phone may be local,
  foreign, or have the digits of a pool number. Three actors are what it takes for one to release
  while another claims and a third is created.
- Proved (`NumberPoolProofs`): `TypeOK`, `UniqueNumber`, `NoStrandedEntry`, `LocalFirst` and the refinement. `UniqueNumber` is
  not inductive alone: the claim asks only the rows there are, so an id without a row must hold
  nothing (`OnlyRowsHold`). The refinement classifies what a step may do to `assigned`: keep it,
  clear one entry, or give a number not in use to a business that has none. `LocalFirst` rests on
  `CandidatesLocal`: what `assignNumber` chooses from leaves the area only if nothing usable is in it.

### Billing

| State | Code |
|---|---|
| `status`, `customer`, `subscription`, `trial` | the columns of the row; `trial` keeps what stamped it instead of a time |
| `numbered` | the businesses that have been given a number (who has which is in `NumberPool`, and a release is not seen here) |
| `seen` | the event ids in `dodo_webhook_events` |
| `req` | requests that wait on Dodo, with what they have read |
| `madeFor`, `opened`, `paid`, `echoed`, `reports` | Dodo, external: customers, sessions, payments, whether the metadata comes back, and what it says of each subscription |

| Action | Code |
|---|---|
| `SignupStart`, `CheckoutStart`, `CustomerCreated`, `SessionOpened` | `createBillingSignup`, `api/billing/checkout`, `openHostedCheckout` (`lib/billing.ts`), cut at the two waits |
| `Deliver` | `api/webhooks/dodo` with `applyDodoWebhookEvent` (`lib/db.ts`), then `assignNumber` (`MayBeNumbered`) |
| `ConfirmStart`, `ListAnswered`, `ConfirmApplies`, `ConfirmServes` | `api/billing/confirm` with `reconcileDodoCheckout`, and the `assignNumber` that follows |
| `OthersServe` | the draws of the setup pages and of the admin |
| `AdminCreates`, `RequestFails` | the row an admin creates; errors, time-outs and restarts |
| `Pays`, `Reports` | Dodo |

`MaxReports` bounds what Dodo says of one subscription. Any event may be delivered in any order or
never; a redelivery under the same id changes nothing, so it is not an action. Wherever the code
draws a number it may get none - the pool is empty, its file does not parse, the process dies first -
and the request goes on without it (`MayBeNumbered`).

- *billing*: `BilledForOwnCheckout` (link, trial and status come from a subscription bought in the
  business's own checkout, although an event may match by hint, by customer or by subscription),
  `SetForGood` (the link and the start of the trial never change) and `PayerKnown` (whoever pays, the
  row holds a customer of one of this business's checkouts: the payer, or, where two openings have
  made a customer each, perhaps the other one). Two businesses, two requests, so that two openings
  for one business do overlap, and two sessions; three kinds of report, among them a payment, which
  carries no status.
- *billing_served*: the liveness property `PaidIsServed` (who has a subscription that Dodo has active
  for good ends with an active row that has been given a number). One business, one request at a
  time, two sessions, two reports each, `active` and `on_hold`, in order or not. The fairness has two
  parts. `Polled`: the return page of an owner who has paid is open, or opened again, and asks until
  answered (`CheckoutReturn`, "Check again"; a signup that ends late may have let the page say
  "confirmed" before, so opened again may mean reloaded); a request ends; a list asked for often
  enough is answered, and the process does not die every time before it is applied. `Restocked`: an
  owner without a number asks again, on the return page or in the setup that the confirmed page leads
  to, and does not find the pool without a number every time - the operator is e-mailed when it is
  empty (`alertPoolEmpty`) or low, and pastes numbers. Without `Restocked` the property fails: the
  confirm request answers "confirmed" whether or not `assignNumber` had a number to give. Of webhooks
  and of the payer nothing is assumed.
- `PaidIsServed` is claimed of subscriptions of which Dodo has reported nothing but `pending`, `active`
  and payments (`Untroubled`), because `UNCONFIRMED_STATUSES` contains no other status of Dodo's: a row on
  hold whose next `active` event is lost, or was delivered before the `on_hold`, stays on hold, whoever
  asks. The run contains those behaviours; the property says nothing of how they end.
- *billing_late_signup* is expected to fail: see
  [below](#where-the-code-and-its-words-disagree). `OneSubscription` fails on the constants of *billing*.
- Proved (`BillingProofs`): `TypeOK`, `BilledForOwnCheckout`, `SetForGood`, `PayerKnown`. The invariant
  adds that Dodo's customers and sessions are made for one business each (`CustomersOwned`), that only an
  opened session is paid and only a paid one reported on (`PaidOpened`), that what a waiting request
  remembers belongs to its business (`RequestsOwned`), and, for `SetForGood`, that only rows are
  billed (`RowsBilled`). `PayerKnown` rests on `CheckoutsKnown`: a session is opened and its customer
  stored in one stretch of the handler, so from a business's first session on its row holds a
  customer for which there is one.

### DograhCalls

| State | Code |
|---|---|
| `row` | table `calls` by `dograhRunId`: the business, which fields are filled, the owner's follow-up |
| `alert`, `push` | the tasks `after()` runs once the response is sent |
| `token`, `mailable` | `settings.fcmToken`, which all businesses share, and the addresses |
| `verifying` | businesses at `onboardingStep` 4, which a first call ends |
| `borrower`, `borrowed` | the pool, and a history variable: who has ever had the number |

`Deliver` is `handleDograhWebhook` up to its response, `DeliverFails` the same with the second of its
two writes failing; `AlertAnswered` and `PushAnswered` are the tasks, `Crash` loses those planned. A
report carries any subset of the fields. `Kept` are the columns written with `COALESCE`; the others
are overwritten by every delivery, with nothing if that is what it carries.

- *dograh_calls*: `OnlyToBorrowers` (a call is never stored for, or announced to, a business that
  never had the number), `NotifiedOnce` (one e-mail and one push at most), `RowKept` (no redelivery
  blanks a kept column; the webhook and the owner leave each other's columns alone). One call, two
  businesses and one number, so that a redelivery finds a different owner; two devices, so that the
  shared token changes hands; one kept and one overwritten field.
  What the properties permit: a redelivery moves a call to a business that has borrowed the number
  since (`borrowed` is a history), and a notice planned with `after()` is lost in a crash. The outcome is
  among the columns that a delivery need not carry, although `toCallOutcome` always gives one: the
  model's deliveries are a superset of the code's.
- Proved (`DograhCallsProofs`): all of them. The invariant adds that a call without a row has no
  notice (`NoticeHasRow`), which makes "created" mean "first", and that whoever has a number is
  among those who had it (`BorrowerRemembered`).

### Onboarding

`step` is the column, `listed` the numbers in the pool file, and `waiting` the step requests held up
by the e-mail about a low pool. `Start` is `api/onboarding/start`; `StepAsked` and `AlertAnswered` are
`api/onboarding/step` cut at that wait; `AdminCreates`, `Granted`, `FirstCall`, `Release` and
`Restock` are the others who move a business along.

- *onboarding*: `HadNumber` (the forwarding step and what follows only after a number), `NeverRestarts`
  (nobody goes back before the forwarding step once there) and the liveness property `Onboarded`.
  Two businesses for two numbers and two requests; with `LowStock` 0 the last number drawn is the
  one that waits, so both kinds of draw occur. The fairness, `Clicked`: the owner submits the form
  and keeps clicking what the page offers at the row's step (`Offered`), reloading where the page is
  behind; the operator pastes numbers when told that there are none; SMTP answers or times out, unless
  the process dies, which it does not do forever. At step 3 the page offers nothing to a business
  whose number was released, so `Onboarded` promises that the setup ends and stays ended, unless it
  comes to rest there without a number.
- `OnlyNextTransition` fails on the constants of this run: see
  [below](#where-the-code-and-its-words-disagree).
- Proved (`OwnerProofs`, its second part): `TypeOK`, `HadNumber`, `NeverRestarts`. The late write is
  harmless to `HadNumber` because a waiting request has seen its business get a number (`WaitingHad`).

### TrialGate

`req` are deliveries of `call.initiated` that wait on a command to Telnyx; `called`, `acked`,
`transferred` and `spoken` are what Telnyx knows of a call; `stage` is the trial against the clock;
`sending`, `stamped`, `told` are the two e-mails, their stamps, and what SMTP has accepted; `excused`
is history: calls that the code lets through on purpose.

| Action | Code |
|---|---|
| `Delivered` | `api/v1/telephony/telnyx/answer` up to its first wait, with `callsBlocked` and `describeBillingAccess` |
| `SpeakConfirmed`, `SpeakUnconfirmed` | the answer to `speakToCaller` (`lib/telnyx.ts`); a failure opens the gate |
| `TransferAnswered` | the answer to `transferCall`, then `setBusinessForwardingStatus`, then 200 or 500 |
| `Render`, `MailAnswered` | the reminder a dashboard render starts, both e-mails, and their stamps |

A command can be carried out and its answer lost (`executed` without `accepted`), and a 200 may be
lost on its way (`Acknowledge`); Telnyx then announces the call again.

- *trial_gate*: `AgentGated`, `ForwardingProven` (active only where a call has gone through on a number
  the business had), `StampMeansTold`, and the liveness property `CallerReached`: whoever rings hears
  the agent or the message. One call to one number is announced to two handlers at once; the
  statuses are one that is entitled, one that needs the trial and one that is blocked. The fairness,
  `Announced`: Telnyx announces a call until it is acknowledged, answers commands, and carries out
  one it is sent again and again; the process does not die every time.
  What the properties permit: `AgentGated` judges a decision by what its announcement read, so one
  that has gone stale during the wait on the message is allowed, as it is taken by the code; the number
  is released and drawn again by the one business of the run, and its passing to another business is
  covered by the theorem about `ForwardingProven` only; after a crash between SMTP and the stamp the
  e-mail goes out again.
- Proved (`TrialGateProofs`): everything but `CallerReached`. A handler acts on what it read before
  its waits; `InFlight` says what of that is still true (the call is excused; the business has had
  the number).

### OwnerAccess

| State | Code |
|---|---|
| `email`, `password`, `later`, `setup` | `billingEmail`, `passwordHash`, the order of `updatedAt`, and the setup token |
| `link`, `handed` | `owner_login_tokens`, and whether the link has reached its owner |
| `session` | the cookie of each device |
| `bucket` | the map of `lib/rate-limit.ts`: count and age of a window |
| `tries`, `opened`, `chosen`, `ripe` | history: logins in the window, uses of a link, and whether a device could have opened a link since it was minted |

`Login`, `SetupPassword`, `ChangePassword` and `Logout` are the routes under `api/auth`; `OpenLink` is
`owner-login`; `CopyLink` and `AdminCreates` mint links; `SignUp` signs its owner in; `Touch` is any
other `updateBusiness`, which moves `updatedAt`; `Elapse`, `Restart`, `ExpireLink` and `ExpireSetup`
are the clock and the process. `Charge` is `rateLimit`: `login` and `open` count under one key. The
answer to a request may be lost with its cookie (`arrives`).

- *owner_access*: `LinksOnce` (a login link opens one session, a setup link stores one password),
  `NeverShadowed` (a row without a password never hides one that has one), `GuessesBounded`, and the
  liveness property `OwnerGetsIn`. Two businesses with one e-mail, one password, one link slot that
  is reused, one device. The limits of 5 logins in one quarter of an hour and 30 links in four are
  scaled to 1 in one and 2 in two: what matters is that the links' limit is larger and their window
  longer. The fairness, `Helped`: time passes; an admin who is asked copies another link; its owner
  opens it, waiting as long as `Retry-After` says; not every answer is lost. `ripe` says that a link
  of seven days outlives every window of the limiter: it does not expire before its device could
  have opened it.
- `OnlyAttemptsRefuse` fails on the constants of this run.
- Proved (`OwnerAccessProofs`), for any limits and windows: `TypeOK`, `LinksOnce`, `GuessesBounded`,
  `NeverShadowed`. The invariant has one conjunct for each group of variables; `GuessesBounded`
  needs that logins are among the requests their bucket counts (`LimiterInv`).

### CheckoutReturn

From the wizard to Dodo and back. `Billing` has what the server and Dodo do to a row; here a row is
reduced to what the way back depends on, and the browsers are modelled.

| State | Code |
|---|---|
| `exists`, `checkout`, `link`, `status`, `trial` | the row: `dodoCheckoutSessionId`, `dodoSubscriptionId`, `subscriptionStatus`, `trialStartedAt` |
| `boughtFor`, `result`, `ended` | Dodo, external: what each session was opened for, how it ended, in which order |
| `cookie`, `handoff` | the session cookie of the business, and the hand-off cookie bound to one checkout |
| `tab`, `poll` | the page a browser shows, and its confirm requests in flight |

| Action | Code |
|---|---|
| `Continue`, `StepBack`, `SignupStart`, `SignupOpens`, `SignupFails` | `OnboardingWizard`, `api/billing/signup` cut at its wait on Dodo; `SignupIdentity` are its cookies |
| `Abandon`, `SignupElsewhere`, `CheckoutEnds` | Back, another browser, the redirect from Dodo with what its URL carries |
| `ConfirmReads`, `ReconcileApplies`, `ReconcileFails` | `api/billing/confirm`, cut at its question to Dodo: `Identify` are its five proofs in their order (`BySubscription` the one that asks Dodo), `Judge` what it answers, `Mints` whether a session comes with it |
| `PollSent`, `AnswerArrives`, `PollLost`, `DeadlinePasses`, `Retry`, `HandsOver`, `BackToSignup` | `CheckoutReturn`; `PhaseAfter` is `check()` |
| `Webhook`, `HandoffExpires`, `TokenExpires` | `applyDodoWebhookEvent`, thirty minutes, a day |

- *checkout_return*: `SessionProved` (a browser comes to a session for a row it made itself, or for one
  that has a subscription, whatever it holds from earlier signups and in whatever order polls are
  answered) and `ConfirmedIsSignedIn` ("Payment confirmed" is only said to a browser that is signed in
  for a row that has a subscription, and about a row that has one, so the final step opens and not a
  blank wizard; with three checkouts the two rows need not be
  [the same](#where-the-code-and-its-words-disagree)). Two
  businesses, one browser, two sessions and two polls: what it takes for a cookie of one signup to
  meet the URL of another while polls overlap. `Proofs` lists what a URL may carry: our token, Dodo's
  subscription, or our token with the session.
- A confirm request that had to ask Dodo and learned nothing answers with what it had read of the row
  before (`verdict`): "waiting" for a row that has no result yet, whatever the webhook wrote meanwhile.
- *checkout_declined* is expected to fail; `DeclinedMayTryAgain` speaks of a page about a row that no
  subscription is linked to, as one that has a subscription has nothing to start again.
- Proved (`CheckoutReturnProofs`), for any businesses, browsers, sessions and polls: `TypeOK`,
  `ConfirmedIsSignedIn`, `SessionProved`. A poll acts on a cookie, a URL and a row that may all have
  moved on; `PollsInv` says at each of its stages what is still true. A poll sent with a cookie
  belongs to a browser that still has it or has come to a session for a row with a subscription since
  (`Holds`): on a return page the cookie changes by no other way. `RowsExist` says that whatever names
  a business names a row, `MountedPolls` that only polls of the page that is shown reach it.

### CallPages, ContactPages and OwnerPages

One visit, in one tab, of a page that keeps a list. `CallPages` is the dashboard or the call log
(`kind`), which differ in who filters, whether Refresh is an effect whose predecessor is cancelled
(`Rerun`) or a call of `load()`, and what a refusal leaves on the page; `controls` are the mounted
`FollowUpControls` with the notes being typed. `ContactPages` is the gate, the form, the list and the
history panel; contacts and profile are the same rows for all businesses.

- *owner_pages*: `OneThingAtATime` (a click changes status or notes, not both, so that a device that
  shows an older row undoes nothing), `RefreshConverges` (an owner who keeps refreshing sees the calls
  as they are stored, infinitely often, whatever was overtaken or lost), `NoResurrection` (an edit
  form that was open before a contact was deleted does not bring it back), `SavedIsShown` (a saved
  change comes to be shown without a press of Refresh). Two requests in flight, one call or contact,
  two writes, two values: a second row adds no order of answers, as a request is about one row or
  about all. The fairness for the calls: the owner presses Refresh again and again, and not every list
  is lost; for the contacts only that requests are served and answered or fail. Of the owner's other
  devices nothing is assumed.
- Proved (`OwnerProofs`), for any calls, contacts, filters and requests in flight: `PagesTypeOK`,
  `OneThingAtATime`, `NoResurrection`. `PagesTypeOK` is not inductive alone: a route would be asked to
  change a call that is not stored, so what is shown, on its way or being changed must be stored
  (`ShownIsStored`). For the contacts, one request at a time asks for the profile or saves it
  (`OneAtTheGate`), a form is behind the gate and on a page that was not left (`FormBehindGate`), and
  an answer carries what its kind needs (`EachCarries`).

### SettingsPage, LeadDesk, CallWalk, Deployment and BackOffice

Their rows are disjoint and none waits for another. `BackOffice` lets one of them move in each
behaviour (`part`), so the run is the union of four.

| Module | State and actions |
|---|---|
| `SettingsPage` | the draft in `localStorage`, the fields, the row and the shared token; `PressSave` writes the draft, then the route writes token, e-mail and address in statements of their own (`SavesToken`, `SavesEmail`, `SavesAddress`), any of which may be the last, also for a page that has given up (`gone`); the draft, and so the fields of a later visit, may be what the route would refuse (`Bad`); `OtherDevice` |
| `LeadDesk` | the two public forms with the limit of one of them, requests handled after their browser has given up (`late`); the optimistic select per lead and operator, its undoing (`Undone`), the entry in the trail, which may fail (`SetLeadStatus`) |
| `CallWalk` | `ListCalls` is `adminListCalls`: page count, clamping, `LIMIT` and `OFFSET`, on calls numbered by arrival |
| `Deployment` | the steps of `getDb()` (`OpenStarts` to `Opened`; an empty file gets its tables in `MakeTables`, and `made` remembers whose), of `vps-deploy.sh` (`Deploy` to `Rebuilds`, or `Aborts`), and systemd (`Dies`, `Starts`). A commit is the columns it lists (`Needs`), whether its process serves (`Boots`) and whether the rows satisfy its indexes (`Fits`) |

- *back_office*: `CleanSaveKeeps` (a save by an owner who was shown what is stored and typed nothing
  does not undo it, whatever draft the browser had kept); `ThankedIsStored` and `ShownWasHad`;
  `WalkMissesNothing` (who turned every page has been shown every call there was at the beginning, and
  no empty page, while calls arrive); `OpenIsComplete` (a handle that was given out is of a file in which
  no row lacks the UID the running code expects, and which has every column it names, with the exception
  [below](#where-the-code-and-its-words-disagree)), `DeployedAnswers` and
  `RolledBackToPrev` (what "Deployed" and "Rolled back" say is true), `UidNeverRewritten`. A deployment
  may begin on a file that was never opened. Three deployments over four commits - one from before the UIDs, one with them, one with a column more
  whose index the rows violate, one that does not boot - are what it takes to fail, go back and find
  columns of a commit that is gone. Two rows: one filled before an opening died and one not. Two
  saves, two leads, two operators, a limit of 1, pages of two of five calls; no token of FCM, as no
  property tells one from another. `ShownWasHad` permits a status that was true once, and a change
  whose entry in the trail failed (`logAdminAction` swallows it): `setLeadStatus` and `logAdminAction`
  run in one stretch of the handler, and `whole` says whether the second got through.
- Proved (`BackOfficeProofs`): all of them, and `OfficeTypeOK`. `Deployment` has two invariants, for
  any commits, columns and rows. `FileInv` says how far the
  file is at each stage of the handle (`Migrated`): from the moment that no column is missing, the file
  has those the running code names, unless this opening made the tables from another commit's
  `schema.sql`. `TreeInv` says which commit is checked out, built and running at each point of the script
  (`NewServes`, `Restoring`). `OfficeDeploys`: as far as its variables go the office is a `Deployment`.
  The pages: `SettingsInv` adds to the types that the page asks for the stored values once
  (`AskedOnce`), shows them until something is typed (`ShowsLoaded`), and that a save in flight that
  nobody typed carries them (`CleanCarries`); `LeadsInv` that an answered form is stored and that what
  a select falls back to is a status the lead has had (`SelectsKnow`); `WalkInv` that the operator has
  been shown each call of the beginning that is not further down than the page reaches (`ShownSoFar`),
  which takes counting the calls above one: lemmas on the cardinality of intervals. `OfficeInv` is
  all four.

## Where the code and its words disagree

Two runs are expected to find a violation, each of one sentence the repository says of itself.

| Run | The sentence | What the code does |
|---|---|---|
| *billing_late_signup* | the webhook is "the only writer of `subscriptionStatus`" (`api/webhooks/dodo/route.ts:10`) | `createBillingSignup` writes `pending_checkout` after its wait on Dodo without reading the row again (`lib/billing.ts:403`): an active subscription linked meanwhile is overwritten |
| *checkout_declined* | "start checkout again and try a different card" (`components/onboarding/CheckoutReturn.tsx:230`) | the link leads to `/onboarding`; an owner whose row was made by this signup was signed in by its answer (`api/billing/signup/route.ts:91`), so the link shows the setup flow (`onboarding/page.tsx:34`), which has no checkout. In TLC's trace the redirect carries `status=failed`, the confirm request finds no subscription to reconcile, and the page says "declined" on the word of the redirect (`CheckoutReturn.tsx:123-138`) |

Three more are stated in the modules, as formulas that TLC refutes with the constants of the passing
run of the component:

| Formula | The sentence | What the code does |
|---|---|---|
| `Billing!OneSubscription` | "Never open a second subscription for the same business" (`lib/billing.ts:341`) | the guard asks for a linked subscription, not for an open session: two sessions are paid |
| `Onboarding!OnlyNextTransition` | "Only the exact next transition is allowed (no skipping, no going back)" (`api/onboarding/step/route.ts:11`) | a request that waited on the low-stock e-mail writes step 3 over a later step (`:69`) |
| `OwnerAccess!OnlyAttemptsRefuse` | "5 attempts per 15 minutes per IP" (`api/auth/login/route.ts:23`) | opening login links counts under the same key (`owner-login/route.ts:61`): an owner is refused who has not tried |

Others were met while reading; the models contain the behaviour, no run is about them:

- "a replayed webhook can never erase what an earlier delivery captured"
  (`lib/dograh-webhook.ts:276-278`), yet `customerName`, `callbackNumber` and the other columns
  written without `COALESCE` are overwritten by every delivery (`lib/db.ts:447`; `Kept`, `Upsert`);
- "guarantees exactly one email per trial" (`lib/trial-reminder.ts:13`): two renders before the stamp
  send two (`Render`);
- `dodoCustomerId` "is written before the browser is ever sent to Dodo, so it identifies the account that
  started a checkout" (`lib/db.ts:819-820`): two requests that find no customer create one each, the row
  keeps the later, and an event without metadata about what the other paid matches no row (`PayerKnown`
  says what is left of the sentence);
- where a subscription that failed is linked to the row (by the webhook, before the poll), "try a
  different card" (`CheckoutReturn.tsx:230`) does not lead to a checkout either: a signup for that
  number is answered with `alreadySubscribed` (`lib/billing.ts:340-350`);
- `vps-bootstrap.sh:157-160` says that its request for `/api/contacts` "touches SQLite" and "is the one that
  proves DATABASE_PATH", and must print 200: it carries no cookie and is answered 401 before `getDb()`
  (`api/contacts/route.ts:8-11`). So the first deployment may come before the file has tables, and a
  process whose checkout was reset under it then makes them from the new commit's `schema.sql`: it
  may give out a handle that lacks columns of its own, until the next opening adds them (`MakeTables`,
  the exception of `OpenIsComplete`);
- an answer of FCM about an old token clears whatever token is stored by then (`PushAnswered`), and
  saving the settings of one business replaces or erases the token of all (`SaveSettings`);
- an alert or push planned with `after()` dies with the process and no redelivery plans it again;
- Telnyx ignores a repeated command for 60 seconds only, so an event announced later repeats it;
- a row on hold is never asked about again, so the loss of the `active` event that follows is not made
  good (`Unconfirmed`);
- the row an event names in its metadata is taken without asking whose customer it is (`Match`);
- an owner's phone may equal a number of the pool, or the phone of another row (`SaveSettings`);
- a setup link can be submitted over a password set meanwhile in the account, and no operation makes
  another setup link although the page says "we will send you a new link"
  (`app/setup-password/page.tsx:38`): only `createAdminCustomer` calls `generateSetupToken`;
- two rows with one e-mail that both have a password hide each other by the time of the last write;
- "omitting them leaves the stored tokens untouched" (`components/settings/SettingsPanel.tsx:167-169`):
  `saveClientSettings` sends the token of this browser, or an empty one, and the route stores it
  (`SavesToken`); the same page keeps a draft where the row is empty, although "the server value wins
  over the localStorage draft" (`:118`; `WithServer`);
- "the next guarded request will bounce to /admin anyway" (`components/admin/AdminLogoutButton.tsx:19`):
  not if the request that clears the cookie was lost (`SignOut`);
- after `router.refresh()` a `LeadStatusSelect` that is mounted keeps its own state, so it may show a
  status that another operator has changed (`Rendered`); `ShownWasHad` promises no more than that the
  lead has had it;
- the walk of calls that are not linked may miss one, when another leaves the filter between two
  pages; `WalkMissesNothing` is about the walk of all calls;
- `PREV_SHA` is the commit that is checked out, which need not be the one that last served: after an
  aborted deployment a roll-back goes to the commit that was never tried (`Deploy`);
- `schema.sql` is read from the checkout at run time: between the reset and the restart the old code
  runs the new file if it is started again (`ExecSchema`);
- the "Check again" of the return page may be ended early by a poll sent before it, which holds the old
  deadline (`Retry`); a hand-off cookie whose checkout was superseded hides the token of the URL until
  it expires (`Identify`);
- the form of a contact has no key: Edit on a second contact keeps the fields of the first (`Edit`);
  the history of one contact may arrive in the panel of the next (`HistoryArrives`,
  `components/ContactDashboard.tsx:69`); to the gate of the contacts no answer looks like no profile
  (`GateLost`);
- a setup page at step 3 whose number was released offers, once reloaded, no card, no button and no
  poll (`components/onboarding/OwnerOnboarding.tsx:407`; `Offered`): the owner can only wait for the
  operator;
- "Payment confirmed" (`components/onboarding/CheckoutReturn.tsx:213`) may be said about one business
  to a browser signed in as another of its owner's, when the hand-off cookie of a third checkout
  expires between two polls of the page (`Identify`, `AnswerArrives`);
- `ContactDashboard` is mounted by `HomePage`, which no page of this commit imports; the model mounts
  it as `HomePage` would.

## Proved and model-checked

The proofs hold for all values of the constants that satisfy the named assumptions of each module
(`NumberAssumption`, `BillingAssumption`, `CallsAssumption`, `OnboardingAssumption`,
`GateAssumption`, `AccessAssumption`, `CheckoutReturnAssumption`, `OwnerPagesAssumption`,
`DeploymentAssumption`, `BackOfficeAssumption`): that ids which mean "none" differ from the real ones,
that limits and thresholds are natural numbers, and that what a commit needs are columns. TLC evaluates
the same assumptions on its instances.

| Module | Proved | Only model-checked |
|---|---|---|
| `NumberPoolProofs` | `TypeOK`, `UniqueNumber`, `NoStrandedEntry`, `LocalFirst`, `ExclusiveLending` (refinement) | |
| `BillingProofs` | `TypeOK`, `BilledForOwnCheckout`, `SetForGood`, `PayerKnown` | `PaidIsServed` |
| `DograhCallsProofs` | `TypeOK`, `OnlyToBorrowers`, `NotifiedOnce`, `RowKept` | |
| `TrialGateProofs` | `TypeOK`, `AgentGated`, `ForwardingProven`, `StampMeansTold` | `CallerReached` |
| `OwnerAccessProofs` | `TypeOK`, `LinksOnce`, `NeverShadowed`, `GuessesBounded` | `OwnerGetsIn` |
| `CheckoutReturnProofs` | `TypeOK`, `ConfirmedIsSignedIn`, `SessionProved` | |
| `OwnerProofs`, the pages | `PagesTypeOK`, `OneThingAtATime`, `NoResurrection` | `RefreshConverges`, `SavedIsShown` |
| `OwnerProofs`, the setup | `TypeOK`, `HadNumber`, `NeverRestarts` | `Onboarded` |
| `BackOfficeProofs`, the deployment | `TypeOK`, `OpenIsComplete`, `DeployedAnswers`, `RolledBackToPrev`, `UidNeverRewritten` | |
| `BackOfficeProofs`, the pages | `OfficeTypeOK`, `CleanSaveKeeps`, `ThankedIsStored`, `ShownWasHad`, `WalkMissesNothing`, `Deployment`'s specification (refinement) | |

Each has the same shape: `Init => IInv`, one lemma per action that `IInv` is kept, `IInv =>` the
property, and a last step in temporal logic; action properties are proved from `IInv` for one step.
TLC agrees with each invariant, `RowsBilled` and `CheckoutsKnown` included, on the instances of the passing
runs.

Every safety property of a passing run has a theorem. What stays with TLC is the temporal properties,
as TLAPS proves neither liveness under fairness nor what depends on `ENABLED`, and the runs that are
expected to fail. No module declares a recursive operator.

## What is not modelled

- *Billing portal, billing e-mails, amounts*: the portal link is one call to Dodo that writes nothing;
  the rest is wording.
- *Parsing and formatting*: payloads, phone numbers, hashing, signing and templates are functions
  without state; the models take what they return. Cookies and tokens are taken as unforgeable.
- *Guards*: the proxy, CORS, bearer tokens and webhook signatures decide whether a handler runs.
- *Clients of SMTP, FCM, Telnyx and Dodo*: external; when they are called and how they may answer is
  modelled. How many copies of an e-mail arrive is not.
- *Rendering*, and paging, search and filters of a list that are layout. The pages of the admin with
  one button each ask one route, whose effect is an action of `NumberPool`, `Onboarding` or
  `OwnerAccess`, and show its answer; so does the rest of the owner's setup flow.
- *Rate limits of other routes*: the same function on keys that one route each uses. Those of the
  leads are in `LeadDesk`.
- *Name uniqueness* refused by signup: a refusal changes nothing.
- *Operator scripts and backup*: run by hand or by a timer. `deploy/backup.sh` copies the SQLite file
  and not `phone_numbers.json`, so a restore from it starts with an older pool file, or with none;
  `NumberPool` has the file repaired by an operator (`RestoreFile`), not replaced by an older one.
- *The path policy of the database, the bootstrap of the machine, nginx*: they run once, before. The model
  starts where the bootstrap ends: the first commit is running, and no request has opened the database.
- *One token for all businesses*: `SaveSettings` and `PushAnswered` have it, and no property does, as
  there is nothing the code promises to compare it with.

## Plan

Done, the most important behaviour first: the pool with its abstract specification; billing; calls;
onboarding; the call gate; owner access; each with its proofs. Then the surroundings: the way back
from the checkout; the owner's pages; settings, leads, the operator's list and the deployment,
again each with its proofs.

Next, for the model:

1. `BillingAccess`: `describeBillingAccess` as an operator, compared with a reference definition over
   all statuses and trial ages, and shared by `TrialGate`, `CheckoutReturn` and the pages.
2. `Billing`: a release of numbers in the liveness run, with the pool that is drawn from, and a
   promise about rows that were on hold, should the code come to ask Dodo about them.
3. `Callflow`: billing, pool and onboarding composed on one row, from signup to the first call, each
   component refined by the composition.
4. `NumberPool`: a restore of the table without the file.

Next, for the proofs: the lemmas about `describeBillingAccess`, with the first point; `CallPages` and
`ContactPages` as components of which `OwnerPages` is a refinement, as `OfficeDeploys` states it of
`Deployment`; that `Onboarding`, `DograhCalls` and `TrialGate` move the borrowers of numbers only as
`NumberOwnership` lets them, so that `ExclusiveLending` is one theorem about all four.

## How to run it

With TLC and the community modules on the path: `tlc -config NumberPool.cfg MCNumberPool`, and the
same for each run that `PROJECT.json` lists. With TLAPS: `tlapm NumberPoolProofs.tla`, and
the other modules of proofs. The longest runs are *owner_access*, *owner_pages*, *dograh_calls*, *back_office* and *billing*
(some five million states), one to three minutes each with two workers; every other takes less than a minute.
