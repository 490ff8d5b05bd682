# StoreResolve: a TLA+ model of its mail, complaints, messages and desks

StoreResolve is one Cloudflare Worker (a Hono API and a scheduled job) over one D1 database
(SQLite, foreign keys enforced), with a React client. It reads complaint mail from a Microsoft
Graph mailbox, opens complaints, notifies owners and store managers by SMS through SignalWire,
and tracks each complaint to its closing. Paths below are relative to the repository.

What makes it hard is that nothing is held in memory between requests: every invocation of the
Worker reads rows, awaits, and writes rows, and other invocations (a poll, a discovery run, the
scheduled job, an API request, a webhook) do the same in between. A D1 statement is atomic, and
so is a `db.batch`; nothing larger is.

## Inventory

| Component | State | Operations | Correct when |
|---|---|---|---|
| Mail intake (`worker/ingestion.ts`, `worker/mail-foundation.ts`) | `mail_source_messages` (state, lease, attempts), `mail_processing_runs`, `canonical_mail_events`, `complaint_sources`, `mail_review_items`, `gmail_messages` | `persistDiscovered`, `acquireProcessingLease`, `resolveComplaintIdentity`, `commitCanonicalEvent`, `finishProcessing`, all called by `ingestEmailMessage` | attempts are exclusive; a message has one event, and link and review item agree with it; a settled message has what its state says; the case id decides the complaint; identified mail settles |
| Acknowledgment (`acknowledgeComplaint`, `pollEmail`) | `email_acknowledgments`, copies of the status on complaint and message | send one neutral reply, list the mailbox and ingest | one reply at most; `SENT` is terminal; a new case is acknowledged |
| Pilot ingestion (`ingestion.ts` 196-504, `pilot-*.ts`) | a one-shot lock in `settings` | gated imports of named messages | runs once |
| Complaint workflow (`src/lib/workflow.ts`) | the `AppState` in memory: complaints, users, stores, settings | `createComplaint`, `updateComplaint`, `processDeadlines`, `eligibility`, `metrics` | only legal transitions; overdue flags and escalations match; every complaint can be closed |
| State repository (`worker/d1.ts`) | all tables of the `AppState` | `loadState`, `persistState` (upsert of the whole snapshot in batches of 50) | a write does not undo another's |
| SMS dispatch (`dispatchEligible` in `worker/index.ts`, `worker/providers.ts`) | `notifications` | send what is `PENDING`, persist the snapshot | sent at most once; never sent when the switch is off |
| SMS callbacks (`worker/callbacks.ts`) and reconciliation (`worker/operations.ts`) | `notifications`, `notification_callbacks`, `signalwire_reconciliations` | apply a webhook, fetch and apply the provider's status | terminal states do not regress; a status is not lost |
| Scheduled operations (`worker/operations.ts`) | `background_job_locks`, `background_job_runs`, `escalation_events` | lock, deadlines, dispatch, reconcile, poll, unlock | one job at a time; each escalation once |
| Discovery (`worker/mail-discovery.ts`) | `mail_discovery_cursors` | page through a Graph delta, ingest, store the link | every message reaches the intake |
| Response drafts (`worker/response-workflow.ts`), review queue (`worker/review-queue.ts`) | `response_actions`, `mail_review_items` | draft, submit, approve, reject; resolve, dismiss | nothing is sent; only legal transitions |
| Interpretation (`worker/mail-interpretation.ts`) | columns of the run row | shadow model output and its disagreements | never decides an identity (not modelled) |
| Graph client, OAuth, Gmail adapter, owner notifications, reporting, auth, UI | none that others rely on | I/O | modelled by what the callers see of it, or not at all |

Interactions. `pollEmail` (scheduled job) and `runMailboxDiscovery` call
`ingestEmailMessage`; `pollEmail` then calls `acknowledgeComplaint` with the complaint it got.
`ingestEmailMessage` uses `loadState`/`createComplaint`/`persistState` to open a complaint and
writes `complaints.follow_ups` directly otherwise. The API routes and the job load the state,
change it, persist it and dispatch SMS from the same snapshot. SignalWire calls back at any time.

The hazards are listed, each at its line and with the properties that cover it, in `PROJECT.json`.

## Modules

Each component has a module, an `MC` module with the definitions its instances need, and a module
of theorems that extends it. The modules meet at rows: what one writes, the other reads, and the
part of another component that a module needs is one action in it.

| Module | Component | Meets |
|---|---|---|
| `MailSource` | the abstract specification: what the intake promises about a message | implemented by `MailIntake` |
| `MailRows` | the abstract specification: what the acknowledgment sees of the intake | implemented by `MailIntake`, used by `MailAck` |
| `MailIntake`, `MCMailIntake`, `MailIntakeProofs`, `MailRowsProofs` | `ingestEmailMessage` and the repository it calls | - |
| `MailAck`, `MCMailAck`, `MailAckProofs` | the scheduled job with its lock, `pollEmail`, `acknowledgeComplaint` | the intake of a listed message as one action, and any steps of `MailRows` in between; deadlines, dispatch and reconciliation as one action |
| `MailSupply`, `MCMailSupply`, `MailSupplyProofs` | mailbox discovery and the one-shot pilot imports | the intake by its lease: begun, ended, failed, or left by a death; the poll as an intake of any message |
| `ComplaintDesk`, `MCComplaintDesk`, `ComplaintDeskProofs` | the life of a complaint, `loadState`, `persistState`, deadlines and escalations | notifications are in `SmsDelivery`, complaints from mail are `Create` |
| `SmsDelivery`, `MCSmsDelivery`, `SmsDeliveryProofs`, `SmsApartProofs` | dispatch, test messages, webhooks, reconciliation | complaints are the alerts they plan; the mail intake is a request that plans and does not dispatch |
| `ResponseDesk`, `MCResponseDesk`, `ResponseDeskProofs` | written responses and the review queue | complaints and review items are given |

Every definition named "Variant with a fault" is a plausible error, which the checks put in place
of the definition that follows it to see that a property notices; no specification uses it.

### MailSource

Per message: `state`, `attempts`, `event`. `Discover`, `Claim` (numbers the attempt), `Record`
(the one event, while the message is open), `Retry` and `Settle` (only into the state the event
calls for). So: attempts are never reused, there is at most one event, no message settles without
one or against it, and settled messages stay as they are.

### MailRows

Per case, whether there is a complaint (`known`); per message that shows a case id, whether its
`gmail_messages` row names a complaint and as what (`source`). `Open` makes the complaint of a case,
`Name` and `Follow` write the row. So: a row names a complaint only when there is one, a complaint may
be without any row that names it, an initial message may become a follow-up (a retry finds its own
complaint), and nothing is taken back.

`MailIntake` implements it under the mapping `Known`, `SourceRole`, while no two invocations are between
`loadState` and `persistState` (`LoadsApartSpec`). Without that, the row of a message may name
the complaint of another case (`case_identity`), and no mapping can hide it. `MailAck` takes the
steps of `MailRows` for granted, so what it shows of acknowledgments rests on the same condition.

### MailIntake

Variables are the D1 tables and the JavaScript locals of each invocation; `pc` is the call it
makes next. An action is one awaited call with the code up to the next one.

| Action | Code |
|---|---|
| `Deliver` | entry, `now`, `persistDiscovered` (INSERT OR IGNORE) |
| `Inspect` | the row is not new: `IN_PROGRESS`, `DUPLICATE`, or resume |
| `ReadLegacy`, `InsertLegacy`, `UpdateLegacy` | the `gmail_messages` row; the INSERT throws if another came first |
| `ReadAttempts`, `ClaimLease`, `InsertRun` | `acquireProcessingLease`: read `attempt_count`, compare-and-set, run row |
| `MarkIgnored` | not a complaint |
| `ResolveIdentity` | exact case id, else new case; without a case id the conversation, else review |
| `ReadFollowUps`, `AttachFollowUp` | read, push, and the batch that writes back |
| `LoadState`, `PersistCase`, `MarkCase` | `loadState`; `createComplaint` on the copy and `persistState`; the legacy row |
| `MarkReview` | no identity |
| `CommitEvent` | the batch of `commitCanonicalEvent`, or its rejection |
| `MarkFailed`, `Finish` | the catch block; `finishProcessing` |
| `StatementFails`, `Die`, `LeaseExpires` | a call in the try block rejects; the invocation dies, or a call outside the try block rejects; five minutes pass |

Points where the model follows SQLite rather than the reader's expectation:

- A lease is `NONE`, `LIVE` or `EXPIRED`. The code compares `lease_expires_at` with the time the
  invocation *began*, so a lease that runs out later still looks live to it: `deadRun` remembers
  whose lease was over at that time.
- Every invocation passes the owner `'mail-intake'`, so the `WHERE lease_owner=?` of
  `finishProcessing` is met under any invocation's lease: `Finishable` only asks for `PROCESSING`.
- `INSERT OR IGNORE` ignores a UNIQUE conflict, not a foreign key. When the message already has an
  event, the new one is ignored, and a link or review item that names it is rejected with the whole
  batch (`CommitRejected`) - except that a link which itself is a duplicate is ignored before its
  foreign key is looked at.
- An SR id is `SR-<year>-<length of the loaded list + 1>`, and `persistState` upserts on it, leaving
  `external_case_id` alone. A complaint is therefore its place in the list and `Upserted` merges.

Abstracted: a message is its case id, its conversation and whether it is a complaint
(`CaseOf`, `ThreadOf`, `Complaints`), which extraction derives from the mail and from nothing else;
case ids are compared without case by the code and are equal or different here. Routing to a store,
`integration_events`, the interpretation record and the notification hook write nothing that others
read. Assumed: the messages are of one calendar year, a snapshot fits one batch of `persistState`,
and only mail opens complaints here (the API's `POST /complaints` is in `ComplaintDesk`). `links` keeps no
`linked_at`: the conversation query may return any linked complaint of the conversation, which
includes the one the code's ORDER BY picks.

### MailAck

`lock` is the row of `background_job_locks`, `source` what `gmail_messages` says of a message,
`ack` the row of `email_acknowledgments`, `proof` its event in the audit history, `replies` what the
mail provider accepted; `todo` and `case` are the locals of a job.

| Action | Code |
|---|---|
| `Claim`, `Unlock`, `LockExpires` | the compare-and-set of `runScheduledOperations`, its `finally`, and four minutes |
| `Prepare` | what the job does before it polls: deadlines, dispatch, reconciliation |
| `List`, `Ingest`, `EndPoll` | `pollEmail`: one page, oldest mail first; each message taken in; a message that throws is skipped |
| `Intake` | a step of `MailRows`: an intake that threw half way, or that of discovery or a request |
| `ReadSource`, `InsertAck`, `ReadAck` | `acknowledgeComplaint`: the initial message; INSERT OR IGNORE; the row, which must be `PENDING` |
| `ClaimAck` | the UPDATE to `IN_FLIGHT`, whose changes are not counted |
| `SendAck`, `RecordAck`, `RecordEvent` | the reply; the batch after it; `recordIntegrationEvent` |
| `FailAck` | the catch block: `FAILED`, whatever was sent |
| `Throws`, `Dies` | a call rejects; the invocation ends |

`recordIntegrationEvent` is inside the `try` (`src/worker/ingestion.ts:1013`): when it throws after
the batch, the catch block overwrites `SENT` with `FAILED`, in spite of `docs/ARCHITECTURE.md:55`
("`SENT` is terminal"). `AmbiguousStays` therefore asks only that no row goes back to `PENDING`.

### MailSupply

A link of the change log is the number of changes it is past, so a page, a `nextLink` and a
`deltaLink` are sets and numbers. `source` is how far the intake of a message is: no row, waiting,
`PROCESSING` on a lease that runs or has run out, or in a final state. `at` and `polled` are the messages
whose intake a request or the poll is in.

| Action | Code |
|---|---|
| `Discover`, `ReadCursor`, `Fetch`, `EndPage`, `Save`, `Park` | the calls of `runMailboxDiscovery` |
| `Peek`, `PutBack` | the two calls of `writeCursor`, which reads the row and then writes all of it |
| `HandOver` | the loop over a page: `ingestEmailMessage` takes the lease (`TakesUp`), answers `DUPLICATE` or `IN_PROGRESS` (`TurnedAway`), or throws before it has one (`StopsShort`) |
| `IntakeEnds`, `IntakeBreaks` | the end of that call: a final state, or the catch block with `RETRY_WAIT` |
| `Poll`, `PollEnds` | the same for one message of the scheduled poll |
| `LeaseRunsOut` | five minutes pass; the invocation may be dead, or go on without its lease |
| `StartPilot`, `CheckPair`, `ClaimPilot`, `Import` | the pilot imports: the pair's two messages, or the one a search found |
| `Throws` | a call of the database throws, or the invocation dies with the intake it is in |

Discovery counts every answer but `DUPLICATE` as ingested, `IN_PROGRESS` (`src/worker/ingestion.ts:576`
and `642`) included, although the comment at `src/worker/mail-discovery.ts:210` says that anything else
"means it was ingested". So the cursor passes mail that another invocation holds, and if that one is
dead, discovery never returns to it; only the poll may, within its window. `left` remembers what a run
went past without its being taken in, and `CursorIsCovered` says what is true of it: an intake of it has
thrown or died, or is still under way. A run that saw no message writes null for the newest receipt: the
mark in `cursor` is lost then, and nothing reads it.

### ComplaintDesk

A row is its status, whether it is live, and which of its dates and flags are set (`marks`); each is
set together with an event. A process has `seen` (what it loaded), `next` (what it will write),
`fresh` (the events it adds) and `done` (statements it is past). `Create`, `Act`, `Deadlines`,
`Save` and `RunJob` are the routes and the job: load and change. `Batch` and `LastBatch` are
`persistState`, which may be cut at any statement, because what the batches of 50 hold depends on
rows that are not modelled; a complaint's row comes before its events, and the newest complaint
first. After `persist` a route writes once more, what dispatch left (`again`). `Escalate` is
`recordEscalations`, from the difference between the job's two copies.

The seven SELECTs of `loadState` are issued together and are taken as one step. What the module
allows, as the code does, and what its properties say around it: a stale write undoes another's
(`LifecycleHolds`, `AlertedOnce` name that exception); a job that dies between the stored flag and
`recordEscalations` loses the escalation for good (`EscalationIsBacked` is one-directional); a
complaint that is reopened keeps `resolutionSubmittedAt`, so it is never overdue again and no metric
awaits it (`RowsAgree`).

### SmsDelivery

`rows` is the table, `sms` the provider's log, `snap` the state a request loaded. `Load`, `Plan`,
`Suppress`, `Send` and `PersistDispatch` are a request up to the one persist after `dispatchEligible`
(which asks `smsEnabled`, as the rollout mode is folded into `Permitted`; the MOCK mode is not
looked at by dispatch); `TakeIn` is the mail intake, which plans notifications, persists, and
leaves them to the next dispatch; `StartTest` to `LimitTest` the test route;
`Webhook`, `Reconcile` and `ReconcileByHand` begin a handler, `Look`, `LogCallback` and
`WriteStatus` are its calls. `Upserted` is the upsert of a notification, which keeps a stored
provider id that the snapshot lacks.

### ResponseDesk

A request of a person is one action where it is one statement that writes (`Draft`, `Resolve`,
`Assign`), and `Read`, `Write`, `Reread` where it is three (`transitionState`). `told` remembers the
decisions and resolutions that were answered ok; a constraint that refuses a row makes the statement
throw, and the answer is an error. A dismissal is resolved like a link: the item becomes `RESOLVED`,
never `DISMISSED`, and joins a complaint it names, although `src/worker/PHASE_C_OPERATIONS.md:42` says a
dismissal just closes the item. The unique key of a response has one policy version, so a complaint has at
most one response of a kind.

What the CHECKs of `response_actions` admit is a constant, because the code and the migration differ.
`createResponseDraft` inserts the state `DRAFT` and the content kind `draft-body`
(`src/worker/response-workflow.ts:171`), and neither is admitted by
`src/drizzle/0006_intelligent_mail_foundation.sql:147-168`: on that schema every draft is refused, and the
life cycle that `response-workflow.ts:3-7` and `src/worker/PHASE_C_OPERATIONS.md:73` describe cannot begin.
No interleaving is needed for that, so no run is spent on it. `response_desk` runs with the values the code
writes, as its tests do, and what it shows is of a database that takes them.

## Runs

| Run | Question | Instance | Result |
|---|---|---|---|
| `mail_intake_concurrent` | Do two invocations keep attempts, ledger and states consistent, and implement `MailSource`? | 2 workers; a new case and a reply in its conversation that shows no case id; 3 attempts, 2 faults; symmetry in the workers | holds, about 940 000 states |
| `mail_intake_sequential` | With one invocation at a time, does the case id decide, is every linked follow-up quoted, does the intake implement `MailRows`, and does identified mail settle? | 1 worker; two cases and a non-complaint, all in one conversation; 3 attempts, 2 faults; fair | holds, about 99 000 states |
| `lease_stolen` | Is an active lease never stolen, as `docs/OPERATIONS.md` says? | as `mail_intake_concurrent` | violated |
| `case_identity` | Does the case id decide when two invocations run? | 2 workers, two cases in two conversations, no faults | violated |
| `mail_ack` | At most one reply while jobs keep within their lock, backed, not repeated after an ambiguous send, and in the end there? | 2 jobs, 3 messages of a complaint, page of 2, any steps of `MailRows`, one overrun of the lock, one fault; fair | holds, about 212 000 states |
| `two_replies` | One reply to a complaint, as `docs/OPERATIONS.md` says? | 2 jobs, one message, one overrun of the lock, no faults | violated |
| `mail_supply` | Is everything behind the cursor accounted for, and does the pilot run once, with overlapping requests, the poll and leases that run out? | 2 requests, 3 messages, one to a page, 2 pages to a run, one fault, one turn of the switch; symmetry in the requests | holds, about 2 788 000 states |
| `complaint_desk` | What survives of rows, events, escalations and alerts when whole snapshots overwrite each other? | a request and the job, one complaint in any stage of an undisturbed past, 2 requests in sequence, one fault; fair | holds, about 143 000 states |
| `sms_delivery` | Is a final status true, is what was planned not sent once the switch is off, and does an accepted message get its final status? | a request, a handler, an alert and a test message, one message sent, a changed phone number, one turn of the switch, one death; fair | holds, about 258 000 states |
| `sms_terminal` | Are terminal states final, as `docs/ARCHITECTURE.md` says? | a request and 2 handlers, no faults | violated |
| `sms_resent` | Is an SMS not sent again when the outcome is not known, as `docs/SECURITY.md` says? | a request, an alert, one death | violated |
| `response_desk` | Do decisions and answers stand when two people act at once? | 2 people, 2 response rows, a review item, 6 requests, one fault, the values the code writes | holds, about 96 000 states |

The properties:

- `ExclusiveRuns`: invocations past the claim hold different attempts of a message, and the run row
  is free to insert.
- `LedgerAgrees`: event, link and review items of a message tell one story at every moment.
- `SettledStateIsBacked`: `COMPLETED`, `REVIEW_REQUIRED` and `NON_ACTIONABLE` mean what they say in
  the other tables, although another transaction, often of another invocation, wrote those.
- `OneComplaintPerCase`: without the table's UNIQUE constraint, which the model leaves out.
- `SourcePromise`: `MailIntake` implements `MailSource`.
- `CaseIdDecides`: a message and its `gmail_messages` row name the complaint of its case. True while
  loads do not overlap; `case_identity` shows that it is not when they do. `RowsPromise`: under the
  same condition, `MailIntake` implements `MailRows`. `FollowUpIsQuoted`: `follow_ups` keeps every
  linked follow-up, while no write-back overlaps another; a second one in between drops an entry.
- `IdentifiedMailSettles`: liveness of the intake.
- `OneReply`: a complaint gets one reply, violated when a lock runs out under a job;
  `OneReplyInLock`: true as long as none does, whatever fails or dies; `SentIsProven`: `SENT` has
  a reply and its event; `AmbiguousStays`: no way back to `PENDING`; `MailIsAnswered`: liveness.
- `CursorIsCovered`: behind the cursor is only mail that was taken in, or that a run handed over and
  left, and then an intake of it failed, died or is under way (what failed, or was held by an invocation
  that died, is not offered again); `CursorAdvances`: it goes back only where runs overlapped;
  `ImportedOnce`.
- `RowsAgree`, `EventBacksRow`, `EscalationIsBacked`, `LifecycleHolds`, `AlertedOnce`,
  `LateIsFlagged`: above, under `ComplaintDesk`.
- `KillSwitchHolds`: once the switch is off and every request that saw it on is over, nothing is
  sent. That those requests may go on sending, or turn the switch on again with what they loaded, is
  what the code does: `docs/OPERATIONS.md:31` ("With external notifications off ... no SMS provider call
  occurs") claims more. `SentOnce`: an alert is handed to the carrier once, violated when an invocation
  dies with its sends unsaved. `SentIsRemembered`, a theorem only: once an id is stored no snapshot takes
  it away, so no later request sends the message again. `TerminalStays`: violated by a write in another's
  window, true without one. `FinalStatusIsTrue`, `SentIsSettled` (liveness).
- `DecisionStands`, `AnswerIsFinal`, `ResolutionStands`: what people were told is what is on record.
- One `TypeOK` per module; it also bounds, where the code does, the pages of a discovery, the
  lateness marks and the statuses that can be stored.

What the violations show. *lease_stolen*: invocation A overruns its lease, B claims the message, A
comes to `finishProcessing` with a failure and sets the row to `RETRY_WAIT` with no lease - B's
lease - and a third attempt begins while B works. `ExclusiveRuns` and `SettledStateIsBacked` survive
this. *case_identity*: A and B load the same state for different cases, both allot the same id,
and the later `persistState` updates the row of the other case; its message is then linked to
the wrong complaint and its own case does not exist. *sms_terminal*: a webhook reads the row, another
one makes it terminal, and the first writes its own status; a request that persists an older snapshot
does the same. *sms_resent*: a dispatch hands an SMS to SignalWire and its invocation dies; the row still
says `PENDING` without an id, because all sends are stored in one persist at the end, and the next request
sends it again. Two requests that load the row at once do the same without a death. *two_replies*: the four
minutes of the lock run out under a job, the next job claims it, both read `PENDING`, both update the row
to `IN_FLIGHT` without counting the changes, and both send the reply.

### Bounds

*Mail intake.* `MaxAttempts` = 3 stops the redelivery of a message (never the claim of one already
delivered): the third attempt is what `lease_stolen` needs and the second is what every retry property
needs. `MaxFaults` = 2 counts failures, deaths and leases overrun by a working invocation; two let one
attempt fail in one way and its retry in another. With one more attempt than faults, every bounded
behavior can still settle its mail, so the liveness property is not cut off by the bounds. Two
workers suffice for every interleaving of a pair of calls. What holds only
while writes keep apart is checked with one worker, the case of `SerialIntake`, whose failed attempts and
retries go through two cases of one conversation; that other invocations in any other place do no harm
rests on the theorems.

*MailAck.* Two jobs are a job and the one that takes over its lock; two messages of the page are
an initial one and a follow-up, the third is beyond it. One complaint, because two make more states than
liveness can be checked on; no action looks at a second one, and the invariants are proved for any
number.

*MailSupply.* Three pages for runs of two: a run parks a `nextLink` and another goes on. Two requests
overlap in every way, each with the poll, which may be in the intake of any number of messages. One fault
lets one holder of a lease die; leases run out as often as they are taken.

*ComplaintDesk.* One request at a time and the job, on one complaint. A second request, or a second
complaint, makes more states than TLC can finish (over a million with two requests), so the
interleavings of more processes and the order of rows and events of several complaints rest on the
theorems, which leave both open. Two requests in sequence let a reopened or acknowledged complaint be
overwritten by the job, and the other way round. Time has three values: before, between and after the
two deadlines.

*SmsDelivery.* In `sms_delivery` one message of an alert or a test is sent, one phone number changes once,
the switch turns once, off or on, and requests and handlers follow one another, as liveness cannot use
symmetry; a request may leave an alert planned that a later one looks at. What needs two requests of
different age - a stale snapshot over a stored id, or over the switch - is more than TLC can finish along
with liveness, and rests on the theorems `SentRemembered` and `SwitchHolds`; `SentOnce` without
`sms_resent`'s death and `TerminalStays` without `sms_terminal`'s race rest on `AlertsSentOnce` and
`TerminalKept`.

*ResponseDesk.* Two people for one race; two rows and two kinds for the unique key; six requests are
draft, submit, the two verdicts, and two on the review item.

Deadlock is not checked for `mail_supply` and `response_desk`: when the bounded
requests are used up, nothing is left to do.

### Fairness

*`MailIntake.FairSpec`*, for `IdentifiedMailSettles`. A running invocation makes its next call (weak
fairness of `Proceed`); a platform that kills it takes `Die`, a fault. Each message is handed over
again and again (strong fairness of `Deliver` for the message): `pollEmail` lists the mailbox window
on every poll and ingests each message of it. Strong, because the one worker is now idle and now
busy. Time passes (weak fairness of `LeaseExpires`). This is about mail inside the lookback window;
the cron trigger that `docs/OPERATIONS.md` speaks of must be enabled in `wrangler.toml`. Excluded
from the property is a complaint without a case id. If its `REVIEW_REQUIRED` event is committed and
the invocation dies before `finishProcessing`, every retry is rejected by the foreign key of its
review item and the message goes round in `RETRY_WAIT`.

*`MailAck.FairSpec`*, for `MailIsAnswered`. The trigger fires every five minutes (weak fairness of
the claim by some job), a running job makes its next call or dies, a lock runs out in the end. The
property leaves out mail beyond the first page of 25. It also allows for a case that keeps a
complaint which no row names as its initial message for ever (`Orphaned`): an intake that throws between
`persistState` and the row's UPDATE leaves one, and the retry is then a follow-up of its own complaint.

*`ComplaintDesk.FairSpec`*, for `LateIsFlagged`: only the trigger and the job's own calls. No request
is assumed to go on.

*`SmsDelivery.FairSpec`*, for `SentIsSettled`. Invocations go on or die, the provider decides on a
message, and the scheduled reconciliation asks for each row that stays `SENT` (strong fairness,
because webhooks come in between). Without a changed phone number, which the reconciliation refuses.

## Proofs

The theorems hold for every value of the constants: any number of workers, messages, requests,
people, complaints and faults. The assumptions are those named in the modules (`MessagesAssumption`,
`MailAckAssumption`, `MailSupplyAssumption`, `DeskAssumption`, `ResponseDeskAssumption`): the types
of the constants, and that null values are none of the values. TLC evaluates them in every run.

| Module | Theorem | Statement |
|---|---|---|
| `MailIntakeProofs` | `TypeCorrect`, `RunsAreExclusive`, `LedgerAgreement`, `SettledIsBacked`, `OneComplaint` | `Spec => []TypeOK`, `[]ExclusiveRuns`, `[]LedgerAgrees`, `[]SettledStateIsBacked`, `[]OneComplaintPerCase` |
| | `IntakeKeepsPromise` | `Spec => SourcePromise` |
| `MailRowsProofs` | `CaseIdDecided`, `RowsPromised` | `LoadsApartSpec => []CaseIdDecides`, `LoadsApartSpec => RowsPromise` |
| | `FollowUpsQuoted` | `WindowsApartSpec => []FollowUpIsQuoted` |
| | `SerialIntake` | with one worker, `Spec => []CaseIdDecides /\ []FollowUpIsQuoted /\ RowsPromise` |
| `MailAckProofs` | `MailAckTypeCorrect`, `OneReplyWithinLock`, `SentProven`, `AmbiguousKept` | `[]TypeOK`, `[]OneReplyInLock`, `[]SentIsProven`, `AmbiguousStays` |
| `MailSupplyProofs` | `SupplyTypeCorrect`, `CursorCovered`, `CursorMovesOn`, `OneImport` | `[]TypeOK`, `[]CursorIsCovered`, `CursorAdvances`, `[]ImportedOnce` |
| `ComplaintDeskProofs` | `DeskTypeCorrect`, `DeskRowsAgree`, `LifecycleKept`, `EscalationsBacked`, `EventsBackRows`, `AlertsOnce` | `[]TypeOK`, `[]RowsAgree`, `LifecycleHolds`, `[]EscalationIsBacked`, `[]EventBacksRow`, `[]AlertedOnce` |
| `SmsDeliveryProofs` | `SmsTypeCorrect`, `FinalStatusTrue`, `SentRemembered`, `SwitchHolds` | `[]TypeOK`, `[]FinalStatusIsTrue`, `SentIsRemembered`, `KillSwitchHolds` |
| `SmsApartProofs` | `AlertsSentOnce` | `RequestsApartSpec => [](faults = 0 => SentOnce)` |
| | `TerminalKept` | `WritesApartSpec => TerminalStays` |
| `ResponseDeskProofs` | `DeskTypeCorrect`, `DecisionsStand`, `AnswersFinal`, `ResolutionsStand` | `[]TypeOK`, `DecisionStands`, `[]AnswerIsFinal`, `[]ResolutionStands` |

Four theorems have a hypothesis on the behavior: `LoadsApartSpec`, `WindowsApartSpec`,
`RequestsApartSpec` and `WritesApartSpec` are `Spec` with every step into an overlap of two named windows
left out, where a window lies between a read and the write that rests on it. Nothing in the code keeps
them apart, but one invocation at a time does. So these theorems say what an overlap puts at
risk, and that nothing else does: not failures, overrun leases, retries, or a handler or a request in any
other place, nor, but for `SentOnce`, deaths. What happens in an overlap is shown by `case_identity` and `sms_terminal`.

The arguments:

**MailIntake.** `TypeInv` = `TypeOK` and what an invocation knows at its next call (`TypeOK` alone is
not inductive: the follow-up is written at `target[w]`). `RunsInv` adds to `ExclusiveRuns` that no run
row is beyond `attempt_count` and that the row of a held run is there and `PROCESSING`: this makes the
compare-and-set exclusive. `LedgerInv` adds `KindInv` (a `NON_ACTIONABLE` event is for non-complaints
only) and `FinishReady` (an invocation at `finishProcessing` has its outcome in the ledger, even if
another attempt put it there), from which `SettledStateIsBacked` follows at the one action that settles
a row. `CaseInv`: every loaded snapshot is, case by case, a prefix of the stored list, so a
`persistState` that adds a row comes from a snapshot as long as the list, in which `createComplaint`
looked for the case. Refinement: `Record` needs an open message, which is `SettledStateIsBacked` read
backwards.

**MailIntake, writes apart.** `DecidedInv`: links, rows and the complaint an invocation has chosen
are of the case the message shows, and a snapshot at `persistCase` has as many complaints as the table.
The last makes `createComplaint` number past the table, so that no upsert merges two cases; it is
the load of another invocation, between load and write-back, that could break it, and that is
the hypothesis. Refinement: each call is `Open`, `Name`, `Follow` or a stutter, where `Open` needs the
`CaseInv` of the unconditional proof. `QuotedInv`: what an invocation is about to write back, `read` or
`snapshot`, is what is stored, so that nothing quoted is dropped.

**MailAck.** Counting. A job without the lock is detached; there are at most `overruns` of them, so at
most `overruns + 1` jobs run. A sender saw its row `PENDING` and has not sent; while a row is `PENDING`
nothing was sent for it, and senders only appear while it is. So replies and senders of a complaint
together stay within `overruns + 1` (`CountInv`), which is one while no lock ran out under a job; the
number of replies alone would not carry over a send.

**MailSupply.** `CoverInv` and `WalkInv` say of every value that may become the cursor - what a request
read to put back, the link of a run - that each change up to it was seen to, is the one the run is at, or
is on the run's page. What was seen to stays so, which needs `LeaseInv`: a message is `PROCESSING` only if
somebody is at it or an intake of it failed, and waits for a retry only if one failed; so when the
invocation that another run left a message to ends, the message is in a final state or has failed.
`OrderInv`, while no runs have overlapped: a run is not behind the cursor. `PilotInv`: an armed lock has
let nothing through.

**ComplaintDesk.** `Base`: `Follows` ties the row a process saw, the one it will write and the events
it has for it; `Sound` adds to the agreement of fields that nothing is submitted before it is
acknowledged (without it `RowsAgree` does not survive an acknowledgment); `PrefixInv` says that
complaints are numbered without gaps in every table that is written, whichever batches were cut, so that
a row's events are right after it; `StoredInv` says that what a process is past is stored.
`BackInv`: the marks a process will write are backed, or it is the one that has their events.
`FlagInv`, of a complaint whose flags nobody overwrote unread: a logged flag is on the row, and two
processes that both wrote the row do not both have the same lateness to report.

**SmsDelivery.** `TruthInv`: ids and decided statuses are true in the table, in every snapshot and in
what every handler fetched; a decided status never changes at the provider. `QuietInv`: the history
variable implies that neither the table nor a snapshot has the switch on.

**SmsDelivery, writes apart.** A step of a request is one of six kinds (`RequestKinds`: load, plan,
save, answer, the test route, death), which is all that either proof looks at. `SendInv`: a
notification that is sendable - `PENDING` without an id, or not planned yet - in the table or in the
one snapshot that is worked on has been sent at most `faults` times; a row in the table may be
sendable and yet sent only while the request that sent it is at its dispatch, and then either that
request saves what it did or a fault is counted. `FreshInv`: a snapshot that will be written knows
every terminal status of the table; what a handler saw of its row is what the row says; a test under
way has no row.

**ResponseDesk.** What a request read is a state its transition starts from, never a decision; an
UPDATE that asks for that state cannot meet a decision.

### Only model-checked

The four liveness properties (`IdentifiedMailSettles`, `MailIsAnswered`, `LateIsFlagged`,
`SentIsSettled`), because fairness and ENABLED are beyond the prover, as are induction over data and
recursive operators, of which no module has any. Every invariant, action property and refinement
that a passing run checks is also a theorem. `OneReply`, `SentOnce`, `TerminalStays` and
`ActiveLeaseNotStolen` are violated, and `CaseIdDecides` where loads overlap.

## Not modelled

- The mail interpreter: it writes columns of its own and can add flags to a review item, and never
  decides an identity; for the rest it is a function of one text, and its prompts and normalisation
  have no state.
- Gmail adapter, OAuth, request signing, authentication, validation: I/O or functions of one request.
- Owner notifications, reporting, metrics as shown, the user interface: they read what the modules
  write. (The two metrics that await an answer are in `ComplaintDesk`, as what a row must keep to.)
- Editing of users, stores and templates by owners; `recordIntegrationEvent` except where its failure
  is handled; texts and layouts.
- In the adapter for Microsoft Graph: what it returns is modelled (one page, oldest first; links;
  failures), how it asks is not.
