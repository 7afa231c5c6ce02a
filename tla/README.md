# Formal model of the sales platform

The repository is a multi-tenant sales platform: a Next.js application over
PostgreSQL (Prisma) that finds leads, enriches them, writes to them through the
tenants' own mailboxes in timed sequences, reads the answers with a language
model and runs a small CRM.  What makes it hard is that nothing in it is one
process: every cron tick, every HTTP request and every click of a user runs the
same services over the same rows, an `await` lies between each read and the
write that relies on it, and most of what is done (a mail, a charge) cannot be
undone.

This directory holds TLA+ models of that core, the TLC runs that check them and
proofs of what must hold at any size.  Paths below are relative to the
repository's root.

## 1. Inventory

State is rows of the database unless said otherwise; "await gap" means that a
decision and the write that uses it are separate statements.

| Component | State | Operations | Interacts with |
|---|---|---|---|
| Send path: `inbox.service.ts` `sendOutreach`, `email-safety.service.ts`, `email-account.service.ts` | `Message` per idempotency key, SENT/FAILED `EmailEvent`s, account status and daily counter, suppression list | look-up and resume by key, reserve a slot under the organisation's advisory lock, consume an entitlement, call the provider, record the outcome | called by executor, outbox, agent, AI reply, inbox API; mail provider |
| Inbound mail: `inbox.service.ts` `ingestInbound`, `lib/email/inbound-sync.ts` | inbound `Message`, REPLIED events, conversation | dedupe by provider id, bounce and reply classification, stop signals | sequence enrolment, AI reply |
| Sequence enrolment: `sequence-enrollment.service.ts` | `SequenceEnrollment` (status, current step, next run, claim token, pause reason) | enroll, pause, resume, stop, retry, stop on reply/unsubscribe/meeting, out-of-office pause and its cron resume | executor, inbox, unsubscribe |
| Sequence executor: `sequence-executor.service.ts` | the enrolment row, `SequenceEnrollmentExecution` per (enrolment, step), retry count in metadata | claim a batch, process one (stop conditions, quota, send, record, advance), fail or retry, reclaim stale claims | send path, enrolment, suppression |
| Outbound queue: `outbound-job.service.ts` | `EmailOutbox` (QUEUED/HELD/SENDING/SENT/FAILED/CANCELLED) | enrol leads, queue a step, send due items, hold/release, approve | mailbox pool, send path, enrolment |
| Mailbox pool: `mailbox-pool.service.ts` | per mailbox: sent today, sent/bounced total, ramp day, paused | pick, record a send, record a bounce, pause a domain | outbound queue |
| AI reply: `ai-reply.service.ts` | `AiReplyDraft`, thread state, outbox of replies, kill switch | classify, draft, approve, queue, cancel, deliver | inbox, send path, enrolment |
| Cron tick: `cron-tick.service.ts`, `app/api/cron/automation/route.ts` | the advisory lock of a session, `CronTickLog` rows | lock, eight jobs in parallel, finish, unlock, staleness | every job |
| Job runner: `lib/jobs/runner.ts` | `JobLog` rows | idempotency look-up, attempts with a time limit, back-off, dead letter | nobody: no code of the repository calls it |
| Duplicate send guard: `lib/sequences/duplicate-send-guard.ts` | reads enrolments, executions, outbox | refuse an enrolment or a send a second engine already made | legacy automation and the AI outreach call it; the outbox does not |
| Legacy automation: `automation.service.ts` | `FollowUpJob` rows, leads | process due follow-ups | send path |
| Entitlements: `lib/billing/entitlements.ts`, `entitlement.service.ts` | `UsageRecord` per feature and month, the resources that take a seat, the `Subscription` row (read) | check, consume, seat check; create, pause and activate what takes a seat | send path, enrichment, AI, mailbox pool |
| Billing: `billing.service.ts` | `Subscription` row, `BillingWebhookEvent` per Stripe event | change of plan, Checkout session, webhook claim, apply, mark | Stripe; entitlements |
| Agent: `agent.service.ts`, `lib/agent/policy.ts` | `AgentGoal`, `AgentRun`, `AgentAction` (with its approval) | plan, policy, approve, execute | send path, sourcing |
| Lead sourcing: `sourcing-job.service.ts`, `search-query.service.ts`, `lib/sourcing` | `SearchQuery` (status, next page token), `Company` with its crawl status, `CompanyEmail` | run one page of a query, create the companies, crawl their websites, pause and activate a query | Google Places; enrichment, cron tick |
| Enrichment: `enrichment-job.service.ts` | enrichment status and attempts of a company, contacts, opportunities, `ApiUsageLog` | list a batch, search the domain, verify an address, write contact and opportunity, fail; enrich, skip and unskip by hand | Hunter; sourcing, CRM, audit |
| Pitch audit and review: `website-audit.service.ts` | audit status and attempts of a company, `WebsiteAudit` rows, `CompanyPitch` versions | list a batch, audit one, replace the pitch, approve, reject, regenerate | enrichment, outbox, cron tick |
| Website inbound: `website-inbound.service.ts` | website forms as leads | accept a form, find or create the contact | leads |
| Campaign bridge: `campaign-lead-bridge.service.ts` | links between campaign leads and CRM | import, link, enroll | enrolment |
| CRM: `opportunity`, `deal`, `company`, `contact`, `lead`, `lead-migration`, `meeting`, `task`, `proposal` services, `lib/crm` | pipeline rows, activity | CRUD, stage changes, conversion, merge | all |
| Accounts and sessions: `auth.service.ts`, `lib/auth`, `lib/security`, `organization.service.ts`, `user-integration.service.ts` | users, sessions, invitations, roles, encrypted tokens | sign-in, rotation, invite, revoke | API |
| Unsubscribe and tracking: `unsubscribe.service.ts`, `email-tracking.service.ts` | suppression rows, open/click events | unsubscribe by token, record an event | enrolment, send path |
| Send windows: `lib/outbound/timezone.ts` | none | next send window of a country | outbound queue |
| Revenue goals, learning, recommendations, business brain, notifications, analytics | derived rows | score, recommend, notify | UI |
| UI, e-mail rendering, migrations, scripts | none of their own | pages, templates, one-off data changes | services |

### Where it is hard

* **Interleaving.** Two ticks, a tick and a click, or a tick and a webhook work
  on one row.  Some writes are conditional (`updateMany ... where status`),
  most are not.
* **Await gaps.** The look-up of a message by key, the read of the account, the
  read of an enrolment in `pause`/`resume`/`stop`, the retry counter.
* **Failure in the middle.** A mail is accepted and its record fails; a process
  dies with a row claimed or half recorded.
* **Limits.** Daily quotas per organisation, account, mailbox; entitlements;
  retry budgets.
* **Signals against work in flight.** A reply, an unsubscribe or a stop that
  arrives while a worker is between its checks and the send.

### What makes each part correct

* Send path: a key is delivered once; a quota is never exceeded; what is called
  sent was accepted; a message is counted once.
* Enrolment and executor: one worker per claim, steps in order and each once, no
  step after a stop signal was seen, a terminal enrolment stays terminal, every
  claim ends or is reclaimed, a retry budget that bounds the attempts.
* Outbound queue: an item is sent at most once, in a window, not to a suppressed
  contact; an enrolment's steps are queued in order.
* Mailbox pool: no mailbox above its cap, a mailbox that bounces is paused.
* Cron tick: at most one tick at work; the lock comes free.
* Entitlements: usage and seats within the plan's limit, but for what was under
  way at the same time.
* Billing: an event changes the subscription once; when everything was
  delivered, the row says what Stripe says.
* Lead sourcing and enrichment: no page of a finished query is lost; a company is
  paid for a bounded number of times and not again once it is finished; the
  day's credits are respected; an enriched company has one lead to work
  on, with a contact that is its own unless another company shares the address.
* Pitch audit and review: what a user approved is what is sent; a contact has one
  current pitch; a company that was audited has one to review; the number of
  audits is bounded.
* CRM, accounts: stages follow the pipeline, a revoked session is refused.

## 2. Plan

The platform's undoable acts are mails, so the model starts where a mail leaves
and goes outwards: first what sends one message (send path), then the two
engines that decide when to (sequence executor, autopilot outbox), the one that
answers (AI reply), and the tick that starts them all.  Around them stand the
parts that cost money: the plan's limits and their billing, the search for leads
and its paid enrichment, the audits and pitches.  Modules are parameterised
by CONSTANTS with named assumptions, have one action per statement or handler,
and no RECURSIVE operator, so that they can be proved about.

| | Module | Stands for | State of the plan |
|---|---|---|---|
| 1 | `SendQuota` | abstract: a quota that grants slots while there is room | done, implemented by `SendOutreach` |
| 2 | `SendOutreach` | the send path, statement by statement | done; all its invariants and both refinements proved |
| 3 | `Outreach` | abstract: what a caller of `sendOutreach` may rely on | done, implemented by `SendOutreach` (proved) |
| 4 | `SequenceExecutor` | enrolment + executor, over `Outreach` | done; all its invariants proved |
| 5 | `Outbox` | autopilot outbox, over `Outreach` | done; all its invariants proved |
| 6 | `CronTick` | script, route, advisory lock | done; all its invariants proved |
| 7 | `AiReply` | drafts, deliveries, kill switch | done for one conversation; all its invariants proved |
| 8 | `Entitlements` | consume and the seat check, by several callers | done; both properties proved |
| 9 | `Billing` | the subscription's row, webhooks, changes of plan, against a model of Stripe | done; `AppliedOnce`, `AnsweredWasApplied` and `SettledAgrees` proved |
| - | `Subscription` | `Billing` and `Entitlements` in one state | done; implements what each of them assumes of the other (proved) |
| 10 | `LeadPipeline` | pages of a query, crawler, enrichment | done for one query and any companies; all its properties proved |
| 11 | `PitchReview` | audits, versions of a pitch, reviews | done for one company; all its properties proved |
| 12 | `Agent` | approval and execution of an action: both read its status and then update by id | not written; the next worth modelling |
| 13 | `MailboxPool` | pick and record, ramp, daily reset, bounce pause of mailbox and domain | not written; the races of its counters are those of `SendOutreach`'s account |
| 14 | `Settings` | JSON settings that are read, merged and written back | not written; a lost update without a protocol, listed as a hazard |
| 15 | `DuplicateGuard` | legacy automation and AI outreach on one contact | not written: the outbox, the engine it should be composed with, does not call it |
| 16 | `Opportunity`, `Session` | stages, rotation of sessions | not written: single-row writes |
| 17 | `SendWindow` | `nextSendWindowUtc` | not written: a pure function over the runtime's time-zone database, which a model would have to invent |
| - | `JobRunner` | attempts with a time limit | dropped: the repository has no caller of it |

`Outreach` is what composes them: `SequenceExecutor` and `Outbox` INSTANCE it
with their runs as callers and their steps as keys, and `SendOutreach` is shown to
implement it with `INSTANCE Outreach WITH` a mapping of its message rows and
program counters.  So the big models carry a send path of ten actions in the
place of one of thirty, and nothing is assumed that is not proved.

Of the plan's theorems none is left: every invariant and action property that a passing
run checks is proved for all values of the constants.  What is left are rows 12 to 16, and
the two liveness properties, which the prover cannot reach.

## 3. The modules and the code

Every module names the code's functions in its comments; `PROJECT.json` maps each
definition to its lines.  Three conventions hold everywhere.

* **A step is what runs between two awaits** that another actor can get between.
  Reads that no other actor can tell apart are joined with the next write.
* **History variables** (`overlapped`, `lost`, `disturbed`, `stray`, ...) record that
  something unusual happened; no guard reads them.  They let a property say
  exactly under which circumstances the code's promise ends.
* **Bounds** are constants named `Max...`, used only as guards of what the
  environment does (calls, clicks, crashes, midnights), never of what the code does.
* **Mutants** - definitions under a comment "Mutant:" or "as if ..." - are what a plausible slip
  in the code would make of the definition after them.  No specification uses
  them; they show that the properties can fail.
* **Type invariants.**  Every module has one, `TypeOK` (`LimitsTypeOK` in `Entitlements`).  It is a
  theorem, so no run spends a property on it.

### SendOutreach (`inbox.service.ts`, `email-safety.service.ts`, `email-account.service.ts`)

`msg[k]` is the `Message` row with idempotency key `k` and whether it counts for the
current UTC day; `account` the `EmailAccount` row (status, `dailySentCount`, whether
the reset is of today); `call[p]` the local state of one execution of
`sendOutreach`, its `pc` the next statement.  `Start` reads the account, `Lookup`
does the look-up by key, `Check` is `assertCanSend` under the advisory lock
(`LockFree`), `Reserve` the write of the transaction, `Abort` its roll-back with the
read that follows, `Consume`, `Provider`, `MarkSent`, `RecordEvent`,
`CountEvents`, `Increment`, `Finish` the statements after it, `Throw`, `Fail`,
`MarkError`, `FailThrows` the catch block.  `Crash` is a process that dies.
The lock is transaction-scoped, so only `Check` to `Reserve` exclude each other; the
counter reset inside `assertCanSend` is written outside the transaction, as in
the code.  The two days (UTC for the organisation, server time for the account)
begin at different moments, hence `NewUtcDay` and `NewLocalDay`.

### Outreach

The same call with the lock, the limits, the account and the calendar removed: a message is
`NONE`, `SCHEDULED`, `SENT` or `FAILED`, a call is at one of eight stages and ends with one of
five answers.  Its environment gets every answer the code can give in that state, no
other.

### SequenceExecutor (`sequence-executor.service.ts`, `sequence-enrollment.service.ts`)

One enrolment: `enr` is its row (`due` is `nextRunAt` seen from now, `stale` whether
`processingStartedAt` is older than five minutes, `ooo` the pause left in the
metadata), `done` the SUCCESS executions, `run[w]` a call of `executeClaimed`,
`user[u]` a click between its read and its write.  `Claim` and `Reclaim` are the two
updates of `claimDue`; `Load`, `Check`, `Limit`, `Prior`, `Sending`, `Answered`,
`Record`, `Log`, `Write` follow `executeClaimed`; `RetryRead`, `RetryWrite`,
`OuterWrite` are `failOrRetry` from the two catch blocks, of which the outer one
passes no token.  `Write` updates only under the run's token.  `Receive`, `StopHook`,
`OooHook`, `DropHook`, `ResumeOoo` are the mail of the contact and what the
handlers make of it.  A worker is a claim, not a tick: several claims of a batch are
several runs.

### Outbox (`outbound-job.service.ts`)

One contact: `enr[e]` its enrolments one after the other, `row[<<e, s>>]` the outbox
row of a step (unique index), `work[w]` a tick or a run by hand.  `Pick` to
`Consume` are `autoEnrollBatch`; `QueueRead`, `QueueFind`, `QueueDrop`, `QueueMake`
are `queueStep`, which other jobs call and `Rest` returns from; `Release` and `ReleaseNext` are
`releaseFixableHolds`; `Batch`, `Count`, `List` are `processOutboxBatch`; `Claim` to
`Fail` are `sendOutboxItem` with `afterSuccessfulSend`.  The handlers of an
unsubscription and a reply, a pause at the enrolment's page, the review of the pitch
and the switch of shadow mode are what changes rows from outside.  `queueStep` reads
the settings anew, so `work[w]` keeps its reading (`qcfg`) apart from the tick's.

### AiReply (`ai-reply.service.ts`, `ai-reply-config.service.ts`)

One conversation: `draft[m]` and `row[m]` belong to the inbound message `m`
(messages are numbered as they arrive), `replies` is `aiReplyCount`, `work[w]` a
call of the service.  `Arrive` to `Queued` are `handleInbound` down to
`queueOutbox`; `StartSend` is `sendDraft`, which goes through the same `Queue`,
`QueueRow`, `Queued` and then the delivery; `StartRevise` with `CancelOwn`
stands for dismiss, regenerate and reclassify; `StartKill`, `ListQueued`,
`CancelRows`, `CancelDrafts` for the kill switch and for a flush that finds sending
forbidden; `StartFlush`, `NextRow`, `Claim` to `Caught` for `flushDueReplies` and
`deliverOutbox`.  The settings that forbid automatic sending (mode, the two shadow
modes) are one switch, `auto`, read where the code reads any of them.

### CronTick (`cron-tick.service.ts`, `app/api/cron/automation/route.ts`, `scripts/cron-tick.sh`)

`script` is the request the holder of the flock waits for, `tick[t]` a request in
a server process, `lock` the Postgres advisory lock as its session and how often
that session took it.  An advisory lock is re-entrant and belongs to a session;
Prisma gives each query any free connection of the pool, so `TryLock` and
`Release` each choose one.

### Entitlements (`lib/billing/entitlements.ts`, `entitlement.service.ts`, `mailbox-pool.service.ts`)

`used` is the `UsageRecord` of the month of one metered feature, `seats` the number of
resources that count for one seat feature, `call[c]` a call between its statements:
`Look` reads subscription and plan, `Count` what was used and compares, `Increment` or
`Create` act.  `consume` is `Look`, `Count`, `Increment` with the awaits between them.
The exempt purpose (`Look` with `exempt`) increments without a comparison.  `Pause` and
`Activate` change a mailbox's status, which no seat check guards.  `Change` is any
change of the subscription, `NewMonth` a new record.  `held` remembers the plans the
organisation had, since a call compares with the plan it read.  The names `LimitsInit`,
`LimitsNext` and `Catalogue` (the plans) leave `Init`, `Next` and `Plans` to `Billing`, with which
`Subscription` composes the module.

### Billing (`billing.service.ts`)

`row` is the `Subscription`, `claim[e]` the status of the `BillingWebhookEvent` of event
`e`, `job[h]` a delivery at work, `admin[a]` a request to change the plan.  `Receive`
is the insertion of the event's row, whose unique index answers every later delivery as a duplicate;
`Apply` is `applyStripeEvent`, `Mark` the update to processed, `HandlerFails` the catch
block or a crash.  `Ask`, `OpenSession`, `CallStripe`, `Refused`, `WritePlan` follow
`changePlan`, `switchToFreePlan` and `createCheckoutSession`.  `stripe` and `events` model Stripe as far as the
code relies on it (external): a subscription moves by `Pay` and `Drift`, each of which
appends events; `Receive` takes any event that was not answered with a success, so
deliveries come in any order, together, and again.

### Subscription (`entitlement.service.ts` over `billing.service.ts`)

`Billing` and `Entitlements` in one state.  `EntitlementsService.check` reads the row that the webhooks and
`changePlan` write: `Shown` says that `plan` and `barred` are the row's plan and whether its status is
refused.  `BillingStep` is any step of `Billing`, seen at once by the next check; `UseStep`
is a statement of a caller, which leaves the subscription alone.  The module has no run of its
own: what it is there for is the theorem that `Entitlements`' `Change` allows for all that
`Billing` does.

### LeadPipeline (`sourcing-job.service.ts`, `search-query.service.ts`, `enrichment-job.service.ts`, `company.service.ts`)

One search query from its pages to leads.  `query` is its row (the token as the number of pages
behind it), `runner[r]` a run of `runOneQuery`, `patch` a request that activates the query with
the token it has read.  `crawl` and `mail` are what `processCrawlBatch` writes,
`crawler[k]` a run of it.  `status` and `attempts` are the enrichment's columns,
`batch[b]` a run of `enrichBatch` (or of the user's bulk action): listed once, then company by company through
`Begin`, `DomainSearch`, `VerifyPerson`, `VerifyGeneric`, `UpsertContact`, `LookForLead`,
`CreateLead`, `Enriched` or `NoContact`, with `EnrichFails` for the catch block from anywhere.
`units` counts the `ApiUsageLog` rows of the day, `billed[c]` (history) the searches for `c`
since its attempts were last reset.  Contacts belong to the organisation and are found by their
address: `contact[a]` is the company of the contact with address `a`, which `UpsertContact` sets to
the company at hand, whoever had it before (`moved`, history).  `Emails[c]` are the addresses that Hunter or
the website may give for `c`; two companies may share one.  `opps[c]` are the open opportunities of `c`
in the order of creation, each as the address of its primary contact: `LookForLead` gives the oldest the new
contact, `CreateLead` adds one.  `Owner` says which contacts there are at the start; their companies were
enriched earlier.

### PitchReview (`website-audit.service.ts`)

One company with one contact.  `pitches` are the statuses of its pitch versions in the order of creation,
`audit` and `attempts` the company's columns, `worker[w]` one `auditOne` between its
statements: `List`, `Begin`, `RowDone`, `CompanyDone`, then `upsertPitchForContact` as `Look`,
`Supersede`, `ListDrafts`, `Clear`, `Create`; `Fails` and `CompanyFails` are the catch block,
`Dies` a crash.  `Create` includes the timeline's note of an approved pitch, which may throw (`Uncounted`: the audit's row
then no longer counts).  `Regenerate` is an audit that a user forces.  `ReadToApprove` and
`Approve` are the two statements of `approvePitch`, `Reject` is `rejectPitch`, which asks for no status.
`audited` counts the day's DONE audits, the limit's measure.

## 4. The runs

| Run | Instance | What it shows |
|---|---|---|
| `send_outreach` | 2 callers, 2 keys, a limit of 1 a day, 3 calls, 1 midnight | `RegularWithinLimit`, `ImplementsQuota`: messages whose life nothing disturbed never hold more than `dailyEmailLimit` slots, and get them one at a time.  `DuplicateNeedsCause`: a key is delivered twice only if two calls overlapped or the record of an acceptance was lost.  `SentWasDelivered`: SENT rows and SENT or resumed answers were accepted |
| `send_account` | 2 callers, 3 keys, an account limit of 1 | `AccountCountHolds`: the account's counter counts a message at most once (`NeverDoubleCounts`) and overshoots its limit by less than the number of concurrent callers (`AccountOvershootBounded`) |
| `executor` | 2 runs, 1 user, 3 steps of which 2 are e-mails, 2 mishaps | `OneWorker`, `MailedOncePerStep`, `StepsInOrder`, `CompletedIsDone` |
| `executor_live` | 2 runs, 1 step, an absence and an unsubscription, fairness | `SignalledNeverSends`; `ClaimsEnd`, `SignalsStop` under fairness |
| `outbox` | 2 workers, 1 enrolment, 3 steps, a cap of 1, 2 mishaps | `MailedOnce`, `RowsTellMail` (a row that waits was not mailed, one that is SENT was), `StepsInOrder`, `SuppressedNeverMailed`, `CapOvershootBounded`, `NoneForgotten` |
| `ai_reply` | 2 workers, 2 messages, 1 reply allowed, 1 click, 1 mishap | `TwiceNeedsCause`, `LateNeverSends`, `SentWasMailed`, `RepliesLimited` |
| `cron` | 3 ticks, 2 processes with 2 connections, 2 jobs, 2 mishaps | `OneTickUnlessOutlived`, `ProcessesExclude`, `LeftOnlyByStray` |
| `usage` | 3 callers, 2 plans, limits of 1 and 2, 1 exempt call, 1 paused mailbox | `UsageOvershootBounded`, `SeatOvershootBounded`: usage and seats pass the limit of some plan held by less than the number of callers, plus what is exempt or was made active again |
| `billing` | 2 Stripe subscriptions, 2 handlers, 1 change of plan at a time, 4 events, 1 mishap | `AppliedOnce`, `AnsweredWasApplied`, `SettledAgrees` |
| `leads` | 2 companies with one address, one of them enriched before, 2 pages, 2 runs, 1 crawler, 2 batches, 1 attempt, 4 credits, 3 clicks, 1 mishap | `DoneMeansFound`, `CreditOvershootBounded`, `BilledWithinAttempts`, `RebilledNeedsCause`; `EnrichedHasLead`: an ENRICHED company has an opportunity, whose contact is its own or was taken by the company with the same address; `LeadsBounded`: one opportunity, or one per batch where two had the company |
| `pitch` | 2 workers, 2 users, both review modes, 2 attempts, 4 audits, 4 clicks, 1 crash | `ApprovedStays`, `OneCurrent`, `DoneHasPitch`, `AuditsWithinAttempts` |
| `outbox_stopped` | violated: `StoppedNeverMailed` | a queued row is claimed and mailed after the contact's reply |

**Why the bounds are enough.**  Every hazard here is a race of two actors over one
row, or a failure between two statements of one of them; two actors, one or two
rows and one or two mishaps reach every such interleaving, and the third call, step or tick
shows what the next one finds.  Limits of 1 make every counter full at once.  The
cron needs three ticks: one that leaves the lock behind, one that takes it again and
one kept out.  `usage` has three callers, since the bound grows with their number.  `billing` has two
subscriptions, for the Checkout session paid beside a live one, and four events, of which two are one payment's
(`subscription`, `checkout`) and two may arrive in the wrong order.  `leads` has two pages, of which the last holds the
company that is new, so that a token lost or put back shows, and two batches; the other company was
enriched on an earlier day and owns the contact of the only address, so that the new one takes it.  Clicks
have it enriched again, skipped or reset, and the contact goes back and forth.  One attempt and
one address are enough for that; what more of either adds is in the theorems.  `pitch` allows four audits, two more than the attempts.  The large runs have
about 0.3 (`usage`), 2.4 (`billing`), 2.5 (`leads`) and 3.4 (`pitch`) million distinct states.
In the other runs mishaps are shared between crashes, exceptions and clicks, so a
run with two of them has all pairs.

**Symmetry** is declared for callers, keys, workers, runs, users, ticks, handlers, Stripe
subscriptions and batches, which no action tells apart, and only in runs without liveness
properties; `ApprovedStays` and `RebilledNeedsCause` speak of single steps and quantify over what
is permuted.

**Deadlock** is checked in `cron`, `ai_reply` and `usage`.  The send runs stop for good when
the bound on calls is used up, `executor` when the enrolment has ended and `outbox`
when every row is settled; `billing` stops after its last event, `leads` and `pitch` when the bounds on
clicks and audits are used up: there CHECK_DEADLOCK is FALSE, as in the run that looks for a
counterexample.

**Fairness** is assumed in `executor_live` alone: weak fairness of each run's steps (a
process that has not died goes on; a query or a mail server answers or fails in the end), of claiming
and reclaiming (the cron calls the executor every minute, and `claimDue` starts with
the reclaim), of the clock.  Nothing is assumed of handlers, users, crashes or
of the sequence's status; `SignalsStop` says so by its premise, that the sequence is not
paused for good.  No strong fairness is needed: a claim that is pre-empted is pre-empted by
another claim.

### What the violated run says

`outbox_stopped` checks `StoppedNeverMailed`, the finding in `PROJECT.json`, which quotes the
sentence it contradicts: `sendOutboxItem` checks suppression and country again but not the
enrolment, so rows queued before a reply are mailed after it, and `afterSuccessfulSend` makes the stopped
enrolment ACTIVE again.

Further claims of comments and docs are stated as definitions beside the properties, and TLC finds
a counterexample to each with the constants of the run named; no run is kept for them.

* `NeverResendsSent` (`SendOutreach`, `send_outreach`): `sendOutreach` looks a message up before its transaction and never again in it, so
  of two callers with one key the slower one sends a message that is SENT by then.
* `StopIsFinal` (`SequenceExecutor`, `executor`): the catch block around `executeClaimed` calls `failOrRetry` without the claim token
  and so writes ACTIVE or FAILED over STOPPED, PAUSED or another run's claim.
* `OooOnlyPauses` (`SequenceExecutor`, `executor_live`): `ingestInbound` writes REPLIED for every mail before it is classified, and the
  executor stops on any REPLIED event: an absence ends the enrolment at its next run.
* `OneTick` (`CronTick`, `cron`): `pg_try_advisory_lock` is re-entrant for its session and pooled connections are shared, so a second
  request of the same process may get the lock that the first holds.
* `NeverRebilled` (`LeadPipeline`, `leads`): "Belt-and-suspenders: never re-bill Hunter for finished companies"
  (`enrichment-job.service.ts:764`) looks at the status read when the batch was listed; a
  company that another batch finished in the meantime is searched for, and paid for, again.
* `ApprovedKept` (`PitchReview`, `pitch`): "Do not auto-replace APPROVED unless explicit regenerate"
  (`website-audit.service.ts:607`): an audit supersedes, by their ids, the drafts it found, and one that was
  approved since is superseded without a regenerate.
* `FreeIsUsable` (`Billing`, `billing`): after a change to the free plan the end of the period brings
  the deletion of the old subscription, which writes CANCELED over the free plan's ACTIVE;
  `externalSubscriptionId` stays, so later changes of plan ask Stripe for a subscription that has ended.

Further disagreements met while modelling, which no definition states:

* `resume` leaves `metadata.oooPause` behind, so a later pause by hand of the same
  enrolment is ended by the cron that resumes absences (`sequence-enrollment.service.ts:511`).
* DUPLICATE from `assertCanSend` is recorded as SUCCESS by the executor, although the
  other call with the key may still be refused by the provider.
* `ORG_DAILY_LIMIT` is a deferral in the executor but turns an outbox row FAILED for good.
* `queueStep` ignores `delayMinutes`, though the comment at `outbound-job.service.ts:1514` and the plan speak of
  days 0, 3 and 7; its rows are due at the contact's next window.
* The pitch a step is built from is chosen by `approvedAt desc`; in Postgres that puts a draft
  never approved first.
* `autoEnrollBatch` reads earlier enrolments before it writes one (line 414): two ticks
  may both go on; only the partial unique index of `scripts/phase3-sequences-migrate.js:347` stops the second.
* An enrolment whose `queueStep` throws is ACTIVE without a row, and no job queues
  that row later (`NoneForgotten` excludes it by `broken`).
* AI replies: `sendDraft` says "Queues through the outbox for idempotency", yet the row is queued again
  from a status read some awaits earlier, so a click during a delivery mails twice
  (`overtaken`); a write that fails after the provider's yes queues the SENT row again
  (`lost`); a crash leaves a row SENDING for good, which a user's click then finds
  "already sent or sending"; a cancellation between `queueOutbox` and the update of the
  draft leaves a QUEUED draft over a CANCELLED row.
* `ai-reply-config.service.ts` reads all settings and writes them back merged: a save under
  way when the kill switch is turned on turns it off again.
* Billing: an event whose handler failed is answered as a duplicate when Stripe retries it, so
  that its change is lost (`hurt`); `invoice.paid` delivered after the deletion makes a CANCELED
  subscription ACTIVE; two Checkout sessions opened one after the other and both paid leave two subscriptions at
  Stripe, of which the row knows one (`disturbed`).
* Entitlements: what was consumed for an operation that then fails is not given back; a paused
  mailbox that becomes ACTIVE again is not checked for a seat (`regained`).
* Sourcing: a run that ends writes ACTIVE or DONE over a pause made in the meantime; a DONE query
  run again by hand starts over and repeats its pages.
* Enrichment: `upsertContactByEmail` finds a contact by organisation and address and writes the company at hand
  on it (`enrichment-job.service.ts:336`); the comment on the column says "not globally unique — scoped per
  company in app logic" (`schema.prisma:1248`), the unique index 34 lines below it says otherwise.  Two companies with
  one address take the contact from each other: the first stays ENRICHED without a contact, its
  opportunity keeps one of another company, and since `findEligibleCompanyIds` asks for
  a contact it is never audited.  `upsertPitchForContact` looks for an approved pitch by the contact
  alone, so the second company may be answered with the pitch of the first.
  `EnrichedHasLead` admits the taking by name (`moved`).
* Crawl and enrichment: the crawl's status is written before the addresses are, so an enrichment in between finds
  none and writes NO_CONTACT, which nothing tries again; a failure writes the attempts
  read at the start plus one, whatever was counted since.
* Pitches: `findEligibleCompanyIds` takes a PENDING company whatever its attempts, so audits that overlap go past
  `maxAttempts` (`mixed`); a process that dies after `CompanyDone` leaves a DONE company without a pitch;
  `rejectPitch` accepts a SUPERSEDED pitch, which leaves two live ones.

## 5. What is proved

Checked by TLAPS for every value of the constants that satisfies the assumptions
named in the modules (finite non-empty sets of actors and keys, limits in Nat).

**Send path** (`SendOutreachProofs`, under `SendAssumption`).

* `TypeCorrect`: `Spec => []TypeOK`.
* `QuotaInvariant`: `Spec => []QuotaInv`.  The limit alone is not inductive: between
  `Check`, which sees room, and `Reserve`, which uses it, the room must stay.  `QuotaInv`
  says why it does: the caller at `reserve` holds the lock alone
  (`LockHolderAlone`); a key that never had two calls in flight has one
  call (`OneCallPerKey`) whose progress and row agree (`RowsAgree`), so the writes of
  callers past their transaction do not take a slot; a regular row that is not
  settled is dated today (`UnsettledIsToday`), so it needs no new slot when retried;
  and the room that `Check` saw is there (`RoomReserved`).  Every step of a
  caller that writes no row falls under one lemma (`QuietStep`), the three row
  writes under another (`RowWrite`).
* `DailyLimitHolds`: `Spec => []RegularWithinLimit`, and `SendImplementsQuota`:
  `Spec => ImplementsQuota`, both from `StepsOfQuota`: a step gives slots back or takes one while
  there is room.

* `SentWasDeliveredAlways`: `DeliveredInv` adds the calls past the provider's answer, which are the
  ones that write SENT and return it.
* `DuplicateNeedsCauseAlways`: `OnceInv` takes a key whose calls never overlapped and whose acceptance
  was never lost (`Clean`): if it was accepted and its row is not SENT, its one call is at
  `MarkSent`; and its call in the catch block was not accepted, so that what is written FAILED, and later
  retried, never went out.  That there is one call is `QuotaInv`'s.
* `AccountCountHoldsAlways`: both sides of the counter need the calls between the check and the
  increment.  Above: the counter and the calls that have yet to count (`Counting`) are
  no more than the messages with an event (`Recorded`), since only the call
  that finds its event alone counts it (`EventSeen`).  Below the limit: the counter and the
  calls past the check (`Passed`) stay under the limit and the number of callers.

**The contract of the send path** (`SendOutreachProofs`).

* `ContractInvariant`: a row that was found is there, from its reservation on a
  call's row is there, and the lock holder's row is as `Check` saw it.  The last
  is the point: the contract lets a caller reserve only a row it found or that is
  not there, and the code checks this in an earlier statement.
* `SendImplementsOutreach`: `Spec => ImplementsOutreach`, the refinement by which
  `SequenceExecutor` and `Outbox` may use `Outreach` for `sendOutreach`.  Each
  action of a call is a stage's step or moves within a stage
  (`StageMoves`, `StageStays`, `StageEnds`); the environment is invisible.  TLC has checked the same formula for two
  callers, two keys and three calls.

**Sequence executor** (`SequenceExecutorProofs`, under `ExecutorAssumption`), for
any number of runs, users, steps and mishaps.

* `TypeCorrect`: `Spec => []TypeOK`.  Two facts make it inductive (`TypeInv`): a call
  under way has a key (`CallsHaveKeys`), and a run about to write has a plan, one
  about to send an e-mail step (`PlansMade`).  That the row always stands on a step
  needs that `NextStep` finds one (`NextStepIsNext`, from the least member of a set of
  numbers).
* `OneWorkerAlways`: `Spec => []OneWorker`.  `WorkInv` is the strengthening: as long as
  nothing disturbed a run, whoever works holds the claim or was overtaken by a
  stop (`Owned`), and a token is only on a row in service (`TokenInv`).  The second is
  needed for the outer catch block, whose write asks for no token: it finds its own
  token on the row, or it disturbs.
* `StepsInOrderAlways`: `Spec => []StepsInOrder`, with no exception for disturbances.
  `OrderInv` carries "the earlier e-mail steps are done" from the row to the runs
  that read it, from a run to its call, and from the call to the accepted message;
  the row moves on only over a step that is done or needs no mail (`RowInOrder`).
* `SignalledNeverSendsAlways`: `Spec => []SignalledNeverSends`: the stop conditions
  are read by each run between its claim and its send, and what is known stays known.

* `MailedOncePerStepAlways`: as long as nothing disturbed a run, every accepted mail is recorded, lost, or in the
  hands of its caller (`Tracked`, in `OnceInv`).  Two strengthenings: what a lone
  caller read of its message is still so (`CallMatches`), which needs `OneWorker` for its lone
  caller; and a run past its send, like a call past its acceptance, has its step's mail (`SendingInv`).
* `CompletedIsDoneAlways`: `PathInv` follows the row and the runs along the active steps; a plan to complete
  is made at an active step only after the last one (`CompletedInOrder`).  With `OrderInv` every
  active e-mail step has its SUCCESS execution, with `OnceInv` its mail.

**Outbox** (`OutboxProofs`, under `OutboxAssumption`), for any number of workers, enrolments,
steps and mishaps and any cap.

* `TypeOKAlways`: `BaseInv` adds what a worker at each stage knows of its row (`WorkInv`), and that a call under way
  is the send of its worker's row (`CallsInv`).  `SuppressedNeverMailedAlways` is a conjunct of `WorkInv`: a row
  claimed after the suppression gets no further than the checks.
* `MailedOnceAlways`, `RowsTellMailAlways`: a row has one sender and is SENDING or SENT while it has it
  (`SenderInv`).  This rests on two facts that are easy to lose.  `queueStep` deletes a held row and builds it
  again, so a list of ids may be stale: the row that a worker is about to
  delete is either gone since, or still not queued (`DropInv`).  And no row but a SENT one
  is a dry run's (`DryInv`).  `MailInv` then says what a row in each status tells of its mail and what a sender knows of it;
  the three together are `SendingInv`.
* `StepsInOrderAlways`: "the earlier steps were spoken" passes from the enrolment to `queueStep`, to the row it builds
  and back to the enrolment (`OrderInv`); a dry row counts as spoken, as in the code.
* `NoneForgottenAlways`: unless something threw or died, an open enrolment has a row at its step or a worker
  that is about to build one, and a row that was deleted has the worker that deleted it (`ServedInv`).  The
  theorem assumes `1 \in ActiveSteps` and is false without: `enroll` takes
  the first step whether it is active or not, `queueStep` then finds no active step and
  returns, and the enrolment is ACTIVE with nothing queued.
* `CapOvershootBoundedAlways`: each worker stands for as many tickets as the cap has units; what it may still send of its batch are
  tickets it holds (`Slots`), and with the mails of today these are no more than all tickets (`CapInv`).

**AI reply** (`AiReplyProofs`, under `AiReplyAssumption`), for any number of workers, messages,
clicks and mishaps and any limits.  Most steps concern no delivery; one lemma per conjunct deals with all of
them (`Aside`: the worker held no row and holds none, no mail, no SENT and no SENDING of another is touched).

* `TypeCorrect`: `WorkInv` says what a worker at each statement knows, and that only the writes after the provider's
  answer write SENT.
* `LateNeverSendsAlways`: a delivery whose row was claimed after the kill switch, a newer message or a suppression
  stays ahead of the statement that stops it (`LateInv`): the kill switch is still on at the guard of
  a flush, the newer message and the suppression still there at the check.  A switch that is turned off
  again forbids nothing any more and is taken off what was noted (`late`).
* `SentWasMailedAlways`: who is to record a reply has mailed it (`MailedInv`).
* `TwiceNeedsCauseAlways`: for a message that was neither lost nor overtaken (`Once`), one worker at most holds the row,
  the row is SENDING as long, and a mail that is out is on the row as SENT or its holder is at the write of it.
  So a claim, which asks for a row that is QUEUED, finds one that nobody holds and nobody has mailed.
* `RepliesLimitedAlways`: as the bound of the outbox's cap, with one difference: two deliveries that count together are
  excused (`crowded`), so at most one worker stands between the read of the count and
  its update, and it found room (`CountInv`).

**Cron** (`CronTickProofs`, under `CronAssumption`).

* `CronInvariant`: `Spec => []CronInv`, and from it the three properties of the run:
  `FlockExcludes`, `LockExcludesProcesses`, `LockLeftByStray`.  `LockInv` is the strengthening: unless a
  session was dropped, all ticks at work belong to the process whose session holds
  the lock, and there are no more of them than the session took it; a release can
  then take away only what one of them stood for.

**Entitlements** (`SubscriptionProofs`, under `EntitlementsAssumption`), for any number of callers,
any plans and limits.

* `UsageBounded` and `SeatsBounded`: the two properties of the run.  The bound is not inductive: what
  was used says nothing of the callers that have passed `Count` and are about to add.
  The invariant (`Safe`) adds them: what the limit has to answer for (`Net`) and what is pending
  pass the limit of some plan held by no more than the other callers.  A caller that passes
  `Count` saw room for itself under a plan that was held (`Honest`), and at most the others are pending then.

**Billing** (`SubscriptionProofs`, under `BillingAssumption`), for any subscriptions, plans, handlers,
requests and numbers of events.

* `AppliedOnceAlways`: a handler at `Apply` has claimed an event that nobody applied (`Holds`), and no two
  handlers have the same one (`Apart`), since the claim is not given back.
* `AnsweredAlways`: an event that is claimed was applied, is about to be, or its handler failed (`Placed`); an answer, first or
  as a duplicate, is only given for a claimed event.

* `SettledAgreesAlways`: `MirrorInv` relates Stripe, its events and the row.  While nothing was disturbed: the last event
  reports what Stripe has (`Reported`), the one subscription alive is that event's (`OneAlive`), an
  event that does not carry all of the row repeats the rest from the event before it (`Chained`), and
  after the first k events the row is the image of the k-th, or an event that carries
  everything is still due (`RowAgrees`).  The "or" is what makes it inductive: a change of plan writes
  its plan before its own event was applied, and `Asked` says that this event is still to come.
  Settled, nothing is due, and the row is the image of the last event.

**Subscription** (`SubscriptionProofs`, under both assumptions and `Plans \subseteq Catalogue`: the
plans that are sold are among the plans there are).

* `ServiceImplements`: `ServiceSpec => Spec /\ []Shown /\ LimitsSpec`.  The composition is `Billing`
  and, for the limits, `Entitlements`: a step of `Billing` that moves the row is a `Change`, any other a stutter, and the
  row's plan is one of the catalogue because `Billing`'s type invariant says so.  Nothing that webhooks, changes
  of plan and their failures do to the subscription is missing from what `Entitlements` assumes.
* `ServiceUsageBounded`, `ServiceSeatsBounded`: so the two bounds hold with `Billing` as the environment.

**Lead pipeline** (`LeadPipelineProofs`, under `PipelineAssumption`), for any companies, addresses, pages, runs and batches.

* `DoneFound`: every token under way - the row's, a run's, the one a request has read - has only pages behind it
  whose companies are all there, and companies never disappear; so DONE, which
  comes after the last page, means that all were found.
* `CreditsBounded`: a batch is let begin a company while a unit is left and can spend three on it; the
  invariant adds to the units spent those that each batch may still spend, summed as the batches
  with three calls ahead, with two and with one (`UnitsSafe`).

* `BilledWithin`: for a company that one batch at a time had and no user touched (`Filed`), the searches are its attempts, the deaths
  and the one under way.  Inductive with it: at most one batch has the company, it is not finished
  meanwhile, and the attempts the batch read are those on the row.
* `EnrichedHasLeadAlways`: a company has its opportunity from `write` on (`Written`), and the contact of each opportunity, as well as the
  one that a batch has at hand, is the company's or has moved (`Owned`): a contact is only ever lost by
  `UpsertContact` of another company, which records it in `moved`.
* `LeadsBoundedAlways`: a batch that creates an opportunity has found none, so a company's opportunities and the
  batches about to create one are together not more than the batches there are (`Counted`); for a company that one batch at a
  time had, the batch at `create` still sees none (`Filed`), which leaves one.
* `RebilledHasCause`: an action property, from the same invariant (`FilesInv`): whoever searches has the company, and
  then it is not finished.

**Pitch review** (`PitchReviewProofs`, under `PitchAssumption`), for any workers, users and bounds.

* `ApprovedAlwaysStays`: a pitch that an audit holds in `ids` to clear is not approved, unless it was decided on during an
  audit (`late`); one that it holds to supersede was forced (`Found`).
* `DoneAlwaysHasPitch`: when no process has died and the company is DONE, a current pitch is there or
  some audit is still about to write one or to fail (`Ahead`).
* `OneCurrentAlways` and `AttemptsBounded`: while nothing was `mixed` at most one audit is at work (`Single`), it knows the
  company's status and holds every pitch that is not superseded (`Knows`), there is one of those (`Current`), and the
  attempts written count the audits begun (`Within`); together `Alone`.  `TypeCorrect` needs that a failure takes a
  row from the day's count only where it is counted (`Counted`).

## 6. What is only model-checked, and what is not modelled

* Liveness (`ClaimsEnd`, `SignalsStop`) rests on fairness and ENABLED, which the
  prover does not handle; it stays with TLC.
* Every invariant and action property of a passing run is a theorem.  What the violation run refutes
  is of course none.
* What a recursive function computes for every input would need induction over data; no property
  rests on it.
* Not modelled: the content of mails, pitches and prompts (data); mail
  providers beyond accept, refuse and "accepted but reported an error"; the
  selection and order inside a batch; several organisations (every row and every
  lock is scoped to one); several conversations of one contact (replies in them
  share only the suppression list); features without a limit and the owner's plan (nothing is
  refused); the dates of a billing period; the blocklist, Hunter's own credit check, the order in a batch and the
  change of day in the lead pipeline; what staff do to contacts and opportunities by hand (create, edit, close), so
  that `EnrichedHasLead` and `LeadsBounded` speak of what the enrichment makes of them; the editing and deletion of queries; the text, preview and
  dates of a pitch and the closing of opportunities; the timeline, a log whose look-up may throw like
  any statement, as an event of its own (what it throws after a pitch was created or a company enriched is modelled).  Components without a module are listed in
  `PROJECT.json` with the reason.
