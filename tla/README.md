# Recover.ai: the recovery loop in TLA+

Recover.ai listens to Razorpay webhooks about failed subscription payments and tries to
recover each one: it *diagnoses* the failure, lets a *policy* propose an action, lets a
*guardrail* veto it, and *acts*: it schedules a retry, sends a payment link, or escalates.
Retries are executed later by polling workers. All processes share one Postgres database
and one external service, Razorpay; a dashboard API reads the same tables, and a single-page
frontend shows them. This directory models these parts, checks them with TLC and proves the
main invariants with TLAPS. Paths below are relative to `src/backend/` unless they start
with `src/`.

## 1. Inventory

| Component | Source | State | Operations | Model |
|---|---|---|---|---|
| Webhook ingestion | `app/api/webhooks.py`, `app/services/ingestion.py`, `app/schemas/razorpay_webhook.py` | `payment_events`, `audit_log` | refuse, insert an event once, audit every delivery, answer | `WebhookIngestion`; in the composition `Ingest` of `RecoverySystem` |
| Diagnosis | `app/agent/diagnosis.py` | none | ordered keyword table, event override, optional classifier | `Diagnosis` |
| Policy | `app/agent/policy.py` | none | action and back-off for a category and a retry count | `Policy` |
| Guardrail | `app/agent/guardrail.py` | none | freeze, retry bound, cooldown | `Guardrail` |
| Executor | `app/agent/executor.py` | local variables of a session, `subscriptions`, `recovery_actions`, `recovery_outcomes`, `audit_log` | `run_recovery`, `apply_decision`, `execute_payment_link` | `Executor` |
| Retry scheduler | `app/worker/retry_scheduler.py` | the same tables, a claimed batch | `claim_due_retries`, `execute_retry`, `poll_forever` | `RetryScheduler` |
| Worker process | `app/worker/run.py` | none | start `poll_forever`, with or without a client | a process of `RecoverySystem` (partly) |
| Database | `app/db/`, `migrations/` | the tables | READ COMMITTED transactions, row locks, unique key | variables of `Executor` and `WebhookIngestion` (partly) |
| Razorpay client | `app/integrations/razorpay.py` | links and subscription states at Razorpay | the two calls that matter to the loop | `links`, `live`, actions of the callers (partly) |
| Dashboard API | `app/api/dashboard.py`, `app/schemas/dashboard.py` | one request's local variables | aggregates, lists with totals, audit trails | `DashboardReads` |
| Synthetic batch | `scripts/run_synthetic_batch.py`, `app/synthetic.py` | one batch's local variables, the same tables | generate, run, claim ahead, execute, report | `SyntheticBatch` |
| Frontend | `src/frontend/src/App.tsx` | React state, an interval, requests in flight | sign in and out, load, filter, open a case | `WorkspaceView` (partly) |
| Set-up script, app shell, settings | `scripts/create_test_subscription.py`, `app/main.py`, `app/config.py` | none | calls to Razorpay, routing, settings | not modelled |

**How they interact.** Razorpay delivers an event until it is told 200; ingestion commits a
`pending` row the first time. A session of `run_recovery` takes it, refreshes the
`subscriptions` row (our *mirror* of Razorpay's status), counts the subscription's retries,
decides, and commits; the payment-link path commits once more in the middle, before it calls
Razorpay. A retry is a `scheduled` row. A worker claims due rows with `SELECT ... FOR UPDATE
SKIP LOCKED`, flips them to `executing` and commits; then, row by row, it commits an audit
entry, asks Razorpay for the subscription, and either records a recovery or settles the
attempt and calls the same `apply_decision` again. The synthetic batch calls the executor and
the worker's two functions itself, with a client of its own. The dashboard reads the tables,
several statements to a request; the page keeps several requests in flight.

**What is hard.** (1) Decisions are taken on a history that is read without a lock, at READ
COMMITTED. (2) Rows are claimed by competing workers. (3) Every episode has several commits
and a call between them: a process can die, or throw, anywhere. (4) A call may time out after
it had its effect. (5) ORM instances outlive commits (`expire_on_commit=False`), so a write
compares with old values. (6) The spacing of retries is enforced partly by the guardrail,
partly by the back-off table. (7) Rows must not end in a state that nobody looks at. (8) The
same event is delivered, and may be handed over, more than once at a time. (9) The figures of
one answer are read at different moments. (10) Batches share a database with what earlier
batches left. (11) The answers of the page's requests come in any order.

**What makes each part correct.** *Ingestion*: one row and one receipt per event, answers that
agree, every event acknowledged. *Executor*: audit before call, one link and one outcome per
failure, retries bounded. *Scheduler*: every retry called at most once, every due retry
settled, follow-ups spaced. *Guardrail*: nothing automatic on a frozen subscription. *Tables*:
settled history is final. *Dashboard*: figures that can be true together, trails that explain.
*Batch*: a report that says what the tables say. *Page*: one interval, a list that ends up as
asked for. `PROJECT.json` lists the hazards one by one, with their lines.

## 2. The modules

```
RecoveryTypes --- Diagnosis, Policy, Guardrail          pure parts
                     |         \--- SyntheticBatch --- MCSynthetic
                  Executor --- RetryScheduler --- RecoverySystem
                                                       |--- DashboardReads --- MCDashboard
                                                       |--- RecoveryClaims ---\
   EpisodeLifecycle, EventInbox (abstract) ... EpisodeRefinement --------------+-- MCRecovery
                  EventInbox ... WebhookIngestion --- MCWebhook
                                 WorkspaceView --- MCWorkspace

   RecoverySystem --- RecoveryProofs --- HistoryProofs (with EpisodeRefinement)
                                              |--- EpisodeProofs
                                              |--- BoundProofs
                                              \--- DashboardProofs (with DashboardReads)
   WebhookIngestion --- IngestionProofs      SyntheticBatch --- SyntheticProofs
   WorkspaceView --- WorkspaceProofs
```

* `RecoveryTypes`: the enumerations and the shared constants (`MaxRetries`, `Cooldown`, the
  back-off tables) with their assumptions.
* `Diagnosis`, `Policy`, `Guardrail`: the pure functions `diagnose`, `decide`, `evaluate`. A
  failure signal is abstracted to the set of categories that have a keyword in the decline
  text; the classifier's answer is any category.
* `Executor`: tables, the local variables of every session (`job`), and one action per step
  of `run_recovery`, `apply_decision` and `execute_payment_link`.
* `RetryScheduler`: claim and execution of retries; it reuses the executor's `LadderStep`
  for `apply_decision`, as the code does.
* `RecoverySystem`: webhooks, time, changes at Razorpay, lost sessions; `Spec`, `FairSpec`
  and the properties of the loop.
* `RecoveryClaims`: statements of comments and docstrings that the code does not keep.
* `EventInbox`: abstract; an event is stored once, marked as handled at most once, never
  reopened and never marked again.
* `EpisodeLifecycle`: abstract; the episode of one failure is opened once, waits for one
  retry at a time, has at most `MaxRetries` of them, ends once, with one verdict or none.
* `EpisodeRefinement`: the mappings from the tables of `RecoverySystem` to both.
* `WebhookIngestion`: deliveries, handlers, the transaction of `ingest_webhook_event`, the
  answer, and Razorpay's redelivery.
* `DashboardReads`: the endpoints of the dashboard, statement by statement, beside the loop.
* `SyntheticBatch`: batches one after the other over one database.
* `WorkspaceView`: the state of the page, between its awaits.
* `MC...`: values of the constants for TLC.
* `...Proofs`: theorems. `RecoveryProofs` has types, the retry bound and the claims;
  `HistoryProofs` ownership, what is final, audit, outcomes and the inbox; `EpisodeProofs`
  spacing and the refinement of the episode; `BoundProofs` links and outcomes without
  exclusive hand-over, and what sessions leave behind; the other four are each about one part.

**Composition.** `RecoverySystem` composes executor sessions, workers, Razorpay and time;
`DashboardReads` adds readers to it. Ingestion is composed through its interface:
`WebhookIngestion`, whose recovery loop is the one action `Handle`, and `RecoverySystem`,
whose ingestion is the one action `Ingest`, both implement `EventInbox` with the same view of
`payment_events` (`InboxImplemented` in each). So each side relies only on what the other one
is shown to do, and redeliveries need not be repeated in the larger model.

### State of the loop

| Variable | Code |
|---|---|
| `events[e]` | `payment_events` row: `processing_status`, `processed_at` and what the webhook said |
| `subs[s]` | `subscriptions.status` ("absent": no row yet) |
| `actions[id]` | `recovery_actions` row; `aud` is the set of `audit_log` actions about it; `response` is "answer" when `razorpay_response` was stored; `cat` and `ev` are those of its `diagnoses` row |
| `outcomes` | `recovery_outcomes`, append-only |
| `links` | payment links that exist at Razorpay, named by the action in their notes |
| `job[a]` | the local variables of session `a`: where it is (`pc`), what it works on, what it read (`n`, `last`, `status`), its pending write to the mirror (`dirty`), its `now`, its claimed batch (`queue`) |
| `wired` | is a client configured? |
| `clock` | `datetime.now` in ticks |
| `live[s]` | the status Razorpay would answer |
| `fetches[id]` | history variable: calls made for a retry row |
| `faults` | number of sessions lost so far |

### State of the other parts

| Module | Variable | Code |
|---|---|---|
| `WebhookIngestion` | `rows`, `trail` | `payment_events`, and how many `audit_log` entries of each kind name a row |
| | `job[h]` | a request being served: what it was sent, the row id and `duplicate` flag of its transaction |
| | `sent`, `told`, `acked` | Razorpay's side: deliveries made, contents and number of the 200s received |
| | `secret`, `losses` | is `RAZORPAY_WEBHOOK_SECRET` set; handlers and answers lost so far |
| `DashboardReads` | `view` | the local variables of one request: `category` is the parameter the loop overwrites |
| `SyntheticBatch` | `cases`, `table`, `resolved` | the generated cases, `recovery_actions`, `recovery_outcomes` |
| | `batch`, `report` | the local variables of `run_batch`; what it printed of each case |
| `WorkspaceView` | `loggedIn`, `filters`, `exceptions`, `selected`, `audit`, ... | the `useState`s of the same names |
| | `timers`, `loads`, `requested` | intervals that are set, calls of `load` and `openAudit` that await an answer |

### Steps

A step ends where another transaction can be seen: at a read of shared rows, at a flush that
takes a row lock, at a commit, and around a call. What is flushed and not committed is in
`job`, so `Abort` is a rollback. The path of an executor session is

`idle --HandOver--> handed --StartRun--> history --ReadHistory--> decide --Skip |
ScheduleRetry | Conclude | LinkWithoutAmount--> idle` (`handed --SkipRun--> idle` for an event
without a subscription), or `decide --RequestLink--> link --LinkCreated | LinkError-->
linked | linkerror --RecordLink | RecordLinkError--> idle` (`DeferLink` without a client).

`HandOver` loads a pending event and checks the loaded object's status; what other sessions
do to the row from then on is not seen: two sessions that were handed one event both run it
to the end, one perhaps after waiting for the other's row lock, and each marks the row
(`MarkHandled`, `SkipRun`: `processing_status` and `processed_at`). The path of a worker is

`idle --ClaimSelect--> claim --ClaimCommit--> next --StartRetry--> fetch --Fetch--> fetched
--Recover--> next | idle`, or `fetched --Relapse--> history --> ...` down the same ladder
(`DeferRetry` without a client, `FetchError` on an HTTP error);

and that of a webhook handler

`idle --Deliver--> verify --Refuse--> idle`, or `verify --Accept--> insert --Insert-->
inserted --CommitInsert--> answer --Answer--> idle`, or `insert --Conflict--> conflict
--CommitDuplicate--> answer`. `Insert` and `Conflict` wait while another transaction holds
the same key (`Blocked`), as `INSERT ... ON CONFLICT DO NOTHING` does; `Lose` ends any of it.

A dashboard request is `Ask...` and then one `Read...` or `Count...` per statement; what a
counting or summing statement returns is kept as the set of the rows it went over. In
`SyntheticBatch` a step ends at a commit that changes the module's tables, because a batch runs
in one session with nobody beside it: `RunCase` is a case up to its commit, for a link up to
the commit of the request, with `RecordLink` for the second one; a retry is one step, for the
commit before its call adds an audit entry only. In `WorkspaceView` a handler runs to its first
`await` in one step, and each answer is a step of its own, in any order.

### Abstractions

* Diagnoses are not rows of their own: nothing reads one except through its action.
* `auth_attempts` is left out. Writing it would take the row lock of the subscription more
  often and so only serialise more.
* The two queries of `_retry_history` are one step: both read `recovery_actions`, the second
  only a maximum that a concurrent commit can raise; the model keeps the race with the
  decision, which is where it matters.
* `payment_events.subscription_id`, filled in by a run when it is empty (`executor.py:426-427`),
  is left out: nothing in the loop reads it. Writing it takes the lock of the event's row until
  the commit, which would make sessions on one event wait for each other at the flush and take
  behaviours away; the model lets them go on.
* `_resolve_subscription`'s SELECT and the flush that may wait for the subscription's row lock
  (`executor.py:124-143`, `442`) are one step, taken when the lock is free. The
  status a run goes on with is the event's own, if it has one, whatever the row says after
  the wait; if it has none there is nothing to flush. Only when the other session has just
  written the very same status does the code hold a lock that the model does not.
* The order of the overview's two lists (`dashboard.py:80-93`) is left open: any rows of the
  right number, for neither `updated_at` nor `created_at` is modelled.
* Two sessions that create the same subscription row: the second waits and then runs on the
  committed row, where the code fails with an integrity error and its caller starts again.
* A worker loads the subscription again for every retry of a batch: the identity map holds
  instances weakly, and `execute_retry` keeps none after it returns.
* `ExclusiveHandOver` (of `HandOver`) says whether a caller hands an event to one session at a
  time. The only caller in the repository does; `run_recovery` itself does not see to it. Both
  values are checked, and each theorem says which one it needs.
* A client is wired only while every session is idle: it is read at process start.
* Row keys are uuids; the model numbers rows in the order they are inserted (`Fresh`).
* A webhook's text, amounts and link contents are not represented. A delivery is its event
  id, whether it is signed and whether its body is a valid envelope.
* `SetSecret` restarts the API and drops requests that have not been verified: settings are
  read at process start.
* Dashboard requests write nothing, so following one of them beside the loop shows all that
  can be seen. Amounts, identifiers and columns that are only shown are left out.
* The synthetic batch's events and diagnoses are left out (the text of a case always gives
  its category); whether a retry would recover is drawn for every case with a non-zero rate.
* The page's two filter controls are one value; a list is known by the filters it was asked
  with, a trail by its case. A filter with a category the API does not know is `Refused`.

## 3. Runs

`MaxRetries = 2` (code: 3) and `Cooldown = 2` ticks; the back-off tables `<<2, 3>>` and
`<<1, 2>>` keep the one order that matters, that of the code's tables: only the first gateway
delay (30 minutes) is below the cooldown (1 hour), all others are not. Two entries and two
retries reach the first entry, the last entry and exhaustion. One subscription is enough for
the properties of the loop: they all speak of one subscription or one event, and
subscriptions share nothing but the workers. Workers, runners and events are symmetric.

| Run | Instance | Result |
|---|---|---|
| `core` | 1 event of any of 7 kinds, handed to 2 runners at once, 1 worker, 4 rows, horizon 3, 1 fault, classifier wired, client wired late or never | `TypeOK`, `AuditPrecedesCall`, `LinkBound`, `OutcomeBound`, `HandledAccounted`, `HistoryIsFinal` hold |
| `ladder` | 2 retryable events handed to one session at a time, 1 runner, 2 workers, 6 rows, horizon 4, 1 fault | `NeverTwice`, `OneOutcomePerEvent`, `LadderSpacing`, `StrandedBound`, `EpisodesImplemented`, `InboxImplemented` hold |
| `sessions` | 3 events, 2 runners, 1 worker, 6 rows, horizon 2 | `RetryBound` holds; `MaxRetries + sessions - 1` rows are reached |
| `progress` | 2 events, 1 runner, 2 workers, batches of 1, no faults, `FairSpec` | `DueRetriesSettle`, `RunsFinish` hold |
| `ingest` | 2 events, good, unsigned, malformed and keyless deliveries, 2 handlers, 3 verified deliveries of an event, 1 loss, 3 row keys, `FairSpec` | `TypeOK`, `StoredOnce`, `AnswersAgree`, `EveryAnswerAudited`, `InboxImplemented`, `EventsAcknowledged` hold |
| `dashboard` | 2 events on 2 subscriptions, 1 runner, 1 worker, horizon 1, one request of any kind, pages of 1 | `ViewTypeOK`, `TotalCoversPage`, `FunnelCountsOnce`, `TrailExplainsOutcome` hold |
| `synthetic` | 6 cases in batches of 1 and 5 (every category), up to 4 ticks apart, 4 ticks ahead (the code's 8 days), 1 interruption | `BatchTypeOK`, `ReportCountsRecoveries`, `StopsOverLeftovers`, `ResolvedOnce` hold |
| `workspace` | 3 filters, one of them refused, 2 cases, 2 loads with each filter and 1 audit request of each case in flight, 1 failure, `FairViewSpec` | `StateTypeOK`, `OneTimer`, `ListCatchesUp` hold |
| `bound_strict` | 2 events, 1 runner, 1 worker | `RetryBoundStrict` fails: both sessions count before either commits |
| `revoked` | 2 events, 1 runner, no worker | `RevokedStaysFrozen` fails: only the current diagnosis freezes |
| `fetch_error` | 1 event, `FairSpec` | `FetchErrorIsPolledAgain` fails: a failed row is never selected |
| `exceptions_total` | 2 escalations of one subscription, pages of 2 | `ExceptionsTotal` fails: the total is of the last row's category |

**What the properties say of each other.** `HistoryIsFinal` is what holds of settled rows
however an event is handed over: a handled event keeps its verdict, but a second session that
was handed it too marks the row again, with a later `processed_at`. That no row is ever marked
again is `InboxImplemented`, and holds under exclusive hand-over (`ladder`); without it the
divergence `reprocessed` of section 5 shows the second run. `RetryBound` is what the code
guarantees in the place of `RetryBoundStrict`. `LinkBound` and `OutcomeBound` are what remains
of "one link, one outcome" when an event is handed to several sessions at once: one for each of
them, and a link more for every session lost between its two commits. In `core` two outcomes of
one event are reached by two sessions that were handed it at once, with or without a fault.
`OneOutcomePerEvent` and `EpisodesImplemented` are what holds when it is handed to one:
`EpisodesImplemented` maps an event to the phase *new*, *waiting* (it has a scheduled retry),
*trying* (an executing one) or *over*, the number of its retries, and its recorded outcomes,
and shows that each step of any session is a step of that one lifecycle, or none.
`StrandedBound` and `HandledAccounted` say what can be lost: no query of the loop selects an
executing row, so one that its session forgets stays so for ever, and only a lost session
forgets any, at most its batch; and an event that nobody will run again has a row that is yet
to run (or stranded, or handed back), or that shows how the episode came out. The rows answered
"not recovered" show nothing, which is why the code must commit them together with their
follow-up. `TotalCoversPage` is stated where the code gives a total (not where `category` was
overwritten); `StopsOverLeftovers` says that the overrun described below is the only way a
batch stops.

**Why the bounds are enough.** At horizon 3 `core` reaches the whole ladder of a gateway
failure (a retry due at 1, its follow-up at 3, exhaustion), the first retry of a funds failure
and the scheduling of its follow-up, and every other decision; horizon 4 in `ladder` lets the
ladders of two failures interleave. The rows suffice for every ladder of the instance; where a
session would need one more it waits, which removes behaviours but adds none. One fault already
separates every pair of commits. Two workers are all that a claim can race between, two runners
and a worker the smallest mix in which two executors and the scheduler decide at once. Three
deliveries of an event are a first one, one that waits for it, and one after both; a loss makes
any of them a first one again. Batches of 1 in `progress` make the claim's limit and its order
bind: two retries are due at once, and one of them is left for later. Dashboard requests make
at most eight statements, and horizon 1 lets retries be scheduled, run and recovered between
any two. A batch of 5 has a case of every category; with the batches of 1 before and after it,
batches meet each other's rows before and after these are due. Two loads in flight with each
filter let an interval's load overtake the one a change of filters started, in either order of
the filters.

**Deadlock.** `CHECK_DEADLOCK FALSE` in every run but `workspace`: the loop stops when every
event is handled and the clock is at the horizon, Razorpay when every event is acknowledged,
the batches when the cases run out. A page always offers something to click.

**Fairness.** *Loop* (`FairSpec`, `progress` and the temporal claims): weak fairness of each
worker, for `poll_forever` never stops and its awaits return, since HTTP calls have a
time-out. Weak fairness of the steps of a run that has begun, for its caller awaits it to the
end; none of `HandOver`, for no deployed process calls `run_recovery`. So `RunsFinish` is about
runs, and nothing here says that a pending event is ever handed to one: in a deployment
of this repository it is not (`services/ingestion.py:9-12` leaves it to a consumer that only the
synthetic batch is). Weak fairness of `Tick` and of wiring a
client, so that the claims are not refuted by a clock that stops or keys that never come.
Nothing is assumed of webhooks, of Razorpay's statuses and of faults. *Ingestion*: weak
fairness of each handler, which is a task of the server's event loop; strong fairness of
`Redeliver` for an event that has not been acknowledged, because Razorpay repeats it and the
API serves more requests at once than the model's two handlers, so that other deliveries do
not starve it; weak fairness of configuring the secret. *Page*: weak fairness of intervals
and of answers, which the browser gives; none of anything the user does.

## 4. Proofs

TLAPS checks, for all values of the constants that satisfy the named assumptions (any sets of
events, subscriptions, sessions and statuses, any back-off tables, any number of faults):

* `TypeCorrect`: `Spec => []TypeOK`. `TypeOK` is inductive with one addition, `RowsExist`:
  the row a session works on is never absent. There is one lemma per group of actions
  (`LadderType`, `RunnerType`, `WorkerType`, `EnvironmentType`), over lemmas about what the
  shared helpers `Set`, `Finish`, `Settle`, `Insert` write.
* `RetryBoundHolds`: `Spec => []RetryBound`. `RetryBound` alone is not inductive: a session
  may have counted long ago. `BoundInv` counts beside the rows the sessions in flight that
  have seen fewer than `MaxRetries` of them (`InFlight`), and says that the sum is less than
  `MaxRetries` plus the number of sessions. A session that reads the history joins only when
  the rows are still fewer than `MaxRetries`; one that decides exchanges its place for a row;
  everything else only shrinks both.
* `CalledAtMostOnce`: `Spec => []NeverTwice`. A row is *open* while it is absent or scheduled,
  and no step opens a closed row (`StaysClosed`). `ClaimInv` says: a row that has been called
  is closed; a row that a worker has claimed or is about to call (`Pending`) has not been
  called, and is closed once the claim is committed; no row is pending for two workers, or
  twice for one. `ClaimSelect` keeps it because the due rows that no one locks are open and
  therefore not pending anywhere; the call, because it takes its row out of what is pending.
* `HistoryFinal`: `Spec => HistoryIsFinal`. The invariant behind it is `Ownership`: the rows a
  session has queued or at hand belong to it alone, are `scheduled` while it is claiming them
  and `executing` afterwards. A step writes only rows its session owns and rows that were
  absent, and neither are settled. A runner marks its event whatever its row says by then, but
  whether as `failed` or as `processed` depends on the event's body alone, which never changes
  (`Handling`): a second run leaves it the way the first one did.
* `AuditFirst`: `Spec => []AuditPrecedesCall`, from `Announced`: a session about to call has
  its entries committed. Since history is final, they are still there after the call.
* `OneOutcome`: `ASSUME ExclusiveHandOver PROVE Spec => []OneOutcomePerEvent`. `EpisodeInv`
  adds to ownership and handling: an event has at most one live retry (scheduled or
  executing); one that has one is handled and has no outcome, as has a pending one; runners in
  flight have distinct, pending events (`Exclusive`); a worker past its claim holds the live
  retry of its event (`WorkersRetry`). Whoever adds an outcome thus either has the one pending
  event or the one live retry of it, and consumes it in the same commit. The assumption is
  needed: with `ExclusiveHandOver = FALSE` the run `core` has events with two outcomes.
* `InboxConsumed`: `ASSUME ExclusiveHandOver PROVE Spec => InboxImplemented`, the refinement of
  `EventInbox` by the recovery side, `processed_at` included. A runner's event is pending until
  its own last commit, so each event is marked once. The assumption is needed, as the
  divergence `reprocessed` shows.
* `EventStoredOnce`, `AnswersOfOneRow`, `InboxRefined`: `StoredOnce`, `AnswersAgree` and the
  refinement of `EventInbox` by ingestion, for any number of handlers, deliveries and losses.
  Their invariant, `IngestInv` (`IngestInvariant`), says what an open transaction knows: a
  handler past `Insert` holds a key that no row and no other handler has, for an event without
  a row, and is the only one past `Insert` for that event; one past a conflict, or about to
  answer, holds the key of its event's row. `Blocked` is what keeps it when two deliveries
  insert at once.

* `AnswersAudited`: `Spec => []EveryAnswerAudited`. `Accounted` counts beside the 200s that
  have arrived those on their way (`Answering`): an audit entry is committed with the step
  that puts an answer on its way, and no later step adds one.
* `LadderSpaced`: `ASSUME ExclusiveHandOver PROVE Spec => []LadderSpacing`. `LadderInv` says:
  an event's live retry is the last of its retries; the clock of a worker is not before the
  due time of what it claimed; who decides has counted all retries of its event, and no
  attempt number exceeds the count; a runner's event has no retries yet. Since the back-off
  delays from the second retry on are at least the cooldown (`BackoffAssumption` in
  `RecoveryTypes`, true of the code's tables), the follow-up's due time is at least the cooldown
  after the attempt it follows, although the worker passes no last attempt to the guardrail.
* `EpisodeRefined`: `ASSUME ExclusiveHandOver PROVE Spec => EpisodesImplemented`, on top of
  `LadderInv`. Every step is of one of three kinds: *claiming* (a batch of scheduled rows
  starts to execute: `Try` of each event's episode), *working* of one session for its one
  event (`Wait`, `End`, or nothing visible), or *handing* an event over (`Open`, `End`).
* `LinksBounded`, `OutcomesBounded`: `Spec => []LinkBound` and `Spec => []OutcomeBound`, with
  or without exclusive hand-over. `StrandInv` follows the *strands* of an event: the runners
  that have it and have not decided (`Undecided`), and the last rows of the ladders they have
  opened (`Ladders`). A decision of a runner exchanges the runner for a row; one of a worker
  exchanges its failed retry for the next row; a lost session leaves its row behind, while
  the event may still be pending for another, which is what `faults` pays for. For outcomes a
  second count suffices, of charges and runners in flight: a link's row has no outcome, and
  any other row of a runner is committed together with the event's hand-back, so that
  a fault never doubles it.
* `StrandingBounded`, `HandledStaysAccounted`: `Spec => []StrandedBound` and
  `Spec => []HandledAccounted`, from `RestInv`, which adds to `StrandInv` the rows a session is
  answerable for (`Loads`: its batch and the row at hand, at most `Limit`; an idle session has
  none) and what it knows at Razorpay (`LinksKnown`). An executing row that nobody owns
  (`Orphans`) was owned by a session that is lost: a step of a live one settles what it gives
  up, so the orphans grow by at most `Limit`, and only with `faults`. For the other theorem,
  every step leaves each event a row that accounts for it if it had one (`StillAccounted`):
  the only rows that stop doing so are a worker's failed attempts, and the same commit inserts
  the next row of the ladder; and it marks an event processed only beside such a row.

*Ingestion's types.* `IngestionTyped`: `Spec => []TypeOK`.

*The dashboard*, `DashboardProofs`:

* `LoopBesideReaders`: `DashSpec => Spec`. The requests write nothing, so every theorem about
  the loop holds beside them, and the invariants below may rest on those of the loop.
* `PageCovered`: `DashSpec => []TotalCoversPage`; `TrailExplains`: `DashSpec =>
  []TrailExplainsOutcome`; `ViewTyped`. The statements of a request see different states of the
  loop, so that the properties are not inductive: what an earlier statement read is compared
  with what a later one counts. `LoopInv` adds to ownership and handling what the loop never
  takes back: a flushed refresh brings a status (`MirrorKnown`: a subscription's row, once
  there, stays), a row that is not a denial has passed the guardrail (`RowsAllowed`), and an
  outcome is of an executed row whose entries say why (`OutcomesExplained`: executed rows are
  final, so it is explained for ever). `ViewInv` says that a page that has been read is a part,
  after what was skipped, of what can be counted now (`Covered`), that a trail that has been
  read has its verdict's entries, that the outcomes an earlier statement counted are outcomes
  of that kind now (`Counted`), and that a sum that has been taken after the count of the
  recovered covers it (`Summed`, from the order of `Plan`).
* `FunnelSound`: `ASSUME ExclusiveHandOver PROVE DashSpec => []FunnelCountsOnce`. By `Counted`
  what was counted in a stage is still there with that kind; outcomes of one event are one
  (`EpisodeInv` of `OneOutcome`), and an outcome has one kind, so two counted outcomes of
  one event are the same, in the same stage. The rows of the later sum contain those of
  the earlier count, by `Summed`. Without exclusive hand-over an event has two outcomes and is
  counted twice.

*The batch*, `SyntheticProofs`, from one invariant, `BatchInv` (`BatchInOrder`):

* A case has one open row at a time, none beside an outcome, and one outcome (`OneLife`), for
  a row follows only the one that is settled with it. Hence `CasesResolvedOnce`. A case that is
  not made, or not run, has left nothing behind (`BlankCases`), so a first retry is due within
  the days ahead (`BatchAssumption`: the first delays are at most `Ahead`; in the code they
  are 6 hours and 30 minutes, against 8 days).
* Up to the claim, the open retries of the batch's cases are those it has scheduled, all of
  them due within the days ahead (`Planning`); a link between its two commits is an open row
  too, but no retry (`Kinds`). The claim takes one row more than that. If it takes
  no row of another batch, what it takes is a part of what it scheduled, hence not the whole
  of its limit, hence all that is due: nothing is left out (`Complete`). So the script's last
  loop finds an execution for every retry it scheduled, and the only stop is over a row of
  another batch: `OnlyLeftoversStop`.
* The recoveries of the batch are the successes among its executions (`Recoveries`), since a
  queued row of its own is one it has scheduled, queued once (`Claimed`): `ReportSound`.
* `BatchTyped`: `BatchSpec => []BatchTypeOK`. Row types rest on the guardrail letting every
  proposal of a batch through (`RowType`): no case is frozen but the revoked ones, which are
  escalated, and no last attempt is passed.

*The page*, `WorkspaceProofs`: `PageHasItsCase` (`ViewSpec => []StateTypeOK`) and
`IntervalReplaced` (`ViewSpec => []OneTimer`), which are inductive together: an effect that
runs again clears the interval it has set before.

The assumptions are the `ASSUME`s of the modules the theorems are about; TLC evaluates them in
every run. They say of the sets of events and of subscriptions that they are finite where
they are counted (`DashboardAssumption`), of cases the same, of the back-off tables
that later delays are at least the cooldown and first ones within the batch's horizon, and of
the bounds that they are numbers. Theorems that need it assume exclusive hand-over and say so.

Left to TLC: liveness (`DueRetriesSettle`, `RunsFinish`, `EventsAcknowledged`,
`ListCatchesUp`), because fairness and `ENABLED` are out of the prover's reach, and the
violations of section 5, which are counterexamples. Every safety property that a passing run
checks is also a theorem.

## 5. Known divergences

Statements of the repository's comments, docstrings, tests and screens that the code does not
keep. Each is a formula with the quoted place above it, and a configuration under which TLC
shows a behaviour against it. Four are among the runs of section 3 and in `PROJECT.json`
("findings"): `RetryBoundStrict`, `RevokedStaysFrozen`, `FetchErrorIsPolledAgain`,
`ExceptionsTotal`. The others are checked by hand, for instance with
`tlc -config cooldown.cfg MCRecovery`:

| Configuration, module | Formula | What is said, and what the code does |
|---|---|---|
| `cooldown`, `MCRecovery` | `CooldownSpacing` | "a minimum spacing between retry attempts" (`guardrail.py:18`): judged when a retry is proposed, not when it runs; retries of two failures scheduled before either has run are executed together |
| `mirror`, `MCRecovery` | `MirrorKeptFresh` | "keep our mirror of Razorpay state fresh" (`retry_scheduler.py:211`): an answer equal to the value loaded before the call is not written over a newer one |
| `claimed`, `MCRecovery` | `ClaimedIsTriedAgain` | "the next tick tries again" (`retry_scheduler.py:343-344`): a row already flipped to `executing` is never selected again |
| `deferred`, `MCRecovery` | `DeferredIsTakenUp` | "hand the retry back for later" (`retry_scheduler.py:165`): it is committed as `planned`, which is never selected |
| `reprocessed`, `MCRecovery` | `NeverReprocessed` | "never re-process an event the loop has already handled" (`executor.py:373`): the status checked is that of the object handed over, neither locked nor read again: a second session acts on a handled event and marks it once more |
| `rate`, `MCDashboard` | `RateWithinOne` | `0.0 <= recovery_rate <= 1.0` (`tests/test_dashboard.py:65`): the denominator counts `payment.failed` events only, the numerator recoveries of any event |
| `trail`, `MCDashboard` | `TrailOfOneException` | "the ordered audit trail for one recovery exception" (`dashboard.py:314`): selected by subscription, with the entries of its other failures |
| `unresolved`, `MCDashboard` | `UnresolvedListed` | "List unresolved cases" (`dashboard.py:239`): a failure whose retry ended in a fetch error has no outcome, and nothing writes `still_at_risk` |
| `leftovers`, `MCSynthetic` | `DueRetriesExecuted` | "due retries are then executed through the Phase-4 worker" (`run_synthetic_batch.py:7-8`): an earlier batch's retry, due by then, ends in `StopIteration`, and own claimed rows stay `executing` |
| `pending_link`, `MCSynthetic` | `PendingLinksExist` | "payment link pending" (`run_synthetic_batch.py:104`): printed of escalated cases as well |
| `filter_refused`, `MCWorkspace` | `EveryFilterApplies` | "match the current filters" (`src/frontend/src/App.tsx:171`): the filter offers two category names that the API refuses, and the old list stays |
| `selected_case`, `MCWorkspace` | `AuditOfSelected` | "Selected case" over the trail (`src/frontend/src/App.tsx:265`): the answer of an earlier request is stored under the case selected since |

## 6. Not modelled

* `scripts/create_test_subscription.py`: a one-off sequence of calls that keeps nothing.
* `app/main.py`, `app/config.py`, `migrations/env.py`: routing, settings, health check.
* `app/integrations/razorpay.py` beyond what its callers see (answered, or an HTTP error
  before or after the effect): transport, computing the signature, set-up calls.
* `app/worker/run.py`: start-up, signals, closing the client. `poll_forever` is modelled.
* Engine set-up, `merchants`, indexes, and the order of migrations.
* The dashboard's login stub, amounts and shown columns; the page's search, toasts, export
  and layout.
* `STILL_AT_RISK`, `CANCELLED` and `MARK_DEAD` are declared by the code and never produced by
  it; `Conclude` keeps the branch for the last. Events that report a success are diagnosed
  like failures by the code, and appear as the body in which no rule matches.

## 7. Plan

Done: the loop, ingestion, the dashboard's reads, the batch and the page, with the theorems of
section 4. What would come next:

* reference definitions for the three pure functions (a table for `diagnose`, the ladder as a
  sequence for `decide`, the order of the denials for `evaluate`), compared with `Diagnosis`,
  `Policy` and `Guardrail` over all inputs of an instance;
* action properties for the hazards that only a divergence covers so far, above all what a
  stale mirror may and may not lead to;
* an `EpisodeLifecycle` of an event that is handed to several sessions, one strand each, of
  which `LinkBound` and `OutcomeBound` would be the invariants.
