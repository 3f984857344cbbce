# Substrata billing: TLA+ specifications

Formal models of the Substrata backend, a subscription billing service: a
Fastify API, a scheduler, BullMQ workers, a Postgres database reached through
Prisma, and a Soroban contract that moves the money. The specifications follow
the TypeScript code, not its documentation; section 6 says where the two
disagree.

## 1. The system

| Component | Source | State it keeps | Operations that change state |
|---|---|---|---|
| Tables | `prisma/schema.prisma`, `lib/billing-period.ts`, `lib/idempotency.ts` | `Subscription`, `Payment` rows | through the handlers below |
| Billing cycle | `services/billing.service.ts`, `soroban-billing.service.ts`, `payment.service.ts`, `lib/soroban.ts`, `lib/billing-outcome.ts` | the locals of a call in progress; the contract's charges | `processBillingCycle` and what it calls: `executeSorobanBilling`, `submitPayment`, `advancePeriod`, `handlePaymentFailure` |
| Grace sweep | `billing.service.ts:183-204` | the list it read | `expireGracePeriods` |
| Subscription routes | `routes/subscriptions.ts` | requests in progress | create, cancel (now, at period end), pause, resume |
| Scheduler, queue, worker | `scheduler.ts`, `queues/index.ts`, `workers/billing.worker.ts`, `routes/billing.ts`, `routes/payments.ts` | jobs by id, ticks in progress | tick, add, take, settle, recover, evict, manual run, manual retry, inline run |
| Soroban submission | `lib/soroban.ts` | the locals of a call; on the network, the treasury account's sequence number and the transactions | `invokeAsAdmin`: read the account, simulate, sign and send, poll, give up |
| Webhooks | `services/webhook.service.ts`, `workers/webhook.worker.ts` | endpoints, events, deliveries, jobs | register, deactivate, emit, deliver |
| Indexer | `services/indexer.*.ts`, `routes/indexer.ts` | `ChainEvent` rows, polls in progress | poll, ingest |
| Plans and wallets | `routes/plans.ts`, `merchants.ts`, `wallets.ts`, `subscriptions.ts`, `middleware/auth.ts` | plans, wallets, subscriptions on them | create, sync, deactivate a plan; verify a wallet; subscribe |
| Period arithmetic | `lib/date-utils.ts` | none | `nextPeriod` and what it calls |
| Stats, health | `routes/stats.ts`, `health.ts` | none | reads |
| Configuration, logging, helpers | `config.ts`, `app.ts`, `lib/` | none | none |

How they interact. A tick of the scheduler reads the due subscriptions and adds
one job per subscription and period end to the queue; the job id
`billing:<subscription>:<period end>` makes BullMQ ignore an add while a job of
that id is kept, in whatever state. Workers, ten calls at a time each, take jobs
and call `processBillingCycle`, which reads the subscription once, finds or
creates the payment of the period, calls the contract, records the outcome and
moves the period or the retry count. The same tick then cancels the
subscriptions whose grace has run out. The routes update the same rows by id. No
operation takes a lock or checks that a row is still what it read: every `await`
is a place where the others get in. All workers and the API process send their
transactions from one treasury account. The indexer and the catalogue of plans
touch the rest only through tables: the mirror is written by polls and by
clients, and a plan is read once by each request that subscribes to it.

Hard behaviours: interleaving of stale reads and writes by id; a charge that
cannot be undone between two database writes; process death at any await; a
transaction that was sent and whose fate the call never learns; overlapping
calls that build transactions with one sequence number; jobs recovered and tried
again; deduplication by kept job ids, which also suppresses what should run;
polls that write a page of rows one by one while others write the same rows;
months of different lengths.
PROJECT.json lists each of them ("hazards") at its line with the properties
that watch it. Some are simply what the code does, so that no property of it
could forbid them; they have none, and a note that says so.

## 2. The modules

    PaidPeriods          what billing promises (abstract)
    BillingTables        rows and clock
      BillingCycle       processBillingCycle, one action per awaited call
      GraceSweep         expireGracePeriods
      SubscriptionApi    the routes
        BillingEngine    any cycle at any time, next to sweeps, routes, clock, failures
          BillingEngineProofs
          BillingService the engine driven by scheduler, queue and workers
            BillingServiceProofs
            BillingQueueProofs   what the job ids are worth
              BillingChargeProofs   what a failure may cost a client
    InvocationOutcome    what a caller of invokeAsAdmin may rely on (abstract)
    SorobanSubmission    invokeAsAdmin next to the network
      SorobanSubmissionProofs
    EventOutbox          what the webhook outbox promises an endpoint (abstract)
    WebhookDelivery      the webhook outbox, its queue and the delivery worker
      WebhookDeliveryProofs
    ChainIndexer         the mirror of the contract's events
      ChainIndexerProofs
    Calendar             the dates of periods
      PlanCatalog        plans, wallets, subscribing, the dates of a subscription
        PlanCatalogProofs  calendar and tables
    MCEngine, MCService, MCWebhook, MCIndexer, MCCatalog   instances for TLC

**BillingTables.** `subs[s]` is a `Subscription` row: `status`, `start` and `end`
(`currentPeriodStart`, `currentPeriodEnd`), `cancelAtEnd`, `paused` (a boolean
there too), `retry`, `grace`. `payments[s][e]` is the status of the
payment with the idempotency key of subscription `s` and period end `e`; the key
is unique in the schema, so a function is what the table is. Dates are numbers
and an interval has the fixed length `Period`, a positive number; that
`nextPeriod` moves forward is all billing needs of it, and is proved of Calendar.

**BillingCycle.** `cycles[c]` is a call in progress: its `pc` names the next
awaited call, and `end` and `retry` are the fields of the row it read first,
which it goes on using. `charges[s][e]` counts the `execute_billing`
transactions that took money, `adrift[s][e]` those that were sent and that no
call waits for any more, because its poll timed out or was rejected or its
process died; no code keeps either, they are the chain's state. A transaction
adrift lands or lapses at any later time (`Land`, `Lapse`). A process may die
wherever a call has begun, also after `processBillingCycle` has returned and
before its job is settled. `Catch` says where a rejected call lands:
`executeSorobanBilling`'s own catch, the catch of `processBillingCycle`, or the
caller. A transaction hash is written with SUCCESS and only read together with
it, so the status stands for both.

**GraceSweep, SubscriptionApi.** Reads and writes as separate actions. Cancel
reads the row, and with `immediately: false` writes back the status it read.

**BillingEngine** lets every cycle start at any time for any subscription. That is
not an abstraction of convenience: `POST /billing/run-inline` asks for nothing
else, and it makes what is proved of the engine independent of the queue.

**BillingService** restricts the engine to what scheduler, queue and routes
start. `jobs[j]` is the job kept under id `j`: a pair of subscription and period
end for scheduled jobs, a slot for manual ones, whose ids contain a timestamp. A
retained job keeps its id until `Evict`. `tries` counts the attempts that threw
and `stalls` the recoveries (BullMQ gives a job one, `maxStalledCount`).

**PaidPeriods** is the abstract specification: a subscription enters a period
only when the one before was paid, or fresh at its client's request, and the
books show only money that was collected. `BillingEngine` maps `start` to the
period start, `collected` to the charges (in test mode, to the simulated
payments) and `booked` to the SUCCESS rows.

**InvocationOutcome, SorobanSubmission.** The abstract module says what the
answer of `invokeAsAdmin` is worth: a call's money moves at most once; Paid and
Failed are true; after an answer, "Timed out" included, the money does not move
any more; a call that throws for another reason promises nothing.
`SorobanSubmission` is the code: `calls[c]` goes from `getAccount` over
simulation and sending to the polling loop. A transaction is its arguments, its
sequence number and the last second it is valid, so two calls that overlap
compete for a number, and two calls for the same arguments in the same second
build one transaction and share its fate. `pool` and `ledger` are the network's:
it carries a transaction out on its turn and within its validity, or never.
Nodes may lag behind the ledger. The refinement maps `answer` to what the call
has returned and `taken` to the calls whose transaction paid (`Told`, `Taken`).
BillingCycle's `InvokePaid`, `InvokeFailed`, `InvokeError` and `InvokeLate` are
these answers with what they allow to happen later.

**EventOutbox, WebhookDelivery.** The abstract module knows events, endpoints and
requests, no tables or jobs; `WebhookDelivery` models the endpoint routes,
`emitWebhookEvent` and `deliverWebhook` with the `webhooks` queue; see section 7.

**ChainIndexer.** `chain` is the sequence of the contract's events, `rows` the
`chain_events` table: a function from normalised transaction hashes to the event
the row shows, or to a client's content. `polls[p]` is a call of
`pollSorobanEvents`: where it started, its page, and the event it is at; each
turn of the loop upserts one row, and other polls, `POST /ingest` and failures
come in between. It also keeps which ledgers the client has gone through by
passing each `latestLedger` on as the next `startLedger`: the poller itself
keeps no cursor.

**Calendar, PlanCatalog.** A date is a month and a day of it. `AddMonths` and
`AddYears` spill the days a short month does not have into the month after, as
`setMonth` and `setFullYear` do. `PlanCatalog` has the three tables and the
requests between them: POST /subscriptions reads the plan, upserts the wallet
and creates the row, each in a step of its own. What moves a period is here too,
with its dates: a billing cycle reads a row and advances it later; a resume
begins a new period today. `anchor` and `periods` say when the first period
began and how often it was advanced.

## 3. The runs

| Run | Question | Bounds |
|---|---|---|
| `engine_test` | Do types, grace ends, PaidPeriods and the finality of a cancellation survive every interleaving in a test-mode deployment with trials? | 1 subscription, 2 cycles, 1 sweep, 1 request of each kind in turn, 1 failure (rejection, crash), clock 0..1, dates 0..3 |
| `engine_live` | The same on chain, and does each charge leave a row? | 1 subscription, 2 cycles, 1 cancel request, 1 rejection, crash or unlearned fate, transactions adrift, at most 2 charges of a period |
| `service_sched` | Do the job ids keep a period to one call, one charge, after its end, in order; does what is booked as paid stay so; is a period whose job has ended accounted for? | 2 overlapping ticks, 2 workers, 1 request, 1 rejection or late answer, clock 0..2, dates 0..6 |
| `service_live` | Are due periods attempted and failures counted, do jobs and grace periods end, and what does a failure cost a client and the books? | 1 tick, 2 workers, 2 retries, 1 rejection, crash, late or unread answer, under fairness |
| `service_open` | Do jobs and calls stay matched with manual and inline runs, evicted ids and one failure of any kind? | 1 manual slot, 1 tick, 2 workers, every retry and charge cap 1 |
| `submission` | Does `invokeAsAdmin` implement InvocationOutcome, and does every call end? | 2 calls for 2 payers, validity and polling time 1, clock 0..1 and on while a poll waits, 1 lost answer or dead process, lagging nodes |
| `webhooks` | Is each delivery sent at least once or given up, do rows, posts and jobs agree, does a deactivated endpoint go quiet, and is all of it an EventOutbox? | see section 7 |
| `indexer` | Is an event missed or hidden that a client has gone past? | 2 overlapping polls, window 1, page of 3, ledgers 1..3, each with no, one, two or an unreadable event, 2 spellings of a hash, 1 failure |
| `plans` | Does a subscription keep its billing day, and a deactivated plan its retirement? | 1 plan, 1 wallet, 2 rows, 2 requests, 1 cycle, two days (31 January 2023, 30 January 2024), 4 intervals (with trials), 2 advances |
| `double_charge`, `retry_lost`, `trial_stuck` | one disagreement each (section 6) | 1 tick, 2 workers, at most 1 crash |

Why the bounds are enough. Subscriptions share nothing: every action reads and
writes the row, the payments, the job and the charges of one subscription (a
sweep and a tick of several, one by one), so one subscription shows what can
happen to it. The hazards are races of two: two calls on one row, a call and a
request, a call and a sweep, two ticks. Two cycles, two ticks, one sweep and one
request meet in every order. Two calls of `invokeAsAdmin` are enough to collide
in a number or to share a transaction; a page of three, filled by two ledgers,
is cut off within a transaction; two polls of one ledger overwrite each other.
The days of `plans` are the ends of January of a common year and of a leap year,
before a February: month ends, leap days and both overflows occur. Dates reach
far enough for a period to be billed, its successor to begin and to be billed
again. `RetryCap`, `ChargeCap`, `MaxNow`, `MaxDate`, `MaxFaults` are the bounds
of the billing model; they are guards of `Start`, `Tick` and `Fault` and nowhere
else. The other modules have `MaxNow`, `MaxLedger`, `MaxPeriods`, `Days` and
`MaxFaults`, in the guard of one action each. Cycles, requests and ticks are
interchangeable, hence the symmetry in the safety runs; none is used where
liveness is checked. Deadlock is not checked: a bounded clock or chain stops,
and with every subscription cancelled, every call ended or every row taken there
is nothing left to do.

Every property has a mutant: operators marked "Faulty" are plausible wrong
versions of an action, and PROJECT.json says which property must catch which.

### What the passing service runs leave out, and why

`service_sched` has no manual or inline calls, no eviction and no resume
(`SchedulerOnly` of BillingQueueProofs), no crash, and at most one rejected call;
transactions may be answered too late or misread. These are the conditions
`QueueOnly`, and each of them is needed: TLC finds a counterexample to one of
the properties when it alone is dropped. Three invariants of `service_live` do
without the last two and count the failures instead, a crash among them:
`OverchargesNeedFaults` (no period is charged more often than once and once for
each failure), `EarlyChargesNeedFaults` (no more periods are charged before they
have ended than things failed) and `BooksNeedFaults` (no more periods say SUCCESS
without a charge, or something else in spite of one, than things failed). They
also hold with two failures per behaviour, the last two with three.
With a crash a period is charged twice (`double_charge`) or early; a resume
gives a waiting job a fresh period, which it charges at once, because the worker
never asks whether the subscription is due; manual and inline calls run beside
the queue; an evicted id lets a tick that read the row long ago add its job
again; with two rejections, one after the charge and one in the failure path,
the attempt throws and the next one charges again.

`service_live` has one failure: two crashes of the same job, or three attempts
that throw, leave a failed job whose id blocks the period until five hundred
other failures push it out. `MaxRetries` is 2, so that the first failure takes
the path with two writes, the payments and then the count, which
`FailureIsCounted` is about.

`NothingHidden` is about polls without failures whose pages were not full: a poll
that fails half way, or whose page ends within a transaction, leaves the row at
the earlier event until the next poll of that ledger.

## 4. Fairness

`Fairness` in BillingService: the clock moves; the interval timer fires, so a
tick that finds something due or expired begins; its awaited calls return; a
waiting job is taken by some free worker; an ended call settles its job and a
stalled job is recovered (BullMQ's stalled check runs in every worker); each
awaited call of a cycle returns, with some outcome. All of it is weak fairness
of single steps of one process, which an event loop and a timer give. Nothing is
assumed of clients, of failures, of evictions, of transactions adrift, or of
which outcome a call has. `SubmissionSpec` has weak fairness of the clock and of
each call's next step, and none of the network: a transaction may stay in the
pool for ever, and it is the time-out that ends the call. The violation runs of
liveness properties use the same specification.

## 5. What is proved

All theorems hold for every value of the constants that the ASSUMEs allow:
any number of subscriptions, cycles, sweeps, requests, ticks, jobs, calls,
endpoints, polls and plans, any period, grace, limit and fault set.

| Theorem | States | Argument |
|---|---|---|
| `TypeCorrect` | `Spec => []TypeOK` | inductive as it stands; one lemma per part |
| `ChargesTraced` | `Spec => []ChargeLeavesTrace` | `TraceInv` = `ChargeLeavesTrace`, `RailsKept`, `WrittenAhead`, `SentIsWritten`: from the invocation on, the row has left PENDING, also while the transaction is adrift, and no action takes a row back |
| `CancelledForGood` | `Spec => ClosedStaysClosed` | a step property from `TypeOK`: each action that could write the row needs a call, a request or a transaction that `Settled` rules out, or writes CANCELLED |
| `GraceIsBounded` | `Spec => []GraceHasEnd` | inductive with `TypeOK`: only a route's cancel at period end can write PAST_DUE without a grace end, and it sets the mark |
| `EngineImplementsPaidPeriods` | `Spec => ImplementsPaidPeriods`, if no answer of the contract is misread | the inductive invariant is `TypeOK`, `TraceInv`, `MoneyInv` (`MoneyFirst` with `RailsKept`) and `RowsExist`: a call that is about to record or advance has the money, and rows that are worked on exist. Each action then maps to a step of PaidPeriods or to a stutter |
| `ServiceTypeCorrect`, `JobsMatchCalls` | types of jobs and ticks; `[]JobsOwnCalls` | `JobsOwnCalls` is inductive with the types: only `TakeJob` binds a slot, and it needs an idle one |
| `ServiceImplementsEngine` | `ServiceSafety => Spec` | each service action is an engine action or leaves the engine alone |
| `ServiceKeepsPromises` | the engine's properties, of the service | the theorem before, and the engine's theorems |
| `JobIdsSeparateCalls`, `JobIdsChargeOnce`, `JobIdsWaitForTheEnd`, `JobIdsKeepOrder` | `OneCallPerPeriod`, `ChargedOnce`, `BilledOnlyWhenDue`, `PeriodsInOrder`, under `QueueOnly` | the inductive invariant `QueueInv`, below |
| `JobIdsKeepTheBooks`, `JobIdsBookWhatIsPaid`, `JobIdsAccountForFailures` | `PaidStaysBooked`, `BooksNeedFaults`, `EndedIsAccounted`, under `QueueOnly`, the last with more than one attempt per job | `QueueInv` with `RowsOpen`; with `DoubtsInv`; with `AccountsInv`, below |
| `OverchargesAreFailures` | `OverchargesNeedFaults`, under `SchedulerOnly` | the inductive invariant `CountInv` with `TraceInv`, below |
| `EarlyChargesAreFailures` | `EarlyChargesNeedFaults`, under `SchedulerOnly` | `EarlyInv` with `CountInv`, below |
| `SubmissionTyped`, `SubmissionSound` | types; `[]SubmissionInv` | `SubmissionInv`: a sequence number is used once and in order, a call that has not read the account has no transaction, a poll lasts longer than its transaction is valid, and Paid and Failed are what the ledger says |
| `SubmissionImplementsOutcome` | `SubmissionSafety => ImplementsOutcome` | each action is a step of InvocationOutcome or a stutter, by `SubmissionInv`; a transaction that is carried out moves the money of all the calls that built it, and none of them has timed out |
| `IndexerTyped`, `IndexerSkipsNothing`, `IndexerHidesNothing` | types; `NothingSkipped`; `NothingHidden` | `IndexerInv`: the chain is ordered by ledger, a poll has mirrored what it is past, and a page that was not full holds the rest of its transactions |
| `NextPeriodForward` | the next period end is a date and is later, for every date, interval and count | months by their lengths and the days before them; for days and weeks the date that `AddDays` chooses exists, by the least element of the months that begin late enough |
| `CatalogTyped`, `BillingDayIsKept`, `RetiredPlansStayRetired` | types; `BillingDayKept`; `RetiredStaysRetired` | `DayKept` is inductive over the rows and over what the cycles in progress have read, since a stale advance takes its own anchor along; days and weeks add up exactly, by the number of days before a date; a spilled day is at most the third and does not spill again |
| `DeliveriesTyped`, `DeliveredWasTaken`, `RepostsCounted`, `AttemptsAccounted`, `OrphansAreFaults`, `DeactivatedStaysQuiet` | types, four safety properties and the step property of the webhook outbox | the inductive invariant `WebhookInv`, section 7 |
| `DenialsAreFailures` | `DenialsNeedFaults` | `WebhookInv` with `SpoiledInv`, section 7 |
| `OutboxIsKept` | `WebhookSafety => ImplementsOutbox` | `WebhookInv` with `OutboxInv`, section 7; each action is a step of EventOutbox or a stutter |

`EngineImplementsPaidPeriods` has the hypothesis `"unread" \notin FaultKinds`:
`executeSorobanBilling` takes an answer it cannot parse for Paid, and then a
period is entered without money. The hypothesis is the statement of that flaw's
absence, and is false of the code for contracts that answer otherwise.

`QueueOnly` is a hypothesis on the constants: every call comes from the
scheduler, no id is evicted, nobody resumes, no process dies and at most one
call is rejected; any number of transactions may be answered too late or not be
understood. `QueueInv` follows a period through the queue. A call works for the
job named after its subscription and period (`CallsOwned`). As long as it has
not advanced, its period is the current one, and as long as it has not invoked,
nothing was sent for it (`CallsCurrent`). A waiting job is for the current
period, and that period has ended (`JobsCurrent`). What a tick read as due is
current or has its job already (`TodoCurrent`). For a period at most one
transaction was sent, landed or adrift (`SentOnce`), and a period ends after it
began (`PeriodsOpen`), so that an advance moves to one for which nothing was
sent. The first four theorems then say what the job ids are worth: a good deal
under these conditions, and section 3 shows what is left without each of them.

Three theorems about the books rest on it. `RowsOpen` says that a call on its way
to the contract is on a row that is not SUCCESS; as it is the only call on that
row, nobody writes SUCCESS behind its back, and what it writes covers nothing.
`DoubtsInv` counts the periods in doubt, those that were charged or may still be
and whose row does not say so, and no call is about to write it, or the other way
round: a step of a call brings none, for nobody else is on its row, and a failure
brings its own period. Under `QueueOnly` no process dies; that one crash
costs the books one period at most is model-checked in `service_live` only. `AccountsInv` follows
an attempt to its end: a call that is done has moved the period or counted a
failure, or was rejected, and the only rejection there is leaves the job a second
attempt. With `Attempts = 1` that fails: a job whose one call is rejected before
it has done anything is kept as failed and blocks a period that was never tried.
The theorem has the hypothesis `Attempts > 1`; the code's queue has three.

`OverchargesAreFailures` needs less: only `SchedulerOnly`, with any failures.
`QueueInv` does not hold then, for a job that is run again may charge a period
that is not its own. What remains bounded is the number of jobs, and the proof
counts them. Job `k` of `s` has a chance to charge while it waits, is stalled or
has a call under way, or is yet to be added because something still knows of
period `k` (`Known`: the row, a payment, a call, a tick). A charge and an advance
each use the chance of their job up; an advance makes one, that of the new
period; nothing but a failure gives one back. `Counted` says for each
subscription that there are at most `1 + faults` chances, and for each period `e`
that what was sent for `e`, together with the chances of those jobs that may
still charge `e`, is at most `1 + faults`. Two more counts make that inductive.
While the subscription is in `e`, every job with a chance may charge `e`, except
one whose call has just done so (`Others`); and because a stale advance may take
the subscription to `e` a second time, what is sent for `e` and may come to it
together with the job of the period after is at most `2 + faults` (`Coming`). The
step into a period nothing was sent for is safe by `TraceInv`: what was sent left
a row, and a row makes its period known. TLC checked `CountInv` before it was proved, next to a
cancellation and with two failures of any kind, which is more than `service_live`
has. It also showed the bound to be sharp: with one crash a period is charged twice
(`double_charge`).

`EarlyChargesAreFailures` counts the other thing a failure buys: a job that is run
again after its call moved the period charges the next one before its end.
`EarlyInv` says that the job of a period appears only when the period has ended, for
a tick adds it for what it found due. So if `n` periods of a subscription were
charged early, the `n` jobs named after them have not been added and keep their
chances; with the chances that `Counted` limits to `1 + faults`, and the one the
early charge itself used, `n` is at most `faults`. Time only makes fewer charges
early.

A definition was corrected because a proof did not go through: `FinishJob` was a
CASE whose guards overlap, of which TLC takes the first and the prover any; it is
the code's chain of conditions now. `BillingDayKept` said nothing of daily and
weekly subscriptions before; it says that they end to the day.

Only model-checked: the liveness properties (`DueIsAttempted`, `JobsEnd`,
`GraceEnds`, `FailureIsCounted`, `CallsEnd`, `QueuedIsRecorded`): fairness and
ENABLED are out of the prover's reach.

## 6. Where code and documentation disagree

With a run:

1. `double_charge`. docs/ARCHITECTURE.md:273 has the job id prevent double billing.
   A worker that dies after `execute_billing` paid and before SUCCESS is
   written is recovered, and the period is charged again. The contract may
   refuse the second call; its source is not in this repository.
2. `retry_lost`. docs/ARCHITECTURE.md:170 has the scheduler pick a RETRYING payment
   up. The completed job keeps its id and the period end has not moved, so the
   add is ignored. No failure but the contract's refusal is needed.
3. `trial_stuck`. A trial never becomes active: `findDueSubscriptions` skips it.

Shown by the models, without a run of their own:

- "Cancel at period end" (docs/API.md:207, docs/ARCHITECTURE.md:158) stops the
  billing and never cancels: no action reads the mark except to leave the
  subscription out.
- A delivery whose job was never added stays PENDING: docs/ARCHITECTURE.md:262
  names a retry query, and no action looks for such rows (section 7).
- A worker that dies after `advancePeriod`, or after the call returned and before
  BullMQ stored the result, has its job recovered; the job names no period, so the
  next one is charged before it has ended (`BilledOnlyWhenDue` without its
  restriction on crashes). `EarlyChargesNeedFaults` says that this is all: one
  failure, one period.
- docs/INDEXER.md:12 has the indexer upsert known topics. `pollSorobanEvents`
  ingests every event whose topic it can read.

Behaviours no document denies: the sweep cancels a subscription that paid after
the sweep's read; `advancePeriod` and `handlePaymentFailure` overwrite a
cancellation that came after the cycle's read; a transaction sent before a
cancellation can take its money after it; a stale advance overwrites the fresh
period of a resume; a paid subscription becomes PAST_DUE when the
PAYMENT_SUCCESS webhook cannot be queued, because the same catch handles both;
the failure of one period turns the FAILED rows of all periods to RETRYING; POST
/subscriptions sent twice makes two subscriptions; a monthly subscription of the
31st moves to the first days of the month after a short one and stays there; a
client that resumes from `latestLedger` cannot get past a ledger with a full
page of events; nothing schedules polls, and one without `startLedger` sees
fifty ledgers back, so what is older and was never polled is never mirrored; the
second event of a transaction replaces the first.

## 7. Webhooks

An emission (`emits[e]`) reads the active endpoints that listen to the event's
type, writes the event, writes one PENDING delivery per endpoint in one
transaction, and adds one job per delivery, all adds at once. `rows[d]` is the
delivery of event and endpoint `d`; `jobs[d]` is its job and, while a worker has
it, the place of the call of `deliverWebhook`: load, post, write DELIVERED,
write FAILED, returned, threw. `posts` and `accepted` are ghosts: the requests
sent, and those the endpoint took. The call does not look at the row's status,
so a recovered job posts again.

An endpoint is registered, then deactivated at any time: `emitWebhookEvent` reads
the active ones, `deliverWebhook` does not look.

Run `webhooks`: one event, two endpoints, three tries, one rejected call, dead
process or late answer anywhere. Deliveries share only the emission, whose adds
two endpoints are enough to interleave; three tries leave room for a refusal, a
failure and a success. `BooksAreTrue`, `RepostsNeedFaults` and `AttemptsCounted`
relate the rows, the queue and what the endpoint saw. `OrphansNeedFaults` says
that a committed delivery without a job still has its emission, unless a call
failed or a process died in between; then it is PENDING for ever, because
nothing looks for it. `DenialsNeedFaults` says that a delivery which the endpoint
took ends as FAILED or PENDING, because an answer or an update was lost or a
recovered job failed after DELIVERED was written, only as often as things failed.
`DeactivatedGoesQuiet` says that once the emissions and
jobs under way at a deactivation have ended, nothing posts to the endpoint
again. With fairness of the emission and of each delivery's worker,
`QueuedIsRecorded` says that what reached the queue gets an outcome. With two
failures it need not: a job that stalls twice before its first record is given
up with the row PENDING. `WebhookInv` was checked with two failures before it
was proved.

`ImplementsOutbox` says that all of it is an `EventOutbox`, which has no tables and
jobs: an event goes to all who listened when it was emitted or to none, an
endpoint takes it once and again only after a failure, it gets at most one request
per attempt and one more, and a delivery is over when the books say that it was
taken, when its attempts are used up, or when something failed. The refinement
maps `phase` to the place of a delivery between its emission, its row and its job,
`sent` and `taken` to the requests, `told` to DELIVERED.

Proved for any number of events, endpoints, tries and failures: `OutboxIsKept`,
with the invariant `OutboxInv` (the deliveries of an event are committed
together, each attempt has its request, a recorded delivery is worked on again
only after a failure, and a delivery without a row has no job);
`DeliveriesTyped`, the safety properties (`DeliveredWasTaken`,
`RepostsCounted`, `AttemptsAccounted` from the inductive invariant `WebhookInv`,
`OrphansAreFaults` by itself), `DeactivatedStaysQuiet`, and `DenialsAreFailures`:
`SpoiledInv` counts the deliveries that the endpoint took and that are neither
about to be written DELIVERED nor done with it, and each failure adds the one it
befalls. `WebhookInv` says that a delivery has no job before its add (or the row
could be written back to PENDING under a completed job), that a call which
returns has written DELIVERED on an accepted request, and that while another
request may follow each accepted one is due to a failure.

The worker's limit of twenty calls at a time is not modelled: any number may run.

## 8. Not modelled

- A database write that is applied but whose reply is lost: a rejected call here
  has had no effect. The contract call is the exception (`InvokeLate`). What
  counts writes depends on this: with such a reply `attemptCount` would be raised
  twice for one request, and `AttemptsCounted` (no more records than requests)
  would not hold.
- A plan's `contractPlanId` changed while subscriptions bill: `OnChain` is constant.
- A live worker that loses its lock and goes on running beside the recovered job.
- BullMQ's own code: attempts, stalled check and retention follow its options in
  `queues/index.ts`; the backoff has no length. Whether the installed version
  accepts a custom id with a colon is not modelled: adds succeed or are rejected.
- `submitPayment` on a live network (`payment.service.ts:58-111`), which no caller
  reaches: it is called in test mode only, and records a simulated success there.
- A local clock that is ahead of the ledger's close time: SorobanSubmission has
  one clock, on which both the validity and the polling time are counted.
- Two cycles that build one transaction are two charges in BillingCycle, which
  is more than the chain can do, never less.
- The time of day and daylight saving: Calendar's dates are whole days of one
  time zone.
- BillingTables' fixed period against Calendar's dates: they meet in
  `NextPeriodForward` only.
- Listings, statistics, revenue and health, which only read; prices, metadata,
  payloads, signatures, HTTP details; start-up, configuration, logging.

## 9. Plan

Done: tables, cycle, sweep, routes, engine, service, PaidPeriods, submission with
its outcome, webhooks, indexer, calendar and plans, with their proofs.

Left, in this order:

1. SorobanSubmission's calls inside BillingCycle in place of the four invoke
   actions, with InvocationOutcome as the interface between them, so that two
   cycles may share a transaction or compete for a number.
2. PlanCatalog's dates under BillingService, with a period that depends on the
   subscription and the date.
3. What `OverchargesAreFailures` leaves open: a bound with resumes and with calls
   started by hand, each of which brings a chance of its own.
4. The outbox under its liveness, with TLC.
