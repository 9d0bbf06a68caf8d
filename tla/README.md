# Verification of the zaroorat back end

TLA+ models of the parts of this back end whose correctness depends on what
happens between two database statements, with TLC runs on small instances and
TLAPS proofs for every instance.  `PROJECT.json` lists the runs, the mutants,
the hazards each property guards against, and for every definition the source
lines it stands for.

## 1. The system and its parts

A Node.js (Fastify) ride-hailing back end.  State lives in PostgreSQL (Prisma,
READ COMMITTED transactions), Redis (locks, counters, sessions) and BullMQ
queues.  Several API processes run side by side; each also runs an outbox relay
and consumers; a worker process runs the scheduled jobs.

| Part | State | Operations | What makes it correct |
| --- | --- | --- | --- |
| Outbox (`core/events`) | `outbox_events` rows: status, retries, claim token | publish, claim, dispatch, settle, reclaim, prune | every committed event reaches all subscribers once at least, or is dead after `MAX_ATTEMPTS`; a settled row stays settled |
| Requests and dispatch (`rides/services/request`, `dispatch`, two jobs) | `ride_requests`, `ride_dispatches`, a Redis lock per request | create, cancel, boost, dispatch round, reject, accept, time out, expire | at most one driver wins, for good; a closed request stays closed; every search ends |
| Scheduled rides | `scheduled_rides` beside the request | book, accept, decline, cancel, remind | one assigned driver, a cancelled booking stays cancelled, one reminder |
| Ride lifecycle (`rides/services/lifecycle`) | `rides.status`, `driver_status`, commission wallet | accept, arriving, arrived, start, drop-off, complete, cancel | one active ride per driver and per customer (both have a hole, section 6), commission charged once |
| Collection, receivables, write-off (`payments`) | `rides.payment_status`, `ride_payments`, ledger, a Redis lock per ride | collect, confirm cash, settle, sweep, write off | a fare is collected once, never both paid and written off |
| Payment intents and webhooks | `payment_intents`, `payment_transactions`, `gateway_events`, review cases | create, verify, webhook, reconcile | one capture has one effect, every other capture is held for Finance |
| Refunds | `refunds`, `REFUND_IN_TRANSIT`, a lease per row | reserve, look up, create, settle, undo, reconcile, review | reserved money is refunded once or returned |
| Settlements and payouts | `driver_settlements`, `driver_payouts`, the settlement wallet | calculate, initiate, confirm, fail, withdraw | no rupee promised twice, locks in one order |
| Subscriptions and the payment model | `driver_subscriptions`, `drivers.payment_model` | purchase, activate, refund, expire, switch | one open period, served exactly when paid for |
| Notifications | notification and delivery rows, BullMQ jobs, leases | write, plan, claim, send, settle, sweep | every published event ends in a settled row that says what was sent |
| Auth | OTP challenges, sessions, refresh tokens, epochs | send, verify, rotate, log out, evict | one use per code and token |
| Driver status, onboarding, vehicles, files, pricing, promotions, referrals, support, realtime, admin | one row each, mostly | CRUD behind row locks | listed in `PROJECT.json` |

Components meet in four ways: calls inside one transaction (acceptance writes the
request, the offers, the ride and the outbox row together), outbox events
(`ride.requested` makes a consumer dispatch, a confirmed payment activates a
subscription), Redis locks, and jobs that sweep
rows others wrote.  The hard behaviour is at those seams: state read before a
transaction and used in it, a lock that expires under its holder, a job that acts
on rows it read a moment ago, an event delivered twice or late, a provider whose
answer is lost.

## 2. The modules

| Module | What it is | State and steps |
| --- | --- | --- |
| `OutboxPromise` | what producers and subscribers may rely on | an event is committed, delivered, published or given up, deleted |
| `Outbox` | `OutboxRelay`, `OutboxRepository` | the rows of `outbox_events`, the claim tokens, the locals of each relay's tick |
| `OutboxProofs` | its theorems | |
| `RideDispatch` | a request in search of a driver | `ride_requests`, `ride_dispatches`, the Redis lock, the locals of each dispatch round and of the timeout job |
| `RideDispatchProofs` | its theorems | |
| `ScheduledRide` | a booking for later | `scheduled_rides`, the request parked behind it, the calls in flight, the reminder sweep |
| `ScheduledRideProofs` | its theorems | |
| `TripPromise` | what rider, driver and platform may rely on | waiting, assigned, under way, done or called off; the bill |
| `RideLifecycle` | a ride and what it shares | `rides.status`, `driver_status`, the commission wallet, the unique indexes, bookings and accepts in flight |
| `ObligationPromise` | what a fare is to rider, driver and finance | owed, paid, receivable, paid late, written off |
| `Collection` | the fares of one rider | `payment_status`, rows of `ride_payments`, ledger groups, the wallet, receipts, the lock of each ride, the calls at work |
| `CollectionProofs` | its theorems | |
| `RefundPromise` | what a payer may rely on | asked, set aside, repaid, closed, overruled |
| `Refund` | the refunds of one payment | `refunds`, leases, three balances as one, the conversation of each caller with the provider, decisions of administrators in flight |
| `PayoutPromise` | what a driver and finance may rely on | what settlements owe, the driver's money, payouts held, paid or dropped |
| `Payout` | paying one driver | settlements, payouts, the wallet and its holds, who locked which row and who waits |
| `MoneyProofs` | the theorems of `Refund` and `Payout`, the two modules about money that leaves, and of the sums both are about: it extends both, which is why `Payout` says `PayoutInit`, `Sessions`, `Absent` and so on | |
| `IntentPromise` | what a payment for an intent can become | open, failed, paid, in review; a payment applied or held |
| `Intent` | the gate every gateway payment goes through | intents, transactions, review cases, what the provider says, what each caller heard |
| `IntentProofs` | its theorems | |
| `Subscription` | a driver buys periods | periods, intents as `IntentPromise` has them, events not settled, requests and deliveries in flight |
| `DriverProofs` | the theorems of `RideLifecycle` and `Subscription`, the two modules about what a driver may do: it extends both, which is why `Subscription` says `SubscriptionInit`, `SubscriptionSpec` and so on | |
| `Notification` | one ride event told to one user | the outbox event, the row and its deliveries, the job in the queue, the runs of the worker, the provider's pushes |
| `NotificationProofs` | its theorems | |
| `MC...` | instances for TLC | symmetry sets, and the view of `MCRideDispatch` |

How the modules cut the code into steps is the same everywhere:

* One SQL statement, or one transaction whose rows are locked from its first
  read, is one action.  A transaction that writes what it decided on an unlocked
  read is two: the read, which leaves a call in flight, and the write, which
  commits together with everything else the transaction wrote.
* An `await` outside a transaction separates two actions.  A relay's batch and a
  dispatch round are sequences of such steps, with a program counter.
* Time is a flag that somebody else sets: a row is due, stale, lapsed or past.
  A Redis lock may expire at any moment of its holder's work.
* A crash, a lost reply, a redelivered event and an overrun lock are actions of
  their own, bounded by `MaxFaults`.
* Who is near and eligible, whether a fence or a PIN refuses, what a fare comes
  to: any answer.  A model in which every call may come at any time covers every
  refusal.

**Outbox.** Events are numbered in `(created_at, id)` order and go through
`Enqueue`, `ClaimBatch` (the oldest due rows, under a fresh token), one
`DispatchSucceeds` or `DispatchFails` per row, `SettleFailure` (retry or dead),
`Retire` (the successes, in one statement), then `ReclaimStale` and
`PrunePublished` on every `MaintenanceEvery`-th tick.  `Owned` is the
`claim_token` condition of every settling statement.  `Stop`, `ReleaseTail` and
`Halt` are the shutdown, after whose deadline a batch may still be running.

**RideDispatch.** `EnterRound ... LeaveRound`, `ReleaseLock` is one call of
`dispatchNextBatch`: read the request, count live offers, plan, offer one driver
after the other, promote, or expire an exhausted search.  A call that finds the
lock taken is `SkipRound`.  `snap[w]` is what the round read at its start and
still believes when it promotes.  `BeginAccept` to `CommitAccept` holds the row
lock of the request, which cancel, boost and expiry wait for (`Unlocked`) and a
round does not.

**ScheduledRide.** `accept`, `decline` and `cancelForCustomer` read without a
lock: `ReadTo...` leaves the call in `accepting`, `declining` or `cancelling`,
`Commit...` writes.  The write of a cancel is conditional on the status it read
(`StillAs`), the other two write by id.  A sweep reads what is due, marks one row
per statement and publishes afterwards.

**RideLifecycle.** `BeginAccept` is acceptance up to its balance check,
`CommitAccept` the insert of the ride, which the two unique indexes guard
(`FitsIndexes`), and `AbortAccept` any refusal after the read.  `Transition` is
`lockAndValidate` with `updateStatusIf`.  `CompleteRide` includes `deductInTx` with
its three outcomes and the write of ONLINE.  Status changes lock the `drivers`
row, which acceptance does not; two of them write a status they read before.
`CheckRides`, `CheckRequests`, `InsertRequest` are the three steps of a booking.
`overtaken[q]` is history: the rides of the driver that left the index or were
completed (`Overtakes`) while the call accepting `q` was in flight.

**Collection.** `Acquire` takes `payment:collect:<ride>`; `Proceed` is the next
statement of the call: read the ride, count attempts, charge (`RecordSuccess`,
`RecordFailure`), confirm cash, settle a receivable, write one off.  Each commit is
one step with its ledger groups, receipt and event.  `LockExpires` under a
living call marks the ride `overlapped`; the money properties hold of
overlapped rides too, what the rider is told (`FinalAfterBudget`) of the others.

**Refund.** Talking to the provider is four steps: `Claim` the lease, look the
refund up (`Find`), create it, apply the outcome.  A lost reply leaves the refund
created and the caller without an answer; `LeaseLapses` under a caller marks the
refund `overtaken`.  `Review` reads a row, and writes its decision by id later.

**Payout.** A call is a list of rows it wants, taken one by one (`Ready` is when it
has them), and one commit.  The calculation of a settlement is the exception: it
reads, then writes.

**Intent.** `money[p]` is the provider's truth, `call[c].records` what a caller was
told; `Judge` is `decidePaymentApplication`, `Hold` and `Apply` its two outcomes.
Webhooks (`HandleWebhook`) come in any order, repeatedly or never.

**Subscription.** A purchase is `BeginPurchase` (under the driver's lock),
`RegisterIntent` (at the provider, or the intent the key has already),
`AttachIntent` (by id).  The record of an idempotency key keeps a second request
with it out for two minutes while the first is in flight and for a day after its answer;
no purchase is bound to end within either, so in the model a key may come again at
any time.  `reused` is history: the intents a period got when they were paid already,
or another row's (`Taken`).  `PaymentSucceeds`,
`PaymentFails` are the moves of `IntentPromise` on its intent; a delivery of the
event is `ReadPeriod` and `Activate`.

**Notification.** A writer (the outbox consumer, or the sweep over published
events) is `Write`, `Judge`, `Enqueue`; an abandoned add may still land (`LateAdd`).
A run of the delivery job is `StartRun`, `Plan`, then per device `ClaimDelivery`,
`SendPush`, `RecordAnswer`, and `ReadDeliveries`, `Settle`, `EndRun`.  The queue is
the job's state, its attempts and the run it counts as the owner: `Stall` takes
the job away from a run that goes on, `Crash` from one that does not.
`LeaseExpires` under a run that is still sending counts as a disturbance.  The
sweep over QUEUED rows locks the row, as `Plan` and settlements do, so each of
its decisions is one step.

## 3. The runs

| Run | Instance | What it shows |
| --- | --- | --- |
| `outbox` | 2 events, 2 relays, 3 tokens, 2 attempts, 1 fault | outcomes are earned under crashes, lost replies, late statements; implements `OutboxPromise`; every event ends published or dead |
| `dispatch` | 1 request, 2 drivers, 2 workers, 1 boost, 1 fault | one winner; rounds do not stack; an outcome stands but for a stale promotion |
| `dispatch_live` | 1 worker | every search ends |
| `scheduled` | 1 booking, 2 drivers, 2 sweeps, 3 calls in flight | the driver fits the status, a cancelled booking has no search, one reminder |
| `lifecycle` | 2 requests, 2 riders, 1 driver, fee 1, 2 paid in, 1 taken out | a second ride of a driver only across the hole in the index, nobody stranded, the wallet accounts for the rides; implements `TripPromise` |
| `collection` | 2 rides, 2 callers, 2 attempts, 1 fault | ledger and wallet fit the obligation, no early last notice; implements `ObligationPromise`; every fare is decided |
| `refund` | 2 refunds of a payment of 2, 2 callers, 2 faults | refunded once, records fit the provider, nothing paid is given back; every refund resolves |
| `refund_review` | 2 refunds, 1 caller, 2 administrators, 3 decisions | decisions on stale rows never promise more than was captured; implements `RefundPromise` |
| `payout` | 2 periods, 2 payouts, 2 callers, 1 withdrawal, 1 status change | money and holds add up, no deadlock, PAID iff covered; implements `PayoutPromise` |
| `intent` | 1 intent, 2 payments, the job and 1 caller | one effect for one payment, captures that were heard of are tracked; implements `IntentPromise`; with the job alone a paid intent is decided |
| `subscription` | 2 keys, 2 requests and 2 deliveries in flight, 2 periods | one open period, one period per payment, a paid pending period keeps its event; the last two but for keys that came again |
| `notification` | 2 devices, 2 runs, 1 writer, 2 attempts, 2 surprises | one run per delivery, rows tell what was pushed; every published event settles |

Why the bounds are enough:

* Two relays, workers, callers, runs and sweeps make every race that needs two;
  three tokens let a claim whose reply was lost coexist with two live ones; two
  attempts separate a retry from the attempt that exhausts the budget.  One fault
  is enough for the outbox with liveness; `refund` and `notification` put a crash
  on top of a lost reply or an overtaken lease.
* `dispatch` has one request because rounds of different requests share nothing
  but drivers, whose exclusivity is `RideLifecycle`'s subject.  `BatchSize = 1`
  with two drivers makes batch, rounds and attempts all bind.
* `lifecycle` has one driver because what it checks is per driver: his rides, his
  status, his wallet.  Two drivers on one request are `dispatch`'s subject.  Two
  requests are what a driver needs for two rides, and two riders because one
  rider's requests exclude each other.  A fee of 1 with 2 paid in covers an empty
  wallet, one that pays one of two rides, and one that pays both.
* Two rides share `collection`'s wallet of at most one fare, so that one charge
  finds it empty; two refunds of 1 or 2 out of 2 fit side by side or exclude each
  other; two periods carry a debt from one to the next; two payments of one
  intent, each for it or for nobody and of the right amount or not, are the
  duplicate, the stray and the late one.
* A second writer in `notification` adds nothing to one that is dispatched again:
  the unique idempotency key makes every write after the first one a return.
* The theorems of section 5 have none of these bounds.
* `MaxBoosts`, `MaxFaults`, `MaxCalls`, `MaxPaidIn`, `MaxTakenOut`, `MaxCredit`,
  `MaxDecisions`, `Reviewed`, `MaxEarned`, `MaxWithdrawals`, `MaxMoves`,
  `MaxPayments`, `MaxPeriods` and `MaxSurprises` are bounds of the models;
  `BatchSize`, `BATCH_SIZE`, `MaxAttempts`, `Attempts`, `MaintenanceEvery`,
  `MaxRounds`, `MaxAttempted` and `Confirming` are configuration of the code.

Relays, tokens, drivers, workers, keys, riders, callers, rows and (in `lifecycle`)
requests are interchangeable: nothing compares them, so their permutations are
symmetries where a run has no liveness.  The view of `dispatch` identifies states
that differ in the window of an answered offer, which nothing reads again (a
refresh sets it anew).

Deadlock is checked in the scheduled and lifecycle runs and, since its relays tick
for ever, in the outbox run.  Elsewhere the system really may stop: a dispatch
instance once its bounded faults and boosts are spent and its request is closed,
the payment and notification instances once everything asked for is settled.  In
`payout` the circle of waiting calls, which TLC's own check would miss while
another call can move, is the property `NoDeadlock`.

## 4. Fairness

* `outbox`: a relay that is neither stopped nor down keeps ticking (`setInterval`)
  and finishes a statement it began (`Work`); a stopped or dead one is replaced
  (`Start`: the orchestrator restarts replicas); backoffs and claims run out,
  because the clock runs.  Nothing is assumed of subscribers beyond answering, by
  success or failure.
* `dispatch_live`: time passes, a transaction ends, and `RequestExpiryJob` keeps
  running (its lock expires with its holder).  No driver is assumed to answer, no
  round to run, no event to be delivered: the expiry job alone must close every
  search, and does.
* `collection`: a call that began goes on, a lock whose holder died expires (30 s),
  and the sweep keeps calling for whatever is owed (a repeatable job).
* `refund`: reconciliation keeps claiming, a lease lapses, a conversation ends, and
  the provider decides what it accepted.  It need not answer well the first time.
* `intent`: the job keeps being run, and among the runs that select an intent not
  every one is cut short (strong fairness of `BeginReconcile` and of concluding).
  Webhooks and verifications need not come.  The instance has as many intents
  pending as a batch holds: with more than `BATCH_SIZE` unpaid ones the code
  guarantees nothing (section 6).
* `notification`: the relay dispatches, the queue starts waiting jobs, runs go on,
  leases run out, both sweeps keep running (repeatable jobs), and an offer's
  window closes.  The TTL of other notifications need not pass, no device need be
  reachable and no push accepted.  The event sweep is modelled in mode `on`; its
  default is `dry-run` (`notification-event-reconciliation.job.ts:160`), in which
  a row whose insert failed is never written.

The other modules promise no progress: the code has no timeout for a ride, a
booking nobody answers stays as it is, and a payout waits for a person.

## 5. What is proved

The modules of proofs cover every run for all values of the constants, from the
assumptions named in the modules: every safety property and action property of the
runs and every refinement among them.  Only liveness is left to the runs.

**Outbox.** The properties are not inductive: that a late statement is harmless
depends on who holds which token.  The invariant says that a token marks a row
exactly while it is PROCESSING, that no two relays work under one token, and that
what a relay remembers of a row's retries is current as long as it owns the row;
`DeadIffExhausted`, the second half of `OutcomesEarned`, needs the last one, because
the code compares the remembered count and the statement increments the stored
one.

**RideDispatch.** Two locks carry it.  Under the row lock of the request an offer that is
being accepted stays pending (`AcceptsPending`), so the accept that commits finds no
other winner and no driver but its own (`AcceptedIffRide`).  Under the Redis lock, while
none has run out under its holder, a worker inside a round holds the lock of its
request (`Locked`), and then what it counted, planned and has yet to offer fits beside
the offers there are (`RoundsFit`): nobody else adds offers meanwhile, and others only
take some away.  That bounds the live offers and the drivers ever asked
(`RoundsDoNotStack`).  A boost is the exception the code makes, and `Boosting` ties every
refresh to one.  `OutcomesStand` proves the action property `OutcomeStands`: the stale
promotion of section 6 is the only step that takes a request out of its outcome.

**ScheduledRide.** The invariant falls into a booking half (a booking exists with
its request; a call in flight is on a booking) and a sweep half (a claimed
reminder names one driver; an idle sweep holds nothing), and no step writes both
halves.  Time only moves on for both.

**RideLifecycle.** Two conjuncts carry it.  `DropoffOvertakes`: a ride at the dropoff
whose driver has an accept in flight got there while that accept ran, because the accept
saw no ride when it began.  The index sees every ride before the dropoff, so a ride
that an insert gets past is one of these, and `OneRidePerDriver` follows with the case
it allows and no other.  `Covered`: if no refund was taken, a driver with a promised
commission, on a ride or in an accept in flight, has the fee in his wallet.  It is one
fee for all promises, and suffices because at most one of them becomes a ride that
completes; the exception is a promise whose accept another ride overtook, or whose ride
overtook an accept (`Rivalled`).  `WalletsBalance` is an induction over the cardinality
of the charged rides, so it also assumes that `Requests` is finite.

Nothing in the code relates the time of an accept to the time of a ride.  An accept that is
overtaken lasts from before the commit of the first ride to its dropoff; Prisma's limit
for a transaction (five seconds by default) and the fences make that unlikely, and the
model does not rely on either.

**Refund.** `Conversations` carries it: what a caller has in hand is still what the
provider says, because two callers talk about one refund only if its lease lapsed
under one of them (`Alone`), and then the refund counts as `overtaken`.  That the
ledger fits the status, and that a refund recorded as paid was paid, is proved of
overtaken refunds as well; that the provider creates one refund per row, and that
nothing it paid is given back, only of the others (section 6).  `NeverOverCaptured` is
about a sum over all refunds: `StepPromises` shows that a step promises nothing new or
one refund, whose amount it compared with all the others under the lock of the payment,
and that no promised amount changes, unless an administrator overruled a reservation.

**Payout.** Two arguments, one about locks and one about money.  `LocksInOrder`: every
call locks a payout before a settlement and either before the wallet, and holds
just the rows it passed.  So of any calls that wait for each other one waits for the
wallet, and who holds the wallet waits for nothing (`NobodyDeadlocks`, for any number
of callers).  `MoneyIsAccountedFor` needs `Booked` and `Known`, that the payout and the
settlement a call is about exist and belong together, and `Empty`, that a
settlement that was not calculated brings nothing.  Then each step changes one term of
one sum, and the balance and the hold by as much.  `PaidWhenCovered` and
`ImplementsPayoutPromise` follow from the same invariant.

**Sums.** The community modules sum by a recursive function over subsets, which takes out
one chosen element after the other.  The first part of `MoneyProofs` does without the
induction theorems: strict inclusion of finite sets is well-founded, so a claim that failed
would fail of a smallest set, and there the definition refutes it.  In that way the sum
exists, does not depend on what is taken out first (`SumOfElement`), depends on the values
in the set only (`SumOfEqual`), changes with one element by the difference
(`SumOfChanged`), and of naturals a part is at most the whole (`SumOfPart`).  Of the
constants it takes that what is summed over is finite: `RefundsAssumption` and
`FiniteAssumption`; `DriversAssumption` says it of the drivers, whose offers are counted,
and `DevicesAssumption` of the devices, which a delivery job lists.

**Collection.** `LedgerFitsObligation` and `WalletPaidForRides` rest on the
conditional claims of `payment_status` and the unique rows alone, whatever happens
to the lock.  `FinalAfterBudget` rests on the lock: `Alone` says two calls share a
ride only if it counts as overlapped, and `Fresh` that what a call read of any
other ride is current when it commits.

**Subscription.** `TiedToOne`: unless an intent was reused, everything that refers to
it, the row that points at it, the delivery that read it or the activation it paid for,
refers to one and the same period.  With `PaidFor` (an event in the outbox is of a paid
intent) it makes a late or repeated delivery harmless.  A purchase in flight is not among
them: what it attaches is checked, in `Taken`, when it attaches it.  `PaymentsAreServed`
adds that such a delivery is there: the event of an intent is settled only by the
delivery that found its period, so as long as the period is pending the event is not
(`Awaited`); and a row that is not used yet points nowhere (`Unused`), so that no
purchase begins with a payment that is over.  That an event is dispatched until it is
settled is the `outbox` run's subject.

**Intent.** Several payments of one intent are judged in one transaction
(`applyConfirmation` for each, in order), so the unit of the argument is not a step of
`Judge` but `Gated`: what a transaction may do to an intent, namely nothing, give it up,
decide it by one payment and hold the others, or hold them all.  `Gated` holds of every
judgement (`HoldIsGated`, `ApplyIsGated`, `FailIsGated`, `NoteIsGated`) and is closed under
composition (`GatedTwice`).  `JudgeAll` is a recursive function over the numbers of the
payments; that it is `Gated` for any `MaxPayments` follows from a smallest number of which
it is not.  What the gate relies on is that a payment with a row was
captured for an intent that is decided since (`RowsAreCaptures`), that what callers and
webhooks say is of payments that exist, and that a capture stays one or is refunded
(`KnownPayments`): an answer may be as old as it likes.  `EffectForOnePayment` is then
`OneEffect` of every intent, `HeardIsTracked` says that every capture a transaction
committed on is a row or a case, and each outcome of `Gated` is one step of
`IntentPromise` (`ImplementsPromise`).

**Notification.** Three conjuncts carry it.  `Numbered`: the attempts of the runs that are
sending one delivery differ, and none is beyond the number the delivery counts.  With it
the release of an attempt that was overtaken frees nobody else's lease, and
`ClaimsAreExclusive` follows for any number of slots.  `Advances` is what every step may do
to the deliveries: one that ended stays so, one bound to a device stays bound to it, and
all failed stays all failed although the plan adds rows, since it adds them only while one
is queued.  So what `settleNotification` read is still true when it writes
(`Concluded`).  `Undisturbed`: while no run was overtaken, died or heard
nothing, only the run the queue counts as the owner has anything to send, what it sends
is queued, and what was pushed is recorded or about to be.  That is why nobody else,
neither a second run, the exhaustion handler nor the sweep, decides about it meanwhile
(`OwnerIsAlone`).  `Written` is the reason why an offer's writer may fail its delivery
after the row was committed: until that writer enqueues, nobody adds the job, the sweep
included, which finds the window over and gives the row up instead.

Each `TypeOK` of these modules is proved and not listed in a run: the proof is over
all constants and says more.

## 6. What the code does not keep

Met while modelling; each is a behaviour of a module here (unless said otherwise),
and the properties are stated so that they hold beside it.

*Dispatch and rides*

* A round promotes by id a request it read as CREATED (`dispatch.service.ts:225`):
  after a driver matched it the expiry job then expires a ride's request, against
  `request-expiry.job.ts:49-53`; after a cancel the request is alive again.
* A rejection that meets a running round is followed up by nobody
  (`dispatch.service.ts:114`), and a round that finds nobody expires a request
  boosted a moment ago.
* The timeout job answers an offer whose window a boost renewed after it was read.
* A booking's accept overwrites a cancellation that committed after its read
  (`scheduled-ride.service.ts:192`); of two drivers who both read it as
  unassigned, the second stays.  A boosted booking ages out like an instant search,
  and `cancelRequest` closes its request but not the booking.
* The unique indexes do not cover DRIVER_AT_DROPOFF, which was added later.  A rider
  gets a second ride while the first is there, if his booking looked for rides before the
  first was committed and for requests after: against `ride-request.service.ts:500-502`,
  where the index is "the boundary that stops a rider opening several rides at once".  A driver gets one if an accept of his was in
  flight from before that commit to the dropoff: against `TripDistanceStore.ts:14-16`,
  which keeps one trip meter per driver because of the index.  Then the second
  completion may find no commission, and the end of one ride sets him ONLINE while
  the other runs.
* A driver suspended during a ride is
  online when it ends; a driver can go offline while his accept commits.
* The trip meter is cleared after the commit, in Redis (not in the model).

*Refunds*

* A second caller after a lapsed lease creates a second refund at the provider: no
  idempotency key is sent (`razorpay.client.ts:203-205`).
* A 4xx on the lookup counts as a refusal and undoes a refund that may be paid
  (`refund.service.ts:341-343`); the model sets such refunds apart as `misread`.
* `approveRefund` may change the amount of a refund already PROCESSING;
  `rejectRefund`, deciding on an unlocked read, may leave a FAILED row with its
  reservation in transit.

*Collection*

* A receipt viewed before the outcome says AWAITING for ever
  (`receipt.service.ts:24`, against `specs/002-payment-fare-settlement/spec.md:266`).
* The loser of two overlapped collections publishes `collection_failed` with
  `willRetry: false` though no receivable exists (`collection.service.ts:431`).

*Settlements and payouts*

* A debt is recovered more than once.  `cumulativeNetPayable`
  (`settlement.repository.ts:212-216`) sums `net_payable` over every settlement, and
  each already contains what it carried in.  A driver who owes 1 after one period
  and earns 1 in each of the next two nets -1, then 1 - 1 = 0, then, because the
  sum is still -1, again 1 - 1 = 0: he has paid 2 for a debt of 1.
  `specs/002-payment-fare-settlement/data-model.md:196` promises that what is
  recovered "equals the balance carried into it".
* A cash confirmation that comes after a settlement netted the share takes the same
  share again (`settlement.service.ts:44-46`), and the carried sum is read outside
  the transaction.
* Periods that finance enters may overlap, and settle a ride twice.
* A withdrawal request holds wallet money and nothing ever processes it.

*Intents*

* The job selects PENDING and PROCESSING intents only: a capture of a FAILED,
  SUCCEEDED or reviewed intent whose webhook is lost is never found (INV-7,
  `specs/005-razorpay-driver-payments/spec.md:39`), nor is one whose order nobody knows.
* It takes 100 in no order (`payment-intent-reconciliation.job.ts:17-22,51-58`): as
  many unpaid intents can starve the others.
* A late `payment.failed` marks FAILED an intent whose other payment is captured
  but not heard of yet (INV-8); the capture, once heard, still applies.

*Subscriptions*

* `AttachIntent` writes by id: a period activated meanwhile is pointed at an unpaid
  intent, against `driver-subscription.repository.ts:86-90`, and a payment for that
  intent buys nothing.
* Two overlapping purchases under different keys, or a FAILED intent that was
  replaced and captured late, leave a paid intent no period points at; its event
  is dead-lettered.
* `createIntent` returns the intent of a key whatever became of it
  (`intent.service.ts:185-201`).  A key that comes again after its idempotency record
  lapsed gives a paid intent to a new period: if the event is delivered once more, one
  payment opens a second period, and if it is settled, the period stays pending.
* The choice of the payment model reads the active period without a lock and may
  leave an ACTIVE driver on COMMISSION, or a staged switch nothing applies; staging
  and expiry lock their two rows in opposite orders.
* `SubscriptionReconciliationJob` is scheduled by nobody.

*Notifications*

* A row that is SENT by one device, or READ, is no longer swept: the delivery to a
  second device stays QUEUED if its job is lost.
* A push is sent twice after a crash, or a lapsed lease, between send and record.
  The exhaustion handler or the sweep fails a delivery that an overtaken run is
  still sending: the device got the push, the row says FAILED, and the false result
  of `finalizeDelivery` is ignored.  `StatusTellsDelivery` says that this takes a
  disturbance.
* `ExpireOffer` writes FAILED over READ.
* A job that stalls twice fails without its exhaustion handler; the sweep heals it.

*Outbox*: published rows are pruned after 30 days (`OutboxRelay.ts:12`) although
`EVENT_INFRASTRUCTURE.md:377` says that deletion is disabled.

## 7. Plan

In the order of what they would add:

1. `IdempotencyStore` by itself: the in-flight marker that expires under a slow
   request, for the callers other than a purchase, which `Subscription` covers by
   letting a key come again at any time.
2. `Auth`: refresh-token rotation, epochs, one-time codes and their attempts.
3. A composition of `RideDispatch` with `RideLifecycle` at acceptance, and of
   `Intent` with `Refund` at a captured payment.
4. Coupon redemption limits and referral rewards; file upload tickets and their
   sweepers; account deletion.
5. A second recipient of one event in `Notification`, with the planner.

## 8. What is only model-checked, or not modelled

Liveness (`EveryEventSettles`, `EverySearchEnds`, `EveryRefundResolves`,
`EveryFareDecided`, `PaidIsDecided`,
`EveryNotificationSettles`) is checked by TLC only: temporal progress under fairness
is outside what TLAPS proves here.

Not modelled: see the components with status `not_modelled` in `PROJECT.json`, each
with its reason.  They are the larger part of the code: back-office screens,
read models, onboarding, uploads, profile and catalogue CRUD, provider clients,
seeds and validation, most of it sequential code around one row, whose correctness
is a question for tests.  Inside the modelled parts, left out: fares, zones, surge,
geofences, PINs and vehicles (they refuse or compute), rides' cancellation fees,
shift logs, the trip meter in Redis, subscribers of the outbox other than those
modelled here (they handle or throw), signatures and freshness of webhooks, the
texts, channels and collapse keys of notifications, and the index on open requests
for scheduled bookings, which excludes them.
