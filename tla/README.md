# ElevenHouse in TLA+

ElevenHouse is a SaaS platform for practising astrologers: bookings and
sessions, client work, automated *flows* (a graph of steps executed for a client
or a booking), chart calculations, messaging, and money.  It is a TypeScript
monorepo of HTTP applications (`src/apps/*-api`), web clients, polling workers
(`src/apps/workers`, `chart-worker`, `notification-worker`, `payment-worker`),
a pure domain layer (`src/packages/domain`) and Drizzle/PostgreSQL adapters
(`src/packages/db`).  Almost all coordination goes through PostgreSQL: row locks,
`FOR UPDATE SKIP LOCKED`, leases with fencing numbers, transactional outboxes,
compare-and-set updates.  There is no in-memory state shared by two processes.

This directory holds the formal models of that coordination, the model-checking
runs over them, and machine-checked proofs of the most important invariants.  It
covers the flow execution runtime, the part with the most processes acting on the
same rows; the delivery of messages; the calendar with the purchase of a booking
from hold to capture; and the wallet that the captured money goes to.  The section
*Plan* says what comes next.

Paths below are relative to `src/packages/db/src/adapters/` unless they start with
`src/`.  "ADR 0011" is `src/docs/decisions/0011-flows-postgres-execution-authority.md`.

## 1. Inventory of the system

### Flow execution (modelled)

| Component | State | Operations | Works with |
|---|---|---|---|
| Execution runtime: `flows/drizzle-flow-execution-store.ts`, `src/apps/workers/src/flows/flow-execution.processor.ts`, `flow-execution.recovery.ts` | `flow_execution_tokens` (one per run: state, node, activation, attempt, fence, lease), `flow_runs`, `flow_execution_attempts`, `flow_run_events` | `claimNext`, `finalize` (advance, complete, park), `finalizeFailure`, `recoverOneExpired`, two quarantines of poison rows | chart jobs and messaging through requesters; the booking head through the execution context |
| Execution signals (same store) | `flow_execution_signal_waits`, `flow_execution_signal_inbox` | a wait is opened by `finalize`, a signal is stored by `ingest`, `consumeFlowExecutionSignal` joins them | chart and message outcomes arrive through the dispatch outbox |
| Work items: `flows/drizzle-flow-work-item-store.ts`, `-wake-store.ts` | `flow_work_items` (status, revision) | start, snooze, complete; periodic wake sweep | token and run rows; booking reschedules move their deadlines |
| Approvals: `flows/drizzle-flow-approval-store.ts`, `-wake-store.ts` | `flow_approvals` (status, revision, deadline) | decide, snooze; bounded sweep that expires and wakes | token and run rows |
| Run cancellation: `flows/drizzle-flow-run-cancellation-store.ts` | none of its own | owner cancels a run in any state but an external wait or an approval | token, wait, work item |
| Booking lifecycle projection: `flows/drizzle-flow-booking-lifecycle-store.ts` | `flow_booking_lifecycle_heads`, receipts | applies every unapplied canonical event of a booking, in revision order, to the head and all its runs, or defers all | events written by booking commands, dispatches of the outbox |
| Dispatch outbox and relay: `flows/drizzle-flow-runtime-dispatch-outbox-store.ts`, `src/apps/workers/src/flows/flow-runtime.outbox-relay.ts` | `outbox_events` (status, attempts, `locked_at`, fence) | `claimBatch`, publish, defer, retry, quarantine | every producer of flow events |
| Requesters: `flows/drizzle-flow-natal-chart-requester.ts`, `flows/drizzle-flow-messaging-requester.ts`; chart job store | chart jobs per fingerprint, messages per idempotency key | create, join, reuse; create once | called between claim and finalize, in transactions of their own |

What is hard here, and what makes it right:

* several workers, a recovery loop, couriers, sweeps, owners and booking changes
  act on the token of one run; a worker may be arbitrarily late.  *Fences must
  separate claims, each activation must be left once, an ended run must stay
  ended.*
* a claim ends in one of several waiting states; what resumes it is another row
  in another table.  *Token and obligation must agree in every reachable state,
  or the run is stuck or resumes the wrong activation.*
* a signal may come before, while or after its wait is opened.  *They must meet*,
  and do unless the two transactions overlap.
* attempts, retries and recovered leases share one budget.  *A run must come to
  rest, and the runtime must never write a row that it would itself quarantine.*
* a booking changes while its runs are claimed, waiting, or being dispatched by
  several relays.  *Events are applied in order, none is lost, no worker acts
  under a schedule that is not the head's.*
* sweeps work on bounded, stale candidate lists.  *Nothing is settled twice and
  nothing is starved.*

### Messages, bookings and money (modelled)

| Component | State | Operations | Works with |
|---|---|---|---|
| General outbox relay: `outbox/drizzle-outbox-relay.ts` | `outbox_events` (status, `available_at`, `locked_at`, fence) | `claimPending`, `markPublished`, `markPublishFailed` | notification, payment and other workers, each with its own loop |
| Messaging delivery: `src/apps/notification-worker/src/messaging-delivery.*.ts`, `messaging/drizzle-messaging-delivery-processing-store.ts` | `messages`, `message_delivery_attempts`, jobs in BullMQ | create a message, hand it to the queue, call the provider, record the verdict, reconcile an unknown one, take status reports | outbox relay; flow runs wait for its terminal event |
| Booking commands and holds: `scheduling/drizzle-booking-command-store.ts`, `finance/drizzle-order-store.ts` | `bookings`, `schedule_reservations` under an exclusion constraint, `booking_lifecycle_events` | hold, book, move, release lapsed holds, claim a hold for an order, confirm, cancel, complete | checkout; lifecycle projection of flows |
| Checkout and provider operations: `finance/drizzle-client-order-checkout-preparation-uow.ts`, `src/apps/payment-worker/src/provider-operations/` | preparations, provider operations, dispatch events | prepare, ask ArcPay for a session, record the answer or its loss | outbox relay, ArcPay |
| Capture: `src/apps/payment-worker/src/webhooks/`, `finance/drizzle-online-sale-capture-canonical-webhook-uow.ts`, `finance/drizzle-captured-client-order-webhook-claim-port.ts` | webhook inbox with leases and attempts; orders, bookings, wallet in one transaction | store a webhook, claim, apply, record a failure; reconcile pending orders | booking commands, wallet |
| Online wallet: `finance/drizzle-online-wallet-*-uow.ts` | lots and the sources they are split into, wallet head (balances), payout requests, bank exposures and liquidity, refund and chargeback cases | release a hold; request, review, approve, execute, confirm, withdraw a payout; approve and complete a refund; freeze a disputed sale and resolve it | capture; bank and ArcPay through administrators and webhooks |

What is hard here:

* relays die, overlap and time out between claiming an event, handing it over and
  settling it; a provider delivers and its answer is lost.  *A message gets a
  verdict, the run that waits is told it once and truthfully, and only doubt ever
  duplicates a message.*
* a hold lapses on one server's clock and not on another's while its owner orders
  it and somebody else wants the time; release and order lock the same two rows in
  opposite orders.  *No slot is sold twice, and nobody who has a claim loses it.*
* webhook and reconciliation bring the same capture; capture workers outlive their
  leases; answers for one session arrive in any order.  *Order, booking and wallet
  tell one story, captured money pays its order, once.*
* payouts, refunds, releases and chargebacks consume sources of the same lots, and
  the chargeback reads what it has to withdraw before it has the wallet's lock.
  *Balances are what the lots hold, no money is promised twice, disputed money
  stays back, and nothing is held for good.*

### The rest of the platform (not modelled)

| Component | State and hard behaviour | What would make it correct |
|---|---|---|
| Enrollment and enrollment controls | occurrence keys, activation epochs, stop controls; concurrent deliveries of one trigger | one run per occurrence; no run after a stop |
| Flow runtime control, worker readiness | policy revisions (compare-and-set), worker leases and kill switches | a worker never claims under a withdrawn policy |
| Graph compiler and definitions | sequential validation, draft/published revisions | the compiled graph has the edges the runtime takes |
| Messaging webhooks | duplicated and reordered inbound events | an inbound message is stored once |
| Availability | working hours and projections read before a time is asked for | none of its own: the exclusion constraint decides |
| Provider operations of saved cards, tariffs and refunds | as the checkout session | as checkout |
| Notification delivery | login codes through the general relay | as messaging, without a run that waits |
| Chart worker | leased jobs, retries | a job ends once, each run that waits for it is told |
| Sessions and provisioning | second consumer of booking events, provider rooms | a cancelled booking has no live session |
| Client subscriptions, platform billing | renewals, allowances | period charged once, allowance never negative |
| Identity and mobile sessions | refresh rotation, reuse detection, login challenges | one live refresh token per session |
| Calculations, PDF export, astro calendar | job queues of the same shape as chart jobs | as chart worker |
| AI generation | provider calls and usage accounting | usage counted once |
| Media, profiles, products, reviews, clients, verification, dictionary, audit, HTTP applications, web clients, media rooms | record keeping, transport, presentation | ordinary request handling, no protocol of their own |

`PROJECT.json` lists each with its files and the reason for its status.

## 2. Modules

```
FlowRunContract            what a flow run promises (abstract)
      ^ implemented by (KeepsContract)
FlowRuntime  <--- MCFlowRuntime            graphs and symmetry for TLC
      ^-- FlowRuntimeProofs <-- FlowRuntimeSafetyProofs

FlowSignalRendezvous       finalize / ingest, statement by statement
      ^-- FlowSignalRendezvousProofs

FlowDispatchOutbox <-- FlowBookingLifecycle   outbox + projection + one run
                             ^-- FlowBookingLifecycleProofs

FlowApprovalSweep          the bounded sweep over many approvals
      ^-- FlowApprovalSweepProofs

OutboxRelay  <--- MessagingDelivery        relay + queue + provider + verdicts
      ^                 ^-- MessagingDeliveryProofs
      |
      +---------- ClientCheckout <--- MCClientCheckout
BookingSlots <--------'    ^-- ClientCheckoutProofs

OnlineWallet <--- MCOnlineWallet           lots, payouts, refunds, chargebacks
      ^-- OnlineWalletProofs
```

### FlowRuntime: all transactions on a run

One action is one database transaction, with two exceptions.  A transaction that
changes a token locks its row and decides on what it then reads, so these are
serialised per run.  The exceptions are the two that exchange a signal, which look
for each other's rows before they have a row in common:

* `finalize` of a wait has inserted its wait when it looks for a stored signal, and
  the wait is seen by nobody before the commit.  `LookForSignal` is a look in vain,
  `FinalizeSignalWait` the commit.  The token's row is locked in between; a step on
  the token in between makes the finalize stale in the model, as if that step had
  come first.
* `ingest` has inserted its signal when it looks for a wait, before it has locked
  anything of the run.  `IngestSignal` is the insert and the look.  When a wait is
  found both are consumed at once; without one the signal stays `inserted`, seen by
  nobody, until `CommitSignal` or `RollbackSignal`.

| Variable | Rows |
|---|---|
| `token[r]` | `flow_execution_tokens`: state, node, `act` (activation), `attempt` (within the activation), `fence`, lease `owner`; `lease` is `lease_expires_at` against the database clock: `live`, `elapsed`, or `future` when the clock has stepped back behind `claimed_at` |
| `run[r]` | `flow_runs`: status, current node |
| `trace[r]` | `flow_run_events`, each joined with the `flow_execution_attempts` row it refers to (`attempt` 0: none) |
| `wait[r][a]`, `item[r][a]`, `approval[r][a]` | the wait, work item or approval of activation `a` |
| `job[r][a]` | the chart jobs or the message activation `a` has requested |
| `inbox[r]` | signals: `inserted` (not committed), `stored` or `consumed`; `raced` (history): its ingest and a finalize's look for it were under way at the same time |
| `claim[w]` | what worker `w` holds in memory between claim and finalize; `looked`: its finalize is under way and has looked for a signal in vain |
| `booking` | the applied head of the booking behind `BookingRun` |

The pinned graph is the constants `Node`, `Kind`, `Target`, `Expiring`,
`BookingDue`.  A node kind stands for all executors that end in the same kind of
decision: `step` (trigger, condition, tag, note and other nodes that only choose
an edge), `chart`, `message`, `work_item`, `approval`, `terminal`.

| Actions | Code |
|---|---|
| `Claim`, `QuarantinePoisonCandidate` | `claimNext`, `quarantinePoisonCandidate` |
| `RequestChart`, `RequestMessage` | the requesters; they commit before `finalize` and never look at the token |
| `FinalizeTerminal`, `FinalizeAdvance`, `FinalizeWorkItem`, `FinalizeApproval`, `LookForSignal`, `FinalizeSignalWait` | the branches of `finalize`; the last one commits an open wait after a look in vain, or opens a wait and consumes a stored or replayed signal in the same transaction |
| `FinalizeFailure`, `FinalizeStale` | `finalizeFailure`, and both methods' `stale` answer |
| `Abandon` | the process dies, its commit fails, or `finalize` throws |
| `LeaseElapses`, `ClockStepsBack`, `RecoverExpired`, `QuarantineExpiredClaim` | time and `recoverOneExpired` |
| `JobEnds`, `IngestSignal`, `CommitSignal`, `RollbackSignal` | an external outcome, and its delivery: any time later, at least once |
| `WorkItemCommand`, `CompleteWorkItem`, `WakeWorkItem` | owner commands and the wake sweep |
| `SnoozeApproval`, `DecideApproval`, `DeadlinePasses`, `ExpireApproval`, `WakeApproval` | owner commands, the deadline and the sweep |
| `CancelRun`, `BookingCancel`, `BookingReschedule` | the owner's cancellation and the two effects a booking event has on runs |

`LeaseElapses`, `ClockStepsBack`, `DeadlinePasses` and `JobEnds` are the
environment.  A snooze that elapses is not a state: a wake is possible whenever
an obligation is snoozed.  Names in `ParksToken_TokenStatus`, `Advanced_ResetsFence`
and the like are deliberate mutations of the operator before the underscore; they
are used by no specification and serve to show that each property can fail.

### FlowRunContract

What the rest of the platform may rely on: a run is *ready*, *busy*, *parked* or
closed; it leaves its activations one at a time; only a worker completes it; a
closed run stays closed; a worker's hold always ends.  `FlowRuntime!Contract`
instantiates it with the token state mapped to a phase and `act - 1` as the number
of activations left.

### FlowSignalRendezvous

The one place where two transactions of the runtime meet without a common row:
`finalize(wait_signal)` inserts a wait and then looks for a signal, `ingest`
inserts a signal and then looks for a wait.  `FlowRuntime` has the look and the
commit of each among everything else that happens to a run, for the job of that run;
here several runs share a job, and each statement is an action,
under READ COMMITTED: a statement sees what was committed when it started, and
its own transaction's rows; `SELECT ... FOR UPDATE` waits for a locked row and
checks it again.  Runs share one chart fingerprint, so they join, reuse or redo
each other's jobs, and `Rollback` (a crash, or an abort by the database) may hit a
transaction at any statement.  `older[r]` are the waits whose `createdAt` is earlier
than that of run `r`'s wait, and `seen` in `tx` the waits a courier's query has
returned; the oldest of those that still match is locked first.  `before` in `tx`
is a history variable.  Wait,
token and run row of a run are one lock; the code takes them in different orders
in `ingest` and in the cancellation, which PostgreSQL resolves by aborting one of
them, and that is a `Rollback` as well.

### FlowDispatchOutbox and FlowBookingLifecycle

The outbox module has `claimBatch` (due events, exhausted ones quarantined within
the same batch limit), the four dispositions under the fence of the claim, deaths
and lock timeouts.  Fences are only ever compared for equality with the row, so a
claim carries one bit, whether its fence is still the row's.  `FlowBookingLifecycle`
extends it with the booking's canonical events, the handler
(`processBookingLifecycleEvent`: apply the whole chain or defer), and one run of
the booking reduced to what a booking change cares about.

### FlowApprovalSweep

The list: candidates are selected outside any transaction, ordered by deadline and
bounded by a limit; each is then re-checked and settled in its own transaction,
while other workers sweep, owners decide and bookings are cancelled.

### OutboxRelay and MessagingDelivery

`OutboxRelay` is the general outbox with its loop; what an event is about and how
it is handed over is left to the module that extends it.  `held[w]` are the claims
a relay round has not settled; a claim knows only whether its fence is still the
row's.  `MessagingDelivery` composes it with the rest of the way:

| Variable | Stands for |
|---|---|
| `message[m]` | the row: status, whether the provider's id is known, the channel's mode, whether a flow sent it |
| `attempts[m]` | `message_delivery_attempts` (unique on message and number) |
| `terminal[m]` | the terminal event for the run that waits |
| `job[e]`, `worker[p]` | the BullMQ job of event `e`, and what a place in the worker's concurrency has in memory |
| `copies[m]`, `doubts[m]`, `mishaps` | history: deliveries by the provider, answers that left a delivery in doubt, worker faults |

| Actions | Code |
|---|---|
| `CreateOutboundMessage` | message and delivery request in one transaction |
| `ClaimPending`, `Publish`, `HandOverFails`, `Settle`, `RelayDies`, `BecomesDue` | one relay round; the job id is the event's, so a second hand-over does nothing |
| `Pick`, `Send`, `RecordDeliveryAttempt`, `Finish`, `Throws` | `processMessagingDeliveryJob`: load, provider call outside any transaction, verdict in another one, return or throw |
| `WorkerDies`, `Stall` | BullMQ: a job whose lock runs out is handed to another worker, its first one still at work or not |
| `RecordStatusReport` | WhatsApp status webhooks, which overwrite the status |

An answer leaves a delivery in doubt when it is lost, and also when the adapter
reports a failure for a message that was delivered.  The HTTP adapters
(`telegram-business-provider.ts`, `instagram-graph-delivery-provider.ts`,
`whatsapp-cloud-delivery-provider.ts`) report one for every status that is no success,
a 408 or 5xx from a gateway behind the delivery included, and the Telegram Business
adapter also for a success with a body it cannot read.  `FailsInDoubt` allows a hidden
delivery with any of their failures.  The MTProto adapter reports as failures only what
Telegram, or the missing session, answers instead of a delivery; everything else is
*unknown* there.

### BookingSlots and ClientCheckout

`BookingSlots` is the calendar.  A release of lapsed holds locks reservation then
booking, an order booking then reservation: both are split at the statement where
they wait for each other's row (`tx`), and `BreakDeadlock` is PostgreSQL's abort of
either.  Every other command is one action.  `hold[b]` is the expiry against the
clocks of several servers: ahead of all, between them, past on all.
`ClientCheckout` extends it, and `OutboxRelay`, with the purchase:

| Variable | Stands for |
|---|---|
| `order`, `checkout`, `prepared` | orders and checkout preparations, the latter in order of creation |
| `answer[w]` | what a relay's call to ArcPay has come back with and what it had read before the call |
| `payment` | the session at ArcPay |
| `inbox`, `work` | the capture webhook with lease and attempts, and what each worker is working on |
| `tick` | the candidates of the running reconciliation |
| `posted`, `announced` | postings of the sale in the wallet, clients with a purchase event in the outbox |

| Actions | Code |
|---|---|
| `CreateOrder`, `PrepareCheckout` | the order claims the hold; preparation and dispatch event in one transaction |
| `AskArcPay`, `RecordAnswer` | the call outside any transaction; `completeInTransaction`, `markUnknownInTransaction` |
| `AtArcPay` | the client pays, or the session expires |
| `StoreWebhook`, `ClaimWebhook`, `CommitWebhook`, `ReadFails`, `RecordFailure`, `LeaseExpires`, `WorkerDies` | the webhook's way |
| `StartTick`, `Reconcile` | the reconciliation: one read, then one candidate after the other |
| `ApplyCapture` (operator) | the one transaction both end in: posting, order, booking, purchase event, or nothing |

### OnlineWallet

| Variable | Rows |
|---|---|
| `stage[l]` | the sale of root lot `l`: not captured, captured, or *due* (booking completed, hold over, settlement seen) |
| `money[l][q]` | how much of a lot's unconsumed sources lies in place `q`: the root, pending, available or reserved children, a payout, a refund, or gone |
| `head[b]` | the balances of `finance_online_wallet_heads` |
| `candidates` | what the hold release has read and not handled yet |
| `payout`, `exposure`, `liquidity` | payout requests, their bank exposures, the bank's liquidity head |
| `refund`, `dispute`, `victims`, `verdict` | refund and chargeback cases; the payouts a chargeback in progress has locked |
| `overlap[l]` | history: payouts requested while the chargeback of `l` was being recorded |

| Actions | Code |
|---|---|
| `Capture`, `HoldEnds` | the root lot; the condition of a release becomes true |
| `ReadCandidates`, `ReleaseOneRoot`, `ReleaseStops` | `releaseDueOnlineWalletHolds`: a read outside any transaction, one transaction per lot, a round that fails |
| `RequestPayout`, `BeginReview`, `ApprovePayout`, `StartExecution`, `ConfirmPaid`, `WithdrawPayout` | the manual payout |
| `ApproveRefund`, `ConfirmRefund` | the refund reserves its money before ArcPay is asked |
| `ReceiveNotice`, `CommitNotice`, `AbortNotice`, `ResolveChargeback` | the chargeback, split where it waits for the wallet's lock |

Every other command runs under one advisory lock per wallet and is one action.
Sources are taken in the order of random identifiers, so any split of an amount
over a wallet's lots, or over the places of a lot, is allowed: more than the code
does in one run, and all it may do over all identifiers.

## 3. Runs

| Run | Instance | What it shows |
|---|---|---|
| `chart` | 1 run, 2 workers, graph approval with deadline → (approved) chart or (timeout) work item → goal | types; run/token coherence; token/obligation agreement; one departure per activation, in order; the trace ends with the run; fencing; signals meet waits unless their transactions overlap; no run is alive once its booking's cancellation has been applied; ended runs stay ended |
| `message` | 1 run, 2 workers, step → message → goal, full budget of 3 attempts, with fairness | the runtime never poisons itself; attempts settle in fence order; one message per activation; a run comes to rest; the contract is implemented, its liveness included |
| `rendezvous` | 2 runs sharing a fingerprint, 2 couriers, 2 jobs | no signal resumes two runs; of two transactions one of which starts after the other has committed, the later one finds what the earlier one left |
| `race` | 1 run, 1 courier | finding 1 |
| `lifecycle` | 2 relays, batch 2, 3 events, 2 attempts, 2 faults | published means applied; deferrals cost no attempt; a claimed run works under the applied head; every change is applied in the end |
| `completed` | 1 relay, 2 events, 1 fault | finding 2 |
| `sweep` | 2 workers, 3 approvals, limit 2, 1 snooze each, 1 booking cancelled | an approval is settled once; a healthy one is handled in the end |
| `messaging` | 1 message, 2 relay rounds, 2 queue workers, 2 attempts, 1 stall forgiven, 2 faults, one mode whose provider drops duplicates (MTProto) and one that does not (WhatsApp) | the run that waits is told the first verdict, once, and a success only when the provider has the message; duplicates need an answer that hid a delivery or a lost worker; a queued message gets a verdict |
| `reconcile` | the same without faults, MTProto only | finding 3 |
| `checkout` | 1 paid and 1 manual booking, 2 slots, 2 relays, 2 capture workers, 1 fault | a live booking holds its slot and no slot is sold twice; order, booking and wallet agree; closed webhooks and decided checkouts stay so; captured orders are paid |
| `repeat` | 2 paid bookings of one client, 1 relay, 1 worker, no fault | finding 4 |
| `wallet` | 2 sales (2 with 1 held in reserve, and 1), 2 payouts, 1 refund, bank liquidity 2 | balances match lots; a sale written off as lost has nothing left; payouts are covered by lots and bank; disputed money stays back; holds are released in the end |

### Bounds and why they are enough

* `MaxActivation` is the number of nodes on the longest path of the graph: graphs
  are acyclic, so it cuts no step off (3 in both).
* `MaxAttempts` is 3 in the code's retry policy; `message` has the full budget,
  `chart` has 2, which still has a first, a last and a recovered attempt, next to
  far more concurrency.
* Two workers give every race of a stale holder with a new one; a third would
  repeat the second.  Fences and attempts are bounded by the attempts, not capped.
* `MaxRevision` 2 lets an item or approval be snoozed or started once by its owner
  besides the moves of sweeps, bookings and completions, which are not limited by
  it.  `MaxBookingRevision` 2 lets the head move once, `lifecycle` has three
  revisions, so that a chain of two can be applied by one dispatch.
* `lifecycle`: as many faults as attempts, so that an event can be given up; the
  properties that speak of an event that is not given up say so (`faults <
  MaxAttempts`).
* `sweep`: more approvals than the limit, so that a candidate list is never
  complete; one cancellation less than the limit.  With as many as the limit
  (`MaxCancels = 2`) TLC finds the liveness violated, see *Limits*.
* `chart` puts chart and work item on different branches behind the approval: a worker
  that is late with the approval meets the wait or the item that follows it, and a signal
  that is late finds the run at its goal.  With all three in a row the state space is
  several times as large; the theorems are about any graph.
* `chart` has one run: runs of a booking meet only in its cancellation and
  reschedule, which treat each by its own rows.  That all runs of a cancelled booking
  end together is therefore shown by the theorem `CanceledBookingsEndTheirRuns`, for
  any number of runs, and not by TLC.
* `messaging`: two relay rounds and two workers give every overlap of a slow one
  with its successor; two faults let one kind of fault follow another (a relay dies,
  then a worker); two attempts are a first and a last one; one doubtful answer per
  message (`MaxDoubts`) is enough to make every later delivery a doubtful one.
* `checkout`: two slots let a booking be moved away and back; the manual booking is
  the competitor for the time.  One fault, and one attempt per webhook, so that the
  fault can use up the budget and the reconciliation has to make up for it.
* `wallet`: two lots of different size, so that a payout of 2 needs both or the
  larger one, part of the larger is in reserve, and two payouts can exhaust wallet
  and bank.  One refund, because a second one on the same lot is refused while the
  first is under way, and a later one starts from the same state with less money.
* Symmetry is used over workers and runs in `chart` only, whose properties are safety.

`CHECK_DEADLOCK FALSE` is in every configuration: a run that has ended, with an
empty outbox and no due approval, has nothing left to do; nor has a message with its
verdict, a rendered booking, or a wallet that has been paid out.

### Fairness

* `FlowRuntime!Fairness` (run `message`): a lease elapses, recovery and claims are
  polled for by the worker loops (`flow-execution.runtime.ts`), a worker gets the
  answer *stale*.  Nothing is assumed of a worker that holds a claim, so the result
  covers workers that always die.  Nothing is assumed of owners, external systems
  or sweeps either: *at rest* means that the run waits for one of them or has ended.
  The runs' booking head is taken to keep up, which is what `EveryChangeIsApplied`
  shows separately: `claimNext` withholds claims while it lags.
* `FlowBookingLifecycle`: relays poll and settle what they hold, delays pass, an
  expired lease is recovered, and an external effect ends.  The last one is an
  assumption about chart and messaging workers, not a consequence of this code: a
  booking cancellation is deferred for as long as a run waits for an external
  effect.
* `FlowApprovalSweep`: one worker (`Steady`) sweeps periodically and completes its
  sweeps; the others may die.
* `MessagingDelivery`: relay rounds are started by a timer and settle what they hold,
  locks and backoffs time out, BullMQ runs what waits and detects stalls, a provider
  call returns or throws.  Commands, faults and status reports are not owed.
* `ClientCheckout`: the payment worker's interval timers claim webhooks and tick the
  reconciliation, ArcPay redelivers, leases expire.  Nobody has to book, order or pay.
* `OnlineWallet`: the hold release runs on a timer (`startOnlineWalletHoldReleaseInterval`),
  and a chargeback notice is redelivered until it is recorded; both may be aborted
  again and again but not for ever (strong fairness).  Nobody owes a payout, a refund
  or a verdict.

## 4. Proofs

Every theorem holds for all values of the constants: any graph, any number of runs,
workers, messages, bookings, orders, sales and payouts, any number of faults.

| Module | Theorem | Statement |
|---|---|---|
| `FlowRuntimeProofs` | `TypesHold`, `TypeCorrect` | `Spec => []TypeInv`, `Spec => []TypeOK` |
| `FlowRuntimeSafetyProofs` | `RowsStayCoherent` | `Spec => []RunTokenCoherent` |
| | `FencesHold` | `Spec => []FencesSeparateClaims` |
| | `EndedRunsAreFinal` | `Spec => EndedRunsStayEnded` |
| | `CanceledBookingsEndTheirRuns` | `Spec => []CanceledBookingHasNoLiveRun` |
| | `TheRuntimeIsSound` | `Spec => []RuntimeNeverPoisonsItself` |
| | `TracesTellTheEnd` | `Spec => []TraceEndsTheRun` |
| | `ActivationsAreLeftOnce` | `Spec => []OneDeparturePerActivation` |
| | `AttemptsAreSettledInOrder` | `Spec => []AttemptsSettledInFenceOrder` |
| | `TheRuntimeKeepsItsContract` | `Spec => Contract!SafetySpec` |
| | `ObligationsMatch` | `Spec => []ObligationMatchesToken` |
| | `SignalsAndWaitsMeet` | `Spec => []SignalsMeetWaits` |
| | `OneMessageIsSent` | `Spec => []OneMessagePerActivation` |
| `FlowSignalRendezvousProofs` | `RendezvousTypes` | `Spec => []TypeOK` |
| | `EachSignalResumesOneRun` | `Spec => []OneSignalPerResumedRun` |
| | `LaterTransactionsFindTheirMatch` | `Spec => LaterTransactionMatches` |
| `FlowBookingLifecycleProofs` | `LifecycleTypes` | `Spec => []TypeOK` |
| | `PublishedEventsAreApplied` | `Spec => []PublishedMeansApplied` |
| | `DeferralsCostNoAttempt` | `Spec => []DeferralsAreFree` |
| | `ClaimsWorkUnderTheAppliedHead` | `Spec => []ClaimedUnderTheAppliedHead` |
| `FlowApprovalSweepProofs` | `ApprovalsAreSettledOnce` | `Spec => SettledOnce` |
| `MessagingDeliveryProofs` | `DeliveryTypes` | `Spec => []TypeOK` |
| | `TerminalsAreTruthful` | `Spec => []TerminalMatchesVerdict` |
| | `DuplicatesTakeDoubt` | `Spec => []DuplicatesNeedDoubt` |
| `ClientCheckoutProofs` | `CheckoutTypes`, `CalendarIsConsistent` | `Spec => []TypeOK`, `Spec => []CalendarInv` |
| | `LiveBookingsKeepTheirSlot`, `SlotsAreSoldOnce` | `Spec => []LiveBookingsHoldTheirSlot`, `Spec => []NoSlotIsSoldTwice` |
| | `OrderBookingAndWalletStayInStep` | `Spec => []OrderBookingAndWalletAgree` |
| | `ClosedWebhooksAreFinal`, `CheckoutsAreDecidedOnce` | `Spec => ClosedWebhooksStayClosed`, `Spec => CheckoutsStayDecided` |
| `OnlineWalletProofs` | `WalletTypes` | `Spec => []TypeOK` |
| | `BalancesAreTheLots`, `PayoutsStayCovered` | `Spec => []BalancesMatchLots`, `Spec => []PayoutsAreCovered` |
| | `ChargebacksFreezeTheMoney` | `Spec => []FrozenMoneyStaysBack` |

Every safety property that a passing run checks is the statement of one of these
theorems.  The assumptions are the `ASSUME`s of the modules: in `FlowRuntime`, that
the graph is well formed (every edge an executor may choose exists), that the bounds
are positive and that the absence of a claim is not a claim; in the others, that
bounds and amounts are natural numbers, that a paid booking is a booking, and that the
names of payouts, refunds and places are different.  What is counted or added up is
finite: the runs of `FlowSignalRendezvous`, messages and workers of
`MessagingDelivery`, lots, payouts and refunds of `OnlineWallet`.  TLC evaluates all of
them on every run.

### The flow runtime

* *Types.*  `TypeOK` is not inductive: a signal, a completed work item or an expired
  approval moves the token along an edge of the node it stands on, and that edge only
  exists because the node is of the kind the token waits for.  `TypeInv` adds
  `ParkedOnItsKind`: a waiting token stands on a node of that kind, and an approval
  with a deadline belongs to a node with a timeout edge.  There is one lemma per
  action, and under it one step per variable that the action changes.
* *Coherence.*  `RunTokenCoherent` is inductive relative to `TypeInv`.  The proof
  goes run by run (`RowsAgree`): the three ways a token row changes, `Advanced`,
  `Released` and `Claimed`, are each paired with the run row written next to it,
  and `OneRunChanges` lifts a step on one run to all of them.
* *Fencing.*  Every step but `Claim` makes no new lease (`NoNewLease`: a token that
  is claimed after the step was the same claimed token before it, and no fence goes
  down) and no new claim in memory (`NoNewClaim`).  Such a step keeps fences apart,
  whatever else it does (`NoNewLeaseKeepsFences`); `Claim` takes a fence above all
  those in use (`ClaimKeepsFences`).
* *Ended runs.*  Every action looks at the run's status or at a token status that,
  by coherence, only a live run has; what a step does to another run is nothing.
  A cancelled booking ends its runs in the step that applies the cancellation, and
  no step brings a run back to life.
* *What a step does to a run.*  `RunsStep` says that every step of the system treats
  every run in one of seven ways: it stays, is granted, its lease ticks, an event is
  noted, its attempt is settled, it departs, or it is closed.  Each way says what
  becomes of token row and trace and whether the run is over.  The next four results
  follow from the seven ways alone, without another look at the actions.
* *Budget.*  `InBudget` says of every token, not only of the claimed ones
  `RuntimeNeverPoisonsItself` is about, that its attempt is within `MaxAttempts` and
  its fence, is zero while it is runnable and leaves one more attempt while a retry is
  scheduled: the next grant then finds it within the budget, whatever path it took.
* *The trace.*  Traces grow at their end.  `EndsWhen` says that only the last event
  may be an ending; `LeftUpTo` that the departures of a trace are those of the
  activations `1 .. act - 1`, rising; `SettledBefore` that its attempt rows rise in
  fence and lie below the token's, at or below it when it is not claimed.  Appending
  an event preserves each; a wait that is opened and consumed in one transaction
  appends two (`Before`).  Both properties speak of positions of the trace and not of
  a filtered sequence, because nothing can be proved about a recursive filter.
* *The contract.*  The refinement mapping takes a row to its phase and to the number
  of activations left.  A run that is settled, departs or closes maps to a step of
  `FlowRunContract` of that run, everything else but a grant to a stutter; a booking's
  cancellation closes several runs in one step (`CancellationKeepsTheContract`).
* *Obligations.*  `ObligationMatchesToken` alone is not inductive: a worker could park
  on a wait that has already been used.  `Fit` adds that the wait of an activation the
  token has not finished working on does not exist yet, and that an open wait is not a
  replay.  Parking opens the one row, meeting (`MetFits`) and cancelling close it.
* *Signals.*  With `Fit`, a wait that opens is the first of its activation, and a
  signal that is stored without being taken finds no open wait of its generation: an
  open wait means a waiting token and, by coherence, a waiting run, so ingest's
  conditions hold.  What lies between look and commit needs a fact of its own:
  `LookFits` says that as long as a worker that has looked in vain still holds its
  token, every signal in the inbox that its wait could take is marked `raced`; the look marks
  those whose ingest is under way, and an ingest marks its signal while such a worker
  is there.  It survives because a worker that holds its token after a step, with a
  claim from before it, has held it before (`HeldBefore`, from the fences).  When the
  wait is then committed, only raced signals are next to it (`Meets`).
* *Requests.*  A worker that has lost its token can still make its request.
  `ClaimsTrail` says that its claim is not ahead of the token and knows the node of
  the activation it belongs to; so nothing is requested ahead of the token
  (`RequestsFit`), and a second message is refused by the idempotency key.

### Signals and waits, statement by statement

* *One run per signal.*  No two open transactions hold the same signal or the same
  wait (`OneHolder`), and what one holds is as it was when it was locked
  (`TransactionsStand`: the wait still waits, the signal is still stored, or absent
  from everybody's sight but the courier's who inserts it).  A commit then turns
  exactly one signal into a consumed one and resumes exactly one run, so the two sets
  stay equally large (`EqualCounts`).
* *Later transactions.*  `Sight` follows what was committed before a transaction was
  opened: it stays visible until the transaction locks it or ends, so the one that
  ends without a match has seen none that was there before.

### Booking events

`PublishedMeansApplied` needs that a relay's memory is true: a result *published*
that has not been settled is for an event the head has applied
(`PublishedIsApplied`), and the head only moves forward.  `DeferralsAreFree` is an
account: every attempt a row counts, except the one under way, has been paid for by a
fault (`AttemptsArePaid`), because a deferral gives its attempt back.
`ClaimedUnderTheAppliedHead` is inductive by itself, given that a booking is confirmed
first and nothing follows its end (`EventsInOrder`).

### Approvals and messages

* *Approvals.*  An action property alone is not enough, because a sweep acts on a
  list read earlier: `SettledTogether` says that an approval is settled exactly when
  its run has moved, and each settling step looks at both rows again under their locks.
* *Messages.*  A success that is recorded must have reached the provider, but the
  answer travels through the memory of a worker that may have lost its job in
  between.  `SentMeansDelivered` says that a worker that remembers the answer `sent`
  works on an event whose message the provider has; it is kept because an event
  never changes the message it is about (`EventsStay`).  With it
  `TerminalMatchesVerdict` is inductive: whoever records, job or reconciliation,
  records the first verdict and the terminal event in one step.
* *Duplicates.*  `Base` fixes the types and who owns a job: of the workers that have
  one, stalled or not, one is its owner.  `Account` then bounds the copies of a
  message, with those the workers that lost the job may still add and what the job
  still owes (an attempt that is wasted or under way), by the answers that hid a
  delivery, the mishaps and the one delivery that needs neither.
  Only the owner's steps and the faults move the account, and each keeps it balanced;
  that there is one delivery event per message (`DeliversOnce`) is what the relay and
  the unique job id are for.

### Checkout

* *The calendar.*  A booking command first locks the lapsed holds in its way and only
  later ends them and takes the slot, so a transaction relies on facts about other
  bookings that were true when it took its locks.  `CalendarInv` says that they
  still are: a victim stays an active hold of the slot the transaction wants and
  belongs to one transaction only (`VictimsAreLocked`), and a booking that is being
  created, moved or claimed stays in the state it was found in (`HalfWay`).  With it
  `LiveBookingsHoldTheirSlot` is inductive, and with the exclusion constraint
  (`ActiveOncePerSlot`) `NoSlotIsSoldTwice` follows.
* *Money.*  `MoneyInv` adds that a webhook exists only for a captured payment
  (`WebhooksAreOfCaptures`), so that a posting, by the webhook or by the
  reconciliation, always has its capture.  `CompletedIsPosted` then shows that a
  closed webhook leaves nothing to do.
* *Types.*  `Typed` adds the outbox and what relays and workers remember of it: rows
  are never removed, so an event that is remembered exists (`RowsStay`).

### The wallet

* *Sums.*  Balances are sums over sets of lots.  The library's induction theorems
  cannot be used here, but well-founded minimality over the subsets of a finite set
  can (`SubsetInduction`), and gives that a sum is what its recursion says, whatever
  the order (`TotalIsASum`), and how it changes with one summand.
* *Balances and payouts.*  `MoneyInv` says that each balance is the sum of its places
  over all lots (`HeadMatches`), that a lot's places add up to the lot
  (`LotsAreWhole`), that what payouts and refunds claim lies in their places
  (`CoveredByLots`, `ClaimsStand`), and that the bank's liquidity is what it was less
  the exposures (`BankCovers`).  Every command moves equal amounts on both sides; the
  argument is the same for any split over lots and places.
* *Chargebacks.*  The chargeback locks the payouts it will withdraw before it has the
  wallet, and requests may come in between.  `LockedOrLater` says what holds then: a
  payout that holds money of the sale has been locked or was requested since.
  `OneNotice` (the provider account's lock) keeps a second chargeback from forgetting
  the first one's victims.

### What is only model-checked

Liveness, which is out of the prover's reach: `RunsComeToRest`, `EveryChangeIsApplied`,
`HealthyApprovalsAreHandled`, `QueuedMessagesGetAVerdict`, `CapturedOrdersArePaid`,
`HoldsAreReleased`, and the fairness of `FlowRunContract`, that is, `KeepsContract`
beyond the `Contract!SafetySpec` of `TheRuntimeKeepsItsContract`.  The violation runs
are counterexamples and need no proof.

## 5. Findings

1. **Signal and wait can miss each other** (run `race`, `SignalsAreLossless`).
   ADR 0011:301-302 says that signal-before-wait and wait-before-signal are both
   lossless.  When the transactions overlap, neither sees the other's uncommitted row,
   both commit, and nothing looks at the pair again.  `LaterTransactionMatches` is the
   half that does hold.
2. **The completed event** (run `completed`, `HeadCatchesUp`).  The outcome
   `completed` is missing from `receiptOutcomeValues`
   (`flows/drizzle-flow-booking-lifecycle-store.ts:84-92`), so the event is applied,
   refused and rolled back, its dispatch is quarantined and the head stays behind;
   `claimNext` then withholds every run of the booking.
3. **Reconciled messages** (run `reconcile`, `ReconciledMessagesSettle`).  A
   reconciliation is a new job whose attempts count from 1 again, while attempt numbers
   are unique per message: whatever it learns, the insert fails, the message stays
   unknown, and a run that waits for it waits for good.
4. **A client's second purchase** (run `repeat`, `CapturedOrdersArePaid`).  The
   capture inserts a product-purchased event keyed by the client, without a conflict
   clause, into an outbox that is unique on event type and aggregate: the second
   capture of a client aborts each time, by webhook and by reconciliation, and the
   order is never paid although ArcPay has the money.

## 6. What is not modelled, and limits

* Idempotent replay of stored command outcomes (everywhere), queue listings and reads.
* The controlled claim of a registered worker: policy revision, node requirements and
  kill switches narrow the candidates of `claimNext`.
* Node configuration, templates, digests, seals, receipts' contents, wording of errors;
  rows that no command writes (integrity checks against manual edits), except where the
  code has a disposition of its own for them (the quarantines).
* The handlers of the flow outbox other than the booking lifecycle's, and a graph with
  two chart nodes, where a replayed result conflicts with the one replay the inbox holds
  for a token.
* Runs that share a chart job: its one signal is consumed by the oldest matching wait,
  and the other runs wait for good.
* `claimNext` between the snapshot its candidates come from and its locks: the model
  checks the candidate and takes it in one step.
* Approvals of cancelled bookings: the cancellation leaves them open; once due they are
  selected by every sweep, found incoherent and left as they are.  As many of them as a
  sweep's limit keep every later approval from being handled, although ADR 0011:296 has
  the sweeper wake snoozed and expired approvals: `HealthyApprovalsAreHandled` is checked
  below the limit, and fails in `sweep` with `MaxCancels = 2`.
* Hazards that no property covers; `PROJECT.json` has each with its reason: a
  sweep filled by such approvals, exhausted events in a batch, a cancellation deferred for good by an effect that never ends (the
  fairness of `FlowBookingLifecycle` assumes it away, and findings 1 and 3 are effects that
  do not end), the order of status reports, a page of the reconciliation full of orders that
  are never paid, payouts requested between the two locks of a chargeback (excepted by
  `FrozenMoneyStaysBack`).
* A message that was delivered may be reported to its run as failed, when the answer of
  the last attempt was a failure all the same; no document says otherwise.
* A message may be sent for a run that has been cancelled between request and
  finalize.  ADR 0011 accepts that, and no property excludes it.
* Lock cycles between a run's cancellation and the consumption of a signal: PostgreSQL
  aborts one of them, which `FlowSignalRendezvous` has as `Rollback`.
* Messaging: inbound messages, threads and connections; messaging webhooks;
  `markQuarantined`, which no modelled loop calls.
* Calendar: working hours, blocks and the lifecycle revision's compare-and-set.
* Checkout: orders without a booking, `releasePaidBookingPaymentHold` (no caller
  reaches it), overlapping ticks of the reconciliation, conflicts of wallet revisions
  (retried as any failure).  A checkout whose session is unknown is never recovered, and
  its dispatch event is retried for good; the webhook of a session that ended unpaid
  finds no payment attempt and changes nothing, so order and slot stay taken.
* Wallet: maker-checker rules and authorities, reconciliation exceptions, bank snapshots
  and the matching of transfers, stale expected revisions (refused and retried), the
  refund application that no process is wired to.  The model shows, and no property
  excludes, that a won dispute leaves its lot frozen (cases are never reopened, and the
  payout filter ignores resolutions), that what is left of a root after a partial refund
  stays pending, that nothing releases a reserve, and that a withdrawn approval keeps its
  bank exposure.
* Everything in the last table of section 1.

## 7. Plan

Modules, in order:

1. `ChartJobQueue`: leased chart jobs, retries, terminal reports; composed with the
   runtime for a graph with two chart nodes and for runs that share a job.
2. `MobileSessions`: refresh rotation and reuse detection; abstract specification: one
   live refresh token per session.
3. `EnrollmentControl` and `RuntimeControl`: epochs, stop controls, policy
   compare-and-set, worker leases.
4. `SessionProvisioning`: the second consumer of booking events.
5. Provider operations of saved cards, tariff invoices and refunds, on `OutboxRelay`.

Each gets small sets of actors (two of everything that can race), one fault more than
its retry budget where it has one, and a violation run only for a disagreement that
was met on the way.

No safety property of a run is without its theorem.  New modules are to bring
theirs: for `ChartJobQueue`, that a run which joined a job is told its outcome at most
once; for `MobileSessions`, the refinement of one live token per session; for
`EnrollmentControl`, that no run of an epoch is enrolled after its stop.  Of the
existing modules, two facts between components are worth a theorem: that the way a
booking change treats its run in `FlowBookingLifecycle` is the way `FlowRuntime`
does, and that the rendezvous implements the look and commit steps of `FlowRuntime` for
runs that share no job.
