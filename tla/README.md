# FleetFlow API: TLA+ verification

FleetFlow is a logistics backend (NestJS, Prisma/PostgreSQL, BullMQ/Redis). A
merchant places an order, a background worker matches it with the closest
available driver and settles the price, and the driver carries the order to its
destination with photos as proof. This directory holds TLA+ models of that
pipeline, of the notifications that follow it and of the endpoints in front of
it, the TLC configurations that check them on small instances, and TLAPS proofs
about them for every value of the constants.

Paths below are relative to the repository root (`src/orders/...` etc.);
`PROJECT.json` holds the exact map from definitions to source lines.

## 1. The system

| Component | State | Operations | Talks to |
|---|---|---|---|
| Database (`prisma/schema.prisma`) | orders, drivers, merchants' balances, ledger, photos, audit, timeline, notifications, users | one statement or one `$transaction` at a time (READ COMMITTED) | everything |
| Order creation (`orders.service.ts` `createOrder`) | none of its own | balance check; transaction DRAFT → PENDING; add the job | database, then queue |
| Dispatch queue (BullMQ) | one job per order: attempts, lock, stalled count | hand out, complete, fail and retry, reclaim a lost lock | workers |
| Dispatch worker (`matching.processor.ts`) | locals of `process()` | load, MATCHING, find a driver, cancel or settle, notify, broadcast | database, notifications |
| Driver matching (`geo-matching.service.ts`) | none | filter by radius, closest first | worker |
| Settlement and ledger | balance, DEBIT/CREDIT rows | read the balance, then decrement it and write two rows in the transaction | worker |
| Trip progress (`orders.service.ts` `markOrderPickedUp`, `markOrderDelivered`) | status, driver status, audit rows | read, check, decide the proof rule, list photos, write, notify | database, notifications |
| Proof photos (`uploadOrderPhoto`, `photo-storage.service.ts`) | files, photo rows | store the file, insert the row, notify | storage, database |
| Order access (`interfaces/order-access.interface.ts`) | none | who may read which order | trip, listings |
| Notifications (`notifications.service.ts`) | inbox rows, delivery jobs | fan out to driver, merchant, operations; mark read | queue, realtime |
| Realtime stream (`notification-realtime.service.ts`) | Redis subscriptions | publish, subscribe, heartbeat | Redis |
| Pricing (`pricing.service.ts`) | none | base fare + rate × ⌈km⌉ | creation |
| Authentication and guards (`auth/`) | tokens, users, API key | login, JWT or API key, permission checks | controllers |
| Fleet, merchants, users, ledger, health | none | read-only queries and probes | database, Redis |

### What is hard

* **Every handler is a sequence of awaited statements.** It reads rows, decides,
  and writes several awaits later without looking again. Status writes are
  unconditional: `order.update({ where: { id } })`, never with the expected
  status.
* **Two stores.** The order is committed in PostgreSQL and its job added to Redis
  afterwards; the notification rows are written after the settlement.
* **At-least-once delivery.** A job whose lock ran out is handed out again even
  if its first worker is still at work; a failed attempt is retried, up to three.
* **Crashes** between any two statements.
* **Concurrent HTTP requests** for one order, from its driver and from operations.
* **A fan-out is a loop of awaits.** Every recipient's row and every row's job is
  a statement of its own, two handlers of one order fan out at the same time, and
  Redis drops what is published while a stream is still subscribing.
* **Rights change under way.** A token outlives the account it was issued for,
  and list, order and creation each decide by rules of their own who may see what.

### What makes each component correct

* Creation: an accepted order is eventually dispatched; no order is dispatched
  before it is committed.
* Dispatch: a queued job leads to a decision; a completed job means a decided
  order; retries do not undo or repeat a decision.
* Settlement: an order is charged once, exactly if it is shown as PAID; a
  cancelled order is not charged; no merchant goes into debt.
* Matching: a driver carries one order at a time, is ON_TRIP exactly then, and is
  never left ON_TRIP with nothing to deliver.
* Trip: the status follows the lifecycle; every leg is backed by a photo or an
  override reason; a driver acts only on an own trip.
* Photos: a photo row always has a file.
* Notifications: no notice is false, and nobody is left out or told twice; a
  screen that has listed its inbox misses nothing and ends up with the last state.
* Access: what is listed can be opened, an order bills the right merchant, and
  whoever places an order may see it.
* Pricing: a fare covers its route; started kilometres are billed.

## 2. Modules

| Module | What it is |
|---|---|
| `OrderStore` | the rows shared by all handlers, their types and initial values; the matching query |
| `Dispatch` | order creation, the BullMQ queue and `MatchingProcessor.process` |
| `Trip` | photo upload, pickup, delivery, with the access, trip and proof checks |
| `FleetFlow` | composes `Dispatch` and `Trip` over one `OrderStore`; fairness; all properties |
| `OrderLifecycle` | the abstract specification: orders, drivers, funds, no processes |
| `FleetFlowInv` | the inductive invariants of `FleetFlow` |
| `FleetFlowProofs` | types, settlement and charging, for any number of workers and requests |
| `TrailProofs` | photos, audit trail and proof rule, for any number of them |
| `ChargeProofs` | truth of the assignment notice, the number of charges, the ledger's sums and the overdraft, for any number of workers |
| `QueueProofs` | termination and the standing of decisions, for any number of workers; the matching |
| `SumTheorems` | lemmas about sums over finite sets (`SumFunctionOnSet`), minima and maxima |
| `OneWorkerProofs` | what holds with one worker, and the refinement of `OrderLifecycle` |
| `Realtime` | the event streams: open, subscribed, torn down; publication to a user |
| `Notifications` | extends `Realtime`: the fan-out of a handler, the delivery jobs, the inbox |
| `Mailbox` | the abstract specification of inbox and streams: letters, screens, no fan-out, queue or Redis |
| `Pricing` | the fare of a route (pure operators) |
| `Access` | permissions, the merchant of a new order, the list's filter, the rule for one order (pure operators) |
| `Portal` | extends `Access` and `Pricing`: sign-in, tokens, and the requests that quote, place, list and open orders |
| `NotificationsInv`, `NotificationsProofs` | the inductive invariants of `Notifications`; theorems and proofs |
| `PortalProofs` | theorems about `Pricing`, `Access` and `Portal`, and their proofs |
| `MCFleetFlow`, `MCNotifications`, `MCPortal` | instances, views and symmetry for TLC |

Definitions whose comment starts with *Faulty variant* are never used by a
specification. Each is a plausible slip in the operation that follows it (a
dropped status filter, a swallowed error, a lost guard) and serves to confirm
that a property fails when the operation is replaced by it.

### `OrderStore`

`status`, `assignedDriver`, `driverStatus`, `balance` are the columns of the same
names; `debits[o]` and `credits[o][d]` count ledger rows; `photos`, `audit` and
`notices` are sets of rows, by what the properties tell apart (the type of a
photo, who did what with or without photos or a reason, the type of a notice).
Timeline rows are not kept: each is written in the transaction that writes the
same status. Distances and prices are constant tables, so matching is modelled
over whole kilometres; ties between drivers are broken either way since
`findMany` promises no order. `"NONE"` is an order that does not exist yet, and
`DRAFT` never survives the transaction that writes it.

### `Dispatch`

`creation[o]` is the progress of the POST request that makes `o`: each await of
`createOrder` is an action (`CheckFunds`, `PersistOrder`, `EnqueueDispatch`), and
`CreationFails` ends it between any two. `job[o]` is the BullMQ job: its state,
failed attempts, stalls and the worker that owns its lock. `worker[w]` is the
program counter and the locals of one `process()` call; each awaited statement is
an action. A worker that has lost its lock runs on and writes, but cannot move
the job. A thrown error (`JobThrows`) may happen at every statement, as may a
crash. BullMQ itself (`TakeJob`, `JobStalls`, `FinishJob`, `JobThrows`,
`WorkerCrashes`) is outside the repository and modelled from how it is used:
`attempts: 3`, exponential backoff (which only delays), default
`maxStalledCount` 1, concurrency 1.

Inside the settlement transaction the balance read (`ReadBalance`) and the writes
(`Settle`) are separate actions, because READ COMMITTED lets other transactions
commit in between; the writes take effect together at the commit, and the
decrement applies to the committed balance.

### `Trip`

`request[r]` is one HTTP request in flight, with the order's driver as it was
read, the photo type, whether the body gives a reason, and what the proof rule
decided. `ReadOrder` holds all the checks that run on the first read (route
permission, `userCanReadOrder`, `userCanAdvanceTripOrder`, the status, the
assigned driver); the rest of the handler is one action per await. A rejected
request changes nothing, so rejections are guards. `RequestFails` ends a request
between any two steps.

### `OrderLifecycle`

What the pipeline promises: an order moves along
NONE → PENDING → MATCHING → ASSIGNED → PICKED_UP → DELIVERED, or MATCHING →
CANCELLED; it is charged in the step that gives it a driver, from a balance that
covers it; the driver is free at that moment; delivery frees the driver.
`FleetFlow` implements it (`RefinesLifecycle`) under the mapping given by
`Lifecycle` in `FleetFlow`, with one worker, as long as no two requests advance the
same order at once (`AdvancesTakeTurns`). Requests about different orders, and
uploads, may overlap. The API does not enforce that condition; section 5 shows what
happens without it, and `StatusesTurnBackOnlyByPickup` and `NoDriverLeaks` say what
of the lifecycle remains.

### `Realtime` and `Notifications`

The model follows one order. `call[c]` is one handler of it from its commit on:
the worker's move to MATCHING, its two cancellations and its assignment, an
advance of the trip, or a photo. `Plan` gives what that handler then calls, in its
order: fan-outs (`notifyOrderLifecycle`) and broadcasts of `order.updated`. Whether
the handler knows a driver is part of its input (`driven`): a worker that marks an
order MATCHING, or cancels it, passes on the driver it has loaded with the order,
and a redelivered job may load one. The model follows one driver of the order.
`Resolve` stands for a step's user queries and the `Set` that merges them;
`CreateRow` and `EnqueueDelivery` are the two statements per recipient, and
`PublishOrderUpdated` is one publication. Any of them may throw (`CallThrows`),
after which nobody makes the rest: the retried dispatch job finds its order
decided, and an HTTP handler has answered 500 after its commit. That several
handlers of one order are in progress at once is what `Trip` and `Dispatch` allow.

`inbox` is the notification table in insertion order and `delivery[i]` the
`deliver-notification` job of row `i`, with attempts and lost locks. A run of it
awaits nothing but the publication, so it is one step with several outcomes:
published, thrown, or lost before or after publishing (and then published twice).
`FindUnread` and `MarkRead` are the two awaits of `markRead`; `MarkAllRead` is one
statement.

`tab[t]` is a client with an event stream. `StreamForUser` answers `connected` at
once, and `SubscriptionActive` comes some time later; Redis keeps nothing, so an
event reaches the streams that are active at that moment. `known` and `heard` are
what the client has been shown. `ListInbox` reads inbox and order together, as a
refresh of the screen does. Heartbeats carry nothing and are left out. Accounts do
not change here.

### `Mailbox`

What inbox and streams promise together: a user gets no letter twice; a posted
letter stays as it is; what is read stays read; and a screen shows letters to the
user who sits at it and to nobody else. `Notifications` implements it
(`RefinesMailbox`): the letters are the rows without their `readAt` (`Written`), a
screen is a tab, its viewer the user of its open stream, and what it shows are the
rows the client knows (`OnScreens`). A publication to a user is one `Show` on all
of that user's tabs that hear it; fan-out steps that write no row, commits and
deliveries that reach nobody are stutters. `Letters` bounds what may be written by
user, call, step of a plan and type; `LongestPlan` is the length of the longest
`Plan`.

### `Pricing`, `Access` and `Portal`

`Pricing` computes the fare over whole metres; since a distance enters it only
through the number of started kilometres, this loses nothing. `Access` translates
the predicates one by one. Where the code nests conditions, the `CASE` guards are
disjoint. `buildOrderListWhere` takes the first scope that applies, while
`userCanReadOrder` joins them with *or*; the properties compare the two.

`client[k]` is a program that sends one request at a time. Its guards (API key or
token, account read again, permissions) run in the step in which the request
arrives; refusals change nothing. `PlaceOrder` is `createOrder` up to its commit
and `ReplyWithOrder` the read that follows it, which has its own access check; in
between, `OrderAssigned` and `AccountChanges` may happen. `OrderAssigned`
overwrites whatever driver the order has, as the settlement does when a redelivered
job assigns an order again. What createOrder does in detail is the subject of
`Dispatch`. `seen`, `quote` and `as` are what the client's screen shows and whose
screen it is.

Which permissions a role has is decided by a shared package outside the API's
sources, so `PermissionsOf` is a constant; the instance uses the rows that
`test/integration/` shows.

## 3. Runs

`MCFleetFlow`: `o1` costs 3 and `o2` 2; `d1` is 2 km away and `d2` exactly on the
radius of 5 km; the merchant has 4 (`MCScarce`, covers either order, not both), 9
(`MCAmple`, covers both orders and still a repeated charge of either), or either
(`MCScarceOrAmple`).

| Run | Instance | Shows |
|---|---|---|
| `pipeline` | 2 orders, 1 driver, 1 worker, 1 request by operations, scarce or ample balance, 2 attempts, 1 stall | `TypeOK`, `BalanceNeverNegative`, `NotChargedMeansNoDebit`, `CompletedJobIsDecided`, `OneTripPerDriver`, `OnTripIffOnTheRoad`, `RefinesLifecycle` |
| `replicas` | 1 order, 1 driver, 2 workers, 1 request by operations, scarce or ample balance, 3 attempts, 1 stall | `PaidMeansSettled`, `ChargedOnceUnlessStalled`, `DecisionStandsUnlessStalled`, `ChargesNeedRedelivery`, `BooksBalance`, `OverdraftIsBounded`, `DispatchRunsDown` |
| `proof` | 1 order, 2 drivers, 3 users, 1 worker, 2 requests | `ProofBehindProgress`, `DriverActsOnOwnTrip`, `PhotoRowHasFile`, `NoDriverLeaks`, `StatusesTurnBackOnlyByPickup` |
| `dispatch` | 2 orders, 2 drivers, 3 users, 1 worker, 3 attempts (as in the code), 1 stall, scarce balance, no trips, fairness | `CancelledNoticeIsFinal`, `AssignedNoticeIsCharged`, `AccessIsKept`, `QueuedJobIsDecided` |
| `notifications` | 2 calls, 3 users (a driver's; operations who is also the merchant's; an inactive one of the merchant), 1 tab, 1 attempt, list of 1 row | `TypeOK`, `ToldOnce`, `ReturnedCallToldAll`, `ListedTabMissesNothing`, `QuietMeansInSync` |
| `delivery` | 1 call, the same users, 1 tab, 3 attempts, 1 stall, list of 100 rows, operations reads, fairness | `ReadByOwner`, `QueuedRowReachesTabs`, `RefinesMailbox` |
| `portal` | 1 client, 2 users of 2 and 3 possible accounts, 2 merchants, 2 drivers, 2 orders, list of 1 order, routes of 2000 and 2001 m | `TypeOK`, `ShownCanBeOpened`, `BilledByRight`, `CommittedCanBeAnswered`, `FareCoversRoute` |
| `v_notcharged` | 1 order, 1 driver, 2 workers, no trips, ample balance | `NotChargedMeansNoDebit` fails |
| `v_freed` | 2 orders, 1 driver, 1 worker, 2 requests | `AssignedDriverIsOnTrip` fails |
| `v_rollback`, `v_lostjob`, `v_untold` | see section 5 | `FollowsLifecycle`, `AcceptedOrderIsTakenUp`, `AssignmentIsAnnounced` fail |

**Bounds of the pipeline.** Two orders are the smallest instance in which orders
compete for a driver and for a balance. The scarce balance passes both creation
checks and fails the second settlement; the ample one lets the second order have
the driver once the first is delivered, or be cancelled for want of one. Two
workers suffice for a lost lock: one that works on, one that takes the job again.
Two request slots (`proof`, `v_freed`, `v_rollback`) suffice for every race of two
handlers, and a slot is reused, so sequences of requests are unbounded; `replicas`
needs only one, to overwrite the status late. Its scarce balance covers one charge
of the order and not a second, so that two workers that both read it overdraw it;
its properties are proved for any number of orders, workers and requests (finite
where sums are taken). One retry separates "failed and retried" from "gave up";
`dispatch` and `replicas` use the code's three attempts. `MaxAttempts` and
`MaxStalled` are limits of the queue and bound the counters `attempts` and
`stalls`; `debits` and `credits` are bounded through them. No run uses a state
constraint.

**Bounds of the notifications.** Two calls are two handlers whose loops interleave
at every statement; `Calls` bounds `version`, `inbox` and `delivery`, since every
call is made once. The three users cover a recipient who is in two groups, an
actor who is left out of an own fan-out, and an inactive account. A list of one
row is the smallest that hides a row. Retries and lost locks of jobs are in
`delivery`, where the interleaving of calls is not.

**Bounds of the portal.** The two users' accounts cover an admin who has or has
lost a merchant, an active and a deactivated driver partner, and a superadmin
without a merchant: each branch of the access rules. `MaxOrders` is two, one per
merchant, with a list that shows one. The routes lie on both sides of a kilometre.
One client at a time is enough: all its properties relate one client to the
accounts and orders, which change between its steps; they are proved for any number.
The second driver, whom no user drives, is there for orders that are handed on.

**Views.** `audit`, `notices` and `files` are written and never read by an action.
`LiveState` leaves them out in runs whose properties do not mention them
(`TypeOK` mentions them; it is also proved). `ProofState` keeps `audit` and
`files` and leaves out `notices`. `RolesUnread` leaves out the role inside a token,
which no action reads.

**Symmetry.** Workers, request slots, tabs and calls are used only as indices, and
symmetry is used in safety runs only.

**Deadlock.** Deadlock checking is off: the system may stop, once every order has
ended and nobody makes a request.

**Fairness.** `FairSpec` of `FleetFlow` assumes that a worker goes on with its job
and takes a waiting one when idle (the event loop runs every callback, and every
awaited call answers or throws); that BullMQ reclaims a job whose lock nobody
holds (its stalled-job check is periodic); that a creation whose first await has
succeeded goes on; and that a request in flight is served. `FairSpec` of
`Notifications` assumes that a handler which does not throw goes on, and that the
queue hands out some waiting job; how that run ends is left open, so no
publication is forced to succeed. Crashes, errors, lost locks of live workers,
streams and users' requests are never forced. They need no bound in a run:
attempts and stalls bound them.

### Which properties need one worker

With two workers the code does not guarantee `BalanceNeverNegative`,
`NotChargedMeansNoDebit`, `OneTripPerDriver` or `AccessIsKept`; and with two
requests that advance one order at once it does not guarantee `OneTripPerDriver`,
`OnTripIffOnTheRoad` or the lifecycle: section 5. Those properties are checked for
the deployment the documentation describes (a worker in the API process), with
crashes, retries and lost locks. They say nothing of the races of two workers:
`replicas` has what holds there (`OverdraftIsBounded`, `BooksBalance`,
`PaidMeansSettled`, `ChargesNeedRedelivery`), and `v_notcharged` what does not.
`proof` has what holds for trip requests that overtake each other, with one worker.

`pipeline` has one request slot: two, kept from advancing one order together, are
beyond a run of a few minutes. The theorems cover any number of requests.

## 4. Proofs

`FleetFlowProofs` proves, for any finite or infinite sets of orders, drivers,
workers, requests and users, and any limits:

* `TypeCorrect`: `Spec => []TypeOK`, by `TypeInv`;
* `PaidOrdersAreSettled`: `Spec => []PaidMeansSettled`, by `SettledInv`;
* `ChargedOnce`: `Spec => []ChargedOnceUnlessStalled`, by `ChargeInv`.

The assumptions are `StoreAssumption`, `DispatchAssumption` and `TripAssumption`,
which say what kind of value each constant is; TLC evaluates them in every run.

The invariants build on each other:

1. `TypeInv` strengthens `TypeOK`: a busy worker handles an order; a worker about
   to settle has a candidate; a request in flight names a user and an order, and
   a delivery the driver it will free; a lock has an active job; a job that may
   run again has attempts left. Without the last, an attempt could exceed its
   limit.
2. `SettledInv` adds that the order of every trip request in flight was settled
   (`InFlightMeansSettled`). A late pickup or delivery overwrites any status,
   even CANCELLED, and still may only mark an order as PAID that has its DEBIT
   and CREDIT rows. `SettledKept` shows that no step undoes a settlement.
3. `ChargeInv` adds what holds for an order whose job was never handed out twice
   (`stalls = 0`): whoever handles it owns the job's lock and therefore does so
   alone (`LockMeansSole`); before its settlement it is uncharged
   (`UndecidedWhileHandled`); and it has neither row nor job before it is
   committed (`NotYetCreated`). So a settlement is the first, and no status write
   of a worker can hit an order that is charged. Trip requests only move it
   between statuses shown as PAID, by `InFlightMeansSettled`.

The step lemmas split `Next` once per row they are about (`LedgerStep`,
`StatusStep`, `InFlightStep`, `JobStep`, `HandlesStep`, `StallsStep`), so that each
invariant's step has a case per effect and not one per action.

`TrailProofs` (`EXTENDS FleetFlowProofs`), for the same constants, by `TrailInv`:

* `PhotosAreStored`: `Spec => []PhotoRowHasFile`. A request about to insert a row
  has stored its file (`InsertHasFile`), and no step removes one.
* `ProgressIsBacked`: `Spec => []ProofBehindProgress`. A request past the proof
  rule has a photo or a reason that will stand in its audit row
  (`AdvanceHasProof`). A delivery in flight may find any status at its write, but
  it has read PICKED_UP, so the pickup's row exists (`DeliveryAfterPickup`).
* `DriversActOnOwnTrips`: `Spec => []DriverActsOnOwnTrip`. The driver a request has
  read need not be the one at the write, so the claim is kept by the credit, which
  is never undone (`DriverRequestIsOwn`).

`ChargeProofs`, for any number of workers:

* `AssignedNoticesAreCharged`: `Spec => []AssignedNoticeIsCharged`, by `NoticeInv`;
* `RechargesNeedRedelivery`: `Spec => []ChargesNeedRedelivery`, by `RedeliveryInv`,
  a counting argument: the charges of an order plus the workers that may still
  settle it never exceed how often its job was handed out. Handing out a job adds
  a settler; settling turns one into a charge; a stall or a failed attempt comes
  before every further hand-out.

Two more say what stays true of the money when several workers settle at once:

* `LedgerAddsUp`: `Spec => []BooksBalance` for finitely many orders and drivers
  (`FiniteBooks`; a sum over an infinite set means nothing). For every merchant,
  balance + sales is what the merchant started with, where sales are the sum of
  price × DEBIT rows over the merchant's orders; and the CREDIT rows of an order
  add up to its DEBIT rows. `SalesStep` and `CreditsStep` show that a settlement
  moves one term of each sum (`SumMovesByOne`), and `LedgerStep` that nothing else
  touches them. It rests on the decrement being applied to the committed balance:
  computed from the balance that was read (`SettleFromSeen`), it fails.
* `DebtIsBounded`: `Spec => []OverdraftIsBounded` for finitely many orders and
  a finite, nonempty set of workers. The code allows an overdraft, because the
  check and the decrement are two statements; the theorem says by how much. The
  property is not inductive. `OverdraftInv` charges in advance: what every worker
  that has passed its check is about to pay (`Exposure`) is taken off the balance,
  and the rest is at least −(workers − 1) × the largest price. A worker that
  reads the balance enters with a price that the balance read covers, while the
  others are about to pay at most one price each; a settlement turns exposure into
  a charge. `OverdraftIsBounded` follows with the dearest order of the merchant
  (`GreatestOfFinite`). With one worker it is `BalanceNeverNegative`.

`SumTheorems` has the lemmas on sums. The library defines `SumFunctionOnSet` by a
fold over `CHOOSE`n elements and proves nothing about it; `SumTakesAny` shows by
induction over subsets (`SubsetInduction`) that any element may be taken out first,
and the others follow from it.

`QueueProofs`, for any number of workers:

* `DispatchTerminates`: `Spec => DispatchRunsDown`, for finitely many workers. `Rank`
  is a natural number: ten for each attempt and lost lock that is left, nine if the
  job is waiting, and the statements of `process()` that each worker on the order
  has before it. `RankFalls` shows that every step on a queued order lowers it:
  taking a job costs nine and brings eight statements, a retry or a redelivery
  costs ten and brings nine. Workers whose lock has run out count as well.
* `DecisionsStand`: `Spec => []DecisionStandsUnlessStalled`, by `DecisionInv`. As long
  as its job never stalled, the one worker of an order finds the status as it was
  when it read or wrote it (`HandlerIsCurrent`): its lock keeps other workers away
  (`LockMeansSole`), and trip requests touch only orders that are charged
  (`OutsideStep`).
* `ClosestDriverIsFound`: for any finite set of drivers, matching finds one exactly
  if a driver that fits is within the radius, and none that fits is closer.

The liveness property `QueuedJobIsDecided` thereby has two parts proved: the steps
on an order come to an end (`DispatchRunsDown`), and a job that completes there has
decided its order (`CompletedJobIsDecided`, `DecisionStandsUnlessStalled`). That
fairness makes the steps happen is left to TLC.

`OneWorkerProofs` assumes `OneWorker` (any two workers are the same), still with
crashes, retries, lost locks and any number of requests:

* `NobodyOverdraws`, `CancelledAreUncharged`, `CompletedAreDecided`,
  `CancellationsAreFinal`, `AssignmentsAreKept`: `BalanceNeverNegative`,
  `NotChargedMeansNoDebit`, `CompletedJobIsDecided`, `CancelledNoticeIsFinal` and
  `AccessIsKept`. The invariant is `SoleInv`: what the worker has read still holds
  when it writes (`WorkerIsCurrent`), because nobody else touches an undecided
  order or a balance (`SoleOutside`).

* `NoDriverIsLeaked`: `Spec => []NoDriverLeaks`, however trip requests overlap. The
  invariant `NoLeakInv` adds to `SoleInv` what a request may still rely on
  (`RequestFollowsTrip`): whatever overtook it, its order has the driver it read, and
  a delivery that will be written finds the order picked up or delivered. So the
  write that ends a trip frees the driver of that trip. It may do so twice
  (`v_freed`), but no write takes a driver off the road without freeing him.
* `OnlyPickupsTurnBack`: `Spec => StatusesTurnBackOnlyByPickup`, from the same
  invariant: the rollback of `v_rollback` is the only one.

Three theorems have one more hypothesis, `[]AdvancesTakeTurns`: they speak of the
behaviours in which no two requests advance one order at once, with any number of
requests in flight.

* `DriversCarryOneOrder`, `DriversAreFreedByDelivery`: `OneTripPerDriver` and
  `OnTripIffOnTheRoad`;
* `PipelineImplementsLifecycle`: `RefinesLifecycle`.

Their invariant is `RoadInv`: the candidate the worker found is still free, and the
order of a request that advances it is as it was read (`RequestIsCurrent`).
`StepFollows` shows that every step is then a step of `OrderLifecycle` or stutters (a
retry that marks an order MATCHING again, say), and `RoadKept` that steps of
`OrderLifecycle` keep the two properties of drivers; so the refinement carries the
proof of the invariant. Section 5 shows that the hypotheses are needed.

`NotificationsProofs` proves, for any users, roles, relations to the order, events,
calls and streams, and any limits:

* `NotificationsTypeCorrect`: `Spec => []TypeOK`;
* `NobodyIsToldTwice`: `Spec => []ToldOnce`;
* `ReturnedCallsToldAll`: `Spec => []ReturnedCallToldAll`;
* `RowsAreReadByOwners`: `Spec => ReadByOwner`;
* `ListedTabsMissNothing`: `Spec => []ListedTabMissesNothing`;
* `QuietTabsAreInSync`: `Spec => []QuietMeansInSync`;
* `NotificationsAreAMailbox`: `Spec => RefinesMailbox`.

The invariant relates each call to the rows it has made: a call is at a step of its
plan and has only recipients of that step left (`CallsFit`); a row belongs to a step
that its call has reached, and not to a recipient who is left (`RowsFit`); two rows
differ in user, call or step (`RowsDiffer`); whoever has been served has a row
(`ServedHaveRows`); a row's job is queued before its call goes on
(`RowsAreQueued`). A row about to be marked read belongs to its reader
(`ReadingFits`). `PlanCovers` compares the plan of every handler with the rule
`ConcernedBy` that the property states.

The last two theorems are about screens and need `ScreenInv`: a tab knows only rows
that exist and is listed only while its stream is open (`TabsFit`), and a listed tab
that is behind the order is owed news (`BehindIsOwed`): some call has still to tell
its user, has thrown, or has left a row that is not published. `PlanReaches` shows
that every commit owes news to every active user whom it concerns, and
`CallLeavesOwed` and `OwedStep` that no step settles the debt without an event that
the tab hears. That the newest rows of a list make up for an older one it leaves out
(`NewestAreEnough`) rests on the order of the naturals alone (`LeastNatural`, from
the well-foundedness of `<`). `QuietMeansInSync` speaks of the users whom the order
concerns (`Concerns`): nobody else is told, and a driver's users are told of changes
from the assignment on.

For the refinement, each step of `Notifications` is shown to be one step of `Mailbox`
or a stutter. `CreateRow` posts a letter that is not there yet, because two rows
differ in user, call or step (`RowsDiffer`) and a user who is still to be served
has no row of that step (`RowsFit`). Rows are only appended and change nothing but
their `readAt`. What a step adds to a screen are rows of its viewer: `ListForUser`
selects them by user, and an event of a delivery goes to the tabs of its row's
owner (`PublishToUser`). The assumptions are `RealtimeAssumption`
and `NotificationsAssumption`.

`PortalProofs` proves of the fare, for every distance: the billed kilometres are the
distance rounded up (`BilledKmIsCeiling`), a longer route is never cheaper
(`LongerIsNeverCheaper`), and a larger vehicle costs more (`LargerVehicleCostsMore`).
It compares the list's filter with the rule for one order, for every caller: what
is listed may be read (`ListedIsReadable`), and what may be read is listed unless the
caller reads both a merchant's and assigned orders, for whom the filter stops at the
merchant's (`ReadableIsListed`).

It proves every property of the `portal` run for any users, roles,
permission table, accounts, merchants, routes and clients:

* `PortalTypeCorrect`: `Spec => []TypeOK`;
* `ShownOrdersCanBeOpened`: `Spec => ShownCanBeOpened`, by `ListedIsReadable`: what a
  step shows can be opened then, and the right is lost only when an order on the
  screen is handed from one driver to another;
* `OrdersBillByRight`: `Spec => []BilledByRight`;
* `FaresCoverRoutes`: `Spec => []FareCoversRoute`, by `PriceCoversRoute`: what is
  quoted or charged pays for every metre of its route, and for less than a kilometre
  beyond it;
* `CommittedOrdersAreAnswered`: `Spec => []CommittedCanBeAnswered`, if every role
  that creates orders also reads its own or all, and reads all if it manages
  merchants and so may bill any (`RolesReadWhatTheyCreate`). That condition is what
  the API needs of the permission table it does not own.

`TypeInv` strengthens `TypeOK` by what the guards leave on a request: one in progress
has a caller of some account or API key, with that role's permissions, and an idle
client no user. One lemma (`EveryStep`) splits `Next` once, into what a step may do
to orders (`OrdersGrow`: they keep merchant, route and price; the driver may change)
and to a client (`ClientStep`: nothing, begin, place, end); the invariants are shown
from those. Of the scopes that allow a read, all but the driver's survive
`OrdersGrow` (`ReadableUntilReassigned`). The assumption is `PortalAssumption`.

Only model-checked: the liveness properties `QueuedJobIsDecided` and
`QueuedRowReachesTabs` (liveness under fairness is outside the prover's reach), and
that the code breaks the properties of section 5. Every other property of a passing
run is a theorem.

## 5. Where code and documentation disagree

Each has a run that finds a counterexample.

* `v_notcharged`: a dispatch job whose lock ran out is handed to a second worker
  while the first settles; the second finds no free driver, since the first has just
  taken the only one, and overwrites ASSIGNED with CANCELLED. The order shows
  NOT_CHARGED and has a DEBIT row.
* `v_freed`: the second of two concurrent deliver requests frees a driver who has
  been given another order in between: that order is ASSIGNED, its driver AVAILABLE.
* `v_rollback`: a slow second pickup request sets a DELIVERED order back to
  PICKED_UP.
* `v_lostjob`: an order whose job could not be added to the queue stays PENDING
  although the API runs. README.md gives "API must be running" as the remedy.
* `v_untold`: an attempt that fails after the settlement and before its
  notification is retried, but the retry skips the decided order: an ASSIGNED
  order without any ORDER_ASSIGNED row.

The first needs a second API process (or a second worker); the others do not.

More effects have the cause of `v_notcharged`, decisions that are not checked again
when they are written: a redelivered job hands an order from one driver to another,
and the first, who was shown it, is then answered 403 (`ShownCanBeOpened` has that as
its only exception); two workers settle two orders of one merchant against the same
balance read, and it goes below zero, by at most one order for each worker but one
(`DebtIsBounded`); and two workers give two orders to one driver.

Read off the code, without a run:

* `API_SPEC.md:95` bills at least one kilometre; `pricing.service.ts:32` only
  rounds up, so pickup and destination in one place cost the base fare.
* A cancellation for want of funds is announced to merchant and operations but
  `order.updated` is not broadcast (`matching.processor.ts:222-234`), unlike every
  other status change; `UnfundedPlan` shows it.
* `notification-realtime.service.ts:80-85` pushes `connected` before its
  subscription is active. A client that lists its inbox at that signal may miss an
  event; `ListedTabMissesNothing` therefore speaks of lists after the activation.
* The comment at `notifications.service.ts:44-47` has a driver's advance tell the
  web users and an advance by operations tell the driver; the code at `:102-117`
  tells everybody but the actor.

## 6. Not modelled

* The split of a price in the ledger (90 % payout, 10 % fee): prices are multiples
  of 500 rupiah, so the payout is a whole number and its rounding to two decimals
  never bites. The haversine formula: real arithmetic; distances are constants or
  inputs.
* Unread count, `GET /auth/me`, fleet overview, listings of merchants, users,
  ledger and reference data, health checks: read-only queries.
* Passwords, bcrypt and signatures: a sign-in or a token is what it succeeds as.
* `RolesGuard` and `ApiKeyGuard`: pure predicates that no route uses.
* The storage backends. A local file name is made of the order's id and
  `Date.now()`, so two uploads within one millisecond share a file; the model gives
  each upload its own.
* Users' accounts in `FleetFlow` and `Notifications` (they change only in
  `Portal`), vehicles, drivers' positions and the OFFLINE status: no route of the
  API changes them.
* Error formatting, process start, the seed's data, maintenance scripts and
  end-to-end tests.

## 7. Plan

1. Done: the modules of section 2, the runs of section 3, the theorems of section 4.
2. Left to prove: of `QueuedRowReachesTabs` the safety half, as for the dispatch: a
   rank of a delivery job that every run of it lowers, and that a row whose job has
   completed was published; and of `OverdraftIsBounded` that the bound is sharp,
   which is a matter of a run.
3. Left to model: `PhotoStorage`, with file names, the two backends, and an upload
   that overwrites.
