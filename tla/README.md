# A verification project for the ride booking backend

TLA+ modules, TLC runs and TLAPS proofs for the NestJS backend under `src/`
(Postgres, Redis, BullMQ, optional Kafka).  `PROJECT.json` maps each definition
to the lines it models and lists the runs, the hazards and the theorems.

## 1. Inventory

The process is a monolith that may run as several instances.  Nothing holds a
lock across an `await`: shared state lives in Postgres rows (single statements
and short transactions), Redis keys (single commands, some with a TTL) and
BullMQ jobs (at-least-once, three attempts).  So the hard behaviour is what
happens between two awaits.

| Component | State | Operations | Talks to | Correct when |
|---|---|---|---|---|
| Ride state machine | none | assertTransition, canCancel | used by RidesService | only legal moves |
| RidesService, ride endpoints | `rides` rows, outbox rows | requestRide, createRide, transition, arrive, start, complete, cancel, rate | drivers, outbox, matching queue | a ride is a sequence of legal moves, each with its event, each writing only its own fields |
| Matching | `offer:*` and `ride:claim:*` keys, `match-*` jobs | matchRide, offers, handleDriverResponse, finalizeMatch, handleNoDrivers | rides, drivers, event bus | one driver per ride, no ride forgotten |
| Drivers pool | `drivers.status`, geo index, heartbeats | updateStatus, updateLocation, completeRide, findMatchableDrivers | matching, rides, tracking | a driver on a ride is not offered another |
| Outbox, relay | `outbox_events` | write, relayOnce, dispatch | Kafka | every committed event published, per ride in order |
| Payments | `payments`, `rides.paymentStatus`, jobs | initiate, processOrderJob, verify, webhook, refund | Razorpay | one payment per ride, final states stay final |
| Settlement | `drivers.walletBalance` | settleDaily | RazorpayX | every completed ride credited once |
| Promos | usage counters in Redis | validate, redeem, release | requestRide | never more uses than allowed |
| Scheduled rides | `scheduled_rides`, delayed jobs | schedule, dispatch, cancel | rides, pricing | one ride per booking, none after a cancel |
| Fraud guard | duplicate counters | guardRideRequest | requestRide | limits hold under concurrency |
| Pricing, surge | fare configs, demand and multiplier keys | getQuote, calculateFare, recordDemand | requestRide, completeRide | the locked price is the one quoted |
| OTP, tokens, users | OTP keys, refresh tokens, users | send, verify, issue, rotate, revoke | auth endpoints | codes and refresh tokens are used once |
| Tracking gateway | user-to-socket keys, rooms | connect, disconnect, location | drivers pool | a connected user is registered |
| Tracking service | `eta:*` cache | getTracking, getEta | rides, geo, maps | the ETA follows the trip |
| Notifications | dispatch jobs | notify, process | push, SMS and mail providers | one channel's failure spares the others |
| Demo seed | all tables, geo pool | main, `--reset` | | can be run again |
| Ratings, analytics, maps, health, idempotency, event bus | derived or none | | | not modelled, see section 7 |

The hazards, each at its line, are in `PROJECT.json`, with the properties that
would catch them.  One without a property carries a note that says why: usually
the model has the behaviour and nothing in the repository excludes it.

## 2. Modules

| Module | What it is |
|---|---|
| `RideStateMachine` | the transition table and its predicates, pure |
| `RideLifecycle` | abstract specification: what a ride promises its observers |
| `Rides`, `RidesProofs` | RidesService and its endpoints, await by await |
| `Matching`, `MatchingProofs` | the dispatch engine, its worker and handlers composed with `Rides` |
| `PaymentLedger` | abstract specification: what a ride shows follows the money |
| `Payments`, `PaymentsProofs` | PaymentsService, its worker and the gateway |
| `Settlement` | the nightly sweep in several instances |
| `Booking`, `BookingProofs` | requestRide: fraud guard, promo claim, createRide, compensation |
| `ScheduledRides`, `ScheduledRidesProofs` | bookings and their worker, composed with `Booking` |
| `Fares` | the fare, surge and discount arithmetic, pure |
| `Pricing` | demand, cached multiplier, quotes, the price of one ride |
| `MoneyProofs` | proofs about `Pricing` (with `Fares`) and `Settlement` |
| `OutboxChannel` | abstract specification: an at-least-once channel |
| `Outbox`, `OutboxProofs` | the outbox rows and the relay workers |
| `Sessions` | OTP codes, the user's row, refresh tokens |
| `DriverPool` | one driver's row, index entry, cached location, heartbeat |
| `Presence` | the tracking gateway's registry of one user |
| `Seed`, `Notifications`, `Tracking` | the demo seed, the dispatch of a notification, the ETA cache |
| `PlatformProofs` | proofs about `Sessions`, `Presence`, `Seed` and `Notifications` |
| `MCPricing` | fare configs, routes and promos for the model checker |
| `MCRides`, `MCBooking`, `MCPlatform` | behaviours side by side, for one run each |
| `MCMatching` | the cuts `MCMatching.cfg` explores, symmetry |

Definitions named after another with a suffix (`Wins`, `WinsUnkeyed`) are
defective forms of it and belong to no specification.  They show that a
property can tell the code from a plausible mistake.

### Rides

`row` is the rides table, with the columns the properties tell apart: status,
driver, cancellation reason and fee, and whether the final fare is set.  `log`
holds, per ride, the rows the outbox received, in commit order.  A call is a
frame in `call` whose `pc` says which await comes next:

| pc | Code | Action |
|---|---|---|
| (idle) | controller or guard: `getRide`, is the caller allowed | `Begin` |
| `preread` | the use case's own `getRide` (completeRide, cancel, rateRide) | `PreRead` |
| `transition` | `getRide` and `assertTransition` in `transition()` | `Observe` |
| `commit` | `UPDATE ... WHERE status = <seen>` and the outbox insert | `Commit` |

A completion spawns the driver's restore (`restoring`); in `Rides` it just ends
(`RestoreEnds`), in `Matching` it writes the driver's status (`RestoreDriver`).
`late` is the set of rides older than two minutes, which decides the
cancellation fee.  `cancelledBy` is whatever the client sends, as in the DTO.
In `Rides` alone the matching service is any client that asks for MATCHING or
ACCEPTED at any time, which is more than the real one does.

`RideLifecycle` sees a ride as the history of its snapshots.  A step appends one
snapshot whose status is a legal successor (or the same status) and which
changes only the fields that move owns.  `Rides` implements it with
`history <- log`.

### Matching

`Matching` extends `Rides` and adds the drivers' statuses, the offer and claim
keys, the match jobs, and `proc`: one thread per (ride, worker) and per (ride,
driver's accept request).  Both kinds of thread run the same `finalizeMatch`
(actions `FinalizeRead` to `ReleaseClaim`), where they race.

| Code | Actions |
|---|---|
| createRide, second half | `Enqueue` |
| matchRide, dispatchOffers | `MatchRide`, `FindDrivers` |
| dispatchHedged, dispatchSequential, sendOffer | `SendOffer`, `WindowEnds` |
| waitForClaim, handleNoDrivers | `PollClaim`, `NoDrivers`, `CancelPreRead`, then `ThreadObserve`, `ThreadCommit` |
| handleDriverResponse | `Accept`, `Claim`, `Withdraw`, or `Reject` |
| finalizeMatch | `FinalizeRead`, `ThreadObserve`, `ThreadCommit` (twice from REQUESTED), `MarkDriver`, `ReleaseClaim` |
| Redis TTLs | `OfferExpires`, `ClaimExpires` |
| BullMQ attempts, stalled jobs | `Return`, `Throw`, `Crash` |
| an await of a live thread throws: database, Redis, event bus | `AwaitFails`; `CommitUnanswered` when the COMMIT was done |
| `PUT /drivers/status`, driver restore | `SetStatus`, `RestoreDriver` |

`hedged` is chosen once, so each run covers both dispatch modes.  Nothing in the
matching service catches an error, so a thread whose await throws ends there, with what it
has written and set; `CutShort` counts, per ride, the threads that ended before
their time, and notes whether one was between the two moves of `finalizeMatch`.

What is abstracted:

- Which ONLINE drivers are near, fresh and of the right vehicle, and their
  rank, is any subset of the ONLINE drivers, in any order.
- A driver has one accept request per ride in flight.  A rejection's GET and
  DEL are one step; deleting an expired key does nothing.
- The worker's deadline lies five seconds behind the TTL of the offers it sent
  (hedged: TTL + 5 s; sequential: at most three windows of 8 s + 5 s after the
  first offer, the default configuration), so `PollClaim` gives up only when no
  offer of the ride is alive.
- A claim lives 30 s and the steps of a live thread take milliseconds, so a
  claim does not expire under a thread that works on it, unless the fault
  `slow` is in `Faults`.  No run has that fault: the code has no guard against
  it, and the hazard list says so.
- Ratings and the cancellation fee's two minutes are checked in `Rides` and left
  out of the composition's environment.

### Payments, PaymentLedger

One ride.  `pay` holds its rows of the payments table, `order` what the gateway
knows, `webhooks` what it has sent and may send again, in any order.

| Code | Actions |
|---|---|
| initiatePayment: select, insert, `queue.add` | `InitiateCheck`, `InitiateInsert`, `InitiateEnqueue` |
| processOrderJob: gateway order, update; throw; stalled job | `OrderCreate`, `OrderRecord`; `OrderFails`; `WorkerDies` |
| verifyPayment: select and signature, transaction | `VerifyRead`, `VerifyCommit` |
| handleWebhook | `Webhook` |
| refund: select, gateway, transaction | `RefundRead`, `RefundGateway`, `RefundCommit` |
| Razorpay's checkout; an instance dies or its database fails | `Checkout`; `CallDies` |

A select by ride takes any of the ride's rows.  No update looks at the status it
overwrites, and that is modelled as it is.  `webhookPath` is what a deployment does to a
webhook, and `Dropped` which of them are lost:

- `secret`: a webhook secret is configured.  The controller takes the signature from the
  query string (payments.controller.ts:106-114), where the gateway sends none, and
  `handleWebhook` refuses every delivery (payments.service.ts:189-198).
- `unnamed`: no secret.  `handleWebhook` reads `notes.ride_id` (207) while the order job
  writes `notes.rideId` (106), so the webhook names no ride and nothing happens.
- `named`: no secret, and a checkout that puts `ride_id` into the notes itself.

All properties are checked and proved for all three.  Verification is by the
gateway's rule: only a charged order has a signature.  Amounts and the payment events are
left out.

`PaymentLedger` knows which orders were charged and refunded and what the ride shows;
`Payments` implements it with `shown <- ridePaid`.

### Settlement

`sweep` is the sweep each instance is in, `trip` the rides' driver and `completedAt`,
`stamp` the completions under way.  A ride pays its driver 1.

| Code | Actions |
|---|---|
| completeRide: `new Date()`, then the transition | `StampTrip`, `CompleteTrip` |
| the cron: `since` is 24 hours before the moment it fires | `SweepStart` |
| the query; the drivers' rides grouped | `SweepQuery` |
| per driver: read the wallet, write it, the payout | `CreditRead`, `CreditWrite`, `Payout` |
| the loop's end; death or an error anywhere before it | `SweepEnds`; `SweepDies` |

A completion is stamped before it commits, so it may appear after a query whose window its stamp
lies in; a completion repeated on a COMPLETED ride stamps it again.  A sweep starts at the hour or
any time later in its night, in each instance at most once a night, or never.  Nothing resumes one
that died.  The payout moves no wallet money and its failure is only logged, so `Payout` only ends
the driver's turn.

### Booking, ScheduledRides

One rider, one promo, one pickup point.  `request` holds the requests being handled:

| Code | Actions |
|---|---|
| `POST /rides/request` | `Ask` |
| guardRideRequest: three checks side by side, the third a GET and a SET | `GuardVelocity`, `GuardConcurrency`, `GuardDuplicateRead`, `GuardDuplicateWrite` |
| its fail-open path; no fare, route or promo | `GuardSkipped`; `NotFound` |
| redeem: INCR, EXPIRE on the first use, DECR above the limit | `RedeemIncr`, `RedeemExpire`, `RedeemDecr` |
| createRide, its failure, release | `CreateRide`, `CreateFails`, `Release` |
| the COMMIT of createRide is done and its reply lost | `CreateReplyLost` |
| an error or a crash after the guard | `RequestLost` |
| schedule: insert, enqueue | `Insert`, `Add`, `AddFails` |
| dispatch: read, active rides, refuse or create, mark | `DispatchRead`, `CheckRider`, `RefuseBooking`, `MakeRide`, `MarkDispatched` |
| the job throws, its worker dies | `DispatchThrows`, `DispatchDies` |
| cancel: read, update, remove the job | `CancelRead`, `CancelWrite`, `CancelRemove` |

`ttl` is the usage key's time to live.  The first use alone sets it (promos.service.ts:84-85),
so the key may expire under any later request, between its INCR and its DECR, its ride or its
release (`UsageAges`, `UsageExpires`); an INCR or DECR without a key makes one that has no TTL.  A request
is short beside 90 days, so none lasts from the setting to the end.  The ghost `uncounted` is
what the counter then lacks: uses held when the key expired, or given back though their ride exists.

### Fares, Pricing

`Fares` computes in half rupees (every fare is rounded to them), metres, seconds
and quarters of a multiplier, so no fractions are lost.  `Pricing` has
recordDemand's INCR and EXPIRE (`RecordIncr`, then `RecordExpire` or, since its caller swallows
errors, `ExpireFails`), the demand key's window in two halves (`HalfWindow`), getMultiplier's cache,
demand and supply reads (`ReadCache`, `ReadDemand`, `WriteCache`, `QuoteFails`), the price lock of
a live request and of a booking (`LockPrice`, `LockScheduledPrice`) and
completeRide's total (`CompletePrice`) for one cell and one fare config, while
supply and config change.  Two things the code does that a reader may not expect
are modelled as they are: a booking's row stores the multiplier but its
fare omits it (scheduled-rides.service.ts:148), and completion prices the ride
anew, without surge.

### Outbox, OutboxChannel

The events of one ride, which is the key the broker orders by.  `relay` is what each
instance's relay is at, with the rows as it claimed them.

| Code | Actions |
|---|---|
| the ride's transaction: begin, commit with its `write()`, rollback | `BeginTx`, `WriteEvent`, `Rollback` |
| relayOnce: one transaction with SKIP LOCKED | `ClaimBatch` |
| dispatch: send, update, update in the catch | `SendRow`, `MarkPublished`, `MarkFailed` |
| a failed update, a failed update in the catch, a crash | `MarkFails`, `MarkFailedFails`, `RelayDies` |
| two minutes pass since the insert | `GrowOld` |

`createdAt` defaults to `now()`, which is the start of the transaction (migration
003:43), so an event is named by the order of begin and relayed by it, whatever the order of commit
was; `before` remembers the latter.  Two calls on a ride overlap like this when one of them is a
self-transition, which the conditional UPDATE does not refuse.

`OutboxChannel` promises: a committed event waits until it is delivered or given
up, and never vanishes.  It says nothing about order, because the code does not keep it.

### Sessions

One phone number: `code`, `tries`, `tokens` and the calls in `auth`.  sendOtp is
`SendOtp`, `SetCode`, `ResetTries`; verifyOtp `VerifyOtp`, `CountTry`, `DeleteCode`,
`ForgetTries`; the login `FindUser`, `InsertUser`, `IssueTokens`; rotate `Refresh`,
`MarkRotated`, `Reissue` or `RevokeAll`; logout `RevokeToken`.

### DriverPool, Presence, Tracking, Notifications, Seed

- `DriverPool`: a driver on a line moves one place per tick.  The status call is `ChangeStatus` and
  `RemovePosition`, the restore `Restore` and three `RestoreStep`s, a ping
  `AcceptPing` and three `PingStep`s or `RefusePing`.
- `Presence`: handleConnection is `Connect`, `GetPrev` (or `GetFails`), `NoPrev` or `Kick`,
  `SetRegistry` (or `SetFails`, applied or not) and `NameSocket`, which gives the socket the
  userId that handleDisconnect looks for; that is `HandleDisconnect` or `DelFails`.  The gateway has
  a namespace, so `this.server.sockets` is the Map itself and the look-up of another socket
  throws: `Kick` ends in the catch, which disconnects the new socket.
- `Tracking`: a view is `GetTracking`, `GetEta`, `CacheEta`.
- `Notifications`: a job is `Notify`, `StartNote`, then `ChannelSends` or
  `ChannelFails` per channel, and `FinishNote`.
- `Seed`: one action per database or Redis step of the script, `SeedDies` between
  any two, and use of the accounts between runs (`RiderSaves`, `RiderRegisters`, `DriverComes`,
  `DriverPings`, `DriverGoes`).  `--reset` deletes users, and with them their drivers rows and saved
  places; it never touches Redis, so the ids stay in the geo pool (`former`).

### Side by side

`MCRides`, `MCBooking` and `MCPlatform` check several behaviours in one run.  A
variable `part`, chosen in the initial state and never changed, says which of them
moves; variables of the others keep their initial values.  The state spaces add up instead of
multiplying.

- `MCRides`: the calls on a ride, the payment of a ride, the nightly settlement; they share no
  variable, so a behaviour of one is a behaviour of the whole.
- `MCPlatform`: relays, login, sockets, seed, notifications, ETA cache, driver pool; likewise.
- `MCBooking`: live requests; bookings beside one live request (`asked' <= 1`); the
  price.  Bookings and requests share the rider's rows, but all of both at once are too many
  states: two requests race in the first part, a booking races with a request in the second.

`MCMatching` needs no such variable.  Its action constraint `LifeOrCuts` keeps apart what together is too
many states: with hedged dispatch a ride has its whole life and its worker may die once; with sequential
dispatch either it has its whole life and no thread is cut short, or it is cancelled at most and up to
`MaxCuts` threads, workers or handlers, die or throw at any await.

## 3. Properties and runs

| Run | Checks | Shows |
|---|---|---|
| `rides` | `TypeOK`, `SettledByItsMove`, `RestoresFollowCompletion`, `LifecycleSpec`; `PayTypeOK`, `RefundsAreBacked`, `LedgerSpec`; `BooksBalance` | two concurrent calls of any kind on one ride; payments under retries, crashes, repeated, reordered and refused webhooks; two instances sweeping, late, half-way or not at all |
| `matching` | `MTypeOK`, `ClaimGuardsAcceptance`, `RestoresBelong`, `NoRideAbandoned`, `AssignmentIsFinal` | dispatch with failed enqueues and restores, threads that die or throw at any await |
| `matching_live` | `EveryRideDecided`, `ClaimIsHonoured`, `LifecycleSpec` | dispatch without faults, under fairness |
| `booking` | `SchedTypeOK`, `ActiveRidesBounded`, `OneRidePerBooking`, `PromoNeverOverused`, `UsesAccountedFor`, `BookingsSettle`; `PriceTypeOK`, `LoneRequestNeverSurges`, `SurgeSubsides` | concurrent requests and bookings of one rider, usage keys that expire under them; a price from quote to completion |
| `platform` | `OutboxTypeOK`, `NoEventLost`, `OrderedWhileCalm`, `ChannelSpec`; `AuthTypeOK`, `OneLiveTokenWhileSerial`; `PingingDriverComesBack`; `ConnectedIsRegistered`; `SeedRepeatable`; `RepeatsOnlyAfterCrash`, `EveryChannelTried`; `EtaCatchesUp` | the services that share no state |
| `rides_double_apply` | `NoDoubleApply` (violated) | two cancels both succeed: CANCELLED to CANCELLED is no conflict |
| `matching_accepted` | `OneAcceptance` (violated) | two drivers told they have the ride |
| `matching_booking` | `NoDoubleBooking` (violated) | one driver, two rides at once |
| `matching_crash` | `EveryRideDecided` (violated) | a crash after MATCHING strands the ride |
| `payments_double_charge` | `NoDoubleCharge` (violated) | two initiations, two orders, both charged |
| `outbox_order` | `OrderedPerAggregate` (violated) | overlapping transactions, a refused send or a second relay: a later event overtakes |
| `pricing_config` | `ConfigIsLocked` (violated) | a fare config replaced during a ride is charged at its end |

The seven violated properties are sentences of the repository; `PROJECT.json`
quotes them under `findings`.  They share causes worth naming:

- `assertTransition` returns for `from === to`, and the conditional UPDATE then
  matches its own status.  The rating relies on this, and repeated arrivals,
  starts and cancellations get it too.
- The claim key protects the time until ACCEPTED (`ClaimGuardsAcceptance`) and is
  then deleted while other offers live on.  The state machine still keeps the
  ride's driver (`AssignmentIsFinal`), but the late acceptor is told `true`.
- `matchRide` returns unless the ride is REQUESTED, so a retry cannot resume a
  half-done `finalizeMatch`.
- `initiatePayment` checks and inserts two awaits apart, with no constraint, and
  the idempotency interceptor that would stop a repeated request is applied nowhere.
- Events are relayed by the start of their transaction, and one whose send failed goes back
  to PENDING while its relay, or another one, goes on with later events of the same ride.
- `completeRide` prices with the config of the moment; a ride stores none.

The models have more behaviour that a sentence of the repository contradicts and that no run
singles out.  Each is at its line under `hazards`:

- the payment webhook is refused or dropped in every deployment but `named`, though
  payments.controller.ts:99 calls it verified, and where it is processed a repeated `captured` puts a
  REFUNDED payment back to COMPLETED, though ADR.md:95-96 says that it is deduplicated;
- a ride in two sweeps' windows is credited twice, one in none never, and a failed payout is in no
  later window, though settlement.service.ts:27-28 says it is retried;
- completion charges no surge, though rider_driver_api_flow.md:182 says that the quoted one applies;
- the demand counter holds older requests than its window's under steady traffic
  (surge.service.ts:19), and quotes that miss the cache together differ (line 63);
- two overlapping refreshes with one refresh token both succeed (token.service.ts:24);
- the last socket of a user is the one turned away (tracking.gateway.ts:50);
- `--reset` leaves the deleted drivers' ids in the pool the matcher asks (seed.ts:7).

Some properties are weaker than one would wish, because the code is:

- `NoRideAbandoned` does not say that a ride is always decided: it names the two ways a ride is given
  up, all attempts cut short, or one thread cut short between the two moves.
- `ActiveRidesBounded` allows the limit plus the requests in flight, and one per
  fault: the check precedes the insert.
- `PromoNeverOverused` counts the rides in a life of the usage key and allows `uncounted` more;
  `UsesAccountedFor` balances the counter up to `uncounted` and one lost use per fault.  The
  counter may go below zero.
- `OneLiveTokenWhileSerial`, `ConnectedIsRegistered` and `OrderedWhileCalm` hold as long as nothing
  overlaps: refreshes of a login, connections of a user; relays, and transactions of a ride.
- `BooksBalance` ties the wallets to the credits written, not the credits to the rides.
- `LoneRequestNeverSurges` is about the configured threshold: with the default of 1.5 a
  multiplier above 1 takes two recorded requests, even where no driver is near.
- `SurgeSubsides` excepts a run in which the EXPIRE of the last requests was lost: that demand key
  has no TTL, and the cell surges for good.
- `LedgerSpec` speaks of what the ride shows: the payment row itself may end FAILED
  after COMPLETED, when a late webhook of a failed attempt comes in.  A webhook that repeats
  after a refund is a step the ledger allows.

Other behaviour seen in the models that no sentence of the repository excludes: a
booking cancelled while its dispatch runs can still become a ride; an EXPIRE lost
after the first INCR leaves a usage key that never expires; re-seeding puts drivers
in use back to ONLINE; a rejected `queue.add` leaves a payment row that
blocks every later initiation.

**Bounds.**  One ride and two drivers: rides share nothing but drivers, and two
drivers are what a race for one ride takes.  The double booking needs two rides and
one driver.  `rides` has two calls in flight, because every property relates at most
two racing calls, and seven events: the six of a full trip and one that must
not be there.  Two payment rows and two calls are what a race of initiations or of two refunds takes; two
attempts are the smallest retry, and one crash makes a second order for one
payment.  Two instances, two drivers and two settled rides make a sweep that dies between two
drivers, or overwrites another's balance; four ticks, two a day, are two nights and an hour in each that
is late.  `MaxStamps = 1`: the settlement's rides complete once
each in the run; repeated completions are left to the proof of `BooksBalance`.

`matching` bounds events at six, one full trip, and lets one ride
operation be in flight beside up to three matching threads.  Two attempts are the smallest retry,
and two cuts use them up, or stall a job twice.  `matching_live` has the queue's three attempts.
`MaxEvents` counts calls in
flight too, so a call that began always can commit.

`booking`: limits
of 1 and 2 are reached by three requests, two at a time, with one fault; the routes
and configs of `MCPricing` lie at rounding boundaries (4996 m is stored as 5.00 km, 750 s as 13
minutes) and on both sides of the minimum fare.  `platform`: two relays, two events and
batches of two overlap in every way; three sockets are one more than a pair that
overlaps; two
drivers let the seed die between two of them; locations live two ticks, so a
lagging clock and an expiry both happen.  `MaxSent`, `MaxTokens`, `MaxDemand`, `MaxAsked`,
`MaxChanges`, `MaxSaved` and the fault bounds cap counters and are named in the
modules; everything that makes a counter grow is a client or a fault, and may stop.

Symmetry (drivers, calls, instances, settled rides) is used where only safety is checked.
Runs set `CHECK_DEADLOCK FALSE` where nobody has to call anything or clocks and
counters are bounded; each cfg says so.

**Fairness** (`FairSpec`): a live worker, handler or thread takes its next step,
the queue hands out the jobs it holds, and an offer's TTL runs out.  The event loop,
BullMQ and Redis give exactly this to a process that does not crash.  Nobody has to
answer an offer, and no ride operation has to arrive.

The other specifications with fairness, each the least its liveness property needs:

| Fairness | Assumes | Justified by |
|---|---|---|
| `OutboxFairness` | a live relay goes on; two minutes pass | the interval timer of every instance; the broker may refuse every send |
| `DispatchFairness` | a booking's job goes on, or throws | BullMQ; every await of dispatch may throw, three attempts |
| `PriceFairness` | calls end, keys that have a TTL expire | the event loop, Redis; whether an EXPIRE succeeds is not assumed |
| `PoolFairness` | the app pings when its position is plausible, calls end, time passes | the app's timer |
| `NotesFairness` | a queued job goes on | BullMQ, at most `MaxNoteCrashes` deaths |
| `TrackFairness` | views are answered, the ETA expires | the event loop and the key's TTL |

## 4. Proofs

`RidesProofs` proves, for any sets of rides, drivers, calls and reasons and any
`MaxEvents`, from `RidesAssumption` alone:

| Theorem | States |
|---|---|
| `TypeCorrect` | `Spec => []TypeOK` |
| `SettledCorrect` | `Spec => []SettledByItsMove` |
| `RestoresCorrect` | `Spec => []RestoresFollowCompletion` |
| `Refinement` | `Spec => LifecycleSpec` |

All rest on `Inductive`, `Spec => []IInv`.  `IInv` adds to the properties what
the code relies on silently: the last event of a ride is its row
(`EventsMatchRow`); a call about to commit has seen a status from which its
move is legal; a rating past its read has seen a COMPLETED ride, which is
terminal, so it still is; and only a completing call carries a driver to
restore (`CallOK`).  With these a commit that wins writes a legal successor of
the current row, which is the refinement step; one that loses stutters.

`MatchingProofs` proves about the composition, for any number of rides, drivers,
calls, attempts and crashes and any set of faults without `slow`:

| Theorem | States |
|---|---|
| `MTypeCorrect` | `MSpec => []MTypeOK` |
| `ClaimCorrect` | `MSpec => []ClaimGuardsAcceptance` |
| `RestoreCorrect` | `MSpec => []RestoresBelong` |
| `AssignmentCorrect` | `MSpec => AssignmentIsFinal` |
| `MRefinement` | `MSpec => LifecycleSpec` |
| `NobodyAbandoned` | `MSpec => []NoRideAbandoned` |

They rest on `MInductive`, `MSpec => []MIInv`.  Why a ride gets one driver: while
it waits, everyone who finalizes it works for the claim's holder
(`ClaimGuardsAcceptance`), so whoever wins the move to ACCEPTED writes the driver
that every other finalizer carries; and whoever is still about to ask for
ACCEPTED after that carries the ride's own driver (`ThreadOK`), so the
self-transition that `assertTransition` lets through rewrites the same value.
The claim survives that long because a thread deletes it only after ACCEPTED and
because it does not expire under a live thread, which is where the assumption on
`slow` enters, at `ClaimExpiresStep` and nowhere else.  `RideIsKnown`,
`DriverFollowsStatus` and `CallersOnlyOperate` are the facts of the rows and the
callers this argument needs.  The steps are proved by frame lemmas: `ThreadMoves`
and `ClaimMoves` for a thread that works on keys, `RideMoves` and `RowMoves` for a
transaction, which reuse `WinningCommit` and `WinRefines` of `RidesProofs`.

`NobodyAbandoned` needs `SomeoneDecides` besides.  While a ride is REQUESTED, no thread that has
read it holds anything but REQUESTED, so none can lose a race, fail an assert or return: its job
ends only by threads that are cut short, and `JobRuns` says that attempts and stalls
never outnumber those.  The thread that makes the ride MATCHING is from then on the one that
decides: it goes on to ACCEPTED in the same call, and its move fails only if another
move out of MATCHING was faster, which is a decision too.  If that thread dies or throws there, its
COMMIT's reply lost included, the ride stays MATCHING, which is what `cut.deciding` records and
`matching_crash` shows.  Two
facts look incidental and carry the argument: a job exists only for a ride that does,
so a created ride never meets a finished job, and the riders' and drivers' own calls
never write REQUESTED or MATCHING.

`PaymentsProofs`, for any number of rows, calls, attempts and worker deaths, from
`PaymentsAssumption`:

| Theorem | States |
|---|---|
| `PayTypeCorrect` | `PaySpec => []PayTypeOK` |
| `RefundsCorrect` | `PaySpec => []RefundsAreBacked` |
| `LedgerRefinement` | `PaySpec => LedgerSpec` |

`PayIInv` says why: whatever is about to show money, or is recorded as a row's
transaction, is an order of that same payment; a call about to commit has seen it
charged, or has had it refunded; and money only moves on, so what a call has seen stays
true however late it writes.  A "captured" webhook exists only once something was
charged, which is all a webhook needs.

`BookingProofs`, for any number of concurrent requests, any limits and any number
of faults, from `BookingAssumption`:

| Theorem | States |
|---|---|
| `BookTypeCorrect` | `BookSpec => []BookTypeOK` |
| `PromoLimit` | `BookSpec => []PromoNeverOverused` |
| `UsesBalanced` | `BookSpec => []UsesAccountedFor` |
| `ActiveRidesLimit` | `BookSpec => []ActiveRidesBounded` |

`BookIInv` counts.  `UsesAccountedFor` bounds the counter from below by the rides and
requests that hold a use, less those it was made to forget (`uncounted`), so a request that finds its
INCR within the limit makes
`UsesAllowed` true again: used and held uses together exceed the limit by `uncounted` at most.  When
the key expires all counts start over, and `uncounted` becomes the uses requests hold at that
moment, so an expiry in flight needs no exception.  (With a
limit of zero the first claim has still to find out that it is refused, after its EXPIRE.)  For the
active rides, `PlacesCounted` adds the requests past the third check to the rides there are: the
check passes only below the limit, and the rest is how many requests can be past it at
once.  The cardinality steps are lemmas at the head of the module.

`ScheduledRidesProofs`, for any number of bookings beside any number of requests, from
`ScheduledAssumption` and `BookingAssumption`:

| Theorem | States |
|---|---|
| `SchedTypeCorrect` | `RiderSpec => []SchedTypeOK` |
| `BookedRideIsOne` | `RiderSpec => []OneRidePerBooking` |
| `LimitsHoldBesideBookings` | `RiderSpec => [](PromoNeverOverused /\ UsesAccountedFor /\ ActiveRidesBounded)` |

`SchedIInv`: a job about to create a ride has none of its booking under way, nobody
else makes one, because a booking has one job and a job one worker, and a booking
without a row has no job.  The steps of bookings leave the requests' accounts alone, so
`BookIInv` is kept by them and the limits of `BookingProofs` carry over.

`OutboxProofs`, for any number of relays, events, batch sizes, attempts and faults, from
`OutboxAssumption`:

| Theorem | States |
|---|---|
| `OutboxTypeCorrect` | `OutboxSpec => []OutboxTypeOK` |
| `NoEventIsLost` | `OutboxSpec => []NoEventLost` |
| `OrderedWhileNothingFails` | `OutboxSpec => []OrderedWhileCalm` |
| `ChannelIsSafe` | `OutboxSpec => Channel!SafeSpec`, the safety part of `ChannelSpec` |

`OutboxIInv`: a row is PUBLISHED only after its event was handed over and FAILED only
with its attempts used up, and whoever holds a row read it with an attempt left, so a
late failure can write FAILED only with all attempts counted.

The order takes more, `CalmIInv`.  `calm` says that nothing failed, no relay claimed while another
held a batch and no two transactions of the ride overlapped; each of the three breaks the order by itself
(`outbox_order`).  While it lasts, who commits began after all who committed (`CommitsInOrder`), so the order
of createdAt is the order of commit; one relay works at most, the rows that
are PROCESSING are exactly those of its batch, everything before them is PUBLISHED and
everything after them PENDING.  So the next row it sends is the oldest one not handed
over, and the broker's sequence stays ascending.

`PlatformProofs` is about the services that share no state, each for any value of its
constants, from the assumption of its module:

| Theorem | States |
|---|---|
| `AuthTypeCorrect` | `AuthSpec => []AuthTypeOK` |
| `OneTokenWhileSerial` | `AuthSpec => []OneLiveTokenWhileSerial` |
| `ConnectedAreRegistered` | `PresenceSpec => []ConnectedIsRegistered` |
| `SeedIsRepeatable` | `SeedSpec => []SeedRepeatable` |
| `NotesRepeatOnlyAfterCrash` | `NotesSpec => []RepeatsOnlyAfterCrash` |

- `AuthIInv`: while refreshes of a login do not overlap, the one under way holds the
  login's only live token until it marks it, and after that the login has none until the
  next is issued.  A new login's number is above those of all earlier tokens, so its
  first token shares its login with none.
- `PresenceIInv`: as long as no connection began beside another's handler, the one handler that
  runs has found nobody registered, because whoever is up, or has its DEL still to do, is
  registered.  So its SET hides nobody, and no DEL of an earlier socket is left that
  could remove it.
- `SeedIInv`: each stage of a run has what the stages before it made.  Nothing but a new
  run takes that away before the run has ended: the accounts are used between runs only.  What
  else the geo pool holds is no part of it.
- `NotesIInv`: a channel still to be tried has been sent at most once per crash, and a
  job that waits has all its channels to try.  A job never runs twice without a crash,
  because each provider's failure is caught and the job itself does not throw.

`MoneyProofs` is about what a ride costs and what its driver is paid.  For any fare
configs, routes, promos, threshold, step and maximum (`PricingAssumption`: they are
natural numbers, the step is not zero and the maximum is 1 or more), and for any number
of instances, drivers, rides and ticks of a day (`SettlementAssumption`: finitely many
rides):

| Theorem | States |
|---|---|
| `PriceTypeCorrect` | `PriceSpec => []PriceTypeOK` |
| `ALoneRequestNeverSurges` | `PriceSpec => []LoneRequestNeverSurges` |
| `TheBooksBalance` | `SettleSpec => []BooksBalance` |

`PriceIInv`: a call never carries more demand than was recorded, so a multiplier above 1
is backed by requests that were made (`SurgeBounds`, the arithmetic of `Surge`, products of
unknowns that the solver is led through by steps of their own).

`SettleIInv`: a balance a sweep has read is covered by the credits written so far, and is the
wallet's own as long as sweeps are alone (`ReadIsCovered`, `Alone`); and a sweep pays only for rides that have a
row with a driver (`NetsFit`), so what it adds to a wallet is what it adds to the
credits.  Nothing in it depends on when a sweep starts, whether it ends or which rides its window holds.

Only model-checked:

- all liveness (`EveryRideDecided`, `ClaimIsHonoured`, `BookingsSettle`,
  `SurgeSubsides`, `PingingDriverComesBack`, `EveryChannelTried`, `EtaCatchesUp`, and
  `Decided` inside `ChannelSpec`), which rests on fairness and ENABLED;
- with them `DriverPool` and `Tracking`, whose properties are liveness.

Every safety invariant and every action property of a passing run is stated by a theorem.

## 5. Plan

What remains, in this order:

1. Safety statements worth proving behind the liveness ones: what the location cache of
   `DriverPool` and the ETA cache of `Tracking` can hold at any moment.
2. What holds without the assumption on `slow`: `MIInv` without `ClaimGuardsAcceptance`
   should carry `MTypeOK` and `NoRideAbandoned`; `AssignmentIsFinal` cannot hold when a
   handler outlives its claim.
3. The tracking gateway's rooms: what is broadcast to whom while a ride changes hands.
4. Cancellation and matching composed with bookings, where a ride made by a booking
   is dispatched like any other.

## 6. How to run

    tlc -config MCRides.cfg MCRides.tla
    tlc -config MCMatching.cfg MCMatching.tla
    tlc -config MCBooking.cfg MCBooking.tla
    tlc -config MCPlatform.cfg MCPlatform.tla
    tlc -config MCMatchingLive.cfg Matching.tla    # also MCMatchingAccepted, ...Booking, ...Crash
    tlc -config MCRidesDoubleApply.cfg Rides.tla
    tlc -config MCPaymentsDoubleCharge.cfg Payments.tla
    tlc -config MCOutboxOrder.cfg Outbox.tla
    tlc -config MCPricingConfig.cfg MCPricing.tla
    tlapm RidesProofs.tla                          # also Matching, Payments, Booking, ScheduledRides,
                                                   # Outbox, Platform and MoneyProofs

`PROJECT.json` names the module and configuration of each run.

## 7. Not modelled

- Event bus: a producer without state; nothing in `src/` consumes what it
  publishes.  Its success and its failure are the choices of `SendRow`.
- Ratings: an average computed on reading.  Its only caller asks for `'RIDER'`, so the
  update of the driver's rating in it never runs.
- Idempotency interceptor: no controller applies it.
- Maps: outside services with a cache of their answers; a route is a constant of
  `Pricing`.
- Analytics and health: read-only queries.
- Configuration, schema, migrations, bootstrap: declarations and start-up code.  Their
  shapes are the row types of the modules, their values the CONSTANTS.
- Tracking gateway: what is sent to a ride's room changes no state.
- Listing endpoints, DTO validation, logging, amounts of payments, texts.
