# WashFlow: a TLA+ model of its core

WashFlow is a multi-tenant car-wash management system: a NestJS API over
PostgreSQL and Redis (`src/src`), a staff application with the public booking
page (`src/frontend`), a booking widget (`src/frontend-booking`) and a set of
queue jobs. This directory models the parts where concurrent requests, retries,
failures and late answers decide whether the data, or what a person sees and
sends, stays correct. TLC checks the models on small instances; TLAPS proves the
central properties of reservations, plan limits, idempotency keys and payments,
accounts, client records, the order page and the browser session for every
instance.

## 1. Inventory

| Component | State it keeps | Operations | Talks to | Hard behaviour | What makes it correct |
|---|---|---|---|---|---|
| Order reservation (`modules/orders`) | `orders` rows: status, slot, post, employee, `deletedAt` | create, reschedule, restore, updateStatus, softDelete | scheduling, workforce, idempotency, event bus | Serializable transactions, row locks, deadlocks, retries | each request takes effect at once or not at all; no double booking; only open resources are reserved; every request is answered |
| Scheduling (`modules/scheduling`) | none of its own | reserveSlot, checkAvailability | orders, workforce, booking settings | the preview uses other queries than the reservation | preview and reservation agree |
| Workforce (`modules/workforce`) | employee profiles | create, update, delete | orders | check-then-act against reservations | a deleted profile has no active order |
| Work posts, branches, users, services | rows with `deletedAt` | create, update, softDelete, restore | plan limits | concurrent creations at the limit | usage within the plan |
| Idempotency (`modules/idempotency`) | keys with fingerprint, result, expiry | claim, save, replay, cleanup | orders, payments | duplicate deliveries at the same time, expiry, crash | once per key; the answer belongs to the request |
| Payments (`modules/payments`) | payment rows | create | orders, idempotency | two payments that fit one by one | never more than the total, never on a closed order |
| Plan limits (`subscriptions.repository`, `subscription-limits.service`) | limits in the subscription row | withResourceLimit, upsert | all limited resources | count-then-insert | what is added fits the limit |
| Subscriptions (`subscriptions.service`) | subscription row, add-ons | changePlan, manageAddon, cancel, reactivate, recalculate | Paddle, webhooks | statements without a transaction | limits follow plan and add-ons |
| Paddle webhooks (`paddle-webhook.service`) | event ids in Redis | seven event handlers | subscriptions | duplicates, reordering, half-done handlers, claims that outlive or expire | one handler per event; the row converges to Paddle's unless an event is lost |
| Circuit breaker, price cache (`common/utils/circuit-breaker`, `paddle-price-cache.service`) | state and failures of the circuit; the catalog in Redis, the shared refresh | fire; read, refresh, hourly refresh | Paddle, Redis | calls that settle after a state change; many readers, one refresh | opens in an outage, closes after it; one refresh for all readers, who are answered; prices catch up |
| Accounts (`modules/auth`, `modules/users`) | failure counter, lock, token version, password hash, reset links | login, refresh, logout, four ways to change a password, reset links | email, event bus | read, slow hash, write | no session outlives its password; one reset link |
| Browser session (`frontend/src/shared`) | token in memory, session version, cookie queue, query cache | login, logout, refresh, boot, reads with retry | the auth endpoints, other tabs | late answers, shared refresh, a queue that its own users wait for | the tab stays on the account asked for last; caches are not mixed; every call ends |
| Clients and vehicles (`modules/clients`, `modules/vehicles`, `modules/public-booking`) | client and vehicle rows | find-or-create, soft delete, restore, merge | orders | two transactions for one booking; merge without a lock | one client per phone; an order's vehicle is its client's |
| Cleanup (`modules/cleanup`) | – | nightly purge | all tables | one transaction of many statements while rows come back | a restore is not undone; old rows go unless referred to |
| Booking pages (`PublicBookingPage`, `BookingPage`, `booking-selection.ts`) | form, confirmed slot, step | choose, confirm, submit | availability, services | cached answers change while validation is awaited | a booking is sent only for an offered slot and a live confirmation |
| Order desk (`CreateOrderPage`, `QuickOrderForm`, the steps) | form values, dialogs, requests under way | choose, create client or vehicle, submit | orders, clients, vehicles, availability | answers for an earlier choice; clicks before a redraw | client, vehicle, slot and services of an order belong together |
| Jobs (`modules/jobs`) | BullMQ queues | confirmation timeout, notifications | event bus, orders | lost event, late job | a pending web booking is confirmed or cancelled |
| Realtime gateway | rooms | order events | browsers | events lost while disconnected | – |
| Roles, tenants, tenant-scoped Prisma, audit, email, analytics, health, other pages, seed | – | – | event bus | none that decides about stored data | – |

Requests interact through the database only: several server processes, one
PostgreSQL. Domain events are dispatched in process after the commit and feed
jobs, audit log and browsers. A browser interacts with the API through its
calls, whose answers may be late, lost or for an earlier choice.

`PROJECT.json` lists every component with its status and every hazard with the
line where it bites and the property that covers it.

## 2. Modules

| Module | Models | Built on |
|---|---|---|
| `OrderReservation` | one branch: orders, posts, employees, settings, and every request that writes them | refines `BookingCalendar` |
| `BookingCalendar` | what the reservations promise: a calendar of exclusive slots, requests that take effect in one step or not at all | – |
| `OrderReservationProofs` | theorems about both, and about the row locks | `OrderReservation` |
| `Idempotency`, `IdempotencyProofs` | keys, payments of orders, order creation as a black box | result of `OrderReservation` as a choice |
| `ResourceLimits` | one tenant and one limited resource | – |
| `Subscriptions` | the subscription row of one tenant, Paddle and its events | – |
| `Availability` | checkAvailability next to the reservation's rules | – |
| `CircuitBreaker` | one breaker and its callers | – |
| `PriceCache` | catalog, refreshes and readers, some of the breaker's callers | extends `CircuitBreaker` |
| `BillingProofs` | theorems about plan limits, subscription and price cache | `ResourceLimits`, `Subscriptions`, `PriceCache` |
| `Accounts`, `AccountsProofs` | one user's row, its reset links and tokens, concurrent calls | – |
| `AuthSession`, `AuthSessionProofs` | one browser tab, the cookie it shares with other tabs, the server's answers | – |
| `ClientRecords`, `ClientRecordsProofs` | clients, vehicles, orders that refer to them, bookings, merge, cleanup | – |
| `BookingWizard` | both public booking pages over `useBookingSelection` | – |
| `PublicBookingProofs` | theorems about what is offered and what the pages make of it | `Availability`, `BookingWizard` |
| `OrderForms`, `QuickOrderForm`, `OrderWizard`, `CreateOrderPage` | what the two order forms share, each form, and the page that swaps them | `CreateOrderPage` extends the forms, they extend `OrderForms` |
| `CreateOrderPageProofs` | theorems about both forms on the page | `CreateOrderPage` |
| `MC*` | constants for TLC | the module of the same name |

### OrderReservation and BookingCalendar

`db` is the committed database; `pc[r]` the next statement of request `r`;
`tx[r]` its open transaction: the snapshot, the rows others committed since, the
rows it locked, the ranges it read, and what concurrent Serializable
transactions committed. Each SQL statement of `create`, `reschedule`, `restore`
and `updateStatus` is an action, in the order of the code: `LockOrder`,
`Validate`, `ResolveWorkPost`, `LockWorkPost`, `LockOverlappingSlot`,
`CountOverlapping`, `ChooseEmployee`, `LockEmployee`, `Commit`. `Retry` is the loop of
`runReservationTransaction`; `softDelete`, the confirmation timeout and the
administrators' updates (of settings, branch, posts, profiles, their `isWorker`
and their users) are READ COMMITTED statements (`PlainFind`, `CountAssigned`,
`PlainWrite`). A reservation locks the rows of its post and of the employee's
profile; it reads the rows of the branch and of the employee's user from its
snapshot and does not lock them (`Serving`).

PostgreSQL is external and modelled by what the code relies on: snapshot reads;
row locks that wait and then fail with 40001 when the row changed; no two
concurrent Serializable transactions that each read a range the other wrote into
both commit (the consequence of serializable snapshot isolation that matters
here); spurious 40001 at any time; a member of every wait cycle is aborted.
Client, vehicle, price and calendar checks are one nondeterministic rejection.

`BookingCalendar` knows none of this. Its state is the slot of every order,
what each caller asked for and the reply; its actions are `Ask`, `Serve` and
`Decline`. `Serve` says exactly which change of the calendar each kind of request
may make, and that a slot it takes is free. The refinement mapping
(`Calendar` in `OrderReservation`) reads the slots off `db.orders`, shows a request
from the moment it is submitted, and maps "ok" to "done" and every refusal,
conflict and timeout to "declined". `ImplementsCalendar` is its specification.

### Idempotency

`keys` are committed rows, `holder` the uncommitted claims, `lock` the order rows
held by payments. A payment runs READ COMMITTED under `SELECT ... FOR UPDATE` of
the order and rereads the winner's key; an order creation runs Serializable and
starts over. `Crash` covers timeouts and a process that stops, also between the
commit and the event.

### ResourceLimits

`withResourceLimit` as statements: lock of the tenant row, read of the
subscription, count, read of the row to restore, insert or update with the
commit. `AdminCount` and `AdminUpsert` are the two unlocked halves of the
superadmin's `upsert`; `SubscriptionChanges` is whatever webhooks and dates do.

### Subscriptions

Paddle's subscription, its events (each with a snapshot) and their deliveries
are external; the handlers and the API requests are statements on the same row
with no transaction around them. A claim lives for a day, and may run out once
nobody works under it (`ClaimExpires`). A handler may throw at any statement and
releases its claim; the process may stop, or `redis.del` fail too, and the claim
stays (`Stops`). One limited resource stands for four; a plan may have no limit for
it, and then add-ons change nothing. `Ordered` restricts Paddle to one event at
a time, in order.

### Availability

The sets that `checkAvailability` computes (`Slots`, `AvailablePosts`,
`AvailableEmployees`, `Capacity`) are compared with the reservation's own rules
(`PostFree`, `Eligible`, `Assignable`) in every reachable state of orders,
settings and profiles. Minutes are ticks of one day in one timezone.

### CircuitBreaker and PriceCache

`fire` is split at its `await`: `Fire` lets a call through, `Succeed` and `Fail`
settle it in whatever state the circuit is by then. In `PriceCache` the hourly
job and the refreshes on demand are callers of that breaker, next to the other
calls of Paddle; a refresh is `Fetch`, its end, and `Store`. A call fails in an outage,
and Paddle may also refuse one while it works (4xx); the breaker counts both.
`buildCatalog` takes the compiled-in price of every item that Paddle's answer lacks
(`Catalog`, `Unlisted`). A reader reads Redis,
starts or joins `refreshPromise`, reads again, and otherwise answers with the
compiled-in catalog. Redis and Paddle may fail and come back; the entry expires.

### Accounts

A call is what it read, where it is, and what it will write: login reads the
row, verifies, and increments the counter or resets it and issues a token; the
changes of the password hash before they write; `forgotPassword` invalidates
the old links in one statement and creates the new one in another. `increment`
is relative to the row it finds, as in SQL. A token remembers the version and
the password it goes back to.

### AuthSession

A task is a call of the tab: login, logout, boot, a refresh, a read of a query.
The actions follow the interceptors of `shared/api/client.ts` and the store: the
queue of calls that write the cookie (`authCookieRequests`), the lease that the
head holds until its response interceptor is done, `sessionVersion` and
`authTransition`, the check of the owner when an answer is applied, the one
shared refresh and the retry of a read after 401. The server accepts a refresh
when the token's version is the account's, and revokes on logout. Another tab
may log in or out (it shares cookie and local storage), an administrator may
change scope or revoke, and the page may reload at any time.

### ClientRecords

A booking is two transactions, as in the code: find or create client and
vehicle, then the order. A Serializable transaction reads in one action and
commits in another and conflicts only with other Serializable ones; `merge` is
READ COMMITTED, moves orders and vehicles in one step and may give the target
another phone. The cleanup is one transaction whose statements (order lines,
orders, vehicles, clients, services, then posts and branches with the commit) each
hold the rows they found; others commit between them. A statement that a row
still refers to fails and rolls back all of them (`Refuses`, `CleanupFails`), and the
transaction may end for other reasons (`CleanupStops`). Foreign keys are external:
a refused statement is an outcome, not a property. Users, which the last
statement deletes, have no rows of their own here. Staff orders, soft deletes and
restores interleave.

### BookingWizard

`layout` is the site or the widget; they differ in steps and in where they
validate. `view` is what the last render computed, because handlers run in the
closure of that render, also after the awaited validation. The query cache
(`avail`, `catalog`) and the clock (`past`) change on their own. The list of services
holds the active ones only; a service that was chosen may leave it, and stays in
the form (`Listed`). Its minutes are then `None` in the booking's context (`Minutes`) and
missing from the length that is asked for (`Duration`).

### OrderForms, QuickOrderForm, OrderWizard, CreateOrderPage

Both forms build an order from a branch, date, client, vehicle, services and
slot. In the quick form everything is on one page and clients and vehicles are
created in dialogs whose answers come late; `pendingShown` and `submitting` are
the rendered and the immediate copy of "is sending". The wizard has three
sequences of steps over one form that survives a change of sequence; it registers
no field, so that a change of services, date or filter clears the post and leaves
the start (`SlotReset`). The page
mounts one of them at a time and can be left at any moment.

## 3. Runs

| Run | Instance | Shows |
|---|---|---|
| `reservation_race` | 3 of 18 requests, 2 posts, 1 employee, 4 orders, 2 attempts | the transactions implement the calendar; no double booking; reservations commit on posts and profiles in service; a deleted profile is free |
| `reservation_waits` | 2 of 7 crossing requests, both posts taken, 3 attempts | wait cycles always involve an order row; every request is answered |
| `idempotent_calls` | 3 deliveries of payments and creations, 1 order, 1 key, 3 attempts | once per live key; replays fit the call; never overpaid, never paid when closed |
| `limits_race` | 3 requests, 3 rows, 8 subscription states, 2 limits | what is added fits the limit that was granted |
| `webhooks_in_order` | 4 events, all kinds of moves and API requests, repeated deliveries, 1 fault (a failing statement, a stop, or a claim that runs out) | the row converges to Paddle's subscription unless an event is lost or handled late |
| `availability_agrees` | 8 ticks, 2 posts, 2 employees, 2 orders | the preview hides nothing bookable and offers what is bookable |
| `breaker` | 4 callers of Paddle (hourly job, 2 refreshes, 1 other), 2 readers, threshold 2, 1 change of price, after which Paddle no longer lists the item | the circuit opens in an outage and closes after it; readers that miss share one refresh and are answered; prices catch up |
| `account_races` | 4 calls, 2 passwords, 2 links, lock after 2 failures | a session follows its password; one reset link at a time |
| `auth_session` | 2 accounts, 2 tasks, 5 inputs | one account's data in the cache; the account asked for last; logout revokes; no call waits forever |
| `client_records` | 2 clients, 2 vehicles, 1 order, 2 requests, 1 soft delete, 1 phone, 1 plate, 1 service, 1 branch with 1 post | restores hold; bookings share the client; ownership kept; old rows are purged unless one is referred to |
| `booking_wizard` | 1 branch, 1 date with a slot, 2 services, of which one changes its duration when the other leaves the list, 1 pending validation, 2 answers, 2 outside changes | only offered slots and live confirmations are sent |
| `order_forms` | 2 clients, 1 vehicle, 2 services, 2 slots, 1 post, 2 orders in flight, 1 outside change | vehicle and client, slot and services belong together; a post fits the choices made after it; one order at a time; a late client replaces nothing |

**Bounds.** A double booking, an overpayment or a lost limit takes two writers; a
third one adds the writer that changes the situation between the two (an
administrator, a retry, a timeout), so three requests are used wherever it
matters; waiting and answering is a matter of two. Two posts are the fewest for
a choice and for a lock cycle. Two or three attempts reach the retry and its
end. One failing statement, stop or expired claim (`MaxFaults`) is enough to have
everything after it without one. Four events are a creation and every sequence of three changes after it;
one tick of the clock ends a billing period. Eight ticks hold an early, a late
and a middle slot with a buffer. Four account calls are a login, the change that
races with it, and two that act on the outcome. Five inputs of a tab are two
accounts coming and going with one outside change between. One phone number and
one plate make every two bookings meet. Two readers are one that starts a
refresh and one that joins it. In the forms one branch, two services and two slots
or answers are the fewest for "the choice changed, and back". The booking pages treat
a change of date as one of services (both are the context), so one date is left
to the run, and any number to the theorems. The named bounds are the constants
`MAX_RESERVATION_ATTEMPTS`, `MaxEvents`, `MaxFaults`, `Horizon`, `MaxOrders`,
`MaxFailures`, `MaxPrice`, `MaxInputs`, `MAX_FAILED_ATTEMPTS`, `MaxDeletes`,
`MaxAnswers`, `MaxOutside`, `MaxFlight` and `MaxClock`. Requests, services
and the like are symmetric in runs of safety properties; no run with a liveness
property uses symmetry.

**Deadlock** is checked everywhere except where the program really stops:
`webhooks_in_order` ends when the bounded events are used up, `account_races` and
`client_records` when every call was made, `booking_wizard` when the page is
gone. Elsewhere `Quiescent` or an idle environment marks the only
states that may stop.

**Fairness.**
- `OrderReservation`: weak fairness of each request's own
  statements. Node runs the promises it started, the database hands out free
  locks, reports conflicts and breaks deadlocks. Timeouts, spurious failures
  and crashes are possible but never assumed.
- `Subscriptions`: a handler or a request that started continues; a call of
  Paddle is answered or fails (`AbortSignal.timeout(10_000)`). Paddle repeats
  what was not answered 200. In the run tasks take turns, so a delivery is
  enabled only between requests: strong fairness says that requests do not keep
  it out forever. Failures, stops and expired claims are bounded (`MaxFaults`).
  `ConvergesInOrder` asks nothing of a run in which an event is lost or handled
  after a later one (`NothingLost`). It does ask of runs in which API requests stop
  half way, and in which handlers fail half way and Paddle repeats the event.
- `CircuitBreaker`, `PriceCache`: the hourly job keeps coming, every call settles
  (each request carries `AbortSignal.timeout(10_000)`), a refresh and a reader
  that started go on, and time passes. Redis and Paddle need not recover, and Paddle
  may refuse calls forever: `RecoversWithService` and `PricesCatchUp` speak of runs in
  which it stops to (`~Refusing`).
- `AuthSession`: the steps of each task. The network answers or fails, and the
  event loop runs what has settled; clicks, reloads and other tabs are free.
- `ClientRecords`: the cron job runs every night. `PurgedUnlessBlocked` speaks of runs
  in which its transaction is not stopped forever for other reasons than a
  reference.

### What the code does and no property asks for

The models contain these behaviours; nothing in the code, its tests or its
documents promises otherwise, or a property names the exception.

- `EmployeeProfileService.delete` finds an inactive profile without orders; the
  profile is re-activated and reserved; the delete writes
  (`DeletedEmployeeIsFree` excepts profiles that somebody activates).
- An order just outside the working hours does not block the first or last
  slot of the preview, although its buffer reaches into it.
- `employeeEligibilityWhere` reads the employee's user and the branch without a
  lock: a reservation may commit after they were switched off, if it began
  before, while business-logic.md:183-185 says that such employees supply no
  capacity. `ReservesOpenResources` asks for them in the attempt's snapshot only.
- A webhook event is lost if the process stops before its handler is done, if
  the `del` of its claim fails, or if a repeated delivery is answered 200 while
  the first one, which then fails, is at work. A duplicate that comes after the
  claim's 24 hours is handled again, over what later events have written.
  `NothingLost` names both. A scheduled cancellation that arrives as
  `subscription.updated` has no effective date.
- The superadmin's `upsert` counts and writes without the tenant lock; two
  recalculations of the limits may overlap and the older read be written last.
- A 4xx answer of a working Paddle counts as a failure of the circuit, so
  refusals that go on keep it open. An item that Paddle does not list has its
  compiled-in price, and nobody is told.
- A half-open circuit lets every call through, while its comment speaks of one
  probe. Failed logins that overlap may lock the account later than a sequence
  of them.
- `UsersService.update` sets a password and leaves the sessions; the reset of an
  administrator and of the owner revoke them. A reset link may be used by two
  requests that overlap.
- Staff may enter or change any phone number, and a restored client counts as
  staff's: `BookingsShareClient` speaks of live clients that bookings inserted.
- One row past retention that something refers to rolls the whole purge back,
  every night (`Blocked`). An order that is restored after the purge's first
  statement keeps its row and loses its lines.
- Two merges that cross delete both clients. An order that is inserted while
  its client is merged stays on the merged one (`raced`).
- Logins in another tab are not serialised with this one; `LastIntentWins`
  speaks of a browser with one tab. A logout whose token is refused leaves the
  cookie.
- When a chosen service leaves the list, the booking pages go on with slots for
  the other services' length, keep the id and post it; `createOrder` refuses the
  inactive service (`orders.service.ts:581`). The quick form stops the person first.
- The wizard's comments say that the slot is reset when services, date or filter
  change (CreateOrderPage.tsx:162, 344). `resetField` leaves the start, which is not
  registered; the post goes. The start may be of an earlier length, and is sent
  without a post; `reserveSlot` looks for one, or refuses.
- The booking pages choose an idempotency key per click, so a repeated click
  after a lost answer is a new booking for the server; its reservation decides.
- The wizard keeps the vehicle of the client chosen before, and slot and worker
  of the branch chosen before; a client that is created late replaces a pick in
  the wizard. The server refuses what does not fit.

## 4. Proofs

| Module | Theorem | Statement |
|---|---|---|
| `OrderReservationProofs` | `TypeCorrect` | `Spec => []TypeOK`: transactions are open exactly between begin and end; attempts stay within the bound |
| | `BookingsExclusive` | `Spec => []NoDoubleBooking` |
| | `ReservationImplementsCalendar` | `Spec => ImplementsCalendar`: the detailed specification implements the abstract one |
| | `ReservationsAreServed` | `Spec => ReservesOpenResources`: a reservation commits on a post and a profile in service at that moment; the branch and the employee's user are in service in its snapshot |
| | `DeletionLeavesNoOrder` | `Spec => []DeletedEmployeeIsFree` |
| | `PostsLockedInOrder` | `Spec => []ResourceLocksOrdered`: no cycle of waits among locks of posts and employees |
| `BillingProofs` | `LimitsTypeCorrect` | `Spec => []TypeOK` of `ResourceLimits`: the tenant row is held exactly by whoever is between lock and end |
| | `LimitKept` | `Spec => AddsWithinLimit` |
| | `OneRefreshForAll` | `PSpec => []RefreshShared` of `PriceCache`: readers that miss together share one request to Paddle |
| | `OneHandlerPerEvent` | `SSpec => []STypeOK` of `Subscriptions`: an event is handled by one delivery at a time, which holds its claim, whatever fails, stops or runs out |
| `PublicBookingProofs` | `OfferIsAccepted` | `ASpec => []OffersWhatIsBookable` of `Availability` |
| | `NothingIsHidden` | `ASpec => []HidesNothingBookable` of `Availability` |
| | `MovesWithOfferedSlot` | `Spec => MovesOnWithOfferedSlot` of `BookingWizard` |
| | `EditEndsConfirmation` | `Spec => EditCancelsConfirmation` of `BookingWizard` |
| `IdempotencyProofs` | `IdempotencyTypeCorrect` | `Spec => []TypeOK` |
| | `EffectOncePerKey` | `Spec => []OncePerKey` |
| | `AnswersFit` | `Spec => []AnswerFitsCall` |
| | `NeverOverpaid` | `Spec => []PaidWithinTotal` |
| `AccountsProofs` | `SessionsFollow` | `Spec => []SessionFollowsPassword` |
| | `LinksApart` | `Spec => []OneLinkAtATime` |
| `AuthSessionProofs` | `CacheBelongs` | `Spec => []CacheIsTheSessions` |
| | `IntentHolds` | `Spec => []LastIntentWins` |
| | `LogoutRevokes` | `Spec => LogoutRevokesCookie` |
| | `OwnCallsEndSession` | `Spec => OnlyOwnCallsEndSession` |
| `ClientRecordsProofs` | `RestoresHold` | `Spec => RestoreHolds`: the purge takes only what is still deleted when it commits |
| | `OneClientPerPhone` | `Spec => []BookingsShareClient` |
| | `VehicleIsTheClients` | `Spec => []OwnershipKept` |
| `CreateOrderPageProofs` | `VehicleOfTheClient` | `Spec => []OwnVehicle` |
| | `OneOrderPerForm` | `Spec => []OnePostAtATime` |
| | `WizardPostFits` | `Spec => []PostFitsChoices`: a post in the wizard was picked with the start for the choices made now, or both are the link's |
| | `SentSlotFits` | `Spec => PostsFittingSlot` |
| | `PickOutlivesAnswer` | `Spec => LateClientKeepsPick`: a client created late replaces the client only if it is the one the form had when it was sent |

They hold for any sets of requests, orders, posts, employees, rows, calls,
clients, forms' choices and so on. The assumptions are named in the modules and
evaluated by every run of TLC:

- `ConstantsAssumption` of `OrderReservation` and of `Idempotency`,
  `AccountsAssumption`, `AuthAssumption`, `ClientRecordsAssumption`,
  `FormsAssumption`, `QuickAssumption`, `LimitsAssumption`, `PriceCacheAssumption`,
  `SubscriptionsAssumption`, `WizardAssumption`: ids of different
  kinds, and "none", differ; limits, durations and attempts are numbers; an
  answer of the server is a set of slots.
- `AvailabilityAssumption`: a branch has finitely many posts and employees.
- `OpsAssumption`: the requests are well formed.
- `InitDbAssumption`: the initial database is not double booked, and no active
  order belongs to a deleted profile.

Every module of proofs has the same shape: the inductive invariant as a
conjunction of named parts, lemmas on what kinds of steps have in common, one
lemma per action, and the theorems from `Init => IInv`, `IInv /\ [Next]_vars =>
IInv'` and what `IInv` implies.

**No double booking.** `NoDoubleBooking` alone is not inductive: the step that
could break it is a commit, and whether it does depends on what the transaction
read long before. The inductive invariant `IInv` adds, for every request:
- `SnapshotFresh`: a row not reported as changed is as in the snapshot;
- `ActiveAccounted`: every order active now is in the snapshot with the same
  slot, or was reserved by a concurrent Serializable transaction that is
  recorded with the ranges it read, and these cover its slot;
- `Progressed`: what the statements so far established, above all that before the
  commit the wanted window of the post and of the employee was read and is free
  in the snapshot.

At a commit, an order that would collide is either in the snapshot, and then the
count would have found it, or it was reserved by a concurrent transaction. In
that case each of the two read a range that contains the other's order, which is
what the database refuses (`Dangerous`). The smaller buffer of the two is the
distance both ranges cover, which is why the property speaks of it. Plain writes
never make an order active and never move one. Note what this says about the
code: the row locks are not what prevents double booking, they make conflicts
wait instead of fail; the guarantee rests on the isolation level.

**The calendar.** The refinement needs four more facts about every request, and
`CalendarInv` is `IInv` with them: the row a create will insert is not there yet
(`FreshRow`) and no other create has the same (`OwnRow`); the row that reschedule
and updateStatus locked was there (`Found`); a request has an answer exactly when
it is done (`Answered`). `StepShape` sorts every step of a request into four: it is
`Internal` and nobody sees it, it ends the request without a trace (`Declined`), it
is `Commit`, or it is `PlainWrite`. The first maps to a stutter and the second to
`Decline`. For a commit, `CommitAllowed` shows per kind of request that the change is
the one `Serve` allows: the row written is the one the snapshot showed, because
the commit of a changed row fails, and the slot taken is free because
`NoDoubleBooking` holds after the step (`ActiveIsFree`). `PlainWriteAllowed` does the
same for deletions, the timeout and administrators.

**Limits.** `LimitInv` adds that a transaction which has counted and not yet
written still finds the usage below the limit it read. It is kept because only a
transaction that holds the tenant row inserts, and the row is held by one.

**Locks and resources.** `LockInv` adds to `CalendarInv` what a transaction in progress
knows of posts and employees. `ResourcesFresh`: a row that nobody wrote since the
snapshot is as in the snapshot, and a row it has locked is not written by others.
`PicksLocked`: the picked post is in service in the snapshot and locked as soon as
`LockWorkPost` is over, and at the commit the picked employee is `Serving` there, with
user and branch, and the profile locked. Both together give `ReservationsAreServed`:
the administrators' updates of posts and profiles wait. Those of users and
branches do not, and the property claims no more of them than the snapshot. `LocksAscend`: every post
tried is lower than those still to try, and an employee is locked last of all.
So a transaction that waits for a post or an employee holds only lower posts,
and the one that waits for the lowest post of a cycle could not be waited for by
any other: `PostsLockedInOrder` removes it and what is left still would be a cycle
without it. `DeletionOK` carries the two statements of a deletion: the profile was
inactive when it was read and nobody activates it, so no reservation may pick it
between the count and the write. That is why the property excepts profiles that
somebody asks to activate.

**Keys and payments.** A key guards an effect from the claim to its expiry, through
three tables. `Claimed`: who is between claim and commit holds the key alone and
found it unused; `Recorded`: an effect that has not expired is what its key's row
leads to; `RowOK`: a row leads to a committed delivery of the same call. `OncePerKey`
follows, because two effects that have not expired would be the result of one
row. `Locked` is the argument for the total: the amount was compared with what was
paid while the order row was locked, and only the holder of the lock adds to it.
`Sent`, `Committed` and `Fits` say where a delivery is.

**Accounts.** `Follows(ver, pw)`: no token version is ahead of the row, and whatever goes
with the present version was a password since the last revocation. The
invariant says it of the row, of the issued tokens and of what every login and
refresh has read and not yet used; the changes that set a password without a new
version only add to the valid ones. For links, of two requests that ran without
an overlap the second one's first statement closes what the first has opened.

**Browser session.** `QueueOK`: the queue holds exactly the calls that write the cookie,
each once, and whoever is past "queued" is its head; so one of them runs at a
time, and what leaves is always the head. `Present` says of a call of the present
session version what its answer may rely on: a read carries a token of the
account and scope shown, a login is the last in the queue and nobody is shown, a
login on its way to `onSuccess` is who is shown. A version that has passed never
comes back, except by a reload, which drops all calls: `task.ver <= sessionVersion`.
`Intended`: as long as somebody is shown and there is one tab, nothing but refreshes is
in the queue, and the cookie and every refresh belong to the account wanted.
This is the point of the queue: a login that was superseded is still answered
and still sets the cookie, but the logout or login that superseded it is behind
it. `CookieKnown`: the tab knows the account of the cookie (`cookieToken`), or has no token
and no logout with one, as after a reload; hence the bearer of a logout, chosen
when its turn comes, is the cookie's account.

**Client records.** `RestoresHold` is about one transaction that looks for old rows in
many statements, while others restore them. `PurgeOK`: what a statement has found it
holds, so it is still old at the commit; an order whose lines went is old unless
it was restored since, and then it is not among the orders held; no order that
stays has a vehicle that is held. That last part needs that nothing refers to
such a vehicle anew, hence `Inserted` (an order that is there has a vehicle that is
there) and `Seen` (rows which a request has read were inserted). `OwnershipKept` needs `Fresh`: until something commits on what it read, an
order request still has a vehicle of its client and a merge still knows every
vehicle it has to move. `FirstOfPhone` is the same for the absence of a client: a booking
that found none, and on whose read nothing has committed, finds none now.

**Order page.** The two forms share no field, so the invariant is a conjunction of a part
per form and concern: vehicle and client with the dialogs in flight
(`VehiclePart`, `ClientPart`), the POST under way (`PostPart`: `submitting`, the ref, is set for
as long as one is), the query whose answer is shown (`QueryPart`), and the wizard
(`WizardPart`: every change of a choice clears the post with it, so that a post is never older
than the choices). `SentSlotFits` uses that a nonempty set of slots has an earliest one,
by well-founded induction on the natural numbers.

**Preview and reservation.** Here the only invariant is the types of the day
(`DayTyped`); what is proved is that the two sides compute the same from it. The
query for the employees' orders reaches further than any order that overlaps a
slot with its buffer (`EmployeeQueryWide`), so the employees agree at every slot.
The query for the posts' orders ends at opening and closing time; an order that
is outside of it can matter within a buffer of them only (`PostQueryWide`). The
posts offered are always more than those accepted (`NoPostHidden`), never fewer, and
the counts follow case by case (`CapacityByPosts`), for which posts and employees
have to be finite.

**Booking pages.** A slot is checked in the closure of the last render and the
booking is posted after an awaited validation. The invariant says what connects
the two: the last render was of the choice the form still holds (`ViewOfForm`), a
confirmed slot is of that context (`SelectionOfView`), and a handler that waits has
the context and the query of the last render as long as it counts as current,
and counts as such only if nothing was edited (`JobOK`). What the cache holds for a
date are slots of that date (`SlotsOfDay`), whoever answered and when. The length of
a visit is a sum over the chosen services that are listed. `DurationLocal` shows that
it depends only on what the context holds of them, their minutes or that they
have none (`MinutesTell`, `ContextDetermines`): contexts that are equal have equal
queries, also when a service has left the list between.

**Price cache.** `RefreshShared` is inductive once `refreshPromise` and the stages have their
types (`PricesTyped`): a reader that misses starts a refresh only when there is none,
and the end of a refresh, whether it stored, failed or was refused by the
circuit, clears the promise in the same step in which it releases whoever waits
(`EndsKeeps`). The hourly job refreshes beside it and shares nothing.

**Webhooks.** A handler's event is claimed in Redis (`TaskOK`), and no two tasks handle one
event (`Claims`), since a second claim fails while there is one. Without that the
release on failure would not be safe: it would take the claim away from another
handler of the same event. A claim that runs out is nobody's, because a handler
does not take a day (`ClaimExpires`); one whose handler stopped stays until then. The
rest of `MirrorInv` says that tasks know what their next statement needs: a handler's
event was emitted by Paddle, a row is linked only to a subscription that exists
(`Linked`), and a request sends Paddle the plan and the add-ons it has read. The run
`webhooks_in_order` delivers one event at a time; the theorem has no such
restriction.

### Only model-checked

- Liveness and what `ENABLED` is part of: `EveryRequestAnswered`, `ConvergesInOrder`,
  `RecoversWithService`, `TripsOnOutage`, `ReadersAnswered`, `PricesCatchUp`, `CallsEnd`,
  `PurgedUnlessBlocked`. The prover has no rule for fairness that fits these
  specifications. Every invariant and action property of a run has a theorem.
- `TotalDuration` and the other sums over sets, which are recursive by nature: the
  proofs use them as numbers only.

## 5. Not modelled

Timezones and calendars, prices, permissions and tenant scoping (every model is
one tenant and one branch), signature verification, reports, mails, layout and
translations. The remaining pages of the staff application (lists, settings,
dashboards, the schedule, the landing page) read what the server holds and edit
one record with one request; there is no state of their own to check. Analytics
and exports are queries, seed data fills a development database, and the modules
for roles and tenants are single guarded writes. Together these are the larger
part of the repository by lines, and the part in which nothing interleaves.

A process that stops after the commit of a web booking and before its event is
listed as a hazard and not an action with a property: the code does not recover
it, so there is nothing to promise. (A stop between `SET NX` and the end of a webhook
handler is an action; what it loses is excepted by `NothingLost`.) The queue that carries the confirmation job is not modelled; its effect
on the order is (`PlainWrite`). The sockets are modelled by what they cause in
the quick form, an invalidation that may come at any time or never. The older
`check`/`save` interface of the idempotency service is used by no booking or
payment.

## 6. Plan

1. `Subscriptions`: two checkouts, then its composition with `ResourceLimits` for
   downgrades.
2. The path from the commit of a web booking over the event to the timeout job.
