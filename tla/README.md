# AutoConnect: a formal model of its bookings and of its money

AutoConnect is a NestJS server with a PostgreSQL database behind Prisma. Passengers
book seats in a driver's vehicle and pay by Mobile Money; the payment is held in
escrow, the trip starts on an OTP or a QR code, the escrow is released to the
driver's wallet when the trip is completed, and the driver withdraws it. These
modules model that money path request by request and await by await, and what
stands around it: disputes, withdrawals, notifications, the fleet, accounts and
their guards, row locks and connections. Paths below are relative to the repository.

## 1. Inventory

| Component | State it keeps | Operations that change it |
|---|---|---|
| Bookings (`src/bookings`) | `bookings` rows: statut, OTP and its expiry, QR code; `vehicles.placesDisponibles` | create, updateStatus (cancel, confirm, complete, any other statut), startTrip |
| Payments (`src/payments`) | `payments` rows | create; the operator's callback: confirm, fail, processing |
| Escrow (`src/escrow`) | `escrow` rows, `wallets`, booking and payment statut | releaseFunds, refundFunds (`holdFunds` has no caller: `confirmPayment` does its work inline) |
| Wallet (`src/wallet`) | `wallets` rows | releaseFromEscrow (`initWallet` has no caller; getBalance and getHistory read, in several queries) |
| Withdrawals (`src/withdrawals`) | `withdrawals` rows, `wallets` | create; the operator's callback: processing, complete, fail |
| Disputes (`src/disputes`) | `disputes` rows, booking statut | create, resolve |
| Notifications (`src/notifications`) | `notifications` rows | create (called by the services after their commit), markAllAsRead; markAsRead, which as wired refuses everybody |
| Vehicles, Drivers | vehicle rows, `drivers.isAvailable` | create, update, remove; updateAvailability |
| Freight (`src/freight`) | `freight` rows | createFreight, assignToDriver |
| Auth, Users | users, drivers, passengers, wallets (at registration), refresh token | register, login, logout (the service's `refreshToken` has no caller: its route throws) |
| Guards (`src/auth/guards`) | none | `JwtAuthGuard` and `RolesGuard` decide on every call from `@Public` and `@Roles` |
| OTP, QR, GPS | none of their own | pure checks used by startTrip and confirmPayment |
| Prisma access | the connection pool | connections, interactive transactions with their timeouts |
| Stations | their own rows | create, update, deactivate |

**How they interact.** Services call each other in the process (bookings and
wallet call escrow; everybody calls notifications) and share rows. The operator
calls back over HTTP. Nothing is queued and nothing is scheduled: each change is
made by the request that asked for it.

**What is hard here.** Every handler reads rows, checks them, awaits, and then
writes unconditionally; nothing is locked or versioned between the check and the
write. Hence races between any two handlers on one row; callbacks that come late,
twice or out of order; decisions taken on a snapshot; one operation made of two
transactions that a crash or a timeout can separate (complete, then release;
refund, inside a cancellation that may still fail); transactions nested over two
connections, one of which waits for the other; and notes written after the commit.
`PROJECT.json` lists each hazard at its line with the properties that watch it.

**What makes each component correct.** Bookings: the documented lifecycle, no
overbooking, cancellation final and refunded. Payments: one credit per payment, a
paid booking has its pass. Escrow: held once, settled once, rows moved together.
Wallet: the total is the sum of its parts, the pending part is what is in escrow,
the history explains the balance. Withdrawals: no overdraft, paid back exactly
once. Disputes: one active at a time, decisions final, the trip stops.
Notifications: true when written, written in the end, read by their owner only.
Fleet: seats follow bookings, only listed vehicles are booked. Freight: one driver.
Accounts: one per telephone, with the rows of its role; public routes are open.
Prisma access: no request waits for ever, no lock outlives its transaction. The code
does not keep all of this: section 3 says what holds, under which conditions, and
what does not (a cancellation is not final, a vehicle can be oversold, notes are
read by others, one public route is closed).

## 2. Modules

| Module | Models |
|---|---|
| `Schema` | the rows of the money path, the requests in flight, the row locks of an open cancellation |
| `Escrow` | `EscrowService`, and the wallet endpoint that calls it |
| `Bookings` | `BookingsService`, with the life of the OTP and what a QR scan decodes to |
| `Payments` | `PaymentsService` |
| `Custody` | abstract specification of the escrow: held once, then released or refunded once |
| `TripFunds` | composes the four; its properties; the refinement of `Custody` |
| `Ledger` | what the columns of several rows add up to: escrows, seats |
| `Sums` | sums over sets of rows |
| `Disputes` | `DisputesService`, called by a participant, composed with `TripFunds` |
| `Notifications` | `NotificationsService` as its controller calls it and the notes handlers write, composed with `TripFunds` |
| `Freight` | `FreightService` |
| `Fleet` | `VehiclesService`, `DriversService`, composed with `TripFunds` (through `Ledger`) and `Freight` |
| `Withdrawals` | `WithdrawalsService` on its own |
| `Payouts` | `Withdrawals` and `TripFunds` on one wallet, and `WalletService`'s history |
| `Accounts` | `AuthService`, `UsersService`, the guards |
| `RowLocks` | what handlers hold while they run: connections, row locks, statement by statement |
| `MC*` | small instances for TLC |
| `*_proofs` | theorems: one module per component, `Services_proofs` for `Fleet`, `Freight` and `Notifications` |

**From code to actions.** An HTTP request is a process `r`; `req[r]` says at which
await it is suspended and on which booking. A handler is split exactly where
another handler can interfere: `CreateRead` is the part of `create` up to its
check, `CreateCommit` its transaction, and so on. What the check concluded is
encoded in the place the request waits at (`cancelPaid` against `cancelUnpaid`),
so the later step acts on the snapshot, as the code does, and not on the rows as
they are by then. A batch of writes in one transaction is one step. The one
transaction that stays open across awaits is the cancellation of a paid booking:
`CancelLock` takes its booking and vehicle rows, `RefundRead` and `RefundCommit`
run on another connection (and are durable on their own), `CancelCommit` ends it;
steps that write one of these rows wait (`BookingRowFree`, `VehicleRowFree`).
`CancelTimeout` is Prisma's timeout of that transaction: the rows are free again
and the booking is not cancelled, but the callback is not stopped and its refund
still commits. `Abort` ends a request anywhere: a crash, a refused connection, a
rolled-back transaction. What was committed stays.

`RowLocks` looks inside what the other modules take for one step. A request has
two *sessions*, its own transaction and, for a cancellation, the refund's. A
session queues for a connection, takes the rows of its UPDATEs in the order of the
code (`Statements`), and commits, times out, or is chosen by PostgreSQL's deadlock
detector. The outer session of a cancellation waits for its refund outside the
database's sight.

`Notifications` gives each request an `outbox`: the notes it owes once its
writes have committed (`Told`), written one by one in any order, as
`Promise.all` allows. `Fleet` adds the check of `create` that `TripFunds` leaves
out (the vehicle is active and its driver available). `Payouts` instantiates
`Withdrawals` on the same wallet row: what either service writes, the other reads.

Definitions whose comment starts with *Mutation* are deliberately wrong variants
of the definition below them, used to see each property fail; no specification
refers to them.

**Abstractions.**
- The reads of one handler that no other handler can tell apart (a row with its
  relations; the passenger, the vehicle) are one step; so are the statements
  inside one transaction, except in `RowLocks`.
- A request refused by its first checks changes nothing and is no action. Role
  checks only refuse, and somebody with the role exists; the caller of
  `updateStatus` may be any participant, as in the code. `Accounts` models the
  guards themselves.
- Bookings have a fixed vehicle and number of seats chosen when they are
  requested. In the runs of `TripFunds` alone, of disputes, notifications and
  payouts, the vehicle is active, its driver available and its capacity fixed;
  `Fleet` lifts all three. The wallet exists from registration, which `Accounts`
  establishes (`DriversHaveProfiles`).
- Prices are in units of 100 000 GNF, and the amount of a payment and of its
  callback is the booking's price (the code refuses others). A second payment row
  for a booking never exists (`bookingId` is unique), so payments are indexed by
  booking, and escrows, unique per payment, too.
- The OTP is null, valid or expired. A scan is JSON with a `bookingId`, a JSON
  string, a bare identifier or something else (`DecodeBookingQrData`); whether a
  code was issued is a Boolean, and startTrip does not consult the stored code.
  The driver is near the passenger. The calls to the operators are stubs that log.
- Withdrawal callbacks name the withdrawal by its id. The commission splits the
  amount on the row and moves no money in the wallet.
- `EN_COURS`, a dispute statut the code tests and never writes, is left out.
- `Disputes` is the service, given the id of a participant of the booking. Over
  HTTP it is given `user.sub` (`disputes.controller.ts:33`), which
  `JwtStrategy.validate` never sets (`jwt.strategy.ts:35-39`), and refuses the
  participants too: what is checked is what the service does, not that anybody can
  reach it. Likewise the callbacks of withdrawals are modelled as if they passed
  the guards, which answer them 403.
- In `Notifications` the caller of `markAllAsRead` is what the controller passes,
  `Sub(u)`: undefined for everybody. `markAsRead` compares it with the note's owner,
  refuses and changes nothing, so it is no action. A note stands for the latest row of its type, booking and user.
- In `Accounts`, passwords are right or no action; being logged in is
  `refreshToken` not null. bcrypt keeps 72 bytes, which all refresh tokens of one
  user begin with, so the hash says no more than that.
- Suspending a user and verifying a driver are done by nothing in `src/`
  (`isSuspended` and `isVerified` are only read); they are external actions.
- `RowLocks` starts with any escrows held and runs each request once. INSERTs lock
  nothing anyone waits for, but the unique escrow of a payment.

## 3. Runs

Each run checks the properties its `.cfg` names. `CHECK_DEADLOCK` is off because
the system legitimately rests when nobody asks for anything.

### What holds

| Run | Instance | Distinct states | Shows |
|---|---|---|---|
| `concurrent_requests` | 1 booking, 3 concurrent requests, clients that send only CONFIRMED, COMPLETED, CANCELLED, callbacks in any order, aborts and timeouts | 1,015,880 | `TypeOK`, `TripFunded`, `ReleasedTripSettled`, `PaidHasPass`, `WalletBalanced`, `NeverOverCredited`, `CreditOnlyWithEscrow`, `SeatsNeverLost` |
| `one_at_a_time` | 2 bookings, 2 seats for 3 asked, 1 request, any statut, callbacks in any order, aborts and timeouts | 3,583,197 | `CustodyKept`, `PendingIsHeld`, `SeatsNeverNegative` |
| `lifecycle` | 2 bookings, 1 request, documented clients, callbacks in any order, no abort, fairness | 57,808 | `NeverBackwards`, `SettledBookingClosed`, `CompletedThenReleased` |
| `disputes_in_turn` | 1 booking, 2 disputes, 1 request, callbacks in any order, aborts | 13,385 | `DisputesTypeOK`, `OneActiveDispute`, `ClosedIsFinal`, `DisputeStopsTrip` |
| `withdrawals_any` | 3 withdrawals of a driver, 2 requests, callbacks in any order, aborts | 28,484 | `TypeOK`, `PendingUntouched`, `NothingLost` |
| `payouts` | 2 trips priced 1 and 2, 2 withdrawals of 1 and 2 of which the second is refused, a trip's request beside a withdrawal's, an operator that keeps its word, aborts | 260,511 | `PayoutsConserved`, `HistoryCoversBalance`, `PurseNotOverdrawn`, `CancelledRefunded` |
| `row_locks` | 2 bookings of one vehicle and driver, 3 requests (5 handlers), 3 connections, fairness | 632,322 | `LocksOK`, `DeadlocksOnlyOnRepeat`, `EveryRequestEnds` |
| `notifications` | 1 booking, 2 concurrent requests, 3 types of notes, inserts that fail, fairness | 443,731 | `NotesTruthful`, `PaidIsTold` |
| `fleet` | 2 bookings, 1 vehicle whose capacity changes between 2 and 3, 1 request, 1 freight, 1 assignment, aborts | 633,042 | `BookedIsListed`, `SeatsConserved`, `AssignedOnce` |
| `accounts` | 4 people (two with one telephone, two with one licence), 2 concurrent requests, 6 routes, suspensions, aborts | 314,865 | `TypeOK`, `OneAccountPerTelephone`, `DriversHaveProfiles` |

The split says what the code relies on. With any number of requests at once the
wallet's columns add up, a payment is credited once, money behind a trip went
through the escrow, a telephone has one account, a note tells the truth, and no
lock outlives its transaction; that is what transactions, relative updates and
unique indexes give. Exactly-once settlement, refunds, no overdraft, one active
dispute and the check of the free seats hold only when requests do not overlap
(`OneRequestAtATime`): they rest on check-then-write. Refunds and exact conservation
need more: an operator that never takes its word back (`FinalWord`,
`RefusalIsFinal`). And two things are lost even one request at a time, because
`confirmPayment` never looks at the booking: a cancellation is not final, and a
vehicle can be oversold by it (below).

`CancelledRefunded` is not obvious where it holds: the refund is decided by
`payment.statut` and not by the escrow, a late callback makes a cancelled booking
PAID again with its money held, and a cancellation may die after its refund and be
asked again; still no booking ends CANCELLED with money in escrow.

`DisputeStopsTrip` is about paid trips and says more than that a disputed trip is
not started in the next step: once disputed, its statut stays among DISPUTE,
CANCELLED and FUNDS_RELEASED (a cancellation or a direct release may still settle
it), so that no chain of late callbacks and requests gets it moving again. The
dispute of an unpaid booking, which `create` accepts although the comment at
`disputes.service.ts:21` excludes PENDING, is overwritten by the payment.

`row_locks` answers a question no unit test reaches. The handlers take their rows
in orders that cannot form a ring, except that a repeated confirmation, which has
the booking row, waits for the escrow row of a release that waits for the booking.
A cancellation can wait, through its refund, for a release or a confirmation that
waits for the cancellation's own booking row: PostgreSQL does not see that ring,
nor the pool's: the requests that wait for a cancellation's rows hold the last
connections, and its refund asks for one. Prisma's timeout ends all of them, so every request ends.

### What the code does not keep

Two runs exhibit a behaviour against the repository's own words, quoted by their
findings in `PROJECT.json`; neither needs concurrency. `cancelled_then_paid` (31
states): a COMPLETED callback after the cancellation turns the booking PAID.
`read_all` (52 states): `markAllAsRead` filters on `user.sub`, which is undefined,
Prisma drops the filter, and one user's call marks everybody's notes as read.

The first has a consequence worth a theorem: the revived booking takes no seats,
and if these have been sold to somebody else the vehicle is oversold.
`NeverOverbooked` (`Ledger`) states that the bookings of a vehicle never occupy more
places than it has; TLC refutes it in the instance of `one_at_a_time`, while
placesDisponibles itself is never negative (`SeatsNeverNegative`).
`OverbookedOnlyByRevival` proves that there is no other cause.

The public route `withdrawals/webhook` is closed: `@Public()` on the handler does not
lift the `@Roles` of its controller (`withdrawals.controller.ts:16,33`), and the
operator's callback is answered 403 (`roles.guard.ts`), against README.md:153. The
route is in the `accounts` run, whose guards give that answer.

Other properties are lost once the assumption of their run is dropped; changing
one constant of the passing run shows it:

| Change | Lost |
|---|---|
| `one_at_a_time` with two requests | `CustodyKept`, `PendingIsHeld`: two releases pass `isReleased` before either commits. `SeatsNeverNegative`: two creations see the same free seats |
| `lifecycle` with two requests | `NeverBackwards`: a confirmation written over a PAID booking |
| `lifecycle` with aborts | `CompletedThenReleased`: a crash between COMPLETED and the release; nothing retries it. `SettledBookingClosed`: a crash or a timeout between the refund and the cancellation; a trip may then start on a REFUNDED payment, where CONFORMITE_CAHIER_CHARGES.md:181 promises a check |
| `concurrent_requests` with any statut | `PaidHasPass`, `TripFunded`: the last line of `updateStatus` writes PAID by hand |
| `disputes_in_turn` with two requests | `OneActiveDispute`, `ClosedIsFinal`; `DisputeStopsTrip` (a start that was under way) |
| `payouts` with two requests | `CancelledRefunded`: a payment confirmed between a cancellation's read and its write stays in escrow. `PurseNotOverdrawn`: two withdrawals see the same balance. `PayoutsConserved`: two FAILED callbacks pay one withdrawal back twice |
| `payouts` with FAILED callbacks of payments | `CancelledRefunded`: after COMPLETED then FAILED, a cancellation finds no completed payment and leaves the money in escrow |
| `payouts` with PROCESSING callbacks of the refused withdrawal | `PayoutsConserved`: a late one reopens it, and the next FAILED pays it back again |
| `fleet` with two assignments in flight | `AssignedOnce` |

Facts visible in the model's guards, without a run: funds can be released before
the trip (`WalletRelease`); a failed payment cannot be tried again (`PayCommit`); a
dispute can be opened on a PENDING booking (`CreateDispute`); `updateStatus`
does not refuse to cancel a FUNDS_RELEASED booking, only the refund it calls does
(`CancelRead`, `RefundRead`); registration takes any role, ADMIN
included (`RegisterRead`); a login in flight at logout stores its token afterwards
(`GenerateTokens`); a capacity may drop below the occupied seats
(`UpdateVehicle`); a vehicle may be retired between the check and the commit of a
booking (`RemoveVehicle`); a freight can be assigned to an identifier that is no
driver's, and never becomes LIVRE (`AssignRead`). The wallet's reads take
`user.sub` too, and `getBalance` totals the last five withdrawals only.

### Bounds

One booking is enough for every race on a booking's own rows; two share a vehicle,
a driver and a wallet. Their prices differ (1 and 2), so that a mistaken amount
shows. Each race needs two requests; `concurrent_requests` has three so that a
third handler can come between, and `row_locks` three because three transactions
over two bookings can form rings that two cannot, with as many connections, so
that the pool is exhausted as soon as every request has one. `AnyStatut` leaves
out BOARDING and INCIDENT, which no handler tests: DISPUTE behaves as they do.
`NoteTypes` keeps the notes the properties are about.

`SeatLimit` stops *new* cancellations of a vehicle whose free seats exceed it:
concurrent cancellations give seats back twice, and without it TLC would count up
for ever. It lies above the capacity, so that one double count does happen.
`CreditLimit` does the same for the repeated refunds of a withdrawal. In `row_locks`
requests are interchangeable, so they come in order; the handlers chosen are those
with two statements or a second connection and `start`, a single UPDATE:
`create`, `withdraw` and `failPayment` of `Statements`, each one row of one table,
are left for larger runs. No other variable needs a bound.

### Fairness

`FairSpec` and `NotificationsSpec` have weak fairness on the *resumption* of each
request, the second also on writing its notes, and nothing else: Node's event loop
runs every handler whose await is over. Clients and the operator owe nothing. Weak
fairness is enough because nothing disables for good a resumption once it is
enabled. It says nothing about crashes, so `CompletedThenReleased` is checked
without them, and needs that; `PaidIsTold` allows an insert to fail.

`RowLocks!Spec` has weak fairness on the server as a whole (`Server`): Node, Prisma
and PostgreSQL do not stop while one of them can take a step, and each request
takes finitely many. Timers are part of it. It does not say *which* step is taken.

## 4. Theorems

For every value of the constants allowed by the named assumptions of the modules
(they type the constants; `LedgerAssumption`, `WithdrawalsAssumption` and
`PayoutsAssumption` add that bookings and withdrawals are finitely many rows): any
number of bookings, vehicles, drivers, people, notes and requests, with or without
aborts. The hypotheses in the last column are those of the runs.
`OneRequestAtATime` restricts `Requests`; `DocumentedClients` (clients send
CONFIRMED, COMPLETED or CANCELLED), `FinalWord` and `RefusalIsFinal` what is sent.

| Theorem | Says | Further assumption |
|---|---|---|
| `TypeCorrect` | `[]TypeOK` | |
| `WalletsBalanced` | `[]WalletBalanced` | |
| `NeverOverCreditedHolds`, `SeatsNeverLostHolds` | `[]NeverOverCredited`, `[]SeatsNeverLost` | |
| `CreditedOnce` | `CreditOnlyWithEscrow` | |
| `TripsFunded`, `ReleasedTripsSettled`, `PaidHavePasses` | `TripFunded`, `ReleasedTripSettled`, `PaidHasPass` | `DocumentedClients` |
| `CustodyImplemented` | `TripFunds` implements `Custody` | `OneRequestAtATime` |
| `LifecycleForward` | `NeverBackwards` | `DocumentedClients`, `OneRequestAtATime` |
| `PendingIsHeldHolds`, `SeatsNeverNegativeHolds` | `[]PendingIsHeld`, `[]SeatsNeverNegative` | `OneRequestAtATime` |
| `OverbookedOnlyByRevival` | `[]NeverOverbooked`, of behaviours in which no step revives a cancelled booking | `OneRequestAtATime` |
| `CancellationsRefund` | `[]CancelledRefunded` | `OneRequestAtATime`, `FinalWord` |
| `SettledIsClosed` | `[]SettledBookingClosed` | `DocumentedClients`, `OneRequestAtATime`, `~MayAbort` |
| `DisputesTypeCorrect` | `[]DisputesTypeOK` | |
| `OneDispute`, `DecisionsFinal` | `OneActiveDispute`, `ClosedIsFinal` | `OneRequestAtATime` |
| `DisputedTripsStop` | `DisputeStopsTrip` | `DocumentedClients`, `OneRequestAtATime` |
| `WithdrawalsTypeCorrect`, `PendingSafe`, `NothingIsLost` | `TypeOK`, `PendingUntouched`, `NothingLost` of withdrawals | |
| `NeverOverdrawn` | `NoOverdraft` of withdrawals | `OneRequestAtATime` |
| `MoneyIsConserved` | `MoneyConserved` of withdrawals | `OneRequestAtATime`, `RefusalIsFinal` |
| `PayoutsAreConserved`, `HistoryIsCovered` | `[]PayoutsConserved`, `[]HistoryCoversBalance` | `DocumentedClients`, `OneRequestAtATime`, `FinalWord`, `RefusalIsFinal` |
| `PursesNeverOverdrawn` | `[]PurseNotOverdrawn` | `OneRequestAtATime` |
| `NotesAreTruthful` | `[]NotesTruthful` | |
| `BookedAreListed` | `BookedIsListed` | |
| `SeatsAreConserved` | `SeatsConserved` | `OneRequestAtATime` |
| `FreightAssignedOnce` | `AssignedOnce` | `OneAssignment` |
| `AccountsTypeCorrect`, `OneAccount`, `ProfilesComplete` | `TypeOK`, `OneAccountPerTelephone`, `DriversHaveProfiles` of accounts | |
| `LocksAreReturned`, `OnlyRepeatsDeadlock` | `[]LocksOK`, `[]DeadlocksOnlyOnRepeat` of row locks | |

**How they go.** The steps of the money path are first reduced to what they do to
two groups of rows: `MoneyMove` (nothing, or one hold, release or refund of one
booking) and `BookingMove` (nothing, a plain statut, a start, a payment, a
release, an expiry). Each invariant is then proved over those few cases. The
modules that compose `TripFunds` with another component reuse its step lemmas: a
step of the composition is a step of `TripFunds` or leaves its variables alone.

- *Money behind trips.* `TripFunded` alone is not inductive: `StartCommit` writes
  IN_PROGRESS whatever the booking is by then. `Funded` adds `InFlightFunded` (a
  request about to start, complete or release a trip is about an escrow that
  exists) and uses that escrow rows never disappear.
- *Custody.* One request at a time, what the request read still holds when it
  writes: `SettlesHeld` (a request about to release or refund is about a held
  escrow), preserved because any other step would need a second request.
- *Lifecycle.* `FreshSnapshot` (the booking is still in the statut the request in
  flight read) and `OnDocumentedPath` (statut and escrow agree) make each write a
  step forward.
- *Refunds.* `HeldIsPaid`: with `FinalWord`, money held belongs to a payment that
  says COMPLETED. `Refunds` adds that a request about to commit a cancellation is
  about a payment not COMPLETED or an escrow not held (`CancelsSettled`): by what it
  read, or by the refund it waited for.
- *Sums.* `SumOver(f, S)` counts the units there are (`f[x]` of them for every
  `x`), so that the theorems about finite cardinalities give what a sum needs,
  without induction: one row entering or leaving changes it by that row
  (`SumWithout`, `SumChange`), a larger set has no smaller sum (`SumMonotone`).
  `MCWithdrawals` has TLC compare it with a fold (`CountingIsAdding`).
- *Credits.* An escrow row appears in the step that credits its price
  (`CreditStep`) and stays held or released unless refunded; a step changes the
  escrows of one booking (`EscrowTotal*`), so the totals follow `MoneyMove`. With any
  number of requests only `=<` is inductive: a double refund takes away twice. With
  one, `SettlesHeld` makes it an equality for the pending part.
- *Seats.* `SeatMove` reduces a step to an insertion, a cancellation or another
  write of one booking. `BookedOnce` (a booking is inserted once, nobody acts on
  one that has no row yet) makes an insertion take exactly its seats. A cancellation
  gives them back even if somebody else already has: with any number of requests
  seats are never lost, and may be counted twice. For `SeatsNeverNegative`,
  `EnoughSeats`: what the one request in flight found free still is.
  `CancelsLive` makes the cancellation give back what the booking had
  (`SeatsBalance`), which `SeatsAreConserved` uses beside changing capacities. While
  no booking is revived, free and occupied places are then exactly the capacity,
  which makes `SeatsNeverNegative` the same as `NeverOverbooked`.
- *Closing.* Without aborts no cancellation times out (`NotTimedOut`), so released
  money belongs to a closed booking or to the request in flight (`Closing`), and
  `FreshSnapshot` tells what that request writes.
- *Disputes.* `DisputeFresh`: what the request in flight found (no active dispute;
  a dispute not decided) still holds when it writes. That a disputed trip stops
  is `FreshSnapshot` again, kept by the opening of a dispute because no request of
  the trip is under way then (`Exclusive`), and that `confirmPayment` does nothing to
  a booking whose money went into escrow, which no later step takes back.
- *Notes.* `NotesInv`: every note written, and every note still owed, has the
  movement of money behind it, which no later step takes back.
- *Fleet.* `FleetInv` contains `AvailableVerified`: only verified drivers are
  available. It is what makes the booking's own check enough, though it asks
  only for availability. *Freight.* `AssignsWaiting`: the assignment in flight is
  about a freight that still waits.
- *Accounts.* `AccountsInv`: one account per telephone, and every registered driver
  has his rows from the very step that inserts the user.
- *Row locks.* `LocksInv` adds that a request that has not come has no session.
  COMMIT, ROLLBACK and every error are one case (`CloseKeeps`): the rows of the
  sessions that end go back, and the open sessions become fewer; only `Connect`
  adds one, when a connection is free.
- *Deadlocks.* `RowsMatch`: the rows of a session are exactly those of the
  statements it has behind it; `EscrowKnown`: what is released or refunded has an
  escrow, and keeps one. So whoever in a ring has a row and waits for another is one
  of few handlers (`Orders`). The order of the rows alone excludes nothing (a
  confirmation takes booking then wallet, a release wallet then booking). But a first
  confirmation has no escrow, hence no release of its booking beside it, and
  `NoRing` closes the tables one after the other: nobody in a ring
  waits for the vehicle; so nobody for a wallet, which only a release has while it waits for
  its booking; so a first confirmation not for its escrow; so nobody for
  a booking, a payment, an escrow. No induction on the length of the ring.
- *Overdraft.* `Backed`: the request about to debit is covered by the balance. On the
  shared wallet (`PursesInv`) it survives the trip's steps, which only raise what is
  withdrawable (`TripRaises`).
- *Withdrawals.* `InsertedOnce` (a withdrawal about to be inserted has no row, and no
  other request inserts it) makes every debit the start of a withdrawal that is
  leaving; a refund may be paid twice, hence `>=` in `NothingLost`.
  `ActsOnLeaving` (the request in flight acts on a withdrawal still on its way)
  and `RefusalIsFinal` make it an equality.
- *Payouts.* The proof uses `Withdrawals_proofs` as it stands, instantiated on the
  shared wallet row: a step of a withdrawal preserves withdrawable plus leaving
  (`WithdrawalIsStep`), and a step of a trip adds one price when it releases one
  booking (`TripBalance`, `ReleasedTotal`). `PaidOff` says the FUNDS_RELEASED
  bookings are those whose escrow is released; `ReleaseIsFinal` that none leaves.
  `FinalWord` (the operator's word on a payment is COMPLETED) is
  necessary, and `payouts` runs under it: a FAILED callback after COMPLETED lets a
  released booking be cancelled, which leaves the driver with the money and his history
  without the trip. For the history, what was read of the wallet is at most
  what had been released by then, and released trips are never fewer later.

## 5. Model-checked only

`CompletedThenReleased`, `PaidIsTold`, `EveryRequestEnds`: liveness under fairness,
which needs `ENABLED`. Every other property of the passing runs is proved.
`CancelledIsFinal` and `ReadsOwnNotes` are expected to fail. `NeverOverbooked` fails
too, and is proved up to that cause. The theorems `NeverOverdrawn` and
`MoneyIsConserved` are about withdrawals alone; `payouts` checks their like on the
shared wallet.

## 6. Not modelled, and what is left

- **GPS**: floating-point trigonometry, out of TLC's reach, and a log that stores
  nothing. startTrip's proximity check is taken as passed.
- **Stations**: rows that no other component reads, changed one at a time.
- **Application shell**: validation, logging, error formatting.
- The notes of withdrawals and disputes (written as the others are), the digits of
  an OTP, the expiry of access tokens, `getBalance`'s list of withdrawals.

Worth doing next: the safety half of each liveness property as a theorem (what a
completed trip or a paid booking still lacks, some request owes); `row_locks`
with the handlers left out; `Payouts` with two requests on each side, whose
losses are those of its two halves.
