# Formal model of the shop's backend

The repository is the HTTP API of a web shop: NestJS on PostgreSQL through
TypeORM, with Razorpay for payments. Its own logic is in the services under
`src/src/modules`; most of what can go wrong there goes wrong between two
statements: several requests (and several servers) work on the same rows, few
rows are locked before they are read, and some operations write in more than one
transaction. This directory models that logic in TLA+, checks it with TLC on
small instances, and proves every invariant, every action property and the
refinement that the passing runs check for instances of every size.

Paths below are relative to `src/src/`.

## Inventory

| Component | State | Operations | What makes it hard, what makes it correct |
|---|---|---|---|
| Orders (`modules/orders/orders.service.ts`) | `orders`, `order_items`, `order_status_history`; `inventory`, `coupons`, `coupon_usages` and the cart it shares with others | createOrder, updateOrderStatus, requestCancellation | Reads, then writes back what it computed from them, under other requests doing the same; rollback in the middle; row locks taken in the order of the lines. Stock must not be promised twice, reservations must match orders, coupon limits must hold, the status log must tell what happened. |
| Return and cancellation requests (`order-requests.service.ts`) | `return_requests`, `cancellation_requests`, the order | create, resolve (approve or reject) | Check-then-insert; a resolution written in three transactions; none of it consults the transition table. |
| Transition table (`order-state-machine.ts`) | none | canTransition and predicates | Only updateOrderStatus asserts it. |
| Payments (`modules/payments/payments.service.ts`) | `payments`, `orders.payment_status` and `status`; Razorpay's own orders and payments | initiatePayment, verifyPayment, webhooks payment.captured, payment.failed, refund.created | Calls to a remote system between reads and writes; webhooks late, repeated, in any order; two writes without a transaction. An order must be paid only by captured money, and captured money must be recorded. |
| Inventory (`modules/inventory`) | `inventory.quantity`, `reserved_quantity`, `version` | through orders and catalog | Lost updates; CHECK constraints as the last line of defence. |
| Promotions (`modules/promotions`) | `coupons`, `coupon_usages` | through createOrder | Counters read without a lock. |
| Cart (`modules/cart`) | `cart_items` | read and cleared by createOrder | Two checkouts of one cart. |
| Catalog (`modules/catalog`) | products, variants, image rows, the pool of connections (`database/data-source.ts`) | create, update, remove, addVariant, updateVariant, updateVariantStock, images | Unique slugs by check-then-insert; files deleted before rows; a database connection that is never released (`getDefaultWarehouseId`). |
| Authentication (`modules/auth`) | `users`, `refresh_tokens` | register, login, refresh, logout, logoutAll, resetPassword, Google login | Refresh rotates a token in three steps; revocation races with issue. A token must be used once; logout from everywhere must be final. |
| Addresses (`modules/address`) | `addresses.is_default` | create, update, setDefault, remove | One default per user, kept by two statements without a transaction. |
| Reviews (`modules/reviews`) | `product_reviews`, `products.average_rating`, `review_count` | create, update, delete, moderate | Statistics derived from one snapshot and written in a later statement; one review per user by check-then-insert. |
| Redis cache (`common/services/redis-cache.service.ts`) | keys with a time to live | get, set, del, wrap, acquireLock, releaseLock | A stale fill after an invalidation; a lock released by someone whose lease has expired. Not provided by any module today. |
| Uploads (`modules/uploads`) | files in a directory or in S3 | uploadFile, deleteFile | Files are named by key and know nothing of the rows that list them; any file can be deleted by its key. |
| Notifications, analytics, events | none, or write-only | mail output, reports, log lines | Not concurrent, or nothing depends on them. |

Interactions. createOrder runs one database transaction over orders, inventory,
promotions and the cart; the customer's cancellation releases inventory inside
its own. Payments and the request services write the order row from outside the
orders service. updateVariantStock writes the same inventory rows as createOrder.
Domain events are emitted by `setImmediate` and only logged.

The hazards these give rise to, each with its line and the properties that watch
over it, are listed under `hazards` in `PROJECT.json`.

## Modules

| Module | Role |
|---|---|
| `OrderStateMachine` | The transition table and its predicates, shared by all others. |
| `Checkout` | createOrder, requestCancellation, updateOrderStatus and updateVariantStock on shared inventory rows and one coupon. One step per SQL statement. |
| `CheckoutAccounting` | Properties of `Checkout` that add up what orders hold, and the refinement of the ledger. A sum is the number of pieces, each counted under the name of its order and line. |
| `StockLedger` | The abstract specification: placing and cancelling as single atomic steps. |
| `MCCheckout` | Instances of the checkout for TLC. |
| `CheckoutProofs` | Inductive invariants and theorems about `Checkout`. |
| `CheckoutAccountingProofs` | Counting pieces; reservations are what orders hold. |
| `CheckoutLedgerProofs` | One request at a time, `Checkout` implements `StockLedger`. |
| `OrderLifecycle` | One order after it was placed: status changes, cancellation, return and cancellation requests, payments and webhooks. |
| `MCOrderLifecycle` | Instances of it for TLC. |
| `OrderLifecycleProofs` | Inductive invariants and theorems about `OrderLifecycle` and the transition table. |
| `Sessions`, `MCSessions` | Accounts, refresh tokens, browsers and their cookies: every endpoint of AuthController that changes them. |
| `SessionsProofs` | Inductive invariants and theorems about `Sessions`. |
| `Addresses`, `MCAddresses` | The saved addresses of one customer and which is the default. |
| `AddressesProofs` | Inductive invariants and theorems about `Addresses`. |
| `Catalog` | Products, variants and images as the administrator changes them, with inventory rows and the pool of connections. |
| `Reviews`, `MCReviews` | Reviews and the statistics in the product row; extends `Catalog` and composes both in one `Spec`, because they write the same rows. |
| `ReviewsProofs` | Inductive invariants and theorems about `Reviews`, and so about `Catalog`. |

### How the database is modelled

`Checkout` gives each request (`Procs`) its own session at PostgreSQL's default
isolation, READ COMMITTED. `inv` holds the committed inventory rows, `row` their
latest versions (the writer's, while a transaction has written but not committed
them), `owner` the session that holds the lock of a row. A statement reads
committed data and its own session's writes; an UPDATE waits for the lock, works
on the latest version and keeps the lock until COMMIT or ROLLBACK. A cycle of
waiting sessions is broken by aborting one of them (`DeadlockVictim`). What a
transaction inserts is invisible to others until it commits, so orders and usages
are added when it does. A new value of `used_count` is computed from the latest
version by the UPDATE and becomes visible at COMMIT.

`manager.save(entity)` is the important one. TypeORM first SELECTs the row as it
is now, compares the entity in memory with it column by column, and UPDATEs only
the columns that differ. Therefore

- the entity's values, read earlier, overwrite whatever was written since, in the
  columns that differ (`SaveUpdate`, `Overwrite`);
- a column that happens to agree at the time of the SELECT is left alone, even if
  it changes before the UPDATE (`cols`);
- `lock: { mode: 'optimistic', version: undefined }` compares nothing, and save()
  puts no version in its WHERE clause;
- for a loaded one-to-many relation, rows that exist now and not in the entity are
  orphans: TypeORM tries to set their `order_id` to NULL, NOT NULL refuses it, and
  the transaction fails (`OrphansRefused`). This accident is what protects the
  status log from being overwritten by stale entities.

`Fail` is any error or the death of the server: an open transaction is rolled
back, statements that were committed by themselves stay.

`OrderLifecycle` is about one order and uses coarser steps: from a transaction's
first write of the order row to its COMMIT nothing of it can be seen by others,
and whoever wants to write the row waits, so these statements are one step. What
remains apart are the reads before it, the SELECT and the UPDATE of each save,
calls to Razorpay, and statements that are transactions of their own. Razorpay
and the customer's browser are external: `Pay` is a customer paying an intent
(an order in Razorpay) or failing to, `hooks` the webhooks not yet acknowledged.
Webhooks of payments whose notes name no order do nothing and are left out.

### The other modules

`Sessions`, `Addresses` and `Reviews` use the same step, a statement, and the same
two-statement `save(entity)`. Services outside orders and catalog open no
transactions, so every statement is committed by itself and `Fail` may fall between
any two.

- `Sessions`. A refresh token has a state (live, expired, or dead: revoked or purged);
  a session is a sign-in with all tokens derived from it by rotation. JwtRefreshGuard
  checks the token (`RefreshGuard`), then the service revokes it (`Revoke`) and issues a
  pair (`InsertToken`, `StoreHash`), and the answer sets the cookie (`Respond`): other
  requests, also of the same browser, come in between. Passwords are counted by resets.
  A mailed link stays good however often it is used. The branch for a token whose
  hash does not match revokes everything; a token that was signed here and whose
  record is found always matches, so it is left out.
- `Addresses`. `Clear` is the UPDATE that removes the default, `Insert` or `Select` and
  `UpdateRow` or `Reinsert` the save that follows. A row that was removed between
  `findOne` and `save` is inserted again under its old id. Registration inserts a
  default address without clearing others (`Registering`).
- `Catalog` and `Reviews`. A request is served once and new rows are named after it. A
  transaction keeps a connection (`tx`), every other statement borrows one (`Borrows`),
  `getDefaultWarehouseId` keeps one for good (`leaked`), and whoever finds none free gives up
  after connectionTimeoutMillis (`TimeOut`). Uniqueness is PostgreSQL's: an insert waits
  for a transaction that inserted the same key and fails if that commits. A review row
  is inserted, saved or softly deleted, then the statistics are read (`ReadAggregate`) and
  written (`StoreStats`). Averages are kept as sums, so that equal statistics are equal values.

Variables marked as history are no part of the program; they record what a property
needs to name its exceptions: sessions that ended for a reason (`closed`), rows another
request had in hand when they were removed (`held`), statistics written from an old count
(`unsure`).

## Runs

| Run | Instance | Shows |
|---|---|---|
| `checkout` | 2 requests, 2 customers, 2 variants of 1 piece (lists name one, carts the other), 3 orders and their cancellations, coupon with limit 2, per user 1; the administrator sets a quantity to 0 | `ReservedExactUnlessRaced`: reservations equal what orders hold, where an order that was cancelled gives its pieces back once, except on a variant for which a commit fell between another request's read and its save, or for an order that two cancellations both went through for; `PlacedIfAvailable`: but for such a save, an order is booked only while there is stock for it, also when the quantity is being lowered; `UsedCountExact`, `CouponOvershoot`, `PerUserOvershoot`: the coupon |
| `checkout_serial` | 1 request at a time, 2 variants, 2 orders, administrator changes quantities | `AtomicWhenSerial`: `Checkout` implements `StockLedger` |
| `checkout_live` | 2 requests, 2 orders of 2 variants taken in either order, with cancellations | `RequestsEnd`: no request waits for ever; `StockBounds`: reservations never exceed stock nor go negative |
| `double_release` | 2 requests, 2 orders of 1 customer, 1 variant with 2 pieces | violation of `EarmarkedForPending`: the comment on `reserved_quantity` |
| `oversell` | 2 requests, 1 variant with 2 pieces | violation of `NoOversell`: the comment on the version column |
| `lifecycle` | 2 requests, order shipped or delivered, 1 intent, 1 charge, 3 return requests, 1 cancellation request, two or three logged changes and those already under way | `MilestonesInOrder`, `AppendOnly`, `LogExplainsStatus`, `PaidIsBacked`; `PendingReturnsBounded`: no more returns are pending than there are requests at once |
| `lifecycle_live` | 2 requests, order just placed, 2 intents, 1 charge | `PaidIsBacked`, `CapturedIsRecorded` |
| `cancelled_final` | 1 request at a time, the customer's cancellation, 1 payment | violation of `CancelledIsFinal`: CANCELLED is called terminal |
| `sessions` | 2 requests, 2 browsers, 1 account, 3 refresh tokens, 1 password reset | `OneLivePerSession`: rotation never forks a session; `LogoutEndsSession`: no refresh under way revives one; `SignedInCanRenew`: a browser keeps a usable cookie; `OldPasswordSessionsEnd`: what survives a reset, exactly |
| `addresses` | 2 requests, 3 addresses, with or without a registration under way | `DefaultsBounded`, `DefaultKept`, `RemovedStaysRemoved`: what overlap and failure can do to the default; `SetDefaultHeals`: choosing a default undisturbed repairs it |
| `catalog` | 3 requests of any kind, 3 connections, 1 product with a variant and an image, reviewed or not, 1 customer, 2 SKUs, 2 ratings, 2 slugs for updates | `KeysUnique`, `EveryVariantStocked`, `DeletedStaysDeleted`; `StatsWrongOnlyByRaces`: a product's statistics are those of its reviews once nobody is about to write them, but for the races and failures named; `EveryRequestEnds` |
| `live_stats` | 2 requests that do not fail, 2 customers | violation of `AlwaysLiveStats`: the comment on the statistics |

Bounds. Races are between two requests: a third meets a state that two can
already produce, and where the number matters (the overshoot of limits) the
theorems cover every number. Two orders are the least that compete for stock, and three
let both coupon limits be exceeded: one use by one customer, then two together by the
other, one from a list and one from the cart, which name different variants because the
lock of one row would keep the requests apart before they meet at the coupon. Three pending
returns are one more than two requests should be able to leave. Two intents are
needed for one to replace another; the run that starts with a shipped order, which has
more other requests, has one.
Three refresh tokens are a sign-in, a rotation and another sign-in or rotation.
Three catalog requests are needed to bring back a product and then one of its variants,
and for a transaction to wait for a connection that others hold; with three connections
two slugs can be searched at once. The product slugs `0..|Reqs|` never run out.
`Failing` names the catalog requests that may fail: all of them, or none where the
violation is to be found without a failure. `OrderIds`, `Intents`, `Charges`,
`ReturnIds` and `CancelIds` bound how many rows a run creates; `MaxHistory` bounds how
many changes are begun (it is tested when a request arrives; changes already under way
may exceed it, and a return may be asked for one row later, since only then can a stale
save of `delivered` be followed by two more). Most runs without liveness use symmetry. Deadlock is not checked, since the system may rest: everything has been
ordered, or nothing is left to ask for.

Fairness. `Statement` is strongly fair in `Checkout`: Node's event loop runs
every callback and PostgreSQL grants a lock in the order of the waiters; the
deadlock detector always runs. In `OrderLifecycle` statements are weakly fair and the
delivery of webhooks strongly fair, because Razorpay repeats a webhook until it is
acknowledged; strong fairness of `HandlePaymentCaptured` says that the server does
not die during every single delivery. In `Reviews` every begun request is weakly fair: its next statement, or the pool's
timer (`connectionTimeoutMillis`) where it cannot have a connection, comes about;
nothing makes a request begin. Nothing is assumed of `Fail`, of customers or
of the administrator.

## What the violations show

- `oversell`: both requests read 2 pieces with 0 reserved, both save
  `reserved = 2`. The order is promised twice, `reserved_quantity` counts it once, and
  cancelling both orders later makes the CHECK refuse the second cancellation.
- `double_release`: two requests of the customer read the same pending order as
  cancellable, before either transaction has begun; both SELECTs of `save` see the
  status log they loaded, the second UPDATE waits for the first to commit and then goes
  through, and `releaseInventory` runs twice. The second release takes the reservation
  of another order, which stays pending with nothing earmarked for it. No save was
  raced: this is a second way to a wrong `reserved_quantity`, and
  `ReservedExactUnlessRaced` says that there is no third.
- `cancelled_final`: a payment captured after the customer's cancellation (the payment
  page was open) sets the order to `confirmed`; the stock was released.
- `live_stats`: two customers post reviews of a product. The first request counts one
  review, the second counts two and stores that, then the first stores its one. It
  stays so until somebody changes a review of the product. `StatsWrongOnlyByRaces`
  names the other two ways: a product update that was loaded before writes the older
  statistics back (`products.service.ts:266`), and a request dies between the review
  and the statistics.

The comment `Prevent duplicate pending return request` (`order-requests.service.ts:56`)
does not hold either, for the check and the insert are two statements.
`PendingReturnsBounded` is what does: requests that overlap may all be left pending,
and no others join them.

Two facts found by looking for stronger properties, about which no comment says
anything: a status change by the administrator that loaded the order before a payment
was recorded writes `paymentStatus = pending` back, and the payments row may be marked
paid with no payment id after the customer's cancellation wrote its stale copy back.
`CapturedIsRecorded` and `PaidIsBacked` say what is left.

The other modules found more of this kind, about cases no comment mentions; they are
the exceptions their properties spell out. A login that has checked the old
password, or a refresh between its two writes, keeps its session through a password
reset made at that moment, and a reset that dies between storing the password and
revoking the tokens leaves all of them (`OldPasswordSessionsEnd`). A review edited while it is deleted comes back, since save writes `deleted_at =
NULL` (`DeletedStaysDeleted`); a product or an address updated while it is deleted is
inserted again, the product without variants. A variant updated while its
product went and came back has no inventory row (`EveryVariantStocked`). Also, the
administrator's endpoint calls its deletion of a product soft
(`modules/catalog/products.controller.ts:177`); the service deletes the row
(`products.service.ts:303`).

## What is proved

TLAPS checks every step of the seven modules named `...Proofs`. The theorems hold for
every number of requests, customers, browsers, rows, orders and payments and every
limit; they assume only the named assumptions of the modules, which TLC evaluates in
every run:

| Module | Assumption | Says |
|---|---|---|
| `Checkout` | `ParametersAssumption` | The parameters have their types, and there are finitely many requests. |
| | `RowsAssumption` | Rows of different tables differ, and null is no row. |
| `OrderLifecycle` | `RequestsAssumption` | There are finitely many requests and return requests. |
| | `PathsAssumption` | The history an order starts with follows the transition table. |
| | `NothingAssumption` | The values that stand for null are no rows. |
| `Sessions` | `SessionsAssumption` | The parameters have their types; a null is nothing else. |
| `Addresses` | `AddressesAssumption` | At least one address may be saved. |
| `Catalog` | `CatalogAssumption`, `AbsentAssumption` | The parameters have their types; there are finitely many requests and customers, and nobody is named like a row. |

Checkout (`CheckoutProofs`)

| Theorem | States | Argument |
|---|---|---|
| `TypeCorrect` | `TypeOK` | `TypeInv` adds what a request has in hand at each statement (`TxInv`): which kind of request is at which label, that a save has a line and a row it read, that no two requests create the same order. |
| `StockBounded` | `StockBounds`, if the administrator changes no quantity (`StockLevels = {}`) | `StockBounds` is not inductive: a save writes a value computed from an older version. `BoundsInv` adds that every such value is itself within the bounds: the check was made on the very version it was computed from, and the quantity has not changed since. |
| `UsedCountIsExact` | `UsedCountExact` | `CountInv`: whoever is about to write `used_count` has held the coupon's lock since it read it. |
| `CouponLimit`, `PerUserLimitBound` | `CouponOvershoot`, `PerUserOvershoot`: N requests exceed a limit by at most N - 1 | `LimitInv` counts the requests that passed the check and have not committed together with the usages: the one that passes last saw fewer usages than the limit, and at most N - 1 others are under way. |

The condition of `StockBounded` is needed: `updateVariantStock` lowers a quantity
without looking at what others are about to reserve, and only the CHECK constraint,
which `TypeOK` includes, remains.

Stock and orders (`CheckoutAccountingProofs`, `CheckoutLedgerProofs`)

| Theorem | States | Argument |
|---|---|---|
| `ReservationsExact` | `ReservedExactUnlessRaced` | What a sum over orders comes to takes induction; the number of elements of a set does not: an order that is placed, or a cancellation, adds a block of pieces under a name of its own (`AddBlock`), and one more line adds its quantity (`TotalStep`). `Account` follows the transaction in between: its uncommitted version of a row differs from the committed one by what the lines it has gone through ask for (`Moved`), unless the row was raced; an undisturbed save knows the reservations it computes from (`Knows`). At its commit all lines are done, and `DemandInv` moves by the same amount as `reserved`. `DemandInv` counts every cancellation, as the code does; it is the invariant because it needs no exception. Where no order was cancelled twice, what cancellations gave back and what cancelled orders hold are the same number (`GivenOnce`). |
| `OrdersCanBeServed` | `PlacedIfAvailable`, an action property | The check is made when the row is read, the promise when it is committed. `Checked`: a creation's save that no commit has raced still knows its row, and that it has what the line asks for, and writes reservations only, so the administrator's quantity survives. `InStock`: the row it wrote is its own until it commits, and has the pieces. By `Account` an order with pieces of a variant holds the variant's row when it commits. |
| `SerialImplementsLedger` | `AtomicWhenSerial`, for one request at a time (`Procs = {p}`) | To `Account`, `Serial` adds what being alone gives: the save knows the whole row (`SavesFresh`), a creation has written reservations only and only available ones (`Written`, `Available`), and the status checked before the transaction is still the order's (`Allowed`). Then a commit is `Place`, `Cancel`, `Move` or `SetQuantity`, and everything else, every rollback included, leaves the ledger as it was. |

With two requests the refinement is false; `oversell` shows how.

Life cycle (`OrderLifecycleProofs`)

| Theorem | States | Argument |
|---|---|---|
| `TypeCorrect` | `TypeOK` | `TypeInv` adds `HandInv`: a save never has seen more rows of the log than there are, and at its UPDATE it has seen all; a request that goes on from an existing payments row finds one. |
| `LogIsAppendOnly` | `AppendOnly` | Every step leaves the log alone or adds one row. For a save this is `SaveAppends`: it writes its copy, the rows between its copy and the SELECT are missing from it, and the refused orphans make sure that there are none. |
| `MilestonesNeverSkipped` | `MilestonesInOrder` | `MileInv`: whatever status a request is going to write, its milestones are in the log since the request arrived, and the log forgets nothing. The table alone does not give this, since three services do not ask it; the initial histories are covered by a least counterexample in the path (`PathInOrder`). |
| `PaidOnlyIfCaptured` | `PaidIsBacked` | `PaidInv`: every copy of the payment status or the payments row that a request may write back was true when it was made; a captured payment stays captured and a delivery stays in the log. |
| `PendingReturnsStayFew` | `PendingReturnsBounded` | `PendingInv` adds the requests that are about to insert to the returns that are pending: the check passes only when nothing is pending, and from then on each request can insert one. |
| `LogKeepsUp` | `LogExplainsStatus` | `LogInv` with `PaidInv`: a save with a complete copy of the log still has its change to make, because every status written since would have lengthened the log, and the save would have been refused; what changes the status without the log is a captured payment or an approved return. |

Sessions (`SessionsProofs`)

| Theorem | States | Argument |
|---|---|---|
| `TypeCorrect` | `TypeOK` | `TypeInv` adds what each request holds at its statement. |
| `RotationNeverForks` | `OneLivePerSession` | `OneHolder`: of a session's live token, the tokens that will be made from a revoked one, and those expired, there is at most one. Expired tokens must be counted, since a rotation may revoke a token that expired after the guard looked; revoking and finding it alive are one UPDATE, and only its winner goes on. |
| `LogoutIsFinal` | `LogoutEndsSession` | `LogoutFinal`: no request still renews a session that was signed out: the logout and the rotation compete for the same revocation. |
| `RenewalSurvivesRaces` | `SignedInCanRenew` | `OneCarrier`: a token that is being issued is in no cookie and in nobody else's hands, and a cookie's token is on one device only; so an answer that arrives late cannot take another browser's session with it. |
| `ResetEndsOldSessions` | `OldPasswordSessionsEnd` | `OldPasswords`: of every row a request is going to insert it is known whether it belongs to the old password; whatever the revocation did not see is either excused by name or already dead. |

Addresses (`AddressesProofs`)

| Theorem | States | Argument |
|---|---|---|
| `TypeCorrect` | `TypeOK` | `HandInv`: what a request has in hand. |
| `RemovedForGood` | `RemovedStaysRemoved` | `RemovedHeld`: a row that was removed is in no request's hands but theirs who held it when it was removed. |
| `RacesBoundDefaults` | `DefaultsBounded` | `Calm`: what a request that no other has disturbed knows of the table, between clearing the default and setting the new one. |
| `DefaultIsKept` | `DefaultKept` | `DefaultComing`, with `Calm`: where a customer with addresses has no default, somebody is about to set one, or the reason is recorded. |
| `SetDefaultLeavesOne` | `SetDefaultHeals`, an action property | From `Calm`: after its `Clear` nothing but the row it will write is a default. |

Reviews and catalog (`ReviewsProofs`)

| Theorem | States | Argument |
|---|---|---|
| `TypeCorrect` | `TypeOK` | Requests, tables and pool each have their part (`RequestsOK`, `TablesOK`, `PoolOK`); the pool is never over-committed, since open transactions, kept connections and leaked ones are counted together. `SlugsSuffice`: a slug is passed over only if some request was given it, so the numbers do not run out. |
| `KeysStayUnique` | `KeysUnique` | `Sound` gives the rows their types and keeps every row's product in place; `SlugsUnique`, `SkusUnique` and `ReviewsUnique` count pending inserts too. Two transactions never have the same key pending, and none has one that is committed; the look-up before contributes nothing. |
| `OnlyStaleSavesRevive` | `DeletedStaysDeleted` | `Deletions`: a row that is back was in some request's hand (`Holds`) when it was deleted. |
| `VariantsComeWithStock` | `EveryVariantStocked` | The same, for the variant that is saved after its product went. |
| `StatsAreLiveButForRaces` | `StatsWrongOnlyByRaces` | `CountsRight`: a count that no change of the reviews has crossed since it was taken is the current one; whoever changes a review owes a count. |

## Only model-checked

The liveness properties `RequestsEnd`, `CapturedIsRecorded` and `EveryRequestEnds`
(liveness under fairness and ENABLED are outside what the prover supports), and the
violations, which are counterexamples.

## Not modelled

- Prices, totals, taxes and the size of a discount; validity dates of coupons.
- createOrder's cart deletion uses the criterion `{ cart: { userId } }`, which
  TypeORM may refuse for a delete; the model contains both outcomes (`CommitOrder` and
  `Fail`).
- The pool in `Checkout`, and the inventory row that updateVariantStock creates when
  there is none.
- E-mail verification, roles, names and avatars of accounts; expiry of access tokens;
  `createForUser` and `purgeExpiredTokens` have no caller (the purge is modelled, since its
  comment announces a job).
- Attributes, collections, categories and prices of products; `addImages`, which only
  inserts.
- Files. `DELETE /uploads/:key` deletes any file, listed or not, two products may list
  one address, and `remove` goes on where a file could not be deleted: which files are
  there does not follow from the rows, and nothing modelled depends on it.
- The Redis cache: no module provides the service.
- Read-only endpoints, analytics, notifications, listeners (they only log),
  the entities nothing writes, configuration and HTTP wiring.

## Plan

1. How far two or more requests at once may promise more than there is, and a ledger
   that allows exactly that, refined by `Checkout` without the condition of one request
   at a time.
2. Two checkouts of one cart, late webhooks of an earlier attempt: hazards that so far
   only a note describes.
3. Pricing of an order as a pure function with its bounds.
4. E-mail verification, with links that expire.
