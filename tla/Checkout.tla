------------------------------ MODULE Checkout ------------------------------
(***************************************************************************)
(* Placing and cancelling orders against shared stock and a shared coupon. *)
(*                                                                         *)
(* Each process is one request of the API server on a PostgreSQL session   *)
(* of its own, at READ COMMITTED.  A step is one SQL statement:            *)
(*   - a statement reads the committed rows and the session's own writes;  *)
(*   - UPDATE takes the row's lock, keeps it until the transaction ends    *)
(*     and waits while another session holds it;                           *)
(*   - manager.save(entity) is two statements: a SELECT of the row as it   *)
(*     is now, then an UPDATE of the columns in which the entity in memory *)
(*     differs from that SELECT.  What the entity holds was read earlier.  *)
(*     (The version column is written like any other and compared by       *)
(*     nobody: the lock option of reserveInventory has no version, so      *)
(*     TypeORM checks none.)  A row somebody else changed always differs   *)
(*     in version and updated_at, so the UPDATE is issued, and locks, even *)
(*     when neither column modelled here is in it.                         *)
(***************************************************************************)
EXTENDS Integers, FiniteSets, Sequences, OrderStateMachine

CONSTANTS
  Procs,          \* concurrent requests, each on a database session
  Users,          \* customers
  Variants,       \* product variants, each with one inventory row
  OrderIds,       \* ids of the orders that may be placed: bounds the run
  Baskets,        \* the line lists an order may ask for (dto.items)
  InitialStock,   \* quantity of each variant when the run starts
  InitialCart,    \* the line list in each user's cart (empty: no cart)
  StockLevels,    \* quantities the admin may set (PATCH .../stock)
  AdminTargets,   \* statuses the admin may ask for (PATCH .../status)
  UsageLimit,     \* coupons.usage_limit; 0 stands for 0 and for NULL
  PerUserLimit,   \* coupons.per_user_limit
  COUPON,         \* the coupon row
  NONE            \* no owner, no order

Line == [variant: Variants, quantity: Nat \ {0}]

Order == [user: Users, items: Seq(Line), status: OrderStatus,
          history: Seq([to: OrderStatus, by: {"customer", "admin"}])]

ASSUME ParametersAssumption ==
  /\ IsFiniteSet(Procs) /\ Procs # {}
  /\ Baskets \subseteq Seq(Line) \ {<<>>}
  /\ InitialStock \in [Variants -> Nat]
  /\ InitialCart \in [Users -> Seq(Line)]
  /\ StockLevels \subseteq Nat
  /\ AdminTargets \subseteq OrderStatus
  /\ UsageLimit \in Nat
  /\ PerUserLimit \in Nat

ASSUME RowsAssumption ==
  /\ NONE \notin Procs \cup Order
  /\ Variants \cap OrderIds = {}
  /\ COUPON \notin Variants \cup OrderIds

\* The rows whose locks matter.
Rows == Variants \cup OrderIds \cup {COUPON}

\* CHECK constraints of the table: neither column is negative.
InventoryRow == [quantity: Nat, reserved: Nat]

VARIABLES
  inv,        \* committed inventory rows
  row,        \* their latest versions: the lock holder's where one writes
  owner,      \* the session that holds each row's lock
  order,      \* committed orders with their items and status history
  usedCount,  \* committed coupons.used_count
  usages,     \* committed coupon_usages rows
  cart,       \* committed cart items of each user
  tx,         \* the request each process is serving
  raced       \* history: variants whose row somebody committed between the
              \* SELECT and the UPDATE of another request's save

vars == <<inv, row, owner, order, usedCount, usages, cart, tx, raced>>

Idle == [pc |-> "idle"]

\* What process p reads of variant v's row.
Read(p, v) == IF owner[v] = p THEN row[v] ELSE inv[v]

\* Mutant of CanLock: an update that locks nothing.
NeverWaits(p, r) == TRUE

CanLock(p, r) == owner[r] \in {NONE, p}

Init ==
  /\ inv = [v \in Variants |-> [quantity |-> InitialStock[v], reserved |-> 0]]
  /\ row = inv
  /\ owner = [r \in Rows |-> NONE]
  /\ order = [o \in OrderIds |-> NONE]
  /\ usedCount = 0
  /\ usages = {}
  /\ cart = InitialCart
  /\ tx = [p \in Procs |-> Idle]
  /\ raced = {}

-----------------------------------------------------------------------------
(* Transactions.                                                           *)

\* Mutants of Rollback: writes made outside the transaction's manager, which
\* survive it; a session returned to the pool with its transaction open.
RollbackKeepsWrites(p) ==
  /\ owner' = [r \in Rows |-> IF owner[r] = p THEN NONE ELSE owner[r]]
  /\ inv' = [v \in Variants |-> IF owner[v] = p THEN row[v] ELSE inv[v]]
  /\ tx' = [tx EXCEPT ![p] = Idle]
  /\ UNCHANGED <<row, order, usedCount, usages, cart, raced>>

RollbackKeepsLocks(p) ==
  /\ tx' = [tx EXCEPT ![p] = Idle]
  /\ UNCHANGED <<inv, row, owner, order, usedCount, usages, cart, raced>>

\* ROLLBACK: the session's writes vanish and its locks are released.
Rollback(p) ==
  /\ owner' = [r \in Rows |-> IF owner[r] = p THEN NONE ELSE owner[r]]
  /\ row' = [v \in Variants |-> IF owner[v] = p THEN inv[v] ELSE row[v]]
  /\ tx' = [tx EXCEPT ![p] = Idle]
  /\ UNCHANGED <<inv, order, usedCount, usages, cart, raced>>

\* Some other request has read v's row and not yet written it back.
Saving(p, v) == \E q \in Procs \ {p} : /\ tx[q].pc \in {"select", "update"}
                                       /\ Head(tx[q].lines).variant = v

\* COMMIT, as far as the inventory rows and the locks are concerned.
CommitRows(p) ==
  /\ owner' = [r \in Rows |-> IF owner[r] = p THEN NONE ELSE owner[r]]
  /\ inv' = [v \in Variants |-> IF owner[v] = p THEN row[v] ELSE inv[v]]
  /\ raced' = raced \cup {v \in Variants : owner[v] = p /\ Saving(p, v)}
  /\ tx' = [tx EXCEPT ![p] = Idle]
  /\ UNCHANGED row

Goto(p, label) == tx' = [tx EXCEPT ![p].pc = label]

database == <<inv, row, owner, order, usedCount, usages, cart, raced>>

\* An error of the driver, the server dying, or a validation that fails
\* (user, address, variant or coupon missing): any request may end so.
Fail(p) == tx[p].pc # "idle" /\ Rollback(p)

\* The row a process waits for: it is about to update it.
Awaits(p) ==
  CASE tx[p].pc \in {"update", "release"} /\ tx[p].lines # <<>>
                                  -> {Head(tx[p].lines).variant}
    [] tx[p].pc = "updateOrder"   -> {tx[p].id}
    [] tx[p].pc = "increment"     -> {COUPON}
    [] OTHER                      -> {}

Blockers(p) == {owner[r] : r \in Awaits(p)} \ {NONE, p}

\* PostgreSQL's deadlock detector aborts a session that waits in a cycle.
DeadlockVictim(p) ==
  /\ \E S \in SUBSET Procs : /\ p \in S
                             /\ \A q \in S : Blockers(q) # {}
                             /\ S = UNION {Blockers(q) : q \in S}
  /\ Rollback(p)

-----------------------------------------------------------------------------
(* Saving an inventory row: createOrder and updateVariantStock.            *)

Variant(p) == Head(tx[p].lines).variant

\* The entity in memory: the row as it was read, with this request's change.
Entity(p) ==
  IF tx[p].op = "stock"
  THEN [tx[p].base EXCEPT !.quantity = tx[p].level]
  ELSE [tx[p].base EXCEPT !.reserved = @ + Head(tx[p].lines).quantity]

\* manager.save, first statement: which columns does the entity change?
SaveSelect(p) ==
  /\ tx[p].pc = "select"
  /\ tx' = [tx EXCEPT ![p].pc = "update",
                      ![p].cols = {c \in {"quantity", "reserved"} :
                                     Entity(p)[c] # Read(p, Variant(p))[c]}]
  /\ UNCHANGED database

\* manager.save, second statement: write those columns under the row's lock.
SaveUpdate(p) ==
  LET v == Variant(p)
  IN /\ tx[p].pc = "update"
     /\ CanLock(p, v)
     /\ owner' = [owner EXCEPT ![v] = p]
     /\ row' = [row EXCEPT ![v] =
                  [c \in {"quantity", "reserved"} |->
                     IF c \in tx[p].cols THEN Entity(p)[c] ELSE row[v][c]]]
     /\ tx' = [tx EXCEPT ![p].pc = "next", ![p].lines = Tail(@)]
     /\ UNCHANGED <<inv, order, usedCount, usages, cart, raced>>

-----------------------------------------------------------------------------
(* createOrder.                                                            *)

\* BEGIN; load the user, the address and the lines (dto.items or the cart).
CreateOrder(p, u, items, coupon) ==
  LET lines == IF items = <<>> THEN cart[u] ELSE items
  IN /\ tx[p].pc = "idle"
     /\ lines # <<>>
     /\ \E o \in OrderIds :
          /\ order[o] = NONE
          /\ \A q \in Procs : tx[q].pc # "idle" => tx[q].id # o
          /\ tx' = [tx EXCEPT ![p] =
                      [pc |-> "next", op |-> "create", id |-> o, user |-> u,
                       items |-> lines, lines |-> lines,
                       fromCart |-> items = <<>>, coupon |-> coupon,
                       base |-> NONE, cols |-> {}, used |-> 0]]
     /\ UNCHANGED database

\* Mutant of Insufficient: an off-by-one.
InsufficientByOne(read, line) == read.quantity - read.reserved + 1 < line.quantity

Insufficient(read, line) == read.quantity - read.reserved < line.quantity

\* reserveInventory, next line: read the row and check what is available.
ReserveFind(p) ==
  LET read == Read(p, Variant(p))
  IN /\ tx[p].pc = "next" /\ tx[p].op = "create"
     /\ tx[p].lines # <<>>
     /\ IF Insufficient(read, Head(tx[p].lines))
        THEN Rollback(p)
        ELSE /\ tx' = [tx EXCEPT ![p].pc = "select", ![p].base = read]
             /\ UNCHANGED database

LimitReached == UsageLimit # 0 /\ usedCount >= UsageLimit

\* applyCoupon: the coupon row, read without a lock.
ApplyCoupon(p) ==
  /\ tx[p].pc = "next" /\ tx[p].op = "create"
  /\ tx[p].lines = <<>>
  /\ tx[p].coupon
  /\ IF LimitReached
     THEN Rollback(p)
     ELSE Goto(p, "userLimit") /\ UNCHANGED database

UsagesOf(u) == {x \in usages : x.user = u}

\* Mutant of UserLimitReached: an off-by-one.
UserLimitPassed(u) == Cardinality(UsagesOf(u)) > PerUserLimit

UserLimitReached(u) == Cardinality(UsagesOf(u)) >= PerUserLimit

\* applyCoupon: the count of this user's committed usages.
CheckPerUserLimit(p) ==
  /\ tx[p].pc = "userLimit"
  /\ IF UserLimitReached(tx[p].user)
     THEN Rollback(p)
     ELSE Goto(p, "increment") /\ UNCHANGED database

\* Mutant of IncrementUsedCount: applyCoupon increments as well.
IncrementTwice(p) ==
  /\ tx[p].pc = "increment"
  /\ CanLock(p, COUPON)
  /\ owner' = [owner EXCEPT ![COUPON] = p]
  /\ tx' = [tx EXCEPT ![p].pc = "commit", ![p].used = usedCount + 2]
  /\ UNCHANGED <<inv, row, order, usedCount, usages, cart, raced>>

\* Insert order, items, history and usage, which nobody else sees yet, and
\* add one to the latest used_count, under the coupon row's lock.
IncrementUsedCount(p) ==
  /\ tx[p].pc = "increment"
  /\ CanLock(p, COUPON)
  /\ owner' = [owner EXCEPT ![COUPON] = p]
  /\ tx' = [tx EXCEPT ![p].pc = "commit", ![p].used = usedCount + 1]
  /\ UNCHANGED <<inv, row, order, usedCount, usages, cart, raced>>

\* Clear the cart if it was the source of the lines; COMMIT.
CommitOrder(p) ==
  LET t == tx[p]
  IN /\ \/ t.pc = "next" /\ t.op = "create" /\ t.lines = <<>> /\ ~t.coupon
        \/ t.pc = "commit"
     /\ order' = [order EXCEPT ![t.id] =
                    [user |-> t.user, items |-> t.items, status |-> "pending",
                     history |-> <<[to |-> "pending", by |-> "customer"]>>]]
     /\ usages' = IF t.coupon THEN usages \cup {[user |-> t.user, id |-> t.id]}
                  ELSE usages
     /\ usedCount' = IF t.coupon THEN t.used ELSE usedCount
     /\ cart' = IF t.fromCart THEN [cart EXCEPT ![t.user] = <<>>] ELSE cart
     /\ CommitRows(p)

-----------------------------------------------------------------------------
(* requestCancellation and updateOrderStatus.                              *)

StatusChange(o, to, by) ==
  [pc |-> "selectOrder", op |-> "status", id |-> o, to |-> to, by |-> by,
   seen |-> Len(order[o].history), lines |-> <<>>]

\* The order is read, and its status checked, before the transaction begins.
RequestCancellation(p, u, o) ==
  /\ tx[p].pc = "idle"
  /\ order[o] # NONE
  /\ order[o].user = u
  /\ IsCancellableByCustomer(order[o].status)
  /\ tx' = [tx EXCEPT ![p] = StatusChange(o, "cancelled", "customer")]
  /\ UNCHANGED database

\* The administrator's change: read and checked inside the transaction.
UpdateOrderStatus(p, o, to) ==
  /\ tx[p].pc = "idle"
  /\ order[o] # NONE
  /\ CanTransition(order[o].status, to)
  /\ tx' = [tx EXCEPT ![p] = StatusChange(o, to, "admin")]
  /\ UNCHANGED database

\* manager.save(Order), first statement.  A history row that was not there
\* when the order was loaded counts as removed from the relation: the save
\* then sets its order_id to NULL, which the column does not allow.
SelectOrder(p) ==
  /\ tx[p].pc = "selectOrder"
  /\ IF Len(order[tx[p].id].history) > tx[p].seen
     THEN Rollback(p)
     ELSE Goto(p, "updateOrder") /\ UNCHANGED database

\* manager.save(Order), second statement, then the insert of the history
\* row.  The customer's cancellation goes on to releaseInventory, which
\* reads the order's (immutable) items; nobody else's does.
UpdateOrder(p) ==
  LET o == tx[p].id
  IN /\ tx[p].pc = "updateOrder"
     /\ CanLock(p, o)
     /\ owner' = [owner EXCEPT ![o] = p]
     /\ tx' = [tx EXCEPT ![p].pc = "release",
                         ![p].lines = IF tx[p].by = "customer"
                                      THEN order[o].items ELSE <<>>]
     /\ UNCHANGED <<inv, row, order, usedCount, usages, cart, raced>>

\* Mutant of CheckRefuses: the table without its CHECK constraint.
NeverRefuses(v, n) == FALSE

CheckRefuses(v, n) == row[v].reserved < n

\* releaseInventory, next line: reserved = reserved - n in the database;
\* CHECK (reserved_quantity >= 0) may refuse it.
ReleaseInventory(p) ==
  LET v == Variant(p)
      n == Head(tx[p].lines).quantity
  IN /\ tx[p].pc = "release"
     /\ tx[p].lines # <<>>
     /\ CanLock(p, v)
     /\ IF CheckRefuses(v, n)
        THEN Rollback(p)
        ELSE /\ owner' = [owner EXCEPT ![v] = p]
             /\ row' = [row EXCEPT ![v].reserved = @ - n]
             /\ tx' = [tx EXCEPT ![p].lines = Tail(@)]
             /\ UNCHANGED <<inv, order, usedCount, usages, cart, raced>>

CommitStatus(p) ==
  LET t == tx[p]
  IN /\ t.pc = "release"
     /\ t.lines = <<>>
     /\ order' = [order EXCEPT ![t.id].status = t.to,
                               ![t.id].history =
                                  Append(@, [to |-> t.to, by |-> t.by])]
     /\ CommitRows(p)
     /\ UNCHANGED <<usedCount, usages, cart>>

-----------------------------------------------------------------------------
(* updateVariantStock: the new quantity is saved outside any transaction.  *)

UpdateVariantStock(p, v, level) ==
  /\ tx[p].pc = "idle"
  /\ tx' = [tx EXCEPT ![p] =
              [pc |-> "select", op |-> "stock", id |-> NONE, level |-> level,
               lines |-> <<[variant |-> v, quantity |-> 1]>>,
               base |-> inv[v], cols |-> {}]]
  /\ UNCHANGED database

CommitStock(p) ==
  /\ tx[p].pc = "next" /\ tx[p].op = "stock"
  /\ CommitRows(p)
  /\ UNCHANGED <<order, usedCount, usages, cart>>

-----------------------------------------------------------------------------

\* A request arrives.
Request(p) ==
  \/ \E u \in Users, items \in Baskets \cup {<<>>}, coupon \in BOOLEAN :
       CreateOrder(p, u, items, coupon)
  \/ \E u \in Users, o \in OrderIds : RequestCancellation(p, u, o)
  \/ \E o \in OrderIds, to \in AdminTargets : UpdateOrderStatus(p, o, to)
  \/ \E v \in Variants, level \in StockLevels : UpdateVariantStock(p, v, level)

\* The request that p is serving executes its next statement.
Statement(p) ==
  \/ ReserveFind(p) \/ SaveSelect(p) \/ SaveUpdate(p)
  \/ ApplyCoupon(p) \/ CheckPerUserLimit(p) \/ IncrementUsedCount(p)
  \/ CommitOrder(p)
  \/ SelectOrder(p) \/ UpdateOrder(p) \/ ReleaseInventory(p) \/ CommitStatus(p)
  \/ CommitStock(p)

Next == \E p \in Procs : Request(p) \/ Statement(p) \/ Fail(p) \/ DeadlockVictim(p)

Spec == Init /\ [][Next]_vars

\* The event loop runs every callback; a lock is granted in the order of the
\* waiters; the deadlock detector runs once a waiter has waited a second.
Fairness == \A p \in Procs : /\ SF_vars(Statement(p))
                             /\ WF_vars(DeadlockVictim(p))

FairSpec == Spec /\ Fairness

-----------------------------------------------------------------------------
(* Properties.                                                             *)

Columns == {"quantity", "reserved"}

CreateTx ==
  [pc: {"next", "select", "update", "userLimit", "increment", "commit"},
   op: {"create"}, id: OrderIds, user: Users, items: Seq(Line),
   lines: Seq(Line), fromCart: BOOLEAN, coupon: BOOLEAN,
   base: InventoryRow \cup {NONE}, cols: SUBSET Columns, used: Nat]

StatusTx ==
  [pc: {"selectOrder", "updateOrder", "release"}, op: {"status"},
   id: OrderIds, to: OrderStatus, by: {"customer", "admin"}, seen: Nat,
   lines: Seq(Line)]

StockTx ==
  [pc: {"select", "update", "next"}, op: {"stock"}, id: {NONE},
   level: StockLevels, lines: Seq(Line), base: InventoryRow,
   cols: SUBSET Columns]

\* Every variable has its type.
TypeOK ==
  /\ inv \in [Variants -> InventoryRow]
  /\ row \in [Variants -> InventoryRow]
  /\ owner \in [Rows -> Procs \cup {NONE}]
  /\ order \in [OrderIds -> Order \cup {NONE}]
  /\ usedCount \in Nat
  /\ usages \subseteq [user: Users, id: OrderIds]
  /\ cart \in [Users -> Seq(Line)]
  /\ tx \in [Procs -> CreateTx \cup StatusTx \cup StockTx \cup {Idle}]
  /\ raced \subseteq Variants

(***************************************************************************)
(* No interleaving makes the stock columns contradict each other: a        *)
(* reservation is never negative and never exceeds the quantity, even when *)
(* requests overwrite each other's.  (While the administrator leaves the   *)
(* quantity alone: updateVariantStock does not look at reservations.)      *)
(***************************************************************************)
StockBounds ==
  \A v \in Variants : 0 <= inv[v].reserved /\ inv[v].reserved <= inv[v].quantity

(***************************************************************************)
(* used_count is the number of coupon_usages rows: no increment is lost    *)
(* when requests overlap, and none outlives the rollback of its order.     *)
(***************************************************************************)
UsedCountExact == usedCount = Cardinality(usages)

(***************************************************************************)
(* applyCoupon reads used_count without a lock, so requests that checked   *)
(* it together may all pass: the limit is overrun, by less than the number *)
(* of requests served at once and no further.                              *)
(***************************************************************************)
CouponOvershoot ==
  UsageLimit # 0 => usedCount <= UsageLimit + Cardinality(Procs) - 1

(***************************************************************************)
(* So is the limit per user.                                               *)
(***************************************************************************)
PerUserOvershoot ==
  \A u \in Users :
    Cardinality(UsagesOf(u)) <= PerUserLimit + Cardinality(Procs) - 1

(***************************************************************************)
(* Every request ends, whatever locks the others hold: waiting in a cycle  *)
(* is broken by the deadlock detector.                                     *)
(***************************************************************************)
RequestsEnd ==
  \A p \in Procs : tx[p].pc # "idle" ~> tx[p].pc = "idle"
=============================================================================
