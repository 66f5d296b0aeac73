------------------------- MODULE CheckoutAccounting -------------------------
(***************************************************************************)
(* What the checkout has to keep straight of stock and orders: properties  *)
(* that count the pieces of the orders, and the abstract ledger.           *)
(***************************************************************************)
EXTENDS Checkout

Placed == {o \in OrderIds : order[o] # NONE}

\* The pieces of variant v that the first k lines ask for, one by one.
Pieces(lines, k, v) ==
  UNION {{i} \X (1..lines[i].quantity) : i \in {j \in 1..k : lines[j].variant = v}}

\* How much of v the first k lines ask for, and how much all of them do.
TotalTo(lines, k, v) == Cardinality(Pieces(lines, k, v))
Total(lines, v) == TotalTo(lines, Len(lines), v)

PiecesOf(o, v) == Pieces(order[o].items, Len(order[o].items), v)

\* The rows of o's history for a customer's cancellation that went through.
Cancellations(o) ==
  {i \in DOMAIN order[o].history :
     order[o].history[i] = [to |-> "cancelled", by |-> "customer"]}

Ordered(v) == UNION {{o} \X PiecesOf(o, v) : o \in Placed}

\* Pieces given back: an order that was cancelled gives its own, once.
GivenBack(v) ==
  UNION {{o} \X PiecesOf(o, v) : o \in {o \in Placed : Cancellations(o) # {}}}

CancelledTwice == {o \in Placed : \E i, j \in Cancellations(o) : i # j}

Demand(v) == Cardinality(Ordered(v)) - Cardinality(GivenBack(v))

(***************************************************************************)
(* reserved_quantity is what orders reserved less what cancelled orders    *)
(* gave back, through every rollback, deadlock and refused line.  Two      *)
(* races make it wrong: on a variant where a commit fell between another   *)
(* request's read of the row and its save, and on one of an order that two *)
(* cancellations both went through for (EarmarkedForPending shows how).    *)
(***************************************************************************)
ReservedExactUnlessRaced ==
  \A v \in Variants \ raced :
    (\A o \in CancelledTwice : PiecesOf(o, v) = {}) => inv[v].reserved = Demand(v)

(***************************************************************************)
(* An order is booked only if all its lines can be had from the stock as   *)
(* it is then, whatever quantity the administrator has set meanwhile:      *)
(* again only a lost update promises what is not there.                    *)
(***************************************************************************)
PlacedIfAvailable ==
  [][\A o \in OrderIds, v \in Variants \ raced' :
       order[o] = NONE /\ order'[o] # NONE /\ PiecesOf(o, v)' # {} =>
         inv'[v].reserved <= inv'[v].quantity]_vars

(***************************************************************************)
(* inventory.entity.ts says the version column prevents race conditions on *)
(* concurrent stock updates.  It would if the orders that were never       *)
(* cancelled asked for no more than the stock they were checked against.   *)
(***************************************************************************)
Committed(v) ==
  Cardinality(UNION {{o} \X PiecesOf(o, v) :
                       o \in {o \in Placed : order[o].status # "cancelled"}})

NoOversell == \A v \in Variants : Committed(v) <= inv[v].quantity

(***************************************************************************)
(* inventory.entity.ts:33 calls reserved_quantity the stock earmarked for  *)
(* pending orders.  It is less than they wait for, also where no save was  *)
(* raced: requestCancellation reads the order before its transaction, so   *)
(* two of them give the stock of one order back twice, and the second time *)
(* it is the stock of another.                                             *)
(***************************************************************************)
Pending(v) ==
  UNION {{o} \X PiecesOf(o, v) : o \in {o \in Placed : order[o].status = "pending"}}

EarmarkedForPending ==
  \A v \in Variants \ raced : Cardinality(Pending(v)) <= inv[v].reserved

-----------------------------------------------------------------------------
(***************************************************************************)
(* The atomic ledger that the checkout should be.                          *)
(***************************************************************************)
Book ==
  [o \in Placed |-> [user   |-> order[o].user,
                     items  |-> order[o].items,
                     status |-> order[o].status]]

Ledger == INSTANCE StockLedger WITH stock <- inv, book <- Book

\* Served one at a time, requests are atomic: every order is booked with all
\* its reservations or not at all, and every customer cancellation gives all
\* of them back.
AtomicWhenSerial == Ledger!Spec
=============================================================================
