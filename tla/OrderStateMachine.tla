------------------------- MODULE OrderStateMachine -------------------------
(***************************************************************************)
(* The transition table of the order life cycle and the predicates the     *)
(* services ask of it (src/modules/orders/order-state-machine.ts).  The     *)
(* table is data: nothing forces a service to consult it before it writes  *)
(* orders.status, and three of them do not (see OrderLifecycle).           *)
(***************************************************************************)
EXTENDS Integers

OrderStatus ==
  {"pending", "confirmed", "processing", "shipped", "out_for_delivery",
   "delivered", "cancelled", "return_requested", "returned", "refunded"}

\* VALID_TRANSITIONS: the statuses an order may move to next.
ValidTransitions ==
  [s \in OrderStatus |->
     CASE s = "pending"          -> {"confirmed", "cancelled"}
       [] s = "confirmed"        -> {"processing", "cancelled"}
       [] s = "processing"       -> {"shipped", "cancelled"}
       [] s = "shipped"          -> {"out_for_delivery", "delivered"}
       [] s = "out_for_delivery" -> {"delivered"}
       [] s = "delivered"        -> {"return_requested", "returned"}
       [] s = "return_requested" -> {"returned"}
       [] s = "returned"         -> {"refunded"}
       [] OTHER                  -> {}]

CanTransition(from, to) == to \in ValidTransitions[from]

IsTerminal(s) == ValidTransitions[s] = {}

IsCancellableByCustomer(s) == s \in {"pending", "confirmed"}

\* Mutant of IsReturnable: a return may be asked for once it is on its way.
IsReturnableOnceShipped(s) == s \in {"shipped", "out_for_delivery", "delivered"}

IsReturnable(s) == s = "delivered"

(***************************************************************************)
(* A rank that every permitted transition increases, so the table has no   *)
(* cycle: an order that only moves along it settles within eight moves.     *)
(***************************************************************************)
Rank ==
  [s \in OrderStatus |->
     CASE s = "pending"          -> 0
       [] s = "confirmed"        -> 1
       [] s = "processing"       -> 2
       [] s = "shipped"          -> 3
       [] s = "out_for_delivery" -> 4
       [] s = "delivered"        -> 5
       [] s = "return_requested" -> 6
       [] s = "returned"         -> 7
       [] OTHER                  -> 8]
=============================================================================
