---------------------------- MODULE StockLedger ----------------------------
(***************************************************************************)
(* What placing and cancelling orders promises, one request at a time: an  *)
(* order is booked together with the reservation of all its lines, if they *)
(* are all available; the customer's cancellation gives them back; the     *)
(* administrator moves the order along the status table and changes        *)
(* quantities, and touches no reservation.                                 *)
(***************************************************************************)
EXTENDS Integers, FiniteSets, Sequences, OrderStateMachine

CONSTANTS Users, Variants, OrderIds, InitialStock, StockLevels

VARIABLES stock,   \* quantity and reserved of each variant
          book     \* the orders placed: a function on a subset of OrderIds

\* How many pieces of v a line list asks for.
Wanted(lines, v) ==
  Cardinality(UNION {{i} \X (1..lines[i].quantity) :
                       i \in {j \in 1..Len(lines) : lines[j].variant = v}})

Init ==
  /\ stock = [v \in Variants |-> [quantity |-> InitialStock[v], reserved |-> 0]]
  /\ book = [o \in {} |-> 0]

\* The new order is the one that book' has and book has not.
Place ==
  \E o \in OrderIds \ DOMAIN book :
    /\ DOMAIN book' = DOMAIN book \cup {o}
    /\ \A b \in DOMAIN book : book'[b] = book[b]
    /\ book'[o].user \in Users
    /\ book'[o].status = "pending"
    /\ \A v \in Variants :
         stock[v].quantity - stock[v].reserved >= Wanted(book'[o].items, v)
           \/ Wanted(book'[o].items, v) = 0
    /\ stock' = [v \in Variants |->
                   [stock[v] EXCEPT !.reserved = @ + Wanted(book'[o].items, v)]]

Cancel(o) ==
  /\ IsCancellableByCustomer(book[o].status)
  /\ book' = [book EXCEPT ![o].status = "cancelled"]
  /\ stock' = [v \in Variants |->
                 [stock[v] EXCEPT !.reserved = @ - Wanted(book[o].items, v)]]

Move(o) ==
  /\ \E to \in OrderStatus : /\ CanTransition(book[o].status, to)
                             /\ book' = [book EXCEPT ![o].status = to]
  /\ UNCHANGED stock

SetQuantity ==
  /\ \E v \in Variants, level \in StockLevels :
       stock' = [stock EXCEPT ![v].quantity = level]
  /\ UNCHANGED book

Next == Place \/ (\E o \in DOMAIN book : Cancel(o) \/ Move(o)) \/ SetQuantity

Spec == Init /\ [][Next]_<<stock, book>>
=============================================================================
