----------------------------- MODULE MCCheckout -----------------------------
(***************************************************************************)
(* Instances of the checkout for TLC: line lists that need one row, or two *)
(* rows in either order (so that lock waits can form a cycle), and carts.  *)
(***************************************************************************)
EXTENDS CheckoutAccounting, TLC

CONSTANTS a, b, u1, u2

L(v, n) == [variant |-> v, quantity |-> n]

SmallOrBig == {<<L(a, 1)>>, <<L(a, 2)>>}
Single     == {<<L(a, 1)>>}
Crossing   == {<<L(a, 1), L(b, 1)>>, <<L(b, 1), L(a, 1)>>}

StockTwo  == [v \in Variants |-> 2]
StockOne  == [v \in Variants |-> 1]

NoCart == [u \in Users |-> <<>>]

\* Carts and Single baskets need different rows, so that customers meet at the
\* coupon and not at the stock.
CartsOfB == [u \in Users |-> <<L(b, 1)>>]

CartOf == [u \in Users |-> IF u = u1 THEN <<L(a, 1)>> ELSE <<>>]

Symmetry == Permutations(OrderIds) \cup Permutations(Procs)

\* Where carts do not tell users apart.
UserSymmetry == Symmetry \cup Permutations(Users)
=============================================================================
