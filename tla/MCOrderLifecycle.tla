-------------------------- MODULE MCOrderLifecycle --------------------------
(***************************************************************************)
(* Instances of the order's life for TLC: an order just placed, with the   *)
(* payment in the foreground, and orders that are shipped or delivered,    *)
(* with the customer's requests about them.                                *)
(***************************************************************************)
EXTENDS OrderLifecycle, TLC

Placed    == <<"pending">>
Shipped   == Placed \o <<"confirmed", "processing", "shipped">>
Delivered == Append(Shipped, "delivered")

JustPlaced == {Placed}
Fulfilled  == {Shipped, Delivered}

Symmetry == Permutations(Procs) \cup Permutations(ReturnIds)
              \cup Permutations(Charges) \cup Permutations(Intents)
=============================================================================
