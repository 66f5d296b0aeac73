---------------------------- MODULE MCAddresses ----------------------------
(***************************************************************************)
(* An instance of Addresses for TLC.                                       *)
(***************************************************************************)
EXTENDS Addresses, TLC

Symmetry == Permutations(Reqs)
=============================================================================
