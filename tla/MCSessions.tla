----------------------------- MODULE MCSessions -----------------------------
(***************************************************************************)
(* An instance of Sessions for TLC.                                        *)
(***************************************************************************)
EXTENDS Sessions, TLC

Symmetry == Permutations(Reqs) \cup Permutations(Devices)
=============================================================================
