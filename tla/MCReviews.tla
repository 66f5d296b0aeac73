----------------------------- MODULE MCReviews -----------------------------
(***************************************************************************)
(* An instance of Reviews, with the catalog, for TLC.                      *)
(***************************************************************************)
EXTENDS Reviews, TLC
=============================================================================
