----------------------------- MODULE MCListings -----------------------------
(***************************************************************************)
(* Listings on a small instance.                                           *)
(***************************************************************************)
EXTENDS Listings, TLC

\* Agents and sessions are interchangeable.
Symmetry == Permutations(Owners) \cup Permutations(Sessions)
=============================================================================
