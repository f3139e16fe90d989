------------------------------- MODULE MCFeed -------------------------------
(* A small instance of Feed.                                                *)
EXTENDS Feed, TLC

MCSymmetry == Permutations(Writers) \cup Permutations(Outbound)
=============================================================================
