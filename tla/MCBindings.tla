----------------------------- MODULE MCBindings -----------------------------
(* Small instances of Bindings.                                             *)
EXTENDS Bindings, TLC

MCSymmetry == Permutations(Workers)
=============================================================================
