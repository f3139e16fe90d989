------------------------- MODULE MCOutboundProvider -------------------------
(* Small instances of OutboundProvider.                                     *)
EXTENDS OutboundProvider, TLC

MCSymmetry ==
  Permutations(Workers) \cup Permutations(Configs) \cup Permutations(Accounts)
=============================================================================
