---------------------------- MODULE MCReconcile ----------------------------
(* Small instances of Reconcile.                                            *)
EXTENDS Reconcile, TLC

CONSTANTS in1, in2, out1, b1, b2, c1, c2, acc1, acc2

\* An inbound and a sent invoice of the first account.
TwoSides == [i \in Items |-> IF i = out1 THEN "out" ELSE "in"]
OneAccount == [i \in Items |-> acc1]

\* Two bindings of different accounts; one configuration, and one that disables.
TwoAccounts == [x \in Bindings \cup Configs |->
                  CASE x = c2 -> None [] x = b2 -> acc2 [] OTHER -> acc1]

MCSymmetry == Permutations(Jobs)

MCItemSymmetry == Permutations(Jobs) \cup Permutations(Items)
=============================================================================
