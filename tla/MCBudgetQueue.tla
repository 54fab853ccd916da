--------------------------- MODULE MCBudgetQueue ---------------------------
(* Small instances of BudgetQueue for TLC. *)
EXTENDS BudgetLedger, TLC

StreamSymmetry == Permutations(Streams)
=============================================================================
