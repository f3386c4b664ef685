------------------------------ MODULE MCLedger ------------------------------
(* Ledger for TLC: two keys, and two of everything a caller may report.      *)
EXTENDS Ledger, TLC

Symmetry ==
  Permutations(OrderIds) \cup Permutations(PaymentIds)
    \cup Permutations(Amounts) \cup Permutations(Keys)
=============================================================================
