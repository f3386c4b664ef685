------------------------------ MODULE MCAudit ------------------------------
(* Receipts for TLC: two processes, one with two threads and one with two,    *)
(* two attempts per append.                                                   *)
EXTENDS Receipts, TLC

CONSTANTS w1, w2, w3, w4, p1, p2

MCProcessOf == w1 :> p1 @@ w2 :> p1 @@ w3 :> p2 @@ w4 :> p2

Symmetry == Permutations({w1, w2}) \cup Permutations({w3, w4}) \cup Permutations(Keys)
=============================================================================
