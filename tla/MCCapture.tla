------------------------------ MODULE MCCapture ------------------------------
(* Capture for TLC.  One or two carts, in one session or in two, told apart   *)
(* by the suffix of the definition a .cfg picks for SessionOf.                *)
EXTENDS Capture, TLC

CONSTANTS k1, k2, s1, s2, a1, a2

OneCart == k1 :> s1
TwoCartsOneSession == k1 :> s1 @@ k2 :> s1
TwoSessions == k1 :> s1 @@ k2 :> s2

OneTotal == k1 :> a1
TwoTotals == k1 :> a1 @@ k2 :> a2

Symmetry == Permutations(OrderIds) \cup Permutations(PaymentIds) \cup Permutations(Calls)
=============================================================================
