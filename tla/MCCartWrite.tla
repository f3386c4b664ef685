---------------------------- MODULE MCCartWrite ----------------------------
(* Two proposals, two calls at a time, two products, two read-backs. *)
EXTENDS CartWrite, TLC

CONSTANTS instamart, shopify, p1, p2, w1, w2, s1, s2

MCSymmetry ==
  Permutations({p1, p2}) \cup Permutations({w1, w2}) \cup Permutations({s1, s2})
=============================================================================
