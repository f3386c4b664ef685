---------------------------- MODULE MCCapability ----------------------------
(* Capability for TLC: two capabilities, two operations, three threads.      *)
EXTENDS Capability, TLC

Symmetry == Permutations(Caps) \cup Permutations(Operations) \cup Permutations(Threads)
=============================================================================
