---------------------------- MODULE MCCraftGate ----------------------------
(* Instances of CraftGate for TLC: threads are interchangeable, and so are
   the values a user may enter.                                            *)
EXTENDS CraftGate, TLC

Symmetry == Permutations(Threads) \cup Permutations(Configs)
=============================================================================
