------------------------- MODULE MCDeployLifecycle -------------------------
(* Instances of DeployLifecycle for TLC: requests are interchangeable.     *)
EXTENDS DeployLifecycle, TLC

Symmetry == Permutations(Requests)
=============================================================================
