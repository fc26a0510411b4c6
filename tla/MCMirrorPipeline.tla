-------------------------- MODULE MCMirrorPipeline --------------------------
(* Instances of MirrorPipeline for TLC: projects are interchangeable.      *)
EXTENDS MirrorPipeline, TLC

Symmetry == Permutations(Projects)
=============================================================================
