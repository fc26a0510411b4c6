----------------------------- MODULE MCGovernance -----------------------------
(* Instances of Governance for TLC.                                        *)
EXTENDS Governance, TLC

CONSTANTS e1, e2

(* Scans and decisions are told apart by nothing but their names.          *)
Symmetry == Permutations(Scans) \cup Permutations(Decisions)
=============================================================================
