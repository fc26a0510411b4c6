---------------------------- MODULE MCGcpAccount ----------------------------
(* Two accounts and two requests; a secret may be deleted and made again
   twice.                                                                  *)
EXTENDS GcpAccount, TLC

CONSTANTS a, b, q1, q2

MCAccounts == {a, b}
MCRequests == {q1, q2}
Symmetry   == Permutations(MCAccounts) \cup Permutations(MCRequests)
=============================================================================
