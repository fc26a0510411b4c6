-------------------------- MODULE MCFailoverConsole --------------------------
(* Instances of FailoverConsole for TLC.                                   *)
EXTENDS FailoverConsole, TLC
=============================================================================
