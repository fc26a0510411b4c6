--------------------------- MODULE MCDeployConsole ---------------------------
(* Instances of DeployConsole for TLC; liveness is checked, so the requests
   are kept apart.                                                         *)
EXTENDS DeployConsole, TLC
=============================================================================
