--------------------------- MODULE MCMirrorConsole ---------------------------
(* Instances of MirrorConsole for TLC.                                     *)
EXTENDS MirrorConsole, TLC
=============================================================================
