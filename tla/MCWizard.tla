------------------------------- MODULE MCWizard -------------------------------
(* Instances of Wizard for TLC.                                            *)
EXTENDS Wizard, TLC
=============================================================================
