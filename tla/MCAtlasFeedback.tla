---------------------------- MODULE MCAtlasFeedback ----------------------------
(* Instances of AtlasFeedback for TLC.                                       *)
EXTENDS AtlasFeedback
=============================================================================
