---------------------------- MODULE MCAtlasGuard -----------------------------
(* An instance of AtlasGuard for TLC: the configuration gives the bounds.   *)
EXTENDS AtlasGuard
=============================================================================
