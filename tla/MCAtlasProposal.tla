---------------------------- MODULE MCAtlasProposal ----------------------------
(* Instances of AtlasProposal for TLC.                                       *)
EXTENDS AtlasProposal, TLC

(* Proposers, branches and commits are alike.                               *)
Symmetry == Permutations(Proposers) \cup Permutations(Branches) \cup Permutations(Commits)
=============================================================================
