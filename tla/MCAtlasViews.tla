----------------------------- MODULE MCAtlasViews -----------------------------
(* Instances of AtlasViews for TLC.  The viewers start alike and are        *)
(* compared with nothing but themselves, so permuting them is sound.        *)
EXTENDS AtlasViews, TLC

Everyone == {Workers}

ViewerSymmetry == Permutations(Viewers)
=============================================================================
