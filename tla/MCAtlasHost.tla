------------------------------ MODULE MCAtlasHost ------------------------------
(* Instances of AtlasHost for TLC.                                           *)
EXTENDS AtlasHost, TLC

Everyone == {Workers}

(* All but the process that repairs the file, or that one and the API run.  *)
WithOrWithoutRepair == {Workers \ Truncating, Api \cup Truncating}
=============================================================================
