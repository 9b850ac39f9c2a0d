----------------------------- MODULE MCAtlasPrompt -----------------------------
(* Instances of AtlasPrompt for TLC.                                         *)
EXTENDS AtlasPrompt

(* Numbers of one and of two digits.                                        *)
MCDigits == [n \in 0 .. MaxLen |-> IF n < 10 THEN 1 ELSE 2]
=============================================================================
