---------------------------- MODULE MCAtlasGateway ----------------------------
(* Instances of AtlasGateway for TLC.                                        *)
EXTENDS AtlasGateway, TLC

(* All the callers with all the approvals and no log, or one caller that    *)
(* has one approval, keeps the log, calls twice and meets a clock set back. *)
ThreadsOrAudit ==
    {[callers |-> Callers, approvals |-> Approvals, log |-> FALSE, calls |-> 1, setBacks |-> 0]}
    \cup {[callers |-> {c}, approvals |-> {a}, log |-> TRUE, calls |-> 2, setBacks |-> 1] :
             c \in Callers, a \in Approvals}

(* All the callers, with a log between them.                                *)
SharedLog ==
    {[callers |-> Callers, approvals |-> Approvals, log |-> TRUE, calls |-> 1, setBacks |-> 0]}

(* Threads are alike, and so are approvals, arguments and commits.          *)
Symmetry == Permutations(Callers) \cup Permutations(Approvals)
                \cup Permutations(Args) \cup Permutations(Heads)
=============================================================================
