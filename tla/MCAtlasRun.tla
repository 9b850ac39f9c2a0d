------------------------------ MODULE MCAtlasRun ------------------------------
(* Instances of AtlasRun for TLC: one source longer than an excerpt, which   *)
(* the plan asks for.                                                       *)
EXTENDS AtlasRun

CONSTANT s1

Answer(kind, shape, topic, words) ==
    [kind |-> kind, src |-> s1, topic |-> topic, shape |-> shape, words |-> words]

(* The answers that take the loop different ways.                           *)
AllOutputs ==
    {Answer("cites", "full", TRUE, 1), Answer("cites", "full", FALSE, 1),
     Answer("cites", "short", TRUE, 1),
     Answer("miscites", "full", TRUE, 1), Answer("miscites", "full", TRUE, 2),
     Answer("silent", "sections", FALSE, 1), Answer("undocumented", "short", FALSE, 1)}

(* Enough of them to pass, to ask again and to fail.                        *)
FewOutputs ==
    {Answer("cites", "full", TRUE, 1), Answer("cites", "full", FALSE, 1),
     Answer("miscites", "full", TRUE, 1)}

Plain == [budgeted |-> FALSE, model |-> FALSE, idempotent |-> TRUE, observer |-> FALSE,
          readFirst |-> FALSE, readers |-> FALSE, memory |-> FALSE, base |-> FALSE,
          held |-> {}, review |-> TRUE, approval |-> FALSE]

(* `atlas run --repo-path`: rule-based, an empty evidence base, a first read. *)
HardCli == [Plain EXCEPT !.budgeted = TRUE, !.observer = TRUE, !.readFirst = TRUE,
                         !.base = TRUE]
(* A host with a model and an observer.                                     *)
Hosted  == [HardCli EXCEPT !.model = TRUE, !.idempotent = FALSE]
(* A host that hands over what it has read.                                 *)
Handed  == [Plain EXCEPT !.base = TRUE, !.held = {s1}, !.model = TRUE]

LoopConfigs ==
    {Plain, [Plain EXCEPT !.review = FALSE],
     [Plain EXCEPT !.budgeted = TRUE, !.readers = TRUE],
     HardCli, [HardCli EXCEPT !.approval = TRUE],
     Hosted, [Hosted EXCEPT !.readFirst = FALSE],
     [Hosted EXCEPT !.readFirst = FALSE, !.idempotent = TRUE], Handed,
     [Plain EXCEPT !.review = FALSE, !.memory = TRUE]}

ResumeConfigs == {HardCli, [Hosted EXCEPT !.idempotent = TRUE, !.readFirst = FALSE], Hosted}
=============================================================================
