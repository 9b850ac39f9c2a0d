----------------------------- MODULE AtlasMachine -----------------------------
(***************************************************************************)
(* The tables of atlas-state-machine.v1: where a run may go, what each stop *)
(* reason means, how a graded run's end is named, and what a retry of each  *)
(* next action rests on.                                                    *)
(***************************************************************************)

TERMINAL_STATUSES == {"need_user_approval", "done", "failed", "cancelled"}
WORKING_STATUSES  == {"new", "observing", "routing", "planning", "executing",
                      "evaluating", "replanning"}
STATUSES == WORKING_STATUSES \cup TERMINAL_STATUSES

(* Any working status can be interrupted.                                   *)
INTERRUPTIONS == {"done", "failed", "cancelled"}

(* Mutant of TRANSITIONS: an observing run may only go on to routing.        *)
TRANSITIONSWithoutReplanning == [s \in STATUSES |->
    CASE s = "new"        -> INTERRUPTIONS \cup {"observing"}
      [] s = "observing"  -> INTERRUPTIONS \cup {"routing"}
      [] s = "routing"    -> INTERRUPTIONS \cup {"planning"}
      [] s = "planning"   -> INTERRUPTIONS \cup {"executing"}
      [] s = "executing"  -> INTERRUPTIONS \cup {"evaluating"}
      [] s = "evaluating" -> INTERRUPTIONS \cup
                             {"replanning", "observing", "need_user_approval"}
      [] s = "replanning" -> INTERRUPTIONS \cup {"routing"}
      [] s \in TERMINAL_STATUSES -> {}]

TRANSITIONS == [s \in STATUSES |->
    CASE s = "new"        -> INTERRUPTIONS \cup {"observing"}
      [] s = "observing"  -> INTERRUPTIONS \cup {"routing", "replanning"}
      [] s = "routing"    -> INTERRUPTIONS \cup {"planning"}
      [] s = "planning"   -> INTERRUPTIONS \cup {"executing"}
      [] s = "executing"  -> INTERRUPTIONS \cup {"evaluating"}
      [] s = "evaluating" -> INTERRUPTIONS \cup
                             {"replanning", "observing", "need_user_approval"}
      [] s = "replanning" -> INTERRUPTIONS \cup {"routing"}
      [] s \in TERMINAL_STATUSES -> {}]

IsLegal(source, target) == target \in TRANSITIONS[source]

-----------------------------------------------------------------------------
STOP_REASONS == {"passed", "insufficient_evidence", "blocked", "approval_required",
                 "budget_exhausted", "max_iterations", "no_progress", "tool_error",
                 "cancelled"}

StatusOf == [reason \in STOP_REASONS |->
    CASE reason = "approval_required" -> "need_user_approval"
      [] reason = "tool_error"        -> "failed"
      [] reason = "cancelled"         -> "cancelled"
      [] reason \notin {"approval_required", "tool_error", "cancelled"} -> "done"]

(* AtlasRunState.stop: a budget stop may come from any working status, every *)
(* other one is an ordinary transition.                                     *)
MayStop(source, reason) == IF reason = "budget_exhausted"
                           THEN source \notin TERMINAL_STATUSES
                           ELSE IsLegal(source, StatusOf[reason])

(* Mutant of ClassifyStop: a run out of iterations says so, whether or not    *)
(* another one could have helped.                                           *)
ClassifyStopByBound(passed, approval, blocked, gaps, retryPossible, iterationsLeft) ==
    CASE approval -> "approval_required"
      [] ~approval /\ passed -> "passed"
      [] ~approval /\ ~passed /\ blocked -> "blocked"
      [] ~approval /\ ~passed /\ ~blocked /\ ~iterationsLeft -> "max_iterations"
      [] OTHER -> IF gaps THEN "insufficient_evidence" ELSE "no_progress"

ClassifyStop(passed, approval, blocked, gaps, retryPossible, iterationsLeft) ==
    CASE approval -> "approval_required"
      [] ~approval /\ passed -> "passed"
      [] ~approval /\ ~passed /\ blocked -> "blocked"
      [] ~approval /\ ~passed /\ ~blocked /\ retryPossible /\ ~iterationsLeft ->
            "max_iterations"
      [] OTHER -> IF gaps THEN "insufficient_evidence" ELSE "no_progress"

-----------------------------------------------------------------------------
NEXT_ACTION_KINDS == {"observe_again", "repair_findings_block", "recite_from_source",
                      "cite_sources", "answer_the_question", "add_sections"}

RetryClass(kind) == IF kind = "observe_again" THEN "investigation" ELSE "restatement"
=============================================================================
