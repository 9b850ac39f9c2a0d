----------------------------- MODULE AtlasRunProofs -----------------------------
(***************************************************************************)
(* What holds of AtlasRun for every set of sources, answers and starting    *)
(* configurations and for every bound.                                      *)
(***************************************************************************)
EXTENDS AtlasRun, FiniteSetTheorems, TLAPS

(* Where the controller is fixes the status its state object is in.         *)
StatusAt ==
    /\ pc = "start" => status = "new"
    /\ pc \in {"prose", "first"} => status = "observing"
    /\ pc = "loop" => status \in {"observing", "replanning"}
    /\ pc \in {"execute", "calling", "charge"} => status = "executing"
    /\ pc \in {"grade", "decide"} => status = "evaluating"
    /\ pc \in {"reading", "adopting"} =>
          status = "observing" /\ (request.first \/ ~cfg.approval)
    /\ pc = "after" => status \in {"observing", "replanning"} \cup TERMINAL_STATUSES

(* The control of the run, strengthened until every step preserves it.      *)
ControlInv ==
    /\ pc \in PCs /\ status \in STATUSES /\ stopReason \in STOP_REASONS \cup {None}
    /\ NeverLost /\ StopsAgree /\ StatusAt

-----------------------------------------------------------------------------
(* The moves of the state machine the controller asks for.                  *)

LEMMA LegalMoves ==
    /\ IsLegal("new", "observing")
    /\ IsLegal("observing", "routing") /\ IsLegal("replanning", "routing")
    /\ IsLegal("routing", "planning") /\ IsLegal("planning", "executing")
    /\ IsLegal("executing", "evaluating")
    /\ IsLegal("evaluating", "observing") /\ IsLegal("evaluating", "replanning")
    /\ IsLegal("observing", "replanning")
BY DEF IsLegal, TRANSITIONS, STATUSES, WORKING_STATUSES, TERMINAL_STATUSES, INTERRUPTIONS

(* A stop from a working status is accepted; only an approval needs to be    *)
(* asked for while evaluating.                                              *)
LEMMA StopAccepted ==
    ASSUME NEW source \in WORKING_STATUSES, NEW reason \in STOP_REASONS,
           reason = "approval_required" => source = "evaluating"
    PROVE  MayStop(source, reason) /\ StatusOf[reason] \in TERMINAL_STATUSES
<1>1. StatusOf[reason] \in TERMINAL_STATUSES
    BY DEF StatusOf, STOP_REASONS, TERMINAL_STATUSES
<1>2. CASE reason = "approval_required"
    BY <1>1, <1>2 DEF MayStop, IsLegal, TRANSITIONS, StatusOf, STOP_REASONS, STATUSES,
                 WORKING_STATUSES, TERMINAL_STATUSES, INTERRUPTIONS
<1>3. CASE reason # "approval_required"
    <2>1. StatusOf[reason] \in INTERRUPTIONS
        BY <1>3 DEF StatusOf, STOP_REASONS, INTERRUPTIONS
    <2>2. INTERRUPTIONS \subseteq TRANSITIONS[source]
        BY DEF TRANSITIONS, STATUSES, WORKING_STATUSES, TERMINAL_STATUSES
    <2>3. source \notin TERMINAL_STATUSES
        BY DEF WORKING_STATUSES, TERMINAL_STATUSES
    <2> QED  BY <1>1, <2>1, <2>2, <2>3 DEF MayStop, IsLegal
<1> QED  BY <1>2, <1>3

(* What a Stop does where the state machine accepts it.                     *)
LEMMA StopDoes ==
    ASSUME NEW reason \in STOP_REASONS, NEW at, status \in WORKING_STATUSES,
           reason = "approval_required" => status = "evaluating",
           Stop(reason, at)
    PROVE  /\ status' = StatusOf[reason] /\ status' \in TERMINAL_STATUSES
           /\ stopReason' = reason /\ pc' = at /\ escaped' = escaped
BY StopAccepted DEF Stop, StopFrom

LEMMA EnterDoes ==
    ASSUME NEW target, NEW at, IsLegal(status, target), Enter(<<target>>, at)
    PROVE  status' = target /\ pc' = at /\ escaped' = escaped
BY DEF Enter

LEMMA EnterPassDoes ==
    ASSUME NEW at, status \in {"observing", "replanning"},
           Enter(<<"routing", "planning", "executing">>, at)
    PROVE  status' = "executing" /\ pc' = at /\ escaped' = escaped
<1> DEFINE path == <<"routing", "planning", "executing">>
           from(i) == IF i = 1 THEN status ELSE path[i - 1]
<1>1. \A i \in DOMAIN path : IsLegal(from(i), path[i])
    <2>1. DOMAIN path = {1, 2, 3}
        OBVIOUS
    <2>2. IsLegal(from(1), path[1]) /\ IsLegal(from(2), path[2]) /\ IsLegal(from(3), path[3])
        BY LegalMoves
    <2> QED  BY <2>1, <2>2
<1> QED  BY <1>1 DEF Enter
(* What a run reports of a failed check is a stop any status may come to.   *)
LEMMA CheckReasonIsOne ==
    CheckReason \in STOP_REASONS /\ CheckReason # "approval_required"
BY DEF CheckReason, STOP_REASONS

LEMMA ClassifyIsOne ==
    ASSUME NEW passed, NEW approval \in BOOLEAN, NEW blocked, NEW gaps, NEW retry, NEW left
    PROVE  LET reason == ClassifyStop(passed, approval, blocked, gaps, retry, left)
           IN  /\ reason \in STOP_REASONS
               /\ reason = "approval_required" => approval
BY DEF ClassifyStop, STOP_REASONS

(* Outcomes of a step that stops: all that ControlInv asks is that the run   *)
(* is then at a place for stopped runs.                                     *)
LEMMA StopKeepsControl ==
    ASSUME ControlInv, status \in WORKING_STATUSES,
           NEW reason \in STOP_REASONS, NEW at \in {"after", "stopping"},
           reason = "approval_required" => status = "evaluating",
           Stop(reason, at), logState' = logState, cfg' = cfg
    PROVE  ControlInv'
<1>1. /\ status' = StatusOf[reason] /\ status' \in TERMINAL_STATUSES
      /\ stopReason' = reason /\ pc' = at /\ escaped' = escaped
    BY StopDoes
<1>2. stopReason = None /\ logState # "stopped"
    BY DEF ControlInv, StopsAgree, WORKING_STATUSES, TERMINAL_STATUSES
<1>3. reason # None
    BY DEF STOP_REASONS, None
<1> QED  BY <1>1, <1>2, <1>3 DEF ControlInv, NeverLost, StopsAgree, StatusAt, PCs, STATUSES

(* The same for a step that goes on.                                        *)
LEMMA MoveKeepsControl ==
    ASSUME ControlInv, status \in WORKING_STATUSES, status' \in WORKING_STATUSES,
           pc' \in PCs \ {"stopping", "ended", "escaped", "dead"},
           StatusAt', escaped' = escaped, stopReason' = stopReason,
           logState' \in {logState, "open"}
    PROVE  ControlInv'
<1>1. stopReason = None /\ logState # "stopped"
    BY DEF ControlInv, StopsAgree, WORKING_STATUSES, TERMINAL_STATUSES
<1>2. status' \notin TERMINAL_STATUSES /\ status' \in STATUSES
    BY DEF WORKING_STATUSES, TERMINAL_STATUSES, STATUSES
<1> QED  BY <1>1, <1>2 DEF ControlInv, NeverLost, StopsAgree
LEMMA ControlInit == Init => ControlInv
BY DEF Init, ControlInv, NeverLost, StopsAgree, StatusAt, PCs, STATUSES, WORKING_STATUSES,
       TERMINAL_STATUSES, None

LEMMA ControlGather ==
    ASSUME ControlInv, Start \/ GatherProse \/ FirstRead
    PROVE  ControlInv'
<1>1. CASE Start
    <2>1. status = "new"
        BY <1>1 DEF ControlInv, StatusAt, Start
    <2>2. status' = "observing" /\ pc' = "prose" /\ escaped' = escaped
        BY <1>1, <2>1, EnterDoes, LegalMoves DEF Start
    <2>3. stopReason' = stopReason /\ logState' = "open"
        BY <1>1 DEF Start
    <2>4. StatusAt'
        BY <2>2 DEF StatusAt
    <2> QED
        BY <2>1, <2>2, <2>3, <2>4, MoveKeepsControl DEF WORKING_STATUSES, PCs
<1>2. CASE GatherProse
    <2>1. status = "observing" /\ pc = "prose" /\ status \in WORKING_STATUSES
        BY <1>2 DEF ControlInv, StatusAt, GatherProse, WORKING_STATUSES
    <2>2. UNCHANGED <<cfg, logState>>
        BY <1>2 DEF GatherProse, KeepsRest, logVars
    <2>3. ASSUME NEW reason \in {CheckReason, "budget_exhausted", "tool_error"},
                 Stop(reason, "stopping")
          PROVE  ControlInv'
        <3>1. reason \in STOP_REASONS /\ reason # "approval_required"
            BY CheckReasonIsOne DEF STOP_REASONS
        <3> QED  BY <2>1, <2>2, <2>3, <3>1, StopKeepsControl
    <2>4. ASSUME pc' = "first", UNCHANGED <<status, stopReason, escaped>>
          PROVE  ControlInv'
        <3>1. StatusAt'
            BY <2>1, <2>4 DEF StatusAt
        <3> QED  BY <2>1, <2>2, <2>4, <3>1, MoveKeepsControl DEF PCs
    <2>5. ASSUME escaped' = "memory", pc' = "escaped", UNCHANGED <<status, stopReason>>
          PROVE  ControlInv'
        BY <2>1, <2>2, <2>5
           DEF ControlInv, NeverLost, StopsAgree, StatusAt, PCs, TERMINAL_STATUSES
    <2> QED  BY <1>2, <2>3, <2>4, <2>5 DEF GatherProse
<1>3. CASE FirstRead
    <2>1. status = "observing" /\ pc = "first" /\ status \in WORKING_STATUSES
        BY <1>3 DEF ControlInv, StatusAt, FirstRead, WORKING_STATUSES
    <2>2. UNCHANGED <<cfg, logState>>
        BY <1>3 DEF FirstRead, KeepsRest, logVars
    <2>3. ASSUME Stop(CheckReason, "stopping")
          PROVE  ControlInv'
        BY <2>1, <2>2, <2>3, CheckReasonIsOne, StopKeepsControl
    <2>4. ASSUME pc' = "reading", request'.first, UNCHANGED <<status, stopReason, escaped>>
          PROVE  ControlInv'
        <3>1. StatusAt'
            BY <2>1, <2>4 DEF StatusAt
        <3> QED  BY <2>1, <2>2, <2>4, <3>1, MoveKeepsControl DEF PCs
    <2>5. ASSUME pc' = "loop", UNCHANGED <<status, stopReason, escaped>>
          PROVE  ControlInv'
        <3>1. StatusAt'
            BY <2>1, <2>5 DEF StatusAt
        <3> QED  BY <2>1, <2>2, <2>5, <3>1, MoveKeepsControl DEF PCs
    <2>6. ASSUME NEW patterns,
                 request' = [NoRequest EXCEPT !.first = TRUE, !.patterns = patterns]
          PROVE  request'.first
        BY <2>6 DEF NoRequest
    <2> QED  BY <1>3, <2>3, <2>4, <2>5, <2>6 DEF FirstRead
<1> QED  BY <1>1, <1>2, <1>3
LEMMA ControlPass ==
    ASSUME ControlInv, RunAssumption, cfg \in Configs,
           BeginPass \/ Execute \/ ModelCall \/ Charge \/ Grade
    PROVE  ControlInv'
<1>1. CASE BeginPass
    <2>1. /\ status \in {"observing", "replanning"} /\ status \in WORKING_STATUSES
          /\ pc = "loop"
        BY <1>1 DEF ControlInv, StatusAt, BeginPass, WORKING_STATUSES
    <2>2. UNCHANGED <<cfg, logState>>
        BY <1>1 DEF BeginPass, KeepsRest, logVars
    <2>3. ASSUME Stop(CheckReason, "after")
          PROVE  ControlInv'
        BY <2>1, <2>2, <2>3, CheckReasonIsOne, StopKeepsControl
    <2>4. ASSUME Enter(<<"routing", "planning", "executing">>, "execute"),
                 UNCHANGED stopReason
          PROVE  ControlInv'
        <3>1. status' = "executing" /\ pc' = "execute" /\ escaped' = escaped
            BY <2>1, <2>4, EnterPassDoes
        <3>2. StatusAt'
            BY <3>1 DEF StatusAt
        <3> QED
            BY <2>1, <2>2, <2>4, <3>1, <3>2, MoveKeepsControl DEF PCs, WORKING_STATUSES
    <2>5. ASSUME pc' = "after", UNCHANGED <<status, stopReason, escaped>>
          PROVE  ControlInv'
        <3>1. StatusAt'
            BY <2>1, <2>5 DEF StatusAt
        <3> QED  BY <2>1, <2>2, <2>5, <3>1, MoveKeepsControl DEF PCs
    <2> QED  BY <1>1, <2>3, <2>4, <2>5 DEF BeginPass
<1>2. CASE Execute \/ ModelCall
    <2>1. status = "executing" /\ status \in WORKING_STATUSES
        BY <1>2 DEF ControlInv, StatusAt, Execute, ModelCall, WORKING_STATUSES
    <2>2. UNCHANGED <<cfg, logState>>
        BY <1>2 DEF Execute, ModelCall, KeepsRest, logVars
    <2>3. ASSUME NEW reason \in {CheckReason, "budget_exhausted", "tool_error", "cancelled"},
                 Stop(reason, "after")
          PROVE  ControlInv'
        <3>1. reason \in STOP_REASONS /\ reason # "approval_required"
            BY CheckReasonIsOne DEF STOP_REASONS
        <3> QED  BY <2>1, <2>2, <2>3, <3>1, StopKeepsControl
    <2>4. ASSUME pc' \in {"calling", "charge"}, UNCHANGED <<status, stopReason, escaped>>
          PROVE  ControlInv'
        <3>1. StatusAt'
            BY <2>1, <2>4 DEF StatusAt
        <3> QED  BY <2>1, <2>2, <2>4, <3>1, MoveKeepsControl DEF PCs
    <2> QED  BY <1>2, <2>3, <2>4 DEF Execute, ModelCall
<1>3. CASE Charge
    <2>1. status = "executing" /\ status \in WORKING_STATUSES
        BY <1>3 DEF ControlInv, StatusAt, Charge, WORKING_STATUSES
    <2>2. UNCHANGED <<cfg, logState>>
        BY <1>3 DEF Charge, logVars
    <2>3. ASSUME NEW reason \in {CheckReason, "budget_exhausted", "tool_error"},
                 Stop(reason, "after")
          PROVE  ControlInv'
        <3>1. reason \in STOP_REASONS /\ reason # "approval_required"
            BY CheckReasonIsOne DEF STOP_REASONS
        <3> QED  BY <2>1, <2>2, <2>3, <3>1, StopKeepsControl
    <2>4. ASSUME Enter(<<"evaluating">>, "grade"), UNCHANGED stopReason
          PROVE  ControlInv'
        <3>1. status' = "evaluating" /\ pc' = "grade" /\ escaped' = escaped
            BY <2>1, <2>4, EnterDoes, LegalMoves
        <3>2. StatusAt'
            BY <3>1 DEF StatusAt
        <3> QED
            BY <2>1, <2>2, <2>4, <3>1, <3>2, MoveKeepsControl DEF PCs, WORKING_STATUSES
    <2> QED  BY <1>3, <2>3, <2>4 DEF Charge
<1>4. CASE Grade
    <2>1. status = "evaluating" /\ status \in WORKING_STATUSES
        BY <1>4 DEF ControlInv, StatusAt, Grade, WORKING_STATUSES
    <2>2. UNCHANGED <<cfg, logState>>
        BY <1>4 DEF Grade, KeepsRest, logVars
    <2>3. ASSUME Stop(CheckReason, "after")
          PROVE  ControlInv'
        BY <2>1, <2>2, <2>3, CheckReasonIsOne, StopKeepsControl
    <2>4. ASSUME pc' = "decide", UNCHANGED <<status, stopReason, escaped>>
          PROVE  ControlInv'
        <3>1. StatusAt'
            BY <2>1, <2>4 DEF StatusAt
        <3> QED  BY <2>1, <2>2, <2>4, <3>1, MoveKeepsControl DEF PCs
    <2> QED  BY <1>4, <2>3, <2>4 DEF Grade
<1> QED  BY <1>1, <1>2, <1>3, <1>4

(* What the loop does with a grade, from the two statuses it does it in.     *)
LEMMA ControlConclude ==
    ASSUME ControlInv, RunAssumption, cfg \in Configs, NEW drift,
           status = "evaluating" \/ (status = "observing" /\ ~cfg.approval),
           Conclude(drift), logState' = logState, cfg' = cfg
    PROVE  ControlInv'
<1>1. status \in WORKING_STATUSES
    BY DEF WORKING_STATUSES
<1>2. ASSUME Stop("blocked", "after") \/ Stop("no_progress", "after")
      PROVE  ControlInv'
    <2>1. {"blocked", "no_progress"} \subseteq STOP_REASONS
        BY DEF STOP_REASONS
    <2> QED  BY <1>1, <1>2, <2>1, StopKeepsControl
<1> DEFINE left   == iteration < MaxIterations
           reason == ClassifyStop(evaluation.passed, cfg.approval, evaluation.blocked,
                                  evaluation.gaps # {}, evaluation.retry, left)
<1>3. ASSUME Stop(reason, "after")
      PROVE  ControlInv'
    <2>1. cfg.approval \in BOOLEAN
        BY DEF RunAssumption, Config
    <2>2. reason \in STOP_REASONS /\ (reason = "approval_required" => cfg.approval)
        BY <2>1, ClassifyIsOne
    <2> HIDE DEF reason
    <2> QED  BY <1>1, <1>3, <2>2, StopKeepsControl
<1>4. ASSUME Enter(<<"replanning">>, "loop"), UNCHANGED stopReason
      PROVE  ControlInv'
    <2>1. status' = "replanning" /\ pc' = "loop" /\ escaped' = escaped
        BY <1>4, EnterDoes, LegalMoves
    <2>2. StatusAt'
        BY <2>1 DEF StatusAt
    <2> QED  BY <1>1, <1>4, <2>1, <2>2, MoveKeepsControl DEF PCs, WORKING_STATUSES
<1> QED  BY <1>2, <1>3, <1>4 DEF Conclude
LEMMA ControlRound ==
    ASSUME ControlInv, RunAssumption, cfg \in Configs, Decide \/ Read \/ Adopt
    PROVE  ControlInv'
<1>0. UNCHANGED <<cfg, logState>>
    BY DEF Decide, Read, Adopt, KeepsRest, logVars
<1>1. CASE Decide
    <2>1. status = "evaluating" /\ status \in WORKING_STATUSES
        BY <1>1 DEF ControlInv, StatusAt, Decide, WORKING_STATUSES
    <2>2. ASSUME Stop(CheckReason, "after")
          PROVE  ControlInv'
        BY <1>0, <2>1, <2>2, CheckReasonIsOne, StopKeepsControl
    <2>3. ASSUME MayReadAgain(Drifted), Enter(<<"observing">>, "reading"),
                 UNCHANGED stopReason
          PROVE  ControlInv'
        <3>1. status' = "observing" /\ pc' = "reading" /\ escaped' = escaped
            BY <2>1, <2>3, EnterDoes, LegalMoves
        <3>2. ~cfg'.approval
            BY <1>0, <2>3 DEF MayReadAgain
        <3>3. StatusAt'
            BY <3>1, <3>2 DEF StatusAt
        <3> QED
            BY <1>0, <2>1, <2>3, <3>1, <3>3, MoveKeepsControl DEF PCs, WORKING_STATUSES
    <2>4. ASSUME Conclude(Drifted)
          PROVE  ControlInv'
        BY <1>0, <2>1, <2>4, ControlConclude
    <2> QED  BY <1>1, <2>2, <2>3, <2>4 DEF Decide
<1> DEFINE Reasons == {CheckReason, "budget_exhausted", "tool_error", "blocked"}
<1>2. ASSUME status = "observing", NEW reason \in Reasons, Stop(reason, RoundEnd)
      PROVE  ControlInv'
    <2>1. reason \in STOP_REASONS /\ reason # "approval_required"
        BY CheckReasonIsOne DEF STOP_REASONS
    <2>2. RoundEnd \in {"after", "stopping"} /\ status \in WORKING_STATUSES
        BY <1>2 DEF RoundEnd, WORKING_STATUSES
    <2> QED  BY <1>0, <1>2, <2>1, <2>2, StopKeepsControl
<1>3. CASE Read
    <2>1. /\ status = "observing" /\ status \in WORKING_STATUSES
          /\ request.first \/ ~cfg.approval
        BY <1>3 DEF ControlInv, StatusAt, Read, WORKING_STATUSES
    <2>2. ASSUME pc' = "adopting", UNCHANGED <<status, stopReason, escaped>>
          PROVE  ControlInv'
        <3>1. request' = request
            BY <1>3 DEF Read
        <3>2. StatusAt'
            BY <1>0, <2>1, <2>2, <3>1 DEF StatusAt
        <3> QED  BY <1>0, <2>1, <2>2, <3>2, MoveKeepsControl DEF PCs
    <2> QED  BY <1>3, <1>2, <2>1, <2>2 DEF Read
<1>4. CASE Adopt
    <2>1. /\ status = "observing" /\ status \in WORKING_STATUSES
          /\ request.first \/ ~cfg.approval
        BY <1>4 DEF ControlInv, StatusAt, Adopt, WORKING_STATUSES
    <2>2. ASSUME pc' = "loop", UNCHANGED <<status, stopReason, escaped>>
          PROVE  ControlInv'
        <3>1. StatusAt'
            BY <2>1, <2>2 DEF StatusAt
        <3> QED  BY <1>0, <2>1, <2>2, <3>1, MoveKeepsControl DEF PCs
    <2>3. ASSUME Enter(<<"replanning">>, "loop"), UNCHANGED stopReason
          PROVE  ControlInv'
        <3>1. status' = "replanning" /\ pc' = "loop" /\ escaped' = escaped
            BY <2>1, <2>3, EnterDoes, LegalMoves
        <3>2. StatusAt'
            BY <3>1 DEF StatusAt
        <3> QED
            BY <1>0, <2>1, <2>3, <3>1, <3>2, MoveKeepsControl DEF PCs, WORKING_STATUSES
    <2>4. ASSUME ~request.first, Conclude(request.drift)
          PROVE  ControlInv'
        BY <1>0, <2>1, <2>4, ControlConclude
    <2> QED  BY <1>4, <1>2, <2>1, <2>2, <2>3, <2>4 DEF Adopt
<1> QED  BY <1>1, <1>3, <1>4

LEMMA ControlEnd ==
    ASSUME ControlInv, AfterLoop \/ LogStop \/ Crash \/ Resume
    PROVE  ControlInv'
<1>1. CASE AfterLoop
    <2>1. UNCHANGED <<cfg, logState>> /\ pc = "after"
        BY <1>1 DEF AfterLoop, logVars
    <2>2. ASSUME stopReason = None, Stop("max_iterations", "after")
          PROVE  ControlInv'
        <3>1. status \in {"observing", "replanning"} /\ status \in WORKING_STATUSES
            BY <2>1, <2>2 DEF ControlInv, StatusAt, StopsAgree, WORKING_STATUSES
        <3>2. "max_iterations" \in STOP_REASONS
            BY DEF STOP_REASONS
        <3> QED  BY <2>1, <2>2, <3>1, <3>2, StopKeepsControl
    <2>3. ASSUME stopReason # None, pc' = "stopping", UNCHANGED <<status, stopReason, escaped>>
          PROVE  ControlInv'
        BY <2>1, <2>3 DEF ControlInv, NeverLost, StopsAgree, StatusAt, PCs
    <2>4. ASSUME escaped' = "memory", pc' = "escaped", UNCHANGED <<status, stopReason>>
          PROVE  ControlInv'
        BY <2>1, <2>4 DEF ControlInv, NeverLost, StopsAgree, StatusAt, PCs
    <2> QED  BY <1>1, <2>2, <2>3, <2>4 DEF AfterLoop
<1>2. CASE LogStop
    BY <1>2 DEF LogStop, ControlInv, NeverLost, StopsAgree, StatusAt, PCs
<1>3. CASE Crash
    BY <1>3 DEF Crash, ControlInv, NeverLost, StopsAgree, StatusAt, PCs
<1>4. CASE Resume
    BY <1>4 DEF Resume, logVars, ControlInv, NeverLost, StopsAgree, StatusAt, PCs, None,
                STATUSES, WORKING_STATUSES, TERMINAL_STATUSES
<1> QED  BY <1>1, <1>2, <1>3, <1>4

(* Nothing outside the run, and no stutter, touches what ControlInv is about. *)
LEMMA ControlWorld ==
    ASSUME ControlInv, World \/ UNCHANGED vars
    PROVE  ControlInv'
<1>1. UNCHANGED <<cfg, ownVars, logVars>>
    BY DEF World, Edit, Delete, MoveHead, Cancel, Deadline, vars
<1> QED
    BY <1>1 DEF ownVars, logVars, ControlInv, NeverLost, StopsAgree, StatusAt

LEMMA ConfigIsFixed == ASSUME [Next]_vars PROVE cfg' = cfg
BY DEF Next, RunStep, World, vars, Start, GatherProse, FirstRead, BeginPass, Execute,
       ModelCall, Charge, Grade, Decide, Read, Adopt, AfterLoop, LogStop, Crash, Resume,
       Edit, Delete, MoveHead, Cancel, Deadline, KeepsRest

LEMMA ControlStep ==
    ASSUME RunAssumption, cfg \in Configs, ControlInv, [Next]_vars
    PROVE  ControlInv'
BY ControlGather, ControlPass, ControlRound, ControlEnd, ControlWorld DEF Next, RunStep

LEMMA ControlHolds == Spec => [](ControlInv /\ cfg \in Configs)
<1>1. Init => ControlInv /\ cfg \in Configs
    BY ControlInit DEF Init
<1>2. (ControlInv /\ cfg \in Configs) /\ [Next]_vars => (ControlInv /\ cfg \in Configs)'
    BY ControlStep, ConfigIsFixed, RunAssumption
<1> QED  BY <1>1, <1>2, PTL DEF Spec

(* For whatever a producer answers and whatever the host, the clock and the  *)
(* repository do, controller._run never asks AtlasRunState for a move the    *)
(* state machine refuses.                                                   *)
THEOREM TransitionsAreLegal == Spec => []NeverLost
<1>1. ControlInv => NeverLost
    BY DEF ControlInv
<1> QED  BY <1>1, ControlHolds, PTL

(* The status, the stop reason and the log never disagree about whether and  *)
(* why a run is over.                                                       *)
THEOREM StopAndStatusAgree == Spec => []StopsAgree
<1>1. ControlInv => StopsAgree
    BY DEF ControlInv
<1> QED  BY <1>1, ControlHolds, PTL

-----------------------------------------------------------------------------
(* Evidence: EvidenceIsLogged is inductive once the readings and the rounds  *)
(* are known to have their types.                                           *)

Rounds == Seq(SUBSET (Sources \X Nat \X (0 .. 2)))

EvidenceTypes ==
    /\ base \in [Sources -> Reading] /\ incoming \in [Sources -> Reading]
    /\ disk \in [Sources -> Nat]
    /\ rounds \in Rounds /\ logRounds \in Rounds

EvidenceInv == EvidenceTypes /\ EvidenceIsLogged

LEMMA InitiallyType == \A c : Initially(c) \in [Sources -> Reading]
BY DEF Initially, Reading, NotRead

LEMMA EvidenceInit == Init => EvidenceInv
<1>1. Init => EvidenceTypes
    BY InitiallyType DEF Init, EvidenceTypes, Rounds, Reading, NotRead
<1>2. Init => EvidenceIsLogged
    BY DEF Init, EvidenceIsLogged
<1> QED  BY <1>1, <1>2 DEF EvidenceInv

(* A round's material is made of the sources whose readings it changes.     *)
LEMMA MaterialType ==
    ASSUME EvidenceTypes
    PROVE  /\ Material \in SUBSET (Sources \X Nat \X (0 .. 2))
           /\ Merged \in [Sources -> Reading]
           /\ \A s \in Sources : Merged[s] # base[s] =>
                 \E m \in Material : m[1] = s /\ m[2] = Merged[s].version
<1>1. Fresh \subseteq Sources
    BY DEF Fresh
<1>2. \A s \in Sources : incoming[s].version \in Nat /\ incoming[s].window \in 0 .. 2
    BY DEF EvidenceTypes, Reading
<1>3. Material \in SUBSET (Sources \X Nat \X (0 .. 2))
    BY <1>1, <1>2 DEF Material
<1>4. Merged \in [Sources -> Reading]
    BY DEF Merged, EvidenceTypes
<1>5. ASSUME NEW s \in Sources, Merged[s] # base[s]
      PROVE  \E m \in Material : m[1] = s /\ m[2] = Merged[s].version
    <2>1. s \in Fresh /\ Merged[s] = incoming[s]
        BY <1>5 DEF Merged
    <2> DEFINE m == <<s, incoming[s].version,
                      IF base[s].version = incoming[s].version
                      THEN incoming[s].window ELSE 0>>
    <2>2. m \in Material /\ m[1] = s /\ m[2] = Merged[s].version
        BY <2>1 DEF Material
    <2> QED  BY <2>2
<1> QED  BY <1>3, <1>4, <1>5

(* A step that adopts: base, rounds and logRounds move together.            *)
LEMMA EvidenceAdopted ==
    ASSUME EvidenceInv, cfg' = cfg, base' = Merged, disk' = disk,
           incoming' \in [Sources -> Reading],
           rounds' = Append(rounds, Material), logRounds' = Append(logRounds, Material)
    PROVE  EvidenceInv'
<1> DEFINE Mat == SUBSET (Sources \X Nat \X (0 .. 2))
<1>1. /\ rounds \in Seq(Mat) /\ logRounds \in Seq(Mat) /\ Material \in Mat
      /\ Merged \in [Sources -> Reading]
    BY MaterialType DEF EvidenceInv, EvidenceTypes, Rounds
<1> HIDE DEF Mat
<1>2. /\ Len(rounds) \in Nat /\ Len(logRounds) \in Nat
      /\ Len(rounds') = Len(rounds) + 1 /\ Len(logRounds') = Len(logRounds) + 1
      /\ rounds' \in Seq(Mat) /\ logRounds' \in Seq(Mat)
      /\ DOMAIN rounds = 1 .. Len(rounds) /\ DOMAIN rounds' = 1 .. Len(rounds) + 1
    BY <1>1
<1>3. EvidenceTypes'
    BY <1>1, <1>2 DEF EvidenceInv, EvidenceTypes, Rounds, Mat
<1>4. Len(rounds) <= Len(logRounds)
    BY DEF EvidenceInv, EvidenceIsLogged
<1>5. \A i \in 1 .. Len(rounds) : rounds'[i] = rounds[i]
    BY <1>1
<1>6. ASSUME NEW i \in DOMAIN rounds'
      PROVE  rounds'[i] = logRounds'[Len(logRounds') - Len(rounds') + i]
    <2>1. CASE i = Len(rounds) + 1
        <3>1. Len(logRounds') - Len(rounds') + i = Len(logRounds) + 1
            BY <1>2, <2>1
        <3>2. rounds'[i] = Material /\ logRounds'[Len(logRounds) + 1] = Material
            BY <1>1, <2>1
        <3> QED  BY <3>1, <3>2
    <2>2. CASE i \in 1 .. Len(rounds)
        <3> DEFINE k == Len(logRounds) - Len(rounds) + i
        <3>1. k \in 1 .. Len(logRounds) /\ k = Len(logRounds') - Len(rounds') + i
            BY <1>2, <1>4, <2>2
        <3>2. logRounds'[k] = logRounds[k]
            BY <1>1, <3>1
        <3>3. rounds[i] = logRounds[k]
            BY <1>2, <2>2 DEF EvidenceInv, EvidenceIsLogged
        <3> QED  BY <1>5, <2>2, <3>1, <3>2, <3>3
    <2>3. i \in 1 .. Len(rounds) + 1
        BY <1>2, <1>6
    <2>4. i = Len(rounds) + 1 \/ i \in 1 .. Len(rounds)
        BY <1>2, <2>3
    <2> QED  BY <2>1, <2>2, <2>4
<1>7. ASSUME NEW s \in Sources, base'[s] # Initially(cfg')[s]
      PROVE  \E i \in DOMAIN rounds' : \E m \in rounds'[i] :
                m[1] = s /\ m[2] = base'[s].version
    <2>1. CASE Merged[s] = base[s]
        <3>1. PICK i \in DOMAIN rounds : \E m \in rounds[i] :
                 m[1] = s /\ m[2] = base[s].version
            BY <1>7, <2>1 DEF EvidenceInv, EvidenceIsLogged, Initially
        <3>2. i \in DOMAIN rounds' /\ rounds'[i] = rounds[i]
            BY <1>2, <1>5
        <3> QED  BY <2>1, <3>1, <3>2
    <2>2. CASE Merged[s] # base[s]
        <3>1. PICK m \in Material : m[1] = s /\ m[2] = Merged[s].version
            BY <2>2, MaterialType DEF EvidenceInv
        <3>2. Len(rounds) + 1 \in DOMAIN rounds' /\ rounds'[Len(rounds) + 1] = Material
            BY <1>1, <1>2
        <3> QED  BY <3>1, <3>2
    <2> QED  BY <2>1, <2>2
<1>8. Len(rounds') <= Len(logRounds')
    BY <1>2, <1>4
<1>9. EvidenceIsLogged'
    BY <1>6, <1>7, <1>8, Zenon DEF EvidenceIsLogged
<1> QED  BY <1>3, <1>9 DEF EvidenceInv

(* A step that reads: only what came in changes.                            *)
LEMMA EvidenceRead ==
    ASSUME EvidenceInv, RunAssumption, Read
    PROVE  EvidenceInv'
<1>1. UNCHANGED <<cfg, base, rounds, logRounds, disk>>
    BY DEF Read, KeepsRest, logVars, worldVars
<1>2. incoming' \in [Sources -> Reading]
    <2>1. CASE incoming' = incoming
        BY <2>1 DEF EvidenceInv, EvidenceTypes
    <2>2. ASSUME NEW head,
                 incoming' = [s \in Sources |->
                    IF disk[s] = 0 \/ s \notin request.paths \cup request.patterns
                                               \cup request.windows
                    THEN NotRead
                    ELSE [version |-> disk[s],
                          window  |-> IF s \in request.windows \ head THEN 2 ELSE 1]]
          PROVE  incoming' \in [Sources -> Reading]
        <3>1. \A s \in Sources : disk[s] \in Nat
            BY DEF EvidenceInv, EvidenceTypes
        <3> QED  BY <2>2, <3>1 DEF Reading, NotRead
    <2> QED  BY <2>1, <2>2 DEF Read
<1> QED  BY <1>1, <1>2 DEF EvidenceInv, EvidenceTypes, EvidenceIsLogged

LEMMA EvidenceAdopt ==
    ASSUME EvidenceInv, Adopt
    PROVE  EvidenceInv'
<1>1. UNCHANGED <<cfg, disk>> /\ incoming' = [s \in Sources |-> NotRead]
    BY DEF Adopt, KeepsRest, worldVars
<1>2. incoming' \in [Sources -> Reading]
    BY <1>1 DEF Reading, NotRead
<1>3. CASE UNCHANGED <<base, rounds, logRounds>>
    BY <1>1, <1>2, <1>3 DEF EvidenceInv, EvidenceTypes, EvidenceIsLogged
<1>4. CASE /\ rounds' = Append(rounds, Material) /\ logRounds' = Append(logRounds, Material)
           /\ base' = Merged
    BY <1>1, <1>2, <1>4, EvidenceAdopted
<1> QED  BY <1>3, <1>4 DEF Adopt

LEMMA EvidenceResume ==
    ASSUME EvidenceInv, Resume
    PROVE  EvidenceInv'
<1>1. /\ UNCHANGED <<cfg, disk, logRounds>> /\ rounds' = <<>> /\ base' = Initially(cfg)
      /\ incoming' = [s \in Sources |-> NotRead]
    BY DEF Resume, logVars
<1>2. EvidenceTypes'
    BY <1>1, InitiallyType DEF EvidenceInv, EvidenceTypes, Rounds, Reading, NotRead
<1>3. Len(rounds') <= Len(logRounds') /\ DOMAIN rounds' = {}
    BY <1>1 DEF EvidenceInv, EvidenceTypes, Rounds
<1>4. Initially(cfg') = Initially(cfg)
    BY <1>1
<1>5. EvidenceIsLogged'
    BY <1>1, <1>3, <1>4 DEF EvidenceIsLogged
<1> QED  BY <1>2, <1>5 DEF EvidenceInv

(* Every other step leaves the evidence alone; the repository may change.   *)
LEMMA EvidenceElse ==
    ASSUME EvidenceInv, [Next]_vars, ~Read, ~Adopt, ~Resume
    PROVE  EvidenceInv'
<1>1. UNCHANGED <<cfg, base, rounds, incoming, logRounds>>
    BY DEF Next, RunStep, World, vars, ownVars, logVars, Start, GatherProse, FirstRead,
           BeginPass, Execute, ModelCall, Charge, Grade, Decide, AfterLoop, LogStop, Crash,
           Edit, Delete, MoveHead, Cancel, Deadline, KeepsRest, evidenceVars
<1>2. disk' \in [Sources -> Nat]
    <2>1. CASE \E s \in Sources : Edit(s) \/ Delete(s)
        BY <2>1 DEF EvidenceInv, EvidenceTypes, Edit, Delete
    <2>2. CASE UNCHANGED disk
        BY <2>2 DEF EvidenceInv, EvidenceTypes
    <2> QED
        BY <2>1, <2>2
           DEF Next, RunStep, World, vars, worldVars, Start, GatherProse, FirstRead,
               BeginPass, Execute, ModelCall, Charge, Grade, Decide, AfterLoop, LogStop,
               Crash, MoveHead, Cancel, Deadline, KeepsRest
<1> QED  BY <1>1, <1>2 DEF EvidenceInv, EvidenceTypes, EvidenceIsLogged

LEMMA EvidenceStep ==
    ASSUME RunAssumption, EvidenceInv, [Next]_vars
    PROVE  EvidenceInv'
BY EvidenceRead, EvidenceAdopt, EvidenceResume, EvidenceElse

(* A run holds nothing beyond what it was handed that the log of this very   *)
(* attempt does not account for: a refused or unpaid round leaves no        *)
(* evidence behind, through any number of crashes and resumptions.          *)
THEOREM EvidenceComesFromTheLog == Spec => []EvidenceIsLogged
<1>1. EvidenceInv /\ [Next]_vars => EvidenceInv'
    BY EvidenceStep, RunAssumption
<1>2. EvidenceInv => EvidenceIsLogged
    BY DEF EvidenceInv
<1> QED  BY <1>1, <1>2, EvidenceInit, PTL DEF Spec

-----------------------------------------------------------------------------
(* Types, with what bounds the budget's counters.                           *)

(* output_bytes is passed by at most one charge, and by none that a run       *)
(* survives.                                                                *)
SpentAt ==
    /\ pc \in {"start", "prose"} => spent = 0
    /\ pc \notin {"after", "stopping", "ended", "escaped", "dead"} => spent <= MaxOutput

TypeInv ==
    /\ TypeOK /\ SpentAt
    /\ incoming \in [Sources -> Reading]
    /\ evaluation.patterns \subseteq Sources /\ request.patterns \subseteq Sources

LEMMA StopGoes ==
    ASSUME NEW reason, NEW at, Stop(reason, at)
    PROVE  pc' \in {at, "escaped"} /\ escaped' \in {escaped, "InvalidTransition"}
BY DEF Stop, StopFrom

LEMMA EnterGoes ==
    ASSUME NEW path, NEW at, Enter(path, at)
    PROVE  pc' \in {at, "escaped"} /\ escaped' \in {escaped, "InvalidTransition"}
BY DEF Enter

LEMMA ConcludeGoes ==
    ASSUME NEW drift, Conclude(drift)
    PROVE  /\ pc' \in {"after", "loop", "escaped"}
           /\ escaped' \in {escaped, "InvalidTransition"}
BY StopGoes, EnterGoes DEF Conclude

LEMMA TypeInit == Init => TypeInv
<1> SUFFICES ASSUME Init PROVE TypeInv
    OBVIOUS
<1> DEFINE Flags == /\ moved \in BOOLEAN /\ cancelled \in BOOLEAN /\ late \in BOOLEAN
                    /\ saved \in BOOLEAN
<1>0. Flags
    BY Zenon DEF Init
<1>1. TypeOK
    <2>1. base \in [Sources -> Reading]
        BY InitiallyType DEF Init
    <2>2. /\ pc \in PCs /\ status \in STATUSES
          /\ logState \in {"empty", "open", "stopped"}
        BY DEF Init, PCs, STATUSES, WORKING_STATUSES
    <2>3. /\ iteration \in 0 .. MaxIterations /\ spent \in 0 .. MaxOutput + 1
          /\ calls \in 0 .. MaxModelCalls /\ edits \in 0 .. MaxEdits
          /\ crashes \in 0 .. MaxCrashes /\ disk \in [Sources -> Nat]
        BY RunAssumption DEF Init, RunAssumption
    <2>4. /\ cfg \in Configs /\ stopReason = None /\ resolved = {} /\ open = None
          /\ dangling = {} /\ escaped = None
        BY DEF Init
    <2> QED  BY <1>0, <2>1, <2>2, <2>3, <2>4, Zenon DEF TypeOK
<1>2. SpentAt
    BY RunAssumption DEF Init, SpentAt, RunAssumption
<1>3. /\ incoming \in [Sources -> Reading]
      /\ evaluation.patterns \subseteq Sources /\ request.patterns \subseteq Sources
    BY DEF Init, Reading, NotRead, NotGraded, NoRequest
<1> QED  BY <1>1, <1>2, <1>3 DEF TypeInv

LEMMA TypeWorld ==
    ASSUME RunAssumption, TypeInv, World \/ UNCHANGED vars
    PROVE  TypeInv'
<1>1. UNCHANGED <<cfg, ownVars, logVars, crashes>>
    BY DEF World, Edit, Delete, MoveHead, Cancel, Deadline, vars
<1>2. edits' \in 0 .. MaxEdits /\ disk' \in [Sources -> Nat]
    <2>1. edits \in 0 .. MaxEdits /\ disk \in [Sources -> Nat] /\ MaxEdits \in Nat
        BY DEF TypeInv, TypeOK, RunAssumption
    <2>2. \/ UNCHANGED edits
          \/ edits < MaxEdits /\ edits' = edits + 1
        BY DEF World, Edit, Delete, MoveHead, Cancel, Deadline, vars, worldVars
    <2>3. disk' \in [Sources -> Nat]
        <3>1. CASE \E s \in Sources : Edit(s) \/ Delete(s)
            BY <2>1, <3>1 DEF Edit, Delete
        <3>2. CASE UNCHANGED disk
            BY <2>1, <3>2
        <3> QED
            BY <3>1, <3>2 DEF World, MoveHead, Cancel, Deadline, vars, worldVars
    <2> QED  BY <2>1, <2>2, <2>3
<1>3. moved' \in BOOLEAN /\ cancelled' \in BOOLEAN /\ late' \in BOOLEAN
    <2>1. moved' \in {moved, TRUE} /\ cancelled' \in {cancelled, TRUE} /\ late' \in {late, TRUE}
        BY DEF World, Edit, Delete, MoveHead, Cancel, Deadline, vars, worldVars
    <2>2. moved \in BOOLEAN /\ cancelled \in BOOLEAN /\ late \in BOOLEAN
        BY DEF TypeInv, TypeOK
    <2> QED  BY <2>1, <2>2, Zenon
<1>4. TypeOK'
    <2>1. saved' \in BOOLEAN
        BY <1>1, Zenon DEF ownVars, TypeInv, TypeOK
    <2> QED  BY <1>1, <1>2, <1>3, <2>1 DEF ownVars, logVars, TypeInv, TypeOK
<1>5. SpentAt'
    BY <1>1 DEF ownVars, TypeInv, SpentAt
<1>6. (/\ incoming \in [Sources -> Reading]
       /\ evaluation.patterns \subseteq Sources /\ request.patterns \subseteq Sources)'
    BY <1>1 DEF ownVars, TypeInv
<1> QED  BY <1>4, <1>5, <1>6 DEF TypeInv

(* The steps of the run that leave the repository, the evidence and the      *)
(* counters of the world as they are.                                       *)
Unchanging == UNCHANGED <<cfg, worldVars, crashes, base, resolved, incoming>>

LEMMA TypeQuiet ==
    ASSUME RunAssumption, TypeInv, ControlInv', Unchanging,
           iteration' \in 0 .. MaxIterations,
           spent' \in 0 .. MaxOutput + 1, calls' \in 0 .. MaxModelCalls,
           open' \in {None, "observe", "model"},
           escaped' \in {escaped, "InvalidTransition", "memory"},
           saved' \in BOOLEAN, logState' \in {"empty", "open", "stopped"},
           dangling' = dangling, SpentAt',
           evaluation'.patterns \subseteq Sources, request'.patterns \subseteq Sources
    PROVE  TypeInv'
<1>1. TypeOK'
    BY DEF TypeInv, TypeOK, Unchanging, worldVars, ControlInv
<1>2. incoming' \in [Sources -> Reading]
    BY DEF TypeInv, Unchanging
<1> QED  BY <1>1, <1>2 DEF TypeInv
LEMMA TypePass ==
    ASSUME RunAssumption, TypeInv, ControlInv',
           \/ Start \/ GatherProse \/ FirstRead \/ BeginPass \/ Execute \/ ModelCall
           \/ Charge \/ Grade \/ Decide \/ AfterLoop \/ LogStop
    PROVE  TypeInv'
<1>1. Unchanging
    BY DEF Unchanging, Start, GatherProse, FirstRead, BeginPass, Execute, ModelCall, Charge,
           Grade, Decide, AfterLoop, LogStop, KeepsRest, evidenceVars
<1>2. iteration' \in 0 .. MaxIterations
    <2>1. UNCHANGED iteration \/ (iteration < MaxIterations /\ iteration' = iteration + 1)
        BY DEF Start, GatherProse, FirstRead, BeginPass, Execute, ModelCall, Charge,
               Grade, Decide, AfterLoop, LogStop
    <2> QED  BY <2>1 DEF TypeInv, TypeOK, RunAssumption
<1>3. calls' \in 0 .. MaxModelCalls
    <2>1. UNCHANGED calls \/ (calls < MaxModelCalls /\ calls' = calls + 1) \/ calls' = calls
        <3>1. CASE Execute
            <4>1. cfg.budgeted /\ calls' = calls + 1 => calls < MaxModelCalls
                BY <3>1 DEF Execute, TypeInv, TypeOK, RunAssumption
            <4>2. calls' = calls \/ (cfg.budgeted /\ calls' = calls + 1)
                BY <3>1 DEF Execute
            <4> QED  BY <4>1, <4>2
        <3>2. CASE ~Execute
            BY <3>2 DEF Start, GatherProse, FirstRead, BeginPass, ModelCall, Charge, Grade,
                   Decide, AfterLoop, LogStop, budgetVars
        <3> QED  BY <3>1, <3>2
    <2> QED  BY <2>1 DEF TypeInv, TypeOK, RunAssumption
<1>4. spent' \in 0 .. MaxOutput + 1 /\ SpentAt'
    <2>0. /\ spent \in 0 .. MaxOutput + 1 /\ MaxOutput \in Nat /\ SpentAt
          /\ pc \in PCs
        BY DEF TypeInv, TypeOK, RunAssumption
    <2>1. CASE GatherProse
        <3>1. spent = 0
            BY <2>0, <2>1 DEF SpentAt, GatherProse
        <3>2. /\ spent' \in {spent, spent + 1} /\ pc' \in {"first", "stopping", "escaped"}
              /\ pc' = "first" /\ spent' = spent + 1 => spent' <= MaxOutput
            BY <2>0, <2>1, <3>1, StopGoes DEF GatherProse
        <3> QED  BY <2>0, <3>1, <3>2 DEF SpentAt
    <2>2. CASE Charge
        <3>1. spent <= MaxOutput
            BY <2>0, <2>2 DEF SpentAt, Charge
        <3>2. /\ spent' \in {spent, spent + 1} /\ pc' \in {"after", "grade", "escaped"}
              /\ pc' = "grade" /\ spent' = spent + 1 => spent < MaxOutput
            BY <2>0, <2>2, StopGoes, EnterGoes DEF Charge
        <3> QED  BY <2>0, <3>1, <3>2 DEF SpentAt
    <2>3. CASE ~GatherProse /\ ~Charge
        <3>1. spent' = spent
            BY <2>3 DEF Start, FirstRead, BeginPass, Execute, ModelCall, Grade, Decide,
                   AfterLoop, LogStop, budgetVars
        <3>2. /\ pc' \notin {"start"}
              /\ pc' = "prose" => pc = "start"
              /\ pc \in {"after", "stopping", "ended", "escaped", "dead"} =>
                    pc' \in {"after", "stopping", "ended", "escaped", "dead"}
            BY <2>3, StopGoes, EnterGoes, ConcludeGoes
               DEF Start, FirstRead, BeginPass, Execute, ModelCall, Grade, Decide,
                   AfterLoop, LogStop
        <3> QED  BY <2>0, <3>1, <3>2 DEF SpentAt
    <2> QED  BY <2>1, <2>2, <2>3
<1>5. /\ open' \in {None, "observe", "model"} /\ dangling' = dangling
      /\ logState' \in {"empty", "open", "stopped"}
    BY DEF TypeInv, TypeOK, Start, GatherProse, FirstRead, BeginPass, Execute, ModelCall,
           Charge, Grade, Decide, AfterLoop, LogStop, logVars
<1>6. escaped' \in {escaped, "InvalidTransition", "memory"}
    BY StopGoes, EnterGoes, ConcludeGoes
       DEF Start, GatherProse, FirstRead, BeginPass, Execute, ModelCall, Charge, Grade,
           Decide, AfterLoop, LogStop
<1>7. saved' \in BOOLEAN
    <2>1. CASE AfterLoop
        <3>1. saved' = saved \/ saved' = (~cfg.budgeted /\ stopReason = "passed")
            BY <2>1, Zenon DEF AfterLoop
        <3>2. saved \in BOOLEAN
            BY DEF TypeInv, TypeOK
        <3> QED  BY <3>1, <3>2, Zenon
    <2>2. CASE ~AfterLoop
        <3>1. saved' = saved
            BY <2>2 DEF Start, GatherProse, FirstRead, BeginPass, Execute, ModelCall, Charge,
                   Grade, Decide, LogStop, KeepsRest
        <3> QED  BY <3>1 DEF TypeInv, TypeOK
    <2> QED  BY <2>1, <2>2
<1>8. evaluation'.patterns \subseteq Sources
    <2>1. CASE Grade
        <3>1. \A o : Evaluate(o).patterns \subseteq Sources
            BY RunAssumption DEF Evaluate, WaitingOn, RunAssumption
        <3>2. evaluation' = evaluation \/ evaluation' = Evaluate(script[iteration])
            BY <2>1 DEF Grade, gradeVars
        <3> QED  BY <3>1, <3>2 DEF TypeInv
    <2>2. CASE ~Grade
        <3>1. evaluation' = evaluation
            BY <2>2 DEF Start, GatherProse, FirstRead, BeginPass, Execute, ModelCall, Charge,
                   Decide, AfterLoop, LogStop, gradeVars
        <3> QED  BY <3>1 DEF TypeInv
    <2> QED  BY <2>1, <2>2
<1>9. request'.patterns \subseteq Sources
    <2>1. CASE UNCHANGED request
        BY <2>1 DEF TypeInv
    <2>2. CASE FirstRead /\ ~UNCHANGED request
        BY <2>2, RunAssumption DEF FirstRead, NoRequest, RunAssumption
    <2>3. CASE Decide /\ ~UNCHANGED request
        BY <2>3 DEF Decide, RequestAgain, NoRequest, TypeInv
    <2>4. UNCHANGED request \/ FirstRead \/ Decide
        BY DEF Start, GatherProse, BeginPass, Execute, ModelCall, Charge, Grade, AfterLoop,
               LogStop, evidenceVars
    <2> QED  BY <2>1, <2>2, <2>3, <2>4
<1> QED  BY <1>1, <1>2, <1>3, <1>4, <1>5, <1>6, <1>7, <1>8, <1>9, TypeQuiet
(* The steps that touch the evidence: the reading of a round, its adoption,   *)
(* and a resumption.                                                        *)
LEMMA TypeRound ==
    ASSUME RunAssumption, TypeInv, EvidenceInv', ControlInv', Read \/ Adopt
    PROVE  TypeInv'
<1> DEFINE Stays == UNCHANGED <<cfg, iteration, calls, saved, logState, dangling, disk, moved,
                               edits, cancelled, late, crashes, evaluation>>
<1>1. Stays
    BY DEF Read, Adopt, KeepsRest, worldVars, gradeVars, budgetVars, logVars
<1>2. /\ base' \in [Sources -> Reading] /\ incoming' \in [Sources -> Reading]
      /\ pc' \in PCs /\ status' \in STATUSES /\ stopReason' \in STOP_REASONS \cup {None}
    BY DEF EvidenceInv, EvidenceTypes, ControlInv
<1>3. /\ resolved' \subseteq Sources /\ request'.patterns \subseteq Sources
      /\ open' \in {None, "observe", "model"}
    <2>1. /\ resolved' \in {resolved, resolved \cup request.patterns}
          /\ request' \in {request, NoRequest} /\ open' \in {open, None}
        BY DEF Read, Adopt
    <2>2. /\ resolved \subseteq Sources /\ request.patterns \subseteq Sources
          /\ open \in {None, "observe", "model"} /\ NoRequest.patterns = {}
        BY DEF NoRequest, TypeInv, TypeOK
    <2> QED  BY <2>1, <2>2
<1>4. escaped' \in {escaped, "InvalidTransition"}
    BY StopGoes, EnterGoes, ConcludeGoes DEF Read, Adopt
<1>5. spent' \in 0 .. MaxOutput + 1 /\ SpentAt'
    <2>0. MaxOutput \in Nat /\ spent \in 0 .. MaxOutput + 1
        BY DEF RunAssumption, TypeInv, TypeOK
    <2>1. CASE Read
        <3>1. /\ spent' = spent /\ pc' \in {"adopting", "after", "stopping", "escaped"}
              /\ pc = "reading"
            BY <2>1, StopGoes DEF Read, RoundEnd, budgetVars
        <3>2. spent <= MaxOutput
            BY <3>1 DEF TypeInv, SpentAt
        <3> QED  BY <2>0, <3>1, <3>2 DEF SpentAt
    <2>2. CASE Adopt
        <3>1. spent <= MaxOutput
            BY <2>2 DEF TypeInv, SpentAt, Adopt
        <3>2. Cardinality(Fresh) \in Nat
            BY FS_Subset, FS_CardinalityType DEF Fresh, RunAssumption
        <3>3. CASE ~(~OtherGround /\ ~(Fresh # {} /\ CheckFails)
                     /\ spent + Cardinality(Fresh) <= MaxOutput)
            <4>1. spent' \in {spent, MaxOutput + 1} /\ pc' \in {"after", "stopping", "escaped"}
                BY <2>2, <3>3, StopGoes DEF Adopt, RoundEnd
            <4> QED  BY <2>0, <3>1, <4>1 DEF SpentAt
        <3>4. CASE /\ ~OtherGround /\ ~(Fresh # {} /\ CheckFails)
                   /\ spent + Cardinality(Fresh) <= MaxOutput
            <4>1. /\ spent' = spent + Cardinality(Fresh)
                  /\ pc' \in {"loop", "after", "escaped"}
                BY <2>2, <3>4, StopGoes, EnterGoes, ConcludeGoes DEF Adopt
            <4> QED  BY <2>0, <3>2, <3>4, <4>1 DEF SpentAt
        <3> QED  BY <3>3, <3>4
    <2> QED  BY <2>1, <2>2
<1>6. TypeOK'
    <2>1. saved' \in BOOLEAN /\ moved' \in BOOLEAN /\ cancelled' \in BOOLEAN
          /\ late' \in BOOLEAN
        BY <1>1, Zenon DEF TypeInv, TypeOK
    <2> QED  BY <1>1, <1>2, <1>3, <1>4, <1>5, <2>1 DEF TypeInv, TypeOK
<1> QED  BY <1>1, <1>2, <1>3, <1>5, <1>6 DEF TypeInv

LEMMA TypeRestart ==
    ASSUME RunAssumption, TypeInv, EvidenceInv', ControlInv', Crash \/ Resume
    PROVE  TypeInv'
<1>1. /\ base' \in [Sources -> Reading] /\ incoming' \in [Sources -> Reading]
      /\ pc' \in PCs /\ status' \in STATUSES /\ stopReason' \in STOP_REASONS \cup {None}
    BY DEF EvidenceInv, EvidenceTypes, ControlInv
<1>2. MaxIterations \in Nat /\ MaxModelCalls \in Nat /\ MaxOutput \in Nat /\ MaxCrashes \in Nat
    BY DEF RunAssumption
<1>3. CASE Crash
    <2>1. saved' \in BOOLEAN /\ moved' \in BOOLEAN /\ cancelled' \in BOOLEAN
          /\ late' \in BOOLEAN
        BY <1>3, Zenon DEF Crash, worldVars, TypeInv, TypeOK
    <2>2. crashes' \in 0 .. MaxCrashes
        BY <1>2, <1>3 DEF Crash, TypeInv, TypeOK
    <2>3. dangling' \subseteq {"observe", "model"}
        BY <1>3 DEF Crash, TypeInv, TypeOK
    <2>4. UNCHANGED <<cfg, iteration, resolved, spent, calls, open, escaped, logState, disk,
                      edits, evaluation, request>> /\ pc' = "dead"
        BY <1>3 DEF Crash, worldVars, evidenceVars, gradeVars, budgetVars
    <2>5. TypeOK'
        BY <1>1, <2>1, <2>2, <2>3, <2>4 DEF TypeInv, TypeOK
    <2> QED  BY <1>1, <2>4, <2>5 DEF TypeInv, SpentAt
<1>4. CASE Resume
    <2>1. saved' \in BOOLEAN /\ moved' \in BOOLEAN /\ cancelled' \in BOOLEAN
          /\ late' \in BOOLEAN
        BY <1>4, Zenon DEF Resume, TypeInv, TypeOK
    <2>2. /\ iteration' = 0 /\ spent' = 0 /\ calls' = 0 /\ resolved' = {} /\ open' = None
          /\ request' = NoRequest /\ evaluation' = NotGraded
          /\ UNCHANGED <<cfg, escaped, logState, dangling, disk, edits, crashes>>
        BY <1>4 DEF Resume, logVars
    <2>3. TypeOK'
        BY <1>1, <1>2, <2>1, <2>2 DEF TypeInv, TypeOK
    <2>4. SpentAt'
        BY <1>2, <2>2 DEF SpentAt
    <2> QED  BY <1>1, <2>2, <2>3, <2>4 DEF TypeInv, NoRequest, NotGraded
<1> QED  BY <1>3, <1>4

(* Every variable keeps its type; in particular the output counter passes    *)
(* RunLimits.output_bytes by at most the one charge that is then refused,    *)
(* and the model calls never pass their bound.                              *)
THEOREM RunTypes == Spec => []TypeOK
<1> DEFINE Inv == TypeInv /\ EvidenceInv /\ ControlInv
<1>1. Init => Inv
    BY TypeInit, EvidenceInit, ControlInit
<1>2. Inv /\ [Next]_vars => Inv'
    <2> SUFFICES ASSUME Inv, [Next]_vars PROVE Inv'
        OBVIOUS
    <2>1. ControlInv' /\ EvidenceInv'
        BY ControlStep, EvidenceStep, RunAssumption DEF TypeInv, TypeOK
    <2>2. TypeInv'
        BY <2>1, TypePass, TypeRound, TypeRestart, TypeWorld, RunAssumption DEF Next, RunStep
    <2> QED  BY <2>1, <2>2
<1>3. Inv => TypeOK
    BY DEF TypeInv
<1> QED  BY <1>1, <1>2, <1>3, PTL DEF Spec
-----------------------------------------------------------------------------
(* Passes: what a decision rests on, from the grade to the next pass.       *)

(* Going round again, the loop has something new or a grade it can act on.  *)
WorthAnotherPass ==
    /\ RetryClass(evaluation.action) = "investigation" => NewMaterial
    /\ iteration > 1 /\ SameFailure(evaluation, previous) => NewMaterial

(* A round that answers a grade is read on the material of the grade.       *)
RoundAnswersGrade ==
    /\ ~evaluation.passed /\ iteration < MaxIterations
    /\ evaluation.on = base /\ request.patterns = evaluation.patterns

(* Stale citations ask for a reading, and nothing else.                     *)
StaleAsksToRead == evaluation.blocked => evaluation.action = "observe_again"

PassInv ==
    /\ pc \in {"start", "prose", "first"} => iteration = 0
    /\ pc = "decide" => evaluation.on = base
    /\ pc \in {"reading", "adopting"} =>
          IF request.first THEN iteration = 0 ELSE RoundAnswersGrade
    /\ pc = "loop" => iteration < MaxIterations /\ (iteration > 0 => WorthAnotherPass)
    /\ pc = "after" => stopReason # None
    /\ StaleAsksToRead
    /\ MaxIterationsBinds

(* Where a stop leads, and which reason it leaves.                          *)
LEMMA StopLeaves ==
    ASSUME NEW reason, NEW at, Stop(reason, at), at # "escaped"
    PROVE  /\ pc' \in {at, "escaped"} /\ stopReason' \in {stopReason, reason}
           /\ pc' = at => stopReason' = reason
BY DEF Stop, StopFrom

LEMMA ReasonsDiffer ==
    CheckReason \notin {None, "passed", "max_iterations"}
BY DEF CheckReason, None

(* What the loop does with a grade: what every reason to stop says of it,   *)
(* and what is so of a grade that is fed back.                              *)
LEMMA ConcludeDecides ==
    ASSUME NEW drift, Conclude(drift), stopReason = None
    PROVE  /\ pc' \in {"after", "loop", "escaped"}
           /\ pc' = "after" => stopReason' # None
           /\ stopReason' = "passed" => ~drift /\ evaluation.passed /\ ~cfg.approval
           /\ stopReason' = "max_iterations" =>
                 /\ ~(iteration < MaxIterations)
                 /\ evaluation.retry /\ ~evaluation.passed
                 /\ evaluation.action # "observe_again"
           /\ pc' = "loop" =>
                 /\ iteration < MaxIterations
                 /\ RetryClass(evaluation.action) # "investigation"
                 /\ ~UnchangedFeedback /\ evaluation.retry
           /\ pc' = "loop" => UNCHANGED stopReason
<1> DEFINE left   == iteration < MaxIterations
           reason == ClassifyStop(evaluation.passed, cfg.approval, evaluation.blocked,
                                  evaluation.gaps # {}, evaluation.retry, left)
           Asking == /\ RetryClass(evaluation.action) = "investigation"
                     /\ ~evaluation.passed /\ ~cfg.approval
           Over   == cfg.approval \/ evaluation.passed \/ ~(evaluation.retry /\ left)
<1>1. \/ drift /\ Stop("blocked", "after")
      \/ ~drift /\ Asking /\ Stop("blocked", "after")
      \/ ~drift /\ ~Asking /\ Stop("no_progress", "after")
      \/ ~drift /\ ~Asking /\ ~UnchangedFeedback /\ Over /\ Stop(reason, "after")
      \/ /\ ~drift /\ ~Asking /\ ~UnchangedFeedback /\ ~Over
         /\ Enter(<<"replanning">>, "loop") /\ UNCHANGED stopReason
    BY DEF Conclude
<1>2. CASE Stop("blocked", "after") \/ Stop("no_progress", "after")
    BY <1>2, StopLeaves DEF None
<1>3. CASE ~drift /\ ~Asking /\ ~UnchangedFeedback /\ Over /\ Stop(reason, "after")
    <2>1. reason # None
        BY DEF ClassifyStop, None
    <2>2. reason = "passed" => evaluation.passed /\ ~cfg.approval
        BY DEF ClassifyStop
    <2>3. reason = "max_iterations" =>
              ~cfg.approval /\ ~evaluation.passed /\ evaluation.retry /\ ~left
        BY DEF ClassifyStop
    <2>4. /\ pc' \in {"after", "escaped"} /\ stopReason' \in {None, reason}
          /\ pc' = "after" => stopReason' = reason
        BY <1>3, StopLeaves
    <2>5. ~cfg.approval /\ ~evaluation.passed => evaluation.action # "observe_again"
        BY <1>3 DEF RetryClass
    <2> HIDE DEF reason
    <2>6. QED  BY <1>3, <2>1, <2>2, <2>3, <2>4, <2>5 DEF None
<1>4. CASE /\ ~drift /\ ~Asking /\ ~UnchangedFeedback /\ ~Over
           /\ Enter(<<"replanning">>, "loop") /\ UNCHANGED stopReason
    <2>1. pc' \in {"loop", "escaped"}
        BY <1>4, EnterGoes
    <2>2. QED  BY <1>4, <2>1 DEF None
<1>5. QED  BY <1>1, <1>2, <1>3, <1>4

(* Where the run is at work, it has not stopped.                            *)
LEMMA AtWork ==
    ASSUME ControlInv,
           pc \in {"start", "prose", "first", "loop", "execute", "calling", "charge", "grade",
                   "decide", "reading", "adopting"}
    PROVE  stopReason = None
BY DEF ControlInv, StatusAt, StopsAgree, TERMINAL_STATUSES

(* A step that neither grades nor goes round, to a place of which PassInv   *)
(* says only that the run has stopped.                                      *)
LEMMA PassElsewhere ==
    ASSUME PassInv, UNCHANGED <<iteration, evaluation>>,
           pc' \notin {"start", "prose", "first", "decide", "reading", "adopting", "loop"},
           pc' = "after" => stopReason' # None,
           stopReason' = "max_iterations" => stopReason = "max_iterations"
    PROVE  PassInv'
<1>1. MaxIterationsBinds'  BY DEF PassInv, MaxIterationsBinds
<1>2. QED  BY <1>1 DEF PassInv, StaleAsksToRead

LEMMA PassInit == Init => PassInv
BY DEF Init, PassInv, StaleAsksToRead, MaxIterationsBinds, NotGraded, None

(* Up to the loop.                                                          *)
LEMMA PassGather ==
    ASSUME RunAssumption, ControlInv, PassInv, Start \/ GatherProse \/ FirstRead
    PROVE  PassInv'
<1>1. /\ UNCHANGED <<iteration, evaluation>> /\ iteration = 0 /\ stopReason = None
      /\ 0 < MaxIterations
    BY AtWork DEF Start, GatherProse, FirstRead, gradeVars, PassInv, RunAssumption
<1>2. /\ pc' \in {"prose", "first", "stopping", "escaped", "reading", "loop"}
      /\ pc' = "reading" => request'.first
    <2>1. CASE Start  BY <2>1, EnterGoes DEF Start
    <2>2. CASE GatherProse  BY <2>2, StopGoes DEF GatherProse
    <2>3. CASE FirstRead
        <3> DEFINE asked == IF Asks THEN PlanSources ELSE {}
        <3>1. \/ Stop(CheckReason, "stopping") \/ pc' = "loop"
              \/ /\ pc' = "reading"
                 /\ request' = [NoRequest EXCEPT !.first = TRUE, !.patterns = asked]
            BY <2>3 DEF FirstRead
        <3> HIDE DEF asked
        <3>2. [NoRequest EXCEPT !.first = TRUE, !.patterns = asked].first
            BY DEF NoRequest
        <3>3. CASE Stop(CheckReason, "stopping")
            BY <3>3, StopGoes
        <3>4. CASE /\ pc' = "reading"
                   /\ request' = [NoRequest EXCEPT !.first = TRUE, !.patterns = asked]
            <4>1. request'.first  BY <3>2, <3>4, Zenon
            <4>2. QED  BY <3>4, <4>1
        <3>5. QED  BY <3>1, <3>3, <3>4
    <2>4. QED  BY <2>1, <2>2, <2>3
<1>3. stopReason' # "max_iterations"
    <2>1. CASE Start  BY <1>1, <2>1 DEF Start, None
    <2>2. CASE GatherProse
        BY <1>1, <2>2, StopLeaves, ReasonsDiffer DEF GatherProse, None
    <2>3. CASE FirstRead
        BY <1>1, <2>3, StopLeaves, ReasonsDiffer DEF FirstRead, None
    <2>4. QED  BY <2>1, <2>2, <2>3
<1>4. QED
    BY <1>1, <1>2, <1>3 DEF PassInv, StaleAsksToRead, MaxIterationsBinds

(* From the top of the loop to the answer.                                  *)
LEMMA PassAnswer ==
    ASSUME RunAssumption, TypeInv, ControlInv, PassInv,
           BeginPass \/ Execute \/ ModelCall \/ Charge
    PROVE  PassInv'
<1>1. stopReason = None /\ evaluation' = evaluation
    BY AtWork DEF BeginPass, Execute, ModelCall, Charge, gradeVars
<1>2. /\ pc' \in {"execute", "calling", "charge", "grade", "after", "escaped"}
      /\ pc' = "after" => stopReason' # None
      /\ stopReason' # "max_iterations"
    <2>1. CASE BeginPass
        <3>1. ~(iteration >= MaxIterations)
            BY <2>1 DEF BeginPass, PassInv, TypeInv, TypeOK, RunAssumption
        <3>2. \/ Stop(CheckReason, "after")
              \/ /\ Enter(<<"routing", "planning", "executing">>, "execute")
                 /\ UNCHANGED stopReason
            BY <2>1, <3>1 DEF BeginPass
        <3>3. CASE Stop(CheckReason, "after")
            BY <1>1, <3>3, StopLeaves, ReasonsDiffer DEF None
        <3>4. CASE /\ Enter(<<"routing", "planning", "executing">>, "execute")
                   /\ UNCHANGED stopReason
            <4>1. pc' \in {"execute", "escaped"}
                BY <3>4, EnterGoes
            <4>2. QED  BY <1>1, <3>4, <4>1 DEF None
        <3>5. QED  BY <3>2, <3>3, <3>4
    <2>2. CASE Execute
        BY <1>1, <2>2, StopLeaves, ReasonsDiffer DEF Execute, None
    <2>3. CASE ModelCall
        BY <1>1, <2>3, StopLeaves, ReasonsDiffer DEF ModelCall, None
    <2>4. CASE Charge
        <3>1. \/ Stop(CheckReason, "after")
              \/ Stop("budget_exhausted", "after") \/ Stop("tool_error", "after")
              \/ Enter(<<"evaluating">>, "grade") /\ UNCHANGED stopReason
            BY <2>4 DEF Charge
        <3>2. QED  BY <1>1, <3>1, StopLeaves, EnterGoes, ReasonsDiffer DEF None
    <2>5. QED  BY <2>1, <2>2, <2>3, <2>4
<1>3. QED
    BY <1>1, <1>2 DEF PassInv, StaleAsksToRead, MaxIterationsBinds

(* Stale citations ask for a reading.                                       *)
LEMMA EvaluateStale ==
    ASSUME NEW o
    PROVE  /\ Evaluate(o).on = base
           /\ Evaluate(o).blocked => Evaluate(o).action = "observe_again"
<1>1. EvidenceGap(o) = "stale_citations" =>
          \A offTopic, sections : NextAction(EvidenceGap(o), offTopic, sections)
                                      = "observe_again"
    BY DEF NextAction
<1>2. QED  BY <1>1 DEF Evaluate, None

LEMMA PassGrade ==
    ASSUME ControlInv, PassInv, Grade
    PROVE  PassInv'
<1>1. stopReason = None /\ UNCHANGED <<iteration, base>>
    BY AtWork DEF Grade, evidenceVars
<1>2. CASE Stop(CheckReason, "after") /\ UNCHANGED gradeVars
    BY <1>1, <1>2, StopLeaves, ReasonsDiffer, PassElsewhere DEF gradeVars
<1>3. CASE /\ evaluation' = Evaluate(script[iteration]) /\ pc' = "decide"
           /\ UNCHANGED stopReason
    <2>1. evaluation'.on = base' /\ StaleAsksToRead'
        BY <1>1, <1>3, EvaluateStale DEF StaleAsksToRead
    <2>2. MaxIterationsBinds'
        BY <1>1, <1>3 DEF MaxIterationsBinds, None
    <2>3. QED  BY <1>3, <2>1, <2>2 DEF PassInv
<1>4. QED  BY <1>2, <1>3 DEF Grade

(* A grade that is concluded on, with what is known then.                   *)
LEMMA PassConclude ==
    ASSUME RunAssumption, TypeInv, PassInv, stopReason = None, NEW drift, Conclude(drift),
           UNCHANGED <<iteration, gradeVars>>
    PROVE  PassInv'
<1>1. iteration \in 0 .. MaxIterations /\ MaxIterations \in Nat
    BY DEF TypeInv, TypeOK, RunAssumption
<1>2. UNCHANGED <<evaluation, previous>>  BY DEF gradeVars
<1>3. MaxIterationsBinds'
    BY <1>1, <1>2, ConcludeDecides DEF MaxIterationsBinds
<1>4. pc' = "loop" => iteration' < MaxIterations /\ WorthAnotherPass'
    <2> SUFFICES ASSUME pc' = "loop" PROVE iteration' < MaxIterations /\ WorthAnotherPass'
        OBVIOUS
    <2>1. /\ iteration < MaxIterations /\ RetryClass(evaluation.action) # "investigation"
          /\ ~UnchangedFeedback /\ evaluation.retry
        BY ConcludeDecides
    <2>2. ~evaluation.blocked
        BY <2>1 DEF PassInv, StaleAsksToRead, RetryClass
    <2>3. ~(iteration > 1 /\ SameFailure(evaluation, previous))
        BY <1>1, <2>1, <2>2 DEF UnchangedFeedback
    <2>4. QED  BY <1>2, <2>1, <2>3 DEF WorthAnotherPass, SameFailure
<1>5. pc' \in {"after", "loop", "escaped"} /\ (pc' = "after" => stopReason' # None)
    BY ConcludeDecides
<1>6. StaleAsksToRead'
    BY <1>2 DEF PassInv, StaleAsksToRead
<1>7. QED  BY <1>3, <1>4, <1>5, <1>6 DEF PassInv

LEMMA PassDecide ==
    ASSUME RunAssumption, TypeInv, ControlInv, PassInv, Decide
    PROVE  PassInv'
<1>1. /\ stopReason = None /\ evaluation.on = base
      /\ UNCHANGED <<iteration, base, gradeVars, evaluation>>
    BY AtWork DEF Decide, gradeVars, PassInv
<1>2. CASE Stop(CheckReason, "after")
    BY <1>1, <1>2, StopLeaves, ReasonsDiffer, PassElsewhere
<1>3. CASE /\ MayReadAgain(Drifted) /\ request' = RequestAgain(Drifted)
           /\ Enter(<<"observing">>, "reading") /\ UNCHANGED stopReason
    <2>1. ~request'.first /\ request'.patterns = evaluation.patterns
        BY <1>3 DEF RequestAgain, NoRequest
    <2>2. RoundAnswersGrade'
        BY <1>1, <1>3, <2>1 DEF RoundAnswersGrade, MayReadAgain
    <2>3. pc' \in {"reading", "escaped"}
        BY <1>3, EnterGoes
    <2>4. MaxIterationsBinds' /\ StaleAsksToRead'
        BY <1>1, <1>3 DEF PassInv, MaxIterationsBinds, StaleAsksToRead, None
    <2>5. QED  BY <2>1, <2>2, <2>3, <2>4 DEF PassInv
<1>4. CASE Conclude(Drifted)
    BY <1>1, <1>4, PassConclude
<1>5. QED  BY <1>2, <1>3, <1>4 DEF Decide

(* A round.                                                                 *)
LEMMA PassRead ==
    ASSUME ControlInv, PassInv, Read
    PROVE  PassInv'
<1>1. /\ stopReason = None /\ pc = "reading"
      /\ UNCHANGED <<iteration, base, request, evaluation>>
    BY AtWork DEF Read, gradeVars
<1>2. CASE pc' = "adopting" /\ UNCHANGED stopReason
    BY <1>1, <1>2 DEF PassInv, RoundAnswersGrade, StaleAsksToRead, MaxIterationsBinds
<1>3. ASSUME NEW reason \in {CheckReason, "tool_error", "budget_exhausted"},
             Stop(reason, RoundEnd)
      PROVE  PassInv'
    <2>1. RoundEnd \in {"after", "stopping"}
        BY DEF RoundEnd
    <2>2. reason \notin {None, "max_iterations"}
        BY ReasonsDiffer DEF None
    <2>3. QED  BY <1>1, <1>3, <2>1, <2>2, StopLeaves, PassElsewhere
<1>4. QED  BY <1>2, <1>3 DEF Read

(* What is new to a round is new since the grade.                           *)
LEMMA NewsIsNew ==
    ASSUME EvidenceInv, RoundAnswersGrade, base' = Merged, evaluation' = evaluation,
           resolved' = resolved \cup request.patterns,
           Fresh # {} \/ request.patterns \ resolved # {}
    PROVE  NewMaterial'
<1>1. CASE Fresh # {}
    <2>1. PICK s \in Fresh : TRUE
        BY <1>1
    <2>2. Merged[s] # base[s]
        BY <2>1 DEF Fresh, Merged
    <2>3. QED  BY <2>2 DEF NewMaterial, RoundAnswersGrade
<1>2. CASE request.patterns \ resolved # {}
    <2>1. PICK s : s \in evaluation.patterns /\ s \in resolved'
        BY <1>2 DEF RoundAnswersGrade
    <2>2. s \notin WaitingOn'
        BY <2>1 DEF WaitingOn
    <2>3. QED  BY <2>1, <2>2 DEF NewMaterial
<1>3. QED  BY <1>1, <1>2

LEMMA PassAdopt ==
    ASSUME RunAssumption, TypeInv, EvidenceInv, ControlInv, PassInv, Adopt
    PROVE  PassInv'
<1>1. /\ stopReason = None /\ pc = "adopting"
      /\ UNCHANGED <<iteration, gradeVars, evaluation, previous>>
    BY AtWork DEF Adopt, gradeVars
<1>2. ASSUME NEW reason \in {CheckReason, "blocked", "budget_exhausted"},
             Stop(reason, RoundEnd)
      PROVE  PassInv'
    <2>1. RoundEnd \in {"after", "stopping"}
        BY DEF RoundEnd
    <2>2. reason \notin {None, "max_iterations"}
        BY ReasonsDiffer DEF None
    <2>3. QED  BY <1>1, <1>2, <2>1, <2>2, StopLeaves, PassElsewhere
<1>3. CASE request.first /\ pc' = "loop" /\ UNCHANGED stopReason
    <2>1. iteration' = 0 /\ 0 < MaxIterations
        BY <1>1, <1>3 DEF PassInv, RunAssumption
    <2>2. MaxIterationsBinds' /\ StaleAsksToRead'
        BY <1>1, <1>3 DEF PassInv, MaxIterationsBinds, StaleAsksToRead, None
    <2>3. QED  BY <1>3, <2>1, <2>2 DEF PassInv
<1>4. CASE /\ ~request.first /\ (Fresh # {} \/ request.patterns \ resolved # {})
           /\ base' = Merged /\ resolved' = resolved \cup request.patterns
           /\ Enter(<<"replanning">>, "loop") /\ UNCHANGED stopReason
    <2>1. RoundAnswersGrade
        BY <1>1, <1>4 DEF PassInv
    <2>2. NewMaterial' /\ iteration' < MaxIterations
        BY <1>1, <1>4, <2>1, NewsIsNew DEF RoundAnswersGrade
    <2>3. WorthAnotherPass'
        BY <2>2 DEF WorthAnotherPass
    <2>4. pc' \in {"loop", "escaped"}
        BY <1>4, EnterGoes
    <2>5. MaxIterationsBinds' /\ StaleAsksToRead'
        BY <1>1, <1>4 DEF PassInv, MaxIterationsBinds, StaleAsksToRead, None
    <2>6. QED  BY <2>2, <2>3, <2>4, <2>5 DEF PassInv
<1>5. CASE Conclude(request.drift)
    BY <1>1, <1>5, PassConclude
<1>6. QED  BY <1>2, <1>3, <1>4, <1>5 DEF Adopt

(* The end of a run, its death and its return.                              *)
LEMMA PassEnd ==
    ASSUME PassInv, AfterLoop \/ LogStop \/ Crash \/ Resume
    PROVE  PassInv'
<1>1. CASE AfterLoop
    <2>1. /\ pc' \in {"stopping", "escaped"} /\ UNCHANGED <<iteration, evaluation, stopReason>>
        BY <1>1 DEF AfterLoop, PassInv, gradeVars
    <2>2. QED  BY <2>1, PassElsewhere
<1>2. CASE LogStop \/ Crash
    <2>1. pc' \in {"ended", "dead"} /\ UNCHANGED <<iteration, evaluation, stopReason>>
        BY <1>2 DEF LogStop, Crash, gradeVars
    <2>2. QED  BY <2>1, PassElsewhere
<1>3. CASE Resume
    BY <1>3 DEF Resume, PassInv, StaleAsksToRead, MaxIterationsBinds, NotGraded, None
<1>4. QED  BY <1>1, <1>2, <1>3

LEMMA PassWorld ==
    ASSUME PassInv, World \/ UNCHANGED vars
    PROVE  PassInv'
<1>1. UNCHANGED <<cfg, ownVars>>
    BY DEF World, Edit, Delete, MoveHead, Cancel, Deadline, vars
<1>2. UNCHANGED <<pc, stopReason, iteration, base, resolved, request, evaluation, previous>>
    BY <1>1 DEF ownVars
<1>3. NewMaterial' = NewMaterial
    BY <1>1, <1>2 DEF NewMaterial, WaitingOn, Asks, Held
<1>4. WorthAnotherPass' = WorthAnotherPass
    BY <1>2, <1>3 DEF WorthAnotherPass
<1>5. QED
    BY <1>2, <1>4 DEF PassInv, RoundAnswersGrade, StaleAsksToRead, MaxIterationsBinds

(* All that is known of a run.                                              *)
RunInv == TypeInv /\ EvidenceInv /\ ControlInv /\ PassInv

LEMMA RunInvariant == Spec => []RunInv
<1>1. Init => RunInv
    BY TypeInit, EvidenceInit, ControlInit, PassInit DEF RunInv
<1>2. RunInv /\ [Next]_vars => RunInv'
    <2> SUFFICES ASSUME RunInv, [Next]_vars PROVE RunInv'
        OBVIOUS
    <2>1. ControlInv' /\ EvidenceInv'
        BY ControlStep, EvidenceStep, RunAssumption DEF RunInv, TypeInv, TypeOK
    <2>2. TypeInv'
        BY <2>1, TypePass, TypeRound, TypeRestart, TypeWorld, RunAssumption
           DEF RunInv, Next, RunStep
    <2>3. PassInv'
        BY PassGather, PassAnswer, PassGrade, PassDecide, PassRead, PassAdopt, PassEnd,
           PassWorld, RunAssumption DEF RunInv, Next, RunStep
    <2>4. QED  BY <2>1, <2>2, <2>3 DEF RunInv
<1>3. QED  BY <1>1, <1>2, PTL DEF Spec

(* A run that stops on its iteration bound was told something it could have *)
(* acted on, and had used them all (_classify_stop after the last grade).   *)
THEOREM BoundIsTheReason == Spec => []MaxIterationsBinds
<1>1. RunInv => MaxIterationsBinds
    BY DEF RunInv, PassInv
<1>2. QED  BY <1>1, RunInvariant, PTL

(* A run comes to "passed" by the grade alone.                              *)
LEMMA PassingIsGraded ==
    ASSUME RunInv, [Next]_vars, stopReason = None, stopReason' = "passed"
    PROVE  evaluation.passed /\ ~Drifted /\ ~CheckFails /\ ~cfg.approval
<1>1. ControlInv /\ PassInv  BY DEF RunInv
<1>2. stopReason' \notin {stopReason, CheckReason, "tool_error", "budget_exhausted",
                          "cancelled", "blocked", "max_iterations"}
    BY ReasonsDiffer DEF None
<1>3. CASE Start \/ GatherProse \/ FirstRead \/ BeginPass \/ Execute \/ ModelCall
    <2>1. stopReason' = stopReason
          \/ \E reason \in {CheckReason, "tool_error", "budget_exhausted", "cancelled"},
                at \in {"after", "stopping"} : Stop(reason, at)
        BY <1>3 DEF Start, GatherProse, FirstRead, BeginPass, Execute, ModelCall
    <2>2. QED  BY <1>2, <2>1, StopLeaves
<1>4. CASE Charge \/ Grade
    <2>1. stopReason' = stopReason
          \/ \E reason \in {CheckReason, "tool_error", "budget_exhausted"} :
                Stop(reason, "after")
        BY <1>4 DEF Charge, Grade
    <2>2. QED  BY <1>2, <2>1, StopLeaves
<1>5. CASE Decide
    <2>1. ~Stop(CheckReason, "after") /\ ~UNCHANGED stopReason
        BY <1>2, StopLeaves
    <2>2. ~CheckFails /\ Conclude(Drifted)
        BY <1>5, <2>1 DEF Decide
    <2>3. QED  BY <2>2, ConcludeDecides
<1>6. CASE Read
    <2>1. stopReason' = stopReason
          \/ \E reason \in {CheckReason, "tool_error", "budget_exhausted"} :
                Stop(reason, RoundEnd)
        BY <1>6 DEF Read
    <2>2. RoundEnd # "escaped"  BY DEF RoundEnd
    <2>3. QED  BY <1>2, <2>1, <2>2, StopLeaves
<1>7. CASE Adopt
    <2>1. \/ stopReason' = stopReason
          \/ \E reason \in {CheckReason, "blocked", "budget_exhausted"} :
                Stop(reason, RoundEnd)
          \/ ~request.first /\ Conclude(request.drift)
        BY <1>7 DEF Adopt
    <2>2. RoundEnd # "escaped"  BY DEF RoundEnd
    <2>3. ~request.first /\ Conclude(request.drift)
        BY <1>2, <2>1, <2>2, StopLeaves
    <2>4. ~evaluation.passed
        BY <1>1, <1>7, <2>3 DEF Adopt, PassInv, RoundAnswersGrade
    <2>5. QED  BY <2>3, <2>4, ConcludeDecides
<1>8. CASE AfterLoop
    BY <1>1, <1>2, <1>8 DEF AfterLoop, PassInv
<1>9. CASE LogStop \/ Crash \/ Resume
    BY <1>2, <1>9 DEF LogStop, Crash, Resume, None
<1>10. CASE World \/ UNCHANGED vars
    BY <1>2, <1>10 DEF World, Edit, Delete, MoveHead, Cancel, Deadline, vars, ownVars
<1>11. QED
    BY <1>3, <1>4, <1>5, <1>6, <1>7, <1>8, <1>9, <1>10 DEF Next, RunStep

(* A run passes only on its last grade, over sources that are as they were  *)
(* read, neither cancelled nor late, and only if nobody has to approve it   *)
(* (the drift check and budget.check come before _classify_stop).           *)
THEOREM PassesOnStandingGround == Spec => PassedOnStandingGround
<1> DEFINE A == stopReason = None /\ stopReason' = "passed" =>
                    evaluation.passed /\ ~Drifted /\ ~CheckFails /\ ~cfg.approval
<1>1. RunInv /\ [Next]_vars => [A]_vars
    BY PassingIsGraded
<1> HIDE DEF A
<1>2. Spec => [][A]_vars
    BY <1>1, RunInvariant, PTL DEF Spec
<1>3. QED  BY <1>2 DEF PassedOnStandingGround, A

(* Only an adopted round is logged and only a grade graded, both paid for.  *)
LEMMA PaidFirst ==
    ASSUME RunInv, [Next]_vars, cfg.budgeted,
           logRounds' # logRounds \/ (evaluation' # evaluation /\ pc # "dead")
    PROVE  spent' <= MaxOutput
<1>1. TypeInv  BY DEF RunInv
<1>2. CASE Grade
    <2>1. spent' = spent /\ pc = "grade"
        BY <1>2 DEF Grade, budgetVars
    <2>2. QED  BY <1>1, <2>1 DEF TypeInv, SpentAt
<1>3. CASE Adopt
    <2>1. logRounds' # logRounds
        BY <1>3 DEF Adopt, gradeVars
    <2>2. /\ spent' = spent + Cardinality(Fresh)
          /\ spent + Cardinality(Fresh) <= MaxOutput
        BY <1>3, <2>1 DEF Adopt
    <2>3. QED  BY <2>2
<1>4. Grade \/ Adopt
    BY DEF Next, RunStep, World, vars, ownVars, logVars, Start, GatherProse, FirstRead,
           BeginPass, Execute, ModelCall, Charge, Decide, Read, AfterLoop, LogStop, Crash,
           Resume, Edit, Delete, MoveHead, Cancel, Deadline, gradeVars
<1>5. QED  BY <1>2, <1>3, <1>4

(* What output_bytes cannot pay for leaves no trace: no round is logged and *)
(* no answer graded past it (charge_output comes before both).              *)
THEOREM WhatIsKeptIsPaid == Spec => UnpaidLeavesNoTrace
<1> DEFINE A == cfg.budgeted /\ (logRounds' # logRounds
                                 \/ (evaluation' # evaluation /\ pc # "dead"))
                    => spent' <= MaxOutput
<1>1. RunInv /\ [Next]_vars => [A]_vars
    BY PaidFirst
<1> HIDE DEF A
<1>2. Spec => [][A]_vars
    BY <1>1, RunInvariant, PTL DEF Spec
<1>3. QED  BY <1>2 DEF UnpaidLeavesNoTrace, A

(* A pass is begun at the top of the loop.                                  *)
LEMMA PassesBeginAtTheTop ==
    ASSUME RunInv, [Next]_vars, iteration' = iteration + 1
    PROVE  pc = "loop"
<1>1. iteration \in Nat
    BY DEF RunInv, TypeInv, TypeOK
<1>2. iteration' # iteration /\ iteration' # 0
    BY <1>1
<1>3. BeginPass
    BY <1>2 DEF Next, RunStep, World, vars, ownVars, Start, GatherProse, FirstRead, Execute,
           ModelCall, Charge, Grade, Decide, Read, Adopt, AfterLoop, LogStop, Crash,
           Resume, Edit, Delete, MoveHead, Cancel, Deadline
<1>4. QED  BY <1>3 DEF BeginPass

(* After a grade that asks for material the run goes round again only with  *)
(* material it did not have: feedback cannot produce bytes (_run, on a      *)
(* round that brought nothing).                                             *)
THEOREM FeedbackIsNoMaterial == Spec => InvestigationNeedsMaterial
<1> DEFINE A == iteration' = iteration + 1 /\ iteration > 0
                    /\ RetryClass(evaluation.action) = "investigation" => NewMaterial
<1>1. RunInv /\ [Next]_vars => [A]_vars
    BY PassesBeginAtTheTop DEF RunInv, PassInv, WorthAnotherPass
<1> HIDE DEF A
<1>2. Spec => [][A]_vars
    BY <1>1, RunInvariant, PTL DEF Spec
<1>3. QED  BY <1>2 DEF InvestigationNeedsMaterial, A

(* A run that failed twice in the same way does not try a third time on the *)
(* same material (_same_failure, and the reading stale citations ask for).  *)
THEOREM TwiceIsEnough == Spec => NoThirdTry
<1> DEFINE A == iteration' = iteration + 1 /\ iteration > 1
                    /\ SameFailure(evaluation, previous) => NewMaterial
<1>1. RunInv /\ [Next]_vars => [A]_vars
    <2>1. RunInv => iteration \in Nat
        BY DEF RunInv, TypeInv, TypeOK
    <2>2. QED
        BY <2>1, PassesBeginAtTheTop DEF RunInv, PassInv, WorthAnotherPass
<1> HIDE DEF A
<1>2. Spec => [][A]_vars
    BY <1>1, RunInvariant, PTL DEF Spec
<1>3. QED  BY <1>2 DEF NoThirdTry, A

-----------------------------------------------------------------------------
(* A resumed run reads what the log says was read.  Over a repository that   *)
(* nothing has touched, where a run stands after each pass follows from what *)
(* it was given and from the answers in `script`.                           *)

(* The grade an answer has on the evidence b, with the patterns r resolved.  *)
On(b, r) == INSTANCE AtlasRun WITH base <- b, resolved <- r

Standing == [base |-> base, resolved |-> resolved, rounds |-> rounds]
Given    == [base |-> Initially(cfg), resolved |-> {}, rounds |-> <<>>]

(* What the host brings, and what a run holds once it has adopted it.       *)
Fetched(req) ==
    [s \in Sources |->
        IF s \in req.paths \cup req.patterns \cup req.windows
        THEN [version |-> 1, window |-> IF s \in req.windows THEN 2 ELSE 1]
        ELSE NotRead]

Grown(b, inc) == {s \in Sources : inc[s] # NotRead /\ inc[s] # b[s]}

Gained(b, inc) == {<<s, inc[s].version,
                     IF b[s].version = inc[s].version THEN inc[s].window ELSE 0>> :
                   s \in Grown(b, inc)}

Taken(st, req) ==
    [base     |-> [s \in Sources |-> IF s \in Grown(st.base, Fetched(req))
                                     THEN Fetched(req)[s] ELSE st.base[s]],
     resolved |-> st.resolved \cup req.patterns,
     rounds   |-> Append(st.rounds, Gained(st.base, Fetched(req)))]

(* The read before the loop.                                                *)
ReadsFirst == /\ cfg.readFirst /\ cfg.observer /\ cfg.base
              /\ {s \in Sources : Initially(cfg)[s] # NotRead} = {}
FirstRequest == [NoRequest EXCEPT !.first = TRUE,
                                  !.patterns = IF Asks THEN PlanSources ELSE {}]
Opening == IF ReadsFirst THEN Taken(Given, FirstRequest) ELSE Given

(* Pass n: its grade, and the round it may lead to.                         *)
GradeOf(st, n) == On(st.base, st.resolved)!Evaluate(script[n])

ReadsOn(e, n) == /\ cfg.observer /\ cfg.base
                 /\ ~e.passed /\ ~cfg.approval
                 /\ n < MaxIterations /\ e.action = "observe_again"

RequestOn(b, e) ==
    [NoRequest EXCEPT
        !.paths    = IF e.windows = {} THEN {s \in Sources : b[s] # NotRead} ELSE {},
        !.patterns = e.patterns,
        !.windows  = e.windows,
        !.drift    = FALSE]

After(st, n) == LET e == GradeOf(st, n)
                IN  IF ReadsOn(e, n) THEN Taken(st, RequestOn(st.base, e)) ELSE st

(* What is so of a run by where it is.                                      *)
Ground == /\ ~moved /\ disk = [s \in Sources |-> 1]
          /\ \A s \in Sources : base[s] = NotRead \/ base[s].version = 1

AsGiven == base = Initially(cfg) /\ resolved = {} /\ rounds = <<>>

Answering == pc \in {"reading", "adopting"} /\ ~request.first
InPass    == pc \in {"execute", "calling", "charge", "grade", "decide"} \/ Answering

Asking ==
    /\ pc \in {"reading", "adopting"} =>
          IF request.first THEN AsGiven /\ ReadsFirst /\ request = FirstRequest
          ELSE ReadsOn(evaluation, iteration) /\ request = RequestOn(base, evaluation)
    /\ pc = "adopting" => incoming = Fetched(request)

Local ==
    /\ Ground /\ Asking
    /\ script \in [1 .. MaxIterations -> Outputs \cup {Unasked}]
    /\ pc \in {"start", "prose", "first"} => AsGiven
    /\ InPass => iteration >= 1
    /\ pc \in {"grade", "decide"} \/ Answering => script[iteration] # Unasked
    /\ pc = "decide" \/ Answering => evaluation = Evaluate(script[iteration])

(* Grading reads the evidence, the answer, and nothing else that changes.   *)
LEMMA OnNow ==
    /\ Held = On(base, resolved)!Held /\ Stale = On(base, resolved)!Stale
    /\ WaitingOn = On(base, resolved)!WaitingOn
    /\ PartialOnes = On(base, resolved)!PartialOnes
    /\ None = On(base, resolved)!None
    /\ Unactionable = On(base, resolved)!Unactionable
    /\ Asks = On(base, resolved)!Asks
BY DEF Held, On!Held, Stale, On!Stale, WaitingOn, On!WaitingOn, PartialOnes, On!PartialOnes,
       None, On!None, Unactionable, On!Unactionable, Asks, On!Asks, NotRead, On!NotRead

LEMMA GradeNow == ASSUME NEW o PROVE Evaluate(o) = On(base, resolved)!Evaluate(o)
<1>1. EvidenceGap(o) = On(base, resolved)!EvidenceGap(o)
    BY OnNow DEF EvidenceGap, On!EvidenceGap, GapAgainstEvidence, On!GapAgainstEvidence
<1>2. OnTopic(o) = On(base, resolved)!OnTopic(o)
    BY <1>1, OnNow DEF OnTopic, On!OnTopic
<1>3. \A g, p, s : NextAction(g, p, s) = On(base, resolved)!NextAction(g, p, s)
    BY OnNow DEF NextAction, On!NextAction
<1>4. QED  BY <1>1, <1>2, <1>3, OnNow DEF Evaluate, On!Evaluate

(* As long as the repository stays as it is.                                *)
Steady == UNCHANGED <<cfg, disk, moved>>

LEMMA GradeKept ==
    ASSUME Steady, NEW b, NEW r, NEW o
    PROVE  (On(b, r)!Evaluate(o))' = On(b, r)!Evaluate(o)
BY DEF Steady, On!Evaluate, On!EvidenceGap, On!GapAgainstEvidence, On!OnTopic,
       On!NextAction, On!Held, On!Stale, On!WaitingOn, On!PartialOnes, On!None,
       On!Unactionable, On!Asks, On!NotRead

LEMMA EvaluateKept ==
    ASSUME Steady, UNCHANGED <<base, resolved, script, iteration>>
    PROVE  Evaluate(script[iteration])' = Evaluate(script[iteration])
BY DEF Steady, Evaluate, EvidenceGap, GapAgainstEvidence, OnTopic, NextAction, Held, Stale,
       WaitingOn, PartialOnes, None, Unactionable, Asks, NotRead

LEMMA AfterKept ==
    ASSUME Steady, NEW st, NEW n, script'[n] = script[n]
    PROVE  After(st, n)' = After(st, n)
<1>1. GradeOf(st, n)' = GradeOf(st, n)
    BY GradeKept DEF GradeOf
<1>2. QED
    BY <1>1 DEF Steady, After, ReadsOn, RequestOn, Taken, Grown, Gained, Fetched

LEMMA OpeningKept == ASSUME Steady PROVE Opening' = Opening
BY DEF Steady, Opening, ReadsFirst, FirstRequest, Given, Taken, Grown, Gained, Fetched, Asks,
       Initially

-----------------------------------------------------------------------------
(* How a run gets on, by the steps of the loop.                             *)
Over     == {"after", "stopping", "ended", "escaped", "dead"}
OnCourse == pc = "loop" \/ InPass
Passes   == IF pc = "loop" THEN iteration ELSE iteration - 1

Keeps == UNCHANGED <<base, resolved, rounds, logRounds>>
Logs  == rounds' = Append(rounds, Material) /\ logRounds' = Append(logRounds, Material)

Stays == Keeps /\ (OnCourse' => OnCourse /\ Passes' = Passes)

Opens == /\ AsGiven /\ ~OnCourse /\ pc' = "loop" /\ iteration' = 0
         /\ Standing' = Opening /\ (Keeps \/ Logs)

Settles == /\ InPass /\ pc' \in Over \cup {"loop"} /\ iteration' = iteration
           /\ script[iteration] # Unasked
           /\ Standing' = After(Standing, iteration) /\ (Keeps \/ Logs)

Walk == UNCHANGED recorded /\ (Stays \/ Opens \/ Settles)

(* Of a run that is over nothing more is known.                             *)
LEMMA OverIsLocal ==
    ASSUME Ground', script' \in [1 .. MaxIterations -> Outputs \cup {Unasked}],
           pc' \in Over
    PROVE  Local' /\ ~OnCourse'
BY DEF Over, Local, Asking, InPass, Answering, OnCourse

LEMMA GroundKept ==
    ASSUME Steady, Ground, base' = base
    PROVE  Ground'
BY DEF Steady, Ground

LEMMA UntouchedIsNotDrifted == ASSUME Ground PROVE Stale = {} /\ Drifted = FALSE
BY DEF Ground, Stale, Drifted, Held

(* A step to the end of the run, with all else as it was.                   *)
LEMMA WalkToTheEnd ==
    ASSUME Steady, Local, Keeps, UNCHANGED <<recorded, script>>, pc' \in Over
    PROVE  Local' /\ Walk
BY GroundKept, OverIsLocal DEF Local, Keeps, Walk, Stays

(* Up to the loop.                                                          *)
LEMMA WalkBefore ==
    ASSUME RunInv, Local, Steady, Start \/ GatherProse \/ FirstRead
    PROVE  Local' /\ Walk
<1>1. /\ pc \in {"start", "prose", "first"} /\ AsGiven /\ iteration = 0
      /\ Keeps /\ UNCHANGED <<recorded, script, iteration>> /\ ~OnCourse /\ AsGiven' /\ Ground'
    BY GroundKept DEF Start, GatherProse, FirstRead, evidenceVars, logVars, KeepsRest, Local,
       RunInv, PassInv, Keeps, OnCourse, InPass, Answering, AsGiven, Steady, Initially
<1>2. CASE pc' \in Over
    BY <1>1, <1>2, WalkToTheEnd
<1>3. CASE pc' \in {"prose", "first"}
    BY <1>1, <1>3 DEF Local, Asking, InPass, Answering, OnCourse, Walk, Stays
<1>4. CASE FirstRead /\ pc' \notin Over
    <2> DEFINE reads == cfg.readFirst /\ cfg.observer /\ cfg.base /\ Held = {}
    <2>1. reads <=> ReadsFirst
        BY <1>1 DEF ReadsFirst, Held, AsGiven
    <2>2. \/ reads /\ request' = FirstRequest /\ pc' = "reading"
          \/ ~reads /\ pc' = "loop"
        BY <1>4, StopLeaves, StopGoes DEF FirstRead, FirstRequest, Over
    <2>3. CASE reads /\ request' = FirstRequest /\ pc' = "reading"
        <3>1. FirstRequest' = FirstRequest /\ ReadsFirst' = ReadsFirst
            BY DEF FirstRequest, ReadsFirst, Steady, Asks, Initially
        <3>2. request'.first
            <4>1. \A p : [NoRequest EXCEPT !.first = TRUE, !.patterns = p].first
                BY DEF NoRequest
            <4>2. QED  BY <2>3, <4>1, Zenon DEF FirstRequest
        <3>3. QED
            BY <1>1, <2>1, <2>3, <3>1, <3>2
               DEF Local, Asking, InPass, Answering, OnCourse, Walk, Stays
    <2>4. CASE ~reads /\ pc' = "loop"
        <3>1. Standing' = Opening
            BY <1>1, <2>1, <2>4 DEF Standing, Opening, Given, AsGiven, Keeps
        <3>2. QED
            BY <1>1, <2>4, <3>1
               DEF Local, Asking, InPass, Answering, Walk, Opens
    <2>5. QED  BY <2>2, <2>3, <2>4
<1>5. QED
    <2>1. GatherProse \/ Start => pc' \in {"prose", "first"} \cup Over
        BY EnterGoes, StopGoes DEF Start, GatherProse, Over
    <2>2. QED  BY <1>2, <1>3, <1>4, <2>1

(* A pass, up to its grade.                                                 *)
LEMMA WalkInPass ==
    ASSUME RunAssumption, RunInv, Local, Steady,
           BeginPass \/ Execute \/ ModelCall \/ Charge \/ Grade
    PROVE  Local' /\ Walk
<1>1. /\ Keeps /\ UNCHANGED recorded /\ Ground' /\ OnCourse
      /\ iteration \in Nat /\ iteration <= MaxIterations
    BY GroundKept DEF BeginPass, Execute, ModelCall, Charge, Grade, evidenceVars, logVars, Local,
       RunInv, TypeInv, TypeOK, Keeps, OnCourse, InPass, RunAssumption
<1>2. ASSUME pc' \in Over, UNCHANGED script PROVE Local' /\ Walk
    BY <1>1, <1>2, WalkToTheEnd
<1>3. CASE BeginPass
    <2>1. UNCHANGED script  BY <1>3 DEF BeginPass, KeepsRest
    <2>2. pc' \in {"execute"} \cup Over
        BY <1>3, StopGoes, EnterGoes DEF BeginPass, Over
    <2>3. CASE pc' = "execute"
        <3>1. pc = "loop" /\ iteration' = iteration + 1
            BY <1>3, <2>3, StopGoes DEF BeginPass
        <3>2. OnCourse' /\ Passes' = Passes
            BY <1>1, <2>3, <3>1 DEF OnCourse, InPass, Passes
        <3>3. QED
            BY <1>1, <2>1, <2>3, <3>1, <3>2 DEF Local, Asking, InPass, Answering, Walk, Stays
    <2>4. QED  BY <1>2, <2>1, <2>2, <2>3
<1>4. CASE Execute \/ ModelCall
    <2>1. UNCHANGED <<script, iteration>> /\ pc \in {"execute", "calling"}
        BY <1>4 DEF Execute, ModelCall, KeepsRest
    <2>2. pc' \in {"calling", "charge"} \cup Over
        BY <1>4, StopGoes DEF Execute, ModelCall, Over
    <2>3. CASE pc' \in {"calling", "charge"}
        <3>1. OnCourse' /\ Passes' = Passes
            BY <2>1, <2>3 DEF OnCourse, InPass, Passes
        <3>2. QED
            BY <1>1, <2>1, <2>3, <3>1 DEF Local, Asking, InPass, Answering, Walk, Stays
    <2>4. QED  BY <1>2, <2>1, <2>2, <2>3
<1>5. CASE Charge
    <2>1. UNCHANGED iteration /\ pc = "charge" /\ iteration >= 1
        BY <1>5 DEF Charge, Local, InPass
    <2>2. \/ pc' \in Over /\ UNCHANGED script
          \/ /\ pc' \in {"grade", "escaped"}
             /\ \E o \in Outputs : script' = [script EXCEPT ![iteration] = o]
        BY <1>5, StopGoes, EnterGoes DEF Charge, Over
    <2>3. ASSUME NEW o \in Outputs, script' = [script EXCEPT ![iteration] = o],
                 pc' \in {"grade", "escaped"}
          PROVE  Local' /\ Walk
        <3>1. /\ script' \in [1 .. MaxIterations -> Outputs \cup {Unasked}]
              /\ script'[iteration] = o
            BY <1>1, <2>1, <2>3 DEF Local, RunAssumption
        <3>2. o # Unasked
            BY DEF RunAssumption, Output, Kinds, Unasked
        <3>3. CASE pc' = "escaped"
            BY <1>1, <3>1, <3>3, OverIsLocal DEF Over, Walk, Stays
        <3>4. CASE pc' = "grade"
            <4>1. OnCourse' /\ Passes' = Passes
                BY <2>1, <3>4 DEF OnCourse, InPass, Passes
            <4>2. QED
                BY <1>1, <2>1, <3>1, <3>2, <3>4, <4>1
                   DEF Local, Asking, InPass, Answering, Walk, Stays
        <3>5. QED  BY <2>3, <3>3, <3>4
    <2>4. QED  BY <1>2, <2>2, <2>3
<1>6. CASE Grade
    <2>1. UNCHANGED <<script, iteration>> /\ pc = "grade"
        BY <1>6 DEF Grade, KeepsRest
    <2>2. pc' \in Over \/ (pc' = "decide" /\ evaluation' = Evaluate(script[iteration]))
        BY <1>6, StopGoes DEF Grade, Over
    <2>3. CASE pc' = "decide" /\ evaluation' = Evaluate(script[iteration])
        <3>1. evaluation' = Evaluate(script[iteration])'
            BY <1>1, <2>1, <2>3, EvaluateKept DEF Keeps
        <3>2. OnCourse' /\ Passes' = Passes
            BY <2>1, <2>3 DEF OnCourse, InPass, Passes
        <3>3. QED
            BY <1>1, <2>1, <2>3, <3>1, <3>2 DEF Local, Asking, InPass, Answering, Walk, Stays
    <2>4. QED  BY <1>2, <2>1, <2>2, <2>3
<1>7. QED  BY <1>3, <1>4, <1>5, <1>6

(* After the grade.                                                         *)
LEMMA WindowsAreHeld ==
    ASSUME NEW o PROVE Evaluate(o).windows \subseteq Held
BY DEF Evaluate, PartialOnes

LEMMA GradeIsReplayed ==
    ASSUME evaluation = Evaluate(script[iteration])
    PROVE  evaluation = GradeOf(Standing, iteration)
BY GradeNow DEF GradeOf, Standing

LEMMA WalkDecide ==
    ASSUME RunAssumption, RunInv, Local, Steady, Decide
    PROVE  Local' /\ Walk
<1>1. /\ Keeps /\ UNCHANGED <<recorded, script, iteration, evaluation>> /\ Ground'
      /\ pc = "decide" /\ Drifted = FALSE /\ InPass /\ iteration \in Nat
      /\ evaluation = Evaluate(script[iteration]) /\ script[iteration] # Unasked
    BY GroundKept, UntouchedIsNotDrifted DEF Decide, evidenceVars, gradeVars, logVars, KeepsRest,
       Local, Keeps, InPass, RunInv, TypeInv, TypeOK
<1>2. MayReadAgain(Drifted) <=> ReadsOn(evaluation, iteration)
    BY <1>1 DEF MayReadAgain, ReadsOn
<1>3. RequestAgain(Drifted) = RequestOn(base, evaluation)
    BY <1>1 DEF RequestAgain, RequestOn, Held
<1>4. \/ pc' \in Over
      \/ /\ ReadsOn(evaluation, iteration) /\ request' = RequestOn(base, evaluation)
         /\ pc' = "reading"
      \/ ~ReadsOn(evaluation, iteration) /\ pc' = "loop"
    <2>1. CASE Stop(CheckReason, "after")
        BY <2>1, StopGoes DEF Over
    <2>2. CASE /\ MayReadAgain(Drifted) /\ request' = RequestAgain(Drifted)
               /\ Enter(<<"observing">>, "reading")
        BY <1>2, <1>3, <2>2, EnterGoes DEF Over
    <2>3. CASE ~MayReadAgain(Drifted) /\ Conclude(Drifted)
        <3>1. stopReason = None
            BY <1>1, AtWork DEF RunInv
        <3>2. pc' \in {"after", "loop", "escaped"}
            BY <2>3, <3>1, ConcludeDecides
        <3>3. QED  BY <1>2, <2>3, <3>2 DEF Over
    <2>4. QED  BY <2>1, <2>2, <2>3 DEF Decide
<1>5. CASE /\ ReadsOn(evaluation, iteration) /\ request' = RequestOn(base, evaluation)
           /\ pc' = "reading"
    <2>1. ~request'.first
        <3>1. ~RequestOn(base, evaluation).first
            BY DEF RequestOn, NoRequest
        <3>2. QED  BY <1>5, <3>1, Zenon
    <2>2. request' = RequestOn(base, evaluation)' /\ ReadsOn(evaluation, iteration)'
        BY <1>1, <1>5 DEF RequestOn, ReadsOn, Keeps, Steady
    <2>3. evaluation' = Evaluate(script[iteration])'
        BY <1>1, EvaluateKept DEF Keeps
    <2>4. OnCourse' /\ OnCourse /\ Passes' = Passes
        BY <1>1, <1>5, <2>1 DEF OnCourse, InPass, Answering, Passes
    <2>5. Asking'
        BY <1>5, <2>1, <2>2 DEF Asking
    <2>6. QED
        BY <1>1, <1>5, <2>3, <2>4, <2>5 DEF Local, InPass, Answering, Walk, Stays
<1>6. CASE ~ReadsOn(evaluation, iteration) /\ pc' = "loop"
    <2>1. Standing' = After(Standing, iteration)
        BY <1>1, <1>6, GradeIsReplayed DEF After, Standing, Keeps
    <2>2. QED
        BY <1>1, <1>6, <2>1 DEF Local, Asking, InPass, Answering, Walk, Settles
<1>7. QED  BY <1>1, <1>4, <1>5, <1>6, WalkToTheEnd

(* The host brings what is there, as it is.                                 *)
LEMMA RequestsAreHeld ==
    ASSUME Local, pc \in {"reading", "adopting"}
    PROVE  request.windows \subseteq Held
<1>1. CASE request.first
    <2>1. \A p : [NoRequest EXCEPT !.first = TRUE, !.patterns = p].windows = {}
        BY DEF NoRequest
    <2>2. FirstRequest.windows = {}
        BY <2>1, Zenon DEF FirstRequest
    <2>3. QED  BY <1>1, <2>2 DEF Local, Asking
<1>2. CASE ~request.first
    <2>1. request = RequestOn(base, evaluation) /\ evaluation = Evaluate(script[iteration])
        BY <1>2 DEF Local, Asking, Answering
    <2>2. RequestOn(base, evaluation).windows = evaluation.windows
        BY DEF RequestOn, NoRequest
    <2>3. request.windows = evaluation.windows
        BY <2>1, <2>2, Zenon
    <2>4. QED  BY <2>1, <2>3, WindowsAreHeld
<1>3. QED  BY <1>1, <1>2

LEMMA WalkRead ==
    ASSUME RunInv, Local, Steady, Read
    PROVE  Local' /\ Walk
<1>1. /\ Keeps /\ UNCHANGED <<recorded, script, iteration, evaluation, request>> /\ Ground'
      /\ pc = "reading" /\ request.windows \subseteq Held
    BY GroundKept, RequestsAreHeld
       DEF Read, evidenceVars, gradeVars, logVars, KeepsRest, Local, Keeps
<1>2. {s \in request.windows : disk[s] # base[s].version} = {}
    BY <1>1 DEF Local, Ground, Held
<1>3. pc' \in Over \/ (pc' = "adopting" /\ incoming' = Fetched(request))
    <2>1. CASE \E reason \in {CheckReason, "tool_error", "budget_exhausted"} :
                  Stop(reason, RoundEnd)
        BY <2>1, StopGoes DEF Over, RoundEnd
    <2>2. ASSUME NEW head \in SUBSET {s \in request.windows : disk[s] # base[s].version},
                 incoming' = [s \in Sources |->
                    IF disk[s] = 0 \/ s \notin request.paths \cup request.patterns
                                               \cup request.windows
                    THEN NotRead
                    ELSE [version |-> disk[s],
                          window  |-> IF s \in request.windows \ head THEN 2 ELSE 1]]
          PROVE  incoming' = Fetched(request)
        <3>1. head = {}  BY <1>2
        <3>2. \A s \in Sources : disk[s] = 1
            BY DEF Local, Ground
        <3>3. QED  BY <2>2, <3>1, <3>2 DEF Fetched
    <2>3. QED  BY <2>1, <2>2 DEF Read
<1>4. CASE pc' = "adopting" /\ incoming' = Fetched(request)
    <2>1. Asking'
        BY <1>1, <1>4 DEF Local, Asking, AsGiven, ReadsFirst, FirstRequest, ReadsOn, RequestOn,
           Fetched, Keeps, Steady, Asks, Initially
    <2>2. evaluation' = Evaluate(script[iteration]) => evaluation' = Evaluate(script[iteration])'
        BY <1>1, EvaluateKept DEF Keeps
    <2>3. OnCourse' => OnCourse /\ Passes' = Passes
        BY <1>1, <1>4 DEF OnCourse, InPass, Answering, Passes
    <2>4. QED
        BY <1>1, <1>4, <2>1, <2>2, <2>3 DEF Local, InPass, Answering, Walk, Stays
<1>5. QED  BY <1>1, <1>3, <1>4, WalkToTheEnd

LEMMA AdoptedIsTaken ==
    ASSUME Local, pc = "adopting", base' = Merged, resolved' = resolved \cup request.patterns,
           rounds' = Append(rounds, Material)
    PROVE  Standing' = Taken(Standing, request)
<1>1. Fresh = Grown(base, Fetched(request)) /\ incoming = Fetched(request)
    BY DEF Local, Asking, Fresh, Grown
<1>2. /\ Merged = [s \in Sources |-> IF s \in Grown(base, Fetched(request))
                                     THEN Fetched(request)[s] ELSE base[s]]
      /\ Material = Gained(base, Fetched(request))
    BY <1>1 DEF Merged, Material, Gained
<1>3. QED  BY <1>2 DEF Standing, Taken

LEMMA WalkAdopt ==
    ASSUME RunAssumption, RunInv, Local, Steady, Adopt
    PROVE  Local' /\ Walk
<1>1. /\ UNCHANGED <<recorded, script, iteration>> /\ pc = "adopting"
      /\ stopReason = None /\ iteration \in Nat
    BY AtWork DEF Adopt, gradeVars, KeepsRest, RunInv, TypeInv, TypeOK
<1>2. CASE \E reason \in {CheckReason, "blocked", "budget_exhausted"} :
              Stop(reason, RoundEnd) /\ UNCHANGED <<base, resolved, rounds, logRounds>>
    <2>1. pc' \in Over
        BY <1>2, StopGoes DEF Over, RoundEnd
    <2>2. QED  BY <1>1, <1>2, <2>1, WalkToTheEnd DEF Keeps
<1>3. CASE /\ base' = Merged /\ resolved' = resolved \cup request.patterns /\ Logs
           /\ \/ request.first /\ pc' = "loop"
              \/ ~request.first /\ pc' \in Over \cup {"loop"}
    <2>1. Standing' = Taken(Standing, request)
        BY <1>1, <1>3, AdoptedIsTaken DEF Logs
    <2>2. Ground'
        <3>1. \A s \in Sources : Merged[s] \in {incoming[s], base[s]}
            BY DEF Merged
        <3>2. \A s \in Sources : incoming[s] = NotRead \/ incoming[s].version = 1
            BY <1>1 DEF Local, Asking, Fetched
        <3>3. QED  BY <1>3, <3>1, <3>2 DEF Ground, Local, Steady
    <2>3. Local'
        BY <1>1, <1>3, <2>2, OverIsLocal DEF Local, Asking, InPass, Answering
    <2>4. CASE request.first
        <3>1. AsGiven /\ ReadsFirst /\ request = FirstRequest /\ iteration = 0
            BY <1>1, <2>4 DEF Local, Asking, RunInv, PassInv
        <3>2. Standing = Given
            BY <3>1 DEF AsGiven, Standing, Given
        <3>3. Standing' = Opening
            BY <2>1, <3>1, <3>2 DEF Opening
        <3>4. QED
            BY <1>1, <1>3, <2>3, <2>4, <3>1, <3>3
               DEF Walk, Opens, OnCourse, InPass, Answering
    <2>5. CASE ~request.first
        <3>1. /\ evaluation = Evaluate(script[iteration]) /\ script[iteration] # Unasked
              /\ ReadsOn(evaluation, iteration) /\ request = RequestOn(base, evaluation)
              /\ InPass
            BY <1>1, <2>5 DEF Local, Asking, Answering, InPass
        <3>2. Standing' = After(Standing, iteration)
            <4>1. evaluation = GradeOf(Standing, iteration) /\ Standing.base = base
                BY <3>1, GradeIsReplayed DEF Standing
            <4>2. QED  BY <2>1, <3>1, <4>1 DEF After
        <3>3. QED
            BY <1>1, <1>3, <2>3, <2>5, <3>1, <3>2 DEF Walk, Settles
    <2>6. QED  BY <2>4, <2>5
<1>4. QED
    <2>1. Conclude(request.drift) => pc' \in Over \cup {"loop"}
        BY <1>1, ConcludeDecides DEF Over
    <2>2. Enter(<<"replanning">>, "loop") => pc' \in Over \cup {"loop"}
        BY EnterGoes DEF Over
    <2>3. QED  BY <1>2, <1>3, <2>1, <2>2 DEF Adopt, Logs

(* The end of a run, and the world around it.                               *)
LEMMA WalkElsewhere ==
    ASSUME RunInv, Local, Steady, AfterLoop \/ LogStop \/ Crash \/ World \/ UNCHANGED vars
    PROVE  Local' /\ Walk
<1>1. CASE AfterLoop \/ LogStop \/ Crash
    <2>1. pc' \in Over /\ Keeps /\ UNCHANGED <<recorded, script>>
        BY <1>1, StopGoes DEF AfterLoop, LogStop, Crash, Over, Keeps, evidenceVars, logVars,
           KeepsRest
    <2>2. QED  BY <2>1, WalkToTheEnd
<1>2. CASE World \/ UNCHANGED vars
    <2>1. UNCHANGED <<cfg, ownVars, logVars, script>>
        BY <1>2 DEF World, Edit, Delete, MoveHead, Cancel, Deadline, vars
    <2>2. UNCHANGED <<pc, iteration, base, resolved, rounds, recorded, request, incoming,
                      evaluation, logRounds, script>>
        BY <2>1 DEF ownVars, logVars
    <2>3. Ground' /\ Keeps
        BY <2>2, GroundKept DEF Local, Keeps
    <2>4. Asking'
        BY <2>2 DEF Local, Asking, AsGiven, ReadsFirst, FirstRequest, ReadsOn, RequestOn,
           Fetched, Steady, Asks, Initially
    <2>5. evaluation = Evaluate(script[iteration]) => evaluation' = Evaluate(script[iteration])'
        BY <2>2, EvaluateKept
    <2>6. AsGiven' = AsGiven
        BY <2>2 DEF AsGiven, Steady, Initially
    <2>7. Walk
        BY <2>2, <2>3 DEF Walk, Stays, OnCourse, InPass, Answering, Passes
    <2>8. QED
        BY <2>2, <2>3, <2>4, <2>5, <2>6, <2>7 DEF Local, InPass, Answering
<1>3. QED  BY <1>1, <1>2

LEMMA ResumeIsLocal ==
    ASSUME Local, Steady, Resume
    PROVE  Local' /\ ~OnCourse' /\ AsGiven'
<1>1. /\ pc' = "start" /\ AsGiven'
      /\ script' \in [1 .. MaxIterations -> Outputs \cup {Unasked}]
    BY DEF Resume, AsGiven, Local, Initially
<1>2. Ground'
    BY DEF Resume, Ground, Local, Steady, Initially, NotRead
<1>3. QED
    BY <1>1, <1>2 DEF Local, Asking, InPass, Answering, OnCourse
-----------------------------------------------------------------------------
(* The course of a run: st[n] is where it stands after pass n.              *)
Begins(s, t) == Len(s) <= Len(t) /\ \A i \in 1 .. Len(s) : s[i] = t[i]

Course(st, m) ==
    /\ m \in Nat /\ m <= MaxIterations /\ st[0] = Opening
    /\ \A n \in 1 .. m : script[n] # Unasked /\ st[n] = After(st[n - 1], n)
    /\ \A n \in 0 .. m : st[n].rounds \in Rounds
    /\ \A k, n \in 0 .. m : k <= n => Begins(st[k].rounds, st[n].rounds)

(* A deterministic producer gives the answers it gave.                      *)
ScriptKept == \A n \in 1 .. MaxIterations : script[n] # Unasked => script'[n] = script[n]

LEMMA AnswersAreKept ==
    ASSUME RunAssumption, Local, cfg.idempotent, [Next]_vars
    PROVE  ScriptKept
<1>1. CASE script' = script
    BY <1>1 DEF ScriptKept
<1>2. CASE \E o \in Outputs : /\ script[iteration] # Unasked => o = script[iteration]
                              /\ script' = [script EXCEPT ![iteration] = o]
    BY <1>2 DEF ScriptKept, Local
<1>3. QED
    <2>1. CASE Charge
        BY <1>1, <1>2, <2>1 DEF Charge
    <2>2. CASE ~Charge
        BY <1>1, <2>2 DEF Next, RunStep, World, vars, Start, GatherProse, FirstRead, BeginPass,
           Execute, ModelCall, Grade, Decide, Read, Adopt, AfterLoop, LogStop, Crash, Resume,
           Edit, Delete, MoveHead, Cancel, Deadline, KeepsRest
    <2>3. QED  BY <2>1, <2>2

LEMMA CourseKept ==
    ASSUME Steady, ScriptKept, RunAssumption, NEW st, NEW m, Course(st, m)
    PROVE  Course(st, m)'
<1>1. Opening' = Opening  BY OpeningKept
<1>2. \A n \in 1 .. m : n \in 1 .. MaxIterations
    BY DEF Course, RunAssumption
<1>3. ASSUME NEW n \in 1 .. m
      PROVE  script'[n] # Unasked /\ st[n] = After(st[n - 1], n)'
    <2>1. script'[n] = script[n] /\ st[n] = After(st[n - 1], n)
        BY <1>2, <1>3 DEF Course, ScriptKept
    <2>2. After(st[n - 1], n)' = After(st[n - 1], n)
        BY <2>1, AfterKept
    <2>3. QED  BY <2>1, <2>2 DEF Course
<1>4. QED  BY <1>1, <1>3 DEF Course

LEMMA CourseBegins ==
    ASSUME RunAssumption, Opening.rounds \in Rounds
    PROVE  \E st : Course(st, 0) /\ st[0] = Opening
<1> DEFINE st == [n \in {0} |-> Opening]
<1>1. st[0] = Opening /\ Len(st[0].rounds) \in Nat
    BY DEF Rounds
<1>2. Course(st, 0)
    BY <1>1 DEF Course, Begins, RunAssumption
<1>3. QED  BY <1>1, <1>2

LEMMA BeginsOn ==
    ASSUME NEW s \in Rounds, NEW t \in Rounds, NEW u \in Rounds
    PROVE  /\ Begins(s, s)
           /\ Begins(s, t) /\ Begins(t, u) => Begins(s, u)
<1>1. Len(s) \in Nat /\ Len(t) \in Nat /\ Len(u) \in Nat
    BY DEF Rounds
<1>2. QED  BY <1>1 DEF Begins

LEMMA CourseGrows ==
    ASSUME RunAssumption, NEW st, NEW m, NEW x, Course(st, m), m < MaxIterations,
           script[m + 1] # Unasked, x = After(st[m], m + 1), x.rounds \in Rounds,
           Begins(st[m].rounds, x.rounds)
    PROVE  \E t : Course(t, m + 1) /\ t[m + 1] = x
<1> DEFINE t == [n \in 0 .. m + 1 |-> IF n = m + 1 THEN x ELSE st[n]]
<1>1. m \in Nat /\ m + 1 \in Nat /\ m + 1 <= MaxIterations
    BY DEF Course, RunAssumption
<1>2. t[m + 1] = x /\ \A n \in 0 .. m : t[n] = st[n]
    BY <1>1
<1>3. \A n \in 0 .. m + 1 : n \in 0 .. m \/ n = m + 1
    BY <1>1
<1> HIDE DEF t
<1>4. \A n \in 1 .. m + 1 : script[n] # Unasked /\ t[n] = After(t[n - 1], n)
    <2> SUFFICES ASSUME NEW n \in 1 .. m + 1
                 PROVE  script[n] # Unasked /\ t[n] = After(t[n - 1], n)
        OBVIOUS
    <2>1. CASE n = m + 1
        <3>1. n - 1 = m /\ t[m] = st[m]
            BY <1>1, <1>2, <2>1
        <3>2. QED  BY <1>2, <2>1, <3>1
    <2>2. CASE n \in 1 .. m
        <3>1. t[n - 1] = st[n - 1] /\ t[n] = st[n]
            BY <1>1, <1>2, <2>2
        <3>2. QED  BY <2>2, <3>1 DEF Course
    <2>3. QED  BY <1>1, <2>1, <2>2
<1>5. \A n \in 0 .. m + 1 : t[n].rounds \in Rounds
    BY <1>2, <1>3 DEF Course
<1>6. ASSUME NEW k \in 0 .. m + 1, NEW n \in 0 .. m + 1, k <= n
      PROVE  Begins(t[k].rounds, t[n].rounds)
    <2>1. CASE n \in 0 .. m
        BY <1>1, <1>2, <1>6, <2>1 DEF Course
    <2>2. CASE n = m + 1 /\ k \in 0 .. m
        <3>1. Begins(st[k].rounds, st[m].rounds) /\ st[k].rounds \in Rounds
              /\ st[m].rounds \in Rounds
            BY <1>1, <2>2 DEF Course
        <3>2. Begins(st[k].rounds, x.rounds)
            BY <3>1, BeginsOn
        <3>3. QED  BY <1>2, <2>2, <3>2
    <2>3. CASE n = m + 1 /\ k = m + 1
        BY <1>5, <2>3, BeginsOn
    <2>4. QED  BY <1>3, <2>1, <2>2, <2>3
<1>7. t[0] = Opening
    BY <1>1, <1>2 DEF Course
<1>8. Course(t, m + 1)
    BY <1>1, <1>4, <1>5, <1>6, <1>7 DEF Course
<1>9. QED  BY <1>2, <1>8

(* What both attempts of a run know of its course.                          *)
Logged(log) == log = <<>> \/ \E st, m : Course(st, m) /\ log = st[m].rounds

FirstAttempt ==
    /\ recorded = <<>> /\ logRounds = rounds
    /\ OnCourse => \E st, m : Course(st, m) /\ m = Passes /\ Standing = st[m]
    /\ pc \in Over => Logged(logRounds)

Follows(st, m) ==
    /\ Course(st, m) /\ recorded = st[m].rounds
    /\ OnCourse => IF Passes <= m THEN Standing = st[Passes] ELSE Len(recorded) <= Len(rounds)

SecondAttempt == recorded = <<>> \/ \E st, m : Follows(st, m)

Attempts ==
    /\ crashes = 0 => pc # "dead" /\ FirstAttempt
    /\ crashes = 1 => IF pc = "dead" THEN Logged(logRounds) ELSE SecondAttempt

ReplayInv == edits = 0 => Local /\ (cfg.idempotent => Attempts)

(* The rounds of a run are added to and never taken away.                   *)
LEMMA RoundsGrow ==
    ASSUME RunInv, RunInv', Keeps \/ Logs
    PROVE  /\ Begins(rounds, rounds') /\ Len(rounds) <= Len(rounds')
           /\ rounds \in Rounds /\ rounds' \in Rounds /\ Len(rounds) \in Nat /\ Len(rounds') \in Nat
           /\ logRounds = rounds => logRounds' = rounds'
<1>1. rounds \in Rounds /\ rounds' \in Rounds
    BY DEF RunInv, EvidenceInv, EvidenceTypes
<1>2. Len(rounds) \in Nat /\ Len(rounds') \in Nat
    BY <1>1 DEF Rounds
<1>3. CASE Keeps
    BY <1>1, <1>2, <1>3 DEF Keeps, Begins
<1>4. CASE Logs
    <2>1. Material \in SUBSET (Sources \X Nat \X (0 .. 2))
        BY MaterialType DEF RunInv, EvidenceInv
    <2>2. Len(rounds') = Len(rounds) + 1 /\ \A i \in 1 .. Len(rounds) : rounds'[i] = rounds[i]
        BY <1>1, <1>4, <2>1 DEF Logs, Rounds
    <2>3. QED  BY <1>1, <1>2, <1>4, <2>2 DEF Begins, Logs
<1>5. QED  BY <1>3, <1>4

LEMMA PassesAreCounted ==
    ASSUME RunAssumption, RunInv, Local
    PROVE  /\ OnCourse => Passes \in Nat
           /\ InPass => iteration = Passes + 1 /\ iteration \in 1 .. MaxIterations
           /\ ~OnCourse /\ pc \notin Over => AsGiven
<1>1. iteration \in Nat /\ iteration <= MaxIterations /\ MaxIterations \in Nat /\ pc \in PCs
    BY DEF RunInv, TypeInv, TypeOK, RunAssumption
<1>2. QED
    BY <1>1 DEF OnCourse, InPass, Answering, Passes, Local, Asking, Over, PCs

(* Whatever point the first attempt is at, its log is that of a course.      *)
LEMMA AlwaysLogged ==
    ASSUME RunAssumption, RunInv, Local, FirstAttempt
    PROVE  Logged(logRounds)
<1>1. CASE OnCourse
    <2>1. PICK st, m : Course(st, m) /\ Standing = st[m]
        BY <1>1 DEF FirstAttempt
    <2>2. logRounds = st[m].rounds
        BY <2>1 DEF FirstAttempt, Standing
    <2>3. QED  BY <2>1, <2>2 DEF Logged
<1>2. CASE pc \in Over
    BY <1>2 DEF FirstAttempt
<1>3. CASE ~OnCourse /\ pc \notin Over
    BY <1>3, PassesAreCounted DEF FirstAttempt, AsGiven, Logged
<1>4. QED  BY <1>1, <1>2, <1>3

LEMMA LoggedKept ==
    ASSUME RunAssumption, Steady, ScriptKept, Logged(logRounds), logRounds' = logRounds
    PROVE  Logged(logRounds)'
<1>1. CASE logRounds = <<>>
    BY <1>1 DEF Logged
<1>2. CASE \E st, m : Course(st, m) /\ logRounds = st[m].rounds
    <2>1. PICK st, m : Course(st, m) /\ logRounds = st[m].rounds
        BY <1>2
    <2>2. Course(st, m)'
        BY <2>1, CourseKept
    <2>3. logRounds' = st[m].rounds
        BY <2>1
    <2>4. QED  BY <2>2, <2>3 DEF Logged
<1>3. QED  BY <1>1, <1>2 DEF Logged

(* A pass that is settled takes a course one pass further.                  *)
LEMMA CourseSettles ==
    ASSUME RunAssumption, RunInv, RunInv', Local, Settles,
           NEW st, NEW m, Course(st, m), m = Passes, Standing = st[m]
    PROVE  \E t : Course(t, m + 1) /\ Standing' = t[m + 1]
<1>1. PICK x : x = Standing'
    OBVIOUS
<1>2. iteration = m + 1 /\ m < MaxIterations
    BY PassesAreCounted DEF Settles, RunAssumption, OnCourse
<1>3. script[m + 1] # Unasked /\ x = After(st[m], m + 1)
    BY <1>1, <1>2 DEF Settles
<1>4. x.rounds \in Rounds /\ Begins(st[m].rounds, x.rounds)
    BY <1>1, RoundsGrow DEF Settles, Standing
<1>5. \E t : Course(t, m + 1) /\ t[m + 1] = x
    BY <1>2, <1>3, <1>4, CourseGrows
<1>6. QED  BY <1>1, <1>5

LEMMA FirstStep ==
    ASSUME RunAssumption, RunInv, RunInv', Local, Local', Steady, ScriptKept, Walk, FirstAttempt
    PROVE  FirstAttempt'
<1>1. recorded' = <<>>
    BY DEF Walk, FirstAttempt
<1>2. CASE Stays
    <2>1. UNCHANGED <<rounds, logRounds, Standing>>
        BY <1>2 DEF Stays, Keeps, Standing
    <2>2. Logged(logRounds)'
        BY <2>1, AlwaysLogged, LoggedKept
    <2>3. ASSUME OnCourse' PROVE (\E st, m : Course(st, m) /\ m = Passes /\ Standing = st[m])'
        <3>1. OnCourse /\ Passes' = Passes
            BY <1>2, <2>3 DEF Stays
        <3>2. PICK st, m : Course(st, m) /\ m = Passes /\ Standing = st[m]
            BY <3>1 DEF FirstAttempt
        <3>3. Course(st, m)'
            BY <3>2, CourseKept
        <3>4. QED  BY <2>1, <3>1, <3>2, <3>3
    <2>4. QED  BY <1>1, <2>1, <2>2, <2>3 DEF FirstAttempt
<1>3. CASE Opens
    <2>1. logRounds' = rounds'
        BY <1>3, RoundsGrow DEF Opens, FirstAttempt
    <2>2. Opening.rounds \in Rounds
        BY <1>3, RoundsGrow DEF Opens, Standing
    <2>3. PICK st : Course(st, 0) /\ st[0] = Opening
        BY <2>2, CourseBegins
    <2>4. Course(st, 0)'
        BY <2>3, CourseKept
    <2>5. pc' = "loop" /\ Passes' = 0 /\ Standing' = st[0]
        BY <1>3, <2>3 DEF Opens, Passes
    <2>6. (\E t, m : Course(t, m) /\ m = Passes /\ Standing = t[m])'
        BY <2>4, <2>5
    <2>7. QED  BY <1>1, <2>1, <2>5, <2>6 DEF FirstAttempt, Over
<1>4. CASE Settles
    <2>1. logRounds' = rounds'
        BY <1>4, RoundsGrow DEF Settles, FirstAttempt
    <2>2. PICK st, m : Course(st, m) /\ m = Passes /\ Standing = st[m]
        BY <1>4 DEF FirstAttempt, Settles, OnCourse
    <2>3. PICK t : Course(t, m + 1) /\ Standing' = t[m + 1]
        BY <1>4, <2>2, CourseSettles
    <2>4. PICK n : n = m + 1
        OBVIOUS
    <2>5. Course(t, n)' /\ Standing' = t[n]
        BY <2>3, <2>4, CourseKept
    <2>6. iteration' = n
        BY <1>4, <2>2, <2>4, PassesAreCounted DEF Settles
    <2>7. CASE pc' = "loop"
        <3>1. Passes' = n
            BY <2>6, <2>7 DEF Passes
        <3>2. (\E u, k : Course(u, k) /\ k = Passes /\ Standing = u[k])'
            BY <2>5, <3>1
        <3>3. QED  BY <1>1, <2>1, <2>7, <3>2 DEF FirstAttempt, Over
    <2>8. CASE pc' \in Over
        <3>1. logRounds' = t[n].rounds
            BY <2>1, <2>5 DEF Standing
        <3>2. Logged(logRounds)'
            BY <2>5, <3>1 DEF Logged
        <3>3. ~OnCourse'
            BY <2>8 DEF Over, OnCourse, InPass, Answering
        <3>4. QED  BY <1>1, <2>1, <3>2, <3>3 DEF FirstAttempt
    <2>9. QED  BY <1>4, <2>7, <2>8 DEF Settles
<1>5. QED  BY <1>2, <1>3, <1>4 DEF Walk

LEMMA SecondStep ==
    ASSUME RunAssumption, RunInv, RunInv', Local, Local', Steady, ScriptKept, Walk, SecondAttempt
    PROVE  SecondAttempt'
<1>1. recorded' = recorded
    BY DEF Walk
<1>2. CASE recorded = <<>>
    BY <1>1, <1>2 DEF SecondAttempt
<1>3. CASE \E st, m : Follows(st, m)
    <2>1. PICK st, m : Follows(st, m)
        BY <1>3
    <2>2. Course(st, m)' /\ recorded' = st[m].rounds /\ m \in Nat
        BY <1>1, <2>1, CourseKept DEF Follows, Course
    <2>3. SUFFICES ASSUME OnCourse'
                   PROVE  (IF Passes <= m THEN Standing = st[Passes]
                           ELSE Len(recorded) <= Len(rounds))'
        BY <2>2 DEF SecondAttempt, Follows
    <2>4. Len(recorded) \in Nat
        <3>1. st[m].rounds \in Rounds
            BY <2>1, <2>2 DEF Follows, Course
        <3>2. QED  BY <1>1, <2>2, <3>1 DEF Rounds
    <2>5. CASE Stays
        <3>1. OnCourse /\ Passes' = Passes /\ Standing' = Standing /\ rounds' = rounds
            BY <2>3, <2>5 DEF Stays, Keeps, Standing
        <3>2. QED  BY <1>1, <2>1, <3>1 DEF Follows
    <2>6. CASE Opens
        <3>1. Passes' = 0 /\ Standing' = Opening /\ st[0] = Opening
            BY <2>1, <2>6 DEF Opens, Passes, Follows, Course
        <3>2. QED  BY <2>2, <3>1
    <2>7. CASE Settles
        <3>1. /\ OnCourse /\ iteration = Passes + 1 /\ Passes \in Nat
              /\ pc' = "loop" /\ Passes' = Passes + 1
            <4>1. pc' = "loop"
                BY <2>3, <2>7 DEF Settles, Over, OnCourse, InPass, Answering
            <4>2. QED  BY <2>7, <4>1, PassesAreCounted DEF Settles, OnCourse, Passes
        <3>2. /\ Len(rounds) <= Len(rounds') /\ Len(rounds) \in Nat /\ Len(rounds') \in Nat
              /\ Standing.rounds = rounds
            BY <2>7, RoundsGrow DEF Settles, Standing
        <3>3. CASE Passes + 1 <= m
            <4>1. Standing = st[Passes]
                BY <2>1, <2>2, <3>1, <3>3 DEF Follows
            <4>2. Passes + 1 \in 1 .. m /\ (Passes + 1) - 1 = Passes
                BY <2>2, <3>1, <3>3
            <4>3. st[Passes + 1] = After(st[Passes], Passes + 1)
                <5>1. \A n \in 1 .. m : st[n] = After(st[n - 1], n)
                    BY <2>1 DEF Follows, Course
                <5>2. PICK n : n = Passes + 1
                    OBVIOUS
                <5>3. n \in 1 .. m /\ n - 1 = Passes
                    BY <4>2, <5>2
                <5>4. QED  BY <5>1, <5>2, <5>3
            <4>4. Standing' = st[Passes + 1]
                BY <2>7, <3>1, <4>1, <4>3 DEF Settles
            <4>5. QED  BY <3>1, <3>3, <4>4
        <3>4. CASE ~(Passes + 1 <= m)
            <4>1. Len(recorded) <= Len(rounds)
                <5>1. CASE Passes <= m
                    <6>1. Passes = m /\ Standing = st[m]
                        BY <2>1, <2>2, <3>1, <3>4, <5>1 DEF Follows
                    <6>2. QED  BY <2>1, <2>4, <3>2, <6>1 DEF Follows
                <5>2. CASE ~(Passes <= m)
                    BY <2>1, <3>1, <5>2 DEF Follows
                <5>3. QED  BY <5>1, <5>2
            <4>2. QED  BY <1>1, <2>4, <3>1, <3>2, <3>4, <4>1
        <3>5. QED  BY <3>3, <3>4
    <2>8. QED  BY <2>5, <2>6, <2>7 DEF Walk
<1>4. QED  BY <1>2, <1>3 DEF SecondAttempt

(* The round that the run is about to adopt is the one that was recorded.    *)
LEMMA SameGround ==
    ASSUME RunAssumption, RunInv, Local, SecondAttempt, pc = "adopting"
    PROVE  ~OtherGround
<1>1. CASE recorded = <<>>
    BY <1>1 DEF OtherGround, RunInv, EvidenceInv, EvidenceTypes, Rounds
<1>2. CASE \E st, m : Follows(st, m)
    <2>1. PICK st, m : Follows(st, m)
        BY <1>2
    <2>2. /\ recorded = st[m].rounds /\ m \in Nat /\ st[0] = Opening
          /\ \A n \in 0 .. m : st[n].rounds \in Rounds /\ Begins(st[n].rounds, recorded)
          /\ \A n \in 1 .. m : st[n] = After(st[n - 1], n)
        BY <2>1 DEF Follows, Course
    <2>3. /\ rounds \in Rounds /\ Len(rounds) \in Nat
          /\ Material \in SUBSET (Sources \X Nat \X (0 .. 2))
        BY MaterialType DEF RunInv, EvidenceInv, EvidenceTypes, Rounds
    <2>4. Material = Gained(base, Fetched(request))
        BY DEF Local, Asking, Material, Gained, Fresh, Grown
    <2>5. Taken(Standing, request).rounds = Append(rounds, Material)
        BY <2>4 DEF Taken, Standing
    <2>6. ASSUME NEW n \in 0 .. m, st[n] = Taken(Standing, request)
          PROVE  ~OtherGround
        <3>1. st[n].rounds = Append(rounds, Material) /\ Begins(st[n].rounds, recorded)
            BY <2>2, <2>5, <2>6
        <3>2. /\ Len(Append(rounds, Material)) = Len(rounds) + 1
              /\ Append(rounds, Material)[Len(rounds) + 1] = Material
            BY <2>3 DEF Rounds
        <3>3. recorded[Len(rounds) + 1] = Material
            BY <2>3, <3>1, <3>2 DEF Begins
        <3>4. QED  BY <3>3 DEF OtherGround
    <2>7. CASE request.first
        <3>1. Taken(Standing, request) = Opening
            BY <2>7 DEF Local, Asking, AsGiven, Standing, Given, Opening
        <3>2. QED  BY <2>2, <2>6, <3>1
    <2>8. CASE ~request.first
        <3>1. /\ OnCourse /\ iteration = Passes + 1 /\ Passes \in Nat
              /\ evaluation = Evaluate(script[iteration])
              /\ ReadsOn(evaluation, iteration) /\ request = RequestOn(base, evaluation)
            BY <2>8, PassesAreCounted DEF Local, Asking, InPass, Answering, OnCourse
        <3>2. Taken(Standing, request) = After(Standing, iteration)
            <4>1. evaluation = GradeOf(Standing, iteration) /\ Standing.base = base
                BY <3>1, GradeIsReplayed DEF Standing
            <4>2. QED  BY <3>1, <4>1 DEF After
        <3>3. CASE Passes + 1 <= m
            <4>1. PICK n : n = Passes + 1
                OBVIOUS
            <4>2. n \in 1 .. m /\ n \in 0 .. m /\ n - 1 = Passes /\ n = iteration
                BY <2>2, <3>1, <3>3, <4>1
            <4>3. Standing = st[n - 1]
                BY <2>1, <2>2, <3>1, <3>3, <4>2 DEF Follows
            <4>4. st[n] = Taken(Standing, request)
                BY <2>2, <3>2, <4>2, <4>3
            <4>5. QED  BY <2>6, <4>2, <4>4
        <3>4. CASE ~(Passes + 1 <= m)
            <4>1. Len(recorded) <= Len(rounds)
                <5>1. CASE Passes <= m
                    <6>1. Passes = m /\ Standing = st[m]
                        BY <2>1, <2>2, <3>1, <3>4, <5>1 DEF Follows
                    <6>2. recorded = rounds
                        BY <2>2, <6>1 DEF Standing
                    <6>3. QED  BY <2>3, <6>2
                <5>2. CASE ~(Passes <= m)
                    BY <2>1, <3>1, <5>2 DEF Follows
                <5>3. QED  BY <5>1, <5>2
            <4>2. Len(recorded) \in Nat
                BY <2>2 DEF Rounds
            <4>3. QED  BY <2>3, <4>1, <4>2 DEF OtherGround
        <3>5. QED  BY <3>3, <3>4
    <2>9. QED  BY <2>7, <2>8
<1>3. QED  BY <1>1, <1>2 DEF SecondAttempt

-----------------------------------------------------------------------------
(* A repository that is untouched after a step was so before it.            *)
LEMMA UntouchedBefore ==
    ASSUME RunAssumption, RunInv, [Next]_vars, edits' = 0
    PROVE  edits = 0 /\ Steady
<1>1. edits \in Nat  BY DEF RunInv, TypeInv, TypeOK, RunAssumption
<1>2. CASE \E s \in Sources : Edit(s) \/ Delete(s)
    BY <1>1, <1>2 DEF Edit, Delete
<1>3. CASE MoveHead
    BY <1>1, <1>3 DEF MoveHead
<1>4. CASE RunStep \/ Crash \/ Resume \/ Cancel \/ Deadline \/ UNCHANGED vars
    BY <1>4 DEF RunStep, vars, Start, GatherProse, FirstRead, BeginPass, Execute, ModelCall,
       Charge, Grade, Decide, Read, Adopt, AfterLoop, LogStop, Crash, Resume, Cancel, Deadline,
       KeepsRest, worldVars, Steady
<1>5. QED  BY <1>2, <1>3, <1>4 DEF Next, World

LEMMA DeathsAreCounted ==
    ASSUME RunInv, [Next]_vars
    PROVE  \/ Crash
           \/ Resume /\ crashes' = crashes
           \/ crashes' = crashes /\ (pc' = "dead" <=> pc = "dead")
<1>1. CASE World \/ UNCHANGED vars
    BY <1>1 DEF World, Edit, Delete, MoveHead, Cancel, Deadline, vars, ownVars
<1>2. CASE RunStep
    <2>1. crashes' = crashes /\ pc # "dead"
        BY <1>2 DEF RunStep, Start, GatherProse, FirstRead, BeginPass, Execute, ModelCall,
           Charge, Grade, Decide, Read, Adopt, AfterLoop, LogStop, KeepsRest
    <2>2. pc' # "dead"
        <3>1. pc # "after" \/ stopReason # None
            BY DEF RunInv, PassInv
        <3>2. CASE Start \/ GatherProse \/ FirstRead \/ BeginPass \/ Execute \/ ModelCall
            BY <3>2, StopGoes, EnterGoes DEF Start, GatherProse, FirstRead, BeginPass, Execute,
               ModelCall
        <3>3. CASE Charge \/ Grade \/ AfterLoop \/ LogStop
            BY <3>1, <3>3, StopGoes, EnterGoes DEF Charge, Grade, AfterLoop, LogStop
        <3>4. CASE Decide \/ Read \/ Adopt
            <4>1. RoundEnd # "dead"  BY DEF RoundEnd
            <4>2. stopReason = None
                BY <3>4, AtWork DEF Decide, Read, Adopt, RunInv
            <4>3. \A d : Conclude(d) => pc' # "dead"
                BY <4>2, ConcludeDecides
            <4>4. CASE Decide
                BY <4>3, <4>4, StopGoes, EnterGoes DEF Decide
            <4>5. CASE Read
                <5>1. (\E r : Stop(r, RoundEnd)) \/ pc' = "adopting"
                    BY <4>5 DEF Read
                <5>2. QED  BY <4>1, <5>1, StopGoes
            <4>6. CASE Adopt
                <5>1. \/ \E r : Stop(r, RoundEnd)
                      \/ pc' = "loop"
                      \/ Enter(<<"replanning">>, "loop")
                      \/ Conclude(request.drift)
                    BY <4>6 DEF Adopt
                <5>2. QED  BY <4>1, <4>3, <5>1, StopGoes, EnterGoes
            <4>7. QED  BY <3>4, <4>4, <4>5, <4>6
        <3>5. QED  BY <1>2, <3>2, <3>3, <3>4 DEF RunStep
    <2>3. QED  BY <2>1, <2>2
<1>3. CASE Resume
    BY <1>3 DEF Resume
<1>4. QED  BY <1>1, <1>2, <1>3 DEF Next

LEMMA ReplayInit == Init => ReplayInv
<1> SUFFICES ASSUME Init PROVE Local /\ Attempts
    BY DEF ReplayInv
<1>1. Local
    BY DEF Init, Local, Ground, Asking, AsGiven, InPass, Answering, Initially, NotRead
<1>2. Attempts
    BY DEF Init, Attempts, FirstAttempt, OnCourse, InPass, Answering, Over
<1>3. QED  BY <1>1, <1>2

LEMMA ReplayStep ==
    ASSUME RunAssumption, MaxCrashes <= 1, RunInv, RunInv', ReplayInv, [Next]_vars
    PROVE  ReplayInv'
<1> SUFFICES ASSUME edits' = 0 PROVE Local' /\ (cfg'.idempotent => Attempts')
    BY DEF ReplayInv
<1>1. edits = 0 /\ Steady /\ Local /\ cfg' = cfg
    BY UntouchedBefore DEF ReplayInv, Steady
<1>2. CASE Resume
    <2>1. Local' /\ ~OnCourse' /\ pc' = "start" /\ pc = "dead" /\ crashes' = crashes
        BY <1>1, <1>2, ResumeIsLocal DEF Resume
    <2>2. ASSUME cfg.idempotent PROVE Attempts'
        <3>1. Attempts /\ ScriptKept
            BY <1>1, <2>2, AnswersAreKept DEF ReplayInv
        <3>2. crashes # 0 /\ (crashes = 1 => Logged(logRounds))
            BY <2>1, <3>1 DEF Attempts
        <3>3. ASSUME crashes = 1 PROVE SecondAttempt'
            <4>1. recorded' = logRounds
                BY <1>2 DEF Resume
            <4>2. CASE logRounds = <<>>
                BY <4>1, <4>2 DEF SecondAttempt
            <4>3. CASE \E st, m : Course(st, m) /\ logRounds = st[m].rounds
                <5>1. PICK st, m : Course(st, m) /\ logRounds = st[m].rounds
                    BY <4>3
                <5>2. Course(st, m)'
                    BY <1>1, <3>1, <5>1, CourseKept
                <5>3. recorded' = st[m].rounds
                    BY <4>1, <5>1
                <5>4. QED  BY <2>1, <5>2, <5>3 DEF SecondAttempt, Follows
            <4>4. QED  BY <3>2, <3>3, <4>2, <4>3 DEF Logged
        <3>4. QED  BY <2>1, <3>2, <3>3 DEF Attempts
    <2>3. QED  BY <1>1, <2>1, <2>2
<1>3. CASE ~Resume
    <2>1. Local' /\ Walk
        BY <1>1, <1>3, WalkBefore, WalkInPass, WalkDecide, WalkRead, WalkAdopt, WalkElsewhere
           DEF Next, RunStep
    <2>2. ASSUME cfg.idempotent PROVE Attempts'
        <3>1. Attempts /\ ScriptKept
            BY <1>1, <2>2, AnswersAreKept DEF ReplayInv
        <3>2. FirstAttempt => FirstAttempt'
            BY <1>1, <2>1, <3>1, FirstStep
        <3>3. SecondAttempt => SecondAttempt'
            BY <1>1, <2>1, <3>1, SecondStep
        <3>4. CASE Crash
            <4>1. crashes = 0 /\ crashes' = 1 /\ pc' = "dead" /\ logRounds' = logRounds
                BY <3>4 DEF Crash, logVars, RunInv, TypeInv, TypeOK, RunAssumption
            <4>2. Logged(logRounds)
                BY <1>1, <3>1, <4>1, AlwaysLogged DEF Attempts
            <4>3. Logged(logRounds)'
                BY <1>1, <3>1, <4>1, <4>2, LoggedKept
            <4>4. QED  BY <4>1, <4>3 DEF Attempts
        <3>5. CASE crashes' = crashes /\ (pc' = "dead" <=> pc = "dead")
            <4>1. CASE crashes = 0
                BY <3>1, <3>2, <3>5, <4>1 DEF Attempts
            <4>2. CASE crashes = 1 /\ pc # "dead"
                BY <3>1, <3>3, <3>5, <4>2 DEF Attempts
            <4>3. CASE crashes = 1 /\ pc = "dead"
                <5>1. logRounds' = logRounds
                    BY <1>3, <4>3 DEF Next, RunStep, World, vars, Start, GatherProse, FirstRead,
                       BeginPass, Execute, ModelCall, Charge, Grade, Decide, Read, Adopt,
                       AfterLoop, LogStop, Crash, Edit, Delete, MoveHead, Cancel, Deadline,
                       logVars
                <5>2. Logged(logRounds)'
                    BY <1>1, <3>1, <4>3, <5>1, LoggedKept DEF Attempts
                <5>3. QED  BY <3>5, <4>3, <5>2 DEF Attempts
            <4>4. CASE crashes \notin {0, 1}
                BY <3>5, <4>4 DEF Attempts
            <4>5. QED  BY <4>1, <4>2, <4>3, <4>4
        <3>6. QED  BY <1>3, <3>4, <3>5, DeathsAreCounted
    <2>3. QED  BY <1>1, <2>1, <2>2
<1>4. QED  BY <1>2, <1>3

(* A resumed run of a deterministic producer, over a repository that nothing *)
(* has touched, reads round by round what the log recorded (_observe's       *)
(* comparison never stops it), wherever its first attempt died.  One death:  *)
(* after two of them the log holds the rounds of both attempts in a row.    *)
THEOREM ReplaysAgree == ASSUME MaxCrashes <= 1 PROVE Spec => []ReplayMatchesLog
<1>1. Init => RunInv /\ ReplayInv
    BY ReplayInit, TypeInit, EvidenceInit, ControlInit, PassInit, RunAssumption DEF RunInv
<1>2. RunInv /\ RunInv' /\ ReplayInv /\ [Next]_vars => ReplayInv'
    BY ReplayStep, RunAssumption
<1>3. RunInv /\ ReplayInv => ReplayMatchesLog
    <2> SUFFICES ASSUME RunInv, ReplayInv, pc = "adopting", edits = 0, cfg.idempotent
                 PROVE  ~OtherGround
        BY DEF ReplayMatchesLog
    <2>1. Local /\ Attempts /\ crashes \in {0, 1}
        BY RunAssumption DEF ReplayInv, RunInv, TypeInv, TypeOK, RunAssumption
    <2>2. CASE crashes = 0
        BY <2>1, <2>2, SameGround, RunAssumption DEF Attempts, FirstAttempt, SecondAttempt
    <2>3. CASE crashes = 1
        BY <2>1, <2>3, SameGround, RunAssumption DEF Attempts
    <2>4. QED  BY <2>1, <2>2, <2>3
<1>4. QED  BY <1>1, <1>2, <1>3, RunInvariant, PTL DEF Spec
=============================================================================
