-------------------------------- MODULE AtlasRun --------------------------------
(***************************************************************************)
(* AtlasController.run and resume for one run: the loop that reads, asks a  *)
(* producer, grades the answer and decides between another pass and a stop, *)
(* beside a repository that changes under it, a host that cancels, a clock, *)
(* and a process that can die and be resumed from its event log.            *)
(*                                                                          *)
(* The producer (a model adapter, or the rule-based executor) is any choice *)
(* of an answer from Outputs.  A deterministic one gives a resumed run the  *)
(* answers it gave before: `script` remembers them.                         *)
(***************************************************************************)
EXTENDS Naturals, Sequences, FiniteSets, AtlasMachine

CONSTANTS Sources,      (* the files the run may read                        *)
          PlanSources,  (* those the review plan's patterns name             *)
          Long,         (* those longer than one excerpt                     *)
          Outputs,      (* the answers a producer may give                   *)
          Configs,      (* how the run may be started                        *)
          MaxIterations,
          MaxModelCalls, MaxOutput,  (* RunLimits, in units of one reply or   *)
                                     (* one excerpt                          *)
          MaxEdits,     (* bound: changes of the repository                  *)
          MaxCrashes    (* bound: deaths of the process                      *)

None   == "none"
Unasked == [kind |-> "none"]   (* a pass no producer has answered yet *)
Kinds  == {"cites", "miscites", "uncited", "malformed", "silent", "undocumented"}
Output == [kind : Kinds, src : Sources, topic : BOOLEAN,
           shape : {"full", "sections", "short"}, words : Nat]

(* `held`: what the evidence base handed to the run holds; `review`: the    *)
(* route grades claims, and with an evidence base it has a question.        *)
Config == [budgeted : BOOLEAN, model : BOOLEAN, idempotent : BOOLEAN,
           observer : BOOLEAN, readFirst : BOOLEAN, readers : BOOLEAN,
           memory : BOOLEAN, base : BOOLEAN, held : SUBSET Sources,
           review : BOOLEAN, approval : BOOLEAN]

ASSUME RunAssumption ==
    /\ IsFiniteSet(Sources)
    /\ PlanSources \subseteq Sources /\ Long \subseteq Sources
    /\ Outputs \subseteq Output /\ Configs \subseteq Config
    (* _run refuses readers or an observer that no budget meters.            *)
    /\ \A c \in Configs : c.observer \/ c.readers => c.budgeted
    /\ MaxIterations \in Nat \ {0}
    /\ MaxModelCalls \in Nat /\ MaxOutput \in Nat
    /\ MaxEdits \in Nat /\ MaxCrashes \in Nat

VARIABLES cfg,
          (* the run's own state, lost in a crash                            *)
          pc, status, stopReason, iteration,
          base,       (* base[s]: the reading of s the run holds             *)
          resolved,   (* the patterns a round has come back from             *)
          rounds,     (* the material each round of this attempt adopted     *)
          recorded,   (* the same, as the log held it when the run resumed   *)
          request,    (* what the open round asks for                        *)
          incoming,   (* what it brought                                     *)
          evaluation, previous,   (* the last two evaluations                *)
          spent, calls,           (* the RunBudget's counters                *)
          open,       (* the call this attempt has started and not finished  *)
          escaped,    (* what escaped from run(), if anything                *)
          saved,      (* whether a memory candidate was promoted             *)
          (* the log, as far as anything reads it back                       *)
          logState, logRounds, dangling,
          (* the world                                                       *)
          script, disk, moved, edits, cancelled, late, crashes

ownVars   == <<pc, status, stopReason, iteration, base, resolved, rounds, recorded,
               request, incoming, evaluation, previous, spent, calls, open, escaped,
               saved>>
logVars   == <<logState, logRounds, dangling>>
worldVars == <<disk, moved, edits, cancelled, late>>
vars == <<cfg, ownVars, logVars, script, worldVars, crashes>>

-----------------------------------------------------------------------------
(* Evidence.                                                                *)

NotRead == [version |-> 0, window |-> 0]
Reading == [version : Nat, window : 0 .. 2]

Held        == {s \in Sources : base[s] # NotRead}
Stale       == {s \in Held : base[s].version # disk[s]}
Drifted     == Held # {} /\ (moved \/ Stale # {})
Asks        == cfg.review /\ cfg.base
WaitingOn   == IF Asks THEN {s \in PlanSources : s \notin resolved /\ s \notin Held}
               ELSE {}
PartialOnes == {s \in PlanSources \cap Held \cap Long : base[s].window = 1}

Initially(c) == [s \in Sources |-> IF s \in c.held THEN [version |-> 1, window |-> 1]
                                   ELSE NotRead]

NoRequest == [paths |-> {}, patterns |-> {}, windows |-> {}, first |-> FALSE,
              drift |-> FALSE]

-----------------------------------------------------------------------------
(* evaluate: what one answer is graded as, on the evidence held and the     *)
(* bytes on disk now.                                                       *)

(* _grade_against_evidence: each citation is compared with what was read     *)
(* and with the bytes on disk.                                              *)
GapAgainstEvidence(o) ==
    CASE Held = {}                -> "no_sources_observed"
      [] OTHER ->
         CASE o.kind = "malformed"    -> "malformed_findings"
           [] o.kind = "undocumented" -> "sources_not_documented"
           [] o.kind = "silent"       -> None
           [] o.kind = "uncited"      -> "uncheckable_findings"
           [] o.kind \in {"cites", "miscites"} ->
                IF o.src \in Stale THEN "stale_citations"
                ELSE IF o.kind = "miscites" \/ o.src \notin Held
                     THEN "unsound_citations" ELSE None

(* _grade_evidence: without an evidence base a finding can only name what    *)
(* the readers read, and nothing it says is checked.                        *)
EvidenceGap(o) ==
    CASE ~cfg.review                -> None
      [] cfg.review /\ cfg.base     -> GapAgainstEvidence(o)
      [] cfg.review /\ ~cfg.base    ->
         CASE ~cfg.readers -> "no_sources_observed"
           [] cfg.readers  ->
              CASE o.kind = "malformed"    -> "malformed_findings"
                [] o.kind = "undocumented" -> "sources_not_documented"
                [] o.kind = "silent"       -> None
                [] o.kind = "uncited"      -> "uncited_findings"
                [] o.kind \in {"cites", "miscites"} -> "claims_not_checked"

(* _on_topic_finding, _answering_finding: something settled answers.        *)
OnTopic(o) == o.kind = "cites" /\ EvidenceGap(o) = None /\ o.topic

Unactionable == {None, "no_sources_observed", "claims_not_checked", "stale_citations"}

NextAction(gap, offTopic, sections) ==
    CASE WaitingOn # {} -> "observe_again"
      [] WaitingOn = {} ->
         CASE gap \in {"claims_not_checked", "stale_citations"} -> "observe_again"
           [] gap = "malformed_findings" -> "repair_findings_block"
           [] gap = "unsound_citations"  -> "recite_from_source"
           [] gap \in {None, "sources_not_documented"} /\ offTopic /\ PartialOnes # {} ->
                "observe_again"
           [] OTHER -> IF gap # None THEN "cite_sources"
                       ELSE IF offTopic THEN "answer_the_question"
                       ELSE IF sections THEN "add_sections" ELSE None

Evaluate(o) ==
    LET gap      == EvidenceGap(o)
        offTopic == Asks /\ WaitingOn = {} /\ ~OnTopic(o)
        sections == o.shape = "sections"
        failed   == gap # None \/ WaitingOn # {} \/ offTopic \/ o.shape # "full"
        passed   == ~failed /\ ~cfg.approval
        action   == IF passed THEN None ELSE NextAction(gap, offTopic, sections)
    IN  [passed    |-> passed,
         gaps      |-> ({gap} \ {None})
                       \cup (IF WaitingOn # {} THEN {"plan_targets_unread"} ELSE {})
                       \cup (IF offTopic THEN {"no_on_topic_finding"} ELSE {}),
         sections  |-> sections,
         blocked   |-> gap = "stale_citations",
         retry     |-> /\ ~passed /\ ~cfg.approval
                       /\ offTopic \/ (IF gap # None THEN gap \notin Unactionable
                                       ELSE sections),
         action    |-> action,
         claim     |-> IF gap \in {"uncited_findings", "uncheckable_findings",
                                   "unsound_citations", "stale_citations",
                                   "claims_not_checked"}
                       THEN <<o.kind, o.src, o.words>> ELSE <<>>,
         patterns  |-> IF action = "observe_again" THEN WaitingOn ELSE {},
         windows   |-> IF /\ action = "observe_again" /\ WaitingOn = {}
                          /\ gap \in {None, "sources_not_documented"}
                       THEN PartialOnes ELSE {},
         on        |-> base]     (* _material_signature, taken with the grade *)

NotGraded == [passed |-> FALSE, gaps |-> {}, sections |-> FALSE, blocked |-> FALSE,
              retry |-> FALSE, action |-> None, claim |-> <<>>, patterns |-> {},
              windows |-> {}, on |-> [s \in Sources |-> NotRead]]

(* _same_failure: what the next pass would be told, and what is unsupported. *)
SameFailure(e, f) == /\ e.action # None /\ e.action = f.action
                     /\ e.gaps = f.gaps /\ e.sections = f.sections /\ e.claim = f.claim

-----------------------------------------------------------------------------
Init ==
    /\ cfg \in Configs
    /\ pc = "start" /\ status = "new" /\ stopReason = None /\ iteration = 0
    /\ base = Initially(cfg) /\ resolved = {}
    /\ rounds = <<>> /\ recorded = <<>>
    /\ request = NoRequest /\ incoming = [s \in Sources |-> NotRead]
    /\ evaluation = NotGraded /\ previous = NotGraded
    /\ spent = 0 /\ calls = 0 /\ open = None /\ escaped = None /\ saved = FALSE
    /\ logState = "empty" /\ logRounds = <<>> /\ dangling = {}
    /\ script = [i \in 1 .. MaxIterations |-> Unasked]
    /\ disk = [s \in Sources |-> 1] /\ moved = FALSE /\ edits = 0
    /\ cancelled = FALSE /\ late = FALSE /\ crashes = 0

(* budget.check, or without a budget the cancel hook: cancellation first.   *)
CheckFails  == cancelled \/ (cfg.budgeted /\ late)
CheckReason == IF cancelled THEN "cancelled" ELSE "budget_exhausted"

(* enter, along the statuses of `path`; an illegal move raises out of run.  *)
Enter(path, at) ==
    LET from(i) == IF i = 1 THEN status ELSE path[i - 1]
    IN  IF \A i \in DOMAIN path : IsLegal(from(i), path[i])
        THEN /\ status' = path[Len(path)] /\ pc' = at /\ UNCHANGED escaped
        ELSE /\ escaped' = "InvalidTransition" /\ pc' = "escaped" /\ UNCHANGED status

(* stop, from status `source`.                                              *)
StopFrom(source, reason, at) ==
    IF MayStop(source, reason)
    THEN /\ status' = StatusOf[reason] /\ stopReason' = reason /\ pc' = at
         /\ UNCHANGED escaped
    ELSE /\ escaped' = "InvalidTransition" /\ pc' = "escaped"
         /\ UNCHANGED <<status, stopReason>>

Stop(reason, at) == StopFrom(status, reason, at)

evidenceVars == <<base, resolved, rounds, recorded, request, incoming>>
gradeVars    == <<evaluation, previous>>
budgetVars   == <<spent, calls>>
KeepsRest    == UNCHANGED <<cfg, script, worldVars, crashes, saved>>

(* run_started, or interrupted and resumed, and the way into the loop.      *)
Start ==
    /\ pc = "start"
    /\ logState' = "open"
    /\ Enter(<<"observing">>, "prose")
    /\ KeepsRest
    /\ UNCHANGED <<stopReason, iteration, evidenceVars, gradeVars, budgetVars, open,
                   logRounds, dangling>>

(* The prose readers, charged after each is read, then the memory adapter,   *)
(* whose read nothing catches.                                              *)
GatherProse ==
    /\ pc = "prose"
    /\ \/ /\ cfg.readers /\ CheckFails
          /\ Stop(CheckReason, "stopping") /\ UNCHANGED spent
       \/ /\ cfg.readers /\ ~CheckFails
          /\ \/ /\ spent' = spent + 1
                /\ IF spent' > MaxOutput
                   THEN Stop("budget_exhausted", "stopping")
                   ELSE pc' = "first" /\ UNCHANGED <<status, stopReason, escaped>>
             \/ Stop("tool_error", "stopping") /\ UNCHANGED spent
             \/ Stop("budget_exhausted", "stopping") /\ UNCHANGED spent
       \/ /\ ~cfg.readers
          /\ pc' = "first" /\ UNCHANGED <<status, stopReason, escaped, spent>>
       \/ /\ cfg.memory /\ ~cfg.budgeted
          /\ escaped' = "memory" /\ pc' = "escaped"
          /\ UNCHANGED <<status, stopReason, spent>>
    /\ KeepsRest
    /\ UNCHANGED <<iteration, evidenceVars, gradeVars, calls, open, logVars>>

(* Before iteration one: the deadline, and the read the host asked for.     *)
FirstRead ==
    LET reads == cfg.readFirst /\ cfg.observer /\ cfg.base /\ Held = {}
    IN  /\ pc = "first"
        /\ \/ /\ CheckFails
              /\ Stop(CheckReason, "stopping") /\ UNCHANGED <<request, open>>
           \/ /\ ~CheckFails /\ reads
              /\ request' = [NoRequest EXCEPT !.first = TRUE,
                                !.patterns = IF Asks THEN PlanSources ELSE {}]
              /\ open' = "observe" /\ pc' = "reading"
              /\ UNCHANGED <<status, stopReason, escaped>>
           \/ /\ ~CheckFails /\ ~reads
              /\ pc' = "loop" /\ UNCHANGED <<status, stopReason, escaped, request, open>>
        /\ KeepsRest
        /\ UNCHANGED <<iteration, base, resolved, rounds, recorded, incoming, gradeVars,
                       budgetVars, logVars>>

(* The top of the loop, down to the plan.                                   *)
BeginPass ==
    /\ pc = "loop"
    /\ \/ /\ iteration < MaxIterations /\ CheckFails
          /\ Stop(CheckReason, "after") /\ UNCHANGED iteration
       \/ /\ iteration < MaxIterations /\ ~CheckFails
          /\ iteration' = iteration + 1
          /\ Enter(<<"routing", "planning", "executing">>, "execute")
          /\ UNCHANGED stopReason
       \/ /\ iteration >= MaxIterations
          /\ pc' = "after" /\ UNCHANGED <<status, stopReason, escaped, iteration>>
    /\ KeepsRest
    /\ UNCHANGED <<evidenceVars, gradeVars, budgetVars, open, logVars>>

(* Mutant of Execute: model calls are counted and not refused.               *)
ExecuteUnreserved ==
    /\ pc = "execute"
    /\ IF CheckFails
       THEN Stop(CheckReason, "after") /\ UNCHANGED <<calls, open>>
       ELSE /\ calls' = IF cfg.model /\ cfg.budgeted THEN calls + 1 ELSE calls
            /\ open' = IF cfg.model THEN "model" ELSE open
            /\ pc' = IF cfg.model THEN "calling" ELSE "charge"
            /\ UNCHANGED <<status, stopReason, escaped>>
    /\ KeepsRest
    /\ UNCHANGED <<iteration, evidenceVars, gradeVars, spent, logVars>>

(* The deadline again, and with a model the call: reserved, then logged.    *)
Execute ==
    /\ pc = "execute"
    /\ \/ /\ CheckFails
          /\ Stop(CheckReason, "after") /\ UNCHANGED <<calls, open>>
       \/ /\ ~CheckFails /\ cfg.model
          /\ IF cfg.budgeted /\ calls >= MaxModelCalls
             THEN Stop("budget_exhausted", "after") /\ UNCHANGED <<calls, open>>
             ELSE /\ calls' = IF cfg.budgeted THEN calls + 1 ELSE calls
                  /\ open' = "model" /\ pc' = "calling"
                  /\ UNCHANGED <<status, stopReason, escaped>>
       \/ /\ ~CheckFails /\ ~cfg.model
          /\ pc' = "charge"
          /\ UNCHANGED <<status, stopReason, escaped, calls, open>>
    /\ KeepsRest
    /\ UNCHANGED <<iteration, evidenceVars, gradeVars, spent, logVars>>

(* Mutant of ModelCall: a call that raises is made again.                    *)
ModelCallRetried ==
    /\ pc = "calling"
    /\ \/ open' = None /\ pc' = "charge" /\ UNCHANGED <<status, stopReason, escaped>>
       \/ open' = None /\ pc' = "execute" /\ UNCHANGED <<status, stopReason, escaped>>
       \/ /\ cfg.budgeted
          /\ Stop(IF cancelled THEN "cancelled" ELSE "budget_exhausted", "after")
          /\ UNCHANGED open
    /\ KeepsRest
    /\ UNCHANGED <<iteration, evidenceVars, gradeVars, budgetVars, logVars>>

(* The adapter returns, raises, or is stopped by the budget it was handed:   *)
(* that last call is left without an outcome in the log.                    *)
ModelCall ==
    /\ pc = "calling"
    /\ \/ open' = None /\ pc' = "charge" /\ UNCHANGED <<status, stopReason, escaped>>
       \/ open' = None /\ Stop("tool_error", "after")
       \/ /\ cfg.budgeted
          /\ Stop(IF cancelled THEN "cancelled" ELSE "budget_exhausted", "after")
          /\ UNCHANGED open
    /\ KeepsRest
    /\ UNCHANGED <<iteration, evidenceVars, gradeVars, budgetVars, logVars>>

(* charge_tokens (a provider's count, or none) and charge_output, and the   *)
(* answer itself.                                                           *)
Charge ==
    LET metered == cfg.budgeted
    IN  /\ pc = "charge"
        /\ \/ /\ metered /\ CheckFails
              /\ Stop(CheckReason, "after") /\ UNCHANGED <<spent, script>>
           \/ /\ metered /\ ~CheckFails /\ cfg.model
              /\ \E reason \in {"budget_exhausted", "tool_error"} : Stop(reason, "after")
              /\ UNCHANGED <<spent, script>>
           \/ /\ metered /\ ~CheckFails /\ spent >= MaxOutput
              /\ spent' = spent + 1
              /\ Stop("budget_exhausted", "after") /\ UNCHANGED script
           \/ /\ metered => ~CheckFails /\ spent < MaxOutput
              /\ spent' = IF metered THEN spent + 1 ELSE spent
              /\ \E o \in Outputs :
                    /\ script[iteration] # Unasked => o = script[iteration]
                    /\ script' = [script EXCEPT ![iteration] = o]
              /\ Enter(<<"evaluating">>, "grade")
              /\ UNCHANGED stopReason
        /\ UNCHANGED <<cfg, worldVars, crashes, saved, iteration, evidenceVars,
                       gradeVars, calls, open, logVars>>

(* The answer is graded and decision_recorded.                              *)
Grade ==
    /\ pc = "grade"
    /\ \/ /\ CheckFails
          /\ Stop(CheckReason, "after") /\ UNCHANGED gradeVars
       \/ /\ ~CheckFails
          /\ previous' = evaluation
          /\ evaluation' = Evaluate(script[iteration])
          /\ pc' = "decide"
          /\ UNCHANGED <<status, stopReason, escaped>>
    /\ KeepsRest
    /\ UNCHANGED <<iteration, evidenceVars, budgetVars, open, logVars>>

-----------------------------------------------------------------------------
(* After grading: read again, stop, or another pass.                        *)

MayReadAgain(drift) ==
    /\ cfg.observer /\ cfg.base
    /\ ~evaluation.passed /\ ~cfg.approval
    /\ iteration < MaxIterations
    /\ drift \/ evaluation.action = "observe_again"

(* read_again: the plan's unread patterns and every source held, or windows. *)
RequestAgain(drift) ==
    [NoRequest EXCEPT
        !.paths    = IF evaluation.windows = {} THEN Held ELSE {},
        !.patterns = evaluation.patterns,
        !.windows  = evaluation.windows,
        !.drift    = drift]

IdenticalOutput == /\ cfg.budgeted /\ cfg.model /\ iteration >= 2
                   /\ script[iteration] = script[iteration - 1]
                   /\ evaluation.retry /\ ~evaluation.blocked

(* Mutant of UnchangedFeedback: only unchanged words stop a run.             *)
UnchangedWords == /\ iteration >= 2
                  /\ script[iteration] = script[iteration - 1]
                  /\ evaluation.retry /\ ~evaluation.blocked

UnchangedFeedback == /\ iteration >= 2
                     /\ SameFailure(evaluation, previous)
                     /\ evaluation.retry /\ ~evaluation.blocked

(* Mutant of Conclude: an action that asks for material is fed back like any *)
(* other.                                                                   *)
ConcludeByFeedback(drift) ==
    LET e == evaluation
        left == iteration < MaxIterations
    IN  CASE drift -> Stop("blocked", "after")
          [] ~drift ->
             CASE IdenticalOutput \/ UnchangedFeedback -> Stop("no_progress", "after")
               [] OTHER ->
                  IF cfg.approval \/ e.passed \/ ~(e.retry /\ left)
                  THEN Stop(ClassifyStop(e.passed, cfg.approval, e.blocked, e.gaps # {},
                                         e.retry, left), "after")
                  ELSE Enter(<<"replanning">>, "loop") /\ UNCHANGED stopReason

(* What the loop does with a grade that no round is read for.               *)
Conclude(drift) ==
    LET e == evaluation
    IN  CASE drift -> Stop("blocked", "after")
          [] ~drift ->
             CASE RetryClass(e.action) = "investigation" /\ ~e.passed /\ ~cfg.approval ->
                     Stop("blocked", "after")
               [] OTHER ->
                  CASE IdenticalOutput \/ UnchangedFeedback -> Stop("no_progress", "after")
                    [] OTHER ->
                       IF cfg.approval \/ e.passed \/ ~(e.retry /\ iteration < MaxIterations)
                       THEN Stop(ClassifyStop(e.passed, cfg.approval, e.blocked,
                                              e.gaps # {}, e.retry,
                                              iteration < MaxIterations), "after")
                       ELSE Enter(<<"replanning">>, "loop") /\ UNCHANGED stopReason

(* Mutant of Decide: drift matters only where a round could repair it.       *)
DecideUndrifted ==
    /\ pc = "decide"
    /\ \/ /\ CheckFails
          /\ Stop(CheckReason, "after") /\ UNCHANGED <<request, open>>
       \/ /\ ~CheckFails /\ MayReadAgain(Drifted)
          /\ request' = RequestAgain(Drifted)
          /\ open' = "observe"
          /\ Enter(<<"observing">>, "reading") /\ UNCHANGED stopReason
       \/ /\ ~CheckFails /\ ~MayReadAgain(Drifted)
          /\ Conclude(FALSE) /\ UNCHANGED <<request, open>>
    /\ KeepsRest
    /\ UNCHANGED <<iteration, base, resolved, rounds, recorded, incoming, gradeVars,
                   budgetVars, logVars>>

Decide ==
    /\ pc = "decide"
    /\ \/ /\ CheckFails
          /\ Stop(CheckReason, "after") /\ UNCHANGED <<request, open>>
       \/ /\ ~CheckFails /\ MayReadAgain(Drifted)
          /\ request' = RequestAgain(Drifted)
          /\ open' = "observe"
          /\ Enter(<<"observing">>, "reading") /\ UNCHANGED stopReason
       \/ /\ ~CheckFails /\ ~MayReadAgain(Drifted)
          /\ Conclude(Drifted) /\ UNCHANGED <<request, open>>
    /\ KeepsRest
    /\ UNCHANGED <<iteration, base, resolved, rounds, recorded, incoming, gradeVars,
                   budgetVars, logVars>>

(* Where a round that ended the run leads.                                  *)
RoundEnd == IF request.first THEN "stopping" ELSE "after"

(* The host reads what was asked for and is there, or raises.  A window      *)
(* into a file that changed may come back as its head.                      *)
Read ==
    /\ pc = "reading"
    /\ \/ /\ CheckFails
          /\ Stop(CheckReason, RoundEnd) /\ open' = None /\ UNCHANGED incoming
       \/ /\ ~CheckFails
          /\ \E reason \in {"tool_error", "budget_exhausted"} : Stop(reason, RoundEnd)
          /\ open' = None /\ UNCHANGED incoming
       \/ /\ ~CheckFails
          /\ \E head \in SUBSET {s \in request.windows : disk[s] # base[s].version} :
                incoming' = [s \in Sources |->
                    IF disk[s] = 0 \/ s \notin request.paths \cup request.patterns
                                               \cup request.windows
                    THEN NotRead
                    ELSE [version |-> disk[s],
                          window  |-> IF s \in request.windows \ head THEN 2 ELSE 1]]
          /\ pc' = "adopting"
          /\ UNCHANGED <<status, stopReason, escaped, open>>
    /\ KeepsRest
    /\ UNCHANGED <<iteration, base, resolved, rounds, recorded, request, gradeVars,
                   budgetVars, logVars>>

(* merge_observations: what the round adds, supersedes or reframes; a whole  *)
(* new reading is known by its digest, a reframed one by its window too.    *)
Fresh  == {s \in Sources : incoming[s] # NotRead /\ incoming[s] # base[s]}
Merged == [s \in Sources |-> IF s \in Fresh THEN incoming[s] ELSE base[s]]
Material ==
    {<<s, incoming[s].version,
       IF base[s].version = incoming[s].version THEN incoming[s].window ELSE 0>> :
     s \in Fresh}

(* Mutant of OtherGround: every round is held against the last one recorded. *)
OtherThanTheLast == /\ Len(rounds) < Len(recorded)
                    /\ Material # recorded[Len(recorded)]

(* The replayed round brought other material than the log recorded for it.  *)
OtherGround == /\ Len(rounds) < Len(recorded)
               /\ Material # recorded[Len(rounds) + 1]

(* Mutants of Adopt: what a round brought is held before it is paid for, and  *)
(* it is logged before it is paid for.                                      *)
AdoptEarly(holds, logs) ==
    LET cost  == Cardinality(Fresh)
        paid  == ~(Fresh # {} /\ CheckFails) /\ spent + cost <= MaxOutput
        news  == Fresh # {} \/ request.patterns \ resolved # {}
    IN  /\ pc = "adopting"
        /\ open' = None
        /\ base' = IF holds \/ (paid /\ ~OtherGround) THEN Merged ELSE base
        /\ logRounds' = IF logs \/ (paid /\ ~OtherGround)
                        THEN Append(logRounds, Material) ELSE logRounds
        /\ IF OtherGround
           THEN Stop("blocked", RoundEnd) /\ UNCHANGED <<resolved, rounds, spent>>
           ELSE IF ~paid
           THEN /\ Stop(IF CheckFails THEN CheckReason ELSE "budget_exhausted", RoundEnd)
                /\ spent' = IF CheckFails THEN spent ELSE MaxOutput + 1
                /\ UNCHANGED <<resolved, rounds>>
           ELSE /\ spent' = spent + cost
                /\ rounds' = Append(rounds, Material)
                /\ resolved' = resolved \cup request.patterns
                /\ IF request.first
                   THEN pc' = "loop" /\ UNCHANGED <<status, stopReason, escaped>>
                   ELSE IF news THEN Enter(<<"replanning">>, "loop") /\ UNCHANGED stopReason
                        ELSE Conclude(request.drift)
        /\ incoming' = [s \in Sources |-> NotRead]
        /\ request' = NoRequest
        /\ KeepsRest
        /\ UNCHANGED <<iteration, recorded, gradeVars, calls, logState, dangling>>

AdoptUnpaid  == AdoptEarly(TRUE, FALSE)
AdoptLogging == AdoptEarly(FALSE, TRUE)

(* Compare with the log, charge every fresh excerpt, and only then record   *)
(* and adopt the round.                                                     *)
Adopt ==
    LET cost  == Cardinality(Fresh)
        paid  == ~(Fresh # {} /\ CheckFails) /\ spent + cost <= MaxOutput
        news  == Fresh # {} \/ request.patterns \ resolved # {}
    IN  /\ pc = "adopting"
        /\ open' = None
        /\ \/ /\ OtherGround
              /\ Stop("blocked", RoundEnd)
              /\ UNCHANGED <<base, resolved, rounds, spent, logRounds>>
           \/ /\ ~OtherGround /\ ~paid
              /\ IF CheckFails
                 THEN Stop(CheckReason, RoundEnd) /\ UNCHANGED spent
                 ELSE Stop("budget_exhausted", RoundEnd) /\ spent' = MaxOutput + 1
              /\ UNCHANGED <<base, resolved, rounds, logRounds>>
           \/ /\ ~OtherGround /\ paid
              /\ spent' = spent + cost
              /\ rounds' = Append(rounds, Material)
              /\ logRounds' = Append(logRounds, Material)
              /\ resolved' = resolved \cup request.patterns
              /\ base' = Merged
              /\ CASE request.first -> /\ pc' = "loop"
                                       /\ UNCHANGED <<status, stopReason, escaped>>
                   [] ~request.first /\ news -> /\ Enter(<<"replanning">>, "loop")
                                                /\ UNCHANGED stopReason
                   [] ~request.first /\ ~news -> Conclude(request.drift)
        /\ incoming' = [s \in Sources |-> NotRead]
        /\ request' = NoRequest
        /\ KeepsRest
        /\ UNCHANGED <<iteration, recorded, gradeVars, calls, logState, dangling>>

-----------------------------------------------------------------------------
(* Past the loop: the bound as a reason, and the memory writer, which only  *)
(* an unbudgeted passing run reaches and whose failure nothing catches.     *)
AfterLoop ==
    /\ pc = "after"
    /\ IF stopReason = None
       THEN Stop("max_iterations", "after") /\ UNCHANGED saved
       ELSE \/ /\ pc' = "stopping"
               /\ saved' = (~cfg.budgeted /\ stopReason = "passed")
               /\ UNCHANGED <<status, stopReason, escaped>>
            \/ /\ cfg.memory /\ ~cfg.budgeted /\ stopReason = "passed"
               /\ escaped' = "memory" /\ pc' = "escaped"
               /\ UNCHANGED <<status, stopReason, saved>>
    /\ UNCHANGED <<cfg, script, worldVars, crashes, iteration, evidenceVars, gradeVars,
                   budgetVars, open, logVars>>

LogStop ==
    /\ pc = "stopping"
    /\ logState' = "stopped" /\ pc' = "ended"
    /\ KeepsRest
    /\ UNCHANGED <<status, stopReason, iteration, evidenceVars, gradeVars, budgetVars,
                   open, escaped, logRounds, dangling>>

RunStep == \/ Start \/ GatherProse \/ FirstRead \/ BeginPass \/ Execute \/ ModelCall
           \/ Charge \/ Grade \/ Decide \/ Read \/ Adopt \/ AfterLoop \/ LogStop

(* The process dies; what it had started and not finished stays so.         *)
Crash ==
    /\ crashes < MaxCrashes
    /\ pc \notin {"start", "ended", "escaped", "dead"}
    /\ crashes' = crashes + 1
    /\ pc' = "dead"
    /\ dangling' = dangling \cup ({open} \ {None})
    /\ UNCHANGED <<cfg, status, stopReason, iteration, evidenceVars, gradeVars,
                   budgetVars, open, escaped, saved, logState, logRounds, script,
                   worldVars>>

(* Mutant of Resume: the run goes on with the stop it had reached.          *)
ResumeStopping ==
    /\ pc = "dead" /\ logState = "open"
    /\ ~cfg.memory
    /\ "model" \in dangling => cfg.idempotent
    /\ pc' = "start" /\ status' = "new" /\ UNCHANGED stopReason /\ iteration' = 0
    /\ base' = Initially(cfg) /\ resolved' = {}
    /\ rounds' = <<>> /\ recorded' = logRounds
    /\ request' = NoRequest /\ incoming' = [s \in Sources |-> NotRead]
    /\ evaluation' = NotGraded /\ previous' = NotGraded
    /\ spent' = 0 /\ calls' = 0 /\ open' = None /\ saved' = FALSE
    /\ late' = FALSE
    /\ UNCHANGED <<cfg, escaped, logVars, script, disk, moved, edits, cancelled, crashes>>

(* resume: refused of a run that stopped, of one with a memory writer, and   *)
(* while a call that may not be repeated has no outcome.  The loop starts   *)
(* over from the evidence it was handed, with a budget of its own.          *)
Resume ==
    /\ pc = "dead" /\ logState = "open"
    /\ ~cfg.memory
    /\ "model" \in dangling => cfg.idempotent
    /\ pc' = "start" /\ status' = "new" /\ stopReason' = None /\ iteration' = 0
    /\ base' = Initially(cfg) /\ resolved' = {}
    /\ rounds' = <<>> /\ recorded' = logRounds
    /\ request' = NoRequest /\ incoming' = [s \in Sources |-> NotRead]
    /\ evaluation' = NotGraded /\ previous' = NotGraded
    /\ spent' = 0 /\ calls' = 0 /\ open' = None /\ saved' = FALSE
    /\ late' = FALSE
    /\ script' = IF cfg.idempotent THEN script
                 ELSE [i \in 1 .. MaxIterations |-> Unasked]
    /\ UNCHANGED <<cfg, escaped, logVars, disk, moved, edits, cancelled, crashes>>

-----------------------------------------------------------------------------
(* The world.                                                               *)

Running == pc \notin {"ended", "escaped"}

Edit(s) ==
    /\ Running /\ edits < MaxEdits
    /\ edits' = edits + 1
    /\ disk' = [disk EXCEPT ![s] = IF @ = 0 THEN 1 ELSE @ + 1]
    /\ UNCHANGED <<cfg, ownVars, logVars, script, moved, cancelled, late, crashes>>

Delete(s) ==
    /\ Running /\ edits < MaxEdits /\ disk[s] # 0
    /\ edits' = edits + 1
    /\ disk' = [disk EXCEPT ![s] = 0]
    /\ UNCHANGED <<cfg, ownVars, logVars, script, moved, cancelled, late, crashes>>

MoveHead ==
    /\ Running /\ edits < MaxEdits
    /\ edits' = edits + 1 /\ moved' = TRUE
    /\ UNCHANGED <<cfg, ownVars, logVars, script, disk, cancelled, late, crashes>>

Cancel ==
    /\ Running /\ ~cancelled
    /\ cancelled' = TRUE
    /\ UNCHANGED <<cfg, ownVars, logVars, script, disk, moved, edits, late, crashes>>

Deadline ==
    /\ Running /\ cfg.budgeted /\ ~late
    /\ late' = TRUE
    /\ UNCHANGED <<cfg, ownVars, logVars, script, disk, moved, edits, cancelled, crashes>>

World == (\E s \in Sources : Edit(s) \/ Delete(s)) \/ MoveHead \/ Cancel \/ Deadline

Next == RunStep \/ Crash \/ Resume \/ World

Spec == Init /\ [][Next]_vars

(* Every call the run makes returns or raises: nothing in the code makes it  *)
(* so but the calls themselves, or the parent process that kills the run.   *)
FairSpec == Spec /\ WF_vars(RunStep)

-----------------------------------------------------------------------------
(* Properties.                                                              *)

PCs == {"start", "prose", "first", "loop", "execute", "calling", "charge", "grade",
        "decide", "reading", "adopting", "after", "stopping", "ended", "escaped", "dead"}

(* The run's variables have their types.                                    *)
TypeOK ==
    /\ cfg \in Configs /\ pc \in PCs
    /\ status \in STATUSES /\ stopReason \in STOP_REASONS \cup {None}
    /\ iteration \in 0 .. MaxIterations
    /\ base \in [Sources -> Reading] /\ resolved \subseteq Sources
    /\ spent \in 0 .. MaxOutput + 1 /\ calls \in 0 .. MaxModelCalls
    /\ open \in {None, "observe", "model"} /\ dangling \subseteq {"observe", "model"}
    /\ escaped \in {None, "InvalidTransition", "memory"} /\ saved \in BOOLEAN
    /\ logState \in {"empty", "open", "stopped"}
    /\ disk \in [Sources -> Nat] /\ edits \in 0 .. MaxEdits /\ crashes \in 0 .. MaxCrashes
    /\ moved \in BOOLEAN /\ cancelled \in BOOLEAN /\ late \in BOOLEAN

(* The controller never asks for a move the state machine refuses: such a    *)
(* run would raise out of run() with no stop recorded.                      *)
NeverLost == escaped # "InvalidTransition"

(* A run has a stop reason exactly when it is in a terminal status, the one  *)
(* the reason's table entry names, and the log has a stop only of such a    *)
(* run, once it is over.                                                    *)
StopsAgree ==
    /\ stopReason # None <=> status \in TERMINAL_STATUSES
    /\ stopReason # None => status = StatusOf[stopReason]
    /\ logState = "stopped" => stopReason # None /\ pc = "ended"
    /\ pc \in {"stopping", "ended"} => stopReason # None

(* A run passes only on its last graded answer, on sources that are as they  *)
(* were read, at a moment it was neither cancelled nor out of time.         *)
PassedOnStandingGround ==
    [][stopReason = None /\ stopReason' = "passed" =>
          evaluation.passed /\ ~Drifted /\ ~CheckFails /\ ~cfg.approval]_vars

(* What a run holds beyond what it was handed is in a round it logged, in     *)
(* this attempt: evidence never arrives by a round that was refused.        *)
EvidenceIsLogged ==
    /\ Len(rounds) <= Len(logRounds)
    /\ \A i \in DOMAIN rounds :
          rounds[i] = logRounds[Len(logRounds) - Len(rounds) + i]
    /\ \A s \in Sources : base[s] # Initially(cfg)[s] =>
          \E i \in DOMAIN rounds : \E m \in rounds[i] :
              m[1] = s /\ m[2] = base[s].version

(* A round or a reply the budget cannot pay for leaves no trace: nothing is  *)
(* adopted, recorded or graded past output_bytes.                           *)
UnpaidLeavesNoTrace ==
    [][cfg.budgeted /\ (logRounds' # logRounds \/ (evaluation' # evaluation /\ pc # "dead"))
          => spent' <= MaxOutput]_vars

(* What the material changed since the last grade: bytes or excerpts the run *)
(* did not hold, or a pattern it was waiting on that was resolved.          *)
NewMaterial == base # evaluation.on \/ evaluation.patterns \ WaitingOn # {}

(* "Feedback cannot produce bytes": after a grade that asks for material, the *)
(* run goes round again only with material it did not have.                 *)
InvestigationNeedsMaterial ==
    [][iteration' = iteration + 1 /\ iteration > 0
          /\ RetryClass(evaluation.action) = "investigation" => NewMaterial]_vars

(* A run that failed twice in the same way tries a third time only on new    *)
(* material.                                                                *)
NoThirdTry ==
    [][iteration' = iteration + 1 /\ iteration > 1 /\ SameFailure(evaluation, previous)
          => NewMaterial]_vars

(* "The iteration bound is only the reason when it actually bound something":*)
(* a run that stops on it could have acted on what it was told.             *)
MaxIterationsBinds ==
    stopReason = "max_iterations" =>
        /\ iteration = MaxIterations
        /\ evaluation.retry /\ ~evaluation.passed
        /\ evaluation.action # "observe_again"

(* A run whose calls return ends, or its process is gone.                   *)
Terminates == <>[](pc \in {"ended", "escaped", "dead"})

(* A resumed run of a deterministic producer over a repository nothing has   *)
(* touched reads, round by round, what the log says it read before: it is   *)
(* never stopped because "the ground moved".                                *)
ReplayMatchesLog == pc = "adopting" /\ edits = 0 /\ cfg.idempotent => ~OtherGround
=============================================================================
