# Atlas Core: verification project

TLA+ models of `atlas_core`, the configurations that model-check them with TLC,
and proofs checked by TLAPS. File names below are relative to
`src/atlas_core/`. `PROJECT.json` maps every definition to the lines it stands
for, lists the hazards of the code, the runs, and for each property a plausible
bug (a *mutant* operator in the modules) that breaks it.

## 1. The system

Atlas Core runs one *task* at a time: a controller reads a repository, asks a
producer (a model, or the rule-based executor) for a reviewed answer, grades
that answer against the bytes it read, and decides between another pass and a
stop. Every run is recorded in an append-only event log, which several
processes may share: an `atlas run` worker and the parent that guards it,
programs that call the controller directly, resumptions of an interrupted run,
and hosts that ask for status, follow the events or cancel.

| Component | State it keeps | Operations | Talks to |
|---|---|---|---|
| Event log, run locks (`eventlog.py`, `inspect_run.py`) | the file, `F.writer.lock`, `F.<run>.lock`; the next sequence number of an `EventLog` | build a sink, truncate a torn tail, append, start and finish a call, read, validate a history | every other component |
| Host API and CLI processes (`host_api.py`, `cli.py`, `worker_cli.py`) | the worker process, the cancel marker, the parent's progress through sealing | run, kill, seal a lost run, status, cancel, follow | the log, the locks, the controller in its worker |
| Controller (`controller.py`) | `AtlasRunState`, the evidence base, the rounds, the last evaluations | run, resume, one pass, one round of reading, stop | all of those below |
| State machine (`machine.py`, `state.py`) | a status and a stop reason | enter, stop, classify a stop | controller |
| Budget (`budget.py`) | four counters and a deadline, under a lock | check, reserve, charge | controller, gateway |
| Process boundaries (`process_guard.py`, `isolation.py`, and `_run_isolated` of `tool_gateway.py`) | a worker and its session, pipes, bytes read, a deadline | launch, read, poll, receive, kill | host API, gateway, adapters |
| Evaluator (`evaluator.py`, `review_plan.py`) | none | grade an answer, name the next action | controller, claim checks |
| Findings and claim checks (`finding.py`, `claim_check.py`, `evidence.py`) | none; they read the sources again | check a citation, settle a typed claim, apply a verdict | evaluator, the repository |
| Observation (`observer.py`, `observation.py`, `evidence_base.py`, `snapshot.py`, `containment.py`, `adapters/filesystem_repo.py`) | what was read, at which digest and window | a round, merging, drift detection | controller, the repository |
| Approval ledger (`approval.py`) | pending operations, their tokens and expiry | request, grant, refuse, consume | gateway, proposal |
| Tool gateway (`tool_gateway.py`) | the route, the shared budget, calls in the log | invoke, invoke_write | budget, approvals, log |
| Patch proposal (`patch_proposal.py`) | a clone, then a branch in the repository | prepare, propose, verify, roll back | gateway, approvals |
| Feedback store (`feedback.py`) | two JSONL files under a flock | record, promote | log |
| Live model (`adapters/live_model.py`) | none between calls | fit the sources into a prompt, one request, read the reply | controller |
| Planner, router, executor, finalizer, contracts, migration, redaction, telemetry, integrity | none | pure functions over text and documents | |
| Memory adapters | files outside the run | read, promote a candidate | controller |
| Benchmark, CI, GitHub and MQ readers, skill generator | none | reports and I/O | |

What makes it hard, and what must hold:

* **The log.** Sinks are built, and torn tails dropped, before any lock is
  held; a process may die inside a write; two locks are taken in order and
  refused at once when held. *Correct* means: one writer at a time, every
  readable history is one `inspect` accepts, nothing is rewritten, and nothing
  follows a `run_stopped`.
* **The parent.** It may kill its worker at any point, also after the worker
  logged its stop, and must then complete the history itself without
  contradicting it. *Correct* means: it always answers, and a reason it answers
  with is the logged one, unless it says that it could not seal the log.
* **The watchers.** A status is put together from a probe of a lock and two
  reads of the file. *Correct* means: what they say was true at some moment of
  the query; a follower prints each record once.
* **The controller.** It loops over reading, answering and grading while the
  repository moves, the clock runs and a host cancels; every charge may stop
  it; it may die and be resumed. *Correct* means: no illegal transition, the
  stop reason tells the truth, evidence comes only from rounds that were paid
  for and logged, a pass rests on ground that still stands, feedback alone
  never replaces reading, and the loop ends.
* **Approvals and the gateway.** Threads share tokens, the quota and the log; a
  token is spent before the quota is asked, and a write that failed may have
  happened. *Correct* means: one write for one approval, the approved one; a
  call recorded as denied wrote nothing; the log shows who allowed what.
* **The proposal.** People work in the repository between each of its git
  commands. *Correct* means: a branch is cut from where its base stands, two
  calls never both own a name, and a rollback deletes only what the call made.
* **Feedback.** Processes append to two files, and both the log and the store
  may change under them. *Correct* means: one learning per candidate, from a
  finished run, resting on a log that said what the learning claims.
* **The claims.** A reply's findings are checked by reading the sources again,
  once for each citation and once more for each claim, while people edit them.
  *Correct* means: a claim is called verified or contradicted only if bytes that
  were there during the check bear it out, at the digest that was observed; a
  clean grade means that every finding was established; what a window does not
  show is not called absent.
* **The boundaries.** A worker may write without end, never write, fork, or
  die inside a message. *Correct* means: the parent answers by
  its deadline, takes nothing cut for a result, and leaves no worker behind, nor
  what a worker started before it was given up.
* **The prompt.** What says that something was cut takes room itself.
  *Correct* means: within the bound, a prefix, and nothing missing in silence.

## 2. The modules

| Module | Models | Built on |
|---|---|---|
| `RunHistory` | what a log promises a reader: a history begins once, is extended while open, ends once, and is never rewritten | |
| `AtlasHost` | the processes that write one log: workers (CLI, API, resumption), the parents, locks, torn tails, sealing, crashes, cancellation | implements `RunHistory` |
| `AtlasViews` | status, cancel and `events --follow`, beside the processes of `AtlasHost` | extends `AtlasHost` |
| `AtlasMachine` | the transition table, the stop reasons, `classify_stop`, `retry_class` | |
| `AtlasRun` | `AtlasController.run` and `resume`: the loop, the evidence, the budget, the repository around it | extends `AtlasMachine` |
| `AtlasGateway` | `ApprovalAuthority`, `ToolGateway`, `reserve_tool` and the call records of `EventLog`, for threads that share them | |
| `AtlasProposal` | `propose` by several callers on a repository in which people work | uses the outcome of `invoke_write` |
| `AtlasFeedback` | `record_outcome` and `promote` by several processes | |
| `AtlasPrompt` | `build_prompt` and `LiveModelAdapter.execute` | |
| `AtlasClaims` | `_grade_against_evidence` with `check_finding`, `check_claim` and `apply_verdict`, on sources that change | what `AtlasRun` takes as the evaluator's answer |
| `AtlasGuard` | `run_bounded_process`, `run_isolated` and `ToolGateway._run_isolated`: parent, worker, a child of the worker, pipes | what `AtlasHost` and `AtlasGateway` take as one step |
| `AtlasRunProofs`, `AtlasHostProofs`, `AtlasGatewayProofs`, `AtlasProposalProofs`, `AtlasFeedbackProofs`, `AtlasPromptProofs`, `AtlasClaimsProofs`, `AtlasGuardProofs` | theorems | each extends the module it is named after; `AtlasHostProofs` extends `AtlasViews`, and so `AtlasHost` |
| `MC*` | the instances TLC checks | |

**`AtlasHost`.** The file is one sequence of records per run id, since every
reader filters by run id, plus `torn` (it ends inside a record) and `corrupt`
(a line in the middle does not parse; `read_jsonl` then raises for everybody).
`Write` is `JsonlSink.write`: on a torn file the new line joins the fragment,
both are lost and the file is corrupt. A worker goes through `BuildSink`
(and `Truncate`), `TakeWriter`, `TakeRunLock`, `CheckFresh` or `CheckResume`,
its appends, and the two releases; a flock that is held makes it raise at once.
A parent looks at the log without a lock (`Precheck`), waits, and then
delivers the worker's document or seals the run: `SealWriter`, `SealRun`
(either lock may not come free within its two seconds), `SealRead`, `SealStart`,
`SealStop`. Where it cannot seal, `AnswersUnsealed` prints a run document all
the same, with the parent's own reason and, in `metadata.event_log_unsealed`,
the mark that says so (`marked`). `Crash`, `ParentCrash` and
`KillWorker` can strike anywhere; a process that dies while it may be writing
leaves the file torn or whole, and its flocks go with it. What a worker does
between its start and its stop is `Work` (any ordinary event) and `Verdict`
(a reason, `cancelled` only where the marker exists): the loop itself is
`AtlasRun`. `Casts` lists which processes are started together; the others stay
unborn.

**`AtlasViews`.** A viewer asks once. Its probe (`ProbeLock`, `Unprobe`) takes
the run's flock for an instant, as `is_locked` does, and so may refuse a worker
that starts just then. `seen` is a history variable: the states the run was
really in while the question was open.

**`AtlasRun`.** One action per stretch of the loop between two points at which
something else may happen: `Start`, `GatherProse`, `FirstRead`, `BeginPass`
(routing and planning included), `Execute`, `ModelCall`, `Charge`, `Grade`,
`Decide`, `Read`, `Adopt`, `AfterLoop`, `LogStop`. An answer is a record of what
the evaluator tells apart (does it cite, soundly, on topic, with which
sections and words), the evidence base maps each source to the version and
window it was read at, and the repository is the version of each source on disk.
A `Read` of a file that changes under it sees the version of that moment. A
resumed run (`Resume`) starts the loop over from what it was handed, with a
fresh budget, and compares each round with the one the log recorded. `Enter`
and `Stop` consult the table: an illegal move raises out of `run`, which the
model keeps as `escaped`.

**`AtlasGateway`.** A caller's call goes through `Invoke` (the budget is
checked, nothing logged yet), `IssueId` and `StartCall` (the two halves of
`start_call`), `DecideRead`, `Consume` or `RefuseWrite`, `Reserve`, `Execute`
and `Finish`, after which a failed read may be tried again. `decision`,
`approved` and `late` are `_pending`: an operation is its arguments and the
commit it was described at, and `late[a]` holds the clocks that have passed
`a`'s expiry; the wall clock may be set back. `written` records what handlers
did: one that raises or is killed may have written or not. `EventLog.append` is
one step. A handler that invokes a tool itself is one more caller. `use` is
fixed at the start: who calls, with which approvals, and whether the gateway was
given a log. `answer` is what the caller gets: a result, an exception,
or `AppendOnlyViolation`. The other exceptions are not told apart, since the
code raises the same ones before a write and after it. `call_started` records
the tool's capability; here it is `none` for every tool the call is refused for
before its approval is looked at. Tools are
assumed to have schemas of the supported types: with another one
`_validate_schema` raises a plain `ValueError` that no handler turns into an
outcome, and the call stays open in the log.

**`AtlasProposal`.** The repository is its refs, `HEAD` and whether the worktree
is clean; a proposal's commit is its parent and its proposer, so no two calls
make the same commit (in git this needs the same patch, base, name and second).
`ReadBase`, `ReadBaseRef` and `Prepare` are `prepare`; `BeforeRefs`,
`BeforeHead` and `AfterRefs`, `AfterHead` are the two reads of `_repo_state`;
`Consume` is the check inside `invoke_write`, `CreateBranch` the update-ref
transaction, which the gateway may still follow by an exception. `by` and
`removed` are history variables: who put a proposed branch where it is, and
which of them people took away.

**`AtlasFeedback`.** `logs` is the sequence of contents the log file has had; a
digest is an index into it, so no content comes back. A file of the store is
its lines and whether it ends in a fragment; `Added` is `_append` on either.
Recording and gating each read the log twice, once to parse and once to hash.

**`AtlasPrompt`.** Texts are lengths. `Begin` is the part of `build_prompt`
before the loop, `ShowWhole`, `ShowCut` and `OmitRest` the three ways an
iteration ends, `Post` and `ReadReply` the rest of `execute`. The notices have
the length of their words and of the numbers in them (`Digits`).

**`AtlasClaims`.** A source is a sequence of lines, a line the set of the words
in it (`Words` are all there are), a digest the version it was taken of. `Parse` reads the reply and the
route's demands; `CheckReference` is one citation with its own read of the file;
the semantic step then settles one finding at a time, with one read for most
claims, and two for the claims that compare two sources (`left`).
`Grade` builds the lists and counts of `_Evidence` from the verdicts, which are
kept by claim and scope as the code keeps them. `Edit` may fall between any two
of these reads: it writes, removes, or replaces a source by a link that leads
out of the root, and may restore what was there. What a run observed need not be
what the source held: the digest is checked, the excerpt compared.

**`AtlasGuard`.** One parent, at one of three boundaries. `writers[s]` is who
holds the write end of a pipe; `wrote` and `got` count units of output. The
worker leads its session only after `LeadSession`, may fork a child that
inherits its streams, and may die, as may the child, at any step. The parent's
steps follow the code: `Loop`, `Select`, `ReadOne` and `Wait` are
`run_bounded_process`; `CheckCancelled`, `CheckClock`, `Poll`, `CheckExited` and
`Receive` the loop of `run_isolated`; `PollTool` what the gateway does instead.
`TimePasses` lets the deadline pass at any point, and `Interrupt` is an
exception that strikes the parent. The kill is three steps, between which the
worker and its child go on: `CheckWorker` (only the gateway looks first whether
its worker is alive), `KillGroup`, which finds no group as long as the worker
has not called `setsid`, and `KillWorker`. A child is `early` or `late` by
whether it was forked before the parent gave up. A second exception that strikes
while the parent kills is left out, and so is the reuse of a process id.

## 3. The runs

| Run | Instance | Shows |
|---|---|---|
| `HostRuns` | a CLI run with its parent, an API run and a resumption over two run ids, one death, one cancellable run; or an API run and a resumption that truncates the torn tail | `OneWriter`, `HistoryValid`, `NoLifeAfterStop`, `ReportAgreesWithLog`, the refinement `AppendOnly`, `CliStartsEmptyLog`, and under fairness `CliAnswers` |
| `HostTruncation` (violated) | an API run, two truncating resumptions | a write-back outside the locks rewrites what was logged since |
| `Views` | two viewers beside an API run and a truncating resumption | a run that stops is never called interrupted; a follower misses nothing |
| `RunLoop` | ten ways to start a run, seven kinds of answer a pass, three passes, one change of the repository, cancellation, deadline, one crash and a resumption | the properties of the loop; state and evidence of a resumed attempt owe nothing to the old one, and over unchanged bytes it adopts what the log recorded |
| `RunDoubleResume` (violated) | two crashes, nothing changed | the second resumption compares its rounds with those of both earlier attempts and stops `blocked` |
| `Gateway` | two uses: two callers with two approvals and no log, a quota of two and two attempts; one caller with a log, two calls and one set-back of the clock. Two operations, two commits | `OneWritePerApproval`, `QuotaHolds`, and where there is a log `OutcomesAreTrue` and `WritesAreAudited` |
| `GatewaySharedLog` (violated) | two callers with a log | the call that wrote ends in an `AppendOnlyViolation` |
| `Proposals` | two calls for one name, two branches, three acts of people | `OneBranchPerName`, `OutcomeTellsBranch`, `CutFromTheBase`, `RollbackIsOwn` |
| `Feedback` | three processes, three contents of the log, one edit, one death or short write | `PromotedOnce`, `LearningsAreGrounded`, and under fairness `PromotionsEnd` |
| `Prompt` | up to three sources of up to 13 characters, four bounds, all bounds per source | `WithinBound`, `ShownIsAPrefix`, `CompleteMeansSeen` |
| `Claims` | two sources of two lines, read in full, in part, with an excerpt that is not theirs or without a reader; replies of up to two findings over every kind of claim and condition; two edits | `SettledIsTrue`, `CleanMeansEstablished`, `CoverageIsTheShare` |
| `Guard` | the three boundaries, caps of two units, blocks of two, up to four units written | `NothingLeftBehind`, `AnswerIsWhole`, and under fairness `ParentAnswers` |

**Bounds.** `MaxEvents` lets a worker log at least one event between start and
stop; more of them repeat the same step. One crash is enough for a torn tail, a
lost worker and a resumption; two for a resumption of a resumption
(`RunDoubleResume`).
Two run ids show that records of another run are told apart; one of them is
enough for what a viewer of one run sees. Three processes on one log show every
pair of roles racing, with a third holding a lock. In `AtlasRun` three passes
are the fewest at which "failed twice in the same way" differs from "failed
once" and the iteration bound meets both; one repository change, at any point,
lets a source differ from what was read or be gone; one source with two windows is enough
for "unread", "partly read" and "read in full", and each is a reason to read
again. Budgets are counted in replies and excerpts and are small enough to run
out in each place that charges them.

In `AtlasGateway` two callers with two approvals are enough to mix up tokens,
and a quota of two is met by one caller's retry and the other's call. The log
grows with every step, so threads are checked without it, which takes no step
away from them, and the audit with one caller: `Uses` lists the two. Three acts of people allow a
branch to be taken, the base to move and a third thing to hide it. Three
processes on the store are a recorder and two promoters, or the reverse. In
`AtlasPrompt` the words of the notices are shortened to one character so that
their numbers, of one and two digits, matter; the theorems lift the bounds.
In `AtlasClaims` two lines are the fewest of which a window can show one and
miss the other, two sources the fewest that can be compared, two findings the
fewest that can share an id or a verdict, and two edits let a source change and
change back between two reads. In `AtlasGuard` a cap of two and blocks of two
let a stream end below, at and one above the cap, in one read or in several; the
theorems lift these bounds.

**Deadlock.** `CHECK_DEADLOCK FALSE` everywhere: every process of these models
really ends, and a finished system has no step left. That nobody waits for
ever is what `CliAnswers`, `Terminates`, `PromotionsEnd` and `ParentAnswers` are
about.

**Fairness.** `AtlasHost` asks it of the parents only: each of their steps is
their own program, a wait with a deadline or a retry that ends after two
seconds. Nothing is asked of workers, which may hang. `AtlasRun` asks that the
next step of the run is taken, that is, that the calls it makes return or
raise; the code does not enforce this from inside, the parent process does from
outside, by the kill that `AtlasHost` models. `AtlasFeedback` asks that a
process takes its next step, that is, that its reads and writes return, and
that a process waiting for a flock gets one that stays free: every call here
holds it for a bounded number of steps, and the kernel frees it at a death.
`AtlasGuard` asks it of the parent and of time; nothing of the worker and its
child. `ParentAnswers` leaves out, by name, the one place at which the code
itself waits without a deadline (`AwaitsTheRest`, below).

## 4. Where the code and its documents disagree

Three runs are violated; the property of each states the sentence it refutes, and
PROJECT.json gives the lines.

1. `HostTruncation`. The API contract says nothing rewrites an event.
   `truncate_torn_tail=True` reads the file and writes it back with no lock
   held.
2. `RunDoubleResume`. The API contract says a replayed round is compared with
   what the interrupted run recorded for that round. After two crashes the
   recorded rounds are those of both attempts in a row.
3. `GatewaySharedLog`. A test says of threads that share a gateway and a token
   that one is told `ok` and the others `already_used`. `start_call` takes the
   length of the log as the call's id before it appends: two calls may get one
   id, and the one that wrote may be told that its call was already finished.

More of them are in the models without a run of their own, and the checked
properties are stated so as to leave them open:

* `eventlog.py` says a crash truncates the last line rather than corrupting the
  file. The tail is looked at only when the sink is built, before the locks: a
  worker that built its sink on a whole file, and takes the lock after another
  writer died inside a record, appends to the fragment (`corrupt`).
* `host_api.py` says that no stop and no held lock means that the process is
  gone. `run_status` probes before it reads, so a run that starts between the
  two is answered `interrupted`.
* The API contract (`api-contract.md:1165-1173`) says that the CLI result carries
  the same stop reason as the log, and that a parent whose worker had already
  logged its stop prints no run document. When `seal_lost_run` raises, because
  the writer lock stays taken for two seconds or the file holds another run by
  then, `_worker_failure` (`cli.py:74-93`) goes on and returns a whole
  `atlas-run.v1` document with the parent's own reason; only
  `metadata.event_log_unsealed` says that the log was not looked at. In the
  model: a worker logs `passed` and is killed, an API run takes the writer lock,
  and `SealWriter` prints a marked document `cancelled`. `ReportAgreesWithLog`
  therefore speaks of unmarked answers, and of a marked one says that it is a
  document with the reason the parent gave its worker up for.
* The safety model (`safety-model.md:103-104`) says that `run_isolated` kills the
  whole worker process group on timeout or abort. `_kill_worker`
  (`isolation.py:58-64`) calls `killpg` once and passes over
  `ProcessLookupError`; a worker that has not called `setsid` by then may call it
  and fork before it is killed for itself. In the model: `Launch`, `AskCancel`,
  `CheckCancelled`, `KillGroup`, `LeadSession`, `Fork`, `KillWorker`, and a
  `late` child lives on. `NothingLeftBehind` leaves just this child open.
* The API contract says every exit appends `run_stopped`. Memory is read and
  written outside every handler (`escaped = "memory"`).
* The safety model says a grant ends when either clock passes. The passing is
  not kept: a wall clock that is set back, after a suspension that the
  monotonic clock did not count, makes the grant good again (`WallSetBack`).
* The API contract says that after the write Core reads the repository again
  and deletes a branch that fails a check. An exception that `invoke_write`
  raises after the ref was created leaves it as it is (outcome `raised`).
* The API contract says `promote` appends the learning. `_append` does not look
  at how much was written (`torn`): the next line joins the fragment, and
  nothing can be promoted from the store any more.
* `schemas/atlas-evaluation.v2.json` gives `evidence_coverage` a minimum of 0.
  `claim_verdicts` has one entry for all findings of the same claim and scope,
  and `supported` subtracts overlapping lists: a reply of two such findings can
  be graded below zero, and a free-text finding takes over the verdict of a
  typed one, depending on their order. `CoverageIsTheShare` asks for replies
  without such twins.
* `_is_requotable` says that only gaps that can be closed without new
  observations are. A source that changes between the check of a citation and
  the check of the claim gives `source_unavailable`, which is graded
  `unverified_findings` and sent back to the producer.
* `command_targets_differ` compares lists: a target declared twice for a command
  that is given it once is contradicted, though the sets agree.
* `run_isolated` looks for an answer and then at the exit. A worker that answers
  and exits between the two is reported as `WorkerExitedWithoutResult`, and the
  answer is lost.
* `docs/safety-model.md` says that the parent applies a hard monotonic deadline.
  `recv_bytes` has none: once the first bytes of a message are there, the parent
  waits for the rest (`AwaitsTheRest`). The docstring of `run_isolated`, "The
  parent bounds the whole run including startup and IPC", says the same and is
  wrong in the same way.
* The docstring of `invoke_write` says that every check that can refuse runs
  before the handler, and that a refusal leaves nothing changed. After the
  handler, `check` may raise `BudgetExceeded` or `RunCancelled`,
  `charge_output` `BudgetExceeded`, the output schema `ToolSchemaError`, and the
  handler a `ToolDenied` of a nested call: the exceptions the refusals before it
  raise. A caller cannot tell from them whether the write was done; only
  `ApprovalRejected` comes from the approval alone. The log can tell (`denied`
  or `failed`), which is what `OutcomesAreTrue` is about. And where the quota
  refuses, the token has been consumed already.
* The safety model says the gateway kills the process group at the timeout.
  `_run_isolated` does so only if the worker itself is alive: a child that
  outlives its worker is left running (`CheckWorker`). Like `run_isolated`, it
  misses the group of a worker that has not called `setsid` yet.
* `read_in_full` counts the read ranges against the recorded `total_lines`,
  which nothing compares with the bytes. In `AtlasClaims` the total is the true
  one (`ReadInFull`), so a host that records a wrong one is not covered.

## 5. What is proved

The theorems hold for all values of the constants that the `ASSUME`s admit,
with any number of processes, sources, answers and bounds.
**`AtlasRunProofs`** (from `RunAssumption`: finite sources, bounds in `Nat`, and
the rule that readers need a metered budget).

| Theorem | Property | Argument |
|---|---|---|
| `TransitionsAreLegal` | `NeverLost` | `ControlInv`, which adds to the property the status each point of the loop is at (`StatusAt`): without it a step's move cannot be looked up in the table |
| `StopAndStatusAgree` | `StopsAgree` | the same invariant |
| `EvidenceComesFromTheLog` | `EvidenceIsLogged` | `EvidenceInv`: the property is inductive once the evidence has its type, since a round's material is made of the sources whose readings it changes |
| `RunTypes` | `TypeOK` | `TypeInv`, which adds that nothing is spent before the loop and that the limit may be overrun only by the charge that then ends the run (`SpentAt`) |
| `BoundIsTheReason` | `MaxIterationsBinds` | `PassInv`, below |
| `PassesOnStandingGround` | `PassedOnStandingGround` | one lemma on `Stop`, `PassingIsGraded`: of all steps that end a run only the last grade can say `passed`, and there `classify_stop` has seen the evaluation, the drift and the clock of that very step |
| `WhatIsKeptIsPaid` | `UnpaidLeavesNoTrace` | the charge comes before the round and before the grade; that the limit holds at the grade is `SpentAt` |
| `FeedbackIsNoMaterial` | `InvestigationNeedsMaterial` | `PassInv` |
| `TwiceIsEnough` | `NoThirdTry` | `PassInv` |
| `ReplaysAgree` | `ReplayMatchesLog` | `ReplayInv`, below; it assumes `MaxCrashes <= 1` |

`PassInv` says what the loop knows when it goes round: at the top of a pass
after the first, either the last grade is one that feedback can answer and is
not the one before it again, or there is material the last pass did not have
(`WorthAnotherPass`); that a round of reading answers the grade it follows
(`RoundAnswersGrade`); and that a grade with stale citations asks to read. The action properties speak of the step that begins
a pass, and the decision they are about was made some steps and possibly a round
of reading before it: `PassInv` carries it there.

`ReplayInv` is about two attempts at one run, of which the state holds one and
the log of the other. Both are compared with a third thing, the course of the
run (`Course`): the evidence, the resolved patterns and the rounds after each
pass, computed from what the run was given and from the answers in `script`
alone, a pass at a time (`After`). `Local` says what a run knows by where it is
as long as nothing in the repository changes: what it asks for follows from its
grade, what the host brings follows from what was asked. By it every step of the
loop stays where it is, opens the course or goes on to its next pass (`Walk`).
So what the first attempt logged is always the rounds of some course
(`FirstAttempt`), which the producer's answers, being the same again, leave a
course; and the second attempt stands on that course for as long as it reaches
(`SecondAttempt`), where its next round is the one that was recorded.
That grading depends on the evidence and the answer only is stated by
instancing `AtlasRun` itself on a given evidence (`On(b, r)`). The assumption of
one death is the one under which the property is true: `RunDoubleResume` shows
that after two the log holds the rounds of both attempts in a row.

**`AtlasHostProofs`** (from `ConstantsAssumption`: the three kinds of process
are disjoint).

| Theorem | Property | Argument |
|---|---|---|
| `WritersExclude` | `OneWriter` | `LockInv`: what a process holds follows from where it is. The property alone says nothing of a process that holds one lock and waits for the other |
| `HostTypes` | `TypeOK` | needs `LockInv`, and that a worker about to log its stop has a reason (`WorkerTypes`) |
| `HistoriesStayValid` | `HistoryValid` | `HostInv`, below |
| `NothingAfterTheStop` | `NoLifeAfterStop` | `HostInv` |
| `AnswersAgree` | `ReportAgreesWithLog` | `HostInv`; `MarksInv`: a parent that seals has a reason, and a marked document ended with it |
| `ImplementsRunHistory` | `AppendOnly` | `HostInv` and one lemma, `FileSteps`: every step leaves the histories alone or adds the one record that fits. On a torn file that record is lost and the abstract log is garbled; on a corrupt one nothing is left to change |
| `CliRunsAlone` | `CliStartsEmptyLog` | `CliAlone`: what was seen under the writer lock still holds at the append |

`HostInv` says, beside the locks and the types, that what a process found out
about a history under its locks is still true when it acts on it: a worker at
its start is on an empty history, one past it is on an open history and counts
from its length (`WritersMay`), a sealing parent likewise (`SealersMay`); that
a worker past its append, and a parent that has answered, name a reason the log
holds (`StopsLogged`, `ReportsLogged`); and that a worker not yet spawned has
written nothing. `OneWriter` is what makes it inductive: an append by one
process finds no other one at a point that relies on the history.

Three more theorems are about `AtlasViews`, for any number of viewers:

| Theorem | Property | Argument |
|---|---|---|
| `ViewersAreHarmless` | `OneWriter`, `HistoryValid` | a probe holds a run's lock for an instant and never the writer's, so `HostInv` with the probes beside it (`ViewersHold`) is still inductive |
| `AnswersWereSo` | `StoppingIsNotInterrupted` | `Watching`: a probe that found no lock was made of a run nobody held, so if the history read after it shows no stop, that run had been left, or had not begun, at some moment that was `seen` |
| `FollowersSeeItAll` | `FollowerMissesNothing` | `Following`: what was printed is a prefix of what was read, and that of the history, which only grows; nothing printed is a stop before the follower's own end |

`HistoriesStayValid`, `NothingAfterTheStop`, `AnswersAgree`,
`ImplementsRunHistory`, `CliRunsAlone` and the three on `AtlasViews` assume
`Truncating = {}`: no process builds its sink with `truncate_torn_tail=True`.
With two that do, records are lost, as `HostTruncation` shows; with one of them
beside an API run, `HostRuns` checks an instance. `OneWriter` and the types need
no such assumption.

**`AtlasPromptProofs`** (from `PromptAssumption`: lengths in `Nat`, and a larger
number never has fewer digits): `PromptTypes`, `PromptIsBounded`
(`WithinBound`), `PromptShowsAPrefix`, `CompletenessIsTrue`. The bound is not
inductive: `Accounts` adds that what the shown texts take and the room that is
left make up the room there was, less a separator once something is shown, so
that an overdraft of two characters at the end is the separator that is never
written. `Notices` says that the notice reserved for is the longest.

**`AtlasGatewayProofs`** (from `GatewayAssumption`: finitely many callers,
bounds in `Nat`, at least one attempt; any mixture of uses, with a log or
without).

| Theorem | Property | Argument |
|---|---|---|
| `GatewayTypes` | `TypeOK` | that a handler's write is on an approval, for an operation, needs `Entitled` |
| `ApprovalsBuyOneWrite` | `OneWritePerApproval` | `IInv`, below |
| `QuotaIsKept` | `QuotaHolds` | `Reserved`: the reservations are the handlers that have run and the callers about to run one, which a counter alone does not say |
| `TheLogIsTrue` | `OutcomesAreTrue` | `OutcomesTell`: a call has not written before its handler runs, and its outcome at `_finish` says what it did; `Accounts` carries that into the log, where each log has one caller (`OneAtATime`) |
| `AuditIsComplete` | `WritesAreAudited` | `AuditInv`, below, where each log has one caller (`OneAtATime`) |

The invariant says of every call between its approval and the end of its handler
that its token is consumed, for the operation that was approved, with nothing
written on it yet (`Entitled`), and that no two such calls have one token
(`SoleSpender`): the first makes a write the approved one, the second makes it
the only one. `ReadsOnly` says that whatever `invoke` runs and tries again is a
read tool, so a retry never comes back to a write.

`TheLogIsTrue` and `AuditIsComplete` are the theorems here that restrict the
uses, and they have to: with two callers on one log `start_call` may give both one id, as
`GatewaySharedLog` shows. `AuditInv` says what the log holds of each approval by
where its decision stands (`Trails`), and of each call by where its caller is
(`Calls`): a call underway has an id the log has not finished, no id to come was
ever used, a consumption stands after the start of the call that writes on it,
and the call that wrote was not denied and will not be. `Accounts` says what
`OutcomesAreTrue` needs besides: a start stands after the moment its id was taken
(`StartsPast`), a call underway has exactly one, and what the log shows of its
writing is what the call knows (`HasStarted`).

**`AtlasProposalProofs`** (from `ProposalAssumption`: branches, names and
commits are told apart, a commit of Core's is none of people's).

| Theorem | Property | Argument |
|---|---|---|
| `NameIsTakenOnce` | `OneBranchPerName` | `Placing`: a call past its write owns the branch of its name, or people have removed it; one owner cannot be two calls |
| `OutcomesTellBranches` | `OutcomeTellsBranch` | `Placing`: a call before its write, and one that ends without it, owns no branch |
| `BranchesAreCutFromTheBase` | `CutFromTheBase` (action) | `CommitIsNew`: only the update-ref transaction makes a ref the call's own, and it compares the base in the same step |
| `RollbacksAreOwn` | `RollbackIsOwn` (action) | `Owning`: a ref that still holds a call's commit is the one that call made, since no two calls make one commit |

**`AtlasFeedbackProofs`** (from `FeedbackAssumption`: bounds in `Nat`, and
nobody's name is that of the free lock).

| Theorem | Property | Argument |
|---|---|---|
| `PromotionsExclude` | | `Locked`: whoever is between reading `learnings.jsonl` and writing to it holds the lock |
| `OneLearningPerCandidate` | `PromotedOnce` | `Known`: that no line is about the candidate stays true from the check to the append, as nobody else is there |
| `LearningsRestOnTheLog` | `LearningsAreGrounded` | `Known`: between the two reads of the log, what the first one said is of a content no older than the one the candidate names, so when the digests agree at the second read both reads were of that one |

**`AtlasClaimsProofs`** (from `ClaimsAssumption`: observations, citations and
findings are what their constructors let pass: line numbers in `Nat` and 1-based
where lines are covered, a typed claim of a known kind).

| Theorem | Property | Argument |
|---|---|---|
| `VerdictsStandOnTheObserved` | `SettledIsTrue` | `CitationsInv`: a citation called intact quotes what was observed, whatever the file held before and after. `VerdictsInv`: every verdict kept is that of a soundly cited finding of its id, and a decisive one is what the observed versions say |
| `NoGapMeansEstablished` | `CleanMeansEstablished` | `OrderInv`: findings are settled in order and each sound one leaves a verdict, so none is passed over; `Complete` when the reply is graded |
| `TheShareIsCounted` | `CoverageIsTheShare` | the five lists that are subtracted are disjoint where ids are not shared, and their union is what is not supported |

The invariant follows the phases of the check (`PhaseInv`), and at its end says
that the result is `Graded` of the verdicts reached, so that the properties are
about one definition and not about the steps. The work is in the lemmas on the
operators: what lines a range takes from a source and what words they hold
(`LinesOfRange`, `RangeContains`), what a quoted command is given
(`TargetsOfRange`, `CommandsTell`), that a source read again at the observed
digest is the observed source (`NowIsObserved`), and that each kind of claim then
gets the verdict it deserves (`LiteralsTell`, `NamingIsSole`).

**`AtlasGuardProofs`** (from `GuardAssumption`: a cap and a block of at least
one): `GuardTypes`, `SessionsEnd` (`NothingLeftBehind`), `ResultsAreWhole`
(`AnswerIsWhole`). The properties speak of the parent's last step and are not
inductive: `Counts` follows what was read against what was written and the cap,
`Drained` says that a stream the parent no longer reads from has come to its end
with no writer left, `Concluded` where a result can be, and `Fresh` that nothing
exists before the launch. Two parts carry `SessionsEnd` through the three
steps of a kill: a worker that leads no session yet has started and sent
nothing, so only the deadline, a cancellation or an interrupt can have ended the
work (`Starting`), and what is alive of the session after `killpg` was started
since then (`Spared`).

The types of `AtlasHost`, `AtlasPrompt`, `AtlasGateway` and `AtlasGuard` are
proved and not among the properties of a run.

Model-checked only: liveness (`CliAnswers`, `Terminates`, `PromotionsEnd`,
`ParentAnswers`), which is out of the provers' reach, as is anything that needs
induction over data. Every invariant and every action property that the passing
runs check is proved.

## 6. Not modelled

Payloads, redaction and formatting of records; the token counter and the
provider's wire formats; the predicates over prose (patterns, citation syntax),
which `AtlasRun` replaces by what they conclude; the parsing of a findings block
and of command lines (`AtlasClaims` starts from what they yield); processes that
are forked at the same time and inherit each other's pipes; stateless components
of the table. `JsonlSink._check_tail` writes the file back
in one step here, while the system call first empties the file: a death in
between is listed as a hazard and not yet modelled.

## 7. Plan

In this order; each step brings its module, its runs and then its theorems.

1. Done: `AtlasHost`, `AtlasViews`, `AtlasRun`, `AtlasGateway`,
   `AtlasProposal`, `AtlasFeedback`, `AtlasPrompt`, `AtlasClaims`, `AtlasGuard`,
   with the theorems of section 5.
2. Done: proofs for `AtlasFeedback`, `AtlasProposal`, `AtlasClaims` and
   `AtlasViews`, of the action properties of `AtlasRun`, of `ReplayMatchesLog`
   for one resumption, and of the audit of `AtlasGateway`.
3. The rest of the live adapter: configuration and the fallback it decides, and
   the reading of a structured reply.
4. `AtlasBudget` on its own: RunBudget under threads as the abstract promise
   both the controller and the gateway use, and refinement from both.
5. The merging of windows and the next action as functions, against reference
   definitions over bounded inputs; several readers and several charges in one
   round in `AtlasRun`; the two-step write-back of the torn tail in `AtlasHost`.
