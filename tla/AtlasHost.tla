------------------------------- MODULE AtlasHost -------------------------------
(***************************************************************************)
(* The processes that share one event log file, and the locks, truncation  *)
(* and sealing by which they are meant to leave every run's history a       *)
(* valid one:                                                               *)
(*                                                                          *)
(*   Cli     `atlas run --event-log F --run-id R`: a parent process that    *)
(*           checks F, spawns a worker in a session of its own, kills it at *)
(*           the deadline, and seals a run whose worker is gone;            *)
(*   Api     a program calling AtlasController.run on a JsonlSink;          *)
(*   Resume  a program calling AtlasController.resume, once.                *)
(*                                                                          *)
(* A worker is the process that appends: a CLI worker, an Api or a Resume   *)
(* process.  The file is kept as one history per run, since every reader    *)
(* filters by run_id; `torn` says that it ends in half a record, `corrupt`  *)
(* that a line in its middle does not parse.  A worker's own verdict is     *)
(* either "cancelled" or "passed", which stands for every other reason.     *)
(***************************************************************************)
EXTENDS Naturals, Sequences

CONSTANTS Runs, Cli, Api, Resume,
          Truncating,  (* the Resume processes that build their sink with    *)
                       (* truncate_torn_tail=True                            *)
          Cancellable, (* bound: the runs a host may ask to stop             *)
          Casts,       (* bound: the processes that are started, together    *)
          MaxEvents,   (* bound: a worker adds ordinary events only to a     *)
                       (* history shorter than this                          *)
          MaxCrashes   (* bound: processes that die of anything but their    *)
                       (* parent's kill                                      *)

ASSUME ConstantsAssumption ==
    /\ Cli \cap Api = {} /\ Cli \cap Resume = {} /\ Api \cap Resume = {}
    /\ Truncating \subseteq Resume /\ Cancellable \subseteq Runs
    /\ MaxEvents \in Nat /\ MaxCrashes \in Nat

Workers == Cli \cup Api \cup Resume

ASSUME CastsAssumption == Casts \subseteq SUBSET Workers

VARIABLES run,       (* run[p]: the run id process p was started with        *)
          history,   (* history[r]: the records of run r, in file order      *)
          torn, corrupt,
          writer,    (* who holds the flock on F.writer.lock                 *)
          runLock,   (* runLock[r]: who holds the flock on F.<r>.lock        *)
          lockFile,  (* the runs whose lock file exists                      *)
          cancel,    (* the runs whose F.<r>.cancel marker exists            *)
          pc,        (* where worker p is                                    *)
          next,      (* next[p]: the sequence number p's EventLog gives next *)
          result,    (* what worker p left behind when it exited             *)
          read,      (* read[p]: the bytes a truncating sink read            *)
          parent,    (* where the parent of CLI worker c is                  *)
          loss,      (* why that parent gave its worker up                   *)
          report,    (* what that parent answered                            *)
          crashes

fileVars   == <<history, torn, corrupt>>
lockVars   == <<writer, runLock, lockFile>>
workerVars == <<pc, next, result, read>>
parentVars == <<parent, loss, report>>
vars == <<run, fileVars, lockVars, cancel, workerVars, parentVars, crashes>>

-----------------------------------------------------------------------------
(* Records, and what a history says.                                        *)

WorkerReasons == {"passed", "cancelled"}
LossReasons   == {"budget_exhausted", "cancelled", "tool_error"}
Kinds == {"run_started", "interrupted", "resumed", "work", "run_stopped"}
Event == [kind : Kinds, by : {"worker", "cli_parent"}, seq : Nat,
          reason : WorkerReasons \cup LossReasons \cup {"none"}]

Record(k, b, n, why) == [kind |-> k, by |-> b, seq |-> n, reason |-> why]

Begun(h)   == h # <<>>
Stops(h)   == {i \in DOMAIN h : h[i].kind = "run_stopped"}
Stopped(h) == Stops(h) # {}
Open(h)    == Begun(h) /\ ~Stopped(h)
HoldsARun  == \E r \in Runs : Begun(history[r])

(* The reason of the first stop, which is the one seal_lost_run returns.    *)
StopReason(h) == h[CHOOSE i \in Stops(h) : \A j \in Stops(h) : i <= j].reason

(* EventLog.__init__ refuses a history with a gap or a repeat in it.        *)
Contiguous(h) == \A i \in DOMAIN h : h[i].seq = i - 1

(* _validate_history: what inspect and status accept.                       *)
ValidHistory(h) ==
    /\ Contiguous(h)
    /\ Begun(h) => h[1].kind = "run_started"
    /\ \A i \in DOMAIN h : /\ h[i].kind = "run_started" => i = 1
                           /\ h[i].kind = "run_stopped" => i = Len(h)

Nobody    == <<"nobody", "none">>
Worker(p) == <<"worker", p>>
Parent(c) == <<"parent", c>>

(* JsonlSink.write: one line, opened in append mode.  On a file that ends   *)
(* mid-record the line is joined onto the fragment and neither parses.      *)
Write(r, e) ==
    /\ torn' = FALSE
    /\ corrupt' = (corrupt \/ torn)
    /\ history' = IF torn THEN history
                  ELSE [history EXCEPT ![r] = Append(@, e)]

-----------------------------------------------------------------------------
ParentPcs   == {"precheck", "waiting", "sealWriter", "sealRun", "sealRead",
                "sealStart", "sealStop", "done", "dead"}
SealingPcs  == {"sealStart", "sealStop"}
ReportKinds == {"none", "refused", "error", "document", "lost"}
(* marked: the document says in metadata.event_log_unsealed that the log     *)
(* could not be sealed.                                                     *)
Report(kind, why, marked) == [kind |-> kind, reason |-> why, marked |-> marked]
NoReport    == Report("none", "none", FALSE)
Contents    == [history |-> history, corrupt |-> corrupt]
NothingRead == [history |-> [r \in Runs |-> <<>>], corrupt |-> FALSE]

Init ==
    /\ run \in [Workers -> Runs]
    /\ history = [r \in Runs |-> <<>>]
    /\ torn = FALSE /\ corrupt = FALSE
    /\ writer = Nobody /\ runLock = [r \in Runs |-> Nobody] /\ lockFile = {}
    /\ cancel = {}
    /\ \E cast \in Casts :
          /\ pc = [p \in Workers |-> IF p \in cast \ Cli THEN "sink" ELSE "unborn"]
          /\ parent = [c \in Cli |-> IF c \in cast THEN "precheck" ELSE "dead"]
    /\ next = [p \in Workers |-> 0]
    /\ result = [p \in Workers |-> "none"]
    /\ read = [p \in Workers |-> NothingRead]
    /\ loss = [c \in Cli |-> "none"]
    /\ report = [c \in Cli |-> NoReport]
    /\ crashes = 0

-----------------------------------------------------------------------------
(* The worker.  Its sections, by what it holds.                             *)

WritingPcs   == {"start", "interrupt", "resume", "running", "stop"}
RunLockPcs   == WritingPcs \cup {"check", "releaseRun"}
WriterPcs    == RunLockPcs \cup {"runLock", "releaseWriter"}
EndedPcs     == {"exited", "dead"}
WorkerPcs    == WriterPcs \cup EndedPcs \cup {"unborn", "sink", "truncate", "writer"}

Goto(p, at) == pc' = [pc EXCEPT ![p] = at]

(* The worker raises: no document reaches stdout.                           *)
Raises(p, at) == /\ Goto(p, at)
                 /\ result' = [result EXCEPT ![p] = "raised"]
                 /\ UNCHANGED <<next, read>>

(* JsonlSink.__init__ and _check_tail, before any lock is taken.            *)
BuildSink(p) ==
    /\ pc[p] = "sink"
    /\ \/ /\ ~torn
          /\ Goto(p, "writer")
          /\ UNCHANGED <<next, result, read>>
       \/ /\ torn /\ p \notin Truncating
          /\ Raises(p, "exited")
       \/ /\ torn /\ p \in Truncating
          /\ Goto(p, "truncate")
          /\ read' = [read EXCEPT ![p] = Contents]
          /\ UNCHANGED <<next, result>>
    /\ UNCHANGED <<run, fileVars, lockVars, cancel, parentVars, crashes>>

(* write_bytes: the whole file becomes what was read, less the fragment.    *)
Truncate(p) ==
    /\ pc[p] = "truncate"
    /\ history' = read[p].history
    /\ corrupt' = read[p].corrupt
    /\ torn' = FALSE
    /\ Goto(p, "writer")
    /\ read' = [read EXCEPT ![p] = NothingRead]
    /\ UNCHANGED <<run, lockVars, cancel, next, result, parentVars, crashes>>

(* AtlasController._writer.                                                 *)
TakeWriter(p) ==
    /\ pc[p] = "writer"
    /\ \/ /\ writer = Nobody
          /\ writer' = Worker(p)
          /\ Goto(p, "runLock")
          /\ UNCHANGED <<next, result, read>>
       \/ /\ writer # Nobody
          /\ Raises(p, "exited")
          /\ UNCHANGED writer
    /\ UNCHANGED <<run, fileVars, runLock, lockFile, cancel, parentVars, crashes>>

(* RunLock.acquire creates the lock file whether or not it gets the lock.   *)
TakeRunLock(p) ==
    /\ pc[p] = "runLock"
    /\ lockFile' = lockFile \cup {run[p]}
    /\ \/ /\ runLock[run[p]] = Nobody
          /\ runLock' = [runLock EXCEPT ![run[p]] = Worker(p)]
          /\ Goto(p, "check")
          /\ UNCHANGED <<next, result, read>>
       \/ /\ runLock[run[p]] # Nobody
          /\ Raises(p, "releaseWriter")
          /\ UNCHANGED runLock
    /\ UNCHANGED <<run, fileVars, writer, cancel, parentVars, crashes>>

(* Mutants of CheckFresh: an Api process that does not look for an earlier   *)
(* run of its id, and a CLI worker that looks for its own run only.         *)
CheckFreshUnlooked(p) ==
    /\ pc[p] = "check" /\ p \notin Resume
    /\ IF corrupt \/ (p \in Cli /\ HoldsARun)
       THEN Raises(p, "releaseRun")
       ELSE Goto(p, "start") /\ UNCHANGED <<next, result, read>>
    /\ UNCHANGED <<run, fileVars, lockVars, cancel, parentVars, crashes>>

CheckFreshOwnRun(p) ==
    /\ pc[p] = "check" /\ p \notin Resume
    /\ IF corrupt \/ Begun(history[run[p]])
       THEN Raises(p, "releaseRun")
       ELSE Goto(p, "start") /\ UNCHANGED <<next, result, read>>
    /\ UNCHANGED <<run, fileVars, lockVars, cancel, parentVars, crashes>>

(* run, under both locks: the CLI refuses a log that holds any run, an Api  *)
(* process one that holds this run.  read_jsonl raises on a corrupt file.   *)
CheckFresh(p) ==
    LET occupied == IF p \in Cli THEN HoldsARun ELSE Begun(history[run[p]])
    IN  /\ pc[p] = "check" /\ p \notin Resume
        /\ \/ /\ ~corrupt /\ ~occupied
              /\ Goto(p, "start")
              /\ UNCHANGED <<next, result, read>>
           \/ /\ corrupt \/ occupied
              /\ Raises(p, "releaseRun")
        /\ UNCHANGED <<run, fileVars, lockVars, cancel, parentVars, crashes>>

(* Mutants of CheckResume: a finished run is taken up again, and the log of  *)
(* a resumed run counts on from its last sequence number, not past it.      *)
CheckResumeFinished(p) ==
    /\ pc[p] = "check" /\ p \in Resume
    /\ \/ /\ ~corrupt /\ Begun(history[run[p]]) /\ Contiguous(history[run[p]])
          /\ Goto(p, "interrupt")
          /\ next' = [next EXCEPT ![p] = Len(history[run[p]])]
          /\ UNCHANGED <<result, read>>
       \/ Raises(p, "releaseRun")
    /\ UNCHANGED <<run, fileVars, lockVars, cancel, parentVars, crashes>>

CheckResumeOneShort(p) ==
    /\ pc[p] = "check" /\ p \in Resume
    /\ \/ /\ ~corrupt /\ Open(history[run[p]]) /\ Contiguous(history[run[p]])
          /\ Goto(p, "interrupt")
          /\ next' = [next EXCEPT ![p] = Len(history[run[p]]) - 1]
          /\ UNCHANGED <<result, read>>
       \/ Raises(p, "releaseRun")
    /\ UNCHANGED <<run, fileVars, lockVars, cancel, parentVars, crashes>>

(* _resume_locked: the second disjunct also stands for evidence that does   *)
(* not match run_started and for an unfinished call that is not idempotent. *)
CheckResume(p) ==
    /\ pc[p] = "check" /\ p \in Resume
    /\ \/ /\ ~corrupt /\ Open(history[run[p]]) /\ Contiguous(history[run[p]])
          /\ Goto(p, "interrupt")
          /\ next' = [next EXCEPT ![p] = Len(history[run[p]])]
          /\ UNCHANGED <<result, read>>
       \/ Raises(p, "releaseRun")
    /\ UNCHANGED <<run, fileVars, lockVars, cancel, parentVars, crashes>>

(* EventLog.append by worker p, which then goes on to `at`.                 *)
Appends(p, kind, why, at) ==
    /\ Write(run[p], Record(kind, "worker", next[p], why))
    /\ next' = [next EXCEPT ![p] = @ + 1]
    /\ Goto(p, at)
    /\ UNCHANGED <<run, lockVars, cancel, read, parentVars, crashes>>

LogStart(p) == /\ pc[p] = "start"
               /\ Appends(p, "run_started", "none", "running")
               /\ UNCHANGED result

LogInterrupted(p) == /\ pc[p] = "interrupt"
                     /\ Appends(p, "interrupted", "none", "resume")
                     /\ UNCHANGED result

LogResumed(p) == /\ pc[p] = "resume"
                 /\ Appends(p, "resumed", "none", "running")
                 /\ UNCHANGED result

(* Any event of the loop.                                                   *)
Work(p) == /\ pc[p] = "running"
           /\ next[p] < MaxEvents
           /\ Appends(p, "work", "none", "running")
           /\ UNCHANGED result

(* The loop reaches a stop; it is cancelled only where the marker exists.   *)
Verdict(p) ==
    /\ pc[p] = "running"
    /\ \E why \in WorkerReasons :
          /\ why = "cancelled" => run[p] \in cancel
          /\ result' = [result EXCEPT ![p] = why]
    /\ Goto(p, "stop")
    /\ UNCHANGED <<run, fileVars, lockVars, cancel, next, read, parentVars, crashes>>

LogStop(p) == /\ pc[p] = "stop"
              /\ Appends(p, "run_stopped", result[p], "releaseRun")
              /\ UNCHANGED result

ReleaseRun(p) ==
    /\ pc[p] = "releaseRun"
    /\ runLock' = [runLock EXCEPT ![run[p]] = Nobody]
    /\ Goto(p, "releaseWriter")
    /\ UNCHANGED <<run, fileVars, writer, lockFile, cancel, next, result, read,
                   parentVars, crashes>>

ReleaseWriter(p) ==
    /\ pc[p] = "releaseWriter"
    /\ writer' = Nobody
    /\ Goto(p, "exited")
    /\ UNCHANGED <<run, fileVars, runLock, lockFile, cancel, next, result, read,
                   parentVars, crashes>>

-----------------------------------------------------------------------------
(* Process death.  A process that dies while it may be writing can leave    *)
(* half a record; its flocks go with it.                                    *)

Dies(p) ==
    /\ pc' = [pc EXCEPT ![p] = "dead"]
    /\ writer' = IF writer = Worker(p) THEN Nobody ELSE writer
    /\ runLock' = [r \in Runs |-> IF runLock[r] = Worker(p) THEN Nobody
                                  ELSE runLock[r]]
    /\ torn' \in (IF pc[p] \in WritingPcs THEN {torn, TRUE} ELSE {torn})
    /\ UNCHANGED <<history, corrupt, lockFile, next, result, read>>

Crash(p) ==
    /\ crashes < MaxCrashes
    /\ pc[p] \notin EndedPcs \cup {"unborn"}
    /\ crashes' = crashes + 1
    /\ Dies(p)
    /\ UNCHANGED <<run, cancel, parentVars>>

(* host_api.request_cancel.                                                 *)
RequestCancel(r) ==
    /\ r \in Cancellable
    /\ cancel' = cancel \cup {r}
    /\ UNCHANGED <<run, fileVars, lockVars, workerVars, parentVars, crashes>>

-----------------------------------------------------------------------------
(* The parent of a CLI run.                                                 *)

Ends(c, answer) ==
    /\ parent' = [parent EXCEPT ![c] = "done"]
    /\ report' = [report EXCEPT ![c] = answer]
    /\ UNCHANGED loss

Answers(c, kind, why) == Ends(c, Report(kind, why, FALSE))

(* _worker_failure when seal_lost_run raised: a run document all the same,  *)
(* with the reason the parent gave its worker up for, and the mark.         *)
AnswersUnsealed(c) == Ends(c, Report("document", loss[c], TRUE))

(* _run_worker: the unlocked look at the log, then Popen.                   *)
Precheck(c) ==
    /\ parent[c] = "precheck"
    /\ \/ /\ corrupt
          /\ Answers(c, "error", "none") /\ UNCHANGED pc
       \/ /\ ~corrupt /\ HoldsARun
          /\ Answers(c, "refused", "none") /\ UNCHANGED pc
       \/ /\ ~corrupt /\ ~HoldsARun
          /\ parent' = [parent EXCEPT ![c] = "waiting"]
          /\ Goto(c, "sink")
          /\ UNCHANGED <<loss, report>>
    /\ UNCHANGED <<run, fileVars, lockVars, cancel, next, result, read, crashes>>

(* The worker exited with a run document and the matching exit code.        *)
Deliver(c) ==
    /\ parent[c] = "waiting"
    /\ pc[c] = "exited" /\ result[c] \in WorkerReasons
    /\ Answers(c, "document", result[c])
    /\ UNCHANGED <<run, fileVars, lockVars, cancel, workerVars, crashes>>

(* The worker exited without a document, or died.                           *)
LoseWorker(c) ==
    /\ parent[c] = "waiting"
    /\ pc[c] = "dead" \/ (pc[c] = "exited" /\ result[c] \notin WorkerReasons)
    /\ parent' = [parent EXCEPT ![c] = "sealWriter"]
    /\ loss' = [loss EXCEPT ![c] = "tool_error"]
    /\ UNCHANGED <<run, fileVars, lockVars, cancel, workerVars, report, crashes>>

(* run_bounded_process at its deadline or its output cap, or on an          *)
(* interrupt from the terminal: the worker's session is killed and reaped   *)
(* wherever it is, also after it logged its stop.                           *)
KillWorker(c) ==
    /\ parent[c] = "waiting"
    /\ parent' = [parent EXCEPT ![c] = "sealWriter"]
    /\ \E why \in {"budget_exhausted", "cancelled"} : loss' = [loss EXCEPT ![c] = why]
    /\ IF pc[c] \in EndedPcs
       THEN UNCHANGED <<fileVars, lockVars, workerVars>>
       ELSE Dies(c)
    /\ UNCHANGED <<run, cancel, report, crashes>>

(* Mutants of SealWriter: the parent seals without the writer lock, and it   *)
(* waits for that lock as long as it takes.                                 *)
SealWriterUnlocked(c) ==
    /\ parent[c] = "sealWriter"
    /\ parent' = [parent EXCEPT ![c] = "sealRun"]
    /\ UNCHANGED <<run, fileVars, lockVars, cancel, workerVars, loss, report, crashes>>

SealWriterPatient(c) ==
    /\ parent[c] = "sealWriter"
    /\ writer = Nobody
    /\ writer' = Parent(c)
    /\ parent' = [parent EXCEPT ![c] = "sealRun"]
    /\ UNCHANGED <<run, fileVars, runLock, lockFile, cancel, workerVars, loss, report,
                   crashes>>

(* seal_lost_run: hold(writer lock), hold(run lock), each for up to 2 s.    *)
SealWriter(c) ==
    /\ parent[c] = "sealWriter"
    /\ \/ /\ writer = Nobody
          /\ writer' = Parent(c)
          /\ parent' = [parent EXCEPT ![c] = "sealRun"]
          /\ UNCHANGED <<loss, report>>
       \/ /\ writer # Nobody
          /\ AnswersUnsealed(c)
          /\ UNCHANGED writer
    /\ UNCHANGED <<run, fileVars, runLock, lockFile, cancel, workerVars, crashes>>

SealRun(c) ==
    /\ parent[c] = "sealRun"
    /\ lockFile' = lockFile \cup {run[c]}
    /\ \/ /\ runLock[run[c]] = Nobody
          /\ runLock' = [runLock EXCEPT ![run[c]] = Parent(c)]
          /\ parent' = [parent EXCEPT ![c] = "sealRead"]
          /\ UNCHANGED <<writer, loss, report>>
       \/ /\ runLock[run[c]] # Nobody
          /\ writer' = Nobody
          /\ AnswersUnsealed(c)
          /\ UNCHANGED runLock
    /\ UNCHANGED <<run, fileVars, cancel, workerVars, crashes>>

SealUnlock(c) == /\ runLock' = [runLock EXCEPT ![run[c]] = Nobody]
                 /\ writer' = Nobody
                 /\ UNCHANGED lockFile

(* Mutant of SealRead: a run that already stopped is answered with the       *)
(* reason its worker was given up for.                                      *)
SealReadOwnReason(c) ==
    LET h == history[run[c]]
        foreign == \E r \in Runs \ {run[c]} : Begun(history[r])
        usable  == ~corrupt /\ ~foreign
    IN  /\ parent[c] = "sealRead"
        /\ torn' = FALSE
        /\ IF usable /\ ~Stopped(h) /\ Contiguous(h)
           THEN /\ parent' = [parent EXCEPT ![c] = IF Begun(h) THEN "sealStop"
                                                   ELSE "sealStart"]
                /\ UNCHANGED <<lockVars, loss, report>>
           ELSE /\ IF usable /\ Stopped(h) THEN Answers(c, "lost", loss[c])
                   ELSE AnswersUnsealed(c)
                /\ SealUnlock(c)
        /\ UNCHANGED <<run, history, corrupt, cancel, workerVars, crashes>>

(* The rest of seal_lost_run, up to its first append.                       *)
SealRead(c) ==
    LET h == history[run[c]]
        foreign == \E r \in Runs \ {run[c]} : Begun(history[r])
    IN  /\ parent[c] = "sealRead"
        /\ torn' = FALSE
        /\ \/ /\ corrupt \/ foreign \/ (~Stopped(h) /\ ~Contiguous(h))
              /\ AnswersUnsealed(c)
              /\ SealUnlock(c)
           \/ /\ ~corrupt /\ ~foreign /\ Stopped(h)
              /\ Answers(c, "lost", StopReason(h))
              /\ SealUnlock(c)
           \/ /\ ~corrupt /\ ~foreign /\ ~Stopped(h) /\ Contiguous(h)
              /\ parent' = [parent EXCEPT ![c] = IF Begun(h) THEN "sealStop"
                                                 ELSE "sealStart"]
              /\ UNCHANGED <<lockVars, loss, report>>
        /\ UNCHANGED <<run, history, corrupt, cancel, workerVars, crashes>>

ParentAppends(c, kind, why) ==
    Write(run[c], Record(kind, "cli_parent", Len(history[run[c]]), why))

(* run_started for a worker that died before it logged anything.            *)
SealStart(c) ==
    /\ parent[c] = "sealStart"
    /\ ParentAppends(c, "run_started", "none")
    /\ parent' = [parent EXCEPT ![c] = "sealStop"]
    /\ UNCHANGED <<run, lockVars, cancel, workerVars, loss, report, crashes>>

SealStop(c) ==
    /\ parent[c] = "sealStop"
    /\ ParentAppends(c, "run_stopped", loss[c])
    /\ Answers(c, "document", loss[c])
    /\ SealUnlock(c)
    /\ UNCHANGED <<run, cancel, workerVars, crashes>>

(* The parent alone dies; its worker lives on, in its own session.          *)
ParentCrash(c) ==
    /\ crashes < MaxCrashes
    /\ parent[c] \notin {"done", "dead"}
    /\ crashes' = crashes + 1
    /\ parent' = [parent EXCEPT ![c] = "dead"]
    /\ writer' = IF writer = Parent(c) THEN Nobody ELSE writer
    /\ runLock' = [r \in Runs |-> IF runLock[r] = Parent(c) THEN Nobody
                                  ELSE runLock[r]]
    /\ torn' \in (IF parent[c] \in {"sealStart", "sealStop"} THEN {torn, TRUE}
                  ELSE {torn})
    /\ UNCHANGED <<run, history, corrupt, lockFile, cancel, workerVars, loss, report>>

-----------------------------------------------------------------------------
WorkerStep(p) ==
    \/ BuildSink(p) \/ Truncate(p) \/ TakeWriter(p) \/ TakeRunLock(p)
    \/ CheckFresh(p) \/ CheckResume(p)
    \/ LogStart(p) \/ LogInterrupted(p) \/ LogResumed(p)
    \/ Work(p) \/ Verdict(p) \/ LogStop(p)
    \/ ReleaseRun(p) \/ ReleaseWriter(p)

ParentStep(c) ==
    \/ Precheck(c) \/ Deliver(c) \/ LoseWorker(c) \/ KillWorker(c)
    \/ SealWriter(c) \/ SealRun(c) \/ SealRead(c) \/ SealStart(c) \/ SealStop(c)

Next == \/ \E p \in Workers : WorkerStep(p) \/ Crash(p)
        \/ \E c \in Cli : ParentStep(c) \/ ParentCrash(c)
        \/ \E r \in Runs : RequestCancel(r)

Spec == Init /\ [][Next]_vars

(* Fairness for the parents only: each of their steps is their own program, *)
(* a wait with a timeout or a retry that ends after 2 s.  Nothing is asked   *)
(* of the workers: a worker may hang.                                       *)
FairSpec == Spec /\ \A c \in Cli : WF_vars(ParentStep(c))

-----------------------------------------------------------------------------
(* Properties.                                                              *)

Actors == {Nobody} \cup {Worker(p) : p \in Workers} \cup {Parent(c) : c \in Cli}
Files  == [history : [Runs -> Seq(Event)], corrupt : BOOLEAN]

(* The variables have their types.                                          *)
TypeOK ==
    /\ run \in [Workers -> Runs]
    /\ history \in [Runs -> Seq(Event)] /\ torn \in BOOLEAN /\ corrupt \in BOOLEAN
    /\ writer \in Actors /\ runLock \in [Runs -> Actors] /\ lockFile \subseteq Runs
    /\ cancel \subseteq Runs
    /\ pc \in [Workers -> WorkerPcs] /\ next \in [Workers -> Nat]
    /\ result \in [Workers -> WorkerReasons \cup {"none", "raised"}]
    /\ read \in [Workers -> Files]
    /\ parent \in [Cli -> ParentPcs]
    /\ loss \in [Cli -> LossReasons \cup {"none"}]
    /\ report \in [Cli -> [kind : ReportKinds,
                           reason : WorkerReasons \cup LossReasons \cup {"none"},
                           marked : BOOLEAN]]
    /\ crashes \in 0 .. MaxCrashes

(* Who may append next, and to which run: one process, which holds the      *)
(* log's writer lock and that run's lock.  Two processes that interleave    *)
(* appends give two records one sequence number.                            *)
OneWriter ==
    /\ \A p \in Workers : pc[p] \in WritingPcs =>
          /\ runLock[run[p]] = Worker(p)
          /\ \A q \in Workers : pc[q] \in WritingPcs => p = q
          /\ \A c \in Cli : parent[c] \notin SealingPcs
    /\ \A c, d \in Cli : parent[c] \in SealingPcs /\ parent[d] \in SealingPcs => c = d

(* Every history of a readable file is one inspect accepts, whatever dies   *)
(* or is killed, is sealed by a parent or resumed, and in whatever order.   *)
HistoryValid == ~corrupt => \A r \in Runs : ValidHistory(history[r])

(* A worker that may still append is on a run that has not stopped: no      *)
(* run is sealed under a live worker or resumed after its stop.             *)
NoLifeAfterStop ==
    ~corrupt => \A p \in Workers : pc[p] \in WritingPcs => ~Stopped(history[run[p]])

(* A parent that prints a run document without a mark, or says that the     *)
(* result was lost, names the reason the log holds for the run, for good.   *)
(* Where it could not seal the log its document is marked and gives the     *)
(* reason it gave the worker up for, never a verdict of the worker's.       *)
ReportAgreesWithLog ==
    \A c \in Cli :
        /\ ~corrupt /\ report[c].kind \in {"document", "lost"} /\ ~report[c].marked =>
              /\ Stopped(history[run[c]])
              /\ StopReason(history[run[c]]) = report[c].reason
        /\ report[c].marked => /\ report[c].kind = "document"
                               /\ report[c].reason = loss[c]
                               /\ loss[c] \in LossReasons

(* What a reader can see: every history, until the file stops parsing.      *)
Readable == INSTANCE RunHistory WITH
                hist <- IF corrupt THEN [r \in Runs |-> <<>>] ELSE history,
                readable <- ~corrupt
AppendOnly == Readable!Spec

(* A CLI run is recorded only in a file that holds no other run, though the *)
(* look that makes sure of it and the append are steps apart.               *)
CliStartsEmptyLog ==
    [][\A c \in Cli : LogStart(c) \/ SealStart(c) =>
          \A r \in Runs : ~Begun(history[r])]_vars

(* `atlas run` answers: whatever its worker does, the parent ends with a    *)
(* document, a refusal or an error, or is itself killed.                    *)
CliAnswers == \A c \in Cli : (parent[c] = "waiting") ~> (parent[c] \in {"done", "dead"})

(* docs/api-contract.md: "Nothing rewrites an event": what a file holds of  *)
(* a run, it holds for good.                                                *)
NothingRewritten ==
    [][\A r \in Runs : /\ Len(history[r]) <= Len(history'[r])
                       /\ SubSeq(history'[r], 1, Len(history[r])) = history[r]]_vars
=============================================================================
