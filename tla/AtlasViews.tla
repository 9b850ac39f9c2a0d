------------------------------ MODULE AtlasViews ------------------------------
(***************************************************************************)
(* The hosts that watch a run from outside, beside the processes of         *)
(* AtlasHost: `atlas status`, `atlas cancel` and `atlas events --follow`.   *)
(*                                                                          *)
(* None of them takes the writer lock, and each answer is put together from *)
(* reads made at different moments: a probe of the run's flock, which is    *)
(* itself a lock for an instant, then one or two reads of the log.  A       *)
(* viewer asks once.                                                        *)
(***************************************************************************)
EXTENDS AtlasHost

CONSTANT Viewers

VARIABLES view,     (* where viewer v is                                     *)
          op,       (* what it asks                                          *)
          about,    (* the run it asks about                                 *)
          alive,    (* what its last probe found                             *)
          records,  (* the run's records, as its last read found them        *)
          yielded,  (* what a follower has printed                           *)
          answer,
          seen      (* history variable: the states its run has really been  *)
                    (* in since the viewer asked                             *)

viewVars == <<view, op, about, alive, records, yielded, answer, seen>>
allVars  == <<vars, viewVars>>

ASSUME ViewersAssumption == Viewers \cap Workers = {}

-----------------------------------------------------------------------------
Viewer(v) == <<"viewer", v>>
Probing   == {Viewer(v) : v \in Viewers}
States    == {"not_found", "running", "finished", "interrupted"}

(* "running means a process holds the run's lock; a history with no stop    *)
(* and no held lock is interrupted."  A probe is not such a process.        *)
StateOf(h, holder) ==
    LET held == holder \notin Probing \cup {Nobody}
    IN  CASE Stopped(h)            -> "finished"
          [] ~Stopped(h) /\ held   -> "running"
          [] Open(h) /\ ~held      -> "interrupted"
          [] ~Begun(h) /\ ~held    -> "not_found"

ViewInit ==
    /\ Init
    /\ view = [v \in Viewers |-> "idle"]
    /\ op = [v \in Viewers |-> "none"]
    /\ about \in [Viewers -> Runs]
    /\ alive = [v \in Viewers |-> FALSE]
    /\ records = [v \in Viewers |-> <<>>]
    /\ yielded = [v \in Viewers |-> <<>>]
    /\ answer = [v \in Viewers |-> "none"]
    /\ seen = [v \in Viewers |-> {}]

(* Every viewer whose question is open sees the state this step starts in.  *)
Witness == seen' = [v \in Viewers |-> IF view[v] \in {"idle", "done"} THEN seen[v]
                        ELSE seen[v] \cup {StateOf(history[about[v]], runLock[about[v]])}]

HostStep == Next /\ Witness
            /\ UNCHANGED <<view, op, about, alive, records, yielded, answer>>

-----------------------------------------------------------------------------
At(v, from, to) == view[v] = from /\ view' = [view EXCEPT ![v] = to]

Says(v, what) == answer' = [answer EXCEPT ![v] = what]

Ask(v) ==
    /\ At(v, "idle", "probe")
    /\ \E o \in {"status", "cancel", "follow"} : op' = [op EXCEPT ![v] = o]
    /\ Witness
    /\ UNCHANGED <<vars, about, alive, records, yielded, answer>>

(* is_locked: no lock file, a lock someone holds, or one it takes.          *)
ProbeLock(v) ==
    LET r == about[v]
    IN  /\ \/ /\ r \notin lockFile
              /\ At(v, "probe", "read")
              /\ alive' = [alive EXCEPT ![v] = FALSE]
              /\ UNCHANGED runLock
           \/ /\ r \in lockFile /\ runLock[r] # Nobody
              /\ At(v, "probe", "read")
              /\ alive' = [alive EXCEPT ![v] = TRUE]
              /\ UNCHANGED runLock
           \/ /\ r \in lockFile /\ runLock[r] = Nobody
              /\ At(v, "probe", "holding")
              /\ runLock' = [runLock EXCEPT ![r] = Viewer(v)]
              /\ UNCHANGED alive
        /\ Witness
        /\ UNCHANGED <<run, fileVars, writer, lockFile, cancel, workerVars, parentVars,
                       crashes, op, about, records, yielded, answer>>

Unprobe(v) ==
    /\ At(v, "holding", "read")
    /\ runLock' = [runLock EXCEPT ![about[v]] = Nobody]
    /\ alive' = [alive EXCEPT ![v] = FALSE]
    /\ Witness
    /\ UNCHANGED <<run, fileVars, writer, lockFile, cancel, workerVars, parentVars,
                   crashes, op, about, records, yielded, answer>>

ViewerKeeps == UNCHANGED <<vars, op, about>>

(* _records; read_jsonl raises on a corrupt file.                           *)
ReadLog(v) ==
    /\ IF corrupt
       THEN At(v, "read", "done") /\ Says(v, "error") /\ UNCHANGED records
       ELSE /\ At(v, "read", IF op[v] = "follow" THEN "yield" ELSE "inspect")
            /\ records' = [records EXCEPT ![v] = history[about[v]]]
            /\ UNCHANGED answer
    /\ Witness /\ ViewerKeeps
    /\ UNCHANGED <<alive, yielded>>

(* Mutant of Inspect: the log is read first and the lock probed after it.    *)
InspectThenProbe(v) ==
    LET h == records[v]
        live == runLock[about[v]] # Nobody
        state == CASE ~Begun(h)  -> IF live THEN "running" ELSE "not_found"
                   [] Stopped(h) -> "finished"
                   [] Open(h)    -> IF live THEN "running" ELSE "interrupted"
        asks == op[v] = "cancel" /\ state \notin {"finished", "interrupted"}
    IN  /\ At(v, "inspect", IF asks THEN "touch" ELSE "done") /\ Says(v, state)
        /\ Witness /\ ViewerKeeps
        /\ UNCHANGED <<alive, records, yielded>>

(* The rest of run_status: inspect_run reads the log again, validates it,   *)
(* and tells finished from not; `cancel` answers exit 2 on a run that is    *)
(* over.                                                                    *)
Inspect(v) ==
    LET h == history[about[v]]
        found == Begun(records[v])
        state == CASE ~found -> IF alive[v] THEN "running" ELSE "not_found"
                   [] found /\ Stopped(h) -> "finished"
                   [] found /\ ~Stopped(h) -> IF alive[v] THEN "running"
                                              ELSE "interrupted"
        asks == op[v] = "cancel" /\ state \notin {"finished", "interrupted"}
    IN  /\ IF found /\ (corrupt \/ ~ValidHistory(h))
           THEN At(v, "inspect", "done") /\ Says(v, "error")
           ELSE At(v, "inspect", IF asks THEN "touch" ELSE "done") /\ Says(v, state)
        /\ Witness /\ ViewerKeeps
        /\ UNCHANGED <<alive, records, yielded>>

(* request_cancel.                                                          *)
TouchMarker(v) ==
    /\ At(v, "touch", "done")
    /\ cancel' = cancel \cup {about[v]}
    /\ Says(v, "cancel_requested")
    /\ Witness
    /\ UNCHANGED <<run, fileVars, lockVars, workerVars, parentVars, crashes,
                   op, about, alive, records, yielded>>

(* Mutant of YieldRecord: each poll prints the newest record.                *)
YieldNewest(v) ==
    LET last == records[v][Len(records[v])]
    IN  /\ Len(yielded[v]) < Len(records[v])
        /\ yielded' = [yielded EXCEPT ![v] = Append(@, last)]
        /\ IF last.kind = "run_stopped"
           THEN At(v, "yield", "done") /\ Says(v, "stopped")
           ELSE At(v, "yield", "yield") /\ UNCHANGED answer
        /\ Witness /\ ViewerKeeps
        /\ UNCHANGED <<alive, records>>

(* follow_events: one record, and the end with run_stopped.                 *)
YieldRecord(v) ==
    LET n == Len(yielded[v]) + 1
    IN  /\ n <= Len(records[v])
        /\ yielded' = [yielded EXCEPT ![v] = Append(@, records[v][n])]
        /\ IF records[v][n].kind = "run_stopped"
           THEN At(v, "yield", "done") /\ Says(v, "stopped")
           ELSE At(v, "yield", "yield") /\ UNCHANGED answer
        /\ Witness /\ ViewerKeeps
        /\ UNCHANGED <<alive, records>>

(* All records read are printed: the run is gone, the deadline has passed,  *)
(* or the follower polls again.                                             *)
EndOfRecords(v) ==
    /\ Len(yielded[v]) >= Len(records[v])
    /\ \/ /\ Begun(records[v]) /\ ~alive[v] /\ about[v] \in lockFile
          /\ At(v, "yield", "done") /\ Says(v, "interrupted")
       \/ /\ ~(Begun(records[v]) /\ ~alive[v] /\ about[v] \in lockFile)
          /\ At(v, "yield", "done") /\ Says(v, "timed_out")
       \/ /\ ~(Begun(records[v]) /\ ~alive[v] /\ about[v] \in lockFile)
          /\ At(v, "yield", "probe") /\ UNCHANGED answer
    /\ Witness /\ ViewerKeeps
    /\ UNCHANGED <<alive, records, yielded>>

ViewStep(v) == \/ Ask(v) \/ ProbeLock(v) \/ Unprobe(v) \/ ReadLog(v)
               \/ Inspect(v) \/ TouchMarker(v) \/ YieldRecord(v) \/ EndOfRecords(v)

ViewNext == HostStep \/ \E v \in Viewers : ViewStep(v)

ViewSpec == ViewInit /\ [][ViewNext]_allVars

-----------------------------------------------------------------------------
(* Properties.                                                              *)

(* run_status, cancel and follow say "finished" or "not_found" only of a     *)
(* run that was that at some moment of the query, and never say             *)
(* "interrupted" of one that ran or had finished all the while: "a run that *)
(* stops between the two reads is then seen as stopped, never as            *)
(* interrupted".                                                            *)
StoppingIsNotInterrupted ==
    \A v \in Viewers :
        /\ answer[v] = "interrupted" => ~(seen[v] \subseteq {"running", "finished"})
        /\ answer[v] \in {"finished", "not_found"} => answer[v] \in seen[v]

(* A follower prints a run's records once each, in order and without a gap, *)
(* over however many polls, and one that ends normally has printed them all.*)
FollowerMissesNothing ==
    \A v \in Viewers :
        ~corrupt =>
            /\ Len(yielded[v]) <= Len(history[about[v]])
            /\ yielded[v] = SubSeq(history[about[v]], 1, Len(yielded[v]))
            /\ answer[v] = "stopped" => yielded[v] = history[about[v]]
=============================================================================
