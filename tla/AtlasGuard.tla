------------------------------ MODULE AtlasGuard ------------------------------
(***************************************************************************)
(* The three places at which a parent runs work in a process of its own and *)
(* bounds it: run_bounded_process, under every CLI run, run_isolated, for   *)
(* the Python API, and ToolGateway._run_isolated, for one call of a tool.   *)
(* The worker leads a session of its own and may start another process in   *)
(* it, which may keep the worker's pipes open when the worker has ended.    *)
(* Either may end, write or stop making progress at any point.              *)
(***************************************************************************)
EXTENDS Integers, FiniteSets

CONSTANTS Cap,          (* stdout_limit, stderr_limit, maxlength             *)
          Block,        (* the most one read returns                         *)
          MaxWrite      (* bound: how much is written to a pipe              *)

ASSUME GuardAssumption ==
    /\ Cap \in Nat \ {0} /\ Block \in Nat \ {0} /\ MaxWrite \in Nat

Boundaries == {"run_bounded_process", "run_isolated", "isolated_process"}
Pipes      == {"stdout", "stderr", "channel"}
Outcomes   == {"none", "result", "deadline", "output", "cancelled", "failed", "exited",
               "interrupted"}

VARIABLES boundary,     (* which of the three this is                        *)
          (* the session                                                     *)
          worker,       (* "starting" until it leads a session               *)
          child,        (* what the worker started in its session: "early"   *)
                        (* before the parent gave up, or "late"              *)
          writers,      (* writers[s]: who holds the write end of s          *)
          wrote,        (* wrote[s]: what went into s                        *)
          size, kind,   (* of the one message of a channel, once it is begun *)
          (* the world                                                       *)
          late, cancel,
          (* the parent                                                      *)
          pc, open, ready, got, outcome

sessionVars == <<worker, child, writers, wrote, size, kind>>
worldVars   == <<late, cancel>>
parentVars  == <<pc, open, ready, got, outcome>>
vars == <<boundary, sessionVars, worldVars, parentVars>>

Streams == IF boundary = "run_bounded_process" THEN {"stdout", "stderr"} ELSE {"channel"}

Init ==
    /\ boundary \in Boundaries
    /\ worker = "none" /\ child = "none"
    /\ writers = [s \in Pipes |-> {}] /\ wrote = [s \in Pipes |-> 0]
    /\ size = 0 /\ kind = "none"
    /\ late = FALSE /\ cancel = FALSE
    /\ pc = "start" /\ open = {} /\ ready = {} /\ got = [s \in Pipes |-> 0]
    /\ outcome = "none"

-----------------------------------------------------------------------------
(* The world: the deadline passes, and the host asks for an end.            *)

TimePasses ==
    /\ ~late /\ late' = TRUE
    /\ UNCHANGED <<boundary, sessionVars, cancel, parentVars>>

AskCancel ==
    /\ boundary = "run_isolated" /\ ~cancel /\ cancel' = TRUE
    /\ UNCHANGED <<boundary, sessionVars, late, parentVars>>

-----------------------------------------------------------------------------
(* The session.  None of it is bound to happen.                             *)

Alive(x) == \/ x = "worker" /\ worker \in {"starting", "up"}
            \/ x = "child" /\ child \in {"early", "late"}

(* The parent has given up, and is about to kill or in the middle of it.    *)
Killing == pc \in {"check", "group", "reap"}

(* os.setsid in _run_worker and _isolated_worker.                           *)
LeadSession ==
    /\ worker = "starting" /\ worker' = "up"
    /\ UNCHANGED <<boundary, child, writers, wrote, size, kind, worldVars, parentVars>>

Fork ==
    /\ worker = "up" /\ child = "none"
    /\ child' = IF Killing THEN "late" ELSE "early"
    /\ \E keeps \in SUBSET {s \in Streams : "worker" \in writers[s]} :
          writers' = [s \in Pipes |-> IF s \in keeps THEN writers[s] \cup {"child"}
                                      ELSE writers[s]]
    /\ UNCHANGED <<boundary, worker, wrote, size, kind, worldVars, parentVars>>

(* Whoever holds a standard stream writes to it.                            *)
Write(s) ==
    /\ s # "channel" /\ writers[s] # {} /\ wrote[s] < MaxWrite
    /\ wrote' = [wrote EXCEPT ![s] = @ + 1]
    /\ UNCHANGED <<boundary, worker, child, writers, size, kind, worldVars, parentVars>>

(* channel.send_bytes: a run document or a tool's result, or what is not.   *)
BeginSend ==
    /\ worker = "up" /\ "worker" \in writers["channel"] /\ size = 0
    /\ size' \in 1 .. MaxWrite
    /\ kind' \in {"run", "other"}
    /\ wrote' = [wrote EXCEPT !["channel"] = 1]
    /\ UNCHANGED <<boundary, worker, child, writers, worldVars, parentVars>>

SendMore ==
    /\ "worker" \in writers["channel"] /\ wrote["channel"] < size
    /\ wrote' = [wrote EXCEPT !["channel"] = @ + 1]
    /\ UNCHANGED <<boundary, worker, child, writers, size, kind, worldVars, parentVars>>

(* channel.close comes after the message, or instead of it.                 *)
Close(x, s) ==
    /\ x \in writers[s]
    /\ x = "worker" /\ s = "channel" => worker = "up" /\ wrote[s] = size
    /\ writers' = [writers EXCEPT ![s] = @ \ {x}]
    /\ UNCHANGED <<boundary, worker, child, wrote, size, kind, worldVars, parentVars>>

Dies(x) ==
    /\ Alive(x)
    /\ worker' = IF x = "worker" THEN "ended" ELSE worker
    /\ child' = IF x = "child" THEN "ended" ELSE child
    /\ writers' = [s \in Pipes |-> writers[s] \ {x}]
    /\ UNCHANGED <<boundary, wrote, size, kind, worldVars, parentVars>>

SessionStep == \/ LeadSession \/ Fork \/ BeginSend \/ SendMore
               \/ \E s \in Streams : Write(s) \/ \E x \in {"worker", "child"} : Close(x, s)
               \/ \E x \in {"worker", "child"} : Dies(x)

-----------------------------------------------------------------------------
(* The parent.                                                              *)

(* Popen starts the session itself; a Process leads it once it runs.  When  *)
(* the start fails there is nothing to kill.                                *)
Launch ==
    /\ pc = "start"
    /\ \/ /\ worker' = IF boundary = "run_bounded_process" THEN "up" ELSE "starting"
          /\ writers' = [s \in Pipes |-> IF s \in Streams THEN {"worker"} ELSE {}]
          /\ open' = Streams
          /\ pc' = IF boundary = "isolated_process" THEN "poll" ELSE "loop"
          /\ UNCHANGED outcome
       \/ /\ pc' = "done" /\ outcome' = "failed"
          /\ UNCHANGED <<worker, writers, open>>
    /\ UNCHANGED <<boundary, child, wrote, size, kind, worldVars, ready, got>>

(* The work ends here: what is left of the session is dealt with.           *)
GiveUp(o) ==
    /\ pc' = IF boundary = "isolated_process" THEN "check" ELSE "group"
    /\ outcome' = o

Readable(s) == wrote[s] > got[s] \/ writers[s] = {}

(* run_bounded_process.  The deadline is looked at before every wait.       *)
Guarding(at) == boundary = "run_bounded_process" /\ pc = at

(* Mutant of Loop: a worker that has ended has nothing more to say.          *)
LoopUntilItEnds ==
    /\ Guarding("loop")
    /\ \/ late /\ GiveUp("deadline")
       \/ ~late /\ pc' = (IF open = {} \/ worker = "ended" THEN "wait" ELSE "select")
          /\ UNCHANGED outcome
    /\ UNCHANGED <<boundary, sessionVars, worldVars, open, ready, got>>

Loop ==
    /\ Guarding("loop")
    /\ \/ late /\ GiveUp("deadline")
       \/ ~late /\ pc' = (IF open = {} THEN "wait" ELSE "select") /\ UNCHANGED outcome
    /\ UNCHANGED <<boundary, sessionVars, worldVars, open, ready, got>>

(* Mutant of Select: it waits without a timeout.                             *)
SelectForever ==
    /\ Guarding("select")
    /\ ready' = {s \in open : Readable(s)} /\ ready' # {}
    /\ pc' = "read"
    /\ UNCHANGED <<boundary, sessionVars, worldVars, open, got, outcome>>

(* selector.select(remaining).                                              *)
Select ==
    /\ Guarding("select")
    /\ ready' = {s \in open : Readable(s)}
    /\ \/ ready' # {} /\ pc' = "read"
       \/ ready' = {} /\ late /\ pc' = "loop"
    /\ UNCHANGED <<boundary, sessionVars, worldVars, open, got, outcome>>

Least(S) == CHOOSE n \in S : \A m \in S : n <= m

(* At most one unit past the cap is ever read.                              *)
ReadOne(s) ==
    LET block == Least({Block, Cap - got[s] + 1, wrote[s] - got[s]})
    IN  /\ Guarding("read") /\ s \in ready
        /\ ready' = ready \ {s}
        /\ got' = [got EXCEPT ![s] = @ + block]
        /\ open' = IF block = 0 THEN open \ {s} ELSE open
        /\ IF got'[s] > Cap THEN GiveUp("output")
           ELSE pc' = (IF ready' = {} THEN "loop" ELSE "read") /\ UNCHANGED outcome
        /\ UNCHANGED <<boundary, sessionVars, worldVars>>

(* process.wait(timeout=remaining).                                         *)
Wait ==
    /\ Guarding("wait")
    /\ \/ worker = "ended" /\ pc' = "done" /\ outcome' = "result"
       \/ late /\ GiveUp("deadline")
    /\ UNCHANGED <<boundary, sessionVars, worldVars, open, ready, got>>

(* A signal in any of the three: every exception passes through the same    *)
(* handler.                                                                 *)
Interrupt ==
    /\ pc \notin {"start", "done"} /\ ~Killing
    /\ GiveUp("interrupted")
    /\ UNCHANGED <<boundary, sessionVars, worldVars, open, ready, got>>

(* run_isolated: is it cancelled, is it late, is there an answer, and has   *)
(* the worker ended, in this order and one after the other.                 *)
Isolating(at) == boundary = "run_isolated" /\ pc = at

CheckCancelled ==
    /\ Isolating("loop")
    /\ \/ cancel /\ GiveUp("cancelled")
       \/ ~cancel /\ pc' = "clock" /\ UNCHANGED outcome
    /\ UNCHANGED <<boundary, sessionVars, worldVars, open, ready, got>>

CheckClock ==
    /\ Isolating("clock")
    /\ \/ late /\ GiveUp("deadline")
       \/ ~late /\ pc' = "poll" /\ UNCHANGED outcome
    /\ UNCHANGED <<boundary, sessionVars, worldVars, open, ready, got>>

(* receive.poll(0.05).                                                      *)
Poll ==
    /\ Isolating("poll")
    /\ pc' = IF Readable("channel") THEN "recv" ELSE "exited"
    /\ UNCHANGED <<boundary, sessionVars, worldVars, open, ready, got, outcome>>

CheckExited ==
    /\ Isolating("exited")
    /\ \/ worker = "ended" /\ GiveUp("exited")
       \/ worker # "ended" /\ pc' = "loop" /\ UNCHANGED outcome
    /\ UNCHANGED <<boundary, sessionVars, worldVars, open, ready, got>>

(* ToolGateway._run_isolated waits once, for all the time there is.         *)
PollTool ==
    /\ boundary = "isolated_process" /\ pc = "poll"
    /\ \/ Readable("channel") /\ pc' = "recv" /\ UNCHANGED outcome
       \/ late /\ GiveUp("deadline")
    /\ UNCHANGED <<boundary, sessionVars, worldVars, open, ready, got>>

(* recv_bytes, in both: a message above the cap is refused by its length,   *)
(* the rest of one is waited for, and what is not a verified document is    *)
(* a failure.                                                               *)
Receive ==
    /\ pc = "recv"
    /\ \/ /\ size > Cap \/ (wrote["channel"] = size /\ kind # "run")
             \/ (writers["channel"] = {} /\ wrote["channel"] < size)
          /\ GiveUp("failed")
       \/ /\ size \in 1 .. Cap /\ wrote["channel"] = size /\ kind = "run"
          /\ GiveUp("result")
    /\ UNCHANGED <<boundary, sessionVars, worldVars, open, ready, got>>

(* ToolGateway._run_isolated kills only when the worker itself is alive.    *)
CheckWorker ==
    /\ pc = "check"
    /\ pc' = IF Alive("worker") THEN "group" ELSE "done"
    /\ UNCHANGED <<boundary, sessionVars, worldVars, open, ready, got, outcome>>

(* Mutant of KillGroup: the worker is killed, and it alone.                  *)
KillWorkerOnly ==
    /\ pc = "group" /\ pc' = "reap"
    /\ UNCHANGED <<boundary, sessionVars, worldVars, open, ready, got, outcome>>

(* os.killpg: all of the session, if the worker leads one; before it does,  *)
(* there is no such group, and ProcessLookupError is passed over.           *)
KillGroup ==
    /\ pc = "group" /\ pc' = "reap"
    /\ \/ /\ worker = "starting"
          /\ UNCHANGED <<worker, child, writers>>
       \/ /\ worker # "starting"
          /\ worker' = "ended"
          /\ child' = IF Alive("child") THEN "ended" ELSE child
          /\ writers' = [s \in Pipes |-> {}]
    /\ UNCHANGED <<boundary, wrote, size, kind, worldVars, open, ready, got, outcome>>

(* Then the worker for itself, if it is still alive, and it is waited for.  *)
KillWorker ==
    /\ pc = "reap" /\ pc' = "done"
    /\ worker' = "ended"
    /\ writers' = [s \in Pipes |-> writers[s] \ {"worker"}]
    /\ UNCHANGED <<boundary, child, wrote, size, kind, worldVars, open, ready, got, outcome>>

ParentStep == \/ Launch \/ Loop \/ Select \/ (\E s \in Pipes : ReadOne(s)) \/ Wait
              \/ CheckCancelled \/ CheckClock \/ Poll \/ CheckExited \/ PollTool \/ Receive
              \/ CheckWorker \/ KillGroup \/ KillWorker

Next == ParentStep \/ Interrupt \/ SessionStep \/ TimePasses \/ AskCancel

Spec == Init /\ [][Next]_vars

(* The parent is scheduled and time passes; nothing is asked of the rest.   *)
FairSpec == Spec /\ WF_vars(ParentStep) /\ WF_vars(TimePasses)

-----------------------------------------------------------------------------
(* Properties.                                                              *)

PCs == {"start", "loop", "select", "read", "wait", "clock", "poll", "exited", "recv",
        "check", "group", "reap", "done"}

(* The variables have their types.                                          *)
TypeOK ==
    /\ boundary \in Boundaries
    /\ worker \in {"none", "starting", "up", "ended"}
    /\ child \in {"none", "early", "late", "ended"}
    /\ writers \in [Pipes -> SUBSET {"worker", "child"}]
    /\ wrote \in [Pipes -> Nat] /\ got \in [Pipes -> Nat]
    /\ size \in Nat /\ kind \in {"none", "run", "other"}
    /\ late \in BOOLEAN /\ cancel \in BOOLEAN
    /\ pc \in PCs /\ open \in SUBSET Pipes /\ ready \in SUBSET Pipes
    /\ outcome \in Outcomes

(* The worker is gone when the parent is done with it, and so is what it    *)
(* started before the parent gave up, where a group is killed at all.       *)
(* run_bounded_process, whose worker leads its session from the start, also *)
(* leaves nothing that is started while it kills; run_isolated may, but     *)
(* only where the worker had not yet answered or ended: an answer, a        *)
(* failure of the worker's or its exit leaves nothing.                      *)
(* (docs/safety-model.md:103-104 has it that the whole group is killed on    *)
(* timeout or abort as well; isolation.py:58-64 does less.)                 *)
NothingLeftBehind ==
    pc = "done" =>
        /\ ~Alive("worker")
        /\ boundary = "run_bounded_process" /\ outcome # "result" => ~Alive("child")
        /\ boundary = "run_isolated" /\ Alive("child") =>
              child = "late" /\ outcome \in {"deadline", "cancelled", "interrupted"}

(* A result is all that was written, by anyone who held a stream, and within *)
(* its cap; the parent never holds more than one unit above a cap.  Over a  *)
(* channel it is a whole message, and a verified document.                  *)
AnswerIsWhole ==
    /\ \A s \in Pipes : got[s] <= Cap + 1
    /\ outcome = "result" =>
          IF boundary = "run_bounded_process"
          THEN \A s \in Streams : writers[s] = {} /\ got[s] = wrote[s] /\ got[s] <= Cap
          ELSE wrote["channel"] = size /\ size \in 1 .. Cap /\ kind = "run"

(* The rest of a message that was begun is waited for without a deadline.   *)
AwaitsTheRest ==
    /\ pc = "recv"
    /\ size <= Cap /\ wrote["channel"] < size /\ writers["channel"] # {}

(* The deadline is the parent's: it answers though the worker and what the  *)
(* worker started hang, unless it awaits the rest of a message.             *)
ParentAnswers == <>[](pc = "done" \/ AwaitsTheRest)
=============================================================================
