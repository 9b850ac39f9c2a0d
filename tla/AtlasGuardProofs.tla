--------------------------- MODULE AtlasGuardProofs ---------------------------
(***************************************************************************)
(* Whatever the worker and its descendants do, and for every cap, block and *)
(* amount of output: what a parent leaves behind, and what it takes for a   *)
(* result.                                                                  *)
(***************************************************************************)
EXTENDS AtlasGuard, TLAPS

(* Before the launch there is nothing.                                      *)
Fresh ==
    pc = "start" => worker = "none" /\ child = "none" /\ outcome = "none" /\ size = 0

(* What was read is at most what was written, and within the cap until the  *)
(* parent gives up.                                                         *)
Counts ==
    /\ size = 0 => wrote["channel"] = 0
    /\ \A s \in Pipes :
          /\ got[s] <= wrote[s]
          /\ got[s] <= Cap + 1
          /\ (~Killing /\ pc # "done") \/ outcome = "result" => got[s] <= Cap

(* A stream that is not read from any more was read to its end, and one     *)
(* that select returned has something to read, or its end.                  *)
Drained ==
    boundary = "run_bounded_process" =>
        /\ \A s \in {"stdout", "stderr"} : s \notin open => writers[s] = {} /\ got[s] = wrote[s]
        /\ pc = "read" => \A s \in ready : Readable(s)
        /\ pc = "wait" \/ outcome = "result" => open = {}

(* A result is there once the parent has given up or is done, and over a    *)
(* channel it is the message that was sent.                                 *)
Concluded ==
    /\ pc = "recv" => boundary # "run_bounded_process"
    /\ outcome = "result" => Killing \/ pc = "done"
    /\ Killing => outcome # "none"
    /\ pc = "check" => boundary = "isolated_process"
    /\ outcome = "result" /\ boundary # "run_bounded_process" =>
          wrote["channel"] = size /\ size \in 1 .. Cap /\ kind = "run"

(* What ended the work may be something else than the worker.               *)
Unasked == {"deadline", "cancelled", "interrupted"}

(* A worker that does not lead its session yet has started nothing and has  *)
(* sent nothing, so that the parent cannot have been answered by it.        *)
Starting ==
    worker = "starting" =>
        /\ boundary # "run_bounded_process" /\ child = "none"
        /\ size = 0 /\ "worker" \in writers["channel"] /\ pc # "recv"
        /\ outcome \in {"none"} \cup Unasked

(* After killpg, what is left of the session was started since.             *)
Spared ==
    pc = "reap" =>
        /\ boundary = "run_bounded_process" => worker # "up" /\ ~Alive("child")
        /\ boundary = "run_isolated" /\ Alive("child") => child = "late" /\ outcome \in Unasked
        /\ boundary = "run_isolated" /\ worker = "up" => outcome \in Unasked

IInv == /\ TypeOK /\ Fresh /\ NothingLeftBehind /\ Counts /\ Drained /\ Concluded
        /\ Starting /\ Spared

USE DEF Boundaries, Pipes, Outcomes, PCs, Killing, Unasked,
        sessionVars, worldVars, parentVars, vars

-----------------------------------------------------------------------------
(* Least is the least of three numbers: what one read asks for.             *)
LEMMA LeastOfThree ==
    ASSUME NEW a \in Int, NEW b \in Int, NEW c \in Int
    PROVE  /\ Least({a, b, c}) \in {a, b, c}
           /\ Least({a, b, c}) <= a /\ Least({a, b, c}) <= b /\ Least({a, b, c}) <= c
<1>1. \E n \in {a, b, c} : \A m \in {a, b, c} : n <= m
    <2>1. CASE a <= b /\ a <= c  BY <2>1
    <2>2. CASE b <= a /\ b <= c  BY <2>2
    <2>3. CASE c <= a /\ c <= b  BY <2>3
    <2>4. QED  BY <2>1, <2>2, <2>3
<1>2. PICK k \in {a, b, c} : k = Least({a, b, c}) /\ \A m \in {a, b, c} : k <= m
    BY <1>1 DEF Least
<1>3. QED  BY <1>2

(* The initial state satisfies the invariant.                               *)
LEMMA Initially == Init => IInv
<1> SUFFICES ASSUME Init PROVE IInv
    OBVIOUS
<1> USE GuardAssumption DEF Init
<1>1. TypeOK             BY DEF TypeOK
<1>2. Fresh              BY DEF Fresh
<1>3. NothingLeftBehind  BY DEF NothingLeftBehind
<1>4. Counts             BY DEF Counts
<1>5. Drained            BY DEF Drained
<1>6. Concluded          BY DEF Concluded
<1>7. Starting /\ Spared  BY DEF Starting, Spared
<1>8. QED  BY <1>1, <1>2, <1>3, <1>4, <1>5, <1>6, <1>7 DEF IInv

(* What the worker and its child do cannot disturb what the parent knows.   *)
LEMMA SessionSteps == IInv /\ SessionStep => IInv'
<1> SUFFICES ASSUME IInv, SessionStep PROVE IInv'
    OBVIOUS
<1> USE GuardAssumption
    DEF IInv, TypeOK, Fresh, NothingLeftBehind, Counts, Drained, Concluded, Starting, Spared,
        Alive, Streams, Readable
<1>1. CASE LeadSession  BY <1>1 DEF LeadSession
<1>2. CASE Fork
    <2>1. TypeOK'  BY <1>2 DEF Fork
    <2>2. Fresh'  BY <1>2 DEF Fork
    <2>3. NothingLeftBehind'  BY <1>2 DEF Fork
    <2>4. Counts'  BY <1>2 DEF Fork
    <2>5. Drained'  BY <1>2 DEF Fork
    <2>6. Concluded'  BY <1>2 DEF Fork
    <2>7. Starting' /\ Spared'  BY <1>2 DEF Fork
    <2>8. QED  BY <2>1, <2>2, <2>3, <2>4, <2>5, <2>6, <2>7
<1>3. CASE BeginSend
    <2>1. TypeOK'  BY <1>3 DEF BeginSend
    <2>2. Fresh'  BY <1>3 DEF BeginSend
    <2>3. NothingLeftBehind'  BY <1>3 DEF BeginSend
    <2>4. Counts'  BY <1>3 DEF BeginSend
    <2>5. Drained'  BY <1>3 DEF BeginSend
    <2>6. Concluded'  BY <1>3 DEF BeginSend
    <2>7. Starting' /\ Spared'  BY <1>3 DEF BeginSend
    <2>8. QED  BY <2>1, <2>2, <2>3, <2>4, <2>5, <2>6, <2>7
<1>4. CASE SendMore     BY <1>4 DEF SendMore
<1>5. ASSUME NEW s \in Streams, Write(s) PROVE IInv'
    BY <1>5 DEF Write
<1>6. ASSUME NEW s \in Streams, NEW x \in {"worker", "child"}, Close(x, s) PROVE IInv'
    BY <1>6 DEF Close
<1>7. ASSUME NEW x \in {"worker", "child"}, Dies(x) PROVE IInv'
    BY <1>7 DEF Dies
<1>8. QED  BY <1>1, <1>2, <1>3, <1>4, <1>5, <1>6, <1>7 DEF SessionStep

(* The parent's steps keep it too.                                          *)
LEMMA ParentSteps == IInv /\ (ParentStep \/ Interrupt) => IInv'
<1> SUFFICES ASSUME IInv, ParentStep \/ Interrupt PROVE IInv'
    OBVIOUS
<1> USE GuardAssumption
    DEF IInv, TypeOK, Fresh, NothingLeftBehind, Counts, Drained, Concluded, Starting, Spared,
        Alive, Streams, Readable, GiveUp, Guarding, Isolating
<1>1. CASE Launch
    <2>0. /\ worker' \in {"none", "starting", "up", "ended"}
          /\ pc' \in PCs /\ outcome' \in Outcomes /\ open' \in SUBSET Pipes
          /\ writers' \in [Pipes -> SUBSET {"worker", "child"}]
        <3>1. CASE pc' = "done" /\ UNCHANGED <<worker, writers, open>> /\ outcome' = "failed"
            BY <3>1
        <3>2. ASSUME /\ worker' = IF boundary = "run_bounded_process" THEN "up" ELSE "starting"
                     /\ writers' = [s \in Pipes |-> IF s \in Streams THEN {"worker"} ELSE {}]
                     /\ open' = Streams
                     /\ pc' = IF boundary = "isolated_process" THEN "poll" ELSE "loop"
                     /\ UNCHANGED outcome
              PROVE  <2>0!1 /\ <2>0!2 /\ <2>0!3
            <4>1. Streams \in SUBSET Pipes  OBVIOUS
            <4>2. writers' \in [Pipes -> SUBSET {"worker", "child"}]  BY <3>2
            <4>3. QED  BY <3>2, <4>1, <4>2
        <3>3. QED  BY <1>1, <3>1, <3>2 DEF Launch
    <2>1. TypeOK'  BY <1>1, <2>0 DEF Launch
    <2>2. Fresh'  BY <1>1 DEF Launch
    <2>3. NothingLeftBehind'  BY <1>1 DEF Launch
    <2>4. Counts'  BY <1>1 DEF Launch
    <2>5. Drained'  BY <1>1 DEF Launch
    <2>6. Concluded'  BY <1>1 DEF Launch
    <2>7. Starting' /\ Spared'  BY <1>1 DEF Launch
    <2>8. QED  BY <2>1, <2>2, <2>3, <2>4, <2>5, <2>6, <2>7
<1>2. CASE Loop            BY <1>2 DEF Loop
<1>3. CASE Select
    <2>0. ready' \in SUBSET Pipes /\ pc' \in {"read", "loop"}  BY <1>3 DEF Select
    <2>1. TypeOK'
        BY <1>3, <2>0 DEF Select
    <2>2. Fresh'  BY <1>3 DEF Select
    <2>3. NothingLeftBehind'  BY <1>3 DEF Select
    <2>4. Counts'  BY <1>3 DEF Select
    <2>5. Drained'  BY <1>3 DEF Select
    <2>6. Concluded'  BY <1>3 DEF Select
    <2>7. Starting' /\ Spared'  BY <1>3 DEF Select
    <2>8. QED  BY <2>1, <2>2, <2>3, <2>4, <2>5, <2>6, <2>7
<1>4. ASSUME NEW s \in Pipes, ReadOne(s) PROVE IInv'
    <2> DEFINE block == Least({Block, Cap - got[s] + 1, wrote[s] - got[s]})
    <2>0. Block \in Int /\ Cap - got[s] + 1 \in Int /\ wrote[s] - got[s] \in Int
        OBVIOUS
    <2>1. /\ block \in {Block, Cap - got[s] + 1, wrote[s] - got[s]}
          /\ block <= Cap - got[s] + 1 /\ block <= wrote[s] - got[s]
        BY <2>0, LeastOfThree
    <2>2. got[s] <= Cap
        BY <1>4 DEF ReadOne
    <2>3. block \in Nat /\ (block = 0 => wrote[s] = got[s])
        BY <2>1, <2>2
    <2> HIDE DEF block
    <2>4. /\ ready' = ready \ {s}
          /\ got' = [got EXCEPT ![s] = @ + block]
          /\ open' = IF block = 0 THEN open \ {s} ELSE open
          /\ \/ got'[s] > Cap /\ pc' = "group" /\ outcome' = "output"
             \/ ~(got'[s] > Cap) /\ pc' \in {"loop", "read"} /\ outcome' = outcome
          /\ boundary = "run_bounded_process" /\ pc = "read" /\ s \in ready
          /\ UNCHANGED <<boundary, sessionVars, worldVars>>
        BY <1>4 DEF ReadOne, block
    <2>5. TypeOK'  BY <2>3, <2>4
    <2>6. Fresh' /\ NothingLeftBehind'  BY <2>4
    <2>7. Counts'  BY <2>1, <2>2, <2>3, <2>4
    <2>8. Drained'
        <3>1. /\ \A x \in Pipes : x # s => got'[x] = got[x] /\ (x \in open' <=> x \in open)
              /\ got'[s] = got[s] + block
            BY <2>4
        <3>2. \A x \in {"stdout", "stderr"} :
                 x \notin open' => writers'[x] = {} /\ got'[x] = wrote'[x]
            <4>1. ASSUME s \in {"stdout", "stderr"}, s \notin open'
                  PROVE  writers[s] = {} /\ got'[s] = wrote[s]
                <5>1. CASE block = 0
                    <6>1. Readable(s)  BY <2>4
                    <6>2. got[s] = wrote[s] /\ got'[s] = got[s]  BY <2>3, <3>1, <5>1
                    <6>3. QED  BY <6>1, <6>2
                <5>2. CASE block # 0
                    <6>1. s \notin open /\ writers[s] = {} /\ got[s] = wrote[s]
                        BY <2>4, <4>1, <5>2
                    <6>2. block <= 0  BY <2>1, <6>1
                    <6>3. QED  BY <2>3, <5>2, <6>2
                <5>3. QED  BY <5>1, <5>2
            <4>2. QED  BY <2>4, <3>1, <4>1
        <3>3. pc' = "read" => \A x \in ready' : Readable(x)'
            BY <2>4, <3>1
        <3>4. QED  BY <2>4, <3>2, <3>3
    <2>9. Concluded'  BY <2>4
    <2>10. Starting' /\ Spared'  BY <2>4
    <2>11. QED  BY <2>5, <2>6, <2>7, <2>8, <2>9, <2>10
<1>5. CASE Wait            BY <1>5 DEF Wait
<1>6. CASE CheckCancelled  BY <1>6 DEF CheckCancelled
<1>7. CASE CheckClock      BY <1>7 DEF CheckClock
<1>8. CASE Poll            BY <1>8 DEF Poll
<1>9. CASE CheckExited     BY <1>9 DEF CheckExited
<1>10. CASE PollTool       BY <1>10 DEF PollTool
<1>11. CASE Receive
    <2>1. TypeOK'  BY <1>11 DEF Receive
    <2>2. Fresh'  BY <1>11 DEF Receive
    <2>3. NothingLeftBehind'  BY <1>11 DEF Receive
    <2>4. Counts'  BY <1>11 DEF Receive
    <2>5. Drained'  BY <1>11 DEF Receive
    <2>6. Concluded'  BY <1>11 DEF Receive
    <2>7. Starting' /\ Spared'  BY <1>11 DEF Receive
    <2>8. QED  BY <2>1, <2>2, <2>3, <2>4, <2>5, <2>6, <2>7
<1>12. CASE CheckWorker     BY <1>12 DEF CheckWorker
<1>13. CASE KillGroup
    <2>1. TypeOK'  BY <1>13 DEF KillGroup
    <2>2. Fresh'  BY <1>13 DEF KillGroup
    <2>3. NothingLeftBehind'  BY <1>13 DEF KillGroup
    <2>4. Counts'  BY <1>13 DEF KillGroup
    <2>5. Drained'  BY <1>13 DEF KillGroup
    <2>6. Concluded'  BY <1>13 DEF KillGroup
    <2>7. Starting' /\ Spared'  BY <1>13 DEF KillGroup
    <2>8. QED  BY <2>1, <2>2, <2>3, <2>4, <2>5, <2>6, <2>7
<1>14. CASE KillWorker
    <2>1. TypeOK'  BY <1>14 DEF KillWorker
    <2>2. Fresh'  BY <1>14 DEF KillWorker
    <2>3. NothingLeftBehind'  BY <1>14 DEF KillWorker
    <2>4. Counts'  BY <1>14 DEF KillWorker
    <2>5. Drained'  BY <1>14 DEF KillWorker
    <2>6. Concluded'  BY <1>14 DEF KillWorker
    <2>7. Starting' /\ Spared'  BY <1>14 DEF KillWorker
    <2>8. QED  BY <2>1, <2>2, <2>3, <2>4, <2>5, <2>6, <2>7
<1>15. CASE Interrupt      BY <1>15 DEF Interrupt
<1>16. QED
    BY <1>1, <1>2, <1>3, <1>4, <1>5, <1>6, <1>7, <1>8, <1>9, <1>10, <1>11, <1>12, <1>13, <1>14, <1>15
    DEF ParentStep

(* Time, a request to cancel and a stutter change nothing the invariant is  *)
(* about.                                                                   *)
LEMMA WorldSteps == IInv /\ (TimePasses \/ AskCancel \/ UNCHANGED vars) => IInv'
<1> SUFFICES ASSUME IInv, TimePasses \/ AskCancel \/ UNCHANGED vars PROVE IInv'
    OBVIOUS
<1> USE DEF IInv
<1>0. /\ UNCHANGED <<boundary, worker, child, writers, wrote, size, kind, pc, open, ready, got,
                      outcome>>
      /\ late' \in BOOLEAN /\ cancel' \in BOOLEAN
    BY DEF TimePasses, AskCancel, TypeOK
<1>1. TypeOK'             BY <1>0 DEF TypeOK
<1>2. Fresh'              BY <1>0 DEF Fresh
<1>3. NothingLeftBehind'  BY <1>0 DEF NothingLeftBehind, Alive
<1>4. Counts'             BY <1>0 DEF Counts
<1>5. Drained'            BY <1>0 DEF Drained, Readable
<1>6. Concluded'          BY <1>0 DEF Concluded
<1>7. Starting' /\ Spared'  BY <1>0 DEF Starting, Spared, Alive
<1>8. QED  BY <1>1, <1>2, <1>3, <1>4, <1>5, <1>6, <1>7

(* The inductive invariant holds in every state.                            *)
LEMMA Invariance == Spec => []IInv
<1>1. IInv /\ [Next]_vars => IInv'
    BY SessionSteps, ParentSteps, WorldSteps DEF Next
<1>2. QED  BY Initially, <1>1, PTL DEF Spec

(* Every variable keeps its type.                                           *)
THEOREM GuardTypes == Spec => []TypeOK
<1>1. IInv => TypeOK
    BY DEF IInv
<1>2. QED  BY Invariance, <1>1, PTL

(* Whatever ended the work and whatever the session did between killpg and  *)
(* kill: the worker does not outlive its parent's call, nor does what it    *)
(* started, where run_bounded_process gives up; what outlives run_isolated  *)
(* was started after it gave up on a worker that had told it nothing.       *)
THEOREM SessionsEnd == Spec => []NothingLeftBehind
<1>1. IInv => NothingLeftBehind
    BY DEF IInv
<1>2. QED  BY Invariance, <1>1, PTL

(* For every cap and every block: a parent never holds more than one unit   *)
(* above a cap, and a result is all that was written, or a whole message.   *)
THEOREM ResultsAreWhole == Spec => []AnswerIsWhole
<1>1. IInv => AnswerIsWhole
    BY DEF IInv, TypeOK, Counts, Drained, Concluded, AnswerIsWhole, Streams
<1>2. QED  BY Invariance, <1>1, PTL
=============================================================================
