-------------------------- MODULE AtlasGatewayProofs --------------------------
(***************************************************************************)
(* For any number of callers, approvals, operations and commits, however    *)
(* the repository and the clocks move: what an approval allows, what the    *)
(* quota bounds and what the log says of the calls.                         *)
(***************************************************************************)
EXTENDS AtlasGateway, FiniteSetTheorems, TLAPS

(* A request is for an operation.                                           *)
Requested == \A a \in Approvals : decision[a] # "none" => approved[a] \in Operation

(* A write that may still be done: its token is spent on what was approved, *)
(* and nothing has been written on it yet.                                  *)
MayWrite(c) == pc[c] \in {"reserve", "run"} /\ call[c].kind = "invoke_write"

Entitled ==
    \A c \in Callers : MayWrite(c) =>
        /\ call[c].tool = "write"
        /\ call[c].token \in Approvals
        /\ decision[call[c].token] = "consumed"
        /\ call[c].operation = approved[call[c].token]
        /\ written[call[c].token] = <<>>

(* No two of them are on one token.                                         *)
SoleSpender ==
    \A c, d \in Callers : MayWrite(c) /\ MayWrite(d) /\ call[c].token = call[d].token => c = d

(* What invoke runs, and tries again, is a read tool.                       *)
ReadsOnly ==
    \A c \in Callers :
        /\ pc[c] \in {"reserve", "run"} /\ call[c].kind = "invoke" => call[c].tool = "read"
        /\ pc[c] \in {"issue", "start"} /\ call[c].attempt # 1 =>
              call[c].kind = "invoke" /\ call[c].tool = "read"
        /\ pc[c] = "finish" /\ outcome[c] = "failed" /\ call[c].tool = "read" =>
              call[c].kind = "invoke"

(* A call has not written before its handler runs; afterwards its outcome   *)
(* says what it did, as far as it may be known.                             *)
OutcomesTell ==
    \A c \in Callers :
        /\ pc[c] \in {"issue", "start", "decide", "reserve", "run"} => ~call[c].wrote
        /\ pc[c] = "finish" => /\ outcome[c] = "denied" => ~call[c].wrote
                               /\ outcome[c] = "ok" /\ call[c].tool = "write" => call[c].wrote
                               /\ call[c].wrote => call[c].tool = "write"

IInv == /\ TypeOK /\ Requested /\ Entitled /\ SoleSpender /\ ReadsOnly /\ OutcomesTell
        /\ OneWritePerApproval

(* Every reservation is a handler that has run or is about to.              *)
Running == {c \in Callers : pc[c] = "run"}
Reserved == toolCalls = handled + Cardinality(Running)

-----------------------------------------------------------------------------
(* Types.                                                                   *)

USE GatewayAssumption
USE DEF authorityVars, budgetVars, repoVars, callerVars, effectVars, boundVars, Goto, Ends

(* What a call may end with.                                                *)
Answers == {"result", "raised", "AppendOnlyViolation"}

(* How Finish leaves a failed read that is tried again.                     *)
TriesAgain(c) ==
    /\ outcome[c] = "failed" /\ call[c].tool = "read" /\ call[c].attempt < MaxAttempts
    /\ call' = [call EXCEPT ![c].attempt = @ + 1]
    /\ pc' = [pc EXCEPT ![c] = "issue"]
    /\ UNCHANGED <<id, outcome, answer>>

(* An append keeps the log a sequence of events.                            *)
LEMMA LogKeepsType ==
    ASSUME TypeOK, NEW k \in Records, NEW o \in Nat \cup Tokens,
           NEW w \in Recordable, Log(k, o, w)
    PROVE  events' \in Seq(Event)
<1>1. [kind |-> k, of |-> o, what |-> w] \in Event
    BY DEF Event
<1>2. QED  BY <1>1 DEF Log, TypeOK

(* The initial state satisfies the invariant.                               *)
LEMMA Initially == Init => IInv /\ Reserved
<1> SUFFICES ASSUME Init PROVE IInv /\ Reserved
    OBVIOUS
<1> USE DEF Init
<1>1. TypeOK
    <2>1. NoCall \in Call /\ NoAnswer \in Told
        BY DEF NoCall, Call, Tokens, Junk, NoAnswer, Told, Outcomes
    <2>2. "none" \in Decisions /\ "idle" \in PCs /\ "ok" \in Outcomes
        BY DEF Decisions, PCs, Outcomes
    <2>3. over \in BOOLEAN /\ clean \in BOOLEAN
        BY Zenon
    <2>4. QED  BY <2>1, <2>2, <2>3 DEF TypeOK
<1>2. Requested /\ OneWritePerApproval
    BY DEF Requested, OneWritePerApproval
<1>3. Entitled /\ SoleSpender /\ ReadsOnly /\ OutcomesTell
    BY DEF Entitled, SoleSpender, ReadsOnly, OutcomesTell, MayWrite
<1>4. Reserved
    <2>1. Running = {}  BY DEF Running
    <2>2. QED  BY <2>1, FS_EmptySet DEF Reserved
<1>5. QED  BY <1>1, <1>2, <1>3, <1>4 DEF IInv

(* Every step keeps the types.                                              *)
LEMMA KeepsTypes == IInv /\ [Next]_vars => TypeOK'
<1> SUFFICES ASSUME IInv, [Next]_vars PROVE TypeOK'
    OBVIOUS
<1> USE DEF IInv, TypeOK
<1>1. CASE RunsOut
    <2>1. over' \in BOOLEAN  BY <1>1, Zenon DEF RunsOut
    <2>2. UNCHANGED <<authorityVars, toolCalls, events, repoVars, callerVars, effectVars,
                      boundVars>>
        BY <1>1 DEF RunsOut
    <2>3. QED  BY <2>1, <2>2
<1>2. CASE RepoMoves
    <2>1. clean' \in BOOLEAN  BY <1>2, Zenon DEF RepoMoves
    <2>2. head' \in Heads /\ moves' \in 0 .. MaxMoves  BY <1>2 DEF RepoMoves
    <2>3. UNCHANGED <<authorityVars, budgetVars, events, callerVars, effectVars, boundVars>>
        BY <1>2 DEF RepoMoves
    <2>4. QED  BY <2>1, <2>2, <2>3
<1>3. CASE WallSetBack
    <2>1. late' \in [Approvals -> SUBSET Clocks]
        BY <1>3 DEF WallSetBack
    <2>2. setBacks' \in Nat  BY <1>3 DEF WallSetBack
    <2>3. QED  BY <1>3, <2>1, <2>2 DEF WallSetBack
<1>4. ASSUME NEW a \in Approvals, Request(a) PROVE TypeOK'
    <2>1. PICK args \in Args :
              approved' = [approved EXCEPT ![a] = [args |-> args, head |-> head]]
        BY <1>4 DEF Request
    <2>2. approved' \in [Approvals -> Operation \cup {NoOperation}]
        BY <2>1 DEF Operation
    <2>3. events' \in Seq(Event)
        BY <1>4, LogKeepsType DEF Request, Records, Tokens, Recordable, Decisions
    <2>4. decision' \in [Approvals -> Decisions]
        BY <1>4 DEF Request, Decisions
    <2>5. QED  BY <1>4, <2>2, <2>3, <2>4 DEF Request
<1>5. ASSUME NEW a \in Approvals, NEW yes \in BOOLEAN, Answer(a, yes) PROVE TypeOK'
    <2>1. decision' \in [Approvals -> Decisions]
        BY <1>5 DEF Answer, Decisions
    <2>2. Log("approval_recorded", a, decision'[a])
        BY <1>5 DEF Answer
    <2>3. events' \in Seq(Event)
        <3>1. decision'[a] \in Recordable
            BY <2>1 DEF Recordable
        <3>2. QED  BY <2>2, <3>1, LogKeepsType DEF Records, Tokens
    <2>4. QED  BY <1>5, <2>1, <2>3 DEF Answer
<1>6. ASSUME NEW a \in Approvals, Ages(a) PROVE TypeOK'
    <2>1. late' \in [Approvals -> SUBSET Clocks]
        BY <1>6 DEF Ages
    <2>2. QED  BY <1>6, <2>1 DEF Ages
<1>7. ASSUME NEW c \in Callers, Invoke(c) PROVE TypeOK'
    <2>1. PICK k \in {"invoke", "invoke_write"}, t \in {"read", "write", "none"},
               o \in Operation \cup {NoOperation}, x \in Approvals \cup {Junk} :
              call' = [call EXCEPT ![c] = [kind |-> k, tool |-> t, token |-> x,
                                           operation |-> o, attempt |-> 1,
                                           spent |-> FALSE, wrote |-> FALSE]]
        BY <1>7 DEF Invoke
    <2>2. call' \in [Callers -> Call]
        BY <2>1 DEF Call, Tokens
    <2>3. made' \in [Callers -> Nat] /\ pc' \in [Callers -> PCs]
        BY <1>7 DEF Invoke, PCs
    <2>4. answer' \in [Callers -> Told]
        BY <1>7 DEF Invoke, NoAnswer, Told
    <2>5. QED  BY <1>7, <2>2, <2>3, <2>4 DEF Invoke
<1>8. ASSUME NEW c \in Callers, IssueId(c) PROVE TypeOK'
    <2>1. pc' \in [Callers -> PCs] /\ id' \in [Callers -> Nat]
        BY <1>8 DEF IssueId, PCs
    <2>2. QED  BY <1>8, <2>1 DEF IssueId
<1>9. ASSUME NEW c \in Callers, StartCall(c) PROVE TypeOK'
    <2>1. pc' \in [Callers -> PCs]
        BY <1>9 DEF StartCall, PCs
    <2>2. events' \in Seq(Event)
        <3>1. call[c] \in Call /\ call[c].tool \in Recordable
            BY DEF Call, Recordable, Decisions
        <3>2. QED  BY <1>9, <3>1, LogKeepsType DEF StartCall, Records
    <2>3. QED  BY <1>9, <2>1, <2>2 DEF StartCall
<1>10. ASSUME NEW c \in Callers, DecideRead(c) PROVE TypeOK'
    <2>1. pc' \in [Callers -> PCs] /\ outcome' \in [Callers -> Outcomes]
        BY <1>10 DEF DecideRead, PCs, Outcomes
    <2>2. QED  BY <1>10, <2>1 DEF DecideRead
<1>11. ASSUME NEW c \in Callers, Consume(c) PROVE TypeOK'
    <2>1. pc' \in [Callers -> PCs] /\ outcome' \in [Callers -> Outcomes]
        BY <1>11 DEF Consume, PCs, Outcomes
    <2>2. call[c] \in Call /\ call[c].token \in Tokens
        BY DEF Call
    <2>3. \/ Log("approval_recorded", call[c].token, "consumed")
          \/ Log("approval_recorded", call[c].token, "rejected")
        BY <1>11 DEF Consume
    <2>4. events' \in Seq(Event)
        BY <2>2, <2>3, LogKeepsType DEF Records, Recordable, Decisions
    <2>5. call' \in [Callers -> Call]
        <3>1. [call[c] EXCEPT !.spent = TRUE] \in Call  BY <2>2 DEF Call
        <3>2. QED  BY <1>11, <3>1 DEF Consume
    <2>6. decision' \in [Approvals -> Decisions]
        BY <1>11 DEF Consume, Decisions
    <2>7. QED  BY <1>11, <2>1, <2>4, <2>5, <2>6 DEF Consume
<1>12. ASSUME NEW c \in Callers, RefuseWrite(c) PROVE TypeOK'
    <2>1. pc' \in [Callers -> PCs] /\ outcome' \in [Callers -> Outcomes]
        BY <1>12 DEF RefuseWrite, PCs, Outcomes
    <2>2. QED  BY <1>12, <2>1 DEF RefuseWrite
<1>13. ASSUME NEW c \in Callers, Reserve(c) PROVE TypeOK'
    <2>1. pc' \in [Callers -> PCs] /\ outcome' \in [Callers -> Outcomes]
        BY <1>13 DEF Reserve, PCs, Outcomes
    <2>2. toolCalls' \in 0 .. MaxTools
        BY <1>13 DEF Reserve
    <2>3. QED  BY <1>13, <2>1, <2>2 DEF Reserve
<1>14. ASSUME NEW c \in Callers, Execute(c) PROVE TypeOK'
    <2>1. PICK did \in BOOLEAN :
              /\ did => call[c].tool = "write"
              /\ Effect(c, did)
              /\ call' = [call EXCEPT ![c].wrote = did]
        BY <1>14 DEF Execute
    <2>2. pc' \in [Callers -> PCs] /\ outcome' \in [Callers -> Outcomes]
        BY <1>14 DEF Execute, PCs, Outcomes
    <2>3. call' \in [Callers -> Call]
        <3>1. call[c] \in Call  OBVIOUS
        <3>2. [call[c] EXCEPT !.wrote = did] \in Call  BY <3>1 DEF Call
        <3>3. QED  BY <2>1, <3>2
    <2>4. handled' \in Nat  BY <2>1 DEF Effect
    <2>5. written' \in [Approvals -> Seq(Write)]
        <3>1. CASE ~did  BY <3>1, <2>1 DEF Effect
        <3>2. CASE did
            <4>1. MayWrite(c)
                BY <1>14, <2>1, <3>2 DEF Execute, MayWrite, ReadsOnly, Call
            <4>2. /\ call[c].token \in Approvals
                  /\ call[c].operation \in Operation
                BY <4>1 DEF Entitled, Requested
            <4>3. [args |-> call[c].operation.args, id |-> id[c]] \in Write
                BY <4>2 DEF Operation, Write
            <4>4. QED  BY <2>1, <3>2, <4>2, <4>3 DEF Effect
        <3>3. QED  BY <3>1, <3>2
    <2>6. QED  BY <1>14, <2>2, <2>3, <2>4, <2>5 DEF Execute
<1>15. ASSUME NEW c \in Callers, Finish(c) PROVE TypeOK'
    <2>1. call[c] \in Call /\ outcome[c] \in Outcomes /\ id[c] \in Nat
        OBVIOUS
    <2>2. events' \in Seq(Event)
        <3>1. events' = events \/ Log("call_finished", id[c], outcome[c])
            BY <1>15 DEF Finish
        <3>2. QED  BY <2>1, <3>1, LogKeepsType DEF Records, Recordable
    <2>3. /\ UNCHANGED <<authorityVars, budgetVars, repoVars, made, effectVars, boundVars>>
          /\ \/ \E x \in Answers : Returns(c, x)
             \/ TriesAgain(c)
        BY <1>15, <2>1 DEF Finish, TriesAgain, Answers
    <2>4. CASE \E x \in Answers : Returns(c, x)
        <3>1. PICK x \in Answers : Returns(c, x)
            BY <2>4
        <3>2. [says |-> x, wrote |-> call[c].wrote] \in Told
            BY <2>1, <3>1 DEF Call, Told, Answers
        <3>3. NoCall \in Call
            BY DEF NoCall, Call, Tokens, Junk
        <3>4. answer' \in [Callers -> Told] /\ call' \in [Callers -> Call]
            BY <3>1, <3>2, <3>3 DEF Returns
        <3>5. pc' \in [Callers -> PCs] /\ outcome' \in [Callers -> Outcomes]
              /\ id' \in [Callers -> Nat]
            BY <3>1 DEF Returns, PCs, Outcomes
        <3>6. QED  BY <2>2, <2>3, <3>4, <3>5
    <2>5. CASE TriesAgain(c)
        <3>0. call[c].attempt + 1 \in 1 .. MaxAttempts
            BY <2>1, <2>5 DEF Call, TriesAgain
        <3>1. [call[c] EXCEPT !.attempt = call[c].attempt + 1] \in Call
            BY <2>1, <3>0 DEF Call
        <3>2. call' \in [Callers -> Call] /\ pc' \in [Callers -> PCs]
            BY <2>5, <3>1 DEF TriesAgain, PCs
        <3>3. QED  BY <2>2, <2>3, <2>5, <3>2 DEF TriesAgain
    <2>6. QED  BY <2>3, <2>4, <2>5
<1>16. CASE UNCHANGED vars
    BY <1>16 DEF vars
<1>17. QED
    BY <1>1, <1>2, <1>3, <1>4, <1>5, <1>6, <1>7, <1>8, <1>9, <1>10, <1>11, <1>12, <1>13,
       <1>14, <1>15, <1>16 DEF Next, CallerStep
-----------------------------------------------------------------------------
(* What the three steps that touch a call's record do to it, field by field *)

(* A step of c leaves the other callers alone.                              *)
Alone(c) ==
    \A d \in Callers : d # c => /\ pc'[d] = pc[d] /\ call'[d] = call[d]
                                /\ outcome'[d] = outcome[d] /\ answer'[d] = answer[d]

SameCall(c) ==
    /\ call'[c].kind = call[c].kind /\ call'[c].tool = call[c].tool
    /\ call'[c].token = call[c].token /\ call'[c].operation = call[c].operation

(* The call goes on with its token spent, or is denied.                     *)
Spends(c) ==
    /\ pc[c] = "decide" /\ call[c].kind = "invoke_write" /\ call[c].tool = "write"
    /\ Alone(c) /\ SameCall(c) /\ (call'[c].wrote <=> call[c].wrote)
    /\ UNCHANGED <<approved, answer, effectVars>>
    /\ \/ /\ pc'[c] = "reserve"
          /\ call[c].token \in Approvals
          /\ decision[call[c].token] = "granted"
          /\ decision' = [decision EXCEPT ![call[c].token] = "consumed"]
          /\ call[c].operation = approved[call[c].token]
       \/ pc'[c] = "finish" /\ outcome'[c] = "denied" /\ UNCHANGED decision

(* That is what Consume does.                                               *)
LEMMA ConsumeMoves == ASSUME IInv, NEW c \in Callers, Consume(c) PROVE Spends(c)
<1> USE DEF IInv, TypeOK, Spends
<1>0. call[c] \in Call  OBVIOUS
<1>1. CASE Covers(call[c].token, call[c].operation)
    <2>1. /\ pc' = [pc EXCEPT ![c] = "reserve"] /\ UNCHANGED outcome
          /\ call' = [call EXCEPT ![c].spent = TRUE]
        BY <1>1 DEF Consume
    <2>2. Alone(c)  BY <2>1 DEF Alone, Consume
    <2>3. SameCall(c) /\ (call'[c].wrote <=> call[c].wrote)
        BY <1>0, <2>1 DEF SameCall, Call
    <2>4. QED  BY <1>1, <2>1, <2>2, <2>3 DEF Consume, Covers
<1>2. CASE ~Covers(call[c].token, call[c].operation)
    <2>1. /\ pc' = [pc EXCEPT ![c] = "finish"] /\ UNCHANGED <<decision, call>>
          /\ outcome' = [outcome EXCEPT ![c] = "denied"]
        BY <1>2 DEF Consume
    <2>2. Alone(c)  BY <2>1 DEF Alone, Consume
    <2>3. QED  BY <1>2, <2>1, <2>2 DEF Consume, SameCall
<1>3. QED  BY <1>1, <1>2

(* The handler has run: it may have written, and has if it succeeded.       *)
Runs(c) ==
    /\ pc[c] = "run" /\ pc'[c] = "finish" /\ outcome'[c] \in {"ok", "failed"}
    /\ Alone(c) /\ SameCall(c)
    /\ UNCHANGED <<authorityVars, answer>>
    /\ handled' = handled + 1
    /\ call'[c].wrote => call[c].tool = "write"
    /\ outcome'[c] = "ok" /\ call[c].tool = "write" => call'[c].wrote
    /\ written' = IF call'[c].wrote
                  THEN [written EXCEPT ![call[c].token] =
                          Append(@, [args |-> call[c].operation.args, id |-> id[c]])]
                  ELSE written

(* That is what Execute does.                                               *)
LEMMA ExecuteMoves == ASSUME IInv, NEW c \in Callers, Execute(c) PROVE Runs(c)
<1> USE DEF IInv, TypeOK, Runs
<1>0. call[c] \in Call  OBVIOUS
<1>1. PICK did \in BOOLEAN, o \in {"ok", "failed"} :
          /\ did => call[c].tool = "write"
          /\ o = "ok" => ~over /\ (call[c].tool = "write" => did)
          /\ Effect(c, did)
          /\ call' = [call EXCEPT ![c].wrote = did]
          /\ pc' = [pc EXCEPT ![c] = "finish"] /\ outcome' = [outcome EXCEPT ![c] = o]
    BY DEF Execute
<1>2. Alone(c)  BY <1>1 DEF Alone, Execute
<1>3. SameCall(c) /\ (call'[c].wrote = did)
    BY <1>0, <1>1 DEF SameCall, Call
<1>4. written' = IF call'[c].wrote
                 THEN [written EXCEPT ![call[c].token] =
                         Append(@, [args |-> call[c].operation.args, id |-> id[c]])]
                 ELSE written
    BY <1>1, <1>3 DEF Effect
<1>5. QED  BY <1>1, <1>2, <1>3, <1>4 DEF Execute, Effect

(* The caller has its answer, or a failed read is issued again.             *)
Tells(c) ==
    /\ pc[c] = "finish" /\ Alone(c)
    /\ UNCHANGED <<authorityVars, effectVars>>
    /\ \/ pc'[c] = "idle"
       \/ /\ pc'[c] = "issue" /\ outcome[c] = "failed" /\ call[c].tool = "read"
          /\ SameCall(c) /\ (call'[c].wrote <=> call[c].wrote) /\ UNCHANGED answer

(* That is what Finish does.                                                *)
LEMMA FinishMoves == ASSUME IInv, NEW c \in Callers, Finish(c) PROVE Tells(c)
<1> USE DEF IInv, TypeOK, Tells
<1>0. call[c] \in Call  OBVIOUS
<1>1. /\ UNCHANGED <<authorityVars, effectVars>> /\ pc[c] = "finish"
      /\ \/ \E x \in Answers : Returns(c, x)
         \/ TriesAgain(c)
    BY DEF Finish, TriesAgain, Answers
<1>2. CASE \E x \in Answers : Returns(c, x)
    <2>1. PICK x \in Answers : Returns(c, x)
        BY <1>2
    <2>2. Alone(c)  BY <2>1 DEF Alone, Returns
    <2>3. QED  BY <1>1, <2>1, <2>2 DEF Returns
<1>3. CASE TriesAgain(c)
    <2>1. Alone(c)  BY <1>3 DEF Alone, TriesAgain
    <2>2. SameCall(c) /\ (call'[c].wrote <=> call[c].wrote)
        BY <1>0, <1>3 DEF SameCall, Call, TriesAgain
    <2>3. QED  BY <1>1, <1>3, <2>1, <2>2 DEF TriesAgain
<1>4. QED  BY <1>1, <1>2, <1>3

(* The last two take the right to write from c and leave the others theirs. *)
LEMMA Ceases ==
    ASSUME NEW c \in Callers, NEW d \in Callers, Runs(c) \/ Tells(c), MayWrite(d)'
    PROVE  d # c /\ MayWrite(d) /\ call'[d] = call[d]
<1>1. d # c  BY DEF Runs, Tells, MayWrite
<1>2. QED  BY <1>1 DEF Runs, Tells, Alone, MayWrite

(* The first gives it to c alone.                                           *)
LEMMA Gains ==
    ASSUME NEW c \in Callers, NEW d \in Callers, Spends(c), MayWrite(d)', d # c
    PROVE  MayWrite(d) /\ call'[d] = call[d]
BY DEF Spends, Alone, MayWrite

-----------------------------------------------------------------------------
(* The invariant, part by part.                                             *)

(* Every request stays one for an operation.                                *)
LEMMA KeepsRequests == IInv /\ [Next]_vars => Requested'
<1> SUFFICES ASSUME IInv, [Next]_vars PROVE Requested'
    OBVIOUS
<1> USE DEF IInv, TypeOK, Requested
<1>1. CASE RunsOut
    BY <1>1 DEF RunsOut
<1>2. CASE RepoMoves
    BY <1>2 DEF RepoMoves
<1>3. CASE WallSetBack
    BY <1>3 DEF WallSetBack
<1>4. ASSUME NEW a \in Approvals, Request(a) PROVE Requested'
    <2>1. PICK args \in Args :
              approved' = [approved EXCEPT ![a] = [args |-> args, head |-> head]]
        BY <1>4 DEF Request
    <2>2. QED  BY <1>4, <2>1 DEF Request, Operation
<1>5. ASSUME NEW a \in Approvals, NEW yes \in BOOLEAN, Answer(a, yes) PROVE Requested'
    BY <1>5 DEF Answer
<1>6. ASSUME NEW a \in Approvals, Ages(a) PROVE Requested'
    BY <1>6 DEF Ages
<1>7. ASSUME NEW c \in Callers, Invoke(c) PROVE Requested'
    BY <1>7 DEF Invoke
<1>8. ASSUME NEW c \in Callers, IssueId(c) PROVE Requested'
    BY <1>8 DEF IssueId
<1>9. ASSUME NEW c \in Callers, StartCall(c) PROVE Requested'
    BY <1>9 DEF StartCall
<1>10. ASSUME NEW c \in Callers, DecideRead(c) PROVE Requested'
    BY <1>10 DEF DecideRead
<1>11. ASSUME NEW c \in Callers, Consume(c) PROVE Requested'
    <2>1. Spends(c)  BY <1>11, ConsumeMoves
    <2>2. QED  BY <1>11, <2>1 DEF Spends, Alone, SameCall
<1>12. ASSUME NEW c \in Callers, RefuseWrite(c) PROVE Requested'
    BY <1>12 DEF RefuseWrite
<1>13. ASSUME NEW c \in Callers, Reserve(c) PROVE Requested'
    BY <1>13 DEF Reserve
<1>14. ASSUME NEW c \in Callers, Execute(c) PROVE Requested'
    <2>1. Runs(c)  BY <1>14, ExecuteMoves
    <2>2. QED  BY <1>14, <2>1 DEF Runs, Alone, SameCall
<1>15. ASSUME NEW c \in Callers, Finish(c) PROVE Requested'
    <2>1. Tells(c)  BY <1>15, FinishMoves
    <2>2. QED  BY <1>15, <2>1 DEF Tells, Alone, SameCall
<1>16. CASE UNCHANGED vars
    BY <1>16 DEF vars
<1>17. QED
    BY <1>1, <1>2, <1>3, <1>4, <1>5, <1>6, <1>7, <1>8, <1>9, <1>10, <1>11, <1>12, <1>13,
       <1>14, <1>15, <1>16 DEF Next, CallerStep

(* Whoever may still write holds a token spent on what was approved.        *)
LEMMA KeepsEntitled == IInv /\ [Next]_vars => Entitled'
<1> SUFFICES ASSUME IInv, [Next]_vars PROVE Entitled'
    OBVIOUS
<1> USE DEF IInv, TypeOK, Requested, Entitled
<1>1. CASE RunsOut
    BY <1>1 DEF RunsOut, MayWrite
<1>2. CASE RepoMoves
    BY <1>2 DEF RepoMoves, MayWrite
<1>3. CASE WallSetBack
    BY <1>3 DEF WallSetBack, MayWrite
<1>4. ASSUME NEW a \in Approvals, Request(a) PROVE Entitled'
    BY <1>4 DEF Request, MayWrite
<1>5. ASSUME NEW a \in Approvals, NEW yes \in BOOLEAN, Answer(a, yes) PROVE Entitled'
    BY <1>5 DEF Answer, MayWrite
<1>6. ASSUME NEW a \in Approvals, Ages(a) PROVE Entitled'
    BY <1>6 DEF Ages, MayWrite
<1>7. ASSUME NEW c \in Callers, Invoke(c) PROVE Entitled'
    BY <1>7 DEF Invoke, MayWrite
<1>8. ASSUME NEW c \in Callers, IssueId(c) PROVE Entitled'
    BY <1>8 DEF IssueId, MayWrite
<1>9. ASSUME NEW c \in Callers, StartCall(c) PROVE Entitled'
    BY <1>9 DEF StartCall, ReadsOnly, MayWrite
<1>10. ASSUME NEW c \in Callers, DecideRead(c) PROVE Entitled'
    BY <1>10 DEF DecideRead, MayWrite
<1>11. ASSUME NEW c \in Callers, Consume(c) PROVE Entitled'
    <2>1. Spends(c)  BY <1>11, ConsumeMoves
    <2>2. SUFFICES ASSUME NEW d \in Callers, MayWrite(d)'
                   PROVE  /\ call'[d].tool = "write"
                          /\ call'[d].token \in Approvals
                          /\ decision'[call'[d].token] = "consumed"
                          /\ call'[d].operation = approved'[call'[d].token]
                          /\ written'[call'[d].token] = <<>>
        OBVIOUS
    <2>3. CASE d = c
        <3>1. /\ call[c].token \in Approvals /\ decision[call[c].token] = "granted"
              /\ decision' = [decision EXCEPT ![call[c].token] = "consumed"]
              /\ call[c].operation = approved[call[c].token]
            BY <2>1, <2>2, <2>3 DEF Spends, MayWrite
        <3>2. written[call[c].token] = <<>>
            BY <3>1 DEF OneWritePerApproval
        <3>3. QED  BY <2>1, <2>3, <3>1, <3>2 DEF Spends, SameCall
    <2>4. CASE d # c
        <3>1. MayWrite(d) /\ call'[d] = call[d]
            BY <2>1, <2>2, <2>4, Gains
        <3>2. decision'[call[d].token] = "consumed"
            BY <2>1, <3>1 DEF Spends
        <3>3. QED  BY <2>1, <3>1, <3>2 DEF Spends
    <2>5. QED  BY <2>3, <2>4
<1>12. ASSUME NEW c \in Callers, RefuseWrite(c) PROVE Entitled'
    BY <1>12 DEF RefuseWrite, MayWrite
<1>13. ASSUME NEW c \in Callers, Reserve(c) PROVE Entitled'
    BY <1>13 DEF Reserve, MayWrite
<1>14. ASSUME NEW c \in Callers, Execute(c) PROVE Entitled'
    <2>1. Runs(c)  BY <1>14, ExecuteMoves
    <2>2. ASSUME NEW d \in Callers, MayWrite(d)'
          PROVE  /\ MayWrite(d) /\ call'[d] = call[d]
                 /\ written'[call[d].token] = written[call[d].token]
        <3>1. d # c /\ MayWrite(d) /\ call'[d] = call[d]
            BY <2>1, <2>2, Ceases
        <3>2. CASE ~call'[c].wrote  BY <2>1, <3>1, <3>2 DEF Runs
        <3>3. CASE call'[c].wrote
            <4>1. MayWrite(c)
                BY <2>1, <3>3 DEF Runs, MayWrite, ReadsOnly, Call
            <4>2. call[d].token # call[c].token
                BY <3>1, <4>1 DEF SoleSpender
            <4>3. QED  BY <2>1, <3>1, <3>3, <4>2 DEF Runs
        <3>4. QED  BY <3>2, <3>3
    <2>3. UNCHANGED <<decision, approved>>  BY <2>1 DEF Runs
    <2>4. QED  BY <2>2, <2>3
<1>15. ASSUME NEW c \in Callers, Finish(c) PROVE Entitled'
    <2>1. Tells(c)  BY <1>15, FinishMoves
    <2>2. QED  BY <2>1, Ceases DEF Tells
<1>16. CASE UNCHANGED vars
    BY <1>16 DEF vars, MayWrite
<1>17. QED
    BY <1>1, <1>2, <1>3, <1>4, <1>5, <1>6, <1>7, <1>8, <1>9, <1>10, <1>11, <1>12, <1>13,
       <1>14, <1>15, <1>16 DEF Next, CallerStep

(* No two of them hold one token.                                           *)
LEMMA KeepsSoleSpender == IInv /\ [Next]_vars => SoleSpender'
<1> SUFFICES ASSUME IInv, [Next]_vars PROVE SoleSpender'
    OBVIOUS
<1> USE DEF IInv, TypeOK, SoleSpender
<1>1. CASE RunsOut
    BY <1>1 DEF RunsOut, MayWrite
<1>2. CASE RepoMoves
    BY <1>2 DEF RepoMoves, MayWrite
<1>3. CASE WallSetBack
    BY <1>3 DEF WallSetBack, MayWrite
<1>4. ASSUME NEW a \in Approvals, Request(a) PROVE SoleSpender'
    BY <1>4 DEF Request, MayWrite
<1>5. ASSUME NEW a \in Approvals, NEW yes \in BOOLEAN, Answer(a, yes) PROVE SoleSpender'
    BY <1>5 DEF Answer, MayWrite
<1>6. ASSUME NEW a \in Approvals, Ages(a) PROVE SoleSpender'
    BY <1>6 DEF Ages, MayWrite
<1>7. ASSUME NEW c \in Callers, Invoke(c) PROVE SoleSpender'
    BY <1>7 DEF Invoke, MayWrite
<1>8. ASSUME NEW c \in Callers, IssueId(c) PROVE SoleSpender'
    BY <1>8 DEF IssueId, MayWrite
<1>9. ASSUME NEW c \in Callers, StartCall(c) PROVE SoleSpender'
    BY <1>9 DEF StartCall, ReadsOnly, MayWrite
<1>10. ASSUME NEW c \in Callers, DecideRead(c) PROVE SoleSpender'
    BY <1>10 DEF DecideRead, MayWrite
<1>11. ASSUME NEW c \in Callers, Consume(c) PROVE SoleSpender'
    <2>1. Spends(c)  BY <1>11, ConsumeMoves
    <2>2. ASSUME NEW d \in Callers, MayWrite(d)', MayWrite(c)', d # c
          PROVE  call'[d].token # call'[c].token
        <3>1. MayWrite(d) /\ call'[d] = call[d]
            BY <2>1, <2>2, Gains
        <3>2. decision[call[d].token] = "consumed"
            BY <3>1 DEF Entitled
        <3>3. decision[call[c].token] = "granted" /\ call'[c].token = call[c].token
            BY <2>1, <2>2 DEF Spends, SameCall, MayWrite
        <3>4. QED  BY <3>1, <3>2, <3>3
    <2>3. QED  BY <2>1, <2>2, Gains
<1>12. ASSUME NEW c \in Callers, RefuseWrite(c) PROVE SoleSpender'
    BY <1>12 DEF RefuseWrite, MayWrite
<1>13. ASSUME NEW c \in Callers, Reserve(c) PROVE SoleSpender'
    <2>1. \A d \in Callers : MayWrite(d)' => MayWrite(d)
        BY <1>13 DEF Reserve, MayWrite
    <2>2. QED  BY <1>13, <2>1 DEF Reserve
<1>14. ASSUME NEW c \in Callers, Execute(c) PROVE SoleSpender'
    <2>1. Runs(c)  BY <1>14, ExecuteMoves
    <2>2. QED  BY <2>1, Ceases
<1>15. ASSUME NEW c \in Callers, Finish(c) PROVE SoleSpender'
    <2>1. Tells(c)  BY <1>15, FinishMoves
    <2>2. QED  BY <2>1, Ceases
<1>16. CASE UNCHANGED vars
    BY <1>16 DEF vars, MayWrite
<1>17. QED
    BY <1>1, <1>2, <1>3, <1>4, <1>5, <1>6, <1>7, <1>8, <1>9, <1>10, <1>11, <1>12, <1>13,
       <1>14, <1>15, <1>16 DEF Next, CallerStep

(* Only read tools are run by invoke and tried again.                       *)
LEMMA KeepsReadsOnly == IInv /\ [Next]_vars => ReadsOnly'
<1> SUFFICES ASSUME IInv, [Next]_vars PROVE ReadsOnly'
    OBVIOUS
<1> USE DEF IInv, TypeOK, ReadsOnly
<1>1. CASE RunsOut
    BY <1>1 DEF RunsOut
<1>2. CASE RepoMoves
    BY <1>2 DEF RepoMoves
<1>3. CASE WallSetBack
    BY <1>3 DEF WallSetBack
<1>4. ASSUME NEW a \in Approvals, Request(a) PROVE ReadsOnly'
    BY <1>4 DEF Request
<1>5. ASSUME NEW a \in Approvals, NEW yes \in BOOLEAN, Answer(a, yes) PROVE ReadsOnly'
    BY <1>5 DEF Answer
<1>6. ASSUME NEW a \in Approvals, Ages(a) PROVE ReadsOnly'
    BY <1>6 DEF Ages
<1>7. ASSUME NEW c \in Callers, Invoke(c) PROVE ReadsOnly'
    BY <1>7 DEF Invoke
<1>8. ASSUME NEW c \in Callers, IssueId(c) PROVE ReadsOnly'
    BY <1>8 DEF IssueId
<1>9. ASSUME NEW c \in Callers, StartCall(c) PROVE ReadsOnly'
    BY <1>9 DEF StartCall
<1>10. ASSUME NEW c \in Callers, DecideRead(c) PROVE ReadsOnly'
    BY <1>10 DEF DecideRead
<1>11. ASSUME NEW c \in Callers, Consume(c) PROVE ReadsOnly'
    <2>1. Spends(c)  BY <1>11, ConsumeMoves
    <2>2. \A d \in Callers : d # c =>
              pc'[d] = pc[d] /\ call'[d] = call[d] /\ outcome'[d] = outcome[d]
        BY <2>1 DEF Spends, Alone
    <2>3. /\ pc'[c] \in {"reserve", "finish"} /\ call'[c].kind = "invoke_write"
          /\ call'[c].tool = "write"
        BY <2>1 DEF Spends, SameCall
    <2>4. QED  BY <2>2, <2>3
<1>12. ASSUME NEW c \in Callers, RefuseWrite(c) PROVE ReadsOnly'
    BY <1>12 DEF RefuseWrite
<1>13. ASSUME NEW c \in Callers, Reserve(c) PROVE ReadsOnly'
    BY <1>13 DEF Reserve
<1>14. ASSUME NEW c \in Callers, Execute(c) PROVE ReadsOnly'
    <2>1. Runs(c)  BY <1>14, ExecuteMoves
    <2>2. \A d \in Callers : d # c =>
              pc'[d] = pc[d] /\ call'[d] = call[d] /\ outcome'[d] = outcome[d]
        BY <2>1 DEF Runs, Alone
    <2>3. call[c].kind \in {"invoke", "invoke_write"}
        BY DEF Call
    <2>4. call'[c].tool = "read" => call'[c].kind = "invoke"
        BY <2>1, <2>3 DEF Runs, SameCall, Entitled, MayWrite
    <2>5. pc'[c] = "finish"  BY <2>1 DEF Runs
    <2>6. QED  BY <2>2, <2>4, <2>5
<1>15. ASSUME NEW c \in Callers, Finish(c) PROVE ReadsOnly'
    <2>1. Tells(c)  BY <1>15, FinishMoves
    <2>2. \A d \in Callers : d # c =>
              pc'[d] = pc[d] /\ call'[d] = call[d] /\ outcome'[d] = outcome[d]
        BY <2>1 DEF Tells, Alone
    <2>3. /\ pc'[c] \in {"idle", "issue"}
          /\ pc'[c] = "issue" => call'[c].kind = "invoke" /\ call'[c].tool = "read"
        BY <2>1 DEF Tells, SameCall
    <2>4. ReadsOnly  OBVIOUS
    <2> HIDE DEF IInv, TypeOK
    <2>5. QED  BY <2>2, <2>3, <2>4
<1>16. CASE UNCHANGED vars
    BY <1>16 DEF vars
<1>17. QED
    BY <1>1, <1>2, <1>3, <1>4, <1>5, <1>6, <1>7, <1>8, <1>9, <1>10, <1>11, <1>12, <1>13,
       <1>14, <1>15, <1>16 DEF Next, CallerStep

(* Outcomes say what the calls did.                                         *)
LEMMA KeepsOutcomes == IInv /\ [Next]_vars => OutcomesTell'
<1> SUFFICES ASSUME IInv, [Next]_vars PROVE OutcomesTell'
    OBVIOUS
<1> USE DEF IInv, TypeOK, OutcomesTell
<1>1. CASE RunsOut
    BY <1>1 DEF RunsOut
<1>2. CASE RepoMoves
    BY <1>2 DEF RepoMoves
<1>3. CASE WallSetBack
    BY <1>3 DEF WallSetBack
<1>4. ASSUME NEW a \in Approvals, Request(a) PROVE OutcomesTell'
    BY <1>4 DEF Request
<1>5. ASSUME NEW a \in Approvals, NEW yes \in BOOLEAN, Answer(a, yes) PROVE OutcomesTell'
    BY <1>5 DEF Answer
<1>6. ASSUME NEW a \in Approvals, Ages(a) PROVE OutcomesTell'
    BY <1>6 DEF Ages
<1>7. ASSUME NEW c \in Callers, Invoke(c) PROVE OutcomesTell'
    BY <1>7 DEF Invoke
<1>8. ASSUME NEW c \in Callers, IssueId(c) PROVE OutcomesTell'
    BY <1>8 DEF IssueId
<1>9. ASSUME NEW c \in Callers, StartCall(c) PROVE OutcomesTell'
    BY <1>9 DEF StartCall
<1>10. ASSUME NEW c \in Callers, DecideRead(c) PROVE OutcomesTell'
    BY <1>10 DEF DecideRead
<1>11. ASSUME NEW c \in Callers, Consume(c) PROVE OutcomesTell'
    <2>1. Spends(c)  BY <1>11, ConsumeMoves
    <2>2. QED  BY <1>11, <2>1 DEF Spends, Alone, SameCall
<1>12. ASSUME NEW c \in Callers, RefuseWrite(c) PROVE OutcomesTell'
    BY <1>12 DEF RefuseWrite
<1>13. ASSUME NEW c \in Callers, Reserve(c) PROVE OutcomesTell'
    BY <1>13 DEF Reserve
<1>14. ASSUME NEW c \in Callers, Execute(c) PROVE OutcomesTell'
    <2>1. Runs(c)  BY <1>14, ExecuteMoves
    <2>2. QED  BY <1>14, <2>1 DEF Runs, Alone, SameCall, Entitled, MayWrite
<1>15. ASSUME NEW c \in Callers, Finish(c) PROVE OutcomesTell'
    <2>1. Tells(c)  BY <1>15, FinishMoves
    <2>2. \A d \in Callers : d # c =>
              pc'[d] = pc[d] /\ call'[d] = call[d] /\ outcome'[d] = outcome[d]
        BY <2>1 DEF Tells, Alone
    <2>3. pc'[c] = "issue" => ~call'[c].wrote
        BY <2>1 DEF Tells
    <2>4. QED  BY <2>1, <2>2, <2>3 DEF Tells
<1>16. CASE UNCHANGED vars
    BY <1>16 DEF vars
<1>17. QED
    BY <1>1, <1>2, <1>3, <1>4, <1>5, <1>6, <1>7, <1>8, <1>9, <1>10, <1>11, <1>12, <1>13,
       <1>14, <1>15, <1>16 DEF Next, CallerStep

(* One write for an approval, and the approved one.                         *)
LEMMA KeepsWrites == IInv /\ [Next]_vars => OneWritePerApproval'
<1> SUFFICES ASSUME IInv, [Next]_vars PROVE OneWritePerApproval'
    OBVIOUS
<1> USE DEF IInv, TypeOK, OneWritePerApproval
<1>1. CASE RunsOut
    BY <1>1 DEF RunsOut
<1>2. CASE RepoMoves
    BY <1>2 DEF RepoMoves
<1>3. CASE WallSetBack
    BY <1>3 DEF WallSetBack
<1>4. ASSUME NEW a \in Approvals, Request(a) PROVE OneWritePerApproval'
    BY <1>4 DEF Request
<1>5. ASSUME NEW a \in Approvals, NEW yes \in BOOLEAN, Answer(a, yes) PROVE OneWritePerApproval'
    BY <1>5 DEF Answer
<1>6. ASSUME NEW a \in Approvals, Ages(a) PROVE OneWritePerApproval'
    BY <1>6 DEF Ages
<1>7. ASSUME NEW c \in Callers, Invoke(c) PROVE OneWritePerApproval'
    BY <1>7 DEF Invoke
<1>8. ASSUME NEW c \in Callers, IssueId(c) PROVE OneWritePerApproval'
    BY <1>8 DEF IssueId
<1>9. ASSUME NEW c \in Callers, StartCall(c) PROVE OneWritePerApproval'
    BY <1>9 DEF StartCall
<1>10. ASSUME NEW c \in Callers, DecideRead(c) PROVE OneWritePerApproval'
    BY <1>10 DEF DecideRead
<1>11. ASSUME NEW c \in Callers, Consume(c) PROVE OneWritePerApproval'
    <2>1. Spends(c)  BY <1>11, ConsumeMoves
    <2>2. QED  BY <1>11, <2>1 DEF Spends, Alone, SameCall
<1>12. ASSUME NEW c \in Callers, RefuseWrite(c) PROVE OneWritePerApproval'
    BY <1>12 DEF RefuseWrite
<1>13. ASSUME NEW c \in Callers, Reserve(c) PROVE OneWritePerApproval'
    BY <1>13 DEF Reserve
<1>14. ASSUME NEW c \in Callers, Execute(c) PROVE OneWritePerApproval'
    <2>0. Runs(c)  BY <1>14, ExecuteMoves
    <2>1. CASE ~call'[c].wrote
        BY <2>0, <2>1 DEF Runs
    <2>2. CASE call'[c].wrote
        <3> DEFINE w == [args |-> call[c].operation.args, id |-> id[c]]
        <3>1. MayWrite(c)
            BY <2>0, <2>2 DEF Runs, MayWrite, ReadsOnly, Call
        <3>2. /\ call[c].token \in Approvals /\ decision[call[c].token] = "consumed"
              /\ call[c].operation = approved[call[c].token] /\ written[call[c].token] = <<>>
            BY <3>1 DEF Entitled
        <3>3. written' = [written EXCEPT ![call[c].token] = Append(<<>>, w)]
            BY <2>0, <2>2, <3>2 DEF Runs
        <3>4. Len(Append(<<>>, w)) = 1 /\ Append(<<>>, w)[1] = w
            OBVIOUS
        <3>5. UNCHANGED <<decision, approved>>
            BY <2>0 DEF Runs
        <3>6. QED  BY <3>2, <3>3, <3>4, <3>5
    <2>3. QED  BY <2>1, <2>2
<1>15. ASSUME NEW c \in Callers, Finish(c) PROVE OneWritePerApproval'
    <2>1. Tells(c)  BY <1>15, FinishMoves
    <2>2. QED  BY <1>15, <2>1 DEF Tells, Alone, SameCall
<1>16. CASE UNCHANGED vars
    BY <1>16 DEF vars
<1>17. QED
    BY <1>1, <1>2, <1>3, <1>4, <1>5, <1>6, <1>7, <1>8, <1>9, <1>10, <1>11, <1>12, <1>13,
       <1>14, <1>15, <1>16 DEF Next, CallerStep

-----------------------------------------------------------------------------
(* The quota.                                                               *)

(* Whoever is about to run is one of finitely many.                         *)
LEMMA RunningIsFinite == IsFiniteSet(Running) /\ Cardinality(Running) \in Nat
<1>1. IsFiniteSet(Running)  BY FS_Subset DEF Running
<1>2. QED  BY <1>1, FS_CardinalityType

(* Every reservation becomes one run of a handler.                          *)
LEMMA KeepsReserved == IInv /\ Reserved /\ [Next]_vars => Reserved'
<1> SUFFICES ASSUME IInv, Reserved, [Next]_vars PROVE Reserved'
    OBVIOUS
<1> USE DEF IInv, Reserved
<1>1. CASE RunsOut
    BY <1>1 DEF RunsOut, Running
<1>2. CASE RepoMoves
    BY <1>2 DEF RepoMoves, Running
<1>3. CASE WallSetBack
    BY <1>3 DEF WallSetBack, Running
<1>4. ASSUME NEW a \in Approvals, Request(a) PROVE Reserved'
    BY <1>4 DEF Request, Running
<1>5. ASSUME NEW a \in Approvals, NEW yes \in BOOLEAN, Answer(a, yes) PROVE Reserved'
    BY <1>5 DEF Answer, Running
<1>6. ASSUME NEW a \in Approvals, Ages(a) PROVE Reserved'
    BY <1>6 DEF Ages, Running
<1>7. ASSUME NEW c \in Callers, Invoke(c) PROVE Reserved'
    <2>1. Running' = Running  BY <1>7 DEF Invoke, Running, TypeOK
    <2>2. QED  BY <1>7, <2>1 DEF Invoke
<1>8. ASSUME NEW c \in Callers, IssueId(c) PROVE Reserved'
    <2>1. Running' = Running  BY <1>8 DEF IssueId, Running, TypeOK
    <2>2. QED  BY <1>8, <2>1 DEF IssueId
<1>9. ASSUME NEW c \in Callers, StartCall(c) PROVE Reserved'
    <2>1. Running' = Running  BY <1>9 DEF StartCall, Running, TypeOK
    <2>2. QED  BY <1>9, <2>1 DEF StartCall
<1>10. ASSUME NEW c \in Callers, DecideRead(c) PROVE Reserved'
    <2>1. Running' = Running  BY <1>10 DEF DecideRead, Running, TypeOK
    <2>2. QED  BY <1>10, <2>1 DEF DecideRead
<1>11. ASSUME NEW c \in Callers, Consume(c) PROVE Reserved'
    <2>1. Spends(c)  BY <1>11, ConsumeMoves
    <2>2. Running' = Running  BY <2>1 DEF Spends, Alone, Running
    <2>3. QED  BY <1>11, <2>1, <2>2 DEF Consume
<1>12. ASSUME NEW c \in Callers, RefuseWrite(c) PROVE Reserved'
    <2>1. Running' = Running  BY <1>12 DEF RefuseWrite, Running, TypeOK
    <2>2. QED  BY <1>12, <2>1 DEF RefuseWrite
<1>13. ASSUME NEW c \in Callers, Reserve(c) PROVE Reserved'
    <2>1. CASE ~over /\ toolCalls < MaxTools
        <3>1. /\ toolCalls' = toolCalls + 1 /\ handled' = handled
              /\ pc[c] = "reserve" /\ pc' = [pc EXCEPT ![c] = "run"]
            BY <1>13, <2>1 DEF Reserve, TypeOK
        <3>2. Running' = Running \cup {c} /\ c \notin Running
            BY <3>1 DEF Running, TypeOK
        <3>3. Cardinality(Running') = Cardinality(Running) + 1
            BY <3>2, RunningIsFinite, FS_AddElement
        <3>4. handled \in Nat  BY DEF TypeOK
        <3>5. QED  BY <3>1, <3>3, <3>4, RunningIsFinite
    <2>2. CASE ~(~over /\ toolCalls < MaxTools)
        <3>1. UNCHANGED <<toolCalls, handled>> /\ pc[c] = "reserve"
              /\ pc' = [pc EXCEPT ![c] = "finish"]
            BY <1>13, <2>2 DEF Reserve, TypeOK
        <3>2. Running' = Running  BY <3>1 DEF Running, TypeOK
        <3>3. QED  BY <3>1, <3>2
    <2>3. QED  BY <2>1, <2>2
<1>14. ASSUME NEW c \in Callers, Execute(c) PROVE Reserved'
    <2>1. Runs(c)  BY <1>14, ExecuteMoves
    <2>2. Running' = Running \ {c} /\ c \in Running  BY <2>1 DEF Runs, Alone, Running
    <2>3. Cardinality(Running') = Cardinality(Running) - 1
        BY <2>2, RunningIsFinite, FS_RemoveElement
    <2>4. handled \in Nat /\ handled' = handled + 1 /\ toolCalls' = toolCalls
        BY <1>14, <2>1 DEF Runs, Execute, TypeOK
    <2>5. QED  BY <2>3, <2>4, RunningIsFinite
<1>15. ASSUME NEW c \in Callers, Finish(c) PROVE Reserved'
    <2>1. Tells(c)  BY <1>15, FinishMoves
    <2>2. Running' = Running  BY <2>1 DEF Tells, Alone, Running
    <2>3. QED  BY <1>15, <2>2 DEF Finish
<1>16. CASE UNCHANGED vars
    BY <1>16 DEF vars, Running
<1>17. QED
    BY <1>1, <1>2, <1>3, <1>4, <1>5, <1>6, <1>7, <1>8, <1>9, <1>10, <1>11, <1>12, <1>13,
       <1>14, <1>15, <1>16 DEF Next, CallerStep

(* All of it together is kept by every step, and so always holds.           *)
LEMMA Inductive == IInv /\ Reserved /\ [Next]_vars => IInv' /\ Reserved'
BY KeepsTypes, KeepsRequests, KeepsEntitled, KeepsSoleSpender, KeepsReadsOnly, KeepsOutcomes,
   KeepsWrites, KeepsReserved DEF IInv

LEMMA Invariant == Spec => [](IInv /\ Reserved)
BY Initially, Inductive, PTL DEF Spec

-----------------------------------------------------------------------------
(* Theorems.                                                                *)

(* The gateway, the authority and the budget keep the types of their state. *)
THEOREM GatewayTypes == Spec => []TypeOK
<1>1. IInv => TypeOK  BY DEF IInv
<1>2. QED  BY <1>1, Invariant, PTL

(* However many threads race with one token, and whatever a handler does    *)
(* after its write, an approval is good for one write, the approved one     *)
(* (ApprovalAuthority._consume, ToolGateway.invoke_write).                  *)
THEOREM ApprovalsBuyOneWrite == Spec => []OneWritePerApproval
<1>1. IInv => OneWritePerApproval  BY DEF IInv
<1>2. QED  BY <1>1, Invariant, PTL

(* Retries and concurrent calls included, no more handlers run than the     *)
(* budget has tool calls (RunBudget.reserve_tool).                          *)
THEOREM QuotaIsKept == Spec => []QuotaHolds
<1>1. IInv /\ Reserved => QuotaHolds
    <2>1. SUFFICES ASSUME IInv, Reserved PROVE handled <= MaxTools
        BY DEF QuotaHolds
    <2>2. toolCalls \in 0 .. MaxTools /\ handled \in Nat
        BY <2>1 DEF IInv, TypeOK
    <2>3. QED  BY <2>1, <2>2, RunningIsFinite DEF Reserved
<1>2. QED  BY <1>1, Invariant, PTL

-----------------------------------------------------------------------------
(* The audit, where a log is kept by one caller at a time: with two, a call *)
(* may be given the id of another (start_call).                             *)

OneAtATime == \A u \in Uses : u.log => \A c, d \in u.callers : c = d

Recorded(a, w) == Position("approval_recorded", a, w)

(* What the log says of an approval is how far it has come.                 *)
Trails ==
    \A a \in Approvals :
        /\ decision[a] = "none" => Recorded(a, "requested") = {}
        /\ decision[a] \in {"none", "requested"} => Recorded(a, "granted") = {}
        /\ decision[a] \in {"none", "requested", "granted"} => Recorded(a, "consumed") = {}
        /\ decision[a] # "refused" => Recorded(a, "refused") = {}
        /\ decision[a] = "requested" => \E q : Recorded(a, "requested") = {q}
        /\ decision[a] = "granted" =>
              \E q, g : /\ Recorded(a, "requested") = {q} /\ Recorded(a, "granted") = {g}
                        /\ q < g
        /\ decision[a] = "consumed" =>
              \E q, g, u : /\ Recorded(a, "requested") = {q} /\ Recorded(a, "granted") = {g}
                           /\ Recorded(a, "consumed") = {u} /\ q < g /\ g < u

(* A call that has its id was given one the log had not finished.           *)
HasId == {"start", "decide", "reserve", "run", "finish"}

IdsIssued ==
    \A c \in Callers :
        /\ pc[c] = "start" => id[c] <= Len(events)
        /\ pc[c] \in HasId \ {"start"} => id[c] < Len(events)
        /\ pc[c] \in HasId => ~Finished(id[c])

(* And no call to come is given an id that was used.                        *)
IdsPast ==
    /\ \A n \in DOMAIN events : events[n].kind = "call_finished" =>
          events[n].of \in Nat /\ events[n].of < Len(events)
    /\ \A a \in Approvals : \A n \in DOMAIN written[a] : written[a][n].id < Len(events)

(* A token was consumed inside the call that writes on it.                  *)
SpentInside ==
    /\ \A c \in Callers : MayWrite(c) =>
          \A u \in Recorded(call[c].token, "consumed") : id[c] + 1 < u
    /\ \A a \in Approvals : \A n \in DOMAIN written[a] :
          \A u \in Recorded(a, "consumed") : written[a][n].id + 1 < u

(* The call that wrote was not denied, and will not be.                     *)
NeverDenied ==
    \A a \in Approvals : \A n \in DOMAIN written[a] :
        /\ Position("call_finished", written[a][n].id, "denied") = {}
        /\ \A c \in Callers : pc[c] \in HasId /\ id[c] = written[a][n].id =>
              pc[c] = "finish" /\ outcome[c] # "denied"

Calls == IdsIssued /\ IdsPast /\ SpentInside /\ NeverDenied

(* A start is recorded after the id it carries was taken, once for an id,   *)
(* and what a call has done by then is what it knows of itself.             *)
StartsPast ==
    \A n \in DOMAIN events : events[n].kind = "call_started" =>
        events[n].of \in Nat /\ events[n].of < n

HasStarted ==
    \A c \in Callers :
        /\ pc[c] = "start" => Starts(id[c]) = {}
        /\ pc[c] \in Underway =>
              \E n \in DOMAIN events : Starts(id[c]) = {n} /\ events[n].what = call[c].tool
        /\ pc[c] = "finish" => (call[c].wrote <=> Wrote(id[c]))

Accounts == StartsPast /\ HasStarted /\ OutcomesAreTrue

InUse == \A c \in Callers : pc[c] # "idle" => c \in use.callers

AuditInv == InUse /\ (use.log => Trails /\ Calls /\ Accounts)

(* What an append does to the positions of the records.                     *)
LEMMA Appended ==
    ASSUME TypeOK, NEW k, NEW o, NEW w,
           events' = Append(events, [kind |-> k, of |-> o, what |-> w])
    PROVE  /\ Len(events) \in Nat /\ Len(events') = Len(events) + 1
           /\ DOMAIN events = 1 .. Len(events) /\ DOMAIN events' = 1 .. Len(events) + 1
           /\ \A n \in DOMAIN events : events'[n] = events[n]
           /\ events'[Len(events) + 1] = [kind |-> k, of |-> o, what |-> w]
           /\ Position(k, o, w)' = Position(k, o, w) \cup {Len(events) + 1}
           /\ \A j, p, v : j # k \/ p # o \/ v # w => Position(j, p, v)' = Position(j, p, v)
<1> DEFINE e == [kind |-> k, of |-> o, what |-> w]
<1>1. /\ Len(events) \in Nat /\ Len(events') = Len(events) + 1
      /\ DOMAIN events = 1 .. Len(events) /\ DOMAIN events' = 1 .. Len(events) + 1
      /\ \A n \in DOMAIN events : events'[n] = events[n]
      /\ events'[Len(events) + 1] = e
    BY DEF TypeOK
<1>2. DOMAIN events' = DOMAIN events \cup {Len(events) + 1}
    BY <1>1
<1>3. Position(k, o, w)' = Position(k, o, w) \cup {Len(events) + 1}
    BY <1>1, <1>2 DEF Position
<1>4. ASSUME NEW j, NEW p, NEW v, j # k \/ p # o \/ v # w
      PROVE  Position(j, p, v)' = Position(j, p, v)
    <2>1. e # [kind |-> j, of |-> p, what |-> v]
        BY <1>4
    <2> QED  BY <1>1, <1>2, <2>1 DEF Position
<1> QED  BY <1>1, <1>3, <1>4

(* While one caller is in a call, there is no other one.                    *)
LEMMA Lone ==
    ASSUME OneAtATime, IInv, AuditInv, use.log, NEW c \in Callers, CallerStep(c)
    PROVE  /\ \A d \in Callers : d # c => pc[d] = "idle" /\ pc'[d] = "idle"
           /\ use' = use /\ InUse'
<1>1. /\ use' = use /\ use \in Uses
      /\ pc \in [Callers -> PCs]
    BY DEF CallerStep, Invoke, IssueId, StartCall, DecideRead, Consume, RefuseWrite, Reserve,
           Execute, Finish, IInv, TypeOK
<1>2. \A d \in Callers : d # c => pc'[d] = pc[d]
    BY <1>1 DEF CallerStep, Invoke, IssueId, StartCall, DecideRead, Consume, RefuseWrite,
                Reserve, Execute, Finish, Returns
<1>3. c \in use.callers
    BY DEF AuditInv, InUse, CallerStep, Invoke, IssueId, StartCall, DecideRead, Consume,
           RefuseWrite, Reserve, Execute, Finish
<1>4. \A d \in Callers : d # c => pc[d] = "idle"
    BY <1>1, <1>3 DEF AuditInv, InUse, OneAtATime
<1>5. InUse'
    BY <1>1, <1>2, <1>3, <1>4 DEF InUse
<1> QED  BY <1>1, <1>2, <1>4, <1>5

(* A step that records nothing of an approval.                              *)
LEMMA TrailsStay ==
    ASSUME Trails, UNCHANGED decision,
           \A a \in Approvals : \A w \in {"requested", "granted", "refused", "consumed"} :
              Recorded(a, w)' = Recorded(a, w)
    PROVE  Trails'
BY DEF Trails

(* One that records what became of an approval just now.                    *)
LEMMA TrailGrows ==
    ASSUME IInv, Trails, NEW a \in Approvals, NEW w \in {"requested", "granted", "refused",
                                                         "consumed"},
           \/ decision[a] = "none" /\ w = "requested"
           \/ decision[a] = "requested" /\ w \in {"granted", "refused"}
           \/ decision[a] = "granted" /\ w = "consumed",
           decision' = [decision EXCEPT ![a] = w],
           events' = Append(events, [kind |-> "approval_recorded", of |-> a, what |-> w])
    PROVE  Trails'
<1> DEFINE last == Len(events) + 1
<1>1. /\ Recorded(a, w)' = Recorded(a, w) \cup {last}
      /\ \A b, v : b # a \/ v # w => Recorded(b, v)' = Recorded(b, v)
      /\ DOMAIN events = 1 .. Len(events) /\ Len(events) \in Nat
    BY Appended DEF IInv, Recorded
<1>2. \A b, v : \A n \in Recorded(b, v) : n \in Int /\ n < last
    BY <1>1 DEF Recorded, Position
<1>3. decision'[a] = w /\ \A b \in Approvals : b # a => decision'[b] = decision[b]
    BY DEF IInv, TypeOK
<1> HIDE DEF last
<1> DEFINE Trail(b) ==
              /\ decision'[b] = "none" => Recorded(b, "requested")' = {}
              /\ decision'[b] \in {"none", "requested"} => Recorded(b, "granted")' = {}
              /\ decision'[b] \in {"none", "requested", "granted"} =>
                    Recorded(b, "consumed")' = {}
              /\ decision'[b] # "refused" => Recorded(b, "refused")' = {}
              /\ decision'[b] = "requested" => \E q : Recorded(b, "requested")' = {q}
              /\ decision'[b] = "granted" =>
                    \E q, g : /\ Recorded(b, "requested")' = {q}
                              /\ Recorded(b, "granted")' = {g} /\ q < g
              /\ decision'[b] = "consumed" =>
                    \E q, g, u : /\ Recorded(b, "requested")' = {q}
                                 /\ Recorded(b, "granted")' = {g}
                                 /\ Recorded(b, "consumed")' = {u} /\ q < g /\ g < u
<1>4. ASSUME NEW b \in Approvals, b # a
      PROVE  Trail(b)
    <2>1. /\ decision'[b] = decision[b]
          /\ Recorded(b, "requested")' = Recorded(b, "requested")
          /\ Recorded(b, "granted")' = Recorded(b, "granted")
          /\ Recorded(b, "refused")' = Recorded(b, "refused")
          /\ Recorded(b, "consumed")' = Recorded(b, "consumed")
        BY <1>1, <1>3, <1>4
    <2> QED  BY <2>1 DEF Trails
<1>5. Trail(a)
    <2>1. CASE decision[a] = "none" /\ w = "requested"
        BY <1>1, <1>3, <2>1 DEF Trails
    <2>2. CASE decision[a] = "requested" /\ w = "granted"
        <3>1. PICK q : Recorded(a, "requested") = {q}
            BY <2>2 DEF Trails
        <3>2. Recorded(a, "granted") = {} /\ Recorded(a, "consumed") = {}
              /\ Recorded(a, "refused") = {}
            BY <2>2 DEF Trails
        <3>3. q < last
            BY <1>2, <3>1
        <3> QED  BY <1>1, <1>3, <2>2, <3>1, <3>2, <3>3
    <2>3. CASE decision[a] = "requested" /\ w = "refused"
        BY <1>3, <2>3
    <2>4. CASE decision[a] = "granted" /\ w = "consumed"
        <3>1. PICK q, g : /\ Recorded(a, "requested") = {q} /\ Recorded(a, "granted") = {g}
                          /\ q < g
            BY <2>4 DEF Trails
        <3>2. Recorded(a, "consumed") = {} /\ Recorded(a, "refused") = {}
            BY <2>4 DEF Trails
        <3>3. g < last
            BY <1>2, <3>1
        <3> QED  BY <1>1, <1>3, <2>4, <3>1, <3>2, <3>3
    <2> QED  BY <2>1, <2>2, <2>3, <2>4
<1> QED  BY <1>4, <1>5 DEF Trails

(* Only the answers about an approval and its use make a trail longer.      *)
LEMMA KeepsTrails ==
    ASSUME IInv, AuditInv, use.log, [Next]_vars
    PROVE  Trails'
<1>0. Trails
    BY DEF AuditInv
<1>1. ASSUME UNCHANGED <<events, decision>>
      PROVE  Trails'
    <2>1. \A a, w : Recorded(a, w)' = Recorded(a, w)
        BY <1>1 DEF Recorded, Position
    <2> QED  BY <1>0, <1>1, <2>1, TrailsStay
<1>2. ASSUME UNCHANGED decision, NEW k, NEW o, NEW w,
             k # "approval_recorded" \/ w = "rejected",
             events' = Append(events, [kind |-> k, of |-> o, what |-> w])
      PROVE  Trails'
    <2>1. \A a \in Approvals : \A v \in {"requested", "granted", "refused", "consumed"} :
             Recorded(a, v)' = Recorded(a, v)
        BY <1>2, Appended DEF IInv, Recorded
    <2> QED  BY <1>0, <1>2, <2>1, TrailsStay
<1>3. CASE RunsOut
    BY <1>1, <1>3 DEF RunsOut
<1>4. CASE RepoMoves
    BY <1>1, <1>4 DEF RepoMoves
<1>5. CASE WallSetBack
    BY <1>1, <1>5 DEF WallSetBack
<1>6. ASSUME NEW a \in Approvals, Request(a) PROVE Trails'
    BY <1>0, <1>6, TrailGrows DEF Request, Log
<1>7. ASSUME NEW a \in Approvals, NEW yes \in BOOLEAN, Answer(a, yes) PROVE Trails'
    <2> DEFINE w == IF yes THEN "granted" ELSE "refused"
    <2>1. decision' = [decision EXCEPT ![a] = w] /\ decision[a] = "requested"
        BY <1>7 DEF Answer
    <2>2. decision'[a] = w
        BY <2>1 DEF IInv, TypeOK
    <2>3. events' = Append(events, [kind |-> "approval_recorded", of |-> a, what |-> w])
        BY <1>7, <2>2 DEF Answer, Log
    <2> QED  BY <1>0, <2>1, <2>3, TrailGrows
<1>8. ASSUME NEW a \in Approvals, Ages(a) PROVE Trails'
    BY <1>1, <1>8 DEF Ages
<1>9. ASSUME NEW c \in Callers, Invoke(c) PROVE Trails'
    BY <1>1, <1>9 DEF Invoke
<1>10. ASSUME NEW c \in Callers, IssueId(c) PROVE Trails'
    BY <1>1, <1>10 DEF IssueId
<1>11. ASSUME NEW c \in Callers, StartCall(c) PROVE Trails'
    BY <1>2, <1>11 DEF StartCall, Log
<1>12. ASSUME NEW c \in Callers, DecideRead(c) PROVE Trails'
    BY <1>1, <1>12 DEF DecideRead
<1>13. ASSUME NEW c \in Callers, Consume(c) PROVE Trails'
    <2> DEFINE a == call[c].token
    <2>1. CASE Covers(a, call[c].operation)
        <3>1. /\ decision' = [decision EXCEPT ![a] = "consumed"]
              /\ events' = Append(events, [kind |-> "approval_recorded", of |-> a,
                                           what |-> "consumed"])
            BY <1>13, <2>1 DEF Consume, Log
        <3>2. a \in Approvals /\ decision[a] = "granted"
            BY <2>1 DEF Covers
        <3> QED  BY <1>0, <3>1, <3>2, TrailGrows
    <2>2. CASE ~Covers(a, call[c].operation)
        BY <1>2, <1>13, <2>2 DEF Consume, Log
    <2> QED  BY <2>1, <2>2
<1>14. ASSUME NEW c \in Callers, RefuseWrite(c) PROVE Trails'
    BY <1>1, <1>14 DEF RefuseWrite
<1>15. ASSUME NEW c \in Callers, Reserve(c) PROVE Trails'
    BY <1>1, <1>15 DEF Reserve
<1>16. ASSUME NEW c \in Callers, Execute(c) PROVE Trails'
    BY <1>1, <1>16 DEF Execute
<1>17. ASSUME NEW c \in Callers, Finish(c) PROVE Trails'
    <2>1. UNCHANGED decision
        BY <1>17 DEF Finish
    <2>2. events' = events \/ \E w : events' =
             Append(events, [kind |-> "call_finished", of |-> id[c], what |-> w])
        BY <1>17 DEF Finish, Log
    <2>3. CASE events' # events
        <3>1. PICK w : events' =
                 Append(events, [kind |-> "call_finished", of |-> id[c], what |-> w])
            BY <2>2, <2>3
        <3>2. "call_finished" # "approval_recorded"
            OBVIOUS
        <3> QED  BY <1>2, <2>1, <3>1, <3>2
    <2> QED  BY <1>1, <2>1, <2>3
<1>18. CASE UNCHANGED vars
    BY <1>1, <1>18 DEF vars
<1> QED
    BY <1>3, <1>4, <1>5, <1>6, <1>7, <1>8, <1>9, <1>10, <1>11, <1>12, <1>13, <1>14, <1>15,
       <1>16, <1>17, <1>18 DEF Next, CallerStep

LEMMA WrittenIds ==
    ASSUME IInv
    PROVE  \A a \in Approvals : \A n \in DOMAIN written[a] : written[a][n].id \in Nat
<1> TAKE a \in Approvals
<1>1. written[a] \in Seq(Write)
    BY DEF IInv, TypeOK
<1>2. \A n \in DOMAIN written[a] : written[a][n] \in Write
    BY <1>1
<1> QED  BY <1>2 DEF Write

(* A step outside the calls: nothing is recorded, or something of an        *)
(* approval that is not its use.                                            *)
LEMMA OutsideCalls ==
    ASSUME IInv, Calls, UNCHANGED <<callerVars, written>>,
           \/ events' = events
           \/ \E o : \E w \in {"requested", "granted", "refused"} :
                 events' = Append(events, [kind |-> "approval_recorded", of |-> o, what |-> w])
    PROVE  Calls'
<1>1. CASE events' = events
    BY <1>1 DEF Calls, IdsIssued, IdsPast, SpentInside, NeverDenied, MayWrite, Finished,
                Recorded, Position
<1>2. CASE events' # events
    <2>0. PICK o : \E w \in {"requested", "granted", "refused"} :
             events' = Append(events, [kind |-> "approval_recorded", of |-> o, what |-> w])
        BY <1>2
    <2>1. PICK w \in {"requested", "granted", "refused"} :
             events' = Append(events, [kind |-> "approval_recorded", of |-> o, what |-> w])
        BY <2>0
    <2>2. /\ Len(events) \in Nat /\ Len(events') = Len(events) + 1
          /\ DOMAIN events = 1 .. Len(events) /\ DOMAIN events' = 1 .. Len(events) + 1
          /\ \A n \in DOMAIN events : events'[n] = events[n]
          /\ events'[Len(events) + 1].kind = "approval_recorded"
          /\ \A a : Recorded(a, "consumed")' = Recorded(a, "consumed")
          /\ \A i : Position("call_finished", i, "denied")' =
                       Position("call_finished", i, "denied")
        BY <2>1, Appended DEF IInv, Recorded
    <2>3. \A n \in DOMAIN events' : events'[n].kind = "call_finished" =>
             n \in DOMAIN events /\ events'[n] = events[n]
        BY <2>2
    <2>4. \A i : Finished(i)' <=> Finished(i)
        BY <2>2, <2>3 DEF Finished
    <2>5. \A i \in Int : /\ i < Len(events) => i < Len(events')
                         /\ i <= Len(events) => i <= Len(events')
        BY <2>2
    <2>6. IdsIssued'
        <3>1. \A c \in Callers : id[c] \in Int
            BY DEF IInv, TypeOK
        <3> QED  BY <2>4, <2>5, <3>1 DEF Calls, IdsIssued
    <2>7. IdsPast'
        <3> QED  BY <2>3, <2>5, WrittenIds DEF Calls, IdsPast
    <2>8. SpentInside'
        BY <2>2 DEF Calls, SpentInside, MayWrite
    <2>9. NeverDenied'
        BY <2>2 DEF Calls, NeverDenied
    <2> QED  BY <2>6, <2>7, <2>8, <2>9 DEF Calls
<1> QED  BY <1>1, <1>2

(* A step of a call that records nothing and writes nothing.                *)
LEMMA QuietCall ==
    ASSUME IInv, Calls, NEW c \in Callers, UNCHANGED <<events, id, written>>,
           \A d \in Callers : d # c => pc'[d] = "idle",
           pc'[c] \in HasId => pc[c] \in {"decide", "reserve"} /\ pc'[c] # "start",
           MayWrite(c)' => MayWrite(c) /\ call'[c].token = call[c].token
    PROVE  Calls'
<1>1. /\ \A d \in Callers : pc'[d] \in HasId => d = c
      /\ \A d \in Callers : MayWrite(d)' => d = c
    BY DEF HasId, MayWrite
<1>2. /\ \A a, w : Recorded(a, w)' = Recorded(a, w)
      /\ \A i : Position("call_finished", i, "denied")' = Position("call_finished", i, "denied")
      /\ \A i : Finished(i)' <=> Finished(i)
    BY DEF Recorded, Position, Finished
<1>3. IdsIssued'
    <2>1. \A d \in Callers : pc'[d] = "start" => FALSE
        BY <1>1 DEF HasId
    <2>2. \A d \in Callers : pc'[d] \in HasId => id[d] < Len(events) /\ ~Finished(id[d])
        BY <1>1 DEF Calls, IdsIssued, HasId
    <2> QED  BY <1>2, <2>1, <2>2 DEF IdsIssued
<1>4. IdsPast'
    BY DEF Calls, IdsPast
<1>5. SpentInside'
    BY <1>1, <1>2 DEF Calls, SpentInside
<1>6. NeverDenied'
    <2>1. \A a \in Approvals : \A n \in DOMAIN written[a] :
             pc'[c] \in HasId => id[c] # written[a][n].id
        BY DEF Calls, NeverDenied, HasId
    <2> QED  BY <1>1, <1>2, <2>1 DEF Calls, NeverDenied
<1> QED  BY <1>3, <1>4, <1>5, <1>6 DEF Calls

(* The id of a call is the length of the log, which no finished call and no *)
(* write has had.                                                           *)
LEMMA IssueIdKeeps ==
    ASSUME IInv, Calls, NEW c \in Callers, IssueId(c),
           \A d \in Callers : d # c => pc'[d] = "idle"
    PROVE  Calls'
<1>1. /\ pc'[c] = "start" /\ id'[c] = Len(events)
      /\ UNCHANGED <<events, written, call, outcome>>
    BY DEF IssueId, IInv, TypeOK
<1>2. /\ \A d \in Callers : pc'[d] \in HasId => d = c
      /\ \A d \in Callers : ~MayWrite(d)'
    BY <1>1 DEF HasId, MayWrite
<1>3. /\ \A a, w : Recorded(a, w)' = Recorded(a, w)
      /\ \A i : Position("call_finished", i, "denied")' = Position("call_finished", i, "denied")
      /\ \A i : Finished(i)' <=> Finished(i)
    BY <1>1 DEF Recorded, Position, Finished
<1>4. Len(events) \in Nat
    BY DEF IInv, TypeOK
<1>5. IdsIssued'
    <2>1. ~Finished(Len(events))
        BY <1>4 DEF Calls, IdsPast, Finished
    <2>2. \A d \in Callers : pc'[d] = "start" \/ pc'[d] \notin HasId
        BY <1>1, <1>2
    <2>3. id'[c] <= Len(events')
        BY <1>1, <1>4
    <2> QED  BY <1>1, <1>2, <1>3, <2>1, <2>2, <2>3 DEF IdsIssued, HasId
<1>6. IdsPast'
    BY <1>1 DEF Calls, IdsPast
<1>7. SpentInside'
    BY <1>1, <1>2, <1>3 DEF Calls, SpentInside
<1>8. NeverDenied'
    <2>1. \A a \in Approvals : \A n \in DOMAIN written[a] : written[a][n].id # Len(events)
        BY <1>4, WrittenIds DEF Calls, IdsPast
    <2> QED  BY <1>1, <1>2, <1>3, <2>1 DEF Calls, NeverDenied
<1> QED  BY <1>5, <1>6, <1>7, <1>8 DEF Calls

LEMMA StartCallKeeps ==
    ASSUME IInv, Calls, use.log, NEW c \in Callers, StartCall(c),
           \A d \in Callers : d # c => pc'[d] = "idle"
    PROVE  Calls'
<1>1. /\ pc[c] = "start" /\ pc'[c] \in {"decide", "reserve"}
      /\ pc'[c] = "reserve" => call[c].kind = "invoke"
      /\ UNCHANGED <<written, call, outcome, id>>
      /\ events' = Append(events, [kind |-> "call_started", of |-> id[c],
                                      what |-> call[c].tool])
    BY DEF StartCall, Log, IInv, TypeOK, ReadsOnly
<1>2. /\ \A d \in Callers : pc'[d] \in HasId => d = c
      /\ \A d \in Callers : ~MayWrite(d)'
    BY <1>1 DEF HasId, MayWrite
<1>3. /\ Len(events) \in Nat /\ Len(events') = Len(events) + 1
      /\ DOMAIN events = 1 .. Len(events) /\ DOMAIN events' = 1 .. Len(events) + 1
      /\ \A n \in DOMAIN events : events'[n] = events[n]
      /\ events'[Len(events) + 1].kind = "call_started"
      /\ \A a, w : Recorded(a, w)' = Recorded(a, w)
      /\ \A i : Position("call_finished", i, "denied")' = Position("call_finished", i, "denied")
    BY <1>1, Appended DEF IInv, Recorded
<1>4. \A n \in DOMAIN events' : events'[n].kind = "call_finished" =>
         n \in DOMAIN events /\ events'[n] = events[n]
    BY <1>3
<1>5. \A i : Finished(i)' <=> Finished(i)
    BY <1>3, <1>4 DEF Finished
<1>6. IdsIssued'
    <2>1. id[c] \in Nat /\ id[c] <= Len(events) /\ ~Finished(id[c])
        BY <1>1 DEF Calls, IdsIssued, HasId, IInv, TypeOK
    <2>2. id[c] < Len(events') /\ id[c] <= Len(events')
        BY <1>3, <2>1
    <2> QED  BY <1>1, <1>2, <1>5, <2>1, <2>2 DEF IdsIssued, HasId
<1>7. IdsPast'
    <2>1. \A i \in Int : i < Len(events) => i < Len(events')
        BY <1>3
    <2> QED  BY <1>1, <1>4, <2>1, WrittenIds DEF Calls, IdsPast
<1>8. SpentInside'
    BY <1>1, <1>2, <1>3 DEF Calls, SpentInside
<1>9. NeverDenied'
    <2>1. \A a \in Approvals : \A n \in DOMAIN written[a] : id[c] # written[a][n].id
        BY <1>1 DEF Calls, NeverDenied, HasId
    <2>2. \A d \in Callers, a \in Approvals : \A n \in DOMAIN written[a] :
             ~(pc'[d] \in HasId /\ id[d] = written[a][n].id)
        BY <1>2, <2>1
    <2>3. \A a \in Approvals : \A n \in DOMAIN written[a] :
             Position("call_finished", written[a][n].id, "denied")' = {}
        BY <1>1, <1>3 DEF Calls, NeverDenied
    <2> QED  BY <1>1, <2>2, <2>3 DEF NeverDenied
<1> QED  BY <1>6, <1>7, <1>8, <1>9 DEF Calls

(* A token is consumed in a call that has begun.                            *)
LEMMA ConsumeKeeps ==
    ASSUME IInv, Trails, Calls, use.log, NEW c \in Callers, Consume(c),
           \A d \in Callers : d # c => pc'[d] = "idle"
    PROVE  Calls'
<1>0. PICK a : a = call[c].token
    OBVIOUS
<1>1. /\ pc[c] = "decide" /\ pc'[c] \in {"reserve", "finish"} /\ Spends(c)
      /\ UNCHANGED <<written, id>>
      /\ pc'[c] = "reserve" => Covers(a, call[c].operation)
    BY <1>0, ConsumeMoves DEF Consume, IInv, TypeOK
<1>2. PICK w \in {"consumed", "rejected"} :
         /\ events' = Append(events, [kind |-> "approval_recorded", of |-> a, what |-> w])
         /\ w = "consumed" => Covers(a, call[c].operation)
    BY <1>0 DEF Consume, Log
<1>3. /\ \A d \in Callers : pc'[d] \in HasId => d = c
      /\ \A d \in Callers : MayWrite(d)' => d = c
    BY DEF HasId, MayWrite
<1>4. /\ Len(events) \in Nat /\ Len(events') = Len(events) + 1
      /\ DOMAIN events = 1 .. Len(events) /\ DOMAIN events' = 1 .. Len(events) + 1
      /\ \A n \in DOMAIN events : events'[n] = events[n]
      /\ events'[Len(events) + 1].kind = "approval_recorded"
      /\ Recorded(a, w)' = Recorded(a, w) \cup {Len(events) + 1}
      /\ \A b, v : b # a \/ v # w => Recorded(b, v)' = Recorded(b, v)
      /\ \A i : Position("call_finished", i, "denied")' = Position("call_finished", i, "denied")
    BY <1>2, Appended DEF IInv, Recorded
<1>5. \A n \in DOMAIN events' : events'[n].kind = "call_finished" =>
         n \in DOMAIN events /\ events'[n] = events[n]
    BY <1>4
<1>6. \A i : Finished(i)' <=> Finished(i)
    BY <1>4, <1>5 DEF Finished
<1>7. id[c] \in Nat /\ id[c] < Len(events) /\ ~Finished(id[c])
    BY <1>1 DEF Calls, IdsIssued, HasId, IInv, TypeOK
<1>8. IdsIssued'
    <2>1. id[c] < Len(events')
        BY <1>4, <1>7
    <2>2. \A d \in Callers : pc'[d] # "start"
        BY <1>1
    <2> QED  BY <1>1, <1>3, <1>6, <1>7, <2>1, <2>2 DEF IdsIssued
<1>9. IdsPast'
    <2>1. \A i \in Int : i < Len(events) => i < Len(events')
        BY <1>4
    <2> QED  BY <1>1, <1>5, <2>1, WrittenIds DEF Calls, IdsPast
<1>10. w = "consumed" => a \in Approvals /\ Recorded(a, "consumed") = {} /\ written[a] = <<>>
    BY <1>2 DEF Covers, Trails, IInv, OneWritePerApproval
<1>11. SpentInside'
    <2>1. ASSUME MayWrite(c)', NEW u \in Recorded(a, "consumed")'
          PROVE  id[c] + 1 < u
        <3>1. Covers(a, call[c].operation)
            BY <1>1, <2>1 DEF MayWrite
        <3>2. Recorded(a, "consumed") = {}
            BY <3>1 DEF Covers, Trails
        <3>3. u = Len(events) + 1
            BY <1>4, <2>1, <3>2
        <3> QED  BY <1>4, <1>7, <3>3
    <2>2. ASSUME NEW b \in Approvals, NEW n \in DOMAIN written[b]
          PROVE  \A u \in Recorded(b, "consumed")' : written[b][n].id + 1 < u
        <3>1. DOMAIN <<>> = {}
            OBVIOUS
        <3>2. Recorded(b, "consumed")' = Recorded(b, "consumed")
            BY <1>4, <1>10, <2>2, <3>1
        <3> QED  BY <3>2 DEF Calls, SpentInside
    <2>3. call'[c].token = a
        BY <1>0, <1>1 DEF Spends, SameCall
    <2>4. \A d \in Callers : MayWrite(d)' =>
             \A u \in Recorded(a, "consumed")' : d = c /\ id[d] + 1 < u
        BY <1>3, <2>1
    <2> QED  BY <1>1, <1>3, <2>2, <2>3, <2>4 DEF SpentInside
<1>12. NeverDenied'
    <2>1. \A b \in Approvals : \A n \in DOMAIN written[b] : id[c] # written[b][n].id
        BY <1>1 DEF Calls, NeverDenied, HasId
    <2>2. \A d \in Callers, b \in Approvals : \A n \in DOMAIN written[b] :
             ~(pc'[d] \in HasId /\ id[d] = written[b][n].id)
        BY <1>3, <2>1
    <2>3. \A b \in Approvals : \A n \in DOMAIN written[b] :
             Position("call_finished", written[b][n].id, "denied")' = {}
        BY <1>1, <1>4 DEF Calls, NeverDenied
    <2> QED  BY <1>1, <2>2, <2>3 DEF NeverDenied
<1> QED  BY <1>8, <1>9, <1>11, <1>12 DEF Calls

(* The handler's write has the id of the call, and is not denied.           *)
LEMMA ExecuteKeeps ==
    ASSUME IInv, Calls, NEW c \in Callers, Execute(c),
           \A d \in Callers : d # c => pc'[d] = "idle"
    PROVE  Calls'
<1>1. /\ pc[c] = "run" /\ pc'[c] = "finish" /\ outcome'[c] \in {"ok", "failed"} /\ Runs(c)
      /\ UNCHANGED <<events, id>>
    BY ExecuteMoves DEF Execute, Runs
<1>2. /\ \A d \in Callers : pc'[d] \in HasId => d = c
      /\ \A d \in Callers : ~MayWrite(d)'
    BY <1>1 DEF HasId, MayWrite
<1>3. /\ \A a, w : Recorded(a, w)' = Recorded(a, w)
      /\ \A i : Position("call_finished", i, "denied")' = Position("call_finished", i, "denied")
      /\ \A i : Finished(i)' <=> Finished(i)
    BY <1>1 DEF Recorded, Position, Finished
<1>4. id[c] \in Nat /\ id[c] < Len(events) /\ ~Finished(id[c])
    BY <1>1 DEF Calls, IdsIssued, HasId, IInv, TypeOK
<1>5. ASSUME NEW a \in Approvals, NEW n \in DOMAIN written'[a]
      PROVE  \/ n \in DOMAIN written[a] /\ written'[a][n] = written[a][n]
             \/ /\ written'[a][n].id = id[c] /\ MayWrite(c) /\ a = call[c].token
    <2>1. CASE ~call'[c].wrote
        BY <1>1, <1>5, <2>1 DEF Runs
    <2>2. CASE call'[c].wrote
        <3> DEFINE w == [args |-> call[c].operation.args, id |-> id[c]]
        <3>1. MayWrite(c)
            BY <1>1, <2>2 DEF Runs, MayWrite, ReadsOnly, IInv, TypeOK, Call
        <3>2. written[call[c].token] = <<>> /\ call[c].token \in Approvals
            BY <3>1 DEF IInv, Entitled
        <3>3. written' = [written EXCEPT ![call[c].token] = Append(<<>>, w)]
            BY <1>1, <2>2, <3>2 DEF Runs
        <3>4. DOMAIN Append(<<>>, w) = {1} /\ Append(<<>>, w)[1] = w
            OBVIOUS
        <3>5. CASE a = call[c].token
            <4>1. written'[a] = Append(<<>>, w)
                BY <3>2, <3>3, <3>5 DEF IInv, TypeOK
            <4>2. written'[a][n] = w
                BY <1>5, <3>4, <4>1
            <4> QED  BY <3>1, <3>5, <4>2
        <3>6. CASE a # call[c].token
            BY <1>5, <3>3, <3>6 DEF IInv, TypeOK
        <3> QED  BY <3>5, <3>6
    <2> QED  BY <2>1, <2>2
<1>6. IdsIssued'
    BY <1>1, <1>2, <1>3, <1>4 DEF IdsIssued
<1>7. IdsPast'
    BY <1>1, <1>4, <1>5 DEF Calls, IdsPast
<1>8. SpentInside'
    <2>1. ASSUME NEW a \in Approvals, NEW n \in DOMAIN written'[a],
                 NEW u \in Recorded(a, "consumed")
          PROVE  written'[a][n].id + 1 < u
        BY <1>5 DEF Calls, SpentInside
    <2> QED  BY <1>2, <1>3, <2>1 DEF SpentInside
<1>9. NeverDenied'
    <2>1. Position("call_finished", id[c], "denied") = {}
        BY <1>4 DEF Finished, Position
    <2>2. \A a \in Approvals : \A n \in DOMAIN written'[a] :
             Position("call_finished", written'[a][n].id, "denied") = {}
        BY <1>5, <2>1 DEF Calls, NeverDenied
    <2>3. \A d \in Callers : pc'[d] \in HasId => pc'[d] = "finish" /\ outcome'[d] # "denied"
        BY <1>1, <1>2
    <2> QED  BY <1>3, <2>2, <2>3 DEF NeverDenied
<1> QED  BY <1>6, <1>7, <1>8, <1>9 DEF Calls

LEMMA FinishKeeps ==
    ASSUME IInv, Calls, use.log, NEW c \in Callers, Finish(c),
           \A d \in Callers : d # c => pc'[d] = "idle"
    PROVE  Calls'
<1>1. /\ pc[c] = "finish" /\ pc'[c] \in {"idle", "issue"} /\ UNCHANGED written
    BY FinishMoves DEF Finish, Tells
<1>2. \A d \in Callers : pc'[d] \notin HasId /\ ~MayWrite(d)'
    BY <1>1 DEF HasId, MayWrite
<1>3. IdsIssued'
    BY <1>2 DEF IdsIssued, HasId
<1>4. CASE events' = events
    <2>1. IdsPast'
        BY <1>1, <1>4 DEF Calls, IdsPast
    <2>2. SpentInside' /\ NeverDenied'
        <3>1. /\ \A a, w : Recorded(a, w)' = Recorded(a, w)
              /\ \A i : Position("call_finished", i, "denied")' =
                           Position("call_finished", i, "denied")
            BY <1>4 DEF Recorded, Position
        <3> QED  BY <1>1, <1>2, <3>1 DEF Calls, SpentInside, NeverDenied
    <2> QED  BY <1>3, <2>1, <2>2 DEF Calls
<1>5. CASE events' # events
    <2>1. PICK w \in Outcomes :
             /\ events' = Append(events, [kind |-> "call_finished", of |-> id[c], what |-> w])
             /\ w = outcome[c]
        <3>1. outcome[c] \in Outcomes
            BY DEF IInv, TypeOK
        <3> QED  BY <1>5, <3>1 DEF Finish, Log
    <2>2. /\ Len(events) \in Nat /\ Len(events') = Len(events) + 1
          /\ DOMAIN events = 1 .. Len(events) /\ DOMAIN events' = 1 .. Len(events) + 1
          /\ \A n \in DOMAIN events : events'[n] = events[n]
          /\ events'[Len(events) + 1].of = id[c]
          /\ \A a, v : Recorded(a, v)' = Recorded(a, v)
          /\ \A i : i # id[c] \/ w # "denied" =>
                Position("call_finished", i, "denied")' = Position("call_finished", i, "denied")
        BY <2>1, Appended DEF IInv, Recorded
    <2>3. id[c] \in Nat /\ id[c] < Len(events)
        BY <1>1 DEF Calls, IdsIssued, HasId, IInv, TypeOK
    <2>4. \A i \in Int : i < Len(events) => i < Len(events')
        BY <2>2
    <2>5. IdsPast'
        <3>1. \A n \in DOMAIN events' : n \in DOMAIN events \/ n = Len(events) + 1
            BY <2>2
        <3>2. \A n \in DOMAIN events' : events'[n].kind = "call_finished" =>
                 events'[n].of \in Nat /\ events'[n].of < Len(events')
            BY <2>2, <2>3, <2>4, <3>1 DEF Calls, IdsPast
        <3> QED  BY <1>1, <2>4, <3>2, WrittenIds DEF Calls, IdsPast
    <2>6. SpentInside'
        BY <1>1, <1>2, <2>2 DEF Calls, SpentInside
    <2>7. NeverDenied'
        <3>1. \A a \in Approvals : \A n \in DOMAIN written[a] :
                 written[a][n].id # id[c] \/ w # "denied"
            BY <1>1, <2>1 DEF Calls, NeverDenied, HasId
        <3>2. ASSUME NEW a \in Approvals, NEW n \in DOMAIN written[a], NEW i,
                     i = written[a][n].id
              PROVE  Position("call_finished", i, "denied")' = {}
            <4>1. Position("call_finished", i, "denied") = {}
                BY <3>2 DEF Calls, NeverDenied
            <4>2. i # id[c] \/ w # "denied"
                BY <3>1, <3>2
            <4> QED  BY <2>2, <4>1, <4>2
        <3> QED  BY <1>1, <1>2, <3>2 DEF NeverDenied
    <2> QED  BY <1>3, <2>5, <2>6, <2>7 DEF Calls
<1> QED  BY <1>4, <1>5

(* Every step keeps the calls and the log in line.                          *)
LEMMA KeepsCalls ==
    ASSUME OneAtATime, IInv, AuditInv, use.log, [Next]_vars
    PROVE  Calls'
<1>0. Trails /\ Calls
    BY DEF AuditInv
<1>1. ASSUME UNCHANGED <<callerVars, written, events>>
      PROVE  Calls'
    BY <1>0, <1>1, OutsideCalls
<1>2. CASE RunsOut \/ RepoMoves \/ WallSetBack \/ UNCHANGED vars
    BY <1>1, <1>2 DEF RunsOut, RepoMoves, WallSetBack, vars
<1>3. ASSUME NEW a \in Approvals, Request(a)
      PROVE  Calls'
    <2>1. events' = Append(events, [kind |-> "approval_recorded", of |-> a,
                                    what |-> "requested"])
        BY <1>3 DEF Request, Log
    <2>2. UNCHANGED <<callerVars, written>>
        BY <1>3 DEF Request
    <2> QED  BY <1>0, <2>1, <2>2, OutsideCalls
<1>4. ASSUME NEW a \in Approvals, NEW yes \in BOOLEAN, Answer(a, yes)
      PROVE  Calls'
    <2> DEFINE w == IF yes THEN "granted" ELSE "refused"
    <2>1. decision'[a] = w
        BY <1>4 DEF Answer, IInv, TypeOK
    <2>2. events' = Append(events, [kind |-> "approval_recorded", of |-> a, what |-> w])
        BY <1>4, <2>1 DEF Answer, Log
    <2>3. UNCHANGED <<callerVars, written>>
        BY <1>4 DEF Answer
    <2>4. w \in {"requested", "granted", "refused"}
        OBVIOUS
    <2> HIDE DEF w
    <2> QED  BY <1>0, <2>2, <2>3, <2>4, OutsideCalls
<1>5. ASSUME NEW a \in Approvals, Ages(a)
      PROVE  Calls'
    BY <1>1, <1>5 DEF Ages
<1>6. ASSUME NEW c \in Callers, CallerStep(c)
      PROVE  Calls'
    <2>1. \A d \in Callers : d # c => pc'[d] = "idle"
        BY <1>6, Lone
    <2>2. CASE Invoke(c)
        <3>1. UNCHANGED <<events, id, written>> /\ pc'[c] = "issue"
            BY <2>2 DEF Invoke, IInv, TypeOK
        <3>2. pc'[c] \notin HasId /\ ~MayWrite(c)'
            BY <3>1 DEF HasId, MayWrite
        <3> QED  BY <1>0, <2>1, <3>1, <3>2, QuietCall
    <2>3. CASE IssueId(c)
        BY <1>0, <2>1, <2>3, IssueIdKeeps
    <2>4. CASE StartCall(c)
        BY <1>0, <2>1, <2>4, StartCallKeeps
    <2>5. CASE DecideRead(c)
        <3>1. /\ UNCHANGED <<events, id, written, call>> /\ pc[c] = "decide"
              /\ pc'[c] \in {"reserve", "finish"} /\ call[c].kind = "invoke"
            BY <2>5 DEF DecideRead, IInv, TypeOK
        <3>2. ~MayWrite(c)' /\ pc'[c] # "start"
            BY <3>1 DEF MayWrite
        <3> QED  BY <1>0, <2>1, <3>1, <3>2, QuietCall
    <2>6. CASE Consume(c)
        BY <1>0, <2>1, <2>6, ConsumeKeeps
    <2>7. CASE RefuseWrite(c)
        <3>1. /\ UNCHANGED <<events, id, written>> /\ pc[c] = "decide" /\ pc'[c] = "finish"
            BY <2>7 DEF RefuseWrite, IInv, TypeOK
        <3>2. ~MayWrite(c)' /\ pc'[c] # "start"
            BY <3>1 DEF MayWrite
        <3> QED  BY <1>0, <2>1, <3>1, <3>2, QuietCall
    <2>8. CASE Reserve(c)
        <3>1. /\ UNCHANGED <<events, id, written, call>> /\ pc[c] = "reserve"
              /\ pc'[c] \in {"run", "finish"}
            BY <2>8 DEF Reserve, IInv, TypeOK
        <3>2. (MayWrite(c)' => MayWrite(c)) /\ pc'[c] # "start"
            BY <3>1 DEF MayWrite
        <3> QED  BY <1>0, <2>1, <3>1, <3>2, QuietCall
    <2>9. CASE Execute(c)
        BY <1>0, <2>1, <2>9, ExecuteKeeps
    <2>10. CASE Finish(c)
        BY <1>0, <2>1, <2>10, FinishKeeps
    <2> QED  BY <1>6, <2>2, <2>3, <2>4, <2>5, <2>6, <2>7, <2>8, <2>9, <2>10 DEF CallerStep
<1> QED  BY <1>2, <1>3, <1>4, <1>5, <1>6 DEF Next

(* What an append does to the records of the calls.                         *)
LEMMA CallsAppended ==
    ASSUME TypeOK, NEW k, NEW o, NEW w,
           events' = Append(events, [kind |-> k, of |-> o, what |-> w])
    PROVE  /\ \A i : Starts(i)' = IF k = "call_started" /\ o = i
                                  THEN Starts(i) \cup {Len(events) + 1} ELSE Starts(i)
           /\ \A i : Finishes(i)' = IF k = "call_finished" /\ o = i
                                    THEN Finishes(i) \cup {Len(events) + 1} ELSE Finishes(i)
<1>1. /\ DOMAIN events' = DOMAIN events \cup {Len(events) + 1}
      /\ \A n \in DOMAIN events : events'[n] = events[n] /\ n # Len(events) + 1
      /\ events'[Len(events) + 1] = [kind |-> k, of |-> o, what |-> w]
    BY Appended
<1> QED  BY <1>1 DEF Starts, Finishes

(* A step at which no call begins or ends: what is recorded, if anything,   *)
(* is of an approval, and what is written is written by a call that has not *)
(* ended.                                                                   *)
LEMMA AccountsStay ==
    ASSUME IInv, Calls, Accounts, use.log, use' = use,
           \/ events' = events
           \/ \E o, w : events' = Append(events, [kind |-> "approval_recorded",
                                                  of |-> o, what |-> w]),
           \A c \in Callers :
              /\ pc'[c] \in Underway <=> pc[c] \in Underway
              /\ pc'[c] = "start" => pc[c] = "start"
              /\ pc'[c] \in Underway \/ pc'[c] = "start" => id'[c] = id[c]
              /\ pc'[c] \in Underway => call'[c].tool = call[c].tool
              /\ pc'[c] = "finish" => (call'[c].wrote <=> Wrote(id[c])'),
           \A i : (Wrote(i)' <=> Wrote(i)) \/ Finishes(i) = {}
    PROVE  Accounts'
<1>1. /\ \A i : Starts(i)' = Starts(i) /\ Finishes(i)' = Finishes(i)
      /\ \A n \in DOMAIN events : n \in DOMAIN events' /\ events'[n] = events[n]
      /\ \A n \in DOMAIN events' : events'[n].kind = "call_started" => n \in DOMAIN events
    <2>1. CASE events' = events
        BY <2>1 DEF Starts, Finishes
    <2>2. ASSUME NEW o, NEW w,
                 events' = Append(events, [kind |-> "approval_recorded", of |-> o, what |-> w])
          PROVE  <1>1!1 /\ <1>1!2 /\ <1>1!3
        <3>1. /\ DOMAIN events = 1 .. Len(events) /\ DOMAIN events' = 1 .. Len(events) + 1
              /\ \A n \in DOMAIN events : events'[n] = events[n]
              /\ events'[Len(events) + 1].kind = "approval_recorded"
              /\ Len(events) \in Nat
            BY <2>2, Appended DEF IInv
        <3>2. \A i : Starts(i)' = Starts(i) /\ Finishes(i)' = Finishes(i)
            BY <2>2, CallsAppended DEF IInv
        <3> QED  BY <3>1, <3>2
    <2> QED  BY <2>1, <2>2
<1>2. StartsPast'
    BY <1>1 DEF Accounts, StartsPast
<1>3. HasStarted'
    <2> SUFFICES ASSUME NEW c \in Callers
                 PROVE  /\ pc'[c] = "start" => Starts(id[c])' = {}
                        /\ pc'[c] \in Underway =>
                              \E n \in DOMAIN events' : /\ Starts(id[c])' = {n}
                                                        /\ events'[n].what = call'[c].tool
                        /\ pc'[c] = "finish" => (call'[c].wrote <=> Wrote(id[c])')
        BY DEF HasStarted
    <2>1. pc'[c] = "start" => Starts(id[c])' = {}
        BY <1>1 DEF Accounts, HasStarted
    <2>2. ASSUME pc'[c] \in Underway
          PROVE  \E n \in DOMAIN events' : Starts(id[c])' = {n} /\ events'[n].what = call'[c].tool
        <3>1. PICK n \in DOMAIN events : Starts(id[c]) = {n} /\ events[n].what = call[c].tool
            BY <2>2 DEF Accounts, HasStarted
        <3> QED  BY <1>1, <2>2, <3>1
    <2> QED  BY <2>1, <2>2
<1>4. OutcomesAreTrue'
    <2> SUFFICES ASSUME NEW n \in DOMAIN events', events'[n].kind = "call_started",
                        NEW i, i = events'[n].of
                 PROVE  /\ Starts(i)' = {n}
                        /\ Finishes(i)' = {} =>
                              \E c \in use'.callers : pc'[c] \in Underway /\ id'[c] = i
                        /\ \A m \in Finishes(i)' :
                              /\ n < m /\ Finishes(i)' = {m}
                              /\ events'[m].what = "denied" => ~Wrote(i)'
                              /\ events'[m].what = "ok" /\ events'[n].what = "write" => Wrote(i)'
        BY ZenonT(40) DEF OutcomesAreTrue
    <2>1. n \in DOMAIN events /\ events[n].kind = "call_started" /\ i = events[n].of
        BY <1>1
    <2>2. /\ Starts(i) = {n}
          /\ Finishes(i) = {} => \E c \in use.callers : pc[c] \in Underway /\ id[c] = i
          /\ \A m \in Finishes(i) :
                /\ n < m /\ Finishes(i) = {m}
                /\ events[m].what = "denied" => ~Wrote(i)
                /\ events[m].what = "ok" /\ events[n].what = "write" => Wrote(i)
        BY SMTT(30), <2>1 DEF Accounts, OutcomesAreTrue
    <2>3. use.callers \subseteq Callers
        BY DEF IInv, TypeOK, Use
    <2>4. \A m \in Finishes(i) : m \in DOMAIN events
        BY DEF Finishes
    <2>5. Finishes(i)' = {} => \E c \in use'.callers : pc'[c] \in Underway /\ id'[c] = i
        BY <1>1, <2>2, <2>3
    <2> QED  BY <1>1, <2>1, <2>2, <2>4, <2>5
<1> QED  BY <1>2, <1>3, <1>4 DEF Accounts

(* What has not run has not written.                                        *)
LEMMA NotYet ==
    ASSUME IInv, Calls, NEW c \in Callers, pc[c] \in {"start", "decide", "reserve", "run"}
    PROVE  ~Wrote(id[c])
BY DEF Calls, NeverDenied, HasId, Wrote

(* AccountsStay for a step of the only caller.                              *)
LEMMA CallAccountsStay ==
    ASSUME IInv, Calls, Accounts, use.log, use' = use, NEW c \in Callers,
           \A d \in Callers : d # c => pc[d] = "idle" /\ pc'[d] = "idle",
           \/ events' = events
           \/ \E o, w : events' = Append(events, [kind |-> "approval_recorded",
                                                  of |-> o, what |-> w]),
           pc'[c] \in Underway <=> pc[c] \in Underway, pc'[c] # "start",
           pc'[c] \in Underway => id' = id /\ call'[c].tool = call[c].tool,
           pc'[c] = "finish" => (call'[c].wrote <=> Wrote(id[c])'),
           \A i : (Wrote(i)' <=> Wrote(i)) \/ Finishes(i) = {}
    PROVE  Accounts'
<1>1. \A d \in Callers :
         /\ pc'[d] \in Underway <=> pc[d] \in Underway
         /\ pc'[d] = "start" => pc[d] = "start"
         /\ pc'[d] \in Underway \/ pc'[d] = "start" => id'[d] = id[d]
         /\ pc'[d] \in Underway => call'[d].tool = call[d].tool
         /\ pc'[d] = "finish" => (call'[d].wrote <=> Wrote(id[d])')
    <2> TAKE d \in Callers
    <2>1. CASE d = c  BY <2>1 DEF Underway
    <2>2. CASE d # c  BY <2>2 DEF Underway
    <2> QED  BY <2>1, <2>2
<1> QED  BY <1>1, AccountsStay

(* The id of a call is one that no start has carried.                       *)
LEMMA IssueIdAccounts ==
    ASSUME IInv, Calls, Accounts, use.log, use' = use, NEW c \in Callers, IssueId(c),
           \A d \in Callers : d # c => pc[d] = "idle" /\ pc'[d] = "idle"
    PROVE  Accounts'
<1>1. /\ pc[c] = "issue" /\ pc'[c] = "start" /\ id'[c] = Len(events)
      /\ UNCHANGED <<events, written>>
    BY DEF IssueId, IInv, TypeOK
<1>2. /\ Len(events) \in Nat /\ DOMAIN events = 1 .. Len(events)
      /\ \A i : Starts(i)' = Starts(i) /\ Finishes(i)' = Finishes(i) /\ (Wrote(i)' <=> Wrote(i))
    BY <1>1 DEF IInv, TypeOK, Starts, Finishes, Wrote
<1>3. \A d \in Callers : pc[d] \notin Underway /\ pc'[d] \notin Underway
    BY <1>1 DEF Underway
<1>4. Starts(Len(events)) = {}
    BY <1>2 DEF Accounts, StartsPast, Starts
<1>5. StartsPast'
    BY <1>1 DEF Accounts, StartsPast
<1>6. HasStarted'
    BY <1>1, <1>2, <1>3, <1>4 DEF HasStarted, Underway
<1>7. OutcomesAreTrue'
    <2> SUFFICES ASSUME NEW n \in DOMAIN events', events'[n].kind = "call_started",
                        NEW i, i = events'[n].of
                 PROVE  /\ Starts(i)' = {n}
                        /\ Finishes(i)' = {} =>
                              \E d \in use'.callers : pc'[d] \in Underway /\ id'[d] = i
                        /\ \A m \in Finishes(i)' :
                              /\ n < m /\ Finishes(i)' = {m}
                              /\ events'[m].what = "denied" => ~Wrote(i)'
                              /\ events'[m].what = "ok" /\ events'[n].what = "write" => Wrote(i)'
        BY DEF OutcomesAreTrue
    <2>1. n \in DOMAIN events /\ events[n].kind = "call_started" /\ i = events[n].of
        BY <1>1
    <2>2. /\ Starts(i) = {n} /\ Finishes(i) # {}
          /\ \A m \in Finishes(i) :
                /\ n < m /\ Finishes(i) = {m}
                /\ events[m].what = "denied" => ~Wrote(i)
                /\ events[m].what = "ok" /\ events[n].what = "write" => Wrote(i)
        <3>1. \A d \in use.callers : pc[d] \notin Underway
            BY <1>3 DEF IInv, TypeOK, Use
        <3> QED  BY <2>1, <3>1 DEF Accounts, OutcomesAreTrue
    <2> QED  BY <1>1, <1>2, <2>2
<1> QED  BY <1>5, <1>6, <1>7 DEF Accounts

(* A call that starts has the one start with its id, and no outcome.        *)
LEMMA StartCallAccounts ==
    ASSUME IInv, Calls, Accounts, use.log, use' = use, NEW c \in Callers, StartCall(c),
           c \in use.callers, \A d \in Callers : d # c => pc[d] = "idle" /\ pc'[d] = "idle"
    PROVE  Accounts'
<1> DEFINE last == Len(events) + 1
<1>1. /\ pc[c] = "start" /\ pc'[c] \in {"decide", "reserve"}
      /\ UNCHANGED <<written, call, outcome, id>>
      /\ events' = Append(events, [kind |-> "call_started", of |-> id[c],
                                  what |-> call[c].tool])
    BY DEF StartCall, Log, IInv, TypeOK
<1>2. /\ Len(events) \in Nat
      /\ DOMAIN events = 1 .. Len(events) /\ DOMAIN events' = 1 .. last
      /\ \A n \in DOMAIN events : events'[n] = events[n]
      /\ events'[last] = [kind |-> "call_started", of |-> id[c], what |-> call[c].tool]
    BY <1>1, Appended DEF IInv
<1>3. /\ Starts(id[c])' = Starts(id[c]) \cup {last}
      /\ \A i : i # id[c] => Starts(i)' = Starts(i)
      /\ \A i : Finishes(i)' = Finishes(i) /\ (Wrote(i)' <=> Wrote(i))
    BY <1>1, CallsAppended DEF IInv, Wrote
<1>4. Starts(id[c]) = {} /\ Finishes(id[c]) = {}
    BY <1>1 DEF Accounts, HasStarted, Calls, IdsIssued, HasId, Finished, Finishes
<1>5. id[c] \in Nat /\ id[c] < last
    BY <1>1, <1>2 DEF Calls, IdsIssued, IInv, TypeOK
<1>6. \A n \in DOMAIN events' : n \in DOMAIN events \/ n = last
    BY <1>2
<1>7. last \in DOMAIN events' /\ last \notin DOMAIN events
    BY <1>2
<1> HIDE DEF last
<1>8. StartsPast'
    BY <1>2, <1>5, <1>6 DEF Accounts, StartsPast
<1>9. HasStarted'
    <2>1. Starts(id[c])' = {last} /\ events'[last].what = call'[c].tool /\ last \in DOMAIN events'
        BY <1>1, <1>2, <1>3, <1>4, <1>7
    <2> QED  BY <1>1, <2>1 DEF HasStarted, Underway
<1>10. OutcomesAreTrue'
    <2> SUFFICES ASSUME NEW n \in DOMAIN events', events'[n].kind = "call_started",
                        NEW i, i = events'[n].of
                 PROVE  /\ Starts(i)' = {n}
                        /\ Finishes(i)' = {} =>
                              \E d \in use'.callers : pc'[d] \in Underway /\ id'[d] = i
                        /\ \A m \in Finishes(i)' :
                              /\ n < m /\ Finishes(i)' = {m}
                              /\ events'[m].what = "denied" => ~Wrote(i)'
                              /\ events'[m].what = "ok" /\ events'[n].what = "write" => Wrote(i)'
        BY DEF OutcomesAreTrue
    <2>1. CASE n = last
        <3>1. i = id[c]
            BY <1>2, <2>1
        <3> QED  BY <1>1, <1>3, <1>4, <2>1, <3>1 DEF Underway
    <2>2. CASE n # last
        <3>1. n \in DOMAIN events /\ events'[n] = events[n]
            BY <1>2, <1>6, <2>2
        <3>2. n \in Starts(i)
            BY <3>1 DEF Starts
        <3>3. i # id[c]
            BY <1>4, <3>2
        <3>4. /\ Starts(i) = {n}
              /\ Finishes(i) = {} => \E d \in use.callers : pc[d] \in Underway /\ id[d] = i
              /\ \A m \in Finishes(i) :
                    /\ n < m /\ Finishes(i) = {m}
                    /\ events[m].what = "denied" => ~Wrote(i)
                    /\ events[m].what = "ok" /\ events[n].what = "write" => Wrote(i)
            BY <3>1 DEF Accounts, OutcomesAreTrue
        <3>5. Finishes(i) # {}
            BY <1>1, <3>4 DEF Underway, IInv, TypeOK, Use
        <3>6. \A m \in Finishes(i) : m \in DOMAIN events
            BY DEF Finishes
        <3> QED  BY <1>2, <1>3, <3>1, <3>3, <3>4, <3>5, <3>6
    <2> QED  BY <2>1, <2>2
<1> QED  BY <1>8, <1>9, <1>10 DEF Accounts

LEMMA KeepsInUse == IInv /\ InUse /\ [Next]_vars => InUse' /\ use' = use
<1> SUFFICES ASSUME IInv, InUse, [Next]_vars
             PROVE  InUse' /\ use' = use
    OBVIOUS
<1>1. ASSUME UNCHANGED <<pc, use>>
      PROVE  InUse' /\ use' = use
    BY <1>1 DEF InUse
<1>2. CASE RunsOut \/ RepoMoves \/ WallSetBack \/ UNCHANGED vars
    BY <1>1, <1>2 DEF RunsOut, RepoMoves, WallSetBack, vars
<1>3. CASE \E a \in Approvals : Request(a) \/ Ages(a) \/ \E yes \in BOOLEAN : Answer(a, yes)
    BY <1>1, <1>3 DEF Request, Ages, Answer
<1>4. ASSUME NEW c \in Callers, CallerStep(c)
      PROVE  InUse' /\ use' = use
    <2>1. use' = use /\ \A d \in Callers : d # c => pc'[d] = pc[d]
        BY <1>4 DEF CallerStep, Invoke, IssueId, StartCall, DecideRead, Consume, RefuseWrite,
                    Reserve, Execute, Finish, Returns, IInv, TypeOK
    <2>2. c \in use.callers
        BY <1>4 DEF InUse, CallerStep, Invoke, IssueId, StartCall, DecideRead, Consume,
                    RefuseWrite, Reserve, Execute, Finish
    <2> QED  BY <2>1, <2>2 DEF InUse
<1> QED  BY <1>2, <1>3, <1>4 DEF Next

(* The outcome that is recorded is what the call did.                       *)
LEMMA FinishAccounts ==
    ASSUME IInv, Calls, Accounts, use.log, use' = use, NEW c \in Callers, Finish(c),
           \A d \in Callers : d # c => pc[d] = "idle" /\ pc'[d] = "idle"
    PROVE  Accounts'
<1> DEFINE last == Len(events) + 1
<1>0. PICK j : j = id[c]
    OBVIOUS
<1>1. /\ pc[c] = "finish" /\ pc'[c] \in {"idle", "issue"} /\ UNCHANGED written
    BY FinishMoves DEF Finish, Tells
<1>2. Finishes(j) = {} /\ ~Finished(j)
    BY <1>0, <1>1 DEF Calls, IdsIssued, HasId, Finished, Finishes
<1>3. events' = Append(events, [kind |-> "call_finished", of |-> j, what |-> outcome[c]])
    BY <1>0, <1>2 DEF Finish, Log
<1>4. /\ Len(events) \in Nat
      /\ DOMAIN events = 1 .. Len(events) /\ DOMAIN events' = 1 .. last
      /\ \A n \in DOMAIN events : events'[n] = events[n]
      /\ events'[last].kind = "call_finished" /\ events'[last].what = outcome[c]
    BY <1>3, Appended DEF IInv
<1>5. /\ Finishes(j)' = {last}
      /\ \A i : i # j => Finishes(i)' = Finishes(i)
      /\ \A i : Starts(i)' = Starts(i) /\ (Wrote(i)' <=> Wrote(i))
    <2>1. \A i : Wrote(i)' <=> Wrote(i)
        BY <1>1 DEF Wrote
    <2> QED  BY <1>2, <1>3, <2>1, CallsAppended DEF IInv
<1>6. \A n \in DOMAIN events' : events'[n].kind = "call_started" =>
         n \in DOMAIN events /\ n < last
    BY <1>4
<1> HIDE DEF last
<1>7. StartsPast'
    BY <1>4, <1>6 DEF Accounts, StartsPast
<1>8. HasStarted'
    BY <1>1 DEF HasStarted, Underway
<1>9. OutcomesAreTrue'
    <2> SUFFICES ASSUME NEW n \in DOMAIN events', events'[n].kind = "call_started",
                        NEW i, i = events'[n].of
                 PROVE  /\ Starts(i)' = {n}
                        /\ Finishes(i)' # {}
                        /\ \A m \in Finishes(i)' :
                              /\ n < m /\ Finishes(i)' = {m}
                              /\ events'[m].what = "denied" => ~Wrote(i)'
                              /\ events'[m].what = "ok" /\ events'[n].what = "write" => Wrote(i)'
        BY DEF OutcomesAreTrue
    <2>1. n \in DOMAIN events /\ events'[n] = events[n] /\ i = events[n].of /\ n < last
        BY <1>4, <1>6
    <2>2. /\ Starts(i) = {n}
          /\ Finishes(i) = {} => \E d \in use.callers : pc[d] \in Underway /\ id[d] = i
          /\ \A m \in Finishes(i) :
                /\ n < m /\ Finishes(i) = {m}
                /\ events[m].what = "denied" => ~Wrote(i)
                /\ events[m].what = "ok" /\ events[n].what = "write" => Wrote(i)
        BY <2>1 DEF Accounts, OutcomesAreTrue
    <2>3. CASE i = j
        <3>1. events[n].what = call[c].tool /\ (call[c].wrote <=> Wrote(i))
            <4>1. \E k \in DOMAIN events : Starts(i) = {k} /\ events[k].what = call[c].tool
                BY <1>0, <1>1, <2>3 DEF Accounts, HasStarted, Underway
            <4>2. call[c].wrote <=> Wrote(i)
                BY <1>0, <1>1, <2>3 DEF Accounts, HasStarted
            <4> QED  BY <2>2, <4>1, <4>2
        <3>2. /\ outcome[c] = "denied" => ~Wrote(i)
              /\ outcome[c] = "ok" /\ events[n].what = "write" => Wrote(i)
            BY <1>1, <3>1 DEF IInv, OutcomesTell
        <3> QED  BY <1>4, <1>5, <2>1, <2>2, <2>3, <3>2
    <2>4. CASE i # j
        <3>1. Finishes(i) # {}
            BY <1>0, <2>2, <2>4 DEF Underway, IInv, TypeOK, Use
        <3>2. \A m \in Finishes(i) : m \in DOMAIN events
            BY DEF Finishes
        <3> QED  BY <1>4, <1>5, <2>1, <2>2, <2>4, <3>1, <3>2
    <2> QED  BY <2>3, <2>4
<1> QED  BY <1>7, <1>8, <1>9 DEF Accounts

(* Every step keeps the accounts true.                                      *)
LEMMA KeepsAccounts ==
    ASSUME OneAtATime, IInv, AuditInv, use.log, [Next]_vars
    PROVE  Accounts'
<1>0. Calls /\ Accounts /\ use' = use
    BY KeepsInUse DEF AuditInv
<1>1. ASSUME UNCHANGED <<callerVars, written>>,
             \/ events' = events
             \/ \E o, w : events' = Append(events, [kind |-> "approval_recorded",
                                                    of |-> o, what |-> w])
      PROVE  Accounts'
    <2>1. \A i : Wrote(i)' <=> Wrote(i)
        BY <1>1 DEF Wrote
    <2>2. \A c \in Callers : pc'[c] = "finish" => (call'[c].wrote <=> Wrote(id[c])')
        BY <1>0, <1>1, <2>1 DEF Accounts, HasStarted
    <2> QED  BY <1>0, <1>1, <2>1, <2>2, AccountsStay
<1>2. CASE RunsOut \/ RepoMoves \/ WallSetBack \/ UNCHANGED vars
    BY <1>1, <1>2 DEF RunsOut, RepoMoves, WallSetBack, vars
<1>3. ASSUME NEW a \in Approvals, Request(a)
      PROVE  Accounts'
    BY <1>1, <1>3 DEF Request, Log
<1>4. ASSUME NEW a \in Approvals, NEW yes \in BOOLEAN, Answer(a, yes)
      PROVE  Accounts'
    BY <1>1, <1>4 DEF Answer, Log
<1>5. ASSUME NEW a \in Approvals, Ages(a)
      PROVE  Accounts'
    BY <1>1, <1>5 DEF Ages
<1>6. ASSUME NEW c \in Callers, CallerStep(c)
      PROVE  Accounts'
    <2>1. /\ \A d \in Callers : d # c => pc[d] = "idle" /\ pc'[d] = "idle"
          /\ pc[c] # "idle" => c \in use.callers
        BY <1>6, Lone DEF AuditInv, InUse
    <2>2. ASSUME UNCHANGED written, pc'[c] = "finish" => UNCHANGED id,
                 pc[c] \in {"decide", "reserve"}, pc'[c] \in Underway,
                 \/ events' = events
                 \/ \E o, w : events' = Append(events, [kind |-> "approval_recorded",
                                                        of |-> o, what |-> w]),
                 id' = id, call'[c].tool = call[c].tool,
                 call'[c].wrote <=> call[c].wrote
          PROVE  Accounts'
        <3>1. \A i : Wrote(i)' <=> Wrote(i)
            BY <2>2 DEF Wrote
        <3>2. ~call'[c].wrote /\ ~Wrote(id[c])'
            BY <1>0, <2>2, <3>1, NotYet DEF IInv, OutcomesTell
        <3>3. pc[c] \in Underway /\ pc'[c] # "start"
            BY <2>2 DEF Underway
        <3> QED  BY <1>0, <2>1, <2>2, <3>1, <3>2, <3>3, CallAccountsStay
    <2>3. CASE Invoke(c)
        <3>1. UNCHANGED <<events, written>> /\ pc[c] = "idle" /\ pc'[c] = "issue"
            BY <2>3 DEF Invoke, IInv, TypeOK
        <3>2. \A i : Wrote(i)' <=> Wrote(i)
            BY <3>1 DEF Wrote
        <3>3. pc[c] \notin Underway /\ pc'[c] \notin Underway
            BY <3>1 DEF Underway
        <3> QED  BY <1>0, <2>1, <3>1, <3>2, <3>3, CallAccountsStay
    <2>4. CASE IssueId(c)
        BY <1>0, <2>1, <2>4, IssueIdAccounts
    <2>5. CASE StartCall(c)
        <3>1. c \in use.callers
            BY <2>1, <2>5 DEF StartCall
        <3> QED  BY <1>0, <2>1, <2>5, <3>1, StartCallAccounts
    <2>6. CASE DecideRead(c) \/ RefuseWrite(c) \/ Reserve(c)
        <3>1. /\ UNCHANGED <<events, id, written, call>> /\ pc[c] \in {"decide", "reserve"}
              /\ pc'[c] \in Underway
            BY <2>6 DEF DecideRead, RefuseWrite, Reserve, IInv, TypeOK, Underway
        <3> QED  BY <2>2, <3>1
    <2>7. CASE Consume(c)
        <3>1. Spends(c) /\ UNCHANGED <<id, written>>
            BY <2>7, ConsumeMoves DEF Consume
        <3>2. \E o, w : events' = Append(events, [kind |-> "approval_recorded",
                                                 of |-> o, what |-> w])
            BY <1>0, <2>7 DEF Consume, Log
        <3>3. /\ pc[c] = "decide" /\ pc'[c] \in Underway /\ call'[c].tool = call[c].tool
              /\ (call'[c].wrote <=> call[c].wrote)
            BY <3>1 DEF Spends, SameCall, Underway
        <3> QED  BY <2>2, <3>1, <3>2, <3>3
    <2>8. CASE Execute(c)
        <3>1. Runs(c) /\ UNCHANGED <<events, id>>
            BY <2>8, ExecuteMoves DEF Execute
        <3>2. ~Wrote(id[c]) /\ Finishes(id[c]) = {}
            BY <1>0, <3>1, NotYet DEF Runs, Calls, IdsIssued, HasId, Finished, Finishes
        <3>3. /\ \A i : (Wrote(i)' <=> Wrote(i)) \/ i = id[c]
              /\ call'[c].wrote <=> Wrote(id[c])'
            <4>1. CASE ~call'[c].wrote
                BY <3>1, <3>2, <4>1 DEF Runs, Wrote
            <4>2. CASE call'[c].wrote
                <5> DEFINE t == call[c].token
                           w == [args |-> call[c].operation.args, id |-> id[c]]
                <5>1. MayWrite(c)
                    BY <3>1, <4>2 DEF Runs, MayWrite, ReadsOnly, IInv, TypeOK, Call
                <5>2. written[t] = <<>> /\ t \in Approvals
                    BY <5>1 DEF IInv, Entitled
                <5>3. written' = [written EXCEPT ![t] = Append(<<>>, w)]
                    BY <3>1, <4>2, <5>2 DEF Runs
                <5>4. DOMAIN Append(<<>>, w) = {1} /\ Append(<<>>, w)[1] = w /\ DOMAIN <<>> = {}
                    OBVIOUS
                <5>5. /\ written'[t] = Append(<<>>, w)
                      /\ \A a \in Approvals : a # t => written'[a] = written[a]
                    BY <5>2, <5>3 DEF IInv, TypeOK
                <5>6. w.id = id[c]
                    OBVIOUS
                <5> HIDE DEF w, t
                <5>7. Wrote(id[c])'
                    BY <3>1, <5>2, <5>4, <5>5, <5>6 DEF Wrote
                <5>8. \A i : i # id[c] => (Wrote(i)' <=> Wrote(i))
                    BY <5>2, <5>4, <5>5, <5>6 DEF Wrote
                <5> QED  BY <4>2, <5>7, <5>8
            <4> QED  BY <4>1, <4>2
        <3>4. /\ pc[c] \in Underway /\ pc'[c] \in Underway /\ pc'[c] # "start"
              /\ call'[c].tool = call[c].tool
            BY <3>1 DEF Runs, SameCall, Underway
        <3>5. \A i : (Wrote(i)' <=> Wrote(i)) \/ Finishes(i) = {}
            BY <3>2, <3>3
        <3> QED  BY <1>0, <2>1, <3>1, <3>3, <3>4, <3>5, CallAccountsStay
    <2>9. CASE Finish(c)
        BY <1>0, <2>1, <2>9, FinishAccounts
    <2> QED  BY <1>6, <2>3, <2>4, <2>5, <2>6, <2>7, <2>8, <2>9 DEF CallerStep
<1> QED  BY <1>2, <1>3, <1>4, <1>5, <1>6 DEF Next

LEMMA AuditStarts == Init => AuditInv
<1> SUFFICES ASSUME Init PROVE AuditInv
    OBVIOUS
<1>1. DOMAIN events = {} /\ \A a \in Approvals : DOMAIN written[a] = {}
    BY DEF Init
<1>2. \A k, o, w : Position(k, o, w) = {}
    BY <1>1 DEF Position
<1>3. Trails
    BY <1>2 DEF Init, Trails, Recorded
<1>4. \A c \in Callers : pc[c] = "idle"
    BY DEF Init
<1>5. IdsIssued /\ SpentInside
    BY <1>1, <1>4 DEF IdsIssued, SpentInside, HasId, MayWrite
<1>6. IdsPast /\ NeverDenied
    BY <1>1 DEF IdsPast, NeverDenied
<1>7. InUse
    BY <1>4 DEF InUse
<1>8. Accounts
    BY <1>1, <1>4 DEF Accounts, StartsPast, HasStarted, OutcomesAreTrue, Underway
<1> QED  BY <1>3, <1>5, <1>6, <1>7, <1>8 DEF AuditInv, Calls

LEMMA AuditInvariant == ASSUME OneAtATime PROVE Spec => [](IInv /\ AuditInv)
<1>1. IInv /\ AuditInv /\ [Next]_vars => AuditInv'
    <2> SUFFICES ASSUME IInv, AuditInv, [Next]_vars
                 PROVE  AuditInv'
        OBVIOUS
    <2>1. InUse' /\ use' = use
        BY KeepsInUse DEF AuditInv
    <2>2. CASE use.log
        BY <2>1, <2>2, KeepsTrails, KeepsCalls, KeepsAccounts DEF AuditInv
    <2>3. CASE ~use.log
        BY <2>1, <2>3 DEF AuditInv
    <2> QED  BY <2>2, <2>3
<1> QED  BY <1>1, Initially, Inductive, AuditStarts, Invariant, PTL DEF Spec

(* Where a log is kept by one caller at a time, every call in it has one    *)
(* start and, once it is over, one outcome, which is what the handler did:  *)
(* nothing was written by a call recorded as denied, and something by a     *)
(* write recorded as ok (ToolGateway._finish, EventLog.finish_call).        *)
THEOREM TheLogIsTrue == ASSUME OneAtATime PROVE Spec => []OutcomesAreTrue
<1>1. IInv /\ AuditInv => OutcomesAreTrue
    <2>1. CASE use.log
        BY <2>1 DEF AuditInv, Accounts
    <2>2. CASE ~use.log
        BY <2>2 DEF OutcomesAreTrue
    <2> QED  BY <2>1, <2>2
<1> QED  BY <1>1, AuditInvariant, PTL

(* Where a log is kept by one caller at a time, it tells of every write who *)
(* asked for it, who granted it and in which call it was done, once each    *)
(* and in this order (ApprovalAuthority._record, EventLog.start_call).      *)
THEOREM AuditIsComplete == ASSUME OneAtATime PROVE Spec => []WritesAreAudited
<1>1. IInv /\ AuditInv => WritesAreAudited
    <2> SUFFICES ASSUME IInv, AuditInv, use.log, NEW a \in Approvals, NEW n \in DOMAIN written[a]
                 PROVE  LET i == written[a][n].id
                        IN  \E q, g, u \in DOMAIN events :
                               /\ Position("approval_recorded", a, "requested") = {q}
                               /\ Position("approval_recorded", a, "granted") = {g}
                               /\ Position("approval_recorded", a, "consumed") = {u}
                               /\ Position("approval_recorded", a, "refused") = {}
                               /\ q < g /\ g < u /\ i + 1 < u
                               /\ Position("call_finished", i, "denied") = {}
        BY DEF WritesAreAudited
    <2>1. decision[a] = "consumed"
        <3>1. DOMAIN <<>> = {}
            OBVIOUS
        <3> QED  BY <3>1 DEF IInv, OneWritePerApproval
    <2>2. PICK q, g, u : /\ Recorded(a, "requested") = {q} /\ Recorded(a, "granted") = {g}
                         /\ Recorded(a, "consumed") = {u} /\ q < g /\ g < u
        BY <2>1 DEF AuditInv, Trails
    <2>3. Recorded(a, "refused") = {}
        BY <2>1 DEF AuditInv, Trails
    <2>4. q \in DOMAIN events /\ g \in DOMAIN events /\ u \in DOMAIN events
        BY <2>2 DEF Recorded, Position
    <2>5. /\ written[a][n].id + 1 < u
          /\ Position("call_finished", written[a][n].id, "denied") = {}
        BY <2>2 DEF AuditInv, Calls, SpentInside, NeverDenied
    <2> QED  BY <2>2, <2>3, <2>4, <2>5 DEF Recorded
<1> QED  BY <1>1, AuditInvariant, PTL
=============================================================================
