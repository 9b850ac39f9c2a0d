------------------------------ MODULE AtlasGateway ------------------------------
(***************************************************************************)
(* One ToolGateway with the ApprovalAuthority, the RunBudget and the        *)
(* EventLog it shares with its callers, which are threads of one process.   *)
(* A host records requests and a person's answers; the callers invoke read  *)
(* tools, which may be retried, and write tools with a token; meanwhile the *)
(* repository moves, the clocks run and the run is cancelled or late.       *)
(*                                                                          *)
(* A step is what happens under one lock, or between two places at which    *)
(* another thread's work matters.  A handler that calls a tool itself       *)
(* (ToolContext.invoke) is, for all that is shared here, one more caller.   *)
(***************************************************************************)
EXTENDS Naturals, Sequences, FiniteSets

CONSTANTS Callers, Approvals,
          Args,         (* what a write is asked to do                       *)
          Heads,        (* the commits the repository may be at              *)
          MaxTools,     (* RunLimits.tool_calls                              *)
          MaxAttempts,  (* ToolDefinition.max_attempts of the read tool      *)
          MaxMoves,     (* bound: changes of the repository                  *)
          Uses          (* bound: the ways a gateway is put to use           *)

(* A use: who calls, with which approvals, whether the gateway and the      *)
(* authority have a log, and bounds on the calls each caller makes and on   *)
(* the times the wall clock is set back.                                    *)
Use == [callers : SUBSET Callers, approvals : SUBSET Approvals, log : BOOLEAN,
        calls : Nat, setBacks : Nat]

ASSUME GatewayAssumption ==
    /\ MaxTools \in Nat /\ MaxAttempts \in Nat \ {0} /\ MaxMoves \in Nat
    /\ IsFiniteSet(Callers) /\ Uses \subseteq Use

VARIABLES use,          (* one of Uses, for good                             *)
          (* the authority: _pending                                         *)
          decision,     (* decision[a]: "none" before the request            *)
          approved,     (* approved[a]: the operation the request is for     *)
          late,         (* late[a]: the clocks that have passed a's expiry   *)
          (* the budget                                                      *)
          toolCalls, over,
          (* the log                                                         *)
          events,
          (* the repository                                                  *)
          head, clean,
          (* the callers                                                     *)
          pc, call, id, outcome, answer, made,
          (* what the handlers did                                           *)
          handled,      (* handlers run                                      *)
          written,      (* written[a]: the writes done on approval a         *)
          (* bounds                                                          *)
          moves, setBacks

authorityVars == <<decision, approved, late>>
budgetVars    == <<toolCalls, over>>
repoVars      == <<head, clean, moves>>
callerVars    == <<pc, call, id, outcome, answer, made>>
effectVars    == <<handled, written>>
boundVars     == <<use, setBacks>>
vars == <<authorityVars, budgetVars, events, repoVars, callerVars, effectVars, boundVars>>

-----------------------------------------------------------------------------
(* An Operation: its digest tells two of them apart exactly when they       *)
(* differ.  Tool, repository and ref are the same in all of them here.      *)
Operation   == [args : Args, head : Heads]
NoOperation == [args |-> "none", head |-> "none"]

Junk   == "junk"                        (* a token nobody issued             *)
Tokens == Approvals \cup {Junk}
Clocks == {"monotonic", "wall"}

Decisions == {"none", "requested", "granted", "refused", "consumed"}
Outcomes  == {"ok", "denied", "failed"}

(* A call: `kind` is the method, `tool` the capability of the tool it names *)
(* ("none": not registered, not for this route, or not with these           *)
(* arguments).  `spent` says that it consumed its token.                    *)
Call == [kind : {"invoke", "invoke_write"}, tool : {"read", "write", "none"},
         token : Tokens, operation : Operation \cup {NoOperation}, attempt : 1 .. MaxAttempts,
         spent : BOOLEAN, wrote : BOOLEAN]

NoCall == [kind |-> "invoke", tool |-> "none", token |-> Junk, operation |-> NoOperation,
           attempt |-> 1, spent |-> FALSE, wrote |-> FALSE]

(* What a caller gets: a result, or an exception.  ToolDenied,              *)
(* BudgetExceeded, RunCancelled and ToolSchemaError are raised before a     *)
(* write and after one, so that they are not told apart here; only          *)
(* AppendOnlyViolation is.  `wrote` is what the call really did.            *)
Told     == [says : {"none", "result", "raised", "AppendOnlyViolation"}, wrote : BOOLEAN]
NoAnswer == [says |-> "none", wrote |-> FALSE]

(* A write that was done, and the id of the call that did it.               *)
Write == [args : Args, id : Nat]

Records == {"call_started", "call_finished", "approval_recorded"}

(* What is recorded: a call's capability as it starts ("none" for a tool    *)
(* that is not to be called so, as in Call), its outcome as it ends, and    *)
(* the decision on a token.                                                 *)
Recordable == {"read", "write"} \cup Outcomes \cup Decisions \cup {"rejected"}
Event      == [kind : Records, of : Nat \cup Tokens, what : Recordable]

(* EventLog.append; the gateway and the authority skip it without a log.    *)
Log(k, o, w) == events' = IF use.log THEN Append(events, [kind |-> k, of |-> o, what |-> w])
                          ELSE events

Init ==
    /\ use \in Uses
    /\ decision = [a \in Approvals |-> "none"]
    /\ approved = [a \in Approvals |-> NoOperation]
    /\ late = [a \in Approvals |-> {}]
    /\ toolCalls = 0 /\ over = FALSE
    /\ events = <<>>
    /\ head \in Heads /\ clean = TRUE
    /\ pc = [c \in Callers |-> "idle"]
    /\ call = [c \in Callers |-> NoCall]
    /\ id = [c \in Callers |-> 0]
    /\ outcome = [c \in Callers |-> "ok"]
    /\ answer = [c \in Callers |-> NoAnswer]
    /\ made = [c \in Callers |-> 0]
    /\ handled = 0 /\ written = [a \in Approvals |-> <<>>]
    /\ moves = 0 /\ setBacks = 0

-----------------------------------------------------------------------------
(* The host's side of the authority, each method under its lock.            *)

Request(a) ==
    /\ a \in use.approvals /\ decision[a] = "none"
    /\ decision' = [decision EXCEPT ![a] = "requested"]
    /\ \E args \in Args : approved' = [approved EXCEPT ![a] = [args |-> args, head |-> head]]
    /\ Log("approval_recorded", a, "requested")
    /\ UNCHANGED <<late, budgetVars, repoVars, callerVars, effectVars, boundVars>>

(* Mutant of Answer: whoever answers last wins.                             *)
AnswerAgain(a, yes) ==
    /\ decision[a] # "none"
    /\ decision' = [decision EXCEPT ![a] = IF yes THEN "granted" ELSE "refused"]
    /\ Log("approval_recorded", a, decision'[a])
    /\ UNCHANGED <<approved, late, budgetVars, repoVars, callerVars, effectVars, boundVars>>

(* grant and refuse: a second answer raises in _open.                       *)
Answer(a, yes) ==
    /\ decision[a] = "requested"
    /\ decision' = [decision EXCEPT ![a] = IF yes THEN "granted" ELSE "refused"]
    /\ Log("approval_recorded", a, decision'[a])
    /\ UNCHANGED <<approved, late, budgetVars, repoVars, callerVars, effectVars, boundVars>>

(* Time passes the expiry of a grant on one clock or, while the machine is  *)
(* suspended, on the wall clock alone; only that one can be set back.       *)
Ages(a) ==
    /\ decision[a] = "granted"
    /\ \E k \in Clocks \ late[a] : late' = [late EXCEPT ![a] = @ \cup {k}]
    /\ UNCHANGED <<decision, approved, budgetVars, events, repoVars, callerVars,
                   effectVars, boundVars>>

WallSetBack ==
    /\ setBacks < use.setBacks
    /\ setBacks' = setBacks + 1
    /\ late' = [a \in Approvals |-> late[a] \ {"wall"}]
    /\ UNCHANGED <<use, decision, approved, budgetVars, events, repoVars, callerVars,
                   effectVars>>

-----------------------------------------------------------------------------
(* The world: the deadline or a cancellation, and the repository.           *)

RunsOut ==
    /\ ~over /\ over' = TRUE
    /\ UNCHANGED <<authorityVars, toolCalls, events, repoVars, callerVars, effectVars, boundVars>>

RepoMoves ==
    /\ moves < MaxMoves
    /\ moves' = moves + 1
    /\ \/ head' \in Heads \ {head} /\ UNCHANGED clean
       \/ clean' = ~clean /\ UNCHANGED head
    /\ UNCHANGED <<authorityVars, budgetVars, events, callerVars, effectVars, boundVars>>

-----------------------------------------------------------------------------
(* The callers.                                                             *)

Goto(c, at) == pc' = [pc EXCEPT ![c] = at]

(* The call is to end with this outcome.                                    *)
Ends(c, o) == Goto(c, "finish") /\ outcome' = [outcome EXCEPT ![c] = o]

(* budget.check, before anything is logged.  A caller has the tokens that   *)
(* were issued, or makes one up.                                            *)
Invoke(c) ==
    /\ pc[c] = "idle" /\ c \in use.callers /\ made[c] < use.calls /\ ~over
    /\ \E k \in {"invoke", "invoke_write"}, t \in {"read", "write", "none"},
          o \in Operation \cup {NoOperation},
          a \in {x \in Approvals : decision[x] \in {"granted", "consumed"}} \cup {Junk} :
          /\ o = NoOperation <=> k = "invoke" \/ t # "write"
          /\ k = "invoke" => a = Junk
          /\ call' = [call EXCEPT ![c] = [kind |-> k, tool |-> t, token |-> a,
                                          operation |-> o, attempt |-> 1,
                                          spent |-> FALSE, wrote |-> FALSE]]
    /\ made' = [made EXCEPT ![c] = @ + 1]
    /\ answer' = [answer EXCEPT ![c] = NoAnswer]
    /\ Goto(c, "issue")
    /\ UNCHANGED <<authorityVars, budgetVars, events, repoVars, id, outcome, effectVars,
                   boundVars>>

(* EventLog.start_call: the id is the length of the log, read before the    *)
(* record is masked and appended.                                           *)
IssueId(c) ==
    /\ pc[c] = "issue"
    /\ id' = [id EXCEPT ![c] = Len(events)]
    /\ Goto(c, "start")
    /\ UNCHANGED <<authorityVars, budgetVars, events, repoVars, call, outcome, answer, made,
                   effectVars, boundVars>>

StartCall(c) ==
    /\ pc[c] = "start"
    /\ Log("call_started", id[c], call[c].tool)
    /\ Goto(c, IF call[c].attempt = 1 THEN "decide" ELSE "reserve")
    /\ UNCHANGED <<authorityVars, budgetVars, repoVars, call, id, outcome, answer, made,
                   effectVars, boundVars>>

(* invoke runs read tools only.                                             *)
DecideRead(c) ==
    /\ pc[c] = "decide" /\ call[c].kind = "invoke"
    /\ IF call[c].tool = "read" THEN Goto(c, "reserve") /\ UNCHANGED outcome
                                ELSE Ends(c, "denied")
    /\ UNCHANGED <<authorityVars, budgetVars, events, repoVars, call, id, answer, made,
                   effectVars, boundVars>>

(* ApprovalAuthority._consume.                                              *)
Covers(a, o) ==
    /\ a \in Approvals
    /\ decision[a] = "granted"
    /\ late[a] = {}
    /\ clean /\ head = approved[a].head
    /\ o = approved[a]

(* Mutant of Consume: the token is not marked as used.                      *)
ConsumeUnmarked(c) ==
    /\ pc[c] = "decide" /\ call[c].kind = "invoke_write" /\ call[c].tool = "write"
    /\ IF Covers(call[c].token, call[c].operation)
       THEN /\ call' = [call EXCEPT ![c].spent = TRUE]
            /\ Log("approval_recorded", call[c].token, "consumed")
            /\ Goto(c, "reserve") /\ UNCHANGED <<decision, outcome>>
       ELSE /\ Log("approval_recorded", call[c].token, "rejected")
            /\ Ends(c, "denied") /\ UNCHANGED <<decision, call>>
    /\ UNCHANGED <<approved, late, budgetVars, repoVars, id, answer, made, effectVars,
                   boundVars>>

(* invoke_write, up to the approval: the token is spent, or the refusal is  *)
(* recorded and raised.                                                     *)
Consume(c) ==
    /\ pc[c] = "decide" /\ call[c].kind = "invoke_write" /\ call[c].tool = "write"
    /\ \/ /\ Covers(call[c].token, call[c].operation)
          /\ decision' = [decision EXCEPT ![call[c].token] = "consumed"]
          /\ call' = [call EXCEPT ![c].spent = TRUE]
          /\ Log("approval_recorded", call[c].token, "consumed")
          /\ Goto(c, "reserve") /\ UNCHANGED outcome
       \/ /\ ~Covers(call[c].token, call[c].operation)
          /\ Log("approval_recorded", call[c].token, "rejected")
          /\ Ends(c, "denied") /\ UNCHANGED <<decision, call>>
    /\ UNCHANGED <<approved, late, budgetVars, repoVars, id, answer, made, effectVars,
                   boundVars>>

(* The refusals before it: not a described write tool, the route, the       *)
(* arguments, or a description that raises.                                 *)
RefuseWrite(c) ==
    /\ pc[c] = "decide" /\ call[c].kind = "invoke_write" /\ call[c].tool # "write"
    /\ Ends(c, "denied")
    /\ UNCHANGED <<authorityVars, budgetVars, events, repoVars, call, id, answer, made,
                   effectVars, boundVars>>

(* Mutant of Reserve: a retry is not counted.                               *)
ReserveOnce(c) ==
    /\ pc[c] = "reserve"
    /\ LET counted == call[c].attempt = 1
       IN  IF ~over /\ (counted => toolCalls < MaxTools)
           THEN /\ toolCalls' = IF counted THEN toolCalls + 1 ELSE toolCalls
                /\ Goto(c, "run") /\ UNCHANGED outcome
           ELSE Ends(c, "denied") /\ UNCHANGED toolCalls
    /\ UNCHANGED <<authorityVars, over, events, repoVars, call, id, answer, made, effectVars,
                   boundVars>>

(* RunBudget.reserve_tool, under the budget's lock.                         *)
Reserve(c) ==
    /\ pc[c] = "reserve"
    /\ \/ /\ ~over /\ toolCalls < MaxTools
          /\ toolCalls' = toolCalls + 1
          /\ Goto(c, "run") /\ UNCHANGED outcome
       \/ /\ over \/ toolCalls >= MaxTools
          /\ Ends(c, "denied") /\ UNCHANGED toolCalls
    /\ UNCHANGED <<authorityVars, over, events, repoVars, call, id, answer, made, effectVars,
                   boundVars>>

(* What a handler does: a write that returns has been done, one that raises *)
(* or is killed may have been.                                              *)
Effect(c, did) ==
    /\ handled' = handled + 1
    /\ written' = IF did THEN [written EXCEPT ![call[c].token] =
                                 Append(@, [args |-> call[c].operation.args, id |-> id[c]])]
                  ELSE written

(* Mutant of Execute: a write that raised is reported as denied.             *)
ExecuteDenying(c) ==
    /\ pc[c] = "run"
    /\ \E did \in BOOLEAN, o \in {"ok", "denied"} :
          /\ did => call[c].tool = "write"
          /\ o = "ok" => ~over /\ (call[c].tool = "write" => did)
          /\ Effect(c, did)
          /\ call' = [call EXCEPT ![c].wrote = did]
          /\ Ends(c, o)
    /\ UNCHANGED <<authorityVars, budgetVars, events, repoVars, id, answer, made, boundVars>>

(* _execute, then budget.check, the output schema and charge_output: any of *)
(* them may raise after the handler did its work.                           *)
Execute(c) ==
    /\ pc[c] = "run"
    /\ \E did \in BOOLEAN, o \in {"ok", "failed"} :
          /\ did => call[c].tool = "write"
          /\ o = "ok" => ~over /\ (call[c].tool = "write" => did)
          /\ Effect(c, did)
          /\ call' = [call EXCEPT ![c].wrote = did]
          /\ Ends(c, o)
    /\ UNCHANGED <<authorityVars, budgetVars, events, repoVars, id, answer, made, boundVars>>

(* EventLog.finish_call refuses a second outcome for one id.                *)
Finished(i) == \E n \in DOMAIN events : events[n].kind = "call_finished" /\ events[n].of = i

(* The call is over: its caller keeps the answer, and the rest is gone.     *)
Returns(c, a) ==
    /\ answer' = [answer EXCEPT ![c] = [says |-> a, wrote |-> call[c].wrote]]
    /\ call' = [call EXCEPT ![c] = NoCall]
    /\ id' = [id EXCEPT ![c] = 0]
    /\ outcome' = [outcome EXCEPT ![c] = "ok"]
    /\ Goto(c, "idle")

(* _finish, and the answer the caller gets.  A failed read is tried again   *)
(* when the exception is one to retry on.                                   *)
Finish(c) ==
    /\ pc[c] = "finish"
    /\ \/ /\ Finished(id[c])
          /\ Returns(c, "AppendOnlyViolation")
          /\ UNCHANGED events
       \/ /\ ~Finished(id[c])
          /\ Log("call_finished", id[c], outcome[c])
          /\ Returns(c, IF outcome[c] = "ok" THEN "result" ELSE "raised")
       \/ /\ ~Finished(id[c])
          /\ outcome[c] = "failed" /\ call[c].tool = "read" /\ call[c].attempt < MaxAttempts
          /\ Log("call_finished", id[c], "failed")
          /\ call' = [call EXCEPT ![c].attempt = @ + 1]
          /\ Goto(c, "issue")
          /\ UNCHANGED <<id, outcome, answer>>
    /\ UNCHANGED <<authorityVars, budgetVars, repoVars, made, effectVars, boundVars>>

CallerStep(c) ==
    \/ Invoke(c) \/ IssueId(c) \/ StartCall(c) \/ DecideRead(c) \/ Consume(c)
    \/ RefuseWrite(c) \/ Reserve(c) \/ Execute(c) \/ Finish(c)

Next == \/ \E c \in Callers : CallerStep(c)
        \/ \E a \in Approvals : Request(a) \/ Ages(a) \/ \E yes \in BOOLEAN : Answer(a, yes)
        \/ WallSetBack \/ RunsOut \/ RepoMoves

Spec == Init /\ [][Next]_vars

-----------------------------------------------------------------------------
(* Properties.                                                              *)

PCs == {"idle", "issue", "start", "decide", "reserve", "run", "finish"}

(* The variables have their types.                                          *)
TypeOK ==
    /\ use \in Uses
    /\ decision \in [Approvals -> Decisions]
    /\ approved \in [Approvals -> Operation \cup {NoOperation}]
    /\ late \in [Approvals -> SUBSET Clocks]
    /\ toolCalls \in 0 .. MaxTools /\ over \in BOOLEAN
    /\ events \in Seq(Event)
    /\ head \in Heads /\ clean \in BOOLEAN
    /\ pc \in [Callers -> PCs] /\ call \in [Callers -> Call] /\ id \in [Callers -> Nat]
    /\ outcome \in [Callers -> Outcomes]
    /\ answer \in [Callers -> Told]
    /\ made \in [Callers -> Nat]
    /\ handled \in Nat
    /\ written \in [Approvals -> Seq(Write)]
    /\ moves \in 0 .. MaxMoves /\ setBacks \in Nat

(* Whatever the callers do with a token and with each other's tokens, one   *)
(* approval is good for one write, and that is the one that was approved.   *)
OneWritePerApproval ==
    \A a \in Approvals : written[a] # <<>> =>
        /\ decision[a] = "consumed"
        /\ Len(written[a]) = 1
        /\ written[a][1].args = approved[a].args

(* The budget's quota bounds the handlers that run, retries and concurrent  *)
(* calls included.                                                          *)
QuotaHolds == handled <= MaxTools

Position(k, o, w) == {n \in DOMAIN events : events[n] = [kind |-> k, of |-> o, what |-> w]}

(* The audit of a write: its approval was requested, granted and consumed,  *)
(* once each and in this order, inside the call that made the write, and    *)
(* that call is not recorded as denied.                                     *)
WritesAreAudited ==
    use.log => \A a \in Approvals : \A n \in DOMAIN written[a] :
        LET i == written[a][n].id
        IN  \E q, g, u \in DOMAIN events :
               /\ Position("approval_recorded", a, "requested") = {q}
               /\ Position("approval_recorded", a, "granted") = {g}
               /\ Position("approval_recorded", a, "consumed") = {u}
               /\ Position("approval_recorded", a, "refused") = {}
               /\ q < g /\ g < u /\ i + 1 < u
               /\ Position("call_finished", i, "denied") = {}

(* A call has begun and its outcome is not in the log yet.                  *)
Underway == {"decide", "reserve", "run", "finish"}

(* What the log says of the call with an id, and what was done in it.       *)
Starts(i)   == {n \in DOMAIN events : events[n].kind = "call_started" /\ events[n].of = i}
Finishes(i) == {n \in DOMAIN events : events[n].kind = "call_finished" /\ events[n].of = i}
Wrote(i)    == \E a \in Approvals : \E w \in DOMAIN written[a] : written[a][w].id = i

(* The log's account of the calls: an id is one call's, a call without an   *)
(* outcome is one that is going on, a call has one outcome, after its       *)
(* start, and that is what happened.  "denied" is a call that wrote         *)
(* nothing, "ok" of a write tool one that did write, and only "failed"      *)
(* leaves it open.                                                          *)
OutcomesAreTrue ==
    use.log => \A n \in DOMAIN events : events[n].kind = "call_started" =>
        LET i == events[n].of
        IN  /\ Starts(i) = {n}
            /\ Finishes(i) = {} => \E c \in use.callers : pc[c] \in Underway /\ id[c] = i
            /\ \A m \in Finishes(i) :
                  /\ n < m /\ Finishes(i) = {m}
                  /\ events[m].what = "denied" => ~Wrote(i)
                  /\ events[m].what = "ok" /\ events[n].what = "write" => Wrote(i)

(* tests/test_approval.py, test_concurrent_use_of_one_token_writes_once:    *)
(* of several threads with one token, the one that writes gets its result,  *)
(* or the handler's exception, and no other.                                *)
WriterIsTold == \A c \in Callers : answer[c].wrote => answer[c].says # "AppendOnlyViolation"
=============================================================================
