----------------------------- MODULE AtlasFeedback -----------------------------
(***************************************************************************)
(* The feedback store: processes that record a person's verdict on a run   *)
(* (record_outcome) and promote a candidate to a learning (promote), while  *)
(* the event log it rests on and the store may change and a process may die *)
(* anywhere, in the middle of a line too.                                   *)
(*                                                                          *)
(* A step is one read, one write or one lock call.                          *)
(***************************************************************************)
EXTENDS Naturals, Sequences

CONSTANTS Callers, Verdicts,
          Provenances,   (* what a log may say of the finished run           *)
          MaxLogs,       (* bound: contents the log file has in turn         *)
          MaxCuts,       (* bound: deaths, and writes cut short              *)
          MaxEdits       (* bound: candidates edited by hand                 *)

Free == "free"           (* nobody holds the lock                           *)

ASSUME FeedbackAssumption ==
    /\ MaxLogs \in Nat \ {0} /\ MaxCuts \in Nat /\ MaxEdits \in Nat
    /\ Free \notin Callers

VARIABLES logs,          (* logs[n]: what the file's n-th content says       *)
          candidates, learnings,
          lock,          (* .promote.lock: the caller that holds it          *)
          pc, op, answer,
          says,          (* what the first read of the log gave              *)
          item,          (* the candidate being recorded or promoted         *)
          cuts, edits

storeVars == <<candidates, learnings>>
callVars  == <<pc, op, answer, says, item>>
vars      == <<logs, storeVars, lock, callVars, cuts, edits>>

-----------------------------------------------------------------------------
Unfinished == "unfinished"

(* A candidate's id is the digest of the verdict and the provenance, and so *)
(* stands for what they were; `body` is what the line holds now.  A digest  *)
(* of the log stands for one of its contents: none of them comes back.      *)
Body      == [verdict : Verdicts, says : Provenances, log : 1 .. MaxLogs]
Candidate == [id : Body, body : Body]
NoItem    == [id |-> "none"]

Says   == logs[Len(logs)]
Sha256 == Len(logs)

(* _append writes to the end of the file: a record that follows a fragment  *)
(* makes one line with it, which is not JSON.                               *)
Added(file, r) == [lines |-> Append(file.lines, [whole |-> ~file.torn, record |-> r]),
                   torn  |-> FALSE]
Cut(file)      == [file EXCEPT !.torn = TRUE]

(* read_jsonl drops a fragment at the end and raises for any other line     *)
(* that does not parse.                                                     *)
Readable(file) == \A n \in DOMAIN file.lines : file.lines[n].whole
Holding(file, id) == {n \in DOMAIN file.lines : file.lines[n].record.id = id}

Init ==
    /\ logs = <<Unfinished>>
    /\ candidates = [lines |-> <<>>, torn |-> FALSE]
    /\ learnings  = [lines |-> <<>>, torn |-> FALSE]
    /\ lock = Free
    /\ pc = [c \in Callers |-> "idle"]
    /\ op = [c \in Callers |-> "none"]
    /\ answer = [c \in Callers |-> "none"]
    /\ says = [c \in Callers |-> Unfinished]
    /\ item = [c \in Callers |-> NoItem]
    /\ cuts = 0 /\ edits = 0

-----------------------------------------------------------------------------
(* The world.                                                               *)

(* The run finishes, another run of the file adds its records, or someone   *)
(* changes what is there.                                                   *)
LogChanges ==
    /\ Len(logs) < MaxLogs
    /\ \E s \in Provenances \cup {Unfinished} : logs' = Append(logs, s)
    /\ UNCHANGED <<storeVars, lock, callVars, cuts, edits>>

(* A line of candidates.jsonl is edited under its old id.                   *)
EditCandidate ==
    /\ edits < MaxEdits
    /\ edits' = edits + 1
    /\ \E n \in DOMAIN candidates.lines, v \in Verdicts :
          candidates' = [candidates EXCEPT !.lines[n].record.body.verdict = v]
    /\ UNCHANGED <<logs, learnings, lock, callVars, cuts>>

(* A process dies, and what it locked is free.                              *)
Dies(c) ==
    /\ cuts < MaxCuts
    /\ cuts' = cuts + 1
    /\ pc' = [pc EXCEPT ![c] = "dead"]
    /\ lock' = IF lock = c THEN Free ELSE lock

Crash(c) ==
    /\ pc[c] \notin {"idle", "done", "dead"}
    /\ Dies(c)
    /\ UNCHANGED <<logs, storeVars, op, answer, says, item, edits>>

-----------------------------------------------------------------------------
Goto(c, at) == pc' = [pc EXCEPT ![c] = at]

(* A call is over; the lock of a promotion goes with it (_store_lock).      *)
Ends(c, a) ==
    /\ Goto(c, "done")
    /\ answer' = [answer EXCEPT ![c] = a]
    /\ lock' = IF lock = c THEN Free ELSE lock

(* record_outcome, with its own checks passed: _provenance reads the log,   *)
(* and then reads it again for the digest.                                  *)
Record(c) ==
    /\ pc[c] = "idle"
    /\ op' = [op EXCEPT ![c] = "record"]
    /\ says' = [says EXCEPT ![c] = Says]
    /\ IF Says = Unfinished THEN Ends(c, "refused")
                            ELSE Goto(c, "digest") /\ UNCHANGED <<lock, answer>>
    /\ UNCHANGED <<logs, storeVars, item, cuts, edits>>

DigestLog(c) ==
    /\ pc[c] = "digest"
    /\ \E v \in Verdicts :
          LET body == [verdict |-> v, says |-> says[c], log |-> Sha256]
          IN  item' = [item EXCEPT ![c] = [id |-> body, body |-> body]]
    /\ Goto(c, "append")
    /\ UNCHANGED <<logs, storeVars, lock, op, answer, says, cuts, edits>>

(* _append takes no notice of how much os.write wrote.                      *)
AppendCandidate(c) ==
    /\ pc[c] = "append" /\ op[c] = "record"
    /\ \/ /\ candidates' = Added(candidates, item[c])
          /\ Ends(c, "recorded") /\ UNCHANGED cuts
       \/ /\ cuts < MaxCuts /\ cuts' = cuts + 1
          /\ candidates' = Cut(candidates)
          /\ Ends(c, "recorded")
       \/ candidates' = Cut(candidates) /\ Dies(c) /\ UNCHANGED answer
    /\ UNCHANGED <<logs, learnings, op, says, item, edits>>

Promote(c) ==
    /\ pc[c] = "idle"
    /\ op' = [op EXCEPT ![c] = "promote"]
    /\ Goto(c, "wait")
    /\ UNCHANGED <<logs, storeVars, lock, answer, says, item, cuts, edits>>

(* Mutant of Lock: the store is not locked.                                 *)
LockNothing(c) ==
    /\ pc[c] = "wait"
    /\ Goto(c, "find")
    /\ UNCHANGED <<logs, storeVars, lock, op, answer, says, item, cuts, edits>>

(* _store_lock: flock waits until the lock is free.                         *)
Lock(c) ==
    /\ pc[c] = "wait" /\ lock = Free
    /\ lock' = c
    /\ Goto(c, "find")
    /\ UNCHANGED <<logs, storeVars, op, answer, says, item, cuts, edits>>

(* _promote: one candidate of this id, or a refusal.                        *)
Find(c) ==
    /\ pc[c] = "find"
    /\ \/ /\ ~Readable(candidates)
          /\ Ends(c, "unreadable") /\ UNCHANGED item
       \/ /\ Readable(candidates)
          /\ \E n \in DOMAIN candidates.lines :
                /\ Holding(candidates, candidates.lines[n].record.id) = {n}
                /\ item' = [item EXCEPT ![c] = candidates.lines[n].record]
          /\ Goto(c, "unpromoted") /\ UNCHANGED <<lock, answer>>
       \/ /\ Readable(candidates)   (* an unknown id, or one recorded twice *)
          /\ Ends(c, "refused") /\ UNCHANGED item
    /\ UNCHANGED <<logs, storeVars, op, says, cuts, edits>>

CheckUnpromoted(c) ==
    /\ pc[c] = "unpromoted"
    /\ \/ /\ ~Readable(learnings) /\ Ends(c, "unreadable")
       \/ /\ Readable(learnings) /\ Holding(learnings, item[c].id) # {}
          /\ Ends(c, "refused")
       \/ /\ Readable(learnings) /\ Holding(learnings, item[c].id) = {}
          /\ Goto(c, "gate") /\ UNCHANGED <<lock, answer>>
    /\ UNCHANGED <<logs, storeVars, op, says, item, cuts, edits>>

(* gate: the id against the content, then the log as it is now, read twice  *)
(* again.                                                                   *)
Gate(c) ==
    /\ pc[c] = "gate"
    /\ says' = [says EXCEPT ![c] = Says]
    /\ IF item[c].id # item[c].body \/ Says = Unfinished
       THEN Ends(c, "refused")
       ELSE Goto(c, "compare") /\ UNCHANGED <<lock, answer>>
    /\ UNCHANGED <<logs, storeVars, op, item, cuts, edits>>

(* Mutants of Compare: the digest alone is compared, and a refusal leaves   *)
(* the store locked.                                                        *)
CompareDigest(c) ==
    /\ pc[c] = "compare"
    /\ IF Sha256 = item[c].body.log
       THEN Goto(c, "append") /\ UNCHANGED <<lock, answer>>
       ELSE Ends(c, "refused")
    /\ UNCHANGED <<logs, storeVars, op, says, item, cuts, edits>>

CompareHolding(c) ==
    /\ pc[c] = "compare"
    /\ IF Sha256 = item[c].body.log /\ says[c] = item[c].body.says
       THEN Goto(c, "append") /\ UNCHANGED <<lock, answer>>
       ELSE /\ Goto(c, "done") /\ answer' = [answer EXCEPT ![c] = "refused"]
            /\ UNCHANGED lock
    /\ UNCHANGED <<logs, storeVars, op, says, item, cuts, edits>>

Compare(c) ==
    /\ pc[c] = "compare"
    /\ IF Sha256 = item[c].body.log /\ says[c] = item[c].body.says
       THEN Goto(c, "append") /\ UNCHANGED <<lock, answer>>
       ELSE Ends(c, "refused")
    /\ UNCHANGED <<logs, storeVars, op, says, item, cuts, edits>>

AppendLearning(c) ==
    /\ pc[c] = "append" /\ op[c] = "promote"
    /\ \/ /\ learnings' = Added(learnings, item[c])
          /\ Ends(c, "promoted") /\ UNCHANGED cuts
       \/ /\ cuts < MaxCuts /\ cuts' = cuts + 1
          /\ learnings' = Cut(learnings)
          /\ Ends(c, "promoted")
       \/ learnings' = Cut(learnings) /\ Dies(c) /\ UNCHANGED answer
    /\ UNCHANGED <<logs, candidates, op, says, item, edits>>

Promotes(c) == Lock(c) \/ Find(c) \/ CheckUnpromoted(c) \/ Gate(c) \/ Compare(c)
               \/ AppendLearning(c)
Records(c)  == DigestLog(c) \/ AppendCandidate(c)

Next == \/ \E c \in Callers : Record(c) \/ Promote(c) \/ Records(c) \/ Promotes(c) \/ Crash(c)
        \/ LogChanges \/ EditCandidate

(* A process goes on with what it began; a waiting flock gets a lock that   *)
(* stays free.                                                              *)
Fairness == \A c \in Callers : WF_vars(Records(c) \/ Promotes(c))

Spec == Init /\ [][Next]_vars /\ Fairness

-----------------------------------------------------------------------------
(* Properties.                                                              *)

(* However many promotions run and wherever they die, learnings.jsonl has   *)
(* at most one line about a candidate.                                      *)
PromotedOnce ==
    \A m, n \in DOMAIN learnings.lines :
        learnings.lines[m].record.id = learnings.lines[n].record.id => m = n

(* A learning holds what was recorded under its id, and its provenance is   *)
(* what the content of the log it names said, although the log was read     *)
(* twice to record it and twice to check it and may change at any of them.  *)
LearningsAreGrounded ==
    \A n \in DOMAIN learnings.lines :
        LET r == learnings.lines[n].record
        IN  r \in Candidate /\ r.body = r.id /\ logs[r.body.log] = r.body.says

(* A promotion that waits for the lock of the store ends, whoever died with *)
(* the lock in hand.                                                        *)
PromotionsEnd == \A c \in Callers : pc[c] = "wait" ~> pc[c] \in {"done", "dead"}
=============================================================================
