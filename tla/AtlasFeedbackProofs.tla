-------------------------- MODULE AtlasFeedbackProofs --------------------------
(***************************************************************************)
(* For any number of processes, verdicts and contents of the log, deaths,   *)
(* short writes and edits: what learnings.jsonl holds.                      *)
(***************************************************************************)
EXTENDS AtlasFeedback, TLAPS

Contents == Provenances \cup {Unfinished}
Line     == [whole : BOOLEAN, record : Candidate]
File     == [lines : Seq(Line), torn : BOOLEAN]
PCs      == {"idle", "digest", "wait", "find", "unpromoted", "gate", "compare", "append",
             "done", "dead"}

Types ==
    /\ logs \in Seq(Contents) /\ Len(logs) \in 1 .. MaxLogs
    /\ candidates \in File /\ learnings \in File
    /\ lock \in Callers \cup {Free}
    /\ pc \in [Callers -> PCs]
    /\ op \in [Callers -> {"none", "record", "promote"}]
    /\ says \in [Callers -> Contents]
    /\ item \in [Callers -> Candidate \cup {NoItem}]

(* Whoever works on learnings.jsonl holds the lock.                         *)
Promoting(c) == \/ pc[c] \in {"find", "unpromoted", "gate", "compare"}
                \/ pc[c] = "append" /\ op[c] = "promote"

Locked == \A c \in Callers : Promoting(c) => lock = c

(* A digest names a content the log has had.                                *)
Past(r)      == r.body.log <= Len(logs)
AllPast(file) == \A n \in DOMAIN file.lines : Past(file.lines[n].record)

FilesArePast == AllPast(candidates) /\ AllPast(learnings)

(* What a process knows of its candidate, by where it is.  Between the two  *)
(* reads of the log `says` is of a content no older than the one the        *)
(* candidate names.                                                         *)
Known(c) ==
    /\ pc[c] = "digest" => op[c] = "record" /\ says[c] \in Provenances
    /\ pc[c] \in {"unpromoted", "gate", "compare", "append"} =>
          item[c] \in Candidate /\ Past(item[c])
    /\ pc[c] \in {"gate", "compare"} \/ (pc[c] = "append" /\ op[c] = "promote") =>
          Holding(learnings, item[c].id) = {}
    /\ pc[c] = "compare" => /\ item[c].body = item[c].id
                            /\ \E n \in item[c].body.log .. Len(logs) : says[c] = logs[n]
    /\ pc[c] = "append" /\ op[c] = "promote" =>
          item[c].body = item[c].id /\ logs[item[c].body.log] = item[c].body.says

Knowing == \A c \in Callers : Known(c)

IInv == Types /\ Locked /\ FilesArePast /\ Knowing /\ PromotedOnce /\ LearningsAreGrounded

USE FeedbackAssumption
USE DEF storeVars, callVars, Goto

-----------------------------------------------------------------------------
(* The operators.                                                           *)

(* A line is added to a file, or a fragment is left at its end.             *)
LEMMA FileGrows ==
    ASSUME NEW f \in File, NEW r \in Candidate
    PROVE  Added(f, r) \in File /\ Cut(f) \in File /\ Cut(f).lines = f.lines
           /\ Added(f, r).lines = Append(f.lines, [whole |-> ~f.torn, record |-> r])
<1>1. (~f.torn) \in BOOLEAN
    BY Zenon
<1>2. [whole |-> ~f.torn, record |-> r] \in Line
    BY <1>1 DEF Line
<1>3. f.lines \in Seq(Line)  BY DEF File
<1>4. Append(f.lines, [whole |-> ~f.torn, record |-> r]) \in Seq(Line)
    BY <1>2, <1>3
<1>5. QED  BY <1>3, <1>4 DEF File, Added, Cut

(* What stands in a file is a candidate, and the line added is the last.    *)
LEMMA RecordsAreCandidates ==
    ASSUME Types
    PROVE  /\ \A n \in DOMAIN candidates.lines : candidates.lines[n].record \in Candidate
           /\ \A n \in DOMAIN learnings.lines : learnings.lines[n].record \in Candidate
<1>1. candidates.lines \in Seq(Line) /\ learnings.lines \in Seq(Line)
    BY DEF Types, File
<1>2. \A l \in Line : l.record \in Candidate
    BY DEF Line
<1>3. \A n \in DOMAIN candidates.lines : candidates.lines[n] \in Line
    BY <1>1
<1>4. \A n \in DOMAIN learnings.lines : learnings.lines[n] \in Line
    BY <1>1
<1>5. QED  BY <1>2, <1>3, <1>4

LEMMA AddedIsLast ==
    ASSUME NEW f \in File, NEW r \in Candidate
    PROVE  /\ DOMAIN f.lines = 1 .. Len(f.lines) /\ Len(f.lines) \in Nat
           /\ DOMAIN Added(f, r).lines = 1 .. (Len(f.lines) + 1)
           /\ \A n \in DOMAIN f.lines : Added(f, r).lines[n] = f.lines[n]
           /\ Added(f, r).lines[Len(f.lines) + 1].record = r
<1>1. f.lines \in Seq(Line)  BY DEF File
<1> DEFINE line == [whole |-> ~f.torn, record |-> r]
<1>2. Added(f, r).lines = Append(f.lines, line)
    BY FileGrows
<1>3. line.record = r  OBVIOUS
<1>4. line \in Line
    <2>1. (~f.torn) \in BOOLEAN  BY Zenon
    <2>2. QED  BY <2>1 DEF Line
<1> HIDE DEF line
<1>5. QED  BY <1>1, <1>2, <1>3, <1>4

(* The initial state satisfies the invariant.                               *)
LEMMA Initially == Init => IInv
<1> SUFFICES ASSUME Init PROVE IInv
    OBVIOUS
<1> USE DEF Init
<1>1. Types
    <2>1. candidates \in File /\ learnings \in File
        BY DEF File
    <2>2. logs \in Seq(Contents) /\ Len(logs) = 1
        BY DEF Contents
    <2>3. QED  BY <2>1, <2>2 DEF Types, PCs, Contents
<1>2. Locked /\ Knowing
    BY DEF Locked, Promoting, Knowing, Known
<1>3. FilesArePast /\ PromotedOnce /\ LearningsAreGrounded
    BY DEF FilesArePast, AllPast, PromotedOnce, LearningsAreGrounded
<1>4. QED  BY <1>1, <1>2, <1>3 DEF IInv

-----------------------------------------------------------------------------
(* The invariant, part by part.                                             *)

(* Every step keeps the types.                                              *)
LEMMA KeepsTypes == IInv /\ [Next]_vars => Types'
<1> SUFFICES ASSUME IInv, [Next]_vars PROVE Types'
    OBVIOUS
<1> USE DEF IInv, Types
<1>1. CASE LogChanges
    <2>1. PICK s \in Contents : logs' = Append(logs, s)
        BY <1>1 DEF LogChanges, Contents
    <2>2. logs' \in Seq(Contents) /\ Len(logs') = Len(logs) + 1
        BY <2>1
    <2>3. QED  BY <1>1, <2>2 DEF LogChanges
<1>2. CASE EditCandidate
    <2>1. PICK n \in DOMAIN candidates.lines, v \in Verdicts :
              candidates' = [candidates EXCEPT !.lines[n].record.body.verdict = v]
        BY <1>2 DEF EditCandidate
    <2> DEFINE line == candidates.lines[n]
               new == [line EXCEPT !.record.body.verdict = v]
    <2>2. candidates.lines \in Seq(Line) /\ line \in Line
        BY DEF File
    <2>3. new \in Line
        <3>1. [line.record.body EXCEPT !.verdict = v] \in Body
            BY <2>2 DEF Line, Candidate, Body
        <3>2. QED  BY <2>2, <3>1 DEF Line, Candidate
    <2>4. [candidates.lines EXCEPT ![n] = new] \in Seq(Line)
        BY <2>2, <2>3
    <2>5. candidates' \in File
        BY <2>1, <2>4 DEF File
    <2>6. QED  BY <1>2, <2>5 DEF EditCandidate
<1>3. ASSUME NEW c \in Callers, Record(c) PROVE Types'
    <2>1. Says \in Contents  BY DEF Says
    <2>2. pc' \in [Callers -> PCs] /\ lock' \in Callers \cup {Free}
        BY <1>3 DEF Record, Ends, PCs
    <2>3. QED  BY <1>3, <2>1, <2>2 DEF Record
<1>4. ASSUME NEW c \in Callers, Promote(c) PROVE Types'
    <2>1. pc' \in [Callers -> PCs] /\ lock' \in Callers \cup {Free}
        BY <1>4 DEF Promote, Dies, PCs
    <2>2. QED  BY <1>4, <2>1 DEF Promote
<1>5. ASSUME NEW c \in Callers, DigestLog(c) PROVE Types'
    <2>1. PICK v \in Verdicts :
              LET body == [verdict |-> v, says |-> says[c], log |-> Sha256]
              IN  item' = [item EXCEPT ![c] = [id |-> body, body |-> body]]
        BY <1>5 DEF DigestLog
    <2> DEFINE body == [verdict |-> v, says |-> says[c], log |-> Sha256]
    <2>2. body \in Body
        BY <1>5 DEF DigestLog, Body, Sha256, Knowing, Known
    <2>3. item' \in [Callers -> Candidate \cup {NoItem}]
        BY <2>1, <2>2 DEF Candidate
    <2>4. pc' \in [Callers -> PCs]  BY <1>5 DEF DigestLog, PCs
    <2>5. QED  BY <1>5, <2>3, <2>4 DEF DigestLog
<1>6. ASSUME NEW c \in Callers, AppendCandidate(c) PROVE Types'
    <2>1. item[c] \in Candidate
        BY <1>6 DEF AppendCandidate, Knowing, Known
    <2>2. candidates' \in File
        <3>1. candidates' = Added(candidates, item[c]) \/ candidates' = Cut(candidates)
            BY <1>6 DEF AppendCandidate
        <3>2. candidates \in File  OBVIOUS
        <3>3. QED  BY <2>1, <3>1, <3>2, FileGrows
    <2>3. pc' \in [Callers -> PCs] /\ lock' \in Callers \cup {Free}
        BY <1>6 DEF AppendCandidate, Ends, Dies, PCs
    <2>4. QED  BY <1>6, <2>2, <2>3 DEF AppendCandidate
<1>7. ASSUME NEW c \in Callers, Lock(c) PROVE Types'
    <2>1. pc' \in [Callers -> PCs] /\ lock' \in Callers \cup {Free}
        BY <1>7 DEF Lock, Dies, PCs
    <2>2. QED  BY <1>7, <2>1 DEF Lock
<1>8. ASSUME NEW c \in Callers, Find(c) PROVE Types'
    <2>1. pc' \in [Callers -> PCs] /\ lock' \in Callers \cup {Free}
        BY <1>8 DEF Find, Ends, PCs
    <2>2. \A n \in DOMAIN candidates.lines : candidates.lines[n].record \in Candidate
        BY RecordsAreCandidates
    <2>3. item' \in [Callers -> Candidate \cup {NoItem}]
        BY <1>8, <2>2 DEF Find
    <2>4. QED  BY <1>8, <2>1, <2>3 DEF Find
<1>9. ASSUME NEW c \in Callers, CheckUnpromoted(c) PROVE Types'
    <2>1. pc' \in [Callers -> PCs] /\ lock' \in Callers \cup {Free}
        BY <1>9 DEF CheckUnpromoted, Ends, PCs
    <2>2. QED  BY <1>9, <2>1 DEF CheckUnpromoted
<1>10. ASSUME NEW c \in Callers, Gate(c) PROVE Types'
    <2>1. Says \in Contents  BY DEF Says
    <2>2. pc' \in [Callers -> PCs] /\ lock' \in Callers \cup {Free}
        BY <1>10 DEF Gate, Ends, PCs
    <2>3. QED  BY <1>10, <2>1, <2>2 DEF Gate
<1>11. ASSUME NEW c \in Callers, Compare(c) PROVE Types'
    <2>1. pc' \in [Callers -> PCs] /\ lock' \in Callers \cup {Free}
        BY <1>11 DEF Compare, Ends, PCs
    <2>2. QED  BY <1>11, <2>1 DEF Compare
<1>12. ASSUME NEW c \in Callers, AppendLearning(c) PROVE Types'
    <2>1. item[c] \in Candidate
        BY <1>12 DEF AppendLearning, Knowing, Known
    <2>2. learnings' \in File
        <3>1. learnings' = Added(learnings, item[c]) \/ learnings' = Cut(learnings)
            BY <1>12 DEF AppendLearning
        <3>2. learnings \in File  OBVIOUS
        <3>3. QED  BY <2>1, <3>1, <3>2, FileGrows
    <2>3. pc' \in [Callers -> PCs] /\ lock' \in Callers \cup {Free}
        BY <1>12 DEF AppendLearning, Ends, Dies, PCs
    <2>4. QED  BY <1>12, <2>2, <2>3 DEF AppendLearning
<1>13. ASSUME NEW c \in Callers, Crash(c) PROVE Types'
    <2>1. pc' \in [Callers -> PCs] /\ lock' \in Callers \cup {Free}
        BY <1>13 DEF Crash, Dies, PCs
    <2>2. QED  BY <1>13, <2>1 DEF Crash
<1>14. CASE UNCHANGED vars
    BY <1>14 DEF vars
<1>15. QED
    BY <1>1, <1>2, <1>3, <1>4, <1>5, <1>6, <1>7, <1>8, <1>9,
       <1>10, <1>11, <1>12, <1>13, <1>14 DEF Next, Records, Promotes

(* Nobody gets to the learnings but with the lock.                          *)
LEMMA KeepsLocked == IInv /\ [Next]_vars => Locked'
<1> SUFFICES ASSUME IInv, [Next]_vars PROVE Locked'
    OBVIOUS
<1> USE DEF IInv, Types, Locked, Promoting
<1>1. CASE LogChanges
    BY <1>1 DEF LogChanges
<1>2. CASE EditCandidate
    BY <1>2 DEF EditCandidate
<1>3. ASSUME NEW c \in Callers, Record(c) PROVE Locked'
    BY <1>3 DEF Record, Ends
<1>4. ASSUME NEW c \in Callers, Promote(c) PROVE Locked'
    BY <1>4 DEF Promote
<1>5. ASSUME NEW c \in Callers, DigestLog(c) PROVE Locked'
    BY <1>5 DEF DigestLog, Knowing, Known
<1>6. ASSUME NEW c \in Callers, AppendCandidate(c) PROVE Locked'
    BY <1>6 DEF AppendCandidate, Ends, Dies, Cut, Added
<1>7. ASSUME NEW c \in Callers, Lock(c) PROVE Locked'
    BY <1>7 DEF Lock
<1>8. ASSUME NEW c \in Callers, Find(c) PROVE Locked'
    BY <1>8 DEF Find, Ends
<1>9. ASSUME NEW c \in Callers, CheckUnpromoted(c) PROVE Locked'
    BY <1>9 DEF CheckUnpromoted, Ends
<1>10. ASSUME NEW c \in Callers, Gate(c) PROVE Locked'
    BY <1>10 DEF Gate, Ends
<1>11. ASSUME NEW c \in Callers, Compare(c) PROVE Locked'
    BY <1>11 DEF Compare, Ends
<1>12. ASSUME NEW c \in Callers, AppendLearning(c) PROVE Locked'
    BY <1>12 DEF AppendLearning, Ends, Dies, Cut, Added
<1>13. ASSUME NEW c \in Callers, Crash(c) PROVE Locked'
    BY <1>13 DEF Crash, Dies
<1>14. CASE UNCHANGED vars
    BY <1>14 DEF vars
<1>15. QED
    BY <1>1, <1>2, <1>3, <1>4, <1>5, <1>6, <1>7, <1>8, <1>9,
       <1>10, <1>11, <1>12, <1>13, <1>14 DEF Next, Records, Promotes

(* What the log has said it has said: contents are added, none is lost.     *)
LEMMA LogsGrow ==
    ASSUME IInv, [Next]_vars
    PROVE  /\ Len(logs) \in Nat /\ Len(logs') \in Nat /\ Len(logs) <= Len(logs')
           /\ \A n \in 1 .. Len(logs) : logs'[n] = logs[n]
<1>1. logs \in Seq(Contents) /\ Len(logs) \in Nat
    BY DEF IInv, Types
<1>2. CASE UNCHANGED logs  BY <1>1, <1>2
<1>3. CASE LogChanges
    <2>1. PICK s \in Contents : logs' = Append(logs, s)
        BY <1>3 DEF LogChanges, Contents
    <2>2. QED  BY <1>1, <2>1
<1>4. UNCHANGED logs \/ LogChanges
    BY DEF Next, Records, Promotes, vars, EditCandidate, Record, Promote, DigestLog,
           AppendCandidate, Lock, Find, CheckUnpromoted, Gate, Compare, AppendLearning, Crash
<1>5. QED  BY <1>2, <1>3, <1>4

(* What a record names it goes on naming.                                   *)
LEMMA PastStays ==
    ASSUME IInv, [Next]_vars, NEW r \in Candidate, Past(r)
    PROVE  /\ r.body.log \in 1 .. Len(logs) /\ r.body.log <= Len(logs')
           /\ logs'[r.body.log] = logs[r.body.log]
<1>1. r.body.log \in Nat /\ 1 <= r.body.log
    BY DEF Candidate, Body
<1>2. QED  BY <1>1, LogsGrow DEF Past

(* Who changes which file.                                                  *)
LEMMA WhoWrites ==
    ASSUME [Next]_vars
    PROVE  /\ \/ UNCHANGED candidates
              \/ EditCandidate
              \/ \E c \in Callers : AppendCandidate(c)
           /\ UNCHANGED learnings \/ \E c \in Callers : AppendLearning(c)
BY DEF Next, Records, Promotes, vars, LogChanges, EditCandidate, Record, Promote, DigestLog,
       AppendCandidate, Lock, Find, CheckUnpromoted, Gate, Compare, AppendLearning, Crash

(* Both files name contents the log has had.                                *)
LEMMA KeepsPast == IInv /\ [Next]_vars => FilesArePast'
<1> SUFFICES ASSUME IInv, [Next]_vars PROVE FilesArePast'
    OBVIOUS
<1>1. Types /\ FilesArePast /\ Knowing
    BY DEF IInv
<1>2. candidates \in File /\ learnings \in File
    BY <1>1 DEF Types
<1>3. \A n \in DOMAIN candidates.lines : candidates.lines[n].record.body.log <= Len(logs')
    BY <1>1, RecordsAreCandidates, PastStays DEF FilesArePast, AllPast
<1>4. \A n \in DOMAIN learnings.lines : learnings.lines[n].record.body.log <= Len(logs')
    BY <1>1, RecordsAreCandidates, PastStays DEF FilesArePast, AllPast
<1>5. AllPast(candidates)'
    <2>1. CASE UNCHANGED candidates
        BY <2>1, <1>3 DEF AllPast, Past
    <2>2. CASE EditCandidate
        <3>1. PICK n \in DOMAIN candidates.lines, v \in Verdicts :
                  candidates' = [candidates EXCEPT !.lines[n].record.body.verdict = v]
            BY <2>2 DEF EditCandidate
        <3>2. \A m \in DOMAIN candidates.lines : candidates.lines[m] \in Line
            BY <1>2 DEF File
        <3>3. \A m \in DOMAIN candidates'.lines :
                  /\ m \in DOMAIN candidates.lines
                  /\ candidates'.lines[m].record.body.log = candidates.lines[m].record.body.log
            BY <1>2, <3>1, <3>2 DEF File, Line, Candidate, Body
        <3>4. QED  BY <1>3, <3>3 DEF AllPast, Past
    <2>3. ASSUME NEW c \in Callers, AppendCandidate(c) PROVE AllPast(candidates)'
        <3>1. item[c] \in Candidate /\ Past(item[c])
            BY <1>1, <2>3 DEF AppendCandidate, Knowing, Known
        <3>2. item[c].body.log <= Len(logs')
            BY <3>1, PastStays
        <3>3. candidates' = Added(candidates, item[c]) \/ candidates' = Cut(candidates)
            BY <2>3 DEF AppendCandidate
        <3>4. CASE candidates' = Added(candidates, item[c])
            <4>1. \A m \in DOMAIN candidates'.lines :
                      m \in DOMAIN candidates.lines \/ m = Len(candidates.lines) + 1
                BY <1>2, <3>1, <3>4, AddedIsLast
            <4>2. QED
                BY <1>2, <1>3, <3>1, <3>2, <3>4, <4>1, AddedIsLast DEF AllPast, Past
        <3>5. CASE candidates' = Cut(candidates)
            <4>1. candidates'.lines = candidates.lines
                BY <1>2, <3>1, <3>5, FileGrows
            <4>2. QED  BY <1>3, <4>1 DEF AllPast, Past
        <3>6. QED  BY <3>3, <3>4, <3>5
    <2>4. QED  BY <2>1, <2>2, <2>3, WhoWrites
<1>6. AllPast(learnings)'
    <2>1. CASE UNCHANGED learnings
        BY <2>1, <1>4 DEF AllPast, Past
    <2>2. ASSUME NEW c \in Callers, AppendLearning(c) PROVE AllPast(learnings)'
        <3>1. item[c] \in Candidate /\ Past(item[c])
            BY <1>1, <2>2 DEF AppendLearning, Knowing, Known
        <3>2. item[c].body.log <= Len(logs')
            BY <3>1, PastStays
        <3>3. learnings' = Added(learnings, item[c]) \/ learnings' = Cut(learnings)
            BY <2>2 DEF AppendLearning
        <3>4. CASE learnings' = Added(learnings, item[c])
            <4>1. \A m \in DOMAIN learnings'.lines :
                      m \in DOMAIN learnings.lines \/ m = Len(learnings.lines) + 1
                BY <1>2, <3>1, <3>4, AddedIsLast
            <4>2. QED
                BY <1>2, <1>4, <3>1, <3>2, <3>4, <4>1, AddedIsLast DEF AllPast, Past
        <3>5. CASE learnings' = Cut(learnings)
            <4>1. learnings'.lines = learnings.lines
                BY <1>2, <3>1, <3>5, FileGrows
            <4>2. QED  BY <1>4, <4>1 DEF AllPast, Past
        <3>6. QED  BY <3>3, <3>4, <3>5
    <2>3. QED  BY <2>1, <2>2, WhoWrites
<1>7. QED  BY <1>5, <1>6 DEF FilesArePast

-----------------------------------------------------------------------------
(* What a process knows.                                                    *)

(* A step takes nothing from a process that it does not move: contents are  *)
(* only added to the log, and nobody writes the learnings beside the holder *)
(* of the lock.                                                             *)
LEMMA Bystander ==
    ASSUME IInv, [Next]_vars, NEW d \in Callers,
           pc'[d] = pc[d], op'[d] = op[d], says'[d] = says[d], item'[d] = item[d],
           UNCHANGED learnings \/ ~Promoting(d)
    PROVE  Known(d)'
<1>1. Known(d)  BY DEF IInv, Knowing
<1>2. CASE pc[d] \in {"unpromoted", "gate", "compare", "append"}
    <2>1. item[d] \in Candidate /\ Past(item[d])
        BY <1>1, <1>2 DEF Known
    <2>2. /\ item[d].body.log \in 1 .. Len(logs) /\ item[d].body.log <= Len(logs')
          /\ logs'[item[d].body.log] = logs[item[d].body.log]
        BY <2>1, PastStays
    <2>3. pc[d] = "compare" =>
              \E n \in item[d].body.log .. Len(logs') : says[d] = logs'[n]
        BY <1>1, <2>2, LogsGrow DEF Known
    <2>4. Promoting(d) => learnings' = learnings
        OBVIOUS
    <2>5. (pc[d] \in {"gate", "compare"} \/ (pc[d] = "append" /\ op[d] = "promote")) =>
              Holding(learnings', item[d].id) = {}
        BY <1>1, <2>4 DEF Known, Promoting
    <2>6. Past(item[d])'
        BY <2>2 DEF Past
    <2> HIDE DEF Past, Holding, Candidate
    <2>7. QED  BY <1>1, <1>2, <2>1, <2>2, <2>3, <2>5, <2>6 DEF Known, Holding
<1>3. CASE pc[d] \notin {"unpromoted", "gate", "compare", "append"}
    BY <1>1, <1>3 DEF Known
<1>4. QED  BY <1>2, <1>3

Step(c) == Record(c) \/ Promote(c) \/ Records(c) \/ Promotes(c) \/ Crash(c)

(* A step is one process's, and the learnings are written under the lock.   *)
LEMMA OneMoves ==
    ASSUME IInv, NEW c \in Callers, NEW d \in Callers, c # d, Step(c)
    PROVE  /\ pc'[d] = pc[d] /\ op'[d] = op[d] /\ says'[d] = says[d] /\ item'[d] = item[d]
           /\ UNCHANGED learnings \/ ~Promoting(d)
<1>1. Types /\ Locked  BY DEF IInv
<1>2. pc'[d] = pc[d] /\ op'[d] = op[d] /\ says'[d] = says[d] /\ item'[d] = item[d]
    BY <1>1 DEF Types, Step, Records, Promotes, Record, Promote, DigestLog, AppendCandidate,
                Lock, Find, CheckUnpromoted, Gate, Compare, AppendLearning, Crash, Ends, Dies
<1>3. CASE AppendLearning(c)
    <2>1. lock = c  BY <1>1, <1>3 DEF AppendLearning, Locked, Promoting
    <2>2. QED  BY <1>1, <1>2, <2>1 DEF Locked
<1>4. CASE ~AppendLearning(c)
    BY <1>2, <1>4 DEF Step, Records, Promotes, Record, Promote, DigestLog, AppendCandidate,
                Lock, Find, CheckUnpromoted, Gate, Compare, Crash
<1>5. QED  BY <1>3, <1>4

(* What a process knows after a step of its own.                            *)
LEMMA MoverKnows ==
    ASSUME IInv, [Next]_vars, NEW c \in Callers, Step(c)
    PROVE  Known(c)'
<1>1. Types /\ Locked /\ FilesArePast /\ Known(c)
    BY DEF IInv, Knowing
<1>2. c # Free /\ Len(logs) \in 1 .. MaxLogs /\ MaxLogs \in Nat
    BY <1>1 DEF Types
<1>3. pc'[c] \notin {"digest", "unpromoted", "gate", "compare", "append"} => Known(c)'
    BY DEF Known
<1>4. ASSUME Record(c) PROVE Known(c)'
    <2>1. Says \in Contents
        BY <1>1 DEF Says, Types
    <2>2. /\ op'[c] = "record" /\ says'[c] = Says
          /\ pc'[c] = "done" \/ (pc'[c] = "digest" /\ Says # Unfinished)
        BY <1>1, <1>4 DEF Record, Ends, Types
    <2>3. QED  BY <2>1, <2>2 DEF Known, Contents
<1>5. ASSUME Promote(c) \/ Lock(c) \/ Crash(c) PROVE Known(c)'
    <2>1. pc'[c] \in {"wait", "find", "dead"}
        BY <1>1, <1>5 DEF Promote, Lock, Crash, Dies, Types
    <2>2. QED  BY <1>3, <2>1
<1>6. ASSUME AppendCandidate(c) \/ AppendLearning(c) PROVE Known(c)'
    <2>1. pc'[c] \in {"done", "dead"}
        BY <1>1, <1>6 DEF AppendCandidate, AppendLearning, Ends, Dies, Types
    <2>2. QED  BY <1>3, <2>1
<1>7. ASSUME DigestLog(c) PROVE Known(c)'
    <2>1. PICK v \in Verdicts :
              LET body == [verdict |-> v, says |-> says[c], log |-> Sha256]
              IN  item' = [item EXCEPT ![c] = [id |-> body, body |-> body]]
        BY <1>7 DEF DigestLog
    <2> DEFINE body == [verdict |-> v, says |-> says[c], log |-> Sha256]
    <2>2. op[c] = "record" /\ says[c] \in Provenances
        BY <1>1, <1>7 DEF DigestLog, Known
    <2>3. body \in Body /\ body.log = Len(logs)
        BY <1>2, <2>2 DEF Body, Sha256
    <2>4. item'[c] = [id |-> body, body |-> body]
        BY <1>1, <2>1 DEF Types
    <2>5. pc'[c] = "append" /\ op'[c] = "record" /\ logs' = logs
        BY <1>1, <1>7, <2>2 DEF DigestLog, Types
    <2>6. item'[c] \in Candidate /\ item'[c].body.log <= Len(logs')
        BY <1>2, <2>3, <2>4, <2>5 DEF Candidate
    <2>7. QED  BY <2>5, <2>6 DEF Known, Past
<1>8. ASSUME Find(c) PROVE Known(c)'
    <2>1. CASE pc'[c] = "done"
        BY <1>3, <2>1
    <2>2. CASE pc'[c] # "done"
        <3>1. pc'[c] = "unpromoted" /\ logs' = logs
            BY <1>1, <1>8, <2>2 DEF Find, Ends, Types
        <3>2. PICK n \in DOMAIN candidates.lines : item'[c] = candidates.lines[n].record
            BY <1>1, <1>8, <2>2 DEF Find, Ends, Types
        <3>3. item'[c] \in Candidate /\ item'[c].body.log <= Len(logs')
            BY <1>1, <3>1, <3>2, RecordsAreCandidates DEF FilesArePast, AllPast, Past
        <3>4. QED  BY <3>1, <3>3 DEF Known, Past
    <2>3. QED  BY <2>1, <2>2
<1>9. ASSUME CheckUnpromoted(c) PROVE Known(c)'
    <2>1. CASE pc'[c] = "done"
        BY <1>3, <2>1
    <2>2. CASE pc'[c] # "done"
        <3>1. pc'[c] = "gate" /\ Holding(learnings, item[c].id) = {}
            BY <1>1, <1>9, <2>2 DEF CheckUnpromoted, Ends, Types
        <3>2. pc[c] = "unpromoted" /\ UNCHANGED <<logs, item, learnings>>
            BY <1>9 DEF CheckUnpromoted
        <3>3. item[c] \in Candidate /\ Past(item[c])
            BY <1>1, <3>2 DEF Known
        <3>4. QED  BY <3>1, <3>2, <3>3 DEF Known, Past, Holding
    <2>3. QED  BY <2>1, <2>2
<1>10. ASSUME Gate(c) PROVE Known(c)'
    <2>1. CASE pc'[c] = "done"
        BY <1>3, <2>1
    <2>2. CASE pc'[c] # "done"
        <3>1. pc'[c] = "compare" /\ item[c].id = item[c].body /\ says'[c] = logs[Len(logs)]
            BY <1>1, <1>10, <2>2 DEF Gate, Ends, Types, Says
        <3>2. pc[c] = "gate" /\ UNCHANGED <<logs, item, learnings>>
            BY <1>10 DEF Gate
        <3>3. item[c] \in Candidate /\ Past(item[c]) /\ Holding(learnings, item[c].id) = {}
            BY <1>1, <3>2 DEF Known
        <3>4. Len(logs) \in item[c].body.log .. Len(logs)
            BY <1>2, <3>3 DEF Past, Candidate, Body
        <3>5. QED  BY <3>1, <3>2, <3>3, <3>4 DEF Known, Past, Holding
    <2>3. QED  BY <2>1, <2>2
<1>11. ASSUME Compare(c) PROVE Known(c)'
    <2>1. CASE pc'[c] = "done"
        BY <1>3, <2>1
    <2>2. CASE pc'[c] # "done"
        <3>1. /\ pc'[c] = "append" /\ Len(logs) = item[c].body.log
              /\ says[c] = item[c].body.says
            BY <1>1, <1>11, <2>2 DEF Compare, Ends, Types, Sha256
        <3>2. pc[c] = "compare" /\ UNCHANGED <<logs, item, learnings, op>>
            BY <1>11 DEF Compare
        <3>3. /\ item[c] \in Candidate /\ Past(item[c])
              /\ Holding(learnings, item[c].id) = {} /\ item[c].body = item[c].id
            BY <1>1, <3>2 DEF Known
        <3>4. PICK n \in item[c].body.log .. Len(logs) : says[c] = logs[n]
            BY <1>1, <3>2 DEF Known
        <3>5. logs[item[c].body.log] = item[c].body.says
            BY <1>2, <3>1, <3>4
        <3>6. QED  BY <3>1, <3>2, <3>3, <3>5 DEF Known, Past, Holding
    <2>3. QED  BY <2>1, <2>2
<1>12. QED
    BY <1>4, <1>5, <1>6, <1>7, <1>8, <1>9, <1>10, <1>11 DEF Step, Records, Promotes

(* What a process knows of its candidate stays true.                        *)
LEMMA KeepsKnowing == IInv /\ [Next]_vars => Knowing'
<1> SUFFICES ASSUME IInv, [Next]_vars, NEW d \in Callers PROVE Known(d)'
    BY DEF Knowing
<1>1. CASE LogChanges \/ EditCandidate \/ UNCHANGED vars
    BY <1>1, Bystander DEF LogChanges, EditCandidate, vars
<1>2. ASSUME NEW c \in Callers, Step(c) PROVE Known(d)'
    <2>1. CASE c = d  BY <1>2, <2>1, MoverKnows
    <2>2. CASE c # d  BY <1>2, <2>2, OneMoves, Bystander
    <2>3. QED  BY <2>1, <2>2
<1>3. QED  BY <1>1, <1>2 DEF Next, Step

-----------------------------------------------------------------------------
(* What the learnings are.                                                  *)

(* What a process appends has no learning yet, and the log bears it out.    *)
LEMMA WhatIsAppended ==
    ASSUME IInv, NEW c \in Callers, AppendLearning(c)
    PROVE  /\ item[c] \in Candidate /\ item[c].body = item[c].id
           /\ logs[item[c].body.log] = item[c].body.says /\ logs' = logs
           /\ \A n \in DOMAIN learnings.lines : learnings.lines[n].record.id # item[c].id
           /\ learnings' = Added(learnings, item[c]) \/ learnings' = Cut(learnings)
<1>1. Known(c) /\ pc[c] = "append" /\ op[c] = "promote"
    BY DEF IInv, Knowing, AppendLearning
<1>2. Holding(learnings, item[c].id) = {}
    BY <1>1 DEF Known
<1>3. QED  BY <1>1, <1>2 DEF Known, Holding, AppendLearning

(* One learning for a candidate.                                            *)
LEMMA KeepsOnce == IInv /\ [Next]_vars => PromotedOnce'
<1> SUFFICES ASSUME IInv, [Next]_vars PROVE PromotedOnce'
    OBVIOUS
<1>1. PromotedOnce /\ learnings \in File
    BY DEF IInv, Types
<1>2. CASE UNCHANGED learnings
    BY <1>1, <1>2 DEF PromotedOnce
<1>3. ASSUME NEW c \in Callers, AppendLearning(c) PROVE PromotedOnce'
    <2> DEFINE last == Len(learnings.lines) + 1
    <2>1. CASE learnings' = Added(learnings, item[c])
        <3>1. /\ last \notin DOMAIN learnings.lines /\ DOMAIN learnings'.lines
                     = DOMAIN learnings.lines \cup {last}
              /\ \A n \in DOMAIN learnings.lines : learnings'.lines[n] = learnings.lines[n]
              /\ learnings'.lines[last].record = item[c]
            BY <1>1, <1>3, <2>1, WhatIsAppended, AddedIsLast
        <3>2. \A n \in DOMAIN learnings.lines : learnings.lines[n].record.id # item[c].id
            BY <1>3, WhatIsAppended
        <3> HIDE DEF last
        <3>3. QED  BY <1>1, <3>1, <3>2 DEF PromotedOnce
    <2>2. CASE learnings' = Cut(learnings)
        <3>1. learnings'.lines = learnings.lines
            BY <1>1, <1>3, <2>2, WhatIsAppended, FileGrows
        <3>2. QED  BY <1>1, <3>1 DEF PromotedOnce
    <2>3. QED  BY <1>3, <2>1, <2>2, WhatIsAppended
<1>4. QED  BY <1>2, <1>3, WhoWrites

(* Learnings rest on the log.                                               *)
LEMMA KeepsGrounded == IInv /\ [Next]_vars => LearningsAreGrounded'
<1> SUFFICES ASSUME IInv, [Next]_vars PROVE LearningsAreGrounded'
    OBVIOUS
<1> DEFINE Rests(r) == r \in Candidate /\ r.body = r.id /\ logs'[r.body.log] = r.body.says
<1>1. LearningsAreGrounded /\ FilesArePast /\ learnings \in File
    BY DEF IInv, Types
<1>2. \A n \in DOMAIN learnings.lines : Rests(learnings.lines[n].record)
    BY <1>1, PastStays DEF LearningsAreGrounded, FilesArePast, AllPast
<1>3. (\A n \in DOMAIN learnings'.lines : Rests(learnings'.lines[n].record))
          => LearningsAreGrounded'
    BY DEF LearningsAreGrounded
<1>4. CASE UNCHANGED learnings
    BY <1>2, <1>3, <1>4
<1>5. ASSUME NEW c \in Callers, AppendLearning(c) PROVE LearningsAreGrounded'
    <2>1. Rests(item[c]) /\ item[c] \in Candidate
        BY <1>5, WhatIsAppended
    <2> HIDE DEF Rests
    <2>2. CASE learnings' = Added(learnings, item[c])
        <3>1. \A n \in DOMAIN learnings'.lines :
                  n \in DOMAIN learnings.lines \/ n = Len(learnings.lines) + 1
            BY <1>1, <2>1, <2>2, AddedIsLast
        <3>2. QED  BY <1>1, <1>2, <1>3, <2>1, <2>2, <3>1, AddedIsLast
    <2>3. CASE learnings' = Cut(learnings)
        BY <1>1, <1>2, <1>3, <2>1, <2>3, FileGrows
    <2>4. QED  BY <1>5, <2>2, <2>3, WhatIsAppended
<1>6. QED  BY <1>4, <1>5, WhoWrites

-----------------------------------------------------------------------------
(* The theorems.                                                            *)

(* Every step keeps the invariant.                                          *)
LEMMA Inductive == IInv /\ [Next]_vars => IInv'
BY KeepsTypes, KeepsLocked, KeepsPast, KeepsKnowing, KeepsOnce, KeepsGrounded DEF IInv

(* The invariant holds.                                                     *)
LEMMA Invariant == Spec => []IInv
<1>1. Init => IInv  BY Initially
<1>2. IInv /\ [Next]_vars => IInv'  BY Inductive
<1>3. QED  BY <1>1, <1>2, PTL DEF Spec

(* A process between reading learnings.jsonl and writing to it holds        *)
(* .promote.lock, and no two processes are (_store_lock around _promote).   *)
THEOREM PromotionsExclude ==
    Spec => [](\A c, d \in Callers : Promoting(c) /\ Promoting(d) => c = d)
<1>1. IInv => \A c, d \in Callers : Promoting(c) /\ Promoting(d) => c = d
    BY DEF IInv, Locked
<1>2. QED  BY <1>1, Invariant, PTL

(* However many promotions run and die, learnings.jsonl has at most one     *)
(* line about a candidate (_promote's check, under the lock).               *)
THEOREM OneLearningPerCandidate == Spec => []PromotedOnce
<1>1. IInv => PromotedOnce  BY DEF IInv
<1>2. QED  BY <1>1, Invariant, PTL

(* A learning holds what was recorded, and the content of the log that it   *)
(* names said so (gate, over two reads of a log that changes).              *)
THEOREM LearningsRestOnTheLog == Spec => []LearningsAreGrounded
<1>1. IInv => LearningsAreGrounded  BY DEF IInv
<1>2. QED  BY <1>1, Invariant, PTL
=============================================================================
