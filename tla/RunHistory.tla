------------------------------ MODULE RunHistory ------------------------------
(***************************************************************************)
(* What an atlas-event.v1 log promises a reader about each run it holds,   *)
(* whoever wrote it: nothing is rewritten, a run begins once with          *)
(* run_started, is extended while it is open, and ends at most once with   *)
(* run_stopped, after which it is final.  inspect_run._validate_history    *)
(* refuses any history that is not of this shape.                          *)
(*                                                                         *)
(* `readable` is FALSE once a line in the middle of the file does not      *)
(* parse: read_jsonl then raises for every reader and every run, so no     *)
(* history is left to speak of.                                            *)
(***************************************************************************)
EXTENDS Naturals, Sequences

CONSTANT Runs     (* the run ids the file may hold                          *)

VARIABLES hist, readable
vars == <<hist, readable>>

-----------------------------------------------------------------------------
Begun(h)   == h # <<>>
Stopped(h) == \E i \in DOMAIN h : h[i].kind = "run_stopped"
Open(h)    == Begun(h) /\ ~Stopped(h)

(* _validate_history: contiguous sequence numbers, one run_started at 0,    *)
(* and at most one run_stopped, as the last record.                        *)
ValidHistory(h) ==
    /\ \A i \in DOMAIN h : h[i].seq = i - 1
    /\ Begun(h) => h[1].kind = "run_started"
    /\ \A i \in DOMAIN h : h[i].kind = "run_started" => i = 1
    /\ \A i \in DOMAIN h : h[i].kind = "run_stopped" => i = Len(h)

-----------------------------------------------------------------------------
Init == /\ hist = [r \in Runs |-> <<>>]
        /\ readable = TRUE

(* The record this step adds to run r: any record with a `kind` and a      *)
(* sequence number `seq`.                                                  *)
New(r) == hist'[r][Len(hist[r]) + 1]

Add(r) == /\ readable
          /\ Len(hist'[r]) = Len(hist[r]) + 1
          /\ New(r).seq = Len(hist[r])
          /\ hist' = [hist EXCEPT ![r] = Append(@, New(r))]
          /\ UNCHANGED readable

Begin(r)  == ~Begun(hist[r]) /\ Add(r) /\ New(r).kind = "run_started"

Extend(r) == /\ Open(hist[r]) /\ Add(r)
             /\ New(r).kind \notin {"run_started", "run_stopped"}

End(r)    == Open(hist[r]) /\ Add(r) /\ New(r).kind = "run_stopped"

Garble == /\ readable
          /\ readable' = FALSE
          /\ hist' = [r \in Runs |-> <<>>]

Next == \/ \E r \in Runs : Begin(r) \/ Extend(r) \/ End(r)
        \/ Garble

Spec == Init /\ [][Next]_vars
=============================================================================
