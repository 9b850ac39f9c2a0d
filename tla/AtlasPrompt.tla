------------------------------ MODULE AtlasPrompt ------------------------------
(***************************************************************************)
(* LiveModelAdapter.execute: build_prompt fits the observed sources into a  *)
(* bounded prompt, one at a time, and one request is sent and its reply     *)
(* read.  A text is its length in characters; a source is kept whole, cut   *)
(* with a notice, or left out with all that follow it.                      *)
(***************************************************************************)
EXTENDS Integers, Sequences

CONSTANTS MaxSources, MaxLen,     (* bounds: sources, and the length of one  *)
          Instructions,           (* lengths of head and tail, joined        *)
          Prompts,                (* PromptLimits.max_prompt_chars           *)
          Heading,                (* length of _OBSERVED_HEADING             *)
          MinUseful,              (* _MIN_USEFUL_OBSERVATION                 *)
          CutWords, OmitWords,    (* lengths of the notices but for numbers  *)
          Digits                  (* Digits[n]: the length of str(n)         *)

ASSUME PromptAssumption ==
    /\ MaxSources \in Nat /\ MaxLen \in Nat /\ MaxSources <= MaxLen
    /\ Instructions \subseteq Nat /\ Prompts \subseteq Nat \ {0}
    /\ Heading \in Nat /\ MinUseful \in Nat \ {0} /\ CutWords \in Nat /\ OmitWords \in Nat
    /\ Digits \in [0 .. MaxLen -> Nat]
    /\ \A m, n \in 0 .. MaxLen : m <= n => Digits[m] <= Digits[n]

VARIABLES sources, instruction, maxPrompt, maxSource,   (* what is given     *)
          pc,
          index, room,
          shown,        (* shown[i]: which source, and the length it has      *)
          used,         (* the length of the shown texts, joined             *)
          truncated, omitted,
          outcome       (* of execute                                        *)

given == <<sources, instruction, maxPrompt, maxSource>>
vars  == <<given, pc, index, room, shown, used, truncated, omitted, outcome>>

-----------------------------------------------------------------------------
CutNotice(full, kept)  == CutWords + Digits[full - kept] + Digits[full]
OmissionNotice(count)  == OmitWords + Digits[count]

(* Mutant of Reserve: the notice is added afterwards.                        *)
ReserveNothing == 0

(* Kept free for the notice at its longest.                                 *)
Reserve == IF sources = <<>> THEN 0 ELSE OmissionNotice(Len(sources)) + 2
Fixed   == instruction + Heading + 4 + Reserve

(* The source in hand, what it may take, and what a cut would leave of it.  *)
Full    == sources[index]
Allowed == IF maxSource < room THEN maxSource ELSE room
Usable  == Allowed - CutNotice(Full, 0)

(* The length of the prompt: the texts are joined by two line breaks.       *)
TextLength ==
    instruction + (IF shown = <<>> THEN 0 ELSE 2 + Heading + 1 + used)
                + (IF omitted = 0 THEN 0 ELSE 2 + OmissionNotice(omitted))

Init ==
    /\ \E n \in 0 .. MaxSources : sources \in [1 .. n -> 0 .. MaxLen]
    /\ instruction \in Instructions
    /\ maxPrompt \in Prompts /\ maxSource \in 1 .. maxPrompt
    /\ pc = "build" /\ index = 1 /\ room = 0
    /\ shown = <<>> /\ used = 0 /\ truncated = 0 /\ omitted = 0
    /\ outcome = "none"

-----------------------------------------------------------------------------
(* The instruction is never cut: a bound that cannot hold it is refused.    *)
Begin ==
    /\ pc = "build"
    /\ \/ /\ Fixed <= maxPrompt
          /\ pc' = "fit" /\ room' = maxPrompt - Fixed /\ UNCHANGED outcome
       \/ /\ Fixed > maxPrompt
          /\ pc' = "done" /\ outcome' = "ValueError" /\ UNCHANGED room
    /\ UNCHANGED <<given, index, shown, used, truncated, omitted>>

Keep(length) ==
    /\ shown' = Append(shown, [of |-> index, length |-> length])
    /\ used' = IF shown = <<>> THEN length ELSE used + 2 + length
    /\ room' = room - (length + 2)
    /\ index' = index + 1

Fitting == pc = "fit" /\ index <= Len(sources)

ShowWhole ==
    /\ Fitting /\ room > 0 /\ Full <= Allowed
    /\ Keep(Full)
    /\ UNCHANGED <<given, pc, truncated, omitted, outcome>>

(* Mutant of ShowCut: the cut is not counted.                                *)
ShowCutUncounted ==
    /\ Fitting /\ room > 0 /\ Full > Allowed /\ Usable >= MinUseful
    /\ Keep(Usable + CutNotice(Full, Usable))
    /\ UNCHANGED <<given, pc, truncated, omitted, outcome>>

(* The first Usable characters, and the notice.                             *)
ShowCut ==
    /\ Fitting /\ room > 0 /\ Full > Allowed /\ Usable >= MinUseful
    /\ Keep(Usable + CutNotice(Full, Usable))
    /\ truncated' = truncated + 1
    /\ UNCHANGED <<given, pc, omitted, outcome>>

TooLittle == room <= 0 \/ (Full > Allowed /\ Usable < MinUseful)

(* Mutant of OmitRest: the source is skipped and the next one is tried.      *)
OmitOne ==
    /\ Fitting /\ TooLittle
    /\ omitted' = omitted + 1 /\ index' = index + 1
    /\ UNCHANGED <<given, pc, room, shown, used, truncated, outcome>>

(* The first source that cannot be shown ends the selection.                *)
OmitRest ==
    /\ Fitting /\ TooLittle
    /\ omitted' = Len(sources) - index + 1
    /\ pc' = "post"
    /\ UNCHANGED <<given, index, room, shown, used, truncated, outcome>>

AllShown ==
    /\ pc = "fit" /\ index > Len(sources)
    /\ pc' = "post"
    /\ UNCHANGED <<given, index, room, shown, used, truncated, omitted, outcome>>

(* One request.  What goes wrong is named and raised, and never retried.    *)
ProviderErrors == {"ProviderRateLimited", "ProviderRefused", "ProviderTimeout",
                   "ProviderUnreachable", "ProviderBadResponse"}

Post ==
    /\ pc = "post"
    /\ \/ pc' = "read" /\ UNCHANGED outcome
       \/ pc' = "done" /\ outcome' \in ProviderErrors
    /\ UNCHANGED <<given, index, room, shown, used, truncated, omitted>>

(* The result says whether the producer saw everything (is_complete).  A    *)
(* reply without text is refused, one of the wrong shape passes through.    *)
ReadReply ==
    /\ pc = "read" /\ pc' = "done"
    /\ outcome' \in {IF truncated = 0 /\ omitted = 0 THEN "complete" ELSE "partial",
                     "ProviderBadResponse"}
    /\ UNCHANGED <<given, index, room, shown, used, truncated, omitted>>

Next == Begin \/ ShowWhole \/ ShowCut \/ OmitRest \/ AllShown \/ Post \/ ReadReply

Spec == Init /\ [][Next]_vars

-----------------------------------------------------------------------------
(* Properties.                                                              *)

(* The variables have their types; the room is overdrawn by a separator at  *)
(* most.                                                                    *)
TypeOK ==
    /\ sources \in Seq(0 .. MaxLen) /\ Len(sources) \in 0 .. MaxSources
    /\ instruction \in Instructions
    /\ maxPrompt \in Prompts /\ maxSource \in 1 .. maxPrompt
    /\ pc \in {"build", "fit", "post", "read", "done"}
    /\ index \in 1 .. Len(sources) + 1
    /\ room \in Int /\ room >= -2
    /\ shown \in Seq([of : Nat, length : Nat])
    /\ used \in Nat /\ truncated \in Nat /\ omitted \in Nat
    /\ outcome \in {"none", "ValueError", "complete", "partial"} \cup ProviderErrors

(* A prompt that is sent is within its bound, the notices about what is     *)
(* missing included, and no source takes more than one source may.          *)
WithinBound ==
    pc \in {"post", "read"} =>
        /\ TextLength <= maxPrompt
        /\ \A i \in DOMAIN shown : shown[i].length <= maxSource

(* What is shown is the first sources in the order the run holds them, and  *)
(* the omission notice counts the others.                                   *)
ShownIsAPrefix ==
    /\ \A i \in DOMAIN shown : shown[i].of = i
    /\ pc \in {"post", "read"} => Len(shown) + omitted = Len(sources)

(* A result that says the prompt was complete was produced from every       *)
(* source in full, and one that says it was not, was not.                   *)
CompleteMeansSeen ==
    outcome \in {"complete", "partial"} =>
        (outcome = "complete" <=> /\ Len(shown) = Len(sources)
                                  /\ \A i \in DOMAIN shown : shown[i].length = sources[i])
=============================================================================
