------------------------------ MODULE AtlasClaims ------------------------------
(***************************************************************************)
(* _grade_against_evidence: one reply's findings are checked against the    *)
(* sources the run observed.  check_finding re-reads a source for every     *)
(* citation; when the route asks for it, check_claim re-reads the sources   *)
(* of each soundly cited finding, one at a time, and settles its claim; the *)
(* reply is then graded.  Nothing keeps the repository from changing        *)
(* between two of these reads, or from changing back.                       *)
(*                                                                          *)
(* A source holds a sequence of lines, a line is the set of the words in    *)
(* it, and two digests agree when the versions they are taken of do.  In a  *)
(* line that names a command, what the command is given comes after it.     *)
(***************************************************************************)
EXTENDS Integers, Sequences, FiniteSets

CONSTANTS Words,
          Targets,        (* the words that are paths                        *)
          Versions,       (* what a source may hold                          *)
          Observed,       (* bound: the evidence bases a run may hold        *)
          Outputs,        (* bound: the replies a producer may give          *)
          MaxEdits        (* bound: changes of the repository                *)

Quote == Seq(SUBSET Words)

(* Observation: an excerpt covers lines and declares them, 1-based and       *)
(* forwards, and none covers 0-0.                                           *)
IsObservation(o) ==
    /\ o.version \in Versions /\ o.excerpt \in Quote
    /\ o.start \in Nat /\ o.end \in Nat
    /\ o.start = 0 => o.end = 0

(* EvidenceRef, and the kinds of claim a finding may come with.             *)
IsReference(ref) == /\ ref.quoted \in Quote
                    /\ ref.start \in Nat \ {0} /\ ref.end \in Nat

IsFinding(f) ==
    /\ f.evidence \in Seq({f.evidence[n] : n \in DOMAIN f.evidence})
    /\ \A n \in DOMAIN f.evidence : IsReference(f.evidence[n])
    /\ f.typed.kind \in {"contains", "lacks", "differ", "none"}

ASSUME ClaimsAssumption ==
    /\ Targets \subseteq Words /\ Versions \subseteq Quote
    /\ \A os \in Observed : \A s \in DOMAIN os : IsObservation(os[s])
    /\ \A out \in Outputs :
          /\ out.findings \in Seq({out.findings[i] : i \in DOMAIN out.findings})
          /\ \A i \in DOMAIN out.findings : IsFinding(out.findings[i])
          /\ out.loose \in Nat

VARIABLES disk,           (* disk[s]: a file, nothing, or a link out of the root *)
          observations,   (* EvidenceBase.observations, by source id         *)
          output,         (* the reply, and what its route asks of it        *)
          pc,
          statuses,       (* statuses[i]: of finding i's citations so far    *)
          settled,        (* findings done with in the semantic step         *)
          left,           (* the first of two sources was read again         *)
          verdicts,       (* claim_verdicts, by finding id                   *)
          result,         (* the grading: _Evidence                          *)
          edits

given == <<observations, output>>
vars  == <<disk, given, pc, statuses, settled, left, verdicts, result, edits>>

findings == output.findings

-----------------------------------------------------------------------------
(* Observation, and what a finding may say of one.                          *)

Lesser(a, b) == IF a < b THEN a ELSE b

(* content.splitlines()[start - 1 : end].                                   *)
Lines(version, start, end) ==
    IF start = 0 THEN <<>> ELSE SubSeq(version, start, Lesser(end, Len(version)))

(* None, which is not True, when nobody counted the lines.                  *)
ReadInFull(o) ==
    /\ o.counted
    /\ IF o.version = <<>> THEN o.end = 0 ELSE o.start = 1 /\ o.end >= Len(o.version)

(* source_lacks_literal and absent: the word is in no line.                 *)
Contains(lines, word) == \E n \in DOMAIN lines : word \in lines[n]

Decisive   == {"verified", "contradicted"}
Requotable == {"unknown_source", "digest_mismatch", "quote_mismatch", "quote_outside_excerpt"}

(* TypedClaim.render: the sentence a typed claim means.                     *)
Literals == {"contains", "lacks"}

Sentence(c) ==
    IF c.kind \in Literals
    THEN [kind |-> c.kind, source |-> c.source, text |-> c.text,
          start |-> observations[c.source].start, end |-> observations[c.source].end]
    ELSE c

(* _derive_finding_id: the same claim in the same scope is the same id.     *)
Id(f) == <<f.claim, f.scope>>

NoResult == [gaps |-> {}, considered |-> 0, supported |-> 0, blocked |-> {},
             actionable |-> FALSE, records |-> <<>>]

Init ==
    /\ observations \in Observed
    /\ disk = [s \in DOMAIN observations |-> [state |-> "file", holds |-> observations[s].version]]
    /\ output \in Outputs
    /\ pc = "parse"
    /\ statuses = <<>> /\ settled = 0 /\ left = FALSE /\ verdicts = <<>>
    /\ result = NoResult
    /\ edits = 0

-----------------------------------------------------------------------------
(* The world: a source is written, removed, or replaced by a link that      *)
(* leads out of the root.                                                   *)
Edit(s) ==
    /\ edits < MaxEdits /\ pc # "done"
    /\ edits' = edits + 1
    /\ \E d \in [state : {"file"}, holds : Versions]
               \cup [state : {"gone", "link"}, holds : {<<>>}] :
          d # disk[s] /\ disk' = [disk EXCEPT ![s] = d]
    /\ UNCHANGED <<given, pc, statuses, settled, left, verdicts, result>>

-----------------------------------------------------------------------------
(* The reply is read: an evidence base that is empty, or a block that is    *)
(* owed and missing or cannot be used, ends it.                             *)
Ends(gap, again) ==
    /\ pc' = "done"
    /\ result' = [NoResult EXCEPT !.gaps = {gap}, !.actionable = again]
    /\ UNCHANGED statuses

Parse ==
    /\ pc = "parse"
    /\ \/ /\ observations = <<>>
          /\ Ends("no_sources_observed", FALSE)
       \/ /\ observations # <<>>
          /\ output.block = "malformed" \/ (output.block = "absent" /\ output.asked)
          /\ Ends("malformed_findings", TRUE)
       \/ /\ observations # <<>>
          /\ output.block = "present" \/ (output.block = "absent" /\ ~output.asked)
          /\ pc' = "check"
          /\ statuses' = [i \in DOMAIN findings |-> <<>>]
          /\ UNCHANGED result
    /\ UNCHANGED <<disk, given, settled, left, verdicts, edits>>

-----------------------------------------------------------------------------
(* check_finding: one citation, one read.                                   *)

(* Mutant of Stands: a file that can be read is taken for what was read.     *)
StandsReadable(s) == disk[s].state = "file"

(* The source is still what the observation says: the file as it is now has *)
(* the digest, and the excerpt at the lines it names.                       *)
Stands(s) ==
    LET o == observations[s]
    IN  /\ disk[s].state = "file"
        /\ disk[s].holds = o.version
        /\ Lines(disk[s].holds, o.start, o.end) = o.excerpt

(* _check_reference, up to the read.                                        *)
Unread(ref) ==
    IF ref.source \notin DOMAIN observations THEN "unknown_source"
    ELSE LET o == observations[ref.source]
         IN  IF o.type # "local_file" THEN "unsupported_source_type"
             ELSE IF ref.digest # o.version THEN "digest_mismatch"
             ELSE IF ref.start < o.start \/ ref.end > o.end THEN "quote_outside_excerpt"
             ELSE "none"

(* And from the bytes that one read returned.                               *)
AsRead(ref) ==
    LET o == observations[ref.source]
        d == disk[ref.source]
    IN  IF d.state = "link" THEN "path_refused"
        ELSE IF d.state = "gone" \/ d.holds # o.version THEN "stale_source"
        ELSE IF ~Stands(ref.source) THEN "excerpt_mismatch"
        ELSE IF Lines(d.holds, ref.start, ref.end) # ref.quoted THEN "quote_mismatch"
        ELSE "intact"

Unchecked == {i \in DOMAIN findings : Len(statuses[i]) < Len(findings[i].evidence)}

CheckReference ==
    /\ pc = "check"
    /\ \E i \in Unchecked :
          LET ref == findings[i].evidence[Len(statuses[i]) + 1]
          IN  /\ \A j \in Unchecked : i <= j
              /\ statuses' = [statuses EXCEPT ![i] =
                                Append(@, IF Unread(ref) # "none" THEN Unread(ref)
                                          ELSE AsRead(ref))]
    /\ UNCHANGED <<disk, given, pc, settled, left, verdicts, result, edits>>

(* citations_are_sound.                                                     *)
Sound(i) == statuses[i] # <<>> /\ \A n \in DOMAIN statuses[i] : statuses[i][n] = "intact"

-----------------------------------------------------------------------------
(* check_claim, for each finding whose citations are sound.                 *)

Turn(i) == /\ pc = "check" /\ Unchecked = {} /\ output.settles
           /\ i = settled + 1 /\ i \in DOMAIN findings

(* The verdict is kept under the finding's id.                              *)
Settles(i, v) ==
    /\ verdicts' = [x \in DOMAIN verdicts \cup {Id(findings[i])} |->
                      IF x = Id(findings[i]) THEN v ELSE verdicts[x]]
    /\ settled' = i /\ left' = FALSE

Says(r) == [result |-> r, full |-> FALSE]

(* _observed_text: why a source cannot settle anything now.                 *)
Refusal(f, s) ==
    IF \A n \in DOMAIN f.evidence : f.evidence[n].source # s THEN "source_not_cited"
    ELSE IF s \notin DOMAIN observations THEN "source_unavailable"
    ELSE IF observations[s].type # "local_file" THEN "unsupported_kind"
    ELSE IF ~Stands(s) THEN "source_unavailable"
    ELSE "none"

Now(s) == Lines(disk[s].holds, observations[s].start, observations[s].end)

SkipUnsound ==
    /\ \E i \in DOMAIN findings : Turn(i) /\ ~Sound(i) /\ settled' = i
    /\ UNCHANGED <<disk, given, pc, statuses, left, verdicts, result, edits>>

(* check_typed_claim: the sentence the reader sees is the one tested, and   *)
(* the verdict says whether all of the source was searched.                 *)
LiteralVerdict(f) ==
    LET c == f.typed
    IN  IF Refusal(f, c.source) # "none" THEN Says(Refusal(f, c.source))
        ELSE IF f.claim # Sentence(c) THEN Says("claim_text_mismatch")
        ELSE [result |-> IF c.kind = "contains" <=> Contains(Now(c.source), c.text)
                         THEN "verified" ELSE "contradicted",
              full   |-> ReadInFull(observations[c.source])]

SettleLiteral ==
    /\ \E i \in DOMAIN findings :
          /\ Turn(i) /\ Sound(i) /\ findings[i].typed.kind \in Literals
          /\ Settles(i, LiteralVerdict(findings[i]))
    /\ UNCHANGED <<disk, given, pc, statuses, result, edits>>

(* _command_targets: what follows the last place the command is named.      *)
CommandTargets(quoted, command) ==
    UNION {quoted[n] \cap Targets : n \in {m \in DOMAIN quoted :
              \A k \in DOMAIN quoted : command \in quoted[k] => k <= m}}

(* _targets_from_cited_command: the citations of s that name the command.   *)
Naming(f, s, command) ==
    {n \in DOMAIN f.evidence : f.evidence[n].source = s
                               /\ Contains(f.evidence[n].quoted, command)}

(* Two sorted tuples agree: nothing is declared twice.                      *)
Lists(declared, set) == /\ {declared[n] : n \in DOMAIN declared} = set
                        /\ Len(declared) = Cardinality(set)

(* _check_command_targets_differ, once both sources stand.                  *)
DifferVerdict(f) ==
    LET c == f.typed
        l == Naming(f, c.source, c.text)
        r == Naming(f, c.other, c.text)
    IN  IF Cardinality(l) # 1 \/ Cardinality(r) # 1 THEN Says("unsupported_kind")
        ELSE IF f.claim # Sentence(c) THEN Says("claim_text_mismatch")
        ELSE LET lt == CommandTargets(f.evidence[CHOOSE n \in l : TRUE].quoted, c.text)
                 rt == CommandTargets(f.evidence[CHOOSE n \in r : TRUE].quoted, c.text)
             IN  Says(IF Lists(c.targets, lt) /\ Lists(c.otherTargets, rt) /\ lt # rt
                      THEN "verified" ELSE "contradicted")

SettleFirst ==
    /\ \E i \in DOMAIN findings :
          LET f == findings[i]
              c == f.typed
          IN  /\ Turn(i) /\ Sound(i) /\ c.kind = "differ" /\ ~left
              /\ \/ /\ Refusal(f, c.source) # "none"
                    /\ Settles(i, Says(Refusal(f, c.source)))
                 \/ /\ Refusal(f, c.source) = "none"
                    /\ left' = TRUE
                    /\ UNCHANGED <<settled, verdicts>>
    /\ UNCHANGED <<disk, given, pc, statuses, result, edits>>

SettleOther ==
    /\ left
    /\ \E i \in DOMAIN findings :
          LET f == findings[i]
              c == f.typed
          IN  /\ Turn(i)
              /\ Settles(i, IF Refusal(f, c.other) # "none" THEN Says(Refusal(f, c.other))
                            ELSE DifferVerdict(f))
    /\ UNCHANGED <<disk, given, pc, statuses, result, edits>>

(* check_condition: a test of the producer's own settles nothing, and no    *)
(* test at all settles nothing either.                                      *)
SettleCondition ==
    /\ \E i \in DOMAIN findings :
          LET f == findings[i]
              k == f.condition
          IN  /\ Turn(i) /\ Sound(i) /\ f.typed.kind = "none"
              /\ Settles(i, Says(IF k.kind = "none" THEN "not_declared"
                                 ELSE IF Refusal(f, k.source) # "none" THEN Refusal(f, k.source)
                                 ELSE IF k.kind = "present" <=> Contains(Now(k.source), k.text)
                                 THEN "condition_supported" ELSE "condition_refuted"))
    /\ UNCHANGED <<disk, given, pc, statuses, result, edits>>

-----------------------------------------------------------------------------
(* The grading.                                                             *)

VerdictOf(i) == IF Id(findings[i]) \in DOMAIN verdicts THEN verdicts[Id(findings[i])]
                ELSE Says("none")

(* apply_verdict and apply_to: a decisive verdict counts for a finding that *)
(* is soundly cited, and the declared severity survives on verified alone.  *)
Record(i) ==
    LET v == IF Sound(i) /\ VerdictOf(i).result \in Decisive THEN VerdictOf(i).result
             ELSE "insufficient_evidence"
    IN  [verdict |-> v, severity |-> IF v = "verified" THEN "declared" ELSE "unknown",
         full |-> VerdictOf(i).full]

Unsound    == {i \in DOMAIN findings : ~Sound(i)}
Refuted    == {i \in DOMAIN findings : VerdictOf(i).result = "contradicted"}
Mismatched == {i \in DOMAIN findings : VerdictOf(i).result = "claim_text_mismatch"}

(* Mutant of Undecided: a test that passed is taken for an answer.           *)
UndecidedOnly ==
    {i \in DOMAIN findings : /\ Sound(i)
                             /\ VerdictOf(i).result \notin Decisive \cup
                                   {"none", "claim_text_mismatch", "condition_supported"}}

Undecided ==
    {i \in DOMAIN findings : /\ Sound(i)
                             /\ VerdictOf(i).result \notin Decisive \cup
                                                           {"none", "claim_text_mismatch"}}

Gaps == {g \in {"uncheckable_findings", "unsound_citations", "contradicted_findings",
                "claim_text_mismatch", "unverified_findings"} :
            \/ g = "uncheckable_findings" /\ output.loose > 0
            \/ g = "unsound_citations" /\ Unsound # {}
            \/ g = "contradicted_findings" /\ Refuted # {}
            \/ g = "claim_text_mismatch" /\ Mismatched # {}
            \/ g = "unverified_findings" /\ Undecided # {}}

Blocking == UNION {{statuses[i][n] : n \in DOMAIN statuses[i]} : i \in Unsound}
                \ (Requotable \cup {"intact"})

(* Mutant of Supported: a finding whose text is not its claim is counted in. *)
SupportedLoosely ==
    Len(findings) - Cardinality(Unsound) - Cardinality(Refuted) - Cardinality(Undecided)

(* The findings left when those of each gap are taken away.                 *)
Supported ==
    Len(findings) - Cardinality(Unsound) - Cardinality(Refuted)
                  - Cardinality(Mismatched) - Cardinality(Undecided)

Graded ==
    IF Len(findings) + output.loose = 0
    THEN [NoResult EXCEPT !.gaps = IF output.heading THEN {} ELSE {"sources_not_documented"},
                          !.actionable = ~output.heading]
    ELSE [gaps       |-> Gaps,
          considered |-> Len(findings) + output.loose,
          supported  |-> Supported,
          blocked    |-> Blocking,
          actionable |-> Gaps # {} /\ Blocking = {},
          records    |-> [i \in DOMAIN findings |-> Record(i)]]

Grade ==
    /\ pc = "check" /\ Unchecked = {}
    /\ settled = Len(findings) \/ ~output.settles
    /\ pc' = "done"
    /\ result' = Graded
    /\ UNCHANGED <<disk, given, statuses, settled, left, verdicts, edits>>

Next == \/ Parse \/ CheckReference \/ SkipUnsound \/ SettleLiteral \/ SettleFirst \/ SettleOther
        \/ SettleCondition \/ Grade
        \/ \E s \in DOMAIN observations : Edit(s)

Spec == Init /\ [][Next]_vars

-----------------------------------------------------------------------------
(* Properties.                                                              *)

(* What the run observed at a range of lines.                               *)
WasAt(s, start, end) == Lines(observations[s].version, start, end)

(* A citation's quote is what the run observed at its lines.                *)
QuotesTheObserved(ref) ==
    /\ ref.source \in DOMAIN observations
    /\ ref.quoted = WasAt(ref.source, ref.start, ref.end)

(* A typed claim, judged by the version that was observed.  For commands:   *)
(* one citation of each source names the command, and what stands there     *)
(* from its last mention on are the targets declared, and not the same.     *)
Given(s, n, f, command) ==
    LET r == f.evidence[n]
        v == observations[s].version
        after == {k \in r.start .. r.end \cap DOMAIN v :
                     \A j \in r.start .. r.end \cap DOMAIN v : command \in v[j] => j <= k}
    IN  UNION {v[k] \cap Targets : k \in after}

Sole(f, s, command) ==
    {n \in DOMAIN f.evidence : f.evidence[n].source = s /\
        \E k \in f.evidence[n].start .. f.evidence[n].end \cap DOMAIN observations[s].version :
           command \in observations[s].version[k]}

HoldsOfTheObserved(f) ==
    LET c == f.typed
        o == observations[c.source]
    IN  IF c.kind \in Literals
        THEN c.kind = "contains" <=>
                \E k \in o.start .. o.end : k \in DOMAIN o.version /\ c.text \in o.version[k]
        ELSE \E m \in Sole(f, c.source, c.text), n \in Sole(f, c.other, c.text) :
                /\ Sole(f, c.source, c.text) = {m} /\ Sole(f, c.other, c.text) = {n}
                /\ Lists(c.targets, Given(c.source, m, f, c.text))
                /\ Lists(c.otherTargets, Given(c.other, n, f, c.text))
                /\ Given(c.source, m, f, c.text) # Given(c.other, n, f, c.text)

(* However the sources change and change back between the reads: a finding  *)
(* recorded as verified or contradicted quotes what the run observed, its   *)
(* sentence is that of a typed claim, and the observed version bears the    *)
(* verdict out.  A literal verified to be lacking from a source read in     *)
(* full is nowhere in it.                                                   *)
SettledIsTrue ==
    \A i \in DOMAIN result.records :
        LET f == findings[i]
            r == result.records[i]
        IN  r.verdict \in Decisive =>
               /\ \A n \in DOMAIN f.evidence : QuotesTheObserved(f.evidence[n])
               /\ \E j \in DOMAIN findings :
                     LET g == findings[j]
                     IN  /\ g.claim = f.claim /\ g.typed.kind # "none"
                         /\ g.typed.source \in DOMAIN observations
                         /\ f.claim = Sentence(g.typed)
                         /\ r.verdict = "verified" <=> HoldsOfTheObserved(g)
               /\ r.verdict = "verified" /\ r.full /\ f.claim.kind = "lacks" =>
                     ~Contains(observations[f.claim.source].version, f.claim.text)

(* A reply graded without a gap is established: every bullet is a finding,  *)
(* every quote is what the run observed and, where the route asks for it,   *)
(* every finding is verified.                                               *)
CleanMeansEstablished ==
    pc = "done" /\ result.gaps = {} =>
        /\ output.loose = 0
        /\ \A i \in DOMAIN findings :
              /\ findings[i].evidence # <<>>
              /\ \A n \in DOMAIN findings[i].evidence : QuotesTheObserved(findings[i].evidence[n])
              /\ output.settles => result.records[i].verdict = "verified"

(* evidence_coverage is the share of the findings that are supported, when  *)
(* no two of them share an id.                                              *)
CoverageIsTheShare ==
    /\ pc = "done" /\ result.considered > 0
    /\ \A i, j \in DOMAIN findings : Id(findings[i]) = Id(findings[j]) => i = j
    => /\ result.supported = Cardinality({i \in DOMAIN findings :
              Sound(i) /\ (output.settles => result.records[i].verdict = "verified")})
       /\ result.supported = result.considered <=> result.gaps = {}
=============================================================================
