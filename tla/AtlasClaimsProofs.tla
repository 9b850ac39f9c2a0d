--------------------------- MODULE AtlasClaimsProofs ---------------------------
(***************************************************************************)
(* What holds of AtlasClaims for any observations, replies and changes of   *)
(* the repository between the reads.                                        *)
(***************************************************************************)
EXTENDS AtlasClaims, FiniteSetTheorems, TLAPS

-----------------------------------------------------------------------------
(* The inductive invariant.                                                 *)

Results == Decisive \cup {"condition_supported", "condition_refuted", "not_declared",
                          "claim_text_mismatch", "unsupported_kind", "source_not_cited",
                          "source_unavailable"}

Statuses == Requotable \cup {"unsupported_source_type", "path_refused", "stale_source",
                             "excerpt_mismatch", "intact"}

GivenInv == observations \in Observed /\ output \in Outputs

(* A citation is called intact only of a quote that was observed, and the    *)
(* citations of a finding are checked in their order.                       *)
CitationsInv ==
    /\ DOMAIN statuses = DOMAIN findings
    /\ \A i \in DOMAIN findings :
          /\ statuses[i] \in Seq(Statuses)
          /\ Len(statuses[i]) <= Len(findings[i].evidence)
          /\ \A n \in DOMAIN statuses[i] :
                statuses[i][n] = "intact" => QuotesTheObserved(findings[i].evidence[n])

(* The typed claim of a finding g settles the claim as v says.              *)
Settled(g, v) ==
    /\ g.typed.kind # "none" /\ g.typed.source \in DOMAIN observations
    /\ g.claim = Sentence(g.typed)
    /\ v.result = "verified" <=> HoldsOfTheObserved(g)
    /\ v.result = "verified" /\ v.full /\ g.claim.kind = "lacks" =>
          ~Contains(observations[g.claim.source].version, g.claim.text)

(* A verdict is one of a soundly cited finding of its id.                   *)
VerdictsInv ==
    \A x \in DOMAIN verdicts :
        /\ verdicts[x].result \in Results
        /\ \E j \in DOMAIN findings :
              /\ Id(findings[j]) = x /\ Sound(j)
              /\ verdicts[x].result \in Decisive => Settled(findings[j], verdicts[x])

(* The findings are settled in their order, once all citations are checked,  *)
(* and between its two sources a finding waits whose first one stood.       *)
OrderInv ==
    /\ settled \in Nat /\ settled <= Len(findings)
    /\ \A j \in 1 .. settled : Sound(j) => Id(findings[j]) \in DOMAIN verdicts
    /\ settled > 0 \/ left \/ DOMAIN verdicts # {} => Unchecked = {} /\ output.settles
    /\ left => LET f == findings[settled + 1]
               IN  /\ settled + 1 \in DOMAIN findings /\ Sound(settled + 1)
                   /\ f.typed.kind = "differ" /\ f.typed.source \in DOMAIN observations

Checked == CitationsInv /\ VerdictsInv /\ OrderInv

Complete == Unchecked = {} /\ (settled = Len(findings) \/ ~output.settles)

PhaseInv ==
    /\ pc \in {"parse", "check", "done"}
    /\ pc = "parse" => settled = 0 /\ left = FALSE /\ verdicts = <<>>
    /\ pc = "check" => Checked
    /\ pc # "done" => result.records = <<>>
    /\ pc = "done" => \/ result.gaps # {} /\ result.considered = 0 /\ result.records = <<>>
                      \/ Checked /\ Complete /\ result = Graded

ClaimsInv == GivenInv /\ PhaseInv

-----------------------------------------------------------------------------
(* Ranges of lines.                                                         *)

LEMMA Shifted ==
    /\ \A s, n, l \in Int : n <= l - s + 1 => s + n - 1 <= l
    /\ \A s, n \in Int : 1 <= n => s <= s + n - 1 /\ s + n - 1 \in Int
    /\ \A s, k, l \in Int : s <= k /\ k <= l => k - s + 1 \in 1 .. l - s + 1
    /\ \A s, k \in Int : s + (k - s + 1) - 1 = k
OBVIOUS

(* What the line numbers of a range are in the source it is taken from.     *)
LEMMA LinesOfRange ==
    ASSUME NEW v \in Quote, NEW start \in Nat \ {0}, NEW end \in Nat
    PROVE  LET l == Lines(v, start, end)
           IN  /\ l \in Quote
               /\ \A n \in DOMAIN l : /\ n \in Nat \ {0} /\ start + n - 1 \in start .. end
                                      /\ start + n - 1 \in DOMAIN v
                                      /\ l[n] = v[start + n - 1]
               /\ \A k \in start .. end \cap DOMAIN v :
                     /\ k - start + 1 \in DOMAIN l
                     /\ l[k - start + 1] = v[k]
<1> DEFINE last == Lesser(end, Len(v))
           l == Lines(v, start, end)
<1>1. last \in Nat /\ last <= end /\ last <= Len(v) /\ (last = end \/ last = Len(v))
    BY DEF Lesser, Quote
<1> HIDE DEF last
<1>2. l = [n \in 1 .. last - start + 1 |-> v[start + n - 1]]
    <2>1. l = SubSeq(v, start, last)
        BY DEF Lines, last
    <2>2. SubSeq(v, start, last) = [n \in 1 .. last - start + 1 |-> v[start + n - 1]]
        BY <1>1 DEF Quote
    <2> QED  BY <2>1, <2>2
<1> HIDE DEF l
<1>3. /\ DOMAIN l = 1 .. last - start + 1 /\ DOMAIN v = 1 .. Len(v) /\ Len(v) \in Nat
      /\ start \in Int /\ start >= 1 /\ last - start + 1 \in Int
    BY <1>1, <1>2 DEF Quote
<1>7. last \in Int /\ end \in Int /\ Len(v) \in Int
    <2> HIDE DEF l
    <2>1. last \in Nat /\ end \in Nat /\ Len(v) \in Nat
        BY <1>1, <1>3
    <2>2. \A x \in Nat : x \in Int
        OBVIOUS
    <2> QED  BY <2>1, <2>2, Zenon
<1>4. ASSUME NEW n \in DOMAIN l
      PROVE  /\ n \in Nat \ {0} /\ start + n - 1 \in start .. end
             /\ start + n - 1 \in DOMAIN v
             /\ l[n] = v[start + n - 1]
    <2>1. n \in Int /\ 1 <= n /\ n <= last - start + 1
        BY <1>3
    <2>2. start + n - 1 <= last /\ start <= start + n - 1 /\ start + n - 1 \in Int
        <3>1. n \in Int /\ start \in Int /\ last \in Int
            BY <1>3, <1>7, <2>1
        <3> QED  BY <2>1, <3>1, Shifted
    <2>3. n \in Nat \ {0} /\ start + n - 1 \in start .. end /\ start + n - 1 \in DOMAIN v
        <3>1. n \in Nat \ {0}
            BY <2>1
        <3>2. start + n - 1 <= end /\ start + n - 1 <= Len(v)
            <4>1. \A x, y, z \in Int : x <= y /\ y <= z => x <= z
                OBVIOUS
            <4> HIDE DEF l
            <4>2. last <= end /\ last <= Len(v) /\ start + n - 1 <= last
                BY <1>1, <2>2
            <4> QED  BY <1>7, <2>2, <4>1, <4>2
        <3>3. 1 <= start + n - 1
            BY <1>3, <2>2
        <3> QED  BY <1>3, <2>2, <3>1, <3>2, <3>3
    <2>4. l[n] = v[start + n - 1]
        BY <1>2, <1>3
    <2> QED  BY <2>3, <2>4
<1>5. ASSUME NEW k \in start .. end \cap DOMAIN v
      PROVE  k - start + 1 \in DOMAIN l /\ l[k - start + 1] = v[k]
    <2>1. k \in Int /\ k <= end /\ k <= Len(v) /\ start <= k
        BY <1>3
    <2>2. k <= last
        BY <1>1, <2>1
    <2>3. k - start + 1 \in 1 .. last - start + 1
        <3>1. k \in Int /\ start \in Int /\ last \in Int
            BY <1>3, <1>7, <2>1
        <3> QED  BY <2>1, <2>2, <3>1, Shifted
    <2>4. start + (k - start + 1) - 1 = k
        BY <1>3, <2>1
    <2> QED  BY <1>2, <1>3, <2>3, <2>4
<1>6. l \in Quote
    <2>1. \A n \in DOMAIN l : l[n] \in SUBSET Words
        BY <1>4 DEF Quote
    <2> DEFINE m == IF last - start + 1 >= 0 THEN last - start + 1 ELSE 0
    <2>2. m \in Nat /\ DOMAIN l = 1 .. m
        <3>1. CASE last - start + 1 >= 0
            BY <1>3, <3>1
        <3>2. CASE ~(last - start + 1 >= 0)
            <4>1. 1 .. last - start + 1 = {} /\ 1 .. 0 = {}
                BY <1>3, <3>2
            <4> QED  BY <1>3, <3>2, <4>1
        <3> QED  BY <3>1, <3>2
    <2>3. l = [n \in 1 .. m |-> l[n]]
        BY <1>2, <2>2
    <2> HIDE DEF m
    <2> QED  BY <2>1, <2>2, <2>3 DEF Quote
<1> QED  BY <1>4, <1>5, <1>6 DEF l

(* A word is in a range of lines just when it is in one of them.            *)
LEMMA RangeContains ==
    ASSUME NEW v \in Quote, NEW start \in Nat \ {0}, NEW end \in Nat, NEW word
    PROVE  Contains(Lines(v, start, end), word) <=>
               \E k \in start .. end \cap DOMAIN v : word \in v[k]
<1> DEFINE l == Lines(v, start, end)
<1>1. /\ \A n \in DOMAIN l : /\ start + n - 1 \in start .. end
                             /\ start + n - 1 \in DOMAIN v
                             /\ l[n] = v[start + n - 1]
      /\ \A k \in start .. end \cap DOMAIN v : /\ k - start + 1 \in DOMAIN l
                                               /\ l[k - start + 1] = v[k]
    BY LinesOfRange
<1> HIDE DEF l
<1>2. ASSUME NEW n \in DOMAIN l, word \in l[n]
      PROVE  \E k \in start .. end \cap DOMAIN v : word \in v[k]
    <2>1. start + n - 1 \in start .. end \cap DOMAIN v /\ word \in v[start + n - 1]
        BY <1>1, <1>2
    <2> QED  BY <2>1
<1>3. ASSUME NEW k \in start .. end \cap DOMAIN v, word \in v[k]
      PROVE  \E n \in DOMAIN l : word \in l[n]
    BY <1>1, <1>3
<1> QED  BY <1>2, <1>3 DEF Contains, l

(* What follows the last mention of a command in a quoted range of lines is *)
(* what follows it there in the source.                                     *)
Follows(v, K, command) ==
    UNION {v[k] \cap Targets :
             k \in {h \in K : \A j \in K : command \in v[j] => j <= h}}

LEMMA TargetsOfRange ==
    ASSUME NEW v \in Quote, NEW start \in Nat \ {0}, NEW end \in Nat, NEW command,
           NEW K, K = start .. end \cap DOMAIN v
    PROVE  CommandTargets(Lines(v, start, end), command) = Follows(v, K, command)
<1> DEFINE l == Lines(v, start, end)
           Last(m) == \A k \in DOMAIN l : command \in l[k] => k <= m
           After(h) == \A j \in K : command \in v[j] => j <= h
<1>1. /\ \A n \in DOMAIN l : /\ n \in Nat \ {0} /\ start + n - 1 \in K
                             /\ l[n] = v[start + n - 1]
      /\ \A k \in K : k - start + 1 \in DOMAIN l /\ l[k - start + 1] = v[k]
    BY LinesOfRange
<1>2. K \subseteq Int
    OBVIOUS
<1>3. \A x, y, s \in Int : /\ x <= y => s + x - 1 <= s + y - 1
                           /\ x - s + 1 <= y => x <= s + y - 1
                           /\ s + x - 1 <= y => x <= y - s + 1
                           /\ x - s + 1 \in Int
    OBVIOUS
<1>4. start \in Int /\ DOMAIN l \subseteq Int
    BY <1>1
<1>5. CommandTargets(l, command) = UNION {l[n] \cap Targets : n \in {m \in DOMAIN l : Last(m)}}
    BY DEF CommandTargets
<1> HIDE DEF l
<1>6. ASSUME NEW m \in DOMAIN l, Last(m)
      PROVE  After(start + m - 1)
    <2> TAKE j \in K
    <2> HAVE command \in v[j]
    <2>1. j - start + 1 \in DOMAIN l /\ command \in l[j - start + 1]
        BY <1>1
    <2>2. j - start + 1 <= m
        BY <1>6, <2>1
    <2>3. j \in Int /\ m \in Int
        BY <1>2, <1>4
    <2> QED  BY <1>3, <1>4, <2>2, <2>3
<1>7. ASSUME NEW h \in K, After(h)
      PROVE  Last(h - start + 1)
    <2> TAKE k \in DOMAIN l
    <2> HAVE command \in l[k]
    <2>1. start + k - 1 \in K /\ command \in v[start + k - 1]
        BY <1>1
    <2>2. start + k - 1 <= h
        BY <1>7, <2>1
    <2>3. k \in Int /\ h \in Int
        BY <1>2, <1>4
    <2> QED  BY <1>3, <1>4, <2>2, <2>3
<1> HIDE DEF Last, After
<1>8. ASSUME NEW x
      PROVE  (\E m \in DOMAIN l : Last(m) /\ x \in l[m] \cap Targets)
                 <=> \E h \in K : After(h) /\ x \in v[h] \cap Targets
    <2>1. ASSUME NEW m \in DOMAIN l, Last(m), x \in l[m] \cap Targets
          PROVE  \E h \in K : After(h) /\ x \in v[h] \cap Targets
        BY <1>1, <1>6, <2>1
    <2>2. ASSUME NEW h \in K, After(h), x \in v[h] \cap Targets
          PROVE  \E m \in DOMAIN l : Last(m) /\ x \in l[m] \cap Targets
        BY <1>1, <1>7, <2>2
    <2> QED  BY <2>1, <2>2
<1>9. UNION {l[n] \cap Targets : n \in {m \in DOMAIN l : Last(m)}}
        = UNION {v[k] \cap Targets : k \in {h \in K : After(h)}}
    BY <1>8
<1> QED  BY <1>5, <1>9 DEF l, After, Follows

-----------------------------------------------------------------------------
(* What the code finds in the quotes of a finding is what was observed.     *)

LEMMA GivenTypes ==
    ASSUME GivenInv
    PROVE  /\ \A s \in DOMAIN observations : /\ IsObservation(observations[s])
                                             /\ observations[s].version \in Quote
           /\ findings \in Seq({findings[i] : i \in DOMAIN findings})
           /\ DOMAIN findings = 1 .. Len(findings) /\ Len(findings) \in Nat
           /\ \A i \in DOMAIN findings : IsFinding(findings[i])
           /\ output.loose \in Nat
<1>1. /\ \A s \in DOMAIN observations : IsObservation(observations[s])
      /\ findings \in Seq({findings[i] : i \in DOMAIN findings})
      /\ \A i \in DOMAIN findings : IsFinding(findings[i])
      /\ output.loose \in Nat
    BY ClaimsAssumption DEF GivenInv, findings
<1>2. \A s \in DOMAIN observations : observations[s].version \in Quote
    BY <1>1, ClaimsAssumption DEF IsObservation
<1>3. DOMAIN findings = 1 .. Len(findings) /\ Len(findings) \in Nat
    BY <1>1
<1> QED  BY <1>1, <1>2, <1>3

LEMMA CitationTypes ==
    ASSUME NEW f, IsFinding(f)
    PROVE  /\ DOMAIN f.evidence = 1 .. Len(f.evidence) /\ Len(f.evidence) \in Nat
           /\ IsFiniteSet(DOMAIN f.evidence)
           /\ \A n \in DOMAIN f.evidence : /\ f.evidence[n].start \in Nat \ {0}
                                           /\ f.evidence[n].end \in Nat
<1>1. DOMAIN f.evidence = 1 .. Len(f.evidence) /\ Len(f.evidence) \in Nat
    BY DEF IsFinding
<1>2. IsFiniteSet(1 .. Len(f.evidence))
    BY <1>1, FS_Interval
<1> QED  BY <1>1, <1>2 DEF IsFinding, IsReference

(* The citations that name a command are those whose lines name it in the   *)
(* observed source, and what it is given is the same in both.               *)
LEMMA NamingIsSole ==
    ASSUME GivenInv, NEW f, IsFinding(f), NEW s, NEW command,
           \A n \in DOMAIN f.evidence : QuotesTheObserved(f.evidence[n])
    PROVE  /\ Naming(f, s, command) = Sole(f, s, command)
           /\ \A n \in Sole(f, s, command) :
                 CommandTargets(f.evidence[n].quoted, command) = Given(s, n, f, command)
<1>1. ASSUME NEW n \in DOMAIN f.evidence, f.evidence[n].source = s
      PROVE  /\ f.evidence[n].start \in Nat \ {0} /\ f.evidence[n].end \in Nat
             /\ s \in DOMAIN observations /\ observations[s].version \in Quote
             /\ f.evidence[n].quoted =
                   Lines(observations[s].version, f.evidence[n].start, f.evidence[n].end)
    BY <1>1, GivenTypes, CitationTypes DEF QuotesTheObserved, WasAt
<1>2. ASSUME NEW n \in DOMAIN f.evidence, f.evidence[n].source = s
      PROVE  Contains(f.evidence[n].quoted, command) <=>
                \E k \in f.evidence[n].start .. f.evidence[n].end
                            \cap DOMAIN observations[s].version :
                   command \in observations[s].version[k]
    BY <1>1, <1>2, RangeContains
<1>3. Naming(f, s, command) = Sole(f, s, command)
    BY <1>2 DEF Naming, Sole
<1>4. ASSUME NEW n \in Sole(f, s, command)
      PROVE  CommandTargets(f.evidence[n].quoted, command) = Given(s, n, f, command)
    <2>1. n \in DOMAIN f.evidence /\ f.evidence[n].source = s
        BY DEF Sole
    <2> DEFINE v == observations[s].version
               a == f.evidence[n].start
               b == f.evidence[n].end
               K == a .. b \cap DOMAIN v
    <2>2. v \in Quote /\ a \in Nat \ {0} /\ b \in Nat /\ f.evidence[n].quoted = Lines(v, a, b)
        BY <1>1, <2>1
    <2>3. Given(s, n, f, command) = Follows(v, K, command)
        BY DEF Given, Follows
    <2>5. K = a .. b \cap DOMAIN v
        OBVIOUS
    <2> HIDE DEF v, a, b, K
    <2>4. CommandTargets(Lines(v, a, b), command) = Follows(v, K, command)
        BY <2>2, <2>5, TargetsOfRange
    <2> QED  BY <2>2, <2>3, <2>4
<1> QED  BY <1>3, <1>4

(* One citation and no other, as counted and as said.                       *)
LEMMA OneCitation ==
    ASSUME NEW f, IsFinding(f), NEW s, NEW command
    PROVE  Cardinality(Sole(f, s, command)) = 1 <=> \E n : Sole(f, s, command) = {n}
<1>1. IsFiniteSet(DOMAIN f.evidence) /\ Sole(f, s, command) \in SUBSET DOMAIN f.evidence
    BY CitationTypes DEF Sole
<1>2. IsFiniteSet(Sole(f, s, command))
    BY <1>1, FS_Subset
<1> QED  BY <1>2, FS_Singleton

(* A verdict on commands says what was observed.                            *)
LEMMA CommandsTell ==
    ASSUME GivenInv, NEW f, IsFinding(f), f.typed.kind = "differ",
           f.typed.source \in DOMAIN observations,
           \A n \in DOMAIN f.evidence : QuotesTheObserved(f.evidence[n]),
           DifferVerdict(f).result \in Decisive
    PROVE  Settled(f, DifferVerdict(f))
<1> DEFINE c == f.typed
           A == Sole(f, c.source, c.text)
           B == Sole(f, c.other, c.text)
           lt(m) == Given(c.source, m, f, c.text)
           rt(n) == Given(c.other, n, f, c.text)
<1>1. /\ Naming(f, c.source, c.text) = A /\ Naming(f, c.other, c.text) = B
      /\ \A m \in A : CommandTargets(f.evidence[m].quoted, c.text) = lt(m)
      /\ \A n \in B : CommandTargets(f.evidence[n].quoted, c.text) = rt(n)
    BY NamingIsSole
<1>2. /\ Cardinality(A) = 1 <=> \E n : A = {n}
      /\ Cardinality(B) = 1 <=> \E n : B = {n}
    BY OneCitation
<1> HIDE DEF A, B, lt, rt
<1>3. Cardinality(A) = 1 /\ Cardinality(B) = 1 /\ f.claim = Sentence(c)
    BY <1>1 DEF DifferVerdict, Says, Decisive
<1>4. PICK m, n : A = {m} /\ B = {n}
    BY <1>2, <1>3
<1>5. DifferVerdict(f) =
         Says(IF Lists(c.targets, lt(m)) /\ Lists(c.otherTargets, rt(n)) /\ lt(m) # rt(n)
              THEN "verified" ELSE "contradicted")
    <2>1. (CHOOSE x \in A : TRUE) = m /\ (CHOOSE x \in B : TRUE) = n /\ m \in A /\ n \in B
        BY <1>4
    <2>2. /\ CommandTargets(f.evidence[m].quoted, c.text) = lt(m)
          /\ CommandTargets(f.evidence[n].quoted, c.text) = rt(n)
        BY <1>1, <2>1
    <2> QED  BY <1>1, <1>3, <2>1, <2>2 DEF DifferVerdict
<1>6. HoldsOfTheObserved(f) <=>
         (Lists(c.targets, lt(m)) /\ Lists(c.otherTargets, rt(n)) /\ lt(m) # rt(n))
    <2>1. HoldsOfTheObserved(f) <=>
             \E x \in A, y \in B : /\ A = {x} /\ B = {y}
                                   /\ Lists(c.targets, lt(x)) /\ Lists(c.otherTargets, rt(y))
                                   /\ lt(x) # rt(y)
        BY DEF HoldsOfTheObserved, A, B, lt, rt, Literals
    <2>2. \A x \in A, y \in B : x = m /\ y = n
        BY <1>4
    <2>3. m \in A /\ n \in B
        BY <1>4
    <2> QED  BY <1>4, <2>1, <2>2, <2>3
<1>7. DifferVerdict(f).result = "verified" <=> HoldsOfTheObserved(f)
    BY <1>5, <1>6 DEF Says
<1>8. f.claim.kind # "lacks" /\ f.typed.kind # "none"
    BY <1>3 DEF Sentence, Literals
<1> QED  BY <1>3, <1>7, <1>8 DEF Settled

(* A range read of a source holds a word where the observed version does.   *)
LEMMA NowIsObserved ==
    ASSUME GivenInv, NEW s \in DOMAIN observations, Stands(s), NEW word
    PROVE  LET o == observations[s]
           IN  Contains(Now(s), word) <=>
                  \E k \in o.start .. o.end : k \in DOMAIN o.version /\ word \in o.version[k]
<1> DEFINE o == observations[s]
           v == o.version
<1>1. /\ v \in Quote /\ o.start \in Nat /\ o.end \in Nat /\ (o.start = 0 => o.end = 0)
      /\ Now(s) = Lines(v, o.start, o.end)
    BY GivenTypes DEF IsObservation, Stands, Now
<1> HIDE DEF o, v
<1>2. CASE o.start = 0
    <2>1. Lines(v, o.start, o.end) = <<>> /\ DOMAIN <<>> = {}
        BY <1>2 DEF Lines
    <2>2. 0 \notin DOMAIN v /\ \A k \in o.start .. o.end : k = 0
        <3>1. DOMAIN v = 1 .. Len(v) /\ Len(v) \in Nat
            BY <1>1 DEF Quote
        <3>2. 0 \notin 1 .. Len(v)
            BY <3>1
        <3>3. o.end = 0
            BY <1>1, <1>2
        <3>4. \A k \in 0 .. 0 : k = 0
            OBVIOUS
        <3> QED  BY <1>2, <3>1, <3>2, <3>3, <3>4
    <2>3. ~Contains(Now(s), word)
        BY <1>1, <2>1 DEF Contains
    <2>4. ~\E k \in o.start .. o.end : k \in DOMAIN v /\ word \in v[k]
        BY <2>2
    <2> QED  BY <2>3, <2>4 DEF o, v
<1>3. CASE o.start # 0
    <2>1. o.start \in Nat \ {0}
        BY <1>1, <1>3
    <2>2. Contains(Lines(v, o.start, o.end), word) <=>
             \E k \in o.start .. o.end \cap DOMAIN v : word \in v[k]
        BY <1>1, <2>1, RangeContains
    <2> QED  BY <1>1, <2>2 DEF o, v
<1> QED  BY <1>2, <1>3

(* A verdict on a literal says what was observed, and of the whole source   *)
(* when all of it was read.                                                 *)
LEMMA LiteralsTell ==
    ASSUME GivenInv, NEW f, IsFinding(f), f.typed.kind \in Literals,
           LiteralVerdict(f).result \in Decisive
    PROVE  Settled(f, LiteralVerdict(f))
<1> DEFINE c == f.typed
           o == observations[c.source]
           v == o.version
           here == Contains(Now(c.source), c.text)
<1>1. Refusal(f, c.source) = "none" /\ f.claim = Sentence(c)
    BY DEF LiteralVerdict, Refusal, Says, Decisive
<1>2. c.source \in DOMAIN observations /\ Stands(c.source)
    BY <1>1 DEF Refusal
<1>3. /\ LiteralVerdict(f).result = "verified" <=> (c.kind = "contains" <=> here)
      /\ LiteralVerdict(f).full <=> ReadInFull(o)
    BY <1>1 DEF LiteralVerdict
<1>4. here <=> \E k \in o.start .. o.end : k \in DOMAIN v /\ c.text \in v[k]
    BY <1>2, NowIsObserved
<1>5. HoldsOfTheObserved(f) <=> (c.kind = "contains" <=> here)
    BY <1>4 DEF HoldsOfTheObserved
<1>6. /\ f.claim.kind = c.kind /\ f.claim.source = c.source /\ f.claim.text = c.text
      /\ c.kind # "none"
    BY <1>1 DEF Sentence, Literals
<1>7. ASSUME ~here, ReadInFull(o)
      PROVE  ~Contains(v, c.text)
    <2>1. v \in Quote /\ DOMAIN v = 1 .. Len(v) /\ Len(v) \in Nat /\ o.end \in Nat
        BY <1>2, GivenTypes DEF Quote, IsObservation
    <2> HIDE DEF here
    <2>2. CASE v = <<>>
        BY <2>2 DEF Contains
    <2>3. CASE v # <<>>
        <3>1. o.start = 1 /\ o.end >= Len(v)
            BY <1>7, <2>3 DEF ReadInFull
        <3>2. \A k \in DOMAIN v : k \in o.start .. o.end
            BY <2>1, <3>1
        <3> QED  BY <1>4, <1>7, <3>2 DEF Contains
    <2> QED  BY <2>2, <2>3
<1> HIDE DEF here
<1>8. ASSUME LiteralVerdict(f).result = "verified", LiteralVerdict(f).full,
             f.claim.kind = "lacks"
      PROVE  ~Contains(observations[f.claim.source].version, f.claim.text)
    <2>1. ~here /\ ReadInFull(o)
        BY <1>3, <1>6, <1>8
    <2> QED  BY <1>6, <1>7, <2>1
<1>9. LiteralVerdict(f).result = "verified" <=> HoldsOfTheObserved(f)
    BY <1>3, <1>5
<1> QED  BY <1>1, <1>2, <1>6, <1>8, <1>9 DEF Settled

-----------------------------------------------------------------------------
(* Steps that leave the reply and its citations as they are.                *)

LEMMA SettledStays ==
    ASSUME UNCHANGED given
    PROVE  /\ findings' = findings
           /\ \A g, v : Settled(g, v)' <=> Settled(g, v)
           /\ \A ref : QuotesTheObserved(ref)' <=> QuotesTheObserved(ref)
<1>1. observations' = observations /\ output' = output
    BY DEF given
<1>2. findings' = findings
    BY <1>1 DEF findings
<1>3. ASSUME NEW g, NEW v
      PROVE  Settled(g, v)' <=> Settled(g, v)
    BY <1>1 DEF Settled, HoldsOfTheObserved, Sentence, Sole, Given
<1>4. ASSUME NEW ref
      PROVE  QuotesTheObserved(ref)' <=> QuotesTheObserved(ref)
    BY <1>1 DEF QuotesTheObserved, WasAt
<1> QED  BY <1>2, <1>3, <1>4

LEMMA CitationsStay ==
    ASSUME UNCHANGED <<given, statuses>>
    PROVE  /\ Unchecked' = Unchecked
           /\ \A i : Sound(i)' <=> Sound(i)
           /\ CitationsInv => CitationsInv'
<1>1. findings' = findings /\ statuses' = statuses
    BY SettledStays
<1>2. Unchecked' = Unchecked
    BY <1>1 DEF Unchecked
<1>3. ASSUME NEW i
      PROVE  Sound(i)' <=> Sound(i)
    BY <1>1 DEF Sound
<1>4. ASSUME CitationsInv
      PROVE  CitationsInv'
    <2>1. \A ref : QuotesTheObserved(ref)' <=> QuotesTheObserved(ref)
        BY SettledStays
    <2> QED  BY <1>1, <1>4, <2>1 DEF CitationsInv
<1> QED  BY <1>2, <1>3, <1>4

(* A step that changes nothing but what is on disk, or nothing at all.      *)
LEMMA CheckedStays ==
    ASSUME Checked, UNCHANGED <<given, statuses, settled, left, verdicts>>
    PROVE  Checked'
<1>1. /\ findings' = findings /\ output' = output /\ observations' = observations
      /\ \A g, v : Settled(g, v)' <=> Settled(g, v)
    BY SettledStays DEF given
<1>2. /\ Unchecked' = Unchecked /\ CitationsInv'
      /\ \A i : Sound(i)' <=> Sound(i)
    BY CitationsStay DEF Checked
<1>3. VerdictsInv'
    <2> SUFFICES ASSUME NEW x \in DOMAIN verdicts
                 PROVE  /\ verdicts[x].result \in Results
                        /\ \E j \in DOMAIN findings :
                              /\ Id(findings[j]) = x /\ Sound(j)'
                              /\ verdicts[x].result \in Decisive =>
                                    Settled(findings[j], verdicts[x])'
        BY <1>1 DEF VerdictsInv
    <2> QED  BY <1>1, <1>2 DEF Checked, VerdictsInv
<1>4. OrderInv'
    BY <1>1, <1>2 DEF Checked, OrderInv
<1> QED  BY <1>2, <1>3, <1>4 DEF Checked

-----------------------------------------------------------------------------
(* The steps of the grading.                                                *)

(* A quote is called intact when the bytes read bear it out.                *)
LEMMA CheckReferenceKeeps ==
    ASSUME GivenInv, Checked, CheckReference
    PROVE  Checked'
<1>1. /\ findings' = findings /\ output' = output /\ observations' = observations
      /\ \A ref : QuotesTheObserved(ref)' <=> QuotesTheObserved(ref)
      /\ UNCHANGED <<settled, left, verdicts>>
    BY SettledStays DEF CheckReference, given
<1>2. PICK i \in Unchecked :
         LET ref == findings[i].evidence[Len(statuses[i]) + 1]
         IN  statuses' = [statuses EXCEPT ![i] =
                           Append(@, IF Unread(ref) # "none" THEN Unread(ref) ELSE AsRead(ref))]
    BY DEF CheckReference
<1> DEFINE ref == findings[i].evidence[Len(statuses[i]) + 1]
           status == IF Unread(ref) # "none" THEN Unread(ref) ELSE AsRead(ref)
<1>3. status \in Statuses
    BY DEF Unread, AsRead, Statuses, Requotable
<1>4. status = "intact" => QuotesTheObserved(ref)
    <2> SUFFICES ASSUME status = "intact"
                 PROVE  QuotesTheObserved(ref)
        OBVIOUS
    <2>1. Unread(ref) = "none" /\ AsRead(ref) = "intact"
        BY DEF Unread
    <2>2. ref.source \in DOMAIN observations
        BY <2>1 DEF Unread
    <2>3. /\ disk[ref.source].holds = observations[ref.source].version
          /\ Lines(disk[ref.source].holds, ref.start, ref.end) = ref.quoted
        BY <2>1 DEF AsRead
    <2> QED  BY <2>2, <2>3 DEF QuotesTheObserved, WasAt
<1>5. /\ i \in DOMAIN findings /\ Len(statuses[i]) < Len(findings[i].evidence)
      /\ DOMAIN statuses = DOMAIN findings /\ statuses[i] \in Seq(Statuses)
      /\ IsFinding(findings[i])
    BY GivenTypes DEF Unchecked, Checked, CitationsInv
<1>6. Len(findings[i].evidence) \in Nat /\ Len(statuses[i]) \in Nat
    BY <1>5, CitationTypes
<1> HIDE DEF status
<1>7. /\ DOMAIN statuses' = DOMAIN findings
      /\ statuses'[i] = Append(statuses[i], status)
      /\ \A j \in DOMAIN findings : j # i => statuses'[j] = statuses[j]
    BY <1>2, <1>5 DEF status
<1>8. CitationsInv'
    <2> SUFFICES ASSUME NEW j \in DOMAIN findings
                 PROVE  /\ statuses'[j] \in Seq(Statuses)
                        /\ Len(statuses'[j]) <= Len(findings[j].evidence)
                        /\ \A n \in DOMAIN statuses'[j] :
                              statuses'[j][n] = "intact" =>
                                 QuotesTheObserved(findings[j].evidence[n])
        BY <1>1, <1>7 DEF CitationsInv
    <2>1. CASE j # i
        BY <1>7, <2>1 DEF Checked, CitationsInv
    <2>2. CASE j = i
        <3>1. /\ statuses'[i] \in Seq(Statuses) /\ Len(statuses'[i]) = Len(statuses[i]) + 1
              /\ DOMAIN statuses'[i] = 1 .. Len(statuses[i]) + 1
              /\ statuses'[i][Len(statuses[i]) + 1] = status
              /\ \A n \in 1 .. Len(statuses[i]) : statuses'[i][n] = statuses[i][n]
            BY <1>3, <1>5, <1>7
        <3>2. Len(statuses'[i]) <= Len(findings[i].evidence)
            BY <1>5, <1>6, <3>1
        <3>3. \A n \in DOMAIN statuses[i] :
                 statuses[i][n] = "intact" => QuotesTheObserved(findings[i].evidence[n])
            BY <1>5 DEF Checked, CitationsInv
        <3>4. DOMAIN statuses[i] = 1 .. Len(statuses[i])
            BY <1>5
        <3>5. \A n \in 1 .. Len(statuses[i]) + 1 :
                 n \in 1 .. Len(statuses[i]) \/ n = Len(statuses[i]) + 1
            BY <1>6
        <3>6. \A n \in DOMAIN statuses'[i] :
                 statuses'[i][n] = "intact" => QuotesTheObserved(findings[i].evidence[n])
            BY <1>4, <3>1, <3>3, <3>4, <3>5 DEF status
        <3> QED  BY <2>2, <3>1, <3>2, <3>6
    <2> QED  BY <2>1, <2>2
<1>9. Unchecked # {}
    BY <1>2
<1>10. VerdictsInv'
    BY <1>1, <1>9 DEF Checked, OrderInv, VerdictsInv
<1>11. OrderInv'
    <2>1. settled = 0 /\ ~left /\ DOMAIN verdicts = {}
        <3>1. ~(settled > 0 \/ left \/ DOMAIN verdicts # {})
            BY <1>9, Zenon DEF Checked, OrderInv
        <3>2. settled \in Nat /\ ~(settled > 0)
            BY <3>1 DEF Checked, OrderInv
        <3>3. settled = 0
            BY <3>2
        <3> QED  BY <3>1, <3>3, Zenon
    <2>2. \A j \in 1 .. 0 : FALSE
        OBVIOUS
    <2> QED  BY <1>1, <2>1, <2>2 DEF Checked, OrderInv
<1> QED  BY <1>8, <1>10, <1>11 DEF Checked

(* A verdict is entered that says what was observed.                        *)
LEMMA SettlingKeeps ==
    ASSUME GivenInv, Checked, NEW i \in DOMAIN findings, NEW v,
           Turn(i), Sound(i), Settles(i, v), UNCHANGED <<given, statuses>>,
           v.result \in Results, v.result \in Decisive => Settled(findings[i], v)
    PROVE  Checked'
<1>1. /\ findings' = findings /\ output' = output /\ observations' = observations
      /\ \A g, w : Settled(g, w)' <=> Settled(g, w)
    BY SettledStays DEF given
<1>2. /\ Unchecked' = Unchecked /\ CitationsInv'
      /\ \A j : Sound(j)' <=> Sound(j)
    BY CitationsStay DEF Checked
<1> DEFINE x == Id(findings[i])
<1>3. /\ DOMAIN verdicts' = DOMAIN verdicts \cup {x} /\ verdicts'[x] = v
      /\ \A y \in DOMAIN verdicts : y # x => verdicts'[y] = verdicts[y]
      /\ settled' = i /\ left' = FALSE /\ i = settled + 1
      /\ Unchecked = {} /\ output.settles
    BY DEF Settles, Turn
<1> HIDE DEF x
<1>4. VerdictsInv'
    <2>1. ASSUME NEW y \in DOMAIN verdicts'
          PROVE  /\ verdicts'[y].result \in Results
                 /\ \E j \in DOMAIN findings :
                       /\ Id(findings[j]) = y /\ Sound(j)
                       /\ verdicts'[y].result \in Decisive =>
                             Settled(findings[j], verdicts'[y])
        <3>1. CASE y = x
            BY <1>3, <3>1 DEF x
        <3>2. CASE y # x
            BY <1>3, <3>2 DEF Checked, VerdictsInv
        <3> QED  BY <3>1, <3>2
    <2> QED  BY <1>1, <1>2, <2>1 DEF VerdictsInv
<1>5. OrderInv'
    <2>1. settled' \in Nat /\ settled' <= Len(findings)
        BY <1>3, GivenTypes
    <2>2. \A j \in 1 .. i : j \in 1 .. settled \/ j = i
        BY <1>3 DEF Checked, OrderInv
    <2>3. \A j \in 1 .. settled' : Sound(j) => Id(findings[j]) \in DOMAIN verdicts'
        BY <1>3, <2>2 DEF Checked, OrderInv, x
    <2> QED  BY <1>1, <1>2, <1>3, <2>1, <2>3 DEF OrderInv
<1> QED  BY <1>2, <1>4, <1>5 DEF Checked

(* A finding passed over is one whose citations are not sound.              *)
LEMMA SkipUnsoundKeeps ==
    ASSUME GivenInv, Checked, SkipUnsound
    PROVE  Checked'
<1>1. PICK i \in DOMAIN findings : Turn(i) /\ ~Sound(i) /\ settled' = i
    BY DEF SkipUnsound
<1>2. /\ UNCHANGED <<given, statuses>> /\ left' = left /\ verdicts' = verdicts
      /\ i = settled + 1 /\ Unchecked = {} /\ output.settles
    BY <1>1 DEF SkipUnsound, Turn
<1>3. /\ findings' = findings /\ output' = output /\ observations' = observations
      /\ \A g, w : Settled(g, w)' <=> Settled(g, w)
    BY <1>2, SettledStays DEF given
<1>4. /\ Unchecked' = Unchecked /\ CitationsInv'
      /\ \A j : Sound(j)' <=> Sound(j)
    BY <1>2, CitationsStay DEF Checked
<1>5. VerdictsInv'
    <2>1. \A x \in DOMAIN verdicts :
             /\ verdicts[x].result \in Results
             /\ \E j \in DOMAIN findings :
                   /\ Id(findings[j]) = x /\ Sound(j)
                   /\ verdicts[x].result \in Decisive => Settled(findings[j], verdicts[x])
        BY DEF Checked, VerdictsInv
    <2> QED  BY <1>2, <1>3, <1>4, <2>1 DEF VerdictsInv
<1>6. OrderInv'
    <2>1. ~left
        BY <1>1, <1>2 DEF Checked, OrderInv
    <2>2. settled' \in Nat /\ settled' <= Len(findings)
        BY <1>1, GivenTypes
    <2>3. \A j \in 1 .. i : j \in 1 .. settled \/ j = i
        BY <1>2 DEF Checked, OrderInv
    <2>4. \A j \in 1 .. settled' : Sound(j) => Id(findings[j]) \in DOMAIN verdicts
        BY <1>1, <2>3 DEF Checked, OrderInv
    <2> QED  BY <1>2, <1>3, <1>4, <2>1, <2>2, <2>4 DEF OrderInv
<1> QED  BY <1>4, <1>5, <1>6 DEF Checked

LEMMA RefusalsSettleNothing ==
    ASSUME NEW f, NEW s
    PROVE  Refusal(f, s) \in (Results \ Decisive) \cup {"none"}
BY DEF Refusal, Results, Decisive

(* A finding all of whose citations are sound quotes what was observed.     *)
LEMMA SoundQuotes ==
    ASSUME GivenInv, CitationsInv, Unchecked = {}, NEW i \in DOMAIN findings, Sound(i)
    PROVE  /\ findings[i].evidence # <<>>
           /\ \A n \in DOMAIN findings[i].evidence :
                 QuotesTheObserved(findings[i].evidence[n])
<1> DEFINE e == findings[i].evidence
<1>1. /\ statuses[i] \in Seq(Statuses) /\ Len(statuses[i]) <= Len(e)
      /\ ~(Len(statuses[i]) < Len(e))
      /\ DOMAIN e = 1 .. Len(e) /\ Len(e) \in Nat
    BY GivenTypes, CitationTypes DEF CitationsInv, Unchecked
<1>2. Len(statuses[i]) \in Nat /\ DOMAIN statuses[i] = 1 .. Len(statuses[i])
    BY <1>1
<1> HIDE DEF e
<1>3. Len(statuses[i]) = Len(e)
    BY <1>1, <1>2
<1>4. DOMAIN statuses[i] = DOMAIN e
    BY <1>1, <1>2, <1>3
<1>5. \A n \in DOMAIN e : QuotesTheObserved(e[n])
    BY <1>4 DEF CitationsInv, Sound, e
<1>6. e # <<>>
    <2>1. statuses[i] # <<>>
        BY DEF Sound
    <2>2. Len(statuses[i]) # 0
        BY <1>1, <2>1
    <2>3. Len(<<>>) = 0
        OBVIOUS
    <2> QED  BY <1>3, <2>2, <2>3
<1> QED  BY <1>5, <1>6 DEF e

LEMMA SettleLiteralKeeps ==
    ASSUME GivenInv, Checked, SettleLiteral
    PROVE  Checked'
<1>1. PICK i \in DOMAIN findings :
         /\ Turn(i) /\ Sound(i) /\ findings[i].typed.kind \in Literals
         /\ Settles(i, LiteralVerdict(findings[i]))
    BY DEF SettleLiteral
<1>2. UNCHANGED <<given, statuses>>
    BY DEF SettleLiteral
<1>3. LiteralVerdict(findings[i]).result \in Results
    BY RefusalsSettleNothing DEF LiteralVerdict, Says, Results, Decisive
<1>4. IsFinding(findings[i])
    BY GivenTypes
<1>5. LiteralVerdict(findings[i]).result \in Decisive =>
         Settled(findings[i], LiteralVerdict(findings[i]))
    BY <1>1, <1>4, LiteralsTell
<1> QED  BY <1>1, <1>2, <1>3, <1>5, SettlingKeeps

(* The first of two sources stands, or the claim is settled without it.     *)
LEMMA SettleFirstKeeps ==
    ASSUME GivenInv, Checked, SettleFirst
    PROVE  Checked'
<1>1. PICK i \in DOMAIN findings :
         LET f == findings[i]
             c == f.typed
         IN  /\ Turn(i) /\ Sound(i) /\ c.kind = "differ" /\ ~left
             /\ \/ /\ Refusal(f, c.source) # "none"
                   /\ Settles(i, Says(Refusal(f, c.source)))
                \/ /\ Refusal(f, c.source) = "none"
                   /\ left' = TRUE
                   /\ UNCHANGED <<settled, verdicts>>
    BY DEF SettleFirst
<1> DEFINE f == findings[i]
           c == f.typed
<1>2. UNCHANGED <<given, statuses>>
    BY DEF SettleFirst
<1>3. CASE Refusal(f, c.source) # "none" /\ Settles(i, Says(Refusal(f, c.source)))
    <2>1. /\ Says(Refusal(f, c.source)).result \in Results
          /\ Says(Refusal(f, c.source)).result \notin Decisive
        BY <1>3, RefusalsSettleNothing DEF Says
    <2> QED  BY <1>1, <1>2, <1>3, <2>1, SettlingKeeps
<1>4. CASE Refusal(f, c.source) = "none" /\ left' = TRUE /\ UNCHANGED <<settled, verdicts>>
    <2>1. /\ findings' = findings /\ output' = output /\ observations' = observations
          /\ \A g, w : Settled(g, w)' <=> Settled(g, w)
        BY <1>2, SettledStays DEF given
    <2>2. /\ Unchecked' = Unchecked /\ CitationsInv'
          /\ \A j : Sound(j)' <=> Sound(j)
        BY <1>2, CitationsStay DEF Checked
    <2>3. VerdictsInv'
        <3>1. \A x \in DOMAIN verdicts :
                 /\ verdicts[x].result \in Results
                 /\ \E j \in DOMAIN findings :
                       /\ Id(findings[j]) = x /\ Sound(j)
                       /\ verdicts[x].result \in Decisive => Settled(findings[j], verdicts[x])
            BY DEF Checked, VerdictsInv
        <3> QED  BY <1>4, <2>1, <2>2, <3>1 DEF VerdictsInv
    <2>4. c.source \in DOMAIN observations
        BY <1>4 DEF Refusal
    <2>5. i = settled + 1 /\ Unchecked = {} /\ output.settles
        BY <1>1 DEF Turn
    <2>6. OrderInv'
        BY <1>1, <1>4, <2>1, <2>2, <2>4, <2>5 DEF Checked, OrderInv
    <2> QED  BY <2>2, <2>3, <2>6 DEF Checked
<1> QED  BY <1>1, <1>3, <1>4

LEMMA SettleOtherKeeps ==
    ASSUME GivenInv, Checked, SettleOther
    PROVE  Checked'
<1>1. PICK i \in DOMAIN findings :
         LET f == findings[i]
             c == f.typed
         IN  /\ Turn(i)
             /\ Settles(i, IF Refusal(f, c.other) # "none" THEN Says(Refusal(f, c.other))
                           ELSE DifferVerdict(f))
    BY DEF SettleOther
<1> DEFINE f == findings[i]
           c == f.typed
           v == IF Refusal(f, c.other) # "none" THEN Says(Refusal(f, c.other))
                ELSE DifferVerdict(f)
<1>2. UNCHANGED <<given, statuses>>
    BY DEF SettleOther
<1>3. /\ Sound(i) /\ c.kind = "differ" /\ c.source \in DOMAIN observations
      /\ Unchecked = {} /\ CitationsInv
    BY <1>1 DEF SettleOther, Turn, Checked, OrderInv
<1>4. v.result \in Results
    <2>1. DifferVerdict(f).result \in Results
        BY DEF DifferVerdict, Says, Results, Decisive
    <2> QED  BY <2>1, RefusalsSettleNothing DEF Says
<1>5. v.result \in Decisive => Settled(f, v)
    <2> SUFFICES ASSUME v.result \in Decisive
                 PROVE  Settled(f, v)
        OBVIOUS
    <2>1. Refusal(f, c.other) = "none"
        BY RefusalsSettleNothing DEF Says
    <2>2. v = DifferVerdict(f)
        BY <2>1
    <2>3. IsFinding(f) /\ \A n \in DOMAIN f.evidence : QuotesTheObserved(f.evidence[n])
        BY <1>3, GivenTypes, SoundQuotes
    <2> HIDE DEF v, f
    <2> QED  BY <1>3, <2>2, <2>3, CommandsTell
<1>6. Settles(i, v)
    BY <1>1
<1> HIDE DEF v
<1> QED  BY <1>1, <1>2, <1>3, <1>4, <1>5, <1>6, SettlingKeeps

(* A test of the producer's own settles nothing.                            *)
LEMMA SettleConditionKeeps ==
    ASSUME GivenInv, Checked, SettleCondition
    PROVE  Checked'
<1>1. PICK i \in DOMAIN findings :
         LET f == findings[i]
             k == f.condition
         IN  /\ Turn(i) /\ Sound(i) /\ f.typed.kind = "none"
             /\ Settles(i, Says(IF k.kind = "none" THEN "not_declared"
                                ELSE IF Refusal(f, k.source) # "none" THEN Refusal(f, k.source)
                                ELSE IF k.kind = "present" <=> Contains(Now(k.source), k.text)
                                THEN "condition_supported" ELSE "condition_refuted"))
    BY DEF SettleCondition
<1> DEFINE f == findings[i]
           k == f.condition
           r == IF k.kind = "none" THEN "not_declared"
                ELSE IF Refusal(f, k.source) # "none" THEN Refusal(f, k.source)
                ELSE IF k.kind = "present" <=> Contains(Now(k.source), k.text)
                THEN "condition_supported" ELSE "condition_refuted"
<1>2. UNCHANGED <<given, statuses>>
    BY DEF SettleCondition
<1>3. r \in Results \ Decisive
    BY RefusalsSettleNothing DEF Results, Decisive
<1>4. Settles(i, Says(r))
    BY <1>1
<1> HIDE DEF r
<1>5. Says(r).result \in Results /\ Says(r).result \notin Decisive
    BY <1>3 DEF Says
<1> QED  BY <1>1, <1>2, <1>4, <1>5, SettlingKeeps

-----------------------------------------------------------------------------
(* The invariant holds at first and every step keeps it.                    *)

LEMMA StartsIn == Init => ClaimsInv
<1> SUFFICES ASSUME Init PROVE ClaimsInv
    OBVIOUS
<1>1. GivenInv
    BY DEF Init, GivenInv
<1>2. PhaseInv
    BY DEF Init, PhaseInv, NoResult
<1> QED  BY <1>1, <1>2 DEF ClaimsInv

LEMMA ParseKeeps ==
    ASSUME ClaimsInv, Parse
    PROVE  PhaseInv'
<1>1. /\ pc = "parse" /\ settled = 0 /\ left = FALSE /\ verdicts = <<>>
      /\ result.records = <<>> /\ GivenInv
    BY DEF ClaimsInv, PhaseInv, Parse
<1>2. /\ findings' = findings /\ output' = output /\ observations' = observations
      /\ settled' = 0 /\ left' = FALSE /\ verdicts' = <<>>
    BY <1>1 DEF Parse, given, findings
<1>3. CASE \E gap, again : Ends(gap, again)
    <2>1. PICK gap, again : Ends(gap, again)
        BY <1>3
    <2>2. /\ pc' = "done" /\ result'.gaps = {gap} /\ result'.considered = 0
          /\ result'.records = <<>>
        BY <2>1 DEF Ends, NoResult
    <2>3. result'.gaps # {}
        BY <2>2
    <2> QED  BY <1>2, <2>2, <2>3 DEF PhaseInv
<1>4. CASE /\ pc' = "check" /\ statuses' = [i \in DOMAIN findings |-> <<>>]
           /\ UNCHANGED result
    <2>1. DOMAIN <<>> = {} /\ <<>> \in Seq(Statuses) /\ Len(<<>>) = 0
        OBVIOUS
    <2>2. \A i \in DOMAIN findings : Len(findings[i].evidence) \in Nat
        BY <1>1, GivenTypes, CitationTypes
    <2>3. CitationsInv'
        <3> SUFFICES ASSUME NEW i \in DOMAIN findings
                     PROVE  /\ statuses'[i] \in Seq(Statuses)
                            /\ Len(statuses'[i]) <= Len(findings[i].evidence)
                            /\ DOMAIN statuses'[i] = {}
            BY <1>2, <1>4 DEF CitationsInv
        <3>1. statuses'[i] = <<>>
            BY <1>4
        <3>2. 0 <= Len(findings[i].evidence)
            BY <2>2
        <3> QED  BY <2>1, <3>1, <3>2
    <2>4. DOMAIN verdicts' = {}
        BY <1>2, <2>1
    <2>5. VerdictsInv'
        BY <2>4 DEF VerdictsInv
    <2>6. OrderInv'
        <3>1. \A j \in 1 .. 0 : FALSE
            OBVIOUS
        <3>2. 0 \in Nat /\ 0 <= Len(findings) /\ ~(0 > 0)
            BY <1>1, GivenTypes
        <3> QED  BY <1>2, <2>4, <3>1, <3>2 DEF OrderInv
    <2> QED  BY <1>1, <1>4, <2>3, <2>5, <2>6 DEF PhaseInv, Checked
<1> QED  BY <1>3, <1>4 DEF Parse

LEMMA GradeKeeps ==
    ASSUME ClaimsInv, Grade
    PROVE  PhaseInv'
<1>1. Checked
    BY DEF ClaimsInv, PhaseInv, Grade
<1>2. UNCHANGED <<given, statuses, settled, left, verdicts>>
    BY DEF Grade
<1>3. Checked'
    BY <1>1, <1>2, CheckedStays
<1>4. /\ findings' = findings /\ output' = output /\ observations' = observations
      /\ Unchecked' = Unchecked
    BY <1>2, SettledStays, CitationsStay DEF given
<1>5. Complete'
    BY <1>2, <1>4 DEF Grade, Complete
<1>6. Graded' = Graded
    BY <1>2, <1>4 DEF Graded, Gaps, Blocking, Supported, Record, VerdictOf, Unsound, Refuted,
                      Mismatched, Undecided, Sound, findings
<1>7. pc' = "done" /\ result' = Graded'
    BY <1>6 DEF Grade
<1> QED  BY <1>3, <1>5, <1>7 DEF PhaseInv

(* Writing to the sources, or nothing, disturbs none of it.                 *)
LEMMA OutsideKeeps ==
    ASSUME ClaimsInv, UNCHANGED <<given, pc, statuses, settled, left, verdicts, result>>
    PROVE  PhaseInv'
<1>1. Checked => Checked'
    BY CheckedStays
<1>2. /\ findings' = findings /\ output' = output /\ observations' = observations
      /\ Unchecked' = Unchecked
    BY SettledStays, CitationsStay DEF given
<1>3. Complete => Complete'
    BY <1>2 DEF Complete
<1>4. Graded' = Graded
    BY <1>2 DEF Graded, Gaps, Blocking, Supported, Record, VerdictOf, Unsound, Refuted,
                Mismatched, Undecided, Sound, findings
<1> QED  BY <1>1, <1>3, <1>4 DEF ClaimsInv, PhaseInv

LEMMA StepKeeps == ClaimsInv /\ [Next]_vars => ClaimsInv'
<1> SUFFICES ASSUME ClaimsInv, [Next]_vars
             PROVE  ClaimsInv'
    OBVIOUS
<1>1. UNCHANGED given
    BY DEF Next, vars, Parse, CheckReference, SkipUnsound, SettleLiteral, SettleFirst,
           SettleOther, SettleCondition, Grade, Edit
<1>2. GivenInv /\ GivenInv'
    BY <1>1 DEF ClaimsInv, GivenInv, given
<1>3. ASSUME pc = "check", UNCHANGED <<pc, result>>, Checked'
      PROVE  PhaseInv'
    BY <1>3 DEF ClaimsInv, PhaseInv
<1>4. pc = "check" => Checked
    BY DEF ClaimsInv, PhaseInv
<1>5. CASE Parse
    BY <1>5, ParseKeeps, <1>2 DEF ClaimsInv
<1>6. CASE CheckReference
    <2>1. pc = "check" /\ UNCHANGED <<pc, result>>
        BY <1>6 DEF CheckReference
    <2> QED  BY <1>2, <1>3, <1>4, <1>6, <2>1, CheckReferenceKeeps DEF ClaimsInv
<1>7. CASE SkipUnsound
    <2>1. pc = "check" /\ UNCHANGED <<pc, result>>
        BY <1>7 DEF SkipUnsound, Turn
    <2> QED  BY <1>2, <1>3, <1>4, <1>7, <2>1, SkipUnsoundKeeps DEF ClaimsInv
<1>8. CASE SettleLiteral
    <2>1. pc = "check" /\ UNCHANGED <<pc, result>>
        BY <1>8 DEF SettleLiteral, Turn
    <2> QED  BY <1>2, <1>3, <1>4, <1>8, <2>1, SettleLiteralKeeps DEF ClaimsInv
<1>9. CASE SettleFirst
    <2>1. pc = "check" /\ UNCHANGED <<pc, result>>
        BY <1>9 DEF SettleFirst, Turn
    <2> QED  BY <1>2, <1>3, <1>4, <1>9, <2>1, SettleFirstKeeps DEF ClaimsInv
<1>10. CASE SettleOther
    <2>1. pc = "check" /\ UNCHANGED <<pc, result>>
        BY <1>10 DEF SettleOther, Turn
    <2> QED  BY <1>2, <1>3, <1>4, <1>10, <2>1, SettleOtherKeeps DEF ClaimsInv
<1>11. CASE SettleCondition
    <2>1. pc = "check" /\ UNCHANGED <<pc, result>>
        BY <1>11 DEF SettleCondition, Turn
    <2> QED  BY <1>2, <1>3, <1>4, <1>11, <2>1, SettleConditionKeeps DEF ClaimsInv
<1>12. CASE Grade
    BY <1>2, <1>12, GradeKeeps DEF ClaimsInv
<1>13. CASE \E s \in DOMAIN observations : Edit(s)
    <2>1. UNCHANGED <<given, pc, statuses, settled, left, verdicts, result>>
        BY <1>13 DEF Edit
    <2> QED  BY <1>2, <2>1, OutsideKeeps DEF ClaimsInv
<1>14. CASE UNCHANGED vars
    <2>1. UNCHANGED <<given, pc, statuses, settled, left, verdicts, result>>
        BY <1>14 DEF vars
    <2> QED  BY <1>2, <2>1, OutsideKeeps DEF ClaimsInv
<1> QED
    BY <1>5, <1>6, <1>7, <1>8, <1>9, <1>10, <1>11, <1>12, <1>13, <1>14 DEF Next

LEMMA ClaimsInvariant == Spec => []ClaimsInv
BY StartsIn, StepKeeps, PTL DEF Spec

-----------------------------------------------------------------------------
(* What the grading says.                                                   *)

(* Once graded, a finding's verdict is one of its own claim and scope.      *)
LEMMA VerdictOfIsOne ==
    ASSUME Checked, NEW i \in DOMAIN findings
    PROVE  \/ VerdictOf(i).result = "none" /\ Id(findings[i]) \notin DOMAIN verdicts
           \/ /\ VerdictOf(i).result \in Results
              /\ \E j \in DOMAIN findings :
                    /\ Id(findings[j]) = Id(findings[i]) /\ Sound(j)
                    /\ VerdictOf(i).result \in Decisive => Settled(findings[j], VerdictOf(i))
BY DEF Checked, VerdictsInv, VerdictOf, Says

LEMMA GradedRecords ==
    ASSUME NEW i \in DOMAIN Graded.records, GivenInv
    PROVE  /\ i \in DOMAIN findings /\ Graded.records[i] = Record(i)
           /\ ~(Len(findings) + output.loose = 0)
<1>1. DOMAIN <<>> = {}
    OBVIOUS
<1>2. CASE Len(findings) + output.loose = 0
    <2>1. Graded.records = <<>>
        BY <1>2 DEF Graded, NoResult
    <2> QED  BY <1>1, <2>1
<1>3. CASE ~(Len(findings) + output.loose = 0)
    <2>1. Graded.records = [n \in DOMAIN findings |-> Record(n)]
        BY <1>3 DEF Graded
    <2> QED  BY <1>3, <2>1
<1> QED  BY <1>2, <1>3

(* However the sources change and change back between the reads, a finding  *)
(* recorded as verified or contradicted quotes what the run observed, and   *)
(* the observed versions bear its verdict out (claim_check.check_claim).    *)
THEOREM VerdictsStandOnTheObserved == Spec => []SettledIsTrue
<1>1. ClaimsInv => SettledIsTrue
    <2> SUFFICES ASSUME ClaimsInv, NEW i \in DOMAIN result.records,
                        result.records[i].verdict \in Decisive
                 PROVE  LET f == findings[i]
                            r == result.records[i]
                        IN  /\ \A n \in DOMAIN f.evidence : QuotesTheObserved(f.evidence[n])
                            /\ \E j \in DOMAIN findings :
                                  LET g == findings[j]
                                  IN  /\ g.claim = f.claim /\ g.typed.kind # "none"
                                      /\ g.typed.source \in DOMAIN observations
                                      /\ f.claim = Sentence(g.typed)
                                      /\ r.verdict = "verified" <=> HoldsOfTheObserved(g)
                            /\ r.verdict = "verified" /\ r.full /\ f.claim.kind = "lacks" =>
                                  ~Contains(observations[f.claim.source].version, f.claim.text)
        BY DEF SettledIsTrue
    <2>1. result.records # <<>>
        <3>1. DOMAIN <<>> = {}
            OBVIOUS
        <3> QED  BY <3>1
    <2>2. Checked /\ Complete /\ result = Graded /\ GivenInv
        BY <2>1 DEF ClaimsInv, PhaseInv
    <2>3. i \in DOMAIN findings /\ result.records[i] = Record(i)
        BY <2>2, GradedRecords
    <2>4. /\ Sound(i) /\ VerdictOf(i).result \in Decisive
          /\ result.records[i].verdict = VerdictOf(i).result
          /\ result.records[i].full = VerdictOf(i).full
        BY <2>3 DEF Record, Decisive
    <2>5. \A n \in DOMAIN findings[i].evidence : QuotesTheObserved(findings[i].evidence[n])
        BY <2>2, <2>3, <2>4, SoundQuotes DEF Checked, Complete
    <2>6. PICK j \in DOMAIN findings : /\ Id(findings[j]) = Id(findings[i])
                                       /\ Settled(findings[j], VerdictOf(i))
        <3>1. VerdictOf(i).result # "none"
            BY <2>4 DEF Decisive
        <3> QED  BY <2>2, <2>3, <2>4, <3>1, VerdictOfIsOne
    <2>7. findings[j].claim = findings[i].claim
        BY <2>6 DEF Id
    <2> QED  BY <2>4, <2>5, <2>6, <2>7 DEF Settled
<1> QED  BY <1>1, ClaimsInvariant, PTL

(* A reply graded without a gap is established: every bullet is a finding,  *)
(* every quote is what the run observed and, where the route asks for it,   *)
(* every finding is verified (_grade_against_evidence).                     *)
THEOREM NoGapMeansEstablished == Spec => []CleanMeansEstablished
<1>1. ClaimsInv => CleanMeansEstablished
    <2> SUFFICES ASSUME ClaimsInv, pc = "done", result.gaps = {}
                 PROVE  /\ output.loose = 0
                        /\ \A i \in DOMAIN findings :
                              /\ findings[i].evidence # <<>>
                              /\ \A n \in DOMAIN findings[i].evidence :
                                    QuotesTheObserved(findings[i].evidence[n])
                              /\ output.settles => result.records[i].verdict = "verified"
        BY DEF CleanMeansEstablished
    <2>1. Checked /\ Complete /\ result = Graded /\ GivenInv
        BY DEF ClaimsInv, PhaseInv
    <2>2. Len(findings) \in Nat /\ output.loose \in Nat /\ DOMAIN findings = 1 .. Len(findings)
        BY <2>1, GivenTypes
    <2>3. CASE Len(findings) + output.loose = 0
        <3>1. Len(findings) = 0 /\ output.loose = 0
            BY <2>2, <2>3
        <3>2. DOMAIN findings = {}
            BY <2>2, <3>1
        <3> QED  BY <3>1, <3>2
    <2>4. CASE ~(Len(findings) + output.loose = 0)
        <3>1. Gaps = {} /\ result.records = [i \in DOMAIN findings |-> Record(i)]
            BY <2>1, <2>4 DEF Graded
        <3>2. ~(output.loose > 0) /\ Unsound = {} /\ Refuted = {} /\ Mismatched = {}
              /\ Undecided = {}
            BY <3>1 DEF Gaps
        <3>3. output.loose = 0
            BY <2>2, <3>2
        <3>4. ASSUME NEW i \in DOMAIN findings
              PROVE  /\ findings[i].evidence # <<>>
                     /\ \A n \in DOMAIN findings[i].evidence :
                           QuotesTheObserved(findings[i].evidence[n])
                     /\ output.settles => result.records[i].verdict = "verified"
            <4>1. Sound(i)
                BY <3>2 DEF Unsound
            <4>2. /\ findings[i].evidence # <<>>
                  /\ \A n \in DOMAIN findings[i].evidence :
                        QuotesTheObserved(findings[i].evidence[n])
                BY <2>1, <4>1, SoundQuotes DEF Checked, Complete
            <4>3. ASSUME output.settles
                  PROVE  result.records[i].verdict = "verified"
                <5>1. Id(findings[i]) \in DOMAIN verdicts
                    BY <2>1, <2>2, <4>1, <4>3 DEF Complete, Checked, OrderInv
                <5>2. VerdictOf(i).result \in Results
                    BY <2>1, <5>1, VerdictOfIsOne
                <5>3. VerdictOf(i).result = "verified"
                    BY <3>2, <4>1, <5>2 DEF Refuted, Mismatched, Undecided, Results, Decisive
                <5> QED  BY <3>1, <4>1, <5>3 DEF Record, Decisive
            <4> QED  BY <4>2, <4>3
        <3> QED  BY <3>3, <3>4
    <2> QED  BY <2>3, <2>4
<1> QED  BY <1>1, ClaimsInvariant, PTL

(* Four parts taken away from a finite set leave the number of the rest.    *)
Leaves(D, A, B, C, E) ==
    Cardinality(D \ (A \cup B \cup C \cup E)) =
        Cardinality(D) - Cardinality(A) - Cardinality(B) - Cardinality(C) - Cardinality(E)

LEMMA WhatIsLeft ==
    ASSUME NEW D, NEW A, NEW B, NEW C, NEW E, IsFiniteSet(D),
           A \subseteq D, B \subseteq D, C \subseteq D, E \subseteq D,
           A \cap B = {}, (A \cup B) \cap C = {}, (A \cup B \cup C) \cap E = {}
    PROVE  Leaves(D, A, B, C, E)
<1>1. /\ IsFiniteSet(D \ A) /\ IsFiniteSet((D \ A) \ B) /\ IsFiniteSet(((D \ A) \ B) \ C)
      /\ Cardinality(D \ A) = Cardinality(D) - Cardinality(D \cap A)
    BY FS_Difference
<1>2. Cardinality((D \ A) \ B) = Cardinality(D \ A) - Cardinality((D \ A) \cap B)
    BY <1>1, FS_Difference
<1>3. Cardinality(((D \ A) \ B) \ C) =
         Cardinality((D \ A) \ B) - Cardinality(((D \ A) \ B) \cap C)
    BY <1>1, FS_Difference
<1>4. Cardinality((((D \ A) \ B) \ C) \ E) =
         Cardinality(((D \ A) \ B) \ C) - Cardinality((((D \ A) \ B) \ C) \cap E)
    BY <1>1, FS_Difference
<1>5. /\ D \cap A = A /\ (D \ A) \cap B = B /\ ((D \ A) \ B) \cap C = C
      /\ (((D \ A) \ B) \ C) \cap E = E
      /\ (((D \ A) \ B) \ C) \ E = D \ (A \cup B \cup C \cup E)
    OBVIOUS
<1>6. /\ Cardinality(D) \in Int /\ Cardinality(A) \in Int /\ Cardinality(B) \in Int
      /\ Cardinality(C) \in Int /\ Cardinality(E) \in Int
    <2>1. IsFiniteSet(A) /\ IsFiniteSet(B) /\ IsFiniteSet(C) /\ IsFiniteSet(E)
        BY FS_Subset
    <2> QED  BY <2>1, FS_CardinalityType
<1> QED  BY <1>1, <1>2, <1>3, <1>4, <1>5, <1>6 DEF Leaves

(* Where no two findings share an id, each is counted once.                 *)
LEMMA EachIsOneOf ==
    ASSUME GivenInv, Checked, Complete,
           \A i, j \in DOMAIN findings : Id(findings[i]) = Id(findings[j]) => i = j,
           NEW Good, Good = {i \in DOMAIN findings :
                               Sound(i) /\ (output.settles => Record(i).verdict = "verified")}
    PROVE  /\ Unsound \cap Refuted = {} /\ (Unsound \cup Refuted) \cap Mismatched = {}
           /\ (Unsound \cup Refuted \cup Mismatched) \cap Undecided = {}
           /\ Good = DOMAIN findings \ (Unsound \cup Refuted \cup Mismatched \cup Undecided)
<1>1. ASSUME NEW i \in DOMAIN findings, VerdictOf(i).result # "none"
      PROVE  Sound(i) /\ output.settles /\ VerdictOf(i).result \in Results
    <2>1. VerdictOf(i).result \in Results
        BY <1>1, VerdictOfIsOne
    <2>2. PICK j \in DOMAIN findings : Id(findings[j]) = Id(findings[i]) /\ Sound(j)
        BY <1>1, VerdictOfIsOne
    <2>3. Sound(i)
        <3>1. j = i
            BY <2>2
        <3> QED  BY <2>2, <3>1
    <2>4. DOMAIN verdicts # {}
        BY <1>1 DEF VerdictOf, Says
    <2>5. output.settles
        BY <2>4 DEF Checked, OrderInv
    <2> QED  BY <2>1, <2>3, <2>5
<1>2. ASSUME NEW i \in DOMAIN findings, Sound(i), output.settles
      PROVE  VerdictOf(i).result # "none"
    <2>1. i \in 1 .. settled
        BY <1>2, GivenTypes DEF Complete
    <2>2. Id(findings[i]) \in DOMAIN verdicts
        BY <1>2, <2>1 DEF Checked, OrderInv
    <2> QED  BY <2>2, VerdictOfIsOne DEF Results, Decisive
<1>3. \A i \in DOMAIN findings :
         /\ Record(i).verdict = "verified" <=> (Sound(i) /\ VerdictOf(i).result = "verified")
    BY DEF Record, Decisive
<1>4. ASSUME NEW i \in DOMAIN findings
      PROVE  /\ i \in Unsound => i \notin Refuted \cup Mismatched \cup Undecided
             /\ ~(i \in Refuted /\ i \in Mismatched)
             /\ i \in Refuted \cup Mismatched => i \notin Undecided
             /\ i \in Good <=> i \notin Unsound \cup Refuted \cup Mismatched \cup Undecided
    <2>1. CASE VerdictOf(i).result = "none"
        BY <1>2, <1>3, <2>1 DEF Unsound, Refuted, Mismatched, Undecided, Decisive
    <2>2. CASE VerdictOf(i).result # "none"
        <3>1. Sound(i) /\ output.settles /\ VerdictOf(i).result \in Results
            BY <1>1, <2>2
        <3> QED  BY <1>3, <2>2, <3>1 DEF Unsound, Refuted, Mismatched, Undecided, Decisive
    <2> QED  BY <2>1, <2>2
<1>5. /\ Good \subseteq DOMAIN findings /\ Unsound \subseteq DOMAIN findings
      /\ Refuted \subseteq DOMAIN findings /\ Mismatched \subseteq DOMAIN findings
      /\ Undecided \subseteq DOMAIN findings
    BY DEF Unsound, Refuted, Mismatched, Undecided
<1> QED  BY <1>4, <1>5

(* Where no two findings share an id, evidence_coverage is the share of     *)
(* them that are supported, and it is whole just when there is no gap       *)
(* (_grade_against_evidence's five subtractions).                           *)
THEOREM TheShareIsCounted == Spec => []CoverageIsTheShare
<1>1. ClaimsInv => CoverageIsTheShare
    <2> DEFINE Good == {i \in DOMAIN findings :
                          Sound(i) /\ (output.settles => Record(i).verdict = "verified")}
    <2> SUFFICES ASSUME ClaimsInv, pc = "done", result.considered > 0,
                        \A i, j \in DOMAIN findings :
                           Id(findings[i]) = Id(findings[j]) => i = j
                 PROVE  /\ result.supported = Cardinality({i \in DOMAIN findings :
                              /\ Sound(i)
                              /\ output.settles => result.records[i].verdict = "verified"})
                        /\ result.supported = result.considered <=> result.gaps = {}
        BY DEF CoverageIsTheShare
    <2>1. Checked /\ Complete /\ result = Graded /\ GivenInv
        BY DEF ClaimsInv, PhaseInv
    <2>2. Len(findings) \in Nat /\ output.loose \in Nat /\ DOMAIN findings = 1 .. Len(findings)
        BY <2>1, GivenTypes
    <2>3. ~(Len(findings) + output.loose = 0)
        BY <2>1 DEF Graded, NoResult
    <2>4. /\ result.records = [i \in DOMAIN findings |-> Record(i)]
          /\ result.supported = Supported /\ result.gaps = Gaps
          /\ result.considered = Len(findings) + output.loose
        BY <2>1, <2>3 DEF Graded
    <2>5. {i \in DOMAIN findings :
              Sound(i) /\ (output.settles => result.records[i].verdict = "verified")} = Good
        BY <2>4
    <2> HIDE DEF Good
    <2>6. /\ Unsound \cap Refuted = {} /\ (Unsound \cup Refuted) \cap Mismatched = {}
          /\ (Unsound \cup Refuted \cup Mismatched) \cap Undecided = {}
          /\ Good = DOMAIN findings \ (Unsound \cup Refuted \cup Mismatched \cup Undecided)
        BY <2>1, EachIsOneOf DEF Good
    <2>7. /\ Unsound \in SUBSET DOMAIN findings /\ Refuted \in SUBSET DOMAIN findings
          /\ Mismatched \in SUBSET DOMAIN findings /\ Undecided \in SUBSET DOMAIN findings
        BY DEF Unsound, Refuted, Mismatched, Undecided
    <2>8. IsFiniteSet(DOMAIN findings) /\ Cardinality(DOMAIN findings) = Len(findings)
        <3>1. \A n \in Nat : IsFiniteSet(1 .. n) /\ Cardinality(1 .. n) = n
            <4> TAKE n \in Nat
            <4>1. /\ IsFiniteSet(1 .. n)
                  /\ Cardinality(1 .. n) = IF 1 > n THEN 0 ELSE n - 1 + 1
                BY FS_Interval
            <4>2. (IF 1 > n THEN 0 ELSE n - 1 + 1) = n
                OBVIOUS
            <4> QED  BY <4>1, <4>2
        <3> QED  BY <2>2, <3>1
    <2>9. /\ Cardinality(Good) =
                Cardinality(DOMAIN findings) - Cardinality(Unsound) - Cardinality(Refuted)
                    - Cardinality(Mismatched) - Cardinality(Undecided)
          /\ Cardinality(Unsound) \in Nat /\ (Cardinality(Unsound) = 0 <=> Unsound = {})
          /\ Cardinality(Refuted) \in Nat /\ (Cardinality(Refuted) = 0 <=> Refuted = {})
          /\ Cardinality(Mismatched) \in Nat /\ (Cardinality(Mismatched) = 0 <=> Mismatched = {})
          /\ Cardinality(Undecided) \in Nat /\ (Cardinality(Undecided) = 0 <=> Undecided = {})
        <3>1. Leaves(DOMAIN findings, Unsound, Refuted, Mismatched, Undecided)
            BY <2>6, <2>7, <2>8, WhatIsLeft
        <3>2. \A S \in SUBSET DOMAIN findings :
                 Cardinality(S) \in Nat /\ (Cardinality(S) = 0 <=> S = {})
            BY <2>8, FS_Subset, FS_CardinalityType, FS_EmptySet
        <3> QED  BY <2>6, <2>7, <3>1, <3>2 DEF Leaves
    <2>10. result.supported = Cardinality(Good)
        BY <2>4, <2>8, <2>9 DEF Supported
    <2>11. Gaps = {} <=> /\ ~(output.loose > 0) /\ Unsound = {} /\ Refuted = {}
                         /\ Mismatched = {} /\ Undecided = {}
        BY DEF Gaps
    <2>12. Supported = Len(findings) + output.loose <=>
              /\ output.loose = 0 /\ Cardinality(Unsound) = 0 /\ Cardinality(Refuted) = 0
              /\ Cardinality(Mismatched) = 0 /\ Cardinality(Undecided) = 0
        <3>1. \A n, l, a, b, c, d \in Nat :
                 n - a - b - c - d = n + l <=> l = 0 /\ a = 0 /\ b = 0 /\ c = 0 /\ d = 0
            OBVIOUS
        <3> QED  BY <2>2, <2>9, <3>1 DEF Supported
    <2>13. ~(output.loose > 0) <=> output.loose = 0
        BY <2>2
    <2>14. result.supported = result.considered <=> result.gaps = {}
        BY <2>4, <2>9, <2>11, <2>12, <2>13
    <2> QED  BY <2>5, <2>10, <2>14
<1> QED  BY <1>1, ClaimsInvariant, PTL
=============================================================================
