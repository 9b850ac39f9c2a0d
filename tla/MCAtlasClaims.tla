---------------------------- MODULE MCAtlasClaims ----------------------------
(* An instance of AtlasClaims for TLC: two sources of two lines, the first  *)
(* of which gives a command what it works on, and replies of two findings.  *)
EXTENDS AtlasClaims, TLC

CONSTANTS p, q, unread

Run(t) == {"run"} \cup t
V1 == <<Run({"a/"}), {"word"}>>
V2 == <<Run({"b/"}), {"other"}>>

MCVersions == {V1, V2}
MCTargets  == {"a/", "b/"}
MCWords    == {"run", "word", "other"} \cup MCTargets

Obs(v, s, e, k, t) == [type |-> t, version |-> v, start |-> s, end |-> e,
                       excerpt |-> SubSeq(v, s, e), counted |-> k]

(* Read in full or in part, with an excerpt that is not the source's, or of *)
(* a type this run has no reader for.                                       *)
OfP == {Obs(V1, 1, 2, TRUE, "local_file"), Obs(V1, 1, 1, TRUE, "local_file"),
        Obs(V1, 1, 2, FALSE, "ci"),
        [Obs(V1, 1, 2, FALSE, "local_file") EXCEPT !.excerpt = V2]}
OfQ == {Obs(V2, 1, 2, TRUE, "local_file")}

MCObserved == {p :> o @@ q :> r : o \in OfP, r \in OfQ}
              \cup {<<>>, p :> Obs(V1, 1, 2, FALSE, "local_file")}

Ref(src, d, s, e, v) == [source |-> src, digest |-> d, start |-> s, end |-> e,
                         quoted |-> SubSeq(v, s, e)]

OnP == Ref(p, V1, 1, 1, V1)
OnQ == Ref(q, V2, 1, 1, V2)

Evidence == {<<>>, <<OnP>>, <<OnP, OnQ>>, <<OnP, Ref(p, V1, 1, 2, V1), OnQ>>,
             <<Ref(p, V1, 2, 2, V1)>>,
             <<Ref(p, V2, 1, 1, V2)>>,                         (* wrong digest *)
             <<[OnP EXCEPT !.quoted = <<{"word"}>>]>>,         (* wrong quote  *)
             <<OnP, Ref(unread, V1, 1, 1, V1)>>}

Literal(k, src, t) == [kind |-> k, source |-> src, text |-> t]
Differ(l, r) == [kind |-> "differ", source |-> p, other |-> q, text |-> "run",
                 targets |-> l, otherTargets |-> r]
None  == [kind |-> "none"]
Prose == [kind |-> "prose"]

Typed == {Literal("contains", p, "word"), Literal("lacks", p, "word"),
          Literal("lacks", p, "other"),
          Differ(<<"a/">>, <<"b/">>), Differ(<<"a/">>, <<"a/">>),
          Differ(<<"a/", "a/">>, <<"b/">>)}

SentenceOver(c, e) == IF c.kind \in Literals THEN [kind |-> c.kind, source |-> c.source,
                          text |-> c.text, start |-> 1, end |-> e] ELSE c

Finding(c, e, t, k) == [claim |-> c, scope |-> "scope", evidence |-> e, typed |-> t,
                        condition |-> k]

(* A typed claim with its sentence or another one, or free text with a test *)
(* of the producer's own or none.                                           *)
MCFindings ==
    {Finding(SentenceOver(t, 2), e, t, None) : t \in Typed, e \in Evidence}
    \cup {Finding(SentenceOver(t, 1), <<OnP>>, t, None) : t \in Typed}
    \cup {Finding(Prose, <<OnP, OnQ>>, t, None) : t \in Typed}
    \cup {Finding(c, <<OnP>>, None, k) :
             c \in {Prose, SentenceOver(Literal("contains", p, "word"), 2)},
             k \in {None, Literal("present", p, "word"), Literal("absent", p, "word"),
                    Literal("present", q, "word")}}

(* What may stand beside another finding: its like, soundly cited or not.   *)
Companions == {f \in MCFindings :
                 f.evidence \in {<<>>, <<OnP, OnQ>>} \/ (f.typed = None /\ f.claim # Prose)}

Reply(fs, l, a) == [block |-> "present", findings |-> fs, loose |-> l, heading |-> FALSE,
                    asked |-> FALSE, settles |-> a]
NoBlock(b, h, a) == [block |-> b, findings |-> <<>>, loose |-> 0, heading |-> h, asked |-> a,
                     settles |-> TRUE]

MCOutputs ==
    {Reply(<<f, g>>, 0, TRUE) : f \in MCFindings, g \in Companions}
    \cup {Reply(<<f>>, l, a) : f \in MCFindings, l \in 0 .. 1, a \in BOOLEAN}
    \cup {NoBlock(b, h, a) : b \in {"absent", "malformed", "present"}, h, a \in BOOLEAN}
=============================================================================
