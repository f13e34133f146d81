------------------------- MODULE MCExactMatchFilter -------------------------
(* Up to three matches over ten spans and three rules, three over fifteen  *)
(* spans and two rules, and four of one rule over the fifteen, listed as   *)
(* collectAhoMatches lists them, by their ends.                            *)
(* Rules 1 and 2 state different expressions, rule 3 is a false positive.  *)
EXTENDS ExactMatchFilter

CONSTANTS Points, MorePoints

MCExpression == <<"mit", "apache", "none">>

Spans(points, rules) ==
    {m \in [rule : rules, start : points, end : points] : m.start < m.end}

Collected(a, b) ==
    \/ a.end < b.end
    \/ a.end = b.end /\ a.start < b.start
    \/ a.end = b.end /\ a.start = b.start /\ a.rule < b.rule

Lists(k, points, rules) ==
    {s \in [1..k -> Spans(points, rules)] :
        \A i \in 1..(k - 1) : Collected(s[i], s[i + 1])}

MCCandidates ==
    UNION {Lists(k, Points, {1, 2, 3}) : k \in 0..3}
        \cup Lists(3, MorePoints, {1, 2}) \cup Lists(4, MorePoints, {1})
=============================================================================
