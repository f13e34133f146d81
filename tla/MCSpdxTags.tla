----------------------------- MODULE MCSpdxTags -----------------------------
(* Texts of up to three tags, one after the other, with expressions of up  *)
(* to five positions, on lines of their own or on one; four positions may  *)
(* be read.  Two tags meet up to two rule matches, or a clue, between all  *)
(* the places that matter, three tags one match.                           *)
EXTENDS SpdxTags

Segments ==
    [length : {0, 2, 5}, blank : BOOLEAN, break : BOOLEAN,
     states : {"mit", None}]

(* A blank before the expression only matters to a readable one.           *)
Usual == {s \in Segments : s.blank => s.length = 2 /\ s.states = "mit"}
Few == {s \in Usual : ~s.blank /\ (s.length = 0 => s.states = None)}

(* A tag takes two positions, the end of a line one; one comes before.     *)
Laid(segments) ==
    LET at[k \in 1..(Len(segments) + 1)] ==
            IF k = 1 THEN 1
            ELSE at[k - 1] + 2 + segments[k - 1].length
                   + IF segments[k - 1].break THEN 1 ELSE 0
        Colon(k) == at[k] + 2
    IN  [length |-> at[Len(segments) + 1],
         tags   |-> [k \in DOMAIN segments |->
                       [anchor |-> at[k], colon |-> Colon(k),
                        states |-> segments[k].states]],
         breaks |-> {Colon(k) + segments[k].length :
                       k \in {j \in DOMAIN segments : segments[j].break}},
         blanks |-> {Colon(k) : k \in {j \in DOMAIN segments : segments[j].blank}}]

(* A line with a tag in its expression does not parse.                     *)
Sensible(x) ==
    \A j, k \in DOMAIN x.tags :
        /\ x.tags[j].anchor < x.tags[k].anchor
        /\ x.tags[k].anchor < x.tags[j].colon + MaxBytes
        /\ ~\E b \in x.breaks : x.tags[j].colon <= b /\ b < x.tags[k].anchor
        /\ \/ x.length <= x.tags[j].colon + MaxBytes
           \/ \E b \in x.breaks : x.tags[k].anchor < b /\ b <= x.tags[j].colon + MaxBytes
        => x.tags[j].states = None

Bare(segments) == {x \in {Laid(s) : s \in segments} : Sensible(x)}

Points(x) ==
    {0, x.length} \cup x.breaks
        \cup {p \in UNION {{x.tags[k].anchor, x.tags[k].colon, x.tags[k].colon + 1} :
                               k \in DOMAIN x.tags} : p <= x.length}

Spans(x) == {s \in [start : Points(x), end : Points(x)] : s.start < s.end}

Stating(s) == [start |-> s.start, end |-> s.end, expression |-> "mit"]

MCTexts == Bare([1..2 -> Usual]) \cup Bare([1..3 -> Few])

Matched(matches, others) ==
    [detected |-> {Stating(s) : s \in matches}, clues |-> others]

MCFound(x) ==
    {Matched({}, {})} \cup {Matched({a}, {}) : a \in Spans(x)}
        \cup (IF Len(x.tags) = 2
              THEN {Matched({a, b}, {}) : a, b \in Spans(x)}
                     \cup {Matched({}, {a}) : a \in Spans(x)}
              ELSE {})
=============================================================================
