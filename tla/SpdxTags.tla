------------------------------ MODULE SpdxTags ------------------------------
(***************************************************************************)
(* matchSPDXTags (spdx.go): the SPDX-License-Identifier tags of a text are *)
(* read one after the other and reconciled with what the rules matched.  A *)
(* tag whose expression is whole becomes a declaration, and a match of its *)
(* own unless a rule match covers the expression; an uncovered tag whose   *)
(* line is too long to be read in full is cut off, and becomes a clue.     *)
(* Then the rule matches that only state a part of a declaration go, and   *)
(* so do those that start within a cut-off tag.                            *)
(*                                                                         *)
(* A text is the positions that matter: where its tags begin and their     *)
(* colons end, where lines (or the comments around tags) end, where blanks *)
(* are.  Reading the expression of a tag always reads the same bytes, so   *)
(* what they normalize to is data: an expression, or None if they do not   *)
(* parse or name an unknown license.                                       *)
(***************************************************************************)
EXTENDS Integers, FiniteSets, Sequences, FiniteSetsExt

CONSTANTS
    Texts,        \* the texts that may be looked at
    Found(_),     \* what the rules may have found in a text
    MaxBytes,     \* maxSPDXExpressionBytes
    Expressions,  \* what tags and rules may state
    None

Span == {s \in [start : Nat, end : Nat] : s.start < s.end}
Statement == {m \in [start : Nat, end : Nat, expression : Expressions] :
                  m.start < m.end}

(* The k-th tag is tags[k]: its first byte, and the one after its colon.   *)
(* The spelling of a tag holds no end of line, and begins with no blank.   *)
IsText(x) ==
    /\ x.length \in Nat
    /\ x.tags \in Seq([anchor : Nat, colon : 1..x.length,
                       states : Expressions \cup {None}])
    /\ \A i, j \in DOMAIN x.tags : i < j => x.tags[i].colon <= x.tags[j].anchor
    /\ \A i \in DOMAIN x.tags : x.tags[i].anchor < x.tags[i].colon
    /\ x.breaks \subseteq 0..(x.length - 1) /\ x.blanks \subseteq 0..(x.length - 1)
    /\ \A i \in DOMAIN x.tags :
           /\ x.tags[i].anchor \notin x.blanks
           /\ x.breaks \cap x.tags[i].anchor..(x.tags[i].colon - 1) = {}

ASSUME TagsAssumption ==
    /\ MaxBytes \in Nat \ {0} /\ None \notin Expressions
    /\ \A x \in Texts :
           /\ IsText(x)
           /\ \A f \in Found(x) :
                  /\ f.detected \subseteq {m \in Statement : m.end <= x.length}
                  /\ f.clues \subseteq Span

VARIABLES
    text, found,   \* the input, and the result of the rules
    offset,        \* where the search for the next tag goes on
    coveredEnd,    \* how far the rule matches met so far reach
    declarations,  \* the tags read in full
    cutOff,        \* the spans of the tags that were cut off
    pending,       \* the matches of uncovered declarations
    detected, clues, changed,  \* the result, and what is returned
    pc

read == <<declarations, cutOff, pending>>
outcome == <<detected, clues, changed>>
vars == <<text, found, offset, coveredEnd, read, outcome, pc>>

-----------------------------------------------------------------------------
Largest(a, b) == IF a > b THEN a ELSE b
Smallest(a, b) == IF a < b THEN a ELSE b

(* The first tag at or after a position; length if there is none.          *)
NextTag(from) ==
    LET anchors == {text.tags[k].anchor : k \in DOMAIN text.tags}
    IN  Min({a \in anchors : a >= from} \cup {text.length})

LineEnd(from) == Min({p \in text.breaks : p >= from} \cup {text.length})

(* spdxExpressionSpan: the marker of the end may be just beyond the limit. *)
Complete(tag) == LineEnd(tag.colon) <= tag.colon + MaxBytes

(* Mutant of RawEnd: what is too long is read to the end of its line.      *)
WholeLine(tag) == LineEnd(tag.colon)

(* What is too long is read to the next tag instead, for its coverage.     *)
RawEnd(tag) ==
    IF Complete(tag) THEN LineEnd(tag.colon)
    ELSE Smallest(LineEnd(tag.colon), NextTag(tag.colon))

(* Blanks around the expression are trimmed.                               *)
Start(tag) ==
    LET inner == {p \in tag.colon..(RawEnd(tag) - 1) : p \notin text.blanks}
    IN  IF inner = {} THEN RawEnd(tag) ELSE Min(inner)

End(tag) ==
    LET inner == {p \in tag.colon..(RawEnd(tag) - 1) : p \notin text.blanks}
    IN  IF inner = {} THEN RawEnd(tag) ELSE Max(inner) + 1

(* spdxMatchSpans holds what the rules detected, not their clues; only the *)
(* matches that start no later than the expression can cover it.           *)
Reach(start) ==
    Max({coveredEnd} \cup {m.end : m \in {d \in found.detected : d.start <= start}})

-----------------------------------------------------------------------------
Init ==
    /\ text \in Texts /\ found \in Found(text)
    /\ offset = 0 /\ coveredEnd = 0
    /\ declarations = {} /\ cutOff = {} /\ pending = {}
    /\ detected = found.detected /\ clues = found.clues /\ changed = FALSE
    /\ pc = "tags"

AtTag(tag) == pc = "tags" /\ tag.anchor = NextTag(offset)

PassTag(tag) ==
    /\ offset' = Largest(End(tag), tag.colon)
    /\ UNCHANGED <<text, found, outcome, pc>>

Declaration(tag, covered) ==
    [anchor |-> tag.anchor, start |-> Start(tag), end |-> End(tag),
     covered |-> covered, expression |-> tag.states]

EmptyTag(tag) ==
    /\ AtTag(tag) /\ Start(tag) >= End(tag)
    /\ PassTag(tag)
    /\ UNCHANGED <<coveredEnd, read>>

(* Every other tag first moves the reach of the rule matches on.           *)
ReadTag(tag) ==
    /\ AtTag(tag) /\ Start(tag) < End(tag)
    /\ coveredEnd' = Reach(Start(tag))
    /\ PassTag(tag)

Covers(tag) == coveredEnd' >= End(tag)

CutOffTag(tag) ==
    /\ ReadTag(tag) /\ ~Complete(tag) /\ ~Covers(tag)
    /\ cutOff' = cutOff \cup {[start |-> tag.anchor, end |-> End(tag)]}
    /\ UNCHANGED <<declarations, pending>>

UnreadableTag(tag) ==
    /\ ReadTag(tag) /\ (Complete(tag) \/ Covers(tag)) /\ tag.states = None
    /\ UNCHANGED read

CoveredTag(tag) ==
    /\ ReadTag(tag) /\ Covers(tag) /\ tag.states # None
    /\ declarations' = declarations \cup {Declaration(tag, TRUE)}
    /\ UNCHANGED <<cutOff, pending>>

UncoveredTag(tag) ==
    /\ ReadTag(tag) /\ Complete(tag) /\ ~Covers(tag) /\ tag.states # None
    /\ declarations' = declarations \cup {Declaration(tag, FALSE)}
    /\ pending' = pending \cup {[start |-> tag.anchor, end |-> End(tag),
                                 expression |-> tag.states]}
    /\ UNCHANGED cutOff

(* spanContains: of the sorted spans, the first that ends after the offset *)
InCutOff(position) ==
    LET later == {s \in cutOff : s.end > position}
    IN  later # {} /\ position >= (CHOOSE s \in later :
                                      \A t \in later : s.end <= t.end).start

(* Mutant of Superseded: covered declarations are treated as uncovered.    *)
SupersededWhole(m) ==
    \/ InCutOff(m.start)
    \/ \E d \in declarations : m.start >= d.anchor /\ m.end <= d.end

(* Mutant of Superseded: the first declaration that ends after the match.  *)
SupersededInside(m) ==
    \/ InCutOff(m.start)
    \/ LET later == {d \in declarations : d.end > m.end}
           d == CHOOSE d \in later : \A e \in later : d.end <= e.end
       IN  /\ later # {}
           /\ m.start >= d.anchor
           /\ ~d.covered \/ m.start > d.start \/ m.end < d.end

(* supersededBySPDX: of the declarations, the first that does not end      *)
(* before the match does.                                                  *)
Superseded(m) ==
    \/ InCutOff(m.start)
    \/ LET later == {d \in declarations : d.end >= m.end}
           d == CHOOSE d \in later : \A e \in later : d.end <= e.end
       IN  /\ later # {}
           /\ m.start >= d.anchor
           /\ ~d.covered \/ m.start > d.start \/ m.end < d.end

(* After the last tag.  Without any tag nothing is touched, which is what  *)
(* the same assignments do then.                                           *)
Reconcile ==
    /\ pc = "tags" /\ NextTag(offset) = text.length
    /\ detected' = {m \in detected : ~Superseded(m)} \cup pending
    /\ clues' = {c \in clues : ~Superseded(c)} \cup cutOff
    /\ changed' = (\/ \E m \in detected \cup clues : Superseded(m)
                   \/ cutOff # {} \/ pending # {})
    /\ pc' = "done"
    /\ UNCHANGED <<text, found, offset, coveredEnd, read>>

Done == pc = "done" /\ UNCHANGED vars

Next ==
    \/ \E k \in DOMAIN text.tags :
           LET tag == text.tags[k]
           IN  \/ EmptyTag(tag) \/ CutOffTag(tag) \/ UnreadableTag(tag)
               \/ CoveredTag(tag) \/ UncoveredTag(tag)
    \/ Reconcile \/ Done

Spec == Init /\ [][Next]_vars

-----------------------------------------------------------------------------
(* A tag within the expression of an earlier one, on the same line.        *)
Hidden(k) ==
    \E j \in DOMAIN text.tags :
        /\ text.tags[j].anchor < text.tags[k].anchor
        /\ Complete(text.tags[j])
        /\ text.tags[k].anchor < LineEnd(text.tags[j].colon)

CoveredBy(m, d) == m.start <= d.start /\ d.end <= m.end

(* Every tag gets read that is not part of the expression of another one,  *)
(* however long the lines before it are, and becomes a declaration exactly *)
(* when it states a known expression and is either whole or covered, in    *)
(* full, by one rule match.  The reach of the matches is carried from tag  *)
(* to tag, and a tag cut off by the limit must not swallow the next one.   *)
DeclarationsExact ==
    pc = "done" =>
        LET Whole(tag) ==
                \/ Complete(tag)
                \/ \E m \in found.detected :
                      m.start <= Start(tag) /\ End(tag) <= m.end
            Stated == {k \in DOMAIN text.tags :
                          /\ ~Hidden(k) /\ text.tags[k].states # None
                          /\ Start(text.tags[k]) < End(text.tags[k])
                          /\ Whole(text.tags[k])}
        IN  {d.anchor : d \in declarations} = {text.tags[k].anchor : k \in Stated}

(* A declaration is stated by a match of the result that spans it: its own *)
(* or a rule match that made it covered.  The exception is a rule match    *)
(* that starts within an earlier tag that was cut off.                     *)
DeclarationsStated ==
    pc = "done" =>
        \A d \in declarations :
            \/ \E m \in detected : CoveredBy(m, d)
            \/ \E m \in found.detected : CoveredBy(m, d) /\ InCutOff(m.start)

(* spdx.go, of the spans of the matches: "Earlier declarations cannot      *)
(* remove a match extending over a later expression."  So every complete   *)
(* declaration is stated by a match of the result that spans it.           *)
DeclarationsPreserved ==
    pc = "done" =>
        \A d \in declarations : \E m \in detected : CoveredBy(m, d)

(* What the rules make of a part of a declared expression is gone: a match *)
(* or clue left within a declaration spans its whole expression, and then  *)
(* it is the match the declaration relies on.                              *)
NoComponentLeft ==
    pc = "done" =>
        \A d \in declarations : \A m \in (detected \cup clues) \ cutOff :
            m.start >= d.anchor /\ m.end <= d.end =>
                CoveredBy(m, d) /\ (d.covered \/ m \in pending)
=============================================================================
