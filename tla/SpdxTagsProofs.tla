--------------------------- MODULE SpdxTagsProofs ---------------------------
(***************************************************************************)
(* What becomes of the SPDX tags of any text, whatever the rules found.    *)
(***************************************************************************)
EXTENDS SpdxTags, TLAPS, FiniteSetTheorems

Tags == DOMAIN text.tags

Declarations ==
    [anchor : Nat, start : Nat, end : Nat, covered : BOOLEAN, expression : Expressions]

Shape ==
    /\ IsText(text) /\ pc \in {"tags", "done"}
    /\ found.detected \subseteq {m \in Statement : m.end <= text.length}
    /\ found.clues \subseteq Span
    /\ offset \in Nat /\ coveredEnd \in Nat
    /\ declarations \subseteq Declarations
    /\ \A d \in declarations : d.anchor < d.start /\ d.start < d.end /\ d.end <= offset

(* No two declarations share a position of the text.                       *)
Apart ==
    \A d, e \in declarations : d = e \/ d.end <= e.anchor \/ e.end <= d.anchor

(* Some match that has been met reaches as far as coveredEnd.              *)
ReachOfMatch ==
    coveredEnd = 0 \/ \E m \in found.detected : m.end = coveredEnd /\ m.start <= offset

Backed ==
    \A d \in declarations :
        IF d.covered THEN \E m \in found.detected : CoveredBy(m, d)
        ELSE \E m \in pending : m.start = d.anchor /\ m.end = d.end

PendingDeclared ==
    \A m \in pending : \E d \in declarations :
        ~d.covered /\ m.start = d.anchor /\ m.end = d.end

(* What is to be declared, and what has been looked at.                    *)
Whole(tag) ==
    \/ Complete(tag)
    \/ \E m \in found.detected : m.start <= Start(tag) /\ End(tag) <= m.end

Stated(k) ==
    /\ ~Hidden(k) /\ text.tags[k].states # None
    /\ Start(text.tags[k]) < End(text.tags[k]) /\ Whole(text.tags[k])

Declared(k) == \E d \in declarations : d.anchor = text.tags[k].anchor

Behind(k) == text.tags[k].anchor < offset

LookedAt ==
    /\ \A k \in Tags : Behind(k) => (Declared(k) <=> Stated(k))
    /\ \A d \in declarations : \E k \in Tags : Behind(k) /\ d.anchor = text.tags[k].anchor
    /\ \A j, k \in Tags :
           /\ Behind(j) /\ Complete(text.tags[j])
           /\ text.tags[j].anchor < text.tags[k].anchor
           /\ text.tags[k].anchor < LineEnd(text.tags[j].colon)
           => Behind(k)

Unreconciled ==
    pc = "tags" => detected = found.detected /\ clues = found.clues

IInv ==
    /\ Shape /\ Apart /\ ReachOfMatch /\ Backed /\ PendingDeclared /\ LookedAt
    /\ Unreconciled
    /\ DeclarationsExact /\ DeclarationsStated /\ NoComponentLeft

-----------------------------------------------------------------------------
(* Least and greatest elements.                                            *)
LEMMA LeastElement ==
    ASSUME NEW T \in SUBSET Nat, T # {}
    PROVE  \E x \in T : \A y \in T : x <= y
<1> DEFINE R == {ss \in Nat \X Nat : ss[1] < ss[2]}
<1>1. IsWellFoundedOn(R, Nat)
  <2>1. IsWellFoundedOn(OpToRel(<, Nat), Nat)
    BY NatLessThanWellFounded
  <2>2. R = OpToRel(<, Nat)
    BY DEF OpToRel
  <2> QED BY <2>1, <2>2
<1> HIDE DEF R
<1>2. PICK x \in T : \A y \in T : ~(<<y, x>> \in R)
  BY <1>1, WFMin
<1>3. ASSUME NEW y \in T PROVE x <= y
  <2>1. ~(<<y, x>> \in R) /\ y \in Nat /\ x \in Nat
    BY <1>2
  <2>2. ~(y < x)
    BY <2>1 DEF R
  <2> QED BY <2>1, <2>2
<1> QED BY <1>3

LEMMA MinOK ==
    ASSUME NEW T \in SUBSET Nat, T # {}
    PROVE  Min(T) \in T /\ \A y \in T : Min(T) <= y
BY LeastElement DEF Min

LEMMA MaxOK ==
    ASSUME NEW T \in SUBSET Nat, T # {}, NEW bound \in Nat, \A y \in T : y <= bound
    PROVE  Max(T) \in T /\ \A y \in T : y <= Max(T)
<1> DEFINE gaps == {bound - y : y \in T}
<1>1. gaps \in SUBSET Nat /\ gaps # {}
  OBVIOUS
<1>2. PICK gap \in gaps : \A g \in gaps : gap <= g
  BY <1>1, LeastElement
<1>3. PICK x \in T : gap = bound - x
  BY <1>2
<1>4. ASSUME NEW y \in T PROVE x >= y
  <2>1. bound - x <= bound - y /\ x \in Nat /\ y \in Nat
    BY <1>2, <1>3
  <2> QED BY <2>1
<1> HIDE DEF gaps
<1>5. \E z \in T : \A y \in T : z >= y
  BY <1>4
<1>6. Max(T) \in T /\ \A y \in T : Max(T) >= y
  BY <1>5 DEF Max
<1> QED BY <1>6

-----------------------------------------------------------------------------
(* Where the parts of a text are.                                          *)
LEMMA TagOK ==
    ASSUME IsText(text), NEW k \in Tags
    PROVE  /\ text.length \in Nat
           /\ text.tags[k].anchor \in Nat /\ text.tags[k].colon \in Nat
           /\ text.tags[k].anchor < text.tags[k].colon
           /\ text.tags[k].colon <= text.length
           /\ text.tags[k].states \in Expressions \cup {None}
           /\ text.tags[k].anchor \notin text.blanks
<1> DEFINE TagRecords == [anchor : Nat, colon : 1..text.length,
                          states : Expressions \cup {None}]
<1>1. /\ text.length \in Nat /\ text.tags \in Seq(TagRecords)
      /\ text.tags[k].anchor < text.tags[k].colon
      /\ text.tags[k].anchor \notin text.blanks
  BY DEF IsText, Tags
<1> HIDE DEF TagRecords
<1>2. text.tags[k] \in TagRecords
  BY <1>1 DEF Tags
<1> QED BY <1>1, <1>2 DEF TagRecords

LEMMA TagsOrdered ==
    ASSUME IsText(text), NEW j \in Tags, NEW k \in Tags
    PROVE  /\ j < k => text.tags[j].colon <= text.tags[k].anchor
           /\ j = k \/ j < k \/ k < j
           /\ text.tags[j].anchor < text.tags[k].anchor =>
                 text.tags[j].colon <= text.tags[k].anchor
           /\ text.tags[j].anchor = text.tags[k].anchor => j = k
<1>1. j \in Int /\ k \in Int
  BY DEF IsText, Tags
<1>2. /\ j < k => text.tags[j].colon <= text.tags[k].anchor
      /\ k < j => text.tags[k].colon <= text.tags[j].anchor
  BY DEF IsText, Tags
<1>3. /\ text.tags[j].anchor \in Nat /\ text.tags[j].colon \in Nat
      /\ text.tags[j].anchor < text.tags[j].colon
      /\ text.tags[k].anchor \in Nat /\ text.tags[k].colon \in Nat
      /\ text.tags[k].anchor < text.tags[k].colon
  BY TagOK
<1> QED BY <1>1, <1>2, <1>3

LEMMA LineEndOK ==
    ASSUME IsText(text), NEW from \in Nat, from <= text.length
    PROVE  /\ LineEnd(from) \in Nat /\ from <= LineEnd(from) /\ LineEnd(from) <= text.length
           /\ LineEnd(from) \in text.breaks \/ LineEnd(from) = text.length
           /\ \A p \in text.breaks : from <= p => LineEnd(from) <= p
<1> DEFINE T == {p \in text.breaks : p >= from} \cup {text.length}
<1>1. text.length \in Nat /\ text.breaks \subseteq 0..(text.length - 1)
  BY DEF IsText
<1>2. T \in SUBSET Nat /\ T # {} /\ text.length \in T
  BY <1>1
<1>3. LineEnd(from) = Min(T)
  BY DEF LineEnd
<1>4. Min(T) \in T /\ \A y \in T : Min(T) <= y
  BY <1>2, MinOK
<1> QED BY <1>1, <1>2, <1>3, <1>4

LEMMA NextTagOK ==
    ASSUME IsText(text), NEW from \in Nat
    PROVE  /\ NextTag(from) \in Nat
           /\ \/ NextTag(from) = text.length
              \/ from <= NextTag(from)
           /\ \A k \in Tags : from <= text.tags[k].anchor => NextTag(from) <= text.tags[k].anchor
<1> DEFINE anchors == {text.tags[k].anchor : k \in DOMAIN text.tags}
           T == {a \in anchors : a >= from} \cup {text.length}
<1>1. text.length \in Nat /\ anchors \subseteq Nat
  <2>1. \A k \in DOMAIN text.tags : text.tags[k].anchor \in Nat
    BY TagOK DEF Tags
  <2> QED BY <2>1 DEF IsText
<1>2. T \in SUBSET Nat /\ T # {}
  BY <1>1
<1>3. NextTag(from) = Min(T)
  BY DEF NextTag
<1>4. Min(T) \in T /\ \A y \in T : Min(T) <= y
  BY <1>2, MinOK
<1>5. \A k \in Tags : from <= text.tags[k].anchor => text.tags[k].anchor \in T
  BY <1>1 DEF Tags
<1> HIDE DEF anchors
<1> QED BY <1>1, <1>2, <1>3, <1>4, <1>5

LEMMA RawEndOK ==
    ASSUME IsText(text), NEW k \in Tags
    PROVE  LET tag == text.tags[k]
           IN  /\ RawEnd(tag) \in Nat /\ tag.colon <= RawEnd(tag)
               /\ RawEnd(tag) <= LineEnd(tag.colon)
               /\ Complete(tag) => RawEnd(tag) = LineEnd(tag.colon)
               /\ ~Complete(tag) => RawEnd(tag) <= NextTag(tag.colon)
<1> DEFINE tag == text.tags[k]
<1>1. tag.colon \in Nat /\ tag.colon <= text.length /\ text.length \in Nat
  BY TagOK
<1> HIDE DEF tag
<1>2. LineEnd(tag.colon) \in Nat /\ tag.colon <= LineEnd(tag.colon)
  BY <1>1, LineEndOK
<1>3. /\ NextTag(tag.colon) \in Nat
      /\ NextTag(tag.colon) = text.length \/ tag.colon <= NextTag(tag.colon)
  BY <1>1, NextTagOK
<1>4. Smallest(LineEnd(tag.colon), NextTag(tag.colon)) \in
          {LineEnd(tag.colon), NextTag(tag.colon)}
      /\ Smallest(LineEnd(tag.colon), NextTag(tag.colon)) <= LineEnd(tag.colon)
      /\ Smallest(LineEnd(tag.colon), NextTag(tag.colon)) <= NextTag(tag.colon)
  BY <1>2, <1>3 DEF Smallest
<1>5. CASE Complete(tag)
  BY <1>2, <1>5 DEF RawEnd, tag
<1>6. CASE ~Complete(tag)
  BY <1>1, <1>2, <1>3, <1>4, <1>6 DEF RawEnd, tag
<1> QED BY <1>5, <1>6

(* The trimmed expression of a tag.                                        *)
LEMMA SpanOK ==
    ASSUME IsText(text), NEW k \in Tags
    PROVE  LET tag == text.tags[k]
           IN  /\ Start(tag) \in Nat /\ End(tag) \in Nat
               /\ tag.colon <= Start(tag) /\ Start(tag) <= End(tag)
               /\ End(tag) <= RawEnd(tag)
               /\ \A p \in tag.colon..(RawEnd(tag) - 1) : p \notin text.blanks => p < End(tag)
<1> DEFINE tag == text.tags[k]
           inner == {p \in tag.colon..(RawEnd(tag) - 1) : p \notin text.blanks}
<1>1. tag.colon \in Nat /\ RawEnd(tag) \in Nat /\ tag.colon <= RawEnd(tag)
  BY TagOK, RawEndOK
<1>2. /\ Start(tag) = (IF inner = {} THEN RawEnd(tag) ELSE Min(inner))
      /\ End(tag) = (IF inner = {} THEN RawEnd(tag) ELSE Max(inner) + 1)
  BY DEF Start, End
<1>3. /\ inner \in SUBSET Nat
      /\ \A p \in inner : p \in Nat /\ tag.colon <= p /\ p <= RawEnd(tag) /\ p + 1 <= RawEnd(tag)
      /\ \A p \in tag.colon..(RawEnd(tag) - 1) : p \notin text.blanks => p \in inner
  BY <1>1
<1> HIDE DEF inner, tag
<1>4. CASE inner = {}
  BY <1>1, <1>2, <1>3, <1>4 DEF tag
<1>5. CASE inner # {}
  <2>1. Min(inner) \in inner /\ \A y \in inner : Min(inner) <= y
    BY <1>3, <1>5, MinOK
  <2>2. Max(inner) \in inner /\ \A y \in inner : y <= Max(inner)
    BY <1>1, <1>3, <1>5, MaxOK
  <2>3. Min(inner) \in Nat /\ Max(inner) \in Nat /\ Min(inner) <= Max(inner)
    BY <1>3, <2>1, <2>2
  <2>4. Start(tag) = Min(inner) /\ End(tag) = Max(inner) + 1
    BY <1>2, <1>5
  <2>5. /\ Start(tag) \in Nat /\ End(tag) \in Nat
        /\ tag.colon <= Start(tag) /\ Start(tag) <= End(tag) /\ End(tag) <= RawEnd(tag)
    BY <1>1, <1>3, <2>1, <2>2, <2>3, <2>4
  <2>6. \A p \in inner : p < End(tag)
    BY <1>3, <2>2, <2>3, <2>4
  <2> QED BY <1>3, <2>5, <2>6 DEF tag
<1> QED BY <1>4, <1>5

-----------------------------------------------------------------------------
(* The search for the next tag.                                            *)
LEMMA AtTagOK ==
    ASSUME IsText(text), offset \in Nat, NEW k \in Tags, AtTag(text.tags[k])
    PROVE  /\ offset <= text.tags[k].anchor
           /\ \A j \in Tags : text.tags[j].anchor < text.tags[k].anchor => Behind(j)
<1>1. text.tags[k].anchor = NextTag(offset) /\ text.tags[k].anchor < text.length
  BY TagOK DEF AtTag
<1>2. offset <= text.tags[k].anchor
  BY <1>1, NextTagOK, TagOK
<1>3. ASSUME NEW j \in Tags, text.tags[j].anchor < text.tags[k].anchor
      PROVE  Behind(j)
  <2>1. text.tags[j].anchor \in Nat /\ text.tags[k].anchor \in Nat
    BY TagOK
  <2>2. offset <= text.tags[j].anchor => NextTag(offset) <= text.tags[j].anchor
    BY NextTagOK
  <2> QED BY <1>1, <1>3, <2>1, <2>2 DEF Behind
<1> QED BY <1>2, <1>3

(* A tag that is passed over while another one is read is in its line.     *)
LEMMA PassedOver ==
    ASSUME IsText(text), offset \in Nat, NEW k \in Tags, AtTag(text.tags[k]),
           PassTag(text.tags[k]),
           NEW l \in Tags, l # k, ~Behind(l), text.tags[l].anchor < offset'
    PROVE  /\ text.tags[k].anchor < text.tags[l].anchor
           /\ text.tags[k].colon <= text.tags[l].anchor
           /\ Complete(text.tags[k])
           /\ text.tags[l].anchor < LineEnd(text.tags[k].colon)
<1> DEFINE tag == text.tags[k]
           other == text.tags[l].anchor
<1>1. /\ tag.anchor \in Nat /\ tag.colon \in Nat /\ tag.anchor < tag.colon /\ other \in Nat
      /\ tag.colon <= text.length /\ text.length \in Nat
  BY TagOK
<1>2. tag.anchor < other
  <2>1. ~(other < tag.anchor)
    BY AtTagOK
  <2>2. other # tag.anchor
    BY TagsOrdered
  <2> QED BY <1>1, <2>1, <2>2
<1>3. tag.colon <= other
  BY <1>2, TagsOrdered
<1>4. /\ End(tag) \in Nat /\ End(tag) <= RawEnd(tag) /\ RawEnd(tag) \in Nat
      /\ RawEnd(tag) <= LineEnd(tag.colon) /\ LineEnd(tag.colon) \in Nat
      /\ ~Complete(tag) => RawEnd(tag) <= NextTag(tag.colon)
  BY <1>1, SpanOK, RawEndOK, LineEndOK
<1>5. other < End(tag)
  BY <1>1, <1>3, <1>4 DEF PassTag, Largest
<1>6. Complete(tag)
  <2>1. NextTag(tag.colon) \in Nat /\ NextTag(tag.colon) <= other
    BY <1>1, <1>3, NextTagOK
  <2> QED BY <1>1, <1>4, <1>5, <2>1
<1> QED BY <1>1, <1>2, <1>3, <1>4, <1>5, <1>6

LEMMA SameLine ==
    ASSUME IsText(text), NEW j \in Tags, NEW l \in Tags,
           text.tags[j].anchor < text.tags[l].anchor,
           text.tags[l].anchor < LineEnd(text.tags[j].colon)
    PROVE  LineEnd(text.tags[l].colon) = LineEnd(text.tags[j].colon)
<1> DEFINE first == LineEnd(text.tags[j].colon)
           second == LineEnd(text.tags[l].colon)
<1>1. /\ text.tags[j].anchor \in Nat /\ text.tags[j].colon \in Nat
      /\ text.tags[l].anchor \in Nat /\ text.tags[l].colon \in Nat
      /\ text.tags[j].colon <= text.length /\ text.tags[l].colon <= text.length
      /\ text.tags[l].anchor < text.tags[l].colon /\ text.length \in Nat
  BY TagOK
<1>2. text.tags[j].colon <= text.tags[l].anchor
  BY TagsOrdered
<1>3. /\ first \in Nat /\ first <= text.length
      /\ first \in text.breaks \/ first = text.length
      /\ \A p \in text.breaks : text.tags[j].colon <= p => first <= p
  BY <1>1, LineEndOK
<1>4. /\ second \in Nat /\ second <= text.length /\ text.tags[l].colon <= second
      /\ second \in text.breaks \/ second = text.length
      /\ \A p \in text.breaks : text.tags[l].colon <= p => second <= p
  BY <1>1, LineEndOK
<1>5. text.breaks \cap text.tags[l].anchor..(text.tags[l].colon - 1) = {}
  BY DEF IsText, Tags
<1> HIDE DEF first, second
<1>6. text.tags[l].colon <= first
  <2>1. CASE first = text.length
    BY <1>1, <2>1
  <2>2. CASE first \in text.breaks
    <3>1. text.tags[l].anchor < first
      BY DEF first
    <3>2. first \notin text.tags[l].anchor..(text.tags[l].colon - 1)
      BY <1>5, <2>2
    <3> QED BY <1>1, <1>3, <3>1, <3>2
  <2> QED BY <1>3, <2>1, <2>2
<1>7. second <= first
  BY <1>3, <1>4, <1>6
<1>8. first <= second
  BY <1>1, <1>2, <1>3, <1>4
<1>9. first = second
  BY <1>3, <1>4, <1>7, <1>8
<1> QED BY <1>9 DEF first, second

(* A tag that is read is not within the expression of another one.         *)
LEMMA ReadNotHidden ==
    ASSUME IsText(text), offset \in Nat, LookedAt, NEW k \in Tags, AtTag(text.tags[k])
    PROVE  ~Hidden(k)
<1>1. offset <= text.tags[k].anchor /\ text.tags[k].anchor \in Nat
  BY AtTagOK, TagOK
<1>2. ~Behind(k)
  BY <1>1 DEF Behind
<1>3. ASSUME NEW j \in Tags, text.tags[j].anchor < text.tags[k].anchor,
             Complete(text.tags[j]), text.tags[k].anchor < LineEnd(text.tags[j].colon)
      PROVE  FALSE
  BY <1>2, <1>3, AtTagOK DEF LookedAt
<1> QED BY <1>3 DEF Hidden, Tags

LEMMA TextKept ==
    ASSUME UNCHANGED <<text, found>>
    PROVE  /\ Tags' = Tags
           /\ \A k \in Tags : Stated(k)' <=> Stated(k)
           /\ \A k \in Tags : Complete(text.tags[k])' <=> Complete(text.tags[k])
           /\ \A k \in Tags : LineEnd(text.tags[k].colon)' = LineEnd(text.tags[k].colon)
BY DEF Tags, Stated, Hidden, Whole, Complete, Start, End, RawEnd, LineEnd, NextTag

(* Tags that have been looked at, one more of them.                        *)
LEMMA LookedAtStep ==
    ASSUME IsText(text), offset \in Nat, LookedAt, NEW k \in Tags,
           AtTag(text.tags[k]), PassTag(text.tags[k]),
           \/ declarations' = declarations /\ ~Stated(k)
           \/ \E d : /\ d.anchor = text.tags[k].anchor /\ Stated(k)
                     /\ declarations' = declarations \cup {d}
    PROVE  LookedAt'
<1> DEFINE tag == text.tags[k]
<1>1. /\ tag.anchor \in Nat /\ tag.colon \in Nat /\ tag.anchor < tag.colon
      /\ End(tag) \in Nat /\ RawEnd(tag) \in Nat /\ offset <= tag.anchor
  BY TagOK, SpanOK, RawEndOK, AtTagOK
<1>2. /\ offset' \in Nat /\ tag.anchor < offset' /\ offset < offset'
      /\ End(tag) <= offset' /\ text' = text /\ found' = found
  BY <1>1 DEF PassTag, Largest
<1>3. /\ Tags' = Tags
      /\ \A j \in Tags : Stated(j)' <=> Stated(j)
      /\ \A j \in Tags : Complete(text.tags[j])' <=> Complete(text.tags[j])
      /\ \A j \in Tags : LineEnd(text.tags[j].colon)' = LineEnd(text.tags[j].colon)
  BY <1>2, TextKept
<1>4. \A j \in Tags : Behind(j) => Behind(j)'
  BY <1>1, <1>2, TagOK DEF Behind
<1>5. \A j \in Tags : j # k => (Declared(j)' <=> Declared(j))
  BY <1>2, TagsOrdered DEF Declared
<1>6. Declared(k)' <=> Stated(k)
  <2>1. ~Behind(k)
    BY <1>1 DEF Behind
  <2>2. ~Declared(k)
    <3> SUFFICES ASSUME NEW d \in declarations, d.anchor = tag.anchor PROVE FALSE
      BY DEF Declared
    <3>1. PICK j \in Tags : Behind(j) /\ d.anchor = text.tags[j].anchor
      BY DEF LookedAt
    <3> QED BY <2>1, <3>1 DEF Behind
  <2> QED BY <1>2, <2>2 DEF Declared
<1>7. ASSUME NEW j \in Tags, Behind(j)'
      PROVE  Declared(j)' <=> Stated(j)'
  <2>1. CASE j = k
    BY <1>3, <1>6, <2>1
  <2>2. CASE j # k /\ Behind(j)
    BY <1>3, <1>5, <2>2 DEF LookedAt
  <2>3. CASE j # k /\ ~Behind(j)
    <3>1. text.tags[j].anchor < offset'
      BY <1>2, <1>7 DEF Behind
    <3>2. Hidden(j)
      BY <2>3, <3>1, PassedOver DEF Hidden, Tags
    <3>3. ~Declared(j)
      <4> SUFFICES ASSUME NEW d \in declarations, d.anchor = text.tags[j].anchor PROVE FALSE
        BY DEF Declared
      <4>1. PICK i \in Tags : Behind(i) /\ d.anchor = text.tags[i].anchor
        BY DEF LookedAt
      <4> QED BY <2>3, <4>1 DEF Behind
    <3> QED BY <1>3, <1>5, <2>3, <3>2, <3>3 DEF Stated
  <2> QED BY <2>1, <2>2, <2>3
<1>8. ASSUME NEW d \in declarations'
      PROVE  \E j \in Tags : Behind(j)' /\ d.anchor = text.tags[j].anchor
  <2>1. Behind(k)'
    BY <1>2 DEF Behind
  <2>2. d \in declarations \/ d.anchor = tag.anchor
    OBVIOUS
  <2> QED BY <1>4, <2>1, <2>2 DEF LookedAt
<1>9. ASSUME NEW j \in Tags, NEW l \in Tags, Behind(j)', Complete(text.tags[j]),
             text.tags[j].anchor < text.tags[l].anchor,
             text.tags[l].anchor < LineEnd(text.tags[j].colon)
      PROVE  Behind(l)'
  <2>1. CASE Behind(j)
    BY <1>4, <1>9, <2>1 DEF LookedAt
  <2>2. CASE ~Behind(j)
    <3>1. /\ Complete(tag) /\ tag.anchor < text.tags[l].anchor
          /\ text.tags[l].anchor < LineEnd(tag.colon)
      <4>1. CASE j = k
        BY <1>9, <4>1
      <4>2. CASE j # k
        <5>1. text.tags[j].anchor < offset'
          BY <1>2, <1>9 DEF Behind
        <5>2. /\ Complete(tag) /\ tag.anchor < text.tags[j].anchor
              /\ text.tags[j].anchor < LineEnd(tag.colon)
          BY <2>2, <4>2, <5>1, PassedOver
        <5>3. LineEnd(text.tags[j].colon) = LineEnd(tag.colon)
          BY <5>2, SameLine
        <5>4. text.tags[j].anchor \in Nat /\ text.tags[l].anchor \in Nat
          BY TagOK
        <5> QED BY <1>1, <1>9, <5>2, <5>3, <5>4
      <4> QED BY <4>1, <4>2
    <3>2. RawEnd(tag) = LineEnd(tag.colon)
      BY <3>1, RawEndOK
    <3>3. /\ text.tags[l].anchor \in Nat /\ text.tags[l].anchor \notin text.blanks
          /\ tag.colon <= text.tags[l].anchor
      BY <3>1, TagOK, TagsOrdered
    <3>4. text.tags[l].anchor \in tag.colon..(RawEnd(tag) - 1)
      BY <1>1, <3>1, <3>2, <3>3
    <3>5. text.tags[l].anchor < End(tag)
      BY <3>3, <3>4, SpanOK
    <3> QED BY <1>1, <1>2, <3>3, <3>5 DEF Behind
  <2> QED BY <2>1, <2>2
<1> QED BY <1>2, <1>3, <1>7, <1>8, <1>9 DEF LookedAt

-----------------------------------------------------------------------------
(* The reach of the matches, carried from tag to tag, tells of each tag    *)
(* whether a single match covers its expression.                           *)
LEMMA ReachStep ==
    ASSUME IInv, NEW k \in Tags, ReadTag(text.tags[k])
    PROVE  /\ coveredEnd' \in Nat /\ ReachOfMatch'
           /\ Covers(text.tags[k]) <=>
                 \E m \in found.detected :
                    m.start <= Start(text.tags[k]) /\ End(text.tags[k]) <= m.end
<1> DEFINE tag == text.tags[k]
           T == {coveredEnd} \cup
                   {m.end : m \in {d \in found.detected : d.start <= Start(tag)}}
           bound == text.length + coveredEnd
<1>1. /\ IsText(text) /\ offset \in Nat /\ coveredEnd \in Nat /\ ReachOfMatch
      /\ \A m \in found.detected :
            m.start \in Nat /\ m.end \in Nat /\ m.start < m.end /\ m.end <= text.length
  BY DEF IInv, Shape, Statement
<1>2. /\ tag.anchor \in Nat /\ tag.colon \in Nat /\ tag.anchor < tag.colon
      /\ text.length \in Nat /\ Start(tag) \in Nat /\ End(tag) \in Nat
      /\ tag.colon <= Start(tag)
  BY <1>1, TagOK, SpanOK
<1>3. /\ AtTag(tag) /\ PassTag(tag) /\ Start(tag) < End(tag) /\ coveredEnd' = Reach(Start(tag))
  BY DEF ReadTag
<1>4. offset <= tag.anchor
  BY <1>1, <1>3, AtTagOK
<1>5. /\ offset' \in Nat /\ End(tag) <= offset' /\ offset <= offset' /\ found' = found
  BY <1>1, <1>2, <1>3, <1>4 DEF PassTag, Largest
<1>6. coveredEnd' = Max(T)
  BY <1>3 DEF Reach
<1>7. T \in SUBSET Nat /\ T # {} /\ bound \in Nat /\ \A y \in T : y <= bound
  BY <1>1, <1>2
<1> HIDE DEF T, bound, tag
<1>8. Max(T) \in T /\ \A y \in T : y <= Max(T)
  BY <1>7, MaxOK
<1>9. coveredEnd' \in Nat /\ coveredEnd' \in T /\ \A y \in T : y <= coveredEnd'
  BY <1>6, <1>7, <1>8
<1>10. \/ coveredEnd' = 0
       \/ \E m \in found.detected : m.end = coveredEnd' /\ m.start <= Start(tag)
  <2>1. CASE coveredEnd' = coveredEnd
    BY <1>1, <1>2, <1>4, <2>1 DEF ReachOfMatch
  <2>2. CASE \E m \in found.detected : m.start <= Start(tag) /\ coveredEnd' = m.end
    BY <2>2
  <2> QED BY <1>9, <2>1, <2>2 DEF T
<1>11. ReachOfMatch'
  <2>1. \A m \in found.detected : m.start <= Start(tag) => m.start <= offset'
    BY <1>1, <1>2, <1>3, <1>5
  <2> QED BY <1>5, <1>10, <2>1 DEF ReachOfMatch
<1>12. ASSUME Covers(tag)
       PROVE  \E m \in found.detected : m.start <= Start(tag) /\ End(tag) <= m.end
  <2>1. coveredEnd' >= End(tag) /\ coveredEnd' # 0
    BY <1>2, <1>3, <1>9, <1>12 DEF Covers
  <2> QED BY <1>10, <2>1
<1>13. ASSUME NEW m \in found.detected, m.start <= Start(tag), End(tag) <= m.end
       PROVE  Covers(tag)
  <2>1. m.end \in T
    BY <1>13 DEF T
  <2> QED BY <1>1, <1>2, <1>9, <1>13, <2>1 DEF Covers
<1> QED BY <1>9, <1>11, <1>12, <1>13 DEF tag

(* A tag that has been read, with or without a declaration.                *)
Declares(k, covered) ==
    LET tag == text.tags[k]
        d   == Declaration(tag, covered)
    IN  /\ Stated(k) /\ declarations' = declarations \cup {d}
        /\ IF covered
           THEN /\ pending' = pending
                /\ \E m \in found.detected : m.start <= Start(tag) /\ End(tag) <= m.end
           ELSE pending' = pending \cup {[start |-> tag.anchor, end |-> End(tag),
                                          expression |-> tag.states]}

LEMMA TagStep ==
    ASSUME IInv, NEW k \in Tags, AtTag(text.tags[k]), PassTag(text.tags[k]),
           coveredEnd' \in Nat, ReachOfMatch',
           \/ declarations' = declarations /\ pending' = pending /\ ~Stated(k)
           \/ \E covered \in BOOLEAN : Declares(k, covered)
    PROVE  IInv'
<1> DEFINE tag == text.tags[k]
<1>1. /\ IsText(text) /\ offset \in Nat /\ pc = "tags" /\ pc' = "tags"
      /\ UNCHANGED <<text, found, detected, clues>>
  BY DEF IInv, Shape, AtTag, PassTag, outcome
<1>2. /\ tag.anchor \in Nat /\ tag.colon \in Nat /\ tag.anchor < tag.colon
      /\ Start(tag) \in Nat /\ End(tag) \in Nat /\ tag.colon <= Start(tag)
      /\ offset <= tag.anchor /\ tag.states \in Expressions \cup {None}
  BY <1>1, TagOK, SpanOK, AtTagOK
<1>3. offset' \in Nat /\ End(tag) <= offset' /\ offset <= offset'
  BY <1>1, <1>2 DEF PassTag, Largest
<1>4. LookedAt'
  <2>1. ASSUME NEW covered \in BOOLEAN, Declares(k, covered)
        PROVE  \E d : /\ d.anchor = text.tags[k].anchor /\ Stated(k)
                      /\ declarations' = declarations \cup {d}
    BY <2>1 DEF Declares, Declaration
  <2> QED BY <1>1, <2>1, LookedAtStep DEF IInv
<1>5. (Shape /\ Apart /\ Backed /\ PendingDeclared)'
  <2>1. CASE declarations' = declarations /\ pending' = pending
    <3>1. Shape'
      BY <1>1, <1>3, <2>1 DEF IInv, Shape, Declarations
    <3> QED BY <1>1, <2>1, <3>1 DEF IInv, Apart, Backed, PendingDeclared, CoveredBy
  <2>2. ASSUME NEW covered \in BOOLEAN, Declares(k, covered)
        PROVE  (Shape /\ Apart /\ Backed /\ PendingDeclared)'
    <3>1. PICK d : d = Declaration(tag, covered)
      OBVIOUS
    <3>2. /\ d.anchor = tag.anchor /\ d.start = Start(tag) /\ d.end = End(tag)
          /\ d.covered = covered
          /\ d \in Declarations /\ d.start < d.end /\ d.anchor < d.start
      <4>1. Stated(k)
        BY <2>2 DEF Declares
      <4>2. tag.states \in Expressions /\ Start(tag) < End(tag)
        BY <1>2, <4>1 DEF Stated
      <4> QED BY <1>2, <3>1, <4>2 DEF Declaration, Declarations
    <3>3. declarations' = declarations \cup {d}
      BY <2>2, <3>1 DEF Declares
    <3>4. \A e \in declarations : e.end <= d.anchor /\ e.end \in Nat /\ e.end <= offset
      BY <1>1, <1>2, <3>2 DEF IInv, Shape, Declarations
    <3>5. Shape'
      <4>1. declarations' \subseteq Declarations
        BY <3>2, <3>3 DEF IInv, Shape
      <4>2. \A e \in declarations' : e.anchor < e.start /\ e.start < e.end /\ e.end <= offset'
        BY <1>1, <1>3, <3>2, <3>3, <3>4 DEF IInv, Shape
      <4> QED BY <1>1, <1>3, <4>1, <4>2 DEF IInv, Shape, Declarations
    <3>6. Apart'
      BY <3>3, <3>4 DEF IInv, Apart
    <3>7. Backed' /\ PendingDeclared'
      <4>1. CASE covered
        <5>1. pending' = pending /\ \E m \in found.detected : CoveredBy(m, d)
          BY <2>2, <3>2, <4>1 DEF Declares, CoveredBy
        <5> QED BY <1>1, <3>2, <3>3, <4>1, <5>1
                DEF IInv, Backed, PendingDeclared, CoveredBy
      <4>2. CASE ~covered
        <5>1. PICK p : p = [start |-> tag.anchor, end |-> End(tag), expression |-> tag.states]
          OBVIOUS
        <5>2. pending' = pending \cup {p} /\ p.start = d.anchor /\ p.end = d.end
          BY <2>2, <3>2, <4>2, <5>1 DEF Declares
        <5>3. ~d.covered
          BY <3>2, <4>2
        <5>4. Backed'
          BY <1>1, <3>3, <5>2, <5>3 DEF IInv, Backed, CoveredBy
        <5>5. PendingDeclared'
          BY <3>3, <5>2, <5>3 DEF IInv, PendingDeclared
        <5> QED BY <5>4, <5>5
      <4> QED BY <4>1, <4>2
    <3> QED BY <3>5, <3>6, <3>7
  <2> QED BY <2>1, <2>2
<1>6. Unreconciled'
  BY <1>1 DEF IInv, Unreconciled
<1>7. (DeclarationsExact /\ DeclarationsStated /\ NoComponentLeft)'
  BY <1>1 DEF DeclarationsExact, DeclarationsStated, NoComponentLeft
<1> QED BY <1>4, <1>5, <1>6, <1>7 DEF IInv

LEMMA TagIInv ==
    ASSUME IInv, NEW k \in Tags,
           \/ EmptyTag(text.tags[k]) \/ CutOffTag(text.tags[k])
           \/ UnreadableTag(text.tags[k]) \/ CoveredTag(text.tags[k])
           \/ UncoveredTag(text.tags[k])
    PROVE  IInv'
<1> DEFINE tag == text.tags[k]
           ByOne == \E m \in found.detected : m.start <= Start(tag) /\ End(tag) <= m.end
<1>1. AtTag(tag) /\ PassTag(tag)
  BY DEF EmptyTag, CutOffTag, UnreadableTag, CoveredTag, UncoveredTag, ReadTag
<1>2. ~Hidden(k)
  BY <1>1, ReadNotHidden DEF IInv, Shape
<1>3. Start(tag) \in Nat /\ End(tag) \in Nat
  BY SpanOK DEF IInv, Shape
<1>4. CASE EmptyTag(tag)
  <2>1. ~Stated(k) /\ declarations' = declarations /\ pending' = pending
        /\ coveredEnd' = coveredEnd
    BY <1>3, <1>4 DEF EmptyTag, Stated, read
  <2>2. offset <= offset' /\ found' = found
    <3>1. /\ tag.anchor \in Nat /\ tag.colon \in Nat /\ tag.anchor < tag.colon
          /\ offset \in Nat /\ offset <= tag.anchor
      BY <1>1, TagOK, AtTagOK DEF IInv, Shape
    <3> QED BY <1>1, <1>3, <3>1 DEF PassTag, Largest
  <2>3. offset' \in Nat
    <3>1. tag.colon \in Nat
      BY TagOK DEF IInv, Shape
    <3> QED BY <1>1, <1>3, <3>1 DEF PassTag, Largest
  <2>4. coveredEnd' \in Nat /\ ReachOfMatch'
    BY <2>1, <2>2, <2>3 DEF IInv, Shape, ReachOfMatch, Statement
  <2> QED BY <1>1, <2>1, <2>4, TagStep
<1>5. CASE ReadTag(tag)
  <2>1. /\ coveredEnd' \in Nat /\ ReachOfMatch' /\ (Covers(tag) <=> ByOne)
        /\ Start(tag) < End(tag)
    BY <1>5, ReachStep DEF ReadTag
  <2>2. CASE CutOffTag(tag) \/ UnreadableTag(tag)
    <3>1. ~Stated(k) /\ declarations' = declarations /\ pending' = pending
      BY <2>1, <2>2 DEF CutOffTag, UnreadableTag, read, Stated, Whole
    <3> QED BY <1>1, <2>1, <3>1, TagStep
  <2>3. CASE CoveredTag(tag)
    <3>1. Stated(k) /\ ByOne
      BY <1>2, <2>1, <2>3 DEF CoveredTag, Stated, Whole
    <3>2. Declares(k, TRUE)
      BY <2>3, <3>1 DEF CoveredTag, Declares
    <3> QED BY <1>1, <2>1, <3>2, TagStep
  <2>4. CASE UncoveredTag(tag)
    <3>1. Stated(k)
      BY <1>2, <2>1, <2>4 DEF UncoveredTag, Stated, Whole
    <3>2. Declares(k, FALSE)
      BY <2>4, <3>1 DEF UncoveredTag, Declares
    <3> QED BY <1>1, <2>1, <3>2, TagStep
  <2>5. CASE EmptyTag(tag)
    BY <1>4, <2>5
  <2> QED BY <2>2, <2>3, <2>4, <2>5
<1>6. ReadTag(tag) \/ EmptyTag(tag)
  BY DEF CutOffTag, UnreadableTag, CoveredTag, UncoveredTag
<1> QED BY <1>4, <1>5, <1>6

-----------------------------------------------------------------------------
LEMMA FirstEnd ==
    ASSUME IInv, NEW later \in SUBSET declarations, later # {}
    PROVE  \E e \in later : \A f \in later : e.end <= f.end
<1> DEFINE ends == {e.end : e \in later}
<1>1. ends \in SUBSET Nat /\ ends # {}
  BY DEF IInv, Shape, Declarations
<1>2. PICK low \in ends : \A y \in ends : low <= y
  BY <1>1, LeastElement
<1> QED BY <1>2

(* The declaration a match is compared with is the one it meets.           *)
LEMMA Compared ==
    ASSUME IInv, NEW m, m.start \in Nat, m.end \in Nat, m.start < m.end,
           NEW d \in declarations, m.end <= d.end, d.anchor <= m.start
    PROVE  Superseded(m) <=>
              InCutOff(m.start) \/ ~d.covered \/ m.start > d.start \/ m.end < d.end
<1> DEFINE later == {e \in declarations : e.end >= m.end}
           x == CHOOSE e \in later : \A f \in later : e.end <= f.end
<1>1. \A e \in declarations : /\ e.anchor \in Nat /\ e.start \in Nat /\ e.end \in Nat
                              /\ e.anchor < e.start /\ e.start < e.end
  BY DEF IInv, Shape, Declarations
<1>2. d \in later
  BY <1>1
<1>3. x \in later /\ \A f \in later : x.end <= f.end
  <2>1. later \in SUBSET declarations /\ later # {}
    BY <1>2
  <2> HIDE DEF later
  <2> QED BY <2>1, FirstEnd
<1>4. Superseded(m) <=>
         \/ InCutOff(m.start)
         \/ /\ later # {} /\ m.start >= x.anchor
            /\ ~x.covered \/ m.start > x.start \/ m.end < x.end
  BY DEF Superseded
<1> HIDE DEF x
<1>5. x = d
  <2>1. x \in declarations /\ x.end >= m.end /\ x.end <= d.end
    BY <1>2, <1>3
  <2>2. ~(x.end <= d.anchor) /\ ~(d.end <= x.anchor)
    BY <1>1, <2>1
  <2> QED BY <2>1, <2>2 DEF IInv, Apart
<1> QED BY <1>1, <1>2, <1>4, <1>5

(* A match that makes a declaration covered stays, unless it begins in a   *)
(* tag that was cut off.                                                   *)
LEMMA CoveringStays ==
    ASSUME IInv, NEW m, m.start \in Nat, m.end \in Nat,
           NEW d \in declarations, d.covered, CoveredBy(m, d), Superseded(m)
    PROVE  InCutOff(m.start)
<1> DEFINE later == {e \in declarations : e.end >= m.end}
           x == CHOOSE e \in later : \A f \in later : e.end <= f.end
<1> SUFFICES ASSUME ~InCutOff(m.start) PROVE FALSE
  OBVIOUS
<1>1. \A e \in declarations : /\ e.anchor \in Nat /\ e.start \in Nat /\ e.end \in Nat
                              /\ e.anchor < e.start /\ e.start < e.end
  BY DEF IInv, Shape, Declarations
<1>2. later # {} /\ m.start >= x.anchor /\ (~x.covered \/ m.start > x.start \/ m.end < x.end)
  BY DEF Superseded
<1>3. x \in later
  <2>1. later \in SUBSET declarations /\ later # {}
    BY <1>2
  <2> HIDE DEF later
  <2> QED BY <2>1, FirstEnd
<1>4. x \in declarations /\ x.end >= m.end
  BY <1>3
<1> HIDE DEF x, later
<1>5. m.start <= d.start /\ d.end <= m.end
  BY DEF CoveredBy
<1>6. x = d
  <2>1. ~(x.end <= d.anchor) /\ ~(d.end <= x.anchor)
    BY <1>1, <1>2, <1>4, <1>5
  <2> QED BY <1>4, <2>1 DEF IInv, Apart
<1> QED BY <1>1, <1>2, <1>4, <1>5, <1>6

(* After the last tag, all of them have been looked at.                    *)
LEMMA AllBehind ==
    ASSUME IInv, NextTag(offset) = text.length, NEW k \in Tags
    PROVE  Behind(k)
<1>1. /\ IsText(text) /\ offset \in Nat /\ text.length \in Nat
      /\ text.tags[k].anchor \in Nat /\ text.tags[k].anchor < text.length
  BY TagOK DEF IInv, Shape
<1>2. offset <= text.tags[k].anchor => NextTag(offset) <= text.tags[k].anchor
  BY <1>1, NextTagOK
<1> QED BY <1>1, <1>2 DEF Behind

LEMMA ReconcileIInv ==
    ASSUME IInv, Reconcile
    PROVE  IInv'
<1>1. /\ pc = "tags" /\ NextTag(offset) = text.length
      /\ detected' = {m \in detected : ~Superseded(m)} \cup pending
      /\ clues' = {c \in clues : ~Superseded(c)} \cup cutOff
      /\ pc' = "done"
      /\ UNCHANGED <<text, found, offset, coveredEnd, declarations, cutOff, pending>>
  BY DEF Reconcile, read
<1>2. detected = found.detected /\ clues = found.clues
  BY <1>1 DEF IInv, Unreconciled
<1>3. /\ \A m \in found.detected : m.start \in Nat /\ m.end \in Nat /\ m.start < m.end
      /\ \A m \in found.clues : m.start \in Nat /\ m.end \in Nat /\ m.start < m.end
      /\ \A d \in declarations : /\ d.anchor \in Nat /\ d.start \in Nat /\ d.end \in Nat
                                 /\ d.anchor < d.start /\ d.start < d.end
  BY DEF IInv, Shape, Statement, Span, Declarations
<1>4. Tags' = Tags /\ \A k \in Tags : Stated(k)' <=> Stated(k)
  BY <1>1, TextKept
<1>5. (Shape /\ Apart /\ ReachOfMatch /\ Backed /\ PendingDeclared /\ Unreconciled)'
  BY <1>1 DEF IInv, Shape, Declarations, Apart, ReachOfMatch, Backed, PendingDeclared,
              CoveredBy, Unreconciled
<1>6. LookedAt'
  <2>1. \A k \in Tags : /\ Behind(k)' <=> Behind(k)
                        /\ Declared(k)' <=> Declared(k)
                        /\ Complete(text.tags[k])' <=> Complete(text.tags[k])
                        /\ LineEnd(text.tags[k].colon)' = LineEnd(text.tags[k].colon)
    BY <1>1, TextKept DEF Behind, Declared
  <2> QED BY <1>1, <1>4, <2>1 DEF IInv, LookedAt
<1>7. DeclarationsExact'
  <2>1. \A k \in Tags : Declared(k) <=> Stated(k)
    BY <1>1, AllBehind DEF IInv, LookedAt
  <2>2. {d.anchor : d \in declarations} = {text.tags[k].anchor : k \in {j \in Tags : Stated(j)}}
    BY <2>1 DEF IInv, LookedAt, Declared
  <2>3. ({d.anchor : d \in declarations} =
            {text.tags[k].anchor : k \in {j \in Tags : Stated(j)}})'
    BY <1>1, <1>4, <2>2
  <2> QED BY <2>3 DEF DeclarationsExact, Stated, Whole, Tags
<1>8. DeclarationsStated'
  <2> SUFFICES ASSUME NEW d \in declarations
               PROVE  \/ \E m \in detected' : CoveredBy(m, d)
                      \/ \E m \in found.detected : CoveredBy(m, d) /\ InCutOff(m.start)
    BY <1>1 DEF DeclarationsStated, InCutOff
  <2>1. CASE d.covered
    <3>1. PICK m \in found.detected : CoveredBy(m, d)
      BY <2>1 DEF IInv, Backed
    <3>2. Superseded(m) => InCutOff(m.start)
      BY <1>3, <2>1, <3>1, CoveringStays
    <3> QED BY <1>1, <1>2, <3>1, <3>2
  <2>2. CASE ~d.covered
    <3>1. PICK m \in pending : m.start = d.anchor /\ m.end = d.end
      BY <2>2 DEF IInv, Backed
    <3>2. CoveredBy(m, d)
      BY <1>3, <3>1 DEF CoveredBy
    <3> QED BY <1>1, <3>2
  <2> QED BY <2>1, <2>2
<1>9. NoComponentLeft'
  <2> SUFFICES ASSUME NEW d \in declarations, NEW m \in (detected' \cup clues') \ cutOff,
                      m.start >= d.anchor, m.end <= d.end
               PROVE  CoveredBy(m, d) /\ (d.covered \/ m \in pending)
    BY <1>1 DEF NoComponentLeft, CoveredBy
  <2>1. CASE m \in pending
    <3>1. PICK e \in declarations : m.start = e.anchor /\ m.end = e.end
      BY <2>1 DEF IInv, PendingDeclared
    <3>2. ~(e.end <= d.anchor) /\ ~(d.end <= e.anchor)
      BY <1>3, <3>1
    <3>3. e = d
      BY <3>2 DEF IInv, Apart
    <3> QED BY <1>3, <2>1, <3>1, <3>3 DEF CoveredBy
  <2>2. CASE m \in found.detected \cup found.clues /\ ~Superseded(m)
    <3>1. m.start \in Nat /\ m.end \in Nat /\ m.start < m.end
      BY <1>3, <2>2
    <3>2. ~(~d.covered \/ m.start > d.start \/ m.end < d.end)
      BY <1>3, <2>2, <3>1, Compared
    <3> QED BY <1>3, <3>1, <3>2 DEF CoveredBy
  <2> QED BY <1>1, <1>2, <2>1, <2>2
<1> QED BY <1>5, <1>6, <1>7, <1>8, <1>9 DEF IInv

LEMMA InitIInv == Init => IInv
<1> SUFFICES ASSUME Init PROVE IInv
  OBVIOUS
<1>1. Shape
  BY TagsAssumption DEF Init, Shape
<1>2. \A k \in Tags : ~Behind(k)
  <2>1. offset = 0 /\ IsText(text)
    BY <1>1 DEF Init, Shape
  <2>2. \A k \in Tags : text.tags[k].anchor \in Nat
    BY <2>1, TagOK
  <2> QED BY <2>1, <2>2 DEF Behind
<1>3. LookedAt
  BY <1>2 DEF Init, LookedAt
<1> QED BY <1>1, <1>3 DEF Init, IInv, Apart, ReachOfMatch, Backed, PendingDeclared,
           Unreconciled, DeclarationsExact, DeclarationsStated, NoComponentLeft

LEMMA StepIInv == IInv /\ [Next]_vars => IInv'
<1> SUFFICES ASSUME IInv, [Next]_vars PROVE IInv'
  OBVIOUS
<1>1. ASSUME NEW k \in DOMAIN text.tags,
             \/ EmptyTag(text.tags[k]) \/ CutOffTag(text.tags[k])
             \/ UnreadableTag(text.tags[k]) \/ CoveredTag(text.tags[k])
             \/ UncoveredTag(text.tags[k])
      PROVE  IInv'
  BY <1>1, TagIInv DEF Tags
<1>2. CASE Reconcile
  BY <1>2, ReconcileIInv
<1>3. CASE UNCHANGED vars
  <2>1. UNCHANGED <<text, found, offset, coveredEnd, declarations, cutOff, pending,
                    detected, clues, changed, pc>>
    BY <1>3 DEF vars, read, outcome
  <2>2. (Shape /\ Apart /\ ReachOfMatch /\ Backed /\ PendingDeclared /\ Unreconciled)'
    BY <2>1 DEF IInv, Shape, Declarations, Apart, ReachOfMatch, Backed, PendingDeclared,
                CoveredBy, Unreconciled
  <2>3. LookedAt'
    <3>1. \A k \in Tags : /\ Behind(k)' <=> Behind(k)
                          /\ Declared(k)' <=> Declared(k)
      BY <2>1 DEF Behind, Declared
    <3> QED BY <2>1, <3>1, TextKept DEF IInv, LookedAt
  <2>4. DeclarationsExact'
    <3> SUFFICES ASSUME pc = "done" PROVE DeclarationsExact'
      BY <2>1 DEF DeclarationsExact
    <3>1. {d.anchor : d \in declarations}
             = {text.tags[k].anchor : k \in {j \in Tags : Stated(j)}}
      BY DEF IInv, DeclarationsExact, Stated, Whole, Tags
    <3>2. Tags' = Tags /\ \A k \in Tags : Stated(k)' <=> Stated(k)
      BY <2>1, TextKept
    <3>3. ({d.anchor : d \in declarations} =
              {text.tags[k].anchor : k \in {j \in Tags : Stated(j)}})'
      BY <2>1, <3>1, <3>2
    <3> QED BY <3>3 DEF DeclarationsExact, Stated, Whole, Tags
  <2>5. (DeclarationsStated /\ NoComponentLeft)'
    BY <2>1 DEF IInv, DeclarationsStated, NoComponentLeft, CoveredBy, InCutOff
  <2> QED BY <2>2, <2>3, <2>4, <2>5 DEF IInv
<1>4. CASE Done
  BY <1>3, <1>4 DEF Done
<1> QED BY <1>1, <1>2, <1>3, <1>4 DEF Next

LEMMA Invariant == Spec => []IInv
BY InitIInv, StepIInv, PTL DEF Spec

-----------------------------------------------------------------------------
(* Of any text, every tag that is not part of another one's line is read,  *)
(* and declared exactly if it states a known expression and is whole or    *)
(* covered by one match: matchSPDXTags and its running coverage.           *)
THEOREM TagsRead == Spec => []DeclarationsExact
BY Invariant, PTL DEF IInv

(* Whatever is superseded by whatever else, a match of the result states   *)
(* every declaration, but for those that start in a tag that was cut off.  *)
THEOREM Stands == Spec => []DeclarationsStated
BY Invariant, PTL DEF IInv

(* And nothing smaller is left beside a declaration, of either kind:       *)
(* supersededBySPDX compares with the one declaration that matters.        *)
THEOREM ComponentsGone == Spec => []NoComponentLeft
BY Invariant, PTL DEF IInv
=============================================================================
