------------------------------ MODULE ScanText ------------------------------
(***************************************************************************)
(* What scanFile (scan.go) does with the bytes of a text file: decodeText  *)
(* turns them into UTF-8 with one raw offset per decoded byte, the matcher *)
(* is asked, applyScanPolicy makes clues of references that join blocks,   *)
(* the share of license text is measured, the offsets of the matches are   *)
(* mapped back to the raw bytes, and scanRepository sorts the record.      *)
(*                                                                         *)
(* Raw bytes come in units: two bytes in UTF-16, one in Latin-1, a rune in *)
(* UTF-8.  A rune is one of Runes; only its width in UTF-8 and its role in *)
(* the layout of a document matter.  Decoded bytes are pairs of a rune and *)
(* the number of the byte within it.                                       *)
(***************************************************************************)
EXTENDS Integers, Sequences, FiniteSets

LOCAL INSTANCE FiniteSetsExt
LOCAL INSTANCE SequencesExt

CONSTANTS
    Contents,   \* the raw files
    Paths,      \* their policy paths
    Plans       \* what the matcher may find: the kinds of matches to report

(* A letter of each width, a line feed, a blank, and the characters with a *)
(* meaning for documents: '#' and '*' stand for the comment leaders, '#'   *)
(* for '=' as well, '*' for every list marker.                             *)
Width == [a |-> 1, e |-> 2, k |-> 3, astral |-> 4, error |-> 3,
          nl |-> 1, sp |-> 1, hash |-> 1, star |-> 1, bar |-> 1]
Runes == DOMAIN Width
Letters == {"a", "e", "k", "astral"}
Units == Runes \cup {"high", "low"}   \* and the two halves of a surrogate pair

Encodings == {"utf-8", "utf-8-bom", "utf-16", "latin-1"}
Content == [encoding : Encodings, units : Seq(Units), odd : BOOLEAN]

Segments == {"license", "copying", "notice", "other"}
Tails == {"none", "separator", "letter"}
Name == [stem : Segments, tail : Tails]
Path == [directories : Seq(Name), base : Name,
         ext : {"md", "other"}, readme : BOOLEAN]

ASSUME TextAssumption ==
    /\ Contents \subseteq Content
    /\ \A c \in Contents :
          /\ c.odd => c.encoding = "utf-16"
          /\ \A i \in DOMAIN c.units :
                CASE c.encoding = "utf-16" -> c.units[i] # "astral"
                  [] c.encoding = "latin-1" -> Width[c.units[i]] < 3
                  [] OTHER -> c.units[i] \in Runes
    /\ Paths \subseteq Path
    /\ \A plan \in Plans :
          plan \in Seq([detection : Nat, kind : {"text", "reference"}])

VARIABLES
    content, path, legal,  \* the file, its path, IncludeLegalFiles
    position,              \* of decodeUTF16 and decodeLatin1 in the raw bytes
    text, offsets, base,   \* decodedText: data, offsets, offsetBase
    found,                 \* what the matcher answered
    result, coverage, checksum, record,
    stage                  \* what scanFile does next

tvars == <<content, path, legal, position, text, offsets, base, found, result,
           coverage, checksum, record, stage>>

file == <<content, path, legal>>
decoded == <<position, text, offsets, base>>
NoResult == [detections |-> <<>>, clues |-> <<>>]

-----------------------------------------------------------------------------
(* Decoding.                                                               *)
Utf8Length(units) == FoldLeft(LAMBDA n, u : n + Width[u], 0, units)

RawLength(c) ==
    CASE c.encoding = "utf-16" -> 2 + 2 * Len(c.units) + (IF c.odd THEN 1 ELSE 0)
      [] c.encoding = "latin-1" -> Len(c.units)
      [] c.encoding = "utf-8-bom" -> 3 + Utf8Length(c.units)
      [] OTHER -> Utf8Length(c.units)

RuneBytes(rune) == [n \in 1..Width[rune] |-> <<rune, n>>]
Utf8(runes) == FlattenSeq([i \in DOMAIN runes |-> RuneBytes(runes[i])])

(* The unit at an offset of a UTF-16 file.                                 *)
UnitAt(offset) == content.units[(offset \div 2)]

(* Every byte of a rune mapped to where the rune starts.                   *)
RuneOffsetsStarting(rune, rawStart, rawEnd) ==
    [n \in 1..Width[rune] |-> rawStart]

(* appendRune: the offset that ends a byte of the rune is where the rune   *)
(* starts in the raw bytes, but for its last byte.                         *)
RuneOffsets(rune, rawStart, rawEnd) ==
    [n \in 1..Width[rune] |-> IF n = Width[rune] THEN rawEnd ELSE rawStart]

AppendRune(rune, next) ==
    /\ text' = text \o RuneBytes(rune)
    /\ offsets' = offsets \o RuneOffsets(rune, position, next)
    /\ position' = next

(* A surrogate consumes the unit after it whatever it is.                  *)
Utf16RuneGreedy(at) ==
    CASE at + 1 >= RawLength(content) -> <<"error", at + 1>>
      [] at + 1 < RawLength(content) /\ UnitAt(at) \in {"high", "low"} ->
            IF at + 3 >= RawLength(content) THEN <<"error", at + 2>>
            ELSE IF UnitAt(at) = "high" /\ UnitAt(at + 2) = "low"
                 THEN <<"astral", at + 4>>
            ELSE <<"error", at + 4>>
      [] OTHER -> <<UnitAt(at), at + 2>>

(* decodeUTF16: the rune at an offset and where the next one starts.  A    *)
(* lone last byte and a surrogate without its partner are replaced.        *)
Utf16Rune(at) ==
    LET end == RawLength(content)
    IN  CASE at + 1 >= end -> <<"error", at + 1>>
          [] at + 1 < end /\ UnitAt(at) \in {"high", "low"} ->
                IF UnitAt(at) = "high" /\ at + 3 < end /\ UnitAt(at + 2) = "low"
                THEN <<"astral", at + 4>> ELSE <<"error", at + 2>>
          [] OTHER -> <<UnitAt(at), at + 2>>

Latin1Rune(at) == <<content.units[at + 1], at + 1>>

Stay == UNCHANGED <<file, found, result, coverage, checksum, record>>

(* UTF-8 is passed on as it is, but for a byte-order mark.                 *)
DecodeUtf8 ==
    /\ stage = "decode" /\ content.encoding \in {"utf-8", "utf-8-bom"}
    /\ text' = Utf8(content.units)
    /\ base' = IF content.encoding = "utf-8-bom" THEN 3 ELSE 0
    /\ stage' = "match"
    /\ UNCHANGED <<position, offsets>> /\ Stay

StartDecoding ==
    /\ stage = "decode" /\ content.encoding \in {"utf-16", "latin-1"}
    /\ position' = (IF content.encoding = "utf-16" THEN 2 ELSE 0)
    /\ offsets' = <<position'>>
    /\ stage' = "decoding"
    /\ UNCHANGED <<text, base>> /\ Stay

DecodeRune ==
    LET next == IF content.encoding = "utf-16" THEN Utf16Rune(position)
                                               ELSE Latin1Rune(position)
    IN  /\ stage = "decoding" /\ position < RawLength(content)
        /\ AppendRune(next[1], next[2])
        /\ UNCHANGED <<base, stage>> /\ Stay

EndDecoding ==
    /\ stage = "decoding" /\ position >= RawLength(content)
    /\ stage' = "match"
    /\ UNCHANGED decoded /\ Stay

(* decodedText.rawOffset; `offsets` is nil for UTF-8.                      *)
RawOffset(offset) ==
    IF offsets # <<>> THEN offsets[offset + 1] ELSE offset + base

-----------------------------------------------------------------------------
(* What Matcher.Match may answer, the error of scanFile included: matches  *)
(* between words of the decoded text, sorted as sortResult leaves them.    *)
WordStart(s) == s < Len(text) /\ text[s + 1][1] \in Letters /\ text[s + 1][2] = 1
WordEnd(t) == t > 0 /\ text[t][1] \in Letters /\ text[t][2] = Width[text[t][1]]

Ranges == {r \in (0..Len(text)) \X (0..Len(text)) :
               r[1] < r[2] /\ WordStart(r[1]) /\ WordEnd(r[2])}

Precedes(m, n) ==
    \/ m.start < n.start
    \/ m.start = n.start /\ (m.end < n.end \/ (m.end = n.end /\ m.rule < n.rule))

(* Match i of a plan belongs to a detection, or is a clue of detection 0.  *)
Planned(plan, ranges) ==
    LET match(i) == [rule |-> i, kind |-> plan[i].kind,
                     start |-> ranges[i][1], end |-> ranges[i][2]]
        of(d) == SetToSortSeq({match(i) : i \in {j \in DOMAIN plan :
                                                    plan[j].detection = d}},
                              Precedes)
        numbers == {plan[i].detection : i \in DOMAIN plan} \ {0}
        detections == SetToSortSeq({of(d) : d \in numbers},
                                   LAMBDA x, y : Precedes(x[1], y[1]))
    IN  [detections |-> detections, clues |-> of(0)]

(* The task's path and the options, which nothing before this depends on,  *)
(* are chosen here as well.                                                *)
Match ==
    /\ stage = "match"
    /\ \E plan \in Plans : \E ranges \in [DOMAIN plan -> Ranges] :
          found' = Planned(plan, ranges)
    /\ path' \in Paths /\ legal' \in BOOLEAN
    /\ result' = found'
    /\ stage' = "policy"
    /\ UNCHANGED <<content, decoded, coverage, checksum, record>>

MatchFails ==
    /\ stage = "match"
    /\ stage' = "error"
    /\ UNCHANGED decoded /\ Stay

-----------------------------------------------------------------------------
(* legalFileRoleFlags: a directory with the exact name, or a file name     *)
(* that is a legal word alone or before '.', '-' or '_'.                   *)
LegalFileRoles(p) ==
    LET Named(stems) == p.base.stem \in stems /\ p.base.tail # "letter"
        InDirectory == \E i \in DOMAIN p.directories :
                           p.directories[i] = [stem |-> "license", tail |-> "none"]
        license == InDirectory \/ Named({"license", "copying"})
    IN  (IF license THEN {"license"} ELSE {})
        \cup (IF Named({"notice"}) THEN {"notice"} ELSE {})

UsesDocumentMarkers(p) == p.ext = "md" \/ p.readme

-----------------------------------------------------------------------------
(* applyScanPolicy.  A line is the sequence of the runes of its bytes.     *)
Trim(line) ==
    LET solid == {i \in DOMAIN line : line[i] # "sp"}
    IN  IF solid = {} THEN <<>> ELSE SubSeq(line, Min(solid), Max(solid))

Leaders == {"hash", "star"}

(* stripCommentLeader of a line that begins with the leader.               *)
WithoutLeader(line, leader) ==
    LET others == {i \in DOMAIN line : line[i] # leader}
    IN  IF others = {} THEN <<>> ELSE Trim(SubSeq(line, Min(others), Len(line)))

(* The leader of the left line is dropped whether it is common or not.     *)
StripEitherLeader(left, right) ==
    LET Strip(line) == IF line # <<>> /\ line[1] \in Leaders
                       THEN WithoutLeader(line, line[1]) ELSE line
    IN  <<Strip(left), Strip(right)>>

(* stripCommonCommentLeader; the leaders are prefixes of no other.         *)
StripCommonLeader(left, right) ==
    IF left # <<>> /\ right # <<>> /\ left[1] = right[1] /\ left[1] \in Leaders
    THEN <<WithoutLeader(left, left[1]), WithoutLeader(right, right[1])>>
    ELSE <<left, right>>

IsHeading(line) == line[1] = "hash"
IsTable(line) == line[1] = "bar" \/ line[Len(line)] = "bar"
IsListItem(line) == Len(line) >= 2 /\ line[1] = "star" /\ line[2] = "sp"

IsDocumentBoundary(left, right) ==
    \/ IsHeading(left) \/ IsHeading(right)
    \/ IsTable(left) \/ IsTable(right) \/ IsListItem(right)

(* The runes of the bytes from one offset to another.                      *)
Line(from, to) == [i \in 1..(to - from) |-> text[from + i][1]]

(* The two lines a line feed at an offset separates, trimmed.              *)
LinesAround(newline) ==
    LET feeds == {i \in 0..(Len(text) - 1) : text[i + 1][1] = "nl"}
        before == {i \in feeds : i < newline}
        after == {i \in feeds : i > newline}
        from == IF before = {} THEN 0 ELSE Max(before) + 1
        to == IF after = {} THEN Len(text) ELSE Min(after)
    IN  <<Trim(Line(from, newline)), Trim(Line(newline + 1, to))>>

Separates(newline, markers) ==
    LET lines == LinesAround(newline)
        paragraphs == StripCommonLeader(lines[1], lines[2])
    IN  \/ paragraphs[1] = <<>> \/ paragraphs[2] = <<>>
        \/ markers /\ IsDocumentBoundary(lines[1], lines[2])

(* Only the first line feed of the match is looked at.                     *)
CrossesFirstFeed(start, end, markers) ==
    LET feeds == {i \in start..(end - 1) : text[i + 1][1] = "nl"}
    IN  feeds # {} /\ Separates(Min(feeds), markers)

CrossesBlockBoundary(start, end, markers) ==
    \E i \in start..(end - 1) : text[i + 1][1] = "nl" /\ Separates(i, markers)

Demoted(m) ==
    /\ m.kind = "reference"
    /\ CrossesBlockBoundary(m.start, m.end, UsesDocumentMarkers(path))

(* Demoting in place of the whole detection: its other matches go too.     *)
PolicyPerDetection(r) ==
    IF LegalFileRoles(path) # {} THEN r
    ELSE LET Keeps(d) == ~\E i \in DOMAIN d : Demoted(d[i])
         IN  [detections |-> SelectSeq(r.detections, Keeps),
              clues |-> r.clues \o FlattenSeq(
                           SelectSeq(r.detections, LAMBDA d : ~Keeps(d)))]

(* A detection whose matches are all demoted is kept, empty.               *)
PolicyKeepingEmpty(r) ==
    IF LegalFileRoles(path) # {} THEN r
    ELSE [detections |-> [i \in DOMAIN r.detections |->
                SelectSeq(r.detections[i], LAMBDA m : ~Demoted(m))],
          clues |-> r.clues \o SelectSeq(FlattenSeq(r.detections), Demoted)]

Policy(r) ==
    IF LegalFileRoles(path) # {} THEN r
    ELSE [detections |->
              SelectSeq([i \in DOMAIN r.detections |->
                            SelectSeq(r.detections[i], LAMBDA m : ~Demoted(m))],
                        LAMBDA d : d # <<>>),
          clues |-> r.clues \o SelectSeq(FlattenSeq(r.detections), Demoted)]

ApplyPolicy ==
    /\ stage = "policy"
    /\ result' = Policy(result)
    /\ stage' = "coverage"
    /\ UNCHANGED <<file, decoded, found, coverage, checksum, record>>

-----------------------------------------------------------------------------
(* calculateLicenseTextCoverage: the number of bytes the matches of text   *)
(* and notice rules cover, counted on the sorted ranges.                   *)
Matches(r) == FlattenSeq(r.detections) \o r.clues

(* A range inside the current one ends it early.                           *)
MergeShrinking(acc, range) ==
    IF range[1] <= acc.end
    THEN [acc EXCEPT !.end = range[2]]
    ELSE [covered |-> acc.covered + acc.end - acc.start,
          start |-> range[1], end |-> range[2]]

Merge(acc, range) ==
    IF range[1] <= acc.end
    THEN [acc EXCEPT !.end = Max({acc.end, range[2]})]
    ELSE [covered |-> acc.covered + acc.end - acc.start,
          start |-> range[1], end |-> range[2]]

Covered(r) ==
    LET counted == SelectSeq(Matches(r), LAMBDA m : m.kind = "text")
        sorted == SortSeq([i \in DOMAIN counted |->
                              <<counted[i].start, counted[i].end>>],
                          LAMBDA x, y : x[1] < y[1] \/ (x[1] = y[1] /\ x[2] < y[2]))
        merged == FoldLeft(Merge,
                           [covered |-> 0, start |-> sorted[1][1],
                            end |-> sorted[1][2]], Tail(sorted))
    IN  IF counted = <<>> THEN 0 ELSE merged.covered + merged.end - merged.start

CalculateCoverage ==
    /\ stage = "coverage"
    /\ coverage' = Covered(result)
    /\ stage' = "remap"
    /\ UNCHANGED <<file, decoded, found, result, checksum, record>>

(* remapResultOffsets.                                                     *)
Raw(m) == [m EXCEPT !.start = RawOffset(@), !.end = RawOffset(@)]

(* Forgetting the clues.                                                   *)
RemappedDetections(r) ==
    [detections |-> [i \in DOMAIN r.detections |->
                        [j \in DOMAIN r.detections[i] |-> Raw(r.detections[i][j])]],
     clues |-> r.clues]

Remapped(r) ==
    [detections |-> [i \in DOMAIN r.detections |->
                        [j \in DOMAIN r.detections[i] |-> Raw(r.detections[i][j])]],
     clues |-> [j \in DOMAIN r.clues |-> Raw(r.clues[j])]]

(* With the checksum scanFile computes when it expects a file record.      *)
RemapOffsets ==
    /\ stage = "remap"
    /\ result' = Remapped(result)
    /\ checksum' = (Matches(result) # <<>> \/ (legal /\ LegalFileRoles(path) # {}))
    /\ stage' = "record"
    /\ UNCHANGED <<file, decoded, found, coverage, record>>

(* sortFileMatches, which takes the first match of every detection; the    *)
(* matches of a detection stay as they are.                                *)
SortedRecord(r) ==
    [detections |-> SortSeq(r.detections, LAMBDA x, y : Precedes(x[1], y[1])),
     clues |-> SortSeq(r.clues, Precedes)]

Unlisted == [listed |-> FALSE, detections |-> <<>>, clues |-> <<>>]

(* scanRepository: makeFileRecord of an outcome that has something to show *)
MakeRecord ==
    LET shown == SortedRecord(result)
    IN  /\ stage = "record"
        /\ record' =
              IF Matches(result) = <<>> /\ ~(legal /\ LegalFileRoles(path) # {})
              THEN Unlisted
              ELSE [listed |-> TRUE, detections |-> shown.detections,
                    clues |-> shown.clues]
        /\ stage' = "done"
        /\ UNCHANGED <<file, decoded, found, result, coverage, checksum>>

TNext ==
    \/ DecodeUtf8 \/ StartDecoding \/ DecodeRune \/ EndDecoding
    \/ Match \/ MatchFails \/ ApplyPolicy \/ CalculateCoverage \/ RemapOffsets
    \/ MakeRecord

-----------------------------------------------------------------------------
(* Boundaries between decoded runes.                                       *)
Boundaries == {t \in 0..Len(text) :
                   t = 0 \/ text[t][2] = Width[text[t][1]]}

(* The decoding of raw bytes [s, t) said without the loop: a unit yields   *)
(* nothing if it is the second of a pair, and pairs are a high surrogate   *)
(* and the low one after it.                                               *)
DecodingOf(s, t) ==
    LET c == content
        first == s \div 2
        last == IF c.encoding = "utf-16" THEN (t \div 2) - 1 ELSE t
        Paired(i) == c.units[i] = "high" /\ i < last /\ c.units[i + 1] = "low"
        One(i) == IF Paired(i) THEN <<"astral">>
                  ELSE IF c.units[i] = "low" /\ i > first /\ Paired(i - 1) THEN <<>>
                  ELSE IF c.units[i] \in {"high", "low"} THEN <<"error">>
                  ELSE <<c.units[i]>>
        runes == IF c.encoding = "latin-1" THEN SubSeq(c.units, s + 1, t)
                 ELSE FlattenSeq([i \in 1..(last - first + 1) |-> One(first + i - 1)])
    IN  Utf8(runes) \o
        (IF c.encoding = "utf-16" /\ (t - s) % 2 = 1 THEN RuneBytes("error") ELSE <<>>)

(* One raw offset per decode: the raw bytes between the offsets of two     *)
(* boundaries decode to exactly the text between them, whatever the pairs, *)
(* lone surrogates and odd last byte of the file, and the whole text comes *)
(* from the whole file (decodeUTF16, decodeLatin1, appendRune).            *)
OffsetsExact ==
    stage \in {"decoding", "match"} /\ offsets # <<>> =>
        /\ Len(offsets) = Len(text) + 1
        /\ \A s, t \in Boundaries :
              s <= t => DecodingOf(RawOffset(s), RawOffset(t)) = SubSeq(text, s + 1, t)
        /\ stage # "decoding" => RawOffset(Len(text)) = RawLength(content)

(* A reference joins blocks when two neighbouring lines it covers belong   *)
(* to different ones.  Lines are told by counting the line feeds before    *)
(* them; a line is empty relative to its neighbour when nothing is left of *)
(* it without blanks and the leader they share.                            *)
LineOf(offset) == Cardinality({i \in 1..offset : text[i][1] = "nl"})
LineText(n) ==
    LET in == {i \in 0..(Len(text) - 1) : LineOf(i) = n /\ text[i + 1][1] # "nl"}
    IN  IF in = {} THEN <<>> ELSE Trim(Line(Min(in), Max(in) + 1))

JoinsBlocks(m) ==
    \E n \in LineOf(m.start)..(LineOf(m.end - 1) - 1) :
        LET upper == LineText(n)
            lower == LineText(n + 1)
            shared == IF upper # <<>> /\ lower # <<>> /\ upper[1] = lower[1]
                         /\ upper[1] \in Leaders THEN {upper[1], "sp"} ELSE {"sp"}
            Blank(l) == \A i \in DOMAIN l : l[i] \in shared
        IN  \/ Blank(upper) \/ Blank(lower)
            \/ /\ path.ext = "md" \/ path.readme
               /\ \/ "hash" \in {upper[1], lower[1]}
                  \/ "bar" \in {upper[1], upper[Len(upper)],
                                lower[1], lower[Len(lower)]}
                  \/ lower[1] = "star" /\ Len(lower) > 1 /\ lower[2] = "sp"

IsLegal == LegalFileRoles(path) # {}

(* README.md: "Reference rules that join text across document blocks are   *)
(* reported as clues outside files such as `LICENSE`, `COPYING`, and       *)
(* `NOTICE`."  Exactly those become clues, every match is still there once,*)
(* and no detection is left without a match (applyScanPolicy).             *)
PolicyExact ==
    stage = "coverage" =>
        LET Is(m) == m.kind = "reference" /\ ~IsLegal /\ JoinsBlocks(m)
            All(r) == {m.rule : m \in ToSet(Matches(r))}
        IN  /\ Len(Matches(result)) = Len(Matches(found))
            /\ All(result) = All(found)
            /\ ToSet(result.clues) = ToSet(found.clues) \cup
                   {m \in ToSet(FlattenSeq(found.detections)) : Is(m)}
            /\ \A i \in DOMAIN result.detections : result.detections[i] # <<>>

(* README.md: "`license_text_coverage`, the percentage of decoded file     *)
(* bytes covered by the union of license-text and notice matches" - of the *)
(* decoded bytes, although the record gives raw ranges.                    *)
CoverageExact ==
    stage = "done" =>
        coverage = Cardinality(UNION {m.start..(m.end - 1) :
            m \in {x \in ToSet(Matches(found)) : x.kind = "text"}})

(* A listed record has a checksum and is in order throughout, the matches  *)
(* inside a detection too, which nothing sorts after the matcher; its raw  *)
(* ranges are those of the matches found; a file that is not listed has no *)
(* match and no checksum (scanFile, makeFileRecord, sortFileMatches).      *)
RecordExact ==
    stage = "done" =>
        LET InOrder(s) == \A i, j \in DOMAIN s : i < j => Precedes(s[i], s[j])
            Firsts == [i \in DOMAIN record.detections |-> record.detections[i][1]]
        IN  /\ record.listed <=> checksum
            /\ InOrder(record.clues) /\ InOrder(Firsts)
            /\ \A i \in DOMAIN record.detections : InOrder(record.detections[i])
            /\ ToSet(Matches(record)) = {Raw(m) : m \in ToSet(Matches(found))}
            /\ ~record.listed => Matches(found) = <<>>
=============================================================================
