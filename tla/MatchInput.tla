----------------------------- MODULE MatchInput -----------------------------
(***************************************************************************)
(* Matcher.match (matcher.go), from the words of an input to the spans of  *)
(* the rules found in it.  The tokenizer drops unknown words and stopwords *)
(* and remembers where; the candidates come from a hash of the whole input *)
(* or from the Aho-Corasick automaton, in one pass or, when there are      *)
(* many, in two more; those that span words their rule does not allow go;  *)
(* filterExactMatches (ExactMatchFilter) chooses among the rest; and a     *)
(* second scan of the input recovers where the chosen ones are.  Lists of  *)
(* license names go (LicenseList), what is left is grouped by expression,  *)
(* license texts that a numbered clause goes on after become clues         *)
(* (evidence.go), and the result is sorted.                                *)
(*                                                                         *)
(* An input is its words, and the byte range of a word is its place among  *)
(* them.  A number among the words stands at the start of a line, before a *)
(* point and a blank.  The automaton is what Automaton shows; the inputs   *)
(* have no SPDX tags (SpdxTags), and the variants of the filter the tests  *)
(* use are not modelled.                                                   *)
(***************************************************************************)
EXTENDS ExactMatchFilter, SequencesExt

CONSTANTS
    Vocabulary,     \* the known words that are tokens of rules
    Stopwords,      \* the known words the tokenizer drops
    Unknown,        \* any other word
    RuleTokens,     \* the tokens of each rule
    RuleStopwords,  \* its StopwordAfter: after how many tokens each one was
    Strict,         \* rules flagged FlagContinuous or FlagRequiredPhrase
    Variable,       \* license texts, and notices of fifteen tokens or more
    KindOf,         \* ruleKind of each rule
    ReportedExpression,  \* of each rule, with its SPDX identifiers
    Number,         \* the number a word is, 0 if it is none
    Hash(_),        \* hashInputTokens and hashRuleTokens
    Texts,          \* the inputs
    Threshold,      \* exactMatchTwoPassThreshold
    Limit,          \* maxExactMatchCandidates
    MinMatches, MinExpressions, MaxTokens, MaxDistance  \* of license lists

Words == Vocabulary \cup Stopwords \cup {Unknown}

ASSUME MatchAssumption ==
    /\ Vocabulary \cap Stopwords = {} /\ Unknown \notin Vocabulary \cup Stopwords
    /\ IsFiniteSet(Rules) /\ Expression \in [Rules -> Nat]
    /\ ReportedExpression \in [Rules -> Nat]
    /\ RuleTokens \in [Rules -> Seq(Vocabulary)]
    /\ RuleStopwords \in [Rules -> Seq(Nat)]
    /\ Strict \subseteq Rules /\ Variable \subseteq Rules
    /\ KindOf \in [Rules -> {"text", "notice", "reference", "clue"}]
    /\ Number \in [Words -> Nat]
    /\ MinMatches \in Nat \ {0} /\ MinExpressions \in Nat
    /\ MaxTokens \in Nat /\ MaxDistance \in Nat
    /\ Texts \subseteq Seq(Words)
    /\ Threshold \in 1..Limit /\ Limit \in Nat

VARIABLES
    text,      \* the input
    stage,     \* where the call is
    method,    \* "none", "hash" or "exact"
    at,        \* the token the current pass is at
    count,     \* of the counting pass
    found,     \* the candidates
    unknownIndex, stopwordIndex,  \* where the second scan of the words is on
                                  \* the lists of those dropped
    offsets,   \* the places of the tokens it recovers
    detections, clues,  \* the result: the rules reported, with their first
                        \* and last word, in groups of an expression
    changed,   \* whether a license text was downgraded
    input, array, length, listIndex, groupStart, listPrevious, listPc

call == <<text, stage, method, at, count, found>>
scan == <<unknownIndex, stopwordIndex, offsets>>
result == <<detections, clues, changed>>
list == <<input, array, length, listIndex, groupStart, listPrevious, listPc>>
mvars == <<call, scan, result, list, vars>>

L == INSTANCE LicenseList WITH index <- listIndex, previous <- listPrevious,
                               pc <- listPc

-----------------------------------------------------------------------------
(* TokenizeIDsAppend: the tokens, and for each word dropped the number of  *)
(* tokens before it.                                                       *)
places == [i \in DOMAIN text |-> i]
WordsOf(kind) == {i \in DOMAIN text : text[i] \in kind}
PlacesOf(kind) == Selected(places, WordsOf(kind))
TokensBefore(i) == Cardinality({j \in 1..(i - 1) : text[j] \in Vocabulary})
After(kind) ==
    LET dropped == PlacesOf(kind)
    IN  [k \in DOMAIN dropped |-> TokensBefore(dropped[k])]

ids == Selected(text, WordsOf(Vocabulary))
unknownAfter == After({Unknown})
stopwordAfter == After(Stopwords)
hasOmittedWords == unknownAfter # <<>> \/ stopwordAfter # <<>>

(* AppendOutputs, in the state the automaton is in after p tokens: the     *)
(* longest rule first, and of those with the same tokens the last one.     *)
Occurrence(rule, p) ==
    [rule |-> rule, start |-> p - Len(RuleTokens[rule]), end |-> p]

Ending(p) ==
    {r \in Rules : /\ Len(RuleTokens[r]) \in 1..p
                   /\ SubSeq(ids, p - Len(RuleTokens[r]) + 1, p) = RuleTokens[r]}

Outputs(p) ==
    LET here == Ending(p)
        Earlier(r, s) ==
            \/ Len(RuleTokens[r]) > Len(RuleTokens[s])
            \/ Len(RuleTokens[r]) = Len(RuleTokens[s]) /\ r > s
    IN  [k \in 1..Cardinality(here) |->
            Occurrence(CHOOSE r \in here :
                          Cardinality({s \in here : Earlier(s, r)}) = k - 1, p)]

(* Mutant of HashMatches: what the hash finds is not looked up in the      *)
(* automaton.                                                              *)
HashUnverified ==
    LET same == {r \in Rules : Len(RuleTokens[r]) = Len(ids)
                                /\ Hash(RuleTokens[r]) = Hash(ids)}
        Nth(k) == CHOOSE r \in same : Cardinality({s \in same : s < r}) = k - 1
    IN  IF ids = <<>> THEN <<>>
        ELSE [k \in 1..Cardinality(same) |-> Occurrence(Nth(k), Len(ids))]

(* hashMatches: the rules with the hash of the input, in the order of the  *)
(* corpus, that are as long and end where the input ends.                  *)
HashMatches ==
    LET ending == Outputs(Len(ids))
        same   == {k \in DOMAIN ending :
                      /\ ending[k].start = 0
                      /\ Hash(RuleTokens[ending[k].rule]) = Hash(ids)}
    IN  IF ids = <<>> THEN <<>> ELSE Reverse(Selected(ending, same))

-----------------------------------------------------------------------------
MInit ==
    /\ text \in Texts
    /\ stage = "start" /\ method = "none"
    /\ at = 0 /\ count = 0 /\ found = <<>>
    /\ unknownIndex = 1 /\ stopwordIndex = 1 /\ offsets = <<>>
    /\ detections = <<>> /\ clues = <<>> /\ changed = FALSE
    /\ input = <<>> /\ array = <<>> /\ length = 0 /\ listIndex = 0
    /\ groupStart = 0 /\ listPrevious = <<>> /\ listPc = "idle"
    /\ matches = <<>> /\ states = <<>> /\ sweep = "sort"
    /\ index = 1 /\ next = 0 /\ maxEnd = -1 /\ previous = 0
    /\ position = 1 /\ union = <<>> /\ kept = <<>>

NoTokens ==
    /\ stage = "start" /\ ids = <<>>
    /\ stage' = "done"
    /\ UNCHANGED <<text, method, at, count, found, scan, result, list, vars>>

(* The hash is only looked up for inputs without unknown words.            *)
ByHash ==
    /\ stage = "start" /\ unknownAfter = <<>> /\ HashMatches # <<>>
    /\ method' = "hash" /\ found' = HashMatches
    /\ stage' = "omitted"
    /\ UNCHANGED <<text, at, count, scan, result, list, vars>>

ByAutomaton ==
    /\ stage = "start" /\ ids # <<>>
    /\ unknownAfter # <<>> \/ HashMatches = <<>>
    /\ method' = "exact" /\ stage' = "first"
    /\ UNCHANGED <<text, at, count, found, scan, result, list, vars>>

(* collectAhoMatches: with the threshold reached the candidates are let go *)
(* and the passes of collectManyExactMatches begin.  (The limit, checked   *)
(* here as well, lies beyond the threshold.)                               *)
FirstPass ==
    LET more == found \o Outputs(at + 1)
    IN  /\ stage = "first" /\ at < Len(ids)
        /\ IF Len(more) >= Threshold
           THEN stage' = "count" /\ at' = 0 /\ found' = <<>>
           ELSE stage' = stage /\ at' = at + 1 /\ found' = more
        /\ UNCHANGED <<text, method, count, scan, result, list, vars>>

(* Mutant of CountPass: the limit is noticed one candidate too early.      *)
CountPassShort ==
    /\ stage = "count" /\ at < Len(ids)
    /\ count' = count + Len(Outputs(at + 1))
    /\ at' = at + 1
    /\ stage' = IF count' >= Limit THEN "tooMany" ELSE stage
    /\ UNCHANGED <<text, method, found, scan, result, list, vars>>

(* The first candidate beyond the limit ends the call.                     *)
CountPass ==
    /\ stage = "count" /\ at < Len(ids)
    /\ count' = count + Len(Outputs(at + 1))
    /\ at' = at + 1
    /\ stage' = IF count' > Limit THEN "tooMany" ELSE stage
    /\ UNCHANGED <<text, method, found, scan, result, list, vars>>

SecondPass ==
    /\ stage = "second" /\ at < Len(ids)
    /\ found' = found \o Outputs(at + 1)
    /\ at' = at + 1
    /\ UNCHANGED <<text, stage, method, count, scan, result, list, vars>>

EndPass ==
    /\ stage \in {"first", "count", "second"} /\ at = Len(ids)
    /\ stage' = IF stage = "count" THEN "second" ELSE "omitted"
    /\ at' = 0
    /\ UNCHANGED <<text, method, count, found, scan, result, list, vars>>

-----------------------------------------------------------------------------
Within(m, positions) ==
    Selected(positions, {k \in DOMAIN positions :
                             m.start < positions[k] /\ positions[k] < m.end})

(* matchSpansOmittedWord                                                   *)
SpansUnknown(m) == Within(m, unknownAfter) # <<>>

(* stopwordsAlign: the words dropped within the match are those dropped    *)
(* from the rule.                                                          *)
StopwordsAlign(m) ==
    LET dropped == Within(m, stopwordAfter)
    IN  [k \in DOMAIN dropped |-> dropped[k] - m.start] = RuleStopwords[m.rule]

(* filterOmittedSpanningMatches                                            *)
Allowed(m) ==
    /\ SpansUnknown(m) => m.rule \in Variable \ Strict
    /\ m.rule \in Strict => StopwordsAlign(m)

hasStrictStopwords == \E r \in Strict : RuleStopwords[r] # <<>>

Remaining ==
    IF hasOmittedWords \/ hasStrictStopwords
    THEN Selected(found, {k \in DOMAIN found : Allowed(found[k])})
    ELSE found

(* The candidates of the hash may all be out of place: the automaton may   *)
(* still find smaller ones.                                                *)
FallBack ==
    /\ stage = "omitted" /\ method = "hash" /\ Remaining = <<>>
    /\ method' = "exact" /\ stage' = "first" /\ found' = <<>>
    /\ UNCHANGED <<text, at, count, scan, result, list, vars>>

(* What is left is what the filter gets, after a second scan of the words  *)
(* if some were dropped.                                                   *)
StartFilter ==
    /\ stage = "omitted" /\ (method = "exact" \/ Remaining # <<>>)
    /\ found' = Remaining /\ matches' = Remaining
    /\ states' = [i \in DOMAIN Remaining |-> "active"]
    /\ stage' = IF Remaining # <<>> /\ method = "exact" /\ hasOmittedWords
                THEN "offsets" ELSE "filter"
    /\ UNCHANGED <<text, method, at, count, scan, result, list, sweep,
                   locals, kept>>

(* KnownTokenOffsetsAppend: a word is one of those dropped if the next     *)
(* number on either list is that of the tokens so far.                     *)
IsNext(positions, k) == k <= Len(positions) /\ positions[k] = Len(offsets)

NextWord ==
    /\ stage = "offsets" /\ at < Len(text) /\ at' = at + 1
    /\ UNCHANGED <<text, stage, method, count, found, result, list, vars>>

SkipUnknown ==
    /\ NextWord
    /\ IsNext(unknownAfter, unknownIndex)
    /\ unknownIndex' = unknownIndex + 1
    /\ UNCHANGED <<stopwordIndex, offsets>>

SkipStopword ==
    /\ NextWord
    /\ ~IsNext(unknownAfter, unknownIndex) /\ IsNext(stopwordAfter, stopwordIndex)
    /\ stopwordIndex' = stopwordIndex + 1
    /\ UNCHANGED <<unknownIndex, offsets>>

(* Mutant of KnownToken: stopwords are taken for tokens.                   *)
KnownWord ==
    /\ NextWord
    /\ ~IsNext(unknownAfter, unknownIndex)
    /\ offsets' = Append(offsets, at + 1)
    /\ UNCHANGED <<unknownIndex, stopwordIndex>>

KnownToken ==
    /\ NextWord
    /\ ~IsNext(unknownAfter, unknownIndex) /\ ~IsNext(stopwordAfter, stopwordIndex)
    /\ offsets' = Append(offsets, at + 1)
    /\ UNCHANGED <<unknownIndex, stopwordIndex>>

EndScan ==
    /\ stage = "offsets" /\ at = Len(text)
    /\ stage' = "filter" /\ at' = 0
    /\ UNCHANGED <<text, method, count, found, scan, result, list, vars>>

ScanStep == SkipUnknown \/ SkipStopword \/ KnownToken \/ EndScan

FilterStep == stage = "filter" /\ Step /\ UNCHANGED <<call, scan, result, list>>

(* filterLicenseListMatches, of what the filter has chosen.                *)
Listable(m) ==
    [rule |-> m.rule, start |-> m.start, end |-> m.end,
     expression |-> Expression[m.rule],
     names |-> KindOf[m.rule] \in {"reference", "clue"}]

StartLists ==
    /\ stage = "filter" /\ sweep = "done"
    /\ method = "exact" /\ Len(kept) >= MinMatches
    /\ L!Start([matches |-> [k \in DOMAIN kept |-> Listable(kept[k])],
                dropped |-> unknownAfter \o stopwordAfter,
                words |-> Len(text)])
    /\ stage' = "lists"
    /\ UNCHANGED <<text, method, at, count, found, scan, result, vars>>

ListStep == stage = "lists" /\ L!Loop /\ UNCHANGED <<call, scan, result, vars>>

(* Without dropped words TokenOffsetsAppend, which takes every word for a  *)
(* token, is looked up only now.  A hash match goes from the first to the  *)
(* last token.                                                             *)
Located(m) ==
    LET where == IF offsets = <<>> THEN places ELSE offsets
        tokens == PlacesOf(Vocabulary)
    IN  IF method = "hash"
        THEN [rule |-> m.rule, kind |-> KindOf[m.rule],
              first |-> Head(tokens), last |-> Last(tokens)]
        ELSE [rule |-> m.rule, kind |-> KindOf[m.rule],
              first |-> where[m.start + 1], last |-> where[m.end]]

(* addExactMatches, for one match after the other.                         *)
Chosen == IF listPc = "filtered" THEN SubSeq(array, 1, length) ELSE kept

StartGroups ==
    /\ \/ stage = "lists" /\ listPc = "filtered"
       \/ /\ stage = "filter" /\ sweep = "done"
          /\ ~(method = "exact" /\ Len(kept) >= MinMatches)
    /\ stage' = "groups"
    /\ UNCHANGED <<text, method, at, count, found, scan, result, list, vars>>

AddClue(m) ==
    /\ m.kind = "clue"
    /\ clues' = Append(clues, m)
    /\ UNCHANGED <<detections, changed>>

(* Mutant of AddToDetection: the group of any expression will do.          *)
AddToAnyDetection(m) ==
    /\ m.kind # "clue"
    /\ \E g \in DOMAIN detections :
          detections' = [detections EXCEPT ![g].matches = Append(@, m)]
    /\ UNCHANGED <<clues, changed>>

(* A match goes to the group of its reported expression, in which several  *)
(* that the filter tells apart may be one, and which the first of them     *)
(* opens; detectionCounts turns into the index of the group.               *)
AddToDetection(m) ==
    /\ m.kind # "clue"
    /\ \E g \in DOMAIN detections :
          /\ detections[g].expression = ReportedExpression[m.rule]
          /\ detections' = [detections EXCEPT ![g].matches = Append(@, m)]
    /\ UNCHANGED <<clues, changed>>

OpenDetection(m) ==
    /\ m.kind # "clue"
    /\ \A g \in DOMAIN detections : detections[g].expression # ReportedExpression[m.rule]
    /\ detections' = Append(detections, [expression |-> ReportedExpression[m.rule],
                                        matches |-> <<m>>])
    /\ UNCHANGED <<clues, changed>>

AddMatch ==
    LET m == Located(Chosen[at + 1])
    IN  /\ stage = "groups" /\ at < Len(Chosen) /\ at' = at + 1
        /\ AddClue(m) \/ AddToDetection(m) \/ OpenDetection(m)
        /\ UNCHANGED <<text, stage, method, count, found, scan, list, vars>>

EndGroups ==
    /\ stage = "groups" /\ at = Len(Chosen)
    /\ stage' = "downgrade" /\ at' = 0
    /\ UNCHANGED <<text, method, count, found, scan, result, list, vars>>

GroupStep == StartGroups \/ AddMatch \/ EndGroups

(* continuesNumberedClause: the line after the match begins with the       *)
(* number after the last one a line of the match begins with; a number at  *)
(* its very end is followed by nothing in the match.                       *)
Continues(m) ==
    LET numbered == {i \in m.first..(m.last - 1) : Number[text[i]] > 0}
        last == CHOOSE i \in numbered : \A j \in numbered : j <= i
    IN  /\ numbered # {} /\ m.last < Len(text)
        /\ Number[text[m.last + 1]] = Number[text[last]] + 1

Downgraded(m) == m.kind = "text" /\ Continues(m)

(* downgradeContinuedText, for one detection after the other.              *)
DowngradeDetection ==
    LET ms   == detections[at + 1].matches
        gone == {i \in DOMAIN ms : Downgraded(ms[i])}
    IN  /\ stage = "downgrade" /\ at < Len(detections) /\ at' = at + 1
        /\ detections' = [detections EXCEPT
                            ![at + 1].matches = Selected(ms, DOMAIN ms \ gone)]
        /\ clues' = clues \o Selected([i \in DOMAIN ms |->
                                         [ms[i] EXCEPT !.kind = "clue"]], gone)
        /\ changed' = (changed \/ gone # {})
        /\ UNCHANGED <<text, stage, method, count, found, scan, list, vars>>

(* A sort, of the elements of s that are to come before others.  Equal     *)
(* ones, which slices.SortFunc may turn around, are the same here.         *)
Arranged(s, before) ==
    LET Ahead(i, j) == \/ <<i, j>> \in before
                       \/ <<j, i>> \notin before /\ i < j
    IN  [k \in DOMAIN s |->
            s[CHOOSE j \in DOMAIN s :
                 Cardinality({i \in DOMAIN s : Ahead(i, j)}) = k - 1]]

(* compareMatches of sortMatches; rules are numbered in the order of their *)
(* identifiers and a result has one method.                                *)
Earlier(m, l) ==
    \/ m.first < l.first
    \/ m.first = l.first /\ (m.last < l.last \/ (m.last = l.last /\ m.rule < l.rule))

SortedMatches(ms) ==
    Arranged(ms, {q \in (DOMAIN ms) \X (DOMAIN ms) : Earlier(ms[q[1]], ms[q[2]])})

EarlierDetection(d, e) ==
    \/ d.matches[1].first < e.matches[1].first
    \/ /\ d.matches[1].first = e.matches[1].first
       /\ d.expression < e.expression

SortedDetections(ds) ==
    Arranged(ds, {q \in (DOMAIN ds) \X (DOMAIN ds) :
                     EarlierDetection(ds[q[1]], ds[q[2]])})

(* Mutant of SortedIf: the order of the filter is trusted.                 *)
SortedNever(ms) == ms

(* sortMatches runs only if the downgrade changed something.               *)
SortedIf(ms) == IF changed THEN SortedMatches(ms) ELSE ms

(* A detection with nothing left is gone; the others are always sorted.    *)
Finish ==
    LET left == Selected(detections,
                         {d \in DOMAIN detections : detections[d].matches # <<>>})
    IN  /\ stage = "downgrade" /\ at = Len(detections)
        /\ detections' = SortedDetections(
                [d \in DOMAIN left |-> [left[d] EXCEPT !.matches = SortedIf(@)]])
        /\ clues' = SortedIf(clues)
        /\ stage' = "done" /\ changed' = changed
        /\ UNCHANGED <<text, method, at, count, found, scan, list, vars>>

(* A canceled context is noticed at the start, every 4096 tokens of a pass *)
(* or iterations of a sweep, and after the offsets; any of those may here. *)
MInterrupted ==
    /\ stage \in {"start", "first", "count", "second", "filter", "lists", "groups"}
    /\ stage' = "canceled"
    /\ UNCHANGED <<text, method, at, count, found, scan, result, list, vars>>

MEnded == stage \in {"done", "tooMany", "canceled"} /\ UNCHANGED mvars

MatchStep ==
    \/ NoTokens \/ ByHash \/ ByAutomaton
    \/ FirstPass \/ CountPass \/ SecondPass \/ EndPass
    \/ FallBack \/ StartFilter \/ ScanStep \/ FilterStep
    \/ StartLists \/ ListStep \/ GroupStep \/ DowngradeDetection \/ Finish

MNext == MatchStep \/ MInterrupted \/ MEnded

MSpec == MInit /\ [][MNext]_mvars

-----------------------------------------------------------------------------
(* Where the tokens of a rule stand in a row among those of the input.     *)
Occurrences ==
    {m \in [rule : Rules, start : 0..Len(ids), end : 0..Len(ids)] :
        m.start < m.end /\ SubSeq(ids, m.start + 1, m.end) = RuleTokens[m.rule]}

(* However many passes it takes, the automaton's candidates are all the    *)
(* occurrences of rules, each of them once, and the call is given up       *)
(* exactly when there are more of them than the limit.                     *)
CollectionExact ==
    /\ stage = "omitted" /\ method = "exact" =>
          /\ {found[k] : k \in DOMAIN found} = Occurrences
          /\ Len(found) = Cardinality(Occurrences)
          /\ Len(found) <= Limit
    /\ stage = "tooMany" => Cardinality(Occurrences) > Limit

(* The matches of the result, each at its position.                        *)
Positions ==
    {<<0, i>> : i \in DOMAIN clues} \cup
    UNION {{<<d, i>> : i \in DOMAIN detections[d].matches} : d \in DOMAIN detections}

Reported(p) == IF p[1] = 0 THEN clues[p[2]] ELSE detections[p[1]].matches[p[2]]

(* Every match reported is in the input, where it is reported: its first   *)
(* and last word are tokens, the tokens between them are the rule's, no    *)
(* unknown word is among them unless the rule may be variable and is not   *)
(* strict, and for a strict rule the stopwords are where the rule has      *)
(* them.  The places come from a second scan of the input and the lists of *)
(* dropped words, or from the first and last token of a hash match.        *)
Sound(m) ==
    LET words == m.first..m.last
        Of(kind) == {i \in words : text[i] \in kind}
        stops == Selected(places, Of(Stopwords))
    IN  /\ {m.first, m.last} \subseteq Of(Vocabulary)
        /\ Selected(text, Of(Vocabulary)) = RuleTokens[m.rule]
        /\ m.rule \notin Variable \ Strict => Of({Unknown}) = {}
        /\ m.rule \in Strict =>
              [k \in DOMAIN stops |-> Cardinality({i \in Of(Vocabulary) : i < stops[k]})]
                  = RuleStopwords[m.rule]

MatchesSound == stage = "done" => \A p \in Positions : Sound(Reported(p))

(* When some rule allowed there is the whole input, the result is the      *)
(* first such rule alone, or nothing if it is a false positive: the hash,  *)
(* which only knows of such rules, gives what the automaton and all the    *)
(* sweeps of the filter give for the same tokens.                          *)
WholeInputRule ==
    LET whole == {m \in Occurrences :
                    m.start = 0 /\ m.end = Len(ids) /\ Allowed(m)}
        first == CHOOSE m \in whole : \A l \in whole : m.rule <= l.rule
    IN  stage = "done" /\ whole # {} =>
            IF first.rule \in FalsePositives THEN Positions = {}
            ELSE \E p \in Positions : Positions = {p} /\ Reported(p).rule = first.rule

(* The list filter drops exactly the lists, whatever arrays it overwrites. *)
ListsDropped == L!ListsDropped

(* The result is in order throughout - the detections, the matches of each *)
(* and the clues - although matches and clues are only sorted after a      *)
(* downgrade; it has each chosen match once, one detection for each        *)
(* expression, none of them empty, and no license text that a numbered     *)
(* clause continues is left in a detection (addExactMatches, sortResult,   *)
(* downgradeContinuedText: "Another numbered condition makes the matched   *)
(* prefix incomplete").                                                    *)
Ascending(ms) == \A i, j \in DOMAIN ms : i < j => Earlier(ms[i], ms[j])

GoesOn(m) ==
    \E i \in m.first..(m.last - 1) :
        /\ Number[text[i]] > 0
        /\ \A j \in (i + 1)..(m.last - 1) : Number[text[j]] = 0
        /\ m.last < Len(text) /\ Number[text[m.last + 1]] = Number[text[i]] + 1

ResultOrdered ==
    stage = "done" =>
        /\ Ascending(clues)
        /\ \A d \in DOMAIN detections :
              /\ detections[d].matches # <<>>
              /\ Ascending(detections[d].matches)
              /\ \A i \in DOMAIN detections[d].matches :
                    LET m == detections[d].matches[i]
                    IN  /\ ReportedExpression[m.rule] = detections[d].expression
                        /\ ~(m.kind = "text" /\ GoesOn(m))
        /\ \A d, e \in DOMAIN detections : d < e =>
              /\ detections[d].expression # detections[e].expression
              /\ detections[d].matches[1].first <= detections[e].matches[1].first
        /\ \A p, q \in Positions : Reported(p).first = Reported(q).first => p = q
        /\ {<<Reported(p).rule, Reported(p).first>> : p \in Positions}
             = {<<Chosen[k].rule, Located(Chosen[k]).first>> : k \in DOMAIN Chosen}
=============================================================================
