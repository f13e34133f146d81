----------------------------- MODULE CorpusIndex ----------------------------
(***************************************************************************)
(* What becomes of a ScanCode checkout: the index corpusgen builds of it   *)
(* (cmd/corpusgen/main.go), the sections internal/corpus/format.go writes  *)
(* and the checks it reads them with, the engine that matcher.go makes of  *)
(* an index, and the SPDX identifiers of spdx.go.                          *)
(*                                                                         *)
(* Words and rule IDs are numbers, in the order of their bytes.  A token   *)
(* hash is the tokens it is computed from (MatchInput has collisions), and *)
(* an automaton is its patterns (Automaton has its nodes and its bytes).   *)
(* An expression is the list of its identifiers.  Relevance and varints    *)
(* are left out; strings are never too long.                               *)
(***************************************************************************)
EXTENDS Integers, Sequences, FiniteSets, TLC

LOCAL INSTANCE SequencesExt
LOCAL INSTANCE FiniteSetsExt
LOCAL INSTANCE Functions

CONSTANTS
    MaxRuleCount, MaxWordCount, MaxTokenCount, MaxNodeCount,
    AttributionOnly  \* rule IDs that newMatchEngine makes clues

-----------------------------------------------------------------------------
(* An identifier is a name after a prefix ("" or "LicenseRef-scancode-" or *)
(* that of another custom reference), with upper-case letters or without.  *)
PrefixOrder == <<"", "scancode", "custom">>

NoIdentifier == [prefix |-> "", name |-> 0, cased |-> FALSE]

ToLower(id) == [id EXCEPT !.cased = FALSE]
LicenseRef(key) == [prefix |-> "scancode", name |-> key.name, cased |-> TRUE]

(* The order of sort.Strings, on lower-case identifiers.                   *)
StringBefore(a, b) ==
    LET Place(id) == CHOOSE i \in DOMAIN PrefixOrder : PrefixOrder[i] = id.prefix
    IN  Place(a) < Place(b) \/ (Place(a) = Place(b) /\ a.name < b.name)

StrictlySorted(list) == \A i \in 2..Len(list) : list[i - 1] < list[i]

-----------------------------------------------------------------------------
(* Loading the checkout: its directories are lists of files in name order. *)
Loaded(directory) == SelectSeq(directory, LAMBDA file : ~file.other)

LoadRule(file, licenseText) ==
    [ID         |-> file.name,
     Expression |-> IF licenseText THEN <<file.key>> ELSE file.expression,
     Flags      |-> file.flags \cup (IF licenseText THEN {"text"} ELSE {}),
     Text       |-> file.text]

LoadDirectory(directory, licenseText) ==
    LET files == Loaded(directory)
    IN  [i \in DOMAIN files |-> LoadRule(files[i], licenseText)]

LoadFails(source) ==
    LET files == Range(Loaded(source.licenses)) \cup Range(Loaded(source.rules))
    IN  \/ source.stopwords = <<>> \/ ~IsInjective(source.stopwords)
        \/ \E file \in files : file.malformed
        \/ \E file \in Range(Loaded(source.licenses)) : file.key = NoIdentifier
        \/ \E file \in Range(Loaded(source.rules)) :
              file.expression = <<>> /\ "false-positive" \notin file.flags

(* Mutant of AddSPDXKey: the last license that has the identifier gets it. *)
AddSPDXKeyAgain(keys, spdx, key) ==
    IF spdx = NoIdentifier THEN keys ELSE (ToLower(spdx) :> key) @@ keys

AddSPDXKey(keys, spdx, key) ==
    IF spdx = NoIdentifier \/ ToLower(spdx) \in DOMAIN keys
    THEN keys
    ELSE (ToLower(spdx) :> key) @@ keys

ReportingID(license) ==
    IF license.spdx = NoIdentifier THEN LicenseRef(license.key) ELSE license.spdx

ReportingIDs(licenses) ==
    FoldLeft(LAMBDA ids, license :
                 (ToLower(license.key) :> ReportingID(license)) @@ ids,
             <<>>, licenses)

(* Own keys first, then the primary identifiers, then the aliases.         *)
SPDXKeys(licenses) ==
    LET own == FoldLeft(LAMBDA keys, license :
                            AddSPDXKey(keys, license.key, license.key),
                        <<>>, licenses)
        primary == FoldLeft(LAMBDA keys, license :
                                AddSPDXKey(keys,
                                    ReportingIDs(licenses)[ToLower(license.key)],
                                    license.key),
                            own, licenses)
    IN  FoldLeft(LAMBDA keys, license :
                     FoldLeft(LAMBDA more, other : AddSPDXKey(more, other, license.key),
                              keys, license.others),
                 primary, licenses)

-----------------------------------------------------------------------------
(* buildIndex.  A mask without flags selects every rule.                   *)
Records(source, mask) ==
    LET loaded == LoadDirectory(source.licenses, TRUE)
                      \o LoadDirectory(source.rules, FALSE)
    IN  SetToSortSeq({r \in Range(loaded) : mask = {} \/ r.Flags \cap mask # {}},
                     LAMBDA a, b : a.ID < b.ID)

BuildFails(source, mask) ==
    LoadFails(source) \/ (mask # {} /\ Records(source, mask) = <<>>)

NewVocabulary(texts, stopwords) ==
    SetToSortSeq(UNION {Range(text) : text \in texts} \cup stopwords, <)

IDOf(vocabulary, word) == CHOOSE i \in DOMAIN vocabulary : vocabulary[i] = word

TokenizeIDs(vocabulary, stopwords, text) ==
    FoldLeft(LAMBDA t, word :
                 IF word \in stopwords
                 THEN [t EXCEPT !.StopwordAfter = Append(@, Len(t.IDs))]
                 ELSE [t EXCEPT !.IDs = Append(@, IDOf(vocabulary, word))],
             [IDs |-> <<>>, StopwordAfter |-> <<>>], text)

(* Stopwords before the first token, or after the last, are no part of it. *)
Within(positions, count) ==
    SelectSeq(positions, LAMBDA after : after > 0 /\ after < count)

Strict(flags) == flags \cap {"continuous", "required-phrase"} # {}

Tokenized(record, vocabulary, stopwords) ==
    LET tokens == TokenizeIDs(vocabulary, stopwords, record.Text)
    IN  [ID |-> record.ID, Expression |-> record.Expression, Flags |-> record.Flags,
         Tokens |-> tokens.IDs, TokenCount |-> 0, TokenHash |-> <<>>,
         StopwordAfter |-> IF Strict(record.Flags)
                           THEN Within(tokens.StopwordAfter, Len(tokens.IDs))
                           ELSE <<>>]

Patterns(rules) ==
    [value \in {i \in DOMAIN rules : rules[i].Tokens # <<>>} |-> rules[value].Tokens]

NoAutomaton == [patterns |-> <<>>, values |-> 0]

BuildAutomaton(rules) == [patterns |-> Patterns(rules), values |-> Len(rules)]

BuildIndex(source, mask) ==
    LET records    == Records(source, mask)
        stopwords  == Range(source.stopwords)
        vocabulary == NewVocabulary({r.Text : r \in Range(records)}, stopwords)
        rules      == [i \in DOMAIN records |->
                          Tokenized(records[i], vocabulary, stopwords)]
    IN  [Version |-> source.version, RuleCount |-> Len(records),
         Vocabulary |-> vocabulary,
         StopwordIDs |-> SetToSortSeq({IDOf(vocabulary, w) : w \in stopwords}, <),
         Rules |-> rules,
         Automaton |-> BuildAutomaton(rules),
         SPDXKeys |-> SPDXKeys(Loaded(source.licenses)),
         ReportingIDs |-> ReportingIDs(Loaded(source.licenses))]

-----------------------------------------------------------------------------
(* The checks before writing, most of which Read makes again.  They ask    *)
(* for no length of a rule's stopwords, nor for one of the automaton.      *)
ValidStopwordIDs(ids, size) ==
    StrictlySorted(ids) /\ Range(ids) \subseteq 1..size

ValidPositions(positions, count) ==
    /\ \A i \in DOMAIN positions : 0 < positions[i] /\ positions[i] < count
    /\ \A i \in 2..Len(positions) : positions[i - 1] <= positions[i]

ValidMap(map) ==
    /\ Cardinality(DOMAIN map) <= MaxRuleCount
    /\ NoIdentifier \notin DOMAIN map \cup Range(map)

ValidIndex(index, storeAutomaton) ==
    LET rules == index.Rules
    IN  /\ Len(rules) <= MaxRuleCount /\ index.RuleCount \in {0, Len(rules)}
        /\ Len(index.Vocabulary) <= MaxWordCount
        /\ StrictlySorted(index.Vocabulary)
        /\ ValidStopwordIDs(index.StopwordIDs, Len(index.Vocabulary))
        /\ StrictlySorted([i \in DOMAIN rules |-> rules[i].ID])
        /\ \A rule \in Range(rules) :
              /\ rule.Expression # <<>> \/ "false-positive" \in rule.Flags
              /\ Len(rule.Tokens) <= MaxTokenCount
              /\ Range(rule.Tokens) \subseteq 1..Len(index.Vocabulary)
              /\ ValidPositions(rule.StopwordAfter, Len(rule.Tokens))
        /\ storeAutomaton => index.Automaton.values = Len(rules)
        /\ ValidMap(index.SPDXKeys) /\ ValidMap(index.ReportingIDs)

TokenTotal(rules) == FoldLeft(LAMBDA n, rule : n + Len(rule.Tokens), 0, rules)

RebuildFails(rules) == TokenTotal(rules) >= MaxNodeCount

EncodeFails(index, storeAutomaton) ==
    \/ ~ValidIndex(index, storeAutomaton)
    \/ ~storeAutomaton /\ RebuildFails(index.Rules)

-----------------------------------------------------------------------------
FormatVersion == 8
LegacyFormatVersion == 7

RuleSection(rules) ==
    [i \in DOMAIN rules |->
        [ID |-> rules[i].ID, Expression |-> rules[i].Expression,
         Flags |-> rules[i].Flags, Tokens |-> rules[i].Tokens,
         StopwordAfter |-> rules[i].StopwordAfter]]

AutomatonSection(version, automaton, store) ==
    [marker    |-> IF version = LegacyFormatVersion THEN "none"
                   ELSE IF store THEN "stored" ELSE "omitted",
     automaton |-> IF store THEN automaton ELSE NoAutomaton]

MapSection(map) ==
    LET keys == SetToSortSeq(DOMAIN map, StringBefore)
    IN  [i \in DOMAIN keys |-> <<keys[i], map[keys[i]]>>]

(* The sections in their order, and the checksum that ends the gzip stream. *)
Encode(index, version, storeAutomaton) ==
    << <<version, index.Version>>,
       index.Vocabulary,
       index.StopwordIDs,
       RuleSection(index.Rules),
       AutomatonSection(version, index.Automaton, storeAutomaton),
       MapSection(index.SPDXKeys),
       MapSection(index.ReportingIDs),
       "checksum" >>

Sections == 8

(* The root and one node for each nonempty prefix of a pattern.            *)
NodeCount(automaton) ==
    LET patterns == automaton.patterns
    IN  1 + Cardinality(UNION {{SubSeq(patterns[v], 1, n) : n \in 1..Len(patterns[v])} :
                                  v \in DOMAIN patterns})

ReadRuleFails(rule, words) ==
    \/ Len(rule.Tokens) > MaxTokenCount \/ Len(rule.StopwordAfter) > MaxTokenCount
    \/ ~(Range(rule.Tokens) \subseteq 1..words)
    \/ ~ValidPositions(rule.StopwordAfter, Len(rule.Tokens))

ReadMapFails(pairs) ==
    \/ Len(pairs) > MaxRuleCount
    \/ \E i \in DOMAIN pairs : NoIdentifier \in Range(pairs[i])
    \/ \E i \in 2..Len(pairs) : ~StringBefore(pairs[i - 1][1], pairs[i][1])

ReadAutomatonFails(section, rules, retain) ==
    IF section.marker = "omitted"
    THEN ~retain \/ RebuildFails(rules)
    ELSE \/ NodeCount(section.automaton) > MaxNodeCount
         \/ section.automaton.values # Len(rules)

(* Read and ReadRuntime: the sections that are missing from a file that is *)
(* cut off are the end of the input to whoever reads them.                 *)
ReadFails(file, retain) ==
    \/ Len(file) < Sections
    \/ file[1][1] \notin {FormatVersion, LegacyFormatVersion}
    \/ Len(file[2]) > MaxWordCount \/ Len(file[3]) > MaxWordCount
    \/ ~StrictlySorted(file[2])
    \/ ~ValidStopwordIDs(file[3], Len(file[2]))
    \/ Len(file[4]) > MaxRuleCount
    \/ ~StrictlySorted([i \in DOMAIN file[4] |-> file[4][i].ID])
    \/ \E rule \in Range(file[4]) : ReadRuleFails(rule, Len(file[2]))
    \/ ReadAutomatonFails(file[5], file[4], retain)
    \/ ReadMapFails(file[6]) \/ ReadMapFails(file[7])

ReadMap(pairs) ==
    [key \in {pairs[i][1] : i \in DOMAIN pairs} |->
        pairs[CHOOSE i \in DOMAIN pairs : pairs[i][1] = key][2]]

(* Mutant of ReadRule: the count of a rule's tokens goes with them.        *)
ReadRuleUncounted(rule, retain) ==
    [ID |-> rule.ID, Expression |-> rule.Expression, Flags |-> rule.Flags,
     Tokens        |-> IF retain THEN rule.Tokens ELSE <<>>,
     TokenCount    |-> IF retain THEN Len(rule.Tokens) ELSE 0,
     TokenHash     |-> rule.Tokens,
     StopwordAfter |-> rule.StopwordAfter]

ReadRule(rule, retain) ==
    [ID |-> rule.ID, Expression |-> rule.Expression, Flags |-> rule.Flags,
     Tokens        |-> IF retain THEN rule.Tokens ELSE <<>>,
     TokenCount    |-> Len(rule.Tokens),
     TokenHash     |-> rule.Tokens,
     StopwordAfter |-> rule.StopwordAfter]

ReadIndex(file, retain) ==
    LET rules == [i \in DOMAIN file[4] |-> ReadRule(file[4][i], retain)]
    IN  [Version |-> file[1][2], RuleCount |-> Len(rules),
         Vocabulary |-> file[2], StopwordIDs |-> file[3], Rules |-> rules,
         Automaton |-> IF file[5].marker = "omitted" THEN BuildAutomaton(rules)
                       ELSE file[5].automaton,
         SPDXKeys |-> ReadMap(file[6]), ReportingIDs |-> ReadMap(file[7])]

-----------------------------------------------------------------------------
(* buildSPDXIndex: what the corpus says comes before what rules mention.   *)
BuildSPDXIndex(index) ==
    LET mentioned == UNION {{ToLower(id) : id \in Range(rule.Expression)} :
                              rule \in {r \in Range(index.Rules) :
                                           "false-positive" \notin r.Flags}}
    IN  [keys |-> index.SPDXKeys @@ [id \in mentioned |-> id],
         reportingIDs |-> index.ReportingIDs @@ [id \in mentioned |-> LicenseRef(id)]]

UnknownSPDXKey == [prefix |-> "unknown", name |-> 0, cased |-> FALSE]

(* The ScanCode key of an identifier, or none.                             *)
Resolve(spdx, identifier) ==
    LET lower == ToLower(identifier)
        bare  == [lower EXCEPT !.prefix = ""]
        known == DOMAIN spdx.keys
    IN  CASE lower \in known -> {spdx.keys[lower]}
          [] lower \notin known /\ lower.prefix = "scancode" /\ bare \in known ->
                {spdx.keys[bare]}
          [] OTHER -> IF lower.prefix = "" THEN {} ELSE {UnknownSPDXKey}

Report(spdx, key) ==
    LET lower == ToLower(key)
    IN  IF lower \in DOMAIN spdx.reportingIDs THEN spdx.reportingIDs[lower]
        ELSE LicenseRef(lower)

ReportExpression(spdx, expression) ==
    [i \in DOMAIN expression |-> Report(spdx, expression[i])]

-----------------------------------------------------------------------------
(* newMatchEngine: a rule whose tokens were not kept has their count and   *)
(* their hash instead.                                                     *)
EngineFlags(rule) ==
    IF rule.ID \in AttributionOnly
    THEN (rule.Flags \ {"reference"}) \cup {"clue"}
    ELSE rule.Flags

TokenLength(rule) == IF rule.Tokens # <<>> THEN Len(rule.Tokens) ELSE rule.TokenCount
TokenHashOf(rule) == IF rule.Tokens # <<>> THEN rule.Tokens ELSE rule.TokenHash

Hashes(rules) ==
    LET hashed == {i \in DOMAIN rules : TokenLength(rules[i]) # 0}
    IN  [hash \in {TokenHashOf(rules[i]) : i \in hashed} |->
            SetToSortSeq({i \in hashed : TokenHashOf(rules[i]) = hash}, <)]

NewMatchEngine(index) ==
    LET spdx  == BuildSPDXIndex(index)
        rules == index.Rules
    IN  [info |-> <<index.Version, index.RuleCount>>,
         vocabulary |-> <<index.Vocabulary, Range(index.StopwordIDs)>>,
         rules |-> [i \in DOMAIN rules |->
                       <<rules[i].ID, rules[i].StopwordAfter, EngineFlags(rules[i])>>],
         ruleTokenLengths |-> [i \in DOMAIN rules |-> TokenLength(rules[i])],
         expressionMetadata |-> [i \in DOMAIN rules |->
                                    ReportExpression(spdx, rules[i].Expression)],
         hasStrictStopwords |-> \E rule \in Range(rules) :
                                    rule.StopwordAfter # <<>> /\ Strict(rule.Flags),
         automaton |-> index.Automaton,
         hashes |-> Hashes(rules),
         spdx |-> spdx]
=============================================================================
