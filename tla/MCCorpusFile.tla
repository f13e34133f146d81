---------------------------- MODULE MCCorpusFile ----------------------------
EXTENDS CorpusFile

Plain(n) == [prefix |-> "", name |-> n, cased |-> FALSE]
Cased(n) == [prefix |-> "", name |-> n, cased |-> TRUE]
Custom(n) == [prefix |-> "custom", name |-> n, cased |-> TRUE]

License(name, key, spdx, others, text) ==
    [name |-> name, other |-> FALSE, malformed |-> FALSE, key |-> key,
     spdx |-> spdx, others |-> others, expression |-> <<>>, flags |-> {},
     text |-> text]

RuleFile(name, expression, flags, text) ==
    [name |-> name, other |-> FALSE, malformed |-> FALSE, key |-> NoIdentifier,
     spdx |-> NoIdentifier, others |-> <<>>, expression |-> expression,
     flags |-> flags, text |-> text]

Source(licenses, rules) ==
    [version |-> "v1", pinned |-> TRUE, stopwords |-> <<4, 2>>,
     licenses |-> licenses, rules |-> rules]

(* Two licenses whose identifiers collide in every way, and a rule.        *)
Primaries == {NoIdentifier, Cased(1), Cased(2), Cased(3), Custom(1)}
Aliases == {<<>>, <<Cased(1)>>, <<Cased(3), Cased(5)>>}
Colliding(primary, aliases) ==
    Source(<<License(1, Plain(1), primary[1], aliases[1], <<1>>),
             License(2, Plain(2), primary[2], aliases[2], <<3>>)>>,
           <<RuleFile(3, <<Plain(2), Plain(1)>>, {"notice"}, <<1, 3>>)>>)

(* A rule text with stopwords 2 and 4, after a license text: short ones;   *)
(* five tokens and six; five stopwords and six between two tokens; and a   *)
(* word more than a vocabulary may have.                                   *)
Texts == UNION {[1..n -> {1, 2, 3}] : n \in 0..2}
             \cup {<<1, 2, 4, 3>>, <<1, 1, 3, 3, 1>>, <<1, 1, 3, 3, 1, 1>>,
                   <<1, 2, 4, 2, 4, 2, 3>>, <<1, 2, 4, 2, 4, 2, 4, 3>>, <<5>>}
Flags == {{}, {"continuous"}, {"required-phrase", "reference"}}
Worded(text, flags) ==
    Source(<<License(1, Plain(1), Cased(2), <<>>, <<1, 3, 1>>)>>,
           <<RuleFile(2, <<>>, {"false-positive"}, <<>>),
             RuleFile(3, <<Plain(1), Plain(7)>>, flags, text)>>)

Small == Source(<<License(1, Plain(1), Cased(2), <<>>, <<1, 2, 3>>)>>,
                <<RuleFile(3, <<Plain(1)>>, {"reference"}, <<3>>)>>)

Plainly ==
    << Small, [Small EXCEPT !.version = "v2", !.licenses[1].text = <<1, 3, 3>>],
       [Small EXCEPT !.pinned = FALSE],
       [Small EXCEPT !.stopwords = <<2, 2>>],
       [Small EXCEPT !.rules[1].malformed = TRUE],
       [Small EXCEPT !.rules[1].malformed = TRUE, !.rules[1].other = TRUE],
       [Small EXCEPT !.rules[1].expression = <<>>],
       [Small EXCEPT !.licenses[1].key = NoIdentifier] >>

MCSources ==
    [id \in ({0} \X (DOMAIN Plainly) \X {0})
            \cup ({1} \X Texts \X Flags)
            \cup ({2} \X [1..2 -> Primaries] \X [1..2 -> Aliases]) |->
        CASE id[1] = 0 -> Plainly[id[2]]
          [] id[1] = 1 -> Worded(id[2], id[3])
          [] id[1] = 2 -> Colliding(id[2], id[3])]

MCMasks == {{}, {"text"}, {"reference", "notice"}}

(* Every source, alone but for a run that is refused, some with every mask *)
(* and some without automaton; and two runs at once.                       *)
Job(source, mask, omit) == [source |-> source, mask |-> mask, omit |-> omit]
Refusal == Job(<<0, 3, 0>>, {}, FALSE)
Named(family) == {id \in DOMAIN MCSources : id[1] = family}

MCGenerators == {"g1", "g2"}
MCJobs ==
    {[g1 |-> Job(id, mask, FALSE), g2 |-> Refusal] : id \in Named(0), mask \in MCMasks}
    \cup {[g1 |-> Job(id, {}, omit), g2 |-> Refusal] :
             id \in Named(0) \cup Named(1), omit \in BOOLEAN}
    \cup {[g1 |-> Job(id, {}, FALSE), g2 |-> Refusal] : id \in Named(2)}
    \cup {[g1 |-> Job(<<0, 1, 0>>, {}, omit), g2 |-> Job(<<0, 2, 0>>, mask, FALSE)] :
             omit \in BOOLEAN, mask \in MCMasks}

MCOutputs == {<<>>, <<[source |-> <<0, 1, 0>>, mask |-> {}, stored |-> TRUE,
                       version |-> LegacyFormatVersion, sections |-> Sections]>>}
=============================================================================
