---------------------------- MODULE MCMatchInput ----------------------------
(* Every input of up to five words over two tokens, a stopword and an      *)
(* unknown word, against six of the twelve rules that share tokens and     *)
(* differ in what they allow; inputs of names that make license lists; and texts with     *)
(* numbered clauses and a clue.  Rules of one length share a hash.         *)
EXTENDS MatchInput

MCRules == 1..12
MCRuleTokens == <<<<"a", "b">>, <<"a", "b">>, <<"a", "b">>, <<"b", "a", "b">>,
                  <<"b", "a">>, <<"b">>, <<"m">>, <<"p">>, <<"r">>, <<"q">>,
                  <<"1", "a">>, <<"1", "a", "2", "a">>>>
MCRuleStopwords == [rule \in MCRules |-> IF rule = 1 THEN <<1>> ELSE <<>>]
MCStrict == {1, 4}
MCVariable == {2, 4}

mit == 2
apache == 1
expat == 3
none == 0
MCExpression == <<mit, mit, apache, apache, expat, none, mit, apache, mit, mit,
                  apache, mit>>
(* "expat" is another key of the license reported as "mit".                *)
MCReportedExpression ==
    [rule \in MCRules |-> IF MCExpression[rule] = expat THEN mit ELSE MCExpression[rule]]
MCKindOf == <<"notice", "text", "reference", "notice", "reference", "notice",
              "reference", "reference", "notice", "clue", "text", "text">>
MCHash(tokens) == Len(tokens)

MCVocabulary == {"a", "b", "m", "p", "r", "q", "1", "2"}
MCNumber == [word \in Words |-> CASE word = "1" -> 1 [] word = "2" -> 2 [] OTHER -> 0]

UpTo(k, words) == UNION {[1..i -> words] : i \in 0..k}
MCTexts == UpTo(5, {"a", "b", "the", "x"}) \cup UpTo(6, {"m", "p", "r", "x"})
               \cup UpTo(5, {"1", "2", "a", "q"})
=============================================================================
