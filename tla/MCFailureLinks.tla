--------------------------- MODULE MCFailureLinks ---------------------------
(* Every trie over two tokens with up to MaxNodes nodes below the root and *)
(* depth at most three; a leaf is terminal, and so may be the nodes of one *)
(* more token path.                                                        *)
EXTENDS FailureLinks

CONSTANT MaxNodes

Strings == UNION {[1..n -> {1, 2}] : n \in 1..3}

IsPrefixOf(s, t) == Len(s) <= Len(t) /\ s = SubSeq(t, 1, Len(s))

Leaves(S) == {s \in S : \A t \in S : IsPrefixOf(s, t) => s = t}

PrefixSets ==
    LET Closed(S) == \A s \in S : Len(s) = 1 \/ SubSeq(s, 1, Len(s) - 1) \in S
    IN  {S \in SUBSET Strings : Cardinality(S) <= MaxNodes /\ Closed(S)}

Lex(s, t) == \E i \in DOMAIN s : s[i] < t[i] /\ \A j \in 1..(i - 1) : s[j] = t[j]

ShortLex(s, t) == Len(s) < Len(t) \/ (Len(s) = Len(t) /\ Lex(s, t))

(* The breadth-first arrays of a prefix-closed set of paths.               *)
TrieOf(S, terminal) ==
    LET paths == [i \in 1..Cardinality(S) |->
                  CHOOSE s \in S : Cardinality({t \in S : ShortLex(t, s)}) = i - 1]
        id(s) == IF s = <<>> THEN 0 ELSE CHOOSE i \in DOMAIN paths : paths[i] = s
        up(i) == id(SubSeq(paths[i], 1, Len(paths[i]) - 1))
    IN  [nodeCount  |-> Len(paths) + 1,
         edgeStarts |-> [n \in 0..(Len(paths) + 1) |->
                            Cardinality({i \in DOMAIN paths : up(i) < n})],
         edgeTokens |-> [e \in 0..(Len(paths) - 1) |->
                            paths[e + 1][Len(paths[e + 1])]],
         terminals  |-> {id(s) : s \in terminal}]

MCTries ==
    UNION {{TrieOf(S, Leaves(S)), TrieOf(S, Leaves(S) \cup {s \in S : Len(s) = 1})} :
              S \in PrefixSets}
=============================================================================
