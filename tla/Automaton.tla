----------------------------- MODULE Automaton -----------------------------
(***************************************************************************)
(* An Aho-Corasick automaton from its patterns to its outputs: Build       *)
(* (internal/aho/aho.go) inserts the patterns in a trie, links its nodes   *)
(* and numbers them breadth-first, so that edge e leads to node e + 1;     *)
(* writeAutomaton (internal/corpus/format.go) stores the trie without its  *)
(* links; readAutomaton restores it, and links it again; then Next and     *)
(* AppendOutputs read an input.                                            *)
(*                                                                         *)
(* The relinking here is the one of a single worker; FailureLinks has the  *)
(* parallel one.  Packed arrays (24-bit numbers, 16-bit tokens, varints)   *)
(* are their values.                                                       *)
(***************************************************************************)
EXTENDS Integers, Sequences, FiniteSets

LOCAL INSTANCE SequencesExt
LOCAL INSTANCE FiniteSetsExt

CONSTANTS
    PatternSets,  \* the pattern of each value, for the automata to build
    Tokens,       \* the tokens of inputs
    MaxInput,     \* the length of inputs (a bound of the model)
    WordBits,     \* sparseWordBits
    None

ASSUME AutomatonAssumption ==
    /\ Tokens \subseteq Nat \ {0} /\ MaxInput \in Nat /\ WordBits \in Nat \ {0}
    /\ None \notin Nat
    /\ \A given \in PatternSets :
          given \in [0..(Cardinality(DOMAIN given) - 1) -> Seq(Tokens)]

VARIABLES
    patterns,  \* the argument of Build
    stage,
    left,      \* the values of patterns still to be inserted
    inserted,  \* the last pattern inserted, and the nodes on its path
    nodes,     \* parents, incoming and terminalHeads, by node
    next,      \* outputNext
    trie,      \* edgeStarts, edgeTokens and edgeTargets
    failures, outputLinks,
    queue, position,  \* the nodes to be linked, or numbered
    heads,     \* SparseOutputs with the terminal heads
    built,     \* what Build returned
    stored,    \* what was written of it
    state, text  \* of the restored automaton, after reading a text

links == <<failures, outputLinks>>
trieState == <<left, inserted, nodes>>
reading == <<state, text>>
vars == <<patterns, stage, trieState, next, trie, links, queue, position,
          heads, built, stored, reading>>

-----------------------------------------------------------------------------
Size(array) == Cardinality(DOMAIN array)
Empty == [i \in {} |-> 0]
Appended(array, more) ==
    [i \in 0..(Size(array) + Len(more) - 1) |->
        IF i < Size(array) THEN array[i] ELSE more[i - Size(array) + 1]]

(* slices.Compare on the tokens, then the values: the order of insertion.  *)
Smaller(a, b) ==
    \/ IsStrictPrefix(a, b)
    \/ \E k \in 1..Len(a) :
          k <= Len(b) /\ SubSeq(a, 1, k - 1) = SubSeq(b, 1, k - 1) /\ a[k] < b[k]

(* Mutant of Precedes: patterns are inserted as they come.                 *)
PrecedesAsGiven(v, w) == v < w

Precedes(v, w) ==
    Smaller(patterns[v], patterns[w]) \/ (patterns[v] = patterns[w] /\ v < w)

CommonPrefix(a, b) == Len(LongestCommonPrefix({a, b}))

Single(x) == [i \in {0} |-> x]
The(set) == CHOOSE x \in set : TRUE

Init ==
    /\ patterns \in PatternSets
    /\ stage = "insert"
    /\ left = {v \in DOMAIN patterns : patterns[v] # <<>>}
    /\ inserted = [pattern |-> <<>>, path |-> <<0>>]
    /\ nodes = [parents |-> Single(0), incoming |-> Single(0), heads |-> Single(None)]
    /\ next = [v \in DOMAIN patterns |-> None]
    /\ trie = Empty /\ failures = Empty /\ outputLinks = Empty
    /\ queue = <<>> /\ position = 1
    /\ heads = Empty /\ built = Empty /\ stored = Empty
    /\ state = 0 /\ text = <<>>

(* A pattern shares the path of the last one as far as they agree; its     *)
(* value becomes the first of those that end at its node.                  *)
Insert(v) ==
    LET common   == CommonPrefix(inserted.pattern, patterns[v])
        more     == SubSeq(patterns[v], common + 1, Len(patterns[v]))
        path     == SubSeq(inserted.path, 1, common + 1)
                      \o [k \in DOMAIN more |-> Size(nodes.parents) + k - 1]
        grown    == Appended(nodes.heads, [k \in DOMAIN more |-> None])
        terminal == Last(path)
    IN  /\ stage = "insert" /\ v \in left
        /\ \A w \in left \ {v} : Precedes(v, w)
        /\ left' = left \ {v}
        /\ inserted' = [pattern |-> patterns[v], path |-> path]
        /\ nodes' =
              [parents  |-> Appended(nodes.parents,
                                     [k \in DOMAIN more |-> path[common + k]]),
               incoming |-> Appended(nodes.incoming, more),
               heads    |-> [grown EXCEPT ![terminal] = v]]
        /\ next' = [next EXCEPT ![v] = grown[terminal]]
        /\ UNCHANGED <<patterns, stage, trie, links, queue, position, heads,
                       built, stored, reading>>

-----------------------------------------------------------------------------
Degree(t, node) == t.starts[node + 1] - t.starts[node]
Edges(t, node) == t.starts[node]..(t.starts[node + 1] - 1)
Children(t, node) ==
    [k \in 1..Degree(t, node) |-> t.targets[t.starts[node] + k - 1]]

(* The first edge of its node.                                             *)
First(t, edge) ==
    \E node \in DOMAIN t.starts \ {Size(t.starts) - 1} :
        t.starts[node] = edge /\ Degree(t, node) > 0

Ascending(t) ==
    \A e \in DOMAIN t.tokens : First(t, e) \/ t.tokens[e - 1] < t.tokens[e]

(* compactEdges: the nodes are grouped by parent, in their order.          *)
Compacted ==
    LET added == DOMAIN nodes.parents \ {0}
        Place(m) == Cardinality({l \in added :
                        \/ nodes.parents[l] < nodes.parents[m]
                        \/ nodes.parents[l] = nodes.parents[m] /\ l < m})
        At(edge) == CHOOSE m \in added : Place(m) = edge
        edges == 0..(Size(nodes.parents) - 2)
    IN  [starts  |-> [i \in 0..Size(nodes.parents) |->
                         Cardinality({m \in added : nodes.parents[m] < i})],
         tokens  |-> [e \in edges |-> nodes.incoming[At(e)]],
         targets |-> [e \in edges |-> At(e)]]

Unlinked(count) ==
    /\ failures' = [m \in 0..(count - 1) |-> 0]
    /\ outputLinks' = [m \in 0..(count - 1) |-> None]

Compact ==
    /\ stage = "insert" /\ left = {}
    /\ trie' = Compacted
    /\ Unlinked(Size(nodes.parents))
    /\ queue' = Children(Compacted, 0) /\ position' = 1
    /\ stage' = IF Ascending(Compacted) THEN "link" ELSE "failed"
    /\ UNCHANGED <<patterns, trieState, next, heads, built, stored, reading>>

-----------------------------------------------------------------------------
(* direct, and directImplicit with its binary search.                      *)
Targets(from, token) ==
    {trie.targets[e] : e \in {f \in Edges(trie, from) : trie.tokens[f] = token}}

(* Along the failure links to a node that has an edge for the token.       *)
Fallback(from, token) ==
    LET found[m \in DOMAIN failures] ==
            IF Targets(m, token) # {} THEN The(Targets(m, token))
            ELSE IF m = 0 THEN 0 ELSE found[failures[m]]
    IN  found[from]

(* SparseOutputs: the nodes with an entry are bits of words, their entries *)
(* a list, and each word knows how many bits are set before it.            *)
Sparse(entry, count) ==
    LET bits == DOMAIN entry
        Nth(k) == CHOOSE b \in bits : Cardinality({c \in bits : c < b}) = k - 1
    IN  [bits   |-> bits,
         ranks  |-> [w \in 0..((count + WordBits - 1) \div WordBits - 1) |->
                        Cardinality({b \in bits : b < w * WordBits})],
         values |-> [k \in 1..Cardinality(bits) |-> entry[Nth(k)]]]

NoEntry == [link |-> None, head |-> None]

Get(table, node) ==
    LET word == node \div WordBits
        rank == table.ranks[word]
                  + Cardinality({b \in table.bits : b \div WordBits = word /\ b < node})
    IN  IF node \in table.bits THEN table.values[rank + 1] ELSE NoEntry

(* NewSparseOutputs                                                        *)
SparseOutputs(linkOf, headOf) ==
    LET used == {m \in DOMAIN linkOf : linkOf[m] # None \/ headOf[m] # None}
    IN  Sparse([m \in used |-> [link |-> linkOf[m], head |-> headOf[m]]], Size(linkOf))

TerminalHead(node) ==
    IF stage = "link" THEN nodes.heads[node] ELSE Get(heads, node).head

(* One parent of buildFailures, which puts the children in its queue, or   *)
(* of buildFailureLinkRange.                                               *)
LinkParent ==
    LET parent == queue[position]
        Entering(m) == CHOOSE e \in Edges(trie, parent) : trie.targets[e] = m
        linked == {trie.targets[e] : e \in Edges(trie, parent)}
    IN  /\ stage \in {"link", "relink"} /\ position <= Len(queue)
        /\ failures' = [m \in DOMAIN failures |->
              IF m \in linked
              THEN Fallback(failures[parent], trie.tokens[Entering(m)])
              ELSE failures[m]]
        /\ outputLinks' = [m \in DOMAIN outputLinks |->
              IF m \notin linked THEN outputLinks[m]
              ELSE IF TerminalHead(failures'[m]) # None THEN failures'[m]
              ELSE outputLinks[failures'[m]]]
        /\ queue' = IF stage = "link" THEN queue \o Children(trie, parent) ELSE queue
        /\ position' = position + 1
        /\ UNCHANGED <<patterns, stage, trieState, next, trie, heads, built,
                       stored, reading>>

EndLink ==
    /\ stage = "link" /\ position > Len(queue)
    /\ stage' = "number"
    /\ queue' = <<0>> /\ position' = 1
    /\ UNCHANGED <<patterns, trieState, next, trie, links, heads, built, stored,
                   reading>>

(* reorderBreadthFirst: the order, and then everything in that order.      *)
Number ==
    /\ stage = "number" /\ position <= Len(queue)
    /\ queue' = queue \o Children(trie, queue[position])
    /\ position' = position + 1
    /\ UNCHANGED <<patterns, stage, trieState, next, trie, links, heads, built,
                   stored, reading>>

Array(sequence) == [i \in 0..(Len(sequence) - 1) |-> sequence[i + 1]]

Ordered(old) == Array([k \in DOMAIN queue |-> old[queue[k]]])

Remapped(node) == (CHOOSE k \in DOMAIN queue : queue[k] = node) - 1

Renumber ==
    LET TokensOf(k) == [i \in 1..Degree(trie, queue[k]) |->
                           trie.tokens[trie.starts[queue[k]] + i - 1]]
        lists == [k \in DOMAIN queue |-> TokensOf(k)]
        newLinks == [m \in DOMAIN outputLinks |->
                        IF outputLinks[m] = None THEN None ELSE Remapped(outputLinks[m])]
    IN  /\ stage = "number" /\ position > Len(queue)
        /\ built' =
              [starts   |-> [i \in 0..Len(queue) |->
                                Len(FlattenSeq(SubSeq(lists, 1, i)))],
               tokens   |-> Array(FlattenSeq(lists)),
               failures |-> Ordered([m \in DOMAIN failures |-> Remapped(failures[m])]),
               outputs  |-> SparseOutputs(Ordered(newLinks), Ordered(nodes.heads)),
               next     |-> next]
        /\ stage' = "write"
        /\ UNCHANGED <<patterns, trieState, next, trie, links, queue, position,
                       heads, stored, reading>>

-----------------------------------------------------------------------------
(* writeAutomaton: a bit for every edge of a node and a zero after them    *)
(* (writeEdgeCounts), the terminal nodes by their gaps, and the tokens of  *)
(* the edges of a node by their differences.                               *)
Write ==
    LET terminals == {m \in built.outputs.bits : Get(built.outputs, m).head # None}
        Nth(k) == CHOOSE m \in terminals : Cardinality({l \in terminals : l < m}) = k - 1
        count == Size(built.failures)
    IN  /\ stage = "write"
        /\ stored' =
              [nodeCount |-> count,
               bits      |-> FlattenSeq([k \in 1..count |->
                                 [i \in 1..Degree(built, k - 1) |-> 1] \o <<0>>]),
               terminals |-> [k \in 1..Cardinality(terminals) |->
                                 [gap  |-> Nth(k) + 1 - IF k = 1 THEN 0 ELSE Nth(k - 1) + 1,
                                  head |-> Get(built.outputs, Nth(k)).head]],
               deltas    |-> [e \in DOMAIN built.tokens |->
                                 built.tokens[e] - IF First(built, e) THEN 0
                                                   ELSE built.tokens[e - 1]],
               next      |-> built.next]
        /\ stage' = "read"
        /\ UNCHANGED <<patterns, trieState, next, trie, links, queue, position,
                       heads, built, reading>>

(* Mutant of Exceptional: nodes without an edge are not listed.            *)
ExceptionalBranch(degree) == degree > 1

Exceptional(degree) == degree # 1

(* readCompactEdgeStarts: only nodes that do not have one edge are listed, *)
(* with how far the edges after them are off from the number of the node.  *)
StoredStarts ==
    LET zeros == {p \in DOMAIN stored.bits : stored.bits[p] = 0}
        Zero(k) == CHOOSE p \in zeros : Cardinality({q \in zeros : q <= p}) = k
        Counted(k) == IF k = 0 THEN 0 ELSE Zero(k) - k
        listed == {m \in 0..(stored.nodeCount - 1) : 
                      Exceptional(Counted(m + 1) - Counted(m))}
        Correction(boundary) ==
            LET before == {m \in listed : m < boundary}
            IN  IF before = {} THEN 0 ELSE Counted(Max(before) + 1) - (Max(before) + 1)
    IN  [b \in 0..stored.nodeCount |-> b + Correction(b)]

Restored ==
    LET starts == StoredStarts
        token[e \in DOMAIN stored.deltas] ==
            stored.deltas[e] + IF First([starts |-> starts], e) THEN 0 ELSE token[e - 1]
    IN  [starts |-> starts, tokens |-> token,
         targets |-> [e \in DOMAIN stored.deltas |-> e + 1]]

(* readTerminalHeads and NewSparseTerminalHeads                            *)
StoredHeads ==
    LET node[k \in 0..Len(stored.terminals)] ==
            IF k = 0 THEN -1 ELSE node[k - 1] + stored.terminals[k].gap
        Nth(m) == CHOOSE k \in DOMAIN stored.terminals : node[k] = m
    IN  Sparse([m \in {node[k] : k \in DOMAIN stored.terminals} |->
                   [link |-> None, head |-> stored.terminals[Nth(m)].head]],
               stored.nodeCount)

Readable ==
    /\ Cardinality({p \in DOMAIN stored.bits : stored.bits[p] = 1}) = stored.nodeCount - 1
    /\ \A e \in DOMAIN stored.deltas : stored.deltas[e] > 0
    /\ \A k \in DOMAIN stored.terminals : stored.terminals[k].gap > 0
    /\ \A m \in StoredHeads.bits : m < stored.nodeCount

Read ==
    /\ stage = "read"
    /\ IF Readable
       THEN /\ stage' = "relink"
            /\ trie' = Restored /\ heads' = StoredHeads /\ next' = stored.next
            /\ Unlinked(stored.nodeCount)
            /\ queue' = [k \in 1..(stored.nodeCount - 1) |-> k] /\ position' = 1
       ELSE stage' = "failed" /\ UNCHANGED <<trie, heads, next, links, queue, position>>
    /\ UNCHANGED <<patterns, trieState, built, stored, reading>>

(* WithOutputLinks walks the bits of the heads along with the links.       *)
WithOutputLinks ==
    LET HeadOf(m) == IF m \notin heads.bits THEN None
                     ELSE heads.values[Cardinality({b \in heads.bits : b <= m})].head
    IN  SparseOutputs(outputLinks, [m \in DOMAIN outputLinks |-> HeadOf(m)])

(* Validate; validateOutputChains is the last conjunct.                    *)
Valid(t, table) ==
    LET count  == Size(failures)
        values == DOMAIN next
        after[k \in 0..Size(next), v \in values \cup {None}] ==
            IF k = 0 \/ v = None THEN v ELSE after[k - 1, next[v]]
    IN  /\ DOMAIN t.starts = 0..count /\ t.starts[count] = Size(t.tokens)
        /\ Size(t.tokens) = count - 1 /\ values = DOMAIN patterns
        /\ \A m \in 0..(count - 1) :
              /\ failures[m] < count /\ t.starts[m] <= t.starts[m + 1]
              /\ Get(table, m).link \in 0..(count - 1) \cup {None}
              /\ Get(table, m).head \in values \cup {None}
        /\ Ascending(t)
        /\ \A v \in values : next[v] \in values \cup {None}
        /\ \A v \in values : after[Size(next), v] = None

EndRelink ==
    /\ stage = "relink" /\ position > Len(queue)
    /\ heads' = WithOutputLinks
    /\ stage' = IF Valid(trie, WithOutputLinks) THEN "scan" ELSE "failed"
    /\ UNCHANGED <<patterns, trieState, next, trie, links, queue, position, built,
                   stored, reading>>

-----------------------------------------------------------------------------
(* Next.  rootNext has, for every token up to the highest of the root, the *)
(* target of its edge, or 0.                                               *)
RootNext(token) == IF Targets(0, token) = {} THEN 0 ELSE The(Targets(0, token))

(* Mutant of NextState: without an edge the search begins at the root.     *)
NextStateFromRoot(from, token) ==
    IF Targets(from, token) # {} THEN The(Targets(from, token)) ELSE RootNext(token)

NextState(from, token) ==
    LET reached[m \in DOMAIN failures] ==
            IF m = 0 THEN RootNext(token)
            ELSE IF Targets(m, token) # {} THEN The(Targets(m, token))
            ELSE reached[failures[m]]
    IN  reached[from]

Scan(token) ==
    /\ stage = "scan" /\ Len(text) < MaxInput
    /\ state' = NextState(state, token)
    /\ text' = Append(text, token)
    /\ UNCHANGED <<patterns, stage, trieState, next, trie, links, queue, position,
                   heads, built, stored>>

(* AppendOutputs: along the output links, and at each node along its chain *)
Outputs(from) ==
    LET chain[v \in DOMAIN next \cup {None}] ==
            IF v = None THEN <<>> ELSE <<v>> \o chain[next[v]]
        ending[m \in DOMAIN failures \cup {None}] ==
            IF m = None THEN <<>>
            ELSE chain[Get(heads, m).head] \o ending[Get(heads, m).link]
    IN  ending[from]

Done == (stage = "failed" \/ (stage = "scan" /\ Len(text) = MaxInput)) /\ UNCHANGED vars

Next ==
    \/ \E v \in DOMAIN patterns : Insert(v)
    \/ Compact \/ LinkParent \/ EndLink \/ Number \/ Renumber
    \/ Write \/ Read \/ EndRelink
    \/ \E token \in Tokens : Scan(token)
    \/ Done

Spec == Init /\ [][Next]_vars

-----------------------------------------------------------------------------
(* What Build returns is the trie of its patterns: its nodes are all their *)
(* prefixes, by length and then in order; the failure link of a node is    *)
(* its longest proper suffix that is a node, and the output link the       *)
(* longest where a pattern ends; the chain of a node is the values of its  *)
(* pattern, the largest first.  And Build never finds its edges unsorted.  *)
BuiltExact ==
    /\ stage # "failed"
    /\ stage = "write" =>
          LET all == DOMAIN built.failures
              word[m \in all] ==
                  IF m = 0 THEN <<>>
                  ELSE LET owner == CHOOSE p \in all : m - 1 \in Edges(built, p)
                       IN  Append(word[owner], built.tokens[m - 1])
              ShorterEnds(m) == {l \in all \ {m} : IsSuffix(word[l], word[m])}
              Ending(m) == {v \in DOMAIN patterns : m # 0 /\ patterns[v] = word[m]}
              LinkOf(m) ==
                  LET ends == {l \in ShorterEnds(m) : Ending(l) # {}}
                  IN  IF ends = {} THEN None ELSE Max(ends)
          IN  /\ {word[m] : m \in all} =
                    {<<>>} \cup UNION {{SubSeq(patterns[v], 1, k) :
                       k \in DOMAIN patterns[v]} : v \in DOMAIN patterns}
              /\ \A m, l \in all : m < l =>
                    \/ Len(word[m]) < Len(word[l])
                    \/ Len(word[m]) = Len(word[l]) /\ Smaller(word[m], word[l])
              /\ \A m \in all \ {0} : built.failures[m] = Max(ShorterEnds(m))
              /\ \A m \in all :
                    Get(built.outputs, m) =
                       [link |-> LinkOf(m),
                        head |-> IF Ending(m) = {} THEN None ELSE Max(Ending(m))]
              /\ \A m \in all : \A v \in Ending(m) :
                    LET smaller == {w \in Ending(m) : w < v}
                    IN  built.next[v] = IF smaller = {} THEN None ELSE Max(smaller)

(* The automaton that is read back is the one that was built: from the     *)
(* counts, gaps and differences stored, and links made anew for its new    *)
(* numbers.  And it is never refused.                                      *)
RestoredAsBuilt ==
    /\ stage # "failed"
    /\ stage = "scan" =>
          built = [starts |-> trie.starts, tokens |-> trie.tokens,
                   failures |-> failures, outputs |-> heads, next |-> next]

(* After every token, the outputs are the values of the patterns that end  *)
(* there, each once, the longest first and of equal ones the largest: the  *)
(* order in which matchers collect rules (matcher.go).                     *)
OutputsExact ==
    stage = "scan" =>
        LET ending == {v \in DOMAIN patterns :
                          patterns[v] # <<>> /\ IsSuffix(patterns[v], text)}
            Ahead(v, w) == \/ Len(patterns[v]) > Len(patterns[w])
                           \/ Len(patterns[v]) = Len(patterns[w]) /\ v > w
        IN  Outputs(state) =
                [k \in 1..Cardinality(ending) |->
                    CHOOSE v \in ending :
                        Cardinality({w \in ending : Ahead(w, v)}) = k - 1]
=============================================================================
