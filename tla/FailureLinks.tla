---------------------------- MODULE FailureLinks ----------------------------
(***************************************************************************)
(* buildFailureLinksInto (internal/aho/aho.go): the failure and output     *)
(* links of an Aho-Corasick trie, built level by level.  The nodes of a    *)
(* level are cut into chunks; the chunks go to worker goroutines over a    *)
(* buffered channel, and the caller waits for one signal per chunk before  *)
(* it starts the next level.  The workers read links other goroutines      *)
(* wrote, with no lock: the levels are all that orders them.               *)
(*                                                                         *)
(* Nodes are numbered breadth-first from the root 0, and edge e leads to   *)
(* node e + 1, as in the runtime automaton.                                *)
(***************************************************************************)
EXTENDS Integers, Sequences, FiniteSets

CONSTANTS
    Tries,         \* the tries whose links may be built
    Processors,    \* what runtime.GOMAXPROCS(0) may return
    ParallelEdges, \* minimumParallelEdges
    None           \* the sentinel for no output link

(* A trie is its arrays; a node is terminal when a pattern ends there.     *)
(* Every node but the root is a child, of a node numbered before it; the   *)
(* edges of a node are sorted by token.                                    *)
IsTrie(t) ==
    /\ t.nodeCount \in Nat \ {0}
    /\ t.edgeStarts \in [0..t.nodeCount -> 0..(t.nodeCount - 1)]
    /\ \A m, n \in 0..t.nodeCount : m <= n => t.edgeStarts[m] <= t.edgeStarts[n]
    /\ \A n \in 0..(t.nodeCount - 1) : n <= t.edgeStarts[n]
    /\ t.edgeStarts[0] = 0 /\ t.edgeStarts[t.nodeCount] = t.nodeCount - 1
    /\ t.edgeTokens \in [0..(t.nodeCount - 2) -> Nat]
    /\ \A n \in 0..(t.nodeCount - 1) :
          \A e, f \in t.edgeStarts[n]..(t.edgeStarts[n + 1] - 1) :
              e < f => t.edgeTokens[e] < t.edgeTokens[f]
    /\ t.terminals \subseteq 1..(t.nodeCount - 1)

ASSUME LinksAssumption ==
    /\ Processors \subseteq Nat \ {0} /\ ParallelEdges \in Nat
    /\ None \notin Nat
    /\ \A t \in Tries : IsTrie(t)

VARIABLES
    trie,       \* the arguments
    workerCount,
    failures, outputLinks,  \* the links, by node
    level,      \* levelStart and levelEnd
    sent,       \* the next node of the level to put in a chunk
    jobs,       \* chunks of the level not yet signaled
    main,       \* where the caller is
    work, done, \* the buffered channels: ranges, and a number of signals
    range       \* what each goroutine is working on; 0 is the caller

vars == <<trie, workerCount, failures, outputLinks, level, sent, jobs, main,
          work, done, range>>

input == <<trie, workerCount>>

Least(a, b) == IF a < b THEN a ELSE b

Nodes == 0..(trie.nodeCount - 1)
Workers == IF workerCount = 1 THEN {} ELSE 1..workerCount

(* The edges of the nodes from first up to, not including, end.            *)
Edges(first, end) == trie.edgeStarts[first]..(trie.edgeStarts[end] - 1)

(* The node the edge of state with this token leads to, if there is one:   *)
(* directFailure, by binary search or the table of the root.               *)
Targets(state, token) ==
    {e + 1 : e \in {f \in Edges(state, state + 1) : trie.edgeTokens[f] = token}}

(* A range of parents, the next edge of its first one to be done.          *)
Idle == [first |-> 0, end |-> 0, edge |-> 0]
RangeOf(first, end) ==
    [first |-> first, end |-> end, edge |-> trie.edgeStarts[first]]

-----------------------------------------------------------------------------
(* The parent of the next edge to do: parents without edges are passed.    *)
Parent(r) ==
    CHOOSE p \in r.first..(r.end - 1) : r.edge \in Edges(p, p + 1)

Finished(r) == r.edge >= trie.edgeStarts[r.end]

(* The states tried for a token, starting from the failure of its parent:  *)
(* along failure links until one has an edge or the root does not.         *)
Tried(parent, token) ==
    LET chain[s \in Nodes] ==
            IF s = 0 \/ Targets(s, token) # {} THEN {s}
                                              ELSE {s} \cup chain[failures[s]]
    IN  chain[failures[parent]]

LastTried(parent, token) ==
    CHOOSE s \in Tried(parent, token) : s = 0 \/ Targets(s, token) # {}

FailureOf(parent, token) ==
    LET found == Targets(LastTried(parent, token), token)
    IN  IF found = {} THEN 0 ELSE CHOOSE n \in found : TRUE

(* Without the link of the failure.                                        *)
OutputOfFailureOnly(failure) ==
    IF failure \in trie.terminals THEN failure ELSE None

OutputOf(failure) ==
    IF failure \in trie.terminals THEN failure ELSE outputLinks[failure]

(* The cells of `failures` and `outputLinks` that doing an edge reads, and *)
(* those it writes.                                                        *)
Reads(r) ==
    LET parent == Parent(r)
        token  == trie.edgeTokens[r.edge]
        passed == Tried(parent, token) \ {LastTried(parent, token)}
    IN  {<<"failure", s>> : s \in {parent} \cup passed}
        \cup {<<"output", s>> :
                 s \in {FailureOf(parent, token)} \ trie.terminals}

Writes(r) == {<<"failure", r.edge + 1>>, <<"output", r.edge + 1>>}

(* One edge of buildFailureLinkRange.                                      *)
DoEdge(g) ==
    LET r == range[g]
        failure == FailureOf(Parent(r), trie.edgeTokens[r.edge])
    IN  /\ ~Finished(r)
        /\ failures' = [failures EXCEPT ![r.edge + 1] = failure]
        /\ outputLinks' = [outputLinks EXCEPT ![r.edge + 1] = OutputOf(failure)]
        /\ range' = [range EXCEPT ![g].edge = @ + 1]
        /\ UNCHANGED <<input, level, sent, jobs, main, work, done>>

-----------------------------------------------------------------------------
Init ==
    /\ trie \in Tries
    /\ \E processors \in Processors :
           workerCount = Least(processors, trie.nodeCount)
    /\ failures = [n \in Nodes |-> 0]
    /\ outputLinks = [n \in Nodes |-> None]
    /\ level = [start |-> 1, end |-> trie.edgeStarts[1] + 1]
    /\ sent = 0 /\ jobs = 0
    /\ work = <<>> /\ done = 0
    /\ IF workerCount = 1
       THEN main = "inline" /\ range = [g \in {0} |-> RangeOf(1, trie.nodeCount)]
       ELSE main = "level" /\ range = [g \in 0..workerCount |-> Idle]

ParentCount == level.end - level.start
LevelWorkers == Least(workerCount, ParentCount)

(* A chunk too many when the division leaves a remainder.                  *)
ChunkSizeRoundedDown == ParentCount \div LevelWorkers

(* Rounded up, so that no level has more chunks than workers.              *)
ChunkSize == (ParentCount + LevelWorkers - 1) \div LevelWorkers

(* A small level is done by the caller itself.                             *)
StartInline ==
    /\ main = "level" /\ level.start < level.end
    /\ LevelWorkers = 1
       \/ Cardinality(Edges(level.start, level.end)) < ParallelEdges
    /\ range' = [range EXCEPT ![0] = RangeOf(level.start, level.end)]
    /\ main' = "inline"
    /\ UNCHANGED <<input, failures, outputLinks, level, sent, jobs, work, done>>

StartParallel ==
    /\ main = "level" /\ level.start < level.end
    /\ LevelWorkers # 1
    /\ Cardinality(Edges(level.start, level.end)) >= ParallelEdges
    /\ sent' = level.start
    /\ main' = "send"
    /\ UNCHANGED <<input, failures, outputLinks, level, jobs, work, done, range>>

(* `work <- linkRange{...}`: blocks while the channel is full.             *)
SendChunk ==
    /\ main = "send" /\ sent < level.end
    /\ Len(work) < workerCount
    /\ LET end == Least(sent + ChunkSize, level.end)
       IN  work' = Append(work, RangeOf(sent, end)) /\ sent' = sent + ChunkSize
    /\ jobs' = jobs + 1
    /\ UNCHANGED <<input, failures, outputLinks, level, main, done, range>>

AllSent ==
    /\ main = "send" /\ sent >= level.end
    /\ main' = "wait"
    /\ UNCHANGED <<input, failures, outputLinks, level, sent, jobs, work, done,
                   range>>

(* Mutant of Await: a chunk counted as done without its signal.           *)
AwaitNothing ==
    /\ main = "wait" /\ jobs > 0
    /\ jobs' = jobs - 1
    /\ UNCHANGED <<input, failures, outputLinks, level, sent, main, work, done,
                   range>>

(* `<-done`                                                                *)
Await ==
    /\ main = "wait" /\ jobs > 0
    /\ done > 0
    /\ done' = done - 1 /\ jobs' = jobs - 1
    /\ UNCHANGED <<input, failures, outputLinks, level, sent, main, work, range>>

(* The children of a level are numbered one after the other.               *)
NextLevel ==
    [start |-> trie.edgeStarts[level.start] + 1,
     end   |-> trie.edgeStarts[level.end] + 1]

(* Every chunk of the level was signaled, or the caller did it itself.     *)
Advance ==
    /\ \/ main = "wait" /\ jobs = 0
       \/ main = "inline" /\ Workers # {} /\ Finished(range[0])
    /\ level' = NextLevel
    /\ main' = "level"
    /\ range' = [range EXCEPT ![0] = Idle]
    /\ UNCHANGED <<input, failures, outputLinks, sent, jobs, work, done>>

(* No level is left: `close(work); workers.Wait()`.  With one worker there *)
(* were no levels and nothing to wait for.                                 *)
Complete ==
    /\ \/ main = "level" /\ level.start >= level.end
          /\ work = <<>> /\ \A g \in Workers : range[g] = Idle
       \/ main = "inline" /\ Workers = {} /\ Finished(range[0])
    /\ main' = "done"
    /\ UNCHANGED <<input, failures, outputLinks, level, sent, jobs, work, done,
                   range>>

InlineEdge == main = "inline" /\ DoEdge(0)

(* A worker: `for nodes := range work`, then one signal per range.         *)
TakeChunk(g) ==
    /\ range[g] = Idle /\ work # <<>>
    /\ range' = [range EXCEPT ![g] = Head(work)]
    /\ work' = Tail(work)
    /\ UNCHANGED <<input, failures, outputLinks, level, sent, jobs, main, done>>

WorkerEdge(g) == range[g] # Idle /\ DoEdge(g)

Signal(g) ==
    /\ range[g] # Idle /\ Finished(range[g])
    /\ done < workerCount
    /\ done' = done + 1
    /\ range' = [range EXCEPT ![g] = Idle]
    /\ UNCHANGED <<input, failures, outputLinks, level, sent, jobs, main, work>>

Worker(g) == TakeChunk(g) \/ WorkerEdge(g) \/ Signal(g)

Caller ==
    \/ StartInline \/ StartParallel \/ SendChunk \/ AllSent \/ Await
    \/ Advance \/ Complete \/ InlineEdge

Terminated == main = "done" /\ UNCHANGED vars

Next == Caller \/ (\E g \in Workers : Worker(g)) \/ Terminated

Spec == Init /\ [][Next]_vars

-----------------------------------------------------------------------------
(* The token path of each node.                                            *)
Up(t, n) ==
    CHOOSE p \in 0..(t.nodeCount - 1) :
        n \in (t.edgeStarts[p] + 1)..t.edgeStarts[p + 1]

PathsOf(t) ==
    LET path[n \in 0..(t.nodeCount - 1)] ==
            IF n = 0 THEN <<>> ELSE Append(path[Up(t, n)], t.edgeTokens[n - 1])
    IN  path

EndsIn(long, short) ==
    \E i \in 1..(Len(long) + 1) : SubSeq(long, i, Len(long)) = short

ProperSuffixes(paths, n) ==
    {m \in DOMAIN paths \ {n} : EndsIn(paths[n], paths[m])}

Deepest(paths, S, otherwise) ==
    IF S = {} THEN otherwise
    ELSE CHOOSE m \in S : \A k \in S : Len(paths[k]) <= Len(paths[m])

(* What the links of a trie should be: of the nodes whose path is a proper *)
(* suffix of that of the node, the deepest, and the deepest terminal.      *)
TrueLinks(t) ==
    LET paths == PathsOf(t)
    IN  [failures    |-> [n \in DOMAIN paths |->
                             Deepest(paths, ProperSuffixes(paths, n), 0)],
         outputLinks |-> [n \in DOMAIN paths |->
                             Deepest(paths, ProperSuffixes(paths, n) \cap t.terminals,
                                     None)]]

True == [t \in Tries |-> TrueLinks(t)]

(* When buildFailureLinksInto returns, every link is the right one,        *)
(* however the chunks were scheduled.                                      *)
LinksCorrect ==
    main = "done" =>
        failures = True[trie].failures /\ outputLinks = True[trie].outputLinks

Active == {g \in DOMAIN range : range[g] # Idle /\ ~Finished(range[g])}

(* No two goroutines are ever about to touch the same link at the same     *)
(* time, one of them writing it: there is no data race although nothing is *)
(* locked.  "Failure targets are complete because nodes are numbered       *)
(* breadth-first."                                                         *)
NoDataRace ==
    \A g, h \in Active :
        g # h => Writes(range[g]) \cap (Reads(range[h]) \cup Writes(range[h])) = {}

(* A level never has more chunks than the channels have room for, and a    *)
(* signal is never left over for the next level: neither the caller nor a  *)
(* worker ever blocks on a full channel.                                   *)
ChannelsSuffice ==
    /\ jobs <= workerCount
    /\ done + Len(work) + Cardinality({g \in Workers : range[g] # Idle}) = jobs
=============================================================================
