------------------------- MODULE FailureLinksProofs -------------------------
(***************************************************************************)
(* Proofs about FailureLinks, for every trie, any number of processors and *)
(* any threshold: the workers never touch the same link at the same time,  *)
(* one of them writing it; no goroutine blocks on a full channel; and the  *)
(* links left when the function returns are the right ones.                *)
(*                                                                         *)
(* The first two follow from IInv.  A level ends where its children begin, *)
(* and the failure of a node is in an earlier level, so what the workers   *)
(* of a level read lies before its end and what they write behind it;      *)
(* their chunks are apart, so no two of them write the same link.          *)
(*                                                                         *)
(* The last needs LinksInv too: a link that is not right yet is still to   *)
(* be written.  The search for a failure passes no state it could have     *)
(* stopped at (ChainOnTheWay), so that it finds the longest suffix once    *)
(* the links it follows are right (FailureFound), and those were written   *)
(* in an earlier level.                                                    *)
(***************************************************************************)
EXTENDS FailureLinks, TLAPS, FiniteSetTheorems, SequenceTheorems

Starts == trie.edgeStarts
NodeCount == trie.nodeCount

Ranges == [first : Nat, end : Nat, edge : Nat]

(* A chunk of the level, with the next edge to do.                         *)
Chunk(r) ==
    /\ r \in Ranges
    /\ level.start <= r.first /\ r.first < r.end /\ r.end <= level.end
    /\ Starts[r.first] <= r.edge /\ r.edge <= Starts[r.end]

Apart(r, q) == r.end <= q.first \/ q.end <= r.first

(* Every node fails to an earlier one; a node of the level to one before   *)
(* the level, and a child of the level to one before the children.         *)
Backward ==
    /\ failures \in [Nodes -> Nodes]
    /\ failures[0] = 0
    /\ \A n \in Nodes \ {0} : failures[n] < n

FailuresEarlier ==
    /\ Backward
    /\ \A n \in Nodes \ {0} :
           /\ n < level.end => n < level.start \/ failures[n] < level.start
           /\ n >= level.end => failures[n] < level.end

(* The children of the level are numbered from its end.                    *)
LevelOK ==
    /\ level \in [start : 1..NodeCount, end : 1..NodeCount]
    /\ level.start <= level.end
    /\ level.end = Starts[level.start] + 1

ChunksOK ==
    /\ work \in Seq(Ranges)
    /\ \A i \in 1..Len(work) : Chunk(work[i])
    /\ DOMAIN range = 0..workerCount
    /\ \A g \in Workers : range[g] = Idle \/ Chunk(range[g])

ChunksApart ==
    /\ \A i, j \in 1..Len(work) : i # j => Apart(work[i], work[j])
    /\ \A g \in Workers : range[g] # Idle =>
           /\ \A i \in 1..Len(work) : Apart(range[g], work[i])
           /\ \A h \in Workers \ {g} :
                  range[h] # Idle => Apart(range[g], range[h])

(* While the caller sends, what is behind `sent` is in no chunk, and the   *)
(* chunks sent so far are all counted.                                     *)
Sending ==
    main = "send" =>
        /\ LevelWorkers >= 2 /\ ParentCount >= 1
        /\ sent \in Nat /\ sent = level.start + jobs * ChunkSize
        /\ \A i \in 1..Len(work) : work[i].end <= sent
        /\ \A g \in Workers : range[g] # Idle => range[g].end <= sent

CallerOK ==
    /\ main \in {"level", "inline", "send", "wait", "done"}
    /\ main \in {"level", "inline", "done"} => jobs = 0
    /\ IF main = "inline" THEN Chunk(range[0]) ELSE range[0] = Idle

Counts == jobs \in Nat /\ done \in Nat /\ ChannelsSuffice

(* With one worker the caller does every edge and the channels are unused. *)
Single ==
    /\ workerCount = 1
    /\ main \in {"inline", "done"}
    /\ DOMAIN range = {0}
    /\ work = <<>> /\ jobs = 0 /\ done = 0

Parallel ==
    /\ workerCount >= 2
    /\ LevelOK /\ FailuresEarlier /\ ChunksOK /\ ChunksApart
    /\ Sending /\ CallerOK /\ Counts

IInv ==
    /\ trie \in Tries /\ workerCount \in 1..NodeCount
    /\ Single \/ Parallel

-----------------------------------------------------------------------------
(* A set of naturals has a least element.                                  *)
LEMMA LeastElement ==
    ASSUME NEW T \in SUBSET Nat, T # {}
    PROVE  \E x \in T : \A y \in T : x <= y
<1> DEFINE R == {ss \in Nat \X Nat : ss[1] < ss[2]}
<1>1. IsWellFoundedOn(R, Nat)
  <2>1. IsWellFoundedOn(OpToRel(<, Nat), Nat)
    BY NatLessThanWellFounded
  <2>2. R = OpToRel(<, Nat)
    BY DEF OpToRel
  <2> QED BY <2>1, <2>2
<1> HIDE DEF R
<1>2. PICK x \in T : \A y \in T : ~(<<y, x>> \in R)
  BY <1>1, WFMin
<1>3. ASSUME NEW y \in T PROVE x <= y
  <2>1. ~(<<y, x>> \in R) /\ y \in Nat /\ x \in Nat
    BY <1>2
  <2>2. ~(y < x)
    BY <2>1 DEF R
  <2> QED BY <2>1, <2>2
<1> QED BY <1>3

(* What is assumed of every trie, for the one at hand.                     *)
LEMMA TrieOK ==
    ASSUME trie \in Tries
    PROVE  /\ NodeCount \in Nat \ {0} /\ Nodes = 0..(NodeCount - 1)
           /\ Starts \in [0..NodeCount -> 0..(NodeCount - 1)]
           /\ \A m, n \in 0..NodeCount : m <= n => Starts[m] <= Starts[n]
           /\ \A n \in 0..(NodeCount - 1) : n <= Starts[n]
           /\ Starts[0] = 0 /\ Starts[NodeCount] = NodeCount - 1
BY LinksAssumption DEF IsTrie, Nodes, NodeCount, Starts

LEMMA Sizes ==
    ASSUME trie \in Tries
    PROVE  NodeCount \in Nat /\ NodeCount >= 1 /\ Nodes = 0..(NodeCount - 1)
BY TrieOK

LEMMA StartsGrow ==
    ASSUME trie \in Tries,
           NEW m \in 0..NodeCount, NEW n \in 0..NodeCount, m <= n
    PROVE  /\ Starts[m] \in Nat /\ Starts[n] \in Nat
           /\ Starts[m] <= Starts[n] /\ Starts[n] <= NodeCount - 1
BY TrieOK

(* An edge of a range has a parent in the range.                           *)
LEMMA ParentExists ==
    ASSUME trie \in Tries, NEW first \in 0..NodeCount, NEW end \in 0..NodeCount,
           NEW edge \in Nat, Starts[first] <= edge, edge < Starts[end]
    PROVE  \E p \in first..(end - 1) : edge \in Edges(p, p + 1)
<1> DEFINE Beyond == {n \in 0..NodeCount : edge < Starts[n]}
<1>1. PICK least \in Beyond : \A n \in Beyond : least <= n
  <2>1. Beyond \subseteq Nat /\ end \in Beyond
    BY TrieOK
  <2> QED BY <2>1, LeastElement
<1>2. least > first
  BY <1>1, TrieOK
<1>3. least - 1 \in 0..NodeCount /\ least - 1 \notin Beyond
  BY <1>1, <1>2, TrieOK
<1>4. Starts[least - 1] <= edge /\ edge < Starts[least]
  BY <1>1, <1>3, TrieOK
<1>5. least <= end
  BY <1>1, TrieOK
<1>6. edge \in Edges(least - 1, (least - 1) + 1)
  <2>1. (least - 1) + 1 = least /\ Starts[least] \in Int /\ Starts[least - 1] \in Int
    BY <1>1, <1>3, TrieOK
  <2> QED BY <1>4, <2>1 DEF Edges, Starts
<1> QED BY <1>1, <1>2, <1>5, <1>6, TrieOK

-----------------------------------------------------------------------------
Stops(s, token) == s = 0 \/ Targets(s, token) # {}

IsChain(c, k, token) ==
    c = [s \in 0..k |-> IF Stops(s, token) THEN {s} ELSE {s} \cup c[failures[s]]]

(* The recursive definition of the states tried has a solution.            *)
LEMMA ChainExists ==
    ASSUME trie \in Tries, Backward, NEW token
    PROVE  \A k \in Nodes : \E c : IsChain(c, k, token)
<1> DEFINE Bad == {k \in Nodes : ~ \E c : IsChain(c, k, token)}
<1>1. SUFFICES ASSUME Bad # {} PROVE FALSE
  OBVIOUS
<1>2. PICK k \in Bad : \A n \in Bad : k <= n
  <2>1. Bad \subseteq Nat
    BY TrieOK
  <2> QED BY <1>1, <2>1, LeastElement
<1>3. k \in Nodes /\ ~ \E c : IsChain(c, k, token)
  BY <1>2
<1>4. k # 0
  <2> DEFINE c == [s \in 0..0 |-> {0}]
  <2>1. IsChain(c, 0, token)
    BY DEF IsChain, Stops
  <2> QED BY <2>1, <1>3
<1>5. k - 1 \in Nodes /\ k - 1 \notin Bad /\ k \in Nat
  BY <1>2, <1>3, <1>4, TrieOK
<1>6. PICK c : IsChain(c, k - 1, token)
  BY <1>5
<1> DEFINE d == [s \in 0..k |-> IF s < k THEN c[s]
                                ELSE IF Stops(s, token) THEN {s}
                                     ELSE {s} \cup c[failures[s]]]
<1>7. ASSUME NEW s \in 0..k
      PROVE  d[s] = IF Stops(s, token) THEN {s} ELSE {s} \cup d[failures[s]]
  <2>1. s \in Nodes /\ s \in Nat
    BY <1>3, <1>5, TrieOK
  <2>2. Stops(s, token) \/ (failures[s] \in 0..k /\ failures[s] < s)
    <3>1. s = 0 => Stops(s, token)
      BY DEF Stops
    <3>2. s # 0 => failures[s] \in Nodes /\ failures[s] < s
      BY <2>1 DEF Backward
    <3> QED BY <2>1, <3>1, <3>2, <1>5, TrieOK
  <2>3. CASE s < k
    <3>1. d[s] = c[s] /\ s \in 0..(k - 1)
      BY <2>3, <1>5, <2>1
    <3>2. c[s] = IF Stops(s, token) THEN {s} ELSE {s} \cup c[failures[s]]
      BY <3>1, <1>6 DEF IsChain
    <3>3. ~Stops(s, token) => d[failures[s]] = c[failures[s]]
      BY <2>2, <2>3, <1>5, <2>1
    <3> QED BY <3>1, <3>2, <3>3
  <2>4. CASE s = k
    <3>1. ~Stops(s, token) => d[failures[s]] = c[failures[s]]
      BY <2>2, <2>4, <1>5, <2>1
    <3>2. d[s] = IF Stops(s, token) THEN {s} ELSE {s} \cup c[failures[s]]
      BY <2>4, <2>1, <1>5
    <3> QED BY <3>1, <3>2
  <2> QED BY <2>3, <2>4, <2>1, <1>5
<1>8. IsChain(d, k, token)
  BY <1>7 DEF IsChain
<1> QED BY <1>3, <1>8

(* A chain goes down, to a state where the search stops.                   *)
LEMMA ChainDescends ==
    ASSUME trie \in Tries, Backward, NEW token, NEW k \in Nodes, NEW c,
           IsChain(c, k, token)
    PROVE  \A s \in 0..k : /\ c[s] \subseteq 0..s
                           /\ \E t \in c[s] : Stops(t, token)
<1> DEFINE Good(s) == c[s] \subseteq 0..s /\ \E t \in c[s] : Stops(t, token)
           Bad == {s \in 0..k : ~Good(s)}
<1>1. SUFFICES ASSUME Bad # {} PROVE FALSE
  OBVIOUS
<1>2. k \in Nat /\ Bad \subseteq Nat
  BY TrieOK
<1>3. PICK s \in Bad : \A n \in Bad : s <= n
  BY <1>1, <1>2, LeastElement
<1>4. s \in 0..k /\ s \in Nat
  BY <1>2, <1>3
<1>5. c[s] = IF Stops(s, token) THEN {s} ELSE {s} \cup c[failures[s]]
  BY <1>4 DEF IsChain
<1>6. CASE Stops(s, token)
  BY <1>3, <1>4, <1>5, <1>6
<1>7. CASE ~Stops(s, token)
  <2>1. failures[s] \in 0..k /\ failures[s] < s
    BY <1>2, <1>4, <1>7, TrieOK DEF Backward, Stops
  <2>2. failures[s] \notin Bad
    BY <1>3, <1>4, <2>1, <1>2
  <2>3. Good(failures[s])
    BY <2>1, <2>2
  <2> QED BY <1>3, <1>4, <1>5, <1>7, <2>1, <2>3
<1> QED BY <1>6, <1>7

(* The states tried are one of its values.                                 *)
LEMMA TriedIsChain ==
    ASSUME trie \in Tries, Backward, NEW p \in Nodes, NEW token
    PROVE  \E c : IsChain(c, NodeCount - 1, token) /\ Tried(p, token) = c[failures[p]]
<1> DEFINE chain == CHOOSE c : IsChain(c, NodeCount - 1, token)
<1>1. NodeCount - 1 \in Nodes
  BY TrieOK
<1>2. IsChain(chain, NodeCount - 1, token)
  BY <1>1, ChainExists
<1>3. Tried(p, token) = chain[failures[p]]
  BY TrieOK DEF Tried, IsChain, Stops
<1> QED BY <1>2, <1>3

(* The states tried come no later than the failure of the parent, and the  *)
(* last one, where the search stops, is among them.                        *)
LEMMA TriedOK ==
    ASSUME trie \in Tries, Backward, NEW p \in Nodes, NEW token
    PROVE  /\ Tried(p, token) \subseteq 0..failures[p]
           /\ LastTried(p, token) \in Tried(p, token)
           /\ Stops(LastTried(p, token), token)
<1>1. PICK chain : /\ IsChain(chain, NodeCount - 1, token)
                   /\ Tried(p, token) = chain[failures[p]]
  BY TriedIsChain
<1>2. PICK last : last = NodeCount - 1
  OBVIOUS
<1>3. last \in Nodes /\ IsChain(chain, last, token) /\ failures[p] \in 0..last
  BY <1>1, <1>2, TrieOK DEF Backward
<1>4. /\ Tried(p, token) \subseteq 0..failures[p]
      /\ \E t \in Tried(p, token) : Stops(t, token)
  <2>1. \A s \in 0..last :
            chain[s] \subseteq 0..s /\ \E t \in chain[s] : Stops(t, token)
    BY <1>3, ChainDescends
  <2> QED BY <1>1, <1>3, <2>1
<1>5. LastTried(p, token) \in Tried(p, token) /\ Stops(LastTried(p, token), token)
  BY <1>4 DEF LastTried, Stops
<1> QED BY <1>4, <1>5

(* The failure found leads before the children of every node up to which   *)
(* the failure of the parent lies.                                         *)
LEMMA FailureOfOK ==
    ASSUME trie \in Tries, Backward, NEW p \in Nodes, NEW token,
           NEW bound \in Nodes, failures[p] < bound
    PROVE  FailureOf(p, token) \in Nodes /\ FailureOf(p, token) <= Starts[bound]
<1> DEFINE s == LastTried(p, token)
           found == Targets(s, token)
<1>1. s \in 0..failures[p] /\ failures[p] \in Nodes
  BY TriedOK DEF Backward
<1>2. s \in Nat /\ s + 1 \in 0..NodeCount /\ s + 1 <= bound /\ bound \in 0..NodeCount
  BY <1>1, TrieOK
<1>3. Starts[s + 1] <= Starts[bound] /\ Starts[s] \in Nat /\ Starts[s + 1] \in Nat
      /\ Starts[bound] \in Nat /\ Starts[bound] <= NodeCount - 1
  BY <1>2, TrieOK
<1>4. ASSUME NEW n \in found
      PROVE  n \in Nat /\ n <= Starts[s + 1]
  BY <1>3 DEF Targets, Edges, Starts
<1>5. FailureOf(p, token) = 0 \/ FailureOf(p, token) \in found
  BY DEF FailureOf
<1> HIDE DEF found, s
<1>6. CASE FailureOf(p, token) = 0
  BY <1>6, <1>3, TrieOK
<1>7. CASE FailureOf(p, token) \in found
  BY <1>7, <1>4, <1>3, TrieOK
<1> QED BY <1>5, <1>6, <1>7

(* The next edge of a chunk: its parent is in the chunk, its child behind  *)
(* the level, and all that is read for it before the end of the level.     *)
LEMMA EdgeOK ==
    ASSUME trie \in Tries, LevelOK, FailuresEarlier,
           NEW r, Chunk(r), ~Finished(r), NEW token
    PROVE  /\ r.edge \in Nat /\ r.edge < Starts[r.end]
           /\ r.edge + 1 \in Nodes \ {0} /\ level.end <= r.edge + 1
           /\ Parent(r) \in Nodes /\ Parent(r) < level.end
           /\ Tried(Parent(r), token) \subseteq 0..(level.start - 1)
           /\ FailureOf(Parent(r), token) \in Nodes
           /\ FailureOf(Parent(r), token) < level.end
<1>1. /\ r.first \in Nat /\ r.end \in Nat /\ r.edge \in Nat
      /\ level.start \in 1..NodeCount /\ level.end \in 1..NodeCount
      /\ level.start <= r.first /\ r.first < r.end /\ r.end <= level.end
      /\ Starts[r.first] <= r.edge
      /\ level.end = Starts[level.start] + 1
  BY DEF Chunk, Ranges, LevelOK
<1>2. /\ NodeCount \in Nat /\ r.first \in 0..NodeCount /\ r.end \in 0..NodeCount
      /\ level.start \in 0..NodeCount
  BY <1>1, Sizes
<1>3. /\ Starts[r.end] <= NodeCount - 1 /\ Starts[level.start] <= Starts[r.first]
      /\ Starts[r.end] \in Nat /\ Starts[r.first] \in Nat /\ Starts[level.start] \in Nat
  BY <1>1, <1>2, StartsGrow
<1>4. r.edge < Starts[r.end]
  BY <1>1, <1>3 DEF Finished, Starts
<1>5. r.edge + 1 \in Nodes \ {0} /\ level.end <= r.edge + 1
  <2>1. level.end <= r.edge + 1
    BY <1>1, <1>3
  <2>2. r.edge + 1 \in 1..(NodeCount - 1)
    BY <1>1, <1>2, <1>3, <1>4
  <2> QED BY <1>2, <2>1, <2>2, Sizes
<1>6. \E p \in r.first..(r.end - 1) : r.edge \in Edges(p, p + 1)
  BY <1>1, <1>2, <1>4, ParentExists
<1>7. Parent(r) \in r.first..(r.end - 1)
  BY <1>6 DEF Parent
<1>8. /\ Parent(r) \in Nodes \ {0} /\ Parent(r) \in Nat
      /\ Parent(r) < level.end /\ Parent(r) >= level.start
  BY <1>1, <1>2, <1>7, Sizes
<1>9. failures[Parent(r)] < level.start /\ failures[Parent(r)] \in Nat
  BY <1>1, <1>8, Sizes DEF FailuresEarlier, Backward
<1>10. level.start \in Nodes
  BY <1>1, <1>8, Sizes
<1>11. Tried(Parent(r), token) \subseteq 0..(level.start - 1)
  BY <1>1, <1>8, <1>9, TriedOK DEF FailuresEarlier
<1>12. /\ FailureOf(Parent(r), token) \in Nodes
       /\ FailureOf(Parent(r), token) <= Starts[level.start]
  BY <1>8, <1>9, <1>10, FailureOfOK DEF FailuresEarlier
<1> QED BY <1>1, <1>3, <1>5, <1>8, <1>11, <1>12, <1>4, Sizes

-----------------------------------------------------------------------------
Busy == {g \in Workers : range[g] # Idle}

LEMMA BusyFinite ==
    ASSUME workerCount \in Nat
    PROVE  IsFiniteSet(Busy) /\ Cardinality(Busy) \in Nat
<1>1. IsFiniteSet(Workers)
  BY FS_Interval, FS_EmptySet DEF Workers
<1>2. IsFiniteSet(Busy)
  BY <1>1, FS_Subset DEF Busy
<1> QED BY <1>2, FS_CardinalityType

(* With no chunk outstanding the channels are empty and the workers idle.  *)
LEMMA Quiet ==
    ASSUME workerCount \in Nat, Counts, work \in Seq(Ranges), jobs = 0
    PROVE  work = <<>> /\ done = 0 /\ \A g \in Workers : range[g] = Idle
<1>1. /\ done + Len(work) + Cardinality(Busy) = 0
      /\ done \in Nat /\ Len(work) \in Nat /\ Cardinality(Busy) \in Nat
  BY BusyFinite DEF Counts, ChannelsSuffice, Busy
<1>2. done = 0 /\ Len(work) = 0 /\ Cardinality(Busy) = 0
  BY <1>1
<1>3. Busy = {}
  BY <1>2, BusyFinite, FS_EmptySet
<1> QED BY <1>2, <1>3 DEF Busy

LEMMA ChunkNotIdle ==
    ASSUME LevelOK, NEW r, Chunk(r), NodeCount \in Nat
    PROVE  r # Idle
BY DEF Chunk, LevelOK, Idle, Ranges

(* What two workers are about to touch does not conflict.                  *)
LEMMA ChunksDoNotRace ==
    ASSUME trie \in Tries, LevelOK, FailuresEarlier,
           NEW r, Chunk(r), ~Finished(r), NEW q, Chunk(q), ~Finished(q),
           Apart(r, q)
    PROVE  Writes(r) \cap (Reads(q) \cup Writes(q)) = {}
<1>1. level.end \in Nat /\ level.start \in Nat /\ level.start <= level.end
      /\ NodeCount \in Nat
  BY Sizes DEF LevelOK
<1>2. r.edge \in Nat /\ q.edge \in Nat /\ r.edge # q.edge
  <2>1. /\ r \in Ranges /\ q \in Ranges
        /\ r.first \in 0..NodeCount /\ r.end \in 0..NodeCount
        /\ q.first \in 0..NodeCount /\ q.end \in 0..NodeCount
        /\ Starts[r.first] <= r.edge /\ Starts[q.first] <= q.edge
    BY <1>1 DEF Chunk, Ranges, LevelOK
  <2>2. r.edge < Starts[r.end] /\ q.edge < Starts[q.end]
        /\ r.edge \in Nat /\ q.edge \in Nat
    BY EdgeOK
  <2>3. CASE r.end <= q.first
    BY <2>1, <2>2, <2>3, StartsGrow
  <2>4. CASE q.end <= r.first
    BY <2>1, <2>2, <2>4, StartsGrow
  <2> QED BY <2>2, <2>3, <2>4 DEF Apart
<1>3. level.end <= r.edge + 1
  BY EdgeOK
<1> DEFINE token == trie.edgeTokens[q.edge]
<1>4. /\ Parent(q) < level.end /\ Parent(q) \in Nat
      /\ Tried(Parent(q), token) \subseteq 0..(level.start - 1)
      /\ FailureOf(Parent(q), token) \in Nat
      /\ FailureOf(Parent(q), token) < level.end
  BY EdgeOK, Sizes
<1>5. ASSUME NEW cell \in Reads(q)
      PROVE  cell # <<"failure", r.edge + 1>> /\ cell # <<"output", r.edge + 1>>
  <2>1. \/ \E s \in {Parent(q)} \cup Tried(Parent(q), token) : cell = <<"failure", s>>
        \/ cell = <<"output", FailureOf(Parent(q), token)>>
    BY DEF Reads
  <2>2. CASE \E s \in {Parent(q)} \cup Tried(Parent(q), token) : cell = <<"failure", s>>
    BY <1>1, <1>2, <1>3, <1>4, <2>2
  <2>3. CASE cell = <<"output", FailureOf(Parent(q), token)>>
    BY <1>1, <1>2, <1>3, <1>4, <2>3
  <2> QED BY <2>1, <2>2, <2>3
<1> QED BY <1>2, <1>5 DEF Writes

(* The inductive invariant excludes data races.                            *)
LEMMA InvariantExcludesRaces ==
    ASSUME IInv
    PROVE  NoDataRace
<1> SUFFICES ASSUME NEW g \in Active, NEW h \in Active, g # h
             PROVE  Writes(range[g]) \cap (Reads(range[h]) \cup Writes(range[h])) = {}
  BY DEF NoDataRace
<1>1. ~Single
  BY DEF Single, Active
<1>2. Parallel /\ trie \in Tries /\ workerCount \in Nat /\ NodeCount \in Nat
  BY <1>1, Sizes DEF IInv
<1>3. Workers = 1..workerCount
  BY <1>2 DEF Parallel, Workers
<1>4. main # "inline"
  <2>1. ASSUME main = "inline" PROVE FALSE
    <3>1. \A k \in Workers : range[k] = Idle
      BY <1>2, <2>1, Quiet DEF Parallel, CallerOK, ChunksOK
    <3>2. Active \subseteq {0}
      BY <1>2, <1>3, <3>1 DEF Active, Parallel, ChunksOK
    <3> QED BY <3>2
  <2> QED BY <2>1
<1>5. range[0] = Idle
  BY <1>2, <1>4 DEF Parallel, CallerOK
<1>6. g \in Workers /\ h \in Workers
  BY <1>2, <1>3, <1>5 DEF Active, Parallel, ChunksOK
<1>7. /\ Chunk(range[g]) /\ ~Finished(range[g])
      /\ Chunk(range[h]) /\ ~Finished(range[h])
      /\ Apart(range[g], range[h])
  BY <1>2, <1>6 DEF Active, Parallel, ChunksOK, ChunksApart
<1> QED BY <1>2, <1>7, ChunksDoNotRace DEF Parallel

-----------------------------------------------------------------------------
LEMMA InitInvariant ==
    ASSUME Init
    PROVE  IInv
<1>1. trie \in Tries /\ NodeCount \in Nat /\ NodeCount >= 1 /\ Nodes = 0..(NodeCount - 1)
  BY Sizes DEF Init
<1>2. workerCount \in 1..NodeCount
  BY <1>1, LinksAssumption DEF Init, Least, NodeCount
<1>3. CASE workerCount = 1
  <2>1. Single
    BY <1>3 DEF Init, Single
  <2> QED BY <1>1, <1>2, <2>1 DEF IInv
<1>4. CASE workerCount >= 2
  <2>1. /\ main = "level" /\ range = [g \in 0..workerCount |-> Idle]
        /\ work = <<>> /\ jobs = 0 /\ done = 0
        /\ level = [start |-> 1, end |-> trie.edgeStarts[1] + 1]
        /\ failures = [n \in Nodes |-> 0]
    BY <1>4 DEF Init
  <2>2. LevelOK
    <3>1. Starts[1] \in Nat /\ Starts[1] <= NodeCount - 1
      BY <1>1, StartsGrow
    <3> QED BY <1>1, <1>2, <1>4, <2>1, <3>1 DEF LevelOK, Starts
  <2>3. FailuresEarlier
    BY <1>1, <2>1, <2>2 DEF FailuresEarlier, Backward, LevelOK
  <2>4. \A g \in Workers : range[g] = Idle
    BY <1>2, <1>4, <2>1 DEF Workers
  <2>5. ChunksOK /\ ChunksApart /\ Sending /\ CallerOK
    BY <1>2, <2>1, <2>4 DEF ChunksOK, ChunksApart, Sending, CallerOK
  <2>6. Counts
    <3>1. {g \in Workers : range[g] # Idle} = {}
      BY <2>4
    <3>2. Cardinality({g \in Workers : range[g] # Idle}) = 0
      BY <3>1, FS_EmptySet
    <3> QED BY <1>1, <1>2, <2>1, <3>2 DEF Counts, ChannelsSuffice
  <2> QED BY <1>1, <1>2, <1>4, <2>2, <2>3, <2>5, <2>6 DEF IInv, Parallel
<1> QED BY <1>2, <1>3, <1>4

(* With one worker only the caller moves.                                  *)
LEMMA SingleActions ==
    ASSUME Single, Next
    PROVE  InlineEdge \/ Complete \/ Terminated
<1>1. Workers = {}
  BY DEF Single, Workers
<1>2. ~ (StartInline \/ StartParallel \/ SendChunk \/ AllSent \/ Await \/ Advance)
  BY <1>1 DEF StartInline, StartParallel, SendChunk, AllSent, Await, Advance, Single
<1> QED BY <1>1, <1>2 DEF Next, Caller

LEMMA SingleStep ==
    ASSUME Single, Next
    PROVE  Single' /\ UNCHANGED input
<1>1. CASE InlineEdge
  BY <1>1 DEF InlineEdge, DoEdge, Single, input
<1>2. CASE Complete
  BY <1>2 DEF Complete, Single, input
<1>3. CASE Terminated
  BY <1>3 DEF Terminated, vars, Single, input
<1> QED BY <1>1, <1>2, <1>3, SingleActions

-----------------------------------------------------------------------------
(* The division rounded up: that many chunks of that size make the level.  *)
LEMMA RoundedUp ==
    ASSUME NEW p \in Nat, p >= 1, NEW w \in Nat, w >= 1,
           NEW c, c = (p + w - 1) \div w
    PROVE  c \in Nat /\ c >= 1 /\ w * c >= p
<1> DEFINE x == p + w - 1
<1>1. x \in Nat /\ x >= w
  OBVIOUS
<1>2. c \in Int /\ x = w * c + (x % w) /\ x % w \in 0..(w - 1)
  BY <1>1
<1>3. w * c >= p
  BY <1>2
<1>4. c >= 1
  <2>1. ASSUME c <= 0 PROVE FALSE
    <3>1. w * c <= 0
      BY <2>1, <1>2
    <3> QED BY <3>1, <1>3
  <2> QED BY <2>1, <1>2
<1> QED BY <1>2, <1>3, <1>4

LEMMA FewChunks ==
    ASSUME NEW p \in Nat, NEW w \in Nat, NEW c \in Nat, NEW j \in Nat,
           j * c < p, p <= w * c
    PROVE  j < w
<1>1. ASSUME j >= w PROVE FALSE
  <2>1. (j - w) * c >= 0
    BY <1>1
  <2> QED BY <2>1
<1> QED BY <1>1

-----------------------------------------------------------------------------
(* What a step has to keep, when neither the level nor the links change.   *)
LEMMA LevelKept ==
    ASSUME Parallel, UNCHANGED <<input, failures, level>>
    PROVE  /\ workerCount' = workerCount /\ workerCount' >= 2
           /\ Workers' = Workers /\ Nodes' = Nodes /\ Idle' = Idle
           /\ LevelOK' /\ FailuresEarlier'
           /\ ParentCount' = ParentCount /\ LevelWorkers' = LevelWorkers
           /\ ChunkSize' = ChunkSize
BY DEF input, Parallel, Workers, Nodes, Idle, LevelOK, FailuresEarlier, Backward,
       Starts, NodeCount, ParentCount, LevelWorkers, ChunkSize

LEMMA StartInlineStep ==
    ASSUME IInv, Parallel, StartInline
    PROVE  Parallel'
<1>1. UNCHANGED <<input, failures, level, work, jobs, done, sent>> /\ main' = "inline"
      /\ range' = [range EXCEPT ![0] = RangeOf(level.start, level.end)]
      /\ main = "level" /\ level.start < level.end
  BY DEF StartInline
<1>2. trie \in Tries /\ workerCount \in Nat /\ workerCount >= 2 /\ Workers = 1..workerCount
  BY Sizes DEF IInv, Parallel, Workers
<1>3. \A g \in Workers : range'[g] = range[g]
  BY <1>1, <1>2 DEF Parallel, ChunksOK
<1>4. DOMAIN range' = 0..workerCount
      /\ range'[0] = RangeOf(level.start, level.end)
  BY <1>1, <1>2 DEF Parallel, ChunksOK
<1>5. /\ workerCount' >= 2 /\ Workers' = Workers /\ Idle' = Idle
      /\ LevelOK' /\ FailuresEarlier'
  BY <1>1, LevelKept
<1>6. ChunksOK'
  BY <1>1, <1>3, <1>4, <1>5 DEF Parallel, ChunksOK, Chunk, Starts, input
<1>7. ChunksApart'
  BY <1>1, <1>3, <1>5 DEF Parallel, ChunksApart, Apart
<1>8. CallerOK'
  <2>1. Chunk(RangeOf(level.start, level.end))
    <3>1. /\ level.start \in 0..NodeCount /\ level.end \in 0..NodeCount
      BY <1>2, Sizes DEF Parallel, LevelOK
    <3>2. /\ Starts[level.start] \in Nat /\ Starts[level.end] \in Nat
          /\ Starts[level.start] <= Starts[level.end]
      BY <1>1, <1>2, <3>1, StartsGrow
    <3> QED BY <1>1, <1>2, <3>1, <3>2, Sizes DEF Chunk, Ranges, RangeOf, Starts
  <2>2. Chunk(range[0])'
    BY <1>1, <1>4, <2>1 DEF Chunk, Starts, input
  <2> QED BY <1>1, <2>2 DEF CallerOK, Parallel
<1>9. Counts'
  <2>1. {g \in Workers' : range'[g] # Idle'} = {g \in Workers : range[g] # Idle}
    BY <1>3, <1>5
  <2> QED BY <1>1, <2>1 DEF Counts, ChannelsSuffice, Parallel, input
<1> QED BY <1>1, <1>5, <1>6, <1>7, <1>8, <1>9 DEF Parallel, Sending

LEMMA StartParallelStep ==
    ASSUME IInv, Parallel, StartParallel
    PROVE  Parallel'
<1>1. UNCHANGED <<input, failures, level, work, jobs, done, range>> /\ main' = "send"
      /\ sent' = level.start /\ main = "level" /\ level.start < level.end
      /\ LevelWorkers # 1
  BY DEF StartParallel
<1>2. trie \in Tries /\ workerCount \in Nat /\ workerCount >= 2
      /\ level.start \in Nat /\ level.end \in Nat /\ NodeCount \in Nat
  BY Sizes DEF IInv, Parallel, LevelOK
<1>3. /\ workerCount' >= 2 /\ Workers' = Workers /\ Idle' = Idle
      /\ LevelOK' /\ FailuresEarlier' /\ ParentCount' = ParentCount
      /\ LevelWorkers' = LevelWorkers /\ ChunkSize' = ChunkSize
  BY <1>1, LevelKept
<1>4. jobs = 0 /\ work = <<>> /\ \A g \in Workers : range[g] = Idle
  BY <1>1, <1>2, Quiet DEF Parallel, CallerOK, ChunksOK
<1>5. ParentCount >= 1 /\ LevelWorkers >= 2 /\ ParentCount \in Nat /\ LevelWorkers \in Nat
  BY <1>1, <1>2 DEF ParentCount, LevelWorkers, Least
<1>6. Sending'
  <2>1. ChunkSize \in Nat
    BY <1>5, RoundedUp DEF ChunkSize
  <2>2. level.start = level.start + 0 * ChunkSize
    BY <2>1, <1>2
  <2> QED BY <1>1, <1>2, <1>3, <1>4, <1>5, <2>1, <2>2 DEF Sending
<1>7. ChunksOK' /\ ChunksApart'
  BY <1>1, <1>3 DEF Parallel, ChunksOK, ChunksApart, Apart, Chunk, Starts, input
<1>8. CallerOK' /\ Counts'
  BY <1>1, <1>3, <1>4 DEF Parallel, CallerOK, Counts, ChannelsSuffice, input
<1> QED BY <1>3, <1>6, <1>7, <1>8 DEF Parallel

LEMMA SendChunkStep ==
    ASSUME IInv, Parallel, SendChunk
    PROVE  Parallel'
<1> DEFINE end == Least(sent + ChunkSize, level.end)
           chunk == RangeOf(sent, end)
<1>1. UNCHANGED <<input, failures, level, main, done, range>>
      /\ work' = Append(work, chunk) /\ sent' = sent + ChunkSize
      /\ jobs' = jobs + 1 /\ main = "send" /\ sent < level.end
  BY DEF SendChunk
<1>2. trie \in Tries /\ workerCount \in Nat /\ workerCount >= 2
      /\ level.start \in Nat /\ level.end \in Nat /\ NodeCount \in Nat
      /\ level.start >= 1 /\ level.end <= NodeCount
      /\ jobs \in Nat /\ done \in Nat
  BY Sizes DEF IInv, Parallel, LevelOK, Counts
<1>3. /\ workerCount' >= 2 /\ Workers' = Workers /\ Idle' = Idle
      /\ LevelOK' /\ FailuresEarlier' /\ ParentCount' = ParentCount
      /\ LevelWorkers' = LevelWorkers /\ ChunkSize' = ChunkSize
  BY <1>1, LevelKept
<1>4. /\ LevelWorkers >= 2 /\ ParentCount >= 1
      /\ sent \in Nat /\ sent = level.start + jobs * ChunkSize
      /\ \A i \in 1..Len(work) : work[i].end <= sent
      /\ \A g \in Workers : range[g] # Idle => range[g].end <= sent
  BY <1>1 DEF Parallel, Sending
<1>5. /\ ParentCount \in Nat /\ ParentCount = level.end - level.start
      /\ LevelWorkers \in Nat /\ LevelWorkers <= workerCount
  BY <1>2, <1>4 DEF ParentCount, LevelWorkers, Least
<1>6. /\ ChunkSize \in Nat /\ ChunkSize >= 1
      /\ LevelWorkers * ChunkSize >= ParentCount
  <2>1. LevelWorkers >= 1
    BY <1>4, <1>5
  <2>2. ChunkSize = (ParentCount + LevelWorkers - 1) \div LevelWorkers
    BY DEF ChunkSize
  <2> QED BY <1>4, <1>5, <2>1, <2>2, RoundedUp
<1>7. jobs < LevelWorkers
  <2>1. jobs * ChunkSize \in Nat
    BY <1>2, <1>6
  <2>2. jobs * ChunkSize < ParentCount
    BY <1>1, <1>2, <1>4, <1>5, <2>1
  <2> QED BY <1>2, <1>5, <1>6, <2>2, FewChunks
<1>8. /\ end \in Nat /\ sent < end /\ end <= level.end /\ end <= sent'
      /\ level.start <= sent
  <2>1. jobs * ChunkSize \in Nat
    BY <1>2, <1>6
  <2> QED BY <1>1, <1>2, <1>4, <1>6, <2>1, SMTT(30) DEF Least
<1> HIDE DEF end
<1>9. chunk.first = sent /\ chunk.end = end /\ Chunk(chunk) /\ chunk \in Ranges
  <2>1. sent \in 0..NodeCount /\ end \in 0..NodeCount
    BY <1>1, <1>2, <1>4, <1>8
  <2>2. Starts[sent] \in Nat /\ Starts[end] \in Nat /\ Starts[sent] <= Starts[end]
    BY <1>2, <1>4, <1>8, <2>1, StartsGrow
  <2> QED BY <1>2, <1>4, <1>8, <2>2 DEF Chunk, Ranges, RangeOf, Starts
<1> HIDE DEF chunk
<1>10. /\ work' \in Seq(Ranges) /\ Len(work') = Len(work) + 1 /\ Len(work) \in Nat
       /\ work'[Len(work) + 1] = chunk
       /\ \A i \in 1..Len(work) : work'[i] = work[i]
  BY <1>1, <1>9 DEF Parallel, ChunksOK
<1>11. ASSUME NEW i \in 1..Len(work')
       PROVE  (i \in 1..Len(work) /\ work'[i] = work[i])
                \/ (i = Len(work) + 1 /\ work'[i] = chunk)
  BY <1>10
<1>12. ChunksOK'
  <2>1. \A i \in 1..Len(work') : Chunk(work'[i])
    BY <1>9, <1>11 DEF Parallel, ChunksOK
  <2>2. (\A i \in 1..Len(work) : Chunk(work[i]))'
    BY <1>1, <2>1 DEF Chunk, Starts, input
  <2>3. (\A g \in Workers : range[g] = Idle \/ Chunk(range[g]))'
    BY <1>1, <1>3 DEF Parallel, ChunksOK, Chunk, Starts, input
  <2> QED BY <1>1, <1>10, <2>2, <2>3 DEF Parallel, ChunksOK, input
<1>13. ChunksApart'
  <2>1. \A i \in 1..Len(work) : Apart(work[i], chunk) /\ Apart(chunk, work[i])
    BY <1>4, <1>9 DEF Apart
  <2>2. \A i, j \in 1..Len(work') : i # j => Apart(work'[i], work'[j])
    BY <1>11, <2>1 DEF Parallel, ChunksApart
  <2>3. ASSUME NEW g \in Workers, range[g] # Idle
        PROVE  \A i \in 1..Len(work') : Apart(range[g], work'[i])
    <3>1. Apart(range[g], chunk)
      BY <1>4, <1>9, <2>3 DEF Apart
    <3> QED BY <1>11, <2>3, <3>1 DEF Parallel, ChunksApart
  <2> QED BY <1>1, <1>3, <2>2, <2>3 DEF Parallel, ChunksApart, Apart
<1>14. Sending'
  <2>1. sent' = level.start + (jobs + 1) * ChunkSize
    BY <1>1, <1>2, <1>4, <1>6
  <2>2. ASSUME NEW i \in 1..Len(work')
        PROVE  work'[i].end <= sent'
    <3>1. CASE i \in 1..Len(work) /\ work'[i] = work[i]
      <4>1. work[i].end \in Nat /\ work[i].end <= sent
        BY <1>4, <3>1 DEF Parallel, ChunksOK, Chunk, Ranges
      <4> QED BY <1>1, <1>4, <1>6, <3>1, <4>1
    <3>2. CASE work'[i] = chunk
      BY <1>8, <1>9, <3>2
    <3> QED BY <1>11, <3>1, <3>2
  <2>3. ASSUME NEW g \in Workers, range[g] # Idle
        PROVE  range[g].end <= sent'
    <3>1. range[g].end \in Nat /\ range[g].end <= sent
      BY <1>4, <2>3 DEF Parallel, ChunksOK, Chunk, Ranges
    <3> QED BY <1>1, <1>4, <1>6, <3>1
  <2>4. sent' \in Nat
    BY <1>1, <1>4, <1>6
  <2> QED BY <1>1, <1>3, <1>4, <2>1, <2>2, <2>3, <2>4 DEF Sending
<1>15. CallerOK'
  BY <1>1 DEF Parallel, CallerOK, Idle
<1>16. Counts'
  <2>1. Cardinality(Busy) \in Nat
    BY <1>2, BusyFinite
  <2>2. jobs + 1 <= workerCount /\ jobs + 1 \in Nat
    BY <1>2, <1>5, <1>7
  <2>3. done + (Len(work) + 1) + Cardinality(Busy) = jobs + 1
    BY <1>2, <1>10, <2>1 DEF Parallel, Counts, ChannelsSuffice, Busy
  <2>4. Busy' = Busy
    BY <1>1, <1>3 DEF Busy
  <2>5. done' + Len(work') + Cardinality({g \in Workers : range[g] # Idle})' = jobs'
    BY <1>1, <1>10, <2>3, <2>4 DEF Busy
  <2> QED BY <1>1, <1>2, <2>2, <2>5 DEF Counts, ChannelsSuffice, input
<1> QED BY <1>3, <1>12, <1>13, <1>14, <1>15, <1>16 DEF Parallel

LEMMA AllSentStep ==
    ASSUME IInv, Parallel, AllSent
    PROVE  Parallel'
<1>1. UNCHANGED <<input, failures, level, sent, jobs, work, done, range>>
      /\ main = "send" /\ main' = "wait"
  BY DEF AllSent
<1>2. /\ workerCount' >= 2 /\ Workers' = Workers /\ Idle' = Idle
      /\ LevelOK' /\ FailuresEarlier'
  BY <1>1, LevelKept
<1>3. ChunksOK' /\ ChunksApart'
  BY <1>1, <1>2 DEF Parallel, ChunksOK, ChunksApart, Apart, Chunk, Starts, input
<1>4. CallerOK' /\ Counts' /\ Sending'
  BY <1>1, <1>2 DEF Parallel, CallerOK, Counts, ChannelsSuffice, Sending, input
<1> QED BY <1>2, <1>3, <1>4 DEF Parallel

LEMMA AwaitStep ==
    ASSUME IInv, Parallel, Await
    PROVE  Parallel'
<1>1. UNCHANGED <<input, failures, level, sent, main, work, range>>
      /\ main = "wait" /\ jobs > 0 /\ done > 0
      /\ done' = done - 1 /\ jobs' = jobs - 1
  BY DEF Await
<1>2. /\ workerCount' >= 2 /\ Workers' = Workers /\ Idle' = Idle
      /\ LevelOK' /\ FailuresEarlier'
  BY <1>1, LevelKept
<1>3. ChunksOK' /\ ChunksApart'
  BY <1>1, <1>2 DEF Parallel, ChunksOK, ChunksApart, Apart, Chunk, Starts, input
<1>4. CallerOK' /\ Sending'
  BY <1>1, <1>2 DEF Parallel, CallerOK, Sending
<1>5. Counts'
  <2>1. workerCount \in Nat /\ jobs \in Nat /\ done \in Nat /\ Len(work) \in Nat
    BY Sizes DEF IInv, Parallel, Counts, ChunksOK
  <2>2. Cardinality(Busy) \in Nat /\ Busy' = Busy
    BY <1>1, <1>2, <2>1, BusyFinite DEF Busy
  <2>3. jobs <= workerCount /\ done + Len(work) + Cardinality(Busy) = jobs
    BY DEF Parallel, Counts, ChannelsSuffice, Busy
  <2>4. /\ jobs - 1 \in Nat /\ done - 1 \in Nat /\ jobs - 1 <= workerCount
        /\ (done - 1) + Len(work) + Cardinality(Busy) = jobs - 1
    BY <1>1, <2>1, <2>2, <2>3
  <2> QED BY <1>1, <2>2, <2>4 DEF Counts, ChannelsSuffice, input, Busy
<1> QED BY <1>2, <1>3, <1>4, <1>5 DEF Parallel

LEMMA CompleteStep ==
    ASSUME IInv, Parallel, Complete
    PROVE  Parallel'
<1>1. UNCHANGED <<input, failures, level, sent, jobs, work, done, range>>
      /\ main' = "done"
  BY DEF Complete
<1>2. main = "level"
  <2>1. 1 \in Workers
    BY Sizes DEF Parallel, Workers, IInv
  <2> QED BY <2>1 DEF Complete
<1>3. /\ workerCount' >= 2 /\ Workers' = Workers /\ Idle' = Idle
      /\ LevelOK' /\ FailuresEarlier'
  BY <1>1, LevelKept
<1>4. ChunksOK' /\ ChunksApart'
  BY <1>1, <1>3 DEF Parallel, ChunksOK, ChunksApart, Apart, Chunk, Starts, input
<1>5. CallerOK' /\ Counts' /\ Sending'
  BY <1>1, <1>2, <1>3 DEF Parallel, CallerOK, Counts, ChannelsSuffice, Sending, input
<1> QED BY <1>3, <1>4, <1>5 DEF Parallel

(* The next level starts where this one ends, and holds the children of    *)
(* its nodes; nothing is left over from this one.                          *)
LEMMA AdvanceStep ==
    ASSUME IInv, Parallel, Advance
    PROVE  Parallel'
<1>1. UNCHANGED <<input, failures, sent, jobs, work, done>>
      /\ main' = "level" /\ level' = NextLevel /\ main \in {"wait", "inline"}
      /\ range' = [range EXCEPT ![0] = Idle]
  BY DEF Advance
<1>2. trie \in Tries /\ workerCount \in Nat /\ workerCount >= 2 /\ NodeCount \in Nat
      /\ NodeCount >= 1 /\ Nodes = 0..(NodeCount - 1) /\ Workers = 1..workerCount
  BY Sizes DEF IInv, Parallel, Workers
<1>3. jobs = 0
  BY DEF Advance, Parallel, CallerOK
<1>4. work = <<>> /\ done = 0 /\ \A g \in Workers : range[g] = Idle
  BY <1>2, <1>3, Quiet DEF Parallel, ChunksOK
<1>5. /\ workerCount' >= 2 /\ workerCount' = workerCount /\ Workers' = Workers
      /\ Idle' = Idle /\ Nodes' = Nodes /\ NodeCount' = NodeCount /\ Starts' = Starts
  BY <1>1, <1>2 DEF input, Workers, Idle, Nodes, NodeCount, Starts
<1>6. \A g \in Workers' : range'[g] = Idle'
  BY <1>1, <1>2, <1>4, <1>5 DEF Parallel, ChunksOK
<1>7. DOMAIN range' = 0..workerCount' /\ range'[0] = Idle'
  BY <1>1, <1>2, <1>5 DEF Parallel, ChunksOK
<1>8. /\ level.start \in 1..NodeCount /\ level.end \in 1..NodeCount
      /\ level.start <= level.end /\ level.end = Starts[level.start] + 1
  BY DEF Parallel, LevelOK
<1>9. /\ Starts[level.start] \in Nat /\ Starts[level.end] \in Nat
      /\ Starts[level.start] <= Starts[level.end]
      /\ Starts[level.end] <= NodeCount - 1
  BY <1>2, <1>8, StartsGrow
<1>10. /\ level' \in [start : 1..NodeCount, end : 1..NodeCount]
       /\ level'.start = level.end /\ level'.end = Starts[level.end] + 1
       /\ level'.start <= level'.end
  <2>1. level' = [start |-> Starts[level.start] + 1, end |-> Starts[level.end] + 1]
    BY <1>1 DEF NextLevel, Starts
  <2> QED BY <1>2, <1>8, <1>9, <2>1, SMTT(30)
<1>11. LevelOK'
  BY <1>5, <1>10 DEF LevelOK
<1>12. FailuresEarlier'
  <2>1. Backward'
    BY <1>1, <1>5 DEF Parallel, FailuresEarlier, Backward
  <2>2. ASSUME NEW n \in Nodes \ {0}
        PROVE  /\ n < level'.end => n < level'.start \/ failures[n] < level'.start
               /\ n >= level'.end => failures[n] < level'.end
    <3>1. failures[n] \in Nat /\ n \in Nat /\ level.end \in Nat /\ level.start \in Nat
      BY <1>2, <1>8 DEF Parallel, FailuresEarlier, Backward
    <3>2. n >= level.end => failures[n] < level.end
      BY DEF Parallel, FailuresEarlier
    <3> QED BY <1>2, <1>10, <3>1, <3>2
  <2> QED BY <1>1, <1>5, <2>1, <2>2 DEF FailuresEarlier
<1>13. ChunksOK' /\ ChunksApart'
  BY <1>1, <1>4, <1>6, <1>7 DEF Parallel, ChunksOK, ChunksApart
<1>14. CallerOK' /\ Sending'
  BY <1>1, <1>3, <1>7 DEF CallerOK, Sending
<1>15. Counts'
  <2>1. {g \in Workers' : range'[g] # Idle'} = {}
    BY <1>6
  <2>2. Cardinality({g \in Workers : range[g] # Idle}') = 0
    BY <2>1, FS_EmptySet
  <2> QED BY <1>1, <1>2, <1>3, <1>4, <1>5, <2>2 DEF Counts, ChannelsSuffice
<1> QED BY <1>5, <1>11, <1>12, <1>13, <1>14, <1>15 DEF Parallel

-----------------------------------------------------------------------------
(* The failure of a child leads before the children.                       *)
LEMMA EdgeKeepsLinks ==
    ASSUME trie \in Tries, LevelOK, FailuresEarlier,
           NEW g, Chunk(range[g]), DoEdge(g)
    PROVE  FailuresEarlier'
<1> DEFINE child == range[g].edge + 1
           failure == FailureOf(Parent(range[g]), trie.edgeTokens[range[g].edge])
<1>1. /\ child \in Nodes \ {0} /\ level.end <= child
      /\ failure \in Nodes /\ failure < level.end
  BY EdgeOK DEF DoEdge
<1>2. /\ failures' = [failures EXCEPT ![child] = failure]
      /\ trie' = trie /\ level' = level
  BY DEF DoEdge, input
<1> HIDE DEF child, failure
<1>3. Nodes' = Nodes /\ Nodes = 0..(NodeCount - 1) /\ NodeCount \in Nat
      /\ level.start \in Nat /\ level.end \in Nat
  BY <1>2, Sizes DEF Nodes, LevelOK
<1>4. Backward'
  <2>1. failures' \in [Nodes -> Nodes] /\ failures'[0] = 0
    BY <1>1, <1>2 DEF FailuresEarlier, Backward
  <2>2. ASSUME NEW n \in Nodes \ {0} PROVE failures'[n] < n
    <3>1. CASE n = child
      BY <1>1, <1>2, <1>3, <3>1 DEF FailuresEarlier, Backward
    <3>2. CASE n # child
      BY <1>1, <1>2, <1>3, <3>2 DEF FailuresEarlier, Backward
    <3> QED BY <3>1, <3>2
  <2> QED BY <1>3, <2>1, <2>2 DEF Backward
<1>5. ASSUME NEW n \in Nodes \ {0}
      PROVE  /\ n < level.end => n < level.start \/ failures'[n] < level.start
             /\ n >= level.end => failures'[n] < level.end
  <2>1. CASE n = child
    BY <1>1, <1>2, <1>3, <2>1 DEF FailuresEarlier, Backward
  <2>2. CASE n # child
    BY <1>1, <1>2, <1>3, <2>2 DEF FailuresEarlier, Backward
  <2> QED BY <2>1, <2>2
<1> QED BY <1>2, <1>3, <1>4, <1>5 DEF FailuresEarlier

(* A goroutine that does an edge keeps its chunk.                          *)
LEMMA EdgeKeepsChunk ==
    ASSUME trie \in Tries, LevelOK, FailuresEarlier,
           NEW g \in DOMAIN range, Chunk(range[g]), DoEdge(g)
    PROVE  /\ Chunk(range'[g])
           /\ range'[g].first = range[g].first /\ range'[g].end = range[g].end
           /\ DOMAIN range' = DOMAIN range
           /\ \A h \in DOMAIN range \ {g} : range'[h] = range[h]
<1>1. range[g].edge \in Nat /\ range[g].edge < Starts[range[g].end]
  BY EdgeOK DEF DoEdge
<1>2. /\ range' = [range EXCEPT ![g] = [range[g] EXCEPT !.edge = range[g].edge + 1]]
  BY DEF DoEdge
<1>3. range'[g] = [range[g] EXCEPT !.edge = range[g].edge + 1]
      /\ DOMAIN range' = DOMAIN range
      /\ \A h \in DOMAIN range \ {g} : range'[h] = range[h]
  BY <1>2
<1>4. range[g] \in Ranges
  BY DEF Chunk
<1>5. /\ range'[g] \in Ranges /\ range'[g].first = range[g].first
      /\ range'[g].end = range[g].end /\ range'[g].edge = range[g].edge + 1
  BY <1>3, <1>4, <1>1 DEF Ranges
<1>6. range[g].end \in 0..NodeCount /\ range[g].first \in 0..NodeCount
  BY Sizes DEF Chunk, Ranges, LevelOK
<1>7. Starts[range[g].end] \in Nat /\ Starts[range[g].first] \in Nat
  BY <1>6, StartsGrow
<1>8. Chunk(range'[g])
  BY <1>1, <1>5, <1>7 DEF Chunk
<1> QED BY <1>3, <1>5, <1>8

LEMMA InlineEdgeStep ==
    ASSUME IInv, Parallel, InlineEdge
    PROVE  Parallel'
<1>1. UNCHANGED <<input, level, work, jobs, done, sent, main>>
      /\ main = "inline" /\ DoEdge(0)
  BY DEF InlineEdge, DoEdge
<1>2. trie \in Tries /\ workerCount \in Nat /\ workerCount >= 2 /\ Workers = 1..workerCount
  BY Sizes DEF IInv, Parallel, Workers
<1>3. Chunk(range[0]) /\ 0 \in DOMAIN range /\ Workers \subseteq DOMAIN range \ {0}
  BY <1>1, <1>2 DEF Parallel, CallerOK, ChunksOK
<1>4. /\ Chunk(range'[0]) /\ DOMAIN range' = DOMAIN range
      /\ \A h \in DOMAIN range \ {0} : range'[h] = range[h]
  BY <1>1, <1>2, <1>3, EdgeKeepsChunk DEF Parallel
<1>5. FailuresEarlier'
  BY <1>1, <1>2, <1>3, EdgeKeepsLinks DEF Parallel
<1>6. \A h \in Workers : range'[h] = range[h]
  BY <1>3, <1>4
<1>7. /\ workerCount' >= 2 /\ workerCount' = workerCount /\ Workers' = Workers
      /\ Idle' = Idle /\ LevelOK' /\ Starts' = Starts
  BY <1>1 DEF input, Workers, Idle, Parallel, LevelOK, Starts, NodeCount
<1>8. ChunksOK' /\ ChunksApart'
  <2>1. ChunksOK'
    BY <1>1, <1>4, <1>6, <1>7 DEF Parallel, ChunksOK, Chunk
  <2>2. ChunksApart'
    BY <1>1, <1>6, <1>7 DEF Parallel, ChunksApart, Apart
  <2> QED BY <2>1, <2>2
<1>9. CallerOK' /\ Sending'
  BY <1>1, <1>4, <1>7 DEF Parallel, CallerOK, Sending, Chunk
<1>10. Counts'
  <2>1. {h \in Workers' : range'[h] # Idle'} = {h \in Workers : range[h] # Idle}
    BY <1>6, <1>7
  <2> QED BY <1>1, <1>7, <2>1 DEF Counts, ChannelsSuffice, Parallel
<1> QED BY <1>5, <1>7, <1>8, <1>9, <1>10 DEF Parallel

LEMMA WorkerEdgeStep ==
    ASSUME IInv, Parallel, NEW g \in Workers, WorkerEdge(g)
    PROVE  Parallel'
<1>1. UNCHANGED <<input, level, work, jobs, done, sent, main>>
      /\ range[g] # Idle /\ DoEdge(g)
  BY DEF WorkerEdge, DoEdge
<1>2. trie \in Tries /\ workerCount \in Nat /\ workerCount >= 2 /\ Workers = 1..workerCount
  BY Sizes DEF IInv, Parallel, Workers
<1>3. Chunk(range[g]) /\ DOMAIN range = 0..workerCount /\ g # 0
  BY <1>1, <1>2 DEF Parallel, ChunksOK
<1>4. g \in DOMAIN range /\ 0 \in DOMAIN range /\ Workers \subseteq DOMAIN range
  BY <1>2, <1>3
<1>5. /\ Chunk(range'[g]) /\ DOMAIN range' = DOMAIN range
      /\ range'[g].first = range[g].first /\ range'[g].end = range[g].end
      /\ \A h \in DOMAIN range \ {g} : range'[h] = range[h]
  BY <1>1, <1>2, <1>3, <1>4, EdgeKeepsChunk DEF Parallel
<1>6. FailuresEarlier'
  BY <1>1, <1>2, <1>3, EdgeKeepsLinks DEF Parallel
<1>7. /\ workerCount' >= 2 /\ workerCount' = workerCount /\ Workers' = Workers
      /\ Idle' = Idle /\ LevelOK' /\ Starts' = Starts
      /\ ParentCount' = ParentCount /\ LevelWorkers' = LevelWorkers
      /\ ChunkSize' = ChunkSize
  BY <1>1 DEF input, Workers, Idle, Parallel, LevelOK, Starts, NodeCount,
              ParentCount, LevelWorkers, ChunkSize
<1>8. range'[0] = range[0]
  BY <1>3, <1>4, <1>5
<1>9. ASSUME NEW h \in Workers
      PROVE  /\ range'[h] # Idle <=> range[h] # Idle
             /\ range[h] # Idle => /\ Chunk(range'[h])
                                   /\ range'[h].first = range[h].first
                                   /\ range'[h].end = range[h].end
  <2>1. CASE h = g
    <3>1. range'[g] # Idle
      BY <1>2, <1>5, Sizes, ChunkNotIdle DEF Parallel
    <3> QED BY <1>1, <1>5, <2>1, <3>1
  <2>2. CASE h # g
    BY <1>4, <1>5, <2>2 DEF Parallel, ChunksOK
  <2> QED BY <2>1, <2>2
<1>10. ChunksOK'
  BY <1>1, <1>3, <1>5, <1>7, <1>9 DEF Parallel, ChunksOK, Chunk
<1>11. ChunksApart'
  <2>1. \A h \in Workers : range'[h] # Idle => \A i \in 1..Len(work) : Apart(range'[h], work[i])
    BY <1>9 DEF Parallel, ChunksApart, Apart
  <2>2. \A h \in Workers : range'[h] # Idle =>
           \A k \in Workers \ {h} : range'[k] # Idle => Apart(range'[h], range'[k])
    BY <1>9 DEF Parallel, ChunksApart, Apart
  <2> QED BY <1>1, <1>7, <2>1, <2>2 DEF Parallel, ChunksApart, Apart
<1>12. Sending'
  BY <1>1, <1>7, <1>9 DEF Parallel, Sending
<1>13. CallerOK'
  BY <1>1, <1>7, <1>8 DEF Parallel, CallerOK, Chunk
<1>14. Counts'
  <2>1. {h \in Workers' : range'[h] # Idle'} = {h \in Workers : range[h] # Idle}
    BY <1>7, <1>9
  <2> QED BY <1>1, <1>7, <2>1 DEF Counts, ChannelsSuffice, Parallel
<1> QED BY <1>6, <1>7, <1>10, <1>11, <1>12, <1>13, <1>14 DEF Parallel

LEMMA TakeChunkStep ==
    ASSUME IInv, Parallel, NEW g \in Workers, TakeChunk(g)
    PROVE  Parallel'
<1> DEFINE chunk == work[1]
<1>1. UNCHANGED <<input, failures, level, sent, jobs, main, done>>
      /\ range[g] = Idle /\ work # <<>>
      /\ range' = [range EXCEPT ![g] = Head(work)] /\ work' = Tail(work)
  BY DEF TakeChunk
<1>2. workerCount \in Nat /\ workerCount >= 2 /\ Workers = 1..workerCount
      /\ NodeCount \in Nat
  BY Sizes DEF IInv, Parallel, Workers
<1>3. DOMAIN range = 0..workerCount /\ g \in DOMAIN range /\ g # 0
  BY <1>2 DEF Parallel, ChunksOK
<1>4. /\ workerCount' >= 2 /\ workerCount' = workerCount /\ Workers' = Workers
      /\ Idle' = Idle /\ LevelOK' /\ FailuresEarlier' /\ Starts' = Starts
      /\ ParentCount' = ParentCount /\ LevelWorkers' = LevelWorkers
      /\ ChunkSize' = ChunkSize
  BY <1>1, LevelKept DEF Starts, input
<1>5. /\ work \in Seq(Ranges) /\ Len(work) \in Nat /\ Len(work) >= 1
      /\ work' \in Seq(Ranges) /\ Len(work') = Len(work) - 1
      /\ Head(work) = chunk
      /\ \A i \in 1..Len(work') : i + 1 \in 1..Len(work) /\ work'[i] = work[i + 1]
  BY <1>1 DEF Parallel, ChunksOK
<1>6. /\ range'[g] = chunk /\ DOMAIN range' = DOMAIN range
      /\ \A h \in DOMAIN range \ {g} : range'[h] = range[h]
  BY <1>1, <1>3, <1>5
<1>7. Chunk(chunk) /\ chunk # Idle
  BY <1>2, <1>5, ChunkNotIdle DEF Parallel, ChunksOK
<1> HIDE DEF chunk
<1>8. ASSUME NEW h \in Workers
      PROVE  (h = g /\ range'[h] = chunk) \/ (h # g /\ range'[h] = range[h])
  BY <1>2, <1>3, <1>6
<1>9. ChunksOK'
  <2>1. (\A i \in 1..Len(work) : Chunk(work[i]))'
    BY <1>1, <1>4, <1>5 DEF Parallel, ChunksOK, Chunk
  <2>2. (\A h \in Workers : range[h] = Idle \/ Chunk(range[h]))'
    BY <1>1, <1>4, <1>7, <1>8 DEF Parallel, ChunksOK, Chunk
  <2> QED BY <1>3, <1>4, <1>5, <1>6, <2>1, <2>2 DEF ChunksOK
<1>10. ChunksApart'
  <2>1. \A i, j \in 1..Len(work') : i # j => Apart(work'[i], work'[j])
    BY <1>5 DEF Parallel, ChunksApart
  <2>2. \A i \in 1..Len(work') : Apart(chunk, work'[i])
    BY <1>5 DEF Parallel, ChunksApart, chunk
  <2>3. \A h \in Workers \ {g} : range[h] # Idle =>
           /\ Apart(range[h], chunk) /\ Apart(chunk, range[h])
           /\ \A i \in 1..Len(work') : Apart(range[h], work'[i])
    BY <1>5 DEF Parallel, ChunksApart, Apart, chunk
  <2>4. ASSUME NEW h \in Workers, range'[h] # Idle
        PROVE  /\ \A i \in 1..Len(work') : Apart(range'[h], work'[i])
               /\ \A k \in Workers \ {h} :
                      range'[k] # Idle => Apart(range'[h], range'[k])
    <3>1. CASE h = g
      BY <1>8, <2>2, <2>3, <3>1
    <3>2. CASE h # g
      BY <1>8, <2>3, <2>4, <3>2 DEF Parallel, ChunksApart
    <3> QED BY <3>1, <3>2
  <2> QED BY <1>4, <2>1, <2>4 DEF ChunksApart, Apart
<1>11. Sending'
  <2>1. main = "send" => chunk.end <= sent
    BY <1>5 DEF Parallel, Sending, chunk
  <2> QED BY <1>1, <1>4, <1>5, <1>8, <2>1 DEF Parallel, Sending
<1>12. CallerOK'
  <2>1. range'[0] = range[0]
    BY <1>2, <1>3, <1>6
  <2> QED BY <1>1, <1>4, <2>1 DEF Parallel, CallerOK, Chunk
<1>13. Counts'
  <2>1. IsFiniteSet(Busy) /\ Cardinality(Busy) \in Nat /\ g \notin Busy
    BY <1>1, <1>2, BusyFinite DEF Busy
  <2>2. {h \in Workers' : range'[h] # Idle'} = Busy \cup {g}
    BY <1>4, <1>7, <1>8 DEF Busy
  <2>3. Cardinality({h \in Workers : range[h] # Idle}') = Cardinality(Busy) + 1
    BY <2>1, <2>2, FS_AddElement
  <2>4. jobs \in Nat /\ done \in Nat /\ jobs <= workerCount
        /\ done + Len(work) + Cardinality(Busy) = jobs
    BY DEF Parallel, Counts, ChannelsSuffice, Busy
  <2>5. done + Len(work') + (Cardinality(Busy) + 1) = jobs
    BY <1>5, <2>1, <2>4
  <2> QED BY <1>1, <1>4, <2>3, <2>4, <2>5 DEF Counts, ChannelsSuffice
<1> QED BY <1>4, <1>9, <1>10, <1>11, <1>12, <1>13 DEF Parallel

LEMMA SignalStep ==
    ASSUME IInv, Parallel, NEW g \in Workers, Signal(g)
    PROVE  Parallel'
<1>1. UNCHANGED <<input, failures, level, sent, jobs, main, work>>
      /\ range[g] # Idle /\ done' = done + 1
      /\ range' = [range EXCEPT ![g] = Idle]
  BY DEF Signal
<1>2. workerCount \in Nat /\ workerCount >= 2 /\ Workers = 1..workerCount
  BY Sizes DEF IInv, Parallel, Workers
<1>3. DOMAIN range = 0..workerCount /\ g \in DOMAIN range /\ g # 0
  BY <1>2 DEF Parallel, ChunksOK
<1>4. /\ workerCount' >= 2 /\ workerCount' = workerCount /\ Workers' = Workers
      /\ Idle' = Idle /\ LevelOK' /\ FailuresEarlier' /\ Starts' = Starts
      /\ ParentCount' = ParentCount /\ LevelWorkers' = LevelWorkers
      /\ ChunkSize' = ChunkSize
  BY <1>1, LevelKept DEF Starts, input
<1>5. /\ range'[g] = Idle /\ DOMAIN range' = DOMAIN range
      /\ \A h \in DOMAIN range \ {g} : range'[h] = range[h]
  BY <1>1, <1>3
<1>6. \A h \in Workers : range'[h] # Idle => h # g /\ range'[h] = range[h]
  BY <1>2, <1>3, <1>5
<1>7. ChunksOK'
  BY <1>1, <1>3, <1>4, <1>5, <1>6 DEF Parallel, ChunksOK, Chunk
<1>8. ChunksApart'
  BY <1>1, <1>4, <1>6 DEF Parallel, ChunksApart, Apart
<1>9. Sending'
  BY <1>1, <1>4, <1>6 DEF Parallel, Sending
<1>10. CallerOK'
  <2>1. range'[0] = range[0]
    BY <1>2, <1>3, <1>5
  <2> QED BY <1>1, <1>4, <2>1 DEF Parallel, CallerOK, Chunk
<1>11. Counts'
  <2>1. IsFiniteSet(Busy) /\ Cardinality(Busy) \in Nat /\ g \in Busy
    BY <1>1, <1>2, BusyFinite DEF Busy
  <2>2. {h \in Workers' : range'[h] # Idle'} = Busy \ {g}
    BY <1>2, <1>3, <1>4, <1>5 DEF Busy
  <2>3. Cardinality({h \in Workers : range[h] # Idle}') = Cardinality(Busy) - 1
    BY <2>1, <2>2, FS_RemoveElement
  <2>4. jobs \in Nat /\ done \in Nat /\ jobs <= workerCount /\ Len(work) \in Nat
        /\ done + Len(work) + Cardinality(Busy) = jobs
    BY DEF Parallel, Counts, ChannelsSuffice, Busy, ChunksOK
  <2>5. (done + 1) + Len(work) + (Cardinality(Busy) - 1) = jobs
    BY <2>1, <2>4
  <2> QED BY <1>1, <1>4, <2>3, <2>4, <2>5 DEF Counts, ChannelsSuffice
<1> QED BY <1>4, <1>7, <1>8, <1>9, <1>10, <1>11 DEF Parallel

-----------------------------------------------------------------------------
LEMMA StutterStep ==
    ASSUME Parallel, UNCHANGED vars
    PROVE  Parallel'
BY DEF vars, input, Parallel, LevelOK, FailuresEarlier, Backward, ChunksOK, ChunksApart,
       Apart, Chunk, Sending, CallerOK, Counts, ChannelsSuffice, Workers, Nodes, Idle,
       Starts, NodeCount, ParentCount, LevelWorkers, ChunkSize

LEMMA ParallelStep ==
    ASSUME IInv, Parallel, Next
    PROVE  Parallel' /\ UNCHANGED input
<1>1. UNCHANGED input
  BY DEF Next, Caller, Worker, StartInline, StartParallel, SendChunk, AllSent, Await,
         Advance, Complete, InlineEdge, DoEdge, TakeChunk, WorkerEdge, Signal,
         Terminated, vars, input
<1>2. CASE Caller
  BY <1>1, <1>2, StartInlineStep, StartParallelStep, SendChunkStep, AllSentStep, AwaitStep,
     AdvanceStep, CompleteStep, InlineEdgeStep DEF Caller
<1>3. CASE \E g \in Workers : Worker(g)
  BY <1>1, <1>3, TakeChunkStep, WorkerEdgeStep, SignalStep DEF Worker
<1>4. CASE Terminated
  BY <1>1, <1>4, StutterStep DEF Terminated
<1> QED BY <1>1, <1>2, <1>3, <1>4 DEF Next

(* The induction: every step of the specification keeps the invariant.     *)
LEMMA StepInvariant ==
    ASSUME IInv, [Next]_vars
    PROVE  IInv'
<1>1. ASSUME UNCHANGED input PROVE (trie \in Tries /\ workerCount \in 1..NodeCount)'
  BY <1>1 DEF IInv, input, NodeCount
<1>2. CASE Next
  <2>1. CASE Single
    BY <1>1, <1>2, <2>1, SingleStep DEF IInv
  <2>2. CASE Parallel
    BY <1>1, <1>2, <2>2, ParallelStep DEF IInv
  <2> QED BY <2>1, <2>2 DEF IInv
<1>3. CASE UNCHANGED vars
  <2>1. UNCHANGED input
    BY <1>3 DEF vars, input
  <2>2. Single => Single'
    BY <1>3 DEF vars, Single
  <2>3. Parallel => Parallel'
    BY <1>3, StutterStep
  <2> QED BY <1>1, <2>1, <2>2, <2>3 DEF IInv
<1> QED BY <1>2, <1>3

LEMMA InvariantSuffices ==
    ASSUME IInv
    PROVE  ChannelsSuffice
<1>1. CASE Single
  <2>1. {g \in Workers : range[g] # Idle} = {}
    BY <1>1 DEF Single, Workers
  <2>2. Cardinality({g \in Workers : range[g] # Idle}) = 0
    BY <2>1, FS_EmptySet
  <2> QED BY <1>1, <2>2 DEF Single, ChannelsSuffice
<1>2. CASE Parallel
  BY <1>2 DEF Parallel, Counts
<1> QED BY <1>1, <1>2 DEF IInv

LEMMA Invariant == Spec => []IInv
<1>1. Init => IInv
  BY InitInvariant
<1>2. IInv /\ [Next]_vars => IInv'
  BY StepInvariant
<1> QED BY <1>1, <1>2, PTL DEF Spec

(* buildFailureLinksInto has no data race, although nothing is locked: a   *)
(* worker never writes a link that another is about to read or write.  It  *)
(* holds for every trie numbered breadth-first, any number of workers and  *)
(* any way the scheduler runs them.                                        *)
THEOREM RaceFree == Spec => []NoDataRace
BY Invariant, InvariantExcludesRaces, PTL

(* No level has more chunks than there are workers, so that neither the    *)
(* caller, sending a chunk, nor a worker, signaling one, ever finds its    *)
(* channel full; and no signal is left over for a later level to count.    *)
THEOREM NeverFull == Spec => []ChannelsSuffice
BY Invariant, InvariantSuffices, PTL
-----------------------------------------------------------------------------
(* Suffixes.  First, position by position.                                 *)
LEMMA EndsInByIndex ==
    ASSUME NEW a \in Seq(Nat), NEW b \in Seq(Nat)
    PROVE  EndsIn(a, b) <=>
              /\ Len(b) <= Len(a)
              /\ \A j \in 1..Len(b) : b[j] = a[(Len(a) - Len(b)) + j]
<1>1. ASSUME NEW i \in 1..(Len(a) + 1)
      PROVE  /\ SubSeq(a, i, Len(a)) \in Seq(Nat)
             /\ Len(SubSeq(a, i, Len(a))) = (Len(a) - i) + 1
             /\ \A j \in 1..((Len(a) - i) + 1) :
                    SubSeq(a, i, Len(a))[j] = a[(i - 1) + j]
  OBVIOUS
<1>2. ASSUME NEW i \in 1..(Len(a) + 1), SubSeq(a, i, Len(a)) = b
      PROVE  /\ Len(b) <= Len(a)
             /\ \A j \in 1..Len(b) : b[j] = a[(Len(a) - Len(b)) + j]
  <2>1. Len(b) = (Len(a) - i) + 1
    BY <1>1, <1>2
  <2> QED BY <1>1, <1>2, <2>1
<1>3. ASSUME Len(b) <= Len(a),
             \A j \in 1..Len(b) : b[j] = a[(Len(a) - Len(b)) + j]
      PROVE  \E i \in 1..(Len(a) + 1) : SubSeq(a, i, Len(a)) = b
  <2> DEFINE i == (Len(a) - Len(b)) + 1
  <2>1. i \in 1..(Len(a) + 1) /\ (Len(a) - i) + 1 = Len(b)
    BY <1>3
  <2>2. /\ SubSeq(a, i, Len(a)) \in Seq(Nat)
        /\ Len(SubSeq(a, i, Len(a))) = Len(b)
        /\ \A j \in 1..Len(b) : SubSeq(a, i, Len(a))[j] = b[j]
    <3>1. (i - 1) = Len(a) - Len(b)
      OBVIOUS
    <3>2. /\ SubSeq(a, i, Len(a)) \in Seq(Nat)
          /\ Len(SubSeq(a, i, Len(a))) = (Len(a) - i) + 1
          /\ \A j \in 1..((Len(a) - i) + 1) :
                 SubSeq(a, i, Len(a))[j] = a[(i - 1) + j]
      <4> HIDE DEF i
      <4> QED BY <1>1, <2>1
    <3> HIDE DEF i
    <3> QED BY <1>3, <2>1, <3>1, <3>2
  <2>3. SubSeq(a, i, Len(a)) = b
    <3> HIDE DEF i
    <3> QED BY <2>2, SeqEqual
  <2> QED BY <2>1, <2>3
<1> QED BY <1>2, <1>3 DEF EndsIn

(* The empty sequence ends every one, and only it ends itself.             *)
LEMMA EndsInEmpty ==
    ASSUME NEW a \in Seq(Nat)
    PROVE  /\ EndsIn(a, <<>>)
           /\ EndsIn(<<>>, a) => a = <<>>
<1>1. ASSUME NEW e \in Seq(Nat), Len(e) = 0
      PROVE  EndsIn(a, e) /\ (EndsIn(e, a) => Len(a) = 0)
  <2>1. EndsIn(a, e)
    <3>1. Len(e) <= Len(a) /\ \A j \in 1..Len(e) : e[j] = a[(Len(a) - Len(e)) + j]
      BY <1>1
    <3> QED BY <3>1, EndsInByIndex
  <2>2. EndsIn(e, a) => Len(a) <= Len(e)
    BY EndsInByIndex
  <2> QED BY <1>1, <2>1, <2>2
<1>2. <<>> \in Seq(Nat) /\ Len(<<>>) = 0
  OBVIOUS
<1> QED BY <1>1, <1>2, EmptySeq

LEMMA EndsInSelf ==
    ASSUME NEW a \in Seq(Nat)
    PROVE  EndsIn(a, a)
BY EndsInByIndex

LEMMA EndsInShorter ==
    ASSUME NEW a \in Seq(Nat), NEW b \in Seq(Nat), EndsIn(a, b)
    PROVE  Len(b) <= Len(a) /\ (Len(a) = Len(b) => a = b)
<1>1. /\ Len(b) <= Len(a) /\ Len(a) \in Nat /\ Len(b) \in Nat
      /\ \A j \in 1..Len(b) : b[j] = a[(Len(a) - Len(b)) + j]
  BY EndsInByIndex
<1>2. Len(a) = Len(b) => \A j \in 1..Len(a) : a[j] = b[j]
  BY <1>1
<1> QED BY <1>1, <1>2, SeqEqual

LEMMA EndsInTransitive ==
    ASSUME NEW a \in Seq(Nat), NEW b \in Seq(Nat), NEW c \in Seq(Nat),
           EndsIn(a, b), EndsIn(b, c)
    PROVE  EndsIn(a, c)
<1>1. /\ Len(b) <= Len(a) /\ Len(a) \in Nat /\ Len(b) \in Nat
      /\ \A j \in 1..Len(b) : b[j] = a[(Len(a) - Len(b)) + j]
  BY EndsInByIndex
<1>2. /\ Len(c) <= Len(b) /\ Len(c) \in Nat
      /\ \A j \in 1..Len(c) : c[j] = b[(Len(b) - Len(c)) + j]
  BY EndsInByIndex
<1>3. ASSUME NEW j \in 1..Len(c) PROVE c[j] = a[(Len(a) - Len(c)) + j]
  <2>1. (Len(b) - Len(c)) + j \in 1..Len(b)
    BY <1>1, <1>2
  <2>2. (Len(a) - Len(b)) + ((Len(b) - Len(c)) + j) = (Len(a) - Len(c)) + j
    BY <1>1, <1>2
  <2> QED BY <1>1, <1>2, <2>1, <2>2
<1> QED BY <1>1, <1>2, <1>3, EndsInByIndex

(* Of two sequences that end a third, the shorter ends the longer.         *)
LEMMA EndsInCompared ==
    ASSUME NEW a \in Seq(Nat), NEW b \in Seq(Nat), NEW c \in Seq(Nat),
           EndsIn(a, b), EndsIn(a, c), Len(c) <= Len(b)
    PROVE  EndsIn(b, c)
<1>1. /\ Len(b) <= Len(a) /\ Len(a) \in Nat /\ Len(b) \in Nat
      /\ \A j \in 1..Len(b) : b[j] = a[(Len(a) - Len(b)) + j]
  BY EndsInByIndex
<1>2. /\ Len(c) \in Nat
      /\ \A j \in 1..Len(c) : c[j] = a[(Len(a) - Len(c)) + j]
  BY EndsInByIndex
<1>3. ASSUME NEW j \in 1..Len(c) PROVE c[j] = b[(Len(b) - Len(c)) + j]
  <2>1. (Len(b) - Len(c)) + j \in 1..Len(b)
    BY <1>1, <1>2
  <2>2. (Len(a) - Len(b)) + ((Len(b) - Len(c)) + j) = (Len(a) - Len(c)) + j
    BY <1>1, <1>2
  <2> QED BY <1>1, <1>2, <2>1, <2>2
<1> QED BY <1>2, <1>3, EndsInByIndex

LEMMA EndsInAppended ==
    ASSUME NEW a \in Seq(Nat), NEW b \in Seq(Nat), NEW x \in Nat, NEW y \in Nat
    PROVE  EndsIn(Append(a, x), Append(b, y)) <=> x = y /\ EndsIn(a, b)
<1> DEFINE ax == Append(a, x)
           by == Append(b, y)
<1>1. /\ ax \in Seq(Nat) /\ Len(ax) = Len(a) + 1 /\ ax[Len(a) + 1] = x
      /\ \A j \in 1..Len(a) : ax[j] = a[j]
      /\ Len(a) \in Nat
  OBVIOUS
<1>2. /\ by \in Seq(Nat) /\ Len(by) = Len(b) + 1 /\ by[Len(b) + 1] = y
      /\ \A j \in 1..Len(b) : by[j] = b[j]
      /\ Len(b) \in Nat
  OBVIOUS
<1> HIDE DEF ax, by
<1>3. EndsIn(ax, by) <=>
          Len(by) <= Len(ax) /\ \A j \in 1..Len(by) : by[j] = ax[(Len(ax) - Len(by)) + j]
  BY <1>1, <1>2, EndsInByIndex
<1>4. EndsIn(a, b) <=>
          Len(b) <= Len(a) /\ \A j \in 1..Len(b) : b[j] = a[(Len(a) - Len(b)) + j]
  BY EndsInByIndex
<1>5. PICK shift : shift = Len(a) - Len(b)
  OBVIOUS
<1>6. Len(ax) - Len(by) = shift /\ (Len(by) <= Len(ax) <=> Len(b) <= Len(a))
  BY <1>1, <1>2, <1>5
<1>7. ASSUME Len(b) <= Len(a)
      PROVE  (\A j \in 1..Len(by) : by[j] = ax[shift + j])
                <=> x = y /\ \A j \in 1..Len(b) : b[j] = a[shift + j]
  <2>1. shift + Len(by) = Len(ax) /\ shift \in Nat
    BY <1>1, <1>2, <1>5, <1>7
  <2>2. ax[shift + Len(by)] = x /\ by[Len(by)] = y
    BY <1>1, <1>2, <2>1
  <2>3. \A j \in 1..Len(b) : shift + j \in 1..Len(a)
    BY <1>1, <1>2, <1>5, <1>7
  <2>4. \A j \in 1..Len(b) : by[j] = b[j] /\ ax[shift + j] = a[shift + j]
    BY <1>1, <1>2, <2>3
  <2>5. Len(by) \in 1..Len(by) /\ \A j \in 1..Len(by) : j = Len(by) \/ j \in 1..Len(b)
    BY <1>2
  <2>6. 1..Len(b) \subseteq 1..Len(by)
    BY <1>2
  <2>7. ASSUME \A j \in 1..Len(by) : by[j] = ax[shift + j]
        PROVE  x = y /\ \A j \in 1..Len(b) : b[j] = a[shift + j]
    BY <2>2, <2>4, <2>5, <2>6, <2>7
  <2>8. ASSUME x = y, \A j \in 1..Len(b) : b[j] = a[shift + j], NEW j \in 1..Len(by)
        PROVE  by[j] = ax[shift + j]
    BY <2>2, <2>4, <2>5, <2>8
  <2> QED BY <2>7, <2>8
<1> QED BY <1>3, <1>4, <1>5, <1>6, <1>7 DEF ax, by

LEMMA AppendedEqual ==
    ASSUME NEW a \in Seq(Nat), NEW b \in Seq(Nat), NEW x \in Nat, NEW y \in Nat,
           Append(a, x) = Append(b, y)
    PROVE  x = y /\ a = b
<1>1. Append(a, x) \in Seq(Nat)
  BY AppendProperties
<1>2. x = y /\ EndsIn(a, b)
  BY <1>1, EndsInSelf, EndsInAppended
<1>3. Len(Append(a, x)) = Len(a) + 1 /\ Len(Append(b, y)) = Len(b) + 1
      /\ Len(a) \in Nat /\ Len(b) \in Nat
  BY AppendProperties
<1>4. Len(a) = Len(b)
  BY <1>3
<1> QED BY <1>2, <1>4, EndsInShorter

-----------------------------------------------------------------------------
(* Every node but the root has one parent, numbered before it.             *)
LEMMA UpOK ==
    ASSUME trie \in Tries, NEW n \in Nodes \ {0}
    PROVE  /\ Up(trie, n) \in Nodes /\ Up(trie, n) < n
           /\ n - 1 \in Edges(Up(trie, n), Up(trie, n) + 1)
<1>1. n \in Nat /\ n >= 1 /\ n <= NodeCount - 1 /\ NodeCount \in Nat
  BY Sizes
<1>2. Starts[0] = 0 /\ Starts[NodeCount] = NodeCount - 1
  BY TrieOK
<1>3. \E p \in 0..(NodeCount - 1) : n - 1 \in Edges(p, p + 1)
  <2>1. 0 \in 0..NodeCount /\ NodeCount \in 0..NodeCount /\ n - 1 \in Nat
    BY <1>1
  <2>2. Starts[0] <= n - 1 /\ n - 1 < Starts[NodeCount]
    BY <1>1, <1>2
  <2> QED BY <2>1, <2>2, ParentExists
<1>4. ASSUME NEW p \in 0..(NodeCount - 1)
      PROVE  n - 1 \in Edges(p, p + 1) <=>
                n \in (trie.edgeStarts[p] + 1)..trie.edgeStarts[p + 1]
  <2>1. p \in 0..NodeCount /\ p + 1 \in 0..NodeCount
    BY <1>1
  <2>2. Starts[p] \in Nat /\ Starts[p + 1] \in Nat
    BY <2>1, TrieOK
  <2> QED BY <1>1, <2>2 DEF Edges, Starts
<1> DEFINE up == Up(trie, n)
<1>5. up \in 0..(NodeCount - 1) /\ n - 1 \in Edges(up, up + 1)
  BY <1>3, <1>4 DEF Up, NodeCount
<1> HIDE DEF up
<1>6. up <= Starts[up] /\ Starts[up] <= n - 1 /\ Starts[up] \in Nat
  <2>1. up \in 0..NodeCount /\ up + 1 \in 0..NodeCount
    BY <1>1, <1>5
  <2>2. Starts[up] \in Nat /\ Starts[up + 1] \in Nat
    BY <2>1, TrieOK
  <2>3. up <= Starts[up]
    BY <1>5, TrieOK
  <2>4. Starts[up] <= n - 1
    BY <1>1, <1>5, <2>2 DEF Edges, Starts
  <2> QED BY <2>2, <2>3, <2>4
<1>7. up \in Nodes /\ up < n
  BY <1>1, <1>5, <1>6, Sizes
<1> QED BY <1>5, <1>7 DEF up

LEMMA OneParent ==
    ASSUME trie \in Tries, NEW p \in Nodes, NEW q \in Nodes, NEW e,
           e \in Edges(p, p + 1), e \in Edges(q, q + 1)
    PROVE  p = q
<1>1. ASSUME NEW x \in Nodes, NEW y \in Nodes, x < y,
             e \in Edges(x, x + 1), e \in Edges(y, y + 1)
      PROVE  FALSE
  <2>1. x \in Nat /\ y \in Nat /\ x + 1 \in 0..NodeCount /\ y \in 0..NodeCount
        /\ x + 1 <= y /\ x \in 0..NodeCount /\ y + 1 \in 0..NodeCount
    BY <1>1, Sizes
  <2>2. Starts[x + 1] <= Starts[y] /\ Starts[x + 1] \in Nat /\ Starts[y] \in Nat
        /\ Starts[x] \in Nat /\ Starts[y + 1] \in Nat
    BY <2>1, StartsGrow
  <2> QED BY <1>1, <2>2 DEF Edges, Starts
<1>2. p \in Nat /\ q \in Nat
  BY Sizes
<1> QED BY <1>1, <1>2

Token(n) == trie.edgeTokens[n - 1]

LEMMA TokenOK ==
    ASSUME trie \in Tries, NEW n \in Nodes \ {0}
    PROVE  Token(n) \in Nat
<1>1. n - 1 \in 0..(NodeCount - 2)
  BY Sizes
<1>2. trie.edgeTokens \in [0..(NodeCount - 2) -> Nat]
  BY LinksAssumption DEF IsTrie, NodeCount
<1> QED BY <1>1, <1>2 DEF Token

(* Siblings differ in their token.                                         *)
LEMMA SiblingsDiffer ==
    ASSUME trie \in Tries, NEW m \in Nodes \ {0}, NEW n \in Nodes \ {0},
           Up(trie, m) = Up(trie, n), Token(m) = Token(n)
    PROVE  m = n
<1> DEFINE p == Up(trie, m)
<1>1. p \in Nodes /\ m - 1 \in Edges(p, p + 1) /\ n - 1 \in Edges(p, p + 1)
  BY UpOK
<1>2. \A e, f \in Edges(p, p + 1) : e < f => trie.edgeTokens[e] < trie.edgeTokens[f]
  BY <1>1, LinksAssumption DEF IsTrie, Nodes, Edges
<1>3. m \in Nat /\ n \in Nat
  BY Sizes
<1>4. Token(m) \in Nat /\ Token(n) \in Nat
  BY TokenOK
<1> HIDE DEF p
<1>5. ~(m - 1 < n - 1) /\ ~(n - 1 < m - 1)
  BY <1>1, <1>2, <1>4 DEF Token
<1> QED BY <1>3, <1>5

-----------------------------------------------------------------------------
Paths == PathsOf(trie)

ArePaths(path, k) ==
    path = [n \in 0..k |-> IF n = 0 THEN <<>> ELSE Append(path[Up(trie, n)], Token(n))]

(* The recursive definition of the paths has a solution.                   *)
LEMMA PathsExist ==
    ASSUME trie \in Tries
    PROVE  \A k \in Nodes : \E path : ArePaths(path, k)
<1> DEFINE Bad == {k \in Nodes : ~ \E path : ArePaths(path, k)}
<1>1. SUFFICES ASSUME Bad # {} PROVE FALSE
  OBVIOUS
<1>2. PICK k \in Bad : \A n \in Bad : k <= n
  <2>1. Bad \subseteq Nat
    BY Sizes
  <2> QED BY <1>1, <2>1, LeastElement
<1>3. k \in Nodes /\ ~ \E path : ArePaths(path, k)
  BY <1>2
<1>4. k # 0
  <2> DEFINE path == [n \in 0..0 |-> <<>>]
  <2>1. ArePaths(path, 0)
    BY DEF ArePaths
  <2> QED BY <2>1, <1>3
<1>5. k - 1 \in Nodes /\ k - 1 \notin Bad /\ k \in Nat
  BY <1>2, <1>3, <1>4, Sizes
<1>6. PICK path : ArePaths(path, k - 1)
  BY <1>5
<1> DEFINE longer == [n \in 0..k |-> IF n < k THEN path[n]
                                     ELSE Append(path[Up(trie, n)], Token(n))]
<1>7. ASSUME NEW n \in 0..k
      PROVE  longer[n] = IF n = 0 THEN <<>> ELSE Append(longer[Up(trie, n)], Token(n))
  <2>1. n \in Nodes /\ n \in Nat
    BY <1>3, <1>5, Sizes
  <2>2. n # 0 => Up(trie, n) \in 0..k /\ Up(trie, n) < n
    BY <2>1, <1>5, UpOK, Sizes
  <2>3. n # 0 => longer[Up(trie, n)] = path[Up(trie, n)]
    BY <2>1, <2>2, <1>5
  <2>4. CASE n < k
    <3>1. longer[n] = path[n] /\ n \in 0..(k - 1)
      BY <2>4, <1>5, <2>1
    <3>2. path[n] = IF n = 0 THEN <<>> ELSE Append(path[Up(trie, n)], Token(n))
      BY <3>1, <1>6 DEF ArePaths
    <3> QED BY <3>1, <3>2, <2>3
  <2>5. CASE n = k
    BY <2>5, <2>1, <2>3, <1>4, <1>5
  <2> QED BY <2>4, <2>5, <2>1, <1>5
<1>8. ArePaths(longer, k)
  <2> HIDE DEF longer
  <2>1. longer = [n \in 0..k |-> longer[n]]
    BY DEF longer
  <2> QED BY <1>7, <2>1 DEF ArePaths
<1> QED BY <1>3, <1>8

LEMMA PathsOK ==
    ASSUME trie \in Tries
    PROVE  /\ DOMAIN Paths = Nodes
           /\ Paths[0] = <<>>
           /\ \A n \in Nodes \ {0} : Paths[n] = Append(Paths[Up(trie, n)], Token(n))
<1>1. PICK path : path = CHOOSE c : ArePaths(c, NodeCount - 1)
  OBVIOUS
<1>2. NodeCount - 1 \in Nodes
  BY Sizes
<1>3. ArePaths(path, NodeCount - 1)
  BY <1>1, <1>2, PathsExist
<1>4. Paths = path
  BY <1>1 DEF Paths, PathsOf, ArePaths, Token, NodeCount
<1>5. DOMAIN path = 0..(NodeCount - 1)
  BY <1>3 DEF ArePaths
<1>6. \A n \in 0..(NodeCount - 1) :
         path[n] = IF n = 0 THEN <<>> ELSE Append(path[Up(trie, n)], Token(n))
  BY <1>3 DEF ArePaths
<1>7. Nodes = 0..(NodeCount - 1) /\ 0 \in Nodes
  BY Sizes
<1> QED BY <1>4, <1>5, <1>6, <1>7

LEMMA PathsAreSequences ==
    ASSUME trie \in Tries
    PROVE  \A n \in Nodes : Paths[n] \in Seq(Nat) /\ Len(Paths[n]) \in Nat
<1> DEFINE Bad == {n \in Nodes : Paths[n] \notin Seq(Nat)}
<1>1. Bad = {}
  <2>1. SUFFICES ASSUME Bad # {} PROVE FALSE
    OBVIOUS
  <2>2. PICK n \in Bad : \A m \in Bad : n <= m
    <3>1. Bad \subseteq Nat
      BY Sizes
    <3> QED BY <2>1, <3>1, LeastElement
  <2>3. n # 0 /\ n \in Nodes /\ n \in Nat
    BY <2>2, PathsOK, Sizes, SMTT(30)
  <2>4. Up(trie, n) \in Nodes /\ Up(trie, n) < n /\ Up(trie, n) \in Nat
    BY <2>3, UpOK, Sizes
  <2>5. Up(trie, n) \notin Bad
    BY <2>2, <2>3, <2>4
  <2>6. Paths[Up(trie, n)] \in Seq(Nat) /\ Token(n) \in Nat
    BY <2>3, <2>4, <2>5, TokenOK
  <2>7. Paths[n] = Append(Paths[Up(trie, n)], Token(n))
    BY <2>3, PathsOK
  <2>8. Paths[n] \in Seq(Nat)
    BY <2>6, <2>7
  <2> QED BY <2>2, <2>8
<1> QED BY <1>1

(* Different nodes have different paths.                                   *)
LEMMA PathsDiffer ==
    ASSUME trie \in Tries
    PROVE  \A m, n \in Nodes : Paths[m] = Paths[n] => m = n
<1> DEFINE Bad == {m \in Nodes : \E n \in Nodes : Paths[m] = Paths[n] /\ m # n}
<1>1. SUFFICES ASSUME Bad # {} PROVE FALSE
  OBVIOUS
<1>2. PICK m \in Bad : \A k \in Bad : m <= k
  <2>1. Bad \subseteq Nat
    BY Sizes
  <2> QED BY <1>1, <2>1, LeastElement
<1>3. PICK n \in Nodes : Paths[m] = Paths[n] /\ m # n
  BY <1>2
<1>4. ASSUME NEW k \in Nodes \ {0}
      PROVE  /\ Paths[k] = Append(Paths[Up(trie, k)], Token(k))
             /\ Paths[Up(trie, k)] \in Seq(Nat) /\ Token(k) \in Nat
             /\ Len(Paths[k]) = Len(Paths[Up(trie, k)]) + 1
  <2>1. /\ Paths[k] = Append(Paths[Up(trie, k)], Token(k))
        /\ Paths[Up(trie, k)] \in Seq(Nat) /\ Token(k) \in Nat
    BY PathsOK, UpOK, PathsAreSequences, TokenOK
  <2> QED BY <2>1, AppendProperties
<1>5. m \in Nodes /\ Len(Paths[0]) = 0 /\ 0 \in Nodes
  BY <1>2, PathsOK, Sizes
<1>6. m # 0 /\ n # 0
  BY <1>3, <1>4, <1>5, UpOK, PathsAreSequences
<1>7. Token(m) = Token(n) /\ Paths[Up(trie, m)] = Paths[Up(trie, n)]
  <2>1. /\ Append(Paths[Up(trie, m)], Token(m)) = Append(Paths[Up(trie, n)], Token(n))
        /\ Paths[Up(trie, m)] \in Seq(Nat) /\ Token(m) \in Nat
        /\ Paths[Up(trie, n)] \in Seq(Nat) /\ Token(n) \in Nat
    BY <1>3, <1>4, <1>5, <1>6
  <2>2. PICK a, b, x, y : /\ a = Paths[Up(trie, m)] /\ b = Paths[Up(trie, n)]
                          /\ x = Token(m) /\ y = Token(n)
    OBVIOUS
  <2>3. x = y /\ a = b
    BY <2>1, <2>2, AppendedEqual
  <2> QED BY <2>2, <2>3
<1>8. Up(trie, m) \in Nodes /\ Up(trie, m) < m /\ Up(trie, n) \in Nodes
      /\ Up(trie, m) \in Nat /\ m \in Nat
  BY <1>3, <1>5, <1>6, UpOK, Sizes
<1>9. Up(trie, m) \notin Bad
  BY <1>2, <1>8
<1>10. Up(trie, m) = Up(trie, n)
  BY <1>7, <1>8, <1>9
<1> QED BY <1>3, <1>5, <1>6, <1>7, <1>10, SiblingsDiffer

-----------------------------------------------------------------------------
(* The path of m is a suffix of that of n.                                 *)
Suffix(n, m) == EndsIn(Paths[n], Paths[m])

LEMMA SuffixRoot ==
    ASSUME trie \in Tries, NEW n \in Nodes
    PROVE  Suffix(n, 0) /\ (Suffix(0, n) => n = 0) /\ 0 \in Nodes
<1>1. Paths[0] = <<>> /\ Paths[n] \in Seq(Nat) /\ 0 \in Nodes
  BY PathsOK, PathsAreSequences, Sizes
<1>2. EndsIn(Paths[n], <<>>) /\ (EndsIn(<<>>, Paths[n]) => Paths[n] = <<>>)
  BY <1>1, EndsInEmpty
<1> QED BY <1>1, <1>2, PathsDiffer DEF Suffix

LEMMA SuffixSelf ==
    ASSUME trie \in Tries, NEW n \in Nodes
    PROVE  Suffix(n, n)
BY PathsAreSequences, EndsInSelf DEF Suffix

LEMMA SuffixShorter ==
    ASSUME trie \in Tries, NEW m \in Nodes, NEW n \in Nodes, Suffix(n, m)
    PROVE  /\ Len(Paths[m]) <= Len(Paths[n])
           /\ Len(Paths[m]) = Len(Paths[n]) => m = n
<1>1. Paths[m] \in Seq(Nat) /\ Paths[n] \in Seq(Nat) /\ EndsIn(Paths[n], Paths[m])
  BY PathsAreSequences DEF Suffix
<1>2. PICK a, b : a = Paths[n] /\ b = Paths[m]
  OBVIOUS
<1>3. Len(b) <= Len(a) /\ (Len(a) = Len(b) => a = b)
  BY <1>1, <1>2, EndsInShorter
<1> QED BY <1>2, <1>3, PathsDiffer

LEMMA SuffixBothWays ==
    ASSUME trie \in Tries, NEW m \in Nodes, NEW n \in Nodes, Suffix(n, m), Suffix(m, n)
    PROVE  m = n
<1>1. Len(Paths[m]) <= Len(Paths[n]) /\ Len(Paths[n]) <= Len(Paths[m])
      /\ Len(Paths[m]) \in Nat /\ Len(Paths[n]) \in Nat
  BY SuffixShorter, PathsAreSequences
<1>2. Len(Paths[m]) = Len(Paths[n])
  BY <1>1
<1> QED BY <1>2, SuffixShorter

LEMMA SuffixTransitive ==
    ASSUME trie \in Tries, NEW a \in Nodes, NEW b \in Nodes, NEW c \in Nodes,
           Suffix(a, b), Suffix(b, c)
    PROVE  Suffix(a, c)
<1>1. PICK x, y, z : x = Paths[a] /\ y = Paths[b] /\ z = Paths[c]
  OBVIOUS
<1>2. x \in Seq(Nat) /\ y \in Seq(Nat) /\ z \in Seq(Nat) /\ EndsIn(x, y) /\ EndsIn(y, z)
  BY <1>1, PathsAreSequences DEF Suffix
<1>3. EndsIn(x, z)
  BY <1>2, EndsInTransitive
<1> QED BY <1>1, <1>3 DEF Suffix

LEMMA SuffixCompared ==
    ASSUME trie \in Tries, NEW a \in Nodes, NEW b \in Nodes, NEW c \in Nodes,
           Suffix(a, b), Suffix(a, c)
    PROVE  Suffix(b, c) \/ Suffix(c, b)
<1>1. PICK x, y, z : x = Paths[a] /\ y = Paths[b] /\ z = Paths[c]
  OBVIOUS
<1>2. x \in Seq(Nat) /\ y \in Seq(Nat) /\ z \in Seq(Nat) /\ EndsIn(x, y) /\ EndsIn(x, z)
      /\ Len(y) \in Nat /\ Len(z) \in Nat
  BY <1>1, PathsAreSequences DEF Suffix
<1>3. Len(z) <= Len(y) \/ Len(y) <= Len(z)
  BY <1>2
<1>4. EndsIn(y, z) \/ EndsIn(z, y)
  BY <1>2, <1>3, EndsInCompared
<1> QED BY <1>1, <1>4 DEF Suffix

(* One path ends another when their last tokens agree and what precedes    *)
(* the one ends what precedes the other.                                   *)
LEMMA SuffixByParent ==
    ASSUME trie \in Tries, NEW m \in Nodes \ {0}, NEW n \in Nodes \ {0}
    PROVE  Suffix(n, m) <=> Token(n) = Token(m) /\ Suffix(Up(trie, n), Up(trie, m))
<1>1. PICK a, b, x, y : /\ a = Paths[Up(trie, n)] /\ b = Paths[Up(trie, m)]
                        /\ x = Token(n) /\ y = Token(m)
  OBVIOUS
<1>2. /\ Paths[n] = Append(a, x) /\ Paths[m] = Append(b, y)
      /\ a \in Seq(Nat) /\ b \in Seq(Nat) /\ x \in Nat /\ y \in Nat
  BY <1>1, PathsOK, UpOK, PathsAreSequences, TokenOK
<1>3. EndsIn(Append(a, x), Append(b, y)) <=> x = y /\ EndsIn(a, b)
  BY <1>2, EndsInAppended
<1> QED BY <1>1, <1>2, <1>3 DEF Suffix

Proper(n) == ProperSuffixes(Paths, n)

LEMMA ProperOK ==
    ASSUME trie \in Tries, NEW n \in Nodes
    PROVE  Proper(n) = {m \in Nodes \ {n} : Suffix(n, m)}
BY PathsOK DEF Proper, ProperSuffixes, Suffix

IsLongest(n, x) == x \in Proper(n) /\ \A k \in Proper(n) : Suffix(x, k)

(* The deepest of a set of nodes is the one all of them are suffixes of.   *)
LEMMA DeepestIs ==
    ASSUME trie \in Tries, NEW S \in SUBSET Nodes, NEW otherwise,
           NEW x \in S, \A k \in S : Suffix(x, k)
    PROVE  Deepest(Paths, S, otherwise) = x
<1>1. \A k \in S : Len(Paths[k]) <= Len(Paths[x])
  BY SuffixShorter
<1>2. ASSUME NEW m \in S, \A k \in S : Len(Paths[k]) <= Len(Paths[m])
      PROVE  m = x
  <2>1. Len(Paths[x]) <= Len(Paths[m]) /\ Len(Paths[m]) <= Len(Paths[x])
        /\ Len(Paths[x]) \in Nat /\ Len(Paths[m]) \in Nat
    BY <1>1, <1>2, PathsAreSequences
  <2>2. Len(Paths[x]) = Len(Paths[m])
    BY <2>1
  <2> QED BY <2>2, SuffixShorter
<1>3. S # {}
  OBVIOUS
<1> QED BY <1>1, <1>2, <1>3 DEF Deepest

(* The child of a state along a token.                                     *)
LEMMA TargetsOK ==
    ASSUME trie \in Tries, NEW s \in Nodes, NEW token, NEW x
    PROVE  x \in Targets(s, token) <=>
              x \in Nodes \ {0} /\ Up(trie, x) = s /\ Token(x) = token
<1>1. ASSUME x \in Targets(s, token)
      PROVE  x \in Nodes \ {0} /\ Up(trie, x) = s /\ Token(x) = token
  <2>1. PICK e \in Edges(s, s + 1) : trie.edgeTokens[e] = token /\ x = e + 1
    BY <1>1 DEF Targets
  <2>2. s \in 0..NodeCount /\ s + 1 \in 0..NodeCount /\ s <= s + 1
    BY Sizes
  <2>3. Starts[s] \in Nat /\ Starts[s + 1] \in Nat /\ Starts[s + 1] <= NodeCount - 1
    BY <2>2, StartsGrow
  <2>4. e \in Nat /\ e < NodeCount - 1
    BY <2>1, <2>3, Sizes DEF Edges, Starts
  <2>5. x \in Nodes \ {0} /\ x - 1 = e
    BY <2>1, <2>4, Sizes
  <2>6. Up(trie, x) \in Nodes /\ e \in Edges(Up(trie, x), Up(trie, x) + 1)
    BY <2>5, UpOK
  <2>7. Up(trie, x) = s
    BY <2>1, <2>6, OneParent
  <2> QED BY <2>1, <2>5, <2>7 DEF Token
<1>2. ASSUME x \in Nodes \ {0}, Up(trie, x) = s, Token(x) = token
      PROVE  x \in Targets(s, token)
  <2>1. x - 1 \in Edges(s, s + 1) /\ trie.edgeTokens[x - 1] = token /\ (x - 1) + 1 = x
    BY <1>2, UpOK, Sizes DEF Token
  <2> QED BY <2>1 DEF Targets
<1> QED BY <1>1, <1>2

-----------------------------------------------------------------------------
(* A state from which the search for the failure of the child of p along a *)
(* token can still succeed: nothing it looks for was passed.               *)
OnTheWay(p, token, s) ==
    /\ s \in Proper(p)
    /\ \A q \in Proper(p) : Targets(q, token) # {} => Suffix(s, q)

(* Following a failure link from such a state passes nothing, so that the  *)
(* search stops at one.                                                    *)
LEMMA ChainOnTheWay ==
    ASSUME trie \in Tries, Backward, NEW token, NEW last \in Nodes, NEW c,
           IsChain(c, last, token), NEW p \in Nodes, NEW k \in 0..last,
           \A s \in 1..k : IsLongest(s, failures[s])
    PROVE  \A s \in 0..k : OnTheWay(p, token, s) =>
               \A t \in c[s] : Stops(t, token) => OnTheWay(p, token, t)
<1> DEFINE Good(s) == OnTheWay(p, token, s) =>
                         \A t \in c[s] : Stops(t, token) => OnTheWay(p, token, t)
           Bad == {s \in 0..k : ~Good(s)}
<1>1. SUFFICES ASSUME Bad # {} PROVE FALSE
  OBVIOUS
<1>2. k \in Nat /\ Bad \subseteq Nat /\ 0..k \subseteq Nodes /\ 0..k \subseteq 0..last
  BY Sizes
<1>3. PICK s \in Bad : \A n \in Bad : s <= n
  BY <1>1, <1>2, LeastElement
<1>4. s \in 0..k /\ s \in Nat /\ s \in Nodes /\ OnTheWay(p, token, s)
  BY <1>2, <1>3
<1>5. c[s] = IF Stops(s, token) THEN {s} ELSE {s} \cup c[failures[s]]
  BY <1>2, <1>4 DEF IsChain
<1>6. ~Stops(s, token)
  BY <1>3, <1>4, <1>5
<1>7. s # 0 /\ Targets(s, token) = {}
  BY <1>6 DEF Stops
<1>8. failures[s] \in 0..k /\ failures[s] < s /\ failures[s] \in Nodes
  <2>1. failures[s] \in Nodes /\ failures[s] < s
    BY <1>4, <1>7 DEF Backward
  <2> QED BY <1>2, <1>4, <2>1, Sizes
<1>9. Good(failures[s])
  BY <1>2, <1>3, <1>4, <1>8
<1>10. PICK f : f = failures[s]
  OBVIOUS
<1>11. IsLongest(s, f) /\ f \in Nodes
  BY <1>4, <1>7, <1>8, <1>10
<1>12. OnTheWay(p, token, f)
  <2>1. /\ Suffix(p, s) /\ s # p /\ Suffix(s, f) /\ f # s
    BY <1>4, <1>11, ProperOK DEF OnTheWay, IsLongest
  <2>2. Suffix(p, f)
    BY <1>4, <1>11, <2>1, SuffixTransitive
  <2>3. f # p
    BY <1>4, <2>1, SuffixBothWays
  <2>4. f \in Proper(p)
    BY <1>11, <2>2, <2>3, ProperOK
  <2>5. ASSUME NEW q \in Proper(p), Targets(q, token) # {}
        PROVE  Suffix(f, q)
    <3>1. q \in Nodes /\ Suffix(s, q) /\ q # s
      BY <1>4, <1>7, <2>5, ProperOK DEF OnTheWay
    <3>2. q \in Proper(s)
      BY <1>4, <3>1, ProperOK
    <3> QED BY <1>11, <3>2 DEF IsLongest
  <2> QED BY <2>4, <2>5 DEF OnTheWay
<1>13. \A t \in c[f] : Stops(t, token) => OnTheWay(p, token, t)
  BY <1>9, <1>10, <1>12
<1>14. Good(s)
  BY <1>5, <1>6, <1>10, <1>13
<1> QED BY <1>3, <1>14

(* A proper suffix of the path of a child that is not the root is itself a *)
(* child, along the same token, of a proper suffix of the path of the      *)
(* parent.                                                                 *)
LEMMA ProperOfChild ==
    ASSUME trie \in Tries, NEW n \in Nodes \ {0}, NEW k \in Proper(n), k # 0
    PROVE  /\ k \in Nodes \ {0} /\ Token(k) = Token(n)
           /\ Up(trie, k) \in Proper(Up(trie, n))
           /\ k \in Targets(Up(trie, k), Token(n))
<1>1. k \in Nodes \ {0} /\ k # n /\ Suffix(n, k)
  BY ProperOK
<1>2. Token(k) = Token(n) /\ Suffix(Up(trie, n), Up(trie, k))
  BY <1>1, SuffixByParent
<1>3. Up(trie, k) \in Nodes /\ Up(trie, n) \in Nodes
  BY <1>1, UpOK
<1>4. Up(trie, k) # Up(trie, n)
  BY <1>1, <1>2, SiblingsDiffer
<1>5. Up(trie, k) \in Proper(Up(trie, n))
  BY <1>2, <1>3, <1>4, ProperOK
<1>6. k \in Targets(Up(trie, k), Token(n))
  BY <1>1, <1>2, <1>3, TargetsOK
<1> QED BY <1>1, <1>2, <1>5, <1>6

(* buildFailureLinkRange finds the longest proper suffix, once the links   *)
(* it follows are right.                                                   *)
LEMMA FailureFound ==
    ASSUME trie \in Tries, Backward, NEW n \in Nodes \ {0}, Up(trie, n) # 0,
           \A s \in 1..Up(trie, n) : IsLongest(s, failures[s])
    PROVE  IsLongest(n, FailureOf(Up(trie, n), Token(n)))
<1>1. PICK p, token : p = Up(trie, n) /\ token = Token(n)
  OBVIOUS
<1>2. p \in Nodes \ {0} /\ p < n /\ p \in Nat /\ n \in Nat
  BY <1>1, UpOK, Sizes
<1>3. failures[p] \in Nodes /\ failures[p] < p
  BY <1>2 DEF Backward
<1>4. PICK k : k = failures[p]
  OBVIOUS
<1>5. k \in Nodes /\ k \in Nat /\ k < p
  BY <1>2, <1>3, <1>4, Sizes
<1>6. IsLongest(p, k)
  <2>1. p \in 1..p
    BY <1>2
  <2> QED BY <1>1, <1>4, <2>1
<1>7. OnTheWay(p, token, k)
  BY <1>6 DEF IsLongest, OnTheWay
<1>8. PICK chain, last : last = NodeCount - 1 /\ IsChain(chain, last, token)
                         /\ Tried(p, token) = chain[k]
  BY <1>2, <1>4, TriedIsChain
<1>9. last \in Nodes /\ k \in 0..last /\ k \in 0..k
  BY <1>2, <1>5, <1>8, Sizes
<1>10. \A t \in Tried(p, token) : Stops(t, token) => OnTheWay(p, token, t)
  <2>1. \A s \in 1..k : IsLongest(s, failures[s])
    BY <1>1, <1>2, <1>5
  <2>2. \A s \in 0..k : OnTheWay(p, token, s) =>
            \A t \in chain[s] : Stops(t, token) => OnTheWay(p, token, t)
    BY <1>2, <1>8, <1>9, <2>1, ChainOnTheWay
  <2> QED BY <1>7, <1>8, <1>9, <2>2
<1>11. PICK s : s = LastTried(p, token)
  OBVIOUS
<1>12. Stops(s, token) /\ OnTheWay(p, token, s)
  BY <1>2, <1>10, <1>11, TriedOK
<1>13. s \in Nodes /\ s # p /\ Suffix(p, s)
  BY <1>2, <1>12, ProperOK DEF OnTheWay
<1>14. PICK x : x = FailureOf(p, token)
  OBVIOUS
<1>15. \/ Targets(s, token) = {} /\ x = 0
       \/ x \in Targets(s, token)
  BY <1>11, <1>14 DEF FailureOf
<1>16. ASSUME NEW q \in Proper(n), q # 0
       PROVE  /\ q \in Nodes \ {0} /\ Token(q) = token /\ Up(trie, q) \in Nodes
              /\ Suffix(s, Up(trie, q)) /\ q \in Targets(Up(trie, q), token)
  <2>1. /\ q \in Nodes \ {0} /\ Token(q) = token
        /\ Up(trie, q) \in Proper(p) /\ q \in Targets(Up(trie, q), token)
    BY <1>1, <1>16, ProperOfChild
  <2>2. Suffix(s, Up(trie, q))
    BY <1>12, <2>1 DEF OnTheWay
  <2> QED BY <2>1, <2>2, UpOK
<1>17. CASE Targets(s, token) = {} /\ x = 0
  <2>1. s = 0
    BY <1>12, <1>17 DEF Stops
  <2>2. Proper(n) \subseteq {0}
    <3>1. ASSUME NEW q \in Proper(n), q # 0 PROVE FALSE
      BY <1>16, <1>17, <2>1, <3>1, SuffixRoot
    <3> QED BY <3>1
  <2>3. 0 \in Proper(n)
    BY ProperOK, SuffixRoot
  <2>4. Suffix(0, 0)
    BY <2>3, SuffixRoot
  <2> QED BY <1>1, <1>14, <1>17, <2>2, <2>3, <2>4 DEF IsLongest
<1>18. CASE x \in Targets(s, token)
  <2>1. x \in Nodes \ {0} /\ Up(trie, x) = s /\ Token(x) = token
    BY <1>13, <1>18, TargetsOK
  <2>2. Suffix(n, x)
    BY <1>1, <1>13, <2>1, SuffixByParent
  <2>3. x \in Proper(n)
    BY <1>1, <1>13, <2>1, <2>2, ProperOK
  <2>4. ASSUME NEW q \in Proper(n)
        PROVE  Suffix(x, q)
    <3>1. CASE q = 0
      BY <2>1, <3>1, SuffixRoot
    <3>2. CASE q # 0
      BY <1>16, <2>1, <3>2, SuffixByParent
    <3> QED BY <3>1, <3>2
  <2> QED BY <1>1, <1>14, <2>3, <2>4 DEF IsLongest
<1> QED BY <1>15, <1>17, <1>18

-----------------------------------------------------------------------------
TrueOutput(n) == Deepest(Paths, Proper(n) \cap trie.terminals, None)

(* The links of n are those of its path.                                   *)
Right(n) ==
    /\ IF n = 0 THEN failures[n] = 0 ELSE IsLongest(n, failures[n])
    /\ outputLinks[n] = TrueOutput(n)

(* The output link follows from the failure and its output link.           *)
LEMMA OutputFound ==
    ASSUME trie \in Tries, NEW n \in Nodes, NEW f, IsLongest(n, f),
           outputLinks[f] = TrueOutput(f)
    PROVE  OutputOf(f) = TrueOutput(n)
<1>1. f \in Nodes /\ f # n /\ Suffix(n, f)
  BY ProperOK DEF IsLongest
<1>2. CASE f \in trie.terminals
  <2>1. /\ f \in Proper(n) \cap trie.terminals
        /\ \A k \in Proper(n) \cap trie.terminals : Suffix(f, k)
        /\ Proper(n) \cap trie.terminals \subseteq Nodes
    BY <1>2, ProperOK DEF IsLongest
  <2>2. PICK S : S = Proper(n) \cap trie.terminals
    OBVIOUS
  <2>3. Deepest(Paths, S, None) = f
    BY <2>1, <2>2, DeepestIs
  <2> QED BY <1>2, <2>2, <2>3 DEF OutputOf, TrueOutput
<1>3. CASE f \notin trie.terminals
  <2>1. ASSUME NEW k \in trie.terminals
        PROVE  k \in Proper(n) <=> k \in Proper(f)
    <3>1. ASSUME k \in Proper(n) PROVE k \in Proper(f)
      BY <1>1, <1>3, <3>1, ProperOK DEF IsLongest
    <3>2. ASSUME k \in Proper(f) PROVE k \in Proper(n)
      <4>1. k \in Nodes /\ k # f /\ Suffix(f, k)
        BY <1>1, <3>2, ProperOK
      <4>2. Suffix(n, k)
        BY <1>1, <4>1, SuffixTransitive
      <4>3. k # n
        BY <1>1, <4>1, SuffixBothWays
      <4> QED BY <4>1, <4>2, <4>3, ProperOK
    <3> QED BY <3>1, <3>2
  <2>2. Proper(n) \cap trie.terminals = Proper(f) \cap trie.terminals
    BY <2>1
  <2> QED BY <1>3, <2>2 DEF OutputOf, TrueOutput
<1> QED BY <1>2, <1>3

(* The root, and its children, fail to the root.                           *)
LEMMA RootRight ==
    ASSUME trie \in Tries, NEW n \in Nodes, n = 0 \/ Up(trie, n) = 0,
           failures[n] = 0, outputLinks[n] = None
    PROVE  Right(n)
<1>1. Proper(n) \subseteq {0}
  <2>1. CASE n = 0
    BY <2>1, ProperOK, SuffixRoot
  <2>2. CASE n # 0 /\ Up(trie, n) = 0
    <3>1. ASSUME NEW k \in Proper(n), k # 0 PROVE FALSE
      <4>1. k \in Nodes \ {0} /\ Up(trie, k) \in Proper(0)
        BY <2>2, <3>1, ProperOfChild
      <4>2. Up(trie, k) \in Nodes /\ Up(trie, k) # 0 /\ Suffix(0, Up(trie, k))
        BY <4>1, UpOK, ProperOK, SuffixRoot
      <4> QED BY <4>2, SuffixRoot
    <3> QED BY <3>1
  <2> QED BY <2>1, <2>2
<1>2. 0 \notin trie.terminals
  BY LinksAssumption DEF IsTrie
<1>3. TrueOutput(n) = None
  BY <1>1, <1>2 DEF TrueOutput, Deepest
<1>4. n # 0 => 0 \in Proper(n)
  BY ProperOK, SuffixRoot
<1>5. Suffix(0, 0)
  BY SuffixRoot
<1> QED BY <1>1, <1>3, <1>4, <1>5 DEF Right, IsLongest

-----------------------------------------------------------------------------
(* A range still has the edge to node n to do.                             *)
Covers(r, n) == r.edge < n /\ n <= Starts[r.end]

(* Where the links of n are still to be written: n is behind the level,    *)
(* and either the level is not cut into chunks yet, or n is the child of a *)
(* later level, or of a part of this one that is in no chunk yet or in one *)
(* that is not done.                                                       *)
Undone(n) ==
    /\ main # "done" /\ n >= level.end
    /\ \/ main = "level"
       \/ n > Starts[level.end]
       \/ main = "send" /\ n > Starts[Least(sent, level.end)]
       \/ \E i \in 1..Len(work) : Covers(work[i], n)
       \/ \E g \in DOMAIN range : Covers(range[g], n)

(* With one worker the caller does every edge in turn.                     *)
SingleRange ==
    /\ range[0] \in Ranges
    /\ range[0].first = 1 /\ range[0].end = NodeCount
    /\ Starts[1] <= range[0].edge /\ range[0].edge <= Starts[NodeCount]

(* What is not left to do is right.                                        *)
LinksInv ==
    /\ Backward
    /\ outputLinks = [n \in Nodes |-> outputLinks[n]]
    /\ workerCount = 1 => SingleRange
    /\ \A n \in Nodes :
          Right(n) \/ IF workerCount = 1 THEN main # "done" /\ range[0].edge < n
                                         ELSE Undone(n)

LEMMA IdleCoversNothing ==
    ASSUME trie \in Tries, NEW n \in Nodes
    PROVE  ~Covers(Idle, n)
<1>1. Starts[0] = 0 /\ n \in Nat
  BY TrieOK, Sizes
<1> QED BY <1>1 DEF Covers, Idle

(* A step that writes no link makes none wrong.                            *)
LEMMA RightKept ==
    ASSUME UNCHANGED <<trie, failures, outputLinks>>, NEW n, Right(n)
    PROVE  Right(n)'
BY DEF Right, IsLongest, TrueOutput, Proper, Suffix, Paths

LEMMA InitLinks ==
    ASSUME Init
    PROVE  LinksInv
<1>1. /\ trie \in Tries /\ NodeCount \in Nat /\ NodeCount >= 1
      /\ Nodes = 0..(NodeCount - 1) /\ 1 \in 0..NodeCount /\ NodeCount \in 0..NodeCount
  BY Sizes DEF Init
<1>2. /\ failures = [n \in Nodes |-> 0] /\ outputLinks = [n \in Nodes |-> None]
  BY DEF Init
<1>3. Backward
  BY <1>1, <1>2 DEF Backward
<1>4. Starts[1] \in Nat /\ Starts[NodeCount] \in Nat /\ Starts[1] <= Starts[NodeCount]
  BY <1>1, StartsGrow
<1>5. workerCount = 1 => main = "inline" /\ range[0] = RangeOf(1, NodeCount)
  BY DEF Init, NodeCount
<1>6. workerCount = 1 => SingleRange
  BY <1>1, <1>4, <1>5 DEF SingleRange, RangeOf, Ranges, Starts
<1>7. ASSUME NEW n \in Nodes
      PROVE  Right(n) \/ IF workerCount = 1 THEN main # "done" /\ range[0].edge < n
                                            ELSE Undone(n)
  <2>1. CASE n <= Starts[1]
    <3>1. ASSUME n # 0 PROVE Up(trie, n) = 0
      <4>1. 0 \in Nodes /\ n - 1 \in Edges(0, 0 + 1)
        <5>1. n \in Nat /\ n >= 1 /\ Starts[0] = 0 /\ 0 + 1 = 1
          BY <1>1, <3>1, TrieOK
        <5> QED BY <1>1, <1>4, <2>1, <5>1 DEF Edges, Starts
      <4>2. Up(trie, n) \in Nodes /\ n - 1 \in Edges(Up(trie, n), Up(trie, n) + 1)
        BY <1>1, <3>1, UpOK
      <4> QED BY <1>1, <4>1, <4>2, OneParent
    <3>2. Right(n)
      BY <1>1, <1>2, <3>1, RootRight
    <3> QED BY <3>2
  <2>2. CASE n > Starts[1]
    <3>1. CASE workerCount = 1
      BY <1>5, <2>2, <3>1 DEF RangeOf, Starts
    <3>2. CASE workerCount # 1
      <4>1. main = "level" /\ level.end = Starts[1] + 1
        BY <3>2 DEF Init, Starts
      <4> QED BY <1>1, <1>4, <2>2, <3>2, <4>1 DEF Undone
    <3> QED BY <3>1, <3>2
  <2> QED BY <1>1, <1>4, <2>1, <2>2
<1> QED BY <1>2, <1>3, <1>6, <1>7 DEF LinksInv

(* Doing an edge finds the links of its child, when those of the nodes the *)
(* search passes are right, and leaves the others alone.                   *)
LEMMA EdgeRight ==
    ASSUME trie \in Tries, Backward, outputLinks = [n \in Nodes |-> outputLinks[n]],
           NEW g, DoEdge(g), NEW n \in Nodes \ {0}, n = range[g].edge + 1,
           range[g].edge \in Nat,
           Parent(range[g]) = Up(trie, n), Up(trie, n) # 0,
           \A s \in 0..Up(trie, n) : Right(s),
           Right(FailureOf(Up(trie, n), Token(n))),
           FailureOf(Up(trie, n), Token(n)) \in Nodes,
           FailureOf(Up(trie, n), Token(n)) < n
    PROVE  /\ Backward' /\ (outputLinks = [m \in Nodes |-> outputLinks[m]])'
           /\ Right(n)'
           /\ \A m \in Nodes \ {n} : Right(m) => Right(m)'
<1>1. PICK f : f = FailureOf(Up(trie, n), Token(n))
  OBVIOUS
<1>2. Token(n) = trie.edgeTokens[range[g].edge]
  BY DEF Token
<1>3. /\ UNCHANGED input
      /\ failures' = [failures EXCEPT ![n] = f]
      /\ outputLinks' = [outputLinks EXCEPT ![n] = OutputOf(f)]
  BY <1>1, <1>2 DEF DoEdge
<1>4. trie' = trie /\ Nodes' = Nodes
  BY <1>3 DEF input, Nodes
<1>5. n # 0 /\ DOMAIN failures = Nodes /\ DOMAIN outputLinks = Nodes
  BY DEF Backward
<1>6. /\ failures'[n] = f /\ outputLinks'[n] = OutputOf(f)
      /\ \A m \in Nodes \ {n} : /\ failures'[m] = failures[m]
                                /\ outputLinks'[m] = outputLinks[m]
      /\ DOMAIN outputLinks' = Nodes /\ failures' \in [Nodes -> Nodes]
  BY <1>1, <1>3, <1>5 DEF Backward
<1>7. Backward'
  <2>1. failures'[0] = 0
    BY <1>5, <1>6, SuffixRoot DEF Backward
  <2>2. ASSUME NEW m \in Nodes \ {0} PROVE failures'[m] < m
    BY <1>1, <1>6 DEF Backward
  <2> QED BY <1>4, <1>6, <2>1, <2>2 DEF Backward
<1>8. outputLinks' = [m \in Nodes |-> outputLinks'[m]]
  BY <1>3, <1>5
<1>9. Up(trie, n) \in Nodes /\ Up(trie, n) \in Nat
  BY UpOK, Sizes
<1>10. IsLongest(n, f)
  <2>1. \A s \in 1..Up(trie, n) : IsLongest(s, failures[s])
    <3>1. ASSUME NEW s \in 1..Up(trie, n) PROVE IsLongest(s, failures[s])
      <4>1. s \in 0..Up(trie, n) /\ s # 0
        BY <1>9
      <4> QED BY <4>1 DEF Right
    <3> QED BY <3>1
  <2> QED BY <1>1, <2>1, FailureFound
<1>11. OutputOf(f) = TrueOutput(n)
  BY <1>1, <1>10, OutputFound DEF Right
<1>12. Right(n)'
  BY <1>4, <1>5, <1>6, <1>10, <1>11
     DEF Right, IsLongest, TrueOutput, Proper, Suffix, Paths
<1>13. ASSUME NEW m \in Nodes \ {n}, Right(m)
       PROVE  Right(m)'
  BY <1>4, <1>6, <1>13 DEF Right, IsLongest, TrueOutput, Proper, Suffix, Paths
<1> QED BY <1>4, <1>7, <1>8, <1>12, <1>13

(* The parent found by a range that does not start at the root.            *)
LEMMA ParentIsUp ==
    ASSUME trie \in Tries, NEW r \in Ranges, r.first >= 1, r.end <= NodeCount,
           r.first <= r.end, Starts[r.first] <= r.edge, ~Finished(r)
    PROVE  /\ r.edge + 1 \in Nodes \ {0}
           /\ Parent(r) = Up(trie, r.edge + 1)
           /\ Up(trie, r.edge + 1) \in r.first..(r.end - 1)
<1>1. /\ r.first \in 0..NodeCount /\ r.end \in 0..NodeCount
      /\ r.first \in Nat /\ r.end \in Nat /\ r.edge \in Nat /\ NodeCount \in Nat
  BY Sizes DEF Ranges
<1>2. Starts[r.first] \in Nat /\ Starts[r.end] \in Nat /\ Starts[r.end] <= NodeCount - 1
  BY <1>1, StartsGrow
<1>3. r.edge < Starts[r.end]
  BY <1>1, <1>2 DEF Finished, Starts
<1>4. \E p \in r.first..(r.end - 1) : r.edge \in Edges(p, p + 1)
  BY <1>1, <1>3, ParentExists
<1>5. PICK p : p = Parent(r)
  OBVIOUS
<1>6. p \in r.first..(r.end - 1) /\ r.edge \in Edges(p, p + 1)
  BY <1>4, <1>5 DEF Parent
<1>7. p \in Nodes
  BY <1>1, <1>6, Sizes
<1>8. PICK n : n = r.edge + 1
  OBVIOUS
<1>9. n \in Nodes \ {0} /\ n - 1 = r.edge
  BY <1>1, <1>2, <1>3, <1>8, Sizes
<1>10. Up(trie, n) \in Nodes /\ r.edge \in Edges(Up(trie, n), Up(trie, n) + 1)
  BY <1>9, UpOK
<1>11. p = Up(trie, n)
  BY <1>6, <1>7, <1>10, OneParent
<1> QED BY <1>5, <1>6, <1>8, <1>9, <1>11

(* A step that leaves the links alone keeps them right, if what was left   *)
(* to do still is.                                                         *)
LEMMA LinksKept ==
    ASSUME LinksInv, UNCHANGED <<input, failures, outputLinks>>,
           workerCount = 1 => SingleRange',
           \A n \in Nodes :
              \/ Right(n)
              \/ IF workerCount = 1 THEN (main # "done" /\ range[0].edge < n)'
                                    ELSE Undone(n)'
    PROVE  LinksInv'
<1>1. /\ UNCHANGED <<trie, failures, outputLinks>> /\ workerCount' = workerCount
      /\ Nodes' = Nodes
  BY DEF input, Nodes
<1>2. Backward' /\ (outputLinks = [n \in Nodes |-> outputLinks[n]])'
  BY <1>1 DEF LinksInv, Backward
<1>3. \A n \in Nodes : Right(n) => Right(n)'
  BY <1>1, RightKept
<1>4. (\A n \in Nodes :
          Right(n) \/ IF workerCount = 1 THEN main # "done" /\ range[0].edge < n
                                         ELSE Undone(n))'
  BY <1>1, <1>3
<1> QED BY <1>1, <1>2, <1>4 DEF LinksInv

LEMMA SingleLinks ==
    ASSUME IInv, Single, LinksInv, Next
    PROVE  LinksInv'
<1>1. /\ trie \in Tries /\ NodeCount \in Nat /\ NodeCount >= 1
      /\ Nodes = 0..(NodeCount - 1) /\ 1 \in 0..NodeCount /\ NodeCount \in 0..NodeCount
  BY Sizes DEF IInv
<1>2. PICK r : r = range[0]
  OBVIOUS
<1>3. /\ workerCount = 1 /\ 0 \in DOMAIN range /\ r \in Ranges
      /\ r.first = 1 /\ r.end = NodeCount
      /\ Starts[1] <= r.edge /\ r.edge <= Starts[NodeCount] /\ r.edge \in Nat
  BY <1>2 DEF Single, LinksInv, SingleRange, Ranges
<1>4. \A n \in Nodes : Right(n) \/ (main # "done" /\ r.edge < n)
  BY <1>2, <1>3 DEF LinksInv
<1>5. Starts[NodeCount] = NodeCount - 1
  BY <1>1, TrieOK
<1>6. CASE InlineEdge
  <2>1. DoEdge(0) /\ ~Finished(r) /\ main' = main /\ main # "done"
    BY <1>2, <1>6 DEF InlineEdge, DoEdge
  <2>2. PICK n, p : n = r.edge + 1 /\ p = Up(trie, n)
    OBVIOUS
  <2>3. n \in Nodes \ {0} /\ Parent(r) = p /\ p \in 1..(NodeCount - 1)
    BY <1>1, <1>3, <2>1, <2>2, ParentIsUp
  <2>4. p \in Nodes /\ p # 0 /\ p < n /\ n - 1 \in Edges(p, p + 1)
    <3>1. p \in Nodes /\ p < n /\ n - 1 \in Edges(p, p + 1)
      BY <1>1, <2>2, <2>3, UpOK
    <3> QED BY <2>3, <3>1
  <2>5. failures[p] < p
    BY <2>4 DEF LinksInv, Backward
  <2>6. PICK f : f = FailureOf(p, Token(n))
    OBVIOUS
  <2>7. f \in Nodes /\ f <= Starts[p]
    BY <1>1, <2>4, <2>5, <2>6, FailureOfOK DEF LinksInv
  <2>8. Starts[p] \in Nat /\ Starts[p + 1] \in Nat
    <3>1. p \in 0..NodeCount /\ p + 1 \in 0..NodeCount /\ p <= p + 1
      BY <1>1, <2>3
    <3> QED BY <1>1, <3>1, StartsGrow
  <2>9. f < n
    BY <1>1, <2>3, <2>4, <2>7, <2>8 DEF Edges, Starts
  <2>10. \A m \in Nodes : m < n => Right(m)
    BY <1>1, <1>3, <1>4, <2>2
  <2>11. \A m \in 0..p : Right(m)
    BY <1>1, <2>3, <2>4, <2>10
  <2>12. /\ (Backward /\ outputLinks = [m \in Nodes |-> outputLinks[m]])'
         /\ Right(n)' /\ \A m \in Nodes \ {n} : Right(m) => Right(m)'
    BY <1>1, <1>2, <1>3, <2>1, <2>2, <2>3, <2>4, <2>6, <2>7, <2>9, <2>10, <2>11, EdgeRight
       DEF LinksInv
  <2>13. /\ range' = [range EXCEPT ![0].edge = @ + 1] /\ UNCHANGED input
    BY <2>1 DEF DoEdge
  <2>14. range'[0] = [r EXCEPT !.edge = r.edge + 1]
    BY <1>2, <1>3, <2>13
  <2>15. range'[0].edge = n /\ range'[0].first = 1 /\ range'[0].end = NodeCount
         /\ range'[0] \in Ranges
    BY <1>3, <2>2, <2>14 DEF Ranges
  <2>16. /\ workerCount' = workerCount /\ Nodes' = Nodes /\ NodeCount' = NodeCount
         /\ Starts' = Starts
    BY <2>13 DEF input, Nodes, NodeCount, Starts
  <2>17. SingleRange'
    <3>1. Starts[1] \in Nat /\ n <= NodeCount - 1 /\ Starts[1] <= n
      BY <1>1, <1>3, <2>2, <2>3, StartsGrow
    <3> QED BY <1>5, <2>15, <2>16, <3>1 DEF SingleRange, Ranges
  <2>18. \A m \in Nodes : Right(m)' \/ (main' # "done" /\ range'[0].edge < m)
    <3>1. ASSUME NEW m \in Nodes
          PROVE  Right(m)' \/ (main' # "done" /\ range'[0].edge < m)
      <4>1. CASE m = n
        BY <2>12, <4>1
      <4>2. CASE m < n
        BY <1>1, <2>10, <2>12, <2>3, <4>2
      <4>3. CASE m > n
        BY <1>1, <2>1, <2>3, <2>15, <4>3
      <4> QED BY <1>1, <2>3, <4>1, <4>2, <4>3
    <3> QED BY <3>1
  <2> QED BY <1>3, <2>12, <2>16, <2>17, <2>18 DEF LinksInv
<1>7. CASE Complete
  <2>1. \/ UNCHANGED <<input, failures, outputLinks, range>> /\ Finished(r)
        \/ main = "level"
    BY <1>2, <1>7 DEF Complete
  <2>2. UNCHANGED <<input, failures, outputLinks, range>> /\ Finished(r)
    BY <1>7, <2>1 DEF Complete, Single
  <2>3. r.edge >= NodeCount - 1
    BY <1>3, <1>5, <2>2 DEF Finished, Starts
  <2>4. \A n \in Nodes : Right(n)
    BY <1>1, <1>3, <1>4, <2>3
  <2>5. SingleRange'
    BY <1>3, <2>2 DEF LinksInv, SingleRange, Starts, NodeCount, input, Ranges
  <2> QED BY <2>2, <2>4, <2>5, LinksKept
<1>8. CASE Terminated
  <2>1. UNCHANGED vars /\ UNCHANGED <<input, failures, outputLinks, range, main>>
    BY <1>8 DEF Terminated, vars, input
  <2>2. SingleRange'
    BY <1>3, <2>1 DEF LinksInv, SingleRange, Starts, NodeCount, input, Ranges
  <2>3. \A n \in Nodes : Right(n) \/ (main # "done" /\ range[0].edge < n)'
    BY <1>2, <1>4, <2>1
  <2> QED BY <1>3, <2>1, <2>2, <2>3, LinksKept
<1> QED BY <1>6, <1>7, <1>8, SingleActions

-----------------------------------------------------------------------------
(* With more than one worker: what was left to do, and is not done by the  *)
(* step, is still left.                                                    *)
LEMMA LevelFacts ==
    ASSUME IInv, Parallel
    PROVE  /\ trie \in Tries /\ NodeCount \in Nat /\ NodeCount >= 1
           /\ Nodes = 0..(NodeCount - 1)
           /\ level.start \in 1..NodeCount /\ level.end \in 1..NodeCount
           /\ level.start <= level.end /\ level.end = Starts[level.start] + 1
           /\ Starts[level.start] \in Nat /\ Starts[level.end] \in Nat
           /\ Starts[level.end] <= NodeCount - 1
           /\ workerCount \in Nat /\ workerCount >= 2 /\ Workers = 1..workerCount
           /\ DOMAIN range = 0..workerCount /\ 0 \in DOMAIN range
           /\ work \in Seq(Ranges) /\ Len(work) \in Nat
<1>1. /\ trie \in Tries /\ NodeCount \in Nat /\ NodeCount >= 1
      /\ Nodes = 0..(NodeCount - 1)
  BY Sizes DEF IInv
<1>2. /\ level.start \in 1..NodeCount /\ level.end \in 1..NodeCount
      /\ level.start <= level.end /\ level.end = Starts[level.start] + 1
  BY DEF Parallel, LevelOK
<1>3. /\ Starts[level.start] \in Nat /\ Starts[level.end] \in Nat
      /\ Starts[level.end] <= NodeCount - 1
  <2>1. level.start \in 0..NodeCount /\ level.end \in 0..NodeCount
    BY <1>1, <1>2
  <2> QED BY <1>1, <1>2, <2>1, StartsGrow
<1>4. workerCount \in Nat /\ workerCount >= 2 /\ Workers = 1..workerCount
  BY <1>1 DEF IInv, Parallel, Workers
<1>5. DOMAIN range = 0..workerCount /\ 0 \in DOMAIN range
      /\ work \in Seq(Ranges) /\ Len(work) \in Nat
  BY <1>4 DEF Parallel, ChunksOK
<1> QED BY <1>1, <1>2, <1>3, <1>4, <1>5

LEMMA StartInlineUndone ==
    ASSUME IInv, Parallel, StartInline, NEW n \in Nodes, Undone(n)
    PROVE  Undone(n)'
<1>1. /\ UNCHANGED <<trie, level, sent, work>> /\ main' = "inline"
      /\ range' = [range EXCEPT ![0] = RangeOf(level.start, level.end)]
  BY DEF StartInline, input
<1>2. Starts' = Starts /\ n >= level.end /\ n \in Nat
  BY <1>1, LevelFacts DEF Undone, Starts
<1>3. CASE n > Starts[level.end]
  BY <1>1, <1>2, <1>3 DEF Undone
<1>4. CASE n <= Starts[level.end]
  <2>1. range'[0] = RangeOf(level.start, level.end) /\ 0 \in DOMAIN range'
    BY <1>1, LevelFacts
  <2>2. Starts[level.start] < n
    BY <1>2, LevelFacts
  <2>3. Covers(range[0], n)'
    BY <1>1, <1>2, <1>4, <2>1, <2>2 DEF Covers, RangeOf, Starts
  <2> QED BY <1>1, <1>2, <2>1, <2>3 DEF Undone
<1> QED BY <1>2, <1>3, <1>4, LevelFacts

LEMMA StartParallelUndone ==
    ASSUME IInv, Parallel, StartParallel, NEW n \in Nodes, Undone(n)
    PROVE  Undone(n)'
<1>1. /\ UNCHANGED <<trie, level>> /\ main' = "send" /\ sent' = level.start
  BY DEF StartParallel, input
<1>2. Starts' = Starts /\ n >= level.end /\ n \in Nat
  BY <1>1, LevelFacts DEF Undone, Starts
<1>3. Starts[level.start] < n
  BY <1>2, LevelFacts
<1>4. Least(level.start, level.end) = level.start
  BY LevelFacts DEF Least
<1> QED BY <1>1, <1>2, <1>3, <1>4 DEF Undone, Least

LEMMA SendChunkUndone ==
    ASSUME IInv, Parallel, SendChunk, NEW n \in Nodes, Undone(n)
    PROVE  Undone(n)'
<1>1. PICK end, chunk : /\ end = Least(sent + ChunkSize, level.end)
                        /\ chunk = RangeOf(sent, end)
  OBVIOUS
<1>2. /\ UNCHANGED <<trie, level, main, range>> /\ main = "send" /\ sent < level.end
      /\ work' = Append(work, chunk) /\ sent' = sent + ChunkSize
  BY <1>1 DEF SendChunk, input
<1>3. Starts' = Starts /\ n >= level.end /\ n \in Nat
  BY <1>2, LevelFacts DEF Undone, Starts
<1>4. /\ Len(work') = Len(work) + 1 /\ work'[Len(work) + 1] = chunk
      /\ \A i \in 1..Len(work) : i \in 1..Len(work') /\ work'[i] = work[i]
      /\ Len(work) + 1 \in 1..Len(work')
  <2>1. Parallel'
    BY <1>2, SendChunkStep
  <2>2. work \in Seq(Ranges) /\ work' \in Seq(Ranges)
    BY <2>1 DEF Parallel, ChunksOK
  <2>3. work' = Append(work, chunk) /\ Len(work) \in Nat
    BY <1>2, <2>2
  <2> QED BY <2>2, <2>3
<1>5. CASE n > Starts[level.end]
  BY <1>2, <1>3, <1>5 DEF Undone
<1>6. CASE \E i \in 1..Len(work) : Covers(work[i], n)
  BY <1>2, <1>3, <1>4, <1>6 DEF Undone, Covers
<1>7. CASE \E g \in DOMAIN range : Covers(range[g], n)
  BY <1>2, <1>3, <1>7 DEF Undone, Covers
<1>8. CASE n > Starts[Least(sent, level.end)]
  <2>1. n > Starts[sent]
    BY <1>2, <1>8, LevelFacts DEF Least
  <2>2. CASE n > Starts[end]
    BY <1>1, <1>2, <1>3, <2>2 DEF Undone, Least
  <2>3. CASE n <= Starts[end]
    <3>1. Covers(chunk, n)'
      BY <1>1, <1>2, <1>3, <2>1, <2>3 DEF Covers, RangeOf, Starts
    <3>2. \E i \in 1..Len(work') : Covers(work[i], n)'
      BY <1>4, <3>1 DEF Covers
    <3> QED BY <1>2, <1>3, <3>2 DEF Undone
  <2>4. Starts[end] \in Nat
    <3>1. Sending'
      BY <1>2, SendChunkStep DEF Parallel
    <3>2. sent' \in Nat
      BY <1>2, <3>1 DEF Sending
    <3>3. end \in 0..NodeCount
      BY <1>1, <1>2, <3>2, LevelFacts DEF Least
    <3>4. trie \in Tries
      BY DEF IInv
    <3> QED BY <3>3, <3>4, TrieOK
  <2> QED BY <1>3, <2>2, <2>3, <2>4
<1> QED BY <1>2, <1>5, <1>6, <1>7, <1>8 DEF Undone

LEMMA AllSentUndone ==
    ASSUME IInv, Parallel, AllSent, NEW n \in Nodes, Undone(n)
    PROVE  Undone(n)'
<1>1. /\ UNCHANGED <<trie, level, sent, work, range>>
      /\ main = "send" /\ main' = "wait" /\ sent >= level.end
  BY DEF AllSent, input
<1>2. sent \in Nat /\ level.end \in Nat
  BY <1>1, LevelFacts DEF Parallel, Sending
<1>3. Least(sent, level.end) = level.end
  BY <1>1, <1>2 DEF Least
<1> QED BY <1>1, <1>3 DEF Undone, Covers, Starts

LEMMA AwaitUndone ==
    ASSUME Await, NEW n \in Nodes, Undone(n)
    PROVE  Undone(n)'
BY DEF Await, input, Undone, Covers, Starts, Least

(* Nothing is left of the level: the channels are empty, the workers idle, *)
(* and the caller is done with what it did itself.                         *)
LEMMA AdvanceUndone ==
    ASSUME IInv, Parallel, Advance, NEW n \in Nodes, Undone(n)
    PROVE  Undone(n)'
<1>1. /\ UNCHANGED trie /\ main \in {"wait", "inline"} /\ main' = "level"
      /\ level' = NextLevel
      /\ main = "inline" => Finished(range[0])
  BY DEF Advance, input
<1>2. n \in Nat /\ Starts' = Starts /\ level'.end = Starts[level.end] + 1
  BY <1>1, LevelFacts DEF Starts, NextLevel
<1>3. jobs = 0
  BY DEF Advance, Parallel, CallerOK
<1>4. work = <<>> /\ \A g \in Workers : range[g] = Idle
  BY <1>3, LevelFacts, Quiet DEF Parallel
<1>5. ~Covers(range[0], n)
  <2>1. CASE main = "wait"
    BY <2>1, LevelFacts, IdleCoversNothing DEF Parallel, CallerOK
  <2>2. CASE main = "inline"
    <3>1. range[0].edge >= Starts[range[0].end] /\ Chunk(range[0])
      BY <1>1, <2>2 DEF Finished, Starts, Parallel, CallerOK
    <3>2. range[0].edge \in Nat /\ range[0].end \in 0..NodeCount
      BY <3>1, LevelFacts DEF Chunk, Ranges
    <3>3. Starts[range[0].end] \in Nat
      BY <3>2, LevelFacts, TrieOK, SMTT(30)
    <3> QED BY <1>2, <3>1, <3>2, <3>3 DEF Covers
  <2> QED BY <1>1, <2>1, <2>2
<1>6. \A g \in DOMAIN range : ~Covers(range[g], n)
  <2>1. ASSUME NEW g \in DOMAIN range PROVE ~Covers(range[g], n)
    <3>1. CASE g = 0
      BY <1>5, <3>1
    <3>2. CASE g # 0
      <4>1. range[g] = Idle
        BY <1>4, <3>2, LevelFacts
      <4> QED BY <4>1, LevelFacts, IdleCoversNothing
    <3> QED BY <3>1, <3>2
  <2> QED BY <2>1
<1>7. ~ \E i \in 1..Len(work) : Covers(work[i], n)
  BY <1>4
<1>8. n > Starts[level.end]
  BY <1>1, <1>6, <1>7 DEF Undone
<1> QED BY <1>1, <1>2, <1>8, LevelFacts DEF Undone

(* No node is left after the last level.                                   *)
LEMMA CompleteUndone ==
    ASSUME IInv, Parallel, Complete, NEW n \in Nodes, Undone(n)
    PROVE  FALSE
<1>1. main = "level" /\ level.start >= level.end
  <2>1. 1 \in Workers
    BY LevelFacts
  <2> QED BY <2>1 DEF Complete
<1>2. level.start = level.end /\ level.end = Starts[level.end] + 1
      /\ level.end \in Nat /\ level.end <= NodeCount
  BY <1>1, LevelFacts
<1>3. level.end = NodeCount
  <2>1. ASSUME level.end # NodeCount PROVE FALSE
    <3>1. level.end \in 0..(NodeCount - 1)
      BY <1>2, <2>1, LevelFacts
    <3>2. level.end <= Starts[level.end]
      BY <3>1, LevelFacts, TrieOK
    <3> QED BY <1>2, <3>2, LevelFacts
  <2> QED BY <2>1
<1>4. n \in Nat /\ n < NodeCount /\ n >= level.end
  BY LevelFacts DEF Undone
<1> QED BY <1>3, <1>4, LevelFacts

LEMMA TakeChunkUndone ==
    ASSUME IInv, Parallel, NEW g \in Workers, TakeChunk(g), NEW n \in Nodes, Undone(n)
    PROVE  Undone(n)'
<1>1. /\ UNCHANGED <<trie, level, sent, main>>
      /\ range[g] = Idle /\ work # <<>>
      /\ range' = [range EXCEPT ![g] = Head(work)] /\ work' = Tail(work)
  BY DEF TakeChunk, input
<1>2. /\ Len(work') = Len(work) - 1 /\ Head(work) = work[1]
      /\ \A i \in 1..Len(work') : work'[i] = work[i + 1]
      /\ Len(work) \in Nat
  BY <1>1, LevelFacts
<1>3. g \in DOMAIN range /\ DOMAIN range' = DOMAIN range /\ range'[g] = work[1]
      /\ \A h \in DOMAIN range \ {g} : range'[h] = range[h]
  BY <1>1, <1>2, LevelFacts
<1>4. Starts' = Starts
  BY <1>1 DEF Starts
<1>5. CASE \E i \in 1..Len(work) : Covers(work[i], n)
  <2>1. PICK i \in 1..Len(work) : Covers(work[i], n)
    BY <1>5
  <2>2. CASE i = 1
    <3>1. Covers(range[g], n)'
      BY <1>3, <1>4, <2>1, <2>2 DEF Covers
    <3> QED BY <1>1, <1>3, <3>1 DEF Undone
  <2>3. CASE i # 1
    <3>1. i - 1 \in 1..Len(work') /\ (i - 1) + 1 = i
      BY <1>2, <2>3
    <3>2. work'[i - 1] = work[i]
      BY <1>2, <3>1
    <3>3. Covers(work[i - 1], n)'
      BY <1>4, <2>1, <3>2 DEF Covers
    <3> QED BY <1>1, <3>1, <3>3 DEF Undone
  <2> QED BY <2>2, <2>3
<1>6. CASE \E h \in DOMAIN range : Covers(range[h], n)
  <2>1. PICK h \in DOMAIN range : Covers(range[h], n)
    BY <1>6
  <2>2. h # g
    BY <1>1, <2>1, LevelFacts, IdleCoversNothing
  <2>3. Covers(range[h], n)'
    BY <1>3, <1>4, <2>1, <2>2 DEF Covers
  <2> QED BY <1>1, <1>3, <2>3 DEF Undone
<1> QED BY <1>1, <1>4, <1>5, <1>6 DEF Undone, Least

LEMMA SignalUndone ==
    ASSUME IInv, Parallel, NEW g \in Workers, Signal(g), NEW n \in Nodes, Undone(n)
    PROVE  Undone(n)'
<1>1. /\ UNCHANGED <<trie, level, sent, main, work>>
      /\ range[g] # Idle /\ Finished(range[g])
      /\ range' = [range EXCEPT ![g] = Idle]
  BY DEF Signal, input
<1>2. Starts' = Starts
  BY <1>1 DEF Starts
<1>3. DOMAIN range' = DOMAIN range
      /\ \A h \in DOMAIN range \ {g} : range'[h] = range[h]
  BY <1>1, LevelFacts
<1>4. ~Covers(range[g], n)
  <2>1. range[g].edge >= Starts[range[g].end] /\ Chunk(range[g])
    BY <1>1 DEF Finished, Starts, Parallel, ChunksOK
  <2>2. range[g].edge \in Nat /\ range[g].end \in 0..NodeCount /\ n \in Nat
    BY <2>1, LevelFacts DEF Chunk, Ranges
  <2>3. Starts[range[g].end] \in Nat
    BY <2>2, LevelFacts, TrieOK
  <2> QED BY <2>1, <2>2, <2>3 DEF Covers
<1>5. CASE \E h \in DOMAIN range : Covers(range[h], n)
  <2>1. PICK h \in DOMAIN range : Covers(range[h], n)
    BY <1>5
  <2>2. Covers(range[h], n)'
    BY <1>2, <1>3, <1>4, <2>1 DEF Covers
  <2> QED BY <1>1, <1>3, <2>2 DEF Undone
<1> QED BY <1>1, <1>2, <1>5 DEF Undone, Least, Covers

(* An edge of the level: the states its search passes, and the failure it  *)
(* finds, are before the end of the level, where every link is right.      *)
LEMMA EdgeLinks ==
    ASSUME IInv, Parallel, LinksInv,
           NEW g \in DOMAIN range, Chunk(range[g]), DoEdge(g)
    PROVE  LinksInv'
<1>1. PICK r, n, p : r = range[g] /\ n = r.edge + 1 /\ p = Up(trie, n)
  OBVIOUS
<1>2. UNCHANGED <<input, level, sent, main, work>> /\ ~Finished(r)
  BY <1>1 DEF DoEdge
<1>3. /\ r \in Ranges /\ r.first \in Nat /\ r.end \in Nat /\ r.edge \in Nat
      /\ level.start <= r.first /\ r.first < r.end /\ r.end <= level.end
      /\ Starts[r.first] <= r.edge
  BY <1>1 DEF Chunk, Ranges
<1>4. /\ n \in Nodes \ {0} /\ Parent(r) = p /\ p \in r.first..(r.end - 1)
  <2>1. r.first >= 1 /\ r.end <= NodeCount /\ r.first <= r.end
    BY <1>3, LevelFacts
  <2> QED BY <1>1, <1>2, <1>3, <2>1, LevelFacts, ParentIsUp
<1>5. p # 0 /\ p \in Nat /\ p < level.end /\ n \in Nat
      /\ level.end \in Nat /\ 0..p \subseteq Nodes
  <2>1. /\ level.start \in Nat /\ level.start >= 1 /\ level.end \in Nat
        /\ level.end <= NodeCount /\ NodeCount \in Nat /\ Nodes = 0..(NodeCount - 1)
    BY LevelFacts
  <2> QED BY <1>3, <1>4, <2>1
<1>6. \A m \in Nodes : m < level.end => Right(m)
  <2>1. ASSUME NEW m \in Nodes, m < level.end PROVE Right(m)
    <3>1. ~Undone(m)
      BY <2>1, LevelFacts DEF Undone
    <3> QED BY <3>1, LevelFacts DEF LinksInv
  <2> QED BY <2>1
<1>7. PICK f : f = FailureOf(p, Token(n))
  OBVIOUS
<1>8. /\ level.end <= n
      /\ f \in Nodes /\ f < level.end
  <2>1. LevelOK /\ FailuresEarlier
    BY DEF Parallel
  <2> QED BY <1>1, <1>2, <1>4, <1>7, <2>1, LevelFacts, EdgeOK
<1>9. f < n
  BY <1>5, <1>8, LevelFacts
<1>10. \A m \in 0..p : Right(m)
  BY <1>5, <1>6
<1>11. /\ (Backward /\ outputLinks = [m \in Nodes |-> outputLinks[m]])'
       /\ Right(n)' /\ \A m \in Nodes \ {n} : Right(m) => Right(m)'
  BY <1>1, <1>3, <1>4, <1>5, <1>6, <1>7, <1>8, <1>9, <1>10, LevelFacts, EdgeRight
     DEF LinksInv
<1>12. /\ range'[g].end = r.end /\ range'[g].edge = n
       /\ DOMAIN range' = DOMAIN range
       /\ \A h \in DOMAIN range \ {g} : range'[h] = range[h]
  <2>1. range' = [range EXCEPT ![g].edge = @ + 1]
    BY DEF DoEdge
  <2>2. range'[g] = [r EXCEPT !.edge = r.edge + 1]
    BY <1>1, <2>1
  <2> QED BY <1>1, <1>3, <2>1, <2>2 DEF Ranges
<1>13. workerCount' = workerCount /\ Nodes' = Nodes /\ Starts' = Starts
  BY <1>2 DEF input, Nodes, Starts
<1>14. ASSUME NEW m \in Nodes, m # n, Undone(m)
       PROVE  Undone(m)'
  <2>1. CASE \E h \in DOMAIN range : Covers(range[h], m)
    <3>1. PICK h \in DOMAIN range : Covers(range[h], m)
      BY <2>1
    <3>2. CASE h = g
      <4>1. r.edge < m /\ m <= Starts[r.end] /\ m \in Nat
        BY <1>1, <3>1, <3>2, LevelFacts DEF Covers
      <4>2. n < m
        BY <1>1, <1>3, <1>14, <4>1
      <4>3. Covers(range[g], m)'
        BY <1>12, <1>13, <4>1, <4>2 DEF Covers
      <4> QED BY <1>2, <1>12, <1>14, <4>3 DEF Undone
    <3>3. CASE h # g
      <4>1. Covers(range[h], m)'
        BY <1>12, <1>13, <3>1, <3>3 DEF Covers
      <4> QED BY <1>2, <1>12, <1>14, <4>1 DEF Undone
    <3> QED BY <3>2, <3>3
  <2>2. CASE \E i \in 1..Len(work) : Covers(work[i], m)
    BY <1>2, <1>13, <1>14, <2>2 DEF Undone, Covers
  <2> QED BY <1>2, <1>13, <1>14, <2>1, <2>2 DEF Undone, Least
<1>15. \A m \in Nodes : Right(m)' \/ Undone(m)'
  <2>1. \A m \in Nodes : Right(m) \/ Undone(m)
    BY LevelFacts DEF LinksInv
  <2> QED BY <1>11, <1>14, <2>1
<1>16. workerCount # 1
  BY LevelFacts
<1> QED BY <1>11, <1>13, <1>15, <1>16 DEF LinksInv

LEMMA ParallelLinks ==
    ASSUME IInv, Parallel, LinksInv, Next
    PROVE  LinksInv'
<1>1. workerCount # 1 /\ Workers \subseteq DOMAIN range /\ 0 \in DOMAIN range
  BY LevelFacts
<1>2. ASSUME UNCHANGED <<input, failures, outputLinks>>,
             \A n \in Nodes : Undone(n) => Undone(n)'
      PROVE  LinksInv'
  <2>1. \A n \in Nodes : Right(n) \/ Undone(n)'
    BY <1>1, <1>2 DEF LinksInv
  <2> QED BY <1>1, <1>2, <2>1, LinksKept
<1>3. CASE StartInline
  BY <1>2, <1>3, StartInlineUndone DEF StartInline
<1>4. CASE StartParallel
  BY <1>2, <1>4, StartParallelUndone DEF StartParallel
<1>5. CASE SendChunk
  BY <1>2, <1>5, SendChunkUndone DEF SendChunk
<1>6. CASE AllSent
  BY <1>2, <1>6, AllSentUndone DEF AllSent
<1>7. CASE Await
  BY <1>2, <1>7, AwaitUndone DEF Await
<1>8. CASE Advance
  BY <1>2, <1>8, AdvanceUndone DEF Advance
<1>9. CASE Complete
  BY <1>2, <1>9, CompleteUndone DEF Complete
<1>10. CASE InlineEdge
  <2>1. DoEdge(0) /\ Chunk(range[0])
    BY <1>10 DEF InlineEdge, Parallel, CallerOK
  <2> QED BY <1>1, <2>1, EdgeLinks
<1>11. ASSUME NEW g \in Workers, TakeChunk(g) PROVE LinksInv'
  BY <1>2, <1>11, TakeChunkUndone DEF TakeChunk
<1>12. ASSUME NEW g \in Workers, Signal(g) PROVE LinksInv'
  BY <1>2, <1>12, SignalUndone DEF Signal
<1>13. ASSUME NEW g \in Workers, WorkerEdge(g) PROVE LinksInv'
  <2>1. DoEdge(g) /\ Chunk(range[g])
    BY <1>13 DEF WorkerEdge, Parallel, ChunksOK
  <2> QED BY <1>1, <2>1, EdgeLinks
<1>14. CASE Terminated
  <2>1. \A n \in Nodes : Undone(n) => Undone(n)'
    BY <1>14 DEF Terminated, vars, Undone, Covers, Starts, Least
  <2> QED BY <1>2, <1>14, <2>1 DEF Terminated, vars, input
<1> QED BY <1>3, <1>4, <1>5, <1>6, <1>7, <1>8, <1>9, <1>10, <1>11, <1>12, <1>13, <1>14
        DEF Next, Caller, Worker

LEMMA LinksStep ==
    ASSUME IInv, LinksInv, [Next]_vars
    PROVE  LinksInv'
<1>1. CASE Next
  BY <1>1, SingleLinks, ParallelLinks DEF IInv
<1>2. CASE UNCHANGED vars
  <2>1. UNCHANGED <<input, failures, outputLinks>>
    BY <1>2 DEF vars, input
  <2>2. workerCount = 1 => SingleRange'
    BY <1>2 DEF vars, LinksInv, SingleRange, Ranges, Starts, NodeCount
  <2>3. \A n \in Nodes : Undone(n) => Undone(n)'
    BY <1>2 DEF vars, Undone, Covers, Starts, Least
  <2>4. \A n \in Nodes :
          \/ Right(n)
          \/ IF workerCount = 1 THEN (main # "done" /\ range[0].edge < n)'
                                ELSE Undone(n)'
    BY <1>2, <2>3 DEF LinksInv, vars
  <2> QED BY <2>1, <2>2, <2>4, LinksKept
<1> QED BY <1>1, <1>2

(* Once the caller has returned nothing is left to do.                     *)
LEMMA LinksInvSuffices ==
    ASSUME IInv, LinksInv
    PROVE  LinksCorrect
<1>1. SUFFICES ASSUME main = "done"
               PROVE  /\ failures = True[trie].failures
                      /\ outputLinks = True[trie].outputLinks
  BY DEF LinksCorrect
<1>2. trie \in Tries
  BY DEF IInv
<1>3. \A n \in Nodes : Right(n)
  BY <1>1 DEF LinksInv, Undone
<1>4. DOMAIN Paths = Nodes
  BY <1>2, PathsOK
<1>5. True[trie] = TrueLinks(trie)
  BY <1>2 DEF True
<1>6. /\ True[trie].failures = [n \in Nodes |-> Deepest(Paths, Proper(n), 0)]
      /\ True[trie].outputLinks = [n \in Nodes |-> TrueOutput(n)]
  BY <1>4, <1>5 DEF TrueLinks, Paths, Proper, TrueOutput
<1>7. ASSUME NEW n \in Nodes
      PROVE  failures[n] = Deepest(Paths, Proper(n), 0)
  <2>1. CASE n = 0
    <3>1. Proper(0) = {}
      BY <1>2, ProperOK, SuffixRoot
    <3> QED BY <1>3, <2>1, <3>1 DEF Right, Deepest
  <2>2. CASE n # 0
    <3>1. IsLongest(n, failures[n])
      BY <1>3, <2>2 DEF Right
    <3>2. PICK S, x : S = Proper(n) /\ x = failures[n]
      OBVIOUS
    <3>3. S \subseteq Nodes /\ x \in S /\ \A k \in S : Suffix(x, k)
      BY <1>2, <3>1, <3>2, ProperOK DEF IsLongest
    <3>4. Deepest(Paths, S, 0) = x
      BY <1>2, <3>3, DeepestIs
    <3> QED BY <3>2, <3>4
  <2> QED BY <2>1, <2>2
<1>8. failures = [n \in Nodes |-> failures[n]]
  BY DEF LinksInv, Backward
<1>9. outputLinks = [n \in Nodes |-> outputLinks[n]]
  BY DEF LinksInv
<1> QED BY <1>3, <1>6, <1>7, <1>8, <1>9 DEF Right

(* The failure and output links buildFailureLinksInto leaves are those of  *)
(* the longest proper suffixes of the paths, for every trie, any number of *)
(* workers, any threshold and any schedule: reading links that others      *)
(* wrote, without a lock, never gives a wrong one.                         *)
THEOREM LinksRight == Spec => []LinksCorrect
<1>1. Init => LinksInv
  BY InitLinks
<1>2. IInv /\ LinksInv /\ [Next]_vars => LinksInv'
  BY LinksStep
<1>3. IInv /\ LinksInv => LinksCorrect
  BY LinksInvSuffices
<1> QED BY <1>1, <1>2, <1>3, Invariant, PTL DEF Spec
=============================================================================
