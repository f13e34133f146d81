---------------------------- MODULE LicenseList ----------------------------
(***************************************************************************)
(* filterLicenseListMatches (filter.go): short license names in close      *)
(* succession, stating several licenses and making up half of the input,   *)
(* are a list of licenses that grants none of them, and are dropped.       *)
(*                                                                         *)
(* The matches come from filterExactMatches: they start, and end, one      *)
(* after the other.  One loop groups them, and what is kept is written     *)
(* back into the array it is still reading.  The words the tokenizer       *)
(* dropped, unknown ones and stopwords, count for distances; the code adds *)
(* them up from two lists, which are here one after the other.             *)
(***************************************************************************)
EXTENDS Integers, Sequences, FiniteSets

CONSTANTS
    MinMatches,     \* minimumLicenseListMatches
    MinExpressions, \* minimumLicenseListExpressions
    MaxTokens,      \* maximumLicenseListMatchTokens
    MaxDistance     \* maximumLicenseListMatchDistance

VARIABLES
    input,       \* the matches, after how many tokens words were dropped,
                 \* and the number of all words
    array,       \* the matches, and the kept ones in their place
    length,      \* how many are kept so far
    index,       \* the match the loop is at
    groupStart,  \* where the open group starts, 0 if there is none
    previous,    \* the last match that may be of a list
    pc

vars == <<input, array, length, index, groupStart, previous, pc>>

-----------------------------------------------------------------------------
n == Len(input.matches)

Candidate(m) == m.end - m.start <= MaxTokens /\ m.names

(* How many words were dropped before the token of this number: the places *)
(* that binary searches of the two lists find, added up.                   *)
DroppedBefore(token) ==
    Cardinality({k \in DOMAIN input.dropped : input.dropped[k] < token})

(* licenseListMatchDistance: 1 for neighbours, less if they overlap.       *)
Distance(a, b) ==
    b.start - a.end + 1 + DroppedBefore(b.start + 1) - DroppedBefore(a.end)

(* licenseListSpanWords                                                    *)
SpanWords(group) ==
    LET start == group[1].start
        end   == group[Len(group)].end
    IN  end - start + DroppedBefore(end) - DroppedBefore(start + 1)

(* isLicenseList, and minimumLicenseListInputCoverage: half of the words.  *)
IsList(group) ==
    /\ Len(group) >= MinMatches
    /\ Cardinality({group[k].expression : k \in DOMAIN group}) >= MinExpressions
    /\ 2 * SpanWords(group) >= input.words

-----------------------------------------------------------------------------
(* The call; `names` tells the kinds of rule a list is made of, which are  *)
(* references, tags, intros and clues.                                     *)
Start(x) ==
    /\ input' = x
    /\ array' = x.matches
    /\ length' = 0 /\ index' = 1 /\ groupStart' = 0
    /\ previous' = [start |-> 0, end |-> 0, names |-> FALSE]
    /\ pc' = "loop"

(* `kept = append(kept, more...)`, over the front of the array.            *)
Written(a, at, more) ==
    [i \in DOMAIN a |->
        IF at < i /\ i <= at + Len(more) THEN more[i - at] ELSE a[i]]

(* flushGroup: the matches of the open group, if they are to be kept.      *)
Flushed(end) ==
    IF groupStart = 0 THEN <<>>
    ELSE LET group == SubSeq(array, groupStart, end - 1)
         IN  IF IsList(group) THEN <<>> ELSE group

Keep(more) ==
    /\ array' = Written(array, length, more)
    /\ length' = length + Len(more)

(* A match that cannot be of a list ends the group and stays.              *)
OtherMatch ==
    /\ pc = "loop" /\ index <= n /\ ~Candidate(array[index])
    /\ Keep(Append(Flushed(index), array[index]))
    /\ groupStart' = 0 /\ index' = index + 1
    /\ UNCHANGED <<input, previous, pc>>

(* Mutant of FarApart: the distance is that of the first of the group.     *)
FarFromFirst ==
    groupStart # 0 /\ Distance(array[groupStart], array[index]) > MaxDistance

FarApart == groupStart # 0 /\ Distance(previous, array[index]) > MaxDistance

NearMatch ==
    /\ pc = "loop" /\ index <= n /\ Candidate(array[index]) /\ ~FarApart
    /\ groupStart' = IF groupStart = 0 THEN index ELSE groupStart
    /\ previous' = array[index] /\ index' = index + 1
    /\ UNCHANGED <<input, array, length, pc>>

FarMatch ==
    /\ pc = "loop" /\ index <= n /\ Candidate(array[index]) /\ FarApart
    /\ Keep(Flushed(index))
    /\ groupStart' = index
    /\ previous' = array[index] /\ index' = index + 1
    /\ UNCHANGED <<input, pc>>

LastFlush ==
    /\ pc = "loop" /\ index > n
    /\ Keep(Flushed(n + 1))
    /\ groupStart' = 0 /\ pc' = "filtered"
    /\ UNCHANGED <<input, index, previous>>

Loop == OtherMatch \/ NearMatch \/ FarMatch \/ LastFlush

-----------------------------------------------------------------------------
(* The matches i to j are of one group: each is close to the next.         *)
Linked(i, j) ==
    /\ \A k \in i..j : Candidate(input.matches[k])
    /\ \A k \in i..(j - 1) :
           Distance(input.matches[k], input.matches[k + 1]) <= MaxDistance

InList(i) ==
    \E first \in 1..i, last \in i..n :
        /\ Linked(first, last)
        /\ first = 1 \/ ~Linked(first - 1, last)
        /\ last = n \/ ~Linked(first, last + 1)
        /\ IsList(SubSeq(input.matches, first, last))

(* What is kept is, in order, every match that is not of a list, a list    *)
(* being a longest series of close short names; and although the array is  *)
(* overwritten as it is read, every match that is still to be read, or to  *)
(* be kept with the open group, is what it was.                            *)
ListsDropped ==
    /\ pc = "filtered" =>
          LET Left == {i \in 1..n : ~InList(i)}
              Rank(i) == Cardinality({j \in Left : j <= i})
          IN  /\ length = Cardinality(Left)
              /\ \A i \in Left : array[Rank(i)] = input.matches[i]
    /\ pc = "loop" =>
          \A i \in (IF groupStart = 0 THEN index ELSE groupStart)..n :
              array[i] = input.matches[i]
=============================================================================
