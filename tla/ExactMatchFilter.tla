-------------------------- MODULE ExactMatchFilter --------------------------
(***************************************************************************)
(* filterExactMatches (filter.go): which of the rule matches of an input   *)
(* survive.  The matches are sorted, then five sweeps over the sorted      *)
(* array change the state of each match: contained matches are discarded,  *)
(* overlapping ones are discarded, the discarded ones that overlap nothing *)
(* any more are restored, first the contained then the overlapping, what   *)
(* is contained after that is discarded for good, and so are the matches   *)
(* of false-positive rules.                                                *)
(*                                                                         *)
(* One step is one iteration of a sweep.  A match is a span of tokens and  *)
(* a rule; the ratios of the code are percentages.                         *)
(***************************************************************************)
EXTENDS Integers, Sequences, FiniteSets

CONSTANTS
    Rules,          \* rule indexes
    Expression,     \* the license expression of each rule
    FalsePositives, \* the rules flagged FlagFalsePositive
    Candidates      \* the match lists that may be filtered

Match == {m \in [rule : Rules, start : Nat, end : Nat] : m.start < m.end}

ASSUME FilterAssumption ==
    /\ Rules \subseteq Nat /\ FalsePositives \subseteq Rules
    /\ DOMAIN Expression = Rules
    /\ Candidates \subseteq Seq(Match)

VARIABLES
    matches,   \* the array
    states,    \* the state of each match
    sweep,     \* the sweep under way
    index,     \* its loop variable
    next,      \* that of the inner loop of "overlapping", 0 outside of it
    maxEnd,    \* of the contained sweeps
    previous,  \* previousKept, 0 at first
    position, union, \* of the restoring sweeps
    kept       \* what is returned

locals == <<index, next, maxEnd, previous, position, union>>
vars == <<matches, states, sweep, locals, kept>>

n == Len(matches)
Active(i) == states[i] = "active"

Length(m) == m.end - m.start

(* compareExactMatches: start, then the longer one, then the rule.         *)
InOrder(a, b) ==
    \/ a.start < b.start
    \/ a.start = b.start /\ a.end > b.end
    \/ a.start = b.start /\ a.end = b.end /\ a.rule <= b.rule

Ordered(s) == \A i, j \in DOMAIN s : i < j => InOrder(s[i], s[j])

(* matchOverlap                                                            *)
Overlap(a, b) ==
    LET start == IF a.start > b.start THEN a.start ELSE b.start
        end   == IF a.end < b.end THEN a.end ELSE b.end
    IN  IF start < end THEN end - start ELSE 0

(* The elements of s at the places S, in their order.                      *)
Rank(S, i) == Cardinality({j \in S : j <= i})

Selected(s, S) ==
    [k \in 1..Cardinality(S) |-> s[CHOOSE i \in S : Rank(S, i) = k]]

-----------------------------------------------------------------------------
Init ==
    /\ matches \in Candidates
    /\ states = [i \in 1..n |-> "active"]
    /\ sweep = "sort"
    /\ index = 1 /\ next = 0 /\ maxEnd = -1 /\ previous = 0
    /\ position = 1 /\ union = <<>>
    /\ kept = <<>>

(* A sweep starts with its own local variables.                            *)
Begin(name) ==
    /\ sweep' = name
    /\ index' = 1 /\ next' = 0 /\ maxEnd' = -1 /\ previous' = 0
    /\ position' = 1 /\ union' = <<>> /\ kept' = kept

(* slices.SortStableFunc                                                   *)
Rearrangements(s) ==
    {[i \in DOMAIN s |-> s[p[i]]] :
        p \in {f \in [DOMAIN s -> DOMAIN s] :
                  \A j \in DOMAIN s : \E i \in DOMAIN s : f[i] = j}}

Sort ==
    /\ sweep = "sort"
    /\ matches' \in {s \in Rearrangements(matches) : Ordered(s)}
    /\ Begin("contained")
    /\ UNCHANGED states

(* filterContainedMatches, first and last: the matches kept so far reach   *)
(* up to maxEnd, and all of them start no later than this one.             *)
Contained(discard) ==
    /\ index <= n /\ Active(index)
    /\ matches[index].end <= maxEnd
    /\ states' = [states EXCEPT ![index] = discard]
    /\ index' = index + 1
    /\ UNCHANGED <<matches, sweep, next, maxEnd, previous, position, union, kept>>

NotContained ==
    /\ index <= n /\ Active(index)
    /\ matches[index].end > maxEnd
    /\ maxEnd' = matches[index].end
    /\ index' = index + 1
    /\ UNCHANGED <<matches, states, sweep, next, previous, position, union, kept>>

(* A sweep passes over the matches it has nothing to do with.              *)
PassOver(condition) ==
    /\ index <= n /\ condition
    /\ index' = index + 1
    /\ UNCHANGED <<matches, states, sweep, next, maxEnd, previous, position,
                   union, kept>>

EndSweep(name) == index > n /\ Begin(name) /\ UNCHANGED <<matches, states>>

FilterContained ==
    /\ sweep = "contained"
    /\ \/ Contained("discardedContained") \/ NotContained
       \/ index <= n /\ PassOver(~Active(index))
       \/ EndSweep("overlapping")

FilterContainedAgain ==
    /\ sweep = "final"
    /\ \/ Contained("discardedFinal") \/ NotContained
       \/ index <= n /\ PassOver(~Active(index))
       \/ EndSweep("falsePositive")

-----------------------------------------------------------------------------
(* overlappingMatchToRemove: the shorter match goes, the later one of two  *)
(* equals, when it is overlapped by 70% of it, or 40% if both state the    *)
(* same expression.  (What the 90% branches decide the 70% ones would.)    *)
Shorter(current, later) ==
    IF Length(current) >= Length(later) THEN "next" ELSE "current"

OverlapRequired(current, later) ==
    IF Expression[current.rule] = Expression[later.rule] THEN 40 ELSE 70

ByOverlap(current, later) ==
    LET overlap == Overlap(current, later)
        shorter == IF Shorter(current, later) = "next" THEN later ELSE current
    IN  IF 100 * overlap >= OverlapRequired(current, later) * Length(shorter)
        THEN Shorter(current, later) ELSE "neither"

(* overlapRemovalForPair: besides, two neighbours that do not touch each   *)
(* other may cover 90% of the match between them.                          *)
Removal ==
    LET current == matches[index]
        later   == matches[next]
    IN  IF Overlap(current, later) = 0
           \/ (current.rule \in FalsePositives /\ later.rule \in FalsePositives)
        THEN "neither"
        ELSE IF ByOverlap(current, later) # "neither"
        THEN ByOverlap(current, later)
        ELSE IF /\ previous # 0
                /\ Overlap(matches[previous], later) = 0
                /\ 100 * (Overlap(current, matches[previous])
                            + Overlap(current, later)) >= 90 * Length(current)
        THEN "current" ELSE "neither"

NextActive(i, j) ==
    /\ i < j /\ j <= n /\ Active(j)
    /\ \A k \in (i + 1)..(j - 1) : ~Active(k)

(* The inner loop moves on to the next active match, if there is one that  *)
(* starts before the current one ends.                                     *)
LookAt(i, j) ==
    IF \E k \in 1..n : NextActive(j, k) /\ matches[k].start < matches[i].end
    THEN next' \in {k \in 1..n : NextActive(j, k)}
    ELSE next' = 0

Discard(i) == states' = [states EXCEPT ![i] = "discardedOverlapping"]

(* The outer loop meets an active match.                                   *)
TakeCurrent ==
    /\ index < n /\ next = 0 /\ Active(index)
    /\ LookAt(index, index)
    /\ IF next' = 0 THEN previous' = index /\ index' = index + 1
                    ELSE UNCHANGED <<previous, index>>
    /\ UNCHANGED <<matches, states, sweep, maxEnd, position, union, kept>>

(* One pair of the inner loop; when the loop is over, a current match that *)
(* is still active becomes the previous one.                               *)
ComparePair ==
    /\ next # 0
    /\ CASE Removal = "next"    -> Discard(next) /\ LookAt(index, next)
         [] Removal = "current" -> Discard(index) /\ next' = 0
         [] Removal = "neither" -> UNCHANGED states /\ LookAt(index, next)
    /\ index' = IF next' = 0 THEN index + 1 ELSE index
    /\ previous' = IF next' = 0 /\ Removal # "current" THEN index ELSE previous
    /\ UNCHANGED <<matches, sweep, maxEnd, position, union, kept>>

(* A restoring sweep only runs when there is something to restore.         *)
Discarded(state) == \E i \in 1..n : states[i] = state

AfterContained ==
    IF Discarded("discardedOverlapping") THEN "restoreOverlapping" ELSE "final"

(* Mutant of AfterOverlapping: only overlapping matches are restored.      *)
AfterOverlappingOnly == AfterContained

AfterOverlapping ==
    IF Discarded("discardedContained") THEN "restoreContained"
                                       ELSE AfterContained

FilterOverlapping ==
    /\ sweep = "overlapping"
    /\ \/ TakeCurrent \/ ComparePair
       \/ index < n /\ next = 0 /\ PassOver(~Active(index))
       \/ index >= n /\ next = 0 /\ Begin(AfterOverlapping)
          /\ UNCHANGED <<matches, states>>

-----------------------------------------------------------------------------
(* nextActiveMatchUnion: the matches first..last, as far as active, form   *)
(* one stretch of tokens without a gap; <<>> when no active match is left. *)
Touches(first, k) ==
    \E m \in first..(k - 1) : Active(m) /\ matches[k].start < matches[m].end

Stretch(first, last) ==
    /\ Active(first)
    /\ \A k \in (first + 1)..last : Active(k) => Touches(first, k)

LoadUnion ==
    \/ /\ \A k \in position..n : ~Active(k)
       /\ union' = <<>> /\ position' = n + 1
    \/ \E first, last, far \in position..n :
       /\ \A k \in position..(first - 1) : ~Active(k)
       /\ first <= last /\ Stretch(first, last)
       /\ last < n => Active(last + 1) /\ ~Touches(first, last + 1)
       /\ far \in first..last /\ Active(far)
       /\ \A k \in first..last : Active(k) => matches[k].end <= matches[far].end
       /\ union' = <<matches[first].start, matches[far].end>>
       /\ position' = last + 1

(* restoreNonOverlapping: a first stretch is loaded before the loop, and   *)
(* the next ones while the stretch ends before the discarded match starts. *)
Unloaded == union = <<>> /\ position <= n

Behind == union # <<>> /\ union[2] <= matches[index].start

Blocked == union # <<>> /\ union[1] < matches[index].end

(* Mutant of Restore: what lies beyond the stretch is taken to be free.    *)
RestoreBehind(discarded) ==
    /\ index <= n /\ ~Unloaded
    /\ states[index] = discarded /\ (Behind \/ ~Blocked)
    /\ states' = [states EXCEPT ![index] = "restored"]
    /\ index' = index + 1
    /\ UNCHANGED <<matches, sweep, next, maxEnd, previous, position, union, kept>>

Restore(discarded) ==
    /\ index <= n /\ ~Unloaded
    /\ states[index] = discarded /\ ~Behind /\ ~Blocked
    /\ states' = [states EXCEPT ![index] = "restored"]
    /\ index' = index + 1
    /\ UNCHANGED <<matches, sweep, next, maxEnd, previous, position, union, kept>>

Restoring(discarded, after) ==
    \/ /\ Unloaded \/ (index <= n /\ states[index] = discarded /\ Behind)
       /\ LoadUnion
       /\ UNCHANGED <<matches, states, sweep, index, next, maxEnd, previous, kept>>
    \/ Restore(discarded)
    \/ /\ index <= n /\ ~Unloaded
       /\ PassOver(states[index] # discarded \/ (~Behind /\ Blocked))
    \/ /\ index > n /\ ~Unloaded
       /\ states' = [i \in 1..n |-> IF states[i] = "restored" THEN "active"
                                                              ELSE states[i]]
       /\ Begin(after)
       /\ UNCHANGED matches

RestoreContained ==
    sweep = "restoreContained" /\ Restoring("discardedContained", AfterContained)

(* Mutant of RestoreOverlapping: the second sweep for contained matches is *)
(* left out.                                                               *)
RestoreOverlappingLast ==
    /\ sweep = "restoreOverlapping"
    /\ Restoring("discardedOverlapping", "falsePositive")

RestoreOverlapping ==
    sweep = "restoreOverlapping" /\ Restoring("discardedOverlapping", "final")

-----------------------------------------------------------------------------
(* filterFalsePositiveMatches                                              *)
FalsePositive(i) == Active(i) /\ matches[i].rule \in FalsePositives

FilterFalsePositive ==
    /\ sweep = "falsePositive"
    /\ \/ /\ index <= n /\ FalsePositive(index)
          /\ states' = [states EXCEPT ![index] = "discardedFinal"]
          /\ index' = index + 1
          /\ UNCHANGED <<matches, sweep, next, maxEnd, previous, position, union,
                         kept>>
       \/ index <= n /\ PassOver(~FalsePositive(index))
       \/ EndSweep("compact")

(* compactExactMatches and sortExactMatches: start, then end, then the ID  *)
(* of the rule, which no two matches with one span are left to need.       *)
ResultOrder(a, b) == a.start < b.start \/ (a.start = b.start /\ a.end <= b.end)

Compacted == Selected(matches, {i \in 1..n : Active(i)})

Compact ==
    /\ sweep = "compact"
    /\ kept' \in {s \in Rearrangements(Compacted) :
                     \A i, j \in DOMAIN s : i < j => ResultOrder(s[i], s[j])}
    /\ sweep' = "done"
    /\ UNCHANGED <<matches, states, locals>>

(* A sweep that finds the context canceled: nothing is returned.  (Every   *)
(* 4096th iteration looks; here any may.)                                  *)
Interrupted ==
    /\ sweep \notin {"done", "canceled"}
    /\ matches' = <<>> /\ states' = <<>>
    /\ Begin("canceled")

Ended == sweep \in {"done", "canceled"} /\ UNCHANGED vars

Step ==
    \/ Sort \/ FilterContained \/ FilterOverlapping
    \/ RestoreContained \/ RestoreOverlapping
    \/ FilterContainedAgain \/ FilterFalsePositive \/ Compact

Next == Step \/ Interrupted \/ Ended

(* The sweeps run on unless they are interrupted.                          *)
Spec == Init /\ [][Next]_vars

-----------------------------------------------------------------------------
MatchStates == {"active", "discardedContained", "discardedOverlapping",
                "discardedFinal", "restored"}

Sweeps == {"sort", "contained", "overlapping", "restoreContained",
           "restoreOverlapping", "final", "falsePositive", "compact", "done",
           "canceled"}

TypeOK ==
    /\ matches \in Seq(Match)
    /\ states \in [1..n -> MatchStates]
    /\ sweep \in Sweeps
    /\ index \in 1..(n + 1) /\ next \in 0..n
    /\ maxEnd \in Int /\ previous \in 0..n
    /\ position \in 1..(n + 1)

(* What is returned is strictly increasing at both ends: no match lies     *)
(* within another, although the overlap sweep and the two restorations run *)
(* between the two sweeps that look for contained matches.                 *)
NoneContained ==
    sweep \in {"falsePositive", "compact", "done"} =>
        \A i, j \in 1..n : i < j /\ Active(i) /\ Active(j) =>
            matches[i].start < matches[j].start /\ matches[i].end < matches[j].end

Overlapped(i) == \E j \in 1..n : Active(j) /\ Overlap(matches[i], matches[j]) > 0

(* Nothing is dropped without cause: when only the false positives are     *)
(* left to discard, every candidate is active or overlaps a match that is. *)
(* A discarded match whose discarders are themselves discarded comes back. *)
NothingUncovered ==
    sweep = "falsePositive" /\ index = 1 => \A i \in 1..n : Overlapped(i)

(* The linear sweep of restoreNonOverlapping, over stretches of active     *)
(* matches, restores exactly the discarded ones that overlap none of them. *)
RestoredExactly ==
    \A i \in 1..n : i < index =>
        /\ sweep = "restoreContained" =>
              /\ states[i] = "restored" => ~Overlapped(i)
              /\ states[i] = "discardedContained" => Overlapped(i)
        /\ sweep = "restoreOverlapping" =>
              /\ states[i] = "restored" => ~Overlapped(i)
              /\ states[i] = "discardedOverlapping" => Overlapped(i)
=============================================================================
