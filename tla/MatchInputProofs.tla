-------------------------- MODULE MatchInputProofs --------------------------
(***************************************************************************)
(* What ExactMatchFilter guarantees of any list of matches and any rules,  *)
(* and what MatchInput, which runs it, guarantees of any input.            *)
(***************************************************************************)
EXTENDS MatchInput, TLAPS, FiniteSetTheorems, WellFoundedInduction

RestoreSweeps == {"restoreContained", "restoreOverlapping"}

(* While the inner loop runs, it is ahead of the outer one.                *)
InnerAhead == next # 0 => sweep = "overlapping" /\ index < next

(* The array stays in the order Sort gave it.                              *)
StaysOrdered == sweep \notin {"sort", "canceled"} => Ordered(matches)

(* A stretch that is loaded is one of the active matches as they are.      *)
IsStretch(u) ==
    \E first, last, far \in 1..n :
        /\ first <= last /\ Stretch(first, last)
        /\ far \in first..last /\ Active(far)
        /\ \A k \in first..last : Active(k) => matches[k].end <= matches[far].end
        /\ u = <<matches[first].start, matches[far].end>>

UnionLoaded ==
    union # <<>> => sweep \in RestoreSweeps /\ IsStretch(union)

(* The states each sweep may meet, and the discarded matches already known *)
(* to overlap an active one.                                               *)
Pending == {"active", "discardedContained", "discardedOverlapping"}

Covering ==
    /\ sweep \in {"sort", "contained", "overlapping"} =>
          \A i \in 1..n : states[i] \in Pending
    /\ sweep \in RestoreSweeps =>
          \A i \in 1..n : states[i] \in Pending \cup {"restored"}
    /\ sweep = "restoreContained" =>
          \A i \in 1..n :
              i < index /\ states[i] = "discardedContained" => Overlapped(i)
    /\ sweep = "restoreOverlapping" =>
          \A i \in 1..n :
              /\ states[i] = "discardedContained" => Overlapped(i)
              /\ i < index /\ states[i] = "discardedOverlapping" => Overlapped(i)
    /\ sweep = "final" => \A i \in 1..n : Overlapped(i)

(* The last contained sweep: what it has kept so far is incomparable, and  *)
(* maxEnd is the end of one of them.                                       *)
Incomparable(end) ==
    \A i, j \in 1..n : i < j /\ j < end /\ Active(i) /\ Active(j) =>
        matches[i].start < matches[j].start /\ matches[i].end < matches[j].end

KeptSoFar ==
    sweep = "final" =>
        /\ \A i \in 1..n : i < index /\ Active(i) => matches[i].end <= maxEnd
        /\ \/ maxEnd = -1
           \/ \E k \in 1..n : k < index /\ Active(k) /\ matches[k].end = maxEnd
        /\ Incomparable(index)

Rest ==
    /\ StaysOrdered /\ UnionLoaded /\ Covering /\ KeptSoFar
    /\ NothingUncovered /\ NoneContained

IInv == TypeOK /\ InnerAhead /\ Rest

-----------------------------------------------------------------------------
(* A set of naturals has a least element.                                  *)
LEMMA LeastElement ==
    ASSUME NEW T \in SUBSET Nat, T # {}
    PROVE  \E x \in T : \A y \in T : x <= y
<1> DEFINE R == {ss \in Nat \X Nat : ss[1] < ss[2]}
<1>1. IsWellFoundedOn(R, Nat)
  <2>1. IsWellFoundedOn(OpToRel(<, Nat), Nat)
    BY NatLessThanWellFounded
  <2>2. R = OpToRel(<, Nat)
    BY DEF OpToRel
  <2> QED BY <2>1, <2>2
<1> HIDE DEF R
<1>2. PICK x \in T : \A y \in T : ~(<<y, x>> \in R)
  BY <1>1, WFMin
<1>3. ASSUME NEW y \in T PROVE x <= y
  <2>1. ~(<<y, x>> \in R) /\ y \in Nat /\ x \in Nat
    BY <1>2
  <2>2. ~(y < x)
    BY <2>1 DEF R
  <2> QED BY <2>1, <2>2
<1> QED BY <1>3

(* Two matches overlap when each starts before the other ends.             *)
LEMMA OverlapPositive ==
    ASSUME NEW a \in Match, NEW b \in Match
    PROVE  Overlap(a, b) > 0 <=> a.start < b.end /\ b.start < a.end
BY DEF Overlap, Match

(* The elements of the array are matches.                                  *)
LEMMA Elements ==
    ASSUME TypeOK
    PROVE  n \in Nat /\ \A i \in 1..n : matches[i] \in Match
BY DEF TypeOK, n

(* An active match overlaps itself.                                        *)
LEMMA ActiveOverlapped ==
    ASSUME TypeOK, NEW i \in 1..n, Active(i)
    PROVE  Overlapped(i)
<1>1. matches[i] \in Match
  BY Elements
<1>2. Overlap(matches[i], matches[i]) > 0
  BY <1>1, OverlapPositive DEF Match
<1> QED BY <1>2 DEF Overlapped

(* A match between the ends of a stretch overlaps an active match: the     *)
(* first of the stretch to start beyond it would leave a gap.              *)
LEMMA StretchBlocks ==
    ASSUME TypeOK, NEW u, IsStretch(u), NEW i \in 1..n,
           u[1] < matches[i].end, matches[i].start < u[2]
    PROVE  Overlapped(i)
<1> DEFINE c == matches[i]
<1>1. n \in Nat /\ \A k \in 1..n : matches[k] \in Match
  BY Elements
<1>2. PICK first \in 1..n, last \in 1..n, far \in 1..n :
        /\ first <= last /\ Stretch(first, last)
        /\ far \in first..last /\ Active(far)
        /\ \A k \in first..last : Active(k) => matches[k].end <= matches[far].end
        /\ u = <<matches[first].start, matches[far].end>>
  BY DEF IsStretch
<1> SUFFICES ASSUME \A j \in 1..n : Active(j) => ~(Overlap(c, matches[j]) > 0)
             PROVE  FALSE
  BY DEF Overlapped
<1>3. \A j \in 1..n : Active(j) => matches[j].end <= c.start \/ c.end <= matches[j].start
  <2> SUFFICES ASSUME NEW j \in 1..n, Active(j)
               PROVE  matches[j].end <= c.start \/ c.end <= matches[j].start
    OBVIOUS
  <2>1. matches[j] \in Match /\ c \in Match
    BY <1>1
  <2>2. ~(c.start < matches[j].end /\ matches[j].start < c.end)
    BY <2>1, OverlapPositive
  <2> QED BY <2>1, <2>2 DEF Match
<1> DEFINE Beyond == {k \in first..last : Active(k) /\ c.end <= matches[k].start}
<1>4. u[1] = matches[first].start /\ u[2] = matches[far].end
  BY <1>2
<1>5. Active(first)
  BY <1>2 DEF Stretch
<1>6. far \in Beyond
  <2>1. ~(matches[far].end <= c.start)
    BY <1>1, <1>2, <1>4 DEF Match
  <2> QED BY <1>2, <1>3, <2>1
<1>7. first \notin Beyond
  <2>1. ~(c.end <= matches[first].start)
    BY <1>1, <1>4 DEF Match
  <2> QED BY <2>1
<1>8. PICK k \in Beyond : \A m \in Beyond : k <= m
  <2>1. Beyond \in SUBSET Nat /\ Beyond # {}
    BY <1>1, <1>2, <1>6
  <2> QED BY <2>1, LeastElement
<1>9. k \in (first + 1)..last /\ Active(k) /\ c.end <= matches[k].start
  BY <1>7, <1>8
<1>10. PICK m \in first..(k - 1) : Active(m) /\ matches[k].start < matches[m].end
  BY <1>2, <1>9 DEF Stretch, Touches
<1>11. m \in first..last /\ m \in 1..n /\ m < k /\ k \in 1..n
  BY <1>1, <1>2, <1>9, <1>10
<1>12. ~(c.end <= matches[m].start)
  BY <1>8, <1>10, <1>11
<1>13. matches[m].end <= c.start
  BY <1>3, <1>10, <1>11, <1>12
<1> QED BY <1>1, <1>9, <1>10, <1>11, <1>13 DEF Match

-----------------------------------------------------------------------------
(* A rearrangement of matches is a list of as many matches.                *)
LEMMA RearrangementTyped ==
    ASSUME NEW s \in Seq(Match), NEW r \in Rearrangements(s)
    PROVE  r \in Seq(Match) /\ Len(r) = Len(s)
<1>1. PICK p \in [DOMAIN s -> DOMAIN s] : r = [i \in DOMAIN s |-> s[p[i]]]
  BY DEF Rearrangements
<1>2. Len(s) \in Nat /\ DOMAIN s = 1..Len(s) /\ \A i \in 1..Len(s) : s[i] \in Match
  OBVIOUS
<1>3. r \in [1..Len(s) -> Match]
  BY <1>1, <1>2
<1> QED BY <1>2, <1>3

(* What the filter begins with, whoever starts it.                         *)
Fresh ==
    /\ matches \in Seq(Match) /\ states = [i \in 1..n |-> "active"]
    /\ sweep = "sort"
    /\ index = 1 /\ next = 0 /\ maxEnd = -1 /\ previous = 0
    /\ position = 1 /\ union = <<>> /\ kept = <<>>

LEMMA InitFresh == Init => Fresh
BY FilterAssumption DEF Init, Fresh

LEMMA FreshTypeOK == Fresh => TypeOK
<1> SUFFICES ASSUME Fresh PROVE TypeOK
  OBVIOUS
<1>1. matches \in Seq(Match) /\ n \in Nat
  BY DEF Fresh, n
<1>2. states \in [1..n -> MatchStates]
  BY <1>1 DEF Fresh, MatchStates
<1>3. sweep \in Sweeps
  BY DEF Fresh, Sweeps
<1> QED BY <1>1, <1>2, <1>3 DEF Fresh, TypeOK

(* What the loop variables are when a sweep begins over the same array.    *)
LEMMA BeginTyped ==
    ASSUME TypeOK, NEW name \in Sweeps, Begin(name), matches' = matches,
           states' \in [1..n -> MatchStates]
    PROVE  TypeOK'
<1>1. n' = n /\ n \in Nat
  BY Elements DEF n
<1> QED BY <1>1 DEF TypeOK, Begin

LEMMA PairOutcome ==
    ASSUME ComparePair
    PROVE  \/ Removal = "next" /\ Discard(next) /\ LookAt(index, next)
           \/ Removal = "current" /\ Discard(index) /\ next' = 0
           \/ Removal = "neither" /\ UNCHANGED states /\ LookAt(index, next)
<1> DEFINE r == Removal
<1>1. r \in {"next", "current", "neither"}
  BY DEF Removal, ByOverlap, Shorter
<1> HIDE DEF r
<1>2. CASE r = "next"
  BY <1>2 DEF ComparePair, r
<1>3. CASE r = "current"
  BY <1>3 DEF ComparePair, r
<1>4. CASE r = "neither"
  BY <1>4 DEF ComparePair, r
<1> QED BY <1>1, <1>2, <1>3, <1>4

LEMMA StepTypeOK == TypeOK /\ InnerAhead /\ [Next]_vars => TypeOK'
<1> SUFFICES ASSUME TypeOK, InnerAhead, [Next]_vars PROVE TypeOK'
  OBVIOUS
<1>0. n \in Nat /\ \A i \in 1..n : matches[i] \in Match
  BY Elements
<1>1. ASSUME matches' = matches PROVE n' = n
  BY <1>1 DEF n
<1>2. CASE Sort
  <2>1. matches' \in Seq(Match) /\ Len(matches') = Len(matches)
    BY <1>2, RearrangementTyped DEF Sort, TypeOK
  <2>2. n' = n
    BY <2>1 DEF n
  <2> QED BY <1>0, <1>2, <2>1, <2>2 DEF Sort, Begin, TypeOK, Sweeps
<1>3. ASSUME NEW discard \in MatchStates, Contained(discard) PROVE TypeOK'
  BY <1>0, <1>1, <1>3 DEF Contained, TypeOK
<1>4. CASE NotContained
  <2>1. maxEnd' \in Int
    BY <1>0, <1>4 DEF NotContained, Match, TypeOK
  <2> QED BY <1>0, <1>1, <1>4, <2>1 DEF NotContained, TypeOK
<1>5. ASSUME NEW condition, PassOver(condition) PROVE TypeOK'
  BY <1>0, <1>1, <1>5 DEF PassOver, TypeOK
<1>6. ASSUME NEW name \in Sweeps, EndSweep(name) PROVE TypeOK'
  BY <1>6, BeginTyped DEF EndSweep, TypeOK
<1>7. CASE FilterContained
  BY <1>3, <1>4, <1>5, <1>6, <1>7 DEF FilterContained, MatchStates, Sweeps
<1>8. CASE FilterContainedAgain
  BY <1>3, <1>4, <1>5, <1>6, <1>8 DEF FilterContainedAgain, MatchStates, Sweeps
<1>9. CASE FilterOverlapping
  <2>1. CASE TakeCurrent
    <3>1. next' \in 0..n
      BY <1>0, <2>1 DEF TakeCurrent, LookAt
    <3> QED BY <1>0, <1>1, <2>1, <3>1 DEF TakeCurrent, TypeOK
  <2>2. CASE ComparePair
    <3>1. index \in 1..n /\ next \in 1..n
      BY <1>0, <2>2 DEF ComparePair, TypeOK, InnerAhead
    <3>2. next' \in 0..n
      BY <1>0, <2>2, PairOutcome DEF LookAt
    <3>3. states' \in [1..n -> MatchStates]
      BY <2>2, <3>1, PairOutcome DEF Discard, TypeOK, MatchStates
    <3>4. index' \in 1..(n + 1) /\ previous' \in 0..n
      BY <1>0, <2>2, <3>1 DEF ComparePair, TypeOK
    <3> QED BY <1>0, <1>1, <2>2, <3>2, <3>3, <3>4 DEF ComparePair, TypeOK
  <2>3. CASE Begin(AfterOverlapping) /\ UNCHANGED <<matches, states>>
    <3>1. AfterOverlapping \in Sweeps
      BY DEF AfterOverlapping, AfterContained, Sweeps
    <3> QED BY <2>3, <3>1, BeginTyped DEF TypeOK
  <2> QED BY <1>5, <1>9, <2>1, <2>2, <2>3 DEF FilterOverlapping
<1>10. ASSUME NEW discarded, NEW after \in Sweeps, Restoring(discarded, after)
       PROVE  TypeOK'
  <2>1. CASE LoadUnion /\ UNCHANGED <<matches, states, sweep, index, next,
                                      maxEnd, previous, kept>>
    <3>1. position' \in 1..(n + 1)
      BY <1>0, <2>1 DEF LoadUnion, TypeOK
    <3> QED BY <1>1, <2>1, <3>1 DEF TypeOK
  <2>2. CASE Restore(discarded)
    BY <1>0, <1>1, <2>2 DEF Restore, TypeOK, MatchStates
  <2>3. CASE /\ states' = [i \in 1..n |-> IF states[i] = "restored" THEN "active"
                                                               ELSE states[i]]
             /\ Begin(after)
             /\ UNCHANGED matches
    <3>1. states' \in [1..n -> MatchStates]
      BY <2>3 DEF TypeOK, MatchStates
    <3> QED BY <2>3, <3>1, BeginTyped
  <2> QED BY <1>5, <1>10, <2>1, <2>2, <2>3 DEF Restoring
<1>11. CASE RestoreContained \/ RestoreOverlapping
  <2>1. AfterContained \in Sweeps /\ "final" \in Sweeps
    BY DEF AfterContained, Sweeps
  <2> QED BY <1>10, <1>11, <2>1 DEF RestoreContained, RestoreOverlapping
<1>12. CASE FilterFalsePositive
  <2>1. CASE /\ index <= n /\ FalsePositive(index)
             /\ states' = [states EXCEPT ![index] = "discardedFinal"]
             /\ index' = index + 1
             /\ UNCHANGED <<matches, sweep, next, maxEnd, previous, position,
                            union, kept>>
    BY <1>0, <1>1, <2>1 DEF TypeOK, MatchStates
  <2> QED BY <1>5, <1>6, <1>12, <2>1 DEF FilterFalsePositive, Sweeps
<1>13. CASE Compact
  BY <1>1, <1>13 DEF Compact, TypeOK, locals, Sweeps
<1>14. CASE Interrupted
  <2>1. matches' = <<>> /\ states' = <<>> /\ n' = 0
    BY <1>14 DEF Interrupted, n
  <2>2. states' \in [1..n' -> MatchStates]
    BY <2>1
  <2> QED BY <1>14, <2>1, <2>2 DEF Interrupted, Begin, TypeOK, Sweeps
<1>15. CASE UNCHANGED vars
  BY <1>1, <1>15 DEF vars, locals, TypeOK
<1> QED BY <1>2, <1>7, <1>8, <1>9, <1>11, <1>12, <1>13, <1>14, <1>15
        DEF Next, Step, Ended

LEMMA StepInnerAhead == TypeOK /\ InnerAhead /\ [Next]_vars => InnerAhead'
<1> SUFFICES ASSUME TypeOK, InnerAhead, [Next]_vars PROVE InnerAhead'
  OBVIOUS
<1>1. ASSUME NEW name, Begin(name) PROVE InnerAhead'
  BY <1>1 DEF Begin, InnerAhead
<1>2. CASE sweep = "overlapping" /\ (TakeCurrent \/ ComparePair)
  <2>1. n \in Nat /\ index \in Nat /\ next \in Nat
    BY Elements DEF TypeOK
  <2>2. ASSUME NEW i \in Nat, i >= index, LookAt(index, i)
        PROVE  next' = 0 \/ index < next'
    BY <2>1, <2>2 DEF LookAt, NextActive
  <2>3. CASE TakeCurrent
    <3>1. next' = 0 \/ index < next'
      BY <2>1, <2>2, <2>3 DEF TakeCurrent
    <3> QED BY <1>2, <2>3, <3>1 DEF TakeCurrent, InnerAhead
  <2>4. CASE ComparePair
    <3>1. next >= index
      BY <2>1, <2>4 DEF ComparePair, InnerAhead
    <3>2. next' = 0 \/ LookAt(index, next)
      BY <2>4, PairOutcome
    <3>3. next' = 0 \/ index < next'
      BY <2>1, <2>2, <3>1, <3>2
    <3>4. sweep' = sweep /\ (next' # 0 => index' = index)
      BY <2>4 DEF ComparePair
    <3> QED BY <1>2, <3>3, <3>4 DEF InnerAhead
  <2> QED BY <1>2, <2>3, <2>4
<1>3. ASSUME UNCHANGED next, sweep' = sweep, next = 0 PROVE InnerAhead'
  BY <1>3 DEF InnerAhead
<1>4. CASE sweep # "overlapping" /\ UNCHANGED <<next, sweep>>
  BY <1>3, <1>4 DEF InnerAhead
<1>5. CASE Sort
  BY <1>1, <1>5 DEF Sort
<1>6. CASE FilterContained \/ FilterContainedAgain
  <2>1. sweep # "overlapping"
    BY <1>6 DEF FilterContained, FilterContainedAgain
  <2>2. \/ UNCHANGED <<next, sweep>>
        \/ \E name : Begin(name)
    BY <1>6 DEF FilterContained, FilterContainedAgain, Contained,
                NotContained, PassOver, EndSweep
  <2> QED BY <1>1, <1>4, <2>1, <2>2
<1>7. CASE FilterOverlapping
  <2>1. CASE next = 0 /\ PassOver(~Active(index))
    BY <1>3, <2>1 DEF PassOver
  <2> QED BY <1>1, <1>2, <1>7, <2>1 DEF FilterOverlapping
<1>8. CASE RestoreContained \/ RestoreOverlapping
  <2>1. sweep # "overlapping"
    BY <1>8 DEF RestoreContained, RestoreOverlapping
  <2>2. \/ UNCHANGED <<next, sweep>>
        \/ \E name : Begin(name)
    BY <1>8 DEF RestoreContained, RestoreOverlapping, Restoring, Restore, PassOver
  <2> QED BY <1>1, <1>4, <2>1, <2>2
<1>9. CASE FilterFalsePositive
  <2>1. sweep # "overlapping"
    BY <1>9 DEF FilterFalsePositive
  <2>2. \/ UNCHANGED <<next, sweep>>
        \/ \E name : Begin(name)
    BY <1>9 DEF FilterFalsePositive, PassOver, EndSweep
  <2> QED BY <1>1, <1>4, <2>1, <2>2
<1>10. CASE Compact
  BY <1>10 DEF Compact, InnerAhead, locals
<1>11. CASE Interrupted
  BY <1>1, <1>11 DEF Interrupted
<1>12. CASE UNCHANGED vars
  BY <1>12 DEF vars, locals, InnerAhead
<1> QED BY <1>5, <1>6, <1>7, <1>8, <1>9, <1>10, <1>11, <1>12 DEF Next, Step, Ended

(* However it is interrupted, the filter indexes its arrays within bounds. *)
THEOREM TypeCorrect == Spec => []TypeOK
<1>1. Init => TypeOK /\ InnerAhead
  BY InitFresh, FreshTypeOK DEF Fresh, InnerAhead
<1>2. TypeOK /\ InnerAhead /\ [Next]_vars => (TypeOK /\ InnerAhead)'
  BY StepTypeOK, StepInnerAhead
<1> QED BY <1>1, <1>2, PTL DEF Spec

-----------------------------------------------------------------------------
(* Activating matches covers no match less.                                *)
LEMMA OverlappedStays ==
    ASSUME TypeOK, matches' = matches,
           \A j \in 1..n : Active(j) => states'[j] = "active",
           NEW i \in 1..n, Overlapped(i)
    PROVE  Overlapped(i)'
BY DEF Overlapped, Active, n

(* A stretch is one as long as the active matches are the same.            *)
LEMMA StretchStays ==
    ASSUME TypeOK, matches' = matches, NEW u, IsStretch(u),
           \A j \in 1..n : Active(j) <=> states'[j] = "active"
    PROVE  IsStretch(u)'
<1>1. n \in Nat /\ n' = n
  BY Elements DEF n
<1>2. PICK first \in 1..n, last \in 1..n, far \in 1..n :
        /\ first <= last /\ Stretch(first, last)
        /\ far \in first..last /\ Active(far)
        /\ \A k \in first..last : Active(k) => matches[k].end <= matches[far].end
        /\ u = <<matches[first].start, matches[far].end>>
  BY DEF IsStretch
<1>3. \A j \in 1..n : Active(j)' <=> Active(j)
  BY DEF Active
<1>4. Active(first)' /\ Active(far)'
  BY <1>2, <1>3 DEF Stretch
<1>5. ASSUME NEW k \in (first + 1)..last, Active(k)' PROVE Touches(first, k)'
  <2>1. k \in 1..n /\ Active(k)
    BY <1>1, <1>2, <1>3, <1>5
  <2>2. PICK m \in first..(k - 1) : Active(m) /\ matches[k].start < matches[m].end
    BY <1>2, <2>1 DEF Stretch, Touches
  <2>3. Active(m)'
    BY <1>1, <1>2, <1>3, <2>1, <2>2
  <2> QED BY <2>2, <2>3 DEF Touches
<1>6. Stretch(first, last)'
  BY <1>4, <1>5 DEF Stretch
<1>7. \A k \in first..last : Active(k)' => matches[k].end <= matches[far].end
  BY <1>1, <1>2, <1>3
<1> QED BY <1>1, <1>2, <1>4, <1>6, <1>7 DEF IsStretch

(* The sweeps up to the overlapping one only discard.                      *)
LEMMA EarlySweeps ==
    ASSUME IInv, TypeOK', matches' = matches,
           sweep \in {"contained", "overlapping"},
           sweep' \in {"contained", "overlapping"}, union' = <<>>,
           \A i \in 1..n : states'[i] \in Pending
    PROVE  Rest'
<1>1. n' = n
  BY DEF n
<1>2. StaysOrdered'
  BY DEF IInv, Rest, StaysOrdered
<1>3. UnionLoaded' /\ KeptSoFar' /\ NothingUncovered' /\ NoneContained'
  BY DEF UnionLoaded, KeptSoFar, NothingUncovered, NoneContained
<1>4. Covering'
  BY <1>1 DEF Covering, RestoreSweeps
<1> QED BY <1>2, <1>3, <1>4 DEF Rest

(* The next sweep finds the discarded matches it has to restore; if there  *)
(* are none, all of them overlap an active one.                            *)
LEMMA SweepBegins ==
    ASSUME IInv, TypeOK', matches' = matches, sweep \notin {"sort", "canceled"},
           NEW name, Begin(name),
           \/ name = "restoreContained"
           \/ name = "restoreOverlapping"
              /\ \A i \in 1..n : states'[i] = "discardedContained" => Overlapped(i)'
           \/ name = "final" /\ \A i \in 1..n : Overlapped(i)',
           \A i \in 1..n : states'[i] \in Pending
    PROVE  Rest'
<1>1. n' = n /\ n \in Nat
  BY Elements DEF n, IInv
<1>2. StaysOrdered'
  BY DEF IInv, Rest, StaysOrdered
<1>3. sweep' = name /\ index' = 1 /\ union' = <<>> /\ maxEnd' = -1
  BY DEF Begin
<1>4. UnionLoaded' /\ NothingUncovered' /\ NoneContained'
  BY <1>3 DEF UnionLoaded, NothingUncovered, NoneContained
<1>5. Covering'
  BY <1>1, <1>3 DEF Covering, RestoreSweeps
<1>6. KeptSoFar'
  BY <1>1, <1>3 DEF KeptSoFar, Incomparable
<1> QED BY <1>2, <1>4, <1>5, <1>6 DEF Rest

(* What AfterContained and AfterOverlapping choose is what SweepBegins     *)
(* asks for, once no match is "restored" any more.                         *)
LEMMA AllOverlapped ==
    ASSUME TypeOK, \A i \in 1..n : states[i] \in Pending,
           \A i \in 1..n : states[i] = "discardedContained" => Overlapped(i),
           \A i \in 1..n : states[i] = "discardedOverlapping" => Overlapped(i)
    PROVE  \A i \in 1..n : Overlapped(i)
<1> SUFFICES ASSUME NEW i \in 1..n PROVE Overlapped(i)
  OBVIOUS
<1>1. CASE states[i] = "active"
  BY <1>1, ActiveOverlapped DEF Active
<1> QED BY <1>1 DEF Pending

(* One iteration of a restoring sweep.                                     *)
LEMMA RestoreSweepStep ==
    ASSUME IInv, TypeOK', matches' = matches, sweep' = sweep,
           sweep \in RestoreSweeps,
           NEW discarded \in {"discardedContained", "discardedOverlapping"},
           discarded = "discardedContained" <=> sweep = "restoreContained",
           \/ index' = index /\ states' = states
           \/ /\ index \in 1..n /\ index' = index + 1
              /\ \/ /\ states' = states
                    /\ states[index] = discarded => Overlapped(index)
                 \/ /\ states[index] = discarded
                    /\ states' = [states EXCEPT ![index] = "restored"],
           union' # <<>> => IsStretch(union')
    PROVE  Rest'
<1>1. n' = n /\ n \in Nat /\ index \in 1..(n + 1)
  BY Elements DEF n, IInv, TypeOK
<1>2. StaysOrdered'
  BY DEF IInv, Rest, StaysOrdered, RestoreSweeps
<1>3. KeptSoFar' /\ NothingUncovered' /\ NoneContained'
  BY DEF KeptSoFar, NothingUncovered, NoneContained, RestoreSweeps
<1>4. states \in [1..n -> MatchStates]
  BY DEF IInv, TypeOK
<1>0. \A j \in 1..n :
          \/ states'[j] = states[j]
          \/ j = index /\ states[j] = discarded /\ states'[j] = "restored"
  <2>1. CASE states' = states
    BY <2>1
  <2>2. CASE states[index] = discarded
             /\ states' = [states EXCEPT ![index] = "restored"]
    BY <1>4, <2>2
  <2> QED BY <2>1, <2>2
<1>5. \A j \in 1..n : Active(j) <=> states'[j] = "active"
  BY <1>0 DEF Active
<1>6. UnionLoaded'
  BY <1>5, StretchStays DEF UnionLoaded, IInv
<1>7. \A j \in 1..n : Overlapped(j) => Overlapped(j)'
  BY <1>5, OverlappedStays DEF IInv
<1>8. \A j \in 1..n : states[j] \in Pending \cup {"restored"}
  BY DEF IInv, Rest, Covering
<1>9. \A j \in 1..n : states'[j] = states[j] \/ states'[j] = "restored"
  BY <1>0
<1>10. \A j \in 1..n : states'[j] \in Pending \cup {"restored"}
  BY <1>8, <1>9
<1>11. ASSUME NEW j \in 1..n, j < index', states'[j] = discarded
       PROVE  Overlapped(j)'
  <2>1. states[j] = discarded
    BY <1>9, <1>11
  <2>2. CASE j < index
    <3>1. Overlapped(j)
      BY <1>1, <2>1, <2>2 DEF IInv, Rest, Covering, RestoreSweeps
    <3> QED BY <1>7, <3>1
  <2>3. CASE ~(j < index)
    <3>1. index \in 1..n /\ j = index /\ index' = index + 1
      BY <1>1, <1>11, <2>3
    <3>2. states'[index] # "restored"
      BY <1>11, <3>1
    <3>3. states' = states /\ (states[index] = discarded => Overlapped(index))
      BY <1>1, <1>4, <3>1, <3>2
    <3> QED BY <1>7, <2>1, <3>1, <3>3
  <2> QED BY <2>2, <2>3
<1>12. ASSUME sweep = "restoreOverlapping", NEW j \in 1..n,
              states'[j] = "discardedContained"
       PROVE  Overlapped(j)'
  <2>1. Overlapped(j)
    BY <1>9, <1>12 DEF IInv, Rest, Covering
  <2> QED BY <1>7, <2>1
<1>13. Covering'
  BY <1>1, <1>10, <1>11, <1>12 DEF Covering, RestoreSweeps
<1> QED BY <1>2, <1>3, <1>6, <1>13 DEF Rest

(* The end of a restoring sweep.                                           *)
LEMMA RestoreSweepEnds ==
    ASSUME IInv, TypeOK', matches' = matches, sweep \in RestoreSweeps, index > n,
           states' = [i \in 1..n |-> IF states[i] = "restored" THEN "active"
                                                             ELSE states[i]],
           NEW name, Begin(name),
           name = IF sweep = "restoreContained" THEN AfterContained ELSE "final"
    PROVE  Rest'
<1>1. n' = n /\ n \in Nat /\ index \in 1..(n + 1)
  BY Elements DEF n, IInv, TypeOK
<1>2. states \in [1..n -> MatchStates]
  BY DEF IInv, TypeOK
<1>3. \A j \in 1..n : states[j] \in Pending \cup {"restored"}
  BY DEF IInv, Rest, Covering
<1>4. \A j \in 1..n : states'[j] \in Pending
  BY <1>3 DEF Pending
<1>5. \A j \in 1..n : Overlapped(j) => Overlapped(j)'
  BY OverlappedStays DEF IInv, Active
<1>6. \A j \in 1..n : states'[j] # "active" => states'[j] = states[j]
  OBVIOUS
<1>7. \A j \in 1..n : states'[j] = "discardedContained" => Overlapped(j)'
  BY <1>1, <1>5, <1>6 DEF IInv, Rest, Covering, RestoreSweeps
<1>8. ASSUME \A j \in 1..n : states'[j] = "discardedOverlapping" => Overlapped(j)'
      PROVE  \A j \in 1..n : Overlapped(j)'
  <2> SUFFICES ASSUME NEW j \in 1..n PROVE Overlapped(j)'
    OBVIOUS
  <2>1. CASE states'[j] = "active"
    <3>1. matches[j] \in Match
      BY Elements DEF IInv
    <3>2. Overlap(matches[j], matches[j]) > 0
      BY <3>1, OverlapPositive DEF Match
    <3> QED BY <1>1, <2>1, <3>2 DEF Active, Overlapped
  <2> QED BY <1>4, <1>7, <1>8, <2>1 DEF Pending
<1>9. CASE sweep = "restoreContained" /\ Discarded("discardedOverlapping")
  <2>1. name = "restoreOverlapping"
    BY <1>9 DEF AfterContained
  <2> QED BY <1>4, <1>7, <2>1, SweepBegins DEF RestoreSweeps
<1>10. CASE sweep = "restoreContained" /\ ~Discarded("discardedOverlapping")
  <2>1. name = "final"
    BY <1>10 DEF AfterContained
  <2>2. \A j \in 1..n : Overlapped(j)'
    BY <1>6, <1>8, <1>10 DEF Discarded
  <2> QED BY <1>4, <2>1, <2>2, SweepBegins DEF RestoreSweeps
<1>11. CASE sweep = "restoreOverlapping"
  <2>1. name = "final"
    BY <1>11
  <2>2. \A j \in 1..n : Overlapped(j)'
    BY <1>1, <1>5, <1>6, <1>8, <1>11 DEF IInv, Rest, Covering
  <2> QED BY <1>4, <2>1, <2>2, SweepBegins DEF RestoreSweeps
<1> QED BY <1>9, <1>10, <1>11 DEF RestoreSweeps

(* The last contained sweep meets a match within one it has kept: what the *)
(* discarded match overlaps, the one that reaches up to maxEnd overlaps.   *)
LEMMA FinalSweepDiscards ==
    ASSUME IInv, TypeOK', sweep = "final", Contained("discardedFinal")
    PROVE  Rest'
<1>1. n \in Nat /\ \A i \in 1..n : matches[i] \in Match
  BY Elements DEF IInv
<1>0. maxEnd \in Int /\ \A i \in 1..n : matches[i].start \in Nat /\ matches[i].end \in Nat
  BY <1>1 DEF IInv, TypeOK, Match
<1>2. /\ index \in 1..n /\ Active(index) /\ matches[index].end <= maxEnd
      /\ states' = [states EXCEPT ![index] = "discardedFinal"]
      /\ index' = index + 1 /\ sweep' = "final"
      /\ UNCHANGED <<matches, maxEnd, union>>
  BY <1>1 DEF IInv, TypeOK, Contained
<1>3. n' = n
  BY <1>2 DEF n
<1>4. \A j \in 1..n : states'[j] = "active" <=> Active(j) /\ j # index
  BY <1>2 DEF IInv, TypeOK, Active
<1>5. StaysOrdered' /\ UnionLoaded' /\ NothingUncovered' /\ NoneContained'
  BY <1>2 DEF IInv, Rest, StaysOrdered, UnionLoaded, NothingUncovered,
              NoneContained, RestoreSweeps
<1>6. PICK k \in 1..n : k < index /\ Active(k) /\ matches[k].end = maxEnd
  <2>1. maxEnd # -1
    BY <1>1, <1>2 DEF Match
  <2> QED BY <1>2, <2>1 DEF IInv, Rest, KeptSoFar
<1>7. matches[k].start <= matches[index].start
  <2>1. InOrder(matches[k], matches[index])
    BY <1>2, <1>6, SMTT(30) DEF IInv, Rest, StaysOrdered, Ordered, TypeOK, n
  <2> QED BY <1>1, <1>2, <2>1 DEF InOrder, Match
<1>8. ASSUME NEW i \in 1..n PROVE Overlapped(i)'
  <2>1. PICK j \in 1..n : Active(j) /\ Overlap(matches[i], matches[j]) > 0
    BY <1>2 DEF IInv, Rest, Covering, Overlapped
  <2>2. CASE j # index
    BY <1>2, <1>3, <1>4, <2>1, <2>2 DEF Overlapped, Active
  <2>3. CASE j = index
    <3>1. matches[i].start < matches[j].end /\ matches[j].start < matches[i].end
      BY <1>1, <2>1, OverlapPositive
    <3>2. matches[i].start < matches[k].end /\ matches[k].start < matches[i].end
      BY <1>0, <1>2, <1>6, <1>7, <2>3, <3>1
    <3>3. Overlap(matches[i], matches[k]) > 0
      BY <1>1, <3>2, OverlapPositive
    <3>4. states'[k] = "active"
      BY <1>2, <1>4, <1>6
    <3> QED BY <1>2, <1>3, <3>3, <3>4 DEF Overlapped, Active
  <2> QED BY <2>2, <2>3
<1>9. Covering'
  BY <1>2, <1>3, <1>8 DEF Covering, RestoreSweeps
<1>10. KeptSoFar'
  <2>1. \A i \in 1..n : i < index + 1 /\ states'[i] = "active" => i < index /\ Active(i)
    BY <1>2, <1>4
  <2>2. \A i \in 1..n : i < index' /\ Active(i)' => matches'[i].end <= maxEnd'
    BY <1>2, <2>1 DEF IInv, Rest, KeptSoFar, Active
  <2>3. k < index' /\ Active(k)' /\ matches'[k].end = maxEnd'
    BY <1>2, <1>4, <1>6 DEF Active
  <2>4. Incomparable(index)
    BY <1>2 DEF IInv, Rest, KeptSoFar
  <2>5. ASSUME NEW i \in 1..n, NEW j \in 1..n, i < j, j < index',
               Active(i)', Active(j)'
        PROVE  matches[i].start < matches[j].start /\ matches[i].end < matches[j].end
    <3>1. i < index /\ j < index /\ Active(i) /\ Active(j)
      BY <1>2, <2>1, <2>5 DEF Active
    <3> QED BY <2>4, <2>5, <3>1 DEF Incomparable
  <2> QED BY <1>2, <1>3, <2>2, <2>3, <2>5 DEF KeptSoFar, Incomparable
<1> QED BY <1>5, <1>9, <1>10 DEF Rest

(* It meets one that reaches beyond maxEnd: had this one the start of one  *)
(* kept before, it would have come first, being the longer.                *)
LEMMA FinalSweepKeeps ==
    ASSUME IInv, TypeOK', sweep = "final", NotContained
    PROVE  Rest'
<1>1. n \in Nat /\ \A i \in 1..n : matches[i] \in Match
  BY Elements DEF IInv
<1>0. maxEnd \in Int /\ \A i \in 1..n : matches[i].start \in Nat /\ matches[i].end \in Nat
  BY <1>1 DEF IInv, TypeOK, Match
<1>2. /\ index \in 1..n /\ Active(index) /\ matches[index].end > maxEnd
      /\ maxEnd' = matches[index].end
      /\ index' = index + 1 /\ sweep' = "final"
      /\ UNCHANGED <<matches, states, union>>
  BY <1>1 DEF IInv, TypeOK, NotContained
<1>3. n' = n /\ \A i \in 1..n : Active(i)' <=> Active(i)
  BY <1>2 DEF n, Active
<1>4. StaysOrdered' /\ UnionLoaded' /\ NothingUncovered' /\ NoneContained'
  BY <1>2 DEF IInv, Rest, StaysOrdered, UnionLoaded, NothingUncovered,
              NoneContained, RestoreSweeps
<1>5. \A i \in 1..n : Overlapped(i)'
  BY <1>2, <1>3 DEF IInv, Rest, Covering, Overlapped
<1>6. Covering'
  BY <1>2, <1>3, <1>5 DEF Covering, RestoreSweeps
<1>7. ASSUME NEW i \in 1..n, i < index, Active(i)
      PROVE  /\ matches[i].end < matches[index].end
             /\ matches[i].start < matches[index].start
  <2>1. matches[i].end <= maxEnd
    BY <1>2, <1>7 DEF IInv, Rest, KeptSoFar
  <2>2. matches[i].end < matches[index].end
    BY <1>0, <1>2, <2>1
  <2>3. InOrder(matches[i], matches[index])
    BY <1>2, <1>7, SMTT(30) DEF IInv, Rest, StaysOrdered, Ordered, TypeOK, n
  <2> QED BY <1>1, <1>2, <2>2, <2>3 DEF InOrder, Match
<1>8. Incomparable(index)
  BY <1>2 DEF IInv, Rest, KeptSoFar
<1>9. ASSUME NEW i \in 1..n, NEW j \in 1..n, i < j, j < index',
             Active(i), Active(j)
      PROVE  matches[i].start < matches[j].start /\ matches[i].end < matches[j].end
  <2>1. CASE j < index
    BY <1>8, <1>9, <2>1 DEF Incomparable
  <2>2. CASE j = index
    BY <1>7, <1>9, <2>2
  <2> QED BY <1>2, <1>9, <2>1, <2>2
<1>10. \A i \in 1..n : i < index' /\ Active(i) => matches[i].end <= maxEnd'
  <2> SUFFICES ASSUME NEW i \in 1..n, i < index', Active(i)
               PROVE  matches[i].end <= maxEnd'
    OBVIOUS
  <2>1. CASE i < index
    BY <1>1, <1>2, <1>7, <2>1 DEF Match
  <2>2. CASE i = index
    BY <1>1, <1>2, <2>2 DEF Match
  <2> QED BY <1>2, <2>1, <2>2
<1>11. index < index' /\ Active(index) /\ matches[index].end = maxEnd'
  BY <1>2
<1>12. KeptSoFar'
  BY <1>2, <1>3, <1>9, <1>10, <1>11 DEF KeptSoFar, Incomparable
<1> QED BY <1>4, <1>6, <1>12 DEF Rest

(* A sweep that passes over a match leaves all but the loop variable.      *)
LEMMA FinalSweepPasses ==
    ASSUME IInv, TypeOK', sweep = "final", index <= n, PassOver(~Active(index))
    PROVE  Rest'
<1>1. n \in Nat
  BY Elements DEF IInv
<1>2. /\ index \in 1..n /\ ~Active(index)
      /\ index' = index + 1 /\ sweep' = "final"
      /\ UNCHANGED <<matches, states, maxEnd, union>>
  BY <1>1 DEF IInv, TypeOK, PassOver
<1>3. n' = n /\ \A i \in 1..n : Active(i)' <=> Active(i)
  BY <1>2 DEF n, Active
<1>4. StaysOrdered' /\ UnionLoaded' /\ NothingUncovered' /\ NoneContained'
  BY <1>2 DEF IInv, Rest, StaysOrdered, UnionLoaded, NothingUncovered,
              NoneContained, RestoreSweeps
<1>5. \A i \in 1..n : Overlapped(i)'
  BY <1>2, <1>3 DEF IInv, Rest, Covering, Overlapped
<1>6. Covering'
  BY <1>2, <1>3, <1>5 DEF Covering, RestoreSweeps
<1>7. \A i \in 1..n : i < index' /\ Active(i) => i < index
  BY <1>2
<1>8. KeptSoFar
  BY DEF IInv, Rest
<1>9. \A i \in 1..n : i < index' /\ Active(i) => matches[i].end <= maxEnd
  BY <1>2, <1>7, <1>8 DEF KeptSoFar
<1>10. \/ maxEnd = -1
       \/ \E k \in 1..n : k < index' /\ Active(k) /\ matches[k].end = maxEnd
  BY <1>2, <1>8 DEF KeptSoFar
<1>11. Incomparable(index)
  BY <1>2, <1>8 DEF KeptSoFar
<1>12. ASSUME NEW i \in 1..n, NEW j \in 1..n, i < j, j < index',
              Active(i), Active(j)
       PROVE  matches[i].start < matches[j].start /\ matches[i].end < matches[j].end
  BY <1>7, <1>11, <1>12 DEF Incomparable
<1>13. KeptSoFar'
  BY <1>2, <1>3, <1>9, <1>10, <1>12 DEF KeptSoFar, Incomparable
<1> QED BY <1>4, <1>6, <1>13 DEF Rest

(* After the last sweep nothing but a discarding of false positives.       *)
LEMMA LateSweeps ==
    ASSUME IInv, TypeOK', matches' = matches, union' = <<>>,
           sweep' \in {"falsePositive", "compact", "done"},
           sweep \in {"falsePositive", "compact"} \/ (sweep = "final" /\ index > n),
           \A i \in 1..n : states'[i] = "active" => Active(i),
           sweep = "final" => states' = states,
           sweep' = "falsePositive" => sweep = "final" \/ index' > index
    PROVE  Rest'
<1>1. n \in Nat /\ n' = n /\ index \in 1..(n + 1)
  BY Elements DEF IInv, TypeOK, n
<1>2. StaysOrdered'
  BY DEF IInv, Rest, StaysOrdered
<1>3. UnionLoaded' /\ Covering' /\ KeptSoFar'
  BY DEF UnionLoaded, Covering, KeptSoFar, RestoreSweeps
<1>4. ASSUME NEW i \in 1..n, NEW j \in 1..n, i < j, Active(i), Active(j)
      PROVE  matches[i].start < matches[j].start /\ matches[i].end < matches[j].end
  <2>1. CASE sweep = "final"
    <3>1. Incomparable(index) /\ j < index
      BY <1>1, <2>1 DEF IInv, Rest, KeptSoFar
    <3> QED BY <1>4, <3>1 DEF Incomparable
  <2> QED BY <1>4, <2>1 DEF IInv, Rest, NoneContained
<1>5. NoneContained'
  BY <1>1, <1>4 DEF NoneContained, Active
<1>6. NothingUncovered'
  <2>1. CASE sweep = "final"
    BY <1>1, <2>1 DEF IInv, Rest, Covering, NothingUncovered, Overlapped, Active
  <2>2. CASE sweep' = "falsePositive" /\ index' > index
    BY <1>1, <2>2 DEF NothingUncovered
  <2>3. CASE sweep' # "falsePositive"
    BY <2>3 DEF NothingUncovered
  <2> QED BY <2>1, <2>2, <2>3
<1> QED BY <1>2, <1>3, <1>5, <1>6 DEF Rest

LEMMA FreshIInv == Fresh => IInv
<1> SUFFICES ASSUME Fresh PROVE IInv
  OBVIOUS
<1>1. TypeOK
  BY FreshTypeOK
<1>2. \A i \in 1..n : states[i] \in Pending
  BY DEF Fresh, Pending
<1>3. Rest
  BY <1>2 DEF Fresh, Rest, StaysOrdered, UnionLoaded, Covering, KeptSoFar,
              NothingUncovered, NoneContained, RestoreSweeps
<1> QED BY <1>1, <1>3 DEF Fresh, IInv, InnerAhead

LEMMA StepRest == IInv /\ [Next]_vars => Rest'
<1> SUFFICES ASSUME IInv, [Next]_vars PROVE Rest'
  OBVIOUS
<1>0. TypeOK /\ InnerAhead /\ TypeOK'
  BY StepTypeOK DEF IInv
<1>1. n \in Nat /\ index \in 1..(n + 1)
  BY <1>0, Elements DEF TypeOK
<1>2. ASSUME sweep \in {"sort", "contained", "overlapping"}
      PROVE  \A i \in 1..n : states[i] \in Pending
  BY <1>2 DEF IInv, Rest, Covering
<1>3. sweep \notin RestoreSweeps => union = <<>>
  BY DEF IInv, Rest, UnionLoaded
<1>4. CASE Sort
  <2>1. matches' \in Seq(Match) /\ Len(matches') = Len(matches)
    BY <1>0, <1>4, RearrangementTyped DEF Sort, TypeOK
  <2>2. n' = n
    BY <2>1 DEF n
  <2>3. StaysOrdered'
    BY <1>4 DEF Sort, StaysOrdered
  <2>4. sweep' = "contained" /\ union' = <<>> /\ states' = states
    BY <1>4 DEF Sort, Begin
  <2>5. Covering'
    BY <1>2, <1>4, <2>2, <2>4 DEF Covering, Sort, RestoreSweeps
  <2>6. UnionLoaded' /\ KeptSoFar' /\ NothingUncovered' /\ NoneContained'
    BY <2>4 DEF UnionLoaded, KeptSoFar, NothingUncovered, NoneContained
  <2> QED BY <2>3, <2>5, <2>6 DEF Rest
<1>5. CASE FilterContained
  <2>1. sweep = "contained" /\ union = <<>>
    BY <1>3, <1>5 DEF FilterContained, RestoreSweeps
  <2>2. matches' = matches /\ sweep' \in {"contained", "overlapping"} /\ union' = <<>>
    BY <1>5, <2>1 DEF FilterContained, Contained, NotContained, PassOver,
                      EndSweep, Begin
  <2>3. states' = states \/ states' = [states EXCEPT ![index] = "discardedContained"]
    BY <1>5 DEF FilterContained, Contained, NotContained, PassOver, EndSweep
  <2>4. \A i \in 1..n : states'[i] \in Pending
    BY <1>0, <1>2, <2>1, <2>3 DEF Pending, TypeOK
  <2> QED BY <1>0, <2>1, <2>2, <2>4, EarlySweeps
<1>6. CASE FilterOverlapping
  <2>1. sweep = "overlapping" /\ union = <<>>
    BY <1>3, <1>6 DEF FilterOverlapping, RestoreSweeps
  <2>2. CASE TakeCurrent \/ ComparePair \/ PassOver(~Active(index))
    <3>1. matches' = matches /\ sweep' = sweep /\ union' = union
      BY <2>2 DEF TakeCurrent, ComparePair, PassOver
    <3>2. states' = states \/ Discard(next) \/ Discard(index)
      BY <2>2, PairOutcome DEF TakeCurrent, PassOver
    <3>3. \A i \in 1..n : states'[i] \in Pending
      BY <1>0, <1>2, <2>1, <3>2 DEF Pending, TypeOK, Discard
    <3> QED BY <1>0, <2>1, <3>1, <3>3, EarlySweeps
  <2>3. CASE Begin(AfterOverlapping) /\ UNCHANGED <<matches, states>>
    <3>1. \A i \in 1..n : states'[i] \in Pending
      BY <1>2, <2>1, <2>3
    <3>2. n' = n /\ \A i \in 1..n : Overlapped(i)' <=> Overlapped(i)
      BY <2>3 DEF n, Overlapped, Active
    <3>3. CASE Discarded("discardedContained")
      BY <1>0, <2>1, <2>3, <3>1, <3>3, SweepBegins DEF AfterOverlapping
    <3>4. CASE ~Discarded("discardedContained") /\ Discarded("discardedOverlapping")
      BY <1>0, <2>1, <2>3, <3>1, <3>4, SweepBegins
         DEF AfterOverlapping, AfterContained, Discarded
    <3>5. CASE ~Discarded("discardedContained") /\ ~Discarded("discardedOverlapping")
      <4>1. \A i \in 1..n : Overlapped(i)
        BY <1>0, <1>2, <2>1, <3>5, AllOverlapped DEF Discarded
      <4>2. AfterOverlapping = "final"
        BY <3>5 DEF AfterOverlapping, AfterContained
      <4> QED BY <1>0, <2>1, <2>3, <3>1, <3>2, <4>1, <4>2, SweepBegins
    <3> QED BY <3>3, <3>4, <3>5
  <2> QED BY <1>6, <2>2, <2>3 DEF FilterOverlapping
<1>7. CASE RestoreContained \/ RestoreOverlapping
  <2> DEFINE discarded == IF sweep = "restoreContained" THEN "discardedContained"
                                                        ELSE "discardedOverlapping"
             after == IF sweep = "restoreContained" THEN AfterContained ELSE "final"
  <2>1. sweep \in RestoreSweeps /\ Restoring(discarded, after)
    BY <1>7 DEF RestoreContained, RestoreOverlapping, RestoreSweeps
  <2>2. /\ discarded \in {"discardedContained", "discardedOverlapping"}
        /\ discarded = "discardedContained" <=> sweep = "restoreContained"
        /\ after = IF sweep = "restoreContained" THEN AfterContained ELSE "final"
    OBVIOUS
  <2> HIDE DEF discarded, after
  <2>3. union # <<>> => IsStretch(union)
    BY DEF IInv, Rest, UnionLoaded
  <2>4. CASE LoadUnion /\ UNCHANGED <<matches, states, sweep, index, next,
                                      maxEnd, previous, kept>>
    <3>1. ASSUME union' # <<>> PROVE IsStretch(union')
      <4>1. PICK first \in position..n, last \in position..n, far \in position..n :
              /\ first <= last /\ Stretch(first, last)
              /\ far \in first..last /\ Active(far)
              /\ \A k \in first..last :
                    Active(k) => matches[k].end <= matches[far].end
              /\ union' = <<matches[first].start, matches[far].end>>
        BY <2>4, <3>1 DEF LoadUnion
      <4>2. first \in 1..n /\ last \in 1..n /\ far \in 1..n
        <5>1. position \in 1..(n + 1) /\ n \in Nat
          BY <1>0, <1>1 DEF TypeOK
        <5>2. \A x \in position..n : x \in 1..n
          BY <5>1
        <5> QED BY <4>1, <5>2
      <4> QED BY <4>1, <4>2 DEF IsStretch
    <3> QED BY <1>0, <2>1, <2>2, <2>4, <3>1, RestoreSweepStep
  <2>5. CASE Restore(discarded)
    <3>1. /\ index \in 1..n /\ index' = index + 1 /\ states[index] = discarded
          /\ states' = [states EXCEPT ![index] = "restored"]
          /\ UNCHANGED <<matches, sweep, union>>
      BY <1>1, <2>5 DEF Restore
    <3> QED BY <1>0, <2>1, <2>2, <2>3, <3>1, RestoreSweepStep
  <2>6. CASE /\ index <= n /\ ~Unloaded
             /\ PassOver(states[index] # discarded \/ (~Behind /\ Blocked))
    <3>1. /\ index \in 1..n /\ index' = index + 1
          /\ UNCHANGED <<matches, sweep, states, union>>
      BY <1>1, <2>6 DEF PassOver
    <3>2. ASSUME states[index] = discarded PROVE Overlapped(index)
      <4>1. ~Behind /\ Blocked
        BY <2>6, <3>2 DEF PassOver
      <4>2. union # <<>> /\ union[1] < matches[index].end
        BY <4>1 DEF Blocked
      <4>3. union[2] \in Nat /\ matches[index].start \in Nat
        BY <1>0, <2>3, <3>1, <4>2, Elements DEF IsStretch, Match
      <4>4. matches[index].start < union[2]
        BY <4>1, <4>2, <4>3 DEF Behind
      <4> QED BY <1>0, <2>3, <3>1, <4>2, <4>4, StretchBlocks
    <3> QED BY <1>0, <2>1, <2>2, <2>3, <3>1, <3>2, RestoreSweepStep
  <2>7. CASE /\ index > n
             /\ states' = [i \in 1..n |-> IF states[i] = "restored" THEN "active"
                                                               ELSE states[i]]
             /\ Begin(after)
             /\ UNCHANGED matches
    BY <1>0, <2>1, <2>2, <2>7, RestoreSweepEnds
  <2> QED BY <2>1, <2>4, <2>5, <2>6, <2>7 DEF Restoring
<1>8. CASE FilterContainedAgain
  <2>1. sweep = "final" /\ union = <<>>
    BY <1>3, <1>8 DEF FilterContainedAgain, RestoreSweeps
  <2>2. CASE EndSweep("falsePositive")
    BY <1>0, <2>1, <2>2, LateSweeps DEF EndSweep, Begin, Active
  <2> QED BY <1>0, <1>8, <2>1, <2>2, FinalSweepDiscards, FinalSweepKeeps,
             FinalSweepPasses DEF FilterContainedAgain
<1>9. CASE FilterFalsePositive
  <2>1. sweep = "falsePositive" /\ union = <<>>
    BY <1>3, <1>9 DEF FilterFalsePositive, RestoreSweeps
  <2>2. CASE EndSweep("compact")
    BY <1>0, <2>1, <2>2, LateSweeps DEF EndSweep, Begin, Active
  <2>3. CASE ~EndSweep("compact")
    <3>1. index' = index + 1 /\ sweep' = sweep /\ UNCHANGED <<matches, union>>
      BY <1>9, <2>3 DEF FilterFalsePositive, PassOver
    <3>2. states' = states \/ states' = [states EXCEPT ![index] = "discardedFinal"]
      BY <1>9, <2>3 DEF FilterFalsePositive, PassOver
    <3>3. \A i \in 1..n : states'[i] = "active" => Active(i)
      BY <1>0, <3>2 DEF TypeOK, Active
    <3>4. index' > index
      BY <1>1, <3>1
    <3> QED BY <1>0, <2>1, <3>1, <3>3, <3>4, LateSweeps
  <2> QED BY <2>2, <2>3
<1>10. CASE Compact
  <2>1. sweep = "compact" /\ sweep' = "done" /\ UNCHANGED <<matches, states, union>>
    BY <1>10 DEF Compact, locals
  <2> QED BY <1>0, <1>3, <2>1, LateSweeps DEF Active, RestoreSweeps
<1>11. CASE Interrupted
  BY <1>11 DEF Interrupted, Begin, Rest, StaysOrdered, UnionLoaded, Covering,
               KeptSoFar, NothingUncovered, NoneContained, RestoreSweeps
<1>12. CASE UNCHANGED vars
  <2>1. /\ matches' = matches /\ states' = states /\ sweep' = sweep
        /\ index' = index /\ maxEnd' = maxEnd /\ union' = union
    BY <1>12 DEF vars, locals
  <2>2. StaysOrdered /\ UnionLoaded /\ Covering /\ KeptSoFar /\ NothingUncovered /\ NoneContained
    BY DEF IInv, Rest
  <2>3. StaysOrdered' /\ NothingUncovered' /\ NoneContained'
    BY <2>1, <2>2 DEF StaysOrdered, NothingUncovered, NoneContained,
                      Overlapped, Active, n
  <2>4. UnionLoaded'
    BY <2>1, <2>2 DEF UnionLoaded, IsStretch, Stretch, Touches, Active, n
  <2>5. Covering'
    BY <2>1, <2>2 DEF Covering, Overlapped, Active, n
  <2>6. KeptSoFar'
    BY <2>1, <2>2 DEF KeptSoFar, Incomparable, Active, n
  <2> QED BY <2>3, <2>4, <2>5, <2>6 DEF Rest
<1> QED BY <1>4, <1>5, <1>6, <1>7, <1>8, <1>9, <1>10, <1>11, <1>12
        DEF Next, Step, Ended

LEMMA Inductive == Spec => []IInv
<1>1. IInv /\ [Next]_vars => IInv'
  BY StepTypeOK, StepInnerAhead, StepRest DEF IInv
<1> QED BY InitFresh, FreshIInv, <1>1, PTL DEF Spec

(* For any matches and rules: what the filter returns is free of matches   *)
(* within others, although it restores discarded ones before it ends.      *)
THEOREM ResultIncomparable == Spec => []NoneContained
<1>1. IInv => NoneContained
  BY DEF IInv, Rest
<1> QED BY <1>1, Inductive, PTL

(* For any matches and rules: when only false positives are left to be     *)
(* discarded, no candidate has been dropped that overlaps nothing kept.    *)
THEOREM Coverage == Spec => []NothingUncovered
<1>1. IInv => NothingUncovered
  BY DEF IInv, Rest
<1> QED BY <1>1, Inductive, PTL

-----------------------------------------------------------------------------
(* How far a restoring sweep is with the active matches: those before the  *)
(* stretch that is loaded end before all that is still to be looked at.    *)
Clear(j) == \A i \in 1..n : index <= i => matches[j].end <= matches[i].start

StretchAt(first, last, far, u) ==
    /\ first <= last /\ far \in first..last /\ Active(far)
    /\ \A k \in first..last : Active(k) => matches[k].end <= matches[far].end
    /\ u = <<matches[first].start, matches[far].end>>

UnionPlaced ==
    \/ union = <<>> /\ \A j \in 1..n : j < position /\ Active(j) => Clear(j)
    \/ \E first, last, far \in 1..n :
          /\ StretchAt(first, last, far, union) /\ position = last + 1
          /\ \A j \in 1..n : j < first /\ Active(j) => Clear(j)

RestoredApart == \A i \in 1..n : states[i] = "restored" => ~Overlapped(i)

RestoreInv == sweep \in RestoreSweeps => UnionPlaced /\ RestoredApart

(* The sorted array starts later and later.                                *)
LEMMA StartsOrdered ==
    ASSUME TypeOK, Ordered(matches), NEW i \in 1..n, NEW j \in 1..n, i <= j
    PROVE  /\ matches[i].start \in Nat /\ matches[j].start \in Nat
           /\ matches[i].start <= matches[j].start
<1>1. n \in Nat /\ matches[i] \in Match /\ matches[j] \in Match /\ DOMAIN matches = 1..n
  BY Elements DEF TypeOK, n
<1>2. matches[i].start \in Nat /\ matches[j].start \in Nat
  BY <1>1 DEF Match
<1>3. CASE i < j
  <2>1. InOrder(matches[i], matches[j])
    BY <1>1, <1>3 DEF Ordered
  <2> QED BY <1>2, <2>1 DEF InOrder
<1>4. CASE i = j
  BY <1>2, <1>4
<1> QED BY <1>1, <1>3, <1>4

(* Nothing that is loaded or passed meets a match that is restored.        *)
LEMMA RestoredIsApart ==
    ASSUME IInv, RestoreInv, sweep \in RestoreSweeps, index \in 1..n,
           ~Unloaded, ~Behind, ~Blocked
    PROVE  ~Overlapped(index)
<1>1. /\ TypeOK /\ Ordered(matches) /\ n \in Nat /\ position \in Nat
      /\ \A i \in 1..n : matches[i] \in Match
  BY Elements DEF IInv, Rest, StaysOrdered, RestoreSweeps, TypeOK, n
<1>2. \A i \in 1..n : matches[i].start \in Nat /\ matches[i].end \in Nat
  BY <1>1 DEF Match
<1> SUFFICES ASSUME NEW j \in 1..n, Active(j), Overlap(matches[index], matches[j]) > 0
             PROVE  FALSE
  BY DEF Overlapped
<1>3. matches[index].start < matches[j].end /\ matches[j].start < matches[index].end
  BY <1>1, OverlapPositive
<1>4. ~Clear(j)
  BY <1>2, <1>3 DEF Clear
<1>5. CASE union = <<>>
  <2>1. j < position
    BY <1>1, <1>5 DEF Unloaded
  <2> QED BY <1>4, <1>5, <2>1 DEF RestoreInv, UnionPlaced, StretchAt
<1>6. CASE union # <<>>
  <2>1. PICK first \in 1..n, last \in 1..n, far \in 1..n :
          /\ union = <<matches[first].start, matches[far].end>>
          /\ \A k \in 1..n : k < first /\ Active(k) => Clear(k)
    BY <1>6 DEF RestoreInv, UnionPlaced, StretchAt
  <2>2. ~(j < first)
    BY <1>4, <2>1
  <2>3. matches[first].start <= matches[j].start
    BY <1>1, <2>2, StartsOrdered
  <2>4. ~(matches[first].start < matches[index].end)
    BY <1>6, <2>1 DEF Blocked
  <2> QED BY <1>2, <1>3, <2>3, <2>4
<1> QED BY <1>5, <1>6

(* What a stretch leaves behind ends before the match it is left for.      *)
LEMMA LeftBehind ==
    ASSUME IInv, RestoreInv, sweep \in RestoreSweeps,
           Unloaded \/ (index \in 1..n /\ Behind)
    PROVE  \A j \in 1..n : j < position /\ Active(j) => Clear(j)
<1>1. /\ TypeOK /\ Ordered(matches) /\ n \in Nat /\ position \in Nat /\ index \in Nat
      /\ \A i \in 1..n : matches[i] \in Match
  BY Elements DEF IInv, Rest, StaysOrdered, RestoreSweeps, TypeOK, n
<1>2. \A i \in 1..n : matches[i].start \in Nat /\ matches[i].end \in Nat
  BY <1>1 DEF Match
<1>3. CASE union = <<>>
  BY <1>3 DEF RestoreInv, UnionPlaced, StretchAt
<1>4. CASE union # <<>>
  <2>1. PICK first \in 1..n, last \in 1..n, far \in 1..n :
          /\ StretchAt(first, last, far, union) /\ position = last + 1
          /\ \A j \in 1..n : j < first /\ Active(j) => Clear(j)
    BY <1>4 DEF RestoreInv, UnionPlaced
  <2>2. index \in 1..n /\ matches[far].end <= matches[index].start
    BY <1>4, <2>1 DEF Unloaded, Behind, StretchAt
  <2>3. ASSUME NEW j \in 1..n, j < position, Active(j), ~(j < first) PROVE Clear(j)
    <3>1. j \in first..last
      BY <2>1, <2>3
    <3>2. matches[j].end <= matches[far].end
      BY <2>1, <2>3, <3>1 DEF StretchAt
    <3>3. ASSUME NEW i \in 1..n, index <= i PROVE matches[j].end <= matches[i].start
      <4>1. matches[index].start <= matches[i].start
        BY <1>1, <2>2, <3>3, StartsOrdered
      <4> QED BY <1>2, <2>2, <3>2, <4>1
    <3> QED BY <3>3 DEF Clear
  <2> QED BY <2>1, <2>3
<1> QED BY <1>3, <1>4

LEMMA LoadUnionPlaced ==
    ASSUME IInv, RestoreInv, sweep \in RestoreSweeps,
           Unloaded \/ (index \in 1..n /\ Behind),
           LoadUnion, UNCHANGED <<matches, states, sweep, index>>
    PROVE  UnionPlaced'
<1>1. n \in Nat /\ n' = n /\ position \in 1..(n + 1)
  BY Elements DEF IInv, TypeOK, n
<1>2. \A j \in 1..n : j < position /\ Active(j) => Clear(j)
  BY LeftBehind
<1>3. \A j \in 1..n : (Active(j)' <=> Active(j)) /\ (Clear(j) => Clear(j)')
  BY <1>1 DEF Active, Clear
<1>4. CASE /\ \A k \in position..n : ~Active(k)
           /\ union' = <<>> /\ position' = n + 1
  <2>1. \A j \in 1..n : Active(j) => Clear(j)
    BY <1>1, <1>2, <1>4
  <2> QED BY <1>1, <1>3, <1>4, <2>1 DEF UnionPlaced
<1>5. ASSUME NEW first \in position..n, NEW last \in position..n, NEW far \in position..n,
             \A k \in position..(first - 1) : ~Active(k),
             first <= last, far \in first..last, Active(far),
             \A k \in first..last : Active(k) => matches[k].end <= matches[far].end,
             union' = <<matches[first].start, matches[far].end>>, position' = last + 1
      PROVE  UnionPlaced'
  <2>1. first \in 1..n /\ last \in 1..n /\ far \in 1..n
    BY <1>1
  <2>2. \A j \in 1..n : j < first /\ Active(j) => Clear(j)
    BY <1>1, <1>2, <1>5
  <2>3. StretchAt(first, last, far, union)'
    <3>1. Active(far)' /\ \A k \in first..last : Active(k)' => matches[k].end <= matches[far].end
      BY <1>1, <1>3, <1>5, <2>1
    <3> QED BY <1>5, <3>1 DEF StretchAt
  <2> QED BY <1>1, <1>3, <1>5, <2>1, <2>2, <2>3 DEF UnionPlaced
<1> QED BY <1>4, <1>5 DEF LoadUnion

(* The next match, restored or passed over.                                *)
LEMMA UnionStaysPlaced ==
    ASSUME IInv, UnionPlaced, UNCHANGED <<matches, union, position>>,
           index' = index + 1,
           \A j \in 1..n : Active(j)' <=> Active(j)
    PROVE  UnionPlaced'
<1>1. n \in Nat /\ n' = n /\ index \in Nat
  BY Elements DEF IInv, TypeOK, n
<1>2. \A j \in 1..n : Clear(j) => Clear(j)'
  BY <1>1 DEF Clear
<1>3. CASE union = <<>> /\ \A j \in 1..n : j < position /\ Active(j) => Clear(j)
  BY <1>1, <1>2, <1>3 DEF UnionPlaced
<1>4. ASSUME NEW first \in 1..n, NEW last \in 1..n, NEW far \in 1..n,
             StretchAt(first, last, far, union), position = last + 1,
             \A j \in 1..n : j < first /\ Active(j) => Clear(j)
      PROVE  UnionPlaced'
  <2>1. StretchAt(first, last, far, union)'
    <3>1. \A k \in first..last : k \in 1..n
      BY <1>1
    <3> QED BY <1>4, <3>1 DEF StretchAt
  <2> QED BY <1>1, <1>2, <1>4, <2>1 DEF UnionPlaced
<1> QED BY <1>3, <1>4 DEF UnionPlaced

(* A sweep that begins has nothing behind it.                              *)
LEMMA RestoreBegins ==
    ASSUME TypeOK, matches' = matches, union' = <<>>, position' = 1,
           \A i \in 1..n : states'[i] # "restored"
    PROVE  RestoreInv'
<1>1. n \in Nat /\ n' = n
  BY Elements DEF n
<1> QED BY <1>1 DEF RestoreInv, UnionPlaced, RestoredApart

LEMMA StepRestoreInv == IInv /\ RestoreInv /\ [Next]_vars => RestoreInv'
<1> SUFFICES ASSUME IInv, RestoreInv, [Next]_vars PROVE RestoreInv'
  OBVIOUS
<1>0. TypeOK /\ n \in Nat /\ index \in 1..(n + 1) /\ states \in [1..n -> MatchStates]
  BY Elements DEF IInv, TypeOK
<1>1. ASSUME sweep' \notin RestoreSweeps PROVE RestoreInv'
  BY <1>1 DEF RestoreInv
<1>2. CASE Sort \/ FilterContained \/ FilterContainedAgain \/ FilterFalsePositive
           \/ Compact \/ Interrupted
  <2>1. sweep' \in {"contained", "overlapping", "final", "falsePositive", "compact",
                    "done", "canceled"}
    BY <1>2 DEF Sort, FilterContained, FilterContainedAgain, FilterFalsePositive, Compact,
                Interrupted, Begin, EndSweep, PassOver, Contained, NotContained
  <2> QED BY <1>1, <2>1 DEF RestoreSweeps
<1>3. CASE FilterOverlapping
  <2>1. CASE TakeCurrent \/ ComparePair \/ PassOver(~Active(index))
    <3>1. sweep' = "overlapping"
      BY <1>3, <2>1 DEF FilterOverlapping, TakeCurrent, ComparePair, PassOver
    <3> QED BY <1>1, <3>1 DEF RestoreSweeps
  <2>2. CASE Begin(AfterOverlapping) /\ UNCHANGED <<matches, states>>
    <3>1. \A i \in 1..n : states[i] \in Pending
      BY <1>3 DEF FilterOverlapping, IInv, Rest, Covering
    <3>2. \A i \in 1..n : states'[i] # "restored"
      BY <2>2, <3>1 DEF Pending
    <3> QED BY <1>0, <2>2, <3>2, RestoreBegins DEF Begin
  <2> QED BY <1>3, <2>1, <2>2 DEF FilterOverlapping
<1>4. CASE RestoreContained \/ RestoreOverlapping
  <2>1. PICK discarded, after :
          /\ sweep \in RestoreSweeps /\ Restoring(discarded, after)
          /\ discarded \in {"discardedContained", "discardedOverlapping"}
    BY <1>4 DEF RestoreContained, RestoreOverlapping, RestoreSweeps
  <2>2. UnionPlaced /\ RestoredApart
    BY <2>1 DEF RestoreInv
  <2>3. CASE /\ Unloaded \/ (index <= n /\ states[index] = discarded /\ Behind)
             /\ LoadUnion
             /\ UNCHANGED <<matches, states, sweep, index, next, maxEnd, previous, kept>>
    <3>1. UnionPlaced'
      BY <1>0, <2>1, <2>3, LoadUnionPlaced
    <3>2. RestoredApart'
      BY <2>2, <2>3 DEF RestoredApart, Overlapped, Active, n
    <3> QED BY <3>1, <3>2 DEF RestoreInv
  <2>4. CASE Restore(discarded)
    <3>1. /\ index \in 1..n /\ ~Unloaded /\ ~Behind /\ ~Blocked /\ index' = index + 1
          /\ states[index] = discarded
          /\ states' = [states EXCEPT ![index] = "restored"]
          /\ UNCHANGED <<matches, sweep, union, position>>
      BY <1>0, <2>4 DEF Restore
    <3>2. ~Overlapped(index)
      BY <2>1, <3>1, RestoredIsApart
    <3>3. \A j \in 1..n : Active(j)' <=> Active(j)
      BY <1>0, <2>1, <3>1 DEF Active
    <3>4. UnionPlaced'
      BY <2>2, <3>1, <3>3, UnionStaysPlaced
    <3>5. RestoredApart'
      <4>1. \A i \in 1..n : Overlapped(i)' <=> Overlapped(i)
        BY <3>1, <3>3 DEF Overlapped, n
      <4>2. \A i \in 1..n : states'[i] = "restored" => i = index \/ states[i] = "restored"
        BY <1>0, <3>1
      <4>3. n' = n
        BY <3>1 DEF n
      <4> QED BY <2>2, <3>2, <4>1, <4>2, <4>3 DEF RestoredApart
    <3> QED BY <3>4, <3>5 DEF RestoreInv
  <2>5. CASE /\ index <= n /\ ~Unloaded
             /\ PassOver(states[index] # discarded \/ (~Behind /\ Blocked))
    <3>1. index' = index + 1 /\ UNCHANGED <<matches, states, sweep, union, position>>
      BY <2>5 DEF PassOver
    <3>2. UnionPlaced'
      BY <2>2, <3>1, UnionStaysPlaced DEF Active
    <3>3. RestoredApart'
      BY <2>2, <3>1 DEF RestoredApart, Overlapped, Active, n
    <3> QED BY <3>2, <3>3 DEF RestoreInv
  <2>6. CASE /\ states' = [i \in 1..n |-> IF states[i] = "restored" THEN "active"
                                                               ELSE states[i]]
             /\ Begin(after) /\ UNCHANGED matches
    BY <1>0, <2>6, RestoreBegins DEF Begin
  <2> QED BY <2>1, <2>3, <2>4, <2>5, <2>6 DEF Restoring
<1>5. CASE UNCHANGED vars
  BY <1>5 DEF vars, locals, RestoreInv, UnionPlaced, StretchAt, Clear, RestoredApart,
              Overlapped, Active, n
<1> QED BY <1>2, <1>3, <1>4, <1>5 DEF Next, Step, Ended

(* For any matches and rules: at every point of a restoring sweep, what it *)
(* has restored overlaps nothing that is active, and what it has passed    *)
(* over does: restoreNonOverlapping, stretch by stretch.                   *)
THEOREM Restored == Spec => []RestoredExactly
<1>1. Init => RestoreInv
  BY DEF Init, RestoreInv, RestoreSweeps
<1>2. IInv /\ RestoreInv => RestoredExactly
  BY DEF IInv, Rest, Covering, RestoreInv, RestoredApart, RestoredExactly, RestoreSweeps
<1> QED BY <1>1, <1>2, StepRestoreInv, Inductive, PTL DEF Spec

-----------------------------------------------------------------------------
(* Numbers from one to another.                                            *)
LEMMA IntervalIs ==
    ASSUME NEW a \in Int, NEW b \in Int, a <= b + 1
    PROVE  IsFiniteSet(a..b) /\ Cardinality(a..b) = b - a + 1
<1>1. IsFiniteSet(a..b) /\ Cardinality(a..b) = IF a > b THEN 0 ELSE b - a + 1
  BY FS_Interval
<1> QED BY <1>1

(* Two finite sets that share nothing.                                     *)
LEMMA DisjointUnion ==
    ASSUME NEW S, NEW T, IsFiniteSet(S), IsFiniteSet(T), S \cap T = {}
    PROVE  /\ IsFiniteSet(S \cup T)
           /\ Cardinality(S \cup T) = Cardinality(S) + Cardinality(T)
<1>1. Cardinality(S) \in Nat /\ Cardinality(T) \in Nat
  BY FS_CardinalityType
<1>2. Cardinality(S \cap T) = 0
  BY FS_EmptySet
<1>3. IsFiniteSet(S \cup T)
      /\ Cardinality(S \cup T) = Cardinality(S) + Cardinality(T) - Cardinality(S \cap T)
  BY FS_Union
<1> QED BY <1>1, <1>2, <1>3

(* The elements of S before x, in an order given by its pairs.             *)
Preceding(S, R, x) == {y \in S : <<y, x>> \in R}

StrictOrder(S, R) ==
    /\ \A x \in S : <<x, x>> \notin R
    /\ \A x, y, z \in S : <<x, y>> \in R /\ <<y, z>> \in R => <<x, z>> \in R
    /\ \A x, y \in S : x # y => <<x, y>> \in R \/ <<y, x>> \in R

(* In a finite set with a strict total order, for every number below its   *)
(* size there is one element with as many before it.                       *)
Ranked(S, R, m) ==
    /\ m \in Nat
    /\ \A x \in S : Cardinality(Preceding(S, R, x)) \in 0..(m - 1)
    /\ \A x, y \in S :
          Cardinality(Preceding(S, R, x)) = Cardinality(Preceding(S, R, y)) => x = y
    /\ \A k \in 0..(m - 1) : \E x \in S : Cardinality(Preceding(S, R, x)) = k

LEMMA RankOnto ==
    ASSUME NEW S, IsFiniteSet(S), NEW R, StrictOrder(S, R)
    PROVE  Ranked(S, R, Cardinality(S))
<1> DEFINE Before(x) == Preceding(S, R, x)
           f == [x \in S |-> Cardinality(Before(x))]
<1>1. PICK m : m = Cardinality(S)
  OBVIOUS
<1>2. m \in Nat
  BY <1>1, FS_CardinalityType
<1>3. ASSUME NEW x \in S
      PROVE  /\ IsFiniteSet(Before(x)) /\ Cardinality(Before(x)) \in Nat
             /\ Cardinality(Before(x)) \in 0..(m - 1)
  <2>1. Before(x) \in SUBSET S /\ x \notin Before(x)
    BY DEF Preceding, StrictOrder
  <2> HIDE DEF Before
  <2>2. IsFiniteSet(Before(x)) /\ Cardinality(Before(x)) <= m
    BY <1>1, <2>1, FS_Subset
  <2>3. Cardinality(Before(x)) # m
    BY <1>1, <2>1, FS_Subset
  <2>4. Cardinality(Before(x)) \in Nat
    BY <2>2, FS_CardinalityType
  <2> QED BY <1>2, <2>2, <2>3, <2>4
<1>4. ASSUME NEW x \in S, NEW y \in S, <<x, y>> \in R
      PROVE  Cardinality(Before(x)) < Cardinality(Before(y))
  <2>1. Before(x) \in SUBSET Before(y) /\ x \in Before(y) /\ x \notin Before(x)
    BY <1>4 DEF Preceding, StrictOrder
  <2> HIDE DEF Before
  <2>2. Cardinality(Before(x)) <= Cardinality(Before(y))
    BY <1>3, <2>1, FS_Subset
  <2>3. Cardinality(Before(x)) # Cardinality(Before(y))
    BY <1>3, <2>1, FS_Subset
  <2> QED BY <1>3, <2>2, <2>3
<1>5. \A x, y \in S : Cardinality(Before(x)) = Cardinality(Before(y)) => x = y
  <2> SUFFICES ASSUME NEW x \in S, NEW y \in S, x # y
               PROVE  Cardinality(Before(x)) # Cardinality(Before(y))
    OBVIOUS
  <2>1. <<x, y>> \in R \/ <<y, x>> \in R
    BY DEF StrictOrder
  <2> HIDE DEF Before
  <2> QED BY <1>3, <1>4, <2>1
<1>6. f \in Surjection(S, 0..(m - 1))
  <2>1. f \in Injection(S, 0..(m - 1))
    <3> HIDE DEF Before
    <3> QED BY <1>3, <1>5 DEF Injection, IsInjective
  <2>2. IsFiniteSet(0..(m - 1)) /\ Cardinality(0..(m - 1)) = m
    BY <1>2, FS_Interval
  <2> HIDE DEF f
  <2> QED BY <1>1, <2>1, <2>2, FS_Injection
<1>7. \A k \in 0..(m - 1) : \E x \in S : Cardinality(Before(x)) = k
  <2> HIDE DEF Before
  <2> QED BY <1>6 DEF Surjection
<1> QED BY <1>1, <1>2, <1>3, <1>5, <1>7 DEF Ranked

(* The same of the elements up to each one of a finite set of naturals.    *)
LEMMA RankInRange ==
    ASSUME NEW S \in SUBSET Nat, IsFiniteSet(S)
    PROVE  /\ Cardinality(S) \in Nat
           /\ \A i \in S : Rank(S, i) \in 1..Cardinality(S)
           /\ \A i, j \in S : Rank(S, i) = Rank(S, j) => i = j
           /\ \A k \in 1..Cardinality(S) : \E i \in S : Rank(S, i) = k
<1> DEFINE R == {p \in S \X S : p[1] < p[2]}
<1>1. StrictOrder(S, R)
  BY DEF StrictOrder
<1>2. ASSUME NEW i \in S PROVE Rank(S, i) = Cardinality(Preceding(S, R, i)) + 1
  <2>1. PICK B : B = Preceding(S, R, i)
    OBVIOUS
  <2>2. B \in SUBSET S /\ i \notin B /\ \A j \in S : j \in B <=> j < i
    BY <2>1 DEF Preceding
  <2>3. PICK U : U = {j \in S : j <= i}
    OBVIOUS
  <2>4. \A j \in S : j \in U <=> j < i \/ j = i
    BY <2>3
  <2>5. U \subseteq S
    BY <2>3
  <2>6. U = B \cup {i}
    BY <2>2, <2>4, <2>5
  <2>7. IsFiniteSet(B)
    BY <2>2, FS_Subset
  <2>8. Cardinality(U) = Cardinality(B) + 1
    BY <2>2, <2>6, <2>7, FS_AddElement
  <2> QED BY <2>1, <2>3, <2>8 DEF Rank
<1> HIDE DEF R
<1>3. PICK m : m = Cardinality(S)
  OBVIOUS
<1>4. /\ m \in Nat
      /\ \A i \in S : Cardinality(Preceding(S, R, i)) \in 0..(m - 1)
      /\ \A i, j \in S : Cardinality(Preceding(S, R, i)) = Cardinality(Preceding(S, R, j))
                            => i = j
      /\ \A k \in 0..(m - 1) : \E i \in S : Cardinality(Preceding(S, R, i)) = k
  <2>1. Ranked(S, R, m)
    BY <1>1, <1>3, RankOnto
  <2> QED BY <2>1 DEF Ranked
<1>5. \A k \in 1..m : \E i \in S : Rank(S, i) = k
  <2> SUFFICES ASSUME NEW k \in 1..m PROVE \E i \in S : Rank(S, i) = k
    OBVIOUS
  <2>1. k - 1 \in 0..(m - 1) /\ (k - 1) + 1 = k
    BY <1>4
  <2> QED BY <1>2, <1>4, <2>1
<1>6. ASSUME NEW i \in S, NEW j \in S, Rank(S, i) = Rank(S, j) PROVE i = j
  BY <1>2, <1>4, <1>6
<1>7. \A i \in S : Rank(S, i) \in 1..m
  BY <1>2, <1>4
<1> QED BY <1>3, <1>4, <1>5, <1>6, <1>7

(* Two lists, one after the other.                                         *)
LEMMA ConcatIs ==
    ASSUME NEW V, NEW s \in Seq(V), NEW t \in Seq(V)
    PROVE  /\ s \o t \in Seq(V) /\ Len(s \o t) = Len(s) + Len(t)
           /\ Range(s \o t) = Range(s) \cup Range(t)
<1>1. PICK c : c = s \o t
  OBVIOUS
<1>2. c \in Seq(V) /\ Len(c) = Len(s) + Len(t)
  BY <1>1
<1>3. /\ Len(s) \in Nat /\ Len(t) \in Nat
      /\ DOMAIN s = 1..Len(s) /\ DOMAIN t = 1..Len(t) /\ DOMAIN c = 1..(Len(s) + Len(t))
  BY <1>2
<1>4. /\ \A k \in 1..Len(s) : c[k] = s[k]
      /\ \A k \in 1..Len(t) : c[k + Len(s)] = t[k]
  BY <1>1, <1>3
<1>5. ASSUME NEW k \in DOMAIN c
      PROVE  c[k] \in {s[i] : i \in DOMAIN s} \cup {t[i] : i \in DOMAIN t}
  <2>1. CASE k <= Len(s)
    <3>1. k \in DOMAIN s
      BY <1>3, <2>1
    <3> QED BY <1>3, <1>4, <3>1
  <2>2. CASE ~(k <= Len(s))
    <3>1. k - Len(s) \in DOMAIN t /\ (k - Len(s)) + Len(s) = k
      BY <1>3, <2>2
    <3> QED BY <1>3, <1>4, <3>1
  <2> QED BY <2>1, <2>2
<1>6. ASSUME NEW k \in DOMAIN s PROVE k \in DOMAIN c /\ c[k] = s[k]
  BY <1>3, <1>4
<1>7. ASSUME NEW k \in DOMAIN t PROVE k + Len(s) \in DOMAIN c /\ c[k + Len(s)] = t[k]
  BY <1>3, <1>4
<1>8. Range(c) = Range(s) \cup Range(t)
  BY <1>5, <1>6, <1>7 DEF Range
<1> QED BY <1>1, <1>2, <1>8

(* What Selected is: a list of the elements of s at the places S, each     *)
(* after as many others as there are places before its own.                *)
LEMMA SelectedIs ==
    ASSUME NEW V, NEW s \in Seq(V), NEW S \in SUBSET (1..Len(s))
    PROVE  /\ IsFiniteSet(S) /\ Cardinality(S) \in Nat
           /\ Selected(s, S) \in Seq(V) /\ Len(Selected(s, S)) = Cardinality(S)
           /\ DOMAIN Selected(s, S) = 1..Cardinality(S)
           /\ \A k \in 1..Cardinality(S) :
                 \E i \in S : Rank(S, i) = k /\ Selected(s, S)[k] = s[i]
           /\ \A i \in S : /\ Rank(S, i) \in 1..Cardinality(S)
                           /\ Selected(s, S)[Rank(S, i)] = s[i]
<1>1. Len(s) \in Nat /\ S \in SUBSET Nat /\ \A i \in S : s[i] \in V
  OBVIOUS
<1>2. IsFiniteSet(S)
  <2>1. PICK l \in Nat : l = Len(s)
    BY <1>1
  <2>2. IsFiniteSet(1..l)
    BY FS_Interval
  <2>3. S \in SUBSET (1..l)
    BY <2>1
  <2> QED BY <2>2, <2>3, FS_Subset
<1>3. PICK m : m = Cardinality(S)
  OBVIOUS
<1>4. /\ m \in Nat
      /\ \A i \in S : Rank(S, i) \in 1..m
      /\ \A i, j \in S : Rank(S, i) = Rank(S, j) => i = j
      /\ \A k \in 1..m : \E i \in S : Rank(S, i) = k
  BY <1>1, <1>2, <1>3, RankInRange
<1> DEFINE At(k) == CHOOSE i \in S : Rank(S, i) = k
<1>5. ASSUME NEW k \in 1..m PROVE At(k) \in S /\ Rank(S, At(k)) = k
  BY <1>4
<1>6. \A i \in S : At(Rank(S, i)) = i
  BY <1>4, <1>5
<1>7. Selected(s, S) = [k \in 1..m |-> s[At(k)]]
  BY <1>3 DEF Selected
<1> HIDE DEF At
<1>8. Selected(s, S) \in [1..m -> V]
  BY <1>1, <1>5, <1>7
<1>9. Selected(s, S) \in Seq(V) /\ Len(Selected(s, S)) = m /\ DOMAIN Selected(s, S) = 1..m
  BY <1>4, <1>8
<1>10. \A k \in 1..m : At(k) \in S /\ Rank(S, At(k)) = k /\ Selected(s, S)[k] = s[At(k)]
  BY <1>5, <1>7
<1>11. \A i \in S : Selected(s, S)[Rank(S, i)] = s[i]
  BY <1>4, <1>6, <1>7
<1> QED BY <1>2, <1>3, <1>4, <1>9, <1>10, <1>11

-----------------------------------------------------------------------------
(* The words of an input, and those of one kind among them.                *)
TextOK == text \in Seq(Words)

LEMMA WordsAre ==
    ASSUME TextOK, NEW kind
    PROVE  /\ Len(text) \in Nat /\ DOMAIN text = 1..Len(text)
           /\ places \in Seq(1..Len(text)) /\ Len(places) = Len(text)
           /\ \A i \in 1..Len(text) : places[i] = i
           /\ WordsOf(kind) \in SUBSET (1..Len(text))
           /\ After(kind) \in Seq(Nat)
<1>1. Len(text) \in Nat /\ DOMAIN text = 1..Len(text)
  BY DEF TextOK
<1>2. places \in Seq(1..Len(text)) /\ Len(places) = Len(text)
  <2>1. places \in [1..Len(text) -> 1..Len(text)]
    BY <1>1 DEF places
  <2> QED BY <1>1, <2>1
<1>3. \A i \in 1..Len(text) : places[i] = i
  BY <1>1 DEF places
<1>4. WordsOf(kind) \in SUBSET (1..Len(text))
  BY <1>1 DEF WordsOf
<1>5. After(kind) \in Seq(Nat)
  <2>1. PICK dropped : dropped = PlacesOf(kind)
    OBVIOUS
  <2>2. dropped \in Seq(1..Len(text))
    BY <1>2, <1>4, <2>1, SelectedIs DEF PlacesOf
  <2>3. ASSUME NEW i \in 1..Len(text) PROVE TokensBefore(i) \in Nat
    <3> DEFINE T == {j \in 1..(i - 1) : text[j] \in Vocabulary}
    <3>1. PICK l \in Int : l = i - 1
      BY <1>1
    <3>2. T \in SUBSET (1..l) /\ IsFiniteSet(1..l)
      BY <3>1, FS_Interval
    <3> HIDE DEF T
    <3>3. IsFiniteSet(T)
      BY <3>2, FS_Subset
    <3>4. Cardinality(T) \in Nat
      BY <3>3, FS_CardinalityType
    <3> QED BY <3>4 DEF TokensBefore, T
  <2>4. After(kind) = [k \in 1..Len(dropped) |-> TokensBefore(dropped[k])]
    BY <2>1, <2>2 DEF After
  <2>5. After(kind) \in [1..Len(dropped) -> Nat]
    BY <2>2, <2>3, <2>4
  <2> QED BY <2>2, <2>5
<1> QED BY <1>1, <1>2, <1>3, <1>4, <1>5

LEMMA TokensTyped ==
    ASSUME TextOK
    PROVE  /\ ids \in Seq(Words) /\ Len(ids) \in Nat
           /\ unknownAfter \in Seq(Nat) /\ stopwordAfter \in Seq(Nat)
<1>1. ids \in Seq(Words)
  <2>1. WordsOf(Vocabulary) \in SUBSET (1..Len(text))
    BY WordsAre
  <2> QED BY <2>1, SelectedIs DEF ids, TextOK
<1> QED BY <1>1, WordsAre DEF unknownAfter, stopwordAfter

(* The occurrences that end at a token, and those that end up to it.       *)
EndingAt(p) == {m \in Occurrences : m.end = p}

EndingUpTo(p) == {m \in Occurrences : m.end <= p}

LEMMA EndingIs ==
    ASSUME TextOK, NEW p \in 1..Len(ids)
    PROVE  /\ Ending(p) \in SUBSET Rules
           /\ EndingAt(p) = {Occurrence(r, p) : r \in Ending(p)}
           /\ \A r \in Ending(p) : Occurrence(r, p) \in Match
<1>1. PICK w : w = ids
  OBVIOUS
<1>2. w \in Seq(Words) /\ Len(w) \in Nat /\ p \in 1..Len(w)
  BY <1>1, TokensTyped
<1>3. Ending(p) \in SUBSET Rules
  BY DEF Ending
<1>4. ASSUME NEW r \in Rules
      PROVE  Len(RuleTokens[r]) \in Nat /\ r \in Nat
  <2>1. RuleTokens[r] \in Seq(Vocabulary)
    BY MatchAssumption
  <2> QED BY <2>1, FilterAssumption
<1>5. ASSUME NEW r \in Ending(p)
      PROVE  /\ Occurrence(r, p) \in EndingAt(p)
             /\ Occurrence(r, p) \in Match
  <2>1. PICK l : l = Len(RuleTokens[r])
    OBVIOUS
  <2>2. r \in Rules /\ l \in 1..p /\ SubSeq(w, p - l + 1, p) = RuleTokens[r]
    BY <1>1, <2>1 DEF Ending
  <2>3. PICK m : m = [rule |-> r, start |-> p - l, end |-> p]
    OBVIOUS
  <2>4. Occurrence(r, p) = m
    BY <2>1, <2>3 DEF Occurrence
  <2>5. m \in [rule : Rules, start : 0..Len(w), end : 0..Len(w)] /\ m.start < m.end
        /\ m.rule = r /\ m.start = p - l /\ m.end = p
    BY <1>2, <2>2, <2>3
  <2>6. m \in EndingAt(p)
    BY <1>1, <2>2, <2>5 DEF EndingAt, Occurrences
  <2>7. m \in Match
    BY <1>2, <2>5 DEF Match
  <2> QED BY <2>4, <2>6, <2>7
<1>6. ASSUME NEW m \in EndingAt(p)
      PROVE  \E r \in Ending(p) : m = Occurrence(r, p)
  <2>1. /\ m \in [rule : Rules, start : 0..Len(w), end : 0..Len(w)]
        /\ m.start < m.end /\ m.end = p
        /\ SubSeq(w, m.start + 1, m.end) = RuleTokens[m.rule]
    BY <1>1 DEF EndingAt, Occurrences
  <2>2. PICK r, a : r = m.rule /\ a = m.start
    OBVIOUS
  <2>3. r \in Rules /\ a \in 0..Len(w) /\ a < p /\ SubSeq(w, a + 1, p) = RuleTokens[r]
    BY <2>1, <2>2
  <2>4. Len(SubSeq(w, a + 1, p)) = p - a
    BY <1>2, <2>3
  <2>5. Len(RuleTokens[r]) = p - a
    BY <2>3, <2>4
  <2>6. p - Len(RuleTokens[r]) + 1 = a + 1 /\ p - Len(RuleTokens[r]) = a
        /\ Len(RuleTokens[r]) \in 1..p
    BY <1>2, <2>3, <2>5
  <2>7. r \in Ending(p)
    BY <1>1, <2>3, <2>6 DEF Ending
  <2>8. m = [rule |-> r, start |-> a, end |-> p]
    BY <2>1, <2>2
  <2> QED BY <2>6, <2>7, <2>8 DEF Occurrence
<1> QED BY <1>3, <1>5, <1>6

(* The automaton's output at a token lists the occurrences that end there, *)
(* each of them once.                                                      *)
LEMMA OutputsAre ==
    ASSUME TextOK, NEW p \in 1..Len(ids)
    PROVE  /\ Outputs(p) \in Seq(Match)
           /\ Range(Outputs(p)) = EndingAt(p)
           /\ IsFiniteSet(EndingAt(p)) /\ Len(Outputs(p)) = Cardinality(EndingAt(p))
<1> DEFINE Longer(r, s) ==
               \/ Len(RuleTokens[r]) > Len(RuleTokens[s])
               \/ Len(RuleTokens[r]) = Len(RuleTokens[s]) /\ r > s
<1>1. PICK here : here = Ending(p)
  OBVIOUS
<1> DEFINE R == {q \in here \X here : Longer(q[1], q[2])}
           Before(r) == Preceding(here, R, r)
           Nth(k) == CHOOSE r \in here :
                        Cardinality({s \in here : Longer(s, r)}) = k - 1
<1>2. /\ here \in SUBSET Rules /\ IsFiniteSet(here)
      /\ EndingAt(p) = {Occurrence(r, p) : r \in here}
      /\ \A r \in here : Occurrence(r, p) \in Match
  BY <1>1, EndingIs, MatchAssumption, FS_Subset
<1>3. \A r \in here : r \in Nat /\ Len(RuleTokens[r]) \in Nat
  <2> SUFFICES ASSUME NEW r \in here PROVE r \in Nat /\ Len(RuleTokens[r]) \in Nat
    OBVIOUS
  <2>1. RuleTokens[r] \in Seq(Vocabulary)
    BY <1>2, MatchAssumption
  <2> QED BY <1>2, <2>1, FilterAssumption
<1>4. StrictOrder(here, R)
  BY <1>3 DEF StrictOrder
<1>5. \A r \in here : {s \in here : Longer(s, r)} = Before(r)
  BY DEF Preceding
<1> HIDE DEF R
<1>6. PICK m : m = Cardinality(here)
  OBVIOUS
<1>7. /\ m \in Nat
      /\ \A r \in here : Cardinality(Before(r)) \in 0..(m - 1)
      /\ \A r, s \in here : Cardinality(Before(r)) = Cardinality(Before(s)) => r = s
      /\ \A k \in 0..(m - 1) : \E r \in here : Cardinality(Before(r)) = k
  <2>1. Ranked(here, R, m)
    BY <1>2, <1>4, <1>6, RankOnto
  <2> QED BY <2>1 DEF Ranked
<1> HIDE DEF Before, Longer
<1>8. ASSUME NEW k \in 1..m PROVE Nth(k) \in here /\ Cardinality(Before(Nth(k))) = k - 1
  <2>1. k - 1 \in 0..(m - 1)
    BY <1>7
  <2> QED BY <1>5, <1>7, <2>1
<1>9. ASSUME NEW r \in here PROVE \E k \in 1..m : Nth(k) = r
  <2>1. PICK k : k = Cardinality(Before(r)) + 1
    OBVIOUS
  <2>2. k \in 1..m /\ k - 1 = Cardinality(Before(r))
    BY <1>7, <2>1
  <2>3. Nth(k) \in here /\ Cardinality(Before(Nth(k))) = Cardinality(Before(r))
    BY <1>8, <2>2
  <2> QED BY <1>7, <2>2, <2>3
<1>10. Outputs(p) = [k \in 1..m |-> Occurrence(Nth(k), p)]
  BY <1>1, <1>6 DEF Outputs, Longer
<1> HIDE DEF Nth
<1>11. Outputs(p) \in Seq(Match) /\ Len(Outputs(p)) = m /\ DOMAIN Outputs(p) = 1..m
  <2>1. Outputs(p) \in [1..m -> Match]
    BY <1>2, <1>8, <1>10
  <2> QED BY <1>7, <2>1
<1>12. Range(Outputs(p)) = EndingAt(p)
  BY <1>2, <1>8, <1>9, <1>10 DEF Range
<1>13. IsFiniteSet(EndingAt(p)) /\ Cardinality(EndingAt(p)) = m
  <2> DEFINE f == [r \in here |-> Occurrence(r, p)]
  <2>1. \A r, s \in here : Occurrence(r, p) = Occurrence(s, p) => r = s
    BY DEF Occurrence
  <2>2. f \in Bijection(here, EndingAt(p))
    BY <1>2, <2>1 DEF Bijection, Injection, Surjection, IsInjective
  <2> HIDE DEF f
  <2>3. ExistsBijection(here, EndingAt(p))
    BY <2>2 DEF ExistsBijection
  <2> QED BY <1>2, <1>6, <2>3, FS_Bijection
<1> QED BY <1>11, <1>12, <1>13

(* There are finitely many occurrences.                                    *)
LEMMA OccurrencesFinite == TextOK => IsFiniteSet(Occurrences)
<1> SUFFICES ASSUME TextOK PROVE IsFiniteSet(Occurrences)
  OBVIOUS
<1>1. PICK l : l = Len(ids)
  OBVIOUS
<1> DEFINE P == Rules \X (0..l)
           f == [m \in Occurrences |-> <<m.rule, m.end>>]
<1>2. l \in Nat
  BY <1>1, TokensTyped
<1>3. IsFiniteSet(P)
  <2>1. IsFiniteSet(Rules) /\ IsFiniteSet(0..l)
    BY <1>2, MatchAssumption, FS_Interval
  <2> QED BY <2>1, FS_Product
<1>4. ASSUME NEW m \in Occurrences
      PROVE  /\ m.rule \in Rules /\ m.end \in 0..l
             /\ m.start = m.end - Len(RuleTokens[m.rule])
             /\ m = [rule |-> m.rule, start |-> m.start, end |-> m.end]
  <2>1. /\ m \in [rule : Rules, start : 0..l, end : 0..l] /\ m.start < m.end
        /\ SubSeq(ids, m.start + 1, m.end) = RuleTokens[m.rule]
    BY <1>1 DEF Occurrences
  <2>2. PICK a, e, w : a = m.start /\ e = m.end /\ w = ids
    OBVIOUS
  <2>3. w \in Seq(Words) /\ Len(w) = l /\ a \in 0..l /\ e \in 0..l /\ a < e
    BY <1>1, <2>1, <2>2, TokensTyped
  <2>4. Len(SubSeq(w, a + 1, e)) = e - a
    BY <1>2, <2>3
  <2>5. a = e - Len(RuleTokens[m.rule])
    BY <2>1, <2>2, <2>3, <2>4
  <2> QED BY <2>1, <2>2, <2>5
<1>5. \A m, k \in Occurrences : <<m.rule, m.end>> = <<k.rule, k.end>> => m = k
  BY <1>4
<1>6. f \in Injection(Occurrences, P)
  BY <1>4, <1>5 DEF Injection, IsInjective
<1> HIDE DEF f, P
<1> QED BY <1>3, <1>6, FS_Injection

LEMMA UpToIs ==
    ASSUME TextOK, NEW p
    PROVE  /\ EndingUpTo(0) = {} /\ EndingUpTo(Len(ids)) = Occurrences
           /\ IsFiniteSet(EndingUpTo(p)) /\ Cardinality(EndingUpTo(p)) \in Nat
           /\ Cardinality(EndingUpTo(p)) <= Cardinality(Occurrences)
           /\ Cardinality(Occurrences) \in Nat
<1>1. Len(ids) \in Nat
  BY TokensTyped
<1>2. \A m \in Occurrences : m.end \in 1..Len(ids)
  BY <1>1 DEF Occurrences
<1>3. EndingUpTo(0) = {} /\ EndingUpTo(Len(ids)) = Occurrences
  BY <1>1, <1>2 DEF EndingUpTo
<1>4. EndingUpTo(p) \in SUBSET Occurrences
  BY DEF EndingUpTo
<1> QED BY <1>3, <1>4, OccurrencesFinite, FS_Subset, FS_CardinalityType

LEMMA UpToGrows ==
    ASSUME TextOK, NEW p \in 0..(Len(ids) - 1)
    PROVE  /\ p + 1 \in 1..Len(ids)
           /\ EndingUpTo(p + 1) = EndingUpTo(p) \cup EndingAt(p + 1)
           /\ Cardinality(EndingUpTo(p + 1))
                = Cardinality(EndingUpTo(p)) + Cardinality(EndingAt(p + 1))
<1>1. Len(ids) \in Nat /\ p \in Nat /\ p + 1 \in 1..Len(ids)
  BY TokensTyped
<1>2. \A m \in Occurrences : m.end \in 1..Len(ids)
  BY <1>1 DEF Occurrences
<1>3. EndingUpTo(p + 1) = EndingUpTo(p) \cup EndingAt(p + 1)
      /\ EndingUpTo(p) \cap EndingAt(p + 1) = {}
  BY <1>1, <1>2 DEF EndingUpTo, EndingAt
<1>4. IsFiniteSet(EndingUpTo(p)) /\ Cardinality(EndingUpTo(p)) \in Nat
  BY UpToIs
<1>5. IsFiniteSet(EndingAt(p + 1)) /\ Cardinality(EndingAt(p + 1)) \in Nat
  BY <1>1, OutputsAre, FS_CardinalityType
<1>6. Cardinality(EndingUpTo(p + 1))
        = Cardinality(EndingUpTo(p)) + Cardinality(EndingAt(p + 1))
  <2>1. PICK S, T : S = EndingUpTo(p) /\ T = EndingAt(p + 1)
    OBVIOUS
  <2>2. IsFiniteSet(S) /\ IsFiniteSet(T) /\ S \cap T = {}
    BY <1>3, <1>4, <1>5, <2>1
  <2>3. PICK U : U = S \cup T
    OBVIOUS
  <2>4. Cardinality(U) = Cardinality(S) + Cardinality(T)
    BY <2>2, <2>3, DisjointUnion
  <2>5. EndingUpTo(p + 1) = U
    BY <1>3, <2>1, <2>3
  <2> QED BY <2>1, <2>4, <2>5
<1> QED BY <1>1, <1>3, <1>6

-----------------------------------------------------------------------------
(* These are the occurrences that end up to a token, each of them once.    *)
Lists(candidates, p) ==
    /\ Range(candidates) = EndingUpTo(p)
    /\ Len(candidates) = Cardinality(EndingUpTo(p))

Collecting == {"start", "first", "count", "second", "omitted"}

(* How far the passes are, and what they have collected or counted.        *)
CollectInv ==
    /\ stage \in {"start", "first"} => count = 0
    /\ stage = "start" => at = 0 /\ found = <<>>
    /\ stage = "first" =>
          /\ method = "exact" /\ at \in 0..Len(ids)
          /\ Lists(found, at) /\ Len(found) < Threshold
    /\ stage = "count" =>
          /\ method = "exact" /\ at \in 0..Len(ids) /\ found = <<>>
          /\ count = Cardinality(EndingUpTo(at)) /\ count <= Limit
    /\ stage = "second" =>
          /\ method = "exact" /\ at \in 0..Len(ids)
          /\ Lists(found, at) /\ Cardinality(Occurrences) <= Limit
    /\ stage = "omitted" =>
          /\ at = 0
          /\ method = "hash" => count = 0
          /\ method = "exact" =>
                Lists(found, Len(ids)) /\ Cardinality(Occurrences) <= Limit
    /\ stage = "tooMany" => Cardinality(Occurrences) > Limit

FilterIdle == stage \in Collecting => Fresh /\ matches = <<>>

MInv ==
    /\ TextOK /\ found \in Seq(Match) /\ kept \in Seq(Match)
    /\ CollectInv /\ FilterIdle /\ IInv /\ RestoreInv

(* A list that is empty, and one to which a token's output is added.       *)
LEMMA EmptyLists ==
    ASSUME TextOK, found = <<>>
    PROVE  Lists(found, 0)
<1>1. Cardinality({}) = 0
  BY FS_EmptySet
<1>2. Range(found) = {} /\ Len(found) = 0
  BY DEF Range
<1> QED BY <1>1, <1>2, UpToIs DEF Lists

LEMMA ListsGrow ==
    ASSUME TextOK, found \in Seq(Match), NEW p \in 0..(Len(ids) - 1),
           Lists(found, p)
    PROVE  /\ found \o Outputs(p + 1) \in Seq(Match)
           /\ Lists(found \o Outputs(p + 1), p + 1)
<1>1. PICK o, more : o = Outputs(p + 1) /\ more = found \o o
  OBVIOUS
<1>2. p + 1 \in 1..Len(ids)
  BY UpToGrows
<1>3. /\ o \in Seq(Match)
      /\ Range(o) = EndingAt(p + 1)
      /\ Len(o) = Cardinality(EndingAt(p + 1))
  BY <1>1, <1>2, OutputsAre
<1>4. /\ more \in Seq(Match) /\ Len(more) = Len(found) + Len(o)
      /\ Range(more) = Range(found) \cup Range(o)
  BY <1>1, <1>3, ConcatIs
<1>5. Len(more) = Cardinality(EndingUpTo(p + 1))
  BY <1>3, <1>4, UpToGrows DEF Lists
<1>6. Range(more) = EndingUpTo(p + 1)
  BY <1>3, <1>4, UpToGrows DEF Lists
<1> QED BY <1>1, <1>4, <1>5, <1>6 DEF Lists

(* What the hash finds are occurrences too.                                *)
LEMMA HashMatchesTyped == TextOK => HashMatches \in Seq(Match)
<1> SUFFICES ASSUME TextOK PROVE HashMatches \in Seq(Match)
  OBVIOUS
<1> DEFINE ending == Outputs(Len(ids))
           same == {k \in DOMAIN ending :
                      /\ ending[k].start = 0
                      /\ Hash(RuleTokens[ending[k].rule]) = Hash(ids)}
<1>1. CASE ids = <<>>
  BY <1>1 DEF HashMatches
<1>2. CASE ids # <<>>
  <2>1. Len(ids) \in 1..Len(ids)
    BY <1>2, TokensTyped
  <2>2. ending \in Seq(Match)
    BY <2>1, OutputsAre
  <2>3. same \in SUBSET (1..Len(ending))
    BY <2>2
  <2>4. PICK picked : picked = Selected(ending, same)
    OBVIOUS
  <2>5. HashMatches = Reverse(picked)
    BY <1>2, <2>4 DEF HashMatches
  <2> HIDE DEF ending, same
  <2>6. picked \in Seq(Match)
    BY <2>2, <2>3, <2>4, SelectedIs
  <2>7. Reverse(picked) \in [1..Len(picked) -> Match]
    BY <2>6 DEF Reverse
  <2> QED BY <2>5, <2>6, <2>7
<1> QED BY <1>1, <1>2

LEMMA RemainingTyped ==
    found \in Seq(Match) => Remaining \in Seq(Match)
<1> SUFFICES ASSUME found \in Seq(Match) PROVE Remaining \in Seq(Match)
  OBVIOUS
<1> DEFINE S == {k \in DOMAIN found : Allowed(found[k])}
<1>1. S \in SUBSET (1..Len(found))
  OBVIOUS
<1> HIDE DEF S
<1>2. Selected(found, S) \in Seq(Match)
  BY <1>1, SelectedIs
<1> QED BY <1>2 DEF Remaining, S

(* What was found and counted stays what it is.                            *)
LEMMA SameText ==
    ASSUME text' = text
    PROVE  /\ ids' = ids /\ Occurrences' = Occurrences
           /\ TextOK' <=> TextOK
<1>1. ids' = ids
  BY DEF ids, WordsOf
<1> QED BY <1>1 DEF Occurrences, TextOK

LEMMA SameCollected ==
    ASSUME CollectInv, UNCHANGED <<text, method, count, found>>,
           \/ stage' = stage /\ at' = at
           \/ stage' \notin Collecting \cup {"tooMany"}
    PROVE  CollectInv'
<1> SUFFICES ASSUME stage' = stage, at' = at PROVE CollectInv'
  BY DEF CollectInv, Collecting
<1>1. Lists(found, at)' = Lists(found, at) /\ Lists(found, Len(ids))' = Lists(found, Len(ids))
  BY SameText DEF Lists, EndingUpTo
<1>2. EndingUpTo(at)' = EndingUpTo(at)
  BY SameText DEF EndingUpTo
<1> QED BY <1>1, <1>2, SameText DEF CollectInv, Collecting

LEMMA StepCollect ==
    TextOK /\ found \in Seq(Match) /\ CollectInv /\ [MNext]_mvars
        => TextOK' /\ found' \in Seq(Match) /\ CollectInv'
<1> SUFFICES ASSUME TextOK, found \in Seq(Match), CollectInv, [MNext]_mvars
             PROVE  TextOK' /\ found' \in Seq(Match) /\ CollectInv'
  OBVIOUS
<1>0. text' = text
  BY DEF MNext, MatchStep, NoTokens, ByHash, ByAutomaton, FirstPass, CountPass, SecondPass,
         EndPass, FallBack, StartFilter, FilterStep, StartLists, ListStep, Finish,
         MInterrupted, MEnded, mvars, call, ScanStep, SkipUnknown,
         SkipStopword, KnownToken, NextWord, EndScan, GroupStep, StartGroups, AddMatch,
         EndGroups, DowngradeDetection
<1>1. TextOK' /\ ids' = ids /\ Occurrences' = Occurrences /\ Len(ids) \in Nat
  BY <1>0, SameText, TokensTyped
<1>2. Threshold \in Nat /\ Limit \in Nat /\ Threshold <= Limit /\ Threshold >= 1
  BY MatchAssumption
<1>3. CASE NoTokens \/ ScanStep \/ FilterStep \/ StartLists \/ ListStep \/ GroupStep
           \/ DowngradeDetection \/ Finish \/ MInterrupted \/ MEnded \/ UNCHANGED mvars
  <2>1. /\ UNCHANGED <<text, method, count, found>>
        /\ \/ stage' = stage /\ at' = at
           \/ stage' \notin Collecting \cup {"tooMany"}
    BY <1>3 DEF NoTokens, FilterStep, StartLists, ListStep, Finish,
                MInterrupted, MEnded, mvars, call, Collecting, ScanStep, SkipUnknown,
                SkipStopword, KnownToken, NextWord, EndScan, GroupStep, StartGroups, AddMatch,
                EndGroups, DowngradeDetection
  <2> QED BY <1>1, <2>1, SameCollected
<1>4. CASE ByHash
  BY <1>1, <1>4, HashMatchesTyped DEF ByHash, CollectInv
<1>5. CASE ByAutomaton
  <2>1. found' = <<>> /\ found = <<>> /\ at' = 0 /\ count' = 0 /\ stage' = "first"
        /\ method' = "exact"
    BY <1>5 DEF ByAutomaton, CollectInv
  <2>2. Lists(found, 0)
    BY <2>1, EmptyLists
  <2> QED BY <1>1, <1>2, <2>1, <2>2 DEF CollectInv, Lists, EndingUpTo
<1>6. CASE FirstPass
  <2>1. PICK more : more = found \o Outputs(at + 1)
    OBVIOUS
  <2>2. /\ stage = "first" /\ method' = "exact" /\ count' = 0 /\ at \in 0..(Len(ids) - 1)
        /\ Lists(found, at)
    BY <1>1, <1>6 DEF FirstPass, CollectInv
  <2>3. more \in Seq(Match) /\ at + 1 \in 1..Len(ids) /\ Lists(more, at + 1)
    BY <2>1, <2>2, ListsGrow, UpToGrows
  <2>4. CASE Len(more) >= Threshold
    <3>1. stage' = "count" /\ at' = 0 /\ found' = <<>>
      BY <1>6, <2>1, <2>4 DEF FirstPass
    <3>2. EndingUpTo(0) = {} /\ Cardinality({}) = 0
      BY UpToIs, FS_EmptySet
    <3>3. EndingUpTo(at)' = {}
      BY <1>1, <3>1, <3>2 DEF EndingUpTo
    <3>4. Cardinality(EndingUpTo(at))' = 0
      BY <3>2, <3>3
    <3>5. at' \in 0..Len(ids)' /\ count' <= Limit /\ found' \in Seq(Match)
      BY <1>1, <1>2, <2>2, <3>1
    <3>6. CollectInv'
      BY <2>2, <3>1, <3>4, <3>5 DEF CollectInv
    <3> QED BY <1>1, <3>5, <3>6
  <2>5. CASE ~(Len(more) >= Threshold)
    <3>1. stage' = "first" /\ at' = at + 1 /\ found' = more
      BY <1>6, <2>1, <2>2, <2>5 DEF FirstPass
    <3>2. Len(more) < Threshold
      BY <1>2, <2>3, <2>5
    <3> QED BY <1>1, <2>2, <2>3, <3>1, <3>2 DEF CollectInv, Lists, EndingUpTo
  <2> QED BY <2>4, <2>5
<1>7. CASE CountPass
  <2>1. /\ stage = "count" /\ method' = "exact" /\ found' = <<>>
        /\ at \in 0..(Len(ids) - 1) /\ at' = at + 1
        /\ count = Cardinality(EndingUpTo(at))
        /\ count' = count + Len(Outputs(at + 1))
    BY <1>1, <1>7 DEF CountPass, CollectInv
  <2>2. at + 1 \in 1..Len(ids)
    BY <1>1, <2>1
  <2>3. count' = Cardinality(EndingUpTo(at + 1))
    BY <2>1, <2>2, OutputsAre, UpToGrows
  <2>4. count' \in Nat /\ count' <= Cardinality(Occurrences) /\ Cardinality(Occurrences) \in Nat
    BY <2>3, UpToIs
  <2>5. stage' = IF count' > Limit THEN "tooMany" ELSE "count"
    BY <1>7, <2>1 DEF CountPass
  <2> QED BY <1>1, <1>2, <2>1, <2>2, <2>3, <2>4, <2>5 DEF CollectInv, EndingUpTo
<1>8. CASE SecondPass
  <2>1. PICK more : more = found \o Outputs(at + 1)
    OBVIOUS
  <2>2. /\ stage' = "second" /\ method' = "exact" /\ at \in 0..(Len(ids) - 1)
        /\ Lists(found, at) /\ at' = at + 1 /\ found' = more
        /\ Cardinality(Occurrences) <= Limit
    BY <1>1, <1>8, <2>1 DEF SecondPass, CollectInv
  <2>3. more \in Seq(Match) /\ at + 1 \in 1..Len(ids) /\ Lists(more, at + 1)
    BY <2>1, <2>2, ListsGrow, UpToGrows
  <2> QED BY <1>1, <2>2, <2>3 DEF CollectInv, Lists, EndingUpTo
<1>9. CASE EndPass
  <2>1. /\ at = Len(ids) /\ at' = 0 /\ method' = "exact" /\ method = "exact"
        /\ UNCHANGED <<found, count>>
        /\ EndingUpTo(at) = Occurrences
    BY <1>9, UpToIs DEF EndPass, CollectInv
  <2>2. CASE stage = "count"
    <3>1. stage' = "second" /\ found = <<>> /\ Cardinality(Occurrences) <= Limit
      BY <1>9, <2>1, <2>2 DEF EndPass, CollectInv
    <3>2. Lists(found, 0)
      BY <3>1, EmptyLists
    <3> QED BY <1>1, <2>1, <3>1, <3>2 DEF CollectInv, Lists, EndingUpTo
  <2>3. CASE stage \in {"first", "second"}
    <3>1. stage' = "omitted" /\ Lists(found, Len(ids))
      BY <1>9, <2>1, <2>3 DEF EndPass, CollectInv
    <3>2. Len(found) = Cardinality(Occurrences) /\ Len(found) \in Nat
      BY <2>1, <3>1 DEF Lists
    <3>3. Cardinality(Occurrences) <= Limit
      BY <1>2, <2>3, <3>2 DEF CollectInv
    <3> QED BY <1>1, <2>1, <3>1, <3>3 DEF CollectInv, Lists, EndingUpTo
  <2> QED BY <1>9, <2>2, <2>3 DEF EndPass
<1>10. CASE FallBack
  <2>1. found' = <<>> /\ at' = 0 /\ count' = 0 /\ stage' = "first" /\ method' = "exact"
    BY <1>10 DEF FallBack, CollectInv
  <2>2. EndingUpTo(0) = {} /\ Cardinality({}) = 0
    BY UpToIs, FS_EmptySet
  <2>3. Range(found') = {} /\ Len(found') = 0
    BY <2>1 DEF Range
  <2>4. Lists(found, at)'
    BY <1>1, <2>1, <2>2, <2>3 DEF Lists, EndingUpTo
  <2>5. CollectInv'
    BY <1>1, <1>2, <2>1, <2>4 DEF CollectInv
  <2> QED BY <1>1, <2>1, <2>5
<1>11. CASE StartFilter
  <2>1. found' \in Seq(Match) /\ stage' \in {"offsets", "filter"}
    BY <1>11, RemainingTyped DEF StartFilter
  <2> QED BY <1>1, <2>1 DEF CollectInv
<1> QED BY <1>3, <1>4, <1>5, <1>6, <1>7, <1>8, <1>9, <1>10, <1>11 DEF MNext, MatchStep

(* What the filter returns are matches.                                    *)
LEMMA StepKept ==
    TypeOK /\ kept \in Seq(Match) /\ [Next]_vars => kept' \in Seq(Match)
<1> SUFFICES ASSUME TypeOK, kept \in Seq(Match), [Next]_vars
             PROVE  kept' \in Seq(Match)
  OBVIOUS
<1>1. CASE Compact
  <2>1. PICK S : S = {i \in 1..n : Active(i)}
    OBVIOUS
  <2>2. matches \in Seq(Match) /\ S \in SUBSET (1..Len(matches))
    BY <2>1 DEF TypeOK, n
  <2>3. PICK s : s = Selected(matches, S)
    OBVIOUS
  <2>4. s \in Seq(Match)
    BY <2>2, <2>3, SelectedIs
  <2>5. kept' \in Rearrangements(s)
    BY <1>1, <2>1, <2>3 DEF Compact, Compacted
  <2> QED BY <2>4, <2>5, RearrangementTyped
<1>2. CASE Sort \/ FilterContained \/ FilterContainedAgain \/ Interrupted \/ FilterFalsePositive
  BY <1>2 DEF Sort, FilterContained, FilterContainedAgain, FilterFalsePositive, Interrupted,
              Begin, EndSweep, PassOver, Contained, NotContained
<1>3. CASE FilterOverlapping
  BY <1>3 DEF FilterOverlapping, TakeCurrent, ComparePair, PassOver, Begin
<1>4. CASE RestoreContained \/ RestoreOverlapping
  BY <1>4 DEF RestoreContained, RestoreOverlapping, Restoring, Restore, PassOver, Begin
<1>5. CASE UNCHANGED vars
  BY <1>5 DEF vars
<1> QED BY <1>1, <1>2, <1>3, <1>4, <1>5 DEF Next, Step, Ended

LEMMA FreshNext == Fresh' => IInv'
BY FreshIInv, PTL

LEMMA FilterBegins ==
    ASSUME found \in Seq(Match), FilterIdle, StartFilter
    PROVE  Fresh'
<1>1. Fresh /\ matches' = Remaining /\ states' = [i \in DOMAIN Remaining |-> "active"]
      /\ UNCHANGED <<sweep, locals, kept>>
  BY DEF FilterIdle, StartFilter, Collecting
<1>2. Remaining \in Seq(Match)
  BY RemainingTyped
<1>3. matches' \in Seq(Match) /\ states' = [i \in 1..n' |-> "active"]
  BY <1>1, <1>2 DEF n
<1> QED BY <1>1, <1>3 DEF Fresh, locals

(* The matcher runs the filter as ExactMatchFilter says it runs, on the    *)
(* candidates that are left, and otherwise leaves it alone.                *)
LEMMA FilterSteps ==
    ASSUME [MNext]_mvars, ~StartFilter
    PROVE  [Next]_vars
BY DEF MNext, MatchStep, NoTokens, ByHash, ByAutomaton, FirstPass, CountPass, SecondPass,
       EndPass, FallBack, FilterStep, StartLists, ListStep, Finish,
       MInterrupted, MEnded, mvars, Next, ScanStep, SkipUnknown,
       SkipStopword, KnownToken, NextWord, EndScan, GroupStep, StartGroups, AddMatch,
       EndGroups, DowngradeDetection

LEMMA StepFilterInv == MInv /\ [MNext]_mvars => MInv'
<1> SUFFICES ASSUME MInv, [MNext]_mvars PROVE MInv'
  OBVIOUS
<1>1. TextOK' /\ found' \in Seq(Match) /\ CollectInv'
  BY StepCollect DEF MInv
<1>2. FilterIdle'
  <2>1. CASE stage' \in Collecting
    <3>1. stage \in Collecting /\ UNCHANGED vars
      BY <2>1 DEF MNext, MatchStep, NoTokens, ByHash, ByAutomaton, FirstPass, CountPass,
                  SecondPass, EndPass, FallBack, StartFilter, FilterStep, StartLists,
                  ListStep, Finish, MInterrupted, MEnded, mvars, call, Collecting,
                  ScanStep, SkipUnknown,
                  SkipStopword, KnownToken, NextWord, EndScan, GroupStep, StartGroups, AddMatch,
                  EndGroups, DowngradeDetection
    <3>2. Fresh /\ matches = <<>>
      BY <3>1 DEF MInv, FilterIdle
    <3> QED BY <3>1, <3>2 DEF FilterIdle, Fresh, vars, locals, n
  <2>2. CASE stage' \notin Collecting
    BY <2>2 DEF FilterIdle
  <2> QED BY <2>1, <2>2
<1>3. CASE StartFilter
  <2>1. Fresh'
    BY <1>3, FilterBegins DEF MInv
  <2>2. IInv' /\ RestoreInv'
    BY <2>1, FreshNext DEF Fresh, RestoreInv, RestoreSweeps
  <2>3. kept' \in Seq(Match)
    BY <2>1 DEF Fresh
  <2> QED BY <1>1, <1>2, <2>2, <2>3 DEF MInv
<1>4. CASE ~StartFilter
  <2>1. [Next]_vars
    BY <1>4, FilterSteps
  <2>2. IInv' /\ RestoreInv' /\ kept' \in Seq(Match)
    BY <2>1, StepTypeOK, StepInnerAhead, StepRest, StepRestoreInv, StepKept DEF MInv, IInv
  <2> QED BY <1>1, <1>2, <2>2 DEF MInv
<1> QED BY <1>3, <1>4

LEMMA MInitMInv == MInit => MInv
<1> SUFFICES ASSUME MInit PROVE MInv
  OBVIOUS
<1>1. TextOK
  BY MatchAssumption DEF MInit, TextOK
<1>2. Fresh /\ matches = <<>>
  BY DEF MInit, Fresh, n
<1>3. CollectInv
  BY DEF MInit, CollectInv
<1>4. IInv /\ RestoreInv /\ FilterIdle
  BY <1>2, FreshIInv DEF FilterIdle, RestoreInv, RestoreSweeps, Fresh
<1> QED BY <1>1, <1>3, <1>4 DEF MInit, MInv

LEMMA MInductive == MSpec => []MInv
BY MInitMInv, StepFilterInv, PTL DEF MSpec

(* For any input and rules: the candidates of the automaton are all the    *)
(* occurrences of rules, each of them once, whether one pass finds them or *)
(* three do, and the call is given up only when there are more than the    *)
(* limit.                                                                  *)
THEOREM Collection == MSpec => []CollectionExact
<1>1. MInv => CollectionExact
  <2> SUFFICES ASSUME MInv PROVE CollectionExact
    OBVIOUS
  <2>1. EndingUpTo(Len(ids)) = Occurrences
    BY UpToIs DEF MInv
  <2> QED BY <2>1 DEF MInv, CollectInv, CollectionExact, Lists, Range
<1> QED BY <1>1, MInductive, PTL

(* For any input and rules: what the filter guarantees by itself it also   *)
(* guarantees when the matcher runs it on the candidates it has left.      *)
THEOREM FilterWithin ==
    MSpec => [](NoneContained /\ NothingUncovered /\ RestoredExactly)
<1>1. MInv => NoneContained /\ NothingUncovered /\ RestoredExactly
  BY DEF MInv, IInv, Rest, Covering, RestoreInv, RestoredApart, RestoredExactly,
         RestoreSweeps
<1> QED BY <1>1, MInductive, PTL

-----------------------------------------------------------------------------
(* The list filter.  The matches it is given, and the words dropped.       *)
ListMatch == {Listable(m) : m \in Match}

ListInput ==
    /\ input.matches \in Seq(ListMatch)
    /\ input.dropped \in Seq(Nat)

(* A group cannot go on to the left of g.                                  *)
Broken(g) == g = 1 \/ ~L!Linked(g - 1, g)

(* What of the matches before e is to be kept, and that an array has it,   *)
(* in order, in its first places.                                          *)
LeftBefore(e) == {i \in 1..(e - 1) : ~L!InList(i)}

Recorded(a, len, e) ==
    /\ len = Cardinality(LeftBefore(e))
    /\ \A i \in LeftBefore(e) : a[Rank(LeftBefore(e), i)] = input.matches[i]

(* The first match that is yet to be decided on.                           *)
Opened == IF groupStart = 0 THEN listIndex ELSE groupStart

ListInv ==
    /\ listPc = "loop" =>
          /\ ListInput
          /\ array \in Seq(ListMatch) /\ Len(array) = L!n
          /\ listIndex \in 1..(L!n + 1) /\ groupStart \in 0..(listIndex - 1)
          /\ groupStart # 0 =>
                /\ L!Linked(groupStart, listIndex - 1)
                /\ listPrevious = input.matches[listIndex - 1]
          /\ Broken(Opened)
          /\ Recorded(array, length, Opened)
          /\ \A i \in Opened..L!n : array[i] = input.matches[i]
    /\ listPc = "filtered" =>
          /\ ListInput
          /\ array \in Seq(ListMatch) /\ Len(array) = L!n
          /\ Recorded(array, length, L!n + 1)

(* Cardinality is the same for the instance.                               *)
LEMMA SameCardinality == \A S : L!Cardinality(S) = Cardinality(S)
BY DEF L!Cardinality, Cardinality

LEMMA ListTyped ==
    ASSUME ListInput
    PROVE  /\ L!n \in Nat /\ DOMAIN input.matches = 1..L!n
           /\ \A i \in 1..L!n : input.matches[i].start \in Nat
                                 /\ input.matches[i].end \in Nat
           /\ \A i \in 1..L!n : input.matches[i] \in ListMatch
           /\ \A t : L!DroppedBefore(t) \in Nat
<1>1. L!n \in Nat /\ DOMAIN input.matches = 1..L!n
      /\ \A i \in 1..L!n : input.matches[i] \in ListMatch
  BY DEF ListInput, L!n
<1>2. \A m \in ListMatch : m.start \in Nat /\ m.end \in Nat
  BY DEF ListMatch, Listable, Match
<1>3. ASSUME NEW t PROVE L!DroppedBefore(t) \in Nat
  <2>1. PICK l \in Nat : l = Len(input.dropped) /\ DOMAIN input.dropped = 1..l
    BY DEF ListInput
  <2> DEFINE T == {k \in DOMAIN input.dropped : input.dropped[k] < t}
  <2>2. T \in SUBSET (1..l) /\ IsFiniteSet(1..l)
    BY <2>1, FS_Interval
  <2>3. Cardinality(T) \in Nat
    <3> HIDE DEF T
    <3>1. IsFiniteSet(T)
      BY <2>2, FS_Subset
    <3> QED BY <3>1, FS_CardinalityType
  <2> QED BY <2>3, SameCardinality DEF L!DroppedBefore
<1> QED BY <1>1, <1>2, <1>3

LEMMA DistanceTyped ==
    ASSUME ListInput, NEW i \in 1..L!n, NEW j \in 1..L!n
    PROVE  L!Distance(input.matches[i], input.matches[j]) \in Int
<1>1. PICK a, b : a = input.matches[i].end /\ b = input.matches[j].start
  OBVIOUS
<1>2. PICK d, f : d = L!DroppedBefore(b + 1) /\ f = L!DroppedBefore(a)
  OBVIOUS
<1>3. a \in Nat /\ b \in Nat /\ d \in Nat /\ f \in Nat
  BY <1>1, <1>2, ListTyped
<1>4. L!Distance(input.matches[i], input.matches[j]) = b - a + 1 + d - f
  BY <1>1, <1>2 DEF L!Distance
<1> QED BY <1>3, <1>4

(* Series of close matches: a part of one is one, and two that share a     *)
(* match make one.                                                         *)
LEMMA LinkedPart ==
    ASSUME NEW i \in Int, NEW j \in Int, NEW a \in Int, NEW b \in Int,
           L!Linked(i, j), i <= a, b <= j
    PROVE  L!Linked(a, b)
BY DEF L!Linked

LEMMA LinkedJoined ==
    ASSUME NEW i \in Int, NEW j \in Int, NEW k \in Int,
           L!Linked(i, j), L!Linked(j, k), i <= j, j <= k
    PROVE  L!Linked(i, k)
<1>1. \A m \in i..k : L!Candidate(input.matches[m])
  <2> SUFFICES ASSUME NEW m \in i..k PROVE L!Candidate(input.matches[m])
    OBVIOUS
  <2>1. m \in i..j \/ m \in j..k
    OBVIOUS
  <2> QED BY <2>1 DEF L!Linked
<1>2. \A m \in i..(k - 1) :
         L!Distance(input.matches[m], input.matches[m + 1]) <= MaxDistance
  <2> SUFFICES ASSUME NEW m \in i..(k - 1)
               PROVE  L!Distance(input.matches[m], input.matches[m + 1]) <= MaxDistance
    OBVIOUS
  <2>1. m \in i..(j - 1) \/ m \in j..(k - 1)
    OBVIOUS
  <2> QED BY <2>1 DEF L!Linked
<1> QED BY <1>1, <1>2 DEF L!Linked

(* A group that goes on neither to the left nor to the right decides what  *)
(* becomes of all its matches.                                             *)
LEMMA GroupDecides ==
    ASSUME ListInput, NEW g \in 1..L!n, NEW h \in g..L!n, L!Linked(g, h),
           Broken(g), h = L!n \/ ~L!Linked(h, h + 1),
           NEW i \in g..h
    PROVE  L!InList(i) <=> L!IsList(SubSeq(input.matches, g, h))
<1>0. L!n \in Nat
  BY ListTyped
<1>1. g = 1 \/ ~L!Linked(g - 1, h)
  BY <1>0, LinkedPart DEF Broken
<1>2. h = L!n \/ ~L!Linked(g, h + 1)
  BY <1>0, LinkedPart
<1>3. ASSUME L!IsList(SubSeq(input.matches, g, h)) PROVE L!InList(i)
  BY <1>0, <1>1, <1>2, <1>3 DEF L!InList
<1>4. ASSUME NEW first \in 1..i, NEW last \in i..L!n, L!Linked(first, last),
             first = 1 \/ ~L!Linked(first - 1, last),
             last = L!n \/ ~L!Linked(first, last + 1)
      PROVE  first = g /\ last = h
  <2>0. first \in Int /\ last \in Int /\ g \in Int /\ h \in Int /\ i \in Int
        /\ first <= i /\ i <= last /\ g <= i /\ i <= h
    BY <1>0
  <2>1. ~(first < g)
    <3> SUFFICES ASSUME first < g PROVE FALSE
      OBVIOUS
    <3>1. first <= g - 1 /\ g <= last /\ g # 1 /\ g - 1 \in Int
      BY <1>0, <2>0
    <3>2. L!Linked(g - 1, g)
      BY <1>4, <2>0, <3>1, LinkedPart
    <3> QED BY <3>1, <3>2 DEF Broken
  <2>2. ~(g < first)
    <3> SUFFICES ASSUME g < first PROVE FALSE
      OBVIOUS
    <3>1. first - 1 \in Int /\ g <= first - 1 /\ first - 1 <= i /\ first # 1
      BY <1>0, <2>0
    <3>2. L!Linked(first - 1, i)
      BY <2>0, <3>1, LinkedPart
    <3>3. L!Linked(i, last)
      BY <1>4, <2>0, LinkedPart
    <3>4. L!Linked(first - 1, last)
      BY <2>0, <3>1, <3>2, <3>3, LinkedJoined
    <3> QED BY <1>4, <3>1, <3>4
  <2>3. ~(h < last)
    <3> SUFFICES ASSUME h < last PROVE FALSE
      OBVIOUS
    <3>1. h + 1 \in Int /\ h + 1 <= last /\ first <= h /\ h # L!n
      BY <1>0, <2>0
    <3>2. L!Linked(h, h + 1)
      BY <1>4, <2>0, <3>1, LinkedPart
    <3> QED BY <3>1, <3>2
  <2>4. ~(last < h)
    <3> SUFFICES ASSUME last < h PROVE FALSE
      OBVIOUS
    <3>1. last + 1 \in Int /\ last + 1 <= h /\ i <= last + 1 /\ last # L!n
      BY <1>0, <2>0
    <3>2. L!Linked(i, last + 1)
      BY <2>0, <3>1, LinkedPart
    <3>3. L!Linked(first, i)
      BY <1>4, <2>0, LinkedPart
    <3>4. L!Linked(first, last + 1)
      BY <2>0, <3>1, <3>2, <3>3, LinkedJoined
    <3> QED BY <1>4, <3>1, <3>4
  <2> QED BY <2>0, <2>1, <2>2, <2>3, <2>4
<1>5. ASSUME L!InList(i) PROVE L!IsList(SubSeq(input.matches, g, h))
  BY <1>4, <1>5 DEF L!InList
<1> QED BY <1>3, <1>5

(* When a stretch of numbers is added behind a set, the ranks of its       *)
(* elements stay what they are, and those of the stretch come after.       *)
RanksBehind(S, T, m, b, e) ==
    /\ m \in 0..(b - 1) /\ Cardinality(T) = m + (e - b)
    /\ \A i \in S : Rank(T, i) = Rank(S, i) /\ Rank(S, i) \in 1..m
    /\ \A i \in b..(e - 1) : Rank(T, i) = m + (i - b + 1)

LEMMA RankBehind ==
    ASSUME NEW b \in Nat, 1 <= b, NEW e \in Nat, b <= e,
           NEW S \in SUBSET (1..(b - 1)), NEW T, T = S \cup (b..(e - 1))
    PROVE  RanksBehind(S, T, Cardinality(S), b, e)
<1>1. IsFiniteSet(S) /\ Cardinality(S) \in Nat /\ Cardinality(S) <= b - 1
  <2>1. PICK l \in Nat : l = b - 1
    OBVIOUS
  <2>2. IsFiniteSet(1..l) /\ Cardinality(1..l) = l
    BY IntervalIs
  <2>3. S \in SUBSET (1..l)
    BY <2>1
  <2> QED BY <2>1, <2>2, <2>3, FS_Subset, FS_CardinalityType
<1>2. \A j \in S : j \in Nat /\ j < b
  OBVIOUS
<1>3. ASSUME NEW i \in S PROVE Rank(T, i) = Rank(S, i) /\ Rank(S, i) \in 1..Cardinality(S)
  <2>1. PICK U : U = {j \in S : j <= i}
    OBVIOUS
  <2>2. \A j : j \in U <=> j \in T /\ j <= i
    BY <1>2, <2>1
  <2>3. U = {j \in T : j <= i}
    BY <2>2
  <2>4. S \in SUBSET Nat
    BY <1>2
  <2>5. Rank(S, i) \in 1..Cardinality(S)
    BY <1>1, <2>4, RankInRange
  <2> QED BY <2>1, <2>3, <2>5 DEF Rank
<1>4. ASSUME NEW h \in Int, b <= h + 1
      PROVE  /\ S \cap (b..h) = {}
             /\ Cardinality(S \cup (b..h)) = Cardinality(S) + (h - b + 1)
  <2>1. PICK D : D = b..h
    OBVIOUS
  <2>2. IsFiniteSet(D) /\ Cardinality(D) = h - b + 1
    BY <1>4, <2>1, IntervalIs
  <2>3. S \cap D = {}
    BY <1>2, <2>1
  <2>4. Cardinality(S \cup D) = Cardinality(S) + Cardinality(D)
    BY <1>1, <2>2, <2>3, DisjointUnion
  <2> QED BY <2>1, <2>2, <2>3, <2>4
<1>5. ASSUME NEW i \in b..(e - 1) PROVE Rank(T, i) = Cardinality(S) + (i - b + 1)
  <2>1. PICK U : U = {j \in T : j <= i}
    OBVIOUS
  <2>2. \A j \in S : j <= i
    BY <1>2
  <2>3. \A j \in b..(e - 1) : j <= i <=> j \in b..i
    OBVIOUS
  <2>4. \A j \in b..i : j \in b..(e - 1)
    OBVIOUS
  <2>5. U = S \cup (b..i)
    BY <2>1, <2>2, <2>3, <2>4
  <2>6. Cardinality(U) = Cardinality(S) + (i - b + 1)
    BY <1>4, <2>5
  <2> QED BY <2>1, <2>6 DEF Rank
<1>6. Cardinality(T) = Cardinality(S) + (e - b)
  <2>1. e - 1 \in Int /\ b <= (e - 1) + 1 /\ (e - 1) - b + 1 = e - b
    OBVIOUS
  <2> QED BY <1>4, <2>1
<1>7. PICK m : m = Cardinality(S)
  OBVIOUS
<1>8. m \in 0..(b - 1) /\ Cardinality(T) = m + (e - b)
  BY <1>1, <1>6, <1>7
<1>9. \A i \in S : Rank(T, i) = Rank(S, i) /\ Rank(S, i) \in 1..m
  BY <1>3, <1>7
<1>10. \A i \in b..(e - 1) : Rank(T, i) = m + (i - b + 1)
  BY <1>5, <1>7
<1> QED BY <1>7, <1>8, <1>9, <1>10 DEF RanksBehind

(* What is kept of a stretch of matches that are of no list goes behind    *)
(* what has been kept.                                                     *)
Rewritten(a, w, len, b, e) ==
    /\ len \in 0..(b - 1)
    /\ w \in Seq(ListMatch) /\ Len(w) = L!n
    /\ \A i \in e..L!n : w[i] = a[i]
    /\ Recorded(w, len + (e - b), e)

LEMMA RecordedGrows ==
    ASSUME ListInput, NEW a \in Seq(ListMatch), Len(a) = L!n, NEW len,
           NEW b \in 1..(L!n + 1), NEW e \in b..(L!n + 1),
           Recorded(a, len, b),
           \A i \in b..(e - 1) : ~L!InList(i),
           NEW more \in Seq(ListMatch), Len(more) = e - b,
           \A k \in 1..(e - b) : more[k] = input.matches[b + k - 1]
    PROVE  Rewritten(a, L!Written(a, len, more), len, b, e)
<1>1. PICK nn : nn = L!n
  OBVIOUS
<1>2. PICK S, T, w : S = LeftBefore(b) /\ T = LeftBefore(e) /\ w = L!Written(a, len, more)
  OBVIOUS
<1>3. nn \in Nat /\ b \in 1..(nn + 1) /\ e \in b..(nn + 1) /\ DOMAIN a = 1..nn
  BY <1>1, ListTyped
<1>4. len = Cardinality(S) /\ \A i \in S : a[Rank(S, i)] = input.matches[i]
  BY <1>2 DEF Recorded
<1>5. S \in SUBSET (1..(b - 1)) /\ T = S \cup (b..(e - 1))
  BY <1>2, <1>3 DEF LeftBefore
<1>6. /\ len \in 0..(b - 1) /\ Cardinality(T) = len + (e - b)
      /\ \A i \in S : Rank(T, i) = Rank(S, i) /\ Rank(S, i) \in 1..len
      /\ \A i \in b..(e - 1) : Rank(T, i) = len + (i - b + 1)
  <2>1. b \in Nat /\ 1 <= b /\ e \in Nat /\ b <= e
    BY <1>3
  <2>2. RanksBehind(S, T, len, b, e)
    BY <1>4, <1>5, <2>1, RankBehind
  <2> QED BY <2>2 DEF RanksBehind
<1>7. w = [i \in 1..nn |-> IF len < i /\ i <= len + (e - b) THEN more[i - len] ELSE a[i]]
  BY <1>2, <1>3 DEF L!Written
<1>8. w \in Seq(ListMatch) /\ Len(w) = nn
  <2>1. \A i \in 1..nn : a[i] \in ListMatch
    BY <1>3
  <2>2. \A i \in 1..nn : len < i /\ i <= len + (e - b) => more[i - len] \in ListMatch
    BY <1>3, <1>6
  <2>3. w \in [1..nn -> ListMatch]
    BY <1>7, <2>1, <2>2
  <2> QED BY <1>3, <2>3
<1>9. \A i \in e..nn : w[i] = a[i]
  BY <1>3, <1>6, <1>7
<1>10. ASSUME NEW i \in T PROVE w[Rank(T, i)] = input.matches[i]
  <2>1. CASE i \in S
    <3>1. PICK r : r = Rank(S, i)
      OBVIOUS
    <3>2. r \in 1..len /\ Rank(T, i) = r /\ a[r] = input.matches[i]
      BY <1>4, <1>6, <2>1, <3>1
    <3>3. r \in 1..nn /\ ~(len < r)
      BY <1>3, <1>6, <3>2
    <3> QED BY <1>7, <3>2, <3>3
  <2>2. CASE i \in b..(e - 1)
    <3>1. PICK k : k = i - b + 1
      OBVIOUS
    <3>2. k \in 1..(e - b) /\ b + k - 1 = i /\ Rank(T, i) = len + k
      <4>1. Rank(T, i) = len + k
        BY <1>6, <2>2, <3>1
      <4> QED BY <1>3, <2>2, <3>1, <4>1
    <3>3. len + k \in 1..nn /\ len < len + k /\ len + k <= len + (e - b)
          /\ (len + k) - len = k
      BY <1>3, <1>6, <3>2
    <3>4. w[len + k] = more[k]
      BY <1>7, <3>3
    <3> QED BY <3>2, <3>4
  <2> QED BY <1>5, <2>1, <2>2
<1>11. Recorded(w, len + (e - b), e)
  BY <1>2, <1>6, <1>10 DEF Recorded
<1> QED BY <1>1, <1>2, <1>6, <1>8, <1>9, <1>11 DEF Rewritten

(* A stretch of matches that are all of lists leaves nothing to be kept.   *)
LEMMA RecordedPasses ==
    ASSUME NEW a, NEW len, NEW b \in Nat, NEW e \in Nat, b <= e,
           Recorded(a, len, b), \A i \in b..(e - 1) : L!InList(i)
    PROVE  Recorded(a, len, e)
<1>1. LeftBefore(e) = LeftBefore(b)
  BY DEF LeftBefore
<1> QED BY <1>1 DEF Recorded

LEMMA PartIs ==
    ASSUME NEW V, NEW s \in Seq(V), NEW g \in 1..Len(s), NEW h \in g..Len(s)
    PROVE  /\ SubSeq(s, g, h) \in Seq(V) /\ Len(SubSeq(s, g, h)) = h - g + 1
           /\ \A k \in 1..(h - g + 1) : SubSeq(s, g, h)[k] = s[g + k - 1]
OBVIOUS

LEMMA SamePart ==
    ASSUME NEW V, NEW s \in Seq(V), NEW t \in Seq(V), Len(s) = Len(t),
           NEW g \in 1..Len(s), NEW h \in g..Len(s),
           \A i \in g..h : s[i] = t[i]
    PROVE  SubSeq(s, g, h) = SubSeq(t, g, h)
<1>1. PICK p, q, l : p = SubSeq(s, g, h) /\ q = SubSeq(t, g, h) /\ l = h - g + 1
  OBVIOUS
<1>2. /\ p \in Seq(V) /\ Len(p) = l /\ \A k \in 1..l : p[k] = s[g + k - 1]
      /\ q \in Seq(V) /\ Len(q) = l /\ \A k \in 1..l : q[k] = t[g + k - 1]
  BY <1>1, PartIs
<1>3. \A k \in 1..l : g + k - 1 \in g..h
  BY <1>1
<1>4. \A k \in 1..l : p[k] = q[k]
  BY <1>2, <1>3
<1> QED BY <1>1, <1>2, <1>4

(* What flushGroup writes: the matches from some b on, up to the one the   *)
(* loop is at; those before b are already decided on, or of a list.        *)
FlushFrom(b) ==
    /\ b \in Opened..listIndex /\ b \in 1..(L!n + 1)
    /\ Recorded(array, length, b)
    /\ \A i \in b..(listIndex - 1) : ~L!InList(i)
    /\ L!Flushed(listIndex) \in Seq(ListMatch)
    /\ Len(L!Flushed(listIndex)) = listIndex - b
    /\ \A k \in 1..(listIndex - b) :
          L!Flushed(listIndex)[k] = input.matches[b + k - 1]

LEMMA FlushedIs ==
    ASSUME ListInv, listPc = "loop",
           groupStart = 0 \/ listIndex = L!n + 1 \/ ~L!Linked(listIndex - 1, listIndex)
    PROVE  \E b \in 1..(L!n + 1) : FlushFrom(b)
<1>1. PICK e, nn, g : e = listIndex /\ nn = L!n /\ g = groupStart
  OBVIOUS
<1>2. /\ ListInput /\ array \in Seq(ListMatch) /\ Len(array) = nn /\ nn \in Nat
      /\ e \in 1..(nn + 1) /\ g \in 0..(e - 1)
      /\ Broken(Opened) /\ Recorded(array, length, Opened)
      /\ \A i \in Opened..nn : array[i] = input.matches[i]
  BY <1>1, ListTyped DEF ListInv
<1>3. ASSUME L!Flushed(e) = <<>>, Recorded(array, length, e), Opened <= e, Opened \in Nat
      PROVE  FlushFrom(e)
  <2>1. Len(L!Flushed(e)) = e - e /\ L!Flushed(e) \in Seq(ListMatch)
    BY <1>2, <1>3
  <2>2. e \in Opened..e /\ e \in 1..(nn + 1) /\ 1..(e - e) = {} /\ e..(e - 1) = {}
    BY <1>2, <1>3
  <2> QED BY <1>1, <1>3, <2>1, <2>2 DEF FlushFrom
<1>4. CASE g = 0
  <2>1. L!Flushed(e) = <<>> /\ Opened = e
    BY <1>1, <1>4 DEF L!Flushed, Opened
  <2> QED BY <1>1, <1>2, <1>3, <2>1
<1>5. CASE g # 0
  <2>1. PICK h : h = e - 1
    OBVIOUS
  <2>2. /\ Opened = g /\ L!Linked(g, h) /\ g \in 1..nn /\ h \in g..nn
        /\ h + 1 = e /\ (h = nn \/ ~L!Linked(h, h + 1))
    BY <1>1, <1>2, <1>5, <2>1 DEF ListInv, Opened
  <2>3. PICK group : group = SubSeq(array, g, h)
    OBVIOUS
  <2>4. group = SubSeq(input.matches, g, h)
    <3>1. Len(input.matches) = nn /\ input.matches \in Seq(ListMatch)
      BY <1>1, <1>2 DEF L!n, ListInput
    <3>2. \A i \in g..h : array[i] = input.matches[i]
      BY <1>2, <2>2
    <3>3. array \in Seq(ListMatch) /\ Len(array) = nn /\ g \in 1..nn /\ h \in g..nn
      BY <1>2, <2>2
    <3>4. SubSeq(array, g, h) = SubSeq(input.matches, g, h)
      BY <3>1, <3>2, <3>3, SamePart
    <3> QED BY <2>3, <3>4
  <2>5. \A i \in g..h : L!InList(i) <=> L!IsList(group)
    <3>1. Broken(g)
      BY <1>2, <2>2
    <3> QED BY <1>1, <1>2, <2>2, <2>4, <3>1, GroupDecides
  <2>6. L!Flushed(e) = IF L!IsList(group) THEN <<>> ELSE group
    BY <1>1, <1>5, <2>1, <2>3 DEF L!Flushed
  <2>7. CASE L!IsList(group)
    <3>1. \A i \in g..(e - 1) : L!InList(i)
      BY <2>1, <2>5, <2>7
    <3>2. g \in Nat /\ e \in Nat /\ g <= e
      BY <1>2
    <3>3. Recorded(array, length, e)
      BY <1>2, <2>2, <3>1, <3>2, RecordedPasses
    <3> QED BY <1>1, <1>2, <1>3, <2>2, <2>6, <2>7, <3>2, <3>3
  <2>8. CASE ~L!IsList(group)
    <3>1. L!Flushed(e) = group
      BY <2>6, <2>8
    <3>2. \A i \in g..(e - 1) : ~L!InList(i)
      BY <2>1, <2>5, <2>8
    <3>3. /\ group \in Seq(ListMatch) /\ Len(group) = e - g
          /\ \A k \in 1..(e - g) : group[k] = array[g + k - 1]
      <4>1. h - g + 1 = e - g
        BY <1>2, <2>2
      <4> QED BY <1>2, <2>2, <2>3, <4>1, PartIs
    <3>4. \A k \in 1..(e - g) : group[k] = input.matches[g + k - 1]
      BY <1>2, <2>2, <3>3
    <3>5. g \in g..e /\ g \in 1..(nn + 1)
      BY <1>2, <2>2
    <3> QED BY <1>1, <1>2, <2>2, <3>1, <3>2, <3>3, <3>4, <3>5 DEF FlushFrom
  <2> QED BY <2>7, <2>8
<1> QED BY <1>4, <1>5

(* What the lists are does not change while the input stays.               *)
LEMMA SameInput ==
    ASSUME input' = input
    PROVE  /\ L!n' = L!n /\ ListInput' = ListInput
           /\ \A i, j : L!Linked(i, j)' <=> L!Linked(i, j)
           /\ \A i : L!InList(i)' <=> L!InList(i)
<1>1. L!n' = L!n /\ ListInput' = ListInput
  BY DEF L!n, ListInput
<1>2. \A i, j : L!Linked(i, j)' <=> L!Linked(i, j)
  BY DEF L!Linked, L!Candidate, L!Distance, L!DroppedBefore
<1>3. \A i : L!InList(i)' <=> L!InList(i)
  BY DEF L!InList, L!Linked, L!Candidate, L!Distance, L!DroppedBefore, L!n, L!IsList,
         L!SpanWords
<1> QED BY <1>1, <1>2, <1>3

ListState(a, len, i, g, p) ==
    /\ a \in Seq(ListMatch) /\ Len(a) = L!n
    /\ i \in 1..(L!n + 1) /\ g \in 0..(i - 1)
    /\ g # 0 => L!Linked(g, i - 1) /\ p = input.matches[i - 1]
    /\ LET o == IF g = 0 THEN i ELSE g
       IN  Broken(o) /\ Recorded(a, len, o) /\ \A k \in o..L!n : a[k] = input.matches[k]

LEMMA ListInvLoop ==
    ASSUME input' = input, listPc' = "loop", ListInput,
           NEW a, NEW len, NEW i, NEW g, NEW p, ListState(a, len, i, g, p),
           a = array', len = length', i = listIndex', g = groupStart', p = listPrevious'
    PROVE  ListInv'
<1>1. PICK o : o = IF g = 0 THEN i ELSE g
  OBVIOUS
<1>2. /\ L!n' = L!n /\ ListInput'
      /\ \A j, k : L!Linked(j, k)' <=> L!Linked(j, k)
      /\ \A j : L!InList(j)' <=> L!InList(j)
  BY SameInput
<1>3. Opened' = o
  BY <1>1 DEF Opened
<1>4. Broken(Opened)' /\ (g # 0 => L!Linked(groupStart, listIndex - 1)')
  <2>1. Broken(o) /\ (g # 0 => L!Linked(g, i - 1))
    BY <1>1 DEF ListState
  <2>2. Broken(Opened)'
    BY <1>3, <2>1 DEF Broken, L!Linked, L!Candidate, L!Distance, L!DroppedBefore
  <2>3. g # 0 => L!Linked(groupStart, listIndex - 1)'
    BY <2>1 DEF L!Linked, L!Candidate, L!Distance, L!DroppedBefore
  <2> QED BY <2>2, <2>3
<1>5. Recorded(array, length, Opened)'
  <2>1. Recorded(a, len, o)
    BY <1>1 DEF ListState
  <2>2. LeftBefore(Opened)' = LeftBefore(o)
    BY <1>2, <1>3 DEF LeftBefore
  <2> QED BY <2>1, <2>2 DEF Recorded, Rank
<1>6. \A k \in o..L!n : a[k] = input.matches[k]
  BY <1>1 DEF ListState
<1> QED BY <1>2, <1>3, <1>4, <1>5, <1>6 DEF ListInv, ListState

LEMMA ListInvFiltered ==
    ASSUME input' = input, listPc' = "filtered", ListInput, NEW a, NEW len,
           a \in Seq(ListMatch), Len(a) = L!n,
           Recorded(a, len, L!n + 1), a = array', len = length'
    PROVE  ListInv'
<1>1. /\ L!n' = L!n /\ ListInput' /\ \A j : L!InList(j)' <=> L!InList(j)
  BY SameInput
<1>2. LeftBefore(L!n + 1)' = LeftBefore(L!n + 1)
  BY <1>1 DEF LeftBefore
<1>3. Recorded(array, length, L!n + 1)'
  BY <1>2 DEF Recorded, Rank
<1> QED BY <1>1, <1>3 DEF ListInv

LEMMA StepListLoop ==
    ASSUME ListInv, listPc = "loop", L!Loop
    PROVE  ListInv'
<1>1. PICK e, nn, g : e = listIndex /\ nn = L!n /\ g = groupStart
  OBVIOUS
<1>2. PICK o : o = Opened
  OBVIOUS
<1>3. /\ ListInput /\ array \in Seq(ListMatch) /\ Len(array) = nn /\ nn \in Nat
      /\ e \in 1..(nn + 1) /\ g \in 0..(e - 1) /\ o = (IF g = 0 THEN e ELSE g)
      /\ o \in 1..e /\ Broken(o) /\ Recorded(array, length, o)
      /\ \A i \in o..nn : array[i] = input.matches[i]
      /\ g # 0 => L!Linked(g, e - 1) /\ listPrevious = input.matches[e - 1]
      /\ input' = input
  BY <1>1, <1>2, ListTyped DEF ListInv, Opened, L!Loop, L!OtherMatch, L!NearMatch,
                               L!FarMatch, L!LastFlush
<1>4. e <= nn => array[e] = input.matches[e] /\ array[e] \in ListMatch
  BY <1>3
<1>5. CASE L!OtherMatch
  <2>1. e <= nn /\ ~L!Candidate(input.matches[e])
    BY <1>1, <1>4, <1>5 DEF L!OtherMatch
  <2>2. \A i, j \in Int : i <= e /\ e <= j => ~L!Linked(i, j)
    BY <1>3, <2>1 DEF L!Linked
  <2>3. ~L!InList(e)
    BY <1>3, <2>2 DEF L!InList
  <2>4. PICK b \in 1..(nn + 1) : FlushFrom(b)
    <3>1. ~L!Linked(e - 1, e)
      BY <1>3, <2>2
    <3> QED BY <1>1, <3>1, FlushedIs, <1>5 DEF L!OtherMatch
  <2>5. PICK flushed, more : flushed = L!Flushed(e) /\ more = Append(flushed, array[e])
    OBVIOUS
  <2>6. /\ b \in o..e /\ Recorded(array, length, b)
        /\ \A i \in b..(e - 1) : ~L!InList(i)
        /\ flushed \in Seq(ListMatch) /\ Len(flushed) = e - b
        /\ \A k \in 1..(e - b) : flushed[k] = input.matches[b + k - 1]
    BY <1>1, <1>2, <2>4, <2>5 DEF FlushFrom
  <2>7. PICK f : f = e + 1
    OBVIOUS
  <2>8. /\ f \in b..(nn + 1) /\ \A i \in b..(f - 1) : ~L!InList(i)
        /\ more \in Seq(ListMatch) /\ Len(more) = f - b
    <3>1. f \in b..(nn + 1) /\ \A i \in b..(f - 1) : i \in b..(e - 1) \/ i = e
      BY <1>3, <2>1, <2>6, <2>7
    <3>2. array[e] \in ListMatch
      BY <1>4, <2>1
    <3>3. more \in Seq(ListMatch) /\ Len(more) = Len(flushed) + 1
      BY <2>5, <2>6, <3>2
    <3>4. Len(more) = f - b
      BY <1>3, <2>6, <2>7, <3>3
    <3> QED BY <2>3, <2>6, <3>1, <3>3, <3>4
  <2>9. \A k \in 1..(f - b) : more[k] = input.matches[b + k - 1]
    <3> SUFFICES ASSUME NEW k \in 1..(f - b) PROVE more[k] = input.matches[b + k - 1]
      OBVIOUS
    <3>1. CASE k \in 1..(e - b)
      BY <2>5, <2>6, <3>1
    <3>2. CASE k = e - b + 1
      <4>1. b + k - 1 = e /\ k = Len(flushed) + 1
        BY <1>3, <2>6, <3>2
      <4>2. more[k] = array[e]
        BY <2>5, <2>6, <4>1
      <4> QED BY <1>4, <2>1, <4>1, <4>2
    <3> QED BY <1>3, <2>6, <2>7, <3>1, <3>2
  <2>10. PICK a, len : a = L!Written(array, length, more) /\ len = length + Len(more)
    OBVIOUS
  <2>11. /\ a \in Seq(ListMatch) /\ Len(a) = nn /\ Recorded(a, len, f)
         /\ \A i \in f..nn : a[i] = array[i]
    <3>1. Rewritten(array, a, length, b, f)
      BY <1>1, <1>3, <2>4, <2>6, <2>8, <2>9, <2>10, RecordedGrows
    <3> QED BY <1>1, <2>8, <2>10, <3>1 DEF Rewritten
  <2>12. \A i \in f..nn : a[i] = input.matches[i]
    BY <1>3, <2>7, <2>11
  <2>13. Broken(f)
    <3>1. f - 1 \in Int /\ f \in Int /\ f - 1 <= e /\ e <= f
      BY <1>3, <2>7
    <3> QED BY <2>2, <3>1 DEF Broken
  <2>14. PICK p : p = listPrevious
    OBVIOUS
  <2>15. ListState(a, len, f, 0, p)
    BY <1>1, <1>3, <2>8, <2>11, <2>12, <2>13 DEF ListState
  <2>16. /\ a = array' /\ len = length' /\ f = listIndex' /\ 0 = groupStart'
         /\ p = listPrevious' /\ listPc' = "loop"
    BY <1>1, <1>5, <2>5, <2>7, <2>10, <2>14 DEF L!OtherMatch, L!Keep
  <2> QED BY <1>3, <2>15, <2>16, ListInvLoop
<1>6. CASE L!NearMatch
  <2>1. e <= nn /\ L!Candidate(input.matches[e])
    BY <1>1, <1>4, <1>6 DEF L!NearMatch
  <2>2. L!Linked(e, e)
    BY <1>3, <2>1 DEF L!Linked
  <2>3. PICK a, len, f, h, p :
          a = array /\ len = length /\ f = e + 1 /\ h = o /\ p = array[e]
    OBVIOUS
  <2>4. /\ a = array' /\ len = length' /\ f = listIndex' /\ h = groupStart'
        /\ p = listPrevious' /\ listPc' = "loop"
    BY <1>1, <1>3, <1>6, <2>3 DEF L!NearMatch
  <2>5. L!Linked(h, e)
    <3>1. CASE g = 0
      BY <1>3, <2>2, <2>3, <3>1
    <3>2. CASE g # 0
      <4>1. h = g /\ L!Linked(g, e - 1) /\ listPrevious = input.matches[e - 1]
            /\ e - 1 \in 1..nn
        BY <1>3, <2>1, <2>3, <3>2
      <4>2. ~(L!Distance(input.matches[e - 1], input.matches[e]) > MaxDistance)
        BY <1>1, <1>4, <1>6, <2>1, <3>2, <4>1 DEF L!NearMatch, L!FarApart
      <4>3. L!Distance(input.matches[e - 1], input.matches[e]) <= MaxDistance
        <5>1. PICK d : d = L!Distance(input.matches[e - 1], input.matches[e])
          OBVIOUS
        <5>2. e - 1 \in 1..L!n /\ e \in 1..L!n
          BY <1>1, <1>3, <2>1, <4>1
        <5>3. d \in Int
          BY <1>3, <5>1, <5>2, DistanceTyped
        <5>4. ~(d > MaxDistance)
          BY <4>2, <5>1
        <5>5. d <= MaxDistance
          BY <5>3, <5>4, MatchAssumption
        <5> QED BY <5>1, <5>5
      <4>4. L!Linked(e - 1, e)
        <5>1. L!Candidate(input.matches[e - 1])
          BY <1>3, <4>1 DEF L!Linked
        <5>2. \A k \in (e - 1)..e : k = e - 1 \/ k = e
          BY <1>3
        <5>3. \A k \in (e - 1)..(e - 1) : k = e - 1 /\ k + 1 = e
          BY <1>3
        <5> QED BY <2>1, <4>3, <5>1, <5>2, <5>3 DEF L!Linked
      <4>5. g \in Int /\ e - 1 \in Int /\ e \in Int /\ g <= e - 1 /\ e - 1 <= e
        BY <1>3
      <4> QED BY <4>1, <4>4, <4>5, LinkedJoined
    <3> QED BY <3>1, <3>2
  <2>6. f - 1 = e /\ h \in 1..(f - 1) /\ f \in 1..(nn + 1) /\ h # 0 /\ p = input.matches[e]
    BY <1>3, <1>4, <2>1, <2>3
  <2>7. ListState(a, len, f, h, p)
    BY <1>1, <1>3, <2>3, <2>5, <2>6 DEF ListState
  <2> QED BY <1>3, <2>4, <2>7, ListInvLoop
<1>7. CASE L!FarMatch
  <2>1. /\ e <= nn /\ L!Candidate(input.matches[e])
        /\ g # 0 /\ L!Distance(listPrevious, array[e]) > MaxDistance
    BY <1>1, <1>4, <1>7 DEF L!FarMatch, L!FarApart
  <2>2. e - 1 \in 1..nn /\ L!Distance(input.matches[e - 1], input.matches[e]) > MaxDistance
    BY <1>3, <1>4, <2>1
  <2>3. ~L!Linked(e - 1, e)
    <3>1. ~(L!Distance(input.matches[e - 1], input.matches[e]) <= MaxDistance)
      <4>1. PICK d : d = L!Distance(input.matches[e - 1], input.matches[e])
        OBVIOUS
      <4>2. e - 1 \in 1..L!n /\ e \in 1..L!n
        BY <1>1, <1>3, <2>1, <2>2
      <4>4. d \in Int
        BY <1>3, <4>1, <4>2, DistanceTyped
      <4>5. d > MaxDistance
        BY <2>2, <4>1
      <4>3. ~(d <= MaxDistance)
        BY <4>4, <4>5, MatchAssumption
      <4> QED BY <4>1, <4>3
    <3>2. e - 1 \in (e - 1)..(e - 1) /\ (e - 1) + 1 = e
      BY <1>3
    <3> QED BY <3>1, <3>2 DEF L!Linked
  <2>4. PICK b \in 1..(nn + 1) : FlushFrom(b)
    BY <1>1, <1>7, <2>3, FlushedIs DEF L!FarMatch
  <2>5. PICK more : more = L!Flushed(e)
    OBVIOUS
  <2>6. /\ b \in o..e /\ Recorded(array, length, b)
        /\ \A i \in b..(e - 1) : ~L!InList(i)
        /\ more \in Seq(ListMatch) /\ Len(more) = e - b
        /\ \A k \in 1..(e - b) : more[k] = input.matches[b + k - 1]
    BY <1>1, <1>2, <2>4, <2>5 DEF FlushFrom
  <2>7. PICK a, len : a = L!Written(array, length, more) /\ len = length + Len(more)
    OBVIOUS
  <2>8. e \in b..(nn + 1)
    BY <1>3, <2>6
  <2>9. /\ a \in Seq(ListMatch) /\ Len(a) = nn /\ Recorded(a, len, e)
        /\ \A i \in e..nn : a[i] = array[i]
    <3>1. Rewritten(array, a, length, b, e)
      BY <1>1, <1>3, <2>4, <2>6, <2>7, <2>8, RecordedGrows
    <3> QED BY <1>1, <2>6, <2>7, <3>1 DEF Rewritten
  <2>10. \A i \in e..nn : a[i] = input.matches[i]
    BY <1>3, <2>9
  <2>11. PICK f, p : f = e + 1 /\ p = array[e]
    OBVIOUS
  <2>12. Broken(e) /\ L!Linked(e, e)
    BY <1>3, <2>1, <2>3 DEF Broken, L!Linked
  <2>13. f - 1 = e /\ e \in 0..(f - 1) /\ f \in 1..(nn + 1) /\ e # 0 /\ p = input.matches[e]
    BY <1>3, <1>4, <2>1, <2>11
  <2>14. ListState(a, len, f, e, p)
    BY <1>1, <2>9, <2>10, <2>12, <2>13 DEF ListState
  <2>15. /\ a = array' /\ len = length' /\ f = listIndex' /\ e = groupStart'
         /\ p = listPrevious' /\ listPc' = "loop"
    BY <1>1, <1>7, <2>5, <2>7, <2>11 DEF L!FarMatch, L!Keep
  <2> QED BY <1>3, <2>14, <2>15, ListInvLoop
<1>8. CASE L!LastFlush
  <2>1. e = nn + 1
    BY <1>1, <1>3, <1>8 DEF L!LastFlush
  <2>2. PICK b \in 1..(nn + 1) : FlushFrom(b)
    BY <1>1, <2>1, FlushedIs, <1>8 DEF L!LastFlush
  <2>3. PICK more : more = L!Flushed(e)
    OBVIOUS
  <2>4. /\ b \in o..e /\ Recorded(array, length, b)
        /\ \A i \in b..(e - 1) : ~L!InList(i)
        /\ more \in Seq(ListMatch) /\ Len(more) = e - b
        /\ \A k \in 1..(e - b) : more[k] = input.matches[b + k - 1]
    BY <1>1, <1>2, <2>2, <2>3 DEF FlushFrom
  <2>5. PICK a, len : a = L!Written(array, length, more) /\ len = length + Len(more)
    OBVIOUS
  <2>6. e \in b..(nn + 1)
    BY <1>3, <2>4
  <2>7. a \in Seq(ListMatch) /\ Len(a) = nn /\ Recorded(a, len, e)
    <3>1. Rewritten(array, a, length, b, e)
      BY <1>1, <1>3, <2>2, <2>4, <2>5, <2>6, RecordedGrows
    <3> QED BY <1>1, <2>4, <2>5, <3>1 DEF Rewritten
  <2>8. a = array' /\ len = length' /\ listPc' = "filtered"
    BY <1>1, <1>8, <2>1, <2>3, <2>5 DEF L!LastFlush, L!Keep
  <2> QED BY <1>1, <1>3, <2>1, <2>7, <2>8, ListInvFiltered
<1> QED BY <1>5, <1>6, <1>7, <1>8 DEF L!Loop

(* The list filter is given the matches that the exact filter has chosen.  *)
LEMMA ListBegins ==
    ASSUME MInv, StartLists
    PROVE  ListInv'
<1>1. PICK ms : ms = [k \in DOMAIN kept |-> Listable(kept[k])]
  OBVIOUS
<1>2. /\ input' = [matches |-> ms, dropped |-> unknownAfter \o stopwordAfter,
                   words |-> Len(text)]
      /\ array' = ms /\ length' = 0 /\ listIndex' = 1 /\ groupStart' = 0
      /\ listPc' = "loop"
  BY <1>1 DEF StartLists, L!Start
<1>3. kept \in Seq(Match) /\ TextOK
  BY DEF MInv
<1>4. PICK l \in Nat : l = Len(kept) /\ DOMAIN kept = 1..l
  BY <1>3
<1>5. ms \in Seq(ListMatch) /\ Len(ms) = l
  <2>1. \A k \in 1..l : kept[k] \in Match
    BY <1>3, <1>4
  <2>2. ms \in [1..l -> ListMatch]
    BY <1>1, <1>4, <2>1 DEF ListMatch
  <2> QED BY <1>4, <2>2
<1>6. unknownAfter \o stopwordAfter \in Seq(Nat)
  <2>1. unknownAfter \in Seq(Nat) /\ stopwordAfter \in Seq(Nat)
    BY <1>3, TokensTyped
  <2> QED BY <2>1, ConcatIs
<1>7. input'.matches = ms /\ input'.dropped = unknownAfter \o stopwordAfter
  BY <1>2
<1>8. ListInput' /\ L!n' = l
  BY <1>5, <1>6, <1>7 DEF ListInput, L!n
<1>9. Opened' = 1
  BY <1>2 DEF Opened
<1>10. Broken(Opened)'
  BY <1>9 DEF Broken
<1>11. Recorded(array, length, Opened)'
  <2>1. LeftBefore(Opened)' = {}
    BY <1>9 DEF LeftBefore
  <2>2. Cardinality({}) = 0
    BY FS_EmptySet
  <2> QED BY <1>2, <2>1, <2>2 DEF Recorded
<1>12. \A i \in 1..l : array'[i] = input'.matches[i]
  BY <1>2, <1>7
<1> QED BY <1>2, <1>4, <1>5, <1>8, <1>9, <1>10, <1>11, <1>12 DEF ListInv

LEMMA SameLists ==
    ASSUME ListInv, UNCHANGED list
    PROVE  ListInv'
<1>1. /\ input' = input /\ array' = array /\ length' = length /\ listIndex' = listIndex
      /\ groupStart' = groupStart /\ listPrevious' = listPrevious /\ listPc' = listPc
  BY DEF list
<1>2. CASE listPc = "loop"
  <2>1. PICK a, len, i, g, p : /\ a = array /\ len = length /\ i = listIndex
                               /\ g = groupStart /\ p = listPrevious
    OBVIOUS
  <2>2. ListState(a, len, i, g, p) /\ ListInput
    BY <1>2, <2>1 DEF ListInv, ListState, Opened
  <2>3. /\ a = array' /\ len = length' /\ i = listIndex' /\ g = groupStart'
        /\ p = listPrevious' /\ listPc' = "loop"
    BY <1>1, <1>2, <2>1
  <2> QED BY <1>1, <2>2, <2>3, ListInvLoop
<1>3. CASE listPc = "filtered"
  <2>1. PICK a, len : a = array /\ len = length
    OBVIOUS
  <2>2. /\ ListInput /\ a \in Seq(ListMatch) /\ Len(a) = L!n
        /\ Recorded(a, len, L!n + 1)
        /\ a = array' /\ len = length' /\ listPc' = "filtered"
    BY <1>1, <1>3, <2>1 DEF ListInv
  <2> QED BY <1>1, <2>2, ListInvFiltered
<1>4. CASE listPc \notin {"loop", "filtered"}
  BY <1>1, <1>4 DEF ListInv
<1> QED BY <1>2, <1>3, <1>4

LEMMA StepListInv == MInv /\ ListInv /\ [MNext]_mvars => ListInv'
<1> SUFFICES ASSUME MInv, ListInv, [MNext]_mvars PROVE ListInv'
  OBVIOUS
<1>1. CASE StartLists
  BY <1>1, ListBegins
<1>2. CASE ListStep
  <2>1. listPc = "loop" /\ L!Loop
    BY <1>2 DEF ListStep, L!Loop, L!OtherMatch, L!NearMatch, L!FarMatch, L!LastFlush
  <2> QED BY <2>1, StepListLoop
<1>3. CASE ~StartLists /\ ~ListStep
  <2>1. UNCHANGED list
    BY <1>3 DEF MNext, MatchStep, NoTokens, ByHash, ByAutomaton, FirstPass, CountPass,
                SecondPass, EndPass, FallBack, StartFilter, FilterStep, Finish,
                MInterrupted, MEnded, mvars, ScanStep, SkipUnknown,
                SkipStopword, KnownToken, NextWord, EndScan, GroupStep, StartGroups, AddMatch,
                EndGroups, DowngradeDetection
  <2> QED BY <2>1, SameLists
<1> QED BY <1>1, <1>2, <1>3

LEMMA ListInductive == MSpec => []ListInv
<1>1. MInit => ListInv
  BY DEF MInit, ListInv
<1> QED BY <1>1, MInductive, StepListInv, PTL DEF MSpec

(* For any input, rules and thresholds: what the list filter keeps is, in  *)
(* order, every match that is of no longest series of close short names    *)
(* that makes a list; and while it reads, the array it overwrites still    *)
(* has all that it has not read or may yet keep.                           *)
THEOREM ListFilter == MSpec => []ListsDropped
<1>1. ListInv => ListsDropped
  <2> SUFFICES ASSUME ListInv PROVE ListsDropped
    OBVIOUS
  <2>1. ASSUME listPc = "loop"
        PROVE  \A i \in (IF groupStart = 0 THEN listIndex ELSE groupStart)..L!n :
                   array[i] = input.matches[i]
    BY <2>1 DEF ListInv, Opened
  <2>2. ASSUME listPc = "filtered"
        PROVE  LET Left == {i \in 1..L!n : ~L!InList(i)}
                   RankOf(i) == Cardinality({j \in Left : j <= i})
               IN  /\ length = Cardinality(Left)
                   /\ \A i \in Left : array[RankOf(i)] = input.matches[i]
    <3>1. Recorded(array, length, L!n + 1)
      BY <2>2 DEF ListInv
    <3>2. L!n \in Nat
      BY <2>2, ListTyped DEF ListInv
    <3>3. LeftBefore(L!n + 1) = {i \in 1..L!n : ~L!InList(i)}
      BY <3>2 DEF LeftBefore
    <3> QED BY <3>1, <3>3 DEF Recorded, Rank
  <2> QED BY <2>1, <2>2, SameCardinality DEF ListsDropped, L!ListsDropped
<1> QED BY <1>1, ListInductive, PTL

-----------------------------------------------------------------------------
(* Where what is reported comes from.  What the places S of a list hold.   *)
LEMMA SelectedRange ==
    ASSUME NEW V, NEW s \in Seq(V), NEW S \in SUBSET (1..Len(s))
    PROVE  Range(Selected(s, S)) = {s[i] : i \in S}
<1>1. PICK t : t = Selected(s, S)
  OBVIOUS
<1>2. /\ DOMAIN t = 1..Cardinality(S)
      /\ \A k \in 1..Cardinality(S) : \E i \in S : t[k] = s[i]
      /\ \A i \in S : Rank(S, i) \in 1..Cardinality(S) /\ t[Rank(S, i)] = s[i]
  BY <1>1, SelectedIs
<1> QED BY <1>1, <1>2 DEF Range

(* The occurrences that are the whole input.                               *)
WholeInput == {m \in Occurrences : m.start = 0 /\ m.end = Len(ids)}

(* The hash finds these and no others, however many rules share it.        *)
LEMMA HashMatchesAre ==
    ASSUME TextOK, ids # <<>>
    PROVE  Range(HashMatches) = WholeInput
<1> DEFINE ending == Outputs(Len(ids))
           same == {k \in DOMAIN ending :
                      /\ ending[k].start = 0
                      /\ Hash(RuleTokens[ending[k].rule]) = Hash(ids)}
<1>1. Len(ids) \in 1..Len(ids) /\ ids \in Seq(Words)
  BY TokensTyped
<1>2. ending \in Seq(Match) /\ Range(ending) = EndingAt(Len(ids))
  BY <1>1, OutputsAre
<1>3. same \in SUBSET (1..Len(ending))
  BY <1>2
<1>4. PICK picked : picked = Selected(ending, same)
  OBVIOUS
<1>5. HashMatches = Reverse(picked)
  BY <1>4 DEF HashMatches
<1>6. \A k \in DOMAIN ending : ending[k].start = 0 =>
            Hash(RuleTokens[ending[k].rule]) = Hash(ids)
  <2> SUFFICES ASSUME NEW m \in EndingAt(Len(ids)), m.start = 0
               PROVE  RuleTokens[m.rule] = ids
    BY <1>2 DEF Range
  <2>1. SubSeq(ids, 1, Len(ids)) = RuleTokens[m.rule]
    <3>1. SubSeq(ids, m.start + 1, m.end) = RuleTokens[m.rule] /\ m.end = Len(ids)
      BY DEF EndingAt, Occurrences
    <3>2. m.start + 1 = 1
      OBVIOUS
    <3> QED BY <3>1, <3>2
  <2>2. SubSeq(ids, 1, Len(ids)) = ids
    BY <1>1
  <2> QED BY <2>1, <2>2
<1> HIDE DEF ending
<1>7. {ending[k] : k \in same} = {m \in Range(ending) : m.start = 0}
  BY <1>6 DEF Range
<1> HIDE DEF same
<1>8. picked \in Seq(Match) /\ Range(picked) = {m \in Range(ending) : m.start = 0}
  <2>1. picked \in Seq(Match)
    BY <1>2, <1>3, <1>4, SelectedIs
  <2>2. Range(picked) = {ending[k] : k \in same}
    BY <1>2, <1>3, <1>4, SelectedRange
  <2> QED BY <1>7, <2>1, <2>2
<1>9. Range(Reverse(picked)) = Range(picked)
  <2>1. PICK l : l = Len(picked)
    OBVIOUS
  <2>2. l \in Nat /\ DOMAIN picked = 1..l
    BY <1>8, <2>1
  <2>3. Reverse(picked) = [i \in 1..l |-> picked[l - i + 1]]
    BY <2>1, <2>2 DEF Reverse
  <2>4. \A i \in 1..l : l - i + 1 \in 1..l /\ l - (l - i + 1) + 1 = i
    BY <2>2
  <2>5. PICK r : r = Reverse(picked)
    OBVIOUS
  <2>6. /\ DOMAIN r = 1..l
        /\ \A i \in 1..l : r[i] = picked[l - i + 1] /\ r[l - i + 1] = picked[i]
    BY <2>3, <2>4, <2>5
  <2>7. \A i \in 1..l : r[i] \in Range(picked) /\ picked[i] \in Range(r)
    BY <2>2, <2>4, <2>6 DEF Range
  <2> QED BY <2>2, <2>5, <2>6, <2>7 DEF Range
<1> QED BY <1>2, <1>5, <1>8, <1>9 DEF EndingAt, WholeInput

(* What is left of the candidates is what is allowed among them.           *)
LEMMA RemainingAre ==
    ASSUME TextOK, found \in Seq(Match)
    PROVE  Range(Remaining) = {m \in Range(found) : Allowed(m)}
<1>1. CASE hasOmittedWords \/ hasStrictStopwords
  <2> DEFINE S == {k \in DOMAIN found : Allowed(found[k])}
  <2>1. S \in SUBSET (1..Len(found))
    OBVIOUS
  <2>2. {found[k] : k \in S} = {m \in Range(found) : Allowed(m)}
    BY DEF Range
  <2>3. Remaining = Selected(found, S)
    BY <1>1 DEF Remaining
  <2> HIDE DEF S
  <2> QED BY <2>1, <2>2, <2>3, SelectedRange
<1>2. CASE ~(hasOmittedWords \/ hasStrictStopwords)
  <2>1. Remaining = found /\ unknownAfter = <<>> /\ stopwordAfter = <<>>
    BY <1>2 DEF Remaining, hasOmittedWords
  <2>2. \A m : Within(m, <<>>) = <<>>
    <3> SUFFICES ASSUME NEW m PROVE Within(m, <<>>) = <<>>
      OBVIOUS
    <3>1. PICK e : e = <<>>
      OBVIOUS
    <3>2. Within(m, e) = Selected(e, {})
      BY <3>1 DEF Within
    <3>3. Cardinality({}) = 0
      BY FS_EmptySet
    <3>4. Selected(e, {}) = <<>>
      BY <3>3 DEF Selected
    <3> QED BY <3>1, <3>2, <3>4
  <2>3. ASSUME NEW m \in Match PROVE Allowed(m)
    <3>1. ~SpansUnknown(m)
      BY <2>1, <2>2 DEF SpansUnknown
    <3>2. StopwordsAlign(m) <=> <<>> = RuleStopwords[m.rule]
      <4>1. PICK e : e = Within(m, stopwordAfter)
        OBVIOUS
      <4>2. e = <<>>
        BY <2>1, <2>2, <4>1
      <4>3. [k \in DOMAIN e |-> e[k] - m.start] = <<>>
        BY <4>2
      <4> QED BY <4>1, <4>3 DEF StopwordsAlign
    <3>3. m.rule \in Strict => RuleStopwords[m.rule] = <<>>
      BY <1>2 DEF hasStrictStopwords
    <3> QED BY <3>1, <3>2, <3>3 DEF Allowed
  <2> QED BY <2>1, <2>3 DEF Range
<1> QED BY <1>1, <1>2

(* From the filter on, every match is one that is allowed where it is in   *)
(* the input, and those of the hash are the whole of it.                   *)
Later == {"offsets", "filter", "lists", "groups", "downgrade", "done"}

Proper(m) ==
    /\ m \in Occurrences /\ Allowed(m)
    /\ method = "hash" => m \in WholeInput

KeptInv ==
    /\ method \in {"none", "hash", "exact"}
    /\ stage = "omitted" => method # "none"
    /\ stage = "omitted" /\ method = "hash" => ids # <<>> /\ Range(found) = WholeInput
    /\ stage \in Later =>
          /\ \A m \in Range(found) : Proper(m)
          /\ Range(matches) \subseteq Range(found)
          /\ Range(kept) \subseteq Range(found)

LEMMA RearrangementRange ==
    ASSUME NEW s, NEW t \in Rearrangements(s)
    PROVE  Range(t) = Range(s)
BY DEF Rearrangements, Range

LEMMA FilterRange ==
    ASSUME TypeOK, [Next]_vars
    PROVE  /\ Range(matches') \subseteq Range(matches)
           /\ Range(kept') \subseteq Range(kept) \cup Range(matches)
<1>1. CASE Sort
  <2>1. matches' \in Rearrangements(matches) /\ kept' = kept
    BY <1>1 DEF Sort, Begin
  <2> QED BY <2>1, RearrangementRange
<1>2. CASE Compact
  <2>1. PICK S : S = {i \in 1..n : Active(i)}
    OBVIOUS
  <2>2. matches \in Seq(Match) /\ S \in SUBSET (1..Len(matches)) /\ matches' = matches
    BY <1>2, <2>1 DEF TypeOK, n, Compact
  <2>3. PICK s : s = Selected(matches, S)
    OBVIOUS
  <2>4. kept' \in Rearrangements(s)
    BY <1>2, <2>1, <2>3 DEF Compact, Compacted
  <2>5. Range(s) = {matches[i] : i \in S}
    BY <2>2, <2>3, SelectedRange
  <2>6. {matches[i] : i \in S} \subseteq Range(matches)
    BY <2>2 DEF Range
  <2>7. Range(kept') = Range(s)
    BY <2>4, RearrangementRange
  <2>8. Range(matches') = Range(matches)
    BY <2>2
  <2> QED BY <2>5, <2>6, <2>7, <2>8
<1>3. CASE FilterContained \/ FilterContainedAgain \/ FilterFalsePositive
  BY <1>3 DEF FilterContained, FilterContainedAgain, FilterFalsePositive,
              Begin, EndSweep, PassOver, Contained, NotContained
<1>4. CASE FilterOverlapping
  BY <1>4 DEF FilterOverlapping, TakeCurrent, ComparePair, PassOver, Begin
<1>5. CASE RestoreContained \/ RestoreOverlapping
  BY <1>5 DEF RestoreContained, RestoreOverlapping, Restoring, Restore, PassOver, Begin
<1>6. CASE UNCHANGED vars
  BY <1>6 DEF vars
<1>7. CASE Interrupted
  <2>1. matches' = <<>> /\ kept' = kept
    BY <1>7 DEF Interrupted, Begin
  <2> QED BY <2>1 DEF Range
<1> QED BY <1>1, <1>2, <1>3, <1>4, <1>5, <1>6, <1>7 DEF Next, Step, Ended

(* What the text alone decides stays.                                      *)
LEMMA SameWords ==
    ASSUME text' = text
    PROVE  /\ unknownAfter' = unknownAfter /\ stopwordAfter' = stopwordAfter
           /\ hasOmittedWords' = hasOmittedWords /\ WholeInput' = WholeInput
           /\ \A m : Allowed(m)' <=> Allowed(m)
           /\ \A kind : WordsOf(kind)' = WordsOf(kind)
           /\ \A kind : PlacesOf(kind)' = PlacesOf(kind)
<1>1. places' = places
  BY DEF places
<1>2. \A kind : WordsOf(kind)' = WordsOf(kind)
  BY DEF WordsOf
<1>3. \A kind : PlacesOf(kind)' = PlacesOf(kind)
  BY <1>1, <1>2 DEF PlacesOf
<1>4. \A i : TokensBefore(i)' = TokensBefore(i)
  BY DEF TokensBefore
<1>5. \A kind : After(kind)' = After(kind)
  BY <1>3, <1>4 DEF After
<1>6. unknownAfter' = unknownAfter /\ stopwordAfter' = stopwordAfter
  BY <1>5 DEF unknownAfter, stopwordAfter
<1>7. \A m : Allowed(m)' <=> Allowed(m)
  BY <1>6 DEF Allowed, SpansUnknown, StopwordsAlign, Within
<1>8. WholeInput' = WholeInput
  BY SameText DEF WholeInput
<1> QED BY <1>2, <1>3, <1>6, <1>7, <1>8 DEF hasOmittedWords

LEMMA StepKeptInv == MInv /\ KeptInv /\ [MNext]_mvars => KeptInv'
<1> SUFFICES ASSUME MInv, KeptInv, [MNext]_mvars PROVE KeptInv'
  OBVIOUS
<1>1. text' = text
  BY DEF MNext, MatchStep, NoTokens, ByHash, ByAutomaton, FirstPass, CountPass, SecondPass,
         EndPass, FallBack, StartFilter, FilterStep, StartLists, ListStep, Finish,
         MInterrupted, MEnded, mvars, call, ScanStep, SkipUnknown,
         SkipStopword, KnownToken, NextWord, EndScan, GroupStep, StartGroups, AddMatch,
         EndGroups, DowngradeDetection
<1>2. /\ ids' = ids /\ Occurrences' = Occurrences /\ WholeInput' = WholeInput
      /\ \A m : Allowed(m)' <=> Allowed(m)
  BY <1>1, SameText, SameWords
<1>3. CASE NoTokens \/ ByHash
  <2>1. Fresh /\ matches = <<>> /\ found = <<>> /\ UNCHANGED vars
    BY <1>3 DEF NoTokens, ByHash, MInv, FilterIdle, CollectInv, Collecting
  <2>2. kept' = <<>> /\ matches' = <<>>
    BY <2>1 DEF Fresh, vars
  <2>3. Range(kept') = {} /\ Range(matches') = {}
    BY <2>2 DEF Range
  <2>4. CASE NoTokens
    <3>1. found' = <<>> /\ method' = method /\ stage' = "done"
      BY <2>1, <2>4 DEF NoTokens
    <3>2. Range(found') = {}
      BY <3>1 DEF Range
    <3> QED BY <2>3, <3>1, <3>2 DEF KeptInv
  <2>5. CASE ByHash
    <3>1. ids # <<>> /\ found' = HashMatches /\ method' = "hash" /\ stage' = "omitted"
      BY <2>5 DEF ByHash, HashMatches
    <3> QED BY <1>2, <3>1, HashMatchesAre DEF KeptInv, MInv, Later
  <2> QED BY <1>3, <2>4, <2>5
<1>4. CASE ByAutomaton \/ FirstPass \/ CountPass \/ SecondPass \/ EndPass \/ FallBack
           \/ MInterrupted
  <2>1. /\ stage' \notin Later /\ method' \in {method, "exact"}
        /\ stage' = "omitted" => method' = method /\ method = "exact"
    BY <1>4 DEF ByAutomaton, FirstPass, CountPass, SecondPass, EndPass, FallBack,
                MInterrupted, Later, MInv, CollectInv
  <2> QED BY <2>1 DEF KeptInv
<1>5. CASE StartFilter
  <2>1. /\ stage = "omitted" /\ found' = Remaining /\ matches' = Remaining /\ kept' = kept
        /\ stage' \in {"offsets", "filter"} /\ method' = method
    BY <1>5 DEF StartFilter
  <2>2. kept = <<>> /\ TextOK /\ found \in Seq(Match)
    BY <2>1 DEF MInv, FilterIdle, Collecting, Fresh
  <2>3. Range(found') = {m \in Range(found) : Allowed(m)}
    BY <2>1, <2>2, RemainingAre
  <2>4. Range(found) \subseteq Occurrences
    <3>1. CASE method = "hash"
      BY <2>1, <3>1 DEF KeptInv, WholeInput
    <3>2. CASE method = "exact"
      <4>1. EndingUpTo(Len(ids)) = Occurrences
        BY <2>2, UpToIs
      <4> QED BY <2>1, <3>2, <4>1 DEF MInv, CollectInv, Lists
    <3>3. method # "none"
      BY <2>1 DEF KeptInv
    <3> QED BY <3>1, <3>2, <3>3 DEF KeptInv
  <2>5. method = "hash" => Range(found) = WholeInput
    BY <2>1 DEF KeptInv
  <2>6. Range(kept') = {}
    BY <2>1, <2>2 DEF Range
  <2> QED BY <1>2, <2>1, <2>3, <2>4, <2>5, <2>6 DEF KeptInv, Proper
<1>6. CASE ScanStep \/ FilterStep \/ StartLists \/ ListStep \/ GroupStep
           \/ DowngradeDetection \/ Finish \/ MEnded \/ UNCHANGED mvars
  <2>1. /\ found' = found /\ method' = method
        /\ stage' = stage \/ (stage \in Later /\ stage' \in Later)
        /\ [Next]_vars
    BY <1>6 DEF FilterStep, StartLists, ListStep, Finish, MEnded, mvars, call, Later, Next,
                ScanStep, SkipUnknown, SkipStopword, KnownToken, NextWord, EndScan, GroupStep,
                StartGroups, AddMatch, EndGroups, DowngradeDetection
  <2>2. /\ Range(matches') \subseteq Range(matches)
        /\ Range(kept') \subseteq Range(kept) \cup Range(matches)
    BY <2>1, FilterRange DEF MInv, IInv
  <2> QED BY <1>2, <2>1, <2>2 DEF KeptInv, Proper, Later
<1> QED BY <1>3, <1>4, <1>5, <1>6 DEF MNext, MatchStep

LEMMA KeptInductive == MSpec => []KeptInv
<1>1. MInit => KeptInv
  BY DEF MInit, KeptInv, Later
<1> QED BY <1>1, MInductive, StepKeptInv, PTL DEF MSpec

-----------------------------------------------------------------------------
(* The second scan of the words.  How many of a set there are up to some   *)
(* place.                                                                  *)
RankGrows(S) ==
    /\ \A i \in Int : Rank(S, i) \in 0..Cardinality(S)
    /\ \A i, j \in Int : i <= j => Rank(S, i) <= Rank(S, j)
    /\ \A i \in Int : Rank(S, i) = Rank(S, i - 1) + (IF i \in S THEN 1 ELSE 0)

UpTo(S, i) == {j \in S : j <= i}

LEMMA UpToGrowsBy ==
    ASSUME NEW S \in SUBSET Nat
    PROVE  /\ \A i : UpTo(S, i) \in SUBSET S /\ Rank(S, i) = Cardinality(UpTo(S, i))
           /\ \A i, j \in Int : i <= j => UpTo(S, i) \in SUBSET UpTo(S, j)
           /\ \A i \in Int : i \in S =>
                 UpTo(S, i) = UpTo(S, i - 1) \cup {i} /\ i \notin UpTo(S, i - 1)
           /\ \A i \in Int : i \notin S => UpTo(S, i) = UpTo(S, i - 1)
<1>1. \A j \in S : j \in Int
  OBVIOUS
<1>2. ASSUME NEW i \in Int, i \in S
      PROVE  UpTo(S, i) = UpTo(S, i - 1) \cup {i} /\ i \notin UpTo(S, i - 1)
  <2>1. \A j \in S : j <= i <=> j <= i - 1 \/ j = i
    BY <1>1
  <2>2. ~(i <= i - 1)
    OBVIOUS
  <2> QED BY <1>2, <2>1, <2>2 DEF UpTo
<1>3. ASSUME NEW i \in Int, i \notin S PROVE UpTo(S, i) = UpTo(S, i - 1)
  <2>1. \A j \in S : j <= i <=> j <= i - 1
    BY <1>1, <1>3
  <2> QED BY <2>1 DEF UpTo
<1>4. ASSUME NEW i \in Int, NEW j \in Int, i <= j
      PROVE  UpTo(S, i) \in SUBSET UpTo(S, j)
  <2>1. \A k \in S : k <= i => k <= j
    BY <1>1, <1>4
  <2> QED BY <2>1 DEF UpTo
<1>5. \A i : UpTo(S, i) \in SUBSET S /\ Rank(S, i) = Cardinality(UpTo(S, i))
  BY DEF UpTo, Rank
<1> QED BY <1>2, <1>3, <1>4, <1>5

LEMMA RankIs ==
    ASSUME NEW S \in SUBSET Nat, IsFiniteSet(S)
    PROVE  Cardinality(S) \in Nat /\ RankGrows(S)
<1>1. ASSUME NEW i
      PROVE  IsFiniteSet(UpTo(S, i)) /\ Rank(S, i) \in Nat /\ Rank(S, i) <= Cardinality(S)
  <2>1. PICK U : U = UpTo(S, i)
    OBVIOUS
  <2>2. U \in SUBSET S /\ Rank(S, i) = Cardinality(U)
    BY <2>1, UpToGrowsBy
  <2>3. IsFiniteSet(U) /\ Cardinality(U) <= Cardinality(S)
    BY <2>2, FS_Subset
  <2> QED BY <2>1, <2>2, <2>3, FS_CardinalityType
<1>2. ASSUME NEW i \in Int, NEW j \in Int, i <= j
      PROVE  Rank(S, i) <= Rank(S, j)
  <2>1. PICK U, W : U = UpTo(S, i) /\ W = UpTo(S, j)
    OBVIOUS
  <2>2. U \in SUBSET W /\ Rank(S, i) = Cardinality(U) /\ Rank(S, j) = Cardinality(W)
    BY <1>2, <2>1, UpToGrowsBy
  <2>3. IsFiniteSet(W)
    BY <1>1, <2>1
  <2> QED BY <2>2, <2>3, FS_Subset
<1>3. ASSUME NEW i \in Int, i \in S PROVE Rank(S, i) = Rank(S, i - 1) + 1
  <2>1. PICK h : h = i - 1
    OBVIOUS
  <2>2. UpTo(S, i) = UpTo(S, h) \cup {i} /\ i \notin UpTo(S, h)
    BY <1>3, <2>1, UpToGrowsBy
  <2>3. PICK U, W : U = UpTo(S, i) /\ W = UpTo(S, h)
    OBVIOUS
  <2>4. /\ U = W \cup {i} /\ i \notin W /\ IsFiniteSet(W)
        /\ Rank(S, i) = Cardinality(U) /\ Rank(S, h) = Cardinality(W)
    BY <1>1, <2>2, <2>3, UpToGrowsBy
  <2>5. Cardinality(U) = Cardinality(W) + 1
    BY <2>4, FS_AddElement
  <2> QED BY <2>1, <2>4, <2>5
<1>4. ASSUME NEW i \in Int, i \notin S PROVE Rank(S, i) = Rank(S, i - 1)
  <2>1. UpTo(S, i) = UpTo(S, i - 1)
    BY <1>4, UpToGrowsBy
  <2> QED BY <2>1, UpToGrowsBy
<1>5. ASSUME NEW i \in Int
      PROVE  Rank(S, i) = Rank(S, i - 1) + (IF i \in S THEN 1 ELSE 0)
  <2>1. PICK h : h = i - 1
    OBVIOUS
  <2>2. Rank(S, h) \in Nat
    BY <1>1
  <2> QED BY <1>3, <1>4, <2>1, <2>2
<1>6. Cardinality(S) \in Nat
  BY FS_CardinalityType
<1>7. \A i \in Int : Rank(S, i) \in 0..Cardinality(S)
  <2> SUFFICES ASSUME NEW i \in Int PROVE Rank(S, i) \in 0..Cardinality(S)
    OBVIOUS
  <2>1. PICK r : r = Rank(S, i)
    OBVIOUS
  <2> QED BY <1>1, <1>6, <2>1
<1> QED BY <1>2, <1>5, <1>6, <1>7 DEF RankGrows

(* The words of each kind.                                                 *)
Tokens == WordsOf(Vocabulary)

KindRanks(kind) ==
    /\ WordsOf(kind) \in SUBSET (1..Len(text)) /\ RankGrows(WordsOf(kind))
    /\ Rank(WordsOf(kind), 0) = 0
    /\ Rank(WordsOf(kind), Len(text)) = Cardinality(WordsOf(kind))
    /\ Cardinality(WordsOf(kind)) \in Nat /\ IsFiniteSet(WordsOf(kind))

LEMMA KindRanked ==
    ASSUME TextOK, NEW kind
    PROVE  KindRanks(kind)
<1>1. PICK S, l : S = WordsOf(kind) /\ l = Len(text)
  OBVIOUS
<1>2. l \in Nat /\ S \in SUBSET (1..l)
  BY <1>1, WordsAre
<1>3. IsFiniteSet(S)
  <2>1. IsFiniteSet(1..l)
    BY <1>2, FS_Interval
  <2> QED BY <1>2, <2>1, FS_Subset
<1>4. RankGrows(S) /\ Cardinality(S) \in Nat
  <2>1. S \in SUBSET Nat
    BY <1>2
  <2> QED BY <1>3, <2>1, RankIs
<1>5. Rank(S, 0) = 0
  <2>1. \A j \in S : ~(j <= 0)
    BY <1>2
  <2>2. {j \in S : j <= 0} = {}
    BY <2>1
  <2> QED BY <2>2, FS_EmptySet DEF Rank
<1>6. Rank(S, l) = Cardinality(S)
  <2>1. \A j \in S : j <= l
    BY <1>2
  <2>2. {j \in S : j <= l} = S
    BY <2>1
  <2> QED BY <2>2 DEF Rank
<1> QED BY <1>1, <1>2, <1>3, <1>4, <1>5, <1>6 DEF KindRanks

LEMMA TokensBeforeIs ==
    ASSUME TextOK, NEW i \in 1..Len(text)
    PROVE  TokensBefore(i) = Rank(Tokens, i - 1)
<1>1. Len(text) \in Nat /\ DOMAIN text = 1..Len(text)
  BY WordsAre
<1>2. {j \in 1..(i - 1) : text[j] \in Vocabulary} = {j \in Tokens : j <= i - 1}
  BY <1>1 DEF Tokens, WordsOf
<1> QED BY <1>2 DEF TokensBefore, Rank

(* Up to each place there are as many words as there are of the kinds.     *)
LEMMA KindsAddUp ==
    ASSUME TextOK, NEW i \in 0..Len(text)
    PROVE  Rank(Tokens, i) + Rank(WordsOf({Unknown}), i) + Rank(WordsOf(Stopwords), i) = i
<1>1. Len(text) \in Nat /\ DOMAIN text = 1..Len(text)
      /\ \A j \in 1..Len(text) : text[j] \in Words
  BY WordsAre DEF TextOK
<1>2. PICK a, b, c : /\ a = {j \in Tokens : j <= i}
                     /\ b = {j \in WordsOf({Unknown}) : j <= i}
                     /\ c = {j \in WordsOf(Stopwords) : j <= i}
  OBVIOUS
<1>3. /\ IsFiniteSet(a) /\ IsFiniteSet(b) /\ IsFiniteSet(c)
  <2>1. \A kind : IsFiniteSet(WordsOf(kind))
    BY KindRanked DEF KindRanks
  <2> QED BY <1>2, <2>1, FS_Subset DEF Tokens
<1>4. a \cap b = {} /\ (a \cup b) \cap c = {}
  BY <1>1, <1>2, MatchAssumption DEF Tokens, WordsOf
<1>5. (a \cup b) \cup c = 1..i
  BY <1>1, <1>2 DEF Tokens, WordsOf, Words
<1>6. PICK d : d = a \cup b
  OBVIOUS
<1>7. Cardinality(d) = Cardinality(a) + Cardinality(b) /\ IsFiniteSet(d)
  BY <1>3, <1>4, <1>6, DisjointUnion, FS_Union
<1>8. PICK e : e = d \cup c
  OBVIOUS
<1>9. Cardinality(e) = Cardinality(d) + Cardinality(c)
  BY <1>3, <1>4, <1>6, <1>7, <1>8, DisjointUnion
<1>10. e = 1..i /\ i \in Nat
  BY <1>1, <1>5, <1>6, <1>8
<1>11. Cardinality(e) = i
  BY <1>10, FS_Interval
<1>12. /\ Cardinality(a) \in Nat /\ Cardinality(b) \in Nat /\ Cardinality(c) \in Nat
  BY <1>3, FS_CardinalityType
<1> QED BY <1>2, <1>7, <1>9, <1>11, <1>12 DEF Rank

(* The list of how many tokens came before each word that was dropped.     *)
LEMMA AfterIs ==
    ASSUME TextOK, NEW kind
    PROVE  LET K == WordsOf(kind)
           IN  /\ Len(After(kind)) = Cardinality(K)
               /\ DOMAIN After(kind) = 1..Cardinality(K)
               /\ \A i \in K : /\ Rank(K, i) \in 1..Cardinality(K)
                               /\ After(kind)[Rank(K, i)] = Rank(Tokens, i - 1)
               /\ \A k \in 1..Cardinality(K) :
                     \E i \in K : /\ Rank(K, i) = k
                                  /\ After(kind)[k] = Rank(Tokens, i - 1)
<1>1. PICK K, d, m : K = WordsOf(kind) /\ d = PlacesOf(kind) /\ m = Cardinality(K)
  OBVIOUS
<1>2. /\ Len(text) \in Nat /\ K \in SUBSET (1..Len(text))
      /\ places \in Seq(1..Len(text)) /\ Len(places) = Len(text)
      /\ \A i \in 1..Len(text) : places[i] = i
  BY <1>1, WordsAre
<1>3. /\ m \in Nat /\ DOMAIN d = 1..m
      /\ \A k \in 1..m : \E i \in K : Rank(K, i) = k /\ d[k] = places[i]
      /\ \A i \in K : Rank(K, i) \in 1..m /\ d[Rank(K, i)] = places[i]
  <2>1. PICK s, V : s = places /\ V = 1..Len(text)
    OBVIOUS
  <2>2. d = Selected(s, K)
    BY <1>1, <2>1 DEF PlacesOf
  <2>3. s \in Seq(V) /\ K \in SUBSET (1..Len(s))
    BY <1>2, <2>1
  <2>4. /\ m \in Nat /\ DOMAIN d = 1..m
        /\ \A k \in 1..m : \E i \in K : Rank(K, i) = k /\ d[k] = s[i]
        /\ \A i \in K : Rank(K, i) \in 1..m /\ d[Rank(K, i)] = s[i]
    BY <1>1, <2>2, <2>3, SelectedIs
  <2> QED BY <2>1, <2>4
<1>4. After(kind) = [k \in 1..m |-> TokensBefore(d[k])]
  BY <1>1, <1>3 DEF After
<1>5. ASSUME NEW i \in K
      PROVE  /\ Rank(K, i) \in 1..m /\ After(kind)[Rank(K, i)] = Rank(Tokens, i - 1)
  <2>1. Rank(K, i) \in 1..m /\ d[Rank(K, i)] = i
    BY <1>2, <1>3
  <2>2. TokensBefore(i) = Rank(Tokens, i - 1)
    BY <1>2, TokensBeforeIs
  <2> QED BY <1>4, <2>1, <2>2
<1>6. ASSUME NEW k \in 1..m
      PROVE  \E i \in K : Rank(K, i) = k /\ After(kind)[k] = Rank(Tokens, i - 1)
  BY <1>3, <1>5
<1>7. Len(After(kind)) = m /\ DOMAIN After(kind) = 1..m
  BY <1>3, <1>4
<1> QED BY <1>1, <1>5, <1>6, <1>7

(* How many words of a kind come after fewer tokens, and after no more.    *)
Under(K, t) == Cardinality({i \in K : Rank(Tokens, i - 1) < t})
AtMost(K, t) == Cardinality({i \in K : Rank(Tokens, i - 1) <= t})

InGap(kind, k, t) ==
    /\ k \in Nat /\ Under(WordsOf(kind), t) <= k - 1
    /\ k - 1 <= AtMost(WordsOf(kind), t)

LEMMA GapTyped ==
    ASSUME TextOK, NEW kind, NEW t \in Nat
    PROVE  /\ AtMost(WordsOf(kind), t) \in Nat /\ Under(WordsOf(kind), t) \in Nat
           /\ AtMost(WordsOf(kind), t) <= Cardinality(WordsOf(kind))
           /\ Under(WordsOf(kind), t + 1) = AtMost(WordsOf(kind), t)
           /\ Under(WordsOf(kind), t) <= AtMost(WordsOf(kind), t)
           /\ Under(WordsOf(kind), 0) = 0
<1>1. PICK K : K = WordsOf(kind)
  OBVIOUS
<1>2. K \in SUBSET (1..Len(text)) /\ Len(text) \in Nat /\ IsFiniteSet(K)
  BY <1>1, KindRanked, WordsAre DEF KindRanks
<1>3. \A i \in K : Rank(Tokens, i - 1) \in Nat
  <2>1. RankGrows(Tokens) /\ Cardinality(Tokens) \in Nat
    BY KindRanked DEF KindRanks, Tokens
  <2> SUFFICES ASSUME NEW i \in K PROVE Rank(Tokens, i - 1) \in Nat
    OBVIOUS
  <2>2. i - 1 \in Int
    BY <1>2
  <2>3. PICK h \in Int : h = i - 1
    BY <2>2
  <2>4. Rank(Tokens, h) \in 0..Cardinality(Tokens)
    BY <2>1 DEF RankGrows
  <2> QED BY <2>1, <2>3, <2>4
<1>4. PICK A, B : /\ A = {i \in K : Rank(Tokens, i - 1) <= t}
                  /\ B = {i \in K : Rank(Tokens, i - 1) < t}
  OBVIOUS
<1>5. A \in SUBSET K /\ B \in SUBSET A
  BY <1>3, <1>4
<1>6. IsFiniteSet(A) /\ IsFiniteSet(B) /\ Cardinality(A) <= Cardinality(K)
      /\ Cardinality(B) <= Cardinality(A)
  BY <1>2, <1>5, FS_Subset
<1>7. Cardinality(A) \in Nat /\ Cardinality(B) \in Nat
  BY <1>6, FS_CardinalityType
<1>8. {i \in K : Rank(Tokens, i - 1) < t + 1} = A
  BY <1>3, <1>4
<1>9. {i \in K : Rank(Tokens, i - 1) < 0} = {}
  BY <1>3
<1>10. Under(K, 0) = 0
  BY <1>9, FS_EmptySet DEF Under
<1> QED BY <1>1, <1>4, <1>6, <1>7, <1>8, <1>10 DEF AtMost, Under

(* The number on the list is the next one if a word that comes after no    *)
(* more tokens is still to be seen.                                        *)
LEMMA NextIs ==
    ASSUME TextOK, NEW kind, NEW t \in Nat, NEW k, InGap(kind, k, t)
    PROVE  (k <= Len(After(kind)) /\ After(kind)[k] = t)
                <=> k <= AtMost(WordsOf(kind), t)
<1>1. PICK K, A, m : K = WordsOf(kind) /\ A = After(kind) /\ m = Cardinality(K)
  OBVIOUS
<1>2. PICK most, less : most = AtMost(K, t) /\ less = Under(K, t)
  OBVIOUS
<1>3. /\ most \in Nat /\ less \in Nat /\ most <= m /\ m \in Nat
      /\ k \in Nat /\ less <= k - 1 /\ k - 1 <= most
  BY <1>1, <1>2, GapTyped, KindRanked DEF InGap, KindRanks
<1>4. Len(A) = m
  BY <1>1, AfterIs
<1>5. CASE k > m
  BY <1>1, <1>2, <1>3, <1>4, <1>5
<1>6. CASE k <= m
  <2>1. PICK i \in K : Rank(K, i) = k /\ A[k] = Rank(Tokens, i - 1)
    <3>1. k \in 1..m
      BY <1>3, <1>6
    <3> QED BY <1>1, <3>1, AfterIs
  <2>2. PICK r : r = Rank(Tokens, i - 1)
    OBVIOUS
  <2>3. /\ K \in SUBSET (1..Len(text)) /\ Len(text) \in Nat /\ IsFiniteSet(K)
        /\ RankGrows(Tokens) /\ Cardinality(Tokens) \in Nat
    BY <1>1, KindRanked, WordsAre DEF KindRanks, Tokens
  <2>4. \A j \in K : j \in Int /\ j - 1 \in Int
    BY <2>3
  <2>5. ASSUME NEW j \in K
        PROVE  /\ Rank(Tokens, j - 1) \in Nat
               /\ j <= i => Rank(Tokens, j - 1) <= r
               /\ i <= j => r <= Rank(Tokens, j - 1)
    <3>1. PICK g, h \in Int : g = j - 1 /\ h = i - 1
      BY <2>4
    <3>2. Rank(Tokens, g) \in 0..Cardinality(Tokens)
      BY <2>3 DEF RankGrows
    <3>3. Rank(Tokens, g) \in Nat
      BY <2>3, <3>2
    <3>4. g <= h => Rank(Tokens, g) <= Rank(Tokens, h)
      BY <2>3 DEF RankGrows
    <3>5. h <= g => Rank(Tokens, h) <= Rank(Tokens, g)
      BY <2>3 DEF RankGrows
    <3>6. (j <= i => g <= h) /\ (i <= j => h <= g)
      BY <2>4, <3>1
    <3> QED BY <2>2, <3>1, <3>3, <3>4, <3>5, <3>6
  <2>6. r \in Nat
    BY <2>2, <2>5
  <2>7. PICK U, M, B : /\ U = {j \in K : j <= i}
                       /\ M = {j \in K : Rank(Tokens, j - 1) <= t}
                       /\ B = {j \in K : Rank(Tokens, j - 1) < t}
    OBVIOUS
  <2>8. /\ Cardinality(U) = k /\ Cardinality(M) = most /\ Cardinality(B) = less
    BY <1>2, <2>1, <2>7 DEF Rank, AtMost, Under
  <2>9. U \in SUBSET K /\ M \in SUBSET K /\ B \in SUBSET K
    BY <2>7
  <2>10. IsFiniteSet(U) /\ IsFiniteSet(M) /\ IsFiniteSet(B)
    BY <2>3, <2>9, FS_Subset
  <2>11. r >= t
    <3> SUFFICES ASSUME r < t PROVE FALSE
      BY <2>6
    <3>1. U \in SUBSET B
      BY <2>5, <2>6, <2>7
    <3>2. k <= less
      BY <2>8, <2>10, <3>1, FS_Subset
    <3> QED BY <1>3, <3>2
  <2>12. r = t => k <= most
    <3> SUFFICES ASSUME r = t PROVE k <= most
      OBVIOUS
    <3>1. U \in SUBSET M
      BY <2>5, <2>6, <2>7
    <3> QED BY <2>8, <2>10, <3>1, FS_Subset
  <2>13. r > t => ~(k <= most)
    <3> SUFFICES ASSUME r > t PROVE ~(k <= most)
      OBVIOUS
    <3>1. M \in SUBSET U
      <4>1. \A j \in M : ~(i <= j)
        BY <2>5, <2>6, <2>7
      <4> QED BY <2>4, <2>7, <4>1
    <3>2. i \in U /\ i \notin M
      BY <2>2, <2>4, <2>6, <2>7
    <3>3. most <= k /\ most # k
      BY <2>8, <2>10, <3>1, <3>2, FS_Subset
    <3> QED BY <1>3, <3>3
  <2>14. A[k] = t <=> k <= most
    BY <2>1, <2>2, <2>6, <2>11, <2>12, <2>13
  <2> QED BY <1>1, <1>2, <1>4, <1>6, <2>14
<1> QED BY <1>3, <1>5, <1>6

LEMMA KindRankTyped ==
    ASSUME TextOK, NEW kind, NEW i \in Int
    PROVE  Rank(WordsOf(kind), i) \in Nat
<1>1. PICK m : m = Cardinality(WordsOf(kind))
  OBVIOUS
<1>2. m \in Nat /\ RankGrows(WordsOf(kind))
  BY <1>1, KindRanked DEF KindRanks
<1>3. PICK r : r = Rank(WordsOf(kind), i)
  OBVIOUS
<1>4. r \in 0..m
  BY <1>1, <1>2, <1>3 DEF RankGrows
<1> QED BY <1>2, <1>3, <1>4

(* At word i the indices have passed all the words of their kind that come *)
(* after fewer tokens, and perhaps some that come after just as many.      *)
LEMMA AtMostIs ==
    ASSUME TextOK, NEW kind, NEW i \in 0..(Len(text) - 1), NEW t, t = Rank(Tokens, i)
    PROVE  /\ Rank(WordsOf(kind), i + 1) <= AtMost(WordsOf(kind), t)
           /\ i + 1 \in Tokens /\ i + 1 \notin WordsOf(kind) =>
                 AtMost(WordsOf(kind), t) = Rank(WordsOf(kind), i)
<1>1. PICK K : K = WordsOf(kind)
  OBVIOUS
<1>2. /\ K \in SUBSET (1..Len(text)) /\ Len(text) \in Nat /\ IsFiniteSet(K)
      /\ RankGrows(Tokens) /\ Cardinality(Tokens) \in Nat
  BY <1>1, KindRanked, WordsAre DEF KindRanks, Tokens
<1>3. \A j \in K : j \in Int /\ j - 1 \in Int
  BY <1>2
<1>4. i \in Int /\ i + 1 \in Int
  BY <1>2
<1>5. /\ \A h \in Int : Rank(Tokens, h) \in Nat
      /\ \A h \in Int : h <= i => Rank(Tokens, h) <= t
      /\ \A h \in Int : i + 1 <= h => Rank(Tokens, i + 1) <= Rank(Tokens, h)
  <2>1. \A h \in Int : Rank(Tokens, h) \in Nat
    BY KindRankTyped DEF Tokens
  <2>2. \A h \in Int : h <= i => Rank(Tokens, h) <= t
    BY <1>2, <1>4 DEF RankGrows
  <2>3. \A h \in Int : i + 1 <= h => Rank(Tokens, i + 1) <= Rank(Tokens, h)
    BY <1>2, <1>4 DEF RankGrows
  <2> QED BY <2>1, <2>2, <2>3
<1>6. PICK U, M : U = {j \in K : j <= i + 1} /\ M = {j \in K : Rank(Tokens, j - 1) <= t}
  OBVIOUS
<1>7. Cardinality(U) = Rank(K, i + 1) /\ Cardinality(M) = AtMost(K, t)
  BY <1>6 DEF Rank, AtMost
<1>8. U \in SUBSET M
  <2> SUFFICES ASSUME NEW j \in U PROVE j \in M
    OBVIOUS
  <2>1. j \in K /\ j \in Int /\ j - 1 \in Int /\ j - 1 <= i
    BY <1>3, <1>4, <1>6
  <2> QED BY <1>5, <1>6, <2>1
<1>9. M \in SUBSET K /\ IsFiniteSet(M)
  <2>1. M \in SUBSET K
    BY <1>6
  <2> QED BY <1>2, <2>1, FS_Subset
<1>10. Rank(K, i + 1) <= AtMost(K, t)
  BY <1>7, <1>8, <1>9, FS_Subset
<1>11. ASSUME i + 1 \in Tokens, i + 1 \notin K
       PROVE  AtMost(K, t) = Rank(K, i)
  <2>1. PICK h \in Int : h = i + 1
    BY <1>4
  <2>2. Rank(Tokens, h) = Rank(Tokens, h - 1) + (IF h \in Tokens THEN 1 ELSE 0)
    BY <1>2 DEF RankGrows
  <2>3. h - 1 = i
    BY <2>1, <1>4
  <2>4. t \in Nat
    BY <1>4, <1>5
  <2>5. Rank(Tokens, i + 1) = t + 1
    BY <1>11, <2>1, <2>2, <2>3, <2>4
  <2>6. \A j \in K : Rank(Tokens, j - 1) <= t <=> j <= i
    <3> SUFFICES ASSUME NEW j \in K PROVE Rank(Tokens, j - 1) <= t <=> j <= i
      OBVIOUS
    <3>1. PICK g \in Int : g = j - 1
      BY <1>3
    <3>2. j \in Int /\ j # i + 1
      BY <1>3, <1>11
    <3>3. Rank(Tokens, g) \in Nat
      BY <1>5
    <3>4. j <= i => Rank(Tokens, g) <= t
      BY <1>4, <1>5, <3>1, <3>2
    <3>5. ~(j <= i) => t + 1 <= Rank(Tokens, g)
      BY <1>4, <1>5, <2>5, <3>1, <3>2
    <3> QED BY <2>4, <3>1, <3>3, <3>4, <3>5
  <2>7. M = {j \in K : j <= i}
    BY <1>6, <2>6
  <2> QED BY <1>7, <2>7 DEF Rank
<1> QED BY <1>1, <1>10, <1>11

(* What the scan has seen of the words up to i.                            *)
Recovered(o, i) ==
    /\ o \in Seq(1..Len(text)) /\ Len(o) = Rank(Tokens, i)
    /\ \A j \in Tokens : j <= i => o[Rank(Tokens, j)] = j

ScanAt(u, s, o, i) ==
    /\ i \in 0..Len(text) /\ Recovered(o, i)
    /\ InGap({Unknown}, u, Len(o)) /\ InGap(Stopwords, s, Len(o))
    /\ (u - 1) + (s - 1) + Len(o) = i

(* It takes the next word for what it is, a token or a word dropped,       *)
(* although among words dropped after as many tokens it may take one kind  *)
(* for the other.                                                          *)
LEMMA ScanDecides ==
    ASSUME TextOK, NEW u, NEW s, NEW o, NEW i, ScanAt(u, s, o, i), i < Len(text)
    PROVE  /\ i + 1 \in Tokens =>
                 /\ u - 1 = AtMost(WordsOf({Unknown}), Len(o))
                 /\ s - 1 = AtMost(WordsOf(Stopwords), Len(o))
           /\ i + 1 \notin Tokens =>
                 \/ u <= AtMost(WordsOf({Unknown}), Len(o))
                 \/ s <= AtMost(WordsOf(Stopwords), Len(o))
<1>1. PICK K, S, t : K = WordsOf({Unknown}) /\ S = WordsOf(Stopwords) /\ t = Len(o)
  OBVIOUS
<1>2. PICK a, b : a = AtMost(K, t) /\ b = AtMost(S, t)
  OBVIOUS
<1>3. /\ u \in Nat /\ s \in Nat /\ t = Rank(Tokens, i) /\ i \in 0..(Len(text) - 1)
      /\ Len(text) \in Nat /\ u - 1 <= a /\ s - 1 <= b /\ (u - 1) + (s - 1) + t = i
  BY <1>1, <1>2, WordsAre DEF ScanAt, Recovered, InGap
<1>4. /\ t \in Nat /\ a \in Nat /\ b \in Nat
  <2>1. RankGrows(Tokens) /\ i \in Int
    BY <1>3, KindRanked DEF KindRanks, Tokens
  <2>2. t \in Nat
    BY <1>3, <2>1 DEF RankGrows
  <2> QED BY <1>1, <1>2, <2>2, GapTyped
<1>5. PICK h \in Int : h = i + 1
  BY <1>3
<1>6. /\ Rank(K, h) <= a /\ Rank(S, h) <= b
      /\ h \in Tokens /\ h \notin K => a = Rank(K, i)
      /\ h \in Tokens /\ h \notin S => b = Rank(S, i)
  BY <1>1, <1>2, <1>3, <1>5, AtMostIs
<1>7. /\ Rank(Tokens, i) + Rank(K, i) + Rank(S, i) = i
      /\ Rank(Tokens, h) + Rank(K, h) + Rank(S, h) = h
  <2>1. i \in 0..Len(text) /\ h \in 0..Len(text)
    BY <1>3, <1>5
  <2> QED BY <1>1, <2>1, KindsAddUp
<1>8. /\ Rank(K, i) \in Nat /\ Rank(S, i) \in Nat
      /\ Rank(K, h) \in Nat /\ Rank(S, h) \in Nat
      /\ h \notin Tokens => Rank(Tokens, h) = t
  <2>1. RankGrows(Tokens) /\ RankGrows(K) /\ RankGrows(S) /\ i \in Int /\ h - 1 = i
    BY <1>1, <1>3, <1>5, KindRanked DEF KindRanks, Tokens
  <2>2. \A j \in Int : Rank(K, j) \in Nat /\ Rank(S, j) \in Nat
    BY <1>1, KindRankTyped
  <2>3. Rank(Tokens, h) = Rank(Tokens, h - 1) + (IF h \in Tokens THEN 1 ELSE 0)
    BY <2>1 DEF RankGrows
  <2>4. h \notin Tokens => Rank(Tokens, h) = t
    BY <1>3, <1>4, <2>1, <2>3
  <2> QED BY <2>1, <2>2, <2>4
<1>9. h \in Tokens => h \notin K /\ h \notin S
  BY <1>1, MatchAssumption DEF Tokens, WordsOf
<1>10. CASE h \in Tokens
  <2>1. a = Rank(K, i) /\ b = Rank(S, i)
    BY <1>6, <1>9, <1>10
  <2>2. PICK c, d \in Nat : c = Rank(K, i) /\ d = Rank(S, i)
    BY <1>8
  <2>3. t + c + d = i /\ a = c /\ b = d
    BY <1>3, <1>7, <2>1, <2>2
  <2>4. u - 1 = a /\ s - 1 = b
    <3>1. u - 1 <= c /\ s - 1 <= d /\ (u - 1) + (s - 1) + t = t + c + d
      BY <1>3, <2>3
    <3>2. u \in Nat /\ s \in Nat /\ t \in Nat /\ c \in Nat /\ d \in Nat
      BY <1>3, <1>4, <2>2
    <3>3. u - 1 = c /\ s - 1 = d
      BY <3>1, <3>2
    <3> QED BY <2>3, <3>3
  <2> QED BY <1>1, <1>2, <1>5, <1>10, <2>4
<1>11. CASE h \notin Tokens
  <2>1. t + Rank(K, h) + Rank(S, h) = h
    BY <1>7, <1>8, <1>11
  <2>2. u <= a \/ s <= b
    <3>1. PICK x, y \in Nat : x = Rank(K, h) /\ y = Rank(S, h)
      BY <1>8
    <3>2. x <= a /\ y <= b /\ t + x + y = i + 1
      BY <1>5, <1>6, <2>1, <3>1
    <3>3. u - 1 <= a /\ s - 1 <= b /\ (u - 1) + (s - 1) + t = i
      BY <1>3
    <3>4. u \in Nat /\ s \in Nat /\ i \in Nat
      BY <1>3
    <3> QED BY <1>4, <3>2, <3>3, <3>4
  <2> QED BY <1>1, <1>2, <1>5, <1>11, <2>2
<1> QED BY <1>10, <1>11

LEMMA ScanBegins == TextOK => ScanAt(1, 1, <<>>, 0)
<1> SUFFICES ASSUME TextOK PROVE ScanAt(1, 1, <<>>, 0)
  OBVIOUS
<1>1. \A kind : InGap(kind, 1, 0)
  BY GapTyped DEF InGap
<1>2. PICK e : e = <<>>
  OBVIOUS
<1>3. Len(text) \in Nat /\ Tokens \in SUBSET (1..Len(text)) /\ Rank(Tokens, 0) = 0
  BY WordsAre, KindRanked DEF KindRanks, Tokens
<1>4. Recovered(e, 0)
  <2>1. e \in Seq(1..Len(text)) /\ Len(e) = 0
    BY <1>2
  <2>2. \A j \in Tokens : ~(j <= 0)
    BY <1>3
  <2> QED BY <1>3, <2>1, <2>2 DEF Recovered
<1>5. Len(e) = 0
  BY <1>2
<1> QED BY <1>1, <1>2, <1>3, <1>4, <1>5 DEF ScanAt

LEMMA ScanSkips ==
    ASSUME TextOK, NEW u, NEW s, NEW o, NEW i, ScanAt(u, s, o, i), i < Len(text),
           i + 1 \notin Tokens
    PROVE  /\ u <= AtMost(WordsOf({Unknown}), Len(o)) => ScanAt(u + 1, s, o, i + 1)
           /\ s <= AtMost(WordsOf(Stopwords), Len(o)) => ScanAt(u, s + 1, o, i + 1)
<1>1. /\ u \in Nat /\ s \in Nat /\ i \in 0..(Len(text) - 1) /\ Len(text) \in Nat
      /\ Len(o) \in Nat /\ Len(o) = Rank(Tokens, i) /\ o \in Seq(1..Len(text))
  BY WordsAre DEF ScanAt, Recovered, InGap
<1>2. PICK h \in Int : h = i + 1 /\ h - 1 = i
  BY <1>1
<1>3. Rank(Tokens, h) = Len(o)
  <2>1. RankGrows(Tokens)
    BY KindRanked DEF KindRanks, Tokens
  <2>2. Rank(Tokens, h) = Rank(Tokens, h - 1) + (IF h \in Tokens THEN 1 ELSE 0)
    BY <2>1 DEF RankGrows
  <2> QED BY <1>1, <1>2, <2>2
<1>4. Recovered(o, h)
  <2>1. \A j \in Tokens : j <= h => j <= i
    BY <1>1, <1>2, WordsAre DEF Tokens
  <2> QED BY <1>1, <1>3, <2>1 DEF Recovered, ScanAt
<1>5. \A kind, k : InGap(kind, k, Len(o)) /\ k <= AtMost(WordsOf(kind), Len(o))
                     => InGap(kind, k + 1, Len(o))
  <2> SUFFICES ASSUME NEW kind, NEW k, InGap(kind, k, Len(o)),
                      k <= AtMost(WordsOf(kind), Len(o))
               PROVE  InGap(kind, k + 1, Len(o))
    OBVIOUS
  <2>1. PICK c, d : c = AtMost(WordsOf(kind), Len(o)) /\ d = Under(WordsOf(kind), Len(o))
    OBVIOUS
  <2>2. c \in Nat /\ d \in Nat
    BY <1>1, <2>1, GapTyped
  <2>3. k \in Nat /\ d <= k - 1 /\ k <= c
    BY <2>1 DEF InGap
  <2>4. k + 1 \in Nat /\ d <= k + 1 - 1 /\ k + 1 - 1 <= c
    BY <2>2, <2>3
  <2> QED BY <2>1, <2>4 DEF InGap
<1>6. h \in 0..Len(text) /\ (u + 1 - 1) + (s - 1) + Len(o) = h
      /\ (u - 1) + (s + 1 - 1) + Len(o) = h
  BY <1>1, <1>2 DEF ScanAt
<1>7. InGap({Unknown}, u, Len(o)) /\ InGap(Stopwords, s, Len(o))
  BY DEF ScanAt
<1>8. ASSUME u <= AtMost(WordsOf({Unknown}), Len(o))
      PROVE  ScanAt(u + 1, s, o, h)
  <2>1. PICK v : v = u + 1
    OBVIOUS
  <2>2. InGap({Unknown}, v, Len(o))
    BY <1>5, <1>7, <1>8, <2>1
  <2>3. (v - 1) + (s - 1) + Len(o) = h
    BY <1>1, <1>6, <2>1
  <2>4. ScanAt(v, s, o, h)
    BY <1>4, <1>6, <1>7, <2>2, <2>3 DEF ScanAt
  <2> QED BY <2>1, <2>4
<1>9. ASSUME s <= AtMost(WordsOf(Stopwords), Len(o))
      PROVE  ScanAt(u, s + 1, o, h)
  <2>1. PICK v : v = s + 1
    OBVIOUS
  <2>2. InGap(Stopwords, v, Len(o))
    BY <1>5, <1>7, <1>9, <2>1
  <2>3. (u - 1) + (v - 1) + Len(o) = h
    BY <1>1, <1>6, <2>1
  <2>4. ScanAt(u, v, o, h)
    BY <1>4, <1>6, <1>7, <2>2, <2>3 DEF ScanAt
  <2> QED BY <2>1, <2>4
<1> QED BY <1>2, <1>8, <1>9

LEMMA ScanTakes ==
    ASSUME TextOK, NEW u, NEW s, NEW o, NEW i, ScanAt(u, s, o, i), i < Len(text),
           i + 1 \in Tokens
    PROVE  ScanAt(u, s, Append(o, i + 1), i + 1)
<1>1. /\ u \in Nat /\ s \in Nat /\ i \in 0..(Len(text) - 1) /\ Len(text) \in Nat
      /\ Len(o) \in Nat /\ Len(o) = Rank(Tokens, i) /\ o \in Seq(1..Len(text))
  BY WordsAre DEF ScanAt, Recovered, InGap
<1>2. PICK h \in Int : h = i + 1 /\ h - 1 = i
  BY <1>1
<1>3. Rank(Tokens, h) = Len(o) + 1
  <2>1. RankGrows(Tokens)
    BY KindRanked DEF KindRanks, Tokens
  <2>2. Rank(Tokens, h) = Rank(Tokens, h - 1) + (IF h \in Tokens THEN 1 ELSE 0)
    BY <2>1 DEF RankGrows
  <2> QED BY <1>1, <1>2, <2>2
<1>4. PICK q : q = Append(o, h)
  OBVIOUS
<1>5. /\ q \in Seq(1..Len(text)) /\ Len(q) = Len(o) + 1 /\ q[Len(o) + 1] = h
      /\ \A k \in 1..Len(o) : q[k] = o[k]
  BY <1>1, <1>2, <1>4
<1>6. Recovered(q, h)
  <2> SUFFICES ASSUME NEW j \in Tokens, j <= h PROVE q[Rank(Tokens, j)] = j
    BY <1>3, <1>5 DEF Recovered
  <2>1. CASE j = h
    BY <1>3, <1>5, <2>1
  <2>2. CASE j # h
    <3>1. j <= i /\ j \in Int
      BY <1>1, <1>2, <2>2, WordsAre DEF Tokens
    <3>2. o[Rank(Tokens, j)] = j
      BY <3>1 DEF Recovered, ScanAt
    <3>3. Rank(Tokens, j) \in 1..Len(o)
      <4>1. RankGrows(Tokens) /\ Cardinality(Tokens) \in Nat
        BY KindRanked DEF KindRanks, Tokens
      <4>2. Rank(Tokens, j) <= Rank(Tokens, i)
        BY <1>1, <3>1, <4>1 DEF RankGrows
      <4>3. Rank(Tokens, j) = Rank(Tokens, j - 1) + 1
        BY <3>1, <4>1 DEF RankGrows
      <4>4. PICK g \in Int : g = j - 1
        BY <3>1
      <4>5. Rank(Tokens, g) \in Nat
        BY KindRankTyped DEF Tokens
      <4> QED BY <1>1, <4>2, <4>3, <4>4, <4>5
    <3> QED BY <1>5, <3>2, <3>3
  <2> QED BY <2>1, <2>2
<1>7. \A kind, k : InGap(kind, k, Len(o)) /\ k - 1 = AtMost(WordsOf(kind), Len(o))
                     => InGap(kind, k, Len(o) + 1)
  <2> SUFFICES ASSUME NEW kind, NEW k, InGap(kind, k, Len(o)),
                      k - 1 = AtMost(WordsOf(kind), Len(o))
               PROVE  InGap(kind, k, Len(o) + 1)
    OBVIOUS
  <2>1. PICK t \in Nat : t = Len(o) + 1
    BY <1>1
  <2>2. Under(WordsOf(kind), t) = AtMost(WordsOf(kind), Len(o))
    BY <1>1, <2>1, GapTyped
  <2>3. /\ Under(WordsOf(kind), t) <= AtMost(WordsOf(kind), t)
        /\ Under(WordsOf(kind), t) \in Nat
    BY <2>1, GapTyped
  <2> QED BY <2>1, <2>2, <2>3 DEF InGap
<1>8. InGap({Unknown}, u, Len(q)) /\ InGap(Stopwords, s, Len(q))
  BY <1>5, <1>7, ScanDecides DEF ScanAt
<1>9. h \in 0..Len(text) /\ (u - 1) + (s - 1) + Len(q) = h
  BY <1>1, <1>2, <1>5 DEF ScanAt
<1> QED BY <1>2, <1>4, <1>6, <1>8, <1>9 DEF ScanAt

(* Where the tokens are.                                                   *)
LEMMA TokenPlaces ==
    ASSUME TextOK
    PROVE  /\ Len(ids) \in Nat /\ Cardinality(Tokens) = Len(ids)
           /\ PlacesOf(Vocabulary) \in Seq(1..Len(text))
           /\ Len(PlacesOf(Vocabulary)) = Len(ids)
           /\ \A k \in 1..Len(ids) : /\ PlacesOf(Vocabulary)[k] \in Tokens
                                     /\ Rank(Tokens, PlacesOf(Vocabulary)[k]) = k
           /\ \A j \in Tokens : /\ Rank(Tokens, j) \in 1..Len(ids)
                                /\ PlacesOf(Vocabulary)[Rank(Tokens, j)] = j
                                /\ ids[Rank(Tokens, j)] = text[j]
<1>1. PICK S, p, s, V, q : /\ S = Tokens /\ p = PlacesOf(Vocabulary) /\ s = places
                           /\ V = 1..Len(text) /\ q = ids
  OBVIOUS
<1>2. /\ s \in Seq(V) /\ S \in SUBSET (1..Len(s)) /\ S \in SUBSET (1..Len(text))
      /\ text \in Seq(Words) /\ \A i \in V : s[i] = i
  BY <1>1, WordsAre DEF Tokens, TextOK
<1>3. p = Selected(s, S) /\ q = Selected(text, S)
  BY <1>1 DEF PlacesOf, ids, Tokens
<1>4. /\ Cardinality(S) \in Nat /\ p \in Seq(V) /\ Len(p) = Cardinality(S)
      /\ \A k \in 1..Cardinality(S) : \E i \in S : Rank(S, i) = k /\ p[k] = s[i]
      /\ \A i \in S : Rank(S, i) \in 1..Cardinality(S) /\ p[Rank(S, i)] = s[i]
  BY <1>2, <1>3, SelectedIs
<1>5. /\ Len(q) = Cardinality(S)
      /\ \A i \in S : q[Rank(S, i)] = text[i]
  BY <1>2, <1>3, SelectedIs
<1>6. \A i \in S : s[i] = i
  BY <1>1, <1>2
<1>7. \A k \in 1..Cardinality(S) : p[k] \in S /\ Rank(S, p[k]) = k
  BY <1>4, <1>6
<1>8. \A j \in S : p[Rank(S, j)] = j
  BY <1>4, <1>6
<1> QED BY <1>1, <1>4, <1>5, <1>7, <1>8

LEMMA ScanEnds ==
    ASSUME TextOK, NEW u, NEW s, NEW o, ScanAt(u, s, o, Len(text))
    PROVE  o = PlacesOf(Vocabulary)
<1>1. PICK p, m, V : p = PlacesOf(Vocabulary) /\ m = Len(ids) /\ V = 1..Len(text)
  OBVIOUS
<1>2. /\ m \in Nat /\ p \in Seq(V) /\ Len(p) = m
      /\ \A k \in 1..m : p[k] \in Tokens /\ Rank(Tokens, p[k]) = k
  BY <1>1, TokenPlaces
<1>3. o \in Seq(V) /\ Len(o) = m
  <2>1. Rank(Tokens, Len(text)) = m
    BY <1>1, TokenPlaces, KindRanked DEF KindRanks, Tokens
  <2> QED BY <1>1, <2>1 DEF ScanAt, Recovered
<1>4. \A j \in Tokens : o[Rank(Tokens, j)] = j
  <2>1. \A j \in Tokens : j <= Len(text)
    BY WordsAre DEF Tokens
  <2> QED BY <2>1 DEF ScanAt, Recovered
<1>5. \A k \in 1..m : o[k] = p[k]
  BY <1>2, <1>4
<1>6. o = p
  BY <1>2, <1>3, <1>5
<1> QED BY <1>1, <1>6

(* Without dropped words every word is a token.                            *)
LEMMA AllTokens ==
    ASSUME TextOK, ~hasOmittedWords
    PROVE  PlacesOf(Vocabulary) = places
<1>1. \A kind \in {{Unknown}, Stopwords} : Cardinality(WordsOf(kind)) = 0
  <2>1. Len(<<>>) = 0
    OBVIOUS
  <2>2. Len(After({Unknown})) = 0 /\ Len(After(Stopwords)) = 0
    BY <2>1 DEF hasOmittedWords, unknownAfter, stopwordAfter
  <2> QED BY <2>2, AfterIs
<1>2. \A i \in 0..Len(text) : Rank(Tokens, i) = i
  <2> SUFFICES ASSUME NEW i \in 0..Len(text) PROVE Rank(Tokens, i) = i
    OBVIOUS
  <2>1. i \in Int
    BY WordsAre
  <2>2. ASSUME NEW kind \in {{Unknown}, Stopwords} PROVE Rank(WordsOf(kind), i) = 0
    <3>1. PICK r : r = Rank(WordsOf(kind), i)
      OBVIOUS
    <3>2. RankGrows(WordsOf(kind)) /\ Cardinality(WordsOf(kind)) = 0
      BY <1>1, KindRanked DEF KindRanks
    <3>3. r \in 0..0
      BY <2>1, <3>1, <3>2 DEF RankGrows
    <3> QED BY <3>1, <3>3
  <2>3. PICK a, b, c : /\ a = Rank(Tokens, i) /\ b = Rank(WordsOf({Unknown}), i)
                       /\ c = Rank(WordsOf(Stopwords), i)
    OBVIOUS
  <2>4. b = 0 /\ c = 0 /\ a + b + c = i
    BY <2>2, <2>3, KindsAddUp
  <2>5. a \in Nat
    BY <2>1, <2>3, KindRankTyped DEF Tokens
  <2> QED BY <2>3, <2>4, <2>5
<1>3. PICK p, m, V, s : /\ p = PlacesOf(Vocabulary) /\ m = Len(ids) /\ V = 1..Len(text)
                        /\ s = places
  OBVIOUS
<1>4. /\ m \in Nat /\ p \in Seq(V) /\ Len(p) = m
      /\ \A k \in 1..m : p[k] \in Tokens /\ Rank(Tokens, p[k]) = k
  BY <1>3, TokenPlaces
<1>5. Len(text) \in Nat /\ s \in Seq(V) /\ Len(s) = Len(text) /\ \A i \in V : s[i] = i
  BY <1>3, WordsAre
<1>6. m = Len(text)
  <2>1. Rank(Tokens, Len(text)) = m
    BY <1>3, TokenPlaces, KindRanked DEF KindRanks, Tokens
  <2> QED BY <1>2, <1>5, <2>1
<1>7. \A k \in 1..m : p[k] = k
  <2>1. Tokens \in SUBSET (1..Len(text))
    BY WordsAre DEF Tokens
  <2>2. \A j \in Tokens : Rank(Tokens, j) = j
    BY <1>2, <1>5, <2>1
  <2> QED BY <1>4, <2>2
<1>8. p = s
  BY <1>3, <1>4, <1>5, <1>6, <1>7
<1> QED BY <1>3, <1>8

(* The second scan, and what Located needs of it.                          *)
Reporting == {"filter", "lists", "groups", "downgrade", "done"}

ScanInv ==
    /\ stage \in Collecting => unknownIndex = 1 /\ stopwordIndex = 1 /\ offsets = <<>>
    /\ stage = "offsets" =>
          /\ hasOmittedWords
          /\ ScanAt(unknownIndex, stopwordIndex, offsets, at)
    /\ stage \in Reporting /\ method # "hash" /\ found # <<>> =>
          offsets = IF hasOmittedWords THEN PlacesOf(Vocabulary) ELSE <<>>
    /\ stage \in {"filter", "lists"} => at = 0
    /\ stage \in {"groups", "downgrade"} => at \in Nat

LEMMA SameScan ==
    ASSUME text' = text
    PROVE  \A u, s, o, i : ScanAt(u, s, o, i)' <=> ScanAt(u, s, o, i)
<1>1. Tokens' = Tokens /\ \A kind : WordsOf(kind)' = WordsOf(kind)
  BY SameWords DEF Tokens
<1>2. \A K, t : Under(K, t)' = Under(K, t) /\ AtMost(K, t)' = AtMost(K, t)
  BY <1>1 DEF Under, AtMost, Rank
<1>3. \A o, i : Recovered(o, i)' <=> Recovered(o, i)
  BY <1>1 DEF Recovered, Rank
<1>4. \A kind, k, t : InGap(kind, k, t)' <=> InGap(kind, k, t)
  BY <1>1, <1>2 DEF InGap
<1> QED BY <1>3, <1>4 DEF ScanAt

LEMMA ScanStepInv ==
    ASSUME TextOK, ScanInv, ScanStep
    PROVE  ScanInv'
<1>1. /\ stage = "offsets" /\ text' = text /\ found' = found /\ method' = method
      /\ hasOmittedWords /\ ScanAt(unknownIndex, stopwordIndex, offsets, at)
  BY DEF ScanStep, SkipUnknown, SkipStopword, KnownToken, NextWord, EndScan, ScanInv
<1>2. /\ hasOmittedWords' = hasOmittedWords /\ PlacesOf(Vocabulary)' = PlacesOf(Vocabulary)
      /\ \A u, s, o, i : ScanAt(u, s, o, i)' <=> ScanAt(u, s, o, i)
  BY <1>1, SameWords, SameScan
<1>3. PICK u, s, o, i : u = unknownIndex /\ s = stopwordIndex /\ o = offsets /\ i = at
  OBVIOUS
<1>4. /\ ScanAt(u, s, o, i) /\ i \in Nat /\ Len(o) \in Nat
      /\ InGap({Unknown}, u, Len(o)) /\ InGap(Stopwords, s, Len(o))
  <2>1. ScanAt(u, s, o, i)
    BY <1>1, <1>3
  <2>2. Len(text) \in Nat
    BY WordsAre
  <2> QED BY <2>1, <2>2 DEF ScanAt, Recovered
<1>5. /\ IsNext(unknownAfter, u) <=> u <= AtMost(WordsOf({Unknown}), Len(o))
      /\ IsNext(stopwordAfter, s) <=> s <= AtMost(WordsOf(Stopwords), Len(o))
  BY <1>3, <1>4, NextIs DEF IsNext, unknownAfter, stopwordAfter
<1>6. CASE SkipUnknown
  <2>1. i < Len(text) /\ IsNext(unknownAfter, u)
    BY <1>3, <1>6 DEF SkipUnknown, NextWord
  <2>2. i + 1 \notin Tokens
    <3> SUFFICES ASSUME i + 1 \in Tokens PROVE FALSE
      OBVIOUS
    <3>1. u - 1 = AtMost(WordsOf({Unknown}), Len(o)) /\ u \in Nat
      BY <1>4, <2>1, ScanDecides DEF InGap
    <3> QED BY <1>5, <2>1, <3>1
  <2>3. ScanAt(u + 1, s, o, i + 1)
    BY <1>4, <1>5, <2>1, <2>2, ScanSkips
  <2>4. /\ unknownIndex' = u + 1 /\ stopwordIndex' = s /\ offsets' = o /\ at' = i + 1
        /\ stage' = "offsets"
    BY <1>3, <1>6 DEF SkipUnknown, NextWord
  <2> QED BY <1>1, <1>2, <2>3, <2>4 DEF ScanInv, Collecting, Reporting
<1>7. CASE SkipStopword
  <2>1. i < Len(text) /\ IsNext(stopwordAfter, s)
    BY <1>3, <1>7 DEF SkipStopword, NextWord
  <2>2. i + 1 \notin Tokens
    <3> SUFFICES ASSUME i + 1 \in Tokens PROVE FALSE
      OBVIOUS
    <3>1. s - 1 = AtMost(WordsOf(Stopwords), Len(o)) /\ s \in Nat
      BY <1>4, <2>1, ScanDecides DEF InGap
    <3> QED BY <1>5, <2>1, <3>1
  <2>3. ScanAt(u, s + 1, o, i + 1)
    BY <1>4, <1>5, <2>1, <2>2, ScanSkips
  <2>4. /\ unknownIndex' = u /\ stopwordIndex' = s + 1 /\ offsets' = o /\ at' = i + 1
        /\ stage' = "offsets"
    BY <1>3, <1>7 DEF SkipStopword, NextWord
  <2> QED BY <1>1, <1>2, <2>3, <2>4 DEF ScanInv, Collecting, Reporting
<1>8. CASE KnownToken
  <2>1. i < Len(text) /\ ~IsNext(unknownAfter, u) /\ ~IsNext(stopwordAfter, s)
    BY <1>3, <1>8 DEF KnownToken, NextWord
  <2>2. i + 1 \in Tokens
    BY <1>4, <1>5, <2>1, ScanDecides
  <2>3. ScanAt(u, s, Append(o, i + 1), i + 1)
    BY <1>4, <2>1, <2>2, ScanTakes
  <2>4. /\ unknownIndex' = u /\ stopwordIndex' = s /\ offsets' = Append(o, i + 1)
        /\ at' = i + 1 /\ stage' = "offsets"
    BY <1>3, <1>8 DEF KnownToken, NextWord
  <2> QED BY <1>1, <1>2, <2>3, <2>4 DEF ScanInv, Collecting, Reporting
<1>9. CASE EndScan
  <2>1. at = Len(text) /\ at' = 0 /\ stage' = "filter" /\ offsets' = offsets
    BY <1>9 DEF EndScan, scan
  <2>2. offsets = PlacesOf(Vocabulary)
    BY <1>1, <2>1, ScanEnds
  <2> QED BY <1>1, <1>2, <2>1, <2>2 DEF ScanInv, Collecting, Reporting
<1> QED BY <1>6, <1>7, <1>8, <1>9 DEF ScanStep

LEMMA StepScanInv == MInv /\ KeptInv /\ ScanInv /\ [MNext]_mvars => ScanInv'
<1> SUFFICES ASSUME MInv, KeptInv, ScanInv, [MNext]_mvars PROVE ScanInv'
  OBVIOUS
<1>1. text' = text
  BY DEF MNext, MatchStep, NoTokens, ByHash, ByAutomaton, FirstPass, CountPass, SecondPass,
         EndPass, FallBack, StartFilter, FilterStep, StartLists, ListStep, Finish,
         MInterrupted, MEnded, mvars, call, ScanStep, SkipUnknown,
         SkipStopword, KnownToken, NextWord, EndScan, GroupStep, StartGroups, AddMatch,
         EndGroups, DowngradeDetection
<1>2. /\ hasOmittedWords' = hasOmittedWords /\ PlacesOf(Vocabulary)' = PlacesOf(Vocabulary)
      /\ \A u, s, o, i : ScanAt(u, s, o, i)' <=> ScanAt(u, s, o, i)
  BY <1>1, SameWords, SameScan
<1>3. CASE NoTokens
  <2>1. stage' = "done" /\ found' = <<>>
    BY <1>3 DEF NoTokens, MInv, CollectInv
  <2> QED BY <2>1 DEF ScanInv, Collecting, Reporting
<1>4. CASE \/ ByHash \/ ByAutomaton \/ FirstPass \/ CountPass \/ SecondPass \/ EndPass
           \/ FallBack \/ MInterrupted
  <2>1. /\ stage' \in Collecting \cup {"tooMany", "canceled"}
        /\ stage' \in Collecting => stage \in Collecting /\ UNCHANGED scan
    BY <1>4 DEF ByHash, ByAutomaton, FirstPass, CountPass, SecondPass, EndPass,
                FallBack, MInterrupted, Collecting
  <2> QED BY <2>1 DEF ScanInv, Collecting, Reporting, scan
<1>5. CASE StartFilter
  <2>1. /\ stage = "omitted" /\ at = 0 /\ at' = 0 /\ UNCHANGED scan /\ method' = method
        /\ stage' = IF Remaining # <<>> /\ method = "exact" /\ hasOmittedWords
                    THEN "offsets" ELSE "filter"
        /\ found' = Remaining
    BY <1>5 DEF StartFilter, MInv, CollectInv
  <2>2. unknownIndex' = 1 /\ stopwordIndex' = 1 /\ offsets' = <<>>
    BY <2>1 DEF ScanInv, Collecting, scan
  <2>3. ScanAt(1, 1, <<>>, 0)
    BY ScanBegins DEF MInv
  <2>4. stage' = "offsets" => hasOmittedWords
    BY <2>1
  <2>5. stage' = "filter" /\ method # "hash" /\ found' # <<>> => ~hasOmittedWords
    BY <2>1 DEF KeptInv
  <2>6. stage' \in {"offsets", "filter"}
    BY <2>1
  <2> QED BY <1>2, <2>1, <2>2, <2>3, <2>4, <2>5, <2>6 DEF ScanInv, Collecting, Reporting
<1>6. CASE ScanStep
  BY <1>6, ScanStepInv DEF MInv
<1>7. CASE FilterStep \/ StartLists \/ ListStep \/ MEnded \/ UNCHANGED mvars
  <2>1. /\ UNCHANGED scan /\ at' = at /\ found' = found /\ method' = method
        /\ stage' = stage \/ (stage = "filter" /\ stage' = "lists")
    BY <1>7 DEF FilterStep, StartLists, ListStep, MEnded, mvars, call
  <2> QED BY <1>2, <2>1 DEF ScanInv, Collecting, Reporting, scan
<1>8. CASE GroupStep \/ DowngradeDetection \/ Finish
  <2>1. /\ UNCHANGED scan /\ found' = found /\ method' = method
        /\ stage \in Reporting /\ stage' \in {"groups", "downgrade", "done"}
        /\ at' \in {at, at + 1, 0}
        /\ stage' \in {"groups", "downgrade"} => at \in Nat
    <3>1. CASE StartGroups
      BY <3>1 DEF StartGroups, Reporting, ScanInv
    <3>2. CASE AddMatch
      BY <3>2 DEF AddMatch, Reporting, ScanInv
    <3>3. CASE EndGroups
      BY <3>3 DEF EndGroups, Reporting, ScanInv
    <3>4. CASE DowngradeDetection
      BY <3>4 DEF DowngradeDetection, Reporting, ScanInv
    <3>5. CASE Finish
      BY <3>5 DEF Finish, Reporting, ScanInv
    <3> QED BY <1>8, <3>1, <3>2, <3>3, <3>4, <3>5 DEF GroupStep
  <2> QED BY <1>2, <2>1 DEF ScanInv, Collecting, Reporting, scan
<1> QED BY <1>3, <1>4, <1>5, <1>6, <1>7, <1>8 DEF MNext, MatchStep

LEMMA ScanInductive == MSpec => []ScanInv
<1>1. MInit => ScanInv
  BY DEF MInit, ScanInv, Collecting, Reporting
<1> QED BY <1>1, MInductive, KeptInductive, StepScanInv, PTL DEF MSpec

-----------------------------------------------------------------------------
(* The part of a set from f to l, and the ranks in it.                     *)
FromTo(S, f, l) == {j \in S : f <= j /\ j <= l}

LEMMA PartRanks ==
    ASSUME NEW S \in SUBSET Nat, IsFiniteSet(S), NEW f \in Nat, NEW l \in Nat, f <= l,
           NEW T, T = FromTo(S, f, l)
    PROVE  /\ \A j \in Int : f - 1 <= j /\ j <= l =>
                 Rank(T, j) = Rank(S, j) - Rank(S, f - 1)
           /\ Cardinality(T) = Rank(S, l) - Rank(S, f - 1)
<1>1. T \in SUBSET Nat /\ T \in SUBSET S
  BY DEF FromTo
<1>2. IsFiniteSet(T)
  BY <1>1, FS_Subset
<1>3. ASSUME NEW j \in Int, f - 1 <= j, j <= l
      PROVE  Rank(T, j) = Rank(S, j) - Rank(S, f - 1)
  <2>1. PICK A, B, C : A = UpTo(S, j) /\ B = UpTo(S, f - 1) /\ C = UpTo(T, j)
    OBVIOUS
  <2>2. /\ Rank(S, j) = Cardinality(A) /\ Rank(S, f - 1) = Cardinality(B)
        /\ Rank(T, j) = Cardinality(C)
        /\ A \in SUBSET S /\ B \in SUBSET S /\ C \in SUBSET T
    <3>1. /\ \A i : UpTo(S, i) \in SUBSET S /\ Rank(S, i) = Cardinality(UpTo(S, i))
          /\ \A i : UpTo(T, i) \in SUBSET T /\ Rank(T, i) = Cardinality(UpTo(T, i))
      <4>1. \A i : UpTo(S, i) \in SUBSET S /\ Rank(S, i) = Cardinality(UpTo(S, i))
        BY UpToGrowsBy
      <4>2. \A i : UpTo(T, i) \in SUBSET T /\ Rank(T, i) = Cardinality(UpTo(T, i))
        BY <1>1, UpToGrowsBy
      <4> QED BY <4>1, <4>2
    <3> QED BY <2>1, <3>1
  <2>3. IsFiniteSet(A) /\ IsFiniteSet(B) /\ IsFiniteSet(C)
    BY <1>2, <2>2, FS_Subset
  <2>4. A = B \cup C
    <3>1. \A x \in S : x <= j <=> x <= f - 1 \/ (f <= x /\ x <= l /\ x <= j)
      BY <1>3
    <3> QED BY <2>1, <3>1 DEF UpTo, FromTo
  <2>5. B \cap C = {}
    <3>1. \A x \in S : ~(x <= f - 1 /\ f <= x)
      OBVIOUS
    <3> QED BY <2>1, <3>1 DEF UpTo, FromTo
  <2>6. Cardinality(A) = Cardinality(B) + Cardinality(C)
    BY <2>3, <2>4, <2>5, DisjointUnion
  <2>7. Cardinality(A) \in Nat /\ Cardinality(B) \in Nat /\ Cardinality(C) \in Nat
    BY <2>3, FS_CardinalityType
  <2> QED BY <2>2, <2>6, <2>7
<1>4. Rank(T, l) = Cardinality(T)
  <2>1. {j \in T : j <= l} = T
    BY DEF FromTo
  <2> QED BY <2>1 DEF Rank
<1>5. l \in Int /\ f - 1 <= l
  OBVIOUS
<1> QED BY <1>3, <1>4, <1>5

(* A stretch of the input, from the token that is to be number a to the    *)
(* one that is number b.                                                   *)
Spanned(f, l, a, b) ==
    /\ f \in Tokens /\ l \in Tokens
    /\ Rank(Tokens, f) = a + 1 /\ Rank(Tokens, l) = b

Part(kind, f, l) == {i \in f..l : text[i] \in kind}

LEMMA SpannedIs ==
    ASSUME TextOK, NEW a \in Nat, NEW b \in Nat, a < b, NEW f, NEW l, Spanned(f, l, a, b)
    PROVE  /\ f \in 1..Len(text) /\ l \in 1..Len(text) /\ f <= l /\ Len(text) \in Nat
           /\ \A kind : Part(kind, f, l) = FromTo(WordsOf(kind), f, l)
           /\ Rank(Tokens, f - 1) = a /\ Rank(Tokens, l - 1) = b - 1
<1>1. /\ Tokens \in SUBSET (1..Len(text)) /\ Len(text) \in Nat /\ DOMAIN text = 1..Len(text)
      /\ RankGrows(Tokens)
  BY WordsAre, KindRanked DEF Tokens, KindRanks
<1>2. f \in 1..Len(text) /\ l \in 1..Len(text) /\ f \in Int /\ l \in Int
  BY <1>1 DEF Spanned
<1>3. f <= l
  <2> SUFFICES ASSUME l <= f PROVE f <= l
    BY <1>2
  <2>1. Rank(Tokens, l) <= Rank(Tokens, f)
    BY <1>1, <1>2 DEF RankGrows
  <2>2. b <= a + 1
    BY <2>1 DEF Spanned
  <2>3. PICK u, v \in Int : u = f - 1 /\ v = l - 1
    BY <1>2
  <2>4. /\ Rank(Tokens, f) = Rank(Tokens, u) + 1 /\ Rank(Tokens, l) = Rank(Tokens, v) + 1
    BY <1>1, <1>2, <2>3 DEF RankGrows, Spanned
  <2>5. CASE l <= u
    <3>1. Rank(Tokens, l) <= Rank(Tokens, u)
      BY <1>1, <1>2, <2>3, <2>5 DEF RankGrows
    <3>2. Rank(Tokens, u) \in Nat
      BY <2>3, KindRankTyped DEF Tokens
    <3> QED BY <2>4, <3>1, <3>2 DEF Spanned
  <2> QED BY <1>2, <2>3, <2>5
<1>4. \A kind : Part(kind, f, l) = FromTo(WordsOf(kind), f, l)
  BY <1>1, <1>2 DEF Part, WordsOf, FromTo
<1>5. PICK u, v \in Int : u = f - 1 /\ v = l - 1
  BY <1>2
<1>6. Rank(Tokens, f) = Rank(Tokens, u) + 1 /\ Rank(Tokens, l) = Rank(Tokens, v) + 1
  BY <1>1, <1>2, <1>5 DEF RankGrows, Spanned
<1>7. Rank(Tokens, u) \in Nat /\ Rank(Tokens, v) \in Nat
  BY KindRankTyped DEF Tokens
<1>8. Rank(Tokens, f - 1) = a /\ Rank(Tokens, l - 1) = b - 1
  BY <1>5, <1>6, <1>7 DEF Spanned
<1> QED BY <1>1, <1>2, <1>3, <1>4, <1>8

(* Its tokens are those of the rule that occurs there.                     *)
LEMMA SpannedTokens ==
    ASSUME TextOK, NEW a \in Nat, NEW b \in Nat, a < b, b <= Len(ids),
           NEW f, NEW l, Spanned(f, l, a, b)
    PROVE  Selected(text, Part(Vocabulary, f, l)) = SubSeq(ids, a + 1, b)
<1>1. PICK T : T = Part(Vocabulary, f, l)
  OBVIOUS
<1>2. /\ f \in 1..Len(text) /\ l \in 1..Len(text) /\ f <= l /\ Len(text) \in Nat
      /\ T = FromTo(Tokens, f, l)
      /\ Rank(Tokens, f - 1) = a /\ Rank(Tokens, l) = b
  <2>1. /\ f \in 1..Len(text) /\ l \in 1..Len(text) /\ f <= l /\ Len(text) \in Nat
        /\ Rank(Tokens, f - 1) = a
    BY SpannedIs
  <2>2. \A kind : Part(kind, f, l) = FromTo(WordsOf(kind), f, l)
    BY SpannedIs
  <2>3. T = FromTo(Tokens, f, l)
    BY <1>1, <2>2 DEF Tokens
  <2> QED BY <2>1, <2>3 DEF Spanned
<1>3. Tokens \in SUBSET (1..Len(text)) /\ IsFiniteSet(Tokens) /\ Tokens \in SUBSET Nat
  <2>1. Tokens \in SUBSET (1..Len(text)) /\ IsFiniteSet(Tokens)
    BY KindRanked DEF KindRanks, Tokens
  <2> QED BY <1>2, <2>1
<1>4. f \in Nat /\ l \in Nat
  BY <1>2
<1>5. /\ \A j \in Int : f - 1 <= j /\ j <= l => Rank(T, j) = Rank(Tokens, j) - a
      /\ Cardinality(T) = b - a
  <2>1. PICK S : S = Tokens
    OBVIOUS
  <2>2. S \in SUBSET Nat /\ IsFiniteSet(S) /\ T = FromTo(S, f, l)
    BY <1>2, <1>3, <2>1
  <2>3. /\ \A j \in Int : f - 1 <= j /\ j <= l => Rank(T, j) = Rank(S, j) - Rank(S, f - 1)
        /\ Cardinality(T) = Rank(S, l) - Rank(S, f - 1)
    BY <1>2, <1>4, <2>2, PartRanks
  <2> QED BY <1>2, <2>1, <2>3
<1>6. PICK s : s = Selected(text, T)
  OBVIOUS
<1>7. text \in Seq(Words) /\ T \in SUBSET (1..Len(text))
  BY <1>2, <1>3 DEF TextOK, FromTo
<1>8. /\ s \in Seq(Words) /\ Len(s) = b - a
      /\ \A k \in 1..(b - a) : \E i \in T : Rank(T, i) = k /\ s[k] = text[i]
  <2>1. PICK t, c : t = Selected(text, T) /\ c = Cardinality(T)
    OBVIOUS
  <2>2. /\ t \in Seq(Words) /\ Len(t) = c
        /\ \A k \in 1..c : \E i \in T : Rank(T, i) = k /\ t[k] = text[i]
    BY <1>7, <2>1, SelectedIs
  <2>3. s = t /\ c = b - a
    BY <1>5, <1>6, <2>1
  <2> QED BY <2>2, <2>3
<1>9. PICK q : q = ids
  OBVIOUS
<1>10. q \in Seq(Words) /\ Len(q) \in Nat /\ b <= Len(q)
  BY <1>9, TokensTyped
<1>11. PICK r : r = SubSeq(q, a + 1, b)
  OBVIOUS
<1>12. /\ r \in Seq(Words) /\ Len(r) = b - a
       /\ \A k \in 1..(b - a) : r[k] = q[a + k]
  BY <1>10, <1>11
<1>13. ASSUME NEW k \in 1..(b - a) PROVE s[k] = r[k]
  <2>1. PICK i \in T : Rank(T, i) = k /\ s[k] = text[i]
    BY <1>8
  <2>2. i \in Int /\ f - 1 <= i /\ i <= l /\ i \in Tokens
    BY <1>2, <1>3 DEF FromTo
  <2>3. Rank(T, i) = Rank(Tokens, i) - a
    BY <1>5, <2>2
  <2>4. Rank(Tokens, i) \in Nat
    BY <2>2, KindRankTyped DEF Tokens
  <2>5. Rank(Tokens, i) = a + k
    BY <2>1, <2>3, <2>4
  <2>6. q[Rank(Tokens, i)] = text[i]
    BY <1>9, <2>2, TokenPlaces
  <2> QED BY <1>12, <2>1, <2>5, <2>6
<1>14. s = r
  BY <1>8, <1>12, <1>13
<1> QED BY <1>1, <1>6, <1>9, <1>11, <1>14

(* A word dropped is in the stretch if its number says so.                 *)
LEMMA InStretch ==
    ASSUME TextOK, NEW a \in Nat, NEW b \in Nat, a < b, NEW f, NEW l, Spanned(f, l, a, b),
           NEW kind, kind \cap Vocabulary = {}, NEW i \in WordsOf(kind)
    PROVE  a < Rank(Tokens, i - 1) /\ Rank(Tokens, i - 1) < b <=> f <= i /\ i <= l
<1>1. /\ f \in 1..Len(text) /\ l \in 1..Len(text) /\ f <= l /\ Len(text) \in Nat
      /\ Rank(Tokens, f - 1) = a /\ Rank(Tokens, l - 1) = b - 1
  BY SpannedIs
<1>2. /\ i \in 1..Len(text) /\ RankGrows(Tokens) /\ i # f /\ i # l
      /\ Rank(Tokens, f) = a + 1 /\ Rank(Tokens, l) = b
  BY WordsAre, KindRanked DEF Tokens, WordsOf, KindRanks, Spanned
<1>3. PICK h, u, v \in Int : h = i - 1 /\ u = f - 1 /\ v = l - 1
  BY <1>1, <1>2
<1>4. PICK r : r = Rank(Tokens, h)
  OBVIOUS
<1>5. r \in Nat
  BY <1>4, KindRankTyped DEF Tokens
<1>6. f \in Int /\ l \in Int /\ i \in Int
  BY <1>1, <1>2
<1>7. /\ f <= h => a + 1 <= r
      /\ h <= u => r <= a
      /\ h <= v => r <= b - 1
      /\ l <= h => b <= r
  <2>1. f <= h => a + 1 <= r
    BY <1>2, <1>4, <1>6 DEF RankGrows
  <2>2. h <= u => r <= a
    BY <1>1, <1>2, <1>3, <1>4, <1>6 DEF RankGrows
  <2>3. h <= v => r <= b - 1
    BY <1>1, <1>2, <1>3, <1>4, <1>6 DEF RankGrows
  <2>4. l <= h => b <= r
    BY <1>2, <1>4, <1>6 DEF RankGrows
  <2> QED BY <2>1, <2>2, <2>3, <2>4
<1>8. (f <= h \/ h <= u) /\ (h <= v \/ l <= h)
  BY <1>2, <1>3, <1>6
<1>9. a < r <=> f <= h
  BY <1>3, <1>5, <1>6, <1>7, <1>8
<1>10. r < b <=> h <= v
  BY <1>3, <1>5, <1>6, <1>7, <1>8
<1>11. (f <= h <=> f <= i) /\ (h <= v <=> i <= l)
  BY <1>2, <1>3, <1>6
<1> QED BY <1>3, <1>4, <1>9, <1>10, <1>11

Inside(A, a, b) == {k \in DOMAIN A : a < A[k] /\ A[k] < b}

LEMMA SpannedUnknown ==
    ASSUME TextOK, NEW m, m.start \in Nat, m.end \in Nat, m.start < m.end,
           NEW f, NEW l, Spanned(f, l, m.start, m.end), ~SpansUnknown(m)
    PROVE  Part({Unknown}, f, l) = {}
<1>1. PICK A, a, b, K : /\ A = unknownAfter /\ a = m.start /\ b = m.end
                        /\ K = WordsOf({Unknown})
  OBVIOUS
<1>2. A \in Seq(Nat) /\ Inside(A, a, b) \in SUBSET (1..Len(A))
  BY <1>1, TokensTyped DEF Inside
<1>3. PICK D : D = Inside(A, a, b)
  OBVIOUS
<1>4. Selected(A, D) = <<>>
  <2>1. Within(m, A) = Selected(A, D)
    BY <1>1, <1>3 DEF Within, Inside
  <2> QED BY <1>1, <2>1 DEF SpansUnknown
<1>5. Cardinality(D) = 0 /\ IsFiniteSet(D)
  <2>1. /\ IsFiniteSet(D) /\ Len(Selected(A, D)) = Cardinality(D)
    BY <1>2, <1>3, SelectedIs
  <2>2. Len(<<>>) = 0
    OBVIOUS
  <2> QED BY <1>4, <2>1, <2>2
<1>6. D = {}
  BY <1>5, FS_EmptySet
<1>7. /\ a \in Nat /\ b \in Nat /\ a < b /\ Spanned(f, l, a, b)
      /\ {Unknown} \cap Vocabulary = {}
  BY <1>1, MatchAssumption
<1>8. ASSUME NEW i \in K, f <= i, i <= l PROVE FALSE
  <2>1. a < Rank(Tokens, i - 1) /\ Rank(Tokens, i - 1) < b
    BY <1>1, <1>7, <1>8, InStretch
  <2>2. Rank(K, i) \in DOMAIN A /\ A[Rank(K, i)] = Rank(Tokens, i - 1)
    BY <1>1, AfterIs DEF unknownAfter
  <2>3. Rank(K, i) \in D
    BY <1>3, <2>1, <2>2 DEF Inside
  <2> QED BY <1>6, <2>3
<1>9. Part({Unknown}, f, l) = FromTo(K, f, l)
  BY <1>1, <1>7, SpannedIs
<1> QED BY <1>8, <1>9 DEF FromTo

(* Selecting a stretch of a sequence.                                      *)
LEMMA SelectedStretch ==
    ASSUME NEW V, NEW s \in Seq(V), NEW p \in Nat, NEW c \in Nat, p + c <= Len(s)
    PROVE  /\ Len(Selected(s, (p + 1)..(p + c))) = c
           /\ DOMAIN Selected(s, (p + 1)..(p + c)) = 1..c
           /\ \A k \in 1..c : Selected(s, (p + 1)..(p + c))[k] = s[p + k]
<1>1. PICK S : S = (p + 1)..(p + c)
  OBVIOUS
<1>2. S \in SUBSET (1..Len(s))
  BY <1>1
<1>3. Cardinality(S) = c
  BY <1>1, IntervalIs
<1>4. \A i \in S : Rank(S, i) = i - p
  <2> SUFFICES ASSUME NEW i \in S PROVE Rank(S, i) = i - p
    OBVIOUS
  <2>1. {j \in S : j <= i} = (p + 1)..i
    BY <1>1
  <2>2. p + 1 \in Int /\ i \in Int /\ p + 1 <= i + 1
    BY <1>1
  <2>3. Cardinality((p + 1)..i) = i - (p + 1) + 1
    BY <2>2, IntervalIs
  <2>4. i - (p + 1) + 1 = i - p
    BY <2>2
  <2> QED BY <2>1, <2>3, <2>4 DEF Rank
<1>5. PICK t : t = Selected(s, S)
  OBVIOUS
<1>6. /\ Len(t) = c /\ DOMAIN t = 1..c
      /\ \A i \in S : t[Rank(S, i)] = s[i]
  BY <1>2, <1>3, <1>5, SelectedIs
<1>7. \A k \in 1..c : t[k] = s[p + k]
  <2> SUFFICES ASSUME NEW k \in 1..c PROVE t[k] = s[p + k]
    OBVIOUS
  <2>1. p + k \in S /\ p + k - p = k
    BY <1>1
  <2> QED BY <1>4, <1>6, <2>1
<1> QED BY <1>1, <1>5, <1>6, <1>7

(* The stopwords of the stretch are the part of the list that is within    *)
(* the match.                                                              *)
LEMMA StopsAre ==
    ASSUME TextOK, NEW a \in Nat, NEW b \in Nat, a < b, NEW f, NEW l, Spanned(f, l, a, b),
           NEW K, K = WordsOf(Stopwords), NEW T, T = Part(Stopwords, f, l),
           NEW p, p = Rank(K, f - 1), NEW c, c = Cardinality(T)
    PROVE  /\ p \in Nat /\ c \in Nat /\ T \in SUBSET K /\ p + c <= Cardinality(K)
           /\ \A i \in T : Rank(T, i) \in 1..c /\ Rank(K, i) = p + Rank(T, i)
           /\ Inside(stopwordAfter, a, b) = (p + 1)..(p + c)
<1>1. /\ K \in SUBSET (1..Len(text)) /\ IsFiniteSet(K) /\ RankGrows(K)
      /\ Len(text) \in Nat /\ Cardinality(K) \in Nat
  BY KindRanked, WordsAre DEF KindRanks
<1>2. f \in 1..Len(text) /\ l \in 1..Len(text) /\ f <= l /\ T = FromTo(K, f, l)
  BY SpannedIs
<1>3. K \in SUBSET Nat /\ f \in Nat /\ l \in Nat
  BY <1>1, <1>2
<1>4. /\ \A j \in Int : f - 1 <= j /\ j <= l => Rank(T, j) = Rank(K, j) - p
      /\ c = Rank(K, l) - p
  BY <1>1, <1>2, <1>3, PartRanks
<1>5. T \in SUBSET K /\ T \in SUBSET Nat /\ IsFiniteSet(T)
  <2>1. T \in SUBSET K
    BY <1>2 DEF FromTo
  <2> QED BY <1>1, <1>3, <2>1, FS_Subset
<1>6. c \in Nat /\ \A i \in T : Rank(T, i) \in 1..c
  BY <1>5, RankInRange
<1>7. p \in Nat
  <2>1. f - 1 \in Int
    BY <1>3
  <2> QED BY <2>1, KindRankTyped
<1>8. \A j \in Int : Rank(K, j) \in Nat
  BY KindRankTyped
<1>9. \A i \in T : Rank(K, i) = p + Rank(T, i)
  <2> SUFFICES ASSUME NEW i \in T PROVE Rank(K, i) = p + Rank(T, i)
    OBVIOUS
  <2>1. i \in Int /\ f - 1 <= i /\ i <= l
    BY <1>2, <1>3 DEF FromTo
  <2>2. PICK x, y : x = Rank(K, i) /\ y = Rank(T, i)
    OBVIOUS
  <2>3. x \in Nat /\ y = x - p
    BY <1>4, <1>8, <2>1, <2>2
  <2> QED BY <1>7, <2>2, <2>3
<1>10. p + c <= Cardinality(K)
  <2>1. PICK x, y : x = Rank(K, l) /\ y = Cardinality(K)
    OBVIOUS
  <2>2. x \in 0..y
    BY <1>1, <1>3, <2>1 DEF RankGrows
  <2> QED BY <1>1, <1>4, <1>7, <2>1, <2>2
<1>11. PICK A, z : A = stopwordAfter /\ z = Cardinality(K)
  OBVIOUS
<1>12. /\ DOMAIN A = 1..z /\ z \in Nat
       /\ \A k \in 1..z : \E i \in K : Rank(K, i) = k /\ A[k] = Rank(Tokens, i - 1)
  <2>1. PICK B : B = After(Stopwords)
    OBVIOUS
  <2>2. /\ DOMAIN B = 1..Cardinality(WordsOf(Stopwords))
        /\ \A k \in 1..Cardinality(WordsOf(Stopwords)) :
              \E i \in WordsOf(Stopwords) :
                 Rank(WordsOf(Stopwords), i) = k /\ B[k] = Rank(Tokens, i - 1)
    BY <2>1, AfterIs
  <2>3. A = B
    BY <1>11, <2>1 DEF stopwordAfter
  <2>4. z \in Nat
    <3>1. A \in Seq(Nat) /\ DOMAIN A = 1..Len(A)
      BY <1>11, TokensTyped
    <3>2. Len(A) = z
      BY <1>1, <1>11, AfterIs DEF stopwordAfter
    <3> QED BY <3>1, <3>2
  <2> QED BY <1>1, <1>11, <2>2, <2>3, <2>4
<1>13. Stopwords \cap Vocabulary = {}
  BY MatchAssumption
<1>14. ASSUME NEW k \in 1..z
       PROVE  a < A[k] /\ A[k] < b <=> k \in (p + 1)..(p + c)
  <2>1. PICK i \in K : Rank(K, i) = k /\ A[k] = Rank(Tokens, i - 1)
    BY <1>12
  <2>2. a < A[k] /\ A[k] < b <=> f <= i /\ i <= l
    BY <1>13, <2>1, InStretch
  <2>3. i \in Int /\ k \in Nat
    BY <1>3
  <2>4. CASE f <= i /\ i <= l
    <3>1. i \in T
      BY <1>2, <2>4 DEF FromTo
    <3>2. PICK y : y = Rank(T, i)
      OBVIOUS
    <3>3. y \in 1..c /\ k = p + y
      BY <1>6, <1>9, <2>1, <3>1, <3>2
    <3> QED BY <1>6, <1>7, <2>2, <2>4, <3>3
  <2>5. CASE i < f
    <3>1. i <= f - 1 /\ f - 1 \in Int
      BY <1>3, <2>3, <2>5
    <3>2. Rank(K, i) <= Rank(K, f - 1)
      BY <1>1, <2>3, <3>1 DEF RankGrows
    <3>3. ~(k \in (p + 1)..(p + c))
      BY <1>6, <1>7, <2>1, <2>3, <3>2
    <3> QED BY <1>3, <2>2, <2>3, <2>5, <3>3
  <2>6. CASE l < i
    <3>1. PICK h \in Int : h = i - 1
      BY <2>3
    <3>2. l <= h
      BY <1>3, <2>3, <2>6, <3>1
    <3>3. Rank(K, l) <= Rank(K, h)
      BY <1>1, <1>3, <3>1, <3>2 DEF RankGrows
    <3>4. Rank(K, i) = Rank(K, h) + 1
      BY <1>1, <2>1, <2>3, <3>1 DEF RankGrows
    <3>5. Rank(K, h) \in Nat /\ Rank(K, l) \in Nat
      BY <1>3, <1>8, <3>1
    <3>6. PICK x, y : x = Rank(K, h) /\ y = Rank(K, l)
      OBVIOUS
    <3>7. k = x + 1 /\ y <= x /\ x \in Nat /\ y \in Nat /\ c = y - p
      BY <1>4, <2>1, <3>3, <3>4, <3>5, <3>6
    <3>8. p + c < k
      BY <1>7, <3>7
    <3>9. ~(k \in (p + 1)..(p + c))
      BY <1>6, <1>7, <2>3, <3>8
    <3> QED BY <1>3, <2>2, <2>3, <2>6, <3>9
  <2> QED BY <1>3, <2>3, <2>4, <2>5, <2>6
<1>15. Inside(A, a, b) = (p + 1)..(p + c)
  <2>1. \A k \in (p + 1)..(p + c) : k \in 1..z
    BY <1>6, <1>7, <1>10, <1>11, <1>12
  <2>2. Inside(A, a, b) = {k \in 1..z : a < A[k] /\ A[k] < b}
    BY <1>12 DEF Inside
  <2> QED BY <1>14, <2>1, <2>2
<1> QED BY <1>5, <1>6, <1>7, <1>9, <1>10, <1>11, <1>15

TokensUnder(f, l, i) == {j \in Part(Vocabulary, f, l) : j < i}

LEMMA SpannedStopwords ==
    ASSUME TextOK, NEW m, m.start \in Nat, m.end \in Nat, m.start < m.end,
           NEW f, NEW l, Spanned(f, l, m.start, m.end), StopwordsAlign(m),
           NEW stops, stops = Selected(places, Part(Stopwords, f, l))
    PROVE  [k \in DOMAIN stops |-> Cardinality(TokensUnder(f, l, stops[k]))]
               = RuleStopwords[m.rule]
<1>1. PICK a, b, K, T, A : /\ a = m.start /\ b = m.end /\ K = WordsOf(Stopwords)
                           /\ T = Part(Stopwords, f, l) /\ A = stopwordAfter
  OBVIOUS
<1>2. PICK p, c : p = Rank(K, f - 1) /\ c = Cardinality(T)
  OBVIOUS
<1>3. a \in Nat /\ b \in Nat /\ a < b /\ Spanned(f, l, a, b)
  BY <1>1
<1>4. /\ p \in Nat /\ c \in Nat /\ T \in SUBSET K /\ p + c <= Cardinality(K)
      /\ \A i \in T : Rank(T, i) \in 1..c /\ Rank(K, i) = p + Rank(T, i)
      /\ Inside(A, a, b) = (p + 1)..(p + c)
  BY <1>1, <1>2, <1>3, StopsAre
<1>5. /\ A \in Seq(Nat) /\ Len(A) = Cardinality(K)
      /\ \A i \in K : A[Rank(K, i)] = Rank(Tokens, i - 1)
  BY <1>1, TokensTyped, AfterIs DEF stopwordAfter
<1>6. PICK d : d = Within(m, stopwordAfter)
  OBVIOUS
<1>7. d = Selected(A, (p + 1)..(p + c))
  <2>1. d = Selected(A, Inside(A, a, b))
    BY <1>1, <1>6 DEF Within, Inside
  <2> QED BY <1>4, <2>1
<1>8. DOMAIN d = 1..c /\ \A k \in 1..c : d[k] = A[p + k]
  <2>1. A \in Seq(Nat) /\ p \in Nat /\ c \in Nat /\ p + c <= Len(A)
    BY <1>4, <1>5
  <2>2. /\ DOMAIN Selected(A, (p + 1)..(p + c)) = 1..c
        /\ \A k \in 1..c : Selected(A, (p + 1)..(p + c))[k] = A[p + k]
    BY <2>1, SelectedStretch
  <2> QED BY <1>7, <2>2
<1>9. [k \in 1..c |-> d[k] - a] = RuleStopwords[m.rule]
  BY <1>1, <1>6, <1>8 DEF StopwordsAlign
<1>10. PICK V, s : V = 1..Len(text) /\ s = places
  OBVIOUS
<1>11. /\ s \in Seq(V) /\ T \in SUBSET (1..Len(s)) /\ \A i \in T : s[i] = i
  <2>1. s \in Seq(V) /\ Len(s) = Len(text) /\ \A i \in 1..Len(text) : s[i] = i
    BY <1>10, WordsAre
  <2>2. K \in SUBSET (1..Len(text))
    BY <1>1, WordsAre
  <2> QED BY <1>4, <2>1, <2>2
<1>12. /\ DOMAIN stops = 1..c
       /\ \A k \in 1..c : \E i \in T : Rank(T, i) = k /\ stops[k] = s[i]
  <2>1. stops = Selected(s, T)
    BY <1>1, <1>10
  <2> QED BY <1>2, <1>11, <2>1, SelectedIs
<1>13. ASSUME NEW k \in 1..c
       PROVE  Cardinality(TokensUnder(f, l, stops[k])) = d[k] - a
  <2>1. PICK i \in T : Rank(T, i) = k /\ stops[k] = i
    BY <1>11, <1>12
  <2>2. Rank(K, i) = p + k /\ i \in K
    BY <1>4, <2>1
  <2>3. d[k] = Rank(Tokens, i - 1)
    BY <1>5, <1>8, <2>2
  <2>4. PICK P : P = Part(Vocabulary, f, l)
    OBVIOUS
  <2>5. /\ f \in 1..Len(text) /\ l \in 1..Len(text) /\ f <= l /\ Len(text) \in Nat
        /\ P = FromTo(Tokens, f, l) /\ T = FromTo(K, f, l) /\ Rank(Tokens, f - 1) = a
    <3>1. \A kind : Part(kind, f, l) = FromTo(WordsOf(kind), f, l)
      BY <1>3, SpannedIs
    <3>2. /\ f \in 1..Len(text) /\ l \in 1..Len(text) /\ f <= l /\ Len(text) \in Nat
          /\ Rank(Tokens, f - 1) = a
      BY <1>3, SpannedIs
    <3> QED BY <1>1, <2>4, <3>1, <3>2 DEF Tokens
  <2>6. f \in Nat /\ l \in Nat /\ Tokens \in SUBSET Nat /\ IsFiniteSet(Tokens)
    <3>1. Tokens \in SUBSET (1..Len(text)) /\ IsFiniteSet(Tokens)
      BY KindRanked DEF KindRanks, Tokens
    <3> QED BY <2>5, <3>1
  <2>7. PICK S, h : S = Tokens /\ h = i - 1
    OBVIOUS
  <2>8. i \in Int /\ f <= i /\ i <= l
    <3>1. K \in SUBSET (1..Len(text))
      BY <1>1, WordsAre
    <3>2. i \in 1..Len(text)
      BY <2>2, <3>1
    <3>3. f <= i /\ i <= l
      BY <2>5 DEF FromTo
    <3> QED BY <2>5, <3>2, <3>3
  <2>9. h \in Int /\ f - 1 <= h /\ h <= l
    BY <2>6, <2>7, <2>8
  <2>10. Rank(P, h) = Rank(S, h) - Rank(S, f - 1)
    BY <2>5, <2>6, <2>7, <2>9, PartRanks
  <2>11. TokensUnder(f, l, i) = {j \in P : j <= h}
    <3>1. \A j \in P : j \in Int
      BY <2>5, <2>6 DEF FromTo
    <3>2. \A j \in P : j < i <=> j <= h
      BY <2>7, <2>8, <3>1
    <3> QED BY <2>4, <3>2 DEF TokensUnder
  <2> QED BY <2>1, <2>3, <2>5, <2>7, <2>10, <2>11 DEF Rank
<1>14. [k \in DOMAIN stops |-> Cardinality(TokensUnder(f, l, stops[k]))]
          = [k \in 1..c |-> d[k] - a]
  BY <1>12, <1>13
<1> QED BY <1>9, <1>14

(* Wherever a rule occurs and is allowed, what is reported is sound.       *)
LEMMA SpannedSound ==
    ASSUME TextOK, NEW m \in Occurrences, Allowed(m),
           NEW r, r.rule = m.rule, Spanned(r.first, r.last, m.start, m.end)
    PROVE  Sound(r)
<1>1. PICK f, l, a, b : f = r.first /\ l = r.last /\ a = m.start /\ b = m.end
  OBVIOUS
<1>2. /\ Len(ids) \in Nat /\ a \in 0..Len(ids) /\ b \in 0..Len(ids) /\ a < b
      /\ SubSeq(ids, a + 1, b) = RuleTokens[r.rule] /\ Spanned(f, l, a, b)
  BY <1>1, TokensTyped DEF Occurrences
<1>3. a \in Nat /\ b \in Nat /\ b <= Len(ids)
  BY <1>2
<1>4. f \in 1..Len(text) /\ l \in 1..Len(text) /\ f <= l /\ Len(text) \in Nat
  BY <1>2, <1>3, SpannedIs
<1>5. {f, l} \subseteq Part(Vocabulary, f, l)
  <2>1. f \in f..l /\ l \in f..l
    BY <1>4
  <2>2. text[f] \in Vocabulary /\ text[l] \in Vocabulary
    BY <1>2 DEF Spanned, Tokens, WordsOf
  <2> QED BY <2>1, <2>2 DEF Part
<1>6. Selected(text, Part(Vocabulary, f, l)) = RuleTokens[r.rule]
  BY <1>2, <1>3, SpannedTokens
<1>7. r.rule \notin Variable \ Strict => Part({Unknown}, f, l) = {}
  <2> SUFFICES ASSUME r.rule \notin Variable \ Strict PROVE Part({Unknown}, f, l) = {}
    OBVIOUS
  <2>1. ~SpansUnknown(m)
    BY DEF Allowed
  <2> QED BY <1>1, <1>2, <1>3, <2>1, SpannedUnknown
<1>8. ASSUME r.rule \in Strict, NEW stops, stops = Selected(places, Part(Stopwords, f, l))
      PROVE  [k \in DOMAIN stops |-> Cardinality(TokensUnder(f, l, stops[k]))]
                 = RuleStopwords[r.rule]
  <2>1. StopwordsAlign(m)
    BY <1>8 DEF Allowed
  <2> QED BY <1>1, <1>2, <1>3, <1>8, <2>1, SpannedStopwords
<1>9. PICK stops : stops = Selected(places, Part(Stopwords, r.first, r.last))
  OBVIOUS
<1>10. /\ {r.first, r.last} \subseteq Part(Vocabulary, r.first, r.last)
       /\ Selected(text, Part(Vocabulary, r.first, r.last)) = RuleTokens[r.rule]
       /\ r.rule \notin Variable \ Strict => Part({Unknown}, r.first, r.last) = {}
  BY <1>1, <1>5, <1>6, <1>7
<1>11. r.rule \in Strict =>
          [k \in DOMAIN stops |->
              Cardinality({i \in Part(Vocabulary, r.first, r.last) : i < stops[k]})]
                = RuleStopwords[r.rule]
  BY <1>1, <1>8, <1>9 DEF TokensUnder
<1>12. Sound(r) <=>
         LET Of(kind) == Part(kind, r.first, r.last)
         IN  /\ {r.first, r.last} \subseteq Of(Vocabulary)
             /\ Selected(text, Of(Vocabulary)) = RuleTokens[r.rule]
             /\ r.rule \notin Variable \ Strict => Of({Unknown}) = {}
             /\ r.rule \in Strict =>
                   [k \in DOMAIN Selected(places, Of(Stopwords)) |->
                       Cardinality({i \in Of(Vocabulary) :
                                      i < Selected(places, Of(Stopwords))[k]})]
                       = RuleStopwords[r.rule]
  BY Zenon DEF Sound, Part
<1> QED BY <1>9, <1>10, <1>11, <1>12

LEMMA LocatedIs ==
    ASSUME TextOK, KeptInv, ScanInv, stage \in Reporting, NEW m \in Range(found)
    PROVE  /\ Located(m).rule = m.rule /\ m \in Occurrences /\ Allowed(m)
           /\ m.start + 1 \in 1..Len(ids) /\ m.end \in 1..Len(ids)
           /\ Located(m).first = PlacesOf(Vocabulary)[m.start + 1]
           /\ Located(m).last = PlacesOf(Vocabulary)[m.end]
           /\ Located(m) \in [rule : Rules, kind : {"text", "notice", "reference", "clue"},
                              first : Nat, last : Nat]
<1>1. PICK P : P = PlacesOf(Vocabulary)
  OBVIOUS
<1>2. /\ P \in Seq(1..Len(text)) /\ Len(P) = Len(ids) /\ Len(ids) \in Nat
      /\ Len(text) \in Nat
  BY <1>1, TokenPlaces, WordsAre
<1>3. Proper(m) /\ found # <<>>
  <2>1. \A e : e \in Range(found) => found # <<>>
    BY DEF Range
  <2>2. stage \in Later
    BY DEF Reporting, Later
  <2> QED BY <2>1, <2>2 DEF KeptInv
<1>4. /\ m \in Occurrences /\ Allowed(m) /\ m.rule \in Rules
      /\ m.start \in 0..Len(ids) /\ m.end \in 0..Len(ids) /\ m.start < m.end
  BY <1>3 DEF Proper, Occurrences
<1>5. m.start + 1 \in 1..Len(ids) /\ m.end \in 1..Len(ids)
  BY <1>2, <1>4
<1>6. KindOf[m.rule] \in {"text", "notice", "reference", "clue"}
  BY <1>4, MatchAssumption
<1>7. P[m.start + 1] \in Nat /\ P[m.end] \in Nat
  <2>1. PICK x, y \in 1..Len(ids) : x = m.start + 1 /\ y = m.end
    BY <1>5
  <2>2. P[x] \in 1..Len(text) /\ P[y] \in 1..Len(text)
    BY <1>2
  <2>3. \A e \in 1..Len(text) : e \in Nat
    OBVIOUS
  <2>4. P[x] \in Nat /\ P[y] \in Nat
    BY <2>2, <2>3
  <2> QED BY <2>1, <2>4
<1>8. CASE method = "hash"
  <2>1. m.start = 0 /\ m.end = Len(ids)
    BY <1>3, <1>8 DEF Proper, WholeInput
  <2>2. Head(P) = P[1] /\ Last(P) = P[Len(P)]
    <3>1. P # <<>>
      BY <1>2, <1>5
    <3> QED BY <1>2, <3>1 DEF Last
  <2>3. Located(m) = [rule |-> m.rule, kind |-> KindOf[m.rule],
                      first |-> Head(P), last |-> Last(P)]
    BY <1>1, <1>8 DEF Located
  <2>4. Located(m) = [rule |-> m.rule, kind |-> KindOf[m.rule],
                      first |-> P[m.start + 1], last |-> P[m.end]]
    BY <1>2, <2>1, <2>2, <2>3
  <2> QED BY <1>1, <1>4, <1>5, <1>6, <1>7, <2>4
<1>9. CASE method # "hash"
  <2>1. offsets = IF hasOmittedWords THEN P ELSE <<>>
    BY <1>1, <1>3, <1>9 DEF ScanInv
  <2>2. P # <<>>
    BY <1>2, <1>5
  <2>3. (IF offsets = <<>> THEN places ELSE offsets) = P
    BY <1>1, <2>1, <2>2, AllTokens
  <2>4. Located(m) = [rule |-> m.rule, kind |-> KindOf[m.rule],
                      first |-> P[m.start + 1], last |-> P[m.end]]
    BY <1>9, <2>3 DEF Located
  <2> QED BY <1>1, <1>4, <1>5, <1>6, <1>7, <2>4
<1> QED BY <1>8, <1>9

LEMMA LocatedSound ==
    ASSUME TextOK, KeptInv, ScanInv, stage \in Reporting, NEW m \in Range(found)
    PROVE  Sound(Located(m))
<1>1. PICK r : r = Located(m)
  OBVIOUS
<1>2. /\ r.rule = m.rule /\ m \in Occurrences /\ Allowed(m)
      /\ m.start + 1 \in 1..Len(ids) /\ m.end \in 1..Len(ids)
      /\ r.first = PlacesOf(Vocabulary)[m.start + 1]
      /\ r.last = PlacesOf(Vocabulary)[m.end]
  BY <1>1, LocatedIs
<1>3. Spanned(r.first, r.last, m.start, m.end)
  BY <1>2, TokenPlaces DEF Spanned
<1>4. Sound(r)
  BY <1>2, <1>3, SpannedSound
<1> QED BY <1>1, <1>4

-----------------------------------------------------------------------------
(* What the list filter is given is what the exact filter has kept.        *)
Fed ==
    /\ stage \in Collecting \cup {"offsets", "filter", "tooMany"} => listPc = "idle"
    /\ listPc # "idle" => input.matches = [k \in DOMAIN kept |-> Listable(kept[k])]

LEMMA StepFed == Fed /\ [MNext]_mvars => Fed'
<1> SUFFICES ASSUME Fed, [MNext]_mvars PROVE Fed'
  OBVIOUS
<1>1. CASE StartLists
  <2>1. /\ stage' = "lists" /\ kept' = kept
        /\ input'.matches = [k \in DOMAIN kept |-> Listable(kept[k])]
    BY <1>1 DEF StartLists, L!Start, vars
  <2> QED BY <2>1 DEF Fed, Listable, Collecting
<1>2. CASE ListStep
  <2>1. stage' = "lists" /\ kept' = kept /\ input' = input /\ listPc = "loop"
    BY <1>2 DEF ListStep, L!Loop, L!OtherMatch, L!NearMatch, L!FarMatch, L!LastFlush,
                vars, call
  <2> QED BY <2>1 DEF Fed, Listable, Collecting
<1>3. CASE FilterStep
  <2>1. stage' = "filter" /\ stage = "filter" /\ listPc' = listPc
    BY <1>3 DEF FilterStep, call, list
  <2> QED BY <2>1 DEF Fed
<1>4. CASE ~StartLists /\ ~ListStep /\ ~FilterStep
  <2>1. UNCHANGED list /\ kept' = kept
    BY <1>4 DEF MNext, MatchStep, NoTokens, ByHash, ByAutomaton, FirstPass, CountPass,
                SecondPass, EndPass, FallBack, StartFilter, Finish, vars,
                MInterrupted, MEnded, mvars, ScanStep, SkipUnknown,
                SkipStopword, KnownToken, NextWord, EndScan, GroupStep, StartGroups, AddMatch,
                EndGroups, DowngradeDetection
  <2>2. stage' \in Collecting \cup {"offsets", "filter", "tooMany"} =>
            stage \in Collecting \cup {"offsets", "filter", "tooMany"}
    BY <1>4 DEF MNext, MatchStep, NoTokens, ByHash, ByAutomaton, FirstPass, CountPass,
                SecondPass, EndPass, FallBack, StartFilter, Finish, call,
                MInterrupted, MEnded, mvars, ScanStep, SkipUnknown, Collecting,
                SkipStopword, KnownToken, NextWord, EndScan, GroupStep, StartGroups, AddMatch,
                EndGroups, DowngradeDetection
  <2> QED BY <2>1, <2>2 DEF Fed, list, Listable
<1> QED BY <1>1, <1>2, <1>3, <1>4

LEMMA FedInductive == MSpec => []Fed
<1>1. MInit => Fed
  BY DEF MInit, Fed
<1> QED BY <1>1, StepFed, PTL DEF MSpec

LEMMA FirstNumbers ==
    ASSUME NEW l \in Nat
    PROVE  IsFiniteSet(1..l) /\ Cardinality(1..l) = l
<1>1. 1 \in Int /\ l \in Int /\ 1 <= l + 1
  OBVIOUS
<1>2. IsFiniteSet(1..l) /\ Cardinality(1..l) = l - 1 + 1
  BY <1>1, IntervalIs
<1> QED BY <1>2

(* The chosen matches are some of those kept, in their order.              *)
Same(x, m) == x.rule = m.rule /\ x.start = m.start /\ x.end = m.end

Picked(S) ==
    /\ S \in SUBSET (1..Len(kept)) /\ Len(Chosen) = Cardinality(S)
    /\ \A i \in S : /\ Rank(S, i) \in 1..Len(Chosen)
                    /\ Same(Chosen[Rank(S, i)], kept[i])

LEMMA ChosenIs ==
    ASSUME kept \in Seq(Match), ListInv, Fed
    PROVE  Len(Chosen) \in Nat /\ \E S : Picked(S)
<1>1. PICK l \in Nat : l = Len(kept) /\ DOMAIN kept = 1..l
  OBVIOUS
<1>2. CASE listPc = "filtered"
  <2>1. PICK s, S : s = input.matches /\ S = LeftBefore(L!n + 1)
    OBVIOUS
  <2>2. /\ array \in Seq(ListMatch) /\ Len(array) = L!n
        /\ length = Cardinality(S) /\ \A i \in S : array[Rank(S, i)] = s[i]
    BY <1>2, <2>1 DEF ListInv, Recorded
  <2>3. s = [k \in 1..l |-> Listable(kept[k])]
    BY <1>1, <1>2, <2>1 DEF Fed
  <2>4. L!n = l
    BY <1>1, <2>1, <2>3 DEF L!n
  <2>5. S \in SUBSET (1..l)
    BY <1>1, <2>1, <2>4 DEF LeftBefore
  <2>6. IsFiniteSet(S) /\ Cardinality(S) \in Nat /\ Cardinality(S) <= l
        /\ \A i \in S : Rank(S, i) \in 1..Cardinality(S)
    <3>1. PICK N : N = 1..l /\ IsFiniteSet(N) /\ Cardinality(N) = l
      BY <1>1, FirstNumbers
    <3>2. IsFiniteSet(S) /\ Cardinality(S) <= l
      BY <1>1, <2>5, <3>1, FS_Subset
    <3>3. S \in SUBSET Nat
      BY <1>1, <2>5
    <3> QED BY <3>2, <3>3, RankInRange
  <2>7. PICK c : c = SubSeq(array, 1, length)
    OBVIOUS
  <2>8. Len(c) = length /\ \A k \in 1..length : c[k] = array[k]
    BY <2>2, <2>4, <2>6, <2>7
  <2>9. Chosen = c
    BY <1>2, <2>7 DEF Chosen
  <2>10. ASSUME NEW i \in S
         PROVE  Rank(S, i) \in 1..length /\ Same(c[Rank(S, i)], kept[i])
    <3>1. Rank(S, i) \in 1..length
      BY <2>2, <2>6
    <3>2. c[Rank(S, i)] = Listable(kept[i])
      BY <2>2, <2>3, <2>5, <2>8, <3>1
    <3> QED BY <3>1, <3>2 DEF Same, Listable
  <2>11. Picked(S)
    BY <1>1, <2>2, <2>5, <2>8, <2>9, <2>10 DEF Picked
  <2> QED BY <2>2, <2>6, <2>8, <2>9, <2>11
<1>3. CASE listPc # "filtered"
  <2>1. PICK S : S = 1..l
    OBVIOUS
  <2>2. Cardinality(S) = l
    BY <1>1, <2>1, FirstNumbers
  <2>3. \A i \in S : Rank(S, i) = i
    <3> SUFFICES ASSUME NEW i \in S PROVE Rank(S, i) = i
      OBVIOUS
    <3>1. {j \in S : j <= i} = 1..i /\ i \in Nat
      BY <1>1, <2>1
    <3>2. Cardinality(1..i) = i
      BY <3>1, FS_Interval
    <3> QED BY <3>1, <3>2 DEF Rank
  <2>4. Chosen = kept
    BY <1>3 DEF Chosen
  <2>5. Picked(S)
    BY <1>1, <2>1, <2>2, <2>3, <2>4 DEF Picked, Same
  <2> QED BY <1>1, <2>4, <2>5
<1> QED BY <1>2, <1>3

LEMMA ChosenFound ==
    ASSUME kept \in Seq(Match), ListInv, Fed, KeptInv, stage \in Later,
           NEW k \in 1..Len(Chosen)
    PROVE  \E m \in Range(found) : Same(Chosen[k], m) /\ Located(Chosen[k]) = Located(m)
<1>1. PICK S : Picked(S) /\ Len(Chosen) \in Nat
  BY ChosenIs
<1>2. S \in SUBSET (1..Len(kept)) /\ IsFiniteSet(S) /\ S \in SUBSET Nat
  <2>1. S \in SUBSET (1..Len(kept)) /\ Len(kept) \in Nat
    BY <1>1 DEF Picked
  <2>2. IsFiniteSet(1..Len(kept))
    BY <2>1, FS_Interval
  <2>3. IsFiniteSet(S)
    BY <2>1, <2>2, FS_Subset
  <2> QED BY <2>1, <2>3
<1>3. k \in 1..Cardinality(S)
  BY <1>1 DEF Picked
<1>4. PICK i \in S : Rank(S, i) = k
  BY <1>2, <1>3, RankInRange
<1>5. Same(Chosen[k], kept[i])
  BY <1>1, <1>4 DEF Picked
<1>6. kept[i] \in Range(found)
  <2>1. kept[i] \in Range(kept)
    BY <1>2 DEF Range
  <2> QED BY <2>1 DEF KeptInv
<1>7. Located(Chosen[k]) = Located(kept[i])
  BY <1>5 DEF Same, Located
<1> QED BY <1>5, <1>6, <1>7

-----------------------------------------------------------------------------
(* Sorting.                                                                *)
WeakOrder(S, before) ==
    /\ \A x \in S : <<x, x>> \notin before
    /\ \A x, y, z \in S :
          <<x, y>> \in before /\ <<y, z>> \in before => <<x, z>> \in before
    /\ \A x, y, z \in S :
          <<x, z>> \in before => <<x, y>> \in before \/ <<y, z>> \in before

(* A rearrangement t of s by p, in the order given.                        *)
SortedBy(t, s, before, p) ==
    /\ p \in [1..Len(s) -> 1..Len(s)]
    /\ \A i, j \in 1..Len(s) : p[i] = p[j] => i = j
    /\ \A i \in 1..Len(s) : \E k \in 1..Len(s) : p[k] = i
    /\ DOMAIN t = 1..Len(s) /\ \A k \in 1..Len(s) : t[k] = s[p[k]]
    /\ \A i, j \in 1..Len(s) : i < j => <<p[j], p[i]>> \notin before

AheadIn(S, before) ==
    {q \in S \X S : q \in before \/ (<<q[2], q[1]>> \notin before /\ q[1] < q[2])}

LEMMA AheadIsStrict ==
    ASSUME NEW m \in Nat, NEW before, WeakOrder(1..m, before)
    PROVE  StrictOrder(1..m, AheadIn(1..m, before))
<1>1. PICK S, R : S = 1..m /\ R = AheadIn(S, before)
  OBVIOUS
<1>2. \A x, y \in S : <<x, y>> \in R <=>
            <<x, y>> \in before \/ (<<y, x>> \notin before /\ x < y)
  BY <1>1 DEF AheadIn
<1>3. \A x \in S : x \in Nat
  BY <1>1
<1>4. WeakOrder(S, before)
  BY <1>1
<1>5. \A x \in S : <<x, x>> \notin R
  <2>1. \A x \in S : ~(x < x)
    BY <1>3
  <2>2. \A x \in S : <<x, x>> \notin before
    BY <1>4 DEF WeakOrder
  <2> QED BY <1>2, <2>1, <2>2
<1>6. ASSUME NEW x \in S, NEW y \in S, NEW z \in S, <<x, y>> \in R, <<y, z>> \in R
      PROVE  <<x, z>> \in R
  <2>1. x < y /\ y < z => x < z
    BY <1>3
  <2>2. \/ <<x, y>> \in before
        \/ <<y, x>> \notin before /\ x < y
    BY <1>2, <1>6
  <2>3. \/ <<y, z>> \in before
        \/ <<z, y>> \notin before /\ y < z
    BY <1>2, <1>6
  <2>4. <<x, y>> \in before /\ <<y, z>> \in before => <<x, z>> \in before
    BY <1>4 DEF WeakOrder
  <2>5. <<x, y>> \in before => <<x, z>> \in before \/ <<z, y>> \in before
    BY <1>4 DEF WeakOrder
  <2>6. <<y, z>> \in before => <<y, x>> \in before \/ <<x, z>> \in before
    BY <1>4 DEF WeakOrder
  <2>7. <<z, x>> \in before => <<z, y>> \in before \/ <<y, x>> \in before
    BY <1>4 DEF WeakOrder
  <2>8. <<x, z>> \in before \/ (<<z, x>> \notin before /\ x < z)
    BY <2>1, <2>2, <2>3, <2>4, <2>5, <2>6, <2>7
  <2> QED BY <1>2, <2>8
<1>7. ASSUME NEW x \in S, NEW y \in S, x # y
      PROVE  <<x, y>> \in R \/ <<y, x>> \in R
  <2>1. x < y \/ y < x
    BY <1>3, <1>7
  <2> QED BY <1>2, <2>1
<1> QED BY <1>1, <1>5, <1>6, <1>7 DEF StrictOrder

AheadOf(s, before, j) ==
    {i \in DOMAIN s : <<i, j>> \in before \/ (<<j, i>> \notin before /\ i < j)}

LEMMA ArrangedIs ==
    ASSUME NEW V, NEW s \in Seq(V), NEW before, WeakOrder(1..Len(s), before)
    PROVE  /\ Arranged(s, before) \in Seq(V)
           /\ Len(Arranged(s, before)) = Len(s)
           /\ \E p : SortedBy(Arranged(s, before), s, before, p)
<1>1. PICK m \in Nat : m = Len(s) /\ DOMAIN s = 1..m
  OBVIOUS
<1>2. PICK S, R : S = 1..m /\ R = AheadIn(S, before)
  OBVIOUS
<1>3. StrictOrder(S, R) /\ IsFiniteSet(S) /\ Cardinality(S) = m
  BY <1>1, <1>2, AheadIsStrict, FirstNumbers
<1>4. Ranked(S, R, m)
  BY <1>3, RankOnto
<1>5. PICK p : p = [k \in DOMAIN s |->
             CHOOSE j \in DOMAIN s : Cardinality(AheadOf(s, before, j)) = k - 1]
  OBVIOUS
<1>6. \A j \in S : AheadOf(s, before, j) = Preceding(S, R, j)
  BY <1>1, <1>2 DEF Preceding, AheadIn, AheadOf
<1>7. ASSUME NEW k \in 1..m
      PROVE  p[k] \in S /\ Cardinality(Preceding(S, R, p[k])) = k - 1
  <2>1. PICK j \in S : Cardinality(Preceding(S, R, j)) = k - 1
    <3>1. k - 1 \in 0..(m - 1)
      BY <1>1
    <3> QED BY <1>4, <3>1 DEF Ranked
  <2>2. j \in DOMAIN s /\ Cardinality(AheadOf(s, before, j)) = k - 1
    BY <1>1, <1>2, <1>6, <2>1
  <2>3. p[k] \in DOMAIN s /\ Cardinality(AheadOf(s, before, p[k])) = k - 1
    BY <1>1, <1>5, <2>2
  <2> QED BY <1>1, <1>2, <1>6, <2>3
<1>8. ASSUME NEW i \in 1..m, NEW j \in 1..m, p[i] = p[j]
      PROVE  i = j
  <2>1. i - 1 = j - 1
    BY <1>7, <1>8
  <2> QED BY <1>1, <2>1
<1>9. ASSUME NEW i \in 1..m PROVE \E k \in 1..m : p[k] = i
  <2>1. PICK c : c = Cardinality(Preceding(S, R, i))
    OBVIOUS
  <2>2. i \in S /\ c \in 0..(m - 1)
    BY <1>2, <1>4, <2>1 DEF Ranked
  <2>3. PICK k \in 1..m : k - 1 = c
    <3>1. PICK k : k = c + 1
      OBVIOUS
    <3>2. k \in 1..m /\ k - 1 = c
      BY <1>1, <2>2, <3>1
    <3> QED BY <3>2
  <2>4. p[k] = i
    BY <1>4, <1>7, <2>1, <2>2, <2>3 DEF Ranked
  <2> QED BY <2>4
<1>10. PICK t : t = Arranged(s, before)
  OBVIOUS
<1>11. t = [k \in 1..m |-> s[p[k]]]
  BY <1>1, <1>5, <1>10 DEF Arranged, AheadOf
<1>12. ASSUME NEW i \in 1..m, NEW j \in 1..m, i < j, <<p[j], p[i]>> \in before
       PROVE  FALSE
  <2>1. PICK x, y : x = p[i] /\ y = p[j]
    OBVIOUS
  <2>2. /\ x \in S /\ y \in S /\ Cardinality(Preceding(S, R, x)) = i - 1
        /\ Cardinality(Preceding(S, R, y)) = j - 1
    BY <1>7, <2>1
  <2>3. <<y, x>> \in R
    BY <1>2, <1>12, <2>1, <2>2 DEF AheadIn
  <2>4. PICK A, B : A = Preceding(S, R, x) /\ B = Preceding(S, R, y)
    OBVIOUS
  <2>5. B \in SUBSET A /\ A \in SUBSET S
    BY <1>3, <2>2, <2>3, <2>4 DEF Preceding, StrictOrder
  <2>6. IsFiniteSet(A)
    BY <1>3, <2>5, FS_Subset
  <2>7. Cardinality(B) <= Cardinality(A)
    BY <2>5, <2>6, FS_Subset
  <2>8. j - 1 <= i - 1
    BY <2>2, <2>4, <2>7
  <2> QED BY <1>1, <1>12, <2>8
<1>13. SortedBy(t, s, before, p)
  <2>1. p \in [1..m -> 1..m]
    BY <1>1, <1>2, <1>5, <1>7
  <2>2. \A i, j \in 1..m : p[i] = p[j] => i = j
    BY <1>8
  <2>3. \A i \in 1..m : \E k \in 1..m : p[k] = i
    BY <1>9
  <2>4. \A i, j \in 1..m : i < j => <<p[j], p[i]>> \notin before
    BY <1>12
  <2> QED BY <1>1, <1>11, <2>1, <2>2, <2>3, <2>4 DEF SortedBy
<1>14. t \in Seq(V) /\ Len(t) = m
  <2>1. \A k \in 1..m : s[p[k]] \in V
    BY <1>1, <1>2, <1>7
  <2>2. t \in [1..m -> V]
    BY <1>11, <2>1
  <2> QED BY <1>1, <2>2
<1> QED BY <1>1, <1>10, <1>13, <1>14

(* The matches of the result, and the orders in which they are sorted.     *)
Kinds == {"text", "notice", "reference", "clue"}
Entry == [rule : Rules, kind : Kinds, first : Nat, last : Nat]
DetectionOf(V) == [expression : Nat, matches : Seq(V)]
FullDetection(V) == {d \in DetectionOf(V) : d.matches # <<>>}

EarlierPairs(ms) == {q \in (DOMAIN ms) \X (DOMAIN ms) : Earlier(ms[q[1]], ms[q[2]])}
DetectionPairs(ds) ==
    {q \in (DOMAIN ds) \X (DOMAIN ds) : EarlierDetection(ds[q[1]], ds[q[2]])}

LEMMA EarlierIsWeak ==
    ASSUME NEW a \in Entry, NEW b \in Entry, NEW c \in Entry
    PROVE  /\ ~Earlier(a, a)
           /\ Earlier(a, b) /\ Earlier(b, c) => Earlier(a, c)
           /\ Earlier(a, c) => Earlier(a, b) \/ Earlier(b, c)
<1>1. /\ a.first \in Nat /\ b.first \in Nat /\ c.first \in Nat
      /\ a.last \in Nat /\ b.last \in Nat /\ c.last \in Nat
      /\ a.rule \in Nat /\ b.rule \in Nat /\ c.rule \in Nat
  BY FilterAssumption DEF Entry
<1>2. ~Earlier(a, a)
  BY <1>1 DEF Earlier
<1>3. Earlier(a, b) /\ Earlier(b, c) => Earlier(a, c)
  BY <1>1 DEF Earlier
<1>4. Earlier(a, c) => Earlier(a, b) \/ Earlier(b, c)
  BY <1>1 DEF Earlier
<1> QED BY <1>2, <1>3, <1>4

LEMMA EarlierWeak ==
    ASSUME NEW ms \in Seq(Entry)
    PROVE  WeakOrder(1..Len(ms), EarlierPairs(ms))
<1>1. PICK S, B : S = 1..Len(ms) /\ B = EarlierPairs(ms)
  OBVIOUS
<1>2. \A x, y \in S : <<x, y>> \in B <=> Earlier(ms[x], ms[y])
  BY <1>1 DEF EarlierPairs
<1>3. \A x \in S : ms[x] \in Entry
  BY <1>1
<1>4. \A x \in S : <<x, x>> \notin B
  BY <1>2, <1>3, EarlierIsWeak
<1>5. ASSUME NEW x \in S, NEW y \in S, NEW z \in S
      PROVE  /\ <<x, y>> \in B /\ <<y, z>> \in B => <<x, z>> \in B
             /\ <<x, z>> \in B => <<x, y>> \in B \/ <<y, z>> \in B
  BY <1>2, <1>3, EarlierIsWeak
<1> QED BY <1>1, <1>4, <1>5 DEF WeakOrder

LEMMA SortedIfIs ==
    ASSUME NEW V \in SUBSET Entry, NEW ms \in Seq(V)
    PROVE  /\ SortedIf(ms) \in Seq(V) /\ Len(SortedIf(ms)) = Len(ms)
           /\ ~changed => SortedIf(ms) = ms
           /\ changed => \E p : SortedBy(SortedIf(ms), ms, EarlierPairs(ms), p)
<1>1. ms \in Seq(Entry)
  OBVIOUS
<1>2. WeakOrder(1..Len(ms), EarlierPairs(ms))
  BY <1>1, EarlierWeak
<1>3. SortedMatches(ms) = Arranged(ms, EarlierPairs(ms))
  BY DEF SortedMatches, EarlierPairs
<1>4. /\ SortedMatches(ms) \in Seq(V) /\ Len(SortedMatches(ms)) = Len(ms)
      /\ \E p : SortedBy(SortedMatches(ms), ms, EarlierPairs(ms), p)
  BY <1>2, <1>3, ArrangedIs
<1> QED BY <1>4 DEF SortedIf

LEMMA DetectionWeak ==
    ASSUME NEW V \in SUBSET Entry, NEW ds \in Seq(FullDetection(V))
    PROVE  WeakOrder(1..Len(ds), DetectionPairs(ds))
<1>1. PICK S, B : S = 1..Len(ds) /\ B = DetectionPairs(ds)
  OBVIOUS
<1>2. \A x, y \in S : <<x, y>> \in B <=> EarlierDetection(ds[x], ds[y])
  BY <1>1 DEF DetectionPairs
<1>3. \A x \in S : ds[x].matches[1].first \in Nat /\ ds[x].expression \in Nat
  <2> SUFFICES ASSUME NEW x \in S
               PROVE  ds[x].matches[1].first \in Nat /\ ds[x].expression \in Nat
    OBVIOUS
  <2>1. ds[x] \in FullDetection(V)
    BY <1>1
  <2>2. /\ ds[x].matches \in Seq(V) /\ ds[x].matches # <<>> /\ ds[x].expression \in Nat
    BY <2>1 DEF FullDetection, DetectionOf
  <2>3. ds[x].matches[1] \in V
    BY <2>2
  <2> QED BY <2>2, <2>3 DEF Entry
<1>4. ASSUME NEW x \in S, NEW y \in S, NEW z \in S
      PROVE  /\ <<x, x>> \notin B
             /\ <<x, y>> \in B /\ <<y, z>> \in B => <<x, z>> \in B
             /\ <<x, z>> \in B => <<x, y>> \in B \/ <<y, z>> \in B
  <2>1. PICK a, b, c : /\ a = ds[x].matches[1].first /\ b = ds[y].matches[1].first
                       /\ c = ds[z].matches[1].first
    OBVIOUS
  <2>2. PICK d, e, f : d = ds[x].expression /\ e = ds[y].expression /\ f = ds[z].expression
    OBVIOUS
  <2>3. /\ a \in Nat /\ b \in Nat /\ c \in Nat /\ d \in Nat /\ e \in Nat /\ f \in Nat
    BY <1>3, <2>1, <2>2
  <2>4. /\ EarlierDetection(ds[x], ds[x]) <=> a < a \/ (a = a /\ d < d)
        /\ EarlierDetection(ds[x], ds[y]) <=> a < b \/ (a = b /\ d < e)
        /\ EarlierDetection(ds[y], ds[z]) <=> b < c \/ (b = c /\ e < f)
        /\ EarlierDetection(ds[x], ds[z]) <=> a < c \/ (a = c /\ d < f)
    BY <2>1, <2>2 DEF EarlierDetection
  <2> QED BY <1>2, <2>3, <2>4
<1> QED BY <1>1, <1>4 DEF WeakOrder

LEMMA SortedDetectionsIs ==
    ASSUME NEW V \in SUBSET Entry, NEW ds \in Seq(FullDetection(V))
    PROVE  /\ SortedDetections(ds) \in Seq(FullDetection(V))
           /\ Len(SortedDetections(ds)) = Len(ds)
           /\ \E p : SortedBy(SortedDetections(ds), ds, DetectionPairs(ds), p)
<1>1. WeakOrder(1..Len(ds), DetectionPairs(ds))
  BY DetectionWeak
<1>2. SortedDetections(ds) = Arranged(ds, DetectionPairs(ds))
  BY DEF SortedDetections, DetectionPairs
<1> QED BY <1>1, <1>2, ArrangedIs

ReportOf(V) == clues \in Seq(V) /\ detections \in Seq(DetectionOf(V))

(* Every step of the report only moves matches, and makes some of them     *)
(* clues.                                                                  *)
LEMMA AddMatchReports ==
    ASSUME NEW V \in SUBSET Entry, ReportOf(V), AddMatch, Located(Chosen[at + 1]) \in V
    PROVE  ReportOf(V)'
<1>1. PICK m : m = Located(Chosen[at + 1])
  OBVIOUS
<1>2. m \in V /\ (AddClue(m) \/ AddToDetection(m) \/ OpenDetection(m))
  BY <1>1 DEF AddMatch
<1>3. clues \in Seq(V) /\ detections \in Seq(DetectionOf(V))
  BY DEF ReportOf
<1>4. CASE AddClue(m)
  BY <1>2, <1>3, <1>4 DEF AddClue, ReportOf
<1>5. CASE AddToDetection(m)
  <2>1. PICK g \in DOMAIN detections :
           detections' = [detections EXCEPT ![g].matches = Append(@, m)]
    BY <1>5 DEF AddToDetection
  <2>2. PICK d : d = [detections[g] EXCEPT !.matches = Append(@, m)]
    OBVIOUS
  <2>3. detections' = [detections EXCEPT ![g] = d]
    BY <2>1, <2>2
  <2>4. detections[g] \in DetectionOf(V)
    BY <1>3
  <2>5. d \in DetectionOf(V)
    <3>1. detections[g].matches \in Seq(V)
      BY <2>4 DEF DetectionOf
    <3>2. Append(detections[g].matches, m) \in Seq(V)
      BY <1>2, <3>1
    <3> QED BY <2>2, <2>4, <3>2 DEF DetectionOf
  <2>6. detections' \in Seq(DetectionOf(V))
    <3>1. g \in 1..Len(detections)
      BY <1>3
    <3> QED BY <1>3, <2>3, <2>5, <3>1
  <2>7. clues' = clues
    BY <1>5 DEF AddToDetection
  <2> QED BY <1>3, <2>6, <2>7 DEF ReportOf
<1>6. CASE OpenDetection(m)
  <2>1. PICK d : d = [expression |-> ReportedExpression[m.rule], matches |-> <<m>>]
    OBVIOUS
  <2>2. detections' = Append(detections, d) /\ clues' = clues
    BY <1>6, <2>1 DEF OpenDetection
  <2>3. d \in DetectionOf(V)
    <3>1. ReportedExpression[m.rule] \in Nat
      BY <1>2, MatchAssumption DEF Entry
    <3>2. <<m>> \in Seq(V)
      BY <1>2
    <3> QED BY <2>1, <3>1, <3>2 DEF DetectionOf
  <2> QED BY <1>3, <2>2, <2>3 DEF ReportOf
<1> QED BY <1>2, <1>4, <1>5, <1>6

(* One detection downgraded.                                               *)
Kept(d) == Selected(detections[d].matches,
                    DOMAIN detections[d].matches
                      \ {i \in DOMAIN detections[d].matches :
                            Downgraded(detections[d].matches[i])})
Gone(d) == {i \in DOMAIN detections[d].matches : Downgraded(detections[d].matches[i])}
AsClues(ms) == [i \in DOMAIN ms |-> [ms[i] EXCEPT !.kind = "clue"]]

LEMMA DowngradeIs ==
    ASSUME DowngradeDetection
    PROVE  /\ at < Len(detections) /\ at' = at + 1
           /\ detections' = [detections EXCEPT ![at + 1].matches = Kept(at + 1)]
           /\ clues' = clues \o Selected(AsClues(detections[at + 1].matches), Gone(at + 1))
           /\ changed' = (changed \/ Gone(at + 1) # {})
BY DEF DowngradeDetection, Kept, Gone, AsClues

LEMMA AsCluesTyped ==
    ASSUME NEW V \in SUBSET Entry, \A m \in V : [m EXCEPT !.kind = "clue"] \in V,
           NEW ms \in Seq(V)
    PROVE  AsClues(ms) \in Seq(V) /\ Len(AsClues(ms)) = Len(ms)
<1>1. PICK l \in Nat : l = Len(ms) /\ DOMAIN ms = 1..l
  OBVIOUS
<1>2. AsClues(ms) \in [1..l -> V]
  BY <1>1 DEF AsClues
<1> QED BY <1>1, <1>2

LEMMA DowngradeReports ==
    ASSUME NEW V \in SUBSET Entry, \A m \in V : [m EXCEPT !.kind = "clue"] \in V,
           ReportOf(V), at \in Nat, DowngradeDetection
    PROVE  ReportOf(V)'
<1>1. PICK g, ms, gone : /\ g = at + 1 /\ ms = detections[g].matches /\ gone = Gone(g)
  OBVIOUS
<1>2. clues \in Seq(V) /\ detections \in Seq(DetectionOf(V))
  BY DEF ReportOf
<1>3. g \in 1..Len(detections)
  BY <1>1, <1>2, DowngradeIs
<1>4. detections[g] \in DetectionOf(V) /\ ms \in Seq(V)
  <2>1. detections[g] \in DetectionOf(V)
    BY <1>2, <1>3
  <2> QED BY <1>1, <2>1 DEF DetectionOf
<1>5. gone \in SUBSET (1..Len(ms)) /\ DOMAIN ms \ gone \in SUBSET (1..Len(ms))
  BY <1>1, <1>4 DEF Gone
<1>6. PICK left : left = Selected(ms, DOMAIN ms \ gone)
  OBVIOUS
<1>7. left \in Seq(V)
  BY <1>4, <1>5, <1>6, SelectedIs
<1>8. PICK more : more = Selected(AsClues(ms), gone)
  OBVIOUS
<1>9. more \in Seq(V)
  <2>1. AsClues(ms) \in Seq(V) /\ gone \in SUBSET (1..Len(AsClues(ms)))
    BY <1>4, <1>5, AsCluesTyped
  <2> QED BY <1>8, <2>1, SelectedIs
<1>10. /\ detections' = [detections EXCEPT ![g].matches = left]
       /\ clues' = clues \o more
  <2>1. left = Kept(g)
    BY <1>1, <1>6 DEF Kept, Gone
  <2> QED BY <1>1, <1>8, <2>1, DowngradeIs
<1>11. clues' \in Seq(V)
  BY <1>2, <1>9, <1>10, ConcatIs
<1>12. PICK d : d = [detections[g] EXCEPT !.matches = left]
  OBVIOUS
<1>13. d \in DetectionOf(V) /\ detections' = [detections EXCEPT ![g] = d]
  BY <1>4, <1>7, <1>10, <1>12 DEF DetectionOf
<1>14. detections' \in Seq(DetectionOf(V))
  BY <1>2, <1>3, <1>13
<1> QED BY <1>11, <1>14 DEF ReportOf

(* The detections that are left, each sorted, before they are.             *)
LeftDetections ==
    Selected(detections, {d \in DOMAIN detections : detections[d].matches # <<>>})
Resorted(ds) == [d \in DOMAIN ds |-> [ds[d] EXCEPT !.matches = SortedIf(@)]]

LEMMA FinishIs ==
    ASSUME Finish
    PROVE  /\ detections' = SortedDetections(Resorted(LeftDetections))
           /\ clues' = SortedIf(clues)
BY DEF Finish, LeftDetections, Resorted

LEMMA LeftTyped ==
    ASSUME NEW V \in SUBSET Entry, detections \in Seq(DetectionOf(V))
    PROVE  /\ LeftDetections \in Seq(FullDetection(V))
           /\ Resorted(LeftDetections) \in Seq(FullDetection(V))
           /\ Len(Resorted(LeftDetections)) = Len(LeftDetections)
           /\ Len(LeftDetections) \in Nat
<1>1. PICK S : S = {d \in DOMAIN detections : detections[d].matches # <<>>}
  OBVIOUS
<1>2. PICK left : left = LeftDetections
  OBVIOUS
<1>3. left = Selected(detections, S) /\ S \in SUBSET (1..Len(detections))
  BY <1>1, <1>2 DEF LeftDetections
<1>4. PICK l \in Nat : l = Len(left) /\ left \in Seq(DetectionOf(V)) /\ DOMAIN left = 1..l
  BY <1>3, SelectedIs
<1>5. \A k \in 1..l : \E d \in S : left[k] = detections[d]
  BY <1>3, <1>4, SelectedIs
<1>6. \A k \in 1..l : left[k] \in FullDetection(V)
  BY <1>1, <1>4, <1>5 DEF FullDetection
<1>7. left \in Seq(FullDetection(V))
  BY <1>4, <1>6
<1>8. PICK r : r = Resorted(left)
  OBVIOUS
<1>9. r = [d \in 1..l |-> [left[d] EXCEPT !.matches = SortedIf(@)]]
  BY <1>4, <1>8 DEF Resorted
<1>10. ASSUME NEW k \in 1..l
       PROVE  [left[k] EXCEPT !.matches = SortedIf(@)] \in FullDetection(V)
  <2>1. PICK ms : ms = left[k].matches
    OBVIOUS
  <2>2. ms \in Seq(V) /\ ms # <<>> /\ left[k] \in DetectionOf(V)
    BY <1>6, <2>1 DEF FullDetection, DetectionOf
  <2>3. PICK so : so = SortedIf(ms)
    OBVIOUS
  <2>4. so \in Seq(V) /\ Len(so) = Len(ms)
    BY <2>2, <2>3, SortedIfIs
  <2>5. so # <<>>
    BY <2>2, <2>4
  <2>6. PICK d : d = [left[k] EXCEPT !.matches = so]
    OBVIOUS
  <2>7. d \in DetectionOf(V) /\ d.matches = so
    BY <2>2, <2>4, <2>6 DEF DetectionOf
  <2> QED BY <2>1, <2>3, <2>5, <2>6, <2>7 DEF FullDetection
<1>11. r \in [1..l -> FullDetection(V)]
  BY <1>9, <1>10
<1>12. r \in Seq(FullDetection(V)) /\ Len(r) = l
  BY <1>4, <1>11
<1> QED BY <1>2, <1>4, <1>7, <1>8, <1>12

LEMMA FinishReports ==
    ASSUME NEW V \in SUBSET Entry, ReportOf(V), Finish
    PROVE  ReportOf(V)' /\ detections' \in Seq(FullDetection(V))
<1>1. clues' \in Seq(V)
  BY FinishIs, SortedIfIs DEF ReportOf
<1>2. PICK ds : ds = Resorted(LeftDetections)
  OBVIOUS
<1>3. ds \in Seq(FullDetection(V))
  BY <1>2, LeftTyped DEF ReportOf
<1>4. detections' \in Seq(FullDetection(V))
  BY <1>2, <1>3, FinishIs, SortedDetectionsIs
<1>5. detections' \in Seq(DetectionOf(V))
  BY <1>4 DEF FullDetection
<1> QED BY <1>1, <1>4, <1>5 DEF ReportOf

SoundEntries == {m \in Entry : Sound(m)}

LEMMA SoundEntriesAre ==
    /\ SoundEntries \in SUBSET Entry
    /\ \A m \in SoundEntries : [m EXCEPT !.kind = "clue"] \in SoundEntries
<1>1. ASSUME NEW m \in SoundEntries PROVE [m EXCEPT !.kind = "clue"] \in SoundEntries
  <2>1. PICK c : c = [m EXCEPT !.kind = "clue"]
    OBVIOUS
  <2>2. /\ c \in Entry /\ c.rule = m.rule /\ c.first = m.first /\ c.last = m.last
        /\ Sound(m)
    BY <2>1 DEF SoundEntries, Entry, Kinds
  <2>3. Sound(c)
    BY <2>2 DEF Sound
  <2> QED BY <2>1, <2>2, <2>3 DEF SoundEntries
<1> QED BY <1>1 DEF SoundEntries

LEMMA SameSound ==
    ASSUME text' = text
    PROVE  SoundEntries' = SoundEntries
<1>1. places' = places
  BY DEF places
<1>2. \A m : Sound(m)' <=> Sound(m)
  BY <1>1 DEF Sound
<1> QED BY <1>2 DEF SoundEntries

TextStays == text' = text

LEMMA StepText == [MNext]_mvars => TextStays
BY DEF MNext, MatchStep, NoTokens, ByHash, ByAutomaton, FirstPass, CountPass, SecondPass,
       EndPass, FallBack, StartFilter, FilterStep, StartLists, ListStep, Finish,
       MInterrupted, MEnded, mvars, call, ScanStep, SkipUnknown, TextStays,
       SkipStopword, KnownToken, NextWord, EndScan, GroupStep, StartGroups, AddMatch,
       EndGroups, DowngradeDetection

(* What the steps before and after the report leave alone.                 *)
LEMMA OtherSteps ==
    ASSUME [MNext]_mvars, ~AddMatch, ~DowngradeDetection, ~Finish
    PROVE  UNCHANGED result
BY DEF MNext, MatchStep, NoTokens, ByHash, ByAutomaton, FirstPass, CountPass, SecondPass,
       EndPass, FallBack, StartFilter, FilterStep, StartLists, ListStep,
       MInterrupted, MEnded, mvars, ScanStep, SkipUnknown,
       SkipStopword, KnownToken, NextWord, EndScan, GroupStep, StartGroups, EndGroups

(* The match added is one the automaton or the hash has found.             *)
LEMMA AddedIs ==
    ASSUME MInv, KeptInv, ScanInv, ListInv, Fed, AddMatch
    PROVE  /\ at + 1 \in 1..Len(Chosen)
           /\ \E m \in Range(found) :
                 Same(Chosen[at + 1], m) /\ Located(Chosen[at + 1]) = Located(m)
<1>1. stage = "groups" /\ at < Len(Chosen) /\ at \in Nat
  BY DEF AddMatch, ScanInv
<1>2. Len(Chosen) \in Nat
  BY ChosenIs DEF MInv
<1>3. PICK k : k = at + 1
  OBVIOUS
<1>4. k \in 1..Len(Chosen)
  BY <1>1, <1>2, <1>3
<1>5. stage \in Later
  BY <1>1 DEF Later
<1>6. \E m \in Range(found) : Same(Chosen[k], m) /\ Located(Chosen[k]) = Located(m)
  BY <1>4, <1>5, ChosenFound DEF MInv
<1> QED BY <1>3, <1>4, <1>6

LEMMA StepReport ==
    MInv /\ KeptInv /\ ScanInv /\ ListInv /\ Fed /\ ReportOf(SoundEntries)
        /\ [MNext]_mvars => ReportOf(SoundEntries)'
<1> SUFFICES ASSUME MInv, KeptInv, ScanInv, ListInv, Fed, ReportOf(SoundEntries),
                    [MNext]_mvars
             PROVE  ReportOf(SoundEntries)'
  OBVIOUS
<1>1. PICK V : V = SoundEntries
  OBVIOUS
<1>2. SoundEntries' = V
  BY <1>1, StepText, SameSound DEF TextStays
<1>3. V \in SUBSET Entry /\ \A m \in V : [m EXCEPT !.kind = "clue"] \in V
  BY <1>1, SoundEntriesAre
<1>4. ReportOf(V)
  BY <1>1
<1>5. CASE AddMatch
  <2>1. PICK m \in Range(found) : Located(Chosen[at + 1]) = Located(m)
    BY <1>5, AddedIs
  <2>2. stage \in Reporting
    BY <1>5 DEF AddMatch, Reporting
  <2>3. Located(m) \in Entry /\ Sound(Located(m))
    BY <2>2, LocatedIs, LocatedSound DEF MInv, Entry, Kinds
  <2>4. Located(Chosen[at + 1]) \in V
    BY <1>1, <2>1, <2>3 DEF SoundEntries
  <2>5. clues' \in Seq(V) /\ detections' \in Seq(DetectionOf(V))
    BY <1>3, <1>4, <1>5, <2>4, AddMatchReports DEF ReportOf
  <2> QED BY <1>2, <2>5 DEF ReportOf, DetectionOf
<1>6. CASE DowngradeDetection
  <2>1. at \in Nat
    BY <1>6 DEF DowngradeDetection, ScanInv
  <2>2. clues' \in Seq(V) /\ detections' \in Seq(DetectionOf(V))
    BY <1>3, <1>4, <1>6, <2>1, DowngradeReports DEF ReportOf
  <2> QED BY <1>2, <2>2 DEF ReportOf, DetectionOf
<1>7. CASE Finish
  <2>1. clues' \in Seq(V) /\ detections' \in Seq(DetectionOf(V))
    BY <1>3, <1>4, <1>7, FinishReports DEF ReportOf
  <2> QED BY <1>2, <2>1 DEF ReportOf, DetectionOf
<1>8. CASE ~AddMatch /\ ~DowngradeDetection /\ ~Finish
  <2>1. clues' = clues /\ detections' = detections
    BY <1>8, OtherSteps DEF result
  <2> QED BY <1>1, <1>2, <1>4, <2>1 DEF ReportOf, DetectionOf
<1> QED BY <1>5, <1>6, <1>7, <1>8

LEMMA ReportInductive == MSpec => []ReportOf(SoundEntries)
<1>1. MInit => ReportOf(SoundEntries)
  BY DEF MInit, ReportOf
<1> QED BY <1>1, MInductive, KeptInductive, ScanInductive, ListInductive, FedInductive,
           StepReport, PTL DEF MSpec

(* For any rules, stopwords and input: what is reported is where the       *)
(* report says, with the rule's tokens and no words the rule does not      *)
(* allow, although between the words and the report the tokenizer drops    *)
(* words, the filter works on token numbers, and a second scan that knows  *)
(* only how many tokens came before each dropped word has to find the      *)
(* tokens again.                                                           *)
THEOREM Reports == MSpec => []MatchesSound
<1>1. ReportOf(SoundEntries) => MatchesSound
  <2> SUFFICES ASSUME ReportOf(SoundEntries), NEW p \in Positions
               PROVE  Sound(Reported(p))
    BY DEF MatchesSound
  <2>1. CASE \E i \in DOMAIN clues : p = <<0, i>>
    <3>1. PICK i \in DOMAIN clues : p = <<0, i>>
      BY <2>1
    <3>2. Reported(p) = clues[i] /\ clues[i] \in SoundEntries
      BY <3>1 DEF Reported, ReportOf
    <3> QED BY <3>2 DEF SoundEntries
  <2>2. CASE \E d \in DOMAIN detections : \E i \in DOMAIN detections[d].matches :
               p = <<d, i>>
    <3>1. PICK d \in DOMAIN detections :
             \E i \in DOMAIN detections[d].matches : p = <<d, i>>
      BY <2>2
    <3>2. PICK i \in DOMAIN detections[d].matches : p = <<d, i>>
      BY <3>1
    <3>3. d \in 1..Len(detections) /\ detections[d] \in DetectionOf(SoundEntries)
      BY DEF ReportOf
    <3>4. detections[d].matches[i] \in SoundEntries
      BY <3>3 DEF DetectionOf
    <3>5. Reported(p) = detections[d].matches[i]
      BY <3>2, <3>3 DEF Reported
    <3> QED BY <3>4, <3>5 DEF SoundEntries
  <2> QED BY <2>1, <2>2 DEF Positions
<1> QED BY <1>1, ReportInductive, PTL

-----------------------------------------------------------------------------
(* The order of the result.  What the filter keeps is strictly increasing, *)
(* and so are the places of what is chosen of it.                          *)
Increasing(s) == \A i, j \in DOMAIN s : i < j => s[i].start < s[j].start

LEMMA CompactIncreasing ==
    ASSUME IInv, Compact
    PROVE  Increasing(kept')
<1>1. PICK S, s : S = {i \in 1..n : Active(i)} /\ s = Selected(matches, S)
  OBVIOUS
<1>2. /\ matches \in Seq(Match) /\ S \in SUBSET (1..Len(matches)) /\ n = Len(matches)
      /\ S \in SUBSET Nat
  BY <1>1 DEF IInv, TypeOK, n
<1>3. \A i, j \in S : i < j => matches[i].start < matches[j].start
  <2>1. NoneContained /\ sweep = "compact"
    BY DEF IInv, Rest, Compact
  <2>2. \A i, j \in 1..n : i < j /\ Active(i) /\ Active(j) =>
           matches[i].start < matches[j].start
    BY <2>1 DEF NoneContained
  <2> QED BY <1>1, <2>2
<1>4. PICK t : /\ t = kept' /\ t \in Rearrangements(s)
               /\ \A i, j \in DOMAIN t : i < j => ResultOrder(t[i], t[j])
  BY <1>1 DEF Compact, Compacted
<1>5. PICK m \in Nat : m = Cardinality(S) /\ DOMAIN s = 1..m
  <2>1. Cardinality(S) \in Nat /\ DOMAIN Selected(matches, S) = 1..Cardinality(S)
    BY <1>2, SelectedIs
  <2> QED BY <1>1, <2>1
<1>6. ASSUME NEW x \in 1..m, NEW y \in 1..m, x # y
      PROVE  s[x].start # s[y].start /\ s[x].start \in Nat /\ s[y].start \in Nat
  <2>1. PICK i \in S : Rank(S, i) = x /\ s[x] = matches[i]
    BY <1>1, <1>2, <1>5, SelectedIs
  <2>2. PICK j \in S : Rank(S, j) = y /\ s[y] = matches[j]
    BY <1>1, <1>2, <1>5, SelectedIs
  <2>3. i \in Nat /\ j \in Nat /\ i # j
    BY <1>2, <1>6, <2>1, <2>2
  <2>4. matches[i].start \in Nat /\ matches[j].start \in Nat
    <3>1. matches[i] \in Match /\ matches[j] \in Match
      BY <1>2
    <3> QED BY <3>1 DEF Match
  <2>5. i < j \/ j < i
    BY <2>3
  <2> QED BY <1>3, <2>1, <2>2, <2>4, <2>5
<1>7. PICK p \in [1..m -> 1..m] :
         /\ DOMAIN t = 1..m
         /\ \A i, j \in 1..m : p[i] = p[j] => i = j
         /\ \A i \in 1..m : t[i] = s[p[i]]
  <2>1. PICK p \in [1..m -> 1..m] :
           /\ \A j \in 1..m : \E i \in 1..m : p[i] = j
           /\ t = [i \in 1..m |-> s[p[i]]]
    <3>1. PICK p \in {f \in [DOMAIN s -> DOMAIN s] :
                        \A j \in DOMAIN s : \E i \in DOMAIN s : f[i] = j} :
             t = [i \in DOMAIN s |-> s[p[i]]]
      BY <1>4 DEF Rearrangements
    <3> QED BY <1>5, <3>1
  <2>2. PICK N : N = 1..m
    OBVIOUS
  <2>3. IsFiniteSet(N) /\ p \in Surjection(N, N)
    BY <2>1, <2>2, FirstNumbers DEF Surjection
  <2>4. p \in Injection(N, N)
    BY <2>3, FS_SurjSameCardinalityImpliesInj
  <2>5. \A i, j \in 1..m : p[i] = p[j] => i = j
    BY <2>2, <2>4 DEF Injection, IsInjective
  <2> QED BY <2>1, <2>5
<1>8. ASSUME NEW i \in 1..m, NEW j \in 1..m, i < j
      PROVE  t[i].start < t[j].start
  <2>1. i # j
    BY <1>5, <1>8
  <2>2. PICK x, y \in 1..m : x = p[i] /\ y = p[j] /\ x # y
    BY <1>7, <2>1
  <2>3. t[i].start # t[j].start /\ t[i].start \in Nat /\ t[j].start \in Nat
    <3>1. t[i] = s[x] /\ t[j] = s[y]
      BY <1>7, <2>2
    <3>2. s[x].start # s[y].start /\ s[x].start \in Nat /\ s[y].start \in Nat
      BY <1>6, <2>2
    <3> QED BY <3>1, <3>2
  <2>4. ResultOrder(t[i], t[j])
    BY <1>4, <1>7, <1>8
  <2> QED BY <2>3, <2>4 DEF ResultOrder
<1> QED BY <1>4, <1>7, <1>8 DEF Increasing

Firsts(ms) == {ms[i].first : i \in DOMAIN ms}
Tags(ms) == {<<ms[i].rule, ms[i].first>> : i \in DOMAIN ms}
Distinct(ms) == \A i, j \in DOMAIN ms : ms[i].first = ms[j].first => i = j
Rising(ms) == \A i, j \in DOMAIN ms : i < j => ms[i].first < ms[j].first

(* The operations on lists of matches.                                     *)
LEMMA AppendedIs ==
    ASSUME NEW ms \in Seq(Entry), NEW m \in Entry,
           \A f \in Firsts(ms) : f < m.first
    PROVE  /\ Firsts(Append(ms, m)) = Firsts(ms) \cup {m.first}
           /\ Tags(Append(ms, m)) = Tags(ms) \cup {<<m.rule, m.first>>}
           /\ Distinct(ms) => Distinct(Append(ms, m))
           /\ Rising(ms) => Rising(Append(ms, m))
<1>1. PICK l \in Nat : l = Len(ms) /\ DOMAIN ms = 1..l
  OBVIOUS
<1>2. PICK t : t = Append(ms, m)
  OBVIOUS
<1>3. /\ t \in Seq(Entry) /\ DOMAIN t = 1..(l + 1) /\ t[l + 1] = m
      /\ \A i \in 1..l : t[i] = ms[i]
  BY <1>1, <1>2
<1>4. DOMAIN t = (DOMAIN ms) \cup {l + 1}
  BY <1>1, <1>3
<1>5. Firsts(t) = Firsts(ms) \cup {m.first}
  BY <1>1, <1>3, <1>4 DEF Firsts
<1>6. Tags(t) = Tags(ms) \cup {<<m.rule, m.first>>}
  BY <1>1, <1>3, <1>4 DEF Tags
<1>7. \A i \in 1..l : ms[i].first < m.first /\ ms[i].first \in Nat /\ m.first \in Nat
  <2>1. \A i \in 1..l : ms[i].first < m.first
    BY <1>1 DEF Firsts
  <2>2. \A i \in 1..l : ms[i] \in Entry
    BY <1>1
  <2> QED BY <2>1, <2>2 DEF Entry
<1>8. Distinct(ms) => Distinct(t)
  <2> SUFFICES ASSUME Distinct(ms), NEW i \in 1..(l + 1), NEW j \in 1..(l + 1),
                      t[i].first = t[j].first
               PROVE  i = j
    BY <1>3 DEF Distinct
  <2>1. CASE i \in 1..l /\ j \in 1..l
    BY <1>1, <1>3, <2>1 DEF Distinct
  <2>2. CASE i = l + 1 /\ j \in 1..l
    <3>1. t[j].first < t[i].first /\ t[j].first \in Nat
      BY <1>3, <1>7, <2>2
    <3> QED BY <3>1
  <2>3. CASE j = l + 1 /\ i \in 1..l
    <3>1. t[i].first < t[j].first /\ t[i].first \in Nat
      BY <1>3, <1>7, <2>3
    <3> QED BY <3>1
  <2> QED BY <1>1, <2>1, <2>2, <2>3
<1>9. Rising(ms) => Rising(t)
  <2> SUFFICES ASSUME Rising(ms), NEW i \in 1..(l + 1), NEW j \in 1..(l + 1), i < j
               PROVE  t[i].first < t[j].first
    BY <1>3 DEF Rising
  <2>1. CASE i \in 1..l /\ j \in 1..l
    BY <1>1, <1>3, <2>1 DEF Rising
  <2>2. CASE j = l + 1 /\ i \in 1..l
    BY <1>3, <1>7, <2>2
  <2> QED BY <1>1, <2>1, <2>2
<1> QED BY <1>2, <1>5, <1>6, <1>8, <1>9

LEMMA PartKept ==
    ASSUME NEW ms \in Seq(Entry), NEW S \in SUBSET (1..Len(ms))
    PROVE  /\ Selected(ms, S) \in Seq(Entry)
           /\ Firsts(Selected(ms, S)) = {ms[i].first : i \in S}
           /\ Tags(Selected(ms, S)) = {<<ms[i].rule, ms[i].first>> : i \in S}
           /\ Distinct(ms) => Distinct(Selected(ms, S))
           /\ Rising(ms) => Rising(Selected(ms, S))
<1>1. PICK l \in Nat : l = Len(ms) /\ DOMAIN ms = 1..l
  OBVIOUS
<1>2. PICK t, c : t = Selected(ms, S) /\ c = Cardinality(S)
  OBVIOUS
<1>3. /\ IsFiniteSet(S) /\ c \in Nat /\ t \in Seq(Entry) /\ DOMAIN t = 1..c
      /\ \A k \in 1..c : \E i \in S : Rank(S, i) = k /\ t[k] = ms[i]
      /\ \A i \in S : Rank(S, i) \in 1..c /\ t[Rank(S, i)] = ms[i]
  BY <1>2, SelectedIs
<1>4. Firsts(t) = {ms[i].first : i \in S}
  BY <1>3 DEF Firsts
<1>5. Tags(t) = {<<ms[i].rule, ms[i].first>> : i \in S}
  BY <1>3 DEF Tags
<1>6. Distinct(ms) => Distinct(t)
  <2> SUFFICES ASSUME Distinct(ms), NEW x \in 1..c, NEW y \in 1..c, t[x].first = t[y].first
               PROVE  x = y
    BY <1>3 DEF Distinct
  <2>1. PICK i \in S, j \in S : /\ Rank(S, i) = x /\ t[x] = ms[i]
                                /\ Rank(S, j) = y /\ t[y] = ms[j]
    BY <1>3
  <2>2. i = j
    BY <1>1, <2>1 DEF Distinct
  <2> QED BY <2>1, <2>2
<1>7. Rising(ms) => Rising(t)
  <2> SUFFICES ASSUME Rising(ms), NEW x \in 1..c, NEW y \in 1..c, x < y
               PROVE  t[x].first < t[y].first
    BY <1>3 DEF Rising
  <2>1. PICK i \in S, j \in S : /\ Rank(S, i) = x /\ t[x] = ms[i]
                                /\ Rank(S, j) = y /\ t[y] = ms[j]
    BY <1>3
  <2>2. i \in Int /\ j \in Int /\ S \in SUBSET Nat
    BY <1>1
  <2>3. RankGrows(S)
    BY <1>3, <2>2, RankIs
  <2>4. j <= i => y <= x
    BY <2>1, <2>2, <2>3 DEF RankGrows
  <2>5. i < j
    BY <2>2, <2>4
  <2> QED BY <1>1, <2>1, <2>5 DEF Rising
<1> QED BY <1>2, <1>3, <1>4, <1>5, <1>6, <1>7

LEMMA JoinedIs ==
    ASSUME NEW ms \in Seq(Entry), NEW ls \in Seq(Entry)
    PROVE  /\ Firsts(ms \o ls) = Firsts(ms) \cup Firsts(ls)
           /\ Tags(ms \o ls) = Tags(ms) \cup Tags(ls)
           /\ Distinct(ms) /\ Distinct(ls) /\ Firsts(ms) \cap Firsts(ls) = {}
                => Distinct(ms \o ls)
<1>1. PICK a, b \in Nat : /\ a = Len(ms) /\ DOMAIN ms = 1..a
                          /\ b = Len(ls) /\ DOMAIN ls = 1..b
  OBVIOUS
<1>2. PICK t : t = ms \o ls
  OBVIOUS
<1>3. /\ DOMAIN t = 1..(a + b) /\ \A i \in 1..a : t[i] = ms[i]
      /\ \A i \in 1..b : t[a + i] = ls[i] /\ a + i \in 1..(a + b)
      /\ \A i \in 1..a : i \in 1..(a + b)
  BY <1>1, <1>2
<1>4. \A i \in 1..(a + b) : i \in 1..a \/ \E k \in 1..b : i = a + k
  <2> SUFFICES ASSUME NEW i \in 1..(a + b), i \notin 1..a PROVE \E k \in 1..b : i = a + k
    OBVIOUS
  <2>1. PICK k : k = i - a
    OBVIOUS
  <2>2. k \in 1..b /\ i = a + k
    BY <1>1, <2>1
  <2> QED BY <2>2
<1>5. Firsts(t) = Firsts(ms) \cup Firsts(ls)
  <2>1. ASSUME NEW i \in 1..(a + b) PROVE t[i].first \in Firsts(ms) \cup Firsts(ls)
    <3>1. CASE i \in 1..a
      BY <1>1, <1>3, <3>1 DEF Firsts
    <3>2. CASE i \notin 1..a
      <4>1. PICK k \in 1..b : i = a + k
        BY <1>4, <3>2
      <4>2. t[i] = ls[k]
        BY <1>3, <4>1
      <4> QED BY <1>1, <4>2 DEF Firsts
    <3> QED BY <3>1, <3>2
  <2>2. \A i \in 1..a : ms[i].first \in Firsts(t)
    BY <1>3 DEF Firsts
  <2>3. ASSUME NEW k \in 1..b PROVE ls[k].first \in Firsts(t)
    <3>1. PICK i : i = a + k
      OBVIOUS
    <3>2. i \in DOMAIN t /\ t[i] = ls[k]
      BY <1>3, <3>1
    <3> QED BY <3>2 DEF Firsts
  <2>4. DOMAIN t = 1..(a + b)
    BY <1>3
  <2>5. Firsts(t) \subseteq Firsts(ms) \cup Firsts(ls)
    <3>1. PICK U : U = Firsts(ms) \cup Firsts(ls)
      OBVIOUS
    <3> QED BY <2>1, <2>4, <3>1 DEF Firsts
  <2>6. Firsts(ms) \subseteq Firsts(t)
    <3>1. PICK U : U = Firsts(t)
      OBVIOUS
    <3> QED BY <1>1, <2>2, <3>1 DEF Firsts
  <2>7. Firsts(ls) \subseteq Firsts(t)
    <3>1. PICK U : U = Firsts(t)
      OBVIOUS
    <3> QED BY <1>1, <2>3, <3>1 DEF Firsts
  <2> QED BY <2>5, <2>6, <2>7
<1>6. Tags(t) = Tags(ms) \cup Tags(ls)
  <2>1. ASSUME NEW i \in 1..(a + b) PROVE <<t[i].rule, t[i].first>> \in Tags(ms) \cup Tags(ls)
    <3>1. CASE i \in 1..a
      BY <1>1, <1>3, <3>1 DEF Tags
    <3>2. CASE i \notin 1..a
      <4>1. PICK k \in 1..b : i = a + k
        BY <1>4, <3>2
      <4>2. t[i] = ls[k]
        BY <1>3, <4>1
      <4> QED BY <1>1, <4>2 DEF Tags
    <3> QED BY <3>1, <3>2
  <2>2. \A i \in 1..a : <<ms[i].rule, ms[i].first>> \in Tags(t)
    BY <1>3 DEF Tags
  <2>3. ASSUME NEW k \in 1..b PROVE <<ls[k].rule, ls[k].first>> \in Tags(t)
    <3>1. PICK i : i = a + k
      OBVIOUS
    <3>2. i \in DOMAIN t /\ t[i] = ls[k]
      BY <1>3, <3>1
    <3> QED BY <3>2 DEF Tags
  <2>4. DOMAIN t = 1..(a + b)
    BY <1>3
  <2>5. Tags(t) \subseteq Tags(ms) \cup Tags(ls)
    <3>1. PICK U : U = Tags(ms) \cup Tags(ls)
      OBVIOUS
    <3> QED BY <2>1, <2>4, <3>1 DEF Tags
  <2>6. Tags(ms) \subseteq Tags(t)
    <3>1. PICK U : U = Tags(t)
      OBVIOUS
    <3> QED BY <1>1, <2>2, <3>1 DEF Tags
  <2>7. Tags(ls) \subseteq Tags(t)
    <3>1. PICK U : U = Tags(t)
      OBVIOUS
    <3> QED BY <1>1, <2>3, <3>1 DEF Tags
  <2> QED BY <2>5, <2>6, <2>7
<1>7. ASSUME Distinct(ms), Distinct(ls), Firsts(ms) \cap Firsts(ls) = {}
      PROVE  Distinct(t)
  <2> SUFFICES ASSUME NEW i \in 1..(a + b), NEW j \in 1..(a + b), t[i].first = t[j].first
               PROVE  i = j
    BY <1>3 DEF Distinct
  <2>1. \A x \in 1..a, y \in 1..b : ms[x].first # ls[y].first
    BY <1>1, <1>7 DEF Firsts
  <2>2. CASE i \in 1..a /\ j \in 1..a
    BY <1>1, <1>3, <1>7, <2>2 DEF Distinct
  <2>3. CASE i \in 1..a /\ j \notin 1..a
    <3>1. PICK y \in 1..b : j = a + y
      BY <1>4, <2>3
    <3> QED BY <1>3, <2>1, <2>3, <3>1
  <2>4. CASE i \notin 1..a /\ j \in 1..a
    <3>1. PICK y \in 1..b : i = a + y
      BY <1>4, <2>4
    <3> QED BY <1>3, <2>1, <2>4, <3>1
  <2>5. CASE i \notin 1..a /\ j \notin 1..a
    <3>1. PICK x \in 1..b, y \in 1..b : i = a + x /\ j = a + y
      BY <1>4, <2>5
    <3>2. t[i] = ls[x] /\ t[j] = ls[y]
      BY <1>3, <3>1
    <3>3. ls[x].first = ls[y].first
      BY <3>2
    <3>4. x = y
      BY <1>1, <1>7, <3>3 DEF Distinct
    <3> QED BY <3>1, <3>4
  <2> QED BY <2>2, <2>3, <2>4, <2>5
<1> QED BY <1>2, <1>5, <1>6, <1>7

LEMMA RisingIs ==
    ASSUME NEW ms \in Seq(Entry), Rising(ms)
    PROVE  Distinct(ms) /\ Ascending(ms)
<1>1. \A i \in DOMAIN ms : ms[i].first \in Nat /\ i \in Nat
  <2>1. \A i \in DOMAIN ms : ms[i] \in Entry /\ i \in Nat
    OBVIOUS
  <2> QED BY <2>1 DEF Entry
<1>2. Distinct(ms)
  <2> SUFFICES ASSUME NEW i \in DOMAIN ms, NEW j \in DOMAIN ms, ms[i].first = ms[j].first,
                      i # j
               PROVE  FALSE
    BY DEF Distinct
  <2>1. i < j \/ j < i
    BY <1>1
  <2>2. ms[i].first < ms[j].first \/ ms[j].first < ms[i].first
    BY <2>1 DEF Rising
  <2> QED BY <1>1, <2>2
<1>3. Ascending(ms)
  BY DEF Ascending, Rising, Earlier
<1> QED BY <1>2, <1>3

(* A sort of matches that start at different places is strict.             *)
LEMMA SortedIfRises ==
    ASSUME NEW ms \in Seq(Entry), Distinct(ms), ~changed => Rising(ms)
    PROVE  /\ SortedIf(ms) \in Seq(Entry) /\ Len(SortedIf(ms)) = Len(ms)
           /\ Rising(SortedIf(ms)) /\ Range(SortedIf(ms)) = Range(ms)
<1>1. PICK t : t = SortedIf(ms)
  OBVIOUS
<1>2. t \in Seq(Entry) /\ Len(t) = Len(ms)
  BY <1>1, SortedIfIs
<1>3. CASE ~changed
  <2>1. t = ms
    BY <1>1, <1>3, SortedIfIs
  <2> QED BY <1>1, <1>2, <1>3, <2>1
<1>4. CASE changed
  <2>1. PICK p : SortedBy(t, ms, EarlierPairs(ms), p)
    BY <1>1, <1>4, SortedIfIs
  <2>2. PICK l \in Nat : l = Len(ms) /\ DOMAIN ms = 1..l
    OBVIOUS
  <2>3. /\ p \in [1..l -> 1..l] /\ DOMAIN t = 1..l
        /\ \A i, j \in 1..l : p[i] = p[j] => i = j
        /\ \A i \in 1..l : \E k \in 1..l : p[k] = i
        /\ \A k \in 1..l : t[k] = ms[p[k]]
        /\ \A i, j \in 1..l : i < j => <<p[j], p[i]>> \notin EarlierPairs(ms)
    BY <2>1, <2>2 DEF SortedBy
  <2>4. Range(t) = Range(ms)
    <3>1. ASSUME NEW k \in 1..l PROVE t[k] \in Range(ms)
      <4>1. PICK i \in 1..l : i = p[k]
        BY <2>3
      <4>2. t[k] = ms[i] /\ i \in DOMAIN ms
        BY <2>2, <2>3, <4>1
      <4> QED BY <4>2 DEF Range
    <3>2. ASSUME NEW i \in 1..l PROVE ms[i] \in Range(t)
      <4>1. PICK k \in 1..l : p[k] = i
        BY <2>3
      <4>2. t[k] = ms[i] /\ k \in DOMAIN t
        BY <2>3, <4>1
      <4> QED BY <4>2 DEF Range
    <3> QED BY <2>2, <2>3, <3>1, <3>2 DEF Range
  <2>5. ASSUME NEW i \in 1..l, NEW j \in 1..l, i < j
        PROVE  t[i].first < t[j].first
    <3>1. PICK x, y \in 1..l : x = p[i] /\ y = p[j]
      BY <2>3
    <3>2. x # y
      BY <2>2, <2>3, <2>5, <3>1
    <3>3. ~Earlier(ms[y], ms[x])
      <4>1. <<y, x>> \notin EarlierPairs(ms)
        BY <2>3, <2>5, <3>1
      <4> QED BY <2>2, <4>1 DEF EarlierPairs
    <3>4. ms[x].first # ms[y].first
      BY <2>2, <3>2 DEF Distinct
    <3>5. ms[x].first \in Nat /\ ms[y].first \in Nat
      <4>1. ms[x] \in Entry /\ ms[y] \in Entry
        BY <2>2
      <4> QED BY <4>1 DEF Entry
    <3>6. ms[x].first < ms[y].first
      BY <3>3, <3>4, <3>5 DEF Earlier
    <3> QED BY <2>3, <3>1, <3>6
  <2>6. Rising(t)
    BY <2>3, <2>5 DEF Rising
  <2> QED BY <1>1, <1>2, <2>4, <2>6
<1> QED BY <1>3, <1>4

LEMMA SameRange ==
    ASSUME NEW s \in Seq(Entry), NEW t \in Seq(Entry), Range(s) = Range(t)
    PROVE  Firsts(s) = Firsts(t) /\ Tags(s) = Tags(t)
<1>1. \A ms : Firsts(ms) = {e.first : e \in Range(ms)}
  BY DEF Firsts, Range
<1>2. \A ms : Tags(ms) = {<<e.rule, e.first>> : e \in Range(ms)}
  BY DEF Tags, Range
<1> QED BY <1>1, <1>2

-----------------------------------------------------------------------------
(* What has been filed of the chosen matches.                              *)
Apart(cs, ds) ==
    /\ Distinct(cs)
    /\ \A d \in DOMAIN ds : /\ Distinct(ds[d].matches)
                            /\ Firsts(cs) \cap Firsts(ds[d].matches) = {}
    /\ \A d, e \in DOMAIN ds : d # e =>
          /\ ds[d].expression # ds[e].expression
          /\ Firsts(ds[d].matches) \cap Firsts(ds[e].matches) = {}

Expressed(ds) ==
    \A d \in DOMAIN ds :
        /\ Rising(ds[d].matches)
        /\ \A i \in DOMAIN ds[d].matches :
              ReportedExpression[ds[d].matches[i].rule] = ds[d].expression

Told(cs, ds, t) == t \in Tags(cs) \/ \E d \in DOMAIN ds : t \in Tags(ds[d].matches)

Tag(k) == <<Chosen[k].rule, Located(Chosen[k]).first>>
ChosenTags(l) == {Tag(k) : k \in 1..l}

(* A match later than all there are may join any list.                     *)
AllBefore(cs, ds, f) ==
    /\ \A x \in Firsts(cs) : x < f
    /\ \A d \in DOMAIN ds : \A x \in Firsts(ds[d].matches) : x < f

LEMMA BehindIs ==
    ASSUME NEW cs, NEW ds, NEW f, \A r, x : Told(cs, ds, <<r, x>>) => x < f
    PROVE  AllBefore(cs, ds, f)
<1>1. \A ms : \A x \in Firsts(ms) : \E r : <<r, x>> \in Tags(ms)
  BY DEF Firsts, Tags
<1>2. \A x \in Firsts(cs) : x < f
  BY <1>1 DEF Told
<1>3. ASSUME NEW d \in DOMAIN ds, NEW x \in Firsts(ds[d].matches) PROVE x < f
  BY <1>1 DEF Told
<1> QED BY <1>2, <1>3 DEF AllBefore

LEMMA ClueJoins ==
    ASSUME NEW cs \in Seq(Entry), NEW ds \in Seq(DetectionOf(Entry)), NEW m \in Entry,
           Apart(cs, ds), AllBefore(cs, ds, m.first)
    PROVE  /\ Apart(Append(cs, m), ds) /\ (Rising(cs) => Rising(Append(cs, m)))
           /\ \A t : Told(Append(cs, m), ds, t) <=>
                         Told(cs, ds, t) \/ t = <<m.rule, m.first>>
<1>1. PICK c : c = Append(cs, m)
  OBVIOUS
<1>2. /\ Firsts(c) = Firsts(cs) \cup {m.first}
      /\ Tags(c) = Tags(cs) \cup {<<m.rule, m.first>>}
      /\ Distinct(c) /\ (Rising(cs) => Rising(c))
  <2>1. Distinct(cs) /\ \A x \in Firsts(cs) : x < m.first
    BY DEF Apart, AllBefore
  <2> QED BY <1>1, <2>1, AppendedIs
<1>3. \A d \in DOMAIN ds : m.first \notin Firsts(ds[d].matches)
  <2>1. m.first \in Nat /\ ~(m.first < m.first)
    BY DEF Entry
  <2> QED BY <2>1 DEF AllBefore
<1>4. Apart(c, ds)
  <2>1. \A d \in DOMAIN ds : /\ Distinct(ds[d].matches)
                            /\ Firsts(c) \cap Firsts(ds[d].matches) = {}
    <3>1. \A d \in DOMAIN ds : /\ Distinct(ds[d].matches)
                              /\ Firsts(cs) \cap Firsts(ds[d].matches) = {}
      BY DEF Apart
    <3> QED BY <1>2, <1>3, <3>1
  <2>2. \A d, e \in DOMAIN ds : d # e =>
           /\ ds[d].expression # ds[e].expression
           /\ Firsts(ds[d].matches) \cap Firsts(ds[e].matches) = {}
    BY DEF Apart
  <2> QED BY <1>2, <2>1, <2>2 DEF Apart
<1>5. \A t : Told(c, ds, t) <=> Told(cs, ds, t) \/ t = <<m.rule, m.first>>
  BY <1>2 DEF Told
<1> QED BY <1>1, <1>2, <1>4, <1>5

LEMMA DetectionJoins ==
    ASSUME NEW cs \in Seq(Entry), NEW ds \in Seq(DetectionOf(Entry)), NEW m \in Entry,
           Apart(cs, ds), Expressed(ds), AllBefore(cs, ds, m.first),
           NEW g \in DOMAIN ds, ds[g].expression = ReportedExpression[m.rule], NEW es,
           es = [ds EXCEPT ![g].matches = Append(@, m)]
    PROVE  /\ Apart(cs, es) /\ Expressed(es)
           /\ \A t : Told(cs, es, t) <=> Told(cs, ds, t) \/ t = <<m.rule, m.first>>
<1>1. PICK ms, ls, D : /\ ms = ds[g].matches /\ ls = Append(ms, m) /\ D = DOMAIN ds
  OBVIOUS
<1>2. ms \in Seq(Entry)
  <2>1. ds[g] \in DetectionOf(Entry)
    OBVIOUS
  <2> QED BY <1>1, <2>1 DEF DetectionOf
<1>3. /\ Firsts(ls) = Firsts(ms) \cup {m.first}
      /\ Tags(ls) = Tags(ms) \cup {<<m.rule, m.first>>}
      /\ Distinct(ls) /\ Rising(ls)
  <2>1. Distinct(ms) /\ Rising(ms) /\ \A x \in Firsts(ms) : x < m.first
    BY <1>1 DEF Apart, AllBefore, Expressed
  <2> QED BY <1>1, <1>2, <2>1, AppendedIs
<1>4. /\ DOMAIN es = D /\ \A d \in D : es[d].expression = ds[d].expression
      /\ es[g].matches = ls /\ \A d \in D : d # g => es[d].matches = ds[d].matches
  <2>1. PICK x : x = [ds[g] EXCEPT !.matches = ls]
    OBVIOUS
  <2>2. es = [ds EXCEPT ![g] = x] /\ ds[g] \in DetectionOf(Entry)
    BY <1>1, <2>1
  <2>3. x.matches = ls /\ x.expression = ds[g].expression
    BY <2>1, <2>2 DEF DetectionOf
  <2>4. DOMAIN es = D /\ es[g] = x /\ \A d \in D : d # g => es[d] = ds[d]
    BY <1>1, <2>2
  <2> QED BY <2>3, <2>4
<1>5. \A d \in D : Distinct(ds[d].matches) /\ m.first \notin Firsts(ds[d].matches)
  <2>1. m.first \in Nat /\ ~(m.first < m.first)
    BY DEF Entry
  <2> QED BY <1>1, <2>1 DEF AllBefore, Apart
<1>6. m.first \notin Firsts(cs)
  <2>1. m.first \in Nat /\ ~(m.first < m.first)
    BY DEF Entry
  <2> QED BY <2>1 DEF AllBefore
<1>7. Apart(cs, es)
  <2>1. ASSUME NEW d \in D
        PROVE  Distinct(es[d].matches) /\ Firsts(cs) \cap Firsts(es[d].matches) = {}
    <3>1. Firsts(cs) \cap Firsts(ds[d].matches) = {}
      BY <1>1 DEF Apart
    <3> QED BY <1>1, <1>3, <1>4, <1>5, <1>6, <3>1
  <2>2. ASSUME NEW d \in D, NEW e \in D, d # e
        PROVE  /\ es[d].expression # es[e].expression
               /\ Firsts(es[d].matches) \cap Firsts(es[e].matches) = {}
    <3>1. /\ ds[d].expression # ds[e].expression
          /\ Firsts(ds[d].matches) \cap Firsts(ds[e].matches) = {}
      BY <1>1, <2>2 DEF Apart
    <3>2. /\ Firsts(es[d].matches) \subseteq Firsts(ds[d].matches) \cup {m.first}
          /\ Firsts(es[e].matches) \subseteq Firsts(ds[e].matches) \cup {m.first}
          /\ d # g => Firsts(es[d].matches) = Firsts(ds[d].matches)
          /\ e # g => Firsts(es[e].matches) = Firsts(ds[e].matches)
      BY <1>1, <1>3, <1>4
    <3> QED BY <1>4, <1>5, <2>2, <3>1, <3>2
  <2>3. Distinct(cs)
    BY DEF Apart
  <2> QED BY <1>4, <2>1, <2>2, <2>3 DEF Apart
<1>8. Expressed(es)
  <2>1. ASSUME NEW d \in D
        PROVE  /\ Rising(es[d].matches)
               /\ \A i \in DOMAIN es[d].matches :
                     ReportedExpression[es[d].matches[i].rule] = es[d].expression
    <3>1. CASE d # g
      BY <1>1, <1>4, <3>1 DEF Expressed
    <3>2. CASE d = g
      <4>1. \A i \in DOMAIN ls : (i \in DOMAIN ms /\ ls[i] = ms[i]) \/ ls[i] = m
        BY <1>1, <1>2
      <4>2. \A i \in DOMAIN ms : ReportedExpression[ms[i].rule] = ds[g].expression
        BY <1>1 DEF Expressed
      <4>3. \A i \in DOMAIN ls : ReportedExpression[ls[i].rule] = ds[g].expression
        BY <4>1, <4>2
      <4>4. es[d].matches = ls /\ es[d].expression = ds[g].expression
        BY <1>4, <3>2
      <4> QED BY <1>3, <4>3, <4>4
    <3> QED BY <3>1, <3>2
  <2> QED BY <1>4, <2>1 DEF Expressed
<1>9. ASSUME NEW t
      PROVE  Told(cs, es, t) <=> Told(cs, ds, t) \/ t = <<m.rule, m.first>>
  <2>1. \A d \in D : Tags(es[d].matches) =
           IF d = g THEN Tags(ds[d].matches) \cup {<<m.rule, m.first>>}
                    ELSE Tags(ds[d].matches)
    BY <1>1, <1>3, <1>4
  <2>2. PICK u : u = <<m.rule, m.first>>
    OBVIOUS
  <2>3. (\E d \in D : t \in Tags(es[d].matches))
            <=> (\E d \in D : t \in Tags(ds[d].matches)) \/ t = u
    <3>1. g \in D /\ \A d \in D : t \in Tags(es[d].matches)
              <=> t \in Tags(ds[d].matches) \/ (d = g /\ t = u)
      <4>1. ASSUME NEW d \in D
            PROVE  t \in Tags(es[d].matches)
                      <=> t \in Tags(ds[d].matches) \/ (d = g /\ t = u)
        <5>1. CASE d = g
          <6>1. Tags(es[d].matches) = Tags(ds[d].matches) \cup {u}
            BY <2>1, <2>2, <5>1
          <6> QED BY <5>1, <6>1
        <5>2. CASE d # g
          BY <2>1, <5>2
        <5> QED BY <5>1, <5>2
      <4> QED BY <1>1, <4>1
    <3> QED BY <3>1
  <2> QED BY <1>1, <1>4, <2>2, <2>3 DEF Told
<1> QED BY <1>7, <1>8, <1>9

LEMMA DetectionOpens ==
    ASSUME NEW cs \in Seq(Entry), NEW ds \in Seq(DetectionOf(Entry)), NEW m \in Entry,
           Apart(cs, ds), Expressed(ds), AllBefore(cs, ds, m.first),
           \A g \in DOMAIN ds : ds[g].expression # ReportedExpression[m.rule], NEW es,
           es = Append(ds, [expression |-> ReportedExpression[m.rule], matches |-> <<m>>])
    PROVE  /\ Apart(cs, es) /\ Expressed(es)
           /\ \A t : Told(cs, es, t) <=> Told(cs, ds, t) \/ t = <<m.rule, m.first>>
<1>1. PICK l \in Nat : l = Len(ds) /\ DOMAIN ds = 1..l
  OBVIOUS
<1>2. PICK ls : ls = <<m>>
  OBVIOUS
<1>3. DOMAIN ls = {1} /\ ls[1] = m
  BY <1>2
<1>4. /\ Firsts(ls) = {m.first} /\ Tags(ls) = {<<m.rule, m.first>>}
      /\ Distinct(ls) /\ Rising(ls)
  BY <1>3 DEF Firsts, Tags, Distinct, Rising
<1>5. PICK o, D : o = l + 1 /\ D = 1..l
  OBVIOUS
<1>6. /\ DOMAIN es = D \cup {o} /\ o \notin D /\ \A d \in D : es[d] = ds[d]
      /\ es[o].matches = ls /\ es[o].expression = ReportedExpression[m.rule]
  <2>1. PICK x : x = [expression |-> ReportedExpression[m.rule], matches |-> ls]
    OBVIOUS
  <2>2. es = Append(ds, x)
    BY <1>2, <2>1
  <2>3. /\ DOMAIN es = 1..(l + 1) /\ \A d \in 1..l : es[d] = ds[d]
        /\ es[l + 1] = x
    BY <1>1, <2>2
  <2>4. 1..(l + 1) = D \cup {o} /\ o \notin D
    BY <1>1, <1>5
  <2> QED BY <1>5, <2>1, <2>3, <2>4
<1>7. \A d \in D : m.first \notin Firsts(ds[d].matches)
  <2>1. m.first \in Nat /\ ~(m.first < m.first)
    BY DEF Entry
  <2> QED BY <1>1, <1>5, <2>1 DEF AllBefore
<1>8. m.first \notin Firsts(cs)
  <2>1. m.first \in Nat /\ ~(m.first < m.first)
    BY DEF Entry
  <2> QED BY <2>1 DEF AllBefore
<1>9. D = DOMAIN ds
  BY <1>1, <1>5
<1>10. Apart(cs, es)
  <2>1. \A d \in D \cup {o} : /\ Distinct(es[d].matches)
                              /\ Firsts(cs) \cap Firsts(es[d].matches) = {}
    BY <1>4, <1>6, <1>8, <1>9 DEF Apart
  <2>2. ASSUME NEW d \in D \cup {o}, NEW e \in D \cup {o}, d # e
        PROVE  /\ es[d].expression # es[e].expression
               /\ Firsts(es[d].matches) \cap Firsts(es[e].matches) = {}
    <3>1. CASE d \in D /\ e \in D
      <4>1. /\ ds[d].expression # ds[e].expression
            /\ Firsts(ds[d].matches) \cap Firsts(ds[e].matches) = {}
        BY <1>9, <2>2, <3>1 DEF Apart
      <4> QED BY <1>6, <3>1, <4>1
    <3>2. CASE d = o /\ e \in D
      BY <1>4, <1>6, <1>7, <1>9, <3>2
    <3>3. CASE e = o /\ d \in D
      BY <1>4, <1>6, <1>7, <1>9, <3>3
    <3> QED BY <2>2, <3>1, <3>2, <3>3
  <2>3. Distinct(cs)
    BY DEF Apart
  <2>4. \A d \in DOMAIN es : /\ Distinct(es[d].matches)
                             /\ Firsts(cs) \cap Firsts(es[d].matches) = {}
    BY <1>6, <2>1
  <2>5. \A d, e \in DOMAIN es : d # e =>
           /\ es[d].expression # es[e].expression
           /\ Firsts(es[d].matches) \cap Firsts(es[e].matches) = {}
    BY <1>6, <2>2
  <2> QED BY <2>3, <2>4, <2>5 DEF Apart
<1>11. Expressed(es)
  <2>1. ASSUME NEW d \in D \cup {o}
        PROVE  /\ Rising(es[d].matches)
               /\ \A i \in DOMAIN es[d].matches :
                     ReportedExpression[es[d].matches[i].rule] = es[d].expression
    <3>1. CASE d \in D
      <4>1. es[d] = ds[d] /\ d \in DOMAIN ds
        BY <1>6, <1>9, <3>1
      <4> QED BY <4>1 DEF Expressed
    <3>2. CASE d = o
      BY <1>3, <1>4, <1>6, <3>2
    <3> QED BY <2>1, <3>1, <3>2
  <2> QED BY <1>6, <2>1 DEF Expressed
<1>12. \A t : Told(cs, es, t) <=> Told(cs, ds, t) \/ t = <<m.rule, m.first>>
  BY <1>4, <1>6, <1>9 DEF Told
<1> QED BY <1>10, <1>11, <1>12

LEMMA MovedIs ==
    ASSUME NEW ms \in Seq(Entry), Distinct(ms), NEW S \in SUBSET (DOMAIN ms), NEW more,
           more = Selected(AsClues(ms), S)
    PROVE  /\ more \in Seq(Entry) /\ Distinct(more)
           /\ Firsts(more) = {ms[i].first : i \in S}
           /\ Tags(more) = {<<ms[i].rule, ms[i].first>> : i \in S}
           /\ S = {} => more = <<>>
<1>1. PICK l \in Nat : l = Len(ms) /\ DOMAIN ms = 1..l
  OBVIOUS
<1>2. PICK as : as = AsClues(ms)
  OBVIOUS
<1>3. as \in Seq(Entry) /\ Len(as) = l
  <2>1. \A m \in Entry : [m EXCEPT !.kind = "clue"] \in Entry
    BY DEF Entry, Kinds
  <2> QED BY <1>1, <1>2, <2>1, AsCluesTyped
<1>4. \A i \in 1..l : as[i].first = ms[i].first /\ as[i].rule = ms[i].rule
  <2> SUFFICES ASSUME NEW i \in 1..l
               PROVE  as[i].first = ms[i].first /\ as[i].rule = ms[i].rule
    OBVIOUS
  <2>1. ms[i] \in Entry /\ as[i] = [ms[i] EXCEPT !.kind = "clue"]
    BY <1>1, <1>2 DEF AsClues
  <2> QED BY <2>1 DEF Entry
<1>5. DOMAIN as = 1..l
  BY <1>3
<1>6. Distinct(as)
  BY <1>1, <1>4, <1>5 DEF Distinct
<1>7. /\ more \in Seq(Entry) /\ Distinct(more)
      /\ Firsts(more) = {as[i].first : i \in S}
      /\ Tags(more) = {<<as[i].rule, as[i].first>> : i \in S}
  <2>1. S \in SUBSET (1..Len(as)) /\ more = Selected(as, S)
    BY <1>1, <1>2, <1>3
  <2> QED BY <1>3, <1>6, <2>1, PartKept
<1>8. Firsts(more) = {ms[i].first : i \in S}
  BY <1>1, <1>4, <1>7
<1>9. Tags(more) = {<<ms[i].rule, ms[i].first>> : i \in S}
  BY <1>1, <1>4, <1>7
<1>10. ASSUME S = {} PROVE more = <<>>
  <2>1. Len(more) = Cardinality(S) /\ Cardinality(S) = 0
    <3>1. S \in SUBSET (1..Len(as)) /\ more = Selected(as, S)
      BY <1>1, <1>2, <1>3
    <3>2. Len(more) = Cardinality(S)
      BY <1>3, <3>1, SelectedIs
    <3> QED BY <1>10, <3>2, FS_EmptySet
  <2> QED BY <1>7, <2>1
<1> QED BY <1>7, <1>8, <1>9, <1>10

(* A detection of which some matches go over to the clues.                *)
WithMatches(ds, g, ms) == [ds EXCEPT ![g].matches = ms]
Moved(ms, S, left, more) ==
    /\ S \subseteq DOMAIN ms
    /\ left = Selected(ms, DOMAIN ms \ S) /\ more = Selected(AsClues(ms), S)

LEMMA DetectionLoses ==
    ASSUME NEW cs \in Seq(Entry), NEW ds \in Seq(DetectionOf(Entry)),
           Apart(cs, ds), Expressed(ds), NEW g \in DOMAIN ds, NEW ms, ms = ds[g].matches,
           NEW S, NEW left, NEW more, Moved(ms, S, left, more),
           NEW es, es = WithMatches(ds, g, left)
    PROVE  /\ Apart(cs \o more, es) /\ Expressed(es)
           /\ \A t : Told(cs \o more, es, t) <=> Told(cs, ds, t)
<1>1. PICK c, ls, D : /\ c = cs \o more /\ ls = left /\ D = DOMAIN ds
  OBVIOUS
<1>2. ms \in Seq(Entry) /\ Distinct(ms) /\ Rising(ms) /\ Distinct(cs)
  <2>1. ds[g] \in DetectionOf(Entry)
    OBVIOUS
  <2>2. ms \in Seq(Entry)
    BY <2>1 DEF DetectionOf
  <2> QED BY <2>2 DEF Apart, Expressed
<1>3. /\ S \in SUBSET (DOMAIN ms) /\ ls = Selected(ms, DOMAIN ms \ S)
      /\ more \in Seq(Entry) /\ Distinct(more)
      /\ Firsts(more) = {ms[i].first : i \in S}
      /\ Tags(more) = {<<ms[i].rule, ms[i].first>> : i \in S}
  <2>1. /\ S \in SUBSET (DOMAIN ms) /\ ls = Selected(ms, DOMAIN ms \ S)
        /\ more = Selected(AsClues(ms), S)
    BY <1>1 DEF Moved
  <2> QED BY <1>2, <2>1, MovedIs
<1>4. /\ ls \in Seq(Entry) /\ Distinct(ls) /\ Rising(ls)
      /\ Firsts(ls) = {ms[i].first : i \in DOMAIN ms \ S}
      /\ Tags(ls) = {<<ms[i].rule, ms[i].first>> : i \in DOMAIN ms \ S}
      /\ \A k \in DOMAIN ls : \E i \in DOMAIN ms : ls[k] = ms[i]
  <2>1. DOMAIN ms \ S \in SUBSET (1..Len(ms))
    BY <1>2
  <2>2. \A k \in DOMAIN ls : \E i \in DOMAIN ms \ S : ls[k] = ms[i]
    <3>1. PICK T : T = DOMAIN ms \ S
      OBVIOUS
    <3>2. T \in SUBSET (1..Len(ms))
      BY <2>1, <3>1
    <3>3. PICK t, z : t = Selected(ms, T) /\ z = Cardinality(T)
      OBVIOUS
    <3>4. DOMAIN t = 1..z /\ \A k \in 1..z : \E i \in T : t[k] = ms[i]
      <4>1. /\ DOMAIN Selected(ms, T) = 1..Cardinality(T)
            /\ \A k \in 1..Cardinality(T) : \E i \in T : Selected(ms, T)[k] = ms[i]
        BY <1>2, <3>2, SelectedIs
      <4> QED BY <3>3, <4>1
    <3>5. t = ls
      BY <1>3, <3>1, <3>3
    <3>6. \A k \in DOMAIN ls : \E i \in T : ls[k] = ms[i]
      BY <3>4, <3>5
    <3> QED BY <3>1, <3>6
  <2>3. /\ ls \in Seq(Entry) /\ Distinct(ls) /\ Rising(ls)
        /\ Firsts(ls) = {ms[i].first : i \in DOMAIN ms \ S}
        /\ Tags(ls) = {<<ms[i].rule, ms[i].first>> : i \in DOMAIN ms \ S}
    BY <1>2, <1>3, <2>1, PartKept
  <2> QED BY <2>2, <2>3
<1>5. /\ Firsts(more) \cap Firsts(ls) = {} /\ Firsts(more) \cup Firsts(ls) = Firsts(ms)
      /\ Tags(more) \cup Tags(ls) = Tags(ms)
  <2>1. Firsts(more) \cap Firsts(ls) = {}
    <3>1. Firsts(more) = {ms[i].first : i \in S} /\ S \subseteq DOMAIN ms
      BY <1>3
    <3>2. Firsts(ls) = {ms[i].first : i \in DOMAIN ms \ S}
      BY <1>4
    <3> QED BY <1>2, <3>1, <3>2 DEF Distinct
  <2>2. Firsts(more) \cup Firsts(ls) = Firsts(ms)
    BY <1>3, <1>4 DEF Firsts
  <2>3. Tags(more) \cup Tags(ls) = Tags(ms)
    BY <1>3, <1>4 DEF Tags
  <2> QED BY <2>1, <2>2, <2>3
<1>6. /\ DOMAIN es = D /\ \A d \in D : es[d].expression = ds[d].expression
      /\ es[g].matches = ls /\ \A d \in D : d # g => es[d].matches = ds[d].matches
  <2>1. PICK x : x = [ds[g] EXCEPT !.matches = ls]
    OBVIOUS
  <2>2. es = [ds EXCEPT ![g] = x] /\ ds[g] \in DetectionOf(Entry)
    BY <1>1, <2>1 DEF WithMatches
  <2>3. x.matches = ls /\ x.expression = ds[g].expression
    BY <2>1, <2>2 DEF DetectionOf
  <2>4. DOMAIN es = D /\ es[g] = x /\ \A d \in D : d # g => es[d] = ds[d]
    BY <1>1, <2>2
  <2> QED BY <2>3, <2>4
<1>7. \A d \in D : Firsts(cs) \cap Firsts(ds[d].matches) = {} /\ Distinct(ds[d].matches)
  BY <1>1 DEF Apart
<1>8. /\ Firsts(c) = Firsts(cs) \cup Firsts(more) /\ Tags(c) = Tags(cs) \cup Tags(more)
      /\ Distinct(c)
  <2>1. Firsts(cs) \cap Firsts(more) = {}
    BY <1>1, <1>5, <1>7
  <2> QED BY <1>1, <1>2, <1>3, <2>1, JoinedIs
<1>9. \A d \in D : d # g => Firsts(ms) \cap Firsts(ds[d].matches) = {}
  BY <1>1 DEF Apart
<1>10. Apart(c, es)
  <2>1. ASSUME NEW d \in D
        PROVE  Distinct(es[d].matches) /\ Firsts(c) \cap Firsts(es[d].matches) = {}
    <3>1. CASE d = g
      <4>1. es[d].matches = ls /\ Firsts(cs) \cap Firsts(ms) = {}
        BY <1>1, <1>6, <1>7, <3>1
      <4> QED BY <1>4, <1>5, <1>8, <4>1
    <3>2. CASE d # g
      <4>1. PICK A, B : A = Firsts(ms) /\ B = Firsts(ds[d].matches)
        OBVIOUS
      <4>2. A \cap B = {} /\ Firsts(more) \subseteq A /\ Firsts(cs) \cap B = {}
        BY <1>5, <1>7, <1>9, <3>2, <4>1
      <4>3. es[d].matches = ds[d].matches
        BY <1>6, <3>2
      <4> QED BY <1>7, <1>8, <4>1, <4>2, <4>3
    <3> QED BY <3>1, <3>2
  <2>2. ASSUME NEW d \in D, NEW e \in D, d # e
        PROVE  /\ es[d].expression # es[e].expression
               /\ Firsts(es[d].matches) \cap Firsts(es[e].matches) = {}
    <3>1. /\ ds[d].expression # ds[e].expression
          /\ Firsts(ds[d].matches) \cap Firsts(ds[e].matches) = {}
      BY <1>1, <2>2 DEF Apart
    <3>2. \A x \in D : Firsts(es[x].matches) \subseteq Firsts(ds[x].matches)
      BY <1>5, <1>6
    <3> QED BY <1>6, <3>1, <3>2
  <2>3. DOMAIN es = D /\ Distinct(c)
    BY <1>6, <1>8
  <2> QED BY <2>1, <2>2, <2>3 DEF Apart
<1>11. Expressed(es)
  <2>1. ASSUME NEW d \in D
        PROVE  /\ Rising(es[d].matches)
               /\ \A i \in DOMAIN es[d].matches :
                     ReportedExpression[es[d].matches[i].rule] = es[d].expression
    <3>1. CASE d # g
      BY <1>1, <1>6, <3>1 DEF Expressed
    <3>2. CASE d = g
      <4>1. \A i \in DOMAIN ms : ReportedExpression[ms[i].rule] = ds[g].expression
        BY <1>1 DEF Expressed
      <4>2. \A i \in DOMAIN ls : ReportedExpression[ls[i].rule] = ds[g].expression
        BY <1>4, <4>1
      <4>3. es[d].matches = ls /\ es[d].expression = ds[g].expression
        BY <1>6, <3>2
      <4> QED BY <1>4, <4>2, <4>3
    <3> QED BY <3>1, <3>2
  <2> QED BY <1>6, <2>1 DEF Expressed
<1>12. ASSUME NEW t PROVE Told(c, es, t) <=> Told(cs, ds, t)
  <2>1. t \in Tags(c) <=> t \in Tags(cs) \/ t \in Tags(more)
    BY <1>8
  <2>2. t \in Tags(ms) <=> t \in Tags(more) \/ t \in Tags(ls)
    BY <1>5
  <2>3. (\E d \in D : t \in Tags(es[d].matches))
            <=> t \in Tags(ls) \/ \E d \in D : d # g /\ t \in Tags(ds[d].matches)
    BY <1>1, <1>6
  <2>4. (\E d \in D : t \in Tags(ds[d].matches))
            <=> t \in Tags(ms) \/ \E d \in D : d # g /\ t \in Tags(ds[d].matches)
    BY <1>1
  <2>5. Told(c, es, t) <=> t \in Tags(c) \/ \E d \in D : t \in Tags(es[d].matches)
    BY <1>6 DEF Told
  <2>6. Told(cs, ds, t) <=> t \in Tags(cs) \/ \E d \in D : t \in Tags(ds[d].matches)
    BY <1>1 DEF Told
  <2> QED BY <2>1, <2>2, <2>3, <2>4, <2>5, <2>6
<1> QED BY <1>1, <1>10, <1>11, <1>12

-----------------------------------------------------------------------------
(* The end: which detection each of the result was, and that they are      *)
(* sorted.                                                                 *)
FinishedBy(q, l, ds, es) ==
    /\ l \in Nat /\ DOMAIN es = 1..l /\ q \in [1..l -> DOMAIN ds]
    /\ \A i, j \in 1..l : q[i] = q[j] => i = j
    /\ \A d \in DOMAIN ds : ds[d].matches # <<>> => \E k \in 1..l : q[k] = d
    /\ \A k \in 1..l : /\ ds[q[k]].matches # <<>>
                       /\ es[k].expression = ds[q[k]].expression
                       /\ es[k].matches = SortedIf(ds[q[k]].matches)
    /\ \A i, j \in 1..l : i < j => ~EarlierDetection(es[j], es[i])

LEMMA FinishedFrom ==
    ASSUME detections \in Seq(DetectionOf(Entry)), Finish
    PROVE  \E q, l : FinishedBy(q, l, detections, detections')
<1>1. PICK S, left, r, es :
         /\ S = {d \in DOMAIN detections : detections[d].matches # <<>>}
         /\ left = LeftDetections /\ r = Resorted(left) /\ es = detections'
  OBVIOUS
<1>2. es = SortedDetections(r)
  BY <1>1, FinishIs
<1>3. /\ left = Selected(detections, S) /\ S \in SUBSET (1..Len(detections))
      /\ S \in SUBSET (DOMAIN detections)
  BY <1>1 DEF LeftDetections
<1>4. PICK l \in Nat : /\ l = Cardinality(S) /\ DOMAIN left = 1..l
                       /\ \A k \in 1..l : \E i \in S : Rank(S, i) = k /\ left[k] = detections[i]
                       /\ \A i \in S : Rank(S, i) \in 1..l
  <2>1. PICK m, z : m = Selected(detections, S) /\ z = Cardinality(S)
    OBVIOUS
  <2>2. /\ z \in Nat /\ DOMAIN m = 1..z
        /\ \A k \in 1..z : \E i \in S : Rank(S, i) = k /\ m[k] = detections[i]
        /\ \A i \in S : Rank(S, i) \in 1..z
    BY <1>3, <2>1, SelectedIs
  <2> QED BY <1>3, <2>1, <2>2
<1>5. PICK f : /\ f \in [1..l -> S]
               /\ \A k \in 1..l : Rank(S, f[k]) = k /\ left[k] = detections[f[k]]
  <2>1. PICK f : f = [k \in 1..l |->
                        CHOOSE i \in S : Rank(S, i) = k /\ left[k] = detections[i]]
    OBVIOUS
  <2>2. \A k \in 1..l : /\ f[k] \in S /\ Rank(S, f[k]) = k
                        /\ left[k] = detections[f[k]]
    BY <1>4, <2>1
  <2> QED BY <2>1, <2>2
<1>6. \A i, j \in S : Rank(S, i) = Rank(S, j) => i = j
  <2>1. S \in SUBSET Nat /\ IsFiniteSet(S)
    BY <1>3, SelectedIs
  <2> QED BY <2>1, RankInRange
<1>7. \A i \in S : \E k \in 1..l : f[k] = i
  <2> SUFFICES ASSUME NEW i \in S PROVE \E k \in 1..l : f[k] = i
    OBVIOUS
  <2>1. PICK k \in 1..l : k = Rank(S, i)
    BY <1>4
  <2>2. f[k] = i
    BY <1>5, <1>6, <2>1
  <2> QED BY <2>2
<1>8. /\ r \in Seq(FullDetection(Entry)) /\ Len(r) = l /\ DOMAIN r = 1..l
      /\ \A k \in 1..l : /\ r[k].expression = left[k].expression
                         /\ r[k].matches = SortedIf(left[k].matches)
  <2>1. r \in Seq(FullDetection(Entry)) /\ Len(r) = Len(left) /\ Len(left) \in Nat
    BY <1>1, LeftTyped
  <2>2. left \in Seq(FullDetection(Entry))
    BY <1>1, LeftTyped
  <2>3. Len(r) = l /\ DOMAIN r = 1..l
    BY <1>4, <2>1, <2>2
  <2>4. r = [k \in 1..l |-> [left[k] EXCEPT !.matches = SortedIf(@)]]
    BY <1>1, <1>4 DEF Resorted
  <2>5. ASSUME NEW k \in 1..l
        PROVE  /\ r[k].expression = left[k].expression
               /\ r[k].matches = SortedIf(left[k].matches)
    <3>1. left[k] \in DetectionOf(Entry)
      BY <1>4, <2>2 DEF FullDetection
    <3>2. PICK e : e = left[k]
      OBVIOUS
    <3>3. r[k] = [e EXCEPT !.matches = SortedIf(e.matches)]
      BY <2>4, <3>2
    <3> QED BY <3>1, <3>2, <3>3 DEF DetectionOf
  <2> QED BY <2>1, <2>3, <2>5
<1>9. PICK p : SortedBy(es, r, DetectionPairs(r), p)
  BY <1>2, <1>8, SortedDetectionsIs
<1>10. /\ p \in [1..l -> 1..l] /\ DOMAIN es = 1..l
       /\ \A i, j \in 1..l : p[i] = p[j] => i = j
       /\ \A i \in 1..l : \E k \in 1..l : p[k] = i
       /\ \A k \in 1..l : es[k] = r[p[k]]
       /\ \A i, j \in 1..l : i < j => <<p[j], p[i]>> \notin DetectionPairs(r)
  BY <1>8, <1>9 DEF SortedBy
<1>11. PICK q : q = [k \in 1..l |-> f[p[k]]]
  OBVIOUS
<1>12. \A k \in 1..l : q[k] = f[p[k]] /\ p[k] \in 1..l /\ q[k] \in S
  BY <1>5, <1>10, <1>11
<1>13. \A i, j \in 1..l : q[i] = q[j] => i = j
  <2> SUFFICES ASSUME NEW i \in 1..l, NEW j \in 1..l, q[i] = q[j] PROVE i = j
    OBVIOUS
  <2>1. PICK x \in 1..l, y \in 1..l : x = p[i] /\ y = p[j]
    BY <1>10
  <2>2. f[x] = f[y]
    BY <1>12, <2>1
  <2>3. x = y
    BY <1>5, <2>2
  <2> QED BY <1>10, <2>1, <2>3
<1>14. \A i \in S : \E k \in 1..l : q[k] = i
  <2> SUFFICES ASSUME NEW i \in S PROVE \E k \in 1..l : q[k] = i
    OBVIOUS
  <2>1. PICK x \in 1..l : f[x] = i
    BY <1>7
  <2>2. PICK k \in 1..l : p[k] = x
    BY <1>10
  <2>3. q[k] = i
    BY <1>12, <2>1, <2>2
  <2> QED BY <2>3
<1>15. ASSUME NEW k \in 1..l
       PROVE  /\ detections[q[k]].matches # <<>>
              /\ es[k].expression = detections[q[k]].expression
              /\ es[k].matches = SortedIf(detections[q[k]].matches)
  <2>1. PICK x \in 1..l : x = p[k]
    BY <1>10
  <2>2. q[k] = f[x] /\ q[k] \in S /\ left[x] = detections[q[k]] /\ es[k] = r[x]
    <3>1. q[k] = f[x] /\ q[k] \in S
      BY <1>12, <2>1
    <3>2. left[x] = detections[f[x]]
      BY <1>5
    <3>3. es[k] = r[x]
      BY <1>10, <2>1
    <3> QED BY <3>1, <3>2, <3>3
  <2>3. detections[q[k]].matches # <<>>
    BY <1>1, <2>2
  <2> QED BY <1>8, <2>2, <2>3
<1>16. ASSUME NEW i \in 1..l, NEW j \in 1..l, i < j
       PROVE  ~EarlierDetection(es[j], es[i])
  <2>1. PICK x \in 1..l, y \in 1..l : x = p[i] /\ y = p[j]
    BY <1>10
  <2>2. <<y, x>> \notin DetectionPairs(r) /\ es[i] = r[x] /\ es[j] = r[y]
    BY <1>10, <1>16, <2>1
  <2> QED BY <1>8, <2>2 DEF DetectionPairs
<1>17. q \in [1..l -> DOMAIN detections]
  BY <1>3, <1>11, <1>12
<1>18. \A d \in DOMAIN detections : detections[d].matches # <<>> => d \in S
  BY <1>1
<1>19. FinishedBy(q, l, detections, es)
  BY <1>10, <1>13, <1>14, <1>15, <1>16, <1>17, <1>18 DEF FinishedBy
<1> QED BY <1>1, <1>19

(* A report in order.                                                      *)
Orderly(cs, ds) ==
    /\ cs \in Seq(Entry) /\ ds \in Seq(FullDetection(Entry))
    /\ Apart(cs, ds) /\ Rising(cs) /\ Expressed(ds)
    /\ \A d \in DOMAIN ds : \A i \in DOMAIN ds[d].matches : ~Downgraded(ds[d].matches[i])
    /\ \A d, e \in DOMAIN ds :
          d < e => ds[d].matches[1].first <= ds[e].matches[1].first

(* Sorted, a detection has what it had.                                    *)
LEMMA FinishedHas ==
    ASSUME detections \in Seq(DetectionOf(Entry)), Apart(clues, detections),
           Expressed(detections), NEW q, NEW l, NEW es, FinishedBy(q, l, detections, es),
           NEW k \in 1..l
    PROVE  /\ es[k].matches \in Seq(Entry) /\ Rising(es[k].matches)
           /\ Range(es[k].matches) = Range(detections[q[k]].matches)
           /\ Firsts(es[k].matches) = Firsts(detections[q[k]].matches)
           /\ Tags(es[k].matches) = Tags(detections[q[k]].matches)
<1>1. PICK ms, ls : ms = detections[q[k]].matches /\ ls = es[k].matches
  OBVIOUS
<1>2. q[k] \in DOMAIN detections /\ ls = SortedIf(ms)
  BY <1>1 DEF FinishedBy
<1>3. ms \in Seq(Entry) /\ Distinct(ms) /\ Rising(ms)
  <2>1. detections[q[k]] \in DetectionOf(Entry)
    BY <1>2
  <2>2. ms \in Seq(Entry)
    BY <1>1, <2>1 DEF DetectionOf
  <2> QED BY <1>1, <1>2, <2>2 DEF Apart, Expressed
<1>4. ls \in Seq(Entry) /\ Rising(ls) /\ Range(ls) = Range(ms)
  BY <1>2, <1>3, SortedIfRises
<1>5. Firsts(ls) = Firsts(ms) /\ Tags(ls) = Tags(ms)
  BY <1>3, <1>4, SameRange
<1> QED BY <1>1, <1>4, <1>5

LEMMA FinishedApart ==
    ASSUME detections \in Seq(DetectionOf(Entry)), NEW cs \in Seq(Entry), Rising(cs),
           Range(cs) = Range(clues), clues \in Seq(Entry), Apart(clues, detections),
           Expressed(detections), NEW q, NEW l, NEW es, FinishedBy(q, l, detections, es)
    PROVE  /\ Apart(cs, es) /\ Expressed(es)
           /\ \A t : Told(cs, es, t) <=> Told(clues, detections, t)
<1>1. PICK ds, K : ds = detections /\ K = 1..l
  OBVIOUS
<1>2. /\ DOMAIN es = K /\ \A k \in K : q[k] \in DOMAIN ds
      /\ \A i, j \in K : q[i] = q[j] => i = j
      /\ \A d \in DOMAIN ds : ds[d].matches # <<>> => \E k \in K : q[k] = d
      /\ \A k \in K : es[k].expression = ds[q[k]].expression
  BY <1>1 DEF FinishedBy
<1>3. ASSUME NEW k \in K
      PROVE  /\ es[k].matches \in Seq(Entry) /\ Rising(es[k].matches)
             /\ Range(es[k].matches) = Range(ds[q[k]].matches)
             /\ Firsts(es[k].matches) = Firsts(ds[q[k]].matches)
             /\ Tags(es[k].matches) = Tags(ds[q[k]].matches)
             /\ Distinct(es[k].matches)
  <2>1. /\ es[k].matches \in Seq(Entry) /\ Rising(es[k].matches)
        /\ Range(es[k].matches) = Range(ds[q[k]].matches)
        /\ Firsts(es[k].matches) = Firsts(ds[q[k]].matches)
        /\ Tags(es[k].matches) = Tags(ds[q[k]].matches)
    BY <1>1, FinishedHas
  <2> QED BY <2>1, RisingIs
<1>4. Firsts(cs) = Firsts(clues) /\ Tags(cs) = Tags(clues) /\ Distinct(cs)
  BY SameRange, RisingIs
<1>5. Apart(cs, es)
  <2>1. ASSUME NEW d \in K
        PROVE  Distinct(es[d].matches) /\ Firsts(cs) \cap Firsts(es[d].matches) = {}
    <3>1. Firsts(clues) \cap Firsts(ds[q[d]].matches) = {}
      BY <1>1, <1>2 DEF Apart
    <3> QED BY <1>3, <1>4, <3>1
  <2>2. ASSUME NEW d \in K, NEW e \in K, d # e
        PROVE  /\ es[d].expression # es[e].expression
               /\ Firsts(es[d].matches) \cap Firsts(es[e].matches) = {}
    <3>1. q[d] # q[e] /\ q[d] \in DOMAIN ds /\ q[e] \in DOMAIN ds
      BY <1>2, <2>2
    <3>2. /\ ds[q[d]].expression # ds[q[e]].expression
          /\ Firsts(ds[q[d]].matches) \cap Firsts(ds[q[e]].matches) = {}
      BY <1>1, <3>1 DEF Apart
    <3> QED BY <1>2, <1>3, <3>2
  <2> QED BY <1>2, <1>4, <2>1, <2>2 DEF Apart
<1>6. Expressed(es)
  <2>1. ASSUME NEW k \in K, NEW i \in DOMAIN es[k].matches
        PROVE  ReportedExpression[es[k].matches[i].rule] = es[k].expression
    <3>1. es[k].matches[i] \in Range(ds[q[k]].matches)
      <4>1. es[k].matches[i] \in Range(es[k].matches)
        BY DEF Range
      <4> QED BY <1>3, <4>1
    <3>2. PICK j \in DOMAIN ds[q[k]].matches : es[k].matches[i] = ds[q[k]].matches[j]
      BY <3>1 DEF Range
    <3>3. ReportedExpression[ds[q[k]].matches[j].rule] = ds[q[k]].expression
      BY <1>1, <1>2 DEF Expressed
    <3> QED BY <1>2, <3>2, <3>3
  <2> QED BY <1>2, <1>3, <2>1 DEF Expressed
<1>7. ASSUME NEW t PROVE Told(cs, es, t) <=> Told(clues, ds, t)
  <2>1. ASSUME NEW d \in DOMAIN ds, t \in Tags(ds[d].matches)
        PROVE  \E k \in K : t \in Tags(es[k].matches)
    <3>1. ds[d].matches # <<>>
      BY <2>1 DEF Tags
    <3>2. PICK k \in K : q[k] = d
      BY <1>2, <3>1
    <3> QED BY <1>3, <2>1, <3>2
  <2>2. ASSUME NEW k \in K, t \in Tags(es[k].matches)
        PROVE  \E d \in DOMAIN ds : t \in Tags(ds[d].matches)
    BY <1>2, <1>3, <2>2
  <2> QED BY <1>2, <1>4, <2>1, <2>2 DEF Told
<1> QED BY <1>1, <1>5, <1>6, <1>7

LEMMA FinishOrders ==
    ASSUME ReportOf(Entry), Apart(clues, detections), Expressed(detections),
           ~changed => Rising(clues), Finish,
           \A d \in DOMAIN detections : \A i \in DOMAIN detections[d].matches :
              ~Downgraded(detections[d].matches[i])
    PROVE  /\ Orderly(clues', detections')
           /\ \A t : Told(clues', detections', t) <=> Told(clues, detections, t)
<1>1. clues \in Seq(Entry) /\ detections \in Seq(DetectionOf(Entry)) /\ Distinct(clues)
  BY DEF ReportOf, Apart
<1>2. PICK cs, es : cs = clues' /\ es = detections'
  OBVIOUS
<1>3. cs \in Seq(Entry) /\ Rising(cs) /\ Range(cs) = Range(clues)
  BY <1>1, <1>2, FinishIs, SortedIfRises
<1>4. es \in Seq(FullDetection(Entry))
  BY <1>2, FinishReports
<1>5. PICK q, l : FinishedBy(q, l, detections, es)
  BY <1>1, <1>2, FinishedFrom
<1>6. /\ Apart(cs, es) /\ Expressed(es)
      /\ \A t : Told(cs, es, t) <=> Told(clues, detections, t)
  BY <1>1, <1>3, <1>5, FinishedApart
<1>7. DOMAIN es = 1..l /\ l \in Nat
  BY <1>5 DEF FinishedBy
<1>8. ASSUME NEW k \in 1..l, NEW i \in DOMAIN es[k].matches
      PROVE  ~Downgraded(es[k].matches[i])
  <2>1. es[k].matches[i] \in Range(detections[q[k]].matches)
    <3>1. es[k].matches[i] \in Range(es[k].matches)
      BY DEF Range
    <3>2. Range(es[k].matches) = Range(detections[q[k]].matches)
      BY <1>1, <1>5, FinishedHas
    <3> QED BY <3>1, <3>2
  <2>2. PICK j \in DOMAIN detections[q[k]].matches :
           es[k].matches[i] = detections[q[k]].matches[j]
    BY <2>1 DEF Range
  <2>3. q[k] \in DOMAIN detections
    BY <1>5 DEF FinishedBy
  <2> QED BY <2>2, <2>3
<1>9. ASSUME NEW i \in 1..l, NEW j \in 1..l, i < j
      PROVE  es[i].matches[1].first <= es[j].matches[1].first
  <2>1. ~EarlierDetection(es[j], es[i])
    BY <1>5, <1>9 DEF FinishedBy
  <2>2. \A k \in 1..l : es[k].matches[1].first \in Nat
    <3> SUFFICES ASSUME NEW k \in 1..l PROVE es[k].matches[1].first \in Nat
      OBVIOUS
    <3>1. es[k] \in FullDetection(Entry)
      BY <1>4, <1>7
    <3>2. es[k].matches \in Seq(Entry) /\ es[k].matches # <<>>
      BY <3>1 DEF FullDetection, DetectionOf
    <3>3. es[k].matches[1] \in Entry
      BY <3>2
    <3> QED BY <3>3 DEF Entry
  <2>3. ~(es[j].matches[1].first < es[i].matches[1].first)
    BY <2>1 DEF EarlierDetection
  <2> QED BY <2>2, <2>3
<1>10. Orderly(cs, es)
  BY <1>3, <1>4, <1>6, <1>7, <1>8, <1>9 DEF Orderly
<1> QED BY <1>2, <1>6, <1>10

(* A text that goes on is one the code downgrades: the number the clause   *)
(* has to follow is the last one of the match.                             *)
LEMMA GoesOnDowngraded ==
    ASSUME NEW m \in Entry, m.kind = "text", GoesOn(m)
    PROVE  Downgraded(m)
<1>1. PICK numbered : numbered = {i \in m.first..(m.last - 1) : Number[text[i]] > 0}
  OBVIOUS
<1>2. PICK i \in m.first..(m.last - 1) :
         /\ Number[text[i]] > 0
         /\ \A j \in (i + 1)..(m.last - 1) : Number[text[j]] = 0
         /\ m.last < Len(text) /\ Number[text[m.last + 1]] = Number[text[i]] + 1
  BY DEF GoesOn
<1>3. m.first \in Nat /\ m.last \in Nat
  BY DEF Entry
<1>4. i \in numbered /\ \A j \in numbered : j <= i
  <2>1. ASSUME NEW j \in numbered, ~(j <= i) PROVE FALSE
    <3>1. j \in (i + 1)..(m.last - 1)
      BY <1>1, <1>2, <1>3, <2>1
    <3>2. Number[text[j]] = 0 /\ Number[text[j]] > 0
      BY <1>1, <1>2, <2>1, <3>1
    <3> QED BY <3>2
  <2> QED BY <1>1, <1>2, <2>1
<1>5. PICK last : last = CHOOSE x \in numbered : \A j \in numbered : j <= x
  OBVIOUS
<1>6. last \in numbered /\ \A j \in numbered : j <= last
  BY <1>4, <1>5
<1>7. last = i
  <2>1. last \in Int /\ i \in Int /\ last <= i /\ i <= last
    BY <1>1, <1>3, <1>4, <1>6
  <2> QED BY <2>1
<1>8. numbered # {} /\ m.last < Len(text)
      /\ Number[text[m.last + 1]] = Number[text[last]] + 1
  BY <1>2, <1>4, <1>7
<1>9. Continues(m)
  BY <1>1, <1>5, <1>8 DEF Continues
<1> QED BY <1>9 DEF Downgraded

(* What is reported, and where.                                            *)
LEMMA ReportedIs ==
    ASSUME detections \in Seq(FullDetection(Entry))
    PROVE  /\ \A i \in DOMAIN clues :
                 <<0, i>> \in Positions /\ Reported(<<0, i>>) = clues[i]
           /\ \A d \in DOMAIN detections : \A i \in DOMAIN detections[d].matches :
                 /\ <<d, i>> \in Positions
                 /\ Reported(<<d, i>>) = detections[d].matches[i]
           /\ \A p \in Positions :
                 \/ \E i \in DOMAIN clues : p = <<0, i>>
                 \/ \E d \in DOMAIN detections : \E i \in DOMAIN detections[d].matches :
                       p = <<d, i>>
<1>1. \A i \in DOMAIN clues : <<0, i>> \in Positions /\ Reported(<<0, i>>) = clues[i]
  BY DEF Positions, Reported
<1>2. ASSUME NEW d \in DOMAIN detections, NEW i \in DOMAIN detections[d].matches
      PROVE  /\ <<d, i>> \in Positions
             /\ Reported(<<d, i>>) = detections[d].matches[i]
  <2>1. d # 0
    OBVIOUS
  <2> QED BY <2>1 DEF Positions, Reported
<1>3. \A p \in Positions :
         \/ \E i \in DOMAIN clues : p = <<0, i>>
         \/ \E d \in DOMAIN detections : \E i \in DOMAIN detections[d].matches :
               p = <<d, i>>
  BY DEF Positions
<1> QED BY <1>1, <1>2, <1>3

LEMMA ReportedApart ==
    ASSUME Orderly(clues, detections), NEW p \in Positions, NEW q \in Positions,
           Reported(p).first = Reported(q).first
    PROVE  p = q
<1>1. detections \in Seq(FullDetection(Entry)) /\ Apart(clues, detections)
  BY DEF Orderly
<1>2. CASE \E i \in DOMAIN clues : p = <<0, i>>
  <2>1. PICK i \in DOMAIN clues : p = <<0, i>>
    BY <1>2
  <2>2. Reported(p) = clues[i] /\ clues[i].first \in Firsts(clues)
    BY <1>1, <2>1, ReportedIs DEF Firsts
  <2>3. CASE \E j \in DOMAIN clues : q = <<0, j>>
    <3>1. PICK j \in DOMAIN clues : q = <<0, j>>
      BY <2>3
    <3>2. Reported(q) = clues[j]
      BY <1>1, <3>1, ReportedIs
    <3>3. i = j
      BY <1>1, <2>2, <3>2 DEF Apart, Distinct
    <3> QED BY <2>1, <3>1, <3>3
  <2>4. CASE \E d \in DOMAIN detections : \E j \in DOMAIN detections[d].matches : q = <<d, j>>
    <3>1. PICK d \in DOMAIN detections :
             \E j \in DOMAIN detections[d].matches : q = <<d, j>>
      BY <2>4
    <3>2. PICK j \in DOMAIN detections[d].matches : q = <<d, j>>
      BY <3>1
    <3>3. Reported(q).first \in Firsts(detections[d].matches)
      BY <1>1, <3>2, ReportedIs DEF Firsts
    <3>4. Firsts(clues) \cap Firsts(detections[d].matches) = {}
      BY <1>1 DEF Apart
    <3> QED BY <2>2, <3>3, <3>4
  <2> QED BY <1>1, <2>3, <2>4, ReportedIs
<1>3. CASE \E d \in DOMAIN detections : \E i \in DOMAIN detections[d].matches : p = <<d, i>>
  <2>1. PICK d \in DOMAIN detections :
           \E i \in DOMAIN detections[d].matches : p = <<d, i>>
    BY <1>3
  <2>2. PICK i \in DOMAIN detections[d].matches : p = <<d, i>>
    BY <2>1
  <2>3. /\ Reported(p) = detections[d].matches[i]
        /\ Reported(p).first \in Firsts(detections[d].matches)
    BY <1>1, <2>2, ReportedIs DEF Firsts
  <2>4. CASE \E j \in DOMAIN clues : q = <<0, j>>
    <3>1. PICK j \in DOMAIN clues : q = <<0, j>>
      BY <2>4
    <3>2. Reported(q).first \in Firsts(clues)
      BY <1>1, <3>1, ReportedIs DEF Firsts
    <3>3. Firsts(clues) \cap Firsts(detections[d].matches) = {}
      BY <1>1 DEF Apart
    <3> QED BY <2>3, <3>2, <3>3
  <2>5. CASE \E e \in DOMAIN detections : \E j \in DOMAIN detections[e].matches : q = <<e, j>>
    <3>1. PICK e \in DOMAIN detections :
             \E j \in DOMAIN detections[e].matches : q = <<e, j>>
      BY <2>5
    <3>2. PICK j \in DOMAIN detections[e].matches : q = <<e, j>>
      BY <3>1
    <3>3. /\ Reported(q) = detections[e].matches[j]
          /\ Reported(q).first \in Firsts(detections[e].matches)
      BY <1>1, <3>2, ReportedIs DEF Firsts
    <3>4. d = e
      BY <1>1, <2>3, <3>3 DEF Apart
    <3>5. i = j
      BY <1>1, <2>3, <3>3, <3>4 DEF Apart, Distinct
    <3> QED BY <2>2, <3>2, <3>4, <3>5
  <2> QED BY <1>1, <2>4, <2>5, ReportedIs
<1> QED BY <1>1, <1>2, <1>3, ReportedIs

LEMMA ReportedTold ==
    ASSUME Orderly(clues, detections)
    PROVE  \A t : t \in {<<Reported(p).rule, Reported(p).first>> : p \in Positions}
                      <=> Told(clues, detections, t)
<1>1. detections \in Seq(FullDetection(Entry))
  BY DEF Orderly
<1>2. PICK T : T = {<<Reported(p).rule, Reported(p).first>> : p \in Positions}
  OBVIOUS
<1>3. ASSUME NEW t, t \in T PROVE Told(clues, detections, t)
  <2>1. PICK p \in Positions : t = <<Reported(p).rule, Reported(p).first>>
    BY <1>2, <1>3
  <2>2. CASE \E i \in DOMAIN clues : p = <<0, i>>
    <3>1. PICK i \in DOMAIN clues : p = <<0, i>>
      BY <2>2
    <3>2. t \in Tags(clues)
      BY <1>1, <2>1, <3>1, ReportedIs DEF Tags
    <3> QED BY <3>2 DEF Told
  <2>3. CASE \E d \in DOMAIN detections : \E i \in DOMAIN detections[d].matches : p = <<d, i>>
    <3>1. PICK d \in DOMAIN detections :
             \E i \in DOMAIN detections[d].matches : p = <<d, i>>
      BY <2>3
    <3>2. PICK i \in DOMAIN detections[d].matches : p = <<d, i>>
      BY <3>1
    <3>3. t \in Tags(detections[d].matches)
      BY <1>1, <2>1, <3>2, ReportedIs DEF Tags
    <3> QED BY <3>3 DEF Told
  <2> QED BY <1>1, <2>2, <2>3, ReportedIs
<1>4. ASSUME NEW t, Told(clues, detections, t) PROVE t \in T
  <2>1. CASE t \in Tags(clues)
    <3>1. PICK i \in DOMAIN clues : t = <<clues[i].rule, clues[i].first>>
      BY <2>1 DEF Tags
    <3>2. PICK p \in Positions : Reported(p) = clues[i]
      BY <1>1, ReportedIs
    <3> QED BY <1>2, <3>1, <3>2
  <2>2. CASE \E d \in DOMAIN detections : t \in Tags(detections[d].matches)
    <3>1. PICK d \in DOMAIN detections : t \in Tags(detections[d].matches)
      BY <2>2
    <3>2. PICK i \in DOMAIN detections[d].matches :
             t = <<detections[d].matches[i].rule, detections[d].matches[i].first>>
      BY <3>1 DEF Tags
    <3>3. PICK p \in Positions : Reported(p) = detections[d].matches[i]
      BY <1>1, ReportedIs
    <3> QED BY <1>2, <3>2, <3>3
  <2> QED BY <1>4, <2>1, <2>2 DEF Told
<1> QED BY <1>2, <1>3, <1>4

LEMMA OrderlyOrdered ==
    ASSUME Orderly(clues, detections), DOMAIN Chosen = 1..Len(Chosen),
           \A t : Told(clues, detections, t) <=> t \in ChosenTags(Len(Chosen))
    PROVE  ResultOrdered
<1>1. /\ clues \in Seq(Entry) /\ detections \in Seq(FullDetection(Entry))
      /\ Apart(clues, detections) /\ Rising(clues) /\ Expressed(detections)
  BY DEF Orderly
<1>2. Ascending(clues)
  BY <1>1, RisingIs
<1>3. ASSUME NEW d \in DOMAIN detections
      PROVE  /\ detections[d].matches # <<>> /\ Ascending(detections[d].matches)
             /\ detections[d].matches \in Seq(Entry)
  <2>1. detections[d] \in FullDetection(Entry)
    BY <1>1
  <2>2. detections[d].matches \in Seq(Entry) /\ detections[d].matches # <<>>
    BY <2>1 DEF FullDetection, DetectionOf
  <2>3. Rising(detections[d].matches)
    BY <1>1 DEF Expressed
  <2> QED BY <2>2, <2>3, RisingIs
<1>4. ASSUME NEW d \in DOMAIN detections, NEW i \in DOMAIN detections[d].matches
      PROVE  LET m == detections[d].matches[i]
             IN  /\ ReportedExpression[m.rule] = detections[d].expression
                 /\ ~(m.kind = "text" /\ GoesOn(m))
  <2>1. PICK m : m = detections[d].matches[i]
    OBVIOUS
  <2>2. m \in Entry
    BY <1>3, <2>1
  <2>3. ~Downgraded(m)
    BY <2>1 DEF Orderly
  <2>4. ~(m.kind = "text" /\ GoesOn(m))
    BY <2>2, <2>3, GoesOnDowngraded
  <2>5. ReportedExpression[m.rule] = detections[d].expression
    BY <1>1, <2>1 DEF Expressed
  <2> QED BY <2>1, <2>4, <2>5
<1>5. \A d, e \in DOMAIN detections : d < e =>
         /\ detections[d].expression # detections[e].expression
         /\ detections[d].matches[1].first <= detections[e].matches[1].first
  <2> SUFFICES ASSUME NEW d \in DOMAIN detections, NEW e \in DOMAIN detections, d < e
               PROVE  /\ detections[d].expression # detections[e].expression
                      /\ detections[d].matches[1].first <= detections[e].matches[1].first
    OBVIOUS
  <2>1. d # e
    BY <1>1
  <2>2. detections[d].expression # detections[e].expression
    BY <1>1, <2>1 DEF Apart
  <2>3. detections[d].matches[1].first <= detections[e].matches[1].first
    BY DEF Orderly
  <2> QED BY <2>2, <2>3
<1>6. \A p, q \in Positions : Reported(p).first = Reported(q).first => p = q
  BY ReportedApart
<1>7. {<<Reported(p).rule, Reported(p).first>> : p \in Positions}
        = {<<Chosen[k].rule, Located(Chosen[k]).first>> : k \in DOMAIN Chosen}
  <2>1. PICK T, U : /\ T = {<<Reported(p).rule, Reported(p).first>> : p \in Positions}
                    /\ U = ChosenTags(Len(Chosen))
    OBVIOUS
  <2>2. \A t : t \in T <=> t \in U
    BY <2>1, ReportedTold
  <2>3. U = {<<Chosen[k].rule, Located(Chosen[k]).first>> : k \in DOMAIN Chosen}
    BY <2>1 DEF ChosenTags, Tag
  <2> QED BY <2>1, <2>2, <2>3
<1> QED BY <1>2, <1>3, <1>4, <1>5, <1>6, <1>7 DEF ResultOrdered

(* Nothing but the last sweep touches what is kept.                        *)
LEMMA StepKeeps ==
    ASSUME MInv, [MNext]_mvars
    PROVE  kept' = kept \/ Increasing(kept')
<1>1. CASE StartFilter
  BY <1>1 DEF StartFilter
<1>2. CASE ~StartFilter
  <2>1. [Next]_vars
    BY <1>2, FilterSteps
  <2>2. CASE Compact
    BY <2>2, CompactIncreasing DEF MInv
  <2>3. CASE \/ Sort \/ FilterContained \/ FilterContainedAgain
             \/ Interrupted \/ FilterFalsePositive
    BY <2>3 DEF Sort, FilterContained, FilterContainedAgain, FilterFalsePositive,
                Interrupted, Begin, EndSweep, PassOver, Contained, NotContained
  <2>4. CASE FilterOverlapping
    BY <2>4 DEF FilterOverlapping, TakeCurrent, ComparePair, PassOver, Begin
  <2>5. CASE RestoreContained \/ RestoreOverlapping
    BY <2>5 DEF RestoreContained, RestoreOverlapping, Restoring, Restore, PassOver, Begin
  <2>6. CASE UNCHANGED vars
    BY <2>6 DEF vars
  <2> QED BY <2>1, <2>2, <2>3, <2>4, <2>5, <2>6 DEF Next, Step, Ended
<1> QED BY <1>1, <1>2

LEMMA KeptIncreasing == MSpec => []Increasing(kept)
<1>1. MInit => Increasing(kept)
  BY DEF MInit, Increasing
<1>2. MInv /\ Increasing(kept) /\ [MNext]_mvars => Increasing(kept)'
  <2> SUFFICES ASSUME MInv, Increasing(kept), [MNext]_mvars PROVE Increasing(kept)'
    OBVIOUS
  <2>1. Increasing(kept')
    <3>1. CASE kept' = kept
      BY <3>1
    <3> QED BY <3>1, StepKeeps
  <2> QED BY <2>1 DEF Increasing
<1> QED BY <1>1, <1>2, MInductive, PTL DEF MSpec

(* The places of the tokens rise.                                          *)
LEMMA PlacesRise ==
    ASSUME TextOK, NEW x \in 1..Len(ids), NEW y \in 1..Len(ids), x < y
    PROVE  PlacesOf(Vocabulary)[x] < PlacesOf(Vocabulary)[y]
<1>1. PICK P : P = PlacesOf(Vocabulary)
  OBVIOUS
<1>2. /\ P[x] \in Tokens /\ Rank(Tokens, P[x]) = x
      /\ P[y] \in Tokens /\ Rank(Tokens, P[y]) = y
  BY <1>1, TokenPlaces
<1>3. P[x] \in Int /\ P[y] \in Int
  <2>1. PICK l \in Nat : l = Len(text)
    BY WordsAre
  <2>2. Tokens \in SUBSET (1..l)
    BY <2>1, KindRanked DEF KindRanks, Tokens
  <2>3. Tokens \in SUBSET Int
    BY <2>2
  <2> QED BY <1>2, <2>3
<1>4. RankGrows(Tokens)
  BY KindRanked DEF KindRanks, Tokens
<1>5. P[y] <= P[x] => Rank(Tokens, P[y]) <= Rank(Tokens, P[x])
  BY <1>3, <1>4 DEF RankGrows
<1>6. ~(y <= x)
  OBVIOUS
<1> QED BY <1>1, <1>2, <1>3, <1>5, <1>6

(* The chosen matches are where the report says, one after the other.      *)
ChosenRise ==
    /\ Len(Chosen) \in Nat /\ DOMAIN Chosen = 1..Len(Chosen)
    /\ \A k \in 1..Len(Chosen) :
          /\ Located(Chosen[k]) \in Entry
          /\ Located(Chosen[k]).rule = Chosen[k].rule
    /\ \A i, j \in 1..Len(Chosen) :
          i < j => Located(Chosen[i]).first < Located(Chosen[j]).first

LEMMA ChosenSeq ==
    ASSUME kept \in Seq(Match), ListInv
    PROVE  DOMAIN Chosen = 1..Len(Chosen)
<1>1. CASE listPc = "filtered"
  <2>1. array \in Seq(ListMatch) /\ length \in Nat
    <3>1. array \in Seq(ListMatch) /\ length = Cardinality(LeftBefore(L!n + 1))
      BY <1>1 DEF ListInv, Recorded
    <3>2. L!n \in Nat
      BY <1>1 DEF ListInv, ListInput, L!n
    <3>3. LeftBefore(L!n + 1) \in SUBSET (1..L!n)
      BY <3>2 DEF LeftBefore
    <3>4. IsFiniteSet(1..L!n)
      BY <3>2, FirstNumbers
    <3>5. Cardinality(LeftBefore(L!n + 1)) \in Nat
      BY <3>3, <3>4, FS_Subset, FS_CardinalityType
    <3> QED BY <3>1, <3>5
  <2>2. PICK s : s = SubSeq(array, 1, length)
    OBVIOUS
  <2>3. DOMAIN s = 1..Len(s)
    BY <2>1, <2>2
  <2> QED BY <1>1, <2>2, <2>3 DEF Chosen
<1>2. CASE listPc # "filtered"
  BY <1>2 DEF Chosen
<1> QED BY <1>1, <1>2

LEMMA ChosenRises ==
    ASSUME MInv, KeptInv, ScanInv, ListInv, Fed, Increasing(kept), stage \in Reporting
    PROVE  ChosenRise
<1>1. /\ kept \in Seq(Match) /\ TextOK /\ stage \in Later
  BY DEF MInv, Reporting, Later
<1>2. Len(Chosen) \in Nat /\ DOMAIN Chosen = 1..Len(Chosen)
  BY <1>1, ChosenIs, ChosenSeq
<1>3. PICK S : Picked(S)
  BY <1>1, ChosenIs
<1>4. /\ S \in SUBSET (1..Len(kept)) /\ S \in SUBSET Nat /\ IsFiniteSet(S)
      /\ Cardinality(S) = Len(Chosen)
  <2>1. S \in SUBSET (1..Len(kept)) /\ Len(kept) \in Nat /\ Len(Chosen) = Cardinality(S)
    BY <1>1, <1>3 DEF Picked
  <2>2. IsFiniteSet(S)
    BY <2>1, FirstNumbers, FS_Subset
  <2> QED BY <2>1, <2>2
<1>5. RankGrows(S)
  BY <1>4, RankIs
<1>6. ASSUME NEW k \in 1..Len(Chosen)
      PROVE  \E i \in S : /\ Rank(S, i) = k /\ Same(Chosen[k], kept[i])
                          /\ Located(Chosen[k]) = Located(kept[i])
                          /\ kept[i] \in Range(found)
  <2>1. PICK i \in S : Rank(S, i) = k
    BY <1>4, RankInRange
  <2>2. Same(Chosen[k], kept[i])
    BY <1>3, <2>1 DEF Picked
  <2>3. kept[i] \in Range(found)
    <3>1. kept[i] \in Range(kept)
      BY <1>1, <1>4, <2>1 DEF Range
    <3> QED BY <1>1, <3>1 DEF KeptInv
  <2>4. Located(Chosen[k]) = Located(kept[i])
    BY <2>2 DEF Same, Located
  <2> QED BY <2>1, <2>2, <2>3, <2>4
<1>7. ASSUME NEW k \in 1..Len(Chosen)
      PROVE  Located(Chosen[k]) \in Entry /\ Located(Chosen[k]).rule = Chosen[k].rule
  <2>1. PICK i \in S : /\ Same(Chosen[k], kept[i]) /\ kept[i] \in Range(found)
                       /\ Located(Chosen[k]) = Located(kept[i])
    BY <1>6
  <2>2. Located(kept[i]).rule = kept[i].rule /\ Located(kept[i]) \in Entry
    BY <1>1, <2>1, LocatedIs DEF Entry, Kinds
  <2> QED BY <2>1, <2>2 DEF Same
<1>8. ASSUME NEW x \in 1..Len(Chosen), NEW y \in 1..Len(Chosen), x < y
      PROVE  Located(Chosen[x]).first < Located(Chosen[y]).first
  <2>1. PICK i \in S : /\ Rank(S, i) = x /\ kept[i] \in Range(found)
                       /\ Located(Chosen[x]) = Located(kept[i])
    BY <1>6
  <2>2. PICK j \in S : /\ Rank(S, j) = y /\ kept[j] \in Range(found)
                       /\ Located(Chosen[y]) = Located(kept[j])
    BY <1>6
  <2>3. i < j
    <3>1. i \in Int /\ j \in Int
      BY <1>4
    <3>2. j <= i => y <= x
      BY <1>5, <2>1, <2>2, <3>1 DEF RankGrows
    <3>3. ~(y <= x)
      BY <1>2, <1>8
    <3> QED BY <3>1, <3>2, <3>3
  <2>4. kept[i].start < kept[j].start
    <3>1. i \in DOMAIN kept /\ j \in DOMAIN kept
      BY <1>1, <1>4
    <3> QED BY <2>3, <3>1 DEF Increasing
  <2>5. /\ kept[i].start + 1 \in 1..Len(ids) /\ kept[j].start + 1 \in 1..Len(ids)
        /\ Located(kept[i]).first = PlacesOf(Vocabulary)[kept[i].start + 1]
        /\ Located(kept[j]).first = PlacesOf(Vocabulary)[kept[j].start + 1]
    BY <1>1, <2>1, <2>2, LocatedIs
  <2>6. kept[i].start + 1 < kept[j].start + 1
    <3>1. kept[i] \in Match /\ kept[j] \in Match
      BY <1>1, <1>4
    <3>2. kept[i].start \in Nat /\ kept[j].start \in Nat
      BY <3>1 DEF Match
    <3> QED BY <2>4, <3>2
  <2>7. PICK a, b \in 1..Len(ids) : a = kept[i].start + 1 /\ b = kept[j].start + 1
    BY <2>5
  <2>8. PlacesOf(Vocabulary)[a] < PlacesOf(Vocabulary)[b]
    BY <1>1, <2>6, <2>7, PlacesRise
  <2> QED BY <2>1, <2>2, <2>5, <2>7, <2>8
<1> QED BY <1>2, <1>7, <1>8 DEF ChosenRise

-----------------------------------------------------------------------------
(* Every chosen match is filed once, and no place twice.  Until a text is  *)
(* downgraded the clues rise as well.                                      *)
FiledAs(cs, ds, unsorted, tags) ==
    /\ Apart(cs, ds) /\ Expressed(ds)
    /\ ~unsorted => Rising(cs)
    /\ \A t : Told(cs, ds, t) <=> t \in tags

Filed(l) == FiledAs(clues, detections, changed, ChosenTags(l))

(* The detections before the one to be downgraded next go on no longer.    *)
Settled(ds, l) ==
    \A d \in DOMAIN ds :
        d <= l => \A i \in DOMAIN ds[d].matches : ~Downgraded(ds[d].matches[i])

FiledInv ==
    /\ stage \in Collecting \cup {"offsets", "filter", "lists"} =>
          clues = <<>> /\ detections = <<>>
    /\ stage = "groups" => Filed(at) /\ at <= Len(Chosen)
    /\ stage = "downgrade" => Filed(Len(Chosen)) /\ Settled(detections, at)
    /\ stage = "done" =>
          /\ Orderly(clues, detections)
          /\ \A t : Told(clues, detections, t) <=> t \in ChosenTags(Len(Chosen))

LEMMA EmptyFiled ==
    /\ \A unsorted : FiledAs(<<>>, <<>>, unsorted, ChosenTags(0))
    /\ Orderly(<<>>, <<>>)
<1>1. PICK s : s = <<>>
  OBVIOUS
<1>2. /\ DOMAIN s = {} /\ s \in Seq(Entry) /\ s \in Seq(FullDetection(Entry))
  BY <1>1
<1>3. Firsts(s) = {} /\ Tags(s) = {} /\ Distinct(s) /\ Rising(s)
  BY <1>2 DEF Firsts, Tags, Distinct, Rising
<1>4. Apart(s, s) /\ Expressed(s)
  BY <1>2, <1>3 DEF Apart, Expressed
<1>5. \A t : ~Told(s, s, t)
  BY <1>2, <1>3 DEF Told
<1>6. ChosenTags(0) = {}
  BY DEF ChosenTags
<1>7. \A unsorted : FiledAs(s, s, unsorted, ChosenTags(0))
  BY <1>3, <1>4, <1>5, <1>6 DEF FiledAs
<1>8. Orderly(s, s)
  BY <1>2, <1>3, <1>4 DEF Orderly
<1> QED BY <1>1, <1>7, <1>8

LEMMA SameChosen ==
    ASSUME text' = text, method' = method, UNCHANGED scan, UNCHANGED list, kept' = kept
    PROVE  /\ Chosen' = Chosen /\ Len(Chosen)' = Len(Chosen)
           /\ \A k : Tag(k)' = Tag(k)
           /\ \A m : Downgraded(m)' <=> Downgraded(m)
<1>1. Chosen' = Chosen
  BY DEF Chosen, list
<1>2. places' = places /\ PlacesOf(Vocabulary)' = PlacesOf(Vocabulary)
  BY SameWords DEF places
<1>3. \A m : Located(m)' = Located(m)
  BY <1>2 DEF Located, scan
<1>4. \A k : Tag(k)' = Tag(k)
  BY <1>1, <1>3 DEF Tag
<1>5. \A m : Downgraded(m)' <=> Downgraded(m)
  BY DEF Downgraded, Continues
<1> QED BY <1>1, <1>4, <1>5

(* Adding a match.                                                         *)
LEMMA AddMatchFiles ==
    ASSUME ChosenRise, ReportOf(Entry), at \in Nat, AddMatch, Filed(at)
    PROVE  FiledAs(clues', detections', changed', ChosenTags(at + 1))
<1>1. PICK k, m : k = at + 1 /\ m = Located(Chosen[k])
  OBVIOUS
<1>2. /\ clues \in Seq(Entry) /\ detections \in Seq(DetectionOf(Entry))
      /\ Apart(clues, detections) /\ Expressed(detections) /\ (~changed => Rising(clues))
      /\ \A t : Told(clues, detections, t) <=> t \in ChosenTags(at)
  BY DEF ReportOf, Filed, FiledAs
<1>3. k \in 1..Len(Chosen) /\ Len(Chosen) \in Nat /\ at < Len(Chosen)
  BY <1>1 DEF AddMatch, ChosenRise
<1>4. m \in Entry /\ m.rule = Chosen[k].rule
  BY <1>1, <1>3 DEF ChosenRise
<1>5. ChosenTags(k) = ChosenTags(at) \cup {<<m.rule, m.first>>}
  <2>1. 1..k = (1..at) \cup {k}
    BY <1>1
  <2>2. Tag(k) = <<m.rule, m.first>>
    BY <1>1, <1>4 DEF Tag
  <2> QED BY <2>1, <2>2 DEF ChosenTags
<1>6. AllBefore(clues, detections, m.first)
  <2>1. ASSUME NEW r, NEW x, Told(clues, detections, <<r, x>>) PROVE x < m.first
    <3>1. <<r, x>> \in ChosenTags(at)
      BY <1>2, <2>1
    <3>2. PICK i \in 1..at : <<r, x>> = Tag(i)
      BY <3>1 DEF ChosenTags
    <3>3. x = Located(Chosen[i]).first
      BY <3>2 DEF Tag
    <3>4. i \in 1..Len(Chosen) /\ i < k
      BY <1>1, <1>3
    <3>5. Located(Chosen[i]).first < Located(Chosen[k]).first
      BY <1>3, <3>4 DEF ChosenRise
    <3> QED BY <1>1, <3>3, <3>5
  <2> QED BY <2>1, BehindIs
<1>7. AddClue(m) \/ AddToDetection(m) \/ OpenDetection(m)
  BY <1>1 DEF AddMatch
<1>8. CASE AddClue(m)
  <2>1. clues' = Append(clues, m) /\ detections' = detections /\ changed' = changed
    BY <1>8 DEF AddClue
  <2>2. /\ Apart(Append(clues, m), detections)
        /\ Rising(clues) => Rising(Append(clues, m))
        /\ \A t : Told(Append(clues, m), detections, t) <=>
                      Told(clues, detections, t) \/ t = <<m.rule, m.first>>
    BY <1>2, <1>4, <1>6, ClueJoins
  <2> QED BY <1>1, <1>2, <1>5, <2>1, <2>2 DEF FiledAs
<1>9. CASE AddToDetection(m)
  <2>1. PICK g \in DOMAIN detections :
           /\ detections[g].expression = ReportedExpression[m.rule]
           /\ detections' = [detections EXCEPT ![g].matches = Append(@, m)]
    BY <1>9 DEF AddToDetection
  <2>2. PICK es : es = [detections EXCEPT ![g].matches = Append(@, m)]
    OBVIOUS
  <2>3. /\ Apart(clues, es) /\ Expressed(es)
        /\ \A t : Told(clues, es, t) <=>
                      Told(clues, detections, t) \/ t = <<m.rule, m.first>>
    <3>1. PICK cs, ds : cs = clues /\ ds = detections
      OBVIOUS
    <3>2. /\ cs \in Seq(Entry) /\ ds \in Seq(DetectionOf(Entry)) /\ Apart(cs, ds)
          /\ Expressed(ds) /\ AllBefore(cs, ds, m.first) /\ g \in DOMAIN ds
          /\ ds[g].expression = ReportedExpression[m.rule]
          /\ es = [ds EXCEPT ![g].matches = Append(@, m)]
      BY <1>2, <1>6, <2>1, <2>2, <3>1
    <3>3. /\ Apart(cs, es) /\ Expressed(es)
          /\ \A t : Told(cs, es, t) <=> Told(cs, ds, t) \/ t = <<m.rule, m.first>>
      BY <1>4, <3>2, DetectionJoins
    <3> QED BY <3>1, <3>3
  <2>5. clues' = clues /\ detections' = es /\ changed' = changed
    BY <1>9, <2>1, <2>2 DEF AddToDetection
  <2> QED BY <1>1, <1>2, <1>5, <2>3, <2>5 DEF FiledAs
<1>10. CASE OpenDetection(m)
  <2>1. PICK es : es = Append(detections, [expression |-> ReportedExpression[m.rule],
                                          matches |-> <<m>>])
    OBVIOUS
  <2>2. /\ clues' = clues /\ detections' = es /\ changed' = changed
        /\ \A g \in DOMAIN detections : detections[g].expression # ReportedExpression[m.rule]
    BY <1>10, <2>1 DEF OpenDetection
  <2>3. /\ Apart(clues, es) /\ Expressed(es)
        /\ \A t : Told(clues, es, t) <=>
                      Told(clues, detections, t) \/ t = <<m.rule, m.first>>
    BY <1>2, <1>4, <1>6, <2>1, <2>2, DetectionOpens
  <2> QED BY <1>1, <1>2, <1>5, <2>2, <2>3 DEF FiledAs
<1> QED BY <1>7, <1>8, <1>9, <1>10

(* Downgrading a detection.                                                *)
LEMMA DowngradeFiles ==
    ASSUME ReportOf(Entry), at \in Nat, DowngradeDetection, NEW tags,
           FiledAs(clues, detections, changed, tags), Settled(detections, at)
    PROVE  FiledAs(clues', detections', changed', tags) /\ Settled(detections', at + 1)
<1>1. PICK g, ms, gone : /\ g = at + 1 /\ ms = detections[g].matches /\ gone = Gone(g)
  OBVIOUS
<1>2. /\ clues \in Seq(Entry) /\ detections \in Seq(DetectionOf(Entry))
      /\ Apart(clues, detections) /\ Expressed(detections) /\ (~changed => Rising(clues))
      /\ \A t : Told(clues, detections, t) <=> t \in tags
  BY DEF ReportOf, FiledAs
<1>3. g \in DOMAIN detections
  BY <1>1, <1>2, DowngradeIs
<1>4. ms \in Seq(Entry)
  <2>1. detections[g] \in DetectionOf(Entry)
    BY <1>2, <1>3
  <2> QED BY <1>1, <2>1 DEF DetectionOf
<1>5. gone = {i \in DOMAIN ms : Downgraded(ms[i])} /\ gone \in SUBSET (DOMAIN ms)
  BY <1>1 DEF Gone
<1>6. PICK more, left, es : /\ more = Selected(AsClues(ms), gone)
                            /\ left = Selected(ms, DOMAIN ms \ gone)
                            /\ es = [detections EXCEPT ![g].matches = left]
  OBVIOUS
<1>7. clues' = clues \o more /\ detections' = es /\ (~changed' => ~changed /\ gone = {})
  <2>1. left = Kept(g)
    BY <1>1, <1>5, <1>6 DEF Kept
  <2> QED BY <1>1, <1>6, <2>1, DowngradeIs
<1>8. /\ Apart(clues \o more, es) /\ Expressed(es)
      /\ \A t : Told(clues \o more, es, t) <=> Told(clues, detections, t)
  <2>1. PICK cs, ds : cs = clues /\ ds = detections
    OBVIOUS
  <2>2. /\ cs \in Seq(Entry) /\ ds \in Seq(DetectionOf(Entry)) /\ Apart(cs, ds)
        /\ Expressed(ds) /\ g \in DOMAIN ds /\ ms = ds[g].matches
        /\ es = [ds EXCEPT ![g].matches = left]
    BY <1>1, <1>2, <1>3, <1>6, <2>1
  <2>3. WithMatches(ds, g, left) = es
    BY <2>2 DEF WithMatches
  <2>4. Moved(ms, gone, left, more)
    BY <1>5, <1>6 DEF Moved
  <2>5. /\ Apart(cs \o more, es) /\ Expressed(es)
        /\ \A t : Told(cs \o more, es, t) <=> Told(cs, ds, t)
    BY <2>2, <2>3, <2>4, DetectionLoses
  <2> QED BY <2>1, <2>5
<1>9. gone = {} => clues \o more = clues
  <2>1. Distinct(ms)
    BY <1>1, <1>2, <1>3 DEF Apart
  <2>2. gone = {} => more = <<>>
    BY <1>4, <1>5, <1>6, <2>1, MovedIs
  <2> QED BY <1>2, <2>2
<1>10. FiledAs(clues', detections', changed', tags)
  BY <1>2, <1>7, <1>8, <1>9 DEF FiledAs
<1>11. DOMAIN es = DOMAIN detections /\ es[g].matches = left
       /\ \A d \in DOMAIN detections : d # g => es[d] = detections[d]
  <2>1. detections[g] \in DetectionOf(Entry)
    BY <1>2, <1>3
  <2> QED BY <1>3, <1>6, <2>1 DEF DetectionOf
<1>12. \A i \in DOMAIN left : ~Downgraded(left[i])
  <2>1. DOMAIN ms \ gone \in SUBSET (1..Len(ms))
    BY <1>4
  <2>2. PICK S : S = DOMAIN ms \ gone
    OBVIOUS
  <2>3. \A k \in DOMAIN left : \E i \in S : left[k] = ms[i]
    BY <1>4, <1>6, <2>1, <2>2, SelectedIs
  <2>5. \A i \in S : ~Downgraded(ms[i])
    BY <1>5, <2>2
  <2> QED BY <2>3, <2>5
<1>13. Settled(es, g)
  <2>1. ASSUME NEW d \in DOMAIN es, d <= g, NEW i \in DOMAIN es[d].matches
        PROVE  ~Downgraded(es[d].matches[i])
    <3>1. CASE d = g
      BY <1>11, <1>12, <2>1, <3>1
    <3>2. CASE d # g
      <4>1. d \in DOMAIN detections /\ d \in Nat /\ d <= at
        BY <1>1, <1>2, <1>11, <2>1, <3>2
      <4>2. es[d] = detections[d]
        BY <1>11, <3>2, <4>1
      <4> QED BY <2>1, <4>1, <4>2 DEF Settled
    <3> QED BY <3>1, <3>2
  <2> QED BY <2>1 DEF Settled
<1> QED BY <1>1, <1>7, <1>10, <1>13

(* Whether filed, settled and in order, where nothing else changes.        *)
ReportNext ==
    /\ text' = text /\ method' = method /\ UNCHANGED scan /\ UNCHANGED list
    /\ kept' = kept

LEMMA FiledNext ==
    ASSUME ReportNext
    PROVE  /\ FiledAs(clues', detections', changed', ChosenTags(at')) => Filed(at)'
           /\ FiledAs(clues', detections', changed', ChosenTags(Len(Chosen)))
                 => Filed(Len(Chosen))'
           /\ Len(Chosen)' = Len(Chosen)
<1>1. /\ Chosen' = Chosen /\ Len(Chosen)' = Len(Chosen)
      /\ \A k : Tag(k)' = Tag(k)
  BY SameChosen DEF ReportNext
<1>2. FiledAs(clues', detections', changed', ChosenTags(at')) => Filed(at)'
  BY <1>1 DEF Filed, FiledAs, ChosenTags
<1>3. FiledAs(clues', detections', changed', ChosenTags(Len(Chosen)))
         => Filed(Len(Chosen))'
  BY <1>1 DEF Filed, FiledAs, ChosenTags
<1> QED BY <1>1, <1>2, <1>3

LEMMA SettledNext ==
    ASSUME ReportNext, NEW ds, NEW l, Settled(ds, l), ds = detections', l = at'
    PROVE  Settled(detections, at)'
<1>1. \A m : Downgraded(m)' <=> Downgraded(m)
  BY SameChosen DEF ReportNext
<1> QED BY <1>1 DEF Settled

LEMMA DoneNext ==
    ASSUME ReportNext, NEW cs, NEW ds, cs = clues', ds = detections', Orderly(cs, ds),
           \A t : Told(cs, ds, t) <=> t \in ChosenTags(Len(Chosen))
    PROVE  /\ Orderly(clues, detections)'
           /\ (\A t : Told(clues, detections, t) <=> t \in ChosenTags(Len(Chosen)))'
<1>1. /\ Chosen' = Chosen /\ Len(Chosen)' = Len(Chosen)
      /\ \A k : Tag(k)' = Tag(k)
      /\ \A m : Downgraded(m)' <=> Downgraded(m)
  BY SameChosen DEF ReportNext
<1>2. Orderly(clues, detections)'
  BY <1>1 DEF Orderly
<1>3. (\A t : Told(clues, detections, t) <=> t \in ChosenTags(Len(Chosen)))'
  <2>1. ChosenTags(Len(Chosen))' = ChosenTags(Len(Chosen))
    BY <1>1 DEF ChosenTags
  <2>2. \A t : Told(clues, detections, t)' <=> Told(cs, ds, t)
    BY DEF Told
  <2> QED BY <2>1, <2>2
<1> QED BY <1>2, <1>3

Unfiled == Collecting \cup {"offsets", "filter", "lists"}

LEMMA UnfiledSteps ==
    ASSUME [MNext]_mvars, ~NoTokens, ~GroupStep, ~DowngradeDetection, ~Finish,
           ~(UNCHANGED mvars)
    PROVE  /\ UNCHANGED <<clues, detections>>
           /\ stage' \in Unfiled \cup {"tooMany", "canceled"}
           /\ stage' \in Unfiled => stage \in Unfiled
<1>1. CASE \/ ByHash \/ ByAutomaton \/ FirstPass \/ CountPass \/ SecondPass \/ EndPass
           \/ FallBack \/ StartFilter \/ MInterrupted
  BY <1>1 DEF ByHash, ByAutomaton, FirstPass, CountPass, SecondPass, EndPass, FallBack,
              StartFilter, MInterrupted, Unfiled, Collecting, result
<1>2. CASE ScanStep \/ FilterStep \/ StartLists \/ ListStep
  BY <1>2 DEF ScanStep, SkipUnknown, SkipStopword, KnownToken, NextWord, EndScan,
              FilterStep, StartLists, ListStep, Unfiled, Collecting, result, call
<1> QED BY <1>1, <1>2 DEF MNext, MatchStep, MEnded

(* The invariants the order of the result rests on.                        *)
OrderInv ==
    /\ MInv /\ KeptInv /\ ScanInv /\ ListInv /\ Fed
    /\ Increasing(kept) /\ ReportOf(SoundEntries)

LEMMA OrderedReport == OrderInv => ReportOf(Entry)
<1> SUFFICES ASSUME OrderInv PROVE ReportOf(Entry)
  OBVIOUS
<1>1. PICK V : V = SoundEntries
  OBVIOUS
<1>2. /\ V \in SUBSET Entry
      /\ clues \in Seq(V) /\ detections \in Seq(DetectionOf(V))
  BY <1>1, SoundEntriesAre DEF OrderInv, ReportOf
<1>3. clues \in Seq(Entry)
  BY <1>2
<1>4. DetectionOf(V) \in SUBSET DetectionOf(Entry)
  <2>1. Seq(V) \in SUBSET Seq(Entry)
    BY <1>2
  <2> QED BY <2>1 DEF DetectionOf
<1>5. detections \in Seq(DetectionOf(Entry))
  BY <1>2, <1>4
<1> QED BY <1>3, <1>5 DEF ReportOf

LEMMA GroupFiles ==
    ASSUME OrderInv, FiledInv, GroupStep
    PROVE  FiledInv'
<1>1. /\ ReportOf(Entry) /\ at \in Nat /\ ChosenRise /\ stage \in {"filter", "lists", "groups"}
  <2>1. stage \in {"filter", "lists", "groups"}
    BY DEF GroupStep, StartGroups, AddMatch, EndGroups
  <2>2. at \in Nat
    BY <2>1 DEF OrderInv, ScanInv
  <2>3. stage \in Reporting
    BY <2>1 DEF Reporting
  <2>4. ChosenRise
    BY <2>3, ChosenRises DEF OrderInv
  <2> QED BY <2>1, <2>2, <2>4, OrderedReport
<1>2. ReportNext
  BY DEF GroupStep, StartGroups, AddMatch, EndGroups, ReportNext, vars
<1>3. PICK l \in Nat : l = Len(Chosen)
  BY <1>1 DEF ChosenRise
<1>4. CASE StartGroups
  <2>1. /\ stage' = "groups" /\ at' = 0 /\ clues = <<>> /\ detections = <<>>
        /\ clues' = clues /\ detections' = detections
    BY <1>4 DEF StartGroups, OrderInv, ScanInv, FiledInv, result
  <2>2. FiledAs(<<>>, <<>>, changed', ChosenTags(0))
    BY EmptyFiled
  <2>3. FiledAs(clues', detections', changed', ChosenTags(at'))
    BY <2>1, <2>2
  <2>4. Filed(at)' /\ at' <= Len(Chosen)'
    BY <1>2, <1>3, <2>1, <2>3, FiledNext
  <2> QED BY <2>1, <2>4 DEF FiledInv, Collecting
<1>5. CASE AddMatch
  <2>1. stage = "groups" /\ stage' = "groups" /\ at' = at + 1 /\ at < Len(Chosen)
    BY <1>5 DEF AddMatch
  <2>2. Filed(at)
    BY <2>1 DEF FiledInv
  <2>3. FiledAs(clues', detections', changed', ChosenTags(at'))
    BY <1>1, <1>5, <2>1, <2>2, AddMatchFiles
  <2>4. Filed(at)' /\ at' <= Len(Chosen)'
    BY <1>1, <1>2, <1>3, <2>1, <2>3, FiledNext
  <2> QED BY <2>1, <2>4 DEF FiledInv, Collecting
<1>6. CASE EndGroups
  <2>1. /\ stage = "groups" /\ stage' = "downgrade" /\ at' = 0 /\ at = Len(Chosen)
        /\ clues' = clues /\ detections' = detections /\ changed' = changed
    BY <1>6 DEF EndGroups, result
  <2>2. Filed(at)
    BY <2>1 DEF FiledInv
  <2>3. FiledAs(clues', detections', changed', ChosenTags(Len(Chosen)))
    BY <2>1, <2>2 DEF Filed
  <2>4. Filed(Len(Chosen))'
    BY <1>2, <2>3, FiledNext
  <2>5. Settled(detections, at)'
    <3>1. PICK ds : ds = detections
      OBVIOUS
    <3>2. ds \in Seq(DetectionOf(Entry))
      BY <1>1, <3>1 DEF ReportOf
    <3>3. Settled(ds, 0)
      BY <3>2 DEF Settled
    <3> QED BY <1>2, <2>1, <3>1, <3>3, SettledNext
  <2> QED BY <2>1, <2>4, <2>5 DEF FiledInv, Collecting
<1> QED BY <1>4, <1>5, <1>6 DEF GroupStep

LEMMA StepFiled == OrderInv /\ FiledInv /\ [MNext]_mvars => FiledInv'
<1> SUFFICES ASSUME OrderInv, FiledInv, [MNext]_mvars PROVE FiledInv'
  OBVIOUS
<1>1. CASE NoTokens
  <2>1. /\ stage = "start" /\ stage' = "done" /\ ReportNext
        /\ clues' = clues /\ detections' = detections
    BY <1>1 DEF NoTokens, vars, result, ReportNext
  <2>2. kept = <<>> /\ listPc = "idle" /\ clues = <<>> /\ detections = <<>>
    BY <2>1 DEF OrderInv, MInv, FilterIdle, Collecting, Fresh, Fed, FiledInv
  <2>3. Len(Chosen) = 0
    BY <2>2 DEF Chosen
  <2>4. PICK cs : cs = <<>>
    OBVIOUS
  <2>5. Orderly(cs, cs) /\ \A t : Told(cs, cs, t) <=> t \in ChosenTags(Len(Chosen))
    BY <2>3, <2>4, EmptyFiled DEF FiledAs
  <2>6. cs = clues' /\ cs = detections'
    BY <2>1, <2>2, <2>4
  <2>7. /\ Orderly(clues, detections)'
        /\ (\A t : Told(clues, detections, t) <=> t \in ChosenTags(Len(Chosen)))'
    BY <2>1, <2>5, <2>6, DoneNext
  <2> QED BY <2>1, <2>7 DEF FiledInv, Collecting
<1>2. CASE GroupStep
  BY <1>2, GroupFiles
<1>3. CASE DowngradeDetection
  <2>1. /\ stage = "downgrade" /\ stage' = "downgrade" /\ at' = at + 1 /\ ReportNext
    BY <1>3 DEF DowngradeDetection, ReportNext, vars
  <2>2. at \in Nat /\ ReportOf(Entry)
    BY <2>1, OrderedReport DEF OrderInv, ScanInv
  <2>3. FiledAs(clues, detections, changed, ChosenTags(Len(Chosen))) /\ Settled(detections, at)
    BY <2>1 DEF FiledInv, Filed
  <2>4. PICK tags : tags = ChosenTags(Len(Chosen))
    OBVIOUS
  <2>5. FiledAs(clues', detections', changed', tags) /\ Settled(detections', at + 1)
    BY <1>3, <2>2, <2>3, <2>4, DowngradeFiles
  <2>6. Filed(Len(Chosen))'
    BY <2>1, <2>4, <2>5, FiledNext
  <2>7. PICK ds, l : ds = detections' /\ l = at'
    OBVIOUS
  <2>8. Settled(ds, l)
    BY <2>1, <2>5, <2>7
  <2>9. Settled(detections, at)'
    BY <2>1, <2>7, <2>8, SettledNext
  <2> QED BY <2>1, <2>6, <2>9 DEF FiledInv, Collecting
<1>4. CASE Finish
  <2>1. /\ stage = "downgrade" /\ stage' = "done" /\ at = Len(detections) /\ ReportNext
    BY <1>4 DEF Finish, ReportNext, vars
  <2>2. ReportOf(Entry)
    BY OrderedReport
  <2>3. FiledAs(clues, detections, changed, ChosenTags(Len(Chosen))) /\ Settled(detections, at)
    BY <2>1 DEF FiledInv, Filed
  <2>4. \A d \in DOMAIN detections : \A i \in DOMAIN detections[d].matches :
           ~Downgraded(detections[d].matches[i])
    <3>1. \A d \in DOMAIN detections : d <= at
      BY <2>1, <2>2 DEF ReportOf
    <3> QED BY <2>3, <3>1 DEF Settled
  <2>5. PICK cs, ds : cs = clues' /\ ds = detections'
    OBVIOUS
  <2>6. Orderly(cs, ds) /\ \A t : Told(cs, ds, t) <=> Told(clues, detections, t)
    BY <1>4, <2>2, <2>3, <2>4, <2>5, FinishOrders DEF FiledAs
  <2>7. \A t : Told(cs, ds, t) <=> t \in ChosenTags(Len(Chosen))
    BY <2>3, <2>6 DEF FiledAs
  <2>8. /\ Orderly(clues, detections)'
        /\ (\A t : Told(clues, detections, t) <=> t \in ChosenTags(Len(Chosen)))'
    BY <2>1, <2>5, <2>6, <2>7, DoneNext
  <2> QED BY <2>1, <2>8 DEF FiledInv, Collecting
<1>5. CASE UNCHANGED mvars
  <2>1. /\ ReportNext /\ stage' = stage /\ at' = at /\ clues' = clues
        /\ detections' = detections /\ changed' = changed
    BY <1>5 DEF mvars, ReportNext, call, result, vars
  <2>2. PICK cs, ds : cs = clues' /\ ds = detections'
    OBVIOUS
  <2>3. /\ Len(Chosen)' = Len(Chosen)
        /\ Filed(at) => Filed(at)'
        /\ Filed(Len(Chosen)) => Filed(Len(Chosen))'
    BY <2>1, FiledNext DEF Filed
  <2>4. Settled(detections, at) => Settled(detections, at)'
    BY <2>1, <2>2, SettledNext
  <2>5. stage = "done" =>
           /\ Orderly(clues, detections)'
           /\ (\A t : Told(clues, detections, t) <=> t \in ChosenTags(Len(Chosen)))'
    BY <2>1, <2>2, DoneNext DEF FiledInv
  <2> QED BY <2>1, <2>3, <2>4, <2>5 DEF FiledInv
<1>6. CASE /\ ~NoTokens /\ ~GroupStep /\ ~DowngradeDetection /\ ~Finish
           /\ ~(UNCHANGED mvars)
  <2>1. /\ UNCHANGED <<clues, detections>>
        /\ stage' \in Unfiled \cup {"tooMany", "canceled"}
        /\ stage' \in Unfiled => stage \in Unfiled
    BY <1>6, UnfiledSteps
  <2>2. stage \in Unfiled => clues = <<>> /\ detections = <<>>
    BY DEF FiledInv, Unfiled
  <2>3. stage' \in Unfiled => clues' = <<>> /\ detections' = <<>>
    BY <2>1, <2>2
  <2>4. stage' \notin {"groups", "downgrade", "done"}
    BY <2>1 DEF Unfiled, Collecting
  <2> QED BY <2>3, <2>4 DEF FiledInv, Unfiled
<1> QED BY <1>1, <1>2, <1>3, <1>4, <1>5, <1>6

LEMMA FiledInductive == MSpec => [](OrderInv /\ FiledInv)
<1>1. MInit => FiledInv
  BY DEF MInit, FiledInv
<1>2. MSpec => []OrderInv
  BY MInductive, KeptInductive, ScanInductive, ListInductive, FedInductive, KeptIncreasing,
     ReportInductive, PTL DEF OrderInv
<1> QED BY <1>1, <1>2, StepFiled, PTL DEF MSpec

(* For any rules and input: the result is in the order compareMatches and  *)
(* sortResult give, although only what a downgrade has touched is sorted;  *)
(* it has each match the filters chose once and nothing else, a detection  *)
(* for every expression and none twice, and no text in a detection that a  *)
(* numbered clause goes on after.                                          *)
THEOREM ReportsInOrder == MSpec => []ResultOrdered
<1>1. OrderInv /\ FiledInv => ResultOrdered
  <2> SUFFICES ASSUME OrderInv, FiledInv PROVE ResultOrdered
    OBVIOUS
  <2>1. CASE stage = "done"
    <3>1. stage \in Reporting
      BY <2>1 DEF Reporting
    <3>2. ChosenRise
      BY <3>1, ChosenRises DEF OrderInv
    <3> QED BY <2>1, <3>2, OrderlyOrdered DEF FiledInv, ChosenRise
  <2>2. CASE stage # "done"
    BY <2>2 DEF ResultOrdered
  <2> QED BY <2>1, <2>2
<1> QED BY <1>1, FiledInductive, PTL
=============================================================================
