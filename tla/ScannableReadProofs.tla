------------------------ MODULE ScannableReadProofs ------------------------
(***************************************************************************)
(* Proofs about ScannableRead, for every width of the integers, every      *)
(* probe, limit and file, and any number of writes: the memory guard       *)
(* holds; and unless the limit is the largest integer, a file left alone   *)
(* gets the verdict its whole content deserves.                            *)
(***************************************************************************)
EXTENDS ScannableRead, TLAPS

Verdicts == {"none", "error", "binary", "tooLarge", "text", "unknown"}

TypeOK ==
    /\ original \in [size : 0..MaxInt, binary : Nat, invalid : Nat,
                     fails : Nat, missing : BOOLEAN]
    /\ maximum \in Maxima /\ maximum \in 0..MaxInt
    /\ size \in 0..MaxInt
    /\ writes \in Nat
    /\ pc \in {"open", "probe", "reserve", "rest", "done"}
    /\ data \in Nat
    /\ prefixKind \in {"none", "binary", "unknown", "text"}
    /\ verdict \in Verdicts

(* The memory guard, and where nothing was read or reserved yet.           *)
Guarded ==
    /\ MemoryGuard
    /\ pc \in {"open", "probe"} => data = 0
    /\ pc \in {"open", "probe", "reserve"} => reserved = 0

(* What the probe of a file left alone has told.                           *)
Probed ==
    /\ data = ProbeEnd /\ prefixKind = KindOf(original, ProbeEnd)
    /\ ~original.missing /\ ~ReadFails(ProbeEnd)
    /\ prefixKind # "binary" /\ ~TooLarge(ProbeEnd)

Undisturbed ==
    writes = 0 =>
        /\ pc = "probe" => ~original.missing
        /\ pc \in {"reserve", "rest"} => Probed
        /\ WholeFileRead

-----------------------------------------------------------------------------
(* A value that is an integer is not changed by wrapping around.           *)
LEMMA WordExact ==
    ASSUME NEW x \in Int, -MaxInt - 1 <= x, x <= MaxInt
    PROVE  Word(x) = x
BY ReadAssumption DEF Word

(* One more than the largest integer is the least.                         *)
LEMMA WordWraps == Word(MaxInt + 1) = -MaxInt - 1
BY ReadAssumption DEF Word

LEMMA ReadUpToOK ==
    ASSUME TypeOK, NEW n \in Int
    PROVE  /\ ReadUpTo(n) \in Nat /\ data <= ReadUpTo(n)
           /\ n <= 0 => ReadUpTo(n) = data
           /\ n >= 0 => ReadUpTo(n) <= data + n
           /\ data <= size /\ n >= 0 =>
                 ReadUpTo(n) = Lesser(data + n, size)
BY DEF TypeOK, ReadUpTo, Lesser, Clip

(* The two limits of reading, where the limit of the scan is positive.     *)
LEMMA ProbeLimitOK ==
    ASSUME TypeOK
    PROVE  /\ ProbeLimit \in Int
           /\ maximum > 0 => ProbeLimit <= maximum + 1
           /\ maximum # MaxInt =>
                 ProbeLimit = IF maximum > 0 THEN Lesser(Probe, maximum + 1) ELSE Probe
<1>1. CASE maximum = 0
  BY <1>1, ReadAssumption DEF ProbeLimit
<1>2. CASE maximum > 0 /\ maximum < MaxInt
  <2>1. Word(maximum + 1) = maximum + 1
    BY <1>2, WordExact, ReadAssumption DEF TypeOK
  <2> QED BY <1>2, <2>1, ReadAssumption DEF ProbeLimit, Lesser, TypeOK
<1>3. CASE maximum = MaxInt
  <2>1. Word(maximum + 1) = -MaxInt - 1
    BY <1>3, WordWraps
  <2> QED BY <1>3, <2>1, ReadAssumption DEF ProbeLimit, Lesser
<1> QED BY <1>1, <1>2, <1>3, ReadAssumption DEF TypeOK

LEMMA RestLimitOK ==
    ASSUME TypeOK, MemoryGuard
    PROVE  /\ RestLimit \in Int
           /\ maximum > 0 /\ RestLimit > 0 => RestLimit <= maximum - data + 1
           /\ maximum > 0 /\ maximum # MaxInt => RestLimit = maximum - data + 1
<1>1. CASE maximum = 0
  BY <1>1 DEF RestLimit, TypeOK
<1>2. CASE maximum > 0
  <2>1. data <= maximum + 1 /\ data \in Nat /\ maximum \in Nat /\ maximum <= MaxInt
        /\ MaxInt \in Nat
    BY <1>2, ReadAssumption DEF TypeOK, MemoryGuard
  <2>2. Word(maximum - data) = maximum - data
    BY <2>1, WordExact
  <2>3. CASE maximum - data < MaxInt
    <3>1. Word(maximum - data + 1) = maximum - data + 1
      BY <2>1, <2>3, WordExact
    <3> QED BY <1>2, <2>1, <2>2, <3>1 DEF RestLimit
  <2>4. CASE maximum - data = MaxInt
    <3>1. Word(maximum - data + 1) = -MaxInt - 1
      BY <2>4, WordWraps
    <3> QED BY <1>2, <2>1, <2>2, <2>4, <3>1 DEF RestLimit
  <2> QED BY <2>1, <2>3, <2>4
<1> QED BY <1>1, <1>2 DEF TypeOK

(* Never negative, at most what is preallocated, and no more than a byte   *)
(* beyond the limit.                                                       *)
LEMMA ReservationOK ==
    ASSUME TypeOK
    PROVE  /\ Reservation \in 0..Preallocate
           /\ maximum > 0 => Reservation <= maximum + 1
<1>1. Wanted \in Int /\ (maximum > 0 => Wanted <= maximum + 1)
  <2>1. CASE maximum = 0
    BY <2>1 DEF Wanted, TypeOK
  <2>2. CASE maximum > 0 /\ maximum < MaxInt
    <3>1. Word(maximum + 1) = maximum + 1
      BY <2>2, WordExact, ReadAssumption DEF TypeOK
    <3> QED BY <2>2, <3>1 DEF Wanted, Lesser, TypeOK
  <2>3. CASE maximum = MaxInt
    <3>1. Word(maximum + 1) = -MaxInt - 1
      BY <2>3, WordWraps
    <3> QED BY <2>3, <3>1, ReadAssumption DEF Wanted, Lesser, TypeOK
  <2> QED BY <2>1, <2>2, <2>3, ReadAssumption DEF TypeOK
<1> QED BY <1>1, ReadAssumption DEF Reservation, TypeOK

-----------------------------------------------------------------------------
LEMMA InitType == Init => TypeOK
BY ReadAssumption DEF Init, TypeOK, Verdicts

LEMMA StepType ==
    ASSUME TypeOK, MemoryGuard, [Next]_vars
    PROVE  TypeOK'
<1>1. CASE Open
  BY <1>1 DEF TypeOK, Open, Finish, Verdicts
<1>2. CASE ProbeKind
  <2>1. ReadUpTo(ProbeLimit) \in Nat
    BY ProbeLimitOK, ReadUpToOK
  <2>2. \A f, n : KindOf(f, n) \in {"binary", "unknown", "text"}
    BY DEF KindOf
  <2> QED BY <1>2, <2>1, <2>2 DEF TypeOK, ProbeKind, Finish, Verdicts
<1>3. CASE Reserve
  BY <1>3 DEF TypeOK, Reserve, Verdicts
<1>4. CASE ReadRest
  <2>1. ReadUpTo(RestLimit) \in Nat
    BY RestLimitOK, ReadUpToOK
  <2>2. \A f, n : KindOf(f, n) \in {"binary", "unknown", "text"}
    BY DEF KindOf
  <2> QED BY <1>4, <2>1, <2>2 DEF TypeOK, ReadRest, Finish, Verdicts
<1>5. CASE Write
  BY <1>5, ReadAssumption DEF TypeOK, Write, Verdicts
<1>6. CASE UNCHANGED vars
  BY <1>6 DEF TypeOK, vars, Verdicts
<1> QED BY <1>1, <1>2, <1>3, <1>4, <1>5, <1>6 DEF Next, Done

LEMMA InitGuarded ==
    ASSUME Init
    PROVE  Guarded
BY ReadAssumption DEF Init, Guarded, MemoryGuard

LEMMA StepGuarded ==
    ASSUME TypeOK, Guarded, [Next]_vars
    PROVE  Guarded'
<1> USE DEF Guarded
<1>1. CASE Open
  BY <1>1 DEF Open, Finish, MemoryGuard
<1>2. CASE ProbeKind
  <2>1. data = 0 /\ reserved = 0
    BY <1>2 DEF ProbeKind
  <2>2. ReadUpTo(ProbeLimit) \in Nat
        /\ (maximum > 0 => ReadUpTo(ProbeLimit) <= maximum + 1)
    BY <2>1, ProbeLimitOK, ReadUpToOK DEF TypeOK
  <2>3. /\ data' = ReadUpTo(ProbeLimit) /\ reserved' = reserved /\ maximum' = maximum
        /\ pc' \in {"done", "reserve"}
    BY <1>2 DEF ProbeKind, Finish
  <2> QED BY <2>1, <2>2, <2>3 DEF MemoryGuard
<1>3. CASE Reserve
  BY <1>3, ReservationOK DEF Reserve, MemoryGuard
<1>4. CASE ReadRest
  <2>1. ReadUpTo(RestLimit) \in Nat
        /\ (maximum > 0 => ReadUpTo(RestLimit) <= maximum + 1)
    <3>1. RestLimit \in Int /\ (maximum > 0 => data <= maximum + 1)
          /\ (maximum > 0 /\ RestLimit > 0 => RestLimit <= maximum - data + 1)
      BY RestLimitOK DEF MemoryGuard
    <3>2. /\ ReadUpTo(RestLimit) \in Nat
          /\ RestLimit <= 0 => ReadUpTo(RestLimit) = data
          /\ RestLimit >= 0 => ReadUpTo(RestLimit) <= data + RestLimit
      BY <3>1, ReadUpToOK
    <3> QED BY <3>1, <3>2 DEF TypeOK
  <2>2. /\ data' = ReadUpTo(RestLimit) /\ reserved' = reserved /\ maximum' = maximum
        /\ pc' = "done"
    BY <1>4 DEF ReadRest, Finish
  <2> QED BY <2>1, <2>2 DEF MemoryGuard
<1>5. CASE Write
  BY <1>5 DEF Write, MemoryGuard
<1>6. CASE UNCHANGED vars
  BY <1>6 DEF vars, MemoryGuard
<1> QED BY <1>1, <1>2, <1>3, <1>4, <1>5, <1>6 DEF Next, Done

LEMMA Types == Spec => [](TypeOK /\ Guarded)
<1>1. Init => TypeOK /\ Guarded
  BY InitType, InitGuarded
<1>2. TypeOK /\ Guarded /\ [Next]_vars => (TypeOK /\ Guarded)'
  BY StepType, StepGuarded DEF Guarded
<1> QED BY <1>1, <1>2, PTL DEF Spec

(* However the file grows or shrinks while it is read, readScannableFile   *)
(* neither reads nor reserves more than a byte beyond the limit, reserves  *)
(* no more than maxReadPreallocate without one, and never asks             *)
(* bytes.Buffer.Grow for a negative size.  The largest limit, where        *)
(* maximum+1 wraps around, is no exception.                                *)
THEOREM Bounded == Spec => []MemoryGuard
<1>1. TypeOK /\ Guarded => MemoryGuard
  BY DEF Guarded
<1> QED BY <1>1, Types, PTL

-----------------------------------------------------------------------------
LEMMA InitUndisturbed ==
    ASSUME Init
    PROVE  Undisturbed
BY DEF Init, Undisturbed, WholeFileRead

(* The probe reads what the documentation says, and decides as it should.  *)
LEMMA ProbeUndisturbed ==
    ASSUME TypeOK, Guarded, Undisturbed, maximum # MaxInt, ProbeKind, writes = 0
    PROVE  Undisturbed'
<1>1. data = 0 /\ ~original.missing /\ pc = "probe"
  BY DEF ProbeKind, Guarded, Undisturbed
<1>2. ReadUpTo(ProbeLimit) = ProbeEnd
  <2>1. ProbeLimit = (IF maximum > 0 THEN Lesser(Probe, maximum + 1) ELSE Probe)
    BY ProbeLimitOK
  <2>2. ProbeLimit \in Nat
    BY <2>1, ReadAssumption DEF Lesser, TypeOK
  <2>3. ReadUpTo(ProbeLimit) = Lesser(data + ProbeLimit, size)
    BY <1>1, <2>2, ReadUpToOK DEF TypeOK
  <2> QED BY <1>1, <2>1, <2>2, <2>3 DEF ProbeEnd, Lesser, TypeOK
<1>3. ProbeEnd \in Nat /\ ProbeEnd <= size
  BY <1>2, ReadAssumption DEF ProbeEnd, Lesser, TypeOK
<1>4. /\ UNCHANGED <<original, maximum, size, writes>>
      /\ data' = ProbeEnd /\ prefixKind' = KindOf(original, ProbeEnd)
      /\ IF ReadFails(ProbeEnd) THEN pc' = "done" /\ verdict' = "error"
         ELSE IF prefixKind' = "binary" THEN pc' = "done" /\ verdict' = "binary"
         ELSE IF TooLarge(ProbeEnd) THEN pc' = "done" /\ verdict' = "tooLarge"
         ELSE pc' = "reserve" /\ verdict' = verdict
  BY <1>2 DEF ProbeKind, Finish
<1>5. ProbeEnd' = ProbeEnd /\ ReadEnd' = ReadEnd /\ Expected' = Expected
  BY <1>4 DEF ProbeEnd, ReadEnd, Expected
<1>6. pc' = "done" => verdict' = Expected /\ verdict' \in {"error", "binary", "tooLarge"}
  BY <1>1, <1>3, <1>4 DEF Expected, ReadFails, Within, KindOf, TooLarge, TypeOK
<1>7. pc' = "reserve" => Probed'
  BY <1>1, <1>4, <1>5 DEF Probed, ReadFails, TooLarge
<1>8. pc' \in {"done", "reserve"}
  BY <1>4
<1> QED BY <1>5, <1>6, <1>7, <1>8 DEF Undisturbed, WholeFileRead

(* The rest of the file is read up to one byte beyond the limit, and the   *)
(* verdict is that of the whole content.                                   *)
LEMMA RestUndisturbed ==
    ASSUME TypeOK, Guarded, Undisturbed, maximum # MaxInt, ReadRest, writes = 0
    PROVE  Undisturbed'
<1>1. Probed /\ pc = "rest"
  BY DEF ReadRest, Undisturbed
<1>2. data = ProbeEnd /\ data <= size /\ data \in Nat /\ size \in Nat
      /\ maximum \in Nat /\ (maximum > 0 => data <= maximum)
  BY <1>1, ReadAssumption DEF Probed, ProbeEnd, Lesser, TypeOK, TooLarge
<1>3. ReadUpTo(RestLimit) = ReadEnd
  <2>1. CASE maximum = 0
    <3>1. RestLimit = size
      BY <2>1 DEF RestLimit
    <3>2. ReadUpTo(RestLimit) = Lesser(data + size, size)
      BY <1>2, <3>1, ReadUpToOK
    <3> QED BY <1>2, <2>1, <3>2 DEF ReadEnd, Lesser
  <2>2. CASE maximum > 0
    <3>1. RestLimit = maximum - data + 1 /\ RestLimit \in Nat
      BY <1>2, <2>2, RestLimitOK DEF Guarded
    <3>2. ReadUpTo(RestLimit) = Lesser(data + RestLimit, size)
      BY <1>2, <3>1, ReadUpToOK
    <3> QED BY <1>2, <2>2, <3>1, <3>2 DEF ReadEnd, Lesser
  <2> QED BY <1>2, <2>1, <2>2
<1>4. /\ UNCHANGED <<original, maximum, size, writes>> /\ pc' = "done"
      /\ data' = ReadEnd
      /\ verdict' = (CASE ReadFails(ReadEnd) -> "error"
                       [] ~ReadFails(ReadEnd) /\ TooLarge(ReadEnd) -> "tooLarge"
                       [] OTHER -> IF KindOf(original, ReadEnd) = "binary"
                                        /\ prefixKind = "text"
                                   THEN "text" ELSE KindOf(original, ReadEnd))
  BY <1>3 DEF ReadRest, Finish
<1>5. Expected' = Expected
  BY <1>4 DEF ProbeEnd, ReadEnd, Expected
<1>6. /\ ~original.missing /\ ~Within(original.fails, ProbeEnd)
      /\ ~Within(original.binary, ProbeEnd)
      /\ ~(maximum > 0 /\ ProbeEnd > maximum)
      /\ prefixKind = IF Within(original.invalid, ProbeEnd) THEN "unknown" ELSE "text"
  BY <1>1 DEF Probed, ReadFails, Within, KindOf, TooLarge
<1>7. TooLarge(ReadEnd) <=> maximum > 0 /\ size > maximum
  BY <1>2 DEF TooLarge, ReadEnd, Lesser
<1>8. ReadFails(ReadEnd) <=> Within(original.fails, ReadEnd)
  BY DEF ReadFails, Within
<1>9. CASE ReadFails(ReadEnd)
  <2>1. verdict' = "error" /\ Expected = "error"
    BY <1>4, <1>6, <1>8, <1>9 DEF Expected
  <2> QED BY <1>4, <1>5, <2>1 DEF Undisturbed, WholeFileRead
<1>10. CASE ~ReadFails(ReadEnd) /\ TooLarge(ReadEnd)
  <2>1. verdict' = "tooLarge" /\ Expected = "tooLarge"
    BY <1>4, <1>6, <1>7, <1>8, <1>10 DEF Expected
  <2> QED BY <1>4, <1>5, <2>1 DEF Undisturbed, WholeFileRead
<1>11. CASE ~ReadFails(ReadEnd) /\ ~TooLarge(ReadEnd)
  <2>1. ReadEnd = size
    BY <1>2, <1>7, <1>11 DEF ReadEnd, Lesser
  <2>2. verdict' = IF KindOf(original, size) = "binary" /\ prefixKind = "text"
                   THEN "text" ELSE KindOf(original, size)
    BY <1>4, <1>11, <2>1
  <2>3. Expected = (IF Within(original.invalid, ProbeEnd) /\ Within(original.binary, size)
                    THEN "binary"
                    ELSE IF Within(original.invalid, size) /\ ~Within(original.binary, size)
                    THEN "unknown" ELSE "text")
    BY <1>6, <1>7, <1>8, <1>11 DEF Expected
  <2>4. verdict' = Expected
    BY <1>6, <2>2, <2>3 DEF KindOf
  <2> QED BY <1>4, <1>5, <2>1, <2>4 DEF Undisturbed, WholeFileRead
<1> QED BY <1>9, <1>10, <1>11

LEMMA StepUndisturbed ==
    ASSUME TypeOK, Guarded, Undisturbed, MaxInt \notin Maxima, [Next]_vars
    PROVE  Undisturbed'
<1> SUFFICES ASSUME writes' = 0 PROVE Undisturbed'
  BY DEF Undisturbed
<1>1. maximum # MaxInt
  BY DEF TypeOK
<1>2. CASE Open
  <2>1. writes = 0 /\ pc = "open"
        /\ (original.missing => pc' = "done" /\ verdict' = "error")
        /\ (~original.missing => pc' = "probe")
        /\ original' = original
    BY <1>2 DEF Open, Finish
  <2>2. original.missing => Expected' = "error"
    BY <2>1 DEF Expected
  <2>3. original.missing \in BOOLEAN
    BY DEF TypeOK
  <2> QED BY <2>1, <2>2, <2>3 DEF Undisturbed, WholeFileRead
<1>3. CASE ProbeKind
  <2>1. writes = 0
    BY <1>3 DEF ProbeKind
  <2> QED BY <1>1, <1>3, <2>1, ProbeUndisturbed
<1>4. CASE Reserve
  BY <1>4 DEF Reserve, Undisturbed, Probed, ProbeEnd, ReadFails, TooLarge, WholeFileRead
<1>5. CASE ReadRest
  <2>1. writes = 0
    BY <1>5 DEF ReadRest
  <2> QED BY <1>1, <1>5, <2>1, RestUndisturbed
<1>6. CASE Write
  BY <1>6 DEF Write, TypeOK
<1>7. CASE UNCHANGED vars
  BY <1>7 DEF vars, Undisturbed, Probed, ProbeEnd, ReadEnd, ReadFails, TooLarge,
              WholeFileRead, Expected
<1> QED BY <1>2, <1>3, <1>4, <1>5, <1>6, <1>7 DEF Next, Done

(* A file left alone gets the verdict its whole content deserves, and is   *)
(* read in full if it is scanned, for every file and every limit but the   *)
(* largest integer; with that one it is not so (the run read_max_int).     *)
THEOREM WholeContent ==
    ASSUME MaxInt \notin Maxima
    PROVE  Spec => []WholeFileRead
<1>1. Init => Undisturbed
  BY InitUndisturbed
<1>2. TypeOK /\ Guarded /\ Undisturbed /\ [Next]_vars => Undisturbed'
  BY StepUndisturbed
<1>3. Undisturbed => WholeFileRead
  BY DEF Undisturbed, WholeFileRead
<1> QED BY <1>1, <1>2, <1>3, Types, PTL DEF Spec
=============================================================================
