--------------------------- MODULE ScannableRead ---------------------------
(***************************************************************************)
(* readScannableFile (scan.go): a file is probed for its kind, read up to  *)
(* one byte beyond the size limit, and classified, while another process   *)
(* may grow or truncate it.                                                *)
(*                                                                         *)
(* A file is a size and three positions: its first byte that makes magic   *)
(* call it binary, its first byte that is not valid text, and the offset   *)
(* at which reading it fails; 0 means nowhere.  The bytes read are always  *)
(* a prefix of the file, so `data` is their number.  Sizes and limits are  *)
(* int64 in the code and wrap around after MaxInt here.                    *)
(***************************************************************************)
EXTENDS Integers

CONSTANTS
    MaxInt,       \* the largest value of a signed integer
    Probe,        \* classificationProbeSize
    Preallocate,  \* maxReadPreallocate
    Files,        \* the files that may be read
    Maxima,       \* the MaxFileSize limits
    Sizes,        \* the sizes a writer may give the file while it is read
    MaxWrites     \* bound on those changes

(* Integers wrap around: the least one follows the largest.                *)
Word(x) == ((x + MaxInt + 1) % (2 * (MaxInt + 1))) - MaxInt - 1

ASSUME ReadAssumption ==
    /\ MaxInt \in Nat \ {0}
    /\ Probe \in 1..MaxInt /\ Preallocate \in 1..MaxInt
    /\ Files \subseteq [size : 0..MaxInt, binary : Nat, invalid : Nat,
                        fails : Nat, missing : BOOLEAN]
    /\ Maxima \subseteq 0..MaxInt  \* validateScanOptions
    /\ Sizes \subseteq 0..MaxInt
    /\ MaxWrites \in Nat

VARIABLES
    original, maximum,  \* the file at first, and the limit
    size,               \* the size of the file now
    writes,             \* how often it changed
    pc, data, reserved,
    prefixKind, verdict

vars == <<original, maximum, size, writes, pc, data, reserved,
          prefixKind, verdict>>

Lesser(a, b) == IF a < b THEN a ELSE b
Clip(n) == IF n < 0 THEN 0 ELSE n

Within(position, n) == position > 0 /\ position <= n

(* magic.Detect and magic.DetectPrefix on the first n bytes.               *)
KindOf(file, n) ==
    CASE Within(file.binary, n) -> "binary"
      [] ~Within(file.binary, n) /\ Within(file.invalid, n) -> "unknown"
      [] OTHER -> "text"

Init ==
    /\ original \in Files /\ maximum \in Maxima
    /\ size = original.size /\ writes = 0
    /\ pc = "open" /\ data = 0 /\ reserved = 0
    /\ prefixKind = "none" /\ verdict = "none"

Finish(v) == pc' = "done" /\ verdict' = v

Open ==
    /\ pc = "open"
    /\ IF original.missing THEN Finish("error")
                           ELSE pc' = "probe" /\ UNCHANGED verdict
    /\ UNCHANGED <<original, maximum, size, writes, data, reserved,
                   prefixKind>>

ProbeLimit ==
    IF maximum > 0 THEN Lesser(Probe, Word(maximum + 1)) ELSE Probe

(* Reading at most n more bytes of the file (io.CopyN, io.LimitReader and  *)
(* io.Copy all read nothing when the limit is negative).                   *)
ReadUpTo(n) == data + Lesser(Clip(n), Clip(size - data))

ReadFails(end) == original.fails > 0 /\ original.fails <= end

TooLarge(n) == maximum > 0 /\ n > maximum

(* growReadBuffer: the size to reserve for, when it asks for the size.     *)
Wanted == IF maximum > 0 THEN Lesser(size, Word(maximum + 1)) ELSE size

(* Without the comparison with what was read already.                      *)
ReservationUnguarded == IF Wanted > Preallocate THEN 0 ELSE Wanted - data

(* The argument of bytes.Buffer.Grow, which panics when it is negative.    *)
Reservation ==
    IF Wanted <= data \/ Wanted > Preallocate THEN 0 ELSE Wanted - data

(* No io.LimitReader; and one without the byte beyond the limit.           *)
RestUnlimited == size
RestWithoutExtraByte == IF maximum > 0 THEN Word(maximum - data) ELSE size

RestLimit == IF maximum > 0 THEN Word(Word(maximum - data) + 1) ELSE size

ProbeKind ==
    LET n == ReadUpTo(ProbeLimit)
    IN  /\ pc = "probe"
        /\ data' = n
        /\ prefixKind' = KindOf(original, n)
        /\ IF ReadFails(n) THEN Finish("error")
           ELSE IF prefixKind' = "binary" THEN Finish("binary")
           ELSE IF TooLarge(n) THEN Finish("tooLarge")
           ELSE pc' = "reserve" /\ UNCHANGED verdict
        /\ UNCHANGED <<original, maximum, size, writes, reserved>>

(* The probe did not decide: memory is reserved for the size the file has  *)
(* by now, which may be less than what was read.                           *)
Reserve ==
    /\ pc = "reserve"
    /\ reserved' = Reservation
    /\ pc' = "rest"
    /\ UNCHANGED <<original, maximum, size, writes, data, prefixKind,
                   verdict>>

(* The rest of the file, up to one byte beyond the limit.  A file whose    *)
(* probe was text stays text whatever follows it.                          *)
ReadRest ==
    LET n == ReadUpTo(RestLimit)
        kind == KindOf(original, n)
    IN  /\ pc = "rest"
        /\ data' = n
        /\ Finish(CASE ReadFails(n) -> "error"
                    [] ~ReadFails(n) /\ TooLarge(n) -> "tooLarge"
                    [] OTHER -> IF kind = "binary" /\ prefixKind = "text"
                                THEN "text" ELSE kind)
        /\ UNCHANGED <<original, maximum, size, writes, reserved,
                       prefixKind>>

(* Another process grows or truncates the file.                            *)
Write ==
    /\ pc # "done"
    /\ writes < MaxWrites
    /\ size' \in Sizes \ {size}
    /\ writes' = writes + 1
    /\ UNCHANGED <<original, maximum, pc, data, reserved, prefixKind, verdict>>

Done == pc = "done" /\ UNCHANGED vars

Next == Open \/ ProbeKind \/ Reserve \/ ReadRest \/ Write \/ Done

Spec == Init /\ [][Next]_vars

-----------------------------------------------------------------------------
(* The memory guard: however the file changes while it is read, no more    *)
(* than one byte beyond the limit is read, no more is reserved ahead, and  *)
(* without a limit the reservation is still capped.  It is never negative, *)
(* which would panic.                                                      *)
MemoryGuard ==
    /\ maximum > 0 => data <= maximum + 1 /\ reserved <= maximum + 1
    /\ reserved \in 0..Preallocate

(* The bytes looked at before a verdict is possible, as the documentation  *)
(* of the limits has them: the probe, then the file up to the limit.       *)
ProbeEnd == Lesser(size, IF maximum > 0 THEN Lesser(Probe, maximum + 1) ELSE Probe)
ReadEnd == IF maximum > 0 THEN Lesser(size, maximum + 1) ELSE size

Expected ==
    LET f == original
    IN  CASE f.missing \/ Within(f.fails, ProbeEnd) -> "error"
          [] ~f.missing /\ ~Within(f.fails, ProbeEnd)
                /\ Within(f.binary, ProbeEnd) -> "binary"
          [] ~f.missing /\ ~Within(f.fails, ProbeEnd)
                /\ ~Within(f.binary, ProbeEnd) ->
                IF Within(f.fails, ReadEnd)
                    /\ ~(maximum > 0 /\ ProbeEnd > maximum) THEN "error"
                ELSE IF maximum > 0 /\ size > maximum THEN "tooLarge"
                ELSE IF Within(f.invalid, ProbeEnd) /\ Within(f.binary, size)
                     THEN "binary"
                ELSE IF Within(f.invalid, size) /\ ~Within(f.binary, size)
                     THEN "unknown"
                ELSE "text"

(* A file left alone gets the verdict its whole content deserves, and a    *)
(* file that is scanned is scanned in full.  README.md: "Regular text      *)
(* files are limited to 1 MiB [...] Setting any limit to zero removes that *)
(* guard."                                                                 *)
WholeFileRead ==
    pc = "done" /\ writes = 0 =>
        /\ verdict = Expected
        /\ verdict \in {"text", "unknown"} => data = size
=============================================================================
