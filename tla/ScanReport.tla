----------------------------- MODULE ScanReport -----------------------------
(***************************************************************************)
(* The report of one repository scan, as pure operators: what              *)
(* scanRepository (scan.go) accumulates while it ranges over the outcomes  *)
(* of its workers, and what the report should be whatever the order in     *)
(* which the outcomes arrive.                                              *)
(*                                                                         *)
(* A path is its rank in string order (paths of one scan are distinct);    *)
(* the text of an error or the reason of a skip is a string of TextOrder,  *)
(* which lists them in the order strings.Compare sorts them.  A file is    *)
(* abstracted to what the report tells apart: what reading it yields, what *)
(* the matcher finds in it, and whether its path has a legal role.         *)
(***************************************************************************)
EXTENDS Integers, Sequences, FiniteSets, TLC, FiniteSetsExt, SequencesExt

CONSTANTS
    Expressions,       \* the license expressions rules can report
    IdentificationOf,  \* Expressions -> Identifications, fixed by the corpus
    IncludeLegalFiles  \* ScanOptions.IncludeLegalFiles

Identifications == {"identified", "partial", "NOASSERTION"}

ASSUME ReportAssumption ==
    /\ IdentificationOf \in [Expressions -> Identifications]
    /\ IncludeLegalFiles \in BOOLEAN

ReadResults == {"text", "binary", "tooLarge", "unreadable"}

(* What is on disk: `matches` counts the matches of each detected          *)
(* expression, `overflow` is the matcher answering ErrTooManyMatches.      *)
File == [path : Nat, size : Nat, read : ReadResults, overflow : BOOLEAN,
         matches : [Expressions -> Nat], clues : BOOLEAN,
         roles : BOOLEAN, root : BOOLEAN]

(* Skip reasons as the code spells them, and one text per kind of error,   *)
(* in string order.                                                        *)
TextOrder == <<"binary", "canceled", "configured-directory", "depth",
               "hidden-directory", "info", "manifest", "non-regular", "none",
               "project-scope", "size", "symlink", "tooMany", "unreadable",
               "version-control", "walk">>

Texts == {"binary", "canceled", "configured-directory", "depth",
          "hidden-directory", "info", "manifest", "non-regular", "none",
          "project-scope", "size", "symlink", "tooMany", "unreadable",
          "version-control", "walk"}

Record == Nat \X Texts    \* a scanErrorRecord or skipRecord

Outcome == [task : Nat, scanned : BOOLEAN, binary : BOOLEAN,
            tooLarge : BOOLEAN, err : Texts]

NoOutcome(t) == [task |-> t, scanned |-> FALSE, binary |-> FALSE,
                 tooLarge |-> FALSE, err |-> "none"]

-----------------------------------------------------------------------------
(* scanFile before the matcher runs: the early returns.                    *)
ReadOutcome(file, t) ==
    [NoOutcome(t) EXCEPT
        !.binary   = file.read = "binary",
        !.tooLarge = file.read = "tooLarge",
        !.err      = IF file.read = "unreadable" THEN "unreadable" ELSE "none"]

(* scanFile once the matcher has answered, with its error.                 *)
MatchOutcome(t, err) == [NoOutcome(t) EXCEPT !.scanned = TRUE, !.err = err]

MatchError(file) == IF file.overflow THEN "tooMany" ELSE "none"

(* The outcome of a task whose scan no cancellation disturbs.              *)
TrueOutcome(file, t) ==
    IF file.read = "text" THEN MatchOutcome(t, MatchError(file))
                          ELSE ReadOutcome(file, t)

-----------------------------------------------------------------------------
Detected(file) == {e \in Expressions : file.matches[e] > 0}

(* A scanned file is listed when it has something to show.                 *)
Listed(file) ==
    Detected(file) # {} \/ file.clues \/ (IncludeLegalFiles /\ file.roles)

TextRank == [x \in Texts |-> CHOOSE i \in DOMAIN TextOrder : TextOrder[i] = x]

Before(a, b) ==
    a[1] < b[1] \/ (a[1] = b[1] /\ TextRank[a[2]] < TextRank[b[2]])

EmptySummary ==
    [visited |-> 0, scanned |-> 0, bytes |-> 0, detected |-> 0,
     identified |-> [i \in Identifications |-> 0], clued |-> 0,
     directories |-> 0, binary |-> 0, size |-> 0, other |-> 0,
     errors |-> 0, truncated |-> FALSE]

(* Without the errors of the discovery.                                    *)
ForgetfulReport(d) ==
    [summary |-> d.summary, declared |-> d.declared, errors |-> <<>>,
     skipped |-> d.skipped, files |-> <<>>, expressions |-> <<>>]

(* A discovery is what discoverFiles leaves: the summary so far, whose     *)
(* counts of what is scanned and found are still zero, the tasks in walk   *)
(* order, no two of one path, the declared licenses, the errors and the    *)
(* skips.                                                                  *)
IsDiscovery(d) ==
    /\ d \in [summary : [visited : Nat, scanned : {0}, bytes : {0},
                         detected : {0}, identified : [Identifications -> {0}],
                         clued : {0}, directories : Nat, binary : {0},
                         size : Nat, other : Nat, errors : {0},
                         truncated : BOOLEAN],
              tasks : Seq(File), declared : Seq(Nat),
              errors : Seq(Record), skipped : Seq(Record)]
    /\ \A t, u \in DOMAIN d.tasks :
           d.tasks[t].path = d.tasks[u].path => t = u

InitialReport(d) ==
    [summary |-> d.summary, declared |-> d.declared, errors |-> d.errors,
     skipped |-> d.skipped, files |-> <<>>, expressions |-> <<>>]

Count(condition) == IF condition THEN 1 ELSE 0

(* addExpressionRecords                                                    *)
AddExpressions(records, file) ==
    [e \in DOMAIN records \cup Detected(file) |->
        LET old == IF e \in DOMAIN records THEN records[e]
                   ELSE [root |-> FALSE, files |-> 0, matches |-> 0]
        IN  IF e \notin Detected(file) THEN old
            ELSE [root    |-> old.root \/ file.root,
                  files   |-> old.files + 1,
                  matches |-> old.matches + file.matches[e]]]

(* A scanned outcome without an error: the file is listed or passed over,  *)
(* and addIdentificationSummary counts it once per identification.         *)
AddFile(r, file) ==
    IF ~Listed(file) THEN r
    ELSE [r EXCEPT
            !.files = Append(@, file.path),
            !.expressions = AddExpressions(@, file),
            !.summary.detected = @ + Count(Detected(file) # {}),
            !.summary.clued = @ + Count(file.clues),
            !.summary.identified =
                [i \in Identifications |->
                    @[i] + Count(\E e \in Detected(file) :
                                     IdentificationOf[e] = i)]]

(* One iteration of `for outcome := range outcomes`.                       *)
Collect(d, report, o) ==
    LET file == d.tasks[o.task]
        r == IF o.scanned
             THEN [report EXCEPT !.summary.scanned = @ + 1,
                                 !.summary.bytes = @ + file.size]
             ELSE report
    IN  IF o.err # "none" THEN
            [r EXCEPT !.errors = Append(@, <<file.path, o.err>>)]
        ELSE IF o.binary THEN
            [r EXCEPT !.summary.binary = @ + 1,
                      !.skipped = Append(@, <<file.path, "binary">>)]
        ELSE IF o.tooLarge THEN
            [r EXCEPT !.summary.size = @ + 1,
                      !.skipped = Append(@, <<file.path, "size">>)]
        ELSE IF o.scanned THEN AddFile(r, file)
        ELSE r

(* slices.SortFunc: at place i, what fewer than i elements precede and i   *)
(* elements or more do not follow.                                         *)
InOrder(s, Less(_, _)) ==
    [i \in DOMAIN s |->
        CHOOSE v \in Range(s) :
            /\ Cardinality({k \in DOMAIN s : Less(s[k], v)}) < i
            /\ i <= Cardinality({k \in DOMAIN s : ~Less(v, s[k])})]

(* Without the sort of the files.                                          *)
FilesUnsorted(r) ==
    [r EXCEPT !.declared = InOrder(@, <),
              !.errors   = InOrder(@, Before),
              !.skipped  = InOrder(@, Before),
              !.summary.errors = Len(r.errors)]

(* After the loop: the sorts, and ErrorCount.                              *)
Sorted(r) ==
    [r EXCEPT !.files    = InOrder(@, <),
              !.declared = InOrder(@, <),
              !.errors   = InOrder(@, Before),
              !.skipped  = InOrder(@, Before),
              !.summary.errors = Len(r.errors)]

(* The loop over the outcomes received.                                    *)
Collected(d, received) ==
    LET so_far[n \in 0..Len(received)] ==
            IF n = 0 THEN InitialReport(d)
                     ELSE Collect(d, so_far[n - 1], received[n])
    IN  so_far[Len(received)]

(* The report built from the outcomes in the order they were received.     *)
ReportOf(d, received) == Sorted(Collected(d, received))

-----------------------------------------------------------------------------
(* The report a scan of d ought to produce, said without reference to any  *)
(* order of arrival: counts and sums over the set S of the tasks done.     *)
Reading(d, S, x) == {t \in S : d.tasks[t].read = x}
Matched(d, S)    == {t \in Reading(d, S, "text") : ~d.tasks[t].overflow}
Shown(d, S)      == {t \in Matched(d, S) : Listed(d.tasks[t])}
Clued(d, S)      == {t \in Matched(d, S) : d.tasks[t].clues}
Detecting(d, S)   == {t \in Matched(d, S) : Detected(d.tasks[t]) # {}}
Identified(d, S, i) ==
    {t \in Matched(d, S) :
        \E e \in Detected(d.tasks[t]) : IdentificationOf[e] = i}
With(d, S, e)    == {t \in Matched(d, S) : e \in Detected(d.tasks[t])}

Records(d, S, text) == {<<d.tasks[t].path, text>> : t \in S}

Failing(d, S) ==
    Records(d, Reading(d, S, "unreadable"), "unreadable")
        \cup Records(d, Reading(d, S, "text") \ Matched(d, S), "tooMany")

Skipping(d, S) ==
    Records(d, Reading(d, S, "binary"), "binary")
        \cup Records(d, Reading(d, S, "tooLarge"), "size")

Total(f, S) ==
    LET upTo[n \in 0..Len(f)] ==
            IF n = 0 THEN 0
                     ELSE upTo[n - 1] + (IF n \in S THEN f[n] ELSE 0)
    IN  upTo[Len(f)]

SummaryFor(d, S) ==
    [d.summary EXCEPT
        !.scanned  = Cardinality(Reading(d, S, "text")),
        !.bytes    = Total([t \in DOMAIN d.tasks |-> d.tasks[t].size],
                           Reading(d, S, "text")),
        !.binary   = Cardinality(Reading(d, S, "binary")),
        !.size     = @ + Cardinality(Reading(d, S, "tooLarge")),
        !.detected = Cardinality(Detecting(d, S)),
        !.clued    = Cardinality(Clued(d, S)),
        !.identified =
            [i \in Identifications |-> Cardinality(Identified(d, S, i))]]

ExpressionsFor(d, S) ==
    [e \in {x \in Expressions : With(d, S, x) # {}} |->
        [root    |-> \E t \in With(d, S, e) : d.tasks[t].root,
         files   |-> Cardinality(With(d, S, e)),
         matches |-> Total([t \in DOMAIN d.tasks |-> d.tasks[t].matches[e]],
                           With(d, S, e))]]

ExpectedReport(d) ==
    LET All == DOMAIN d.tasks
    IN  [summary  |-> [SummaryFor(d, All) EXCEPT
            !.errors = Len(d.errors) + Cardinality(Failing(d, All))],
         declared |-> InOrder(d.declared, <),
         errors   |-> InOrder(d.errors \o SetToSeq(Failing(d, All)), Before),
         skipped  |-> InOrder(d.skipped \o SetToSeq(Skipping(d, All)), Before),
         files    |-> InOrder(SetToSeq(
                          {d.tasks[t].path : t \in Shown(d, All)}), <),
         expressions |-> ExpressionsFor(d, All)]
=============================================================================
