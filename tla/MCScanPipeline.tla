--------------------------- MODULE MCScanPipeline ---------------------------
(* Small instances of ScanPipeline: two license expressions, up to two     *)
(* tasks of eight kinds of file or three of three kinds, in ascending or   *)
(* descending path order, and a discovery that already left two errors on  *)
(* one path, a skip and two declarations.                                  *)
EXTENDS ScanPipeline

MCExpressions == {"mit", "apache"}
MCIdentificationOf == [mit |-> "identified", apache |-> "partial"]

NoMatches == [mit |-> 0, apache |-> 0]

TextFile == [path |-> 0, size |-> 2, read |-> "text", overflow |-> FALSE,
             matches |-> NoMatches, clues |-> FALSE, roles |-> FALSE,
             root |-> FALSE]

Kinds ==
    { [TextFile EXCEPT !.matches.mit = 1, !.roles = TRUE, !.root = TRUE],
      [TextFile EXCEPT !.matches = [mit |-> 2, apache |-> 1], !.size = 3],
      [TextFile EXCEPT !.clues = TRUE],
      [TextFile EXCEPT !.roles = TRUE],
      [TextFile EXCEPT !.overflow = TRUE],
      [TextFile EXCEPT !.read = "binary"],
      [TextFile EXCEPT !.read = "tooLarge"],
      [TextFile EXCEPT !.read = "unreadable"] }

FewKinds ==
    { [TextFile EXCEPT !.matches.mit = 1],
      [TextFile EXCEPT !.overflow = TRUE],
      [TextFile EXCEPT !.read = "tooLarge"] }

Tasks(kinds, descending) ==
    [t \in DOMAIN kinds |->
        [kinds[t] EXCEPT !.path = IF descending THEN Len(kinds) + 1 - t ELSE t]]

Discovery(tasks) ==
    [summary  |-> [EmptySummary EXCEPT !.visited = Len(tasks) + 2, !.size = 1],
     tasks    |-> tasks,
     declared |-> <<2, 1>>,
     errors   |-> IF tasks = <<>> THEN <<>> ELSE <<<<1, "walk">>, <<1, "manifest">>>>,
     skipped  |-> <<<<4, "size">>>>]

MCDiscoveries ==
    {Discovery(Tasks(kinds, descending)) :
        kinds \in UNION {[1..n -> Kinds] : n \in 0..2} \cup [1..3 -> FewKinds],
        descending \in BOOLEAN}
=============================================================================
