-------------------------- MODULE MCScanRepository --------------------------
(* Two families of repositories.  Small ones: a root with a vendored       *)
(* directory holding one file, and two files beside it, with contents and  *)
(* entry states varied.  Large ones: a root with a directory holding a     *)
(* file and a subdirectory with a file, then two files beside it, every    *)
(* entry in the states visit tells apart.  Explicit files, which os.Stat   *)
(* has resolved already, and a root that cannot be listed as well.         *)
EXTENDS ScanRepository

MCExpressions == {"mit"}
MCIdentificationOf == [mit |-> "identified"]

File0 == [path |-> 0, size |-> 2, read |-> "text", overflow |-> FALSE,
          matches |-> [mit |-> 0], clues |-> FALSE, roles |-> FALSE,
          root |-> FALSE]

Contents ==
    {[File0 EXCEPT !.matches.mit = 1], File0, [File0 EXCEPT !.overflow = TRUE],
     [File0 EXCEPT !.read = "binary"], [File0 EXCEPT !.read = "tooLarge"],
     [File0 EXCEPT !.read = "unreadable"]}

Found == [File0 EXCEPT !.matches.mit = 1, !.size = 3]

AtPath(path, depth, last, content) ==
    [path |-> path, depth |-> depth, last |-> last, dir |-> FALSE,
     name |-> "plain", listable |-> TRUE, symlink |-> FALSE, stat |-> TRUE,
     regular |-> TRUE, large |-> FALSE, manifest |-> "no",
     file |-> [content EXCEPT !.path = path]]

Dir(path, depth, last, name, listable) ==
    [AtPath(path, depth, last, File0) EXCEPT !.dir = TRUE, !.name = name,
                                             !.listable = listable]

(* The states visit tells apart.                                           *)
States(e) ==
    {e, [e EXCEPT !.symlink = TRUE], [e EXCEPT !.stat = FALSE],
     [e EXCEPT !.regular = FALSE], [e EXCEPT !.large = TRUE],
     [e EXCEPT !.manifest = "declares"], [e EXCEPT !.manifest = "fails"]}

SmallTrees ==
    {<<Dir(0, 0, 5, "plain", TRUE), Dir(1, 1, 3, "default", l),
       AtPath(4, 2, 3, Found), y, AtPath(3, 1, 5, z)>> :
        l \in BOOLEAN, z \in Contents,
        y \in LET e == AtPath(2, 1, 4, Found)
              IN  {AtPath(2, 1, 4, File0), e, [e EXCEPT !.large = TRUE],
                   [e EXCEPT !.manifest = "fails"]}}
    \cup {<<AtPath(1, 0, 1, c)>> : c \in Contents}

Text(path, depth, last) == AtPath(path, depth, last, File0)

(* Paths are ranked as strings, which is not the order of the walk: the    *)
(* file after directory "a" may be named "a.txt", before "a/".             *)
LargeTrees ==
    {<<Dir(0, 0, 7, "plain", TRUE), a, Text(3, 2, 3), c, Text(5, 3, 5), e, Text(6, 1, 7)>> :
        a \in {Dir(1, 1, 5, name, TRUE) : name \in NameClasses}
              \cup {Dir(1, 1, 5, name, FALSE) : name \in {"plain", "default"}},
        c \in {Dir(4, 2, 5, "plain", listable) : listable \in BOOLEAN},
        e \in States(Text(2, 1, 6))}
    \cup {<<Dir(0, 0, 1, "plain", FALSE)>>}
    \cup {<<e>> : e \in {x \in States(Text(1, 0, 1)) : ~x.symlink /\ x.stat}}

MCTrees == SmallTrees \cup LargeTrees

MCOptions == [MaxDepth : {0, 1}, MaxFiles : {0, 2}, NoDefaultSkip : BOOLEAN]
=============================================================================
