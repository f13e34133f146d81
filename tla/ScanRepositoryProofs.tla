------------------------ MODULE ScanRepositoryProofs ------------------------
(***************************************************************************)
(* Proofs about the whole scan, for any repository and options, in any     *)
(* schedule.  Of the walk: what it left is exactly the usable files it was *)
(* meant to meet, no path has two fates, and the pipeline gets a discovery *)
(* as it expects one.  Only the steps of the walk touch its variables, so  *)
(* those are what these proofs look at.  Of the walk and the pool together *)
(* (EndInv): the report is the one that what the walk left calls for; so   *)
(* its counters add up, and the exit status is true of the tree.           *)
(***************************************************************************)
EXTENDS ScanRepository, ScanPipelineProofs

SummaryType ==
    [visited : Nat, scanned : Nat, bytes : Nat, detected : Nat,
     identified : [Identifications -> Nat], clued : Nat, directories : Nat,
     binary : Nat, size : Nat, other : Nat, errors : Nat, truncated : BOOLEAN]

(* Where the walk is, and what its variables hold.                         *)
Typed ==
    /\ tree \in Trees /\ options \in Options
    /\ walk \in {"walking", "done", "failed"}
    /\ at \in 1..Len(tree) + 1
    /\ listing => /\ at <= Len(tree) /\ tree[at].dir
                  /\ DirectoryReason(tree[at], options) = "none"
    /\ summary \in SummaryType
    /\ tasks \in Seq(File)
    /\ errors \in Seq(Record) /\ skipped \in Seq(Record)

(* What the assumption says of the tree that is walked.                    *)
LEMMA Shape ==
    ASSUME Typed
    PROVE  /\ tree \in Seq(Entry) /\ tree # <<>> /\ Len(tree) \in Nat \ {0}
           /\ DOMAIN tree = 1..Len(tree)
           /\ \A i \in DOMAIN tree :
                 /\ tree[i] \in Entry
                 /\ tree[i].last \in i..Len(tree)
                 /\ tree[i].depth = 0 <=> i = 1
                 /\ ~tree[i].dir => tree[i].last = i
                 /\ tree[i].file.path = tree[i].path
                 /\ \A j \in i..tree[i].last : tree[j].last <= tree[i].last
                 /\ \A j \in DOMAIN tree : tree[i].path = tree[j].path => i = j
           /\ tree[1].last = Len(tree)
           /\ options \in [MaxDepth : Nat, MaxFiles : Nat,
                           NoDefaultSkip : BOOLEAN]
<1>1. tree \in Seq(Entry) /\ tree # <<>>  BY WalkAssumption DEF Typed
<1>2. Len(tree) \in Nat \ {0} /\ DOMAIN tree = 1..Len(tree)  BY <1>1
<1>3. \A i \in DOMAIN tree : tree[i] \in Entry  BY <1>1
<1>4. /\ \A i \in DOMAIN tree :
             /\ tree[i].last \in i..Len(tree)
             /\ tree[i].depth = 0 <=> i = 1
             /\ ~tree[i].dir => tree[i].last = i
             /\ tree[i].file.path = tree[i].path
             /\ \A j \in i..tree[i].last : tree[j].last <= tree[i].last
             /\ \A j \in DOMAIN tree : tree[i].path = tree[j].path => i = j
      /\ tree[1].last = Len(tree)
  BY WalkAssumption DEF Typed
<1>5. options \in [MaxDepth : Nat, MaxFiles : Nat, NoDefaultSkip : BOOLEAN]
  BY WalkAssumption DEF Typed
<1> QED  BY <1>1, <1>2, <1>3, <1>4, <1>5

(* All steps but those of the walk leave what it works on alone.           *)
LEMMA OnlyWalk ==
    ASSUME [RNext]_rvars
    PROVE  Walk \/ UNCHANGED walkVars
BY DEF RNext, Discover, DiscoveryFails, StartScan, Scan, RCancel, ROver,
       rvars
-----------------------------------------------------------------------------
(* Counting changes one counter of the summary and keeps its type.         *)
LEMMA SummaryCounts ==
    ASSUME summary \in SummaryType
    PROVE  /\ [summary EXCEPT !.directories = @ + 1] \in SummaryType
           /\ [summary EXCEPT !.truncated = TRUE] \in SummaryType
           /\ Visited \in SummaryType
           /\ [Visited EXCEPT !.other = @ + 1] \in SummaryType
           /\ [Visited EXCEPT !.size = @ + 1] \in SummaryType
           /\ [summary EXCEPT !.directories = @ + 1].visited = summary.visited
           /\ [summary EXCEPT !.directories = @ + 1].truncated
                = summary.truncated
           /\ [summary EXCEPT !.truncated = TRUE].visited = summary.visited
           /\ [summary EXCEPT !.truncated = TRUE].truncated = TRUE
           /\ Visited.visited = summary.visited + 1
           /\ Visited.truncated = summary.truncated
           /\ [Visited EXCEPT !.other = @ + 1].visited = summary.visited + 1
           /\ [Visited EXCEPT !.other = @ + 1].truncated = summary.truncated
           /\ [Visited EXCEPT !.size = @ + 1].visited = summary.visited + 1
           /\ [Visited EXCEPT !.size = @ + 1].truncated = summary.truncated
<1>1. Visited \in SummaryType /\ [summary EXCEPT !.truncated = TRUE] \in SummaryType
  <2>1. Visited \in SummaryType  BY DEF SummaryType, Visited
  <2>2. [summary EXCEPT !.truncated = TRUE] \in SummaryType
    BY Zenon DEF SummaryType
  <2> QED  BY <2>1, <2>2
<1>2. [summary EXCEPT !.directories = @ + 1] \in SummaryType
  BY DEF SummaryType
<1>3. /\ [Visited EXCEPT !.other = @ + 1] \in SummaryType
      /\ [Visited EXCEPT !.size = @ + 1] \in SummaryType
  BY <1>1 DEF SummaryType
<1>4. /\ [summary EXCEPT !.directories = @ + 1].visited = summary.visited
      /\ [summary EXCEPT !.directories = @ + 1].truncated = summary.truncated
      /\ [summary EXCEPT !.truncated = TRUE].visited = summary.visited
      /\ [summary EXCEPT !.truncated = TRUE].truncated = TRUE
      /\ Visited.visited = summary.visited + 1
      /\ Visited.truncated = summary.truncated
  BY DEF SummaryType, Visited
<1>5. /\ [Visited EXCEPT !.other = @ + 1].visited = Visited.visited
      /\ [Visited EXCEPT !.other = @ + 1].truncated = Visited.truncated
      /\ [Visited EXCEPT !.size = @ + 1].visited = Visited.visited
      /\ [Visited EXCEPT !.size = @ + 1].truncated = Visited.truncated
  BY <1>1 DEF SummaryType
<1> QED  BY <1>1, <1>2, <1>3, <1>4, <1>5

LEMMA Moved ==
    ASSUME Typed, at \in DOMAIN tree,
           NEW position \in at + 1..Len(tree) + 1, MoveTo(position)
    PROVE  /\ tree' = tree /\ options' = options /\ walk' = walk
           /\ at' = position /\ at' > at /\ listing' = FALSE
           /\ Typed' <=> /\ summary' \in SummaryType /\ tasks' \in Seq(File)
                         /\ errors' \in Seq(Record)
                         /\ skipped' \in Seq(Record)
<1>1. Len(tree) \in Nat /\ at \in Nat  BY Shape DEF Typed
<1>2. at \in 1..Len(tree)  BY Shape
<1> QED  BY <1>1, <1>2 DEF MoveTo, Typed

(* What a visited entry leaves behind is well typed.                       *)
LEMMA Noted ==
    ASSUME Typed, at \in DOMAIN tree
    PROVE  /\ \A text \in Texts :
                 /\ Append(skipped, <<entry.path, text>>) \in Seq(Record)
                 /\ Append(errors, <<entry.path, text>>) \in Seq(Record)
           /\ DirectoryReason(entry, options) \in Texts
           /\ Append(tasks, entry.file) \in Seq(File)
           /\ "symlink" \in Texts /\ "info" \in Texts /\ "walk" \in Texts
           /\ "non-regular" \in Texts /\ "size" \in Texts
           /\ "manifest" \in Texts
<1>1. entry \in Entry  BY Shape DEF entry
<1>2. entry.path \in Nat /\ entry.file \in File  BY <1>1 DEF Entry
<1>3. DirectoryReason(entry, options) \in Texts
  BY DEF DirectoryReason, NameReason, Texts
<1>4. \A text \in Texts : <<entry.path, text>> \in Record
  BY <1>2 DEF Record
<1>5. \A text \in Texts :
          /\ Append(skipped, <<entry.path, text>>) \in Seq(Record)
          /\ Append(errors, <<entry.path, text>>) \in Seq(Record)
  <2> TAKE text \in Texts
  <2> DEFINE r == <<entry.path, text>>
  <2>1. r \in Record  BY <1>4
  <2> HIDE DEF r
  <2>2. skipped \in Seq(Record) /\ errors \in Seq(Record)  BY DEF Typed
  <2>3. Append(skipped, r) \in Seq(Record) /\ Append(errors, r) \in Seq(Record)
    BY <2>1, <2>2
  <2> QED  BY <2>3 DEF r
<1>6. Append(tasks, entry.file) \in Seq(File)
  <2> DEFINE f == entry.file
  <2>1. f \in File /\ tasks \in Seq(File)  BY <1>2 DEF Typed
  <2> HIDE DEF f
  <2>2. Append(tasks, f) \in Seq(File)  BY <2>1
  <2> QED  BY <2>2 DEF f
<1>7. /\ "symlink" \in Texts /\ "info" \in Texts /\ "walk" \in Texts
      /\ "non-regular" \in Texts /\ "size" \in Texts /\ "manifest" \in Texts
  BY DEF Texts
<1> QED  BY <1>3, <1>5, <1>6, <1>7

(* A walk step moves on past the entry it is at, or stays there.           *)
LEMMA WalkTyped ==
    ASSUME Typed, Walk
    PROVE  Typed'
<1>1. CASE SkipDirectory
  <2>1. at \in DOMAIN tree /\ entry.last + 1 \in at + 1..Len(tree) + 1
    BY <1>1, Shape DEF SkipDirectory, Visiting, entry, Typed
  <2>2. MoveTo(entry.last + 1)  BY <1>1 DEF SkipDirectory, SkipDir
  <2>3. summary' \in SummaryType /\ skipped' \in Seq(Record)
        /\ tasks' = tasks /\ errors' = errors
    BY <1>1, <2>1, Noted, SummaryCounts DEF SkipDirectory, AddSkip, Typed
  <2> QED  BY <2>1, <2>2, <2>3, Moved DEF Typed
<1>2. CASE UnlistableDirectory
  <2>1. at \in DOMAIN tree /\ entry.last + 1 \in at + 1..Len(tree) + 1
    BY <1>2, Shape DEF UnlistableDirectory, Visiting, entry, Typed
  <2>2. MoveTo(entry.last + 1)  BY <1>2 DEF UnlistableDirectory, SkipDir
    <2>4. summary' \in SummaryType /\ errors' \in Seq(Record)
        /\ tasks' = tasks /\ skipped' = skipped
    BY <1>2, <2>1, Noted DEF UnlistableDirectory, AddError, Typed
  <2> QED  BY <2>1, <2>2, <2>4, Moved DEF Typed
<1>3. CASE SkipSymlink \/ StatFails \/ VisitFile \/ ExplicitFile
  <2>1. at \in DOMAIN tree /\ at + 1 \in at + 1..Len(tree) + 1
    BY <1>3, Shape DEF SkipSymlink, StatFails, VisitFile, ExplicitFile, AtFile,
       Visiting, Typed
  <2>2. MoveTo(at + 1)
    BY <1>3 DEF SkipSymlink, StatFails, VisitFile, ExplicitFile, Advance
  <2> DEFINE Well == /\ summary' \in SummaryType /\ tasks' \in Seq(File)
                     /\ errors' \in Seq(Record) /\ skipped' \in Seq(Record)
  <2>3. /\ summary \in SummaryType /\ tasks \in Seq(File)
        /\ errors \in Seq(Record) /\ skipped \in Seq(Record)
    BY DEF Typed
  <2>4. Measure => Well
    BY <2>1, <2>3, Noted, SummaryCounts, Zenon DEF Measure, AddSkip
  <2>5. SkipSymlink => Well
    BY <2>1, <2>3, Noted, SummaryCounts, Zenon DEF SkipSymlink, AddSkip
  <2>6. StatFails => Well
    BY <2>1, <2>3, Noted, SummaryCounts, Zenon DEF StatFails, AddError
  <2>7. Well  BY <1>3, <2>4, <2>5, <2>6 DEF VisitFile, ExplicitFile
  <2> QED  BY <2>1, <2>2, <2>7, Moved
<1>4. CASE ListDirectory
  <2>1. at \in DOMAIN tree /\ at + 1 \in at + 1..Len(tree) + 1
    BY <1>4, Shape DEF ListDirectory, Typed
  <2>2. MoveTo(at + 1) /\ UNCHANGED found  BY <1>4 DEF ListDirectory, Advance
  <2> QED  BY <2>1, <2>2, Moved DEF Typed, found
<1>5. CASE EnterDirectory
  BY <1>5 DEF EnterDirectory, Visiting, Typed, found, entry
<1>6. CASE StopAtLimit
  BY <1>6, SummaryCounts DEF StopAtLimit, Typed
<1>7. CASE EndOfWalk \/ RootFails \/ Interrupted
  BY <1>7 DEF EndOfWalk, RootFails, Interrupted, Typed, found
<1> QED  BY <1>1, <1>2, <1>3, <1>4, <1>5, <1>6, <1>7 DEF Walk
(* A step that passes over a directory, and one that is done with a file.  *)
LEMMA SkipMoves ==
    ASSUME Typed, SkipDirectory \/ UnlistableDirectory
    PROVE  /\ at \in DOMAIN tree /\ tree[at].dir
           /\ tree' = tree /\ options' = options
           /\ walk = "walking" /\ walk' = walk /\ listing' = FALSE
           /\ at' \in Nat /\ at' > at /\ at' = tree[at].last + 1
<1>1. /\ at \in DOMAIN tree /\ tree[at].dir /\ walk = "walking"
      /\ entry.last + 1 \in at + 1..Len(tree) + 1
  BY Shape, SMTT(30)
     DEF SkipDirectory, UnlistableDirectory, Visiting, entry, Typed
<1>2. MoveTo(entry.last + 1)
  BY DEF SkipDirectory, UnlistableDirectory, SkipDir
<1>3. at \in Nat /\ Len(tree) \in Nat  BY Shape DEF Typed
<1> QED  BY <1>1, <1>2, <1>3 DEF MoveTo, entry

LEMMA FileMoves ==
    ASSUME Typed, SkipSymlink \/ StatFails \/ VisitFile \/ ExplicitFile
    PROVE  /\ at \in DOMAIN tree /\ ~tree[at].dir
           /\ tree' = tree /\ options' = options
           /\ walk = "walking" /\ walk' = walk /\ listing' = FALSE
           /\ at' \in Nat /\ at' > at /\ at' = at + 1
<1>1. /\ at \in DOMAIN tree /\ ~tree[at].dir /\ walk = "walking"
      /\ at + 1 \in at + 1..Len(tree) + 1
  BY Shape DEF SkipSymlink, StatFails, VisitFile, ExplicitFile, AtFile,
     Visiting, Typed, entry
<1>2. MoveTo(at + 1)
  BY DEF SkipSymlink, StatFails, VisitFile, ExplicitFile, Advance
<1>3. at \in Nat  BY Shape DEF Typed
<1> QED  BY <1>1, <1>2, <1>3 DEF MoveTo

-----------------------------------------------------------------------------
(* OneFate is not inductive: nothing in it keeps the next path from being  *)
(* one that has its fate already.  What keeps it is that fates are met in  *)
(* walk order: each belongs to an entry before the one the walk is at.     *)
PathsBefore == {tree[i].path : i \in {j \in DOMAIN tree : j < at}}

FatesReached ==
    /\ \A i \in DOMAIN skipped : skipped[i][1] \in PathsBefore
    /\ \A i \in DOMAIN errors : errors[i][1] \in PathsBefore
    /\ \A n \in DOMAIN tasks : tasks[n].path \in PathsBefore

FateInv == Typed /\ FatesReached /\ OneFate

LEMMA Fresh ==
    ASSUME Typed, at \in DOMAIN tree
    PROVE  entry.path \notin PathsBefore
BY Shape DEF PathsBefore, entry

LEMMA StillBefore ==
    ASSUME Typed, at \in DOMAIN tree,
           tree' = tree, at' \in Nat, at' > at
    PROVE  /\ PathsBefore \subseteq PathsBefore'
           /\ entry.path \in PathsBefore'
BY Shape DEF PathsBefore, entry, Typed

LEMMA FatesKept ==
    ASSUME FateInv, UNCHANGED <<tree, skipped, errors, tasks>>,
           at' \in Nat, at' >= at
    PROVE  FatesReached' /\ OneFate'
<1>1. PathsBefore \subseteq PathsBefore'
  BY Shape DEF PathsBefore, FateInv, Typed
<1> QED  BY <1>1 DEF FateInv, FatesReached, OneFate

LEMMA FateSkip ==
    ASSUME FateInv, at \in DOMAIN tree, NEW text \in Texts,
           tree' = tree, at' \in Nat, at' > at,
           skipped' = Append(skipped, <<entry.path, text>>),
           errors' = errors, tasks' = tasks
    PROVE  FatesReached' /\ OneFate'
<1> DEFINE n == Len(skipped)
<1>1. /\ n \in Nat /\ DOMAIN skipped = 1..n /\ DOMAIN skipped' = 1..n + 1
      /\ \A i \in 1..n : skipped'[i] = skipped[i]
      /\ skipped'[n + 1][1] = entry.path
  BY DEF FateInv, Typed
<1> HIDE DEF n
<1>2. /\ entry.path \notin PathsBefore /\ entry.path \in PathsBefore'
      /\ PathsBefore \subseteq PathsBefore'
  BY Fresh, StillBefore DEF FateInv
<1>3. FatesReached'
  BY <1>1, <1>2 DEF FateInv, FatesReached
<1>4. /\ \A i, j \in DOMAIN skipped' :
             skipped'[i][1] = skipped'[j][1] => i = j
      /\ \A i \in DOMAIN skipped' : \A j \in DOMAIN errors :
             skipped'[i][1] # errors[j][1]
      /\ \A i \in DOMAIN skipped' : \A m \in DOMAIN tasks :
             skipped'[i][1] # tasks[m].path
  BY <1>1, <1>2 DEF FateInv, FatesReached, OneFate
<1>5. OneFate'  BY <1>4 DEF FateInv, OneFate
<1> QED  BY <1>3, <1>5

LEMMA FateError ==
    ASSUME FateInv, at \in DOMAIN tree, NEW text \in Texts,
           tree' = tree, at' \in Nat, at' > at,
           errors' = Append(errors, <<entry.path, text>>),
           skipped' = skipped, tasks' = tasks
    PROVE  FatesReached' /\ OneFate'
<1> DEFINE n == Len(errors)
<1>1. /\ n \in Nat /\ DOMAIN errors = 1..n /\ DOMAIN errors' = 1..n + 1
      /\ \A i \in 1..n : errors'[i] = errors[i]
      /\ errors'[n + 1][1] = entry.path
  BY DEF FateInv, Typed
<1> HIDE DEF n
<1>2. /\ entry.path \notin PathsBefore /\ entry.path \in PathsBefore'
      /\ PathsBefore \subseteq PathsBefore'
  BY Fresh, StillBefore DEF FateInv
<1>3. FatesReached'
  BY <1>1, <1>2 DEF FateInv, FatesReached
<1>4. /\ \A i, j \in DOMAIN errors' : errors'[i][1] = errors'[j][1] => i = j
      /\ \A i \in DOMAIN skipped : \A j \in DOMAIN errors' :
             skipped[i][1] # errors'[j][1]
      /\ \A m \in DOMAIN tasks : \A j \in DOMAIN errors' :
             errors'[j][1] = tasks[m].path => errors'[j][2] = "manifest"
  BY <1>1, <1>2 DEF FateInv, FatesReached, OneFate
<1>5. OneFate'  BY <1>4 DEF FateInv, OneFate
<1> QED  BY <1>3, <1>5

LEMMA FateTask ==
    ASSUME FateInv, at \in DOMAIN tree,
           tree' = tree, at' \in Nat, at' > at,
           tasks' = Append(tasks, entry.file), skipped' = skipped,
           \/ errors' = errors
           \/ errors' = Append(errors, <<entry.path, "manifest">>)
    PROVE  FatesReached' /\ OneFate'
<1> DEFINE n == Len(tasks)
           e == Len(errors)
<1>1. /\ n \in Nat /\ DOMAIN tasks = 1..n /\ DOMAIN tasks' = 1..n + 1
      /\ \A i \in 1..n : tasks'[i] = tasks[i]
      /\ tasks'[n + 1] = entry.file
  BY DEF FateInv, Typed
<1>2. tasks'[n + 1].path = entry.path
  BY <1>1, Shape DEF entry, FateInv
<1>3. /\ e \in Nat /\ DOMAIN errors = 1..e
      /\ \/ errors' = errors
         \/ /\ DOMAIN errors' = 1..e + 1
            /\ \A i \in 1..e : errors'[i] = errors[i]
            /\ errors'[e + 1][1] = entry.path
            /\ errors'[e + 1][2] = "manifest"
  BY DEF FateInv, Typed
<1> HIDE DEF n, e
<1>4. /\ entry.path \notin PathsBefore /\ entry.path \in PathsBefore'
      /\ PathsBefore \subseteq PathsBefore'
  BY Fresh, StillBefore DEF FateInv
<1>5. FatesReached'
  <2>1. \A i \in DOMAIN tasks' : tasks'[i].path \in PathsBefore'
    BY <1>1, <1>2, <1>4 DEF FateInv, FatesReached
  <2>2. \A i \in DOMAIN errors' : errors'[i][1] \in PathsBefore'
    BY <1>3, <1>4 DEF FateInv, FatesReached
  <2> QED  BY <1>4, <2>1, <2>2 DEF FateInv, FatesReached
<1>6. /\ \A i, j \in DOMAIN errors' : errors'[i][1] = errors'[j][1] => i = j
      /\ \A i \in DOMAIN skipped : \A j \in DOMAIN errors' :
             skipped[i][1] # errors'[j][1]
  <2>1. CASE errors' = errors
    BY <2>1 DEF FateInv, OneFate
  <2>2. CASE errors' # errors
    <3>1. /\ DOMAIN errors' = 1..e + 1
          /\ \A i \in 1..e : errors'[i] = errors[i]
          /\ errors'[e + 1][1] = entry.path
      BY <1>3, <2>2
    <3>2. \A i \in 1..e : errors[i][1] # entry.path
      BY <1>3, <1>4 DEF FateInv, FatesReached
    <3>3. \A i, j \in DOMAIN errors' :
              errors'[i][1] = errors'[j][1] => i = j
      BY <1>3, <3>1, <3>2 DEF FateInv, OneFate
    <3>4. \A i \in DOMAIN skipped : \A j \in DOMAIN errors' :
              skipped[i][1] # errors'[j][1]
      BY <1>3, <1>4, <3>1 DEF FateInv, FatesReached, OneFate
    <3> QED  BY <3>3, <3>4
  <2> QED  BY <2>1, <2>2
<1>7. \A i \in DOMAIN skipped : \A m \in DOMAIN tasks' :
          skipped[i][1] # tasks'[m].path
  BY <1>1, <1>2, <1>4 DEF FateInv, FatesReached, OneFate
<1>8. ASSUME NEW m \in DOMAIN tasks', NEW j \in DOMAIN errors',
             errors'[j][1] = tasks'[m].path
      PROVE  errors'[j][2] = "manifest"
  <2>1. CASE j \in DOMAIN errors /\ m \in DOMAIN tasks
    BY <1>1, <1>3, <1>8, <2>1 DEF FateInv, OneFate
  <2>2. CASE j \in DOMAIN errors /\ m \notin DOMAIN tasks
    BY <1>1, <1>2, <1>3, <1>4, <1>8, <2>2 DEF FateInv, FatesReached
  <2>3. CASE j \notin DOMAIN errors
    BY <1>3, <2>3
  <2> QED  BY <2>1, <2>2, <2>3
<1>9. OneFate'
  BY <1>6, <1>7, <1>8 DEF FateInv, OneFate
<1> QED  BY <1>5, <1>9

LEMMA FateStep ==
    ASSUME FateInv, Walk
    PROVE  FateInv'
<1>1. Typed  BY DEF FateInv
<1>0. Typed'  BY <1>1, WalkTyped
<1>2. CASE SkipDirectory
  <2>1. at \in DOMAIN tree  BY <1>1, <1>2, SkipMoves
  <2>2. tree' = tree /\ at' \in Nat /\ at' > at  BY <1>1, <1>2, SkipMoves
  <2>3. DirectoryReason(entry, options) \in Texts  BY <1>1, <2>1, Noted
  <2> QED  BY <1>0, <1>2, <2>1, <2>2, <2>3, FateSkip
           DEF SkipDirectory, AddSkip, FateInv
<1>3. CASE UnlistableDirectory
  <2>1. at \in DOMAIN tree  BY <1>1, <1>3, SkipMoves
  <2>2. tree' = tree /\ at' \in Nat /\ at' > at  BY <1>1, <1>3, SkipMoves
  <2>3. "walk" \in Texts  BY DEF Texts
  <2> QED  BY <1>0, <1>3, <2>1, <2>2, <2>3, FateError
           DEF UnlistableDirectory, AddError, FateInv
<1>4. CASE SkipSymlink \/ StatFails \/ VisitFile \/ ExplicitFile
  <2>1. at \in DOMAIN tree  BY <1>1, <1>4, FileMoves
  <2>2. tree' = tree /\ at' \in Nat /\ at' > at  BY <1>1, <1>4, FileMoves
  <2>3. "symlink" \in Texts /\ "info" \in Texts
        /\ "non-regular" \in Texts /\ "size" \in Texts
    BY DEF Texts
  <2>4. CASE SkipSymlink
    BY <1>0, <2>1, <2>2, <2>3, <2>4, FateSkip DEF SkipSymlink, AddSkip, FateInv
  <2>5. CASE StatFails
    BY <1>0, <2>1, <2>2, <2>3, <2>5, FateError DEF StatFails, AddError, FateInv
  <2>6. CASE Measure
    <3>1. CASE ~entry.regular
      BY <1>0, <2>1, <2>2, <2>3, <2>6, <3>1, FateSkip
         DEF Measure, AddSkip, FateInv
    <3>2. CASE entry.regular /\ entry.large
      BY <1>0, <2>1, <2>2, <2>3, <2>6, <3>2, FateSkip
         DEF Measure, AddSkip, FateInv
    <3>3. CASE entry.regular /\ ~entry.large
      BY <1>0, <2>1, <2>2, <2>6, <3>3, FateTask DEF Measure, FateInv
    <3> QED  BY <2>6, <3>1, <3>2, <3>3 DEF Measure
  <2> QED  BY <1>4, <2>4, <2>5, <2>6 DEF VisitFile, ExplicitFile
<1>5. CASE ListDirectory
  <2>1. at' = at + 1 /\ tree' = tree /\ at \in Nat
    BY <1>1, <1>5, Shape DEF ListDirectory, Advance, MoveTo, Typed
  <2>2. UNCHANGED <<skipped, errors, tasks>>
    BY <1>5 DEF ListDirectory, found
  <2> QED  BY <1>0, <2>1, <2>2, FatesKept DEF FateInv
<1>6. CASE EnterDirectory \/ StopAtLimit \/ EndOfWalk \/ RootFails \/ Interrupted
  <2>1. UNCHANGED <<tree, at, skipped, errors, tasks>>
    BY <1>6 DEF EnterDirectory, StopAtLimit, EndOfWalk, RootFails, Interrupted, found
  <2>2. at' \in Nat /\ at' >= at
    BY <1>1, <2>1, Shape DEF Typed
  <2> QED  BY <1>0, <2>1, <2>2, FatesKept DEF FateInv
<1> QED  BY <1>2, <1>3, <1>4, <1>5, <1>6 DEF Walk

LEMMA FateInit ==
    ASSUME RInit
    PROVE  FateInv
<1>1. tree \in Trees /\ options \in Options /\ at = 1 /\ listing = FALSE
      /\ walk = "walking" /\ summary = EmptySummary
      /\ tasks = <<>> /\ errors = <<>> /\ skipped = <<>>
  BY DEF RInit, WInit
<1>2. Len(tree) \in Nat  BY <1>1, WalkAssumption
<1>3. summary \in SummaryType
  BY <1>1 DEF SummaryType, EmptySummary, Identifications
<1>4. Typed  BY <1>1, <1>2, <1>3 DEF Typed
<1> QED  BY <1>1, <1>4 DEF FateInv, FatesReached, OneFate

(* No path is skipped twice, skipped and scanned, or skipped and in error, *)
(* whatever the repository, the options and the moment of a cancellation.  *)
THEOREM Fates == RSpec => []OneFate
<1>1. FateInv /\ [RNext]_rvars => FateInv'
  <2> SUFFICES ASSUME FateInv, [RNext]_rvars PROVE FateInv'
    OBVIOUS
  <2>1. CASE Walk  BY <2>1, FateStep
  <2>2. CASE UNCHANGED walkVars
    BY <2>2 DEF walkVars, FateInv, Typed, FatesReached, PathsBefore, OneFate
  <2> QED  BY <2>1, <2>2, OnlyWalk
<1>2. FateInv => OneFate  BY DEF FateInv
<1> QED  BY FateInit, <1>1, <1>2, PTL DEF RSpec
-----------------------------------------------------------------------------
(* DiscoveryExact speaks of the end of the walk.  While it goes on, the    *)
(* same holds of the files met before the entry it is at, and the walk is  *)
(* only ever within directories it was meant to go into.                   *)
Seen == {j \in MetFiles : j < at}
UsableSeen == {j \in Seen : ~Rejected(j)}

OnlyWithinOpen ==
    \A i \in DOMAIN tree : tree[i].dir /\ Inside(i, at) => Open(i)

Progress ==
    walk = "walking" =>
        /\ OnlyWithinOpen
        /\ TasksAre(UsableSeen)
        /\ summary.visited = Cardinality(Seen) /\ summary.truncated = FALSE
        /\ Limited => summary.visited <= options.MaxFiles

DiscoveryInv == Typed /\ Progress /\ DiscoveryExact

(* The place of a member among those of a set that grows by a larger one.  *)
LEMMA PlaceOfNext ==
    ASSUME NEW U \in SUBSET Nat, IsFiniteSet(U), NEW x \in Nat,
           \A u \in U : u < x
    PROVE  /\ IsFiniteSet(U \cup {x})
           /\ Cardinality(U \cup {x}) = Cardinality(U) + 1
           /\ Place(U \cup {x}, x) = Cardinality(U) + 1
           /\ \A j \in U : /\ Place(U \cup {x}, j) = Place(U, j)
                           /\ Place(U, j) \in 1..Cardinality(U)
<1>1. x \notin U  OBVIOUS
<1>2. /\ IsFiniteSet(U \cup {x})
      /\ Cardinality(U \cup {x}) = Cardinality(U) + 1
  BY <1>1, FS_AddElement
<1>3. Place(U \cup {x}, x) = Cardinality(U) + 1
  <2>0. \A k \in U \cup {x} : k <= x  OBVIOUS
  <2>1. {k \in U \cup {x} : k <= x} = U \cup {x}  BY <2>0, Zenon
  <2> QED  BY <1>2, <2>1 DEF Place
<1>4. ASSUME NEW j \in U
      PROVE  /\ Place(U \cup {x}, j) = Place(U, j)
             /\ Place(U, j) \in 1..Cardinality(U)
  <2> DEFINE K == {k \in U : k <= j}
  <2>1. {k \in U \cup {x} : k <= j} = K  OBVIOUS
  <2>2. IsFiniteSet(K) /\ Cardinality(K) <= Cardinality(U)
    BY FS_Subset
  <2>3. Cardinality(K) \in Nat /\ Cardinality(U) \in Nat
    BY <2>2, FS_CardinalityType
  <2>4. K # {}  OBVIOUS
  <2>5. Cardinality(K) # 0  BY <2>2, <2>4, FS_EmptySet
  <2> QED  BY <2>1, <2>2, <2>3, <2>5 DEF Place
<1> QED  BY <1>2, <1>3, <1>4

(* Appending the file of a later entry.                                    *)
LEMMA TaskAppended ==
    ASSUME tasks \in Seq(File), NEW U \in SUBSET Nat, IsFiniteSet(U),
           NEW x \in Nat, \A u \in U : u < x,
           TasksAre(U), tree' = tree, tasks' = Append(tasks, tree[x].file)
    PROVE  TasksAre(U \cup {x})'
<1> DEFINE n == Len(tasks)
<1>1. n \in Nat /\ n = Cardinality(U)  BY DEF TasksAre
<1>2. /\ Len(tasks') = n + 1
      /\ \A i \in 1..n : tasks'[i] = tasks[i]
      /\ tasks'[n + 1] = tree[x].file
  OBVIOUS
<1> HIDE DEF n
<1>3. Len(tasks') = Cardinality(U \cup {x})
  BY <1>1, <1>2, PlaceOfNext
<1>4. ASSUME NEW j \in U \cup {x}
      PROVE  tasks'[Place(U \cup {x}, j)] = tree[j].file
  <2>1. CASE j = x  BY <1>1, <1>2, <2>1, PlaceOfNext
  <2>2. CASE j \in U
    BY <1>1, <1>2, <2>2, PlaceOfNext DEF TasksAre
  <2> QED  BY <2>1, <2>2
<1> QED  BY <1>3, <1>4 DEF TasksAre, Place

(* What the walk is to meet depends on the tree and the options alone.     *)
LEMMA SameTree ==
    ASSUME tree' = tree, options' = options
    PROVE  /\ MetFiles' = MetFiles /\ (Limited' <=> Limited)
           /\ WithinLimit' = WithinLimit /\ UsableWithin' = UsableWithin
<1>1. MetFiles' = MetFiles
  BY DEF MetFiles, Met, Inside, Open, DirectoryReason, NameReason
<1>2. Limited' <=> Limited  BY DEF Limited
<1>3. WithinLimit' = WithinLimit  BY <1>1, <1>2 DEF WithinLimit, Place
<1>4. UsableWithin' = UsableWithin  BY <1>3 DEF UsableWithin, Rejected
<1> QED  BY <1>1, <1>2, <1>3, <1>4

LEMMA FiniteSets ==
    ASSUME Typed
    PROVE  /\ MetFiles \in SUBSET (1..Len(tree)) /\ IsFiniteSet(MetFiles)
           /\ Seen \in SUBSET MetFiles /\ IsFiniteSet(Seen)
           /\ UsableSeen \in SUBSET Seen /\ IsFiniteSet(UsableSeen)
           /\ Seen \in SUBSET Nat /\ UsableSeen \in SUBSET Nat
           /\ \A j \in Seen : j < at
<1>1. Len(tree) \in Nat /\ DOMAIN tree = 1..Len(tree)  BY Shape
<1>2. /\ MetFiles \in SUBSET (1..Len(tree)) /\ Seen \in SUBSET MetFiles
      /\ UsableSeen \in SUBSET Seen /\ \A j \in Seen : j < at
  BY <1>1 DEF MetFiles, Seen, UsableSeen
<1>3. IsFiniteSet(1..Len(tree))  BY <1>1, FS_Interval
<1>4. IsFiniteSet(MetFiles) /\ IsFiniteSet(Seen) /\ IsFiniteSet(UsableSeen)
  BY <1>2, <1>3, FS_Subset
<1> QED  BY <1>1, <1>2, <1>4

(* Moving on within a directory, past one that is not to be gone into, and *)
(* past a file.                                                            *)
LEMMA IntoDirectory ==
    ASSUME Typed, at \in DOMAIN tree, tree[at].dir, Open(at), OnlyWithinOpen,
           tree' = tree, options' = options, at' = at + 1
    PROVE  OnlyWithinOpen' /\ Seen' = Seen /\ UsableSeen' = UsableSeen
<1>1. at \in Nat /\ DOMAIN tree \subseteq Nat  BY Shape DEF Typed
<1>2. \A i \in DOMAIN tree : tree[i].last \in Nat  BY Shape
<1>3. OnlyWithinOpen'
  BY <1>1, <1>2
     DEF OnlyWithinOpen, Inside, Open, DirectoryReason, NameReason
<1>4. MetFiles' = MetFiles  BY SameTree
<1>5. at \notin MetFiles /\ MetFiles \subseteq Nat
  BY <1>1 DEF MetFiles
<1>6. Seen' = Seen
  <2>1. \A j \in MetFiles : j < at' <=> j < at  BY <1>1, <1>5
  <2> QED  BY <1>4, <2>1, Zenon DEF Seen
<1>7. UsableSeen' = UsableSeen  BY <1>6 DEF UsableSeen, Rejected
<1> QED  BY <1>3, <1>6, <1>7

LEMMA PastDirectory ==
    ASSUME Typed, at \in DOMAIN tree, tree[at].dir, ~Open(at), OnlyWithinOpen,
           tree' = tree, options' = options, at' = tree[at].last + 1
    PROVE  OnlyWithinOpen' /\ Seen' = Seen /\ UsableSeen' = UsableSeen
<1>1. at \in Nat /\ DOMAIN tree \subseteq Nat  BY Shape, SMTT(30) DEF Typed
<1>2. /\ \A i \in DOMAIN tree : tree[i].last \in Nat
      /\ tree[at].last >= at
      /\ \A i \in DOMAIN tree : i > at /\ i <= tree[at].last =>
             tree[i].last <= tree[at].last
  BY Shape, <1>1, SMTT(30)
<1>3. OnlyWithinOpen'
  <2>1. ASSUME NEW i \in DOMAIN tree, tree[i].dir, i < tree[at].last + 1,
               tree[at].last + 1 <= tree[i].last
        PROVE  Open(i)
    <3>1. i < at  BY <1>1, <1>2, <2>1
    <3>2. Inside(i, at)  BY <1>1, <1>2, <2>1, <3>1 DEF Inside
    <3> QED  BY <2>1, <3>2 DEF OnlyWithinOpen
  <2> QED  BY <2>1
           DEF OnlyWithinOpen, Inside, Open, DirectoryReason, NameReason
<1>4. MetFiles' = MetFiles  BY SameTree
<1>5. \A j \in at..tree[at].last : j \notin MetFiles
  BY <1>1, <1>2 DEF MetFiles, Met, Inside
<1>6. MetFiles \subseteq Nat  BY <1>1 DEF MetFiles
<1>7. Seen' = Seen
  <2>1. \A j \in MetFiles : j < at' <=> j < at
    BY <1>1, <1>2, <1>5, <1>6
  <2> QED  BY <1>4, <2>1, Zenon DEF Seen
<1>8. UsableSeen' = UsableSeen  BY <1>7 DEF UsableSeen, Rejected
<1> QED  BY <1>3, <1>7, <1>8

LEMMA PastFile ==
    ASSUME Typed, at \in DOMAIN tree, ~tree[at].dir, OnlyWithinOpen,
           tree' = tree, options' = options, at' = at + 1
    PROVE  /\ at \in MetFiles /\ OnlyWithinOpen' /\ Seen' = Seen \cup {at}
           /\ Rejected(at) => UsableSeen' = UsableSeen
           /\ ~Rejected(at) => UsableSeen' = UsableSeen \cup {at}
<1>1. at \in Nat /\ DOMAIN tree \subseteq Nat  BY Shape DEF Typed
<1>2. \A i \in DOMAIN tree : tree[i].last \in Nat  BY Shape
<1>3. OnlyWithinOpen'
  BY <1>1, <1>2
     DEF OnlyWithinOpen, Inside, Open, DirectoryReason, NameReason
<1>4. MetFiles' = MetFiles  BY SameTree
<1>5. at \in MetFiles /\ MetFiles \subseteq Nat
  BY <1>1 DEF MetFiles, Met, OnlyWithinOpen
<1>6. Seen' = Seen \cup {at}  BY <1>1, <1>4, <1>5 DEF Seen
<1>7. UsableSeen' = {j \in Seen \cup {at} : ~Rejected(j)}
  BY <1>6 DEF UsableSeen, Rejected
<1>8. /\ Rejected(at) => UsableSeen' = UsableSeen
      /\ ~Rejected(at) => UsableSeen' = UsableSeen \cup {at}
  BY <1>7 DEF UsableSeen
<1> QED  BY <1>3, <1>5, <1>6, <1>8

(* The limit cuts the files off where the walk is when it has seen as many *)
(* as it allows; at the end of the walk, it has seen all of them.          *)
LEMMA PlaceBounds ==
    ASSUME Typed, NEW j \in MetFiles
    PROVE  /\ Place(MetFiles, j) \in Nat
           /\ j < at => Place(MetFiles, j) <= Cardinality(Seen)
           /\ at \in MetFiles /\ at <= j =>
                 Place(MetFiles, j) >= Cardinality(Seen) + 1
<1> DEFINE K == {k \in MetFiles : k <= j}
<1>1. MetFiles \in SUBSET Nat /\ at \in Nat
  BY FiniteSets, Shape DEF Typed
<1>2. /\ IsFiniteSet(K) /\ Cardinality(K) \in Nat
      /\ IsFiniteSet(Seen) /\ Cardinality(Seen) \in Nat
  BY FiniteSets, FS_Subset, FS_CardinalityType
<1>3. ASSUME j < at PROVE Cardinality(K) <= Cardinality(Seen)
  <2>1. \A k \in MetFiles : k <= j => k < at  BY <1>1, <1>3
  <2>2. K \in SUBSET Seen  BY <2>1 DEF Seen
  <2> QED  BY <1>2, <2>2, FS_Subset
<1>4. ASSUME at \in MetFiles, at <= j
      PROVE  Cardinality(K) >= Cardinality(Seen) + 1
  <2>0. \A k \in MetFiles : k < at => k <= j  BY <1>1, <1>4
  <2>1. Seen \cup {at} \in SUBSET K  BY <1>1, <1>4, <2>0 DEF Seen
  <2>2. Cardinality(Seen \cup {at}) = Cardinality(Seen) + 1
    <3>1. at \notin Seen  BY <1>1 DEF Seen
    <3> QED  BY <1>2, <3>1, FS_AddElement
  <2>3. Cardinality(Seen \cup {at}) <= Cardinality(K)
    BY <1>2, <2>1, FS_Subset
  <2> QED  BY <1>2, <2>2, <2>3
<1> QED  BY <1>2, <1>3, <1>4 DEF Place

LEMMA AtLimit ==
    ASSUME Typed, at \in MetFiles, Limited,
           Cardinality(Seen) = options.MaxFiles
    PROVE  WithinLimit = Seen /\ UsableWithin = UsableSeen
           /\ WithinLimit # MetFiles
<1>1. options.MaxFiles \in Nat /\ at \in Nat /\ MetFiles \in SUBSET Nat
  BY Shape, FiniteSets DEF Typed
<1>2. \A j \in MetFiles : Place(MetFiles, j) <= options.MaxFiles <=> j < at
  BY <1>1, PlaceBounds
<1>3. WithinLimit = Seen  BY <1>2, Zenon DEF WithinLimit, Seen
<1>4. at \notin Seen  BY <1>1 DEF Seen
<1> QED  BY <1>3, <1>4 DEF UsableWithin, UsableSeen

LEMMA AtEnd ==
    ASSUME Typed, at > Len(tree),
           Limited => Cardinality(Seen) <= options.MaxFiles
    PROVE  /\ WithinLimit = Seen /\ UsableWithin = UsableSeen
           /\ WithinLimit = MetFiles
<1>1. /\ Len(tree) \in Nat /\ at \in Nat /\ options.MaxFiles \in Nat
      /\ MetFiles \in SUBSET (1..Len(tree)) /\ Cardinality(Seen) \in Nat
  BY Shape, FiniteSets, FS_CardinalityType DEF Typed
<1>2. \A j \in MetFiles : j < at  BY <1>1
<1>3. Seen = MetFiles  BY <1>2, Zenon DEF Seen
<1>4. \A j \in MetFiles : Limited => Place(MetFiles, j) <= options.MaxFiles
  BY <1>1, <1>2, PlaceBounds
<1>5. WithinLimit = MetFiles  BY <1>4, Zenon DEF WithinLimit
<1> QED  BY <1>3, <1>5 DEF UsableWithin, UsableSeen

(* The three kinds of effect a step has on what is counted: none, a file   *)
(* that is only counted, and a file that becomes a task.                   *)
LEMMA TasksSame ==
    ASSUME NEW U, TasksAre(U), tree' = tree, tasks' = tasks
    PROVE  TasksAre(U)'
BY DEF TasksAre, Place

LEMMA TasksNow ==
    ASSUME NEW U, U = UsableSeen', TasksAre(U)'
    PROVE  TasksAre(UsableSeen)'
BY DEF TasksAre, Place

LEMMA SeenGrows ==
    ASSUME Typed, at \in DOMAIN tree
    PROVE  /\ Cardinality(Seen \cup {at}) = Cardinality(Seen) + 1
           /\ Cardinality(Seen) \in Nat
<1>1. at \in Nat /\ at \notin Seen /\ IsFiniteSet(Seen)
  BY Shape, FiniteSets DEF Typed, Seen
<1> QED  BY <1>1, FS_AddElement, FS_CardinalityType

(* A step that counts no file.                                             *)
LEMMA NothingCounted ==
    ASSUME DiscoveryInv, Typed', walk = "walking", walk' = "walking",
           tree' = tree, options' = options, tasks' = tasks,
           OnlyWithinOpen', Seen' = Seen, UsableSeen' = UsableSeen,
           summary'.visited = summary.visited,
           summary'.truncated = summary.truncated
    PROVE  DiscoveryInv'
<1>1. TasksAre(UsableSeen)'
  <2>1. PICK U : U = UsableSeen  OBVIOUS
  <2>2. TasksAre(U)  BY <2>1 DEF DiscoveryInv, Progress
  <2>3. TasksAre(U)'  BY <2>2, TasksSame
  <2> QED  BY <2>1, <2>3, TasksNow
<1>2. Progress'
  BY <1>1, SameTree DEF DiscoveryInv, Progress
<1> QED  BY <1>2 DEF DiscoveryInv, DiscoveryExact

LEMMA DirectoryStep ==
    ASSUME DiscoveryInv,
           \/ SkipDirectory \/ UnlistableDirectory
           \/ ListDirectory \/ EnterDirectory
    PROVE  DiscoveryInv'
<1>1. Typed  BY DEF DiscoveryInv
<1>2. Typed'  BY <1>1, WalkTyped DEF Walk
<1>3. CASE SkipDirectory \/ UnlistableDirectory
  <2>1. /\ at \in DOMAIN tree /\ tree[at].dir
        /\ tree' = tree /\ options' = options
        /\ walk = "walking" /\ walk' = walk /\ at' = tree[at].last + 1
    BY <1>1, <1>3, SkipMoves
  <2>2. ~Open(at)
    BY <1>3 DEF SkipDirectory, UnlistableDirectory, Open, entry
  <2>3. /\ tasks' = tasks /\ summary'.visited = summary.visited
        /\ summary'.truncated = summary.truncated
    BY <1>1, <1>3, SummaryCounts
       DEF SkipDirectory, UnlistableDirectory, AddSkip, AddError, Typed
  <2>4. OnlyWithinOpen' /\ Seen' = Seen /\ UsableSeen' = UsableSeen
    BY <1>1, <2>1, <2>2, PastDirectory DEF DiscoveryInv, Progress
  <2> QED  BY <1>2, <2>1, <2>3, <2>4, NothingCounted
<1>4. CASE ListDirectory
  <2>1. /\ at \in DOMAIN tree /\ tree[at].dir /\ Open(at)
        /\ tree' = tree /\ options' = options
        /\ walk = "walking" /\ walk' = walk /\ at' = at + 1
    BY <1>1, <1>4, Shape
       DEF ListDirectory, Advance, MoveTo, Typed, Open, entry
  <2>2. tasks' = tasks /\ summary' = summary
    BY <1>4 DEF ListDirectory, found
  <2>3. OnlyWithinOpen' /\ Seen' = Seen /\ UsableSeen' = UsableSeen
    BY <1>1, <2>1, IntoDirectory DEF DiscoveryInv, Progress
  <2> QED  BY <1>2, <2>1, <2>2, <2>3, NothingCounted
<1>5. CASE EnterDirectory
  <2>1. /\ tree' = tree /\ options' = options /\ at' = at
        /\ walk = "walking" /\ walk' = walk
        /\ tasks' = tasks /\ summary' = summary
    BY <1>5 DEF EnterDirectory, Visiting, found
  <2>2. Seen' = Seen  BY <2>1, SameTree DEF Seen
  <2>3. UsableSeen' = UsableSeen  BY <2>1, <2>2 DEF UsableSeen, Rejected
  <2>4. OnlyWithinOpen'
    BY <2>1 DEF DiscoveryInv, Progress, OnlyWithinOpen, Inside, Open,
                DirectoryReason, NameReason
  <2> QED  BY <1>2, <2>1, <2>2, <2>3, <2>4, NothingCounted
<1> QED  BY <1>3, <1>4, <1>5

LEMMA FileStep ==
    ASSUME DiscoveryInv, SkipSymlink \/ StatFails \/ VisitFile \/ ExplicitFile
    PROVE  DiscoveryInv'
<1>1. Typed  BY DEF DiscoveryInv
<1>2. Typed'  BY <1>1, WalkTyped DEF Walk
<1>3. /\ at \in DOMAIN tree /\ ~tree[at].dir
      /\ tree' = tree /\ options' = options
      /\ walk = "walking" /\ walk' = walk /\ at' = at + 1
  BY <1>1, FileMoves
<1>4. Progress /\ OnlyWithinOpen  BY <1>3 DEF DiscoveryInv, Progress
<1>5. /\ at \in MetFiles /\ OnlyWithinOpen' /\ Seen' = Seen \cup {at}
      /\ Rejected(at) => UsableSeen' = UsableSeen
      /\ ~Rejected(at) => UsableSeen' = UsableSeen \cup {at}
  BY <1>1, <1>3, <1>4, PastFile
<1>6. /\ summary'.visited = summary.visited + 1
      /\ summary'.truncated = summary.truncated
  BY <1>1, SummaryCounts
     DEF SkipSymlink, StatFails, VisitFile, ExplicitFile, Measure, AddSkip,
         AddError, Typed
<1>7. \/ Rejected(at) /\ tasks' = tasks
      \/ ~Rejected(at) /\ tasks' = Append(tasks, tree[at].file)
  BY DEF SkipSymlink, StatFails, VisitFile, ExplicitFile, Measure, AddSkip,
         AddError, AtFile, Rejected, entry
<1>8. Limited => summary.visited + 1 <= options.MaxFiles
  <2>1. summary.visited \in Nat /\ options.MaxFiles \in Nat
    BY <1>1, Shape DEF Typed, SummaryType
  <2>2. CASE ExplicitFile
    BY <1>3, <2>2 DEF ExplicitFile, Limited
  <2>3. CASE ~LimitReached
    BY <2>1, <2>3 DEF LimitReached, Limited
  <2> QED  BY <2>2, <2>3 DEF SkipSymlink, StatFails, VisitFile
<1>9. TasksAre(UsableSeen)'
  <2>1. PICK U : U = UsableSeen  OBVIOUS
  <2>2. PICK x : x = at  OBVIOUS
  <2>3. /\ U \in SUBSET Nat /\ IsFiniteSet(U)
        /\ x \in Nat /\ \A u \in U : u < x
    BY <1>1, <2>1, <2>2, FiniteSets, Shape DEF Typed
  <2>4. TasksAre(U) /\ tasks \in Seq(File)
    BY <1>1, <1>3, <1>4, <2>1 DEF Progress, Typed
  <2>5. CASE Rejected(at) /\ tasks' = tasks
    <3>1. TasksAre(U)'  BY <1>3, <2>4, <2>5, TasksSame
    <3> QED  BY <1>5, <2>1, <2>5, <3>1, TasksNow
  <2>6. CASE ~Rejected(at) /\ tasks' = Append(tasks, tree[at].file)
    <3>1. TasksAre(U \cup {x})'
      BY <1>3, <2>2, <2>3, <2>4, <2>6, TaskAppended
    <3> QED  BY <1>5, <2>1, <2>2, <2>6, <3>1, TasksNow
  <2> QED  BY <1>7, <2>5, <2>6
<1>10. Progress'
  BY <1>1, <1>3, <1>4, <1>5, <1>6, <1>8, <1>9, SeenGrows, SameTree
     DEF Progress
<1> QED  BY <1>2, <1>3, <1>10 DEF DiscoveryInv, DiscoveryExact

(* The walk ends: what was seen is all that the limit allows.              *)
LEMMA WalkEnds ==
    ASSUME DiscoveryInv, StopAtLimit \/ EndOfWalk \/ RootFails \/ Interrupted
    PROVE  DiscoveryInv'
<1>1. Typed  BY DEF DiscoveryInv
<1>2. Typed'  BY <1>1, WalkTyped DEF Walk
<1>3. /\ walk = "walking" /\ tree' = tree /\ options' = options
      /\ tasks' = tasks
  BY DEF StopAtLimit, AtFile, Visiting, EndOfWalk, RootFails, Interrupted, found
<1>4. Progress  BY DEF DiscoveryInv
<1>5. ASSUME WithinLimit = Seen, UsableWithin = UsableSeen,
             summary'.visited = summary.visited,
             summary'.truncated <=> WithinLimit # MetFiles
      PROVE  DiscoveryExact'
  <2>1. PICK U : U = UsableWithin  OBVIOUS
  <2>2. TasksAre(U)'
    BY <1>3, <1>4, <1>5, <2>1, TasksSame DEF Progress
  <2>3. TasksAre(UsableWithin)'
    BY <1>3, <2>1, <2>2, SameTree DEF TasksAre, Place
  <2>4. summary'.visited = Cardinality(WithinLimit')
    BY <1>3, <1>4, <1>5, SameTree DEF Progress
  <2> QED  BY <1>3, <1>5, <2>3, <2>4, SameTree DEF DiscoveryExact
<1>6. CASE StopAtLimit
  <2>1. /\ at \in DOMAIN tree /\ ~tree[at].dir /\ at # 1
    BY <1>1, <1>6, Shape DEF StopAtLimit, AtFile, Visiting, Typed, entry
  <2>2. at \in MetFiles
    BY <1>3, <1>4, <2>1 DEF Progress, OnlyWithinOpen, MetFiles, Met
  <2>3. Limited
    <3>1. tree[1].dir  BY <1>1, <2>1, Shape
    <3> QED  BY <1>6, <3>1 DEF StopAtLimit, LimitReached, Limited
  <2>4. Cardinality(Seen) = options.MaxFiles
    <3>1. summary.visited \in Nat /\ options.MaxFiles \in Nat
      BY <1>1, Shape DEF Typed, SummaryType
    <3> QED  BY <1>3, <1>4, <1>6, <2>3, <3>1
             DEF StopAtLimit, LimitReached, Progress
  <2>5. summary'.visited = summary.visited /\ summary'.truncated = TRUE
    BY <1>1, <1>6, SummaryCounts DEF StopAtLimit, Typed
  <2>6. DiscoveryExact'  BY <1>1, <1>5, <2>2, <2>3, <2>4, <2>5, AtLimit
  <2> QED  BY <1>2, <1>6, <2>6 DEF StopAtLimit, DiscoveryInv, Progress
<1>7. CASE EndOfWalk
  <2>1. at > Len(tree) /\ summary' = summary /\ walk' = "done"
    BY <1>7 DEF EndOfWalk, found
  <2>2. summary.truncated = FALSE
        /\ (Limited => Cardinality(Seen) <= options.MaxFiles)
    BY <1>3, <1>4 DEF Progress
  <2>3. DiscoveryExact'  BY <1>1, <1>5, <2>1, <2>2, AtEnd
  <2> QED  BY <1>2, <2>1, <2>3 DEF DiscoveryInv, Progress
<1>8. CASE RootFails \/ Interrupted
  BY <1>2, <1>8 DEF RootFails, Interrupted, DiscoveryInv, Progress, DiscoveryExact
<1> QED  BY <1>6, <1>7, <1>8

LEMMA DiscoveryInit ==
    ASSUME RInit
    PROVE  DiscoveryInv
<1>1. /\ at = 1 /\ walk = "walking" /\ summary = EmptySummary
      /\ tasks = <<>>
  BY DEF RInit, WInit
<1>2. Typed  BY FateInit DEF FateInv
<1>3. Seen = {} /\ UsableSeen = {}
  BY <1>1, <1>2, FiniteSets DEF Seen, UsableSeen
<1>4. Cardinality({}) = 0  BY FS_EmptySet
<1>5. OnlyWithinOpen  BY <1>1, <1>2, Shape DEF OnlyWithinOpen, Inside
<1>6. TasksAre(UsableSeen)  BY <1>1, <1>3, <1>4 DEF TasksAre
<1>7. options.MaxFiles \in Nat  BY <1>2, Shape
<1>8. Progress
  BY <1>1, <1>3, <1>4, <1>5, <1>6, <1>7 DEF Progress, EmptySummary, Limited
<1> QED  BY <1>1, <1>2, <1>8 DEF DiscoveryInv, DiscoveryExact

(* No step of the whole scan disturbs it.                                  *)
LEMMA DiscoveryStep == DiscoveryInv /\ [RNext]_rvars => DiscoveryInv'
<1> SUFFICES ASSUME DiscoveryInv, [RNext]_rvars PROVE DiscoveryInv'
  OBVIOUS
<1>1. CASE Walk
  BY <1>1, DirectoryStep, FileStep, WalkEnds DEF Walk
<1>2. CASE UNCHANGED walkVars
  <2>1. /\ tree' = tree /\ options' = options /\ at' = at
        /\ listing' = listing /\ summary' = summary /\ tasks' = tasks
        /\ errors' = errors /\ skipped' = skipped /\ walk' = walk
    BY <1>2 DEF walkVars
  <2>2. Typed'  BY <2>1 DEF DiscoveryInv, Typed
  <2>3. PICK U : U = UsableWithin  OBVIOUS
  <2>4. walk = "done" => TasksAre(U)'
    BY <2>1, <2>3, TasksSame DEF DiscoveryInv, DiscoveryExact
  <2>5. walk = "done" => TasksAre(UsableWithin)'
    BY <2>1, <2>3, <2>4, SameTree DEF TasksAre, Place
  <2>6. DiscoveryExact'
    BY <2>1, <2>5, SameTree DEF DiscoveryInv, DiscoveryExact
  <2>7. CASE walk = "walking"
    <3>1. Seen' = Seen  BY <2>1, SameTree DEF Seen
    <3>2. UsableSeen' = UsableSeen
      BY <2>1, <3>1 DEF UsableSeen, Rejected
    <3>3. OnlyWithinOpen'
      BY <2>1, <2>7 DEF DiscoveryInv, Progress, OnlyWithinOpen, Inside,
         Open, DirectoryReason, NameReason
    <3> QED  BY <2>1, <2>2, <2>7, <3>1, <3>2, <3>3, NothingCounted
  <2> QED  BY <2>1, <2>2, <2>6, <2>7 DEF DiscoveryInv, Progress
<1> QED  BY <1>1, <1>2, OnlyWalk

(* The tasks are exactly the usable files of the walk, in its order, up to *)
(* the limit, for any repository, options and moment of a cancellation.    *)
THEOREM Discovered == RSpec => []DiscoveryExact
<1>1. DiscoveryInv => DiscoveryExact  BY DEF DiscoveryInv
<1> QED  BY DiscoveryInit, DiscoveryStep, <1>1, PTL DEF RSpec
-----------------------------------------------------------------------------
(* What the pipeline takes for granted of a discovery (IsDiscovery) is     *)
(* true of what the walk has found at any time.  Its counts of what is     *)
(* scanned stay zero, and a file that becomes a task has a path no task    *)
(* before it has, as tasks are of entries before the one the walk is at.   *)
BareSummary ==
    [visited : Nat, scanned : {0}, bytes : {0}, detected : {0},
     identified : [Identifications -> {0}], clued : {0}, directories : Nat,
     binary : {0}, size : Nat, other : Nat, errors : {0}, truncated : BOOLEAN]

DistinctTasks ==
    \A t, u \in DOMAIN tasks : tasks[t].path = tasks[u].path => t = u

FoundInv ==
    /\ FateInv /\ DistinctTasks
    /\ summary \in BareSummary /\ declared \in Seq(Nat)
    /\ IsDiscovery(discovery)

LEMMA BareCounts ==
    ASSUME summary \in BareSummary
    PROVE  /\ [summary EXCEPT !.directories = @ + 1] \in BareSummary
           /\ [summary EXCEPT !.truncated = TRUE] \in BareSummary
           /\ Visited \in BareSummary
           /\ [Visited EXCEPT !.other = @ + 1] \in BareSummary
           /\ [Visited EXCEPT !.size = @ + 1] \in BareSummary
<1>1. Visited \in BareSummary  BY DEF BareSummary, Visited
<1>2. [summary EXCEPT !.truncated = TRUE] \in BareSummary
  BY Zenon DEF BareSummary
<1>3. [summary EXCEPT !.directories = @ + 1] \in BareSummary
  BY DEF BareSummary
<1>4. /\ [Visited EXCEPT !.other = @ + 1] \in BareSummary
      /\ [Visited EXCEPT !.size = @ + 1] \in BareSummary
  BY <1>1 DEF BareSummary
<1> QED  BY <1>1, <1>2, <1>3, <1>4

(* What a step of the walk can add.                                        *)
LEMMA WalkAdds ==
    ASSUME Typed, Walk, summary \in BareSummary, declared \in Seq(Nat)
    PROVE  /\ summary' \in BareSummary /\ declared' \in Seq(Nat)
           /\ \/ tasks' = tasks
              \/ at \in DOMAIN tree /\ tasks' = Append(tasks, entry.file)
<1>1. CASE \/ SkipDirectory \/ EnterDirectory \/ ListDirectory
           \/ UnlistableDirectory \/ StopAtLimit \/ EndOfWalk \/ RootFails \/ Interrupted
  BY <1>1, BareCounts
     DEF SkipDirectory, EnterDirectory, ListDirectory, UnlistableDirectory,
         StopAtLimit, EndOfWalk, RootFails, Interrupted, AddSkip, AddError, found
<1>2. CASE SkipSymlink \/ StatFails \/ VisitFile \/ ExplicitFile
  <2>1. at \in DOMAIN tree  BY <1>2, FileMoves
  <2>2. entry.path \in Nat  BY <2>1, Shape DEF entry, Entry
  <2>3. Append(declared, entry.path) \in Seq(Nat)
    <3>1. PICK p : p = entry.path  OBVIOUS
    <3>2. Append(declared, p) \in Seq(Nat)  BY <2>2, <3>1
    <3> QED  BY <3>1, <3>2
  <2>4. CASE SkipSymlink \/ StatFails
    BY <2>4, BareCounts DEF SkipSymlink, StatFails, AddSkip, AddError
  <2>5. CASE Measure
    BY <2>1, <2>3, <2>5, BareCounts DEF Measure, AddSkip
  <2> QED  BY <1>2, <2>4, <2>5 DEF VisitFile, ExplicitFile
<1> QED  BY <1>1, <1>2 DEF Walk

LEMMA StaysDistinct ==
    ASSUME FateInv, DistinctTasks, at \in DOMAIN tree,
           tasks' = Append(tasks, entry.file)
    PROVE  DistinctTasks'
<1> DEFINE n == Len(tasks)
<1>1. /\ n \in Nat /\ DOMAIN tasks = 1..n /\ DOMAIN tasks' = 1..n + 1
      /\ \A i \in 1..n : tasks'[i] = tasks[i]
      /\ tasks'[n + 1] = entry.file
  BY DEF FateInv, Typed
<1>2. tasks'[n + 1].path = entry.path
  BY <1>1, Shape DEF entry, FateInv
<1> HIDE DEF n
<1>3. \A i \in 1..n : tasks[i].path # entry.path
  BY <1>1, Fresh DEF FateInv, FatesReached
<1> QED  BY <1>1, <1>2, <1>3 DEF DistinctTasks

(* What the walk has found is a discovery.                                 *)
LEMMA FoundLawful ==
    ASSUME FoundInv
    PROVE  IsDiscovery(Discovery)
<1>1. /\ Discovery.summary \in BareSummary
      /\ Discovery.tasks = tasks
      /\ Discovery \in [summary : BareSummary, tasks : Seq(File),
                        declared : Seq(Nat), errors : Seq(Record),
                        skipped : Seq(Record)]
  BY Zenon DEF FoundInv, FateInv, Typed, Discovery
<1>2. DistinctTasks  BY DEF FoundInv
<1> QED  BY <1>1, <1>2, Zenon DEF IsDiscovery, BareSummary, DistinctTasks

LEMMA FoundInit ==
    ASSUME RInit
    PROVE  FoundInv
<1>1. /\ summary = EmptySummary /\ tasks = <<>> /\ declared = <<>>
      /\ discovery = NoDiscovery
  BY DEF RInit, WInit
<1>2. EmptySummary \in BareSummary
  BY DEF EmptySummary, BareSummary, Identifications
<1>3. <<>> \in Seq(Nat) /\ <<>> \in Seq(File) /\ <<>> \in Seq(Record)
      /\ DOMAIN <<>> = {}
  OBVIOUS
<1>4. /\ NoDiscovery.tasks = <<>>
      /\ NoDiscovery \in [summary : BareSummary, tasks : Seq(File),
                          declared : Seq(Nat), errors : Seq(Record),
                          skipped : Seq(Record)]
  BY <1>2, <1>3, Zenon DEF NoDiscovery
<1>5. IsDiscovery(NoDiscovery)
  BY <1>3, <1>4, Zenon DEF IsDiscovery, BareSummary
<1>6. DistinctTasks  BY <1>1, <1>3 DEF DistinctTasks
<1> QED  BY <1>1, <1>2, <1>3, <1>5, <1>6, FateInit DEF FoundInv

(* No step of the whole scan disturbs it.                                  *)
LEMMA FoundStep == FoundInv /\ [RNext]_rvars => FoundInv'
<1> SUFFICES ASSUME FoundInv, [RNext]_rvars PROVE FoundInv'
  OBVIOUS
<1>1. FateInv /\ Typed  BY DEF FoundInv, FateInv
<1>2. IsDiscovery(discovery)'
  <2>1. discovery' = discovery \/ discovery' = Discovery
    BY DEF RNext, Discover, DiscoveryFails, StartScan, Scan, RCancel,
           ROver, rvars, pipeVars, Worker, Take, Exhausted, Read,
           Match, Deliver, Abandon, Close, Finish, Return
  <2>2. IsDiscovery(discovery) /\ IsDiscovery(Discovery)
    BY FoundLawful DEF FoundInv
  <2> QED  BY <2>1, <2>2, Zenon
<1>3. CASE Walk
  <2>1. FateInv'  BY <1>1, <1>3, FateStep
  <2>2. /\ summary' \in BareSummary /\ declared' \in Seq(Nat)
        /\ \/ tasks' = tasks
           \/ at \in DOMAIN tree /\ tasks' = Append(tasks, entry.file)
    BY <1>1, <1>3, WalkAdds DEF FoundInv
  <2>3. DistinctTasks'
    BY <1>1, <2>2, StaysDistinct DEF FoundInv, DistinctTasks
  <2> QED  BY <1>2, <2>1, <2>2, <2>3 DEF FoundInv
<1>4. CASE UNCHANGED walkVars
  <2>1. FateInv'
    BY <1>1, <1>4
       DEF walkVars, FateInv, Typed, FatesReached, PathsBefore, OneFate
  <2> QED  BY <1>2, <1>4, <2>1 DEF walkVars, FoundInv, DistinctTasks
<1> QED  BY <1>3, <1>4, OnlyWalk

(* The discovery a scan starts from is one the theorems about the pipeline *)
(* speak of, for any repository and options: PipelineAssumption asks       *)
(* nothing of discoverFiles that it does not do.                           *)
THEOREM DiscoveryLawful == RSpec => []IsDiscovery(discovery)
<1>1. FoundInv => IsDiscovery(discovery)  BY DEF FoundInv
<1> QED  BY FoundInit, FoundStep, <1>1, PTL DEF RSpec
-----------------------------------------------------------------------------
(* The walk and the pool are one program: until the walk is done nothing   *)
(* of the pool exists, and from then on the pool works on what the walk    *)
(* left, under the pool's own invariant.                                   *)
EndInv ==
    /\ FoundInv /\ ctxDone \in BOOLEAN
    /\ \/ main = "discover"
       \/ main = "canceled" /\ walk = "failed"
       \/ walk = "done" /\ discovery = Discovery /\ IInv

LEMMA EndInit == RInit => EndInv
<1>1. RInit => FoundInv  BY FoundInit
<1> QED  BY <1>1 DEF RInit, WInit, EndInv

LEMMA ContextKept ==
    ASSUME Walk
    PROVE  ctxDone' = ctxDone
BY DEF Walk, SkipDirectory, EnterDirectory, ListDirectory,
       UnlistableDirectory, StopAtLimit, SkipSymlink, StatFails, VisitFile,
       ExplicitFile, EndOfWalk, RootFails, Interrupted, SkipDir, Advance, MoveTo

(* The pool starts as ScanPipeline says it does.                           *)
LEMMA StartsPool ==
    ASSUME EndInv, StartScan
    PROVE  Started'
<1>1. IsDiscovery(Discovery)  BY FoundLawful DEF EndInv
<1>2. discovery' = Discovery /\ ctxDone' = ctxDone  BY DEF StartScan
<1>3. IsDiscovery(discovery)'  BY <1>1, <1>2, Zenon
<1>4. Discovery.tasks = tasks  BY DEF Discovery
<1>5. discovery'.tasks = tasks  BY <1>2, <1>4
<1>6. StartOn(discovery)'  BY <1>5 DEF StartScan, StartOn, WorkerCount
<1> QED  BY <1>2, <1>3, <1>6 DEF Started, EndInv

LEMMA PoolFrom == Started' => IInv'
BY StartIInv, PTL

LEMMA EndStep == EndInv /\ [RNext]_rvars => EndInv'
<1> SUFFICES ASSUME EndInv, [RNext]_rvars PROVE EndInv'
  OBVIOUS
<1>1. FoundInv'  BY FoundStep DEF EndInv
<1>2. CASE Discover
  <2>1. main' = main /\ main = "discover"  BY <1>2 DEF Discover, pipeVars
  <2>2. ctxDone' = ctxDone  BY <1>2, ContextKept DEF Discover
  <2> QED  BY <1>1, <2>1, <2>2 DEF EndInv
<1>3. CASE DiscoveryFails
  BY <1>1, <1>3 DEF DiscoveryFails, walkVars, EndInv
<1>4. CASE StartScan
  <2>1. IInv'  BY <1>4, StartsPool, PoolFrom
  <2>2. /\ walk' = "done" /\ ctxDone' = ctxDone
        /\ discovery' = Discovery /\ Discovery' = Discovery
    BY <1>4 DEF StartScan, walkVars, Discovery
  <2> QED  BY <1>1, <2>1, <2>2 DEF EndInv
<1>5. ASSUME UNCHANGED walkVars, [Next]_vars, main # "discover",
             main = "canceled" => UNCHANGED main
      PROVE  EndInv'
  <2>1. walk' = walk /\ Discovery' = Discovery
    BY <1>5 DEF walkVars, Discovery
  <2>2. ctxDone' \in BOOLEAN /\ discovery' = discovery
    BY <1>5 DEF Next, vars, Worker, Take, Exhausted, Read, Match, Deliver,
       Abandon, Close, Finish, Return, Cancel, Terminated, EndInv
  <2>3. IInv => IInv'  BY <1>5, NextIInv
  <2> QED  BY <1>1, <1>5, <2>1, <2>2, <2>3 DEF EndInv
<1>6. CASE Scan
  <2>1. Next  BY <1>6 DEF Scan, Next
  <2> QED  BY <1>5, <1>6, <2>1 DEF Scan
<1>7. CASE RCancel
  <2>1. Cancel /\ UNCHANGED walkVars /\ main' = main
    BY <1>7 DEF RCancel, Cancel, pipeVars
  <2>2. CASE main = "discover"
    BY <1>1, <2>1, <2>2 DEF EndInv, Cancel
  <2> QED  BY <1>5, <2>1, <2>2 DEF Next
<1>8. CASE ROver \/ UNCHANGED rvars
  <2>1. UNCHANGED walkVars /\ UNCHANGED vars /\ main' = main
        /\ ctxDone' = ctxDone
    BY <1>8 DEF ROver, rvars, pipeVars, vars
  <2>2. CASE main = "discover"  BY <1>1, <2>1, <2>2 DEF EndInv
  <2> QED  BY <1>5, <2>1, <2>2
<1> QED  BY <1>2, <1>3, <1>4, <1>6, <1>7, <1>8 DEF RNext

(* What a whole scan returns is, for any repository, options, number of    *)
(* workers and schedule, the report of exactly what its walk discovered.   *)
ReportsDiscovery ==
    main = "returned" => walk = "done" /\ report = ExpectedReport(Discovery)

LEMMA EndReport == EndInv => ReportsDiscovery
<1> SUFFICES ASSUME EndInv, main = "returned"
             PROVE  walk = "done" /\ report = ExpectedReport(Discovery)
  BY DEF ReportsDiscovery
<1>1. walk = "done" /\ discovery = Discovery /\ IInv
  BY DEF EndInv
<1>2. ReportOf(discovery, received) = ExpectedReport(discovery)
  BY <1>1, ReturnedReport DEF ReturnsExpected
<1> QED  BY <1>1, <1>2 DEF report

THEOREM EndToEnd == RSpec => []ReportsDiscovery
BY EndInit, EndStep, EndReport, PTL DEF RSpec
-----------------------------------------------------------------------------
(* The counters of the walk add up at every step of it: a file that was    *)
(* visited is a task, or was skipped for its size or for another reason,   *)
(* or has the error that its information could not be had.                 *)
Unread == Nat \X {"info", "unreadable"}

CountInv ==
    /\ Typed
    /\ summary.visited = Len(tasks) + summary.size + summary.other
                             + Holding(errors, Unread)
    /\ summary.directories + summary.size + summary.other = Len(skipped)

(* By how much a step raises the counters visited, directories, size and   *)
(* other, and the lengths of the lists.                                    *)
Counted(u, v, d, z, o) ==
    /\ u.visited = summary.visited + v
    /\ u.directories = summary.directories + d
    /\ u.size = summary.size + z
    /\ u.other = summary.other + o

Listing(t, e, k) ==
    /\ Len(tasks') = Len(tasks) + t
    /\ Holding(errors', Unread) = Holding(errors, Unread) + e
    /\ Len(skipped') = Len(skipped) + k

LEMMA Counters ==
    ASSUME summary \in SummaryType
    PROVE  /\ Counted([summary EXCEPT !.directories = @ + 1], 0, 1, 0, 0)
           /\ Counted([summary EXCEPT !.truncated = TRUE], 0, 0, 0, 0)
           /\ Counted(summary, 0, 0, 0, 0)
           /\ Counted(Visited, 1, 0, 0, 0)
           /\ Counted([Visited EXCEPT !.other = @ + 1], 1, 0, 0, 1)
           /\ Counted([Visited EXCEPT !.size = @ + 1], 1, 0, 1, 0)
<1>1. Counted([summary EXCEPT !.directories = @ + 1], 0, 1, 0, 0)
  BY DEF SummaryType, Counted
<1>2. Counted([summary EXCEPT !.truncated = TRUE], 0, 0, 0, 0)
  BY DEF SummaryType, Counted
<1>3. Counted(summary, 0, 0, 0, 0) /\ Counted(Visited, 1, 0, 0, 0)
  BY DEF SummaryType, Counted, Visited
<1>4. Counted([Visited EXCEPT !.other = @ + 1], 1, 0, 0, 1)
  BY DEF SummaryType, Counted, Visited
<1>5. Counted([Visited EXCEPT !.size = @ + 1], 1, 0, 1, 0)
  BY DEF SummaryType, Counted, Visited
<1> QED  BY <1>1, <1>2, <1>3, <1>4, <1>5

(* What one more record makes of the lists that are counted.               *)
LEMMA ErrorAdded ==
    ASSUME Typed, at \in DOMAIN tree, NEW text \in Texts,
           errors' = Append(errors, <<entry.path, text>>)
    PROVE  Holding(errors', Unread)
             = Holding(errors, Unread)
                 + (IF text \in {"info", "unreadable"} THEN 1 ELSE 0)
<1>1. PICK r : r = <<entry.path, text>>  OBVIOUS
<1>2. entry.path \in Nat  BY Shape DEF entry, Entry
<1>3. r \in Record  BY <1>1, <1>2 DEF Record
<1>4. r \in Unread <=> text \in {"info", "unreadable"}
  BY <1>1, <1>2 DEF Unread
<1>5. errors \in Seq(Record)  BY DEF Typed
<1>6. Holding(Append(errors, r), Unread)
        = Holding(errors, Unread) + (IF r \in Unread THEN 1 ELSE 0)
  BY <1>3, <1>5, HoldingAppended
<1> QED  BY <1>1, <1>4, <1>6

LEMMA SkipAdded ==
    ASSUME Typed, at \in DOMAIN tree, NEW text \in Texts,
           skipped' = Append(skipped, <<entry.path, text>>)
    PROVE  Len(skipped') = Len(skipped) + 1
<1>1. PICK r : r = <<entry.path, text>>  OBVIOUS
<1>2. skipped \in Seq(Record) /\ skipped' = Append(skipped, r)
  BY <1>1 DEF Typed
<1> QED  BY <1>2

LEMMA Lengths ==
    ASSUME Typed
    PROVE  /\ Len(tasks) \in Nat /\ Len(skipped) \in Nat /\ Len(errors) \in Nat
           /\ Holding(errors, Unread) \in Nat
<1>1. errors \in Seq(Record) /\ tasks \in Seq(File) /\ skipped \in Seq(Record)
  BY DEF Typed
<1>2. Holding(errors, Unread) \in Nat  BY <1>1, HoldingOK
<1>3. Len(tasks) \in Nat /\ Len(skipped) \in Nat /\ Len(errors) \in Nat
  BY <1>1
<1> QED  BY <1>2, <1>3

(* A step that raises both sides alike.                                    *)
LEMMA StillCounts ==
    ASSUME CountInv, Typed', NEW v \in Nat, NEW d \in Nat, NEW z \in Nat,
           NEW o \in Nat, NEW t \in Nat, NEW e \in Nat, NEW k \in Nat,
           NEW u, u = summary', Counted(u, v, d, z, o), Listing(t, e, k),
           v = t + z + o + e, k = d + z + o
    PROVE  CountInv'
<1>1. /\ Len(tasks) \in Nat /\ Len(skipped) \in Nat
      /\ Holding(errors, Unread) \in Nat
  BY Lengths DEF CountInv
<1>2. /\ summary.visited \in Nat /\ summary.directories \in Nat
      /\ summary.size \in Nat /\ summary.other \in Nat
  BY DEF CountInv, Typed, SummaryType
<1>3. /\ summary'.visited = summary.visited + v
      /\ summary'.directories = summary.directories + d
      /\ summary'.size = summary.size + z
      /\ summary'.other = summary.other + o
  BY DEF Counted
<1>4. PICK a \in Nat, b \in Nat, c \in Nat, g \in Nat :
          /\ summary.visited = a /\ summary.directories = b
          /\ summary.size = c /\ summary.other = g
  BY <1>2
<1>5. PICK n \in Nat, m \in Nat, h \in Nat :
          /\ Len(tasks) = n /\ Len(skipped) = m
          /\ Holding(errors, Unread) = h
  BY <1>1
<1>6. a = n + c + g + h /\ b + c + g = m
  BY <1>4, <1>5 DEF CountInv
<1>7. /\ summary'.visited = a + v /\ summary'.directories = b + d
      /\ summary'.size = c + z /\ summary'.other = g + o
  BY <1>3, <1>4
<1>8. /\ Len(tasks') = n + t /\ Len(skipped') = m + k
      /\ Holding(errors', Unread) = h + e
  BY <1>5 DEF Listing
<1>9. /\ a + v = (n + t) + (c + z) + (g + o) + (h + e)
      /\ (b + d) + (c + z) + (g + o) = m + k
  BY <1>6
<1> QED  BY <1>7, <1>8, <1>9 DEF CountInv

LEMMA CountStep ==
    ASSUME CountInv, Walk
    PROVE  CountInv'
<1>1. Typed /\ Typed' /\ summary \in SummaryType
  BY WalkTyped DEF CountInv, Typed
<1>l. /\ Len(tasks) \in Nat /\ Len(skipped) \in Nat
      /\ Holding(errors, Unread) \in Nat
  BY <1>1, Lengths
<1>2. CASE EnterDirectory \/ ListDirectory \/ EndOfWalk \/ RootFails \/ Interrupted
  BY <1>1, <1>2
     DEF EnterDirectory, ListDirectory, EndOfWalk, RootFails, Interrupted, found, CountInv
<1>3. CASE StopAtLimit
  <2>1. PICK u : u = summary'  OBVIOUS
  <2>2. Counted(u, 0, 0, 0, 0)  BY <1>1, <1>3, <2>1, Counters DEF StopAtLimit
  <2>3. Listing(0, 0, 0)  BY <1>3, <1>l DEF StopAtLimit, Listing
  <2> QED  BY <1>1, <2>1, <2>2, <2>3, StillCounts
<1>4. CASE SkipDirectory
  <2>1. PICK u : u = summary'  OBVIOUS
  <2>2. /\ skipped' = Append(skipped, <<entry.path, DirectoryReason(entry, options)>>)
        /\ u = [summary EXCEPT !.directories = @ + 1]
        /\ tasks' = tasks /\ errors' = errors
    BY <1>4, <2>1 DEF SkipDirectory, AddSkip
  <2>3. Len(skipped') = Len(skipped) + 1
    BY <1>1, <1>4, <2>2, SkipMoves, Noted, SkipAdded
  <2>4. Counted(u, 0, 1, 0, 0)  BY <1>1, <2>2, Counters
  <2>5. Listing(0, 0, 1)  BY <1>l, <2>2, <2>3 DEF Listing
  <2> QED  BY <1>1, <2>1, <2>4, <2>5, StillCounts
<1>5. CASE UnlistableDirectory
  <2>1. PICK u : u = summary'  OBVIOUS
  <2>2. /\ errors' = Append(errors, <<entry.path, "walk">>)
        /\ u = summary /\ tasks' = tasks /\ skipped' = skipped
    BY <1>5, <2>1 DEF UnlistableDirectory, AddError
  <2>3. Holding(errors', Unread) = Holding(errors, Unread) + 0
    BY <1>1, <1>5, <2>2, SkipMoves, Noted, ErrorAdded
  <2>4. Counted(u, 0, 0, 0, 0)  BY <1>1, <2>2, Counters
  <2>5. Listing(0, 0, 0)  BY <1>l, <2>2, <2>3 DEF Listing
  <2> QED  BY <1>1, <2>1, <2>4, <2>5, StillCounts
<1>6. CASE SkipSymlink \/ StatFails \/ VisitFile \/ ExplicitFile
  <2>1. at \in DOMAIN tree  BY <1>1, <1>6, FileMoves
  <2>u. PICK u : u = summary'  OBVIOUS
  <2>2. ASSUME NEW text \in {"symlink", "non-regular"},
               AddSkip(text, [Visited EXCEPT !.other = @ + 1])
        PROVE  CountInv'
    <3>1. Len(skipped') = Len(skipped) + 1
      BY <1>1, <2>1, <2>2, Noted, SkipAdded DEF AddSkip
    <3>2. Counted(u, 1, 0, 0, 1)
      BY <1>1, <2>u, <2>2, Counters DEF AddSkip
    <3>3. Listing(0, 0, 1)  BY <1>l, <2>2, <3>1 DEF Listing, AddSkip
    <3> QED  BY <1>1, <2>u, <3>2, <3>3, StillCounts
  <2>3. CASE AddSkip("size", [Visited EXCEPT !.size = @ + 1])
    <3>1. Len(skipped') = Len(skipped) + 1
      BY <1>1, <2>1, <2>3, Noted, SkipAdded DEF AddSkip
    <3>2. Counted(u, 1, 0, 1, 0)
      BY <1>1, <2>u, <2>3, Counters DEF AddSkip
    <3>3. Listing(0, 0, 1)  BY <1>l, <2>3, <3>1 DEF Listing, AddSkip
    <3> QED  BY <1>1, <2>u, <3>2, <3>3, StillCounts
  <2>4. CASE StatFails
    <3>1. /\ errors' = Append(errors, <<entry.path, "info">>)
          /\ u = Visited /\ tasks' = tasks /\ skipped' = skipped
      BY <2>u, <2>4 DEF StatFails, AddError
    <3>2. Holding(errors', Unread) = Holding(errors, Unread) + 1
      BY <1>1, <2>1, <3>1, Noted, ErrorAdded
    <3>3. Counted(u, 1, 0, 0, 0)  BY <1>1, <3>1, Counters
    <3>4. Listing(0, 1, 0)  BY <1>l, <3>1, <3>2 DEF Listing
    <3> QED  BY <1>1, <2>u, <3>3, <3>4, StillCounts
  <2>5. ASSUME summary' = Visited, tasks' = Append(tasks, entry.file),
               errors' = IF entry.manifest = "fails"
                         THEN Append(errors, <<entry.path, "manifest">>)
                         ELSE errors,
               skipped' = skipped
        PROVE  CountInv'
    <3>1. Holding(errors', Unread) = Holding(errors, Unread) + 0
      <4>1. CASE entry.manifest = "fails"
        <5>1. errors' = Append(errors, <<entry.path, "manifest">>)
          BY <2>5, <4>1
        <5> QED  BY <1>1, <2>1, <5>1, Noted, ErrorAdded
      <4>2. CASE entry.manifest # "fails"  BY <1>l, <2>5, <4>2
      <4> QED  BY <4>1, <4>2
    <3>2. Len(tasks') = Len(tasks) + 1
      <4>1. PICK f : f = entry.file  OBVIOUS
      <4>2. tasks \in Seq(File) /\ tasks' = Append(tasks, f)
        BY <1>1, <2>5, <4>1 DEF Typed
      <4> QED  BY <4>2
    <3>3. Counted(u, 1, 0, 0, 0)  BY <1>1, <2>u, <2>5, Counters
    <3>4. Listing(1, 0, 0)  BY <1>l, <2>5, <3>1, <3>2 DEF Listing
    <3> QED  BY <1>1, <2>u, <3>3, <3>4, StillCounts
  <2>6. CASE Measure  BY <2>2, <2>3, <2>5, <2>6 DEF Measure
  <2>7. CASE SkipSymlink  BY <2>2, <2>7 DEF SkipSymlink
  <2> QED  BY <1>6, <2>4, <2>6, <2>7 DEF VisitFile, ExplicitFile
<1> QED  BY <1>2, <1>3, <1>4, <1>5, <1>6 DEF Walk

LEMMA CountsKept == CountInv /\ [RNext]_rvars => CountInv'
<1> SUFFICES ASSUME CountInv, [RNext]_rvars PROVE CountInv'
  OBVIOUS
<1>1. CASE Walk  BY <1>1, CountStep
<1>2. CASE UNCHANGED walkVars
  BY <1>2 DEF walkVars, CountInv, Typed
<1> QED  BY <1>1, <1>2, OnlyWalk

LEMMA CountInit == RInit => CountInv
<1> SUFFICES ASSUME RInit PROVE CountInv
  OBVIOUS
<1>1. Typed  BY FateInit DEF FateInv
<1>2. /\ summary = EmptySummary /\ tasks = <<>> /\ errors = <<>>
      /\ skipped = <<>>
  BY DEF RInit, WInit
<1>3. Holding(errors, Unread) = 0
  <2>1. errors \in Seq(Record) /\ DOMAIN errors = {}  BY <1>1, <1>2 DEF Typed
  <2> QED  BY <2>1, HoldingOK
<1> QED  BY <1>1, <1>2, <1>3 DEF CountInv, EmptySummary

-----------------------------------------------------------------------------
(* What a report counts, of any discovery.  A task is read in one of four  *)
(* ways, and as no two have the same path each leaves a record of its own. *)
LEMMA RecordsCount ==
    ASSUME NEW d, IsDiscovery(d), NEW T \in SUBSET DOMAIN d.tasks,
           NEW x \in Texts
    PROVE  /\ IsFiniteSet(T) /\ IsFiniteSet(Records(d, T, x))
           /\ Cardinality(Records(d, T, x)) = Cardinality(T)
           /\ Records(d, T, x) \in SUBSET (Nat \X {x})
           /\ Records(d, T, x) \in SUBSET Record
<1> DEFINE R == Records(d, T, x)
           f == [t \in T |-> <<d.tasks[t].path, x>>]
<1>1. IsFiniteSet(T)  BY TasksOK, FS_Subset
<1>2. \A t \in T : d.tasks[t].path \in Nat
  <2>1. \A g \in File : g.path \in Nat  BY DEF File
  <2> QED  BY <2>1, TasksOK
<1>3. \A t, u \in T : d.tasks[t].path = d.tasks[u].path => t = u
  BY DEF IsDiscovery
<1>4. f \in Bijection(T, R)
  BY <1>3 DEF Records, Bijection, Injection, Surjection, IsInjective
<1>5. IsFiniteSet(R) /\ Cardinality(R) = Cardinality(T)
  BY <1>1, <1>4, FS_Bijection DEF ExistsBijection
<1>6. R \in SUBSET (Nat \X {x})  BY <1>2 DEF Records
<1>7. R \in SUBSET Record  BY <1>6 DEF Record
<1> QED  BY <1>1, <1>5, <1>6, <1>7

LEMMA Apart ==
    ASSUME NEW X, NEW Y, IsFiniteSet(X), IsFiniteSet(Y), X \cap Y = {}
    PROVE  /\ IsFiniteSet(X \cup Y)
           /\ Cardinality(X) \in Nat /\ Cardinality(Y) \in Nat
           /\ Cardinality(X \cup Y) = Cardinality(X) + Cardinality(Y)
<1>1. Cardinality(X) \in Nat /\ Cardinality(Y) \in Nat
  BY FS_CardinalityType
<1>2. Cardinality(X \cap Y) = 0  BY FS_EmptySet
<1>3. /\ IsFiniteSet(X \cup Y)
      /\ Cardinality(X \cup Y)
           = Cardinality(X) + Cardinality(Y) - Cardinality(X \cap Y)
  BY FS_Union
<1> QED  BY <1>1, <1>2, <1>3

LEMMA ReadingsPart ==
    ASSUME NEW d, IsDiscovery(d), NEW S, S = DOMAIN d.tasks
    PROVE  /\ \A x \in ReadResults : /\ Reading(d, S, x) \in SUBSET S
                                     /\ Cardinality(Reading(d, S, x)) \in Nat
           /\ Len(d.tasks) = Cardinality(Reading(d, S, "text"))
                               + Cardinality(Reading(d, S, "binary"))
                               + Cardinality(Reading(d, S, "tooLarge"))
                               + Cardinality(Reading(d, S, "unreadable"))
<1>1. PICK A, B, C, D : /\ A = Reading(d, S, "text")
                        /\ B = Reading(d, S, "binary")
                        /\ C = Reading(d, S, "tooLarge")
                        /\ D = Reading(d, S, "unreadable")
  OBVIOUS
<1>2. /\ IsFiniteSet(S) /\ Len(d.tasks) \in Nat /\ S = 1..Len(d.tasks)
      /\ \A t \in S : d.tasks[t].read \in ReadResults
  <2>1. \A g \in File : g.read \in ReadResults  BY DEF File
  <2> QED  BY <2>1, TasksOK
<1>3. \A x \in ReadResults : /\ Reading(d, S, x) \in SUBSET S
                             /\ IsFiniteSet(Reading(d, S, x))
  <2>1. \A x \in ReadResults : Reading(d, S, x) \in SUBSET S  BY DEF Reading
  <2> QED  BY <1>2, <2>1, FS_Subset
<1>4. /\ IsFiniteSet(A) /\ IsFiniteSet(B) /\ IsFiniteSet(C) /\ IsFiniteSet(D)
      /\ Cardinality(A) \in Nat /\ Cardinality(B) \in Nat
      /\ Cardinality(C) \in Nat /\ Cardinality(D) \in Nat
  BY <1>1, <1>3, FS_CardinalityType DEF ReadResults
<1>5. PICK X, Y : X = A \cup B /\ Y = X \cup C
  OBVIOUS
<1>6. S = Y \cup D /\ A \cap B = {} /\ X \cap C = {} /\ Y \cap D = {}
  BY <1>1, <1>2, <1>5 DEF Reading, ReadResults
<1>7. IsFiniteSet(X) /\ Cardinality(X) = Cardinality(A) + Cardinality(B)
  BY <1>4, <1>5, <1>6, Apart
<1>8. IsFiniteSet(Y) /\ Cardinality(Y) = Cardinality(X) + Cardinality(C)
  BY <1>4, <1>5, <1>6, <1>7, Apart
<1>9. Cardinality(S) = Cardinality(Y) + Cardinality(D)
  BY <1>4, <1>6, <1>8, Apart
<1>10. Cardinality(S) = Cardinality(A) + Cardinality(B) + Cardinality(C)
                          + Cardinality(D)
  BY <1>7, <1>8, <1>9
<1>11. Cardinality(S) = Len(d.tasks)  BY <1>2, FS_Interval
<1> QED  BY <1>1, <1>3, <1>4, <1>10, <1>11, FS_CardinalityType

(* The records the scan adds: one per file that could not be read, and one *)
(* per file found binary or too large.                                     *)
LEMMA ScanRecords ==
    ASSUME NEW d, IsDiscovery(d), NEW S, S = DOMAIN d.tasks
    PROVE  /\ IsFiniteSet(Failing(d, S)) /\ Failing(d, S) \in SUBSET Record
           /\ Cardinality(Failing(d, S) \cap Unread)
                = Cardinality(Reading(d, S, "unreadable"))
           /\ IsFiniteSet(Skipping(d, S)) /\ Skipping(d, S) \in SUBSET Record
           /\ Cardinality(Skipping(d, S))
                = Cardinality(Reading(d, S, "binary"))
                    + Cardinality(Reading(d, S, "tooLarge"))
<1>1. /\ Reading(d, S, "unreadable") \in SUBSET DOMAIN d.tasks
      /\ Reading(d, S, "text") \ Matched(d, S) \in SUBSET DOMAIN d.tasks
      /\ Reading(d, S, "binary") \in SUBSET DOMAIN d.tasks
      /\ Reading(d, S, "tooLarge") \in SUBSET DOMAIN d.tasks
  BY DEF Reading
<1>2. /\ "unreadable" \in Texts /\ "tooMany" \in Texts
      /\ "binary" \in Texts /\ "size" \in Texts
  BY DEF Texts
<1>3. PICK U, M, B, Z :
          /\ U = Records(d, Reading(d, S, "unreadable"), "unreadable")
          /\ M = Records(d, Reading(d, S, "text") \ Matched(d, S), "tooMany")
          /\ B = Records(d, Reading(d, S, "binary"), "binary")
          /\ Z = Records(d, Reading(d, S, "tooLarge"), "size")
  OBVIOUS
<1>4. /\ IsFiniteSet(U) /\ U \in SUBSET (Nat \X {"unreadable"})
      /\ U \in SUBSET Record
      /\ Cardinality(U) = Cardinality(Reading(d, S, "unreadable"))
  BY <1>1, <1>2, <1>3, RecordsCount
<1>5. /\ IsFiniteSet(M) /\ M \in SUBSET (Nat \X {"tooMany"})
      /\ M \in SUBSET Record
  BY <1>1, <1>2, <1>3, RecordsCount
<1>6. /\ IsFiniteSet(B) /\ B \in SUBSET (Nat \X {"binary"})
      /\ B \in SUBSET Record
      /\ Cardinality(B) = Cardinality(Reading(d, S, "binary"))
  BY <1>1, <1>2, <1>3, RecordsCount
<1>7. /\ IsFiniteSet(Z) /\ Z \in SUBSET (Nat \X {"size"})
      /\ Z \in SUBSET Record
      /\ Cardinality(Z) = Cardinality(Reading(d, S, "tooLarge"))
  BY <1>1, <1>2, <1>3, RecordsCount
<1>8. Failing(d, S) = U \cup M /\ Skipping(d, S) = B \cup Z
  BY <1>3 DEF Failing, Skipping
<1>9. PICK F, K : F = U \cup M /\ K = B \cup Z
  OBVIOUS
<1>10. F \cap Unread = U  BY <1>4, <1>5, <1>9 DEF Unread
<1>11. U \cap M = {} /\ B \cap Z = {}  BY <1>4, <1>5, <1>6, <1>7
<1>12. IsFiniteSet(F) /\ F \in SUBSET Record
  BY <1>4, <1>5, <1>9, <1>11, Apart
<1>13. /\ IsFiniteSet(K) /\ K \in SUBSET Record
       /\ Cardinality(K) = Cardinality(B) + Cardinality(Z)
  BY <1>6, <1>7, <1>9, <1>11, Apart
<1>14. Cardinality(F \cap Unread) = Cardinality(Reading(d, S, "unreadable"))
  BY <1>4, <1>10
<1>15. Cardinality(K) = Cardinality(Reading(d, S, "binary"))
                          + Cardinality(Reading(d, S, "tooLarge"))
  BY <1>6, <1>7, <1>13
<1>16. Failing(d, S) = F /\ Skipping(d, S) = K  BY <1>8, <1>9
<1> QED  BY <1>12, <1>13, <1>14, <1>15, <1>16

(* The sorted lists of a report.                                           *)
HasLists(r, d, S) ==
    /\ r.errors \in Seq(Record) /\ r.skipped \in Seq(Record)
    /\ \A A : Holding(r.errors, A) = Holding(d.errors, A)
                  + Cardinality(Failing(d, S) \cap A)
    /\ Len(r.errors) = Len(d.errors) + Cardinality(Failing(d, S))
    /\ Len(r.skipped) = Len(d.skipped) + Cardinality(Skipping(d, S))

LEMMA ListsOfReport ==
    ASSUME NEW d, IsDiscovery(d), NEW S, S = DOMAIN d.tasks,
           NEW r, r = ExpectedReport(d)
    PROVE  HasLists(r, d, S)
<1>1. d.errors \in Seq(Record) /\ d.skipped \in Seq(Record)
  BY DEF IsDiscovery
<1>2. PICK e, s, F, K : /\ e = d.errors /\ s = d.skipped
                        /\ F = Failing(d, S) /\ K = Skipping(d, S)
  OBVIOUS
<1>3. /\ IsFiniteSet(F) /\ F \in SUBSET Record
      /\ IsFiniteSet(K) /\ K \in SUBSET Record
  BY <1>2, ScanRecords
<1>4. PICK p, q : p = SetToSeq(F) /\ q = SetToSeq(K)
  OBVIOUS
<1>5. /\ p \in Seq(Record) /\ q \in Seq(Record)
      /\ \A A : Holding(p, A) = Cardinality(F \cap A)
      /\ \A A : Holding(q, A) = Cardinality(K \cap A)
  <2>1. p \in Seq(F) /\ q \in Seq(K)  BY <1>3, <1>4, HoldingListed
  <2>2. p \in Seq(Record) /\ q \in Seq(Record)  BY <1>3, <2>1
  <2> QED  BY <1>3, <1>4, <2>2, HoldingListed
<1>6. e \o p \in Seq(Record) /\ s \o q \in Seq(Record)
  BY <1>1, <1>2, <1>5
<1>7. r.errors = InOrder(e \o p, Before) /\ r.skipped = InOrder(s \o q, Before)
  BY <1>2, <1>4 DEF ExpectedReport
<1>8. PICK x, y : x = e \o p /\ y = s \o q
  OBVIOUS
<1>9. /\ r.errors \in Seq(Record) /\ r.skipped \in Seq(Record)
      /\ Len(r.errors) = Len(x) /\ Len(r.skipped) = Len(y)
      /\ \A A : Holding(r.errors, A) = Holding(x, A)
  BY <1>6, <1>7, <1>8, SortKeeps
<1>10. ASSUME NEW A
       PROVE  Holding(x, A) = Holding(e, A) + Cardinality(F \cap A)
  <2>1. e \in Seq(Record) /\ p \in Seq(Record)  BY <1>1, <1>2, <1>5
  <2>2. Holding(e \o p, A) = Holding(e, A) + Holding(p, A)
    BY <2>1, HoldingJoined
  <2> QED  BY <1>5, <1>8, <2>2
<1>11. Len(p) = Cardinality(F) /\ Len(q) = Cardinality(K)
  <2>1. F \cap Record = F /\ K \cap Record = K  BY <1>3
  <2>2. p \in Seq(Record) /\ q \in Seq(Record)  BY <1>5
  <2>3. Holding(p, Record) = Len(p) /\ Holding(q, Record) = Len(q)
    BY <2>2, HoldingOK
  <2>4. /\ Holding(p, Record) = Cardinality(F \cap Record)
        /\ Holding(q, Record) = Cardinality(K \cap Record)
    BY <1>5, Zenon
  <2> QED  BY <2>1, <2>3, <2>4
<1>12. Len(x) = Len(e) + Len(p) /\ Len(y) = Len(s) + Len(q)
  BY <1>1, <1>2, <1>5, <1>8
<1> QED  BY <1>2, <1>9, <1>10, <1>11, <1>12 DEF HasLists

(* Its summary.                                                            *)
LEMMA SummaryOfReport ==
    ASSUME NEW d, IsDiscovery(d), NEW S, S = DOMAIN d.tasks,
           NEW r, r = ExpectedReport(d)
    PROVE  /\ r.summary.visited = d.summary.visited
           /\ r.summary.directories = d.summary.directories
           /\ r.summary.other = d.summary.other
           /\ r.summary.truncated = d.summary.truncated
           /\ r.summary.scanned = Cardinality(Reading(d, S, "text"))
           /\ r.summary.binary = Cardinality(Reading(d, S, "binary"))
           /\ r.summary.size = d.summary.size
                                 + Cardinality(Reading(d, S, "tooLarge"))
           /\ r.summary.bytes = Total([t \in S |-> d.tasks[t].size],
                                      Reading(d, S, "text"))
           /\ r.summary.errors = Len(d.errors) + Cardinality(Failing(d, S))
<1>1. d.summary \in BareSummary
  BY Zenon DEF IsDiscovery, BareSummary
<1>2. PICK s, n : /\ s = SummaryFor(d, S)
                  /\ n = Len(d.errors) + Cardinality(Failing(d, S))
  OBVIOUS
<1>3. r.summary = [s EXCEPT !.errors = n]
  BY <1>2 DEF ExpectedReport
<1>4. PICK b, i : /\ b = Total([t \in S |-> d.tasks[t].size],
                               Reading(d, S, "text"))
                  /\ i = [x \in Identifications |-> Cardinality(Identified(d, S, x))]
  OBVIOUS
<1>5. s = [d.summary EXCEPT
              !.scanned  = Cardinality(Reading(d, S, "text")),
              !.bytes    = b,
              !.binary   = Cardinality(Reading(d, S, "binary")),
              !.size     = @ + Cardinality(Reading(d, S, "tooLarge")),
              !.detected = Cardinality(Detecting(d, S)),
              !.clued    = Cardinality(Clued(d, S)),
              !.identified = i]
  BY <1>2, <1>4 DEF SummaryFor
<1>6. /\ s.visited = d.summary.visited
      /\ s.directories = d.summary.directories
      /\ s.other = d.summary.other /\ s.truncated = d.summary.truncated
      /\ s.scanned = Cardinality(Reading(d, S, "text"))
      /\ s.binary = Cardinality(Reading(d, S, "binary"))
      /\ s.size = d.summary.size + Cardinality(Reading(d, S, "tooLarge"))
      /\ s.bytes = b
      /\ DOMAIN s = DOMAIN d.summary
  BY <1>1, <1>5 DEF BareSummary
<1>7. "errors" \in DOMAIN s  BY <1>1, <1>6 DEF BareSummary
<1> QED  BY <1>2, <1>3, <1>4, <1>6, <1>7

(* The counters of a returned report add up, for any repository, options,  *)
(* number of workers and schedule: every file that was visited is          *)
(* accounted for once.                                                     *)
LEMMA EndAddsUp == EndInv /\ CountInv => ReportAddsUp
<1> SUFFICES ASSUME EndInv, CountInv, main = "returned" PROVE ReportAddsUp
  BY DEF ReportAddsUp
<1>1. report = ExpectedReport(Discovery)
  BY EndReport DEF ReportsDiscovery
<1>2. PICK d : d = Discovery  OBVIOUS
<1>3. /\ d.summary = summary /\ d.tasks = tasks /\ d.errors = errors
      /\ d.skipped = skipped
  BY <1>2 DEF Discovery
<1>4. IsDiscovery(d)  BY <1>2, FoundLawful DEF EndInv
<1>5. PICK S : S = DOMAIN d.tasks  OBVIOUS
<1>6. PICK r : r = report  OBVIOUS
<1>7. r = ExpectedReport(d)  BY <1>1, <1>2, <1>6
<1>8. PICK a, b, c, u : /\ a = Cardinality(Reading(d, S, "text"))
                        /\ b = Cardinality(Reading(d, S, "binary"))
                        /\ c = Cardinality(Reading(d, S, "tooLarge"))
                        /\ u = Cardinality(Reading(d, S, "unreadable"))
  OBVIOUS
<1>9. /\ a \in Nat /\ b \in Nat /\ c \in Nat /\ u \in Nat
      /\ Len(tasks) = a + b + c + u
  BY <1>3, <1>4, <1>5, <1>8, ReadingsPart DEF ReadResults
<1>10. /\ r.summary.visited = summary.visited
       /\ r.summary.directories = summary.directories
       /\ r.summary.other = summary.other
       /\ r.summary.scanned = a /\ r.summary.binary = b
       /\ r.summary.size = summary.size + c
       /\ r.summary.errors = Len(errors) + Cardinality(Failing(d, S))
       /\ r.summary.bytes = Total([t \in S |-> d.tasks[t].size],
                                  Reading(d, S, "text"))
  BY <1>3, <1>4, <1>5, <1>7, <1>8, SummaryOfReport
<1>11. /\ r.errors \in Seq(Record)
       /\ Len(r.errors) = Len(errors) + Cardinality(Failing(d, S))
       /\ Holding(r.errors, Unread) = Holding(errors, Unread) + u
       /\ Len(r.skipped) = Len(skipped) + (b + c)
  <2>1. /\ Cardinality(Failing(d, S) \cap Unread) = u
        /\ Cardinality(Skipping(d, S)) = b + c
    BY <1>4, <1>5, <1>8, ScanRecords
  <2>2. HasLists(r, d, S)  BY <1>4, <1>5, <1>7, ListsOfReport
  <2> QED  BY <1>3, <2>1, <2>2 DEF HasLists
<1>12. Cardinality({i \in DOMAIN r.errors : r.errors[i][2] \in {"info", "unreadable"}})
         = Holding(r.errors, Unread)
  <2>1. \A i \in DOMAIN r.errors : r.errors[i] \in Record  BY <1>11
  <2>2. \A i \in DOMAIN r.errors :
            r.errors[i] \in Unread <=> r.errors[i][2] \in {"info", "unreadable"}
    BY <2>1 DEF Record, Unread
  <2> QED  BY <2>2 DEF Holding
<1>13. /\ summary.visited \in Nat /\ summary.directories \in Nat
       /\ summary.size \in Nat /\ summary.other \in Nat
       /\ Len(skipped) \in Nat /\ Holding(errors, Unread) \in Nat
  BY Lengths DEF CountInv, Typed, SummaryType
<1>14. /\ summary.visited = Len(tasks) + summary.size + summary.other
                                + Holding(errors, Unread)
       /\ summary.directories + summary.size + summary.other = Len(skipped)
  BY DEF CountInv
<1>15. /\ r.summary.visited = r.summary.scanned + r.summary.binary
                                 + r.summary.size + r.summary.other
                                 + Holding(r.errors, Unread)
       /\ r.summary.directories + r.summary.binary + r.summary.size
              + r.summary.other = Len(r.skipped)
  <2>1. PICK v \in Nat, w \in Nat, z \in Nat, o \in Nat, k \in Nat, h \in Nat :
            /\ summary.visited = v /\ summary.directories = w
            /\ summary.size = z /\ summary.other = o
            /\ Len(skipped) = k /\ Holding(errors, Unread) = h
    BY <1>13
  <2>2. /\ r.summary.visited = v /\ r.summary.directories = w
        /\ r.summary.other = o /\ r.summary.scanned = a
        /\ r.summary.binary = b /\ r.summary.size = z + c
        /\ Holding(r.errors, Unread) = h + u /\ Len(r.skipped) = k + (b + c)
    BY <1>10, <1>11, <2>1
  <2>3. v = (a + b + c + u) + z + o + h /\ w + z + o = k
    BY <1>9, <1>14, <2>1
  <2>4. v = a + b + (z + c) + o + (h + u) /\ w + b + (z + c) + o = k + (b + c)
    BY <1>9, <2>3
  <2> QED  BY <2>2, <2>4
<1>17. r.summary.errors = Len(r.errors)  BY <1>10, <1>11
<1>18. r.summary.bytes = Total([n \in DOMAIN tasks |-> tasks[n].size],
                               {n \in DOMAIN tasks : tasks[n].read = "text"})
  BY <1>3, <1>5, <1>10 DEF Reading
<1> QED  BY <1>6, <1>12, <1>15, <1>17, <1>18 DEF ReportAddsUp

THEOREM AddsUp == RSpec => []ReportAddsUp
BY EndInit, EndStep, CountInit, CountsKept, EndAddsUp, PTL DEF RSpec

-----------------------------------------------------------------------------
(* ExitStatusTrue speaks of the tree; the report holds what the walk and   *)
(* the scan made of it.  Of the walk: while it goes on there is an error   *)
(* exactly when it has met an entry that calls for one.                    *)
MetErrors == {j \in DOMAIN tree : Met(j) /\ WalkError(j)}

ErrorsMet ==
    /\ walk = "walking" => (errors # <<>> <=> \E j \in MetErrors : j < at)
    /\ walk = "done" /\ ~summary.truncated =>
           (errors # <<>> <=> MetErrors # {})

StatusInv == DiscoveryInv /\ ErrorsMet

LEMMA SameErrors ==
    ASSUME tree' = tree, options' = options
    PROVE  MetErrors' = MetErrors
BY DEF MetErrors, Met, Inside, Open, DirectoryReason, NameReason, WalkError,
       Rejected

LEMMA SomeError ==
    ASSUME Typed, at \in DOMAIN tree, NEW text \in Texts
    PROVE  Append(errors, <<entry.path, text>>) # <<>>
<1>1. PICK r : r = <<entry.path, text>>  OBVIOUS
<1>2. errors \in Seq(Record)  BY DEF Typed
<1>3. Append(errors, r) # <<>>  BY <1>2
<1> QED  BY <1>1, <1>3

(* A step past the entry it is at, and past what lies within a directory   *)
(* that is not gone into.                                                  *)
LEMMA ErrorsPast ==
    ASSUME Typed, OnlyWithinOpen, at \in DOMAIN tree,
           tree' = tree, options' = options, walk' = walk, walk = "walking",
           ErrorsMet,
           errors' # <<>> <=> errors # <<>> \/ WalkError(at),
           \/ at' = at + 1
           \/ tree[at].dir /\ ~Open(at) /\ at' = tree[at].last + 1
    PROVE  ErrorsMet'
<1>1. /\ at \in Nat /\ DOMAIN tree \subseteq Nat
      /\ tree[at].last \in Nat /\ at <= tree[at].last
  BY Shape DEF Typed
<1>2. Met(at)  BY DEF Met, OnlyWithinOpen
<1>3. MetErrors \subseteq Nat /\ (at \in MetErrors <=> WalkError(at))
  BY <1>1, <1>2 DEF MetErrors
<1>4. \A j \in MetErrors : j < at' <=> j < at \/ j = at
  <2>1. CASE at' = at + 1  BY <1>1, <1>3, <2>1
  <2>2. CASE tree[at].dir /\ ~Open(at) /\ at' = tree[at].last + 1
    <3>1. \A j \in MetErrors : ~(at < j /\ j <= tree[at].last)
      BY <2>2 DEF MetErrors, Met, Inside
    <3> QED  BY <1>1, <1>3, <2>2, <3>1
  <2> QED  BY <2>1, <2>2
<1>5. (\E j \in MetErrors : j < at') <=>
          (\E j \in MetErrors : j < at) \/ WalkError(at)
  BY <1>3, <1>4
<1> QED  BY <1>5, SameErrors DEF ErrorsMet

LEMMA ErrorsStep ==
    ASSUME StatusInv, Walk
    PROVE  ErrorsMet'
<1>1. Typed /\ DiscoveryInv /\ ErrorsMet
  BY DEF StatusInv, DiscoveryInv
<1>2. walk = "walking" => OnlyWithinOpen  BY <1>1 DEF DiscoveryInv, Progress
<1>3. CASE SkipDirectory \/ UnlistableDirectory
  <2>1. /\ at \in DOMAIN tree /\ tree[at].dir
        /\ tree' = tree /\ options' = options
        /\ walk = "walking" /\ walk' = walk /\ at' = tree[at].last + 1
    BY <1>1, <1>3, SkipMoves
  <2>2. ~Open(at)
    BY <1>3 DEF SkipDirectory, UnlistableDirectory, Open, entry
  <2>3. errors' # <<>> <=> errors # <<>> \/ WalkError(at)
    <3>1. CASE SkipDirectory
      BY <2>1, <3>1 DEF SkipDirectory, AddSkip, WalkError, entry
    <3>2. CASE UnlistableDirectory
      <4>1. errors' # <<>>
        BY <1>1, <2>1, <3>2, SomeError, Noted DEF UnlistableDirectory, AddError
      <4>2. listing /\ ~tree[at].listable
        BY <3>2 DEF UnlistableDirectory, entry
      <4>3. DirectoryReason(tree[at], options) = "none"
        BY <1>1, <4>2 DEF Typed
      <4>4. WalkError(at)  BY <2>1, <4>2, <4>3 DEF WalkError
      <4> QED  BY <4>1, <4>4
    <3> QED  BY <1>3, <3>1, <3>2
  <2> QED  BY <1>1, <1>2, <2>1, <2>2, <2>3, ErrorsPast
<1>4. CASE ListDirectory
  <2>1. /\ at \in DOMAIN tree /\ tree[at].dir /\ tree[at].listable
        /\ tree' = tree /\ options' = options
        /\ walk = "walking" /\ walk' = walk /\ at' = at + 1
        /\ errors' = errors
    BY <1>1, <1>4, Shape
       DEF ListDirectory, Advance, MoveTo, Typed, entry, found
  <2>2. ~WalkError(at)  BY <2>1 DEF WalkError
  <2> QED  BY <1>1, <1>2, <2>1, <2>2, ErrorsPast
<1>5. CASE EnterDirectory
  <2>1. /\ tree' = tree /\ options' = options /\ at' = at
        /\ walk = "walking" /\ walk' = walk /\ errors' = errors
    BY <1>5 DEF EnterDirectory, Visiting, found
  <2> QED  BY <1>1, <2>1, SameErrors DEF ErrorsMet
<1>6. CASE SkipSymlink \/ StatFails \/ VisitFile \/ ExplicitFile
  <2>1. /\ at \in DOMAIN tree /\ ~tree[at].dir
        /\ tree' = tree /\ options' = options
        /\ walk = "walking" /\ walk' = walk /\ at' = at + 1
    BY <1>1, <1>6, FileMoves
  <2>2. errors' # <<>> <=> errors # <<>> \/ WalkError(at)
    <3>1. CASE SkipSymlink
      BY <2>1, <3>1 DEF SkipSymlink, AddSkip, WalkError, Rejected, AtFile, entry
    <3>2. CASE StatFails
      <4>1. errors' # <<>>
        BY <1>1, <2>1, <3>2, SomeError, Noted DEF StatFails, AddError
      <4>2. WalkError(at)
        BY <2>1, <3>2 DEF StatFails, AtFile, WalkError, entry
      <4> QED  BY <4>1, <4>2
    <3>3. CASE VisitFile \/ ExplicitFile
      <4>1. entry = tree[at] /\ Measure
        BY <3>3 DEF VisitFile, ExplicitFile, entry
      <4>2. entry.depth > 0 => ~entry.symlink /\ entry.stat
        <5>1. entry.depth \in Nat  BY <1>1, <2>1, <4>1, Shape DEF Entry
        <5>2. entry.depth = 0 \/ (~entry.symlink /\ entry.stat)
          BY <3>3 DEF VisitFile, ExplicitFile
        <5> QED  BY <5>1, <5>2
      <4>3. WalkError(at) <=> entry.regular /\ ~entry.large
                                  /\ entry.manifest = "fails"
        BY <2>1, <4>1, <4>2 DEF WalkError, Rejected
      <4>4. \/ ~entry.regular /\ errors' = errors
            \/ entry.large /\ errors' = errors
            \/ /\ entry.regular /\ ~entry.large
               /\ errors' = IF entry.manifest = "fails"
                            THEN Append(errors, <<entry.path, "manifest">>)
                            ELSE errors
        BY <4>1 DEF Measure, AddSkip
      <4>5. Append(errors, <<entry.path, "manifest">>) # <<>>
        BY <1>1, <2>1, SomeError, Noted
      <4> QED  BY <4>3, <4>4, <4>5
    <3> QED  BY <1>6, <3>1, <3>2, <3>3
  <2> QED  BY <1>1, <1>2, <2>1, <2>2, ErrorsPast
<1>7. CASE EndOfWalk
  <2>1. /\ walk = "walking" /\ at > Len(tree) /\ walk' = "done"
        /\ tree' = tree /\ options' = options /\ errors' = errors
    BY <1>7 DEF EndOfWalk, found
  <2>2. \A j \in MetErrors : j < at
    <3>1. DOMAIN tree = 1..Len(tree) /\ Len(tree) \in Nat /\ at \in Nat
      BY <1>1, Shape DEF Typed
    <3> QED  BY <2>1, <3>1 DEF MetErrors
  <2> QED  BY <1>1, <2>1, <2>2, SameErrors DEF ErrorsMet
<1>8. CASE StopAtLimit
  <2>1. walk' = "done" /\ summary'.truncated = TRUE
    BY <1>1, <1>8, SummaryCounts DEF StopAtLimit, Typed
  <2> QED  BY <2>1 DEF ErrorsMet
<1>9. CASE RootFails \/ Interrupted
  BY <1>9 DEF RootFails, Interrupted, ErrorsMet
<1> QED  BY <1>3, <1>4, <1>5, <1>6, <1>7, <1>8, <1>9 DEF Walk

LEMMA StatusKept == StatusInv /\ [RNext]_rvars => StatusInv'
<1> SUFFICES ASSUME StatusInv, [RNext]_rvars PROVE StatusInv'
  OBVIOUS
<1>1. DiscoveryInv'  BY DiscoveryStep DEF StatusInv
<1>2. CASE Walk  BY <1>1, <1>2, ErrorsStep DEF StatusInv
<1>3. CASE UNCHANGED walkVars
  <2>1. /\ tree' = tree /\ options' = options /\ at' = at /\ walk' = walk
        /\ errors' = errors /\ summary' = summary
    BY <1>3 DEF walkVars
  <2> QED  BY <1>1, <2>1, SameErrors DEF StatusInv, ErrorsMet
<1> QED  BY <1>2, <1>3, OnlyWalk

LEMMA StatusInit == RInit => StatusInv
<1> SUFFICES ASSUME RInit PROVE StatusInv
  OBVIOUS
<1>1. DiscoveryInv /\ Typed  BY DiscoveryInit DEF DiscoveryInv
<1>2. at = 1 /\ errors = <<>> /\ walk = "walking"  BY DEF RInit, WInit
<1>3. \A j \in MetErrors : ~(j < at)
  BY <1>1, <1>2, Shape DEF MetErrors
<1> QED  BY <1>1, <1>2, <1>3 DEF StatusInv, ErrorsMet

(* The tasks are the files of U, no more and no less.                      *)
LEMMA TaskFiles ==
    ASSUME tasks \in Seq(File), NEW U \in SUBSET Nat, IsFiniteSet(U),
           TasksAre(U)
    PROVE  /\ \A j \in U : \E t \in DOMAIN tasks : tasks[t] = tree[j].file
           /\ \A t \in DOMAIN tasks : \E j \in U : tasks[t] = tree[j].file
<1> DEFINE upTo(j) == {k \in U : k <= j}
           f == [j \in U |-> Place(U, j)]
<1>1. PICK n : n = Cardinality(U)
  OBVIOUS
<1>2. n \in Nat /\ DOMAIN tasks = 1..n
  BY <1>1, FS_CardinalityType DEF TasksAre
<1>3. ASSUME NEW j \in U
      PROVE  /\ IsFiniteSet(upTo(j)) /\ Place(U, j) = Cardinality(upTo(j))
             /\ Place(U, j) \in 1..n
  <2>1. upTo(j) \in SUBSET U /\ j \in upTo(j)  OBVIOUS
  <2> HIDE DEF upTo
  <2>2. IsFiniteSet(upTo(j)) /\ Cardinality(upTo(j)) <= n
    BY <1>1, <2>1, FS_Subset
  <2>3. Cardinality(upTo(j)) \in Nat /\ Cardinality(upTo(j)) # 0
    BY <2>1, <2>2, FS_CardinalityType, FS_EmptySet
  <2>4. Place(U, j) = Cardinality(upTo(j))  BY DEF Place, upTo
  <2> QED  BY <1>2, <2>2, <2>3, <2>4
<1>4. ASSUME NEW j \in U, NEW k \in U, j < k
      PROVE  Place(U, j) # Place(U, k)
  <2>1. upTo(j) \cup {k} \in SUBSET upTo(k) /\ k \notin upTo(j)
    <3>1. j \in Nat /\ k \in Nat /\ \A i \in U : i \in Nat
      OBVIOUS
    <3>2. /\ \A i \in U : i <= j => i <= k
          /\ k <= k /\ ~(k <= j)
      BY <1>4, <3>1
    <3> QED  BY <3>2
  <2> HIDE DEF upTo
  <2>2. /\ IsFiniteSet(upTo(j)) /\ IsFiniteSet(upTo(k))
        /\ Cardinality(upTo(j)) \in Nat /\ Cardinality(upTo(k)) \in Nat
    BY <1>3, FS_CardinalityType
  <2>3. Cardinality(upTo(j) \cup {k}) = Cardinality(upTo(j)) + 1
    BY <2>1, <2>2, FS_AddElement
  <2>4. Cardinality(upTo(j) \cup {k}) <= Cardinality(upTo(k))
    BY <2>1, <2>2, FS_Subset
  <2> QED  BY <1>3, <2>2, <2>3, <2>4
<1>5. \A j, k \in U : Place(U, j) = Place(U, k) => j = k
  <2> SUFFICES ASSUME NEW j \in U, NEW k \in U, Place(U, j) = Place(U, k)
               PROVE  j = k
    OBVIOUS
  <2> QED  BY <1>4
<1>6. f \in Surjection(U, 1..n)
  <2>1. f \in Injection(U, 1..n)
    BY <1>3, <1>5 DEF Injection, IsInjective
  <2>2. IsFiniteSet(1..n) /\ Cardinality(1..n) = n
    BY <1>2, FS_Interval
  <2> HIDE DEF f
  <2> QED  BY <1>1, <2>1, <2>2, FS_Injection
<1>7. \A t \in 1..n : \E j \in U : Place(U, j) = t
  BY <1>6 DEF Surjection
<1> QED  BY <1>2, <1>3, <1>7 DEF TasksAre

(* What the scan adds to a report, seen at a single task.                  *)
Faulty(f) == f.read = "unreadable" \/ (f.read = "text" /\ f.overflow)
Telling(f) == f.read = "text" /\ ~f.overflow /\ Detected(f) # {}

LEMMA ScanAdds ==
    ASSUME NEW d, IsDiscovery(d), NEW S, S = DOMAIN d.tasks,
           NEW r, r = ExpectedReport(d)
    PROVE  /\ Failing(d, S) # {} <=> \E t \in S : Faulty(d.tasks[t])
           /\ DOMAIN r.expressions # {} <=> \E t \in S : Telling(d.tasks[t])
<1>1. Failing(d, S) # {} <=> \E t \in S : Faulty(d.tasks[t])
  <2>1. \A T, x : Records(d, T, x) # {} <=> \E t \in T : TRUE
    BY DEF Records
  <2>2. \A t \in S : Faulty(d.tasks[t]) <=>
            \/ t \in Reading(d, S, "unreadable")
            \/ t \in Reading(d, S, "text") \ Matched(d, S)
    BY DEF Faulty, Reading, Matched
  <2>3. /\ Reading(d, S, "unreadable") \in SUBSET S
        /\ Reading(d, S, "text") \ Matched(d, S) \in SUBSET S
    BY DEF Reading
  <2>4. PICK U, M : /\ U = Reading(d, S, "unreadable")
                    /\ M = Reading(d, S, "text") \ Matched(d, S)
    OBVIOUS
  <2>5. Failing(d, S) = Records(d, U, "unreadable") \cup Records(d, M, "tooMany")
    BY <2>4 DEF Failing
  <2>6. Failing(d, S) # {} <=> (\E t \in U : TRUE) \/ (\E t \in M : TRUE)
    BY <2>1, <2>5
  <2> QED  BY <2>2, <2>3, <2>4, <2>6
<1>2. DOMAIN r.expressions = {x \in Expressions : With(d, S, x) # {}}
  <2>1. r.expressions = ExpressionsFor(d, S)  BY DEF ExpectedReport
  <2>2. DOMAIN ExpressionsFor(d, S) = {x \in Expressions : With(d, S, x) # {}}
    BY Zenon DEF ExpressionsFor
  <2> QED  BY <2>1, <2>2
<1>3. ASSUME NEW x \in Expressions
      PROVE  With(d, S, x) # {} <=>
                 \E t \in S : /\ d.tasks[t].read = "text" /\ ~d.tasks[t].overflow
                              /\ x \in Detected(d.tasks[t])
  BY DEF With, Matched, Reading
<1>4. \A f : Detected(f) # {} <=> \E x \in Expressions : x \in Detected(f)
  BY DEF Detected
<1>5. DOMAIN r.expressions # {} <=>
          \E x \in Expressions : \E t \in S :
              /\ d.tasks[t].read = "text" /\ ~d.tasks[t].overflow
              /\ x \in Detected(d.tasks[t])
  <2> HIDE DEF With
  <2>1. DOMAIN r.expressions # {} <=> \E x \in Expressions : With(d, S, x) # {}
    BY <1>2
  <2> QED  BY <1>3, <2>1
<1>6. DOMAIN r.expressions # {} <=> \E t \in S : Telling(d.tasks[t])
  BY <1>4, <1>5 DEF Telling
<1> QED  BY <1>1, <1>6

(* The tasks of a walk that is done are the usable files.                  *)
LEMMA DoneTasks ==
    ASSUME DiscoveryInv, walk = "done"
    PROVE  /\ summary.truncated <=> WithinLimit # MetFiles
           /\ \A j \in UsableWithin :
                  \E t \in DOMAIN tasks : tasks[t] = tree[j].file
           /\ \A t \in DOMAIN tasks :
                  \E j \in UsableWithin : tasks[t] = tree[j].file
<1>1. Typed /\ tasks \in Seq(File)  BY DEF DiscoveryInv, Typed
<1>2. TasksAre(UsableWithin) /\ (summary.truncated <=> WithinLimit # MetFiles)
  BY DEF DiscoveryInv, DiscoveryExact
<1>3. PICK U : U = UsableWithin  OBVIOUS
<1>4. U \in SUBSET Nat /\ IsFiniteSet(U)
  <2>1. MetFiles \in SUBSET (1..Len(tree)) /\ IsFiniteSet(MetFiles)
    BY <1>1, FiniteSets
  <2>2. U \in SUBSET MetFiles  BY <1>3 DEF UsableWithin, WithinLimit
  <2>3. IsFiniteSet(U)  BY <2>1, <2>2, FS_Subset
  <2>4. 1..Len(tree) \in SUBSET Nat  BY <1>1, Shape
  <2> QED  BY <2>1, <2>2, <2>3, <2>4
<1> QED  BY <1>1, <1>2, <1>3, <1>4, TaskFiles

LEMMA ExitCodes ==
    ASSUME main = "returned"
    PROVE  ExitCode = IF report.errors # <<>> \/ report.summary.truncated THEN 2
                      ELSE IF DOMAIN report.expressions = {} THEN 3 ELSE 0
<1>1. CASE report.errors # <<>> \/ report.summary.truncated
  BY <1>1, Zenon DEF ExitCode
<1>2. CASE report.errors = <<>> /\ ~report.summary.truncated
           /\ DOMAIN report.expressions = {}
  BY <1>2, Zenon DEF ExitCode
<1>3. CASE report.errors = <<>> /\ ~report.summary.truncated
           /\ DOMAIN report.expressions # {}
  BY <1>3, Zenon DEF ExitCode
<1> QED  BY <1>1, <1>2, <1>3, Zenon

(* The exit status says of the tree what README.md says it does.           *)
LEMMA EndStatus == EndInv /\ StatusInv => ExitStatusTrue
<1> SUFFICES ASSUME EndInv, StatusInv, main = "returned"
             PROVE  /\ ExitCode \in {0, 2, 3}
                    /\ ExitCode = 2 <=> Incomplete
                    /\ ExitCode = 0 <=>
                           /\ ~Incomplete
                           /\ \E j \in MetFiles : ~Rejected(j) /\ Licensed(j)
  BY DEF ExitStatusTrue
<1>1. walk = "done" /\ report = ExpectedReport(Discovery)
  BY EndReport DEF ReportsDiscovery
<1>2. PICK d, r : d = Discovery /\ r = report  OBVIOUS
<1>3. d.summary = summary /\ d.tasks = tasks /\ d.errors = errors
  BY <1>2 DEF Discovery
<1>4. IsDiscovery(d)  BY <1>2, FoundLawful DEF EndInv
<1>5. PICK S : S = DOMAIN d.tasks  OBVIOUS
<1>6. r = ExpectedReport(d)  BY <1>1, <1>2
<1>7. DiscoveryInv /\ ErrorsMet /\ Typed
  BY DEF StatusInv, DiscoveryInv
<1>8. r.summary.truncated <=> WithinLimit # MetFiles
  <2>1. r.summary.truncated = d.summary.truncated
    BY <1>4, <1>5, <1>6, SummaryOfReport
  <2>2. summary.truncated <=> WithinLimit # MetFiles
    BY <1>1, <1>7, DoneTasks
  <2> QED  BY <1>3, <2>1, <2>2
<1>9. r.errors # <<>> <=> errors # <<>> \/ Failing(d, S) # {}
  <2>1. HasLists(r, d, S)  BY <1>4, <1>5, <1>6, ListsOfReport
  <2>2. PICK F : F = Failing(d, S)  OBVIOUS
  <2>3. IsFiniteSet(F)  BY <1>4, <1>5, <2>2, ScanRecords
  <2>4. Cardinality(F) \in Nat /\ (Cardinality(F) = 0 <=> F = {})
    BY <2>3, FS_CardinalityType, FS_EmptySet
  <2>5. /\ r.errors \in Seq(Record) /\ errors \in Seq(Record)
        /\ Len(r.errors) = Len(errors) + Cardinality(F)
    BY <1>3, <1>7, <2>1, <2>2 DEF HasLists, Typed
  <2>6. /\ Len(errors) \in Nat /\ (Len(errors) = 0 <=> errors = <<>>)
        /\ Len(r.errors) = 0 <=> r.errors = <<>>
    BY <2>5
  <2> QED  BY <2>2, <2>4, <2>5, <2>6
<1>10. Failing(d, S) # {} <=> \E j \in UsableWithin : Faulty(tree[j].file)
  <2>1. Failing(d, S) # {} <=> \E t \in DOMAIN tasks : Faulty(tasks[t])
    BY <1>3, <1>4, <1>5, <1>6, ScanAdds
  <2> QED  BY <1>1, <1>7, <2>1, DoneTasks
<1>11. DOMAIN r.expressions # {} <=>
           \E j \in UsableWithin : Telling(tree[j].file)
  <2>1. DOMAIN r.expressions # {} <=> \E t \in DOMAIN tasks : Telling(tasks[t])
    BY <1>3, <1>4, <1>5, <1>6, ScanAdds
  <2> QED  BY <1>1, <1>7, <2>1, DoneTasks
<1>12. r.errors # <<>> \/ r.summary.truncated <=> Incomplete
  <2>1. CASE WithinLimit # MetFiles  BY <1>8, <2>1 DEF Incomplete
  <2>2. CASE WithinLimit = MetFiles
    <3>1. errors # <<>> <=> MetErrors # {}
      <4>1. summary.truncated <=> WithinLimit # MetFiles
        BY <1>1, <1>7, DoneTasks
      <4> QED  BY <1>1, <1>7, <2>2, <4>1 DEF ErrorsMet
    <3>2. MetErrors # {} <=> \E j \in DOMAIN tree : Met(j) /\ WalkError(j)
      BY DEF MetErrors
    <3>3. \A j \in DOMAIN tree : Met(j) /\ ScanError(j) <=>
              j \in UsableWithin /\ Faulty(tree[j].file)
      BY <2>2 DEF ScanError, UsableWithin, MetFiles, Faulty
    <3>4. \A j \in UsableWithin : j \in DOMAIN tree
      BY DEF UsableWithin, WithinLimit, MetFiles
    <3> QED  BY <1>8, <1>9, <1>10, <2>2, <3>1, <3>2, <3>3, <3>4
             DEF Incomplete
  <2> QED  BY <2>1, <2>2
<1>13. ASSUME ~Incomplete
       PROVE  DOMAIN r.expressions # {} <=>
                  \E j \in MetFiles : ~Rejected(j) /\ Licensed(j)
  <2>1. WithinLimit = MetFiles  BY <1>13 DEF Incomplete
  <2>2. \A j \in MetFiles : ~ScanError(j)
    BY <1>13 DEF Incomplete, MetFiles
  <2>3. \A j \in MetFiles :
            j \in UsableWithin /\ Telling(tree[j].file) <=>
                ~Rejected(j) /\ Licensed(j)
    BY <2>1, <2>2
       DEF UsableWithin, Telling, Licensed, ScanError, MetFiles
  <2>4. \A j \in UsableWithin : j \in MetFiles  BY <2>1 DEF UsableWithin
  <2> QED  BY <1>11, <2>3, <2>4
<1>14. ExitCode = IF Incomplete THEN 2
                  ELSE IF DOMAIN r.expressions = {} THEN 3 ELSE 0
  BY <1>2, <1>12, ExitCodes
<1> QED  BY <1>13, <1>14

THEOREM ExitStatus == RSpec => []ExitStatusTrue
BY EndInit, EndStep, StatusInit, StatusKept, EndStatus, PTL DEF RSpec
=============================================================================
