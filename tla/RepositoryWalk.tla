--------------------------- MODULE RepositoryWalk ---------------------------
(***************************************************************************)
(* discoverFiles (scan.go): the walk of the repository that precedes the   *)
(* scan.  filepath.WalkDir calls fileDiscovery.visit on the entries of the *)
(* tree in preorder; visit counts, skips, fails or makes a task of each.   *)
(*                                                                         *)
(* A tree is its preorder: entry i is followed by its descendants up to    *)
(* entry tree[i].last.  A walk position past a directory's last descendant *)
(* is what filepath.SkipDir means, and the end of the sequence is the end  *)
(* of the walk.  The explicit root that is a file is a tree of one entry.  *)
(***************************************************************************)
EXTENDS ScanContext

CONSTANTS
    Trees,    \* the repositories that may be walked
    Options   \* the ScanOptions they may be walked with

(* How visit sees an entry.  The name class is what skippedDirectoryReason *)
(* tells apart; `manifest` is what declaredLicense makes of the path.      *)
NameClasses == {"plain", ".git", "configured", "hidden", "default"}
Entry == [path : Nat, depth : Nat, last : Nat, dir : BOOLEAN,
          name : NameClasses, listable : BOOLEAN,
          symlink : BOOLEAN, stat : BOOLEAN, regular : BOOLEAN,
          large : BOOLEAN,
          manifest : {"no", "declares", "silent", "fails"}, file : File]

VARIABLES
    tree, options,  \* the arguments of the scan
    at,             \* the entry WalkDir is at
    listing,        \* has visit let WalkDir read this directory?
    summary, tasks, declared, errors, skipped,  \* fileDiscovery
    walk            \* "walking", "done" or "failed"

found == <<summary, tasks, declared, errors, skipped>>
wvars == <<tree, options, ctxDone, at, listing, found, walk>>

entry == tree[at]

WInit ==
    /\ tree \in Trees /\ options \in Options
    /\ ctxDone = FALSE
    /\ at = 1 /\ listing = FALSE
    /\ summary = EmptySummary
    /\ tasks = <<>> /\ declared = <<>> /\ errors = <<>> /\ skipped = <<>>
    /\ walk = "walking"

-----------------------------------------------------------------------------
(* Every call of visit first looks at the context.                         *)
Visiting == walk = "walking" /\ at <= Len(tree) /\ ~ctxDone

MoveTo(position) ==
    at' = position /\ listing' = FALSE /\ UNCHANGED <<tree, options, ctxDone, walk>>

Advance == MoveTo(at + 1)

(* filepath.SkipDir passes over all that lies within the directory.        *)
SkipDir == MoveTo(entry.last + 1)

AddSkip(reason, counter) ==
    /\ skipped' = Append(skipped, <<entry.path, reason>>)
    /\ summary' = counter
    /\ UNCHANGED <<tasks, declared, errors>>

AddError(text, counted) ==
    /\ errors' = Append(errors, <<entry.path, text>>)
    /\ summary' = counted
    /\ UNCHANGED <<tasks, declared, skipped>>

(* skippedDirectoryReason                                                  *)
NameReason(e, opts) ==
    CASE e.name = ".git" -> "version-control"
      [] e.name = "configured" -> "configured-directory"
      [] e.name = "hidden" /\ ~opts.NoDefaultSkip -> "hidden-directory"
      [] e.name = "default" /\ ~opts.NoDefaultSkip -> "project-scope"
      [] OTHER -> "none"

(* visitDirectory: never the root, and depth overrides any other reason.   *)
DirectoryReason(e, opts) ==
    CASE e.depth = 0 -> "none"
      [] e.depth > 0 /\ opts.MaxDepth > 0 /\ e.depth > opts.MaxDepth -> "depth"
      [] OTHER -> NameReason(e, opts)

SkipDirectory ==
    LET reason == DirectoryReason(entry, options)
    IN  /\ Visiting /\ entry.dir /\ ~listing
        /\ reason # "none"
        /\ AddSkip(reason, [summary EXCEPT !.directories = @ + 1])
        /\ SkipDir

EnterDirectory ==
    /\ Visiting /\ entry.dir /\ ~listing
    /\ DirectoryReason(entry, options) = "none"
    /\ listing' = TRUE
    /\ UNCHANGED <<tree, options, ctxDone, at, found, walk>>

(* WalkDir reads the directory; that does not look at the context.         *)
ListDirectory ==
    /\ walk = "walking" /\ listing /\ entry.listable
    /\ Advance
    /\ UNCHANGED found

(* It cannot be read: visit is called on the directory a second time, with *)
(* the error, and skips it.                                                *)
UnlistableDirectory ==
    /\ Visiting /\ listing /\ ~entry.listable
    /\ AddError("walk", summary)
    /\ SkipDir

-----------------------------------------------------------------------------
AtFile == Visiting /\ ~entry.dir /\ entry.depth > 0

(* The limit noticed one file too late.                                    *)
LimitPassed ==
    options.MaxFiles > 0 /\ summary.visited > options.MaxFiles

LimitReached ==
    options.MaxFiles > 0 /\ summary.visited >= options.MaxFiles

(* visitFile: the file limit stops the walk at the first file beyond it.   *)
StopAtLimit ==
    /\ AtFile /\ LimitReached
    /\ summary' = [summary EXCEPT !.truncated = TRUE]
    /\ walk' = "done"
    /\ UNCHANGED <<tree, options, ctxDone, at, listing, tasks, declared,
                   errors, skipped>>

Visited == [summary EXCEPT !.visited = @ + 1]

(* A symlink is skipped before it is counted.                              *)
SkipSymlinkUncounted ==
    /\ AtFile /\ ~LimitReached /\ entry.symlink
    /\ AddSkip("symlink", [summary EXCEPT !.other = @ + 1])
    /\ Advance

SkipSymlink ==
    /\ AtFile /\ ~LimitReached /\ entry.symlink
    /\ AddSkip("symlink", [Visited EXCEPT !.other = @ + 1])
    /\ Advance

StatFails ==
    /\ AtFile /\ ~LimitReached /\ ~entry.symlink /\ ~entry.stat
    /\ AddError("info", Visited)
    /\ Advance

(* Without the return after a size skip: the file becomes a task as well.  *)
MeasureWithoutReturn ==
    \/ /\ ~entry.regular
       /\ AddSkip("non-regular", [Visited EXCEPT !.other = @ + 1])
    \/ /\ entry.regular
       /\ summary' = Visited
       /\ tasks' = Append(tasks, entry.file)
       /\ skipped' = IF entry.large
                     THEN Append(skipped, <<entry.path, "size">>) ELSE skipped
       /\ UNCHANGED <<declared, errors>>

(* What the rest of visitFile has in common with discoverExplicitFile.     *)
Measure ==
    \/ /\ ~entry.regular
       /\ AddSkip("non-regular", [Visited EXCEPT !.other = @ + 1])
    \/ /\ entry.regular /\ entry.large
       /\ AddSkip("size", [Visited EXCEPT !.size = @ + 1])
    \/ /\ entry.regular /\ ~entry.large
       /\ summary' = Visited
       /\ tasks' = Append(tasks, entry.file)
       /\ declared' = IF entry.manifest = "declares"
                      THEN Append(declared, entry.path) ELSE declared
       /\ errors' = IF entry.manifest = "fails"
                    THEN Append(errors, <<entry.path, "manifest">>) ELSE errors
       /\ UNCHANGED skipped

VisitFile ==
    /\ AtFile /\ ~LimitReached /\ ~entry.symlink /\ entry.stat
    /\ Measure
    /\ Advance

(* The root is itself a file: os.Stat followed its symlinks, the file      *)
(* limit does not apply, and no call of visit looks at the context.        *)
ExplicitFile ==
    /\ walk = "walking" /\ at = 1 /\ ~entry.dir /\ entry.depth = 0
    /\ Measure
    /\ Advance

EndOfWalk ==
    /\ walk = "walking" /\ at > Len(tree)
    /\ walk' = "done"
    /\ UNCHANGED <<tree, options, ctxDone, at, listing, found>>

(* os.Stat of the root, or EvalSymlinks of a root that is a directory,     *)
(* fails before the first call of visit.                                   *)
RootFails ==
    /\ walk = "walking" /\ at = 1 /\ ~listing
    /\ walk' = "failed"
    /\ UNCHANGED <<tree, options, ctxDone, at, listing, found>>

(* A call of visit that finds the context canceled ends discoverFiles with *)
(* that error, and scanRepository with it.                                 *)
Interrupted ==
    /\ walk = "walking" /\ at <= Len(tree) /\ ctxDone
    /\ ~(listing /\ entry.listable)
    /\ walk' = "failed"
    /\ UNCHANGED <<tree, options, ctxDone, at, listing, found>>

Walk ==
    \/ SkipDirectory \/ EnterDirectory \/ ListDirectory \/ UnlistableDirectory
    \/ StopAtLimit \/ SkipSymlink \/ StatFails \/ VisitFile
    \/ ExplicitFile \/ EndOfWalk \/ RootFails \/ Interrupted

(* What scanRepository takes over from the walk.                           *)
Discovery ==
    [summary |-> summary, tasks |-> tasks, declared |-> declared,
     errors |-> errors, skipped |-> skipped]

-----------------------------------------------------------------------------
(* Directories the walk goes into, and the files it therefore meets.       *)
Open(i) == DirectoryReason(tree[i], options) = "none" /\ tree[i].listable
Inside(i, j) == i < j /\ j <= tree[i].last
Met(j) == \A i \in DOMAIN tree : tree[i].dir /\ Inside(i, j) => Open(i)
MetFiles == {j \in DOMAIN tree : ~tree[j].dir /\ Met(j)}

(* The place of j among the members of S.                                  *)
Place(S, j) == Cardinality({k \in S : k <= j})

Rejected(j) ==
    \/ tree[j].depth > 0 /\ (tree[j].symlink \/ ~tree[j].stat)
    \/ ~tree[j].regular \/ tree[j].large

(* The files the limit allows, and those of them that can be scanned.      *)
Limited == options.MaxFiles > 0 /\ tree[1].dir
WithinLimit ==
    {j \in MetFiles : Limited => Place(MetFiles, j) <= options.MaxFiles}
UsableWithin == {j \in WithinLimit : ~Rejected(j)}

(* Do the tasks hold the files of U, in walk order?                        *)
TasksAre(U) ==
    /\ Len(tasks) = Cardinality(U)
    /\ \A j \in U : tasks[Place(U, j)] = tree[j].file

(* When the walk is done the tasks are, in walk order, exactly the usable  *)
(* files among the first MaxFiles files outside skipped and unreadable     *)
(* directories, and the scan is truncated only if there were more.  The    *)
(* order of the checks in visit, visitDirectory and visitFile.             *)
DiscoveryExact ==
    walk = "done" =>
        /\ TasksAre(UsableWithin)
        /\ summary.visited = Cardinality(WithinLimit)
        /\ summary.truncated <=> WithinLimit # MetFiles

(* No path has two fates: a path is skipped at most once, a skipped path   *)
(* is neither a task nor an error, and only a manifest that cannot be read *)
(* or parsed gives a task an error as well.                                *)
OneFate ==
    /\ \A i, j \in DOMAIN skipped : skipped[i][1] = skipped[j][1] => i = j
    /\ \A i, j \in DOMAIN errors : errors[i][1] = errors[j][1] => i = j
    /\ \A i \in DOMAIN skipped : \A j \in DOMAIN errors :
           skipped[i][1] # errors[j][1]
    /\ \A n \in DOMAIN tasks :
           /\ \A i \in DOMAIN skipped : skipped[i][1] # tasks[n].path
           /\ \A j \in DOMAIN errors :
                  errors[j][1] = tasks[n].path => errors[j][2] = "manifest"
=============================================================================
