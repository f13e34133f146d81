--------------------------- MODULE ScanRepository ---------------------------
(***************************************************************************)
(* scanRepository (scan.go) from end to end: the walk of RepositoryWalk,   *)
(* then the worker pool of ScanPipeline on the tasks it left, under one    *)
(* context that may be canceled anywhere, and what the command makes of    *)
(* the result (cmd/licenses/main.go): its exit status.                     *)
(***************************************************************************)
EXTENDS RepositoryWalk, ScanPipeline

(* What filepath.WalkDir says of its calls: the first entry is the root,   *)
(* and holds all others; a file holds nothing but itself; what lies within *)
(* an entry lies within all that this entry lies within; and no two        *)
(* entries have the same path.                                             *)
ASSUME WalkAssumption ==
    /\ \A t \in Trees :
          /\ t \in Seq(Entry) /\ t # <<>>
          /\ \A i \in DOMAIN t :
                /\ t[i].last \in i..Len(t)
                /\ t[i].depth = 0 <=> i = 1
                /\ ~t[i].dir => t[i].last = i
                /\ t[i].file.path = t[i].path
                /\ \A j \in i..t[i].last : t[j].last <= t[i].last
                /\ \A j \in DOMAIN t : t[i].path = t[j].path => i = j
          /\ t[1].last = Len(t)
    /\ Options \subseteq [MaxDepth : Nat, MaxFiles : Nat,
                          NoDefaultSkip : BOOLEAN]

walkVars == <<tree, options, at, listing, summary, tasks, declared, errors,
              skipped, walk>>
pipeVars == <<discovery, taken, pc, outcome, closed, main, received>>
rvars == <<walkVars, pipeVars, ctxDone>>

NoDiscovery == [summary |-> EmptySummary, tasks |-> <<>>, declared |-> <<>>,
                errors |-> <<>>, skipped |-> <<>>]

RInit ==
    /\ WInit
    /\ discovery = NoDiscovery /\ taken = 0 /\ pc = <<>> /\ outcome = <<>>
    /\ closed = FALSE /\ main = "discover" /\ received = <<>>

(* discoverFiles runs to its end before any worker exists.                 *)
Discover == main = "discover" /\ Walk /\ UNCHANGED pipeVars

(* Its error, of the root or the context, is scanRepository's.             *)
DiscoveryFails ==
    /\ main = "discover" /\ walk = "failed"
    /\ main' = "canceled"
    /\ UNCHANGED <<walkVars, discovery, taken, pc, outcome, closed, received,
                   ctxDone>>

(* The report takes over what was discovered, and scanFiles starts.        *)
StartScan ==
    /\ main = "discover" /\ walk = "done"
    /\ discovery' = Discovery
    /\ taken' = 0
    /\ pc' = [w \in 1..WorkerCount(tasks) |-> "receive"]
    /\ outcome' = [w \in 1..WorkerCount(tasks) |-> NoOutcome(0)]
    /\ closed' = (tasks = <<>>)
    /\ main' = "collect"
    /\ received' = <<>>
    /\ UNCHANGED <<walkVars, ctxDone>>

Scan ==
    /\ main \in {"collect", "check"}
    /\ \/ \E w \in Workers : Worker(w)
       \/ Close \/ Finish \/ Return
    /\ UNCHANGED walkVars

RCancel == ~ctxDone /\ ctxDone' = TRUE /\ UNCHANGED <<walkVars, pipeVars>>

ROver == main \in {"returned", "canceled"} /\ UNCHANGED rvars

RNext ==
    Discover \/ DiscoveryFails \/ StartScan \/ Scan \/ RCancel \/ ROver

RSpec ==
    /\ RInit /\ [][RNext]_rvars
    /\ WF_rvars(Discover) /\ WF_rvars(DiscoveryFails) /\ WF_rvars(StartScan)
    /\ \A w \in 1..MaxWorkers :
           WF_rvars(main = "collect" /\ w \in Workers /\ Worker(w)
                    /\ UNCHANGED walkVars)
    /\ WF_rvars(main # "discover" /\ (Close \/ Finish \/ Return)
                /\ UNCHANGED walkVars)

-----------------------------------------------------------------------------
report == ReportOf(discovery, received)

(* Without the test of Truncated.                                          *)
ExitCodeUntruncated ==
    CASE main = "canceled" -> 1
      [] main = "returned" /\ report.errors # <<>> -> 2
      [] main = "returned" /\ report.errors = <<>>
            /\ DOMAIN report.expressions = {} -> 3
      [] OTHER -> 0

(* reportExitCode of the command; an error of scanRepository is fatal.     *)
ExitCode ==
    CASE main = "canceled" -> 1
      [] main = "returned" /\ (report.errors # <<>> \/ report.summary.truncated)
            -> 2
      [] main = "returned" /\ report.errors = <<>>
            /\ ~report.summary.truncated /\ DOMAIN report.expressions = {} -> 3
      [] OTHER -> 0

(* The counters of a returned report add up: every visited file was        *)
(* scanned, or skipped for one of three reasons, or has an error that kept *)
(* it from being scanned.  The walk and the pipeline share the size        *)
(* counter: a file may outgrow the limit between the two.                  *)
ReportAddsUp ==
    main = "returned" =>
        LET s == report.summary
            Unscanned == {i \in DOMAIN report.errors :
                              report.errors[i][2] \in {"info", "unreadable"}}
        IN  /\ s.visited = s.scanned + s.binary + s.size + s.other
                               + Cardinality(Unscanned)
            /\ s.directories + s.binary + s.size + s.other = Len(report.skipped)
            /\ s.errors = Len(report.errors)
            /\ s.bytes = Total([n \in DOMAIN tasks |-> tasks[n].size],
                               {n \in DOMAIN tasks : tasks[n].read = "text"})

(* What the walk reports of an entry it meets: a directory it cannot list, *)
(* a file it cannot stat, a manifest it cannot read or parse.              *)
WalkError(j) ==
    LET e == tree[j]
    IN  \/ e.dir /\ DirectoryReason(e, options) = "none" /\ ~e.listable
        \/ ~e.dir /\ e.depth > 0 /\ ~e.symlink /\ ~e.stat
        \/ ~e.dir /\ ~Rejected(j) /\ e.manifest = "fails"

(* What the scan reports of a file that the walk made a task.              *)
ScanError(j) ==
    LET e == tree[j]
    IN  /\ ~e.dir /\ ~Rejected(j)
        /\ \/ e.file.read = "unreadable"
           \/ e.file.read = "text" /\ e.file.overflow

Incomplete ==
    \/ WithinLimit # MetFiles
    \/ \E j \in DOMAIN tree : Met(j) /\ (WalkError(j) \/ ScanError(j))

Licensed(j) == tree[j].file.read = "text" /\ Detected(tree[j].file) # {}

(* README.md: "Exit status 0 means detections were found, [...] 2 means    *)
(* the scan was incomplete because of per-file errors or the file limit,   *)
(* and 3 means no conclusive detections were found."  Said of the tree     *)
(* alone: the status is 2 exactly when something the walk is meant to meet *)
(* could not be looked at, or the limit left files out; otherwise it is 0  *)
(* when a file within the limits holds a license, and 3 when none does.    *)
ExitStatusTrue ==
    main = "returned" =>
        /\ ExitCode \in {0, 2, 3}
        /\ ExitCode = 2 <=> Incomplete
        /\ ExitCode = 0 <=>
               ~Incomplete /\ \E j \in MetFiles : ~Rejected(j) /\ Licensed(j)

(* The command ends, with a status that is fatal exactly when there is no  *)
(* report, whenever it is interrupted.                                     *)
CommandEnds == <>(main \in {"returned", "canceled"})
=============================================================================
