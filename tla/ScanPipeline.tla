---------------------------- MODULE ScanPipeline ----------------------------
(***************************************************************************)
(* The concurrent part of scanRepository (scan.go): scanFiles hands the    *)
(* discovered tasks to a pool of worker goroutines over a channel that is  *)
(* filled and closed before they start; each worker scans a file and       *)
(* offers the outcome on an unbuffered channel, giving up when the context *)
(* is done; a closer goroutine closes that channel when every worker has   *)
(* exited; the caller ranges over it, then looks at the context once more  *)
(* before it returns the report.                                           *)
(*                                                                         *)
(* The report under construction is a fold over the outcomes received, so  *)
(* the model keeps that sequence and ScanReport!ReportOf is the fold.      *)
(***************************************************************************)
EXTENDS ScanContext

CONSTANTS
    Discoveries,  \* the discoveries a scan may start from
    Requested,    \* ScanOptions.Workers
    MaxWorkers    \* the cap on workers, 16 in the code

ASSUME PipelineAssumption ==
    /\ Requested \in Nat \ {0}     \* validateScanOptions
    /\ MaxWorkers \in Nat \ {0}
    /\ \A d \in Discoveries : IsDiscovery(d)

VARIABLES
    discovery,  \* what discoverFiles left; its tasks are the jobs
    taken,      \* how many tasks have left the jobs channel
    pc,         \* where each worker goroutine is
    outcome,    \* the fileOutcome each worker is building
    closed,     \* has the closer closed the outcomes channel?
    main,       \* where scanRepository is
    received    \* the outcomes it has received, in order

vars == <<discovery, ctxDone, taken, pc, outcome, closed, main, received>>

Smaller(a, b) == IF a < b THEN a ELSE b

(* effectiveWorkerCount                                                    *)
WorkerCount(files) == Smaller(Smaller(Requested, MaxWorkers), Len(files))

Workers == 1..WorkerCount(discovery.tasks)

Busy(w) == pc[w] \in {"read", "match", "send"}

-----------------------------------------------------------------------------
(* The workers are started with every job already in the channel; without  *)
(* tasks there are no workers and the outcomes channel starts out closed.  *)
StartOn(d) ==
    /\ discovery = d
    /\ taken = 0
    /\ pc = [w \in 1..WorkerCount(d.tasks) |-> "receive"]
    /\ outcome = [w \in 1..WorkerCount(d.tasks) |-> NoOutcome(0)]
    /\ closed = (d.tasks = <<>>)
    /\ main = "collect"
    /\ received = <<>>

Init == ctxDone = FALSE /\ \E d \in Discoveries : StartOn(d)

(* A receive that ignores that the channel is empty and closed.            *)
TakePastEnd(w) ==
    /\ pc[w] = "receive"
    /\ taken' = taken + 1
    /\ outcome' = [outcome EXCEPT ![w] = NoOutcome(taken + 1)]
    /\ pc' = [pc EXCEPT ![w] = "read"]
    /\ UNCHANGED <<discovery, ctxDone, closed, main, received>>

(* `for task := range jobs`: the next task, in discovery order.            *)
Take(w) ==
    /\ pc[w] = "receive"
    /\ taken < Len(discovery.tasks)
    /\ taken' = taken + 1
    /\ outcome' = [outcome EXCEPT ![w] = NoOutcome(taken + 1)]
    /\ pc' = [pc EXCEPT ![w] = "read"]
    /\ UNCHANGED <<discovery, ctxDone, closed, main, received>>

(* Without close(jobs): the worker waits forever for another task.         *)
WaitForever(w) ==
    /\ pc[w] = "receive"
    /\ taken = Len(discovery.tasks)
    /\ UNCHANGED vars

(* The jobs channel is empty and closed: the worker is done.               *)
Exhausted(w) ==
    /\ pc[w] = "receive"
    /\ taken = Len(discovery.tasks)
    /\ pc' = [pc EXCEPT ![w] = "done"]
    /\ UNCHANGED <<discovery, ctxDone, taken, outcome, closed, main, received>>

(* scanFile up to its call of Match: reading does not look at the context. *)
Read(w) ==
    LET t    == outcome[w].task
        file == discovery.tasks[t]
    IN  /\ pc[w] = "read"
        /\ outcome' = [outcome EXCEPT ![w] = ReadOutcome(file, t)]
        /\ pc' = [pc EXCEPT ![w] = IF file.read = "text" THEN "match"
                                                         ELSE "send"]
        /\ UNCHANGED <<discovery, ctxDone, taken, closed, main, received>>

(* matcher.Match, as of its last look at the context: the error it answers *)
(* with still counts the file as scanned.                                  *)
Match(w) ==
    LET t == outcome[w].task
    IN  /\ pc[w] = "match"
        /\ outcome' = [outcome EXCEPT ![w] =
               MatchOutcome(t, IF ctxDone THEN "canceled"
                               ELSE MatchError(discovery.tasks[t]))]
        /\ pc' = [pc EXCEPT ![w] = "send"]
        /\ UNCHANGED <<discovery, ctxDone, taken, closed, main, received>>

(* `case outcomes <- outcome`: a rendezvous with the ranging caller.       *)
Deliver(w) ==
    /\ pc[w] = "send"
    /\ main = "collect"
    /\ received' = Append(received, outcome[w])
    /\ pc' = [pc EXCEPT ![w] = "receive"]
    /\ UNCHANGED <<discovery, ctxDone, taken, outcome, closed, main>>

(* `default:` in place of `case <-ctx.Done()`.                             *)
AbandonIfBlocked(w) ==
    /\ pc[w] = "send"
    /\ pc' = [pc EXCEPT ![w] = "done"]
    /\ UNCHANGED <<discovery, ctxDone, taken, outcome, closed, main, received>>

(* `case <-ctx.Done(): return`: the outcome is dropped.                    *)
Abandon(w) ==
    /\ pc[w] = "send"
    /\ ctxDone
    /\ pc' = [pc EXCEPT ![w] = "done"]
    /\ UNCHANGED <<discovery, ctxDone, taken, outcome, closed, main, received>>

(* `workers.Wait(); close(outcomes)`                                       *)
Close ==
    /\ ~closed
    /\ \A w \in Workers : pc[w] = "done"
    /\ closed' = TRUE
    /\ UNCHANGED <<discovery, ctxDone, taken, pc, outcome, main, received>>

(* A caller that stops ranging as soon as the context is done.             *)
FinishEarly ==
    /\ main = "collect"
    /\ closed \/ ctxDone
    /\ main' = "check"
    /\ UNCHANGED <<discovery, ctxDone, taken, pc, outcome, closed, received>>

(* The range loop ends, and ctx.Err() decides what the caller gets.        *)
Finish ==
    /\ main = "collect"
    /\ closed
    /\ main' = "check"
    /\ UNCHANGED <<discovery, ctxDone, taken, pc, outcome, closed, received>>

(* Without the last ctx.Err().                                             *)
ReturnAnyway ==
    /\ main = "check"
    /\ main' = "returned"
    /\ UNCHANGED <<discovery, ctxDone, taken, pc, outcome, closed, received>>

Return ==
    /\ main = "check"
    /\ main' = IF ctxDone THEN "canceled" ELSE "returned"
    /\ UNCHANGED <<discovery, ctxDone, taken, pc, outcome, closed, received>>

(* The caller, a signal or a deadline cancels the context, at any time.    *)
Cancel ==
    /\ ~ctxDone
    /\ ctxDone' = TRUE
    /\ UNCHANGED <<discovery, taken, pc, outcome, closed, main, received>>

(* Nothing is left running.                                                *)
Terminated ==
    /\ main \in {"returned", "canceled"}
    /\ closed
    /\ \A w \in Workers : pc[w] = "done"
    /\ UNCHANGED vars

Worker(w) ==
    Take(w) \/ Exhausted(w) \/ Read(w) \/ Match(w) \/ Deliver(w) \/ Abandon(w)

Next ==
    \/ \E w \in Workers : Worker(w)
    \/ Close \/ Finish \/ Return \/ Cancel \/ Terminated

(* Every goroutine that can run eventually runs; nobody has to cancel.     *)
Fairness ==
    /\ \A w \in 1..MaxWorkers : WF_vars(w \in Workers /\ Worker(w))
    /\ WF_vars(Close)
    /\ WF_vars(Finish \/ Return)

Spec == Init /\ [][Next]_vars /\ Fairness

-----------------------------------------------------------------------------
TypeOK ==
    /\ IsDiscovery(discovery)
    /\ ctxDone \in BOOLEAN
    /\ taken \in 0..Len(discovery.tasks)
    /\ pc \in [Workers -> {"receive", "read", "match", "send", "done"}]
    /\ outcome \in [Workers -> Outcome]
    /\ closed \in BOOLEAN
    /\ main \in {"collect", "check", "returned", "canceled"}
    /\ received \in Seq(Outcome)

Holds(w, t) == Busy(w) /\ outcome[w].task = t

Reported(t) == \E i \in DOMAIN received : received[i].task = t

(* A task that has left the jobs channel is never duplicated and, unless   *)
(* the context is done, never lost: one worker holds it or its outcome was *)
(* received, never both.  scanFiles: the jobs loop and the select.         *)
TasksConserved ==
    /\ \A i, j \in DOMAIN received :
           received[i].task = received[j].task => i = j
    /\ \A v, w \in Workers :
           Busy(v) /\ Busy(w) /\ outcome[v].task = outcome[w].task => v = w
    /\ \A w \in Workers : Busy(w) => ~Reported(outcome[w].task)
    /\ \A t \in 1..taken :
           ctxDone \/ Reported(t) \/ \E w \in Workers : Holds(w, t)

(* A report is returned only with the true outcome of every discovered     *)
(* task in it: none is missing, and none is the error of a matcher that    *)
(* gave up on a canceled context.  The last ctx.Err() of scanRepository.   *)
ReturnedComplete ==
    main = "returned" =>
        /\ \A t \in DOMAIN discovery.tasks : Reported(t)
        /\ \A i \in DOMAIN received :
               LET t == received[i].task
               IN  received[i] = TrueOutcome(discovery.tasks[t], t)

(* scanRepository does not return before its worker goroutines and the     *)
(* closer have exited, canceled or not: no goroutine is left behind        *)
(* blocked on a channel nobody reads.                                      *)
NoGoroutineLeft ==
    main \in {"returned", "canceled"} =>
        closed /\ \A w \in Workers : pc[w] = "done"

(* Scanning comes to an end, whatever is canceled and when.                *)
Terminates == <>(main \in {"returned", "canceled"})

Result ==
    CASE main = "returned" ->
            [status |-> "returned", report |-> ReportOf(discovery, received)]
      [] main = "canceled" -> [status |-> "canceled"]
      [] main \in {"collect", "check"} -> [status |-> "pending"]

Contract == INSTANCE ScanContract
            WITH ReportFor <- ExpectedReport, result <- Result

(* The concurrent scan implements the atomic one: the report does not      *)
(* depend on the schedule (the doc of ScanReport calls it deterministic),  *)
(* and a canceled scan has none.                                           *)
ImplementsContract == Contract!CSpec
=============================================================================
