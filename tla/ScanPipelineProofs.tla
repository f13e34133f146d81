------------------------- MODULE ScanPipelineProofs -------------------------
(***************************************************************************)
(* The safety of ScanPipeline for any number of tasks and workers, and     *)
(* that it implements ScanContract: the report does not depend on the      *)
(* order in which the outcomes arrive.                                     *)
(*                                                                         *)
(* The invariant IInv comes first.  The lemmas about the report follow:    *)
(* what the loop over the outcomes has built when it has received those of *)
(* a set S of tasks is CollectedFrom(report, discovery, S), in which       *)
(* nothing speaks of an order; each outcome takes S to S \cup {t}          *)
(* (CollectStep); with every task in S the sorts erase the order that is   *)
(* left (ReportIsExpected).                                                *)
(***************************************************************************)
EXTENDS ScanPipeline, FiniteSetTheorems, NaturalsInduction, TLAPS

(* What a worker holds and what was received are tasks already taken.      *)
TasksTaken ==
    /\ \A w \in Workers : Busy(w) => outcome[w].task \in 1..taken
    /\ \A i \in DOMAIN received : received[i].task \in 1..taken

IsTrue(o) == o = TrueOutcome(discovery.tasks[o.task], o.task)

(* Until the context is done, every outcome is the true one.               *)
TrueUntilCanceled ==
    /\ \A w \in Workers :
           pc[w] = "match" => discovery.tasks[outcome[w].task].read = "text"
    /\ ~ctxDone => \A w \in Workers : pc[w] = "send" => IsTrue(outcome[w])
    /\ ~ctxDone => \A i \in DOMAIN received : IsTrue(received[i])

(* Workers exit early only because of the context.                         *)
ExitsInOrder ==
    /\ \A w \in Workers :
           pc[w] = "done" => ctxDone \/ taken = Len(discovery.tasks)
    /\ closed => \A w \in Workers : pc[w] = "done"
    /\ main # "collect" => closed

IInv ==
    /\ TypeOK
    /\ TasksTaken
    /\ TasksConserved
    /\ TrueUntilCanceled
    /\ ExitsInOrder
    /\ ReturnedComplete

-----------------------------------------------------------------------------
(* Reading and matching yield outcomes of the task they are about.         *)
LEMMA OutcomeType ==
    ASSUME NEW file \in File, NEW t \in Nat, NEW err \in Texts
    PROVE  /\ NoOutcome(t) \in Outcome
           /\ NoOutcome(t).task = t
           /\ ReadOutcome(file, t) \in Outcome
           /\ ReadOutcome(file, t).task = t
           /\ MatchOutcome(t, err) \in Outcome
           /\ MatchOutcome(t, err).task = t
           /\ MatchError(file) \in Texts
BY DEF Outcome, NoOutcome, ReadOutcome, MatchOutcome, MatchError, Texts, File

(* What the assumption on the parameters says of the pool, and what a      *)
(* discovery says of its tasks.                                            *)
LEMMA Parameters ==
    /\ Requested \in Nat \ {0}
    /\ MaxWorkers \in Nat \ {0}
    /\ \A d : IsDiscovery(d) => d.tasks \in Seq(File)
BY PipelineAssumption DEF IsDiscovery

(* There is at least one worker when there is a task.                      *)
LEMMA SomeWorker ==
    ASSUME NEW files \in Seq(File)
    PROVE  /\ WorkerCount(files) \in Nat
           /\ files # <<>> => 1 \in 1..WorkerCount(files)
<1>1. Len(files) \in Nat /\ (files # <<>> => Len(files) >= 1)
  OBVIOUS
<1> QED BY <1>1, Parameters DEF WorkerCount, Smaller

(* A pool that starts on a discovery, wherever that comes from.            *)
Started == StartOn(discovery) /\ IsDiscovery(discovery) /\ ctxDone \in BOOLEAN

LEMMA StartIInv == Started => IInv
<1> DEFINE d == discovery
<1> SUFFICES ASSUME StartOn(d), IsDiscovery(d), ctxDone \in BOOLEAN
             PROVE  IInv
  BY DEF Started
<1> HIDE DEF d
<1>0. d = discovery
  BY DEF d
<1>1. d.tasks \in Seq(File)
  BY Parameters
<1>2. WorkerCount(d.tasks) \in Nat
  BY <1>1, SomeWorker
<1>3. NoOutcome(0) \in Outcome
  BY DEF NoOutcome, Outcome, Texts
<1>4. TypeOK
  <2>1. closed \in BOOLEAN
    <3>1. closed = (d.tasks = <<>>)
      BY DEF StartOn
    <3>2. (d.tasks = <<>>) \in BOOLEAN
      OBVIOUS
    <3> QED BY <3>1, <3>2
  <2>2. pc \in [Workers -> {"receive", "read", "match", "send", "done"}]
    BY DEF StartOn, Workers
  <2>3. outcome \in [Workers -> Outcome]
    BY <1>3 DEF StartOn, Workers
  <2>4. /\ IsDiscovery(discovery) /\ ctxDone \in BOOLEAN
        /\ main \in {"collect", "check", "returned", "canceled"}
    BY <1>0 DEF StartOn
  <2>5. taken \in 0..Len(discovery.tasks)
    <3>1. Len(d.tasks) \in Nat
      BY <1>1
    <3> QED BY <3>1 DEF StartOn
  <2>6. received \in Seq(Outcome)
    BY DEF StartOn
  <2> QED BY <2>1, <2>2, <2>3, <2>4, <2>5, <2>6 DEF TypeOK
<1>5. d.tasks = <<>> => Workers = {}
  BY <1>1, Parameters DEF StartOn, Workers, WorkerCount, Smaller
<1>6. TasksTaken /\ TasksConserved
  BY DEF StartOn, TasksTaken, TasksConserved, Busy, Workers, Reported
<1>7. TrueUntilCanceled
  BY DEF StartOn, TrueUntilCanceled, Workers
<1>8. ExitsInOrder /\ ReturnedComplete
  BY <1>5 DEF StartOn, ExitsInOrder, ReturnedComplete, Workers
<1> QED BY <1>4, <1>6, <1>7, <1>8 DEF IInv

LEMMA InitIInv == Init => IInv
<1> SUFFICES ASSUME NEW d \in Discoveries, StartOn(d), ctxDone = FALSE
             PROVE  IInv
  BY DEF Init
<1>1. d = discovery
  BY DEF StartOn
<1>2. IsDiscovery(discovery)
  BY <1>1, PipelineAssumption
<1>3. StartOn(discovery)
  BY <1>1
<1> QED BY <1>2, <1>3, StartIInv DEF Started

-----------------------------------------------------------------------------
(* Taking a task from the jobs channel keeps the invariant.                *)
LEMMA TakeIInv ==
    ASSUME IInv, NEW w \in Workers, Take(w)
    PROVE  IInv'
<1> USE DEF IInv
<1>1. /\ discovery' = discovery /\ Workers' = Workers
      /\ discovery.tasks \in Seq(File)
      /\ Len(discovery.tasks) \in Nat
  BY Parameters DEF TypeOK, Take, Workers
<1>2. /\ taken + 1 \in 1..Len(discovery.tasks)
      /\ taken \in Nat
      /\ NoOutcome(taken + 1) \in Outcome
      /\ NoOutcome(taken + 1).task = taken + 1
  BY <1>1 DEF TypeOK, Take, NoOutcome, Outcome, Texts
<1>3. /\ pc' = [pc EXCEPT ![w] = "read"]
      /\ outcome' = [outcome EXCEPT ![w] = NoOutcome(taken + 1)]
      /\ pc[w] = "receive"
      /\ taken' = taken + 1
      /\ UNCHANGED <<ctxDone, closed, main, received>>
  BY DEF Take
<1>4. TypeOK'
  BY <1>1, <1>2, <1>3 DEF TypeOK
<1>5. TasksTaken'
  BY <1>1, <1>2, <1>3 DEF TypeOK, TasksTaken, Busy
<1>6. TasksConserved'
  <2>1. \A i \in DOMAIN received : received[i].task # taken + 1
    BY <1>2 DEF TasksTaken
  <2>2. \A v \in Workers : v # w =>
            /\ Busy(v)' = Busy(v)
            /\ outcome'[v] = outcome[v]
            /\ Busy(v) => outcome[v].task # taken + 1
    BY <1>2, <1>3 DEF TypeOK, TasksTaken, Busy
  <2>3. Busy(w)' /\ outcome'[w].task = taken + 1 /\ ~Busy(w)
    BY <1>2, <1>3 DEF TypeOK, Busy
  <2>4. \A t \in 1..taken' : ctxDone' \/ Reported(t)'
                \/ \E v \in Workers' : Holds(v, t)'
    <3> SUFFICES ASSUME NEW t \in 1..(taken + 1), ~ctxDone, ~Reported(t)
                 PROVE  \E v \in Workers : Holds(v, t)'
      BY <1>1, <1>3 DEF Reported
    <3>1. CASE t = taken + 1
      BY <2>3, <3>1 DEF Holds
    <3>2. CASE t \in 1..taken
      <4>1. PICK v \in Workers : Holds(v, t)
        BY <3>2 DEF TasksConserved
      <4>2. v # w
        BY <2>3, <4>1 DEF Holds
      <4> QED BY <2>2, <4>1, <4>2 DEF Holds
    <3> QED BY <1>2, <3>1, <3>2
  <2> QED BY <1>1, <1>3, <2>1, <2>2, <2>3, <2>4 DEF TasksConserved, Reported
<1>7. TrueUntilCanceled'
  BY <1>1, <1>3 DEF TypeOK, TrueUntilCanceled, IsTrue
<1>8. ExitsInOrder'
  BY <1>1, <1>2, <1>3 DEF TypeOK, ExitsInOrder
<1>9. ReturnedComplete'
  BY <1>1, <1>3 DEF ReturnedComplete, Reported
<1> QED BY <1>4, <1>5, <1>6, <1>7, <1>8, <1>9

(* The pc and outcome of one worker change, and it stays busy with the     *)
(* task it had: reading and matching.                                      *)
LEMMA StillHeld ==
    ASSUME IInv, NEW w \in Workers, Read(w) \/ Match(w)
    PROVE  /\ Busy(w) /\ Busy(w)'
           /\ outcome[w].task \in 1..taken
           /\ discovery.tasks[outcome[w].task] \in File
           /\ outcome'[w] \in Outcome
           /\ outcome'[w].task = outcome[w].task
           /\ pc'[w] \in {"match", "send"}
           /\ pc' = [pc EXCEPT ![w] = pc'[w]]
           /\ outcome' = [outcome EXCEPT ![w] = outcome'[w]]
           /\ UNCHANGED <<discovery, ctxDone, taken, closed, main, received>>
<1> DEFINE t == outcome[w].task
           file == discovery.tasks[t]
<1>1. Busy(w) /\ t \in 1..taken
  BY DEF IInv, TasksTaken, Read, Match, Busy
<1>2. discovery.tasks \in Seq(File) /\ taken \in 0..Len(discovery.tasks)
  BY Parameters DEF IInv, TypeOK
<1>3. t \in Nat /\ file \in File
  BY <1>1, <1>2
<1>4. /\ ReadOutcome(file, t) \in Outcome
      /\ ReadOutcome(file, t).task = t
      /\ MatchError(file) \in Texts
      /\ \A err \in Texts : /\ MatchOutcome(t, err) \in Outcome
                            /\ MatchOutcome(t, err).task = t
  BY <1>3, OutcomeType, "none" \in Texts DEF Texts
<1>5. "canceled" \in Texts
  BY DEF Texts
<1>6. /\ pc \in [Workers -> {"receive", "read", "match", "send", "done"}]
      /\ outcome \in [Workers -> Outcome]
  BY DEF IInv, TypeOK
<1>7. CASE Read(w)
  BY <1>1, <1>3, <1>4, <1>6, <1>7 DEF Read, Busy
<1>8. CASE Match(w)
  <2>1. PICK err \in Texts : outcome' = [outcome EXCEPT ![w] = MatchOutcome(t, err)]
    BY <1>4, <1>5, <1>8 DEF Match
  <2> QED BY <1>1, <1>3, <1>4, <1>6, <1>8, <2>1 DEF Match, Busy
<1> QED BY <1>7, <1>8

(* Reading a file and matching it keep the invariant.                      *)
LEMMA ScanIInv ==
    ASSUME IInv, NEW w \in Workers, Read(w) \/ Match(w)
    PROVE  IInv'
<1> USE DEF IInv
<1>1. /\ Busy(w) /\ Busy(w)'
      /\ outcome'[w] \in Outcome
      /\ outcome'[w].task = outcome[w].task
      /\ pc'[w] \in {"match", "send"}
      /\ pc' = [pc EXCEPT ![w] = pc'[w]]
      /\ outcome' = [outcome EXCEPT ![w] = outcome'[w]]
      /\ UNCHANGED <<discovery, ctxDone, taken, closed, main, received>>
      /\ Workers' = Workers
  BY StillHeld DEF Workers
<1>2. TypeOK'
  BY <1>1 DEF TypeOK
<1>3. \A v \in Workers : Busy(v)' = Busy(v) /\ outcome'[v].task = outcome[v].task
  BY <1>1 DEF TypeOK, Busy
<1>4. TasksTaken'
  BY <1>1, <1>3 DEF TasksTaken
<1>5. TasksConserved'
  BY <1>1, <1>3 DEF TasksConserved, Reported, Holds
<1>6. TrueUntilCanceled'
  <2>1. pc'[w] = "match" => discovery.tasks[outcome'[w].task].read = "text"
    <3>1. CASE Read(w)
      BY <1>1, <3>1 DEF Read, TypeOK
    <3>2. CASE Match(w)
      BY <1>1, <3>2 DEF Match, TypeOK
    <3> QED BY <3>1, <3>2
  <2>2. ~ctxDone /\ pc'[w] = "send" => IsTrue(outcome'[w])
    <3>1. CASE Read(w)
      BY <1>1, <3>1 DEF Read, TypeOK, IsTrue, TrueOutcome
    <3>2. CASE Match(w)
      BY <1>1, <3>2 DEF Match, TypeOK, IsTrue, TrueOutcome, TrueUntilCanceled
    <3> QED BY <3>1, <3>2
  <2>3. \A v \in Workers : v # w => pc'[v] = pc[v] /\ outcome'[v] = outcome[v]
    BY <1>1 DEF TypeOK
  <2> QED BY <1>1, <2>1, <2>2, <2>3 DEF TrueUntilCanceled, IsTrue
<1>7. ExitsInOrder'
  BY <1>1 DEF TypeOK, ExitsInOrder, Busy
<1>8. ReturnedComplete'
  BY <1>1 DEF ReturnedComplete, Reported
<1> QED BY <1>2, <1>4, <1>5, <1>6, <1>7, <1>8

(* The rendezvous moves a task from its worker to the received outcomes.   *)
LEMMA DeliverIInv ==
    ASSUME IInv, NEW w \in Workers, Deliver(w)
    PROVE  IInv'
<1> USE DEF IInv
<1>1. /\ Busy(w) /\ ~Busy(w)' /\ pc[w] = "send"
      /\ pc' = [pc EXCEPT ![w] = "receive"]
      /\ main = "collect"
      /\ received' = Append(received, outcome[w])
      /\ UNCHANGED <<discovery, ctxDone, taken, outcome, closed, main>>
      /\ Workers' = Workers
  BY DEF Deliver, Busy, Workers, TypeOK
<1>2. received \in Seq(Outcome) /\ outcome[w] \in Outcome
  BY DEF TypeOK
<1>3. /\ DOMAIN received' = 1..(Len(received) + 1)
      /\ DOMAIN received = 1..Len(received)
      /\ Len(received) \in Nat
      /\ received'[Len(received) + 1] = outcome[w]
      /\ \A i \in 1..Len(received) : received'[i] = received[i]
  BY <1>1, <1>2
<1>4. \A v \in Workers : v # w => Busy(v)' = Busy(v)
  BY <1>1 DEF TypeOK, Busy
<1>5. TypeOK'
  BY <1>1, <1>2 DEF TypeOK
<1>6. TasksTaken'
  BY <1>1, <1>3, <1>4 DEF TasksTaken
<1>7. \A t : Reported(t)' <=> Reported(t) \/ t = outcome[w].task
  BY <1>3 DEF Reported
<1>8. TasksConserved'
  <2>1. \A i, j \in DOMAIN received' : received'[i].task = received'[j].task => i = j
    BY <1>1, <1>3 DEF TasksConserved, Reported
  <2>2. \A u, v \in Workers :
            Busy(u)' /\ Busy(v)' /\ outcome[u].task = outcome[v].task => u = v
    BY <1>1, <1>4 DEF TasksConserved
  <2>3. \A v \in Workers : Busy(v)' => ~Reported(outcome[v].task)'
    BY <1>1, <1>4, <1>7 DEF TasksConserved
  <2>4. \A t \in 1..taken :
            ctxDone \/ Reported(t)' \/ \E v \in Workers : Holds(v, t)'
    <3> SUFFICES ASSUME NEW t \in 1..taken, ~ctxDone, ~Reported(t)'
                 PROVE  \E v \in Workers : Holds(v, t)'
      OBVIOUS
    <3>1. PICK v \in Workers : Holds(v, t)
      BY <1>7 DEF TasksConserved
    <3>2. v # w
      BY <1>7, <3>1 DEF Holds
    <3> QED BY <1>1, <1>4, <3>1, <3>2 DEF Holds
  <2> QED BY <1>1, <2>1, <2>2, <2>3, <2>4 DEF TasksConserved
<1>9. TrueUntilCanceled'
  BY <1>1, <1>3 DEF TypeOK, TrueUntilCanceled, IsTrue
<1>10. ExitsInOrder'
  BY <1>1 DEF TypeOK, ExitsInOrder
<1>11. ReturnedComplete'
  BY <1>1 DEF ReturnedComplete
<1> QED BY <1>5, <1>6, <1>8, <1>9, <1>10, <1>11

(* A worker exits: with the jobs exhausted, or dropping its outcome.       *)
LEMMA ExitIInv ==
    ASSUME IInv, NEW w \in Workers, Exhausted(w) \/ Abandon(w)
    PROVE  IInv'
<1> USE DEF IInv
<1>1. /\ pc' = [pc EXCEPT ![w] = "done"]
      /\ UNCHANGED <<discovery, ctxDone, taken, outcome, closed, main, received>>
      /\ Workers' = Workers
      /\ ctxDone \/ (~Busy(w) /\ taken = Len(discovery.tasks))
  BY DEF Exhausted, Abandon, Workers, Busy
<1>2. \A v \in Workers : Busy(v)' => Busy(v) /\ v # w
  BY <1>1 DEF TypeOK, Busy
<1>3. \A v \in Workers : v # w => Busy(v)' = Busy(v)
  BY <1>1 DEF TypeOK, Busy
<1>4. TypeOK'
  BY <1>1 DEF TypeOK
<1>5. TasksTaken'
  BY <1>1, <1>2 DEF TasksTaken
<1>6. \A t : Reported(t)' = Reported(t)
  BY <1>1 DEF Reported
<1>7. TasksConserved'
  BY <1>1, <1>2, <1>3, <1>6 DEF TasksConserved, Holds
<1>8. TrueUntilCanceled'
  BY <1>1 DEF TypeOK, TrueUntilCanceled, IsTrue
<1>9. ExitsInOrder'
  BY <1>1 DEF TypeOK, ExitsInOrder
<1>10. ReturnedComplete'
  BY <1>1, <1>6 DEF ReturnedComplete
<1> QED BY <1>4, <1>5, <1>7, <1>8, <1>9, <1>10

(* The closer and the caller: the report is returned only when every       *)
(* worker ran out of jobs, so every task was received.                     *)
LEMMA CallerIInv ==
    ASSUME IInv, Close \/ Finish \/ Return
    PROVE  IInv'
<1> USE DEF IInv
<1>1. /\ UNCHANGED <<discovery, ctxDone, taken, pc, outcome, received>>
      /\ Workers' = Workers
      /\ \A w \in Workers : Busy(w)' = Busy(w)
      /\ \A t : Reported(t)' = Reported(t)
  BY DEF Close, Finish, Return, Workers, Busy, Reported
<1>2. TypeOK'
  BY <1>1 DEF TypeOK, Close, Finish, Return
<1>3. TasksTaken' /\ TasksConserved' /\ TrueUntilCanceled'
  BY <1>1 DEF TasksTaken, TasksConserved, TrueUntilCanceled, IsTrue, Holds
<1>4. ExitsInOrder'
  BY <1>1 DEF ExitsInOrder, Close, Finish, Return
<1>5. ReturnedComplete'
  <2>1. CASE Close \/ Finish
    BY <1>1, <2>1 DEF ReturnedComplete, Close, Finish
  <2>2. CASE Return
    <3> SUFFICES ASSUME ~ctxDone
                 PROVE  /\ \A t \in DOMAIN discovery.tasks : Reported(t)
                        /\ \A i \in DOMAIN received : IsTrue(received[i])
      BY <1>1, <2>2 DEF Return, ReturnedComplete, IsTrue
    <3>1. \A i \in DOMAIN received : IsTrue(received[i])
      BY DEF TrueUntilCanceled
    <3>2. \A w \in Workers : pc[w] = "done" /\ ~Busy(w)
      BY <2>2 DEF Return, ExitsInOrder, Busy
    <3>3. discovery.tasks \in Seq(File)
      BY Parameters DEF TypeOK
    <3>4. SUFFICES ASSUME NEW t \in DOMAIN discovery.tasks
                   PROVE  Reported(t)
      BY <3>1
    <3>5. 1 \in Workers
      BY <3>3, <3>4, SomeWorker DEF Workers
    <3>6. taken = Len(discovery.tasks)
      BY <3>2, <3>5 DEF ExitsInOrder
    <3>7. t \in 1..taken
      BY <3>3, <3>6
    <3> QED BY <3>2, <3>7 DEF TasksConserved, Holds
  <2> QED BY <2>1, <2>2
<1> QED BY <1>2, <1>3, <1>4, <1>5

LEMMA CancelIInv == IInv /\ Cancel => IInv'
<1> SUFFICES ASSUME IInv, Cancel PROVE IInv'
  OBVIOUS
<1>1. /\ ctxDone' = TRUE
      /\ UNCHANGED <<discovery, taken, pc, outcome, closed, main, received>>
      /\ Workers' = Workers
      /\ \A w \in Workers : Busy(w)' = Busy(w)
      /\ \A t : Reported(t)' = Reported(t)
  BY DEF Cancel, Workers, Busy, Reported
<1>2. TypeOK' /\ TasksTaken' /\ TasksConserved'
  BY <1>1 DEF IInv, TypeOK, TasksTaken, TasksConserved
<1>3. TrueUntilCanceled' /\ ExitsInOrder' /\ ReturnedComplete'
  BY <1>1 DEF IInv, TrueUntilCanceled, ExitsInOrder, ReturnedComplete
<1> QED BY <1>2, <1>3 DEF IInv

LEMMA StutterIInv == IInv /\ UNCHANGED vars => IInv'
<1> SUFFICES ASSUME IInv, UNCHANGED vars PROVE IInv'
  OBVIOUS
<1>1. /\ Workers' = Workers
      /\ \A w \in Workers : Busy(w)' = Busy(w)
      /\ \A t : Reported(t)' = Reported(t)
  BY DEF vars, Workers, Busy, Reported
<1> QED BY <1>1 DEF IInv, vars, TypeOK, TasksTaken, TasksConserved, Holds,
                    TrueUntilCanceled, IsTrue, ExitsInOrder, ReturnedComplete

LEMMA NextIInv == IInv /\ [Next]_vars => IInv'
<1> SUFFICES ASSUME IInv, [Next]_vars PROVE IInv'
  OBVIOUS
<1>1. ASSUME NEW w \in Workers, Worker(w) PROVE IInv'
  BY <1>1, TakeIInv, ScanIInv, DeliverIInv, ExitIInv DEF Worker
<1>2. CASE Close \/ Finish \/ Return
  BY <1>2, CallerIInv
<1>3. CASE Cancel
  BY <1>3, CancelIInv
<1>4. CASE Terminated \/ UNCHANGED vars
  BY <1>4, StutterIInv DEF Terminated
<1> QED BY <1>1, <1>2, <1>3, <1>4 DEF Next

LEMMA AlwaysIInv == Spec => []IInv
BY InitIInv, NextIInv, PTL DEF Spec

-----------------------------------------------------------------------------
(* Every variable keeps its type: in particular no worker ever takes a     *)
(* task beyond the discovered ones.                                        *)
THEOREM TypeCorrect == Spec => []TypeOK
BY AlwaysIInv, PTL DEF IInv

(* No task is scanned twice or reported twice, and none is lost while the  *)
(* context is live, with any number of workers and tasks.                  *)
THEOREM Conservation == Spec => []TasksConserved
BY AlwaysIInv, PTL DEF IInv

(* A returned report holds the true outcome of every discovered task.      *)
THEOREM Completeness == Spec => []ReturnedComplete
BY AlwaysIInv, PTL DEF IInv

(* When scanRepository returns, every goroutine it started has exited.     *)
THEOREM NoLeak == Spec => []NoGoroutineLeft
<1>1. IInv => NoGoroutineLeft
  BY DEF IInv, ExitsInOrder, NoGoroutineLeft
<1> QED BY <1>1, AlwaysIInv, PTL

-----------------------------------------------------------------------------
(* How many elements of the sequence s belong to A.                        *)
Holding(s, A) == Cardinality({k \in DOMAIN s : s[k] \in A})

(* It is a count: 0 when nothing does, the length when everything does.    *)
LEMMA HoldingOK ==
    ASSUME NEW V, NEW s \in Seq(V), NEW A
    PROVE  /\ IsFiniteSet({k \in DOMAIN s : s[k] \in A})
           /\ Holding(s, A) \in Nat
           /\ Holding(s, A) = 0 <=> \A k \in DOMAIN s : s[k] \notin A
           /\ V \subseteq A => Holding(s, A) = Len(s)
<1> DEFINE K == {k \in DOMAIN s : s[k] \in A}
<1>1. Len(s) \in Nat /\ DOMAIN s = 1..Len(s) /\ \A k \in DOMAIN s : s[k] \in V
  OBVIOUS
<1>2. IsFiniteSet(1..Len(s)) /\ Cardinality(1..Len(s)) = Len(s)
  BY <1>1, FS_Interval
<1>3. IsFiniteSet(K)
  BY <1>1, <1>2, FS_Subset
<1>4. Cardinality(K) \in Nat /\ (Cardinality(K) = 0 <=> K = {})
  BY <1>3, FS_CardinalityType, FS_EmptySet
<1>5. V \subseteq A => K = 1..Len(s)
  BY <1>1
<1> QED BY <1>1, <1>2, <1>3, <1>4, <1>5 DEF Holding

(* Append adds the element it appends.                                     *)
LEMMA HoldingAppended ==
    ASSUME NEW V, NEW s \in Seq(V), NEW v \in V, NEW A
    PROVE  Holding(Append(s, v), A) = Holding(s, A) + (IF v \in A THEN 1 ELSE 0)
<1> DEFINE K == {k \in DOMAIN s : s[k] \in A}
           L == {k \in DOMAIN Append(s, v) : Append(s, v)[k] \in A}
<1>1. Len(s) \in Nat /\ DOMAIN s = 1..Len(s)
  OBVIOUS
<1>2. IsFiniteSet(K) /\ Cardinality(K) \in Nat
  BY HoldingOK DEF Holding
<1>3. /\ DOMAIN Append(s, v) = 1..(Len(s) + 1)
      /\ \A k \in 1..Len(s) : Append(s, v)[k] = s[k]
      /\ Append(s, v)[Len(s) + 1] = v
  OBVIOUS
<1>4. Len(s) + 1 \notin K
  BY <1>1
<1>5. Holding(s, A) = Cardinality(K) /\ Holding(Append(s, v), A) = Cardinality(L)
  BY DEF Holding
<1>6. CASE v \in A
  <2>1. L = K \cup {Len(s) + 1}
    BY <1>1, <1>3, <1>6
  <2> HIDE DEF K, L
  <2> QED BY <1>2, <1>4, <1>6, <1>5, <2>1, FS_AddElement
<1>7. CASE v \notin A
  <2>1. L = K
    BY <1>1, <1>3, <1>7
  <2> HIDE DEF K, L
  <2> QED BY <1>2, <1>7, <1>5, <2>1
<1> QED BY <1>6, <1>7

(* Concatenation adds the counts.                                          *)
LEMMA HoldingJoined ==
    ASSUME NEW V, NEW s \in Seq(V), NEW q \in Seq(V), NEW A
    PROVE  Holding(s \o q, A) = Holding(s, A) + Holding(q, A)
<1> DEFINE K == {k \in DOMAIN s : s[k] \in A}
           L == {k \in DOMAIN q : q[k] \in A}
           M == {k \in DOMAIN (s \o q) : (s \o q)[k] \in A}
           N == {k \in (Len(s) + 1)..(Len(s) + Len(q)) : q[k - Len(s)] \in A}
           shift == [k \in L |-> k + Len(s)]
<1>1. /\ Len(s) \in Nat /\ DOMAIN s = 1..Len(s)
      /\ Len(q) \in Nat /\ DOMAIN q = 1..Len(q)
  OBVIOUS
<1>2. /\ IsFiniteSet(K) /\ Cardinality(K) \in Nat
      /\ IsFiniteSet(L) /\ Cardinality(L) \in Nat
  BY HoldingOK DEF Holding
<1>3. /\ DOMAIN (s \o q) = 1..(Len(s) + Len(q))
      /\ \A k \in 1..Len(s) : (s \o q)[k] = s[k]
      /\ \A k \in (Len(s) + 1)..(Len(s) + Len(q)) : (s \o q)[k] = q[k - Len(s)]
  OBVIOUS
<1>4. M = K \cup N
  BY <1>1, <1>3
<1>5. K \cap N = {}
  BY <1>1
<1>6. shift \in Bijection(L, N)
  <2>1. \A k \in L : k + Len(s) \in N
    BY <1>1
  <2>2. \A n \in N : n - Len(s) \in L /\ (n - Len(s)) + Len(s) = n
    BY <1>1
  <2>3. \A k, m \in L : k + Len(s) = m + Len(s) => k = m
    BY <1>1
  <2> HIDE DEF L, N
  <2>4. \A n \in N : \E k \in L : shift[k] = n
    BY <2>2
  <2> QED BY <2>1, <2>3, <2>4 DEF Bijection, Injection, Surjection, IsInjective
<1>7. IsFiniteSet(N) /\ Cardinality(N) = Cardinality(L)
  BY <1>2, <1>6, FS_Bijection DEF ExistsBijection
<1>8. Cardinality(M) = Cardinality(K) + Cardinality(N) - Cardinality(K \cap N)
  BY <1>2, <1>4, <1>7, FS_Union
<1>9. Cardinality(K \cap N) = 0
  BY <1>5, FS_EmptySet
<1>10. /\ Holding(s, A) = Cardinality(K) /\ Holding(q, A) = Cardinality(L)
       /\ Holding(s \o q, A) = Cardinality(M)
  BY DEF Holding
<1> HIDE DEF K, L, M, N
<1> QED BY <1>2, <1>7, <1>8, <1>9, <1>10

(* SetToSeq lists every element of a set once.                             *)
LEMMA HoldingListed ==
    ASSUME NEW S, IsFiniteSet(S), NEW A
    PROVE  SetToSeq(S) \in Seq(S) /\ Holding(SetToSeq(S), A) = Cardinality(S \cap A)
<1> DEFINE q == SetToSeq(S)
           n == Cardinality(S)
           K == {k \in 1..n : q[k] \in A}
           back == [k \in K |-> q[k]]
<1>1. n \in Nat /\ ExistsBijection(1..n, S)
  BY FS_CardinalityType
<1>2. \E f \in [1..n -> S] : IsInjective(f)
  BY <1>1 DEF ExistsBijection, Bijection, Injection
<1>3. q \in [1..n -> S] /\ IsInjective(q)
  BY <1>2 DEF SetToSeq
<1>4. q \in Seq(S) /\ DOMAIN q = 1..n
  BY <1>1, <1>3
<1>5. q \in Surjection(1..n, S)
  <2>1. q \in Injection(1..n, S)
    BY <1>3 DEF Injection
  <2>2. Cardinality(1..n) = n
    BY <1>1, FS_Interval
  <2> QED BY <2>1, <2>2, FS_Injection
<1>6. back \in Bijection(K, S \cap A)
  <2> HIDE DEF q
  <2>1. \A k \in K : q[k] \in S \cap A
    BY <1>3
  <2>2. \A v \in S \cap A : \E k \in K : q[k] = v
    BY <1>5 DEF Surjection
  <2>3. \A j, k \in K : q[j] = q[k] => j = k
    BY <1>3 DEF IsInjective
  <2> HIDE DEF K
  <2> QED BY <2>1, <2>2, <2>3 DEF Bijection, Injection, Surjection, IsInjective
<1>7. IsFiniteSet(K)
  <2>1. IsFiniteSet(1..n)
    BY <1>1, FS_Interval
  <2>2. K \in SUBSET (1..n)
    OBVIOUS
  <2> HIDE DEF K
  <2> QED BY <2>1, <2>2, FS_Subset
<1>8. Cardinality(S \cap A) = Cardinality(K)
  BY <1>6, <1>7, FS_Bijection DEF ExistsBijection
<1> QED BY <1>4, <1>8 DEF Holding

(* Sequences that hold the same elements as often are sorted alike.        *)
LEMMA RecordsSortedAlike ==
    ASSUME NEW a \in Seq(Record), NEW b \in Seq(Record),
           \A A : Holding(a, A) = Holding(b, A)
    PROVE  InOrder(a, Before) = InOrder(b, Before) /\ Len(a) = Len(b)
<1>1. Len(a) = Len(b)
  <2>1. Len(a) = Holding(a, Record)
    BY HoldingOK
  <2>2. Len(b) = Holding(b, Record)
    BY HoldingOK
  <2> QED BY <2>1, <2>2
<1>2. DOMAIN a = 1..Len(a) /\ DOMAIN b = 1..Len(b)
  OBVIOUS
<1>3. Range(a) = Range(b)
  <2>1. \A v : v \in Range(a) <=> Holding(a, {v}) # 0
    <3>1. \A v : Holding(a, {v}) = 0 <=> \A k \in DOMAIN a : a[k] \notin {v}
      BY HoldingOK
    <3> QED BY <3>1 DEF Range
  <2>2. \A v : v \in Range(b) <=> Holding(b, {v}) # 0
    <3>1. \A v : Holding(b, {v}) = 0 <=> \A k \in DOMAIN b : b[k] \notin {v}
      BY HoldingOK
    <3> QED BY <3>1 DEF Range
  <2> QED BY <2>1, <2>2
<1>4. \A k \in 1..Len(a) : a[k] \in Record /\ b[k] \in Record
  BY <1>1
<1>5. ASSUME NEW v
      PROVE  /\ Cardinality({k \in DOMAIN a : Before(a[k], v)})
                  = Cardinality({k \in DOMAIN b : Before(b[k], v)})
             /\ Cardinality({k \in DOMAIN a : ~Before(v, a[k])})
                  = Cardinality({k \in DOMAIN b : ~Before(v, b[k])})
  <2> DEFINE A == {x \in Record : Before(x, v)}
             B == {x \in Record : ~Before(v, x)}
  <2>1. /\ {k \in DOMAIN a : a[k] \in A} = {k \in DOMAIN a : Before(a[k], v)}
        /\ {k \in DOMAIN b : b[k] \in A} = {k \in DOMAIN b : Before(b[k], v)}
        /\ {k \in DOMAIN a : a[k] \in B} = {k \in DOMAIN a : ~Before(v, a[k])}
        /\ {k \in DOMAIN b : b[k] \in B} = {k \in DOMAIN b : ~Before(v, b[k])}
    BY <1>1, <1>2, <1>4
  <2>2. Holding(a, A) = Holding(b, A) /\ Holding(a, B) = Holding(b, B)
    OBVIOUS
  <2> QED BY <2>1, <2>2 DEF Holding
<1> DEFINE inA(i) == CHOOSE v \in Range(a) :
                   /\ Cardinality({k \in DOMAIN a : Before(a[k], v)}) < i
                   /\ i <= Cardinality({k \in DOMAIN a : ~Before(v, a[k])})
           inB(i) == CHOOSE v \in Range(b) :
                   /\ Cardinality({k \in DOMAIN b : Before(b[k], v)}) < i
                   /\ i <= Cardinality({k \in DOMAIN b : ~Before(v, b[k])})
<1>6. ASSUME NEW i \in 1..Len(a)
      PROVE  inA(i) = inB(i)
  <2> DEFINE P(v) == /\ v \in Range(a)
                     /\ Cardinality({k \in DOMAIN a : Before(a[k], v)}) < i
                     /\ i <= Cardinality({k \in DOMAIN a : ~Before(v, a[k])})
             Q(v) == /\ v \in Range(b)
                     /\ Cardinality({k \in DOMAIN b : Before(b[k], v)}) < i
                     /\ i <= Cardinality({k \in DOMAIN b : ~Before(v, b[k])})
  <2>1. inA(i) = (CHOOSE v : P(v)) /\ inB(i) = (CHOOSE v : Q(v))
    OBVIOUS
  <2>2. \A v : P(v) <=> Q(v)
    BY <1>3, <1>5
  <2> HIDE DEF P, Q
  <2>3. (CHOOSE v : P(v)) = (CHOOSE v : Q(v))
    BY <2>2
  <2> QED BY <2>1, <2>3
<1>7. /\ InOrder(a, Before) = [i \in 1..Len(a) |-> inA(i)]
      /\ InOrder(b, Before) = [i \in 1..Len(a) |-> inB(i)]
  BY <1>1, <1>2 DEF InOrder
<1> HIDE DEF inA, inB
<1> QED BY <1>1, <1>6, <1>7

(* The same of sequences of paths, and of declared licenses.               *)
LEMMA PathsSortedAlike ==
    ASSUME NEW a \in Seq(Nat), NEW b \in Seq(Nat),
           \A A : Holding(a, A) = Holding(b, A)
    PROVE  InOrder(a, <) = InOrder(b, <)
<1>1. Len(a) = Len(b)
  <2>1. Len(a) = Holding(a, Nat)
    BY HoldingOK
  <2>2. Len(b) = Holding(b, Nat)
    BY HoldingOK
  <2> QED BY <2>1, <2>2
<1>2. DOMAIN a = 1..Len(a) /\ DOMAIN b = 1..Len(b)
  OBVIOUS
<1>3. Range(a) = Range(b)
  <2>1. \A v : v \in Range(a) <=> Holding(a, {v}) # 0
    <3>1. \A v : Holding(a, {v}) = 0 <=> \A k \in DOMAIN a : a[k] \notin {v}
      BY HoldingOK
    <3> QED BY <3>1 DEF Range
  <2>2. \A v : v \in Range(b) <=> Holding(b, {v}) # 0
    <3>1. \A v : Holding(b, {v}) = 0 <=> \A k \in DOMAIN b : b[k] \notin {v}
      BY HoldingOK
    <3> QED BY <3>1 DEF Range
  <2> QED BY <2>1, <2>2
<1>4. \A k \in 1..Len(a) : a[k] \in Nat /\ b[k] \in Nat
  BY <1>1
<1>5. ASSUME NEW v
      PROVE  /\ Cardinality({k \in DOMAIN a : a[k] < v})
                  = Cardinality({k \in DOMAIN b : b[k] < v})
             /\ Cardinality({k \in DOMAIN a : ~(v < a[k])})
                  = Cardinality({k \in DOMAIN b : ~(v < b[k])})
  <2> DEFINE A == {x \in Nat : x < v}
             B == {x \in Nat : ~(v < x)}
  <2>1. /\ {k \in DOMAIN a : a[k] \in A} = {k \in DOMAIN a : a[k] < v}
        /\ {k \in DOMAIN b : b[k] \in A} = {k \in DOMAIN b : b[k] < v}
        /\ {k \in DOMAIN a : a[k] \in B} = {k \in DOMAIN a : ~(v < a[k])}
        /\ {k \in DOMAIN b : b[k] \in B} = {k \in DOMAIN b : ~(v < b[k])}
    BY <1>1, <1>2, <1>4
  <2>2. Holding(a, A) = Holding(b, A) /\ Holding(a, B) = Holding(b, B)
    OBVIOUS
  <2> QED BY <2>1, <2>2 DEF Holding
<1> DEFINE inA(i) == CHOOSE v \in Range(a) :
                   /\ Cardinality({k \in DOMAIN a : a[k] < v}) < i
                   /\ i <= Cardinality({k \in DOMAIN a : ~(v < a[k])})
           inB(i) == CHOOSE v \in Range(b) :
                   /\ Cardinality({k \in DOMAIN b : b[k] < v}) < i
                   /\ i <= Cardinality({k \in DOMAIN b : ~(v < b[k])})
<1>6. ASSUME NEW i \in 1..Len(a)
      PROVE  inA(i) = inB(i)
  <2> DEFINE P(v) == /\ v \in Range(a)
                     /\ Cardinality({k \in DOMAIN a : a[k] < v}) < i
                     /\ i <= Cardinality({k \in DOMAIN a : ~(v < a[k])})
             Q(v) == /\ v \in Range(b)
                     /\ Cardinality({k \in DOMAIN b : b[k] < v}) < i
                     /\ i <= Cardinality({k \in DOMAIN b : ~(v < b[k])})
  <2>1. inA(i) = (CHOOSE v : P(v)) /\ inB(i) = (CHOOSE v : Q(v))
    OBVIOUS
  <2>2. \A v : P(v) <=> Q(v)
    BY <1>3, <1>5
  <2> HIDE DEF P, Q
  <2>3. (CHOOSE v : P(v)) = (CHOOSE v : Q(v))
    BY <2>2
  <2> QED BY <2>1, <2>3
<1>7. /\ InOrder(a, <) = [i \in 1..Len(a) |-> inA(i)]
      /\ InOrder(b, <) = [i \in 1..Len(a) |-> inB(i)]
  BY <1>1, <1>2 DEF InOrder
<1> HIDE DEF inA, inB
<1> QED BY <1>1, <1>6, <1>7

-----------------------------------------------------------------------------
(* Before is a strict order in which any two records compare: strings.     *)
(* Compare tells the texts apart.                                          *)
LEMMA TextsRanked ==
    \A x \in Texts : TextRank[x] \in 1..16 /\ TextOrder[TextRank[x]] = x
<1>1. DOMAIN TextOrder = 1..16
  BY DEF TextOrder
<1>2. ASSUME NEW x \in Texts
      PROVE  \E i \in 1..16 : TextOrder[i] = x
  BY <1>2 DEF Texts, TextOrder
<1>3. ASSUME NEW x \in Texts
      PROVE  TextRank[x] \in 1..16 /\ TextOrder[TextRank[x]] = x
  <2>1. TextRank[x] = CHOOSE i \in 1..16 : TextOrder[i] = x
    BY <1>1 DEF TextRank
  <2> QED BY <1>2, <2>1
<1> QED BY <1>3

LEMMA BeforeOrders ==
    ASSUME NEW a \in Record, NEW b \in Record, NEW c \in Record
    PROVE  /\ ~Before(a, a)
           /\ Before(a, b) /\ Before(b, c) => Before(a, c)
           /\ Before(a, b) => ~Before(b, a)
           /\ Before(a, b) \/ Before(b, a) \/ a = b
<1>1. /\ a[1] \in Nat /\ b[1] \in Nat /\ c[1] \in Nat
      /\ a[2] \in Texts /\ b[2] \in Texts /\ c[2] \in Texts
      /\ a = <<a[1], a[2]>> /\ b = <<b[1], b[2]>>
  BY DEF Record
<1>2. /\ TextRank[a[2]] \in Int /\ TextRank[b[2]] \in Int
      /\ TextRank[c[2]] \in Int
      /\ TextRank[a[2]] = TextRank[b[2]] => a[2] = b[2]
  BY <1>1, TextsRanked
<1> QED BY <1>1, <1>2 DEF Before

(* Where v belongs in the sorted s: after the places of what is below it,  *)
(* up to as many as do not follow it.                                      *)
Below(s, v) == {k \in DOMAIN s : Before(s[k], v)}
UpTo(s, v)  == {k \in DOMAIN s : ~Before(v, s[k])}
Same(s, v)  == {k \in DOMAIN s : s[k] = v}

LEMMA Places ==
    ASSUME NEW s \in Seq(Record), NEW v \in Record
    PROVE  /\ IsFiniteSet(Below(s, v)) /\ Cardinality(Below(s, v)) \in Nat
           /\ IsFiniteSet(UpTo(s, v)) /\ Cardinality(UpTo(s, v)) \in Nat
           /\ IsFiniteSet(Same(s, v)) /\ Cardinality(Same(s, v)) \in Nat
           /\ Cardinality(UpTo(s, v)) <= Len(s)
           /\ Cardinality(UpTo(s, v))
                = Cardinality(Below(s, v)) + Cardinality(Same(s, v))
<1>1. Len(s) \in Nat /\ DOMAIN s = 1..Len(s) /\ \A k \in DOMAIN s : s[k] \in Record
  OBVIOUS
<1>2. IsFiniteSet(1..Len(s)) /\ Cardinality(1..Len(s)) = Len(s)
  BY <1>1, FS_Interval
<1>3. Below(s, v) \in SUBSET (1..Len(s)) /\ UpTo(s, v) \in SUBSET (1..Len(s))
      /\ Same(s, v) \in SUBSET (1..Len(s))
  BY <1>1 DEF Below, UpTo, Same
<1>4. /\ IsFiniteSet(Below(s, v)) /\ IsFiniteSet(UpTo(s, v))
      /\ IsFiniteSet(Same(s, v)) /\ Cardinality(UpTo(s, v)) <= Len(s)
  BY <1>2, <1>3, FS_Subset
<1>5. \A k \in DOMAIN s : ~Before(v, s[k]) <=> Before(s[k], v) \/ s[k] = v
  BY <1>1, BeforeOrders
<1>6. UpTo(s, v) = Below(s, v) \cup Same(s, v)
  BY <1>5 DEF Below, UpTo, Same
<1>7. Below(s, v) \cap Same(s, v) = {}
  BY BeforeOrders DEF Below, Same
<1>8. Cardinality(Below(s, v) \cap Same(s, v)) = 0
  BY <1>7, FS_EmptySet
<1>9. /\ Cardinality(Below(s, v)) \in Nat /\ Cardinality(UpTo(s, v)) \in Nat
      /\ Cardinality(Same(s, v)) \in Nat
  BY <1>4, FS_CardinalityType
<1>10. Cardinality(Below(s, v) \cup Same(s, v))
         = Cardinality(Below(s, v)) + Cardinality(Same(s, v))
             - Cardinality(Below(s, v) \cap Same(s, v))
  BY <1>4, FS_Union
<1> QED BY <1>4, <1>6, <1>8, <1>9, <1>10

(* No two records have a place in common.                                  *)
LEMMA PlacesApart ==
    ASSUME NEW s \in Seq(Record), NEW v \in Record, NEW w \in Record,
           Before(v, w)
    PROVE  Cardinality(UpTo(s, v)) <= Cardinality(Below(s, w))
<1>1. \A k \in DOMAIN s : s[k] \in Record
  OBVIOUS
<1>2. \A k \in DOMAIN s : ~Before(v, s[k]) => Before(s[k], w)
  BY <1>1, BeforeOrders
<1>3. UpTo(s, v) \in SUBSET Below(s, w)
  BY <1>2 DEF UpTo, Below
<1> QED BY <1>3, Places, FS_Subset

LEMMA InPlace ==
    ASSUME NEW s \in Seq(Record), NEW v \in Range(s), NEW i \in 1..Len(s),
           Cardinality(Below(s, v)) < i, i <= Cardinality(UpTo(s, v))
    PROVE  InOrder(s, Before)[i] = v
<1>1. DOMAIN s = 1..Len(s) /\ Range(s) \subseteq Record /\ i \in Nat
  BY DEF Range
<1> DEFINE P(w) == /\ w \in Range(s)
                   /\ Cardinality(Below(s, w)) < i
                   /\ i <= Cardinality(UpTo(s, w))
<1>2. InOrder(s, Before)[i] = CHOOSE w : P(w)
  BY <1>1 DEF InOrder, Below, UpTo
<1>3. ASSUME NEW w, P(w)
      PROVE  w = v
  <2>1. v \in Record /\ w \in Record
    BY <1>1, <1>3
  <2>2. \A x \in Record : /\ Cardinality(Below(s, x)) \in Nat
                          /\ Cardinality(UpTo(s, x)) \in Nat
    BY Places
  <2>3. /\ Before(v, w) => Cardinality(UpTo(s, v)) <= Cardinality(Below(s, w))
        /\ Before(w, v) => Cardinality(UpTo(s, w)) <= Cardinality(Below(s, v))
    BY <2>1, PlacesApart
  <2>4. /\ Cardinality(Below(s, w)) < i /\ i <= Cardinality(UpTo(s, w))
        /\ Cardinality(Below(s, v)) < i /\ i <= Cardinality(UpTo(s, v))
    BY <1>3
  <2>5. ~Before(v, w) /\ ~Before(w, v)
    BY <1>1, <2>1, <2>2, <2>3, <2>4
  <2> QED BY <2>1, <2>5, BeforeOrders
<1>4. P(v)
  OBVIOUS
<1> HIDE DEF P
<1> QED BY <1>2, <1>3, <1>4

(* InOrder is a sort: it holds what s holds, as often as s does, and what  *)
(* comes later in it is not before what comes earlier.                     *)
LEMMA SortKeeps ==
    ASSUME NEW s \in Seq(Record)
    PROVE  /\ InOrder(s, Before) \in Seq(Record)
           /\ Len(InOrder(s, Before)) = Len(s)
           /\ \A i, j \in 1..Len(s) :
                  i < j => ~Before(InOrder(s, Before)[j], InOrder(s, Before)[i])
           /\ \A A : Holding(InOrder(s, Before), A) = Holding(s, A)
<1>n. PICK n : n = Len(s)
  OBVIOUS
<1> DEFINE to(k) == Cardinality({j \in 1..k : s[j] = s[k]})
           place == [k \in 1..n |-> Cardinality(Below(s, s[k])) + to(k)]
<1>0. PICK z : z = InOrder(s, Before)
  OBVIOUS
<1>1. n \in Nat /\ DOMAIN s = 1..n /\ \A k \in 1..n : s[k] \in Record
  BY <1>n
<1>2. IsFiniteSet(1..n) /\ Cardinality(1..n) = n
  BY <1>1, FS_Interval
<1>3. z = [i \in 1..n |-> z[i]]
  <2> DEFINE at(i) == CHOOSE w \in Range(s) :
                          /\ Cardinality(Below(s, w)) < i
                          /\ i <= Cardinality(UpTo(s, w))
  <2>1. z = [i \in 1..n |-> at(i)]
    BY <1>0, <1>1 DEF InOrder, Below, UpTo
  <2> HIDE DEF at
  <2> QED BY <2>1
<1>4. ASSUME NEW k \in 1..n
      PROVE  /\ IsFiniteSet({j \in 1..k : s[j] = s[k]})
             /\ to(k) \in 1..Cardinality(Same(s, s[k]))
  <2> DEFINE K == {j \in 1..k : s[j] = s[k]}
  <2>1. K \in SUBSET Same(s, s[k]) /\ k \in K
    BY <1>1 DEF Same
  <2>2. IsFiniteSet(Same(s, s[k])) /\ Cardinality(Same(s, s[k])) \in Nat
    BY <1>1, Places
  <2> HIDE DEF K
  <2>3. IsFiniteSet(K) /\ Cardinality(K) <= Cardinality(Same(s, s[k]))
    BY <2>1, <2>2, FS_Subset
  <2>4. Cardinality(K) \in Nat /\ Cardinality(K) # 0
    BY <2>1, <2>3, FS_CardinalityType, FS_EmptySet
  <2>5. Cardinality(K) \in 1..Cardinality(Same(s, s[k]))
    BY <2>2, <2>3, <2>4
  <2> QED BY <2>3, <2>5 DEF K
<1> HIDE DEF to
<1>5. ASSUME NEW k \in 1..n
      PROVE  /\ place[k] \in 1..n /\ z[place[k]] = s[k]
             /\ Cardinality(Below(s, s[k])) < place[k]
             /\ place[k] <= Cardinality(UpTo(s, s[k]))
  <2>1. /\ Cardinality(Below(s, s[k])) \in Nat
        /\ Cardinality(UpTo(s, s[k])) <= n
        /\ Cardinality(UpTo(s, s[k]))
             = Cardinality(Below(s, s[k])) + Cardinality(Same(s, s[k]))
        /\ Cardinality(Same(s, s[k])) \in Nat
    BY <1>1, Places
  <2>2. to(k) \in 1..Cardinality(Same(s, s[k]))
    BY <1>4
  <2>3. place[k] = Cardinality(Below(s, s[k])) + to(k)
    OBVIOUS
  <2>4. /\ place[k] \in 1..n
        /\ Cardinality(Below(s, s[k])) < place[k]
        /\ place[k] <= Cardinality(UpTo(s, s[k]))
    BY <1>1, <2>1, <2>2, <2>3
  <2>5. s[k] \in Range(s)
    BY <1>1 DEF Range
  <2> HIDE DEF place
  <2>6. PICK i : i = place[k]
    OBVIOUS
  <2>7. InOrder(s, Before)[i] = s[k]
    BY <1>n, <2>4, <2>5, <2>6, InPlace
  <2> QED BY <1>0, <2>4, <2>6, <2>7
<1>6. ASSUME NEW j \in 1..n, NEW k \in 1..n, j < k, s[j] = s[k]
      PROVE  place[j] # place[k]
  <2> DEFINE J == {i \in 1..j : s[i] = s[j]}
             K == {i \in 1..k : s[i] = s[k]}
  <2>1. J \cup {k} \in SUBSET K /\ k \notin J
    BY <1>6
  <2>2. IsFiniteSet(J) /\ IsFiniteSet(K) /\ to(j) = Cardinality(J) /\ to(k) = Cardinality(K)
    BY <1>4 DEF to
  <2> HIDE DEF J, K
  <2>3. Cardinality(J \cup {k}) = Cardinality(J) + 1
    BY <2>1, <2>2, FS_AddElement
  <2>4. Cardinality(J \cup {k}) <= Cardinality(K)
    BY <2>1, <2>2, FS_Subset
  <2>5. to(j) \in Nat /\ to(k) \in Nat
    BY <2>2, FS_CardinalityType
  <2>6. Cardinality(Below(s, s[k])) \in Nat
    BY <1>1, Places
  <2> QED BY <1>6, <2>2, <2>3, <2>4, <2>5, <2>6
<1> HIDE DEF place
<1>7. place \in [1..n -> 1..n]
  BY <1>5 DEF place
<1>8. \A j, k \in 1..n : place[j] = place[k] => j = k
  <2> SUFFICES ASSUME NEW j \in 1..n, NEW k \in 1..n, place[j] = place[k]
               PROVE  j = k
    OBVIOUS
  <2>1. s[j] = s[k]
    BY <1>5
  <2> QED BY <1>1, <1>6, <2>1
<1>9. place \in Surjection(1..n, 1..n)
  <2>1. place \in Injection(1..n, 1..n)
    BY <1>7, <1>8 DEF Injection, IsInjective
  <2> QED BY <1>2, <2>1, FS_Injection
<1>10. \A i \in 1..n : \E k \in 1..n : place[k] = i
  BY <1>9 DEF Surjection
<1>11. z \in Seq(Record) /\ Len(z) = n
  <2>1. ASSUME NEW i \in 1..n
        PROVE  z[i] \in Record
    <3>1. PICK k \in 1..n : place[k] = i
      BY <1>10, Zenon
    <3>2. z[i] = s[k]
      BY <1>5, <3>1, Zenon
    <3> QED BY <1>1, <3>2
  <2>2. z = [i \in 1..n |-> z[i]]
    BY <1>3
  <2>3. z \in [1..n -> Record]
    BY <2>1, <2>2
  <2> QED BY <1>1, <2>3
<1>12. ASSUME NEW A
       PROVE  Holding(z, A) = Holding(s, A)
  <2> DEFINE K == {k \in DOMAIN s : s[k] \in A}
             L == {i \in DOMAIN z : z[i] \in A}
             move == [k \in K |-> place[k]]
  <2>1. IsFiniteSet(K)
    BY HoldingOK
  <2>2. /\ \A k \in K : place[k] \in L
        /\ \A i \in L : \E k \in K : place[k] = i
        /\ \A j, k \in K : place[j] = place[k] => j = k
    BY <1>1, <1>3, <1>5, <1>8, <1>10
  <2>3. Holding(s, A) = Cardinality(K) /\ Holding(z, A) = Cardinality(L)
    BY DEF Holding
  <2> HIDE DEF K, L
  <2>4. move \in Bijection(K, L)
    BY <2>2 DEF Bijection, Injection, Surjection, IsInjective
  <2> QED BY <2>1, <2>3, <2>4, FS_Bijection DEF ExistsBijection
<1>13. ASSUME NEW i \in 1..n, NEW j \in 1..n, i < j
       PROVE  ~Before(z[j], z[i])
  <2>1. /\ z[i] \in Record /\ z[j] \in Record
        /\ Cardinality(Below(s, z[i])) < i
        /\ j <= Cardinality(UpTo(s, z[j]))
    <3>1. PICK k \in 1..n : place[k] = i
      BY <1>10
    <3>2. PICK m \in 1..n : place[m] = j
      BY <1>10
    <3>3. z[i] = s[k] /\ Cardinality(Below(s, s[k])) < i
      BY <1>5, <3>1
    <3>4. z[j] = s[m] /\ j <= Cardinality(UpTo(s, s[m]))
      BY <1>5, <3>2
    <3> QED BY <1>1, <3>3, <3>4
  <2>2. /\ Cardinality(Below(s, z[i])) \in Nat
        /\ Cardinality(UpTo(s, z[j])) \in Nat
    BY <2>1, Places
  <2>3. Before(z[j], z[i]) =>
            Cardinality(UpTo(s, z[j])) <= Cardinality(Below(s, z[i]))
    BY <2>1, PlacesApart
  <2> QED BY <1>1, <1>13, <2>1, <2>2, <2>3
<1> QED BY <1>n, <1>0, <1>11, <1>12, <1>13

-----------------------------------------------------------------------------
(* A set of naturals that holds 0, and the successor of each of its        *)
(* members, holds them all.                                                *)
LEMMA AllNaturals ==
    ASSUME NEW T \in SUBSET Nat, 0 \in T, \A n \in T : n + 1 \in T
    PROVE  T = Nat
<1> DEFINE R == {ss \in Nat \X Nat : ss[1] < ss[2]}
           Bad == Nat \ T
<1>1. IsWellFoundedOn(R, Nat)
  <2>1. IsWellFoundedOn(OpToRel(<, Nat), Nat)
    BY NatLessThanWellFounded
  <2>2. R = OpToRel(<, Nat)
    BY DEF OpToRel
  <2> QED BY <2>1, <2>2
<1> HIDE DEF R
<1>2. SUFFICES ASSUME Bad # {} PROVE FALSE
  OBVIOUS
<1>3. PICK x \in Bad : \A y \in Bad : ~(<<y, x>> \in R)
  BY <1>1, <1>2, WFMin
<1>4. x - 1 \in Nat /\ x - 1 < x
  OBVIOUS
<1>5. x - 1 \notin Bad
  BY <1>3, <1>4 DEF R
<1>6. x - 1 \in T
  BY <1>4, <1>5
<1>7. (x - 1) + 1 = x
  BY <1>4
<1> QED BY <1>6, <1>7

-----------------------------------------------------------------------------
(* The recursive definition of a total has a solution.                     *)
AreTotals(u, f, S, k) ==
    u = [n \in 0..k |-> IF n = 0 THEN 0
                        ELSE u[n - 1] + (IF n \in S THEN f[n] ELSE 0)]

(* It does, by induction on the length.                                    *)
LEMMA TotalsExist ==
    ASSUME NEW f, NEW S
    PROVE  \A k \in Nat : \E u : AreTotals(u, f, S, k)
<1> DEFINE Good == {k \in Nat : \E u : AreTotals(u, f, S, k)}
<1>1. 0 \in Good
  <2> DEFINE u == [n \in 0..0 |-> 0]
  <2>1. AreTotals(u, f, S, 0)
    BY DEF AreTotals
  <2> QED BY <2>1
<1>2. ASSUME NEW k \in Good PROVE k + 1 \in Good
  <2>1. PICK u : AreTotals(u, f, S, k)
    OBVIOUS
  <2> DEFINE more == [n \in 0..(k + 1) |->
                          IF n <= k THEN u[n]
                          ELSE u[n - 1] + (IF n \in S THEN f[n] ELSE 0)]
  <2>2. ASSUME NEW n \in 0..(k + 1)
        PROVE  more[n] = IF n = 0 THEN 0
                         ELSE more[n - 1] + (IF n \in S THEN f[n] ELSE 0)
    <3>1. n # 0 => more[n - 1] = u[n - 1]
      OBVIOUS
    <3>2. CASE n <= k
      <4>1. u[n] = IF n = 0 THEN 0 ELSE u[n - 1] + (IF n \in S THEN f[n] ELSE 0)
        BY <2>1, <3>2 DEF AreTotals
      <4> QED BY <3>1, <3>2, <4>1
    <3>3. CASE n = k + 1
      BY <3>1, <3>3
    <3> QED BY <3>2, <3>3
  <2>3. AreTotals(more, f, S, k + 1)
    <3> HIDE DEF more
    <3>1. more = [n \in 0..(k + 1) |-> more[n]]
      BY DEF more
    <3> QED BY <2>2, <3>1 DEF AreTotals
  <2> QED BY <2>3
<1> HIDE DEF Good
<1>3. Good = Nat
  BY <1>1, <1>2, AllNaturals DEF Good
<1> QED BY <1>3 DEF Good

TotalRun(u, f, S) ==
    /\ u \in [0..Len(f) -> Nat]
    /\ Total(f, S) = u[Len(f)]
    /\ u[0] = 0
    /\ \A n \in 1..Len(f) :
           u[n] = u[n - 1] + (IF n \in S THEN f[n] ELSE 0)

(* Total is the last value of that solution.                               *)
LEMMA TotalIs ==
    ASSUME NEW f \in Seq(Nat), NEW S
    PROVE  \E u : TotalRun(u, f, S)
<1>1. PICK u : u = CHOOSE t : AreTotals(t, f, S, Len(f))
  OBVIOUS
<1>2. AreTotals(u, f, S, Len(f))
  <2>1. Len(f) \in Nat
    OBVIOUS
  <2>2. \E t : AreTotals(t, f, S, Len(f))
    BY <2>1, TotalsExist
  <2> QED BY <1>1, <2>2
<1>3. Total(f, S) = u[Len(f)]
  BY <1>1 DEF Total, AreTotals
<1>4. /\ u[0] = 0
      /\ \A n \in 1..Len(f) : u[n] = u[n - 1] + (IF n \in S THEN f[n] ELSE 0)
  BY <1>2 DEF AreTotals
<1>5. \A n \in 0..Len(f) : u[n] \in Nat
  <2> DEFINE Good == {n \in Nat : n <= Len(f) => u[n] \in Nat}
  <2>1. 0 \in Good
    BY <1>4
  <2>2. \A n \in Good : n + 1 \in Good
    <3> SUFFICES ASSUME NEW n \in Good, n + 1 <= Len(f)
                 PROVE  u[n + 1] \in Nat
      OBVIOUS
    <3>1. u[n] \in Nat /\ n + 1 \in 1..Len(f) /\ (n + 1) - 1 = n
      OBVIOUS
    <3>2. f[n + 1] \in Nat
      BY <3>1
    <3>3. u[n + 1] = u[n] + (IF n + 1 \in S THEN f[n + 1] ELSE 0)
      BY <1>4, <3>1
    <3> QED BY <3>1, <3>2, <3>3
  <2> HIDE DEF Good
  <2>3. Good = Nat
    BY <2>1, <2>2, AllNaturals DEF Good
  <2> QED BY <2>3 DEF Good
<1>6. u \in [0..Len(f) -> Nat]
  BY <1>2, <1>5 DEF AreTotals
<1>7. TotalRun(u, f, S)
  BY <1>3, <1>4, <1>6 DEF TotalRun
<1> QED BY <1>7

(* Nothing adds up to 0, and an element not yet counted adds its value.    *)
LEMMA TotalWith ==
    ASSUME NEW f \in Seq(Nat), NEW S, NEW t \in 1..Len(f), t \notin S
    PROVE  /\ Total(f, {}) = 0
           /\ Total(f, S) \in Nat
           /\ Total(f, S \cup {t}) = Total(f, S) + f[t]
<1>1. Len(f) \in Nat /\ \A n \in 1..Len(f) : f[n] \in Nat
  OBVIOUS
<1>2. PICK u \in [0..Len(f) -> Nat] :
          /\ Total(f, S) = u[Len(f)]
          /\ u[0] = 0
          /\ \A n \in 1..Len(f) : u[n] = u[n - 1] + (IF n \in S THEN f[n] ELSE 0)
  <2>1. \E u : TotalRun(u, f, S)
    BY TotalIs
  <2> QED BY <2>1 DEF TotalRun
<1>3. PICK v \in [0..Len(f) -> Nat] :
          /\ Total(f, S \cup {t}) = v[Len(f)]
          /\ v[0] = 0
          /\ \A n \in 1..Len(f) :
                 v[n] = v[n - 1] + (IF n \in S \cup {t} THEN f[n] ELSE 0)
  <2>1. PICK more : more = S \cup {t}
    OBVIOUS
  <2>2. \E v : TotalRun(v, f, more)
    BY TotalIs
  <2> QED BY <2>1, <2>2 DEF TotalRun
<1>4. PICK z \in [0..Len(f) -> Nat] :
          /\ Total(f, {}) = z[Len(f)]
          /\ z[0] = 0
          /\ \A n \in 1..Len(f) : z[n] = z[n - 1]
  <2>1. PICK none : none = {}
    OBVIOUS
  <2>2. PICK z \in [0..Len(f) -> Nat] :
            /\ Total(f, none) = z[Len(f)]
            /\ z[0] = 0
            /\ \A n \in 1..Len(f) :
                   z[n] = z[n - 1] + (IF n \in none THEN f[n] ELSE 0)
    <3>1. \E z : TotalRun(z, f, none)
      BY TotalIs
    <3> QED BY <3>1 DEF TotalRun
  <2>3. ASSUME NEW n \in 1..Len(f) PROVE z[n] = z[n - 1]
    <3>1. n - 1 \in 0..Len(f)
      BY <1>1
    <3>2. z[n - 1] \in Nat
      BY <3>1
    <3> QED BY <2>1, <2>2, <3>2
  <2> QED BY <2>1, <2>2, <2>3
<1>5. \A n \in 0..Len(f) :
          z[n] = 0 /\ v[n] = u[n] + (IF n < t THEN 0 ELSE f[t])
  <2> DEFINE Good == {n \in Nat : n <= Len(f) =>
                          z[n] = 0 /\ v[n] = u[n] + (IF n < t THEN 0 ELSE f[t])}
  <2>1. 0 \in Good
    BY <1>2, <1>3, <1>4
  <2>2. \A n \in Good : n + 1 \in Good
    <3> SUFFICES ASSUME NEW n \in Good, n + 1 <= Len(f)
                 PROVE  /\ z[n + 1] = 0
                        /\ v[n + 1] = u[n + 1] + (IF n + 1 < t THEN 0 ELSE f[t])
      OBVIOUS
    <3>1. n \in Nat /\ n + 1 \in 1..Len(f) /\ (n + 1) - 1 = n /\ n \in 0..Len(f)
      BY <1>1
    <3>2. z[n] = 0 /\ v[n] = u[n] + (IF n < t THEN 0 ELSE f[t])
      BY <3>1, <1>1
    <3>3. /\ n \in Nat /\ n + 1 \in 1..Len(f) /\ (n + 1) - 1 = n /\ n \in 0..Len(f)
          /\ z[n] = 0 /\ v[n] = u[n] + (IF n < t THEN 0 ELSE f[t])
          /\ u[n] \in Nat /\ f[n + 1] \in Nat /\ f[t] \in Nat
      <4> HIDE DEF Good
      <4> QED BY <1>1, <3>1, <3>2
    <3>4. /\ z[n + 1] = z[n]
          /\ u[n + 1] = u[n] + (IF n + 1 \in S THEN f[n + 1] ELSE 0)
          /\ v[n + 1] = v[n] + (IF n + 1 \in S \cup {t} THEN f[n + 1] ELSE 0)
      <4> HIDE DEF Good
      <4>1. z[n + 1] = z[n]
        BY <1>4, <3>1
      <4>2. u[n + 1] = u[n] + (IF n + 1 \in S THEN f[n + 1] ELSE 0)
        BY <1>2, <3>1
      <4>3. v[n + 1] = v[n] + (IF n + 1 \in S \cup {t} THEN f[n + 1] ELSE 0)
        BY <1>3, <3>1
      <4> QED BY <4>1, <4>2, <4>3
    <3> HIDE DEF Good
    <3>5. CASE n + 1 = t
      <4>1. n < t /\ v[n] = u[n] + 0
        BY <3>3, <3>5
      <4>2. u[n + 1] = u[n] + 0 /\ v[n + 1] = v[n] + f[n + 1]
        BY <3>4, <3>5
      <4>3. f[n + 1] = f[t] /\ ~(n + 1 < t)
        BY <3>3, <3>5
      <4> QED BY <3>3, <3>4, <4>1, <4>2, <4>3
    <3>6. CASE n + 1 # t
      <4>1. n < t <=> n + 1 < t
        BY <3>3, <3>6
      <4>2. PICK a \in Nat : u[n + 1] = u[n] + a /\ v[n + 1] = v[n] + a
        <5>1. CASE n + 1 \in S
          BY <3>3, <3>4, <5>1
        <5>2. CASE n + 1 \notin S
          BY <3>4, <3>6, <5>2
        <5> QED BY <5>1, <5>2
      <4>3. CASE n < t
        BY <3>3, <3>4, <4>1, <4>2, <4>3
      <4>4. CASE ~(n < t)
        BY <3>3, <3>4, <4>1, <4>2, <4>4
      <4> QED BY <4>3, <4>4
    <3> QED BY <3>5, <3>6
  <2> HIDE DEF Good
  <2>3. Good = Nat
    BY <2>1, <2>2, AllNaturals DEF Good
  <2> SUFFICES ASSUME NEW n \in 0..Len(f)
               PROVE  z[n] = 0 /\ v[n] = u[n] + (IF n < t THEN 0 ELSE f[t])
    OBVIOUS
  <2>4. n \in Good /\ n <= Len(f)
    BY <1>1, <2>3
  <2> QED BY <2>4 DEF Good
<1> QED BY <1>1, <1>2, <1>3, <1>4, <1>5

-----------------------------------------------------------------------------
(* The sequence s is old, in some order, with the elements of R added.     *)
Adds(s, old, R) ==
    /\ IsFiniteSet(R)
    /\ \A A : Holding(s, A) = Holding(old, A) + Cardinality(R \cap A)

(* A sequence is itself with nothing added.                                *)
LEMMA AddsNothing ==
    ASSUME NEW V, NEW s \in Seq(V)
    PROVE  Adds(s, s, {})
<1>1. \A A : Holding(s, A) \in Nat
  BY HoldingOK
<1>2. \A A : {} \cap A = {}
  OBVIOUS
<1> QED BY <1>1, <1>2, FS_EmptySet DEF Adds

(* Appending what is not yet there adds it.                                *)
LEMMA AddsOne ==
    ASSUME NEW V, NEW s \in Seq(V), NEW old \in Seq(V), NEW R,
           NEW v \in V, v \notin R, Adds(s, old, R)
    PROVE  Adds(Append(s, v), old, R \cup {v})
<1>1. IsFiniteSet(R \cup {v})
  BY FS_AddElement DEF Adds
<1>2. ASSUME NEW A
      PROVE  Holding(Append(s, v), A)
                 = Holding(old, A) + Cardinality((R \cup {v}) \cap A)
  <2>1. Holding(Append(s, v), A) = Holding(s, A) + (IF v \in A THEN 1 ELSE 0)
    BY HoldingAppended
  <2>2. Holding(s, A) = Holding(old, A) + Cardinality(R \cap A)
    BY DEF Adds
  <2>3. IsFiniteSet(R \cap A) /\ Cardinality(R \cap A) \in Nat
    BY FS_Intersection, FS_CardinalityType DEF Adds
  <2>4. Holding(s, A) \in Nat /\ Holding(old, A) \in Nat
    BY HoldingOK
  <2>5. CASE v \in A
    <3>1. (R \cup {v}) \cap A = (R \cap A) \cup {v}
      BY <2>5
    <3>2. Cardinality((R \cap A) \cup {v}) = Cardinality(R \cap A) + 1
      BY <2>3, FS_AddElement
    <3>3. Cardinality((R \cup {v}) \cap A) = Cardinality(R \cap A) + 1
      BY <3>1, <3>2
    <3> QED BY <2>1, <2>2, <2>3, <2>4, <2>5, <3>3
  <2>6. CASE v \notin A
    <3>1. (R \cup {v}) \cap A = R \cap A
      BY <2>6
    <3>2. Cardinality((R \cup {v}) \cap A) = Cardinality(R \cap A)
      BY <3>1
    <3> QED BY <2>1, <2>2, <2>3, <2>4, <2>6, <3>2
  <2> QED BY <2>5, <2>6
<1> QED BY <1>1, <1>2 DEF Adds

(* Sorted, it is what old with R after it is.                              *)
LEMMA AddsListed ==
    ASSUME NEW V, NEW old \in Seq(V), NEW R \in SUBSET V, NEW s \in Seq(V),
           Adds(s, old, R)
    PROVE  /\ old \o SetToSeq(R) \in Seq(V)
           /\ SetToSeq(R) \in Seq(V)
           /\ \A A : Holding(s, A) = Holding(old \o SetToSeq(R), A)
           /\ Len(s) = Len(old) + Cardinality(R)
<1>1. SetToSeq(R) \in Seq(R) /\ \A A : Holding(SetToSeq(R), A) = Cardinality(R \cap A)
  BY HoldingListed DEF Adds
<1>2. SetToSeq(R) \in Seq(V)
  BY <1>1
<1>3. ASSUME NEW A PROVE Holding(s, A) = Holding(old \o SetToSeq(R), A)
  <2>1. Holding(old \o SetToSeq(R), A) = Holding(old, A) + Holding(SetToSeq(R), A)
    BY <1>2, HoldingJoined
  <2> QED BY <1>1, <2>1 DEF Adds
<1>4. Holding(s, V) = Len(s) /\ Holding(old, V) = Len(old)
  <2>1. Holding(s, V) = Len(s)
    BY HoldingOK
  <2>2. Holding(old, V) = Len(old)
    BY HoldingOK
  <2> QED BY <2>1, <2>2
<1>5. R \cap V = R
  OBVIOUS
<1> QED BY <1>2, <1>3, <1>4, <1>5 DEF Adds

-----------------------------------------------------------------------------
(* What one more task adds to the sets the expected report is made from.   *)
LEMMA CountWith ==
    ASSUME NEW S, IsFiniteSet(S), NEW t, t \notin S, NEW C \in SUBSET S
    PROVE  Cardinality(C) \in Nat /\ Cardinality(C \cup {t}) = Cardinality(C) + 1
<1>1. IsFiniteSet(C)
  BY FS_Subset
<1> QED BY <1>1, FS_CardinalityType, FS_AddElement

Matches(file) == file.read = "text" /\ ~file.overflow

Identifies(file, i) ==
    Matches(file) /\ \E e \in Detected(file) : IdentificationOf[e] = i

(* ... to the tasks read as x,                                             *)
LEMMA ReadingWith ==
    ASSUME NEW d, NEW S, NEW t, t \notin S, NEW x
    PROVE  /\ Reading(d, S, x) \in SUBSET S
           /\ Reading(d, S \cup {t}, x) = IF d.tasks[t].read = x
                                          THEN Reading(d, S, x) \cup {t}
                                          ELSE Reading(d, S, x)
BY DEF Reading

(* ... to the tasks the matcher answered for,                              *)
LEMMA MatchedWith ==
    ASSUME NEW d, NEW S, NEW t, t \notin S
    PROVE  /\ Matched(d, S) \in SUBSET S
           /\ Matched(d, S \cup {t}) = IF Matches(d.tasks[t]) THEN Matched(d, S) \cup {t}
                                                        ELSE Matched(d, S)
BY DEF Reading, Matched, Matches

(* ... to those listed, with clues, with a detection,                      *)
LEMMA ShownWith ==
    ASSUME NEW d, NEW S, NEW t, t \notin S
    PROVE  /\ Shown(d, S \cup {t}) = IF Matches(d.tasks[t]) /\ Listed(d.tasks[t])
                  THEN Shown(d, S) \cup {t} ELSE Shown(d, S)
           /\ Clued(d, S \cup {t}) = IF Matches(d.tasks[t]) /\ d.tasks[t].clues
                  THEN Clued(d, S) \cup {t} ELSE Clued(d, S)
           /\ Detecting(d, S \cup {t}) = IF Matches(d.tasks[t]) /\ Detected(d.tasks[t]) # {}
                  THEN Detecting(d, S) \cup {t} ELSE Detecting(d, S)
           /\ Shown(d, S) \in SUBSET S /\ Clued(d, S) \in SUBSET S
           /\ Detecting(d, S) \in SUBSET S
<1>1. PICK M : M = Matched(d, S) /\ M \in SUBSET S
  BY MatchedWith
<1>2. PICK N : N = Matched(d, S \cup {t}) /\ N = IF Matches(d.tasks[t]) THEN M \cup {t} ELSE M
  BY <1>1, MatchedWith
<1>3. /\ Shown(d, S \cup {t}) = IF Matches(d.tasks[t]) /\ Listed(d.tasks[t])
                                THEN Shown(d, S) \cup {t} ELSE Shown(d, S)
      /\ Shown(d, S) \in SUBSET S
  BY <1>1, <1>2 DEF Shown
<1>4. /\ Clued(d, S \cup {t}) = IF Matches(d.tasks[t]) /\ d.tasks[t].clues
                                THEN Clued(d, S) \cup {t} ELSE Clued(d, S)
      /\ Clued(d, S) \in SUBSET S
  BY <1>1, <1>2 DEF Clued
<1>5. /\ Detecting(d, S \cup {t}) = IF Matches(d.tasks[t]) /\ Detected(d.tasks[t]) # {}
                                    THEN Detecting(d, S) \cup {t} ELSE Detecting(d, S)
      /\ Detecting(d, S) \in SUBSET S
  BY <1>1, <1>2 DEF Detecting
<1> QED BY <1>3, <1>4, <1>5

(* ... to those of one identification,                                     *)
LEMMA IdentifiedWith ==
    ASSUME NEW d, NEW S, NEW t, t \notin S, NEW i
    PROVE  /\ Identified(d, S, i) \in SUBSET S
           /\ Identified(d, S \cup {t}, i) = IF Identifies(d.tasks[t], i)
                  THEN Identified(d, S, i) \cup {t} ELSE Identified(d, S, i)
<1>1. PICK M : M = Matched(d, S) /\ M \in SUBSET S
  BY MatchedWith
<1>2. PICK N : N = Matched(d, S \cup {t}) /\ N = IF Matches(d.tasks[t]) THEN M \cup {t} ELSE M
  BY <1>1, MatchedWith
<1> QED BY <1>1, <1>2 DEF Identified, Identifies

(* ... and to those where one expression was detected.                     *)
LEMMA WithWith ==
    ASSUME NEW d, NEW S, NEW t, t \notin S, NEW e
    PROVE  /\ With(d, S, e) \in SUBSET S
           /\ With(d, S \cup {t}, e) = IF Matches(d.tasks[t]) /\ e \in Detected(d.tasks[t])
                  THEN With(d, S, e) \cup {t} ELSE With(d, S, e)
<1>1. PICK M : M = Matched(d, S) /\ M \in SUBSET S
  BY MatchedWith
<1>2. PICK N : N = Matched(d, S \cup {t}) /\ N = IF Matches(d.tasks[t]) THEN M \cup {t} ELSE M
  BY <1>1, MatchedWith
<1> QED BY <1>1, <1>2 DEF With

(* The errors and the skips of one more task: at most one record, which    *)
(* no other task has because no other task has its path.                   *)
LEMMA RecordsWith ==
    ASSUME NEW d, IsDiscovery(d), NEW S \in SUBSET DOMAIN d.tasks,
           NEW t \in DOMAIN d.tasks, t \notin S
    PROVE  LET file == d.tasks[t]
           IN  /\ Failing(d, S \cup {t}) =
                      IF file.read = "unreadable"
                      THEN Failing(d, S) \cup {<<file.path, "unreadable">>}
                      ELSE IF file.read = "text" /\ file.overflow
                      THEN Failing(d, S) \cup {<<file.path, "tooMany">>}
                      ELSE Failing(d, S)
               /\ Skipping(d, S \cup {t}) =
                      IF file.read = "binary"
                      THEN Skipping(d, S) \cup {<<file.path, "binary">>}
                      ELSE IF file.read = "tooLarge"
                      THEN Skipping(d, S) \cup {<<file.path, "size">>}
                      ELSE Skipping(d, S)
               /\ \A x : <<file.path, x>> \notin Failing(d, S) \cup Skipping(d, S)
               /\ Failing(d, S) \subseteq Record /\ Skipping(d, S) \subseteq Record
<1> DEFINE file == d.tasks[t]
<1>1. \A u \in DOMAIN d.tasks : d.tasks[u].path = file.path => u = t
  BY DEF IsDiscovery
<1>2. /\ \A u \in DOMAIN d.tasks : d.tasks[u] \in File
      /\ \A u \in DOMAIN d.tasks : d.tasks[u].path \in Nat
  <2>1. PICK tasks : tasks = d.tasks /\ tasks \in Seq(File)
    BY DEF IsDiscovery
  <2>2. \A u \in DOMAIN tasks : tasks[u] \in File
    BY <2>1
  <2>3. \A f \in File : f.path \in Nat
    BY DEF File
  <2> QED BY <2>1, <2>2, <2>3
<1>3. /\ \A x : /\ Reading(d, S, x) \subseteq S
                /\ Reading(d, S \cup {t}, x) = IF file.read = x
                                               THEN Reading(d, S, x) \cup {t}
                                               ELSE Reading(d, S, x)
      /\ Reading(d, S \cup {t}, "text") \ Matched(d, S \cup {t}) =
             IF file.read = "text" /\ file.overflow
             THEN (Reading(d, S, "text") \ Matched(d, S)) \cup {t}
             ELSE Reading(d, S, "text") \ Matched(d, S)
  <2>1. file.overflow \in BOOLEAN
    BY <1>2 DEF File
  <2> QED BY <2>1 DEF Reading, Matched
<1>4. \A T, x : Records(d, T \cup {t}, x) = Records(d, T, x) \cup {<<file.path, x>>}
  BY DEF Records
<1>5. Failing(d, S \cup {t}) =
          IF file.read = "unreadable"
          THEN Failing(d, S) \cup {<<file.path, "unreadable">>}
          ELSE IF file.read = "text" /\ file.overflow
          THEN Failing(d, S) \cup {<<file.path, "tooMany">>}
          ELSE Failing(d, S)
  <2> DEFINE lost(T) == Reading(d, T, "unreadable")
             over(T) == Reading(d, T, "text") \ Matched(d, T)
  <2>1. \A T : Failing(d, T) = Records(d, lost(T), "unreadable")
                                   \cup Records(d, over(T), "tooMany")
    BY DEF Failing
  <2>2. /\ lost(S \cup {t}) = IF file.read = "unreadable" THEN lost(S) \cup {t}
                                                          ELSE lost(S)
        /\ over(S \cup {t}) = IF file.read = "text" /\ file.overflow
                               THEN over(S) \cup {t} ELSE over(S)
    BY <1>3
  <2> HIDE DEF lost, over, file
  <2>3. CASE file.read = "unreadable"
    <3>1. lost(S \cup {t}) = lost(S) \cup {t} /\ over(S \cup {t}) = over(S)
      BY <2>2, <2>3
    <3>2. Failing(d, S \cup {t}) = Records(d, lost(S) \cup {t}, "unreadable")
                                  \cup Records(d, over(S), "tooMany")
      BY <2>1, <3>1
    <3>3. Records(d, lost(S) \cup {t}, "unreadable")
              = Records(d, lost(S), "unreadable")
                    \cup {<<file.path, "unreadable">>}
      BY <1>4
    <3>4. Failing(d, S) = Records(d, lost(S), "unreadable")
                              \cup Records(d, over(S), "tooMany")
      BY <2>1
    <3>5. Failing(d, S \cup {t})
              = Failing(d, S) \cup {<<file.path, "unreadable">>}
      BY <3>2, <3>3, <3>4
    <3> QED BY <2>3, <3>5
  <2>4. CASE file.read = "text" /\ file.overflow
    <3>1. lost(S \cup {t}) = lost(S) /\ over(S \cup {t}) = over(S) \cup {t}
      BY <2>2, <2>4
    <3>2. Failing(d, S \cup {t}) = Records(d, lost(S), "unreadable")
                                  \cup Records(d, over(S) \cup {t}, "tooMany")
      BY <2>1, <3>1
    <3>3. Records(d, over(S) \cup {t}, "tooMany")
              = Records(d, over(S), "tooMany") \cup {<<file.path, "tooMany">>}
      BY <1>4
    <3>4. Failing(d, S) = Records(d, lost(S), "unreadable")
                              \cup Records(d, over(S), "tooMany")
      BY <2>1
    <3>5. Failing(d, S \cup {t}) = Failing(d, S) \cup {<<file.path, "tooMany">>}
      BY <3>2, <3>3, <3>4
    <3> QED BY <2>4, <3>5
  <2>5. CASE file.read # "unreadable" /\ ~(file.read = "text" /\ file.overflow)
    <3>1. lost(S \cup {t}) = lost(S) /\ over(S \cup {t}) = over(S)
      BY <2>2, <2>5
    <3> QED BY <2>1, <2>5, <3>1
  <2> QED BY <2>3, <2>4, <2>5
<1>6. Skipping(d, S \cup {t}) =
          IF file.read = "binary"
          THEN Skipping(d, S) \cup {<<file.path, "binary">>}
          ELSE IF file.read = "tooLarge"
          THEN Skipping(d, S) \cup {<<file.path, "size">>}
          ELSE Skipping(d, S)
  <2> DEFINE bin(T) == Reading(d, T, "binary")
             big(T) == Reading(d, T, "tooLarge")
  <2>1. \A T : Skipping(d, T) = Records(d, bin(T), "binary")
                                   \cup Records(d, big(T), "size")
    BY DEF Skipping
  <2>2. /\ bin(S \cup {t}) = IF file.read = "binary" THEN bin(S) \cup {t}
                                                     ELSE bin(S)
        /\ big(S \cup {t}) = IF file.read = "tooLarge" THEN big(S) \cup {t}
                                                       ELSE big(S)
    BY <1>3
  <2> HIDE DEF bin, big, file
  <2>3. CASE file.read = "binary"
    <3>1. bin(S \cup {t}) = bin(S) \cup {t} /\ big(S \cup {t}) = big(S)
      BY <2>2, <2>3
    <3>2. Skipping(d, S \cup {t}) = Records(d, bin(S) \cup {t}, "binary")
                                   \cup Records(d, big(S), "size")
      BY <2>1, <3>1
    <3>3. Records(d, bin(S) \cup {t}, "binary")
              = Records(d, bin(S), "binary") \cup {<<file.path, "binary">>}
      BY <1>4
    <3>4. Skipping(d, S) = Records(d, bin(S), "binary")
                               \cup Records(d, big(S), "size")
      BY <2>1
    <3>5. Skipping(d, S \cup {t}) = Skipping(d, S) \cup {<<file.path, "binary">>}
      BY <3>2, <3>3, <3>4
    <3> QED BY <2>3, <3>5
  <2>4. CASE file.read = "tooLarge"
    <3>1. bin(S \cup {t}) = bin(S) /\ big(S \cup {t}) = big(S) \cup {t}
      BY <2>2, <2>4
    <3>2. Skipping(d, S \cup {t}) = Records(d, bin(S), "binary")
                                   \cup Records(d, big(S) \cup {t}, "size")
      BY <2>1, <3>1
    <3>3. Records(d, big(S) \cup {t}, "size")
              = Records(d, big(S), "size") \cup {<<file.path, "size">>}
      BY <1>4
    <3>4. Skipping(d, S) = Records(d, bin(S), "binary")
                               \cup Records(d, big(S), "size")
      BY <2>1
    <3>5. Skipping(d, S \cup {t}) = Skipping(d, S) \cup {<<file.path, "size">>}
      BY <3>2, <3>3, <3>4
    <3> QED BY <2>4, <3>5
  <2>5. CASE file.read \notin {"binary", "tooLarge"}
    <3>1. bin(S \cup {t}) = bin(S) /\ big(S \cup {t}) = big(S)
      BY <2>2, <2>5
    <3> QED BY <2>1, <2>5, <3>1
  <2> QED BY <2>3, <2>4, <2>5
<1>7. ASSUME NEW T \in SUBSET S, NEW x \in Texts
      PROVE  /\ Records(d, T, x) \subseteq Record
             /\ \A y : <<file.path, y>> \notin Records(d, T, x)
  <2>1. Records(d, T, x) \subseteq Record
    BY <1>2 DEF Records, Record
  <2>2. \A u \in T : d.tasks[u].path # file.path
    BY <1>1
  <2> QED BY <2>1, <2>2 DEF Records
<1>8. {"unreadable", "tooMany", "binary", "size"} \subseteq Texts
  BY DEF Texts
<1>9. /\ \A x : Reading(d, S, x) \in SUBSET S
      /\ Reading(d, S, "text") \ Matched(d, S) \in SUBSET S
  BY <1>3
<1>10. /\ Failing(d, S) \subseteq Record
       /\ \A y : <<file.path, y>> \notin Failing(d, S)
  BY <1>7, <1>8, <1>9 DEF Failing
<1>11. /\ Skipping(d, S) \subseteq Record
       /\ \A y : <<file.path, y>> \notin Skipping(d, S)
  BY <1>7, <1>8, <1>9 DEF Skipping
<1> QED BY <1>5, <1>6, <1>10, <1>11

-----------------------------------------------------------------------------
Summaries == [visited : Nat, scanned : Nat, bytes : Nat, detected : Nat,
              identified : [Identifications -> Nat], clued : Nat,
              directories : Nat, binary : Nat, size : Nat, other : Nat,
              errors : Nat, truncated : BOOLEAN]

(* The summary counts the tasks of S on top of what discovery counted.     *)
Counts(s, d, S) ==
    /\ s \in Summaries
    /\ s.visited = d.summary.visited /\ s.directories = d.summary.directories
    /\ s.other = d.summary.other /\ s.truncated = d.summary.truncated
    /\ s.errors = 0
    /\ s.scanned = Cardinality(Reading(d, S, "text"))
    /\ s.bytes = Total([t \in DOMAIN d.tasks |-> d.tasks[t].size],
                       Reading(d, S, "text"))
    /\ s.binary = Cardinality(Reading(d, S, "binary"))
    /\ s.size = d.summary.size + Cardinality(Reading(d, S, "tooLarge"))
    /\ s.detected = Cardinality(Detecting(d, S))
    /\ s.clued = Cardinality(Clued(d, S))
    /\ s.identified = [i \in Identifications |-> Cardinality(Identified(d, S, i))]

(* Such a summary is the one of the tasks of S.                            *)
LEMMA SummaryIs ==
    ASSUME NEW d, IsDiscovery(d), NEW S, NEW s, Counts(s, d, S)
    PROVE  s = SummaryFor(d, S)
<1>1. d.summary \in Summaries /\ d.summary.errors = 0
  <2>1. d.summary \in [visited : Nat, scanned : {0}, bytes : {0},
                       detected : {0}, identified : [Identifications -> {0}],
                       clued : {0}, directories : Nat, binary : {0},
                       size : Nat, other : Nat, errors : {0},
                       truncated : BOOLEAN]
    BY DEF IsDiscovery
  <2> QED BY <2>1 DEF Summaries
<1>2. PICK e : e = d.summary
  OBVIOUS
<1>3. PICK size : size = Cardinality(Reading(d, S, "tooLarge"))
  OBVIOUS
<1>4. /\ e \in Summaries /\ s \in Summaries
      /\ s.size = e.size + size /\ s.visited = e.visited
      /\ s.directories = e.directories /\ s.other = e.other
      /\ s.truncated = e.truncated /\ s.errors = e.errors
  BY <1>1, <1>2, <1>3 DEF Counts
<1>5. s = [e EXCEPT !.scanned = s.scanned, !.bytes = s.bytes,
                    !.binary = s.binary, !.size = @ + size,
                    !.detected = s.detected, !.clued = s.clued,
                    !.identified = s.identified]
  <2> DEFINE t == [e EXCEPT !.scanned = s.scanned, !.bytes = s.bytes,
                            !.binary = s.binary, !.size = @ + size,
                            !.detected = s.detected, !.clued = s.clued,
                            !.identified = s.identified]
  <2>1. /\ s.scanned \in Nat /\ s.bytes \in Nat /\ s.binary \in Nat
        /\ e.size + size \in Nat /\ s.detected \in Nat /\ s.clued \in Nat
        /\ s.identified \in [Identifications -> Nat]
    BY <1>4 DEF Summaries
  <2>2. t \in Summaries
    BY <1>4, <2>1 DEF Summaries
  <2>3. /\ t.scanned = s.scanned /\ t.bytes = s.bytes /\ t.binary = s.binary
        /\ t.size = s.size /\ t.detected = s.detected /\ t.clued = s.clued
        /\ t.identified = s.identified /\ t.visited = s.visited
        /\ t.directories = s.directories /\ t.other = s.other
        /\ t.errors = s.errors /\ t.truncated = s.truncated
    BY <1>4 DEF Summaries
  <2> HIDE DEF t
  <2>4. t = s
    BY <1>4, <2>2, <2>3 DEF Summaries
  <2> QED BY <2>4 DEF t
<1> QED BY <1>2, <1>3, <1>5 DEF Counts, SummaryFor

-----------------------------------------------------------------------------
(* One task more in the summary.                                           *)
CountsOneMore(z, s, file) ==
    /\ z \in Summaries
    /\ z.visited = s.visited /\ z.directories = s.directories
    /\ z.other = s.other /\ z.truncated = s.truncated /\ z.errors = s.errors
    /\ z.scanned = IF file.read = "text" THEN s.scanned + 1 ELSE s.scanned
    /\ z.bytes = IF file.read = "text" THEN s.bytes + file.size ELSE s.bytes
    /\ z.binary = IF file.read = "binary" THEN s.binary + 1 ELSE s.binary
    /\ z.size = IF file.read = "tooLarge" THEN s.size + 1 ELSE s.size
    /\ z.detected = IF Matches(file) /\ Detected(file) # {}
                    THEN s.detected + 1 ELSE s.detected
    /\ z.clued = IF Matches(file) /\ file.clues THEN s.clued + 1 ELSE s.clued
    /\ \A i \in Identifications :
           z.identified[i] = IF Identifies(file, i) THEN s.identified[i] + 1
                                                    ELSE s.identified[i]

(* The tasks of a discovery are a finite sequence of files.                *)
LEMMA TasksOK ==
    ASSUME NEW d, IsDiscovery(d)
    PROVE  /\ d.tasks \in Seq(File) /\ Len(d.tasks) \in Nat
           /\ DOMAIN d.tasks = 1..Len(d.tasks)
           /\ IsFiniteSet(DOMAIN d.tasks)
           /\ \A t \in DOMAIN d.tasks : d.tasks[t] \in File
<1>1. PICK tasks : tasks = d.tasks /\ tasks \in Seq(File)
  BY DEF IsDiscovery
<1>2. /\ Len(tasks) \in Nat /\ DOMAIN tasks = 1..Len(tasks)
      /\ \A t \in DOMAIN tasks : tasks[t] \in File
  BY <1>1
<1>3. IsFiniteSet(1..Len(tasks))
  BY <1>2, FS_Interval
<1> QED BY <1>1, <1>2, <1>3

(* One task more among those read as x.                                    *)
LEMMA ReadingCount ==
    ASSUME NEW d, IsDiscovery(d), NEW S \in SUBSET DOMAIN d.tasks,
           NEW t \in DOMAIN d.tasks, t \notin S, NEW x
    PROVE  /\ Cardinality(Reading(d, S, x)) \in Nat
           /\ Cardinality(Reading(d, S \cup {t}, x)) =
                  IF d.tasks[t].read = x THEN Cardinality(Reading(d, S, x)) + 1
                                         ELSE Cardinality(Reading(d, S, x))
<1>1. IsFiniteSet(S)
  BY TasksOK, FS_Subset
<1>2. PICK R : R = Reading(d, S, x) /\ R \in SUBSET S
  BY ReadingWith
<1>3. Cardinality(R) \in Nat /\ Cardinality(R \cup {t}) = Cardinality(R) + 1
  BY <1>1, <1>2, CountWith
<1>4. CASE d.tasks[t].read = x
  <2>1. Reading(d, S \cup {t}, x) = R \cup {t}
    BY <1>2, <1>4 DEF Reading
  <2> QED BY <1>2, <1>3, <1>4, <2>1
<1>5. CASE d.tasks[t].read # x
  <2>1. Reading(d, S \cup {t}, x) = R
    BY <1>2, <1>5 DEF Reading
  <2> QED BY <1>2, <1>3, <1>5, <2>1
<1> QED BY <1>4, <1>5

(* A summary with one task more counts the tasks with that one.            *)
LEMMA CountsStep ==
    ASSUME NEW d, IsDiscovery(d), NEW S \in SUBSET DOMAIN d.tasks,
           NEW t \in DOMAIN d.tasks, t \notin S, NEW s, Counts(s, d, S),
           NEW z, CountsOneMore(z, s, d.tasks[t])
    PROVE  Counts(z, d, S \cup {t})
<1> DEFINE sizes == [u \in DOMAIN d.tasks |-> d.tasks[u].size]
<1> DEFINE file == d.tasks[t]
           T == S \cup {t}
<1>1. file \in File
  BY TasksOK
<1>2. IsFiniteSet(S)
  BY TasksOK, FS_Subset
<1>3. ASSUME NEW C \in SUBSET S
      PROVE  Cardinality(C) \in Nat /\ Cardinality(C \cup {t}) = Cardinality(C) + 1
  BY <1>2, CountWith
<1>4. ASSUME NEW x
      PROVE  /\ Cardinality(Reading(d, S, x)) \in Nat
             /\ Cardinality(Reading(d, T, x)) =
                    IF file.read = x THEN Cardinality(Reading(d, S, x)) + 1
                                     ELSE Cardinality(Reading(d, S, x))
  BY ReadingCount
<1>5. Total(sizes, Reading(d, T, "text")) =
          IF file.read = "text" THEN Total(sizes, Reading(d, S, "text")) + file.size
                                ELSE Total(sizes, Reading(d, S, "text"))
  <2>1. /\ Reading(d, S, "text") \in SUBSET S
        /\ Reading(d, T, "text") = IF file.read = "text"
                                   THEN Reading(d, S, "text") \cup {t}
                                   ELSE Reading(d, S, "text")
    <3>1. Reading(d, S, "text") \in SUBSET S
      BY DEF Reading
    <3>2. Reading(d, T, "text") = IF file.read = "text"
                                  THEN Reading(d, S, "text") \cup {t}
                                  ELSE Reading(d, S, "text")
      <4>1. CASE file.read = "text"
        BY <4>1 DEF Reading
      <4>2. CASE file.read # "text"
        BY <4>2 DEF Reading
      <4> QED BY <4>1, <4>2
    <3> QED BY <3>1, <3>2
  <2>2. /\ sizes \in Seq(Nat) /\ Len(sizes) = Len(d.tasks)
        /\ t \in 1..Len(sizes) /\ sizes[t] = file.size
    <3>1. \A u \in DOMAIN d.tasks : d.tasks[u].size \in Nat
      <4>1. \A f \in File : f.size \in Nat
        BY DEF File
      <4> QED BY <4>1, TasksOK
    <3>2. sizes \in [1..Len(d.tasks) -> Nat] /\ Len(d.tasks) \in Nat
      BY <3>1, TasksOK
    <3>3. sizes \in Seq(Nat) /\ Len(sizes) = Len(d.tasks)
      BY <3>2
    <3> QED BY <1>1, <3>3, TasksOK
  <2>3. t \notin Reading(d, S, "text")
    BY <2>1
  <2> HIDE DEF sizes, file
  <2>4. Total(sizes, Reading(d, S, "text") \cup {t})
            = Total(sizes, Reading(d, S, "text")) + sizes[t]
    BY <2>2, <2>3, TotalWith
  <2> QED BY <2>1, <2>2, <2>4
<1>6. Cardinality(Detecting(d, T)) =
          IF Matches(file) /\ Detected(file) # {}
          THEN Cardinality(Detecting(d, S)) + 1 ELSE Cardinality(Detecting(d, S))
  <2>1. /\ Detecting(d, S) \in SUBSET S
        /\ Detecting(d, T) = IF Matches(file) /\ Detected(file) # {}
                  THEN Detecting(d, S) \cup {t} ELSE Detecting(d, S)
    BY ShownWith
  <2> HIDE DEF T, file
  <2> QED BY <1>3, <2>1 DEF T
<1>7. Cardinality(Clued(d, T)) = IF Matches(file) /\ file.clues
          THEN Cardinality(Clued(d, S)) + 1 ELSE Cardinality(Clued(d, S))
  <2>1. /\ Clued(d, S) \in SUBSET S
        /\ Clued(d, T) = IF Matches(file) /\ file.clues
                  THEN Clued(d, S) \cup {t} ELSE Clued(d, S)
    BY ShownWith
  <2> HIDE DEF T, file
  <2> QED BY <1>3, <2>1 DEF T
<1>8. ASSUME NEW i
      PROVE  Cardinality(Identified(d, T, i)) = IF Identifies(file, i)
                 THEN Cardinality(Identified(d, S, i)) + 1
                 ELSE Cardinality(Identified(d, S, i))
  <2>1. /\ Identified(d, S, i) \in SUBSET S
        /\ Identified(d, T, i) = IF Identifies(file, i)
                  THEN Identified(d, S, i) \cup {t} ELSE Identified(d, S, i)
    BY IdentifiedWith
  <2> HIDE DEF T, file
  <2> QED BY <1>3, <2>1 DEF T
<1>9. CountsOneMore(z, s, file)
  OBVIOUS
<1> HIDE DEF sizes, file, T
<1>10. z.scanned = Cardinality(Reading(d, T, "text"))
  BY <1>4, <1>9 DEF Counts, CountsOneMore
<1>11. z.bytes = Total(sizes, Reading(d, T, "text"))
  <2>1. s.bytes = Total(sizes, Reading(d, S, "text"))
    BY DEF Counts, sizes
  <2> QED BY <1>5, <1>9, <2>1 DEF CountsOneMore
<1>12. z.binary = Cardinality(Reading(d, T, "binary"))
  BY <1>4, <1>9 DEF Counts, CountsOneMore
<1>13. z.detected = Cardinality(Detecting(d, T))
  BY <1>6, <1>9 DEF Counts, CountsOneMore
<1>14. z.clued = Cardinality(Clued(d, T))
  BY <1>7, <1>9 DEF Counts, CountsOneMore
<1>15. z.size = d.summary.size + Cardinality(Reading(d, T, "tooLarge"))
  <2>1. Cardinality(Reading(d, S, "tooLarge")) \in Nat
    BY <1>4
  <2>2. d.summary.size \in Nat
    BY DEF IsDiscovery
  <2>3. s.size = d.summary.size + Cardinality(Reading(d, S, "tooLarge"))
    BY DEF Counts
  <2>4. z.size = IF file.read = "tooLarge" THEN s.size + 1 ELSE s.size
    BY <1>9 DEF CountsOneMore
  <2>5. Cardinality(Reading(d, T, "tooLarge")) =
            IF file.read = "tooLarge" THEN Cardinality(Reading(d, S, "tooLarge")) + 1
            ELSE Cardinality(Reading(d, S, "tooLarge"))
    BY <1>4
  <2> QED BY <2>1, <2>2, <2>3, <2>4, <2>5
<1>16. z.identified = [i \in Identifications |-> Cardinality(Identified(d, T, i))]
  <2>1. \A i \in Identifications : s.identified[i] = Cardinality(Identified(d, S, i))
    BY DEF Counts
  <2>2. \A i \in Identifications :
            z.identified[i] = IF Identifies(file, i) THEN s.identified[i] + 1
                                                     ELSE s.identified[i]
    BY <1>9 DEF CountsOneMore
  <2>3. \A i \in Identifications : z.identified[i] = Cardinality(Identified(d, T, i))
    BY <1>8, <2>1, <2>2
  <2>4. z.identified \in [Identifications -> Nat]
    BY <1>9 DEF CountsOneMore, Summaries
  <2> QED BY <2>3, <2>4
<1>17. /\ z \in Summaries /\ z.errors = 0
       /\ z.visited = d.summary.visited /\ z.directories = d.summary.directories
       /\ z.other = d.summary.other /\ z.truncated = d.summary.truncated
  BY <1>9 DEF Counts, CountsOneMore
<1> QED BY <1>10, <1>11, <1>12, <1>13, <1>14, <1>15, <1>16, <1>17 DEF Counts, sizes, T

(* One task more in the expressions: what addExpressionRecords adds to     *)
(* what the tasks of S left.                                               *)
LEMMA ExpressionsStep ==
    ASSUME NEW d, IsDiscovery(d), NEW S \in SUBSET DOMAIN d.tasks,
           NEW t \in DOMAIN d.tasks, t \notin S
    PROVE  ExpressionsFor(d, S \cup {t}) =
               IF Matches(d.tasks[t])
               THEN AddExpressions(ExpressionsFor(d, S), d.tasks[t])
               ELSE ExpressionsFor(d, S)
<1> DEFINE T == S \cup {t}
           counts(e) == [u \in DOMAIN d.tasks |-> d.tasks[u].matches[e]]
           some(W) == \E u \in W : d.tasks[u].root
           sized(W, e) == [root    |-> some(W),
                           files   |-> Cardinality(W),
                           matches |-> Total(counts(e), W)]
           entry(U, e) == sized(With(d, U, e), e)
           named(U) == {x \in Expressions : With(d, U, x) # {}}
<1>1. PICK file : file = d.tasks[t]
  OBVIOUS
<1>2. /\ file \in File /\ IsFiniteSet(S)
      /\ \A u \in DOMAIN d.tasks : d.tasks[u] \in File
  BY <1>1, TasksOK, FS_Subset
<1>3. \A U : ExpressionsFor(d, U) = [e \in named(U) |-> entry(U, e)]
  BY DEF ExpressionsFor
<1>4. ASSUME NEW e
      PROVE  /\ With(d, S, e) \in SUBSET S
             /\ With(d, T, e) = IF Matches(file) /\ e \in Detected(file)
                                THEN With(d, S, e) \cup {t} ELSE With(d, S, e)
  <2>1. With(d, S, e) \in SUBSET S
    BY WithWith
  <2>2. With(d, S \cup {t}, e) = IF Matches(d.tasks[t]) /\ e \in Detected(d.tasks[t])
                                THEN With(d, S, e) \cup {t} ELSE With(d, S, e)
    BY WithWith
  <2> QED BY <1>1, <2>1, <2>2
<1>5. CASE ~Matches(file)
  <2>1. \A e : With(d, T, e) = With(d, S, e)
    BY <1>4, <1>5
  <2> HIDE DEF T, sized
  <2>2. named(T) = named(S) /\ \A e : entry(T, e) = entry(S, e)
    BY <2>1
  <2> HIDE DEF named, entry
  <2>3. ExpressionsFor(d, T) = ExpressionsFor(d, S)
    BY <1>3, <2>2
  <2> QED BY <1>1, <1>5, <2>3 DEF T
<1>6. CASE Matches(file)
  <2>1. named(T) = named(S) \cup Detected(file)
    <3>1. \A e : With(d, T, e) # {} <=> With(d, S, e) # {} \/ e \in Detected(file)
      BY <1>4, <1>6
    <3>2. Detected(file) \subseteq Expressions
      BY DEF Detected
    <3> HIDE DEF T
    <3> QED BY <3>1, <3>2
  <2>2. ASSUME NEW e \in Detected(file)
        PROVE  entry(T, e) =
                   [root    |-> some(With(d, S, e)) \/ file.root,
                    files   |-> Cardinality(With(d, S, e)) + 1,
                    matches |-> Total(counts(e), With(d, S, e)) + file.matches[e]]
    <3>1. With(d, T, e) = With(d, S, e) \cup {t} /\ With(d, S, e) \in SUBSET S
      BY <1>4, <1>6
    <3>2. /\ counts(e) \in Seq(Nat) /\ Len(counts(e)) = Len(d.tasks)
          /\ t \in 1..Len(counts(e)) /\ counts(e)[t] = file.matches[e]
      <4>1. \A f \in File : f.matches[e] \in Nat
        BY DEF File, Detected
      <4>2. \A u \in DOMAIN d.tasks : d.tasks[u].matches[e] \in Nat
        BY <1>2, <4>1
      <4>3. counts(e) \in [1..Len(d.tasks) -> Nat] /\ Len(d.tasks) \in Nat
        BY <4>2, TasksOK
      <4>4. counts(e) \in Seq(Nat) /\ Len(counts(e)) = Len(d.tasks)
        BY <4>3
      <4> QED BY <1>1, <4>4, TasksOK
    <3>3. t \notin With(d, S, e)
      BY <3>1
    <3> HIDE DEF counts, T
    <3>4. Total(counts(e), With(d, S, e) \cup {t})
              = Total(counts(e), With(d, S, e)) + counts(e)[t]
      BY <3>2, <3>3, TotalWith
    <3>5. Cardinality(With(d, S, e) \cup {t}) = Cardinality(With(d, S, e)) + 1
      BY <1>2, <3>1, CountWith
    <3>6. some(With(d, S, e) \cup {t}) = (some(With(d, S, e)) \/ file.root)
      BY <1>1, <3>1
    <3> HIDE DEF some
    <3> QED BY <3>1, <3>2, <3>4, <3>5, <3>6
  <2>3. ASSUME NEW e, e \notin Detected(file)
        PROVE  entry(T, e) = entry(S, e)
    <3>1. With(d, T, e) = With(d, S, e)
      BY <1>4, <2>3
    <3> HIDE DEF sized, T
    <3> QED BY <3>1
  <2> DEFINE records == ExpressionsFor(d, S)
             old(e) == IF e \in DOMAIN records THEN records[e]
                       ELSE [root |-> FALSE, files |-> 0, matches |-> 0]
             more(e) == IF e \notin Detected(file) THEN old(e)
                        ELSE [root    |-> old(e).root \/ file.root,
                              files   |-> old(e).files + 1,
                              matches |-> old(e).matches + file.matches[e]]
  <2>4. AddExpressions(records, file)
            = [e \in DOMAIN records \cup Detected(file) |-> more(e)]
    BY DEF AddExpressions
  <2>5. DOMAIN records = named(S) /\ \A e \in named(S) : records[e] = entry(S, e)
    <3> HIDE DEF named, entry
    <3> QED BY <1>3
  <2>6. ASSUME NEW e \in named(T)
        PROVE  more(e) = entry(T, e)
    <3> HIDE DEF records
    <3>1. CASE e \notin Detected(file)
      <4>1. e \in named(S)
        BY <2>1, <3>1
      <4> HIDE DEF entry, named
      <4>2. old(e) = entry(S, e)
        BY <2>5, <4>1
      <4> QED BY <2>3, <3>1, <4>2
    <3>2. CASE e \in Detected(file) /\ e \in named(S)
      <4>1. old(e) = entry(S, e)
        <5> HIDE DEF entry, named
        <5> QED BY <2>5, <3>2
      <4>2. /\ old(e).root = some(With(d, S, e))
            /\ old(e).files = Cardinality(With(d, S, e))
            /\ old(e).matches = Total(counts(e), With(d, S, e))
        <5> HIDE DEF some, counts, old
        <5> QED BY <4>1
      <4> HIDE DEF some, counts, old, entry
      <4> QED BY <2>2, <3>2, <4>2
    <3>3. CASE e \in Detected(file) /\ e \notin named(S)
      <4>1. old(e) = [root |-> FALSE, files |-> 0, matches |-> 0]
        <5> HIDE DEF entry, named
        <5> QED BY <2>5, <3>3
      <4>2. With(d, S, e) = {}
        BY <3>3 DEF Detected
      <4>3. some({}) = FALSE /\ Cardinality({}) = 0
        BY FS_EmptySet
      <4>4. Total(counts(e), {}) = 0
        <5>1. \A f \in File : f.matches[e] \in Nat
          BY <3>3 DEF File, Detected
        <5>2. \A u \in DOMAIN d.tasks : d.tasks[u].matches[e] \in Nat
          BY <1>2, <5>1
        <5>3. counts(e) \in [1..Len(d.tasks) -> Nat] /\ Len(d.tasks) \in Nat
          BY <5>2, TasksOK
        <5>4. /\ counts(e) \in Seq(Nat) /\ Len(counts(e)) = Len(d.tasks)
              /\ t \in 1..Len(counts(e)) /\ t \notin S
          BY <5>3, TasksOK
        <5> HIDE DEF counts
        <5> QED BY <5>4, TotalWith
      <4>5. file.matches[e] \in Nat /\ file.root \in BOOLEAN
        BY <1>2, <3>3 DEF File, Detected
      <4>6. /\ old(e).root = FALSE /\ old(e).files = 0 /\ old(e).matches = 0
        <5> HIDE DEF old
        <5> QED BY <4>1
      <4>7. /\ some(With(d, S, e)) = FALSE
            /\ Cardinality(With(d, S, e)) = 0
            /\ Total(counts(e), With(d, S, e)) = 0
        BY <4>2, <4>3, <4>4
      <4> HIDE DEF some, counts, old, entry
      <4> QED BY <2>2, <3>3, <4>6, <4>7
    <3> QED BY <3>1, <3>2, <3>3
  <2> HIDE DEF records, more, entry, named, T
  <2>7. AddExpressions(records, file) = ExpressionsFor(d, T)
    BY <1>3, <2>1, <2>4, <2>5, <2>6
  <2> QED BY <1>1, <1>6, <2>7 DEF records, T
<1> QED BY <1>5, <1>6

(* Nothing detected, nothing added.                                        *)
LEMMA ExpressionsKept ==
    ASSUME NEW d, NEW S, NEW file, Detected(file) = {}
    PROVE  AddExpressions(ExpressionsFor(d, S), file) = ExpressionsFor(d, S)
<1> DEFINE named == {x \in Expressions : With(d, S, x) # {}}
           entry(e) == [root    |-> \E t \in With(d, S, e) : d.tasks[t].root,
                        files   |-> Cardinality(With(d, S, e)),
                        matches |-> Total([t \in DOMAIN d.tasks |->
                                               d.tasks[t].matches[e]],
                                          With(d, S, e))]
           records == ExpressionsFor(d, S)
<1>1. records = [e \in named |-> entry(e)]
  BY DEF ExpressionsFor
<1> HIDE DEF named, entry, records
<1>2. AddExpressions(records, file) = [e \in DOMAIN records |-> records[e]]
  BY DEF AddExpressions
<1>3. AddExpressions(records, file) = records
  BY <1>1, <1>2
<1> QED BY <1>3 DEF records

-----------------------------------------------------------------------------
(* A report under construction: what the loop over the outcomes has        *)
(* produced when it has received those of the tasks of S, in any order.    *)
Reports(E) == [summary : Summaries, declared : Seq(Nat), errors : Seq(Record),
               skipped : Seq(Record), files : Seq(Nat), expressions : E]

ShownPaths(d, S) == {d.tasks[t].path : t \in Shown(d, S)}

CollectedFrom(r, d, S) ==
    /\ r \in Reports({ExpressionsFor(d, S)})
    /\ r.declared = d.declared
    /\ Counts(r.summary, d, S)
    /\ Adds(r.errors, d.errors, Failing(d, S))
    /\ Adds(r.skipped, d.skipped, Skipping(d, S))
    /\ Adds(r.files, <<>>, ShownPaths(d, S))

(* The lists of one task more.                                             *)
LEMMA ListsStep ==
    ASSUME NEW d, IsDiscovery(d), NEW S \in SUBSET DOMAIN d.tasks,
           NEW t \in DOMAIN d.tasks, t \notin S,
           NEW r, CollectedFrom(r, d, S), NEW z,
           LET file == d.tasks[t]
           IN  /\ z \in Reports({ExpressionsFor(d, S \cup {t})})
               /\ z.declared = r.declared
               /\ z.errors = IF file.read = "unreadable"
                             THEN Append(r.errors, <<file.path, "unreadable">>)
                             ELSE IF file.read = "text" /\ file.overflow
                             THEN Append(r.errors, <<file.path, "tooMany">>)
                             ELSE r.errors
               /\ z.skipped = IF file.read = "binary"
                              THEN Append(r.skipped, <<file.path, "binary">>)
                              ELSE IF file.read = "tooLarge"
                              THEN Append(r.skipped, <<file.path, "size">>)
                              ELSE r.skipped
               /\ z.files = IF Matches(file) /\ Listed(file)
                            THEN Append(r.files, file.path) ELSE r.files
               /\ CountsOneMore(z.summary, r.summary, file)
    PROVE  CollectedFrom(z, d, S \cup {t})
<1> DEFINE file == d.tasks[t]
           T == S \cup {t}
<1>1. /\ file \in File /\ file.path \in Nat
      /\ \A u \in S : d.tasks[u].path \in Nat /\ d.tasks[u].path # file.path
  <2>1. /\ DOMAIN d.tasks = 1..Len(d.tasks)
        /\ \A u \in DOMAIN d.tasks : d.tasks[u] \in File
    BY TasksOK
  <2>2. \A f \in File : f.path \in Nat
    BY DEF File
  <2>3. \A u \in S : d.tasks[u].path # file.path
    BY DEF IsDiscovery
  <2> QED BY <2>1, <2>2, <2>3
<1>2. /\ r.errors \in Seq(Record) /\ r.skipped \in Seq(Record)
      /\ r.files \in Seq(Nat)
  BY DEF CollectedFrom, Reports
<1>3. d.errors \in Seq(Record) /\ d.skipped \in Seq(Record) /\ <<>> \in Seq(Nat)
  BY DEF IsDiscovery
<1>4. Adds(r.errors, d.errors, Failing(d, S)) /\ Adds(r.skipped, d.skipped, Skipping(d, S))
      /\ Adds(r.files, <<>>, ShownPaths(d, S))
  BY DEF CollectedFrom
<1>5. /\ Failing(d, T) =
             IF file.read = "unreadable"
             THEN Failing(d, S) \cup {<<file.path, "unreadable">>}
             ELSE IF file.read = "text" /\ file.overflow
             THEN Failing(d, S) \cup {<<file.path, "tooMany">>}
             ELSE Failing(d, S)
      /\ Skipping(d, T) =
             IF file.read = "binary"
             THEN Skipping(d, S) \cup {<<file.path, "binary">>}
             ELSE IF file.read = "tooLarge"
             THEN Skipping(d, S) \cup {<<file.path, "size">>}
             ELSE Skipping(d, S)
      /\ \A y : <<file.path, y>> \notin Failing(d, S)
      /\ \A y : <<file.path, y>> \notin Skipping(d, S)
  BY RecordsWith
<1>6. \A x \in {"unreadable", "tooMany", "binary", "size"} : <<file.path, x>> \in Record
  BY <1>1 DEF Record, Texts
<1>7. Adds(z.errors, d.errors, Failing(d, T))
  <2> HIDE DEF T, file
  <2>1. \A x \in {"unreadable", "tooMany"} :
            Adds(Append(r.errors, <<file.path, x>>), d.errors,
                 Failing(d, S) \cup {<<file.path, x>>})
    BY <1>2, <1>3, <1>4, <1>5, <1>6, AddsOne
  <2>2. z.errors = IF file.read = "unreadable"
                             THEN Append(r.errors, <<file.path, "unreadable">>)
                             ELSE IF file.read = "text" /\ file.overflow
                             THEN Append(r.errors, <<file.path, "tooMany">>)
                             ELSE r.errors
    BY DEF file
  <2> QED BY <1>4, <1>5, <2>1, <2>2
<1>8. Adds(z.skipped, d.skipped, Skipping(d, T))
  <2> HIDE DEF T, file
  <2>1. \A x \in {"binary", "size"} :
            Adds(Append(r.skipped, <<file.path, x>>), d.skipped,
                 Skipping(d, S) \cup {<<file.path, x>>})
    BY <1>2, <1>3, <1>4, <1>5, <1>6, AddsOne
  <2>2. z.skipped = IF file.read = "binary"
                              THEN Append(r.skipped, <<file.path, "binary">>)
                              ELSE IF file.read = "tooLarge"
                              THEN Append(r.skipped, <<file.path, "size">>)
                              ELSE r.skipped
    BY DEF file
  <2> QED BY <1>4, <1>5, <2>1, <2>2
<1>9. Adds(z.files, <<>>, ShownPaths(d, T))
  <2>1. PICK sh : sh = Shown(d, S) /\ sh \in SUBSET S
    BY ShownWith
  <2>2. PICK ts : /\ ts = Shown(d, T)
                  /\ ts = IF Matches(file) /\ Listed(file) THEN sh \cup {t} ELSE sh
    BY <2>1, ShownWith
  <2>3. ShownPaths(d, S) = {d.tasks[u].path : u \in sh}
        /\ ShownPaths(d, T) = {d.tasks[u].path : u \in ts}
    BY <2>1, <2>2 DEF ShownPaths
  <2>4. file.path \notin ShownPaths(d, S)
    BY <1>1, <2>1, <2>3
  <2>5. ShownPaths(d, T) = IF Matches(file) /\ Listed(file)
                           THEN ShownPaths(d, S) \cup {file.path}
                           ELSE ShownPaths(d, S)
    <3>1. CASE Matches(file) /\ Listed(file)
      <4>1. ts = sh \cup {t}
        BY <2>2, <3>1
      <4>2. {d.tasks[u].path : u \in sh \cup {t}}
                = {d.tasks[u].path : u \in sh} \cup {d.tasks[t].path}
        OBVIOUS
      <4> QED BY <2>3, <3>1, <4>1, <4>2
    <3>2. CASE ~(Matches(file) /\ Listed(file))
      <4>1. ts = sh
        BY <2>2, <3>2
      <4> QED BY <2>3, <3>2, <4>1
    <3> QED BY <3>1, <3>2
  <2>6. z.files = IF Matches(file) /\ Listed(file)
                  THEN Append(r.files, file.path) ELSE r.files
    OBVIOUS
  <2> HIDE DEF T, file
  <2>7. Adds(Append(r.files, file.path), <<>>, ShownPaths(d, S) \cup {file.path})
    BY <1>1, <1>2, <1>3, <1>4, <2>4, AddsOne
  <2> QED BY <1>4, <2>5, <2>6, <2>7
<1>10. Counts(z.summary, d, T)
  BY CountsStep DEF CollectedFrom
<1> QED BY <1>7, <1>8, <1>9, <1>10 DEF CollectedFrom

(* What each kind of outcome leaves of the report.                         *)
WithError(r, v) == [r EXCEPT !.errors = Append(@, v)]
WithSkip(r, s, v) == [r EXCEPT !.summary = s, !.skipped = Append(@, v)]
WithScan(r, size) ==
    [r EXCEPT !.summary.scanned = @ + 1, !.summary.bytes = @ + size]
ScanCounted(s, size) == [s EXCEPT !.scanned = @ + 1, !.bytes = @ + size]
WithFile(r, p, y, s) ==
    [r EXCEPT !.files = Append(@, p), !.expressions = y, !.summary = s]
WithFound(m, file) ==
    [m EXCEPT !.detected = @ + Count(Detected(file) # {}),
              !.clued = @ + Count(file.clues),
              !.identified = [i \in Identifications |->
                  @[i] + Count(\E e \in Detected(file) :
                                   IdentificationOf[e] = i)]]

(* An error is appended and nothing else changes.                          *)
LEMMA ReportErr ==
    ASSUME NEW E, NEW r \in Reports(E), NEW v \in Record, NEW z,
           z = WithError(r, v)
    PROVE  /\ z \in Reports(E) /\ z.errors = Append(r.errors, v)
           /\ z.declared = r.declared /\ z.skipped = r.skipped
           /\ z.files = r.files /\ z.summary = r.summary
<1>1. r.errors \in Seq(Record)
  BY DEF Reports
<1>2. PICK q : q = Append(r.errors, v)
  OBVIOUS
<1>3. q \in Seq(Record)
  BY <1>1, <1>2
<1>4. z = [r EXCEPT !.errors = q]
  BY <1>2 DEF Reports, WithError
<1>5. z \in Reports(E)
  BY <1>3, <1>4 DEF Reports
<1>6. /\ z.errors = q /\ z.declared = r.declared /\ z.skipped = r.skipped
      /\ z.files = r.files /\ z.summary = r.summary
  BY <1>4 DEF Reports
<1> QED BY <1>2, <1>5, <1>6

(* A skip is appended and the summary changes.                             *)
LEMMA ReportSkip ==
    ASSUME NEW E, NEW r \in Reports(E), NEW v \in Record, NEW s \in Summaries,
           NEW z, z = WithSkip(r, s, v)
    PROVE  /\ z \in Reports(E) /\ z.skipped = Append(r.skipped, v)
           /\ z.declared = r.declared /\ z.errors = r.errors
           /\ z.files = r.files /\ z.summary = s
<1>1. r.skipped \in Seq(Record)
  BY DEF Reports
<1>2. PICK q : q = Append(r.skipped, v)
  OBVIOUS
<1>3. q \in Seq(Record)
  BY <1>1, <1>2
<1>4. z = [r EXCEPT !.summary = s, !.skipped = q]
  BY <1>2 DEF Reports, WithSkip
<1>5. z \in Reports(E)
  BY <1>3, <1>4 DEF Reports
<1>6. /\ z.skipped = q /\ z.declared = r.declared /\ z.errors = r.errors
      /\ z.files = r.files /\ z.summary = s
  BY <1>4 DEF Reports
<1> QED BY <1>2, <1>5, <1>6

(* A scanned file is counted with its size.                                *)
LEMMA ReportScan ==
    ASSUME NEW E, NEW r \in Reports(E), NEW size \in Nat, NEW z,
           z = WithScan(r, size)
    PROVE  /\ z \in Reports(E) /\ z.skipped = r.skipped
           /\ z.declared = r.declared /\ z.errors = r.errors
           /\ z.files = r.files /\ z.summary \in Summaries
           /\ z.summary = ScanCounted(r.summary, size)
<1>1. PICK s : s = [r.summary EXCEPT !.scanned = @ + 1, !.bytes = @ + size]
  OBVIOUS
<1>2. s \in Summaries
  <2>1. r.summary \in Summaries
    BY DEF Reports
  <2>2. PICK e \in Summaries : e = r.summary
    BY <2>1
  <2>3. e.scanned + 1 \in Nat /\ e.bytes + size \in Nat
    BY DEF Summaries
  <2>4. s = [e EXCEPT !.scanned = e.scanned + 1, !.bytes = e.bytes + size]
    BY <1>1, <2>2 DEF Summaries
  <2> QED BY <2>3, <2>4 DEF Summaries
<1>3. z = [r EXCEPT !.summary = s]
  BY <1>1 DEF Reports, Summaries, WithScan
<1>4. z \in Reports(E)
  BY <1>2, <1>3 DEF Reports
<1>5. /\ z.skipped = r.skipped /\ z.declared = r.declared
      /\ z.errors = r.errors /\ z.files = r.files /\ z.summary = s
  BY <1>3 DEF Reports
<1> QED BY <1>1, <1>2, <1>4, <1>5 DEF ScanCounted

(* A listed file is appended, with new expressions and a new summary.      *)
ListsFile(z, r, p, s, F) ==
    /\ z \in Reports(F) /\ z.files = Append(r.files, p)
    /\ z.declared = r.declared /\ z.errors = r.errors
    /\ z.skipped = r.skipped /\ z.summary = s

LEMMA ReportList ==
    ASSUME NEW E, NEW r \in Reports(E), NEW p \in Nat, NEW s \in Summaries,
           NEW F, NEW y \in F, NEW z, z = WithFile(r, p, y, s)
    PROVE  ListsFile(z, r, p, s, F)
<1>1. r.files \in Seq(Nat)
  BY DEF Reports
<1>2. PICK q : q = Append(r.files, p)
  OBVIOUS
<1>3. q \in Seq(Nat)
  BY <1>1, <1>2
<1>4. z = [r EXCEPT !.files = q, !.expressions = y, !.summary = s]
  BY <1>2 DEF Reports, WithFile
<1>5. z \in Reports(F)
  BY <1>3, <1>4 DEF Reports
<1>6. /\ z.files = q /\ z.declared = r.declared /\ z.errors = r.errors
      /\ z.skipped = r.skipped /\ z.summary = s
  BY <1>4 DEF Reports
<1> QED BY <1>2, <1>5, <1>6 DEF ListsFile

(* A binary file in the summary.                                           *)
LEMMA SummaryBinary ==
    ASSUME NEW file, file.read = "binary", NEW s \in Summaries,
           NEW z, z = [s EXCEPT !.binary = @ + 1]
    PROVE  z \in Summaries /\ CountsOneMore(z, s, file)
<1>1. ~Matches(file) /\ \A i : ~Identifies(file, i)
  BY DEF Matches, Identifies
<1>2. z \in Summaries
  BY DEF Summaries
<1>3. /\ z.visited = s.visited /\ z.directories = s.directories
      /\ z.other = s.other /\ z.truncated = s.truncated /\ z.errors = s.errors
      /\ z.scanned = s.scanned /\ z.bytes = s.bytes /\ z.binary = s.binary + 1
      /\ z.size = s.size /\ z.detected = s.detected /\ z.clued = s.clued
      /\ z.identified = s.identified
  BY DEF Summaries
<1> QED BY <1>1, <1>2, <1>3 DEF CountsOneMore

(* A file above the size limit in the summary.                             *)
LEMMA SummaryLarge ==
    ASSUME NEW file, file.read = "tooLarge", NEW s \in Summaries,
           NEW z, z = [s EXCEPT !.size = @ + 1]
    PROVE  z \in Summaries /\ CountsOneMore(z, s, file)
<1>1. ~Matches(file) /\ \A i : ~Identifies(file, i)
  BY DEF Matches, Identifies
<1>2. z \in Summaries
  BY DEF Summaries
<1>3. /\ z.visited = s.visited /\ z.directories = s.directories
      /\ z.other = s.other /\ z.truncated = s.truncated /\ z.errors = s.errors
      /\ z.scanned = s.scanned /\ z.bytes = s.bytes /\ z.binary = s.binary
      /\ z.size = s.size + 1 /\ z.detected = s.detected /\ z.clued = s.clued
      /\ z.identified = s.identified
  BY DEF Summaries
<1> QED BY <1>1, <1>2, <1>3 DEF CountsOneMore

(* Nothing of the file is listed.                                          *)
LEMMA SummaryText ==
    ASSUME NEW file, file.read = "text", file.size \in Nat,
           file.overflow \/ ~Listed(file),
           NEW s \in Summaries, NEW z \in Summaries,
           z = ScanCounted(s, file.size)
    PROVE  CountsOneMore(z, s, file)
<1>1. /\ ~(Matches(file) /\ Detected(file) # {})
      /\ ~(Matches(file) /\ file.clues)
      /\ \A i : ~Identifies(file, i)
  BY DEF Matches, Identifies, Listed
<1>2. /\ z.visited = s.visited /\ z.directories = s.directories
      /\ z.other = s.other /\ z.truncated = s.truncated /\ z.errors = s.errors
      /\ z.scanned = s.scanned + 1 /\ z.bytes = s.bytes + file.size
      /\ z.binary = s.binary /\ z.size = s.size /\ z.detected = s.detected
      /\ z.clued = s.clued /\ z.identified = s.identified
  BY DEF Summaries, ScanCounted
<1> QED BY <1>1, <1>2 DEF CountsOneMore

(* A listed file in the summary.                                           *)
LEMMA SummaryListed ==
    ASSUME NEW file, Matches(file), file.size \in Nat, file.clues \in BOOLEAN,
           NEW s \in Summaries, NEW m \in Summaries,
           m = ScanCounted(s, file.size),
           NEW z, z = WithFound(m, file)
    PROVE  z \in Summaries /\ CountsOneMore(z, s, file)
<1>1. PICK h : h = Count(Detected(file) # {}) /\ h \in Nat
                  /\ h = IF Detected(file) # {} THEN 1 ELSE 0
  BY DEF Count
<1>2. PICK c : c = Count(file.clues) /\ c \in Nat
                  /\ c = IF file.clues THEN 1 ELSE 0
  BY DEF Count
<1>3. PICK k \in [Identifications -> Nat] :
          /\ k = [i \in Identifications |->
                     m.identified[i] + Count(\E e \in Detected(file) :
                                                 IdentificationOf[e] = i)]
          /\ \A i \in Identifications :
                 k[i] = IF Identifies(file, i) THEN m.identified[i] + 1
                                               ELSE m.identified[i]
  <2> DEFINE l == [i \in Identifications |->
                     m.identified[i] + Count(\E e \in Detected(file) :
                                                 IdentificationOf[e] = i)]
  <2>1. m.identified \in [Identifications -> Nat]
    BY DEF Summaries
  <2>2. \A i \in Identifications :
            l[i] = IF Identifies(file, i) THEN m.identified[i] + 1
                                          ELSE m.identified[i]
    BY <2>1 DEF Count, Identifies
  <2>3. l \in [Identifications -> Nat]
    <3>1. \A i \in Identifications : l[i] \in Nat
      <4> HIDE DEF l
      <4> QED BY <2>1, <2>2
    <3> QED BY <3>1
  <2> QED BY <2>2, <2>3
<1>4. m.detected + h \in Nat /\ m.clued + c \in Nat
  BY <1>1, <1>2 DEF Summaries
<1>5. z = [m EXCEPT !.detected = m.detected + h, !.clued = m.clued + c,
                    !.identified = k]
  BY <1>1, <1>2, <1>3 DEF Summaries, WithFound
<1>6. z \in Summaries
  BY <1>4, <1>5 DEF Summaries
<1>7. /\ z.visited = m.visited /\ z.directories = m.directories
      /\ z.other = m.other /\ z.truncated = m.truncated /\ z.errors = m.errors
      /\ z.scanned = m.scanned /\ z.bytes = m.bytes /\ z.binary = m.binary
      /\ z.size = m.size /\ z.detected = m.detected + h
      /\ z.clued = m.clued + c /\ z.identified = k
  BY <1>5 DEF Summaries
<1>8. /\ m.visited = s.visited /\ m.directories = s.directories
      /\ m.other = s.other /\ m.truncated = s.truncated /\ m.errors = s.errors
      /\ m.scanned = s.scanned + 1 /\ m.bytes = s.bytes + file.size
      /\ m.binary = s.binary /\ m.size = s.size /\ m.detected = s.detected
      /\ m.clued = s.clued /\ m.identified = s.identified
  BY DEF Summaries, ScanCounted
<1>9. /\ s.detected \in Nat /\ s.clued \in Nat /\ file.read = "text"
  BY DEF Summaries, Matches
<1>10. z.detected = IF Matches(file) /\ Detected(file) # {}
                    THEN s.detected + 1 ELSE s.detected
  BY <1>1, <1>7, <1>8, <1>9
<1>11. z.clued = IF Matches(file) /\ file.clues THEN s.clued + 1 ELSE s.clued
  BY <1>2, <1>7, <1>8, <1>9
<1>12. \A i \in Identifications :
           z.identified[i] = IF Identifies(file, i) THEN s.identified[i] + 1
                                                    ELSE s.identified[i]
  <2>1. z.identified = k /\ m.identified = s.identified
    BY <1>7, <1>8
  <2>2. ASSUME NEW i \in Identifications
        PROVE  k[i] = IF Identifies(file, i) THEN m.identified[i] + 1
                                             ELSE m.identified[i]
    BY <1>3, Zenon
  <2>3. ASSUME NEW i \in Identifications
        PROVE  z.identified[i] = IF Identifies(file, i) THEN s.identified[i] + 1
                                                        ELSE s.identified[i]
    <3>1. z.identified[i] = k[i] /\ m.identified[i] = s.identified[i]
      BY <2>1
    <3>2. CASE Identifies(file, i)
      <4>1. k[i] = m.identified[i] + 1
        BY <2>2, <3>2
      <4> QED BY <3>1, <3>2, <4>1
    <3>3. CASE ~Identifies(file, i)
      <4>1. k[i] = m.identified[i]
        BY <2>2, <3>3
      <4> QED BY <3>1, <3>3, <4>1
    <3> QED BY <3>2, <3>3
  <2> QED BY <2>3
<1>13. /\ z.visited = s.visited /\ z.directories = s.directories
       /\ z.other = s.other /\ z.truncated = s.truncated /\ z.errors = s.errors
       /\ z.scanned = s.scanned + 1 /\ z.bytes = s.bytes + file.size
       /\ z.binary = s.binary /\ z.size = s.size
  BY <1>7, <1>8
<1>14. CountsOneMore(z, s, file)
  BY <1>6, <1>9, <1>10, <1>11, <1>12, <1>13 DEF CountsOneMore
<1> QED BY <1>6, <1>14

(* The iteration of the loop that receives the outcome of one task more.   *)
LEMMA CollectStep ==
    ASSUME NEW d, IsDiscovery(d), NEW S \in SUBSET DOMAIN d.tasks,
           NEW t \in DOMAIN d.tasks, t \notin S,
           NEW r, CollectedFrom(r, d, S)
    PROVE  CollectedFrom(Collect(d, r, TrueOutcome(d.tasks[t], t)), d, S \cup {t})
<1>1. PICK file : file = d.tasks[t] /\ file \in File
  BY TasksOK
<1>2. PICK o : o = TrueOutcome(file, t)
  OBVIOUS
<1>3. PICK x : x = ExpressionsFor(d, S)
  OBVIOUS
<1>4. PICK y : y = ExpressionsFor(d, S \cup {t})
  OBVIOUS
<1>5. y = IF Matches(file) THEN AddExpressions(x, file) ELSE x
  BY <1>1, <1>3, <1>4, ExpressionsStep
<1>6. Detected(file) = {} => AddExpressions(x, file) = x
  BY <1>3, ExpressionsKept
<1>7. PICK E : E = {x} /\ r \in Reports(E) /\ r.summary \in Summaries
                     /\ r.expressions = x
  BY <1>3 DEF CollectedFrom, Reports
<1>8. PICK F : F = {y}
  OBVIOUS
<1>9. y = x => F = E
  BY <1>7, <1>8
<1>10. y \in F
  BY <1>8
<1>11. /\ r \in Reports(E) /\ r.summary \in Summaries /\ r.expressions = x
  BY <1>7
<1> DEFINE Good(z) ==
        /\ z \in Reports(F)
        /\ z.declared = r.declared
        /\ z.errors = IF file.read = "unreadable"
                      THEN Append(r.errors, <<file.path, "unreadable">>)
                      ELSE IF file.read = "text" /\ file.overflow
                      THEN Append(r.errors, <<file.path, "tooMany">>)
                      ELSE r.errors
        /\ z.skipped = IF file.read = "binary"
                       THEN Append(r.skipped, <<file.path, "binary">>)
                       ELSE IF file.read = "tooLarge"
                       THEN Append(r.skipped, <<file.path, "size">>)
                       ELSE r.skipped
        /\ z.files = IF Matches(file) /\ Listed(file)
                     THEN Append(r.files, file.path) ELSE r.files
        /\ CountsOneMore(z.summary, r.summary, file)
<1>12. ASSUME NEW z, Good(z)
      PROVE  CollectedFrom(z, d, S \cup {t})
  BY <1>1, <1>4, <1>12, <1>8, ListsStep
<1>13. /\ file.read \in ReadResults /\ file.overflow \in BOOLEAN
      /\ file.clues \in BOOLEAN /\ file.path \in Nat /\ file.size \in Nat
  BY <1>1 DEF File
<1>14. \A k \in Texts : <<file.path, k>> \in Record
  BY <1>13 DEF Record
<1>15. PICK v : v = <<file.path, IF file.read = "text" THEN "tooMany"
                                 ELSE IF file.read = "tooLarge" THEN "size"
                                 ELSE file.read>>
  OBVIOUS
<1>16. PICK p \in Nat : p = file.path
  BY <1>13
<1>17. PICK size \in Nat : size = file.size
  BY <1>13
<1>18. PICK z : z = Collect(d, r, o)
  OBVIOUS
<1> HIDE DEF Good
<1> SUFFICES Good(z)
  BY <1>1, <1>2, <1>12, <1>18
<1>19. CASE file.read = "unreadable"
  <2>1. o = [task |-> t, scanned |-> FALSE, binary |-> FALSE,
             tooLarge |-> FALSE, err |-> "unreadable"]
    BY <1>2, <1>19 DEF TrueOutcome, ReadOutcome, NoOutcome
  <2>2. z = WithError(r, v)
    BY <1>1, <1>18, <1>19, <1>15, <2>1 DEF Collect, WithError
  <2>3. y = x /\ ~Matches(file) /\ \A i : ~Identifies(file, i)
    BY <1>5, <1>19 DEF Matches, Identifies
  <2>4. v \in Record
    BY <1>14, <1>19, <1>15 DEF Texts
  <2>5. /\ z \in Reports(E)
        /\ z.declared = r.declared /\ z.skipped = r.skipped /\ z.files = r.files
        /\ z.errors = Append(r.errors, v)
        /\ z.summary = r.summary
    BY <1>11, <2>2, <2>4, ReportErr
  <2>6. CountsOneMore(z.summary, r.summary, file)
    BY <1>11, <1>19, <2>3, <2>5 DEF CountsOneMore
  <2> QED BY <1>19, <1>9, <1>15, <2>3, <2>5, <2>6 DEF Good
<1>20. CASE file.read = "binary"
  <2>1. o = [task |-> t, scanned |-> FALSE, binary |-> TRUE,
             tooLarge |-> FALSE, err |-> "none"]
    BY <1>2, <1>20 DEF TrueOutcome, ReadOutcome, NoOutcome
  <2>2. PICK s : s = [r.summary EXCEPT !.binary = @ + 1]
    OBVIOUS
  <2>3. z = WithSkip(r, s, v)
    BY <1>1, <1>18, <1>20, <1>15, <2>1, <2>2 DEF Collect, WithSkip
  <2>4. y = x /\ ~Matches(file)
    BY <1>5, <1>20 DEF Matches
  <2>5. s \in Summaries /\ CountsOneMore(s, r.summary, file)
    BY <1>11, <1>20, <2>2, SummaryBinary
  <2>6. v \in Record
    BY <1>14, <1>20, <1>15 DEF Texts
  <2>7. /\ z \in Reports(E)
        /\ z.declared = r.declared /\ z.errors = r.errors /\ z.files = r.files
        /\ z.skipped = Append(r.skipped, v)
        /\ z.summary = s
    BY <1>11, <2>3, <2>5, <2>6, ReportSkip
  <2> QED BY <1>20, <1>9, <1>15, <2>4, <2>5, <2>7 DEF Good
<1>21. CASE file.read = "tooLarge"
  <2>1. o = [task |-> t, scanned |-> FALSE, binary |-> FALSE,
             tooLarge |-> TRUE, err |-> "none"]
    BY <1>2, <1>21 DEF TrueOutcome, ReadOutcome, NoOutcome
  <2>2. PICK s : s = [r.summary EXCEPT !.size = @ + 1]
    OBVIOUS
  <2>3. z = WithSkip(r, s, v)
    BY <1>1, <1>18, <1>21, <1>15, <2>1, <2>2 DEF Collect, WithSkip
  <2>4. y = x /\ ~Matches(file)
    BY <1>5, <1>21 DEF Matches
  <2>5. s \in Summaries /\ CountsOneMore(s, r.summary, file)
    BY <1>11, <1>21, <2>2, SummaryLarge
  <2>6. v \in Record
    BY <1>14, <1>21, <1>15 DEF Texts
  <2>7. /\ z \in Reports(E)
        /\ z.declared = r.declared /\ z.errors = r.errors /\ z.files = r.files
        /\ z.skipped = Append(r.skipped, v)
        /\ z.summary = s
    BY <1>11, <2>3, <2>5, <2>6, ReportSkip
  <2> QED BY <1>21, <1>9, <1>15, <2>4, <2>5, <2>7 DEF Good
<1>22. CASE file.read = "text"
  <2>1. PICK q : q = WithScan(r, size)
    OBVIOUS
  <2>2. /\ q \in Reports(E) /\ q.summary \in Summaries
        /\ q.declared = r.declared /\ q.errors = r.errors
        /\ q.files = r.files /\ q.skipped = r.skipped /\ q.expressions = x
        /\ q.summary = ScanCounted(r.summary, size)
    <3>1. /\ q \in Reports(E) /\ q.summary \in Summaries
          /\ q.declared = r.declared /\ q.errors = r.errors
          /\ q.files = r.files /\ q.skipped = r.skipped
          /\ q.summary = ScanCounted(r.summary, size)
      BY <1>11, <2>1, ReportScan
    <3>2. q.expressions = x
      BY <1>7, <3>1 DEF Reports
    <3> QED BY <3>1, <3>2
  <2>3. o = [task |-> t, scanned |-> TRUE, binary |-> FALSE,
             tooLarge |-> FALSE, err |-> MatchError(file)]
    BY <1>2, <1>22 DEF TrueOutcome, MatchOutcome, NoOutcome
  <2>4. CASE file.overflow
    <3>1. z = WithError(q, v)
      BY <1>1, <1>18, <1>22, <1>15, <1>17, <2>1, <2>3, <2>4 DEF Collect, MatchError, WithScan, WithError
    <3>2. y = x /\ ~Matches(file)
      BY <1>5, <2>4 DEF Matches
    <3>3. CountsOneMore(q.summary, r.summary, file)
      BY <1>11, <1>17, <1>22, <2>2, <2>4, SummaryText
    <3>4. v \in Record
      BY <1>14, <1>22, <1>15 DEF Texts
    <3>5. /\ z \in Reports(E)
          /\ z.declared = q.declared /\ z.skipped = q.skipped /\ z.files = q.files
          /\ z.errors = Append(q.errors, v)
          /\ z.summary = q.summary
      BY <2>2, <3>1, <3>4, ReportErr
    <3> QED BY <1>22, <1>9, <1>15, <2>2, <2>4, <3>2, <3>3, <3>5 DEF Good
  <2>5. CASE ~file.overflow /\ ~Listed(file)
    <3>1. z = q
      BY <1>1, <1>18, <1>17, <2>1, <2>3, <2>5 DEF Collect, MatchError, AddFile, WithScan
    <3>2. y = x
      BY <1>5, <1>6, <2>5 DEF Listed
    <3>3. CountsOneMore(q.summary, r.summary, file)
      BY <1>11, <1>17, <1>22, <2>2, <2>5, SummaryText
    <3> QED BY <1>22, <1>9, <2>2, <2>5, <3>1, <3>2, <3>3 DEF Good
  <2>6. CASE ~file.overflow /\ Listed(file)
    <3>1. Matches(file)
      BY <1>22, <2>6 DEF Matches
    <3>2. z = AddFile(q, file)
      BY <1>1, <1>18, <1>17, <2>1, <2>3, <2>6 DEF Collect, MatchError, WithScan
    <3>3. PICK m : m = q.summary
      OBVIOUS
    <3>4. PICK s : s = WithFound(m, file)
      OBVIOUS
    <3>5. y = AddExpressions(x, file)
      BY <1>5, <3>1
    <3>6. z = WithFile(q, p, y, s)
      BY <1>16, <2>2, <2>6, <3>2, <3>3, <3>4, <3>5 DEF AddFile, WithFile, WithFound
    <3>7. s \in Summaries /\ CountsOneMore(s, r.summary, file)
      BY <1>11, <1>13, <1>17, <2>2, <3>1, <3>3, <3>4, SummaryListed
    <3>8. /\ z \in Reports(F) /\ z.files = Append(q.files, p)
          /\ z.declared = q.declared /\ z.errors = q.errors
          /\ z.skipped = q.skipped /\ z.summary = s
      <4>1. q \in Reports(E) /\ s \in Summaries /\ p \in Nat
        BY <1>16, <2>2, <3>7
      <4>2. y \in F
        BY <1>10
      <4>3. ListsFile(z, q, p, s, F)
        BY <3>6, <4>1, <4>2, ReportList
      <4> QED BY <4>3 DEF ListsFile
    <3> QED BY <1>22, <1>9, <1>16, <2>2, <2>6, <3>1, <3>7, <3>8 DEF Good
  <2> QED BY <2>4, <2>5, <2>6
<1> QED BY <1>13, <1>19, <1>20, <1>21, <1>22 DEF ReadResults

-----------------------------------------------------------------------------
(* The recursive definition of the loop has a solution.                    *)
AreCollected(u, d, q, k) ==
    u = [n \in 0..k |-> IF n = 0 THEN InitialReport(d)
                        ELSE Collect(d, u[n - 1], q[n])]

(* It does, by induction on the number of outcomes.                        *)
LEMMA CollectedExist ==
    ASSUME NEW d, NEW q
    PROVE  \A k \in Nat : \E u : AreCollected(u, d, q, k)
<1> DEFINE Good == {k \in Nat : \E u : AreCollected(u, d, q, k)}
<1>1. 0 \in Good
  <2> DEFINE u == [n \in 0..0 |-> InitialReport(d)]
  <2>1. AreCollected(u, d, q, 0)
    BY DEF AreCollected
  <2> QED BY <2>1
<1>2. ASSUME NEW k \in Good PROVE k + 1 \in Good
  <2>1. PICK u : AreCollected(u, d, q, k)
    OBVIOUS
  <2> DEFINE more == [n \in 0..(k + 1) |->
                          IF n <= k THEN u[n] ELSE Collect(d, u[n - 1], q[n])]
  <2>2. ASSUME NEW n \in 0..(k + 1)
        PROVE  more[n] = IF n = 0 THEN InitialReport(d)
                         ELSE Collect(d, more[n - 1], q[n])
    <3>1. n # 0 => more[n - 1] = u[n - 1]
      OBVIOUS
    <3>2. CASE n <= k
      <4>1. u[n] = IF n = 0 THEN InitialReport(d) ELSE Collect(d, u[n - 1], q[n])
        BY <2>1, <3>2 DEF AreCollected
      <4> QED BY <3>1, <3>2, <4>1
    <3>3. CASE n = k + 1
      BY <3>1, <3>3
    <3> QED BY <3>2, <3>3
  <2>3. AreCollected(more, d, q, k + 1)
    <3> HIDE DEF more
    <3>1. more = [n \in 0..(k + 1) |-> more[n]]
      BY DEF more
    <3> QED BY <2>2, <3>1 DEF AreCollected
  <2> QED BY <2>3
<1> HIDE DEF Good
<1>3. Good = Nat
  BY <1>1, <1>2, AllNaturals DEF Good
<1> QED BY <1>3 DEF Good

LoopRun(u, d, q) ==
    /\ Collected(d, q) = u[Len(q)]
    /\ u[0] = InitialReport(d)
    /\ \A n \in 1..Len(q) : u[n] = Collect(d, u[n - 1], q[n])

(* Collected is the last report of that solution.                          *)
LEMMA CollectedIs ==
    ASSUME NEW d, NEW q, Len(q) \in Nat
    PROVE  \E u : LoopRun(u, d, q)
<1>1. PICK u : u = CHOOSE t : AreCollected(t, d, q, Len(q))
  OBVIOUS
<1>2. AreCollected(u, d, q, Len(q))
  <2>1. \E t : AreCollected(t, d, q, Len(q))
    BY CollectedExist
  <2> QED BY <1>1, <2>1
<1>3. Collected(d, q) = u[Len(q)]
  BY <1>1 DEF Collected, AreCollected
<1>4. /\ u[0] = InitialReport(d)
      /\ \A n \in 1..Len(q) : u[n] = Collect(d, u[n - 1], q[n])
  BY <1>2 DEF AreCollected
<1>5. LoopRun(u, d, q)
  BY <1>3, <1>4 DEF LoopRun
<1> QED BY <1>5

(* Over no task at all, a total is 0.                                      *)
LEMMA TotalOfNothing ==
    ASSUME NEW f \in Seq(Nat)
    PROVE  Total(f, {}) = 0
<1>1. Len(f) \in Nat
  OBVIOUS
<1>2. CASE Len(f) = 0
  <2>1. PICK none : none = {}
    OBVIOUS
  <2>2. PICK u : Total(f, none) = u[Len(f)] /\ u[0] = 0
    <3>1. \E u : TotalRun(u, f, none)
      BY TotalIs
    <3> QED BY <3>1 DEF TotalRun
  <2> QED BY <1>2, <2>1, <2>2
<1>3. CASE Len(f) # 0
  <2>1. PICK none : none = {}
    OBVIOUS
  <2>2. 1 \in 1..Len(f) /\ 1 \notin none
    BY <1>1, <1>3, <2>1
  <2> QED BY <2>2, TotalWith
<1> QED BY <1>2, <1>3

(* Before the first outcome.                                               *)
LEMMA CollectedNothing ==
    ASSUME NEW d, IsDiscovery(d)
    PROVE  CollectedFrom(InitialReport(d), d, {})
<1> DEFINE r == InitialReport(d)
<1>1. PICK none : none = {}
  OBVIOUS
<1>2. /\ \A x : Reading(d, none, x) = {} /\ Matched(d, none) = {}
      /\ Shown(d, none) = {} /\ Clued(d, none) = {} /\ Detecting(d, none) = {}
      /\ \A i : Identified(d, none, i) = {}
      /\ \A e : With(d, none, e) = {}
  BY <1>1 DEF Reading, Matched, Shown, Clued, Detecting, Identified, With
<1>3. Failing(d, none) = {} /\ Skipping(d, none) = {} /\ ShownPaths(d, none) = {}
  BY <1>2 DEF Failing, Skipping, ShownPaths, Records
<1>4. ExpressionsFor(d, none) = <<>>
  BY <1>2 DEF ExpressionsFor
<1>5. /\ d.summary \in [visited : Nat, scanned : {0}, bytes : {0},
                        detected : {0}, identified : [Identifications -> {0}],
                        clued : {0}, directories : Nat, binary : {0},
                        size : Nat, other : Nat, errors : {0},
                        truncated : BOOLEAN]
      /\ d.declared \in Seq(Nat) /\ d.errors \in Seq(Record)
      /\ d.skipped \in Seq(Record)
  BY DEF IsDiscovery
<1>6. Counts(d.summary, d, none)
  <2>1. d.summary \in Summaries
    BY <1>5 DEF Summaries
  <2>2. /\ d.summary.scanned = 0 /\ d.summary.bytes = 0 /\ d.summary.detected = 0
        /\ d.summary.clued = 0 /\ d.summary.binary = 0 /\ d.summary.errors = 0
        /\ d.summary.size \in Nat
        /\ d.summary.identified \in [Identifications -> {0}]
    BY <1>5
  <2>3. Total([t \in DOMAIN d.tasks |-> d.tasks[t].size], {}) = 0
    <3> DEFINE sizes == [t \in DOMAIN d.tasks |-> d.tasks[t].size]
    <3>1. \A f \in File : f.size \in Nat
      BY DEF File
    <3>2. \A u \in DOMAIN d.tasks : d.tasks[u].size \in Nat
      BY <3>1, TasksOK
    <3>3. sizes \in [1..Len(d.tasks) -> Nat] /\ Len(d.tasks) \in Nat
      BY <3>2, TasksOK
    <3>4. sizes \in Seq(Nat)
      BY <3>3
    <3> HIDE DEF sizes
    <3>5. Total(sizes, {}) = 0
      BY <3>4, TotalOfNothing
    <3> QED BY <3>5 DEF sizes
  <2>4. Cardinality({}) = 0
    BY FS_EmptySet
  <2>5. d.summary.identified = [i \in Identifications |-> Cardinality(Identified(d, none, i))]
    BY <1>2, <2>2, <2>4
  <2>6. /\ Reading(d, none, "text") = {} /\ Reading(d, none, "binary") = {}
        /\ Reading(d, none, "tooLarge") = {}
        /\ Detecting(d, none) = {} /\ Clued(d, none) = {}
    BY <1>2
  <2>7. /\ d.summary.scanned = Cardinality(Reading(d, none, "text"))
        /\ d.summary.binary = Cardinality(Reading(d, none, "binary"))
        /\ d.summary.size = d.summary.size + Cardinality(Reading(d, none, "tooLarge"))
        /\ d.summary.detected = Cardinality(Detecting(d, none))
        /\ d.summary.clued = Cardinality(Clued(d, none))
    <3>1. d.summary.size = d.summary.size + 0
      BY <2>2
    <3> QED BY <2>2, <2>4, <2>6, <3>1
  <2>8. d.summary.bytes = Total([t \in DOMAIN d.tasks |-> d.tasks[t].size],
                                Reading(d, none, "text"))
    BY <2>2, <2>3, <2>6
  <2>9. d.summary.errors = 0
    BY <2>2
  <2> QED BY <2>1, <2>5, <2>7, <2>8, <2>9 DEF Counts
<1>7. /\ Adds(d.errors, d.errors, {}) /\ Adds(d.skipped, d.skipped, {})
      /\ Adds(<<>>, <<>>, {})
  <2>1. <<>> \in Seq(Nat)
    OBVIOUS
  <2> QED BY <1>5, <2>1, AddsNothing
<1>8. r \in Reports({ExpressionsFor(d, none)})
  <2>1. d.summary \in Summaries
    BY <1>5 DEF Summaries
  <2> QED BY <1>4, <1>5, <2>1 DEF Reports, InitialReport
<1>9. /\ r.declared = d.declared /\ r.summary = d.summary /\ r.errors = d.errors
      /\ r.skipped = d.skipped /\ r.files = <<>>
  BY DEF InitialReport
<1> HIDE DEF r
<1>10. CollectedFrom(r, d, none)
  BY <1>3, <1>6, <1>7, <1>8, <1>9 DEF CollectedFrom
<1> QED BY <1>1, <1>10 DEF r

(* The outcomes received are the true ones of every task, each once.       *)
AllTrue(d, q) ==
    /\ \A i \in DOMAIN q :
           /\ q[i].task \in DOMAIN d.tasks
           /\ q[i] = TrueOutcome(d.tasks[q[i].task], q[i].task)
    /\ \A i, j \in DOMAIN q : q[i].task = q[j].task => i = j
    /\ \A t \in DOMAIN d.tasks : \E i \in DOMAIN q : q[i].task = t

(* Whatever their order, they leave the same report.                       *)
LEMMA CollectedAll ==
    ASSUME NEW d, IsDiscovery(d), NEW q, Len(q) \in Nat,
           DOMAIN q = 1..Len(q), AllTrue(d, q)
    PROVE  CollectedFrom(Collected(d, q), d, DOMAIN d.tasks)
<1> DEFINE Done(n) == {q[i].task : i \in 1..n}
<1>1. PICK u : /\ Collected(d, q) = u[Len(q)]
               /\ u[0] = InitialReport(d)
               /\ \A n \in 1..Len(q) : u[n] = Collect(d, u[n - 1], q[n])
  <2>1. \E u : LoopRun(u, d, q)
    BY CollectedIs
  <2> QED BY <2>1 DEF LoopRun
<1> DEFINE Good == {n \in Nat : n <= Len(q) => CollectedFrom(u[n], d, Done(n))}
<1>2. 0 \in Good
  <2>1. Done(0) = {}
    OBVIOUS
  <2>2. CollectedFrom(u[0], d, {})
    BY <1>1, CollectedNothing
  <2> HIDE DEF Done
  <2>3. CollectedFrom(u[0], d, Done(0))
    BY <2>1, <2>2
  <2> QED BY <2>3
<1>3. ASSUME NEW n \in Good PROVE n + 1 \in Good
  <2> SUFFICES ASSUME n + 1 <= Len(q)
               PROVE  CollectedFrom(u[n + 1], d, Done(n + 1))
    OBVIOUS
  <2>1. n \in Nat /\ CollectedFrom(u[n], d, Done(n))
    <3> HIDE DEF Done
    <3> QED OBVIOUS
  <2> HIDE DEF Good
  <2>2. n + 1 \in 1..Len(q) /\ (n + 1) - 1 = n /\ 1..n \subseteq 1..Len(q)
    BY <2>1
  <2>3. PICK t \in DOMAIN d.tasks : /\ t = q[n + 1].task
                                    /\ q[n + 1] = TrueOutcome(d.tasks[t], t)
    BY <2>2 DEF AllTrue
  <2>4. Done(n) \in SUBSET DOMAIN d.tasks
    <3>1. \A i \in 1..n : i \in DOMAIN q
      BY <2>2
    <3>2. \A i \in 1..n : q[i].task \in DOMAIN d.tasks
      BY <3>1 DEF AllTrue
    <3> HIDE DEF Good
    <3> QED BY <3>2, Zenon
  <2>5. t \notin Done(n)
    <3>1. \A i \in 1..n : i \in DOMAIN q /\ n + 1 \in DOMAIN q /\ i # n + 1
      BY <2>1, <2>2
    <3>2. \A i \in 1..n : q[i].task # q[n + 1].task
      BY <3>1 DEF AllTrue
    <3> QED BY <2>3, <3>2
  <2>6. Done(n + 1) = Done(n) \cup {t}
    <3>1. 1..(n + 1) = (1..n) \cup {n + 1}
      BY <2>1
    <3>2. Done(n + 1) = {q[i].task : i \in (1..n) \cup {n + 1}}
      BY <3>1
    <3> QED BY <2>3, <3>2
  <2>7. u[n + 1] = Collect(d, u[n], TrueOutcome(d.tasks[t], t))
    BY <1>1, <2>2, <2>3
  <2> HIDE DEF Done
  <2>8. CollectedFrom(Collect(d, u[n], TrueOutcome(d.tasks[t], t)), d, Done(n) \cup {t})
    BY <2>1, <2>4, <2>5, CollectStep
  <2> QED BY <2>6, <2>7, <2>8
<1>4. Good = Nat
  <2> HIDE DEF Good
  <2>1. Good \in SUBSET Nat
    BY DEF Good
  <2> QED BY <1>2, <1>3, <2>1, AllNaturals
<1>5. Done(Len(q)) = DOMAIN d.tasks
  <2> HIDE DEF Good
  <2>1. \A i \in 1..Len(q) : q[i].task \in DOMAIN d.tasks
    BY DEF AllTrue
  <2>2. \A t \in DOMAIN d.tasks : \E i \in 1..Len(q) : q[i].task = t
    BY DEF AllTrue
  <2> QED BY <2>1, <2>2, Zenon
<1> HIDE DEF Done
<1>6. CollectedFrom(u[Len(q)], d, Done(Len(q)))
  BY <1>4 DEF Good
<1> QED BY <1>1, <1>5, <1>6

(* Paths added to nothing.                                                 *)
LEMMA PathsListed ==
    ASSUME NEW s \in Seq(Nat), NEW R \in SUBSET Nat, Adds(s, <<>>, R)
    PROVE  InOrder(s, <) = InOrder(SetToSeq(R), <)
<1>1. <<>> \in Seq(Nat)
  OBVIOUS
<1>2. PICK none \in Seq(Nat) : none = <<>>
  BY <1>1
<1>3. Adds(s, none, R)
  BY <1>2
<1>4. SetToSeq(R) \in Seq(Nat)
  BY <1>3, AddsListed
<1>5. \A A : Holding(s, A) = Holding(none \o SetToSeq(R), A)
  BY <1>3, AddsListed
<1>6. none \o SetToSeq(R) = SetToSeq(R)
  BY <1>2, <1>4
<1>7. \A A : Holding(s, A) = Holding(SetToSeq(R), A)
  BY <1>5, <1>6
<1> QED BY <1>4, <1>7, PathsSortedAlike

(* Sorted, it is the report the discovery calls for.                       *)
LEMMA ReportIsExpected ==
    ASSUME NEW d, IsDiscovery(d), NEW q, Len(q) \in Nat,
           DOMAIN q = 1..Len(q), AllTrue(d, q)
    PROVE  ReportOf(d, q) = ExpectedReport(d)
<1>1. PICK r : r = Collected(d, q)
  OBVIOUS
<1>2. PICK S : S = DOMAIN d.tasks
  OBVIOUS
<1>3. CollectedFrom(r, d, S)
  BY <1>1, <1>2, CollectedAll
<1>4. /\ r.errors \in Seq(Record) /\ r.skipped \in Seq(Record)
      /\ r.files \in Seq(Nat) /\ r.declared = d.declared
      /\ Adds(r.errors, d.errors, Failing(d, S))
      /\ Adds(r.skipped, d.skipped, Skipping(d, S))
      /\ Adds(r.files, <<>>, ShownPaths(d, S))
  BY <1>3 DEF CollectedFrom, Reports
<1>5. PICK e : e = ExpressionsFor(d, S) /\ r.expressions = e /\ r \in Reports({e})
  BY <1>3 DEF CollectedFrom, Reports
<1>6. r.summary \in Summaries /\ r.summary = SummaryFor(d, S)
  BY <1>3, SummaryIs DEF CollectedFrom, Counts
<1>7. d.errors \in Seq(Record) /\ d.skipped \in Seq(Record) /\ <<>> \in Seq(Nat)
  BY DEF IsDiscovery
<1>8. /\ Failing(d, S) \in SUBSET Record /\ Skipping(d, S) \in SUBSET Record
      /\ ShownPaths(d, S) \in SUBSET Nat
  <2>1. \A u \in S : d.tasks[u].path \in Nat
    <3>1. \A f \in File : f.path \in Nat
      BY DEF File
    <3> QED BY <1>2, <3>1, TasksOK
  <2>2. \A x \in Texts : \A T \in SUBSET S : Records(d, T, x) \in SUBSET Record
    BY <2>1 DEF Records, Record
  <2>3. {"unreadable", "tooMany", "binary", "size"} \subseteq Texts
    BY DEF Texts
  <2>4. /\ \A x : Reading(d, S, x) \in SUBSET S
        /\ Reading(d, S, "text") \ Matched(d, S) \in SUBSET S
        /\ Shown(d, S) \in SUBSET S
    BY DEF Reading, Matched, Shown
  <2>5. Failing(d, S) \in SUBSET Record /\ Skipping(d, S) \in SUBSET Record
    BY <2>2, <2>3, <2>4 DEF Failing, Skipping
  <2>6. ShownPaths(d, S) \in SUBSET Nat
    BY <2>1, <2>4 DEF ShownPaths
  <2> QED BY <2>5, <2>6
<1>9. /\ InOrder(r.errors, Before)
             = InOrder(d.errors \o SetToSeq(Failing(d, S)), Before)
      /\ Len(r.errors) = Len(d.errors) + Cardinality(Failing(d, S))
  <2>1. /\ d.errors \o SetToSeq(Failing(d, S)) \in Seq(Record)
        /\ \A A : Holding(r.errors, A)
                      = Holding(d.errors \o SetToSeq(Failing(d, S)), A)
        /\ Len(r.errors) = Len(d.errors) + Cardinality(Failing(d, S))
    BY <1>4, <1>7, <1>8, AddsListed
  <2> QED BY <1>4, <2>1, RecordsSortedAlike
<1>10. InOrder(r.skipped, Before)
           = InOrder(d.skipped \o SetToSeq(Skipping(d, S)), Before)
  <2>1. /\ d.skipped \o SetToSeq(Skipping(d, S)) \in Seq(Record)
        /\ \A A : Holding(r.skipped, A)
                      = Holding(d.skipped \o SetToSeq(Skipping(d, S)), A)
    <3>1. PICK R \in SUBSET Record : R = Skipping(d, S)
      BY <1>8
    <3>2. PICK s \in Seq(Record) : s = r.skipped
      BY <1>4
    <3>3. PICK old \in Seq(Record) : old = d.skipped
      BY <1>7
    <3>4. Adds(s, old, R)
      BY <1>4, <3>1, <3>2, <3>3
    <3>5. /\ old \o SetToSeq(R) \in Seq(Record)
          /\ \A A : Holding(s, A) = Holding(old \o SetToSeq(R), A)
      BY <3>4, AddsListed
    <3> QED BY <3>1, <3>2, <3>3, <3>5
  <2> QED BY <1>4, <2>1, RecordsSortedAlike
<1>11. InOrder(r.files, <) = InOrder(SetToSeq(ShownPaths(d, S)), <)
  <2>1. PICK R : R = ShownPaths(d, S)
    OBVIOUS
  <2>2. PICK s : s = r.files
    OBVIOUS
  <2>3. s \in Seq(Nat) /\ R \in SUBSET Nat /\ Adds(s, <<>>, R)
    BY <1>4, <1>8, <2>1, <2>2
  <2>4. InOrder(s, <) = InOrder(SetToSeq(R), <)
    BY <2>3, PathsListed
  <2> QED BY <2>1, <2>2, <2>4
<1>12. PICK a, b, c, f, n :
           /\ a = InOrder(d.declared, <)
           /\ b = InOrder(r.errors, Before)
           /\ c = InOrder(r.skipped, Before)
           /\ f = InOrder(r.files, <)
           /\ n = Len(r.errors)
  OBVIOUS
<1>13. Sorted(r) = [summary |-> [r.summary EXCEPT !.errors = n], declared |-> a,
                    errors |-> b, skipped |-> c, files |-> f, expressions |-> e]
  <2>1. Sorted(r) = [r EXCEPT !.files = f, !.declared = a, !.errors = b,
                              !.skipped = c, !.summary.errors = n]
    BY <1>4, <1>12 DEF Sorted
  <2> QED BY <1>5, <2>1 DEF Reports
<1>14. ExpectedReport(d) =
           [summary |-> [r.summary EXCEPT !.errors = n], declared |-> a,
            errors |-> b, skipped |-> c, files |-> f, expressions |-> e]
  BY <1>2, <1>5, <1>6, <1>9, <1>10, <1>11, <1>12 DEF ExpectedReport, ShownPaths
<1> QED BY <1>1, <1>13, <1>14 DEF ReportOf

-----------------------------------------------------------------------------
(* What the caller has got, by where scanRepository is.                    *)
ResultFollows ==
    /\ main = "returned" => Result = [status |-> "returned",
                                      report |-> ReportOf(discovery, received)]
    /\ main = "canceled" => Result = [status |-> "canceled"]
    /\ main \in {"collect", "check"} => Result = [status |-> "pending"]

(* So it is in every state, and in the next one.                           *)
LEMMA ResultNow == ResultFollows
BY Zenon DEF ResultFollows, Result

LEMMA ResultNext == ResultFollows'
BY ResultNow, PTL

(* When a report is returned it is the one the contract calls for.         *)
ReturnsExpected ==
    main = "returned" =>
        ReportOf(discovery, received) = ExpectedReport(discovery)

(* The invariant is what makes it so.                                      *)
LEMMA ReturnedReport == IInv => ReturnsExpected
<1> SUFFICES ASSUME IInv, main = "returned"
             PROVE  ReportOf(discovery, received) = ExpectedReport(discovery)
  BY DEF ReturnsExpected
<1>1. IsDiscovery(discovery)
  BY DEF IInv, TypeOK
<1>2. /\ Len(received) \in Nat /\ DOMAIN received = 1..Len(received)
      /\ taken \in 0..Len(discovery.tasks)
  BY DEF IInv, TypeOK
<1>3. /\ Len(discovery.tasks) \in Nat
      /\ DOMAIN discovery.tasks = 1..Len(discovery.tasks)
  BY <1>1, TasksOK
<1>4. AllTrue(discovery, received)
  <2>1. \A i \in DOMAIN received : received[i].task \in DOMAIN discovery.tasks
    BY <1>2, <1>3 DEF IInv, TasksTaken
  <2>2. /\ \A t \in DOMAIN discovery.tasks : Reported(t)
        /\ \A i \in DOMAIN received :
               received[i] = TrueOutcome(discovery.tasks[received[i].task],
                                         received[i].task)
    BY DEF IInv, ReturnedComplete
  <2>3. \A i, j \in DOMAIN received :
            received[i].task = received[j].task => i = j
    BY DEF IInv, TasksConserved
  <2> QED BY <2>1, <2>2, <2>3 DEF AllTrue, Reported
<1> QED BY <1>1, <1>2, <1>4, ReportIsExpected

LEMMA ReturnedNext == IInv' => ReturnsExpected'
BY ReturnedReport, PTL

(* The scan starts as the contract does.                                   *)
LEMMA ContractInit == Init => Contract!CInit
<1> SUFFICES ASSUME Init PROVE Contract!CInit
  OBVIOUS
<1>1. ctxDone = FALSE /\ main = "collect"
  BY DEF Init, StartOn
<1> QED BY <1>1, ResultNow DEF ResultFollows, Contract!CInit, Contract!Pending

(* Return is the contract's own step, Cancel its cancellation, and the     *)
(* rest changes nothing the caller sees.                                   *)
LEMMA ContractNext ==
    ASSUME IInv, IInv', [Next]_vars
    PROVE  [Contract!CNext]_(Contract!cvars)
<1>1. /\ main \in {"collect", "check", "returned", "canceled"}
      /\ main' \in {"collect", "check", "returned", "canceled"}
  BY DEF IInv, TypeOK
<1>2. ASSUME UNCHANGED <<discovery, main>>,
             UNCHANGED received \/ main = "collect"
      PROVE  Result' = Result
  <2>1. CASE main = "collect"
    <3>1. main' = "collect"
      BY <1>2, <2>1
    <3>2. Result = [status |-> "pending"] /\ Result' = [status |-> "pending"]
      BY <2>1, <3>1, ResultNow, ResultNext DEF ResultFollows
    <3> QED BY <3>2
  <2>2. CASE UNCHANGED received
    BY <1>2, <2>2 DEF Result
  <2> QED BY <1>2, <2>1, <2>2
<1>3. CASE (\E w \in Workers : Worker(w)) \/ Close \/ Terminated \/ UNCHANGED vars
  <2>1. UNCHANGED <<discovery, ctxDone, main>>
        /\ (UNCHANGED received \/ main = "collect")
    BY <1>3 DEF Worker, Take, Exhausted, Read, Match, Deliver, Abandon, Close,
                Terminated, vars
  <2>2. UNCHANGED Contract!cvars
    BY <1>2, <2>1 DEF Contract!cvars
  <2> QED BY <2>2
<1>4. CASE Finish
  <2>1. UNCHANGED <<discovery, ctxDone>> /\ main = "collect" /\ main' = "check"
    BY <1>4 DEF Finish
  <2>2. Result = [status |-> "pending"] /\ Result' = [status |-> "pending"]
    BY <2>1, ResultNow, ResultNext DEF ResultFollows
  <2>3. UNCHANGED Contract!cvars
    BY <2>1, <2>2 DEF Contract!cvars
  <2> QED BY <2>3
<1>5. CASE Return
  <2>1. /\ UNCHANGED <<discovery, ctxDone, received>> /\ main = "check"
        /\ main' = IF ctxDone THEN "canceled" ELSE "returned"
    BY <1>5 DEF Return
  <2>2. Result = [status |-> "pending"]
    BY <2>1, ResultNow DEF ResultFollows
  <2>3. CASE ctxDone
    <3>1. Result' = [status |-> "canceled"]
      BY <2>1, <2>3, ResultNext DEF ResultFollows
    <3>2. Contract!CAbort
      BY <2>1, <2>2, <2>3, <3>1 DEF Contract!CAbort, Contract!Pending, Contract!Canceled
    <3> QED BY <3>2 DEF Contract!CNext
  <2>4. CASE ~ctxDone
    <3>1. main' = "returned"
      BY <2>1, <2>4
    <3>2. Result' = [status |-> "returned",
                     report |-> ReportOf(discovery, received)']
      BY <3>1, ResultNext DEF ResultFollows
    <3>3. ReportOf(discovery, received)' = ExpectedReport(discovery)'
      BY <3>1, ReturnedNext DEF ReturnsExpected
    <3>4. ExpectedReport(discovery)' = ExpectedReport(discovery)
      BY <2>1
    <3>5. Result' = [status |-> "returned", report |-> ExpectedReport(discovery)]
      BY <3>2, <3>3, <3>4
    <3>6. Contract!CReturn
      BY <2>1, <2>2, <2>4, <3>5 DEF Contract!CReturn, Contract!Pending, Contract!Returned
    <3> QED BY <3>6 DEF Contract!CNext
  <2> QED BY <2>3, <2>4
<1>6. CASE Cancel
  <2>1. /\ ~ctxDone /\ ctxDone' = TRUE
        /\ UNCHANGED <<discovery, main, received>>
    BY <1>6 DEF Cancel
  <2>2. Result' = Result
    BY <1>2, <2>1
  <2>3. Contract!CCancel
    BY <2>1, <2>2 DEF Contract!CCancel
  <2> QED BY <2>3 DEF Contract!CNext
<1> QED BY <1>3, <1>4, <1>5, <1>6 DEF Next

(* The concurrent scan does nothing the atomic one of ScanContract could   *)
(* not do: whatever the schedule, the workers and the moment of a          *)
(* cancellation, what ScanRepository returns is the report of everything   *)
(* discovered, or an error when the context was canceled.                  *)
THEOREM RefinesContract ==
    Spec => Contract!CInit /\ [][Contract!CNext]_(Contract!cvars)
<1>1. IInv /\ IInv' /\ [Next]_vars => [Contract!CNext]_(Contract!cvars)
  BY ContractNext
<1> QED BY <1>1, ContractInit, AlwaysIInv, PTL DEF Spec
=============================================================================
