-------------------------- MODULE CorpusFileProofs --------------------------
(***************************************************************************)
(* writeIndex replaces the corpus file as a whole, for any checkouts, any  *)
(* number of runs at once, any number of failing steps and of kills.       *)
(***************************************************************************)
EXTENDS CorpusFile, TLAPS

(* The temporary file of a run, with its first sections written.           *)
Written(g, n) == [NewFile(jobs[g]) EXCEPT !.sections = n]

Stages == {"build", "mkdir", "create", "chmod", "write", "close", "rename",
           "remove", "end", "killed"}

Shape ==
    /\ pc \in [Generators -> Stages]
    /\ failing \in [Generators -> BOOLEAN] /\ unremoved \subseteq Generators
    /\ temporary = [g \in Generators |-> temporary[g]]
    /\ \A g \in Generators :
          temporary[g] = <<>> \/ \E n \in 0..Sections : temporary[g] = << Written(g, n) >>

(* What a run has of its temporary file at each of its steps.  A file that *)
(* is still there when it is to be removed is one of a run that failed.    *)
InStep(g) ==
    /\ pc[g] \in {"build", "mkdir", "create"} => temporary[g] = <<>>
    /\ pc[g] \in {"remove", "end"} /\ temporary[g] # <<>> => failing[g]
    /\ pc[g] = "end" /\ temporary[g] # <<>> => g \in unremoved
    /\ pc[g] \in {"chmod", "write"} => temporary[g] # <<>>
    /\ pc[g] \in {"close", "rename"} => temporary[g] = << Written(g, Sections) >>
    /\ pc[g] \notin {"remove", "end", "killed"} => ~failing[g]

IInv == Shape /\ (\A g \in Generators : InStep(g)) /\ OutputWhole

-----------------------------------------------------------------------------
LEMMA SectionsType == Sections \in Nat /\ Sections = 8
BY DEF Sections

(* The sections of a file are a field of their own.                        *)
LEMMA SectionsField ==
    ASSUME NEW a, NEW b, NEW c, NEW d, NEW m, NEW n
    PROVE  LET File(k) == [source |-> a, mask |-> b, version |-> c,
                           stored |-> d, sections |-> k]
           IN  [File(m) EXCEPT !.sections = n] = File(n) /\ File(n).sections = n
OBVIOUS

(* More sections written, and none at the beginning.                       *)
LEMMA WrittenFields ==
    ASSUME NEW g \in Generators
    PROVE  /\ \A n : Written(g, n).sections = n
           /\ \A m, n : [Written(g, m) EXCEPT !.sections = n] = Written(g, n)
           /\ NewFile(jobs[g]) = Written(g, 0)
<1> DEFINE File(k) == [source |-> jobs[g].source, mask |-> jobs[g].mask,
                       version |-> FormatVersion, stored |-> ~jobs[g].omit,
                       sections |-> k]
<1>1. \A m, n : [File(m) EXCEPT !.sections = n] = File(n) /\ File(n).sections = n
  BY SectionsField
<1>2. NewFile(jobs[g]) = File(0)
  BY DEF NewFile
<1> HIDE DEF File
<1>3. \A n : Written(g, n) = File(n)
  BY <1>1, <1>2 DEF Written
<1> QED BY <1>1, <1>2, <1>3

LEMMA InitIInv == Init => IInv
BY DEF Init, IInv, Shape, InStep, OutputWhole, Stages

(* A step of one run that leaves the output and the temporary files alone. *)
LEMMA QuietIInv ==
    ASSUME IInv, NEW g \in Generators, NEW to \in Stages, NEW fails \in BOOLEAN,
           pc' = [pc EXCEPT ![g] = to], failing' = [failing EXCEPT ![g] = fails],
           UNCHANGED <<jobs, unremoved, files, lost>>,
           to \in {"build", "mkdir", "create", "end"} => temporary[g] = <<>>,
           to = "remove" => fails,
           to \in {"chmod", "write"} => temporary[g] # <<>>,
           to \in {"close", "rename"} => temporary[g] = << Written(g, Sections) >>,
           to \notin {"remove", "end", "killed"} => ~fails,
           pc[g] \in {"remove", "end", "killed"} =>
               to \in {"remove", "end", "killed"} /\ fails = failing[g]
    PROVE  IInv'
<1>1. /\ jobs' = jobs /\ temporary' = temporary /\ output' = output /\ lost' = lost
      /\ unremoved' = unremoved
      /\ \A h \in Generators, n \in 0..Sections : Written(h, n)' = Written(h, n)
  BY DEF files, Written, NewFile
<1>2. Shape'
  BY <1>1 DEF IInv, Shape
<1>3. ASSUME NEW h \in Generators PROVE InStep(h)'
  <2>1. Written(h, Sections)' = Written(h, Sections)
    BY DEF files, Written, NewFile
  <2>2. CASE h = g
    BY <1>1, <2>1, <2>2 DEF IInv, Shape, InStep
  <2>3. CASE h # g
    BY <1>1, <2>1, <2>3 DEF IInv, Shape, InStep
  <2> QED BY <2>2, <2>3
<1>4. OutputWhole'
  <2>1. CASE lost \/ output \in Outputs
    BY <1>1, <2>1 DEF OutputWhole
  <2>2. ASSUME NEW h \in Generators,
               pc[h] \in {"remove", "end", "killed"}, ~failing[h],
               output = <<[NewFile(jobs[h]) EXCEPT !.sections = Sections]>>
        PROVE  OutputWhole'
    <3>1. pc'[h] \in {"remove", "end", "killed"} /\ ~failing'[h]
      BY <2>2 DEF IInv, Shape
    <3>2. output' = <<[NewFile(jobs'[h]) EXCEPT !.sections = Sections]>>
      BY <1>1, <2>2
    <3> QED BY <3>1, <3>2 DEF OutputWhole, NewFile
  <2> QED BY <2>1, <2>2 DEF IInv, OutputWhole
<1> QED BY <1>2, <1>3, <1>4 DEF IInv

(* A step of one run that changes its temporary file and not the output.   *)
FileStep(g, to, file) ==
    /\ pc[g] \in {"create", "write", "remove"} /\ to \in Stages
    /\ pc' = [pc EXCEPT ![g] = to] /\ temporary' = [temporary EXCEPT ![g] = file]
    /\ UNCHANGED <<jobs, failing, unremoved, output, lost>>
    /\ file = <<>> \/ \E n \in 0..Sections : file = << Written(g, n) >>
    /\ to \in {"build", "mkdir", "create", "end"} => file = <<>>
    /\ to \in {"chmod", "write"} => file # <<>>
    /\ to \in {"close", "rename"} => file = << Written(g, Sections) >>
    /\ pc[g] = "remove" => to = "end"
    /\ to # "remove"

LEMMA TemporaryIInv ==
    ASSUME IInv, NEW g \in Generators, NEW to, NEW file, FileStep(g, to, file)
    PROVE  IInv'
<1> USE DEF FileStep
<1>1. ASSUME NEW h \in Generators, NEW n PROVE Written(h, n)' = Written(h, n)
  BY DEF Written, NewFile
<1>2. Shape'
  <2>1. temporary' = [h \in Generators |-> temporary'[h]]
    BY DEF IInv, Shape
  <2>2. ASSUME NEW h \in Generators
        PROVE  \/ temporary'[h] = <<>>
               \/ \E n \in 0..Sections : temporary'[h] = << Written(h, n)' >>
    BY <1>1, <2>2 DEF IInv, Shape
  <2>3. /\ pc' \in [Generators -> Stages] /\ failing' \in [Generators -> BOOLEAN]
        /\ unremoved' \subseteq Generators
    BY DEF IInv, Shape
  <2> QED BY <2>1, <2>2, <2>3 DEF Shape
<1>3. ASSUME NEW h \in Generators PROVE InStep(h)'
  <2>1. Written(h, Sections)' = Written(h, Sections)
    BY <1>1
  <2>2. CASE h = g
    <3>1. /\ pc'[h] = to /\ temporary'[h] = file /\ failing'[h] = failing[h]
      BY <2>2 DEF IInv, Shape
    <3>2. to \notin {"remove", "end", "killed"} => ~failing[h]
      BY <2>2 DEF IInv, InStep
    <3> QED BY <2>1, <2>2, <3>1, <3>2 DEF InStep
  <2>3. CASE h # g
    BY <2>1, <2>3 DEF IInv, Shape, InStep
  <2> QED BY <2>2, <2>3
<1>4. OutputWhole'
  <2>1. CASE lost \/ output \in Outputs
    BY <2>1 DEF OutputWhole
  <2>2. ASSUME NEW h \in Generators,
               pc[h] \in {"remove", "end", "killed"}, ~failing[h],
               output = <<[NewFile(jobs[h]) EXCEPT !.sections = Sections]>>
        PROVE  OutputWhole'
    <3>1. pc'[h] \in {"remove", "end", "killed"} /\ ~failing'[h]
      BY <2>2 DEF IInv, Shape
    <3>2. output' = <<[NewFile(jobs'[h]) EXCEPT !.sections = Sections]>>
      BY <2>2
    <3> QED BY <3>1, <3>2 DEF OutputWhole, NewFile
  <2> QED BY <2>1, <2>2 DEF IInv, OutputWhole
<1> QED BY <1>2, <1>3, <1>4 DEF IInv

(* The disk and the programs that load: the runs are as they were.         *)
LEMMA OthersIInv ==
    ASSUME IInv, UNCHANGED <<jobs, pc, failing, unremoved, temporary, output, lost>>
    PROVE  IInv'
BY DEF IInv, Shape, InStep, OutputWhole, Written, NewFile

LEMMA RenameIInv ==
    ASSUME IInv, NEW g \in Generators, Rename(g)
    PROVE  IInv'
<1> USE DEF Rename, Goto
<1>1. ASSUME NEW h, NEW n PROVE Written(h, n)' = Written(h, n)
  BY DEF Written, NewFile
<1>2. Shape'
  <2>1. temporary' = [h \in Generators |-> temporary'[h]]
    BY DEF IInv, Shape
  <2>2. ASSUME NEW h \in Generators
        PROVE  \/ temporary'[h] = <<>>
               \/ \E n \in 0..Sections : temporary'[h] = << Written(h, n)' >>
    BY <1>1, <2>2 DEF IInv, Shape
  <2>3. /\ pc' \in [Generators -> Stages] /\ failing' \in [Generators -> BOOLEAN]
        /\ unremoved' \subseteq Generators
    BY DEF IInv, Shape, Stages
  <2> QED BY <2>1, <2>2, <2>3 DEF Shape
<1>3. ASSUME NEW h \in Generators PROVE InStep(h)'
  <2>1. Written(h, Sections)' = Written(h, Sections)
    BY <1>1
  <2> QED BY <2>1, <1>3 DEF IInv, Shape, InStep
<1>4. OutputWhole'
  <2>1. temporary[g] = << Written(g, Sections) >> /\ ~failing[g]
    BY DEF IInv, InStep
  <2>2. pc'[g] = "remove" /\ failing' = failing
    BY DEF IInv, Shape
  <2>3. output' = << Written(g, Sections)' >>
    BY <1>1, <2>1
  <2> QED BY <2>1, <2>2, <2>3 DEF OutputWhole, Written
<1> QED BY <1>2, <1>3, <1>4 DEF IInv

(* The run ends with its file still there; that it is one of a run that    *)
(* failed is known since the step before.                                  *)
LEMMA RemoveFailsIInv ==
    ASSUME IInv, NEW g \in Generators, RemoveFails(g)
    PROVE  IInv'
<1> USE DEF RemoveFails, Goto
<1>1. /\ jobs' = jobs /\ temporary' = temporary /\ output' = output
      /\ lost' = lost /\ failing' = failing
  BY DEF files
<1>2. ASSUME NEW h, NEW n PROVE Written(h, n)' = Written(h, n)
  BY <1>1 DEF Written, NewFile
<1>3. Shape'
  <2>1. pc' \in [Generators -> Stages] /\ unremoved' \subseteq Generators
    BY DEF IInv, Shape, Stages
  <2> QED BY <1>1, <1>2, <2>1 DEF IInv, Shape
<1>4. ASSUME NEW h \in Generators PROVE InStep(h)'
  <2>1. CASE h = g
    <3>1. pc[h] = "remove" /\ pc'[h] = "end" /\ h \in unremoved'
      BY <2>1 DEF IInv, Shape
    <3> QED BY <1>1, <3>1 DEF IInv, InStep
  <2>2. CASE h # g
    <3>1. pc'[h] = pc[h] /\ (h \in unremoved' <=> h \in unremoved)
      BY <2>2 DEF IInv, Shape
    <3>2. Written(h, Sections)' = Written(h, Sections)
      BY <1>2
    <3> QED BY <1>1, <3>1, <3>2 DEF IInv, InStep
  <2> QED BY <2>1, <2>2
<1>5. OutputWhole'
  <2>1. CASE lost \/ output \in Outputs
    BY <1>1, <2>1 DEF OutputWhole
  <2>2. ASSUME NEW h \in Generators,
               pc[h] \in {"remove", "end", "killed"}, ~failing[h],
               output = <<[NewFile(jobs[h]) EXCEPT !.sections = Sections]>>
        PROVE  OutputWhole'
    <3>1. pc'[h] \in {"remove", "end", "killed"} /\ ~failing'[h]
      BY <1>1, <2>2 DEF IInv, Shape
    <3>2. output' = <<[NewFile(jobs'[h]) EXCEPT !.sections = Sections]>>
      BY <1>1, <2>2
    <3> QED BY <3>1, <3>2 DEF OutputWhole, NewFile
  <2> QED BY <2>1, <2>2 DEF IInv, OutputWhole
<1> QED BY <1>3, <1>4, <1>5 DEF IInv

LEMMA PowerFailsIInv ==
    ASSUME IInv, PowerFails
    PROVE  IInv'
<1> USE DEF PowerFails
<1>1. ASSUME NEW h, NEW n PROVE Written(h, n)' = Written(h, n)
  BY DEF Written, NewFile
<1>2. Shape'
  <2>1. pc' \in [Generators -> Stages]
    BY DEF Stages
  <2>2. ASSUME NEW h \in Generators
        PROVE  \/ temporary'[h] = <<>>
               \/ \E n \in 0..Sections : temporary'[h] = << Written(h, n)' >>
    BY <1>1 DEF IInv, Shape
  <2> QED BY <2>1, <2>2 DEF IInv, Shape
<1>3. ASSUME NEW h \in Generators PROVE InStep(h)'
  BY DEF IInv, Shape, InStep
<1>4. OutputWhole'
  BY DEF OutputWhole
<1> QED BY <1>2, <1>3, <1>4 DEF IInv

LEMMA StepIInv == IInv /\ [Next]_vars => IInv'
<1> SUFFICES ASSUME IInv, [Next]_vars PROVE IInv'
  OBVIOUS
<1>1. ASSUME NEW g \in Generators, Run(g) PROVE IInv'
  <2> DEFINE Quiet(to, fails) ==
          /\ pc' = [pc EXCEPT ![g] = to] /\ failing' = [failing EXCEPT ![g] = fails]
          /\ UNCHANGED <<jobs, unremoved, files, lost>>
  <2>0. /\ pc \in [Generators -> Stages] /\ failing \in [Generators -> BOOLEAN]
        /\ failing = [failing EXCEPT ![g] = failing[g]] /\ failing[g] \in BOOLEAN
        /\ InStep(g)
    BY DEF IInv, Shape
  <2>1. CASE Build(g)
    <3> DEFINE fails == ~Sources[jobs[g].source].pinned \/ jobs[g].mask \notin DOMAIN Builds[jobs[g].source]
               to == IF fails THEN "end" ELSE "mkdir"
    <3>1. pc[g] = "build" /\ Quiet(to, fails)
      BY <2>1 DEF Build, Goto
    <3>2. to \in Stages /\ fails \in BOOLEAN /\ to \in {"end", "mkdir"} /\ (to = "mkdir" => ~fails)
      BY DEF Stages
    <3> HIDE DEF fails, to
    <3> QED BY <2>0, <3>1, <3>2, QuietIInv DEF InStep
  <2>2. CASE MkdirAll(g)
    <3>1. pc[g] = "mkdir" /\ Quiet("create", failing[g])
      BY <2>0, <2>2 DEF MkdirAll, Goto
    <3> QED BY <2>0, <3>1, QuietIInv DEF InStep, Stages
  <2>3. CASE CreateTemp(g)
    <3>1. /\ pc[g] = "create" /\ pc' = [pc EXCEPT ![g] = "chmod"]
          /\ temporary' = [temporary EXCEPT ![g] = << Written(g, 0) >>]
          /\ UNCHANGED <<jobs, failing, unremoved, output, lost>>
      BY <2>3, WrittenFields DEF CreateTemp, Goto
    <3>2. FileStep(g, "chmod", << Written(g, 0) >>)
      BY <3>1, SectionsType DEF FileStep, Stages
    <3> QED BY <3>2, TemporaryIInv
  <2>4. CASE Chmod(g)
    <3>1. pc[g] = "chmod" /\ Quiet("write", failing[g])
      BY <2>0, <2>4 DEF Chmod, Goto
    <3> QED BY <2>0, <3>1, QuietIInv DEF InStep, Stages
  <2>5. CASE RefuseToWrite(g)
    <3>1. pc[g] = "write" /\ Quiet("remove", TRUE)
      BY <2>5 DEF RefuseToWrite, FailTo
    <3> QED BY <2>0, <3>1, QuietIInv DEF InStep, Stages
  <2>6. CASE WriteSections(g)
    <3>1. PICK count \in (temporary[g][1].sections + 1)..Sections :
             /\ temporary' = [temporary EXCEPT ![g][1].sections = count]
             /\ pc' = [pc EXCEPT ![g] = IF Whole(g, count) THEN "close" ELSE "write"]
      BY <2>6 DEF WriteSections
    <3>2. pc[g] = "write" /\ UNCHANGED <<jobs, failing, unremoved, output, lost>>
      BY <2>6 DEF WriteSections
    <3>3. PICK n \in 0..Sections : temporary[g] = << Written(g, n) >>
      BY <2>0, <3>2 DEF IInv, Shape, InStep
    <3>4. count \in 0..Sections
      BY <3>1, <3>3, WrittenFields, SectionsType
    <3>5. temporary' = [temporary EXCEPT ![g] = << Written(g, count) >>]
      <4>1. temporary' = [temporary EXCEPT ![g] = [temporary[g] EXCEPT ![1] = [temporary[g][1] EXCEPT !.sections = count]]]
        BY <3>1
      <4>2. [temporary[g][1] EXCEPT !.sections = count] = Written(g, count)
        BY <3>3, WrittenFields
      <4>3. [temporary[g] EXCEPT ![1] = Written(g, count)] = << Written(g, count) >>
        BY <3>3
      <4> QED BY <4>1, <4>2, <4>3
    <3>6. CASE Whole(g, count)
      <4>1. FileStep(g, "close", << Written(g, count) >>)
        BY <3>1, <3>2, <3>4, <3>5, <3>6 DEF FileStep, Whole, Stages
      <4> QED BY <4>1, TemporaryIInv
    <3>7. CASE ~Whole(g, count)
      <4>1. FileStep(g, "write", << Written(g, count) >>)
        BY <3>1, <3>2, <3>4, <3>5, <3>7 DEF FileStep, Stages
      <4> QED BY <4>1, TemporaryIInv
    <3> QED BY <3>6, <3>7
  <2>7. CASE Close(g)
    <3>1. pc[g] = "close" /\ Quiet("rename", failing[g])
      BY <2>0, <2>7 DEF Close, Goto
    <3> QED BY <2>0, <3>1, QuietIInv DEF InStep, Stages
  <2>8. CASE Rename(g)
    BY <2>8, RenameIInv
  <2>9. CASE RemoveTemporary(g)
    <3>1. FileStep(g, "end", <<>>)
      BY <2>9 DEF RemoveTemporary, Goto, FileStep, Stages
    <3> QED BY <3>1, TemporaryIInv
  <2>10. CASE StepFails(g)
    <3>1. /\ pc[g] \in {"mkdir", "create", "chmod", "write", "close", "rename"}
          /\ Quiet(AfterError(g), TRUE)
      BY <2>10 DEF StepFails, FailTo
    <3>2. CASE pc[g] \in {"mkdir", "create"}
      <4>1. AfterError(g) = "end"
        BY <3>2 DEF AfterError
      <4> QED BY <2>0, <3>1, <3>2, <4>1, QuietIInv DEF InStep, Stages
    <3>3. CASE pc[g] \notin {"mkdir", "create"}
      <4>1. AfterError(g) = "remove"
        BY <3>3 DEF AfterError
      <4> QED BY <2>0, <3>1, <3>3, <4>1, QuietIInv DEF InStep, Stages
    <3> QED BY <3>2, <3>3
  <2>11. CASE Kill(g)
    <3>1. pc[g] \notin {"end", "killed"} /\ Quiet("killed", failing[g])
      BY <2>0, <2>11 DEF Kill
    <3> QED BY <2>0, <3>1, QuietIInv DEF InStep, Stages
  <2>12. CASE RemoveFails(g)
    BY <2>12, RemoveFailsIInv
  <2> QED BY <1>1, <2>1, <2>2, <2>3, <2>4, <2>5, <2>6, <2>7, <2>8, <2>9, <2>10, <2>11, <2>12 DEF Run
<1>2. CASE WriteBack
  BY <1>2, OthersIInv DEF WriteBack
<1>3. CASE PowerFails
  BY <1>3, PowerFailsIInv
<1>4. ASSUME NEW retain \in BOOLEAN, Load(retain) PROVE IInv'
  BY <1>4, OthersIInv DEF Load, files
<1>5. CASE Over \/ UNCHANGED vars
  BY <1>5, OthersIInv DEF Over, vars, files
<1> QED BY <1>1, <1>2, <1>3, <1>4, <1>5 DEF Next

LEMMA Invariant == Spec => []IInv
BY InitIInv, StepIInv, PTL DEF Spec

-----------------------------------------------------------------------------
(* As long as the power has not failed, the output path holds what it held *)
(* before any run, or all the sections of an index whose run renamed it    *)
(* without an error: of writeIndex, whatever fails and whoever is killed.  *)
THEOREM ReplacedWhole == Spec => []OutputWhole
<1>1. IInv => OutputWhole
  BY DEF IInv
<1> QED BY <1>1, Invariant, PTL

(* A run of corpusgen that ends has removed its temporary file, unless     *)
(* both a step before and the deferred Remove of writeIndex failed; so a   *)
(* run that reports no error has, though the error of Remove is dropped.   *)
THEOREM NothingLeft == Spec => []TemporaryGone
<1>1. IInv => TemporaryGone
  BY DEF IInv, InStep, TemporaryGone
<1> QED BY <1>1, Invariant, PTL
=============================================================================
