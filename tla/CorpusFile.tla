----------------------------- MODULE CorpusFile -----------------------------
(***************************************************************************)
(* corpusgen (cmd/corpusgen/main.go) replacing the corpus file while other *)
(* runs of it do the same and programs load it: each run builds its index, *)
(* writes it to a temporary file and renames that over the output.  Every  *)
(* step can fail, a run can be killed, and the power can fail; nothing     *)
(* calls fsync, so that a renamed file may lose its end with the power.    *)
(***************************************************************************)
EXTENDS CorpusIndex

LOCAL INSTANCE SequencesExt
LOCAL INSTANCE Functions

CONSTANTS
    Sources,     \* checkouts
    Masks,       \* selections of rule flags
    Generators,  \* runs of corpusgen with one output path
    Jobs,        \* what the generators are asked for: source, mask and omit
    Outputs,     \* what is at the output path before
    MaxFaults    \* failures, kills and power failures (a bound of the model)

ASSUME CorpusAssumption ==
    /\ MaxRuleCount \in Nat /\ MaxWordCount \in Nat /\ MaxTokenCount \in Nat
    /\ MaxNodeCount \in Nat \ {0} /\ MaxFaults \in Nat
    /\ \A jobs \in Jobs, g \in Generators :
          jobs[g] \in [source : DOMAIN Sources, mask : Masks, omit : BOOLEAN]

VARIABLES
    jobs,
    pc,
    temporary,  \* the temporary file of each generator: none, or one
    failing,    \* whether the run is to report an error
    unremoved,  \* runs whose Remove failed, which nothing of the code records
    output,     \* the file at the output path, none or one
    durable,    \* what the disk has there
    lost,       \* the power has failed
    faults,
    loaded      \* what a program has loaded, once

files == <<temporary, output, durable>>
vars == <<jobs, pc, failing, unremoved, files, lost, faults, loaded>>

Builds == [i \in DOMAIN Sources |->
              [mask \in {m \in Masks : ~BuildFails(Sources[i], m)} |->
                  BuildIndex(Sources[i], mask)]]

(* A file is named by what it was written from, and by its length.         *)
NewFile(job) ==
    [source |-> job.source, mask |-> job.mask, version |-> FormatVersion,
     stored |-> ~job.omit, sections |-> 0]

IndexOf(file) == Builds[file.source][file.mask]
Contents(file) ==
    SubSeq(Encode(IndexOf(file), file.version, file.stored), 1, file.sections)

(* A file that lost its end.                                               *)
Cut(file) == {[file EXCEPT !.sections = n] : n \in 0..file.sections}

-----------------------------------------------------------------------------
Init ==
    /\ jobs \in Jobs
    /\ pc = [g \in Generators |-> "build"]
    /\ failing = [g \in Generators |-> FALSE] /\ unremoved = {}
    /\ temporary = [g \in Generators |-> <<>>]
    /\ output \in Outputs /\ durable = output
    /\ lost = FALSE /\ faults = 0 /\ loaded = <<>>

Goto(g, from, to) == pc[g] = from /\ pc' = [pc EXCEPT ![g] = to]

(* A step of a run that fails, and the error it returns.  The deferred     *)
(* Remove runs once the temporary file exists.                             *)
FailTo(g, to) ==
    /\ pc' = [pc EXCEPT ![g] = to] /\ failing' = [failing EXCEPT ![g] = TRUE]
    /\ UNCHANGED <<jobs, unremoved, files, lost, loaded>>

Fault == faults < MaxFaults /\ faults' = faults + 1

(* Mutant of AfterError: an error return before the deferred Remove.       *)
AfterErrorDeferredLate(g) == IF pc[g] \in {"write", "close", "rename"} THEN "remove" ELSE "end"

AfterError(g) == IF pc[g] \in {"mkdir", "create"} THEN "end" ELSE "remove"

(* verifyCheckout, and buildIndex with the files it loads.                 *)
Build(g) ==
    LET source == jobs[g].source
        fails  == ~Sources[source].pinned \/ jobs[g].mask \notin DOMAIN Builds[source]
    IN  /\ Goto(g, "build", IF fails THEN "end" ELSE "mkdir")
        /\ failing' = [failing EXCEPT ![g] = fails]
        /\ UNCHANGED <<jobs, unremoved, files, lost, faults, loaded>>

MkdirAll(g) ==
    /\ Goto(g, "mkdir", "create")
    /\ UNCHANGED <<jobs, failing, unremoved, files, lost, faults, loaded>>

CreateTemp(g) ==
    /\ Goto(g, "create", "chmod")
    /\ temporary' = [temporary EXCEPT ![g] = << NewFile(jobs[g]) >>]
    /\ UNCHANGED <<jobs, failing, unremoved, output, durable, lost, faults, loaded>>

Chmod(g) ==
    /\ Goto(g, "chmod", "write")
    /\ UNCHANGED <<jobs, failing, unremoved, files, lost, faults, loaded>>

Refused(file) == EncodeFails(IndexOf(file), file.stored)

RefuseToWrite(g) ==
    /\ pc[g] = "write" /\ Refused(temporary[g][1])
    /\ FailTo(g, "remove")
    /\ UNCHANGED faults

(* Mutant of Whole: what has not left the buffers counts as written.       *)
WholeUnflushed(g, count) == count >= Sections - 1

Whole(g, count) == count = Sections

(* The sections reach the file through two buffers, some at a time; Flush  *)
(* and the Close of the compressor bring the last of them.                 *)
WriteSections(g) ==
    /\ pc[g] = "write" /\ ~Refused(temporary[g][1])
    /\ \E count \in (temporary[g][1].sections + 1)..Sections :
          /\ temporary' = [temporary EXCEPT ![g][1].sections = count]
          /\ pc' = [pc EXCEPT ![g] = IF Whole(g, count) THEN "close" ELSE "write"]
    /\ UNCHANGED <<jobs, failing, unremoved, output, durable, lost, faults, loaded>>

Close(g) ==
    /\ Goto(g, "close", "rename")
    /\ UNCHANGED <<jobs, failing, unremoved, files, lost, faults, loaded>>

Rename(g) ==
    /\ Goto(g, "rename", "remove")
    /\ output' = temporary[g] /\ temporary' = [temporary EXCEPT ![g] = <<>>]
    /\ UNCHANGED <<jobs, failing, unremoved, durable, lost, faults, loaded>>

(* The deferred Remove.  Its error is dropped: after the Rename there is   *)
(* nothing of that name, but else the file stays.                          *)
RemoveTemporary(g) ==
    /\ Goto(g, "remove", "end")
    /\ temporary' = [temporary EXCEPT ![g] = <<>>]
    /\ UNCHANGED <<jobs, failing, unremoved, output, durable, lost, faults, loaded>>

RemoveFails(g) ==
    /\ temporary[g] # <<>>
    /\ Goto(g, "remove", "end")
    /\ unremoved' = unremoved \cup {g}
    /\ UNCHANGED <<jobs, failing, files, lost, loaded>>
    /\ Fault

StepFails(g) ==
    /\ pc[g] \in {"mkdir", "create", "chmod", "write", "close", "rename"}
    /\ FailTo(g, AfterError(g))
    /\ Fault

Kill(g) ==
    /\ pc[g] \notin {"end", "killed"}
    /\ pc' = [pc EXCEPT ![g] = "killed"]
    /\ UNCHANGED <<jobs, failing, unremoved, files, lost, loaded>>
    /\ Fault

-----------------------------------------------------------------------------
(* The disk.                                                               *)
WriteBack ==
    /\ durable # output /\ durable' = output
    /\ UNCHANGED <<jobs, pc, failing, unremoved, temporary, output, lost, faults, loaded>>

PowerFails ==
    /\ durable # output /\ output # <<>>
    /\ output' \in {durable} \cup {<<file>> : file \in Cut(output[1])}
    /\ durable' = output'
    /\ pc' = [g \in Generators |-> IF pc[g] = "end" THEN "end" ELSE "killed"]
    /\ lost' = TRUE
    /\ UNCHANGED <<jobs, failing, unremoved, temporary, loaded>>
    /\ Fault

(* A program loads the file: NewFromReader and corpusreport with Read, New *)
(* with ReadRuntime the file that was embedded when it was compiled.  The  *)
(* file it has opened stays as it is, whatever is renamed over its name.   *)
Load(retain) ==
    /\ loaded = <<>> /\ output # <<>>
    /\ LET contents == Contents(output[1])
       IN  loaded' =
             << [file |-> output[1], retain |-> retain,
                 engine |-> IF ReadFails(contents, retain) THEN <<>>
                            ELSE <<NewMatchEngine(ReadIndex(contents, retain))>>] >>
    /\ UNCHANGED <<jobs, pc, failing, unremoved, files, lost, faults>>

(* Every run has ended and the file has been loaded, or there is none.     *)
Over ==
    /\ \A g \in Generators : pc[g] \in {"end", "killed"}
    /\ durable = output /\ (loaded # <<>> \/ output = <<>>)
    /\ UNCHANGED vars

Run(g) ==
    \/ Build(g) \/ MkdirAll(g) \/ CreateTemp(g) \/ Chmod(g) \/ RefuseToWrite(g)
    \/ WriteSections(g) \/ Close(g) \/ Rename(g) \/ RemoveTemporary(g)
    \/ RemoveFails(g) \/ StepFails(g) \/ Kill(g)

Next ==
    \/ \E g \in Generators : Run(g)
    \/ WriteBack \/ PowerFails
    \/ \E retain \in BOOLEAN : Load(retain)
    \/ Over

Spec == Init /\ [][Next]_vars

-----------------------------------------------------------------------------
(* As long as the power has not failed, the output path has either what it *)
(* had before or all that some run wrote whose rename succeeded: no step   *)
(* that fails and no kill leaves part of an index there.  writeIndex.      *)
OutputWhole ==
    ~lost =>
        \/ output \in Outputs
        \/ \E g \in Generators :
              /\ pc[g] \in {"remove", "end", "killed"} /\ ~failing[g]
              /\ output = <<[NewFile(jobs[g]) EXCEPT !.sections = Sections]>>

(* A run that ends leaves its temporary file only when its Remove failed   *)
(* as well as the step before it; so a run that reports no error leaves    *)
(* none, although the error of Remove is dropped.  writeIndex.             *)
TemporaryGone ==
    \A g \in Generators :
        pc[g] = "end" /\ temporary[g] # <<>> => g \in unremoved /\ failing[g]

(* Whoever loads the file, Read or ReadRuntime, with its automaton stored  *)
(* or rebuilt, and in the older format too, gets the engine of the index   *)
(* in memory, word for word.  Refused is a file that is cut off, one for   *)
(* ReadRuntime without automaton, an automaton with more nodes, and a rule *)
(* with more stopwords, than a reader allows and Write asks - and no other *)
(* file that Write has written.                                            *)
LoadedAsBuilt ==
    loaded # <<>> =>
        LET file   == loaded[1].file
            engine == loaded[1].engine
            index  == IndexOf(file)
            refused ==
                \/ file.sections < Sections
                \/ ~file.stored /\ ~loaded[1].retain
                \/ file.stored /\ NodeCount(index.Automaton) > MaxNodeCount
                \/ \E rule \in Range(index.Rules) :
                      Len(rule.StopwordAfter) > MaxTokenCount
        IN  engine = IF refused THEN <<>> ELSE <<NewMatchEngine(index)>>

(* An identifier that a match reports, found again in an SPDX tag, is      *)
(* reported as it is: normalizing changes nothing twice.  The only         *)
(* exceptions are identifiers of one license that are the key of another.  *)
KeysStable ==
    loaded # <<>> =>
        \A engine \in Range(loaded[1].engine) :
            LET spdx == engine.spdx
            IN  \A key \in DOMAIN spdx.reportingIDs :
                    LET id == Report(spdx, key)
                    IN  \/ {Report(spdx, again) : again \in Resolve(spdx, id)} = {id}
                        \/ ToLower(id) \in DOMAIN spdx.reportingIDs \ {key}
=============================================================================
