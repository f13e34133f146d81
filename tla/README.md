# Verification of git-pkgs/licenses

TLA+ specifications of the license scanner in this repository, TLC
configurations that check them on small instances, and theorems about them
that TLAPS checks for every instance. Paths are relative to the repository.

    tlc  -config ScanPipeline.cfg MCScanPipeline.tla     check one run
    tlapm ScanPipelineProofs.tla                         check the proofs

`PROJECT.json` lists the runs, the variants of the code under which each
property fails, the lines every definition was read from, the hazards and the
theorems.

## 1. The system

`licenses <path>` walks a directory, reads every file within limits, finds
license rules in the text, and reports detections, errors and skips with an
exit status. `Matcher.Match` does the same for one text in a library.

| Component | Source | State | Operations | What makes it correct |
|---|---|---|---|---|
| Discovery | `scan.go` | counters, tasks, skips, errors, declared licenses | `discoverFiles`, `visit`, `visitDirectory`, `visitFile` | every file met has one fate, the tasks are the usable files within the limits, truncation is reported exactly when there was more |
| Worker pool | `scan.go` | two unbuffered channels, up to 16 goroutines, a closer, the report | `scanFiles`, `scanFile`, the collecting loop of `scanRepository` | no outcome is lost or doubled, the report does not depend on the schedule, nothing is left running, it ends |
| Bounded read | `scan.go` | the bytes read, a reservation | `readScannableFile`, `growReadBuffer` | limits hold while the file changes, the verdict is that of the whole file |
| Command | `cmd/licenses` | exit status | `reportExitCode`, signals | the status is true of the tree |
| Matcher | `matcher.go` | immutable engine, pooled scratch buffers | `match`, collection of candidates, offsets | what is reported is in the text, at that place; both candidate paths agree |
| Exact match filter | `filter.go` | one state per match | five sweeps with cancellation | the result is incomparable, nothing is dropped that overlaps nothing kept |
| License-list filter | `filter.go` | the open group, the array it overwrites | `filterLicenseListMatches` | exactly the matches of license lists go |
| SPDX tags | `spdx.go` | declarations, cut-off tags, reach of the matches | `matchSPDXTags` | each readable tag is declared and stated once, its components are gone |
| Automaton | `internal/aho`, `internal/corpus` | trie, links, sparse outputs, the stored section | `Build`, `writeAutomaton`, `readAutomaton`, `Next`, `AppendOutputs` | outputs are the patterns that end at each token, before and after storage |
| Failure links | `internal/aho` | two arrays shared by goroutines, two channels | `buildFailureLinksInto` | the links are right, without data races or deadlock |
| Tokenizer | `internal/tokenize` | vocabulary, lists of dropped words | `NewVocabulary`, `TokenizeIDsAppend`, offset scans | offsets recovered by a second scan are those of the first |
| Scan text | `scan.go` | decoded text with raw offsets, the result, which is changed in place | `decodeText`, `applyScanPolicy`, `calculateLicenseTextCoverage`, `remapResultOffsets`, `makeFileRecord` | offsets refer to the raw bytes; only references that join blocks are demoted; the share is that of the bytes matched |
| Continued text | `evidence.go` | none | `downgradeContinuedText` | the result stays sorted and sound |
| Construction | `matcher.go`, `reader.go`, `corpus.go` | a shared engine behind `sync.Once`, a pool of buffers | `New`, `NewFromReader`, `newMatchEngine`, `putMatchScratch` | one engine, or its error, for all callers; no buffer belongs to two calls |
| Identifiers | `spdx.go` | two maps | `buildSPDXIndex`, `resolve`, `report` | a reported identifier resolves to its license |
| Corpus format | `internal/corpus` | the file's sections | `Write`, `Read`, `ReadRuntime` | a reader gets what was written, or an error |
| Corpus generator | `cmd/corpusgen` | the checkout, the index, a temporary file, the output | `buildIndex`, `loadSPDXMappings`, `writeIndex` | the output is whole whatever fails |
| Corpus report, workflows | `cmd/corpusreport`, `scripts`, `action.yml` | none | counts over an index; automation | not modelled |

How they interact. `scanRepository` runs discovery to its end, then the worker
pool on the tasks, under one context; the workers share one matcher. `match`
hands the tokens of a text to the automaton, the candidates to the filters, and
the result to the SPDX tags. The engine comes from the corpus file, which
`corpusgen` makes from a ScanCode checkout; the automaton's links are made when
it is read, in parallel.

The hard behaviours: goroutines that write shared arrays without locks;
cancellation at any step of a pipeline of unbuffered channels; a file that
changes between discovery, probe and read; counters shared by two phases; a
sequence of sweeps that discard and restore; an array overwritten while it is
read; state that one pass leaves for the next (offsets, reach, stretches,
ranks); slices that are filtered while they are read; buffers that `append` moves
while a pool waits for them; identifiers of different licenses that collide; a
file that is replaced while steps fail; integers at the edge of their type.
`PROJECT.json` lists each at its
line.

## 2. The modules

| Module | Models | Composed of |
|---|---|---|
| `ScanContext` | the context that the walk, the workers and the matcher share | extends `ScanReport` |
| `ScanReport` | what an outcome adds to the report, the loop over them, the final sorts; the report a discovery calls for (operators) | |
| `ScanContract` | the abstract scan: one atomic step, or none if canceled | |
| `ScanPipeline` | `scanFiles`, `scanFile`, the collecting loop | extends `ScanContext`, refines `ScanContract` |
| `RepositoryWalk` | discovery | extends `ScanContext` |
| `ScanRepository` | the whole scan and the exit status | extends `RepositoryWalk` and `ScanPipeline` |
| `ScannableRead` | the bounded read, with writers | |
| `ScanText` | decoding, policy, coverage, the record | |
| `ScanFile` | `scanFile` on one file | `ScannableRead`, `ScanText` |
| `FailureLinks` | the parallel links | |
| `Automaton` | build, number, store, restore, run | |
| `ExactMatchFilter` | the five sweeps | |
| `LicenseList` | the license-list filter | |
| `MatchInput` | `Matcher.match` | extends `ExactMatchFilter`, instantiates `LicenseList` |
| `MatcherCalls` | concurrent `New`, `NewFromReader` and `Match`, and their buffers | |
| `SpdxTags` | the reconciliation with SPDX tags | |
| `CorpusIndex` | building, encoding, reading an index; the engine and the identifiers (operators) | |
| `CorpusFile` | runs of `corpusgen`, the disk, and a program that loads | extends `CorpusIndex` |
| `ScanPipelineProofs`, `ScanRepositoryProofs`, `ScannableReadProofs`, `FailureLinksProofs`, `MatchInputProofs`, `MatcherCallsProofs`, `SpdxTagsProofs`, `CorpusFileProofs` | theorems | each extends the module it is named for; `ScanRepositoryProofs` extends `ScanPipelineProofs` too |
| `MC*` | the instances for TLC | |

State and actions correspond to the code as follows.

**ScanPipeline.** `taken` is how far the jobs channel has been consumed, `pc[w]`
and `outcome[w]` are a worker and what it holds, `received` what the caller
collected, `closed` the closer's effect. `Take`, `Read`, `Match`, `Deliver`,
`Abandon`, `Exhausted` are the steps of a worker (the two `select` branches are
two actions), `Close` is the closer, `Finish` and `Return` the end of the
caller's loop and its last look at the context. What the matcher finds in a file
is data of the task. The report is a function of `received` (`ReportOf`): the loop
(`Collected`, one `Collect` per outcome), then the sorts (`Sorted`). A sort is said by
the rank of each element (`InOrder`), which fits equal elements too, of which
`slices.SortFunc` promises no order. `ExpectedReport` is the report said without any
order of arrival: counts and sums over the files that read, matched or failed in each
way. `ScanContract` takes that report as its parameter, so what is checked and proved
is that the loop and the sorts compute it on every schedule.

**RepositoryWalk.** A tree is the list of its entries in walk order, with the
end of each subtree; `at` is the entry whose turn it is. Each early return of
`visit`, `visitDirectory` and `visitFile` is an action, and a directory is met
a second time when it cannot be listed, as `filepath.WalkDir` does. `RootFails` is
`os.Stat` or `EvalSymlinks` of the root failing, which like a cancellation leaves no
report. The manifest parser is an outcome of the entry.

**ScanRepository** runs both, each with the variables of its module, and the one
`ctxDone` of `ScanContext`; `main` says which of the two `scanRepository` is in.

**ScannableRead.** A file is where the bytes that decide are: the first byte
that makes it binary, invalid, or that cannot be read. `maximum` and all sums
wrap around at `MaxInt` (15 or 7 in the runs), as int64 do at 2^63-1. The probe, the
reservation and the rest of the read are three actions; `Write` changes the size
between any two. The classification library is external and modelled by its use.

**ScanText.** A raw file is a list of units: two bytes of UTF-16, one of Latin-1,
a rune of UTF-8; a rune is one of ten that stand for a letter of each width, the
two surrogates' replacement, the line feed, the blank and each character with a
meaning for documents. `text`, `offsets` and `base` are the fields of
`decodedText`; one action per rune decoded, then one each for the matcher,
`applyScanPolicy`, the coverage, `remapResultOffsets` and the record. The matcher
is what it may answer: matches between words, sorted as `sortResult` leaves them.

**ScanFile** runs the read until it returns, then the text on any content that
has the length and the kind that were read.

**FailureLinks.** One action per edge, per channel operation and per level of
the caller. `Reads` and `Writes` name the cells an edge touches.

**Automaton.** One action per pattern inserted, per parent linked, per node
numbered; writing and reading are one action each; then one per token. The
variables are the arrays of the code under its names. The readers' checks and
`Validate` are guards that lead to a failed state the properties exclude. The
links of the restored automaton are made here by the single-worker path;
`FailureLinks` shows that any other schedule gives the same ones.

**ExactMatchFilter.** `sweep` is the sweep, `index`, `next`, `maxEnd`,
`previous`, `position`, `union` its locals; each iteration is an action.
Interruption is possible in each iteration, where the code looks every 4096.

**MatchInput.** A text is its words, and the byte range of a word is its place.
One action per token of each pass; the filter's steps are those of
`ExactMatchFilter`, the list filter's those of `LicenseList`. The second scan of
the words has one action for each kind of word (`unknownIndex`, `stopwordIndex`,
`offsets` are its locals), grouping one for each match, the downgrade one for
each detection (`changed` is what it returns); `sortResult` is one. Expressions and
rules are numbers in the order of their strings. The filters compare the expression of
a rule, the groups the one it is reported as (`ReportedExpression`); in the instance
one license has two keys.
The automaton's outputs are what `OutputsExact` of `Automaton` says they are.
The hash is any function: the instance makes it collide for all rules of one
length. A number among the words is the head of a clause.

**LicenseList.** `array`, `length`, `groupStart` are the slice, its kept front
and the open group; one action per iteration, with the writes into the array
that the loop is still reading.

**MatcherCalls.** A slice is an array and a length, an array its contents, and
an array nobody refers to is free again. A token is the call that wrote it.
`scratch[c]` is what the call borrowed, `previous[c]` the copy its deferred
function has, `tokens[c]` the slice that `append` grows and that reaches the
scratch only when the input has been read. Of the five buffers two are modelled:
`ids` grows as `unknownAfter`, `stopwordAfter` and `word` do, `offsets` is made
as large as needed. `OnceBegin`, `LoadCorpus` and `OnceEnd` are the function of
`embeddedEngineOnce`; who comes meanwhile waits. `Drop` is the collector
emptying the pool.

**SpdxTags.** A text is the positions that matter: tags, line ends, blanks. One
action per tag, then the reconciliation. Reading the same bytes gives the same
expression, so what a tag states is data of the text.

**CorpusIndex** has no state. Words and rule IDs are numbers in the order of
their bytes; an identifier is a name after a prefix, with upper-case letters or
not, which is what folding, sorting and `LicenseRef-scancode-` tell apart. An
encoded index is the list of its eight sections. The token hash is the tokens
themselves (`MatchInput` has the collisions) and an automaton its patterns
(`Automaton` has its nodes and bits). The limits of `format.go` are constants, on the
counts `validateIndex` looks at and on those each reader looks at, which are not the
same.

**CorpusFile.** One action per step of `run` and `writeIndex`: the build,
`MkdirAll`, `CreateTemp`, `Chmod`, the write in any portions, `Close`, `Rename`,
the deferred `Remove`. Each may fail (`StepFails`; `RemoveFails`, whose error is
dropped and only recorded here, in `unremoved`), and the run may be killed
anywhere. `output` is what programs see at the path, `durable` what the disk
has; a power failure leaves the older file, or the new one with any part of its
end missing, as nothing calls `fsync`. `Load` is `NewFromReader` (or
`corpusreport`) with `Read` and `New` with `ReadRuntime`. Names from `CreateTemp`
are taken to differ.

## 3. The runs

| Run | Instance | Configuration | Shows |
|---|---|---|---|
| `pipeline` | 2 workers, up to 3 tasks of 8 or 3 kinds in both path orders, a cancellation anywhere | `ScanPipeline.cfg` | types, `TasksConserved`, `ReturnedComplete`, `NoGoroutineLeft`, `Terminates`, and that the pipeline implements `ScanContract` |
| `scan` | trees of five entries with varied contents and of seven with varied states, depth and file limits, walk and pipeline together | `ScanRepository.cfg` | `DiscoveryExact`, `OneFate`, `ReportAddsUp`, `ExitStatusTrue`, `CommandEnds` |
| `file` | files up to 12 bytes, limits on both sides of every boundary, two writes; texts of up to 4 units in every encoding, documents of 2 and 3 lines, up to 3 matches | `ScanFile.cfg` | `MemoryGuard`, `WholeFileRead`, `OffsetsExact`, `PolicyExact`, `CoverageExact`, `RecordExact` |
| `read_max_int` | the largest limit | `ScannableReadMaxInt.cfg` | `WholeFileRead` fails, see 6 |
| `links` | every binary trie of up to 7 nodes below the root, 1 to 3 workers | `FailureLinks.cfg` | `LinksCorrect`, `NoDataRace`, `ChannelsSuffice` |
| `automaton` | every list of up to 3 patterns of up to 3 tokens, inputs of 4 | `Automaton.cfg` | `BuiltExact`, `RestoredAsBuilt`, `OutputsExact` |
| `filter` | up to 4 matches, spans on both sides of the overlap ratios | `ExactMatchFilter.cfg` | `NoneContained`, `NothingUncovered`, `RestoredExactly` |
| `match` | every input of up to 5 or 6 words over three alphabets, 12 rules | `MatchInput.cfg` | `CollectionExact`, `MatchesSound`, `WholeInputRule`, `ListsDropped`, `ResultOrdered` |
| `calls` | 2 goroutines, 3 calls of `Match`, inputs on both sides of the pool's limit | `MatcherCalls.cfg` | `OneEngine`, `BuffersOwned` |
| `spdx` | up to 3 tags, up to 2 rule matches anywhere | `SpdxTags.cfg` | `DeclarationsExact`, `DeclarationsStated`, `NoComponentLeft` |
| `spdx_cut_off` | the same | `SpdxTagsCutOff.cfg` | `DeclarationsPreserved` fails, see 6 |
| `corpus` | 2 generators, up to 2 faults, checkouts whose identifiers collide in every way | `CorpusFile.cfg` | `OutputWhole`, `TemporaryGone`, `LoadedAsBuilt`, `KeysStable` |

Why the bounds are enough. Two workers and three tasks give every order of two
deliveries with a third task waiting, and a worker that finds no task; more
workers are covered by the theorems. Seven entries hold a directory within a
directory, entries before and after each, and one file more than the largest
limit. Integers up to 15 reach their own largest value, the probe (3) and the
preallocation bound (5) lie below it, and files go past both. Four units hold a
surrogate pair with a unit on each side, or two halves in the wrong order before
a lone byte; three lines let a match cross two line feeds of which only the
second separates paragraphs. Tries of depth three
have levels with failure links of length two, levels with fewer and with more
edges than the parallel threshold, and more workers than parents. Four matches
are what the restoring sweeps need: a match discarded for one that is discarded
for a third, beside a fourth that blocks it. Rules of two tokens with a shared
suffix, a duplicate and a one-token rule make candidates of every kind the
filter tells apart, and five words exceed both thresholds (3 and 6 here, 4096
and 1,000,000 in the code); six words hold a list of names with a gap on either
side of the distance. Two goroutines and three calls let one call begin while
another holds the buffers of a third, and three tokens outgrow a pooled buffer of
two. Two licenses with a key, a primary identifier and up to two aliases each
collide in every combination of the three. Two faults let an error follow a kill,
or a power failure a failed step, or the `Remove` fail after another step did. The other numeric constants of the code are
scaled the same way: 256 parallel edges to 2, 64-bit words to 2-bit ones, 1024
bytes of an expression to 4 positions, 15 names of a list to 2, 65,536 entries
of a pooled buffer to 2, the limits of rules, words, tokens and nodes in a corpus
file to 6, 4, 5 and 7, with rules of five and six tokens, of five and six stopwords, and
a vocabulary of five words among the checkouts.

`MaxWrites`, `MaxInput`, `MaxNodes` (of the tries), `MaxFaults`, `MaxCalls`,
`MaxTokens` and `Arrays` (of `MatcherCalls`) bound the models only, not the code.

Deadlock is checked in every run. With the finite inputs, and as each step of a
sequential part goes forward, it shows that the parts without fairness cannot
stop halfway.

Every property has a variant of the code that breaks it (a dropped guard, an
off-by-one, a missing reset), kept beside the definition it varies and marked
"Mutant of" or described there; with it TLC finds the property violated.

## 4. Fairness

Safety needs none. The two liveness properties, `Terminates` of `ScanPipeline`
and `CommandEnds` of `ScanRepository`, assume weak fairness of

- every worker, the closer and the caller: a goroutine that can run is
  eventually run by the Go scheduler, and a channel operation both sides are
  ready for is eventually done;
- the walk: a loop goes on.

Cancellation is never fair: nobody has to cancel. The choice of `select` between
delivering and `ctx.Done` needs no fairness, since either lets the worker exit.
Reads of a file and the matcher are steps that end.

## 5. The proofs

`ScanPipelineProofs`, for any discovery, number of tasks and number of workers,
from `PipelineAssumption` (discoveries satisfy `IsDiscovery`: well typed, counts of
what is scanned at zero, no two tasks of one path; `Requested` and `MaxWorkers` are
positive) and `ReportAssumption`:

- `TypeCorrect`, `Conservation`, `Completeness`, `NoLeak`: `TypeOK`,
  `TasksConserved`, `ReturnedComplete` and `NoGoroutineLeft` always hold;
- `RefinesContract`: the safety part of `ImplementsContract`. The pipeline's initial
  states are initial states of `ScanContract`, and each of its steps is a step of the
  contract or a stutter. So the report is the expected one whatever the schedule.

Of the first four, the last three are not inductive alone. `IInv` adds that held and received
outcomes are of tasks taken before (`TasksTaken`), that outcomes are true as
long as the context is live (`TrueUntilCanceled`: the reason the last look at
the context makes a report complete), and that workers, closer and caller exit
in order (`ExitsInOrder`). One lemma per kind of step shows it preserved.

For `RefinesContract`, every step but the last maps to a cancellation or a stutter. The
last returns `ReportOf(discovery, received)`, and by `IInv` what was received is the
true outcome of every task, each once, in some order. `CollectedFrom(r, d, S)` says
what the loop has made after the outcomes of a set `S` of tasks, without an order: the
counts are cardinalities and sums over `S`, and each list has every element as many
times as it should (`Holding`, `Adds`). `CollectStep` takes `S` to one task more, with
one lemma for the counts, one for the expressions and one for the lists;
`CollectedNothing` begins and `CollectedAll` ends the induction. Two lists that hold
each set of elements equally often are sorted alike (`RecordsSortedAlike`,
`PathsSortedAlike`), as an element's rank is such a count; there the order is gone
(`ReportIsExpected`).

`ScanRepositoryProofs`, for any repository, options, and moment of a cancellation,
from `WalkAssumption` (what `filepath.WalkDir` promises of its calls: preorder, the
root first, nested subtrees, distinct paths):

- `Discovered`: `DiscoveryExact`;
- `Fates`: `OneFate`;
- `DiscoveryLawful`: the discovery the pipeline starts from satisfies `IsDiscovery`, so
  the theorems above assume nothing of it that the walk does not do;
- `EndToEnd`: when the whole scan returns, its report is the one that exactly what the
  walk left calls for;
- `AddsUp`: `ReportAddsUp`;
- `ExitStatus`: `ExitStatusTrue`.

`DiscoveryExact` speaks of the end of the walk. `Progress` says the same of the
files before the entry the walk is at, and that the walk is only within
directories it was meant to go into, so that a file it comes to is one it is meant
to meet. The file limit is noticed when as many files were seen as it allows, and
`PlaceBounds` relates a file's place among all files to the number seen. For
`OneFate`, every fate belongs to an entry before `at` (`FatesReached`), which also
keeps the paths of the tasks apart (`StaysDistinct`). Only the steps of the walk touch
its variables (`OnlyWalk`).

The last three are about both phases. `EndInv` joins them: the pool does not exist
before the walk is done, and from then on works on what the walk left, under the
pool's own `IInv`, which `StartIInv` of `ScanPipelineProofs` gives at its start and
`NextIInv` at each of its steps. So the report is `ExpectedReport(Discovery)`, an
expression over the walk's variables. For `AddsUp`, `CountInv` has each visited file
counted as a task, a skip or an error at every step of the walk, and the report adds
to that: a task is read in one of four ways (`ReadingsPart`), each leaves as many
records as there are such tasks, since their paths differ (`RecordsCount`), and a sort
keeps them (`SortKeeps`: `InOrder` has every element as often as before, and is in
order). For `ExitStatus`, `StatusInv` says that the walk has recorded an error exactly
when it has passed an entry that calls for one (`ErrorsMet`); when it is done, every
usable file is a task and every task a usable file (`TaskFiles`, as `Place` is one to
one), so an error or a license of the report is one of the tree.

`ScannableReadProofs`, for integers of any width, any probe, limit, file and
number of writes:

- `Bounded`: `MemoryGuard`, at every limit;
- `WholeContent`: `WholeFileRead`, assuming that the largest integer is not among
  the limits. With it the property fails, see 6.

For a file that was not written to, what the probe has told is true of the whole
file when the rest is read (`Probed`); sums stay within `MaxInt` as the limit is
below it (`WordExact`).

`FailureLinksProofs`, for any trie numbered breadth-first (`IsTrie`), any number of
processors and any threshold:

- `RaceFree`: `NoDataRace`;
- `NeverFull`: `ChannelsSuffice`;
- `LinksRight`: `LinksCorrect`.

`IInv` says that a level ends where its children begin (`LevelOK`), that a node
fails to one in an earlier level (`FailuresEarlier`), that chunks of a level are
apart (`ChunksApart`), and while the caller sends, how many chunks it has sent
(`Sending`). So what a worker reads lies before the end of the level and what it
writes behind it. As the size of a chunk is rounded up, a level has no more chunks
than workers. The recursion along failure links is shown to have a solution
(`ChainExists`), as they lead to earlier nodes.

`LinksInv` adds that a link which is not right yet is still to be written, and
where (`Undone`): behind the level, in a part of it that is in no chunk yet, or in a
chunk that is not done. That the link then written is right is about paths: they
are different for different nodes as siblings differ in their token
(`PathsDiffer`); of two suffixes of a path one is a suffix of the other
(`SuffixCompared`); the chain of failures passes no state at which the search
could have stopped (`ChainOnTheWay`), so that the first that has the edge is the
longest (`FailureFound`).

`MatchInputProofs` first proves the filter by itself, for any matches and rules, from
`FilterAssumption` (the inputs are sequences of non-empty spans of rules):

- `TypeCorrect`: every sweep stays within its arrays (the overlap sweep needs
  that its inner index is ahead, `InnerAhead`);
- `ResultIncomparable`: no returned match lies within another;
- `Coverage`: every candidate is kept or overlaps one that is, until the false
  positives are discarded;
- `Restored`: `RestoredExactly`, at every point of both restoring sweeps.

`IInv` is `TypeOK`, `InnerAhead` and `Rest`: the array stays ordered; a stretch
that is loaded is one of the matches active now, so that lying in it means
overlapping one of them; each restoring sweep has covered what it has passed;
the last sweep has kept incomparable matches so far, the farthest of which ends
at `maxEnd`. `Coverage` rests on the order of the two restorations: the first
covers the matches dropped as contained, which the second does not disturb as it
only adds active matches. `Restored` adds `RestoreInv`: the active matches before
the stretch that is loaded end before all that is still to be looked at, so that a
match which does not meet the stretch meets no active match.

Then the matcher around it, for any input, rules, hash and limits, from
`MatchAssumption` (a corpus is a finite set of rules, whose tokens are in the
vocabulary; known words, stopwords and unknown ones are apart; the threshold of the
two-pass collection is at most the limit):

- `Collection`: `CollectionExact`;
- `FilterWithin`: what the filter guarantees holds where the matcher runs it: outside
  `StartFilter` each step of the matcher is a step of the filter or leaves it alone
  (`FilterSteps`), and `StartFilter` leaves it as `Init` does, with other matches
  (`FilterBegins`, `Fresh`);
- `ListFilter`: `ListsDropped`;
- `Reports`: `MatchesSound`;
- `ReportsInOrder`: `ResultOrdered`.

A list made of the members of a finite set in some order, each at its rank, has each
once (`RankOnto`, `SelectedIs`). So the output at a token lists the occurrences that
end there (`OutputsAre`), and `CollectInv` says of each pass that it has counted, or
collected, the occurrences that end before the token it is at (`UpTo`, `UpToGrows`).

For the lists, `ListInv` says what the loop knows at `listIndex`: the open group has
been linked without a break since its start (`Opened`), a match before it is not linked
to it (`Broken`), and the front of the array has, in order, what is to be kept of
the matches before the group (`Recorded`). A group that cannot be extended on
either side decides for all its members whether they are in a list (`GroupDecides`), so
one flush writes what it should (`FlushedIs`). It writes behind the reader, as
no more is kept of a part of the array than it holds (`RankBehind`).

`Reports` goes from the words to what is reported of them. `ScanInv` is about the
second scan, which knows the kind of a word only from the two lists of those dropped:
after `i` words it has recovered the places of the tokens among them and is on each
list behind the words of that kind (`ScanAt`). The next word is of a kind exactly if
its entry is the number of tokens so far (`NextIs`, as `KindsAddUp`: every word is of one
kind), so each step does with it what the first scan did (`ScanDecides`). `KeptInv` has
the candidates left by the omitted words, and so what the filter chooses (`Fed`,
`ChosenFound`), be occurrences that their rule allows (`Proper`). Such an
occurrence, at the places of its first and last token, is `Sound`: the tokens between
them are its own (`SpannedTokens`), a word dropped is between them if its number is
between the ends of the occurrence (`InStretch`, `SpannedUnknown`), and the stopwords
are where the rule has them (`SpannedStopwords`). From there to the result,
`ReportOf(SoundEntries)` is preserved by each step that groups, downgrades or sorts,
as a sort by a weak order rearranges (`ArrangedIs`) and a clue is as sound as the text it
was.

`ReportsInOrder` is about what is not sorted. Of two matches the filter keeps, the later
one starts later, as none lies within another (`CompactIncreasing`, from `IInv` of
the filter); the list filter leaves some of them in their order (`Picked`) and the
places of tokens rise (`PlacesRise`), so the chosen matches start at one place after the
other (`ChosenRise`). `FiledInv` follows them: no two lists of the report have a place in
common and no two detections an expression (`Apart`), each detection rises
(`Expressed`), the clues do until a downgrade appends to them, and what has been told
is the chosen matches so far, each once (`Told`, `ChosenTags`). The next match starts
behind all of those, so it may join any list (`AllBefore`, `AddMatchFiles`). A downgrade
leaves a part of a detection, which still rises, and moves the others, whose places were
in no list but that (`DetectionLoses`). The sort `changed` asks for is of matches
with different places and therefore strict (`SortedIfRises`), and the sort of the
detections is that of `sortResult` (`FinishedFrom`, `FinishOrders`).

`CorpusFileProofs`, for any checkouts, any number of generators and any number of
faults:

- `ReplacedWhole`: `OutputWhole`, that is until the power fails the output path
  has what it had, or all that a run wrote whose rename succeeded;
- `NothingLeft`: `TemporaryGone`, that is a run that ends leaves its temporary file
  only when both a step and then the `Remove` failed, and then it reports the error of
  the step.

`IInv` adds what a run has of its temporary file at each step (`InStep`): the
whole of it from the `Close` on, which is why the `Rename` cannot publish a part; none
at an end that skips the deferred `Remove`; and when the `Remove` comes, none unless
the run has failed already, so that its own error says nothing new. Steps that only
move the control of one run share a lemma, steps that change its temporary file
another; `Rename`, `RemoveFails` and `PowerFails` have their own.

`MatcherCallsProofs`, for any number of goroutines, calls and tokens:

- `LoadedOnce`: `OneEngine`;
- `Owned`: `BuffersOwned`, assuming `MemoryUnbounded` (there is always another
  array, as a Go program that gets none is ended).

For the first, `IInv` follows the three states of the `Once` (`OnceState`): before,
nothing is loaded; while it runs, exactly one goroutine is in its function, and
whether it has loaded is told by its place there; afterwards the engine or the
error is final, and what `New` has returned to anyone is that (`Returned`). For the
second, `BufferInv` says that no array is in two calls, in two pooled scratches, or
in both (`CallsApart`, `PoolApart`, `CallsPoolApart`), through the moment when
`append` has moved a buffer and the scratch still refers to the old one.

`SpdxTagsProofs`, for any text and any matches of the rules, from `TagsAssumption`
(what makes a text, `IsText`, and that matches lie in the text):

- `TagsRead`, `Stands`, `ComponentsGone`: `DeclarationsExact`, `DeclarationsStated`
  and `NoComponentLeft`.

`IInv` says of the tags before `offset` which are declared (`LookedAt`), that the
reach carried along is that of a match met before (`ReachOfMatch`), that
declarations share no position (`Apart`), and what stands for each: a match of the
rules that covers it, or a match of its own (`Backed`, `PendingDeclared`). `Apart`
is why no declaration's own match falls to another declaration.

Only model-checked, and why:

- `Terminates`, `CommandEnds` and the fairness that `ImplementsContract` promises:
  liveness, which the prover does not reach.
- What is computed over sequences of any length, one induction for each: the index
  (`LoadedAsBuilt`, `KeysStable`), the decoded text (`OffsetsExact`, `PolicyExact`,
  `CoverageExact`, `RecordExact`), the automaton (`BuiltExact`, `RestoredAsBuilt`,
  `OutputsExact`). The library's induction theorems take an operator as a parameter,
  which the provers cannot instantiate. The report shows a way around it, an induction
  over a set of naturals (`AllNaturals`) for a recursive function, and the second scan
  of the matcher another, a state that an action per word goes through; these have not
  been attempted, and what is a fold of the community modules would first have to be
  either.
- `WholeInputRule` of `MatchInput`: it needs what each sweep of the filter does to a
  match that all others lie within, among them those of the same span, of which the sort
  puts the lowest rule first; that has not been followed through.

## 6. What disagrees

- **`maximum+1` overflows** (`src/scan.go:821`, and 860). The largest int64 is
  an accepted `MaxFileSize`; with it nothing is read, and every file is scanned
  as an empty text (`read_max_int`).
- **A cut-off tag takes a later declaration's match** (`src/spdx.go:220`). A
  match that begins within a tag cut off by the 1024-byte limit is removed even
  if it extends over a later, complete tag that relied on it; that license then
  is in no detection (`spdx_cut_off`). `src/spdx.go:238` says earlier
  declarations cannot do that. `DeclarationsStated` holds with this exception.

Five things the passing runs state as exceptions, and which no text of the
repository denies. A power failure may cut off the end of a corpus file that was
renamed already; every reader refuses it (`LoadedAsBuilt`). `Write` stores an
automaton with more nodes than a reader allows, and the readers refuse that too
(`LoadedAsBuilt`). The same holds of a rule with more stopwords between its tokens than
a rule may have tokens: `validateIndex` (`src/internal/corpus/format.go:226`) checks
their order and not their number, which `readRule` (`format.go:705`) limits
(`LoadedAsBuilt`). `writeIndex` drops the error of its `Remove`
(`src/cmd/corpusgen/main.go:573`), so a run that fails may leave its temporary file
behind without saying so (`TemporaryGone`). An identifier of one license that is the key of another
resolves to the other (`KeysStable`).

## 7. What is not modelled

Matched text, relevance and scores, which are copied; splitting bytes into words
and folding their case; parsing of SPDX expressions and package manifests, both
in libraries; the front matter of rules, `stopwords.py` and `CORPUS_VERSION`,
whose parsers are an outcome (their content, or an error); varints, strings that
are too long, and corpus files damaged otherwise than by a missing end; packing
in 16 or 24 bits; flags, printing and JSON of the command; `corpusreport`, which
counts over one index without state; scripts and workflows. The variants of the
exact match filter that only tests use are left out. That results hold no reference to
pooled memory is not modelled: `MatcherCalls` has the buffers of a call and not its
result. The identification of an expression is a function of it (`IdentificationOf`),
while the code takes that of the first detection to arrive (`src/scan.go:1319`); they
agree as long as licenses reported under one identifier are all placeholders or none.
The context is looked at
less often in the code than in the models, which may be interrupted in every
iteration.

## 8. Plan

Done in this order: the pipeline and its contract with their proofs; the walk and
the whole scan; the read; the links; the filter with its proofs; the matcher; the
tags; the lists; the automaton; the text of a scan; the corpus and its generator;
the calls and their buffers; then the proofs, last that the pipeline implements its
contract, that the whole scan reports what its walk was meant to find, that the
matcher collects and filters what it should, that what it reports is in the text, and
that it reports all it has chosen, in order. Next, theorems, for every value of the
constants:

1. `MatchInput!WholeInputRule`: the first of the matches of the whole input is active
   through every sweep, and no other one is at the end.
2. `ScanText!OffsetsExact`: what the decoder has appended after each rune.
