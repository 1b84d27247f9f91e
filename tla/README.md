# Verification of TPT Media QC

TLA+ modules, TLC runs and TLAPS proofs about the program in `src/` (a Rust
workspace of fourteen crates, with a desktop page in JavaScript). Paths below are
relative to `src/crates/`, with the prefix `tpt-app-media-qc-` left out.

TPT Media QC inspects a media file, runs the rules of a profile over what it
found, and gives a verdict. The analysis of one file is sequential and
deterministic: what is hard in it is everything that can be missing (a file cut
short, a codec that is not decoded, a decode that breaks off) and must not read as
"nothing to complain about". Around it sit threads that share maps, a page whose
queue must never stall, workers that may panic, a folder that other programs write
to, child processes, and files that fail or vanish halfway.

## 1. Inventory

| Part | Code | State | Operations | Hard behaviour | Correct when |
|---|---|---|---|---|---|
| Local HTTP API | `tauri/src/local_api.rs` | three mutexed maps (jobs, results, cancelled), a job counter, a stop flag | POST/GET/DELETE of jobs, results, health; drop of the server | one thread per connection and per job, three locks never held together, panics, cancels that race the job | a client sees one lifecycle per job, a result exactly with `succeeded`, withdrawn jobs never run, drop returns |
| Desktop queue | `tauri/ui/app.js` | `state.jobs`, `paused`, `nextId` | import, retry, cancel, clear, pause, resume, answers of `scan_asset` | continuations after `await`, nothing polls | no lost wake-up, answers land on their own job, oldest first, bounded |
| Desktop commands | `tauri/src/lib.rs` | none | resolve profile, collect files, scan, export, open | file system | sequential |
| Batch scheduler | `pipeline/src/scheduler.rs` | an atomic counter, a vector per worker | claim, check, join | claims under contention, a panic unwinds a worker with what it kept | each job checked once, others' results kept, returns |
| QC engine | `pipeline/src/{engine,lib,verdict}.rs`, `rules/src/rule.rs` | the two inspections of one check | inspect metadata, inspect decode, merge, run rules, aggregate, resolve | panics of rules, several orders of badness, decodes that break off | the verdict follows from the findings; a panic never passes; what was not measured does not pass |
| Batch command | `cli/src/app.rs` | the exit code, the report files | one asset after the other | files that vanish, errors of one asset, `--fail-fast` | the exit code hides nothing; one bad asset does not stop the others |
| Watch command | `cli/src/watch.rs` | the input and destination folders, the event channel | scan, receive, check, route | producers still writing, events of its own moves, name collisions, failing moves, interrupts | nothing lost, nothing overwritten, everything owed is handled |
| Other commands | `cli/src/{app,cli,probe}.rs` | none | check, info, compare, correct, list-rules; the inspector they share | staged output of correct | correct leaves no trace when it fails |
| Plugin host | `plugin/src/{run,registry}.rs` | a child process, three threads, three pipes | discover, build rules, run | full pipes, timeout against exit, inherited pipes | no deadlock, no truncated answer believed, bounded time |
| Plugin manifest, SDK | `plugin/src/manifest.rs`, `plugin-sdk` | none | validate, serve one request | - | pure checks |
| Store | `store/src` | SQLite tables | jobs, findings, cache, assets, profiles, preferences | `complete_job` is three statements without a transaction; only `cancel_job` has a guard | findings never stand without a verdict, metadata only with all findings |
| Model and time | `model/src` | none | rates, timecodes, records | drop-frame numbering, wrap-around | numbering is one-to-one and monotonic |
| Decode analyses | `decode/src` | accumulators over frames and samples | black, freeze, duplicates, flashes, dead pixels, perception, levels, loudness, voice, transcripts | segments open at the end, frames without a time, a decoder that keeps frames back, early ends | segments are exact, half a decode never counts |
| Probe parsers | `probe/src` | a byte cursor, per-track tables and clocks | read ISO-BMFF, Matroska, TS, WAV, AIFF, FLAC, Ogg | cut and damaged files, clocks that wrap, limits on what is read | lost data shows, timestamp jumps are reported |
| Rule catalogue | `rules/src` | none | 46 rules, user-defined rules | missing evidence, windows and shares at their limit | no pass without evidence; windows are exact |
| Profiles | `profile/src` | none | parse, validate, hash | lists of rules kept by hand in several places | each rule that runs has its key; an accepted rule can decide |
| Reports | `report/src` | staged files | JSON, HTML, CSV, PDF | replaced whole | formatting |
| Comparison | `pipeline/src/compare.rs` | none | difference of two inspections | - | pure |
| Core | `core/src` | none | path checks, content hash, cost classes, error type | - | stateless |
| Test harness | `test/` | - | fixtures, a test plugin, benchmarks | - | not part of the program |

How they interact. The page calls the desktop commands and awaits their answers.
The API, the desktop commands and the command line all call the same engine; the
engine calls an inspector (probe, then decode), then each rule under
`catch_unwind`, then `aggregate` and `resolve`. A plugin rule is a rule that runs a
process. The batch and watch commands call the engine once per file and write
reports; the watch command also moves the file. The scheduler and the store are
libraries: `run_jobs` is exported by the pipeline, and no other crate uses the
store today.

`PROJECT.json` lists every part with its status, and under `hazards` each place
where the hard behaviour bites, with the properties that watch it.

## 2. Plan

| Order | Modules | What | Status |
|---|---|---|---|
| 1 | `JobLifecycle`, `LocalApi` | the API and the abstract lifecycle it implements | checked and proved |
| 2 | `DesktopQueue` | the page's queue | checked and proved |
| 3 | `Scheduler` | `run_jobs` | checked and proved |
| 4 | `WatchFolder` | the watch command | checked and proved |
| 5 | `PluginRun` | one run of a plugin | checked and proved |
| 6 | `Verdict`, `Batch` | verdict, exit code, the batch loop (composes `Verdict`) | checked and proved |
| 7 | `JobStore` | job rows, findings and metadata under several connections, with `complete_job` stopping between any two statements | checked and proved |
| 8 | `Codecs`, `IsoFile`, `MatroskaFile`, `TsFile`, `AudioFiles`, `Probe` | the metadata pass | checked through `Analysis` |
| 9 | `FrameAnalysis`, `AudioAnalysis`, `Transcripts`, `Inspect` | the decode pass and the merge of both | checked through `Analysis` |
| 10 | `Rules` and the rule modules, `Profile`, `Catalogue` | profiles and rules | checked through `Analysis` |
| 11 | `Analysis` (composes `Inspect`, all rule modules, `Catalogue`, `Verdict`) | one check of one file, and questions to the pure parts | checked and, but for one invariant, proved |
| 12 | `DesktopQueueProofs` | `AnswerFindsJobRunning`, `NoIdleSlot`, `NoStartWhilePaused`, `OldestFirst` | proved |
| 13 | `BatchProofs` | `ExitCodeIsHonest`, `StopsOnlyWhenItMust`, `VerdictIsExplained`, `PanicNeverPasses` | proved |
| 14 | `PluginRunProofs` | `NoTruncatedResponse` | proved |
| 15 | `WatchFolderProofs` | `NothingLost`, `ScannedFilesWereIdle`, `DeliveredStays` | proved |
| 16 | `AnalysisProofs` | `NoPassWithoutDecode`, `PartialDecodeNeverCounts`, `SegmentsExact`, `EveryRuleHasItsKey`, `OperandsDecide`, `FlashWindowsExact` | proved |
| 17 | `AnalysisProofs` | `LostDataShows`: the walk through each container | proved |
| 18 | `AnalysisProofs` | the clock of a transport stream (`WrapIsNoJump`), the comparison of transcripts (`EditsAreCheapest`) | proved |
| 19 | the parsers | `JumpsAreReported` | model-checked only, see section 5 |

## 3. The modules

### LocalApi and JobLifecycle (`tauri/src/local_api.rs`)

Every critical section of the code is one action and every point between two is a
value of `worker[j]` (job thread) or `at[c]` (connection thread); `about[c]` is the
job id a handler carries from one lock to the next. `status`, `cancelRequested`,
`results` and `cancelled` are the contents of the three maps. A handler whose last
critical section decides the reply replies and ends in the same step, because
nothing later depends on it; the one exception is the 500 of `job_results`, kept as
the state `"fault"`. Requests that change nothing (health, profiles, job listing,
malformed ones) are `ReplyOnly`. The listener is `listener` and `stop`.

`JobLifecycle` is the contract: five statuses, a cancel flag, readable results,
no threads. `LocalApi!ImplementsLifecycle` is its specification under the mapping
`readable <- {j \in results : status[j] = "succeeded"}`; the other variables keep
their names.

### DesktopQueue (`tauri/ui/app.js`)

JavaScript runs one handler at a time, so a handler is one action, including the
call of `pumpQueue` that ends it and the part of `runJob` before its `await`;
`ScanAnswers` is the rest of `runJob`. The list is kept newest first and ids
increase, so the place of a job is its id, and `slice(-capacity)` is a set of
smallest ids (`SliceFromEnd`), with the case `slice(-0)` as JavaScript has it.

### Scheduler (`pipeline/src/scheduler.rs`)

One action per step of a worker (`Claim`, `Check`, `Panic`) and of the calling
thread (`Join`, which merges). `fetch_add` is atomic; its relaxed ordering does not
matter, because results reach the calling thread through `join`. `owner` is
history.

### WatchFolder (`cli/src/watch.rs`)

`disk` holds the entries of the input folder and of the destinations: which file,
and whether the entry is the producer's own, a copy or a partial copy. The session
is one thread (`pc`) in one of two phases: the scan of what exists, with the looks
of `wait_until_stable` at the length (`polls`, `prev`), and the receive loop over
`events`. Files have a length (`size`): a copy begins empty or in room reserved for it,
grows by any amount at any time, or stands still, and ends when it likes. The session
sees nothing of that but the length, so it takes up a copy that stalled between two
looks, and never one of length 0. Producers only add: that a file is shortened or
written again from its start is not modelled. `route_file`
is `Check` (choice of the name), `Rename`, or `StartCopy`, `FinishCopy` or
`FailCopy`, `Remove`. The producer copies in, moves in, or moves a folder in;
`Interrupt` may strike anywhere and `Start` begins a new session on the same disk.
All input files have the same name, which is the worst case for the destinations.
`owed`, `early` and `idle` (the files that have not grown since the last look) are
history.

### PluginRun (`plugin/src/run.rs`, `PluginRule::run`)

The host thread, its writer and two reader threads, the bounded pipes, the plugin
and a helper it may leave behind. The plugin reads, writes, exits, starts the
helper and hangs in any order. Sizes are in blocks; a reader takes one block more
than its limit at most, as `take(limit + 1)` does. `written` is history.

### Verdict and Batch (`pipeline/src`, `cli/src/app.rs`, `cli/src/exit.rs`)

`Verdict` has the pure part: `Resolve` (`Decide` of the set of findings, since their order
does not matter), the rank behind each rule's status
(`StatusRank`, `Best`) and the exit codes. `Batch` runs `run_batch`: `build_asset`,
then `engine.check` (inspection, each rule with its findings or its panic, the
verdict), the report file by its stem, and `--fail-fast`. What happens to each
asset is in `outcome`; `panicked` is history. The report is staged and renamed by
the code, so it is replaced whole or not at all.

### JobStore (`store/src/jobs.rs`, `store/src/schema.rs`)

The tables `jobs`, `findings` and `report_metadata`, used by several connections
(a connection is used by one thread). Each SQL statement is one action, because
each commits by itself; `call[s]` is the place of connection `s` within
`complete_job`, and `Abandon` is every way not to reach the next statement: an error
returned by `?`, or the death of the process. A row is identified with the run it
came from, a finding with its place in that run. `complete_job` about an id that was
never created updates no row and goes on: such findings are in the model, and
`updated` (history) tells them apart. Times, error texts and the columns copied from
the report are left out.

### The metadata pass: Codecs, IsoFile, MatroskaFile, TsFile, AudioFiles, Probe (`probe/src`)

A file is not a string of bytes but what its format makes of them: a tree of boxes
or elements, or a sequence of packets or chunks, each with its size, next to the
length of the file. A file cut short is the same tree with a smaller length, and
every reader decides from sizes and length what it can still read, as the code does
from its cursor. Each reader gives the record of a container (validity, streams,
gaps, notes about what is malformed) or nothing, which is an error. The walk over the top level of an MP4 file ends at its limit, without a
mark, whatever follows. `Probe` chooses
the reader by the first bytes, and turns the record into the inspection that the
rules see, with the metrics of subtitle cues. How a field is cut from its bytes is
left out; what a field may hold (a codec, a colour, a time) is kept. Times in a
transport stream wrap at `Wrap`, 2^33 in the code.

### The decode pass: FrameAnalysis, AudioAnalysis, Transcripts, Inspect (`decode/src`, `pipeline/src/engine.rs`, `cli/src/probe.rs`)

`FrameAnalysis` has the accumulators over video frames (segments of black, frozen
and duplicated frames, luma, flashes, dead pixels, perception), `AudioAnalysis` those
over sample frames (silence, levels, loudness with its two gates) and the plan of
`correct`; `Transcripts` the alignment of two texts, row by row as in the code, and the speech
measurements. Each
is a record with an operator that advances it by one frame and one that finishes it.

`Inspect` runs them: the metadata pass, then the decode of one video track packet by
packet, then of a standalone audio file, then voice analysis and the merge. `stage`
is the place in `inspect_decode`; demuxer and decoder are external and may at any
step return a packet, a frame (the newest or one kept back), nothing, an error, or
the end. Every way out of the loop is there: too large, no known track, no samples,
an error, an early end, no frame. `shown` and `heard` are history. `source` keeps the
place of the decoded track in the demuxer (`track`) apart from the stream that its frames
count for (`stream`), as `choose` returns both: the files of the instance have tracks that
only one of demuxer and metadata pass knows.

### Rules, Profile, Catalogue (`rules/src`, `profile/src`)

A rule is a function of its configuration and of a context (streams and measurements)
to the set of the statuses of its findings; the guards of the code, what a rule needs
before it judges, are `Needs`. `Profile` has one schema for each rule (keys, their
types, required keys, what a scalar means, whether other keys are rejected), which
replaces the parse functions, and the reader of a value of each type. `Catalogue`
has user-defined and plugin rules as the parser accepts them, the build functions in
their order, and the table of configuration hashes.

### Analysis

`QcEngine.check` as a whole: the actions of `Inspect`, then `Judge`, which runs every
rule of a profile in build order and resolves the verdict. For what is a function of
its input alone (a profile, a user-defined rule, flash windows) there are actions
that ask one question, keep the answer in `answer`, and forget it.

## 4. The runs

| Run | Instance | Shows |
|---|---|---|
| `local_api` | 2 connections, 2 jobs | the API implements `JobLifecycle`; a completed job never lacks its result; withdrawn jobs never run; no orphan results; timely cancels are honoured; started jobs settle; drop returns |
| `desktop_queue` | 2 slots, 4 jobs, 3 paths, 1 retry | answers find their job running; no idle slot; nothing starts while paused; oldest first; the queue drains |
| `desktop_bound` (violation) | 2 slots, 3 jobs | more than `maxConcurrent` scans run: `slice(-0)` is the whole queue |
| `scheduler` | 4 jobs, 3 workers | each job has one worker; the others' results survive a panic; no job is skipped; it returns |
| `watch` | 2 files of up to 2 units, 2 polls, 2 sessions, one verdict, destinations inside the input, that of the verdict not empty | nothing lost; the scan takes up a file only if it stood still between two looks and was not empty; deliveries stay; owed files are handled |
| `watch_partial` (violation) | 1 file, 1 session | the receive loop delivers a file that is still being written |
| `plugin` | pipes of 1 block, request of 2, limits of 1, 3 blocks of output | no truncated response is believed; full pipes drain; without a helper the host returns |
| `plugin_timeout` (violation) | the same | with a helper the host never returns after the timeout |
| `batch` | 3 assets (two with one stem), 2 rules with up to 2 findings below and at the threshold | exit code, panics, agreement of verdict and rule statuses, when a batch may stop |
| `batch_abort` (violation) | the same | a file that is gone when its turn comes ends the batch |
| `analysis` | 21 files in 7 formats: 15 whole, 5 cut where their reader looks (an MP4 file within its samples, within its tables, and at the end of a box; a Matroska and a WAV file) and one cut behind the limit of the walk; in one the demuxer drops the track of the metadata, in one it has a video track that the metadata pass takes for data; 2 pictures of two cells, up to 3 packets and 3 sample frames, frames without a time or 40 ms behind, at or before the last one, a profile with all rules and one with four; 226 documents, 400 pairs of a user-defined rule and a value, 1093 sequences of flashes under two limits | no pass without decoded frames that count for the stream that is judged, of its own track wherever the demuxer lists the preferred one; segments are the maximal stretches; part of a film never counts as the film; lost data fails `container.readable`; all formats report the same jumps and no other; ids and keys of rules; user-defined rules decide; flash windows |
| `job_store` | 2 connections, 2 jobs, 3 calls of `complete_job` with up to 2 findings | findings never stand without a verdict; metadata means all findings; one completion that returned is exact |

Why these bounds are enough. Each property is about at most two actors of a kind
or two items that collide: two handlers on one job, two jobs for one slot, two
files with one name, two workers at the end of the counter. The instances have
that many and one more where something must be left over (a queued job behind full
slots, a job behind a panicked worker, an asset behind a failed one). The pipes are
the smallest that fill, and the output is large enough to pass the limit while a
pipe is full. In `analysis` three frames are what it takes to open, extend and close a segment in
every order; cuts fall before, within and behind each part that a reader looks at;
the clock wraps in the middle of a stream, with a jump on one side of it; six flashes
with distances on either side of a second. Limits are scaled down with the data
(three top-level boxes for 100 000, four tracks, a clock of 16 bits, ten sample frames per
second). In `batch`, two
findings from one rule are what it takes for two orders of badness to disagree. In `job_store` two completions interleave and a third
repeats an abandoned one. `CHECK_DEADLOCK FALSE` is set where the system may
stop for good (the API after its drop, with no clients; the watch command
interrupted for the last time; the plugin run that waits for ever); the other
specifications have an explicit step for being finished, or never stop.

The four violation runs are disagreements between the code and what its documents
say; `findings` in `PROJECT.json` quotes both sides.

### Fairness

- `LocalApi`: weak fairness of each connection thread, each job thread and the
  accept loop. Sockets have read and write timeouts of three seconds and the loop
  polls every ten milliseconds. `run_qc` is assumed to return. No fairness for
  clients or for the drop.
- `DesktopQueue`: each open `scan_asset` call is answered. Nothing for the user.
- `Scheduler`: each worker and the calling thread are scheduled; a check ends.
- `WatchFolder`: the session's thread runs. Nothing for producers or the user.
- `PluginRun`: the host's threads and the clock. Nothing at all for the plugin or
  its helper; `ReturnsWithoutHelper` states what it needs of the helper.
- `Batch`, `JobStore` and `Analysis` have no liveness property: a loop over a finite
  list, a library that does what its callers ask, and the decode of a finite file.

## 5. The proofs

Eight modules hold theorems, for every value of the constants that their assumptions
allow: every safety invariant and action property that a passing run checks is
proved, except one (at the end of this section).

### What is assumed of the constants

| Module | Assumption | Why the code justifies it |
|---|---|---|
| `LocalApi` | `MaxJobs` a natural | a bound of the model |
| `Scheduler` | `NumJobs` positive, `Limit` a natural | an empty batch returns before any of this |
| `JobStore` | `MaxFindings`, `MaxRuns` naturals | bounds |
| `DesktopQueue` | `MaxConcurrent` positive, the rest naturals | it is 2 in the code; bounds |
| `Batch` | at least one asset; every asset has a stem; `FailOn` is a severity; answers are lists of findings | the command line demands an input; types |
| `PluginRun` | pipes hold at least a block, sizes are naturals | types |
| `WatchFolder` | `MaxPolls` positive, the rest naturals or parts of their types | it is a constant of the code; bounds |
| `Inspect` | `InspectAssumption`: pictures are non-empty lists of bytes, gaps are integers, the streams of a container are a list and have an index | types (`Vec<u8>`, `i64`, `Vec<StreamInfo>`); an empty frame is not handed out by the decoders |
| | `FilesAssumption`: lengths and sizes are naturals; boxes, elements, chunks and the tracks of the demuxer are lists | types (`u64`); what follows each other in a file |
| `IsoFile` | `IsoAssumption`: the limits are naturals | constants of the code, scaled down |
| `TsFile` | `TsAssumption`: the clock has a positive number of values | 2^33 in the code; bounds |
| `AudioAnalysis` | `AudioAssumption`: rate, block, step, window and taps positive, limits naturals | constants of the code, scaled down |
| `Analysis` | `PolicyAssumption`: `FailOn` is a severity | type |
| | `AnalysisAssumption`: the custom rules of a profile passed the parser, values have their type, flash times ascend | profiles come from `parse`; types; flashes are recorded as frames come |
| `Catalogue` | `MetadataAssumption`: no metadata key is the name of another metric | these begin with `metadata.`, no other does |

TLC evaluates each on the instances of the runs.  `MCAnalysis` adds two facts about its files:
`LostIsCut`, `Lost` tells exactly those that were cut where their reader looks; and
`FallbackCollides`, the deviation of section 6 about the track that is decoded.

### LocalApi

None of the safety properties is inductive: `NeverMissingResult` needs
to know that a status of `succeeded` copied earlier still implies an entry in
`results`, which needs to know where the job's thread can be for each status. The
inductive invariant `IInv` adds to `TypeOK`

- `ThreadAndRecord`: for each place of a job's thread, the possible statuses of its
  record (a record is `running` exactly while its thread is between `mark_running`
  and `finish_job`, or died there);
- `MapsAgree`: what membership in each map says of the others;
- `HandlersHold`: what a handler may rely on about the id it carries between two
  locks, and that no two handlers carry the same fresh id.

Each action has a lemma that it preserves `IInv`; the theorems follow by `PTL`.
`ApiImplementsLifecycle` is step simulation: each step of `LocalApi` is, under the
mapping, a step of `JobLifecycle` or a stutter, using `IInv` before and after.

### Scheduler

`IInv` adds to `TypeOK` the three facts `Claimed` (the jobs below the
counter are owned, the others untouched), `Held` (a worker that has not panicked
holds every job it owns) and `Collected` (what the joined workers held is in the
results). `OneWorkerPerJob`, `OthersKeepTheirResults` and `NoJobSkipped` follow.

### JobStore

`MetadataMeansComplete` is not inductive: at the step that writes the
metadata one must know that the call has stored all that came before. `IInv` adds to
`TypeOK` the facts `CallsHold` (a call at place `at` has stored the findings before
it), `MetadataHolds` (a metadata row names a run of its own job, all of it stored),
`UpdatedHolds` and `FindingsOwned` (a run that met its row left a report there, and
every finding is of the job of its run); the last two give `FindingsHaveVerdict`.
`OneCompletionIsExact` is about a query: `RowsAbout` walks the table from its first
row, so `RowsAboutAppend` (what a new row adds to the answer) is the lemma by which
the findings of the only call of a job stay a prefix of its run, in order.

### DesktopQueue

`AnswerFindsJobRunning` and `NoIdleSlot` are inductive together with `TypeOK` and
`FreshIds` (an id not given out belongs to no job). Every handler that frees a slot or
queues a job ends in `Pump`, so the proof is about `Pump`: it leaves either no queued
job or no free slot (`PumpFills`), and no job that stays queued is older than one it
starts (`PumpInOrder`, with the case of `slice(-0)`). Both rest on two lemmas
about `SliceFromEnd`: it takes enough, and it takes the oldest. The action properties
follow, since no handler starts a scan but through `Pump` (`OnlyPumpStarts`).

### Batch and Verdict

`IInv` adds to `TypeOK`: `Walked` (assets behind the current one are untried, those
before it are settled and none of them stops the batch), `Tracks` (the exit code so
far is that of the worst of them), `Ended` (the four ways to end, with their codes) and `Found`
(a panic has left a finding, and an outcome is the verdict of the findings).
`ExitCodeIsHonest` and `StopsOnlyWhenItMust` are read off `Ended`. `VerdictIsExplained`
and `PanicNeverPasses` need the two orders of badness besides: `BestIsWorst` (what
`aggregate` leaves of a rule's findings) and `ResolveCases`.

### PluginRun

`IInv` counts blocks. `Accounted`: while a reader runs, what was written is read or in
the pipe, and a reader that ended below its limit has read all there will ever be.
`Polled`, `Joined` and `Judged` say what the host may take for granted when it gets to
the judgement; `NoTruncatedResponse` follows for all sizes.

### WatchFolder

`NothingLost` excepts files that are still being written; its inductive form `Kept`
does not. The step that can break it is `Remove`, which deletes the source behind a
copy. `Routed` says what makes that safe at each place of `route_file`: nothing is at the
target before the copy, only a part of this file during it, and all of the file before the
source goes. `Inputs` (names in the input folder are the producer's own) and `TakenUp`
(the path in hand is one of those) carry it, and `FreeSlotIsFree` shows that the search for
a free name ends, with one. The action property `DeliveredStays` follows from the same
invariant.

`ScannedFilesWereIdle` is what the comparison of lengths is worth. It is not that nobody
is writing: a copy that stalls, or fills room it reserved, is taken up. `Looked` is the
invariant: the length is never below what the last look saw, and above it if the file has
grown since; so two equal looks mean no growth between them. `Listed` (what the scan has
collected was there) is needed for it: no other file takes a name between two looks.

### Analysis

Four groups of invariants, one for each kind of question.

- `Answered`: an answer is what the operators make of the question. `OperandsDecide` is
  then a fact about comparisons of an accepted rule, `EveryRuleHasItsKey` one about the
  lists of build functions and keys, and `FlashWindowsExact` one about the walk over the
  flashes: after `k` of them, the windows are apart, each has more than the limit within a
  second, and every burst among the first `k` is inside of one.
- `Inspected` and `JudgedByRules`: from the metadata pass on, the streams stay as they
  were found (`Reading`), the analyzer has counted the frames it got, of a track that was
  read as far as the tables promise (`Counted`), and measurements are blank unless they
  are of that track, in full (`VideoMeasured`, `AudioMeasured`). `PartialDecodeNeverCounts`
  follows: what the loop expects is what the tables promise of the decoded track.
  `NoPassWithoutDecode` needs one lemma per decode rule, that blank measurements are not
  enough for it to pass, and for the track `PreferredIsOwn`: if the demuxer lists the
  preferred track, the one chosen has the id that the stream of its number names. The
  streams are numbered by their places (`StreamsNumbered`), so the stream that the rules
  judge is that one (`OwnTrack`).
- `Watched` and `Reported`: a tracker that saw `n` frames has reported the maximal runs
  closed before `n`, and its open range is the run that reaches `n` (`Tracked`).
  `TrackedOn` and `TrackedOff` are the steps for a frame that qualifies and one that does
  not, and finishing is a frame behind the last that does not. `SegmentsExact` follows,
  for any number of frames and for times that step back.

- `ContainerKept` and `JudgedByFindings`: what is judged of the container is what the
  metadata pass said of it, and the verdict is `Decide` of the findings. `LostDataShows`
  needs besides that each reader notices. `Lost` does not mention the readers: it compares
  the sizes a file declares with its length. For MP4, after `n` boxes, up to the limit of the walk
  (`WalkedTo`), it either has a mark of corruption or stands behind the `n`th box with the
  first whole `moov` of them,
  or has stopped before a header that is not there (`Walking`); a file cut between two
  boxes is told by the places of its chunks (`MoovMarked`). For Matroska, the mark is set
  at the segment and no element or cluster takes it back (`Misses`). For WAV, the chunk
  found is the one that is too long (`Places` gives every chunk a number as its place).

Two theorems are about algorithms for inputs of any length. `WrapIsNoJump`: after every
reading the unwrapped times are those of the clock less whole rounds (`ClockUnwraps`), so
medians and jumps are the same; the bound, that no two readings are half a round apart, is
where the code really stops telling forward from back. `EditsAreCheapest` is the formula
TLC evaluates as `EditCountsAreMinimal`: every cell of the table is the cost of the
cheapest alignment of two prefixes (`CheapestCell`), because an alignment pairs the last
two words or leaves one of them out (`LastPaired`).

Walks over lists are recursive functions over numbers, and what they compute for a list
of any length is proved by its least counterexample (`LeastNumber`, `UpTo`), since the
induction theorems of the library cannot be used here. For the same reason the lists
these proofs are about are selected and ordered by what they hold (`Only`, `ByStream`)
and not with `SelectSeq` and `SortSeq`.

### What is only model-checked

- Every liveness property: fairness and `ENABLED` are beyond the prover. These are
  `TimelyCancelHonoured`, `StartedJobSettles`, `DropReturns`, `QueueDrains`, `Returns`,
  `OwedFilesHandled`, `FullPipeDrains` and `ReturnsWithoutHelper`.
- `JumpsAreReported`. It says that the readers report the same clear jumps of one timeline,
  and it holds of the timelines of the instance, not of all: the Matroska reader compares a
  distance with the median of those before it, readers round to milliseconds at different
  places and keep a limited number of jumps. What can be said for every clock, of the
  reader with the hardest part, is `WrapIsNoJump`.
- Two assumptions of `MCAnalysis` that TLC evaluates: a planned gain reaches its target
  under the ceiling, and a correction leaves no staged file and no changed output behind.
  A third, `EditCountsAreMinimal` (for all texts of up to three of three words), is the
  instance of `EditsAreCheapest`.

`TypeOK` is checked by a run and proved for `LocalApi` and `JobStore`, proved for
`Scheduler` and `DesktopQueue` (`TypeCorrect`), and part of the inductive invariant of
`Batch`, `PluginRun` and `WatchFolder`; `Analysis` has what is needed of it in `Inspected`.

## 6. Deviations worth knowing that no run states

- A job of the API whose thread could not be spawned stays `queued` for ever
  (`local_api.rs:523`); one whose report panics stays `running` (`:538`). Both are
  steps of the model.
- A cancel accepted after the thread has looked at the flag is dropped, and the
  flag reset. The lifecycle allows it.
- The three maps of the API are never emptied; the bound `MaxJobs` hides growth.
- With `--fail-fast`, a failure after an inspection error exits with 2, not 3.
- Under `fail_on: critical` a rule's panic is below the threshold and the asset
  passes: `PanicNeverPasses` excludes that policy.
- `complete_job` for an id that was never created stores findings and metadata and
  returns `Ok`; called again after it failed half way, it stores findings twice.
- `start_job`, `fail_job` and `complete_job` ignore the status: a finished job can be
  taken back to `running`. No caller in the repository does.
- Two assets of a batch with the same file stem share one report file.
- The watch command misses files that arrive between its scan and the start of the
  watcher, files of a folder moved in, and existing files that do not settle within
  the looks of `wait_until_stable` (an empty file never does), all until the next
  session. The same looks take up a copy that stalls for 200 ms, or whose room was
  reserved beforehand, as if it were complete. It also drops errors
  of the watcher (`watch.rs:69`), which the model's channel never has.

Of the metadata pass:

- The AV1 configuration record of an MP4 file (`iso_bmff.rs:660-711`) is read one bit
  off from where the Matroska reader (`matroska.rs`) reads the same record: without a
  sequence header, 8-bit 4:2:0 is reported with another pixel format.
- A file cut within its samples is noticed in MP4, Matroska with known sizes and WAV;
  in AIFF, FLAC and for the last packet of a transport stream it is not. An MP4 file
  whose `moov` ends before its sample descriptions is an error, not a corrupt
  container. The walk over the top level of an MP4 file
  ends without a word after 100 000 boxes (`iso_bmff.rs:1164`): what a fragmented file
  loses behind them is not noticed, and `Lost` does not speak of it.
- The first distance between two blocks of a Matroska track is never reported as a
  gap. `JumpsAreReported` leaves it out.
- Bitmap and DVB subtitles have a cue count of zero, so `subtitle.timing` passes them
  without a cue; overlaps are looked for between neighbours only.

Of the decode pass:

- Without a count of expected packets (Matroska, transport streams) an early end is
  not noticed; `PartialDecodeNeverCounts` is about MP4.
- When the demuxer does not list the track that the metadata pass prefers, or that names
  none, the first one it can decode is used, under its place in the demuxer's list
  (`lib.rs:152-155`). That place may be the number of another stream: if the demuxer
  drops the damaged first video track, the frames of the second count as stream 0, and
  rules about stream 0 pass on them. The comment at `lib.rs:103-105` promises that decode
  and metadata "agree on which stream a measurement belongs to even when a container
  parser drops a damaged track the other one kept". `FallbackCollides` in `MCAnalysis`
  shows the collision on `DroppedFilm`, and TLC evaluates it with every run of `analysis`.
  `NoPassWithoutDecode` says what does hold: frames that count for the judged stream, and
  of its own track wherever the preferred one is listed.
- A single frame without a nominal rate counts one millisecond. The rate observed
  from millisecond times misses a tolerance of 0.001.
- The accumulators of dead pixels have the size of the first frame; a larger frame
  later is outside of the model.

Of rules and profiles:

- `video.corrupt_frames` cannot fail: the decoder never counts a corrupt frame.
- A user-defined rule on the container's `duration_seconds` is always inconclusive:
  `asset.duration` is never filled (`app.rs:273`).
- `container.duration_consistency` compares whole seconds; an aspect ratio of 0 by 0
  and timestamps or metadata that were never examined pass; `subtitle.content` drops
  its failures when a text could not be decoded.
- A malformed severity makes a rule a warning instead of an error of the profile;
  most rules accept unknown keys although the header of `parse.rs` calls the parser
  strict; counts are cut to 32 bits.

## 7. Not modelled

- Bytes and signals: bit readers, checksums, character sets, colour conversion,
  filters and the metrics of one picture. They are floating point or bytes put
  together one by one; a file or a picture of an instance has their result.
- Report formats, comparison of two reports, timecodes, path checks, fingerprints:
  pure functions that nothing in a check depends on. The desktop commands and the
  remaining commands of the command line are straight-line.
- Plugin discovery and manifests: checks of fields. The analysis cache has no caller
  outside of the store; the other tables of the store are single upserts.
- YAML itself, the built-in profiles, the header and the canonical text of a profile.
