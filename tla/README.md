# Verification of rhythm-map

rhythm-map turns PCM into a tempo map: beats, downbeats, tempo segments, change
points and rhythm sections. Beside the product the repository holds the programs
that evaluate it and the experiments that try to improve it. This directory holds
TLA+ models of the parts where several actors, failures, long sequences of steps or
an intricate computation decide whether the result is right, the TLC runs that check
them on small instances, and TLAPS proofs of the main safety properties for every
instance.

* [Inventory](#inventory): the system's parts, their state, what is hard
* [Modules](#modules): which module models what, and how it corresponds to the code
* [Runs](#runs): what TLC checks, with which bounds
* [Fairness](#fairness)
* [Proofs](#proofs)
* [Disagreements](#disagreements) between code and documentation
* [Observations](#observations): other behaviour worth knowing, which no document denies
* [Limits](#limits) of the models, and what is not modelled
* [Plan](#plan)

## Inventory

Paths are below `src/`.

| part | state | operations | interacts with |
|---|---|---|---|
| **Model-pack cache** `crates/rhythm-map-models` | on disk: `model-packs/<sha256 of manifest>/` with `manifest.json` and `artifacts/`; a private `.download-XXXXXX` stage per call | `fetch`, `verify` | called by the CLI (`model fetch`) and by anything else with the same cache root; no lock; downloads over HTTPS; the verified pack is what the backend loads |
| **Beat This backend** `crates/rhythm-map-beat-this` | an ONNX session, reused | `observe_mono`: resample, infer in chunks, pick peaks, merge, snap downbeats, sequence path | loads files of a verified pack; gives `RhythmObservations` to the engine |
| **BeatNet backend** `crates/rhythm-map-beatnet` | an ONNX session | frontend, candidate path and grid decoders | evaluation only |
| **Rhythm engine** `crates/rhythm-map-core/src/engine.rs` | a backend | `observe_pcm`, `analyze_observations` | adds activity and onset envelopes, calls the estimator |
| **Tempo-map estimator** `crates/rhythm-map-core/src/estimator.rs` | none between calls | `estimate`: silence, metrical level, repair, tempo curve, segments, downbeats, hypotheses, changes, sections | pure function of observations |
| **Analyzer C ABI** `crates/rhythm-map-ffi` | engine in a mutex (poisoned by a panic), `LAST_ERROR` per thread | make, analyze, last error, free | foreign threads share one analyzer |
| **CLI**, **WASM** | none | argument and value conversion | call the engine, the CLI also the cache |
| **Evaluation runner** `crates/rhythm-map-eval/src/runner.rs` | reports | cases in sequence | backends, estimator, observation cache |
| **Observation cache** `observation_cache.rs` | on disk: `v1/<dd>/<digest>.json`, temporaries `.<digest>.<pid>.tmp` | `load`, `store` | any number of runs share the directory; no lock |
| **Public datasets** `public_dataset.rs` | on disk: locked assets, `.<name>.part` temporaries | `fetch_public_dataset` with three attempts per asset; ZIP members by range requests | any number of processes may be given one directory; no lock |
| **Experiment programs** `experiments/*` | an output directory with journals, results and one report | register, prepare, capture, fit, evaluate, audit: hash inputs, compute, write files that nobody may write twice | read one another's reports and captures by hash |
| **Fit recorders** `experiments/training_observer`, `protected_update`, `scaled_phase_fit`, `separated_evidence_fit` | model and optimizer, snapshots, journal, selection | update, development, selection, export | inside the clock experiments |
| **Parity audits** `evaluation/parity/*.py` | a report | MusicFM workers, captures, ledgers, inference of clocks, proposals, recurrence | read captures and annotations |
| **BRID pool** `evaluation/parity/brid_pool_acquire.py` | members, `.part` files, `lock.json` | reuse, range requests, lock, verify | a polite client of one archive |
| **Audio resolver**, **importers**, **synthesis**, **examples**, **packager** | none, or one output directory | conversions and statistics | one process each |

What is hard, and what makes each part correct:

* **Model-pack cache.** Callers race between two existence checks and a
  `rename`; downloads fail, are truncated or wrong; a process is killed or the
  power fails between any two calls; outsiders put things at the entry's path.
  Correct means: a published entry is complete; `Ok` is never answered without
  the whole pack; what is there is verified, never downloaded over or overwritten;
  a complete entry goes on serving; a caller that keeps trying succeeds in the end.
* **Observation cache.** The temporary name is fixed by key and process id, and
  process ids repeat; runs are killed; two runs publish one key; the address
  does not pin the decoded samples. Correct means: an entry is whole and was
  accepted by the estimator; a hit analyses only such an entry, of the same
  shape; no two runs write one temporary; the cache fills.
* **Datasets and pools.** Removal and rename are separate calls on names that
  processes share; retries restart from whatever is left. Correct means: `Ok` only
  for the locked bytes; damage is repaired; a lock covers a complete pool.
* **C ABI.** Panics in the middle of an analysis, threads that fail at once,
  borrowed pointers. Correct means: each thread reads its own error for as long
  as documented; the engine is used by one thread at a time and never after a
  panic; every call returns.
* **Estimator.** Runs of quiet points that touch the end, chains of detections
  that replace one another, close boundaries, labels two runs both want to move,
  a dynamic program whose predecessor matters, two fingers over two sequences.
  Correct means: silences are exactly the long quiet runs; the strongest change of
  each kind survives in time order; sections begin at changes and count the beats;
  no label is lost; the alternative path is a best one and its difference from the
  selection is told exactly; segments and transitions follow the curve.
* **Experiment programs and recorders.** Any call may raise, the wall budget ends in
  the middle of an update, the process is killed, an input is replaced between its
  hash and its use, two runs are given one output. Correct means: whoever opens the
  directory later can tell from its files alone what happened and what was read;
  what is exported is what was selected.
* **Audits' computations.** Seams of chunks and windows, ties in assignments, paths
  merged in a dynamic program, missing measurements. Correct means: they return
  what their definition says.

`PROJECT.json` lists every hazard at its line with the properties that watch it.

## Modules

| module | models | lines up with the code |
|---|---|---|
| `ModelPackCache` | `ModelPackCache::fetch`, `verify` | one step per group of system calls on one path; `pc` follows `fetch_with` and `verify` in order; `Return` is the drop of `TempDir` on every return path |
| `PackStore`, `ModelPackCacheRefines` | what the cache promises, and the refinement mapping | a write-once store without files, stages or checks; the rename installs, the return answers, everything else is hidden |
| `ModelPackCacheAudit` | history variables over the cache | what a call saw, and what was there all through it |
| `ObservationCache` | `load`, `store` and `analyze_backend_case` | one step per system call; failure of any call leaves the case and the run, as `?` does; temporaries stay |
| `DatasetFetch` | `fetch_public_dataset`, `verify_asset`, `download_verified`, `download_once`, `replace_regular_file` for one asset | names and open files are separate: an unlinked or renamed inode stays what it was in an open descriptor |
| `AnalyzerAbi` | `ffi_ptr`, both constructors, `rhythm_map_analyze_pcm_json`, `rhythm_map_last_error`, `rhythm_map_analyzer_free` | `Enter` clears the error, `Leave` sets it; a panic unwinds through the guard (poison, unlock) to `catch_unwind` |
| `RhythmSections` | `TempoMapEstimator::estimate`: `find_silence_regions`, `prepare_observations`, `select_metrical_level`, `recover_short_transition_grids`, the detectors, `deduplicate_changes`, `build_sections` | each loop that carries state from one element to the next is an action per element; the other phases are one action each |
| `Downbeats` | `select_bar_level_downbeats`, `realign_boundary_downbeat` | runs as a set, the realignments as a fold in the code's order |
| `BeatHypotheses` | `beat_sequence_hypotheses`, `locally_varying_metrical_path`, `metrical_ambiguity_regions` and their helpers | the path's table is the code's, state by state, with its tie-breaking; the two fingers are a fold |
| `TempoOutline` | `simplify_curve`, `build_segments`, `segment_transitions`, `add_segment_transitions`, `detect_jumps` | recursion as a recursive function over pairs of knots |
| `BeatDecoder` | the shipped decoder of Beat This | peaks, running mean, snapping, candidates |
| `FitRecorder` | the recorded fit: `FitRecorder`, its scaled and protected subclasses, `ProtectedAdamW` and the `fit()` that drives them | one step per call; `live`, `optimizer`, journal and files are separate, as a kill finds them |
| `SeparatedFit` | the shared and the two separate trainers of `separated_evidence_fit` | one batch steps its trainers in turn |
| `ExperimentSteps`, `TempoPrograms`, `ClockPrograms`, `ParityPrograms`, `ExperimentRun` | forty-eight evidence programs | a program is its steps on files and inputs in the order of the code, with the range its `try` covers and what its handler catches and writes; `ExperimentRun` executes one or two of them |
| `ChunkGeometry` | cutting and joining of captures, contexts and readout windows | a frame is what it was computed from |
| `ClockInference` | exact inference of a latent clock (`presence_likelihood_audit`, `clock_boundary_audit`, `test_search_omission`) | forward and backward passes over the graph of ticks |
| `ClockProposals` | `clock_proposals`, `clock_phase_evidence`, `clock_proposal_diagnosis` | proposals per query, matching |
| `ClockMaps` | supplied clocks, recurrence queries and verdicts | exact arithmetic in parts of a cycle and a frame |
| `ClockGates` | measurements and comparison gates | `None` is a value that no comparison passes |
| `CountProtection` | gradient routing and protected displacement | integers, with rounding either way |
| `ResponseLedger`, `ResponsePackets` | response accounting, packets, windows, pairs | the ledger's table over ticks and first free responses |
| `TrainingLoop` | the seven unrecorded fits | one loop with a constant record per program |
| `PoolAcquisition` | `brid_pool_acquire` | one step per member and system call |
| `ExperimentLoops` | `FitRecorder`, `TrainingLoop`, `SeparatedFit` and `PoolAcquisition` | a behaviour runs one of the four |
| `Experiments` | `ExperimentLoops` and `ExperimentRun` | a behaviour runs programs or a loop; they share no state |
| `ExperimentAlgorithms` | all computed modules together | one action for each computation: a problem is asked and answered |
| `MC...` | TLC's instances: symmetry, process ids, bounded problems; `MCComputations` puts `ExperimentAlgorithms` and `RhythmSections` side by side | |
| `..._proofs` | theorems | see [Proofs](#proofs) |

### ModelPackCache

`entry` and each caller's `stage` are directories: a kind, a state for each file
(absent, good, bad, a link) and `dirty`, the files whose bytes a power failure
can still take. `Copy` writes and syncs an artifact; `WriteManifest` does not
sync, as `fs::write` does not, so the manifest alone stays dirty through the
rename until `WriteBack`. `Faults` chooses which failures and outside acts a run
allows. A killed caller's stage becomes an orphan under a random name that no
code looks up; it leaves the model with its owner.

### ObservationCache

`temp` is indexed by key and process id, not by run: two runs may share an id.
Every case of a run is one pass `load` → (`read` | `observe`) → `analyze` →
`store`. `passed` records what estimation accepted; entries and hits are judged
against it. All failures are bounded together by `MaxFaults`.

### DatasetFetch

`dest` and `part` are inode numbers; `bytes` and `owner` belong to inodes. A
second `File::create` on the shared temporary truncates the inode under the
first writer's descriptor: `CopyBody` of the first then leaves a hole. `met`
records that two fetches ever overlapped: what is promised to fetchers that do
not overlap is stated under `~met`.

### AnalyzerAbi

`broken` says that a panic left the engine half way; the code has no such flag,
it relies on the mutex's poison. `borrowed` follows the pointer a thread got.
The caller keeps the header's contract: it frees when no thread is in a call, it
gives its pointer up when it calls again. A panic of the constructor happens
before there is an analyzer.

### The estimator: RhythmSections, Downbeats, BeatHypotheses, TempoOutline

In `RhythmSections` times are integers in milliseconds, with the code's windows at
their scale. `Quiet` and `Loud` are the iterations of the silence loop, `Prepare`
the end of it with the rejection of beats and the metrical level, `Detect`
everything that may propose a change; `Strengthen`, `Absorb` and `Keep` are the
three branches of `deduplicate_changes`; `Cut` and `Skip` the two of `dedup_by`.
It leaves open, as data, at which eligible points of the tempo curve jumps and
ramps are found, how every detection scores, whether half time is selected, and
which beats a recovered transition gets.

The other three compute what it leaves open, as far as it is not signal statistics.
In `Downbeats` which phase of a run is louder, whether by the ratio, and which of
two beats is louder are open: `select_bar_level_downbeats` is the set of all results.
In `BeatHypotheses` times, confidences and harmonic weights are integers and what an
interval after another costs is a table; the path is the one the code finds, ties
included. In `TempoOutline` logarithms are integers in thousandths of an octave.

### FitRecorder and SeparatedFit

Weights are the number of updates they hold, or `Mixed` for tensors half moved. A
failure enters the handler with whatever the failing call left; the handler may fail
again. `truth` keeps the weights each boundary really had and is only compared with.

### The experiment programs

A step checks (`Same`), hashes, reads, makes a directory, opens a file exclusively,
writes it, or computes; loops over cases, arms and recordings are one case. The
versions of what was read and hashed are compared in the end (`loose`). A run raises,
is interrupted or is killed at any step, and either a second run has the same output
or one input is replaced under its name at any moment.

### ExperimentAlgorithms

Each computed module is a library of pure operators. A state of `ExperimentAlgorithms`
holds a problem and then its answer; the properties compare the answer with a
definition of what it should be, written differently from the code: all paths
instead of a table, all matchings instead of a recurrence, the whole recording
instead of its chunks.

## Runs

States are distinct states; every passing run is exhaustive within its bounds.

| run | question | instance | states |
|---|---|---|---|
| `PackFaults` | Do published entries, answers and what calls rely on stay right through every failure, and is it all a write-once store? | 2 callers, 1 artifact, all nine faults, 1 crash or power failure | 227 579 |
| `PackInstalls` | Do persistent callers install the pack over a bad network and a crash, and does a complete entry go on serving? | 2 callers, 2 artifacts | 5 200 |
| `PackEmptyEntry` | Is an empty entry that appears during a download left alone? (no) | 1 caller, an outsider's `mkdir` | violation |
| `ObservationRaces` | Do entries and hits stay judged, and does the cache fill? | 3 runs, two with one process id, 1 key, 2 shapes, 1 fault | 199 915 |
| `FetchRepairs` | Are apart fetchers exact, and is the damage of overlapping ones repaired? | 2 fetchers, 2 attempts, 2 faults | 397 390 |
| `FetchTogether` | Does `Ok` mean the locked bytes when fetchers overlap? (no) | 2 fetchers, 3 attempts, no faults | violation |
| `AbiThreads` | Own errors, a sound engine, calls that return | 3 threads, 2 calls each | 70 682 |
| `Computations` | Do the computations return what they should, and are silences, changes and sections of every small recording right? | see below; recordings of 2 durations, 6 envelope points, 7 beat times, 2 scores, up to 2 tempo changes | 1 324 922 |
| `SectionsToTheEnd` | Do the sections reach the end of the audio? (no) | 1 duration, 6 beat times | violation |
| `ChangesTogether` | Are changes of one kind within 0.75 s merged? (no) | 1 duration, 7 beat times, up to 1 tempo change | violation |
| `PathDuplicates` | Is the alternative path left out when it duplicates the selection? (no) | the hypothesis problems of `Computations` | violation |
| `Experiments` | Do the files of each of forty-eight programs say whose they are and what they rest on? Do fits and acquisitions keep their promises, and do their files tell what happened, through raises, kills and spent budgets? | 2 runs of one program, or 1 run and one replaced input; 3 epochs of 2 batches, 2 recordings each, 2 or 3 losses; 3 members, 3 runs | 439 573 |

`Computations` and `Experiments` each hold parts that share no state: a behaviour chooses one
of them at the start and the others stand still, so that the states of the parts add up and
do not multiply.

Every property of a passing run has a mutant in `PROJECT.json`: a plausible slip
in a mapped definition (a sync forgotten, a guard dropped, a loop one too long, a
digest taken for a length, a step charged for the wrong interval) under which TLC
finds that property violated.

What each property of `Computations` compares, beside those of `RhythmSections` on recordings:

| property | of | with |
|---|---|---|
| `WholeFromPieces` | recordings of 1 to 52 frames in chunks of 7 with border 2 | encoding the whole at once |
| `InferenceIsExact` | evidence over 4 or 5 frames, two periods, two metres | the sum and the maximum over all paths |
| `ProposalsFollowEvents` | events on 8 sites, all gap-bounded subsets | the events an extrapolated tick must come from |
| `GreedyIsLargest` | predicted and reference events on 5 sites, three tolerances | a cover of as many events as there are pairs |
| `MatchingIsExact` | ticks and responses on a few sites | all matchings, the optimal ones counted |
| `CountNeverIncreases` | steps of three parameters in two groups | the sign of the exact product, for every rounding |
| `ComparisonsAreSound`, its part `GatesAreFair` | measurements with missing cells, gates with one cell missing or better | what the reference requires; monotonicity |
| ... its part `ClockMapsAgree` | clocks with a change, silence and a seam; pairs of windows | inverses; the same clock counted from another beat; exchange of truth |
| `ReferenceIsDecoder`, `WindowsOwnResponses` | all logits of 7 frames with 3 values, repeated motifs over three windows | the shipped decoder; each response in one window |
| `DownbeatsSurvive` | labels on any of 10 beats, and three runs with 1, 3, 4 or 5 beats between them | the labels before: none lost, reordered or moved by more than a beat |
| `AmbiguityIsExact` | candidates on any of 9 sites, 4 harmonies, 3 backend sequences, with and without half time | all paths in the tempo range, one left out without need only after half time (see `PathDuplicates`); the difference of selection and path as two sets |
| `OutlineFollowsCurve` | all curves of 1 to 6 intervals of 4 tempi, and of 7 of 3 | the tolerance at every point; all groups of ramps |

Why the bounds are enough:

* *Callers, runs, fetchers, threads.* Two callers already meet at both checks and
  at the rename. Three runs are two that share a process id and one that does not.
  Two fetchers collide at every name; three threads give one that panics, one that
  waits at the mutex and one that is outside with a borrowed error.
* *Artifacts.* One in `PackFaults`, with every fault; two in `PackInstalls`: a first
  that succeeds and a later one that fails. The theorems are for any number.
* *Faults.* One crash or power failure per behaviour in the cache runs: recovery
  keeps no state that a second could find half done, since every call starts from
  the entry alone. Failing calls and downloads in the model-pack runs are not
  bounded. `FetchRepairs` has two faults because a failed attempt and a crash of
  the next fetch is the shortest way to a leftover with a different writer, and two
  attempts instead of the code's three: a first and a last.
* *Envelopes and beats.* Hop 500 ms and `MinimumSilence` 800 ms separate one
  quiet point from two, at both edges; the recording of 2 700 ms clips its last
  span. Beats sit close (250 ms) at both ends with a gap between, so that gaps,
  silences, jumps and the two ends of the recording fall into one another's
  windows of 750 and 500 ms. `FewestToHalve` is 6 and `FewestOnGrid` 3 where the
  code has 8 and 6, so that half time and recovery happen with seven beats.
* *Downbeats, hypotheses, outlines.* `FewestInRun` is 3 where the code has 6,
  `FewestEvents` 4 for 8, `FewestAdditions` 2 for 3, `BridgeBeats` 2 for 6 and
  `JumpDuration` 1.5 s for 4 s: each is small enough that several runs, regions or
  transitions fit in one problem and large enough that a too short one exists. The
  costs of a turn make the best path depend on the interval before the last.
* *Epochs and batches.* Three epochs let a tie and a later worse epoch follow a best
  one; two batches and two recordings give a first and a last of each.

`CHECK_DEADLOCK FALSE` stands where the system stops: the threads of `AbiThreads`
have used up their calls, an analysis is done in `SectionsToTheEnd` and
`ChangesTogether`, a fit or a program in `Experiments` has ended, and in `Computations`
and `PathDuplicates` a problem is answered or an analysis done. Callers, runs and fetchers can always start again.

## Fairness

* `ModelPackCache.PersistentSpec` (`PackInstalls`) assumes weak fairness of each
  caller's own steps, as the operating system schedules processes and the HTTP
  agent's timeouts end a download that hangs, and callers that come back for ever
  with downloads that, tried for ever, succeed some time (strong fairness). Failure
  steps are part of a caller's step, so fairness alone promises no success. Only
  downloads and processes fail there. Nothing in the code retries;
  `EventuallyInstalled` is about users who do, and shows that no failure leaves a
  state from which trying again cannot succeed.
* `ObservationCache.FairSpec`: runs are scheduled, and every case is evaluated
  again and again. Failures are finitely many.
* `DatasetFetch.FairSpec`: processes are scheduled. That somebody runs the
  command again, and that nobody else does, is the antecedent of
  `LoneFetcherRepairs`, not an assumption.
* `AnalyzerAbi.FairSpec`: threads are scheduled and inference ends. The mutex
  need not be fair: each thread makes finitely many calls.

The other models have safety properties only: they are sequential, or a kill may end
them at any step.

## Proofs

Proved with TLAPS for every value of the constants, under the named assumptions
of the modules: bounds are natural and windows positive; the values that stand for
something absent (`MissingAssumption`, `NotYetAssumption`, `NoneAssumption`) are none
of the records or numbers they are compared with; lengths are natural and the coordinates
of gradients and steps integers (`LengthsAssumption`, `VectorAssumption`); the groups are
a finite division of the parameters (`GroupAssumption`); the answer that stands for a lost
count is no list of vectors (`UnderflowAssumption`); a missing label is no beat and a missing
measurement no number (`UnlabelledAssumption`, `AbsentAssumption`); numbers of beats and
frames are natural, scores and errors integers, a counting interval is not empty and the
margin of a verdict not negative (`LabellingAssumption`, `FramesAssumption`,
`ScoresAssumption`, `LagAssumption`, `MarginAssumption`); times are counted in a grain every
period divides (`GrainAssumption`: the code has fractions there, the model integers) and a
clock of too many ticks is none (`BudgetAssumption`); and
`ProgramsAssumption`. That one
has no constant in it: it says of the forty-eight step sequences, which are all
written out, what order their writes, guards and hashes are in, and TLC decides it by
evaluating it in the run. The proofs of `ExperimentRun` rest on it instead of opening
the sequences up, so they would hold for any further program that satisfies it.

| module | theorems | argument |
|---|---|---|
| `ModelPackCache_proofs` | `TypeCorrect`, `ArtifactsArePublished`, `OkIsInstalled`, `StagesAreRemoved`, `EntriesAreWriteOnce` | `IndInv`: by its `pc` and loop counter a caller knows how far its stage is good (`StageInv`), so that what the rename publishes is complete; an untouched entry can lose nothing but its manifest (`EntryInv`); having read a good manifest in an untouched entry means the entry is complete and cannot lose it while the call runs (`AnswerInv`) |
| | `CacheImplementsStore`, `OkRestsOnThisCall`, `WhatIsThereIsVerified`, `CompletePacksServe` | the refinement step by step under `IndInv`: steps inside a call are hidden, rename installs, return answers, a power failure or outsider is the store's. The audit theorems from `AuditInv`: what a call has seen by each of its steps (`KnownInv`), and that an entry there all along was looked up as there (`PresentInv`). `CompletePacksServe` goes through the steps that can answer "err": with a complete entry each is shut out by what `IndInv` says the caller has seen |
| `ObservationCache_proofs` | `TypeCorrect`, `EntriesAreJudged`, `HitsAreJudged`, `CacheStaysJudged`, `TempsHaveOneWriter` | what a run knows of its case (`RunInv`): past the analysis its observations were accepted, between `create_new` and the rename its temporary holds them and is its own, at the rename it is synced |
| `DatasetFetch_proofs` | `ApartFetchersAreExact` | `ApartInv`, stated while fetchers have not met: the one under way writes under the temporary name only, which is not the destination's file, and by its `pc` knows what it has verified |
| `AnalyzerAbi_proofs` | `TypeCorrect`, `ErrorsAreOwn`, `BorrowedErrorsLive`, `EngineStaysSound` | in an operation the thread's slot is clear (`ClearInv`); the mutex is held exactly during an analysis and a broken engine's mutex is poisoned (`LockInv`); no thread can wait while an engine is made (`LifeInv`), so the fresh flag never meets an old waiter |
| `RhythmSections_proofs` | `TypeCorrect`, `SilencesAreQuietRuns`, `StrongestOfEachKindSurvives`, `ChangesAreInOrder`, `CloseChangesAreKeptApart`, `NoSectionIsShort`, `EveryChangeIsCut` | `ScanInv`: the regions so far are the long quiet runs that end before the scan, and the open run is the one it stands in; `MergeInv`: everything kept is at or before everything to come, which makes replacing the last change safe for order and distance; `CutInv`: retained boundaries precede those to come, are a window apart, and every boundary taken is retained or close after one that is |
| | `EveryBeatIsCounted` | `CountInv`: the retained boundaries are finitely many and the sections are those between neighbours. Neighbours enclose no boundary, so that sections share no beat, and a beat between two boundaries is between two neighbours; that the counts of disjoint sections add up is an induction over sets of sections (`CountsAddUp`) |
| `ExperimentLoops_proofs` | `RecorderIsInductive`, `BoundariesStayOnDisk`, `WritesStayCovered`, `FailuresTellTheTruth`, `ReportsAreComplete` | `RecorderInv`: by the step it stands at, the fit knows what the weights in memory are (`LiveInv`), which snapshots and journal entries are on disk and what they hold (`DiskInv`, `JournalInv`), that whatever was written since is covered by the last boundary (`CoverInv`), and what the handler may say of it (`TellInv`); the selection and the report follow the journal (`SelectInv`, `ReportInv`) |
| | `TrainingIsSound` | weights are those of the epochs entered and the batches since (`ProgressInv`), every entry is of the epoch it says (`EntriesInv`), the candidate is the earliest least admissible entry (`BestInv`, over the lemma `LeastOf`) |
| | `SeparatedFitIsSound` | each trainer has entered and returned as many updates as its turn says (`CountInv`), each keeps the least and earliest of its own development losses (`ChoiceInv`), and its checkpoints bracket its receipts (`BracketInv`) |
| | `PoolIsSound` | the members behind a run are good (`BehindInv`), which is what a lock rests on; only a verification runs over a lock (`LockInv`); the next request is due an interval after the last (`DueInv`); no member is asked for twice in a run (`AskedInv`) |
| | `LoopsAreSafe` | whichever of the four a behaviour runs keeps its invariant and the others have not begun (`LoopsInv`): all seven properties the run `Experiments` checks of them |
| `ExperimentRun_proofs` | `ReportsAreOfOneRun`, `EvidenceIsNeverChanged` | `FilesInv`: every file has one writer, who has begun the output (`WriterInv`); two runs of one program cannot both have begun it, since each begins with making what must not exist; what a run has passed is whole and its own, what lies ahead is not there (`DoneInv`, `PlaceInv`) |
| | `ResultsAreAccountedFor` | what a run made, it made by a step so far (`MadeInv`), so that leaving the program outside its try leaves a report or nothing but the preamble; an audit past its checks has a whole report under it, and a capture whose try fails has none (`AuditInv`) |
| | `ReportsRestOnTheirHashes` | `ReadInv`: only the replaced thing is ever met in its new version, what was seen was seen by a step so far, a hash kept in the new version before anything was read excludes having read the old one, and after the step that settles an input what was seen of it is what is kept |
| `ExperimentAlgorithms_proofs` | `PiecesMakeTheWhole` | `PiecesInv`: the answer to a length is the computation for it. Where a piece starts and what its neighbours leave to it makes every frame owned by exactly one piece (`SplitAt`, `FrameIsOwned`), and that piece reaches as far around the frame as the encoder would in the whole recording; the same for the MusicFM contexts, whose plan is shown admissible (`PlanIsAdmissible`), and for the readout windows |
| | `UpdateIsProtected`, `RoutingHolds`, `CountIsProtected` | `ProtectionInv`, `RoutingInv`: what is asked are integer vectors. What one group becomes does not work against the count and leaves the other groups alone (`GroupIsProtected`: the projection through the rounding and the veto), so that by the order of the groups each of them ends protected (`ProtectionHolds`) and the whole, a sum of disjoint groups, too (`DisplacementHolds`); a routed group keeps the square of the count whichever way the phase points (`GroupIsRouted`) |
| | `GreedyMatchingIsLargest`, `GreedyLosesNothing` | `MatchingInv`. That no matching is larger is shown by a cover: events that touch every pair in reach, as many as there are pairs. What the matching has decided from a place on is covered by as many events as it pairs from there (`Covered`), and each of its steps, pairing or skipping one event, keeps that (`MovesAreCovered`): an event is skipped only when all in reach of it are behind |
| | `NoLabelIsLost` | `DownbeatsInv`. A kept label stands on its beat or has been brought beside it by one of the realignments so far (`Stand`), and no two realignments move the same label or bring one to the same place, because what lies beyond one run is in no other (`BeyondIsFree`, `OnePairMovesIt`); so each of them keeps the standing of all (`RealignStands`) |
| | `MapsTurnBack` | `MapsInv`, `VerdictInv`. On either side of the change the map is linear with the period that divides the grain (`ClockIsLinear`, `TimesTurnBack`). Counting from another beat shifts all phases by one number (`MovedIsShifted`), which the recurrence does not see (`BackStands`, `PlanStands`, `WindowStands`); a tick's number is the quotient of what is behind it, so that it is inside (`TicksAreInside`); a density is decided only of a shape that won, and of two exchanged windows at most one can win by a margin (`ShapeIsWon`) |
| | `MeasureIsComplete`, `GatesHold`, `ComparisonsHold` | `MeasureInv`, `GatesInv`. The difference of two running counts of what is missing is zero exactly when nothing between them is (`NothingMissing`); a sum of what is there is a number, so never mistaken for a missing one. Every clause of the gates either hears a value itself or needs a mean that does (`GateHears`); a sum falls with its terms (`MeansEase`) and what regressed in a better table regressed before, so each clause goes on holding (`GateEases`). `ComparisonsHold` joins `GatesHold` and `MapsTurnBack` |

The protocols' properties are not inductive by themselves. `OkMeansInstalled`, for
example, is preserved by the last step of `verify` only because of what the
earlier steps have read, and `ChangesInOrder` by `Strengthen` only because the
detections still to come are later than all that is kept.

Induction over data goes by the smallest counterexample: the library's `WFMin` gives a
least element of a non-empty set under a well-founded order, here sets under strict
inclusion, and takes no operator as a parameter as its induction theorems do. A sum
written with a fold is unfolded to the recursive function it chooses, that function is
shown to exist, and a smallest set on which it is wrong leads to a contradiction.

Only model-checked: every liveness property (`EventuallyInstalled`,
`CachedOrBlocked`, `LoneFetcherRepairs`, `CallsReturn`), which with `ENABLED` is
beyond this prover; and seven of the properties of `ExperimentAlgorithms`
(`InferenceIsExact`, `ProposalsFollowEvents`, `MatchingIsExact`, `ReferenceIsDecoder`,
`WindowsOwnResponses`, `AmbiguityIsExact`, `OutlineFollowsCurve`). Their answers
come out of tables and recursive functions over sequences (the lattice of the inference, the
matching of responses, the candidate path, the outline's simplification) compared with a
search over all paths or matchings. That a table attains what the search finds is for each of
them an induction of its own over the table, by the smallest counterexample as above, and not
done; the folds over sequences among them (`InferenceIsExact`, `AmbiguityIsExact`,
`OutlineFollowsCurve`) would also need the order in which a table is filled.

## Disagreements

Each is a run that expects a violation, with the trace it finds.

1. `PackEmptyEntry`. `cache.rs:138` promises not to replace "even an
   empty/incomplete" entry that appeared during a download. The check and the
   rename are two calls and `rename(2)` replaces an empty directory. Anything but
   an empty directory is never replaced (`NonemptyEntryUntouched`, proved).
2. `FetchTogether`. `public_dataset.rs:256` promises an error for content that
   does not match the lock. Two processes in one output directory share
   `.<name>.part`: one truncates the file the other has just verified, which is
   then renamed into place and reported as success.
3. `SectionsToTheEnd`. `docs/ALGORITHM.md` makes the audio end a section
   boundary. `dedup_by` removes the later of two close boundaries, and the end is
   the latest: a change in the last half second, such as the middle of a trailing
   silence of 0.8 to 1 s, leaves the rest of the recording in no section.
4. `ChangesTogether`. `docs/ALGORITHM.md:671`: "Same-kind detections within 0.75 seconds
   are merged, retaining the strongest." `deduplicate_changes` compares each detection with
   the last change it kept, whatever its kind. A silence inside a gap between beats gives
   two discontinuities, at the middles of both, and a tempo jump between the two keeps
   them apart. This is the only exception (`CloseChangesAreSeparated`, proved).
5. `PathDuplicates`. `docs/ALGORITHM.md:294` says of the locally varying path "It is
   omitted when it duplicates the selected sequence." The code compares it with the
   beats before half time (`hypothesis_source`, cloned before `select_metrical_level`).
   After half time a path equal to the selection is published as an interpretation of
   its own, without any ambiguity region; and one equal to the backend's beats is dropped
   although it differs from the selection. `AmbiguityIsExact` claims neither: what it
   says of a path that is left out it says without half time, where the two sequences
   are one, and the rest it says of whatever path is published.

## Observations

Behaviour the models show, or that came up while they were written, and that no run
holds against the code.

Caches and acquisition:

* Orphaned `.download-XXXXXX` stages of killed callers are never removed.
* `manifest.json` is not synced before the rename. After a power failure a
  published entry can hold a damaged manifest, and every later fetch then fails
  until somebody removes the entry: the price of never repairing in place.
* A leftover `.<digest>.<pid>.tmp` stops that process id from ever storing that
  key, and each case of such a run that misses it fails. Where every run is
  process 1 of a container, one failed store is enough. `CachedOrBlocked` names
  this as the only way for the cache not to fill.
* A leftover `.part` of the BRID pool makes every later run fetch that member again
  and then fail at `open("xb")`; a kill while `lock.json` is written leaves a torn
  lock that neither acquisition nor `--verify-only` accepts. The interval between
  requests is kept within a run only.

Estimator:

* In `deduplicate_changes` a chain of ever stronger detections slides along, and what it
  merges may lie more than 0.75 s apart.
* Beats that `recover_short_transition_grids` inserts are not compared with the
  silence regions; a recovered beat may lie in a span whose backend beats were
  rejected. If the next beat of the grid lies beyond the end of the transition while
  a beat just before it is within tolerance, beats are removed without replacement.
* When two selected runs of downbeats are neighbours 3 or 5 beats apart, the end of
  the first may move the first downbeat of the second, whose beginning then counts
  from its old place and moves the last of the first: the distance goes from 3 to 5
  or from 5 to 3 instead of becoming 4.
* `detect_jumps` needs two points before a step but three from it on: a step two
  points before the end of the curve is reported by segment transitions only. Two
  constant segments in a row between ramps are not bridged, however short.

Recorders and experiment programs:

* An interrupt between the swap of the optimizer's state and
  `committed_steps += 1` (`boundary.py:220`) leaves new weights uncounted and no
  rollback; one between `optimizer.step()` and `returned_updates += 1` of the
  separated trainers leaves weights one update ahead. `fit.json` may stand beside a
  later failure when the budget ends after it is written. A constructor that fails
  after `mkdir` leaves a directory without a failure record.
* `Held` lists, program by program, which inputs a report may be held to. The others
  are hashed and opened again by name, or hashed after they were read
  (`compare_reference`, `candidate_evidence_audit`): for them a replacement in
  between goes unnoticed.
* Several programs take steps after the report inside their `try`, so that a whole
  report and a failure record can coexist; `tempo_pairs`, `tempo_alignment` and the
  MusicFM workers write the report after the `try` and may leave neither; audits that
  dump into an exclusively opened report leave a partial one that blocks later runs.

## Limits

* A step of `ModelPackCache` is a group of calls on one path (the removal of a
  stage, the reads of one artifact); outsiders act between steps. `verify` reads
  artifact by artifact, which `OkWasWitnessed` is about.
* `verify_asset` of the dataset fetch, which hashes a file, and `try_exists` of
  the store are single steps. The plain download stands for the ZIP members too,
  which share temporary names and replacement but read ranges. Nobody puts a symbolic link
  at the destination or the temporary name there: the refusals of links in `verify_asset`
  (`public_dataset.rs:580-585`), `download_verified` (603) and `replace_regular_file`
  (1092), each an error before anything is written, are left out.
* The observation cache's entry, once renamed from a synced file, does not revert
  on a power failure; the directory entry is not synced by the code. A reverted
  rename would be a missing entry, which the next run fills again, or a leftover.
* Data is abstract: digests, manifests, observations, PCM, losses, weights and
  messages are members of small sets or counts. That SHA-256 and serde do what they
  say is assumed.
* The estimator's models cover the shipping policy, not the
  `experimental-policies` feature; activity points are a uniform hop apart, as
  `engine.rs` makes them; midpoints are rounded to milliseconds in `RhythmSections`,
  whose proofs rely on the order of times only. Curves in `TempoOutline` are those of
  beats as far apart as their tempi say: smoothing and repair are left out. In
  `BeatHypotheses` the selection is taken before transition grids are recovered, and
  the hypotheses' scores are left out.
* Computations in floating point are modelled with integers or exact fractions. Where
  rounding decides something it is a choice (`CountProtection`'s stored values,
  `BeatDecoder`'s reading of a time); elsewhere exactness is assumed.
  `ChunkGeometry`'s properties hold for encoders that reach no further than the
  border.
* Of `oracle_period_paired_audit` the clocks are modelled, with a budget of 9 ticks for the
  code's 128 that problems of the run exceed, and not the comparison of beat and downbeat
  counts (`relation`, lines 134-146). Problems are those that `clock`'s precondition admits.
* In `ExperimentRun` one input is replaced once; a replacement that is undone before
  the second hash is not detected by the programs either. Programs import modules
  before they hash them, which is not modelled. The parent of a MusicFM worker only
  waits and kills. `gradient_audit`'s second failure file is left out.
* Concurrent acquisitions of one BRID pool are not modelled; the script does not
  support them.
* Not modelled: inference, resampling and rendering (external or signal processing),
  neural modules and losses, CLI and WASM wiring, importers, metrics and their
  summaries, examples and the packager (sequential conversions and statistics),
  BeatNet. The reasons stand with each component in `PROJECT.json`. Hazards known and
  left without a property: the files of a pack are verified by name and opened again
  by name (`rhythm-map-ffi/src/lib.rs:72`); grid beats in silences
  (`estimator.rs:184`); an analyzer freed during a call, which the header forbids; a
  digest memoised for the life of the audio resolver (`dataset.rs:104`); the packager's
  output directory after a failure.

## Plan

Done: the model-pack cache with its abstract store; the observation cache; the
dataset fetch; the C ABI; the estimator's silences, changes and sections, its
downbeats, hypotheses and outline; the fit recorders; the evidence programs; the
audits' computations, the training loops and the pool; proofs as listed above.

Next, most important first:

1. **Transition grids and smoothing** (`estimator.rs` 1169–1340, 2070–2302): with both,
   `TempoOutline` would start from beats instead of tempi, and how close recovered
   beats come to those that stay could be asked.
2. **A pack and its reader**: `ModelPackCache` composed with the constructor that
   verifies by name and then opens by name.
3. **The sequence path of Beat This** (`lib.rs` 695–975) and **BeatNet's decoders**
   against exhaustive search.
4. **Proofs of the tables**: the response matching's recurrence, the candidate path and the
   decoder's lattice attain the best of all, by the method of `ExperimentAlgorithms_proofs`.
