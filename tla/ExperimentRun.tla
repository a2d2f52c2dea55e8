---------------------------- MODULE ExperimentRun ----------------------------
(***************************************************************************)
(* The evidence programs, run: every step may raise, an interrupt may      *)
(* arrive, the process may be killed; either a second run was given the    *)
(* same output, or one of the things that are read is replaced under its   *)
(* name while the program runs.  Whoever opens the directory afterwards    *)
(* has only the files: what is there has to say by itself what it is.      *)
(***************************************************************************)
EXTENDS TempoPrograms, ClockPrograms, ParityPrograms, FiniteSets

CONSTANTS Runs, None

Programs ==
    [tempo_pairs |-> TempoPairs, tempo_alignment |-> TempoAlignment,
     relative_tempo |-> RelativeTempo, local_prepare |-> LocalPrepare, local_tempo |-> LocalTempo,
     tempo_variation |-> TempoVariation, tempo_conflict |-> TempoConflict,
     source_design |-> SourceDesign, source_prepare |-> SourcePrepare,
     source_capture |-> SourceCapture, source_audit |-> SourceAudit,
     tempo_attribution |-> TempoAttribution,
     readout_prepare |-> ReadoutPrepare, readout |-> ReadoutMain,
     coupled_prepare |-> CoupledPrepare, coupled |-> CoupledMain,
     trajectory_register |-> TrajectoryRegister, trajectory |-> TrajectoryMain,
     clock_evidence |-> ClockEvidence, phase_register |-> PhaseRegister, phase_sync |-> PhaseSyncMain,
     scaled_register |-> ScaledRegister, scaled |-> ScaledMain,
     protected_register |-> ProtectedRegister, protected |-> ProtectedMain,
     separated_register |-> SeparatedRegister, separated |-> SeparatedMain,
     phase_attribution |-> PhaseAttribution, audit_register |-> AuditRegister,
     gradient_audit |-> GradientAudit,
     fidelity |-> FidelityWorker, compat |-> CompatWorker, temporal |-> TemporalWorker,
     negative |-> NegativeWorker, paired |-> PairedWorker, availability |-> AvailabilityAudit,
     inventory |-> CheckpointInventory, loader_probe |-> LoaderProbe,
     prehead_capture |-> PreheadCapture, prehead_recurrence |-> PreheadRecurrence,
     native_pcm |-> NativePcm, compare_reference |-> CompareReference,
     dense_sequence |-> DenseSequence, dense_clock |-> DenseClockEvidence,
     candidate_evidence |-> CandidateEvidence, clock_proposal |-> ClockProposal,
     clock_diagnosis |-> ClockDiagnosis, brid_reference |-> BridReference]
Names == DOMAIN Programs

Touched(name, ops) ==
    LET steps == Programs[name].steps
    IN  UNION {steps[i].on : i \in {j \in DOMAIN steps : steps[j].op \in ops}}
ThingsRead == [name \in Names |-> Touched(name, {"use", "take", "read"})]
FilesOf ==
    [name \in Names |-> Touched(name, {"fresh", "make", "put", "over", "log", "found"})
                          \cup {Programs[name].record, Programs[name].report}]

\* Two runs of one program; the audit of a capture works in the capture's directory.
Pairs == {<<n, n>> : n \in Names} \cup {<<"source_capture", "source_audit">>}

VARIABLES
    program,  \* what each run executes
    disk,     \* the output: its directory and the files in it
    drifted,  \* the thing that was replaced, if one was
    run       \* where each run is, the versions it hashed last and the versions it read
vars == <<program, disk, drifted, run>>

Current(things) == {<<x, IF drifted = x THEN "changed" ELSE "registered">> : x \in things}

Quiet(state) == [state |-> state, at |-> 0, half |-> FALSE, kept |-> {}, seen |-> {}]
Begun == [Quiet("running") EXCEPT !.at = 1]

\* A file: who wrote it, whether it is whole, whether it says that the run failed, and
\* the things that were read in a version whose hash it does not carry.
FileOf(by, whole, failed, loose) == [by |-> by, whole |-> whole, failed |-> failed, loose |-> loose]
Whole(r) == FileOf({r}, TRUE, FALSE, {})
Part(r) == FileOf({r}, FALSE, FALSE, {})
Exists(f) == f \in DOMAIN disk /\ disk[f] # None
IsWhole(f) == Exists(f) /\ disk[f].whole

\* Bound: a second run of the program contends only when nothing is replaced.
Init ==
    \E pair \in Pairs, first \in Runs, together \in BOOLEAN :
        /\ program = [r \in Runs |-> IF r = first THEN pair[1] ELSE pair[2]]
        /\ disk = [f \in FilesOf[pair[1]] \cup FilesOf[pair[2]] |-> None]
        /\ drifted = None
        /\ run = [r \in Runs |-> IF r = first \/ together THEN Begun ELSE Quiet("absent")]

Code(r) == Programs[program[r]]
Running(r) == run[r].state = "running" /\ run[r].at \in DOMAIN Code(r).steps
At(r, op) == Running(r) /\ Code(r).steps[run[r].at].op = op
Here(r) == Code(r).steps[run[r].at].on
File(r) == CHOOSE f \in Here(r) : TRUE
Advance(r) == run' = [run EXCEPT ![r].at = @ + 1, ![r].half = FALSE]
Keep(r) ==
    run' = [run EXCEPT ![r].at = @ + 1,
                       ![r].kept = {k \in @ : k[1] \notin Here(r)} \cup Current(Here(r))]
See(r) == run' = [run EXCEPT ![r].at = @ + 1, ![r].seen = @ \cup Current(Here(r))]
KeepAndSee(r) ==
    run' = [run EXCEPT ![r].at = @ + 1, ![r].seen = @ \cup Current(Here(r)),
                       ![r].kept = {k \in @ : k[1] \notin Here(r)} \cup Current(Here(r))]

CheckFresh(r) ==
    /\ At(r, "fresh")
    /\ disk[File(r)] = None
    /\ Advance(r)
    /\ UNCHANGED <<program, disk, drifted>>

\* Mutant: mkdir(exist_ok=True).
MakeDirectoryAgain(r) ==
    /\ At(r, "make")
    /\ disk' = [disk EXCEPT ![File(r)] = IF @ = None THEN Whole(r) ELSE @]
    /\ Advance(r)
    /\ UNCHANGED <<program, drifted>>

MakeDirectory(r) ==
    /\ At(r, "make")
    /\ disk[File(r)] = None
    /\ disk' = [disk EXCEPT ![File(r)] = Whole(r)]
    /\ Advance(r)
    /\ UNCHANGED <<program, drifted>>

\* Mutant: open('w').
OpenNewOver(r) ==
    /\ At(r, "put")
    /\ ~run[r].half
    /\ disk' = [disk EXCEPT ![File(r)] = Part(r)]
    /\ run' = [run EXCEPT ![r].half = TRUE]
    /\ UNCHANGED <<program, drifted>>

OpenNew(r) ==
    /\ At(r, "put")
    /\ ~run[r].half
    /\ disk[File(r)] = None
    /\ disk' = [disk EXCEPT ![File(r)] = Part(r)]
    /\ run' = [run EXCEPT ![r].half = TRUE]
    /\ UNCHANGED <<program, drifted>>

OpenOver(r) ==
    /\ At(r, "over")
    /\ ~run[r].half
    /\ disk' = [disk EXCEPT ![File(r)] = Part(r)]
    /\ run' = [run EXCEPT ![r].half = TRUE]
    /\ UNCHANGED <<program, drifted>>

\* The report carries the hashes that were kept; the other files carry none.
Unhashed(r) ==
    IF File(r) = Code(r).report THEN {v[1] : v \in run[r].seen \ run[r].kept} ELSE {}
FinishFile(r) ==
    /\ Running(r)
    /\ run[r].half
    /\ disk' = [disk EXCEPT ![File(r)] = FileOf({r}, TRUE, FALSE, Unhashed(r))]
    /\ Advance(r)
    /\ UNCHANGED <<program, drifted>>

AppendLine(r) ==
    /\ At(r, "log")
    /\ disk' = [disk EXCEPT ![File(r)] =
                  FileOf(IF @ = None THEN {r} ELSE @.by \cup {r}, TRUE, FALSE, {})]
    /\ Advance(r)
    /\ UNCHANGED <<program, drifted>>

ReadOwn(r) ==
    /\ At(r, "found")
    /\ IsWhole(File(r))
    /\ Advance(r)
    /\ UNCHANGED <<program, disk, drifted>>

CompareRegistered(r) ==
    /\ At(r, "pin")
    /\ drifted \notin Here(r)
    /\ Keep(r)
    /\ UNCHANGED <<program, disk, drifted>>

KeepHash(r) ==
    /\ At(r, "note")
    /\ Keep(r)
    /\ UNCHANGED <<program, disk, drifted>>

\* Mutant: the kept hash is never compared.
CompareNothing(r) ==
    /\ At(r, "same")
    /\ Advance(r)
    /\ UNCHANGED <<program, disk, drifted>>

CompareKept(r) ==
    /\ At(r, "same")
    /\ Current(Here(r)) \subseteq run[r].kept
    /\ Advance(r)
    /\ UNCHANGED <<program, disk, drifted>>

ReadContent(r) ==
    /\ At(r, "use")
    /\ See(r)
    /\ UNCHANGED <<program, disk, drifted>>

ReadVerified(r) ==
    /\ At(r, "take")
    /\ drifted \notin Here(r)
    /\ KeepAndSee(r)
    /\ UNCHANGED <<program, disk, drifted>>

ReadAndHash(r) ==
    /\ At(r, "read")
    /\ KeepAndSee(r)
    /\ UNCHANGED <<program, disk, drifted>>

PrintLine(r) ==
    /\ At(r, "say")
    /\ Advance(r)
    /\ UNCHANGED <<program, disk, drifted>>

Return(r) ==
    /\ run[r].state = "running"
    /\ run[r].at = Len(Code(r).steps) + 1
    /\ run' = [run EXCEPT ![r] = Quiet("returned")]
    /\ UNCHANGED <<program, disk, drifted>>

\* Mutant: except Exception.
RaiseErrorsOnly(r, kind) ==
    /\ Running(r)
    /\ run' = [run EXCEPT ![r] = Quiet(IF run[r].at \in Code(r).guarded /\ kind \in Code(r).catches \cap Errors
                                         THEN "handling"
                                         ELSE IF kind = "error" THEN "raised" ELSE "interrupted")]
    /\ UNCHANGED <<program, disk, drifted>>

\* A check fails, a call fails, a budget is spent, or the user interrupts.
Raise(r, kind) ==
    /\ Running(r)
    /\ run' = [run EXCEPT ![r] = Quiet(IF run[r].at \in Code(r).guarded /\ kind \in Code(r).catches
                                         THEN "handling"
                                         ELSE IF kind = "error" THEN "raised" ELSE "interrupted")]
    /\ UNCHANGED <<program, disk, drifted>>

OpenRecord(r) ==
    /\ run[r].state = "handling"
    /\ ~run[r].half
    /\ disk[Code(r).record] = None
    /\ disk' = [disk EXCEPT ![Code(r).record] = Part(r)]
    /\ run' = [run EXCEPT ![r].half = TRUE]
    /\ UNCHANGED <<program, drifted>>

FinishRecord(r) ==
    /\ run[r].state = "handling"
    /\ run[r].half
    /\ disk' = [disk EXCEPT ![Code(r).record] = FileOf({r}, TRUE, TRUE, {})]
    /\ run' = [run EXCEPT ![r] = Quiet("recorded")]
    /\ UNCHANGED <<program, drifted>>

\* The handler's own write fails: the exception goes on without a record.
HandlerFails(r) ==
    /\ run[r].state = "handling"
    /\ run' = [run EXCEPT ![r] = Quiet("lost")]
    /\ UNCHANGED <<program, disk, drifted>>

Kill(r) ==
    /\ run[r].state \in {"running", "handling"}
    /\ run' = [run EXCEPT ![r] = Quiet("killed")]
    /\ UNCHANGED <<program, disk, drifted>>

\* Bound: one replacement, of something the program reads and still touches.
Drift(r) ==
    /\ drifted = None
    /\ run[r].state = "running"
    /\ \A q \in Runs \ {r} : run[q].state = "absent" \/ program[q] # program[r]
    /\ drifted' \in {x \in ThingsRead[program[r]] :
                     \E i \in DOMAIN Code(r).steps : i >= run[r].at /\ x \in Code(r).steps[i].on}
    /\ UNCHANGED <<program, disk, run>>

Next ==
    \E r \in Runs :
        \/ CheckFresh(r) \/ MakeDirectory(r) \/ OpenNew(r) \/ OpenOver(r) \/ FinishFile(r)
        \/ AppendLine(r) \/ ReadOwn(r) \/ CompareRegistered(r) \/ KeepHash(r) \/ CompareKept(r)
        \/ ReadContent(r) \/ ReadVerified(r) \/ ReadAndHash(r) \/ PrintLine(r) \/ Return(r)
        \/ \E kind \in Anything : Raise(r, kind)
        \/ OpenRecord(r) \/ FinishRecord(r) \/ HandlerFails(r) \/ Kill(r) \/ Drift(r)

Spec == Init /\ [][Next]_vars

-----------------------------------------------------------------------------
\* What a program makes before its results: the directory and what it says it will do.
Preamble == {"output", "plan.json", "execution.json", "execution-plan.json"}
Journals == {"journal.jsonl", "arm.journal", "progress.jsonl"}

\* f is the report of run r, written to the end by a program that did not fail.
ReportBy(r, f) == f = Code(r).report /\ IsWhole(f) /\ r \in disk[f].by /\ ~disk[f].failed
Before(r, f) ==
    LET steps == Code(r).steps
        last == CHOOSE i \in DOMAIN steps : steps[i].op = "put" /\ f \in steps[i].on
    IN  UNION {steps[i].on : i \in {j \in 1..last - 1 : steps[j].op \in {"make", "put", "over", "log"}}}

\* A complete report stands for one run: the directory and every file that the program
\* makes before it are there, whole, and nobody else has written to any of them.
ReportOfOneRun ==
    \A r \in Runs, f \in DOMAIN disk :
        ReportBy(r, f) => \A g \in Before(r, f) \cup {f} : IsWhole(g) /\ disk[g].by = {r}

\* "Report files are never overwritten" (evaluation/parity/README.md): what has been
\* written to the end is never changed by any later step of any run; journals grow.
EvidenceStays ==
    [][\A f \in DOMAIN disk \ Journals : IsWhole(f) => disk'[f] = disk[f]]_vars

\* No results without a verdict: a program that writes its report inside its try, and
\* ends in an error - or in an interrupt, when its handler is for those too - leaves no
\* result file unless it left its record or its report.  (tempo_pairs, tempo_alignment
\* and the MusicFM workers write the report after the try, and may leave neither.)  An
\* audit of a capture has the last word: beside it there is a complete report of the
\* capture and there never is a record of its failure.
ReportGuarded(r) ==
    \E i \in Code(r).guarded : Code(r).steps[i] = Step("put", {Code(r).report})
Accounted ==
    /\ Exists("audit.json") => IsWhole("report.json") /\ ~Exists("failure.json")
    /\ \A r \in Runs :
          LET results == {f \in DOMAIN disk \ Preamble : Exists(f) /\ r \in disk[f].by}
          IN  /\ ReportGuarded(r)
              /\ \/ run[r].state \in {"raised", "recorded"}
                 \/ run[r].state = "interrupted" /\ Code(r).catches = Anything
              => results = {} \/ results \cap {Code(r).record, Code(r).report} # {}

\* The inputs whose hashes a report may be held to, program by program: replacing one of
\* them at any moment leaves either no report or a report with the hash of what was read.
Music == {"checkpoint", "upstream", "config", "statistics", "runtime", "lock", "compatibility"}
Scaled == {"cost"}
Held ==
    [tempo_pairs |-> {"ffmpeg"}, tempo_alignment |-> {"suite"},
     relative_tempo |-> {"cases", "suite", "source", "prior", "alignment"},
     local_prepare |-> {"cases", "suite", "old_source"},
     local_tempo |-> {"cases", "suite", "old_source", "alignment", "prepared"},
     tempo_variation |-> {"weights", "old_source"},
     tempo_conflict |-> {"cases", "suite", "old_source", "alignment", "slots"},
     source_prepare |-> {"reference_arrays"},
     source_capture |-> {"source", "checkpoint", "upstream", "reference"}, source_audit |-> {"reference"},
     tempo_attribution |-> {"packets", "plan", "results", "manifest", "predictions"},
     phase_attribution |-> {"report", "packets", "plan", "manifest", "predictions"},
     phase_register |-> Scaled, phase_sync |-> Scaled, scaled_register |-> Scaled, scaled |-> Scaled,
     protected_register |-> Scaled, protected |-> Scaled,
     gradient_audit |-> {"packets", "weights", "source", "predictions"},
     fidelity |-> Music, compat |-> Music, temporal |-> Music \cup {"temporal_lock"},
     negative |-> Music \cup {"temporal_lock", "negative_lock", "activity_report", "old_report"},
     paired |-> Music \cup {"temporal_lock", "annotations", "traces"},
     availability |-> {"old_report", "features", "lock", "availability_lock"},
     inventory |-> Music, loader_probe |-> Music,
     prehead_capture |-> {"checkpoint", "traces", "baseline"},
     prehead_recurrence |-> {"checkpoint", "annotations", "evidence", "captures"},
     dense_sequence |-> {"suite", "truth", "evidence", "summary", "captures"},
     dense_clock |-> {"evidence", "summary", "captures"},
     clock_proposal |-> {"annotations", "captures"},
     clock_diagnosis |-> {"proposals", "annotations", "captures"},
     brid_reference |-> {"inventory", "audit", "pool"}]

\* A report rests on what it hashed: none of those inputs was read in a version whose
\* hash the report does not carry. And the schedules and recordings kept back for the end
\* are read only after the same run has frozen its selection in a file.
RestsOnWhatItHashed ==
    /\ \A r \in Runs, f \in DOMAIN disk :
          ReportBy(r, f) /\ program[r] \in DOMAIN Held => disk[f].loose \cap Held[program[r]] = {}
    /\ \A r \in Runs :
          program[r] \in {"local_tempo", "tempo_variation"} =>
            \A v \in run[r].seen :
                v[1] \in {"fresh_audio", "exposed"} =>
                  IsWhole("selection-freeze.json") /\ disk["selection-freeze.json"].by = {r}
-----------------------------------------------------------------------------
\* What the forty-eight programs have in common and the proofs rest on.  It is about
\* their steps alone, which are all written out: TLC decides it by evaluating it.
Writing == {"make", "put", "over", "log"}
Seeing == {"use", "take", "read"}
Keeping == {"pin", "note", "take", "read"}

StepsOn(p, x, ops) == {i \in DOMAIN p.steps : p.steps[i].op \in ops /\ x \in p.steps[i].on}
Writes(p) == {i \in DOMAIN p.steps : p.steps[i].op \in Writing}
FileAt(p, i) == CHOOSE f \in p.steps[i].on : TRUE
Written(p) == {FileAt(p, i) : i \in Writes(p)}
Output(p) == Written(p) \cup {p.record}
First(p) == CHOOSE i \in Writes(p) : \A j \in Writes(p) : i <= j
Reports(p) == {i \in DOMAIN p.steps : p.steps[i] = Step("put", {p.report})}

\* A program begins its output by making what must not exist, before its try; it writes
\* a file once, but for its journal, and its report in one step.
WritesInOrder(p) ==
    /\ p.steps \in Seq([op : STRING, on : SUBSET STRING])
    /\ p.guarded \subseteq DOMAIN p.steps
    /\ First(p) \in Writes(p) /\ p.steps[First(p)].op \in {"make", "put"}
    /\ \A i \in Writes(p) : First(p) <= i
    /\ \A i \in p.guarded : First(p) < i
    /\ \A i \in Writes(p) :
          /\ p.steps[i].on = {FileAt(p, i)}
          /\ p.steps[i].op = "log" <=> FileAt(p, i) \in Journals
          /\ \A j \in Writes(p) : FileAt(p, i) = FileAt(p, j) => i = j \/ FileAt(p, i) \in Journals
    /\ \E i \in DOMAIN p.steps : Reports(p) = {i}
    /\ p.record \in STRING \ Journals
    /\ p.record \in Written(p) => p.record = p.report

\* Where the report is inside the try, the handler answers to errors, and what is written
\* before the try is no result.
GuardsItsResults(p) ==
    Reports(p) \subseteq p.guarded =>
        /\ "error" \in p.catches /\ p.catches \subseteq Anything
        /\ {p.record, p.report} \cap Preamble = {}
        /\ \A i \in DOMAIN p.steps \ p.guarded :
              \/ \A k \in Reports(p) : k < i
              \/ \A j \in Writes(p) : j <= i => FileAt(p, j) \in Preamble

\* The audit of a capture reads the report, then sees that nothing says it failed, then
\* writes; the report is the last step of the capture's try.
AuditsAfterCapture(capture, audit) ==
    /\ \A name \in Names : "audit.json" \in Output(Programs[name]) => name = "source_audit"
    /\ Written(audit) = {"audit.json"} /\ audit.guarded = {} /\ audit.record = "failure.json"
    /\ capture.report = "report.json" /\ capture.record = "failure.json"
    /\ "failure.json" \notin Written(capture)
    /\ \A k \in capture.guarded, i \in Reports(capture) : k <= i
    /\ \E i, j \in DOMAIN audit.steps :
          /\ audit.steps[i] = Step("found", {"report.json"})
          /\ audit.steps[j] = Step("fresh", {"failure.json"})
          /\ i < j /\ \A k \in Writes(audit) : j < k

\* After step c, x is not read again, and what was read of it is what was hashed: c found
\* the registered version; or it is the one step that reads x; or the hash was kept
\* before x was read and c found it again.
KeptFirst(p, x) ==
    \E a \in StepsOn(p, x, Keeping) : \A i \in StepsOn(p, x, Seeing \cup Keeping) \ {a} :
        a < i /\ p.steps[i].op \in {"use", "pin"}
Settles(p, x, c) ==
    /\ \A i \in StepsOn(p, x, Seeing \cup {"note"}) : i <= c
    /\ \/ c \in StepsOn(p, x, {"pin", "take"})
       \/ c \in StepsOn(p, x, {"read"}) /\ StepsOn(p, x, Seeing) = {c}
       \/ c \in StepsOn(p, x, {"same"}) /\ KeptFirst(p, x)
SettlesItsInputs(p, things) ==
    \A x \in things :
        \/ StepsOn(p, x, Seeing) = {}
        \/ \E c \in DOMAIN p.steps : Settles(p, x, c) /\ \A i \in Reports(p) : c < i

\* The selection is frozen before what was kept back is read.
FreezesFirst(p) ==
    \A i \in StepsOn(p, "fresh_audio", Seeing) \cup StepsOn(p, "exposed", Seeing) :
        \E j \in Writes(p) : j < i /\ FileAt(p, j) = "selection-freeze.json"

ASSUME ProgramsAssumption ==
    /\ {"source_capture", "source_audit", "local_tempo", "tempo_variation"} \subseteq Names
    /\ \A name \in Names : WritesInOrder(Programs[name]) /\ GuardsItsResults(Programs[name])
    /\ AuditsAfterCapture(Programs["source_capture"], Programs["source_audit"])
    /\ DOMAIN Held \subseteq Names
    /\ \A name \in DOMAIN Held : SettlesItsInputs(Programs[name], Held[name])
    /\ \A name \in {"local_tempo", "tempo_variation"} : FreezesFirst(Programs[name])

\* None stands for a file that is not there and for no replacement.
FileStates == [by : SUBSET Runs, whole : BOOLEAN, failed : BOOLEAN, loose : SUBSET STRING]
ASSUME NoneAssumption == None \notin STRING \cup FileStates
=============================================================================
