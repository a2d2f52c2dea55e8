---------------------------- MODULE TempoPrograms ----------------------------
(***************************************************************************)
(* The tempo experiments: pairs of renderings, their alignment, the fits   *)
(* on them, the audits of those fits, and the capture of new sources.      *)
(* Two arms, three profiles or ninety recordings are one case of each.     *)
(***************************************************************************)
EXTENDS ExperimentSteps

\* What the runs share.
LoadPcm(wav) == Checked(wav)
LoadRecords == Checked({"population"}) \o Checked({"packets"})
LoadModel == Checked({"weights"})
Journal == Log("journal.jsonl") \o Say
ReadJournal == Found("journal.jsonl")
SelectedSources == Use({"cases", "suite"}) \o Pin({"suite", "truth"})

\* tempo_pairs: render every profile of every source.
PairsClosure == {"source", "cases", "suite"}
ReadSource == Checked({"audio"})
TempoPairs ==
    Program(
        SelectedSources \o Note(PairsClosure) \o Checked({"ffmpeg"})
          \o MakeNew("output") \o Put("plan.json"),
        Use({"ffmpeg"}) \o ReadSource \o Use({"truth"}) \o Put("source.wav")
          \o Put("audio.wav") \o Put("nominal.json") \o Same(PairsClosure) \o Pin({"ffmpeg"}),
        Put("report.json") \o Say,
        Errors, "partial-report.json", "report.json")

\* tempo_alignment: measure the renderings of that report.
AlignmentClosure == {"source", "prior"}
TempoAlignment ==
    Program(
        Checked({"prior"}) \o Pin({"old_source"}) \o SelectedSources
          \o MakeNew("output") \o Note(AlignmentClosure) \o Put("plan.json"),
        LoadPcm({"pcm"}) \o Checked({"labels"}) \o Same(AlignmentClosure),
        Put("report.json") \o Say,
        Errors, "partial-report.json", "report.json")

\* relative_tempo: encode the renderings, fit on pairs of them.
RelativeClosure == {"source", "alignment", "cases", "prior"}
Population == Pin({"alignment"}) \o SelectedSources \o Use({"alignment"})
RelativeCapture ==
    Checked({"checkpoint"}) \o Checked({"prior"}) \o LoadPcm({"pcm"})
      \o Put("features.npz") \o Put("capture.json")
RelativeFit == Journal \o Journal \o Put("arm.weights.npz") \o Put("arm.fit.json")
Evaluate == Put("natural.npz") \o Put("paired-fields.npz")

RelativeTempo ==
    Program(
        Fresh("output") \o Note(RelativeClosure) \o Population \o Pin({"inputs", "weights"})
          \o Note({"upstream"}) \o MakeNew("output") \o Put("plan.json"),
        RelativeCapture \o Use({"source"}) \o LoadRecords \o LoadModel \o Put("initial.json")
          \o RelativeFit \o Evaluate \o Same(RelativeClosure) \o Same({"upstream"})
          \o ReadJournal \o Put("report.json") \o Say,
        <<>>,
        Anything, "partial-report.json", "report.json")

\* local_tempo: what its programs hash of themselves and of the experiment before.
Prior == Checked({"prior"}) \o Pin({"old_source", "alignment", "cases"})
Closure == Prior \o Note({"source"})

ClosureAgain == Prior \o Same({"source"})

\* local_tempo/prepare: render the schedules the fit may not see.
LocalPrepare ==
    Program(
        Closure \o SelectedSources \o Pin({"ffmpeg"}) \o Fresh("output")
          \o MakeNew("output") \o Put("plan.json"),
        Use({"ffmpeg"}) \o Use({"old_source"}) \o LoadPcm({"pcm"}) \o Put("fresh.wav")
          \o LoadPcm({"fresh_audio"}) \o Say \o ClosureAgain \o Put("report.json") \o Say,
        <<>>,
        Anything, "partial-report.json", "report.json")

\* local_tempo/run: fit, freeze the exports, and only then hear the new schedules.
SaveWeights(f) == Put(f)
ReadWeights(x) == Checked(x)
LoadPreparation == Checked({"prepared"}) \o Pin({"source"})
LoadCaptures == Prior \o Pin({"old_report"}) \o Checked({"old_captures"})
Checkpoint == SaveWeights("epoch.weights.npz") \o Note({"epochs"}) \o Journal
LaterCheckpoint == SaveWeights("later.weights.npz") \o Note({"epochs"}) \o Journal
ExportChoice ==
    Same({"epochs"}) \o Use({"epochs"}) \o SaveWeights("selected.weights.npz")
      \o SaveWeights("final.weights.npz") \o Put("arm.fit.json")
LocalFit == Checkpoint \o Journal \o Journal \o LaterCheckpoint \o ExportChoice
VerifyFreeze == Same({"exports"})

FreezeSelection == Note({"exports"}) \o VerifyFreeze \o Put("selection-freeze.json") \o Journal

LocalCapture ==
    VerifyFreeze \o Checked({"checkpoint"}) \o LoadPcm({"fresh_audio"})
      \o Put("features.npz") \o VerifyFreeze \o Put("capture.json")
LocalTempo ==
    Program(
        Fresh("output") \o Closure \o LoadPreparation \o Population
          \o Pin({"inputs", "weights"}) \o Note({"upstream"}) \o Prior
          \o Pin({"upstream"}) \o MakeNew("output") \o Put("plan.json"),
        LoadCaptures \o Use({"old_source"}) \o LoadRecords \o LoadModel \o Put("initial.json")
          \o ReadWeights({"old_weights"}) \o LocalFit \o FreezeSelection \o LocalCapture \o Evaluate
          \o ClosureAgain \o Pin({"prepared"}) \o Same({"upstream"})
          \o ReadJournal \o VerifyFreeze \o Put("report.json") \o Say,
        <<>>,
        Anything, "partial-report.json", "report.json")

\* tempo_variation: the same fit with every update packet kept.
VariationPrior == Checked({"audit"}) \o Pin({"audit_source"}) \o Prior
VariationClosure == VariationPrior \o Note({"source"})
VariationClosureAgain == VariationPrior \o Same({"source"})
Points == VariationPrior \o Checked({"old_plan"})
LoadExposed == VariationPrior \o Pin({"local_report"}) \o Checked({"exposed"})
SnapshotPacket(f) == Put(f)
Gradients(f) == Put(f)
VariationUpdate ==
    SnapshotPacket("update.before.pt") \o Note({"packets_of_updates"}) \o Journal
      \o Gradients("update.gradients.npz") \o Journal \o SnapshotPacket("update.after.pt") \o Journal
VariationFit == Checkpoint \o VariationUpdate \o LaterCheckpoint \o ExportChoice
ReadNatural == Found("natural.npz")
UpdateReceipts == ReadJournal \o Same({"packets_of_updates"})
TempoVariation ==
    Program(
        Fresh("output") \o VariationPrior \o VariationClosure \o Points
          \o Pin({"local_report", "inputs", "weights"}) \o MakeNew("output") \o Put("plan.json"),
        LoadCaptures \o Use({"old_source"}) \o LoadRecords \o LoadModel \o Prior
          \o ReadWeights({"old_weights"}) \o VariationFit \o Put("control-replay.json")
          \o FreezeSelection \o LoadExposed \o Evaluate \o ReadNatural \o UpdateReceipts
          \o VerifyFreeze \o VariationClosureAgain \o Pin({"inputs", "weights"})
          \o Put("report.json") \o Say,
        <<>>,
        Anything, "partial-report.json", "report.json")

\* tempo_conflict: differentiate every saved epoch of the local fit, train nothing.
FirstDraw == Checked({"old_journal"})
TempoConflict ==
    Program(
        Closure \o Fresh("output") \o Pin({"local_report", "old_plan", "inputs"}) \o Use({"old_source"})
          \o Pin({"slots", "weights"}) \o MakeNew("output") \o LoadModel \o Put("plan.json"),
        LoadRecords \o LoadCaptures \o Population \o Journal \o ReadWeights({"slots"})
          \o Put("vectors.npz") \o Put("state.json") \o Journal \o FirstDraw
          \o Put("first-batch.vectors.npz") \o ClosureAgain \o Pin({"slots"})
          \o Put("report.json") \o Say,
        <<>>,
        Anything, "partial-report.json", "report.json")

\* tempo_source_expansion: a frozen design, its inputs, their features, the audit of those.
FrozenPlan == Pin({"design_source"}) \o Use({"design_source"}) \o Use({"design"})
ExpansionClosure == FrozenPlan \o Use({"reference"}) \o Pin({"reference", "frozen_source"})
FreshOutput == Fresh("output") \o MakeNew("output")
SourceDesign == Bare(Pin({"design_source"}) \o Use({"design_source"}) \o Put("design.json"), "design.json")

BuildInputs ==
    ExpansionClosure \o Note({"source"}) \o Use({"reference", "references_report"})
      \o Use({"frontend_report"}) \o Checked({"frontend"}) \o Take({"reference_arrays"})
      \o Put("input.npz") \o Found("input.npz") \o Note({"frontend_report"})
SourcePrepare ==
    Bare(FreshOutput \o BuildInputs \o Put("report.json")
           \o Found("report.json") \o ExpansionClosure \o Same({"source"}) \o Found("input.npz") \o Say,
         "report.json")

LoadInputs == Checked({"input_report"}) \o ExpansionClosure \o Pin({"source"}) \o Checked({"inputs"})
UpstreamIdentity == Pin({"checkpoint"}) \o Use({"source"}) \o Pin({"pinned_upstream"})
CaptureRecords ==
    Put("registration.json") \o Use({"upstream", "checkpoint"}) \o Fresh("progress.jsonl")
      \o Log("progress.jsonl") \o Checked({"inputs"}) \o Put("features.npz") \o Found("features.npz")
      \o Log("progress.jsonl") \o Say
CheckAgain == UpstreamIdentity \o Same({"upstream"}) \o LoadInputs

CaptureThenReport == CaptureRecords \o CheckAgain \o Found("registration.json") \o Put("report.json")
SourceCapture ==
    Program(
        FreshOutput,
        LoadInputs \o UpstreamIdentity \o Note({"upstream"}) \o CaptureThenReport,
        Say,
        Errors, "failure.json", "report.json")

Admit ==
    LoadInputs \o Found("registration.json") \o Found("report.json") \o Fresh("failure.json")
      \o Found("registration.json") \o Found("features.npz")
SourceAudit == Bare(Admit \o Note({"audit_source"}) \o Put("audit.json") \o Say, "audit.json")

\* tempo_attribution: compare retained predictions; everything is hashed before and after.
Retained == {"plan", "results", "manifest", "plan_source", "packets", "predictions"}
TempoAttribution ==
    Bare(Fresh("output.json") \o Note({"source"}) \o Pin({"plan", "results", "manifest"})
           \o Use({"plan", "results", "manifest"}) \o Pin(Retained)
           \o Use({"packets", "predictions"}) \o Pin(Retained) \o Same({"source"})
           \o Put("output.json") \o Say,
         "output.json")

=============================================================================
