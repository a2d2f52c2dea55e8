---------------------------- MODULE ClockPrograms ----------------------------
(***************************************************************************)
(* The clock experiments: the readouts fitted on frozen encoder features,  *)
(* the plans registered for them, and the audits of their predictions and  *)
(* gradients.  Two fits and forty recordings are one case of each.  What   *)
(* a recorded fit does in its own directory is module FitRecorder.         *)
(***************************************************************************)
EXTENDS ExperimentSteps

ClockJournal == Log("journal.jsonl") \o Say
ClockRecords == Checked({"population"}) \o Checked({"packets"})
Predictions == Put("prediction.npz")

\* clock_readout/prepare: one trace per recording, reused or run for.
ReadoutPrepare ==
    Bare(Fresh("output") \o Note({"source", "executable"}) \o MakeNew("output") \o Put("plan.json")
           \o Pin({"audio"}) \o Checked({"truth"}) \o Use({"trace"}) \o Put("input.npz")
           \o Note({"trace"}) \o Put("inputs.json") \o Say,
         "inputs.json")

\* clock_readout/run: encode, fit twice, predict; no handler.
CaptureFeatures == Checked({"checkpoint"}) \o Checked({"packets"}) \o Put("features.npz")
ReadoutFit == Put("arm.weights.npz")
ReadoutMain ==
    Bare(Fresh("output") \o Use({"inputs"}) \o Checked({"plan"}) \o Pin({"source"})
           \o MakeNew("output") \o Note({"inputs"}) \o Put("execution-plan.json")
           \o CaptureFeatures \o Put("capture.json") \o ReadoutFit \o Predictions
           \o Note({"inputs"}) \o Put("report.json") \o Say,
         "report.json")

\* coupled_clock/prepare: join the old features, traces and truths into packets.
CoupledPrepare ==
    Bare(Fresh("output") \o Pin({"old_inputs", "old_report"}) \o Use({"old_inputs", "old_report"})
           \o Checked({"weights"}) \o MakeNew("output") \o Pin({"features", "truth", "trace"})
           \o Use({"trace", "truth", "features"}) \o Put("packet.npz") \o Note({"features", "truth"})
           \o Note({"weights", "source"}) \o Put("inputs.json") \o Say,
         "inputs.json")

\* coupled_clock/run: the sources are compared with the manifest's, once.
CoupledFit == ClockJournal \o ClockJournal \o Put("arm.weights.npz") \o Put("arm.fit.json")
CoupledMain ==
    Program(
        Fresh("output") \o Checked({"inputs"}) \o Pin({"source"}) \o MakeNew("output")
          \o Put("execution.json"),
        ClockRecords \o CoupledFit \o Predictions \o Put("report.json") \o ClockJournal,
        <<>>,
        Errors, "failure.json", "report.json")

\* trajectory_clock: the same with a registered plan and another loss.
TrajectoryRegister ==
    Bare(Fresh("plan.json") \o Pin({"population", "prior"}) \o Note({"attribution", "source"})
           \o Use({"population"}) \o Put("plan.json") \o Say, "plan.json")
TrajectoryMain ==
    Program(
        Fresh("output") \o Checked({"plan"}) \o Pin({"source", "inputs", "prior", "attribution"})
          \o Use({"inputs", "prior"}) \o MakeNew("output") \o Put("execution.json"),
        ClockRecords \o CoupledFit \o Predictions \o Put("report.json") \o ClockJournal,
        <<>>,
        Errors, "failure.json", "report.json")

\* clock_evidence: what the retained checkpoints do with altered inputs.
ClockEvidence ==
    Program(
        Fresh("output") \o Checked({"inputs"}) \o Checked({"parents"}) \o Checked({"weights"})
          \o MakeNew("output") \o Note({"source"}) \o Put("execution.json"),
        Checked({"packets"}) \o Checked({"predictions"}) \o Put("outputs.npz") \o Say
          \o Same({"source"}) \o Put("report.json") \o Say,
        <<>>,
        Errors, "failure.json", "report.json")

\* phase_sync_fit: the plan is remade before and after the fits.
ParentReports == Checked({"parents"})
PhaseMakePlan ==
    Checked({"population"}) \o ParentReports \o Use({"cost"}) \o Pin({"cost", "source"})
PhaseRegister == Bare(Fresh("plan.json") \o Note({"source"}) \o PhaseMakePlan \o Put("plan.json") \o Say, "plan.json")
PhaseEvaluate == Predictions \o ClockJournal
PhaseSyncMain ==
    Program(
        Fresh("output") \o Checked({"plan"}) \o PhaseMakePlan \o Checked({"inputs"}) \o ParentReports
          \o MakeNew("output") \o Put("execution.json"),
        ClockRecords \o CoupledFit \o PhaseEvaluate \o PhaseMakePlan
          \o Put("report.json") \o ClockJournal,
        <<>>,
        Errors, "failure.json", "report.json")

\* scaled_phase_fit, protected_phase_fit: the recorded fits, and a handler for everything.
RecordedFit == MakeNew("arm") \o Log("arm.journal") \o Put("arm.weights.npz") \o Put("arm.fit.json")
ScaledMakePlan == Checked({"prerequisites"}) \o PhaseMakePlan
ScaledRegister == Bare(Fresh("plan.json") \o ScaledMakePlan \o Put("plan.json") \o Say, "plan.json")
ScaledMain ==
    Program(
        Fresh("output") \o Checked({"plan"}) \o ScaledMakePlan \o Checked({"inputs"}) \o ParentReports
          \o MakeNew("output") \o Put("execution.json"),
        ClockRecords \o RecordedFit \o PhaseEvaluate \o ScaledMakePlan
          \o Put("report.json") \o ClockJournal,
        <<>>,
        Anything, "failure.json", "report.json")

ProtectedMakePlan == ScaledMakePlan \o Checked({"closed"})
ProtectedRegister == Bare(Fresh("plan.json") \o ProtectedMakePlan \o Put("plan.json") \o Say, "plan.json")
ComparePrevious == Use({"closed"}) \o Note({"closed"})
ProtectedMain ==
    Program(
        Fresh("output") \o Checked({"plan"}) \o ProtectedMakePlan \o Checked({"inputs"}) \o ParentReports
          \o MakeNew("output") \o Put("execution.json"),
        ClockRecords \o RecordedFit \o PhaseEvaluate \o ComparePrevious \o ProtectedMakePlan
          \o Put("report.json") \o ClockJournal,
        <<>>,
        Anything, "failure.json", "report.json")

\* separated_evidence_fit: four arms, the journal of each read back.
SeparatedMakePlan == Pin({"closed"}) \o Use({"closed"}) \o Pin({"source"}) \o Checked({"population"})
SeparatedRegister == Bare(Fresh("plan.json") \o SeparatedMakePlan \o Put("plan.json") \o Say, "plan.json")
AuditReceipts == Found("arm.journal")
SeparatedFit ==
    MakeNew("arm") \o Log("arm.journal") \o Put("arm.weights.npz") \o AuditReceipts \o Put("arm.fit.json")
Execute == SeparatedFit \o Put("evidence.npz")
SeparatedMain ==
    Program(
        Fresh("output") \o Checked({"plan"}) \o SeparatedMakePlan \o Checked({"inputs"})
          \o ParentReports \o Use({"closed"}) \o MakeNew("output") \o Put("execution.json"),
        ClockRecords \o Execute \o SeparatedMakePlan \o Put("report.json") \o ClockJournal,
        <<>>,
        Anything, "failure.json", "report.json")

\* phase_attribution: compare retained predictions, as tempo_attribution does.
PhaseArtifacts == {"packets", "predictions"}
PhasePins == {"report", "plan", "manifest", "plan_source"}
PhaseAttribution ==
    Bare(Fresh("output.json") \o Note({"source"}) \o Pin({"report", "plan", "manifest"})
           \o Use({"report", "plan"}) \o Pin({"inputs"}) \o Use({"manifest"}) \o Pin({"plan_source"})
           \o Pin(PhaseArtifacts) \o Use(PhaseArtifacts) \o Pin(PhaseArtifacts \cup PhasePins)
           \o Same({"source"}) \o Put("output.json") \o Say,
         "output.json")

\* gradient_audit: the gradients of two retained checkpoints, one packet per case.
AuditSources == Checked({"results"}) \o Pin({"source"})
AuditMakePlan == Use({"results"}) \o AuditSources
AuditRegister == Bare(Fresh("plan.json") \o AuditMakePlan \o Put("plan.json") \o Say, "plan.json")
AuditLoadModel == Checked({"weights"})
PersistCase == Put("gradients.pt") \o Put("case.json")
GradientAudit ==
    Program(
        Fresh("output") \o Checked({"plan"}) \o AuditMakePlan \o MakeNew("output"),
        Use({"results"}) \o Pin({"inputs", "packets", "predictions", "weights"}) \o AuditLoadModel
          \o Use({"packets", "predictions"}) \o PersistCase \o ClockJournal \o Use({"source"})
          \o Pin({"inputs", "packets", "predictions", "weights"}) \o AuditMakePlan
          \o Put("report.json") \o ClockJournal \o Say,
        <<>>,
        Errors, "failure.json", "report.json")

=============================================================================
