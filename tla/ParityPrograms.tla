---------------------------- MODULE ParityPrograms ----------------------------
(***************************************************************************)
(* The parity and admission audits: the MusicFM workers, which write their *)
(* report in a `finally` whether they succeeded or not, and the audits     *)
(* that write a report only when everything before it has passed.  What    *)
(* is run in a subprocess is the program here; its parent only waits, and  *)
(* kills it when the time is up.  One case stands for all.                 *)
(***************************************************************************)
EXTENDS ExperimentSteps

PrivateOutput == Fresh("output")

\* What a MusicFM worker reads is hashed on the handle that is parsed.
VerifiedFile(x) == Take({x})
VerifiedInputs == Take({"config", "statistics", "upstream"})
RuntimeLock == Take({"runtime"})
ConstructMeta == VerifiedInputs
RestrictedLoad == VerifiedFile("checkpoint")
FidelityProtocol == Take({"lock"}) \o Pin({"helpers"}) \o RuntimeLock
CompatProtocol == FidelityProtocol \o Take({"compatibility"}) \o Pin({"source"})
TemporalProtocol == Take({"temporal_lock"}) \o Pin({"helpers"}) \o CompatProtocol
AvailabilityProtocol ==
    Take({"availability_lock"}) \o Pin({"helpers", "native_source"}) \o TemporalProtocol
      \o Take({"old_report"})
NegativeProtocol ==
    Take({"negative_lock"}) \o Take({"activity_report"}) \o AvailabilityProtocol \o TemporalProtocol
PairedProtocol ==
    Use({"paired_lock"}) \o Pin({"helpers"}) \o TemporalProtocol \o Take({"annotations"})

\* A worker: its protocol, a fresh directory, and a report in any case.
Admitted(protocol) == protocol \o PrivateOutput \o RuntimeLock \o MakeNew("output")
Finally(before, tried) ==
    Program(before, tried, Put("report.json"), Anything, "report.json", "report.json")

EvaluateCases == Say
FidelityWorker ==
    Finally(Admitted(FidelityProtocol) \o Note({"source"}),
            RestrictedLoad \o ConstructMeta \o RestrictedLoad \o EvaluateCases)
CompatWorker ==
    Finally(Admitted(CompatProtocol) \o Note({"source"}),
            ConstructMeta \o RestrictedLoad \o EvaluateCases)

TemporalCases == Over("features.npy") \o Over("owners.npy") \o Found("features.npy") \o Found("owners.npy") \o Say
TemporalWorker ==
    Finally(Admitted(TemporalProtocol) \o Note({"source"}),
            ConstructMeta \o RestrictedLoad \o TemporalCases)

RunNative == Put("case.f32le") \o Use({"native"}) \o Put("activity.json") \o Found("activity.json")
Extract == Put("features.npy") \o Found("features.npy") \o Say
NegativeWorker ==
    Finally(Admitted(NegativeProtocol) \o Note({"source", "native"}),
            RunNative \o ConstructMeta \o RestrictedLoad \o Extract)

ReadPcm == Take({"traces"})
CaptureCases == Use({"negative_report"}) \o Say \o Over("features.npy") \o Found("features.npy")
PairedWorker ==
    Finally(Admitted(PairedProtocol) \o Note({"paired_lock"}),
            Use({"recurrence_report"}) \o ReadPcm \o ConstructMeta \o RestrictedLoad \o CaptureCases)

CachedFeatures == VerifiedFile("features")
AvailabilityAudit ==
    Finally(PrivateOutput \o AvailabilityProtocol \o MakeNew("output") \o Note({"source", "native"}),
            RunNative \o Say \o CachedFeatures)

\* The two probes of the loader have no handler.
CheckpointInventory ==
    Bare(Admitted(FidelityProtocol) \o ConstructMeta \o RestrictedLoad \o Note({"source"})
           \o Put("report.json") \o Say,
         "report.json")
LoaderProbe ==
    Bare(PrivateOutput \o RuntimeLock \o MakeNew("output") \o ConstructMeta \o Put("authored.pt")
           \o Found("authored.pt") \o Note({"source"}) \o Put("report.json") \o Say,
         "report.json")

\* Captures of the encoder before its heads.
CapturePlan == Use({"lock"}) \o Take({"reference_lock"}) \o Take({"baseline"}) \o Pin({"comparator"})
SaveCapture == Put("case.npz") \o Found("case.npz")
PreheadCapture ==
    Bare(CapturePlan \o PrivateOutput \o Pin({"upstream"}) \o Take({"traces"}) \o Take({"checkpoint"})
           \o Use({"comparator", "upstream"}) \o MakeNew("output") \o Say \o SaveCapture \o Note({"lock", "source"})
           \o Note({"pinned_upstream"}) \o Put("report.json") \o Say,
         "report.json")

RecurrencePlan ==
    Pin({"helpers"}) \o Use({"recurrence_lock"}) \o Take({"old_report"}) \o Take({"annotations"})
LoadCheckpoint == Pin({"upstream"}) \o Take({"checkpoint"}) \o Use({"upstream"})
PreheadRecurrence ==
    Bare(RecurrencePlan \o CapturePlan \o PrivateOutput \o Take({"evidence", "summary"})
           \o Note({"trace_source"}) \o Take({"captures"}) \o MakeNew("output") \o Say
           \o Use({"native"}) \o Put("trace.json") \o Found("trace.json") \o LoadCheckpoint
           \o Found("trace.json") \o SaveCapture \o Found("case.npz")
           \o Note({"recurrence_lock", "source", "lock", "native"}) \o Put("report.json") \o Say,
         "report.json")

\* Comparisons with the reference implementation.
NativePcm ==
    Bare(Fresh("report.json") \o Fresh("output") \o Use({"lock"}) \o Pin({"reference_lock"})
           \o Use({"trace"}) \o Use({"probes"}) \o Pin({"trace"}) \o Pin({"audio", "suite"})
           \o Pin({"upstream"}) \o Pin({"checkpoint"}) \o Use({"upstream"}) \o Use({"audio"})
           \o MakeNew("output") \o Put("reference-native.json") \o Say \o Use({"native"})
           \o Put("rust-pcm.json") \o Found("rust-pcm.json") \o Pin({"native_source"})
           \o Use({"checkpoint"}) \o Note({"checkpoint", "reference_lock", "lock", "trace", "source", "native"})
           \o Put("report.json") \o Say,
         "report.json")
CompareReference ==
    Bare(Fresh("report.json") \o Pin({"upstream"}) \o Pin({"pack"}) \o Use({"pack"}) \o Pin({"artifacts"})
           \o Pin({"checkpoint"}) \o Use({"upstream"}) \o Use({"artifacts"}) \o Use({"checkpoint"})
           \o Use({"trace"}) \o Say \o Checked({"audio"}) \o Note({"trace"})
           \o Note({"source", "reference_lock"}) \o Put("report.json") \o Say,
         "report.json")

\* Audits of retained captures.
ReadJson(x) == Take({x})
RunDecoder == Use({"native"}) \o Pin({"decoder_source"}) \o Put("case.json")
DenseSequence ==
    Bare(Pin({"estimator"}) \o Fresh("output") \o MakeNew("output") \o Say \o RunDecoder
           \o ReadJson("evidence") \o Read({"summary"}) \o ReadJson("suite") \o Note({"trace_source"})
           \o ReadJson("captures") \o ReadJson("truth") \o Note({"decoder_source", "source"})
           \o Put("report.json"),
         "report.json")
DenseClockEvidence ==
    Bare(ReadJson("evidence") \o Read({"summary"}) \o Note({"trace_source"}) \o ReadJson("captures")
           \o Note({"source"}) \o Put("report.json"),
         "report.json")
CandidateEvidence ==
    Bare(Use({"lock"}) \o Use({"evidence"}) \o Note({"evidence", "source"}) \o Put("rows.json")
           \o Put("report.json") \o Say,
         "report.json")

\* Candidates are generated for every capture, and only then compared with annotations.
ClockProposal ==
    Bare(Fresh("report.json") \o Fresh("private.json") \o Use({"lock"}) \o Pin({"source"})
           \o ReadJson("old_report") \o ReadJson("captures") \o ReadJson("annotations") \o Note({"lock"})
           \o Put("private.json") \o Put("report.json") \o Say,
         "report.json")
ClockDiagnosis ==
    Bare(Fresh("report.json") \o Fresh("private.json") \o Use({"lock"}) \o Pin({"source"})
           \o ReadJson("old_report") \o ReadJson("old_lock") \o Pin({"old_source"})
           \o ReadJson("proposals") \o ReadJson("annotations") \o ReadJson("captures") \o Note({"lock"})
           \o Put("private.json") \o Put("report.json") \o Say,
         "report.json")

\* References for the training candidates.
BridReference ==
    Bare(Fresh("output") \o MakeNew("output") \o Take({"inventory", "audit"}) \o Take({"pool"})
           \o Put("case.npz") \o Found("case.npz") \o Note({"source"}) \o Put("report.json") \o Say,
         "report.json")

===============================================================================
