----------------------------- MODULE FitRecorder -----------------------------
(***************************************************************************)
(* One registered optimizer fit and the recorder that keeps its evidence   *)
(* (experiments/training_observer, observed_adjoint, protected_update,     *)
(* scaled_phase_fit, protected_phase_fit).                                 *)
(*                                                                         *)
(* The fit loops over epochs and batches; every update saves a snapshot,   *)
(* journals an intent, runs the optimizer and saves again.  The protected  *)
(* variant steps a copy of AdamW, saves the proposal and only then writes  *)
(* the live tensors.  Any call may raise, the wall budget may run out at   *)
(* any time, and the process may be killed between any two steps.  A call  *)
(* that raises after its effect is the step followed by a Raise.           *)
(*                                                                         *)
(* Weights are version numbers: 0 at first, and a new number for every     *)
(* step that moves them; Mixed stands for tensors of two versions.  The    *)
(* moments of the optimizer are numbered by the steps they have seen.      *)
(***************************************************************************)
EXTENDS Naturals, Sequences

CONSTANTS RegisteredEpochs,   \* epochs of the registered plan
          RegisteredBatches,  \* batches of an epoch
          Recordings,         \* recordings of a batch
          DevelopmentLosses,  \* the development losses told apart
          Mixed,              \* tensors of two versions
          Missing

ASSUME BoundsAssumption ==
    /\ RegisteredEpochs \in Nat \ {0} /\ RegisteredBatches \in Nat \ {0} /\ Recordings \in Nat \ {0}
    /\ DevelopmentLosses \subseteq Nat /\ DevelopmentLosses # {}
    /\ Mixed \notin Nat /\ Missing \notin Nat /\ Mixed # Missing

\* Tensors, the fields of ProtectedAdamW, a selected checkpoint, and a snapshot of them.
Tensors == [weights : Nat \cup {Mixed}, moments : Nat \cup {Mixed}]
BoundaryStages == {"idle", "proposal_started", "prepared", "commit_started", "committed"}
BoundaryFields ==
    [stage : BoundaryStages, armed : BOOLEAN, candidate : Nat \cup {Missing}, old : Tensors \cup {Missing},
     rollback : {"none", "attempted", "restored", "failed_unknown"}, committed : Nat, failed : BOOLEAN]
Checkpoints == [epoch : Nat, loss : Nat, weights : Nat, completed : Nat]
Payloads ==
    [completed : Nat, live : Tensors, status : {"not_started", "entered", "returned"},
     boundary : BoundaryFields, best : Checkpoints \cup {Missing}]
ASSUME MissingAssumption == Missing \notin BOOLEAN \cup Tensors \cup Checkpoints \cup Payloads

MaxUpdates == RegisteredEpochs * RegisteredBatches

VARIABLES
    protected,  \* ProtectedFitRecorder, or ScaledFitRecorder with a plain AdamW
    pc,         \* the next call of the fit
    epoch_index, batch_index, record,   \* the loop counters
    status,     \* cursor['optimizer_step_status']
    live,       \* the live tensors: [weights, moments]
    completed,  \* completed_updates
    boundary,   \* the fields of ProtectedAdamW
    pieces,     \* gradients the batch accumulator holds
    selected,   \* the selected checkpoint in memory
    snapshots,  \* the snapshots on disk
    journal,    \* how often journal.jsonl holds each kind of receipt
    verdict,    \* update_count_exact of the journaled failure
    exports,    \* weights.npz and fit.json
    failed,     \* the recorder is closed
    overdue,    \* the wall budget is spent
    truth,      \* history: the weights after each returned update
    scores,     \* history: the development losses submitted to checkpoint
    interrupted \* history: an interrupt hit between state swap and commit count

cursor == <<epoch_index, batch_index, record>>
optimizer == <<live, boundary>>
evidence == <<snapshots, journal, verdict, exports>>
ghosts == <<truth, scores, interrupted>>
recorder_vars == <<protected, pc, cursor, status, optimizer, completed, pieces, selected, evidence,
                   failed, overdue, ghosts>>

Snapshots == {"initial", "before", "proposal", "after", "best", "failure"}
Receipts == {"record_gradient", "recording", "protected_step", "update_completed"}

\* Gradients of one recording: phase and advance apart, or their sum.
Terms == IF protected THEN 2 ELSE 1

BoundaryIdle == [stage |-> "idle", armed |-> FALSE, candidate |-> Missing, old |-> Missing,
                 rollback |-> "none", committed |-> 0, failed |-> FALSE]

\* Where an exception is raised decides who sees it first.
Creating == {"create", "initial"}
InBoundary == {"propose", "protect", "persist", "commit", "copying", "copied",
               "swapped", "committed"}
InGuard == {"before", "started", "record", "forward", "weighted", "recorded", "clip",
            "prepare", "stepping", "in_step", "stepped", "post", "after", "complete",
            "score", "select", "save_best", "best_event"} \cup InBoundary
InFit == {"fit_started", "update", "timing", "development", "aggregate", "epoch_journal",
          "export", "weights", "receipts", "report", "return"}
Handling == {"rollback", "aborting", "failing", "noting"}
Ended == {"returned", "error", "killed"}

-----------------------------------------------------------------------------

Snapshot == [completed |-> completed, live |-> live, status |-> status,
             boundary |-> boundary, best |-> selected]
Save(name) == snapshots' = [snapshots EXCEPT ![name] = Snapshot]
NoteReceipts(receipt, n) == journal' = [journal EXCEPT ![receipt] = @ + n]

\* The next statement, reached before the wall budget is spent where it is checked.
Moves(here, there) == pc = here /\ pc' = there
BeforeDeadline == ~overdue
OnlyMoves == UNCHANGED <<protected, cursor, status, optimizer, completed, pieces, selected,
                         evidence, failed, overdue, ghosts>>

\* The state of a fit that was not begun, but for its recorder and where it is.
RecorderIdle ==
    /\ epoch_index = 1 /\ batch_index = 1 /\ record = 1
    /\ status = "not_started"
    /\ live = [weights |-> 0, moments |-> 0]
    /\ completed = 0 /\ boundary = BoundaryIdle /\ pieces = 0 /\ selected = Missing
    /\ snapshots = [name \in Snapshots |-> Missing]
    /\ journal = [receipt \in Receipts |-> 0]
    /\ verdict = Missing /\ exports = [weights |-> Missing, report |-> FALSE]
    /\ failed = FALSE /\ overdue = FALSE
    /\ truth = <<0>> /\ scores = <<>> /\ interrupted = FALSE
RecorderInit == protected \in BOOLEAN /\ pc = "create" /\ RecorderIdle

\* mkdir, the created event, then initial.pt.
CreateOutput ==
    /\ Moves("create", "initial")
    /\ OnlyMoves
SnapshotInitial ==
    /\ Moves("initial", "fit_started") /\ Save("initial")
    /\ UNCHANGED <<protected, cursor, status, optimizer, completed, pieces, selected,
                   journal, verdict, exports, failed, overdue, ghosts>>
FitStarted ==
    /\ Moves("fit_started", "update") /\ BeforeDeadline
    /\ OnlyMoves

-----------------------------------------------------------------------------
\* One update: FitRecorder.update with the hooks of the two recorders.

BeginUpdate ==
    /\ Moves("update", "before") /\ completed < MaxUpdates /\ ~boundary.failed /\ BeforeDeadline
    /\ record' = 1 /\ status' = "not_started" /\ pieces' = 0
    /\ boundary' = [BoundaryIdle EXCEPT !.committed = boundary.committed]
    /\ UNCHANGED <<protected, epoch_index, batch_index, live, completed, selected, evidence, failed, overdue, ghosts>>

SnapshotBefore ==
    /\ Moves("before", "started") /\ Save("before")
    /\ UNCHANGED <<protected, cursor, status, optimizer, completed, pieces, selected,
                   journal, verdict, exports, failed, overdue, ghosts>>

\* The update_started event; then the gradients are cleared.
UpdateStarted ==
    /\ Moves("started", "record")
    /\ OnlyMoves

RecordingStarted ==
    /\ Moves("record", "forward") /\ BeforeDeadline
    /\ OnlyMoves

\* ObservedTransport.run for the next term of the recording.
Transport ==
    /\ pc = "forward" /\ BeforeDeadline
    /\ pieces' = pieces + 1
    /\ pc' = IF pieces' = record * Terms THEN "weighted" ELSE "forward"
    /\ UNCHANGED <<protected, cursor, status, optimizer, completed, selected, evidence, failed, overdue, ghosts>>

RecordGradient ==
    /\ Moves("weighted", "recorded") /\ NoteReceipts("record_gradient", Terms)
    /\ UNCHANGED <<protected, cursor, status, optimizer, completed, pieces, selected,
                   snapshots, verdict, exports, failed, overdue, ghosts>>

RecordingCompleted ==
    /\ pc = "recorded" /\ BeforeDeadline
    /\ NoteReceipts("recording", 1)
    /\ IF record < Recordings
       THEN record' = record + 1 /\ pc' = "record"
       ELSE record' = record /\ pc' = "clip"
    /\ UNCHANGED <<protected, epoch_index, batch_index, status, optimizer, completed, pieces, selected,
                   snapshots, verdict, exports, failed, overdue, ghosts>>

\* Accumulate every recording, clip once, and arm the boundary with the count.
ClipAccumulated ==
    /\ Moves("clip", "prepare") /\ BeforeDeadline
    /\ pieces = Recordings * Terms
    /\ protected => boundary.stage = "idle" /\ ~boundary.armed
    /\ boundary' = [boundary EXCEPT !.armed = protected]
    /\ UNCHANGED <<protected, cursor, status, live, completed, pieces, selected, evidence, failed, overdue, ghosts>>

\* Mutant: the cursor is left alone until the optimizer has returned.
PrepareStepUnmarked ==
    /\ Moves("prepare", IF protected THEN "propose" ELSE "stepping")
    /\ OnlyMoves
\* The durable intent, then the cursor says that the optimizer was entered.
PrepareStep ==
    /\ Moves("prepare", IF protected THEN "propose" ELSE "stepping")
    /\ status' = "entered"
    /\ UNCHANGED <<protected, cursor, optimizer, completed, pieces, selected, evidence, failed, overdue, ghosts>>

-----------------------------------------------------------------------------
\* ProtectedAdamW.step; every stage is journaled between two deadline checks.

ProposalStarted ==
    /\ Moves("propose", "protect") /\ BeforeDeadline
    /\ boundary.stage = "idle" /\ boundary.armed
    /\ boundary' = [boundary EXCEPT !.stage = "proposal_started", !.old = live]
    /\ UNCHANGED <<protected, cursor, status, live, completed, pieces, selected, evidence, failed, overdue, ghosts>>

\* AdamW on clones, then protect(): the checked candidate may be the old weights.
ProtectProposal ==
    /\ Moves("protect", "persist")
    /\ \E weights \in {live.weights, completed + 1} :
          boundary' = [boundary EXCEPT !.candidate = weights]
    /\ UNCHANGED <<protected, cursor, status, live, completed, pieces, selected, evidence, failed, overdue, ghosts>>

PersistProposal ==
    /\ Moves("persist", "commit") /\ BeforeDeadline
    /\ boundary' = [boundary EXCEPT !.stage = "prepared"]
    /\ snapshots' = [snapshots EXCEPT !["proposal"] = [Snapshot EXCEPT !.boundary = boundary']]
    /\ UNCHANGED <<protected, cursor, status, live, completed, pieces, selected,
                   journal, verdict, exports, failed, overdue, ghosts>>

CommitStarted ==
    /\ Moves("commit", "copying") /\ BeforeDeadline
    /\ boundary' = [boundary EXCEPT !.stage = "commit_started"]
    /\ UNCHANGED <<protected, cursor, status, live, completed, pieces, selected, evidence, failed, overdue, ghosts>>

CopyFirst ==
    /\ Moves("copying", "copied")
    /\ live' = [live EXCEPT !.weights = IF boundary.candidate = @ THEN @ ELSE Mixed]
    /\ UNCHANGED <<protected, cursor, status, boundary, completed, pieces, selected, evidence, failed, overdue, ghosts>>

\* The rest of the tensors, their verification, and the swap of the moments.
CopyRest ==
    /\ Moves("copied", "swapped")
    /\ live' = [weights |-> boundary.candidate, moments |-> live.moments + 1]
    /\ UNCHANGED <<protected, cursor, status, boundary, completed, pieces, selected, evidence, failed, overdue, ghosts>>

CountCommit ==
    /\ Moves("swapped", "committed")
    /\ boundary' = [boundary EXCEPT !.committed = @ + 1]
    /\ UNCHANGED <<protected, cursor, status, live, completed, pieces, selected, evidence, failed, overdue, ghosts>>

MarkCommitted ==
    /\ Moves("committed", "stepped") /\ BeforeDeadline
    /\ boundary' = [boundary EXCEPT !.stage = "committed"]
    /\ UNCHANGED <<protected, cursor, status, live, completed, pieces, selected, evidence, failed, overdue, ghosts>>

\* The plain AdamW of the scaled fit writes the live tensors in place.
AdamWBegins ==
    /\ Moves("stepping", "in_step")
    /\ live' = [weights |-> Mixed, moments |-> Mixed]
    /\ boundary' = [boundary EXCEPT !.old = live]
    /\ UNCHANGED <<protected, cursor, status, completed, pieces, selected, evidence, failed, overdue, ghosts>>
AdamWReturns ==
    /\ Moves("in_step", "stepped")
    /\ live' = [weights |-> completed + 1, moments |-> boundary.old.moments + 1]
    /\ UNCHANGED <<protected, cursor, status, boundary, completed, pieces, selected, evidence, failed, overdue, ghosts>>

-----------------------------------------------------------------------------
\* The optimizer has returned.

CountUpdate ==
    /\ Moves("stepped", "post")
    /\ completed' = completed + 1 /\ status' = "returned"
    /\ truth' = Append(truth, live.weights)
    /\ UNCHANGED <<protected, cursor, optimizer, pieces, selected, evidence, failed, overdue, scores, interrupted>>

\* Post-step losses and the protected_step receipt, or the finiteness checks.
AfterReturn ==
    /\ Moves("post", "after") /\ BeforeDeadline
    /\ NoteReceipts("protected_step", IF protected THEN 1 ELSE 0)
    /\ UNCHANGED <<protected, cursor, status, optimizer, completed, pieces, selected,
                   snapshots, verdict, exports, failed, overdue, ghosts>>

\* Mutant: only the last update of an epoch is saved.
SnapshotAfterEpoch ==
    /\ Moves("after", "complete")
    /\ IF batch_index = RegisteredBatches THEN Save("after") ELSE UNCHANGED snapshots
    /\ UNCHANGED <<protected, cursor, status, optimizer, completed, pieces, selected,
                   journal, verdict, exports, failed, overdue, ghosts>>
SnapshotAfter ==
    /\ Moves("after", "complete") /\ Save("after")
    /\ UNCHANGED <<protected, cursor, status, optimizer, completed, pieces, selected,
                   journal, verdict, exports, failed, overdue, ghosts>>

UpdateCompleted ==
    /\ Moves("complete", "timing") /\ NoteReceipts("update_completed", 1)
    /\ UNCHANGED <<protected, cursor, status, optimizer, completed, pieces, selected,
                   snapshots, verdict, exports, failed, overdue, ghosts>>

\* The update_timing event, then the next batch or the development recordings.
UpdateTiming ==
    /\ pc = "timing"
    /\ IF batch_index < RegisteredBatches
       THEN batch_index' = batch_index + 1 /\ pc' = "update"
       ELSE batch_index' = 1 /\ pc' = "development"
    /\ UNCHANGED <<protected, epoch_index, record, status, optimizer, completed, pieces, selected,
                   evidence, failed, overdue, ghosts>>

-----------------------------------------------------------------------------
\* Development and selection.

\* The recorder clears the evidence of the batch before it looks at development.
BeginDevelopment ==
    /\ Moves("development", "score") /\ ~boundary.failed
    /\ pieces' = 0 /\ status' = "not_started"
    /\ boundary' = [BoundaryIdle EXCEPT !.committed = boundary.committed]
    /\ UNCHANGED <<protected, cursor, live, completed, selected, evidence, failed, overdue, ghosts>>

DevelopmentRecord ==
    /\ Moves("score", "aggregate") /\ BeforeDeadline
    /\ OnlyMoves

\* The work mean of a complete epoch, with the deadline checked before checkpoint.
Aggregate ==
    /\ Moves("aggregate", "select") /\ BeforeDeadline
    /\ OnlyMoves

\* checkpoint(): the strictly lower loss wins, so the earlier epoch wins a tie.
SelectCheckpoint(loss) ==
    /\ pc = "select"
    /\ scores' = Append(scores, loss)
    /\ IF selected = Missing \/ loss < selected.loss
       THEN /\ selected' = [epoch |-> epoch_index, loss |-> loss, weights |-> live.weights, completed |-> completed]
            /\ pc' = "save_best"
       ELSE selected' = selected /\ pc' = "epoch_journal"
    /\ UNCHANGED <<protected, cursor, status, optimizer, completed, pieces, evidence, failed, overdue, truth, interrupted>>

SnapshotBest ==
    /\ Moves("save_best", "best_event") /\ Save("best")
    /\ UNCHANGED <<protected, cursor, status, optimizer, completed, pieces, selected,
                   journal, verdict, exports, failed, overdue, ghosts>>
BestEvent ==
    /\ Moves("best_event", "epoch_journal")
    /\ OnlyMoves

EpochJournal ==
    /\ pc = "epoch_journal" /\ BeforeDeadline
    /\ IF epoch_index < RegisteredEpochs
       THEN epoch_index' = epoch_index + 1 /\ pc' = "update"
       ELSE epoch_index' = epoch_index /\ pc' = "export"
    /\ UNCHANGED <<protected, batch_index, record, status, optimizer, completed, pieces, selected,
                   evidence, failed, overdue, ghosts>>

-----------------------------------------------------------------------------
\* Export of the selected weights and the evidence of the whole fit.

\* Mutant: the weights of the last epoch are exported.
LoadBestForgets ==
    /\ Moves("export", "weights") /\ BeforeDeadline
    /\ completed = MaxUpdates /\ Len(scores) = RegisteredEpochs
    /\ OnlyMoves
LoadBest ==
    /\ Moves("export", "weights") /\ BeforeDeadline
    /\ completed = MaxUpdates /\ Len(scores) = RegisteredEpochs
    /\ live' = [live EXCEPT !.weights = selected.weights]
    /\ UNCHANGED <<protected, cursor, status, boundary, completed, pieces, selected, evidence, failed, overdue, ghosts>>

ExportWeights ==
    /\ Moves("weights", "receipts")
    /\ exports' = [exports EXCEPT !.weights = live.weights]
    /\ UNCHANGED <<protected, cursor, status, optimizer, completed, pieces, selected,
                   snapshots, journal, verdict, failed, overdue, ghosts>>

\* conditioning() of the journal, as it is read back from the disk.
CheckReceipts ==
    /\ Moves("receipts", "report") /\ BeforeDeadline
    /\ journal["update_completed"] = MaxUpdates
    /\ journal["record_gradient"] = MaxUpdates * Recordings * Terms
    /\ OnlyMoves

WriteReport ==
    /\ Moves("report", "return") /\ BeforeDeadline
    /\ exports' = [exports EXCEPT !.report = TRUE]
    /\ UNCHANGED <<protected, cursor, status, optimizer, completed, pieces, selected,
                   snapshots, journal, verdict, failed, overdue, ghosts>>

ReturnFit ==
    /\ Moves("return", "returned") /\ BeforeDeadline
    /\ OnlyMoves

-----------------------------------------------------------------------------
\* Failures.

\* An exception leaves the constructor: there is no recorder to close.
RaiseInCreation ==
    /\ pc \in Creating /\ pc' = "error"
    /\ OnlyMoves

\* An exception outside the recorder's calls: the fit hands it to abort_external.
RaiseInFit ==
    /\ pc \in InFit /\ pc' = "aborting"
    /\ OnlyMoves

\* An exception under the guard; inside step() the boundary closes itself first.
RaiseInGuard ==
    /\ pc \in InGuard \ {"copying", "copied"}
    /\ pc' = "failing" /\ failed' = TRUE
    /\ boundary' = [boundary EXCEPT !.failed = pc \in InBoundary]
    /\ interrupted' = (pc = "swapped")
    /\ UNCHANGED <<protected, cursor, status, live, completed, pieces, selected, evidence, overdue, truth, scores>>

\* An exception between the first live write and the swap of the moments.
RaiseInCopy ==
    /\ pc \in {"copying", "copied"} /\ pc' = "rollback"
    /\ boundary' = [boundary EXCEPT !.rollback = "attempted"]
    /\ UNCHANGED <<protected, cursor, status, live, completed, pieces, selected, evidence, failed, overdue, ghosts>>

RollbackRestores ==
    /\ Moves("rollback", "failing") /\ failed' = TRUE
    /\ live' = boundary.old
    /\ boundary' = [boundary EXCEPT !.rollback = "restored", !.failed = TRUE]
    /\ UNCHANGED <<protected, cursor, status, completed, pieces, selected, evidence, overdue, ghosts>>
\* Mutant: the second exception is swallowed without a word.
RollbackFailsQuietly ==
    /\ Moves("rollback", "failing") /\ failed' = TRUE
    /\ \E weights \in {boundary.old.weights, boundary.candidate, Mixed} :
          live' = [live EXCEPT !.weights = weights]
    /\ boundary' = [boundary EXCEPT !.rollback = "restored", !.failed = TRUE]
    /\ UNCHANGED <<protected, cursor, status, completed, pieces, selected, evidence, overdue, ghosts>>
RollbackFails ==
    /\ Moves("rollback", "failing") /\ failed' = TRUE
    /\ \E weights \in {boundary.old.weights, boundary.candidate, Mixed} :
          live' = [live EXCEPT !.weights = weights]
    /\ boundary' = [boundary EXCEPT !.rollback = "failed_unknown", !.failed = TRUE]
    /\ UNCHANGED <<protected, cursor, status, completed, pieces, selected, evidence, overdue, ghosts>>

AbortExternal ==
    /\ Moves("aborting", "failing") /\ ~failed /\ failed' = TRUE
    /\ UNCHANGED <<protected, cursor, status, optimizer, completed, pieces, selected, evidence, overdue, ghosts>>

\* The handler's own attempts may fail too; the first exception is kept.
SnapshotFailure ==
    /\ Moves("failing", "noting")
    /\ Save("failure") \/ UNCHANGED snapshots
    /\ UNCHANGED <<protected, cursor, status, optimizer, completed, pieces, selected,
                   journal, verdict, exports, failed, overdue, ghosts>>
NoteFailure ==
    /\ Moves("noting", "error")
    /\ verdict' \in {Missing, status # "entered"}
    /\ UNCHANGED <<protected, cursor, status, optimizer, completed, pieces, selected,
                   snapshots, journal, exports, failed, overdue, ghosts>>

DeadlinePasses ==
    /\ ~overdue /\ overdue' = TRUE /\ pc \notin Ended
    /\ UNCHANGED <<protected, pc, cursor, status, optimizer, completed, pieces, selected, evidence, failed, ghosts>>

KillFit ==
    /\ pc \notin Ended /\ pc' = "killed"
    /\ OnlyMoves

-----------------------------------------------------------------------------

RecordedUpdate ==
    \/ BeginUpdate \/ SnapshotBefore \/ UpdateStarted \/ RecordingStarted \/ Transport
    \/ RecordGradient \/ RecordingCompleted \/ ClipAccumulated \/ PrepareStep
    \/ CountUpdate \/ AfterReturn \/ SnapshotAfter \/ UpdateCompleted \/ UpdateTiming
Optimizer ==
    \/ ProposalStarted \/ ProtectProposal \/ PersistProposal \/ CommitStarted
    \/ CopyFirst \/ CopyRest \/ CountCommit \/ MarkCommitted
    \/ AdamWBegins \/ AdamWReturns
Selection ==
    \/ BeginDevelopment \/ DevelopmentRecord \/ Aggregate
    \/ \E loss \in DevelopmentLosses : SelectCheckpoint(loss)
    \/ SnapshotBest \/ BestEvent \/ EpochJournal
ExportFit == LoadBest \/ ExportWeights \/ CheckReceipts \/ WriteReport \/ ReturnFit
Failure ==
    \/ RaiseInCreation \/ RaiseInFit \/ RaiseInGuard \/ RaiseInCopy
    \/ RollbackRestores \/ RollbackFails \/ AbortExternal \/ SnapshotFailure \/ NoteFailure
    \/ DeadlinePasses \/ KillFit

RecorderNext ==
    \/ CreateOutput \/ SnapshotInitial \/ FitStarted
    \/ RecordedUpdate \/ Optimizer \/ Selection \/ ExportFit \/ Failure

RecorderSpec == RecorderInit /\ [][RecorderNext]_recorder_vars

-----------------------------------------------------------------------------

Weights == 0..MaxUpdates \cup {Mixed}

\* The weights and moments after n returned updates.
After(n) == [weights |-> truth[n + 1], moments |-> n]

\* Every update boundary on disk holds the weights and moments of exactly the
\* updates it counts, whatever happens to the process, and it is never older
\* than the update in flight; a journaled receipt is never ahead of its snapshot.
BoundariesOnDisk ==
    /\ \A name \in {"initial", "before", "after", "proposal"} :
          snapshots[name] # Missing => snapshots[name].live = After(snapshots[name].completed)
    /\ pc \notin Creating /\ completed > 0 =>
          \E name \in {"before", "after"} :
             snapshots[name] # Missing /\ snapshots[name].completed + 1 >= completed
    /\ journal["update_completed"] > 0 =>
          snapshots["after"] # Missing /\ snapshots["after"].completed >= journal["update_completed"]

\* Live tensors differ from the last returned update only inside an optimizer
\* call the cursor calls entered (or once the selected weights are loaded), and
\* by then the disk holds the state before it; the protected fit also holds the
\* one candidate they may be on the way to.
WritesAreCovered ==
    live # After(completed) /\ exports.weights = Missing /\ pc \notin {"weights", "receipts"} =>
       \/ /\ status = "entered"
          /\ snapshots["before"] # Missing /\ snapshots["before"].live = After(completed)
          /\ protected =>
                /\ snapshots["proposal"] # Missing /\ snapshots["proposal"].completed = completed
                /\ live.weights \in {Mixed, truth[completed + 1], snapshots["proposal"].boundary.candidate}
       \/ completed = MaxUpdates /\ live = [After(completed) EXCEPT !.weights = selected.weights]

\* What the failure snapshot tells of the optimizer call it was taken in: how many
\* steps its tensors have seen, or that nobody can know.
StepsTold(f) ==
    IF f.status # "entered" THEN f.completed
    ELSE IF ~protected THEN Mixed
    ELSE IF f.boundary.rollback = "failed_unknown" THEN Mixed
    ELSE f.boundary.committed

\* The failure snapshot tells the truth: the tensors it holds have seen the steps
\* it tells of and are whole, and restored, uncommitted and committed proposals are
\* told apart; an interrupt between state swap and count is the one exception. A failure
\* journaled as exact left the optimizer at exactly the counted updates.
FailureTells ==
    /\ snapshots["failure"] # Missing /\ ~interrupted =>
       LET f == snapshots["failure"] IN
       /\ StepsTold(f) # Mixed => f.live.moments = StepsTold(f) /\ f.live.weights # Mixed
       /\ f.boundary.committed \in (IF protected THEN {f.completed, f.completed + 1} ELSE {0})
       /\ f.boundary.rollback = "restored" => f.live = After(f.completed)
    /\ verdict = TRUE => live.moments = completed /\ live.weights # Mixed

\* The selected checkpoint is the earliest minimum over the complete epochs.
EarliestMinimum(checkpoint, seen) ==
    /\ checkpoint.epoch \in 1..Len(seen)
    /\ checkpoint.loss = seen[checkpoint.epoch]
    /\ \A e \in 1..Len(seen) : checkpoint.loss <= seen[e]
    /\ \A e \in 1..(checkpoint.epoch - 1) : checkpoint.loss < seen[e]
    /\ checkpoint.completed = checkpoint.epoch * RegisteredBatches
    /\ checkpoint.weights = truth[checkpoint.completed + 1]

\* The selection is the earliest minimum, in memory and in best.pt but for the moment
\* between selecting and saving; and evidence of a fit is written only for a complete one:
\* every receipt is in the journal, every protected step was committed, and the exported
\* weights are the selected ones.
ReportIsComplete ==
    /\ scores # <<>> => selected # Missing /\ EarliestMinimum(selected, scores)
    /\ snapshots["best"] # Missing =>
          \E n \in 1..Len(scores) : EarliestMinimum(snapshots["best"].best, SubSeq(scores, 1, n))
    /\ pc \in {"update", "export"} \cup Ended /\ ~failed /\ pc # "killed" /\ scores # <<>> =>
          snapshots["best"].best = selected
    /\ exports.report =>
          /\ journal["update_completed"] = MaxUpdates /\ completed = MaxUpdates
          /\ journal["recording"] = MaxUpdates * Recordings
          /\ journal["record_gradient"] = MaxUpdates * Recordings * Terms
          /\ protected => boundary.committed = MaxUpdates /\ journal["protected_step"] = MaxUpdates
          /\ Len(scores) = RegisteredEpochs /\ exports.weights = selected.weights
=============================================================================
