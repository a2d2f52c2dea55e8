----------------------- MODULE ExperimentLoops_proofs -----------------------
(***************************************************************************)
(* What the loops of the experiments leave and export, for any number of   *)
(* epochs, batches, members and runs, and any budget, failure or kill.     *)
(*                                                                         *)
(* LoopOK speaks of finished fits only.  It follows from what is true on   *)
(* the way: the weights are those of the epochs entered and the batches    *)
(* since (ProgressInv), every entry is of the epoch it says (EntriesInv),  *)
(* and the entry remembered is the first of the lowest (BestInv).  That a  *)
(* lowest admissible entry exists at all needs a least element of a set of *)
(* numbers (LeastOf).                                                      *)
(*                                                                         *)
(* SeparatedOK needs how often each trainer has learned by the place the   *)
(* fit has come to (CountInv), what is kept of the epochs measured by then *)
(* (ChoiceInv), and that a snapshot equal to the weights precedes the step *)
(* (BracketInv).                                                           *)
(*                                                                         *)
(* PoolOK is inductive but for what a run knows of its own progress: the   *)
(* members behind it are good (BehindInv), which is what a lock rests on;  *)
(* only a verification runs over a lock (LockInv); the next request is due *)
(* an interval after the last (DueInv); and every request was for another  *)
(* member that was nowhere, behind or under way (AskedInv).                *)
(*                                                                         *)
(* The recorded fit comes first, on its own specification, for any plan,   *)
(* any losses, any exception, deadline or kill, and for both recorders.    *)
(* None of its four properties is inductive.  They follow from what is     *)
(* true at every place of the fit: how many updates and scores there are   *)
(* (PlaceInv), where the optimizer and its boundary are (StepInv), what    *)
(* the live tensors hold (LiveInv), which snapshots are there by then and  *)
(* of what (DiskInv, CoverInv), the receipts written so far (JournalInv,   *)
(* ReportInv), the selection (SelectInv), and, once a call has raised,     *)
(* that the cursor and the boundary still tell how far the optimizer came  *)
(* (TellInv).                                                              *)
(*                                                                         *)
(* Together the four loops are LoopsInv: one runs, and the others were not *)
(* begun.                                                                  *)
(***************************************************************************)
EXTENDS ExperimentLoops, FiniteSetTheorems, WellFoundedInduction, TLAPS

\* The places of a fit that has not failed, in the order in which it comes to them.
Starting == {"create", "initial", "fit_started"}
Preparing == {"before", "started", "record", "forward", "weighted", "recorded", "clip", "prepare"}
Stepping == {"propose", "protect", "persist", "commit", "copying", "copied", "swapped",
             "committed", "stepping", "in_step", "stepped"}
Counted == {"post", "after", "complete"}
Measuring == {"development", "score", "aggregate", "select"}
Selecting == {"save_best", "best_event", "epoch_journal"}
Loaded == {"weights", "receipts", "report", "return", "returned"}
Training == Starting \cup Preparing \cup Stepping \cup {"update"}
Going == Training \cup Counted \cup {"timing"} \cup Measuring \cup Selecting \cup {"export"} \cup Loaded
Failing == {"aborting", "failing", "noting", "error", "killed"}
Places == Going \cup {"rollback"} \cup Failing

\* Types, and the initial weights and those after each returned update.
Types ==
    /\ protected \in BOOLEAN /\ pc \in Places
    /\ epoch_index \in 1..RegisteredEpochs /\ batch_index \in 1..RegisteredBatches /\ record \in 1..Recordings
    /\ status \in {"not_started", "entered", "returned"}
    /\ live \in Tensors /\ completed \in Nat /\ boundary \in BoundaryFields /\ pieces \in Nat
    /\ selected \in Checkpoints \cup {Missing}
    /\ snapshots \in [Snapshots -> Payloads \cup {Missing}]
    /\ journal \in [Receipts -> Nat]
    /\ verdict \in BOOLEAN \cup {Missing}
    /\ exports \in [weights : Nat \cup {Missing}, report : BOOLEAN]
    /\ failed \in BOOLEAN /\ overdue \in BOOLEAN /\ interrupted \in BOOLEAN
    /\ truth \in Seq(Nat) /\ Len(truth) = completed + 1
    /\ scores \in Seq(Nat)

\* How many updates and scores there are by where the fit is.
PlaceInv ==
    /\ Len(scores) * RegisteredBatches <= completed
    /\ pc \in Training => completed = (epoch_index - 1) * RegisteredBatches + batch_index - 1
    /\ pc \in Counted \cup {"timing"} => completed = (epoch_index - 1) * RegisteredBatches + batch_index
    /\ pc \in Measuring \cup Selecting => completed = epoch_index * RegisteredBatches /\ batch_index = 1
    /\ pc \in Training \cup Counted \cup {"timing"} \cup Measuring => Len(scores) = epoch_index - 1
    /\ pc \in Selecting => Len(scores) = epoch_index
    /\ pc \in Loaded \cup {"export"} => completed = MaxUpdates /\ Len(scores) = RegisteredEpochs

\* The places inside the protected optimizer, with a candidate, and with it copied.
ToProtected == {"propose", "protect", "persist", "commit", "copying", "copied", "swapped", "committed"}
Candidate == {"persist", "commit", "copying", "copied", "swapped", "committed", "rollback"}
Copied == {"swapped", "committed"}

\* Where the optimizer is.
StepInv ==
    /\ pc \in Going \ Stepping => status # "entered"
    /\ pc \in Stepping \cup {"rollback"} => status = "entered"
    /\ pc \in ToProtected \cup {"rollback"} => protected
    /\ pc \in {"stepping", "in_step"} => ~protected
    /\ pc \in Candidate \/ (pc = "stepped" /\ protected) => boundary.candidate \in Nat
    /\ pc \in {"protect", "persist", "commit", "copying", "copied", "rollback", "in_step"} =>
          boundary.old = After(completed)
    /\ pc \in Going => boundary.rollback = "none"
    /\ boundary.committed \in (IF protected THEN {completed, completed + 1} ELSE {0})
    /\ protected /\ (pc = "committed" \/ pc = "stepped") => boundary.committed = completed + 1
    /\ protected /\ pc \in (Going \cup {"rollback"}) \ {"committed", "stepped"} => boundary.committed = completed

\* What the live tensors are.
LiveInv ==
    /\ pc \in Going \ ({"copied", "in_step", "stepped"} \cup Copied \cup Loaded) => live = After(completed)
    /\ pc \in {"copied", "rollback"} => live.moments = completed /\ live.weights \in {truth[completed + 1], Mixed}
    /\ pc \in Copied \/ (pc = "stepped" /\ protected) =>
          live = [weights |-> boundary.candidate, moments |-> completed + 1]
    /\ pc = "stepped" /\ ~protected => live.weights = completed + 1 /\ live.moments = completed + 1
    /\ pc \in Loaded => live = [weights |-> selected.weights, moments |-> completed]

\* What is on disk, and what is there before the optimizer may write.
KeptOnDisk(name) ==
    snapshots[name] # Missing =>
       snapshots[name].completed <= completed /\ snapshots[name].live = After(snapshots[name].completed)
DiskInv ==
    /\ \A name \in {"initial", "before", "after", "proposal"} : KeptOnDisk(name)
    /\ pc \in (Preparing \ {"before"}) \cup Stepping \cup {"rollback"} =>
          snapshots["before"] # Missing /\ snapshots["before"].completed = completed
    /\ completed > 0 => snapshots["before"] # Missing /\ snapshots["before"].completed + 1 >= completed
    /\ pc \in Candidate \ {"persist"} \/ (pc = "stepped" /\ protected) =>
          /\ snapshots["proposal"] # Missing /\ snapshots["proposal"].completed = completed
          /\ snapshots["proposal"].boundary.candidate = boundary.candidate
    /\ pc = "complete" => snapshots["after"] # Missing /\ snapshots["after"].completed = completed
    /\ journal["update_completed"] > 0 =>
          snapshots["after"] # Missing /\ snapshots["after"].completed >= journal["update_completed"]

\* WritesAreCovered, while the selected weights are exported too.
CoverInv ==
    live # After(completed) =>
       \/ /\ status = "entered"
          /\ snapshots["before"] # Missing /\ snapshots["before"].live = After(completed)
          /\ protected =>
                /\ snapshots["proposal"] # Missing /\ snapshots["proposal"].completed = completed
                /\ live.weights \in {Mixed, truth[completed + 1], snapshots["proposal"].boundary.candidate}
       \/ completed = MaxUpdates /\ selected # Missing /\ live = [weights |-> selected.weights, moments |-> completed]

\* The receipts in the journal.
JournalInv ==
    /\ pc \in Going \ Counted => journal["update_completed"] = completed
    /\ pc \in Counted => journal["update_completed"] = completed - 1
    /\ pc \in Going \ (Preparing \cup Stepping) => journal["recording"] = completed * Recordings
    /\ pc \in {"before", "started"} => journal["recording"] = completed * Recordings /\ record = 1
    /\ pc \in {"record", "forward", "weighted", "recorded"} =>
          journal["recording"] = completed * Recordings + record - 1
    /\ pc \in {"clip", "prepare"} \cup Stepping => journal["recording"] = completed * Recordings + Recordings
    /\ protected =>
          /\ pc \in Going \ {"post"} => journal["protected_step"] = completed
          /\ pc = "post" => journal["protected_step"] = completed - 1
    /\ pc \in {"report", "return", "returned"} =>
          journal["record_gradient"] = MaxUpdates * Recordings * Terms
    /\ pc \in Loaded \ {"weights"} => exports.weights = selected.weights

\* The report is written last, when everything it speaks of is there.
ReportInv ==
    exports.report =>
          /\ pc \in {"return", "returned"} \cup Failing
          /\ journal["update_completed"] = MaxUpdates /\ completed = MaxUpdates
          /\ journal["recording"] = MaxUpdates * Recordings
          /\ journal["record_gradient"] = MaxUpdates * Recordings * Terms
          /\ protected => boundary.committed = MaxUpdates /\ journal["protected_step"] = MaxUpdates
          /\ Len(scores) = RegisteredEpochs /\ exports.weights = selected.weights

\* The selection.
SelectInv ==
    /\ scores = <<>> => selected = Missing
    /\ scores # <<>> => selected # Missing /\ EarliestMinimum(selected, scores)
    /\ snapshots["best"] # Missing =>
          \E n \in 1..Len(scores) : EarliestMinimum(snapshots["best"].best, SubSeq(scores, 1, n))
    /\ pc \in Going \ {"save_best"} /\ scores # <<>> =>
          snapshots["best"] # Missing /\ snapshots["best"].best = selected

\* What the failure evidence may be made of.
Truthful ==
    /\ status # "entered" => live.moments = completed /\ live.weights # Mixed
    /\ status = "entered" /\ protected /\ boundary.rollback # "failed_unknown" /\ ~interrupted =>
          live.moments = boundary.committed /\ live.weights # Mixed
    /\ boundary.rollback = "restored" => live = After(completed)
\* What is told of a failure is true from the moment it is raised.
TellInv ==
    /\ pc \in {"aborting", "failing", "noting", "error"} => Truthful
    /\ snapshots["failure"] # Missing =>
          /\ pc \in {"noting", "error", "killed"} /\ Truthful
          /\ snapshots["failure"].completed = completed /\ snapshots["failure"].live = live
          /\ snapshots["failure"].status = status /\ snapshots["failure"].boundary = boundary
    /\ verdict # Missing => pc = "error"
    /\ verdict = TRUE => status # "entered"
    /\ pc \in Going \cup {"rollback"} => ~failed
    /\ pc = "aborting" => status # "entered"
    /\ pc \in Starting => scores = <<>>
    /\ pc \in {"failing", "noting", "error"} => failed \/ scores = <<>>

\* The inductive invariant.
RecorderInv ==
    /\ Types /\ PlaceInv /\ StepInv /\ LiveInv /\ DiskInv /\ CoverInv
    /\ JournalInv /\ ReportInv /\ SelectInv /\ TellInv

-----------------------------------------------------------------------------
\* The actions one by one.
LEMMA Actions ==
    ASSUME RecorderNext
    PROVE  \/ CreateOutput \/ SnapshotInitial \/ FitStarted
           \/ BeginUpdate \/ SnapshotBefore \/ UpdateStarted \/ RecordingStarted \/ Transport
           \/ RecordGradient \/ RecordingCompleted \/ ClipAccumulated \/ PrepareStep
           \/ ProposalStarted \/ ProtectProposal \/ PersistProposal \/ CommitStarted
           \/ CopyFirst \/ CopyRest \/ CountCommit \/ MarkCommitted \/ AdamWBegins \/ AdamWReturns
           \/ CountUpdate \/ AfterReturn \/ SnapshotAfter \/ UpdateCompleted \/ UpdateTiming
           \/ BeginDevelopment \/ DevelopmentRecord \/ Aggregate
           \/ (\E loss \in DevelopmentLosses : SelectCheckpoint(loss))
           \/ SnapshotBest \/ BestEvent \/ EpochJournal
           \/ LoadBest \/ ExportWeights \/ CheckReceipts \/ WriteReport \/ ReturnFit
           \/ RaiseInCreation \/ RaiseInFit \/ RaiseInGuard \/ RaiseInCopy \/ RollbackRestores
           \/ RollbackFails \/ AbortExternal \/ SnapshotFailure \/ NoteFailure
           \/ DeadlinePasses \/ KillFit
  BY DEF RecorderNext, RecordedUpdate, Optimizer, Selection, ExportFit, Failure

\* The plan has epochs, batches and recordings.
LEMMA Plan ==
    /\ RegisteredEpochs \in Nat /\ RegisteredBatches \in Nat /\ Recordings \in Nat
    /\ RegisteredEpochs > 0 /\ RegisteredBatches > 0 /\ Recordings > 0
    /\ MaxUpdates \in Nat /\ MaxUpdates = RegisteredEpochs * RegisteredBatches
  BY BoundsAssumption DEF MaxUpdates

\* Every action keeps the counts of updates and scores.
LEMMA PlaceKeeps == ASSUME RecorderInv, RecorderNext PROVE PlaceInv'
<1> USE DEF RecorderInv, PlaceInv, Moves, OnlyMoves, cursor, evidence, ghosts, Going, Training,
     Starting, Preparing, Stepping, Counted, Measuring, Selecting, Loaded, Failing, Creating,
     InBoundary, InGuard, InFit, Ended
<1>1. completed \in Nat /\ epoch_index \in 1..RegisteredEpochs /\ batch_index \in 1..RegisteredBatches
      /\ scores \in Seq(Nat) /\ Len(scores) \in Nat
  BY DEF Types
<1>2. CASE CountUpdate
  BY <1>1, <1>2, Plan DEF CountUpdate
<1>3. CASE UpdateTiming
  BY <1>1, <1>3, Plan DEF UpdateTiming
<1>4. CASE \E loss \in DevelopmentLosses : SelectCheckpoint(loss)
  <2>1. PICK loss \in DevelopmentLosses : SelectCheckpoint(loss)
    BY <1>4
  <2>2. loss \in Nat /\ Len(scores') = Len(scores) + 1
    BY <1>1, <2>1, BoundsAssumption DEF SelectCheckpoint
  <2>3. (epoch_index - 1 + 1) * RegisteredBatches = epoch_index * RegisteredBatches
    BY <1>1, Plan
  <2>4. QED
    BY <1>1, <2>1, <2>2, <2>3 DEF SelectCheckpoint
<1>5. CASE EpochJournal
  BY <1>1, <1>5, Plan DEF EpochJournal
<1>6. CASE LoadBest
  BY <1>6 DEF LoadBest
<1>7. CASE \/ CreateOutput \/ SnapshotInitial \/ FitStarted
           \/ BeginUpdate \/ SnapshotBefore \/ UpdateStarted \/ RecordingStarted \/ Transport
           \/ RecordGradient \/ RecordingCompleted \/ ClipAccumulated \/ PrepareStep
           \/ ProposalStarted \/ ProtectProposal \/ PersistProposal \/ CommitStarted
           \/ CopyFirst \/ CopyRest \/ CountCommit \/ MarkCommitted \/ AdamWBegins \/ AdamWReturns
           \/ AfterReturn \/ SnapshotAfter \/ UpdateCompleted
           \/ BeginDevelopment \/ DevelopmentRecord \/ Aggregate
           \/ SnapshotBest \/ BestEvent
           \/ ExportWeights \/ CheckReceipts \/ WriteReport \/ ReturnFit
           \/ RaiseInCreation \/ RaiseInFit \/ RaiseInGuard \/ RaiseInCopy \/ RollbackRestores
           \/ RollbackFails \/ AbortExternal \/ SnapshotFailure \/ NoteFailure
           \/ DeadlinePasses \/ KillFit
  BY <1>7 DEF CreateOutput, SnapshotInitial, FitStarted, BeginUpdate, SnapshotBefore,
         UpdateStarted, RecordingStarted, Transport, RecordGradient, RecordingCompleted,
         ClipAccumulated, PrepareStep, ProposalStarted, ProtectProposal, PersistProposal,
         CommitStarted, CopyFirst, CopyRest, CountCommit, MarkCommitted, AdamWBegins,
         AdamWReturns, AfterReturn, SnapshotAfter, UpdateCompleted, BeginDevelopment,
         DevelopmentRecord, Aggregate, SnapshotBest, BestEvent, ExportWeights, CheckReceipts,
         WriteReport, ReturnFit, RaiseInCreation, RaiseInFit, RaiseInGuard, RaiseInCopy,
         RollbackRestores, RollbackFails, AbortExternal, SnapshotFailure, NoteFailure,
         DeadlinePasses, KillFit
<1>8. QED
  BY <1>2, <1>3, <1>4, <1>5, <1>6, <1>7, Actions

\* Where the optimizer is follows from the place and the boundary.
LEMMA StepKeeps == ASSUME RecorderInv, RecorderNext PROVE StepInv'
<1> USE DEF RecorderInv, StepInv, Moves, OnlyMoves, cursor, optimizer, evidence, ghosts,
     ToProtected, Candidate, Going, Training, Starting, Preparing, Stepping, Counted, Measuring,
     Selecting, Loaded, Failing, Creating, InBoundary, InGuard, InFit, Ended
<1>1. /\ boundary \in BoundaryFields /\ protected \in BOOLEAN /\ completed \in Nat /\ live \in Tensors
      /\ truth \in Seq(Nat) /\ Len(truth) = completed + 1
  BY DEF Types
<1>2. CASE BeginUpdate \/ BeginDevelopment
  BY <1>1, <1>2 DEF BeginUpdate, BeginDevelopment, BoundaryIdle, BoundaryFields
<1>3. CASE PrepareStep \/ ClipAccumulated
  BY <1>1, <1>3 DEF PrepareStep, ClipAccumulated, BoundaryFields
<1>4. CASE ProposalStarted \/ AdamWBegins
  <2>1. /\ live = After(completed) /\ After(completed)' = After(completed) /\ pc' \in {"protect", "in_step"}
        /\ pc = "propose" => protected /\ pc' = "protect"
        /\ pc = "stepping" => ~protected /\ pc' = "in_step"
        /\ pc \in {"propose", "stepping"}
    BY <1>4 DEF ProposalStarted, AdamWBegins, LiveInv, Copied, After
  <2>2. /\ boundary'.old = live /\ boundary'.rollback = boundary.rollback
        /\ boundary'.committed = boundary.committed
    BY <1>1, <1>4 DEF ProposalStarted, AdamWBegins, BoundaryFields
  <2>3. UNCHANGED <<protected, status, completed>>
    BY <1>4 DEF ProposalStarted, AdamWBegins
  <2>4. QED
    BY <1>1, <2>1, <2>2, <2>3
<1>5. CASE ProtectProposal
  <2>1. live.weights \in Nat
    BY <1>1, <1>5 DEF ProtectProposal, LiveInv, Copied, After
  <2>2. QED
    BY <1>1, <1>5, <2>1 DEF ProtectProposal, BoundaryFields, After
<1>6. CASE PersistProposal \/ CommitStarted \/ MarkCommitted
  BY <1>1, <1>6 DEF PersistProposal, CommitStarted, MarkCommitted, BoundaryFields, After
<1>7. CASE CountCommit
  BY <1>1, <1>7 DEF CountCommit, BoundaryFields, After
<1>8. CASE CountUpdate
  BY <1>1, <1>8 DEF CountUpdate
<1>9. CASE RaiseInGuard
  BY <1>1, <1>9 DEF RaiseInGuard, BoundaryFields
<1>10. CASE RaiseInCopy
  BY <1>1, <1>10 DEF RaiseInCopy, BoundaryFields, After
<1>11. CASE RollbackRestores \/ RollbackFails
  <2>1. pc = "rollback" /\ pc' = "failing" /\ UNCHANGED <<protected, status, completed>>
    BY <1>11 DEF RollbackRestores, RollbackFails
  <2>2. boundary'.committed = boundary.committed
    <3>1. CASE RollbackRestores
      BY <1>1, <3>1 DEF RollbackRestores, BoundaryFields
    <3>2. CASE RollbackFails
      BY <1>1, <3>2 DEF RollbackFails, BoundaryFields
    <3>3. QED
      BY <1>11, <3>1, <3>2
  <2>3. QED
    BY <1>1, <2>1, <2>2
<1>12. CASE \E loss \in DevelopmentLosses : SelectCheckpoint(loss)
  BY <1>12 DEF SelectCheckpoint
<1>13. CASE \/ CreateOutput \/ SnapshotInitial \/ FitStarted
            \/ SnapshotBefore \/ UpdateStarted \/ RecordingStarted \/ Transport
            \/ RecordGradient \/ RecordingCompleted
            \/ CopyFirst \/ CopyRest \/ AdamWReturns
            \/ AfterReturn \/ SnapshotAfter \/ UpdateCompleted \/ UpdateTiming
            \/ DevelopmentRecord \/ Aggregate \/ SnapshotBest \/ BestEvent \/ EpochJournal
            \/ LoadBest \/ ExportWeights \/ CheckReceipts \/ WriteReport \/ ReturnFit
            \/ RaiseInCreation \/ RaiseInFit \/ AbortExternal \/ SnapshotFailure \/ NoteFailure
            \/ DeadlinePasses \/ KillFit
  BY <1>13 DEF CreateOutput, SnapshotInitial, FitStarted, SnapshotBefore, UpdateStarted,
         RecordingStarted, Transport, RecordGradient, RecordingCompleted, CopyFirst, CopyRest,
         AdamWReturns, AfterReturn, SnapshotAfter, UpdateCompleted, UpdateTiming,
         DevelopmentRecord, Aggregate, SnapshotBest, BestEvent, EpochJournal, LoadBest,
         ExportWeights, CheckReceipts, WriteReport, ReturnFit, RaiseInCreation, RaiseInFit,
         AbortExternal, SnapshotFailure, NoteFailure, DeadlinePasses, KillFit, After
<1>14. QED
  BY <1>2, <1>3, <1>4, <1>5, <1>6, <1>7, <1>8, <1>9, <1>10, <1>11, <1>12, <1>13, Actions

\* So do the live tensors.
LEMMA LiveKeeps == ASSUME RecorderInv, RecorderNext PROVE LiveInv'
<1> USE DEF RecorderInv, LiveInv, Moves, OnlyMoves, cursor, optimizer, evidence, ghosts, Copied,
     Going, Training, Starting, Preparing, Stepping, Counted, Measuring, Selecting, Loaded,
     Failing, Creating, InBoundary, InGuard, InFit, Ended
<1>1. /\ live \in Tensors /\ protected \in BOOLEAN /\ completed \in Nat
      /\ truth \in Seq(Nat) /\ Len(truth) = completed + 1 /\ boundary \in BoundaryFields
  BY DEF Types
<1>2. CASE CopyFirst
  BY <1>1, <1>2 DEF CopyFirst, After, Tensors
<1>3. CASE CopyRest
  BY <1>1, <1>3 DEF CopyRest, After
<1>4. CASE AdamWBegins
  BY <1>1, <1>4 DEF AdamWBegins, After
<1>5. CASE AdamWReturns
  <2>1. boundary.old.moments = completed
    BY <1>5 DEF AdamWReturns, StepInv, After
  <2>2. ~protected
    BY <1>5 DEF AdamWReturns, StepInv
  <2>3. QED
    BY <1>1, <1>5, <2>1, <2>2 DEF AdamWReturns
<1>6. CASE CountUpdate
  <2>1. live.weights \in Nat /\ live.moments = completed + 1
    BY <1>1, <1>6 DEF CountUpdate, StepInv, Candidate
  <2>2. /\ completed' = completed + 1 /\ truth'[completed' + 1] = live.weights
        /\ live' = live /\ pc' = "post"
    BY <1>1, <1>6, <2>1 DEF CountUpdate
  <2>3. live = [weights |-> live.weights, moments |-> live.moments]
    BY <1>1 DEF Tensors
  <2>4. QED
    BY <2>1, <2>2, <2>3 DEF After
<1>7. CASE LoadBest
  <2>1. live = After(completed)
    BY <1>7 DEF LoadBest
  <2>2. QED
    BY <1>7, <2>1 DEF LoadBest, After
<1>8. CASE MarkCommitted
  BY <1>1, <1>8 DEF MarkCommitted, StepInv, ToProtected, BoundaryFields
<1>9. CASE CountCommit
  BY <1>1, <1>9 DEF CountCommit, StepInv, BoundaryFields
<1>10. CASE RaiseInCopy
  BY <1>1, <1>10 DEF RaiseInCopy, After
<1>11. CASE RollbackRestores \/ RollbackFails
  BY <1>11 DEF RollbackRestores, RollbackFails
<1>12. CASE \E loss \in DevelopmentLosses : SelectCheckpoint(loss)
  BY <1>12 DEF SelectCheckpoint, After
<1>13. CASE \/ CreateOutput \/ SnapshotInitial \/ FitStarted
            \/ BeginUpdate \/ SnapshotBefore \/ UpdateStarted \/ RecordingStarted \/ Transport
            \/ RecordGradient \/ RecordingCompleted \/ ClipAccumulated \/ PrepareStep
            \/ ProposalStarted \/ ProtectProposal \/ PersistProposal \/ CommitStarted
            \/ AfterReturn \/ SnapshotAfter \/ UpdateCompleted \/ UpdateTiming
            \/ BeginDevelopment \/ DevelopmentRecord \/ Aggregate \/ SnapshotBest \/ BestEvent \/ EpochJournal
            \/ ExportWeights \/ CheckReceipts \/ WriteReport \/ ReturnFit
            \/ RaiseInCreation \/ RaiseInFit \/ RaiseInGuard \/ AbortExternal \/ SnapshotFailure \/ NoteFailure
            \/ DeadlinePasses \/ KillFit
  BY <1>13 DEF CreateOutput, SnapshotInitial, FitStarted, BeginUpdate, SnapshotBefore,
         UpdateStarted, RecordingStarted, Transport, RecordGradient, RecordingCompleted,
         ClipAccumulated, PrepareStep, ProposalStarted, ProtectProposal, PersistProposal,
         CommitStarted, AfterReturn, SnapshotAfter, UpdateCompleted, UpdateTiming,
         BeginDevelopment, DevelopmentRecord, Aggregate, SnapshotBest, BestEvent, EpochJournal,
         ExportWeights, CheckReceipts, WriteReport, ReturnFit, RaiseInCreation, RaiseInFit,
         RaiseInGuard, AbortExternal, SnapshotFailure, NoteFailure, DeadlinePasses, KillFit, After
<1>14. QED
  BY <1>2, <1>3, <1>4, <1>5, <1>6, <1>7, <1>8, <1>9, <1>10, <1>11, <1>12, <1>13, Actions

\* A snapshot is a record, which Missing is not; saving one leaves the others as they are.
LEMMA SnapshotIsThere ==
    ASSUME Types
    PROVE  /\ Snapshot \in Payloads /\ Snapshot # Missing
           /\ Snapshot.completed = completed /\ Snapshot.live = live /\ Snapshot.best = selected
           /\ Snapshot.status = status /\ Snapshot.boundary = boundary
           /\ \A b \in BoundaryFields :
                 LET proposal == [Snapshot EXCEPT !.boundary = b]
                 IN  /\ proposal \in Payloads /\ proposal # Missing
                     /\ proposal.completed = completed /\ proposal.live = live /\ proposal.boundary = b
<1>1. Snapshot \in Payloads
  BY DEF Types, Snapshot, Payloads
<1>2. \A b \in BoundaryFields : [Snapshot EXCEPT !.boundary = b] \in Payloads
  BY <1>1 DEF Payloads
<1>3. QED
  BY <1>1, <1>2, MissingAssumption DEF Snapshot

\* Saving under a name.
LEMMA SaveSavesOne ==
    ASSUME Types, NEW name \in Snapshots, NEW payload, snapshots' = [snapshots EXCEPT ![name] = payload]
    PROVE  /\ snapshots'[name] = payload
           /\ \A other \in Snapshots \ {name} : snapshots'[other] = snapshots[other]
  BY DEF Types

\* No update changes what earlier ones left.
LEMMA TruthStays ==
    ASSUME RecorderInv, RecorderNext
    PROVE  /\ completed' \in Nat /\ completed <= completed'
           /\ \A n \in 0..completed : truth'[n + 1] = truth[n + 1]
<1>1. completed \in Nat /\ truth \in Seq(Nat) /\ Len(truth) = completed + 1
  BY DEF RecorderInv, Types
<1>2. CASE CountUpdate
  <2>1. truth' = Append(truth, live.weights) /\ completed' = completed + 1
    BY <1>2 DEF CountUpdate
  <2>2. \A n \in 0..completed : truth'[n + 1] = truth[n + 1]
    BY <1>1, <2>1
  <2>3. QED
    BY <1>1, <2>1, <2>2
<1>3. CASE UNCHANGED <<truth, completed>>
  BY <1>1, <1>3
<1>4. CASE ~CountUpdate
  <2>1. UNCHANGED <<truth, completed>>
    BY <1>4, Actions
       DEF CreateOutput, SnapshotInitial, FitStarted, BeginUpdate, SnapshotBefore, UpdateStarted,
           RecordingStarted, Transport, RecordGradient, RecordingCompleted, ClipAccumulated,
           PrepareStep, ProposalStarted, ProtectProposal, PersistProposal, CommitStarted,
           CopyFirst, CopyRest, CountCommit, MarkCommitted, AdamWBegins, AdamWReturns,
           AfterReturn, SnapshotAfter, UpdateCompleted, UpdateTiming, BeginDevelopment,
           DevelopmentRecord, Aggregate, SelectCheckpoint, SnapshotBest, BestEvent, EpochJournal,
           LoadBest, ExportWeights, CheckReceipts, WriteReport, ReturnFit, RaiseInCreation,
           RaiseInFit, RaiseInGuard, RaiseInCopy, RollbackRestores, RollbackFails, AbortExternal,
           SnapshotFailure, NoteFailure, DeadlinePasses, KillFit, OnlyMoves, ghosts
  <2>2. QED
    BY <1>3, <2>1
<1>5. QED
  BY <1>2, <1>4

\* A boundary on disk stays one while it is not overwritten, and one is saved only of the
\* state after the updates counted.
LEMMA OneKept ==
    ASSUME RecorderInv, RecorderNext, NEW name \in {"initial", "before", "after", "proposal"},
           snapshots'[name] = snapshots[name]
    PROVE  KeptOnDisk(name)'
<1>1. CASE snapshots[name] = Missing
  BY <1>1 DEF KeptOnDisk
<1>2. CASE snapshots[name] # Missing
  <2> DEFINE n == snapshots[name].completed
  <2>1. snapshots[name] \in Payloads
    BY <1>2 DEF RecorderInv, Types, Snapshots
  <2>2. n \in Nat /\ completed \in Nat
    BY <2>1 DEF Payloads, RecorderInv, Types
  <2>3. n <= completed /\ snapshots[name].live = [weights |-> truth[n + 1], moments |-> n]
    BY <1>2 DEF RecorderInv, DiskInv, KeptOnDisk, After
  <2>4. n <= completed' /\ truth'[n + 1] = truth[n + 1]
    BY <2>2, <2>3, TruthStays
  <2>5. snapshots'[name].completed = n /\ snapshots'[name].live = [weights |-> truth'[n + 1], moments |-> n]
    BY <2>3, <2>4
  <2>6. QED
    BY <2>4, <2>5 DEF KeptOnDisk, After
<1>3. QED
  BY <1>1, <1>2
LEMMA NowKept ==
    ASSUME RecorderInv, NEW name \in Snapshots, live = After(completed), UNCHANGED <<completed, truth>>,
           snapshots'[name].completed = completed, snapshots'[name].live = live
    PROVE  KeptOnDisk(name)'
  BY DEF KeptOnDisk, After, RecorderInv, Types

\* Every action keeps what is on disk.
LEMMA DiskKeeps == ASSUME RecorderInv, RecorderNext PROVE DiskInv'
<1> USE DEF RecorderInv, Moves, OnlyMoves, cursor, optimizer, evidence, ghosts, Copied, Candidate,
     Going, Training, Starting, Preparing, Stepping, Counted, Measuring, Selecting, Loaded,
     Failing, Creating, InBoundary, InGuard, InFit, Ended
<1>1. /\ completed \in Nat /\ boundary \in BoundaryFields /\ Types
      /\ journal \in [Receipts -> Nat]
  BY DEF Types
<1>2. CASE SnapshotInitial
  <2>1. snapshots'["initial"] = Snapshot /\ live = After(completed)
    BY <1>1, <1>2, SaveSavesOne DEF SnapshotInitial, Save, LiveInv, Snapshots
  <2>2. \A name \in {"before", "after", "proposal"} : snapshots'[name] = snapshots[name]
    BY <1>1, <1>2, SaveSavesOne DEF SnapshotInitial, Save, Snapshots
  <2>3. KeptOnDisk("initial")'
    BY <1>1, <1>2, <2>1, SnapshotIsThere, NowKept DEF SnapshotInitial, Snapshots
  <2>4. \A name \in {"before", "after", "proposal"} : KeptOnDisk(name)'
    BY <2>2, OneKept
  <2>5. QED
    BY <1>1, <1>2, <2>2, <2>3, <2>4 DEF SnapshotInitial, DiskInv
<1>3. CASE SnapshotBefore
  <2>1. snapshots'["before"] = Snapshot /\ live = After(completed)
    BY <1>1, <1>3, SaveSavesOne DEF SnapshotBefore, Save, LiveInv, Snapshots
  <2>2. \A name \in {"initial", "after", "proposal"} : snapshots'[name] = snapshots[name]
    BY <1>1, <1>3, SaveSavesOne DEF SnapshotBefore, Save, Snapshots
  <2>3. KeptOnDisk("before")'
    BY <1>1, <1>3, <2>1, SnapshotIsThere, NowKept DEF SnapshotBefore, Snapshots
  <2>4. \A name \in {"initial", "after", "proposal"} : KeptOnDisk(name)'
    BY <2>2, OneKept
  <2>5. snapshots'["before"] # Missing /\ snapshots'["before"].completed = completed
    BY <1>1, <2>1, SnapshotIsThere
  <2>6. QED
    BY <1>1, <1>3, <2>2, <2>3, <2>4, <2>5 DEF SnapshotBefore, DiskInv
<1>4. CASE SnapshotAfter
  <2>1. snapshots'["after"] = Snapshot /\ live = After(completed)
    BY <1>1, <1>4, SaveSavesOne DEF SnapshotAfter, Save, LiveInv, Snapshots
  <2>2. \A name \in {"initial", "before", "proposal"} : snapshots'[name] = snapshots[name]
    BY <1>1, <1>4, SaveSavesOne DEF SnapshotAfter, Save, Snapshots
  <2>3. KeptOnDisk("after")'
    BY <1>1, <1>4, <2>1, SnapshotIsThere, NowKept DEF SnapshotAfter, Snapshots
  <2>4. \A name \in {"initial", "before", "proposal"} : KeptOnDisk(name)'
    BY <2>2, OneKept
  <2>5. snapshots'["after"] # Missing /\ snapshots'["after"].completed = completed
    BY <1>1, <2>1, SnapshotIsThere
  <2>6. journal["update_completed"] = completed - 1
    BY <1>4 DEF SnapshotAfter, JournalInv
  <2>7. QED
    BY <1>1, <1>4, <2>2, <2>3, <2>4, <2>5, <2>6 DEF SnapshotAfter, DiskInv
<1>5. CASE PersistProposal
  <2> DEFINE proposal == [Snapshot EXCEPT !.boundary = boundary']
  <2>1. boundary' \in BoundaryFields /\ boundary'.candidate = boundary.candidate
    BY <1>1, <1>5 DEF PersistProposal, BoundaryFields, BoundaryStages
  <2>2. /\ proposal # Missing /\ proposal.completed = completed
        /\ proposal.live = live /\ proposal.boundary = boundary'
    BY <1>1, <2>1, SnapshotIsThere
  <2>3. snapshots' = [snapshots EXCEPT !["proposal"] = proposal]
    BY <1>5 DEF PersistProposal
  <2> HIDE DEF proposal
  <2>4. snapshots'["proposal"] = proposal /\ live = After(completed)
    BY <1>1, <1>5, <2>3, SaveSavesOne DEF PersistProposal, LiveInv, Snapshots
  <2>5. \A name \in {"initial", "before", "after"} : snapshots'[name] = snapshots[name]
    BY <1>1, <2>3, SaveSavesOne DEF Snapshots
  <2>6. KeptOnDisk("proposal")'
    BY <1>1, <1>5, <2>2, <2>4, NowKept DEF PersistProposal, Snapshots
  <2>7. \A name \in {"initial", "before", "after"} : KeptOnDisk(name)'
    BY <2>5, OneKept
  <2>8. QED
    BY <1>1, <1>5, <2>1, <2>2, <2>4, <2>5, <2>6, <2>7 DEF PersistProposal, DiskInv
<1>6. CASE SnapshotBest \/ SnapshotFailure
  <2>1. \A name \in {"initial", "before", "after", "proposal"} : snapshots'[name] = snapshots[name]
    BY <1>1, <1>6, SaveSavesOne DEF SnapshotBest, SnapshotFailure, Save, Snapshots
  <2>2. \A name \in {"initial", "before", "after", "proposal"} : KeptOnDisk(name)'
    BY <2>1, OneKept
  <2>3. QED
    BY <1>1, <1>6, <2>1, <2>2 DEF SnapshotBest, SnapshotFailure, DiskInv
<1>7. ASSUME UNCHANGED snapshots
      PROVE  \A name \in {"initial", "before", "after", "proposal"} : KeptOnDisk(name)'
  BY <1>7, OneKept
<1>8. CASE CountUpdate
  <2>1. UNCHANGED <<snapshots, journal>> /\ pc = "stepped" /\ pc' = "post" /\ completed' = completed + 1
    BY <1>8 DEF CountUpdate
  <2>2. QED
    BY <1>1, <1>7, <2>1 DEF DiskInv
<1>9. CASE UpdateCompleted
  <2>1. /\ UNCHANGED <<snapshots, completed, boundary>> /\ pc = "complete" /\ pc' = "timing"
        /\ journal'["update_completed"] = journal["update_completed"] + 1
    BY <1>1, <1>9 DEF UpdateCompleted, NoteReceipts, Receipts
  <2>2. journal["update_completed"] = completed - 1
    BY <2>1 DEF JournalInv
  <2>3. QED
    BY <1>1, <1>7, <2>1, <2>2 DEF DiskInv
<1>10. CASE RecordGradient \/ RecordingCompleted \/ AfterReturn
  <2>1. /\ UNCHANGED <<snapshots, completed, protected, boundary>>
        /\ journal'["update_completed"] = journal["update_completed"]
    BY <1>1, <1>10 DEF RecordGradient, RecordingCompleted, AfterReturn, NoteReceipts, Receipts
  <2>2. QED
    BY <1>1, <1>7, <1>10, <2>1 DEF RecordGradient, RecordingCompleted, AfterReturn, DiskInv
<1>11. CASE BeginUpdate \/ BeginDevelopment
  BY <1>1, <1>7, <1>11 DEF BeginUpdate, BeginDevelopment, DiskInv
<1>12. CASE ProposalStarted \/ ProtectProposal \/ CommitStarted \/ CountCommit \/ MarkCommitted
            \/ ClipAccumulated
  BY <1>1, <1>7, <1>12 DEF ProposalStarted, ProtectProposal, CommitStarted, CountCommit,
         MarkCommitted, ClipAccumulated, DiskInv, BoundaryFields
<1>13. CASE AdamWBegins \/ AdamWReturns
  <2>1. ~protected
    BY <1>13 DEF AdamWBegins, AdamWReturns, StepInv
  <2>2. QED
    BY <1>1, <1>7, <1>13, <2>1 DEF AdamWBegins, AdamWReturns, DiskInv
<1>14. CASE RaiseInGuard \/ RaiseInCopy \/ RollbackRestores \/ RollbackFails
  <2>1. /\ UNCHANGED <<snapshots, completed, protected, journal>>
        /\ pc' = "failing" \/ (pc' = "rollback" /\ pc \in {"copying", "copied"})
    BY <1>14 DEF RaiseInGuard, RaiseInCopy, RollbackRestores, RollbackFails
  <2>2. RaiseInCopy => boundary'.candidate = boundary.candidate
    BY <1>1 DEF RaiseInCopy, BoundaryFields
  <2>3. pc' = "rollback" => RaiseInCopy
    BY <1>14 DEF RaiseInGuard, RaiseInCopy, RollbackRestores, RollbackFails, RaiseInCopy,
         RaiseInCopy, RaiseInCopy
  <2>4. QED
    BY <1>1, <1>7, <2>1, <2>2, <2>3 DEF DiskInv
<1>15. CASE \E loss \in DevelopmentLosses : SelectCheckpoint(loss)
  BY <1>7, <1>15 DEF SelectCheckpoint, DiskInv
<1>16. CASE \/ CreateOutput \/ FitStarted \/ UpdateStarted \/ RecordingStarted \/ Transport
            \/ PrepareStep \/ CopyFirst \/ CopyRest \/ UpdateTiming
            \/ DevelopmentRecord \/ Aggregate \/ BestEvent \/ EpochJournal
            \/ LoadBest \/ ExportWeights \/ CheckReceipts \/ WriteReport \/ ReturnFit
            \/ RaiseInCreation \/ RaiseInFit \/ AbortExternal \/ NoteFailure
            \/ DeadlinePasses \/ KillFit
  BY <1>1, <1>7, <1>16 DEF CreateOutput, FitStarted, UpdateStarted, RecordingStarted, Transport,
         PrepareStep, CopyFirst, CopyRest, UpdateTiming, DevelopmentRecord, Aggregate, BestEvent,
         EpochJournal, LoadBest, ExportWeights, CheckReceipts, WriteReport, ReturnFit,
         RaiseInCreation, RaiseInFit, AbortExternal, NoteFailure, DeadlinePasses, KillFit, DiskInv
<1>17. QED
  BY <1>2, <1>3, <1>4, <1>5, <1>6, <1>8, <1>9, <1>10, <1>11, <1>12, <1>13, <1>14, <1>15, <1>16,
     Actions

\* Until the fit fails, where it is and what is on disk cover what it writes.
LEMMA GoingIsCovered ==
    Types /\ PlaceInv /\ StepInv /\ LiveInv /\ DiskInv /\ SelectInv /\ pc \in Going \cup {"rollback"} => CoverInv
<1> SUFFICES ASSUME Types, PlaceInv, StepInv, LiveInv, DiskInv, SelectInv, pc \in Going \cup {"rollback"}
             PROVE  CoverInv
  OBVIOUS
<1> USE DEF Copied, Candidate, ToProtected, Going, Training, Starting, Preparing, Stepping,
     Counted, Measuring, Selecting, Loaded, Failing
<1>1. /\ completed \in Nat /\ protected \in BOOLEAN /\ live \in Tensors
      /\ truth \in Seq(Nat) /\ Len(truth) = completed + 1
  BY DEF Types
<1>2. CASE pc \in Loaded
  <2>1. Len(scores) > 0
    BY <1>2, Plan DEF PlaceInv
  <2>2. scores # <<>>
    BY <2>1
  <2>3. QED
    BY <1>2, <2>2 DEF CoverInv, PlaceInv, LiveInv, SelectInv
<1>3. CASE pc \notin Loaded \cup {"copied", "rollback", "in_step", "stepped"} \cup Copied
  BY <1>3 DEF CoverInv, LiveInv
<1>4. CASE pc \in {"copied", "rollback", "in_step", "stepped"} \cup Copied
  <2>1. status = "entered"
    BY <1>4 DEF StepInv
  <2>2. snapshots["before"] # Missing /\ snapshots["before"].live = After(completed)
    BY <1>4 DEF DiskInv, KeptOnDisk
  <2>3. ASSUME protected
        PROVE  /\ snapshots["proposal"] # Missing /\ snapshots["proposal"].completed = completed
               /\ snapshots["proposal"].boundary.candidate = boundary.candidate
    BY <1>4, <2>3 DEF DiskInv, StepInv
  <2>4. ASSUME protected
        PROVE  live.weights \in {Mixed, truth[completed + 1], boundary.candidate}
    BY <1>4, <2>4 DEF LiveInv, StepInv
  <2>5. QED
    BY <2>1, <2>2, <2>3, <2>4 DEF CoverInv
<1>5. QED
  BY <1>2, <1>3, <1>4

\* After a failure nothing moves but what is rolled back.
LEMMA CoverKeeps ==
    ASSUME RecorderInv, RecorderNext, Types', PlaceInv', StepInv', LiveInv', DiskInv', SelectInv'
    PROVE  CoverInv'
<1>1. Types' /\ PlaceInv' /\ StepInv' /\ LiveInv' /\ DiskInv' /\ SelectInv' /\ (pc \in Going \cup {"rollback"})'
      => CoverInv'
  BY GoingIsCovered, PTL
<1>2. CASE pc' \in Going \cup {"rollback"}
  BY <1>1, <1>2 DEF Going, Training, Starting, Preparing, Stepping, Counted, Measuring, Selecting,
     Loaded
<1>3. CASE pc' \in Failing
  <2>1. CASE RollbackRestores \/ RollbackFails
    <3>1. pc = "rollback" /\ UNCHANGED <<snapshots, completed, protected, truth, status>>
      BY <2>1 DEF RollbackRestores, RollbackFails, Moves, evidence, ghosts
    <3>2. /\ status = "entered" /\ protected /\ boundary.old = After(completed)
          /\ snapshots["before"] # Missing /\ snapshots["before"].completed = completed
          /\ snapshots["proposal"] # Missing /\ snapshots["proposal"].completed = completed
          /\ snapshots["proposal"].boundary.candidate = boundary.candidate
      BY <3>1 DEF RecorderInv, StepInv, DiskInv, Candidate
    <3>3. snapshots["before"].live = After(completed)
      BY <3>2 DEF RecorderInv, DiskInv, KeptOnDisk
    <3>4. boundary.old.weights = truth[completed + 1] /\ live \in Tensors
      BY <3>2 DEF After, RecorderInv, Types
    <3>5. live'.weights \in {Mixed, truth[completed + 1], boundary.candidate}
      <4>1. CASE RollbackRestores
        BY <3>4, <4>1 DEF RollbackRestores
      <4>2. CASE RollbackFails
        BY <3>4, <4>2 DEF RollbackFails, Tensors
      <4>3. QED
        BY <2>1, <4>1, <4>2
    <3>6. QED
      BY <3>1, <3>2, <3>3, <3>5 DEF CoverInv, After
  <2>2. CASE RaiseInCreation \/ RaiseInFit \/ RaiseInGuard \/ AbortExternal \/ NoteFailure
             \/ DeadlinePasses \/ KillFit \/ SnapshotFailure
    <3>1. /\ UNCHANGED <<live, completed, protected, truth, status, selected>>
          /\ snapshots'["before"] = snapshots["before"] /\ snapshots'["proposal"] = snapshots["proposal"]
      BY <2>2, SaveSavesOne
         DEF RollbackRestores, RollbackFails, RollbackRestores, RollbackFails, RollbackRestores,
         RollbackRestores, RollbackFails, RollbackFails, RaiseInCreation, RaiseInFit,
         RaiseInGuard, AbortExternal, NoteFailure, DeadlinePasses, KillFit, SnapshotFailure, Save,
         Snapshots, OnlyMoves, cursor, optimizer, evidence, ghosts, RecorderInv
    <3>2. QED
      BY <3>1 DEF RecorderInv, CoverInv, After
  <2>3. QED
    BY <1>3, <2>1, <2>2, Actions
       DEF CreateOutput, SnapshotInitial, FitStarted, BeginUpdate, SnapshotBefore, UpdateStarted,
           RecordingStarted, Transport, RecordGradient, RecordingCompleted, ClipAccumulated,
           PrepareStep, ProposalStarted, ProtectProposal, PersistProposal, CommitStarted,
           CopyFirst, CopyRest, CountCommit, MarkCommitted, AdamWBegins, AdamWReturns,
           CountUpdate, AfterReturn, SnapshotAfter, UpdateCompleted, UpdateTiming,
           BeginDevelopment, DevelopmentRecord, Aggregate, SelectCheckpoint, SnapshotBest,
           BestEvent, EpochJournal, LoadBest, ExportWeights, CheckReceipts, WriteReport,
           ReturnFit, RaiseInCopy, Moves, Going, Training, Starting, Preparing, Stepping, Counted,
           Measuring, Selecting, Loaded, Failing
<1>4. QED
  BY <1>2, <1>3 DEF Types, Places

\* The receipts are in step with the updates.
LEMMA JournalKeeps == ASSUME RecorderInv, RecorderNext PROVE JournalInv'
<1> USE DEF RecorderInv, JournalInv, Moves, OnlyMoves, cursor, evidence, ghosts, Going, Training,
     Starting, Preparing, Stepping, Counted, Measuring, Selecting, Loaded, Failing
<1>1. /\ completed \in Nat /\ record \in 1..Recordings /\ protected \in BOOLEAN
      /\ journal \in [Receipts -> Nat]
      /\ exports \in [weights : Nat \cup {Missing}, report : BOOLEAN]
  BY DEF Types
<1>2. CASE RecordGradient
  <2>1. UNCHANGED <<protected, completed, record, exports, selected>> /\ pc = "weighted" /\ pc' = "recorded"
    BY <1>2 DEF RecordGradient
  <2>2. \A r \in Receipts \ {"record_gradient"} : journal'[r] = journal[r]
    BY <1>1, <1>2 DEF RecordGradient, NoteReceipts
  <2>3. QED
    BY <1>1, <2>1, <2>2 DEF Receipts
<1>3. CASE RecordingCompleted
  <2>1. /\ UNCHANGED <<protected, completed, exports, selected>> /\ pc = "recorded"
        /\ (record' = record + 1 /\ pc' = "record") \/ (record = Recordings /\ pc' = "clip")
    BY <1>1, <1>3, Plan DEF RecordingCompleted
  <2>2. /\ \A r \in Receipts \ {"recording"} : journal'[r] = journal[r]
        /\ journal'["recording"] = journal["recording"] + 1
    BY <1>1, <1>3 DEF RecordingCompleted, NoteReceipts, Receipts
  <2>3. completed * Recordings \in Nat
    BY <1>1, Plan
  <2>4. QED
    BY <1>1, <2>1, <2>2, <2>3, Plan DEF Receipts
<1>4. CASE AfterReturn
  <2>1. UNCHANGED <<protected, completed, record, exports, selected>> /\ pc = "post" /\ pc' = "after"
    BY <1>4 DEF AfterReturn
  <2>2. /\ \A r \in Receipts \ {"protected_step"} : journal'[r] = journal[r]
        /\ protected => journal'["protected_step"] = journal["protected_step"] + 1
    BY <1>1, <1>4 DEF AfterReturn, NoteReceipts, Receipts
  <2>3. QED
    BY <1>1, <2>1, <2>2 DEF Receipts
<1>5. CASE UpdateCompleted
  <2>1. UNCHANGED <<protected, completed, record, exports, selected>> /\ pc = "complete" /\ pc' = "timing"
    BY <1>5 DEF UpdateCompleted
  <2>2. /\ \A r \in Receipts \ {"update_completed"} : journal'[r] = journal[r]
        /\ journal'["update_completed"] = journal["update_completed"] + 1
    BY <1>1, <1>5 DEF UpdateCompleted, NoteReceipts, Receipts
  <2>3. QED
    BY <1>1, <2>1, <2>2 DEF Receipts
<1>6. CASE CountUpdate
  <2>1. /\ UNCHANGED <<protected, journal, record, exports, selected>> /\ pc = "stepped" /\ pc' = "post"
        /\ completed' = completed + 1
    BY <1>6 DEF CountUpdate
  <2>2. (completed + 1) * Recordings = completed * Recordings + Recordings
    BY <1>1, Plan
  <2>3. QED
    BY <1>1, <2>1, <2>2
<1>7. CASE BeginUpdate
  BY <1>1, <1>7 DEF BeginUpdate
<1>8. CASE CheckReceipts
  BY <1>1, <1>8 DEF CheckReceipts, Terms
<1>9. CASE ExportWeights
  BY <1>1, <1>9 DEF ExportWeights, LiveInv
<1>10. CASE WriteReport
  BY <1>1, <1>10 DEF WriteReport, Terms
<1>11. CASE \E loss \in DevelopmentLosses : SelectCheckpoint(loss)
  BY <1>11 DEF SelectCheckpoint
<1>12. CASE UpdateStarted \/ RecordingStarted \/ Transport
  <2>1. completed * Recordings \in Nat
    BY <1>1, Plan
  <2>2. QED
    BY <1>1, <1>12, <2>1 DEF UpdateStarted, RecordingStarted, Transport
<1>13. CASE \/ CreateOutput \/ SnapshotInitial \/ FitStarted
            \/ SnapshotBefore \/ ClipAccumulated \/ PrepareStep
            \/ ProposalStarted \/ ProtectProposal \/ PersistProposal \/ CommitStarted
            \/ CopyFirst \/ CopyRest \/ CountCommit \/ MarkCommitted \/ AdamWBegins \/ AdamWReturns
            \/ SnapshotAfter \/ UpdateTiming
            \/ BeginDevelopment \/ DevelopmentRecord \/ Aggregate \/ SnapshotBest \/ BestEvent \/ EpochJournal
            \/ LoadBest \/ ReturnFit
            \/ RaiseInCreation \/ RaiseInFit \/ RaiseInGuard \/ RaiseInCopy \/ RollbackRestores
            \/ RollbackFails \/ AbortExternal \/ SnapshotFailure \/ NoteFailure
            \/ DeadlinePasses \/ KillFit
  BY <1>13 DEF CreateOutput, SnapshotInitial, FitStarted, SnapshotBefore, ClipAccumulated,
         PrepareStep, ProposalStarted, ProtectProposal, PersistProposal, CommitStarted,
         CopyFirst, CopyRest, CountCommit, MarkCommitted, AdamWBegins, AdamWReturns,
         SnapshotAfter, UpdateTiming, BeginDevelopment, DevelopmentRecord, Aggregate,
         SnapshotBest, BestEvent, EpochJournal, LoadBest, ReturnFit, RaiseInCreation, RaiseInFit,
         RaiseInGuard, RaiseInCopy, RollbackRestores, RollbackFails, AbortExternal,
         SnapshotFailure, NoteFailure, DeadlinePasses, KillFit, Terms
<1>14. QED
  BY <1>2, <1>3, <1>4, <1>5, <1>6, <1>7, <1>8, <1>9, <1>10, <1>11, <1>12, <1>13, Actions

\* The report is written when every receipt is in the journal, and nothing is done after it.
LEMMA ReportKeeps == ASSUME RecorderInv, RecorderNext PROVE ReportInv'
<1> USE DEF RecorderInv, ReportInv, Moves, OnlyMoves, cursor, optimizer, evidence, ghosts, Going,
     Training, Starting, Preparing, Stepping, Counted, Measuring, Selecting, Loaded, Failing
<1>1. /\ protected \in BOOLEAN /\ exports \in [weights : Nat \cup {Missing}, report : BOOLEAN]
  BY DEF Types
<1>2. CASE WriteReport
  BY <1>1, <1>2 DEF WriteReport, JournalInv, PlaceInv, StepInv, Terms
<1>3. CASE ExportWeights
  BY <1>1, <1>3 DEF ExportWeights
<1>4. CASE \E loss \in DevelopmentLosses : SelectCheckpoint(loss)
  BY <1>4 DEF SelectCheckpoint
<1>5. CASE \/ ReturnFit \/ RaiseInCreation \/ RaiseInFit \/ AbortExternal \/ SnapshotFailure \/ NoteFailure
           \/ DeadlinePasses \/ KillFit
  BY <1>5 DEF ReturnFit, RaiseInCreation, RaiseInFit, AbortExternal, SnapshotFailure,
         NoteFailure, DeadlinePasses, KillFit, Terms
<1>6. CASE \/ CreateOutput \/ SnapshotInitial \/ FitStarted
           \/ BeginUpdate \/ SnapshotBefore \/ UpdateStarted \/ RecordingStarted \/ Transport
           \/ RecordGradient \/ RecordingCompleted \/ ClipAccumulated \/ PrepareStep
           \/ ProposalStarted \/ ProtectProposal \/ PersistProposal \/ CommitStarted
           \/ CopyFirst \/ CopyRest \/ CountCommit \/ MarkCommitted \/ AdamWBegins \/ AdamWReturns
           \/ CountUpdate \/ AfterReturn \/ SnapshotAfter \/ UpdateCompleted \/ UpdateTiming
           \/ BeginDevelopment \/ DevelopmentRecord \/ Aggregate \/ SnapshotBest \/ BestEvent \/ EpochJournal
           \/ LoadBest \/ CheckReceipts
           \/ RaiseInGuard \/ RaiseInCopy \/ RollbackRestores \/ RollbackFails
  BY <1>6 DEF CreateOutput, SnapshotInitial, FitStarted, BeginUpdate, SnapshotBefore,
         UpdateStarted, RecordingStarted, Transport, RecordGradient, RecordingCompleted,
         ClipAccumulated, PrepareStep, ProposalStarted, ProtectProposal, PersistProposal,
         CommitStarted, CopyFirst, CopyRest, CountCommit, MarkCommitted, AdamWBegins,
         AdamWReturns, CountUpdate, AfterReturn, SnapshotAfter, UpdateCompleted, UpdateTiming,
         BeginDevelopment, DevelopmentRecord, Aggregate, SnapshotBest, BestEvent, EpochJournal,
         LoadBest, CheckReceipts, RaiseInGuard, RaiseInCopy, RollbackRestores, RollbackFails,
         Terms, Creating, InBoundary, InGuard, InFit, Ended
<1>7. QED
  BY <1>2, <1>3, <1>4, <1>5, <1>6, Actions

\* A checkpoint of the scored epochs rests on updates that were counted.
LEMMA CheckpointIsCounted ==
    ASSUME RecorderInv, NEW seen \in Seq(Nat), Len(seen) <= Len(scores), NEW checkpoint,
           EarliestMinimum(checkpoint, seen)
    PROVE  checkpoint.completed \in 0..completed
<1>1. /\ completed \in Nat /\ scores \in Seq(Nat) /\ Len(scores) \in Nat /\ Len(seen) \in Nat
      /\ Len(scores) * RegisteredBatches <= completed
  BY DEF RecorderInv, Types, PlaceInv
<1>2. checkpoint.epoch \in 1..Len(seen) /\ checkpoint.completed = checkpoint.epoch * RegisteredBatches
  BY DEF EarliestMinimum
<1>3. checkpoint.epoch \in Nat /\ checkpoint.epoch <= Len(scores)
  BY <1>1, <1>2
<1>4. \A a, b, c \in Nat : a <= b => a * c <= b * c /\ a * c \in Nat
  OBVIOUS
<1>5. checkpoint.epoch * RegisteredBatches <= Len(scores) * RegisteredBatches
  BY <1>1, <1>3, <1>4, Plan
<1>6. checkpoint.epoch * RegisteredBatches \in Nat /\ Len(scores) * RegisteredBatches \in Nat
  BY <1>1, <1>3, <1>4, Plan
<1>7. QED
  BY <1>1, <1>2, <1>5, <1>6

\* A longer sequence of losses has the same beginnings.
LEMMA Prefix ==
    ASSUME NEW seen \in Seq(Nat), NEW loss \in Nat
    PROVE  /\ SubSeq(seen, 1, Len(seen)) = seen
           /\ \A n \in 1..Len(seen) :
                 /\ SubSeq(seen, 1, n) \in Seq(Nat) /\ Len(SubSeq(seen, 1, n)) = n
                 /\ SubSeq(Append(seen, loss), 1, n) = SubSeq(seen, 1, n)
  OBVIOUS

\* A selection stays the earliest minimum while nothing is scored or selected.
LEMMA SelectStays ==
    ASSUME RecorderInv, RecorderNext, UNCHANGED <<scores, selected>>, snapshots'["best"] = snapshots["best"],
           pc' \in Going \ {"save_best"} => pc \in Going \ {"save_best"}
    PROVE  SelectInv'
<1>1. scores \in Seq(Nat) /\ Len(scores) \in Nat
  BY DEF RecorderInv, Types
<1>2. ASSUME scores # <<>> PROVE EarliestMinimum(selected, scores)'
  <2>1. EarliestMinimum(selected, scores)
    BY <1>2 DEF RecorderInv, SelectInv
  <2>2. selected.completed \in 0..completed
    BY <1>1, <2>1, CheckpointIsCounted
  <2>3. truth'[selected.completed + 1] = truth[selected.completed + 1]
    BY <2>2, TruthStays
  <2>4. QED
    BY <2>1, <2>3 DEF EarliestMinimum
<1>3. ASSUME snapshots["best"] # Missing
      PROVE  (\E n \in 1..Len(scores) : EarliestMinimum(snapshots["best"].best, SubSeq(scores, 1, n)))'
  <2> DEFINE kept == snapshots["best"].best
  <2>1. PICK n \in 1..Len(scores) : EarliestMinimum(kept, SubSeq(scores, 1, n))
    BY <1>3 DEF RecorderInv, SelectInv
  <2>2. SubSeq(scores, 1, n) \in Seq(Nat) /\ Len(SubSeq(scores, 1, n)) = n /\ n <= Len(scores)
    BY <1>1, Prefix
  <2>3. kept.completed \in 0..completed
    BY <2>1, <2>2, CheckpointIsCounted
  <2>4. truth'[kept.completed + 1] = truth[kept.completed + 1]
    BY <2>3, TruthStays
  <2>5. QED
    BY <2>1, <2>4 DEF EarliestMinimum
<1>4. QED
  BY <1>2, <1>3 DEF RecorderInv, SelectInv

\* Scoring, selecting and saving the selection.
LEMMA SelectKeeps == ASSUME RecorderInv, RecorderNext PROVE SelectInv'
<1> USE DEF RecorderInv, Moves, OnlyMoves, cursor, optimizer, evidence, ghosts, Going, Training,
     Starting, Preparing, Stepping, Counted, Measuring, Selecting, Loaded, Failing
<1>1. /\ scores \in Seq(Nat) /\ Len(scores) \in Nat /\ selected \in Checkpoints \cup {Missing}
      /\ epoch_index \in 1..RegisteredEpochs /\ completed \in Nat /\ Types
  BY DEF Types
<1>2. CASE \E loss \in DevelopmentLosses : SelectCheckpoint(loss)
  <2>1. PICK loss \in DevelopmentLosses : SelectCheckpoint(loss)
    BY <1>2
  <2>2. /\ loss \in Nat /\ UNCHANGED <<truth, completed, snapshots>> /\ scores' = Append(scores, loss)
        /\ pc = "select"
    BY <2>1, BoundsAssumption DEF SelectCheckpoint
  <2>3. /\ Len(scores) = epoch_index - 1 /\ completed = epoch_index * RegisteredBatches
        /\ live = After(completed)
    BY <2>2 DEF PlaceInv, LiveInv, Copied
  <2>4. /\ scores' \in Seq(Nat) /\ Len(scores') = epoch_index /\ scores'[epoch_index] = loss
        /\ \A e \in 1..(epoch_index - 1) : scores'[e] = scores[e] /\ scores[e] \in Nat
    BY <1>1, <2>2, <2>3
  <2>5. scores' # <<>>
    BY <1>1, <2>4
  <2>6. ASSUME snapshots["best"] # Missing
        PROVE  (\E n \in 1..Len(scores) : EarliestMinimum(snapshots["best"].best, SubSeq(scores, 1, n)))'
    <3> DEFINE kept == snapshots["best"].best
    <3>1. PICK n \in 1..Len(scores) : EarliestMinimum(kept, SubSeq(scores, 1, n))
      BY <2>6 DEF SelectInv
    <3>2. SubSeq(scores', 1, n) = SubSeq(scores, 1, n) /\ n \in 1..Len(scores')
      BY <1>1, <2>2, <2>3, <2>4, Prefix
    <3>3. QED
      BY <2>2, <3>1, <3>2 DEF EarliestMinimum
  <2>7. CASE selected = Missing \/ loss < selected.loss
    <3> DEFINE kept == [epoch |-> epoch_index, loss |-> loss, weights |-> live.weights, completed |-> completed]
    <3>1. selected' = kept /\ pc' = "save_best"
      BY <2>1, <2>7 DEF SelectCheckpoint
    <3>2. kept \in [epoch : {epoch_index}, loss : {loss}, weights : {live.weights}, completed : {completed}]
      OBVIOUS
    <3>3. \A e \in 1..(epoch_index - 1) : loss < scores[e]
      <4>1. CASE scores = <<>>
        BY <1>1, <2>3, <4>1
      <4>2. CASE scores # <<>>
        <5>1. selected # Missing /\ \A e \in 1..Len(scores) : selected.loss <= scores[e]
          BY <4>2 DEF SelectInv, EarliestMinimum
        <5>2. selected.loss \in Nat
          BY <1>1, <5>1 DEF Checkpoints
        <5>3. QED
          BY <1>1, <2>2, <2>3, <2>4, <2>7, <5>1, <5>2
      <4>3. QED
        BY <4>1, <4>2
    <3>4. live.weights = truth[completed + 1]
      BY <2>3 DEF After
    <3>5. EarliestMinimum(selected, scores)'
      BY <1>1, <2>2, <2>3, <2>4, <3>1, <3>3, <3>4 DEF EarliestMinimum
    <3>6. selected' # Missing
      <4>1. kept \in Checkpoints
        BY <1>1, <2>2, <2>3, <3>4 DEF Checkpoints, Types
      <4>2. QED
        BY <3>1, <4>1, MissingAssumption
    <3>7. QED
      BY <2>2, <2>5, <2>6, <3>1, <3>5, <3>6 DEF SelectInv
  <2>8. CASE ~(selected = Missing \/ loss < selected.loss)
    <3>1. selected' = selected /\ pc' = "epoch_journal" /\ selected # Missing
      BY <2>1, <2>8 DEF SelectCheckpoint
    <3>2. scores # <<>> /\ EarliestMinimum(selected, scores)
      BY <3>1 DEF SelectInv
    <3>3. selected.loss \in Nat /\ selected.loss <= loss
      BY <1>1, <2>2, <2>8, <3>1 DEF Checkpoints
    <3>4. EarliestMinimum(selected, scores)'
      <4>1. selected.epoch \in 1..(epoch_index - 1)
        BY <2>3, <3>2 DEF EarliestMinimum
      <4>2. selected.loss = scores'[selected.epoch] /\ \A e \in 1..Len(scores') : selected.loss <= scores'[e]
        <5>1. selected.loss = scores[selected.epoch] /\ \A e \in 1..(epoch_index - 1) : selected.loss <= scores[e]
          BY <2>3, <3>2 DEF EarliestMinimum
        <5>2. \A e \in 1..(epoch_index - 1) : selected.loss <= scores'[e]
          BY <2>4, <5>1
        <5>3. 1..Len(scores') = 1..(epoch_index - 1) \cup {epoch_index}
          BY <1>1, <2>4
        <5>4. QED
          BY <2>4, <3>3, <4>1, <5>1, <5>2, <5>3
      <4>3. \A e \in 1..(selected.epoch - 1) : selected.loss < scores'[e]
        BY <1>1, <2>3, <2>4, <3>2, <4>1 DEF EarliestMinimum
      <4>4. selected.epoch \in 1..Len(scores')
        BY <1>1, <2>4, <4>1
      <4>5. QED
        BY <2>2, <3>1, <3>2, <4>2, <4>3, <4>4 DEF EarliestMinimum
    <3>5. snapshots["best"] # Missing /\ snapshots["best"].best = selected
      BY <2>2, <3>2 DEF SelectInv
    <3>6. QED
      BY <2>2, <2>5, <2>6, <3>1, <3>4, <3>5 DEF SelectInv
  <2>9. QED
    BY <2>7, <2>8
<1>3. CASE SnapshotBest
  <2>1. /\ UNCHANGED <<truth, completed, scores, selected>> /\ pc = "save_best" /\ pc' = "best_event"
        /\ snapshots'["best"] = Snapshot
    BY <1>1, <1>3, SaveSavesOne DEF SnapshotBest, Save, Snapshots
  <2>2. Len(scores) = epoch_index
    BY <2>1 DEF PlaceInv
  <2>3. scores # <<>> /\ Len(scores) \in 1..Len(scores)
    BY <1>1, <2>2
  <2>4. selected # Missing /\ EarliestMinimum(selected, scores)
    BY <2>3 DEF SelectInv
  <2>5. snapshots'["best"] # Missing /\ snapshots'["best"].best = selected
    BY <1>1, <2>1, SnapshotIsThere
  <2>6. SubSeq(scores, 1, Len(scores)) = scores
    BY <1>1, Prefix
  <2>7. EarliestMinimum(selected, scores)'
    BY <2>1, <2>4 DEF EarliestMinimum
  <2>8. QED
    BY <2>1, <2>3, <2>4, <2>5, <2>6, <2>7 DEF SelectInv, EarliestMinimum
<1>4. CASE SnapshotInitial \/ SnapshotBefore \/ SnapshotAfter \/ SnapshotFailure \/ PersistProposal
  <2>1. snapshots'["best"] = snapshots["best"]
    BY <1>1, <1>4, SaveSavesOne DEF SnapshotInitial, SnapshotBefore, SnapshotAfter,
         SnapshotFailure, PersistProposal, Save, Snapshots
  <2>2. QED
    BY <1>4, <2>1, SelectStays DEF SnapshotInitial, SnapshotBefore, SnapshotAfter,
         SnapshotFailure, PersistProposal
<1>5. CASE ~SnapshotBest /\ ~\E loss \in DevelopmentLosses : SelectCheckpoint(loss)
  <2>1. UNCHANGED snapshots \/ SnapshotInitial \/ SnapshotBefore \/ SnapshotAfter \/ SnapshotFailure \/ PersistProposal
    BY <1>5, Actions DEF CreateOutput, FitStarted, BeginUpdate, UpdateStarted, RecordingStarted,
       Transport,
           RecordGradient, RecordingCompleted, ClipAccumulated, PrepareStep, ProposalStarted,
           ProtectProposal, CommitStarted, CopyFirst, CopyRest, CountCommit, MarkCommitted,
           AdamWBegins, AdamWReturns, CountUpdate, AfterReturn, UpdateCompleted, UpdateTiming,
           BeginDevelopment, DevelopmentRecord, Aggregate, BestEvent, EpochJournal, LoadBest,
           ExportWeights, CheckReceipts, WriteReport, ReturnFit, RaiseInCreation, RaiseInFit,
           RaiseInGuard, RaiseInCopy, RollbackRestores, RollbackFails, AbortExternal,
           NoteFailure, DeadlinePasses, KillFit
  <2>2. CASE UNCHANGED snapshots
    <3>1. UNCHANGED <<scores, selected>> /\ (pc' \in Going \ {"save_best"} => pc \in Going \ {"save_best"})
      BY <1>5, Actions DEF CreateOutput, SnapshotInitial, FitStarted, BeginUpdate, SnapshotBefore,
         UpdateStarted,
           RecordingStarted, Transport, RecordGradient, RecordingCompleted, ClipAccumulated,
           PrepareStep, ProposalStarted, ProtectProposal, PersistProposal, CommitStarted,
           CopyFirst, CopyRest, CountCommit, MarkCommitted, AdamWBegins, AdamWReturns,
           CountUpdate, AfterReturn, SnapshotAfter, UpdateCompleted, UpdateTiming,
           BeginDevelopment, DevelopmentRecord, Aggregate, BestEvent, EpochJournal, LoadBest,
           ExportWeights, CheckReceipts, WriteReport, ReturnFit, RaiseInCreation, RaiseInFit,
           RaiseInGuard, RaiseInCopy, RollbackRestores, RollbackFails, AbortExternal,
           SnapshotFailure, NoteFailure, DeadlinePasses, KillFit
    <3>2. QED
      BY <2>2, <3>1, SelectStays
  <2>3. QED
    BY <1>4, <2>1, <2>2
<1>6. QED
  BY <1>2, <1>3, <1>5

\* Wherever a call may raise, the cursor and the boundary tell how far the optimizer came.
LEMMA TellsWhereItIs ==
    ASSUME RecorderInv, pc \in Going \ {"copied", "swapped"}
    PROVE  /\ status # "entered" => live.moments = completed /\ live.weights # Mixed
           /\ status = "entered" /\ protected => live.moments = boundary.committed /\ live.weights # Mixed
           /\ boundary.rollback = "none"
<1> USE DEF RecorderInv, Copied, Candidate, ToProtected, Going, Training, Starting, Preparing,
     Stepping, Counted, Measuring, Selecting, Loaded, Failing
<1>1. /\ completed \in Nat /\ truth \in Seq(Nat) /\ Len(truth) = completed + 1 /\ protected \in BOOLEAN
      /\ selected \in Checkpoints \cup {Missing} /\ scores \in Seq(Nat)
  BY DEF Types
<1>2. truth[completed + 1] \in Nat /\ truth[completed + 1] # Mixed
  BY <1>1, BoundsAssumption
<1>3. CASE pc \in Loaded
  <2>1. Len(scores) > 0
    BY <1>3, Plan DEF PlaceInv
  <2>2. selected \in Checkpoints
    BY <1>1, <2>1 DEF SelectInv
  <2>3. selected.weights # Mixed
    BY <2>2, BoundsAssumption DEF Checkpoints
  <2>4. QED
    BY <1>1, <1>3, <2>3 DEF LiveInv, StepInv
<1>4. CASE pc \notin Loaded \cup {"in_step", "stepped", "committed"}
  BY <1>1, <1>2, <1>4 DEF LiveInv, StepInv, After
<1>5. CASE pc \in {"in_step", "stepped", "committed"}
  <2>1. protected => boundary.candidate # Mixed
    BY <1>5, BoundsAssumption DEF StepInv
  <2>2. QED
    BY <1>1, <1>5, <2>1 DEF LiveInv, StepInv
<1>6. QED
  BY <1>3, <1>4, <1>5

\* A failure is told of as it is found, and rolled back to what it started from or not.
LEMMA TellKeeps == ASSUME RecorderInv, RecorderNext PROVE TellInv'
<1> USE DEF RecorderInv, TellInv, Moves, OnlyMoves, cursor, optimizer, evidence, ghosts, Going,
     Training, Starting, Preparing, Stepping, Counted, Measuring, Selecting, Loaded, Failing,
     Creating, InBoundary, InGuard, InFit, Ended
<1>1. Types /\ boundary \in BoundaryFields /\ verdict \in BOOLEAN \cup {Missing}
  BY DEF Types
<1>2. CASE RaiseInCreation \/ RaiseInFit
  <2>1. /\ pc \in Going \ {"copied", "swapped"} /\ pc' \in {"error", "aborting"} /\ status # "entered"
        /\ snapshots["failure"] = Missing
        /\ UNCHANGED <<status, live, completed, truth, protected, boundary, interrupted, snapshots, failed, verdict>>
    BY <1>2 DEF RaiseInCreation, RaiseInFit, StepInv
  <2>2. live.moments = completed /\ live.weights # Mixed /\ boundary.rollback = "none"
    BY <2>1, TellsWhereItIs
  <2>3. Truthful'
    BY <2>1, <2>2 DEF Truthful
  <2>4. QED
    BY <1>2, <2>1, <2>3 DEF RaiseInCreation, RaiseInFit
<1>3. CASE RaiseInGuard
  <2>1. /\ pc \in Going \ {"copied"} /\ pc' = "failing" /\ snapshots["failure"] = Missing
        /\ UNCHANGED <<status, live, completed, truth, protected, snapshots, verdict>>
        /\ verdict = Missing /\ failed'
    BY <1>3 DEF RaiseInGuard
  <2>2. /\ boundary'.committed = boundary.committed /\ boundary'.rollback = boundary.rollback
    BY <1>1, <1>3 DEF RaiseInGuard, BoundaryFields
  <2>3. Truthful'
    <3>1. CASE pc = "swapped"
      <4>1. interrupted' /\ status = "entered" /\ boundary.rollback = "none"
        BY <1>3, <3>1 DEF RaiseInGuard, StepInv
      <4>2. QED
        BY <2>1, <2>2, <4>1 DEF Truthful
    <3>2. CASE pc # "swapped"
      BY <2>1, <2>2, <3>2, TellsWhereItIs DEF Truthful
    <3>3. QED
      BY <3>1, <3>2
  <2>4. QED
    BY <2>1, <2>3
<1>4. CASE RollbackRestores
  <2>1. /\ pc = "rollback" /\ pc' = "failing" /\ snapshots["failure"] = Missing /\ verdict = Missing
        /\ UNCHANGED <<status, completed, truth, protected, snapshots, verdict>>
        /\ live' = boundary.old /\ failed'
    BY <1>4 DEF RollbackRestores
  <2>2. status = "entered" /\ protected /\ boundary.old = After(completed) /\ boundary.committed = completed
    BY <2>1 DEF StepInv
  <2>3. truth[completed + 1] # Mixed
    BY <1>1, BoundsAssumption DEF Types
  <2>4. boundary'.committed = boundary.committed
    BY <1>1, <1>4 DEF RollbackRestores, BoundaryFields
  <2>5. Truthful'
    BY <2>1, <2>2, <2>3, <2>4 DEF Truthful, After
  <2>6. QED
    BY <2>1, <2>5
<1>5. CASE RollbackFails
  <2>1. /\ pc = "rollback" /\ pc' = "failing" /\ snapshots["failure"] = Missing /\ verdict = Missing
        /\ UNCHANGED <<status, completed, truth, protected, snapshots, verdict>>
        /\ status = "entered" /\ failed'
    BY <1>5 DEF RollbackFails, StepInv
  <2>2. boundary'.rollback = "failed_unknown"
    BY <1>1, <1>5 DEF RollbackFails, BoundaryFields
  <2>3. Truthful'
    BY <2>1, <2>2 DEF Truthful
  <2>4. QED
    BY <2>1, <2>3
<1>6. CASE SnapshotFailure
  <2>1. /\ pc = "failing" /\ pc' = "noting" /\ Truthful /\ verdict = Missing
        /\ UNCHANGED <<status, live, completed, truth, protected, boundary, interrupted, verdict, failed, scores>>
    BY <1>6 DEF SnapshotFailure
  <2>2. Truthful'
    BY <2>1 DEF Truthful, After
  <2>3. CASE Save("failure")
    BY <1>1, <2>1, <2>2, <2>3, SaveSavesOne, SnapshotIsThere DEF Save, Snapshots
  <2>4. CASE UNCHANGED snapshots
    BY <2>1, <2>2, <2>4
  <2>5. QED
    BY <1>6, <2>3, <2>4 DEF SnapshotFailure
<1>7. CASE NoteFailure
  <2>1. /\ pc = "noting" /\ pc' = "error" /\ Truthful
        /\ UNCHANGED <<status, live, completed, truth, protected, boundary, interrupted, snapshots, failed, scores>>
    BY <1>7 DEF NoteFailure
  <2>2. Truthful'
    BY <2>1 DEF Truthful, After
  <2>3. verdict' = TRUE => status # "entered"
    BY <1>7, BoundsAssumption DEF NoteFailure
  <2>4. QED
    BY <2>1, <2>2, <2>3
<1>8. CASE AbortExternal \/ DeadlinePasses \/ KillFit
  <2>1. /\ UNCHANGED <<status, live, completed, truth, protected, boundary, interrupted, snapshots, verdict>>
        /\ pc' = pc \/ pc' = "killed" \/ (pc = "aborting" /\ pc' = "failing")
        /\ pc' \in Going \cup {"rollback"} => ~failed'
        /\ UNCHANGED scores /\ (failed' = failed \/ failed')
        /\ pc' \in {"failing", "noting", "error"} => pc' = pc \/ failed'
    BY <1>8 DEF AbortExternal, DeadlinePasses, KillFit
  <2>2. Truthful => Truthful'
    BY <2>1 DEF Truthful, After
  <2>3. KillFit => verdict = Missing
    BY DEF KillFit
  <2>4. QED
    BY <1>8, <2>1, <2>2, <2>3 DEF AbortExternal, DeadlinePasses, KillFit
<1>9. CASE SnapshotInitial \/ SnapshotBefore \/ SnapshotAfter \/ SnapshotBest \/ PersistProposal
  <2>1. snapshots'["failure"] = snapshots["failure"]
    BY <1>1, <1>9, SaveSavesOne DEF SnapshotInitial, SnapshotBefore, SnapshotAfter, SnapshotBest,
         PersistProposal, Save, Snapshots
  <2>2. QED
    BY <1>9, <2>1 DEF SnapshotInitial, SnapshotBefore, SnapshotAfter, SnapshotBest, PersistProposal
<1>10. CASE \E loss \in DevelopmentLosses : SelectCheckpoint(loss)
  BY <1>10 DEF SelectCheckpoint
<1>11. CASE \/ CreateOutput \/ FitStarted
            \/ BeginUpdate \/ UpdateStarted \/ RecordingStarted \/ Transport
            \/ RecordGradient \/ RecordingCompleted \/ ClipAccumulated \/ PrepareStep
            \/ ProposalStarted \/ ProtectProposal \/ CommitStarted
            \/ CopyFirst \/ CopyRest \/ CountCommit \/ MarkCommitted \/ AdamWBegins \/ AdamWReturns
            \/ CountUpdate \/ AfterReturn \/ UpdateCompleted \/ UpdateTiming
            \/ BeginDevelopment \/ DevelopmentRecord \/ Aggregate \/ BestEvent \/ EpochJournal
            \/ LoadBest \/ ExportWeights \/ CheckReceipts \/ WriteReport \/ ReturnFit \/ RaiseInCopy
  <2>1. /\ UNCHANGED <<snapshots, verdict, failed>>
        /\ pc \in Going \ {"returned"} /\ pc' \in Going \cup {"rollback"}
        /\ pc' \in Starting => pc \in Starting /\ UNCHANGED scores
    BY <1>11 DEF CreateOutput, FitStarted, BeginUpdate, UpdateStarted, RecordingStarted,
         Transport, RecordGradient, RecordingCompleted, ClipAccumulated, PrepareStep,
         ProposalStarted, ProtectProposal, CommitStarted, CopyFirst, CopyRest, CountCommit,
         MarkCommitted, AdamWBegins, AdamWReturns, CountUpdate, AfterReturn, UpdateCompleted,
         UpdateTiming, BeginDevelopment, DevelopmentRecord, Aggregate, BestEvent, EpochJournal,
         LoadBest, ExportWeights, CheckReceipts, WriteReport, ReturnFit, RaiseInCopy
  <2>2. snapshots["failure"] = Missing /\ verdict = Missing /\ ~failed
    BY <2>1
  <2>3. verdict' # TRUE
    BY <2>1, <2>2, MissingAssumption
  <2>4. QED
    BY <2>1, <2>2, <2>3
<1>12. QED
  BY <1>2, <1>3, <1>4, <1>5, <1>6, <1>7, <1>8, <1>9, <1>10, <1>11, Actions

\* A receipt is counted.
LEMMA NoteCounts ==
    ASSUME journal \in [Receipts -> Nat], NEW receipt \in Receipts, NEW n \in Nat, NoteReceipts(receipt, n)
    PROVE  journal' \in [Receipts -> Nat]
  BY DEF NoteReceipts

\* Every action keeps the types.
LEMMA TypesKeep == ASSUME RecorderInv, RecorderNext PROVE Types'
<1> USE DEF RecorderInv, Types, Moves, OnlyMoves, cursor, optimizer, evidence, ghosts, Places,
     Going, Training, Starting, Preparing, Stepping, Counted, Measuring, Selecting, Loaded, Failing
<1>1. /\ boundary \in BoundaryFields /\ live \in Tensors /\ truth \in Seq(Nat) /\ scores \in Seq(Nat)
      /\ Len(truth) = completed + 1 /\ completed \in Nat /\ protected \in BOOLEAN /\ record \in 1..Recordings
      /\ epoch_index \in 1..RegisteredEpochs /\ batch_index \in 1..RegisteredBatches
      /\ journal \in [Receipts -> Nat] /\ Types
  OBVIOUS
<1>2. CASE SnapshotInitial \/ SnapshotBefore \/ SnapshotAfter \/ SnapshotBest \/ SnapshotFailure
  <2>1. snapshots' \in [Snapshots -> Payloads \cup {Missing}]
    BY <1>2, <1>1, SnapshotIsThere DEF SnapshotInitial, SnapshotBefore, SnapshotAfter,
         SnapshotBest, SnapshotFailure, Save
  <2>2. QED
    BY <1>2, <2>1 DEF SnapshotInitial, SnapshotBefore, SnapshotAfter, SnapshotBest, SnapshotFailure
<1>3. CASE PersistProposal
  <2>1. boundary' \in BoundaryFields
    BY <1>1, <1>3 DEF PersistProposal, BoundaryFields, BoundaryStages
  <2>2. [Snapshot EXCEPT !.boundary = boundary'] \in Payloads
    BY <1>1, <2>1, SnapshotIsThere
  <2>3. snapshots' \in [Snapshots -> Payloads \cup {Missing}]
    BY <1>3, <1>1, <2>2 DEF PersistProposal
  <2>4. /\ pc' = "commit" /\ boundary' \in BoundaryFields
        /\ UNCHANGED <<protected, cursor, status, live, completed, pieces, selected,
                       journal, verdict, exports, failed, overdue, ghosts>>
    BY <1>3, <2>1 DEF PersistProposal
  <2>5. QED
    BY <1>1, <2>3, <2>4
<1>4. CASE BeginUpdate \/ BeginDevelopment
  <2>1. boundary' \in BoundaryFields
    BY <1>1, <1>4 DEF BeginUpdate, BeginDevelopment, BoundaryIdle, BoundaryFields, BoundaryStages
  <2>2. record' \in 1..Recordings
    BY <1>1, <1>4, Plan DEF BeginUpdate, BeginDevelopment
  <2>3. QED
    BY <1>4, <2>1, <2>2 DEF BeginUpdate, BeginDevelopment
<1>5. CASE ClipAccumulated \/ CommitStarted \/ CountCommit \/ MarkCommitted
  <2>1. boundary' \in BoundaryFields
    <3>1. CASE ClipAccumulated
      BY <1>1, <3>1 DEF ClipAccumulated, BoundaryFields
    <3>2. CASE CommitStarted
      BY <1>1, <3>2 DEF CommitStarted, BoundaryFields, BoundaryStages
    <3>3. CASE CountCommit
      <4>1. boundary.committed + 1 \in Nat
        BY <1>1 DEF BoundaryFields
      <4>2. QED
        BY <1>1, <3>3, <4>1 DEF CountCommit, BoundaryFields
    <3>4. CASE MarkCommitted
      BY <1>1, <3>4 DEF MarkCommitted, BoundaryFields, BoundaryStages
    <3>5. QED
      BY <1>5, <3>1, <3>2, <3>3, <3>4
  <2>2. QED
    BY <1>5, <2>1 DEF ClipAccumulated, CommitStarted, CountCommit, MarkCommitted,
         ClipAccumulated, ClipAccumulated, CommitStarted, CommitStarted, CountCommit,
         CountCommit, MarkCommitted, MarkCommitted
<1>6. CASE ProposalStarted
  <2>1. boundary' \in BoundaryFields
    BY <1>1, <1>6 DEF ProposalStarted, BoundaryFields, BoundaryStages
  <2>2. QED
    BY <1>6, <2>1 DEF ProposalStarted
<1>7. CASE ProtectProposal
  <2>1. live.weights \in Nat
    BY <1>1, <1>7 DEF ProtectProposal, LiveInv, Copied, After
  <2>2. boundary' \in BoundaryFields
    <3>1. PICK formed \in {live.weights, completed + 1} : boundary' = [boundary EXCEPT !.candidate = formed]
      BY <1>7 DEF ProtectProposal
    <3>2. formed \in Nat
      BY <1>1, <2>1
    <3>3. QED
      BY <1>1, <3>1, <3>2 DEF BoundaryFields
  <2>3. QED
    BY <1>7, <2>2 DEF ProtectProposal
<1>8. CASE CopyFirst
  <2>1. live' \in Tensors
    BY <1>1, <1>8 DEF CopyFirst, Tensors
  <2>2. QED
    BY <1>8, <2>1 DEF CopyFirst
<1>9. CASE CopyRest
  BY <1>9 DEF CopyRest, Tensors, StepInv, Candidate, LiveInv
<1>10. CASE AdamWBegins
  <2>1. boundary' \in BoundaryFields
    BY <1>1, <1>10 DEF AdamWBegins, BoundaryFields
  <2>2. QED
    BY <1>10, <2>1 DEF AdamWBegins, Tensors
<1>11. CASE AdamWReturns
  <2>1. boundary.old.moments = completed
    BY <1>11 DEF AdamWReturns, StepInv, After
  <2>2. live' \in Tensors
    BY <1>1, <1>11, <2>1 DEF AdamWReturns, Tensors
  <2>3. QED
    BY <1>11, <2>2 DEF AdamWReturns
<1>12. CASE CountUpdate
  <2>1. live.weights \in Nat
    BY <1>1, <1>12 DEF CountUpdate, StepInv, LiveInv, Candidate, Copied
  <2>2. truth' \in Seq(Nat) /\ completed' \in Nat /\ Len(truth') = completed' + 1
    BY <1>1, <1>12, <2>1 DEF CountUpdate
  <2>3. QED
    BY <1>12, <2>2 DEF CountUpdate
<1>13. CASE RecordGradient \/ RecordingCompleted \/ AfterReturn \/ UpdateCompleted
  <2>1. journal' \in [Receipts -> Nat]
    <3>1. CASE RecordGradient
      <4>1. NoteReceipts("record_gradient", Terms) /\ Terms \in Nat /\ "record_gradient" \in Receipts
        BY <3>1 DEF RecordGradient, Terms, Receipts
      <4>2. QED
        BY <4>1, NoteCounts
    <3>2. CASE RecordingCompleted
      <4>1. NoteReceipts("recording", 1) /\ "recording" \in Receipts
        BY <3>2 DEF RecordingCompleted, Receipts
      <4>2. QED
        BY <4>1, NoteCounts
    <3>3. CASE AfterReturn
      BY <3>3, NoteCounts DEF AfterReturn, Receipts
    <3>4. CASE UpdateCompleted
      <4>1. NoteReceipts("update_completed", 1) /\ "update_completed" \in Receipts
        BY <3>4 DEF UpdateCompleted, Receipts
      <4>2. QED
        BY <4>1, NoteCounts
    <3>5. QED
      BY <1>13, <3>1, <3>2, <3>3, <3>4
  <2>2. record' \in 1..Recordings
    BY <1>1, <1>13, Plan DEF RecordGradient, RecordingCompleted, AfterReturn, UpdateCompleted,
         RecordGradient, RecordGradient, RecordingCompleted, RecordingCompleted, AfterReturn,
         AfterReturn, UpdateCompleted, UpdateCompleted
  <2>3. QED
    BY <1>13, <2>1, <2>2 DEF RecordGradient, RecordingCompleted, AfterReturn, UpdateCompleted,
         RecordGradient, RecordGradient, RecordingCompleted, RecordingCompleted, AfterReturn,
         AfterReturn, UpdateCompleted, UpdateCompleted
<1>14. CASE UpdateTiming \/ EpochJournal
  <2>1. epoch_index' \in 1..RegisteredEpochs /\ batch_index' \in 1..RegisteredBatches
    BY <1>1, <1>14, Plan DEF UpdateTiming, EpochJournal
  <2>2. pc' \in Places
    BY <1>14 DEF UpdateTiming, EpochJournal
  <2>3. UNCHANGED <<protected, record, status, optimizer, completed, pieces, selected,
                    evidence, failed, overdue, ghosts>>
    BY <1>14 DEF UpdateTiming, EpochJournal
  <2>4. QED
    BY <1>1, <2>1, <2>2, <2>3
<1>15. CASE \E loss \in DevelopmentLosses : SelectCheckpoint(loss)
  <2>1. PICK loss \in DevelopmentLosses : SelectCheckpoint(loss)
    BY <1>15
  <2>2. loss \in Nat /\ scores' \in Seq(Nat)
    BY <1>1, <2>1, BoundsAssumption DEF SelectCheckpoint
  <2>3. live = After(completed) /\ live.weights \in Nat
    BY <1>1, <2>1 DEF SelectCheckpoint, LiveInv, Copied, After
  <2>4. selected' \in Checkpoints \cup {Missing}
    BY <1>1, <2>1, <2>2, <2>3 DEF SelectCheckpoint, Checkpoints
  <2>5. QED
    BY <2>1, <2>2, <2>4 DEF SelectCheckpoint
<1>16. CASE LoadBest
  <2>1. selected \in Checkpoints
    BY <1>16, Plan DEF LoadBest, SelectInv
  <2>2. QED
    BY <1>16, <2>1 DEF LoadBest, Tensors, Checkpoints
<1>17. CASE ExportWeights
  <2>1. live.weights \in Nat
    <3>1. selected \in Checkpoints
      <4>1. Len(scores) > 0
        BY <1>17, Plan DEF ExportWeights, PlaceInv
      <4>2. QED
        BY <4>1 DEF SelectInv
    <3>2. QED
      BY <1>17, <3>1 DEF ExportWeights, LiveInv, Checkpoints
  <2>2. exports' \in [weights : Nat \cup {Missing}, report : BOOLEAN]
    BY <1>17, <2>1 DEF ExportWeights
  <2>3. QED
    BY <1>17, <2>2 DEF ExportWeights
<1>18. CASE WriteReport
  <2>1. exports' \in [weights : Nat \cup {Missing}, report : BOOLEAN]
    BY <1>18 DEF WriteReport
  <2>2. QED
    BY <1>18, <2>1 DEF WriteReport
<1>19. CASE RaiseInGuard
  <2>1. boundary' \in BoundaryFields
    <3>1. (pc \in InBoundary) \in BOOLEAN
      OBVIOUS
    <3>2. boundary' = [boundary EXCEPT !.failed = (pc \in InBoundary)]
      BY <1>19 DEF RaiseInGuard
    <3>3. QED
      BY <1>1, <3>1, <3>2 DEF BoundaryFields
  <2>2. interrupted' \in BOOLEAN
    BY <1>19 DEF RaiseInGuard
  <2>3. QED
    BY <1>19, <2>1, <2>2 DEF RaiseInGuard, Creating, InBoundary, InGuard, InFit, Ended
<1>20. CASE RaiseInCopy
  <2>1. boundary' \in BoundaryFields
    BY <1>1, <1>20 DEF RaiseInCopy, BoundaryFields
  <2>2. QED
    BY <1>20, <2>1 DEF RaiseInCopy
<1>21. CASE RollbackRestores
  <2>1. boundary' \in BoundaryFields
    BY <1>1, <1>21 DEF RollbackRestores, BoundaryFields
  <2>2. live' \in Tensors
    BY <1>1, <1>21 DEF RollbackRestores, StepInv, After, Tensors
  <2>3. QED
    BY <1>21, <2>1, <2>2 DEF RollbackRestores
<1>22. CASE RollbackFails
  <2>1. boundary' \in BoundaryFields
    BY <1>1, <1>22 DEF RollbackFails, BoundaryFields
  <2>2. boundary.old.weights \in Nat /\ boundary.candidate \in Nat
    BY <1>1, <1>22 DEF RollbackFails, StepInv, After, Candidate
  <2>3. live' \in Tensors
    BY <1>1, <1>22, <2>2 DEF RollbackFails, Tensors
  <2>4. QED
    BY <1>22, <2>1, <2>3 DEF RollbackFails
<1>23. CASE NoteFailure
  <2>1. verdict' \in BOOLEAN \cup {Missing}
    BY <1>23 DEF NoteFailure
  <2>2. QED
    BY <1>23, <2>1 DEF NoteFailure
<1>24. CASE Transport
  <2>1. pieces' \in Nat
    BY <1>24 DEF Transport
  <2>2. pc' \in Places
    BY <1>24 DEF Transport
  <2>3. QED
    BY <1>24, <2>1, <2>2 DEF Transport
<1>25. CASE PrepareStep \/ AbortExternal \/ DeadlinePasses
  <2>1. CASE PrepareStep
    <3>1. pc' \in Places
      BY <2>1 DEF PrepareStep
    <3>2. QED
      BY <2>1, <3>1 DEF PrepareStep
  <2>2. CASE AbortExternal
    BY <2>2 DEF AbortExternal
  <2>3. CASE DeadlinePasses
    BY <2>3 DEF DeadlinePasses
  <2>4. QED
    BY <1>25, <2>1, <2>2, <2>3
<1>26. CASE \/ CreateOutput \/ FitStarted \/ UpdateStarted \/ RecordingStarted
            \/ DevelopmentRecord \/ Aggregate \/ BestEvent
            \/ CheckReceipts \/ ReturnFit
            \/ RaiseInCreation \/ RaiseInFit \/ KillFit
  <2>1. /\ UNCHANGED <<protected, cursor, status, optimizer, completed, pieces, selected,
                        evidence, failed, overdue, ghosts>>
        /\ pc' \in Places
    BY <1>26 DEF CreateOutput, FitStarted, UpdateStarted, RecordingStarted, DevelopmentRecord,
         Aggregate, BestEvent, CheckReceipts, ReturnFit, RaiseInCreation, RaiseInFit, KillFit
  <2>2. QED
    BY <2>1
<1>27. QED
  BY <1>2, <1>3, <1>4, <1>5, <1>6, <1>7, <1>8, <1>9, <1>10, <1>11, <1>12, <1>13, <1>14, <1>15,
     <1>16, <1>17,
     <1>18, <1>19, <1>20, <1>21, <1>22, <1>23, <1>24, <1>25, <1>26, Actions

\* The invariant is inductive.
LEMMA RecorderStarts == RecorderInit => RecorderInv
<1> SUFFICES ASSUME RecorderInit PROVE RecorderInv
  OBVIOUS
<1> USE DEF RecorderInit, RecorderIdle
<1>1. /\ \A name \in Snapshots : snapshots[name] = Missing
      /\ \A receipt \in Receipts : journal[receipt] = 0
      /\ live = After(0) /\ Len(truth) = 1 /\ Len(scores) = 0 /\ scores = <<>>
  BY DEF After
<1>2. Types
  <2>1. boundary \in BoundaryFields /\ live \in Tensors
    BY DEF BoundaryIdle, BoundaryFields, BoundaryStages, Tensors
  <2>2. /\ snapshots \in [Snapshots -> Payloads \cup {Missing}] /\ journal \in [Receipts -> Nat]
        /\ exports \in [weights : Nat \cup {Missing}, report : BOOLEAN]
    OBVIOUS
  <2>3. truth \in Seq(Nat) /\ scores \in Seq(Nat)
    OBVIOUS
  <2>4. epoch_index \in 1..RegisteredEpochs /\ batch_index \in 1..RegisteredBatches /\ record \in 1..Recordings
    BY Plan
  <2>5. pc \in Places /\ completed = 0 /\ pieces = 0
    BY DEF Places, Going, Training, Starting
  <2>6. /\ failed \in BOOLEAN /\ overdue \in BOOLEAN /\ interrupted \in BOOLEAN /\ protected \in BOOLEAN
        /\ verdict \in BOOLEAN \cup {Missing} /\ selected \in Checkpoints \cup {Missing}
        /\ status \in {"not_started", "entered", "returned"}
    OBVIOUS
  <2> HIDE DEF RecorderInit, RecorderIdle
  <2>7. Len(truth) = completed + 1
    BY <1>1, <2>5
  <2>8. QED
    BY <2>1, <2>2, <2>3, <2>4, <2>5, <2>6, <2>7 DEF Types
<1>3. PlaceInv
  BY Plan, <1>1 DEF PlaceInv, Going, Training, Starting, Preparing, Stepping, Counted, Measuring,
     Selecting, Loaded, Failing
<1>4. StepInv
  BY Plan, <1>1 DEF StepInv, BoundaryIdle, Candidate, ToProtected, Going, Training, Starting,
     Preparing, Stepping, Counted, Measuring, Selecting, Loaded, Failing
<1>5. LiveInv
  BY <1>1 DEF LiveInv, Copied, Going, Training, Starting, Preparing, Stepping, Counted, Measuring,
     Selecting, Loaded, Failing
<1>6. DiskInv /\ CoverInv /\ SelectInv
  BY <1>1 DEF DiskInv, KeptOnDisk, CoverInv, SelectInv, Snapshots, Receipts, Candidate, Going,
     Training, Starting, Preparing, Stepping, Counted, Measuring, Selecting, Loaded, Failing
<1>7. JournalInv /\ ReportInv
  BY Plan, <1>1 DEF JournalInv, ReportInv, Receipts, Going, Training, Starting, Preparing,
     Stepping, Counted, Measuring, Selecting, Loaded, Failing
<1>8. TellInv
  BY <1>1, MissingAssumption DEF TellInv, Snapshots, Going, Training, Starting, Preparing,
     Stepping, Counted, Measuring, Selecting, Loaded, Failing
<1>9. QED
  BY <1>2, <1>3, <1>4, <1>5, <1>6, <1>7, <1>8 DEF RecorderInv

LEMMA RecorderStutters == RecorderInv /\ UNCHANGED recorder_vars => RecorderInv'
<1> SUFFICES ASSUME RecorderInv, UNCHANGED recorder_vars PROVE RecorderInv'
  OBVIOUS
<1> USE DEF recorder_vars, cursor, optimizer, evidence, ghosts
<1>1. Types'
  BY DEF RecorderInv, Types
<1>2. PlaceInv' /\ StepInv' /\ LiveInv'
  BY DEF RecorderInv, PlaceInv, StepInv, LiveInv, After
<1>3. DiskInv' /\ CoverInv'
  BY DEF RecorderInv, DiskInv, KeptOnDisk, CoverInv, After
<1>4. JournalInv' /\ ReportInv'
  BY DEF RecorderInv, JournalInv, ReportInv, Terms
<1>5. SelectInv'
  BY DEF RecorderInv, SelectInv, EarliestMinimum
<1>6. TellInv'
  BY DEF RecorderInv, TellInv, Truthful, After
<1>7. QED
  BY <1>1, <1>2, <1>3, <1>4, <1>5, <1>6 DEF RecorderInv

LEMMA RecorderKeeps == RecorderInv /\ [RecorderNext]_recorder_vars => RecorderInv'
<1> SUFFICES ASSUME RecorderInv, RecorderNext PROVE RecorderInv'
  BY RecorderStutters
<1>1. Types' /\ PlaceInv' /\ StepInv' /\ LiveInv' /\ DiskInv' /\ SelectInv'
  BY TypesKeep, PlaceKeeps, StepKeeps, LiveKeeps, DiskKeeps, SelectKeeps
<1>2. CoverInv' /\ JournalInv' /\ ReportInv' /\ TellInv'
  BY <1>1, CoverKeeps, JournalKeeps, ReportKeeps, TellKeeps
<1>3. QED
  BY <1>1, <1>2 DEF RecorderInv

\* The four properties follow from it.
LEMMA RecorderIsSafe ==
    RecorderInv => BoundariesOnDisk /\ WritesAreCovered /\ FailureTells /\ ReportIsComplete
<1> SUFFICES ASSUME RecorderInv
             PROVE  BoundariesOnDisk /\ WritesAreCovered /\ FailureTells /\ ReportIsComplete
  OBVIOUS
<1>1. /\ completed \in Nat /\ live \in Tensors /\ truth \in Seq(Nat) /\ Len(truth) = completed + 1
      /\ snapshots \in [Snapshots -> Payloads \cup {Missing}] /\ boundary \in BoundaryFields /\ protected \in BOOLEAN
  BY DEF RecorderInv, Types
<1>2. BoundariesOnDisk
  BY DEF RecorderInv, DiskInv, KeptOnDisk, BoundariesOnDisk
<1>3. WritesAreCovered
  <2>1. [After(completed) EXCEPT !.weights = selected.weights] = [weights |-> selected.weights, moments |-> completed]
    BY DEF After
  <2>2. QED
    BY <2>1 DEF RecorderInv, CoverInv, WritesAreCovered
<1>4. FailureTells
  <2>1. ASSUME snapshots["failure"] # Missing, ~interrupted
        PROVE  LET f == snapshots["failure"] IN
               /\ StepsTold(f) # Mixed => f.live.moments = StepsTold(f) /\ f.live.weights # Mixed
               /\ f.boundary.committed \in (IF protected THEN {f.completed, f.completed + 1} ELSE {0})
               /\ f.boundary.rollback = "restored" => f.live = After(f.completed)
    <3>1. /\ Truthful
          /\ snapshots["failure"].completed = completed /\ snapshots["failure"].live = live
          /\ snapshots["failure"].status = status /\ snapshots["failure"].boundary = boundary
      BY <2>1 DEF RecorderInv, TellInv
    <3>2. boundary.committed \in (IF protected THEN {completed, completed + 1} ELSE {0})
      BY DEF RecorderInv, StepInv
    <3>3. QED
      BY <2>1, <3>1, <3>2 DEF Truthful, StepsTold
  <2>2. verdict = TRUE => live.moments = completed /\ live.weights # Mixed
    BY MissingAssumption DEF RecorderInv, TellInv, Truthful
  <2>3. QED
    BY <2>1, <2>2 DEF FailureTells
<1>5. ReportIsComplete
  <2>1. pc \in {"update", "export"} \cup Ended /\ ~failed /\ pc # "killed" /\ scores # <<>> =>
          snapshots["best"].best = selected
    BY DEF RecorderInv, SelectInv, TellInv, Ended, Going, Training, Loaded
  <2>2. QED
    BY <2>1 DEF RecorderInv, SelectInv, ReportInv, ReportIsComplete
<1>6. QED
  BY <1>2, <1>3, <1>4, <1>5

\* What is true at every place of a recorded fit, whatever the plan and the losses, and
\* whatever raises or is killed wherever.
THEOREM RecorderIsInductive == RecorderSpec => []RecorderInv
  BY RecorderStarts, RecorderKeeps, PTL DEF RecorderSpec

\* Every variable of a recorded fit keeps its type, and the history has a state of the
\* weights for every update counted.
THEOREM RecorderStaysInBounds == RecorderSpec => []Types
  BY RecorderIsInductive, PTL DEF RecorderInv

\* For every plan, both recorders, and any exception, deadline or kill: the snapshots on
\* disk hold whole update boundaries, never older than the update in flight, and no
\* receipt is ahead of its snapshot.
THEOREM BoundariesStayOnDisk == RecorderSpec => []BoundariesOnDisk
  BY RecorderIsInductive, RecorderIsSafe, PTL

\* Whenever the live tensors may have moved, the cursor says so and the disk holds what
\* they were and, for a protected step, what they may become.
THEOREM WritesStayCovered == RecorderSpec => []WritesAreCovered
  BY RecorderIsInductive, RecorderIsSafe, PTL

\* The failure snapshot tells how far the optimizer came, but for an interrupt between
\* the swap and its count, and calls a failure exact only when it is.
THEOREM FailuresTellTheTruth == RecorderSpec => []FailureTells
  BY RecorderIsInductive, RecorderIsSafe, PTL

\* The selection is the earliest minimum, and a report is written of a complete fit only.
THEOREM ReportsAreComplete == RecorderSpec => []ReportIsComplete
  BY RecorderIsInductive, RecorderIsSafe, PTL

-----------------------------------------------------------------------------
\* The fits without a recorder.

EpochEntry == [epoch : Nat, score : Nat, admissible : BOOLEAN, weights : Nat]
Stages == {"batch", "record", "score", "scored", "export", "exported", "failed"}
LoopTypes ==
    /\ loop \in DOMAIN Loops /\ stage \in Stages
    /\ late \in BOOLEAN /\ exhausted \in BOOLEAN
    /\ batch \in Nat /\ gradients \in Nat /\ weights \in Nat
    /\ history \in Seq(EpochEntry) /\ best \in EpochEntry \cup {NoEpoch}

\* The entries are of consecutive epochs, each with the weights of whole epochs; all may be
\* chosen, or at least the first.
EntriesInv ==
    \A i \in 1..Len(history) :
        /\ history[i].epoch = Policy.first + i - 1
        /\ history[i].weights = history[i].epoch * PerEpoch
        /\ Policy.choice # "admissible" \/ i = 1 => history[i].admissible

\* Where the fit is, and what its weights have learned from by then.
ProgressInv ==
    /\ stage \in {"batch", "record"} =>
        /\ 1 <= Number /\ Number <= Epochs /\ batch < Batches
        /\ weights = (Number - 1) * PerEpoch + batch * Records
    /\ stage \in {"score", "scored"} => Number <= Epochs /\ weights = Number * PerEpoch
    /\ stage \in {"export", "exported"} /\ ~exhausted => Number = Epochs + 1 /\ weights = Epochs * PerEpoch
    /\ exhausted => Policy.choice = "best"
    /\ exhausted => stage \in {"export", "exported", "failed"}

FirstOfLowest(entry) ==
    \A j \in 1..Len(history) : history[j].admissible =>
        /\ entry.score <= history[j].score
        /\ history[j].epoch < entry.epoch => entry.score < history[j].score

\* Nothing is remembered before the first entry; after it, the first of the lowest.
BestInv ==
    Policy.choice = "best" =>
        \/ best = NoEpoch /\ history = <<>>
        \/ \E i \in 1..Len(history) : best = history[i] /\ FirstOfLowest(best)

LoopInv == LoopTypes /\ EntriesInv /\ ProgressInv /\ BestInv /\ ExportedFit

-----------------------------------------------------------------------------
\* A set of numbers has a least one: intervals below them are finite sets, well ordered.
LEMMA LeastOf == ASSUME NEW T, T \subseteq Nat, T # {} PROVE \E x \in T : \A y \in T : x <= y
<1> DEFINE D(x) == 0..x - 1
           B == {D(x) : x \in T}
<1>1. IsWellFoundedOn(StrictSubsetOrdering(Nat), FiniteSubsetsOf(Nat))
  BY FS_StrictSubsetOrderingWellFounded
<1>2. B \subseteq FiniteSubsetsOf(Nat)
  <2>1. ASSUME NEW x \in T PROVE D(x) \in FiniteSubsetsOf(Nat)
    <3>1. D(x) \subseteq Nat /\ 0 \in Int /\ x - 1 \in Int
      OBVIOUS
    <3>2. QED
      BY <3>1, FS_Interval DEF FiniteSubsetsOf
  <2>2. QED
    BY <2>1
<1>3. PICK d \in B : \A e \in B : <<e, d>> \notin StrictSubsetOrdering(Nat)
  <2>1. B # {}
    OBVIOUS
  <2>2. QED
    BY <1>1, <1>2, <2>1, WFMin
<1>4. PICK x \in T : d = D(x)
  BY <1>3
<1>5. ASSUME NEW y \in T, y < x PROVE FALSE
  <2>1. D(y) \subseteq D(x) /\ y \in D(x) /\ y \notin D(y) /\ D(x) \subseteq Nat
    BY <1>5
  <2>2. <<D(y), D(x)>> \in StrictSubsetOrdering(Nat)
    BY <2>1 DEF StrictSubsetOrdering
  <2>3. QED
    BY <1>3, <1>4, <2>2
<1>6. QED
  BY <1>5

\* What the policies have in common: only a fit that keeps the best stops early, and only
\* one that may refuse epochs enters the initial weights.
LEMMA Policies ==
    ASSUME loop \in DOMAIN Loops
    PROVE  /\ Policy.first \in {0, 1}
           /\ Policy.choice \in {"best", "admissible", "last"}
           /\ Policy.choice = "best" => Policy.raises = FALSE
           /\ Policy.choice # "best" => Policy.raises = TRUE
           /\ Policy.choice = "admissible" => Policy.first = 0
           /\ Policy.first = 0 => Policy.choice = "admissible"
<1> DEFINE Fits == {"coupled", "trajectory", "phase_sync", "readout", "local", "variation", "relative"}
<1>1. loop \in Fits
  BY DEF Loops
<1>2. CASE loop \in {"coupled", "trajectory", "phase_sync"}
  <2>1. Policy = Stopping
    BY <1>2 DEF Policy, Loops, CoupledLoop, TrajectoryLoop, PhaseSyncLoop
  <2>2. QED
    BY <2>1 DEF Stopping
<1>3. CASE loop = "readout"
  <2>1. Policy = ReadoutLoop
    BY <1>3 DEF Policy, Loops
  <2>2. QED
    BY <2>1 DEF ReadoutLoop, Stopping
<1>4. CASE loop \in {"local", "variation"}
  <2>1. Policy = LocalLoop
    BY <1>4 DEF Policy, Loops, VariationLoop
  <2>2. QED
    BY <2>1 DEF LocalLoop
<1>5. CASE loop = "relative"
  <2>1. Policy = RelativeLoop
    BY <1>5 DEF Policy, Loops
  <2>2. QED
    BY <2>1 DEF RelativeLoop
<1>6. QED
  BY <1>1, <1>2, <1>3, <1>4, <1>5

LEMMA Sizes == PerEpoch \in Nat /\ PerEpoch = Batches * Records /\ Records \in Nat /\ Batches \in Nat /\ Epochs \in Nat
<1>1. Batches \in Nat /\ Records \in Nat
  BY LoopAssumption
<1>2. QED
  BY <1>1, LoopAssumption DEF PerEpoch

\* The choice among entries of which one may be chosen is the first of the lowest of those.
LEMMA ChooseIsFirstOfLowest ==
    ASSUME NEW h \in Seq(EpochEntry), NEW k \in 1..Len(h), h[k].admissible
    PROVE  \E i \in 1..Len(h) :
               /\ choose(h) = h[i]
               /\ \A j \in 1..Len(h) : h[j].admissible => h[i].score <= h[j].score
               /\ \A j \in 1..i - 1 : h[j].admissible => h[i].score < h[j].score
<1> DEFINE May == {j \in 1..Len(h) : h[j].admissible}
           T == {h[j].score : j \in May}
<1>1. \A j \in 1..Len(h) : h[j] \in EpochEntry
  OBVIOUS
<1>2. T \subseteq Nat /\ T # {}
  BY <1>1 DEF EpochEntry
<1>3. PICK s \in T : \A y \in T : s <= y
  <2> HIDE DEF T
  <2>1. QED
    BY <1>2, LeastOf
<1> DEFINE U == {j \in May : h[j].score = s}
<1>4. U \subseteq Nat /\ U # {}
  BY <1>3
<1>5. PICK i \in U : \A j \in U : i <= j
  <2> HIDE DEF U
  <2>1. QED
    BY <1>4, LeastOf
<1>6. /\ i \in 1..Len(h) /\ h[i].admissible
      /\ \A j \in 1..Len(h) : h[j].admissible => h[i].score <= h[j].score
  BY <1>3, <1>5
<1>7. ASSUME NEW j \in 1..i - 1, h[j].admissible PROVE h[i].score < h[j].score
  <2>1. j \in 1..Len(h) /\ j < i
    BY <1>6
  <2>2. h[j].score # s
    BY <1>5, <1>7, <2>1
  <2>3. h[j].score \in Nat /\ h[i].score \in Nat /\ h[i].score = s
    BY <1>1, <1>5, <1>6, <2>1 DEF EpochEntry
  <2>4. QED
    BY <1>6, <1>7, <2>1, <2>2, <2>3
<1> DEFINE Q(x) == /\ h[x].admissible
                   /\ \A j \in DOMAIN h : h[j].admissible => h[x].score <= h[j].score
                   /\ \A j \in 1..x - 1 : h[j].admissible => h[x].score < h[j].score
<1>8. DOMAIN h = 1..Len(h)
  OBVIOUS
<1>9. Q(i) /\ i \in DOMAIN h
  BY <1>6, <1>7, <1>8
<1>10. choose(h) = h[CHOOSE x \in DOMAIN h : Q(x)]
  BY DEF choose
<1>11. PICK c \in DOMAIN h : Q(c) /\ c = CHOOSE x \in DOMAIN h : Q(x)
  <2> HIDE DEF Q
  <2>1. QED
    BY <1>9
<1>12. QED
  BY <1>8, <1>10, <1>11

-----------------------------------------------------------------------------
LEMMA LoopInitInv == LoopInit => LoopInv
<1> SUFFICES ASSUME LoopInit PROVE LoopInv
  OBVIOUS
<1>1. /\ loop \in DOMAIN Loops /\ history = <<>> /\ best = NoEpoch /\ weights = 0 /\ batch = 0 /\ gradients = 0
      /\ exhausted = FALSE /\ late = FALSE /\ stage = IF Policy.first = 0 THEN "score" ELSE "batch"
  BY DEF LoopInit, LoopIdle
<1>2. Policy.first \in {0, 1}
  BY <1>1, Policies
<1>3. LoopTypes
  <2>1. history \in Seq(EpochEntry) /\ best \in EpochEntry \cup {NoEpoch}
    BY <1>1
  <2>2. stage \in Stages
    BY <1>1 DEF Stages
  <2>3. 0 \in Nat
    OBVIOUS
  <2>4. QED
    BY <1>1, <2>1, <2>2, <2>3 DEF LoopTypes
<1>4. EntriesInv /\ BestInv
  BY <1>1 DEF EntriesInv, BestInv
<1>5. ProgressInv
  <2>1. Number = Policy.first
    BY <1>1, <1>2 DEF Number
  <2>2. 0 * PerEpoch = 0 /\ 0 * Records = 0 /\ 0 < Batches /\ 1 <= Epochs
    BY Sizes, LoopAssumption
  <2>3. CASE Policy.first = 0
    <3>1. Number = 0 /\ stage = "score"
      BY <1>1, <2>1, <2>3
    <3>2. Number * PerEpoch = 0
      BY <2>2, <3>1
    <3>3. stage = "score" /\ exhausted = FALSE /\ Number <= Epochs /\ weights = Number * PerEpoch
      BY <1>1, <2>2, <3>1, <3>2, Sizes
    <3>4. QED
      BY <3>3 DEF ProgressInv
  <2>4. CASE Policy.first = 1
    <3>1. Number = 1 /\ stage = "batch" /\ Number - 1 = 0
      BY <1>1, <2>1, <2>4
    <3>2. (Number - 1) * PerEpoch + batch * Records = 0
      BY <1>1, <2>2, <3>1
    <3>3. QED
      BY <1>1, <2>2, <3>1, <3>2 DEF ProgressInv
  <2>5. QED
    BY <1>2, <2>3, <2>4
<1>6. ExportedFit
  BY <1>1 DEF ExportedFit, AtStage
<1>7. QED
  BY <1>3, <1>4, <1>5, <1>6 DEF LoopInv

LEMMA Times ==
    ASSUME NEW n \in Int, NEW r \in Int
    PROVE  (n + 1) * r = n * r + r /\ (n - 1) * r + r = n * r /\ 0 * r = 0
OBVIOUS

\* A step that enters no epoch keeps what is said of the entries.
LEMMA EntriesKept ==
    ASSUME LoopInv, UNCHANGED <<loop, history, best>>
    PROVE  EntriesInv' /\ BestInv'
<1>1. Policy' = Policy
  BY DEF Policy
<1>2. EntriesInv'
  BY <1>1 DEF LoopInv, EntriesInv, PerEpoch
<1>3. BestInv'
  BY <1>1 DEF LoopInv, BestInv, FirstOfLowest
<1>4. QED
  BY <1>2, <1>3

\* A step that only moves on keeps what is said of the progress.
LEMMA MovesOn ==
    ASSUME LoopInv, ExportedFit', UNCHANGED <<loop, weights, history, best>>,
           batch' = batch, exhausted' \in BOOLEAN, late' \in BOOLEAN, gradients' \in Nat,
           \/ stage' = stage /\ exhausted' = exhausted
           \/ stage' = "failed" /\ (exhausted' = exhausted \/ Policy.choice = "best")
           \/ stage' = "export" /\ exhausted' /\ Policy.choice = "best"
           \/ stage = "batch" /\ stage' = "record" /\ exhausted' = exhausted
           \/ stage = "score" /\ stage' = "scored" /\ exhausted' = exhausted
           \/ stage = "export" /\ stage' = "exported" /\ exhausted' = exhausted
    PROVE  LoopInv'
<1>1. Policy' = Policy /\ Number' = Number
  BY DEF Policy, Number
<1>2. LoopTypes'
  BY DEF LoopInv, LoopTypes, Stages
<1>3. ProgressInv'
  <2> USE <1>1 DEF LoopInv, ProgressInv, PerEpoch
  <2>1. CASE stage' = stage /\ exhausted' = exhausted
    BY <2>1
  <2>2. CASE stage' = "failed" /\ (exhausted' = exhausted \/ Policy.choice = "best")
    BY <2>2
  <2>3. CASE stage' = "export" /\ exhausted' /\ Policy.choice = "best"
    BY <2>3
  <2>4. CASE stage = "batch" /\ stage' = "record" /\ exhausted' = exhausted
    BY <2>4
  <2>5. CASE stage = "score" /\ stage' = "scored" /\ exhausted' = exhausted
    BY <2>5
  <2>6. CASE stage = "export" /\ stage' = "exported" /\ exhausted' = exhausted
    BY <2>6
  <2>7. QED
    BY <2>1, <2>2, <2>3, <2>4, <2>5, <2>6
<1>4. QED
  BY <1>2, <1>3, EntriesKept DEF LoopInv

LEMMA NothingExported == ASSUME stage' # "exported" PROVE ExportedFit'
BY DEF ExportedFit, AtStage

\* The last batch of an epoch makes its weights those of the epoch.
LEMMA UpdateKeeps == ASSUME LoopInv, Update PROVE LoopInv'
<1>1. /\ stage = "record" /\ weights' = weights + Records /\ batch' = batch + 1
      /\ UNCHANGED <<loop, late, gradients, history, best, exhausted>>
      /\ stage' = IF batch + 1 = Batches THEN "score" ELSE "batch"
  BY DEF Update, AtStage
<1>2. Policy' = Policy /\ Number' = Number /\ Number \in Int
  BY <1>1, Policies DEF Policy, Number, LoopInv, LoopTypes
<1>3. LoopTypes'
  BY <1>1, Sizes DEF LoopInv, LoopTypes, Stages
<1>4. /\ 1 <= Number /\ Number <= Epochs /\ batch < Batches /\ exhausted = FALSE
      /\ weights = (Number - 1) * PerEpoch + batch * Records
  BY <1>1 DEF LoopInv, ProgressInv, LoopTypes
<1>5. weights' = (Number - 1) * PerEpoch + (batch + 1) * Records
  <2>1. /\ batch * Records + Records = (batch + 1) * Records
        /\ (Number - 1) * PerEpoch \in Int /\ batch * Records \in Int
    BY <1>2, Times, Sizes DEF LoopInv, LoopTypes
  <2>2. QED
    BY <1>1, <1>4, <2>1, Sizes
<1>6. ProgressInv'
  <2>1. CASE batch + 1 = Batches
    <3>1. weights' = Number * PerEpoch
      BY <1>2, <1>5, <2>1, Times, Sizes
    <3>2. QED
      BY <1>1, <1>2, <1>4, <2>1, <3>1 DEF ProgressInv, PerEpoch
  <2>2. CASE batch + 1 # Batches
    <3>1. batch' < Batches
      BY <1>1, <1>4, <2>2, Sizes DEF LoopInv, LoopTypes
    <3>2. weights' = (Number' - 1) * PerEpoch + batch' * Records
      BY <1>1, <1>2, <1>5
    <3>3. QED
      BY <1>1, <1>2, <1>4, <2>2, <3>1, <3>2 DEF ProgressInv, PerEpoch
  <2>3. QED
    BY <2>1, <2>2
<1>7. stage' # "exported"
  BY <1>1
<1>8. QED
  BY <1>1, <1>3, <1>6, <1>7, EntriesKept, NothingExported DEF LoopInv

\* An epoch is entered with the weights of whole epochs, and remembered when it is lower.
LEMMA EnterEpochKeeps == ASSUME LoopInv, EnterEpoch PROVE LoopInv'
<1>1. PICK score \in Scores, admissible \in BOOLEAN :
          LET entry == [epoch |-> Number, score |-> score, admissible |-> admissible, weights |-> weights]
          IN  /\ (Number = 0 \/ Policy.choice # "admissible") => admissible
              /\ history' = Append(history, entry)
              /\ best' = IF Policy.choice = "best" THEN Lower(entry) ELSE best
  BY DEF EnterEpoch
<1> DEFINE entry == [epoch |-> Number, score |-> score, admissible |-> admissible, weights |-> weights]
           n == Len(history)
<1>2. /\ stage = "scored" /\ batch' = 0 /\ stage' = IF Number = Epochs THEN "export" ELSE "batch"
      /\ UNCHANGED <<loop, late, gradients, weights, exhausted>>
  BY DEF EnterEpoch, AtStage
<1>3. /\ Policy.first \in {0, 1} /\ Policy' = Policy /\ n \in Nat
      /\ Number = Policy.first + n /\ Number \in Nat
      /\ PerEpoch' = PerEpoch
  BY <1>2, Policies DEF Policy, Number, PerEpoch, LoopInv, LoopTypes
<1>4. Number <= Epochs /\ weights = Number * PerEpoch /\ exhausted = FALSE
  BY <1>2 DEF LoopInv, ProgressInv, LoopTypes
<1>5. entry \in EpochEntry
  <2>1. score \in Nat /\ weights \in Nat
    BY LoopAssumption DEF LoopInv, LoopTypes
  <2>2. QED
    BY <1>3, <2>1 DEF EpochEntry
<1>6. /\ history \in Seq(EpochEntry) /\ history' \in Seq(EpochEntry) /\ Len(history') = n + 1
      /\ history'[n + 1] = entry
      /\ \A i \in 1..n : history'[i] = history[i] /\ history[i] \in EpochEntry
  <2>1. history \in Seq(EpochEntry) /\ history' = Append(history, entry)
    BY <1>1 DEF LoopInv, LoopTypes
  <2> HIDE DEF entry
  <2>2. QED
    BY <1>5, <2>1
<1>7. Number' = Number + 1
  BY <1>3, <1>6 DEF Number
<1>8. ProgressInv'
  <2>1. CASE Number = Epochs
    BY <1>2, <1>3, <1>4, <1>7, <2>1 DEF ProgressInv
  <2>2. CASE Number # Epochs
    <3>1. /\ 1 <= Number' /\ Number' <= Epochs /\ 0 < Batches /\ Number' - 1 = Number
      BY <1>3, <1>4, <1>7, <2>2, LoopAssumption
    <3>2. weights' = (Number' - 1) * PerEpoch + batch' * Records
      <4>1. 0 * Records = 0 /\ weights \in Nat
        BY Sizes DEF LoopInv, LoopTypes
      <4>2. QED
        BY <1>2, <1>4, <3>1, <4>1
    <3>3. QED
      BY <1>2, <1>3, <1>4, <2>2, <3>1, <3>2 DEF ProgressInv
  <2>3. QED
    BY <2>1, <2>2
<1>9. EntriesInv'
  <2>1. ASSUME NEW i \in 1..n
        PROVE  /\ history'[i].epoch = Policy.first + i - 1
               /\ history'[i].weights = history'[i].epoch * PerEpoch
               /\ Policy.choice # "admissible" \/ i = 1 => history'[i].admissible
    <3>1. history'[i] = history[i]
      BY <1>6
    <3>2. QED
      BY <3>1 DEF LoopInv, EntriesInv
  <2>2. /\ entry.epoch = Policy.first + (n + 1) - 1
        /\ entry.weights = entry.epoch * PerEpoch
        /\ Policy.choice # "admissible" \/ n + 1 = 1 => entry.admissible
    <3>1. entry.epoch = Policy.first + (n + 1) - 1
      BY <1>3
    <3>2. entry.weights = entry.epoch * PerEpoch
      BY <1>4
    <3>3. ASSUME Policy.choice # "admissible" \/ n + 1 = 1 PROVE entry.admissible
      <4>1. n + 1 = 1 => Number = 0 \/ Policy.choice # "admissible"
        BY <1>3, Policies DEF LoopInv, LoopTypes
      <4>2. QED
        BY <1>1, <3>3, <4>1
    <3>4. QED
      BY <3>1, <3>2, <3>3
  <2> HIDE DEF entry
  <2>3. \A i \in 1..n + 1 : i \in 1..n \/ i = n + 1
    BY <1>3
  <2>4. QED
    BY <1>3, <1>6, <2>1, <2>2, <2>3 DEF EntriesInv
<1>10. BestInv'
  <2>1. SUFFICES ASSUME Policy.choice = "best"
                 PROVE  \E i \in 1..Len(history') : best' = history'[i] /\ FirstOfLowest(best)'
    BY <1>3 DEF BestInv
  <2>2. best' = Lower(entry) /\ entry.score \in Nat /\ entry.epoch = Number
    BY <1>1, <1>5, <2>1 DEF EpochEntry
  <2> HIDE DEF entry
  <2>3. ASSUME NEW j \in 1..Len(history')
        PROVE  (j \in 1..n /\ history'[j] = history[j] /\ history[j] \in EpochEntry) \/ (j = n + 1 /\ history'[j] = entry)
    BY <1>3, <1>6
  <2>4. CASE best = NoEpoch
    <3>1. history = <<>>
      <4>1. \A i \in 1..n : history[i] # NoEpoch
        BY <1>6, LoopAssumption DEF EpochEntry
      <4>2. QED
        BY <2>1, <2>4, <4>1 DEF LoopInv, BestInv
    <3>2. n = 0 /\ best' = entry
      BY <2>2, <2>4, <3>1 DEF Lower
    <3>3. \A j \in 1..Len(history') : history'[j] = entry
      BY <2>3, <3>2
    <3>4. n + 1 \in 1..Len(history')
      BY <1>3, <1>6
    <3>5. QED
      BY <1>3, <1>6, <2>2, <3>2, <3>3, <3>4 DEF FirstOfLowest
  <2>5. CASE best # NoEpoch
    <3>1. PICK i \in 1..n : best = history[i] /\ FirstOfLowest(best)
      BY <2>1, <2>5 DEF LoopInv, BestInv
    <3>2. best.score \in Nat /\ best.epoch \in Nat /\ best.epoch < Number
      <4>1. best \in EpochEntry /\ best.epoch = Policy.first + i - 1
        BY <1>6, <3>1 DEF LoopInv, EntriesInv
      <4>2. QED
        BY <1>3, <4>1 DEF EpochEntry
    <3>3. CASE entry.score < best.score
      <4>1. best' = entry
        BY <2>2, <2>5, <3>3 DEF Lower
      <4>2. ASSUME NEW j \in 1..Len(history'), history'[j].admissible
            PROVE  entry.score <= history'[j].score /\ (history'[j].epoch < entry.epoch => entry.score < history'[j].score)
        <5>1. CASE j \in 1..n /\ history'[j] = history[j] /\ history[j] \in EpochEntry
          <6>1. best.score <= history[j].score /\ history[j].score \in Nat
            BY <3>1, <4>2, <5>1 DEF FirstOfLowest, EpochEntry
          <6>2. QED
            BY <2>2, <3>2, <3>3, <5>1, <6>1
        <5>2. CASE j = n + 1 /\ history'[j] = entry
          BY <2>2, <1>3, <5>2
        <5>3. QED
          BY <2>3, <5>1, <5>2
      <4>3. QED
        BY <1>3, <1>6, <4>1, <4>2 DEF FirstOfLowest
    <3>4. CASE ~(entry.score < best.score)
      <4>1. best' = best
        BY <2>2, <2>5, <3>4 DEF Lower
      <4>2. ASSUME NEW j \in 1..Len(history'), history'[j].admissible
            PROVE  best.score <= history'[j].score /\ (history'[j].epoch < best.epoch => best.score < history'[j].score)
        <5>1. CASE j \in 1..n /\ history'[j] = history[j] /\ history[j] \in EpochEntry
          BY <3>1, <4>2, <5>1 DEF FirstOfLowest
        <5>2. CASE j = n + 1 /\ history'[j] = entry
          BY <1>3, <2>2, <3>2, <3>4, <5>2
        <5>3. QED
          BY <2>3, <5>1, <5>2
      <4>3. i \in 1..Len(history') /\ best' = history'[i]
        BY <1>3, <1>6, <3>1, <4>1
      <4>4. QED
        BY <4>1, <4>2, <4>3 DEF FirstOfLowest
    <3>5. QED
      BY <3>3, <3>4
  <2>6. QED
    BY <2>4, <2>5
<1>11. LoopTypes'
  <2>1. best' \in EpochEntry \cup {NoEpoch}
    <3> HIDE DEF entry
    <3>1. QED
      BY <1>1, <1>5 DEF Lower, LoopInv, LoopTypes, entry
  <2>2. stage' \in Stages /\ 0 \in Nat
    BY <1>2 DEF Stages
  <2>3. QED
    BY <1>2, <1>6, <2>1, <2>2 DEF LoopInv, LoopTypes
<1>12. stage' # "exported"
  BY <1>2
<1>13. QED
  BY <1>8, <1>9, <1>10, <1>11, <1>12, NothingExported DEF LoopInv

\* What is exported is one of the entries, and no admissible one is lower.
LEMMA ExportKeeps == ASSUME LoopInv, Export PROVE LoopInv'
<1>1. /\ stage = "export" /\ UNCHANGED <<loop, late, batch, gradients, weights, history, best, exhausted>>
      /\ exported' = CASE Policy.choice = "best" -> best
                       [] Policy.choice = "admissible" -> choose(history)
                       [] Policy.choice = "last" -> history[Len(history)]
      /\ stage' = IF exported' = NoEpoch THEN "failed" ELSE "exported"
  BY DEF Export, AtStage
<1>2. /\ Policy.first \in {0, 1} /\ Policy' = Policy /\ Len(history) \in Nat /\ history \in Seq(EpochEntry)
      /\ Policy.choice \in {"best", "admissible", "last"}
      /\ PerEpoch' = PerEpoch
  BY <1>1, Policies DEF Policy, PerEpoch, LoopInv, LoopTypes
<1>3. Policy.choice # "best" => 1 \in 1..Len(history) /\ Len(history) \in 1..Len(history)
  <2>1. SUFFICES ASSUME Policy.choice # "best" PROVE Len(history) >= 1
    BY <1>2
  <2>2. Number = Epochs + 1 /\ Number = Policy.first + Len(history)
    BY <1>1, <2>1 DEF LoopInv, ProgressInv, Number
  <2>3. QED
    BY <1>2, <2>2, LoopAssumption
<1>4. ASSUME exported' # NoEpoch
      PROVE  \E i \in 1..Len(history) :
                 /\ exported' = history[i]
                 /\ Policy.choice # "last" =>
                     \A j \in 1..Len(history) : history[j].admissible =>
                         /\ history[i].score <= history[j].score
                         /\ history[j].epoch < history[i].epoch => history[i].score < history[j].score
  <2>1. CASE Policy.choice = "best"
    BY <1>1, <1>4, <2>1 DEF LoopInv, BestInv, FirstOfLowest
  <2>2. CASE Policy.choice = "admissible"
    <3>1. exported' = choose(history)
      BY <1>1, <2>2
    <3>2. history[1].admissible
      BY <1>3, <2>2 DEF LoopInv, EntriesInv
    <3>3. PICK i \in 1..Len(history) :
              /\ choose(history) = history[i]
              /\ \A j \in 1..Len(history) : history[j].admissible => history[i].score <= history[j].score
              /\ \A j \in 1..i - 1 : history[j].admissible => history[i].score < history[j].score
      BY <1>2, <1>3, <2>2, <3>2, ChooseIsFirstOfLowest
    <3>4. ASSUME NEW j \in 1..Len(history), history[j].epoch < history[i].epoch PROVE j \in 1..i - 1
      <4>1. history[j].epoch = Policy.first + j - 1 /\ history[i].epoch = Policy.first + i - 1
        BY DEF LoopInv, EntriesInv
      <4>2. QED
        BY <1>2, <3>4, <4>1
    <3>5. QED
      BY <3>1, <3>3, <3>4
  <2>3. CASE Policy.choice = "last"
    BY <1>1, <1>3, <2>3
  <2>4. QED
    BY <1>2, <2>1, <2>2, <2>3
<1>5. ExportedFit'
  <2>1. CASE exported' = NoEpoch
    BY <1>1, <2>1, NothingExported
  <2>2. CASE exported' # NoEpoch
    <3>1. PICK i \in 1..Len(history) :
                 /\ exported' = history[i]
                 /\ Policy.choice # "last" =>
                     \A j \in 1..Len(history) : history[j].admissible =>
                         /\ history[i].score <= history[j].score
                         /\ history[j].epoch < history[i].epoch => history[i].score < history[j].score
      BY <1>4, <2>2
    <3>2. history[i].weights = history[i].epoch * PerEpoch /\ DOMAIN history = 1..Len(history) /\ history' = history
      BY <1>1, <1>2 DEF LoopInv, EntriesInv
    <3>3. QED
      BY <1>2, <3>1, <3>2 DEF ExportedFit
  <2>3. QED
    BY <2>1, <2>2
<1>6. QED
  BY <1>1, <1>5, MovesOn DEF LoopInv, LoopTypes

-----------------------------------------------------------------------------
LEMMA TrainingKeeps == LoopInv /\ [LoopNext]_loop_vars => LoopInv'
<1> SUFFICES ASSUME LoopInv, [LoopNext]_loop_vars PROVE LoopInv'
  OBVIOUS
<1> USE DEF LoopInv, LoopTypes, AtStage
<1>1. CASE Deadline
  BY <1>1, MovesOn, NothingExported DEF Deadline, UnderWay
<1>2. CASE LoopFails
  BY <1>2, MovesOn, NothingExported DEF LoopFails
<1>3. CASE BudgetSpent
  BY <1>3, MovesOn, NothingExported, Policies DEF BudgetSpent
<1>4. CASE TakeBatch
  BY <1>4, MovesOn, NothingExported DEF TakeBatch
<1>5. CASE Backward
  BY <1>5, MovesOn, NothingExported DEF Backward
<1>6. CASE DevelopmentScore
  BY <1>6, MovesOn, NothingExported DEF DevelopmentScore
<1>7. CASE UNCHANGED loop_vars
  <2>1. ExportedFit'
    BY <1>7 DEF loop_vars, ExportedFit, Policy, PerEpoch
  <2>2. QED
    BY <1>7, <2>1, MovesOn DEF loop_vars
<1>8. QED
  BY <1>1, <1>2, <1>3, <1>4, <1>5, <1>6, <1>7, UpdateKeeps, EnterEpochKeeps, ExportKeeps DEF LoopNext

\* A finished fit has entered all its epochs, so the schedule is behind it.
LEMMA LoopIsSafe == LoopInv => LoopOK
<1> SUFFICES ASSUME LoopInv, Finished PROVE weights = Epochs * PerEpoch
  BY DEF LoopInv, LoopOK, FinishedIsWhole
<1>1. QED
  BY DEF LoopInv, ProgressInv, Finished

\* Every unrecorded fit, of any size and with any scores, however the budget runs out and
\* whatever fails: what it exports has learned from whole epochs and is the first of the
\* lowest that may be chosen, and a finished fit has taken every update.
THEOREM TrainingIsSound == LoopSpec => []LoopOK
<1>1. LoopInit => LoopInv
  BY LoopInitInv
<1>2. LoopInv /\ [LoopNext]_loop_vars => LoopInv'
  BY TrainingKeeps
<1>3. LoopInv => LoopOK
  BY LoopIsSafe
<1>4. QED
  BY <1>1, <1>2, <1>3, PTL DEF LoopSpec

-----------------------------------------------------------------------------
\* The fits apart and together.

\* What the trainers have learned by the place the fit has come to.
Entering == {"before", "enter", "train"}
Leaving == {"optimized", "after", "returned"}
Scoring == {"score", "checkpoint", "best"}
Exporting == {"export", "audit", "report", "finish", "done"}
Sound == {"batch", "pair"} \cup Entering \cup Leaving \cup Scoring \cup Exporting
FitPlaces == Sound \cup {"aborting", "failed"}

Events == {"update_entered", "update_returned", "pair_complete", "epoch_complete", "failed"}
ReceiptsOfFit == [event : Events, epoch : Nat, batch : Nat, task : TrainerNames, calls : [TrainerNames -> Nat]]
FitTypes ==
    /\ shared \in BOOLEAN /\ place \in FitPlaces /\ spent \in BOOLEAN
    /\ epoch \in 1..FitEpochs /\ turn \in 1..FitBatches /\ who \in 1..Len(Trainers(shared))
    /\ taken \in [TrainerNames -> Nat] /\ returned \in [TrainerNames -> Nat]
    /\ receipts \in Seq(ReceiptsOfFit)
    /\ saved \in [before : [TrainerNames -> Nat] \cup {NotYet}, after : [TrainerNames -> Nat] \cup {NotYet}]
    /\ measured \in Seq([Tasks -> Nat]) /\ choices \in [Tasks -> TaskCheckpoint \cup {NotYet}]
    /\ fresh \subseteq Tasks

Used(name) == IF shared THEN name = "shared" ELSE name \in Tasks
Position(name) == IF name = "phase" THEN 2 ELSE 1
Before == (epoch - 1) * FitBatches + turn - 1   \* batches complete before this one
CountInv ==
    /\ \A name \in TrainerNames : Used(name) =>
        /\ place = "batch" => taken[name] = Before
        /\ place \in Entering => taken[name] = IF Position(name) < who THEN Before + 1 ELSE Before
        /\ place \in Leaving => taken[name] = IF Position(name) <= who THEN Before + 1 ELSE Before
        /\ place = "pair" => taken[name] = Before + 1
        /\ place \in Scoring => taken[name] = epoch * FitBatches
    /\ place \in Exporting => epoch = FitEpochs
    /\ place \in Sound => taken = returned /\ torn = {}

\* The first of the lowest losses of a task over the epochs measured by then.
Selected(task, n) ==
    IF n = 0 THEN choices[task] = NotYet
    ELSE /\ choices[task] # NotYet /\ choices[task].epoch \in 1..n
         /\ choices[task].weights = choices[task].epoch * FitBatches
         /\ choices[task].loss = measured[choices[task].epoch][task]
         /\ \A e \in 1..n : /\ choices[task].loss <= measured[e][task]
                            /\ e < choices[task].epoch => choices[task].loss < measured[e][task]
Observed == IF place \in {"best"} \cup Exporting THEN epoch ELSE epoch - 1
ChoiceInv ==
    /\ place \in Sound => \A task \in Tasks : Selected(task, Observed)
    /\ place \in Sound => Len(measured) = IF place \in {"checkpoint", "best"} \cup Exporting THEN epoch ELSE epoch - 1
    /\ place \in Exporting \ {"export"} => export = choices
    /\ place \in {"report", "finish", "done"} => audit_receipts(receipts, shared)

\* The snapshots and the journal on the way.
BracketInv ==
    /\ place \in {"enter", "train"} => saved.before = taken
    /\ place \in {"after"} => saved.after = taken
    /\ saved.after # NotYet => \A t \in TrainerNames : saved.after[t] <= taken[t]
    /\ Bracketed
SeparatedInv == FitTypes /\ CountInv /\ ChoiceInv /\ BracketInv

-----------------------------------------------------------------------------
\* The schedule has epochs and batches.
LEMMA Schedule == FitEpochs \in Nat /\ FitBatches \in Nat /\ FitEpochs >= 1 /\ FitBatches >= 1 /\ Losses \subseteq Nat
  BY PlanAssumption

\* Each trainer has its turn.
LEMMA MineIs ==
    ASSUME FitTypes
    PROVE  /\ Mine \in TrainerNames /\ Used(Mine) /\ Position(Mine) = who
           /\ \A other \in TrainerNames : Used(other) /\ other # Mine => Position(other) # who
           /\ Len(Trainers(shared)) = IF shared THEN 1 ELSE 2
           /\ \A name \in TrainerNames : Used(name) => Position(name) <= Len(Trainers(shared))
<1>1. CASE shared
  BY <1>1 DEF FitTypes, Mine, Trainers, Used, Position, TrainerNames
<1>2. CASE ~shared
  BY <1>2 DEF FitTypes, Mine, Trainers, TASKS, Used, Position, TrainerNames, Tasks
<1>3. QED
  BY <1>1, <1>2

\* A journal entry is of its types, and the last.
LEMMA WritesAppend ==
    ASSUME FitTypes, NEW event \in Events, WritesReceipt(event)
    PROVE  /\ receipts' \in Seq(ReceiptsOfFit) /\ Len(receipts') = Len(receipts) + 1
           /\ receipts'[Len(receipts')] = Entry(event)
           /\ \A i \in 1..Len(receipts) : receipts'[i] = receipts[i]
<1>1. Entry(event) \in ReceiptsOfFit
  BY MineIs, Schedule DEF FitTypes, Entry, ReceiptsOfFit
<1>2. QED
  BY <1>1 DEF FitTypes, WritesReceipt

LEMMA FitTypesKeep == ASSUME SeparatedInv, FitNext PROVE FitTypes'
<1> USE DEF SeparatedInv, FitTypes, FitPlaces, Sound, Entering, Leaving, Scoring, Exporting, Goes
<1>1. CASE BudgetEnds \/ BeginBatch \/ ExportSelection \/ Audit
  <2>1. who' \in 1..Len(Trainers(shared)) /\ UNCHANGED shared
    BY <1>1, MineIs DEF BudgetEnds, BeginBatch, ExportSelection, Audit
  <2>2. QED
    BY <1>1, <2>1 DEF BudgetEnds, BeginBatch, ExportSelection, Audit
<1>2. CASE SaveBefore \/ SaveAfter
  BY <1>2 DEF SaveBefore, SaveAfter
<1>3. CASE EnterUpdate
  BY <1>3, WritesAppend DEF EnterUpdate, Events
<1>4. CASE UpdateReturned
  BY <1>4, WritesAppend DEF UpdateReturned, Events
<1>5. CASE PairComplete
  BY <1>5, WritesAppend, Schedule DEF PairComplete, Events
<1>6. CASE EpochComplete
  BY <1>6, WritesAppend, Schedule DEF EpochComplete, Events
<1>7. CASE TrainerUpdate
  BY <1>7, MineIs DEF TrainerUpdate
<1>8. CASE NextTrainer
  BY <1>8, MineIs DEF NextTrainer
<1>9. CASE Development
  <2>1. PICK losses \in [Tasks -> Losses] : measured' = Append(measured, losses)
    BY <1>9 DEF Development
  <2>2. losses \in [Tasks -> Nat]
    BY Schedule
  <2>3. measured' \in Seq([Tasks -> Nat])
    BY <2>1, <2>2
  <2>4. QED
    BY <1>9, <2>3 DEF Development
<1>10. CASE Observe
  <2>1. Len(measured) = epoch /\ epoch \in 1..Len(measured)
    BY <1>10 DEF Observe, ChoiceInv
  <2>2. \A task \in Tasks : measured[epoch][task] \in Nat /\ BranchOf(task) \in TrainerNames
    BY <2>1 DEF BranchOf, Tasks, TrainerNames
  <2>3. \A task \in Tasks :
           [epoch |-> epoch, loss |-> measured[epoch][task], weights |-> taken[BranchOf(task)]] \in TaskCheckpoint
    BY <2>2, Schedule DEF TaskCheckpoint
  <2>4. choices' \in [Tasks -> TaskCheckpoint \cup {NotYet}] /\ fresh' \subseteq Tasks
    BY <1>10, <2>3 DEF Observe
  <2>5. QED
    BY <1>10, <2>4 DEF Observe
<1>11. CASE SaveBest
  BY <1>11 DEF SaveBest
<1>12. CASE Report
  BY <1>12 DEF Report
<1>13. CASE RaiseAnywhere
  BY <1>13, MineIs DEF RaiseAnywhere
<1>14. CASE Abort
  <2>1. receipts' = receipts \/ WritesReceipt("failed")
    BY <1>14 DEF Abort, WritesReceipt
  <2>2. receipts' \in Seq(ReceiptsOfFit)
    BY <2>1, WritesAppend DEF Events
  <2>3. QED
    BY <1>14, <2>2 DEF Abort
<1>15. QED
  BY <1>1, <1>2, <1>3, <1>4, <1>5, <1>6, <1>7, <1>8, <1>9, <1>10, <1>11, <1>12, <1>13, <1>14 DEF FitNext

\* A trainer learns once in each batch, in its turn.
LEMMA CountKeeps == ASSUME SeparatedInv, FitNext PROVE CountInv'
<1> USE DEF SeparatedInv, CountInv, Used, Sound, Entering, Leaving, Scoring, Exporting, Goes, Before
<1>1. /\ epoch \in 1..FitEpochs /\ turn \in 1..FitBatches /\ who \in 1..Len(Trainers(shared))
      /\ taken \in [TrainerNames -> Nat] /\ returned \in [TrainerNames -> Nat] /\ FitTypes
      /\ \A name \in TrainerNames : Position(name) \in {1, 2}
  BY DEF FitTypes, Position
<1>2. (epoch - 1) * FitBatches + FitBatches = epoch * FitBatches /\ epoch * FitBatches \in Nat
      /\ (epoch - 1) * FitBatches \in Nat /\ (epoch + 1 - 1) * FitBatches = epoch * FitBatches
  BY <1>1, Schedule
<1>3. CASE BudgetEnds
  BY <1>3 DEF BudgetEnds
<1>4. CASE BeginBatch
  BY <1>1, <1>4 DEF BeginBatch
<1>5. CASE SaveBefore \/ EnterUpdate \/ SaveAfter \/ UpdateReturned
  BY <1>1, <1>5 DEF SaveBefore, EnterUpdate, SaveAfter, UpdateReturned
<1>6. CASE TrainerUpdate
  BY <1>1, <1>2, <1>6, MineIs DEF TrainerUpdate
<1>7. CASE NextTrainer
  <2>1. /\ UNCHANGED <<taken, returned, torn, epoch, turn, shared>> /\ place = "returned"
        /\ \/ who < Len(Trainers(shared)) /\ place' = "before" /\ who' = who + 1
           \/ who = Len(Trainers(shared)) /\ place' = "pair" /\ who' = who
    BY <1>1, <1>7, MineIs DEF NextTrainer
  <2>2. CASE place' = "before"
    BY <1>1, <2>1, <2>2
  <2>3. CASE place' = "pair"
    BY <1>1, <2>1, <2>3, MineIs
  <2>4. QED
    BY <2>1, <2>2, <2>3
<1>8. CASE PairComplete
  BY <1>1, <1>2, <1>8, Schedule DEF PairComplete
<1>9. CASE Development \/ Observe \/ SaveBest
  BY <1>9 DEF Development, Observe, SaveBest
<1>10. CASE EpochComplete
  BY <1>1, <1>2, <1>10, Schedule DEF EpochComplete
<1>11. CASE ExportSelection \/ Audit \/ Report
  BY <1>11 DEF ExportSelection, Audit, Report
<1>12. CASE RaiseAnywhere \/ Abort
  BY <1>12 DEF RaiseAnywhere, Abort
<1>13. QED
  BY <1>3, <1>4, <1>5, <1>6, <1>7, <1>8, <1>9, <1>10, <1>11, <1>12 DEF FitNext

\* Only the return of an update says what after.pt has to hold.
Covered == \A i \in 1..Len(receipts) : receipts[i].event = "update_returned" =>
    saved.after # NotYet /\ \A t \in TrainerNames : receipts[i].calls[t] <= saved.after[t]
LEMMA OtherEntries ==
    ASSUME FitTypes, Covered, NEW event \in Events \ {"update_returned"}, WritesReceipt(event), UNCHANGED saved
    PROVE  Covered'
<1>1. event \in Events /\ receipts \in Seq(ReceiptsOfFit)
  BY DEF FitTypes
<1>2. /\ Len(receipts') = Len(receipts) + 1 /\ receipts'[Len(receipts')] = Entry(event)
      /\ \A i \in 1..Len(receipts) : receipts'[i] = receipts[i]
  BY <1>1, WritesAppend
<1>3. receipts'[Len(receipts')].event # "update_returned"
  BY <1>2 DEF Entry
<1>4. QED
  BY <1>1, <1>2, <1>3 DEF Covered

\* The snapshots stay around the weights.
LEMMA BracketKeeps == ASSUME SeparatedInv, FitNext PROVE BracketInv'
<1> USE DEF SeparatedInv, BracketInv, Sound, Entering, Leaving, Scoring, Exporting, Goes
<1>1. /\ who \in 1..Len(Trainers(shared)) /\ shared \in BOOLEAN
      /\ taken \in [TrainerNames -> Nat] /\ returned \in [TrainerNames -> Nat] /\ FitTypes
      /\ saved.before \in [TrainerNames -> Nat] \cup {NotYet} /\ saved.after \in [TrainerNames -> Nat] \cup {NotYet}
      /\ receipts \in Seq(ReceiptsOfFit) /\ place \in FitPlaces
  BY DEF FitTypes
<1>2. place \in Sound => taken = returned
  BY DEF CountInv
<1>3. \A i \in 1..Len(receipts) : receipts[i].calls \in [TrainerNames -> Nat]
  <2>1. \A i \in 1..Len(receipts) : receipts[i] \in ReceiptsOfFit
    BY <1>1
  <2>2. QED
    BY <2>1 DEF ReceiptsOfFit
<1>4. CASE BudgetEnds \/ BeginBatch \/ Development \/ Observe \/ SaveBest \/ ExportSelection \/ Audit \/ Report
           \/ NextTrainer
  BY <1>1, <1>4
     DEF BudgetEnds, BeginBatch, Development, Observe, SaveBest, ExportSelection, Audit, Report, NextTrainer, Bracketed
<1>5. CASE SaveBefore
  BY <1>1, <1>5 DEF SaveBefore, FitTypes, Bracketed
<1>6. CASE SaveAfter
  <2>1. /\ saved'.after = taken /\ saved'.before = saved.before /\ taken # NotYet
        /\ UNCHANGED <<shared, taken, returned, receipts>> /\ place = "optimized" /\ place' = "after"
    BY <1>1, <1>6, NotYetAssumption DEF SaveAfter, FitTypes
  <2>2. \A i \in 1..Len(receipts) : receipts[i].event = "update_returned" =>
           \A t \in TrainerNames : receipts[i].calls[t] <= taken[t]
    <3>1. SUFFICES ASSUME NEW i \in 1..Len(receipts), receipts[i].event = "update_returned", NEW t \in TrainerNames
                   PROVE  receipts[i].calls[t] <= taken[t]
      OBVIOUS
    <3>2. saved.after # NotYet /\ receipts[i].calls[t] <= saved.after[t]
      BY <3>1 DEF Bracketed
    <3>3. saved.after[t] <= taken[t] /\ saved.after[t] \in Nat /\ taken[t] \in Nat /\ receipts[i].calls[t] \in Nat
      BY <1>1, <1>3, <3>1, <3>2
    <3>4. QED
      BY <3>2, <3>3
  <2>3. QED
    BY <1>1, <2>1, <2>2 DEF Bracketed
<1>7. CASE EnterUpdate
  <2>1. UNCHANGED <<shared, taken, returned, saved>> /\ WritesReceipt("update_entered") /\ place = "enter" /\ place' = "train"
    BY <1>7 DEF EnterUpdate
  <2>2. Covered'
    BY <1>1, <2>1, OtherEntries DEF Covered, Bracketed, Events
  <2>3. QED
    BY <2>1, <2>2 DEF Covered, Bracketed
<1>8. CASE TrainerUpdate
  <2>1. /\ UNCHANGED <<shared, saved, receipts>> /\ place = "train" /\ place' = "optimized"
        /\ taken' = [taken EXCEPT ![Mine] = @ + 1] /\ returned' = [returned EXCEPT ![Mine] = @ + 1]
        /\ saved.before = taken /\ taken = returned
    BY <1>8 DEF TrainerUpdate, CountInv
  <2>2. taken' = returned' /\ \A t \in TrainerNames : taken'[t] = (IF t = Mine THEN taken[t] + 1 ELSE taken[t])
    BY <1>1, <2>1
  <2>3. ~shared => taken'["tempo"] - taken'["phase"] \in {0, 1}
    BY <1>1, <2>1, <2>2, MineIs DEF CountInv, Used, Position, TrainerNames, Tasks
  <2>4. QED
    BY <1>1, <2>1, <2>2, <2>3 DEF Bracketed
<1>9. CASE UpdateReturned
  <2>1. /\ UNCHANGED <<shared, taken, returned, saved>> /\ WritesReceipt("update_returned")
        /\ place = "after" /\ place' = "returned" /\ saved.after = taken /\ taken = returned
    BY <1>9 DEF UpdateReturned, CountInv
  <2>2. receipts'[Len(receipts')].calls = taken
    BY <1>1, <2>1, WritesAppend DEF Entry, Events
  <2>3. Covered'
    <3>1. taken # NotYet /\ saved'.after = taken /\ \A t \in TrainerNames : taken[t] \in Nat
      <4>1. taken # NotYet
        BY <1>1, NotYetAssumption
      <4>2. QED
        BY <1>1, <2>1, <4>1
    <3>2. /\ Len(receipts') = Len(receipts) + 1
          /\ \A i \in 1..Len(receipts) : receipts'[i] = receipts[i]
      BY <1>1, <2>1, WritesAppend DEF Events
    <3>3. Covered
      BY DEF Covered, Bracketed
    <3>4. Len(receipts) \in Nat /\ saved' = saved
      BY <1>1, <2>1
    <3>5. ASSUME NEW i \in 1..Len(receipts'), receipts'[i].event = "update_returned", NEW t \in TrainerNames
          PROVE  receipts'[i].calls[t] <= saved'.after[t]
      <4>1. CASE i = Len(receipts')
        <5>1. receipts'[i].calls[t] = taken[t] /\ saved'.after[t] = taken[t] /\ taken[t] \in Nat
          BY <2>2, <3>1, <4>1
        <5>2. QED
          BY <5>1
      <4>2. CASE i \in 1..Len(receipts)
        BY <3>2, <3>3, <3>4, <3>5, <4>2 DEF Covered
      <4>3. QED
        BY <3>2, <3>4, <4>1, <4>2
    <3>6. QED
      BY <3>1, <3>5 DEF Covered
  <2>4. QED
    BY <2>1, <2>3 DEF Covered, Bracketed
<1>10. CASE PairComplete \/ EpochComplete
  <2>1. /\ UNCHANGED <<shared, taken, returned, saved>>
        /\ WritesReceipt("pair_complete") \/ WritesReceipt("epoch_complete")
        /\ place \in {"pair", "best"} /\ place' \in {"batch", "score", "export"}
    BY <1>10 DEF PairComplete, EpochComplete
  <2>2. Covered'
    BY <1>1, <2>1, OtherEntries DEF Covered, Bracketed, Events
  <2>3. QED
    BY <2>1, <2>2 DEF Covered, Bracketed
<1>11. CASE RaiseAnywhere
  <2>1. UNCHANGED <<shared, saved, receipts, returned>> /\ place' = "aborting" /\ Working
    BY <1>11 DEF RaiseAnywhere
  <2>2. CASE UNCHANGED taken
    BY <1>1, <2>1, <2>2 DEF Bracketed
  <2>3. CASE taken' # taken
    <3>1. taken' = [taken EXCEPT ![Mine] = @ + 1] /\ place = "train" /\ saved.before = taken /\ taken = returned
      BY <1>11, <2>3 DEF RaiseAnywhere, CountInv
    <3>2. \A t \in TrainerNames : taken'[t] = (IF t = Mine THEN taken[t] + 1 ELSE taken[t])
      BY <1>1, <3>1
    <3>3. ~shared => taken'["tempo"] - taken'["phase"] \in {0, 1}
      BY <1>1, <3>1, <3>2, MineIs DEF CountInv, Used, Position, TrainerNames, Tasks
    <3>4. QED
      BY <1>1, <2>1, <3>1, <3>2, <3>3 DEF Bracketed
  <2>4. QED
    BY <2>2, <2>3
<1>12. CASE Abort
  <2>1. UNCHANGED <<shared, taken, returned, saved>> /\ place = "aborting" /\ place' = "failed"
    BY <1>12 DEF Abort
  <2>2. CASE UNCHANGED receipts
    BY <2>1, <2>2 DEF Bracketed
  <2>3. CASE WritesReceipt("failed")
    <3>1. Covered'
      BY <1>1, <2>1, <2>3, OtherEntries DEF Covered, Bracketed, Events
    <3>2. QED
      BY <2>1, <3>1 DEF Covered, Bracketed
  <2>4. QED
    BY <1>12, <2>2, <2>3 DEF Abort, WritesReceipt
<1>13. QED
  BY <1>4, <1>5, <1>6, <1>7, <1>8, <1>9, <1>10, <1>11, <1>12 DEF FitNext

\* What is kept of a task is the first of its lowest losses so far.
LEMMA ChoiceKeeps == ASSUME SeparatedInv, FitNext PROVE ChoiceInv'
<1> USE DEF SeparatedInv, ChoiceInv, Sound, Entering, Leaving, Scoring, Exporting, Goes, Observed
<1>1. /\ epoch \in 1..FitEpochs /\ measured \in Seq([Tasks -> Nat]) /\ Len(measured) \in Nat
      /\ choices \in [Tasks -> TaskCheckpoint \cup {NotYet}] /\ taken \in [TrainerNames -> Nat] /\ shared \in BOOLEAN
      /\ FitTypes
  BY DEF FitTypes
<1>2. ASSUME UNCHANGED <<epoch, measured, choices, export, receipts, shared>>, place' \in Sound => place \in Sound,
             place' \in Sound => (Observed' = Observed /\
                 (place' \in {"checkpoint", "best"} \cup Exporting <=> place \in {"checkpoint", "best"} \cup Exporting)),
             place' \in Exporting \ {"export"} => place \in Exporting \ {"export"},
             place' \in {"report", "finish", "done"} => place \in {"report", "finish", "done"}
      PROVE  ChoiceInv'
  BY <1>2 DEF Selected
<1>3. CASE BudgetEnds \/ BeginBatch \/ SaveBefore \/ EnterUpdate \/ TrainerUpdate \/ SaveAfter
           \/ UpdateReturned \/ NextTrainer \/ PairComplete
  <2>1. UNCHANGED <<epoch, measured, choices, export, shared>>
    BY <1>3 DEF BudgetEnds, BeginBatch, SaveBefore, EnterUpdate, TrainerUpdate, SaveAfter,
                UpdateReturned, NextTrainer, PairComplete
  <2>2. \/ place' \in {"batch", "before", "enter", "train", "optimized", "after", "returned", "pair", "score"}
           /\ place \in {"batch", "before", "enter", "train", "optimized", "after", "returned", "pair"}
        \/ BudgetEnds
    BY <1>3 DEF BeginBatch, SaveBefore, EnterUpdate, TrainerUpdate, SaveAfter,
                UpdateReturned, NextTrainer, PairComplete
  <2>3. CASE BudgetEnds
    BY <1>2, <2>1, <2>3 DEF BudgetEnds
  <2>4. CASE ~BudgetEnds
    BY <2>1, <2>2, <2>4 DEF Selected
  <2>5. QED
    BY <2>3, <2>4
<1>4. CASE RaiseAnywhere \/ Abort
  BY <1>4 DEF RaiseAnywhere, Abort
<1>5. CASE SaveBest
  BY <1>1, <1>5 DEF SaveBest, Selected
<1>6. CASE ExportSelection
  BY <1>6 DEF ExportSelection, Selected
<1>7. CASE Audit \/ Report
  <2>1. /\ UNCHANGED <<epoch, measured, choices, export, receipts, shared>>
        /\ place \in {"audit", "report", "finish"} /\ place' \in {"report", "finish", "done"}
        /\ audit_receipts(receipts, shared)
    BY <1>7 DEF Audit, Report
  <2>2. QED
    BY <2>1 DEF Selected
<1>8. CASE EpochComplete
  <2>1. UNCHANGED <<measured, choices>> /\ place = "best"
        /\ \/ place' = "batch" /\ epoch' = epoch + 1
           \/ place' = "export" /\ epoch' = epoch
    BY <1>8 DEF EpochComplete
  <2>2. Observed' = Observed
    BY <1>1, <2>1
  <2>3. QED
    BY <1>1, <2>1, <2>2 DEF Selected
<1>9. CASE Development
  <2>1. PICK losses \in [Tasks -> Losses] : measured' = Append(measured, losses)
    BY <1>9 DEF Development
  <2>2. /\ Len(measured) = epoch - 1 /\ Len(measured') = epoch
        /\ \A e \in 1..(epoch - 1) : measured'[e] = measured[e]
    BY <1>1, <1>9, <2>1, Schedule DEF Development
  <2>3. UNCHANGED <<choices, epoch>> /\ place = "score" /\ place' = "checkpoint"
    BY <1>9 DEF Development
  <2>4. \A task \in Tasks : Selected(task, epoch - 1)
    BY <2>3
  <2>5. \A task \in Tasks : Selected(task, epoch - 1)'
    BY <1>1, <2>2, <2>3, <2>4 DEF Selected
  <2>6. QED
    BY <2>2, <2>3, <2>5 DEF Selected
<1>10. CASE Observe
  <2>1. /\ UNCHANGED <<measured, epoch>> /\ place = "checkpoint" /\ place' = "best" /\ Len(measured) = epoch
        /\ choices' = [task \in Tasks |->
                  IF Better(task) THEN [epoch |-> epoch, loss |-> measured[epoch][task],
                                        weights |-> taken[BranchOf(task)]]
                  ELSE choices[task]]
    BY <1>10 DEF Observe
  <2>2. \A e \in 1..epoch : \A task \in Tasks : measured[e][task] \in Nat
    BY <1>1, <2>1
  <2>3. \A task \in Tasks : Selected(task, epoch)'
    <3>1. SUFFICES ASSUME NEW task \in Tasks PROVE Selected(task, epoch)'
      OBVIOUS
    <3>2. Selected(task, epoch - 1)
      BY <2>1
    <3>3. taken[BranchOf(task)] = epoch * FitBatches
      BY <1>1, <2>1 DEF BranchOf, Used, CountInv, TrainerNames, Tasks
    <3>4. CASE Better(task)
      <4> DEFINE kept == [epoch |-> epoch, loss |-> measured[epoch][task], weights |-> epoch * FitBatches]
      <4>1. choices'[task] = kept
        BY <2>1, <3>3, <3>4
      <4>2. kept \in TaskCheckpoint /\ kept # NotYet
        BY <1>1, <2>2, NotYetAssumption, Schedule DEF TaskCheckpoint
      <4>3. \A e \in 1..(epoch - 1) : measured[epoch][task] < measured[e][task]
        <5>1. CASE choices[task] = NotYet
          BY <1>1, <3>2, <5>1 DEF Selected
        <5>2. CASE choices[task] # NotYet
          <6>1. measured[epoch][task] < choices[task].loss /\ choices[task].loss \in Nat
            BY <1>1, <3>4, <5>2 DEF Better, TaskCheckpoint
          <6>2. \A e \in 1..(epoch - 1) : choices[task].loss <= measured[e][task]
            BY <1>1, <3>2, <5>2 DEF Selected
          <6>3. QED
            BY <1>1, <2>2, <6>1, <6>2
        <5>3. QED
          BY <5>1, <5>2
      <4>4. QED
        BY <1>1, <2>1, <2>2, <4>1, <4>2, <4>3 DEF Selected
    <3>5. CASE ~Better(task)
      <4>1. choices'[task] = choices[task] /\ choices[task] # NotYet /\ ~(measured[epoch][task] < choices[task].loss)
        BY <2>1, <3>5 DEF Better
      <4>2. choices[task] \in TaskCheckpoint /\ choices[task].loss \in Nat /\ choices[task].epoch \in Nat
        BY <1>1, <4>1 DEF TaskCheckpoint
      <4>3. choices[task].loss <= measured[epoch][task]
        BY <1>1, <2>2, <4>1, <4>2
      <4>4. epoch - 1 # 0
        BY <3>2, <4>1 DEF Selected
      <4>5. /\ choices[task].epoch \in 1..(epoch - 1)
            /\ choices[task].weights = choices[task].epoch * FitBatches
            /\ choices[task].loss = measured[choices[task].epoch][task]
            /\ \A e \in 1..(epoch - 1) : /\ choices[task].loss <= measured[e][task]
                                       /\ e < choices[task].epoch => choices[task].loss < measured[e][task]
        BY <3>2, <4>4 DEF Selected
      <4>6. 1..epoch = 1..(epoch - 1) \cup {epoch} /\ epoch # 0 /\ ~(epoch < choices[task].epoch)
        BY <1>1, <4>5
      <4>7. QED
        BY <2>1, <4>1, <4>3, <4>5, <4>6 DEF Selected
    <3>6. QED
      BY <3>4, <3>5
  <2>4. QED
    BY <1>1, <2>1, <2>3
<1>11. QED
  BY <1>3, <1>4, <1>5, <1>6, <1>7, <1>8, <1>9, <1>10 DEF FitNext

\* The invariant is inductive, and SeparatedOK follows from it.
LEMMA SeparatedStarts == FitInit => SeparatedInv
<1> SUFFICES ASSUME FitInit PROVE SeparatedInv
  OBVIOUS
<1> USE DEF FitInit, FitIdle
<1>1. taken \in [TrainerNames -> Nat] /\ \A t \in TrainerNames : taken[t] = 0
  BY DEF Zero
<1>2. FitTypes
  <2>1. Len(Trainers(shared)) >= 1
    BY DEF Trainers, TASKS
  <2>2. receipts \in Seq(ReceiptsOfFit) /\ measured \in Seq([Tasks -> Nat])
    OBVIOUS
  <2>3. /\ choices \in [Tasks -> TaskCheckpoint \cup {NotYet}] /\ returned \in [TrainerNames -> Nat]
        /\ saved \in [before : [TrainerNames -> Nat] \cup {NotYet}, after : [TrainerNames -> Nat] \cup {NotYet}]
    BY <1>1
  <2>4. place \in FitPlaces /\ epoch \in 1..FitEpochs /\ turn \in 1..FitBatches /\ who \in 1..Len(Trainers(shared))
    BY <2>1, Schedule DEF FitPlaces, Sound, Trainers, TASKS
  <2>5. QED
    BY <1>1, <2>2, <2>3, <2>4 DEF FitTypes
<1>3. CountInv
  BY <1>1, Schedule DEF CountInv, Before, Entering, Leaving, Scoring, Exporting, Sound
<1>4. ChoiceInv
  BY DEF ChoiceInv, Selected, Observed, Entering, Leaving, Scoring, Exporting, Sound
<1>5. BracketInv
  BY <1>1 DEF BracketInv, Bracketed, TrainerNames
<1>6. QED
  BY <1>2, <1>3, <1>4, <1>5 DEF SeparatedInv

LEMMA SeparatedKeeps == SeparatedInv /\ [FitNext]_fit_vars => SeparatedInv'
<1> SUFFICES ASSUME SeparatedInv, [FitNext]_fit_vars PROVE SeparatedInv'
  OBVIOUS
<1>1. CASE FitNext
  BY <1>1, FitTypesKeep, CountKeeps, ChoiceKeeps, BracketKeeps DEF SeparatedInv
<1>2. CASE UNCHANGED fit_vars
  <2> USE <1>2 DEF fit_vars, SeparatedInv
  <2>1. FitTypes' /\ CountInv'
    BY DEF FitTypes, CountInv, Used, Before
  <2>2. ChoiceInv'
    BY DEF ChoiceInv, Selected, Observed
  <2>3. BracketInv'
    BY DEF BracketInv, Bracketed
  <2>4. QED
    BY <2>1, <2>2, <2>3
<1>3. QED
  BY <1>1, <1>2

LEMMA SeparatedIsSafe == SeparatedInv => SeparatedOK
<1> SUFFICES ASSUME SeparatedInv PROVE SelectedByTask
  BY DEF SeparatedInv, BracketInv, SeparatedOK
<1>1. ASSUME place = "done"
      PROVE  epoch = FitEpochs /\ export = choices /\ audit_receipts(receipts, shared)
             /\ torn = {} /\ taken = returned /\ \A task \in Tasks : Selected(task, FitEpochs)
  BY <1>1 DEF SeparatedInv, CountInv, ChoiceInv, Observed, Exporting, Sound
<1>2. QED
  BY <1>1, Schedule DEF SelectedByTask, Selected

\* Any plan, any losses, a budget that ends and a call that raises anywhere: each task is
\* exported with its own earliest minimum and the weights of that epoch, and however the
\* fit ends the snapshots bracket its weights.
THEOREM SeparatedFitIsSound == FitSpec => []SeparatedOK
  BY SeparatedStarts, SeparatedKeeps, SeparatedIsSafe, PTL DEF FitSpec

-----------------------------------------------------------------------------
\* The pool.

Doings == {"nothing", "member", "asked", "install", "write", "lock"}
PoolTypes ==
    /\ found \in [1..Members -> Contents] /\ files \in [1..Members -> Contents]
    /\ lock \in {"absent", "torn", "whole"} /\ verify \in BOOLEAN /\ verified \in BOOLEAN
    /\ doing \in Doings /\ member \in 1..Members + 1
    /\ requests \in Seq(Nat) /\ next_request \in Nat /\ now \in Nat

KeptInv == \A i \in 1..Members : files[i] # found[i] => found[i] = "absent" /\ files[i] = "good"

\* While a run is at work, what is behind it is good, and it is at a member unless it is done.
BehindInv ==
    /\ doing # "nothing" => \A i \in 1..Members : i < member => files[i] = "good"
    /\ doing \in {"asked", "install", "write"} => member \in 1..Members
    /\ doing = "lock" => member = Members + 1
    /\ doing = "write" => files[member] = "absent"
    /\ doing \in {"asked", "install"} => files[member] = "absent"

LockInv ==
    /\ lock = "whole" => \A i \in 1..Members : files[i] = "good"
    /\ verified => lock = "whole" /\ doing = "nothing"

DueInv ==
    /\ verify => requests = <<>>
    /\ \A i \in 2..Len(requests) : requests[i] - requests[i - 1] >= Interval
    /\ Len(requests) > 0 => requests[Len(requests)] + Interval <= next_request

Nowhere(i) == IsAudio(i) /\ found[i] = "absent" /\ reuse[i] = "absent"
Asked == {i \in 1..Members : Nowhere(i) /\ (i < member \/ (i = member /\ doing # "member"))}
AskedInv == Len(requests) <= Cardinality(Asked)

PoolInv == PoolTypes /\ KeptInv /\ BehindInv /\ LockInv /\ DueInv /\ AskedInv

-----------------------------------------------------------------------------
LEMMA Finite ==
    ASSUME NEW S, S \subseteq 1..Members
    PROVE  IsFiniteSet(S) /\ Cardinality(S) \in Nat
<1>1. IsFiniteSet(1..Members)
  BY PoolAssumption, FS_Interval
<1>2. QED
  BY <1>1, FS_Subset, FS_CardinalityType

\* More members behind, and no more requests.
LEMMA AskedGrows ==
    ASSUME AskedInv, PoolTypes, Asked \subseteq Asked', requests' = requests
    PROVE  AskedInv'
<1>1. Asked \subseteq 1..Members /\ Asked' \subseteq 1..Members
  BY DEF Asked
<1>2. IsFiniteSet(Asked') /\ Cardinality(Asked) \in Nat /\ Cardinality(Asked') \in Nat
  BY <1>1, Finite
<1>3. Cardinality(Asked) <= Cardinality(Asked')
  BY <1>2, FS_Subset
<1>4. QED
  BY <1>2, <1>3 DEF AskedInv, PoolTypes

LEMMA PoolInitInv == PoolInit => PoolInv
<1> SUFFICES ASSUME PoolInit PROVE PoolInv
  OBVIOUS
<1> USE DEF PoolInit, PoolIdle
<1>1. PoolTypes
  <2>1. requests \in Seq(Nat) /\ 1 \in 1..Members + 1
    BY PoolAssumption
  <2>2. QED
    BY <2>1 DEF PoolTypes, Doings
<1>2. KeptInv /\ BehindInv /\ LockInv /\ DueInv
  BY DEF KeptInv, BehindInv, LockInv, DueInv
<1>3. AskedInv
  <2>1. Cardinality(Asked) \in Nat
    BY Finite DEF Asked
  <2>2. QED
    BY <2>1 DEF AskedInv
<1>4. QED
  BY <1>1, <1>2, <1>3 DEF PoolInv

\* A run that is given up leaves the disk, the requests and the verdict.
LEMMA FailsKeeps == ASSUME PoolInv, Fails PROVE PoolInv'
<1> USE DEF PoolInv, Fails, pool_disk
<1>1. PoolTypes'
  BY DEF PoolTypes, Doings
<1>2. KeptInv' /\ BehindInv' /\ LockInv' /\ DueInv'
  BY DEF KeptInv, BehindInv, LockInv, DueInv
<1>3. AskedInv'
  <2>1. Asked \subseteq Asked'
    BY DEF Asked, Nowhere
  <2>2. QED
    BY <2>1, AskedGrows
<1>4. QED
  BY <1>1, <1>2, <1>3

\* A step on the way to the next member, that writes nothing and asks nothing.
LEMMA WayKeeps ==
    ASSUME PoolInv, UNCHANGED <<pool_disk, attempt, verify, requests, next_request, now, verified>>,
           verified = FALSE \/ doing' = "nothing",
           \/ doing' = "member" /\ doing = "member" /\ member' = member + 1 /\ member \in 1..Members
              /\ files[member] = "good"
           \/ doing' = "install" /\ doing \in {"member", "asked"} /\ member' = member
              /\ member \in 1..Members /\ files[member] = "absent"
    PROVE  PoolInv'
<1> USE DEF PoolInv, pool_disk
<1>1. PoolTypes'
  <2>1. member' \in 1..Members + 1 /\ doing' \in Doings
    BY PoolAssumption DEF PoolTypes, Doings
  <2>2. QED
    BY <2>1 DEF PoolTypes
<1>2. KeptInv' /\ LockInv' /\ DueInv'
  BY DEF KeptInv, LockInv, DueInv
<1>3. BehindInv'
  BY <1>1 DEF BehindInv, PoolTypes
<1>4. AskedInv'
  <2>1. Asked \subseteq Asked'
    BY DEF Asked, Nowhere, PoolTypes
  <2>2. QED
    BY <2>1, AskedGrows
<1>5. QED
  BY <1>1, <1>2, <1>3, <1>4

\* A request is for one more member, and an interval after the last.
LEMMA FetchKeeps == ASSUME PoolInv, Fetch PROVE PoolInv'
<1>1. /\ doing = "member" /\ doing' = "asked" /\ member \in 1..Members /\ member' = member /\ ~verify
      /\ IsAudio(member) /\ files[member] = "absent" /\ reuse[member] = "absent"
      /\ now >= next_request /\ next_request' = now + Interval /\ requests' = Append(requests, now)
      /\ UNCHANGED <<found, reuse, files, parts, lock, attempt, verify, now, verified>>
  BY DEF Fetch, InPlace, Elsewhere, pool_disk, PoolInv, PoolTypes
<1>2. /\ requests \in Seq(Nat) /\ now \in Nat /\ next_request \in Nat /\ Interval \in Nat
      /\ Len(requests) \in Nat /\ verified = FALSE
  BY <1>1, PoolAssumption DEF PoolInv, PoolTypes, LockInv
<1>3. /\ Len(requests') = Len(requests) + 1 /\ requests'[Len(requests) + 1] = now
      /\ requests' \in Seq(Nat)
      /\ \A i \in 1..Len(requests) : requests'[i] = requests[i] /\ requests[i] \in Nat
  BY <1>1, <1>2
<1>4. PoolTypes'
  BY <1>1, <1>2, <1>3 DEF PoolInv, PoolTypes, Doings
<1>5. KeptInv' /\ BehindInv' /\ LockInv'
  BY <1>1, <1>2 DEF PoolInv, KeptInv, BehindInv, LockInv
<1>6. DueInv'
  <2>1. \A i \in 2..Len(requests) : requests[i] - requests[i - 1] >= Interval
    BY DEF PoolInv, DueInv
  <2>2. ASSUME NEW i \in 2..Len(requests') PROVE requests'[i] - requests'[i - 1] >= Interval
    <3>1. CASE i \in 2..Len(requests)
      <4>1. requests'[i] = requests[i] /\ requests'[i - 1] = requests[i - 1]
        <5>1. i \in 1..Len(requests) /\ i - 1 \in 1..Len(requests)
          BY <1>2, <3>1
        <5>2. QED
          BY <1>3, <5>1
      <4>2. requests[i] - requests[i - 1] >= Interval
        BY <2>1, <3>1
      <4>3. QED
        BY <4>1, <4>2
    <3>2. CASE i = Len(requests) + 1
      <4>1. Len(requests) > 0 /\ requests'[i] = now /\ requests'[i - 1] = requests[Len(requests)]
            /\ requests[Len(requests)] \in Nat
        BY <1>2, <1>3, <3>2
      <4>2. QED
        BY <1>1, <1>2, <4>1 DEF PoolInv, DueInv
    <3>3. QED
      BY <1>2, <1>3, <3>1, <3>2
  <2>3. QED
    BY <1>1, <1>2, <1>3, <2>2 DEF DueInv
<1>7. AskedInv'
  <2>1. found[member] = "absent"
    BY <1>1 DEF PoolInv, KeptInv
  <2>2. Asked' = Asked \cup {member} /\ member \notin Asked
    BY <1>1, <2>1 DEF Asked, Nowhere, PoolInv, PoolTypes
  <2>3. IsFiniteSet(Asked) /\ Cardinality(Asked) \in Nat
    BY Finite DEF Asked
  <2>4. Cardinality(Asked') = Cardinality(Asked) + 1
    BY <2>2, <2>3, FS_AddElement
  <2>5. QED
    BY <1>2, <1>3, <2>3, <2>4 DEF PoolInv, AskedInv
<1>8. QED
  BY <1>4, <1>5, <1>6, <1>7 DEF PoolInv

\* A step that changes where the run is in its member, or the clock, or a temporary file.
LEMMA StillKeeps ==
    ASSUME PoolInv, UNCHANGED <<found, reuse, files, verify, member, requests, next_request>>,
           now' \in Nat, lock' \in {"absent", "torn", "whole"}, verified' \in BOOLEAN,
           \/ doing' = doing
           \/ doing = "install" /\ doing' = "write"
           \/ doing = "member" /\ doing' = "lock" /\ member > Members
           \/ doing' = "nothing",
           \/ lock' = lock
           \/ lock' \in {"absent", "torn"}
           \/ doing = "lock",
           \/ verified' = verified /\ (verified => doing' = "nothing" /\ lock' = lock)
           \/ verified' => lock' = "whole" /\ doing' = "nothing"
    PROVE  PoolInv'
<1> USE DEF PoolInv
<1>1. PoolTypes'
  BY DEF PoolTypes, Doings
<1>2. KeptInv' /\ DueInv'
  BY DEF KeptInv, DueInv
<1>3. BehindInv'
  BY PoolAssumption DEF BehindInv, PoolTypes
<1>4. LockInv'
  <2>1. CASE lock' = lock \/ lock' \in {"absent", "torn"}
    BY <2>1 DEF LockInv
  <2>2. CASE doing = "lock"
    <3>1. \A i \in 1..Members : files[i] = "good"
      BY <2>2, PoolAssumption DEF BehindInv
    <3>2. QED
      BY <2>2, <3>1 DEF LockInv
  <2>3. QED
    BY <2>1, <2>2
<1>5. AskedInv'
  <2>1. Asked \subseteq Asked'
    BY PoolAssumption DEF Asked, Nowhere, PoolTypes
  <2>2. QED
    BY <2>1, AskedGrows
<1>6. QED
  BY <1>1, <1>2, <1>3, <1>4, <1>5

LEMMA BeginKeeps == ASSUME PoolInv, Begin PROVE PoolInv'
<1>1. /\ requests' = <<>> /\ next_request' = 0 /\ now' = 0 /\ verified' = FALSE /\ member' = 1
      /\ verify' \in BOOLEAN /\ doing' \in {"nothing", "member"}
      /\ UNCHANGED <<found, reuse, files, lock>>
  BY DEF Begin, pool_disk
<1>2. PoolTypes'
  <2>1. requests' \in Seq(Nat) /\ 1 \in 1..Members + 1 /\ 0 \in Nat
    BY <1>1, PoolAssumption
  <2>2. QED
    BY <1>1, <2>1 DEF PoolInv, PoolTypes, Doings
<1>3. KeptInv' /\ BehindInv' /\ LockInv' /\ DueInv'
  BY <1>1 DEF PoolInv, KeptInv, BehindInv, LockInv, DueInv
<1>4. AskedInv'
  <2>1. Asked' \subseteq 1..Members /\ Len(requests') = 0
    BY <1>1 DEF Asked
  <2>2. Cardinality(Asked') \in Nat
    BY <2>1, Finite
  <2>3. QED
    BY <2>1, <2>2 DEF AskedInv
<1>5. QED
  BY <1>2, <1>3, <1>4 DEF PoolInv

\* A member gets its name whole, where nothing was.
LEMMA RenameKeeps == ASSUME PoolInv, Rename PROVE PoolInv'
<1>1. /\ doing = "write" /\ doing' = "member" /\ member' = member + 1 /\ member \in 1..Members
      /\ files[member] = "absent" /\ files' = [files EXCEPT ![member] = "good"]
      /\ UNCHANGED <<found, reuse, lock, attempt, verify, requests, next_request, now, verified>>
  BY DEF Rename, PoolInv, BehindInv
<1>2. /\ files' \in [1..Members -> Contents] /\ files'[member] = "good"
      /\ \A i \in 1..Members : i # member => files'[i] = files[i]
  BY <1>1 DEF PoolInv, PoolTypes, Contents
<1>3. PoolTypes'
  <2>1. member' \in 1..Members + 1
    BY <1>1, PoolAssumption
  <2>2. QED
    BY <1>1, <1>2, <2>1 DEF PoolInv, PoolTypes, Doings
<1>4. KeptInv'
  BY <1>1, <1>2 DEF PoolInv, KeptInv
<1>5. BehindInv'
  BY <1>1, <1>2 DEF PoolInv, PoolTypes, BehindInv
<1>6. LockInv' /\ DueInv'
  BY <1>1, <1>2 DEF PoolInv, LockInv, DueInv
<1>7. AskedInv'
  <2>1. Asked \subseteq Asked'
    BY <1>1 DEF Asked, Nowhere
  <2>2. QED
    BY <1>1, <2>1, AskedGrows DEF PoolInv
<1>8. QED
  BY <1>3, <1>4, <1>5, <1>6, <1>7 DEF PoolInv

-----------------------------------------------------------------------------
LEMMA PoolKeeps == PoolInv /\ [PoolNext]_pool_vars => PoolInv'
<1> SUFFICES ASSUME PoolInv, [PoolNext]_pool_vars PROVE PoolInv'
  OBVIOUS
<1>0. /\ doing # "nothing" => verified = FALSE
      /\ lock \in {"absent", "torn", "whole"} /\ now \in Nat /\ verified \in BOOLEAN
      /\ member \in 1..Members + 1
  BY DEF PoolInv, LockInv, PoolTypes
<1> USE DEF pool_disk
<1>1. CASE Begin
  BY <1>1, BeginKeeps
<1>2. CASE Reuse
  <2>1. member \in 1..Members
    BY <1>0, <1>2, PoolAssumption DEF Reuse
  <2>2. QED
    BY <1>0, <1>2, <2>1, WayKeeps DEF Reuse, InPlace
<1>3. CASE Annotate
  <2>1. member \in 1..Members
    BY <1>0, <1>3, PoolAssumption DEF Annotate
  <2>2. QED
    BY <1>0, <1>3, <2>1, WayKeeps DEF Annotate, InPlace
<1>4. CASE Drifted \/ LeftOver \/ Stops
  BY <1>4, FailsKeeps DEF Drifted, LeftOver, Stops
<1>5. CASE Fetch
  BY <1>5, FetchKeeps
<1>6. CASE Received
  BY <1>0, <1>6, WayKeeps DEF Received, PoolInv, BehindInv
<1>7. CASE TimePasses
  BY <1>0, <1>7, StillKeeps DEF TimePasses
<1>8. CASE OpenTemporary
  BY <1>0, <1>8, StillKeeps DEF OpenTemporary
<1>9. CASE Rename
  BY <1>9, RenameKeeps
<1>10. CASE OpenLock
  BY <1>0, <1>10, StillKeeps DEF OpenLock
<1>11. CASE WriteLock
  BY <1>0, <1>11, StillKeeps DEF WriteLock
<1>12. CASE CompareLock
  BY <1>0, <1>12, StillKeeps DEF CompareLock
<1>13. CASE Tidied
  BY <1>0, <1>13, StillKeeps DEF Tidied, PoolInv, LockInv
<1>14. CASE UNCHANGED pool_vars
  BY <1>0, <1>14, StillKeeps DEF pool_vars, PoolInv, LockInv
<1>15. QED
  BY <1>1, <1>2, <1>3, <1>4, <1>5, <1>6, <1>7, <1>8, <1>9, <1>10, <1>11, <1>12, <1>13, <1>14 DEF PoolNext

\* A request was for a member that is nowhere, so there are no more of them than of those.
LEMMA PoolIsSafe == PoolInv => PoolOK
<1> SUFFICES ASSUME PoolInv PROVE PoolOK
  OBVIOUS
<1> DEFINE All == {i \in 1..Members : Nowhere(i)}
<1>1. IsFiniteSet(All) /\ Cardinality(All) \in Nat /\ Cardinality(Asked) \in Nat
  BY Finite DEF Asked
<1>2. Cardinality(Asked) <= Cardinality(All)
  BY <1>1, FS_Subset DEF Asked
<1>3. Len(requests) <= Cardinality(All)
  BY <1>1, <1>2 DEF PoolInv, AskedInv, PoolTypes
<1>4. QED
  BY <1>3 DEF PoolInv, KeptInv, LockInv, DueInv, PoolOK, Nowhere

\* Any number of members, runs, kills and hours: no member is overwritten or half there, no
\* lock lies over an incomplete pool, the source is asked once for each member that is
\* nowhere and never twice within the interval.
THEOREM PoolIsSound == PoolSpec => []PoolOK
<1>1. PoolInit => PoolInv
  BY PoolInitInv
<1>2. PoolInv /\ [PoolNext]_pool_vars => PoolInv'
  BY PoolKeeps
<1>3. PoolInv => PoolOK
  BY PoolIsSafe
<1>4. QED
  BY <1>1, <1>2, <1>3, PTL DEF PoolSpec

-----------------------------------------------------------------------------
\* All of the loops: one of them runs, the others were not begun.

LoopsInv ==
    /\ running \in {"recorded", "training", "separated", "pool"}
    /\ IF running = "recorded" THEN RecorderInv ELSE NoRecorder
    /\ IF running = "training" THEN LoopInv ELSE NoLoop
    /\ IF running = "separated" THEN SeparatedInv ELSE NoFit
    /\ IF running = "pool" THEN PoolInv ELSE NoPool

\* A loop that was not begun has promised nothing yet.
LEMMA IdleRecorderIsSafe == NoRecorder => BoundariesOnDisk /\ WritesAreCovered /\ FailureTells /\ ReportIsComplete
<1> SUFFICES ASSUME NoRecorder
             PROVE  BoundariesOnDisk /\ WritesAreCovered /\ FailureTells /\ ReportIsComplete
  OBVIOUS
<1> USE DEF NoRecorder, RecorderIdle
<1>1. live = After(completed) /\ \A name \in Snapshots : snapshots[name] = Missing
  BY DEF After
<1>2. BoundariesOnDisk
  BY <1>1 DEF BoundariesOnDisk, Snapshots, Receipts
<1>3. WritesAreCovered
  BY <1>1 DEF WritesAreCovered
<1>4. FailureTells
  BY <1>1, MissingAssumption DEF FailureTells, Snapshots
<1>5. ReportIsComplete
  BY <1>1 DEF ReportIsComplete, Snapshots, Ended
<1>6. QED
  BY <1>2, <1>3, <1>4, <1>5

LEMMA IdleLoopIsSafe == NoLoop => LoopOK
  BY DEF NoLoop, LoopOK, ExportedFit, FinishedIsWhole, Finished, AtStage

LEMMA IdleFitIsSafe == NoFit => SeparatedOK
  BY DEF NoFit, FitIdle, SeparatedOK, SelectedByTask, Bracketed, Zero, TrainerNames

LEMMA IdlePoolIsSafe == NoPool => PoolOK
<1> SUFFICES ASSUME NoPool PROVE PoolOK
  OBVIOUS
<1>1. Cardinality({i \in 1..Members : IsAudio(i) /\ found[i] = "absent" /\ reuse[i] = "absent"}) \in Nat
  BY Finite
<1>2. Len(requests) = 0 /\ files = found
  BY DEF NoPool, PoolIdle
<1>3. QED
  BY <1>1, <1>2 DEF NoPool, PoolIdle, PoolOK

\* What an idle loop does not change leaves it idle.
LEMMA IdleStays ==
    /\ NoRecorder /\ UNCHANGED recorder_vars => NoRecorder'
    /\ NoLoop /\ UNCHANGED loop_vars => NoLoop'
    /\ NoFit /\ UNCHANGED fit_vars => NoFit'
    /\ NoPool /\ UNCHANGED pool_vars => NoPool'
<1>1. NoRecorder /\ UNCHANGED recorder_vars => NoRecorder'
  BY DEF NoRecorder, RecorderIdle, recorder_vars, cursor, optimizer, evidence, ghosts
<1>2. NoLoop /\ UNCHANGED loop_vars => NoLoop'
  BY DEF NoLoop, LoopIdle, loop_vars
<1>3. NoFit /\ UNCHANGED fit_vars => NoFit'
  BY DEF NoFit, FitIdle, fit_vars
<1>4. NoPool /\ UNCHANGED pool_vars => NoPool'
  BY DEF NoPool, PoolIdle, pool_vars
<1>5. QED
  BY <1>1, <1>2, <1>3, <1>4

LEMMA LoopsStart == LoopsInit => LoopsInv
  BY RecorderStarts, LoopInitInv, SeparatedStarts, PoolInitInv DEF LoopsInit, LoopsInv

LEMMA LoopsKeep == LoopsInv /\ [LoopsNext]_loops_vars => LoopsInv'
<1> SUFFICES ASSUME LoopsInv, [LoopsNext]_loops_vars PROVE LoopsInv'
  OBVIOUS
<1>1. CASE FitRecorded
  <2>1. running = "recorded" /\ UNCHANGED <<running, loop_vars, fit_vars, pool_vars>> /\ RecorderInv'
    BY <1>1, RecorderKeeps DEF FitRecorded, LoopsInv
  <2>2. QED
    BY <2>1, IdleStays DEF LoopsInv
<1>2. CASE Train
  <2>1. running = "training" /\ UNCHANGED <<running, recorder_vars, fit_vars, pool_vars>> /\ LoopInv'
    BY <1>2, TrainingKeeps DEF Train, LoopsInv
  <2>2. QED
    BY <2>1, IdleStays DEF LoopsInv
<1>3. CASE TrainApart
  <2>1. running = "separated" /\ UNCHANGED <<running, recorder_vars, loop_vars, pool_vars>> /\ SeparatedInv'
    BY <1>3, SeparatedKeeps DEF TrainApart, LoopsInv
  <2>2. QED
    BY <2>1, IdleStays DEF LoopsInv
<1>4. CASE Acquire
  <2>1. running = "pool" /\ UNCHANGED <<running, recorder_vars, loop_vars, fit_vars>> /\ PoolInv'
    BY <1>4, PoolKeeps DEF Acquire, LoopsInv
  <2>2. QED
    BY <2>1, IdleStays DEF LoopsInv
<1>5. CASE UNCHANGED loops_vars
  <2>1. UNCHANGED <<running, recorder_vars, loop_vars, fit_vars, pool_vars>>
    BY <1>5 DEF loops_vars
  <2>2. /\ RecorderInv => RecorderInv'
        /\ LoopInv => LoopInv'
        /\ SeparatedInv => SeparatedInv'
        /\ PoolInv => PoolInv'
    BY <2>1, RecorderKeeps, TrainingKeeps, SeparatedKeeps, PoolKeeps
  <2>3. QED
    BY <2>1, <2>2, IdleStays DEF LoopsInv
<1>6. QED
  BY <1>1, <1>2, <1>3, <1>4, <1>5 DEF LoopsNext

LEMMA LoopsInvIsSafe ==
    LoopsInv => /\ BoundariesOnDisk /\ WritesAreCovered /\ FailureTells /\ ReportIsComplete
                /\ LoopOK /\ SeparatedOK /\ PoolOK
  BY IdleRecorderIsSafe, IdleLoopIsSafe, IdleFitIsSafe, IdlePoolIsSafe,
     RecorderIsSafe, LoopIsSafe, SeparatedIsSafe, PoolIsSafe DEF LoopsInv

\* Whichever loop runs, of any size, under any failure, kill or budget: everything that
\* the loops promise of what they leave on disk and of what they export holds.
THEOREM LoopsAreSafe ==
    LoopsSpec => [](/\ BoundariesOnDisk /\ WritesAreCovered /\ FailureTells /\ ReportIsComplete
                    /\ LoopOK /\ SeparatedOK /\ PoolOK)
  BY LoopsStart, LoopsKeep, LoopsInvIsSafe, PTL DEF LoopsSpec
=============================================================================
