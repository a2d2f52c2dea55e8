------------------------------ MODULE SeparatedFit ------------------------------
(***************************************************************************)
(* The fit of separated_evidence_fit: one trainer that two tasks share or  *)
(* one for each, updated in pairs under a wall budget, every update between *)
(* two snapshots and two journal entries, a checkpoint of its own for each  *)
(* task, and an audit of the journal before anything is reported.  Weights  *)
(* are told apart by the number of updates they have taken.                 *)
(***************************************************************************)
EXTENDS Integers, Sequences

CONSTANTS FitEpochs, FitBatches,  \* of the plan
          Losses,                 \* development losses of a task
          NotYet
ASSUME PlanAssumption ==
    FitEpochs \in Nat \ {0} /\ FitBatches \in Nat \ {0} /\ Losses \subseteq Nat /\ NotYet \notin Nat

TASKS == <<"tempo", "phase">>
Tasks == {"tempo", "phase"}
Trainers(shared) == IF shared THEN <<"shared">> ELSE TASKS
TrainerNames == {"shared", "tempo", "phase"}
Zero == [t \in TrainerNames |-> 0]
TaskCheckpoint == [epoch : Nat, loss : Nat, weights : Nat]
ASSUME NotYetAssumption == NotYet \notin TaskCheckpoint \cup [TrainerNames -> Nat]

VARIABLES
    shared,                \* whether the tasks share their trainer
    place, epoch, turn, who, \* where the fit is: its epoch, batch and trainer
    spent,                 \* the wall budget is used up
    taken,                 \* updates the weights hold
    returned,              \* updates each trainer has counted
    torn,                  \* trainers whose optimizer was stopped while it wrote
    paired,                \* batches both tasks have learned from
    receipts,              \* what is in the journal
    saved,                 \* the weights in before.pt and after.pt
    measured, choices,     \* development losses so far, what is kept of each task
    fresh,                 \* tasks whose new best is not on disk
    export
fit_vars == <<shared, place, epoch, turn, who, spent, taken, returned, torn, paired, receipts, saved,
              measured, choices, fresh, export>>

FitIdle ==
    /\ epoch = 1 /\ turn = 1 /\ who = 1 /\ spent = FALSE
    /\ taken = Zero /\ returned = Zero /\ torn = {} /\ paired = 0 /\ receipts = <<>>
    /\ saved = [before |-> NotYet, after |-> NotYet]
    /\ measured = <<>> /\ choices = [t \in Tasks |-> NotYet] /\ fresh = {} /\ export = NotYet
FitInit == shared \in BOOLEAN /\ place = "batch" /\ FitIdle

Mine == Trainers(shared)[who]
BranchOf(task) == IF shared THEN "shared" ELSE task
Entry(event) == [event |-> event, epoch |-> epoch, batch |-> turn, task |-> Mine, calls |-> returned]
WritesReceipt(event) == receipts' = Append(receipts, Entry(event))

\* Where check() is called before what the step does.
CheckedPlaces == {"batch", "before", "enter", "train", "returned", "score", "checkpoint", "export", "audit", "report", "finish"}
InTime == ~(spent /\ place \in CheckedPlaces)
Working == place \in CheckedPlaces \cup {"optimized", "after", "pair", "best"}
Goes(next) == place' = next

BudgetEnds ==
    /\ Working /\ ~spent
    /\ spent' = TRUE
    /\ UNCHANGED <<shared, place, epoch, turn, who, taken, returned, torn, paired, receipts, saved, measured, choices, fresh, export>>

\* Every task of the batch starts from a snapshot and a journal entry.
BeginBatch ==
    /\ place = "batch" /\ InTime
    /\ Goes("before") /\ who' = 1
    /\ UNCHANGED <<shared, epoch, turn, spent, taken, returned, torn, paired, receipts, saved, measured, choices, fresh, export>>
SaveBefore ==
    /\ place = "before" /\ InTime
    /\ Goes("enter")
    /\ saved' = [saved EXCEPT !.before = taken]
    /\ UNCHANGED <<shared, epoch, turn, who, spent, taken, returned, torn, paired, receipts, measured, choices, fresh, export>>
EnterUpdate ==
    /\ place = "enter" /\ InTime
    /\ Goes("train")
    /\ WritesReceipt("update_entered")
    /\ UNCHANGED <<shared, epoch, turn, who, spent, taken, returned, torn, paired, saved, measured, choices, fresh, export>>
TrainerUpdate ==
    /\ place = "train" /\ InTime
    /\ Goes("optimized")
    /\ taken' = [taken EXCEPT ![Mine] = @ + 1]
    /\ returned' = [returned EXCEPT ![Mine] = @ + 1]
    /\ UNCHANGED <<shared, epoch, turn, who, spent, torn, paired, receipts, saved, measured, choices, fresh, export>>
SaveAfter ==
    /\ place = "optimized"
    /\ Goes("after")
    /\ saved' = [saved EXCEPT !.after = taken]
    /\ UNCHANGED <<shared, epoch, turn, who, spent, taken, returned, torn, paired, receipts, measured, choices, fresh, export>>
UpdateReturned ==
    /\ place = "after"
    /\ Goes("returned")
    /\ WritesReceipt("update_returned")
    /\ UNCHANGED <<shared, epoch, turn, who, spent, taken, returned, torn, paired, saved, measured, choices, fresh, export>>
NextTrainer ==
    /\ place = "returned" /\ InTime
    /\ IF who < Len(Trainers(shared))
       THEN Goes("before") /\ who' = who + 1 /\ UNCHANGED paired
       ELSE Goes("pair") /\ paired' = paired + 1 /\ UNCHANGED who
    /\ UNCHANGED <<shared, epoch, turn, spent, taken, returned, torn, receipts, saved, measured, choices, fresh, export>>
PairComplete ==
    /\ place = "pair"
    /\ WritesReceipt("pair_complete")
    /\ IF turn < FitBatches THEN Goes("batch") /\ turn' = turn + 1 ELSE Goes("score") /\ UNCHANGED turn
    /\ UNCHANGED <<shared, epoch, who, spent, taken, returned, torn, paired, saved, measured, choices, fresh, export>>

\* The development losses of both tasks, and the checkpoint each task keeps for itself.
Development ==
    /\ place = "score" /\ InTime
    /\ Goes("checkpoint")
    /\ \E losses \in [Tasks -> Losses] : measured' = Append(measured, losses)
    /\ UNCHANGED <<shared, epoch, turn, who, spent, taken, returned, torn, paired, receipts, saved, choices, fresh, export>>
\* Mutant: one epoch is selected for both tasks, by the tempo.
BetterTogether(task) == choices["tempo"] = NotYet \/ measured[epoch]["tempo"] < choices["tempo"].loss
Better(task) == choices[task] = NotYet \/ measured[epoch][task] < choices[task].loss
Observe ==
    /\ place = "checkpoint" /\ InTime
    /\ Goes("best")
    /\ choices' = [task \in Tasks |->
                  IF Better(task) THEN [epoch |-> epoch, loss |-> measured[epoch][task],
                                        weights |-> taken[BranchOf(task)]]
                  ELSE choices[task]]
    /\ fresh' = {task \in Tasks : Better(task)}
    /\ UNCHANGED <<shared, epoch, turn, who, spent, taken, returned, torn, paired, receipts, saved, measured, export>>
SaveBest ==
    /\ place = "best" /\ fresh # {}
    /\ \E task \in fresh : (task = "tempo" \/ fresh = {"phase"}) /\ fresh' = fresh \ {task}
    /\ Goes(IF spent THEN "aborting" ELSE "best")
    /\ UNCHANGED <<shared, epoch, turn, who, spent, taken, returned, torn, paired, receipts, saved, measured, choices, export>>
EpochComplete ==
    /\ place = "best" /\ fresh = {}
    /\ WritesReceipt("epoch_complete")
    /\ turn' = 1
    /\ IF epoch < FitEpochs THEN Goes("batch") /\ epoch' = epoch + 1
       ELSE Goes("export") /\ paired = FitEpochs * FitBatches /\ UNCHANGED epoch
    /\ UNCHANGED <<shared, who, spent, taken, returned, torn, paired, saved, measured, choices, fresh, export>>

ExportSelection ==
    /\ place = "export" /\ InTime
    /\ Goes("audit")
    /\ export' = choices
    /\ UNCHANGED <<shared, epoch, turn, who, spent, taken, returned, torn, paired, receipts, saved, measured, choices, fresh>>

\* The journal is read back: every update of the plan, entered and returned, in its order.
Of2(journal, event) == SelectSeq(journal, LAMBDA r : r.event = event)
Planned(together) ==
    LET n == Len(Trainers(together))
    IN  [i \in 1..FitEpochs * FitBatches * n |->
            <<(i - 1) \div (FitBatches * n) + 1, (((i - 1) \div n) % FitBatches) + 1,
              Trainers(together)[((i - 1) % n) + 1]>>]
audit_receipts(journal, together) ==
    LET entered == Of2(journal, "update_entered")
        ended == Of2(journal, "update_returned")
        planned == Planned(together)
        At2(r) == <<r.epoch, r.batch, r.task>>
        Calls(i) == [t \in TrainerNames |-> Len(SelectSeq(SubSeq(planned, 1, i), LAMBDA p : p[3] = t))]
    IN  /\ Len(entered) = Len(planned) /\ Len(ended) = Len(planned)
        /\ \A i \in DOMAIN planned :
              At2(entered[i]) = planned[i] /\ At2(ended[i]) = planned[i] /\ ended[i].calls = Calls(i)
        /\ Len(Of2(journal, "pair_complete")) = FitEpochs * FitBatches
        /\ Len(Of2(journal, "epoch_complete")) = FitEpochs
Audit ==
    /\ place = "audit" /\ InTime /\ audit_receipts(receipts, shared)
    /\ Goes("report")
    /\ UNCHANGED <<shared, epoch, turn, who, spent, taken, returned, torn, paired, receipts, saved, measured, choices, fresh, export>>
\* The report is measured once more after it was written, then the fit is over.
Report ==
    /\ place \in {"report", "finish"} /\ InTime
    /\ Goes(IF place = "report" THEN "finish" ELSE "done")
    /\ UNCHANGED <<shared, epoch, turn, who, spent, taken, returned, torn, paired, receipts, saved, measured, choices, fresh, export>>

\* Anything raises, the budget among others; an interrupt may find the optimizer at work,
\* or come between its return and the count of it.
RaiseAnywhere ==
    /\ Working
    /\ Goes("aborting")
    /\ \/ UNCHANGED <<taken, torn>>
       \/ place = "train" /\ InTime /\ torn' = {Mine} /\ UNCHANGED taken
       \/ place = "train" /\ InTime /\ taken' = [taken EXCEPT ![Mine] = @ + 1] /\ UNCHANGED torn
    /\ UNCHANGED <<shared, epoch, turn, who, spent, returned, paired, receipts, saved, measured, choices, fresh, export>>
\* Either of the two records of a failure may itself fail; the other is still made.
Abort ==
    /\ place = "aborting"
    /\ Goes("failed")
    /\ receipts' \in {receipts, Append(receipts, Entry("failed"))}
    /\ UNCHANGED <<shared, epoch, turn, who, spent, taken, returned, torn, paired, saved, measured, choices, fresh, export>>

FitNext ==
    \/ BudgetEnds \/ BeginBatch \/ SaveBefore \/ EnterUpdate \/ TrainerUpdate \/ SaveAfter
    \/ UpdateReturned \/ NextTrainer \/ PairComplete \/ Development \/ Observe \/ SaveBest
    \/ EpochComplete \/ ExportSelection \/ Audit \/ Report \/ RaiseAnywhere \/ Abort
FitSpec == FitInit /\ [][FitNext]_fit_vars

-----------------------------------------------------------------------------
\* What is reported is each task's own best: no epoch had a lower loss for it, none before
\* had one as low, and the weights are those its branch had after that epoch, the trainers
\* having taken the same updates in the same order; an export comes with whole receipts.
\* However a fit ends, the snapshots bracket its weights: what before.pt holds is at most
\* one update of one trainer behind, every return in the journal is in after.pt, and the two
\* tasks are never more than the one update apart that was under way.
SelectedByTask ==
    place = "done" =>
        /\ torn = {} /\ taken = returned /\ audit_receipts(receipts, shared)
        /\ \A task \in Tasks, e \in 1..FitEpochs :
              /\ export[task].weights = export[task].epoch * FitBatches
              /\ export[task].loss = measured[export[task].epoch][task]
              /\ export[task].loss <= measured[e][task]
              /\ e < export[task].epoch => export[task].loss < measured[e][task]
Bracketed ==
    /\ saved.before # NotYet =>
        \A t \in TrainerNames : saved.before[t] <= taken[t] /\ taken[t] <= saved.before[t] + 1
    /\ \A i \in 1..Len(receipts) : receipts[i].event = "update_returned" =>
        /\ saved.after # NotYet
        /\ \A t \in TrainerNames : receipts[i].calls[t] <= saved.after[t]
    /\ ~shared => taken["tempo"] - taken["phase"] \in {0, 1}
    /\ \A t \in TrainerNames : taken[t] - returned[t] \in {0, 1} /\ (taken[t] # returned[t] => place \in {"aborting", "failed"})
SeparatedOK == SelectedByTask /\ Bracketed
=============================================================================
