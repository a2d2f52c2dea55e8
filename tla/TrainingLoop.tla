----------------------------- MODULE TrainingLoop -----------------------------
(***************************************************************************)
(* The fits of the experiments that train without a recorder: epochs of    *)
(* batches of recordings under a wall budget, a development score after    *)
(* each epoch, and one epoch whose weights are exported.  Weights are told *)
(* apart by the number of recordings they have learned from.               *)
(***************************************************************************)
EXTENDS Integers, Sequences

CONSTANTS Epochs, Batches, Records,   \* of a fit, of an epoch, of a batch
          Scores, NoEpoch
ASSUME LoopAssumption ==
    /\ Epochs \in Nat \ {0} /\ Batches \in Nat \ {0} /\ Records \in Nat \ {0}
    /\ Scores \subseteq Nat
    /\ NoEpoch \notin [epoch : Nat, score : Nat, admissible : BOOLEAN, weights : Nat]

\* What the fits differ in: where they look at the clock (before a recording or a batch,
\* before a score, between a score and its entry, before the export), whether a spent
\* budget ends the training or raises, whether the initial weights are an epoch, and
\* which epoch is exported.
Stopping == [clock |-> {"record", "scored"}, raises |-> FALSE, first |-> 1, choice |-> "best"]
CoupledLoop == Stopping
TrajectoryLoop == Stopping
PhaseSyncLoop == Stopping
ReadoutLoop == [Stopping EXCEPT !.clock = {"batch"}]
LocalLoop == [clock |-> {"batch", "score", "export"}, raises |-> TRUE, first |-> 0, choice |-> "admissible"]
VariationLoop == LocalLoop
RelativeLoop == [clock |-> {"batch"}, raises |-> TRUE, first |-> 1, choice |-> "last"]
Loops == [coupled |-> CoupledLoop, trajectory |-> TrajectoryLoop, phase_sync |-> PhaseSyncLoop,
          readout |-> ReadoutLoop, local |-> LocalLoop, variation |-> VariationLoop, relative |-> RelativeLoop]

VARIABLES
    loop,       \* the fit that runs
    stage, late, batch,
    gradients,  \* recordings whose gradients are accumulated
    weights,    \* recordings the weights have learned from
    history,    \* the epochs entered: their score, whether it may be chosen, the weights
    best,       \* the epoch remembered with a copy of its weights
    exhausted,
    exported
loop_vars == <<loop, stage, late, batch, gradients, weights, history, best, exhausted, exported>>

Policy == Loops[loop]
PerEpoch == Batches * Records
Number == Policy.first + Len(history)   \* of the epoch that is under way

LoopIdle ==
    /\ late = FALSE /\ batch = 0 /\ gradients = 0 /\ weights = 0 /\ history = <<>>
    /\ best = NoEpoch /\ exhausted = FALSE /\ exported = NoEpoch
LoopInit ==
    /\ loop \in DOMAIN Loops
    /\ stage = IF Policy.first = 0 THEN "score" ELSE "batch"
    /\ LoopIdle

UnderWay == stage \in {"batch", "record", "score", "scored", "export"}
AtStage(place) == stage = place
Looks(place) == place \in Policy.clock

\* The budget is spent while something else goes on.
Deadline ==
    /\ UnderWay /\ ~late
    /\ late' = TRUE
    /\ UNCHANGED <<loop, stage, batch, gradients, weights, history, best, exhausted, exported>>

\* A check fails, a call fails or the user interrupts; nothing is exported.
LoopFails ==
    /\ UnderWay
    /\ stage' = "failed"
    /\ UNCHANGED <<loop, late, batch, gradients, weights, history, best, exhausted, exported>>

\* Where the clock is read, a spent budget discards whatever is not complete.
BudgetSpent ==
    /\ UnderWay /\ late /\ Looks(stage)
    /\ AtStage("record") => gradients < Records
    /\ stage' = IF Policy.raises THEN "failed" ELSE "export"
    /\ exhausted' = (exhausted \/ ~Policy.raises)
    /\ UNCHANGED <<loop, late, batch, gradients, weights, history, best, exported>>
InBudget == ~(late /\ Looks(stage))

TakeBatch ==
    /\ AtStage("batch") /\ InBudget
    /\ stage' = "record" /\ gradients' = 0
    /\ UNCHANGED <<loop, late, batch, weights, history, best, exhausted, exported>>
Backward ==
    /\ AtStage("record") /\ InBudget /\ gradients < Records
    /\ gradients' = gradients + 1
    /\ UNCHANGED <<loop, stage, late, batch, weights, history, best, exhausted, exported>>
\* Mutant: the gradients accumulated when the budget ran out are used.
UpdateWithWhatIsThere ==
    /\ AtStage("record") /\ gradients > 0 /\ (gradients = Records \/ late)
    /\ weights' = weights + gradients
    /\ batch' = batch + 1
    /\ stage' = IF batch + 1 = Batches THEN "score" ELSE "batch"
    /\ UNCHANGED <<loop, late, gradients, history, best, exhausted, exported>>
Update ==
    /\ AtStage("record") /\ gradients = Records
    /\ weights' = weights + gradients
    /\ batch' = batch + 1
    /\ stage' = IF batch + 1 = Batches THEN "score" ELSE "batch"
    /\ UNCHANGED <<loop, late, gradients, history, best, exhausted, exported>>

DevelopmentScore ==
    /\ AtStage("score") /\ InBudget
    /\ stage' = "scored"
    /\ UNCHANGED <<loop, late, batch, gradients, weights, history, best, exhausted, exported>>
\* A copy of the weights is kept with the lowest score; earlier epochs win exact ties.
Lower(entry) == IF best = NoEpoch \/ entry.score < best.score THEN entry ELSE best
EnterEpoch ==
    /\ AtStage("scored") /\ InBudget
    /\ \E score \in Scores, admissible \in BOOLEAN :
        LET entry == [epoch |-> Number, score |-> score, admissible |-> admissible, weights |-> weights]
        IN  /\ (Number = 0 \/ Policy.choice # "admissible") => admissible
            /\ history' = Append(history, entry)
            /\ best' = IF Policy.choice = "best" THEN Lower(entry) ELSE best
    /\ batch' = 0
    /\ stage' = IF Number = Epochs THEN "export" ELSE "batch"
    /\ UNCHANGED <<loop, late, gradients, weights, exhausted, exported>>

\* The first of the lowest scores among the epochs that may be chosen (selection.choose).
choose(entries) ==
    LET May(i) == entries[i].admissible
        i == CHOOSE i \in DOMAIN entries :
               /\ May(i)
               /\ \A j \in DOMAIN entries : May(j) => entries[i].score <= entries[j].score
               /\ \A j \in 1..i - 1 : May(j) => entries[i].score < entries[j].score
    IN  entries[i]
Export ==
    /\ AtStage("export") /\ InBudget
    /\ exported' = CASE Policy.choice = "best" -> best
                     [] Policy.choice = "admissible" -> choose(history)
                     [] Policy.choice = "last" -> history[Len(history)]
    /\ stage' = IF exported' = NoEpoch THEN "failed" ELSE "exported"
    /\ UNCHANGED <<loop, late, batch, gradients, weights, history, best, exhausted>>

LoopNext ==
    \/ Deadline \/ LoopFails \/ BudgetSpent \/ TakeBatch \/ Backward
    \/ Update \/ DevelopmentScore \/ EnterEpoch \/ Export
LoopSpec == LoopInit /\ [][LoopNext]_loop_vars

\* What the gates ask of a fit before they compare anything (measurement.gates).
Finished == stage = "exported" /\ Len(history) = Epochs + 1 - Policy.first /\ ~exhausted

-----------------------------------------------------------------------------
\* What is exported has learned from whole epochs only: as many as the report says, every
\* recording of every batch once, however the budget ran out; no epoch that may be chosen
\* scored lower, and none before it scored as low.
ExportedFit ==
    AtStage("exported") =>
        /\ exported.weights = exported.epoch * PerEpoch
        /\ \E i \in DOMAIN history : history[i] = exported
        /\ Policy.choice # "last" =>
            \A i \in DOMAIN history :
                history[i].admissible =>
                    /\ exported.score <= history[i].score
                    /\ history[i].epoch < exported.epoch => exported.score < history[i].score

\* A fit that counts as finished has taken every update of its schedule.
FinishedIsWhole == Finished => weights = Epochs * PerEpoch

LoopOK == ExportedFit /\ FinishedIsWhole
=============================================================================
