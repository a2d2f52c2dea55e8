---------------------------- MODULE ExperimentLoops ----------------------------
(***************************************************************************)
(* The loops that keep what they did in files and selections: a recorded   *)
(* fit, fits without a recorder, fits apart and together, and acquiring a  *)
(* pool. They share no state; a behaviour runs one of them.                *)
(***************************************************************************)
EXTENDS FitRecorder, TrainingLoop, SeparatedFit, PoolAcquisition

VARIABLE running
loops_vars == <<running, recorder_vars, loop_vars, fit_vars, pool_vars>>

\* The loops that are not running are not under way.
NoRecorder == protected = TRUE /\ pc = "asked" /\ RecorderIdle
NoLoop == loop = "local" /\ stage = "asked" /\ LoopIdle
NoFit == shared = TRUE /\ place = "asked" /\ FitIdle
NoPool == found = [i \in 1..Members |-> "absent"] /\ reuse = found /\ PoolIdle

LoopsInit ==
    \/ running = "recorded" /\ RecorderInit /\ NoLoop /\ NoFit /\ NoPool
    \/ running = "training" /\ NoRecorder /\ LoopInit /\ NoFit /\ NoPool
    \/ running = "separated" /\ NoRecorder /\ NoLoop /\ FitInit /\ NoPool
    \/ running = "pool" /\ NoRecorder /\ NoLoop /\ NoFit /\ PoolInit

FitRecorded == running = "recorded" /\ RecorderNext /\ UNCHANGED <<running, loop_vars, fit_vars, pool_vars>>
Train == running = "training" /\ LoopNext /\ UNCHANGED <<running, recorder_vars, fit_vars, pool_vars>>
TrainApart == running = "separated" /\ FitNext /\ UNCHANGED <<running, recorder_vars, loop_vars, pool_vars>>
Acquire == running = "pool" /\ PoolNext /\ UNCHANGED <<running, recorder_vars, loop_vars, fit_vars>>

LoopsNext == FitRecorded \/ Train \/ TrainApart \/ Acquire
LoopsSpec == LoopsInit /\ [][LoopsNext]_loops_vars
=============================================================================
