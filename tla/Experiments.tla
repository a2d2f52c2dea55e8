------------------------------ MODULE Experiments ------------------------------
(***************************************************************************)
(* The experiments: their programs, and the loops inside the programs that *)
(* keep what they did.  They share no state; a behaviour runs one of them. *)
(***************************************************************************)
EXTENDS ExperimentLoops, ExperimentRun

\* No program was started, or no loop.
NoPrograms ==
    /\ program = [r \in Runs |-> "tempo_pairs"] /\ run = [r \in Runs |-> Quiet("absent")]
    /\ disk = [f \in {} |-> None] /\ drifted = None
NoLoops == running = "programs" /\ NoRecorder /\ NoLoop /\ NoFit /\ NoPool

ExperimentsInit ==
    \/ Init /\ NoLoops
    \/ LoopsInit /\ NoPrograms

RunPrograms == running = "programs" /\ Next /\ UNCHANGED loops_vars
RunLoops == LoopsNext /\ UNCHANGED vars

ExperimentsNext == RunPrograms \/ RunLoops
ExperimentsSpec == ExperimentsInit /\ [][ExperimentsNext]_<<vars, loops_vars>>
================================================================================
