----------------------------- MODULE MCExperiments -----------------------------
(* Two runs of programs: which of them is the first does not matter. *)
EXTENDS Experiments, TLC

Symmetric == Permutations(Runs)
================================================================================
