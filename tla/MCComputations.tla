----------------------------- MODULE MCComputations -----------------------------
(***************************************************************************)
(* The computations one after another: the bounded problems that are asked *)
(* in one step, and the loops of the estimator from beats to sections. A   *)
(* behaviour is a problem or a recording; the other side does nothing.     *)
(***************************************************************************)
EXTENDS MCExperimentAlgorithms, RhythmSections

NoProblem == problem = [of |-> "sections"] /\ answer = None
NoRecording ==
    /\ pc = "done" /\ duration = 0 /\ quiet = {} /\ beats = {}
    /\ at = 0 /\ open = NoRun /\ regions = {} /\ found = {} /\ todo = {} /\ kept = <<>>
    /\ left = {} /\ cuts = {} /\ sections = {}

ComputationsInit ==
    \/ Init /\ NoRecording
    \/ SectionsInit /\ NoProblem

Estimate == SectionsNext /\ UNCHANGED vars
Still == UNCHANGED sections_vars

\* Next, its computations one by one, beside the estimator.
ComputationsNext ==
    \/ CutAndJoin /\ Still
    \/ Infer /\ Still
    \/ Propose /\ Still
    \/ Match /\ Still
    \/ Protect /\ Still
    \/ Route /\ Still
    \/ Measure /\ Still
    \/ Gate /\ Still
    \/ Evaluate /\ Still
    \/ Decide /\ Still
    \/ Account /\ Still
    \/ Supply /\ Still
    \/ Decode /\ Still
    \/ Residuals /\ Still
    \/ Relabel /\ Still
    \/ Interpret /\ Still
    \/ Outline /\ Still
    \/ Estimate
ComputationsSpec == ComputationsInit /\ [][ComputationsNext]_<<vars, sections_vars>>
=================================================================================
