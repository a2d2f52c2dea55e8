--------------------------- MODULE MCModelPackCache ---------------------------
(***************************************************************************)
(* ModelPackCache for TLC.  The callers run the same code over a shared    *)
(* directory, so the safety runs may exchange them.                        *)
(***************************************************************************)
EXTENDS ModelPackCache, TLC

CallerSymmetry == Permutations(Callers)
=============================================================================
