------------------------ MODULE MCModelPackCacheAudit ------------------------
(***************************************************************************)
(* ModelPackCacheAudit, with the refinement, for TLC.                      *)
(***************************************************************************)
EXTENDS ModelPackCacheAudit, TLC

CallerSymmetry == Permutations(Callers)
=============================================================================
