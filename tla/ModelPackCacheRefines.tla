------------------------ MODULE ModelPackCacheRefines ------------------------
(***************************************************************************)
(* The file-system protocol of ModelPackCache implements the write-once    *)
(* store of PackStore: lookups, stages, downloads and checks are hidden,   *)
(* the rename is the step that installs, an answer is given on return.     *)
(***************************************************************************)
EXTENDS ModelPackCache

StoreOf(d) == IF Complete(d) THEN "complete"
              ELSE IF Exists(d) THEN "unusable" ELSE "absent"

Calling == {p \in Callers : pc[p] # "idle"}
Reply == [p \in Callers |-> IF pc[p] = "idle" THEN answer[p] ELSE "none"]

Store == INSTANCE PackStore WITH
            store <- StoreOf(entry),
            calling <- Calling,
            reply <- Reply,
            trusted <- ~tampered

\* fetch and verify, with every failure, crash, power failure and outsider,
\* behave towards their callers as the write-once store does.
ImplementsStore == Store!Spec
=============================================================================
