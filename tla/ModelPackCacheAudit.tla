------------------------- MODULE ModelPackCacheAudit -------------------------
(***************************************************************************)
(* ModelPackCache with two history variables, to say what a call may rely  *)
(* on while outsiders change the entry under it: verify reads the files    *)
(* one after the other, so no instant need see all of them good.           *)
(***************************************************************************)
EXTENDS ModelPackCacheRefines

VARIABLES
    witnessed,  \* files that were good in the entry at some time of the call
    present     \* the entry was there when the call began, and ever since

auditVars == <<vars, witnessed, present>>

AuditInit ==
    /\ Init
    /\ witnessed = [p \in Callers |-> {}]
    /\ present = [p \in Callers |-> FALSE]

Watch ==
    /\ witnessed' = [p \in Callers |->
            IF pc[p] = "idle" THEN {}
            ELSE witnessed[p] \cup {f \in Files : entry.file[f] = "good"}]
    /\ present' = [p \in Callers |->
            Exists(entry') /\ (present[p] \/ pc[p] = "idle")]

AuditNext ==
    \/ \E p \in Callers :
        \/ CallFetch(p) /\ Watch
        \/ CallVerify(p) /\ Watch
        \/ Work(p) /\ Watch
        \/ IoError(p) /\ Watch
        \/ Crash(p) /\ Watch
    \/ PowerFailure /\ Watch
    \/ WriteBack /\ Watch
    \/ Outsider /\ Watch

AuditSpec == AuditInit /\ [][AuditNext]_auditVars

\* An Ok rests on the manifest and every artifact having been good in the
\* entry during this very call: a file that was corrupt all along is never
\* accepted, and nothing remembered from an earlier call is.
OkWasWitnessed ==
    \A p \in Callers :
        pc[p] = "return" /\ answer[p] = "ok" => witnessed[p] = Files

\* A call that finds something at the entry's path, whatever its condition,
\* never opens a stage or a download while it is there.
\* (corrupt_cache_is_not_overwritten_or_downloaded, cache.rs:324.)
PresentNeverDownloads ==
    \A p \in Callers : present[p] => pc[p] \notin StagePcs \cup {"make_stage"}
=============================================================================
