------------------------------ MODULE PackStore ------------------------------
(***************************************************************************)
(* What the model-pack cache promises, without stages, files or checks: a  *)
(* write-once store.  Callers call and are answered; the pack appears in   *)
(* one step, only while somebody is calling; as long as nobody but the     *)
(* callers touches the store and the power holds, it then stays, and Ok is *)
(* answered only when it is there.                                         *)
(***************************************************************************)
CONSTANTS Callers

VARIABLES
    store,      \* "absent", "complete" or "unusable"
    calling,    \* the callers in a call
    reply,      \* the answer each caller got last
    trusted     \* nobody but the callers has touched the store

vars == <<store, calling, reply, trusted>>

Init ==
    /\ store = "absent"
    /\ calling = {}
    /\ reply = [p \in Callers |-> "none"]
    /\ trusted = TRUE

Call(p) ==
    /\ p \notin calling
    /\ calling' = calling \cup {p}
    /\ reply' = [reply EXCEPT ![p] = "none"]
    /\ UNCHANGED <<store, trusted>>

\* Some caller publishes the pack; "unusable" is an outsider's empty directory.
Install ==
    /\ calling # {}
    /\ store = "absent" \/ (store = "unusable" /\ ~trusted)
    /\ store' = "complete"
    /\ UNCHANGED <<calling, reply, trusted>>

Answer(p, value) ==
    /\ p \in calling
    /\ value = "ok" => store = "complete" \/ ~trusted
    /\ calling' = calling \ {p}
    /\ reply' = [reply EXCEPT ![p] = value]
    /\ UNCHANGED <<store, trusted>>

\* A caller dies before it is answered.
Abandon(p) ==
    /\ p \in calling
    /\ calling' = calling \ {p}
    /\ UNCHANGED <<store, reply, trusted>>

\* Everybody dies; what was published last may be gone or damaged.
PowerFailure ==
    /\ calling' = {}
    /\ reply' = [p \in Callers |-> "none"]
    /\ \/ store' = store
       \/ store # "absent" /\ store' \in {"absent", "unusable"}
    /\ UNCHANGED trusted

Outsider ==
    /\ trusted' = FALSE
    /\ store' \in {"absent", "complete", "unusable"}
    /\ UNCHANGED <<calling, reply>>

Next ==
    \/ \E p \in Callers :
          Call(p) \/ Answer(p, "ok") \/ Answer(p, "err") \/ Abandon(p)
    \/ Install
    \/ PowerFailure
    \/ Outsider

Spec == Init /\ [][Next]_vars
=============================================================================
