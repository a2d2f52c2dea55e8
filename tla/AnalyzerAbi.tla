----------------------------- MODULE AnalyzerAbi -----------------------------
(***************************************************************************)
(* The C ABI, crates/rhythm-map-ffi/src/lib.rs: threads of a foreign       *)
(* program that share one analyzer.  The analyzer's engine is behind a     *)
(* mutex that a panic poisons; each thread has an error slot, and reads it *)
(* through a borrowed pointer.  The caller keeps its side of the contract: *)
(* it frees the analyzer when no thread is using it, and uses it no more.  *)
(***************************************************************************)
EXTENDS Naturals

CONSTANTS
    Threads,
    None,
    MaxCalls    \* bound: calls that each thread makes

ASSUME NoneAssumption == None \notin Threads
ASSUME CallsAssumption == MaxCalls \in Nat

VARIABLES
    analyzer,   \* the caller's pointer: "null" or "live"
    lock,       \* the thread that holds the engine's mutex
    poisoned,   \* the mutex's flag
    error,      \* each thread's LAST_ERROR; "" when cleared
    borrowed,   \* its pointer from rhythm_map_last_error
    pc, answer, \* where it is in ffi_ptr, and what its last call returned
    reason,     \* history: why its last call failed
    broken,     \* history: a panic left the engine half way
    calls

vars == <<analyzer, lock, poisoned, error, borrowed, pc, answer, reason,
          broken, calls>>
engine == <<analyzer, lock, poisoned, broken>>

\* Every way a call fails, and "" for none.
Messages == {"", "invalid", "null", "poisoned", "failed", "panic"}

Init ==
    /\ analyzer = "null" /\ lock = None /\ poisoned = FALSE /\ broken = FALSE
    /\ error = [t \in Threads |-> ""]
    /\ borrowed = [t \in Threads |-> "no"]
    /\ pc = [t \in Threads |-> "outside"]
    /\ answer = [t \in Threads |-> "none"]
    /\ reason = [t \in Threads |-> ""]
    /\ calls = [t \in Threads |-> 0]

\* LAST_ERROR is thread-local.
Slot(t) == t

\* Thread t replaces its message: pointers to the old one dangle, except in t,
\* which gave its pointer up by calling.
SetError(t, message) ==
    /\ error' = [error EXCEPT ![Slot(t)] = message]
    /\ borrowed' = [u \in Threads |->
            IF u = t THEN "no"
            ELSE IF Slot(u) = Slot(t) /\ borrowed[u] # "no" THEN "dangling"
            ELSE borrowed[u]]

-----------------------------------------------------------------------------
\* Mutant: a call does not clear the last error.
EnterKeepsError(t, there) ==
    /\ pc[t] = "outside" /\ calls[t] < MaxCalls
    /\ calls' = [calls EXCEPT ![t] = @ + 1]
    /\ pc' = [pc EXCEPT ![t] = there]
    /\ answer' = [answer EXCEPT ![t] = "none"]
    /\ reason' = [reason EXCEPT ![t] = ""]
    /\ borrowed' = [borrowed EXCEPT ![t] = "no"]
    /\ UNCHANGED <<engine, error>>

\* ffi_ptr: clear_error, then the operation.
Enter(t, there) ==
    /\ pc[t] = "outside" /\ calls[t] < MaxCalls
    /\ calls' = [calls EXCEPT ![t] = @ + 1]
    /\ pc' = [pc EXCEPT ![t] = there]
    /\ answer' = [answer EXCEPT ![t] = "none"]
    /\ reason' = [reason EXCEPT ![t] = ""]
    /\ SetError(t, "")
    /\ UNCHANGED engine

\* ffi_ptr: the operation's pointer, or null and a message.
Leave(t, message) ==
    /\ pc' = [pc EXCEPT ![t] = "outside"]
    /\ reason' = [reason EXCEPT ![t] = message]
    /\ IF message = ""
       THEN answer' = [answer EXCEPT ![t] = "pointer"] /\ UNCHANGED <<error, borrowed>>
       ELSE answer' = [answer EXCEPT ![t] = "null"] /\ SetError(t, message)
    /\ UNCHANGED calls

CallNew(t) == analyzer = "null" /\ (\A u \in Threads : pc[u] # "new") /\ Enter(t, "new")
CallAnalyze(t) == Enter(t, "start")

\* Either constructor: bad paths, a pack that does not verify, a model that
\* does not load, a panic, or an analyzer with a new engine.
New(t) ==
    /\ pc[t] = "new"
    /\ \/ /\ Leave(t, "")
          /\ analyzer' = "live" /\ poisoned' = FALSE /\ broken' = FALSE
          /\ UNCHANGED lock
       \/ \E m \in {"invalid", "failed", "panic"} : Leave(t, m) /\ UNCHANGED engine

\* rhythm_map_analyze_pcm_json: the checks of its pointers.
Start(t) ==
    /\ pc[t] = "start"
    /\ \/ Leave(t, "null")
       \/ /\ analyzer = "live"
          /\ pc' = [pc EXCEPT ![t] = "wait"]
          /\ UNCHANGED <<error, borrowed, answer, reason, calls>>
    /\ UNCHANGED engine

\* Mutant: a poisoned lock is taken all the same.
LockAnyway(t) ==
    /\ pc[t] = "wait" /\ lock = None
    /\ lock' = t /\ pc' = [pc EXCEPT ![t] = "analyze"]
    /\ UNCHANGED <<analyzer, poisoned, broken, error, borrowed, answer, reason, calls>>

\* engine.lock(): the guard is dropped at once when the flag is set.
Lock(t) ==
    /\ pc[t] = "wait" /\ lock = None
    /\ \/ /\ poisoned /\ Leave(t, "poisoned") /\ UNCHANGED engine
       \/ /\ ~poisoned
          /\ lock' = t /\ pc' = [pc EXCEPT ![t] = "analyze"]
          /\ UNCHANGED <<analyzer, poisoned, broken, error, borrowed, answer, reason, calls>>

\* Mutant: the guard does not see the panic and stays.
AnalyzeKeepsLock(t) ==
    /\ pc[t] = "analyze"
    /\ \/ \E m \in {"", "failed"} : Leave(t, m) /\ lock' = None
                                    /\ UNCHANGED <<analyzer, poisoned, broken>>
       \/ /\ Leave(t, "panic")
          /\ UNCHANGED engine

\* analyze_pcm and the JSON, under the guard.  A panic unwinds through the
\* guard, which poisons the mutex and frees it, to catch_unwind.
Analyze(t) ==
    /\ pc[t] = "analyze"
    /\ lock' = None
    /\ \/ \E m \in {"", "failed"} : Leave(t, m) /\ UNCHANGED <<analyzer, poisoned, broken>>
       \/ /\ Leave(t, "panic")
          /\ poisoned' = TRUE /\ broken' = TRUE /\ UNCHANGED analyzer

\* rhythm_map_last_error.
LastError(t) ==
    /\ pc[t] = "outside" /\ borrowed[t] = "no"
    /\ borrowed' = [borrowed EXCEPT ![t] = "valid"]
    /\ UNCHANGED <<engine, error, pc, answer, reason, calls>>

\* rhythm_map_analyzer_free, by a caller that knows nobody is using it.
Free(t) ==
    /\ analyzer = "live" /\ \A u \in Threads : pc[u] = "outside"
    /\ analyzer' = "null"
    /\ UNCHANGED <<lock, poisoned, broken, error, borrowed, pc, answer, reason, calls>>

Step(t) == New(t) \/ Start(t) \/ Lock(t) \/ Analyze(t)
Next == \E t \in Threads :
            CallNew(t) \/ CallAnalyze(t) \/ Step(t) \/ LastError(t) \/ Free(t)

Spec == Init /\ [][Next]_vars

\* Threads are scheduled and inference ends; the mutex need not be fair.
FairSpec == Spec /\ \A t \in Threads : WF_vars(Step(t))

-----------------------------------------------------------------------------
TypeOK ==
    /\ analyzer \in {"null", "live"} /\ lock \in Threads \cup {None}
    /\ poisoned \in BOOLEAN /\ broken \in BOOLEAN
    /\ error \in [Threads -> Messages] /\ reason \in [Threads -> Messages]
    /\ borrowed \in [Threads -> {"no", "valid", "dangling"}]
    /\ pc \in [Threads -> {"outside", "new", "start", "wait", "analyze"}]
    /\ answer \in [Threads -> {"none", "pointer", "null"}]
    /\ calls \in [Threads -> 0..MaxCalls]

\* Until its next call a thread reads why its own last call failed, whatever
\* the other threads call and panic meanwhile; after a success it reads
\* nothing.  ("Read rhythm_map_last_error() immediately on the same thread",
\* examples/03-c-ffi/README.md.)
OwnError ==
    \A t \in Threads : pc[t] = "outside" =>
        error[Slot(t)] = reason[t] /\ (answer[t] = "null" => reason[t] # "")

\* "The pointer remains valid until another API call on the same thread."
BorrowedErrorLives == \A t \in Threads : borrowed[t] # "dangling"

\* The engine is used by one thread at a time ("Analyzer calls are serialized
\* internally"), and never again after a panic stopped it half way: every
\* later analysis is refused until the analyzer is made anew.
EngineIsSound ==
    \A t \in Threads : pc[t] = "analyze" =>
        /\ ~broken
        /\ lock = t
        /\ \A u \in Threads \ {t} : pc[u] # "analyze"

\* Every call returns, also when another thread panicked with the lock.
CallsReturn == \A t \in Threads : pc[t] # "outside" ~> pc[t] = "outside"
=============================================================================
