-------------------------- MODULE AnalyzerAbi_proofs --------------------------
(***************************************************************************)
(* The safety of the C ABI for any number of threads and calls.            *)
(*                                                                         *)
(* OwnError holds because an operation that is under way has a clear slot  *)
(* (ClearInv).  EngineIsSound needs what ties the engine's flag, its mutex *)
(* and the caller's pointer together (LockInv, LifeInv): a panic poisons   *)
(* before the mutex is free, and an engine is made only while no thread    *)
(* can be waiting for one.                                                 *)
(***************************************************************************)
EXTENDS AnalyzerAbi, TLAPS

\* In an operation a thread's slot is clear and its pointer given up.
ClearInv ==
    \A t \in Threads : pc[t] # "outside" => error[t] = "" /\ borrowed[t] = "no"

\* The mutex is held exactly during an analysis, and a panic poisons it.
LockInv ==
    /\ \A t \in Threads : pc[t] = "analyze" <=> lock = t
    /\ broken => poisoned
    /\ \A t \in Threads : pc[t] = "analyze" => ~poisoned

\* Threads wait only for a live analyzer; one thread makes one, and only while
\* there is none.
LifeInv ==
    /\ \A t \in Threads : pc[t] \in {"wait", "analyze"} => analyzer = "live"
    /\ \A t \in Threads : pc[t] = "new" => analyzer = "null"
    /\ \A t, u \in Threads : pc[t] = "new" /\ pc[u] = "new" => t = u

IndInv == TypeOK /\ OwnError /\ BorrowedErrorLives /\ ClearInv /\ LockInv /\ LifeInv

\* Parts of TypeOK.
Places == {"outside", "new", "start", "wait", "analyze"}
Answers == {"none", "pointer", "null"}
EngineOK == /\ analyzer \in {"null", "live"} /\ lock \in Threads \cup {None}
            /\ poisoned \in BOOLEAN /\ broken \in BOOLEAN

\* What a step of thread t's call may do to the slots and to the calls: nothing
\* to those of another thread.
SlotBecomes(t, m) ==
    /\ error' \in [Threads -> Messages]
    /\ borrowed' \in [Threads -> {"no", "valid"}]
    /\ error'[t] = m /\ borrowed'[t] = "no"
    /\ \A u \in Threads \ {t} : error'[u] = error[u] /\ borrowed'[u] = borrowed[u]

CallBecomes(t, there, a, r) ==
    /\ pc' \in [Threads -> Places] /\ reason' \in [Threads -> Messages]
    /\ answer' \in [Threads -> Answers] /\ calls' \in [Threads -> 0..MaxCalls]
    /\ pc'[t] = there /\ answer'[t] = a /\ reason'[t] = r
    /\ \A u \in Threads \ {t} :
          pc'[u] = pc[u] /\ answer'[u] = answer[u] /\ reason'[u] = reason[u]

-----------------------------------------------------------------------------
LEMMA InitIndInv == Init => IndInv
  <1> SUFFICES ASSUME Init PROVE IndInv
    OBVIOUS
  <1>1. TypeOK
    <2>1. 0 \in 0..MaxCalls
      BY CallsAssumption
    <2> QED
      BY <2>1 DEF Init, TypeOK, Messages
  <1>2. OwnError /\ BorrowedErrorLives /\ ClearInv
    BY DEF Init, OwnError, BorrowedErrorLives, ClearInv, Slot
  <1>3. LockInv /\ LifeInv
    BY NoneAssumption DEF Init, LockInv, LifeInv
  <1> QED
    BY <1>1, <1>2, <1>3 DEF IndInv

\* A new message in one thread's slot changes no other thread's slot and makes
\* no other thread's pointer dangle.
LEMMA SetErrorIsLocal ==
    ASSUME TypeOK, BorrowedErrorLives,
           NEW t \in Threads, NEW m \in Messages, SetError(t, m)
    PROVE  SlotBecomes(t, m)
  <1>1. error' = [error EXCEPT ![t] = m] /\ error \in [Threads -> Messages]
    BY DEF SetError, Slot, TypeOK
  <1>2. borrowed \in [Threads -> {"no", "valid"}]
    BY DEF TypeOK, BorrowedErrorLives
  <1>3. borrowed' = [u \in Threads |-> IF u = t THEN "no" ELSE borrowed[u]]
    BY DEF SetError, Slot
  <1>4. borrowed' \in [Threads -> {"no", "valid"}]
    BY <1>2, <1>3
  <1> QED
    BY <1>1, <1>2, <1>3, <1>4 DEF SlotBecomes

\* What ffi_ptr's end does to the thread, with and without an error.
LEMMA LeaveIsLocal ==
    ASSUME IndInv, NEW t \in Threads, NEW m \in Messages, Leave(t, m),
           pc[t] # "outside"
    PROVE  /\ SlotBecomes(t, m)
           /\ CallBecomes(t, "outside", IF m = "" THEN "pointer" ELSE "null", m)
  <1>1. SlotBecomes(t, m)
    <2>1. CASE m = ""
      <3>1. UNCHANGED <<error, borrowed>>
        BY <2>1 DEF Leave
      <3>2. error[t] = "" /\ borrowed[t] = "no"
        BY DEF IndInv, ClearInv
      <3>3. borrowed \in [Threads -> {"no", "valid"}] /\ error \in [Threads -> Messages]
        BY DEF IndInv, TypeOK, BorrowedErrorLives
      <3> QED
        BY <2>1, <3>1, <3>2, <3>3 DEF SlotBecomes
    <2>2. CASE m # ""
      <3>1. SetError(t, m)
        BY <2>2 DEF Leave
      <3> QED
        BY <3>1, SetErrorIsLocal DEF IndInv
    <2> QED
      BY <2>1, <2>2
  <1>2. answer' = [answer EXCEPT ![t] = IF m = "" THEN "pointer" ELSE "null"]
    BY DEF Leave
  <1>3. /\ pc' = [pc EXCEPT ![t] = "outside"]
        /\ reason' = [reason EXCEPT ![t] = m]
        /\ calls' = calls
    BY DEF Leave
  <1>4. /\ pc \in [Threads -> Places] /\ reason \in [Threads -> Messages]
        /\ answer \in [Threads -> Answers] /\ calls \in [Threads -> 0..MaxCalls]
    BY DEF IndInv, TypeOK, Places, Answers
  <1>5. "outside" \in Places /\ (IF m = "" THEN "pointer" ELSE "null") \in Answers
    BY DEF Places, Answers
  <1> QED
    BY <1>1, <1>2, <1>3, <1>4, <1>5 DEF CallBecomes

\* A thread that goes on inside its operation, and leaves the slots alone.
LEMMA AdvanceIsLocal ==
    ASSUME IndInv, NEW t \in Threads, NEW there \in Places \ {"outside"},
           pc[t] # "outside", pc' = [pc EXCEPT ![t] = there],
           UNCHANGED <<error, borrowed, answer, reason, calls>>
    PROVE  /\ SlotBecomes(t, "")
           /\ CallBecomes(t, there, answer[t], reason[t])
  <1>1. /\ error[t] = "" /\ borrowed[t] = "no"
        /\ borrowed \in [Threads -> {"no", "valid"}]
        /\ error \in [Threads -> Messages]
    BY DEF IndInv, ClearInv, TypeOK, BorrowedErrorLives
  <1>2. /\ pc \in [Threads -> Places] /\ reason \in [Threads -> Messages]
        /\ answer \in [Threads -> Answers] /\ calls \in [Threads -> 0..MaxCalls]
    BY DEF IndInv, TypeOK, Places, Answers
  <1>3. SlotBecomes(t, "")
    BY <1>1 DEF SlotBecomes
  <1>4. CallBecomes(t, there, answer[t], reason[t])
    BY <1>2 DEF CallBecomes
  <1> QED
    BY <1>3, <1>4

\* The thread's half of the invariant after any step of a call.
LEMMA CallsKeepErrors ==
    ASSUME IndInv, NEW t \in Threads, NEW m, NEW there, NEW a, NEW r,
           SlotBecomes(t, m), CallBecomes(t, there, a, r),
           there = "outside" => m = r /\ (a = "null" => r # ""),
           there # "outside" => m = ""
    PROVE  OwnError' /\ BorrowedErrorLives' /\ ClearInv'
  <1>1. ASSUME NEW u \in Threads, pc'[u] = "outside"
        PROVE  error'[u] = reason'[u] /\ (answer'[u] = "null" => reason'[u] # "")
    <2>1. CASE u = t
      BY <1>1, <2>1 DEF SlotBecomes, CallBecomes
    <2>2. CASE u # t
      BY <1>1, <2>2 DEF SlotBecomes, CallBecomes, IndInv, OwnError, Slot
    <2> QED
      BY <2>1, <2>2
  <1>2. ASSUME NEW u \in Threads, pc'[u] # "outside"
        PROVE  error'[u] = "" /\ borrowed'[u] = "no"
    <2>1. CASE u = t
      BY <1>2, <2>1 DEF SlotBecomes, CallBecomes
    <2>2. CASE u # t
      <3>1. pc[u] # "outside" /\ error'[u] = error[u] /\ borrowed'[u] = borrowed[u]
        BY <1>2, <2>2 DEF SlotBecomes, CallBecomes
      <3> QED
        BY <3>1 DEF IndInv, ClearInv
    <2> QED
      BY <2>1, <2>2
  <1>3. BorrowedErrorLives'
    BY DEF BorrowedErrorLives, SlotBecomes
  <1> QED
    BY <1>1, <1>2, <1>3 DEF OwnError, Slot, ClearInv

LEMMA CallsKeepTypes ==
    ASSUME NEW t \in Threads, NEW m, NEW there, NEW a, NEW r,
           SlotBecomes(t, m), CallBecomes(t, there, a, r), EngineOK'
    PROVE  TypeOK'
  <1>1. /\ error' \in [Threads -> Messages] /\ reason' \in [Threads -> Messages]
        /\ borrowed' \in [Threads -> {"no", "valid", "dangling"}]
    BY DEF SlotBecomes, CallBecomes
  <1>2. /\ pc' \in [Threads -> {"outside", "new", "start", "wait", "analyze"}]
        /\ answer' \in [Threads -> {"none", "pointer", "null"}]
        /\ calls' \in [Threads -> 0..MaxCalls]
    BY DEF CallBecomes, Places, Answers
  <1> QED
    BY <1>1, <1>2 DEF EngineOK, TypeOK

-----------------------------------------------------------------------------
(***************************************************************************)
(* The steps                                                               *)
(***************************************************************************)
LEMMA EnterKeepsIndInv ==
    ASSUME IndInv, NEW t \in Threads, CallNew(t) \/ CallAnalyze(t)
    PROVE  IndInv'
  <1>1. PICK there \in {"new", "start"} :
            /\ Enter(t, there)
            /\ there = "new" => analyzer = "null" /\ \A u \in Threads : pc[u] # "new"
    BY DEF CallNew, CallAnalyze
  <1>2. SlotBecomes(t, "")
    <2>1. SetError(t, "") /\ "" \in Messages
      BY <1>1 DEF Enter, Messages
    <2> QED
      BY <2>1, SetErrorIsLocal DEF IndInv
  <1>3. CallBecomes(t, there, "none", "")
    <2>1. /\ pc \in [Threads -> Places] /\ reason \in [Threads -> Messages]
          /\ answer \in [Threads -> Answers] /\ calls \in [Threads -> 0..MaxCalls]
      BY DEF IndInv, TypeOK, Places, Answers
    <2>2. there \in Places /\ "none" \in Answers /\ "" \in Messages
      BY DEF Places, Answers, Messages
    <2>3. calls' \in [Threads -> 0..MaxCalls]
      <3>1. calls[t] \in 0..MaxCalls /\ calls[t] < MaxCalls
        BY <1>1, <2>1 DEF Enter
      <3>2. calls[t] + 1 \in 0..MaxCalls
        BY <3>1, CallsAssumption
      <3>3. calls' = [calls EXCEPT ![t] = calls[t] + 1]
        BY <1>1 DEF Enter
      <3> QED
        BY <2>1, <3>2, <3>3
    <2>4. /\ pc' = [pc EXCEPT ![t] = there]
          /\ answer' = [answer EXCEPT ![t] = "none"]
          /\ reason' = [reason EXCEPT ![t] = ""]
      BY <1>1 DEF Enter
    <2> QED
      BY <2>1, <2>2, <2>3, <2>4 DEF CallBecomes
  <1>4. UNCHANGED <<analyzer, lock, poisoned, broken>> /\ pc[t] = "outside"
    BY <1>1 DEF Enter, engine
  <1>5. TypeOK'
    <2>1. EngineOK'
      BY <1>4 DEF IndInv, TypeOK, EngineOK
    <2> QED
      BY <1>2, <1>3, <2>1, CallsKeepTypes
  <1>6. OwnError' /\ BorrowedErrorLives' /\ ClearInv'
    BY <1>1, <1>2, <1>3, CallsKeepErrors
  <1>7. LockInv' /\ LifeInv'
    BY <1>1, <1>3, <1>4 DEF CallBecomes, IndInv, LockInv, LifeInv
  <1> QED
    BY <1>5, <1>6, <1>7 DEF IndInv

LEMMA NewKeepsIndInv ==
    ASSUME IndInv, NEW t \in Threads, New(t)
    PROVE  IndInv'
  <1>1. PICK m \in Messages :
            /\ Leave(t, m)
            /\ \/ analyzer' = "live" /\ poisoned' = FALSE /\ broken' = FALSE /\ lock' = lock
               \/ UNCHANGED <<analyzer, lock, poisoned, broken>>
    BY DEF New, Messages, engine
  <1>2. pc[t] = "new" /\ pc[t] # "outside"
    BY DEF New
  <1> DEFINE a == IF m = "" THEN "pointer" ELSE "null"
  <1>3. SlotBecomes(t, m) /\ CallBecomes(t, "outside", a, m)
    BY <1>1, <1>2, LeaveIsLocal
  <1>4. OwnError' /\ BorrowedErrorLives' /\ ClearInv'
    BY <1>3, CallsKeepErrors
  <1>5. TypeOK'
    <2>1. EngineOK'
      BY <1>1 DEF IndInv, TypeOK, EngineOK
    <2> QED
      BY <1>3, <2>1, CallsKeepTypes
  <1>6. \A u \in Threads : pc[u] \notin {"wait", "analyze"}
    BY <1>2 DEF IndInv, LifeInv
  <1>7. LockInv' /\ LifeInv'
    <2>1. \A u \in Threads : pc'[u] \notin {"wait", "analyze", "new"}
      BY <1>2, <1>3, <1>6 DEF CallBecomes, IndInv, LifeInv
    <2> QED
      BY <1>1, <1>6, <2>1 DEF IndInv, LockInv, LifeInv
  <1> QED
    BY <1>4, <1>5, <1>7 DEF IndInv

\* A call refused before or at the mutex, with an error and nothing else.
LEMMA RefusalKeepsIndInv ==
    ASSUME IndInv, NEW t \in Threads, NEW m \in Messages \ {""}, Leave(t, m),
           pc[t] \in {"start", "wait"}, UNCHANGED engine
    PROVE  IndInv'
  <1>1. SlotBecomes(t, m) /\ CallBecomes(t, "outside", "null", m)
    BY LeaveIsLocal
  <1>2. OwnError' /\ BorrowedErrorLives' /\ ClearInv'
    BY <1>1, CallsKeepErrors
  <1>3. TypeOK'
    <2>1. EngineOK'
      BY DEF engine, IndInv, TypeOK, EngineOK
    <2> QED
      BY <1>1, <2>1, CallsKeepTypes
  <1>4. /\ UNCHANGED <<analyzer, lock, poisoned, broken>>
        /\ \A u \in Threads : pc'[u] = pc[u] \/ (u = t /\ pc'[u] = "outside")
    BY <1>1 DEF engine, CallBecomes
  <1>5. LockInv'
    BY <1>4 DEF IndInv, LockInv
  <1>6. LifeInv'
    BY <1>4 DEF IndInv, LifeInv
  <1> QED
    BY <1>2, <1>3, <1>5, <1>6 DEF IndInv

LEMMA StartKeepsIndInv ==
    ASSUME IndInv, NEW t \in Threads, Start(t)
    PROVE  IndInv'
  <1>1. pc[t] = "start" /\ UNCHANGED engine
    BY DEF Start
  <1>2. CASE Leave(t, "null")
    <2>1. "null" \in Messages \ {""}
      BY DEF Messages
    <2> QED
      BY <1>1, <1>2, <2>1, RefusalKeepsIndInv
  <1>3. CASE /\ analyzer = "live"
             /\ pc' = [pc EXCEPT ![t] = "wait"]
             /\ UNCHANGED <<error, borrowed, answer, reason, calls>>
    <2>1. "wait" \in Places \ {"outside"}
      BY DEF Places
    <2>2. SlotBecomes(t, "") /\ CallBecomes(t, "wait", answer[t], reason[t])
      BY <1>1, <1>3, <2>1, AdvanceIsLocal
    <2>3. OwnError' /\ BorrowedErrorLives' /\ ClearInv'
      BY <2>2, CallsKeepErrors
    <2>4. TypeOK'
      <3>1. EngineOK'
        BY <1>1 DEF engine, IndInv, TypeOK, EngineOK
      <3> QED
        BY <2>2, <3>1, CallsKeepTypes
    <2>5. LockInv' /\ LifeInv'
      BY <1>1, <1>3, <2>2 DEF engine, CallBecomes, IndInv, LockInv, LifeInv
    <2> QED
      BY <2>3, <2>4, <2>5 DEF IndInv
  <1> QED
    BY <1>2, <1>3 DEF Start

LEMMA LockKeepsIndInv ==
    ASSUME IndInv, NEW t \in Threads, Lock(t)
    PROVE  IndInv'
  <1>1. pc[t] = "wait" /\ lock = None
    BY DEF Lock
  <1>2. CASE Leave(t, "poisoned") /\ UNCHANGED engine
    <2>1. "poisoned" \in Messages \ {""}
      BY DEF Messages
    <2> QED
      BY <1>1, <1>2, <2>1, RefusalKeepsIndInv
  <1>3. CASE /\ ~poisoned
             /\ lock' = t /\ pc' = [pc EXCEPT ![t] = "analyze"]
             /\ UNCHANGED <<analyzer, poisoned, broken, error, borrowed, answer,
                            reason, calls>>
    <2>1. "analyze" \in Places \ {"outside"}
      BY DEF Places
    <2>2. SlotBecomes(t, "") /\ CallBecomes(t, "analyze", answer[t], reason[t])
      BY <1>1, <1>3, <2>1, AdvanceIsLocal
    <2>3. OwnError' /\ BorrowedErrorLives' /\ ClearInv'
      BY <2>2, CallsKeepErrors
    <2>4. TypeOK'
      <3>1. EngineOK'
        BY <1>3 DEF IndInv, TypeOK, EngineOK
      <3> QED
        BY <2>2, <3>1, CallsKeepTypes
    <2>5. LockInv'
      <3>1. \A u \in Threads : pc[u] # "analyze"
        BY <1>1, NoneAssumption DEF IndInv, LockInv
      <3> QED
        BY <1>3, <2>2, <3>1 DEF CallBecomes, IndInv, LockInv
    <2>6. LifeInv'
      BY <1>1, <1>3, <2>2 DEF CallBecomes, IndInv, LifeInv
    <2> QED
      BY <2>3, <2>4, <2>5, <2>6 DEF IndInv
  <1> QED
    BY <1>2, <1>3 DEF Lock

LEMMA AnalyzeKeepsIndInv ==
    ASSUME IndInv, NEW t \in Threads, Analyze(t)
    PROVE  IndInv'
  <1>1. PICK m \in Messages :
            /\ Leave(t, m)
            /\ \/ UNCHANGED <<analyzer, poisoned, broken>>
               \/ poisoned' = TRUE /\ broken' = TRUE /\ UNCHANGED analyzer
    BY DEF Analyze, Messages
  <1>2. pc[t] = "analyze" /\ pc[t] # "outside" /\ lock' = None
    BY DEF Analyze
  <1> DEFINE a == IF m = "" THEN "pointer" ELSE "null"
  <1>3. SlotBecomes(t, m) /\ CallBecomes(t, "outside", a, m)
    BY <1>1, <1>2, LeaveIsLocal
  <1>4. OwnError' /\ BorrowedErrorLives' /\ ClearInv'
    BY <1>3, CallsKeepErrors
  <1>5. TypeOK'
    <2>1. EngineOK'
      BY <1>1, <1>2 DEF IndInv, TypeOK, EngineOK
    <2> QED
      BY <1>3, <2>1, CallsKeepTypes
  <1>6. LockInv'
    <2>1. \A u \in Threads : pc'[u] # "analyze"
      <3>1. \A u \in Threads \ {t} : pc[u] # "analyze"
        BY <1>2 DEF IndInv, LockInv
      <3> QED
        BY <1>3, <3>1 DEF CallBecomes
    <2>2. \A u \in Threads : lock' # u
      BY <1>2, NoneAssumption
    <2>3. broken' => poisoned'
      <3>1. broken => poisoned
        BY DEF IndInv, LockInv
      <3>2. CASE poisoned' = poisoned /\ broken' = broken
        BY <3>1, <3>2
      <3>3. CASE poisoned' = TRUE
        BY <3>3
      <3> QED
        BY <1>1, <3>2, <3>3
    <2> QED
      BY <2>1, <2>2, <2>3 DEF LockInv
  <1>7. LifeInv'
    BY <1>1, <1>2, <1>3 DEF CallBecomes, IndInv, LifeInv
  <1> QED
    BY <1>4, <1>5, <1>6, <1>7 DEF IndInv

LEMMA LastErrorKeepsIndInv ==
    ASSUME IndInv, NEW t \in Threads, LastError(t)
    PROVE  IndInv'
  <1>1. /\ pc[t] = "outside" /\ borrowed' = [borrowed EXCEPT ![t] = "valid"]
        /\ UNCHANGED <<analyzer, lock, poisoned, broken, error, pc, answer, reason, calls>>
    BY DEF LastError, engine
  <1>2. borrowed \in [Threads -> {"no", "valid"}]
    BY DEF IndInv, TypeOK, BorrowedErrorLives
  <1>3. borrowed' \in [Threads -> {"no", "valid"}] /\ \A u \in Threads \ {t} : borrowed'[u] = borrowed[u]
    BY <1>1, <1>2
  <1>4. TypeOK' /\ BorrowedErrorLives'
    BY <1>1, <1>3 DEF IndInv, TypeOK, BorrowedErrorLives
  <1>5. OwnError' /\ ClearInv'
    BY <1>1, <1>3 DEF IndInv, OwnError, Slot, ClearInv
  <1>6. LockInv' /\ LifeInv'
    BY <1>1 DEF IndInv, LockInv, LifeInv
  <1> QED
    BY <1>4, <1>5, <1>6 DEF IndInv

LEMMA FreeKeepsIndInv ==
    ASSUME IndInv, NEW t \in Threads, Free(t)
    PROVE  IndInv'
  <1>1. TypeOK'
    BY DEF IndInv, Free, TypeOK
  <1>2. OwnError' /\ BorrowedErrorLives' /\ ClearInv'
    BY DEF IndInv, Free, OwnError, Slot, BorrowedErrorLives, ClearInv
  <1>3. LockInv' /\ LifeInv'
    BY DEF IndInv, Free, LockInv, LifeInv
  <1> QED
    BY <1>1, <1>2, <1>3 DEF IndInv

LEMMA StepsKeepIndInv ==
    ASSUME IndInv, [Next]_vars
    PROVE  IndInv'
  <1>1. CASE UNCHANGED vars
    BY <1>1 DEF vars, IndInv, TypeOK, OwnError, Slot, BorrowedErrorLives, ClearInv,
                LockInv, LifeInv
  <1>2. CASE Next
    <2> PICK t \in Threads :
             CallNew(t) \/ CallAnalyze(t) \/ Step(t) \/ LastError(t) \/ Free(t)
      BY <1>2 DEF Next
    <2> QED
      BY EnterKeepsIndInv, NewKeepsIndInv, StartKeepsIndInv, LockKeepsIndInv,
         AnalyzeKeepsIndInv, LastErrorKeepsIndInv, FreeKeepsIndInv DEF Step
  <1> QED
    BY <1>1, <1>2

LEMMA AlwaysIndInv == Spec => []IndInv
  BY InitIndInv, StepsKeepIndInv, PTL DEF Spec

-----------------------------------------------------------------------------
\* Every variable keeps its type: in particular no panic leaves ffi_ptr.
THEOREM TypeCorrect == Spec => []TypeOK
  <1>1. IndInv => TypeOK
    BY DEF IndInv
  <1> QED
    BY <1>1, AlwaysIndInv, PTL

\* Whatever other threads call, and however their calls end, a thread finds
\* why its own last call failed in LAST_ERROR, and nothing after a success.
THEOREM ErrorsAreOwn == Spec => []OwnError
  <1>1. IndInv => OwnError
    BY DEF IndInv
  <1> QED
    BY <1>1, AlwaysIndInv, PTL

\* A pointer from rhythm_map_last_error lives until its thread calls again.
THEOREM BorrowedErrorsLive == Spec => []BorrowedErrorLives
  <1>1. IndInv => BorrowedErrorLives
    BY DEF IndInv
  <1> QED
    BY <1>1, AlwaysIndInv, PTL

\* For any number of threads, no two use the engine at once, and none uses it
\* after a panic: the guard poisons the mutex before it frees it.
THEOREM EngineStaysSound == Spec => []EngineIsSound
  <1>1. IndInv => EngineIsSound
    BY DEF IndInv, LockInv, EngineIsSound
  <1> QED
    BY <1>1, AlwaysIndInv, PTL
=============================================================================
