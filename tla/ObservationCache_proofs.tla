----------------------- MODULE ObservationCache_proofs -----------------------
(***************************************************************************)
(* Proofs about ObservationCache, for any runs, process ids, keys, shapes, *)
(* observations and any bound on failures.                                 *)
(***************************************************************************)
EXTENDS ObservationCache, TLAPS

USE PidAssumption, FaultsAssumption, NothingAssumption

WritingPcs == {"write", "sync", "publish"}

\* What a run knows of its case and of its temporary file.
RunInv(r) ==
    /\ pc[r] # "idle" => case[r] \in Case
    /\ pc[r] \in StorePcs \cup {"analyze"} => case[r].obs \in Observations
    /\ pc[r] \in StorePcs => Judged(r) \in passed
    /\ pc[r] \in {"load", "read", "observe"} => ~case[r].hit
    /\ pc[r] = "analyze" /\ case[r].hit => Judged(r) \in passed
    /\ pc[r] \in WritingPcs =>
          /\ temp[Slot(r)] \in File
          /\ temp[Slot(r)].shape = case[r].shape
          /\ temp[Slot(r)].obs = case[r].obs
    /\ pc[r] = "publish" => temp[Slot(r)].bytes = "synced"

IndInv == /\ TypeOK
          /\ EntriesWereJudged
          /\ OneWriterPerTemp
          /\ \A r \in Runs : RunInv(r)

-----------------------------------------------------------------------------
LEMMA SlotIsSlot ==
    ASSUME NEW r \in Runs, case[r] \in Case
    PROVE  Slot(r) \in Keys \X Pids /\ case[r].key \in Keys
                                    /\ case[r].shape \in Shapes
  BY DEF Slot, Pids, Case

\* A run that only moves on, and touches no file, disturbs no other run.
LEMMA OthersKeep ==
    ASSUME IndInv, NEW r \in Runs, NEW q \in Runs, q # r,
           pc'[q] = pc[q], case'[q] = case[q], passed \subseteq passed',
           pc[q] \in WritingPcs => temp'[Slot(q)] = temp[Slot(q)]
    PROVE  RunInv(q)'
<1>1. RunInv(q)
  BY DEF IndInv
<1>2. Slot(q)' = Slot(q) /\ Judged(q)' = Judged(q)
  BY DEF Slot, Judged
<1>3. QED
  BY <1>1, <1>2 DEF RunInv, WritingPcs

\* A run that leaves its case for idle or a pc that writes nothing keeps the
\* temporary files apart.
LEMMA ApartWhenQuiet ==
    ASSUME IndInv, NEW r \in Runs, pc'[r] \notin WritingPcs,
           \A q \in Runs \ {r} : pc'[q] = pc[q] /\ case'[q] = case[q]
    PROVE  OneWriterPerTemp'
  BY DEF IndInv, OneWriterPerTemp, Slot, WritingPcs

\* The same when the run stays in a writing pc at the same slot.
LEMMA ApartWhenWriting ==
    ASSUME IndInv, NEW r \in Runs, pc[r] \in WritingPcs, case' = case,
           \A q \in Runs \ {r} : pc'[q] = pc[q]
    PROVE  OneWriterPerTemp'
  BY DEF IndInv, OneWriterPerTemp, Slot, WritingPcs

\* What becomes of the case and the pc in the three ways a run moves.
LEMMA GotoMoves ==
    ASSUME IndInv, NEW r \in Runs, NEW there \in PCs, Goto(r, there)
    PROVE  /\ pc' \in [Runs -> PCs] /\ pc'[r] = there /\ case' = case
           /\ \A q \in Runs \ {r} : pc'[q] = pc[q]
  BY DEF Goto, IndInv, TypeOK

LEMMA LeaveMoves ==
    ASSUME IndInv, NEW r \in Runs, Leave(r)
    PROVE  /\ pc' \in [Runs -> PCs] /\ pc'[r] = "idle"
           /\ case' \in [Runs -> Case \cup {Nothing}]
           /\ \A q \in Runs \ {r} : pc'[q] = pc[q] /\ case'[q] = case[q]
<1>1. pc \in [Runs -> PCs] /\ case \in [Runs -> Case \cup {Nothing}]
  BY DEF IndInv, TypeOK
<1>2. "idle" \in PCs
  BY DEF PCs
<1>3. QED
  BY <1>1, <1>2 DEF Leave

LEMMA WithMoves ==
    ASSUME IndInv, NEW r \in Runs, NEW c \in Case, NEW there \in PCs,
           With(r, c, there)
    PROVE  /\ pc' \in [Runs -> PCs] /\ pc'[r] = there
           /\ case' \in [Runs -> Case \cup {Nothing}] /\ case'[r] = c
           /\ \A q \in Runs \ {r} : pc'[q] = pc[q] /\ case'[q] = case[q]
<1>1. pc \in [Runs -> PCs] /\ case \in [Runs -> Case \cup {Nothing}]
  BY DEF IndInv, TypeOK
<1>2. QED
  BY <1>1 DEF With

-----------------------------------------------------------------------------
(***************************************************************************)
(* Each action                                                             *)
(***************************************************************************)
\* Leaving with every file as it was.
LEMMA LeaveKeeps ==
    ASSUME IndInv, NEW r \in Runs, Leave(r), faults' \in 0..MaxFaults,
           UNCHANGED <<entry, temp, passed>>
    PROVE  IndInv'
<1>1. RunInv(r)'
  BY LeaveMoves DEF RunInv, StorePcs, WritingPcs
<1>2. TypeOK' /\ EntriesWereJudged'
  BY LeaveMoves DEF IndInv, TypeOK, EntriesWereJudged
<1>3. OneWriterPerTemp'
  BY LeaveMoves, ApartWhenQuiet DEF WritingPcs
<1>4. \A q \in Runs : RunInv(q)'
  BY <1>1, LeaveMoves, OthersKeep
<1>5. QED
  BY <1>2, <1>3, <1>4 DEF IndInv

\* Going on with every file and the case as they were.
LEMMA GotoKeeps ==
    ASSUME IndInv, NEW r \in Runs, NEW there \in PCs \ WritingPcs,
           Goto(r, there), RunInv(r)', passed' \subseteq Keys \X Shapes \X Observations,
           passed \subseteq passed', UNCHANGED <<entry, temp, faults>>
    PROVE  IndInv'
<1>1. TypeOK'
  BY GotoMoves DEF IndInv, TypeOK
<1>2. EntriesWereJudged'
  BY DEF IndInv, EntriesWereJudged
<1>3. OneWriterPerTemp'
  BY GotoMoves, ApartWhenQuiet
<1>4. \A q \in Runs : RunInv(q)'
  BY GotoMoves, OthersKeep
<1>5. QED
  BY <1>1, <1>2, <1>3, <1>4 DEF IndInv

\* A new case or what was learnt about it.
LEMMA WithKeeps ==
    ASSUME IndInv, NEW r \in Runs, NEW c \in Case, NEW there \in PCs \ WritingPcs,
           With(r, c, there), RunInv(r)', UNCHANGED <<entry, temp, faults, passed>>
    PROVE  IndInv'
<1>1. TypeOK'
  BY WithMoves DEF IndInv, TypeOK
<1>2. EntriesWereJudged'
  BY DEF IndInv, EntriesWereJudged
<1>3. OneWriterPerTemp'
  BY WithMoves, ApartWhenQuiet
<1>4. \A q \in Runs : RunInv(q)'
  BY WithMoves, OthersKeep
<1>5. QED
  BY <1>1, <1>2, <1>3, <1>4 DEF IndInv

LEMMA StartKeeps ==
    ASSUME IndInv, NEW r \in Runs, NEW k \in Keys, StartCase(r, k)
    PROVE  IndInv'
<1>1. PICK s \in Shapes : With(r, [key |-> k, shape |-> s, obs |-> Nothing,
                                   hit |-> FALSE], "load")
  BY DEF StartCase
<1> DEFINE c == [key |-> k, shape |-> s, obs |-> Nothing, hit |-> FALSE]
<1>2. c \in Case /\ "load" \in PCs \ WritingPcs
  BY DEF Case, PCs, WritingPcs
<1>3. RunInv(r)'
  BY <1>1, <1>2, WithMoves DEF RunInv, StorePcs, WritingPcs
<1>4. QED
  BY <1>1, <1>2, <1>3, WithKeeps DEF StartCase

LEMMA LoadKeeps ==
    ASSUME IndInv, NEW r \in Runs, LoadLooks(r) \/ LoadReads(r) \/ Observe(r)
    PROVE  IndInv'
<1>0. RunInv(r) /\ pc[r] # "idle" /\ case[r] \in Case
  BY DEF IndInv, RunInv, LoadLooks, LoadReads, Observe
<1>1. CASE LoadLooks(r)
  <2>1. PICK there \in {"observe", "read"} : Goto(r, there)
    BY <1>1 DEF LoadLooks
  <2>2. there \in PCs \ WritingPcs
    BY DEF PCs, WritingPcs
  <2>3. RunInv(r)'
    BY <1>0, <1>1, <2>1, <2>2, GotoMoves DEF RunInv, StorePcs, WritingPcs, LoadLooks
  <2>4. QED
    BY <1>1, <2>1, <2>2, <2>3, GotoKeeps DEF LoadLooks, IndInv, TypeOK
<1>2. CASE LoadReads(r) /\ Loadable(r)
  <2> DEFINE c == [case[r] EXCEPT !.obs = Entry(r).obs, !.hit = TRUE]
  <2>1. With(r, c, "analyze") /\ "analyze" \in PCs \ WritingPcs
    BY <1>2 DEF LoadReads, PCs, WritingPcs
  <2>2. Entry(r) \in File /\ Entry(r).shape = case[r].shape
        /\ <<case[r].key, Entry(r).shape, Entry(r).obs>> \in passed
    BY <1>0, <1>2, SlotIsSlot DEF IndInv, TypeOK, EntriesWereJudged, MaybeFile,
                                  Loadable, Entry
  <2>3. c \in Case /\ c.obs \in Observations /\ c.key = case[r].key
        /\ c.shape = case[r].shape /\ c.obs = Entry(r).obs
    BY <1>0, <2>2 DEF Case, File
  <2>4. case'[r] = c /\ pc'[r] = "analyze"
    BY <2>1, <2>3, WithMoves
  <2>5. Judged(r)' \in passed'
    BY <1>2, <2>2, <2>3, <2>4 DEF Judged, LoadReads
  <2>6. RunInv(r)'
    BY <2>3, <2>4, <2>5 DEF RunInv, StorePcs, WritingPcs
  <2>7. QED
    BY <1>2, <2>1, <2>3, <2>6, WithKeeps DEF LoadReads
<1>3. CASE LoadReads(r) /\ ~Loadable(r)
  BY <1>3, LeaveKeeps DEF LoadReads, Fail, IndInv, TypeOK
<1>4. CASE Observe(r)
  <2>1. PICK o \in Observations : With(r, [case[r] EXCEPT !.obs = o], "analyze")
    BY <1>4 DEF Observe
  <2> DEFINE c == [case[r] EXCEPT !.obs = o]
  <2>2. c \in Case /\ c.obs = o /\ "analyze" \in PCs \ WritingPcs
    BY <1>0 DEF Case, PCs, WritingPcs
  <2>3. case'[r] = c /\ pc'[r] = "analyze" /\ ~c.hit
    BY <1>0, <1>4, <2>1, <2>2, WithMoves DEF RunInv, Observe, Case
  <2>4. RunInv(r)'
    BY <2>2, <2>3 DEF RunInv, StorePcs, WritingPcs
  <2>5. QED
    BY <1>4, <2>1, <2>2, <2>4, WithKeeps DEF Observe
<1>5. QED
  BY <1>1, <1>2, <1>3, <1>4

LEMMA AnalyzeKeeps ==
    ASSUME IndInv, NEW r \in Runs, Analyze(r)
    PROVE  IndInv'
<1>1. RunInv(r) /\ case[r] \in Case /\ case[r].obs \in Observations
  BY DEF IndInv, RunInv, Analyze
<1>2. Judged(r) \in Keys \X Shapes \X Observations
  BY <1>1 DEF Judged, Case
<1>3. passed' \subseteq Keys \X Shapes \X Observations /\ passed \subseteq passed'
      /\ Judged(r) \in passed'
  BY <1>2 DEF Analyze, IndInv, TypeOK
<1>4. CASE case[r].hit
  <2>1. passed' = passed
    BY <1>1, <1>4 DEF RunInv, Analyze
  <2>2. QED
    BY <1>4, <2>1, LeaveKeeps DEF Analyze, IndInv, TypeOK
<1>5. CASE ~case[r].hit
  <2>1. Goto(r, "store") /\ "store" \in PCs \ WritingPcs
    BY <1>5 DEF Analyze, PCs, StorePcs, WritingPcs
  <2>2. pc'[r] = "store" /\ case' = case
    BY <2>1, GotoMoves
  <2>3. RunInv(r)'
    BY <1>1, <1>3, <2>2 DEF RunInv, StorePcs, WritingPcs, Judged
  <2>4. QED
    BY <1>3, <2>1, <2>3, GotoKeeps DEF Analyze
<1>6. QED
  BY <1>4, <1>5

LEMMA StoreLooksKeeps ==
    ASSUME IndInv, NEW r \in Runs, StoreLooks(r)
    PROVE  IndInv'
<1>1. RunInv(r)
  BY DEF IndInv
<1>2. CASE Entry(r) = Nothing
  <2>1. Goto(r, "create") /\ "create" \in PCs \ WritingPcs
    BY <1>2 DEF StoreLooks, PCs, StorePcs, WritingPcs
  <2>2. pc'[r] = "create" /\ case' = case
    BY <2>1, GotoMoves
  <2>3. RunInv(r)'
    BY <1>1, <2>2 DEF RunInv, StorePcs, WritingPcs, Judged, StoreLooks
  <2>4. QED
    BY <2>1, <2>3, GotoKeeps DEF StoreLooks, IndInv, TypeOK
<1>3. CASE Entry(r) # Nothing
  BY <1>3, LeaveKeeps DEF StoreLooks, IndInv, TypeOK
<1>4. QED
  BY <1>2, <1>3

\* A run that writes its own temporary file.
LEMMA WritesKeep ==
    ASSUME IndInv, NEW r \in Runs, NEW f \in File, NEW there \in WritingPcs,
           temp' = [temp EXCEPT ![Slot(r)] = f], Goto(r, there),
           f.shape = case[r].shape, f.obs = case[r].obs,
           there = "publish" => f.bytes = "synced",
           \/ pc[r] \in WritingPcs
           \/ pc[r] = "create" /\ temp[Slot(r)] = Nothing,
           UNCHANGED <<entry, faults, passed>>
    PROVE  IndInv'
<1>0. there \in PCs /\ pc[r] \in StorePcs /\ RunInv(r)
  BY DEF PCs, WritingPcs, StorePcs, IndInv
<1>1. /\ pc' \in [Runs -> PCs] /\ pc'[r] = there /\ case' = case
      /\ \A q \in Runs \ {r} : pc'[q] = pc[q]
  BY <1>0, GotoMoves
<1>2. case[r] \in Case /\ case[r].obs \in Observations /\ Judged(r) \in passed
  BY <1>0 DEF RunInv, StorePcs
<1>3. temp' \in [Keys \X Pids -> MaybeFile] /\ temp'[Slot(r)] = f
      /\ \A s \in Keys \X Pids : s # Slot(r) => temp'[s] = temp[s]
  BY <1>2, SlotIsSlot DEF IndInv, TypeOK, MaybeFile
<1>4. \A q \in Runs \ {r} : pc[q] \in WritingPcs => Slot(q) # Slot(r)
  <2> SUFFICES ASSUME NEW q \in Runs \ {r}, pc[q] \in WritingPcs, Slot(q) = Slot(r)
               PROVE  FALSE
    OBVIOUS
  <2>1. temp[Slot(r)] \in File
    BY DEF IndInv, RunInv
  <2>2. pc[r] \in WritingPcs
    BY <2>1
  <2>3. QED
    BY <2>2 DEF IndInv, OneWriterPerTemp, WritingPcs
<1>5. OneWriterPerTemp'
  BY <1>1, <1>4 DEF IndInv, OneWriterPerTemp, Slot, WritingPcs
<1>6. RunInv(r)'
  <2>1. Slot(r)' = Slot(r) /\ Judged(r)' = Judged(r)
    BY <1>1 DEF Slot, Judged
  <2>2. QED
    BY <1>1, <1>2, <1>3, <2>1 DEF RunInv, WritingPcs, StorePcs
<1>7. \A q \in Runs \ {r} : RunInv(q)'
  <2> SUFFICES ASSUME NEW q \in Runs \ {r} PROVE RunInv(q)'
    OBVIOUS
  <2>1. pc[q] \in WritingPcs => temp'[Slot(q)] = temp[Slot(q)]
    <3> SUFFICES ASSUME pc[q] \in WritingPcs PROVE temp'[Slot(q)] = temp[Slot(q)]
      OBVIOUS
    <3>1. case[q] \in Case
      BY DEF IndInv, RunInv, WritingPcs
    <3>2. QED
      BY <3>1, <1>3, <1>4, SlotIsSlot
  <2>2. QED
    BY <1>1, <2>1, OthersKeep
<1>8. TypeOK'
  BY <1>1, <1>3 DEF IndInv, TypeOK
<1>9. EntriesWereJudged'
  BY DEF IndInv, EntriesWereJudged
<1>10. QED
  BY <1>5, <1>6, <1>7, <1>8, <1>9 DEF IndInv

LEMMA StoreKeeps ==
    ASSUME IndInv, NEW r \in Runs, CreateTemp(r) \/ WriteTemp(r) \/ SyncTemp(r)
    PROVE  IndInv'
<1>0. RunInv(r) /\ pc[r] \in StorePcs
  BY DEF IndInv, CreateTemp, WriteTemp, SyncTemp, StorePcs
<1>1. case[r] \in Case /\ case[r].obs \in Observations /\ Slot(r) \in Keys \X Pids
  BY <1>0, SlotIsSlot DEF RunInv, StorePcs
<1>2. CASE CreateTemp(r) /\ temp[Slot(r)] = Nothing
  <2>1. Torn(r) \in File /\ Torn(r).shape = case[r].shape /\ Torn(r).obs = case[r].obs
    BY <1>1 DEF Torn, File, Case
  <2>2. QED
    BY <1>2, <2>1, WritesKeep DEF CreateTemp, WritingPcs
<1>3. CASE CreateTemp(r) /\ temp[Slot(r)] # Nothing
  BY <1>3, LeaveKeeps DEF CreateTemp, Fail, IndInv, TypeOK
<1>4. ASSUME NEW b \in {"written", "synced"}, NEW there \in {"sync", "publish"},
             pc[r] \in {"write", "sync"}, there = "publish" => b = "synced",
             temp' = [temp EXCEPT ![Slot(r)].bytes = b], Goto(r, there),
             UNCHANGED <<entry, faults, passed>>
      PROVE  IndInv'
  <2> DEFINE f == [temp[Slot(r)] EXCEPT !.bytes = b]
  <2>1. temp[Slot(r)] \in File /\ temp[Slot(r)].shape = case[r].shape
        /\ temp[Slot(r)].obs = case[r].obs
    BY <1>0, <1>4 DEF RunInv, WritingPcs
  <2>2. f \in File /\ f.shape = case[r].shape /\ f.obs = case[r].obs /\ f.bytes = b
    BY <2>1 DEF File
  <2>3. temp' = [temp EXCEPT ![Slot(r)] = f]
    BY <1>4
  <2>4. there \in WritingPcs /\ pc[r] \in WritingPcs
    BY <1>4 DEF WritingPcs
  <2>5. QED
    BY <1>4, <2>2, <2>3, <2>4, WritesKeep
<1>5. CASE WriteTemp(r)
  BY <1>4, <1>5 DEF WriteTemp
<1>6. CASE SyncTemp(r)
  BY <1>4, <1>6 DEF SyncTemp
<1>7. QED
  BY <1>2, <1>3, <1>5, <1>6

\* The temporary file goes, to the entry or for good.
LEMMA PublishKeeps ==
    ASSUME IndInv, NEW r \in Runs, Publish(r) \/ PublishFails(r)
    PROVE  IndInv'
<1>0. RunInv(r) /\ pc[r] = "publish" /\ Leave(r) /\ passed' = passed
  BY DEF IndInv, Publish, PublishFails
<1>1. case[r] \in Case /\ Judged(r) \in passed /\ Slot(r) \in Keys \X Pids
  BY <1>0, SlotIsSlot DEF RunInv, StorePcs
<1>2. /\ pc' \in [Runs -> PCs] /\ pc'[r] = "idle"
      /\ case' \in [Runs -> Case \cup {Nothing}]
      /\ \A q \in Runs \ {r} : pc'[q] = pc[q] /\ case'[q] = case[q]
  BY <1>0, LeaveMoves
<1>3. temp' = temp \/ temp' = [temp EXCEPT ![Slot(r)] = Nothing]
  BY DEF Publish, PublishFails
<1>4. temp' \in [Keys \X Pids -> MaybeFile]
      /\ \A s \in Keys \X Pids : s # Slot(r) => temp'[s] = temp[s]
  BY <1>1, <1>3 DEF IndInv, TypeOK, MaybeFile
<1>5. \A q \in Runs \ {r} : RunInv(q)'
  <2> SUFFICES ASSUME NEW q \in Runs \ {r} PROVE RunInv(q)'
    OBVIOUS
  <2>1. pc[q] \in WritingPcs => temp'[Slot(q)] = temp[Slot(q)]
    <3> SUFFICES ASSUME pc[q] \in WritingPcs PROVE temp'[Slot(q)] = temp[Slot(q)]
      OBVIOUS
    <3>1. Slot(q) # Slot(r)
      BY <1>0 DEF IndInv, OneWriterPerTemp, WritingPcs
    <3>2. case[q] \in Case
      BY DEF IndInv, RunInv, WritingPcs
    <3>3. QED
      BY <3>1, <3>2, <1>4, SlotIsSlot
  <2>2. QED
    BY <1>0, <1>2, <2>1, OthersKeep
<1>6. RunInv(r)'
  BY <1>2 DEF RunInv, StorePcs, WritingPcs
<1>7. OneWriterPerTemp'
  BY <1>2, ApartWhenQuiet DEF WritingPcs
<1>8. faults' \in 0..MaxFaults
  BY DEF IndInv, TypeOK, Publish, PublishFails
<1>9. entry' \in [Keys -> MaybeFile] /\ EntriesWereJudged'
  <2>1. CASE entry' = entry
    BY <1>0, <2>1 DEF IndInv, TypeOK, EntriesWereJudged
  <2>2. CASE entry' = [entry EXCEPT ![case[r].key] = temp[Slot(r)]]
    <3>1. /\ temp[Slot(r)] \in File /\ temp[Slot(r)].bytes = "synced"
          /\ <<case[r].key, temp[Slot(r)].shape, temp[Slot(r)].obs>> \in passed
      BY <1>0, <1>1 DEF RunInv, WritingPcs, Judged
    <3>2. entry' \in [Keys -> MaybeFile]
      BY <2>2, <3>1 DEF IndInv, TypeOK, MaybeFile
    <3>3. ASSUME NEW k \in Keys, entry'[k] # Nothing
          PROVE  /\ entry'[k].bytes = "synced"
                 /\ <<k, entry'[k].shape, entry'[k].obs>> \in passed'
      <4>1. CASE k = case[r].key
        BY <1>0, <2>2, <3>1, <4>1 DEF IndInv, TypeOK
      <4>2. CASE k # case[r].key
        BY <1>0, <2>2, <3>3, <4>2 DEF IndInv, TypeOK, EntriesWereJudged
      <4>3. QED
        BY <4>1, <4>2
    <3>4. QED
      BY <3>2, <3>3 DEF EntriesWereJudged
  <2>3. QED
    BY <2>1, <2>2 DEF Publish, PublishFails
<1>10. QED
  BY <1>0, <1>2, <1>4, <1>5, <1>6, <1>7, <1>8, <1>9 DEF IndInv, TypeOK

LEMMA PowerKeeps ==
    ASSUME IndInv, PowerFailure
    PROVE  IndInv'
<1>1. \A k \in Keys : entry'[k] = entry[k]
  BY DEF PowerFailure, AfterPower, IndInv, EntriesWereJudged
<1>2. TypeOK'
  BY DEF PowerFailure, IndInv, TypeOK, PCs
<1>3. \A r \in Runs : pc'[r] = "idle"
  BY DEF PowerFailure
<1>4. EntriesWereJudged'
  BY <1>1 DEF PowerFailure, IndInv, EntriesWereJudged
<1>5. OneWriterPerTemp' /\ \A r \in Runs : RunInv(r)'
  BY <1>3 DEF OneWriterPerTemp, RunInv, StorePcs, WritingPcs
<1>6. QED
  BY <1>2, <1>4, <1>5 DEF IndInv

-----------------------------------------------------------------------------
(***************************************************************************)
(* The theorems                                                            *)
(***************************************************************************)
LEMMA Initially == Init => IndInv
  BY DEF Init, IndInv, TypeOK, EntriesWereJudged, OneWriterPerTemp, RunInv,
         MaybeFile, PCs, StorePcs, WritingPcs

LEMMA StutterKeeps == IndInv /\ UNCHANGED vars => IndInv'
<1> SUFFICES ASSUME IndInv, UNCHANGED vars PROVE IndInv'
  OBVIOUS
<1>1. TypeOK' /\ EntriesWereJudged' /\ OneWriterPerTemp'
  BY DEF vars, IndInv, TypeOK, EntriesWereJudged, OneWriterPerTemp, Slot
<1>2. \A r \in Runs : RunInv(r)'
  BY DEF vars, IndInv, RunInv, Slot, Judged
<1>3. QED
  BY <1>1, <1>2 DEF IndInv

LEMMA NextKeeps == IndInv /\ [Next]_vars => IndInv'
<1> SUFFICES ASSUME IndInv, [Next]_vars PROVE IndInv'
  OBVIOUS
<1>1. ASSUME NEW r \in Runs, NEW k \in Keys, StartCase(r, k) PROVE IndInv'
  BY <1>1, StartKeeps
<1>2. ASSUME NEW r \in Runs, Step(r) PROVE IndInv'
  BY <1>2, LoadKeeps, AnalyzeKeeps, StoreLooksKeeps, StoreKeeps, PublishKeeps DEF Step
<1>3. ASSUME NEW r \in Runs, PublishFails(r) PROVE IndInv'
  BY <1>3, PublishKeeps
<1>4. ASSUME NEW r \in Runs, FailOrCrash(r) PROVE IndInv'
  BY <1>4, LeaveKeeps DEF FailOrCrash, Fail, IndInv, TypeOK
<1>5. CASE PowerFailure
  BY <1>5, PowerKeeps
<1>6. CASE UNCHANGED vars
  BY <1>6, StutterKeeps
<1>7. QED
  BY <1>1, <1>2, <1>3, <1>4, <1>5, <1>6 DEF Next

LEMMA Inductive == Spec => []IndInv
  BY Initially, NextKeeps, PTL DEF Spec

\* Every variable keeps its type.
THEOREM TypeCorrect == Spec => []TypeOK
<1>1. IndInv => TypeOK
  BY DEF IndInv
<1>2. QED
  BY Inductive, <1>1, PTL

\* However runs race, fail and stop, an entry in the cache is whole, safe from
\* a power failure, and was accepted by the estimator (load, store and
\* analyze_backend_case together).
THEOREM EntriesAreJudged == Spec => []EntriesWereJudged
<1>1. IndInv => EntriesWereJudged
  BY DEF IndInv
<1>2. QED
  BY Inductive, <1>1, PTL

\* What a hot run analyses, some cold run has analysed with success.
THEOREM HitsAreJudged == Spec => []HitsWereJudged
<1>1. IndInv => HitsWereJudged
  BY DEF IndInv, RunInv, HitsWereJudged
<1>2. QED
  BY Inductive, <1>1, PTL

\* Both together: neither what the cache holds nor what it serves was ever rejected.
THEOREM CacheStaysJudged == Spec => []CacheIsJudged
<1>1. EntriesWereJudged /\ HitsWereJudged => CacheIsJudged
  BY DEF CacheIsJudged
<1>2. QED
  BY <1>1, EntriesAreJudged, HitsAreJudged, PTL

\* No two runs write one temporary file, whatever their process ids.
THEOREM TempsHaveOneWriter == Spec => []OneWriterPerTemp
<1>1. IndInv => OneWriterPerTemp
  BY DEF IndInv
<1>2. QED
  BY Inductive, <1>1, PTL
=============================================================================
