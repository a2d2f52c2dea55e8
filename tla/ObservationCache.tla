-------------------------- MODULE ObservationCache --------------------------
(***************************************************************************)
(* The opt-in cache of backend observations that evaluation runs share:    *)
(* ObservationCache::load and ::store of                                   *)
(* crates/rhythm-map-eval/src/observation_cache.rs, and the only code that *)
(* calls them, analyze_backend_case of runner.rs.                          *)
(*                                                                         *)
(* A run is a process that analyses one case after another.  Runs share    *)
(* the directory without a lock; a run that fails or is killed leaves its  *)
(* temporary files, and a later run may be given its process id again.     *)
(***************************************************************************)
EXTENDS Naturals

CONSTANTS
    Runs,           \* evaluation processes that share the directory
    PidOf,          \* the process id of each: containers may give one to two
    Keys,           \* cache keys: audio, model pack, contract, decoder policy
    Shapes,         \* decoded sample rates and counts
    Observations,   \* what inference may return
    Nothing,        \* no file, or no observations yet
    MaxFaults       \* bound: failures of any kind in a behaviour

ASSUME PidAssumption == DOMAIN PidOf = Runs
ASSUME FaultsAssumption == MaxFaults \in Nat

VARIABLES
    entry,      \* <root>/v1/<dd>/<digest>.json
    temp,       \* <root>/v1/<dd>/.<digest>.<pid>.tmp
    pc,         \* where each run is in analyze_backend_case
    case,       \* the case it is at
    faults,     \* history: failures so far
    passed      \* history: what estimation accepted, by key and shape

vars == <<entry, temp, pc, case, faults, passed>>

Pids == {PidOf[r] : r \in Runs}

\* A file is torn until its last byte is written, and again after a power
\* failure that comes before its sync_all.
File == [shape : Shapes, obs : Observations,
         bytes : {"torn", "written", "synced"}]
MaybeFile == File \cup {Nothing}

ASSUME NothingAssumption == Nothing \notin File \cup Observations

Case == [key : Keys, shape : Shapes, hit : BOOLEAN,
         obs : Observations \cup {Nothing}]

StorePcs == {"store", "create", "write", "sync", "publish"}
PCs == {"idle", "load", "read", "observe", "analyze"} \cup StorePcs

Goto(r, there) == pc' = [pc EXCEPT ![r] = there] /\ UNCHANGED case
Leave(r) == /\ pc' = [pc EXCEPT ![r] = "idle"]
            /\ case' = [case EXCEPT ![r] = Nothing]
With(r, c, there) == /\ pc' = [pc EXCEPT ![r] = there]
                     /\ case' = [case EXCEPT ![r] = c]
Entry(r) == entry[case[r].key]
Slot(r) == <<case[r].key, PidOf[r]>>
Judged(r) == <<case[r].key, case[r].shape, case[r].obs>>

Init ==
    /\ entry = [k \in Keys |-> Nothing]
    /\ temp = [s \in Keys \X Pids |-> Nothing]
    /\ pc = [r \in Runs |-> "idle"]
    /\ case = [r \in Runs |-> Nothing]
    /\ faults = 0
    /\ passed = {}

-----------------------------------------------------------------------------
\* The next case of the run's suite, or the first of a new run.
StartCase(r, k) ==
    /\ pc[r] = "idle"
    /\ \E s \in Shapes :
          With(r, [key |-> k, shape |-> s, obs |-> Nothing, hit |-> FALSE],
               "load")
    /\ UNCHANGED <<entry, temp, faults, passed>>

\* An error leaves analyze_backend_case, the case loop and the process; no
\* destructor removes the temporary file.
Fail(r) == Leave(r) /\ UNCHANGED <<entry, temp, passed>>

\* load: try_exists.
LoadLooks(r) ==
    /\ pc[r] = "load"
    /\ Goto(r, IF Entry(r) = Nothing THEN "observe" ELSE "read")
    /\ UNCHANGED <<entry, temp, faults, passed>>

Loadable(r) == /\ Entry(r) # Nothing
               /\ Entry(r).bytes # "torn"
               /\ Entry(r).shape = case[r].shape

\* Mutant: the decoded shape is not compared.
LoadReadsAnyShape(r) ==
    /\ pc[r] = "read"
    /\ Entry(r) # Nothing
    /\ With(r, [case[r] EXCEPT !.obs = Entry(r).obs, !.hit = TRUE], "analyze")
    /\ UNCHANGED <<entry, temp, faults, passed>>

\* load: read, decode and compare.  An entry that cannot be read, is torn or
\* was made from other samples fails the case; it is not observed anew.
LoadReads(r) ==
    /\ pc[r] = "read"
    /\ \/ /\ Loadable(r)
          /\ With(r, [case[r] EXCEPT !.obs = Entry(r).obs, !.hit = TRUE],
                  "analyze")
          /\ UNCHANGED <<entry, temp, faults, passed>>
       \/ ~Loadable(r) /\ Fail(r) /\ UNCHANGED faults

\* backend.observe_mono on a miss.
Observe(r) ==
    /\ pc[r] = "observe"
    /\ \E o \in Observations : With(r, [case[r] EXCEPT !.obs = o], "analyze")
    /\ UNCHANGED <<entry, temp, faults, passed>>

\* Mutant: observations are stored before the estimator has seen them.
AnalyzeAfterStore(r) ==
    /\ pc[r] = "analyze"
    /\ IF case[r].hit THEN Leave(r) ELSE Goto(r, "store")
    /\ UNCHANGED <<entry, temp, faults, passed>>

\* observe_pcm and analyze_observations on the raw observations, hit or miss.
Analyze(r) ==
    /\ pc[r] = "analyze"
    /\ passed' = passed \cup {Judged(r)}
    /\ IF case[r].hit THEN Leave(r) ELSE Goto(r, "store")
    /\ UNCHANGED <<entry, temp, faults>>

-----------------------------------------------------------------------------
\* store: try_exists; another run's entry is kept, whatever it holds.
StoreLooks(r) ==
    /\ pc[r] = "store"
    /\ IF Entry(r) = Nothing THEN Goto(r, "create") ELSE Leave(r)
    /\ UNCHANGED <<entry, temp, faults, passed>>

Torn(r) == [shape |-> case[r].shape, obs |-> case[r].obs, bytes |-> "torn"]

\* Mutant: one temporary name for every process, the first one's.
CreateTempShared(r) ==
    /\ pc[r] = "create"
    /\ \/ /\ \A p \in Pids : temp[<<case[r].key, p>>] = Nothing
          /\ temp' = [temp EXCEPT ![Slot(r)] = Torn(r)]
          /\ Goto(r, "write")
          /\ UNCHANGED <<entry, faults, passed>>
       \/ /\ \E p \in Pids : temp[<<case[r].key, p>>] # Nothing
          /\ Fail(r) /\ UNCHANGED faults

\* store: create_dir_all and create_new; a file of that name fails the case.
CreateTemp(r) ==
    /\ pc[r] = "create"
    /\ \/ /\ temp[Slot(r)] = Nothing
          /\ temp' = [temp EXCEPT ![Slot(r)] = Torn(r)]
          /\ Goto(r, "write")
          /\ UNCHANGED <<entry, faults, passed>>
       \/ temp[Slot(r)] # Nothing /\ Fail(r) /\ UNCHANGED faults

WriteTemp(r) ==
    /\ pc[r] = "write"
    /\ temp' = [temp EXCEPT ![Slot(r)].bytes = "written"]
    /\ Goto(r, "sync")
    /\ UNCHANGED <<entry, faults, passed>>

SyncTemp(r) ==
    /\ pc[r] = "sync"
    /\ temp' = [temp EXCEPT ![Slot(r)].bytes = "synced"]
    /\ Goto(r, "publish")
    /\ UNCHANGED <<entry, faults, passed>>

\* The rename replaces an entry that another run published meanwhile.
Publish(r) ==
    /\ pc[r] = "publish"
    /\ entry' = [entry EXCEPT ![case[r].key] = temp[Slot(r)]]
    /\ temp' = [temp EXCEPT ![Slot(r)] = Nothing]
    /\ Leave(r)
    /\ UNCHANGED <<faults, passed>>

\* A rename that fails (another process holds the entry open on Windows) over
\* an entry that exists is a lost race: the case succeeds.
PublishFails(r) ==
    /\ pc[r] = "publish"
    /\ faults < MaxFaults /\ faults' = faults + 1
    /\ Leave(r)
    /\ temp' = IF Entry(r) = Nothing THEN temp
               ELSE [temp EXCEPT ![Slot(r)] = Nothing]
    /\ UNCHANGED <<entry, passed>>

-----------------------------------------------------------------------------
\* A failing system call, inference or estimate, and a killed run, end alike.
FailOrCrash(r) ==
    /\ pc[r] # "idle"
    /\ faults < MaxFaults /\ faults' = faults + 1
    /\ Fail(r)

\* A file is lost or torn unless it was synced.
AfterPower(f) == IF f = Nothing \/ f.bytes = "synced" THEN {f}
                 ELSE {Nothing, [f EXCEPT !.bytes = "torn"]}

PowerFailure ==
    /\ faults < MaxFaults /\ faults' = faults + 1
    /\ pc' = [r \in Runs |-> "idle"]
    /\ case' = [r \in Runs |-> Nothing]
    /\ temp' \in {t \in [Keys \X Pids -> MaybeFile] :
                     \A s \in Keys \X Pids : t[s] \in AfterPower(temp[s])}
    /\ entry' \in {e \in [Keys -> MaybeFile] :
                     \A k \in Keys : e[k] \in AfterPower(entry[k])}
    /\ UNCHANGED passed

Step(r) == \/ LoadLooks(r) \/ LoadReads(r) \/ Observe(r) \/ Analyze(r)
           \/ StoreLooks(r) \/ CreateTemp(r) \/ WriteTemp(r) \/ SyncTemp(r)
           \/ Publish(r)

Next == \/ \E r \in Runs : \/ \E k \in Keys : StartCase(r, k)
                           \/ Step(r) \/ PublishFails(r) \/ FailOrCrash(r)
        \/ PowerFailure

Spec == Init /\ [][Next]_vars

\* The scheduler runs every process, and every run comes back to every case.
FairSpec == /\ Spec
            /\ \A r \in Runs : WF_vars(Step(r))
            /\ \A r \in Runs, k \in Keys : SF_vars(StartCase(r, k))
-----------------------------------------------------------------------------
TypeOK ==
    /\ entry \in [Keys -> MaybeFile]
    /\ temp \in [Keys \X Pids -> MaybeFile]
    /\ pc \in [Runs -> PCs]
    /\ case \in [Runs -> Case \cup {Nothing}]
    /\ faults \in 0..MaxFaults
    /\ passed \subseteq Keys \X Shapes \X Observations

\* Every entry is whole, can no longer be lost, and holds observations that
\* the estimator accepted for that key and shape, whatever runs raced for it
\* and wherever they stopped ("only after they pass deterministic estimation",
\* evaluation/README.md).
EntriesWereJudged ==
    \A k \in Keys : entry[k] # Nothing =>
        /\ entry[k].bytes = "synced"
        /\ <<k, entry[k].shape, entry[k].obs>> \in passed

\* A hot run analyses only what some cold run accepted for samples of the
\* same decoded shape.
HitsWereJudged ==
    \A r \in Runs : pc[r] = "analyze" /\ case[r].hit => Judged(r) \in passed

\* What the cache holds and what it serves: both are what the estimator accepted.
CacheIsJudged == EntriesWereJudged /\ HitsWereJudged

\* Two runs never write one temporary file, even when their containers gave
\* them one process id.
OneWriterPerTemp ==
    \A r, s \in Runs :
        /\ pc[r] \in {"write", "sync", "publish"}
        /\ pc[s] \in {"write", "sync", "publish"}
        /\ Slot(r) = Slot(s)
        => r = s

\* Once failures stop, a key that keeps being asked for is cached for good,
\* unless every process id has a temporary file left over for it: nothing
\* removes one, and its pid can then never store that key.
CachedOrBlocked ==
    \A k \in Keys : \/ <>[](entry[k] # Nothing)
                    \/ <>[](\A p \in Pids : temp[<<k, p>>] # Nothing)
=============================================================================
