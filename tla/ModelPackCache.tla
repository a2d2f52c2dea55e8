--------------------------- MODULE ModelPackCache ---------------------------
(***************************************************************************)
(* The on-disk cache of model packs: ModelPackCache::fetch and ::verify of *)
(* crates/rhythm-map-models/src/cache.rs, run by any number of threads or  *)
(* processes ("callers") over one cache root, with no lock between them.   *)
(*                                                                         *)
(* One manifest is modelled.  An entry's directory is named by the SHA-256 *)
(* of its manifest, so calls for two manifests share only the parent       *)
(* directory, which is created once and never removed.                     *)
(*                                                                         *)
(* A step is one group of system calls on one path; between two steps any  *)
(* other caller, the operating system or an outsider may act.              *)
(***************************************************************************)
EXTENDS Integers, FiniteSets

CONSTANTS
    Callers,        \* threads or processes that call fetch or verify
    NumArtifacts,   \* artifacts the manifest lists
    MaxCrashes,     \* bound: crashes and power failures in a behaviour
    Faults          \* which failures and outside acts may happen

\* What can go wrong: "bytes" a complete download with the wrong content,
\* "network" a failed or interrupted one, "io" a failing system call, "crash"
\* a killed caller, "power" a power failure; and what others may do at the
\* entry's path: "mkdir" an empty directory, "place" a link or a plain file,
\* "write" change, add or delete a file of the entry, "remove" delete it all.
FaultKinds == {"bytes", "network", "io", "crash", "power",
               "mkdir", "place", "write", "remove"}

ASSUME ArtifactsAssumption == NumArtifacts \in Nat \ {0}
ASSUME CrashesAssumption == MaxCrashes \in Nat
ASSUME FaultsAssumption == Faults \subseteq FaultKinds
ASSUME CallersAssumption == IsFiniteSet(Callers)

VARIABLES
    parent,     \* <root>/model-packs
    entry,      \* <root>/model-packs/<sha256 of the manifest>
    stage,      \* each caller's private .download-XXXXXX directory
    pc,         \* where each caller is
    next,       \* the artifact its loop is at
    answer,     \* what its call returns, or returned last
    crashes,    \* history: crashes and power failures so far
    tampered    \* history: an outsider has acted at the entry's path

vars == <<parent, entry, stage, pc, next, answer, crashes, tampered>>

-----------------------------------------------------------------------------
(***************************************************************************)
(* Directories.  File 0 is manifest.json, file i the i-th artifact.  A     *)
(* file is "good" when its bytes are those the manifest names.  `dirty' is *)
(* the set of files whose bytes a power failure can still lose; a rename   *)
(* of the directory is durable once none is left.                          *)
(***************************************************************************)
Artifact == 1..NumArtifacts
Files == 0..NumArtifacts
FileState == {"absent", "good", "bad", "link"}
Directory == [kind : {"absent", "dir", "other"},
              file : [Files -> FileState],
              dirty : SUBSET Files]

NoDir == [kind |-> "absent", file |-> [f \in Files |-> "absent"], dirty |-> {}]
EmptyDir == [NoDir EXCEPT !.kind = "dir"]
NotADir == [NoDir EXCEPT !.kind = "other"]

Exists(d) == d.kind # "absent"
IsEmpty(d) == d.kind = "dir" /\ \A f \in Files : d.file[f] = "absent"
Complete(d) == d.kind = "dir" /\ \A f \in Files : d.file[f] = "good"

-----------------------------------------------------------------------------
(***************************************************************************)
(* Program counters, in the order of fetch_with and of verify.             *)
(***************************************************************************)
StagePcs == {"copy", "check", "write_manifest", "verify_stage", "recheck",
             "rename", "raced"}
VerifyPcs == {"verify_dirs", "verify_manifest", "verify_links", "verify_files"}
PCs == {"idle", "ensure_parent", "lookup", "make_stage", "return"}
          \cup StagePcs \cup VerifyPcs

Goto(p, there) == pc' = [pc EXCEPT ![p] = there]

\* An early return: the answer is fixed, TempDir's drop is still to run.
ReturnErr(p) ==
    /\ Goto(p, "return")
    /\ answer' = [answer EXCEPT ![p] = "err"]

Init ==
    /\ parent \in {"absent", "dir", "link"}
    /\ entry = NoDir
    /\ stage = [p \in Callers |-> NoDir]
    /\ pc = [p \in Callers |-> "idle"]
    /\ next = [p \in Callers |-> 1]
    /\ answer = [p \in Callers |-> "none"]
    /\ crashes = 0
    /\ tampered = FALSE

-----------------------------------------------------------------------------
(***************************************************************************)
(* fetch                                                                   *)
(***************************************************************************)
Begin(p, there) ==
    /\ pc[p] = "idle"
    /\ Goto(p, there)
    /\ answer' = [answer EXCEPT ![p] = "none"]
    /\ UNCHANGED <<parent, entry, stage, next, crashes, tampered>>

CallFetch(p) == Begin(p, "ensure_parent")
CallVerify(p) == Begin(p, "verify_dirs")

\* create_dir_all(root), then create_dir(model-packs), which may exist already.
EnsureParent(p) ==
    /\ pc[p] = "ensure_parent"
    /\ \/ /\ parent # "link"
          /\ parent' = "dir"
          /\ Goto(p, "lookup")
          /\ UNCHANGED answer
       \/ /\ parent = "link"
          /\ ReturnErr(p)
          /\ UNCHANGED parent
    /\ UNCHANGED <<entry, stage, next, crashes, tampered>>

\* Mutant: a corrupt entry is downloaded anew.
LookupRepairs(p) ==
    /\ pc[p] = "lookup"
    /\ Goto(p, IF Complete(entry) THEN "verify_dirs" ELSE "make_stage")
    /\ UNCHANGED <<parent, entry, stage, next, answer, crashes, tampered>>

\* Whatever is at the entry's path is verified, never downloaded over.
Lookup(p) ==
    /\ pc[p] = "lookup"
    /\ Goto(p, IF Exists(entry) THEN "verify_dirs" ELSE "make_stage")
    /\ UNCHANGED <<parent, entry, stage, next, answer, crashes, tampered>>

\* Mutant: a retry goes on with the artifact the last attempt failed at.
MakeStageResumes(p) ==
    /\ pc[p] = "make_stage"
    /\ stage' = [stage EXCEPT ![p] = EmptyDir]
    /\ Goto(p, "copy")
    /\ UNCHANGED <<parent, entry, next, answer, crashes, tampered>>

MakeStage(p) ==
    /\ pc[p] = "make_stage"
    /\ stage' = [stage EXCEPT ![p] = EmptyDir]
    /\ next' = [next EXCEPT ![p] = 1]
    /\ Goto(p, "copy")
    /\ UNCHANGED <<parent, entry, answer, crashes, tampered>>

\* Mutant: sync_all is missing.
CopyUnsynced(p) ==
    /\ pc[p] = "copy"
    /\ stage' = [stage EXCEPT ![p].file[next[p]] = "good", ![p].dirty = @ \cup {next[p]}]
    /\ Goto(p, "check")
    /\ UNCHANGED <<parent, entry, next, answer, crashes, tampered>>

\* Open the URL, stream at most size + 1 bytes into a new file, sync it.
\* A short, long or different stream is "bad": the length and digest differ.
Copy(p) ==
    /\ pc[p] = "copy"
    /\ \/ \E bytes \in {"good"} \cup (IF "bytes" \in Faults THEN {"bad"} ELSE {}) :
            stage' = [stage EXCEPT ![p].file[next[p]] = bytes]
          /\ Goto(p, "check")
          /\ UNCHANGED answer
       \/ /\ "network" \in Faults
          /\ ReturnErr(p)
          /\ UNCHANGED stage
    /\ UNCHANGED <<parent, entry, next, crashes, tampered>>

\* artifact.verify_file(path) in the stage.
CheckArtifact(p) ==
    /\ pc[p] = "check"
    /\ \/ /\ stage[p].file[next[p]] = "good"
          /\ IF next[p] < NumArtifacts
             THEN /\ next' = [next EXCEPT ![p] = @ + 1]
                  /\ Goto(p, "copy")
             ELSE /\ Goto(p, "write_manifest")
                  /\ UNCHANGED next
          /\ UNCHANGED answer
       \/ /\ stage[p].file[next[p]] # "good"
          /\ ReturnErr(p)
          /\ UNCHANGED next
    /\ UNCHANGED <<parent, entry, stage, crashes, tampered>>

\* fs::write, which does not sync: the manifest's bytes stay in memory.
WriteManifest(p) ==
    /\ pc[p] = "write_manifest"
    /\ stage' = [stage EXCEPT ![p].file[0] = "good", ![p].dirty = @ \cup {0}]
    /\ Goto(p, "verify_stage")
    /\ UNCHANGED <<parent, entry, next, answer, crashes, tampered>>

\* verify_model_pack_bytes over the whole stage.
VerifyStage(p) ==
    /\ pc[p] = "verify_stage"
    /\ \/ /\ \A a \in Artifact : stage[p].file[a] = "good"
          /\ Goto(p, "recheck")
          /\ UNCHANGED answer
       \/ /\ \E a \in Artifact : stage[p].file[a] # "good"
          /\ ReturnErr(p)
    /\ UNCHANGED <<parent, entry, stage, next, crashes, tampered>>

\* The second symlink_metadata.  Its error counts as "nothing there".
Recheck(p) ==
    /\ pc[p] = "recheck"
    /\ \/ Exists(entry) /\ Goto(p, "verify_dirs")
       \/ (~Exists(entry) \/ "io" \in Faults) /\ Goto(p, "rename")
    /\ UNCHANGED <<parent, entry, stage, next, answer, crashes, tampered>>

\* rename(2) of a directory replaces nothing but an empty directory.
Publish(p) ==
    /\ pc[p] = "rename"
    /\ \/ /\ ~Exists(entry) \/ IsEmpty(entry)
          /\ entry' = stage[p]
          /\ stage' = [stage EXCEPT ![p] = NoDir]
          /\ Goto(p, "verify_dirs")
       \/ /\ Exists(entry) /\ ~IsEmpty(entry)
          /\ Goto(p, "raced")
          /\ UNCHANGED <<entry, stage>>
    /\ UNCHANGED <<parent, next, answer, crashes, tampered>>

\* Mutant: a lost race is an error.
ResolveRaceFails(p) ==
    /\ pc[p] = "raced"
    /\ ReturnErr(p)
    /\ UNCHANGED <<parent, entry, stage, next, crashes, tampered>>

\* directory.exists() after a failed rename; it is false for a dangling link.
ResolveRace(p) ==
    /\ pc[p] = "raced"
    /\ \/ /\ Exists(entry)
          /\ Goto(p, "verify_dirs")
          /\ UNCHANGED answer
       \/ /\ entry.kind # "dir"
          /\ ReturnErr(p)
    /\ UNCHANGED <<parent, entry, stage, next, crashes, tampered>>

-----------------------------------------------------------------------------
(***************************************************************************)
(* verify, called by itself or as the last part of fetch                   *)
(***************************************************************************)
\* One check of verify: go on to the next one, or return the error.
Examine(p, here, good, there) ==
    /\ pc[p] = here
    /\ \/ good /\ Goto(p, there) /\ UNCHANGED answer
       \/ ~good /\ ReturnErr(p)
    /\ UNCHANGED <<parent, entry, stage, crashes, tampered>>

\* reject_link of model-packs and of the entry.  (A plain file passes
\* reject_link and fails at the next call; both return an error.)
VerifyDirs(p) ==
    /\ Examine(p, "verify_dirs", parent = "dir" /\ entry.kind = "dir",
               "verify_manifest")
    /\ UNCHANGED next

\* Mutant: the stored manifest is not compared with the trusted one.
VerifyManifestThere(p) ==
    /\ Examine(p, "verify_manifest", entry.file[0] # "absent", "verify_links")
    /\ UNCHANGED next

\* reject_link and read of manifest.json, compared with the trusted bytes.
VerifyManifest(p) ==
    /\ Examine(p, "verify_manifest", entry.file[0] = "good", "verify_links")
    /\ UNCHANGED next

\* reject_link of artifacts/ and of every part of every artifact's path.
VerifyLinks(p) ==
    /\ Examine(p, "verify_links",
               \A a \in Artifact : entry.file[a] \notin {"absent", "link"},
               "verify_files")
    /\ next' = [next EXCEPT ![p] = 1]

\* verify_model_pack_bytes over the entry, one artifact a step.
VerifyFile(p) ==
    /\ pc[p] = "verify_files"
    /\ \/ /\ entry.file[next[p]] = "good"
          /\ next[p] < NumArtifacts
          /\ next' = [next EXCEPT ![p] = @ + 1]
          /\ UNCHANGED <<pc, answer>>
       \/ /\ entry.file[next[p]] = "good"
          /\ next[p] = NumArtifacts
          /\ Goto(p, "return")
          /\ answer' = [answer EXCEPT ![p] = "ok"]
          /\ UNCHANGED next
       \/ /\ entry.file[next[p]] # "good"
          /\ ReturnErr(p)
          /\ UNCHANGED next
    /\ UNCHANGED <<parent, entry, stage, crashes, tampered>>

\* TempDir's drop removes the stage, if it was not renamed, on every return.
Return(p) ==
    /\ pc[p] = "return"
    /\ Goto(p, "idle")
    /\ stage' = [stage EXCEPT ![p] = NoDir]
    /\ UNCHANGED <<parent, entry, next, answer, crashes, tampered>>

-----------------------------------------------------------------------------
(***************************************************************************)
(* Failures and outsiders                                                  *)
(***************************************************************************)
\* A system call other than the downloads' fails.  fetch asks `exists' when
\* it was the rename; all the others return through `?'.
IoError(p) ==
    /\ "io" \in Faults
    /\ pc[p] \notin {"idle", "copy", "recheck", "return"}
    /\ \/ /\ pc[p] = "rename"
          /\ Goto(p, "raced")
          /\ UNCHANGED answer
       \/ /\ pc[p] # "rename"
          /\ ReturnErr(p)
    /\ UNCHANGED <<parent, entry, stage, next, crashes, tampered>>

\* The callers in S die: no drop runs, and their stages stay on the disk as
\* orphans under names nobody looks up again.
Die(S) ==
    /\ crashes < MaxCrashes
    /\ crashes' = crashes + 1
    /\ pc' = [p \in Callers |-> IF p \in S THEN "idle" ELSE pc[p]]
    /\ answer' = [p \in Callers |-> IF p \in S THEN "none" ELSE answer[p]]
    /\ stage' = [p \in Callers |-> IF p \in S THEN NoDir ELSE stage[p]]
    /\ UNCHANGED <<next, tampered>>

Crash(p) ==
    /\ "crash" \in Faults
    /\ pc[p] # "idle"
    /\ Die({p})
    /\ UNCHANGED <<parent, entry>>

\* Everybody dies; a publication that is not on the disk yet may be lost as a
\* whole, or keep its name and lose the bytes of the files never synced.
PowerFailure ==
    /\ "power" \in Faults
    /\ Die(Callers)
    /\ \/ \E lost \in SUBSET entry.dirty :
            entry' = [entry EXCEPT
                        !.file = [f \in Files |-> IF f \in lost THEN "bad" ELSE @[f]],
                        !.dirty = {}]
       \/ entry.dirty # {} /\ entry' = NoDir
    /\ UNCHANGED parent

\* The operating system writes back what was not synced.
WriteBack ==
    /\ entry.dirty # {}
    /\ entry' = [entry EXCEPT !.dirty = {}]
    /\ UNCHANGED <<parent, stage, pc, next, answer, crashes, tampered>>

\* An outsider acts at the entry's path and leaves d there.
Tamper(kind, d) ==
    /\ kind \in Faults
    /\ parent = "dir"
    /\ entry' = d
    /\ tampered' = TRUE
    /\ UNCHANGED <<parent, stage, pc, next, answer, crashes>>

Outsider ==
    \/ ~Exists(entry) /\ Tamper("mkdir", EmptyDir)
    \/ ~Exists(entry) /\ Tamper("place", NotADir)
    \/ /\ entry.kind = "dir"
       /\ \E f \in Files, s \in FileState :
            Tamper("write", [entry EXCEPT !.file[f] = s, !.dirty = @ \ {f}])
    \/ Exists(entry) /\ Tamper("remove", NoDir)

-----------------------------------------------------------------------------
\* The steps of fetch_with and verify themselves.
Work(p) ==
    \/ EnsureParent(p) \/ Lookup(p) \/ MakeStage(p)
    \/ Copy(p) \/ CheckArtifact(p) \/ WriteManifest(p) \/ VerifyStage(p)
    \/ Recheck(p) \/ Publish(p) \/ ResolveRace(p)
    \/ VerifyDirs(p) \/ VerifyManifest(p) \/ VerifyLinks(p) \/ VerifyFile(p)
    \/ Return(p)
Step(p) == Work(p) \/ IoError(p)

Next ==
    \/ \E p \in Callers : CallFetch(p) \/ CallVerify(p) \/ Step(p) \/ Crash(p)
    \/ PowerFailure
    \/ WriteBack
    \/ Outsider

Spec == Init /\ [][Next]_vars

\* A call that runs keeps running: the operating system schedules it, and
\* the agent's timeouts end a download that hangs.
Fairness == \A p \in Callers : WF_vars(Step(p))

\* The callers come back to fetch again and again, and a download that is
\* tried again and again succeeds some time.
Download(p, a) ==
    next[p] = a /\ Copy(p) /\ stage'[p].file[a] = "good"
Persistence ==
    \A p \in Callers :
        SF_vars(CallFetch(p)) /\ \A a \in Artifact : SF_vars(Download(p, a))
\* Installing, where only downloads and processes fail.
PersistentNext ==
    \/ \E p \in Callers : CallFetch(p) \/ CallVerify(p) \/ Work(p) \/ Crash(p)
    \/ WriteBack
PersistentSpec == Init /\ [][PersistentNext]_vars /\ Fairness /\ Persistence

-----------------------------------------------------------------------------
(***************************************************************************)
(* Properties                                                              *)
(***************************************************************************)
\* Every variable keeps its type.
TypeOK ==
    /\ parent \in {"absent", "dir", "link"}
    /\ entry \in Directory
    /\ stage \in [Callers -> Directory]
    /\ pc \in [Callers -> PCs]
    /\ next \in [Callers -> Artifact]
    /\ answer \in [Callers -> {"none", "ok", "err"}]
    /\ crashes \in 0..MaxCrashes
    /\ tampered \in BOOLEAN

\* An entry nobody but the callers touched holds every artifact with the
\* locked bytes, whatever downloads, calls, crashes and power failures did.
\* (cache.rs:70 "published only after every digest passes".)
PublishedArtifacts ==
    ~tampered /\ Exists(entry) =>
        /\ entry.kind = "dir"
        /\ \A a \in Artifact : entry.file[a] = "good"

\* A caller that was told Ok finds the whole pack there, as long as nobody but
\* the callers touched it.
OkMeansInstalled ==
    \A p \in Callers : ~tampered /\ answer[p] = "ok" => Complete(entry)

\* A call that has returned, on whichever of its paths, leaves no stage.
\* (second_file_failure_leaves_no_partial_pack, cache.rs:247.)
NoStageLeftBehind ==
    \A p \in Callers : pc[p] = "idle" => ~Exists(stage[p])

\* Whatever outsiders do, a caller changes the entry only from nothing, or
\* from an empty directory, to the complete pack: a corrupt, partial, foreign
\* or published entry is never overwritten.
NonemptyEntryUntouched ==
    [][\A p \in Callers : Step(p) =>
          \/ entry' = entry
          \/ (~Exists(entry) \/ IsEmpty(entry)) /\ Complete(entry')]_vars

\* cache.rs:138: "Do not replace an entry (even an empty/incomplete one) that
\* appeared while this download was in flight."
NoEntryReplaced ==
    [][\A p \in Callers : Step(p) /\ Exists(entry) => entry' = entry]_vars

\* While the whole pack is in place no call fails but by its own download: the one that
\* publishes, those that lose the race at either check or at the rename, and later ones.
\* (concurrent_fetches_publish_one_valid_pack, cache.rs:381.)
CompleteEntryServes ==
    [][\A p \in Callers :
          Complete(entry) /\ parent = "dir" /\ answer[p] = "none" /\ pc[p] \notin {"copy", "check"}
            => answer'[p] # "err"]_vars

\* With persistent callers the pack is installed in the end, and stays.
EventuallyInstalled == parent # "link" => <>[]Complete(entry)
=============================================================================
