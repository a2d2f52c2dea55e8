------------------------ MODULE ModelPackCache_proofs ------------------------
(***************************************************************************)
(* Proofs about the model-pack cache, for any set of callers, any number   *)
(* of artifacts, any bound on crashes and any set of faults: what the      *)
(* protocol keeps, that it implements the write-once store, and what a     *)
(* call may rely on while outsiders change the entry.                      *)
(***************************************************************************)
EXTENDS ModelPackCacheAudit, TLAPS

USE ArtifactsAssumption

\* Where every artifact of the stage has been checked, and where the manifest
\* has been written as well.
CheckedPcs == {"write_manifest", "verify_stage", "recheck", "rename", "raced"}
PackedPcs == CheckedPcs \ {"write_manifest"}

\* What a caller at `here', with its loop at artifact i, knows of its stage d.
Staged(here, d, i) ==
    /\ here = "idle" => d = NoDir
    /\ here \in StagePcs => d.kind = "dir" /\ d.dirty \subseteq {0}
    /\ here \in {"copy", "check"} => \A a \in Artifact : a < i => d.file[a] = "good"
    /\ here \in CheckedPcs => \A a \in Artifact : d.file[a] = "good"
    /\ here \in PackedPcs => d.file[0] = "good"

StageInv == \A p \in Callers : Staged(pc[p], stage[p], next[p])

\* What an untouched entry holds; only its manifest can still be lost.
EntryInv ==
    /\ ~Exists(entry) => entry = NoDir
    /\ PublishedArtifacts
    /\ ~tampered => entry.dirty \subseteq {0}

\* What the reads of verify, and its answer, say of an untouched entry.
AnswerInv ==
    ~tampered => \A p \in Callers :
        pc[p] \in {"verify_links", "verify_files"} \/ answer[p] = "ok" => Complete(entry)

\* A call about to return has its answer.
ReturnInv == \A p \in Callers : pc[p] = "return" => answer[p] # "none"

IndInv == TypeOK /\ StageInv /\ EntryInv /\ AnswerInv /\ ReturnInv

-----------------------------------------------------------------------------
(***************************************************************************)
(* Directories                                                             *)
(***************************************************************************)
LEMMA FilesFacts == 0 \in Files /\ Artifact \subseteq Files
                    /\ (\A f \in Files : f = 0 \/ f \in Artifact)
  BY DEF Files, Artifact

LEMMA DirectoryFacts ==
    /\ NoDir \in Directory
    /\ EmptyDir \in Directory
    /\ NotADir \in Directory
    /\ ~Exists(NoDir) /\ ~Complete(NoDir)
    /\ EmptyDir.kind = "dir" /\ EmptyDir.dirty = {}
  BY DEF NoDir, EmptyDir, NotADir, Directory, FileState, Exists, Complete

LEMMA FileUpdate ==
    ASSUME NEW d \in Directory, NEW f \in Files, NEW s \in FileState
    PROVE  /\ [d EXCEPT !.file[f] = s] \in Directory
           /\ [d EXCEPT !.file[f] = s, !.dirty = @ \ {f}] \in Directory
  BY DEF Directory

LEMMA LostBytes ==
    ASSUME NEW d \in Directory, NEW lost
    PROVE  [d EXCEPT
              !.file = [f \in Files |-> IF f \in lost THEN "bad" ELSE @[f]],
              !.dirty = {}] \in Directory
<1> DEFINE file == [f \in Files |-> IF f \in lost THEN "bad" ELSE d.file[f]]
<1>1. file \in [Files -> FileState]
  BY DEF Directory, FileState
<1>2. QED
  BY <1>1 DEF Directory

LEMMA CompleteIsNotEmpty ==
    ASSUME NEW d, Complete(d)
    PROVE  Exists(d) /\ ~IsEmpty(d)
  BY FilesFacts DEF Complete, Exists, IsEmpty

-----------------------------------------------------------------------------
(***************************************************************************)
(* Types                                                                   *)
(***************************************************************************)
LEMMA InitTypeOK == Init => TypeOK
<1> SUFFICES ASSUME Init PROVE TypeOK
  OBVIOUS
<1>1. 1 \in Artifact /\ 0 \in 0..MaxCrashes
  BY CrashesAssumption DEF Artifact
<1>2. QED
  BY <1>1, DirectoryFacts DEF Init, TypeOK, PCs

LEMMA NextTypeOK == TypeOK /\ [Next]_vars => TypeOK'
<1> SUFFICES ASSUME TypeOK, [Next]_vars PROVE TypeOK'
  OBVIOUS
<1> USE DEF TypeOK
<1>1. ASSUME NEW p \in Callers, CallFetch(p) \/ CallVerify(p) PROVE TypeOK'
  BY <1>1 DEF CallFetch, CallVerify, Begin, Goto, PCs, VerifyPcs
<1>2. ASSUME NEW p \in Callers, EnsureParent(p) PROVE TypeOK'
  BY <1>2 DEF EnsureParent, Goto, ReturnErr, PCs
<1>3. ASSUME NEW p \in Callers, Lookup(p) PROVE TypeOK'
  BY <1>3 DEF Lookup, Goto, PCs, VerifyPcs
<1>4. ASSUME NEW p \in Callers, MakeStage(p) PROVE TypeOK'
  BY <1>4, DirectoryFacts DEF MakeStage, Goto, PCs, StagePcs, Artifact
<1>5. ASSUME NEW p \in Callers, Copy(p) PROVE TypeOK'
  <2>1. /\ pc' \in [Callers -> PCs]
        /\ answer' \in [Callers -> {"none", "ok", "err"}]
    BY <1>5 DEF Copy, Goto, ReturnErr, PCs, StagePcs
  <2>2. next[p] \in Files
    BY FilesFacts
  <2>3. CASE stage' = stage
    BY <1>5, <2>1, <2>3 DEF Copy
  <2>4. ASSUME NEW bytes \in {"good", "bad"},
               stage' = [stage EXCEPT ![p].file[next[p]] = bytes]
        PROVE stage' \in [Callers -> Directory]
    <3>1. [stage[p] EXCEPT !.file[next[p]] = bytes] \in Directory
      BY <2>2, FileUpdate DEF FileState
    <3>2. QED
      BY <2>4, <3>1
  <2>5. QED
    BY <1>5, <2>1, <2>3, <2>4 DEF Copy
<1>6. ASSUME NEW p \in Callers, CheckArtifact(p) PROVE TypeOK'
  BY <1>6 DEF CheckArtifact, Goto, ReturnErr, PCs, StagePcs, Artifact
<1>7. ASSUME NEW p \in Callers, WriteManifest(p) PROVE TypeOK'
  <2>1. [stage[p] EXCEPT !.file[0] = "good", !.dirty = @ \cup {0}] \in Directory
    BY FilesFacts DEF Directory, FileState
  <2>2. stage' \in [Callers -> Directory]
    BY <1>7, <2>1 DEF WriteManifest
  <2>3. QED
    BY <1>7, <2>2 DEF WriteManifest, Goto, PCs, StagePcs
<1>8. ASSUME NEW p \in Callers, VerifyStage(p) PROVE TypeOK'
  BY <1>8 DEF VerifyStage, Goto, ReturnErr, PCs, StagePcs
<1>9. ASSUME NEW p \in Callers, Recheck(p) PROVE TypeOK'
  BY <1>9 DEF Recheck, Goto, PCs, StagePcs, VerifyPcs
<1>10. ASSUME NEW p \in Callers, Publish(p) PROVE TypeOK'
  BY <1>10, DirectoryFacts DEF Publish, Goto, PCs, StagePcs, VerifyPcs
<1>11. ASSUME NEW p \in Callers, ResolveRace(p) PROVE TypeOK'
  BY <1>11 DEF ResolveRace, Goto, ReturnErr, PCs, VerifyPcs
<1>12. ASSUME NEW p \in Callers,
              VerifyDirs(p) \/ VerifyManifest(p) \/ VerifyLinks(p)
       PROVE TypeOK'
  BY <1>12 DEF VerifyDirs, VerifyManifest, VerifyLinks, Examine, Goto, ReturnErr,
               PCs, VerifyPcs, Artifact
<1>13. ASSUME NEW p \in Callers, VerifyFile(p) PROVE TypeOK'
  BY <1>13 DEF VerifyFile, Goto, ReturnErr, PCs, Artifact
<1>14. ASSUME NEW p \in Callers, Return(p) PROVE TypeOK'
  BY <1>14, DirectoryFacts DEF Return, Goto, PCs
<1>15. ASSUME NEW p \in Callers, IoError(p) PROVE TypeOK'
  BY <1>15 DEF IoError, Goto, ReturnErr, PCs, StagePcs
<1>16. ASSUME NEW p \in Callers, Crash(p) PROVE TypeOK'
  BY <1>16, DirectoryFacts, CrashesAssumption DEF Crash, Die, PCs
<1>17. CASE PowerFailure
  <2>1. ASSUME NEW lost \in SUBSET entry.dirty,
               entry' = [entry EXCEPT
                  !.file = [f \in Files |-> IF f \in lost THEN "bad" ELSE @[f]],
                  !.dirty = {}]
        PROVE  entry' \in Directory
    BY <2>1, LostBytes
  <2>2. entry' \in Directory
    BY <1>17, <2>1, DirectoryFacts DEF PowerFailure
  <2>3. /\ pc' \in [Callers -> PCs]
        /\ answer' \in [Callers -> {"none", "ok", "err"}]
        /\ stage' \in [Callers -> Directory]
    BY <1>17, DirectoryFacts DEF PowerFailure, Die, PCs
  <2>4. crashes' \in 0..MaxCrashes
    <3>1. crashes < MaxCrashes /\ crashes' = crashes + 1
      BY <1>17 DEF PowerFailure, Die
    <3>2. crashes \in 0..MaxCrashes
      OBVIOUS
    <3>3. QED
      BY <3>1, <3>2, CrashesAssumption
  <2>5. QED
    BY <1>17, <2>2, <2>3, <2>4 DEF PowerFailure, Die
<1>18. CASE WriteBack
  BY <1>18 DEF WriteBack, Directory
<1>19. CASE Outsider
  <2>1. ASSUME NEW f \in Files, NEW s \in FileState,
               Tamper("write", [entry EXCEPT !.file[f] = s, !.dirty = @ \ {f}])
        PROVE  entry' \in Directory
    BY <2>1, FileUpdate DEF Tamper
  <2>2. entry' \in Directory
    BY <1>19, <2>1, DirectoryFacts DEF Outsider, Tamper
  <2>3. QED
    BY <1>19, <2>2 DEF Outsider, Tamper
<1>20. CASE UNCHANGED vars
  BY <1>20 DEF vars
<1>21. QED
  BY <1>1, <1>2, <1>3, <1>4, <1>5, <1>6, <1>7, <1>8, <1>9, <1>10, <1>11,
     <1>12, <1>13, <1>14, <1>15, <1>16, <1>17, <1>18, <1>19, <1>20
     DEF Next, Step, Work

\* Every variable keeps its type in every behaviour of the cache.
THEOREM TypeCorrect == Spec => []TypeOK
<1>1. QED
  BY InitTypeOK, NextTypeOK, PTL DEF Spec

-----------------------------------------------------------------------------
(***************************************************************************)
(* Stages                                                                  *)
(***************************************************************************)
LEMMA NextStageInv == TypeOK /\ StageInv /\ [Next]_vars => StageInv'
<1> SUFFICES ASSUME TypeOK, StageInv, [Next]_vars, NEW q \in Callers
             PROVE  Staged(pc[q], stage[q], next[q])'
  BY DEF StageInv
<1> USE DEF TypeOK
<1>0. Staged(pc[q], stage[q], next[q])
  BY DEF StageInv
<1>1. ASSUME NEW p \in Callers, CallFetch(p) \/ CallVerify(p)
      PROVE Staged(pc[q], stage[q], next[q])'
  BY <1>0, <1>1 DEF CallFetch, CallVerify, Begin, Goto, Staged, StagePcs, CheckedPcs, PackedPcs
<1>2. ASSUME NEW p \in Callers, EnsureParent(p) \/ Lookup(p)
      PROVE Staged(pc[q], stage[q], next[q])'
  BY <1>0, <1>2 DEF EnsureParent, Lookup, Goto, ReturnErr, Staged, StagePcs, CheckedPcs, PackedPcs
<1>3. ASSUME NEW p \in Callers, MakeStage(p)
      PROVE Staged(pc[q], stage[q], next[q])'
  BY <1>0, <1>3, DirectoryFacts DEF MakeStage, Goto, Staged, StagePcs, CheckedPcs, PackedPcs, Artifact
<1>4. ASSUME NEW p \in Callers, Copy(p)
      PROVE Staged(pc[q], stage[q], next[q])'
  <2>1. CASE p # q \/ pc'[p] = "return"
    BY <1>0, <1>4, <2>1 DEF Copy, Goto, ReturnErr, Staged, StagePcs, CheckedPcs, PackedPcs
  <2>2. ASSUME p = q, NEW bytes,
               stage' = [stage EXCEPT ![p].file[next[p]] = bytes], pc'[p] = "check"
        PROVE  Staged(pc[q], stage[q], next[q])'
    <3>1. /\ stage'[q].kind = stage[q].kind
          /\ stage'[q].dirty = stage[q].dirty
          /\ \A a \in Artifact : a < next[q] => stage'[q].file[a] = stage[q].file[a]
      BY <2>2, FilesFacts DEF Directory, Artifact
    <3>2. next'[q] = next[q] /\ pc[q] = "copy"
      BY <1>4, <2>2 DEF Copy
    <3>3. QED
      BY <1>0, <2>2, <3>1, <3>2 DEF Staged, StagePcs, CheckedPcs, PackedPcs
  <2>3. QED
    BY <1>4, <2>1, <2>2 DEF Copy, Goto, ReturnErr
<1>5. ASSUME NEW p \in Callers, CheckArtifact(p)
      PROVE Staged(pc[q], stage[q], next[q])'
  BY <1>0, <1>5 DEF CheckArtifact, Goto, ReturnErr, Staged, StagePcs, CheckedPcs, PackedPcs, Artifact
<1>6. ASSUME NEW p \in Callers, WriteManifest(p)
      PROVE Staged(pc[q], stage[q], next[q])'
  BY <1>0, <1>6, FilesFacts DEF WriteManifest, Goto, Staged, StagePcs, CheckedPcs, PackedPcs, Directory, Artifact
<1>7. ASSUME NEW p \in Callers, VerifyStage(p) \/ Recheck(p) \/ ResolveRace(p)
      PROVE Staged(pc[q], stage[q], next[q])'
  BY <1>0, <1>7 DEF VerifyStage, Recheck, ResolveRace, Goto, ReturnErr, Staged, StagePcs, CheckedPcs, PackedPcs
<1>8. ASSUME NEW p \in Callers, Publish(p)
      PROVE Staged(pc[q], stage[q], next[q])'
  BY <1>0, <1>8 DEF Publish, Goto, Staged, StagePcs, CheckedPcs, PackedPcs
<1>9. ASSUME NEW p \in Callers, VerifyDirs(p) \/ VerifyManifest(p) \/ VerifyLinks(p)
      PROVE Staged(pc[q], stage[q], next[q])'
  BY <1>0, <1>9 DEF VerifyDirs, VerifyManifest, VerifyLinks, Examine, Goto, ReturnErr,
               Staged, StagePcs, CheckedPcs, PackedPcs
<1>10. ASSUME NEW p \in Callers, VerifyFile(p)
      PROVE Staged(pc[q], stage[q], next[q])'
  BY <1>0, <1>10 DEF VerifyFile, Goto, ReturnErr, Staged, StagePcs, CheckedPcs, PackedPcs
<1>11. ASSUME NEW p \in Callers, Return(p)
      PROVE Staged(pc[q], stage[q], next[q])'
  BY <1>0, <1>11 DEF Return, Goto, Staged, StagePcs, CheckedPcs, PackedPcs
<1>12. ASSUME NEW p \in Callers, IoError(p)
      PROVE Staged(pc[q], stage[q], next[q])'
  BY <1>0, <1>12 DEF IoError, Goto, ReturnErr, Staged, StagePcs, CheckedPcs, PackedPcs
<1>13. ASSUME NEW p \in Callers, Crash(p)
      PROVE Staged(pc[q], stage[q], next[q])'
  BY <1>0, <1>13 DEF Crash, Die, Staged, StagePcs, CheckedPcs, PackedPcs
<1>14. CASE PowerFailure
  BY <1>0, <1>14 DEF PowerFailure, Die, Staged, StagePcs, CheckedPcs, PackedPcs
<1>15. CASE UNCHANGED <<stage, pc, next>>
  BY <1>0, <1>15 DEF Staged
<1>16. QED
  BY <1>1, <1>2, <1>3, <1>4, <1>5, <1>6, <1>7, <1>8, <1>9, <1>10, <1>11,
     <1>12, <1>13, <1>14, <1>15 DEF Next, Step, Work, vars, WriteBack, Outsider, Tamper

-----------------------------------------------------------------------------
(***************************************************************************)
(* The entry                                                               *)
(***************************************************************************)
LEMMA PublishesComplete ==
    ASSUME TypeOK, StageInv, NEW p \in Callers, Publish(p)
    PROVE  \/ entry' = entry
           \/ /\ ~Exists(entry) \/ IsEmpty(entry)
              /\ Complete(entry')
              /\ entry'.dirty \subseteq {0}
<1>1. Complete(stage[p]) /\ stage[p].dirty \subseteq {0}
  BY FilesFacts DEF StageInv, Staged, Publish, Complete, StagePcs, CheckedPcs, PackedPcs
<1>2. QED
  BY <1>1 DEF Publish

LEMMA CompleteFacts ==
    ASSUME NEW d, Complete(d)
    PROVE  Exists(d) /\ d.kind = "dir" /\ \A a \in Artifact : d.file[a] = "good"
  BY FilesFacts DEF Complete, Exists

\* A power failure takes nothing from the artifacts: they were synced before
\* the rename.
LEMMA PowerKeepsArtifacts ==
    ASSUME TypeOK, EntryInv, PowerFailure
    PROVE  EntryInv'
<1>1. ASSUME NEW lost \in SUBSET entry.dirty,
             entry' = [entry EXCEPT
                !.file = [f \in Files |-> IF f \in lost THEN "bad" ELSE @[f]],
                !.dirty = {}],
             tampered' = tampered
      PROVE  EntryInv'
  <2>1. /\ entry'.kind = entry.kind
        /\ entry'.dirty = {}
        /\ \A f \in Files : entry'.file[f] = IF f \in lost THEN "bad" ELSE entry.file[f]
    BY <1>1 DEF TypeOK, Directory
  <2>2. ASSUME ~Exists(entry') PROVE entry' = NoDir
    <3>1. entry = NoDir /\ lost = {}
      BY <1>1, <2>1, <2>2 DEF EntryInv, Exists, NoDir
    <3>2. [f \in Files |-> IF f \in lost THEN "bad" ELSE entry.file[f]] = NoDir.file
      BY <3>1 DEF NoDir
    <3>3. QED
      BY <1>1, <3>1, <3>2 DEF NoDir
  <2>3. PublishedArtifacts'
    <3> SUFFICES ASSUME ~tampered', Exists(entry')
                 PROVE  entry'.kind = "dir" /\ \A a \in Artifact : entry'.file[a] = "good"
      BY DEF PublishedArtifacts
    <3>1. lost \subseteq {0} /\ entry.kind = "dir" /\ \A a \in Artifact : entry.file[a] = "good"
      BY <1>1, <2>1 DEF EntryInv, PublishedArtifacts, Exists
    <3>2. QED
      BY <2>1, <3>1 DEF Artifact, Files
  <2>4. QED
    BY <2>1, <2>2, <2>3 DEF EntryInv
<1>2. ASSUME entry' = NoDir PROVE EntryInv'
  BY <1>2, DirectoryFacts DEF EntryInv, PublishedArtifacts, NoDir
<1>3. QED
  BY <1>1, <1>2 DEF PowerFailure, Die

LEMMA NextEntryInv == TypeOK /\ StageInv /\ EntryInv /\ [Next]_vars => EntryInv'
<1> SUFFICES ASSUME TypeOK, StageInv, EntryInv, [Next]_vars PROVE EntryInv'
  OBVIOUS
<1>1. CASE UNCHANGED <<entry, tampered>>
  BY <1>1 DEF EntryInv, PublishedArtifacts, Exists
<1>2. ASSUME NEW p \in Callers, Publish(p) PROVE EntryInv'
  <2>1. CASE entry' = entry
    BY <1>2, <1>1, <2>1 DEF Publish
  <2>2. CASE Complete(entry') /\ entry'.dirty \subseteq {0}
    BY <2>2, CompleteFacts DEF EntryInv, PublishedArtifacts
  <2>3. QED
    BY <1>2, <2>1, <2>2, PublishesComplete
<1>3. CASE PowerFailure
  BY <1>3, PowerKeepsArtifacts
<1>4. CASE WriteBack
  BY <1>4 DEF WriteBack, EntryInv, PublishedArtifacts, Exists, NoDir, TypeOK, Directory
<1>5. CASE Outsider
  BY <1>5, DirectoryFacts DEF Outsider, Tamper, EntryInv, PublishedArtifacts, Exists,
                              EmptyDir, NotADir, NoDir, TypeOK, Directory
<1>6. QED
  BY <1>1, <1>2, <1>3, <1>4, <1>5
     DEF Next, Step, Work, vars, CallFetch, CallVerify, Begin, EnsureParent, Lookup, MakeStage,
         Copy, CheckArtifact, WriteManifest, VerifyStage, Recheck, ResolveRace,
         VerifyDirs, VerifyManifest, VerifyLinks, Examine, VerifyFile, Return,
         IoError, Crash, Die

-----------------------------------------------------------------------------
(***************************************************************************)
(* Answers                                                                 *)
(***************************************************************************)
\* A step that leaves the entry alone keeps AnswerInv if no caller gets an Ok,
\* or past the manifest, without the whole pack being there.
LEMMA AnswerInvKept ==
    ASSUME AnswerInv, UNCHANGED <<entry, tampered>>,
           \A p \in Callers :
               pc'[p] \in {"verify_links", "verify_files"} \/ answer'[p] = "ok" =>
                  \/ pc[p] \in {"verify_links", "verify_files"} \/ answer[p] = "ok"
                  \/ ~tampered => Complete(entry)
    PROVE  AnswerInv'
  BY DEF AnswerInv

LEMMA NextAnswerInv ==
    TypeOK /\ StageInv /\ EntryInv /\ AnswerInv /\ [Next]_vars => AnswerInv'
<1> SUFFICES ASSUME TypeOK, StageInv, EntryInv, AnswerInv, [Next]_vars PROVE AnswerInv'
  OBVIOUS
<1>1. ASSUME NEW p \in Callers,
             CallFetch(p) \/ CallVerify(p) \/ EnsureParent(p) \/ Lookup(p) \/ MakeStage(p)
      PROVE  AnswerInv'
  BY <1>1, AnswerInvKept
     DEF CallFetch, CallVerify, Begin, EnsureParent, Lookup, MakeStage, Goto, ReturnErr, TypeOK
<1>2. ASSUME NEW p \in Callers,
             Copy(p) \/ CheckArtifact(p) \/ WriteManifest(p) \/ VerifyStage(p)
      PROVE  AnswerInv'
  BY <1>2, AnswerInvKept
     DEF Copy, CheckArtifact, WriteManifest, VerifyStage, Goto, ReturnErr, TypeOK
<1>3. ASSUME NEW p \in Callers, Recheck(p) \/ ResolveRace(p) PROVE AnswerInv'
  BY <1>3, AnswerInvKept DEF Recheck, ResolveRace, Goto, ReturnErr, TypeOK
<1>4. ASSUME NEW p \in Callers, Publish(p) PROVE AnswerInv'
  <2>1. CASE entry' = entry
    BY <1>4, <2>1, AnswerInvKept DEF Publish, Goto, TypeOK
  <2>2. CASE Complete(entry')
    BY <2>2 DEF AnswerInv
  <2>3. QED
    BY <1>4, <2>1, <2>2, PublishesComplete
<1>5. ASSUME NEW p \in Callers, VerifyDirs(p) \/ VerifyLinks(p) PROVE AnswerInv'
  BY <1>5, AnswerInvKept DEF VerifyDirs, VerifyLinks, Examine, Goto, ReturnErr, TypeOK
<1>6. ASSUME NEW p \in Callers, VerifyManifest(p) PROVE AnswerInv'
  <2>1. ~tampered /\ entry.file[0] = "good" => Complete(entry)
    BY FilesFacts DEF EntryInv, PublishedArtifacts, Complete, Exists, NoDir
  <2>2. QED
    BY <1>6, <2>1, AnswerInvKept DEF VerifyManifest, Examine, Goto, ReturnErr, TypeOK
<1>7. ASSUME NEW p \in Callers, VerifyFile(p) PROVE AnswerInv'
  BY <1>7, AnswerInvKept DEF VerifyFile, Goto, ReturnErr, TypeOK
<1>8. ASSUME NEW p \in Callers, Return(p) \/ IoError(p) PROVE AnswerInv'
  BY <1>8, AnswerInvKept DEF Return, IoError, Goto, ReturnErr, TypeOK
<1>9. ASSUME NEW p \in Callers, Crash(p) PROVE AnswerInv'
  BY <1>9, AnswerInvKept DEF Crash, Die
<1>10. CASE PowerFailure
  BY <1>10 DEF PowerFailure, Die, AnswerInv
<1>11. CASE WriteBack
  BY <1>11 DEF WriteBack, AnswerInv, Complete, TypeOK, Directory
<1>12. CASE Outsider
  BY <1>12 DEF Outsider, Tamper, AnswerInv
<1>13. CASE UNCHANGED vars
  BY <1>13, AnswerInvKept DEF vars
<1>14. QED
  BY <1>1, <1>2, <1>3, <1>4, <1>5, <1>6, <1>7, <1>8, <1>9, <1>10, <1>11,
     <1>12, <1>13 DEF Next, Step, Work

LEMMA NextReturnInv == TypeOK /\ ReturnInv /\ [Next]_vars => ReturnInv'
<1> SUFFICES ASSUME TypeOK, ReturnInv, [Next]_vars PROVE ReturnInv'
  OBVIOUS
<1> USE DEF TypeOK, ReturnInv
<1>1. ASSUME NEW p \in Callers, CallFetch(p) \/ CallVerify(p) PROVE ReturnInv'
  BY <1>1 DEF CallFetch, CallVerify, Begin, Goto
<1>2. ASSUME NEW p \in Callers,
             EnsureParent(p) \/ Lookup(p) \/ MakeStage(p) \/ Copy(p) \/ CheckArtifact(p)
      PROVE  ReturnInv'
  BY <1>2 DEF EnsureParent, Lookup, MakeStage, Copy, CheckArtifact, Goto, ReturnErr
<1>3. ASSUME NEW p \in Callers,
             WriteManifest(p) \/ VerifyStage(p) \/ Recheck(p) \/ Publish(p) \/ ResolveRace(p)
      PROVE  ReturnInv'
  BY <1>3 DEF WriteManifest, VerifyStage, Recheck, Publish, ResolveRace, Goto, ReturnErr
<1>4. ASSUME NEW p \in Callers,
             VerifyDirs(p) \/ VerifyManifest(p) \/ VerifyLinks(p) \/ VerifyFile(p)
      PROVE  ReturnInv'
  BY <1>4 DEF VerifyDirs, VerifyManifest, VerifyLinks, VerifyFile, Examine, Goto, ReturnErr
<1>5. ASSUME NEW p \in Callers, Return(p) \/ IoError(p) PROVE ReturnInv'
  BY <1>5 DEF Return, IoError, Goto, ReturnErr
<1>6. ASSUME NEW p \in Callers, Crash(p) PROVE ReturnInv'
  BY <1>6 DEF Crash, Die
<1>7. CASE PowerFailure
  BY <1>7 DEF PowerFailure, Die
<1>8. CASE UNCHANGED <<pc, answer>>
  BY <1>8
<1>9. QED
  BY <1>1, <1>2, <1>3, <1>4, <1>5, <1>6, <1>7, <1>8
     DEF Next, Step, Work, WriteBack, Outsider, Tamper, vars

-----------------------------------------------------------------------------
(***************************************************************************)
(* The theorems                                                            *)
(***************************************************************************)
LEMMA InitIndInv == Init => IndInv
<1> SUFFICES ASSUME Init PROVE IndInv
  OBVIOUS
<1>1. StageInv
  BY DEF Init, StageInv, Staged, StagePcs, CheckedPcs, PackedPcs
<1>2. EntryInv /\ AnswerInv /\ ReturnInv
  BY DirectoryFacts DEF Init, EntryInv, PublishedArtifacts, AnswerInv, ReturnInv, NoDir
<1>3. QED
  BY <1>1, <1>2, InitTypeOK DEF IndInv

\* The whole inductive invariant: types, stages, entry and answers together.
THEOREM Inductive == Spec => []IndInv
<1>1. IndInv /\ [Next]_vars => IndInv'
  BY NextTypeOK, NextStageInv, NextEntryInv, NextAnswerInv, NextReturnInv DEF IndInv
<1>2. QED
  BY InitIndInv, <1>1, PTL DEF Spec

\* An untouched entry holds every artifact with the locked bytes, through any
\* download failure, failing call, crash and power failure (cache.rs:70).
THEOREM ArtifactsArePublished == Spec => []PublishedArtifacts
<1>1. IndInv => PublishedArtifacts
  BY DEF IndInv, EntryInv
<1>2. QED
  BY <1>1, Inductive, PTL

\* A caller that was told Ok finds the whole pack in the untouched cache.
THEOREM OkIsInstalled == Spec => []OkMeansInstalled
<1>1. IndInv => OkMeansInstalled
  BY DEF IndInv, AnswerInv, OkMeansInstalled
<1>2. QED
  BY <1>1, Inductive, PTL

\* Every return path of fetch removes its stage (TempDir's drop).
THEOREM StagesAreRemoved == Spec => []NoStageLeftBehind
<1>1. IndInv => NoStageLeftBehind
  BY DirectoryFacts DEF IndInv, StageInv, Staged, NoStageLeftBehind
<1>2. QED
  BY <1>1, Inductive, PTL

\* Whatever outsiders do, a caller's step changes the entry only from nothing
\* or an empty directory to the complete pack.
THEOREM EntriesAreWriteOnce == Spec => NonemptyEntryUntouched
<1> DEFINE WriteOnce(p) ==
        Step(p) => \/ entry' = entry
                   \/ (~Exists(entry) \/ IsEmpty(entry)) /\ Complete(entry')
<1>1. ASSUME IndInv, NEW p \in Callers PROVE WriteOnce(p)
  <2>1. CASE Publish(p)
    BY <1>1, <2>1, PublishesComplete DEF IndInv
  <2>2. ASSUME Step(p), ~Publish(p) PROVE entry' = entry
    BY <2>2
       DEF Step, Work, EnsureParent, Lookup, MakeStage, Copy, CheckArtifact, WriteManifest,
           VerifyStage, Recheck, ResolveRace, VerifyDirs, VerifyManifest, VerifyLinks,
           Examine, VerifyFile, Return, IoError
  <2>3. QED
    BY <2>1, <2>2
<1>2. IndInv => [\A p \in Callers : WriteOnce(p)]_vars
  BY <1>1
<1>3. QED
  BY <1>2, Inductive, PTL DEF NonemptyEntryUntouched

-----------------------------------------------------------------------------
\* Nothing hidden happened: the store's variables keep their values.
Hidden == /\ UNCHANGED <<entry, tampered>>
          /\ Calling' = Calling
          /\ Reply' = Reply

LEMMA HiddenStutters == Hidden => UNCHANGED Store!vars
  BY DEF Hidden, Store!vars, StoreOf, Complete, Exists

\* Inside a call, a step that stays inside it is hidden.
LEMMA InsideIsHidden ==
    ASSUME UNCHANGED <<entry, tampered>>, NEW p \in Callers, TypeOK,
           pc[p] # "idle", NEW there \in PCs, there # "idle",
           pc' = [pc EXCEPT ![p] = there],
           \A q \in Callers : q # p => answer'[q] = answer[q]
    PROVE  Hidden
  BY DEF Hidden, Calling, Reply, TypeOK

LEMMA StepImplements ==
    ASSUME IndInv, NEW p \in Callers, Step(p)
    PROVE  [Store!Next]_(Store!vars)
<1> USE DEF IndInv
<1>1. CASE EnsureParent(p) \/ Lookup(p) \/ MakeStage(p)
  <2>1. Hidden
    BY <1>1, InsideIsHidden
       DEF EnsureParent, Lookup, MakeStage, Goto, ReturnErr, PCs, StagePcs, VerifyPcs, TypeOK
  <2>2. QED
    BY <2>1, HiddenStutters
<1>2. CASE Copy(p) \/ CheckArtifact(p) \/ WriteManifest(p) \/ VerifyStage(p)
  <2>1. Hidden
    BY <1>2, InsideIsHidden
       DEF Copy, CheckArtifact, WriteManifest, VerifyStage, Goto, ReturnErr, PCs,
           StagePcs, VerifyPcs, TypeOK
  <2>2. QED
    BY <2>1, HiddenStutters
<1>3. CASE Recheck(p) \/ ResolveRace(p) \/ IoError(p)
  <2>1. Hidden
    BY <1>3, InsideIsHidden
       DEF Recheck, ResolveRace, IoError, Goto, ReturnErr, PCs, StagePcs, VerifyPcs, TypeOK
  <2>2. QED
    BY <2>1, HiddenStutters
<1>4. CASE VerifyDirs(p) \/ VerifyManifest(p) \/ VerifyLinks(p)
  <2>1. Hidden
    BY <1>4, InsideIsHidden
       DEF VerifyDirs, VerifyManifest, VerifyLinks, Examine, Goto, ReturnErr, PCs,
           StagePcs, VerifyPcs, TypeOK
  <2>2. QED
    BY <2>1, HiddenStutters
<1>5. CASE VerifyFile(p)
  <2>1. Hidden
    BY <1>5 DEF VerifyFile, Goto, ReturnErr, Hidden, Calling, Reply, TypeOK
  <2>2. QED
    BY <2>1, HiddenStutters
<1>6. CASE Publish(p)
  <2>1. Calling' = Calling /\ Reply' = Reply /\ tampered' = tampered /\ p \in Calling
    BY <1>6 DEF Publish, Goto, Calling, Reply, TypeOK
  <2>2. CASE entry' = entry
    BY <2>1, <2>2, HiddenStutters DEF Hidden
  <2>3. CASE (~Exists(entry) \/ IsEmpty(entry)) /\ Complete(entry')
    <3>1. ~Complete(entry) /\ StoreOf(entry') = "complete"
      BY <2>3, CompleteIsNotEmpty DEF StoreOf
    <3>2. IsEmpty(entry) => tampered
      <4>1. 1 \in Artifact
        BY ArtifactsAssumption DEF Artifact
      <4>2. QED
        BY <4>1, FilesFacts DEF EntryInv, PublishedArtifacts, IsEmpty, Exists
    <3>3. \/ StoreOf(entry) = "absent"
          \/ StoreOf(entry) = "unusable" /\ tampered
      BY <2>3, <3>1, <3>2 DEF StoreOf
    <3>4. Store!Install
      BY <2>1, <3>1, <3>3 DEF Store!Install
    <3>5. QED
      BY <3>4 DEF Store!Next
  <2>4. QED
    BY <1>6, <2>2, <2>3, PublishesComplete
<1>7. CASE Return(p)
  <2>1. /\ UNCHANGED <<entry, tampered>>
        /\ Calling' = Calling \ {p}
        /\ p \in Calling
        /\ Reply' = [Reply EXCEPT ![p] = answer[p]]
    BY <1>7 DEF Return, Goto, Calling, Reply, TypeOK
  <2>2. StoreOf(entry)' = StoreOf(entry)
    BY <2>1 DEF StoreOf, Complete, Exists
  <2>3. answer[p] = "ok" => StoreOf(entry) = "complete" \/ tampered
    BY DEF AnswerInv, StoreOf
  <2>4. Store!Answer(p, answer[p])
    BY <2>1, <2>2, <2>3 DEF Store!Answer
  <2>5. answer[p] \in {"ok", "err"}
    BY <1>7 DEF Return, ReturnInv, TypeOK
  <2>6. QED
    BY <2>4, <2>5 DEF Store!Next
<1>8. QED
  BY <1>1, <1>2, <1>3, <1>4, <1>5, <1>6, <1>7 DEF Step, Work

LEMMA CallImplements ==
    ASSUME IndInv, NEW p \in Callers, CallFetch(p) \/ CallVerify(p)
    PROVE  Store!Next
<1>1. Begin(p, "ensure_parent") \/ Begin(p, "verify_dirs")
  BY DEF CallFetch, CallVerify
<1>2. /\ UNCHANGED <<entry, tampered>>
      /\ Calling' = Calling \cup {p}
      /\ p \notin Calling
      /\ Reply' = [Reply EXCEPT ![p] = "none"]
  BY <1>1 DEF Begin, Goto, Calling, Reply, IndInv, TypeOK
<1>3. StoreOf(entry)' = StoreOf(entry)
  BY <1>2 DEF StoreOf, Complete, Exists
<1>4. Store!Call(p)
  BY <1>2, <1>3 DEF Store!Call
<1>5. QED
  BY <1>4 DEF Store!Next

LEMMA CrashImplements ==
    ASSUME IndInv, NEW p \in Callers, Crash(p)
    PROVE  Store!Next
<1>1. /\ UNCHANGED <<entry, tampered>>
      /\ Calling' = Calling \ {p}
      /\ p \in Calling
      /\ Reply' = Reply
  BY DEF Crash, Die, Calling, Reply, IndInv, TypeOK
<1>2. StoreOf(entry)' = StoreOf(entry)
  BY <1>1 DEF StoreOf, Complete, Exists
<1>3. Store!Abandon(p)
  BY <1>1, <1>2 DEF Store!Abandon
<1>4. QED
  BY <1>3 DEF Store!Next

LEMMA PowerFailureImplements ==
    ASSUME IndInv, PowerFailure
    PROVE  Store!Next
<1>1. /\ tampered' = tampered
      /\ Calling' = {}
      /\ Reply' = [p \in Callers |-> "none"]
  BY DEF PowerFailure, Die, Calling, Reply
<1>2. StoreOf(entry') = StoreOf(entry) \/ (Exists(entry) /\ StoreOf(entry') # "complete")
  <2>1. ASSUME NEW lost \in SUBSET entry.dirty,
               entry' = [entry EXCEPT
                  !.file = [f \in Files |-> IF f \in lost THEN "bad" ELSE @[f]],
                  !.dirty = {}]
        PROVE  StoreOf(entry') = StoreOf(entry) \/ (Exists(entry) /\ StoreOf(entry') # "complete")
    <3>1. /\ entry'.kind = entry.kind
          /\ \A f \in Files : entry'.file[f] = IF f \in lost THEN "bad" ELSE entry.file[f]
      BY <2>1 DEF IndInv, TypeOK, Directory
    <3>2. Complete(entry') => Complete(entry)
      BY <3>1 DEF Complete
    <3>3. Exists(entry') <=> Exists(entry)
      BY <3>1 DEF Exists
    <3>4. QED
      BY <3>2, <3>3, CompleteIsNotEmpty DEF StoreOf
  <2>2. CASE entry.dirty # {} /\ entry' = NoDir
    <3>1. entry # NoDir
      BY <2>2 DEF NoDir
    <3>2. Exists(entry)
      BY <3>1 DEF IndInv, EntryInv
    <3>3. QED
      BY <2>2, <3>2, DirectoryFacts DEF StoreOf
  <2>3. QED
    BY <2>1, <2>2 DEF PowerFailure
<1>3. Store!PowerFailure
  BY <1>1, <1>2 DEF Store!PowerFailure, StoreOf
<1>4. QED
  BY <1>3 DEF Store!Next

LEMMA OthersImplement ==
    ASSUME IndInv, WriteBack \/ Outsider
    PROVE  [Store!Next]_(Store!vars)
<1>1. Calling' = Calling /\ Reply' = Reply
  BY DEF WriteBack, Outsider, Tamper, Calling, Reply
<1>2. CASE WriteBack
  <2>1. StoreOf(entry') = StoreOf(entry) /\ tampered' = tampered
    BY <1>2 DEF WriteBack, StoreOf, Complete, Exists, IndInv, TypeOK, Directory
  <2>2. QED
    BY <1>1, <2>1 DEF Store!vars
<1>3. CASE Outsider
  <2>1. tampered' = TRUE
    BY <1>3 DEF Outsider, Tamper
  <2>2. Store!Outsider
    BY <1>1, <2>1 DEF Store!Outsider, StoreOf
  <2>3. QED
    BY <2>2 DEF Store!Next
<1>4. QED
  BY <1>2, <1>3

\* Towards its callers the cache is the write-once store: the pack appears in
\* one step and complete, stays, and Ok is answered only when it is there.
THEOREM CacheImplementsStore == Spec => ImplementsStore
<1>1. Init => Store!Init
  BY DirectoryFacts DEF Init, Store!Init, StoreOf, Calling, Reply
<1>2. IndInv /\ [Next]_vars => [Store!Next]_(Store!vars)
  <2> SUFFICES ASSUME IndInv, [Next]_vars PROVE [Store!Next]_(Store!vars)
    OBVIOUS
  <2>1. CASE UNCHANGED vars
    BY <2>1, HiddenStutters DEF vars, Hidden, Calling, Reply
  <2>2. QED
    BY <2>1, StepImplements, CallImplements, CrashImplements, PowerFailureImplements,
       OthersImplement DEF Next
<1>3. QED
  BY <1>1, <1>2, Inductive, PTL DEF Spec, ImplementsStore, Store!Spec

-----------------------------------------------------------------------------
(***************************************************************************)
(* What was good during a call.  Here outsiders are everywhere: nothing is *)
(* known of the entry, only of what verify has read of it so far.          *)
(***************************************************************************)
\* What a call at `here', with its loop at artifact i and its answer, has seen.
Known(here, i, told, seen) ==
    /\ seen \subseteq Files
    /\ here \in {"verify_links", "verify_files"} => 0 \in seen
    /\ here = "verify_files" => \A a \in Artifact : a < i => a \in seen
    /\ told = "ok" => here \in {"idle", "return"}
    /\ here = "return" /\ told = "ok" => seen = Files

KnownInv == \A q \in Callers : Known(pc[q], next[q], answer[q], witnessed[q])

\* What was there all through the call is there now, and the call has not
\* taken the way of one that found nothing.
PresentInv == \A q \in Callers :
    present[q] => Exists(entry) /\ pc[q] \notin StagePcs \cup {"make_stage"}

AuditInv == TypeOK /\ KnownInv /\ PresentInv

\* A caller that does not move keeps what it knows: files are only added.
LEMMA KnownKept ==
    ASSUME NEW q \in Callers, Known(pc[q], next[q], answer[q], witnessed[q]), Watch,
           pc'[q] = pc[q], next'[q] = next[q], answer'[q] = answer[q]
    PROVE  Known(pc[q], next[q], answer[q], witnessed[q])'
  BY DEF Known, Watch

\* Nothing more is asked of a caller at any other place.
LEMMA KnownElsewhere ==
    ASSUME NEW q \in Callers, Known(pc[q], next[q], answer[q], witnessed[q]), Watch,
           pc'[q] \notin {"verify_links", "verify_files"}, answer'[q] # "ok"
    PROVE  Known(pc[q], next[q], answer[q], witnessed[q])'
  BY DEF Known, Watch

\* The steps of p leave every other caller where it is.
LEMMA OthersStay ==
    ASSUME TypeOK, NEW p \in Callers, NEW q \in Callers, q # p,
           CallFetch(p) \/ CallVerify(p) \/ Step(p) \/ Crash(p)
    PROVE  pc'[q] = pc[q] /\ next'[q] = next[q] /\ answer'[q] = answer[q]
<1> USE DEF TypeOK
<1>1. CASE CallFetch(p) \/ CallVerify(p) \/ Crash(p)
  BY <1>1 DEF CallFetch, CallVerify, Begin, Goto, Crash, Die
<1>2. CASE EnsureParent(p) \/ Lookup(p) \/ MakeStage(p) \/ Copy(p) \/ CheckArtifact(p)
  BY <1>2 DEF EnsureParent, Lookup, MakeStage, Copy, CheckArtifact, Goto, ReturnErr
<1>3. CASE WriteManifest(p) \/ VerifyStage(p) \/ Recheck(p) \/ Publish(p) \/ ResolveRace(p)
  BY <1>3 DEF WriteManifest, VerifyStage, Recheck, Publish, ResolveRace, Goto, ReturnErr
<1>4. CASE VerifyDirs(p) \/ VerifyManifest(p) \/ VerifyLinks(p)
  BY <1>4 DEF VerifyDirs, VerifyManifest, VerifyLinks, Examine, Goto, ReturnErr
<1>5. CASE VerifyFile(p) \/ Return(p) \/ IoError(p)
  BY <1>5 DEF VerifyFile, Return, IoError, Goto, ReturnErr
<1>6. QED
  BY <1>1, <1>2, <1>3, <1>4, <1>5 DEF Step, Work

LEMMA CallKnows ==
    ASSUME AuditInv, Watch, NEW p \in Callers,
           CallFetch(p) \/ CallVerify(p) \/ Step(p) \/ Crash(p)
    PROVE  Known(pc[p], next[p], answer[p], witnessed[p])'
<1> USE DEF AuditInv, TypeOK
<1>0. Known(pc[p], next[p], answer[p], witnessed[p])
  BY DEF KnownInv
<1>1. CASE CallFetch(p) \/ CallVerify(p) \/ Crash(p)
  BY <1>0, <1>1, KnownElsewhere DEF CallFetch, CallVerify, Begin, Goto, Crash, Die
<1>2. CASE EnsureParent(p) \/ Lookup(p) \/ MakeStage(p) \/ Copy(p) \/ CheckArtifact(p)
  <2>1. answer[p] # "ok"
    BY <1>0, <1>2 DEF Known, EnsureParent, Lookup, MakeStage, Copy, CheckArtifact
  <2>2. QED
    BY <1>0, <1>2, <2>1, KnownElsewhere
       DEF EnsureParent, Lookup, MakeStage, Copy, CheckArtifact, Goto, ReturnErr
<1>3. CASE WriteManifest(p) \/ VerifyStage(p) \/ Recheck(p) \/ Publish(p) \/ ResolveRace(p)
  <2>1. answer[p] # "ok"
    BY <1>0, <1>3 DEF Known, WriteManifest, VerifyStage, Recheck, Publish, ResolveRace
  <2>2. QED
    BY <1>0, <1>3, <2>1, KnownElsewhere
       DEF WriteManifest, VerifyStage, Recheck, Publish, ResolveRace, Goto, ReturnErr
<1>4. CASE VerifyDirs(p)
  BY <1>0, <1>4, KnownElsewhere DEF Known, VerifyDirs, Examine, Goto, ReturnErr
<1>5. CASE VerifyManifest(p)
  BY <1>0, <1>5, FilesFacts DEF Known, VerifyManifest, Examine, Goto, ReturnErr, Watch
<1>6. CASE VerifyLinks(p)
  BY <1>0, <1>6 DEF Known, VerifyLinks, Examine, Goto, ReturnErr, Watch, Artifact
<1>7. CASE VerifyFile(p)
  <2>1. /\ witnessed'[p] = witnessed[p] \cup {f \in Files : entry.file[f] = "good"}
        /\ next[p] \in Artifact /\ next[p] \in Files
        /\ 0 \in witnessed[p] /\ \A a \in Artifact : a < next[p] => a \in witnessed[p]
        /\ answer[p] # "ok"
    BY <1>0, <1>7, FilesFacts DEF Known, VerifyFile, Watch
  <2>2. CASE next[p] < NumArtifacts /\ entry.file[next[p]] = "good"
    <3>1. /\ next'[p] = next[p] + 1 /\ pc'[p] = "verify_files" /\ answer'[p] = answer[p]
          /\ next[p] \in witnessed'[p]
      BY <1>7, <2>1, <2>2 DEF VerifyFile, Artifact
    <3>2. \A a \in Artifact : a < next'[p] => a \in witnessed'[p]
      BY <2>1, <3>1 DEF Artifact
    <3>3. QED
      BY <1>0, <2>1, <3>1, <3>2 DEF Known
  <2>3. CASE next[p] = NumArtifacts /\ entry.file[next[p]] = "good"
    <3>1. pc' = [pc EXCEPT ![p] = "return"] /\ answer' = [answer EXCEPT ![p] = "ok"]
      <4>1. ~(next[p] < NumArtifacts)
        BY <2>3, ArtifactsAssumption
      <4>2. QED
        BY <1>7, <2>3, <4>1 DEF VerifyFile, Goto
    <3>2. next[p] \in witnessed'[p]
      BY <2>1, <2>3
    <3>3. pc'[p] = "return" /\ answer'[p] = "ok"
      BY <3>1
    <3>4. \A f \in Files : f \in witnessed'[p]
      BY <2>1, <2>3, <3>2 DEF Artifact, Files
    <3>5. witnessed'[p] = Files
      BY <1>0, <2>1, <3>4 DEF Known
    <3>6. QED
      BY <3>3, <3>5 DEF Known
  <2>4. CASE entry.file[next[p]] # "good"
    BY <1>0, <1>7, <2>4, KnownElsewhere DEF VerifyFile, Goto, ReturnErr
  <2>5. QED
    BY <1>7, <2>2, <2>3, <2>4 DEF VerifyFile
<1>8. CASE Return(p)
  BY <1>0, <1>8 DEF Known, Return, Goto, Watch
<1>9. CASE IoError(p)
  <2>1. answer[p] # "ok"
    BY <1>0, <1>9 DEF Known, IoError
  <2>2. QED
    BY <1>0, <1>9, <2>1, KnownElsewhere DEF IoError, Goto, ReturnErr
<1>10. QED
  BY <1>1, <1>2, <1>3, <1>4, <1>5, <1>6, <1>7, <1>8, <1>9 DEF Step, Work

\* The steps of nobody: a power failure ends every call, the others leave it
\* where it is.
LEMMA NobodyMoves ==
    ASSUME NEW q \in Callers
    PROVE  /\ PowerFailure => pc'[q] = "idle" /\ answer'[q] = "none"
           /\ WriteBack \/ Outsider => UNCHANGED <<pc, next, answer>>
<1>1. ASSUME PowerFailure PROVE pc'[q] = "idle" /\ answer'[q] = "none"
  <2>1. Die(Callers)
    BY <1>1 DEF PowerFailure
  <2>2. QED
    BY <2>1 DEF Die
<1>2. ASSUME NEW kind, NEW d, Tamper(kind, d) PROVE UNCHANGED <<pc, next, answer>>
  BY <1>2 DEF Tamper
<1>3. ASSUME Outsider PROVE UNCHANGED <<pc, next, answer>>
  BY <1>2, <1>3 DEF Outsider
<1>4. ASSUME WriteBack PROVE UNCHANGED <<pc, next, answer>>
  BY <1>4 DEF WriteBack
<1>5. QED
  BY <1>1, <1>3, <1>4

\* A step takes a caller to the way of one that found nothing only when it is
\* on it already, or at the lookup that found nothing.
LEMMA StagesFollowAbsence ==
    ASSUME TypeOK, NEW p \in Callers, Step(p),
           pc'[p] \in StagePcs \cup {"make_stage"}
    PROVE  pc[p] \in StagePcs \cup {"make_stage"} \/ (pc[p] = "lookup" /\ ~Exists(entry))
<1> USE DEF TypeOK, StagePcs
<1>1. CASE EnsureParent(p) \/ Lookup(p) \/ MakeStage(p) \/ Copy(p) \/ CheckArtifact(p)
  BY <1>1 DEF EnsureParent, Lookup, MakeStage, Copy, CheckArtifact, Goto, ReturnErr
<1>2. CASE WriteManifest(p) \/ VerifyStage(p) \/ Recheck(p) \/ Publish(p) \/ ResolveRace(p)
  BY <1>2 DEF WriteManifest, VerifyStage, Recheck, Publish, ResolveRace
<1>3. CASE VerifyDirs(p) \/ VerifyManifest(p) \/ VerifyLinks(p)
  BY <1>3 DEF VerifyDirs, VerifyManifest, VerifyLinks, Examine, Goto, ReturnErr
<1>4. CASE VerifyFile(p) \/ Return(p) \/ IoError(p)
  BY <1>4 DEF VerifyFile, Return, IoError, Goto, ReturnErr
<1>5. QED
  BY <1>1, <1>2, <1>3, <1>4 DEF Step, Work

LEMMA PresentKept ==
    ASSUME AuditInv, AuditNext
    PROVE  PresentInv'
<1> SUFFICES ASSUME NEW q \in Callers, present'[q]
             PROVE  Exists(entry') /\ pc'[q] \notin StagePcs \cup {"make_stage"}
  BY DEF PresentInv
<1> USE DEF AuditInv, TypeOK
<1>1. Exists(entry') /\ (present[q] \/ pc[q] = "idle")
  BY DEF AuditNext, Watch
<1>2. present[q] => Exists(entry) /\ pc[q] \notin StagePcs \cup {"make_stage"}
  BY DEF PresentInv
<1>3. pc[q] \notin StagePcs \cup {"make_stage"}
  BY <1>1, <1>2 DEF StagePcs
<1>4. ASSUME NEW p \in Callers, CallFetch(p) \/ CallVerify(p) \/ Crash(p)
      PROVE  pc'[q] \notin StagePcs \cup {"make_stage"}
  BY <1>3, <1>4 DEF CallFetch, CallVerify, Begin, Goto, Crash, Die, StagePcs
<1>5. ASSUME NEW p \in Callers, Step(p)
      PROVE  pc'[q] \notin StagePcs \cup {"make_stage"}
  <2>1. CASE p = q
    BY <1>1, <1>2, <1>3, <1>5, <2>1, StagesFollowAbsence
  <2>2. CASE p # q
    BY <1>3, <1>5, <2>2, OthersStay
  <2>3. QED
    BY <2>1, <2>2
<1>6. ASSUME PowerFailure \/ WriteBack \/ Outsider
      PROVE  pc'[q] \notin StagePcs \cup {"make_stage"}
  BY <1>3, <1>6, NobodyMoves DEF StagePcs
<1>7. QED
  <2>1. pc'[q] \notin StagePcs \cup {"make_stage"}
    BY <1>4, <1>5, <1>6 DEF AuditNext, Step
  <2>2. QED
    BY <1>1, <2>1

LEMMA KnownFollows ==
    ASSUME AuditInv, AuditNext
    PROVE  KnownInv'
<1> SUFFICES ASSUME NEW q \in Callers
             PROVE  Known(pc[q], next[q], answer[q], witnessed[q])'
  BY DEF KnownInv
<1>0. Watch /\ TypeOK /\ Known(pc[q], next[q], answer[q], witnessed[q])
  BY DEF AuditInv, AuditNext, KnownInv
<1>1. ASSUME NEW p \in Callers, CallFetch(p) \/ CallVerify(p) \/ Step(p) \/ Crash(p)
      PROVE  Known(pc[q], next[q], answer[q], witnessed[q])'
  BY <1>0, <1>1, CallKnows, OthersStay, KnownKept
<1>2. CASE PowerFailure
  BY <1>0, <1>2, NobodyMoves, KnownElsewhere
<1>3. CASE WriteBack \/ Outsider
  BY <1>0, <1>3, NobodyMoves, KnownKept
<1>4. QED
  BY <1>1, <1>2, <1>3 DEF AuditNext, Step

LEMMA AuditInductive == AuditSpec => []AuditInv
<1>1. AuditInit => AuditInv
  <2> SUFFICES ASSUME AuditInit PROVE AuditInv
    OBVIOUS
  <2>1. TypeOK
    BY InitTypeOK DEF AuditInit
  <2>2. KnownInv
    BY DEF AuditInit, Init, KnownInv, Known
  <2>3. PresentInv
    BY DEF AuditInit, PresentInv
  <2>4. QED
    BY <2>1, <2>2, <2>3 DEF AuditInv
<1>2. AuditInv /\ [AuditNext]_auditVars => AuditInv'
  <2> SUFFICES ASSUME AuditInv, [AuditNext]_auditVars PROVE AuditInv'
    OBVIOUS
  <2>1. CASE UNCHANGED auditVars
    BY <2>1, NextTypeOK DEF auditVars, vars, AuditInv, KnownInv, PresentInv
  <2>2. CASE AuditNext
    <3>1. Next
      BY <2>2 DEF AuditNext, Next, Step
    <3>2. TypeOK'
      BY <3>1, NextTypeOK DEF AuditInv
    <3>3. QED
      BY <2>2, <3>2, KnownFollows, PresentKept DEF AuditInv
  <2>3. QED
    BY <2>1, <2>2
<1>3. QED
  BY <1>1, <1>2, PTL DEF AuditSpec

\* Whatever outsiders do to the entry, Ok rests on the manifest and every
\* artifact having been good in it during this very call.
THEOREM OkRestsOnThisCall == AuditSpec => []OkWasWitnessed
<1>1. AuditInv => OkWasWitnessed
  BY DEF AuditInv, KnownInv, Known, OkWasWitnessed
<1>2. QED
  BY <1>1, AuditInductive, PTL

\* A call that finds something at the entry's path never downloads over it.
THEOREM WhatIsThereIsVerified == AuditSpec => []PresentNeverDownloads
<1>1. AuditInv => PresentNeverDownloads
  BY DEF AuditInv, PresentInv, PresentNeverDownloads
<1>2. QED
  BY <1>1, AuditInductive, PTL
-----------------------------------------------------------------------------
(***************************************************************************)
(* What a complete entry does for the calls, where only downloads and      *)
(* processes fail.                                                         *)
(***************************************************************************)
\* No step of a caller fails it over a complete entry but its own download's:
\* the stage it checks is good, a lost race finds the entry, and each read of
\* verify finds its file good.
LEMMA CompleteServesCaller ==
    ASSUME TypeOK, StageInv, ReturnInv, Complete(entry), parent = "dir",
           NEW p \in Callers, answer[p] = "none", pc[p] \notin {"copy", "check"},
           CallFetch(p) \/ CallVerify(p) \/ Work(p) \/ Crash(p)
    PROVE  answer'[p] # "err"
<1> USE DEF TypeOK
<1>1. CASE CallFetch(p) \/ CallVerify(p) \/ Crash(p)
  BY <1>1 DEF CallFetch, CallVerify, Begin, Crash, Die
<1>2. CASE EnsureParent(p) \/ Lookup(p) \/ MakeStage(p) \/ WriteManifest(p)
           \/ Recheck(p) \/ Publish(p)
  BY <1>2 DEF EnsureParent, Lookup, MakeStage, WriteManifest, Recheck, Publish
<1>3. CASE VerifyStage(p)
  <2>1. \A a \in Artifact : stage[p].file[a] = "good"
    BY <1>3 DEF VerifyStage, StageInv, Staged, CheckedPcs
  <2>2. QED
    BY <1>3, <2>1 DEF VerifyStage
<1>4. CASE ResolveRace(p) \/ VerifyDirs(p)
  BY <1>4, CompleteFacts DEF ResolveRace, VerifyDirs, Examine
<1>5. CASE VerifyManifest(p)
  BY <1>5, FilesFacts DEF VerifyManifest, Examine, Complete
<1>6. CASE VerifyLinks(p)
  BY <1>6, CompleteFacts DEF VerifyLinks, Examine
<1>7. CASE VerifyFile(p)
  BY <1>7, CompleteFacts DEF VerifyFile
<1>8. CASE Return(p)
  BY <1>8 DEF Return, ReturnInv
<1>9. CASE Copy(p) \/ CheckArtifact(p)
  BY <1>9 DEF Copy, CheckArtifact
<1>10. QED
  BY <1>1, <1>2, <1>3, <1>4, <1>5, <1>6, <1>7, <1>8, <1>9 DEF Work

\* While the whole pack is in place no call fails but by its own download, for
\* any number of persistent callers: those that lose the race to publish, at
\* the second look or at the rename, are answered from the winner's entry.
THEOREM CompletePacksServe == PersistentSpec => CompleteEntryServes
<1> DEFINE Served(p) ==
        Complete(entry) /\ parent = "dir" /\ answer[p] = "none" /\ pc[p] \notin {"copy", "check"}
            => answer'[p] # "err"
<1>1. [PersistentNext]_vars => [Next]_vars
  BY DEF PersistentNext, Next, Step
<1>2. IndInv /\ [PersistentNext]_vars => IndInv'
  BY <1>1, NextTypeOK, NextStageInv, NextEntryInv, NextAnswerInv, NextReturnInv DEF IndInv
<1>3. ASSUME IndInv, PersistentNext, NEW p \in Callers PROVE Served(p)
  <2>1. CASE WriteBack
    BY <2>1 DEF WriteBack
  <2>2. ASSUME NEW q \in Callers, q # p,
               CallFetch(q) \/ CallVerify(q) \/ Work(q) \/ Crash(q)
        PROVE  Served(p)
    <3>1. TypeOK /\ (CallFetch(q) \/ CallVerify(q) \/ Step(q) \/ Crash(q))
      BY <1>3, <2>2 DEF IndInv, Step
    <3>2. answer'[p] = answer[p]
      BY <2>2, <3>1, OthersStay
    <3>3. QED
      BY <3>2
  <2>3. CASE CallFetch(p) \/ CallVerify(p) \/ Work(p) \/ Crash(p)
    BY <1>3, <2>3, CompleteServesCaller DEF IndInv
  <2>4. QED
    BY <1>3, <2>1, <2>2, <2>3 DEF PersistentNext
<1>4. IndInv /\ [PersistentNext]_vars => [\A p \in Callers : Served(p)]_vars
  BY <1>3
<1>5. QED
  BY InitIndInv, <1>2, <1>4, PTL DEF PersistentSpec, CompleteEntryServes
=============================================================================
