---------------------------- MODULE DatasetFetch ----------------------------
(***************************************************************************)
(* Acquisition of one asset of a locked public dataset:                    *)
(* fetch_public_dataset, verify_asset, download_verified, download_once    *)
(* and replace_regular_file of crates/rhythm-map-eval/public_dataset.rs.   *)
(*                                                                         *)
(* Assets have files of their own, so one stands for all.  Fetchers are    *)
(* processes that were given the same output directory; both use the one   *)
(* temporary name .<name>.part, and nothing locks it.  Files are inodes: a *)
(* name that is removed or renamed leaves an open file what it was.        *)
(* Nobody puts a symbolic link at either name, so reject_symlink and       *)
(* verify_asset's own refusal of links never answer.                       *)
(***************************************************************************)
EXTENDS Naturals, FiniteSets

CONSTANTS
    Fetchers,           \* processes
    DOWNLOAD_ATTEMPTS,  \* 3 in the code
    MaxFaults           \* bound: failed or wrong downloads and crashes

ASSUME FetchersAssumption == IsFiniteSet(Fetchers)
ASSUME AttemptsAssumption == DOWNLOAD_ATTEMPTS \in Nat \ {0}
ASSUME FaultsAssumption == MaxFaults \in Nat

VARIABLES
    dest,       \* the inode at the asset's path
    part,       \* the inode at .<name>.part
    bytes,      \* what each inode holds
    owner,      \* who created or truncated each inode last
    fd,         \* the inode each fetcher has open for writing
    pc, attempt,
    faults,     \* history: failures so far
    met         \* history: two fetchers have been under way at once

vars == <<dest, part, bytes, owner, fd, pc, attempt, faults, met>>
files == <<dest, part, bytes, owner>>

\* One inode for each name and each open file, and one to create.
Inodes == 1..(Cardinality(Fetchers) + 3)
NoFile == 0
Names == Inodes \cup {NoFile}

\* "locked" has the lock's size and SHA-256, "wrong" at most its size.
Bytes == {"locked", "wrong", "partial"}
PCs == {"idle", "verify", "attempt", "unlink", "create", "copy", "check",
        "look", "replace", "rename", "ok", "err"}

Resting == {"idle", "ok", "err"}

Working(f) == pc[f] \notin Resting
Locked(name) == name # NoFile /\ bytes[name] = "locked"

Goto(f, there) == pc' = [pc EXCEPT ![f] = there]
Close(f) == fd' = [fd EXCEPT ![f] = NoFile]
Fault == faults < MaxFaults /\ faults' = faults + 1

Init ==
    /\ dest \in {NoFile, 1} /\ part = NoFile
    /\ bytes \in [Inodes -> {"wrong", "partial"}]
    /\ \A i \in Inodes : i # 1 => bytes[i] = "partial"
    /\ owner \in [Inodes -> {CHOOSE f \in Fetchers : TRUE}]
    /\ fd = [f \in Fetchers |-> NoFile]
    /\ pc = [f \in Fetchers |-> "idle"]
    /\ attempt = [f \in Fetchers |-> 1]
    /\ faults = 0
    /\ met = FALSE

-----------------------------------------------------------------------------
StartFetch(f) ==
    /\ pc[f] \in Resting
    /\ Goto(f, "verify")
    /\ attempt' = [attempt EXCEPT ![f] = 1]
    /\ UNCHANGED <<files, fd, faults>>

\* Mutant: a file of the locked size is trusted without hashing it.
VerifyDestSize(f) ==
    /\ pc[f] = "verify"
    /\ Goto(f, IF dest # NoFile /\ bytes[dest] # "partial" THEN "ok"
               ELSE "attempt")
    /\ UNCHANGED <<files, fd, attempt, faults>>

\* verify_asset on the destination: reuse, or download.
VerifyDest(f) ==
    /\ pc[f] = "verify"
    /\ Goto(f, IF Locked(dest) THEN "ok" ELSE "attempt")
    /\ UNCHANGED <<files, fd, attempt, faults>>

\* temporary.exists(), at the top of each attempt.
LookPart(f) ==
    /\ pc[f] = "attempt"
    /\ Goto(f, IF part = NoFile THEN "create" ELSE "unlink")
    /\ UNCHANGED <<files, fd, attempt, faults>>

\* remove_file; if another process took the file away the fetch fails.
UnlinkPart(f) ==
    /\ pc[f] = "unlink"
    /\ part' = NoFile
    /\ Goto(f, IF part = NoFile THEN "err" ELSE "create")
    /\ UNCHANGED <<dest, bytes, owner, fd, attempt, faults>>

Free == Inodes \ ({dest, part} \cup {fd[f] : f \in Fetchers})

\* The response arrives, then File::create: a new file, or the one that has
\* the name by now, cut to nothing under whoever else has it open.
CreatePart(f) ==
    /\ pc[f] = "create"
    /\ LET i == IF part # NoFile THEN part
                ELSE CHOOSE j \in Free : TRUE
       IN /\ part' = i
          /\ fd' = [fd EXCEPT ![f] = i]
          /\ bytes' = [bytes EXCEPT ![i] = "partial"]
          /\ owner' = [owner EXCEPT ![i] = f]
    /\ Goto(f, "copy")
    /\ UNCHANGED <<dest, attempt, faults>>

\* The body is written to its end.  Below a truncation by someone else the
\* file has a hole until that writer ends; after it, the same bytes.
CopyBody(f) ==
    /\ pc[f] = "copy"
    /\ \/ /\ bytes' = IF owner[fd[f]] = f
                      THEN [bytes EXCEPT ![fd[f]] = "locked"] ELSE bytes
          /\ UNCHANGED faults
       \/ /\ bytes' = [bytes EXCEPT ![fd[f]] = "wrong"]
          /\ Fault
    /\ Close(f)
    /\ Goto(f, "check")
    /\ UNCHANGED <<dest, part, owner, attempt>>

\* The next attempt, or the last error.
Retry(f) ==
    IF attempt[f] < DOWNLOAD_ATTEMPTS
    THEN attempt' = [attempt EXCEPT ![f] = @ + 1] /\ Goto(f, "attempt")
    ELSE UNCHANGED attempt /\ Goto(f, "err")

\* The request, the body or the sync fails; what was written stays.
DownloadFails(f) ==
    /\ pc[f] \in {"create", "copy"}
    /\ Fault
    /\ Close(f)
    /\ Retry(f)
    /\ UNCHANGED files

\* Mutant: the length of the download is checked, not its digest.
CheckPartSize(f) ==
    /\ pc[f] = "check"
    /\ IF part # NoFile /\ bytes[part] # "partial"
       THEN Goto(f, "look") /\ UNCHANGED attempt ELSE Retry(f)
    /\ UNCHANGED <<files, fd, faults>>

\* verify_asset on the temporary name, whoever's file that is by now.
CheckPart(f) ==
    /\ pc[f] = "check"
    /\ IF Locked(part) THEN Goto(f, "look") /\ UNCHANGED attempt ELSE Retry(f)
    /\ UNCHANGED <<files, fd, faults>>

-----------------------------------------------------------------------------
\* replace_regular_file: destination.exists().
LookDest(f) ==
    /\ pc[f] = "look"
    /\ Goto(f, IF dest = NoFile THEN "rename" ELSE "replace")
    /\ UNCHANGED <<files, fd, attempt, faults>>

UnlinkDest(f) ==
    /\ pc[f] = "replace"
    /\ dest' = NoFile
    /\ Goto(f, IF dest = NoFile THEN "err" ELSE "rename")
    /\ UNCHANGED <<part, bytes, owner, fd, attempt, faults>>

RenamePart(f) ==
    /\ pc[f] = "rename"
    /\ IF part = NoFile THEN Goto(f, "err") /\ UNCHANGED <<dest, part>>
       ELSE Goto(f, "ok") /\ dest' = part /\ part' = NoFile
    /\ UNCHANGED <<bytes, owner, fd, attempt, faults>>

Crash(f) ==
    /\ Working(f)
    /\ Fault
    /\ Goto(f, "idle")
    /\ Close(f)
    /\ UNCHANGED <<files, attempt>>

Step(f) == \/ VerifyDest(f) \/ LookPart(f) \/ UnlinkPart(f) \/ CreatePart(f)
           \/ CopyBody(f) \/ CheckPart(f) \/ LookDest(f) \/ UnlinkDest(f)
           \/ RenamePart(f)

Meet == met' = (met \/ \E f, g \in Fetchers : f # g /\ Working(f)' /\ Working(g)')

Next == /\ \E f \in Fetchers :
               StartFetch(f) \/ Step(f) \/ DownloadFails(f) \/ Crash(f)
        /\ Meet

Spec == Init /\ [][Next]_vars

\* Processes are scheduled; nobody has to run the command again.
FairSpec == Spec /\ \A f \in Fetchers : WF_vars(Step(f) /\ Meet)

-----------------------------------------------------------------------------
\* A fetch that has just succeeded has left the locked bytes in place ("Returns
\* an error for [...] content that does not match the immutable identity in
\* the lock", fetch_public_dataset).
OkMeansLocked == \A f \in Fetchers : pc[f] = "ok" => Locked(dest)

\* That is so while fetchers do not overlap, whatever failed or crashed before.
ApartOkMeansLocked == ~met => OkMeansLocked

\* Whatever two fetchers did to each other's files, once one of them is left
\* alone to run again and again the locked bytes are there for good: damage is
\* found and repaired, and no leftover stands in the way.
LoneFetcherRepairs ==
    \A f \in Fetchers :
        /\ <>[](\A g \in Fetchers \ {f} : ~Working(g))
        /\ []<>(pc[f] = "verify")
        => <>[]Locked(dest)
=============================================================================
