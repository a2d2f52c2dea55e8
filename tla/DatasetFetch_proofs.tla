-------------------------- MODULE DatasetFetch_proofs --------------------------
(***************************************************************************)
(* Fetchers of one output directory that are never under way together, any *)
(* number of them, one after another through any failures and crashes:     *)
(* success means the locked bytes.                                         *)
(*                                                                         *)
(* What holds is stated while fetchers have not met (ApartInv): the one    *)
(* that is under way writes under the temporary name only, which is not    *)
(* the destination; beyond its first look the destination is not locked,   *)
(* so that no fetch that reported success is still owed it; and from the   *)
(* check on the temporary name holds the locked bytes.                     *)
(***************************************************************************)
EXTENDS DatasetFetch, FiniteSetTheorems, TLAPS

FileTypes ==
    /\ dest \in Names /\ part \in Names
    /\ bytes \in [Inodes -> Bytes]
ProcessTypes ==
    /\ fd \in [Fetchers -> Names]
    /\ pc \in [Fetchers -> PCs]
    /\ met \in BOOLEAN
Types == FileTypes /\ ProcessTypes

Replacing == {"attempt", "unlink", "create", "copy", "check", "look", "replace", "rename"}
Checked == {"look", "replace", "rename"}

ApartInv ==
    /\ \A f, g \in Fetchers : Working(f) /\ Working(g) => f = g
    /\ dest # NoFile => dest # part
    /\ \A f \in Fetchers :
        /\ fd[f] # NoFile => pc[f] = "copy"
        /\ pc[f] = "copy" => fd[f] = part /\ part # NoFile
        /\ pc[f] \in Replacing => ~Locked(dest)
        /\ pc[f] \in Checked => Locked(part)
        /\ pc[f] = "ok" => Locked(dest)

FetchInv == Types /\ (~met => ApartInv)

-----------------------------------------------------------------------------
\* There are more inodes than names and open files.
LEMMA FreeFile == ASSUME Types PROVE Free # {} /\ Free \subseteq Inodes
<1> DEFINE Open == {fd[f] : f \in Fetchers}
           Used == {dest, part} \cup Open
<1>1. IsFiniteSet(Fetchers) /\ Cardinality(Fetchers) \in Nat
  BY FetchersAssumption, FS_CardinalityType
<1>2. IsFiniteSet(Open) /\ Cardinality(Open) <= Cardinality(Fetchers) /\ Cardinality(Open) \in Nat
  <2>1. fd \in Surjection(Fetchers, Open)
    BY DEF Types, ProcessTypes, Surjection
  <2>2. IsFiniteSet(Open) /\ Cardinality(Open) <= Cardinality(Fetchers)
    BY <1>1, <2>1, FS_Surjection
  <2>3. QED
    BY <2>2, FS_CardinalityType
<1>3. IsFiniteSet({dest, part}) /\ Cardinality({dest, part}) <= 2 /\ Cardinality({dest, part}) \in Nat
  <2>1. IsFiniteSet({dest}) /\ Cardinality({dest}) = 1
    BY FS_Singleton
  <2>2. {dest, part} = {dest} \cup {part}
    OBVIOUS
  <2>3. QED
    BY <2>1, <2>2, FS_AddElement, FS_CardinalityType
<1>4. IsFiniteSet(Used) /\ Cardinality(Used) <= Cardinality(Fetchers) + 2
  <2> HIDE DEF Open
  <2>1. /\ IsFiniteSet(Used)
        /\ Cardinality(Used) = Cardinality({dest, part}) + Cardinality(Open) - Cardinality({dest, part} \cap Open)
    BY <1>2, <1>3, FS_Union
  <2>2. Cardinality({dest, part} \cap Open) \in Nat
    BY <1>2, <1>3, FS_Intersection, FS_CardinalityType
  <2>3. QED
    BY <1>1, <1>2, <1>3, <2>1, <2>2
<1>5. Cardinality(Inodes) = Cardinality(Fetchers) + 3
  BY <1>1, FS_Interval DEF Inodes
<1>6. ~(Inodes \subseteq Used)
  <2>1. SUFFICES ASSUME Inodes \subseteq Used PROVE FALSE
    OBVIOUS
  <2>2. Cardinality(Inodes) <= Cardinality(Used) /\ Cardinality(Used) \in Nat
    BY <1>4, <2>1, FS_Subset, FS_CardinalityType
  <2>3. QED
    BY <1>1, <1>4, <1>5, <2>2
<1>7. QED
  BY <1>6 DEF Free

LEMMA InitInv == Init => FetchInv
<1> SUFFICES ASSUME Init PROVE FetchInv
  OBVIOUS
<1>1. Cardinality(Fetchers) \in Nat /\ 1 \in Inodes
  BY FetchersAssumption, FS_CardinalityType DEF Inodes
<1>2. Types
  <2>1. bytes \in [Inodes -> Bytes]
    BY DEF Init, Bytes
  <2>2. QED
    BY <1>1, <2>1 DEF Init, Types, FileTypes, ProcessTypes, Names, PCs
<1>3. ApartInv
  BY DEF Init, ApartInv, Working, Resting, Replacing, Checked, NoFile
<1>4. QED
  BY <1>2, <1>3 DEF FetchInv

Own(f) ==
    /\ fd[f] # NoFile => pc[f] = "copy"
    /\ pc[f] = "copy" => fd[f] = part /\ part # NoFile
    /\ pc[f] \in Replacing => ~Locked(dest)
    /\ pc[f] \in Checked => Locked(part)
    /\ pc[f] = "ok" => Locked(dest)

\* While fetchers have not met, a step has to keep only what is said of who takes it, and
\* what those that have succeeded are owed.
LEMMA ApartStep ==
    ASSUME Types, Types', ApartInv, Next, ~met', NEW f \in Fetchers,
           Working(f) \/ Working(f)',
           \A g \in Fetchers \ {f} : pc'[g] = pc[g] /\ fd'[g] = fd[g],
           Own(f)', dest' # NoFile => dest' # part',
           \A g \in Fetchers \ {f} : pc[g] = "ok" => Locked(dest)'
    PROVE  ApartInv'
<1>1. \A g \in Fetchers \ {f} : ~Working(g) /\ ~Working(g)'
  <2>1. CASE Working(f)
    BY <2>1 DEF ApartInv, Working
  <2>2. CASE Working(f)'
    <3>1. \A g \in Fetchers : g # f => ~Working(g)'
      BY <2>2 DEF Next, Meet
    <3>2. QED
      BY <3>1 DEF Working
  <2>3. QED
    BY <2>1, <2>2
<1>2. \A g \in Fetchers \ {f} : Own(g)'
  <2>1. ASSUME NEW g \in Fetchers \ {f} PROVE Own(g)'
    <3>1. pc'[g] \in Resting /\ pc'[g] = pc[g] /\ fd'[g] = fd[g]
      BY <1>1 DEF Working
    <3>2. fd'[g] = NoFile
      BY <3>1 DEF ApartInv, Resting
    <3>3. QED
      BY <3>1, <3>2 DEF Own, Resting, Replacing, Checked
  <2>2. QED
    BY <2>1
<1>3. \A g, h \in Fetchers : Working(g)' /\ Working(h)' => g = h
  BY <1>1
<1>4. QED
  BY <1>2, <1>3 DEF ApartInv, Own

\* Beyond the first look no other fetch has its success still in place.
LEMMA NoneIsOwed ==
    ASSUME ApartInv, NEW f \in Fetchers, pc[f] \in Replacing
    PROVE  ~Locked(dest) /\ \A g \in Fetchers : pc[g] # "ok"
BY DEF ApartInv

\* What the steps have in common that leave the files alone.
LEMMA QuietStep ==
    ASSUME FetchInv, Next, NEW f \in Fetchers, UNCHANGED files,
           NEW there \in PCs, pc' = [pc EXCEPT ![f] = there], fd' = fd \/ fd' = [fd EXCEPT ![f] = NoFile],
           Working(f) \/ Working(f)', there # "copy",
           ~met => /\ fd'[f] = NoFile
                   /\ there \in Replacing => pc[f] \in Replacing \/ ~Locked(dest)
                   /\ there \in Checked => pc[f] \in Checked \/ Locked(part)
                   /\ there = "ok" => Locked(dest)
    PROVE  FetchInv'
<1>1. Types'
  BY DEF FetchInv, Types, FileTypes, ProcessTypes, files, Names, Next, Meet
<1>2. SUFFICES ASSUME ~met' PROVE ApartInv'
  BY <1>1 DEF FetchInv
<1>3. ~met /\ ApartInv
  BY <1>2 DEF Next, Meet, FetchInv
<1>4. /\ pc'[f] = there /\ \A g \in Fetchers \ {f} : pc'[g] = pc[g] /\ fd'[g] = fd[g]
      /\ \A name \in Names : Locked(name)' <=> Locked(name)
  BY DEF FetchInv, Types, ProcessTypes, files, Locked
<1>5. dest' = dest /\ part' = part /\ (Locked(dest)' <=> Locked(dest)) /\ (Locked(part)' <=> Locked(part))
  BY DEF files, Locked
<1>6. Own(f)'
  BY <1>3, <1>4, <1>5 DEF Own, ApartInv
<1>7. QED
  BY <1>1, <1>2, <1>3, <1>4, <1>5, <1>6, ApartStep DEF FetchInv, ApartInv

LEMMA RetryGoes ==
    ASSUME Types, NEW f \in Fetchers, Retry(f)
    PROVE  pc' = [pc EXCEPT ![f] = "attempt"] \/ pc' = [pc EXCEPT ![f] = "err"]
BY DEF Retry, Goto

-----------------------------------------------------------------------------
\* The steps that change files.
LEMMA UnlinkPartKeeps == ASSUME FetchInv, Next, NEW f \in Fetchers, UnlinkPart(f) PROVE FetchInv'
<1>1. /\ pc[f] = "unlink" /\ part' = NoFile /\ UNCHANGED <<dest, bytes, owner, fd>>
      /\ pc' = [pc EXCEPT ![f] = IF part = NoFile THEN "err" ELSE "create"]
  BY DEF UnlinkPart, Goto
<1>2. Types'
  BY <1>1 DEF FetchInv, Types, FileTypes, ProcessTypes, Names, PCs, Next, Meet
<1>3. SUFFICES ASSUME ~met' PROVE ApartInv'
  BY <1>2 DEF FetchInv
<1>4. ApartInv /\ Types
  BY <1>3 DEF Next, Meet, FetchInv
<1>5. ~Locked(dest) /\ \A g \in Fetchers : pc[g] # "ok"
  BY <1>1, <1>4, NoneIsOwed DEF Replacing
<1>6. Own(f)'
  BY <1>1, <1>4, <1>5 DEF Own, ApartInv, Types, ProcessTypes, Locked, Replacing, Checked
<1>7. QED
  BY <1>1, <1>2, <1>3, <1>4, <1>5, <1>6, ApartStep DEF Types, ProcessTypes, Working, Resting

\* A file to create has a name of its own: it is neither the destination nor lost.
LEMMA CreatePartKeeps == ASSUME FetchInv, Next, NEW f \in Fetchers, CreatePart(f) PROVE FetchInv'
<1> DEFINE i == IF part # NoFile THEN part ELSE CHOOSE j \in Free : TRUE
<1>1. /\ pc[f] = "create" /\ pc' = [pc EXCEPT ![f] = "copy"] /\ part' = i /\ dest' = dest
      /\ fd' = [fd EXCEPT ![f] = i] /\ bytes' = [bytes EXCEPT ![i] = "partial"]
  BY DEF CreatePart, Goto
<1>2. i \in Inodes /\ (part = NoFile => i \in Free)
  BY FreeFile DEF FetchInv, Types, FileTypes, Names
<1> HIDE DEF i
<1>3. i # NoFile
  <2>1. Cardinality(Fetchers) \in Nat
    BY FetchersAssumption, FS_CardinalityType
  <2>2. QED
    BY <1>2, <2>1 DEF Inodes, NoFile
<1>4. Types'
  BY <1>1, <1>2 DEF FetchInv, Types, FileTypes, ProcessTypes, Names, Bytes, PCs, Next, Meet
<1>5. SUFFICES ASSUME ~met' PROVE ApartInv'
  BY <1>4 DEF FetchInv
<1>6. ApartInv /\ Types
  BY <1>5 DEF Next, Meet, FetchInv
<1>7. ~Locked(dest) /\ \A g \in Fetchers : pc[g] # "ok"
  BY <1>1, <1>6, NoneIsOwed DEF Replacing
<1>8. dest # NoFile => i # dest
  BY <1>2, <1>6 DEF Free, ApartInv, i
<1>9. ~Locked(dest)'
  BY <1>1, <1>2, <1>6, <1>7, <1>8 DEF Locked, Types, FileTypes, Names
<1>10. Own(f)'
  BY <1>1, <1>3, <1>6, <1>9 DEF Own, Types, ProcessTypes, Checked
<1>11. QED
  BY <1>1, <1>4, <1>5, <1>6, <1>7, <1>8, <1>10, ApartStep DEF Types, ProcessTypes, Working, Resting

LEMMA CopyBodyKeeps == ASSUME FetchInv, Next, NEW f \in Fetchers, CopyBody(f) PROVE FetchInv'
<1>1. /\ pc[f] = "copy" /\ pc' = [pc EXCEPT ![f] = "check"] /\ part' = part /\ dest' = dest
      /\ fd' = [fd EXCEPT ![f] = NoFile]
      /\ \/ bytes' = bytes
         \/ \E b \in {"locked", "wrong"} : bytes' = [bytes EXCEPT ![fd[f]] = b]
  BY DEF CopyBody, Goto, Close
<1>2. Types'
  BY <1>1 DEF FetchInv, Types, FileTypes, ProcessTypes, Names, Bytes, PCs, Next, Meet
<1>3. SUFFICES ASSUME ~met' PROVE ApartInv'
  BY <1>2 DEF FetchInv
<1>4. ApartInv /\ Types
  BY <1>3 DEF Next, Meet, FetchInv
<1>5. ~Locked(dest) /\ \A g \in Fetchers : pc[g] # "ok"
  BY <1>1, <1>4, NoneIsOwed DEF Replacing
<1>6. ~Locked(dest)'
  <2>1. fd[f] = part /\ (dest # NoFile => dest # part)
    BY <1>1, <1>4 DEF ApartInv
  <2>2. dest # NoFile => bytes'[dest] = bytes[dest]
    BY <1>1, <1>4, <2>1 DEF Types, FileTypes, Names
  <2>3. QED
    BY <1>1, <1>5, <2>2 DEF Locked
<1>7. Own(f)'
  BY <1>1, <1>4, <1>6 DEF Own, Types, ProcessTypes, Checked
<1>8. QED
  BY <1>1, <1>2, <1>3, <1>4, <1>5, <1>7, ApartStep DEF Types, ProcessTypes, Working, Resting, ApartInv

LEMMA UnlinkDestKeeps == ASSUME FetchInv, Next, NEW f \in Fetchers, UnlinkDest(f) PROVE FetchInv'
<1>1. /\ pc[f] = "replace" /\ dest' = NoFile /\ UNCHANGED <<part, bytes, fd>>
      /\ pc' = [pc EXCEPT ![f] = IF dest = NoFile THEN "err" ELSE "rename"]
  BY DEF UnlinkDest, Goto
<1>2. Types'
  BY <1>1 DEF FetchInv, Types, FileTypes, ProcessTypes, Names, PCs, Next, Meet
<1>3. SUFFICES ASSUME ~met' PROVE ApartInv'
  BY <1>2 DEF FetchInv
<1>4. ApartInv /\ Types
  BY <1>3 DEF Next, Meet, FetchInv
<1>5. \A g \in Fetchers : pc[g] # "ok"
  BY <1>1, <1>4, NoneIsOwed DEF Replacing
<1>6. Own(f)'
  BY <1>1, <1>4 DEF Own, ApartInv, Types, ProcessTypes, Locked, Replacing, Checked
<1>7. QED
  BY <1>1, <1>2, <1>3, <1>4, <1>5, <1>6, ApartStep DEF Types, ProcessTypes, Working, Resting

\* What is renamed into place is what was checked.
LEMMA RenamePartKeeps == ASSUME FetchInv, Next, NEW f \in Fetchers, RenamePart(f) PROVE FetchInv'
<1>1. /\ pc[f] = "rename" /\ UNCHANGED <<bytes, fd>>
      /\ \/ part = NoFile /\ pc' = [pc EXCEPT ![f] = "err"] /\ UNCHANGED <<dest, part>>
         \/ part # NoFile /\ pc' = [pc EXCEPT ![f] = "ok"] /\ dest' = part /\ part' = NoFile
  BY DEF RenamePart, Goto
<1>2. Types'
  BY <1>1 DEF FetchInv, Types, FileTypes, ProcessTypes, Names, PCs, Next, Meet
<1>3. SUFFICES ASSUME ~met' PROVE ApartInv'
  BY <1>2 DEF FetchInv
<1>4. ApartInv /\ Types
  BY <1>3 DEF Next, Meet, FetchInv
<1>5. \A g \in Fetchers : pc[g] # "ok"
  BY <1>1, <1>4, NoneIsOwed DEF Replacing
<1>6. Own(f)'
  BY <1>1, <1>4 DEF Own, ApartInv, Types, ProcessTypes, Locked, Replacing, Checked
<1>7. QED
  BY <1>1, <1>2, <1>3, <1>4, <1>5, <1>6, ApartStep DEF Types, ProcessTypes, Working, Resting, ApartInv

-----------------------------------------------------------------------------
LEMMA StepKeeps == FetchInv /\ [Next]_vars => FetchInv'
<1>1. ASSUME FetchInv, UNCHANGED vars PROVE FetchInv'
  BY <1>1 DEF vars, files, FetchInv, Types, FileTypes, ProcessTypes, ApartInv, Working, Locked
<1>2. ASSUME FetchInv, Next PROVE FetchInv'
  <2>1. PICK f \in Fetchers : StartFetch(f) \/ Step(f) \/ DownloadFails(f) \/ Crash(f)
    BY <1>2 DEF Next
  <2>2. /\ pc \in [Fetchers -> PCs] /\ fd \in [Fetchers -> Names] /\ Types
        /\ ~met /\ fd[f] # NoFile => pc[f] = "copy"
    BY <1>2 DEF FetchInv, Types, ProcessTypes, ApartInv
  <2>3. CASE StartFetch(f)
    BY <1>2, <2>2, <2>3, QuietStep DEF StartFetch, Goto, Working, Resting, Replacing, Checked, PCs
  <2>4. CASE VerifyDest(f)
    BY <1>2, <2>2, <2>4, QuietStep DEF VerifyDest, Goto, Working, Resting, Replacing, Checked, PCs
  <2>5. CASE LookPart(f)
    BY <1>2, <2>2, <2>5, QuietStep DEF LookPart, Goto, Working, Resting, Replacing, Checked, PCs
  <2>6. CASE CheckPart(f)
    <3>1. CASE Locked(part)
      BY <1>2, <2>2, <2>6, <3>1, QuietStep DEF CheckPart, Goto, Working, Resting, Replacing, Checked, PCs
    <3>2. CASE ~Locked(part)
      BY <1>2, <2>2, <2>6, <3>2, RetryGoes, QuietStep DEF CheckPart, Working, Resting, Replacing, Checked, PCs
    <3>3. QED
      BY <3>1, <3>2
  <2>7. CASE LookDest(f)
    BY <1>2, <2>2, <2>7, QuietStep DEF LookDest, Goto, Working, Resting, Replacing, Checked, PCs
  <2>8. CASE DownloadFails(f)
    BY <1>2, <2>2, <2>8, RetryGoes, QuietStep DEF DownloadFails, Close, Working, Resting, Replacing, Checked, PCs
  <2>9. CASE Crash(f)
    BY <1>2, <2>2, <2>9, QuietStep DEF Crash, Goto, Close, Replacing, Checked, PCs
  <2>10. QED
    BY <1>2, <2>1, <2>3, <2>4, <2>5, <2>6, <2>7, <2>8, <2>9, UnlinkPartKeeps, CreatePartKeeps,
       CopyBodyKeeps, UnlinkDestKeeps, RenamePartKeeps DEF Step
<1>3. QED
  BY <1>1, <1>2

\* For any number of fetchers and attempts, and whatever failed or crashed before: as long
\* as fetchers do not overlap, a fetch that succeeds leaves the locked bytes, and they stay.
THEOREM ApartFetchersAreExact == Spec => []ApartOkMeansLocked
<1>1. Init => FetchInv
  BY InitInv
<1>2. FetchInv /\ [Next]_vars => FetchInv'
  BY StepKeeps
<1>3. FetchInv => ApartOkMeansLocked
  BY DEF FetchInv, ApartInv, ApartOkMeansLocked, OkMeansLocked
<1>4. QED
  BY <1>1, <1>2, <1>3, PTL DEF Spec
=============================================================================
