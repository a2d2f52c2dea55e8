------------------------ MODULE ExperimentRun_proofs ------------------------
(***************************************************************************)
(* What the files of the evidence programs say, for any number of runs in  *)
(* one output, any step that raises, any interrupt, kill or replacement.   *)
(*                                                                         *)
(* The programs are not opened up here: what is used of them is            *)
(* ProgramsAssumption, which TLC evaluates on all forty-eight.             *)
(***************************************************************************)
EXTENDS ExperimentRun, TLAPS

Steps(r) == Code(r).steps

\* Run r has begun its output: what it began with is there, and is its own.
Gate(p) == FileAt(p, First(p))
Owns(r) == disk[Gate(Code(r))] # None /\ disk[Gate(Code(r))].by = {r}

\* Two runs execute one program, or one captures and the other audits.
ProgramsInv ==
    /\ program \in [Runs -> Names]
    /\ \A q, r \in Runs : program[q] # program[r] =>
          {program[q], program[r]} = {"source_capture", "source_audit"}

RunStates == {"absent", "running", "handling", "returned", "raised", "interrupted",
              "recorded", "lost", "killed"}
Versions == STRING \X {"registered", "changed"}
Places == [state : RunStates, at : Nat, half : BOOLEAN, kept : SUBSET Versions, seen : SUBSET Versions]

Types ==
    /\ ProgramsInv
    /\ disk \in [DOMAIN disk -> FileStates \cup {None}] /\ DOMAIN disk \subseteq STRING
    /\ \A r \in Runs : Output(Code(r)) \subseteq DOMAIN disk
    /\ drifted = None \/ drifted \in STRING
    /\ run \in [Runs -> Places]

\* Every file has one writer, who has begun the output.
WriterInv ==
    \A f \in DOMAIN disk : disk[f] # None =>
        \E q \in Runs : disk[f].by = {q} /\ Owns(q) /\ f \in Output(Code(q))

\* What a run has done by where it is.
PlaceInv ==
    \A r \in Runs :
        /\ run[r].state = "running" /\ First(Code(r)) < run[r].at => Owns(r)
        /\ run[r].state = "running" /\ run[r].half =>
              /\ run[r].at \in Writes(Code(r)) /\ Steps(r)[run[r].at].op \in {"put", "over"}
              /\ disk[FileAt(Code(r), run[r].at)] = Part(r)
        /\ run[r].state = "handling" => Owns(r)
        /\ run[r].state = "handling" /\ run[r].half => disk[Code(r).record] = Part(r)
        /\ run[r].state # "running" => run[r].seen = {}

\* What a running program has written is there, whole and its own; what it has not, but
\* for its journal, is not there.
DoneInv ==
    \A r \in Runs : run[r].state = "running" =>
        \A i \in Writes(Code(r)) :
            /\ i < run[r].at => IsWhole(FileAt(Code(r), i)) /\ disk[FileAt(Code(r), i)].by = {r}
            /\ Owns(r) /\ run[r].at <= i /\ FileAt(Code(r), i) \notin Journals =>
                  disk[FileAt(Code(r), i)] = None \/ (run[r].at = i /\ run[r].half)

FilesInv == Types /\ WriterInv /\ PlaceInv /\ DoneInv

-----------------------------------------------------------------------------
\* What is used of a program that is executed.
LEMMA InOrder ==
    ASSUME ProgramsInv, NEW r \in Runs
    PROVE  WritesInOrder(Code(r)) /\ GuardsItsResults(Code(r))
  BY ProgramsAssumption DEF ProgramsInv, Code

LEMMA NothingIsNone ==
    ASSUME NEW file \in FileStates
    PROVE  file # None
  BY NoneAssumption

\* A file that some run of r's programs has made: the file's writer executes r's program.
LEMMA SameProgram ==
    ASSUME Types, WriterInv, NEW r \in Runs, NEW f \in Written(Code(r)), disk[f] # None
    PROVE  \E q \in Runs : disk[f].by = {q} /\ Owns(q) /\ program[q] = program[r]
<1>1. f \in DOMAIN disk
  BY DEF Types, Output
<1>2. PICK q \in Runs : disk[f].by = {q} /\ Owns(q) /\ f \in Output(Code(q))
  BY <1>1 DEF WriterInv
<1>3. SUFFICES ASSUME program[q] # program[r]
               PROVE  FALSE
  BY <1>2
<1>4. {program[q], program[r]} = {"source_capture", "source_audit"}
  BY <1>3 DEF Types, ProgramsInv
<1>5. AuditsAfterCapture(Programs["source_capture"], Programs["source_audit"])
  BY ProgramsAssumption
<1>6. CASE program[r] = "source_capture" /\ program[q] = "source_audit"
  <2>1. f \in {"audit.json", "failure.json"} /\ f \in Written(Programs["source_capture"])
    BY <1>2, <1>5, <1>6 DEF Code, Output, AuditsAfterCapture
  <2>2. "source_capture" \in Names /\ f \in Output(Programs["source_capture"])
    BY <2>1, ProgramsAssumption DEF Output
  <2>3. QED
    BY <1>5, <2>1, <2>2 DEF AuditsAfterCapture
<1>7. CASE program[r] = "source_audit" /\ program[q] = "source_capture"
  <2>1. f = "audit.json" /\ f \in Output(Programs["source_capture"])
    BY <1>2, <1>5, <1>7 DEF Code, AuditsAfterCapture
  <2>2. "source_capture" \in Names
    BY ProgramsAssumption
  <2>3. QED
    BY <1>5, <2>1, <2>2 DEF AuditsAfterCapture
<1>8. QED
  BY <1>3, <1>4, <1>6, <1>7

\* What a run that has begun its output writes is its own, and the file it began with is
\* the only one of its program's to be there before.
LEMMA OwnFiles ==
    ASSUME Types, WriterInv, NEW r \in Runs, NEW f \in Written(Code(r)), disk[f] # None
    PROVE  /\ disk[Gate(Code(r))] # None
           /\ Owns(r) => disk[f].by = {r}
<1>1. PICK q \in Runs : disk[f].by = {q} /\ Owns(q) /\ program[q] = program[r]
  BY SameProgram
<1>2. Code(q) = Code(r)
  BY <1>1 DEF Code
<1>3. QED
  BY <1>1, <1>2 DEF Owns

-----------------------------------------------------------------------------
\* How a step of run r changes where runs are.
Moves(r, state, at, half) ==
    /\ run'[r].state = state /\ run'[r].at = at /\ run'[r].half = half
    /\ \A q \in Runs \ {r} : run'[q] = run[q]

\* How it changes the files: f was not there, or unfinished, or is a journal that grows.
Puts(r, f, new) ==
    /\ f \in Output(Code(r)) /\ new \in FileStates /\ new.by = {r}
    /\ disk' = [disk EXCEPT ![f] = new]
    /\ disk[f] = None \/ disk[f].by = {r}
    /\ disk[f] = None \/ ~disk[f].whole \/ (f \in Journals /\ new.whole)
    /\ UNCHANGED <<program, drifted>>

LEMMA FileStatesOf ==
    ASSUME NEW r \in Runs, NEW whole \in BOOLEAN, NEW failed \in BOOLEAN, NEW loose \in SUBSET STRING
    PROVE  LET file == FileOf({r}, whole, failed, loose) IN
           /\ file \in FileStates /\ file # None
           /\ file.by = {r} /\ file.whole = whole /\ file.failed = failed /\ file.loose = loose
<1>1. FileOf({r}, whole, failed, loose) \in FileStates
  BY DEF FileStates, FileOf
<1>2. QED
  BY <1>1, NothingIsNone DEF FileOf

\* Where a running program stands, and the file it is about to write.
LEMMA Here1 ==
    ASSUME Types, NEW r \in Runs, Running(r)
    PROVE  /\ run[r].state = "running" /\ run[r].at \in DOMAIN Steps(r)
           /\ run[r].at \in Nat /\ run[r].at + 1 \in Nat
           /\ Steps(r)[run[r].at].op \in Writing =>
                /\ run[r].at \in Writes(Code(r)) /\ File(r) = FileAt(Code(r), run[r].at)
                /\ File(r) \in Written(Code(r)) /\ File(r) \in Output(Code(r)) /\ File(r) \in DOMAIN disk
                /\ First(Code(r)) <= run[r].at /\ First(Code(r)) \in Nat
                /\ (File(r) \in Journals <=> Steps(r)[run[r].at].op = "log")
<1>1. run[r].at \in Nat /\ run[r].at \in DOMAIN Steps(r) /\ run[r].state = "running"
  BY DEF Types, Places, Running, Steps
<1>2. ASSUME Steps(r)[run[r].at].op \in Writing
      PROVE  /\ run[r].at \in Writes(Code(r)) /\ File(r) = FileAt(Code(r), run[r].at)
             /\ File(r) \in Written(Code(r)) /\ File(r) \in Output(Code(r)) /\ File(r) \in DOMAIN disk
  <2>1. run[r].at \in Writes(Code(r)) /\ File(r) = FileAt(Code(r), run[r].at)
    BY <1>1, <1>2 DEF Writes, Steps, File, FileAt, Here
  <2>2. QED
    BY <2>1 DEF Written, Output, Types
<1>3. ASSUME Steps(r)[run[r].at].op \in Writing
      PROVE  /\ First(Code(r)) <= run[r].at /\ First(Code(r)) \in Nat
             /\ (File(r) \in Journals <=> Steps(r)[run[r].at].op = "log")
  <2>1. WritesInOrder(Code(r))
    BY InOrder DEF Types
  <2>2. First(Code(r)) \in DOMAIN Steps(r) /\ DOMAIN Steps(r) \subseteq Nat
    BY <2>1 DEF WritesInOrder, Writes, Steps
  <2>3. QED
    BY <1>2, <1>3, <2>1, <2>2 DEF WritesInOrder, Steps
<1>4. QED
  BY <1>1, <1>2, <1>3

\* The steps of a run, by what they do: it passes on, writes the file it stands at, ends
\* its program, or writes its record.
Passes(r) ==
    /\ Running(r) /\ Steps(r)[run[r].at].op \notin Writing
    /\ Moves(r, "running", run[r].at + 1, FALSE)
    /\ UNCHANGED <<program, disk, drifted>>
WritesFile(r, new) ==
    /\ Running(r) /\ Steps(r)[run[r].at].op \in Writing /\ Puts(r, File(r), new) /\ ~new.failed
    /\ \/ new.whole /\ Moves(r, "running", run[r].at + 1, FALSE)
       \/ /\ new = Part(r) /\ Steps(r)[run[r].at].op \in {"put", "over"}
          /\ Moves(r, "running", run[r].at, TRUE)
    /\ disk[File(r)] = None \/ run[r].half \/ File(r) \in Journals
    /\ Steps(r)[run[r].at].op \in {"make", "put"} => disk[File(r)] = None \/ run[r].half
Ends(r, state) ==
    /\ run[r].state \in {"running", "handling"}
    /\ state \in RunStates \ {"absent", "running"} /\ Moves(r, state, 0, FALSE) /\ run'[r].seen = {}
    /\ state = "handling" => Running(r) /\ run[r].at \in Code(r).guarded
    /\ UNCHANGED <<program, disk, drifted>>
WritesRecord(r, new) ==
    /\ run[r].state = "handling" /\ Puts(r, Code(r).record, new)
    /\ \/ new = Part(r) /\ disk[Code(r).record] = None /\ Moves(r, "handling", run[r].at, TRUE)
       \/ /\ new.failed /\ new.whole /\ disk[Code(r).record] = Part(r)
          /\ Moves(r, "recorded", 0, FALSE)
    /\ run'[r].seen = {}

LEMMA ElementOf ==
    ASSUME NEW S, NEW s \in Seq(S), NEW i \in DOMAIN s
    PROVE  s[i] \in S
  OBVIOUS

\* Hashes and versions are of what is read.
LEMMA CurrentOf ==
    ASSUME Types, NEW r \in Runs, Running(r)
    PROVE  Current(Here(r)) \in SUBSET Versions
<1>1. Code(r).steps \in Seq([op : STRING, on : SUBSET STRING])
  BY InOrder DEF Types, WritesInOrder
<1>2. Here(r) \subseteq STRING
  <2>1. Code(r).steps[run[r].at] \in [op : STRING, on : SUBSET STRING]
    BY <1>1, ElementOf DEF Running
  <2>2. QED
    BY <2>1 DEF Here
<1>3. QED
  BY <1>2 DEF Current, Versions

LEMMA QuietOf ==
    ASSUME NEW state \in RunStates
    PROVE  /\ Quiet(state) \in Places /\ Quiet(state).state = state /\ Quiet(state).at = 0
           /\ Quiet(state).half = FALSE /\ Quiet(state).seen = {}
  BY DEF Quiet, Places

LEMMA PlaceFields ==
    ASSUME NEW p \in Places
    PROVE  /\ \A n \in Nat : [p EXCEPT !.at = n] \in Places
           /\ \A b \in BOOLEAN : [p EXCEPT !.half = b] \in Places
           /\ \A s \in SUBSET Versions : [p EXCEPT !.kept = s] \in Places
           /\ \A s \in SUBSET Versions : [p EXCEPT !.seen = s] \in Places
  BY DEF Places

\* A run goes on to its next step, whatever it keeps and sees at this one.
LEMMA GoingOn ==
    ASSUME Types, NEW r \in Runs, Running(r), Advance(r) \/ Keep(r) \/ See(r) \/ KeepAndSee(r)
    PROVE  /\ run' \in [Runs -> Places]
           /\ Moves(r, "running", run[r].at + 1, IF Advance(r) THEN FALSE ELSE run[r].half)
<1>1. run \in [Runs -> Places] /\ run[r] \in Places /\ run[r].state = "running"
  BY DEF Types, Running
<1>2. run[r].at + 1 \in Nat /\ run[r].seen \in SUBSET Versions /\ run[r].kept \in SUBSET Versions
  BY <1>1 DEF Places
<1> DEFINE things == Current(Here(r))
           kept == {k \in run[r].kept : k[1] \notin Here(r)} \cup things
           seen == run[r].seen \cup things
           next == [run[r] EXCEPT !.at = run[r].at + 1]
<1>3. kept \in SUBSET Versions /\ seen \in SUBSET Versions
  BY <1>2, CurrentOf
<1>4. next \in Places /\ [next EXCEPT !.half = FALSE] \in Places /\ [next EXCEPT !.kept = kept] \in Places
  BY <1>1, <1>2, <1>3, PlaceFields
<1>5. [next EXCEPT !.seen = seen] \in Places /\ [[next EXCEPT !.seen = seen] EXCEPT !.kept = kept] \in Places
  <2>1. [next EXCEPT !.seen = seen] \in Places
    BY <1>3, <1>4, PlaceFields
  <2>2. QED
    BY <1>3, <2>1, PlaceFields
<1>6. CASE Advance(r)
  <2>1. run' = [run EXCEPT ![r] = [next EXCEPT !.half = FALSE]]
    BY <1>6 DEF Advance
  <2>2. run'[r].state = "running" /\ run'[r].at = run[r].at + 1 /\ run'[r].half = FALSE
    BY <1>1, <1>6 DEF Advance, Places
  <2>3. QED
    BY <1>1, <1>4, <1>6, <2>1, <2>2 DEF Moves
<1>7. CASE Keep(r) /\ ~Advance(r)
  <2>1. run' = [run EXCEPT ![r] = [next EXCEPT !.kept = kept]]
    BY <1>7 DEF Keep
  <2>2. run'[r].state = "running" /\ run'[r].at = run[r].at + 1 /\ run'[r].half = run[r].half
    BY <1>1, <1>7 DEF Keep, Places
  <2>3. QED
    BY <1>1, <1>4, <1>7, <2>1, <2>2 DEF Moves
<1>8. CASE See(r) /\ ~Advance(r)
  <2>1. run' = [run EXCEPT ![r] = [next EXCEPT !.seen = seen]]
    BY <1>8 DEF See
  <2>2. run'[r].state = "running" /\ run'[r].at = run[r].at + 1 /\ run'[r].half = run[r].half
    BY <1>1, <1>8 DEF See, Places
  <2>3. QED
    BY <1>1, <1>5, <1>8, <2>1, <2>2 DEF Moves
<1>9. CASE KeepAndSee(r) /\ ~Advance(r)
  <2>1. run' = [run EXCEPT ![r] = [[next EXCEPT !.seen = seen] EXCEPT !.kept = kept]]
    BY <1>9 DEF KeepAndSee
  <2>2. run'[r].state = "running" /\ run'[r].at = run[r].at + 1 /\ run'[r].half = run[r].half
    BY <1>1, <1>9 DEF KeepAndSee, Places
  <2>3. QED
    BY <1>1, <1>5, <1>9, <2>1, <2>2 DEF Moves
<1>10. QED
  BY <1>6, <1>7, <1>8, <1>9

LEMMA Passing ==
    ASSUME Types, PlaceInv, NEW r \in Runs,
           CheckFresh(r) \/ ReadOwn(r) \/ CompareRegistered(r) \/ KeepHash(r) \/ CompareKept(r)
             \/ ReadContent(r) \/ ReadVerified(r) \/ ReadAndHash(r) \/ PrintLine(r)
    PROVE  Passes(r) /\ run' \in [Runs -> Places]
<1>1. Running(r) /\ UNCHANGED <<program, disk, drifted>>
  BY DEF CheckFresh, ReadOwn, CompareRegistered, KeepHash, CompareKept, ReadContent,
         ReadVerified, ReadAndHash, PrintLine, At
<1>2. Steps(r)[run[r].at].op \notin Writing
  BY DEF CheckFresh, ReadOwn, CompareRegistered, KeepHash, CompareKept, ReadContent,
         ReadVerified, ReadAndHash, PrintLine, At, Steps, Writing
<1>3. Advance(r) \/ Keep(r) \/ See(r) \/ KeepAndSee(r)
  BY DEF CheckFresh, ReadOwn, CompareRegistered, KeepHash, CompareKept, ReadContent,
         ReadVerified, ReadAndHash, PrintLine
<1>4. run[r].half = FALSE
  <2>1. run[r].half \in BOOLEAN /\ run[r].state = "running"
    BY <1>1 DEF Types, Places, Running
  <2>2. QED
    BY <1>2, <2>1 DEF PlaceInv, Writing
<1>5. QED
  BY <1>1, <1>2, <1>3, <1>4, GoingOn DEF Passes

LEMMA HalfWritten ==
    ASSUME Types, NEW r \in Runs, run' = [run EXCEPT ![r].half = TRUE]
    PROVE  /\ run' \in [Runs -> Places]
           /\ Moves(r, run[r].state, run[r].at, TRUE) /\ run'[r].seen = run[r].seen
<1>1. run \in [Runs -> Places] /\ run[r] \in Places
  BY DEF Types
<1>2. [run[r] EXCEPT !.half = TRUE] \in Places
  BY <1>1, PlaceFields
<1>3. run' \in [Runs -> Places]
  BY <1>1, <1>2
<1>4. QED
  BY <1>1, <1>3 DEF Moves, Places

LEMMA Unfinished ==
    ASSUME NEW r \in Runs, NEW f, disk[f] = Part(r)
    PROVE  disk[f] # None /\ disk[f].by = {r} /\ ~disk[f].whole
<1>1. Part(r) = FileOf({r}, FALSE, FALSE, {})
  BY DEF Part
<1>2. Part(r).by = {r} /\ ~Part(r).whole
  BY <1>1 DEF FileOf
<1>3. Part(r) \in FileStates
  BY <1>1 DEF FileStates, FileOf
<1>4. QED
  BY <1>2, <1>3, NothingIsNone

\* A file is only ever written by its own run, over nothing, over its own unfinished
\* file, or as a journal.
LEMMA Making ==
    ASSUME FilesInv, NEW r \in Runs, MakeDirectory(r)
    PROVE  WritesFile(r, Whole(r)) /\ run' \in [Runs -> Places]
<1>1. Running(r) /\ Steps(r)[run[r].at].op = "make" /\ disk[File(r)] = None
  BY DEF MakeDirectory, At, Steps
<1>2. File(r) \in Output(Code(r))
  BY <1>1, Here1 DEF FilesInv, Writing
<1>3. Puts(r, File(r), Whole(r)) /\ ~Whole(r).failed /\ Whole(r).whole
  BY <1>1, <1>2, FileStatesOf DEF MakeDirectory, Puts, Whole
<1>4. run' \in [Runs -> Places] /\ Moves(r, "running", run[r].at + 1, FALSE)
  BY <1>1, GoingOn DEF MakeDirectory, FilesInv
<1>5. QED
  BY <1>1, <1>3, <1>4 DEF WritesFile, Writing

LEMMA Opening ==
    ASSUME FilesInv, NEW r \in Runs, OpenNew(r) \/ OpenOver(r)
    PROVE  WritesFile(r, Part(r)) /\ run' \in [Runs -> Places] /\ disk[File(r)] = None
<1>1. Running(r) /\ Steps(r)[run[r].at].op \in {"put", "over"} /\ ~run[r].half
      /\ disk' = [disk EXCEPT ![File(r)] = Part(r)] /\ UNCHANGED <<program, drifted>>
  BY DEF OpenNew, OpenOver, At, Steps
<1>2. File(r) \in Output(Code(r)) /\ run[r].at \in Writes(Code(r)) /\ File(r) = FileAt(Code(r), run[r].at)
      /\ First(Code(r)) \in Nat /\ First(Code(r)) <= run[r].at /\ run[r].at \in Nat
      /\ File(r) \notin Journals
  BY <1>1, Here1 DEF FilesInv, Writing
<1>3. disk[File(r)] = None
  <2>1. CASE OpenNew(r)
    BY <2>1 DEF OpenNew
  <2>2. CASE OpenOver(r)
    <3>1. Steps(r)[run[r].at].op = "over"
      BY <2>2 DEF OpenOver, At, Steps
    <3>2. Steps(r)[First(Code(r))].op \in {"make", "put"}
      BY InOrder DEF WritesInOrder, Steps, FilesInv, Types
    <3>3. First(Code(r)) < run[r].at
      BY <1>2, <3>1, <3>2
    <3>4. run[r].state = "running"
      BY <1>1 DEF Running
    <3>5. Owns(r)
      BY <3>3, <3>4 DEF FilesInv, PlaceInv
    <3>6. QED
      BY <1>1, <1>2, <3>4, <3>5 DEF FilesInv, DoneInv
  <2>3. QED
    BY <2>1, <2>2
<1>4. Puts(r, File(r), Part(r)) /\ ~Part(r).failed
  BY <1>1, <1>2, <1>3, FileStatesOf DEF Puts, Part
<1>5. run' \in [Runs -> Places] /\ Moves(r, "running", run[r].at, TRUE)
  <2>1. run' = [run EXCEPT ![r].half = TRUE]
    BY DEF OpenNew, OpenOver
  <2>2. QED
    BY <1>1, <2>1, HalfWritten DEF FilesInv, Running
<1>6. QED
  BY <1>1, <1>3, <1>4, <1>5 DEF WritesFile, Writing

LEMMA Finishing ==
    ASSUME FilesInv, NEW r \in Runs, FinishFile(r)
    PROVE  /\ WritesFile(r, FileOf({r}, TRUE, FALSE, Unhashed(r))) /\ run' \in [Runs -> Places]
           /\ disk[File(r)] = Part(r) /\ Moves(r, "running", run[r].at + 1, FALSE)
<1>1. Running(r) /\ run[r].half /\ run[r].state = "running"
  BY DEF FinishFile, Running
<1>2. Steps(r)[run[r].at].op \in Writing /\ run[r].at \in Writes(Code(r))
      /\ disk[FileAt(Code(r), run[r].at)] = Part(r)
  BY <1>1 DEF FilesInv, PlaceInv, Writing
<1>3. File(r) \in Output(Code(r)) /\ disk[File(r)] = Part(r)
  BY <1>1, <1>2, Here1 DEF FilesInv
<1>4. Unhashed(r) \in SUBSET STRING
  BY DEF Unhashed, FilesInv, Types, Places, Versions
<1>5. /\ Puts(r, File(r), FileOf({r}, TRUE, FALSE, Unhashed(r)))
      /\ ~FileOf({r}, TRUE, FALSE, Unhashed(r)).failed /\ FileOf({r}, TRUE, FALSE, Unhashed(r)).whole
  <2>1. disk[File(r)] # None /\ disk[File(r)].by = {r} /\ ~disk[File(r)].whole
    BY <1>3, Unfinished
  <2>2. QED
    BY <1>3, <1>4, <2>1, FileStatesOf DEF FinishFile, Puts
<1>6. run' \in [Runs -> Places] /\ Moves(r, "running", run[r].at + 1, FALSE)
  BY <1>1, GoingOn DEF FinishFile, FilesInv
<1>7. QED
  BY <1>1, <1>2, <1>3, <1>5, <1>6 DEF WritesFile

LEMMA Appending ==
    ASSUME FilesInv, NEW r \in Runs, AppendLine(r)
    PROVE  WritesFile(r, Whole(r)) /\ run' \in [Runs -> Places] /\ File(r) \in Journals
<1>1. Running(r) /\ Steps(r)[run[r].at].op = "log" /\ run[r].state = "running"
  BY DEF AppendLine, At, Steps, Running
<1>2. File(r) \in Output(Code(r)) /\ run[r].at \in Writes(Code(r)) /\ File(r) \in Written(Code(r))
      /\ First(Code(r)) \in Nat /\ First(Code(r)) <= run[r].at /\ run[r].at \in Nat
      /\ File(r) \in Journals /\ File(r) \in DOMAIN disk
  BY <1>1, Here1 DEF FilesInv, Writing
<1>3. Owns(r)
  <2>1. Steps(r)[First(Code(r))].op \in {"make", "put"}
    BY InOrder DEF WritesInOrder, Steps, FilesInv, Types
  <2>2. First(Code(r)) < run[r].at
    BY <1>1, <1>2, <2>1
  <2>3. QED
    BY <1>1, <2>2 DEF FilesInv, PlaceInv
<1>4. disk[File(r)] = None \/ disk[File(r)].by = {r}
  BY <1>2, <1>3, OwnFiles DEF FilesInv
<1>5. disk' = [disk EXCEPT ![File(r)] = Whole(r)] /\ UNCHANGED <<program, drifted>>
  <2>1. (IF disk[File(r)] = None THEN {r} ELSE disk[File(r)].by \cup {r}) = {r}
    BY <1>4
  <2>2. QED
    BY <1>2, <2>1 DEF AppendLine, Whole
<1>6. Puts(r, File(r), Whole(r)) /\ ~Whole(r).failed /\ Whole(r).whole
  BY <1>2, <1>4, <1>5, FileStatesOf DEF Puts, Whole
<1>7. run' \in [Runs -> Places] /\ Moves(r, "running", run[r].at + 1, FALSE)
  BY <1>1, GoingOn DEF AppendLine, FilesInv
<1>8. QED
  BY <1>1, <1>2, <1>6, <1>7 DEF WritesFile, Writing

LEMMA Recording ==
    ASSUME FilesInv, NEW r \in Runs, OpenRecord(r) \/ FinishRecord(r)
    PROVE  run' \in [Runs -> Places] /\ \E new \in FileStates : WritesRecord(r, new)
<1>1. run[r].state = "handling" /\ Code(r).record \in Output(Code(r)) /\ run[r].seen = {}
  BY DEF OpenRecord, FinishRecord, Output, FilesInv, PlaceInv
<1>2. CASE OpenRecord(r)
  <2>1. Puts(r, Code(r).record, Part(r))
    BY <1>1, <1>2, FileStatesOf DEF OpenRecord, Puts, Part
  <2>2. run' \in [Runs -> Places] /\ Moves(r, "handling", run[r].at, TRUE) /\ run'[r].seen = run[r].seen
    BY <1>1, <1>2, HalfWritten DEF OpenRecord, FilesInv
  <2>3. QED
    BY <1>1, <1>2, <2>1, <2>2 DEF OpenRecord, WritesRecord, Puts
<1>3. CASE FinishRecord(r)
  <2>1. disk[Code(r).record] = Part(r)
    BY <1>3 DEF FinishRecord, FilesInv, PlaceInv
  <2>2. Puts(r, Code(r).record, FileOf({r}, TRUE, TRUE, {}))
    <3>1. disk[Code(r).record] # None /\ disk[Code(r).record].by = {r} /\ ~disk[Code(r).record].whole
      BY <2>1, Unfinished
    <3>2. QED
      BY <1>1, <1>3, <3>1, FileStatesOf DEF FinishRecord, Puts
  <2>3. FileOf({r}, TRUE, TRUE, {}).failed /\ FileOf({r}, TRUE, TRUE, {}).whole
    BY FileStatesOf
  <2>4. run' \in [Runs -> Places] /\ Moves(r, "recorded", 0, FALSE) /\ run'[r].seen = {}
    BY <1>3, QuietOf DEF FinishRecord, Moves, FilesInv, Types, RunStates
  <2>5. QED
    BY <1>1, <2>1, <2>2, <2>3, <2>4 DEF WritesRecord, Puts
<1>4. QED
  BY <1>2, <1>3

LEMMA Ending ==
    ASSUME FilesInv, NEW r \in Runs,
           Return(r) \/ HandlerFails(r) \/ Kill(r) \/ (\E kind \in Anything : Raise(r, kind))
    PROVE  run' \in [Runs -> Places] /\ \E state \in RunStates : Ends(r, state)
<1>1. ASSUME NEW state \in RunStates \ {"absent", "running"}, run' = [run EXCEPT ![r] = Quiet(state)],
             run[r].state \in {"running", "handling"}, UNCHANGED <<program, disk, drifted>>,
             state = "handling" => Running(r) /\ run[r].at \in Code(r).guarded
      PROVE  run' \in [Runs -> Places] /\ Ends(r, state)
  BY <1>1, QuietOf DEF Ends, Moves, FilesInv, Types
<1>2. CASE Return(r)
  BY <1>1, <1>2 DEF Return, RunStates
<1>3. CASE HandlerFails(r)
  BY <1>1, <1>3 DEF HandlerFails, RunStates
<1>4. CASE Kill(r)
  BY <1>1, <1>4 DEF Kill, RunStates
<1>5. ASSUME NEW kind \in Anything, Raise(r, kind)
      PROVE  run' \in [Runs -> Places] /\ \E state \in RunStates : Ends(r, state)
  <2> DEFINE state == IF run[r].at \in Code(r).guarded /\ kind \in Code(r).catches
                      THEN "handling"
                      ELSE IF kind = "error" THEN "raised" ELSE "interrupted"
  <2>1. state \in RunStates \ {"absent", "running"}
    BY DEF RunStates
  <2>2. run' = [run EXCEPT ![r] = Quiet(state)] /\ Running(r) /\ UNCHANGED <<program, disk, drifted>>
        /\ run[r].state = "running"
    BY <1>5 DEF Raise, Running
  <2>3. state = "handling" => run[r].at \in Code(r).guarded
    OBVIOUS
  <2>4. QED
    BY <1>1, <2>1, <2>2, <2>3
<1>6. QED
  BY <1>2, <1>3, <1>4, <1>5

-----------------------------------------------------------------------------
\* What a written file leaves of the others, and that what is whole stays so.
LEMMA PutLeaves ==
    ASSUME Types, NEW r \in Runs, NEW f, NEW new, Puts(r, f, new)
    PROVE  /\ f \in DOMAIN disk /\ DOMAIN disk' = DOMAIN disk /\ disk'[f] = new /\ new # None
           /\ disk' \in [DOMAIN disk -> FileStates \cup {None}]
           /\ \A g \in DOMAIN disk \ {f} : disk'[g] = disk[g]
           /\ \A g \in DOMAIN disk, q \in Runs : disk[g] # None /\ disk[g].by = {q} =>
                 /\ disk'[g] # None /\ disk'[g].by = {q}
                 /\ disk[g].whole => disk'[g].whole
<1>1. f \in DOMAIN disk
  BY DEF Types, Puts
<1>2. /\ DOMAIN disk' = DOMAIN disk /\ disk'[f] = new /\ new # None
      /\ disk' \in [DOMAIN disk -> FileStates \cup {None}]
      /\ \A g \in DOMAIN disk \ {f} : disk'[g] = disk[g]
  BY <1>1, NothingIsNone DEF Types, Puts
<1>3. ASSUME NEW g \in DOMAIN disk, NEW q \in Runs, disk[g] # None, disk[g].by = {q}
      PROVE  disk'[g] # None /\ disk'[g].by = {q} /\ (disk[g].whole => disk'[g].whole)
  <2>1. CASE g = f
    BY <1>2, <1>3, <2>1 DEF Puts
  <2>2. CASE g # f
    BY <1>2, <1>3, <2>2
  <2>3. QED
    BY <2>1, <2>2
<1>4. QED
  BY <1>1, <1>2, <1>3

\* A run that has begun its output has begun it for good, and only by itself.
LEMMA OwnsStays ==
    ASSUME Types, NEW r \in Runs, NEW f, NEW new, Puts(r, f, new), NEW q \in Runs
    PROVE  /\ Code(q)' = Code(q)
           /\ Owns(q) => Owns(q)'
           /\ q # r /\ Owns(q)' => Owns(q)
           /\ f = Gate(Code(r)) => Owns(r)'
<1>1. Code(q)' = Code(q) /\ Code(r)' = Code(r)
  BY DEF Puts, Code
<1>2. ASSUME NEW p \in Runs PROVE Gate(Code(p)) \in DOMAIN disk
  <2>1. First(Code(p)) \in Writes(Code(p))
    BY InOrder DEF Types, WritesInOrder
  <2>2. QED
    BY <2>1 DEF Gate, Written, Output, Types
<1>3. Owns(q) => Owns(q)'
  BY <1>1, <1>2, PutLeaves DEF Owns
<1>4. ASSUME q # r, Owns(q)' PROVE Owns(q)
  <2>1. Gate(Code(q)) # f
    <3>1. new.by = {r} /\ disk'[f] = new
      BY PutLeaves DEF Puts
    <3>2. QED
      BY <1>1, <1>4, <3>1 DEF Owns
  <2>2. QED
    BY <1>1, <1>2, <1>4, <2>1, PutLeaves DEF Owns
<1>5. f = Gate(Code(r)) => Owns(r)'
  <2>1. disk'[f] # None /\ disk'[f].by = {r}
    BY PutLeaves DEF Puts
  <2>2. QED
    BY <1>1, <2>1 DEF Owns
<1>6. QED
  BY <1>1, <1>3, <1>4, <1>5

\* One step of run r.
Act(r) ==
    \/ CheckFresh(r) \/ MakeDirectory(r) \/ OpenNew(r) \/ OpenOver(r) \/ FinishFile(r)
    \/ AppendLine(r) \/ ReadOwn(r) \/ CompareRegistered(r) \/ KeepHash(r) \/ CompareKept(r)
    \/ ReadContent(r) \/ ReadVerified(r) \/ ReadAndHash(r) \/ PrintLine(r) \/ Return(r)
    \/ \E kind \in Anything : Raise(r, kind)
    \/ OpenRecord(r) \/ FinishRecord(r) \/ HandlerFails(r) \/ Kill(r) \/ Drift(r)

LEMMA NextIsAct == Next <=> \E r \in Runs : Act(r)
  BY DEF Next, Act

LEMMA Kinds ==
    ASSUME FilesInv, NEW r \in Runs, Act(r)
    PROVE  /\ run' \in [Runs -> Places] /\ program' = program /\ (drifted' = None \/ drifted' \in STRING)
           /\ \/ Passes(r)
              \/ \E new \in FileStates : WritesFile(r, new)
              \/ \E state \in RunStates : Ends(r, state)
              \/ \E new \in FileStates : WritesRecord(r, new)
              \/ UNCHANGED <<program, disk, run>>
<1> USE DEF FilesInv
<1>1. CASE CheckFresh(r) \/ ReadOwn(r) \/ CompareRegistered(r) \/ KeepHash(r) \/ CompareKept(r)
             \/ ReadContent(r) \/ ReadVerified(r) \/ ReadAndHash(r) \/ PrintLine(r)
  BY <1>1, Passing DEF Passes, Types
<1>2. CASE MakeDirectory(r)
  BY <1>2, Making DEF WritesFile, Puts, Types
<1>3. CASE OpenNew(r) \/ OpenOver(r)
  BY <1>3, Opening DEF WritesFile, Puts, Types
<1>4. CASE FinishFile(r)
  BY <1>4, Finishing DEF WritesFile, Puts, Types
<1>5. CASE AppendLine(r)
  BY <1>5, Appending DEF WritesFile, Puts, Types
<1>6. CASE Return(r) \/ HandlerFails(r) \/ Kill(r) \/ \E kind \in Anything : Raise(r, kind)
  BY <1>6, Ending DEF Ends, Types
<1>7. CASE OpenRecord(r) \/ FinishRecord(r)
  BY <1>7, Recording DEF WritesRecord, Puts, Types
<1>8. CASE Drift(r)
  <2>1. drifted' \in STRING
    <3>1. PICK i \in DOMAIN Code(r).steps : drifted' \in Code(r).steps[i].on
      BY <1>8 DEF Drift
    <3>2. Code(r).steps \in Seq([op : STRING, on : SUBSET STRING])
      BY InOrder DEF Types, WritesInOrder
    <3>3. Code(r).steps[i] \in [op : STRING, on : SUBSET STRING]
      BY <3>2, ElementOf
    <3>4. QED
      BY <3>1, <3>3
  <2>2. QED
    BY <1>8, <2>1 DEF Drift, Types
<1>9. QED
  BY <1>1, <1>2, <1>3, <1>4, <1>5, <1>6, <1>7, <1>8 DEF Act

-----------------------------------------------------------------------------
\* The invariant, part by part.
LEMMA TypesKeep == ASSUME FilesInv, NEW r \in Runs, Act(r) PROVE Types'
<1>1. /\ run' \in [Runs -> Places] /\ program' = program /\ (drifted' = None \/ drifted' \in STRING)
      /\ DOMAIN disk' = DOMAIN disk /\ disk' \in [DOMAIN disk -> FileStates \cup {None}]
  <2>1. ASSUME NEW f, NEW new, Puts(r, f, new)
        PROVE  DOMAIN disk' = DOMAIN disk /\ disk' \in [DOMAIN disk -> FileStates \cup {None}]
    BY <2>1, PutLeaves DEF FilesInv
  <2>2. UNCHANGED disk => DOMAIN disk' = DOMAIN disk /\ disk' \in [DOMAIN disk -> FileStates \cup {None}]
    BY DEF FilesInv, Types
  <2>3. QED
    BY <2>1, <2>2, Kinds DEF Passes, WritesFile, Ends, WritesRecord
<1>2. \A q \in Runs : Code(q)' = Code(q)
  BY <1>1 DEF Code
<1>3. QED
  BY <1>1, <1>2 DEF FilesInv, Types, ProgramsInv

\* A run that writes its first file has begun the output; one that writes another had.
LEMMA WriterOwns ==
    ASSUME FilesInv, NEW r \in Runs, NEW new, WritesFile(r, new) \/ WritesRecord(r, new)
    PROVE  Owns(r)'
<1>1. CASE WritesFile(r, new)
  <2>1. /\ Running(r) /\ Steps(r)[run[r].at].op \in Writing /\ Puts(r, File(r), new)
        /\ run[r].state = "running"
    BY <1>1 DEF WritesFile, Running
  <2>2. /\ File(r) = FileAt(Code(r), run[r].at) /\ run[r].at \in Nat
        /\ First(Code(r)) <= run[r].at /\ First(Code(r)) \in Nat
    BY <2>1, Here1 DEF FilesInv
  <2>3. CASE First(Code(r)) = run[r].at
    BY <2>1, <2>2, <2>3, OwnsStays DEF Gate, FilesInv
  <2>4. CASE First(Code(r)) < run[r].at
    <3>1. Owns(r)
      BY <2>1, <2>4 DEF FilesInv, PlaceInv
    <3>2. QED
      BY <2>1, <3>1, OwnsStays DEF FilesInv
  <2>5. QED
    BY <2>2, <2>3, <2>4
<1>2. CASE WritesRecord(r, new)
  <2>1. Owns(r) /\ Puts(r, Code(r).record, new)
    BY <1>2 DEF WritesRecord, FilesInv, PlaceInv
  <2>2. QED
    BY <2>1, OwnsStays DEF FilesInv
<1>3. QED
  BY <1>1, <1>2

LEMMA WriterKeeps == ASSUME FilesInv, NEW r \in Runs, Act(r) PROVE WriterInv'
<1>1. CASE UNCHANGED <<program, disk>>
  BY <1>1 DEF FilesInv, WriterInv, Owns, Code, Gate
<1>2. ASSUME NEW f, NEW new, Puts(r, f, new), Owns(r)'
      PROVE  WriterInv'
  <2>1. SUFFICES ASSUME NEW g \in DOMAIN disk', disk'[g] # None
                 PROVE  \E q \in Runs : disk'[g].by = {q} /\ Owns(q)' /\ g \in Output(Code(q)')
    BY DEF WriterInv
  <2>2. CASE g = f
    <3>1. disk'[g].by = {r} /\ g \in Output(Code(r)) /\ Code(r)' = Code(r)
      BY <1>2, <2>2, PutLeaves, OwnsStays DEF Puts, FilesInv
    <3>2. QED
      BY <1>2, <3>1
  <2>3. CASE g # f
    <3>1. g \in DOMAIN disk /\ disk'[g] = disk[g]
      BY <1>2, <2>1, <2>3, PutLeaves DEF FilesInv
    <3>2. PICK q \in Runs : disk[g].by = {q} /\ Owns(q) /\ g \in Output(Code(q))
      BY <2>1, <3>1 DEF FilesInv, WriterInv
    <3>3. Owns(q)' /\ Code(q)' = Code(q)
      BY <1>2, <3>2, OwnsStays DEF FilesInv
    <3>4. QED
      BY <3>1, <3>2, <3>3
  <2>4. QED
    BY <2>2, <2>3
<1>3. ASSUME NEW new \in FileStates, WritesFile(r, new) \/ WritesRecord(r, new)
      PROVE  WriterInv'
  <2>1. \E f : Puts(r, f, new)
    BY <1>3 DEF WritesFile, WritesRecord
  <2>2. QED
    BY <1>2, <1>3, <2>1, WriterOwns
<1>4. QED
  BY <1>1, <1>3, Kinds DEF Passes, Ends

\* A write leaves what is known of the other runs' places and files.
LEMMA OthersPlaces ==
    ASSUME FilesInv, NEW r \in Runs, NEW f, NEW new, Puts(r, f, new), NEW q \in Runs, q # r
    PROVE  /\ Owns(q)' <=> Owns(q)
           /\ \A g \in DOMAIN disk : disk[g] = Part(q) => disk'[g] = Part(q)
           /\ \A g \in DOMAIN disk : disk[g] = None \/ disk'[g] = disk[g] \/ disk'[g].by = {r}
<1>1. Owns(q)' <=> Owns(q)
  BY OwnsStays DEF FilesInv
<1>2. ASSUME NEW g \in DOMAIN disk, disk[g] = Part(q)
      PROVE  disk'[g] = Part(q)
  <2>1. disk[g] # None /\ disk[g].by = {q}
    BY <1>2, Unfinished
  <2>2. g # f
    BY <2>1 DEF Puts
  <2>3. QED
    BY <1>2, <2>2, PutLeaves DEF FilesInv
<1>3. \A g \in DOMAIN disk : disk[g] = None \/ disk'[g] = disk[g] \/ disk'[g].by = {r}
  BY PutLeaves DEF Puts, FilesInv
<1>4. QED
  BY <1>1, <1>2, <1>3

PlaceOf(r) ==
    /\ run[r].state = "running" /\ First(Code(r)) < run[r].at => Owns(r)
    /\ run[r].state = "running" /\ run[r].half =>
          /\ run[r].at \in Writes(Code(r)) /\ Steps(r)[run[r].at].op \in {"put", "over"}
          /\ disk[FileAt(Code(r), run[r].at)] = Part(r)
    /\ run[r].state = "handling" => Owns(r)
    /\ run[r].state = "handling" /\ run[r].half => disk[Code(r).record] = Part(r)
    /\ run[r].state # "running" => run[r].seen = {}
DoneOf(r) ==
    run[r].state = "running" =>
        \A i \in Writes(Code(r)) :
            /\ i < run[r].at => IsWhole(FileAt(Code(r), i)) /\ disk[FileAt(Code(r), i)].by = {r}
            /\ Owns(r) /\ run[r].at <= i /\ FileAt(Code(r), i) \notin Journals =>
                  disk[FileAt(Code(r), i)] = None \/ (run[r].at = i /\ run[r].half)

LEMMA WritersKnown ==
    Types /\ WriterInv => \A s \in Runs : \A h \in Written(Code(s)) : disk[h] # None =>
        \E p \in Runs : disk[h].by = {p} /\ Owns(p) /\ program[p] = program[s]
  BY SameProgram

LEMMA OthersKeep ==
    ASSUME FilesInv, NEW r \in Runs, NEW f, NEW new, Puts(r, f, new), WriterInv', Types',
           NEW q \in Runs, q # r, run'[q] = run[q]
    PROVE  PlaceOf(q)' /\ DoneOf(q)'
<1>1. Code(q)' = Code(q) /\ Steps(q)' = Steps(q) /\ (Owns(q)' <=> Owns(q)) /\ Part(q)' = Part(q)
  BY OthersPlaces, OwnsStays DEF Steps, FilesInv, Part
<1>2. PlaceOf(q) /\ DoneOf(q)
  BY DEF FilesInv, PlaceInv, PlaceOf, DoneInv, DoneOf
<1>3. \A i \in Writes(Code(q)) : FileAt(Code(q), i) \in DOMAIN disk /\ FileAt(Code(q), i) \in Written(Code(q))
  BY DEF FilesInv, Types, Output, Written
<1>4. Code(q).record \in DOMAIN disk
  BY DEF FilesInv, Types, Output
<1>5. PlaceOf(q)'
  <2>1. run[q].state = "running" /\ run[q].half =>
            disk'[FileAt(Code(q), run[q].at)] = Part(q)
    BY <1>2, <1>3, OthersPlaces DEF PlaceOf
  <2>2. run[q].state = "handling" /\ run[q].half => disk'[Code(q).record] = Part(q)
    BY <1>2, <1>4, OthersPlaces DEF PlaceOf
  <2>3. QED
    BY <1>1, <1>2, <2>1, <2>2 DEF PlaceOf
<1>6. ASSUME run[q].state = "running", NEW i \in Writes(Code(q))
      PROVE  LET g == FileAt(Code(q), i) IN
             /\ i < run[q].at => IsWhole(g)' /\ disk'[g].by = {q}
             /\ Owns(q) /\ run[q].at <= i /\ g \notin Journals =>
                   disk'[g] = None \/ (run[q].at = i /\ run[q].half)
  <2> DEFINE g == FileAt(Code(q), i)
  <2>1. g \in DOMAIN disk /\ DOMAIN disk' = DOMAIN disk /\ g \in Written(Code(q))
    BY <1>3, PutLeaves DEF FilesInv
  <2>2. i < run[q].at => IsWhole(g)' /\ disk'[g].by = {q}
    <3>1. i < run[q].at => disk[g] # None /\ disk[g].whole /\ disk[g].by = {q}
      BY <1>2, <1>6 DEF DoneOf, IsWhole, Exists
    <3>2. QED
      <4>1. i < run[q].at => disk'[g] # None /\ disk'[g].whole /\ disk'[g].by = {q}
        BY <2>1, <3>1, PutLeaves DEF FilesInv
      <4>2. QED
        BY <1>1, <2>1, <4>1 DEF IsWhole, Exists
  <2>3. ASSUME Owns(q), run[q].at <= i, g \notin Journals, disk'[g] # None, ~(run[q].at = i /\ run[q].half)
        PROVE  FALSE
    <3>1. disk[g] = None
      BY <1>2, <1>6, <2>3 DEF DoneOf
    <3>2. disk'[g].by = {r}
      <4>1. g = f
        BY <2>1, <2>3, <3>1, PutLeaves DEF FilesInv
      <4>2. QED
        <5>1. disk'[f] = new /\ new.by = {r}
          BY PutLeaves DEF FilesInv, Puts
        <5>2. QED
          BY <4>1, <5>1
    <3>3. PICK p \in Runs : disk'[g].by = {p} /\ Owns(p)' /\ program'[p] = program'[q]
      <4>1. g \in Written(Code(q)')
        BY <1>1, <2>1
      <4>2. (\A s \in Runs : \A h \in Written(Code(s)) : disk[h] # None =>
               \E p \in Runs : disk[h].by = {p} /\ Owns(p) /\ program[p] = program[s])'
        BY WritersKnown, PTL
      <4>3. QED
        BY <2>3, <4>1, <4>2
    <3>4. p = r /\ program[r] = program[q]
      BY <3>2, <3>3 DEF Puts
    <3>5. disk[Gate(Code(q))].by = {q} /\ Gate(Code(r)) = Gate(Code(q)) /\ disk[Gate(Code(q))] # None
      BY <2>3, <3>4 DEF Owns, Code
    <3>6. Owns(r)' /\ Code(r)' = Code(r) /\ Code(q)' = Code(q) /\ Owns(q)'
      BY <1>1, <2>3, <3>3, <3>4, OwnsStays DEF FilesInv
    <3>7. QED
      BY <3>5, <3>6 DEF Owns
  <2>4. QED
    BY <2>2, <2>3
<1>7. DoneOf(q)'
  BY <1>1, <1>6 DEF DoneOf
<1>8. QED
  BY <1>5, <1>7

\* What a run that writes knows after it.
LEMMA WriterPlace ==
    ASSUME FilesInv, NEW r \in Runs, NEW new \in FileStates, WritesFile(r, new)
    PROVE  PlaceOf(r)' /\ DoneOf(r)'
<1>1. /\ Running(r) /\ Steps(r)[run[r].at].op \in Writing /\ Puts(r, File(r), new)
      /\ run[r].state = "running" /\ run'[r].state = "running"
      /\ Code(r)' = Code(r) /\ Steps(r)' = Steps(r) /\ Owns(r)'
  BY WriterOwns DEF WritesFile, Running, Moves, Puts, Code, Steps
<1>2. /\ run[r].at \in Writes(Code(r)) /\ File(r) = FileAt(Code(r), run[r].at)
      /\ run[r].at \in Nat /\ First(Code(r)) <= run[r].at /\ First(Code(r)) \in Nat
      /\ (File(r) \in Journals <=> Steps(r)[run[r].at].op = "log")
  BY <1>1, Here1 DEF FilesInv
<1>3. /\ File(r) \in DOMAIN disk /\ disk'[File(r)] = new /\ new # None /\ new.by = {r}
      /\ \A g \in DOMAIN disk \ {File(r)} : disk'[g] = disk[g]
  BY <1>1, PutLeaves DEF FilesInv, Puts
<1>4. \/ new.whole /\ run'[r].at = run[r].at + 1 /\ run'[r].half = FALSE
      \/ new = Part(r) /\ run'[r].at = run[r].at /\ run'[r].half = TRUE /\ Steps(r)[run[r].at].op \in {"put", "over"}
  BY DEF WritesFile, Moves
<1>5. PlaceOf(r)'
  <2>1. run'[r].half => disk'[FileAt(Code(r), run'[r].at)] = Part(r)' /\ run'[r].at = run[r].at
    BY <1>2, <1>3, <1>4 DEF Part
  <2>2. QED
    BY <1>1, <1>2, <1>4, <2>1 DEF PlaceOf
<1>6. ASSUME NEW i \in Writes(Code(r))
      PROVE  LET g == FileAt(Code(r), i) IN
             /\ i < run'[r].at => IsWhole(g)' /\ disk'[g].by = {r}
             /\ run'[r].at <= i /\ g \notin Journals => disk'[g] = None \/ (run'[r].at = i /\ run'[r].half)
  <2> DEFINE g == FileAt(Code(r), i)
  <2>1. g \in Written(Code(r)) /\ g \in DOMAIN disk /\ DOMAIN disk' = DOMAIN disk /\ i \in Nat
    <3>1. WritesInOrder(Code(r))
      BY InOrder DEF FilesInv, Types
    <3>2. DOMAIN Code(r).steps \subseteq Nat
      BY <3>1 DEF WritesInOrder
    <3>3. QED
      BY <1>1, <3>2, PutLeaves DEF Written, Writes, Output, Types, FilesInv
  <2>2. i < run'[r].at => IsWhole(g)' /\ disk'[g].by = {r}
    <3>1. CASE i < run[r].at
      <4>1. disk[g] # None /\ disk[g].whole /\ disk[g].by = {r}
        BY <1>1, <3>1 DEF FilesInv, DoneInv, IsWhole, Exists
      <4>2. QED
        BY <1>1, <2>1, <4>1, PutLeaves DEF IsWhole, Exists, FilesInv
    <3>2. CASE i = run[r].at
      <4>1. i < run'[r].at => new.whole
        BY <1>2, <1>4, <3>2
      <4>2. disk'[g] = new /\ g \in DOMAIN disk'
        BY <1>2, <1>3, <2>1, <3>2
      <4>3. QED
        BY <1>1, <1>3, <4>1, <4>2 DEF IsWhole, Exists
    <3>3. CASE i > run[r].at
      BY <1>2, <1>4, <2>1, <3>3
    <3>4. QED
      BY <1>2, <2>1, <3>1, <3>2, <3>3
  <2>3. ASSUME run'[r].at <= i, g \notin Journals, ~(run'[r].at = i /\ run'[r].half)
        PROVE  disk'[g] = None
    <3>1. run[r].at < i
      BY <1>2, <1>4, <2>1, <2>3
    <3>2. g # File(r)
      BY <1>2, <2>3, <3>1, InOrder DEF FilesInv, Types, WritesInOrder
    <3>3. disk[g] = None
      <4>1. CASE Owns(r)
        BY <1>1, <1>2, <2>1, <2>3, <3>1, <4>1 DEF FilesInv, DoneInv
      <4>2. CASE ~Owns(r)
        <5>1. run[r].at = First(Code(r))
          BY <1>1, <1>2, <4>2 DEF FilesInv, PlaceInv
        <5>2. Steps(r)[run[r].at].op \in {"make", "put"}
          BY <5>1, InOrder DEF WritesInOrder, Steps, FilesInv, Types
        <5>3. disk[File(r)] = None
          <6>1. ~run[r].half
            <7>1. run[r].half => disk[File(r)] = Part(r)
              BY <1>1, <1>2 DEF FilesInv, PlaceInv
            <7>2. disk[File(r)] = Part(r) => Owns(r)
              BY <1>2, <5>1, Unfinished DEF Owns, Gate
            <7>3. QED
              BY <4>2, <7>1, <7>2
          <6>2. QED
            BY <5>2, <6>1 DEF WritesFile
        <5>4. disk[Gate(Code(r))] = None
          BY <1>2, <5>1, <5>3 DEF Gate
        <5>5. QED
          BY <2>1, <5>4, OwnFiles DEF FilesInv
      <4>3. QED
        BY <4>1, <4>2
    <3>4. QED
      BY <1>3, <2>1, <3>2, <3>3
  <2>4. QED
    BY <2>2, <2>3
<1>7. DoneOf(r)'
  BY <1>1, <1>6 DEF DoneOf
<1>8. QED
  BY <1>5, <1>7

LEMMA FilesKeep == ASSUME FilesInv, NEW r \in Runs, Act(r) PROVE FilesInv'
<1>1. Types' /\ WriterInv'
  BY TypesKeep, WriterKeeps
<1>2. SUFFICES ASSUME NEW q \in Runs
               PROVE  PlaceOf(q)' /\ DoneOf(q)'
  <2>1. (\A q \in Runs : PlaceOf(q)') <=> PlaceInv'
    BY DEF PlaceInv, PlaceOf
  <2>2. (\A q \in Runs : DoneOf(q)') <=> DoneInv'
    BY DEF DoneInv, DoneOf
  <2>3. QED
    BY <1>1, <2>1, <2>2 DEF FilesInv
<1>3. PlaceOf(q) /\ DoneOf(q)
  BY DEF FilesInv, PlaceInv, PlaceOf, DoneInv, DoneOf
<1>4. CASE UNCHANGED <<program, disk>> /\ run'[q] = run[q]
  BY <1>3, <1>4 DEF PlaceOf, DoneOf, Owns, Code, Steps, Gate, Part, IsWhole, Exists
<1>5. CASE Passes(r) /\ q = r
  <2>1. /\ Running(r) /\ run[r].state = "running" /\ run'[r].state = "running"
        /\ run'[r].at = run[r].at + 1 /\ run'[r].half = FALSE /\ UNCHANGED <<program, disk>>
        /\ Steps(r)[run[r].at].op \notin Writing
    BY <1>5 DEF Passes, Moves, Running
  <2>2. Code(r)' = Code(r) /\ (Owns(r)' <=> Owns(r)) /\ \A f : (IsWhole(f)' <=> IsWhole(f))
    BY <2>1 DEF Code, Owns, Gate, IsWhole, Exists
  <2>3. run[r].at \notin Writes(Code(r)) /\ run[r].at \in Nat
    BY <2>1, Here1 DEF Writes, Steps, FilesInv
  <2>4. WritesInOrder(Code(r)) /\ Writes(Code(r)) \subseteq Nat
    <3>1. WritesInOrder(Code(r))
      BY InOrder DEF FilesInv, Types
    <3>2. DOMAIN Code(r).steps \subseteq Nat
      BY <3>1 DEF WritesInOrder
    <3>3. QED
      BY <3>1, <3>2 DEF Writes
  <2>5. First(Code(r)) \in Writes(Code(r)) /\ First(Code(r)) # run[r].at
    BY <2>3, <2>4 DEF WritesInOrder
  <2>6. PlaceOf(r)'
    <3>1. First(Code(r)) < run[r].at + 1 => First(Code(r)) < run[r].at
      BY <2>3, <2>4, <2>5
    <3>2. QED
      BY <1>3, <1>5, <2>1, <2>2, <3>1 DEF PlaceOf
  <2>7. \A i \in Writes(Code(r)) : i # run[r].at /\ (i < run[r].at + 1 => i < run[r].at)
                                   /\ (run[r].at + 1 <= i => run[r].at <= i)
    BY <2>3, <2>4
  <2>8. DoneOf(r)'
    BY <1>3, <1>5, <2>1, <2>2, <2>7 DEF DoneOf
  <2>9. QED
    BY <1>5, <2>6, <2>8
<1>6. ASSUME NEW new \in FileStates, WritesFile(r, new)
      PROVE  PlaceOf(q)' /\ DoneOf(q)'
  <2>1. CASE q = r
    BY <1>6, <2>1, WriterPlace
  <2>2. CASE q # r
    <3>1. Puts(r, File(r), new) /\ run'[q] = run[q]
      BY <1>6, <2>2 DEF WritesFile, Moves
    <3>2. QED
      BY <1>1, <2>2, <3>1, OthersKeep
  <2>3. QED
    BY <2>1, <2>2
<1>7. ASSUME NEW new \in FileStates, WritesRecord(r, new)
      PROVE  PlaceOf(q)' /\ DoneOf(q)'
  <2>1. CASE q = r
    <3>1. Puts(r, Code(r).record, new) /\ Owns(r)' /\ Code(r)' = Code(r) /\ Part(r)' = Part(r)
      BY <1>7, WriterOwns DEF WritesRecord, Puts, Code, Part
    <3>2. disk'[Code(r).record] = new /\ run'[r].state \in {"handling", "recorded"} /\ run'[r].seen = {}
      BY <1>7, <3>1, PutLeaves DEF WritesRecord, Moves, FilesInv
    <3>3. run'[r].state = "handling" => new = Part(r)
      BY <1>7 DEF WritesRecord, Moves
    <3>4. QED
      BY <2>1, <3>1, <3>2, <3>3 DEF PlaceOf, DoneOf
  <2>2. CASE q # r
    <3>1. Puts(r, Code(r).record, new) /\ run'[q] = run[q]
      BY <1>7, <2>2 DEF WritesRecord, Moves
    <3>2. QED
      BY <1>1, <2>2, <3>1, OthersKeep
  <2>3. QED
    BY <2>1, <2>2
<1>8. ASSUME NEW state \in RunStates, Ends(r, state), q = r
      PROVE  PlaceOf(q)' /\ DoneOf(q)'
  <2>1. /\ run'[r].state = state /\ state # "running" /\ run'[r].half = FALSE /\ run'[r].seen = {}
        /\ UNCHANGED <<program, disk>>
    BY <1>8 DEF Ends, Moves
  <2>2. state = "handling" => Owns(r)
    <3>1. ASSUME state = "handling"
          PROVE  run[r].state = "running" /\ First(Code(r)) < run[r].at
      BY <1>8, <3>1, InOrder DEF Ends, Running, FilesInv, Types, WritesInOrder
    <3>2. QED
      BY <3>1 DEF FilesInv, PlaceInv
  <2>3. Owns(r)' <=> Owns(r)
    BY <2>1 DEF Owns, Code, Gate
  <2>4. QED
    BY <1>8, <2>1, <2>2, <2>3 DEF PlaceOf, DoneOf
<1>9. QED
  <2>1. CASE Passes(r)
    BY <1>4, <1>5, <2>1 DEF Passes, Moves
  <2>2. ASSUME NEW state \in RunStates, Ends(r, state)
        PROVE  PlaceOf(q)' /\ DoneOf(q)'
    BY <1>4, <1>8, <2>2 DEF Ends, Moves
  <2>3. QED
    BY <1>4, <1>6, <1>7, <2>1, <2>2, Kinds

\* In the beginning nothing is there, and no run is past its first step.
LEMMA FilesOfNames ==
    ASSUME NEW name \in Names
    PROVE  Output(Programs[name]) \cup {Programs[name].report} \subseteq FilesOf[name] /\ FilesOf[name] \subseteq STRING
<1> DEFINE p == Programs[name]
<1>1. WritesInOrder(p)
  BY ProgramsAssumption
<1>2. p.steps \in Seq([op : STRING, on : SUBSET STRING]) /\ p.record \in STRING
      /\ \A i \in Writes(p) : p.steps[i].on = {FileAt(p, i)}
  BY <1>1 DEF WritesInOrder
<1>3. p.report \in STRING
  <2>1. PICK i \in DOMAIN p.steps : p.steps[i] = Step("put", {p.report})
    BY <1>1 DEF WritesInOrder, Reports
  <2>2. p.steps[i] \in [op : STRING, on : SUBSET STRING]
    BY <1>2, ElementOf
  <2>3. QED
    BY <2>1, <2>2 DEF Step
<1>4. FilesOf[name] = Touched(name, {"fresh", "make", "put", "over", "log", "found"}) \cup {p.record, p.report}
  BY DEF FilesOf
<1>5. Touched(name, {"fresh", "make", "put", "over", "log", "found"}) \subseteq STRING
  <2>1. \A i \in DOMAIN p.steps : p.steps[i] \in [op : STRING, on : SUBSET STRING]
    BY <1>2, ElementOf
  <2>2. \A i \in DOMAIN p.steps : p.steps[i].on \subseteq STRING
    BY <2>1
  <2>3. QED
    BY <2>2 DEF Touched
<1>6. Written(p) \subseteq Touched(name, {"fresh", "make", "put", "over", "log", "found"})
  <2>1. SUFFICES ASSUME NEW i \in Writes(p)
                 PROVE  FileAt(p, i) \in Touched(name, {"fresh", "make", "put", "over", "log", "found"})
    BY DEF Written
  <2>2. i \in DOMAIN p.steps /\ p.steps[i].op \in {"make", "put", "over", "log"} /\ FileAt(p, i) \in p.steps[i].on
    BY <1>2 DEF Writes, Writing
  <2>3. QED
    BY <2>2 DEF Touched
<1>7. QED
  BY <1>2, <1>3, <1>4, <1>5, <1>6 DEF Output

LEMMA FilesBegin == Init => FilesInv
<1>1. SUFFICES ASSUME Init
               PROVE  FilesInv
  OBVIOUS
<1>2. PICK pair \in Pairs, first \in Runs, together \in BOOLEAN :
        /\ program = [r \in Runs |-> IF r = first THEN pair[1] ELSE pair[2]]
        /\ disk = [f \in FilesOf[pair[1]] \cup FilesOf[pair[2]] |-> None]
        /\ drifted = None
        /\ run = [r \in Runs |-> IF r = first \/ together THEN Begun ELSE Quiet("absent")]
  BY <1>1 DEF Init
<1>3. pair[1] \in Names /\ pair[2] \in Names
      /\ (pair[1] # pair[2] => {pair[1], pair[2]} = {"source_capture", "source_audit"})
  BY ProgramsAssumption DEF Pairs
<1>4. ProgramsInv
  BY <1>2, <1>3 DEF ProgramsInv
<1>5. \A r \in Runs : Code(r) \in {Programs[pair[1]], Programs[pair[2]]}
  BY <1>2 DEF Code
<1>6. \A r \in Runs : Output(Code(r)) \subseteq DOMAIN disk
  BY <1>2, <1>3, <1>5, FilesOfNames
<1>7. DOMAIN disk \subseteq STRING /\ \A f \in DOMAIN disk : disk[f] = None
  BY <1>2, <1>3, FilesOfNames
<1>8. Begun \in Places /\ Begun.state = "running" /\ Begun.at = 1 /\ Begun.half = FALSE /\ Begun.seen = {}
  <2> DEFINE quiet == Quiet("running")
  <2>1. /\ quiet \in Places /\ quiet.state = "running" /\ quiet.half = FALSE /\ quiet.seen = {}
        /\ Begun = [quiet EXCEPT !.at = 1]
    BY QuietOf DEF RunStates, Begun
  <2> HIDE DEF quiet
  <2>2. QED
    BY <2>1, PlaceFields DEF Places
<1>9. Quiet("absent") \in Places /\ Quiet("absent").state = "absent" /\ Quiet("absent").seen = {}
  BY QuietOf DEF RunStates
<1>10. Types
  BY <1>2, <1>4, <1>6, <1>7, <1>8, <1>9 DEF Types
<1>11. WriterInv
  BY <1>7 DEF WriterInv
<1>12. \A r \in Runs : \A i \in Writes(Code(r)) :
          i >= 1 /\ i \in Nat /\ FileAt(Code(r), i) \in DOMAIN disk
  <2>1. SUFFICES ASSUME NEW r \in Runs, NEW i \in Writes(Code(r))
                 PROVE  i >= 1 /\ i \in Nat /\ FileAt(Code(r), i) \in DOMAIN disk
    OBVIOUS
  <2>2. Code(r).steps \in Seq([op : STRING, on : SUBSET STRING])
    BY <1>4, InOrder DEF WritesInOrder
  <2>3. QED
    BY <1>6, <2>2 DEF Writes, Output, Written
<1>13. \A r \in Runs : First(Code(r)) \in Writes(Code(r))
  BY <1>4, InOrder DEF WritesInOrder
<1>14. \A r \in Runs : run[r] \in {Begun, Quiet("absent")}
  BY <1>2
<1>15. PlaceInv
  <2>1. SUFFICES ASSUME NEW r \in Runs
                 PROVE  PlaceOf(r)
    BY DEF PlaceInv, PlaceOf
  <2>2. First(Code(r)) >= 1 /\ First(Code(r)) \in Nat
    BY <1>12, <1>13
  <2>3. QED
    BY <1>8, <1>9, <1>14, <2>2 DEF PlaceOf
<1>16. DoneInv
  <2>1. SUFFICES ASSUME NEW r \in Runs
                 PROVE  DoneOf(r)
    BY DEF DoneInv, DoneOf
  <2>2. QED
    BY <1>7, <1>8, <1>9, <1>12, <1>14 DEF DoneOf
<1>17. QED
  BY <1>10, <1>11, <1>15, <1>16 DEF FilesInv

\* Any number of runs, whatever raises or is interrupted, killed or replaced.
LEMMA FilesAlways == Spec => []FilesInv
<1>1. ASSUME FilesInv, [Next]_vars PROVE FilesInv'
  <2>1. CASE Next
    BY <1>1, <2>1, NextIsAct, FilesKeep
  <2>2. CASE UNCHANGED vars
    <3>1. FilesInv' <=> FilesInv
      BY <2>2 DEF vars, FilesInv, Types, ProgramsInv, WriterInv, PlaceInv, DoneInv, Owns, Code, Steps,
                  Gate, Part, IsWhole, Exists
    <3>2. QED
      BY <1>1, <3>1
  <2>3. QED
    BY <1>1, <2>1, <2>2
<1>2. QED
  BY FilesBegin, <1>1, PTL DEF Spec

-----------------------------------------------------------------------------
\* Where a program writes its report, and what it makes before.
LEMMA BeforeReport ==
    ASSUME ProgramsInv, NEW r \in Runs
    PROVE  \E last \in Writes(Code(r)) :
              /\ Reports(Code(r)) = {last} /\ last \in Nat /\ FileAt(Code(r), last) = Code(r).report
              /\ \A i \in Writes(Code(r)) : FileAt(Code(r), i) = Code(r).report => i = last
              /\ \A g \in Before(r, Code(r).report) :
                    \E i \in Writes(Code(r)) : i < last /\ g = FileAt(Code(r), i)
              /\ Code(r).report \notin Journals /\ Steps(r)[last].op = "put"
<1> DEFINE p == Code(r)
           report == p.report
<1>1. WritesInOrder(p)
  BY InOrder
<1>2. p.steps \in Seq([op : STRING, on : SUBSET STRING]) /\ DOMAIN p.steps \subseteq Nat
  <2>1. p.steps \in Seq([op : STRING, on : SUBSET STRING])
    BY <1>1 DEF WritesInOrder
  <2>2. QED
    BY <2>1
<1>3. PICK last \in DOMAIN p.steps : Reports(p) = {last}
  BY <1>1 DEF WritesInOrder
<1>4. p.steps[last] = Step("put", {report})
  BY <1>3 DEF Reports
<1>5. last \in Writes(p) /\ p.steps[last].op = "put" /\ p.steps[last].on = {report}
  BY <1>4 DEF Writes, Writing, Step
<1>6. FileAt(p, last) = report
  BY <1>5 DEF FileAt
<1>7. report \notin Journals
  BY <1>1, <1>5, <1>6 DEF WritesInOrder
<1>8. \A i \in Writes(p) : FileAt(p, i) = report => i = last
  BY <1>1, <1>5, <1>6, <1>7 DEF WritesInOrder
<1>9. ASSUME NEW g \in Before(r, report)
      PROVE  \E i \in Writes(p) : i < last /\ g = FileAt(p, i)
  <2> DEFINE that == CHOOSE i \in DOMAIN p.steps : p.steps[i].op = "put" /\ report \in p.steps[i].on
  <2>1. \A i \in DOMAIN p.steps : p.steps[i].op = "put" /\ report \in p.steps[i].on <=> i = last
    <3>1. ASSUME NEW i \in DOMAIN p.steps, p.steps[i].op = "put", report \in p.steps[i].on
          PROVE  i = last
      <4>1. i \in Writes(p)
        BY <3>1 DEF Writes, Writing
      <4>2. p.steps[i].on = {FileAt(p, i)}
        BY <1>1, <4>1 DEF WritesInOrder
      <4>3. QED
        BY <1>8, <3>1, <4>1, <4>2
    <3>2. QED
      BY <1>5, <3>1
  <2>2. that = last
    BY <2>1
  <2>3. PICK j \in 1..last - 1 : p.steps[j].op \in {"make", "put", "over", "log"} /\ g \in p.steps[j].on
    BY <1>9, <2>2 DEF Before
  <2>4. j \in DOMAIN p.steps /\ j < last
    BY <1>2, <1>5, <2>3 DEF Writes
  <2>5. j \in Writes(p)
    BY <2>3, <2>4 DEF Writes, Writing
  <2>6. p.steps[j].on = {FileAt(p, j)}
    BY <1>1, <2>5 DEF WritesInOrder
  <2>7. QED
    BY <2>3, <2>4, <2>5, <2>6
<1>10. QED
  BY <1>2, <1>3, <1>5, <1>6, <1>7, <1>8, <1>9 DEF Steps

\* What is whole and its writer's stays so, whatever anybody writes.
LEMMA WholeStays ==
    ASSUME FilesInv, NEW r \in Runs, Act(r), NEW q \in Runs, NEW f, IsWhole(f), disk[f].by = {q}
    PROVE  IsWhole(f)' /\ disk'[f].by = {q}
<1>1. f \in DOMAIN disk /\ disk[f] # None /\ disk[f].whole
  BY DEF IsWhole, Exists
<1>2. CASE UNCHANGED disk
  BY <1>1, <1>2 DEF IsWhole, Exists
<1>3. ASSUME NEW g, NEW new, Puts(r, g, new)
      PROVE  IsWhole(f)' /\ disk'[f].by = {q}
  BY <1>1, <1>3, PutLeaves DEF IsWhole, Exists, FilesInv
<1>4. QED
  BY <1>2, <1>3, Kinds DEF Passes, WritesFile, Ends, WritesRecord

\* A report that is complete now was complete before, or is being finished by its run.
LEMMA NewReport ==
    ASSUME FilesInv, NEW r \in Runs, Act(r), NEW q \in Runs, NEW f, ReportBy(q, f)'
    PROVE  ReportBy(q, f) \/
             /\ q = r /\ f = Code(r).report /\ FinishFile(r) /\ File(r) = f /\ f \in DOMAIN disk
             /\ run[r].state = "running" /\ run[r].at \in Reports(Code(r))
             /\ run'[r].state = "running" /\ run'[r].at = run[r].at + 1
<1>1. /\ f = Code(q).report /\ Code(q)' = Code(q) /\ Code(r)' = Code(r) /\ program' = program
      /\ f \in DOMAIN disk' /\ disk'[f] # None /\ disk'[f].whole /\ q \in disk'[f].by /\ ~disk'[f].failed
  BY Kinds DEF ReportBy, IsWhole, Exists, Code
<1>2. CASE UNCHANGED disk
  BY <1>1, <1>2 DEF ReportBy, IsWhole, Exists
<1>3. ASSUME NEW g, NEW new, Puts(r, g, new), g # f
      PROVE  ReportBy(q, f)
  BY <1>1, <1>3, PutLeaves DEF ReportBy, IsWhole, Exists, FilesInv
<1>4. ASSUME NEW g, NEW new, Puts(r, g, new), g = f
      PROVE  q = r /\ disk'[f] = new /\ f \in DOMAIN disk
  <2>1. disk'[f] = new /\ new.by = {r} /\ f \in DOMAIN disk
    BY <1>4, PutLeaves DEF Puts, FilesInv
  <2>2. QED
    BY <1>1, <2>1
<1>5. CASE MakeDirectory(r) \/ OpenNew(r) \/ OpenOver(r) \/ AppendLine(r)
  <2>1. Puts(r, File(r), Whole(r)) \/ (Puts(r, File(r), Part(r)) /\ ~Part(r).whole)
    BY <1>5, Making, Opening, Appending, FileStatesOf DEF WritesFile, Part
  <2>2. CASE Puts(r, File(r), Part(r)) /\ ~Part(r).whole
    BY <1>1, <1>3, <1>4, <2>2
  <2>3. CASE (MakeDirectory(r) \/ AppendLine(r)) /\ File(r) = f /\ Puts(r, File(r), Whole(r))
    <3>1. q = r
      BY <1>4, <2>3
    <3>2. /\ Running(r) /\ Steps(r)[run[r].at].op \in {"make", "log"}
          /\ Steps(r)[run[r].at].op \in Writing
      BY <2>3 DEF MakeDirectory, AppendLine, At, Steps, Writing
    <3>3. run[r].at \in Writes(Code(r)) /\ FileAt(Code(r), run[r].at) = Code(r).report
      BY <1>1, <2>3, <3>1, <3>2, Here1 DEF FilesInv
    <3>4. QED
      BY <3>2, <3>3, BeforeReport DEF FilesInv, Types
  <2>4. CASE Puts(r, File(r), Whole(r)) /\ File(r) # f
    BY <1>3, <2>4
  <2>5. CASE (OpenNew(r) \/ OpenOver(r)) /\ Puts(r, File(r), Whole(r))
    <3>1. Puts(r, File(r), Part(r)) /\ ~Part(r).whole
      BY <2>5, Opening, FileStatesOf DEF WritesFile, Part
    <3>2. QED
      BY <2>2, <3>1
  <2>6. QED
    BY <1>5, <2>1, <2>2, <2>3, <2>4, <2>5
<1>6. CASE FinishFile(r)
  <2>1. /\ Running(r) /\ Steps(r)[run[r].at].op \in Writing /\ run[r].state = "running"
        /\ Puts(r, File(r), FileOf({r}, TRUE, FALSE, Unhashed(r)))
        /\ Moves(r, "running", run[r].at + 1, FALSE)
    BY <1>6, Finishing DEF WritesFile, Running
  <2>2. CASE File(r) = f
    <3>1. q = r /\ f = Code(r).report /\ f \in DOMAIN disk
      BY <1>1, <1>4, <2>1, <2>2
    <3>2. run[r].at \in Writes(Code(r)) /\ FileAt(Code(r), run[r].at) = Code(r).report
      BY <2>1, <2>2, <3>1, Here1 DEF FilesInv
    <3>3. run[r].at \in Reports(Code(r))
      BY <3>2, BeforeReport DEF FilesInv, Types
    <3>4. QED
      BY <1>6, <2>1, <2>2, <3>1, <3>3 DEF Moves
  <2>3. CASE File(r) # f
    BY <1>3, <2>1, <2>3
  <2>4. QED
    BY <2>2, <2>3
<1>7. CASE OpenRecord(r) \/ FinishRecord(r)
  <2>1. PICK new \in FileStates : Puts(r, Code(r).record, new) /\ (new = Part(r) \/ new.failed)
    BY <1>7, Recording DEF WritesRecord
  <2>2. ~Part(r).whole
    BY FileStatesOf DEF Part
  <2>3. QED
    BY <1>1, <1>3, <1>4, <2>1, <2>2
<1>8. UNCHANGED disk \/ MakeDirectory(r) \/ OpenNew(r) \/ OpenOver(r) \/ FinishFile(r)
      \/ AppendLine(r) \/ OpenRecord(r) \/ FinishRecord(r)
  BY DEF Act, CheckFresh, ReadOwn, CompareRegistered, KeepHash, CompareKept, ReadContent, ReadVerified,
         ReadAndHash, PrintLine, Return, Raise, HandlerFails, Kill, Drift
<1>9. QED
  BY <1>2, <1>5, <1>6, <1>7, <1>8

LEMMA ReportKeeps ==
    ASSUME FilesInv, ReportOfOneRun, NEW r \in Runs, Act(r)
    PROVE  ReportOfOneRun'
<1>1. SUFFICES ASSUME NEW q \in Runs, NEW f \in DOMAIN disk', ReportBy(q, f)',
                      NEW g \in Before(q, f)' \cup {f}
               PROVE  IsWhole(g)' /\ disk'[g].by = {q}
  BY DEF ReportOfOneRun
<1>2. Code(q)' = Code(q) /\ Before(q, f)' = Before(q, f) /\ f = Code(q).report
  <2>1. Code(q)' = Code(q)
    BY Kinds DEF Code
  <2>2. Before(q, f)' = Before(q, f)
    BY <2>1 DEF Before
  <2>3. QED
    BY <1>1, <2>1, <2>2 DEF ReportBy
<1>3. CASE ReportBy(q, f)
  <2>1. IsWhole(g) /\ disk[g].by = {q}
    BY <1>1, <1>2, <1>3 DEF ReportOfOneRun, ReportBy, IsWhole, Exists
  <2>2. QED
    BY <2>1, WholeStays
<1>4. CASE ~ReportBy(q, f)
  <2>1. /\ q = r /\ run'[r].state = "running" /\ run'[r].at = run[r].at + 1
        /\ run[r].at \in Reports(Code(r)) /\ f = Code(r).report
    BY <1>1, <1>4, NewReport
  <2>2. PICK i \in Writes(Code(r)) : i <= run[r].at /\ g = FileAt(Code(r), i) /\ i \in Nat /\ run[r].at \in Nat
    <3>1. WritesInOrder(Code(r))
      BY InOrder DEF FilesInv, Types
    <3>2. Writes(Code(r)) \subseteq Nat
      <4>1. DOMAIN Code(r).steps \subseteq Nat
        BY <3>1 DEF WritesInOrder
      <4>2. QED
        BY <4>1 DEF Writes
    <3>3. PICK last \in Writes(Code(r)) :
              /\ Reports(Code(r)) = {last} /\ FileAt(Code(r), last) = f
              /\ \A h \in Before(r, f) : \E i \in Writes(Code(r)) : i < last /\ h = FileAt(Code(r), i)
      BY <2>1, BeforeReport DEF FilesInv, Types
    <3>4. last = run[r].at /\ g \in Before(r, f) \cup {f}
      BY <1>1, <1>2, <2>1, <3>3
    <3>5. QED
      BY <3>2, <3>3, <3>4
  <2>3. i < run'[r].at
    BY <2>1, <2>2
  <2>4. DoneInv' /\ Code(r)' = Code(r)
    BY <1>2, <2>1, FilesKeep DEF FilesInv
  <2>5. (IsWhole(FileAt(Code(r), i)) /\ disk[FileAt(Code(r), i)].by = {r})'
    BY <2>1, <2>2, <2>3, <2>4 DEF DoneInv
  <2>6. QED
    BY <2>1, <2>2, <2>4, <2>5 DEF IsWhole, Exists
<1>5. QED
  BY <1>3, <1>4

\* What a step of a program may do to evidence: nothing, but for journals.
LEMMA EvidenceStep ==
    ASSUME FilesInv, NEW r \in Runs, Act(r), NEW f \in DOMAIN disk \ Journals, IsWhole(f)
    PROVE  disk'[f] = disk[f]
<1>1. disk[f] # None /\ disk[f].whole
  BY DEF IsWhole, Exists
<1>2. ASSUME NEW g, NEW new, Puts(r, g, new)
      PROVE  disk'[f] = disk[f]
  <2>1. g # f
    BY <1>1, <1>2 DEF Puts
  <2>2. QED
    BY <1>2, <2>1, PutLeaves DEF FilesInv
<1>3. QED
  BY <1>2, Kinds DEF Passes, WritesFile, Ends, WritesRecord


LEMMA NothingWritten ==
    ASSUME Init
    PROVE  \A f : ~Exists(f) /\ ~IsWhole(f)
  BY DEF Init, Exists, IsWhole

\* A complete report stands for one run, in every state of any number of runs.
THEOREM ReportsAreOfOneRun == Spec => []ReportOfOneRun
<1>1. Init => ReportOfOneRun
  BY NothingWritten DEF ReportOfOneRun, ReportBy
<1>2. FilesInv /\ ReportOfOneRun /\ [Next]_vars => ReportOfOneRun'
  <2>1. SUFFICES ASSUME FilesInv, ReportOfOneRun, [Next]_vars
                 PROVE  ReportOfOneRun'
    OBVIOUS
  <2>2. CASE UNCHANGED vars
    <3>1. /\ disk' = disk /\ \A q \in Runs : Code(q)' = Code(q)
          /\ \A q \in Runs, f \in DOMAIN disk : Before(q, f)' = Before(q, f)
          /\ \A g : IsWhole(g)' = IsWhole(g)
      BY <2>2 DEF Before, IsWhole, Exists, Code, vars
    <3>2. \A q \in Runs, f \in DOMAIN disk : ReportBy(q, f)' = ReportBy(q, f)
      BY <3>1 DEF ReportBy
    <3>3. QED
      BY <2>1, <3>1, <3>2 DEF ReportOfOneRun
  <2>3. CASE Next
    BY <2>1, <2>3, NextIsAct, ReportKeeps
  <2>4. QED
    BY <2>1, <2>2, <2>3
<1>3. QED
  BY <1>1, <1>2, FilesAlways, PTL DEF Spec

\* What has been written to the end is never changed by any later step of any run.
THEOREM EvidenceIsNeverChanged == Spec => EvidenceStays
<1> DEFINE Stays == \A f \in DOMAIN disk \ Journals : IsWhole(f) => disk'[f] = disk[f]
<1>1. FilesInv /\ [Next]_vars => [Stays]_vars
  BY NextIsAct, EvidenceStep
<1>2. QED
  BY <1>1, FilesAlways, PTL DEF Spec, EvidenceStays

-----------------------------------------------------------------------------
\* The capture whose try has failed has left no report; an audit has no handler, and past
\* its checks it stands on a capture that has not failed.
AuditInv ==
    /\ \A r \in Runs : program[r] = "source_capture" /\ run[r].state = "handling" => ~IsWhole("report.json")
    /\ \A r \in Runs : program[r] = "source_audit" => run[r].state # "handling"
    /\ \A r \in Runs : program[r] = "source_audit" /\ run[r].state = "running" =>
          \A i \in DOMAIN Steps(r) : i < run[r].at =>
              /\ Steps(r)[i] = Step("found", {"report.json"}) => IsWhole("report.json")
              /\ \A j \in DOMAIN Steps(r) :
                    Steps(r)[j] = Step("found", {"report.json"}) /\ j < i
                      /\ Steps(r)[i] = Step("fresh", {"failure.json"}) => ~Exists("failure.json")
    /\ Exists("audit.json") => IsWhole("report.json") /\ ~Exists("failure.json")

\* What a running program has made, it has made by one of its steps so far.
MadeInv ==
    \A r \in Runs : run[r].state = "running" =>
        \A f \in DOMAIN disk : disk[f] # None /\ disk[f].by = {r} =>
            \E i \in Writes(Code(r)) : i <= run[r].at /\ f = FileAt(Code(r), i)

\* Whatever is whole has a writer, and stays whole.
LEMMA WholeAlways ==
    ASSUME FilesInv, NEW r \in Runs, Act(r), NEW f, IsWhole(f)
    PROVE  IsWhole(f)'
<1>1. PICK q \in Runs : disk[f].by = {q}
  BY DEF FilesInv, WriterInv, IsWhole, Exists
<1>2. QED
  BY <1>1, WholeStays

\* The steps that end a run in a failure with a verdict of its own, and the step that takes
\* it past one of its checks.
LEMMA Failing ==
    ASSUME FilesInv, NEW r \in Runs, Act(r), run'[r].state \in {"raised", "interrupted", "recorded"},
           run'[r].state # run[r].state
    PROVE  (\E kind \in Anything : Raise(r, kind)) \/ FinishRecord(r)
<1>1. CASE CheckFresh(r) \/ ReadOwn(r) \/ CompareRegistered(r) \/ KeepHash(r) \/ CompareKept(r)
             \/ ReadContent(r) \/ ReadVerified(r) \/ ReadAndHash(r) \/ PrintLine(r)
  BY <1>1, Passing DEF FilesInv, Passes, Moves
<1>2. CASE MakeDirectory(r) \/ OpenNew(r) \/ OpenOver(r) \/ FinishFile(r) \/ AppendLine(r)
  BY <1>2, Making, Opening, Finishing, Appending DEF WritesFile, Moves
<1>3. CASE OpenRecord(r)
  BY <1>3, HalfWritten DEF OpenRecord, Moves, FilesInv
<1>4. CASE Return(r) \/ HandlerFails(r) \/ Kill(r)
  <2>1. run \in [Runs -> Places] /\ (run' = [run EXCEPT ![r] = Quiet("returned")]
          \/ run' = [run EXCEPT ![r] = Quiet("lost")] \/ run' = [run EXCEPT ![r] = Quiet("killed")])
    BY <1>4 DEF Return, HandlerFails, Kill, FilesInv, Types
  <2>2. run'[r] \in {Quiet("returned"), Quiet("lost"), Quiet("killed")}
    BY <2>1
  <2>3. QED
    BY <2>2, QuietOf DEF RunStates
<1>5. CASE Drift(r)
  BY <1>5 DEF Drift
<1>6. QED
  BY <1>1, <1>2, <1>3, <1>4, <1>5 DEF Act

LEMMA Checking ==
    ASSUME FilesInv, NEW r \in Runs, Act(r), run'[r].state = "running", run'[r].at # run[r].at
    PROVE  /\ Running(r) /\ run'[r].at = run[r].at + 1
           /\ Steps(r)[run[r].at].op = "found" => ReadOwn(r)
           /\ Steps(r)[run[r].at].op = "fresh" => CheckFresh(r)
<1>1. Passes(r) \/ \E new \in FileStates : WritesFile(r, new)
  BY Kinds, Zenon DEF Ends, WritesRecord, Moves
<1>2. Running(r) /\ run'[r].at = run[r].at + 1
  BY <1>1, Zenon DEF Passes, WritesFile, Moves
<1>3. ASSUME Steps(r)[run[r].at].op \in {"found", "fresh"}
      PROVE  ReadOwn(r) \/ CheckFresh(r)
  <2>1. run[r].state = "running" /\ Steps(r)[run[r].at].op \notin Writing /\ ~run[r].half
    <3>1. run[r].state = "running" /\ run[r].half \in BOOLEAN
      BY <1>2 DEF Running, FilesInv, Types, Places
    <3>2. QED
      BY <1>3, <3>1 DEF FilesInv, PlaceInv, Writing
  <2>2. Code(r).steps[run[r].at].op \in {"found", "fresh"}
    BY <1>3 DEF Steps
  <2>3. ~Return(r) /\ ~HandlerFails(r) /\ ~Kill(r) /\ (\A kind \in Anything : ~Raise(r, kind))
    <3>1. ASSUME Return(r) \/ HandlerFails(r) \/ Kill(r) \/ (\E kind \in Anything : Raise(r, kind))
          PROVE  FALSE
      <4>1. PICK state \in RunStates : Ends(r, state)
        BY <3>1, Ending
      <4>2. QED
        BY <4>1 DEF Ends, Moves
    <3>2. QED
      BY <3>1
  <2>4. ~OpenRecord(r) /\ ~FinishRecord(r) /\ ~FinishFile(r) /\ ~Drift(r)
    BY <2>1 DEF OpenRecord, FinishRecord, FinishFile, Drift
  <2>5. QED
    BY <2>2, <2>3, <2>4 DEF Act, At, MakeDirectory, OpenNew, OpenOver, AppendLine, CompareRegistered,
       KeepHash, CompareKept, ReadContent, ReadVerified, ReadAndHash, PrintLine
<1>4. QED
  BY <1>2, <1>3 DEF ReadOwn, CheckFresh, At, Steps

\* Beside an audit there are only audits and captures.
LEMMA BesideAudit ==
    ASSUME ProgramsInv, NEW q \in Runs, NEW r \in Runs, program[q] \in {"source_audit", "source_capture"}
    PROVE  program[r] \in {"source_audit", "source_capture"}
  BY DEF ProgramsInv

LEMMA AuditAndCapture ==
    /\ AuditsAfterCapture(Programs["source_capture"], Programs["source_audit"])
    /\ \A r : program[r] = "source_audit" => Code(r) = Programs["source_audit"]
    /\ \A r : program[r] = "source_capture" => Code(r) = Programs["source_capture"]
  BY ProgramsAssumption DEF Code

\* While there is an audit that has found a whole report, nobody says that the capture failed.
LEMMA FailureStays ==
    ASSUME FilesInv, AuditInv, NEW r \in Runs, Act(r), NEW q \in Runs, program[q] = "source_audit",
           IsWhole("report.json"), ~Exists("failure.json")
    PROVE  ~Exists("failure.json")'
<1>1. SUFFICES ASSUME Exists("failure.json")'
               PROVE  FALSE
  OBVIOUS
<1>2. program[r] \in {"source_audit", "source_capture"}
  BY BesideAudit DEF FilesInv, Types
<1>3. CASE UNCHANGED disk
  BY <1>1, <1>3 DEF Exists
<1>4. ASSUME NEW f, NEW new, Puts(r, f, new), f # "failure.json"
      PROVE  FALSE
  <2>1. DOMAIN disk' = DOMAIN disk /\ \A g \in DOMAIN disk \ {f} : disk'[g] = disk[g]
    BY <1>4, PutLeaves DEF FilesInv
  <2>2. QED
    BY <1>1, <1>4, <2>1 DEF Exists
<1>5. ASSUME NEW new, WritesFile(r, new)
      PROVE  FALSE
  <2>1. Running(r) /\ Steps(r)[run[r].at].op \in Writing /\ Puts(r, File(r), new)
    BY <1>5 DEF WritesFile
  <2>2. File(r) \in Written(Code(r))
    BY <2>1, Here1 DEF FilesInv
  <2>3. File(r) # "failure.json"
    BY <1>2, <2>2, AuditAndCapture DEF AuditsAfterCapture
  <2>4. QED
    BY <1>4, <2>1, <2>3
<1>6. ASSUME NEW new, WritesRecord(r, new)
      PROVE  FALSE
  BY <1>2, <1>6 DEF WritesRecord, AuditInv
<1>7. QED
  BY <1>3, <1>5, <1>6, Kinds DEF Passes, Ends

\* A running run whose try fails has not finished the report its try ends with.
LEMMA FailedBeforeReport ==
    ASSUME FilesInv, NEW r \in Runs, program[r] = "source_capture", Running(r), run[r].at \in Code(r).guarded
    PROVE  ~IsWhole("report.json")
<1> DEFINE p == Code(r)
<1>1. WritesInOrder(p)
  BY InOrder DEF FilesInv, Types
<1>2. PICK last \in Writes(p) : Reports(p) = {last} /\ last \in Nat /\ FileAt(p, last) = p.report /\ p.report \notin Journals
  BY BeforeReport DEF FilesInv, Types
<1>3. p.report = "report.json" /\ run[r].at <= last
  BY <1>2, AuditAndCapture DEF AuditsAfterCapture
<1>4. First(p) < run[r].at
  BY <1>1 DEF WritesInOrder
<1>5. run[r].state = "running"
  BY DEF Running
<1>6. Owns(r)
  BY <1>4, <1>5 DEF FilesInv, PlaceInv
<1>7. disk["report.json"] = None \/ (run[r].at = last /\ run[r].half)
  BY <1>2, <1>3, <1>5, <1>6 DEF FilesInv, DoneInv
<1>8. CASE disk["report.json"] = None
  BY <1>8 DEF IsWhole, Exists
<1>9. CASE run[r].at = last /\ run[r].half
  <2>1. disk["report.json"] = Part(r)
    BY <1>2, <1>3, <1>5, <1>9 DEF FilesInv, PlaceInv
  <2>2. QED
    BY <2>1, Unfinished DEF IsWhole
<1>10. QED
  BY <1>7, <1>8, <1>9

\* No other run finishes the report while a capture handles its failure.
LEMMA HandlingCapture ==
    ASSUME FilesInv, AuditInv, NEW r \in Runs, Act(r), NEW q \in Runs, program[q] = "source_capture",
           run'[q].state = "handling"
    PROVE  ~IsWhole("report.json")'
<1>1. CASE run[q].state = "handling"
  <2>1. ~IsWhole("report.json") /\ Owns(q) /\ program[r] \in {"source_audit", "source_capture"}
    BY <1>1, BesideAudit DEF AuditInv, FilesInv, PlaceInv, Types
  <2>2. SUFFICES ASSUME IsWhole("report.json")'
                 PROVE  FALSE
    OBVIOUS
  <2>3. CASE UNCHANGED disk
    BY <2>1, <2>2, <2>3 DEF IsWhole, Exists
  <2>4. ASSUME NEW f, NEW new, Puts(r, f, new), f # "report.json"
        PROVE  FALSE
    <3>1. DOMAIN disk' = DOMAIN disk /\ \A g \in DOMAIN disk \ {f} : disk'[g] = disk[g]
      BY <2>4, PutLeaves DEF FilesInv
    <3>2. QED
      BY <2>1, <2>2, <2>4, <3>1 DEF IsWhole, Exists
  <2>5. ASSUME NEW new, WritesFile(r, new)
        PROVE  FALSE
    <3>1. Running(r) /\ Steps(r)[run[r].at].op \in Writing /\ Puts(r, File(r), new)
      BY <2>5 DEF WritesFile
    <3>2. File(r) \in Written(Code(r)) /\ run[r].state = "running"
      BY <3>1, Here1 DEF FilesInv
    <3>3. File(r) = "report.json"
      BY <2>4, <3>1
    <3>4. program[r] = "source_capture" /\ r # q
      BY <1>1, <2>1, <3>2, <3>3, AuditAndCapture DEF AuditsAfterCapture
    <3>5. Owns(q)' /\ Owns(r)' /\ Code(q)' = Code(r)'
      <4>1. Code(q) = Code(r) /\ program' = program
        BY <3>4, Kinds DEF Code
      <4>2. Owns(q)' /\ Owns(r)'
        BY <2>1, <2>5, <3>1, OwnsStays, WriterOwns DEF FilesInv
      <4>3. QED
        BY <4>1, <4>2, <3>4 DEF Code
    <3>6. QED
      BY <3>4, <3>5 DEF Owns
  <2>6. ASSUME NEW new, WritesRecord(r, new)
        PROVE  FALSE
    <3>1. Code(r).record = "failure.json"
      BY <2>1, AuditAndCapture DEF AuditsAfterCapture
    <3>2. QED
      BY <2>4, <2>6, <3>1 DEF WritesRecord
  <2>7. QED
    BY <2>3, <2>5, <2>6, Kinds DEF Passes, Ends
<1>2. CASE run[q].state # "handling"
  <2>1. /\ q = r /\ Running(r) /\ run[r].at \in Code(r).guarded /\ UNCHANGED disk
    <3>1. \/ Passes(r) \/ (\E new \in FileStates : WritesFile(r, new))
          \/ (\E state \in RunStates : Ends(r, state) /\ q = r /\ state = "handling")
      BY <1>2, Kinds, Zenon DEF Ends, WritesRecord, Moves
    <3>2. ~Passes(r) /\ \A new \in FileStates : ~WritesFile(r, new)
      BY <1>2 DEF Passes, WritesFile, Moves
    <3>3. QED
      BY <3>1, <3>2 DEF Ends
  <2>2. ~IsWhole("report.json")
    BY <2>1, FailedBeforeReport
  <2>3. QED
    BY <2>1, <2>2 DEF IsWhole, Exists
<1>3. QED
  BY <1>1, <1>2

LEMMA OnlyOneActs ==
    ASSUME FilesInv, NEW r \in Runs, Act(r), NEW q \in Runs
    PROVE  /\ q # r => run'[q] = run[q]
           /\ run'[q].state = "running" => run[q].state = "running"
<1>1. ASSUME q # r
      PROVE  run'[q] = run[q]
  BY <1>1, Kinds DEF Passes, WritesFile, Ends, WritesRecord, Moves
<1>2. ASSUME q = r, run'[r].state = "running"
      PROVE  run[r].state = "running"
  <2>1. CASE Running(r)
    BY <2>1 DEF Running
  <2>2. ASSUME NEW state \in RunStates, Ends(r, state)
        PROVE  FALSE
    BY <1>2, <2>2 DEF Ends, Moves
  <2>3. ASSUME NEW new, WritesRecord(r, new)
        PROVE  FALSE
    BY <1>2, <2>3 DEF WritesRecord, Moves
  <2>4. CASE UNCHANGED <<program, disk, run>>
    BY <1>2, <2>4
  <2>5. QED
    BY <2>1, <2>2, <2>3, <2>4, Kinds DEF Passes, WritesFile
<1>3. QED
  BY <1>1, <1>2

LEMMA AuditNeverHandles ==
    ASSUME FilesInv, AuditInv, NEW r \in Runs, Act(r), NEW q \in Runs, program[q] = "source_audit"
    PROVE  run'[q].state # "handling"
<1>1. run[q].state # "handling"
  BY DEF AuditInv
<1>2. Code(q).guarded = {}
  BY AuditAndCapture DEF AuditsAfterCapture
<1>3. SUFFICES ASSUME run'[q].state = "handling"
               PROVE  FALSE
  OBVIOUS
<1>4. CASE q # r
  BY <1>1, <1>3, <1>4, Kinds DEF Passes, WritesFile, Ends, WritesRecord, Moves
<1>5. CASE q = r
  BY <1>1, <1>2, <1>3, <1>5, Kinds DEF Passes, WritesFile, Ends, WritesRecord, Moves
<1>6. QED
  BY <1>4, <1>5

\* What an audit knows from its checks.
CheckedBy(r) ==
    \A i \in DOMAIN Steps(r) : i < run[r].at =>
        /\ Steps(r)[i] = Step("found", {"report.json"}) => IsWhole("report.json")
        /\ \A j \in DOMAIN Steps(r) :
              Steps(r)[j] = Step("found", {"report.json"}) /\ j < i
                /\ Steps(r)[i] = Step("fresh", {"failure.json"}) => ~Exists("failure.json")

LEMMA AuditChecks ==
    ASSUME FilesInv, AuditInv, NEW r \in Runs, Act(r), NEW q \in Runs, program[q] = "source_audit",
           run'[q].state = "running"
    PROVE  CheckedBy(q)'
<1>1. Steps(q)' = Steps(q)
  BY Kinds DEF Steps, Code
<1>2. run[q].state = "running" /\ (run'[q].at = run[q].at \/ (q = r /\ run'[r].at = run[r].at + 1 /\ Running(r)))
  <2>1. run[q].state = "running"
    BY OnlyOneActs
  <2>2. q # r => run'[q] = run[q]
    BY OnlyOneActs
  <2>3. QED
    BY <2>1, <2>2, Checking
<1>3. CheckedBy(q)
  BY <1>2 DEF AuditInv, CheckedBy
<1>4. DOMAIN Steps(q) \subseteq Nat /\ run[q].at \in Nat
  <2>1. Steps(q) \in Seq([op : STRING, on : SUBSET STRING]) /\ run[q] \in Places
    BY InOrder DEF WritesInOrder, Steps, FilesInv, Types
  <2>2. QED
    BY <2>1 DEF Places
<1>5. SUFFICES ASSUME NEW i \in DOMAIN Steps(q), i < run'[q].at
               PROVE  /\ Steps(q)[i] = Step("found", {"report.json"}) => IsWhole("report.json")'
                      /\ \A j \in DOMAIN Steps(q) :
                            Steps(q)[j] = Step("found", {"report.json"}) /\ j < i
                              /\ Steps(q)[i] = Step("fresh", {"failure.json"}) => ~Exists("failure.json")'
  BY <1>1 DEF CheckedBy
<1>6. Steps(q)[i] = Step("found", {"report.json"}) => IsWhole("report.json")
  <2>1. SUFFICES ASSUME Steps(q)[i] = Step("found", {"report.json"}), ~(i < run[q].at)
                 PROVE  IsWhole("report.json")
    BY <1>3 DEF CheckedBy
  <2>2. q = r /\ i = run[r].at /\ Running(r)
    BY <1>2, <1>4, <1>5, <2>1
  <2>3. Steps(r)[run[r].at].op = "found" /\ Steps(r)[run[r].at].on = {"report.json"}
    BY <2>1, <2>2 DEF Step
  <2>4. run'[r].at # run[r].at
    BY <1>2, <1>4, <1>5, <2>2
  <2>5. ReadOwn(r)
    BY <2>2, <2>3, <2>4, Checking
  <2>6. File(r) = "report.json"
    BY <2>3 DEF File, Here, Steps
  <2>7. QED
    BY <2>5, <2>6 DEF ReadOwn
<1>7. ASSUME NEW j \in DOMAIN Steps(q), Steps(q)[j] = Step("found", {"report.json"}), j < i,
             Steps(q)[i] = Step("fresh", {"failure.json"})
      PROVE  IsWhole("report.json") /\ ~Exists("failure.json")
  <2>1. j < run[q].at
    BY <1>2, <1>4, <1>5, <1>7
  <2>2. IsWhole("report.json")
    BY <1>3, <1>7, <2>1 DEF CheckedBy
  <2>3. CASE i < run[q].at
    BY <1>3, <1>7, <2>2, <2>3 DEF CheckedBy
  <2>4. CASE ~(i < run[q].at)
    <3>1. q = r /\ i = run[r].at /\ Running(r) /\ run'[r].at # run[r].at
      BY <1>2, <1>4, <1>5, <2>4
    <3>2. Steps(r)[run[r].at].op = "fresh" /\ Steps(r)[run[r].at].on = {"failure.json"}
      BY <1>7, <3>1 DEF Step
    <3>3. CheckFresh(r)
      BY <3>1, <3>2, Checking
    <3>4. File(r) = "failure.json"
      BY <3>2 DEF File, Here, Steps
    <3>5. QED
      BY <2>2, <3>3, <3>4 DEF CheckFresh, Exists
  <2>5. QED
    BY <2>3, <2>4
<1>8. QED
  BY <1>6, <1>7, WholeAlways, FailureStays

\* The audit is written on a complete report that nothing contradicts.
LEMMA AuditWritten ==
    ASSUME FilesInv, AuditInv, NEW r \in Runs, Act(r), Exists("audit.json")'
    PROVE  IsWhole("report.json")' /\ ~Exists("failure.json")'
<1>1. SUFFICES \E q \in Runs : program[q] = "source_audit" /\ IsWhole("report.json") /\ ~Exists("failure.json")
  BY WholeAlways, FailureStays
<1>2. CASE Exists("audit.json")
  <2>1. PICK q \in Runs : "audit.json" \in Output(Code(q))
    BY <1>2 DEF Exists, FilesInv, WriterInv
  <2>2. program[q] = "source_audit"
    BY <2>1, AuditAndCapture DEF AuditsAfterCapture, Code, FilesInv, Types, ProgramsInv
  <2>3. QED
    BY <1>2, <2>2 DEF AuditInv
<1>3. CASE ~Exists("audit.json")
  <2>1. ~UNCHANGED disk
    BY <1>2, <1>3 DEF Exists
  <2>2. ASSUME NEW f, NEW new, Puts(r, f, new)
        PROVE  f = "audit.json" /\ program[r] = "source_audit"
    <3>1. f = "audit.json"
      <4>1. DOMAIN disk' = DOMAIN disk /\ \A g \in DOMAIN disk \ {f} : disk'[g] = disk[g]
        BY <2>2, PutLeaves DEF FilesInv
      <4>2. QED
        BY <1>3, <4>1 DEF Exists
    <3>2. "audit.json" \in Output(Code(r))
      BY <2>2, <3>1 DEF Puts
    <3>3. QED
      BY <3>1, <3>2, AuditAndCapture DEF AuditsAfterCapture, Code, FilesInv, Types, ProgramsInv
  <2>3. ASSUME NEW new, WritesRecord(r, new)
        PROVE  FALSE
    BY <2>2, <2>3 DEF WritesRecord, AuditInv
  <2>4. ASSUME NEW new, WritesFile(r, new)
        PROVE  program[r] = "source_audit" /\ IsWhole("report.json") /\ ~Exists("failure.json")
    <3>1. /\ Running(r) /\ Steps(r)[run[r].at].op \in Writing /\ program[r] = "source_audit"
      BY <2>2, <2>4 DEF WritesFile
    <3>2. run[r].at \in Writes(Code(r)) /\ run[r].state = "running" /\ run[r].at \in Nat
      BY <3>1, Here1 DEF FilesInv
    <3>3. PICK i, j \in DOMAIN Steps(r) :
              /\ Steps(r)[i] = Step("found", {"report.json"})
              /\ Steps(r)[j] = Step("fresh", {"failure.json"})
              /\ i < j /\ \A k \in Writes(Code(r)) : j < k
      BY <3>1, AuditAndCapture DEF AuditsAfterCapture, Steps
    <3>4. CheckedBy(r)
      BY <3>1, <3>2 DEF AuditInv, CheckedBy
    <3>5. DOMAIN Steps(r) \subseteq Nat
      <4>1. Steps(r) \in Seq([op : STRING, on : SUBSET STRING])
        BY InOrder DEF WritesInOrder, Steps, FilesInv, Types
      <4>2. QED
        BY <4>1
    <3>6. j < run[r].at /\ i < run[r].at
      BY <3>2, <3>3, <3>5
    <3>7. QED
      BY <3>1, <3>3, <3>4, <3>6 DEF CheckedBy
  <2>5. QED
    BY <2>1, <2>3, <2>4, Kinds DEF Passes, Ends
<1>4. QED
  BY <1>2, <1>3

LEMMA AuditKeeps == ASSUME FilesInv, AuditInv, NEW r \in Runs, Act(r) PROVE AuditInv'
<1>1. program' = program
  BY Kinds
<1>2. \A q \in Runs : program[q] = "source_audit" /\ run'[q].state = "running" => CheckedBy(q)'
  BY AuditChecks
<1>3. QED
  BY <1>1, <1>2, HandlingCapture, AuditNeverHandles, AuditWritten DEF AuditInv, CheckedBy

LEMMA MadeKeeps == ASSUME FilesInv, MadeInv, NEW r \in Runs, Act(r) PROVE MadeInv'
<1>1. SUFFICES ASSUME NEW q \in Runs, run'[q].state = "running", NEW f \in DOMAIN disk', disk'[f] # None,
                      disk'[f].by = {q}
               PROVE  \E i \in Writes(Code(q)) : i <= run'[q].at /\ f = FileAt(Code(q), i)
  BY Kinds DEF MadeInv, Code
<1>2. /\ run[q].state = "running" /\ run[q].at \in Nat /\ run'[q].at \in {run[q].at, run[q].at + 1}
      /\ q # r => run'[q] = run[q]
  <2>1. run[q].state = "running" /\ (q # r => run'[q] = run[q])
    BY <1>1, OnlyOneActs
  <2>2. QED
    BY <1>1, <2>1, Checking DEF FilesInv, Types, Places
<1>3. \A i \in Writes(Code(q)) : i \in Nat
  <2>1. DOMAIN Code(q).steps \subseteq Nat
    <3>1. Code(q).steps \in Seq([op : STRING, on : SUBSET STRING])
      BY InOrder DEF WritesInOrder, FilesInv, Types
    <3>2. QED
      BY <3>1
  <2>2. QED
    BY <2>1 DEF Writes
<1>4. CASE f \in DOMAIN disk /\ disk[f] # None /\ disk[f].by = {q}
  BY <1>2, <1>3, <1>4 DEF MadeInv
<1>5. CASE ~(f \in DOMAIN disk /\ disk[f] # None /\ disk[f].by = {q})
  <2>1. ~UNCHANGED disk
    BY <1>1, <1>5
  <2>2. ASSUME NEW g, NEW new, Puts(r, g, new)
        PROVE  g = f /\ q = r
    <3>1. DOMAIN disk' = DOMAIN disk /\ disk'[g] = new /\ \A h \in DOMAIN disk \ {g} : disk'[h] = disk[h]
      BY <2>2, PutLeaves DEF FilesInv
    <3>2. QED
      BY <1>1, <1>5, <2>2, <3>1 DEF Puts
  <2>3. ASSUME NEW new, WritesRecord(r, new)
        PROVE  FALSE
    BY <1>2, <2>2, <2>3 DEF WritesRecord
  <2>4. ASSUME NEW new, WritesFile(r, new)
        PROVE  run[q].at \in Writes(Code(q)) /\ f = FileAt(Code(q), run[q].at)
    BY <2>2, <2>4, Here1 DEF WritesFile, FilesInv
  <2>5. PICK new : WritesFile(r, new)
    BY <2>1, <2>3, Kinds DEF Passes, Ends
  <2>6. run[q].at \in Writes(Code(q)) /\ f = FileAt(Code(q), run[q].at)
    BY <2>4, <2>5
  <2>7. run[q].at <= run'[q].at
    BY <1>2
  <2>8. QED
    BY <2>6, <2>7
<1>6. QED
  BY <1>4, <1>5

\* The second half of Accounted, run by run.
Results(r) == {f \in DOMAIN disk \ Preamble : Exists(f) /\ r \in disk[f].by}
HasVerdict(r) == Results(r) = {} \/ Results(r) \cap {Code(r).record, Code(r).report} # {}
Failed(r) ==
    \/ run[r].state \in {"raised", "recorded"}
    \/ run[r].state = "interrupted" /\ Code(r).catches = Anything
AccountsFor(r) == ReportGuarded(r) /\ Failed(r) => HasVerdict(r)

LEMMA AccountedRunByRun ==
    Accounted <=> /\ Exists("audit.json") => IsWhole("report.json") /\ ~Exists("failure.json")
                  /\ \A r \in Runs : AccountsFor(r)
  BY DEF Accounted, AccountsFor, HasVerdict, Failed, Results

LEMMA GuardedReport ==
    ASSUME ProgramsInv, NEW r \in Runs, ReportGuarded(r)
    PROVE  /\ "error" \in Code(r).catches /\ {Code(r).record, Code(r).report} \cap Preamble = {}
           /\ \A i \in DOMAIN Steps(r) \ Code(r).guarded :
                 \/ \A k \in Reports(Code(r)) : k < i
                 \/ \A j \in Writes(Code(r)) : j <= i => FileAt(Code(r), j) \in Preamble
<1> DEFINE p == Code(r)
<1>1. WritesInOrder(p) /\ GuardsItsResults(p)
  BY InOrder
<1>2. PICK i \in p.guarded : p.steps[i] = Step("put", {p.report})
  BY DEF ReportGuarded
<1>3. i \in Reports(p)
  BY <1>1, <1>2 DEF WritesInOrder, Reports
<1>4. Reports(p) \subseteq p.guarded
  BY <1>1, <1>2, <1>3 DEF WritesInOrder
<1>5. QED
  BY <1>1, <1>4 DEF GuardsItsResults, Steps

\* A run that leaves its program outside its try has written its report, or no result.
LEMMA OutsideTheTry ==
    ASSUME FilesInv, MadeInv, NEW r \in Runs, ReportGuarded(r), Running(r), run[r].at \notin Code(r).guarded
    PROVE  HasVerdict(r)
<1> DEFINE p == Code(r)
<1>1. run[r].state = "running" /\ run[r].at \in DOMAIN Steps(r) \ p.guarded
  BY DEF Running, Steps
<1>2. {p.record, p.report} \cap Preamble = {}
  BY GuardedReport DEF FilesInv, Types
<1>3. CASE \A k \in Reports(p) : k < run[r].at
  <2>1. PICK last \in Writes(p) : Reports(p) = {last} /\ FileAt(p, last) = p.report
    BY BeforeReport DEF FilesInv, Types
  <2>2. IsWhole(p.report) /\ disk[p.report].by = {r}
    BY <1>1, <1>3, <2>1 DEF FilesInv, DoneInv
  <2>3. p.report \in Results(r)
    BY <1>2, <2>2 DEF Results, IsWhole, Exists
  <2>4. QED
    BY <2>3 DEF HasVerdict
<1>4. CASE \A j \in Writes(p) : j <= run[r].at => FileAt(p, j) \in Preamble
  <2>1. SUFFICES ASSUME NEW f \in Results(r)
                 PROVE  FALSE
    BY DEF HasVerdict
  <2>2. f \in DOMAIN disk \ Preamble /\ disk[f] # None /\ r \in disk[f].by
    BY <2>1 DEF Results, Exists
  <2>3. disk[f].by = {r}
    BY <2>2 DEF FilesInv, WriterInv
  <2>4. PICK i \in Writes(p) : i <= run[r].at /\ f = FileAt(p, i)
    BY <1>1, <2>2, <2>3 DEF MadeInv
  <2>5. QED
    BY <1>4, <2>2, <2>4
<1>5. QED
  BY <1>1, <1>3, <1>4, GuardedReport DEF FilesInv, Types

LEMMA AccountsKeep ==
    ASSUME FilesInv, MadeInv, NEW r \in Runs, Act(r), NEW q \in Runs, AccountsFor(q)
    PROVE  AccountsFor(q)'
<1>1. Code(q)' = Code(q) /\ (ReportGuarded(q)' <=> ReportGuarded(q)) /\ program' = program
  <2>1. program' = program
    BY Kinds
  <2>2. QED
    BY <2>1 DEF ReportGuarded, Code
<1>2. CASE q # r
  <2>1. run'[q] = run[q]
    BY <1>2, OnlyOneActs
  <2>2. Results(q)' = Results(q)
    <3>1. CASE UNCHANGED disk
      BY <3>1 DEF Results, Exists
    <3>2. ASSUME NEW g, NEW new, Puts(r, g, new)
          PROVE  Results(q)' = Results(q)
      <4>1. /\ g \in DOMAIN disk /\ DOMAIN disk' = DOMAIN disk /\ disk'[g] = new /\ new # None
            /\ \A f \in DOMAIN disk \ {g} : disk'[f] = disk[f]
        BY <3>2, PutLeaves DEF FilesInv
      <4>2. new.by = {r} /\ (disk[g] = None \/ disk[g].by = {r})
        BY <3>2 DEF Puts
      <4>3. ASSUME NEW f \in DOMAIN disk
            PROVE  (Exists(f) /\ q \in disk[f].by)' <=> Exists(f) /\ q \in disk[f].by
        BY <1>2, <4>1, <4>2 DEF Exists
      <4>4. QED
        BY <4>1, <4>3 DEF Results
    <3>3. QED
      BY <3>1, <3>2, Kinds DEF Passes, WritesFile, Ends, WritesRecord
  <2>3. QED
    BY <1>1, <2>1, <2>2 DEF AccountsFor, HasVerdict, Failed
<1>3. CASE q = r /\ run'[r].state = run[r].state
  <2>1. SUFFICES ASSUME Failed(r)'
                 PROVE  Results(r)' = Results(r) /\ Failed(r)
    BY <1>1, <1>3 DEF AccountsFor, HasVerdict
  <2>2. run[r].state \in {"raised", "interrupted", "recorded"} /\ Failed(r)
    BY <1>1, <1>3, <2>1 DEF Failed
  <2>3. ~Running(r) /\ run[r].state \notin {"running", "handling"}
    BY <2>2 DEF Running
  <2>4. UNCHANGED disk
    BY <2>3, Kinds DEF Passes, WritesFile, Ends, WritesRecord
  <2>5. QED
    BY <2>2, <2>4 DEF Results, Exists
<1>4. CASE q = r /\ run'[r].state # run[r].state
  <2>1. SUFFICES ASSUME ReportGuarded(r), Failed(r)'
                 PROVE  HasVerdict(r)'
    BY <1>1, <1>4 DEF AccountsFor
  <2>2. run'[r].state \in {"raised", "interrupted", "recorded"}
    BY <2>1 DEF Failed
  <2>3. CASE \E kind \in Anything : Raise(r, kind)
    <3>1. PICK kind \in Anything : Raise(r, kind)
      BY <2>3
    <3>2. Running(r) /\ UNCHANGED disk
      BY <3>1 DEF Raise
    <3>3. "error" \in Code(r).catches
      BY <2>1, GuardedReport DEF FilesInv, Types
    <3>4. run[r].at \notin Code(r).guarded
      <4> DEFINE state == IF run[r].at \in Code(r).guarded /\ kind \in Code(r).catches
                            THEN "handling" ELSE IF kind = "error" THEN "raised" ELSE "interrupted"
      <4>1. state \in RunStates
        BY DEF RunStates
      <4>2. run'[r] = Quiet(state)
        BY <3>1 DEF Raise, FilesInv, Types
      <4>3. run'[r].state = state
        BY <4>1, <4>2, QuietOf
      <4>4. CASE kind = "error"
        BY <2>2, <3>3, <4>3, <4>4
      <4>5. CASE kind # "error"
        <5>1. run'[r].state = "interrupted"
          BY <2>2, <4>3, <4>5
        <5>2. Code(r).catches = Anything
          BY <1>1, <1>4, <2>1, <5>1 DEF Failed
        <5>3. QED
          BY <3>1, <4>3, <5>1, <5>2
      <4>6. QED
        BY <4>4, <4>5
    <3>5. HasVerdict(r)
      BY <2>1, <3>2, <3>4, OutsideTheTry
    <3>6. Results(r)' = Results(r)
      BY <3>2 DEF Results, Exists
    <3>7. QED
      BY <1>1, <1>4, <3>5, <3>6 DEF HasVerdict
  <2>4. CASE FinishRecord(r)
    <3>1. PICK new \in FileStates : Puts(r, Code(r).record, new)
      BY <2>4, Recording DEF WritesRecord
    <3>2. disk'[Code(r).record] = new /\ new # None /\ new.by = {r} /\ Code(r).record \in DOMAIN disk'
      <4> DEFINE f == Code(r).record
      <4>1. f \in DOMAIN disk /\ DOMAIN disk' = DOMAIN disk /\ disk'[f] = new /\ new # None
        <5>1. Types /\ Puts(r, f, new)
          BY <3>1 DEF FilesInv
        <5> HIDE DEF f
        <5>2. QED
          BY <5>1, PutLeaves
      <4>2. new.by = {r}
        BY <3>1 DEF Puts
      <4>3. QED
        BY <4>1, <4>2
    <3>3. Code(r).record \notin Preamble
      BY <2>1, GuardedReport DEF FilesInv, Types
    <3>4. Code(r).record \in Results(r)'
      BY <3>2, <3>3 DEF Results, Exists
    <3>5. QED
      BY <1>1, <1>4, <3>4 DEF HasVerdict
  <2>5. QED
    BY <1>4, <2>2, <2>3, <2>4, Failing
<1>5. QED
  BY <1>2, <1>3, <1>4

LEMMA AccountsBegin == Init => AuditInv /\ MadeInv /\ Accounted
<1>1. SUFFICES ASSUME Init
               PROVE  AuditInv /\ MadeInv /\ Accounted
  OBVIOUS
<1>2. FilesInv /\ \A f : ~Exists(f) /\ ~IsWhole(f)
  BY <1>1, FilesBegin, NothingWritten
<1>3. \A r \in Runs : (run[r].state = "running" /\ run[r].at = 1) \/ run[r].state = "absent"
  BY <1>1 DEF Init, Begun, Quiet
<1>4. AuditInv
  <2>1. \A r \in Runs : \A i \in DOMAIN Steps(r) : i >= 1
    <3>1. SUFFICES ASSUME NEW r \in Runs, NEW i \in DOMAIN Steps(r)
                   PROVE  i >= 1
      OBVIOUS
    <3>2. Steps(r) \in Seq([op : STRING, on : SUBSET STRING])
      BY <1>2, InOrder DEF WritesInOrder, Steps, FilesInv, Types
    <3>3. QED
      BY <3>2
  <2>2. \A r \in Runs : run[r].state # "handling"
    BY <1>3
  <2>3. \A r \in Runs : run[r].state = "running" => \A i \in DOMAIN Steps(r) : ~(i < run[r].at)
    <3>1. SUFFICES ASSUME NEW r \in Runs, run[r].state = "running", NEW i \in DOMAIN Steps(r), i < run[r].at
                   PROVE  FALSE
      OBVIOUS
    <3>2. i >= 1 /\ run[r].at = 1 /\ i \in Nat
      <4>1. Steps(r) \in Seq([op : STRING, on : SUBSET STRING])
        BY <1>2, InOrder DEF WritesInOrder, Steps, FilesInv, Types
      <4>2. QED
        BY <1>3, <2>1, <3>1, <4>1
    <3>3. QED
      BY <3>1, <3>2
  <2>4. QED
    BY <1>2, <2>2, <2>3 DEF AuditInv
<1>5. MadeInv
  BY <1>2 DEF MadeInv, Exists
<1>6. \A r \in Runs : AccountsFor(r)
  BY <1>2 DEF AccountsFor, HasVerdict, Results
<1>7. QED
  BY <1>2, <1>4, <1>5, <1>6, AccountedRunByRun

\* No results without a verdict, and an audit has the last word.
THEOREM ResultsAreAccountedFor == Spec => []Accounted
<1> DEFINE Inv == AuditInv /\ MadeInv /\ Accounted
<1>1. FilesInv /\ Inv /\ [Next]_vars => Inv'
  <2>1. SUFFICES ASSUME FilesInv, Inv, [Next]_vars
                 PROVE  Inv'
    OBVIOUS
  <2>2. CASE UNCHANGED vars
    <3>1. /\ disk' = disk /\ program' = program /\ run' = run
          /\ \A r : Code(r)' = Code(r) /\ Steps(r)' = Steps(r)
          /\ \A g : (Exists(g)' <=> Exists(g)) /\ (IsWhole(g)' <=> IsWhole(g))
      BY <2>2 DEF IsWhole, Exists, Code, Steps, vars
    <3>2. AuditInv' /\ MadeInv'
      BY <2>1, <3>1 DEF AuditInv, MadeInv
    <3>3. Accounted'
      BY <2>1, <3>1 DEF Accounted, ReportGuarded
    <3>4. QED
      BY <3>2, <3>3
  <2>3. CASE Next
    <3>1. PICK r \in Runs : Act(r)
      BY <2>3, NextIsAct
    <3>2. AuditInv' /\ MadeInv'
      BY <2>1, <3>1, AuditKeeps, MadeKeeps
    <3>3. \A q \in Runs : AccountsFor(q)'
      BY <2>1, <3>1, AccountsKeep, AccountedRunByRun
    <3>4. Accounted'
      BY <3>2, <3>3 DEF AuditInv, Accounted, AccountsFor, HasVerdict, Failed, Results
    <3>5. QED
      BY <3>2, <3>4
  <2>4. QED
    BY <2>1, <2>2, <2>3
<1>2. QED
  BY <1>1, AccountsBegin, FilesAlways, PTL DEF Spec

-----------------------------------------------------------------------------
\* What a running program kept and saw of thing x.
Marks == {"registered", "changed"}
Now(x) == IF drifted = x THEN "changed" ELSE "registered"
ReadOf(r, x) ==
    /\ <<x, "changed">> \in run[r].kept \cup run[r].seen => drifted = x
    /\ \A mark \in Marks : <<x, mark>> \in run[r].seen =>
          \E i \in StepsOn(Code(r), x, Seeing) : i < run[r].at
    /\ KeptFirst(Code(r), x) /\ <<x, "changed">> \in run[r].kept => <<x, "registered">> \notin run[r].seen
    /\ \A c \in DOMAIN Steps(r) : Settles(Code(r), x, c) /\ c < run[r].at =>
          \A mark \in Marks : <<x, mark>> \in run[r].seen => <<x, mark>> \in run[r].kept
ReadInv == \A r \in Runs, x \in STRING : run[r].state = "running" => ReadOf(r, x)

\* What a step of a running program does to them.
Op(r) == Steps(r)[run[r].at].op
KeptAfter(r) ==
    IF Op(r) \in Keeping THEN {k \in run[r].kept : k[1] \notin Here(r)} \cup Current(Here(r)) ELSE run[r].kept
SeenAfter(r) == IF Op(r) \in Seeing THEN run[r].seen \cup Current(Here(r)) ELSE run[r].seen
Reads(r) ==
    /\ Running(r) /\ run'[r].at = run[r].at + 1 /\ drifted' = drifted
    /\ run'[r].kept = KeptAfter(r) /\ run'[r].seen = SeenAfter(r)
    /\ Op(r) \in {"pin", "take"} => drifted \notin Here(r)
    /\ Op(r) = "same" => Current(Here(r)) \subseteq run[r].kept
Rests(r) == run'[r].at = run[r].at /\ run'[r].kept = run[r].kept /\ run'[r].seen = run[r].seen

LEMMA FieldsAfter ==
    ASSUME Types, NEW r \in Runs
    PROVE  /\ Advance(r) => run'[r].kept = run[r].kept /\ run'[r].seen = run[r].seen
           /\ Keep(r) => /\ run'[r].kept = {k \in run[r].kept : k[1] \notin Here(r)} \cup Current(Here(r))
                         /\ run'[r].seen = run[r].seen
           /\ See(r) => run'[r].kept = run[r].kept /\ run'[r].seen = run[r].seen \cup Current(Here(r))
           /\ KeepAndSee(r) => /\ run'[r].kept = {k \in run[r].kept : k[1] \notin Here(r)} \cup Current(Here(r))
                               /\ run'[r].seen = run[r].seen \cup Current(Here(r))
           /\ run' = [run EXCEPT ![r].half = TRUE] => Rests(r)
<1>1. run \in [Runs -> Places] /\ run[r] \in Places
  BY DEF Types
<1>2. Advance(r) => run'[r].kept = run[r].kept /\ run'[r].seen = run[r].seen
  BY <1>1 DEF Advance, Places
<1>3. Keep(r) => /\ run'[r].kept = {k \in run[r].kept : k[1] \notin Here(r)} \cup Current(Here(r))
                 /\ run'[r].seen = run[r].seen
  BY <1>1 DEF Keep, Places
<1>4. See(r) => run'[r].kept = run[r].kept /\ run'[r].seen = run[r].seen \cup Current(Here(r))
  BY <1>1 DEF See, Places
<1>5. KeepAndSee(r) => /\ run'[r].kept = {k \in run[r].kept : k[1] \notin Here(r)} \cup Current(Here(r))
                       /\ run'[r].seen = run[r].seen \cup Current(Here(r))
  BY <1>1 DEF KeepAndSee, Places
<1>6. run' = [run EXCEPT ![r].half = TRUE] => Rests(r)
  BY <1>1 DEF Rests, Places
<1>7. QED
  BY <1>2, <1>3, <1>4, <1>5, <1>6

LEMMA Reading ==
    ASSUME FilesInv, NEW r \in Runs, Act(r), run'[r].state = "running"
    PROVE  Reads(r) \/ Rests(r)
<1>1. ASSUME Running(r), run'[r].at = run[r].at + 1, drifted' = drifted, Advance(r),
             Op(r) \notin Keeping \cup Seeing, Op(r) = "same" => Current(Here(r)) \subseteq run[r].kept
      PROVE  Reads(r)
  BY <1>1, FieldsAfter DEF Reads, KeptAfter, SeenAfter, FilesInv, Keeping
<1>2. CASE MakeDirectory(r) \/ FinishFile(r) \/ AppendLine(r)
  <2>1. PICK new : WritesFile(r, new) /\ new.whole
    <3>1. WritesFile(r, Whole(r)) \/ WritesFile(r, FileOf({r}, TRUE, FALSE, Unhashed(r)))
      BY <1>2, Making, Finishing, Appending
    <3>2. QED
      BY <3>1 DEF Whole, FileOf
  <2>2. Op(r) \in Writing /\ Running(r)
    BY <2>1 DEF WritesFile, Op
  <2>3. run'[r].at = run[r].at + 1 /\ Advance(r) /\ drifted' = drifted
    <3>1. Advance(r) /\ drifted' = drifted
      BY <1>2 DEF MakeDirectory, FinishFile, AppendLine
    <3>2. QED
      BY <2>2, <3>1, GoingOn DEF Moves, FilesInv
  <2>4. QED
    BY <1>1, <2>2, <2>3 DEF Writing, Keeping, Seeing
<1>3. CASE OpenNew(r) \/ OpenOver(r) \/ OpenRecord(r)
  BY <1>3, FieldsAfter DEF OpenNew, OpenOver, OpenRecord, FilesInv
<1>4. CASE Drift(r)
  BY <1>4 DEF Drift, Rests
<1>5. CASE CheckFresh(r) \/ ReadOwn(r) \/ CompareKept(r) \/ PrintLine(r)
  <2>1. /\ Running(r) /\ Advance(r) /\ drifted' = drifted /\ Op(r) \in {"fresh", "found", "same", "say"}
        /\ Op(r) = "same" => Current(Here(r)) \subseteq run[r].kept
    BY <1>5 DEF CheckFresh, ReadOwn, CompareKept, PrintLine, At, Op, Steps
  <2>2. run'[r].at = run[r].at + 1
    BY <2>1, GoingOn DEF Moves, FilesInv
  <2>3. QED
    BY <1>1, <2>1, <2>2 DEF Keeping, Seeing
<1>6. CASE CompareRegistered(r) \/ KeepHash(r)
  <2>1. /\ Running(r) /\ Keep(r) /\ drifted' = drifted /\ Op(r) \in {"pin", "note"}
        /\ Op(r) = "pin" => drifted \notin Here(r)
    BY <1>6 DEF CompareRegistered, KeepHash, At, Op, Steps
  <2>2. run'[r].at = run[r].at + 1
    BY <2>1, GoingOn DEF Moves, FilesInv
  <2>3. QED
    BY <2>1, <2>2, FieldsAfter DEF Reads, KeptAfter, SeenAfter, FilesInv, Keeping, Seeing
<1>7. CASE ReadContent(r)
  <2>1. Running(r) /\ See(r) /\ drifted' = drifted /\ Op(r) = "use"
    BY <1>7 DEF ReadContent, At, Op, Steps
  <2>2. run'[r].at = run[r].at + 1
    BY <2>1, GoingOn DEF Moves, FilesInv
  <2>3. QED
    BY <2>1, <2>2, FieldsAfter DEF Reads, KeptAfter, SeenAfter, FilesInv, Keeping, Seeing
<1>8. CASE ReadVerified(r) \/ ReadAndHash(r)
  <2>1. /\ Running(r) /\ KeepAndSee(r) /\ drifted' = drifted /\ Op(r) \in {"take", "read"}
        /\ Op(r) = "take" => drifted \notin Here(r)
    BY <1>8 DEF ReadVerified, ReadAndHash, At, Op, Steps
  <2>2. run'[r].at = run[r].at + 1
    BY <2>1, GoingOn DEF Moves, FilesInv
  <2>3. QED
    BY <2>1, <2>2, FieldsAfter DEF Reads, KeptAfter, SeenAfter, FilesInv, Keeping, Seeing
<1>9. CASE Return(r) \/ HandlerFails(r) \/ Kill(r) \/ (\E kind \in Anything : Raise(r, kind))
  BY <1>9, Ending DEF Ends, Moves
<1>10. CASE FinishRecord(r)
  <2>1. run'[r] = Quiet("recorded")
    BY <1>10 DEF FinishRecord, FilesInv, Types
  <2>2. QED
    BY <2>1, QuietOf DEF RunStates
<1>11. QED
  BY <1>2, <1>3, <1>4, <1>5, <1>6, <1>7, <1>8, <1>9, <1>10 DEF Act

\* Thing by thing.
LEMMA MarksAfter ==
    ASSUME FilesInv, NEW r \in Runs, Reads(r), NEW x \in STRING, NEW mark \in Marks
    PROVE  /\ <<x, mark>> \in run'[r].kept <=>
                IF Op(r) \in Keeping /\ x \in Here(r) THEN mark = Now(x) ELSE <<x, mark>> \in run[r].kept
           /\ <<x, mark>> \in run'[r].seen <=>
                <<x, mark>> \in run[r].seen \/ (Op(r) \in Seeing /\ x \in Here(r) /\ mark = Now(x))
           /\ Op(r) = "same" /\ x \in Here(r) => <<x, Now(x)>> \in run[r].kept
<1>1. <<x, mark>> \in Current(Here(r)) <=> x \in Here(r) /\ mark = Now(x)
  BY DEF Current, Now
<1>2. <<x, mark>>[1] = x
  OBVIOUS
<1>3. <<x, mark>> \in KeptAfter(r) <=>
          IF Op(r) \in Keeping /\ x \in Here(r) THEN mark = Now(x) ELSE <<x, mark>> \in run[r].kept
  BY <1>1, <1>2 DEF KeptAfter
<1>4. <<x, mark>> \in SeenAfter(r) <=>
          <<x, mark>> \in run[r].seen \/ (Op(r) \in Seeing /\ x \in Here(r) /\ mark = Now(x))
  BY <1>1 DEF SeenAfter
<1>5. x \in Here(r) => <<x, Now(x)>> \in Current(Here(r))
  BY DEF Current, Now
<1>6. QED
  BY <1>3, <1>4, <1>5 DEF Reads

LEMMA StepsAreNumbered ==
    ASSUME Types, NEW r \in Runs
    PROVE  /\ \A i \in DOMAIN Steps(r) : i \in Nat
           /\ run[r].at \in Nat
<1>1. Steps(r) \in Seq([op : STRING, on : SUBSET STRING]) /\ run[r] \in Places
  BY InOrder DEF WritesInOrder, Steps, Types
<1>2. QED
  BY <1>1 DEF Places

\* The step taken is a step on x when it does something with it.
LEMMA StepTaken ==
    ASSUME Types, NEW r \in Runs, Running(r), NEW x \in Here(r), NEW ops, Op(r) \in ops
    PROVE  run[r].at \in StepsOn(Code(r), x, ops) /\ run[r].at \in DOMAIN Steps(r)
  BY DEF StepsOn, Op, Steps, Here, Running

LEMMA ReadsOn ==
    ASSUME FilesInv, NEW r \in Runs, Act(r), Reads(r), NEW x \in STRING, ReadOf(r, x)
    PROVE  ReadOf(r, x)'
<1> DEFINE p == Code(r)
           at == run[r].at
           Kept(mark) == <<x, mark>> \in run[r].kept
           Seen(mark) == <<x, mark>> \in run[r].seen
           Kept1(mark) == <<x, mark>> \in run'[r].kept
           Seen1(mark) == <<x, mark>> \in run'[r].seen
<1>1. /\ Types /\ Running(r) /\ at \in Nat /\ at \in DOMAIN Steps(r)
      /\ run'[r].at = at + 1 /\ drifted' = drifted
      /\ \A i \in DOMAIN Steps(r) : i \in Nat
  BY StepsAreNumbered DEF Reads, Running, Steps, FilesInv
<1>2. ASSUME NEW mark \in Marks
      PROVE  /\ Kept1(mark) <=> IF Op(r) \in Keeping /\ x \in Here(r) THEN mark = Now(x) ELSE Kept(mark)
             /\ Seen1(mark) <=> Seen(mark) \/ (Op(r) \in Seeing /\ x \in Here(r) /\ mark = Now(x))
  BY MarksAfter
<1>3. /\ Op(r) = "same" /\ x \in Here(r) => Kept(Now(x))
      /\ Op(r) \in {"pin", "take"} /\ x \in Here(r) => Now(x) = "registered" /\ drifted # x
      /\ Now(x) \in Marks /\ (Now(x) = "changed" <=> drifted = x)
  BY MarksAfter DEF Reads, Now, Marks
<1>4. /\ Kept("changed") \/ Seen("changed") => drifted = x
      /\ \A mark \in Marks : Seen(mark) => \E i \in StepsOn(p, x, Seeing) : i < at
      /\ KeptFirst(p, x) /\ Kept("changed") => ~Seen("registered")
      /\ \A c \in DOMAIN Steps(r) : Settles(p, x, c) /\ c < at => \A mark \in Marks : Seen(mark) => Kept(mark)
  BY DEF ReadOf
<1>5. /\ \A ops : Op(r) \in ops /\ x \in Here(r) => at \in StepsOn(p, x, ops)
      /\ \A ops : at \in StepsOn(p, x, ops) => Op(r) \in ops /\ x \in Here(r)
      /\ \A ops : StepsOn(p, x, ops) \subseteq DOMAIN Steps(r)
      /\ p' = p /\ Steps(r)' = Steps(r)
  <2>1. program' = program
    BY Kinds
  <2>2. QED
    BY <1>1, <2>1, StepTaken DEF StepsOn, Op, Steps, Here, Code
<1> HIDE DEF p, at, Kept, Seen, Kept1, Seen1
<1>6. Kept1("changed") \/ Seen1("changed") => drifted = x
  BY <1>2, <1>3, <1>4 DEF Marks
<1>7. \A mark \in Marks : Seen1(mark) => \E i \in StepsOn(p, x, Seeing) : i < at + 1
  <2>1. SUFFICES ASSUME NEW mark \in Marks, Seen1(mark)
                 PROVE  \E i \in StepsOn(p, x, Seeing) : i < at + 1
    OBVIOUS
  <2>2. CASE Seen(mark)
    <3>1. PICK i \in StepsOn(p, x, Seeing) : i < at
      BY <1>4, <2>2
    <3>2. i \in Nat
      BY <1>1, <1>5
    <3>3. QED
      BY <1>1, <3>1, <3>2
  <2>3. CASE Op(r) \in Seeing /\ x \in Here(r)
    <3>1. at \in StepsOn(p, x, Seeing)
      BY <1>5, <2>3
    <3>2. QED
      BY <1>1, <3>1
  <2>4. QED
    BY <1>2, <2>1, <2>2, <2>3
<1>8. KeptFirst(p, x) /\ Kept1("changed") => ~Seen1("registered")
  <2>1. SUFFICES ASSUME KeptFirst(p, x), Kept1("changed"), Seen1("registered")
                 PROVE  FALSE
    OBVIOUS
  <2>2. Now(x) = "changed" /\ Seen("registered")
    BY <1>2, <1>3, <1>6, <2>1 DEF Marks
  <2>3. Op(r) \in Keeping /\ x \in Here(r)
    BY <1>2, <1>4, <2>1, <2>2 DEF Marks
  <2>4. Op(r) \in {"note", "read"}
    BY <1>3, <2>2, <2>3 DEF Keeping
  <2>5. PICK a \in StepsOn(p, x, Keeping) : \A i \in StepsOn(p, x, Seeing \cup Keeping) \ {a} :
            a < i /\ p.steps[i].op \in {"use", "pin"}
    BY <2>1 DEF KeptFirst
  <2>6. a = at
    <3>1. at \in StepsOn(p, x, Seeing \cup Keeping) /\ p.steps[at].op = Op(r)
      BY <1>5, <2>3 DEF Op, Steps, p, at
    <3>2. QED
      BY <2>4, <2>5, <3>1
  <2>7. PICK i \in StepsOn(p, x, Seeing) : i < at
    BY <1>4, <2>2 DEF Marks
  <2>8. i \in StepsOn(p, x, Seeing \cup Keeping) /\ i \in Nat
    BY <1>1, <1>5, <2>7 DEF StepsOn
  <2>9. QED
    BY <1>1, <2>5, <2>6, <2>7, <2>8
<1>9. ASSUME NEW c \in DOMAIN Steps(r), Settles(p, x, c), c < at + 1, NEW mark \in Marks, Seen1(mark)
      PROVE  Kept1(mark)
  <2>1. /\ c \in Nat /\ \A i \in StepsOn(p, x, Seeing \cup {"note"}) : i <= c
        /\ \/ c \in StepsOn(p, x, {"pin", "take"})
           \/ c \in StepsOn(p, x, {"read"}) /\ StepsOn(p, x, Seeing) = {c}
           \/ c \in StepsOn(p, x, {"same"}) /\ KeptFirst(p, x)
    BY <1>1, <1>9 DEF Settles
  <2>2. CASE c < at
    <3>1. ~(Op(r) \in Seeing \cup {"note"} /\ x \in Here(r))
      BY <1>1, <1>5, <2>1, <2>2
    <3>2. Seen(mark) /\ Kept(mark)
      BY <1>2, <1>4, <1>9, <2>2, <3>1
    <3>3. CASE Op(r) \in Keeping /\ x \in Here(r)
      <4>1. Op(r) = "pin"
        BY <3>1, <3>3 DEF Keeping, Seeing
      <4>2. mark = "registered"
        BY <1>3, <1>4, <3>2, <3>3, <4>1 DEF Marks
      <4>3. QED
        BY <1>2, <1>3, <3>3, <4>1, <4>2
    <3>4. QED
      BY <1>2, <3>2, <3>3
  <2>3. CASE c = at /\ c \in StepsOn(p, x, {"pin", "take"})
    <3>1. Op(r) \in {"pin", "take"} /\ x \in Here(r) /\ Op(r) \in Keeping
      BY <1>5, <2>3 DEF Keeping
    <3>2. mark = "registered" /\ Now(x) = "registered"
      BY <1>3, <1>6, <1>9, <3>1 DEF Marks
    <3>3. QED
      BY <1>2, <3>1, <3>2
  <2>4. CASE c = at /\ c \in StepsOn(p, x, {"read"}) /\ StepsOn(p, x, Seeing) = {c}
    <3>1. Op(r) \in Keeping /\ x \in Here(r)
      BY <1>5, <2>4 DEF Keeping
    <3>2. ~Seen(mark)
      BY <1>1, <1>4, <2>4
    <3>3. mark = Now(x)
      BY <1>2, <1>9, <3>2
    <3>4. QED
      BY <1>2, <3>1, <3>3
  <2>5. CASE c = at /\ c \in StepsOn(p, x, {"same"}) /\ KeptFirst(p, x)
    <3>1. Op(r) = "same" /\ x \in Here(r)
      BY <1>5, <2>5
    <3>2. Op(r) \notin Keeping /\ Op(r) \notin Seeing
      BY <3>1 DEF Keeping, Seeing
    <3>3. Seen(mark) /\ Kept(Now(x)) /\ (Kept1(mark) <=> Kept(mark))
      BY <1>2, <1>3, <1>9, <3>1, <3>2
    <3>4. mark = Now(x)
      BY <1>3, <1>4, <2>5, <3>3 DEF Marks
    <3>5. QED
      BY <3>3, <3>4
  <2>6. QED
    BY <1>1, <1>9, <2>1, <2>2, <2>3, <2>4, <2>5
<1>10. QED
  BY <1>1, <1>5, <1>6, <1>7, <1>8, <1>9 DEF ReadOf, p, at, Kept, Seen, Kept1, Seen1

LEMMA ReadKeeps == ASSUME FilesInv, ReadInv, NEW r \in Runs, Act(r) PROVE ReadInv'
<1>1. SUFFICES ASSUME NEW q \in Runs, NEW x \in STRING, run'[q].state = "running"
               PROVE  ReadOf(q, x)'
  BY DEF ReadInv
<1>2. run[q].state = "running" /\ ReadOf(q, x)
  BY <1>1, OnlyOneActs DEF ReadInv
<1>3. CASE q = r /\ Reads(r)
  BY <1>2, <1>3, ReadsOn
<1>4. CASE run'[q].at = run[q].at /\ run'[q].kept = run[q].kept /\ run'[q].seen = run[q].seen
  <2>1. Code(q)' = Code(q) /\ Steps(q)' = Steps(q)
    BY Kinds DEF Code, Steps
  <2>2. drifted = x => drifted' = x
    <3>1. drifted = x => drifted # None
      BY NoneAssumption
    <3>2. drifted' = drifted \/ drifted = None
      BY DEF Act, CheckFresh, MakeDirectory, OpenNew, OpenOver, FinishFile, AppendLine, ReadOwn,
         CompareRegistered, KeepHash, CompareKept, ReadContent, ReadVerified, ReadAndHash, PrintLine,
         Return, Raise, OpenRecord, FinishRecord, HandlerFails, Kill, Drift
    <3>3. QED
      BY <3>1, <3>2
  <2>3. QED
    BY <1>2, <1>4, <2>1, <2>2 DEF ReadOf
<1>5. QED
  BY <1>1, <1>3, <1>4, OnlyOneActs, Reading DEF Rests

LEMMA ReadBegins == Init => ReadInv
<1>1. SUFFICES ASSUME Init, NEW r \in Runs, NEW x \in STRING, run[r].state = "running"
               PROVE  ReadOf(r, x)
  BY DEF ReadInv
<1>2. run[r] = Begun \/ run[r] = Quiet("absent")
  BY <1>1 DEF Init
<1>3. run[r].kept = {} /\ run[r].seen = {}
  BY <1>2 DEF Begun, Quiet
<1>4. QED
  BY <1>3 DEF ReadOf

\* The report of a run that finishes it carries the hash of what was read.
LEMMA FinishedReport ==
    ASSUME FilesInv, ReadInv, NEW r \in Runs, FinishFile(r), File(r) = Code(r).report,
           run[r].at \in Reports(Code(r)), program[r] \in DOMAIN Held
    PROVE  Unhashed(r) \cap Held[program[r]] = {}
<1> DEFINE p == Code(r)
<1>1. SUFFICES ASSUME NEW x \in Unhashed(r), x \in Held[program[r]]
               PROVE  FALSE
  OBVIOUS
<1>2. Running(r) /\ run[r].state = "running" /\ run[r] \in Places
  BY DEF FinishFile, Running, FilesInv, Types
<1>3. PICK v \in run[r].seen \ run[r].kept : x = v[1]
  BY <1>1 DEF Unhashed
<1>4. v \in Versions
  BY <1>2, <1>3 DEF Places
<1>5. x \in STRING /\ v[2] \in Marks /\ v = <<x, v[2]>>
  BY <1>3, <1>4 DEF Versions, Marks
<1>6. ReadOf(r, x)
  BY <1>2, <1>5 DEF ReadInv
<1>7. SettlesItsInputs(p, Held[program[r]])
  BY ProgramsAssumption DEF Code
<1>8. StepsOn(p, x, Seeing) # {}
  BY <1>3, <1>5, <1>6 DEF ReadOf
<1>9. PICK c \in DOMAIN p.steps : Settles(p, x, c) /\ c < run[r].at
  BY <1>1, <1>7, <1>8 DEF SettlesItsInputs
<1>10. v \in run[r].kept
  BY <1>3, <1>5, <1>6, <1>9 DEF ReadOf, Steps
<1>11. QED
  BY <1>3, <1>10

\* The two halves of RestsOnWhatItHashed.
ReportsCarryHashes ==
    \A r \in Runs, f \in DOMAIN disk :
        ReportBy(r, f) /\ program[r] \in DOMAIN Held => disk[f].loose \cap Held[program[r]] = {}
FrozenBeforeRead ==
    \A r \in Runs :
        program[r] \in {"local_tempo", "tempo_variation"} =>
            \A v \in run[r].seen :
                v[1] \in {"fresh_audio", "exposed"} =>
                  IsWhole("selection-freeze.json") /\ disk["selection-freeze.json"].by = {r}

LEMMA HashesKeep ==
    ASSUME FilesInv, ReadInv, ReportsCarryHashes, NEW r \in Runs, Act(r)
    PROVE  ReportsCarryHashes'
<1>1. program' = program
  BY Kinds
<1>2. SUFFICES ASSUME NEW q \in Runs, NEW f \in DOMAIN disk', ReportBy(q, f)', program[q] \in DOMAIN Held
               PROVE  disk'[f].loose \cap Held[program[q]] = {}
  BY <1>1 DEF ReportsCarryHashes
<1>3. CASE ReportBy(q, f)
  <2>1. f \in DOMAIN disk /\ IsWhole(f) /\ f = Code(q).report
    BY <1>3 DEF ReportBy, IsWhole, Exists
  <2>2. f \notin Journals
    BY <2>1, BeforeReport DEF FilesInv, Types
  <2>3. disk'[f] = disk[f]
    BY <2>1, <2>2, EvidenceStep
  <2>4. QED
    BY <1>2, <1>3, <2>1, <2>3 DEF ReportsCarryHashes
<1>4. CASE ~ReportBy(q, f)
  <2>1. /\ q = r /\ f = Code(r).report /\ FinishFile(r) /\ File(r) = f /\ f \in DOMAIN disk
        /\ run[r].at \in Reports(Code(r))
    BY <1>2, <1>4, NewReport
  <2>2. Unhashed(r) \cap Held[program[r]] = {}
    BY <1>2, <2>1, FinishedReport
  <2>3. disk'[f] = FileOf({r}, TRUE, FALSE, Unhashed(r))
    BY <2>1 DEF FinishFile, FilesInv, Types
  <2>4. QED
    BY <2>1, <2>2, <2>3 DEF FileOf
<1>5. QED
  BY <1>3, <1>4

LEMMA FrozenFirst == FilesInv /\ ReadInv => FrozenBeforeRead
<1>1. SUFFICES ASSUME FilesInv, ReadInv, NEW r \in Runs, program[r] \in {"local_tempo", "tempo_variation"},
                      NEW v \in run[r].seen, v[1] \in {"fresh_audio", "exposed"}
               PROVE  IsWhole("selection-freeze.json") /\ disk["selection-freeze.json"].by = {r}
  BY DEF FrozenBeforeRead
<1> DEFINE p == Code(r)
<1>2. run[r].state = "running" /\ run[r] \in Places
  BY <1>1 DEF FilesInv, PlaceInv, Types
<1>3. v \in Versions
  BY <1>1, <1>2 DEF Places
<1>4. v[1] \in STRING /\ v[2] \in Marks /\ v = <<v[1], v[2]>>
  BY <1>3 DEF Versions, Marks
<1>5. PICK i \in StepsOn(p, v[1], Seeing) : i < run[r].at
  BY <1>1, <1>2, <1>4 DEF ReadInv, ReadOf
<1>6. FreezesFirst(p)
  BY <1>1, ProgramsAssumption DEF Code
<1>7. PICK j \in Writes(p) : j < i /\ FileAt(p, j) = "selection-freeze.json"
  BY <1>1, <1>5, <1>6 DEF FreezesFirst
<1>8. j < run[r].at
  <2>1. i \in Nat /\ j \in Nat /\ run[r].at \in Nat
    BY <1>1, <1>5, <1>7, StepsAreNumbered DEF FilesInv, StepsOn, Writes, Steps
  <2>2. QED
    BY <1>5, <1>7, <2>1
<1>9. QED
  BY <1>1, <1>2, <1>7, <1>8 DEF FilesInv, DoneInv

\* A report rests on what it hashed, and what is kept back is read last.
THEOREM ReportsRestOnTheirHashes == Spec => []RestsOnWhatItHashed
<1> DEFINE Inv == ReadInv /\ ReportsCarryHashes
<1>1. Init => Inv
  <2>1. Init => ReportsCarryHashes
    BY NothingWritten DEF ReportsCarryHashes, ReportBy
  <2>2. QED
    BY <2>1, ReadBegins
<1>2. FilesInv /\ Inv /\ [Next]_vars => Inv'
  <2>1. SUFFICES ASSUME FilesInv, Inv, [Next]_vars
                 PROVE  Inv'
    OBVIOUS
  <2>2. CASE UNCHANGED vars
    <3>1. /\ disk' = disk /\ program' = program /\ run' = run /\ drifted' = drifted
          /\ \A r : Code(r)' = Code(r) /\ Steps(r)' = Steps(r)
          /\ \A r, f : ReportBy(r, f)' <=> ReportBy(r, f)
      BY <2>2 DEF ReportBy, IsWhole, Exists, Code, Steps, vars
    <3>2. ReadInv'
      BY <2>1, <3>1 DEF ReadInv, ReadOf
    <3>3. ReportsCarryHashes'
      BY <2>1, <3>1 DEF ReportsCarryHashes
    <3>4. QED
      BY <3>2, <3>3
  <2>3. CASE Next
    BY <2>1, <2>3, NextIsAct, ReadKeeps, HashesKeep
  <2>4. QED
    BY <2>1, <2>2, <2>3
<1>3. FilesInv /\ Inv => RestsOnWhatItHashed
  BY FrozenFirst DEF RestsOnWhatItHashed, ReportsCarryHashes, FrozenBeforeRead
<1>4. QED
  BY <1>1, <1>2, <1>3, FilesAlways, PTL DEF Spec
=============================================================================
