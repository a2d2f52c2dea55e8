----------------------- MODULE RhythmSections_proofs -----------------------
(***************************************************************************)
(* Proofs about RhythmSections, for any recordings, activity, detections   *)
(* and scores, and any windows.                                            *)
(***************************************************************************)
EXTENDS RhythmSections, FiniteSetTheorems, SequenceTheorems, WellFoundedInduction, TLAPS

USE TimesAssumption, WindowsAssumption

-----------------------------------------------------------------------------
(* Types of what the steps compute *)

\* The greater of two numbers is one of them and bounds both.
LEMMA MaxOfTwo ==
    ASSUME NEW a \in Int, NEW b \in Int
    PROVE  Max({a, b}) \in {a, b} /\ Max({a, b}) >= a /\ Max({a, b}) >= b
<1>1. \E x \in {a, b} : \A y \in {a, b} : x >= y
  BY SMT
<1> QED BY <1>1 DEF Max

\* The lesser of two numbers is one of them and bounds both.
LEMMA MinOfTwo ==
    ASSUME NEW a \in Int, NEW b \in Int
    PROVE  Min({a, b}) \in {a, b} /\ Min({a, b}) <= a /\ Min({a, b}) <= b
<1>1. \E x \in {a, b} : \A y \in {a, b} : x =< y
  BY SMT
<1> QED BY <1>1 DEF Min

\* push_silence_region makes spans that begin and end in the recording.
LEMMA RegionType ==
    ASSUME NEW d \in Nat, NEW first \in Nat, NEW last \in Int
    PROVE  Region(d, first, last) \subseteq [start : Nat, end : Nat]
<1> DEFINE half == PointHop(d) \div 2
           from == Max({first - half, 0})
           to == Min({last + half, d})
<1>1. half \in Nat
  BY SMT DEF PointHop
<1>2. from \in Nat
  <2> DEFINE x == first - half
  <2>1. x \in Int /\ 0 \in Int
    BY <1>1
  <2> HIDE DEF x
  <2>2. Max({x, 0}) \in {x, 0} /\ Max({x, 0}) >= 0
    BY <2>1, MaxOfTwo, Zenon
  <2>3. Max({x, 0}) \in Nat
    <3> DEFINE m == Max({x, 0})
    <3>1. m \in {x, 0} /\ m >= 0
      BY <2>2
    <3> HIDE DEF m
    <3>2. m \in Nat
      BY <2>1, <3>1
    <3> QED BY <3>2 DEF m
  <2> QED BY <2>3 DEF x
<1>3. to \in Int
  <2> DEFINE x == last + half
  <2>1. x \in Int /\ d \in Int
    BY <1>1
  <2> HIDE DEF x
  <2>2. Min({x, d}) \in {x, d}
    BY <2>1, MinOfTwo, Zenon
  <2>3. Min({x, d}) \in Int
    BY <2>1, <2>2, Zenon
  <2> QED BY <2>3 DEF x
<1>4. to - from >= MinimumSilence => to \in Nat
  <2> HIDE DEF from, to
  <2> QED BY <1>2, <1>3
<1>5. Region(d, first, last) = IF to - from >= MinimumSilence
                               THEN {[start |-> from, end |-> to]} ELSE {}
  BY Zenon DEF Region
<1> HIDE DEF from, to
<1> QED BY <1>2, <1>4, <1>5

\* Selecting a metrical level adds no beat.
LEMMA LevelsAreBeats ==
    ASSUME NEW S, NEW T \in MetricalLevels(S)
    PROVE  T \subseteq S
BY DEF MetricalLevels, EveryOther

\* Recovering a transition takes beats at known times only.
LEMMA RecoveriesAreBeats ==
    ASSUME NEW S \in SUBSET BeatTimes, NEW T \in Recoveries(S)
    PROVE  T \subseteq BeatTimes
<1>1. CASE T = S
  BY <1>1
<1>2. CASE T # S
  <2>1. PICK p \in BeatTimes \X BeatTimes :
          T \in {{t \in S : t < p[1] \/ t > p[2]} \cup new :
                   new \in SUBSET {t \in BeatTimes : p[1] <= t /\ t <= p[2]}}
    BY <1>2, Zenon DEF Recoveries
  <2> QED BY <2>1
<1> QED BY <1>1, <1>2

\* What the detectors report.
LEMMA MarksType ==
    ASSUME NEW S \in SUBSET Nat, NEW R \in SUBSET [start : Nat, end : Nat],
           NEW C \in TempoMarks(S)
    PROVE  C \cup Discontinuities(S, R) \subseteq Mark
<1>1. \A a, b \in Nat : Midpoint(a, b) \in Nat
  BY SMT DEF Midpoint
<1>2. \A p \in Pairs(S) : p[1] \in Nat /\ p[2] \in Nat
  BY DEF Pairs
<1>3. CurveMarks(S) \subseteq Mark
  BY <1>1, <1>2 DEF CurveMarks, MarkAt, Mark, Detectors, ChangeKinds
<1>4. C \subseteq CurveMarks(S)
  BY DEF TempoMarks, kSubset
<1>5. Discontinuities(S, R) \subseteq Mark
  BY <1>1, <1>2 DEF Discontinuities, MarkAt, Mark, Detectors, ChangeKinds
<1> QED BY <1>3, <1>4, <1>5

\* Scoring marks makes changes.
LEMMA ScoredType ==
    ASSUME NEW M \in SUBSET Mark, NEW score \in [M -> Scores]
    PROVE  WithScores(M, score) \subseteq Change
BY DEF WithScores, Mark, Change

\* A count of beats is a number.
LEMMA BeatsAreFinite ==
    ASSUME NEW S \in SUBSET BeatTimes
    PROVE  Cardinality(S) \in Nat
BY FS_Subset, FS_CardinalityType

-----------------------------------------------------------------------------
(* Types *)

LEMMA InitType == SectionsInit => TypeOK
BY DEF SectionsInit, TypeOK, NoRun

LEMMA NextType == TypeOK /\ [SectionsNext]_sections_vars => TypeOK'
<1> SUFFICES ASSUME TypeOK, [SectionsNext]_sections_vars PROVE TypeOK'
  OBVIOUS
<1> USE DEF TypeOK
<1>0. at \in Nat /\ duration \in Nat /\ at - ActivityHop \in Int /\ at + ActivityHop \in Nat
  OBVIOUS
<1>1. Closed \subseteq [start : Nat, end : Nat]
  BY <1>0, RegionType DEF Closed, NoRun
<1>2. CASE Quiet
  BY <1>0, <1>2 DEF Quiet, inputVars, changeVars, cutVars
<1>3. CASE Loud
  BY <1>0, <1>1, <1>3 DEF Loud, inputVars, changeVars, cutVars
<1>4. CASE Prepare
  <2> DEFINE retained == {t \in beats : ~ InsideSilence(t, regions')}
  <2>1. beats' \subseteq BeatTimes
    BY <1>4, LevelsAreBeats DEF Prepare
  <2>2. TooFew(beats') \subseteq Section
    BY <1>0, <2>1, BeatsAreFinite DEF TooFew, Section
  <2>3. pc' \in {"done", "detect"} /\ sections' \subseteq Section
    BY <1>4, <2>2 DEF Prepare
  <2> QED BY <1>1, <1>4, <2>1, <2>3 DEF Prepare, inputVars, changeVars, cutVars
<1>5. CASE Detect
  <2>1. beats' \subseteq BeatTimes /\ beats' \subseteq Nat
    BY <1>5, RecoveriesAreBeats DEF Detect
  <2>2. PICK tempo \in TempoMarks(beats') :
          \E score \in [tempo \cup Discontinuities(beats', regions) -> Scores] :
             found' = WithScores(tempo \cup Discontinuities(beats', regions), score)
    BY <1>5 DEF Detect
  <2>3. tempo \cup Discontinuities(beats', regions) \subseteq Mark
    BY <2>1, <2>2, MarksType
  <2>4. found' \subseteq Change
    BY <2>2, <2>3, ScoredType
  <2> QED BY <1>5, <2>1, <2>4 DEF Detect, inputVars, scanVars, cutVars
<1>6. ASSUME NEW c \in todo, Strengthen(c) \/ Absorb(c) \/ Keep(c)
      PROVE  TypeOK'
  <2>1. c \in Change
    OBVIOUS
  <2>2. kept' \in Seq(Change)
    <3>1. CASE Strengthen(c)
      BY <2>1, <3>1 DEF Strengthen, Merges
    <3>2. CASE Absorb(c)
      BY <3>2 DEF Absorb
    <3>3. CASE Keep(c)
      BY <2>1, <3>3 DEF Keep
    <3> QED BY <1>6, <3>1, <3>2, <3>3
  <2>3. Take(c)
    BY <1>6 DEF Strengthen, Absorb, Keep
  <2> QED BY <2>2, <2>3 DEF Take, inputVars, scanVars, cutVars
<1>7. CASE Bound
  <2>1. \A i \in DOMAIN kept : kept[i].time \in Nat
    <3> SUFFICES ASSUME NEW i \in DOMAIN kept PROVE kept[i].time \in Nat
      OBVIOUS
    <3>1. kept[i] \in Change
      OBVIOUS
    <3> QED BY <3>1 DEF Change
  <2> QED BY <1>0, <1>7, <2>1 DEF Bound, inputVars, scanVars, changeVars
<1>8. ASSUME NEW b \in left, Cut(b) \/ Skip(b)
      PROVE  TypeOK'
  BY <1>8 DEF Cut, Skip, inputVars, scanVars, changeVars
<1>9. CASE Build
  <2>1. \A p \in Pairs(cuts) : p[1] \in Nat /\ p[2] \in Nat
    BY DEF Pairs
  <2>2. SectionsOf(cuts, beats) \subseteq Section
    <3> SUFFICES ASSUME NEW p \in Pairs(cuts)
                 PROVE  [start |-> p[1], end |-> p[2],
                         count |-> Cardinality({t \in beats : p[1] <= t /\ t < p[2]})]
                            \in Section
      BY DEF SectionsOf
    <3>1. Cardinality({t \in beats : p[1] <= t /\ t < p[2]}) \in Nat
      BY BeatsAreFinite
    <3> QED BY <2>1, <3>1 DEF Section
  <2> QED BY <1>9, <2>2 DEF Build, inputVars, scanVars, changeVars, cutVars
<1>10. CASE UNCHANGED sections_vars
  BY <1>10 DEF sections_vars, inputVars, scanVars, changeVars, cutVars
<1> QED BY <1>2, <1>3, <1>4, <1>5, <1>6, <1>7, <1>8, <1>9, <1>10 DEF SectionsNext

\* Every variable of the estimator's loops keeps its type, whatever the
\* recording and the detectors bring.
THEOREM TypeCorrect == SectionsSpec => []TypeOK
BY InitType, NextType, PTL DEF SectionsSpec

-----------------------------------------------------------------------------
(* Deduplication *)

\* While changes are merged, everything kept is at or before everything that
\* is still to come: that is what the comparison with the last one relies on.
MergeInv ==
    /\ pc \in {"scan", "detect"} => found = {} /\ todo = {} /\ kept = <<>>
    /\ \A i \in DOMAIN kept, c \in todo : kept[i].time <= c.time
    /\ ChangesInOrder
    /\ CloseChangesAreSeparated
    /\ StrongestSurvives

\* What a step of deduplicate_changes does to the changes: nothing else is
\* needed of the rest of the state.
LEMMA TakesKeepMergeInv ==
    ASSUME TypeOK, MergeInv, NEW c \in todo,
           Strengthen(c) \/ Absorb(c) \/ Keep(c)
    PROVE  MergeInv'
<1> DEFINE n == Len(kept)
<1>1. /\ pc = "merge" /\ pc' = "merge"
      /\ todo' = todo \ {c} /\ found' = found
      /\ \A d \in todo : ~ Before(d, c)
  BY DEF Strengthen, Absorb, Keep, Take, IsNext
<1>2. kept \in Seq(Change) /\ found \subseteq Change /\ todo \subseteq found
  BY DEF TypeOK
<1>3. \A d \in found : d.time \in Nat /\ d.score \in Nat
  BY <1>2 DEF Change
<1>4. /\ n \in Nat /\ DOMAIN kept = 1..n
      /\ \A i \in 1..n : kept[i].time \in Nat /\ kept[i].score \in Nat
  <2>1. n \in Nat /\ DOMAIN kept = 1..n
    BY <1>2
  <2>2. ASSUME NEW i \in 1..n
        PROVE  kept[i].time \in Nat /\ kept[i].score \in Nat
    <3>1. kept[i] \in Change
      BY <1>2, <2>1, ElementOfSeq
    <3> QED BY <3>1 DEF Change
  <2> QED BY <2>1, <2>2
<1>5. \A d \in todo : c.time <= d.time
  BY <1>1, <1>2, <1>3 DEF Before
<1>6. \A i \in 1..n : kept[i].time <= c.time
  BY <1>4 DEF MergeInv
<1>7. (found \ todo)' = (found \ todo) \cup {c}
  BY <1>1, <1>2
<1>8. c.time \in Nat /\ c.score \in Nat
  BY <1>2, <1>3
<1>9. /\ \A i, j \in 1..n : i < j => kept[i].time <= kept[j].time
      /\ \A i, j \in 1..n :
            /\ i < j /\ kept[i].kind = kept[j].kind
            /\ kept[j].time - kept[i].time < MergeWindow
            => \E m \in i..j : kept[m].kind # kept[i].kind
      /\ \A d \in found \ todo :
            \E i \in 1..n : kept[i].kind = d.kind /\ kept[i].score >= d.score
  BY <1>4 DEF MergeInv, ChangesInOrder, CloseChangesAreSeparated, StrongestSurvives
<1> HIDE DEF n
<1>10. CASE Strengthen(c)
  <2>1. /\ n >= 1 /\ kept[n].kind = c.kind /\ c.score > kept[n].score
        /\ kept' = [kept EXCEPT ![n] = c]
    BY <1>2, <1>10 DEF Strengthen, Merges, n
  <2>2. /\ DOMAIN kept' = 1..n
        /\ \A i \in 1..n : i # n => kept'[i] = kept[i]
        /\ kept'[n] = c
    BY <1>4, <2>1
  <2>3. \A i \in DOMAIN kept', d \in todo' : kept'[i].time <= d.time
    BY <1>1, <1>4, <1>5, <2>2 DEF MergeInv
  <2>4. ChangesInOrder'
    <3> SUFFICES ASSUME NEW i \in 1..n, NEW j \in 1..n, i < j
                 PROVE  kept'[i].time <= kept'[j].time
      BY <2>2 DEF ChangesInOrder
    <3>1. kept'[i] = kept[i]
      BY <1>4, <2>2
    <3>2. CASE j = n
      BY <1>6, <2>2, <3>1, <3>2
    <3>3. CASE j # n
      BY <1>9, <2>2, <3>1, <3>3
    <3> QED BY <3>2, <3>3
  <2>5. CloseChangesAreSeparated'
    <3> SUFFICES ASSUME NEW i \in 1..n, NEW j \in 1..n, i < j,
                        kept'[i].kind = kept'[j].kind,
                        kept'[j].time - kept'[i].time < MergeWindow
                 PROVE  \E m \in i..j : kept'[m].kind # kept'[i].kind
      BY <2>2 DEF CloseChangesAreSeparated
    <3>0. i # n
      BY <1>4
    <3>1. kept'[i] = kept[i] /\ kept[i].kind = kept[j].kind
      BY <2>1, <2>2, <3>0
    <3>2. kept[j].time - kept[i].time < MergeWindow
      BY <1>4, <1>6, <1>8, <2>2, <3>1
    <3>3. PICK m \in i..j : kept[m].kind # kept[i].kind
      BY <1>9, <3>1, <3>2
    <3>4. m \in 1..n /\ kept'[m].kind = kept[m].kind
      BY <1>4, <2>1, <2>2, <3>3
    <3> QED BY <3>1, <3>3, <3>4
  <2>6. StrongestSurvives'
    <3> SUFFICES ASSUME NEW d \in (found \ todo) \cup {c}
                 PROVE  \E i \in 1..n : kept'[i].kind = d.kind /\ kept'[i].score >= d.score
      BY <1>7, <2>2 DEF StrongestSurvives
    <3>1. CASE d = c
      BY <1>4, <1>8, <2>1, <2>2, <3>1
    <3>2. CASE d \in found \ todo
      <4>1. PICK i \in 1..n : kept[i].kind = d.kind /\ kept[i].score >= d.score
        BY <1>9, <3>2
      <4>2. CASE i = n
        <5>1. d.score \in Nat
          BY <1>3, <3>2
        <5>2. kept'[n].kind = d.kind /\ kept'[n].score >= d.score
          BY <1>4, <1>8, <2>1, <2>2, <4>1, <4>2, <5>1
        <5> QED BY <4>2, <5>2
      <4>3. CASE i # n
        BY <2>2, <4>1, <4>3
      <4> QED BY <4>2, <4>3
    <3> QED BY <3>1, <3>2
  <2> QED BY <1>1, <2>3, <2>4, <2>5, <2>6 DEF MergeInv
<1>11. CASE Absorb(c)
  <2>1. /\ n >= 1 /\ kept[n].kind = c.kind /\ c.score <= kept[n].score
        /\ kept' = kept
    BY <1>2, <1>11 DEF Absorb, Merges, n
  <2>2. \A i \in DOMAIN kept', d \in todo' : kept'[i].time <= d.time
    BY <1>1, <2>1 DEF MergeInv
  <2>3. ChangesInOrder' /\ CloseChangesAreSeparated'
    BY <2>1 DEF MergeInv, ChangesInOrder, CloseChangesAreSeparated
  <2>4. StrongestSurvives'
    <3> SUFFICES ASSUME NEW d \in (found \ todo) \cup {c}
                 PROVE  \E i \in 1..n : kept[i].kind = d.kind /\ kept[i].score >= d.score
      BY <1>4, <1>7, <2>1 DEF StrongestSurvives
    <3>1. CASE d = c
      BY <1>4, <1>8, <2>1, <3>1
    <3>2. CASE d \in found \ todo
      BY <1>9, <3>2
    <3> QED BY <3>1, <3>2
  <2> QED BY <1>1, <2>2, <2>3, <2>4 DEF MergeInv
<1>12. CASE Keep(c)
  <2>1. ~ Merges(c) /\ kept' = Append(kept, c)
    BY <1>12 DEF Keep
  <2>2. /\ DOMAIN kept' = 1..(n + 1)
        /\ \A i \in 1..n : kept'[i] = kept[i]
        /\ kept'[n + 1] = c
    BY <1>2, <1>4, <2>1 DEF n
  <2>3. \A i \in DOMAIN kept', d \in todo' : kept'[i].time <= d.time
    BY <1>1, <1>4, <1>5, <2>2 DEF MergeInv
  <2>4. ChangesInOrder'
    BY <1>4, <1>6, <1>9, <2>2 DEF ChangesInOrder
  <2>5. CloseChangesAreSeparated'
    <3> SUFFICES ASSUME NEW i \in 1..(n + 1), NEW j \in 1..(n + 1), i < j,
                        kept'[i].kind = kept'[j].kind,
                        kept'[j].time - kept'[i].time < MergeWindow
                 PROVE  \E m \in i..j : kept'[m].kind # kept'[i].kind
      BY <2>2 DEF CloseChangesAreSeparated
    <3>1. i \in 1..n /\ kept'[i] = kept[i]
      BY <1>4, <2>2
    <3>2. CASE j \in 1..n
      <4>1. PICK m \in i..j : kept[m].kind # kept[i].kind
        BY <1>9, <2>2, <3>1, <3>2
      <4> QED BY <1>4, <2>2, <3>1, <3>2, <4>1
    <3>3. CASE j = n + 1
      <4>1. kept[n].kind # c.kind \/ c.time - kept[n].time >= MergeWindow
        BY <1>2, <1>4, <1>8, <2>1, <3>1 DEF Merges, n
      <4>2. CASE kept[n].kind # c.kind
        BY <1>4, <2>2, <3>1, <3>3, <4>2
      <4>3. CASE c.time - kept[n].time >= MergeWindow
        <5>1. kept[i].time <= kept[n].time
          BY <1>4, <1>9, <3>1
        <5> QED BY <1>4, <1>8, <2>2, <3>1, <3>3, <4>3, <5>1
      <4> QED BY <4>1, <4>2, <4>3
    <3> QED BY <1>4, <3>2, <3>3
  <2>6. StrongestSurvives'
    <3> SUFFICES ASSUME NEW d \in (found \ todo) \cup {c}
                 PROVE  \E i \in 1..(n + 1) : kept'[i].kind = d.kind /\ kept'[i].score >= d.score
      BY <1>7, <2>2 DEF StrongestSurvives
    <3>1. CASE d = c
      BY <1>4, <1>8, <2>2, <3>1
    <3>2. CASE d \in found \ todo
      <4>1. PICK i \in 1..n : kept[i].kind = d.kind /\ kept[i].score >= d.score
        BY <1>9, <3>2
      <4>2. i \in 1..(n + 1) /\ kept'[i] = kept[i]
        BY <1>4, <2>2
      <4> QED BY <4>1, <4>2
    <3> QED BY <3>1, <3>2
  <2> QED BY <1>1, <2>3, <2>4, <2>5, <2>6 DEF MergeInv
<1> QED BY <1>10, <1>11, <1>12

LEMMA InitMergeInv == SectionsInit => MergeInv
BY DEF SectionsInit, MergeInv, ChangesInOrder, CloseChangesAreSeparated, StrongestSurvives

LEMMA NextMergeInv == TypeOK /\ MergeInv /\ [SectionsNext]_sections_vars => MergeInv'
<1> SUFFICES ASSUME TypeOK, MergeInv, [SectionsNext]_sections_vars PROVE MergeInv'
  OBVIOUS
<1> USE DEF MergeInv, ChangesInOrder, CloseChangesAreSeparated, StrongestSurvives
<1>1. CASE Quiet
  BY <1>1 DEF Quiet, changeVars
<1>2. CASE Loud
  BY <1>2 DEF Loud, changeVars
<1>3. CASE Prepare
  BY <1>3 DEF Prepare, changeVars
<1>4. CASE Detect
  <2>1. kept = <<>> /\ kept' = kept /\ found' = todo' /\ pc' = "merge"
    BY <1>4 DEF Detect
  <2> QED BY <2>1
<1>5. ASSUME NEW c \in todo, Strengthen(c) \/ Absorb(c) \/ Keep(c)
      PROVE  MergeInv'
  BY <1>5, TakesKeepMergeInv
<1>6. CASE Bound
  BY <1>6 DEF Bound, changeVars
<1>7. ASSUME NEW b \in left, Cut(b) \/ Skip(b)
      PROVE  MergeInv'
  BY <1>7 DEF Cut, Skip, changeVars
<1>8. CASE Build
  BY <1>8 DEF Build, changeVars
<1>9. CASE UNCHANGED sections_vars
  BY <1>9 DEF sections_vars, changeVars
<1> QED BY <1>1, <1>2, <1>3, <1>4, <1>5, <1>6, <1>7, <1>8, <1>9 DEF SectionsNext

LEMMA MergeInvHolds == SectionsSpec => []MergeInv
BY InitMergeInv, NextMergeInv, TypeCorrect, PTL DEF SectionsSpec

\* deduplicate_changes never drops a detection without keeping one of its
\* kind that is at least as strong.
THEOREM StrongestOfEachKindSurvives == SectionsSpec => []StrongestSurvives
<1>1. MergeInv => StrongestSurvives
  BY DEF MergeInv
<1> QED BY <1>1, MergeInvHolds, PTL

\* The change points come out in time order, replacements included.
THEOREM ChangesAreInOrder == SectionsSpec => []ChangesInOrder
<1>1. MergeInv => ChangesInOrder
  BY DEF MergeInv
<1> QED BY <1>1, MergeInvHolds, PTL

\* Close changes of one kind remain only around a change of another kind.
THEOREM CloseChangesAreKeptApart == SectionsSpec => []CloseChangesAreSeparated
<1>1. MergeInv => CloseChangesAreSeparated
  BY DEF MergeInv
<1> QED BY <1>1, MergeInvHolds, PTL
-----------------------------------------------------------------------------
(* Sections *)

\* The boundaries build_sections starts from.
Bounds == {0, duration} \cup {kept[i].time : i \in DOMAIN kept}

\* Every boundary taken out of the sorted list is retained or close to one
\* that is; those retained are apart and at or before all that are left.
CutInv ==
    /\ pc \notin {"cut", "done"} => cuts = {} /\ left = {}
    /\ pc # "done" => sections = {}
    /\ pc = "done" => left = {} /\ (kept # <<>> => cuts # {})
    /\ left \subseteq Bounds
    /\ \A c \in cuts, b \in left : c <= b
    /\ \A b, c \in cuts : b < c => c - b >= SectionWindow
    /\ (pc = "cut" \/ cuts # {}) =>
          \A b \in Bounds \ left : \E c \in cuts : c <= b /\ b - c < SectionWindow
    /\ pc \in {"scan", "detect"} => kept = <<>>
    /\ SectionsAreLong

LEMMA InitCutInv == SectionsInit => CutInv
BY DEF SectionsInit, CutInv, Bounds, SectionsAreLong

LEMMA NextCutInv == TypeOK /\ CutInv /\ [SectionsNext]_sections_vars => CutInv'
<1> SUFFICES ASSUME TypeOK, CutInv, [SectionsNext]_sections_vars PROVE CutInv'
  OBVIOUS
<1>0. /\ duration \in Nat /\ left \subseteq Nat /\ cuts \subseteq Nat
      /\ SectionWindow \in Nat \ {0}
  BY DEF TypeOK
<1>1. CASE Quiet
  BY <1>1 DEF Quiet, inputVars, changeVars, cutVars, CutInv, Bounds, SectionsAreLong
<1>2. CASE Loud
  BY <1>2 DEF Loud, inputVars, changeVars, cutVars, CutInv, Bounds, SectionsAreLong
<1>3. CASE Prepare
  <2>1. cuts = {} /\ left = {} /\ kept = <<>> /\ sections = {}
    BY <1>3 DEF Prepare, CutInv
  <2>2. /\ cuts' = {} /\ left' = {} /\ kept' = <<>> /\ pc' \in {"done", "detect"}
        /\ pc' # "done" => sections' = {}
    BY <1>3, <2>1 DEF Prepare, changeVars, cutVars
  <2> QED BY <2>2 DEF CutInv, Bounds, SectionsAreLong
<1>4. CASE Detect
  <2>1. cuts = {} /\ left = {} /\ kept = <<>> /\ sections = {}
    BY <1>4 DEF Detect, CutInv
  <2>2. cuts' = {} /\ left' = {} /\ kept' = <<>> /\ sections' = {} /\ pc' = "merge"
    BY <1>4, <2>1 DEF Detect, cutVars
  <2> QED BY <2>2 DEF CutInv, Bounds, SectionsAreLong
<1>5. ASSUME NEW c \in todo, Strengthen(c) \/ Absorb(c) \/ Keep(c)
      PROVE  CutInv'
  <2>1. /\ pc = "merge" /\ pc' = "merge"
        /\ cuts' = cuts /\ left' = left /\ sections' = sections
    BY <1>5 DEF Strengthen, Absorb, Keep, Take, cutVars
  <2> QED BY <2>1 DEF CutInv, SectionsAreLong
<1>6. CASE Bound
  <2>1. /\ cuts' = {} /\ sections' = {} /\ pc' = "cut"
        /\ left' = Bounds /\ Bounds' = Bounds
    BY <1>6 DEF Bound, Bounds, CutInv, inputVars, changeVars
  <2> QED BY <2>1 DEF CutInv, SectionsAreLong
<1>7. ASSUME NEW b \in left, Cut(b)
      PROVE  CutInv'
  <2>1. /\ pc = "cut" /\ pc' = "cut" /\ sections = {} /\ sections' = {}
        /\ cuts' = cuts \cup {b} /\ left' = left \ {b}
        /\ Bounds' = Bounds
        /\ \A d \in left : b <= d
        /\ \A c \in cuts : b - c >= SectionWindow
    BY <1>0, <1>7 DEF Cut, IsFirst, NearBoundary, CutInv, Bounds, inputVars, changeVars
  <2>2. b \in Nat
    BY <1>0
  <2>3. \A c \in cuts', d \in left' : c <= d
    BY <1>0, <2>1, <2>2 DEF CutInv
  <2>4. \A d, c \in cuts' : d < c => c - d >= SectionWindow
    BY <1>0, <2>1, <2>2 DEF CutInv
  <2>5. \A d \in Bounds' \ left' : \E c \in cuts' : c <= d /\ d - c < SectionWindow
    BY <1>0, <2>1, <2>2 DEF CutInv
  <2>6. left' \subseteq Bounds'
    BY <2>1 DEF CutInv
  <2> QED BY <2>1, <2>3, <2>4, <2>5, <2>6 DEF CutInv, SectionsAreLong
<1>8. ASSUME NEW b \in left, Skip(b)
      PROVE  CutInv'
  <2>1. /\ pc = "cut" /\ pc' = "cut" /\ sections = {} /\ sections' = {}
        /\ cuts' = cuts /\ left' = left \ {b}
        /\ Bounds' = Bounds
        /\ \E c \in cuts : b - c < SectionWindow
    BY <1>8 DEF Skip, NearBoundary, CutInv, Bounds, inputVars, changeVars
  <2>2. \A d \in Bounds' \ left' : \E c \in cuts' : c <= d /\ d - c < SectionWindow
    <3>1. PICK c \in cuts : b - c < SectionWindow
      BY <2>1
    <3>2. c <= b
      BY <3>1 DEF CutInv
    <3> QED BY <2>1, <3>1, <3>2 DEF CutInv
  <2>3. left' \subseteq Bounds'
    BY <2>1 DEF CutInv
  <2> QED BY <2>1, <2>2, <2>3 DEF CutInv, SectionsAreLong
<1>9. CASE Build
  <2>1. /\ pc = "cut" /\ pc' = "done" /\ left = {} /\ left' = {} /\ cuts' = cuts
        /\ Bounds' = Bounds /\ kept' = kept
        /\ sections' = SectionsOf(cuts, beats)
    BY <1>9 DEF Build, Bounds, inputVars, changeVars, cutVars
  <2>2. \A s \in sections' : s.end - s.start >= SectionWindow
    <3> SUFFICES ASSUME NEW s \in SectionsOf(cuts, beats)
                 PROVE  s.end - s.start >= SectionWindow
      BY <2>1
    <3>1. PICK p \in Pairs(cuts) :
            s = [start |-> p[1], end |-> p[2],
                 count |-> Cardinality({t \in beats : p[1] <= t /\ t < p[2]})]
      BY DEF SectionsOf
    <3>2. p[1] \in cuts /\ p[2] \in cuts /\ p[1] < p[2]
      BY DEF Pairs
    <3>3. s.start = p[1] /\ s.end = p[2]
      BY <3>1
    <3> QED BY <3>2, <3>3 DEF CutInv
  <2>3. cuts # {}
    <3>1. 0 \in Bounds \ left
      BY <2>1 DEF Bounds
    <3> QED BY <2>1, <3>1 DEF CutInv
  <2> QED BY <2>1, <2>2, <2>3 DEF CutInv, SectionsAreLong
<1>10. CASE UNCHANGED sections_vars
  BY <1>10 DEF sections_vars, inputVars, changeVars, cutVars, CutInv, Bounds, SectionsAreLong
<1> QED BY <1>1, <1>2, <1>3, <1>4, <1>5, <1>6, <1>7, <1>8, <1>9, <1>10 DEF SectionsNext

LEMMA CutInvHolds == SectionsSpec => []CutInv
BY InitCutInv, NextCutInv, TypeCorrect, PTL DEF SectionsSpec

\* No section is shorter than the window, wherever the changes are.
THEOREM NoSectionIsShort == SectionsSpec => []SectionsAreLong
<1>1. CutInv => SectionsAreLong
  BY DEF CutInv
<1> QED BY <1>1, CutInvHolds, PTL

\* No change point is far after the boundary that stands for it.
THEOREM EveryChangeIsCut == SectionsSpec => []ChangesAreCut
<1>1. CutInv => ChangesAreCut
  <2> SUFFICES ASSUME CutInv, pc = "done", NEW i \in DOMAIN kept
               PROVE  \E b \in cuts : b <= kept[i].time
                                     /\ kept[i].time - b < SectionWindow
    BY DEF ChangesAreCut
  <2>1. kept # <<>> /\ left = {}
    BY DEF CutInv
  <2>2. kept[i].time \in Bounds \ left
    BY <2>1 DEF Bounds
  <2> QED BY <2>1, <2>2 DEF CutInv
<1> QED BY <1>1, CutInvHolds, PTL
-----------------------------------------------------------------------------
(* Counting: what the sections hold is the beats from the first boundary   *)
(* to the last.  Their counts are added up one section after another, so   *)
(* this is an induction over sets of sections, by the smallest set that    *)
(* would be counted wrongly.                                               *)

\* An element of a finite set with the lowest number.
LEMMA LowestOf ==
    ASSUME NEW T, T \subseteq Nat, IsFiniteSet(T), T # {}
    PROVE  \E x \in T : \A y \in T : x <= y
<1> DEFINE Below(x) == {y \in T : y < x}
           B == {Below(x) : x \in T}
<1>1. IsWellFoundedOn(StrictSubsetOrdering(T), FiniteSubsetsOf(T))
  BY FS_StrictSubsetOrderingWellFounded
<1>2. B \subseteq FiniteSubsetsOf(T) /\ B # {}
  <2>1. FiniteSubsetsOf(T) = SUBSET T
    BY FS_FiniteSubsetsOfFinite
  <2>2. \A x \in T : Below(x) \in SUBSET T
    OBVIOUS
  <2>3. \A d \in B : d \in SUBSET T
    BY <2>2
  <2>4. \E x : x \in T
    OBVIOUS
  <2>5. B # {}
    BY <2>4
  <2> HIDE DEF B
  <2>6. QED
    BY <2>1, <2>3, <2>5
<1>3. PICK d \in B : \A e \in B : <<e, d>> \notin StrictSubsetOrdering(T)
  BY <1>1, <1>2, WFMin
<1>4. PICK x \in T : d = Below(x)
  BY <1>3
<1>5. ASSUME NEW y \in T, y < x PROVE FALSE
  <2>a. \A z \in T : z < y => z < x
    BY <1>5
  <2>b. ~ (y < y)
    OBVIOUS
  <2>1. Below(y) \subseteq Below(x) /\ y \in Below(x) /\ y \notin Below(y) /\ Below(x) \subseteq T
    BY <1>5, <2>a, <2>b
  <2>2. <<Below(y), Below(x)>> \in StrictSubsetOrdering(T)
    BY <2>1 DEF StrictSubsetOrdering
  <2>3. QED
    BY <1>3, <1>4, <2>2
<1>6. QED
  BY <1>5

\* The beats in sections, of a set of them.
In(s) == {t \in beats : s.start <= t /\ t < s.end}
InAny(S) == {t \in beats : \E s \in S : s.start <= t /\ t < s.end}

\* Finitely many boundaries, and the sections between neighbours of them.
CountInv ==
    /\ IsFiniteSet(cuts)
    /\ pc = "done" /\ cuts # {} => sections = SectionsOf(cuts, beats)

LEMMA InitCountInv == SectionsInit => CountInv
  BY FS_EmptySet DEF SectionsInit, CountInv

LEMMA NextCountInv == CountInv /\ CutInv /\ [SectionsNext]_sections_vars => CountInv'
<1> SUFFICES ASSUME CountInv, CutInv, [SectionsNext]_sections_vars PROVE CountInv'
  OBVIOUS
<1>1. ASSUME NEW b \in left, Cut(b) \/ Skip(b) PROVE CountInv'
  <2>1. cuts' = cuts \cup {b} \/ cuts' = cuts
    BY <1>1 DEF Cut, Skip
  <2>2. IsFiniteSet(cuts')
    BY <2>1, FS_AddElement DEF CountInv
  <2>3. pc' = "cut"
    BY <1>1 DEF Cut, Skip
  <2>4. QED
    BY <2>2, <2>3 DEF CountInv
<1>2. CASE Build
  BY <1>2 DEF Build, CountInv, cutVars
<1>3. CASE Prepare
  <2>1. cuts' = {} /\ cuts = {}
    BY <1>3 DEF Prepare, cutVars, CutInv
  <2>2. QED
    BY <2>1 DEF CountInv
<1>4. CASE Quiet \/ Loud \/ Detect \/ Bound \/ \E c \in todo : Strengthen(c) \/ Absorb(c) \/ Keep(c)
  <2>1. pc' # "done" /\ cuts' = cuts
    BY <1>4 DEF Quiet, Loud, Detect, Bound, Strengthen, Absorb, Keep, Take, cutVars
  <2>2. QED
    BY <2>1 DEF CountInv
<1>5. CASE UNCHANGED sections_vars
  BY <1>5 DEF sections_vars, cutVars, CountInv, SectionsOf, Pairs
<1>6. QED
  BY <1>1, <1>2, <1>3, <1>4, <1>5 DEF SectionsNext

LEMMA CountInvHolds == SectionsSpec => []CountInv
  BY InitCountInv, NextCountInv, CutInvHolds, PTL DEF SectionsSpec

\* No beat is in two sections.
LEMMA SectionsAreApart ==
    ASSUME TypeOK, NEW x \in SectionsOf(cuts, beats), NEW y \in SectionsOf(cuts, beats), x # y
    PROVE  In(x) \cap In(y) = {}
<1>1. PICK p \in Pairs(cuts) : x = [start |-> p[1], end |-> p[2],
          count |-> Cardinality({t \in beats : p[1] <= t /\ t < p[2]})]
  BY DEF SectionsOf
<1>2. PICK q \in Pairs(cuts) : y = [start |-> q[1], end |-> q[2],
          count |-> Cardinality({t \in beats : q[1] <= t /\ t < q[2]})]
  BY DEF SectionsOf
<1> DEFINE a == p[1]
           b == p[2]
           c == q[1]
           d == q[2]
<1>3. /\ cuts \subseteq Nat /\ beats \subseteq Nat
      /\ a \in cuts /\ b \in cuts /\ a < b /\ c \in cuts /\ d \in cuts /\ c < d
  <2>1. beats \subseteq Nat /\ cuts \subseteq Nat
    BY TimesAssumption DEF TypeOK
  <2>2. QED
    BY <2>1 DEF Pairs
<1>4. /\ \A t \in cuts : ~ (a < t /\ t < b)
      /\ \A t \in cuts : ~ (c < t /\ t < d)
  BY DEF Pairs
<1>5. a # c \/ b # d
  BY <1>1, <1>2
<1>6. x.start = a /\ x.end = b /\ y.start = c /\ y.end = d
  BY <1>1, <1>2
<1> HIDE DEF a, b, c, d
<1>7. a \in Nat /\ b \in Nat /\ c \in Nat /\ d \in Nat
  BY <1>3
<1>8. b <= c \/ d <= a
  <2>1. /\ ~ (a < c /\ c < b) /\ ~ (a < d /\ d < b)
        /\ ~ (c < a /\ a < d) /\ ~ (c < b /\ b < d)
    BY <1>3, <1>4
  <2>2. QED
    BY <1>3, <1>5, <1>7, <2>1
<1>9. \A t \in Nat : ~ (a <= t /\ t < b /\ c <= t /\ t < d)
  BY <1>7, <1>8
<1>10. QED
  BY <1>3, <1>6, <1>9 DEF In

LEMMA SectionsAreFinite ==
    ASSUME IsFiniteSet(cuts)
    PROVE  IsFiniteSet(SectionsOf(cuts, beats))
<1> DEFINE S == SectionsOf(cuts, beats)
           f == [p \in Pairs(cuts) |-> [start |-> p[1], end |-> p[2],
                    count |-> Cardinality({t \in beats : p[1] <= t /\ t < p[2]})]]
<1>1. IsFiniteSet(Pairs(cuts))
  <2>1. IsFiniteSet(cuts \X cuts)
    BY FS_Product
  <2>2. Pairs(cuts) \in SUBSET (cuts \X cuts)
    BY DEF Pairs
  <2>3. QED
    BY <2>1, <2>2, FS_Subset
<1>2. f \in [Pairs(cuts) -> S]
  BY DEF SectionsOf
<1>3. \A s \in S : \E p \in Pairs(cuts) : f[p] = s
  BY DEF SectionsOf
<1> HIDE DEF f
<1>4. f \in Surjection(Pairs(cuts), S)
  BY <1>2, <1>3 DEF Surjection
<1>5. QED
  BY <1>1, <1>4, FS_Surjection

\* The counts of the sections add up to the beats that are in any.
LEMMA CountsAddUp ==
    ASSUME TypeOK, IsFiniteSet(cuts)
    PROVE  MapThenSumSet(LAMBDA s : s.count, SectionsOf(cuts, beats))
               = Cardinality(InAny(SectionsOf(cuts, beats)))
<1> DEFINE S == SectionsOf(cuts, beats)
           Choice(s) == CHOOSE x \in s : TRUE
           Adds(g) == g = [s \in SUBSET S |-> IF s = {} THEN 0
                                              ELSE Choice(s).count + g[s \ {Choice(s)}]]
           sum == CHOOSE g : Adds(g)
           size == [s \in SUBSET S |-> Cardinality(InAny(s))]
<1>1. MapThenSumSet(LAMBDA s : s.count, S) = sum[S]
  BY DEF MapThenSumSet, MapThenFoldSet
<1>2. IsFiniteSet(beats) /\ IsFiniteSet(S)
  BY SectionsAreFinite, FS_Subset DEF TypeOK
<1>3. ASSUME NEW s \in SUBSET S, NEW x \in s
      PROVE  Cardinality(InAny(s)) = x.count + Cardinality(InAny(s \ {x}))
  <2>1. x.count = Cardinality(In(x))
    <3>1. PICK p \in Pairs(cuts) : x = [start |-> p[1], end |-> p[2],
              count |-> Cardinality({t \in beats : p[1] <= t /\ t < p[2]})]
      BY <1>3 DEF SectionsOf
    <3>2. x.start = p[1] /\ x.end = p[2]
          /\ x.count = Cardinality({t \in beats : p[1] <= t /\ t < p[2]})
      BY <3>1
    <3>3. In(x) = {t \in beats : p[1] <= t /\ t < p[2]}
      BY <3>2 DEF In
    <3>4. QED
      BY <3>2, <3>3
  <2>2. In(x) \cap InAny(s \ {x}) = {}
    <3>1. \A y \in s \ {x} : In(x) \cap In(y) = {}
      BY SectionsAreApart
    <3>2. QED
      BY <3>1 DEF In, InAny
  <2>3. InAny(s) = In(x) \cup InAny(s \ {x})
    BY DEF In, InAny
  <2>4. IsFiniteSet(In(x)) /\ IsFiniteSet(InAny(s \ {x}))
    BY <1>2, FS_Subset DEF In, InAny
  <2> DEFINE own == In(x)
             rest == InAny(s \ {x})
  <2> HIDE DEF own, rest
  <2>5. Cardinality(own \cup rest)
          = Cardinality(own) + Cardinality(rest) - Cardinality(own \cap rest)
    BY <2>4, FS_Union DEF own, rest
  <2>6. own \cap rest = {} /\ Cardinality({}) = 0
    BY <2>2, FS_EmptySet DEF own, rest
  <2>7. Cardinality(own) \in Nat /\ Cardinality(rest) \in Nat
    BY <2>4, FS_CardinalityType DEF own, rest
  <2>8. Cardinality(own \cup rest) = Cardinality(own) + Cardinality(rest)
    <3>1. Cardinality(own \cap rest) = 0
      BY <2>6
    <3>2. Cardinality(own \cup rest) = Cardinality(own) + Cardinality(rest) - 0
      BY <2>5, <3>1
    <3>3. QED
      BY <2>7, <3>2
  <2>9. QED
    BY <2>1, <2>3, <2>8 DEF own, rest
<1>4. InAny({}) = {} /\ Cardinality({}) = 0
  BY FS_EmptySet DEF InAny
<1> HIDE DEF S
<1>5. \A s \in SUBSET S : s # {} => Choice(s) \in s
  OBVIOUS
<1>6. Adds(size)
  BY <1>3, <1>4, <1>5
<1>7. Adds(sum)
  BY <1>6
<1> HIDE DEF sum
<1> DEFINE Wrong == {s \in SUBSET S : sum[s] # size[s]}
<1>8. ASSUME Wrong # {} PROVE FALSE
  <2>1. IsWellFoundedOn(StrictSubsetOrdering(S), SUBSET S)
    BY <1>2, FS_StrictSubsetOrderingWellFounded, FS_FiniteSubsetsOfFinite
  <2>2. PICK s \in Wrong : \A r \in Wrong : <<r, s>> \notin StrictSubsetOrdering(S)
    <3>1. Wrong \subseteq SUBSET S
      OBVIOUS
    <3> HIDE DEF Wrong
    <3>2. QED
      BY <1>8, <2>1, <3>1, WFMin
  <2>3. s # {}
    BY <1>6, <1>7, <2>2
  <2> DEFINE r == s \ {Choice(s)}
  <2>4. r \in SUBSET S /\ <<r, s>> \in StrictSubsetOrdering(S)
    BY <1>5, <2>2, <2>3 DEF StrictSubsetOrdering
  <2>5. sum[r] = size[r]
    BY <2>2, <2>4
  <2>6. sum[s] = Choice(s).count + sum[r] /\ size[s] = Choice(s).count + size[r]
    BY <1>6, <1>7, <2>2, <2>3
  <2>7. QED
    BY <2>2, <2>5, <2>6
<1>9. sum[S] = size[S]
  BY <1>8
<1>10. QED
  BY <1>1, <1>9 DEF S

\* A beat between two boundaries is between two neighbours.
LEMMA BetweenNeighbours ==
    ASSUME NEW C, C \subseteq Nat, IsFiniteSet(C), NEW t \in Nat,
           \E c \in C : c <= t, \E c \in C : t < c
    PROVE  \E p \in Pairs(C) : p[1] <= t /\ t < p[2]
<1> DEFINE Back(c) == t - c
           below == {c \in C : c <= t}
           backs == {n \in 0..t : t - n \in C}
           above == {c \in C : t < c}
<1>1. PICK b \in above : \A c \in above : b <= c
  BY LowestOf, FS_Subset
<1>2. PICK n \in backs : \A m \in backs : n <= m
  <2>1. IsFiniteSet(0..t) /\ backs \in SUBSET (0..t)
    BY FS_Interval
  <2>2. PICK c \in C : c <= t
    OBVIOUS
  <2>3. t - c \in backs
    BY <2>2
  <2>4. IsFiniteSet(backs) /\ backs # {} /\ backs \subseteq Nat
    <3>1. backs \subseteq Nat
      OBVIOUS
    <3> HIDE DEF backs
    <3>2. QED
      BY <2>1, <2>3, <3>1, FS_Subset
  <2> HIDE DEF backs
  <2>5. QED
    BY <2>4, LowestOf
<1> DEFINE a == t - n
<1>3. a \in C /\ a <= t /\ \A c \in C : c <= t => c <= a
  <2>1. ASSUME NEW c \in C, c <= t PROVE t - c \in backs
    BY <2>1
  <2>2. QED
    BY <1>2, <2>1
<1>4. <<a, b>> \in Pairs(C)
  BY <1>1, <1>3 DEF Pairs
<1>5. QED
  BY <1>1, <1>3, <1>4

\* Every beat that is not in the last window is counted in one section, none
\* in two, for any boundaries and beats.
THEOREM EveryBeatIsCounted == SectionsSpec => []BeatsAreCounted
<1>1. TypeOK /\ CutInv /\ CountInv => BeatsAreCounted
  <2> SUFFICES ASSUME TypeOK, CutInv, CountInv, pc = "done", cuts # {}
               PROVE  MapThenSumSet(LAMBDA s : s.count, sections)
                        \in Cardinality({t \in beats : t + SectionWindow <= duration})..Cardinality(beats)
    BY DEF BeatsAreCounted
  <2> DEFINE early == {t \in beats : t + SectionWindow <= duration}
             counted == InAny(sections)
  <2>1. /\ sections = SectionsOf(cuts, beats) /\ IsFiniteSet(cuts) /\ left = {}
        /\ cuts \subseteq Nat /\ beats \subseteq Nat /\ duration \in Nat
    BY DEF CountInv, CutInv, TypeOK
  <2>2. MapThenSumSet(LAMBDA s : s.count, sections) = Cardinality(counted)
    BY <2>1, CountsAddUp
  <2>3. 0 \in cuts /\ \E c \in cuts : c <= duration /\ duration - c < SectionWindow
    <3>1. 0 \in Bounds \ left /\ duration \in Bounds \ left
      BY <2>1 DEF Bounds
    <3>2. PICK c \in cuts : c <= 0 /\ 0 - c < SectionWindow
      BY <3>1 DEF CutInv
    <3>3. QED
      BY <2>1, <3>1, <3>2 DEF CutInv
  <2>4. early \subseteq counted
    <3>1. ASSUME NEW t \in early PROVE t \in counted
      <4>1. (\E c \in cuts : c <= t) /\ (\E c \in cuts : t < c) /\ t \in Nat /\ t \in beats
        BY <2>1, <2>3
      <4>2. PICK p \in Pairs(cuts) : p[1] <= t /\ t < p[2]
        BY <2>1, <4>1, BetweenNeighbours
      <4>3. \E s \in sections : s.start = p[1] /\ s.end = p[2]
        <5> DEFINE s == [start |-> p[1], end |-> p[2],
                         count |-> Cardinality({u \in beats : p[1] <= u /\ u < p[2]})]
        <5>1. s \in sections
          BY <2>1 DEF SectionsOf
        <5>2. QED
          BY <5>1
      <4>4. QED
        BY <4>1, <4>2, <4>3 DEF InAny
    <3>2. QED
      BY <3>1
  <2>5. counted \subseteq beats /\ IsFiniteSet(beats)
    BY FS_Subset DEF InAny, TypeOK
  <2>6. /\ IsFiniteSet(counted) /\ Cardinality(counted) <= Cardinality(beats)
        /\ Cardinality(beats) \in Nat /\ Cardinality(counted) \in Nat
    BY <2>5, FS_Subset, FS_CardinalityType
  <2>7. Cardinality(early) \in Nat /\ Cardinality(early) <= Cardinality(counted)
    BY <2>4, <2>6, FS_Subset, FS_CardinalityType
  <2>8. QED
    BY <2>2, <2>6, <2>7
<1>2. QED
  BY <1>1, TypeCorrect, CutInvHolds, CountInvHolds, PTL
-----------------------------------------------------------------------------
(* Silence: the loop over the envelope finds the quiet runs.  The points   *)
(* of the envelope are a hop apart, which needs arithmetic of its own.     *)

Grid == {ActivityHop * i : i \in Nat}

LEMMA Quotient == ASSUME NEW d \in Nat, NEW h \in Nat \ {0}, NEW j \in Nat, h * j < d PROVE j <= d \div h
OBVIOUS

LEMMA Multiples ==
    ASSUME NEW h \in Nat \ {0}, NEW i \in Nat, NEW j \in Nat
    PROVE  /\ h * i \in Nat /\ h * i + h = h * (i + 1)
           /\ h * i < h * j => h * i + h <= h * j
           /\ i # 0 => h * i - h = h * (i - 1) /\ i - 1 \in Nat
<1>1. ASSUME h * i < h * j PROVE h * i + h <= h * j
  <2>1. i < j
    BY <1>1
  <2>2. h * (j - i - 1) >= 0
    BY <2>1
  <2>3. QED
    BY <2>2
<1>2. QED
  BY <1>1

LEMMA PointsAreTheGrid ==
    ASSUME NEW d \in Nat
    PROVE  Points(d) = {p \in Grid : p < d}
<1>1. \A j \in Nat : ActivityHop * j < d => j \in 0..d \div ActivityHop
  BY Quotient
<1>2. ASSUME NEW j \in 0..d \div ActivityHop PROVE j \in Nat
  OBVIOUS
<1>3. QED
  BY <1>1, <1>2, Zenon DEF Points, Grid

LEMMA GridSteps ==
    ASSUME NEW p \in Grid
    PROVE  /\ p \in Nat /\ p + ActivityHop \in Grid
           /\ p # 0 => p - ActivityHop \in Grid
           /\ \A q \in Grid : p < q => p + ActivityHop <= q
<1>1. PICK i \in Nat : p = ActivityHop * i
  BY DEF Grid
<1>2. p \in Nat /\ p + ActivityHop = ActivityHop * (i + 1) /\ i + 1 \in Nat
  BY <1>1, Multiples
<1>3. p # 0 => p - ActivityHop \in Grid
  <2>1. p # 0 => i # 0
    BY <1>1
  <2>2. i # 0 => p - ActivityHop = ActivityHop * (i - 1) /\ i - 1 \in Nat
    BY <1>1, Multiples
  <2>3. QED
    BY <2>1, <2>2 DEF Grid
<1>4. ASSUME NEW q \in Grid, p < q PROVE p + ActivityHop <= q
  <2>1. PICK j \in Nat : q = ActivityHop * j
    BY DEF Grid
  <2>2. ActivityHop * i < ActivityHop * j => ActivityHop * i + ActivityHop <= ActivityHop * j
    BY Multiples
  <2>3. QED
    BY <1>1, <1>4, <2>1, <2>2
<1>5. p + ActivityHop \in Grid
  BY <1>2 DEF Grid
<1>6. QED
  BY <1>2, <1>3, <1>4, <1>5

\* The spans of the runs that end before a point.
SpansBefore(p) == UNION {Region(duration, r[1], r[2]) : r \in {q \in QuietRuns : q[2] < p}}

\* The points before the one at hand: the quiet run at hand, if there is one, began after a
\* louder point and has none in it; what ended before it has its span.
ScanInv ==
    /\ duration \in Nat /\ quiet \subseteq Points(duration)
    /\ pc = "scan" =>
        /\ at \in Grid
        /\ open = NoRun => at - ActivityHop \notin quiet /\ regions = SpansBefore(at)
        /\ open # NoRun =>
            /\ open \in quiet /\ open < at /\ open - ActivityHop \notin quiet
            /\ \A p \in Grid : open <= p /\ p < at => p \in quiet
            /\ regions = SpansBefore(open)
    /\ RegionsAreQuietRuns

\* A run that ends where the run at hand is open is the run at hand.
LEMMA OpenRun ==
    ASSUME ScanInv, pc = "scan", open # NoRun, at \notin quiet
    PROVE  /\ <<open, at - ActivityHop>> \in QuietRuns /\ open <= at - ActivityHop
           /\ \A q \in QuietRuns : q[2] < at => q[2] < open \/ q = <<open, at - ActivityHop>>
<1>1. /\ quiet \subseteq Points(duration) /\ at \in Grid /\ open \in quiet /\ open < at
      /\ open - ActivityHop \notin quiet /\ duration \in Nat
      /\ \A p \in Grid : open <= p /\ p < at => p \in quiet
  BY DEF ScanInv
<1>2. /\ Points(duration) = {p \in Grid : p < duration}
      /\ open \in Nat /\ open \in Grid /\ at \in Nat /\ ActivityHop \in Nat \ {0}
  BY <1>1, PointsAreTheGrid, GridSteps
<1>3. at - ActivityHop \in Grid /\ at - ActivityHop \in Nat /\ open <= at - ActivityHop
  <2>1. open + ActivityHop <= at /\ at # 0
    BY <1>1, <1>2, GridSteps
  <2>2. at - ActivityHop \in Grid
    BY <1>1, <2>1, GridSteps
  <2>3. QED
    BY <1>2, <2>1, <2>2, GridSteps
<1>4. <<open, at - ActivityHop>> \in QuietRuns
  <2>1. at - ActivityHop \in quiet /\ at - ActivityHop + ActivityHop = at
    BY <1>1, <1>2, <1>3
  <2>2. \A p \in Points(duration) : open <= p /\ p <= at - ActivityHop => p \in quiet
    <3>1. ASSUME NEW p \in Points(duration), open <= p, p <= at - ActivityHop PROVE p \in quiet
      <4>1. p \in Grid
        BY <1>2
      <4>2. p \in Nat
        BY <4>1, GridSteps
      <4>3. p < at
        BY <1>2, <3>1, <4>2
      <4>4. QED
        BY <1>1, <3>1, <4>1, <4>3
    <3>2. QED
      BY <3>1
  <2>3. QED
    BY <1>1, <1>3, <2>1, <2>2 DEF QuietRuns
<1>5. ASSUME NEW q \in QuietRuns, q[2] < at, ~(q[2] < open) PROVE q = <<open, at - ActivityHop>>
  <2>1. /\ q = <<q[1], q[2]>> /\ q[1] \in quiet /\ q[2] \in quiet /\ q[1] <= q[2]
        /\ q[1] - ActivityHop \notin quiet /\ q[2] + ActivityHop \notin quiet
        /\ \A p \in Points(duration) : q[1] <= p /\ p <= q[2] => p \in quiet
    BY DEF QuietRuns
  <2>2. q[1] \in Grid /\ q[2] \in Grid /\ q[1] \in Nat /\ q[2] \in Nat /\ q[2] < duration
    BY <1>1, <1>2, <2>1, GridSteps
  <2>3. q[2] = at - ActivityHop
    <3>1. q[2] + ActivityHop \in Grid /\ q[2] + ActivityHop <= at
      BY <1>1, <1>5, <2>2, GridSteps
    <3>2. ~(q[2] + ActivityHop < at)
      BY <1>1, <1>2, <1>5, <2>1, <2>2, <3>1
    <3>3. QED
      BY <1>2, <2>2, <3>1, <3>2
  <2>4. ~(q[1] > open)
    <3>1. SUFFICES ASSUME open < q[1] PROVE FALSE
      BY <1>2, <2>2
    <3>2. open + ActivityHop <= q[1] /\ q[1] # 0
      BY <1>2, <2>2, <3>1, GridSteps
    <3>3. q[1] - ActivityHop \in Grid /\ open <= q[1] - ActivityHop /\ q[1] - ActivityHop < at
      BY <1>2, <1>3, <2>1, <2>2, <2>3, <3>2, GridSteps
    <3>4. QED
      BY <1>1, <2>1, <3>3
  <2>5. ~(q[1] < open)
    <3>1. SUFFICES ASSUME q[1] < open PROVE FALSE
      OBVIOUS
    <3>2. q[1] + ActivityHop <= open /\ open # 0
      BY <1>2, <2>2, <3>1, GridSteps
    <3>3. open - ActivityHop \in Grid
      BY <1>2, <3>2, GridSteps
    <3>4. q[1] <= open - ActivityHop /\ open - ActivityHop <= q[2] /\ open - ActivityHop < duration
      BY <1>1, <1>2, <1>3, <2>2, <2>3, <3>2
    <3>5. QED
      BY <1>1, <1>2, <2>1, <3>3, <3>4
  <2>6. q[1] = open
    BY <1>2, <2>2, <2>4, <2>5
  <2>7. QED
    BY <2>1, <2>3, <2>6
<1>6. QED
  BY <1>3, <1>4, <1>5

\* When a run ends, what ended before the point at hand has its span.
LEMMA ClosedIsExact ==
    ASSUME ScanInv, pc = "scan", at \notin quiet
    PROVE  Closed = SpansBefore(at)
<1>1. CASE open = NoRun
  BY <1>1 DEF ScanInv, Closed
<1>2. CASE open # NoRun
  <2>1. /\ <<open, at - ActivityHop>> \in QuietRuns /\ open <= at - ActivityHop
        /\ \A q \in QuietRuns : q[2] < at => q[2] < open \/ q = <<open, at - ActivityHop>>
    BY <1>2, OpenRun
  <2>2. open < at /\ open \in Int /\ at \in Int /\ ActivityHop \in Nat \ {0} /\ QuietRuns \subseteq Int \X Int
    <3>1. /\ at \in Grid /\ open \in Points(duration) /\ duration \in Nat /\ open < at
          /\ quiet \subseteq Points(duration)
      BY <1>2 DEF ScanInv
    <3>2. Points(duration) \subseteq Nat /\ at \in Nat
      BY <3>1, PointsAreTheGrid, GridSteps
    <3>3. QED
      BY <3>1, <3>2 DEF QuietRuns
  <2>3. {q \in QuietRuns : q[2] < at} = {q \in QuietRuns : q[2] < open} \cup {<<open, at - ActivityHop>>}
    BY <2>1, <2>2
  <2>4. SpansBefore(at) = SpansBefore(open) \cup Region(duration, open, at - ActivityHop)
    <3> DEFINE Span(r) == Region(duration, r[1], r[2])
    <3>1. Span(<<open, at - ActivityHop>>) = Region(duration, open, at - ActivityHop)
      OBVIOUS
    <3>2. SpansBefore(at) = UNION {Span(r) : r \in {q \in QuietRuns : q[2] < open} \cup {<<open, at - ActivityHop>>}}
      BY <2>3 DEF SpansBefore
    <3>3. SpansBefore(open) = UNION {Span(r) : r \in {q \in QuietRuns : q[2] < open}}
      BY DEF SpansBefore
    <3> HIDE DEF Span
    <3>4. QED
      BY <3>1, <3>2, <3>3
  <2>5. QED
    BY <1>2, <2>4 DEF ScanInv, Closed
<1>3. QED
  BY <1>1, <1>2

LEMMA InitScanInv == TypeOK /\ SectionsInit => ScanInv
<1> SUFFICES ASSUME TypeOK, SectionsInit PROVE ScanInv
  OBVIOUS
<1>1. /\ pc = "scan" /\ at = 0 /\ open = NoRun /\ regions = {} /\ quiet \subseteq Points(duration) /\ duration \in Nat
  BY DEF SectionsInit
<1>2. 0 \in Grid
  <2>1. ActivityHop * 0 = 0
    OBVIOUS
  <2>2. QED
    BY <2>1 DEF Grid
<1>3. quiet \subseteq Nat
  BY <1>1, PointsAreTheGrid, GridSteps
<1>4. 0 - ActivityHop \notin quiet
  BY <1>3
<1>5. SpansBefore(0) = {}
  <2>1. ASSUME NEW q \in QuietRuns PROVE ~(q[2] < 0)
    <3>1. q[2] \in Nat
      BY <1>3 DEF QuietRuns
    <3>2. QED
      BY <3>1
  <2>2. QED
    BY <2>1 DEF SpansBefore
<1>6. QED
  BY <1>1, <1>2, <1>4, <1>5 DEF ScanInv, RegionsAreQuietRuns

LEMMA NextScanInv == TypeOK /\ ScanInv /\ [SectionsNext]_sections_vars => ScanInv'
<1> SUFFICES ASSUME TypeOK, ScanInv, [SectionsNext]_sections_vars PROVE ScanInv'
  OBVIOUS
<1>1. /\ duration \in Nat /\ quiet \subseteq Points(duration) /\ ActivityHop \in Nat \ {0}
      /\ Points(duration) = {p \in Grid : p < duration} /\ quiet \subseteq Nat
      /\ pc = "scan" => at \in Grid /\ at \in Nat /\ at + ActivityHop \in Grid
      /\ NoRun \notin Nat
  BY PointsAreTheGrid, GridSteps DEF ScanInv, NoRun
\* Between a point of the grid and the next there is none.
<1>2. ASSUME pc = "scan", NEW p \in Grid, p < at + ActivityHop PROVE p < at \/ p = at
  <2>1. p \in Nat /\ (at < p => at + ActivityHop <= p)
    BY <1>1, <1>2, GridSteps
  <2>2. QED
    BY <1>1, <1>2, <2>1
<1>3. ASSUME UNCHANGED inputVars
      PROVE  Points(duration)' = Points(duration) /\ QuietRuns' = QuietRuns
             /\ \A p : SpansBefore(p)' = SpansBefore(p)
  BY <1>3 DEF inputVars, QuietRuns, SpansBefore, Points, Region, PointHop
<1>4. CASE Quiet
  <2>1. /\ pc = "scan" /\ pc' = "scan" /\ at \in quiet /\ at' = at + ActivityHop /\ regions' = regions
        /\ open' = (IF open = NoRun THEN at ELSE open) /\ UNCHANGED inputVars
    BY <1>4 DEF Quiet
  <2>2. CASE open = NoRun
    <3>1. open' = at /\ at \in quiet /\ at < at' /\ at - ActivityHop \notin quiet /\ regions = SpansBefore(at)
      BY <1>1, <2>1, <2>2 DEF ScanInv
    <3>2. \A p \in Grid : at <= p /\ p < at + ActivityHop => p \in quiet
      <4>1. ASSUME NEW p \in Grid, at <= p, p < at + ActivityHop PROVE p = at
        <5>1. p \in Nat /\ (p < at \/ p = at)
          BY <1>2, <2>1, <4>1, GridSteps
        <5>2. QED
          BY <1>1, <2>1, <4>1, <5>1
      <4>2. QED
        BY <2>1, <4>1
    <3>3. QED
      BY <1>1, <1>3, <2>1, <3>1, <3>2 DEF ScanInv, RegionsAreQuietRuns, inputVars
  <2>3. CASE open # NoRun
    <3>1. /\ open' = open /\ open \in quiet /\ open < at' /\ open - ActivityHop \notin quiet /\ regions = SpansBefore(open)
          /\ \A p \in Grid : open <= p /\ p < at => p \in quiet
      BY <1>1, <2>1, <2>3 DEF ScanInv
    <3>2. \A p \in Grid : open <= p /\ p < at + ActivityHop => p \in quiet
      BY <1>1, <1>2, <2>1, <3>1
    <3>3. QED
      BY <1>1, <1>3, <2>1, <3>1, <3>2 DEF ScanInv, RegionsAreQuietRuns, inputVars
  <2>4. QED
    BY <2>2, <2>3
<1>5. CASE Loud
  <2>1. /\ pc = "scan" /\ pc' = "scan" /\ at \notin quiet /\ at' = at + ActivityHop /\ regions' = Closed
        /\ open' = NoRun /\ UNCHANGED inputVars
    BY <1>5 DEF Loud
  <2>2. SpansBefore(at + ActivityHop) = SpansBefore(at)
    <3>1. \A q \in QuietRuns : q[2] < at + ActivityHop <=> q[2] < at
      <4>1. \A q \in QuietRuns : q[2] \in quiet /\ q[2] \in Grid /\ q[2] \in Nat
        BY <1>1 DEF QuietRuns
      <4>2. QED
        BY <1>1, <1>2, <2>1, <4>1
    <3>2. QED
      BY <3>1 DEF SpansBefore
  <2>3. at' - ActivityHop \notin quiet
    BY <1>1, <2>1
  <2>4. QED
    BY <1>1, <1>3, <2>1, <2>2, <2>3, ClosedIsExact DEF ScanInv, RegionsAreQuietRuns, inputVars
<1>6. CASE Prepare
  <2>1. pc = "scan" /\ pc' # "scan" /\ at >= duration /\ regions' = Closed /\ UNCHANGED inputVars
    BY <1>6 DEF Prepare
  <2>2. at \notin quiet
    BY <1>1, <2>1
  <2>3. SpansBefore(at) = UNION {Region(duration, r[1], r[2]) : r \in QuietRuns}
    <3>1. \A q \in QuietRuns : q[2] < at
      <4>1. \A q \in QuietRuns : q[2] < duration /\ q[2] \in Nat
        BY <1>1 DEF QuietRuns
      <4>2. QED
        BY <1>1, <2>1, <4>1
    <3>2. QED
      BY <3>1 DEF SpansBefore
  <2>4. RegionsAreQuietRuns'
    <3>1. Closed = UNION {Region(duration, r[1], r[2]) : r \in QuietRuns}
      BY <2>1, <2>2, <2>3, ClosedIsExact
    <3>2. QED
      BY <2>1, <3>1 DEF RegionsAreQuietRuns, inputVars, QuietRuns, Points, Region, PointHop
  <2>5. QED
    BY <1>1, <1>3, <2>1, <2>4 DEF ScanInv, inputVars
<1>7. ASSUME UNCHANGED <<inputVars, scanVars>>, pc' = "scan" <=> pc = "scan" PROVE ScanInv'
  <2>1. RegionsAreQuietRuns'
    BY <1>3, <1>7 DEF ScanInv, RegionsAreQuietRuns, inputVars, scanVars
  <2>2. QED
    BY <1>3, <1>7, <2>1 DEF ScanInv, inputVars, scanVars
<1>8. CASE ~(Quiet \/ Loud \/ Prepare)
  <2>1. UNCHANGED <<inputVars, scanVars>> /\ (pc' = "scan" <=> pc = "scan")
    BY <1>8 DEF SectionsNext, Detect, Take, Strengthen, Absorb, Keep, Bound, Cut, Skip, Build, sections_vars
  <2>2. QED
    BY <1>7, <2>1
<1>9. QED
  BY <1>4, <1>5, <1>6, <1>8

\* For any recording, any hop and any envelope: the loop over the envelope reports the span of
\* every maximal quiet run that is long enough, and of nothing else.
THEOREM SilencesAreQuietRuns == SectionsSpec => []RegionsAreQuietRuns
<1>1. ScanInv => RegionsAreQuietRuns
  BY DEF ScanInv
<1>2. QED
  BY <1>1, InitType, InitScanInv, NextScanInv, TypeCorrect, PTL DEF SectionsSpec
=============================================================================
