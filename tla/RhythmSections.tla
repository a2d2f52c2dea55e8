--------------------------- MODULE RhythmSections ---------------------------
(***************************************************************************)
(* From backend beats and an activity envelope to change points and        *)
(* rhythm sections: TempoMapEstimator::estimate of                         *)
(* crates/rhythm-map-core/src/estimator.rs, with                           *)
(*                                                                         *)
(*    find_silence_regions   its loop over the envelope (Quiet, Loud)      *)
(*    prepare_observations   which beats are kept (Prepare)                *)
(*    detectors of change    at which beats they may fire (Detect)         *)
(*    deduplicate_changes    its loop (Strengthen, Absorb, Keep)           *)
(*    build_sections         its loop over boundaries (Cut, Skip, Build)   *)
(*                                                                         *)
(* Times are whole milliseconds, even where a midpoint is taken.  Tempo,   *)
(* salience and confidence are data: they decide where tempo changes are   *)
(* detected and how they score, whether half time is selected and which    *)
(* beats a repaired transition gets, and the model leaves that open.       *)
(***************************************************************************)
EXTENDS Integers, FiniteSets, SequencesExt, FiniteSetsExt

CONSTANTS
    Durations,          \* of the recordings
    BeatTimes,          \* where the backend may report a beat
    ActivityHop,        \* between activity points
    Scores,             \* of detections, in order
    MinimumSilence,     \* minimum_silence_s: 800
    GapFactor,          \* twice discontinuity_factor: 7
    ShortestGap,        \* a gap is longer than this: 1000
    MergeWindow,        \* same-kind detections closer than this: 750
    SectionWindow,      \* boundaries closer than this: 500
    FewestToHalve,      \* select_metrical_level needs these beats: 8
    FewestOnGrid,       \* fit_regular_grid needs these beats: 6
    MaxCurveChanges     \* bound: jumps and ramp boundaries detected

ASSUME TimesAssumption == /\ Durations \subseteq Nat
                          /\ BeatTimes \subseteq Nat /\ IsFiniteSet(BeatTimes)
                          /\ ActivityHop \in Nat \ {0}
                          /\ Scores \subseteq Nat
ASSUME WindowsAssumption == /\ MinimumSilence \in Nat
                            /\ MergeWindow \in Nat \ {0}
                            /\ SectionWindow \in Nat \ {0}

VARIABLES
    pc,         \* "scan", "detect", "merge", "cut" or "done"
    duration,   \* input.duration_s
    quiet,      \* input.activity: the points at or below the threshold
    beats,      \* input.beats, then prepared.beats
    at,         \* scan: the next activity point
    open,       \* scan: the first point of the quiet run at hand, if any
    regions,    \* silence_regions
    found,      \* history: change_points before deduplicate_changes
    todo,       \* change_points.drain(..) in time order
    kept,       \* the result of deduplicate_changes
    left,       \* boundaries that dedup_by has not seen
    cuts,       \* boundaries it has retained
    sections    \* rhythm_sections

scanVars == <<at, open, regions>>
changeVars == <<found, todo, kept>>
cutVars == <<left, cuts>>
inputVars == <<duration, quiet>>
sections_vars == <<pc, inputVars, beats, scanVars, changeVars, cutVars, sections>>

ChangeKinds == {"TempoJump", "RampBoundary", "RhythmDiscontinuity"}

\* The detectors, in the order estimate calls them: the sort is stable, so
\* this order decides between detections at one time.
Detectors == [jumps |-> 1, transitions |-> 2, gaps |-> 3, silences |-> 4]

Mark == [time : Nat, by : 1..4, kind : ChangeKinds]
Change == [time : Nat, by : 1..4, kind : ChangeKinds, score : Scores]
Section == [start : Nat, end : Nat, count : Nat]

NoRun == -1
Midpoint(a, b) == (a + b) \div 2

-----------------------------------------------------------------------------
(* Silence *)

\* extract_audio_activity: points at every hop before the end.
Points(d) == {ActivityHop * i : i \in {j \in 0..(d \div ActivityHop) : ActivityHop * j < d}}

\* The median distance of the points; one point stands for the recording.
PointHop(d) == IF ActivityHop < d THEN ActivityHop ELSE d

\* push_silence_region: the span of the points first to last, if long enough.
Region(d, first, last) ==
    LET half == PointHop(d) \div 2
        span == [start |-> Max({first - half, 0}), end |-> Min({last + half, d})]
    IN  IF span.end - span.start >= MinimumSilence THEN {span} ELSE {}

InsideSilence(t, R) == \E r \in R : r.start <= t /\ t <= r.end

SectionsInit ==
    /\ pc = "scan"
    /\ duration \in Durations
    /\ quiet \in SUBSET Points(duration)
    /\ beats \in SUBSET {t \in BeatTimes : t <= duration}
    /\ at = 0 /\ open = NoRun /\ regions = {}
    /\ found = {} /\ todo = {} /\ kept = <<>>
    /\ left = {} /\ cuts = {} /\ sections = {}

\* A point at or below the threshold opens a run or continues it.
Quiet ==
    /\ pc = "scan" /\ at < duration /\ at \in quiet
    /\ open' = IF open = NoRun THEN at ELSE open
    /\ at' = at + ActivityHop
    /\ UNCHANGED <<pc, inputVars, beats, regions, changeVars, cutVars, sections>>

\* The regions once the run at hand, if there is one, has ended.
Closed == IF open = NoRun THEN regions
          ELSE regions \cup Region(duration, open, at - ActivityHop)

\* Mutant: start is read and not taken.
LoudKeepsRun ==
    /\ pc = "scan" /\ at < duration /\ at \notin quiet
    /\ regions' = Closed
    /\ at' = at + ActivityHop
    /\ UNCHANGED <<pc, inputVars, beats, open, changeVars, cutVars, sections>>

\* A louder point ends the run, if one is open.
Loud ==
    /\ pc = "scan" /\ at < duration /\ at \notin quiet
    /\ regions' = Closed
    /\ open' = NoRun
    /\ at' = at + ActivityHop
    /\ UNCHANGED <<pc, inputVars, beats, changeVars, cutVars, sections>>

\* Every other beat of S, from the first or from the second.
EveryOther(S, phase) ==
    {t \in S : Cardinality({u \in S : u < t}) % 2 = phase}

\* select_metrical_level: tempo and salience decide between these.
MetricalLevels(S) ==
    {S} \cup (IF Cardinality(S) < FewestToHalve THEN {}
              ELSE {EveryOther(S, 0), EveryOther(S, 1)})

\* too_few_beats_analysis: the whole recording is one section.
TooFew(B) == {[start |-> 0, end |-> duration, count |-> Cardinality(B)]}

\* The end of the loop closes an open run; the beats in silence go, and the
\* metrical level is selected.  With fewer than three beats nothing else is
\* estimated.
Prepare ==
    /\ pc = "scan" /\ at >= duration
    /\ regions' = Closed
    /\ open' = NoRun
    /\ beats' \in MetricalLevels({t \in beats : ~ InsideSilence(t, regions')})
    /\ IF Cardinality(beats') < 3
       THEN pc' = "done" /\ sections' = TooFew(beats')
       ELSE pc' = "detect" /\ UNCHANGED sections
    /\ UNCHANGED <<inputVars, at, changeVars, cutVars>>

-----------------------------------------------------------------------------
(* Changes *)

\* recover_short_transition_grids: between two regular grids the beats of a
\* short transition are replaced by a continuation of the right grid.
Recoveries(S) ==
    {S} \cup UNION
        {{{t \in S : t < p[1] \/ t > p[2]} \cup new :
              new \in SUBSET {t \in BeatTimes : p[1] <= t /\ t <= p[2]}} :
            p \in {q \in BeatTimes \X BeatTimes :
                /\ q[1] <= q[2]
                /\ Cardinality({t \in S : t < q[1]}) >= FewestOnGrid
                /\ Cardinality({t \in S : t > q[2]}) >= FewestOnGrid}}

\* beats.windows(2), each pair of neighbours, and its place: the interval of
\* a pair and its curve point, in the middle, have the same index.
Pairs(S) == {p \in S \X S : p[1] < p[2] /\ ~ \E t \in S : p[1] < t /\ t < p[2]}
Index(p, S) == Cardinality({t \in S : t < p[1]})
Interval(p) == p[2] - p[1]

\* The median of the intervals: of the two in the middle, if they are even.
MedianInterval(S) ==
    LET n == Cardinality(Pairs(S))
        Rank(p) == Cardinality({q \in Pairs(S) :
                       \/ Interval(q) < Interval(p)
                       \/ Interval(q) = Interval(p) /\ q[1] < p[1]})
        lower == CHOOSE p \in Pairs(S) : Rank(p) = (n - 1) \div 2
        upper == CHOOSE p \in Pairs(S) : Rank(p) = n \div 2
    IN  Midpoint(Interval(lower), Interval(upper))

MarkAt(t, detector, kind) ==
    [time |-> t, by |-> Detectors[detector], kind |-> kind]

\* detect_jumps looks at two curve points on either side.  A transition of
\* the segments begins and ends at an inner point of the curve.
CurveMarks(S) ==
    LET last == Cardinality(S) - 2
    IN  UNION {
          (IF Index(p, S) \in 2..(last - 2)
           THEN {MarkAt(Midpoint(p[1], p[2]), "jumps", "TempoJump")} ELSE {})
          \cup
          (IF Index(p, S) \in 1..(last - 1)
           THEN {MarkAt(Midpoint(p[1], p[2]), "transitions", k) :
                     k \in {"TempoJump", "RampBoundary"}} ELSE {})
          : p \in Pairs(S)}

\* What detect_jumps and add_segment_transitions may report: one finding per
\* detector and point.
TempoMarks(S) ==
    {C \in UNION {kSubset(k, CurveMarks(S)) : k \in 0..MaxCurveChanges} :
        \A m, n \in C : m.time = n.time /\ m.by = n.by => m = n}

\* add_discontinuities: a long gap between beats, and every silence.
Discontinuities(S, R) ==
    LET typical == MedianInterval(S)
        gaps == {p \in Pairs(S) : /\ 2 * Interval(p) > GapFactor * typical
                                  /\ Interval(p) > ShortestGap}
    IN  {MarkAt(Midpoint(p[1], p[2]), "gaps", "RhythmDiscontinuity") : p \in gaps}
        \cup
        {MarkAt(Midpoint(r.start, r.end), "silences", "RhythmDiscontinuity") : r \in R}

WithScores(marks, score) ==
    {[time |-> m.time, by |-> m.by, kind |-> m.kind, score |-> score[m]] : m \in marks}

Detect ==
    /\ pc = "detect"
    /\ beats' \in Recoveries(beats)
    /\ \E tempo \in TempoMarks(beats') :
           LET marks == tempo \cup Discontinuities(beats', regions)
           IN  \E score \in [marks -> Scores] : found' = WithScores(marks, score)
    /\ todo' = found'
    /\ pc' = "merge"
    /\ UNCHANGED <<inputVars, scanVars, kept, cutVars, sections>>

\* The order of change_points after its stable sort by time.
Before(c, d) == c.time < d.time \/ (c.time = d.time /\ c.by < d.by)

IsNext(c) == \A d \in todo : ~ Before(d, c)

\* Mutant: the kinds are not compared.
MergesAnyKind(c) ==
    /\ kept # <<>>
    /\ c.time - kept[Len(kept)].time < MergeWindow

\* deduplicate_changes compares with the last change kept, and no other.
Merges(c) ==
    /\ kept # <<>>
    /\ kept[Len(kept)].kind = c.kind
    /\ c.time - kept[Len(kept)].time < MergeWindow

Take(c) ==
    /\ pc = "merge" /\ IsNext(c)
    /\ todo' = todo \ {c}
    /\ UNCHANGED <<pc, inputVars, beats, scanVars, found, cutVars, sections>>

\* A stronger detection replaces the one kept.
Strengthen(c) ==
    /\ Take(c)
    /\ Merges(c) /\ c.score > kept[Len(kept)].score
    /\ kept' = [kept EXCEPT ![Len(kept)] = c]

Absorb(c) ==
    /\ Take(c)
    /\ Merges(c) /\ c.score <= kept[Len(kept)].score
    /\ UNCHANGED kept

Keep(c) ==
    /\ Take(c)
    /\ ~ Merges(c)
    /\ kept' = Append(kept, c)

-----------------------------------------------------------------------------
(* Sections *)

\* build_sections: the beginning, the changes and the end, sorted.
Bound ==
    /\ pc = "merge" /\ todo = {}
    /\ left' = {0, duration} \cup {kept[i].time : i \in DOMAIN kept}
    /\ pc' = "cut"
    /\ UNCHANGED <<inputVars, beats, scanVars, changeVars, cuts, sections>>

IsFirst(b) == \A d \in left : b <= d

\* Mutant: the window is closed.
NearClosed(b) == \E c \in cuts : b - c <= SectionWindow

\* dedup_by compares with the last boundary retained: in sorted order it is
\* the nearest of them.
NearBoundary(b) == \E c \in cuts : b - c < SectionWindow

Cut(b) ==
    /\ pc = "cut" /\ IsFirst(b) /\ ~ NearBoundary(b)
    /\ cuts' = cuts \cup {b}
    /\ left' = left \ {b}
    /\ UNCHANGED <<pc, inputVars, beats, scanVars, changeVars, sections>>

Skip(b) ==
    /\ pc = "cut" /\ IsFirst(b) /\ NearBoundary(b)
    /\ left' = left \ {b}
    /\ UNCHANGED <<pc, inputVars, beats, scanVars, changeVars, cuts, sections>>

\* Mutant: a beat on a boundary counts for neither side.
SectionsOpen(C, B) ==
    {[start |-> p[1], end |-> p[2],
      count |-> Cardinality({t \in B : p[1] < t /\ t < p[2]})] : p \in Pairs(C)}

\* boundaries.windows(2): each boundary and the next.
SectionsOf(C, B) ==
    {[start |-> p[1], end |-> p[2],
      count |-> Cardinality({t \in B : p[1] <= t /\ t < p[2]})] : p \in Pairs(C)}

Build ==
    /\ pc = "cut" /\ left = {}
    /\ sections' = SectionsOf(cuts, beats)
    /\ pc' = "done"
    /\ UNCHANGED <<inputVars, beats, scanVars, changeVars, cutVars>>

SectionsNext ==
    \/ Quiet \/ Loud \/ Prepare \/ Detect
    \/ \E c \in todo : Strengthen(c) \/ Absorb(c) \/ Keep(c)
    \/ Bound
    \/ \E b \in left : Cut(b) \/ Skip(b)
    \/ Build

SectionsSpec == SectionsInit /\ [][SectionsNext]_sections_vars

-----------------------------------------------------------------------------

TypeOK ==
    /\ pc \in {"scan", "detect", "merge", "cut", "done"}
    /\ duration \in Durations
    /\ quiet \subseteq Points(duration)
    /\ beats \subseteq BeatTimes
    /\ at \in Nat /\ open \in Nat \cup {NoRun}
    /\ regions \subseteq [start : Nat, end : Nat]
    /\ found \subseteq Change /\ todo \subseteq found
    /\ kept \in Seq(Change)
    /\ left \subseteq Nat /\ cuts \subseteq Nat
    /\ sections \subseteq Section

\* The quiet runs of the envelope: maximal, by their first and last point.
QuietRuns ==
    {r \in quiet \X quiet :
        /\ r[1] <= r[2]
        /\ \A p \in Points(duration) : r[1] <= p /\ p <= r[2] => p \in quiet
        /\ r[1] - ActivityHop \notin quiet /\ r[2] + ActivityHop \notin quiet}

\* The loop of find_silence_regions finds every maximal quiet run that is
\* long enough, clipped to the recording, and nothing else; the run that
\* reaches the end of the envelope is not forgotten.
RegionsAreQuietRuns ==
    pc # "scan" => regions = UNION {Region(duration, r[1], r[2]) : r \in QuietRuns}

\* deduplicate_changes retains the strongest: of everything detected so far,
\* nothing is dropped unless one at least as strong of its kind is kept.
StrongestSurvives ==
    \A c \in found \ todo :
        \E i \in DOMAIN kept : kept[i].kind = c.kind /\ kept[i].score >= c.score

\* The change points of an analysis are in time order, although a stronger
\* detection takes the place of an earlier one.
ChangesInOrder ==
    \A i, j \in DOMAIN kept : i < j => kept[i].time <= kept[j].time

\* deduplicate_changes leaves two changes of one kind within the window only
\* where a change of another kind is between them.
CloseChangesAreSeparated ==
    \A i, j \in DOMAIN kept :
        /\ i < j
        /\ kept[i].kind = kept[j].kind
        /\ kept[j].time - kept[i].time < MergeWindow
        => \E m \in i..j : kept[m].kind # kept[i].kind


\* build_sections: no section is shorter than the window, although changes,
\* the beginning and the end may be as close as they like.
SectionsAreLong ==
    cuts # {} => \A s \in sections : s.end - s.start >= SectionWindow

\* Each change point begins a section, or is less than the window after a
\* boundary that does.
ChangesAreCut ==
    pc = "done" => \A i \in DOMAIN kept :
        \E b \in cuts : b <= kept[i].time /\ kept[i].time - b < SectionWindow

\* The counts of the sections add up to the beats of the analysis: only
\* beats in the last window of the recording may be in none.
BeatsAreCounted ==
    pc = "done" /\ cuts # {} =>
        MapThenSumSet(LAMBDA s : s.count, sections)
            \in Cardinality({t \in beats : t + SectionWindow <= duration})
                ..Cardinality(beats)

\* docs/ALGORITHM.md, "Rhythm-homogeneous sections": "The beginning, detected
\* change points, and audio end form section boundaries."
SectionsReachTheEnd ==
    pc = "done" => \E s \in sections : s.end = duration
=============================================================================
