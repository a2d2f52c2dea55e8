------------------------------- MODULE TempoOutline -------------------------------
(***************************************************************************)
(* From the tempo curve to segments and tempo changes: the curve is        *)
(* reduced to knots between which it is straight in log tempo, knots bound *)
(* segments that are constant or ramps, neighbouring ramps form one        *)
(* transition, and a transition is a jump or has a boundary at each end.   *)
(* Tempi are in beats a minute, times in 5 ms, ratios in percent.          *)
(***************************************************************************)
EXTENDS Integers, Sequences, FiniteSets, SequencesExt

CONSTANTS Octaves,          \* log2 of a tempo, in thousandths
          CurveTolerance,   \* curve_tolerance_octaves
          ConstantRatio, JumpRatio,
          BridgeBeats,      \* a constant stretch between ramps that is shorter is bridged
          JumpDuration      \* jump_transition_max_s
ASSUME RatioAssumption == {ConstantRatio, JumpRatio} \subseteq Nat /\ BridgeBeats \in Nat

Minute == 12000
Distance(a, b) == IF a < b THEN b - a ELSE a - b
\* The ratio of two tempi, whichever is greater, is at least so many percent above 1.
AtLeast(percent, a, b) == 100 * a >= (100 + percent) * b \/ 100 * b >= (100 + percent) * a
AtMost(percent, a, b) == 100 * a <= (100 + percent) * b /\ 100 * b <= (100 + percent) * a

\* A point of the curve is in the middle of the interval whose tempo it has.
curve_points(tempi) ==
    LET Interval2(bpm) == Minute \div bpm
        Next2(at, bpm) == IF at = <<>> THEN Interval2(bpm) \div 2
                          ELSE Last(at).time + (Interval2(Last(at).bpm) + Interval2(bpm)) \div 2
    IN  FoldLeft(LAMBDA at, bpm : Append(at, [time |-> Next2(at, bpm), bpm |-> bpm]), <<>>, tempi)

\* How far a point is from the line between two others, times their distance in time.
deviation(curve, start, end, n) ==
    Distance((Octaves[curve[n].bpm] - Octaves[curve[start].bpm]) * (curve[end].time - curve[start].time),
             (curve[n].time - curve[start].time) * (Octaves[curve[end].bpm] - Octaves[curve[start].bpm]))
\* The farthest point between two knots, the last of several, is a knot if it is too far.
simplify_curve(curve) ==
    LET Farthest(start, end) ==
            CHOOSE n \in start + 1..end - 1 : \A k \in start + 1..end - 1 :
                LET a == deviation(curve, start, end, n)
                    b == deviation(curve, start, end, k)
                IN  b < a \/ (b = a /\ k <= n)
        simplify_range[r \in (DOMAIN curve) \X (DOMAIN curve)] ==
            IF r[2] <= r[1] + 1 THEN {}
            ELSE LET n == Farthest(r[1], r[2])
                 IN  IF deviation(curve, r[1], r[2], n) > CurveTolerance * (curve[r[2]].time - curve[r[1]].time)
                     THEN {n} \cup simplify_range[<<r[1], n>>] \cup simplify_range[<<n, r[2]>>]
                     ELSE {}
        keep == {1, Len(curve)} \cup simplify_range[<<1, Len(curve)>>]
    IN  [i \in 1..Cardinality(keep) |-> CHOOSE n \in keep : Cardinality({k \in keep : k < n}) = i - 1]

build_segments(curve, knots, duration) ==
    IF Len(knots) = 1
    THEN <<[start |-> 0, end |-> duration, kind |-> "constant", from |-> curve[1].bpm, to |-> curve[1].bpm]>>
    ELSE [s \in 1..Len(knots) - 1 |->
            LET a == curve[knots[s]]
                b == curve[knots[s + 1]]
            IN  [start |-> IF s = 1 THEN 0 ELSE a.time,
                 end |-> IF knots[s + 1] = Len(curve) THEN duration ELSE b.time,
                 kind |-> IF AtMost(ConstantRatio, a.bpm, b.bpm) THEN "constant" ELSE "ramp",
                 from |-> a.bpm, to |-> b.bpm]]

\* Maximal groups of ramps and of short constant segments between two ramps, first and last.
Ramp(segments, s) == segments[s].kind = "ramp"
\* Mutant: a short constant segment is taken in whatever follows it.
BridgesAlways(segments, s) ==
    (segments[s].end - segments[s].start) * (segments[s].from + segments[s].to) < 2 * Minute * BridgeBeats
Bridges(segments, s) ==
    /\ (segments[s].end - segments[s].start) * (segments[s].from + segments[s].to) < 2 * Minute * BridgeBeats
    /\ s < Len(segments) /\ Ramp(segments, s + 1)
Groups(segments) ==
    LET Take(at, s) ==
            IF at # <<>> /\ Last(at)[2] = s - 1 /\ (Ramp(segments, s) \/ Bridges(segments, s))
            THEN [at EXCEPT ![Len(at)][2] = s]
            ELSE IF Ramp(segments, s) THEN Append(at, <<s, s>>) ELSE at
    IN  FoldLeft(Take, <<>>, [s \in DOMAIN segments |-> s])
before_bpm(segments, g) == IF g[1] > 1 THEN segments[g[1] - 1].to ELSE segments[g[1]].from
after_bpm(segments, g) == IF g[2] < Len(segments) THEN segments[g[2] + 1].from ELSE segments[g[2]].to
segment_transitions(segments) ==
    SelectSeq(Groups(segments), LAMBDA g : AtLeast(JumpRatio, before_bpm(segments, g), after_bpm(segments, g)))

is_bracketed(segments, g) == g[1] > 1 /\ g[2] < Len(segments)
add_segment_transitions(segments) ==
    LET Change(time, kind, before, after) == [time |-> time, kind |-> kind, before |-> before, after |-> after]
        Of3(g) ==
            LET first == segments[g[1]]
                last == segments[g[2]]
                before == before_bpm(segments, g)
                after == after_bpm(segments, g)
            IN  IF is_bracketed(segments, g) /\ last.end - first.start <= JumpDuration
                THEN <<Change(first.start, "jump", before, after)>>
                ELSE (IF g[1] > 1 THEN <<Change(first.start, "ramp", before, first.from)>> ELSE <<>>)
                     \o IF g[2] < Len(segments) THEN <<Change(last.end, "ramp", last.to, after)>> ELSE <<>>
        found == segment_transitions(segments)
    IN  FlattenSeq([i \in DOMAIN found |-> Of3(found[i])])

\* The medians of two points before and two after are their means; twice them is compared.
detect_jumps(curve) ==
    LET Twice(n) == curve[n].bpm + curve[n + 1].bpm
        found == {n \in 3..Len(curve) - 2 : AtLeast(JumpRatio, Twice(n), Twice(n - 2))}
        order == SelectSeq([n \in DOMAIN curve |-> n], LAMBDA n : n \in found)
    IN  IF Len(curve) < 5 THEN <<>>
        ELSE [i \in DOMAIN order |-> [time |-> curve[order[i]].time, kind |-> "jump",
                                      before |-> Twice(order[i] - 2), after |-> Twice(order[i])]]
===================================================================================
