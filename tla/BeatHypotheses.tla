------------------------------ MODULE BeatHypotheses ------------------------------
(***************************************************************************)
(* Metrical interpretations of one recording: the selected beats, their    *)
(* two half-time phases, beats doubled with backend candidates, and a path *)
(* through the candidates whose level may change. Where the path and the   *)
(* selection differ becomes ambiguity regions. A candidate has confidence  *)
(* and support: a tenth of its downbeat confidence and what the harmonic   *)
(* change within 20 ms of it weighs.                                       *)
(***************************************************************************)
EXTENDS Integers, Sequences, FiniteSets, SequencesExt, Functions

CONSTANTS FewestEvents,       \* MINIMUM_EVENTS, and what half time needs
          FewestAdditions,    \* what double time needs
          Quickest, Slowest,  \* intervals at max_bpm and min_bpm
          EventCost,          \* EVENT_THRESHOLD
          Motion, Switch,     \* what an interval after another costs, within a level or not
          NoPath
ASSUME IntervalAssumption == Quickest \in Nat \ {0} /\ Slowest \in Nat /\ Quickest <= Slowest

\* The n-th of a set of times.
Rising(S) == [n \in 1..Cardinality(S) |-> CHOOSE x \in S : Cardinality({y \in S : y < x}) = n - 1]
Every2(times, phase) == {times[n] : n \in {k \in DOMAIN times : k % 2 = 1 - phase}}

\* Half time keeps one phase of the beats; the others become candidates, where none is.
select_metrical_level(beats, candidates, half) ==
    IF half = "none" THEN [beats |-> beats, candidates |-> candidates]
    ELSE LET kept == Every2(Rising(DOMAIN beats), IF half = "even" THEN 0 ELSE 1)
         IN  [beats |-> Restrict(beats, kept), candidates |-> candidates @@ Restrict(beats, DOMAIN beats \ kept)]

\* The median interval divided by 2^level is one the tempo range has.
sequence_bpm_is_in_range(times, level) ==
    LET gaps == [n \in 1..Len(times) - 1 |-> times[n + 1] - times[n]]
        ranked == SortSeq(gaps, <)
        middle == Len(gaps) \div 2
        twice == IF Len(gaps) % 2 = 0 THEN ranked[middle] + ranked[middle + 1] ELSE 2 * ranked[middle + 1]
    IN  IF level = -1 THEN Quickest <= twice /\ twice <= Slowest
        ELSE 4 * Quickest <= twice /\ twice <= 4 * Slowest

\* The addition to a gap: of the candidates within a fifth of its middle the most confident,
\* then the nearest to the middle, then the latest.
addition(a, b, candidates) ==
    LET Far(t) == IF 2 * t > a + b THEN 2 * t - a - b ELSE a + b - 2 * t
        near == {t \in DOMAIN candidates : a < t /\ t < b /\ 5 * Far(t) <= 2 * (b - a)}
        Above(t, u) ==
            \/ candidates[t].confidence > candidates[u].confidence
            \/ /\ candidates[t].confidence = candidates[u].confidence
               /\ Far(t) < Far(u) \/ (Far(t) = Far(u) /\ t >= u)
    IN  {t \in near : \A u \in near : Above(t, u)}

-----------------------------------------------------------------------------
\* The path. A state is its last two candidates; of equal scores the first found stays.
event_score(candidate) == candidate.confidence + candidate.support - EventCost
turn_cost(before, after) == IF Motion[before][after] <= Switch[before][after] THEN Motion[before][after] ELSE Switch[before][after]
InTempo(gap) == Quickest <= gap /\ gap <= Slowest
Unreached == [reached |-> FALSE, score |-> 0, back |-> 0]
Surpasses2(score, than) == ~than.reached \/ score > than.score

\* Mutant: a step is charged for its own interval only.
extend_forgetful(at, value, times, p, c) ==
    LET Take(best, q) ==
            LET before == at[<<q, p>>]
                score == before.score + value[c] - turn_cost(times[c] - times[p], times[c] - times[p])
            IN  IF before.reached /\ Surpasses2(score, best) THEN [reached |-> TRUE, score |-> score, back |-> q] ELSE best
        first == IF times[p] <= Slowest THEN [reached |-> TRUE, score |-> value[p] + value[c], back |-> 0] ELSE Unreached
    IN  IF InTempo(times[c] - times[p]) THEN FoldLeft(Take, first, [q \in 1..p - 1 |-> q]) ELSE Unreached
extend(at, value, times, p, c) ==
    LET Take(best, q) ==
            LET before == at[<<q, p>>]
                score == before.score + value[c] - turn_cost(times[p] - times[q], times[c] - times[p])
            IN  IF before.reached /\ Surpasses2(score, best) THEN [reached |-> TRUE, score |-> score, back |-> q] ELSE best
        first == IF times[p] <= Slowest THEN [reached |-> TRUE, score |-> value[p] + value[c], back |-> 0] ELSE Unreached
    IN  IF InTempo(times[c] - times[p]) THEN FoldLeft(Take, first, [q \in 1..p - 1 |-> q]) ELSE Unreached
path_table(times, value) ==
    FoldLeft(LAMBDA at, c : at @@ [s \in (1..c - 1) \X {c} |-> extend(at, value, times, s[1], c)],
             <<>>, [c \in DOMAIN times |-> c])

best_local_metrical_path_indices(times, at, duration) ==
    LET terminal == {s \in DOMAIN at : at[s].reached /\ times[s[2]] >= duration - Slowest}
        Before(s, t) == s[1] < t[1] \/ (s[1] = t[1] /\ s[2] < t[2])
        best == CHOOSE s \in terminal : \A t \in terminal :
                    at[s].score > at[t].score \/ (at[s].score = at[t].score /\ (s = t \/ Before(s, t)))
        trace[s \in DOMAIN at] == IF at[s].back = 0 THEN s ELSE Append(trace[<<at[s].back, s[1]>>], s[2])
    IN  IF terminal = {} THEN NoPath ELSE trace[best]

\* beats and candidates are those of the source: after the silences, before half time.
locally_varying_metrical_path(beats, candidates, harmonics, duration) ==
    LET times == Rising(DOMAIN candidates)
        value == [c \in DOMAIN times |-> event_score(candidates[times[c]])]
        path == best_local_metrical_path_indices(times, path_table(times, value), duration)
        events == [n \in DOMAIN path |-> times[path[n]]]
    IN  IF \/ Len(times) < FewestEvents \/ harmonics < Len(times) \div 2
           \/ path = NoPath
        THEN NoPath
        ELSE IF Len(path) < FewestEvents \/ events = Rising(DOMAIN beats) THEN NoPath ELSE events

-----------------------------------------------------------------------------
\* Two fingers that walk along both sequences.
common_hypothesis_times(left, right) ==
    LET Step(at, n) ==
            IF at.l > Len(left) \/ at.r > Len(right) THEN at
            ELSE IF left[at.l] = right[at.r]
                 THEN [l |-> at.l + 1, r |-> at.r + 1, common |-> Append(at.common, left[at.l])]
                 ELSE IF left[at.l] < right[at.r] THEN [at EXCEPT !.l = @ + 1] ELSE [at EXCEPT !.r = @ + 1]
    IN  FoldLeft(Step, [l |-> 1, r |-> 1, common |-> <<>>], [n \in 1..Len(left) + Len(right) |-> n]).common
unsupported_hypothesis_time_count(source, other, span) ==
    Cardinality({t \in Range(source) \ Range(other) :
                    /\ t > span.start \/ (~span.left_anchored /\ t >= span.start)
                    /\ t < span.end \/ (~span.right_anchored /\ t <= span.end)})
Bounds(anchors, duration) ==
    LET Between(a, b, left, right) == [start |-> a, end |-> b, left_anchored |-> left, right_anchored |-> right]
        last == Len(anchors)
    IN  IF anchors = <<>> THEN <<Between(0, duration, FALSE, FALSE)>>
        ELSE <<Between(0, anchors[1], FALSE, TRUE)>>
             \o [n \in 1..last - 1 |-> Between(anchors[n], anchors[n + 1], TRUE, TRUE)]
             \o <<Between(anchors[last], duration, TRUE, FALSE)>>
disagreement_regions_between(selected, alternative, duration) ==
    LET bounds == Bounds(common_hypothesis_times(selected, alternative), duration)
        Region(n) == [span |-> bounds[n],
                      primary_only |-> unsupported_hypothesis_time_count(selected, alternative, bounds[n]),
                      alternative_only |-> unsupported_hypothesis_time_count(alternative, selected, bounds[n])]
    IN  SelectSeq([n \in DOMAIN bounds |-> Region(n)], LAMBDA r : r.primary_only # 0 \/ r.alternative_only # 0)

-----------------------------------------------------------------------------
beat_sequence_hypotheses(prepared, path) ==
    LET selected == Rising(DOMAIN prepared.beats)
        additions == UNION {addition(selected[n], selected[n + 1], prepared.candidates) : n \in 1..Len(selected) - 1}
        Also(kind, possible, S) == IF possible THEN <<[kind |-> kind, times |-> Rising(S)]>> ELSE <<>>
        halves == Len(selected) >= FewestEvents /\ sequence_bpm_is_in_range(selected, -1)
    IN  IF selected = <<>> THEN <<>>
        ELSE <<[kind |-> "selected", times |-> selected]>> \o
             IF Len(selected) < 3 THEN <<>>
             ELSE Also("half_time_0", halves, Every2(selected, 0)) \o Also("half_time_1", halves, Every2(selected, 1))
                  \o Also("double_time", Cardinality(additions) >= FewestAdditions
                                         /\ sequence_bpm_is_in_range(selected, 1), Range(selected) \cup additions)
                  \o IF path = NoPath THEN <<>> ELSE <<[kind |-> "locally_varying", times |-> path]>>
metrical_ambiguity_regions(hypotheses, duration) ==
    LET path == SelectSeq(hypotheses, LAMBDA h : h.kind = "locally_varying")
    IN  IF hypotheses = <<>> \/ path = <<>> THEN <<>>
        ELSE disagreement_regions_between(hypotheses[1].times, path[1].times, duration)
===================================================================================
