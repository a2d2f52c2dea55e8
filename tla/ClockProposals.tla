---------------------------- MODULE ClockProposals ----------------------------
(***************************************************************************)
(* The clocks proposed for a query of a recording from its raw events      *)
(* (clock_proposals), the matching of predicted and reference events, and  *)
(* the labels read off it (clock_phase_evidence,                           *)
(* clock_proposal_diagnosis).  Times are in quarters of the unit the       *)
(* events lie on, phases in Cycle-ths of a cycle: every interpolation      *)
(* below is exact and the numerical tolerance EPS is nothing.              *)
(***************************************************************************)
EXTENDS Integers, Sequences, FiniteSets, SequencesExt, TLC

CONSTANTS HALO, CAP, MAX_INTERVALS,
          Span, Advance,   \* how long the queries are, and how far apart
          Cycle,           \* units of phase in a cycle
          TOLERANCE        \* of the native grid

Abs(x) == IF x < 0 THEN -x ELSE x
Sorted(S) == [i \in 1..Cardinality(S) |-> CHOOSE x \in S : Cardinality({y \in S : y < x}) = i - 1]
Lowest(S) == CHOOSE x \in S : \A y \in S : x <= y
Highest(S) == CHOOSE x \in S : \A y \in S : y <= x
Ceiling(a, b) == -((-a) \div b)

\* A clock is a sequence of knots <<time, phase>>: phase is continuous, its slope may step.
validate_clock(clock) ==
    /\ Len(clock) \in 2..MAX_INTERVALS + 3
    /\ \A i \in 2..Len(clock) : clock[i - 1][1] < clock[i][1] /\ clock[i - 1][2] < clock[i][2]
Piece(clock, column, value) ==
    Highest({1} \cup {i \in 1..Len(clock) - 1 : clock[i][column] <= value})
phase(clock, time) ==
    LET i == Piece(clock, 1, time)
        a == clock[i]
        b == clock[i + 1]
    IN  a[2] + ((time - a[1]) * (b[2] - a[2])) \div (b[1] - a[1])

\* Two clocks are one when they differ by whole cycles everywhere.
equivalent(a, b) ==
    LET apart(t) == phase(a, t) - phase(b, t)
        points == {a[i][1] : i \in DOMAIN a} \cup {b[i][1] : i \in DOMAIN b}
    IN  /\ a[1][1] = b[1][1] /\ a[Len(a)][1] = b[Len(b)][1]
        /\ apart(a[1][1]) % Cycle = 0
        /\ \A t \in points : apart(t) = apart(a[1][1])
bounded_set(clocks) ==
    LET unique == FoldLeft(LAMBDA kept, c : IF \E i \in DOMAIN kept : equivalent(c, kept[i])
                                            THEN kept ELSE Append(kept, c), <<>>, clocks)
    IN  [status |-> IF Len(unique) > CAP THEN "overflow" ELSE "ready",
         clocks |-> IF Len(unique) > CAP THEN <<>> ELSE unique]

query_grid(duration) ==
    LET more == IF duration <= Span THEN 0 ELSE Ceiling(duration - Span, Advance)
    IN  [i \in 1..more + 1 |-> <<(i - 1) * Advance,
            IF (i - 1) * Advance + Span <= duration THEN (i - 1) * Advance + Span ELSE duration>>]

\* Twice the median interval: the mean of the two middle ones when they are even in number.
TwiceMedian(gaps) ==
    LET s == SortSeq(gaps, <)
    IN  s[(Len(s) + 1) \div 2] + s[Len(s) \div 2 + 1]
Scaled(clock, scale, shift) ==
    [i \in DOMAIN clock |-> <<clock[i][1], (clock[i][2] * scale) \div 2 + shift>>]

\* What is proposed: the clock of the events and the clock of their median interval,
\* each as it is, at half rate from either beat, and at double rate.
Proposed(times, start, end, left, right) ==
    LET a == Highest({left, times[1], start - HALO})
        b == Lowest({right, times[Len(times)], end + HALO})
        used == {i \in 1..Len(times) - 1 : times[i] < b /\ times[i + 1] > a}
        kept == Lowest(used)..Highest(used) + 1
        event_clock == [i \in 1..Cardinality(kept) |->
                           <<times[i + Lowest(used) - 1], (i + Lowest(used) - 2) * Cycle>>]
        inside == Sorted({i \in DOMAIN times : a < times[i] /\ times[i] < b})
        cropped == <<<<a, phase(event_clock, a)>>>>
                     \o [i \in DOMAIN inside |-> <<times[inside[i]], (inside[i] - 1) * Cycle>>]
                     \o <<<<b, phase(event_clock, b)>>>>
        gaps == Sorted(used)
        period2 == TwiceMedian([i \in DOMAIN gaps |-> times[gaps[i] + 1] - times[gaps[i]]])
        Off(i) == Abs(2 * times[i] - start - end)
        anchor == Lowest({i \in kept : \A j \in kept : Off(i) <= Off(j)})
        constant == [i \in 1..2 |-> LET t == IF i = 1 THEN a ELSE b
                                    IN  <<t, (anchor - 1) * Cycle + (2 * Cycle * (t - times[anchor])) \div period2>>]
        Family(base) == <<base, Scaled(base, 1, 0), Scaled(base, 1, Cycle \div 2), Scaled(base, 4, 0)>>
    IN  IF Cardinality(used) > MAX_INTERVALS THEN [status |-> "observation_budget_exceeded", clocks |-> <<>>]
        ELSE bounded_set(Family(constant) \o Family(cropped))

generate(events, spans, query) ==
    LET around == {s \in spans : s[1] <= query[1] /\ query[2] <= s[2]}
        span == CHOOSE s \in around : TRUE
        times == Sorted({t \in events : span[1] <= t /\ t <= span[2]})
        Without(why) == [status |-> why, clocks |-> <<>>]
    IN  IF around = {} THEN Without("invalid_query_support")
        ELSE IF Len(times) < 2 THEN Without("empty")
        ELSE IF times[1] > query[1] \/ times[Len(times)] < query[2] THEN Without("unbracketed_query")
        ELSE Proposed(times, query[1], query[2], span[1], span[2])

\* Mutant: a tick at the start of the query belongs to the query before it.
TicksAfter(clock, start, end) ==
    (phase(clock, start) \div Cycle + 1)..Ceiling(phase(clock, end), Cycle) - 1
TicksFrom(clock, start, end) ==
    Ceiling(phase(clock, start), Cycle)..Ceiling(phase(clock, end), Cycle) - 1
ticks(clock, query) ==
    LET At(cycle) == LET i == Piece(clock, 2, cycle * Cycle)
                         a == clock[i]
                         b == clock[i + 1]
                     IN  a[1] + ((cycle * Cycle - a[2]) * (b[1] - a[1])) \div (b[2] - a[2])
        times == {At(c) : c \in TicksFrom(clock, query[1], query[2])}
    IN  Sorted({t \in times : query[1] <= t /\ t < query[2]})

within(values, query) == Sorted({t \in values : query[1] <= t /\ t < query[2]})

reference_check(clocks, query, reference) ==
    LET truth == within(reference, query)
        Fits(c) == LET p == ticks(c, query)
                   IN  Len(p) = Len(truth) /\ \A i \in DOMAIN p : Abs(p[i] - truth[i]) <= TOLERANCE
    IN  IF reference = {} \/ Lowest(reference) > query[1] \/ Highest(reference) < query[2] \/ Len(truth) < 2
        THEN "reference_unavailable"
        ELSE IF \E i \in DOMAIN clocks : Fits(clocks[i]) THEN "native_grid_covered" ELSE "native_grid_missed"

-----------------------------------------------------------------------------
\* Chronological one-to-one matching: the earlier of two that do not match is given up.
\* Mutant: the later one is.
MatchOrSkipLater(i, j, predicted, reference, tolerance) ==
    IF Abs(predicted[i] - reference[j]) <= tolerance THEN <<i + 1, j + 1, {<<i, j>>}>>
    ELSE IF predicted[i] > reference[j] THEN <<i + 1, j, {}>>
    ELSE <<i, j + 1, {}>>
MatchOrSkip(i, j, predicted, reference, tolerance) ==
    IF Abs(predicted[i] - reference[j]) <= tolerance THEN <<i + 1, j + 1, {<<i, j>>}>>
    ELSE IF predicted[i] < reference[j] THEN <<i + 1, j, {}>>
    ELSE <<i, j + 1, {}>>
matches(predicted, reference, tolerance) ==
    LET Step(at, n) ==
            IF at[1] > Len(predicted) \/ at[2] > Len(reference) THEN at
            ELSE LET next == MatchOrSkip(at[1], at[2], predicted, reference, tolerance)
                 IN  <<next[1], next[2], at[3] \cup next[3]>>
    IN  FoldLeft(Step, <<1, 1, {}>>, [n \in 1..Len(predicted) + Len(reference) |-> n])[3]

\* What two neighbouring raw events say of the truth between them.
label_case(raw, truth, tolerance) ==
    LET pairs == matches(raw, truth, tolerance)
        Anchor(i) == (CHOOSE p \in pairs : p[1] = i)[2]
        matched == {p[1] : p \in pairs}
    IN  [i \in 1..Len(raw) - 1 |->
            IF ~{i, i + 1} \subseteq matched THEN "unmatched_anchor"
            ELSE LET by == Anchor(i + 1) - Anchor(i)
                 IN  IF by = 1 THEN "one_beat" ELSE IF by = 2 THEN "missing_one" ELSE "missing_multiple"]

\* Events of the query that stay alone, when the halo around it may match across its edges.
boundary_inventory(predicted, reference, query) ==
    LET pairs == matches(predicted, reference, TOLERANCE)
        Owned(t) == query[1] <= t /\ t < query[2]
    IN  [missing |-> {j \in DOMAIN reference : Owned(reference[j]) /\ ~\E p \in pairs : p[2] = j},
         extra |-> {i \in DOMAIN predicted : Owned(predicted[i]) /\ ~\E p \in pairs : p[1] = i},
         crossings |-> {p \in pairs : Owned(predicted[p[1]]) # Owned(reference[p[2]])}]

\* Why a clock misses: the kinds exclude each other, the earlier ones come first.
candidate_diagnosis(clock, reference, query) ==
    LET original == ticks(clock, query)
        target == within(reference, query)
        same_count == Len(original) = Len(target)
        residuals == {original[i] - target[i] : i \in DOMAIN original}
        strict == same_count /\ \A r \in residuals : Abs(r) <= TOLERANCE
        halo == <<query[1] - TOLERANCE, query[2] + TOLERANCE>>
        supported == <<Highest({clock[1][1], halo[1]}), Lowest({clock[Len(clock)][1], halo[2]})>>
        boundary == boundary_inventory(ticks(clock, supported), within(reference, halo), query)
    IN  IF strict THEN "strict_match"
        ELSE IF boundary.crossings # {} /\ boundary.missing = {} /\ boundary.extra = {}
        THEN "query_boundary_only_witness"
        ELSE IF ~same_count THEN "count_mismatch"
        ELSE IF residuals # {} /\ Highest(residuals) - Lowest(residuals) <= 2 * TOLERANCE
        THEN "equal_count_offset_compatible"
        ELSE "equal_count_nonuniform_error"
diagnose(clocks, query, reference) ==
    LET old == reference_check(clocks, query, reference)
        kinds == {candidate_diagnosis(clocks[i], reference, query) : i \in DOMAIN clocks}
    IN  IF old = "reference_unavailable" THEN old
        ELSE IF old = "native_grid_covered" THEN "original_covered"
        ELSE IF kinds = {} THEN "no_candidates"
        ELSE IF "query_boundary_only_witness" \in kinds THEN "query_boundary_only_witness"
        ELSE IF "equal_count_offset_compatible" \in kinds THEN "equal_count_offset_compatible"
        ELSE IF "equal_count_nonuniform_error" \in kinds THEN "equal_count_nonuniform_error"
        ELSE "no_count_matched_candidate"

=============================================================================
