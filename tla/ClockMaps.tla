------------------------------- MODULE ClockMaps -------------------------------
(***************************************************************************)
(* Supplied clocks with one change of period, the places where a           *)
(* recurrence is looked for on them, and the verdicts over a pair of       *)
(* windows (oracle_period_paired_audit, prehead_recurrence,                *)
(* musicfm_temporal).  Phases are in Grain-ths of a cycle and the times    *)
(* that come out of them in Grain-ths of a frame, so everything is exact.  *)
(***************************************************************************)
EXTENDS Integers, Sequences, FiniteSets

CONSTANTS FRAMES, Grain,
          MARGIN,      \* scores closer than this are a tie
          TickBudget,  \* a supplied clock has no more ticks: 128
          TooMany      \* what is returned instead of a clock that would have more

ASSUME FramesAssumption == FRAMES \in Nat
\* A frame has as many grains as every period of a supplied clock divides.
ASSUME GrainAssumption == Grain \in Nat \ {0} /\ \A period \in 2..4 : Grain % period = 0
ASSUME MarginAssumption == MARGIN \in Nat
ASSUME BudgetAssumption == TickBudget \in Nat

SHAPES == {"constant", "step"}
\* Twice the scale of each density: cycles of the clock per cycle that is looked for.
SCALES == [native |-> 2, half_zero |-> 4, half_one |-> 4, double |-> 1]
NAMES == SHAPES \X DOMAIN SCALES

phase_at(t, c) ==
    IF t <= c.boundary THEN ((t - c.anchor) * Grain) \div c.pre
    ELSE ((c.boundary - c.anchor) * Grain) \div c.pre + ((t - c.boundary) * Grain) \div c.post
time_at(phase, c) ==
    LET crossing == ((c.boundary - c.anchor) * Grain) \div c.pre
    IN  IF phase <= crossing THEN c.anchor * Grain + phase * c.pre
        ELSE c.boundary * Grain + (phase - crossing) * c.post

\* Mutant: the ticks up to the end of the window and one more.
clockPastTheEnd(c, start, end, scale2, offset) ==
    LET Up(a, b) == -((-a) \div b)
        ordinal(t) == Up(2 * (phase_at(t, c) - offset * Grain), scale2 * Grain)
    IN  IF ordinal(end) - ordinal(start) > TickBudget THEN TooMany
        ELSE {time_at(offset * Grain + (k * scale2 * Grain) \div 2, c) - start * Grain :
                k \in ordinal(start)..ordinal(end)}
\* The ticks of a clock in [start, end), from the beat the scale begins at, unless they are
\* beyond the budget. The periods and the scale are positive and the change lies
\* between start and end, as the code requires.
clock(c, start, end, scale2, offset) ==
    LET Up(a, b) == -((-a) \div b)
        ordinal(t) == Up(2 * (phase_at(t, c) - offset * Grain), scale2 * Grain)
    IN  IF ordinal(end) - ordinal(start) > TickBudget THEN TooMany
        ELSE {time_at(offset * Grain + (k * scale2 * Grain) \div 2, c) - start * Grain :
                k \in ordinal(start)..ordinal(end) - 1}

Shaped(c, shape) == IF shape = "constant" THEN [c EXCEPT !.post = c.pre] ELSE c
\* One cycle and half a cycle before every frame, for each of the eight clocks.
Back(name, t, c) ==
    LET own == Shaped(c, name[1])
        lag == (Grain * SCALES[name[2]]) \div 2
    IN  <<time_at(phase_at(t, own) - lag, own), time_at(phase_at(t, own) - lag \div 2, own)>>
query_plan(c) ==
    LET queries == [name \in NAMES |-> [t \in 0..FRAMES - 1 |-> Back(name, t, c)]]
        Inside(q) == 0 <= q /\ q <= (FRAMES - 1) * Grain
    IN  [queries |-> queries,
         targets |-> {t \in 0..FRAMES - 1 :
                        \A name \in NAMES : Inside(queries[name][t][1]) /\ Inside(queries[name][t][2])}]

\* What a window is scored on: the frames all clocks can be compared at. One vector of
\* length zero among all that are asked for rejects every clock; comparisons with frames
\* another chunk computed are counted, not repaired. silent and owner are those of a frame.
sample(q) == {q \div Grain} \cup (IF q % Grain = 0 THEN {} ELSE {q \div Grain + 1})
evaluate(silent, owner, c) ==
    LET plan == query_plan(c)
        Wanted(name, t) == {sample(plan.queries[name][t][k]) : k \in 1..2}
        Zero(frames) == frames \subseteq silent
        Crosses(name, t) ==
            \E q \in {plan.queries[name][t][1], plan.queries[name][t][2]} :
                owner[q \div Grain] # owner[t] \/ owner[-((-q) \div Grain)] # owner[t]
    IN  [status |->
           IF plan.targets = {} THEN "no_common_support"
           ELSE IF \E t \in plan.targets : Zero({t}) \/ \E name \in NAMES : \E f \in Wanted(name, t) : Zero(f)
           THEN "zero_norm_support" ELSE "eligible",
         excluded |-> FRAMES - Cardinality(plan.targets),
         before |-> Cardinality({t \in plan.targets : t < c.boundary}),
         after |-> Cardinality({t \in plan.targets : t >= c.boundary}),
         crossings |-> [name \in NAMES |-> Cardinality({t \in plan.targets : Crosses(name, t)})]]

-----------------------------------------------------------------------------
compare(a, b) == IF a - b > MARGIN THEN "left" ELSE IF b - a > MARGIN THEN "right" ELSE "unresolved"

\* The truth is applied after the scoring: in the constant window the constant clock has to
\* win, in the other one the step, in every phase.
verdict(windows) ==
    LET Correct(role) == <<IF role = "constant" THEN "constant" ELSE "step", "native">>
        Rival(role) == <<IF role = "constant" THEN "step" ELSE "constant", "native">>
        Phases == DOMAIN windows["constant"]
        WinsOver(role, i, name) == compare(windows[role][i].scores[Correct(role)], windows[role][i].scores[name]) = "left"
        Shape(i) == \A role \in {"constant", "change"} : WinsOver(role, i, Rival(role))
        Density(i) == \A role \in {"constant", "change"} : \A name \in NAMES \ {Correct(role)} : WinsOver(role, i, name)
    IN  IF \E role \in {"constant", "change"}, i \in Phases : windows[role][i].status # "eligible"
        THEN [status |-> "pair_rejected", shape |-> FALSE, density |-> FALSE]
        ELSE [status |-> "eligible", shape |-> \A i \in Phases : Shape(i), density |-> \A i \in Phases : Density(i)]

=============================================================================
