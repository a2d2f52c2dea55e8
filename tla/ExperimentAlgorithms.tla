-------------------------- MODULE ExperimentAlgorithms --------------------------
(***************************************************************************)
(* The computations the product and its experiments rest on, each asked a  *)
(* bounded set of problems and compared with what it is meant to compute.  *)
(***************************************************************************)
EXTENDS ChunkGeometry, ClockInference, ClockProposals, ClockGates, CountProtection,
        ClockMaps, ResponsePackets, Downbeats, BeatHypotheses, TempoOutline

CONSTANTS
    None,          \* no answer yet
    Lengths,       \* of recordings, in frames, samples and readout frames
    Evidences,     \* windows of evidence
    MaxStates,     \* what an inference may build before it is refused
    Duration,      \* of the recordings proposals are made for; events at multiples of 4
    Gap,           \* the longest silence between two events
    Steps3,        \* values a parameter may move by
    Counts3,       \* values of a gradient of the count
    Rates,         \* errors of a measured cell
    Scored,        \* scores of a clock on a window
    TickSites,     \* frames a tick may stand on
    HeardSites,    \* where a response may be, in parts of a frame
    Logits,        \* beat logits of a capture
    Downs,         \* its downbeat logits
    Motifs,        \* what the beat logits of a longer capture repeat
    BeatGaps,      \* between two annotated beats, in parts of a frame
    Windows,       \* windows of a longer capture
    CandidateSets, \* beats the backend labelled as downbeats, of a recording of
    LabelledBeats, \* so many beats
    Sites,         \* times of candidates in a recording of
    SiteSpan,      \* such a duration
    SourceBeats,   \* beats of the backend in it
    Heard,         \* where a harmonic change is heard, and with what weight
    Tempi          \* tempi of the intervals of a recording

ASSUME LengthsAssumption == Lengths \subseteq Nat
ASSUME VectorAssumption == Places \subseteq Int /\ Steps3 \subseteq Int /\ Counts3 \subseteq Int
ASSUME ScoresAssumption == Scored \subseteq Int /\ Rates \subseteq Int \cup {Absent}
ASSUME LabellingAssumption == LabelledBeats \in Nat

VARIABLES problem, answer
vars == <<problem, answer>>

Asked(kind) == problem.of = kind /\ answer = None
Answered(kind) == problem.of = kind /\ answer # None
Set(s) == {s[i] : i \in DOMAIN s}

-----------------------------------------------------------------------------
\* The problems.
Pieced == {[of |-> "pieces", length |-> n] : n \in Lengths}
Inferred == {[of |-> "inference", evidence |-> e, boundary |-> b] : e \in Evidences, b \in {"fresh", "stationary"}}

Gapped(E) == \A x \in E : x = Highest(E) \/ \E y \in E : y > x /\ y - x <= Gap
Beats == {4 * i : i \in 0..Duration \div 4}
Supports == {{<<0, Duration>>}, {<<4, Duration - 4>>}, {<<0, 8>>, <<12, Duration>>}}
Events == {E \in SUBSET Beats : E = {} \/ Gapped(E)}
Queries == LET grid == query_grid(Duration) IN Set(grid)
Tracked ==
    {p \in [of : {"proposals"}, events : Events, spans : Supports, query : Queries] :
        \A e \in p.events : \E s \in p.spans : s[1] <= e /\ e <= s[2]}
Matched ==
    [of : {"matching"}, predicted : SUBSET (0..4), reference : SUBSET (0..4), tolerance : 0..2]

Vectors(V) == [Places -> V]
Protected == [of : {"protection"}, count : Vectors(Counts3), before : {[n \in Places |-> n]},
              step : Vectors(Steps3)]
Routed == [of : {"routing"}, phases : [1..2 -> Vectors({-1, 2})], counts : [1..2 -> Vectors({0, 1})],
           weights : {<<1, 1>>, <<1, 2>>}]

Measured == [of : {"measure"}, valid : [1..4 -> BOOLEAN], rate : [1..3 -> Rates], phase : [1..4 -> {1, Absent}]]
Kinds == {"audio", "zero", "audio_common", "zero_common", "parent", "reversed"} \cup Baselines
Good(kind) == CASE kind \in {"audio", "audio_common"} -> 9 [] OTHER -> 10
Cells == {<<i, kind, key>> : i \in 1..4, kind \in Kinds, key \in Keys}
Compared == [of : {"gates"}, cell : {c \in Cells : c[1] \in {1, 3}}, value : {Absent, 8, 10, 11}, other : Cells, lower : {Absent, 8}]
Table(p) ==
    [i \in 1..4 |->
        [f \in Kinds \cup {"role"} |->
            IF f = "role" THEN IF i < 3 THEN "development" ELSE "diagnostic"
            ELSE [key \in Keys |-> IF p.cell = <<i, f, key>> THEN p.value ELSE Good(f)]]]
Changed(rows, cell, value) == [rows EXCEPT ![cell[1]][cell[2]][cell[3]] = value]

Clocked ==
    [of : {"maps"}, clock : [pre : 2..4, post : 2..4, boundary : 4..8, anchor : 0..2],
     silent : {{}, {5}, {6}, {5, 6}}, seam : {0, 6}]
Owner(p) == [t \in 0..FRAMES - 1 |-> IF t < p.seam THEN 0 ELSE 1]
Native == {<<shape, "native">> : shape \in SHAPES}
Windowed ==
    [of : {"verdict"}, constant : [Native -> Scored], change : [Native -> Scored],
     rest : Scored, status : {"eligible", "no_common_support"}]
Window(p, role) ==
    <<[status |-> IF role = "change" THEN p.status ELSE "eligible",
       scores |-> [name \in NAMES |-> IF name \in Native THEN p[role][name] ELSE p.rest]]>>

Ledgers == [of : {"ledger"}, ticked : SUBSET TickSites, heard : SUBSET HeardSites, missing : {{}, {5, 6}}]
Supplied == {p \in [of : {"clock"}, period : 1..4, start : 0..3, change : 2..6, then : 1..4] : p.start < p.period}
Readings == [up : BOOLEAN, closed : BOOLEAN]
Decoded == [of : {"decoder"}, logits : Logits, downs : Downs, reading : Readings]
Repeated(motif, n) == [i \in 0..n - 1 |-> motif[(i % Len(motif)) + 1]]
Captures == [of : {"windows"}, motif : Motifs, prefix : [1..3 -> BeatGaps], gap : BeatGaps, beats : {8, 13}]
AnnotatedBeats(p) == [k \in 1..p.beats |-> FoldFunctionOnSet(+, 0, p.prefix, 1..Min({k - 1, 3}))
                                            + (IF k > 4 THEN (k - 4) * p.gap ELSE 0)]

Labelling == {[of |-> "downbeats", labels |-> [b \in 0..LabelledBeats - 1 |-> IF b \in S THEN b ELSE Unlabelled]] :
                S \in CandidateSets}
Interpreted ==
    {p \in [of : {"hypotheses"}, candidates : {S \in SUBSET Sites : Cardinality(S) >= 3}, heard : Heard,
             beats : SourceBeats, half : {"none", "even", "odd"}, harmonics : {1, 4}] :
        /\ p.half # "none" => Cardinality(p.beats) >= FewestEvents
        /\ p.harmonics = 1 => Cardinality(p.beats) < FewestEvents}
Evidence(p) ==
    [t \in Sites |-> IF t \in p.heard.at THEN [confidence |-> 18, support |-> p.heard.weight]
                                         ELSE [confidence |-> 10, support |-> 0]]
Outlined == [of : {"outline"}, tempi : Tempi]
RecordingEnd(tempi) == FoldLeft(LAMBDA t, bpm : t + Minute \div bpm, 0, tempi) + Minute \div 300

Init ==
    /\ answer = None
    /\ \/ problem \in Interpreted \/ problem \in Pieced \/ problem \in Inferred
       \/ problem \in Tracked \/ problem \in Matched \/ problem \in Protected
       \/ problem \in Routed \/ problem \in Measured \/ problem \in Compared
       \/ problem \in Clocked \/ problem \in Windowed \/ problem \in Labelling
       \/ problem \in Outlined \/ problem \in Supplied \/ problem \in Ledgers
       \/ problem \in Decoded \/ problem \in Captures

-----------------------------------------------------------------------------
\* One action for each computation.
Answer(kind, value) ==
    /\ Asked(kind)
    /\ answer' = value
    /\ UNCHANGED problem

Rebuilt(n) == [captured |-> Captured(n), contextual |-> Contextual(TokenSamples + n), predicted |-> predict(n),
             sizes |-> [i \in DOMAIN layout(n) |-> layout(n)[i].size]]
CutAndJoin == Answer("pieces", Rebuilt(problem.length))
Infer == Answer("inference", infer(problem.evidence, problem.boundary, MaxStates))
Propose == Answer("proposals", generate(problem.events, problem.spans, problem.query))
Match ==
    LET predicted == Sorted(problem.predicted)
        reference == Sorted(problem.reference)
    IN  Answer("matching", [pairs |-> matches(predicted, reference, problem.tolerance),
                            cases |-> label_case(predicted, reference, problem.tolerance)])
Protect ==
    Answer("protection", protect(problem.count, problem.before,
                                 [n \in Places |-> problem.before[n] + problem.step[n]]))
Route == Answer("routing", route_batch(problem.phases, problem.counts, problem.weights))
Measure == Answer("measure", measure([rate |-> problem.rate, phase |-> problem.phase], problem.valid))
Gate ==
    LET rows == Table(problem)
        Pass(t) == comparison_gate(t, {"parent"}, {"reversed"})
    IN  Answer("gates", [passed |-> Pass(rows), again |-> Pass(Changed(rows, problem.other, problem.lower))])
Evaluate ==
    Answer("maps", [plan |-> query_plan(problem.clock),
                    window |-> evaluate(problem.silent, Owner(problem), problem.clock)])
Decide ==
    LET windowed == [role \in {"constant", "change"} |-> Window(problem, role)]
    IN  Answer("verdict", [given |-> verdict(windowed),
                           swapped |-> verdict([constant |-> windowed["change"], change |-> windowed["constant"]])])
Frames2 == 0..FRAMES - 1
Account ==
    LET ticked == [i \in 1..Cardinality(problem.ticked) |-> Fine * Ascending(problem.ticked)[i]]
        heard == Ascending(problem.heard)
        observed == Frames2 \ problem.missing
    IN  Answer("ledger", IF Accountable(FRAMES, observed, ticked, heard)
                         THEN ledger(FRAMES, observed, ticked, heard) ELSE NoMark)
Supply ==
    LET all == clock_ticks(FRAMES, problem.period, problem.start, problem.change :> problem.then)
    IN  Answer("clock", IF Len(all) > EventLimit THEN NoMark ELSE integer_ledger(FRAMES, Frames2, all, all))
Length2 == (Cardinality(DOMAIN problem.logits) * Fine) - Fine - Fine \div 2
Decode ==
    LET out == observations_from_frames(problem.logits, problem.downs, Length2, problem.reading)
        packets == assemble(problem.logits, problem.downs, Length2, out, problem.reading)
    IN  Answer("decoder", [out |-> out, packets |-> packets, inventory |-> summarize(packets)])
Residuals ==
    LET size == Windows * WINDOW + 1
        logits == Repeated(problem.motif, size)
        reading == [up |-> TRUE, closed |-> TRUE]
        out == observations_from_frames(logits, logits, size * Fine, reading)
        packets == assemble(logits, logits, size * Fine, out, reading)
    IN  Answer("windows", [packets |-> packets, rows |-> audit_windows(packets, AnnotatedBeats(problem), size),
                           pair |-> analyze_pair(packets, AnnotatedBeats(problem), WINDOW, 2 * WINDOW)])
Relabel == Answer("downbeats", select_bar_level_downbeats(problem.labels))
Interpret ==
    LET beats == Restrict(Evidence(problem), problem.beats)
        candidates == Restrict(Evidence(problem), problem.candidates)
        path == locally_varying_metrical_path(beats, candidates, problem.harmonics, SiteSpan)
        hypotheses == beat_sequence_hypotheses(select_metrical_level(beats, candidates, problem.half), path)
    IN  Answer("hypotheses", [path |-> path, hypotheses |-> hypotheses,
                              regions |-> metrical_ambiguity_regions(hypotheses, SiteSpan)])
Outline ==
    LET curve == curve_points(problem.tempi)
        knots == simplify_curve(curve)
        segments == build_segments(curve, knots, RecordingEnd(problem.tempi))
    IN  Answer("outline", [curve |-> curve, knots |-> knots, segments |-> segments,
                           transitions |-> segment_transitions(segments),
                           changes |-> add_segment_transitions(segments), jumps |-> detect_jumps(curve)])

Next ==
    \/ CutAndJoin \/ Infer \/ Propose \/ Match \/ Protect \/ Route \/ Measure \/ Gate
    \/ Evaluate \/ Decide \/ Account \/ Supply \/ Decode \/ Residuals \/ Relabel \/ Interpret \/ Outline
Spec == Init /\ [][Next]_vars

-----------------------------------------------------------------------------
\* Cutting a recording, encoding the pieces and joining them gives what encoding the whole
\* would, for an encoder that reaches no further than the border: no frame is missing,
\* repeated or computed from the wrong side of a seam, for the pre-head captures, the
\* MusicFM contexts and the readout windows; and once a recording is longer than a chunk
\* the encoder sees full chunks only (prehead_capture, musicfm_temporal, clock_readout).
WholeFromPieces ==
    Answered("pieces") =>
        LET n == problem.length
        IN  /\ answer.captured = Whole(n, Border)
            /\ n > Stride => \A i \in DOMAIN answer.sizes : answer.sizes[i] = Chunk
            /\ answer.contextual = Whole(tokens(TokenSamples + n), HalfTokens)
            /\ answer.predicted = Whole(n, Halo)

\* The inference is exact: the mass is the sum of the scores of every path, the best tick
\* sequence attains the greatest of them, and the mass of a label, of a change of tempo or of
\* metre at a frame is that of the paths that have it there. Without evidence a stationary
\* clock ticks everywhere alike (presence_likelihood_audit and clock_boundary_audit, infer).
InferenceIsExact ==
    Answered("inference") /\ answer.status = "exact" =>
        LET window == problem.evidence
            paths == PathsOf(window, problem.boundary)
            Score(p) == score_path(window, problem.boundary, p)
            Carry(t, l) == {p \in paths : \E i \in DOMAIN p : p[i].frame = t /\ p[i].label = l}
            Change(t, field) == {p \in paths : \E i \in 2..Len(p) : p[i].frame = t /\ p[i][field] # p[i - 1][field]}
        IN  /\ answer.total = MapThenSumSet(Score, paths)
            /\ answer.best = Max({Score(p) : p \in paths})
            /\ answer.ticks \in paths /\ Supported(window, answer.ticks)
            /\ Score(answer.ticks) = answer.best
            /\ \A t \in DOMAIN answer.positions, l \in {0, 1, 2, Unavailable} :
                  answer.positions[t][l] = MapThenSumSet(Score, Carry(t, l))
            /\ \A t \in DOMAIN answer.positions :
                  /\ answer.tempo_change[t] = MapThenSumSet(Score, Change(t, "period"))
                  /\ answer.meter_change[t] = MapThenSumSet(Score, Change(t, "meter"))
            /\ problem.boundary = "stationary" /\ Set(window) = {Unavailable} =>
                  \A t \in DOMAIN answer.positions :
                    answer.positions[t][Unavailable] = answer.positions[0][Unavailable]

\* The clocks proposed are valid and reach over the query; one of them ticks exactly at the
\* events; the two half clocks share the ticks of theirs alternately; and what they tick in
\* the query depends on nothing but the events inside the halo and the next on either side.
\* So events that are themselves the reference are covered whenever they can be judged.
Near(E, query) ==
    LET before == {e \in E : e <= query[1] - HALO}
        after == {e \in E : e >= query[2] + HALO}
    IN  {e \in E : \/ e > query[1] - HALO /\ e < query[2] + HALO
                   \/ before # {} /\ e = Highest(before)
                   \/ after # {} /\ e = Lowest(after)}
TickSets(clocks, query) == {Set(ticks(clocks[i], query)) : i \in DOMAIN clocks}
ProposalsFollowEvents ==
    Answered("proposals") /\ answer.status = "ready" =>
        LET query == problem.query
            sets == TickSets(answer.clocks, query)
            own == {e \in problem.events : query[1] <= e /\ e < query[2]}
            Next2(x, y) == x < y /\ ~\E z \in own : x < z /\ z < y
            local == generate(Near(problem.events, query), problem.spans, query)
        IN  /\ \A i \in DOMAIN answer.clocks :
                  LET c == answer.clocks[i]
                  IN  validate_clock(c) /\ c[1][1] <= query[1] /\ c[Len(c)][1] >= query[2]
            /\ own \in sets
            /\ \E A, B \in sets :
                  /\ A \cup B = own /\ A \cap B = {}
                  /\ \A x, y \in own : Next2(x, y) => (x \in A) # (y \in A)
            /\ local.status = "ready" /\ TickSets(local.clocks, query) = sets
            /\ diagnose(answer.clocks, query, problem.events) \in {"reference_unavailable", "original_covered"}

\* However storing rounds the projection, no group of a protected update works against the
\* count, nor does the whole; a group that did not is left as proposed and one whose rounding
\* is adverse stays where it was. A routed batch keeps the whole count component of every
\* group, and the phase as it is where the two do not disagree.
CountNeverIncreases ==
    /\ Answered("protection") =>
        LET proposed == [n \in Places |-> problem.before[n] + problem.step[n]]
            Against(p, group) == exact_sign(problem.count, problem.before, p, group) > 0
        IN  /\ answer # {}
            /\ \A p \in answer :
                  /\ \A i \in DOMAIN GROUPS :
                        /\ ~Against(p, GROUPS[i])
                        /\ ~Against(proposed, GROUPS[i]) => \A n \in GROUPS[i] : p[n] = proposed[n]
                  /\ displacement_check(problem.count, problem.before, p).nonincrease # "no"
    /\ Answered("routing") =>
        /\ answer # Underflow
        /\ LET along == accumulate(problem.phases, problem.weights)
               kept == accumulate(problem.counts, problem.weights)
               Square(i) == dot(kept, kept, GROUPS[i])
           IN  \A i \in DOMAIN GROUPS :
                 /\ dot(answer[i], kept, GROUPS[i]) >= Square(i) * Square(i)
                 /\ dot(along, kept, GROUPS[i]) >= 0 /\ Square(i) # 0 =>
                      \A n \in GROUPS[i] : answer[i][n] = (kept[n] + along[n]) * Square(i)

\* A metric is there exactly when everything its reference requires is: every cell, point or
\* counting interval between valid points. No comparison passes while a required value of
\* any recording is missing, and an error of the fit that gets smaller never fails it.
Support(i, j) == \A k \in i..j : problem.valid[k]
GatesAreFair ==
    /\ Answered("measure") =>
        LET cells == {i \in 1..3 : Support(i, i + 1)}
            points == {i \in 1..4 : problem.valid[i]}
            spans == {i \in 1..4 - Lag : Support(i, i + Lag)}
            Known(S) == \A i \in S : problem.rate[i] # Absent
        IN  /\ answer.reference_intervals = Cardinality(spans)
            /\ answer.tempo # Absent <=> cells # {} /\ Known(cells)
            /\ answer.phase # Absent <=> points # {} /\ \A i \in points : problem.phase[i] # Absent
            /\ answer.count # Absent <=> spans # {} /\ Known(UNION {i..i + Lag - 1 : i \in spans})
    /\ Answered("gates") =>
        /\ problem.value = Absent => ~answer.passed
        /\ problem.lower = Absent => ~answer.again
        /\ problem.other[2] \in {"audio", "audio_common"} /\ problem.lower = 8 =>
              (answer.passed => answer.again)

\* Times and phases of a clock are each other's inverses on both sides of the change, its
\* ticks are in the window they are asked for, and where a recurrence is looked for does not
\* depend on the beat the phase is counted from: what is compared is in the window, heard and
\* in order, and no more comparisons are counted as crossing a seam than can. A verdict for a
\* pair of windows is never also given to the pair with its truth exchanged, nor for a density
\* where the shape is not supported (phase_at, time_at, clock, query_plan, evaluate, verdict).
ClockMapsAgree ==
    /\ Answered("maps") =>
        LET c == problem.clock
            plan == answer.plan
            moved == [c EXCEPT !.anchor = 0]
            Far(t) == \E name \in NAMES, k \in 1..2 : plan.queries[name][t][k] < problem.seam * Grain
        IN  /\ \A t \in 0..FRAMES : time_at(phase_at(t, c), c) = t * Grain
            /\ plan = query_plan(moved)
            /\ answer.window = evaluate(problem.silent, Owner(problem), moved)
            /\ \A scale2 \in {1, 2, 4} :
                  LET supplied == clock(c, c.anchor, FRAMES, scale2, 0)
                  IN  supplied # TooMany =>
                        \A tick \in supplied : tick >= 0 /\ tick < (FRAMES - c.anchor) * Grain
            /\ answer.window.status = "eligible" =>
                  /\ plan.targets \cap problem.silent = {}
                  /\ \A t \in plan.targets, name \in NAMES :
                        plan.queries[name][t][1] < plan.queries[name][t][2] /\ plan.queries[name][t][2] < t * Grain
            /\ \A name \in NAMES :
                  answer.window.crossings[name] <= Cardinality({t \in plan.targets : t >= problem.seam /\ Far(t)})
    /\ Answered("verdict") =>
        /\ answer.given.density => answer.given.shape
        /\ ~(answer.given.shape /\ answer.swapped.shape)
        /\ problem.status # "eligible" => ~answer.given.shape /\ ~answer.swapped.shape

\* What is compared is compared fairly: measurements and gates, and the clocks and verdicts
\* they are made of, as the two parts above say (measure, _gates, evaluate, verdict).
ComparisonsAreSound == GatesAreFair /\ ClockMapsAgree

\* The greedy matching of clocks is one to one, in order, and as large as any: as many pairs
\* as there are events that touch every pair that could have been made; an interval of two
\* matched events is labelled by how many reference events lie inside it
\* (clock_phase_evidence, matches, label_case).
GreedyIsLargest ==
    Answered("matching") =>
        LET p == Sorted(problem.predicted)
            r == Sorted(problem.reference)
            could == {e \in (DOMAIN p) \X (DOMAIN r) : Abs(p[e[1]] - r[e[2]]) <= problem.tolerance}
            Covers(S, T) == \A e \in could : e[1] \in S \/ e[2] \in T
        IN  /\ answer.pairs \subseteq could
            /\ \A a, b \in answer.pairs : a # b => (a[1] < b[1] /\ a[2] < b[2]) \/ (b[1] < a[1] /\ b[2] < a[2])
            /\ \E S \in SUBSET DOMAIN p, T \in SUBSET DOMAIN r :
                  Covers(S, T) /\ Cardinality(S) + Cardinality(T) = Cardinality(answer.pairs)
            /\ \A i \in DOMAIN answer.cases, a, b \in answer.pairs :
                  a[1] = i /\ b[1] = i + 1 =>
                    answer.cases[i] = CASE b[2] = a[2] + 1 -> "one_beat"
                                        [] b[2] = a[2] + 2 -> "missing_one"
                                        [] OTHER -> "missing_multiple"

\* The assignments of responses to ticks, those free to be made together.
Assignments(ticked, heard, Free(_, _)) ==
    LET Extend(found2, i) ==
            found2 \cup {a \cup {<<i, j>>} : a \in found2, j \in DOMAIN heard}
        Sound(a) == /\ \A e \in a : Offset(ticked[e[1]], heard[e[2]]) <= RADIUS * Fine
                    /\ \A e, f \in a : e[1] < f[1] => Free(e[2], f[2])
    IN  FoldLeft(LAMBDA found2, i : {a \in Extend(found2, i) : Sound(a)}, {{}}, [i \in DOMAIN ticked |-> i])

\* Matching by table is exact: the ledger's pairs, offset and number of optimal
\* assignments, and in how many each pair, tick and response stands, are those of the
\* chronological assignments written out; no assignment that crosses pairs better; its
\* witness is an optimum, and a response within reach of a tick no optimum pairs is paired in
\* all of them. A clock accounts for responses on its own ticks in one way
\* (rational_response_ledger, clock_response_ledger_audit).
MatchingIsExact ==
    /\ Answered("ledger") /\ answer # NoMark =>
        LET ticked == [i \in 1..Cardinality(problem.ticked) |-> Fine * Ascending(problem.ticked)[i]]
            heard == Ascending(problem.heard)
            all == Assignments(ticked, heard, LAMBDA j, k : j < k)
            crossing == Assignments(ticked, heard, LAMBDA j, k : j # k)
            Off(a) == MapThenSumSet(LAMBDA e : Offset(ticked[e[1]], heard[e[2]]), a)
            Better2(a, b) == Cardinality(a) > Cardinality(b) \/ (Cardinality(a) = Cardinality(b) /\ Off(a) < Off(b))
            optima == {a \in all : \A b \in all : ~Better2(b, a)}
            Count2(Has(_)) == Cardinality({a \in optima : Has(a)})
        IN  /\ answer.witness \in optima /\ answer.ways = Cardinality(optima)
            /\ answer.matched = Cardinality(answer.witness) /\ answer.distance = Off(answer.witness)
            /\ \A b \in crossing : ~Better2(b, answer.witness)
            /\ \A e \in DOMAIN answer.pair : answer.pair[e] = Count2(LAMBDA a : e \in a)
            /\ \A i \in DOMAIN ticked : answer.tick[i] = Count2(LAMBDA a : \E e \in a : e[1] = i)
            /\ \A j \in DOMAIN heard : answer.response[j] = Count2(LAMBDA a : \E e \in a : e[2] = j)
            /\ \A i \in DOMAIN ticked, j \in DOMAIN heard :
                  answer.tick[i] = 0 /\ Offset(ticked[i], heard[j]) <= RADIUS * Fine => answer.response[j] = answer.ways
    /\ Answered("clock") /\ answer # NoMark =>
        /\ answer.result.unmatched_ticks = 0 /\ answer.result.distance = 0 /\ answer.result.ways = 1
        /\ \A i \in DOMAIN answer.tick_status : answer.tick_status[i] = "matched_in_all_optima"

\* What the audits reconstruct is what the shipped decoder publishes, however its times are
\* rounded: merged peaks are at most two frames of one plateau, so a published beat carries
\* the logit of its peak; a frame is a candidate once; and the reason given for a candidate
\* without a beat is the true one (beat-this lib.rs, backend_response_packet_audit).
ReferenceIsDecoder ==
    Answered("decoder") =>
        LET groups == peak_groups(problem.logits)
            packets == answer.packets
            frames == DOMAIN problem.logits
        IN  /\ packets.valid /\ Len(packets.raw) = Len(answer.out.beats)
            /\ \A i \in DOMAIN groups : Cardinality(groups[i]) <= 2
            /\ \A i \in DOMAIN packets.raw :
                  /\ packets.raw[i].published.beat > Even
                  /\ \A f \in groups[i] : problem.logits[f] = packets.raw[i].published.beat
            /\ \A i, k \in DOMAIN packets.raw : i < k => packets.raw[k].at - packets.raw[i].at > MergeWidth * Fine
            /\ \A i, k \in DOMAIN packets.candidate : i < k => packets.candidate[i].frame + 1 < packets.candidate[k].frame
            /\ \A i \in DOMAIN packets.candidate :
                  LET p == packets.candidate[i]
                      higher == {f \in frames : problem.logits[f] > p.beat /\ f \in p.frame - RADIUS..p.frame + RADIUS}
                  IN  /\ answer.inventory.reasons[i] = "has_raw_lineage" <=>
                            \E k \in DOMAIN groups : groups[k] \subseteq packets.plateaus[p.plateau].support
                      /\ answer.inventory.reasons[i] = "radius_three_competition" => p.beat > Even /\ higher # {}
                      /\ answer.inventory.reasons[i] = "nonpositive_default_threshold" => p.beat <= Even

\* Windows lose no response and count none twice, in a capture or in a pair; a window whose
\* responses are all supported inside it is always accounted for; its clocks but the annotated
\* one follow from the four beats before it; and the cause given for a tick nothing pairs is
\* the true one (window_response_residual_audit, paired_response_replay_audit).
WindowsOwnResponses ==
    Answered("windows") =>
        LET Owned(rows, s) == [k \in DOMAIN rows |-> Len(rows[k].row.selected[s])]
            beats == AnnotatedBeats(problem)
            Evaluated(rows) == {k \in DOMAIN rows : rows[k].row.status = "eligible"}
        IN  /\ \A s \in SOURCES :
                  /\ MapThenSumSet(LAMBDA k : Owned(answer.rows, s)[k], DOMAIN answer.rows) = Len(answer.packets[s])
                  /\ Set(answer.pair.windows[1].row.selected[s]) \cap Set(answer.pair.windows[2].row.selected[s]) = {}
            /\ answer.pair.status = "eligible" <=> \A k \in {2, 3} : answer.rows[k].row.status = "eligible"
            /\ answer.pair.status = "eligible" => \A k \in {1, 2} : answer.pair.windows[k] = answer.rows[k + 1]
            /\ \A k \in Evaluated(answer.rows) :
                LET window2 == answer.rows[k]
                    row == window2.row
                    known == SelectSeq(beats, LAMBDA b : b < row.start * Fine)
                    blind == supplied_clocks(Append(known, (row.start + row.frames) * Fine), row.start * Fine,
                                             (row.start + row.frames) * Fine)
                IN  /\ \A s \in SOURCES, name \in CLOCKS :
                          LET result == window2.inventories[s][name].result
                          IN  /\ result # NoMark
                              /\ result.matched + result.unmatched_responses = Len(row.selected[s])
                              /\ \A t \in DOMAIN row.grids[name] :
                                    0 <= row.grids[name][t] /\ row.grids[name][t] < row.frames * Fine
                    /\ \A name \in CLOCKS \ {"annotated"} : blind.grids[name] = row.grids[name]
                    /\ Set(row.grids.half_phase_zero) \cap Set(row.grids.half_phase_one) = {}
                    /\ Set(row.grids.half_phase_zero) \cup Set(row.grids.half_phase_one) = Set(row.grids.continuation)
                    /\ Set(row.grids.continuation) \subseteq Set(row.grids.double)
                    /\ \A i \in DOMAIN window2.causes :
                          LET result == window2.inventories.candidate.annotated.result
                              heard == Within(row.selected.candidate, row.grids.annotated[i])
                          IN  window2.causes[i] = <<"competition">> =>
                                /\ heard # {}
                                /\ \A j \in heard : result.response[j] = result.ways

\* Selecting bar-level downbeats loses, copies and reorders no label that was not rejected
\* with its phase, and moves none by more than a beat; what is kept of a selected run is a
\* bar apart. Only the neighbours of a selected run move, to a bar from one of its labels;
\* they are a bar from it in the end unless it has moved itself, as the neighbour of the
\* next run (estimator.rs, select_bar_level_downbeats).
DownbeatsSurvive ==
    Answered("downbeats") =>
        LET candidates == candidates_of(problem.labels)
            OfRun(r) == {candidates[i] : i \in r[1]..r[2]}
        IN  \A o \in answer :
              LET kept == Labelled(o.kept)
                  At2(c) == CHOOSE b \in DOMAIN o.after : o.after[b] = c
                  Selected(r) == kept \cap OfRun(r)
                  Beside(r) == {candidates[i] : i \in {r[1] - 1, r[2] + 1} \cap DOMAIN candidates}
              IN  /\ Cardinality(Labelled(o.after)) = Cardinality(kept) /\ kept \subseteq Range(o.after)
                  /\ \A c, d \in kept : c < d => At2(c) < At2(d)
                  /\ \A r \in DOMAIN o.phases : \A c \in Selected(r) :
                        c + BAR <= Highest(OfRun(r)) => c + BAR \in kept /\ c + HALF_BAR \notin kept
                  /\ \A c \in kept : At2(c) # c =>
                        /\ At2(c) - c \in {-1, 1}
                        /\ \E r \in DOMAIN o.phases : c \in Beside(r) /\ \E a \in Selected(r) :
                              /\ At2(c) - a \in {-BAR, BAR}
                              /\ At2(a) # a \/ At2(c) - At2(a) \in {-BAR, BAR}

\* The locally varying path is a best one of all paths through the candidates. While the level
\* is as the backend gave it, it is missing only when a best one is too short or duplicates the
\* selected sequence, and is never published when it does; which paths are left out after half
\* time is what DuplicatesAreOmitted asks. Every interpretation rises and is made of the
\* backend's times, and half-time phases share out the selection. The regions between the
\* selection and the path are apart, in order, anchored exactly where both have a beat, and
\* contain each beat that only one of them has in exactly one of them; there are none exactly
\* when the two are the same (estimator.rs, beat_sequence_hypotheses,
\* metrical_ambiguity_regions).
TempoPaths(times) ==
    LET Longer(known, t) == known \cup {Append(q, t) : q \in {q \in known : InTempo(t - Last(q))}}
                                  \cup (IF t <= Slowest THEN {<<t>>} ELSE {})
    IN  {q \in FoldLeft(Longer, {}, times) : Len(q) >= 2 /\ Last(q) >= SiteSpan - Slowest}
PathScore(q, evidence) ==
    MapThenSumSet(LAMBDA n : event_score(evidence[q[n]]), DOMAIN q)
    - MapThenSumSet(LAMBDA n : turn_cost(q[n] - q[n - 1], q[n + 1] - q[n]), 2..Len(q) - 1)
\* The path is the sequence that was selected.
Duplicate(q) == answer.hypotheses # <<>> /\ q = answer.hypotheses[1].times
PathIsBest ==
    LET times == Rising(problem.candidates)
        Score2(q) == PathScore(q, Evidence(problem))
        paths == TempoPaths(times)
        greatest == {q \in paths : \A r \in paths : Score2(r) <= Score2(q)}
        Unfit(q) == Len(q) < FewestEvents \/ Duplicate(q)
    IN  /\ answer.path # NoPath => answer.path \in greatest /\ Len(answer.path) >= FewestEvents
        /\ answer.path = NoPath /\ problem.half = "none" =>
              \/ Len(times) < FewestEvents \/ problem.harmonics < Len(times) \div 2
              \/ greatest = {} \/ \E q \in greatest : Unfit(q)
RegionsAreTheDifference(selected, path) ==
    LET regions == answer.regions
        Inside(t, r) ==
            /\ t > r.span.start \/ (t = r.span.start /\ ~r.span.left_anchored)
            /\ t < r.span.end \/ (t = r.span.end /\ ~r.span.right_anchored)
        Only(S, T, Share(_)) ==
            /\ MapThenSumSet(LAMBDA n : Share(regions[n]), DOMAIN regions) = Cardinality(S \ T)
            /\ \A t \in S \ T : \E n \in DOMAIN regions : \A k \in DOMAIN regions : Inside(t, regions[k]) <=> k = n
    IN  /\ Only(selected, path, LAMBDA r : r.primary_only) /\ Only(path, selected, LAMBDA r : r.alternative_only)
        /\ \A n \in DOMAIN regions :
              LET span == regions[n].span
              IN  /\ IF span.left_anchored THEN span.start \in selected \cap path ELSE span.start = 0
                  /\ IF span.right_anchored THEN span.end \in selected \cap path ELSE span.end = SiteSpan
                  /\ \A t \in selected \cap path : ~Inside(t, regions[n])
                  /\ n > 1 => regions[n - 1].span.end <= span.start
AmbiguityIsExact ==
    Answered("hypotheses") =>
        LET Named(kind) == SelectSeq(answer.hypotheses, LAMBDA h : h.kind = kind)
            Times(kind) == UNION {Range(h.times) : h \in Range(Named(kind))}
            published == Named("locally_varying") # <<>>
        IN  /\ PathIsBest
            /\ \A h \in Range(answer.hypotheses) :
                  /\ \A n \in 2..Len(h.times) : h.times[n - 1] < h.times[n]
                  /\ Range(h.times) \subseteq problem.beats \cup problem.candidates
            /\ Named("half_time_0") # <<>> =>
                  /\ Times("half_time_0") \cup Times("half_time_1") = Times("selected")
                  /\ Times("half_time_0") \cap Times("half_time_1") = {}
            /\ Named("double_time") # <<>> => Times("selected") \subseteq Times("double_time")
            /\ IF published THEN /\ RegionsAreTheDifference(Times("selected"), Range(answer.path))
                                 /\ answer.regions = <<>> <=> Duplicate(answer.path)
                            ELSE answer.regions = <<>>
            /\ published /\ problem.half = "none" => ~Duplicate(answer.path)

\* The path "is omitted when it duplicates the selected sequence" (docs/ALGORITHM.md,
\* locally_varying_metrical_path). The code compares it with the beats before half time.
DuplicatesAreOmitted ==
    Answered("hypotheses") =>
        \A h \in Range(answer.hypotheses) : h.kind = "locally_varying" => ~Duplicate(h.times)

\* The outline follows the curve: segments tile the recording, every point is within the
\* tolerance of its segment, and a step between two level stretches is a segment of its own
\* and, three points before the end, a jump. Transitions are the longest groups of ramps with
\* no two constant segments and no long one between them, apart from one another; one is
\* left out only when the tempo after it is nearly that before it, and the changes come in
\* order inside the recording (estimator.rs, simplify_curve, segment_transitions).
OutlineFollowsCurve ==
    Answered("outline") =>
        LET curve == answer.curve
            knots == answer.knots
            segments == answer.segments
            count == Len(segments)
            end == RecordingEnd(problem.tempi)
            Level(n) == {n, n + 1} \subseteq DOMAIN curve /\ curve[n].bpm = curve[n + 1].bpm
            Short(s) == (segments[s].end - segments[s].start) * (segments[s].from + segments[s].to) < 2 * Minute * BridgeBeats
            Group(a, b) ==
                /\ Ramp(segments, a) /\ Ramp(segments, b)
                /\ \A s \in a..b : Ramp(segments, s) \/ (Short(s) /\ Ramp(segments, s + 1))
            groups == {g \in (1..count) \X (1..count) : g[1] <= g[2] /\ Group(g[1], g[2])}
            longest == {g \in groups : \A h \in groups : h[1] <= g[1] /\ g[2] <= h[2] => h = g}
            reported == Range(answer.transitions)
        IN  /\ segments[1].start = 0 /\ segments[count].end = end
            /\ \A s \in 1..count : segments[s].start < segments[s].end /\ (s > 1 => segments[s - 1].end = segments[s].start)
            /\ \A k \in 1..Len(knots) - 1 : \A n \in knots[k]..knots[k + 1] :
                  deviation(curve, knots[k], knots[k + 1], n) <= CurveTolerance * (curve[knots[k + 1]].time - curve[knots[k]].time)
            /\ \A n \in 2..Len(curve) - 1 :
                  Level(n - 1) /\ Level(n + 1) /\ AtLeast(JumpRatio, curve[n].bpm, curve[n + 1].bpm) =>
                    /\ {n, n + 1} \subseteq Range(knots)
                    /\ n + 3 <= Len(curve) => \E j \in Range(answer.jumps) : j.time = curve[n + 1].time
            /\ reported = {g \in longest : AtLeast(JumpRatio, before_bpm(segments, g), after_bpm(segments, g))}
            /\ \A g, h \in longest : g = h \/ g[2] + 1 < h[1] \/ h[2] + 1 < g[1]
            /\ \A i \in DOMAIN answer.changes :
                  /\ 0 < answer.changes[i].time /\ answer.changes[i].time < end
                  /\ i > 1 => answer.changes[i - 1].time < answer.changes[i].time
=============================================================================
