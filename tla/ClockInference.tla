---------------------------- MODULE ClockInference ----------------------------
(***************************************************************************)
(* The exact inference of a latent clock from a short window of evidence   *)
(* (presence_likelihood_audit, with the boundary laws of                   *)
(* clock_boundary_audit): a graph whose nodes are a tick with its period,  *)
(* metre, beat and counts, summed and maximised forwards and backwards.    *)
(* Probabilities are integers: a path weighs its probability times the     *)
(* same power of Unit, so that sums of products stay exact.                *)
(***************************************************************************)
EXTENDS Integers, Sequences, FiniteSets, FiniteSetsExt, SequencesExt

CONSTANTS
    Periods, Meters,   \* the bounded domain of clocks and bars
    Unit,              \* what the probabilities of a next period sum to
    Tempo,             \* Tempo[p][q]: the probability of q after p, in Units
    Law,               \* the stationary weight of each period of Tempo
    Unavailable        \* a frame without evidence, and what a tick there is labelled
\* A meter changes to the only other one: there is no choice to weigh.
ASSUME MeterAssumption == Meters \subseteq 2..7 /\ Cardinality(Meters) = 2
ASSUME TempoAssumption ==
    /\ \A p \in Periods : MapThenSumSet(LAMBDA q : Tempo[p][q], Periods) = Unit
    /\ \A q \in Periods : MapThenSumSet(LAMBDA p : Law[p] * Tempo[p][q], Periods) = Unit * Law[q]

Bit(b) == IF b THEN 1 ELSE 0
Power(b, n) == FoldSet(LAMBDA i, x : x * b, 1, 1..n)
Product(S) == FoldSet(LAMBDA i, x : x * i, 1, S)

\* Integrated retention and change rates: beta(a, b), twelve times, for at most three trials.
beta(a, b) == (12 * Product(1..a) * Product(1..b)) \div Product(1..a + b + 1)
terminal(k) == beta(k.b, k.n - k.b) * beta(k.d, k.z - k.d) * beta(k.c, k.u - k.c)
NoCounts == [n |-> 0, b |-> 0, z |-> 0, d |-> 0, u |-> 0, c |-> 0]

\* Where a path may begin: at a fresh clock, or in the middle of a stationary one, where
\* the interval under way lasts q and the first tick chooses its period after q.
FirstTick(boundary, t, p) ==
    IF boundary = "fresh" THEN IF t < p THEN 6 \div p ELSE 0
    ELSE MapThenSumSet(LAMBDA q : Law[q] * Tempo[q][p], {q \in Periods : q > t})
BarWeight(boundary, m) == IF boundary = "fresh" THEN 6 \div m ELSE 1
roots(boundary, t) ==
    {[key |-> [period |-> p, meter |-> place[1], beat |-> place[2], counts |-> NoCounts],
      mass |-> FirstTick(boundary, t, p) * BarWeight(boundary, place[1]) * Power(Unit, t)] :
        p \in {q \in Periods : FirstTick(boundary, t, q) > 0},
        place \in {z \in Meters \X (0..Max(Meters) - 1) : z[2] < z[1]}}

\* A tick is omitted, plain or, on the first beat of a bar, accented.
Labels(evidence, t, beat) ==
    IF evidence[t + 1] = Unavailable THEN {Unavailable} ELSE 0..(IF beat = 0 THEN 2 ELSE 1)
Counted(k, beat, label) ==
    IF label = Unavailable THEN k
    ELSE [k EXCEPT !.n = @ + 1, !.b = @ + Bit(label > 0), !.z = @ + Bit(label > 0 /\ beat = 0),
                   !.d = @ + Bit(label = 2)]
Emission(evidence, t, label) ==
    IF label = Unavailable THEN 1 ELSE evidence[t + 1][label + 1] \div evidence[t + 1][1]

next_states(key, counts) ==
    LET wraps == key.beat = key.meter - 1
    IN  {[key |-> [period |-> q, meter |-> m, beat |-> (key.beat + 1) % key.meter,
                   counts |-> [counts EXCEPT !.u = @ + Bit(wraps),
                                             !.c = @ + Bit(m # key.meter)]],
          weight |-> Tempo[key.period][q] * Power(Unit, key.period - 1)] :
            q \in Periods, m \in IF wraps THEN Meters ELSE {key.meter}}

-----------------------------------------------------------------------------
\* Forwards: a node keeps the mass of all the paths to it and the best of them.
Steps(evidence, t, layer) ==
    UNION {UNION {
        LET node == layer[key]
            counts == Counted(key.counts, key.beat, label)
        IN  {[key |-> s.key, at |-> t + key.period, parent |-> <<t, key, label>>,
              mass |-> node.mass * Emission(evidence, t, label) * s.weight,
              maximum |-> node.maximum * Emission(evidence, t, label) * s.weight] :
                s \in next_states(key, counts)} : label \in Labels(evidence, t, key.beat)}
        : key \in {k \in DOMAIN layer : t + k.period < Len(evidence)}}

Arrivals(evidence, boundary, built, t) ==
    {[key |-> r.key, at |-> t, parent |-> <<>>, mass |-> r.mass, maximum |-> r.mass] :
        r \in roots(boundary, t)}
    \cup {s \in UNION {Steps(evidence, i - 1, built[i]) : i \in DOMAIN built} : s.at = t}

\* Mutant: a better path to a node already reached is not remembered.
MergeFirst(arrivals) ==
    [key \in {a.key : a \in arrivals} |->
        LET same == {a \in arrivals : a.key = key}
        IN  [mass |-> MapThenSumSet(LAMBDA a : a.mass, same),
             maximum |-> Max({a.maximum : a \in same}),
             parent |-> (CHOOSE a \in same : TRUE).parent]]
Merge(arrivals) ==
    [key \in {a.key : a \in arrivals} |->
        LET same == {a \in arrivals : a.key = key}
            best == Max({a.maximum : a \in same})
        IN  [mass |-> MapThenSumSet(LAMBDA a : a.mass, same), maximum |-> best,
             parent |-> (CHOOSE a \in same : a.maximum = best).parent]]

Layers(evidence, boundary) ==
    FoldLeft(LAMBDA built, t : Append(built, Merge(Arrivals(evidence, boundary, built, t))),
             <<>>, [i \in 1..Len(evidence) |-> i - 1])

\* Tracing the best ending back to its root.
Traced(layers, ending) ==
    LET back[n \in 0..Len(layers)] ==
            IF n = 0 THEN <<ending>>
            ELSE LET head == back[n - 1][1]
                     node == layers[head[1] + 1][head[2]]
                 IN  IF node.parent = <<>> THEN back[n - 1] ELSE <<node.parent>> \o back[n - 1]
        path == back[Len(layers)]
    IN  [i \in DOMAIN path |->
            [frame |-> path[i][1], period |-> path[i][2].period, meter |-> path[i][2].meter,
             beat |-> path[i][2].beat + 1, label |-> path[i][3]]]

\* Backwards: what remains from a label of a node to the end of the window.
Rest(evidence, t, key, label, later) ==
    LET counts == Counted(key.counts, key.beat, label)
    IN  IF t + key.period >= Len(evidence)
        THEN terminal(counts) * Power(Unit, Len(evidence) - 1 - t)
        ELSE MapThenSumSet(LAMBDA s : s.weight * later[key.period][s.key], next_states(key, counts))
Remaining(evidence, layers) ==
    FoldLeft(LAMBDA later, t :
        <<[key \in DOMAIN layers[t + 1] |->
             MapThenSumSet(LAMBDA l : Emission(evidence, t, l) * Rest(evidence, t, key, l, later),
                           Labels(evidence, t, key.beat))]>> \o later,
        <<>>, [i \in 1..Len(evidence) |-> Len(evidence) - i])

Background(evidence) ==
    FoldSet(LAMBDA t, x : IF evidence[t] = Unavailable THEN x ELSE x * evidence[t][1],
            1, DOMAIN evidence)

infer(evidence, boundary, max_states) ==
    LET layers == Layers(evidence, boundary)
        states == MapThenSumSet(LAMBDA t : Cardinality(DOMAIN layers[t]), DOMAIN layers)
        suffix == Remaining(evidence, layers)
        Visits(t) == UNION {{<<key, l>> : l \in Labels(evidence, t, key.beat)} : key \in DOMAIN layers[t + 1]}
        Later(t) == SubSeq(suffix, t + 2, Len(suffix))
        Through(t, v) == layers[t + 1][v[1]].mass * Emission(evidence, t, v[2])
                           * Rest(evidence, t, v[1], v[2], Later(t))
        \* What arrives at frame t from a tick of another period or another metre.
        Arrive(t, Differs(_, _)) ==
            MapThenSumSet(LAMBDA i :
                MapThenSumSet(LAMBDA v :
                    MapThenSumSet(LAMBDA n : layers[i][v[1]].mass * Emission(evidence, i - 1, v[2])
                                               * n.weight * suffix[t + 1][n.key],
                        {n \in next_states(v[1], Counted(v[1].counts, v[1].beat, v[2])) : Differs(v[1], n.key)}),
                    {w \in Visits(i - 1) : i - 1 + w[1].period = t}),
                1..t)
        endings == UNION {{<<t, v[1], v[2]>> : v \in {w \in Visits(t) : t + w[1].period >= Len(evidence)}}
                          : t \in 0..Len(evidence) - 1}
        Weight(e) == layers[e[1] + 1][e[2]].maximum * Emission(evidence, e[1], e[3])
                       * Rest(evidence, e[1], e[2], e[3], <<>>)
        best == Max({Weight(e) : e \in endings})
    IN  IF states > max_states THEN [status |-> "refused"]
        ELSE [status |-> "exact", states |-> states, best |-> best,
              background |-> Background(evidence),
              total |-> MapThenSumSet(LAMBDA e : Through(e[1], <<e[2], e[3]>>), endings),
              ticks |-> Traced(layers, CHOOSE e \in endings : Weight(e) = best),
              positions |-> [t \in 0..Len(evidence) - 1 |->
                  [label \in {0, 1, 2, Unavailable} |->
                     MapThenSumSet(LAMBDA v : Through(t, v), {v \in Visits(t) : v[2] = label})]],
              tempo_change |-> [t \in 0..Len(evidence) - 1 |-> Arrive(t, LAMBDA a, b : a.period # b.period)],
              meter_change |-> [t \in 0..Len(evidence) - 1 |-> Arrive(t, LAMBDA a, b : a.meter # b.meter)]]

-----------------------------------------------------------------------------
\* The score of one path by itself: the product of its factors, tick after tick.
Counts(ticks) ==
    LET after[i \in 0..Len(ticks)] ==
            IF i = 0 THEN NoCounts
            ELSE LET turned == i > 1 /\ ticks[i - 1].beat = ticks[i - 1].meter
                     k == after[i - 1]
                 IN  Counted([k EXCEPT !.u = @ + Bit(turned),
                                       !.c = @ + Bit(turned /\ ticks[i].meter # ticks[i - 1].meter)],
                             ticks[i].beat - 1, ticks[i].label)
    IN  after[Len(ticks)]
Follows(old, tick) ==
    LET wrap == old.beat = old.meter
    IN  /\ tick.frame = old.frame + old.period
        /\ tick.beat = (IF wrap THEN 1 ELSE old.beat + 1)
        /\ wrap \/ tick.meter = old.meter
Supported(evidence, ticks) ==
    /\ \A i \in 2..Len(ticks) : Follows(ticks[i - 1], ticks[i])
    /\ ticks[Len(ticks)].frame + ticks[Len(ticks)].period >= Len(evidence)
ProductOf(F(_), S) == FoldSet(LAMBDA i, x : x * F(i), 1, S)
decompose(evidence, boundary, ticks) ==
    LET first == ticks[1]
        Factor(i) == Tempo[ticks[i - 1].period][ticks[i].period]
        Labelled(i) == Emission(evidence, ticks[i].frame, ticks[i].label)
    IN  [clock_initial |-> FirstTick(boundary, first.frame, first.period),
         meter_initial |-> BarWeight(boundary, first.meter),
         clock |-> ProductOf(Factor, 2..Len(ticks)),
         labels |-> ProductOf(Labelled, 1..Len(ticks)),
         counts |-> terminal(Counts(ticks))]
score_path(evidence, boundary, ticks) ==
    LET factors == decompose(evidence, boundary, ticks)
    IN  ProductOf(LAMBDA name : factors[name], DOMAIN factors) * Power(Unit, Len(evidence) - Len(ticks))

\* Every complete path of clocks, bars and labels: nothing is merged.
PathsOf(evidence, boundary) ==
    LET Ticks(t) == {[frame |-> t, period |-> p, meter |-> m, beat |-> j, label |-> l] :
                       p \in Periods, m \in Meters, j \in 1..Max(Meters), l \in {0, 1, 2, Unavailable}}
        Proper(tick) == tick.beat <= tick.meter /\ tick.frame < Len(evidence)
                          /\ tick.label \in Labels(evidence, tick.frame, tick.beat - 1)
        Starts == {<<tick>> : tick \in {x \in UNION {Ticks(t) : t \in 0..Max(Periods) - 1} :
                      Proper(x) /\ FirstTick(boundary, x.frame, x.period) > 0}}
        Longer(paths) ==
            UNION {LET last == path[Len(path)]
                   IN  IF last.frame + last.period >= Len(evidence) THEN {path}
                       ELSE {Append(path, x) : x \in {y \in Ticks(last.frame + last.period) :
                                                        Proper(y) /\ Follows(last, y)}}
                   : path \in paths}
    IN  FoldSet(LAMBDA i, paths : Longer(paths), Starts, 1..Len(evidence))

=============================================================================
