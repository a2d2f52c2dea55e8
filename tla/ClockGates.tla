------------------------------ MODULE ClockGates ------------------------------
(***************************************************************************)
(* What decides whether a fit is better than its baselines: the            *)
(* measurements of a clock against its reference on the supported part of  *)
(* a recording, their means over works, and the gates over both.  Rates    *)
(* are integers per cell; a median or a mean is told apart by its total.   *)
(***************************************************************************)
EXTENDS Integers, Sequences, FiniteSets, FiniteSetsExt, SequencesExt

CONSTANTS Lag,       \* cells in a counting interval (200, four seconds)
          Absent     \* a value that is not finite, or was not computed

ASSUME LagAssumption == Lag \in Nat \ {0}
ASSUME AbsentAssumption == Absent \notin Int

Keys == {"tempo", "phase", "count"}
Total(F(_), S) == MapThenSumSet(F, S)
Size(x) == IF x < 0 THEN -x ELSE x

\* How many of the first n are missing: 0, then the running sum.
Missing(present) ==
    FoldLeft(LAMBDA sums, p : Append(sums, sums[Len(sums)] + (IF p THEN 0 ELSE 1)), <<0>>, present)
\* Mutant: the last point of the interval is not asked for.
intervalsHalfOpen(valid, lag) ==
    LET missing == Missing(valid)
    IN  [i \in 1..Len(valid) - lag |-> missing[i + lag] - missing[i] = 0]
intervals(valid, lag) ==
    LET missing == Missing(valid)
    IN  [i \in 1..Len(valid) - lag |-> missing[i + lag + 1] - missing[i] = 0]

\* rate has a value for every cell between two points, phase one for every point; both are
\* errors against the reference.  What is required and absent makes the metric absent.
measure(fields, valid) ==
    LET finite_rate == [i \in DOMAIN fields.rate |-> fields.rate[i] # Absent]
        missing == Missing(finite_rate)
        available == [i \in 1..Len(valid) - Lag |-> missing[i + Lag] - missing[i] = 0]
        cells == {i \in DOMAIN intervals(valid, 1) : intervals(valid, 1)[i]}
        spans == {i \in DOMAIN intervals(valid, Lag) : intervals(valid, Lag)[i]}
        points == {i \in DOMAIN valid : valid[i]}
        Value(i) == IF finite_rate[i] THEN fields.rate[i] ELSE 0
        Drift(i) == Size(Total(Value, i..i + Lag - 1))
        CellError(i) == Size(fields.rate[i])
        PointError(i) == Size(fields.phase[i])
    IN  [reference_points |-> Cardinality(points), reference_cells |-> Cardinality(cells),
         reference_intervals |-> Cardinality(spans),
         tempo |-> IF cells # {} /\ \A i \in cells : finite_rate[i] THEN Total(CellError, cells) ELSE Absent,
         phase |-> IF points # {} /\ \A i \in points : fields.phase[i] # Absent
                   THEN Total(PointError, points) ELSE Absent,
         count |-> IF spans # {} /\ \A i \in spans : available[i] THEN Total(Drift, spans) ELSE Absent]

\* The mean over works of the means over recordings (one recording of each work here).
macro(rows, own, kind, key) ==
    IF own # {} /\ \A i \in own : rows[i][kind][key] # Absent
    THEN Total(LAMBDA i : rows[i][kind][key], own) ELSE Absent

Of(rows, role) == {i \in DOMAIN rows : rows[i].role = role}
Roles == {"development", "diagnostic"}
finite_comparison(a, b, tenths) == a # Absent /\ b # Absent /\ 10 * a <= tenths * b

Baselines == {"raw_common", "v1_common"}
gates(rows) ==
    LET required == {i \in DOMAIN rows : rows[i].role \in Roles}
        Mean(role, kind, key) == macro(rows, Of(rows, role), kind, key)
        Regressed(r, key) == r.audio_common[key] > r.raw_common[key]
        Broad(role) ==
            LET subset == Of(rows, role)
            IN  subset # {} /\ \A key \in {"tempo", "phase"} :
                  /\ \A i \in subset : rows[i].audio_common[key] # Absent /\ rows[i].raw_common[key] # Absent
                  /\ 2 * Cardinality({i \in subset : Regressed(rows[i], key)}) <= Cardinality(subset)
    IN  /\ required # {}
        /\ \A i \in required, kind \in {"audio", "zero", "audio_common", "zero_common"} \cup Baselines, key \in Keys :
              rows[i][kind][key] # Absent
        /\ \A key \in {"tempo", "phase"} :
              finite_comparison(Mean("development", "audio", key), Mean("development", "zero", key), 9)
        /\ \A role \in Roles, baseline \in Baselines, key \in Keys :
              finite_comparison(Mean(role, "audio_common", key), Mean(role, baseline, key), 10)
        /\ \A role \in Roles : Broad(role)

\* Later fits must not fall behind their parents, nor do as well without the order of time.
same_support(row, parent) ==
    \A kind \in {"audio_common"} \cup Baselines,
       key \in {"reference_points", "reference_cells", "reference_intervals"} :
        row[kind][key] = parent[kind][key]
comparison_gate(rows, parents, controls) ==
    LET Mean(role, kind, key) == macro(rows, Of(rows, role), kind, key)
    IN  /\ gates(rows)
        /\ \A role \in Roles, parent \in parents, key \in Keys :
              finite_comparison(Mean(role, "audio_common", key), Mean(role, parent, key), 10)
        /\ \A i \in {j \in DOMAIN rows : rows[j].role \in Roles}, kind \in controls, key \in Keys :
              rows[i][kind][key] # Absent
        /\ \A role \in Roles, kind \in controls :
              LET natural == Mean(role, "audio_common", "phase")
                  control == Mean(role, kind, "phase")
              IN  natural # Absent /\ control # Absent /\ natural < control

\* A checkpoint may be chosen when no work loses a twentieth on any metric, and at most
\* two recordings do on tempo (local_tempo.selection).
admissibility(current, baseline) ==
    LET Work(rows, work, metric) ==
            LET own == {i \in DOMAIN rows : rows[i].work = work}
            IN  Total(LAMBDA i : rows[i][metric], own)
        works == {baseline[i].work : i \in DOMAIN baseline}
    IN  /\ \A work \in works, metric \in {"mse", "tempo"} :
              20 * Work(current, work, metric) <= 21 * Work(baseline, work, metric)
        /\ Cardinality({i \in DOMAIN current : 20 * current[i].tempo > 21 * baseline[i].tempo}) <= 2

=============================================================================
