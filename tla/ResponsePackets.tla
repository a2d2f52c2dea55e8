----------------------------- MODULE ResponsePackets -----------------------------
(***************************************************************************)
(* Where the responses of a capture come from and which window accounts    *)
(* for each: the decoder reconstructed in exact numbers, packets with      *)
(* their plateau (backend_response_packet_audit), windows of fixed length, *)
(* clocks supplied from the beats before them and the causes of what stays *)
(* unmatched (window_response_residual_audit), and pairs of windows        *)
(* (paired_response_replay_audit).                                         *)
(***************************************************************************)
EXTENDS BeatDecoder

CONSTANT WINDOW                 \* frames of a window
ASSUME PacketAssumption == WINDOW \in Nat \ {0}
SOURCES == {"raw", "candidate"}
CLOCKS == {"annotated", "continuation", "half_phase_zero", "half_phase_one", "double"}

Middle(g) == Min(g) + (Cardinality(g) - 1) \div 2
Center(g) == (Fine * SumSet(g)) \div Cardinality(g)
\* Frames in order, each joining the group before it while it is close enough.
Grouped(frames, Close(_, _)) ==
    FoldLeft(LAMBDA gs, i : IF gs # <<>> /\ Close(gs[Len(gs)], i)
                            THEN [gs EXCEPT ![Len(gs)] = @ \cup {i}] ELSE Append(gs, {i}),
             <<>>, Ascending(frames))
peak_groups(values) ==
    Grouped({i \in DOMAIN values : values[i] > Even /\ Peak(values, i, RADIUS)},
            LAMBDA g, i : i * Cardinality(g) - SumSet(g) <= Cardinality(g))
candidate_plateaus(values) ==
    Grouped({i \in DOMAIN values : Peak(values, i, 1)}, LAMBDA g, i : i = Max(g) + 1)

reconstruct(beat, downbeat, duration, reading) ==
    LET centers(values) == LET gs == peak_groups(values) IN [i \in DOMAIN gs |-> Center(gs[i])]
        marks == centers(beat)
        downs == centers(downbeat)
        on == {marks[i] : i \in DOMAIN marks}
        snapped == {b \in on : \E k \in DOMAIN downs : \A c \in on :
                        c # b => \/ Offset(b, downs[k]) < Offset(c, downs[k])
                                 \/ Offset(b, downs[k]) = Offset(c, downs[k]) /\ b < c}
        plateaus == candidate_plateaus(beat)
        sites == [k \in DOMAIN plateaus |-> Middle(plateaus[k])]
        kept == SelectSeq(sites, LAMBDA f : Fine * f <= duration)
    IN  [beats |-> [i \in DOMAIN marks |->
                      LET at == ScoreFrame(marks[i], beat, reading.up)
                      IN  [time |-> marks[i], beat |-> beat[at],
                           downbeat |-> IF \A d \in snapped : ~IsNear(d, marks[i], reading.closed) THEN NoMark
                                        ELSE IF downbeat[at] <= Even THEN Even ELSE downbeat[at]]],
         candidates |-> [i \in DOMAIN kept |-> [time |-> Fine * kept[i], beat |-> beat[kept[i]],
                                                downbeat |-> downbeat[kept[i]]]]]

\* Every packet with what was published of it and the plateau it comes from.
assemble(beat, downbeat, duration, observations, reading) ==
    LET groups == peak_groups(beat)
        plateaus == candidate_plateaus(beat)
        Parent(g) == Max({k \in DOMAIN plateaus : Min(plateaus[k]) <= Min(g)})
        included == SelectSeq([k \in DOMAIN plateaus |-> k], LAMBDA k : Fine * Middle(plateaus[k]) <= duration)
        Packet(source, i, k, at, frame, published) ==
            [source |-> source, index |-> i, plateau |-> k, at |-> at, frame |-> frame,
             published |-> published, beat |-> beat[frame], downbeat |-> downbeat[frame]]
    IN  [valid |-> /\ observations = reconstruct(beat, downbeat, duration, reading)
                   /\ \A i \in DOMAIN groups : groups[i] \subseteq plateaus[Parent(groups[i])],
         raw |-> [i \in DOMAIN groups |->
                    Packet("raw", i, Parent(groups[i]), Center(groups[i]),
                           ScoreFrame(Center(groups[i]), beat, reading.up), observations.beats[i])],
         candidate |-> [i \in DOMAIN included |->
                          LET f == Middle(plateaus[included[i]])
                          IN  Packet("candidate", i, included[i], Fine * f, f, observations.candidates[i])],
         plateaus |-> [k \in DOMAIN plateaus |->
                         [support |-> plateaus[k], included |-> k \in {included[i] : i \in DOMAIN included},
                          raw |-> {i \in DOMAIN groups : Parent(groups[i]) = k}]]]
summarize(packets) ==
    LET Reason(p) == IF packets.plateaus[p.plateau].raw # {} THEN "has_raw_lineage"
                     ELSE IF p.beat <= Even THEN "nonpositive_default_threshold" ELSE "radius_three_competition"
        Raw(Test(_)) == Cardinality({i \in DOMAIN packets.raw : Test(packets.raw[i])})
    IN  [reasons |-> [i \in DOMAIN packets.candidate |-> Reason(packets.candidate[i])],
         excluded |-> Cardinality({k \in DOMAIN packets.plateaus : ~packets.plateaus[k].included}),
         fractional |-> Raw(LAMBDA p : p.at % Fine # 0),
         orphaned |-> Raw(LAMBDA p : ~packets.plateaus[p.plateau].included),
         shared |-> Cardinality({k \in DOMAIN packets.plateaus : Cardinality(packets.plateaus[k].raw) > 1}),
         clamped |-> Raw(LAMBDA p : p.published.downbeat = Even /\ p.downbeat < Even)]

packet_ledger(size, observed, packets, ticked) ==
    LET heard == [i \in DOMAIN packets |-> packets[i].at]
    IN  IF (\A i \in DOMAIN packets : packets[i].frame \in observed) /\ Accountable(size, observed, ticked, heard)
        THEN ledger(size, observed, ticked, heard) ELSE NoMark

-----------------------------------------------------------------------------
\* The clocks of a window: its annotated beats, and three ways to go on from the four before.
periodic_ticks(from, period, start, end) ==
    LET below(x) == -((-(x - from)) \div period)
    IN  [k \in 1..below(end) - below(start) |-> from + (below(start) + k - 1) * period - start]
supplied_clocks(times, start, end) ==
    LET before == Cardinality({i \in DOMAIN times : times[i] < start})
        anchored == times[before]
        period == (times[before] - times[before - 3]) \div 3
        grids == [annotated |-> [k \in 1..Cardinality({i \in DOMAIN times : start <= times[i] /\ times[i] < end}) |->
                                   times[before + k] - start],
                  continuation |-> periodic_ticks(anchored, period, start, end),
                  half_phase_zero |-> periodic_ticks(anchored, 2 * period, start, end),
                  half_phase_one |-> periodic_ticks(anchored + period, 2 * period, start, end),
                  double |-> periodic_ticks(anchored, period \div 2, start, end)]
    IN  IF before < 4 THEN [status |-> "insufficient_prefix"]
        ELSE IF end > times[Len(times)] THEN [status |-> "annotation_tail_uncovered"]
        ELSE IF \E name \in CLOCKS : Len(grids[name]) > EventLimit THEN [status |-> "clock_budget_exceeded"]
        ELSE [status |-> "eligible", grids |-> grids]

\* Mutant: the packet at the end of a window is also in the window that starts there.
crop_packets_closed(packets, start, end) ==
    LET kept == SelectSeq(packets, LAMBDA p : start * Fine <= p.at /\ p.at <= end * Fine)
    IN  [i \in DOMAIN kept |-> [kept[i] EXCEPT !.at = @ - start * Fine, !.frame = @ - start]]
crop_packets(packets, start, end) ==
    LET kept == SelectSeq(packets, LAMBDA p : start * Fine <= p.at /\ p.at < end * Fine)
    IN  [i \in DOMAIN kept |-> [kept[i] EXCEPT !.at = @ - start * Fine, !.frame = @ - start]]
support_inside(packets, size) ==
    \A i \in DOMAIN packets : packets[i].frame \in 0..size - 1 /\ FrameAbove(packets[i].at) < size

state(count, total) == IF count = 0 THEN "never" ELSE IF count = total THEN "always" ELSE "sometimes"
edge(c, size) == FrameAbove(c - RADIUS * Fine) < 0 \/ FrameBelow(c + RADIUS * Fine) >= size
Within(packets, t) == {j \in DOMAIN packets : Offset(t, packets[j].at) <= RADIUS * Fine}
ledger_inventory(result, packets, annotated, size) ==
    [result |-> result,
     ticks |-> [i \in DOMAIN result.tick |-> <<state(result.tick[i], result.ways), result.full[i]>>],
     responses |-> [j \in DOMAIN packets |->
                      [state |-> state(result.response[j], result.ways), edge |-> edge(packets[j].at, size),
                       near |-> \E i \in DOMAIN annotated : j \in Within(packets, annotated[i]),
                       positive |-> packets[j].beat > Even]]]
annotated_miss_causes(raw, candidate, packets, annotated) ==
    [i \in DOMAIN annotated |->
        LET heardRaw == state(raw.tick[i], raw.ways)
            heard == state(candidate.tick[i], candidate.ways)
        IN  CASE heardRaw # "never" -> <<"raw", heardRaw>>
              [] heardRaw = "never" /\ ~raw.full[i] -> <<"boundary_censored">>
              [] heardRaw = "never" /\ raw.full[i] /\ heard # "never" ->
                    <<"candidate", heard, {packets[j].beat > Even : j \in {k \in DOMAIN packets : candidate.pair[<<i, k>>] > 0}}>>
              [] OTHER -> IF Within(packets, annotated[i]) # {} THEN <<"competition">> ELSE <<"no_candidate_in_radius">>]
contrast(left, right) ==
    LET matched == left.matched - right.matched
        missing == left.unmatched_ticks - right.unmatched_ticks
    IN  IF matched = 0 /\ missing = 0 THEN "equal"
        ELSE IF matched >= 0 /\ missing <= 0 THEN "left_dominates"
        ELSE IF matched <= 0 /\ missing >= 0 THEN "right_dominates" ELSE "tradeoff"

Prepared(selected, supplied, start, frames) ==
    LET state2 == IF supplied.status # "eligible" THEN supplied.status
                  ELSE IF \E s \in SOURCES : Len(selected[s]) > EventLimit THEN "response_budget_exceeded"
                  ELSE IF \E s \in SOURCES : ~support_inside(selected[s], frames) THEN "packet_support_crosses_window"
                  ELSE "eligible"
    IN  [start |-> start, frames |-> frames, selected |-> selected, status |-> state2,
         grids |-> IF state2 = "eligible" THEN supplied.grids ELSE <<>>]
prepare_window(packets, times, start, end) ==
    Prepared([s \in SOURCES |-> crop_packets(packets[s], start, end)],
             supplied_clocks(times, start * Fine, end * Fine), start, end - start)
Comparisons(row, inventories) ==
    [row |-> row, inventories |-> inventories,
     versus |-> [s \in SOURCES |-> [name \in CLOCKS |->
                   contrast(inventories[s][name].result, inventories[s].continuation.result)]],
     causes |-> annotated_miss_causes(inventories.raw.annotated.result, inventories.candidate.annotated.result,
                                      row.selected.candidate, row.grids.annotated)]
evaluate_window(row) ==
    Comparisons(row, [s \in SOURCES |-> [name \in CLOCKS |->
        ledger_inventory(packet_ledger(row.frames, 0..row.frames - 1, row.selected[s], row.grids[name]),
                         row.selected[s], row.grids.annotated, row.frames)]])

\* A capture is cut into windows; only a full one is accounted for.
Analyzed(row) ==
    IF row.frames # WINDOW THEN [row |-> [row EXCEPT !.status = "partial_window"]]
    ELSE IF row.status # "eligible" THEN [row |-> row] ELSE evaluate_window(row)
analyze_window(packets, times, start, end) == Analyzed(prepare_window(packets, times, start, end))
audit_windows(packets, times, size) ==
    [k \in 1..-((-size) \div WINDOW) |->
        analyze_window(packets, times, (k - 1) * WINDOW, IF k * WINDOW < size THEN k * WINDOW ELSE size)]
\* Both windows of a pair are compared or neither is.
analyze_pair(packets, times, constant, change) ==
    LET prepared == <<prepare_window(packets, times, constant, constant + WINDOW),
                      prepare_window(packets, times, change, change + WINDOW)>>
        agreed == \A r \in 1..2 : prepared[r].status = "eligible"
    IN  [status |-> IF agreed THEN "eligible" ELSE "pair_rejected",
         windows |-> [r \in 1..2 |-> IF agreed THEN evaluate_window(prepared[r]) ELSE [row |-> prepared[r]]]]
=============================================================================
