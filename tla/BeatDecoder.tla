------------------------------- MODULE BeatDecoder -------------------------------
(***************************************************************************)
(* The shipped decoder of the Beat This backend: local maxima of the beat  *)
(* and downbeat logits, merged into a running mean, downbeats snapped to   *)
(* the nearest beat, and the evidence candidates, one for each plateau.    *)
(* Times are in Fine parts of a frame, confidences are the logits they     *)
(* come from (sigmoid is increasing, and 1/2 is the sigmoid of Even).      *)
(***************************************************************************)
EXTENDS ResponseLedger

CONSTANTS Even,          \* the logit of even odds
          MergeWidth,    \* frames
          NearBeat,      \* 0.07 s, in parts of a frame
          NoMark         \* a confidence of 0
ASSUME DecoderAssumption == {Even, MergeWidth, NearBeat} \subseteq Nat

Ascending(S) == [i \in 1..Cardinality(S) |-> CHOOSE x \in S : Cardinality({y \in S : y < x}) = i - 1]
Around(logits, i, radius) == (DOMAIN logits) \cap (i - radius)..(i + radius)
Peak(logits, i, radius) == \A k \in Around(logits, i, radius) : logits[k] <= logits[i]

\* A peak is merged while it is within the width of the running mean of those before it.
deduplicate_peaks(peaks, width) ==
    LET Merge2(at, i) ==
            LET c == i * Fine
                n == at.count + 1
            IN  IF at.count > 0 /\ c - at.mean <= width * Fine
                THEN [at EXCEPT !.count = n, !.mean = @ + (c - @) \div n]
                ELSE [mean |-> c, count |-> 1,
                      found |-> IF at.count = 0 THEN <<>> ELSE Append(at.found, at.mean)]
        end == FoldLeft(Merge2, [mean |-> 0, count |-> 0, found |-> <<>>], peaks)
    IN  IF peaks = <<>> THEN <<>> ELSE Append(end.found, end.mean)
find_peaks(logits) ==
    deduplicate_peaks(Ascending({i \in DOMAIN logits : logits[i] > Even /\ Peak(logits, i, RADIUS)}), MergeWidth)

\* Mutant: the later of two.
candidate_peak_frames_late(logits) ==
    LET maxima == {i \in DOMAIN logits : Peak(logits, i, 1)}
        Run2(s) == {e \in maxima : e >= s /\ s..e \subseteq maxima}
    IN  Ascending({s + Cardinality(Run2(s)) \div 2 : s \in {s \in maxima : s - 1 \notin maxima}})
\* The middle frame, or the earlier of two, of every run of frames no neighbour exceeds.
candidate_peak_frames(logits) ==
    LET maxima == {i \in DOMAIN logits : Peak(logits, i, 1)}
        Run2(s) == {e \in maxima : e >= s /\ s..e \subseteq maxima}
    IN  Ascending({s + (Cardinality(Run2(s)) - 1) \div 2 : s \in {s \in maxima : s - 1 \notin maxima}})

\* Each downbeat moves to the nearest beat, the earlier of two.
snap_to_beats(beat_times, downbeats) ==
    LET Nearest(d) == CHOOSE b \in beat_times : \A c \in beat_times :
                            Offset(b, d) < Offset(c, d) \/ (Offset(b, d) = Offset(c, d) /\ b <= c)
    IN  IF beat_times = {} THEN downbeats ELSE {Nearest(d) : d \in downbeats}

\* A published time is a binary fraction of a second: one halfway between two frames is
\* read back as either, and one exactly at the distance may count as near or not.
ScoreFrame(time, logits, up) ==
    LET nearest == IF up THEN (2 * time + Fine) \div (2 * Fine) ELSE -((Fine - 2 * time) \div (2 * Fine))
    IN  IF nearest \in DOMAIN logits THEN nearest ELSE Cardinality(DOMAIN logits) - 1
IsNear(a, b, closed) == Offset(a, b) < NearBeat \/ (closed /\ Offset(a, b) = NearBeat)
AtLeastEven(logit) == IF logit < Even THEN Even ELSE logit
observations_from_events(times, downbeats, beat_logits, downbeat_logits, reading) ==
    [i \in DOMAIN times |->
        LET frame == ScoreFrame(times[i], beat_logits, reading.up)
        IN  [time |-> times[i], beat |-> beat_logits[frame],
             downbeat |-> IF \E d \in downbeats : IsNear(d, times[i], reading.closed)
                          THEN AtLeastEven(downbeat_logits[frame]) ELSE NoMark]]
observations_from_frames(beat_logits, downbeat_logits, duration, reading) ==
    LET found == find_peaks(beat_logits)
        down == find_peaks(downbeat_logits)
        frames == candidate_peak_frames(beat_logits)
        kept == SelectSeq(frames, LAMBDA f : f * Fine <= duration)
    IN  [beats |-> observations_from_events(found,
                        snap_to_beats({found[i] : i \in DOMAIN found}, {down[i] : i \in DOMAIN down}),
                        beat_logits, downbeat_logits, reading),
         candidates |-> [i \in DOMAIN kept |-> [time |-> kept[i] * Fine, beat |-> beat_logits[kept[i]],
                                                downbeat |-> downbeat_logits[kept[i]]]]]
=============================================================================
