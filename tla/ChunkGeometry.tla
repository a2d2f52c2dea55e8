---------------------------- MODULE ChunkGeometry ----------------------------
(***************************************************************************)
(* How long recordings are cut into the pieces an encoder can take, and    *)
(* how the pieces are put together again: the pre-head captures, the       *)
(* MusicFM contexts and the readout windows.  A feature is told apart only *)
(* by the frames it was computed from.                                     *)
(***************************************************************************)
EXTENDS Integers, Sequences

CONSTANTS
    Chunk,        \* frames of a pre-head chunk (1500)
    Border,       \* frames discarded at each end of it (6)
    Hop,          \* samples of the MusicFM mel frame (240); four make a token
    HalfTokens,   \* tokens in a quarter of a MusicFM context (50)
    Centers,      \* frames owned by a readout window (200)
    Halo,         \* frames added to it at each end
    Padding       \* what stands for a frame that does not exist
ASSUME ChunkAssumption == Chunk \in Nat /\ Border \in Nat /\ Chunk > 2 * Border
ASSUME TokenAssumption == Hop \in Nat \ {0} /\ HalfTokens \in Nat \ {0}
ASSUME WindowAssumption == Centers \in Nat \ {0} /\ Halo \in Nat

Smaller(a, b) == IF a <= b THEN a ELSE b
Larger(a, b) == IF a <= b THEN b ELSE a
First(S) == CHOOSE i \in S : \A j \in S : i <= j

\* What an encoder that reaches h frames to either side computes at place j of x.
Reach(x, j, h) == [k \in -h..h |-> IF j + k \in DOMAIN x THEN x[j + k] ELSE Padding]
Encode(x, h) == [j \in DOMAIN x |-> Reach(x, j, h)]
Recording(frames) == [t \in 0..frames - 1 |-> t]
Whole(frames, h) == Encode(Recording(frames), h)

-----------------------------------------------------------------------------
\* Pre-head captures: chunks overlap by two borders; the last is moved back to be full.

\* Mutant: only one of the two borders is given up.
StrideOneBorder == Chunk - Border
Stride == Chunk - 2 * Border
Pieces(frames) == (frames + Stride - 1) \div Stride
Start(frames, i) ==
    IF i = Pieces(frames) /\ frames > Stride
    THEN frames - (Chunk - Border)
    ELSE (i - 1) * Stride - Border
Row(frames, start) ==
    LET left == Larger(0, -start)
        right == Larger(0, Smaller(Border, start + Chunk - frames))
        from == Larger(0, start)
        to == Smaller(start + Chunk, frames)
        size == left + to - from + right
    IN  [start |-> start, left |-> left, right |-> right, size |-> size,
         source_start |-> from, source_end |-> to,
         write_start |-> start + Border, write_end |-> start + size - Border]
layout(frames) == [i \in 1..Pieces(frames) |-> Row(frames, Start(frames, i))]

split(frames) ==
    [i \in DOMAIN layout(frames) |->
        LET row == layout(frames)[i]
        IN  [j \in 0..row.size - 1 |->
                IF j < row.left \/ j >= row.size - row.right THEN Padding
                ELSE row.source_start + j - row.left]]

\* Chunks are written from the last to the first: the earliest one keeps a frame.
Owns(frames, i, t) == LET row == layout(frames)[i] IN t >= row.write_start /\ t < row.write_end
OwnersOf(frames, t) == {i \in DOMAIN layout(frames) : Owns(frames, i, t)}
stitch(frames, chunks) ==
    [t \in 0..frames - 1 |->
        IF OwnersOf(frames, t) = {} THEN Padding
        ELSE LET i == First(OwnersOf(frames, t))
             IN  chunks[i][t - layout(frames)[i].start]]
Captured(frames) ==
    stitch(frames, [i \in DOMAIN split(frames) |-> Encode(split(frames)[i], Border)])

-----------------------------------------------------------------------------
\* MusicFM: contexts of eight seconds every four; seams in the middle of the overlaps.
TokenSamples == 4 * Hop
HopSamples == 2 * HalfTokens * TokenSamples
ContextSamples == 2 * HopSamples
tokens(samples) == (samples \div Hop + 3) \div 4
Contexts(samples) ==
    1 + (IF samples <= ContextSamples THEN 0
         ELSE (samples - ContextSamples + HopSamples - 1) \div HopSamples)
Seam(samples, i) ==
    IF i = 1 THEN 0
    ELSE IF i > Contexts(samples) THEN tokens(samples)
    ELSE ((i - 1) * HopSamples + HopSamples \div 2) \div TokenSamples
chunks(samples) ==
    [i \in 1..Contexts(samples) |->
        LET s == (i - 1) * HopSamples
        IN  [sample_start |-> s, sample_stop |-> Smaller(s + ContextSamples, samples),
             token_start |-> s \div TokenSamples,
             token_count |-> tokens(Smaller(ContextSamples, samples - s)),
             own_start |-> Seam(samples, i), own_stop |-> Seam(samples, i + 1)]]

\* Every coordinate has one owner, inside the context that owns it, or the plan is refused.
Admissible(plan, samples) ==
    /\ \A i \in DOMAIN plan :
         LET start == plan[i].own_start - plan[i].token_start
         IN  0 <= start /\ plan[i].own_start < plan[i].own_stop
             /\ start + plan[i].own_stop - plan[i].own_start <= plan[i].token_count
    /\ \A t \in 0..tokens(samples) - 1 :
         \E i \in DOMAIN plan :
            /\ plan[i].own_start <= t /\ t < plan[i].own_stop
            /\ \A k \in DOMAIN plan \ {i} : ~(plan[k].own_start <= t /\ t < plan[k].own_stop)
Joined(samples, features) ==
    LET plan == chunks(samples)
    IN  [t \in 0..tokens(samples) - 1 |->
            LET i == CHOOSE k \in DOMAIN plan : plan[k].own_start <= t /\ t < plan[k].own_stop
            IN  features[i][t - plan[i].token_start]]
Contextual(samples) ==
    LET plan == chunks(samples)
        Tokens(i) == [j \in 0..plan[i].token_count - 1 |-> plan[i].token_start + j]
    IN  IF Admissible(plan, samples)
        THEN Joined(samples, [i \in DOMAIN plan |-> Encode(Tokens(i), HalfTokens)])
        ELSE Padding

-----------------------------------------------------------------------------
\* Readout windows: every window is as long as the others, the missing frames are zeros.
windows(length) ==
    [i \in 1..((length + Centers - 1) \div Centers) |->
        <<(i - 1) * Centers, Smaller(i * Centers, length)>>]
context(features, length, start) ==
    LET a == Larger(0, start - Halo)
        b == Smaller(length, start + Centers + Halo)
    IN  [j \in 0..Centers + 2 * Halo - 1 |->
            IF j >= a - start + Halo /\ j < b - start + Halo THEN features[start - Halo + j] ELSE Padding]
predict(length) ==
    [t \in 0..length - 1 |->
        LET i == t \div Centers + 1
            start == windows(length)[i][1]
        IN  Encode(context(Recording(length), length, start), Halo)[Halo + t - start]]

=============================================================================
